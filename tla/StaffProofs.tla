----------------------------- MODULE StaffProofs -----------------------------
(***************************************************************************)
(* Proofs about the staff: when a closed account is shut out                *)
(* (DeactivationBites) and which orders a supervisor is shown               *)
(* (LinkedIsVisible).                                                       *)
(***************************************************************************)
EXTENDS StaffSessions, StaffScope, TLAPS

(* DeactivationBites, for any accounts, requests and lifetimes.  By itself it is not       *)
(* inductive: an account could be closed long ago and have a token left, or be signed for  *)
(* now.  TokensInv says how old a token of a closed account must be, and for whom a        *)
(* request can be signing.                                                                 *)

\* A token left to an account has lost as much life as the account has been closed for; a
\* request signs for an account that was active within this unit of time.
TokensInv ==
    /\ TokensTypeOK
    /\ \A p \in Person : people[p] = "active" => barred[p] = 0
    /\ \A d \in Door : door[d] # NoPerson => barred[door[d]] = 0
    /\ \A p \in Person : \A n \in access[p] : n + barred[p] <= AccessLife

LEMMA TokensInitInv == TokensInit => TokensInv
  BY LifeAssumption DEF TokensInit, TokensInv, TokensTypeOK

LEMMA FoundKeepsInv ==
  ASSUME NEW p \in Person, NEW d \in Door, TokensInv, Found(p, d)
  PROVE  TokensInv'
  BY LifeAssumption DEF Found, TokensInv, TokensTypeOK

LEMMA SignKeepsInv ==
  ASSUME NEW d \in Door, TokensInv, Sign(d)
  PROVE  TokensInv'
<1> DEFINE p == door[d]
<1>1. p \in Person /\ barred[p] = 0
  BY DEF Sign, TokensInv, TokensTypeOK
<1>2. AccessLife \in 1 .. AccessLife /\ RefreshLife \in 1 .. RefreshLife
  BY LifeAssumption
<1>3. TokensTypeOK'
  BY <1>1, <1>2 DEF Sign, TokensInv, TokensTypeOK
<1>4. ASSUME NEW q \in Person, NEW n \in access'[q]
      PROVE  n + barred'[q] <= AccessLife
  <2>1. n \in access[q] \/ (q = p /\ n = AccessLife)
    BY <1>1 DEF Sign, TokensInv, TokensTypeOK
  <2>2. QED
    BY <1>1, <2>1, LifeAssumption DEF Sign, TokensInv, TokensTypeOK
<1>5. \A e \in Door : door'[e] # NoPerson => barred'[door'[e]] = 0
  BY DEF Sign, TokensInv, TokensTypeOK
<1>6. \A q \in Person : people'[q] = "active" => barred'[q] = 0
  BY DEF Sign, TokensInv
<1>7. QED
  BY <1>3, <1>4, <1>5, <1>6 DEF TokensInv

LEMMA SetActiveKeepsInv ==
  ASSUME NEW p \in Person, NEW on \in BOOLEAN, TokensInv, SetPersonActive(p, on)
  PROVE  TokensInv'
<1>1. TokensTypeOK'
  BY LifeAssumption DEF SetPersonActive, TokensInv, TokensTypeOK
<1>2. \A q \in Person : barred'[q] \in {0, barred[q]} /\ (people'[q] = "active" => barred'[q] = 0)
  BY DEF SetPersonActive, TokensInv, TokensTypeOK
<1>3. \A q \in Person : \A n \in access'[q] : n + barred'[q] <= AccessLife
  BY <1>2, LifeAssumption DEF SetPersonActive, TokensInv, TokensTypeOK
<1>4. \A e \in Door : door'[e] # NoPerson => barred'[door'[e]] = 0
  BY <1>2 DEF SetPersonActive, TokensInv, TokensTypeOK
<1>5. QED
  BY <1>1, <1>2, <1>3, <1>4 DEF TokensInv

LEMMA DeletedKeepsInv ==
  ASSUME NEW p \in Person, TokensInv, PersonDeleted(p)
  PROVE  TokensInv'
  BY LifeAssumption DEF PersonDeleted, TokensInv, TokensTypeOK

\* What is left of a token falls by one wherever the time since the closing grows by one.
LEMMA TimeKeepsInv ==
  ASSUME TokensInv, TimePasses
  PROVE  TokensInv'
<1>1. \A s \in SUBSET (1 .. AccessLife) : Older(s) \subseteq 1 .. AccessLife
  BY LifeAssumption DEF Older
<1>2. \A s \in SUBSET (1 .. RefreshLife) : Older(s) \subseteq 1 .. RefreshLife
  BY LifeAssumption DEF Older
<1>3. TokensTypeOK'
  <2>1. access' \in [Person -> SUBSET (1 .. AccessLife)]
    BY <1>1 DEF TimePasses, TokensInv, TokensTypeOK
  <2>2. renewal' \in [Person -> SUBSET (1 .. RefreshLife)]
    BY <1>2 DEF TimePasses, TokensInv, TokensTypeOK
  <2>3. barred' \in [Person -> 0 .. AccessLife]
    BY LifeAssumption DEF TimePasses, TokensInv, TokensTypeOK
  <2>4. QED
    BY <2>1, <2>2, <2>3 DEF TimePasses, TokensInv, TokensTypeOK
<1>4. ASSUME NEW q \in Person, NEW n \in access'[q]
      PROVE  n + barred'[q] <= AccessLife
  <2>1. PICK m \in access[q] : n = m - 1 /\ m \in 1 .. AccessLife
    BY DEF TimePasses, Older, TokensInv, TokensTypeOK
  <2>2. m + barred[q] <= AccessLife /\ barred[q] \in 0 .. AccessLife
    BY DEF TokensInv, TokensTypeOK
  <2>3. barred'[q] \in {barred[q], barred[q] + 1}
    BY DEF TimePasses
  <2>4. QED
    BY <2>1, <2>2, <2>3, LifeAssumption
<1>5. QED
  BY <1>3, <1>4 DEF TimePasses, TokensInv

LEMMA TokensStepInv == TokensInv /\ [TokensNext]_tokenVars => TokensInv'
<1> SUFFICES ASSUME TokensInv, [TokensNext]_tokenVars
             PROVE  TokensInv'
  OBVIOUS
<1>1. ASSUME NEW p \in Person, NEW d \in Door, LogIn(p, d) \/ RefreshPair(p, d)
      PROVE  TokensInv'
  BY <1>1, FoundKeepsInv DEF LogIn, RefreshPair
<1>2. ASSUME NEW d \in Door, Sign(d)
      PROVE  TokensInv'
  BY <1>2, SignKeepsInv
<1>3. ASSUME NEW p \in Person, NEW on \in BOOLEAN, SetPersonActive(p, on)
      PROVE  TokensInv'
  BY <1>3, SetActiveKeepsInv
<1>4. ASSUME NEW p \in Person, PersonDeleted(p)
      PROVE  TokensInv'
  BY <1>4, DeletedKeepsInv
<1>5. CASE TimePasses
  BY <1>5, TimeKeepsInv
<1>6. CASE UNCHANGED tokenVars
  BY <1>6 DEF tokenVars, TokensInv, TokensTypeOK
<1>7. QED
  BY <1>1, <1>2, <1>3, <1>4, <1>5, <1>6 DEF TokensNext

LEMMA TokensInvAlways == TokensSpec => []TokensInv
  BY TokensInitInv, TokensStepInv, PTL DEF TokensSpec

\* Every variable keeps its type.
THEOREM TokensTypeSafe == TokensSpec => []TokensTypeOK
<1>1. TokensInv => TokensTypeOK
  BY DEF TokensInv
<1>2. QED
  BY <1>1, TokensInvAlways, PTL

\* An account that has been closed for an access token's lifetime has no access token left,
\* though no request looks at the account and a pair may be signed for it after it was closed.
THEOREM ClosedIsShutOut == TokensSpec => []DeactivationBites
<1>1. TokensInv => DeactivationBites
  <2> SUFFICES ASSUME TokensInv, NEW p \in Person, barred[p] = AccessLife, NEW n \in access[p]
               PROVE  FALSE
    BY DEF DeactivationBites
  <2>1. n \in 1 .. AccessLife /\ n + barred[p] <= AccessLife
    BY DEF TokensInv, TokensTypeOK
  <2>2. QED
    BY <2>1, LifeAssumption
<1>2. QED
  BY <1>1, TokensInvAlways, PTL

-----------------------------------------------------------------------------
(* LinkedIsVisible, for any staff, companies, branches, stores and captains.  The scope    *)
(* asks a's company and branch when it reads; the links were checked against the company   *)
(* and branch of the store or captain when they were written, and an order's captain       *)
(* against the order's branch: ScopeInv carries those checks from the writes to the reads. *)

\* The supervisors of stores and captains are of their company and branch.
LinksValid ==
    /\ \A s \in Shop : There(shop[s]) => LinkValid(shop[s].supervisor, shop[s].branch)
    /\ \A r \in Rider : There(rider[r]) => LinkValid(rider[r].supervisor, rider[r].branch)

\* An order's store exists, and its captain, if any, is of the store's branch.
JobsPlaced ==
    \A j \in Job : There(job[j]) =>
        /\ There(shop[job[j].shop])
        /\ job[j].rider # NoRider =>
             /\ There(rider[job[j].rider])
             /\ rider[job[j].rider].branch = BranchOfJob(j)

ScopeInv == ScopeTypeOK /\ LinksValid /\ JobsPlaced

LEMMA ScopeInitInv == ScopeInit => ScopeInv
  BY DEF ScopeInit, ScopeInv, ScopeTypeOK, LinksValid, JobsPlaced, There

LEMMA StaffBranchesAreBranches ==
  ASSUME NEW u \in Account, NEW asked \in Branch \cup {NoBranch}
  PROVE  StaffBranches(u, asked) \subseteq Branch
<1> DEFINE k == CompanyOfMember(u)
           own == {br \in Branch : k = NoCompany \/ CompanyOf[br] = k}
<1>1. own \subseteq Branch
  OBVIOUS
<1>2. StaffBranches(u, asked) \in {{}, own \cap {asked}, {Member[u].branch}, own}
  BY DEF StaffBranches
<1>3. StaffBranches(u, asked) = {Member[u].branch} => Member[u].branch \in Branch
  BY DEF StaffBranches
<1>4. QED
  BY <1>1, <1>2, <1>3

\* A shop that is made or linked again has a valid link and keeps its branch.
LEMMA ShopWritten ==
  ASSUME ScopeInv, NEW s \in Shop, NEW br \in Branch, NEW u \in Account \cup {NoAccount}, LinkValid(u, br),
         There(shop[s]) => br = shop[s].branch,
         shop' = [shop EXCEPT ![s] = [branch |-> br, supervisor |-> u]],
         UNCHANGED <<rider, job>>
  PROVE  ScopeInv'
<1> DEFINE row == [branch |-> br, supervisor |-> u]
<1>1. row \in Linked /\ There(row)
  BY ScopeAssumption DEF ScopeAssumption, Linked, There
<1>2. shop'[s] = row /\ \A t \in Shop \ {s} : shop'[t] = shop[t]
  BY DEF ScopeInv, ScopeTypeOK
<1>3. ScopeTypeOK'
  BY <1>1 DEF ScopeInv, ScopeTypeOK
<1>4. LinksValid'
  BY <1>1, <1>2 DEF ScopeInv, LinksValid, LinkValid, There
<1>5. ASSUME NEW j \in Job, There(job[j])
      PROVE  There(shop'[job[j].shop]) /\ shop'[job[j].shop].branch = shop[job[j].shop].branch
  <2>1. job[j].shop \in Shop /\ There(shop[job[j].shop])
    BY <1>5 DEF ScopeInv, ScopeTypeOK, JobsPlaced, JobRow, There
  <2>2. QED
    BY <1>1, <1>2, <2>1
<1>6. JobsPlaced'
  BY <1>5 DEF ScopeInv, JobsPlaced, BranchOfJob, There
<1>7. QED
  BY <1>3, <1>4, <1>6 DEF ScopeInv

LEMMA RiderWritten ==
  ASSUME ScopeInv, NEW r \in Rider, NEW br \in Branch, NEW u \in Account \cup {NoAccount}, LinkValid(u, br),
         There(rider[r]) => br = rider[r].branch,
         rider' = [rider EXCEPT ![r] = [branch |-> br, supervisor |-> u]],
         UNCHANGED <<shop, job>>
  PROVE  ScopeInv'
<1> DEFINE row == [branch |-> br, supervisor |-> u]
<1>1. row \in Linked /\ There(row)
  BY ScopeAssumption DEF ScopeAssumption, Linked, There
<1>2. rider'[r] = row /\ \A t \in Rider \ {r} : rider'[t] = rider[t]
  BY DEF ScopeInv, ScopeTypeOK
<1>3. ScopeTypeOK'
  BY <1>1 DEF ScopeInv, ScopeTypeOK
<1>4. LinksValid'
  BY <1>1, <1>2 DEF ScopeInv, LinksValid, LinkValid, There
<1>5. ASSUME NEW j \in Job, There(job[j]), job[j].rider # NoRider
      PROVE  There(rider'[job[j].rider]) /\ rider'[job[j].rider].branch = rider[job[j].rider].branch
  <2>1. job[j].rider \in Rider /\ There(rider[job[j].rider])
    BY <1>5 DEF ScopeInv, ScopeTypeOK, JobsPlaced, JobRow, There
  <2>2. QED
    BY <1>1, <1>2, <2>1
<1>6. JobsPlaced'
  BY <1>5 DEF ScopeInv, JobsPlaced, BranchOfJob, There
<1>7. QED
  BY <1>3, <1>4, <1>6 DEF ScopeInv

\* An order that is made, given or archived keeps to a store that is there and to a captain of
\* its branch.
LEMMA JobWritten ==
  ASSUME ScopeInv, NEW j \in Job, NEW row \in JobRow, job' = [job EXCEPT ![j] = row],
         There(shop[row.shop]),
         row.rider # NoRider => There(rider[row.rider]) /\ rider[row.rider].branch = shop[row.shop].branch,
         UNCHANGED <<shop, rider>>
  PROVE  ScopeInv'
<1>1. job'[j] = row /\ \A i \in Job \ {j} : job'[i] = job[i]
  BY DEF ScopeInv, ScopeTypeOK
<1>2. ScopeTypeOK'
  BY DEF ScopeInv, ScopeTypeOK
<1>3. LinksValid'
  BY DEF ScopeInv, LinksValid, LinkValid, There
<1>4. JobsPlaced'
  BY <1>1 DEF ScopeInv, JobsPlaced, BranchOfJob, There
<1>5. QED
  BY <1>2, <1>3, <1>4 DEF ScopeInv

LEMMA ShopsKeepInv ==
  ASSUME ScopeInv, NEW c \in Account, NEW s \in Shop, NEW asked \in Branch \cup {NoBranch},
         NEW u \in Account \cup {NoAccount}, CreateShop(c, s, asked, u) \/ UpdateShop(c, s, u)
  PROVE  ScopeInv'
<1>1. CASE CreateShop(c, s, asked, u)
  BY <1>1, ShopWritten, StaffBranchesAreBranches DEF CreateShop
<1>2. CASE UpdateShop(c, s, u)
  <2>1. shop[s] \in Linked
    BY <1>2 DEF UpdateShop, ScopeInv, ScopeTypeOK, There
  <2>2. shop' = [shop EXCEPT ![s] = [branch |-> shop[s].branch, supervisor |-> u]]
    <3>1. [shop[s] EXCEPT !.supervisor = u] = [branch |-> shop[s].branch, supervisor |-> u]
      BY <2>1 DEF Linked
    <3>2. shop' = [shop EXCEPT ![s] = [shop[s] EXCEPT !.supervisor = u]]
      BY <1>2 DEF UpdateShop
    <3>3. QED
      BY <3>1, <3>2
  <2>3. shop[s].branch \in Branch
    BY <2>1 DEF Linked
  <2>4. LinkValid(u, shop[s].branch) /\ UNCHANGED <<rider, job>>
    BY <1>2 DEF UpdateShop
  <2>5. QED
    BY <2>2, <2>3, <2>4, ShopWritten
<1>3. QED
  BY <1>1, <1>2

LEMMA RidersKeepInv ==
  ASSUME ScopeInv, NEW c \in Account, NEW r \in Rider, NEW asked \in Branch \cup {NoBranch},
         NEW u \in Account \cup {NoAccount}, CreateRider(c, r, asked, u) \/ UpdateRider(c, r, u)
  PROVE  ScopeInv'
<1>1. CASE CreateRider(c, r, asked, u)
  BY <1>1, RiderWritten, StaffBranchesAreBranches DEF CreateRider
<1>2. CASE UpdateRider(c, r, u)
  <2>1. rider[r] \in Linked
    BY <1>2 DEF UpdateRider, ScopeInv, ScopeTypeOK, There
  <2>2. rider' = [rider EXCEPT ![r] = [branch |-> rider[r].branch, supervisor |-> u]]
    <3>1. [rider[r] EXCEPT !.supervisor = u] = [branch |-> rider[r].branch, supervisor |-> u]
      BY <2>1 DEF Linked
    <3>2. rider' = [rider EXCEPT ![r] = [rider[r] EXCEPT !.supervisor = u]]
      BY <1>2 DEF UpdateRider
    <3>3. QED
      BY <3>1, <3>2
  <2>3. rider[r].branch \in Branch
    BY <2>1 DEF Linked
  <2>4. LinkValid(u, rider[r].branch) /\ UNCHANGED <<shop, job>>
    BY <1>2 DEF UpdateRider
  <2>5. QED
    BY <2>2, <2>3, <2>4, RiderWritten
<1>3. QED
  BY <1>1, <1>2

\* Every order of a deleted captain loses him.
LEMMA DeleteKeepsInv ==
  ASSUME ScopeInv, NEW c \in Account, NEW r \in Rider, DeleteRider(c, r)
  PROVE  ScopeInv'
<1>1. \A q \in Rider \ {r} : rider'[q] = rider[q]
  BY DEF DeleteRider, ScopeInv, ScopeTypeOK
<1>2. ~There(rider'[r])
  BY DEF DeleteRider, ScopeInv, ScopeTypeOK, There
<1>3. ASSUME NEW j \in Job, There(job[j])
      PROVE  /\ job[j] \in JobRow /\ job'[j] \in JobRow /\ There(job'[j])
             /\ job'[j].shop = job[j].shop
             /\ job'[j].rider = IF job[j].rider = r THEN NoRider ELSE job[j].rider
  <2>1. job[j] \in JobRow
    BY <1>3 DEF ScopeInv, ScopeTypeOK, There
  <2>2. job'[j] = IF job[j].rider = r THEN [job[j] EXCEPT !.rider = NoRider] ELSE job[j]
    BY <1>3 DEF DeleteRider
  <2>3. job'[j] \in JobRow
    BY <2>1, <2>2 DEF JobRow
  <2>4. There(job'[j])
    BY <2>3, ScopeAssumption DEF ScopeAssumption, There
  <2>5. QED
    BY <2>1, <2>2, <2>3, <2>4 DEF JobRow
<1>4. \A j \in Job : ~There(job[j]) => job'[j] = job[j]
  BY DEF DeleteRider
<1>5. ScopeTypeOK'
  <2>1. job' \in [Job -> JobRow \cup {NotYet}]
    <3>1. \A j \in Job : job'[j] \in JobRow \cup {NotYet}
      BY <1>3, <1>4 DEF ScopeInv, ScopeTypeOK, There
    <3>2. QED
      BY <3>1 DEF DeleteRider
  <2>2. QED
    BY <2>1 DEF DeleteRider, ScopeInv, ScopeTypeOK
<1>6. LinksValid'
  BY <1>1, <1>2 DEF DeleteRider, ScopeInv, LinksValid, LinkValid, There
<1>7. JobsPlaced'
  <2> SUFFICES ASSUME NEW j \in Job, There(job'[j])
               PROVE  /\ There(shop'[job'[j].shop])
                      /\ job'[j].rider # NoRider =>
                           /\ There(rider'[job'[j].rider])
                           /\ rider'[job'[j].rider].branch = shop'[job'[j].shop].branch
    BY DEF JobsPlaced, BranchOfJob, There
  <2>1. There(job[j])
    BY <1>4
  <2>2. shop' = shop
    BY DEF DeleteRider
  <2>3. job'[j].rider # NoRider => job[j].rider \in Rider \ {r}
    BY <1>3, <2>1 DEF JobRow
  <2>4. QED
    BY <1>1, <1>3, <2>1, <2>2, <2>3 DEF ScopeInv, JobsPlaced, BranchOfJob
<1>8. QED
  BY <1>5, <1>6, <1>7 DEF ScopeInv

LEMMA CreatedKeepsInv ==
  ASSUME ScopeInv, NEW c \in Account, NEW j \in Job, NEW s \in Shop, CreateJobFor(c, j, s)
  PROVE  ScopeInv'
<1>1. NewJob(s) \in JobRow /\ NewJob(s).rider = NoRider /\ NewJob(s).shop = s
  BY DEF NewJob, JobRow
<1>2. QED
  BY <1>1, JobWritten DEF CreateJobFor

LEMMA JobsKeepInv ==
  ASSUME ScopeInv, NEW j \in Job, NEW r \in Rider \cup {NoRider}, NEW arch \in BOOLEAN,
         Give(j, r) \/ SetArchived(j, arch)
  PROVE  ScopeInv'
<1> DEFINE row == [shop |-> job[j].shop, rider |-> IF Give(j, r) THEN r ELSE job[j].rider,
                   archived |-> IF Give(j, r) THEN job[j].archived ELSE arch]
<1>1. There(job[j]) /\ job[j] \in JobRow
  BY DEF Give, SetArchived, ScopeInv, ScopeTypeOK, There
<1>2. row \in JobRow
  BY <1>1 DEF JobRow
<1>3. job' = [job EXCEPT ![j] = row]
  <2>1. CASE Give(j, r)
    <3>1. row = [shop |-> job[j].shop, rider |-> r, archived |-> job[j].archived]
      BY <2>1
    <3>2. row = [job[j] EXCEPT !.rider = r]
      BY <1>1, <3>1 DEF JobRow
    <3>3. job' = [job EXCEPT ![j].rider = r]
      BY <2>1 DEF Give
    <3> QED
      BY <3>2, <3>3
  <2>2. CASE ~Give(j, r)
    BY <1>1, <2>2 DEF SetArchived, JobRow
  <2>3. QED
    BY <2>1, <2>2
<1>4. There(shop[row.shop])
  BY <1>1 DEF ScopeInv, JobsPlaced
<1>5. row.rider # NoRider => There(rider[row.rider]) /\ rider[row.rider].branch = shop[row.shop].branch
  <2>1. CASE Give(j, r)
    BY <2>1 DEF Give, BranchOfJob
  <2>2. CASE ~Give(j, r)
    BY <1>1, <2>2 DEF ScopeInv, JobsPlaced, BranchOfJob
  <2>3. QED
    BY <2>1, <2>2
<1>6. UNCHANGED <<shop, rider>>
  BY DEF Give, SetArchived
<1>7. QED
  BY <1>2, <1>3, <1>4, <1>5, <1>6, JobWritten

\* The store made for an order has no supervisor, and the order, if it is taken, no captain.
LEMMA AnyShopKeepsInv ==
  ASSUME ScopeInv, NEW c \in Account, NEW j \in Job, NEW s \in Shop, CreateJobAnyShop(c, j, s)
  PROVE  ScopeInv'
<1>1. PICK k \in Company :
        /\ ~There(job[j]) /\ ~There(shop[s])
        /\ shop' = [shop EXCEPT ![s] = [branch |-> FirstBranch[k], supervisor |-> NoAccount]]
        /\ job' \in {[job EXCEPT ![j] = NewJob(s)], job}
        /\ UNCHANGED rider
  BY DEF CreateJobAnyShop
<1> DEFINE row == [branch |-> FirstBranch[k], supervisor |-> NoAccount]
<1>2. row \in Linked /\ There(row) /\ LinkValid(row.supervisor, row.branch)
  BY ScopeAssumption DEF ScopeAssumption, Linked, There, LinkValid
<1>3. shop'[s] = row /\ \A t \in Shop \ {s} : shop'[t] = shop[t]
  BY <1>1 DEF ScopeInv, ScopeTypeOK
<1>4. NewJob(s) \in JobRow /\ NewJob(s).rider = NoRider /\ NewJob(s).shop = s
  BY DEF NewJob, JobRow
<1>5. ScopeTypeOK'
  <2>1. shop' \in [Shop -> Linked \cup {NotYet}]
    BY <1>1, <1>2 DEF ScopeInv, ScopeTypeOK
  <2>2. job' \in [Job -> JobRow \cup {NotYet}]
    BY <1>1, <1>4 DEF ScopeInv, ScopeTypeOK
  <2>3. QED
    BY <1>1, <2>1, <2>2 DEF ScopeInv, ScopeTypeOK
<1>6. LinksValid'
  BY <1>1, <1>2, <1>3 DEF ScopeInv, LinksValid, LinkValid, There
<1>7. JobsPlaced'
  <2> SUFFICES ASSUME NEW i \in Job, There(job'[i])
               PROVE  /\ There(shop'[job'[i].shop])
                      /\ job'[i].rider # NoRider =>
                           /\ There(rider'[job'[i].rider])
                           /\ rider'[job'[i].rider].branch = shop'[job'[i].shop].branch
    BY DEF JobsPlaced, BranchOfJob, There
  <2>1. CASE job'[i] = NewJob(s)
    BY <1>2, <1>3, <1>4, <2>1
  <2>2. CASE job'[i] = job[i]
    <3>1. job[i].shop \in Shop /\ There(shop[job[i].shop])
      BY <2>2 DEF ScopeInv, ScopeTypeOK, JobsPlaced, JobRow, There
    <3>2. shop'[job[i].shop] = shop[job[i].shop]
      BY <1>1, <1>3, <3>1
    <3>3. QED
      BY <1>1, <2>2, <3>1, <3>2 DEF ScopeInv, JobsPlaced, BranchOfJob
  <2>3. QED
    BY <1>1, <2>1, <2>2 DEF ScopeInv, ScopeTypeOK
<1>8. QED
  BY <1>5, <1>6, <1>7 DEF ScopeInv

LEMMA ScopeStepInv == ScopeInv /\ [ScopeNext]_scopeVars => ScopeInv'
<1> SUFFICES ASSUME ScopeInv, [ScopeNext]_scopeVars PROVE ScopeInv'
  OBVIOUS
<1>1. ASSUME NEW c \in Account, NEW s \in Shop, NEW asked \in Branch \cup {NoBranch},
             NEW u \in Account \cup {NoAccount}, CreateShop(c, s, asked, u)
      PROVE  ScopeInv'
  BY <1>1, ShopsKeepInv
<1>2. ASSUME NEW c \in Account, NEW r \in Rider, NEW asked \in Branch \cup {NoBranch},
             NEW u \in Account \cup {NoAccount}, CreateRider(c, r, asked, u)
      PROVE  ScopeInv'
  BY <1>2, RidersKeepInv
<1>3. ASSUME NEW c \in Account, NEW u \in Account \cup {NoAccount}, NEW s \in Shop, UpdateShop(c, s, u)
      PROVE  ScopeInv'
  BY <1>3, ShopsKeepInv
<1>4. ASSUME NEW c \in Account, NEW u \in Account \cup {NoAccount}, NEW r \in Rider, UpdateRider(c, r, u)
      PROVE  ScopeInv'
  BY <1>4, RidersKeepInv
<1>5. ASSUME NEW c \in Account, NEW r \in Rider, DeleteRider(c, r)
      PROVE  ScopeInv'
  BY <1>5, DeleteKeepsInv
<1>6. ASSUME NEW c \in Account, NEW j \in Job, NEW s \in Shop, CreateJobFor(c, j, s)
      PROVE  ScopeInv'
  BY <1>6, CreatedKeepsInv
<1>7. ASSUME NEW c \in Account, NEW j \in Job, NEW s \in Shop, CreateJobAnyShop(c, j, s)
      PROVE  ScopeInv'
  BY <1>7, AnyShopKeepsInv
<1>8. ASSUME NEW j \in Job, NEW r \in Rider \cup {NoRider}, Give(j, r)
      PROVE  ScopeInv'
  BY <1>8, JobsKeepInv
<1>9. ASSUME NEW j \in Job, NEW arch \in BOOLEAN, SetArchived(j, arch)
      PROVE  ScopeInv'
  BY <1>9, JobsKeepInv
<1>10. CASE UNCHANGED scopeVars
  BY <1>10 DEF scopeVars, ScopeInv, ScopeTypeOK, LinksValid, LinkValid, JobsPlaced, BranchOfJob, There
<1>11. QED
  BY <1>1, <1>2, <1>3, <1>4, <1>5, <1>6, <1>7, <1>8, <1>9, <1>10 DEF ScopeNext

LEMMA ScopeInvAlways == ScopeSpec => []ScopeInv
  BY ScopeInitInv, ScopeStepInv, PTL DEF ScopeSpec

\* Every variable keeps its type.
THEOREM ScopeTypeSafe == ScopeSpec => []ScopeTypeOK
<1>1. ScopeInv => ScopeTypeOK
  BY DEF ScopeInv
<1>2. QED
  BY <1>1, ScopeInvAlways, PTL

\* A valid link puts the branch in the reach of the supervisor.
LEMMA LinkReaches ==
  ASSUME NEW u \in Account, NEW br \in Branch, LinkValid(u, br)
  PROVE  br \in Reach(u)
<1>1. u # NoAccount /\ Member[u].company = CompanyOf[br] /\ Member[u].branch \in {NoBranch, br}
  BY ScopeAssumption DEF ScopeAssumption, LinkValid
<1>2. CompanyOfMember(u) = CompanyOf[br]
  BY <1>1, ScopeAssumption DEF ScopeAssumption, CompanyOfMember
<1>3. QED
  BY <1>1, <1>2 DEF Reach

\* Whoever is linked to a store or a captain sees its unarchived orders, in the list and by id.
THEOREM SupervisorsSeeTheirOrders == ScopeSpec => []LinkedIsVisible
<1>1. ScopeInv => LinkedIsVisible
  <2> SUFFICES ASSUME ScopeInv, NEW u \in Account, NEW j \in Job, There(job[j]), ~job[j].archived,
                      \/ shop[job[j].shop].supervisor = u
                      \/ job[j].rider # NoRider /\ rider[job[j].rider].supervisor = u
               PROVE  j \in Listed(u) /\ Opens(u, j)
    BY DEF LinkedIsVisible
  <2> DEFINE s == job[j].shop
             r == job[j].rider
             br == BranchOfJob(j)
  <2>1. s \in Shop /\ There(shop[s]) /\ br \in Branch /\ br = shop[s].branch
    BY DEF ScopeInv, ScopeTypeOK, JobsPlaced, JobRow, Linked, There, BranchOfJob
  <2>2. br \in Reach(u) /\ Supervised(u, j)
    <3>1. CASE shop[s].supervisor = u
      <4>1. br \in Reach(u)
        BY <2>1, <3>1, LinkReaches DEF ScopeInv, LinksValid
      <4>2. QED
        BY <2>1, <3>1, <4>1 DEF SupervisedShops, Supervised
    <3>2. CASE r # NoRider /\ rider[r].supervisor = u
      <4>1. r \in Rider /\ There(rider[r]) /\ rider[r].branch = br
        BY <3>2 DEF ScopeInv, ScopeTypeOK, JobsPlaced, JobRow, There
      <4>2. br \in Reach(u)
        BY <2>1, <3>2, <4>1, LinkReaches DEF ScopeInv, LinksValid
      <4>3. QED
        BY <3>2, <4>1, <4>2 DEF SupervisedRiders, Supervised
    <3>3. QED
      BY <3>1, <3>2
  <2>3. QED
    BY <2>2 DEF Listed, Opens, MayAccess
<1>2. QED
  BY <1>1, ScopeInvAlways, PTL
=============================================================================
