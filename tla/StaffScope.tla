------------------------------ MODULE StaffScope ------------------------------
(***************************************************************************)
(* Which orders a member of the staff is shown: the company and branch of    *)
(* his account, and the stores and captains he supervises.  Shops and riders *)
(* are created and linked to a supervisor, orders created and given to        *)
(* riders, each by its own service with its own checks.                     *)
(*                                                                         *)
(* A token's company and branch are a copy of the account's row, or missing  *)
(* and then read from it; no endpoint changes them, nor the branch of a shop  *)
(* or rider.  A shop that is not active takes no new orders: left out.       *)
(***************************************************************************)
EXTENDS FiniteSets, Naturals

CONSTANTS
    Account, NoAccount,
    Member,             \* Member[a]: the account's role, company and branch
    Company, NoCompany,
    Branch, NoBranch,
    CompanyOf,          \* the company of a branch
    FirstBranch,        \* the oldest active branch of a company
    Shop, Rider, NoRider,
    Job, NotYet

StaffRole == {"SUPER_ADMIN", "ADMIN", "COMPANY_ADMIN", "BRANCH_MANAGER", "DISPATCHER"}

Linked == [branch : Branch, supervisor : Account \cup {NoAccount}]
JobRow == [shop : Shop, rider : Rider \cup {NoRider}, archived : BOOLEAN]

ScopeAssumption ==
    /\ CompanyOf \in [Branch -> Company]
    /\ FirstBranch \in [Company -> Branch]
    /\ \A k \in Company : CompanyOf[FirstBranch[k]] = k
    /\ NoAccount \notin Account /\ NoCompany \notin Company /\ NoBranch \notin Branch
    /\ NoRider \notin Rider /\ NotYet \notin Linked \cup JobRow
    /\ Member \in [Account -> [role : StaffRole, company : Company \cup {NoCompany}, branch : Branch \cup {NoBranch}]]

ASSUME ScopeAssumption

VARIABLES
    shop,       \* shop[s]: its branch and supervisor (SUPERVISOR_LINKED, or nobody: PUBLIC)
    rider,      \* rider[r]: his branch and supervisor
    job         \* job[j]: the order's shop, captain and archive mark

scopeVars == <<shop, rider, job>>

There(x) == x # NotYet

ScopeInit ==
    /\ shop = [s \in Shop |-> NotYet]
    /\ rider = [r \in Rider |-> NotYet]
    /\ job = [j \in Job |-> NotYet]

-----------------------------------------------------------------------------
(* The tenant scope *)

\* The only company there is stands in for a missing one.
CompanyOfMember(a) ==
    IF Member[a].company # NoCompany THEN Member[a].company
    ELSE IF Cardinality(Company) = 1 THEN CHOOSE k \in Company : TRUE
    ELSE NoCompany

\* The super administrator, and the legacy one without a company, are not filtered.
Unfiltered(a) ==
    \/ Member[a].role = "SUPER_ADMIN"
    \/ Member[a].role = "ADMIN" /\ Member[a].company = NoCompany /\ Member[a].branch = NoBranch

\* The branches a filtered request of a reaches; none when it is refused.
Reach(a) ==
    LET k == CompanyOfMember(a)
        own == {b \in Branch : CompanyOf[b] = k}
    IN  IF Member[a].branch = NoBranch THEN own ELSE own \cap {Member[a].branch}

\* assertStaffCanAccessOrder, assertStaffCanAccessCaptain
MayAccess(a, b) == Unfiltered(a) \/ b \in Reach(a)

\* The stores service compares with the company of the filter, also when it has none.
MayChangeShop(a, b) == ~Unfiltered(a) /\ b \in Reach(a)

\* resolveBranchIdForStaffOperation: the branch asked for, else the account's, else the only one.
StaffBranches(a, asked) ==
    LET k == CompanyOfMember(a)
        own == {b \in Branch : k = NoCompany \/ CompanyOf[b] = k}
    IN  IF k = NoCompany /\ Member[a].role # "SUPER_ADMIN" THEN {}
        ELSE IF asked # NoBranch THEN own \cap {asked}
        ELSE IF Member[a].branch \in own THEN {Member[a].branch}
        ELSE IF Cardinality(own) = 1 THEN own
        ELSE {}

-----------------------------------------------------------------------------
(* Supervisors *)

\* Mutant: a supervisor's branch is not compared.
LinkValidInCompany(u, b) ==
    u # NoAccount =>
        /\ Member[u].company = CompanyOf[b]
        /\ Member[u].role \in {"COMPANY_ADMIN", "BRANCH_MANAGER", "DISPATCHER"}

\* A supervisor is of the company, of an allowed role, and of the branch if he has one.
LinkValid(u, b) ==
    u # NoAccount =>
        /\ Member[u].company = CompanyOf[b]
        /\ Member[u].role \in {"COMPANY_ADMIN", "BRANCH_MANAGER", "DISPATCHER"}
        /\ Member[u].branch \in {NoBranch, b}

SupervisedShops(a) ==
    {s \in Shop : There(shop[s]) /\ shop[s].supervisor = a /\ shop[s].branch \in Reach(a)}

SupervisedRiders(a) ==
    {r \in Rider : There(rider[r]) /\ rider[r].supervisor = a /\ rider[r].branch \in Reach(a)}

\* Managers and dispatchers who supervise anything see what they supervise only.
Narrowed(a) ==
    /\ Member[a].role \in {"BRANCH_MANAGER", "DISPATCHER"}
    /\ SupervisedShops(a) \cup SupervisedRiders(a) # {}

Supervised(a, j) == job[j].shop \in SupervisedShops(a) \/ job[j].rider \in SupervisedRiders(a)

BranchOfJob(j) == shop[job[j].shop].branch

\* The order list.
Listed(a) ==
    {j \in Job : /\ There(job[j]) /\ ~job[j].archived
                 /\ Unfiltered(a) \/ BranchOfJob(j) \in Reach(a)
                 /\ Narrowed(a) => Supervised(a, j)}

\* An order by its id.
Opens(a, j) ==
    /\ There(job[j])
    /\ MayAccess(a, BranchOfJob(j))
    /\ Narrowed(a) => Supervised(a, j)

-----------------------------------------------------------------------------
(* The services *)

CreateShop(a, s, asked, u) ==
    /\ ~There(shop[s])
    /\ \E b \in StaffBranches(a, asked) :
         /\ LinkValid(u, b)
         /\ shop' = [shop EXCEPT ![s] = [branch |-> b, supervisor |-> u]]
    /\ UNCHANGED <<rider, job>>

UpdateShop(a, s, u) ==
    /\ There(shop[s]) /\ MayChangeShop(a, shop[s].branch)
    /\ LinkValid(u, shop[s].branch)
    /\ shop' = [shop EXCEPT ![s].supervisor = u]
    /\ UNCHANGED <<rider, job>>

CreateRider(a, r, asked, u) ==
    /\ ~There(rider[r])
    /\ \E b \in StaffBranches(a, asked) :
         /\ LinkValid(u, b)
         /\ rider' = [rider EXCEPT ![r] = [branch |-> b, supervisor |-> u]]
    /\ UNCHANGED <<shop, job>>

UpdateRider(a, r, u) ==
    /\ There(rider[r]) /\ MayAccess(a, rider[r].branch)
    /\ LinkValid(u, rider[r].branch)
    /\ rider' = [rider EXCEPT ![r].supervisor = u]
    /\ UNCHANGED <<shop, job>>

\* A rider without open orders is deleted; closed ones keep no captain.
DeleteRider(a, r) ==
    /\ There(rider[r]) /\ MayAccess(a, rider[r].branch)
    /\ rider' = [rider EXCEPT ![r] = NotYet]
    /\ job' = [j \in Job |-> IF There(job[j]) /\ job[j].rider = r THEN [job[j] EXCEPT !.rider = NoRider] ELSE job[j]]
    /\ UNCHANGED shop

NewJob(s) == [shop |-> s, rider |-> NoRider, archived |-> FALSE]

\* For a shop of the creator's reach.
CreateJobFor(a, j, s) ==
    /\ ~There(job[j]) /\ There(shop[s]) /\ MayChangeShop(a, shop[s].branch)
    /\ job' = [job EXCEPT ![j] = NewJob(s)]
    /\ UNCHANGED <<shop, rider>>

\* Without a shop to name and none in his reach, one is made in the oldest branch of the
\* company (of all, for whoever is not filtered); outside of the creator's branch it stays and
\* the order is refused.
CreateJobAnyShop(a, j, s) ==
    \E k \in IF Unfiltered(a) THEN Company ELSE {CompanyOfMember(a)} \cap Company :
        /\ ~There(job[j]) /\ ~There(shop[s])
        /\ \A t \in Shop : There(shop[t]) => ~MayAccess(a, shop[t].branch)
        /\ shop' = [shop EXCEPT ![s] = [branch |-> FirstBranch[k], supervisor |-> NoAccount]]
        /\ job' = IF MayChangeShop(a, FirstBranch[k]) THEN [job EXCEPT ![j] = NewJob(s)] ELSE job
        /\ UNCHANGED rider

\* Mutant: a rider of another branch of the company.
GiveAnyRider(j, r) ==
    /\ There(job[j]) /\ ~job[j].archived
    /\ r # NoRider => There(rider[r]) /\ CompanyOf[rider[r].branch] = CompanyOf[BranchOfJob(j)]
    /\ job' = [job EXCEPT ![j].rider = r]
    /\ UNCHANGED <<shop, rider>>

\* An offer or assignment, of the desk or the chain: a rider of the order's branch; or none.
Give(j, r) ==
    /\ There(job[j]) /\ ~job[j].archived
    /\ r # NoRider => There(rider[r]) /\ rider[r].branch = BranchOfJob(j)
    /\ job' = [job EXCEPT ![j].rider = r]
    /\ UNCHANGED <<shop, rider>>

SetArchived(j, b) ==
    /\ There(job[j])
    /\ job' = [job EXCEPT ![j].archived = b]
    /\ UNCHANGED <<shop, rider>>

ScopeNext ==
    \/ \E a \in Account, s \in Shop, asked \in Branch \cup {NoBranch}, u \in Account \cup {NoAccount} : CreateShop(a, s, asked, u)
    \/ \E a \in Account, r \in Rider, asked \in Branch \cup {NoBranch}, u \in Account \cup {NoAccount} : CreateRider(a, r, asked, u)
    \/ \E a \in Account, u \in Account \cup {NoAccount} :
         \/ \E s \in Shop : UpdateShop(a, s, u)
         \/ \E r \in Rider : UpdateRider(a, r, u)
    \/ \E a \in Account, r \in Rider : DeleteRider(a, r)
    \/ \E a \in Account, j \in Job, s \in Shop : CreateJobFor(a, j, s) \/ CreateJobAnyShop(a, j, s)
    \/ \E j \in Job, r \in Rider \cup {NoRider} : Give(j, r)
    \/ \E j \in Job, b \in BOOLEAN : SetArchived(j, b)

ScopeSpec == ScopeInit /\ [][ScopeNext]_scopeVars

-----------------------------------------------------------------------------
ScopeTypeOK ==
    /\ shop \in [Shop -> Linked \cup {NotYet}]
    /\ rider \in [Rider -> Linked \cup {NotYet}]
    /\ job \in [Job -> JobRow \cup {NotYet}]

\* Whoever is made the supervisor of a store or a captain is shown its unarchived orders,
\* in the list and by id: the checks made when a link, an order or an assignment is written
\* agree with the scope applied when orders are read.
LinkedIsVisible ==
    \A a \in Account, j \in Job :
        /\ There(job[j]) /\ ~job[j].archived
        /\ \/ shop[job[j].shop].supervisor = a
           \/ job[j].rider # NoRider /\ rider[job[j].rider].supervisor = a
        => j \in Listed(a) /\ Opens(a, j)
=============================================================================
