----------------------------- MODULE OrderHistory -----------------------------
(***************************************************************************)
(* The captain's order list on the phone, fetched page by page while the      *)
(* server's list moves: an order enters it with the first offer made to him,  *)
(* at the place its creation gives it, and enters or leaves a filtered list   *)
(* with its status.                                                        *)
(*                                                                         *)
(* Every filter has a query, and so a cache, of its own: the model follows   *)
(* one of them.                                                            *)
(***************************************************************************)
EXTENDS Integers, FiniteSets, Sequences, SequencesExt, FiniteSetsExt

CONSTANTS
    Entry,      \* orders, numbered as they are created
    PageSize,
    MaxMoves    \* bound: changes of the server's list

ASSUME HistoryAssumption ==
    Entry \subseteq Nat /\ IsFiniteSet(Entry) /\ PageSize \in Nat \ {0} /\ MaxMoves \in Nat

VARIABLES
    listed,     \* the orders that match the query now
    pages,      \* data.pages of the query
    paging,     \* the fetch under way, and the pages it has so far
    moves

historyVars == <<listed, pages, paging, moves>>

\* old: the list moved after the page was counted.
Page == [no : Nat, items : Seq(Entry), total : Nat, old : BOOLEAN]
Paging == [at : {"none", "count", "rows", "answer"}, more : BOOLEAN, page : Page, got : Seq(Page)]

NoPage == [no |-> 0, items |-> <<>>, total |-> 0, old |-> FALSE]
NotPaging == [at |-> "none", more |-> FALSE, page |-> NoPage, got |-> <<>>]

HistoryInit ==
    /\ listed \in SUBSET Entry
    /\ pages = <<>>
    /\ paging = NotPaging
    /\ moves = 0

-----------------------------------------------------------------------------
(* The server *)

Newer(o) == {p \in listed : p > o}

\* orderBy createdAt desc: an order comes after those that are newer.
ServerList == [i \in 1 .. Cardinality(listed) |-> CHOOSE o \in listed : Cardinality(Newer(o)) = i - 1]

\* Mutant: the first page is taken to be number 0.
SkipFromZero(n) == n * PageSize

Skip(n) == (n - 1) * PageSize

ServedRows(n) == SubSeq(ServerList, Skip(n) + 1, Min({Skip(n) + PageSize, Len(ServerList)}))

TotalPages(p) == (p.total + PageSize - 1) \div PageSize

Aged(p) == [p EXCEPT !.old = TRUE]

\* An order is offered to the captain, or its status takes it into the filter or out of it.
ListMoves(o) ==
    /\ moves < MaxMoves
    /\ moves' = moves + 1
    /\ listed' = IF o \in listed THEN listed \ {o} ELSE listed \cup {o}
    /\ pages' = [i \in DOMAIN pages |-> Aged(pages[i])]
    /\ paging' = [paging EXCEPT !.page = IF paging.at \in {"rows", "answer"} THEN Aged(@) ELSE @,
                                !.got = [i \in DOMAIN @ |-> Aged(@[i])]]

\* One transaction counts the matching rows and then reads the page: two statements.
Counts ==
    /\ paging.at = "count"
    /\ paging' = [paging EXCEPT !.at = "rows", !.page.total = Cardinality(listed), !.page.old = FALSE]
    /\ UNCHANGED <<listed, pages, moves>>

ReadsRows ==
    /\ paging.at = "rows"
    /\ paging' = [paging EXCEPT !.at = "answer", !.page.items = ServedRows(paging.page.no)]
    /\ UNCHANGED <<listed, pages, moves>>

-----------------------------------------------------------------------------
(* useInfiniteQuery *)

\* getNextPageParam
HasNext(ps) == ps # <<>> /\ Last(ps).no < TotalPages(Last(ps))

AskPage(n, more, got) ==
    paging' = [at |-> "count", more |-> more, page |-> [NoPage EXCEPT !.no = n], got |-> got]

\* The screen opens, is pulled, or the list was invalidated or stale: from the first page on,
\* as many pages as there are; what is in flight is given up.
Refetch ==
    /\ AskPage(1, FALSE, <<>>)
    /\ UNCHANGED <<listed, pages, moves>>

\* The end of the list is reached; a refetch in flight is given up.
LoadMore ==
    /\ HasNext(pages) /\ ~(paging.at # "none" /\ paging.more)
    /\ AskPage(Last(pages).no + 1, TRUE, pages)
    /\ UNCHANGED <<listed, pages, moves>>

\* The data changes once, when the last page asked for has come.
PageArrives ==
    /\ paging.at = "answer"
    /\ LET got == Append(paging.got, paging.page)
       IN  IF ~paging.more /\ Len(got) < Len(pages) /\ HasNext(got)
             THEN AskPage(Last(got).no + 1, FALSE, got) /\ UNCHANGED pages
             ELSE pages' = got /\ paging' = NotPaging
    /\ UNCHANGED <<listed, moves>>

PageFails ==
    /\ paging.at \in {"count", "answer"}
    /\ paging' = NotPaging
    /\ UNCHANGED <<listed, pages, moves>>

HistoryNext ==
    \/ \E o \in Entry : ListMoves(o)
    \/ Counts \/ ReadsRows \/ Refetch \/ LoadMore \/ PageArrives \/ PageFails

HistorySpec == HistoryInit /\ [][HistoryNext]_historyVars

-----------------------------------------------------------------------------
\* What the screen lists.
Items == FlattenSeq([i \in DOMAIN pages |-> pages[i].items])

HistoryTypeOK ==
    /\ listed \subseteq Entry
    /\ pages \in Seq(Page) /\ paging \in Paging
    /\ moves \in 0 .. MaxMoves

\* With no page older than the last move, whatever fetches were given up, failed or found the
\* list shorter than before, the screen has the server's list from its top, no order missing
\* or twice, and asks for more exactly when there is more.
HistoryIsPrefix ==
    pages # <<>> /\ (\A i \in DOMAIN pages : ~pages[i].old)
    => /\ Items = SubSeq(ServerList, 1, Min({Len(pages) * PageSize, Len(ServerList)}))
       /\ HasNext(pages) <=> Len(Items) < Len(ServerList)
=============================================================================
