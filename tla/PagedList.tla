------------------------------- MODULE PagedList -------------------------------
(***************************************************************************)
(* The lists the API gives page by page, read to their end while the rows  *)
(* change: the findAll and findByUser queries of the repositories and the  *)
(* lists of adminRepository.                                               *)
(*                                                                         *)
(* Every page is two queries, of the rows and of their number, that run at *)
(* the same time and not in one transaction; a page is found by skipping   *)
(* as many rows as the pages before have.  A list differs from another in  *)
(* its order, and in what makes a row leave it: that is what its           *)
(* definition below tells, by the clauses of its query.  Search texts,     *)
(* dates, owners and types never change and only choose the rows.  Rows    *)
(* are created at different times.                                         *)
(***************************************************************************)
EXTENDS Integers, FiniteSets

CONSTANTS
    Rows,
    Limit,          \* rows per page
    LastPosition,   \* bound: positions in the order
    MaxChanges      \* bound: changes of rows in a behaviour

VARIABLES
    list,           \* the list that is read
    position,       \* per row that exists, its place in the order; 0 for others
    listed,         \* the rows that match
    reader,         \* the one who reads the list, page by page
    changes,        \* so far (bounded)
    throughout,     \* history: rows listed ever since the reading began
    left, moved,    \* history: how many rows left the list, or moved in it, since then
    late            \* history: rows that came between the two queries of a page

vars == <<list, position, listed, reader, changes, throughout, left, moved, late>>
history == <<throughout, left, moved, late>>

-------------------------------------------------------------------------------
(* The lists.  A row leaves when its status (or its user's) is asked for and *)
(* changes, and when it is deleted.                                          *)

Newest == "createdAt desc"          \* achievedAt for ranks, which is not changed either
Touched == "updatedAt desc"
Sorted == "sortOrder, createdAt desc"

Query(order, status, deletes) == [order |-> order, status |-> status, deletes |-> deletes]

ListUsers == Query(Newest, "row", TRUE)
ListDeposits == Query(Newest, "row", FALSE)
ListWithdrawals == Query(Newest, "row", FALSE)
ListTrades == Query(Newest, "row", FALSE)
ListWallets == Query(Newest, "user", FALSE)
ListReferrals == Query(Newest, "user", FALSE)
ListRanks == Query(Newest, "row", FALSE)
ListCycleBonuses == Query(Newest, "row", FALSE)
ListBlockchainTransactions == Query(Newest, "row", FALSE)
ListNotifications == Query(Newest, "row", FALSE)
ListAuditLogs == Query(Newest, "none", FALSE)
ListSettings == Query(Touched, "none", FALSE)
FindUsers == Query(Newest, "row", TRUE)
FindDeposits == Query(Newest, "row", FALSE)
FindDepositsOfUser == Query(Newest, "row", FALSE)
FindWithdrawals == Query(Newest, "row", FALSE)
FindWithdrawalsOfUser == Query(Newest, "row", FALSE)
FindTrades == Query(Newest, "row", FALSE)
FindTradesOfUser == Query(Newest, "row", FALSE)
FindLedgersOfUser == Query(Newest, "none", FALSE)
FindLedgersOfWallet == Query(Newest, "none", FALSE)
FindCycleBonuses == Query(Newest, "row", FALSE)
FindCycleBonusesOfUser == Query(Newest, "row", FALSE)
FindPoolBonusRequests == Query(Newest, "row", FALSE)
FindPoolBonusRequestsOfUser == Query(Newest, "row", FALSE)
FindReferralBonusesOfUser == Query(Newest, "none", FALSE)
FindTickets == Query(Newest, "row", FALSE)
FindTicketsOfUser == Query(Newest, "row", FALSE)
FindNotificationsOfUser == Query(Newest, "row", FALSE)
FindTradeExclusions == Query(Newest, "none", TRUE)
FindPosts == Query(Sorted, "row", TRUE)
FindNews == Query(Sorted, "row", TRUE)

Lists == {
    ListUsers, ListDeposits, ListWithdrawals, ListTrades, ListWallets, ListReferrals, ListRanks,
    ListCycleBonuses, ListBlockchainTransactions, ListNotifications, ListAuditLogs, ListSettings,
    FindUsers, FindDeposits, FindDepositsOfUser, FindWithdrawals, FindWithdrawalsOfUser,
    FindTrades, FindTradesOfUser, FindLedgersOfUser, FindLedgersOfWallet, FindCycleBonuses,
    FindCycleBonusesOfUser, FindPoolBonusRequests, FindPoolBonusRequestsOfUser,
    FindReferralBonusesOfUser, FindTickets, FindTicketsOfUser, FindNotificationsOfUser,
    FindTradeExclusions, FindPosts, FindNews }

-------------------------------------------------------------------------------
(* Data *)

Positions == 1..LastPosition
\* A page is {} until it is found, and then the set of its set of rows.
NotFound == {}
Reader == [pc : {"idle", "queries", "done"}, page : Nat,
           found : SUBSET SUBSET Rows, total : Int, seen : SUBSET Rows]
NotCounted == -1

Exists(r) == position[r] # 0
Free == Positions \ {position[r] : r \in Rows}
\* The place of a new or touched row: before all others, where the order is by time.
Front == {k \in Free : \A r \in Rows : k > position[r]}
Places == IF list.order = Sorted THEN Free ELSE Front

\* How many listed rows come before r.
Rank(r) == Cardinality({q \in listed : position[q] > position[r]})

\* Math.ceil(total / limit), and a slip of it that the property must notice.
FullPages(total) == total \div Limit
TotalPages(total) == (total + Limit - 1) \div Limit

\* skip: (page - 1) * limit
Skip(page) == (page - 1) * Limit

FindPage == {r \in listed : Rank(r) \in Skip(reader.page)..(Skip(reader.page) + Limit - 1)}

Reading == reader.pc = "queries"
\* One of the two queries of the page is done and the other is not.
BetweenQueries == Reading /\ (reader.found = NotFound) # (reader.total = NotCounted)
Change == changes < MaxChanges /\ changes' = changes + 1
Come == IF BetweenQueries THEN late + 1 ELSE late

-------------------------------------------------------------------------------
(* The reader *)

Ask(page, seen) ==
    [pc |-> "queries", page |-> page, found |-> NotFound, total |-> NotCounted, seen |-> seen]

Begin ==
    /\ reader.pc = "idle"
    /\ reader' = Ask(1, {})
    /\ throughout' = listed
    /\ left' = 0 /\ moved' = 0 /\ late' = 0
    /\ UNCHANGED <<list, position, listed, changes>>

\* The two queries of Promise.all.
FindMany ==
    /\ Reading /\ reader.found = NotFound
    /\ reader' = [reader EXCEPT !.found = {FindPage}]
    /\ UNCHANGED <<list, position, listed, changes, history>>

Count ==
    /\ Reading /\ reader.total = NotCounted
    /\ reader' = [reader EXCEPT !.total = Cardinality(listed)]
    /\ UNCHANGED <<list, position, listed, changes, history>>

\* The page is answered, with the number of pages; the reader asks for the
\* next one unless it was the last.
Answer ==
    /\ Reading /\ reader.found # NotFound /\ reader.total # NotCounted
    /\ LET seen == reader.seen \cup UNION reader.found IN
       reader' = IF reader.page < TotalPages(reader.total) THEN Ask(reader.page + 1, seen)
                 ELSE [reader EXCEPT !.pc = "done", !.seen = seen]
    /\ late' = IF reader'.pc = "done" THEN late ELSE 0
    /\ UNCHANGED <<list, position, listed, changes, throughout, left, moved>>

-------------------------------------------------------------------------------
(* The rows meanwhile *)

Create(r, place) ==
    /\ Change
    /\ ~Exists(r)
    /\ place \in Places
    /\ position' = [position EXCEPT ![r] = place]
    /\ listed' = listed \cup {r}
    /\ late' = Come
    /\ UNCHANGED <<list, reader, throughout, left, moved>>

\* A status changes to the one asked for.
Enter(r) ==
    /\ Change
    /\ list.status # "none"
    /\ Exists(r) /\ r \notin listed
    /\ listed' = listed \cup {r}
    /\ late' = Come
    /\ UNCHANGED <<list, position, reader, throughout, left, moved>>

\* A status changes to another; a user's, for all the rows of the user.
Leave(gone) ==
    /\ Change
    /\ gone # {} /\ gone \subseteq listed
    /\ list.status # "none"
    /\ list.status = "row" => Cardinality(gone) = 1
    /\ listed' = listed \ gone
    /\ throughout' = throughout \ gone
    /\ left' = left + Cardinality(gone)
    /\ UNCHANGED <<list, position, reader, moved, late>>

Delete(r) ==
    /\ Change
    /\ list.deletes
    /\ r \in listed
    /\ position' = [position EXCEPT ![r] = 0]
    /\ listed' = listed \ {r}
    /\ throughout' = throughout \ {r}
    /\ left' = left + 1
    /\ UNCHANGED <<list, reader, moved, late>>

\* A setting is written, or the sort order of a post.
Move(r, place) ==
    /\ Change
    /\ list.order # Newest
    /\ r \in listed
    /\ place \in Places
    /\ position' = [position EXCEPT ![r] = place]
    /\ moved' = moved + 1
    /\ UNCHANGED <<list, listed, reader, throughout, left, late>>

-------------------------------------------------------------------------------
Init ==
    /\ list \in Lists
    /\ position \in [Rows -> 0..Cardinality(Rows)]
    /\ \A r, q \in Rows : position[r] = position[q] /\ Exists(r) => r = q
    /\ listed \in SUBSET {r \in Rows : Exists(r)}
    /\ list.status = "none" => listed = {r \in Rows : Exists(r)}
    /\ reader = [Ask(1, {}) EXCEPT !.pc = "idle"]
    /\ changes = 0
    /\ throughout = {} /\ left = 0 /\ moved = 0 /\ late = 0

Next ==
    \/ Begin \/ FindMany \/ Count \/ Answer
    \/ \E r \in Rows : Enter(r) \/ Delete(r) \/ \E place \in Positions : Create(r, place) \/ Move(r, place)
    \/ \E gone \in SUBSET Rows : Leave(gone)

Spec == Init /\ [][Next]_vars

-------------------------------------------------------------------------------
(* Properties *)

\* Every variable holds what its declaration says.
TypeOK ==
    /\ list \in Lists
    /\ position \in [Rows -> 0..LastPosition]
    /\ listed \subseteq {r \in Rows : Exists(r)}
    /\ reader \in Reader
    /\ changes \in Nat /\ left \in Nat /\ moved \in Nat /\ late \in Nat
    /\ throughout \subseteq listed

\* Who reads a list to its end, following the number of pages, misses no row
\* that was listed all the time, but one for each row that left the list or
\* moved in it meanwhile (an admin who works through the pending requests
\* page by page passes over one for each that is decided), and one for each
\* that came between the two queries of the last page.
MissedAreAccountedFor ==
    reader.pc = "done" =>
        Cardinality(throughout \ reader.seen) <= left + moved + late

===============================================================================
