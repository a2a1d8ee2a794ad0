-------------------------------- MODULE Rewards --------------------------------
(***************************************************************************)
(* An admin's rewards and the notifications that tell of them:             *)
(* adminService.giveReward and notificationService.                        *)
(*                                                                         *)
(* A reward is four calls that nothing joins: the wallet, if there is      *)
(* none, the credit, the ledger entry and the notification.  When one      *)
(* fails the admin is answered an error, whatever was done before, and     *)
(* may give the reward again.  Rewards are of one amount here and are      *)
(* counted; WalletLedger has the stages of a credit.                       *)
(***************************************************************************)
EXTENDS Integers, FiniteSets

CONSTANTS
    Users,          \* users other than admins
    Requests,       \* handlers in progress at once
    MaxCalls,       \* bound: calls in a behaviour
    MaxFailures     \* bound: failed calls and restarts in a behaviour

VARIABLES
    wallet,         \* per user, whether the wallet is there
    credits,        \* per user, the rewards credited to it
    entries,        \* per user, the ledger entries of rewards
    unread, read,   \* per user, the notifications of rewards
    run,            \* the rewards in progress
    calls, failures,    \* so far (bounded)
    answered,       \* history: per user, rewards answered as given
    cut             \* history: per user, rewards that failed after their credit

books == <<wallet, credits, entries>>
notifications == <<unread, read>>
counters == <<calls, failures>>
vars == <<books, notifications, run, counters, answered, cut>>

-------------------------------------------------------------------------------
(* Data *)

Idle == [pc |-> "idle"]
RunState == [pc : {"wallet", "create", "credit", "entry", "notify"}, user : Users]

Call == calls < MaxCalls /\ calls' = calls + 1
At(p, pc) == run[p].pc = pc
Goto(p, pc) == run' = [run EXCEPT ![p].pc = pc]
End(p) == run' = [run EXCEPT ![p] = Idle]
Once(f, u) == [f EXCEPT ![u] = @ + 1]
\* The rewards of u in progress at one of the calls pcs.
InProgress(u, pcs) == Cardinality({p \in Requests : run[p].pc \in pcs /\ run[p].user = u})

-------------------------------------------------------------------------------
(* Slips of the steps below that the properties must notice.  They are not   *)
(* part of the specification.                                                *)

\* The user is told before the entry is made.
CreditThenNotify(p) ==
    /\ At(p, "credit")
    /\ wallet[run[p].user]
    /\ credits' = Once(credits, run[p].user)
    /\ Goto(p, "notify")
    /\ UNCHANGED <<wallet, entries, notifications, counters, answered, cut>>

-------------------------------------------------------------------------------
(* giveReward *)

GiveReward(p, u) ==
    /\ run[p] = Idle
    /\ Call
    /\ run' = [run EXCEPT ![p] = [pc |-> "wallet", user |-> u]]
    /\ UNCHANGED <<books, notifications, failures, answered, cut>>

FindWallet(p) ==
    /\ At(p, "wallet")
    /\ Goto(p, IF wallet[run[p].user] THEN "credit" ELSE "create")
    /\ UNCHANGED <<books, notifications, counters, answered, cut>>

\* There is one wallet per user and type: a second insert fails.
CreateWallet(p) ==
    /\ At(p, "create")
    /\ wallet' = [wallet EXCEPT ![run[p].user] = TRUE]
    /\ IF wallet[run[p].user] THEN End(p) ELSE Goto(p, "credit")
    /\ UNCHANGED <<credits, entries, notifications, counters, answered, cut>>

CreditWallet(p) ==
    /\ At(p, "credit")
    /\ credits' = Once(credits, run[p].user)
    /\ Goto(p, "entry")
    /\ UNCHANGED <<wallet, entries, notifications, counters, answered, cut>>

CreateEntry(p) ==
    /\ At(p, "entry")
    /\ entries' = Once(entries, run[p].user)
    /\ Goto(p, "notify")
    /\ UNCHANGED <<wallet, credits, notifications, counters, answered, cut>>

\* sendToUser, after which the admin is answered.
SendToUser(p) ==
    /\ At(p, "notify")
    /\ unread' = Once(unread, run[p].user)
    /\ answered' = Once(answered, run[p].user)
    /\ End(p)
    /\ UNCHANGED <<books, read, counters, cut>>

\* A call fails, or the server stops: a reward credited already is cut short.
Fails(p) ==
    /\ run[p] # Idle
    /\ failures < MaxFailures
    /\ failures' = failures + 1
    /\ cut' = IF run[p].pc \in {"entry", "notify"} THEN Once(cut, run[p].user) ELSE cut
    /\ End(p)
    /\ UNCHANGED <<books, notifications, calls, answered>>

-------------------------------------------------------------------------------
(* Notifications *)

\* A user reads one of its own notifications; reading it again changes nothing.
MarkAsRead(u) ==
    /\ unread[u] > 0
    /\ unread' = [unread EXCEPT ![u] = @ - 1]
    /\ read' = Once(read, u)
    /\ UNCHANGED <<books, run, counters, answered, cut>>

MarkAllAsRead(u) ==
    /\ unread[u] > 0
    /\ unread' = [unread EXCEPT ![u] = 0]
    /\ read' = [read EXCEPT ![u] = @ + unread[u]]
    /\ UNCHANGED <<books, run, counters, answered, cut>>

-------------------------------------------------------------------------------
None == [u \in Users |-> 0]

Init ==
    /\ wallet \in [Users -> BOOLEAN]
    /\ credits = None /\ entries = None
    /\ unread = None /\ read = None
    /\ run = [p \in Requests |-> Idle]
    /\ calls = 0 /\ failures = 0
    /\ answered = None /\ cut = None

Next ==
    \/ \E p \in Requests, u \in Users : GiveReward(p, u)
    \/ \E p \in Requests :
        FindWallet(p) \/ CreateWallet(p) \/ CreditWallet(p) \/ CreateEntry(p) \/ SendToUser(p) \/ Fails(p)
    \/ \E u \in Users : MarkAsRead(u) \/ MarkAllAsRead(u)

Spec == Init /\ [][Next]_vars

-------------------------------------------------------------------------------
(* Properties *)

\* Every variable holds what its declaration says.
TypeOK ==
    /\ wallet \in [Users -> BOOLEAN]
    /\ \A f \in {credits, entries, unread, read, answered, cut} : f \in [Users -> Nat]
    /\ run \in [Requests -> RunState \cup {Idle}]
    /\ calls \in Nat /\ failures \in Nat

\* A user was credited what admins were told was given, what is in progress,
\* and what failed after the credit: only such a failure makes an admin who
\* was answered an error give a reward twice.  What the user was told of is in
\* the ledger, and what is in the ledger was credited to a wallet that exists.
RewardsAreBooked ==
    \A u \in Users :
        /\ credits[u] = answered[u] + cut[u] + InProgress(u, {"entry", "notify"})
        /\ entries[u] <= credits[u] - InProgress(u, {"entry"})
        /\ unread[u] + read[u] = answered[u]
        /\ answered[u] + InProgress(u, {"notify"}) <= entries[u]
        /\ credits[u] > 0 => wallet[u]

===============================================================================
