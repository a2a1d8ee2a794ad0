----------------------------- MODULE AuthSession ------------------------------
(***************************************************************************)
(* Accounts, one-time codes and refresh tokens: authService with           *)
(* authRepository, and adminService.manageUser.                            *)
(*                                                                         *)
(* A run is one handler in progress on one account, between the database   *)
(* calls it makes.  A password is its version: every change gives a new    *)
(* one.  A code is mailed after it is stored; the user knows what was      *)
(* mailed.  Wallets and the referral, which signup creates too, are        *)
(* ReferralTree's.                                                         *)
(*                                                                         *)
(* generateTokens stores one signed text and returns another one, so that  *)
(* refreshTokens never finds what a client presents: text and given below. *)
(* Two tokens of one user made within a second have one text; the second   *)
(* insert then fails, which is one of the failures of Fail.                *)
(***************************************************************************)
EXTENDS Integers, FiniteSets

CONSTANTS
    Users,          \* email addresses
    Codes,          \* one-time codes a behaviour may generate
    Tokens,         \* refresh token rows a behaviour may create
    Requests,       \* handlers in progress at once
    MaxCalls,       \* bound: API requests in a behaviour
    MaxDecisions,   \* bound: decisions of admins about accounts
    MaxFailures     \* bound: failed calls and restarts in a behaviour

ASSUME BoundAssumption == MaxCalls \in Nat /\ MaxDecisions \in Nat /\ MaxFailures \in Nat

VARIABLES
    account,        \* per address, the user row
    issued,         \* per code, whom and what it was generated for
    inbox,          \* per address, the codes mailed to it
    token,          \* the refresh token rows
    run,            \* the handlers in progress
    calls,          \* API requests so far (bounded by MaxCalls)
    decisions,      \* decisions so far (bounded by MaxDecisions)
    failures,       \* failed calls and restarts so far (bounded by MaxFailures)
    used,           \* history: per code, how often it verified and reset
    contested,      \* history: users two of whose codes, or one twice, were acted
                    \* on by two runs at once
    cut             \* history: users whose password was changed by a run that
                    \* stopped before it revoked the tokens

counters == <<calls, decisions, failures>>
observed == <<used, contested, cut>>
vars == <<account, issued, inbox, token, run, counters, observed>>

-------------------------------------------------------------------------------
(* Data *)

Purpose == {"SIGNUP", "PASSWORD_RESET"}
NoCode == "no code"
ASSUME CodeAssumption == NoCode \notin Codes

Unissued == [purpose |-> "NONE"]
Issue == [user : Users, purpose : Purpose]

NoAccount == [status |-> "NONE"]
Account == [status : {"ACTIVE", "INACTIVE", "SUSPENDED"}, verified : BOOLEAN, deleted : BOOLEAN,
            password : Nat, otp : Codes \cup {NoCode}, purpose : Purpose, expired : BOOLEAN]
NewAccount == [status |-> "INACTIVE", verified |-> FALSE, deleted |-> FALSE,
               password |-> 0, otp |-> NoCode, purpose |-> "SIGNUP", expired |-> FALSE]

NoToken == [user |-> "nobody"]
ASSUME UserAssumption == "nobody" \notin Users
\* text is the stored token, given the one the client gets: "" is the empty
\* tokenId it was signed with.  password and late are history: the password
\* the handler had read, and whether it was out of date when the row was made.
Token == [user : Users, text : Tokens \cup {""}, given : Tokens, revoked : BOOLEAN,
          password : Nat, late : BOOLEAN]

Idle == [pc |-> "idle"]
RunState == [pc : {"findForCode", "code", "mail", "findForVerify", "verify", "findForLogin", "store",
                   "lookup", "findForReset", "reset", "findForChange", "change", "revoke"},
             user : Users, purpose : Purpose, code : Codes \cup {NoCode},
             password : Nat, presented : Tokens \cup {""}]

At(p, pc) == run[p].pc = pc
End(p) == run' = [run EXCEPT ![p] = Idle]
Goto(p, pc) == run' = [run EXCEPT ![p].pc = pc]
\* findByEmail and findById return rows that are not deleted.
Found(u) == account[u] # NoAccount /\ ~account[u].deleted
\* authenticate accepts an access token, which comes with every refresh token.
Authenticated(u) == \E n \in Tokens : token[n].user = u

\* Runs that have checked a code of a user and will act on it.
Holds(p, u) == run[p].pc \in {"verify", "reset"} /\ run[p].user = u
Contest(p, u) == contested' = contested \cup {v \in {u} : \E q \in Requests \ {p} : Holds(q, v)}
\* Revoking a user's tokens, and clearing a code.
Revoked(u) == [n \in Tokens |-> IF token[n].user = u THEN [token[n] EXCEPT !.revoked = TRUE]
                                ELSE token[n]]
Enter(p, u, pc, purpose, presented) ==
    /\ run[p] = Idle
    /\ calls < MaxCalls
    /\ calls' = calls + 1
    /\ run' = [run EXCEPT ![p] = [pc |-> pc, user |-> u, purpose |-> purpose, code |-> NoCode,
                                  password |-> 0, presented |-> presented]]

-------------------------------------------------------------------------------
(* Slips of the steps below that the properties must notice.  They are not   *)
(* part of the specification.                                                *)

WritePasswordOnly(p) ==
    /\ At(p, "change")
    /\ account' = [account EXCEPT ![run[p].user].password = @ + 1]
    /\ End(p)
    /\ UNCHANGED <<issued, inbox, token, counters, observed>>

ResetKeepingCode(p) ==
    LET u == run[p].user IN
    /\ At(p, "reset")
    /\ account' = [account EXCEPT ![u].password = @ + 1]
    /\ used' = [used EXCEPT ![run[p].code].reset = @ + 1]
    /\ Goto(p, "revoke")
    /\ UNCHANGED <<issued, inbox, token, counters, contested, cut>>

CheckSignupCodeOnly(p) ==
    LET u == run[p].user IN
    /\ At(p, "findForVerify")
    /\ Found(u)
    /\ account[u].otp \in inbox[u]
    /\ account[u].purpose = "SIGNUP"
    /\ ~account[u].expired
    /\ run' = [run EXCEPT ![p].pc = "verify", ![p].code = account[u].otp]
    /\ Contest(p, u)
    /\ UNCHANGED <<account, issued, inbox, token, counters, used, cut>>

-------------------------------------------------------------------------------
(* Signing up and codes *)

\* The row is created, and the code sent with it; the wallets and the referral
\* come between.  The address is unique: one already known is refused.
Signup(p, u) ==
    /\ account[u] = NoAccount
    /\ Enter(p, u, "code", "SIGNUP", "")
    /\ account' = [account EXCEPT ![u] = NewAccount]
    /\ UNCHANGED <<issued, inbox, token, decisions, failures, observed>>

ResendOtp(p, u, purpose) ==
    /\ Enter(p, u, "findForCode", purpose, "")
    /\ UNCHANGED <<account, issued, inbox, token, decisions, failures, observed>>

ForgotPassword(p, u) ==
    /\ Enter(p, u, "findForCode", "PASSWORD_RESET", "")
    /\ UNCHANGED <<account, issued, inbox, token, decisions, failures, observed>>

FindForCode(p) ==
    /\ At(p, "findForCode")
    /\ Found(run[p].user)
    /\ run[p].purpose = "SIGNUP" => ~account[run[p].user].verified
    /\ Goto(p, "code")
    /\ UNCHANGED <<account, issued, inbox, token, counters, observed>>

\* createAndSendOtp stores the code over whatever code there was.
SetEmailOtp(p) ==
    LET u == run[p].user IN
    /\ At(p, "code")
    /\ \E c \in Codes :
        /\ issued[c] = Unissued
        /\ issued' = [issued EXCEPT ![c] = [user |-> u, purpose |-> run[p].purpose]]
        /\ account' = [account EXCEPT ![u].otp = c, ![u].purpose = run[p].purpose,
                                      ![u].expired = FALSE]
        /\ run' = [run EXCEPT ![p].pc = "mail", ![p].code = c]
    /\ UNCHANGED <<inbox, token, counters, observed>>

SendMail(p) ==
    /\ At(p, "mail")
    /\ inbox' = [inbox EXCEPT ![run[p].user] = @ \cup {run[p].code}]
    /\ End(p)
    /\ UNCHANGED <<account, issued, token, counters, observed>>

\* Fifteen minutes pass.
Expire(u) ==
    /\ account[u] # NoAccount
    /\ account[u].otp # NoCode
    /\ ~account[u].expired
    /\ account' = [account EXCEPT ![u].expired = TRUE]
    /\ UNCHANGED <<issued, inbox, token, run, counters, observed>>

-------------------------------------------------------------------------------
(* Verifying the address *)

VerifyEmail(p, u) ==
    /\ Enter(p, u, "findForVerify", "SIGNUP", "")
    /\ UNCHANGED <<account, issued, inbox, token, decisions, failures, observed>>

CheckSignupCode(p) ==
    LET u == run[p].user IN
    /\ At(p, "findForVerify")
    /\ Found(u)
    /\ ~account[u].verified
    /\ account[u].otp \in inbox[u]
    /\ account[u].purpose = "SIGNUP"
    /\ ~account[u].expired
    /\ run' = [run EXCEPT ![p].pc = "verify", ![p].code = account[u].otp]
    /\ Contest(p, u)
    /\ UNCHANGED <<account, issued, inbox, token, counters, used, cut>>

\* The status becomes ACTIVE whatever it is.
MarkVerified(p) ==
    LET u == run[p].user IN
    /\ At(p, "verify")
    /\ account' = [account EXCEPT ![u].verified = TRUE, ![u].status = "ACTIVE",
                                  ![u].otp = NoCode, ![u].expired = FALSE]
    /\ used' = [used EXCEPT ![run[p].code].verify = @ + 1]
    /\ run' = [run EXCEPT ![p].pc = "store", ![p].password = account[u].password]
    /\ UNCHANGED <<issued, inbox, token, counters, contested, cut>>

-------------------------------------------------------------------------------
(* Sessions *)

Login(p, u) ==
    /\ Enter(p, u, "findForLogin", "SIGNUP", "")
    /\ UNCHANGED <<account, issued, inbox, token, decisions, failures, observed>>

\* The row is read once; the password is compared with what was read.
CheckLogin(p) ==
    LET u == run[p].user IN
    /\ At(p, "findForLogin")
    /\ Found(u)
    /\ account[u].status = "ACTIVE"
    /\ account[u].verified
    /\ run' = [run EXCEPT ![p].pc = "store", ![p].password = account[u].password]
    /\ UNCHANGED <<account, issued, inbox, token, counters, observed>>

StoreToken(p) ==
    LET u == run[p].user IN
    /\ At(p, "store")
    /\ \E n \in Tokens :
        /\ token[n] = NoToken
        /\ token' = [token EXCEPT ![n] =
               [user |-> u, text |-> "", given |-> n, revoked |-> FALSE,
                password |-> run[p].password, late |-> run[p].password # account[u].password]]
    /\ End(p)
    /\ UNCHANGED <<account, issued, inbox, counters, observed>>

\* Tokens signed for a user within one second have the same text, which is
\* unique: the second insert fails, after whatever the request did before.
SameSecond(p) ==
    /\ At(p, "store")
    /\ Authenticated(run[p].user)
    /\ End(p)
    /\ UNCHANGED <<account, issued, inbox, token, counters, observed>>

RefreshTokens(p, n) ==
    /\ token[n] # NoToken
    /\ Enter(p, token[n].user, "lookup", "SIGNUP", token[n].given)
    /\ UNCHANGED <<account, issued, inbox, token, decisions, failures, observed>>

\* The calls after a lookup that finds a live token are one step here: no
\* lookup does.
FindRefreshToken(p) ==
    LET hits == {n \in Tokens : token[n] # NoToken /\ token[n].text = run[p].presented
                                /\ ~token[n].revoked} IN
    /\ At(p, "lookup")
    /\ IF hits = {} \/ ~Found(run[p].user)
       THEN End(p) /\ UNCHANGED token
       ELSE /\ token' = [n \in Tokens |-> IF n \in hits THEN [token[n] EXCEPT !.revoked = TRUE]
                                          ELSE token[n]]
            /\ run' = [run EXCEPT ![p].pc = "store", ![p].password = account[run[p].user].password]
    /\ UNCHANGED <<account, issued, inbox, counters, observed>>

\* One updateMany.
Logout(u) ==
    /\ calls < MaxCalls
    /\ Authenticated(u)
    /\ calls' = calls + 1
    /\ token' = Revoked(u)
    /\ UNCHANGED <<account, issued, inbox, run, decisions, failures, observed>>

-------------------------------------------------------------------------------
(* Passwords *)

ResetPassword(p, u) ==
    /\ Enter(p, u, "findForReset", "PASSWORD_RESET", "")
    /\ UNCHANGED <<account, issued, inbox, token, decisions, failures, observed>>

CheckResetCode(p) ==
    LET u == run[p].user IN
    /\ At(p, "findForReset")
    /\ Found(u)
    /\ account[u].otp \in inbox[u]
    /\ account[u].purpose = "PASSWORD_RESET"
    /\ ~account[u].expired
    /\ run' = [run EXCEPT ![p].pc = "reset", ![p].code = account[u].otp]
    /\ Contest(p, u)
    /\ UNCHANGED <<account, issued, inbox, token, counters, used, cut>>

\* Written after the new password has been hashed; whatever code is there is
\* cleared.
UpdatePasswordFromOtp(p) ==
    LET u == run[p].user IN
    /\ At(p, "reset")
    /\ account' = [account EXCEPT ![u].password = @ + 1, ![u].otp = NoCode, ![u].expired = FALSE]
    /\ used' = [used EXCEPT ![run[p].code].reset = @ + 1]
    /\ Goto(p, "revoke")
    /\ UNCHANGED <<issued, inbox, token, counters, contested, cut>>

ChangePassword(p, u) ==
    /\ Authenticated(u)
    /\ Enter(p, u, "findForChange", "PASSWORD_RESET", "")
    /\ UNCHANGED <<account, issued, inbox, token, decisions, failures, observed>>

\* The old password given is the one read, or the request is refused.
CheckOldPassword(p) ==
    /\ At(p, "findForChange")
    /\ Found(run[p].user)
    /\ Goto(p, "change")
    /\ UNCHANGED <<account, issued, inbox, token, counters, observed>>

UpdatePassword(p) ==
    /\ At(p, "change")
    /\ account' = [account EXCEPT ![run[p].user].password = @ + 1]
    /\ Goto(p, "revoke")
    /\ UNCHANGED <<issued, inbox, token, counters, observed>>

RevokeAllUserTokens(p) ==
    /\ At(p, "revoke")
    /\ token' = Revoked(run[p].user)
    /\ End(p)
    /\ UNCHANGED <<account, issued, inbox, counters, observed>>

\* Any check may refuse: the row is not there, is not in the state asked for,
\* or the password or code given is a wrong one.
Refused(p) ==
    /\ run[p].pc \in {"findForCode", "findForVerify", "findForLogin", "findForReset", "findForChange"}
    /\ End(p)
    /\ UNCHANGED <<account, issued, inbox, token, counters, observed>>

-------------------------------------------------------------------------------
(* Administration and failures *)

\* manageUser.  The row it reads first tells only whether there is one.
ManageUser(u, status, delete) ==
    /\ decisions < MaxDecisions
    /\ Found(u)
    /\ decisions' = decisions + 1
    /\ account' = [account EXCEPT ![u].status = IF delete THEN @ ELSE status,
                                  ![u].deleted = delete]
    /\ UNCHANGED <<issued, inbox, token, run, calls, failures, observed>>

CutUsers(runs) == {run[p].user : p \in {q \in runs : At(q, "revoke")}}

Fail(p) ==
    /\ run[p] # Idle
    /\ failures < MaxFailures
    /\ failures' = failures + 1
    /\ End(p)
    /\ cut' = cut \cup CutUsers({p})
    /\ UNCHANGED <<account, issued, inbox, token, calls, decisions, used, contested>>

Crash ==
    /\ failures < MaxFailures
    /\ failures' = failures + 1
    /\ run' = [p \in Requests |-> Idle]
    /\ cut' = cut \cup CutUsers(Requests)
    /\ UNCHANGED <<account, issued, inbox, token, calls, decisions, used, contested>>

-------------------------------------------------------------------------------
Init ==
    /\ account = [u \in Users |-> NoAccount]
    /\ issued = [c \in Codes |-> Unissued]
    /\ inbox = [u \in Users |-> {}]
    /\ token = [n \in Tokens |-> NoToken]
    /\ run = [p \in Requests |-> Idle]
    /\ calls = 0
    /\ decisions = 0
    /\ failures = 0
    /\ used = [c \in Codes |-> [verify |-> 0, reset |-> 0]]
    /\ contested = {}
    /\ cut = {}

Request(p) ==
    \/ \E u \in Users : Signup(p, u)
    \/ \E u \in Users, purpose \in Purpose : ResendOtp(p, u, purpose)
    \/ \E u \in Users : ForgotPassword(p, u)
    \/ \E u \in Users : VerifyEmail(p, u)
    \/ \E u \in Users : Login(p, u)
    \/ \E n \in Tokens : RefreshTokens(p, n)
    \/ \E u \in Users : ResetPassword(p, u)
    \/ \E u \in Users : ChangePassword(p, u)

Step(p) ==
    \/ FindForCode(p) \/ SetEmailOtp(p) \/ SendMail(p)
    \/ CheckSignupCode(p) \/ MarkVerified(p)
    \/ CheckLogin(p) \/ StoreToken(p) \/ SameSecond(p) \/ FindRefreshToken(p)
    \/ CheckResetCode(p) \/ UpdatePasswordFromOtp(p)
    \/ CheckOldPassword(p) \/ UpdatePassword(p) \/ RevokeAllUserTokens(p)
    \/ Refused(p)

Next ==
    \/ \E p \in Requests : Request(p) \/ Step(p) \/ Fail(p)
    \/ \E u \in Users : Expire(u) \/ Logout(u)
    \/ \E u \in Users, status \in {"ACTIVE", "SUSPENDED"} : ManageUser(u, status, FALSE)
    \/ \E u \in Users : ManageUser(u, "SUSPENDED", TRUE)
    \/ Crash

Spec == Init /\ [][Next]_vars

-------------------------------------------------------------------------------
(* Properties *)

\* Every variable holds what its declaration says.
TypeOK ==
    /\ account \in [Users -> Account \cup {NoAccount}]
    /\ issued \in [Codes -> Issue \cup {Unissued}]
    /\ inbox \in [Users -> SUBSET Codes]
    /\ token \in [Tokens -> Token \cup {NoToken}]
    /\ run \in [Requests -> RunState \cup {Idle}]
    /\ calls \in Nat /\ decisions \in Nat /\ failures \in Nat
    /\ used \in [Codes -> [verify : Nat, reset : Nat]]
    /\ contested \subseteq Users
    /\ cut \subseteq Users

Live(n) == token[n] # NoToken /\ ~token[n].revoked

\* Once a password was changed or reset, no session of an older password goes
\* on: the tokens are revoked, or the run that will is under way, or was cut
\* short.  Excepted is a session whose handler had read the old password and
\* stored its token after the change, which the code does not prevent.
SessionsEndWithPassword ==
    \A n \in Tokens :
        Live(n) /\ ~token[n].late /\ token[n].password # account[token[n].user].password =>
            \/ \E p \in Requests : At(p, "revoke") /\ run[p].user = token[n].user
            \/ token[n].user \in cut

\* A code does what it was sent for and does it at most once, whatever codes
\* are sent meanwhile, unless two requests act on codes of the user at once
\* (verifyEmail and resetPassword check a code and clear it a few calls later).
CodeUsedOnce ==
    \A c \in Codes :
        LET purpose == issued[c].purpose IN
        /\ used[c].verify > 0 => purpose = "SIGNUP"
        /\ used[c].reset > 0 => purpose = "PASSWORD_RESET"
        /\ used[c].verify + used[c].reset > 1 => issued[c].user \in contested

\* A suspension ends by an admin's decision or by the first verification of
\* the address (which sets ACTIVE whatever the status is), never by a second
\* one, unless two requests act on codes of the user at once.
SuspensionStands ==
    [][\A u \in Users :
        account[u].status = "SUSPENDED" /\ account'[u].status # "SUSPENDED" =>
            \/ decisions' # decisions
            \/ ~account[u].verified /\ account'[u].verified
            \/ u \in contested]_vars

===============================================================================
