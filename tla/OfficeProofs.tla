------------------------------ MODULE OfficeProofs ------------------------------
(***************************************************************************)
(* Theorems about the components that count no money: AuthSession, for any *)
(* number of users, codes, tokens and handlers, and BackOffice, for any    *)
(* schedule, tickets, rewards, users and rows, any number of calls at once *)
(* and of failures.  The two share no state.                               *)
(*                                                                         *)
(* Each component has an inductive invariant with a part per thing that is *)
(* kept.  AuthInv: what a handler may rely on at each call, what a code was*)
(* issued for, whose a token is, what was done with the codes of a user on *)
(* whom no two handlers met, and that the sessions of an old password are  *)
(* over or about to be.  DeskInv: what a reply saw of its ticket.          *)
(* RewardInv: how many calls of a user are between credit, entry and       *)
(* notification.  RecheckInv: what the script read of a user still holds.  *)
(* ScheduleInv: which task is installed, and who is about to change it.    *)
(* ListInv: what was overlooked so far, and what can be beyond the last    *)
(* page.                                                                   *)
(***************************************************************************)
EXTENDS AuthSession, BackOffice, FiniteSetTheorems, TLAPS

Finds == {"findForCode", "findForVerify", "findForLogin", "findForReset", "findForChange"}
Known == {"code", "mail", "verify", "store", "lookup", "reset", "change", "revoke"}

\* What a handler knows at each of its calls.
SoundRun(p) ==
    LET u == run[p].user
        c == run[p].code
    IN  /\ run[p].pc \in Known => account[u] # NoAccount
        /\ run[p].pc \in {"mail", "verify", "reset"} => c \in Codes
        /\ run[p].pc = "verify" =>
               issued[c] # Unissued /\ issued[c].user = u /\ issued[c].purpose = "SIGNUP"
        /\ run[p].pc = "reset" =>
               issued[c] # Unissued /\ issued[c].user = u /\ issued[c].purpose = "PASSWORD_RESET"

\* A code was used for what it was issued for, and belongs to an account.
SoundCode(c) ==
    /\ issued[c] = Unissued => used[c].verify = 0 /\ used[c].reset = 0
    /\ issued[c] # Unissued => account[issued[c].user] # NoAccount
    /\ used[c].verify > 0 => issued[c].purpose = "SIGNUP"
    /\ used[c].reset > 0 => issued[c].purpose = "PASSWORD_RESET"

\* The code on a row was issued for it.
SoundAccount(u) ==
    account[u] # NoAccount /\ account[u].otp # NoCode =>
        LET c == account[u].otp
        IN  issued[c] # Unissued /\ issued[c].user = u /\ issued[c].purpose = account[u].purpose

SoundToken(n) == token[n] # NoToken => account[token[n].user] # NoAccount

SoundInv ==
    /\ TypeOK
    /\ \A p \in Requests : SoundRun(p)
    /\ \A c \in Codes : SoundCode(c)
    /\ \A u \in Users : SoundAccount(u)
    /\ \A n \in Tokens : SoundToken(n)

\* A user on whose codes no two handlers acted at once: one handler at most
\* holds a code, and a code that was used is nowhere any more.
Uncontested(u) ==
    u \notin contested =>
        /\ \A p, q \in Requests : Holds(p, u) /\ Holds(q, u) => p = q
        /\ \A p \in Requests : At(p, "verify") /\ run[p].user = u => account[u].verified = FALSE
        /\ \A c \in Codes : issued[c] # Unissued /\ issued[c].user = u =>
               /\ used[c].verify + used[c].reset <= 1
               /\ used[c].verify + used[c].reset > 0 =>
                      /\ account[u].otp # c
                      /\ \A p \in Requests : Holds(p, u) => run[p].code # c

\* A live session is of the current password, or about to end.
Revoking(u) == (\E p \in Requests : At(p, "revoke") /\ run[p].user = u) \/ u \in cut

Current(n) ==
    Live(n) /\ token[n].late = FALSE /\ ~ Revoking(token[n].user) =>
        token[n].password = account[token[n].user].password

AuthInv ==
    /\ SoundInv
    /\ \A u \in Users : Uncontested(u)
    /\ \A n \in Tokens : Current(n)

LEMMA IdleCalls == /\ Idle.pc = "idle" /\ "idle" \notin Known /\ "idle" \notin Finds
                   /\ \A pc \in Known : pc \notin Finds
  BY DEF Idle, Known, Finds

LEMMA InitHolds == Init => AuthInv
  <1> SUFFICES ASSUME Init
               PROVE  AuthInv
    OBVIOUS
  <1>1. TypeOK
    BY DEF Init, TypeOK
  <1>2. \A p \in Requests : SoundRun(p) /\ run[p].pc = "idle"
    BY DEF Init, SoundRun, Idle, Known
  <1>3. \A c \in Codes : SoundCode(c)
    BY DEF Init, SoundCode
  <1>4. \A u \in Users : SoundAccount(u)
    BY DEF Init, SoundAccount
  <1>5. \A n \in Tokens : SoundToken(n) /\ Current(n)
    BY DEF Init, SoundToken, Current, Live
  <1>6. \A u \in Users : Uncontested(u)
    BY <1>2 DEF Init, Uncontested, Holds, At
  <1> QED
    BY <1>1, <1>2, <1>3, <1>4, <1>5, <1>6 DEF AuthInv, SoundInv

\* The call a handler is about to make tells whether it is in progress.
LEMMA Kinds ==
    ASSUME TypeOK, NEW p \in Requests
    PROVE  /\ run[p] # Idle => run[p] \in RunState /\ run[p].pc \in Known \cup Finds
           /\ run[p].pc \in Known \cup Finds =>
                  /\ run[p] \in RunState /\ run[p].user \in Users /\ run[p].password \in Nat
                  /\ run[p].purpose \in Purpose /\ run[p].code \in Codes \cup {NoCode}
  <1>1. run[p] \in RunState \cup {Idle}
    BY DEF TypeOK
  <1>2. run[p] = Idle => run[p].pc \notin Known \cup Finds
    BY IdleCalls
  <1>3. run[p] \in RunState =>
            /\ run[p].pc \in Known \cup Finds /\ run[p].user \in Users /\ run[p].password \in Nat
            /\ run[p].purpose \in Purpose /\ run[p].code \in Codes \cup {NoCode}
    BY DEF RunState, Known, Finds
  <1> QED
    BY <1>1, <1>2, <1>3

LEMMA AccountRow ==
    ASSUME TypeOK, NEW u \in Users, account[u] # NoAccount
    PROVE  /\ account[u] \in Account
           /\ account[u].status \in {"ACTIVE", "INACTIVE", "SUSPENDED"}
           /\ account[u].verified \in BOOLEAN /\ account[u].deleted \in BOOLEAN
           /\ account[u].expired \in BOOLEAN
           /\ account[u].password \in Nat /\ account[u].otp \in Codes \cup {NoCode}
           /\ account[u].purpose \in Purpose
  <1>1. account[u] \in Account
    BY DEF TypeOK
  <1> QED
    BY <1>1 DEF Account

LEMMA AccountNotNone == \A y \in Account : y # NoAccount
  <1>1. \A y \in Account : y.status # "NONE"
    BY DEF Account
  <1>2. NoAccount.status = "NONE"
    BY DEF NoAccount
  <1> QED
    BY <1>1, <1>2

LEMMA TokenRow ==
    ASSUME TypeOK, NEW n \in Tokens, token[n] # NoToken
    PROVE  /\ token[n] \in Token /\ token[n].user \in Users /\ token[n].given \in Tokens
           /\ token[n].text \in Tokens \cup {""} /\ token[n].password \in Nat
           /\ token[n].revoked \in BOOLEAN /\ token[n].late \in BOOLEAN
  <1>1. token[n] \in Token
    BY DEF TypeOK
  <1> QED
    BY <1>1 DEF Token

\* Goto and End change nothing but one handler.
LEMMA GotoKeeps ==
    ASSUME TypeOK, NEW p \in Requests, run[p].pc \in Known \cup Finds, NEW pc \in Known, Goto(p, pc)
    PROVE  /\ run' \in [Requests -> RunState \cup {Idle}]
           /\ \A q \in Requests \ {p} : run'[q] = run[q]
           /\ run'[p].pc = pc /\ run'[p].user = run[p].user /\ run'[p].code = run[p].code
           /\ run'[p].password = run[p].password
  <1>1. run[p] \in RunState
    BY Kinds
  <1>2. run'[p] = [run[p] EXCEPT !.pc = pc] /\ \A q \in Requests \ {p} : run'[q] = run[q]
    BY DEF Goto, TypeOK
  <1>3. run'[p] \in RunState
    BY <1>1, <1>2 DEF RunState, Known
  <1>4. run' \in [Requests -> RunState \cup {Idle}]
    BY <1>2, <1>3 DEF Goto, TypeOK
  <1>5. /\ run'[p].pc = pc /\ run'[p].user = run[p].user /\ run'[p].code = run[p].code
        /\ run'[p].password = run[p].password
    BY <1>1, <1>2 DEF RunState
  <1> QED
    BY <1>2, <1>4, <1>5

LEMMA EndKeeps ==
    ASSUME TypeOK, NEW p \in Requests, End(p)
    PROVE  /\ run' \in [Requests -> RunState \cup {Idle}]
           /\ run'[p] = Idle /\ run'[p].pc = "idle"
           /\ \A q \in Requests \ {p} : run'[q] = run[q]
  BY IdleCalls DEF End, TypeOK

\* A step of one handler that changes no row and holds no code.
LEMMA RunStepHolds ==
    ASSUME AuthInv, TypeOK', NEW p \in Requests,
           UNCHANGED <<account, issued, token, used, contested>>, cut \subseteq cut',
           \A q \in Requests \ {p} : run'[q] = run[q],
           SoundRun(p)', run'[p].pc \notin {"verify", "reset"},
           run[p].pc = "revoke" => run[p].user \in cut'
    PROVE  AuthInv'
  <1>1. \A q \in Requests : SoundRun(q)'
    BY DEF AuthInv, SoundInv, SoundRun
  <1>2. /\ \A c \in Codes : SoundCode(c)'
        /\ \A u \in Users : SoundAccount(u)'
        /\ \A n \in Tokens : SoundToken(n)'
    BY DEF AuthInv, SoundInv, SoundCode, SoundAccount, SoundToken
  <1>3. \A q \in Requests, u \in Users : Holds(q, u)' => q # p /\ Holds(q, u) /\ run'[q] = run[q]
    BY DEF Holds
  <1>4. ASSUME NEW u \in Users
        PROVE  Uncontested(u)'
    BY <1>3 DEF AuthInv, Uncontested, At, Holds
  <1>5. ASSUME NEW n \in Tokens
        PROVE  Current(n)'
    <2>1. \A u : Revoking(u) => Revoking(u)'
      BY DEF Revoking, At
    <2> QED
      BY <2>1 DEF AuthInv, Current, Live
  <1> QED
    BY <1>1, <1>2, <1>4, <1>5 DEF AuthInv, SoundInv

LEMMA CountsUp == \A n \in Nat : n + 1 \in Nat
  OBVIOUS

\* A request arrives that only reads at first.
LEMMA EnterHolds ==
    ASSUME AuthInv, NEW p \in Requests, NEW u \in Users, NEW pc \in Finds \cup {"lookup"},
           NEW purpose \in Purpose, NEW presented \in Tokens \cup {""},
           Enter(p, u, pc, purpose, presented), pc = "lookup" => account[u] # NoAccount,
           UNCHANGED <<account, issued, inbox, token, decisions, failures, observed>>
    PROVE  AuthInv'
  <1>1. PICK x : x = [pc |-> pc, user |-> u, purpose |-> purpose, code |-> NoCode,
                      password |-> 0, presented |-> presented]
    OBVIOUS
  <1>2. x \in RunState /\ x.pc = pc /\ x.user = u
    BY <1>1 DEF RunState, Finds
  <1>3. run' = [run EXCEPT ![p] = x] /\ run[p] = Idle /\ calls' = calls + 1
    BY <1>1 DEF Enter
  <1>4. /\ run' \in [Requests -> RunState \cup {Idle}] /\ run'[p] = x
        /\ \A q \in Requests \ {p} : run'[q] = run[q]
    BY <1>2, <1>3 DEF AuthInv, SoundInv, TypeOK
  <1>5. TypeOK'
    <2>1. calls' \in Nat
      <3>1. calls \in Nat
        BY DEF AuthInv, SoundInv, TypeOK
      <3>2. calls' = calls + 1
        BY <1>3
      <3> QED
        BY <3>1, <3>2, CountsUp, Zenon
    <2>2. UNCHANGED <<account, issued, inbox, token, decisions, failures, used, contested, cut>>
      BY DEF observed
    <2> QED
      BY <1>4, <2>1, <2>2 DEF AuthInv, SoundInv, TypeOK
  <1>6. SoundRun(p)'
    BY <1>2, <1>4 DEF SoundRun, Known, Finds
  <1>7. run'[p].pc \notin {"verify", "reset"} /\ run[p].pc # "revoke"
    BY <1>2, <1>3, <1>4, IdleCalls DEF Finds
  <1> QED
    BY <1>4, <1>5, <1>6, <1>7, RunStepHolds DEF observed

\* The requests that arrive so.
LEMMA RequestsHold ==
    ASSUME AuthInv, NEW p \in Requests,
           \/ \E u \in Users, purpose \in Purpose : ResendOtp(p, u, purpose)
           \/ \E u \in Users : \/ ForgotPassword(p, u) \/ VerifyEmail(p, u) \/ Login(p, u)
                               \/ ResetPassword(p, u) \/ ChangePassword(p, u)
           \/ \E n \in Tokens : RefreshTokens(p, n)
    PROVE  AuthInv'
  <1>1. "SIGNUP" \in Purpose /\ "PASSWORD_RESET" \in Purpose /\ "" \in Tokens \cup {""}
    BY DEF Purpose
  <1>2. ASSUME NEW u \in Users, NEW purpose \in Purpose, ResendOtp(p, u, purpose)
        PROVE  AuthInv'
    BY <1>1, <1>2, EnterHolds DEF ResendOtp, Finds
  <1>3. ASSUME NEW u \in Users,
               \/ ForgotPassword(p, u) \/ VerifyEmail(p, u) \/ Login(p, u)
               \/ ResetPassword(p, u) \/ ChangePassword(p, u)
        PROVE  AuthInv'
    <2>1. PICK pc \in Finds, purpose \in Purpose : Enter(p, u, pc, purpose, "")
      BY <1>1, <1>3 DEF ForgotPassword, VerifyEmail, Login, ResetPassword, ChangePassword, Finds
    <2>2. UNCHANGED <<account, issued, inbox, token, decisions, failures, observed>>
      BY <1>3 DEF ForgotPassword, VerifyEmail, Login, ResetPassword, ChangePassword
    <2>3. pc # "lookup"
      BY DEF Finds
    <2> QED
      BY <1>1, <2>1, <2>2, <2>3, EnterHolds
  <1>4. ASSUME NEW n \in Tokens, RefreshTokens(p, n)
        PROVE  AuthInv'
    <2>1. PICK u, g : u = token[n].user /\ g = token[n].given
      OBVIOUS
    <2>2. u \in Users /\ g \in Tokens /\ account[u] # NoAccount
      BY <1>4, <2>1, TokenRow DEF RefreshTokens, AuthInv, SoundInv, SoundToken
    <2>3. /\ Enter(p, u, "lookup", "SIGNUP", g)
          /\ UNCHANGED <<account, issued, inbox, token, decisions, failures, observed>>
      BY <1>4, <2>1 DEF RefreshTokens
    <2> QED
      BY <1>1, <2>2, <2>3, EnterHolds
  <1> QED
    BY <1>2, <1>3, <1>4

LEMMA FoundExists == ASSUME NEW u \in Users, Found(u) PROVE account[u] # NoAccount
  BY DEF Found

LEMMA FindsHold ==
    ASSUME AuthInv, NEW p \in Requests, FindForCode(p) \/ CheckOldPassword(p)
    PROVE  AuthInv'
  <1>1. PICK u : u = run[p].user
    OBVIOUS
  <1>2. run[p].pc \in Finds /\ run[p].pc \in Known \cup Finds /\ Found(u)
    BY <1>1 DEF FindForCode, CheckOldPassword, At, Finds
  <1>3. PICK pc \in {"code", "change"} : Goto(p, pc)
    BY DEF FindForCode, CheckOldPassword
  <1>4. pc \in Known /\ UNCHANGED <<account, issued, inbox, token, counters, observed>>
    BY DEF FindForCode, CheckOldPassword, Known
  <1>5. u \in Users /\ account[u] # NoAccount
    BY <1>1, <1>2, Kinds, FoundExists DEF AuthInv, SoundInv
  <1>6. /\ run' \in [Requests -> RunState \cup {Idle}]
        /\ \A q \in Requests \ {p} : run'[q] = run[q]
        /\ run'[p].pc = pc /\ run'[p].user = u
    BY <1>1, <1>2, <1>3, <1>4, GotoKeeps DEF AuthInv, SoundInv
  <1>7. TypeOK'
    BY <1>4, <1>6 DEF AuthInv, SoundInv, TypeOK, counters, observed
  <1>8. SoundRun(p)'
    BY <1>4, <1>5, <1>6 DEF SoundRun
  <1>9. run[p].pc # "revoke"
    BY <1>2 DEF Finds
  <1> QED
    BY <1>4, <1>6, <1>7, <1>8, <1>9, RunStepHolds DEF observed

LEMMA CheckLoginHolds ==
    ASSUME AuthInv, NEW p \in Requests, CheckLogin(p)
    PROVE  AuthInv'
  <1>1. PICK u : u = run[p].user
    OBVIOUS
  <1>2. run[p].pc = "findForLogin" /\ run[p].pc \in Known \cup Finds /\ Found(u)
    BY <1>1 DEF CheckLogin, At, Finds
  <1>3. u \in Users /\ account[u] # NoAccount /\ run[p] \in RunState
    BY <1>1, <1>2, Kinds, FoundExists DEF AuthInv, SoundInv
  <1>4. account[u].password \in Nat
    BY <1>3, AccountRow DEF AuthInv, SoundInv
  <1>5. PICK x : x = [run[p] EXCEPT !.pc = "store", !.password = account[u].password]
    OBVIOUS
  <1>6. x \in RunState /\ x.pc = "store" /\ x.user = u
    BY <1>1, <1>3, <1>4, <1>5 DEF RunState
  <1>7. run' = [run EXCEPT ![p] = x] /\ UNCHANGED <<account, issued, inbox, token, counters, observed>>
    BY <1>1, <1>5 DEF CheckLogin
  <1>8. /\ run' \in [Requests -> RunState \cup {Idle}] /\ run'[p] = x
        /\ \A q \in Requests \ {p} : run'[q] = run[q]
    BY <1>6, <1>7 DEF AuthInv, SoundInv, TypeOK
  <1>9. TypeOK'
    BY <1>7, <1>8 DEF AuthInv, SoundInv, TypeOK, counters, observed
  <1>10. SoundRun(p)'
    BY <1>3, <1>6, <1>7, <1>8 DEF SoundRun
  <1> QED
    BY <1>2, <1>6, <1>7, <1>8, <1>9, <1>10, RunStepHolds DEF observed

\* A handler ends without having written anything of concern.
LEMMA PlainEndsHold ==
    ASSUME AuthInv, NEW p \in Requests, End(p), TypeOK',
           UNCHANGED <<account, issued, token, used, contested>>, cut \subseteq cut',
           run[p].pc = "revoke" => run[p].user \in cut'
    PROVE  AuthInv'
  <1>1. run'[p].pc = "idle" /\ \A q \in Requests \ {p} : run'[q] = run[q]
    BY EndKeeps DEF AuthInv, SoundInv
  <1>2. SoundRun(p)'
    BY <1>1 DEF SoundRun, Known
  <1> QED
    BY <1>1, <1>2, RunStepHolds

LEMMA EndsHold ==
    ASSUME AuthInv, NEW p \in Requests, Refused(p) \/ SameSecond(p) \/ SendMail(p) \/ Fail(p)
    PROVE  AuthInv'
  <1>1. End(p) /\ UNCHANGED <<account, issued, token, used, contested>>
    BY DEF Refused, SameSecond, SendMail, Fail, observed
  <1>2. run' \in [Requests -> RunState \cup {Idle}]
    BY <1>1, EndKeeps DEF AuthInv, SoundInv
  <1>3. CASE Refused(p) \/ SameSecond(p)
    <2>1. UNCHANGED <<inbox, counters, observed>> /\ run[p].pc # "revoke"
      BY <1>3 DEF Refused, SameSecond, At
    <2>2. TypeOK'
      BY <1>1, <1>2, <2>1 DEF AuthInv, SoundInv, TypeOK, counters, observed
    <2> QED
      BY <1>1, <2>1, <2>2, PlainEndsHold DEF observed
  <1>4. CASE SendMail(p)
    <2>1. UNCHANGED <<counters, observed>> /\ run[p].pc = "mail"
      BY <1>4 DEF SendMail, At
    <2>2. PICK u, c : u = run[p].user /\ c = run[p].code
      OBVIOUS
    <2>3. c \in Codes /\ u \in Users
      BY <2>1, <2>2, Kinds DEF AuthInv, SoundInv, SoundRun, Known
    <2>4. inbox' = [inbox EXCEPT ![u] = @ \cup {c}]
      BY <1>4, <2>2 DEF SendMail
    <2>5. inbox' \in [Users -> SUBSET Codes]
      BY <2>3, <2>4 DEF AuthInv, SoundInv, TypeOK
    <2>6. TypeOK'
      BY <1>1, <1>2, <2>1, <2>5 DEF AuthInv, SoundInv, TypeOK, counters, observed
    <2> QED
      BY <1>1, <2>1, <2>6, PlainEndsHold DEF observed
  <1>5. CASE Fail(p)
    <2>1. /\ UNCHANGED <<inbox, calls, decisions>> /\ failures' \in Nat
          /\ cut' = cut \cup CutUsers({p})
      BY <1>5 DEF Fail, AuthInv, SoundInv, TypeOK
    <2>2. CutUsers({p}) \subseteq Users
      BY Kinds DEF CutUsers, At, AuthInv, SoundInv, Known
    <2>3. run[p].pc = "revoke" => run[p].user \in CutUsers({p})
      BY DEF CutUsers, At
    <2>4. TypeOK'
      BY <1>1, <1>2, <2>1, <2>2 DEF AuthInv, SoundInv, TypeOK
    <2> QED
      BY <1>1, <2>1, <2>3, <2>4, PlainEndsHold
  <1> QED
    BY <1>3, <1>4, <1>5

-------------------------------------------------------------------------------
(* Signing up and codes *)

LEMMA SignupHolds ==
    ASSUME AuthInv, NEW p \in Requests, NEW u \in Users, Signup(p, u)
    PROVE  AuthInv'
  <1>1. PICK x : x = [pc |-> "code", user |-> u, purpose |-> "SIGNUP", code |-> NoCode,
                      password |-> 0, presented |-> ""]
    OBVIOUS
  <1>2. x \in RunState /\ x.pc = "code" /\ x.user = u
    BY <1>1 DEF RunState, Purpose
  <1>3. /\ run' = [run EXCEPT ![p] = x] /\ run[p] = Idle /\ calls' = calls + 1
        /\ account[u] = NoAccount /\ account' = [account EXCEPT ![u] = NewAccount]
        /\ UNCHANGED <<issued, inbox, token, decisions, failures, used, contested, cut>>
    BY <1>1 DEF Signup, Enter, observed
  <1>4. /\ run' \in [Requests -> RunState \cup {Idle}] /\ run'[p] = x
        /\ \A q \in Requests \ {p} : run'[q] = run[q]
    BY <1>2, <1>3 DEF AuthInv, SoundInv, TypeOK
  <1>5. NewAccount \in Account /\ NewAccount # NoAccount /\ NewAccount.otp = NoCode
    BY DEF NewAccount, NoAccount, Account, Purpose
  <1>6. /\ account' \in [Users -> Account \cup {NoAccount}] /\ account'[u] = NewAccount
        /\ \A v \in Users \ {u} : account'[v] = account[v]
    BY <1>3, <1>5 DEF AuthInv, SoundInv, TypeOK
  <1>7. TypeOK'
    <2>1. calls' \in Nat
      BY <1>3 DEF AuthInv, SoundInv, TypeOK
    <2> QED
      BY <1>3, <1>4, <1>6, <2>1 DEF AuthInv, SoundInv, TypeOK
  <1>8. \A v : account[v] # NoAccount /\ v \in Users => v # u /\ account'[v] = account[v]
    BY <1>3, <1>6
  <1>9. \A q \in Requests : run[q].pc \in Known => run[q].user # u /\ run[q].user \in Users
    BY <1>3, Kinds DEF AuthInv, SoundInv, SoundRun
  <1>10. ASSUME NEW q \in Requests
         PROVE  SoundRun(q)'
    <2>1. CASE q = p
      BY <1>2, <1>4, <1>5, <1>6, <2>1 DEF SoundRun
    <2>2. CASE q # p
      BY <1>3, <1>4, <1>6, <1>9, <2>2 DEF SoundRun, AuthInv, SoundInv
    <2> QED
      BY <2>1, <2>2
  <1>11. \A c \in Codes : issued[c] # Unissued => issued[c].user \in Users /\ issued[c].user # u
    BY <1>3 DEF AuthInv, SoundInv, SoundCode, TypeOK, Issue
  <1>12. \A c \in Codes : SoundCode(c)'
    BY <1>3, <1>6, <1>11 DEF AuthInv, SoundInv, SoundCode
  <1>13. \A v \in Users : SoundAccount(v)'
    BY <1>3, <1>5, <1>6 DEF AuthInv, SoundInv, SoundAccount
  <1>14. \A n \in Tokens : token[n] # NoToken => token[n].user \in Users /\ token[n].user # u
    BY <1>3, TokenRow DEF AuthInv, SoundInv, SoundToken
  <1>15. \A n \in Tokens : SoundToken(n)'
    BY <1>3, <1>6, <1>14 DEF AuthInv, SoundInv, SoundToken
  <1>16. \A q \in Requests, v \in Users :
            Holds(q, v)' => q # p /\ Holds(q, v) /\ run'[q] = run[q] /\ v # u
    BY <1>2, <1>4, <1>9 DEF Holds, Known
  <1>17. ASSUME NEW v \in Users
         PROVE  Uncontested(v)'
    BY <1>3, <1>6, <1>11, <1>16 DEF AuthInv, Uncontested, At, Holds
  <1>18. ASSUME NEW n \in Tokens
         PROVE  Current(n)'
    <2>1. \A v : Revoking(v) => Revoking(v)'
      BY <1>3, <1>4, IdleCalls DEF Revoking, At
    <2> QED
      BY <1>3, <1>6, <1>14, <2>1 DEF AuthInv, Current, Live
  <1> QED
    BY <1>7, <1>10, <1>12, <1>13, <1>15, <1>17, <1>18 DEF AuthInv, SoundInv

LEMMA SetEmailOtpHolds ==
    ASSUME AuthInv, NEW p \in Requests, SetEmailOtp(p)
    PROVE  AuthInv'
  <1>1. PICK u, purpose : u = run[p].user /\ purpose = run[p].purpose
    OBVIOUS
  <1>2. PICK c \in Codes :
            /\ issued[c] = Unissued
            /\ issued' = [issued EXCEPT ![c] = [user |-> u, purpose |-> purpose]]
            /\ account' = [account EXCEPT ![u].otp = c, ![u].purpose = purpose, ![u].expired = FALSE]
            /\ run' = [run EXCEPT ![p].pc = "mail", ![p].code = c]
    BY <1>1 DEF SetEmailOtp
  <1>3. run[p].pc = "code" /\ UNCHANGED <<inbox, token, calls, decisions, failures, used, contested, cut>>
    BY DEF SetEmailOtp, At, counters, observed
  <1>4. run[p] \in RunState /\ u \in Users /\ purpose \in Purpose /\ account[u] # NoAccount
    BY <1>1, <1>3, Kinds DEF AuthInv, SoundInv, SoundRun, Known
  <1>5. PICK x : x = [run[p] EXCEPT !.pc = "mail", !.code = c]
    OBVIOUS
  <1>6. x \in RunState /\ x.pc = "mail" /\ x.user = u /\ x.code = c
    BY <1>1, <1>4, <1>5 DEF RunState
  <1>7. /\ run' \in [Requests -> RunState \cup {Idle}] /\ run'[p] = x
        /\ \A q \in Requests \ {p} : run'[q] = run[q]
    BY <1>2, <1>5, <1>6 DEF AuthInv, SoundInv, TypeOK
  <1>8. PICK y : y = [account[u] EXCEPT !.otp = c, !.purpose = purpose, !.expired = FALSE]
    OBVIOUS
  <1>9. /\ y \in Account /\ y.otp = c /\ y.purpose = purpose /\ y.password = account[u].password
        /\ y.verified = account[u].verified
    BY <1>4, <1>8, AccountRow DEF AuthInv, SoundInv, Account
  <1>10. y # NoAccount
    BY <1>9, AccountNotNone
  <1>11. /\ account' \in [Users -> Account \cup {NoAccount}] /\ account'[u] = y
         /\ \A v \in Users \ {u} : account'[v] = account[v]
    BY <1>2, <1>4, <1>8, <1>9 DEF AuthInv, SoundInv, TypeOK
  <1>12. PICK z : z = [user |-> u, purpose |-> purpose]
    OBVIOUS
  <1>13. z \in Issue /\ z # Unissued /\ z.user = u /\ z.purpose = purpose
    BY <1>4, <1>12 DEF Issue, Unissued
  <1>14. /\ issued' \in [Codes -> Issue \cup {Unissued}] /\ issued'[c] = z
         /\ \A d \in Codes \ {c} : issued'[d] = issued[d]
    BY <1>2, <1>12, <1>13 DEF AuthInv, SoundInv, TypeOK
  <1>15. TypeOK'
    BY <1>3, <1>7, <1>11, <1>14 DEF AuthInv, SoundInv, TypeOK
  <1>16. \A v \in Users : account[v] # NoAccount => account'[v] # NoAccount
    BY <1>10, <1>11
  <1>17. \A q \in Requests : SoundRun(q) /\ (run[q].pc \in Known => run[q].user \in Users)
    BY Kinds DEF AuthInv, SoundInv
  <1>18. ASSUME NEW q \in Requests
         PROVE  SoundRun(q)'
    <2>1. CASE q = p
      BY <1>4, <1>6, <1>7, <1>10, <1>11, <2>1 DEF SoundRun
    <2>2. CASE q # p
      <3>1. run'[q] = run[q] /\ SoundRun(q)
        BY <1>7, <1>17, <2>2
      <3>2. run[q].pc \in {"verify", "reset"} => run[q].code \in Codes \ {c}
        BY <1>2, <3>1 DEF SoundRun
      <3> QED
        BY <1>14, <1>16, <1>17, <3>1, <3>2 DEF SoundRun
    <2> QED
      BY <2>1, <2>2
  <1>19. \A d \in Codes : SoundCode(d) /\ (issued[d] # Unissued => issued[d].user \in Users)
    BY DEF AuthInv, SoundInv, TypeOK, Issue
  <1>20. ASSUME NEW d \in Codes
         PROVE  SoundCode(d)'
    <2>1. CASE d = c
      BY <1>2, <1>3, <1>10, <1>11, <1>13, <1>14, <1>19, <2>1 DEF SoundCode
    <2>2. CASE d # c
      BY <1>3, <1>14, <1>16, <1>19, <2>2 DEF SoundCode
    <2> QED
      BY <2>1, <2>2
  <1>21. ASSUME NEW v \in Users
         PROVE  SoundAccount(v)'
    <2>1. CASE v = u
      BY <1>9, <1>11, <1>13, <1>14, <2>1 DEF SoundAccount
    <2>2. CASE v # u
      <3>1. SoundAccount(v) /\ account'[v] = account[v]
        BY <1>11, <2>2 DEF AuthInv, SoundInv
      <3>2. account[v] # NoAccount => account[v].otp \in Codes \cup {NoCode}
        BY AccountRow DEF AuthInv, SoundInv
      <3> QED
        BY <1>2, <1>14, <3>1, <3>2 DEF SoundAccount
    <2> QED
      BY <2>1, <2>2
  <1>22. \A n \in Tokens : token[n] # NoToken => token[n].user \in Users
    BY TokenRow DEF AuthInv, SoundInv
  <1>23. \A n \in Tokens : SoundToken(n)'
    BY <1>3, <1>16, <1>22 DEF AuthInv, SoundInv, SoundToken
  <1>24. \A q \in Requests, v \in Users : Holds(q, v)' => q # p /\ Holds(q, v) /\ run'[q] = run[q]
    BY <1>6, <1>7 DEF Holds
  <1>25. ASSUME NEW v \in Users
         PROVE  Uncontested(v)'
    <2> SUFFICES ASSUME v \notin contested
                 PROVE  Uncontested(v)'
      BY <1>3 DEF Uncontested
    <2>1. Uncontested(v)
      BY DEF AuthInv
    <2>2. \A q, r \in Requests : Holds(q, v)' /\ Holds(r, v)' => q = r
      BY <1>24, <2>1 DEF Uncontested
    <2>3. \A q \in Requests : At(q, "verify")' /\ run'[q].user = v => account'[v].verified = FALSE
      BY <1>6, <1>7, <1>9, <1>11, <2>1 DEF Uncontested, At
    <2>4. ASSUME NEW d \in Codes, issued'[d] # Unissued, issued'[d].user = v
          PROVE  /\ used'[d].verify + used'[d].reset <= 1
                 /\ used'[d].verify + used'[d].reset > 0 =>
                        /\ account'[v].otp # d
                        /\ \A q \in Requests : Holds(q, v)' => run'[q].code # d
      <3>1. CASE d = c
        BY <1>2, <1>3, <1>19, <3>1 DEF SoundCode
      <3>2. CASE d # c
        <4>1. issued[d] # Unissued /\ issued[d].user = v /\ used' = used
          BY <1>3, <1>14, <2>4, <3>2
        <4>2. /\ used[d].verify + used[d].reset <= 1
              /\ used[d].verify + used[d].reset > 0 =>
                     /\ account[v].otp # d
                     /\ \A q \in Requests : Holds(q, v) => run[q].code # d
          BY <2>1, <4>1 DEF Uncontested
        <4>3. account'[v].otp = account[v].otp \/ account'[v].otp = c
          BY <1>9, <1>11
        <4> QED
          BY <1>24, <3>2, <4>1, <4>2, <4>3
      <3> QED
        BY <3>1, <3>2
    <2> QED
      BY <2>2, <2>3, <2>4 DEF Uncontested
  <1>26. ASSUME NEW n \in Tokens
         PROVE  Current(n)'
    <2>1. \A v : Revoking(v) => Revoking(v)'
      BY <1>3, <1>7 DEF Revoking, At
    <2>2. \A v \in Users : account'[v].password = account[v].password
      BY <1>9, <1>11
    <2> QED
      BY <1>3, <1>22, <2>1, <2>2 DEF AuthInv, Current, Live
  <1> QED
    BY <1>15, <1>18, <1>20, <1>21, <1>23, <1>25, <1>26 DEF AuthInv, SoundInv

\* A row changes in what neither a code nor a password is about.
LEMMA RowHolds ==
    ASSUME AuthInv, NEW u \in Users, account[u] # NoAccount, NEW y \in Account,
           account' = [account EXCEPT ![u] = y],
           y.otp = account[u].otp, y.purpose = account[u].purpose,
           y.password = account[u].password, y.verified = account[u].verified,
           UNCHANGED <<issued, inbox, token, run, calls, failures, used, contested, cut>>,
           decisions' \in Nat
    PROVE  AuthInv'
  <1>1. /\ account' \in [Users -> Account \cup {NoAccount}] /\ account'[u] = y
        /\ \A v \in Users \ {u} : account'[v] = account[v]
    BY DEF AuthInv, SoundInv, TypeOK
  <1>2. y # NoAccount
    BY AccountNotNone
  <1>3. TypeOK'
    BY <1>1 DEF AuthInv, SoundInv, TypeOK
  <1>4. \A v \in Users : /\ account[v] # NoAccount => account'[v] # NoAccount
                         /\ account'[v] # NoAccount => account[v] # NoAccount
                         /\ account'[v].otp = account[v].otp
                         /\ account'[v].purpose = account[v].purpose
                         /\ account'[v].password = account[v].password
                         /\ account'[v].verified = account[v].verified
    BY <1>1, <1>2
  <1>5. \A q \in Requests : SoundRun(q)'
    <2>1. \A q \in Requests : run[q].pc \in Known => run[q].user \in Users
      BY Kinds DEF AuthInv, SoundInv
    <2> QED
      BY <1>4, <2>1 DEF AuthInv, SoundInv, SoundRun
  <1>6. \A c \in Codes : SoundCode(c)'
    <2>1. \A c \in Codes : issued[c] # Unissued => issued[c].user \in Users
      BY DEF AuthInv, SoundInv, TypeOK, Issue
    <2> QED
      BY <1>4, <2>1 DEF AuthInv, SoundInv, SoundCode
  <1>7. \A v \in Users : SoundAccount(v)'
    BY <1>4 DEF AuthInv, SoundInv, SoundAccount
  <1>8. \A n \in Tokens : token[n] # NoToken => token[n].user \in Users
    BY TokenRow DEF AuthInv, SoundInv
  <1>9. \A n \in Tokens : SoundToken(n)'
    BY <1>4, <1>8 DEF AuthInv, SoundInv, SoundToken
  <1>10. \A v \in Users : Uncontested(v)'
    BY <1>4 DEF AuthInv, Uncontested, At, Holds
  <1>11. \A n \in Tokens : Current(n)'
    BY <1>4, <1>8 DEF AuthInv, Current, Revoking, Live, At
  <1> QED
    BY <1>3, <1>5, <1>6, <1>7, <1>9, <1>10, <1>11 DEF AuthInv, SoundInv

LEMMA ExpireHolds ==
    ASSUME AuthInv, NEW u \in Users, Expire(u)
    PROVE  AuthInv'
  <1>1. PICK y : y = [account[u] EXCEPT !.expired = TRUE]
    OBVIOUS
  <1>2. /\ account[u] # NoAccount /\ account' = [account EXCEPT ![u] = y]
        /\ UNCHANGED <<issued, inbox, token, run, calls, decisions, failures, used, contested, cut>>
    BY <1>1 DEF Expire, counters, observed
  <1>3. account[u] \in Account /\ decisions \in Nat
    BY <1>2, AccountRow DEF AuthInv, SoundInv, TypeOK
  <1>4. /\ y \in Account /\ y.otp = account[u].otp /\ y.purpose = account[u].purpose
        /\ y.password = account[u].password /\ y.verified = account[u].verified
    BY <1>1, <1>3 DEF Account
  <1> QED
    BY <1>2, <1>3, <1>4, RowHolds

LEMMA ManageUserHolds ==
    ASSUME AuthInv, NEW u \in Users, NEW given \in {"ACTIVE", "SUSPENDED"}, NEW delete \in BOOLEAN,
           ManageUser(u, given, delete)
    PROVE  AuthInv'
  <1>1. account[u] # NoAccount /\ decisions' = decisions + 1
    BY FoundExists DEF ManageUser
  <1>2. account[u] \in Account /\ account[u].status \in {"ACTIVE", "INACTIVE", "SUSPENDED"}
    BY <1>1, AccountRow DEF AuthInv, SoundInv
  <1>3. PICK s \in {"ACTIVE", "INACTIVE", "SUSPENDED"} :
            s = IF delete THEN account[u].status ELSE given
    BY <1>2
  <1>4. PICK y : y = [account[u] EXCEPT !.status = s, !.deleted = delete]
    OBVIOUS
  <1>5. account' = [account EXCEPT ![u] = y]
    BY <1>3, <1>4 DEF ManageUser
  <1>6. UNCHANGED <<issued, inbox, token, run, calls, failures, used, contested, cut>>
    BY DEF ManageUser, observed
  <1>7. /\ y \in Account /\ y.otp = account[u].otp /\ y.purpose = account[u].purpose
        /\ y.password = account[u].password /\ y.verified = account[u].verified
    BY <1>2, <1>4 DEF Account
  <1>8. decisions' \in Nat
    BY <1>1 DEF AuthInv, SoundInv, TypeOK
  <1> QED
    BY <1>1, <1>5, <1>6, <1>7, <1>8, RowHolds

LEMMA CrashHolds == ASSUME AuthInv, Crash PROVE AuthInv'
  <1>1. /\ run' = [q \in Requests |-> Idle] /\ cut' = cut \cup CutUsers(Requests)
        /\ failures' = failures + 1
        /\ UNCHANGED <<account, issued, inbox, token, calls, decisions, used, contested>>
    BY DEF Crash
  <1>2. \A q \in Requests : run'[q] = Idle /\ run'[q].pc = "idle"
    BY <1>1, IdleCalls
  <1>3. CutUsers(Requests) \subseteq Users
    BY Kinds DEF CutUsers, At, AuthInv, SoundInv, Known
  <1>4. failures' \in Nat
    BY <1>1 DEF AuthInv, SoundInv, TypeOK
  <1>5. run' \in [Requests -> RunState \cup {Idle}]
    BY <1>1
  <1>6. TypeOK'
    BY <1>1, <1>3, <1>4, <1>5 DEF AuthInv, SoundInv, TypeOK
  <1>7. \A q \in Requests : SoundRun(q)'
    BY <1>2 DEF SoundRun, Known
  <1>8. /\ \A c \in Codes : SoundCode(c)'
        /\ \A u \in Users : SoundAccount(u)'
        /\ \A n \in Tokens : SoundToken(n)'
    BY <1>1 DEF AuthInv, SoundInv, SoundCode, SoundAccount, SoundToken
  <1>9. \A u \in Users : Uncontested(u)'
    BY <1>1, <1>2 DEF AuthInv, Uncontested, Holds, At
  <1>10. \A u : Revoking(u) => Revoking(u)'
    BY <1>1 DEF Revoking, CutUsers, At
  <1>11. \A n \in Tokens : Current(n)'
    BY <1>1, <1>10 DEF AuthInv, Current, Live
  <1> QED
    BY <1>6, <1>7, <1>8, <1>9, <1>11 DEF AuthInv, SoundInv

-------------------------------------------------------------------------------
(* Tokens *)

\* Revoking a user's tokens leaves the live ones of the others.
LEMMA RevokedKeeps ==
    ASSUME TypeOK, NEW u \in Users, token' = Revoked(u)
    PROVE  /\ token' \in [Tokens -> Token \cup {NoToken}]
           /\ \A n \in Tokens : token'[n] # NoToken =>
                  token[n] # NoToken /\ token'[n].user = token[n].user
           /\ \A n \in Tokens : Live(n)' => /\ Live(n) /\ token'[n] = token[n]
                                            /\ token[n].user # u /\ token[n].user \in Users
  <1> SUFFICES ASSUME NEW n \in Tokens
               PROVE  /\ token'[n] \in Token \cup {NoToken}
                      /\ token'[n] # NoToken => token[n] # NoToken /\ token'[n].user = token[n].user
                      /\ Live(n)' => /\ Live(n) /\ token'[n] = token[n]
                                     /\ token[n].user # u /\ token[n].user \in Users
    BY DEF Revoked
  <1>1. CASE token[n] = NoToken
    <2>1. token[n].user # u
      BY <1>1, UserAssumption DEF NoToken
    <2> QED
      BY <1>1, <2>1 DEF Revoked, Live
  <1>2. CASE token[n] # NoToken
    <2>1. token[n] \in Token /\ token[n].user \in Users
      BY <1>2, TokenRow
    <2>2. CASE token[n].user # u
      BY <1>2, <2>1, <2>2 DEF Revoked, Live
    <2>3. CASE token[n].user = u
      <3>1. PICK t : t = [token[n] EXCEPT !.revoked = TRUE]
        OBVIOUS
      <3>2. token'[n] = t
        BY <2>3, <3>1 DEF Revoked
      <3>3. t \in Token /\ t.revoked = TRUE /\ t.user = u
        BY <2>1, <2>3, <3>1 DEF Token
      <3> QED
        BY <1>2, <2>3, <3>2, <3>3 DEF Live
    <2> QED
      BY <2>2, <2>3
  <1> QED
    BY <1>1, <1>2

\* Tokens of a user are revoked, by a logout or by the last call of a handler.
LEMMA LogoutHolds ==
    ASSUME AuthInv, NEW u \in Users, Logout(u)
    PROVE  AuthInv'
  <1>1. /\ token' = Revoked(u) /\ calls' = calls + 1
        /\ UNCHANGED <<account, issued, inbox, run, decisions, failures, used, contested, cut>>
    BY DEF Logout, observed
  <1>2. /\ token' \in [Tokens -> Token \cup {NoToken}]
        /\ \A n \in Tokens : token'[n] # NoToken =>
               token[n] # NoToken /\ token'[n].user = token[n].user
        /\ \A n \in Tokens : Live(n)' => Live(n) /\ token'[n] = token[n]
    BY <1>1, RevokedKeeps DEF AuthInv, SoundInv
  <1>3. calls' \in Nat
    BY <1>1 DEF AuthInv, SoundInv, TypeOK
  <1>4. TypeOK'
    BY <1>1, <1>2, <1>3 DEF AuthInv, SoundInv, TypeOK
  <1>5. /\ \A q \in Requests : SoundRun(q)'
        /\ \A c \in Codes : SoundCode(c)'
        /\ \A v \in Users : SoundAccount(v)'
    BY <1>1 DEF AuthInv, SoundInv, SoundRun, SoundCode, SoundAccount
  <1>6. \A n \in Tokens : SoundToken(n)'
    BY <1>1, <1>2 DEF AuthInv, SoundInv, SoundToken
  <1>7. \A v \in Users : Uncontested(v)'
    BY <1>1 DEF AuthInv, Uncontested, Holds, At
  <1>8. ASSUME NEW n \in Tokens
        PROVE  Current(n)'
    <2>1. Current(n) /\ (Live(n)' => Live(n) /\ token'[n] = token[n])
      BY <1>2 DEF AuthInv
    <2>2. \A v : Revoking(v) => Revoking(v)'
      BY <1>1 DEF Revoking, At
    <2> QED
      BY <1>1, <2>1, <2>2 DEF Current
  <1> QED
    BY <1>4, <1>5, <1>6, <1>7, <1>8 DEF AuthInv, SoundInv

LEMMA RevokeAllHolds ==
    ASSUME AuthInv, NEW p \in Requests, RevokeAllUserTokens(p)
    PROVE  AuthInv'
  <1>1. PICK u : u = run[p].user
    OBVIOUS
  <1>2. /\ run[p].pc = "revoke" /\ token' = Revoked(u) /\ End(p)
        /\ UNCHANGED <<account, issued, inbox, calls, decisions, failures, used, contested, cut>>
    BY <1>1 DEF RevokeAllUserTokens, At, counters, observed
  <1>3. u \in Users
    BY <1>1, <1>2, Kinds DEF AuthInv, SoundInv, Known
  <1>4. /\ token' \in [Tokens -> Token \cup {NoToken}]
        /\ \A n \in Tokens : token'[n] # NoToken =>
               token[n] # NoToken /\ token'[n].user = token[n].user
        /\ \A n \in Tokens : Live(n)' => /\ Live(n) /\ token'[n] = token[n]
                                         /\ token[n].user # u /\ token[n].user \in Users
    BY <1>2, <1>3, RevokedKeeps DEF AuthInv, SoundInv
  <1>5. /\ run' \in [Requests -> RunState \cup {Idle}] /\ run'[p].pc = "idle"
        /\ \A q \in Requests \ {p} : run'[q] = run[q]
    BY <1>2, EndKeeps DEF AuthInv, SoundInv
  <1>6. TypeOK'
    BY <1>2, <1>4, <1>5 DEF AuthInv, SoundInv, TypeOK
  <1>7. \A q \in Requests : SoundRun(q)'
    BY <1>2, <1>5 DEF AuthInv, SoundInv, SoundRun, Known
  <1>8. /\ \A c \in Codes : SoundCode(c)'
        /\ \A v \in Users : SoundAccount(v)'
    BY <1>2 DEF AuthInv, SoundInv, SoundCode, SoundAccount
  <1>9. \A n \in Tokens : SoundToken(n)'
    BY <1>2, <1>4 DEF AuthInv, SoundInv, SoundToken
  <1>10. \A q \in Requests, v \in Users : Holds(q, v)' => q # p /\ Holds(q, v) /\ run'[q] = run[q]
    BY <1>5 DEF Holds
  <1>11. \A v \in Users : Uncontested(v)'
    BY <1>2, <1>5, <1>10 DEF AuthInv, Uncontested, At, Holds
  <1>12. ASSUME NEW n \in Tokens
         PROVE  Current(n)'
    <2>1. Current(n)
      BY DEF AuthInv
    <2>2. \A v : v # u /\ Revoking(v) => Revoking(v)'
      BY <1>1, <1>2, <1>5 DEF Revoking, At
    <2> QED
      BY <1>2, <1>4, <2>1, <2>2 DEF Current
  <1> QED
    BY <1>6, <1>7, <1>8, <1>9, <1>11, <1>12 DEF AuthInv, SoundInv

LEMMA FindRefreshTokenHolds ==
    ASSUME AuthInv, NEW p \in Requests, FindRefreshToken(p)
    PROVE  AuthInv'
  <1>1. PICK u, hits : u = run[p].user /\ hits = {n \in Tokens : token[n] # NoToken
                              /\ token[n].text = run[p].presented /\ ~token[n].revoked}
    OBVIOUS
  <1>2. /\ run[p].pc = "lookup"
        /\ UNCHANGED <<account, issued, inbox, calls, decisions, failures, used, contested, cut>>
    BY DEF FindRefreshToken, At, counters, observed
  <1>3. u \in Users /\ account[u] # NoAccount /\ run[p] \in RunState
    BY <1>1, <1>2, Kinds DEF AuthInv, SoundInv, SoundRun, Known
  <1>4. ASSUME End(p), UNCHANGED token
        PROVE  AuthInv'
    <2>1. run' \in [Requests -> RunState \cup {Idle}]
      BY <1>4, EndKeeps DEF AuthInv, SoundInv
    <2>2. TypeOK'
      BY <1>2, <1>4, <2>1 DEF AuthInv, SoundInv, TypeOK
    <2> QED
      BY <1>2, <1>4, <2>2, PlainEndsHold
  <1>5. ASSUME token' = [n \in Tokens |-> IF n \in hits THEN [token[n] EXCEPT !.revoked = TRUE]
                                          ELSE token[n]],
               run' = [run EXCEPT ![p].pc = "store", ![p].password = account[u].password]
        PROVE  AuthInv'
    <2>1. account[u].password \in Nat
      BY <1>3, AccountRow DEF AuthInv, SoundInv
    <2>2. PICK x : x = [run[p] EXCEPT !.pc = "store", !.password = account[u].password]
      OBVIOUS
    <2>3. x \in RunState /\ x.pc = "store" /\ x.user = u
      BY <1>1, <1>3, <2>1, <2>2 DEF RunState
    <2>4. /\ run' \in [Requests -> RunState \cup {Idle}] /\ run'[p] = x
          /\ \A q \in Requests \ {p} : run'[q] = run[q]
      BY <1>5, <2>2, <2>3 DEF AuthInv, SoundInv, TypeOK
    <2>5. ASSUME NEW n \in Tokens
          PROVE  /\ token'[n] \in Token \cup {NoToken}
                 /\ token'[n] # NoToken => token[n] # NoToken /\ token'[n].user = token[n].user
                 /\ Live(n)' => Live(n) /\ token'[n] = token[n]
      <3>1. CASE n \notin hits
        <4>1. token'[n] = token[n]
          BY <1>5, <3>1
        <4> QED
          BY <4>1 DEF AuthInv, SoundInv, TypeOK, Live
      <3>2. CASE n \in hits
        <4>1. token[n] # NoToken /\ token[n] \in Token
          BY <1>1, <3>2, TokenRow DEF AuthInv, SoundInv
        <4>2. PICK t : t = [token[n] EXCEPT !.revoked = TRUE]
          OBVIOUS
        <4>3. token'[n] = t
          BY <1>5, <3>2, <4>2
        <4>4. t \in Token /\ t.revoked = TRUE /\ t.user = token[n].user
          BY <4>1, <4>2 DEF Token
        <4> QED
          BY <4>1, <4>3, <4>4 DEF Live
      <3> QED
        BY <3>1, <3>2
    <2>6. token' \in [Tokens -> Token \cup {NoToken}]
      BY <1>5, <2>5
    <2>7. TypeOK'
      BY <1>2, <2>4, <2>6 DEF AuthInv, SoundInv, TypeOK
    <2>8. \A q \in Requests : SoundRun(q)'
      BY <1>2, <1>3, <2>3, <2>4 DEF AuthInv, SoundInv, SoundRun
    <2>9. /\ \A c \in Codes : SoundCode(c)'
          /\ \A v \in Users : SoundAccount(v)'
      BY <1>2 DEF AuthInv, SoundInv, SoundCode, SoundAccount
    <2>10. \A n \in Tokens : SoundToken(n)'
      BY <1>2, <2>5 DEF AuthInv, SoundInv, SoundToken
    <2>11. \A q \in Requests, v \in Users : Holds(q, v)' => q # p /\ Holds(q, v) /\ run'[q] = run[q]
      BY <2>3, <2>4 DEF Holds
    <2>12. \A v \in Users : Uncontested(v)'
      BY <1>2, <2>3, <2>4, <2>11 DEF AuthInv, Uncontested, At, Holds
    <2>13. \A v : Revoking(v) => Revoking(v)'
      BY <1>2, <2>4 DEF Revoking, At
    <2>14. \A n \in Tokens : Current(n)'
      BY <1>2, <2>5, <2>13 DEF AuthInv, Current
    <2> QED
      BY <2>7, <2>8, <2>9, <2>10, <2>12, <2>14 DEF AuthInv, SoundInv
  <1> QED
    <2>1. \/ End(p) /\ UNCHANGED token
          \/ /\ token' = [n \in Tokens |-> IF n \in hits THEN [token[n] EXCEPT !.revoked = TRUE]
                                           ELSE token[n]]
             /\ run' = [run EXCEPT ![p].pc = "store", ![p].password = account[u].password]
      BY <1>1 DEF FindRefreshToken
    <2> QED
      BY <1>4, <1>5, <2>1

LEMMA StoreTokenHolds ==
    ASSUME AuthInv, NEW p \in Requests, StoreToken(p)
    PROVE  AuthInv'
  <1>1. PICK u, w : u = run[p].user /\ w = run[p].password
    OBVIOUS
  <1>2. /\ run[p].pc = "store" /\ End(p)
        /\ UNCHANGED <<account, issued, inbox, calls, decisions, failures, used, contested, cut>>
    BY DEF StoreToken, At, counters, observed
  <1>3. u \in Users /\ account[u] # NoAccount /\ w \in Nat
    BY <1>1, <1>2, Kinds DEF AuthInv, SoundInv, SoundRun, Known
  <1>4. PICK n \in Tokens :
            /\ token[n] = NoToken
            /\ token' = [token EXCEPT ![n] =
                   [user |-> u, text |-> "", given |-> n, revoked |-> FALSE,
                    password |-> w, late |-> w # account[u].password]]
    BY <1>1 DEF StoreToken
  <1>6. PICK b \in BOOLEAN : b = (w # account[u].password)
    OBVIOUS
  <1>7. (b = FALSE) => w = account[u].password
    BY <1>6
  <1>8. PICK t : t = [user |-> u, text |-> "", given |-> n, revoked |-> FALSE,
                      password |-> w, late |-> b]
    OBVIOUS
  <1>9. /\ t \in Token /\ t # NoToken /\ t.user = u /\ t.password = w /\ t.late = b
    BY <1>3, <1>8 DEF Token, NoToken
  <1>10. token' = [token EXCEPT ![n] = t]
    BY <1>4, <1>6, <1>8
  <1>11. /\ token' \in [Tokens -> Token \cup {NoToken}] /\ token'[n] = t
         /\ \A m \in Tokens \ {n} : token'[m] = token[m]
    BY <1>9, <1>10 DEF AuthInv, SoundInv, TypeOK
  <1>12. /\ run' \in [Requests -> RunState \cup {Idle}] /\ run'[p].pc = "idle"
         /\ \A q \in Requests \ {p} : run'[q] = run[q]
    BY <1>2, EndKeeps DEF AuthInv, SoundInv
  <1>13. TypeOK'
    BY <1>2, <1>11, <1>12 DEF AuthInv, SoundInv, TypeOK
  <1>14. \A q \in Requests : SoundRun(q)'
    BY <1>2, <1>12 DEF AuthInv, SoundInv, SoundRun, Known
  <1>15. /\ \A c \in Codes : SoundCode(c)'
         /\ \A v \in Users : SoundAccount(v)'
    BY <1>2 DEF AuthInv, SoundInv, SoundCode, SoundAccount
  <1>16. \A m \in Tokens : SoundToken(m)'
    BY <1>2, <1>3, <1>9, <1>11 DEF AuthInv, SoundInv, SoundToken
  <1>17. \A q \in Requests, v \in Users : Holds(q, v)' => q # p /\ Holds(q, v) /\ run'[q] = run[q]
    BY <1>12 DEF Holds
  <1>18. \A v \in Users : Uncontested(v)'
    BY <1>2, <1>12, <1>17 DEF AuthInv, Uncontested, At, Holds
  <1>19. \A v : Revoking(v) => Revoking(v)'
    BY <1>2, <1>12 DEF Revoking, At
  <1>20. ASSUME NEW m \in Tokens
         PROVE  Current(m)'
    <2>1. CASE m = n
      BY <1>2, <1>7, <1>9, <1>11, <2>1 DEF Current
    <2>2. CASE m # n
      BY <1>2, <1>11, <1>19, <2>2 DEF AuthInv, Current, Live
    <2> QED
      BY <2>1, <2>2
  <1> QED
    BY <1>13, <1>14, <1>15, <1>16, <1>18, <1>20 DEF AuthInv, SoundInv

-------------------------------------------------------------------------------
(* Acting on codes and changing passwords *)

\* A code is found on the row and will be acted on.
LEMMA CheckCodeHolds ==
    ASSUME AuthInv, NEW p \in Requests, CheckSignupCode(p) \/ CheckResetCode(p)
    PROVE  AuthInv'
  <1>1. PICK u : u = run[p].user
    OBVIOUS
  <1>2. PICK pc, purpose :
            /\ \/ pc = "verify" /\ purpose = "SIGNUP" /\ account[u].verified = FALSE
               \/ pc = "reset" /\ purpose = "PASSWORD_RESET"
            /\ run[p].pc \in Finds
            /\ Found(u) /\ account[u].otp \in inbox[u] /\ account[u].purpose = purpose
            /\ run' = [run EXCEPT ![p].pc = pc, ![p].code = account[u].otp]
            /\ Contest(p, u)
    <2>1. CASE CheckSignupCode(p)
      <3>1. PICK pc, purpose : pc = "verify" /\ purpose = "SIGNUP"
        OBVIOUS
      <3>2. account[u] # NoAccount /\ u \in Users
        BY <1>1, <2>1, Kinds, FoundExists DEF CheckSignupCode, At, AuthInv, SoundInv, Finds
      <3>3. account[u].verified = FALSE
        BY <1>1, <2>1, <3>2, AccountRow DEF CheckSignupCode, AuthInv, SoundInv
      <3> QED
        BY <1>1, <2>1, <3>1, <3>3 DEF CheckSignupCode, At, Finds
    <2>2. CASE CheckResetCode(p)
      <3>1. PICK pc, purpose : pc = "reset" /\ purpose = "PASSWORD_RESET"
        OBVIOUS
      <3> QED
        BY <1>1, <2>2, <3>1 DEF CheckResetCode, At, Finds
    <2> QED
      BY <2>1, <2>2
  <1>3. UNCHANGED <<account, issued, inbox, token, calls, decisions, failures, used, cut>>
    BY DEF CheckSignupCode, CheckResetCode, counters
  <1>4. u \in Users /\ account[u] # NoAccount /\ run[p] \in RunState
    BY <1>1, <1>2, Kinds, FoundExists DEF AuthInv, SoundInv
  <1>5. PICK c : c = account[u].otp
    OBVIOUS
  <1>6. /\ c \in Codes /\ c # NoCode /\ issued[c] # Unissued /\ issued[c].user = u
        /\ issued[c].purpose = purpose
    <2>1. c \in Codes
      BY <1>2, <1>4, <1>5 DEF AuthInv, SoundInv, TypeOK
    <2>2. c # NoCode
      BY <2>1, CodeAssumption
    <2> QED
      BY <1>2, <1>4, <1>5, <2>1, <2>2 DEF AuthInv, SoundInv, SoundAccount
  <1>7. PICK x : x = [run[p] EXCEPT !.pc = pc, !.code = c]
    OBVIOUS
  <1>8. x \in RunState /\ x.pc = pc /\ x.user = u /\ x.code = c
    BY <1>1, <1>2, <1>4, <1>6, <1>7 DEF RunState
  <1>9. /\ run' \in [Requests -> RunState \cup {Idle}] /\ run'[p] = x
        /\ \A q \in Requests \ {p} : run'[q] = run[q]
    BY <1>2, <1>5, <1>7, <1>8 DEF AuthInv, SoundInv, TypeOK
  <1>10. /\ contested' \subseteq Users /\ contested \subseteq contested'
         /\ \A q \in Requests \ {p} : Holds(q, u) => u \in contested'
    BY <1>2, <1>4 DEF Contest, AuthInv, SoundInv, TypeOK
  <1>11. TypeOK'
    BY <1>3, <1>9, <1>10 DEF AuthInv, SoundInv, TypeOK
  <1>12. ASSUME NEW q \in Requests
         PROVE  SoundRun(q)'
    <2>1. CASE q = p
      BY <1>2, <1>3, <1>4, <1>6, <1>8, <1>9, <2>1 DEF SoundRun
    <2>2. CASE q # p
      BY <1>3, <1>9, <2>2 DEF SoundRun, AuthInv, SoundInv
    <2> QED
      BY <2>1, <2>2
  <1>13. /\ \A d \in Codes : SoundCode(d)'
         /\ \A v \in Users : SoundAccount(v)'
         /\ \A n \in Tokens : SoundToken(n)'
    BY <1>3 DEF AuthInv, SoundInv, SoundCode, SoundAccount, SoundToken
  <1>14. \A q \in Requests, v \in Users :
            Holds(q, v)' => \/ q = p /\ v = u
                            \/ q # p /\ Holds(q, v) /\ run'[q] = run[q]
    BY <1>8, <1>9 DEF Holds
  <1>15. ASSUME NEW v \in Users
         PROVE  Uncontested(v)'
    <2> SUFFICES ASSUME v \notin contested'
                 PROVE  Uncontested(v)'
      BY DEF Uncontested
    <2>1. Uncontested(v) /\ v \notin contested
      BY <1>10 DEF AuthInv
    <2>2. \A q \in Requests : Holds(q, v)' /\ v = u => q = p
      BY <1>10, <1>14
    <2>3. \A q, r \in Requests : Holds(q, v)' /\ Holds(r, v)' => q = r
      BY <1>14, <2>1, <2>2 DEF Uncontested
    <2>4. \A q \in Requests : At(q, "verify")' /\ run'[q].user = v => account'[v].verified = FALSE
      <3>1. ASSUME NEW q \in Requests, run'[q].pc = "verify", run'[q].user = v
            PROVE  account[v].verified = FALSE
        <4>1. CASE q = p
          BY <1>2, <1>8, <1>9, <3>1, <4>1
        <4>2. CASE q # p
          BY <1>9, <2>1, <3>1, <4>2 DEF Uncontested, At
        <4> QED
          BY <4>1, <4>2
      <3> QED
        BY <1>3, <3>1 DEF At
    <2>5. ASSUME NEW d \in Codes, issued[d] # Unissued, issued[d].user = v,
                 used[d].verify + used[d].reset > 0
          PROVE  /\ account[v].otp # d
                 /\ \A q \in Requests : Holds(q, v)' => run'[q].code # d
      <3>1. account[v].otp # d /\ \A q \in Requests : Holds(q, v) => run[q].code # d
        BY <2>1, <2>5 DEF Uncontested
      <3> QED
        BY <1>5, <1>8, <1>9, <1>14, <3>1
    <2>6. \A d \in Codes : issued[d] # Unissued /\ issued[d].user = v =>
              used[d].verify + used[d].reset <= 1
      BY <2>1 DEF Uncontested
    <2> QED
      BY <1>3, <2>3, <2>4, <2>5, <2>6 DEF Uncontested
  <1>16. \A v : Revoking(v) => Revoking(v)'
    BY <1>2, <1>3, <1>9 DEF Revoking, At, Finds
  <1>17. \A n \in Tokens : Current(n)'
    BY <1>3, <1>16 DEF AuthInv, Current, Live
  <1> QED
    BY <1>11, <1>12, <1>13, <1>15, <1>17 DEF AuthInv, SoundInv

\* What acting on a code does to the code, and to the rows it leaves.
Acted(p, u, c, verify, reset, y) ==
    /\ account' = [account EXCEPT ![u] = y]
    /\ y \in Account /\ y.otp = NoCode
    /\ used' = [used EXCEPT ![c] = [verify |-> used[c].verify + verify, reset |-> used[c].reset + reset]]
    /\ UNCHANGED <<issued, inbox, token, calls, decisions, failures, contested, cut>>

LEMMA ActedHolds ==
    ASSUME AuthInv, NEW p \in Requests, NEW u, NEW c, NEW verify \in Nat, NEW reset \in Nat, NEW y,
           u = run[p].user, c = run[p].code,
           \/ run[p].pc = "verify" /\ verify = 1 /\ reset = 0
           \/ run[p].pc = "reset" /\ verify = 0 /\ reset = 1,
           Acted(p, u, c, verify, reset, y),
           run' \in [Requests -> RunState \cup {Idle}], run'[p].user = u,
           run'[p].pc \in {"store", "revoke"}, \A q \in Requests \ {p} : run'[q] = run[q],
           y.password # account[u].password => run'[p].pc = "revoke"
    PROVE  AuthInv'
  <1>1. /\ u \in Users /\ account[u] # NoAccount /\ c \in Codes
        /\ issued[c] # Unissued /\ issued[c].user = u
        /\ verify = 1 => issued[c].purpose = "SIGNUP"
        /\ reset = 1 => issued[c].purpose = "PASSWORD_RESET"
    BY Kinds DEF AuthInv, SoundInv, SoundRun, Known
  <1>2. /\ account' \in [Users -> Account \cup {NoAccount}] /\ account'[u] = y
        /\ \A v \in Users \ {u} : account'[v] = account[v]
    BY <1>1 DEF Acted, AuthInv, SoundInv, TypeOK
  <1>3. y \in Account /\ y # NoAccount /\ y.otp = NoCode
    BY AccountNotNone DEF Acted
  <1>4. used[c].verify \in Nat /\ used[c].reset \in Nat
    BY <1>1 DEF AuthInv, SoundInv, TypeOK
  <1>5. PICK z : z = [verify |-> used[c].verify + verify, reset |-> used[c].reset + reset]
    OBVIOUS
  <1>6. /\ z \in [verify : Nat, reset : Nat]
        /\ z.verify = used[c].verify + verify /\ z.reset = used[c].reset + reset
    BY <1>4, <1>5
  <1>7. /\ used' \in [Codes -> [verify : Nat, reset : Nat]] /\ used'[c] = z
        /\ \A d \in Codes \ {c} : used'[d] = used[d]
    BY <1>1, <1>5, <1>6 DEF Acted, AuthInv, SoundInv, TypeOK
  <1>8. UNCHANGED <<issued, inbox, token, calls, decisions, failures, contested, cut>>
    BY DEF Acted
  <1>9. TypeOK'
    BY <1>2, <1>7, <1>8 DEF AuthInv, SoundInv, TypeOK
  <1>10. \A v \in Users : account[v] # NoAccount => account'[v] # NoAccount
    BY <1>2, <1>3
  <1>11. \A q \in Requests : run[q].pc \in Known => run[q].user \in Users
    BY Kinds DEF AuthInv, SoundInv
  <1>12. ASSUME NEW q \in Requests
         PROVE  SoundRun(q)'
    <2>1. CASE q = p
      BY <1>2, <1>3, <2>1 DEF SoundRun
    <2>2. CASE q # p
      BY <1>8, <1>10, <1>11, <2>2 DEF SoundRun, AuthInv, SoundInv
    <2> QED
      BY <2>1, <2>2
  <1>13. \A d \in Codes : SoundCode(d) /\ (issued[d] # Unissued => issued[d].user \in Users)
    BY DEF AuthInv, SoundInv, TypeOK, Issue
  <1>14. ASSUME NEW d \in Codes
         PROVE  SoundCode(d)'
    <2>1. CASE d = c
      BY <1>1, <1>4, <1>6, <1>7, <1>8, <1>10, <1>13, <2>1 DEF SoundCode
    <2>2. CASE d # c
      BY <1>7, <1>8, <1>10, <1>13, <2>2 DEF SoundCode
    <2> QED
      BY <2>1, <2>2
  <1>15. \A v \in Users : SoundAccount(v)'
    BY <1>2, <1>3, <1>8 DEF AuthInv, SoundInv, SoundAccount
  <1>16. \A n \in Tokens : token[n] # NoToken => token[n].user \in Users
    BY TokenRow DEF AuthInv, SoundInv
  <1>17. \A n \in Tokens : SoundToken(n)'
    BY <1>8, <1>10, <1>16 DEF AuthInv, SoundInv, SoundToken
  <1>18. \A q \in Requests, v \in Users : Holds(q, v)' => q # p /\ Holds(q, v) /\ run'[q] = run[q]
    BY DEF Holds
  <1>19. Holds(p, u)
    BY DEF Holds
  <1>20. ASSUME NEW v \in Users
         PROVE  Uncontested(v)'
    <2> SUFFICES ASSUME v \notin contested
                 PROVE  Uncontested(v)'
      BY <1>8 DEF Uncontested
    <2>1. Uncontested(v)
      BY DEF AuthInv
    <2>2. CASE v = u
      <3>1. \A q \in Requests : ~ (Holds(q, v)')
        BY <1>18, <1>19, <2>1, <2>2 DEF Uncontested
      <3>2. \A q \in Requests : At(q, "verify")' /\ run'[q].user = v => Holds(q, v)'
        BY DEF At, Holds
      <3>3. used[c].verify + used[c].reset = 0
        BY <1>1, <1>4, <1>19, <2>1, <2>2 DEF Uncontested
      <3>4. ASSUME NEW d \in Codes, issued[d] # Unissued, issued[d].user = v
            PROVE  used'[d].verify + used'[d].reset <= 1 /\ account'[v].otp # d
        <4>1. account'[v].otp # d
          BY <1>2, <1>3, <2>2, CodeAssumption
        <4>2. used'[d].verify + used'[d].reset <= 1
          <5>1. CASE d = c
            <6>1. used[c].verify = 0 /\ used[c].reset = 0
              BY <1>4, <3>3
            <6>2. z.verify = verify /\ z.reset = reset
              BY <1>6, <6>1
            <6> QED
              BY <1>7, <5>1, <6>2
          <5>2. CASE d # c
            BY <1>7, <2>1, <3>4, <5>2 DEF Uncontested
          <5> QED
            BY <5>1, <5>2
        <4> QED
          BY <4>1, <4>2
      <3> QED
        BY <1>8, <3>1, <3>2, <3>4 DEF Uncontested
    <2>3. CASE v # u
      <3>1. account'[v] = account[v] /\ issued' = issued
        BY <1>2, <1>8, <2>3
      <3>2. \A d \in Codes : issued[d] # Unissued /\ issued[d].user = v => used'[d] = used[d]
        BY <1>1, <1>7, <2>3
      <3>3. \A q \in Requests : At(q, "verify")' => At(q, "verify") /\ run'[q] = run[q]
        BY DEF At
      <3> QED
        BY <1>18, <2>1, <3>1, <3>2, <3>3 DEF Uncontested
    <2> QED
      BY <2>2, <2>3
  <1>21. ASSUME NEW n \in Tokens
         PROVE  Current(n)'
    <2>1. Current(n)
      BY DEF AuthInv
    <2>2. \A v : Revoking(v) => Revoking(v)'
      BY <1>8 DEF Revoking, At
    <2>3. CASE token[n].user = u /\ y.password # account[u].password
      <3>1. Revoking(u)'
        BY <2>3 DEF Revoking, At
      <3> QED
        BY <1>8, <2>3, <3>1 DEF Current
    <2>4. CASE token[n].user # u \/ y.password = account[u].password
      <3>1. Live(n) => account'[token[n].user].password = account[token[n].user].password
        BY <1>2, <1>16, <2>4 DEF Live
      <3> QED
        BY <1>8, <2>1, <2>2, <3>1 DEF Current, Live
    <2> QED
      BY <2>3, <2>4
  <1> QED
    BY <1>9, <1>12, <1>14, <1>15, <1>17, <1>20, <1>21 DEF AuthInv, SoundInv

LEMMA MarkVerifiedHolds ==
    ASSUME AuthInv, NEW p \in Requests, MarkVerified(p)
    PROVE  AuthInv'
  <1>1. PICK u, c : u = run[p].user /\ c = run[p].code
    OBVIOUS
  <1>2. /\ run[p].pc = "verify"
        /\ account' = [account EXCEPT ![u].verified = TRUE, ![u].status = "ACTIVE",
                                      ![u].otp = NoCode, ![u].expired = FALSE]
        /\ used' = [used EXCEPT ![c].verify = @ + 1]
        /\ run' = [run EXCEPT ![p].pc = "store", ![p].password = account[u].password]
        /\ UNCHANGED <<issued, inbox, token, calls, decisions, failures, contested, cut>>
    BY <1>1 DEF MarkVerified, At, counters
  <1>3. u \in Users /\ account[u] # NoAccount /\ run[p] \in RunState /\ c \in Codes
    BY <1>1, <1>2, Kinds DEF AuthInv, SoundInv, SoundRun, Known
  <1>4. account[u] \in Account /\ account[u].password \in Nat
    BY <1>3, AccountRow DEF AuthInv, SoundInv
  <1>5. PICK x : x = [run[p] EXCEPT !.pc = "store", !.password = account[u].password]
    OBVIOUS
  <1>6. x \in RunState /\ x.pc = "store" /\ x.user = u
    BY <1>1, <1>3, <1>4, <1>5 DEF RunState
  <1>7. /\ run' \in [Requests -> RunState \cup {Idle}] /\ run'[p] = x
        /\ \A q \in Requests \ {p} : run'[q] = run[q]
    BY <1>2, <1>5, <1>6 DEF AuthInv, SoundInv, TypeOK
  <1>8. PICK y : y = [account[u] EXCEPT !.verified = TRUE, !.status = "ACTIVE",
                                        !.otp = NoCode, !.expired = FALSE]
    OBVIOUS
  <1>9. y \in Account /\ y.otp = NoCode /\ y.password = account[u].password
    BY <1>4, <1>8 DEF Account
  <1>10. used[c] \in [verify : Nat, reset : Nat]
    BY <1>3 DEF AuthInv, SoundInv, TypeOK
  <1>11. [used[c] EXCEPT !.verify = @ + 1]
             = [verify |-> used[c].verify + 1, reset |-> used[c].reset + 0]
    BY <1>10
  <1>12. account' = [account EXCEPT ![u] = y]
    BY <1>2, <1>8
  <1>13. used' = [used EXCEPT ![c] = [verify |-> used[c].verify + 1, reset |-> used[c].reset + 0]]
    BY <1>2, <1>11
  <1>14. Acted(p, u, c, 1, 0, y)
    BY <1>2, <1>9, <1>12, <1>13 DEF Acted
  <1> QED
    BY <1>1, <1>2, <1>3, <1>6, <1>7, <1>9, <1>14, ActedHolds

LEMMA ResetHolds ==
    ASSUME AuthInv, NEW p \in Requests, UpdatePasswordFromOtp(p)
    PROVE  AuthInv'
  <1>1. PICK u, c : u = run[p].user /\ c = run[p].code
    OBVIOUS
  <1>2. /\ run[p].pc = "reset"
        /\ account' = [account EXCEPT ![u].password = @ + 1, ![u].otp = NoCode, ![u].expired = FALSE]
        /\ used' = [used EXCEPT ![c].reset = @ + 1]
        /\ Goto(p, "revoke")
        /\ UNCHANGED <<issued, inbox, token, calls, decisions, failures, contested, cut>>
    BY <1>1 DEF UpdatePasswordFromOtp, At, counters
  <1>3. u \in Users /\ account[u] # NoAccount /\ c \in Codes
    BY <1>1, <1>2, Kinds DEF AuthInv, SoundInv, SoundRun, Known
  <1>4. account[u] \in Account /\ account[u].password \in Nat
    BY <1>3, AccountRow DEF AuthInv, SoundInv
  <1>5. /\ run' \in [Requests -> RunState \cup {Idle}]
        /\ run'[p].user = u /\ run'[p].pc = "revoke"
        /\ \A q \in Requests \ {p} : run'[q] = run[q]
    BY <1>1, <1>2, GotoKeeps DEF AuthInv, SoundInv, Known
  <1>6. PICK w \in Nat : w = account[u].password + 1
    BY <1>4, CountsUp
  <1>7. PICK y : y = [account[u] EXCEPT !.password = w, !.otp = NoCode, !.expired = FALSE]
    OBVIOUS
  <1>8. y \in Account /\ y.otp = NoCode
    BY <1>4, <1>6, <1>7 DEF Account
  <1>9. used[c] \in [verify : Nat, reset : Nat]
    BY <1>3 DEF AuthInv, SoundInv, TypeOK
  <1>10. [used[c] EXCEPT !.reset = @ + 1]
             = [verify |-> used[c].verify + 0, reset |-> used[c].reset + 1]
    BY <1>9
  <1>11. account' = [account EXCEPT ![u] = y]
    BY <1>2, <1>6, <1>7
  <1>12. used' = [used EXCEPT ![c] = [verify |-> used[c].verify + 0, reset |-> used[c].reset + 1]]
    BY <1>2, <1>10
  <1>13. Acted(p, u, c, 0, 1, y)
    BY <1>2, <1>8, <1>11, <1>12 DEF Acted
  <1> QED
    BY <1>1, <1>2, <1>5, <1>13, ActedHolds

LEMMA UpdatePasswordHolds ==
    ASSUME AuthInv, NEW p \in Requests, UpdatePassword(p)
    PROVE  AuthInv'
  <1>1. PICK u : u = run[p].user
    OBVIOUS
  <1>2. /\ run[p].pc = "change" /\ Goto(p, "revoke")
        /\ account' = [account EXCEPT ![u].password = @ + 1]
        /\ UNCHANGED <<issued, inbox, token, calls, decisions, failures, used, contested, cut>>
    BY <1>1 DEF UpdatePassword, At, counters, observed
  <1>3. u \in Users /\ account[u] # NoAccount
    BY <1>1, <1>2, Kinds DEF AuthInv, SoundInv, SoundRun, Known
  <1>4. account[u] \in Account /\ account[u].password \in Nat
    BY <1>3, AccountRow DEF AuthInv, SoundInv
  <1>5. /\ run' \in [Requests -> RunState \cup {Idle}]
        /\ run'[p].user = u /\ run'[p].pc = "revoke"
        /\ \A q \in Requests \ {p} : run'[q] = run[q]
    BY <1>1, <1>2, GotoKeeps DEF AuthInv, SoundInv, Known
  <1>6. PICK w \in Nat : w = account[u].password + 1
    BY <1>4, CountsUp
  <1>7. PICK y : y = [account[u] EXCEPT !.password = w]
    OBVIOUS
  <1>8. /\ y \in Account /\ y # NoAccount /\ y.otp = account[u].otp
        /\ y.purpose = account[u].purpose /\ y.verified = account[u].verified
    BY <1>4, <1>6, <1>7, AccountNotNone DEF Account
  <1>9. account' = [account EXCEPT ![u] = y]
    BY <1>2, <1>6, <1>7
  <1>10. /\ account' \in [Users -> Account \cup {NoAccount}] /\ account'[u] = y
         /\ \A v \in Users \ {u} : account'[v] = account[v]
    BY <1>3, <1>8, <1>9 DEF AuthInv, SoundInv, TypeOK
  <1>11. TypeOK'
    BY <1>2, <1>5, <1>10 DEF AuthInv, SoundInv, TypeOK
  <1>12. \A v \in Users : /\ account[v] # NoAccount => account'[v] # NoAccount
                          /\ account'[v] # NoAccount => account[v] # NoAccount
                          /\ account'[v].otp = account[v].otp
                          /\ account'[v].purpose = account[v].purpose
                          /\ account'[v].verified = account[v].verified
    BY <1>3, <1>8, <1>10
  <1>13. \A q \in Requests : SoundRun(q)'
    <2>1. \A q \in Requests : run[q].pc \in Known => run[q].user \in Users
      BY Kinds DEF AuthInv, SoundInv
    <2> QED
      BY <1>2, <1>3, <1>5, <1>12, <2>1 DEF AuthInv, SoundInv, SoundRun
  <1>14. \A c \in Codes : SoundCode(c)'
    <2>1. \A c \in Codes : issued[c] # Unissued => issued[c].user \in Users
      BY DEF AuthInv, SoundInv, TypeOK, Issue
    <2> QED
      BY <1>2, <1>12, <2>1 DEF AuthInv, SoundInv, SoundCode
  <1>15. \A v \in Users : SoundAccount(v)'
    BY <1>2, <1>12 DEF AuthInv, SoundInv, SoundAccount
  <1>16. \A n \in Tokens : token[n] # NoToken => token[n].user \in Users
    BY TokenRow DEF AuthInv, SoundInv
  <1>17. \A n \in Tokens : SoundToken(n)'
    BY <1>2, <1>12, <1>16 DEF AuthInv, SoundInv, SoundToken
  <1>18. \A q \in Requests, v \in Users : Holds(q, v)' => q # p /\ Holds(q, v) /\ run'[q] = run[q]
    BY <1>5 DEF Holds
  <1>19. \A q \in Requests : At(q, "verify")' => At(q, "verify") /\ run'[q] = run[q]
    BY <1>5 DEF At
  <1>20. \A v \in Users : Uncontested(v)'
    BY <1>2, <1>12, <1>18, <1>19 DEF AuthInv, Uncontested
  <1>21. ASSUME NEW n \in Tokens
         PROVE  Current(n)'
    <2>1. Current(n)
      BY DEF AuthInv
    <2>2. (\A v : Revoking(v) => Revoking(v)') /\ Revoking(u)'
      BY <1>2, <1>5 DEF Revoking, At
    <2>3. CASE token[n].user = u
      BY <1>2, <2>2, <2>3 DEF Current
    <2>4. CASE token[n].user # u
      BY <1>2, <1>10, <1>16, <2>1, <2>2, <2>4 DEF Current, Live
    <2> QED
      BY <2>3, <2>4
  <1> QED
    BY <1>11, <1>13, <1>14, <1>15, <1>17, <1>20, <1>21 DEF AuthInv, SoundInv

-------------------------------------------------------------------------------
LEMMA NextHolds == AuthInv /\ [Next]_vars => AuthInv'
  <1> SUFFICES ASSUME AuthInv, [Next]_vars
               PROVE  AuthInv'
    OBVIOUS
  <1>1. ASSUME NEW p \in Requests, Request(p)
        PROVE  AuthInv'
    BY <1>1, SignupHolds, RequestsHold DEF Request
  <1>2. ASSUME NEW p \in Requests, Step(p)
        PROVE  AuthInv'
    BY <1>2, FindsHold, SetEmailOtpHolds, EndsHold, CheckCodeHolds, MarkVerifiedHolds, CheckLoginHolds,
       StoreTokenHolds, FindRefreshTokenHolds, ResetHolds, UpdatePasswordHolds, RevokeAllHolds
    DEF Step
  <1>3. ASSUME NEW p \in Requests, Fail(p)
        PROVE  AuthInv'
    BY <1>3, EndsHold
  <1>4. ASSUME NEW u \in Users, Expire(u) \/ Logout(u)
        PROVE  AuthInv'
    BY <1>4, ExpireHolds, LogoutHolds
  <1>5. ASSUME NEW u \in Users, NEW given \in {"ACTIVE", "SUSPENDED"}, NEW delete \in BOOLEAN,
               ManageUser(u, given, delete)
        PROVE  AuthInv'
    BY <1>5, ManageUserHolds
  <1>6. CASE Crash
    BY <1>6, CrashHolds
  <1>7. CASE UNCHANGED vars
    BY <1>7 DEF vars, counters, observed, AuthInv, SoundInv, TypeOK, SoundRun, SoundCode, SoundAccount,
       SoundToken, Uncontested, Holds, At, Current, Revoking, Live
  <1> QED
    BY <1>1, <1>2, <1>3, <1>4, <1>5, <1>6, <1>7 DEF Next

LEMMA AlwaysHolds == Spec => []AuthInv
  <1> QED
    BY InitHolds, NextHolds, PTL DEF Spec

\* Type correctness: every variable of authService's tables and handlers holds
\* what its declaration says.
THEOREM TypeCorrect == Spec => []TypeOK
  <1>1. AuthInv => TypeOK
    BY DEF AuthInv, SoundInv
  <1> QED
    BY <1>1, AlwaysHolds, PTL

\* After resetPassword or changePassword no session of an older password goes
\* on, but for those of a login that was under way, or when the handler was cut
\* short before it revoked the tokens.
THEOREM SessionsEnd == Spec => []SessionsEndWithPassword
  <1>1. AuthInv => SessionsEndWithPassword
    <2> SUFFICES ASSUME AuthInv, NEW n \in Tokens, Live(n), ~token[n].late,
                        token[n].password # account[token[n].user].password
                 PROVE  Revoking(token[n].user)
      BY DEF SessionsEndWithPassword, Revoking
    <2>1. token[n].late = FALSE
      BY TokenRow DEF AuthInv, SoundInv, Live
    <2> QED
      BY <2>1 DEF AuthInv, Current
  <1> QED
    BY <1>1, AlwaysHolds, PTL

\* A code sent by createAndSendOtp verifies an address or resets a password, as
\* it was meant to, and does so once, however many codes are sent and requests
\* made, unless two requests act on codes of the user at once.
THEOREM CodesUsedOnce == Spec => []CodeUsedOnce
  <1>1. AuthInv => CodeUsedOnce
    <2> SUFFICES ASSUME AuthInv, NEW c \in Codes
                 PROVE  /\ used[c].verify > 0 => issued[c].purpose = "SIGNUP"
                        /\ used[c].reset > 0 => issued[c].purpose = "PASSWORD_RESET"
                        /\ used[c].verify + used[c].reset > 1 => issued[c].user \in contested
      BY DEF CodeUsedOnce
    <2>1. SoundCode(c) /\ used[c].verify \in Nat /\ used[c].reset \in Nat
      BY DEF AuthInv, SoundInv, TypeOK
    <2>2. ASSUME used[c].verify + used[c].reset > 1
          PROVE  issued[c].user \in contested
      <3>1. issued[c] # Unissued
        BY <2>1, <2>2 DEF SoundCode
      <3>2. issued[c].user \in Users
        BY <3>1 DEF AuthInv, SoundInv, TypeOK, Issue
      <3> QED
        BY <2>1, <2>2, <3>1, <3>2 DEF AuthInv, Uncontested
    <2> QED
      BY <2>1, <2>2 DEF SoundCode
  <1> QED
    BY <1>1, AlwaysHolds, PTL

\* The steps that leave a user's status, and the ones that may end a suspension.
LEMMA SuspensionStep ==
    ASSUME AuthInv, [Next]_vars, NEW u \in Users,
           account[u].status = "SUSPENDED", account'[u].status # "SUSPENDED"
    PROVE  \/ decisions' # decisions
           \/ ~account[u].verified /\ account'[u].verified
           \/ u \in contested
  <1>1. account[u] # NoAccount
    BY DEF NoAccount
  <1>2. account[u] \in Account /\ account \in [Users -> Account \cup {NoAccount}]
    BY <1>1 DEF AuthInv, SoundInv, TypeOK
  <1>3. account' # account
    OBVIOUS
  <1>4. ASSUME NEW p \in Requests, Request(p)
        PROVE  FALSE
    <2>1. PICK v \in Users : Signup(p, v)
      BY <1>3, <1>4 DEF Request, ResendOtp, ForgotPassword, VerifyEmail, Login, RefreshTokens,
         ResetPassword, ChangePassword
    <2> QED
      BY <1>1, <1>2, <2>1 DEF Signup
  <1>5. ASSUME NEW p \in Requests, Step(p)
        PROVE  (~account[u].verified /\ account'[u].verified) \/ u \in contested
    <2>1. PICK v : v = run[p].user
      OBVIOUS
    <2>2. SetEmailOtp(p) \/ MarkVerified(p) \/ UpdatePasswordFromOtp(p) \/ UpdatePassword(p)
      BY <1>3, <1>5 DEF Step, FindForCode, SendMail, CheckSignupCode, CheckLogin, StoreToken,
         SameSecond, FindRefreshToken, CheckResetCode, CheckOldPassword, RevokeAllUserTokens, Refused
    <2>3. CASE SetEmailOtp(p)
      <3>0. PICK purpose : purpose = run[p].purpose
        OBVIOUS
      <3>1. PICK c \in Codes : account' = [account EXCEPT ![v].otp = c, ![v].purpose = purpose,
                                                         ![v].expired = FALSE]
        BY <2>1, <2>3, <3>0 DEF SetEmailOtp
      <3> QED
        BY <1>2, <3>1 DEF Account
    <2>4. CASE MarkVerified(p)
      <3>1. /\ run[p].pc = "verify"
            /\ account' = [account EXCEPT ![v].verified = TRUE, ![v].status = "ACTIVE",
                                          ![v].otp = NoCode, ![v].expired = FALSE]
        BY <2>1, <2>4 DEF MarkVerified, At
      <3>2. v = u
        BY <1>2, <3>1
      <3>3. account'[u].verified = TRUE
        BY <1>2, <3>1, <3>2 DEF Account
      <3>4. u \notin contested => account[u].verified = FALSE
        BY <2>1, <3>1, <3>2 DEF AuthInv, Uncontested, At
      <3> QED
        BY <3>3, <3>4
    <2>5. CASE UpdatePasswordFromOtp(p)
      <3>1. account' = [account EXCEPT ![v].password = @ + 1, ![v].otp = NoCode, ![v].expired = FALSE]
        BY <2>1, <2>5 DEF UpdatePasswordFromOtp
      <3> QED
        BY <1>2, <3>1 DEF Account
    <2>6. CASE UpdatePassword(p)
      <3>1. account' = [account EXCEPT ![v].password = @ + 1]
        BY <2>1, <2>6 DEF UpdatePassword
      <3> QED
        BY <1>2, <3>1 DEF Account
    <2> QED
      BY <2>2, <2>3, <2>4, <2>5, <2>6
  <1>6. ASSUME NEW p \in Requests, Fail(p)
        PROVE  FALSE
    BY <1>3, <1>6 DEF Fail
  <1>7. ASSUME NEW v \in Users, Expire(v) \/ Logout(v)
        PROVE  FALSE
    <2>1. account' = [account EXCEPT ![v].expired = TRUE]
      BY <1>3, <1>7 DEF Expire, Logout
    <2> QED
      BY <1>2, <2>1 DEF Account
  <1>8. ASSUME NEW v \in Users, NEW given, NEW delete, ManageUser(v, given, delete)
        PROVE  decisions' # decisions
    <2>1. decisions' = decisions + 1 /\ decisions \in Nat
      BY <1>8 DEF ManageUser, AuthInv, SoundInv, TypeOK
    <2> QED
      BY <2>1
  <1>9. CASE Crash
    BY <1>3, <1>9 DEF Crash
  <1>10. CASE UNCHANGED vars
    BY <1>3, <1>10 DEF vars
  <1> QED
    BY <1>4, <1>5, <1>6, <1>7, <1>8, <1>9, <1>10 DEF Next

\* A suspension by manageUser ends by another decision or by the first
\* verification of the address, unless two requests act on codes at once.
THEOREM SuspensionHolds == Spec => SuspensionStands
  <1>1. AuthInv /\ [Next]_vars =>
            [\A u \in Users : account[u].status = "SUSPENDED" /\ account'[u].status # "SUSPENDED" =>
                \/ decisions' # decisions
                \/ ~account[u].verified /\ account'[u].verified
                \/ u \in contested]_vars
    BY SuspensionStep
  <1> QED
    BY <1>1, AlwaysHolds, PTL DEF Spec, SuspensionStands

-------------------------------------------------------------------------------
(* BackOffice *)

\* The instances count as this module does.
LEMMA SameCardinality ==
    ASSUME NEW S
    PROVE  /\ Schedule!Cardinality(S) = Cardinality(S)
           /\ Reward!Cardinality(S) = Cardinality(S)
           /\ Recheck!Cardinality(S) = Cardinality(S)
           /\ Lists!Cardinality(S) = Cardinality(S)
  BY DEF Cardinality, Schedule!Cardinality, Reward!Cardinality, Recheck!Cardinality, Lists!Cardinality

-------------------------------------------------------------------------------
(* The schedule *)

\* The time of the setting, the environment or 09:00.
Due == Schedule!CronTime(Schedule!TradeTime(morning))
Resting(p) == rescheduling[p] = Schedule!Idle

\* node-cron runs the task cronService knows of, and no other.
OneTask ==
    /\ live = tradeTasks
    /\ live = Schedule!NoTasks \/ \E t \in Times : live = Schedule!Installed(t)
    /\ ~up => live = Schedule!NoTasks /\ \A p \in Schedule!Processes : Resting(p)
    /\ up /\ Resting(Schedule!Startup) => \E t \in Times : live = Schedule!Installed(t)

\* What is alone installs what is set; else the task is the one set unless
\* something is on its way to install.
Installs ==
    /\ \A p, q \in Schedule!Processes :
           ~Resting(p) /\ rescheduling[p].alone /\ ~Resting(q) => p = q
    /\ \A p \in Schedule!Processes :
           ~Resting(p) /\ rescheduling[p].pc = "install" /\ rescheduling[p].alone /\ ~bypassed =>
               rescheduling[p].time = Due
    /\ ~crossed /\ ~bypassed /\ up
       /\ (\A p \in Schedule!Processes : Resting(p) \/ rescheduling[p].pc = "upsert") =>
           live = Schedule!Installed(Due)

\* The sessions whose task has fired today: called, kept from it, or about to be.
Fired == sessions + unheld + (IF job.pc = "logStart" THEN 1 ELSE 0)

\* On a calm day the sessions are those of the tasks up to now.
Calm == calm => /\ up /\ \A p \in Schedule!Processes : Resting(p)
                /\ Fired = Cardinality({t \in 0..time : live[t] > 0})

\* The task that is installed is one more session, if its time has passed.
Held == Fired <= moves + IF \A t \in Times : live[t] > 0 => t <= time THEN 1 ELSE 0

\* The days since the bonus are no more than those since the last tenth day.
Bonus == sinceBonus <= (day - 1) % 10

\* How far the log row is at each call.
Logged ==
    /\ job.pc = "logStart" => job.log = "none"
    /\ job.pc # "idle" => ~job.ended
    /\ job.pc = "complete" => ~job.threw
    /\ job.pc = "fail" => job.threw \/ job.lost
    /\ Schedule!LogTellsOutcome

ScheduleInv == Schedule!TypeOK /\ OneTask /\ Installs /\ Calm /\ Held /\ Bonus /\ Logged

LEMMA DueIsATime == Due \in Times
  BY TimeAssumption DEF Due, Schedule!CronTime

LEMMA InstalledIs ==
    ASSUME NEW t \in Times
    PROVE  /\ Schedule!Installed(t) \in [Times -> Nat]
           /\ \A s \in Times : Schedule!Installed(t)[s] = IF s = t THEN 1 ELSE 0
           /\ Schedule!Installed(t) # Schedule!NoTasks
  <1>1. /\ Schedule!Installed(t) \in [Times -> Nat]
        /\ \A s \in Times : Schedule!Installed(t)[s] = IF s = t THEN 1 ELSE 0
    BY DEF Schedule!Installed, Schedule!NoTasks
  <1>2. Schedule!NoTasks[t] = 0 /\ Schedule!Installed(t)[t] = 1
    BY <1>1 DEF Schedule!NoTasks
  <1> QED
    BY <1>1, <1>2

\* At each time there is no task or one.
LEMMA FewTasks ==
    ASSUME OneTask
    PROVE  /\ live \in [Times -> Nat] /\ \A t \in Times : live[t] \in {0, 1}
           /\ \A t, s \in Times : live[t] > 0 /\ live[s] > 0 => t = s
  <1>1. CASE live = Schedule!NoTasks
    BY <1>1 DEF Schedule!NoTasks
  <1>2. CASE \E t \in Times : live = Schedule!Installed(t)
    BY <1>2, InstalledIs
  <1> QED
    BY <1>1, <1>2 DEF OneTask

LEMMA Rescheduling ==
    ASSUME Schedule!TypeOK, NEW p \in Schedule!Processes
    PROVE  /\ ~Resting(p) => rescheduling[p] \in Schedule!RunState
           /\ rescheduling[p].pc # "idle" => ~Resting(p)
  BY DEF Schedule!TypeOK, Resting, Schedule!Idle

\* What fired is counted from what it is about.
LEMMA FiredIs ==
    ASSUME Schedule!TypeOK
    PROVE  /\ Fired \in Nat /\ sessions \in Nat /\ unheld \in Nat /\ moves \in Nat
           /\ job.pc = "logStart" => Fired = sessions + unheld + 1
           /\ job.pc # "logStart" => Fired = sessions + unheld
  BY DEF Schedule!TypeOK, Fired

LEMMA ScheduleMeans ==
    ScheduleInv => /\ Schedule!TaskFollowsSetting /\ Schedule!SessionOncePerDay
                   /\ Schedule!CycleBonusWithinTenDays /\ Schedule!LogTellsOutcome
  <1> SUFFICES ASSUME ScheduleInv
               PROVE  /\ Schedule!TaskFollowsSetting /\ Schedule!SessionOncePerDay
                      /\ Schedule!CycleBonusWithinTenDays /\ Schedule!LogTellsOutcome
    OBVIOUS
  <1>1. Schedule!TypeOK /\ OneTask /\ Installs /\ Calm /\ Held /\ Bonus /\ Schedule!LogTellsOutcome
    BY DEF ScheduleInv, Logged
  <1>2. Schedule!TaskFollowsSetting
    <2> SUFFICES ASSUME up, Schedule!InProgress = {}
                 PROVE  /\ \E t \in Times : live = Schedule!Installed(t)
                        /\ ~bypassed /\ ~crossed => live = Schedule!Installed(Due)
      BY DEF Schedule!TaskFollowsSetting, Due
    <2>1. \A p \in Schedule!Processes : Resting(p)
      BY DEF Schedule!InProgress, Resting
    <2>2. Resting(Schedule!Startup)
      BY <2>1 DEF Schedule!Processes
    <2>3. \E t \in Times : live = Schedule!Installed(t)
      BY <1>1, <2>2 DEF OneTask
    <2>4. ~bypassed /\ ~crossed => live = Schedule!Installed(Due)
      BY <1>1, <2>1 DEF Installs
    <2> QED
      BY <2>3, <2>4
  <1>3. Schedule!SessionOncePerDay
    <2>1. calm => Fired = Schedule!Cardinality({t \in 0..time : live[t] > 0})
      BY <1>1, SameCardinality DEF Calm
    <2>2. calm => \E t \in Times : live[t] = 1
      <3> SUFFICES ASSUME calm PROVE \E t \in Times : live[t] = 1
        OBVIOUS
      <3>1. up /\ Resting(Schedule!Startup)
        BY <1>1 DEF Calm, Schedule!Processes
      <3>2. PICK t \in Times : live = Schedule!Installed(t)
        BY <1>1, <3>1 DEF OneTask
      <3> QED
        BY <3>2, InstalledIs
    <2>3. Fired <= 1 + moves
      BY <1>1, FiredIs DEF Held
    <2> QED
      BY <2>1, <2>2, <2>3 DEF Schedule!SessionOncePerDay, Fired
  <1>4. Schedule!CycleBonusWithinTenDays
    BY <1>1 DEF Bonus, Schedule!TypeOK, Schedule!CycleBonusWithinTenDays
  <1> QED
    BY <1>1, <1>2, <1>3, <1>4

LEMMA ScheduleInit == Schedule!Init => ScheduleInv
  <1> SUFFICES ASSUME Schedule!Init PROVE ScheduleInv
    OBVIOUS
  <1>1. /\ morning = -1 /\ up = FALSE /\ live = Schedule!NoTasks /\ tradeTasks = Schedule!NoTasks
        /\ rescheduling = [p \in Schedule!Processes |-> Schedule!Idle] /\ job = Schedule!NoJob
        /\ time = 0 /\ day = 1 /\ scheduleChanges = 0 /\ scheduleFailures = 0 /\ sessions = 0
        /\ unheld = 0 /\ calm = FALSE /\ moves = 0 /\ bypassed = FALSE /\ crossed = FALSE /\ sinceBonus = 0
    BY DEF Schedule!Init, Schedule!Unset, Schedule!Midnight
  <1>2. Schedule!TypeOK
    <2>1. Schedule!NoTasks \in [Times -> Nat]
      BY DEF Schedule!NoTasks
    <2>2. Schedule!NoJob \in Schedule!JobState
      BY DEF Schedule!NoJob, Schedule!JobState, Schedule!Log
    <2>3. rescheduling \in [Schedule!Processes -> Schedule!RunState \cup {Schedule!Idle}]
      BY <1>1
    <2>4. morning \in Schedule!Value
      BY <1>1 DEF Schedule!Value, Schedule!Unset
    <2>5. time \in Times /\ day \in 1..31
      BY <1>1, TimeAssumption
    <2>6. live \in [Times -> Nat] /\ tradeTasks \in [Times -> Nat] /\ job \in Schedule!JobState
      BY <1>1, <2>1, <2>2
    <2>7. up \in BOOLEAN /\ calm \in BOOLEAN /\ bypassed \in BOOLEAN /\ crossed \in BOOLEAN
      BY <1>1
    <2>8. /\ scheduleChanges \in Nat /\ scheduleFailures \in Nat
          /\ sessions \in Nat /\ unheld \in Nat /\ moves \in Nat /\ sinceBonus \in Nat
      BY <1>1
    <2> QED
      BY <2>3, <2>4, <2>5, <2>6, <2>7, <2>8 DEF Schedule!TypeOK
  <1>3. \A p \in Schedule!Processes : Resting(p)
    BY <1>1 DEF Resting
  <1>4. OneTask /\ Installs /\ Calm
    BY <1>1, <1>3 DEF OneTask, Installs, Calm
  <1>5. Held /\ Bonus /\ Logged
    BY <1>1 DEF Held, Fired, Bonus, Logged, Schedule!NoJob, Schedule!LogTellsOutcome
  <1> QED
    BY <1>2, <1>4, <1>5 DEF ScheduleInv

\* A rescheduling begins: none is alone now if another is in progress.
Begun(p, pc, value, b) ==
    /\ b <=> Schedule!InProgress = {}
    /\ rescheduling' = [q \in Schedule!Processes |->
           IF q = p THEN [pc |-> pc, value |-> value, time |-> Nine, alone |-> b]
           ELSE IF rescheduling[q] = Schedule!Idle THEN Schedule!Idle
           ELSE [rescheduling[q] EXCEPT !.alone = FALSE]]

LEMMA Begins ==
    ASSUME Schedule!TypeOK, NEW p \in Schedule!Processes, NEW pc \in {"upsert", "read"}, NEW value \in Times,
           Schedule!Begin(p, pc, value)
    PROVE  /\ rescheduling' \in [Schedule!Processes -> Schedule!RunState \cup {Schedule!Idle}]
           /\ ~Resting(p)' /\ rescheduling'[p].pc = pc
           /\ rescheduling'[p].alone => \A q \in Schedule!Processes : Resting(q)
           /\ \A q \in Schedule!Processes \ {p} :
                  /\ Resting(q)' <=> Resting(q)
                  /\ ~Resting(q) => rescheduling'[q].pc = rescheduling[q].pc /\ ~rescheduling'[q].alone
  <1>1. PICK b \in BOOLEAN : Begun(p, pc, value, b)
    <2>1. CASE Schedule!InProgress = {}
      BY <2>1, Zenon DEF Schedule!Begin, Begun
    <2>2. CASE Schedule!InProgress # {}
      BY <2>2, Zenon DEF Schedule!Begin, Begun
    <2> QED
      BY <2>1, <2>2
  <1>2. [pc |-> pc, value |-> value, time |-> Nine, alone |-> b] \in Schedule!RunState
    BY TimeAssumption DEF Schedule!RunState
  <1>3. \A q \in Schedule!Processes : ~Resting(q) => rescheduling[q] \in Schedule!RunState
    BY Rescheduling
  <1>4. ASSUME NEW r \in Schedule!RunState
        PROVE  /\ [r EXCEPT !.alone = FALSE] \in Schedule!RunState
               /\ [r EXCEPT !.alone = FALSE].pc = r.pc /\ ~[r EXCEPT !.alone = FALSE].alone
               /\ r # Schedule!Idle
    <2>1. r.pc # "idle"
      BY DEF Schedule!RunState
    <2>2. r # Schedule!Idle
      BY <2>1 DEF Schedule!Idle
    <2>3. /\ [r EXCEPT !.alone = FALSE] \in Schedule!RunState
          /\ [r EXCEPT !.alone = FALSE].pc = r.pc
      BY DEF Schedule!RunState
    <2>4. ~[r EXCEPT !.alone = FALSE].alone
      BY DEF Schedule!RunState
    <2> QED
      BY <2>2, <2>3, <2>4
  <1>5. rescheduling'[p] = [pc |-> pc, value |-> value, time |-> Nine, alone |-> b]
    BY <1>1 DEF Begun
  <1>6. \A q \in Schedule!Processes \ {p} :
            rescheduling'[q] = IF rescheduling[q] = Schedule!Idle THEN Schedule!Idle
                               ELSE [rescheduling[q] EXCEPT !.alone = FALSE]
    BY <1>1 DEF Begun
  <1>7. ASSUME NEW q \in Schedule!Processes \ {p}
        PROVE  /\ rescheduling'[q] \in Schedule!RunState \cup {Schedule!Idle}
               /\ Resting(q)' <=> Resting(q)
               /\ ~Resting(q) => rescheduling'[q].pc = rescheduling[q].pc /\ ~rescheduling'[q].alone
    <2>1. CASE Resting(q)
      BY <1>6, <2>1 DEF Resting
    <2>2. CASE ~Resting(q)
      <3>1. rescheduling'[q] = [rescheduling[q] EXCEPT !.alone = FALSE] /\ rescheduling[q] \in Schedule!RunState
        BY <1>3, <1>6, <2>2 DEF Resting
      <3>2. /\ rescheduling'[q] \in Schedule!RunState /\ rescheduling'[q].pc = rescheduling[q].pc
            /\ ~rescheduling'[q].alone /\ rescheduling'[q] # Schedule!Idle
        BY <1>4, <3>1
      <3> QED
        BY <2>2, <3>2 DEF Resting
    <2> QED
      BY <2>1, <2>2
  <1>8. rescheduling'[p].alone => \A q \in Schedule!Processes : Resting(q)
    BY <1>1, <1>5 DEF Begun, Schedule!InProgress, Resting
  <1>9. rescheduling' \in [Schedule!Processes -> Schedule!RunState \cup {Schedule!Idle}]
    BY <1>1, <1>2, <1>5, <1>7 DEF Begun
  <1>10. ~Resting(p)' /\ rescheduling'[p].pc = pc
    <2>1. rescheduling'[p].pc = pc
      BY <1>5
    <2> QED
      BY <2>1 DEF Resting, Schedule!Idle
  <1> QED
    BY <1>7, <1>8, <1>9, <1>10

\* What a step leaves alone.
LEMMA TasksKeep ==
    ASSUME OneTask, Installs, UNCHANGED <<morning, up, live, tradeTasks, rescheduling, bypassed, crossed>>
    PROVE  OneTask' /\ Installs'
  BY DEF OneTask, Installs, Due, Resting

LEMMA DayKeeps ==
    ASSUME Held, Bonus, UNCHANGED <<live, time, day, moves, sinceBonus>>, Fired' = Fired
    PROVE  Held' /\ Bonus'
  BY DEF Held, Bonus

LEMMA FiredKeeps == ASSUME UNCHANGED <<job, sessions, unheld>> PROVE Fired' = Fired
  BY DEF Fired

LEMMA LogKeeps == ASSUME Logged, UNCHANGED job PROVE Logged'
  BY DEF Logged, Schedule!LogTellsOutcome

LEMMA UpdateTradeScheduleKeeps ==
    ASSUME ScheduleInv, NEW p \in Schedulers, NEW value \in Times, Schedule!UpdateTradeSchedule(p, value)
    PROVE  ScheduleInv'
  <1>0. Schedule!TypeOK /\ OneTask /\ Installs /\ Held /\ Bonus /\ Logged
    BY DEF ScheduleInv
  <1>1. /\ up /\ Resting(p) /\ scheduleChanges' = scheduleChanges + 1 /\ calm' = FALSE
        /\ Schedule!Begin(p, "upsert", value)
        /\ UNCHANGED <<morning, up, live, tradeTasks, job, time, day, scheduleFailures, sessions, unheld,
                       moves, bypassed, crossed, sinceBonus>>
    BY DEF Schedule!UpdateTradeSchedule, Schedule!tasks, Schedule!clock, Resting
  <1>2. p \in Schedule!Processes /\ p # Schedule!Startup
    BY StartupAssumption DEF Schedule!Processes, Schedule!Startup
  <1>3. /\ rescheduling' \in [Schedule!Processes -> Schedule!RunState \cup {Schedule!Idle}]
        /\ ~Resting(p)' /\ rescheduling'[p].pc = "upsert"
        /\ rescheduling'[p].alone => \A q \in Schedule!Processes : Resting(q)
        /\ \A q \in Schedule!Processes \ {p} :
               /\ Resting(q)' <=> Resting(q)
               /\ ~Resting(q) => rescheduling'[q].pc = rescheduling[q].pc /\ ~rescheduling'[q].alone
    BY <1>0, <1>1, <1>2, Begins
  <1>4. Schedule!TypeOK'
    <2>1. scheduleChanges' \in Nat
      BY <1>0, <1>1 DEF Schedule!TypeOK
    <2>2. calm' \in BOOLEAN
      BY <1>1
    <2> QED
      BY <1>0, <1>1, <1>3, <2>1, <2>2 DEF Schedule!TypeOK
  <1>5. OneTask'
    BY <1>0, <1>1, <1>2, <1>3 DEF OneTask, Schedule!Processes
  <1>6. Installs'
    <2>1. Due' = Due
      BY <1>1 DEF Due
    <2>2. ASSUME ~crossed', ~bypassed', up',
                 \A q \in Schedule!Processes : Resting(q)' \/ rescheduling'[q].pc = "upsert"
          PROVE  live' = Schedule!Installed(Due)'
      <3>1. \A q \in Schedule!Processes : Resting(q) \/ rescheduling[q].pc = "upsert"
        BY <1>1, <1>3, <2>2
      <3> QED
        BY <1>0, <1>1, <2>1, <2>2, <3>1 DEF Installs
    <2>3. \A r, q \in Schedule!Processes :
              ~Resting(r)' /\ rescheduling'[r].alone /\ ~Resting(q)' => r = q
      BY <1>3
    <2>4. \A q \in Schedule!Processes :
              ~Resting(q)' /\ rescheduling'[q].pc = "install" => ~rescheduling'[q].alone
      BY <1>3
    <2> QED
      BY <2>2, <2>3, <2>4 DEF Installs
  <1>7. Calm' /\ Held' /\ Bonus' /\ Logged'
    BY <1>0, <1>1, DayKeeps, FiredKeeps, LogKeeps DEF Calm
  <1> QED
    BY <1>4, <1>5, <1>6, <1>7 DEF ScheduleInv

LEMMA StartAllKeeps == ASSUME ScheduleInv, Schedule!StartAll PROVE ScheduleInv'
  <1> DEFINE p == Schedule!Startup
  <1>0. Schedule!TypeOK /\ OneTask /\ Installs /\ Calm /\ Held /\ Bonus /\ Logged
    BY DEF ScheduleInv
  <1>1. /\ ~up /\ up' = TRUE
        /\ Schedule!Begin(p, "read", Nine)
        /\ UNCHANGED <<morning, live, tradeTasks, job, time, day, scheduleChanges, scheduleFailures,
                       sessions, unheld, calm, moves, bypassed, crossed, sinceBonus>>
    BY DEF Schedule!StartAll, Schedule!tasks, Schedule!clock, Schedule!counters, Schedule!observed
  <1>2. p \in Schedule!Processes
    BY DEF Schedule!Processes
  <1>3. /\ rescheduling' \in [Schedule!Processes -> Schedule!RunState \cup {Schedule!Idle}]
        /\ ~Resting(p)' /\ rescheduling'[p].pc = "read"
        /\ \A q \in Schedule!Processes \ {p} : Resting(q)' <=> Resting(q)
    BY <1>0, <1>1, <1>2, Begins, TimeAssumption
  <1>4. \A q \in Schedule!Processes : Resting(q)
    BY <1>0, <1>1 DEF OneTask
  <1>5. Schedule!TypeOK'
    BY <1>0, <1>1, <1>3 DEF Schedule!TypeOK
  <1>6. OneTask'
    BY <1>0, <1>1, <1>3 DEF OneTask
  <1>7. Installs'
    BY <1>1, <1>2, <1>3, <1>4 DEF Installs
  <1>8. Calm' /\ Held' /\ Bonus' /\ Logged'
    BY <1>0, <1>1, DayKeeps, FiredKeeps, LogKeeps DEF Calm
  <1> QED
    BY <1>5, <1>6, <1>7, <1>8 DEF ScheduleInv

LEMMA UpsertKeeps == ASSUME ScheduleInv, NEW p \in Schedulers, Schedule!Upsert(p) PROVE ScheduleInv'
  <1>0. Schedule!TypeOK /\ OneTask /\ Installs /\ Calm /\ Held /\ Bonus /\ Logged
    BY DEF ScheduleInv
  <1>1. /\ rescheduling[p].pc = "upsert" /\ morning' = rescheduling[p].value
        /\ rescheduling' = [rescheduling EXCEPT ![p].pc = "read"]
        /\ UNCHANGED <<up, live, tradeTasks, job, time, day, scheduleChanges, scheduleFailures,
                       sessions, unheld, calm, moves, bypassed, crossed, sinceBonus>>
    BY DEF Schedule!Upsert, Schedule!tasks, Schedule!clock, Schedule!counters, Schedule!observed
  <1>2. p \in Schedule!Processes /\ p # Schedule!Startup /\ ~Resting(p) /\ rescheduling[p] \in Schedule!RunState
    BY <1>0, <1>1, StartupAssumption, Rescheduling DEF Schedule!Processes, Schedule!Startup
  <1>3. morning' \in Schedule!Value
    BY <1>1, <1>2 DEF Schedule!RunState, Schedule!Value
  <1> DEFINE r == [rescheduling[p] EXCEPT !.pc = "read"]
  <1>4. r \in Schedule!RunState /\ r.pc = "read" /\ r.alone = rescheduling[p].alone
    BY <1>2 DEF Schedule!RunState
  <1>5. rescheduling' = [rescheduling EXCEPT ![p] = r]
    BY <1>1
  <1> HIDE DEF r
  <1>6. /\ rescheduling' \in [Schedule!Processes -> Schedule!RunState \cup {Schedule!Idle}]
        /\ rescheduling'[p] = r /\ \A q \in Schedule!Processes \ {p} : rescheduling'[q] = rescheduling[q]
    BY <1>0, <1>2, <1>4, <1>5 DEF Schedule!TypeOK
  <1>7. \A q \in Schedule!Processes : Resting(q)' <=> Resting(q)
    <2>1. ~Resting(p)'
      BY <1>4, <1>6 DEF Resting, Schedule!Idle
    <2> QED
      BY <1>2, <1>6, <2>1 DEF Resting
  <1>8. Schedule!TypeOK'
    BY <1>0, <1>1, <1>3, <1>6 DEF Schedule!TypeOK
  <1>9. OneTask'
    BY <1>0, <1>1, <1>7 DEF OneTask, Schedule!Processes
  <1>10. Installs'
    <2>1. \A s, q \in Schedule!Processes :
              ~Resting(s)' /\ rescheduling'[s].alone /\ ~Resting(q)' => s = q
      BY <1>0, <1>2, <1>4, <1>6, <1>7 DEF Installs
    <2>2. ASSUME NEW q \in Schedule!Processes, ~Resting(q)', rescheduling'[q].pc = "install",
                 rescheduling'[q].alone
          PROVE  FALSE
      <3>1. q # p
        BY <1>4, <1>6, <2>2
      <3> QED
        BY <1>2, <1>7, <2>1, <2>2, <3>1
    <2>3. ~(Resting(p)' \/ rescheduling'[p].pc = "upsert")
      BY <1>2, <1>4, <1>6, <1>7
    <2> QED
      BY <1>2, <2>1, <2>2, <2>3 DEF Installs
  <1>11. Calm' /\ Held' /\ Bonus' /\ Logged'
    BY <1>0, <1>1, <1>2, DayKeeps, FiredKeeps, LogKeeps DEF Calm
  <1> QED
    BY <1>8, <1>9, <1>10, <1>11 DEF ScheduleInv

LEMMA WriteSettingKeeps ==
    ASSUME ScheduleInv, NEW value \in Schedule!Value, Schedule!WriteSetting(value)
    PROVE  ScheduleInv'
  <1>0. Schedule!TypeOK /\ OneTask /\ Installs /\ Calm /\ Held /\ Bonus /\ Logged
    BY DEF ScheduleInv
  <1>1. /\ scheduleChanges' = scheduleChanges + 1 /\ morning' = value /\ bypassed' = TRUE /\ calm' = FALSE
        /\ UNCHANGED <<up, live, tradeTasks, rescheduling, job, time, day, scheduleFailures, sessions,
                       unheld, moves, crossed, sinceBonus>>
    BY DEF Schedule!WriteSetting, Schedule!tasks, Schedule!clock
  <1>2. Schedule!TypeOK'
    <2>1. scheduleChanges' \in Nat
      BY <1>0, <1>1 DEF Schedule!TypeOK
    <2>2. calm' \in BOOLEAN /\ bypassed' \in BOOLEAN
      BY <1>1
    <2> QED
      BY <1>0, <1>1, <2>1, <2>2 DEF Schedule!TypeOK
  <1>3. \A q : Resting(q)' <=> Resting(q)
    BY <1>1 DEF Resting
  <1>4. OneTask' /\ Installs'
    BY <1>0, <1>1, <1>3 DEF OneTask, Installs
  <1>5. Calm' /\ Held' /\ Bonus' /\ Logged'
    BY <1>0, <1>1, DayKeeps, FiredKeeps, LogKeeps DEF Calm
  <1> QED
    BY <1>2, <1>4, <1>5 DEF ScheduleInv

LEMMA ReadScheduleKeeps ==
    ASSUME ScheduleInv, NEW p \in Schedule!Processes, Schedule!ReadSchedule(p)
    PROVE  ScheduleInv'
  <1>0. Schedule!TypeOK /\ OneTask /\ Installs /\ Calm /\ Held /\ Bonus /\ Logged
    BY DEF ScheduleInv
  <1>1. /\ rescheduling[p].pc = "read" /\ bypassed' = FALSE
        /\ rescheduling' = [rescheduling EXCEPT ![p].pc = "install", ![p].time = Due]
        /\ UNCHANGED <<morning, up, live, tradeTasks, job, time, day, scheduleChanges, scheduleFailures,
                       sessions, unheld, calm, moves, crossed, sinceBonus>>
    BY DEF Schedule!ReadSchedule, Schedule!tasks, Schedule!clock, Schedule!counters, Due
  <1>2. ~Resting(p) /\ rescheduling[p] \in Schedule!RunState /\ Due \in Times /\ Due' = Due
    BY <1>0, <1>1, Rescheduling, DueIsATime DEF Due
  <1> DEFINE r == [rescheduling[p] EXCEPT !.pc = "install", !.time = Due]
  <1>3. /\ r \in Schedule!RunState /\ r.pc = "install" /\ r.time = Due
        /\ r.alone = rescheduling[p].alone
    BY <1>2 DEF Schedule!RunState
  <1>4. rescheduling' = [rescheduling EXCEPT ![p] = r]
    BY <1>1
  <1> HIDE DEF r
  <1>5. /\ rescheduling' \in [Schedule!Processes -> Schedule!RunState \cup {Schedule!Idle}]
        /\ rescheduling'[p] = r /\ \A q \in Schedule!Processes \ {p} : rescheduling'[q] = rescheduling[q]
    BY <1>0, <1>3, <1>4 DEF Schedule!TypeOK
  <1>6. \A q \in Schedule!Processes : Resting(q)' <=> Resting(q)
    <2>1. ~Resting(p)'
      BY <1>3, <1>5 DEF Resting, Schedule!Idle
    <2> QED
      BY <1>2, <1>5, <2>1 DEF Resting
  <1>7. Schedule!TypeOK'
    BY <1>0, <1>1, <1>5 DEF Schedule!TypeOK
  <1>8. OneTask'
    BY <1>0, <1>1, <1>6 DEF OneTask, Schedule!Processes
  <1>9. Installs'
    <2>1. \A s, q \in Schedule!Processes :
              ~Resting(s)' /\ rescheduling'[s].alone /\ ~Resting(q)' => s = q
      BY <1>0, <1>3, <1>5, <1>6 DEF Installs
    <2>2. ASSUME NEW q \in Schedule!Processes, ~Resting(q)', rescheduling'[q].pc = "install",
                 rescheduling'[q].alone
          PROVE  rescheduling'[q].time = Due'
      <3>1. q = p
        BY <1>2, <1>6, <2>1, <2>2
      <3> QED
        BY <1>2, <1>3, <1>5, <3>1
    <2>3. ~(Resting(p)' \/ rescheduling'[p].pc = "upsert")
      BY <1>2, <1>3, <1>5, <1>6
    <2> QED
      BY <2>1, <2>2, <2>3 DEF Installs
  <1>10. Calm' /\ Held' /\ Bonus' /\ Logged'
    BY <1>0, <1>1, <1>2, DayKeeps, FiredKeeps, LogKeeps DEF Calm
  <1> QED
    BY <1>7, <1>8, <1>9, <1>10 DEF ScheduleInv

LEMMA ScheduleTradeTasksKeeps ==
    ASSUME ScheduleInv, NEW p \in Schedule!Processes, Schedule!ScheduleTradeTasks(p)
    PROVE  ScheduleInv'
  <1>0. Schedule!TypeOK /\ OneTask /\ Installs /\ Calm /\ Held /\ Bonus /\ Logged
    BY DEF ScheduleInv
  <1> DEFINE t == rescheduling[p].time
  <1>1. /\ rescheduling[p].pc = "install"
        /\ live' = [s \in Times |-> live[s] - tradeTasks[s] + Schedule!Installed(t)[s]]
        /\ tradeTasks' = Schedule!Installed(t)
        /\ rescheduling' = [rescheduling EXCEPT ![p] = Schedule!Idle]
        /\ moves' = moves + 1 /\ calm' = FALSE
        /\ UNCHANGED <<morning, up, job, time, day, scheduleChanges, scheduleFailures, sessions,
                       unheld, bypassed, sinceBonus>>
    BY DEF Schedule!ScheduleTradeTasks, Schedule!clock, Schedule!counters
  <1>2. crossed' \in BOOLEAN /\ (~crossed' => rescheduling[p].alone)
    <2>1. crossed' = ~rescheduling[p].alone
      BY DEF Schedule!ScheduleTradeTasks
    <2> QED
      BY <2>1, Zenon
  <1>3. ~Resting(p) /\ rescheduling[p] \in Schedule!RunState /\ t \in Times
    BY <1>0, <1>1, Rescheduling DEF Schedule!RunState
  <1>4. up
    BY <1>0, <1>3 DEF OneTask
  <1> HIDE DEF t
  <1>5. live' = Schedule!Installed(t) /\ tradeTasks' = live'
    <2>1. \A s \in Times : live[s] - tradeTasks[s] + Schedule!Installed(t)[s] = Schedule!Installed(t)[s]
      BY <1>0, <1>3, InstalledIs DEF OneTask, Schedule!TypeOK
    <2> QED
      BY <1>1, <1>3, <2>1, InstalledIs
  <1>6. /\ rescheduling' \in [Schedule!Processes -> Schedule!RunState \cup {Schedule!Idle}]
        /\ Resting(p)' /\ \A q \in Schedule!Processes \ {p} : rescheduling'[q] = rescheduling[q]
        /\ \A q \in Schedule!Processes \ {p} : Resting(q)' <=> Resting(q)
    BY <1>0, <1>1 DEF Schedule!TypeOK, Resting
  <1>7. Schedule!TypeOK'
    <2>1. live' \in [Times -> Nat] /\ tradeTasks' \in [Times -> Nat] /\ moves' \in Nat
      BY <1>0, <1>1, <1>3, <1>5, InstalledIs DEF Schedule!TypeOK
    <2>2. calm' \in BOOLEAN /\ crossed' \in BOOLEAN
      BY <1>1, <1>2
    <2> QED
      BY <1>0, <1>1, <1>6, <2>1, <2>2 DEF Schedule!TypeOK
  <1>8. OneTask'
    BY <1>1, <1>3, <1>4, <1>5 DEF OneTask
  <1>9. Installs'
    <2>1. Due' = Due
      BY <1>1 DEF Due
    <2>2. \A r, q \in Schedule!Processes : ~Resting(r)' /\ rescheduling'[r].alone /\ ~Resting(q)' => r = q
      BY <1>0, <1>6 DEF Installs
    <2>3. \A q \in Schedule!Processes :
              ~Resting(q)' /\ rescheduling'[q].pc = "install" /\ rescheduling'[q].alone /\ ~bypassed' =>
                  rescheduling'[q].time = Due'
      BY <1>0, <1>1, <1>6, <2>1 DEF Installs
    <2>4. ASSUME ~crossed', ~bypassed' PROVE live' = Schedule!Installed(Due)'
      <3>1. t = Due
        BY <1>0, <1>1, <1>2, <1>3, <2>4 DEF Installs, t
      <3> QED
        BY <1>5, <2>1, <3>1
    <2> QED
      BY <2>2, <2>3, <2>4 DEF Installs
  <1>10. Held'
    <2>1. Fired <= moves + 1 /\ Fired \in Nat /\ moves \in Nat
      BY <1>0, FiredIs DEF Held
    <2>2. Fired' = Fired
      BY <1>1, FiredKeeps
    <2>3. \A n \in {0, 1} : Fired <= moves + 1 + n
      BY <2>1
    <2> QED
      BY <1>1, <2>2, <2>3 DEF Held
  <1>11. Calm' /\ Bonus' /\ Logged'
    BY <1>0, <1>1, LogKeeps DEF Calm, Bonus
  <1> QED
    BY <1>7, <1>8, <1>9, <1>10, <1>11 DEF ScheduleInv

LEMMA FailRunKeeps == ASSUME ScheduleInv, NEW p \in Schedulers, Schedule!FailRun(p) PROVE ScheduleInv'
  <1>0. Schedule!TypeOK /\ OneTask /\ Installs /\ Calm /\ Held /\ Bonus /\ Logged
    BY DEF ScheduleInv
  <1>1. /\ ~Resting(p) /\ rescheduling[p].pc # "install" /\ scheduleFailures' = scheduleFailures + 1
        /\ rescheduling' = [rescheduling EXCEPT ![p] = Schedule!Idle]
        /\ UNCHANGED <<morning, up, live, tradeTasks, job, time, day, scheduleChanges, sessions, unheld,
                       calm, moves, bypassed, sinceBonus>>
    BY DEF Schedule!FailRun, Schedule!tasks, Schedule!clock, Resting
  <1>2. crossed' \in BOOLEAN /\ (~crossed' => ~crossed /\ rescheduling[p].pc # "read")
    <2>1. crossed' = (crossed \/ rescheduling[p].pc = "read")
      BY DEF Schedule!FailRun
    <2>2. (crossed \/ rescheduling[p].pc = "read") \in BOOLEAN
      BY Zenon
    <2> QED
      BY <2>1, <2>2, Zenon
  <1>3. p \in Schedule!Processes /\ p # Schedule!Startup /\ rescheduling[p] \in Schedule!RunState
    BY <1>0, <1>1, StartupAssumption, Rescheduling DEF Schedule!Processes, Schedule!Startup
  <1>4. ~crossed' => ~crossed /\ rescheduling[p].pc = "upsert"
    BY <1>1, <1>2, <1>3 DEF Schedule!RunState
  <1>5. /\ rescheduling' \in [Schedule!Processes -> Schedule!RunState \cup {Schedule!Idle}]
        /\ Resting(p)' /\ \A q \in Schedule!Processes \ {p} : rescheduling'[q] = rescheduling[q]
        /\ \A q \in Schedule!Processes \ {p} : Resting(q)' <=> Resting(q)
    BY <1>0, <1>1, <1>3 DEF Schedule!TypeOK, Resting
  <1>6. Schedule!TypeOK'
    <2>1. scheduleFailures' \in Nat
      BY <1>0, <1>1 DEF Schedule!TypeOK
    <2>2. crossed' \in BOOLEAN
      BY <1>2
    <2> QED
      BY <1>0, <1>1, <1>5, <2>1, <2>2 DEF Schedule!TypeOK
  <1>7. OneTask'
    BY <1>0, <1>1, <1>3, <1>5 DEF OneTask, Schedule!Processes
  <1>8. Installs'
    <2>1. Due' = Due
      BY <1>1 DEF Due
    <2>2. \A r, q \in Schedule!Processes : ~Resting(r)' /\ rescheduling'[r].alone /\ ~Resting(q)' => r = q
      BY <1>0, <1>5 DEF Installs
    <2>3. \A q \in Schedule!Processes :
              ~Resting(q)' /\ rescheduling'[q].pc = "install" /\ rescheduling'[q].alone /\ ~bypassed' =>
                  rescheduling'[q].time = Due'
      BY <1>0, <1>1, <1>5, <2>1 DEF Installs
    <2>4. ASSUME ~crossed', ~bypassed', up',
                 \A q \in Schedule!Processes : Resting(q)' \/ rescheduling'[q].pc = "upsert"
          PROVE  live' = Schedule!Installed(Due)'
      <3>1. \A q \in Schedule!Processes : Resting(q) \/ rescheduling[q].pc = "upsert"
        BY <1>4, <1>5, <2>4
      <3> QED
        BY <1>0, <1>1, <1>4, <2>1, <2>4, <3>1 DEF Installs
    <2> QED
      BY <2>2, <2>3, <2>4 DEF Installs
  <1>9. Calm' /\ Held' /\ Bonus' /\ Logged'
    BY <1>0, <1>1, <1>3, DayKeeps, FiredKeeps, LogKeeps DEF Calm
  <1> QED
    BY <1>6, <1>7, <1>8, <1>9 DEF ScheduleInv

LEMMA CrashKeeps == ASSUME ScheduleInv, Schedule!Crash PROVE ScheduleInv'
  <1>0. Schedule!TypeOK /\ OneTask /\ Installs /\ Calm /\ Held /\ Bonus /\ Logged
    BY DEF ScheduleInv
  <1>1. /\ scheduleFailures' = scheduleFailures + 1 /\ up' = FALSE
        /\ live' = Schedule!NoTasks /\ tradeTasks' = Schedule!NoTasks
        /\ rescheduling' = [p \in Schedule!Processes |-> Schedule!Idle]
        /\ job' = [job EXCEPT !.pc = "idle", !.lost = @ \/ job.pc # "idle"] /\ calm' = FALSE /\ sinceBonus' = 0
        /\ UNCHANGED <<morning, time, day, scheduleChanges, sessions, unheld, moves, bypassed, crossed>>
    BY DEF Schedule!Crash, Schedule!clock
  <1>2. \A p \in Schedule!Processes : Resting(p)'
    BY <1>1 DEF Resting
  <1>3. /\ job' \in Schedule!JobState /\ job'.pc = "idle" /\ job'.log = job.log
        /\ job'.threw = job.threw /\ job'.ended = job.ended
        /\ job'.lost <=> job.lost \/ job.pc # "idle"
    <2>1. job \in Schedule!JobState
      BY <1>0 DEF Schedule!TypeOK
    <2>2. PICK lost \in BOOLEAN : lost <=> (job.lost \/ job.pc # "idle")
      BY Zenon
    <2>3. job' = [job EXCEPT !.pc = "idle", !.lost = lost]
      BY <1>1, <2>1, <2>2 DEF Schedule!JobState
    <2> QED
      BY <2>1, <2>2, <2>3 DEF Schedule!JobState
  <1>4. Schedule!TypeOK'
    <2>1. live' \in [Times -> Nat] /\ tradeTasks' \in [Times -> Nat]
      BY <1>1 DEF Schedule!NoTasks
    <2>2. rescheduling' \in [Schedule!Processes -> Schedule!RunState \cup {Schedule!Idle}]
      BY <1>1
    <2>3. scheduleFailures' \in Nat /\ sinceBonus' \in Nat
      BY <1>0, <1>1 DEF Schedule!TypeOK
    <2>4. up' \in BOOLEAN /\ calm' \in BOOLEAN
      BY <1>1
    <2> QED
      BY <1>0, <1>1, <1>3, <2>1, <2>2, <2>3, <2>4 DEF Schedule!TypeOK
  <1>5. OneTask' /\ Installs' /\ Calm'
    BY <1>1, <1>2 DEF OneTask, Installs, Calm
  <1>6. Held'
    <2>1. \A t \in Times : ~(live'[t] > 0)
      BY <1>1 DEF Schedule!NoTasks
    <2>2. Fired <= moves + 1
      BY <1>0, FiredIs DEF Held
    <2>3. Fired' <= Fired
      BY <1>0, <1>1, <1>3, FiredIs DEF Fired
    <2>4. Fired' <= moves' + 1
      BY <1>0, <1>1, <1>3, <2>2, <2>3, FiredIs DEF Fired
    <2> QED
      BY <2>1, <2>4 DEF Held
  <1>7. Bonus'
    <2>1. (day - 1) % 10 \in Nat
      BY <1>0 DEF Schedule!TypeOK
    <2> QED
      BY <1>1, <2>1 DEF Bonus
  <1>8. Logged'
    <2>1. job.pc # "idle" /\ job.log # "none" => ~job.ended
      BY <1>0 DEF Logged, Schedule!TypeOK, Schedule!JobState
    <2> QED
      BY <1>0, <1>3, <2>1 DEF Logged, Schedule!LogTellsOutcome
  <1> QED
    BY <1>4, <1>5, <1>6, <1>7, <1>8 DEF ScheduleInv

\* A step of the job takes nothing from what fired: what is called, or kept from
\* it, was about to be.
LEMMA JobFires ==
    ASSUME Schedule!TypeOK,
           \/ Schedule!LogStart \/ Schedule!LogComplete \/ Schedule!FailStart \/ Schedule!FailLog
           \/ \E threw \in BOOLEAN : Schedule!Work(threw)
    PROVE  /\ job' \in Schedule!JobState /\ Fired' = Fired
           /\ sessions' \in Nat /\ unheld' \in Nat
  <1>1. job \in Schedule!JobState /\ sessions \in Nat /\ unheld \in Nat
    BY DEF Schedule!TypeOK
  <1>2. CASE Schedule!LogStart
    <2>1. /\ job.pc = "logStart" /\ job' = [job EXCEPT !.pc = "work", !.log = "SUCCESS"]
          /\ sessions' = sessions + 1 /\ unheld' = unheld
      BY <1>2 DEF Schedule!LogStart
    <2>2. job' \in Schedule!JobState /\ job'.pc = "work"
      BY <1>1, <2>1 DEF Schedule!JobState, Schedule!Log
    <2> QED
      BY <1>1, <2>1, <2>2 DEF Fired
  <1>3. CASE Schedule!FailStart
    <2>1. /\ job.pc = "logStart" /\ job' = [job EXCEPT !.pc = "idle"]
          /\ unheld' = unheld + 1 /\ sessions' = sessions
      BY <1>3 DEF Schedule!FailStart
    <2>2. job' \in Schedule!JobState /\ job'.pc = "idle"
      BY <1>1, <2>1 DEF Schedule!JobState
    <2> QED
      BY <1>1, <2>1, <2>2 DEF Fired
  <1>4. CASE Schedule!LogComplete
    <2>1. PICK log \in {"SUCCESS", "FAILED"} :
              /\ job.pc \in {"complete", "fail"}
              /\ job' = [job EXCEPT !.pc = "idle", !.ended = TRUE, !.log = log]
              /\ UNCHANGED <<sessions, unheld>>
      BY <1>4 DEF Schedule!LogComplete, Schedule!observed
    <2>2. job' \in Schedule!JobState /\ job'.pc = "idle"
      BY <1>1, <2>1 DEF Schedule!JobState, Schedule!Log
    <2> QED
      BY <1>1, <2>1, <2>2 DEF Fired
  <1>5. CASE Schedule!FailLog
    <2>1. PICK pc \in {"fail", "idle"} :
              /\ job.pc \in {"complete", "fail"} /\ job' = [job EXCEPT !.pc = pc, !.lost = TRUE]
              /\ UNCHANGED <<sessions, unheld>>
      BY <1>5 DEF Schedule!FailLog, Schedule!observed
    <2>2. job' \in Schedule!JobState /\ job'.pc = pc
      BY <1>1, <2>1 DEF Schedule!JobState
    <2> QED
      BY <1>1, <2>1, <2>2 DEF Fired
  <1>6. ASSUME NEW threw \in BOOLEAN, Schedule!Work(threw)
        PROVE  /\ job' \in Schedule!JobState /\ Fired' = Fired
               /\ sessions' \in Nat /\ unheld' \in Nat
    <2>1. PICK pc \in {"fail", "complete"} :
              /\ job.pc = "work" /\ job' = [job EXCEPT !.pc = pc, !.threw = threw]
              /\ UNCHANGED <<sessions, unheld>>
      BY <1>6 DEF Schedule!Work, Schedule!observed
    <2>2. job' \in Schedule!JobState /\ job'.pc = pc
      BY <1>1, <2>1 DEF Schedule!JobState
    <2> QED
      BY <1>1, <2>1, <2>2 DEF Fired
  <1> QED
    BY <1>2, <1>3, <1>4, <1>5, <1>6

LEMMA JobKeeps ==
    ASSUME ScheduleInv,
           \/ Schedule!LogStart \/ Schedule!LogComplete \/ Schedule!FailStart \/ Schedule!FailLog
           \/ \E threw \in BOOLEAN : Schedule!Work(threw)
    PROVE  ScheduleInv'
  <1>0. Schedule!TypeOK /\ OneTask /\ Installs /\ Calm /\ Held /\ Bonus /\ Logged
    BY DEF ScheduleInv
  <1>1. /\ UNCHANGED <<morning, up, live, tradeTasks, rescheduling, time, day, scheduleChanges, calm, moves,
                       bypassed, crossed, sinceBonus>>
        /\ scheduleFailures' \in Nat
    <2>1. scheduleFailures \in Nat
      BY <1>0 DEF Schedule!TypeOK
    <2>2. CASE Schedule!LogStart \/ Schedule!LogComplete
      BY <2>1, <2>2 DEF Schedule!LogStart, Schedule!LogComplete, Schedule!tasks, Schedule!clock,
                        Schedule!counters, Schedule!observed
    <2>3. CASE Schedule!FailStart \/ Schedule!FailLog
      BY <2>1, <2>3 DEF Schedule!FailStart, Schedule!FailLog, Schedule!tasks, Schedule!clock,
                        Schedule!observed
    <2>4. ASSUME NEW threw \in BOOLEAN, Schedule!Work(threw)
          PROVE  /\ UNCHANGED <<morning, up, live, tradeTasks, rescheduling, time, day, scheduleChanges,
                               calm, moves, bypassed, crossed, sinceBonus>>
                 /\ scheduleFailures' \in Nat
      BY <2>1, <2>4 DEF Schedule!Work, Schedule!tasks, Schedule!clock, Schedule!counters, Schedule!observed
    <2> QED
      BY <2>2, <2>3, <2>4
  <1>2. job \in Schedule!JobState
    BY <1>0 DEF Schedule!TypeOK
  <1>3. Logged'
    <2>1. CASE Schedule!LogStart
      <3>1. job.pc = "logStart" /\ job' = [job EXCEPT !.pc = "work", !.log = "SUCCESS"]
        BY <2>1 DEF Schedule!LogStart
      <3>2. job'.pc = "work" /\ job'.ended = job.ended
        BY <1>2, <3>1 DEF Schedule!JobState
      <3> QED
        BY <1>0, <3>1, <3>2 DEF Logged, Schedule!LogTellsOutcome
    <2>2. ASSUME NEW threw \in BOOLEAN, Schedule!Work(threw) PROVE Logged'
      <3>1. PICK pc \in {"fail", "complete"} :
                /\ job.pc = "work" /\ (pc = "fail" <=> threw)
                /\ job' = [job EXCEPT !.pc = pc, !.threw = threw]
        BY <2>2 DEF Schedule!Work
      <3>2. job'.pc = pc /\ job'.log = job.log /\ job'.ended = job.ended /\ job'.threw = threw
        BY <1>2, <3>1 DEF Schedule!JobState
      <3> QED
        BY <1>0, <3>1, <3>2 DEF Logged, Schedule!LogTellsOutcome
    <2>3. CASE Schedule!LogComplete
      <3>1. PICK log \in {"SUCCESS", "FAILED"} :
                /\ job.pc \in {"complete", "fail"} /\ (log = "SUCCESS" <=> job.pc = "complete")
                /\ job' = [job EXCEPT !.pc = "idle", !.ended = TRUE, !.log = log]
        BY <2>3 DEF Schedule!LogComplete
      <3>2. /\ job'.pc = "idle" /\ job'.log = log /\ job'.ended = TRUE
            /\ job'.threw = job.threw /\ job'.lost = job.lost
        BY <1>2, <3>1 DEF Schedule!JobState
      <3> QED
        BY <1>0, <3>1, <3>2 DEF Logged, Schedule!LogTellsOutcome
    <2>4. CASE Schedule!FailLog /\ job.pc = "complete"
      <3>1. job' = [job EXCEPT !.pc = "fail", !.lost = TRUE]
        BY <2>4 DEF Schedule!FailLog
      <3>2. job'.pc = "fail" /\ job'.ended = job.ended /\ job'.lost = TRUE
        BY <1>2, <3>1 DEF Schedule!JobState
      <3> QED
        BY <1>0, <2>4, <3>2 DEF Logged, Schedule!LogTellsOutcome
    <2>5. CASE Schedule!FailLog /\ job.pc # "complete"
      <3>1. job.pc = "fail" /\ job' = [job EXCEPT !.pc = "idle", !.lost = TRUE]
        BY <2>5 DEF Schedule!FailLog
      <3>2. job'.pc = "idle" /\ job'.ended = job.ended /\ job'.lost = TRUE
        BY <1>2, <3>1 DEF Schedule!JobState
      <3> QED
        BY <1>0, <3>1, <3>2 DEF Logged, Schedule!LogTellsOutcome
    <2>6. CASE Schedule!FailStart
      <3>1. job.pc = "logStart" /\ job' = [job EXCEPT !.pc = "idle"]
        BY <2>6 DEF Schedule!FailStart
      <3>2. job'.pc = "idle" /\ job'.log = job.log
        BY <1>2, <3>1 DEF Schedule!JobState
      <3> QED
        BY <1>0, <3>1, <3>2 DEF Logged, Schedule!LogTellsOutcome
    <2> QED
      BY <2>1, <2>2, <2>3, <2>4, <2>5, <2>6
  <1>4. job' \in Schedule!JobState /\ Fired' = Fired /\ sessions' \in Nat /\ unheld' \in Nat
    BY <1>0, JobFires
  <1>5. Schedule!TypeOK'
    BY <1>0, <1>1, <1>4 DEF Schedule!TypeOK
  <1>6. OneTask' /\ Installs' /\ Held' /\ Bonus'
    BY <1>0, <1>1, <1>4, TasksKeep, DayKeeps
  <1>7. Calm'
    BY <1>0, <1>1, <1>4 DEF Calm, Resting
  <1> QED
    BY <1>3, <1>5, <1>6, <1>7 DEF ScheduleInv

\* The tasks whose time has come, a time later.
LEMMA OneTimeLater ==
    ASSUME OneTask, NEW t \in Nat, t + 1 \in Times
    PROVE  Cardinality({s \in 0..(t + 1) : live[s] > 0}) = Cardinality({s \in 0..t : live[s] > 0}) + live[t + 1]
  <1> DEFINE S == {s \in 0..t : live[s] > 0}
             T == {s \in 0..(t + 1) : live[s] > 0}
  <1>1. 0..(t + 1) = (0..t) \cup {t + 1} /\ t + 1 \notin 0..t
    OBVIOUS
  <1>2. IsFiniteSet(0..t)
    BY FS_Interval
  <1>3. IsFiniteSet(S) /\ Cardinality(S) \in Nat /\ t + 1 \notin S
    BY <1>1, <1>2, FS_Subset, FS_CardinalityType
  <1>4. CASE live[t + 1] = 1
    <2>1. T = S \cup {t + 1}
      BY <1>1, <1>4
    <2> HIDE DEF S, T
    <2> QED
      BY <1>3, <1>4, <2>1, FS_AddElement DEF S, T
  <1>5. CASE live[t + 1] = 0
    <2>1. T = S
      BY <1>1, <1>5
    <2> HIDE DEF S, T
    <2>2. Cardinality(T) = Cardinality(S) + live[t + 1]
      BY <1>3, <1>5, <2>1
    <2> QED
      BY <2>2 DEF S, T
  <1> QED
    BY <1>4, <1>5, FewTasks

LEMMA AtMidnight ==
    ASSUME OneTask
    PROVE  Cardinality({s \in 0..0 : live[s] > 0}) = live[0]
  <1>1. 0..0 = {0} /\ 0 \in Times
    BY TimeAssumption
  <1>2. CASE live[0] = 1
    <2>1. {s \in 0..0 : live[s] > 0} = {0}
      BY <1>1, <1>2
    <2> QED
      BY <1>2, <2>1, FS_Singleton
  <1>3. CASE live[0] = 0
    <2>1. {s \in 0..0 : live[s] > 0} = {}
      BY <1>1, <1>3
    <2> QED
      BY <1>3, <2>1, FS_EmptySet
  <1> QED
    BY <1>1, <1>2, <1>3, FewTasks

LEMMA TickKeeps == ASSUME ScheduleInv, Schedule!Tick PROVE ScheduleInv'
  <1>0. Schedule!TypeOK /\ OneTask /\ Installs /\ Calm /\ Held /\ Bonus /\ Logged
    BY DEF ScheduleInv
  <1> DEFINE t == IF time + 1 \in Times THEN time + 1 ELSE 0
             fires == up /\ live[t] > 0
  <1>1. /\ time' = t
        /\ day' \in (IF t = 0 THEN Schedule!NextDays(day) ELSE {day})
        /\ job' = IF fires THEN [Schedule!NoJob EXCEPT !.pc = "logStart"] ELSE Schedule!NoJob
        /\ sessions' = (IF t = 0 THEN 0 ELSE sessions) /\ unheld' = (IF t = 0 THEN 0 ELSE unheld)
        /\ job.pc = "idle"
        /\ moves' = IF t = 0 THEN 0 ELSE moves
        /\ sinceBonus' = IF t # 0 THEN sinceBonus
                         ELSE IF ~up \/ day' \in Schedule!CycleBonusDays THEN 0
                         ELSE sinceBonus + 1
        /\ UNCHANGED <<morning, up, live, tradeTasks, rescheduling, scheduleChanges, scheduleFailures,
                       bypassed, crossed>>
    BY DEF Schedule!Tick, Schedule!Fires, Schedule!Midnight, Schedule!tasks, Schedule!counters
  <1>2. /\ calm' \in BOOLEAN
        /\ (calm' /\ t = 0) => up /\ \A p \in Schedule!Processes : Resting(p)
        /\ (calm' /\ t # 0) => calm
    <2>1. calm' = IF t = 0 THEN up /\ Schedule!InProgress = {} ELSE calm
      BY DEF Schedule!Tick, Schedule!Midnight
    <2>2. CASE t = 0
      <3>1. calm' = (up /\ Schedule!InProgress = {})
        BY <2>1, <2>2
      <3>2. (up /\ Schedule!InProgress = {}) \in BOOLEAN
        BY Zenon
      <3>3. calm' \in BOOLEAN /\ (calm' => up /\ Schedule!InProgress = {})
        BY <3>1, <3>2, Zenon
      <3> QED
        BY <2>2, <3>3 DEF Schedule!InProgress, Resting
    <2>3. CASE t # 0
      <3>1. calm' = calm
        BY <2>1, <2>3
      <3> QED
        BY <1>0, <2>3, <3>1 DEF Schedule!TypeOK
    <2> QED
      BY <2>2, <2>3
  <1>3. time \in Nat /\ t \in Times /\ t \in Nat /\ (t # 0 => t = time + 1)
    BY <1>0, TimeAssumption DEF Schedule!TypeOK
  <1>4. live[t] \in {0, 1}
    BY <1>0, <1>3, FewTasks
  <1>5. IF fires THEN live[t] = 1 ELSE live[t] = 0
    <2>1. ~up => live[t] = 0
      BY <1>0, <1>3 DEF OneTask, Schedule!NoTasks
    <2> QED
      BY <1>4, <2>1
  <1>7. day' \in 1..31 /\ sinceBonus' \in Nat /\ Bonus'
    <2>1. day \in 1..31 /\ sinceBonus \in Nat /\ sinceBonus <= (day - 1) % 10
      BY <1>0 DEF Schedule!TypeOK, Bonus
    <2>2. CASE t # 0
      BY <1>1, <2>1, <2>2 DEF Bonus
    <2>3. CASE t = 0
      <3>1. (day' = day + 1 /\ day < 31) \/ day' = 1
        BY <1>1, <2>1, <2>3 DEF Schedule!NextDays
      <3>2. sinceBonus' = IF ~up \/ (day' - 1) % 10 = 0 THEN 0 ELSE sinceBonus + 1
        BY <1>1, <2>1, <2>3, <3>1 DEF Schedule!CycleBonusDays
      <3>3. CASE day' = 1
        <4>1. (day' - 1) % 10 = 0
          BY <3>3
        <4> QED
          BY <3>2, <3>3, <4>1 DEF Bonus
      <3>4. CASE day' = day + 1 /\ day < 31
        <4>1. (day' - 1) % 10 = day % 10 /\ day % 10 \in Nat
          BY <2>1, <3>4
        <4>2. day % 10 # 0 => day % 10 = ((day - 1) % 10) + 1
          BY <2>1
        <4>3. sinceBonus' = 0 \/ (day % 10 # 0 /\ sinceBonus' = sinceBonus + 1)
          BY <3>2, <4>1
        <4>4. (day - 1) % 10 \in Nat
          BY <2>1
        <4> QED
          BY <2>1, <3>4, <4>1, <4>2, <4>3, <4>4 DEF Bonus
      <3> QED
        BY <3>1, <3>3, <3>4
    <2> QED
      BY <2>2, <2>3
  <1>8. job' \in Schedule!JobState /\ Logged' /\ (job'.pc = "logStart" <=> fires)
    <2>1. PICK pc \in {"idle", "logStart"} :
              /\ job' = [pc |-> pc, log |-> "none", ended |-> FALSE, threw |-> FALSE, lost |-> FALSE]
              /\ pc = "logStart" <=> fires
      <3>1. CASE fires
        BY <1>1, <3>1 DEF Schedule!NoJob
      <3>2. CASE ~fires
        BY <1>1, <3>2 DEF Schedule!NoJob
      <3> QED
        BY <3>1, <3>2
    <2>2. job' \in Schedule!JobState /\ job'.pc = pc /\ job'.log = "none" /\ ~job'.ended
      BY <2>1 DEF Schedule!JobState, Schedule!Log
    <2> QED
      BY <2>1, <2>2 DEF Logged, Schedule!LogTellsOutcome
  <1> HIDE DEF fires
  <1>9. sessions' \in Nat /\ unheld' \in Nat /\ moves' \in Nat
    BY <1>0, <1>1 DEF Schedule!TypeOK
  <1>6. Fired' = (IF t = 0 THEN 0 ELSE Fired) + live[t]
    <2> HIDE DEF t
    <2>1. Fired = sessions + unheld
      BY <1>0, <1>1, FiredIs
    <2>2. Fired' = sessions' + unheld' + live[t]
      BY <1>5, <1>8, <1>9 DEF Fired
    <2> QED
      BY <1>0, <1>1, <1>4, <2>1, <2>2, FiredIs
  <1>10. Schedule!TypeOK'
    BY <1>0, <1>1, <1>2, <1>3, <1>7, <1>8, <1>9 DEF Schedule!TypeOK
  <1>11. OneTask' /\ Installs'
    BY <1>0, <1>1, TasksKeep
  <1>12. Calm'
    <2> SUFFICES ASSUME calm'
                 PROVE  /\ up /\ \A p \in Schedule!Processes : Resting(p)
                        /\ Fired' = Cardinality({s \in 0..t : live[s] > 0})
      BY <1>1 DEF Calm, Resting
    <2>1. CASE t = 0
      <3> HIDE DEF t
      <3>1. live[0] \in {0, 1} /\ Fired' = live[0]
        BY <1>4, <1>6, <2>1
      <3>2. Fired' = Cardinality({s \in 0..t : live[s] > 0})
        BY <1>0, <2>1, <3>1, AtMidnight
      <3> QED
        BY <1>2, <2>1, <3>2
    <2>2. CASE t # 0
      <3>1. /\ up /\ \A p \in Schedule!Processes : Resting(p)
            /\ Fired = Cardinality({s \in 0..time : live[s] > 0})
        BY <1>0, <1>2, <2>2 DEF Calm
      <3>2. t = time + 1 /\ time + 1 \in Times
        BY <1>3, <2>2
      <3> HIDE DEF t
      <3>3. Cardinality({s \in 0..t : live[s] > 0}) = Cardinality({s \in 0..time : live[s] > 0}) + live[t]
        BY <1>0, <1>3, <3>2, OneTimeLater
      <3> QED
        BY <1>6, <2>2, <3>1, <3>3
    <2> QED
      BY <2>1, <2>2
  <1>13. Held'
    <2> HIDE DEF t
    <2>1. time' = t /\ live' = live
      BY <1>1
    <2>2. Fired \in Nat /\ moves \in Nat
      BY <1>0, FiredIs
    \* When a task fires now, it is the only one, and its time was to come.
    <2>3. CASE live[t] = 1
      <3>1. \A s \in Times : live[s] > 0 => s = t
        BY <1>0, <1>3, <2>3, FewTasks
      <3>2. \A s \in Times : live'[s] > 0 => s <= time'
        BY <1>3, <2>1, <3>1
      <3>3. Fired' <= moves' + 1
        <4>1. CASE t = 0
          BY <1>1, <1>6, <2>3, <4>1
        <4>2. CASE t # 0
          <5>1. ~(\A s \in Times : live[s] > 0 => s <= time)
            BY <1>3, <2>3, <4>2
          <5>2. Fired <= moves
            BY <1>0, <2>2, <5>1 DEF Held
          <5> QED
            BY <1>1, <1>6, <2>2, <2>3, <4>2, <5>2
        <4> QED
          BY <4>1, <4>2
      <3> QED
        BY <3>2, <3>3 DEF Held
    <2>4. CASE live[t] = 0
      <3>1. CASE t = 0
        BY <1>1, <1>6, <2>4, <3>1 DEF Held
      <3>2. CASE t # 0
        <4>1. Fired' = Fired /\ moves' = moves
          BY <1>1, <1>6, <2>2, <2>4, <3>2
        <4>2. (\A s \in Times : live[s] > 0 => s <= time) => \A s \in Times : live'[s] > 0 => s <= time'
          BY <1>3, <2>1, <3>2, TimeAssumption
        <4> QED
          BY <1>0, <2>2, <4>1, <4>2 DEF Held
      <3> QED
        BY <3>1, <3>2
    <2> QED
      BY <1>4, <2>3, <2>4
  <1> QED
    BY <1>7, <1>8, <1>10, <1>11, <1>12, <1>13 DEF ScheduleInv

LEMMA ScheduleNext == ScheduleInv /\ Schedule!Next => ScheduleInv'
  <1> SUFFICES ASSUME ScheduleInv, Schedule!Next PROVE ScheduleInv'
    OBVIOUS
  <1>1. ASSUME NEW p \in Schedulers, NEW t \in Times, Schedule!UpdateTradeSchedule(p, t) PROVE ScheduleInv'
    BY <1>1, UpdateTradeScheduleKeeps
  <1>2. ASSUME NEW p \in Schedulers, Schedule!Upsert(p) \/ Schedule!FailRun(p) PROVE ScheduleInv'
    BY <1>2, UpsertKeeps, FailRunKeeps
  <1>3. ASSUME NEW p \in Schedule!Processes, Schedule!ReadSchedule(p) \/ Schedule!ScheduleTradeTasks(p)
        PROVE  ScheduleInv'
    BY <1>3, ReadScheduleKeeps, ScheduleTradeTasksKeeps
  <1>4. ASSUME NEW value \in Times \cup {Schedule!NotATime}, Schedule!UpdateConfig(value) PROVE ScheduleInv'
    BY <1>4, WriteSettingKeeps DEF Schedule!UpdateConfig, Schedule!Value
  <1>5. CASE Schedule!SeedDefaults
    BY <1>5, WriteSettingKeeps, TimeAssumption DEF Schedule!SeedDefaults, Schedule!Value
  <1>6. CASE Schedule!StartAll \/ Schedule!Tick \/ Schedule!Crash
    BY <1>6, StartAllKeeps, TickKeeps, CrashKeeps
  <1>7. CASE \/ Schedule!LogStart \/ Schedule!LogComplete \/ Schedule!FailStart \/ Schedule!FailLog
             \/ \E threw \in BOOLEAN : Schedule!Work(threw)
    BY <1>7, JobKeeps
  <1> QED
    BY <1>1, <1>2, <1>3, <1>4, <1>5, <1>6, <1>7 DEF Schedule!Next

-------------------------------------------------------------------------------
(* Tickets *)

\* A reply works on a ticket that exists; it is late if the ticket is closed.
\* One that is alone in its transaction is the only one, and its message the
\* newest.
DeskRun(p) ==
    reply[p] # Desk!Idle =>
        LET t == reply[p].ticket IN
        /\ t \in Tickets
        /\ status[t] # Desk!NoTicket
        /\ status[t] = "CLOSED" => reply[p].late
        /\ reply[p].pc = "commit" =>
               /\ reply[p].created <= messageClock
               /\ reply[p].alone => /\ Desk!Adding(t) = {p}
                                    /\ newest[t].created <= reply[p].created

DeskInv ==
    /\ Desk!TypeOK
    /\ \A p \in Repliers : DeskRun(p)
    /\ \A t \in Tickets : newest[t].created <= messageClock
    /\ Desk!StatusTellsWhoIsWaitedFor

LEMMA DeskInit == Desk!Init => DeskInv
  <1> SUFFICES ASSUME Desk!Init PROVE DeskInv
    OBVIOUS
  <1>1. Desk!TypeOK
    BY DEF Desk!Init, Desk!TypeOK, Desk!Message, Desk!Author
  <1> QED
    BY <1>1 DEF Desk!Init, DeskInv, DeskRun, Desk!StatusTellsWhoIsWaitedFor

\* AddMessage beside the replies S in a transaction on the ticket; b tells
\* whether there are none.
Adds(p, S, b) ==
    /\ b <=> S = {}
    /\ reply[p].pc = "add"
    /\ messageClock' = messageClock + 1
    /\ UNCHANGED <<status, newest, replyCalls, replyFailures, author>>
    /\ reply' = [q \in Repliers |->
           IF q = p THEN [reply[p] EXCEPT !.pc = "commit", !.created = messageClock', !.alone = b]
           ELSE IF q \in S THEN [reply[q] EXCEPT !.alone = FALSE] ELSE reply[q]]

LEMMA Added ==
    ASSUME NEW p \in Repliers, Desk!AddMessage(p)
    PROVE  \E b \in BOOLEAN : Adds(p, Desk!Adding(reply[p].ticket), b)
  <1>1. CASE Desk!Adding(reply[p].ticket) = {}
    BY <1>1, Zenon DEF Desk!AddMessage, Adds
  <1>2. CASE Desk!Adding(reply[p].ticket) # {}
    BY <1>2, Zenon DEF Desk!AddMessage, Adds
  <1> QED
    BY <1>1, <1>2

LEMMA Replying ==
    ASSUME Desk!TypeOK, NEW p \in Repliers, reply[p] # Desk!Idle
    PROVE  reply[p] \in Desk!RunState
  BY DEF Desk!TypeOK

LEMMA DeskTypes == Desk!TypeOK /\ Desk!Next => Desk!TypeOK'
  <1> SUFFICES ASSUME Desk!TypeOK, Desk!Next PROVE Desk!TypeOK'
    OBVIOUS
  <1>1. ASSUME NEW t \in Tickets, Desk!CreateTicket(t) PROVE Desk!TypeOK'
    <2>1. messageClock' \in Nat /\ replyCalls' \in Nat
      BY <1>1 DEF Desk!TypeOK, Desk!CreateTicket, Desk!Call
    <2>2. newest' \in [Tickets -> Desk!Message]
      <3>1. [created |-> messageClock', isAdmin |-> FALSE] \in Desk!Message
        BY <2>1 DEF Desk!Message
      <3> QED
        BY <1>1, <3>1 DEF Desk!TypeOK, Desk!CreateTicket
    <2>3. status' \in [Tickets -> Desk!TicketStatus \cup {Desk!NoTicket}]
      BY <1>1 DEF Desk!TypeOK, Desk!CreateTicket, Desk!TicketStatus
    <2>4. author' \in [Tickets -> Desk!Author]
      BY <1>1 DEF Desk!TypeOK, Desk!CreateTicket, Desk!Author
    <2> QED
      BY <1>1, <2>1, <2>2, <2>3, <2>4 DEF Desk!TypeOK, Desk!CreateTicket
  <1>2. ASSUME NEW t \in Tickets, Desk!CloseTicket(t) PROVE Desk!TypeOK'
    <2>1. \A p \in Repliers : reply'[p] \in Desk!RunState \cup {Desk!Idle}
      <3> SUFFICES ASSUME NEW p \in Repliers PROVE reply'[p] \in Desk!RunState \cup {Desk!Idle}
        OBVIOUS
      <3> QED
        BY <1>2, Replying DEF Desk!CloseTicket, Desk!RunState
    <2>2. reply' \in [Repliers -> Desk!RunState \cup {Desk!Idle}]
      BY <1>2, <2>1 DEF Desk!CloseTicket
    <2>3. status' \in [Tickets -> Desk!TicketStatus \cup {Desk!NoTicket}]
      BY <1>2, Zenon DEF Desk!TypeOK, Desk!CloseTicket, Desk!TicketStatus
    <2>4. author' \in [Tickets -> Desk!Author]
      BY <1>2, Zenon DEF Desk!TypeOK, Desk!CloseTicket, Desk!Author
    <2>5. replyCalls' \in Nat /\ UNCHANGED <<newest, messageClock, replyFailures>>
      BY <1>2 DEF Desk!TypeOK, Desk!CloseTicket, Desk!Call
    <2> QED
      BY <2>2, <2>3, <2>4, <2>5 DEF Desk!TypeOK
  <1>3. ASSUME NEW t \in Tickets, Desk!ReopenTicket(t) PROVE Desk!TypeOK'
    <2>1. status' \in [Tickets -> Desk!TicketStatus \cup {Desk!NoTicket}]
      BY <1>3 DEF Desk!TypeOK, Desk!ReopenTicket, Desk!TicketStatus
    <2>2. author' \in [Tickets -> Desk!Author]
      BY <1>3 DEF Desk!TypeOK, Desk!ReopenTicket, Desk!Author
    <2> QED
      BY <1>3, <2>1, <2>2 DEF Desk!TypeOK, Desk!ReopenTicket, Desk!Call
  <1>4. ASSUME NEW p \in Repliers, NEW t \in Tickets, NEW isAdmin \in BOOLEAN,
               Desk!ReplyToTicket(p, t, isAdmin)
        PROVE  Desk!TypeOK'
    <2> DEFINE x == [pc |-> "add", ticket |-> t, isAdmin |-> isAdmin, created |-> 0,
                     alone |-> FALSE, late |-> FALSE]
    <2>1. x \in Desk!RunState
      BY DEF Desk!RunState
    <2>2. reply' = [reply EXCEPT ![p] = x]
      BY <1>4 DEF Desk!ReplyToTicket
    <2> HIDE DEF x
    <2>3. reply' \in [Repliers -> Desk!RunState \cup {Desk!Idle}]
      BY <2>1, <2>2 DEF Desk!TypeOK
    <2>4. replyCalls' \in Nat /\ UNCHANGED <<status, newest, messageClock, replyFailures, author>>
      BY <1>4 DEF Desk!TypeOK, Desk!ReplyToTicket, Desk!Call
    <2> QED
      BY <2>3, <2>4 DEF Desk!TypeOK
  <1>5. ASSUME NEW p \in Repliers, Desk!AddMessage(p) PROVE Desk!TypeOK'
    <2> DEFINE S == Desk!Adding(reply[p].ticket)
    <2>1. PICK b \in BOOLEAN : Adds(p, S, b)
      BY <1>5, Added
    <2>2. S \subseteq Repliers /\ \A q \in S : reply[q].pc = "commit"
      BY DEF Desk!Adding
    <2> HIDE DEF S
    <2>3. messageClock' \in Nat
      BY <2>1 DEF Desk!TypeOK, Adds
    <2>4. \A q \in Repliers : reply'[q] \in Desk!RunState \cup {Desk!Idle}
      <3>1. reply[p].pc = "add"
        BY <2>1 DEF Adds
      <3>2. reply[p] # Desk!Idle /\ \A q \in S : reply[q] # Desk!Idle
        BY <2>2, <3>1 DEF Desk!Idle
      <3>3. reply[p] \in Desk!RunState /\ \A q \in S : reply[q] \in Desk!RunState
        BY <2>2, <3>2, Replying
      <3>4. \A q \in Repliers : reply[q] \in Desk!RunState \cup {Desk!Idle}
        BY DEF Desk!TypeOK
      <3> QED
        BY <2>1, <2>3, <3>3, <3>4 DEF Desk!RunState, Adds
    <2>5. reply' \in [Repliers -> Desk!RunState \cup {Desk!Idle}]
      BY <2>1, <2>4 DEF Adds
    <2> QED
      BY <2>1, <2>3, <2>5 DEF Desk!TypeOK, Adds
  <1>6. ASSUME NEW p \in Repliers, Desk!CommitMessage(p) PROVE Desk!TypeOK'
    <2>1. reply[p] \in Desk!RunState
      <3>1. reply[p].pc = "commit"
        BY <1>6 DEF Desk!CommitMessage, Desk!Commit
      <3> QED
        BY <3>1, Replying DEF Desk!Idle
    <2>2. newest' \in [Tickets -> Desk!Message]
      <3>1. [created |-> reply[p].created, isAdmin |-> reply[p].isAdmin] \in Desk!Message
        BY <2>1 DEF Desk!RunState, Desk!Message
      <3> QED
        BY <1>6, <3>1 DEF Desk!TypeOK, Desk!CommitMessage, Desk!Commit
    <2>3. status' \in [Tickets -> Desk!TicketStatus \cup {Desk!NoTicket}]
      BY <1>6 DEF Desk!TypeOK, Desk!CommitMessage, Desk!Commit, Desk!TicketStatus, Desk!Answered
    <2>4. author' \in [Tickets -> Desk!Author]
      BY <1>6 DEF Desk!TypeOK, Desk!CommitMessage, Desk!Commit, Desk!Author
    <2>5. reply' \in [Repliers -> Desk!RunState \cup {Desk!Idle}]
      BY <1>6 DEF Desk!TypeOK, Desk!CommitMessage, Desk!Commit
    <2> QED
      BY <1>6, <2>2, <2>3, <2>4, <2>5 DEF Desk!TypeOK, Desk!CommitMessage, Desk!Commit
  <1>7. ASSUME NEW p \in Repliers, Desk!ReplyFails(p) PROVE Desk!TypeOK'
    BY <1>7 DEF Desk!TypeOK, Desk!ReplyFails, Desk!Fail
  <1> QED
    BY <1>1, <1>2, <1>3, <1>4, <1>5, <1>6, <1>7 DEF Desk!Next

\* Replies other than those a step is about keep what they know.
LEMMA DeskQuiet ==
    ASSUME DeskInv, NEW q \in Repliers, reply'[q] = reply[q],
           \A t \in Tickets : newest'[t] = newest[t] /\ (status[t] # Desk!NoTicket => status'[t] = status[t]),
           messageClock' \in Nat, messageClock' >= messageClock,
           reply[q] # Desk!Idle /\ reply[q].pc = "commit" /\ reply[q].alone
               => Desk!Adding(reply[q].ticket)' = Desk!Adding(reply[q].ticket)
    PROVE  DeskRun(q)'
  <1> SUFFICES ASSUME reply[q] # Desk!Idle PROVE DeskRun(q)'
    BY DEF DeskRun, Desk!Idle
  <1>1. DeskRun(q) /\ reply[q] \in Desk!RunState /\ messageClock \in Nat
    BY Replying DEF DeskInv, Desk!TypeOK
  <1>2. reply[q].ticket \in Tickets /\ status[reply[q].ticket] # Desk!NoTicket
    BY <1>1 DEF DeskRun
  <1>3. status'[reply[q].ticket] = status[reply[q].ticket] /\ newest'[reply[q].ticket] = newest[reply[q].ticket]
    BY <1>2
  <1>4. reply[q].pc = "commit" => reply[q].created <= messageClock'
    BY <1>1 DEF DeskRun, Desk!RunState
  <1>5. reply[q].pc = "commit" /\ reply[q].alone =>
            Desk!Adding(reply[q].ticket)' = {q} /\ newest[reply[q].ticket].created <= reply[q].created
    BY <1>1 DEF DeskRun
  <1> QED
    BY <1>2, <1>3, <1>4, <1>5, <1>1 DEF DeskRun

LEMMA DeskNext == DeskInv /\ Desk!Next => DeskInv'
  <1> SUFFICES ASSUME DeskInv, Desk!Next PROVE DeskInv'
    OBVIOUS
  <1> DEFINE Rest == /\ \A q \in Repliers : DeskRun(q)
                     /\ \A t \in Tickets : newest[t].created <= messageClock
                     /\ Desk!StatusTellsWhoIsWaitedFor
  <1>0. /\ Desk!TypeOK /\ Desk!TypeOK' /\ messageClock \in Nat /\ messageClock' \in Nat
        /\ \A t \in Tickets : newest[t] \in Desk!Message
        /\ \A q \in Repliers : DeskRun(q)
        /\ \A t \in Tickets : newest[t].created <= messageClock
        /\ Desk!StatusTellsWhoIsWaitedFor
    BY DeskTypes DEF DeskInv, Desk!TypeOK
  <1>1. ASSUME NEW u \in Tickets, Desk!CreateTicket(u) PROVE Rest'
    <2>1. \A q \in Repliers : reply[q] # Desk!Idle => reply[q].ticket # u
      BY <1>0, <1>1 DEF DeskRun, Desk!CreateTicket
    <2>2. \A t \in Tickets \ {u} : status'[t] = status[t] /\ newest'[t] = newest[t] /\ author'[t] = author[t]
      BY <1>0, <1>1 DEF Desk!CreateTicket, Desk!TypeOK
    <2>3. /\ messageClock' = messageClock + 1 /\ reply' = reply
          /\ newest'[u] = [created |-> messageClock', isAdmin |-> FALSE] /\ status'[u] = "OPEN"
      BY <1>0, <1>1 DEF Desk!CreateTicket, Desk!TypeOK
    <2>4. \A q \in Repliers : DeskRun(q)'
      BY <1>0, <2>1, <2>2, <2>3, Replying DEF DeskRun, Desk!Adding, Desk!RunState
    <2>5. \A t \in Tickets : newest'[t].created <= messageClock'
      BY <1>0, <2>2, <2>3 DEF Desk!Message
    <2>6. \A t \in Tickets : author'[t] \in {"create", "reply"} => status'[t] = Desk!Answered(newest'[t].isAdmin)
      BY <1>0, <2>2, <2>3 DEF Desk!StatusTellsWhoIsWaitedFor, Desk!Answered
    <2> QED
      BY <2>4, <2>5, <2>6 DEF Desk!StatusTellsWhoIsWaitedFor, Desk!Answered
  <1>2. ASSUME NEW u \in Tickets, Desk!CloseTicket(u) PROVE Rest'
    <2>1. /\ UNCHANGED <<newest, messageClock>> /\ status'[u] = "CLOSED" /\ author'[u] = "close"
          /\ \A t \in Tickets \ {u} : status'[t] = status[t] /\ author'[t] = author[t]
      BY <1>0, <1>2 DEF Desk!CloseTicket, Desk!TypeOK
    <2>2. \A q \in Repliers :
              reply'[q] = IF reply[q] # Desk!Idle /\ reply[q].ticket = u THEN [reply[q] EXCEPT !.late = TRUE]
                          ELSE reply[q]
      BY <1>2 DEF Desk!CloseTicket
    <2>3. \A q \in Repliers :
              /\ reply'[q] = Desk!Idle <=> reply[q] = Desk!Idle
              /\ reply'[q].pc = reply[q].pc
              /\ reply[q] # Desk!Idle =>
                     /\ reply'[q].ticket = reply[q].ticket /\ reply'[q].created = reply[q].created
                     /\ reply'[q].alone = reply[q].alone
                     /\ reply'[q].late = (IF reply[q].ticket = u THEN TRUE ELSE reply[q].late)
      <3> SUFFICES ASSUME NEW q \in Repliers
                   PROVE  /\ reply'[q] = Desk!Idle <=> reply[q] = Desk!Idle
                          /\ reply'[q].pc = reply[q].pc
                          /\ reply[q] # Desk!Idle =>
                                 /\ reply'[q].ticket = reply[q].ticket /\ reply'[q].created = reply[q].created
                                 /\ reply'[q].alone = reply[q].alone
                                 /\ reply'[q].late = (IF reply[q].ticket = u THEN TRUE ELSE reply[q].late)
        OBVIOUS
      <3>1. CASE reply[q] = Desk!Idle
        BY <2>2, <3>1
      <3>2. CASE reply[q] # Desk!Idle
        <4>1. reply[q] \in Desk!RunState
          BY <1>0, <3>2, Replying
        <4> QED
          BY <2>2, <3>2, <4>1 DEF Desk!RunState, Desk!Idle
      <3> QED
        BY <3>1, <3>2
    <2>4. \A t : Desk!Adding(t)' = Desk!Adding(t)
      <3>1. \A q \in Repliers : reply[q].pc = "commit" => reply[q] # Desk!Idle
        BY DEF Desk!Idle
      <3> QED
        BY <2>3, <3>1 DEF Desk!Adding
    <2>5. \A q \in Repliers : DeskRun(q)'
      <3> SUFFICES ASSUME NEW q \in Repliers, reply[q] # Desk!Idle PROVE DeskRun(q)'
        BY <2>3 DEF DeskRun, Desk!Idle
      <3>1. /\ reply[q].ticket \in Tickets /\ status[reply[q].ticket] # Desk!NoTicket
            /\ status[reply[q].ticket] = "CLOSED" => reply[q].late
            /\ reply[q].pc = "commit" => reply[q].created <= messageClock
            /\ reply[q].pc = "commit" /\ reply[q].alone =>
                   Desk!Adding(reply[q].ticket) = {q} /\ newest[reply[q].ticket].created <= reply[q].created
        BY <1>0 DEF DeskRun
      <3>2. status'[reply[q].ticket] # Desk!NoTicket
        BY <2>1, <3>1 DEF Desk!NoTicket
      <3>3. status'[reply[q].ticket] = "CLOSED" => reply'[q].late
        BY <2>1, <2>3, <3>1
      <3>4. reply[q].pc = "commit" => reply'[q].created <= messageClock'
        BY <2>1, <2>3, <3>1
      <3>5. reply[q].pc = "commit" /\ reply[q].alone =>
                Desk!Adding(reply[q].ticket)' = {q} /\ newest'[reply[q].ticket].created <= reply'[q].created
        BY <2>1, <2>3, <2>4, <3>1
      <3>6. /\ reply'[q].ticket = reply[q].ticket /\ reply'[q].pc = reply[q].pc
            /\ reply'[q].alone <=> reply[q].alone
        BY <2>3
      <3> QED
        BY <3>1, <3>2, <3>3, <3>4, <3>5, <3>6 DEF DeskRun
    <2>6. \A t \in Tickets : author'[t] \in {"create", "reply"} => status'[t] = Desk!Answered(newest'[t].isAdmin)
      BY <1>0, <2>1 DEF Desk!StatusTellsWhoIsWaitedFor, Desk!Answered
    <2> QED
      BY <1>0, <2>1, <2>5, <2>6 DEF Desk!StatusTellsWhoIsWaitedFor, Desk!Answered
  <1>3. ASSUME NEW u \in Tickets, Desk!ReopenTicket(u) PROVE Rest'
    <2>1. /\ UNCHANGED <<newest, messageClock, reply>> /\ status'[u] = "OPEN" /\ author'[u] = "reopen"
          /\ \A t \in Tickets \ {u} : status'[t] = status[t] /\ author'[t] = author[t]
      BY <1>0, <1>3 DEF Desk!ReopenTicket, Desk!TypeOK
    <2>2. \A q \in Repliers : DeskRun(q)'
      BY <1>0, <2>1 DEF DeskRun, Desk!NoTicket, Desk!Adding
    <2>3. \A t \in Tickets : author'[t] \in {"create", "reply"} => status'[t] = Desk!Answered(newest'[t].isAdmin)
      BY <1>0, <2>1 DEF Desk!StatusTellsWhoIsWaitedFor, Desk!Answered
    <2> QED
      BY <1>0, <2>1, <2>2, <2>3 DEF Desk!StatusTellsWhoIsWaitedFor, Desk!Answered
  <1>4. ASSUME NEW p \in Repliers, NEW u \in Tickets, NEW isAdmin \in BOOLEAN,
               Desk!ReplyToTicket(p, u, isAdmin)
        PROVE  Rest'
    <2>1. UNCHANGED <<status, newest, messageClock, author>> /\ status[u] \notin {Desk!NoTicket, "CLOSED"}
      BY <1>4 DEF Desk!ReplyToTicket
    <2>2. /\ reply[p] = Desk!Idle /\ \A q \in Repliers \ {p} : reply'[q] = reply[q]
          /\ reply'[p].pc = "add" /\ reply'[p].ticket = u
      BY <1>0, <1>4 DEF Desk!ReplyToTicket, Desk!TypeOK
    <2>3. \A t : Desk!Adding(t)' = Desk!Adding(t)
      BY <2>2 DEF Desk!Adding, Desk!Idle
    <2>4. \A q \in Repliers \ {p} : DeskRun(q)'
      BY <2>1, <2>2, <2>3, <1>0, DeskQuiet
    <2>5. DeskRun(p)'
      BY <2>1, <2>2 DEF DeskRun
    <2> QED
      BY <1>0, <2>1, <2>4, <2>5 DEF Desk!StatusTellsWhoIsWaitedFor
  <1>5. ASSUME NEW p \in Repliers, Desk!AddMessage(p) PROVE Rest'
    <2> DEFINE S == Desk!Adding(reply[p].ticket)
    <2>1. PICK b \in BOOLEAN : Adds(p, S, b)
      BY <1>5, Added
    <2>2. S \subseteq Repliers /\ \A q \in Repliers : q \in S <=> reply[q].pc = "commit" /\ reply[q].ticket = reply[p].ticket
      BY DEF Desk!Adding
    <2>3. /\ UNCHANGED <<status, newest, author>> /\ messageClock' = messageClock + 1
          /\ reply[p].pc = "add" /\ (b <=> S = {})
      BY <2>1 DEF Adds
    <2>4. reply[p] # Desk!Idle /\ \A q \in S : reply[q] # Desk!Idle
      BY <2>2, <2>3 DEF Desk!Idle
    <2>5. reply[p] \in Desk!RunState /\ \A q \in S : reply[q] \in Desk!RunState
      BY <1>0, <2>2, <2>4, Replying
    <2>6. /\ reply'[p] = [reply[p] EXCEPT !.pc = "commit", !.created = messageClock', !.alone = b]
          /\ \A q \in S : q # p => reply'[q] = [reply[q] EXCEPT !.alone = FALSE]
          /\ \A q \in Repliers \ {p} : q \notin S => reply'[q] = reply[q]
      BY <2>1, <2>2 DEF Adds
    <2>7. /\ reply'[p].pc = "commit" /\ reply'[p].ticket = reply[p].ticket /\ reply'[p].late = reply[p].late
          /\ reply'[p].created = messageClock' /\ (reply'[p].alone <=> b)
      BY <2>5, <2>6 DEF Desk!RunState
    <2>8. \A q \in S : q # p => /\ reply'[q].pc = "commit" /\ reply'[q].ticket = reply[q].ticket
                                /\ reply'[q].late = reply[q].late
                                /\ reply'[q].created = reply[q].created /\ ~reply'[q].alone
      <3> SUFFICES ASSUME NEW q \in S, q # p
                   PROVE  /\ reply'[q].pc = "commit" /\ reply'[q].ticket = reply[q].ticket
                          /\ reply'[q].late = reply[q].late
                          /\ reply'[q].created = reply[q].created /\ ~reply'[q].alone
        OBVIOUS
      <3>1. reply'[q] = [reply[q] EXCEPT !.alone = FALSE] /\ reply[q] \in Desk!RunState /\ reply[q].pc = "commit"
        BY <2>2, <2>5, <2>6
      <3> QED
        BY <3>1 DEF Desk!RunState
    <2> HIDE DEF S
    <2>9. p \notin S
      BY <2>2, <2>3
    <2>10. DeskRun(p)'
      <3>1. DeskRun(p) /\ reply[p].ticket \in Tickets
        BY <1>0, <2>4 DEF DeskRun
      <3>2. b => Desk!Adding(reply[p].ticket)' = {p}
        <4> SUFFICES ASSUME S = {} PROVE Desk!Adding(reply[p].ticket)' = {p}
          BY <2>3
        <4>1. \A q \in Repliers \ {p} : ~(reply'[q].pc = "commit" /\ reply'[q].ticket = reply[p].ticket)
          BY <2>2, <2>6
        <4> QED
          BY <2>7, <4>1 DEF Desk!Adding
      <3>3. newest'[reply[p].ticket].created <= messageClock'
        BY <1>0, <2>3, <3>1 DEF Desk!Message
      <3>4. reply'[p].created <= messageClock'
        BY <1>0, <2>7
      <3>5. status'[reply[p].ticket] # Desk!NoTicket /\ (status'[reply[p].ticket] = "CLOSED" => reply[p].late)
        BY <2>3, <2>4, <3>1 DEF DeskRun
      <3>6. reply'[p].late <=> reply[p].late
        BY <2>7
      <3>7. reply'[p].alone => Desk!Adding(reply[p].ticket)' = {p}
        BY <2>7, <3>2
      <3>8. newest'[reply[p].ticket].created <= reply'[p].created
        BY <2>7, <3>3
      <3> QED
        BY <2>7, <3>1, <3>4, <3>5, <3>6, <3>7, <3>8 DEF DeskRun
    <2>11. ASSUME NEW q \in S PROVE DeskRun(q)'
      <3>1. /\ DeskRun(q) /\ q \in Repliers /\ q # p /\ reply[q] # Desk!Idle /\ reply[q].pc = "commit"
            /\ reply[q] \in Desk!RunState
        BY <1>0, <2>2, <2>4, <2>5, <2>9
      <3>2. /\ reply[q].ticket \in Tickets /\ status[reply[q].ticket] # Desk!NoTicket
            /\ status[reply[q].ticket] = "CLOSED" => reply[q].late
            /\ reply[q].created <= messageClock
        BY <3>1 DEF DeskRun
      <3>3. reply[q].created <= messageClock' /\ ~reply'[q].alone
        BY <1>0, <2>3, <2>8, <3>1, <3>2 DEF Desk!RunState
      <3>4. /\ reply'[q].ticket = reply[q].ticket /\ reply'[q].created = reply[q].created
            /\ reply'[q].late <=> reply[q].late
        BY <2>8, <3>1
      <3> QED
        BY <2>3, <3>2, <3>3, <3>4 DEF DeskRun
    <2>12. ASSUME NEW q \in Repliers \ {p}, q \notin S PROVE DeskRun(q)'
      <3>1. reply'[q] = reply[q]
        BY <2>6, <2>12
      <3>2. reply[q] # Desk!Idle /\ reply[q].pc = "commit" =>
                Desk!Adding(reply[q].ticket)' = Desk!Adding(reply[q].ticket)
        <4> SUFFICES ASSUME reply[q].pc = "commit"
                     PROVE  Desk!Adding(reply[q].ticket)' = Desk!Adding(reply[q].ticket)
          OBVIOUS
        <4>1. reply[q].ticket # reply[p].ticket
          BY <2>2, <2>12
        <4>2. \A r \in Repliers : reply'[r].pc = "commit" /\ reply'[r].ticket = reply[q].ticket
                                     <=> reply[r].pc = "commit" /\ reply[r].ticket = reply[q].ticket
          BY <2>2, <2>3, <2>6, <2>7, <2>8, <4>1
        <4> QED
          BY <3>1, <4>2 DEF Desk!Adding
      <3>3. messageClock' >= messageClock
        BY <1>0, <2>3
      <3> QED
        BY <1>0, <2>3, <3>1, <3>2, <3>3, DeskQuiet
    <2>13. \A q \in Repliers : DeskRun(q)'
      BY <2>10, <2>11, <2>12
    <2>14. \A t \in Tickets : newest'[t].created <= messageClock'
      BY <1>0, <2>3 DEF Desk!Message
    <2> QED
      BY <1>0, <2>3, <2>13, <2>14 DEF Desk!StatusTellsWhoIsWaitedFor
  <1>6. ASSUME NEW p \in Repliers, Desk!CommitMessage(p) PROVE Rest'
    <2> DEFINE u == reply[p].ticket
               m == [created |-> reply[p].created, isAdmin |-> reply[p].isAdmin]
    <2>1. /\ reply[p].pc = "commit"
          /\ newest' = IF reply[p].created < newest[u].created THEN newest ELSE [newest EXCEPT ![u] = m]
          /\ status' = [status EXCEPT ![u] = Desk!Answered(reply[p].isAdmin)]
          /\ author' = [author EXCEPT ![u] = IF reply[p].alone THEN "reply" ELSE "crossing reply"]
          /\ reply' = [reply EXCEPT ![p] = Desk!Idle]
          /\ messageClock' = messageClock
      BY <1>6 DEF Desk!CommitMessage, Desk!Commit
    <2>2. reply[p] # Desk!Idle /\ DeskRun(p)
      <3>1. reply[p].pc = "commit"
        BY <2>1
      <3> QED
        BY <1>0, <3>1 DEF Desk!Idle
    <2>3. /\ reply[p] \in Desk!RunState /\ u \in Tickets
          /\ reply[p].created <= messageClock /\ reply[p].created \in Nat
          /\ reply[p].alone => Desk!Adding(u) = {p} /\ newest[u].created <= reply[p].created
      BY <1>0, <2>1, <2>2, Replying DEF DeskRun, Desk!RunState
    <2>4. /\ \A t \in Tickets \ {u} : newest'[t] = newest[t] /\ status'[t] = status[t] /\ author'[t] = author[t]
          /\ newest'[u] \in {newest[u], m} /\ (reply[p].created >= newest[u].created => newest'[u] = m)
          /\ status'[u] = Desk!Answered(reply[p].isAdmin)
      <3>1. u \in Tickets /\ reply[p].created \in Nat /\ newest[u].created \in Nat
        BY <1>0, <2>3 DEF Desk!Message
      <3> HIDE DEF u, m
      <3>2. /\ \A t \in Tickets \ {u} : status'[t] = status[t] /\ author'[t] = author[t]
            /\ status'[u] = Desk!Answered(reply[p].isAdmin)
        BY <1>0, <2>1, <3>1 DEF Desk!TypeOK
      <3>3. CASE reply[p].created < newest[u].created
        <4>1. newest' = newest
          BY <2>1, <3>3
        <4>2. ~(reply[p].created >= newest[u].created)
          BY <3>1, <3>3
        <4> QED
          BY <3>2, <4>1, <4>2
      <3>4. CASE ~(reply[p].created < newest[u].created)
        <4>1. newest' = [newest EXCEPT ![u] = m]
          BY <2>1, <3>4
        <4>2. \A t \in Tickets \ {u} : newest'[t] = newest[t]
          BY <1>0, <4>1 DEF Desk!TypeOK
        <4>3. newest'[u] = m
          BY <1>0, <3>1, <4>1 DEF Desk!TypeOK
        <4> QED
          BY <3>2, <4>2, <4>3
      <3> QED
        BY <3>3, <3>4
    <2>5. reply'[p] = Desk!Idle /\ \A q \in Repliers \ {p} : reply'[q] = reply[q]
      BY <1>0, <2>1 DEF Desk!TypeOK
    <2>6. \A t \in Tickets : newest'[t].created <= messageClock'
      <3>1. m.created <= messageClock
        BY <2>3
      <3> HIDE DEF m, u
      <3> QED
        BY <1>0, <2>1, <2>4, <3>1
    <2>7. Desk!Answered(reply[p].isAdmin) \in {"OPEN", "REPLIED"}
      BY DEF Desk!Answered
    <2>8. ASSUME NEW q \in Repliers \ {p} PROVE DeskRun(q)'
      <3> SUFFICES ASSUME reply[q] # Desk!Idle PROVE DeskRun(q)'
        BY <2>5 DEF DeskRun, Desk!Idle
      <3>1. DeskRun(q) /\ reply[q] \in Desk!RunState
        BY <1>0, Replying
      <3>2. /\ reply[q].ticket \in Tickets /\ status[reply[q].ticket] # Desk!NoTicket
            /\ status[reply[q].ticket] = "CLOSED" => reply[q].late
            /\ reply[q].pc = "commit" => reply[q].created <= messageClock
            /\ reply[q].pc = "commit" /\ reply[q].alone =>
                   Desk!Adding(reply[q].ticket) = {q} /\ newest[reply[q].ticket].created <= reply[q].created
        BY <3>1 DEF DeskRun
      <3>3. /\ status'[reply[q].ticket] # Desk!NoTicket
            /\ status'[reply[q].ticket] = "CLOSED" => reply[q].late
        BY <2>4, <2>7, <3>2 DEF Desk!NoTicket
      <3>4. reply[q].pc = "commit" /\ reply[q].alone =>
                Desk!Adding(reply[q].ticket)' = {q} /\ newest'[reply[q].ticket].created <= reply[q].created
        <4> SUFFICES ASSUME reply[q].pc = "commit", reply[q].alone
                     PROVE  Desk!Adding(reply[q].ticket)' = {q} /\ newest'[reply[q].ticket].created <= reply[q].created
          OBVIOUS
        <4>1. reply[q].ticket # u
          <5>1. p \in Desk!Adding(u)
            BY <2>1 DEF Desk!Adding
          <5> QED
            BY <3>2, <5>1
        <4>2. newest'[reply[q].ticket] = newest[reply[q].ticket]
          BY <2>4, <3>2, <4>1
        <4>3. \A r \in Repliers : reply'[r].pc = "commit" /\ reply'[r].ticket = reply[q].ticket
                                     <=> reply[r].pc = "commit" /\ reply[r].ticket = reply[q].ticket
          BY <2>5, <4>1 DEF Desk!Idle
        <4>4. Desk!Adding(reply[q].ticket)' = Desk!Adding(reply[q].ticket)
          BY <2>5, <4>3 DEF Desk!Adding
        <4> QED
          BY <3>2, <4>2, <4>4
      <3> HIDE DEF u, m
      <3> QED
        BY <2>1, <2>5, <3>2, <3>3, <3>4 DEF DeskRun
    <2>9. DeskRun(p)'
      BY <2>5 DEF DeskRun, Desk!Idle
    <2>10. \A t \in Tickets : author'[t] \in {"create", "reply"} => status'[t] = Desk!Answered(newest'[t].isAdmin)
      <3> SUFFICES ASSUME NEW t \in Tickets, author'[t] \in {"create", "reply"}
                   PROVE  status'[t] = Desk!Answered(newest'[t].isAdmin)
        OBVIOUS
      <3>1. CASE t = u
        <4>1. author'[u] = IF reply[p].alone THEN "reply" ELSE "crossing reply"
          BY <1>0, <2>1, <2>3 DEF Desk!TypeOK
        <4>2. reply[p].alone
          BY <3>1, <4>1
        <4>3. newest[u].created \in Nat
          BY <1>0, <2>3 DEF Desk!Message
        <4>4. newest'[u] = m
          BY <2>3, <2>4, <4>2, <4>3
        <4> QED
          BY <2>4, <3>1, <4>4
      <3>2. CASE t # u
        BY <1>0, <2>4, <3>2 DEF Desk!StatusTellsWhoIsWaitedFor, Desk!Answered
      <3> QED
        BY <3>1, <3>2
    <2> QED
      BY <2>6, <2>8, <2>9, <2>10 DEF Desk!StatusTellsWhoIsWaitedFor, Desk!Answered
  <1>7. ASSUME NEW p \in Repliers, Desk!ReplyFails(p) PROVE Rest'
    <2>1. /\ UNCHANGED <<status, newest, messageClock, author>>
          /\ reply'[p] = Desk!Idle /\ \A q \in Repliers \ {p} : reply'[q] = reply[q]
      BY <1>0, <1>7 DEF Desk!ReplyFails, Desk!TypeOK
    <2>2. ASSUME NEW q \in Repliers \ {p} PROVE DeskRun(q)'
      <3>1. reply[q] # Desk!Idle /\ reply[q].pc = "commit" /\ reply[q].alone =>
                Desk!Adding(reply[q].ticket)' = Desk!Adding(reply[q].ticket)
        <4> SUFFICES ASSUME reply[q] # Desk!Idle, reply[q].pc = "commit", reply[q].alone
                     PROVE  Desk!Adding(reply[q].ticket)' = Desk!Adding(reply[q].ticket)
          OBVIOUS
        <4>1. Desk!Adding(reply[q].ticket) = {q}
          BY <1>0 DEF DeskRun
        <4>2. \A r \in Repliers : reply'[r].pc = "commit" /\ reply'[r].ticket = reply[q].ticket
                                     <=> reply[r].pc = "commit" /\ reply[r].ticket = reply[q].ticket
          <5>1. ~(reply[p].pc = "commit" /\ reply[p].ticket = reply[q].ticket)
            BY <4>1 DEF Desk!Adding
          <5> QED
            BY <2>1, <5>1 DEF Desk!Idle
        <4> QED
          BY <2>1, <4>2 DEF Desk!Adding
      <3> QED
        BY <1>0, <2>1, <3>1, DeskQuiet
    <2>3. DeskRun(p)'
      BY <2>1 DEF DeskRun, Desk!Idle
    <2> QED
      BY <1>0, <2>1, <2>2, <2>3 DEF Desk!StatusTellsWhoIsWaitedFor
  <1>8. Rest'
    BY <1>1, <1>2, <1>3, <1>4, <1>5, <1>6, <1>7 DEF Desk!Next
  <1> QED
    BY <1>0, <1>8 DEF DeskInv

\* What opens a closed ticket.
LEMMA DeskOpens == DeskInv /\ Desk!Next => Desk!OpenedOnlyByAdminOrLateReply
  <1> SUFFICES ASSUME DeskInv, Desk!Next, NEW t \in Tickets, status[t] = "CLOSED", status'[t] # "CLOSED"
               PROVE  author'[t] = "reopen" \/ \E p \in Desk!Adding(t) : reply'[p] = Desk!Idle /\ reply[p].late
    BY DEF Desk!OpenedOnlyByAdminOrLateReply
  <1>0. Desk!TypeOK
    BY DEF DeskInv
  <1>1. ASSUME NEW u \in Tickets, Desk!CreateTicket(u) PROVE FALSE
    BY <1>0, <1>1 DEF Desk!CreateTicket, Desk!TypeOK, Desk!NoTicket
  <1>2. ASSUME NEW u \in Tickets, Desk!CloseTicket(u) PROVE FALSE
    <2>1. status' = [status EXCEPT ![u] = "CLOSED"]
      BY <1>2 DEF Desk!CloseTicket
    <2> QED
      BY <1>0, <2>1 DEF Desk!TypeOK
  <1>3. ASSUME NEW u \in Tickets, Desk!ReopenTicket(u) PROVE author'[t] = "reopen"
    BY <1>0, <1>3 DEF Desk!ReopenTicket, Desk!TypeOK
  <1>4. ASSUME NEW p \in Repliers, Desk!AddMessage(p) PROVE FALSE
    <2>1. status' = status
      BY <1>4, Zenon DEF Desk!AddMessage
    <2> QED
      BY <2>1
  <1>5. ASSUME NEW p \in Repliers, Desk!CommitMessage(p)
        PROVE  p \in Desk!Adding(t) /\ reply'[p] = Desk!Idle /\ reply[p].late
    <2>1. /\ reply[p].pc = "commit" /\ reply' = [reply EXCEPT ![p] = Desk!Idle]
          /\ status' = [status EXCEPT ![reply[p].ticket] = Desk!Answered(reply[p].isAdmin)]
      BY <1>5 DEF Desk!CommitMessage, Desk!Commit
    <2>2. reply[p].ticket = t
      BY <1>0, <2>1 DEF Desk!TypeOK
    <2>3. reply[p] # Desk!Idle /\ DeskRun(p)
      BY <2>1 DEF Desk!Idle, DeskInv
    <2> QED
      BY <1>0, <2>1, <2>2, <2>3 DEF DeskRun, Desk!Adding, Desk!TypeOK
  <1> QED
    BY <1>1, <1>2, <1>3, <1>4, <1>5 DEF Desk!Next, Desk!ReplyToTicket, Desk!ReplyFails

-------------------------------------------------------------------------------
(* Rewards *)

\* The rewards of u at one of the calls pcs, of runs f.
Giving(f, u, pcs) == {p \in Givers : f[p].pc \in pcs /\ f[p].user = u}
One(b) == IF b THEN 1 ELSE 0

LEMMA GivingCounts ==
    ASSUME NEW f, NEW u, NEW pcs
    PROVE  IsFiniteSet(Giving(f, u, pcs)) /\ Cardinality(Giving(f, u, pcs)) \in Nat
  BY FiniteAssumption, FS_Subset, FS_CardinalityType DEF Giving

\* When p goes on, it alone is counted or no longer counted.
LEMMA GivingMoves ==
    ASSUME NEW f, NEW g, NEW p \in Givers, \A q \in Givers \ {p} : g[q] = f[q], NEW u, NEW pcs
    PROVE  Cardinality(Giving(g, u, pcs)) + One(p \in Giving(f, u, pcs)) =
           Cardinality(Giving(f, u, pcs)) + One(p \in Giving(g, u, pcs))
  <1> DEFINE S == Giving(f, u, pcs) \ {p}
  <1>1. S = Giving(g, u, pcs) \ {p}
    BY DEF Giving
  <1>2. IsFiniteSet(S) /\ p \notin S /\ Cardinality(S) \in Nat
    BY GivingCounts, FS_Subset, FS_CardinalityType
  <1>3. Cardinality(S \cup {p}) = Cardinality(S) + 1
    BY <1>2, FS_AddElement
  <1>4. \A T : T \ {p} = S => Cardinality(T) = Cardinality(S) + One(p \in T)
    <2> SUFFICES ASSUME NEW T, T \ {p} = S PROVE Cardinality(T) = Cardinality(S) + One(p \in T)
      OBVIOUS
    <2>1. CASE p \in T
      <3>1. T = S \cup {p}
        BY <2>1
      <3> QED
        BY <1>3, <2>1, <3>1 DEF One
    <2>2. CASE p \notin T
      <3>1. T = S
        BY <2>2
      <3> QED
        BY <1>2, <2>2, <3>1 DEF One
    <2> QED
      BY <2>1, <2>2
  <1> HIDE DEF S
  <1>5. /\ Cardinality(Giving(f, u, pcs)) = Cardinality(S) + One(p \in Giving(f, u, pcs))
        /\ Cardinality(Giving(g, u, pcs)) = Cardinality(S) + One(p \in Giving(g, u, pcs))
    BY <1>1, <1>4 DEF S
  <1>6. One(p \in Giving(f, u, pcs)) \in Nat /\ One(p \in Giving(g, u, pcs)) \in Nat
    BY DEF One
  <1> QED
    BY <1>2, <1>5, <1>6

\* The rewards of a user in progress after the credit, and at each call.
Credited(f, u) == Cardinality(Giving(f, u, {"entry", "notify"}))
Booking(f, u) == Cardinality(Giving(f, u, {"entry"}))
Telling(f, u) == Cardinality(Giving(f, u, {"notify"}))

\* A reward finds a wallet before it is credited, and wallets stay.
RewardRun(p) == reward[p].pc \in {"credit", "entry", "notify"} => wallet[reward[p].user]

RewardInv ==
    /\ Reward!TypeOK
    /\ \A p \in Givers : RewardRun(p)
    /\ \A u \in Rewarded :
           /\ credits[u] = answered[u] + unanswered[u] + Credited(reward, u)
           /\ entries[u] + Booking(reward, u) <= credits[u]
           /\ unread[u] + read[u] = answered[u]
           /\ answered[u] + Telling(reward, u) <= entries[u]
           /\ credits[u] > 0 => wallet[u]

LEMMA RewardMeans == RewardInv => Reward!RewardsAreBooked
  <1> SUFFICES ASSUME RewardInv, NEW u \in Rewarded
               PROVE  /\ credits[u] = answered[u] + unanswered[u] + Reward!InProgress(u, {"entry", "notify"})
                      /\ entries[u] <= credits[u] - Reward!InProgress(u, {"entry"})
                      /\ unread[u] + read[u] = answered[u]
                      /\ answered[u] + Reward!InProgress(u, {"notify"}) <= entries[u]
                      /\ credits[u] > 0 => wallet[u]
    BY DEF Reward!RewardsAreBooked
  <1>1. /\ Reward!InProgress(u, {"entry", "notify"}) = Credited(reward, u)
        /\ Reward!InProgress(u, {"entry"}) = Booking(reward, u)
        /\ Reward!InProgress(u, {"notify"}) = Telling(reward, u)
    BY SameCardinality DEF Reward!InProgress, Giving, Credited, Booking, Telling
  <1>2. Booking(reward, u) \in Nat
    BY GivingCounts DEF Booking
  <1>3. entries[u] \in Nat /\ credits[u] \in Nat
    BY DEF RewardInv, Reward!TypeOK
  <1> QED
    BY <1>1, <1>2, <1>3 DEF RewardInv

LEMMA RewardInit == Reward!Init => RewardInv
  <1> SUFFICES ASSUME Reward!Init PROVE RewardInv
    OBVIOUS
  <1>1. Reward!TypeOK
    BY DEF Reward!Init, Reward!TypeOK, Reward!None
  <1>2. \A u \in Rewarded, pcs \in SUBSET {"entry", "notify"} : Giving(reward, u, pcs) = {}
    BY DEF Reward!Init, Reward!Idle, Giving
  <1>3. \A u \in Rewarded : Credited(reward, u) = 0 /\ Booking(reward, u) = 0 /\ Telling(reward, u) = 0
    BY <1>2, FS_EmptySet DEF Credited, Booking, Telling
  <1> QED
    BY <1>1, <1>3 DEF Reward!Init, Reward!None, Reward!Idle, RewardInv, RewardRun

\* What a step of p adds to the counts of user u, from the calls it leaves and
\* comes to.
LEMMA RewardCounts ==
    ASSUME NEW f, NEW g, NEW p \in Givers, \A q \in Givers \ {p} : g[q] = f[q], NEW u
    PROVE  /\ Credited(f, u) \in Nat /\ Credited(g, u) \in Nat
           /\ Booking(f, u) \in Nat /\ Booking(g, u) \in Nat
           /\ Telling(f, u) \in Nat /\ Telling(g, u) \in Nat
           /\ Credited(g, u) + One(f[p].pc \in {"entry", "notify"} /\ f[p].user = u) =
              Credited(f, u) + One(g[p].pc \in {"entry", "notify"} /\ g[p].user = u)
           /\ Booking(g, u) + One(f[p].pc = "entry" /\ f[p].user = u) =
              Booking(f, u) + One(g[p].pc = "entry" /\ g[p].user = u)
           /\ Telling(g, u) + One(f[p].pc = "notify" /\ f[p].user = u) =
              Telling(f, u) + One(g[p].pc = "notify" /\ g[p].user = u)
  <1>1. \A h, pcs : p \in Giving(h, u, pcs) <=> h[p].pc \in pcs /\ h[p].user = u
    BY DEF Giving
  <1>2. ASSUME NEW pcs
        PROVE  Cardinality(Giving(g, u, pcs)) + One(f[p].pc \in pcs /\ f[p].user = u) =
               Cardinality(Giving(f, u, pcs)) + One(g[p].pc \in pcs /\ g[p].user = u)
    BY <1>1, GivingMoves DEF One
  <1>3. Credited(g, u) + One(f[p].pc \in {"entry", "notify"} /\ f[p].user = u) =
        Credited(f, u) + One(g[p].pc \in {"entry", "notify"} /\ g[p].user = u)
    BY <1>2 DEF Credited
  <1>4. Booking(g, u) + One(f[p].pc = "entry" /\ f[p].user = u) =
        Booking(f, u) + One(g[p].pc = "entry" /\ g[p].user = u)
    BY <1>2 DEF Booking, One
  <1>5. Telling(g, u) + One(f[p].pc = "notify" /\ f[p].user = u) =
        Telling(f, u) + One(g[p].pc = "notify" /\ g[p].user = u)
    BY <1>2 DEF Telling, One
  <1> QED
    BY <1>3, <1>4, <1>5, GivingCounts DEF Credited, Booking, Telling

\* A step of p that is not after the credit, before and after, counts nothing.
LEMMA RewardUncounted ==
    ASSUME NEW f, NEW g, NEW p \in Givers, \A q \in Givers \ {p} : g[q] = f[q], NEW u,
           f[p].pc \notin {"entry", "notify"}, g[p].pc \notin {"entry", "notify"}
    PROVE  Credited(g, u) = Credited(f, u) /\ Booking(g, u) = Booking(f, u) /\ Telling(g, u) = Telling(f, u)
  BY RewardCounts DEF One

LEMMA Giving1 ==
    ASSUME Reward!TypeOK, NEW p \in Givers, reward[p] # Reward!Idle
    PROVE  reward[p] \in Reward!RunState /\ reward[p].user \in Rewarded
  BY DEF Reward!TypeOK, Reward!RunState

\* A run that goes on to another call, or ends, of a reward of u.
LEMMA RewardGoes ==
    ASSUME Reward!TypeOK, NEW p \in Givers, NEW pc \in {"wallet", "create", "credit", "entry", "notify"},
           reward[p] # Reward!Idle, Reward!Goto(p, pc)
    PROVE  /\ \A q \in Givers \ {p} : reward'[q] = reward[q]
           /\ reward'[p].pc = pc /\ reward'[p].user = reward[p].user
           /\ reward' \in [Givers -> Reward!RunState \cup {Reward!Idle}]
  BY Giving1 DEF Reward!Goto, Reward!TypeOK, Reward!RunState

LEMMA RewardEnds ==
    ASSUME Reward!TypeOK, NEW p \in Givers, Reward!End(p)
    PROVE  /\ \A q \in Givers \ {p} : reward'[q] = reward[q]
           /\ reward'[p] = Reward!Idle
           /\ reward' \in [Givers -> Reward!RunState \cup {Reward!Idle}]
  BY DEF Reward!End, Reward!TypeOK

\* What a counter of rewards becomes.
LEMMA OnceMore ==
    ASSUME NEW f \in [Rewarded -> Nat], NEW u \in Rewarded
    PROVE  /\ Reward!Once(f, u) \in [Rewarded -> Nat]
           /\ \A v \in Rewarded : Reward!Once(f, u)[v] = f[v] + One(v = u)
  BY DEF Reward!Once, One

LEMMA RewardNext == RewardInv /\ Reward!Next => RewardInv'
  <1> SUFFICES ASSUME RewardInv, Reward!Next PROVE RewardInv'
    OBVIOUS
  <1> DEFINE Sums(c, e, n, o, a, t, f) ==
                 \A u \in Rewarded :
                     /\ c[u] = a[u] + t[u] + Credited(f, u)
                     /\ e[u] + Booking(f, u) <= c[u]
                     /\ n[u] + o[u] = a[u]
                     /\ a[u] + Telling(f, u) <= e[u]
             Typed == /\ wallet \in [Rewarded -> BOOLEAN]
                      /\ credits \in [Rewarded -> Nat] /\ entries \in [Rewarded -> Nat]
                      /\ unread \in [Rewarded -> Nat] /\ read \in [Rewarded -> Nat]
                      /\ answered \in [Rewarded -> Nat] /\ unanswered \in [Rewarded -> Nat]
                      /\ rewardCalls \in Nat /\ rewardFailures \in Nat
             Runs == reward \in [Givers -> Reward!RunState \cup {Reward!Idle}]
             Ready == /\ \A p \in Givers : RewardRun(p)
                      /\ \A u \in Rewarded : credits[u] > 0 => wallet[u]
             Booked == Sums(credits, entries, unread, read, answered, unanswered, reward)
  <1>0. Typed /\ Runs /\ Ready /\ Booked /\ Reward!TypeOK
    BY DEF RewardInv, Reward!TypeOK
  <1>1. ASSUME NEW p \in Givers, NEW v \in Rewarded, Reward!GiveReward(p, v)
        PROVE  Typed' /\ Runs' /\ Ready' /\ Booked'
    <2>1. /\ reward[p] = Reward!Idle /\ reward' = [reward EXCEPT ![p] = [pc |-> "wallet", user |-> v]]
          /\ UNCHANGED <<wallet, credits, entries, unread, read, rewardFailures, answered, unanswered>>
          /\ rewardCalls' \in Nat
      BY <1>0, <1>1 DEF Reward!GiveReward, Reward!books, Reward!notifications, Reward!Call
    <2>2. [pc |-> "wallet", user |-> v] \in Reward!RunState
      BY DEF Reward!RunState
    <2>3. /\ Runs' /\ reward'[p] = [pc |-> "wallet", user |-> v]
          /\ \A q \in Givers \ {p} : reward'[q] = reward[q]
      BY <1>0, <2>1, <2>2
    <2>4. Ready'
      BY <1>0, <2>1, <2>3 DEF RewardRun
    <2>5. \A u \in Rewarded : /\ Credited(reward', u) = Credited(reward, u)
                              /\ Booking(reward', u) = Booking(reward, u)
                              /\ Telling(reward', u) = Telling(reward, u)
      <3>1. reward[p].pc = "idle" /\ reward'[p].pc = "wallet"
        BY <2>1, <2>3 DEF Reward!Idle
      <3> QED
        BY <2>3, <3>1, RewardUncounted
    <2>6. Booked'
      BY <1>0, <2>1, <2>5
    <2> QED
      BY <1>0, <2>1, <2>3, <2>4, <2>6
  <1>2. ASSUME NEW p \in Givers, Reward!FindWallet(p) PROVE Typed' /\ Runs' /\ Ready' /\ Booked'
    <2>1. /\ reward[p].pc = "wallet"
          /\ Reward!Goto(p, IF wallet[reward[p].user] THEN "credit" ELSE "create")
          /\ UNCHANGED <<wallet, credits, entries, unread, read, rewardCalls, rewardFailures, answered, unanswered>>
      BY <1>2 DEF Reward!FindWallet, Reward!books, Reward!notifications, Reward!counters, Reward!At
    <2>2. PICK pc \in {"credit", "create"} :
              Reward!Goto(p, pc) /\ (pc = "credit" => wallet[reward[p].user])
      BY <2>1
    <2>3. reward[p] # Reward!Idle
      BY <2>1 DEF Reward!Idle
    <2>4. /\ \A q \in Givers \ {p} : reward'[q] = reward[q]
          /\ reward'[p].pc = pc /\ reward'[p].user = reward[p].user /\ Runs'
      BY <1>0, <2>2, <2>3, RewardGoes
    <2>5. Ready'
      BY <1>0, <2>1, <2>2, <2>4 DEF RewardRun
    <2>6. \A u \in Rewarded : /\ Credited(reward', u) = Credited(reward, u)
                              /\ Booking(reward', u) = Booking(reward, u)
                              /\ Telling(reward', u) = Telling(reward, u)
      BY <2>1, <2>2, <2>4, RewardCounts DEF One
    <2>7. Booked'
      BY <1>0, <2>1, <2>6
    <2> QED
      BY <1>0, <2>1, <2>4, <2>5, <2>7
  <1>3. ASSUME NEW p \in Givers, Reward!CreateWallet(p) PROVE Typed' /\ Runs' /\ Ready' /\ Booked'
    <2>1. /\ reward[p].pc = "create" /\ wallet' = [wallet EXCEPT ![reward[p].user] = TRUE]
          /\ Reward!End(p) \/ Reward!Goto(p, "credit")
          /\ UNCHANGED <<credits, entries, unread, read, rewardCalls, rewardFailures, answered, unanswered>>
      BY <1>3 DEF Reward!CreateWallet, Reward!notifications, Reward!counters, Reward!At
    <2>2. reward[p] # Reward!Idle
      BY <2>1 DEF Reward!Idle
    <2>3. /\ \A q \in Givers \ {p} : reward'[q] = reward[q]
          /\ Runs' /\ reward'[p].pc \in {"idle", "credit"}
          /\ reward'[p].pc = "credit" => reward'[p].user = reward[p].user
      BY <1>0, <2>1, <2>2, RewardGoes, RewardEnds DEF Reward!Idle
    <2>4. reward[p].user \in Rewarded
      BY <1>0, <2>2, Giving1
    <2>5. wallet' \in [Rewarded -> BOOLEAN] /\ wallet'[reward[p].user]
      BY <1>0, <2>1, <2>4
    <2>6. \A u \in Rewarded : wallet[u] => wallet'[u]
      BY <1>0, <2>1, <2>4
    <2>7. Ready'
      <3>1. \A u \in Rewarded : credits'[u] > 0 => wallet'[u]
        BY <1>0, <2>1, <2>6
      <3>2. RewardRun(p)'
        BY <2>3, <2>5 DEF RewardRun
      <3>3. ASSUME NEW q \in Givers \ {p} PROVE RewardRun(q)'
        <4> SUFFICES ASSUME reward[q].pc \in {"credit", "entry", "notify"} PROVE wallet'[reward[q].user]
          BY <2>3 DEF RewardRun
        <4>1. reward[q].user \in Rewarded
          BY <1>0, Giving1 DEF Reward!Idle
        <4> QED
          BY <1>0, <2>6, <4>1 DEF RewardRun
      <3> QED
        BY <3>1, <3>2, <3>3
    <2>8. \A u \in Rewarded : /\ Credited(reward', u) = Credited(reward, u)
                              /\ Booking(reward', u) = Booking(reward, u)
                              /\ Telling(reward', u) = Telling(reward, u)
      BY <2>1, <2>3, RewardCounts DEF One
    <2>9. Booked'
      BY <1>0, <2>1, <2>8
    <2> QED
      BY <1>0, <2>1, <2>3, <2>5, <2>7, <2>9
  <1>4. ASSUME NEW p \in Givers, Reward!CreditWallet(p) PROVE Typed' /\ Runs' /\ Ready' /\ Booked'
    <2> DEFINE v == reward[p].user
    <2>1. /\ reward[p].pc = "credit" /\ credits' = Reward!Once(credits, v) /\ Reward!Goto(p, "entry")
          /\ UNCHANGED <<wallet, entries, unread, read, rewardCalls, rewardFailures, answered, unanswered>>
      BY <1>4 DEF Reward!CreditWallet, Reward!notifications, Reward!counters, Reward!At
    <2>2. reward[p] # Reward!Idle
      BY <2>1 DEF Reward!Idle
    <2>3. /\ \A q \in Givers \ {p} : reward'[q] = reward[q]
          /\ Runs' /\ reward'[p].pc = "entry" /\ reward'[p].user = v
      BY <1>0, <2>1, <2>2, RewardGoes
    <2>4. v \in Rewarded /\ wallet[v]
      BY <1>0, <2>1, <2>2, Giving1 DEF RewardRun
    <2>5. credits' \in [Rewarded -> Nat] /\ \A u \in Rewarded : credits'[u] = credits[u] + One(u = v)
      BY <1>0, <2>1, <2>4, OnceMore
    <2>6. Ready'
      BY <1>0, <2>1, <2>3, <2>4, <2>5 DEF RewardRun, One
    <2>7. \A u \in Rewarded : /\ Credited(reward', u) = Credited(reward, u) + One(u = v)
                              /\ Booking(reward', u) = Booking(reward, u) + One(u = v)
                              /\ Telling(reward', u) = Telling(reward, u)
                              /\ Credited(reward, u) \in Nat /\ Booking(reward, u) \in Nat
                              /\ Telling(reward, u) \in Nat
      BY <2>1, <2>3, RewardCounts DEF One
    <2> HIDE DEF v
    <2>8. Booked'
      <3> SUFFICES ASSUME NEW u \in Rewarded
                   PROVE  /\ credits'[u] = answered'[u] + unanswered'[u] + Credited(reward', u)
                          /\ entries'[u] + Booking(reward', u) <= credits'[u]
                          /\ unread'[u] + read'[u] = answered'[u]
                          /\ answered'[u] + Telling(reward', u) <= entries'[u]
        OBVIOUS
      <3>1. /\ credits[u] = answered[u] + unanswered[u] + Credited(reward, u)
            /\ entries[u] + Booking(reward, u) <= credits[u]
            /\ unread[u] + read[u] = answered[u]
            /\ answered[u] + Telling(reward, u) <= entries[u]
            /\ credits[u] \in Nat /\ entries[u] \in Nat /\ unread[u] \in Nat /\ read[u] \in Nat
            /\ answered[u] \in Nat /\ unanswered[u] \in Nat /\ One(u = v) \in Nat
        BY <1>0 DEF One
      <3> QED
        BY <2>1, <2>5, <2>7, <3>1
    <2> QED
      BY <1>0, <2>1, <2>3, <2>5, <2>6, <2>8
  <1>5. ASSUME NEW p \in Givers, Reward!CreateEntry(p) PROVE Typed' /\ Runs' /\ Ready' /\ Booked'
    <2> DEFINE v == reward[p].user
    <2>1. /\ reward[p].pc = "entry" /\ entries' = Reward!Once(entries, v) /\ Reward!Goto(p, "notify")
          /\ UNCHANGED <<wallet, credits, unread, read, rewardCalls, rewardFailures, answered, unanswered>>
      BY <1>5 DEF Reward!CreateEntry, Reward!notifications, Reward!counters, Reward!At
    <2>2. reward[p] # Reward!Idle
      BY <2>1 DEF Reward!Idle
    <2>3. /\ \A q \in Givers \ {p} : reward'[q] = reward[q]
          /\ Runs' /\ reward'[p].pc = "notify" /\ reward'[p].user = v
      BY <1>0, <2>1, <2>2, RewardGoes
    <2>4. v \in Rewarded /\ wallet[v]
      BY <1>0, <2>1, <2>2, Giving1 DEF RewardRun
    <2>5. entries' \in [Rewarded -> Nat] /\ \A u \in Rewarded : entries'[u] = entries[u] + One(u = v)
      BY <1>0, <2>1, <2>4, OnceMore
    <2>6. Ready'
      BY <1>0, <2>1, <2>3, <2>4 DEF RewardRun
    <2>7. \A u \in Rewarded : /\ Credited(reward', u) = Credited(reward, u)
                              /\ Booking(reward', u) + One(u = v) = Booking(reward, u)
                              /\ Telling(reward', u) = Telling(reward, u) + One(u = v)
                              /\ Credited(reward, u) \in Nat /\ Booking(reward', u) \in Nat
                              /\ Booking(reward, u) \in Nat /\ Telling(reward, u) \in Nat
      <3> SUFFICES ASSUME NEW u \in Rewarded
                   PROVE  /\ Credited(reward', u) = Credited(reward, u)
                          /\ Booking(reward', u) + One(u = v) = Booking(reward, u)
                          /\ Telling(reward', u) = Telling(reward, u) + One(u = v)
                          /\ Credited(reward, u) \in Nat /\ Booking(reward', u) \in Nat
                          /\ Booking(reward, u) \in Nat /\ Telling(reward, u) \in Nat
        OBVIOUS
      <3>1. /\ Credited(reward, u) \in Nat /\ Credited(reward', u) \in Nat
            /\ Booking(reward, u) \in Nat /\ Booking(reward', u) \in Nat
            /\ Telling(reward, u) \in Nat /\ Telling(reward', u) \in Nat
            /\ Credited(reward', u) + One(v = u) = Credited(reward, u) + One(v = u)
            /\ Booking(reward', u) + One(v = u) = Booking(reward, u)
            /\ Telling(reward', u) = Telling(reward, u) + One(v = u)
        BY <2>1, <2>3, RewardCounts DEF One
      <3> QED
        BY <3>1 DEF One
    <2> HIDE DEF v
    <2>8. Booked'
      <3> SUFFICES ASSUME NEW u \in Rewarded
                   PROVE  /\ credits'[u] = answered'[u] + unanswered'[u] + Credited(reward', u)
                          /\ entries'[u] + Booking(reward', u) <= credits'[u]
                          /\ unread'[u] + read'[u] = answered'[u]
                          /\ answered'[u] + Telling(reward', u) <= entries'[u]
        OBVIOUS
      <3>1. /\ credits[u] = answered[u] + unanswered[u] + Credited(reward, u)
            /\ entries[u] + Booking(reward, u) <= credits[u]
            /\ unread[u] + read[u] = answered[u]
            /\ answered[u] + Telling(reward, u) <= entries[u]
            /\ credits[u] \in Nat /\ entries[u] \in Nat /\ unread[u] \in Nat /\ read[u] \in Nat
            /\ answered[u] \in Nat /\ unanswered[u] \in Nat /\ One(u = v) \in Nat
        BY <1>0 DEF One
      <3> QED
        BY <2>1, <2>5, <2>7, <3>1
    <2> QED
      BY <1>0, <2>1, <2>3, <2>5, <2>6, <2>8
  <1>6. ASSUME NEW p \in Givers, Reward!SendToUser(p) PROVE Typed' /\ Runs' /\ Ready' /\ Booked'
    <2> DEFINE v == reward[p].user
    <2>1. /\ reward[p].pc = "notify" /\ unread' = Reward!Once(unread, v)
          /\ answered' = Reward!Once(answered, v) /\ Reward!End(p)
          /\ UNCHANGED <<wallet, credits, entries, read, rewardCalls, rewardFailures, unanswered>>
      BY <1>6 DEF Reward!SendToUser, Reward!books, Reward!counters, Reward!At
    <2>2. reward[p] # Reward!Idle
      BY <2>1 DEF Reward!Idle
    <2>3. /\ \A q \in Givers \ {p} : reward'[q] = reward[q]
          /\ Runs' /\ reward'[p].pc = "idle"
      BY <1>0, <2>1, RewardEnds DEF Reward!Idle
    <2>4. v \in Rewarded
      BY <1>0, <2>2, Giving1
    <2>5. /\ unread' \in [Rewarded -> Nat] /\ \A u \in Rewarded : unread'[u] = unread[u] + One(u = v)
          /\ answered' \in [Rewarded -> Nat] /\ \A u \in Rewarded : answered'[u] = answered[u] + One(u = v)
      BY <1>0, <2>1, <2>4, OnceMore
    <2>6. Ready'
      BY <1>0, <2>1, <2>3 DEF RewardRun
    <2>7. \A u \in Rewarded : /\ Credited(reward', u) + One(u = v) = Credited(reward, u)
                              /\ Booking(reward', u) = Booking(reward, u)
                              /\ Telling(reward', u) + One(u = v) = Telling(reward, u)
                              /\ Credited(reward', u) \in Nat /\ Booking(reward, u) \in Nat
                              /\ Telling(reward', u) \in Nat
      BY <2>1, <2>3, RewardCounts DEF One
    <2> HIDE DEF v
    <2>8. Booked'
      <3> SUFFICES ASSUME NEW u \in Rewarded
                   PROVE  /\ credits'[u] = answered'[u] + unanswered'[u] + Credited(reward', u)
                          /\ entries'[u] + Booking(reward', u) <= credits'[u]
                          /\ unread'[u] + read'[u] = answered'[u]
                          /\ answered'[u] + Telling(reward', u) <= entries'[u]
        OBVIOUS
      <3>1. /\ credits[u] = answered[u] + unanswered[u] + Credited(reward, u)
            /\ entries[u] + Booking(reward, u) <= credits[u]
            /\ unread[u] + read[u] = answered[u]
            /\ answered[u] + Telling(reward, u) <= entries[u]
            /\ credits[u] \in Nat /\ entries[u] \in Nat /\ unread[u] \in Nat /\ read[u] \in Nat
            /\ answered[u] \in Nat /\ unanswered[u] \in Nat /\ One(u = v) \in Nat
        BY <1>0 DEF One
      <3> QED
        BY <2>1, <2>5, <2>7, <3>1
    <2> QED
      BY <1>0, <2>1, <2>3, <2>5, <2>6, <2>8
  <1>7. ASSUME NEW p \in Givers, Reward!Fails(p) PROVE Typed' /\ Runs' /\ Ready' /\ Booked'
    <2> DEFINE v == reward[p].user
               after == reward[p].pc \in {"entry", "notify"}
    <2>1. /\ reward[p] # Reward!Idle /\ rewardFailures' = rewardFailures + 1
          /\ unanswered' = (IF after THEN Reward!Once(unanswered, v) ELSE unanswered) /\ Reward!End(p)
          /\ UNCHANGED <<wallet, credits, entries, unread, read, rewardCalls, answered>>
      BY <1>7 DEF Reward!Fails, Reward!books, Reward!notifications
    <2>2. /\ \A q \in Givers \ {p} : reward'[q] = reward[q]
          /\ Runs' /\ reward'[p].pc = "idle"
      BY <1>0, <2>1, RewardEnds DEF Reward!Idle
    <2>3. v \in Rewarded
      BY <1>0, <2>1, Giving1
    <2>4. /\ unanswered' \in [Rewarded -> Nat]
          /\ \A u \in Rewarded : unanswered'[u] = unanswered[u] + One(after /\ u = v)
      <3>1. CASE after
        BY <1>0, <2>1, <2>3, <3>1, OnceMore DEF One
      <3>2. CASE ~after
        BY <1>0, <2>1, <3>2 DEF One
      <3> QED
        BY <3>1, <3>2
    <2>5. Ready'
      BY <1>0, <2>1, <2>2 DEF RewardRun
    <2>6. \A u \in Rewarded : /\ Credited(reward', u) + One(after /\ u = v) = Credited(reward, u)
                              /\ Booking(reward', u) <= Booking(reward, u)
                              /\ Telling(reward', u) <= Telling(reward, u)
                              /\ Credited(reward', u) \in Nat
                              /\ Booking(reward', u) \in Nat /\ Booking(reward, u) \in Nat
                              /\ Telling(reward', u) \in Nat /\ Telling(reward, u) \in Nat
      BY <2>1, <2>2, RewardCounts DEF One
    <2> HIDE DEF v, after
    <2>7. Booked'
      BY <1>0, <2>1, <2>4, <2>6 DEF One
    <2>8. rewardFailures' \in Nat
      BY <1>0, <2>1
    <2> QED
      BY <1>0, <2>1, <2>2, <2>4, <2>5, <2>7, <2>8
  <1>8. ASSUME NEW v \in Rewarded, Reward!MarkAsRead(v) \/ Reward!MarkAllAsRead(v)
        PROVE  Typed' /\ Runs' /\ Ready' /\ Booked'
    <2>1. /\ unread[v] > 0
          /\ UNCHANGED <<wallet, credits, entries, reward, rewardCalls, rewardFailures, answered, unanswered>>
          /\ \E n \in 1..unread[v] : /\ unread' = [unread EXCEPT ![v] = @ - n]
                                     /\ read' = [read EXCEPT ![v] = @ + n]
      <3>1. CASE Reward!MarkAsRead(v)
        <4>1. 1 \in 1..unread[v]
          BY <1>0, <3>1 DEF Reward!MarkAsRead
        <4> QED
          BY <3>1, <4>1 DEF Reward!MarkAsRead, Reward!Once, Reward!books, Reward!counters
      <3>2. CASE Reward!MarkAllAsRead(v)
        <4>1. unread[v] \in 1..unread[v] /\ 0 = unread[v] - unread[v]
          BY <1>0, <3>2 DEF Reward!MarkAllAsRead
        <4> QED
          BY <3>2, <4>1 DEF Reward!MarkAllAsRead, Reward!books, Reward!counters
      <3> QED
        BY <1>8, <3>1, <3>2
    <2>2. PICK n \in 1..unread[v] : /\ unread' = [unread EXCEPT ![v] = @ - n]
                                    /\ read' = [read EXCEPT ![v] = @ + n]
      BY <2>1
    <2>3. unread' \in [Rewarded -> Nat] /\ read' \in [Rewarded -> Nat]
      BY <1>0, <2>2
    <2>4. \A u \in Rewarded : unread'[u] + read'[u] = unread[u] + read[u]
      BY <1>0, <2>2
    <2>5. Booked'
      BY <1>0, <2>1, <2>4
    <2> QED
      BY <1>0, <2>1, <2>3, <2>5 DEF RewardRun
  <1>9. Typed' /\ Runs' /\ Ready' /\ Booked'
    BY <1>1, <1>2, <1>3, <1>4, <1>5, <1>6, <1>7, <1>8 DEF Reward!Next
  <1>10. Reward!TypeOK'
    BY <1>9 DEF Reward!TypeOK
  <1> QED
    BY <1>9, <1>10 DEF RewardInv

-------------------------------------------------------------------------------
(* The correction of ranks *)

N == Len(RANK_DEFINITIONS)

LEMMA RankLevels ==
    /\ N \in Nat \ {0} /\ Recheck!RANK_ORDER = 1..N /\ Recheck!RankLevel = 0..N
    /\ \A l \in 1..N : RANK_DEFINITIONS[l].rankBonus \in Nat
  <1>1. N \in Nat \ {0} /\ Recheck!RANK_ORDER = 1..N
    <2>1. Len(RANK_DEFINITIONS) \in Nat
      BY RankAssumption
    <2> QED
      BY <2>1, RankAssumption DEF N, Recheck!RANK_ORDER
  <1>2. {0} \cup (1..N) = 0..N
    BY <1>1
  <1>3. Recheck!RankLevel = 0..N
    BY <1>1, <1>2 DEF Recheck!RankLevel, Recheck!NONE
  <1>4. \A l \in 1..N : RANK_DEFINITIONS[l].rankBonus \in Nat
    <2> SUFFICES ASSUME NEW l \in 1..N PROVE RANK_DEFINITIONS[l].rankBonus \in Nat
      OBVIOUS
    <2>1. RANK_DEFINITIONS[l] \in Recheck!Definition
      BY RankAssumption DEF N
    <2> QED
      BY <2>1 DEF Recheck!Definition
  <1> QED
    BY <1>1, <1>3, <1>4

LEMMA Highest ==
    ASSUME NEW S, S \subseteq 0..N, S # {}
    PROVE  /\ Recheck!Max(S) \in S
           /\ \A y \in S : Recheck!Max(S) >= y
  <1> DEFINE T == {n \in 0..N : N - n \in S}
  <1>1. PICK x \in S : TRUE
    OBVIOUS
  <1>2. T \subseteq Nat /\ N - x \in T
    <2>1. x \in 0..N /\ N \in Nat
      BY RankLevels
    <2> QED
      BY <2>1
  <1>3. PICK n \in T : \A k \in T : ~(<<k, n>> \in OpToRel(<, Nat))
    <2> HIDE DEF T
    <2>1. IsWellFoundedOn(OpToRel(<, Nat), Nat)
      BY NatLessThanWellFounded
    <2> QED
      BY <1>2, <2>1, WFMin
  <1>4. \A k \in T : n <= k
    <2> SUFFICES ASSUME NEW k \in T PROVE n <= k
      OBVIOUS
    <2>1. k \in Nat /\ n \in Nat /\ ~(<<k, n>> \in OpToRel(<, Nat))
      BY <1>2, <1>3
    <2>2. <<k, n>> \in Nat \X Nat /\ <<k, n>>[1] = k /\ <<k, n>>[2] = n
      BY <2>1
    <2>3. ~(k < n)
      BY <2>1, <2>2 DEF OpToRel
    <2>4. k \in Nat /\ n \in Nat
      BY <2>1
    <2> HIDE DEF T
    <2> QED
      BY <2>3, <2>4
  <1>5. N - n \in S /\ \A y \in S : N - n >= y
    <2> SUFFICES ASSUME NEW y \in S PROVE N - n \in S /\ N - n >= y
      BY <1>1
    <2>1. y \in 0..N /\ N \in Nat /\ n \in 0..N
      BY RankLevels
    <2>2. N - y \in 0..N /\ N - (N - y) = y
      BY <2>1
    <2>3. N - y \in T
      BY <2>2
    <2> QED
      BY <1>4, <2>1, <2>3
  <1> QED
    BY <1>5 DEF Recheck!Max

LEMMA Eligible == ASSUME NEW u PROVE Recheck!EligibleRank(u) \in 0..N
  <1>1. {Recheck!NONE} \cup {level \in Recheck!RANK_ORDER : Recheck!IsEligible(u, level)} \subseteq 0..N
    BY RankLevels DEF Recheck!NONE
  <1> QED
    BY <1>1, Highest DEF Recheck!EligibleRank

LEMMA FiniteColumn == ASSUME NEW k, NEW m \in Int PROVE IsFiniteSet({k} \X (1..m))
  <1>1. IsFiniteSet({k})
    BY FS_Singleton
  <1>2. IsFiniteSet(1..m)
    BY FS_Interval
  <1> QED
    BY <1>1, <1>2, FS_Product

\* What levels pay is finite and a number.
LEMMA Deserved == ASSUME NEW l \in 0..N PROVE Recheck!DeservedBonus(l) \in Nat
  <1> DEFINE f == [k \in 1..l |-> RANK_DEFINITIONS[k].rankBonus]
             Column(k) == {k} \X (1..f[k])
             C == {Column(k) : k \in 1..l}
             g == [k \in 1..l |-> Column(k)]
  <1>1. \A k \in 1..l : f[k] \in Nat
    BY RankLevels
  <1>2. \A k \in 1..l : IsFiniteSet(Column(k))
    <2> SUFFICES ASSUME NEW k \in 1..l PROVE IsFiniteSet({k} \X (1..f[k]))
      OBVIOUS
    <2>1. f[k] \in Int
      BY <1>1
    <2> HIDE DEF f
    <2> QED
      BY <2>1, FiniteColumn
  <1>3. IsFiniteSet(1..l)
    BY RankLevels, FS_Interval
  <1>4. g \in Surjection(1..l, C)
    BY DEF Surjection
  <1>5. IsFiniteSet(C)
    BY <1>3, <1>4, FS_Surjection
  <1>6. \A T \in C : IsFiniteSet(T)
    BY <1>2
  <1>7. IsFiniteSet(UNION C)
    BY <1>5, <1>6, FS_UNION
  <1>8. Recheck!DeservedBonus(l) = Cardinality(UNION C)
    <2>1. Recheck!Units(f) = UNION C
      BY DEF Recheck!Units
    <2> HIDE DEF C
    <2>2. Recheck!DeservedBonus(l) = Recheck!Cardinality(Recheck!Units(f))
      BY DEF Recheck!DeservedBonus, Recheck!Total
    <2> QED
      BY <2>1, <2>2, SameCardinality
  <1> QED
    BY <1>7, <1>8, FS_CardinalityType
\* What the record of u says was earned.
Told(u) == IF Recheck!Has(u) THEN record[u].bonusEarned ELSE 0

Scanning == {"eligible", "rank", "record"}
Clawing == {"earned", "deserved", "wallet", "debit", "set"}
Scanned == script.users[script.at]

\* The script goes over all users.
Walk ==
    script.pc \in Scanning \cup Clawing =>
        /\ script.users \in [1..Cardinality(Members) -> Members]
        /\ \A u \in Members : \E i \in 1..Cardinality(Members) : script.users[i] = u
        /\ script.at \in 1..Cardinality(Members)

\* What it read is still so, but for what it has just written and for what the
\* server wrote; it writes a lower rank.
Cached ==
    script.pc \in Scanning =>
        /\ \A u \in Members \ touched :
               rank[u] = IF script.pc = "record" /\ u = Scanned THEN script.target ELSE script.cached[u]
        /\ script.pc = "rank" => script.target < script.cached[Scanned]

\* A pass that changed nothing so far has seen nobody above.
Passed ==
    script.pc = "eligible" /\ touched = {} /\ ~script.changed =>
        \A i \in 1..Cardinality(Members) :
            i < script.at => rank[script.users[i]] <= Recheck!EligibleRank(script.users[i])

\* What is taken, with what is deserved, is no more than the record says.
Taken ==
    /\ script.pc \in {"deserved", "wallet", "debit"} => script.earned <= Told(Scanned)
    /\ script.pc \in {"wallet", "debit"} =>
           script.amount + Recheck!DeservedBonus(script.target) <= script.earned
    /\ script.pc \in {"wallet", "debit", "set"} => Recheck!Has(Scanned)

RecheckInv == Recheck!TypeOK /\ Walk /\ Cached /\ Passed /\ Recheck!NobodyAboveEligible /\ Taken
              /\ Recheck!BonusTakenOnce

LEMMA MembersAre ==
    /\ Cardinality(Members) \in Nat \ {0}
    /\ Recheck!Cardinality(Members) = Cardinality(Members)
  BY FiniteAssumption, RankAssumption, FS_CardinalityType, FS_EmptySet, SameCardinality

LEMMA Working ==
    ASSUME Recheck!TypeOK, Walk, script.pc \in Scanning \cup Clawing
    PROVE  /\ script \in Recheck!RecheckState /\ script # Recheck!Idle
           /\ script.users \in [1..Cardinality(Members) -> Members]
           /\ Len(script.users) = Cardinality(Members)
           /\ script.at \in 1..Cardinality(Members)
           /\ Scanned \in Members
  <1>1. script \in Recheck!RecheckState /\ script # Recheck!Idle
    BY DEF Recheck!TypeOK, Recheck!ResetState, Recheck!Idle, Scanning, Clawing
  <1>2. script.users \in [1..Cardinality(Members) -> Members] /\ script.at \in 1..Cardinality(Members)
    BY DEF Walk
  <1>3. Len(script.users) = Cardinality(Members)
    BY <1>2, MembersAre
  <1> QED
    BY <1>1, <1>2, <1>3 DEF Scanned

LEMMA NextUserIs ==
    ASSUME Recheck!TypeOK, Walk, script.pc \in Scanning, NEW c \in BOOLEAN
    PROVE  LET s == Recheck!NextUser(c) IN
           /\ s \in Recheck!RecheckState
           /\ s.users = script.users /\ s.cached = script.cached /\ s.at \in 1..Cardinality(Members)
           /\ \/ /\ s.pc = "eligible" /\ s.changed = c
                 /\ script.at < Cardinality(Members) /\ s.at = script.at + 1
              \/ s.pc = "eligible" /\ s.changed = FALSE /\ s.at = 1
              \/ s.pc = "earned" /\ s.changed = c /\ script.at = Cardinality(Members)
  <1>1. /\ script \in Recheck!RecheckState /\ Len(script.users) = Cardinality(Members)
        /\ script.at \in 1..Cardinality(Members)
    BY Working
  <1>2. MaxPasses \in Nat /\ Cardinality(Members) \in Nat
    BY RankAssumption, MembersAre
  <1>3. script.at \in Nat /\ script.pass \in 1..MaxPasses
    BY <1>1, <1>2 DEF Recheck!RecheckState
  <1>4. CASE script.at < Len(script.users)
    <2>1. Recheck!NextUser(c) = [script EXCEPT !.pc = "eligible", !.at = script.at + 1, !.changed = c]
      BY <1>4 DEF Recheck!NextUser
    <2>2. script.at + 1 \in 1..Cardinality(Members) /\ script.at + 1 \in Nat
      BY <1>1, <1>2, <1>3, <1>4
    <2> QED
      BY <1>1, <1>4, <2>1, <2>2 DEF Recheck!RecheckState
  <1>5. CASE ~(script.at < Len(script.users)) /\ c /\ script.pass < MaxPasses
    <2>1. Recheck!NextUser(c) =
              [script EXCEPT !.pc = "eligible", !.at = 1, !.pass = script.pass + 1, !.changed = FALSE]
      BY <1>5 DEF Recheck!NextUser
    <2>2. script.pass + 1 \in 1..MaxPasses /\ 1 \in 1..Cardinality(Members) /\ 1 \in Nat
      BY <1>2, <1>3, <1>5, MembersAre
    <2> QED
      BY <1>1, <2>1, <2>2 DEF Recheck!RecheckState
  <1>6. CASE ~(script.at < Len(script.users)) /\ ~(c /\ script.pass < MaxPasses)
    <2>1. Recheck!NextUser(c) = [script EXCEPT !.pc = "earned", !.at = 1, !.changed = c]
      BY <1>6 DEF Recheck!NextUser
    <2>2. script.at = Cardinality(Members) /\ 1 \in 1..Cardinality(Members) /\ 1 \in Nat
      BY <1>1, <1>2, <1>3, <1>6, MembersAre
    <2> QED
      BY <1>1, <2>1, <2>2 DEF Recheck!RecheckState
  <1> QED
    BY <1>4, <1>5, <1>6

LEMMA NextBonusIs ==
    ASSUME Recheck!TypeOK, Walk, script.pc \in Clawing
    PROVE  LET s == Recheck!NextBonus IN
           \/ s = Recheck!Idle
           \/ /\ s \in Recheck!RecheckState /\ s.pc = "earned"
              /\ s.users = script.users /\ s.at \in 1..Cardinality(Members)
  <1>1. /\ script \in Recheck!RecheckState /\ Len(script.users) = Cardinality(Members)
        /\ script.at \in 1..Cardinality(Members)
    BY Working
  <1>2. CASE script.at < Len(script.users)
    <2>1. Recheck!NextBonus = [script EXCEPT !.pc = "earned", !.at = script.at + 1]
      BY <1>2 DEF Recheck!NextBonus
    <2>2. script.at + 1 \in 1..Cardinality(Members) /\ script.at + 1 \in Nat
      BY <1>1, <1>2, MembersAre
    <2> QED
      BY <1>1, <2>1, <2>2 DEF Recheck!RecheckState
  <1> QED
    BY <1>2 DEF Recheck!NextBonus

LEMMA EligibleSame ==
    ASSUME UNCHANGED <<rank, deposited>>, NEW u
    PROVE  Recheck!EligibleRank(u)' = Recheck!EligibleRank(u)
  BY DEF Recheck!EligibleRank, Recheck!IsEligible

LEMMA Smaller ==
    ASSUME NEW x \in Nat, NEW y \in Nat
    PROVE  /\ Recheck!Min({x, y}) \in Nat
           /\ Recheck!Min({x, y}) <= x /\ Recheck!Min({x, y}) <= y
  <1> DEFINE m == IF x <= y THEN x ELSE y
  <1>1. m \in {x, y} /\ \A z \in {x, y} : m <= z
    OBVIOUS
  <1>2. Recheck!Min({x, y}) \in {x, y} /\ \A z \in {x, y} : Recheck!Min({x, y}) <= z
    BY <1>1 DEF Recheck!Min
  <1> QED
    BY <1>2

\* The states of the script that no property is about.
LEMMA OutOfScript ==
    ASSUME script.pc \notin Scanning \cup Clawing
    PROVE  Walk /\ Cached /\ Passed /\ Recheck!NobodyAboveEligible /\ Taken
  BY DEF Walk, Cached, Passed, Recheck!NobodyAboveEligible, Taken, Scanning, Clawing

LEMMA RecheckInit == Recheck!Init => RecheckInv
  <1> SUFFICES ASSUME Recheck!Init PROVE RecheckInv
    OBVIOUS
  <1>1. script = Recheck!Idle /\ touched = {} /\ taken = {} /\ limited = FALSE /\ scriptRuns = 0 /\ rankChanges = 0
        /\ deposited \in Deposits /\ entitled = bonusWallet
    BY DEF Recheck!Init
  <1>2. PICK before \in [Members -> Recheck!Before] :
            /\ rank = [u \in Members |-> before[u].rank]
            /\ record = [u \in Members |-> before[u].record]
    BY DEF Recheck!Init
  <1>3. \A x \in Recheck!Before : /\ x.rank \in Recheck!RankLevel
                                  /\ x.record \in Recheck!Record \cup {Recheck!NoRecord}
    <2>1. {Recheck!NONE, Recheck!LV1} \subseteq 0..N
      BY RankLevels DEF Recheck!NONE, Recheck!LV1
    <2>2. \A l \in 1..N : [level |-> l, bonusEarned |-> Recheck!DeservedBonus(l)] \in Recheck!Record
      BY RankLevels, Deserved DEF Recheck!Record
    <2> QED
      BY <2>1, <2>2, RankLevels DEF Recheck!Before
  <1>4. rank \in [Members -> Recheck!RankLevel] /\ record \in [Members -> Recheck!Record \cup {Recheck!NoRecord}]
    BY <1>2, <1>3
  <1>5. bonusWallet = [u \in Members |-> Told(u)]
    BY DEF Recheck!Init, Told
  <1>6. \A u \in Members : Told(u) \in Nat
    BY <1>4 DEF Told, Recheck!Has, Recheck!Record
  <1>7. Recheck!TypeOK
    <2>1. bonusWallet \in [Members -> Nat] /\ entitled \in [Members -> Int]
      <3> HIDE DEF Told
      <3> QED
        BY <1>1, <1>5, <1>6
    <2> QED
      BY <1>1, <1>4, <2>1 DEF Recheck!TypeOK
  <1>8. script.pc = "idle"
    BY <1>1 DEF Recheck!Idle
  <1>9. Recheck!BonusTakenOnce
    BY <1>1, <1>5, <1>6, <1>8 DEF Recheck!BonusTakenOnce, Told, Recheck!At
  <1> QED
    BY <1>7, <1>8, <1>9, OutOfScript DEF RecheckInv, Scanning, Clawing

\* While bonuses are taken, ranks are the server's alone.
LEMMA ClawKeeps ==
    ASSUME RecheckInv, UNCHANGED <<deposited, rank, limited, touched>>,
           script.pc \in Clawing, script'.pc \in Clawing,
           script'.users = script.users, script'.at \in 1..Cardinality(Members)
    PROVE  Walk' /\ Cached' /\ Passed' /\ Recheck!NobodyAboveEligible'
  <1>1. Walk'
    BY DEF RecheckInv, Walk
  <1>2. Cached' /\ Passed'
    BY DEF Cached, Passed, Scanning, Clawing
  <1>3. Recheck!NobodyAboveEligible'
    BY EligibleSame DEF RecheckInv, Recheck!NobodyAboveEligible, Clawing
  <1> QED
    BY <1>1, <1>2, <1>3

LEMMA OnceMeans ==
    Recheck!BonusTakenOnce <=>
        \A u \in Members \ taken :
            entitled[u] >= IF script.pc = "set" /\ Scanned = u
                           THEN Recheck!DeservedBonus(script.target) ELSE Told(u)
  BY DEF Recheck!BonusTakenOnce, Told, Recheck!At, Recheck!User, Scanned

LEMMA OnceKeeps ==
    ASSUME Recheck!BonusTakenOnce, UNCHANGED <<record, entitled, taken>>,
           script.pc # "set", script'.pc # "set"
    PROVE  Recheck!BonusTakenOnce'
  <1>1. \A u : Told(u)' = Told(u)
    BY DEF Told, Recheck!Has
  <1>2. \A u \in Members \ taken' : entitled'[u] >= Told(u)'
    BY <1>1, OnceMeans
  <1> QED
    BY <1>2 DEF Recheck!BonusTakenOnce, Recheck!At, Told

LEMMA ReadUsersKeeps == RecheckInv /\ Recheck!ReadUsers => RecheckInv'
  <1> SUFFICES ASSUME RecheckInv, Recheck!ReadUsers PROVE RecheckInv'
    OBVIOUS
  <1>1. /\ script = Recheck!Idle /\ scriptRuns' = scriptRuns + 1 /\ touched' = {} /\ limited' = FALSE
        /\ UNCHANGED <<deposited, rank, record, bonusWallet, rankChanges, entitled, taken>>
    BY DEF Recheck!ReadUsers, Recheck!data
  <1>2. PICK users \in [1..Cardinality(Members) -> Members] :
            /\ \A i, j \in 1..Cardinality(Members) : i # j => users[i] # users[j]
            /\ script' = [pc |-> "eligible", users |-> users, at |-> 1, pass |-> 1, changed |-> FALSE,
                          cached |-> rank, target |-> Recheck!NONE, earned |-> 0, amount |-> 0]
    BY MembersAre DEF Recheck!ReadUsers, Recheck!SetToSeqs
  <1>3. \A u \in Members : \E i \in 1..Cardinality(Members) : users[i] = u
    <2>1. users \in Injection(1..Cardinality(Members), Members)
      BY <1>2 DEF Injection, IsInjective
    <2>2. IsFiniteSet(1..Cardinality(Members)) /\ Cardinality(1..Cardinality(Members)) = Cardinality(Members)
      BY MembersAre, FS_Interval
    <2>3. users \in Surjection(1..Cardinality(Members), Members)
      BY <2>1, <2>2, FiniteAssumption, FS_Injection DEF Bijection
    <2> QED
      BY <2>3 DEF Surjection
  <1>4. Recheck!TypeOK
    BY DEF RecheckInv
  <1>5. script' \in Recheck!RecheckState
    <2>1. users \in Seq(Members) /\ 1 \in 1..MaxPasses /\ 1 \in Nat /\ 0 \in Nat
      BY <1>2, MembersAre, RankAssumption
    <2>2. Recheck!NONE \in Recheck!RankLevel /\ rank \in [Members -> Recheck!RankLevel]
      BY <1>4 DEF Recheck!TypeOK, Recheck!RankLevel
    <2> QED
      BY <1>2, <2>1, <2>2 DEF Recheck!RecheckState
  <1>6. Recheck!TypeOK'
    <2>1. scriptRuns' \in Nat
      BY <1>1, <1>4 DEF Recheck!TypeOK
    <2>2. touched' \subseteq Members /\ limited' \in BOOLEAN
      BY <1>1
    <2> QED
      BY <1>1, <1>4, <1>5, <2>1, <2>2 DEF Recheck!TypeOK
  <1>7. /\ script'.pc = "eligible" /\ script'.users = users /\ script'.at = 1 /\ script'.cached = rank
        /\ 1 \in 1..Cardinality(Members)
    BY <1>2, MembersAre
  <1>8. Walk'
    BY <1>3, <1>7 DEF Walk
  <1>9. Cached'
    BY <1>1, <1>7 DEF Cached
  <1>10. Passed'
    BY <1>7 DEF Passed
  <1>11. Recheck!NobodyAboveEligible' /\ Taken'
    BY <1>7 DEF Recheck!NobodyAboveEligible, Taken
  <1>12. Recheck!BonusTakenOnce'
    BY <1>1, <1>7, OnceKeeps DEF RecheckInv, Recheck!Idle
  <1> QED
    BY <1>6, <1>8, <1>9, <1>10, <1>11, <1>12 DEF RecheckInv

LEMMA CompareKeeps == RecheckInv /\ Recheck!Compare => RecheckInv'
  <1> SUFFICES ASSUME RecheckInv, Recheck!Compare PROVE RecheckInv'
    OBVIOUS
  <1> DEFINE target == Recheck!EligibleRank(Scanned)
  <1>1. /\ script.pc = "eligible"
        /\ script' = IF target < script.cached[Scanned]
                     THEN [script EXCEPT !.pc = "rank", !.target = target]
                     ELSE Recheck!NextUser(script.changed)
        /\ limited' = (script'.pc = "earned" /\ script.changed)
        /\ UNCHANGED <<deposited, rank, record, bonusWallet, scriptRuns, rankChanges, touched, entitled, taken>>
    BY DEF Recheck!Compare, Recheck!data, Recheck!counters, Recheck!At, Recheck!User, Scanned
  <1>2. Recheck!TypeOK /\ Walk /\ Cached /\ Passed /\ Recheck!BonusTakenOnce
    BY DEF RecheckInv
  <1>3. /\ script \in Recheck!RecheckState
        /\ script.users \in [1..Cardinality(Members) -> Members]
        /\ script.at \in 1..Cardinality(Members) /\ Scanned \in Members
        /\ \A u \in Members : \E i \in 1..Cardinality(Members) : script.users[i] = u
    BY <1>1, <1>2, Working DEF Scanning, Walk
  <1>4. target \in 0..N
    BY Eligible
  <1> HIDE DEF target
  <1>5. limited' \in BOOLEAN
    BY <1>1, <1>3 DEF Recheck!RecheckState
  <1>6. CASE target < script.cached[Scanned]
    <2>1. script' = [script EXCEPT !.pc = "rank", !.target = target]
      BY <1>1, <1>6
    <2>2. script' \in Recheck!RecheckState
      BY <1>3, <1>4, <2>1, RankLevels DEF Recheck!RecheckState
    <2>3. /\ script'.pc = "rank" /\ script'.users = script.users /\ script'.at = script.at
          /\ script'.cached = script.cached /\ script'.target = target
      BY <1>3, <2>1 DEF Recheck!RecheckState
    <2>4. Recheck!TypeOK'
      BY <1>1, <1>2, <1>5, <2>2 DEF Recheck!TypeOK
    <2>5. Walk'
      BY <1>3, <2>3 DEF Walk
    <2>6. Cached'
      BY <1>1, <1>2, <1>6, <2>3 DEF Cached, Scanned, Scanning
    <2>7. Passed' /\ Recheck!NobodyAboveEligible' /\ Taken'
      BY <2>3 DEF Passed, Recheck!NobodyAboveEligible, Taken
    <2>8. Recheck!BonusTakenOnce'
      BY <1>1, <1>2, <2>3, OnceKeeps
    <2> QED
      BY <2>4, <2>5, <2>6, <2>7, <2>8 DEF RecheckInv
  <1>7. CASE ~(target < script.cached[Scanned])
    <2>1. script' = Recheck!NextUser(script.changed) /\ script.changed \in BOOLEAN
      BY <1>1, <1>3, <1>7 DEF Recheck!RecheckState
    <2>2. /\ script' \in Recheck!RecheckState
          /\ script'.users = script.users /\ script'.cached = script.cached
          /\ script'.at \in 1..Cardinality(Members)
          /\ \/ /\ script'.pc = "eligible" /\ script'.changed = script.changed
                /\ script.at < Cardinality(Members) /\ script'.at = script.at + 1
             \/ script'.pc = "eligible" /\ script'.changed = FALSE /\ script'.at = 1
             \/ script'.pc = "earned" /\ script'.changed = script.changed /\ script.at = Cardinality(Members)
      BY <1>1, <1>2, <2>1, NextUserIs DEF Scanning
    <2>3. Recheck!TypeOK'
      BY <1>1, <1>2, <1>5, <2>2 DEF Recheck!TypeOK
    <2>4. Walk'
      BY <1>3, <2>2 DEF Walk
    <2>5. Cached'
      BY <1>1, <1>2, <2>2 DEF Cached, Scanning
    <2>6. \A u : Recheck!EligibleRank(u)' = Recheck!EligibleRank(u)
      BY <1>1, EligibleSame
    \* The one just compared is not above either.
    <2>7. touched = {} => rank[Scanned] <= target
      <3>1. touched = {} => rank[Scanned] = script.cached[Scanned]
        BY <1>1, <1>2, <1>3 DEF Cached, Scanning
      <3>2. rank[Scanned] \in 0..N
        BY <1>2, <1>3, RankLevels DEF Recheck!TypeOK
      <3> QED
        BY <1>4, <1>7, <3>1, <3>2, RankLevels
    <2>8. touched = {} /\ ~script.changed =>
              \A i \in 1..Cardinality(Members) :
                  i < script.at + 1 => rank[script.users[i]] <= Recheck!EligibleRank(script.users[i])
      <3> SUFFICES ASSUME touched = {}, ~script.changed, NEW i \in 1..Cardinality(Members), i < script.at + 1
                   PROVE  rank[script.users[i]] <= Recheck!EligibleRank(script.users[i])
        OBVIOUS
      <3>1. CASE i = script.at
        BY <2>7, <3>1 DEF target, Scanned
      <3>2. CASE i # script.at
        <4>1. i < script.at
          BY <1>3, <3>2, MembersAre
        <4> QED
          BY <1>1, <1>2, <4>1 DEF Passed
      <3> QED
        BY <3>1, <3>2
    <2>9. Passed'
      <3>1. CASE script'.at = 1
        BY <3>1, MembersAre DEF Passed
      <3>2. CASE script'.at = script.at + 1 /\ script'.changed = script.changed
        BY <1>1, <2>2, <2>6, <2>8, <3>2 DEF Passed
      <3>3. CASE script'.pc = "earned"
        BY <3>3 DEF Passed
      <3> QED
        BY <2>2, <3>1, <3>2, <3>3
    <2>10. Recheck!NobodyAboveEligible'
      <3> SUFFICES ASSUME script'.pc = "earned", ~limited', touched' = {}, NEW u \in Members
                   PROVE  rank'[u] <= Recheck!EligibleRank(u)'
        BY <2>2 DEF Recheck!NobodyAboveEligible
      <3>1. ~script.changed /\ script.at = Cardinality(Members)
        BY <1>1, <2>2
      <3>2. PICK i \in 1..Cardinality(Members) : script.users[i] = u
        BY <1>3
      <3>3. i < script.at + 1
        BY <3>1, MembersAre
      <3> QED
        BY <1>1, <2>6, <2>8, <3>1, <3>2, <3>3
    <2>11. Taken'
      BY <2>2 DEF Taken
    <2>12. Recheck!BonusTakenOnce'
      <3>1. script.pc # "set" /\ script'.pc # "set"
        BY <1>1, <2>2
      <3> QED
        BY <1>1, <1>2, <3>1, OnceKeeps
    <2> QED
      BY <2>3, <2>4, <2>5, <2>9, <2>10, <2>11, <2>12 DEF RecheckInv
  <1> QED
    BY <1>6, <1>7

LEMMA UpdateRankKeeps == RecheckInv /\ Recheck!UpdateRank => RecheckInv'
  <1> SUFFICES ASSUME RecheckInv, Recheck!UpdateRank PROVE RecheckInv'
    OBVIOUS
  <1>1. /\ script.pc = "rank"
        /\ rank' = [rank EXCEPT ![Scanned] = script.target]
        /\ script' = [script EXCEPT !.pc = "record"]
        /\ UNCHANGED <<deposited, record, bonusWallet, scriptRuns, rankChanges, touched, limited, entitled, taken>>
    BY DEF Recheck!UpdateRank, Recheck!observed, Recheck!counters, Recheck!At, Recheck!Goto, Recheck!User, Scanned
  <1>2. Recheck!TypeOK /\ Walk /\ Cached /\ Recheck!BonusTakenOnce
    BY DEF RecheckInv
  <1>3. script \in Recheck!RecheckState /\ Scanned \in Members
    BY <1>1, <1>2, Working DEF Scanning
  <1>4. script' \in Recheck!RecheckState
    BY <1>1, <1>3 DEF Recheck!RecheckState
  <1>5. /\ script'.pc = "record" /\ script'.users = script.users /\ script'.at = script.at
        /\ script'.cached = script.cached /\ script'.target = script.target
    BY <1>1, <1>3 DEF Recheck!RecheckState
  <1>6. rank' \in [Members -> Recheck!RankLevel]
    <2>1. script.target \in Recheck!RankLevel
      BY <1>3 DEF Recheck!RecheckState
    <2> QED
      BY <1>1, <1>2, <1>3, <2>1 DEF Recheck!TypeOK
  <1>7. Recheck!TypeOK'
    BY <1>1, <1>2, <1>4, <1>6 DEF Recheck!TypeOK
  <1>8. Walk'
    BY <1>1, <1>2, <1>5 DEF Walk, Scanning
  <1>9. Cached'
    <2>1. \A u \in Members \ touched : rank'[u] = IF u = Scanned THEN script.target ELSE script.cached[u]
      BY <1>1, <1>2 DEF Cached, Scanning, Recheck!TypeOK
    <2> QED
      BY <1>1, <1>5, <2>1 DEF Cached, Scanned
  <1>10. Passed' /\ Recheck!NobodyAboveEligible' /\ Taken'
    BY <1>5 DEF Passed, Recheck!NobodyAboveEligible, Taken
  <1>11. Recheck!BonusTakenOnce'
    BY <1>1, <1>2, <1>5, OnceKeeps
  <1> QED
    BY <1>7, <1>8, <1>9, <1>10, <1>11 DEF RecheckInv

LEMMA SyncRecordKeeps == RecheckInv /\ Recheck!SyncRecord => RecheckInv'
  <1> SUFFICES ASSUME RecheckInv, Recheck!SyncRecord PROVE RecheckInv'
    OBVIOUS
  <1>1. /\ script.pc = "record"
        /\ record' = IF Recheck!Has(Scanned) THEN [record EXCEPT ![Scanned].level = script.target] ELSE record
        /\ script' = [Recheck!NextUser(TRUE) EXCEPT !.cached[Scanned] = script.target]
        /\ limited' = (script'.pc = "earned")
        /\ UNCHANGED <<deposited, rank, bonusWallet, scriptRuns, rankChanges, touched, entitled, taken>>
    BY DEF Recheck!SyncRecord, Recheck!counters, Recheck!At, Recheck!User, Scanned
  <1>2. Recheck!TypeOK /\ Walk /\ Cached /\ Recheck!BonusTakenOnce
    BY DEF RecheckInv
  <1>3. script \in Recheck!RecheckState /\ Scanned \in Members
    BY <1>1, <1>2, Working DEF Scanning
  <1>4. script.target \in Recheck!RankLevel /\ script.cached \in [Members -> Recheck!RankLevel]
    BY <1>3 DEF Recheck!RecheckState
  <1> DEFINE s == Recheck!NextUser(TRUE)
  <1>5. /\ s \in Recheck!RecheckState
        /\ s.users = script.users /\ s.cached = script.cached /\ s.at \in 1..Cardinality(Members)
        /\ \/ s.pc = "eligible" /\ s.changed = TRUE
           \/ s.pc = "eligible" /\ s.changed = FALSE /\ s.at = 1
           \/ s.pc = "earned"
    BY <1>1, <1>2, NextUserIs DEF Scanning
  <1>6. script' = [s EXCEPT !.cached[Scanned] = script.target]
    BY <1>1
  <1> HIDE DEF s
  <1>7. /\ script' \in Recheck!RecheckState
        /\ script'.users = script.users /\ script'.at = s.at /\ script'.pc = s.pc
        /\ script'.changed = s.changed
        /\ script'.cached = [script.cached EXCEPT ![Scanned] = script.target]
    <2>1. [script.cached EXCEPT ![Scanned] = script.target] \in [Members -> Recheck!RankLevel]
      BY <1>3, <1>4
    <2>2. script' = [s EXCEPT !.cached = [script.cached EXCEPT ![Scanned] = script.target]]
      BY <1>5, <1>6 DEF Recheck!RecheckState
    <2> QED
      BY <1>5, <2>1, <2>2 DEF Recheck!RecheckState
  <1>8. /\ record' \in [Members -> Recheck!Record \cup {Recheck!NoRecord}]
        /\ \A u \in Members : Told(u)' = Told(u)
    <2>1. CASE Recheck!Has(Scanned)
      <3>1. record' = [record EXCEPT ![Scanned].level = script.target]
        BY <1>1, <2>1
      <3>2. record[Scanned] \in Recheck!Record
        BY <1>2, <1>3, <2>1 DEF Recheck!Has, Recheck!TypeOK
      <3> DEFINE r == [record[Scanned] EXCEPT !.level = script.target]
      <3>3. r \in Recheck!Record /\ r.bonusEarned = record[Scanned].bonusEarned
        BY <1>4, <3>2 DEF Recheck!Record
      <3>4. record' = [record EXCEPT ![Scanned] = r]
        BY <3>1
      <3> HIDE DEF r
      <3>5. record' \in [Members -> Recheck!Record \cup {Recheck!NoRecord}]
        BY <1>2, <1>3, <3>3, <3>4 DEF Recheck!TypeOK
      <3>6. r # Recheck!NoRecord
        BY <3>3, RankLevels DEF Recheck!Record, Recheck!NoRecord
      <3>7. ASSUME NEW u \in Members PROVE Told(u)' = Told(u)
        <4>1. CASE u = Scanned
          <5>1. record'[u] = r
            BY <1>2, <1>3, <3>4, <4>1 DEF Recheck!TypeOK
          <5> QED
            BY <2>1, <3>3, <3>6, <4>1, <5>1 DEF Told, Recheck!Has
        <4>2. CASE u # Scanned
          <5>1. record'[u] = record[u]
            BY <1>2, <1>3, <3>4, <4>2 DEF Recheck!TypeOK
          <5> QED
            BY <5>1 DEF Told, Recheck!Has
        <4> QED
          BY <4>1, <4>2
      <3> QED
        BY <3>5, <3>7
    <2>2. CASE ~Recheck!Has(Scanned)
      <3>1. record' = record
        BY <1>1, <2>2
      <3> QED
        BY <1>2, <3>1 DEF Told, Recheck!Has, Recheck!TypeOK
    <2> QED
      BY <2>1, <2>2
  <1>9. Recheck!TypeOK'
    BY <1>1, <1>2, <1>7, <1>8 DEF Recheck!TypeOK
  <1>10. Walk'
    BY <1>1, <1>2, <1>5, <1>7 DEF Walk, Scanning
  <1>11. Cached'
    <2>1. \A u \in Members \ touched : rank[u] = script'.cached[u]
      <3> SUFFICES ASSUME NEW u \in Members \ touched PROVE rank[u] = script'.cached[u]
        OBVIOUS
      <3>1. rank[u] = IF u = Scanned THEN script.target ELSE script.cached[u]
        BY <1>1, <1>2 DEF Cached, Scanning
      <3>2. script'.cached[u] = IF u = Scanned THEN script.target ELSE script.cached[u]
        BY <1>3, <1>4, <1>7
      <3> QED
        BY <3>1, <3>2
    <2>2. script'.pc # "record" /\ script'.pc # "rank"
      BY <1>5, <1>7
    <2> QED
      BY <1>1, <2>1, <2>2 DEF Cached
  <1>12. Passed'
    <2>1. CASE script'.at = 1
      BY <2>1, MembersAre DEF Passed
    <2>2. CASE script'.changed
      BY <2>2 DEF Passed
    <2>3. CASE script'.pc = "earned"
      BY <2>3 DEF Passed
    <2> QED
      BY <1>5, <1>7, <2>1, <2>2, <2>3
  <1>13. Recheck!NobodyAboveEligible' /\ Taken'
    BY <1>1, <1>5, <1>7 DEF Recheck!NobodyAboveEligible, Taken
  <1>14. Recheck!BonusTakenOnce'
    <2>1. \A u \in Members \ taken' : entitled'[u] >= Told(u)'
      BY <1>1, <1>2, <1>8, OnceMeans
    <2> QED
      BY <1>5, <1>7, <2>1 DEF Recheck!BonusTakenOnce, Recheck!At, Told
  <1> QED
    BY <1>9, <1>10, <1>11, <1>12, <1>13, <1>14 DEF RecheckInv

LEMMA TellingBonus ==
    ASSUME Recheck!TypeOK, NEW u \in Members
    PROVE  Told(u) \in Nat /\ (Told(u) > 0 => Recheck!Has(u))
  BY DEF Told, Recheck!Has, Recheck!TypeOK, Recheck!Record

LEMMA ReadingKeeps == RecheckInv /\ (Recheck!ReadEarned \/ Recheck!ReadDeserved \/ Recheck!FindWallet) => RecheckInv'
  <1> SUFFICES ASSUME RecheckInv, Recheck!ReadEarned \/ Recheck!ReadDeserved \/ Recheck!FindWallet
               PROVE RecheckInv'
    OBVIOUS
  <1>1. /\ UNCHANGED <<deposited, rank, record, bonusWallet, scriptRuns, rankChanges, touched, limited,
                       entitled, taken>>
        /\ script.pc \in {"earned", "deserved", "wallet"} /\ script.pc \in Clawing
    BY DEF Recheck!ReadEarned, Recheck!ReadDeserved, Recheck!FindWallet, Recheck!data, Recheck!counters,
           Recheck!observed, Recheck!At, Clawing
  <1>2. Recheck!TypeOK /\ Walk /\ Taken /\ Recheck!BonusTakenOnce
    BY DEF RecheckInv
  <1>3. script \in Recheck!RecheckState /\ Scanned \in Members /\ script.at \in 1..Cardinality(Members)
    BY <1>1, <1>2, Working
  <1>4. /\ Told(Scanned) \in Nat /\ (Told(Scanned) > 0 => Recheck!Has(Scanned))
        /\ \A u : Told(u)' = Told(u)
        /\ rank[Scanned] \in 0..N
    BY <1>1, <1>2, <1>3, TellingBonus, RankLevels DEF Told, Recheck!Has, Recheck!TypeOK
  <1>5. Recheck!DeservedBonus(rank[Scanned]) \in Nat /\ bonusWallet[Scanned] \in Nat
    BY <1>2, <1>3, <1>4, Deserved DEF Recheck!TypeOK
  <1>6. script.amount \in Nat /\ script.earned \in Nat /\ script.target \in 0..N
    BY <1>3, RankLevels DEF Recheck!RecheckState
  <1>7. Recheck!DeservedBonus(script.target) \in Nat
    BY <1>6, Deserved
  <1> DEFINE Fine == \/ script' = Recheck!Idle
                     \/ /\ script' \in Recheck!RecheckState /\ script'.pc \in Clawing
                        /\ script'.users = script.users /\ script'.at \in 1..Cardinality(Members)
                        /\ script'.pc # "earned" => script'.at = script.at
                        /\ script'.pc \in {"deserved", "wallet", "debit"} => script'.earned <= Told(Scanned)
                        /\ script'.pc \in {"wallet", "debit"} =>
                               script'.amount + Recheck!DeservedBonus(script'.target) <= script'.earned
                        /\ script'.pc \in {"wallet", "debit", "set"} => Recheck!Has(Scanned)
                        /\ script'.pc = "set" => Recheck!DeservedBonus(script'.target) <= Told(Scanned)
  <1>8. ASSUME Recheck!ReadEarned PROVE Fine
    <2>1. script' = [script EXCEPT !.pc = "deserved", !.earned = Told(Scanned)]
      BY <1>8 DEF Recheck!ReadEarned, Told, Recheck!User, Scanned
    <2>2. /\ script' \in Recheck!RecheckState /\ script'.pc = "deserved" /\ script'.users = script.users
          /\ script'.at = script.at /\ script'.earned = Told(Scanned)
      BY <1>3, <1>4, <2>1 DEF Recheck!RecheckState
    <2> QED
      BY <1>3, <1>4, <2>2 DEF Clawing
  <1>9. ASSUME Recheck!ReadDeserved PROVE Fine
    <2> DEFINE deserved == Recheck!DeservedBonus(rank[Scanned])
    <2>1. /\ script.pc = "deserved"
          /\ script' = IF script.earned > deserved
                       THEN [script EXCEPT !.pc = "wallet", !.target = rank[Scanned],
                                           !.amount = script.earned - deserved]
                       ELSE Recheck!NextBonus
      BY <1>9 DEF Recheck!ReadDeserved, Recheck!User, Scanned, Recheck!At
    <2>2. script.earned <= Told(Scanned)
      BY <1>2, <2>1 DEF Taken
    <2>3. CASE script.earned > deserved
      <3>1. script.earned - deserved \in Nat /\ Recheck!Has(Scanned)
        BY <1>4, <1>5, <1>6, <2>2, <2>3
      <3>2. /\ script' \in Recheck!RecheckState /\ script'.pc = "wallet" /\ script'.users = script.users
            /\ script'.at = script.at /\ script'.earned = script.earned
            /\ script'.amount = script.earned - deserved /\ script'.target = rank[Scanned]
        BY <1>3, <1>4, <2>1, <2>3, <3>1, RankLevels DEF Recheck!RecheckState
      <3>3. script'.amount + Recheck!DeservedBonus(script'.target) <= script'.earned
        BY <1>5, <1>6, <3>2
      <3> QED
        BY <1>3, <2>2, <3>1, <3>2, <3>3 DEF Clawing
    <2>4. CASE ~(script.earned > deserved)
      <3>1. script' = Recheck!NextBonus
        BY <2>1, <2>4
      <3> QED
        BY <1>1, <1>2, <3>1, NextBonusIs DEF Clawing
    <2> QED
      BY <2>3, <2>4
  <1>10. ASSUME Recheck!FindWallet PROVE Fine
    <2> DEFINE amount == Recheck!Min({script.amount, bonusWallet[Scanned]})
    <2>1. /\ script.pc = "wallet"
          /\ script' = [script EXCEPT !.pc = IF amount > 0 THEN "debit" ELSE "set", !.amount = amount]
      BY <1>10 DEF Recheck!FindWallet, Recheck!User, Scanned, Recheck!At
    <2>2. amount \in Nat /\ amount <= script.amount
      BY <1>5, <1>6, Smaller
    <2> HIDE DEF amount
    <2>3. PICK pc \in {"debit", "set"} : script' = [script EXCEPT !.pc = pc, !.amount = amount]
      BY <2>1
    <2>4. /\ script' \in Recheck!RecheckState /\ script'.pc = pc /\ script'.users = script.users
          /\ script'.at = script.at /\ script'.earned = script.earned /\ script'.amount = amount
          /\ script'.target = script.target
      BY <1>3, <2>2, <2>3 DEF Recheck!RecheckState
    <2>5. /\ script.earned <= Told(Scanned) /\ Recheck!Has(Scanned)
          /\ script.amount + Recheck!DeservedBonus(script.target) <= script.earned
      BY <1>2, <2>1 DEF Taken
    <2>6. /\ amount + Recheck!DeservedBonus(script.target) <= script.earned
          /\ Recheck!DeservedBonus(script.target) <= Told(Scanned)
      BY <1>4, <1>6, <1>7, <2>2, <2>5
    <2> QED
      BY <1>3, <2>4, <2>5, <2>6 DEF Clawing
  <1>11. Fine
    <2> HIDE DEF Fine
    <2> QED
      BY <1>8, <1>9, <1>10
  <1> HIDE DEF Fine
  <1>12. Recheck!TypeOK'
    BY <1>1, <1>2, <1>11 DEF Recheck!TypeOK, Fine
  <1>13. Walk' /\ Cached' /\ Passed' /\ Recheck!NobodyAboveEligible' /\ Taken'
    <2>1. CASE script' = Recheck!Idle
      <3>1. (script.pc \notin Scanning \cup Clawing)'
        BY <2>1 DEF Recheck!Idle, Scanning, Clawing
      <3> QED
        BY <3>1, OutOfScript, PTL
    <2>2. CASE script' # Recheck!Idle
      <3>1. Walk' /\ Cached' /\ Passed' /\ Recheck!NobodyAboveEligible'
        BY <1>1, <1>11, <2>2, ClawKeeps DEF Fine
      <3>2. script'.pc \in {"deserved", "wallet", "debit", "set"} => Scanned' = Scanned
        BY <1>11, <2>2 DEF Fine, Scanned
      <3>3. Taken'
        BY <1>1, <1>4, <1>11, <2>2, <3>2 DEF Fine, Taken, Recheck!Has
      <3> QED
        BY <3>1, <3>3
    <2> QED
      BY <2>1, <2>2
  <1>14. Recheck!BonusTakenOnce'
    <2>1. script.pc # "set"
      BY <1>1
    <2>2. CASE script'.pc # "set"
      BY <1>1, <1>2, <2>1, <2>2, OnceKeeps
    <2>3. CASE script'.pc = "set"
      <3>1. Scanned' = Scanned /\ Recheck!DeservedBonus(script'.target) <= Told(Scanned)
        BY <1>11, <2>3 DEF Fine, Recheck!Idle, Scanned
      <3>2. \A u \in Members \ taken : entitled[u] >= Told(u)
        BY <1>2, <2>1, OnceMeans
      <3>3. script'.target \in 0..N
        BY <1>11, <2>3, RankLevels DEF Fine, Recheck!Idle, Recheck!RecheckState
      <3>4. Recheck!DeservedBonus(script'.target) \in Nat
        BY <3>3, Deserved
      <3>5. ASSUME NEW u \in Members \ taken
            PROVE  entitled[u] >= IF Scanned = u THEN Recheck!DeservedBonus(script'.target) ELSE Told(u)
        <4>1. entitled[u] \in Int
          BY <1>2 DEF Recheck!TypeOK
        <4> QED
          BY <1>4, <3>1, <3>2, <3>4, <4>1
      <3> QED
        BY <1>1, <1>4, <2>3, <3>1, <3>5 DEF Recheck!BonusTakenOnce, Recheck!At, Recheck!User, Scanned, Told
    <2> QED
      BY <2>2, <2>3
  <1> QED
    BY <1>12, <1>13, <1>14 DEF RecheckInv

LEMMA DebitKeeps == RecheckInv /\ Recheck!Debit => RecheckInv'
  <1> SUFFICES ASSUME RecheckInv, Recheck!Debit PROVE RecheckInv'
    OBVIOUS
  <1>1. /\ script.pc = "debit"
        /\ UNCHANGED <<deposited, rank, record, scriptRuns, rankChanges, touched, limited, taken>>
    BY DEF Recheck!Debit, Recheck!counters, Recheck!At
  <1>2. Recheck!TypeOK /\ Walk /\ Taken /\ Recheck!BonusTakenOnce
    BY DEF RecheckInv
  <1>3. script \in Recheck!RecheckState /\ Scanned \in Members /\ script.at \in 1..Cardinality(Members)
    BY <1>1, <1>2, Working DEF Clawing
  <1>4. \A u : Told(u)' = Told(u)
    BY <1>1 DEF Told, Recheck!Has
  <1>5. CASE bonusWallet[Scanned] >= script.amount
    <2>1. /\ bonusWallet' = [bonusWallet EXCEPT ![Scanned] = @ - script.amount]
          /\ entitled' = [entitled EXCEPT ![Scanned] = @ - script.amount]
          /\ script' = [script EXCEPT !.pc = "set"]
      BY <1>5 DEF Recheck!Debit, Recheck!User, Scanned, Recheck!Goto
    <2>2. script.amount \in Nat /\ script.earned \in Nat /\ script.target \in 0..N
      BY <1>3, RankLevels DEF Recheck!RecheckState
    <2>3. /\ script' \in Recheck!RecheckState /\ script'.pc = "set" /\ script'.users = script.users
          /\ script'.at = script.at /\ script'.target = script.target
      BY <1>3, <2>1 DEF Recheck!RecheckState
    <2>4. /\ bonusWallet' \in [Members -> Nat] /\ entitled' \in [Members -> Int]
          /\ entitled'[Scanned] = entitled[Scanned] - script.amount
          /\ \A u \in Members \ {Scanned} : entitled'[u] = entitled[u]
      <3>1. bonusWallet \in [Members -> Nat] /\ entitled \in [Members -> Int]
        BY <1>2 DEF Recheck!TypeOK
      <3>2. bonusWallet[Scanned] - script.amount \in Nat /\ entitled[Scanned] - script.amount \in Int
        BY <1>3, <1>5, <2>2, <3>1
      <3> QED
        BY <1>3, <2>1, <3>1, <3>2
    <2>5. Recheck!TypeOK'
      BY <1>1, <1>2, <2>3, <2>4 DEF Recheck!TypeOK
    <2>6. Walk' /\ Cached' /\ Passed' /\ Recheck!NobodyAboveEligible'
      BY <1>1, <1>3, <2>3, ClawKeeps DEF Clawing
    <2>7. Taken' /\ Scanned' = Scanned
      BY <1>1, <1>2, <2>3 DEF Taken, Scanned, Recheck!Has
    <2>8. Recheck!DeservedBonus(script.target) \in Nat
      BY <2>2, Deserved
    <2>9. ASSUME NEW u \in Members \ taken
          PROVE  entitled'[u] >= IF Scanned = u THEN Recheck!DeservedBonus(script.target) ELSE Told(u)
      <3>1. entitled[u] >= Told(u) /\ entitled[u] \in Int /\ Told(u) \in Nat
        BY <1>1, <1>2, OnceMeans, TellingBonus DEF Recheck!TypeOK
      <3>2. CASE u = Scanned
        <4>1. script.earned <= Told(u) /\ script.amount + Recheck!DeservedBonus(script.target) <= script.earned
          BY <1>1, <1>2, <3>2 DEF Taken
        <4> QED
          BY <2>2, <2>4, <2>8, <3>1, <3>2, <4>1
      <3>3. CASE u # Scanned
        BY <2>4, <3>1, <3>3
      <3> QED
        BY <3>2, <3>3
    <2>10. Recheck!BonusTakenOnce'
      BY <1>1, <1>4, <2>3, <2>7, <2>9 DEF Recheck!BonusTakenOnce, Recheck!At, Recheck!User, Scanned, Told
    <2> QED
      BY <2>5, <2>6, <2>7, <2>10 DEF RecheckInv
  <1>6. CASE ~(bonusWallet[Scanned] >= script.amount)
    <2>1. script' = Recheck!Idle /\ UNCHANGED <<bonusWallet, entitled>>
      BY <1>6 DEF Recheck!Debit, Recheck!User, Scanned
    <2>2. Recheck!TypeOK'
      BY <1>1, <1>2, <2>1 DEF Recheck!TypeOK
    <2>3. (script.pc \notin Scanning \cup Clawing)' /\ script'.pc # "set"
      BY <2>1 DEF Recheck!Idle, Scanning, Clawing
    <2>4. Recheck!BonusTakenOnce'
      BY <1>1, <1>2, <2>1, <2>3, OnceKeeps
    <2>5. (Walk /\ Cached /\ Passed /\ Recheck!NobodyAboveEligible /\ Taken)'
      BY <2>3, OutOfScript, PTL
    <2> QED
      BY <2>2, <2>4, <2>5 DEF RecheckInv
  <1> QED
    BY <1>5, <1>6

\* The records of a user and of the others when that of the user is set.
LEMMA RecordSet ==
    ASSUME Recheck!TypeOK, NEW u \in Members, NEW r \in Recheck!Record, record' = [record EXCEPT ![u] = r]
    PROVE  /\ record' \in [Members -> Recheck!Record \cup {Recheck!NoRecord}]
           /\ Told(u)' = r.bonusEarned /\ Recheck!Has(u)'
           /\ \A v \in Members \ {u} : Told(v)' = Told(v) /\ (Recheck!Has(v) <=> Recheck!Has(v)')
  <1>1. record \in [Members -> Recheck!Record \cup {Recheck!NoRecord}]
    BY DEF Recheck!TypeOK
  <1>2. record' \in [Members -> Recheck!Record \cup {Recheck!NoRecord}]
    BY <1>1
  <1>3. record'[u] = r /\ \A v \in Members \ {u} : record'[v] = record[v]
    BY <1>1
  <1>4. r # Recheck!NoRecord
    BY RankLevels DEF Recheck!Record, Recheck!NoRecord
  <1>5. Told(u)' = r.bonusEarned /\ Recheck!Has(u)'
    BY <1>3, <1>4 DEF Told, Recheck!Has
  <1>6. \A v \in Members \ {u} : Told(v)' = Told(v) /\ (Recheck!Has(v) <=> Recheck!Has(v)')
    BY <1>3 DEF Told, Recheck!Has
  <1> QED
    BY <1>2, <1>5, <1>6

LEMMA SetEarnedKeeps == RecheckInv /\ Recheck!SetEarned => RecheckInv'
  <1> SUFFICES ASSUME RecheckInv, Recheck!SetEarned PROVE RecheckInv'
    OBVIOUS
  <1>1. /\ script.pc = "set"
        /\ record' = [record EXCEPT ![Scanned].bonusEarned = Recheck!DeservedBonus(script.target)]
        /\ script' = Recheck!NextBonus
        /\ UNCHANGED <<deposited, rank, bonusWallet, scriptRuns, rankChanges, touched, limited, entitled, taken>>
    BY DEF Recheck!SetEarned, Recheck!counters, Recheck!observed, Recheck!At, Recheck!User, Scanned
  <1>2. Recheck!TypeOK /\ Walk /\ Taken /\ Recheck!BonusTakenOnce
    BY DEF RecheckInv
  <1>3. script \in Recheck!RecheckState /\ Scanned \in Members /\ script.at \in 1..Cardinality(Members)
    BY <1>1, <1>2, Working DEF Clawing
  <1>4. record[Scanned] \in Recheck!Record
    BY <1>1, <1>2, <1>3 DEF Taken, Recheck!Has, Recheck!TypeOK
  <1>5. Recheck!DeservedBonus(script.target) \in Nat
    BY <1>3, Deserved, RankLevels DEF Recheck!RecheckState
  <1> DEFINE r == [record[Scanned] EXCEPT !.bonusEarned = Recheck!DeservedBonus(script.target)]
  <1>6. r \in Recheck!Record /\ r.bonusEarned = Recheck!DeservedBonus(script.target)
    BY <1>4, <1>5 DEF Recheck!Record
  <1> HIDE DEF r
  <1>7. PICK w \in Members : w = Scanned
    BY <1>3
  <1>8. /\ record' \in [Members -> Recheck!Record \cup {Recheck!NoRecord}]
        /\ Told(w)' = Recheck!DeservedBonus(script.target)
        /\ \A v \in Members \ {w} : Told(v)' = Told(v)
    <2>1. record' = [record EXCEPT ![w] = r]
      BY <1>1, <1>7 DEF r
    <2> QED
      BY <1>2, <1>6, <2>1, RecordSet
  <1>9. \/ script' = Recheck!Idle
        \/ /\ script' \in Recheck!RecheckState /\ script'.pc = "earned"
           /\ script'.users = script.users /\ script'.at \in 1..Cardinality(Members)
    BY <1>1, <1>2, NextBonusIs DEF Clawing
  <1>10. Recheck!TypeOK'
    BY <1>1, <1>2, <1>8, <1>9 DEF Recheck!TypeOK
  <1>11. Walk' /\ Cached' /\ Passed' /\ Recheck!NobodyAboveEligible' /\ Taken'
    <2>1. CASE script' = Recheck!Idle
      <3>1. (script.pc \notin Scanning \cup Clawing)'
        BY <2>1 DEF Recheck!Idle, Scanning, Clawing
      <3> QED
        BY <3>1, OutOfScript, PTL
    <2>2. CASE script' # Recheck!Idle
      <3>1. Walk' /\ Cached' /\ Passed' /\ Recheck!NobodyAboveEligible'
        BY <1>1, <1>9, <2>2, ClawKeeps DEF Clawing
      <3>2. Taken'
        BY <1>9, <2>2 DEF Taken
      <3> QED
        BY <3>1, <3>2
    <2> QED
      BY <2>1, <2>2
  <1>12. Recheck!BonusTakenOnce'
    <2>1. script'.pc # "set"
      BY <1>9 DEF Recheck!Idle
    <2>2. \A u \in Members \ taken : entitled[u] >= Told(u)'
      BY <1>1, <1>2, <1>7, <1>8, OnceMeans
    <2> QED
      BY <1>1, <2>1, <2>2 DEF Recheck!BonusTakenOnce, Recheck!At, Told
  <1> QED
    BY <1>10, <1>11, <1>12 DEF RecheckInv

LEMMA ScriptEndKeeps ==
    ASSUME RecheckInv, Recheck!ResetRead \/ Recheck!ResetWrite \/ Recheck!Stop
    PROVE  RecheckInv'
  <1>1. Recheck!TypeOK /\ Recheck!BonusTakenOnce /\ Walk
    BY DEF RecheckInv
  <1>2. CASE Recheck!ResetRead
    <2>1. /\ script = Recheck!Idle /\ scriptRuns' = scriptRuns + 1 /\ touched' = {}
          /\ UNCHANGED <<deposited, rank, record, bonusWallet, rankChanges, limited, entitled, taken>>
          /\ script' \in Recheck!ResetState
      BY <1>2 DEF Recheck!ResetRead, Recheck!data, Recheck!ResetState
    <2>2. script'.pc = "reset"
      BY <2>1 DEF Recheck!ResetState
    <2>3. scriptRuns' \in Nat /\ touched' \subseteq Members
      BY <1>1, <2>1 DEF Recheck!TypeOK
    <2>4. Recheck!TypeOK'
      BY <1>1, <2>1, <2>3 DEF Recheck!TypeOK
    <2>5. (script.pc \notin Scanning \cup Clawing)'
      BY <2>2 DEF Scanning, Clawing
    <2>6. (Walk /\ Cached /\ Passed /\ Recheck!NobodyAboveEligible /\ Taken)'
      BY <2>5, OutOfScript, PTL
    <2>7. Recheck!BonusTakenOnce'
      BY <1>1, <2>1, <2>2, OnceKeeps DEF Recheck!Idle
    <2> QED
      BY <2>4, <2>6, <2>7 DEF RecheckInv
  <1>3. CASE Recheck!ResetWrite
    <2>1. /\ script.pc = "reset" /\ script' = Recheck!Idle
          /\ rank' = [u \in Members |-> IF u \in script.todo THEN Recheck!NONE ELSE rank[u]]
          /\ UNCHANGED <<deposited, record, bonusWallet, scriptRuns, rankChanges, touched, limited,
                         entitled, taken>>
      BY <1>3 DEF Recheck!ResetWrite, Recheck!counters, Recheck!observed, Recheck!At
    <2>2. script'.pc = "idle"
      BY <2>1 DEF Recheck!Idle
    <2>3. rank' \in [Members -> Recheck!RankLevel]
      BY <1>1, <2>1 DEF Recheck!TypeOK, Recheck!RankLevel
    <2>4. Recheck!TypeOK'
      BY <1>1, <2>1, <2>3 DEF Recheck!TypeOK
    <2>5. (script.pc \notin Scanning \cup Clawing)'
      BY <2>2 DEF Scanning, Clawing
    <2>6. (Walk /\ Cached /\ Passed /\ Recheck!NobodyAboveEligible /\ Taken)'
      BY <2>5, OutOfScript, PTL
    <2>7. Recheck!BonusTakenOnce'
      BY <1>1, <2>1, <2>2, OnceKeeps
    <2> QED
      BY <2>4, <2>6, <2>7 DEF RecheckInv
  <1>4. CASE Recheck!Stop
    <2>1. /\ script' = Recheck!Idle
          /\ taken' = IF script.pc = "set" THEN taken \cup {Scanned} ELSE taken
          /\ UNCHANGED <<deposited, rank, record, bonusWallet, scriptRuns, rankChanges, touched, limited,
                         entitled>>
      BY <1>4 DEF Recheck!Stop, Recheck!data, Recheck!counters, Recheck!At, Recheck!User, Scanned
    <2>2. script'.pc = "idle"
      BY <2>1 DEF Recheck!Idle
    <2>3. taken' \subseteq Members
      <3>1. script.pc = "set" => Scanned \in Members
        BY <1>1, Working DEF Clawing
      <3> QED
        BY <1>1, <2>1, <3>1 DEF Recheck!TypeOK
    <2>4. Recheck!TypeOK'
      BY <1>1, <2>1, <2>3 DEF Recheck!TypeOK
    <2>5. (script.pc \notin Scanning \cup Clawing)'
      BY <2>2 DEF Scanning, Clawing
    <2>6. (Walk /\ Cached /\ Passed /\ Recheck!NobodyAboveEligible /\ Taken)'
      BY <2>5, OutOfScript, PTL
    <2>7. Recheck!BonusTakenOnce'
      <3>1. \A u \in Members \ taken' : entitled[u] >= Told(u)
        BY <1>1, <2>1, OnceMeans
      <3> QED
        BY <2>1, <2>2, <3>1 DEF Recheck!BonusTakenOnce, Recheck!At, Told, Recheck!Has
    <2> QED
      BY <2>4, <2>6, <2>7 DEF RecheckInv
  <1> QED
    BY <1>2, <1>3, <1>4

\* What the server does while a script runs: the user is touched, and the
\* record says no less.
LEMMA ServerKeeps ==
    ASSUME RecheckInv, NEW u \in Members, NEW level \in 0..N, NEW bonus \in Nat,
           UNCHANGED <<deposited, script, scriptRuns, limited, taken>>,
           rankChanges' \in Nat, bonusWallet' \in [Members -> Nat],
           rank' = [rank EXCEPT ![u] = level],
           \/ record' = [record EXCEPT ![u] = Recheck!AtLevel(u, level, bonus)]
           \/ record' = record,
           touched' = touched \cup {u},
           entitled' = [entitled EXCEPT ![u] = @ + bonus]
    PROVE  RecheckInv'
  <1>1. Recheck!TypeOK /\ Walk /\ Cached /\ Taken /\ Recheck!BonusTakenOnce
    BY DEF RecheckInv
  <1>2. /\ record' \in [Members -> Recheck!Record \cup {Recheck!NoRecord}]
        /\ \A v \in Members : /\ Told(v)' \in Nat /\ Told(v) \in Nat
                              /\ Recheck!Has(v) => Recheck!Has(v)'
                              /\ Told(v) <= Told(v)' /\ Told(v)' <= Told(v) + IF v = u THEN bonus ELSE 0
    <2>1. \A v \in Members : Told(v) \in Nat
      BY <1>1, TellingBonus
    <2>2. CASE record' = [record EXCEPT ![u] = Recheck!AtLevel(u, level, bonus)]
      <3> DEFINE r == Recheck!AtLevel(u, level, bonus)
      <3>1. r \in Recheck!Record /\ r.bonusEarned = Told(u) + bonus
        <4>1. CASE Recheck!Has(u)
          <5>1. record[u] \in Recheck!Record
            BY <1>1, <4>1 DEF Recheck!Has, Recheck!TypeOK
          <5>2. r = [record[u] EXCEPT !.level = level, !.bonusEarned = record[u].bonusEarned + bonus]
            BY <4>1 DEF Recheck!AtLevel
          <5>3. record[u].bonusEarned + bonus \in Nat /\ level \in Recheck!RankLevel
            BY <5>1, RankLevels DEF Recheck!Record
          <5> QED
            BY <4>1, <5>1, <5>2, <5>3 DEF Recheck!Record, Told
        <4>2. CASE ~Recheck!Has(u)
          BY <4>2, RankLevels DEF Recheck!AtLevel, Recheck!Record, Told
        <4> QED
          BY <4>1, <4>2
      <3>2. record' = [record EXCEPT ![u] = r]
        BY <2>2
      <3> HIDE DEF r
      <3>3. /\ record' \in [Members -> Recheck!Record \cup {Recheck!NoRecord}]
            /\ Told(u)' = r.bonusEarned /\ Recheck!Has(u)'
            /\ \A v \in Members \ {u} : Told(v)' = Told(v) /\ (Recheck!Has(v) <=> Recheck!Has(v)')
        BY <1>1, <3>1, <3>2, RecordSet
      <3>4. ASSUME NEW v \in Members
            PROVE  /\ Told(v)' \in Nat /\ Told(v) \in Nat /\ (Recheck!Has(v) => Recheck!Has(v)')
                   /\ Told(v) <= Told(v)' /\ Told(v)' <= Told(v) + IF v = u THEN bonus ELSE 0
        <4>1. CASE v = u
          BY <2>1, <3>1, <3>3, <4>1
        <4>2. CASE v # u
          BY <2>1, <3>3, <4>2
        <4> QED
          BY <4>1, <4>2
      <3> QED
        BY <3>3, <3>4
    <2>3. CASE record' = record
      <3>1. \A v : Told(v)' = Told(v) /\ (Recheck!Has(v) <=> Recheck!Has(v)')
        BY <2>3 DEF Told, Recheck!Has
      <3> QED
        BY <1>1, <2>1, <2>3, <3>1 DEF Recheck!TypeOK
    <2> QED
      BY <2>2, <2>3
  <1>3. Recheck!TypeOK'
    <2>1. rank' \in [Members -> Recheck!RankLevel]
      BY <1>1, RankLevels DEF Recheck!TypeOK
    <2>2. entitled' \in [Members -> Int] /\ touched' \subseteq Members
      BY <1>1 DEF Recheck!TypeOK
    <2> QED
      BY <1>1, <1>2, <2>1, <2>2 DEF Recheck!TypeOK
  <1>4. Walk'
    BY <1>1 DEF Walk
  <1>5. Cached'
    <2>1. \A v \in Members \ touched' : rank'[v] = rank[v] /\ v \in Members \ touched
      BY <1>1 DEF Recheck!TypeOK
    <2> QED
      BY <1>1, <2>1 DEF Cached, Scanned
  <1>6. Passed' /\ Recheck!NobodyAboveEligible'
    BY DEF Passed, Recheck!NobodyAboveEligible
  <1>7. Taken'
    <2> SUFFICES ASSUME script.pc \in {"deserved", "wallet", "debit", "set"} PROVE Taken'
      BY DEF Taken
    <2>1. script \in Recheck!RecheckState /\ Scanned \in Members
      BY <1>1, Working DEF Clawing
    <2>2. PICK w \in Members : w = Scanned /\ w = Scanned'
      BY <2>1 DEF Scanned
    <2>3. script.earned \in Nat
      BY <2>1 DEF Recheck!RecheckState
    <2>4. /\ script.pc \in {"deserved", "wallet", "debit"} => script.earned <= Told(w)'
          /\ script.pc \in {"wallet", "debit", "set"} => Recheck!Has(w)'
      BY <1>1, <1>2, <2>2, <2>3 DEF Taken
    <2> QED
      BY <1>1, <2>2, <2>4 DEF Taken, Told, Recheck!Has
  <1>8. Recheck!BonusTakenOnce'
    <2> SUFFICES ASSUME NEW v \in Members \ taken
                 PROVE  entitled'[v] >= IF script.pc = "set" /\ Scanned = v
                                        THEN Recheck!DeservedBonus(script.target) ELSE Told(v)'
      BY DEF Recheck!BonusTakenOnce, Recheck!At, Recheck!User, Scanned, Told, Recheck!Has
    <2>1. entitled[v] \in Int /\ entitled'[v] = entitled[v] + IF v = u THEN bonus ELSE 0
      BY <1>1 DEF Recheck!TypeOK
    <2>2. entitled[v] >= IF script.pc = "set" /\ Scanned = v
                         THEN Recheck!DeservedBonus(script.target) ELSE Told(v)
      BY <1>1, OnceMeans
    <2>3. CASE script.pc = "set" /\ Scanned = v
      <3>1. Recheck!DeservedBonus(script.target) \in Nat
        <4>1. script.target \in 0..N
          BY <1>1, <2>3, Working, RankLevels DEF Clawing, Recheck!RecheckState
        <4> QED
          BY <4>1, Deserved
      <3> QED
        BY <2>1, <2>2, <2>3, <3>1
    <2>4. CASE ~(script.pc = "set" /\ Scanned = v)
      <3>1. Told(v) \in Nat /\ Told(v)' \in Nat /\ Told(v)' <= Told(v) + IF v = u THEN bonus ELSE 0
        BY <1>2
      <3>2. entitled[v] >= Told(v)
        BY <2>2, <2>4
      <3>3. entitled'[v] >= Told(v)'
        BY <2>1, <3>1, <3>2
      <3> QED
        BY <2>4, <3>3
    <2> QED
      BY <2>3, <2>4
  <1> QED
    BY <1>3, <1>4, <1>5, <1>6, <1>7, <1>8 DEF RecheckInv

LEMMA PromoteKeeps == ASSUME RecheckInv, NEW u \in Members, Recheck!Promote(u) PROVE RecheckInv'
  <1> DEFINE level == Recheck!EligibleRank(u)
             bonus == RANK_DEFINITIONS[level].rankBonus
  <1>1. /\ rankChanges' = rankChanges + 1 /\ level > rank[u]
        /\ rank' = [rank EXCEPT ![u] = level]
        /\ record' = [record EXCEPT ![u] = Recheck!AtLevel(u, level, bonus)]
        /\ bonusWallet' = [bonusWallet EXCEPT ![u] = @ + bonus]
        /\ touched' = touched \cup {u}
        /\ entitled' = [entitled EXCEPT ![u] = @ + bonus]
        /\ UNCHANGED <<deposited, script, scriptRuns, limited, taken>>
    BY DEF Recheck!Promote, Recheck!Change
  <1>2. Recheck!TypeOK
    BY DEF RecheckInv
  <1>3. level \in 0..N /\ rank[u] \in 0..N
    BY <1>2, Eligible, RankLevels DEF Recheck!TypeOK
  <1> HIDE DEF level
  <1>4. level \in 1..N
    BY <1>1, <1>3, RankLevels
  <1>5. bonus \in Nat
    BY <1>4, RankLevels
  <1> HIDE DEF bonus
  <1>6. bonusWallet' \in [Members -> Nat] /\ rankChanges' \in Nat
    BY <1>1, <1>2, <1>5 DEF Recheck!TypeOK
  <1> QED
    BY <1>1, <1>3, <1>5, <1>6, ServerKeeps

LEMMA UpdateUserRankKeeps ==
    ASSUME RecheckInv, NEW u \in Members, NEW level \in Recheck!RankLevel, Recheck!UpdateUserRank(u, level)
    PROVE  RecheckInv'
  <1>1. /\ rankChanges' = rankChanges + 1
        /\ rank' = [rank EXCEPT ![u] = level]
        /\ \/ record' = [record EXCEPT ![u] = Recheck!AtLevel(u, level, 0)]
           \/ record' = record
        /\ touched' = touched \cup {u}
        /\ UNCHANGED <<deposited, bonusWallet, script, scriptRuns, limited, entitled, taken>>
    BY DEF Recheck!UpdateUserRank, Recheck!Change
  <1>2. Recheck!TypeOK
    BY DEF RecheckInv
  <1>3. bonusWallet' \in [Members -> Nat] /\ rankChanges' \in Nat
    BY <1>1, <1>2 DEF Recheck!TypeOK
  <1>4. entitled' = [entitled EXCEPT ![u] = @ + 0]
    BY <1>1, <1>2 DEF Recheck!TypeOK
  <1>5. level \in 0..N
    BY RankLevels
  <1> QED
    BY <1>1, <1>3, <1>4, <1>5, ServerKeeps

LEMMA SpendKeeps == ASSUME RecheckInv, NEW u \in Members, Recheck!Spend(u) PROVE RecheckInv'
  <1>1. /\ rankChanges' = rankChanges + 1 /\ bonusWallet' = [bonusWallet EXCEPT ![u] = 0]
        /\ UNCHANGED <<deposited, rank, record, script, scriptRuns, touched, limited, entitled, taken>>
    BY DEF Recheck!Spend, Recheck!Change, Recheck!observed
  <1>2. Recheck!TypeOK'
    BY <1>1 DEF RecheckInv, Recheck!TypeOK
  <1>3. \A v : Recheck!EligibleRank(v)' = Recheck!EligibleRank(v)
    BY <1>1, EligibleSame
  <1>4. Walk' /\ Cached' /\ Taken' /\ Recheck!BonusTakenOnce'
    BY <1>1 DEF RecheckInv, Walk, Cached, Taken, Recheck!BonusTakenOnce, Scanned, Told, Recheck!Has,
                Recheck!At, Recheck!User
  <1>5. Passed' /\ Recheck!NobodyAboveEligible'
    BY <1>1, <1>3 DEF RecheckInv, Passed, Recheck!NobodyAboveEligible
  <1> QED
    BY <1>2, <1>4, <1>5 DEF RecheckInv

LEMMA RecheckNext == RecheckInv /\ Recheck!Next => RecheckInv'
  <1> SUFFICES ASSUME RecheckInv, Recheck!Next PROVE RecheckInv'
    OBVIOUS
  <1>1. CASE Recheck!Recheck
    BY <1>1, ReadUsersKeeps, CompareKeeps, UpdateRankKeeps, SyncRecordKeeps, ReadingKeeps, DebitKeeps,
       SetEarnedKeeps DEF Recheck!Recheck
  <1>2. CASE Recheck!ResetRead \/ Recheck!ResetWrite \/ Recheck!Stop
    BY <1>2, ScriptEndKeeps
  <1>3. ASSUME NEW u \in Members, \/ Recheck!Promote(u) \/ Recheck!Spend(u)
                                  \/ \E level \in Recheck!RankLevel : Recheck!UpdateUserRank(u, level)
        PROVE  RecheckInv'
    BY <1>3, PromoteKeeps, SpendKeeps, UpdateUserRankKeeps
  <1> QED
    BY <1>1, <1>2, <1>3 DEF Recheck!Next

\* The scripts raise nobody the server has not touched.
LEMMA RecheckRaises == RecheckInv /\ Recheck!Next => Recheck!RaisesOnlyTouched
  <1> SUFFICES ASSUME RecheckInv, Recheck!Next, NEW u \in Members, u \notin touched'
               PROVE  ~(rank'[u] > rank[u])
    BY DEF Recheck!RaisesOnlyTouched
  <1>1. Recheck!TypeOK /\ Walk /\ Cached
    BY DEF RecheckInv
  <1>2. rank \in [Members -> 0..N] /\ N \in Nat
    BY <1>1, RankLevels DEF Recheck!TypeOK
  <1>3. CASE rank' = rank
    BY <1>2, <1>3
  <1>4. CASE Recheck!UpdateRank
    <2>1. /\ script.pc = "rank" /\ rank' = [rank EXCEPT ![Scanned] = script.target] /\ u \notin touched
      BY <1>4 DEF Recheck!UpdateRank, Recheck!At, Recheck!User, Scanned, Recheck!observed
    <2>2. script.target \in 0..N
      BY <1>1, <2>1, Working, RankLevels DEF Scanning, Recheck!RecheckState
    <2>3. u = Scanned => script.target < rank[u]
      BY <1>1, <2>1 DEF Cached, Scanning
    <2> QED
      BY <1>2, <2>1, <2>2, <2>3
  <1>5. CASE Recheck!ResetWrite
    <2>1. rank'[u] \in {0, rank[u]}
      BY <1>5 DEF Recheck!ResetWrite, Recheck!NONE
    <2> QED
      BY <1>2, <2>1
  <1>6. ASSUME NEW v \in Members, NEW level, rank' = [rank EXCEPT ![v] = level], touched' = touched \cup {v}
        PROVE  ~(rank'[u] > rank[u])
    <2>1. rank'[u] = rank[u]
      BY <1>2, <1>6
    <2> QED
      BY <1>2, <2>1
  <1>7. \/ rank' = rank \/ Recheck!UpdateRank \/ Recheck!ResetWrite
        \/ \E v \in Members, level \in 0..N : rank' = [rank EXCEPT ![v] = level] /\ touched' = touched \cup {v}
    <2>1. CASE Recheck!Recheck
      BY <2>1 DEF Recheck!Recheck, Recheck!ReadUsers, Recheck!Compare, Recheck!SyncRecord, Recheck!ReadEarned,
                  Recheck!ReadDeserved, Recheck!FindWallet, Recheck!Debit, Recheck!SetEarned, Recheck!data
    <2>2. CASE Recheck!ResetRead \/ Recheck!Stop
      BY <2>2 DEF Recheck!ResetRead, Recheck!Stop, Recheck!data
    <2>3. ASSUME NEW v \in Members, Recheck!Promote(v)
          PROVE  \E level \in 0..N : rank' = [rank EXCEPT ![v] = level] /\ touched' = touched \cup {v}
      BY <2>3, Eligible DEF Recheck!Promote
    <2>4. ASSUME NEW v \in Members, Recheck!Spend(v) PROVE rank' = rank
      BY <2>4 DEF Recheck!Spend
    <2>5. ASSUME NEW v \in Members, NEW level \in Recheck!RankLevel, Recheck!UpdateUserRank(v, level)
          PROVE  rank' = [rank EXCEPT ![v] = level] /\ touched' = touched \cup {v} /\ level \in 0..N
      BY <2>5, RankLevels DEF Recheck!UpdateUserRank
    <2> QED
      BY <2>1, <2>2, <2>3, <2>4, <2>5 DEF Recheck!Next
  <1> QED
    BY <1>3, <1>4, <1>5, <1>6, <1>7

-------------------------------------------------------------------------------
(* Lists *)

\* How many rows of S come before r, by their places f, and the rows of T that
\* come in the first k and are not in seen.
RankIn(S, f, r) == Cardinality({q \in S : f[q] > f[r]})
Overlooked(T, S, f, seen, k) == {r \in T \ seen : RankIn(S, f, r) < k}
Asked == reader.pc = "queries"
PageIsFound == reader.found # {}
SeenByNow == reader.seen \cup UNION reader.found

\* Rows have places of their own.
Placed ==
    /\ position \in [Rows -> Nat]
    /\ \A r, q \in Rows : position[r] = position[q] /\ position[r] # 0 => r = q
    /\ listed \subseteq {r \in Rows : position[r] # 0} /\ throughout \subseteq listed
    /\ left \in Nat /\ moved \in Nat /\ late \in Nat

ReaderOK ==
    /\ reader \in Lists!Reader
    /\ reader.page >= 1 /\ (reader.total = -1 \/ reader.total \in Nat)
    /\ reader.pc = "done" => UNION reader.found \subseteq reader.seen

\* What was overlooked before the page, and with the page.
BeforePage == Asked /\ ~PageIsFound =>
                  Cardinality(Overlooked(throughout, listed, position, reader.seen, Lists!Skip(reader.page))) <= left + moved
WithPage == Asked /\ PageIsFound =>
                Cardinality(Overlooked(throughout, listed, position, SeenByNow, Lists!Skip(reader.page + 1))) <= left + moved
\* The number counted first.
CountedFirst == Asked /\ ~PageIsFound /\ reader.total # -1 => Cardinality(listed) <= reader.total + late
\* What is overlooked at the end.
LastPage ==
    \/ reader.pc = "done"
    \/ Asked /\ PageIsFound /\ reader.total # -1 /\ reader.page >= Lists!TotalPages(reader.total)
AtTheEnd == LastPage => Cardinality(throughout \ SeenByNow) <= left + moved + late

ListInv == Placed /\ ReaderOK /\ BeforePage /\ WithPage /\ CountedFirst /\ AtTheEnd

LEMMA Pages ==
    ASSUME NEW page \in Nat \ {0}
    PROVE  /\ Lists!Skip(page) \in Nat /\ Lists!Skip(page + 1) \in Nat
           /\ Lists!Skip(page + 1) = Lists!Skip(page) + Limit
           /\ Limit \in Nat \ {0}
  <1>1. Limit \in Nat \ {0} /\ page - 1 \in Nat
    BY LimitAssumption
  <1>2. (page - 1) * Limit \in Nat /\ page * Limit = (page - 1) * Limit + Limit
    BY <1>1
  <1>3. page + 1 - 1 = page
    OBVIOUS
  <1> QED
    BY <1>1, <1>2, <1>3 DEF Lists!Skip

\* The pages of a total have room for it.
LEMMA PagesSuffice ==
    ASSUME NEW total \in Nat, NEW page \in Nat, page >= Lists!TotalPages(total)
    PROVE  total <= Lists!Skip(page + 1)
  <1> DEFINE d == (total + Limit - 1) \div Limit
  <1>1. Limit \in Nat \ {0}
    BY LimitAssumption
  <1>2. d \in Int /\ total + Limit - 1 < Limit * (d + 1)
    BY <1>1
  <1>3. d <= page
    BY DEF Lists!TotalPages
  <1> HIDE DEF d
  <1>4. Limit * (d + 1) = Limit * d + Limit /\ Limit * d \in Int
    BY <1>1, <1>2
  <1>5. total <= Limit * d
    BY <1>1, <1>2, <1>4
  <1>6. Limit * d <= Limit * page /\ Limit * page = page * Limit /\ Limit * page \in Int
    BY <1>1, <1>2, <1>3
  <1>7. Lists!Skip(page + 1) = page * Limit
    <2>1. page + 1 - 1 = page
      OBVIOUS
    <2> QED
      BY <2>1 DEF Lists!Skip
  <1> QED
    BY <1>4, <1>5, <1>6, <1>7

LEMMA FiniteRows ==
    ASSUME NEW S, S \subseteq Rows
    PROVE  IsFiniteSet(S) /\ Cardinality(S) \in Nat /\ \A T : T \subseteq S => Cardinality(T) <= Cardinality(S)
  <1>1. IsFiniteSet(S)
    BY FiniteAssumption, FS_Subset
  <1> QED
    BY <1>1, FS_Subset, FS_CardinalityType

LEMMA AtMost ==
    ASSUME NEW S, NEW T, IsFiniteSet(S), IsFiniteSet(T), NEW A, A \subseteq S \cup T
    PROVE  IsFiniteSet(A) /\ Cardinality(A) \in Nat /\ Cardinality(A) <= Cardinality(S) + Cardinality(T)
  <1>1. IsFiniteSet(S \cup T) /\ Cardinality(S \cup T) = Cardinality(S) + Cardinality(T) - Cardinality(S \cap T)
    BY FS_Union
  <1>2. IsFiniteSet(S \cap T)
    BY FS_Subset
  <1>3. /\ Cardinality(S) \in Nat /\ Cardinality(T) \in Nat /\ Cardinality(S \cap T) \in Nat
        /\ Cardinality(S \cup T) \in Nat
    BY <1>1, <1>2, FS_CardinalityType
  <1>4. IsFiniteSet(A) /\ Cardinality(A) <= Cardinality(S \cup T)
    BY <1>1, FS_Subset
  <1>5. Cardinality(A) \in Nat
    BY <1>4, FS_CardinalityType
  <1> QED
    BY <1>1, <1>3, <1>4, <1>5

LEMMA RankBetween ==
    ASSUME NEW S, S \subseteq Rows, NEW f \in [Rows -> Nat], NEW r \in S
    PROVE  RankIn(S, f, r) \in Nat /\ RankIn(S, f, r) < Cardinality(S)
  <1> DEFINE B == {q \in S : f[q] > f[r]}
  <1>1. B \subseteq S \ {r}
    OBVIOUS
  <1>2. IsFiniteSet(S) /\ Cardinality(S \ {r}) = Cardinality(S) - 1 /\ Cardinality(S) \in Nat
    BY FiniteRows, FS_RemoveElement
  <1>3. Cardinality(B) \in Nat /\ Cardinality(B) <= Cardinality(S \ {r})
    <2>1. S \ {r} \subseteq Rows
      OBVIOUS
    <2> HIDE DEF B
    <2> QED
      BY <1>1, <2>1, FiniteRows
  <1> HIDE DEF B
  <1>4. RankIn(S, f, r) = Cardinality(B)
    BY DEF RankIn, B
  <1> QED
    BY <1>2, <1>3, <1>4

LEMMA RankOrders ==
    ASSUME NEW S, S \subseteq Rows, NEW f \in [Rows -> Nat], NEW r \in S, NEW q \in S, f[q] > f[r]
    PROVE  RankIn(S, f, q) < RankIn(S, f, r)
  <1> DEFINE B(x) == {p \in S : f[p] > f[x]}
  <1>1. B(q) \subseteq B(r) /\ q \in B(r) /\ q \notin B(q)
    OBVIOUS
  <1>2. B(r) \subseteq Rows
    OBVIOUS
  <1> HIDE DEF B
  <1>3. IsFiniteSet(B(r)) /\ Cardinality(B(r)) \in Nat
    BY <1>2, FiniteRows
  <1>4. Cardinality(B(q)) <= Cardinality(B(r)) /\ Cardinality(B(q)) # Cardinality(B(r)) /\ Cardinality(B(q)) \in Nat
    BY <1>1, <1>3, FS_Subset, FS_CardinalityType
  <1>5. RankIn(S, f, q) = Cardinality(B(q)) /\ RankIn(S, f, r) = Cardinality(B(r))
    BY DEF RankIn, B
  <1> QED
    BY <1>3, <1>4, <1>5

\* No two rows have the same rank: no more than n are in n ranks.
LEMMA Block ==
    ASSUME NEW S, S \subseteq Rows, NEW f \in [Rows -> Nat], \A r, q \in S : f[r] = f[q] => r = q,
           NEW k \in Nat, NEW n \in Nat, NEW A, A \subseteq S,
           \A r \in A : k <= RankIn(S, f, r) /\ RankIn(S, f, r) < k + n
    PROVE  IsFiniteSet(A) /\ Cardinality(A) \in Nat /\ Cardinality(A) <= n
  <1> DEFINE R == [r \in A |-> RankIn(S, f, r)]
  <1>1. R \in [A -> k..(k + n - 1)]
    <2> SUFFICES ASSUME NEW r \in A PROVE RankIn(S, f, r) \in k..(k + n - 1)
      OBVIOUS
    <2>1. RankIn(S, f, r) \in Nat /\ k <= RankIn(S, f, r) /\ RankIn(S, f, r) < k + n
      BY RankBetween
    <2> QED
      BY <2>1
  <1>2. \A r, q \in A : R[r] = R[q] => r = q
    <2> SUFFICES ASSUME NEW r \in A, NEW q \in A, r # q PROVE RankIn(S, f, r) # RankIn(S, f, q)
      OBVIOUS
    <2>1. f[r] \in Nat /\ f[q] \in Nat /\ f[r] # f[q]
      OBVIOUS
    <2>2. RankIn(S, f, r) \in Nat /\ RankIn(S, f, q) \in Nat
      BY RankBetween
    <2>3. CASE f[r] > f[q]
      <3>1. RankIn(S, f, r) < RankIn(S, f, q)
        BY <2>3, RankOrders
      <3> QED
        BY <2>2, <3>1
    <2>4. CASE f[q] > f[r]
      <3>1. RankIn(S, f, q) < RankIn(S, f, r)
        BY <2>4, RankOrders
      <3> QED
        BY <2>2, <3>1
    <2> QED
      BY <2>1, <2>3, <2>4
  <1>3. R \in Injection(A, k..(k + n - 1))
    BY <1>1, <1>2 DEF Injection, IsInjective
  <1>4. IsFiniteSet(k..(k + n - 1)) /\ Cardinality(k..(k + n - 1)) = n
    <2>1. k + n - 1 \in Int /\ (k > k + n - 1 <=> n = 0) /\ k + n - 1 - k + 1 = n
      OBVIOUS
    <2> QED
      BY <2>1, FS_Interval
  <1> HIDE DEF R
  <1>5. IsFiniteSet(A) /\ Cardinality(A) <= n
    BY <1>3, <1>4, FS_Injection
  <1> QED
    BY <1>5, FS_CardinalityType

\* Beyond the first k there are no more than the rest.
LEMMA Beyond ==
    ASSUME NEW S, S \subseteq Rows, NEW f \in [Rows -> Nat], \A r, q \in S : f[r] = f[q] => r = q,
           NEW k \in Nat, NEW n \in Nat, Cardinality(S) <= k + n, NEW A, A \subseteq S,
           \A r \in A : ~(RankIn(S, f, r) < k)
    PROVE  IsFiniteSet(A) /\ Cardinality(A) \in Nat /\ Cardinality(A) <= n
  <1>1. \A r \in A : k <= RankIn(S, f, r) /\ RankIn(S, f, r) < k + n
    <2> SUFFICES ASSUME NEW r \in A PROVE k <= RankIn(S, f, r) /\ RankIn(S, f, r) < k + n
      OBVIOUS
    <2>1. RankIn(S, f, r) \in Nat /\ RankIn(S, f, r) < Cardinality(S) /\ Cardinality(S) \in Nat
      BY RankBetween, FiniteRows
    <2> QED
      BY <2>1
  <1> QED
    BY <1>1, Block

\* When all that come before r in S do so in V, but for those of G.
LEMMA RankFalls ==
    ASSUME NEW S, S \subseteq Rows, NEW V, V \subseteq Rows, NEW G, G \subseteq Rows, NEW f, NEW g, NEW r,
           \A q \in S \ G : f[q] > f[r] => q \in V /\ g[q] > g[r]
    PROVE  RankIn(S, f, r) <= RankIn(V, g, r) + Cardinality(G)
  <1> DEFINE B == {q \in S : f[q] > f[r]}
             C == {q \in V : g[q] > g[r]}
  <1>1. B \subseteq C \cup G /\ C \subseteq Rows
    OBVIOUS
  <1> HIDE DEF B, C
  <1>2. IsFiniteSet(C) /\ IsFiniteSet(G)
    BY <1>1, FiniteRows
  <1>3. Cardinality(B) <= Cardinality(C) + Cardinality(G)
    BY <1>1, <1>2, AtMost
  <1> QED
    BY <1>3 DEF RankIn, B, C
LEMMA MoreOverlooked ==
    ASSUME NEW S, NEW V, NEW T, NEW W, T \subseteq Rows, W \subseteq Rows, NEW f, NEW g, NEW seen, NEW k, NEW n \in Nat,
           NEW E, E = Overlooked(W, V, g, seen, k) \ Overlooked(T, S, f, seen, k),
           IsFiniteSet(E), Cardinality(E) <= n
    PROVE  /\ Cardinality(Overlooked(W, V, g, seen, k)) \in Nat
           /\ Cardinality(Overlooked(W, V, g, seen, k)) <= Cardinality(Overlooked(T, S, f, seen, k)) + n
  <1> DEFINE O == Overlooked(T, S, f, seen, k)
             P == Overlooked(W, V, g, seen, k)
  <1>1. O \subseteq Rows
    BY DEF Overlooked
  <1>2. P \subseteq O \cup E
    OBVIOUS
  <1> HIDE DEF O, P
  <1>3. IsFiniteSet(O) /\ Cardinality(O) \in Nat
    BY <1>1, FiniteRows
  <1>4. Cardinality(P) \in Nat /\ Cardinality(P) <= Cardinality(O) + Cardinality(E)
    BY <1>2, <1>3, AtMost
  <1>5. Cardinality(E) \in Nat
    BY FS_CardinalityType
  <1> QED
    BY <1>3, <1>4, <1>5 DEF O, P

\* Rows that come hide no others.
LEMMA MoreRows ==
    ASSUME NEW S, NEW V, S \subseteq V, V \subseteq Rows, NEW T, T \subseteq S, NEW f, NEW g, \A q \in S : g[q] = f[q],
           NEW seen, NEW k \in Nat
    PROVE  /\ Cardinality(Overlooked(T, V, g, seen, k)) \in Nat
           /\ Cardinality(Overlooked(T, V, g, seen, k)) <= Cardinality(Overlooked(T, S, f, seen, k)) + 0
  <1> DEFINE E == Overlooked(T, V, g, seen, k) \ Overlooked(T, S, f, seen, k)
  <1>1. ASSUME NEW q \in T, RankIn(V, g, q) < k PROVE RankIn(S, f, q) < k
    <2>1. RankIn(S, f, q) <= RankIn(V, g, q) + Cardinality({})
      <3>1. \A p \in S \ {} : f[p] > f[q] => p \in V /\ g[p] > g[q]
        OBVIOUS
      <3> QED
        BY <3>1, RankFalls
    <2>2. {p \in S : f[p] > f[q]} \subseteq Rows /\ {p \in V : g[p] > g[q]} \subseteq Rows
      OBVIOUS
    <2>3. RankIn(S, f, q) \in Nat /\ RankIn(V, g, q) \in Nat
      BY <2>2, FiniteRows DEF RankIn
    <2>4. Cardinality({}) = 0
      BY FS_EmptySet
    <2> QED
      BY <1>1, <2>1, <2>3, <2>4
  <1>2. E = {}
    BY <1>1 DEF Overlooked
  <1>3. IsFiniteSet(E) /\ Cardinality(E) <= 0
    BY <1>2, FS_EmptySet
  <1>4. 0 \in Nat /\ T \subseteq Rows
    OBVIOUS
  <1> HIDE DEF E
  <1>5. E = Overlooked(T, V, g, seen, k) \ Overlooked(T, S, f, seen, k)
    BY DEF E
  <1> QED
    BY <1>3, <1>4, <1>5, MoreOverlooked

\* For each row that goes, one at most passes the reader.
LEMMA FewerRows ==
    ASSUME NEW S, S \subseteq Rows, NEW T, T \subseteq S, NEW f \in [Rows -> Nat], \A r, q \in S : f[r] = f[q] => r = q,
           NEW g, NEW gone, gone \subseteq S, \A q \in S \ gone : g[q] = f[q],
           NEW seen, NEW k \in Nat, NEW n \in Nat, Cardinality(gone) = n
    PROVE  /\ Cardinality(Overlooked(T \ gone, S \ gone, g, seen, k)) \in Nat
           /\ Cardinality(Overlooked(T \ gone, S \ gone, g, seen, k)) <= Cardinality(Overlooked(T, S, f, seen, k)) + n
  <1> DEFINE V == S \ gone
             W == T \ gone
             E == Overlooked(W, V, g, seen, k) \ Overlooked(T, S, f, seen, k)
  <1>1. V \subseteq Rows /\ W \subseteq Rows /\ T \subseteq Rows /\ gone \subseteq Rows
    OBVIOUS
  <1>2. ASSUME NEW q \in V, RankIn(V, g, q) < k PROVE RankIn(S, f, q) < k + n
    <2>1. RankIn(S, f, q) <= RankIn(V, g, q) + Cardinality(gone)
      <3>1. \A p \in S \ gone : f[p] > f[q] => p \in V /\ g[p] > g[q]
        OBVIOUS
      <3> HIDE DEF V
      <3> QED
        BY <1>1, <3>1, RankFalls
    <2>2. {p \in V : g[p] > g[q]} \subseteq Rows
      OBVIOUS
    <2>3. RankIn(S, f, q) \in Nat /\ RankIn(V, g, q) \in Nat
      BY <2>2, RankBetween, FiniteRows DEF RankIn
    <2> QED
      BY <1>2, <2>1, <2>3
  <1>3. E \subseteq S /\ \A q \in E : k <= RankIn(S, f, q) /\ RankIn(S, f, q) < k + n
    <2>1. ASSUME NEW q \in E
          PROVE  q \in S /\ q \in V /\ RankIn(V, g, q) < k /\ ~(RankIn(S, f, q) < k)
      BY DEF Overlooked
    <2>2. ASSUME NEW q \in E PROVE q \in S /\ k <= RankIn(S, f, q) /\ RankIn(S, f, q) < k + n
      <3> HIDE DEF E, V
      <3>1. q \in S /\ q \in V /\ RankIn(V, g, q) < k /\ ~(RankIn(S, f, q) < k)
        BY <2>1
      <3>2. RankIn(S, f, q) \in Nat
        BY <3>1, RankBetween
      <3>3. RankIn(S, f, q) < k + n
        BY <3>1, <1>2
      <3> QED
        BY <3>1, <3>2, <3>3
    <2> HIDE DEF E
    <2> QED
      BY <2>2
  <1>4. E = Overlooked(W, V, g, seen, k) \ Overlooked(T, S, f, seen, k)
    OBVIOUS
  <1> HIDE DEF E
  <1>5. IsFiniteSet(E) /\ Cardinality(E) <= n
    BY <1>3, Block
  <1>6. /\ Cardinality(Overlooked(W, V, g, seen, k)) \in Nat
        /\ Cardinality(Overlooked(W, V, g, seen, k)) <= Cardinality(Overlooked(T, S, f, seen, k)) + n
    <2> HIDE DEF V, W
    <2> QED
      BY <1>1, <1>4, <1>5, MoreOverlooked
  <1> QED
    BY <1>6

\* A row that moves passes the reader itself, or lets one other pass.
LEMMA RowMoves ==
    ASSUME NEW S, S \subseteq Rows, NEW T, T \subseteq S, NEW f \in [Rows -> Nat], \A r, q \in S : f[r] = f[q] => r = q,
           NEW r \in S, NEW place \in Nat, place # f[r], NEW g, g = [f EXCEPT ![r] = place],
           NEW seen, NEW k \in Nat
    PROVE  /\ Cardinality(Overlooked(T, S, g, seen, k)) \in Nat
           /\ Cardinality(Overlooked(T, S, g, seen, k)) <= Cardinality(Overlooked(T, S, f, seen, k)) + 1
  <1> DEFINE E == Overlooked(T, S, g, seen, k) \ Overlooked(T, S, f, seen, k)
  <1>1. g \in [Rows -> Nat] /\ g[r] = place /\ f[r] \in Nat /\ \A q \in S : q # r => g[q] = f[q]
    OBVIOUS
  <1>2. IsFiniteSet({r}) /\ Cardinality({r}) = 1 /\ {r} \subseteq Rows /\ Cardinality({}) = 0 /\ {} \subseteq Rows
    BY FS_Singleton, FS_EmptySet
  <1>3. \A q \in E : q \in S /\ RankIn(S, g, q) < k /\ ~(RankIn(S, f, q) < k)
    BY DEF Overlooked
  <1>4. \A q \in S : RankIn(S, f, q) \in Nat /\ RankIn(S, g, q) \in Nat
    BY <1>1, RankBetween
  <1>5. E = Overlooked(T, S, g, seen, k) \ Overlooked(T, S, f, seen, k)
    OBVIOUS
  <1> HIDE DEF E
  <1>6. CASE place > f[r]
    <2>1. ASSUME NEW q \in S, q # r PROVE RankIn(S, f, q) <= RankIn(S, g, q)
      <3>1. \A p \in S \ {} : f[p] > f[q] => p \in S /\ g[p] > g[q]
        <4> SUFFICES ASSUME NEW p \in S, f[p] > f[q] PROVE g[p] > g[q]
          OBVIOUS
        <4>1. f[p] \in Nat /\ f[q] \in Nat /\ g[q] = f[q]
          BY <1>1, <2>1
        <4>2. g[p] = f[p] \/ (g[p] = place /\ f[p] = f[r])
          BY <1>1
        <4> QED
          BY <1>1, <1>6, <4>1, <4>2
      <3>2. RankIn(S, f, q) <= RankIn(S, g, q) + Cardinality({})
        BY <1>2, <3>1, RankFalls
      <3>3. RankIn(S, f, q) \in Nat /\ RankIn(S, g, q) \in Nat
        BY <1>4
      <3>4. Cardinality({}) = 0
        BY <1>2
      <3> QED
        BY <3>2, <3>3, <3>4
    <2>2. E \subseteq {r}
      <3> SUFFICES ASSUME NEW q \in E, q # r PROVE FALSE
        OBVIOUS
      <3>1. q \in S /\ RankIn(S, g, q) < k /\ ~(RankIn(S, f, q) < k)
        BY <1>3
      <3>2. RankIn(S, f, q) \in Nat /\ RankIn(S, g, q) \in Nat
        BY <1>4, <3>1
      <3>3. RankIn(S, f, q) <= RankIn(S, g, q)
        BY <2>1, <3>1
      <3> QED
        BY <3>1, <3>2, <3>3
    <2>3. IsFiniteSet(E) /\ Cardinality(E) <= 1
      BY <1>2, <2>2, FS_Subset
    <2> QED
      BY <1>5, <2>3, MoreOverlooked
  <1>7. CASE place < f[r]
    <2>1. RankIn(S, f, r) <= RankIn(S, g, r)
      <3>1. \A p \in S \ {} : f[p] > f[r] => p \in S /\ g[p] > g[r]
        <4> SUFFICES ASSUME NEW p \in S, f[p] > f[r] PROVE g[p] > g[r]
          OBVIOUS
        <4>1. f[p] \in Nat
          OBVIOUS
        <4>2. p # r
          BY <1>1, <4>1
        <4> QED
          BY <1>1, <1>7, <4>1, <4>2
      <3>2. RankIn(S, f, r) <= RankIn(S, g, r) + Cardinality({})
        BY <1>2, <3>1, RankFalls
      <3>3. RankIn(S, f, r) \in Nat /\ RankIn(S, g, r) \in Nat
        BY <1>4
      <3>4. Cardinality({}) = 0
        BY <1>2
      <3> QED
        BY <3>2, <3>3, <3>4
    <2>2. ASSUME NEW q \in S, q # r PROVE RankIn(S, f, q) <= RankIn(S, g, q) + 1
      <3>1. \A p \in S \ {r} : f[p] > f[q] => p \in S /\ g[p] > g[q]
        BY <1>1, <2>2
      <3>2. RankIn(S, f, q) <= RankIn(S, g, q) + Cardinality({r})
        BY <1>2, <3>1, RankFalls
      <3> QED
        BY <1>2, <3>2
    <2>3. \A q \in E : k <= RankIn(S, f, q) /\ RankIn(S, f, q) < k + 1
      <3> SUFFICES ASSUME NEW q \in E PROVE k <= RankIn(S, f, q) /\ RankIn(S, f, q) < k + 1
        OBVIOUS
      <3>1. q \in S /\ RankIn(S, g, q) < k /\ ~(RankIn(S, f, q) < k)
        BY <1>3
      <3>2. RankIn(S, f, q) \in Nat /\ RankIn(S, g, q) \in Nat
        BY <1>4, <3>1
      <3>3. q # r
        BY <2>1, <3>1, <3>2
      <3>4. RankIn(S, f, q) <= RankIn(S, g, q) + 1
        BY <2>2, <3>1, <3>3
      <3> QED
        BY <3>1, <3>2, <3>4
    <2>4. E \subseteq S
      BY <1>3
    <2>5. IsFiniteSet(E) /\ Cardinality(E) <= 1
      <3>1. 1 \in Nat
        OBVIOUS
      <3> QED
        BY <2>3, <2>4, <3>1, Block
    <2> QED
      BY <1>5, <2>5, MoreOverlooked
  <1> QED
    BY <1>1, <1>6, <1>7

LEMMA RowsApart ==
    ASSUME Placed
    PROVE  /\ listed \subseteq Rows /\ throughout \subseteq listed /\ position \in [Rows -> Nat]
           /\ \A r, q \in listed : position[r] = position[q] => r = q
  BY DEF Placed

\* A change of rows keeps the invariant when it accounts for what it hides.
LEMMA RowsChange ==
    ASSUME ListInv, Placed', reader' = reader, throughout' \subseteq throughout,
           NEW n \in Nat, left' + moved' = left + moved + n, late' >= late,
           Lists!BetweenQueries => Cardinality(listed') <= Cardinality(listed) + (late' - late),
           \A seen, k : k \in Nat =>
               /\ Cardinality(Overlooked(throughout', listed', position', seen, k)) \in Nat
               /\ Cardinality(Overlooked(throughout', listed', position', seen, k))
                      <= Cardinality(Overlooked(throughout, listed, position, seen, k)) + n
    PROVE  ListInv'
  <1>1. left \in Nat /\ moved \in Nat /\ late \in Nat /\ left' \in Nat /\ moved' \in Nat /\ late' \in Nat
    BY DEF ListInv, Placed
  <1> DEFINE a == left
             b == moved
             l == late
             c == left'
             d == moved'
             m == late'
  <1>0. /\ c + d = a + b + n /\ m >= l
        /\ a \in Nat /\ b \in Nat /\ c \in Nat /\ d \in Nat /\ l \in Nat /\ m \in Nat
    BY <1>1
  <1> HIDE DEF a, b, c, d, l, m
  <1>2. ReaderOK'
    BY DEF ListInv, ReaderOK, Lists!Reader
  <1>3. reader.page \in Nat \ {0} /\ Lists!Skip(reader.page) \in Nat /\ Lists!Skip(reader.page + 1) \in Nat
    <2>1. reader.page \in Nat \ {0}
      BY DEF ListInv, ReaderOK, Lists!Reader
    <2> QED
      BY <2>1, Pages
  <1>4. ASSUME NEW T, NEW S, T \subseteq listed
        PROVE  Cardinality(Overlooked(T, listed, position, S, Lists!Skip(reader.page))) \in Nat
    <2>1. Overlooked(T, listed, position, S, Lists!Skip(reader.page)) \subseteq Rows
      BY <1>4, RowsApart DEF ListInv, Overlooked
    <2> QED
      BY <2>1, FiniteRows
  <1>5. ASSUME NEW T, NEW S, T \subseteq listed
        PROVE  Cardinality(Overlooked(T, listed, position, S, Lists!Skip(reader.page + 1))) \in Nat
    <2>1. Overlooked(T, listed, position, S, Lists!Skip(reader.page + 1)) \subseteq Rows
      BY <1>5, RowsApart DEF ListInv, Overlooked
    <2> QED
      BY <2>1, FiniteRows
  <1>6. BeforePage'
    <2> SUFFICES ASSUME Asked, ~PageIsFound
                 PROVE  Cardinality(Overlooked(throughout', listed', position', reader.seen, Lists!Skip(reader.page)))
                            <= left' + moved'
      BY DEF BeforePage, Asked, PageIsFound, Lists!Skip
    <2> DEFINE x == Cardinality(Overlooked(throughout, listed, position, reader.seen, Lists!Skip(reader.page)))
               y == Cardinality(Overlooked(throughout', listed', position', reader.seen, Lists!Skip(reader.page)))
    <2>1. x <= left + moved
      BY DEF ListInv, BeforePage
    <2>2. y \in Nat /\ y <= x + n
      BY <1>3
    <2>3. x \in Nat
      BY <1>4, RowsApart DEF ListInv
    <2>4. x <= a + b
      BY <2>1 DEF a, b
    <2> HIDE DEF x, y
    <2>5. y <= c + d
      BY <1>0, <2>2, <2>3, <2>4
    <2> QED
      BY <2>5 DEF y, c, d
  <1>7. WithPage'
    <2> SUFFICES ASSUME Asked, PageIsFound
                 PROVE  Cardinality(Overlooked(throughout', listed', position', SeenByNow, Lists!Skip(reader.page + 1)))
                            <= left' + moved'
      BY DEF WithPage, Asked, PageIsFound, SeenByNow, Lists!Skip
    <2> DEFINE x == Cardinality(Overlooked(throughout, listed, position, SeenByNow, Lists!Skip(reader.page + 1)))
               y == Cardinality(Overlooked(throughout', listed', position', SeenByNow, Lists!Skip(reader.page + 1)))
    <2>1. x <= left + moved
      BY DEF ListInv, WithPage
    <2>2. y \in Nat /\ y <= x + n
      BY <1>3
    <2>3. x \in Nat
      BY <1>5, RowsApart DEF ListInv
    <2>4. x <= a + b
      BY <2>1 DEF a, b
    <2> HIDE DEF x, y
    <2>5. y <= c + d
      BY <1>0, <2>2, <2>3, <2>4
    <2> QED
      BY <2>5 DEF y, c, d
  <1>8. CountedFirst'
    <2> SUFFICES ASSUME Asked, ~PageIsFound, reader.total # -1
                 PROVE  Cardinality(listed') <= reader.total + late'
      BY DEF CountedFirst, Asked, PageIsFound
    <2>1. Cardinality(listed) <= reader.total + late
      BY DEF ListInv, CountedFirst
    <2>2. Lists!BetweenQueries
      BY DEF Lists!BetweenQueries, Lists!Reading, Lists!NotFound, Lists!NotCounted, Asked, PageIsFound
    <2>3. reader.total \in Nat
      BY DEF ListInv, ReaderOK
    <2>4. Cardinality(listed) \in Nat /\ Cardinality(listed') \in Nat
      <3>1. listed \subseteq Rows /\ listed' \subseteq Rows
        BY DEF ListInv, Placed
      <3> QED
        BY <3>1, FiniteRows
    <2> QED
      BY <1>1, <2>1, <2>2, <2>3, <2>4
  <1>9. AtTheEnd'
    <2> SUFFICES ASSUME LastPage
                 PROVE  Cardinality(throughout' \ SeenByNow) <= left' + moved' + late'
      BY DEF AtTheEnd, LastPage, Asked, PageIsFound, SeenByNow, Lists!TotalPages
    <2>1. Cardinality(throughout \ SeenByNow) <= left + moved + late
      BY DEF ListInv, AtTheEnd
    <2>2. throughout' \ SeenByNow \subseteq throughout \ SeenByNow /\ throughout \ SeenByNow \subseteq Rows
      BY RowsApart DEF ListInv
    <2>3. /\ Cardinality(throughout' \ SeenByNow) <= Cardinality(throughout \ SeenByNow)
          /\ Cardinality(throughout \ SeenByNow) \in Nat
      BY <2>2, FiniteRows
    <2>4. Cardinality(throughout' \ SeenByNow) \in Nat
      <3>1. throughout' \ SeenByNow \subseteq Rows
        BY <2>2
      <3> QED
        BY <3>1, FiniteRows
    <2> DEFINE x == Cardinality(throughout \ SeenByNow)
               y == Cardinality(throughout' \ SeenByNow)
    <2>5. x \in Nat /\ y \in Nat /\ y <= x /\ x <= a + b + l
      BY <2>1, <2>3, <2>4 DEF a, b, l
    <2> HIDE DEF x, y
    <2>6. y <= c + d + m
      BY <1>0, <2>5
    <2> QED
      BY <2>6 DEF y, c, d, m
  <1> QED
    BY <1>2, <1>6, <1>7, <1>8, <1>9 DEF ListInv

\* A row comes.
LEMMA RowComes ==
    ASSUME ListInv, NEW r \in Rows, listed' = listed \cup {r},
           position' \in [Rows -> Nat], \A q, p \in Rows : position'[q] = position'[p] /\ position'[q] # 0 => q = p,
           position'[r] # 0, \A q \in listed : position'[q] = position[q],
           late' = Lists!Come, reader' = reader, throughout' = throughout, left' = left, moved' = moved
    PROVE  ListInv'
  <1>1. left \in Nat /\ moved \in Nat /\ late \in Nat
    BY DEF ListInv, Placed
  <1>2. late' \in Nat /\ late' >= late /\ (Lists!BetweenQueries => late' = late + 1)
    BY <1>1 DEF Lists!Come
  <1>3. Placed'
    <2>1. listed' \subseteq {q \in Rows : position'[q] # 0}
      BY DEF ListInv, Placed
    <2> QED
      BY <1>1, <1>2, <2>1 DEF ListInv, Placed
  <1>4. listed \subseteq Rows /\ listed' \subseteq Rows /\ throughout \subseteq listed
    BY DEF ListInv, Placed
  <1>5. Lists!BetweenQueries => Cardinality(listed') <= Cardinality(listed) + (late' - late)
    <2>1. IsFiniteSet({r}) /\ Cardinality({r}) = 1
      BY FS_Singleton
    <2>2. IsFiniteSet(listed) /\ Cardinality(listed) \in Nat
      BY <1>4, FiniteRows
    <2>3. Cardinality(listed') <= Cardinality(listed) + Cardinality({r})
      BY <2>1, <2>2, AtMost
    <2> QED
      BY <1>1, <1>2, <2>1, <2>2, <2>3
  <1>6. ASSUME NEW seen, NEW k \in Nat
        PROVE  /\ Cardinality(Overlooked(throughout, listed', position', seen, k)) \in Nat
               /\ Cardinality(Overlooked(throughout, listed', position', seen, k))
                      <= Cardinality(Overlooked(throughout, listed, position, seen, k)) + 0
    BY <1>4, MoreRows
  <1>7. 0 \in Nat /\ left' + moved' = left + moved + 0
    BY <1>1
  <1> QED
    BY <1>2, <1>3, <1>5, <1>6, <1>7, RowsChange

LEMMA CreateStep ==
    ASSUME ListInv, NEW r \in Rows, NEW place \in Lists!Positions, Lists!Create(r, place)
    PROVE  ListInv'
  <1>1. place \in Nat /\ place # 0
    BY DEF Lists!Positions
  <1>2. place \in Lists!Free
    BY DEF Lists!Create, Lists!Places, Lists!Front
  <1>3. \A q \in Rows : position[q] # place
    BY <1>2 DEF Lists!Free
  <1>4. position \in [Rows -> Nat] /\ \A q, p \in Rows : position[q] = position[p] /\ position[q] # 0 => q = p
    BY DEF ListInv, Placed
  <1>5. position' = [position EXCEPT ![r] = place]
    BY DEF Lists!Create
  <1>6. position' \in [Rows -> Nat] /\ position'[r] = place /\ \A q \in Rows : q # r => position'[q] = position[q]
    BY <1>1, <1>4, <1>5
  <1>7. \A q, p \in Rows : position'[q] = position'[p] /\ position'[q] # 0 => q = p
    BY <1>3, <1>4, <1>6
  <1>8. listed \subseteq Rows /\ r \notin listed
    BY DEF ListInv, Placed, Lists!Create, Lists!Exists
  <1>9. /\ listed' = listed \cup {r} /\ late' = Lists!Come
        /\ reader' = reader /\ throughout' = throughout /\ left' = left /\ moved' = moved
    BY DEF Lists!Create
  <1>10. \A q \in listed : position'[q] = position[q]
    BY <1>6, <1>8
  <1>11. position'[r] # 0
    BY <1>1, <1>6
  <1> QED
    BY <1>6, <1>7, <1>9, <1>10, <1>11, RowComes

LEMMA EnterStep ==
    ASSUME ListInv, NEW r \in Rows, Lists!Enter(r)
    PROVE  ListInv'
  <1>1. position \in [Rows -> Nat] /\ \A q, p \in Rows : position[q] = position[p] /\ position[q] # 0 => q = p
    BY DEF ListInv, Placed
  <1>2. /\ listed' = listed \cup {r} /\ late' = Lists!Come /\ position[r] # 0 /\ position' = position
        /\ reader' = reader /\ throughout' = throughout /\ left' = left /\ moved' = moved
    BY DEF Lists!Enter, Lists!Exists
  <1> QED
    BY <1>1, <1>2, RowComes

\* Rows go.
LEMMA RowsGo ==
    ASSUME ListInv, NEW gone, gone \subseteq listed, listed' = listed \ gone, throughout' = throughout \ gone,
           position' \in [Rows -> Nat], \A q, p \in Rows : position'[q] = position'[p] /\ position'[q] # 0 => q = p,
           \A q \in listed \ gone : position'[q] = position[q],
           left' = left + Cardinality(gone), reader' = reader, late' = late, moved' = moved
    PROVE  ListInv'
  <1>1. left \in Nat /\ moved \in Nat /\ late \in Nat
    BY DEF ListInv, Placed
  <1>2. listed \subseteq Rows /\ throughout \subseteq listed /\ gone \subseteq Rows /\ listed' \subseteq Rows
    BY DEF ListInv, Placed
  <1>3. Cardinality(gone) \in Nat /\ Cardinality(listed') <= Cardinality(listed)
    BY <1>2, FiniteRows
  <1>4. Placed'
    <2>1. listed' \subseteq {q \in Rows : position'[q] # 0}
      BY DEF ListInv, Placed
    <2> QED
      BY <1>1, <1>2, <1>3, <2>1 DEF ListInv, Placed
  <1>5. position \in [Rows -> Nat] /\ \A r, q \in listed : position[r] = position[q] => r = q
    BY RowsApart DEF ListInv
  <1> DEFINE n == Cardinality(gone)
  <1>6. ASSUME NEW seen, NEW k \in Nat
        PROVE  /\ Cardinality(Overlooked(throughout \ gone, listed \ gone, position', seen, k)) \in Nat
               /\ Cardinality(Overlooked(throughout \ gone, listed \ gone, position', seen, k))
                      <= Cardinality(Overlooked(throughout, listed, position, seen, k)) + n
    BY <1>2, <1>3, <1>5, FewerRows
  <1>7. n \in Nat /\ left' + moved' = left + moved + n
    BY <1>1, <1>3
  <1>8. late' >= late /\ Cardinality(listed') <= Cardinality(listed) + (late' - late)
    <2>1. Cardinality(listed) \in Nat
      BY <1>2, FiniteRows
    <2> QED
      BY <1>1, <1>3, <2>1
  <1>9. throughout' \subseteq throughout
    OBVIOUS
  <1> HIDE DEF n
  <1> QED
    BY <1>4, <1>6, <1>7, <1>8, <1>9, RowsChange

LEMMA LeaveStep ==
    ASSUME ListInv, NEW gone, Lists!Leave(gone)
    PROVE  ListInv'
  <1>1. position \in [Rows -> Nat] /\ \A q, p \in Rows : position[q] = position[p] /\ position[q] # 0 => q = p
    BY DEF ListInv, Placed
  <1>2. /\ gone \subseteq listed /\ listed' = listed \ gone /\ throughout' = throughout \ gone
        /\ left' = left + Cardinality(gone) /\ position' = position /\ reader' = reader /\ moved' = moved
        /\ late' = late
    BY SameCardinality DEF Lists!Leave
  <1> QED
    BY <1>1, <1>2, RowsGo

LEMMA DeleteStep ==
    ASSUME ListInv, NEW r \in Rows, Lists!Delete(r)
    PROVE  ListInv'
  <1>1. position \in [Rows -> Nat] /\ \A q, p \in Rows : position[q] = position[p] /\ position[q] # 0 => q = p
    BY DEF ListInv, Placed
  <1>2. /\ r \in listed /\ position' = [position EXCEPT ![r] = 0]
        /\ listed' = listed \ {r} /\ throughout' = throughout \ {r}
        /\ left' = left + 1 /\ reader' = reader /\ moved' = moved /\ late' = late
    BY DEF Lists!Delete
  <1>3. Cardinality({r}) = 1
    BY FS_Singleton
  <1>4. /\ position' \in [Rows -> Nat] /\ position'[r] = 0
        /\ \A q \in Rows : q # r => position'[q] = position[q]
    BY <1>1, <1>2
  <1>5. \A q, p \in Rows : position'[q] = position'[p] /\ position'[q] # 0 => q = p
    BY <1>1, <1>4
  <1>6. \A q \in listed \ {r} : position'[q] = position[q]
    BY <1>4, RowsApart DEF ListInv
  <1>7. {r} \subseteq listed /\ left' = left + Cardinality({r})
    BY <1>2, <1>3
  <1> QED
    BY <1>2, <1>4, <1>5, <1>6, <1>7, RowsGo

LEMMA MoveStep ==
    ASSUME ListInv, NEW r \in Rows, NEW place \in Lists!Positions, Lists!Move(r, place)
    PROVE  ListInv'
  <1>1. place \in Nat /\ place # 0
    BY DEF Lists!Positions
  <1>2. place \in Lists!Free
    BY DEF Lists!Move, Lists!Places, Lists!Front
  <1>3. \A q \in Rows : position[q] # place
    BY <1>2 DEF Lists!Free
  <1>4. position \in [Rows -> Nat] /\ \A q, p \in Rows : position[q] = position[p] /\ position[q] # 0 => q = p
    BY DEF ListInv, Placed
  <1>5. /\ position' = [position EXCEPT ![r] = place] /\ r \in listed /\ listed' = listed /\ moved' = moved + 1
        /\ reader' = reader /\ throughout' = throughout /\ left' = left /\ late' = late
    BY DEF Lists!Move
  <1>6. position' \in [Rows -> Nat] /\ position'[r] = place /\ \A q \in Rows : q # r => position'[q] = position[q]
    BY <1>1, <1>4, <1>5
  <1>7. \A q, p \in Rows : position'[q] = position'[p] /\ position'[q] # 0 => q = p
    BY <1>3, <1>4, <1>6
  <1>8. left \in Nat /\ moved \in Nat /\ late \in Nat
    BY DEF ListInv, Placed
  <1>9. Placed'
    <2>1. listed \subseteq {q \in Rows : position[q] # 0}
      BY DEF ListInv, Placed
    <2>2. listed' \subseteq {q \in Rows : position'[q] # 0}
      BY <1>1, <1>5, <1>6, <2>1
    <2>3. throughout' \subseteq listed'
      BY <1>5 DEF ListInv, Placed
    <2>4. left' \in Nat /\ moved' \in Nat /\ late' \in Nat
      BY <1>5, <1>8
    <2> QED
      BY <1>6, <1>7, <2>2, <2>3, <2>4 DEF Placed
  <1>10. listed \subseteq Rows /\ throughout \subseteq listed /\ \A q, p \in listed : position[q] = position[p] => q = p
    BY RowsApart DEF ListInv
  <1>11. ASSUME NEW seen, NEW k \in Nat
         PROVE  /\ Cardinality(Overlooked(throughout, listed, position', seen, k)) \in Nat
                /\ Cardinality(Overlooked(throughout, listed, position', seen, k))
                       <= Cardinality(Overlooked(throughout, listed, position, seen, k)) + 1
    BY <1>1, <1>3, <1>4, <1>5, <1>10, RowMoves
  <1>12. 1 \in Nat /\ left' + moved' = left + moved + 1 /\ late' >= late
    BY <1>5, <1>8
  <1>13. Cardinality(listed') <= Cardinality(listed) + (late' - late)
    <2>1. Cardinality(listed) \in Nat
      BY <1>10, FiniteRows
    <2> QED
      BY <1>5, <1>8, <2>1
  <1>14. throughout' \subseteq throughout
    BY <1>5
  <1> QED
    BY <1>5, <1>9, <1>11, <1>12, <1>13, <1>14, RowsChange

LEMMA ListMeans ==
    ASSUME ListInv
    PROVE  Lists!MissedAreAccountedFor
  <1> SUFFICES ASSUME reader.pc = "done"
               PROVE  Cardinality(throughout \ reader.seen) <= left + moved + late
    BY SameCardinality DEF Lists!MissedAreAccountedFor
  <1>1. Cardinality(throughout \ SeenByNow) <= left + moved + late
    BY DEF ListInv, AtTheEnd, LastPage
  <1>2. SeenByNow = reader.seen
    BY DEF ListInv, ReaderOK, SeenByNow
  <1> QED
    BY <1>1, <1>2

LEMMA ListInit ==
    ASSUME Lists!Init
    PROVE  ListInv
  <1>1. Placed
    BY DEF Lists!Init, Placed, Lists!Exists
  <1>2. reader = [pc |-> "idle", page |-> 1, found |-> {}, total |-> -1, seen |-> {}]
    BY DEF Lists!Init, Lists!Ask, Lists!NotFound, Lists!NotCounted
  <1>3. ReaderOK
    BY <1>2 DEF ReaderOK, Lists!Reader
  <1> QED
    BY <1>1, <1>2, <1>3 DEF ListInv, BeforePage, WithPage, CountedFirst, AtTheEnd, LastPage, Asked

\* What a reader that has read the last page of a total has missed.
LEMMA NoMorePages ==
    ASSUME Placed, NEW seen, NEW page \in Nat \ {0}, NEW total \in Nat, NEW n \in Nat,
           Cardinality(listed) <= total + n, page >= Lists!TotalPages(total),
           Cardinality(Overlooked(throughout, listed, position, seen, Lists!Skip(page + 1))) <= left + moved
    PROVE  Cardinality(throughout \ seen) <= left + moved + n
  <1> DEFINE k == Lists!Skip(page + 1)
             O == Overlooked(throughout, listed, position, seen, k)
             A == {r \in listed : ~(RankIn(listed, position, r) < k)}
  <1>1. k \in Nat /\ total <= k
    BY Pages, PagesSuffice
  <1>2. listed \subseteq Rows /\ throughout \subseteq listed /\ position \in [Rows -> Nat]
        /\ \A r, q \in listed : position[r] = position[q] => r = q
    BY RowsApart
  <1>3. Cardinality(listed) \in Nat
    BY <1>2, FiniteRows
  <1>4. O \subseteq Rows /\ throughout \ seen \subseteq O \cup A /\ A \subseteq listed
    BY <1>2 DEF Overlooked
  <1>5. \A r \in A : ~(RankIn(listed, position, r) < k)
    OBVIOUS
  <1>6. Cardinality(O) <= left + moved
    OBVIOUS
  <1>7. left \in Nat /\ moved \in Nat
    BY DEF Placed
  <1> HIDE DEF k, O, A
  <1>8. Cardinality(listed) <= k + n
    BY <1>1, <1>3
  <1>9. IsFiniteSet(A) /\ Cardinality(A) \in Nat /\ Cardinality(A) <= n
    BY <1>1, <1>2, <1>4, <1>5, <1>8, Beyond
  <1>10. IsFiniteSet(O) /\ Cardinality(O) \in Nat
    BY <1>4, FiniteRows
  <1>11. Cardinality(throughout \ seen) \in Nat /\ Cardinality(throughout \ seen) <= Cardinality(O) + Cardinality(A)
    BY <1>4, <1>9, <1>10, AtMost
  <1> QED
    BY <1>6, <1>7, <1>9, <1>10, <1>11

LEMMA ReaderTypes ==
    ASSUME ListInv
    PROVE  /\ reader \in Lists!Reader /\ reader.page \in Nat \ {0} /\ reader.pc \in {"idle", "queries", "done"}
           /\ reader.found \in SUBSET SUBSET Rows /\ reader.seen \in SUBSET Rows
           /\ (reader.total = -1 \/ reader.total \in Nat)
  BY DEF ListInv, ReaderOK, Lists!Reader

LEMMA BeginStep ==
    ASSUME ListInv, Lists!Begin
    PROVE  ListInv'
  <1>1. reader' = [pc |-> "queries", page |-> 1, found |-> {}, total |-> -1, seen |-> {}]
    BY DEF Lists!Begin, Lists!Ask, Lists!NotFound, Lists!NotCounted
  <1>2. /\ throughout' = listed /\ left' = 0 /\ moved' = 0 /\ late' = 0 /\ position' = position /\ listed' = listed
    BY DEF Lists!Begin
  <1>3. Placed'
    BY <1>2 DEF ListInv, Placed
  <1>4. ReaderOK'
    BY <1>1 DEF ReaderOK, Lists!Reader
  <1>5. Asked' /\ ~PageIsFound' /\ ~LastPage' /\ reader'.total = -1
    BY <1>1 DEF Asked, PageIsFound, LastPage
  <1>6. BeforePage'
    <2>1. Lists!Skip(1) = 0
      <3>1. 1 - 1 = 0 /\ Limit \in Nat
        BY LimitAssumption
      <3> QED
        BY <3>1 DEF Lists!Skip
    <2>2. \A r \in listed : RankIn(listed, position, r) \in Nat
      BY RowsApart, RankBetween DEF ListInv
    <2>3. Overlooked(listed, listed, position, {}, 0) = {}
      BY <2>2 DEF Overlooked
    <2>4. Cardinality({}) = 0
      BY FS_EmptySet
    <2>5. Overlooked(throughout', listed', position', reader'.seen, Lists!Skip(reader'.page)) = {}
      BY <1>1, <1>2, <2>1, <2>3
    <2>6. Cardinality(Overlooked(throughout', listed', position', reader'.seen, Lists!Skip(reader'.page))) <= left' + moved'
      BY <1>2, <2>4, <2>5
    <2> QED
      BY <2>6 DEF BeforePage, Lists!Skip
  <1> QED
    BY <1>3, <1>4, <1>5, <1>6 DEF ListInv, WithPage, CountedFirst, AtTheEnd

LEMMA FindManyStep ==
    ASSUME ListInv, Lists!FindMany
    PROVE  ListInv'
  <1> DEFINE found == Lists!FindPage
  <1>1. reader.pc = "queries" /\ reader.found = {} /\ reader' = [reader EXCEPT !.found = {found}]
    BY DEF Lists!FindMany, Lists!Reading, Lists!NotFound
  <1>2. /\ throughout' = throughout /\ left' = left /\ moved' = moved /\ late' = late
        /\ position' = position /\ listed' = listed
    BY DEF Lists!FindMany, Lists!history
  <1>3. found = {r \in listed : RankIn(listed, position, r) \in Lists!Skip(reader.page)..(Lists!Skip(reader.page) + Limit - 1)}
    BY SameCardinality DEF Lists!FindPage, Lists!Rank, RankIn
  <1>4. listed \subseteq Rows /\ throughout \subseteq listed /\ position \in [Rows -> Nat]
    BY RowsApart DEF ListInv
  <1>5. found \in SUBSET Rows
    BY <1>3, <1>4
  <1> HIDE DEF found
  <1>6. /\ reader' \in Lists!Reader /\ reader'.found = {found}
        /\ reader'.pc = "queries" /\ reader'.page = reader.page
        /\ reader'.total = reader.total /\ reader'.seen = reader.seen
    BY <1>1, <1>5, ReaderTypes DEF Lists!Reader
  <1>7. Placed'
    BY <1>2 DEF ListInv, Placed
  <1>8. ReaderOK'
    BY <1>6, ReaderTypes DEF ReaderOK
  <1>9. Asked' /\ PageIsFound'
    BY <1>6 DEF Asked, PageIsFound
  <1>10. SeenByNow' = reader.seen \cup found
    BY <1>6 DEF SeenByNow
  <1> DEFINE k == Lists!Skip(reader.page)
             seen == reader.seen \cup found
  <1>11. k \in Nat /\ Lists!Skip(reader.page + 1) = k + Limit /\ Limit \in Nat \ {0}
    BY ReaderTypes, Pages
  <1>12. Overlooked(throughout, listed, position, seen, k + Limit) \subseteq Overlooked(throughout, listed, position, reader.seen, k)
    <2> SUFFICES ASSUME NEW r \in throughout, r \notin reader.seen, r \notin found, RankIn(listed, position, r) < k + Limit
                 PROVE  RankIn(listed, position, r) < k
      BY DEF Overlooked
    <2>1. RankIn(listed, position, r) \in Nat
      BY <1>4, RankBetween
    <2>2. ~(RankIn(listed, position, r) \in k..(k + Limit - 1))
      BY <1>3, <1>4
    <2> HIDE DEF k
    <2> QED
      BY <1>11, <2>1, <2>2
  <1>13. Cardinality(Overlooked(throughout, listed, position, seen, k + Limit)) <= left + moved
    <2> DEFINE O == Overlooked(throughout, listed, position, reader.seen, k)
               P == Overlooked(throughout, listed, position, seen, k + Limit)
    <2>1. O \subseteq Rows /\ P \subseteq O
      BY <1>4, <1>12 DEF Overlooked
    <2>2. Cardinality(O) <= left + moved
      BY <1>1 DEF ListInv, BeforePage, Asked, PageIsFound
    <2>3. left \in Nat /\ moved \in Nat
      BY DEF ListInv, Placed
    <2> HIDE DEF O, P
    <2>4. Cardinality(O) \in Nat /\ Cardinality(P) <= Cardinality(O)
      BY <2>1, FiniteRows
    <2>5. P \subseteq Rows
      BY <2>1
    <2>6. Cardinality(P) \in Nat
      BY <2>5, FiniteRows
    <2>7. Cardinality(P) <= left + moved
      BY <2>2, <2>3, <2>4, <2>6
    <2> QED
      BY <2>7 DEF P
  <1>14. WithPage'
    <2>1. Cardinality(Overlooked(throughout', listed', position', SeenByNow', Lists!Skip(reader'.page + 1))) <= left' + moved'
      BY <1>2, <1>6, <1>10, <1>11, <1>13
    <2> QED
      BY <2>1 DEF WithPage, Lists!Skip
  <1>15. AtTheEnd'
    <2> SUFFICES ASSUME reader.total # -1, reader.page >= Lists!TotalPages(reader.total)
                 PROVE  Cardinality(throughout \ seen) <= left + moved + late
      <3>1. LastPage' => reader.total # -1 /\ reader.page >= Lists!TotalPages(reader.total)
        BY <1>6 DEF LastPage, Lists!TotalPages
      <3> QED
        BY <1>2, <1>10, <3>1 DEF AtTheEnd
    <2>1. reader.total \in Nat /\ late \in Nat /\ reader.page \in Nat \ {0}
      BY ReaderTypes DEF ListInv, Placed
    <2>2. Cardinality(listed) <= reader.total + late
      BY <1>1 DEF ListInv, CountedFirst, Asked, PageIsFound
    <2>3. Cardinality(Overlooked(throughout, listed, position, seen, Lists!Skip(reader.page + 1))) <= left + moved
      BY <1>11, <1>13
    <2>4. Placed
      BY DEF ListInv
    <2> HIDE DEF seen, k
    <2> QED
      BY <2>1, <2>2, <2>3, <2>4, NoMorePages
  <1>16. BeforePage' /\ CountedFirst'
    BY <1>9 DEF BeforePage, CountedFirst
  <1> QED
    BY <1>7, <1>8, <1>14, <1>15, <1>16 DEF ListInv

LEMMA CountStep ==
    ASSUME ListInv, Lists!Count
    PROVE  ListInv'
  <1> DEFINE n == Cardinality(listed)
  <1>1. reader.pc = "queries" /\ reader.total = -1 /\ reader' = [reader EXCEPT !.total = n]
    BY SameCardinality DEF Lists!Count, Lists!Reading, Lists!NotCounted
  <1>2. /\ throughout' = throughout /\ left' = left /\ moved' = moved /\ late' = late
        /\ position' = position /\ listed' = listed
    BY DEF Lists!Count, Lists!history
  <1>3. n \in Nat
    BY RowsApart, FiniteRows DEF ListInv
  <1>4. left \in Nat /\ moved \in Nat /\ late \in Nat
    BY DEF ListInv, Placed
  <1> HIDE DEF n
  <1>5. n \in Int
    BY <1>3
  <1>6. /\ reader' \in Lists!Reader /\ reader'.total = n
        /\ reader'.pc = "queries" /\ reader'.page = reader.page
        /\ reader'.found = reader.found /\ reader'.seen = reader.seen
    BY <1>1, <1>5, ReaderTypes DEF Lists!Reader
  <1>7. Placed'
    BY <1>2 DEF ListInv, Placed
  <1>8. ReaderOK'
    BY <1>3, <1>6, ReaderTypes DEF ReaderOK
  <1>9. BeforePage'
    BY <1>1, <1>2, <1>6 DEF ListInv, BeforePage, Asked, PageIsFound, Lists!Skip
  <1>10. WithPage'
    BY <1>1, <1>2, <1>6 DEF ListInv, WithPage, Asked, PageIsFound, SeenByNow, Lists!Skip
  <1>11. CountedFirst'
    <2>1. Cardinality(listed') = n
      BY <1>2 DEF n
    <2>2. n <= n + late
      BY <1>3, <1>4
    <2> QED
      BY <1>2, <1>6, <2>1, <2>2 DEF CountedFirst
  <1>12. AtTheEnd'
    <2> SUFFICES ASSUME PageIsFound, reader.page >= Lists!TotalPages(n)
                 PROVE  Cardinality(throughout \ SeenByNow) <= left + moved + late
      <3>1. LastPage' => PageIsFound /\ reader.page >= Lists!TotalPages(n)
        BY <1>6 DEF LastPage, PageIsFound, Lists!TotalPages
      <3>2. SeenByNow' = SeenByNow
        BY <1>6 DEF SeenByNow
      <3> QED
        BY <1>2, <3>1, <3>2 DEF AtTheEnd
    <2>1. Cardinality(Overlooked(throughout, listed, position, SeenByNow, Lists!Skip(reader.page + 1))) <= left + moved
      BY <1>1 DEF ListInv, WithPage, Asked
    <2>2. Placed /\ reader.page \in Nat \ {0} /\ 0 \in Nat
      BY ReaderTypes DEF ListInv
    <2>3. Cardinality(listed) <= n + 0
      BY <1>3 DEF n
    <2>4. Cardinality(throughout \ SeenByNow) <= left + moved + 0
      BY <1>3, <2>1, <2>2, <2>3, NoMorePages
    <2>5. Cardinality(throughout \ SeenByNow) \in Nat
      <3>1. throughout \ SeenByNow \subseteq Rows
        BY RowsApart DEF ListInv
      <3> QED
        BY <3>1, FiniteRows
    <2> QED
      BY <1>4, <2>4, <2>5
  <1> QED
    BY <1>7, <1>8, <1>9, <1>10, <1>11, <1>12 DEF ListInv

LEMMA AnswerStep ==
    ASSUME ListInv, Lists!Answer
    PROVE  ListInv'
  <1> DEFINE more == reader.page < Lists!TotalPages(reader.total)
  <1>1. /\ reader.pc = "queries" /\ reader.found # {} /\ reader.total # -1
        /\ reader' = IF more THEN Lists!Ask(reader.page + 1, SeenByNow)
                     ELSE [reader EXCEPT !.pc = "done", !.seen = SeenByNow]
    BY DEF Lists!Answer, Lists!Reading, Lists!NotFound, Lists!NotCounted, SeenByNow
  <1>2. /\ throughout' = throughout /\ left' = left /\ moved' = moved
        /\ position' = position /\ listed' = listed
        /\ late' = IF reader'.pc = "done" THEN late ELSE 0
    BY DEF Lists!Answer
  <1>3. late' \in Nat
    BY <1>2 DEF ListInv, Placed
  <1>4. Placed'
    BY <1>2, <1>3 DEF ListInv, Placed
  <1>5. SeenByNow \in SUBSET Rows
    BY ReaderTypes DEF SeenByNow
  <1>6. reader.page \in Nat \ {0} /\ reader.total \in Nat /\ Lists!TotalPages(reader.total) \in Int
    <2>1. reader.page \in Nat \ {0} /\ reader.total \in Nat /\ Limit \in Nat \ {0}
      BY <1>1, ReaderTypes, LimitAssumption
    <2> QED
      BY <2>1 DEF Lists!TotalPages
  <1>7. CASE more
    <2>1. reader' = [pc |-> "queries", page |-> reader.page + 1, found |-> {}, total |-> -1, seen |-> SeenByNow]
      BY <1>1, <1>7 DEF Lists!Ask, Lists!NotFound, Lists!NotCounted
    <2>2. reader.page + 1 \in Nat \ {0}
      BY <1>6
    <2>3. ReaderOK'
      BY <1>5, <2>1, <2>2 DEF ReaderOK, Lists!Reader
    <2>4. ~PageIsFound' /\ ~LastPage' /\ reader'.total = -1
      BY <2>1 DEF PageIsFound, LastPage
    <2>5. BeforePage'
      <3>1. Cardinality(Overlooked(throughout, listed, position, SeenByNow, Lists!Skip(reader.page + 1))) <= left + moved
        BY <1>1 DEF ListInv, WithPage, Asked, PageIsFound
      <3>2. Cardinality(Overlooked(throughout', listed', position', reader'.seen, Lists!Skip(reader'.page))) <= left' + moved'
        BY <1>2, <2>1, <3>1
      <3> QED
        BY <3>2 DEF BeforePage, Lists!Skip
    <2> QED
      BY <1>4, <2>3, <2>4, <2>5 DEF ListInv, WithPage, CountedFirst, AtTheEnd
  <1>8. CASE ~more
    <2>1. reader' = [reader EXCEPT !.pc = "done", !.seen = SeenByNow]
      BY <1>1, <1>8
    <2>2. /\ reader' \in Lists!Reader /\ reader'.pc = "done" /\ reader'.seen = SeenByNow
          /\ reader'.page = reader.page /\ reader'.found = reader.found /\ reader'.total = reader.total
      BY <1>5, <2>1, ReaderTypes DEF Lists!Reader
    <2>3. ReaderOK'
      BY <2>2, ReaderTypes DEF ReaderOK, SeenByNow
    <2>4. LastPage
      <3>1. reader.page >= Lists!TotalPages(reader.total)
        BY <1>6, <1>8
      <3> QED
        BY <1>1, <3>1 DEF LastPage, Asked, PageIsFound
    <2>5. AtTheEnd'
      <3>1. Cardinality(throughout \ SeenByNow) <= left + moved + late
        BY <2>4 DEF ListInv, AtTheEnd
      <3>2. SeenByNow' = SeenByNow
        BY <2>2 DEF SeenByNow
      <3> QED
        BY <1>2, <2>2, <3>1, <3>2 DEF AtTheEnd
    <2>6. ~Asked'
      BY <2>2 DEF Asked
    <2> QED
      BY <1>4, <2>3, <2>5, <2>6 DEF ListInv, BeforePage, WithPage, CountedFirst
  <1> QED
    BY <1>7, <1>8

LEMMA ListNext ==
    ASSUME ListInv, Lists!Next
    PROVE  ListInv'
  <1>1. CASE Lists!Begin
    BY <1>1, BeginStep
  <1>2. CASE Lists!FindMany
    BY <1>2, FindManyStep
  <1>3. CASE Lists!Count
    BY <1>3, CountStep
  <1>4. CASE Lists!Answer
    BY <1>4, AnswerStep
  <1>5. ASSUME NEW r \in Rows, Lists!Enter(r) PROVE ListInv'
    BY <1>5, EnterStep
  <1>6. ASSUME NEW r \in Rows, Lists!Delete(r) PROVE ListInv'
    BY <1>6, DeleteStep
  <1>7. ASSUME NEW r \in Rows, NEW place \in Lists!Positions, Lists!Create(r, place) PROVE ListInv'
    BY <1>7, CreateStep
  <1>8. ASSUME NEW r \in Rows, NEW place \in Lists!Positions, Lists!Move(r, place) PROVE ListInv'
    BY <1>8, MoveStep
  <1>9. ASSUME NEW gone, Lists!Leave(gone) PROVE ListInv'
    BY <1>9, LeaveStep
  <1> QED
    BY <1>1, <1>2, <1>3, <1>4, <1>5, <1>6, <1>7, <1>8, <1>9, Zenon DEF Lists!Next

-------------------------------------------------------------------------------
(* The office *)

\* Nothing changes in a part that is not chosen, or when nothing happens.
LEMMA ScheduleRests ==
    ASSUME ScheduleInv, UNCHANGED scheduleVars
    PROVE  ScheduleInv'
  <1> USE DEF scheduleVars
  <1>1. Schedule!TypeOK'
    BY DEF ScheduleInv, Schedule!TypeOK
  <1>2. OneTask'
    BY DEF ScheduleInv, OneTask, Resting
  <1>3. Installs'
    BY DEF ScheduleInv, Installs, Resting, Due
  <1>4. Calm' /\ Held' /\ Bonus'
    BY DEF ScheduleInv, Calm, Resting, Held, Fired, Bonus
  <1>5. Logged'
    BY DEF ScheduleInv, Logged, Schedule!LogTellsOutcome
  <1> QED
    BY <1>1, <1>2, <1>3, <1>4, <1>5 DEF ScheduleInv

LEMMA DeskRests ==
    ASSUME DeskInv, UNCHANGED deskVars
    PROVE  DeskInv'
  <1> USE DEF deskVars
  <1>1. Desk!TypeOK'
    BY DEF DeskInv, Desk!TypeOK
  <1>2. \A p \in Repliers : DeskRun(p)'
    BY DEF DeskInv, DeskRun, Desk!Adding
  <1>3. Desk!StatusTellsWhoIsWaitedFor'
    BY DEF DeskInv, Desk!StatusTellsWhoIsWaitedFor, Desk!Adding
  <1> QED
    BY <1>1, <1>2, <1>3 DEF DeskInv

LEMMA RewardRests ==
    ASSUME RewardInv, UNCHANGED rewardVars
    PROVE  RewardInv'
  BY DEF rewardVars, RewardInv, Reward!TypeOK, RewardRun, Credited, Booking, Telling

LEMMA RecheckRests ==
    ASSUME RecheckInv, UNCHANGED recheckVars
    PROVE  RecheckInv'
  <1> USE DEF recheckVars
  <1>1. Recheck!TypeOK'
    BY DEF RecheckInv, Recheck!TypeOK
  <1>2. Walk' /\ Cached'
    BY DEF RecheckInv, Walk, Cached, Scanned
  <1>0. \A u : Recheck!EligibleRank(u)' = Recheck!EligibleRank(u)
    BY EligibleSame
  <1>3. Passed'
    <2>1. Passed
      BY DEF RecheckInv
    <2> QED
      BY <1>0, <2>1 DEF Passed
  <1>4. Recheck!NobodyAboveEligible'
    <2> SUFFICES ASSUME script.pc \in Clawing, ~limited, touched = {}, NEW u \in Members
                 PROVE  rank'[u] <= Recheck!EligibleRank(u)'
      BY DEF Recheck!NobodyAboveEligible, Clawing
    <2>1. rank[u] <= Recheck!EligibleRank(u)
      BY DEF RecheckInv, Recheck!NobodyAboveEligible, Clawing
    <2> QED
      BY <1>0, <2>1
  <1>5. Taken' /\ Recheck!BonusTakenOnce'
    BY Zenon DEF RecheckInv, Taken, Told, Scanned, Recheck!Has, Recheck!BonusTakenOnce, Recheck!At, Recheck!User,
                 Recheck!DeservedBonus
  <1> QED
    BY <1>1, <1>2, <1>3, <1>4, <1>5 DEF RecheckInv

LEMMA ListRests ==
    ASSUME ListInv, UNCHANGED listVars
    PROVE  ListInv'
  <1> USE DEF listVars
  <1>1. Placed' /\ ReaderOK'
    BY DEF ListInv, Placed, ReaderOK
  <1>2. BeforePage' /\ WithPage'
    BY DEF ListInv, BeforePage, WithPage, Asked, PageIsFound, SeenByNow
  <1>3. CountedFirst' /\ AtTheEnd'
    BY DEF ListInv, CountedFirst, AtTheEnd, LastPage, Asked, PageIsFound, SeenByNow
  <1> QED
    BY <1>1, <1>2, <1>3 DEF ListInv

OfficeInv ==
    /\ part = "schedule" => ScheduleInv
    /\ part = "desk" => DeskInv
    /\ part = "reward" => RewardInv
    /\ part = "recheck" => RecheckInv
    /\ part = "lists" => ListInv

LEMMA OfficeKeeps == OfficeSpec => []OfficeInv
  <1>1. OfficeInit => OfficeInv
    BY ScheduleInit, DeskInit, RewardInit, RecheckInit, ListInit DEF OfficeInit, OfficeInv
  <1>2. OfficeInv /\ [OfficeNext]_officeVars => OfficeInv'
    <2> SUFFICES ASSUME OfficeInv, [OfficeNext]_officeVars PROVE OfficeInv'
      OBVIOUS
    <2>1. part' = part
      BY DEF OfficeNext, officeVars
    <2>2. ASSUME part = "schedule" PROVE ScheduleInv'
      <3>1. Schedule!Next \/ UNCHANGED scheduleVars
        BY <2>2 DEF OfficeNext, officeVars
      <3> QED
        BY <2>2, <3>1, ScheduleNext, ScheduleRests DEF OfficeInv
    <2>3. ASSUME part = "desk" PROVE DeskInv'
      <3>1. Desk!Next \/ UNCHANGED deskVars
        BY <2>3 DEF OfficeNext, officeVars
      <3> QED
        BY <2>3, <3>1, DeskNext, DeskRests DEF OfficeInv
    <2>4. ASSUME part = "reward" PROVE RewardInv'
      <3>1. Reward!Next \/ UNCHANGED rewardVars
        BY <2>4 DEF OfficeNext, officeVars
      <3> QED
        BY <2>4, <3>1, RewardNext, RewardRests DEF OfficeInv
    <2>5. ASSUME part = "recheck" PROVE RecheckInv'
      <3>1. Recheck!Next \/ UNCHANGED recheckVars
        BY <2>5 DEF OfficeNext, officeVars
      <3> QED
        BY <2>5, <3>1, RecheckNext, RecheckRests DEF OfficeInv
    <2>6. ASSUME part = "lists" PROVE ListInv'
      <3>1. Lists!Next \/ UNCHANGED listVars
        BY <2>6 DEF OfficeNext, officeVars
      <3> QED
        BY <2>6, <3>1, ListNext, ListRests DEF OfficeInv
    <2> QED
      BY <2>1, <2>2, <2>3, <2>4, <2>5, <2>6 DEF OfficeInv
  <1> QED
    BY <1>1, <1>2, PTL DEF OfficeSpec

\* When nothing is in progress the daily trade is the one task node-cron runs,
\* however many updates of the schedule and restarts there were and however they
\* overlapped or failed; it is at the time that is set as long as none did, and
\* none went past the service.  On a day on which nothing changed the session is
\* called once, at its time, or its log row could not be inserted and it is not
\* called; ten days have a cycle bonus; and the log row of a job that was
\* completed tells whether it failed (scheduleTradeTasks, startAll and withLog of
\* cron.service.ts).
THEOREM JobsAreRun == OfficeSpec => []JobsRunAsSet
  <1>1. OfficeInv => JobsRunAsSet
    BY ScheduleMeans, Zenon DEF OfficeInv, JobsRunAsSet
  <1> QED
    BY <1>1, OfficeKeeps, PTL

\* A ticket whose status was set by its creation or by a reply waits for the
\* other side of its newest message, however many replies are in progress on
\* however many tickets; only the transactions of two replies that crossed may
\* leave it waiting for the wrong one (replyToTicket, addMessage).
THEOREM TicketsTell == OfficeSpec => []TicketsTellWhoIsWaitedFor
  <1>1. OfficeInv => TicketsTellWhoIsWaitedFor
    BY DEF OfficeInv, DeskInv, TicketsTellWhoIsWaitedFor
  <1> QED
    BY <1>1, OfficeKeeps, PTL

\* A closed ticket is opened by reopenTicket, or by a reply that read it before
\* it was closed (replyToTicket checks the status before its transaction).
THEOREM ClosedStayClosed == OfficeSpec => ClosedTicketsStayClosed
  <1>1. OfficeInv /\ [OfficeNext]_officeVars => [part = "desk" => Desk!OpenedOnlyByAdminOrLateReply]_officeVars
    <2> SUFFICES ASSUME OfficeInv, OfficeNext, part = "desk" PROVE Desk!OpenedOnlyByAdminOrLateReply
      OBVIOUS
    <2>1. Desk!Next
      BY DEF OfficeNext
    <2> QED
      BY <2>1, DeskOpens DEF OfficeInv
  <1> QED
    BY <1>1, OfficeKeeps, PTL DEF OfficeSpec, ClosedTicketsStayClosed

\* What a user was credited is what admins were answered, what is in progress and
\* what was cut short after the credit; what the user was told of is in the
\* ledger and what is in the ledger was credited, however many rewards are given
\* at once (giveReward of the admin service).
THEOREM RewardsBooked == OfficeSpec => []RewardsAreBooked
  <1>1. OfficeInv => RewardsAreBooked
    BY RewardMeans DEF OfficeInv, RewardsAreBooked
  <1> QED
    BY <1>1, OfficeKeeps, PTL

\* When its passes are over the script leaves nobody above the rank the user is
\* eligible for, for any teams, deposits and definitions of ranks, unless the
\* last pass still corrected somebody or the server wrote meanwhile; and no
\* bonus is taken back twice, however often the script runs and wherever it
\* stops, but from a user whose debit was done when it stopped
\* (recheck-ranks.ts).
THEOREM RecheckEnds == OfficeSpec => []RecheckCorrects
  <1>1. OfficeInv => RecheckCorrects
    BY Zenon DEF OfficeInv, RecheckInv, RecheckCorrects
  <1> QED
    BY <1>1, OfficeKeeps, PTL

\* The script raises no rank, but of a user the server wrote meanwhile
\* (recheck-ranks.ts).
THEOREM RanksFall == OfficeSpec => RanksOnlyFall
  <1>1. OfficeInv /\ [OfficeNext]_officeVars => [part = "recheck" => Recheck!RaisesOnlyTouched]_officeVars
    <2> SUFFICES ASSUME OfficeInv, OfficeNext, part = "recheck" PROVE Recheck!RaisesOnlyTouched
      OBVIOUS
    <2>1. Recheck!Next
      BY DEF OfficeNext
    <2> QED
      BY <2>1, RecheckRaises DEF OfficeInv
  <1> QED
    BY <1>1, OfficeKeeps, PTL DEF OfficeSpec, RanksOnlyFall

\* Whatever rows come, go and move while a list is read page by page, the
\* reader misses no more of those listed all the time than rows left the list,
\* moved in it, or came between the two queries of the last page (the list
\* queries of the repositories).
THEOREM MissedAccounted == OfficeSpec => []MissedAreAccountedFor
  <1>1. OfficeInv => MissedAreAccountedFor
    BY ListMeans DEF OfficeInv, MissedAreAccountedFor
  <1> QED
    BY <1>1, OfficeKeeps, PTL

===============================================================================
