----------------------------- MODULE AuthSessions -----------------------------
(***************************************************************************)
(* The sessions of one account: sign-in with lock-out, the one-time codes   *)
(* of the two-factor and session-takeover challenges, refresh-token         *)
(* rotation, sign-out and password reset.                                   *)
(*                                                                          *)
(* Every await that reads or writes the database is a step.  A device makes *)
(* one call at a time, the devices call at the same time, a call may break  *)
(* off between two steps (Fail) and a reply may be lost (Fail after the     *)
(* last write).  twoFactorEnabled and the readiness of an SMS or mail       *)
(* channel may change at any time, so a sign-in finds either.  Which device *)
(* holds a challenge token is not kept: any may answer the challenge while  *)
(* a code is usable.  Refresh tokens are numbered in the order of their     *)
(* creation, which the queries sort by.                                     *)
(***************************************************************************)
EXTENDS Integers, FiniteSets

CONSTANTS
  Device,       \* where the account's owner signs in
  TakeoverOtp,  \* ENABLE_SESSION_TAKEOVER_OTP
  MaxAttempts,  \* failures in a row that lock the account: 5
  MaxToken,     \* bound: refresh tokens ever created
  MaxCall,      \* bound: calls ever started
  MaxCode,      \* bound: one-time codes usable at a time
  MaxReset      \* bound: reset tokens usable at a time, and password changes

ASSUME BoundAssumption ==
  /\ MaxAttempts \in Nat \ {0} /\ MaxToken \in Nat /\ MaxCall \in Nat
  /\ MaxCode \in Nat /\ MaxReset \in Nat
ASSUME TakeoverAssumption == TakeoverOtp \in BOOLEAN

VARIABLES
  account,  \* the User row
  token,    \* 1..MaxToken -> RefreshToken row
  code,     \* PhoneVerificationOtp rows not used and not expired
  reset,    \* PasswordResetToken rows not used and not expired
  device,   \* Device -> what the client keeps
  req,      \* Device -> the call it has in flight
  calls,    \* how many calls were started
  hist      \* history, read by no action

vars == <<account, token, code, reset, device, req, calls, hist>>

-----------------------------------------------------------------------------
(* Rows, clients and calls *)

Token == 1 .. MaxToken

(* sv: sessionVersion; pw: how often the password was changed. *)
AccountRow ==
  [attempts : 0 .. MaxAttempts, locked : BOOLEAN, sv : 0 .. MaxToken,
   pw : 0 .. MaxReset]

(* sv: the version in the access token issued along with it; pw: the        *)
(* password it goes back to; of: the device that asked for it.              *)
TokenRow ==
  [status : {"live", "revoked"}, expired : BOOLEAN, sv : 0 .. MaxToken,
   pw : 0 .. MaxReset, of : Device]

Unborn == [status |-> "unborn"]

(* token: the refresh token kept, 0 if none; lost: a reply with a newer     *)
(* refresh token never arrived.                                             *)
Client == [token : 0 .. MaxToken, lost : BOOLEAN]

Idle == [op |-> "idle"]

(* sv, pw: as read when the password, or the code, was checked. *)
Entered == [op : {"entered"}, sv : 0 .. MaxToken, pw : 0 .. MaxReset]
Wrong == [op : {"wrong"}, attempts : 0 .. MaxAttempts]
Plain == [op : {"invalidate", "send", "void", "create", "setPassword", "endAll"}]
Spending == [op : {"spend"}, id : 1 .. MaxCode, pw : 0 .. MaxReset]
Ending == [op : {"revoke", "bump"}, pw : 0 .. MaxReset]
Issuing == [op : {"issue"}, sv : 0 .. MaxToken, pw : 0 .. MaxReset, login : BOOLEAN]
Issued == [op : {"mark", "reply"}, token : Token]
Rotating == [op : {"rotate", "reread", "refuse", "signoutOne", "signoutAll"},
             seen : 0 .. MaxToken]
Burning == [op : {"burn"}, id : 1 .. MaxReset]

ReqState ==
  {Idle} \cup Entered \cup Wrong \cup Plain \cup Spending \cup Ending
         \cup Issuing \cup Issued \cup Rotating \cup Burning

Unrevoked == {t \in Token : token[t].status = "live"}

Active == {t \in Unrevoked : ~token[t].expired}

Newest(T) == IF T = {} THEN 0 ELSE CHOOSE t \in T : \A u \in T : u <= t

(* refresh: findFirst, the newest first. *)
StoredOldest ==                                              \* mutated form
  IF Unrevoked = {} THEN 0
  ELSE CHOOSE t \in Unrevoked : \A u \in Unrevoked : t <= u
Stored == Newest(Unrevoked)

(* The tokens a sign-in ends. *)
RevokedByNone(tok) == tok                                    \* mutated form
RevokedBy(tok) ==
  [t \in Token |-> IF tok[t].status = "live"
                   THEN [tok[t] EXCEPT !.status = "revoked"] ELSE tok[t]]

(* lockedUntil, as login and the two verify handlers test it. *)
LockIgnored == FALSE                                         \* mutated form
Locked == account.locked

-----------------------------------------------------------------------------
Init ==
  /\ account = [attempts |-> 0, locked |-> FALSE, sv |-> 0, pw |-> 0]
  /\ token = [t \in Token |-> Unborn]
  /\ code = {}
  /\ reset = {}
  /\ device = [d \in Device |-> [token |-> 0, lost |-> FALSE]]
  /\ req = [d \in Device |-> Idle]
  /\ calls = 0
  /\ hist = [crossed |-> {}, outdated |-> {}, oldVersion |-> {}, oldPassword |-> {},
             late |-> {}]

Calling == {d \in Device : req[d] # Idle}

Others(d) == Calling \ {d}

(* History.  oldVersion, oldPassword: the calls during which another one    *)
(* raised sessionVersion, or a reset ran; crossed, outdated: the sessions   *)
(* created across such a call; late: the calls that had begun before the    *)
(* account was locked.                                                      *)

(* A refresh of a session that has outlived its password.                   *)
Prolongs(state) == state.op = "rotate" /\ state.seen \in hist.outdated

Begin(d, state) ==
  /\ req[d] = Idle
  /\ calls < MaxCall
  /\ calls' = calls + 1
  /\ req' = [req EXCEPT ![d] = state]
  /\ hist' = [hist EXCEPT
       !.oldVersion = @ \ {d},
       !.oldPassword = IF Prolongs(state) THEN @ \cup {d} ELSE @ \ {d},
       !.late = @ \ {d}]
  /\ UNCHANGED <<account, token, code, reset, device>>

(* The ids that calls have read and are about to mark used. *)
Held(op) == {req[d].id : d \in {e \in Device : req[e].op = op}}

Goto(d, state) == req' = [req EXCEPT ![d] = state]

-----------------------------------------------------------------------------
(* login *)

StartLogin(d) ==
  ~Locked /\ Begin(d, [op |-> "entered", sv |-> account.sv, pw |-> account.pw])

StartWrongLogin(d) ==
  ~Locked /\ Begin(d, [op |-> "wrong", attempts |-> account.attempts])

LocksAt(n) == n >= MaxAttempts

(* Attempts are counted on while locked out; the model stops counting where *)
(* the number makes no difference any more.                                 *)
CountedUncapped(n) == n                                      \* mutated form
Counted(n) == IF n > MaxAttempts THEN MaxAttempts ELSE n

CommitWrong(d) ==
  /\ req[d].op = "wrong"
  /\ LET n == req[d].attempts + 1
     IN  account' = [account EXCEPT !.locked = LocksAt(n), !.attempts = Counted(n)]
         /\ hist' = [hist EXCEPT !.late =
              IF LocksAt(n) /\ ~account.locked THEN Others(d) ELSE @]
  /\ Goto(d, Idle)
  /\ UNCHANGED <<token, code, reset, device, calls>>

(* The password was right: two-factor challenge, takeover challenge,        *)
(* takeover at once, or nobody to take over from.                           *)
Route(d, state) ==
  /\ req[d].op = "entered"
  /\ Goto(d, state)
  /\ UNCHANGED <<account, token, code, reset, device, hist, calls>>

ChallengeLogin(d) == Route(d, [op |-> "invalidate"])

ChallengeTakeover(d) == TakeoverOtp /\ Active # {} /\ Route(d, [op |-> "invalidate"])

TakeOver(d) == Active # {} /\ Route(d, [op |-> "revoke", pw |-> req[d].pw])

LoginAlone(d) ==
  /\ Active = {}
  /\ Route(d, [op |-> "issue", sv |-> req[d].sv, pw |-> req[d].pw, login |-> TRUE])

(* beginLoginTwoFactorChallenge, beginSessionTakeoverChallenge *)
InvalidateCodes(d) ==
  /\ req[d].op = "invalidate"
  /\ code' = {}
  /\ Goto(d, [op |-> "send"])
  /\ UNCHANGED <<account, token, reset, device, hist, calls>>

SendCode(d) ==
  /\ req[d].op = "send"
  /\ \E c \in (1 .. MaxCode) \ (code \cup Held("spend")) : code' = code \cup {c}
  /\ Goto(d, Idle)
  /\ UNCHANGED <<account, token, reset, device, hist, calls>>

(* verifySessionTakeover, verifyLoginTwoFactor: the owner of the account    *)
(* enters the code that was sent last.                                      *)
StartVerify(d, c) ==
  /\ c \in code
  /\ ~Locked
  /\ Begin(d, [op |-> "spend", id |-> c, pw |-> account.pw])

SpendCode(d) ==
  /\ req[d].op = "spend"
  /\ code' = code \ {req[d].id}
  /\ Goto(d, [op |-> "revoke", pw |-> req[d].pw])
  /\ UNCHANGED <<account, token, reset, device, hist, calls>>

(* revokeSessionsAndBumpVersion *)
RevokeSessions(d) ==
  /\ req[d].op = "revoke"
  /\ token' = RevokedBy(token)
  /\ Goto(d, [op |-> "bump", pw |-> req[d].pw])
  /\ UNCHANGED <<account, code, reset, device, hist, calls>>

BumpVersion(d) ==
  /\ req[d].op = "bump"
  /\ account.sv < MaxToken
  /\ account' = [account EXCEPT !.sv = @ + 1]
  /\ Goto(d, [op |-> "issue", sv |-> account.sv + 1, pw |-> req[d].pw,
              login |-> TRUE])
  /\ hist' = [hist EXCEPT !.oldVersion = (@ \cup Others(d)) \ {d}]
  /\ UNCHANGED <<token, code, reset, device, calls>>

(* A call that is past its look at the sessions, or is replacing one.       *)
Replacing(e) == req[e].op \in {"rotate", "reread", "bump", "issue"}

(* generateTokens *)
IssueToken(d) ==
  /\ req[d].op = "issue"
  /\ \E t \in Token :
       /\ token[t] = Unborn /\ \A u \in Token : u < t => token[u] # Unborn
       /\ token' = [token EXCEPT ![t] =
            [status |-> "live", expired |-> FALSE, sv |-> req[d].sv,
             pw |-> req[d].pw, of |-> d]]
       /\ Goto(d, [op |-> IF req[d].login THEN "mark" ELSE "reply", token |-> t])
       /\ hist' = [hist EXCEPT
            !.crossed = IF d \in hist.oldVersion \/ \E e \in Others(d) : Replacing(e)
                        THEN @ \cup {t} ELSE @,
            !.outdated = IF d \in hist.oldPassword /\ req[d].pw # account.pw
                         THEN @ \cup {t} ELSE @]
  /\ UNCHANGED <<account, code, reset, device, calls>>

(* markSuccessfulLogin *)
MarkSuccess(d) ==
  /\ req[d].op = "mark"
  /\ account' = [account EXCEPT !.attempts = 0, !.locked = FALSE]
  /\ Goto(d, [req[d] EXCEPT !.op = "reply"])
  /\ UNCHANGED <<token, code, reset, device, hist, calls>>

Reply(d) ==
  /\ req[d].op = "reply"
  /\ device' = [device EXCEPT ![d] =
       [token |-> req[d].token, lost |-> FALSE]]
  /\ Goto(d, Idle)
  /\ UNCHANGED <<account, token, code, reset, hist, calls>>

-----------------------------------------------------------------------------
(* refresh *)

StartRefresh(d) ==
  /\ device[d].token # 0
  /\ Begin(d, [op |-> IF /\ Stored # 0 /\ ~token[Stored].expired
                         /\ device[d].token = Stored
                      THEN "rotate" ELSE "refuse",
               seen |-> Stored])

Refuse(d) ==
  /\ req[d].op = "refuse"
  /\ token' = RevokedBy(token)
  /\ device' = [device EXCEPT ![d] = [token |-> 0, lost |-> FALSE]]
  /\ Goto(d, Idle)
  /\ UNCHANGED <<account, code, reset, hist, calls>>

Rotate(d) ==
  /\ req[d].op = "rotate"
  /\ token' = [token EXCEPT ![req[d].seen].status = "revoked"]
  /\ Goto(d, [req[d] EXCEPT !.op = "reread"])
  /\ UNCHANGED <<account, code, reset, device, hist, calls>>

Reread(d) ==
  /\ req[d].op = "reread"
  /\ Goto(d, [op |-> "issue", sv |-> account.sv, pw |-> token[req[d].seen].pw,
              login |-> FALSE])
  /\ hist' = [hist EXCEPT !.oldVersion = @ \ {d}]
  /\ UNCHANGED <<account, token, code, reset, device, calls>>

(* logout *)
StartLogout(d) ==
  /\ device[d].token # 0 /\ Active # {}
  /\ Begin(d, [op |-> IF device[d].token \in Active THEN "signoutOne" ELSE "signoutAll",
               seen |-> device[d].token])

CommitLogout(d) ==
  /\ req[d].op \in {"signoutOne", "signoutAll"}
  /\ token' = IF req[d].op = "signoutOne"
              THEN [token EXCEPT ![req[d].seen].status = "revoked"] ELSE RevokedBy(token)
  /\ device' = [device EXCEPT ![d] = [token |-> 0, lost |-> FALSE]]
  /\ Goto(d, Idle)
  /\ UNCHANGED <<account, code, reset, hist, calls>>

-----------------------------------------------------------------------------
(* forgotPassword (by mail), resetPassword *)

StartForgot(d) == Begin(d, [op |-> "void"])

VoidResets(d) ==
  /\ req[d].op = "void"
  /\ reset' = {}
  /\ Goto(d, [op |-> "create"])
  /\ UNCHANGED <<account, token, code, device, hist, calls>>

CreateReset(d) ==
  /\ req[d].op = "create"
  /\ \E k \in (1 .. MaxReset) \ (reset \cup Held("burn")) : reset' = reset \cup {k}
  /\ Goto(d, Idle)
  /\ UNCHANGED <<account, token, code, device, hist, calls>>

StartReset(d, k) == k \in reset /\ Begin(d, [op |-> "burn", id |-> k])

BurnReset(d) ==
  /\ req[d].op = "burn"
  /\ reset' = reset \ {req[d].id}
  /\ Goto(d, [op |-> "setPassword"])
  /\ UNCHANGED <<account, token, code, device, hist, calls>>

(* A reset token used by two calls at once changes the password twice. *)
SetPassword(d) ==
  /\ req[d].op = "setPassword"
  /\ account.pw < MaxReset
  /\ account' = [account EXCEPT !.pw = @ + 1]
  /\ Goto(d, [op |-> "endAll"])
  /\ hist' = [hist EXCEPT !.oldPassword = @ \cup Others(d)]
  /\ UNCHANGED <<token, code, reset, device, calls>>

EndAll(d) ==
  /\ req[d].op = "endAll"
  /\ token' = RevokedBy(token)
  /\ Goto(d, Idle)
  /\ hist' = [hist EXCEPT !.oldPassword = @ \cup Others(d)]
  /\ UNCHANGED <<account, code, reset, device, calls>>

-----------------------------------------------------------------------------
(* Failures and time *)

(* The call breaks off; a device whose token was rotated or replaced by     *)
(* then does not learn of it.                                               *)
Fail(d) ==
  /\ req[d] # Idle
  /\ Goto(d, Idle)
  /\ device' = [device EXCEPT ![d].lost = @ \/ req[d].op \in {"mark", "reply"}]
  /\ IF req[d].op = "endAll"
     THEN hist' = [hist EXCEPT
            !.outdated = @ \cup {t \in Unrevoked : token[t].pw # account.pw},
            !.oldPassword = @ \cup Others(d)]
     ELSE UNCHANGED hist
  /\ UNCHANGED <<account, token, code, reset, calls>>

LockExpires ==
  /\ account.locked
  /\ account' = [account EXCEPT !.locked = FALSE]
  /\ UNCHANGED <<token, code, reset, device, req, hist, calls>>

TokenExpires(t) ==
  /\ token[t].status = "live" /\ ~token[t].expired
  /\ token' = [token EXCEPT ![t].expired = TRUE]
  /\ UNCHANGED <<account, code, reset, device, req, hist, calls>>

CodeExpires(c) ==
  /\ c \in code
  /\ code' = code \ {c}
  /\ UNCHANGED <<account, token, reset, device, req, hist, calls>>

ResetExpires(k) ==
  /\ k \in reset
  /\ reset' = reset \ {k}
  /\ UNCHANGED <<account, token, code, device, req, hist, calls>>

Call(d) ==
  \/ StartLogin(d) \/ StartWrongLogin(d) \/ CommitWrong(d)
  \/ ChallengeLogin(d) \/ ChallengeTakeover(d) \/ TakeOver(d) \/ LoginAlone(d)
  \/ InvalidateCodes(d) \/ SendCode(d) \/ SpendCode(d)
  \/ \E c \in 1 .. MaxCode : StartVerify(d, c)
  \/ RevokeSessions(d) \/ BumpVersion(d)
  \/ IssueToken(d) \/ MarkSuccess(d) \/ Reply(d)
  \/ StartRefresh(d) \/ Refuse(d) \/ Rotate(d) \/ Reread(d)
  \/ StartLogout(d) \/ CommitLogout(d)
  \/ StartForgot(d) \/ VoidResets(d) \/ CreateReset(d)
  \/ \E k \in 1 .. MaxReset : StartReset(d, k)
  \/ BurnReset(d) \/ SetPassword(d) \/ EndAll(d)
  \/ Fail(d)

Next ==
  \/ \E d \in Device : Call(d)
  \/ LockExpires
  \/ \E t \in Token : TokenExpires(t)
  \/ \E c \in 1 .. MaxCode : CodeExpires(c)
  \/ \E k \in 1 .. MaxReset : ResetExpires(k)

Spec == Init /\ [][Next]_vars

-----------------------------------------------------------------------------
(* Properties *)

(* Every variable stays in its type. *)
TypeOK ==
  /\ account \in AccountRow
  /\ token \in [Token -> TokenRow \cup {Unborn}]
  /\ code \subseteq 1 .. MaxCode
  /\ reset \subseteq 1 .. MaxReset
  /\ device \in [Device -> Client]
  /\ req \in [Device -> ReqState]
  /\ calls \in 0 .. MaxCall
  /\ hist \in [crossed : SUBSET Token, outdated : SUBSET Token, oldVersion : SUBSET Device,
               oldPassword : SUBSET Device, late : SUBSET Device]

(* Single-session enforcement, whatever overlaps: of two usable sessions    *)
(* the older crossed with another call, which was past its look at the      *)
(* sessions, or was replacing one, when that session was created; and the   *)
(* access token of any other session is of the current sessionVersion.      *)
OneUsableSession ==
  /\ \A t, u \in Active : t < u => t \in hist.crossed
  /\ \A t \in Active \ hist.crossed : token[t].sv = account.sv

(* A lock is lifted by time, or late: by a call that had tested it before   *)
(* it was set, a success that resets it or a failure that counted from an   *)
(* older number of attempts.                                                *)
LockLiftedOnlyLate ==
  [][account.locked /\ ~account'.locked =>
       LockExpires \/ \E d \in hist.late : CommitWrong(d) \/ MarkSuccess(d)]_vars

(* A device that holds a live token is told to sign in again only because   *)
(* another device signed in after it, or because the reply that carried the *)
(* device's own next token got lost.                                        *)
RefusedOnlyWhenLost ==
  \A d \in Device :
    req[d].op = "refuse" /\ device[d].token \in Active =>
      /\ req[d].seen > device[d].token
      /\ token[req[d].seen].of # d \/ device[d].lost

(* No session outlives the password it goes back to, whatever overlaps,     *)
(* unless a reset is about to end it, a reset broke off before it did, or   *)
(* the session was created by a call that the reset overlapped.             *)
ResetEndsSessions ==
  \A t \in Unrevoked :
    token[t].pw # account.pw =>
      t \in hist.outdated \/ \E d \in Device : req[d].op = "endAll"
===============================================================================
