------------------------- MODULE AuthSessions_proofs -------------------------
(***************************************************************************)
(* Theorems about AuthSessions, for any set of devices and all bounds.      *)
(***************************************************************************)
EXTENDS AuthSessions, WellFoundedInduction, TLAPS

Born(t) == token[t] # Unborn

(* A call refers to tokens that were created; a token issued is the         *)
(* caller's.                                                                *)
CallRefs(d) ==
  /\ req[d].op \in {"rotate", "reread", "signoutOne"} => req[d].seen \in Token /\ Born(req[d].seen)
  /\ req[d].op \in {"mark", "reply"} => Born(req[d].token) /\ token[req[d].token].of = d

(* Tokens are created in the order of their numbers. *)
RefsOk ==
  /\ \A d \in Device : CallRefs(d)
  /\ \A d \in Device : device[d].token # 0 => Born(device[d].token)
  /\ \A t \in Token : Born(t) => \A u \in Token : u < t => Born(u)

HistState ==
  [crossed : SUBSET Token, outdated : SUBSET Token, oldVersion : SUBSET Device,
   oldPassword : SUBSET Device, late : SUBSET Device]

Typed ==
  /\ account \in AccountRow
  /\ token \in [Token -> TokenRow \cup {Unborn}]
  /\ device \in [Device -> Client]
  /\ req \in [Device -> ReqState]
  /\ hist \in HistState

Shape == Typed /\ RefsOk

-----------------------------------------------------------------------------
(* Rows and calls *)

LEMMA Types ==
  ASSUME Shape
  PROVE  /\ account \in AccountRow
         /\ token \in [Token -> TokenRow \cup {Unborn}]
         /\ device \in [Device -> Client]
         /\ req \in [Device -> ReqState]
         /\ hist \in HistState
BY DEF Shape, Typed

LEMMA BornRow ==
  ASSUME Shape, NEW t \in Token
  PROVE  /\ Born(t) <=> token[t] \in TokenRow
         /\ t \in Unrevoked => Born(t)
BY DEF Shape, Typed, Born, TokenRow, Unborn, Unrevoked

LEMMA StateOfCall ==
  ASSUME NEW x \in ReqState
  PROVE  /\ x.op = "idle" <=> x = Idle
         /\ x.op = "entered" => x \in Entered
         /\ x.op = "wrong" => x \in Wrong
         /\ x.op = "spend" => x \in Spending
         /\ x.op \in {"revoke", "bump"} => x \in Ending
         /\ x.op = "issue" => x \in Issuing
         /\ x.op \in {"mark", "reply"} => x \in Issued
         /\ x.op \in {"rotate", "reread", "refuse", "signoutOne", "signoutAll"} => x \in Rotating
         /\ x.op = "burn" => x \in Burning
BY DEF ReqState, Idle, Entered, Wrong, Plain, Spending, Ending, Issuing, Issued, Rotating, Burning

LEMMA StateSets ==
  /\ Idle \in ReqState
  /\ Entered \subseteq ReqState /\ Wrong \subseteq ReqState /\ Plain \subseteq ReqState
  /\ Spending \subseteq ReqState /\ Ending \subseteq ReqState /\ Issuing \subseteq ReqState
  /\ Issued \subseteq ReqState /\ Rotating \subseteq ReqState /\ Burning \subseteq ReqState
BY DEF ReqState

LEMMA HasLeast ==
  ASSUME NEW T \in SUBSET Nat, T # {}
  PROVE  \E x \in T : \A y \in T : x <= y
<1>1. PICK R : R = OpToRel(<, Nat)
  OBVIOUS
<1>2. IsWellFoundedOn(R, Nat)
  BY <1>1, NatLessThanWellFounded, Zenon
<1>3. PICK x \in T : \A y \in T : <<y, x>> \notin R
  BY <1>2, WFMin
<1>4. \A y \in T : ~(y < x)
  BY <1>1, <1>3 DEF OpToRel
<1>. QED
  BY <1>4

LEMMA NewestOf ==
  ASSUME NEW T \in SUBSET Token, T # {}
  PROVE  Newest(T) \in T /\ \A u \in T : u <= Newest(T)
<1>1. PICK S : S = {MaxToken - t : t \in T}
  OBVIOUS
<1>2. S \in SUBSET Nat /\ S # {}
  <2>1. \A t \in T : MaxToken - t \in Nat
    BY BoundAssumption DEF Token
  <2>. QED
    BY <1>1, <2>1
<1>3. PICK x \in S : \A y \in S : x <= y
  BY <1>2, HasLeast
<1>4. PICK t \in T : x = MaxToken - t
  BY <1>1, <1>3
<1>5. \A u \in T : u <= t
  BY <1>1, <1>3, <1>4, BoundAssumption DEF Token
<1>6. \E s \in T : \A u \in T : u <= s
  BY <1>5
<1>. QED
  BY <1>6 DEF Newest

LEMMA StoredOf ==
  /\ Stored = 0 \/ Stored \in Unrevoked
  /\ \A u \in Unrevoked : u <= Stored
  /\ Stored \in 0 .. MaxToken
<1>1. Unrevoked \subseteq Token
  BY DEF Unrevoked
<1>2. CASE Unrevoked = {}
  BY <1>2, BoundAssumption DEF Stored, Newest
<1>3. CASE Unrevoked # {}
  <2>1. Stored = Newest(Unrevoked)
    BY DEF Stored
  <2>2. Stored \in Unrevoked /\ \A u \in Unrevoked : u <= Stored
    BY <1>1, <1>3, <2>1, NewestOf
  <2>. QED
    BY <1>1, <2>2, BoundAssumption DEF Token
<1>. QED
  BY <1>2, <1>3

-----------------------------------------------------------------------------
(* What a step does *)

Moves(d, y) == req' = [req EXCEPT ![d] = y]

(* A call goes on from x to y without touching rows. *)
Follows(x, y) ==
  /\ x.op \notin {"endAll", "mark", "reply"}
  /\ \/ y.op \in {"idle", "invalidate", "send", "create", "setPassword"}
     \/ x.op \in {"entered", "spend"} /\ y.op = "revoke" /\ y.pw = x.pw
     \/ /\ x.op = "entered" /\ Active = {}
        /\ y = [op |-> "issue", sv |-> x.sv, pw |-> x.pw, login |-> TRUE]

GoesOn(d) ==
  \E y \in ReqState :
    /\ req[d] # Idle /\ Follows(req[d], y) /\ Moves(d, y)
    /\ UNCHANGED <<account, token, device, hist>>

(* What a call that starts has read. *)
Entering(d, y) ==
  \/ y.op \in {"void", "burn", "signoutAll"}
  \/ /\ ~account.locked
     /\ \/ y = [op |-> "entered", sv |-> account.sv, pw |-> account.pw]
        \/ y = [op |-> "wrong", attempts |-> account.attempts]
        \/ y.op = "spend" /\ y.pw = account.pw
  \/ y.op = "rotate" /\ y.seen \in Active /\ y.seen = Stored
  \/ y.op = "refuse" /\ y.seen = Stored /\ (device[d].token \in Active => Stored # device[d].token)
  \/ y.op = "signoutOne" /\ y.seen \in Active

Starts(d) == \E y \in ReqState : Begin(d, y) /\ Entering(d, y) /\ y # Idle

(* All sessions end, and the client may forget its own. *)
EndsAll(d) ==
  \E y \in ReqState :
    /\ req[d].op \in {"revoke", "refuse", "signoutAll", "endAll"}
    /\ y = Idle \/ (req[d].op = "revoke" /\ y = [op |-> "bump", pw |-> req[d].pw])
    /\ Moves(d, y) /\ token' = RevokedBy(token)
    /\ IF req[d].op = "endAll"
       THEN hist' = [hist EXCEPT !.oldPassword = @ \cup Others(d)] ELSE hist' = hist
    /\ device' = device \/ device' = [device EXCEPT ![d] = [token |-> 0, lost |-> FALSE]]
    /\ UNCHANGED account

EndsOne(d) ==
  /\ token' = [token EXCEPT ![req[d].seen].status = "revoked"]
  /\ \/ req[d].op = "rotate" /\ Moves(d, [req[d] EXCEPT !.op = "reread"]) /\ device' = device
     \/ /\ req[d].op = "signoutOne" /\ Moves(d, Idle)
        /\ device' = [device EXCEPT ![d] = [token |-> 0, lost |-> FALSE]]
  /\ UNCHANGED <<account, hist>>

LEMMA GoingOn ==
  ASSUME Shape, NEW d \in Device,
         \/ ChallengeLogin(d) \/ ChallengeTakeover(d) \/ TakeOver(d) \/ LoginAlone(d)
         \/ InvalidateCodes(d) \/ SendCode(d) \/ SpendCode(d)
         \/ VoidResets(d) \/ CreateReset(d) \/ BurnReset(d)
  PROVE  GoesOn(d)
<1>1. PICK x \in ReqState : x = req[d]
  BY Types
<1>2. account \in AccountRow
  BY Types
<1>3. CASE ChallengeLogin(d) \/ ChallengeTakeover(d) \/ InvalidateCodes(d) \/ SendCode(d)
           \/ VoidResets(d) \/ CreateReset(d) \/ BurnReset(d)
  <2>1. \E y \in {[op |-> "invalidate"], [op |-> "send"], Idle, [op |-> "create"],
                [op |-> "setPassword"]} : Moves(d, y)
    BY <1>3 DEF ChallengeLogin, ChallengeTakeover, Route, InvalidateCodes, SendCode, VoidResets,
                CreateReset, BurnReset, Goto, Moves
  <2>3. PICK y : /\ y \in Plain \cup {Idle} /\ Moves(d, y)
                 /\ y.op \in {"idle", "invalidate", "send", "create", "setPassword"}
    BY <2>1 DEF Plain, Idle
  <2>2. req[d] # Idle /\ req[d].op \notin {"endAll", "mark", "reply"} /\ UNCHANGED <<account, token, device, hist>>
    BY <1>3 DEF ChallengeLogin, ChallengeTakeover, Route, InvalidateCodes, SendCode, VoidResets,
                CreateReset, BurnReset, Idle
  <2>. QED
    BY <2>2, <2>3, StateSets DEF GoesOn, Follows
<1>4. CASE TakeOver(d)
  <2>1. PICK y : y = [op |-> "revoke", pw |-> x.pw]
    OBVIOUS
  <2>2. y \in ReqState
    BY <1>1, <1>4, <2>1, StateOfCall, StateSets DEF TakeOver, Route, Entered, Ending
  <2>4. Moves(d, y) /\ UNCHANGED <<account, token, device, hist>>
    BY <1>1, <1>4, <2>1 DEF TakeOver, Route, Goto, Moves
  <2>5. x # Idle /\ Follows(x, y)
    BY <1>1, <1>4, <2>1 DEF TakeOver, Route, Follows, Idle
  <2>. QED
    BY <1>1, <2>2, <2>4, <2>5 DEF GoesOn
<1>5. CASE LoginAlone(d)
  <2>1. PICK y : y = [op |-> "issue", sv |-> x.sv, pw |-> x.pw, login |-> TRUE]
    OBVIOUS
  <2>2. y \in ReqState
    BY <1>1, <1>5, <2>1, StateOfCall, StateSets DEF LoginAlone, Route, Entered, Issuing
  <2>4. Moves(d, y) /\ UNCHANGED <<account, token, device, hist>>
    BY <1>1, <1>5, <2>1 DEF LoginAlone, Route, Goto, Moves
  <2>5. x # Idle /\ Follows(x, y)
    BY <1>1, <1>5, <2>1 DEF LoginAlone, Route, Follows, Idle
  <2>. QED
    BY <1>1, <2>2, <2>4, <2>5 DEF GoesOn
<1>6. CASE SpendCode(d)
  <2>1. PICK y : y = [op |-> "revoke", pw |-> x.pw]
    OBVIOUS
  <2>2. y \in ReqState
    BY <1>1, <1>6, <2>1, StateOfCall, StateSets DEF SpendCode, Spending, Ending
  <2>4. Moves(d, y) /\ UNCHANGED <<account, token, device, hist>>
    BY <1>1, <1>6, <2>1 DEF SpendCode, Goto, Moves
  <2>5. x # Idle /\ Follows(x, y)
    BY <1>1, <1>6, <2>1 DEF SpendCode, Follows, Idle
  <2>. QED
    BY <1>1, <2>2, <2>4, <2>5 DEF GoesOn
<1>. QED
  BY <1>3, <1>4, <1>5, <1>6

LEMMA Starting ==
  ASSUME Shape, NEW d \in Device,
         \/ StartLogin(d) \/ StartWrongLogin(d) \/ \E c \in 1 .. MaxCode : StartVerify(d, c)
         \/ StartRefresh(d) \/ StartLogout(d) \/ StartForgot(d)
         \/ \E k \in 1 .. MaxReset : StartReset(d, k)
  PROVE  Starts(d)
<1>1. account \in AccountRow /\ device[d] \in Client
  BY Types
<1>2. CASE StartLogin(d)
  <2>1. PICK y : y = [op |-> "entered", sv |-> account.sv, pw |-> account.pw]
    OBVIOUS
  <2>2. y \in ReqState /\ y # Idle
    BY <1>1, <2>1, StateSets DEF AccountRow, Entered, Idle
  <2>. QED
    BY <1>2, <2>1, <2>2 DEF StartLogin, Starts, Entering, Locked
<1>3. CASE StartWrongLogin(d)
  <2>1. PICK y : y = [op |-> "wrong", attempts |-> account.attempts]
    OBVIOUS
  <2>2. y \in ReqState /\ y # Idle
    BY <1>1, <2>1, StateSets DEF AccountRow, Wrong, Idle
  <2>. QED
    BY <1>3, <2>1, <2>2 DEF StartWrongLogin, Starts, Entering, Locked
<1>4. ASSUME NEW c \in 1 .. MaxCode, StartVerify(d, c)
      PROVE  Starts(d)
  <2>1. PICK y : y = [op |-> "spend", id |-> c, pw |-> account.pw]
    OBVIOUS
  <2>2. y \in ReqState /\ y # Idle
    BY <1>1, <2>1, StateSets DEF AccountRow, Spending, Idle
  <2>. QED
    BY <1>4, <2>1, <2>2 DEF StartVerify, Starts, Entering, Locked
<1>5. CASE StartRefresh(d)
  <2>1. CASE Stored # 0 /\ ~token[Stored].expired /\ device[d].token = Stored
    <3>1. PICK y : y = [op |-> "rotate", seen |-> Stored]
      OBVIOUS
    <3>2. y \in ReqState /\ y # Idle /\ y.seen \in Active
      BY <2>1, <3>1, StoredOf, StateSets DEF Rotating, Idle, Active
    <3>. QED
      BY <1>5, <2>1, <3>1, <3>2 DEF StartRefresh, Starts, Entering
  <2>2. CASE ~(Stored # 0 /\ ~token[Stored].expired /\ device[d].token = Stored)
    <3>1. PICK y : y = [op |-> "refuse", seen |-> Stored]
      OBVIOUS
    <3>2. y \in ReqState /\ y # Idle
      BY <3>1, StoredOf, StateSets DEF Rotating, Idle
    <3>3. device[d].token \in Active => Stored # device[d].token
      BY <2>2, <1>5 DEF Active, StartRefresh
    <3>. QED
      BY <1>5, <2>2, <3>1, <3>2, <3>3 DEF StartRefresh, Starts, Entering
  <2>. QED
    BY <2>1, <2>2
<1>6. CASE StartLogout(d)
  <2>1. PICK y : y = [op |-> IF device[d].token \in Active THEN "signoutOne" ELSE "signoutAll",
                      seen |-> device[d].token]
    OBVIOUS
  <2>2. y \in ReqState /\ y # Idle
    BY <1>1, <2>1, StateSets DEF Client, Rotating, Idle
  <2>. QED
    BY <1>6, <2>1, <2>2 DEF StartLogout, Starts, Entering
<1>7. CASE StartForgot(d)
  <2>1. PICK y : y = [op |-> "void"]
    OBVIOUS
  <2>2. y \in Plain /\ y # Idle
    BY <2>1 DEF Plain, Idle
  <2>. QED
    BY <1>7, <2>1, <2>2, StateSets DEF StartForgot, Starts, Entering
<1>8. ASSUME NEW k \in 1 .. MaxReset, StartReset(d, k)
      PROVE  Starts(d)
  <2>1. PICK y : y = [op |-> "burn", id |-> k]
    OBVIOUS
  <2>2. y \in Burning /\ y # Idle
    BY <2>1 DEF Burning, Idle
  <2>. QED
    BY <1>8, <2>1, <2>2, StateSets DEF StartReset, Starts, Entering
<1>. QED
  BY <1>2, <1>3, <1>4, <1>5, <1>6, <1>7, <1>8

LEMMA Ends ==
  ASSUME Shape, NEW d \in Device,
         RevokeSessions(d) \/ Refuse(d) \/ Rotate(d) \/ CommitLogout(d) \/ EndAll(d)
  PROVE  EndsAll(d) \/ EndsOne(d)
<1>1. PICK x \in ReqState : x = req[d]
  BY Types
<1>2. CASE RevokeSessions(d)
  <2>1. PICK y : y = [op |-> "bump", pw |-> x.pw]
    OBVIOUS
  <2>2. y \in ReqState
    BY <1>1, <1>2, <2>1, StateOfCall, StateSets DEF RevokeSessions, Ending
  <2>. QED
    BY <1>1, <1>2, <2>1, <2>2 DEF RevokeSessions, EndsAll, Goto, Moves
<1>3. CASE Refuse(d) \/ EndAll(d)
  BY <1>3, StateSets DEF Refuse, EndAll, EndsAll, Goto, Moves
<1>4. CASE Rotate(d)
  BY <1>4 DEF Rotate, EndsOne, Goto, Moves
<1>5. CASE CommitLogout(d)
  BY <1>5, StateSets DEF CommitLogout, EndsAll, EndsOne, Goto, Moves
<1>. QED
  BY <1>2, <1>3, <1>4, <1>5

LEMMA MoveTypes ==
  ASSUME Shape, NEW d \in Device, NEW y \in ReqState, Moves(d, y)
  PROVE  /\ req' \in [Device -> ReqState] /\ req'[d] = y
         /\ \A e \in Device \ {d} : req'[e] = req[e]
BY Types DEF Moves

(* No token is created, and none comes back. *)
TokensStay ==
  /\ token' \in [Token -> TokenRow \cup {Unborn}]
  /\ \A t \in Token : Born(t) <=> Born(t)'
  /\ \A t \in Token : Born(t) =>
       token'[t].of = token[t].of /\ token'[t].pw = token[t].pw /\ token'[t].sv = token[t].sv
  /\ \A t \in Token : t \in Unrevoked' => t \in Unrevoked
  /\ \A t \in Token : t \in Active' => t \in Active

LEMMA SameTokens ==
  ASSUME Shape, token' = token
  PROVE  TokensStay
BY Types DEF TokensStay, Born, Unrevoked, Active

LEMMA TokenChanged ==
  ASSUME Shape, NEW t \in Token, Born(t), NEW row \in TokenRow,
         token' = [token EXCEPT ![t] = row],
         row.of = token[t].of /\ row.pw = token[t].pw /\ row.sv = token[t].sv,
         row.status = "live" => token[t].status = "live",
         token[t].expired => row.expired
  PROVE  TokensStay
<1>1. token'[t] = row /\ \A u \in Token \ {t} : token'[u] = token[u]
  BY Types
<1>2. token' \in [Token -> TokenRow \cup {Unborn}]
  BY Types
<1>3. \A u \in Token : Born(u) <=> Born(u)'
  BY <1>1 DEF Born, TokenRow, Unborn
<1>. QED
  BY <1>1, <1>2, <1>3 DEF TokensStay, Unrevoked, Active

LEMMA TokenEnded ==
  ASSUME Shape, NEW t \in Token, Born(t), token' = [token EXCEPT ![t].status = "revoked"]
  PROVE  TokensStay /\ t \notin Unrevoked' /\ t \notin Active'
<1>1. token[t] \in TokenRow
  BY BornRow
<1>2. PICK row : row = [token[t] EXCEPT !.status = "revoked"]
  OBVIOUS
<1>3. row \in TokenRow /\ row.of = token[t].of /\ row.pw = token[t].pw /\ row.sv = token[t].sv
      /\ row.status = "revoked" /\ row.expired = token[t].expired
  BY <1>1, <1>2 DEF TokenRow
<1>4. token' = [token EXCEPT ![t] = row]
  BY <1>2, Types
<1>5. TokensStay
  BY <1>3, <1>4, TokenChanged
<1>. QED
  BY <1>3, <1>4, <1>5, Types DEF Unrevoked, Active

LEMMA AllEnded ==
  ASSUME Shape, token' = RevokedBy(token)
  PROVE  TokensStay /\ Unrevoked' = {} /\ Active' = {}
<1>1. ASSUME NEW t \in Token
      PROVE  /\ token'[t] \in TokenRow \cup {Unborn} /\ token'[t].status # "live"
             /\ Born(t) <=> Born(t)'
             /\ Born(t) => token'[t].of = token[t].of /\ token'[t].pw = token[t].pw
                           /\ token'[t].sv = token[t].sv
  <2>1. CASE token[t].status = "live"
    <3>1. token[t] \in TokenRow
      BY <2>1, Types DEF Unborn
    <3>2. token'[t] = [token[t] EXCEPT !.status = "revoked"]
      BY <2>1 DEF RevokedBy
    <3>. QED
      BY <3>1, <3>2 DEF TokenRow, Born, Unborn
  <2>2. CASE token[t].status # "live"
    <3>1. token'[t] = token[t]
      BY <2>2 DEF RevokedBy
    <3>. QED
      BY <3>1, <2>2, Types DEF Born
  <2>. QED
    BY <2>1, <2>2
<1>2. token' \in [Token -> TokenRow \cup {Unborn}]
  <2>1. token' = [t \in Token |-> token'[t]]
    BY DEF RevokedBy
  <2>. QED
    BY <1>1, <2>1
<1>3. Unrevoked' = {} /\ Active' = {}
  BY <1>1 DEF Unrevoked, Active
<1>. QED
  BY <1>1, <1>2, <1>3 DEF TokensStay

(* What the other calls refer to stays. *)
LEMMA ShapeOfMove ==
  ASSUME Shape, NEW d \in Device, NEW y \in ReqState, Moves(d, y), TokensStay,
         account' \in AccountRow, device' \in [Device -> Client], hist' \in HistState,
         \A e \in Device : device'[e].token # 0 => Born(device[e].token)',
         CallRefs(d)'
  PROVE  Shape'
<1>1. /\ req' \in [Device -> ReqState] /\ req'[d] = y
      /\ \A e \in Device \ {d} : req'[e] = req[e]
  BY MoveTypes
<1>2. Typed'
  BY <1>1 DEF Typed, TokensStay
<1>3. ASSUME NEW e \in Device, e # d
      PROVE  CallRefs(e)'
  <2>1. PICK x \in ReqState : x = req[e] /\ x = req'[e]
    BY <1>1, <1>3, Types
  <2>2. CallRefs(e)
    BY DEF Shape, RefsOk
  <2>3. x.op \in {"mark", "reply"} => x.token \in Token
    BY <2>1, StateOfCall DEF Issued
  <2>. QED
    BY <2>1, <2>2, <2>3 DEF CallRefs, TokensStay
<1>4. \A t \in Token : Born(t)' => \A u \in Token : u < t => Born(u)'
  BY DEF TokensStay, Shape, RefsOk
<1>. QED
  BY <1>2, <1>3, <1>4 DEF Shape, RefsOk

LEMMA ClientsKept ==
  ASSUME Shape, TokensStay, NEW d \in Device,
         device' = device \/ device' = [device EXCEPT ![d] = [token |-> 0, lost |-> FALSE]]
  PROVE  /\ device' \in [Device -> Client]
         /\ \A e \in Device : device'[e].token # 0 => Born(device[e].token)'
<1>1. [token |-> 0, lost |-> FALSE] \in Client
  BY BoundAssumption DEF Client
<1>2. device' \in [Device -> Client]
  BY <1>1, Types
<1>3. ASSUME NEW e \in Device, device'[e].token # 0
      PROVE  Born(device[e].token)'
  <2>1. device'[e] = device[e]
    BY <1>3, Types
  <2>2. Born(device[e].token) /\ device[e].token \in Token
    BY <1>3, <2>1, Types DEF Shape, RefsOk, Client, Token
  <2>. QED
    BY <2>1, <2>2 DEF TokensStay
<1>. QED
  BY <1>2, <1>3

-----------------------------------------------------------------------------
(* Every step keeps the shape *)

LEMMA BeganHist ==
  ASSUME Shape, NEW d \in Device, NEW y, Begin(d, y)
  PROVE  /\ hist' \in HistState /\ hist'.late = hist.late \ {d}
         /\ hist'.crossed = hist.crossed /\ hist'.outdated = hist.outdated
         /\ hist'.oldVersion = hist.oldVersion \ {d}
         /\ hist.oldPassword \ {d} \subseteq hist'.oldPassword
         /\ Prolongs(y) => d \in hist'.oldPassword
<1>1. hist \in HistState
  BY Types
<1>2. PICK held \in SUBSET Device :
        held = IF Prolongs(y) THEN hist.oldPassword \cup {d} ELSE hist.oldPassword \ {d}
  BY <1>1 DEF HistState
<1>3. hist' = [hist EXCEPT !.oldVersion = hist.oldVersion \ {d}, !.oldPassword = held,
                           !.late = hist.late \ {d}]
  BY <1>1, <1>2 DEF Begin, HistState
<1>4. /\ hist' \in HistState /\ hist'.oldPassword = held /\ hist'.late = hist.late \ {d}
      /\ hist'.crossed = hist.crossed /\ hist'.outdated = hist.outdated
      /\ hist'.oldVersion = hist.oldVersion \ {d}
  BY <1>1, <1>3 DEF HistState
<1>. QED
  BY <1>2, <1>4

(* A reset is over: the calls it overlapped may hold an older password.     *)
LEMMA ResetHist ==
  ASSUME Shape, NEW d \in Device, hist' = [hist EXCEPT !.oldPassword = @ \cup Others(d)]
  PROVE  /\ hist' \in HistState /\ hist'.late = hist.late
         /\ hist'.crossed = hist.crossed /\ hist'.outdated = hist.outdated
         /\ hist'.oldVersion = hist.oldVersion
         /\ hist'.oldPassword = hist.oldPassword \cup Others(d)
<1>1. hist \in HistState
  BY Types
<1>2. PICK held \in SUBSET Device : held = hist.oldPassword \cup Others(d)
  BY <1>1 DEF HistState, Others, Calling
<1>3. hist' = [hist EXCEPT !.oldPassword = held]
  BY <1>1, <1>2 DEF HistState
<1>. QED
  BY <1>1, <1>2, <1>3 DEF HistState

LEMMA EndedHist ==
  ASSUME Shape, NEW d \in Device, EndsAll(d)
  PROVE  /\ hist' \in HistState /\ hist'.late = hist.late
         /\ hist'.crossed = hist.crossed /\ hist'.outdated = hist.outdated
         /\ hist'.oldVersion = hist.oldVersion /\ hist.oldPassword \subseteq hist'.oldPassword
         /\ req[d].op = "endAll" => Others(d) \subseteq hist'.oldPassword
BY ResetHist, Types DEF EndsAll

LEMMA GoesOnShape ==
  ASSUME Shape, NEW d \in Device, GoesOn(d)
  PROVE  Shape'
<1>1. PICK y \in ReqState : /\ Follows(req[d], y) /\ Moves(d, y)
                            /\ UNCHANGED <<account, token, device, hist>>
  BY DEF GoesOn
<1>2. CallRefs(d)'
  BY <1>1, MoveTypes DEF CallRefs, Follows
<1>3. TokensStay
  BY <1>1, SameTokens
<1>. QED
  BY <1>1, <1>2, <1>3, ClientsKept, ShapeOfMove, Types

LEMMA StartsShape ==
  ASSUME Shape, NEW d \in Device, Starts(d)
  PROVE  Shape'
<1>1. PICK y \in ReqState : Begin(d, y) /\ Entering(d, y)
  BY DEF Starts
<1>2. Moves(d, y) /\ UNCHANGED <<account, token, device>>
  BY <1>1 DEF Begin, Moves
<1>3. y.op \in {"rotate", "reread", "signoutOne"} => y.seen \in Token /\ Born(y.seen)
  BY <1>1, BornRow DEF Entering, Active, Unrevoked
<1>4. CallRefs(d)'
  <2>1. req'[d] = y /\ y.op \notin {"mark", "reply"}
    BY <1>1, <1>2, MoveTypes DEF Entering
  <2>. QED
    BY <2>1, <1>2, <1>3 DEF CallRefs, Born
<1>5. TokensStay
  BY <1>2, SameTokens
<1>. QED
  BY <1>1, <1>2, <1>4, <1>5, BeganHist, ClientsKept, ShapeOfMove, Types

LEMMA EndsAllShape ==
  ASSUME Shape, NEW d \in Device, EndsAll(d)
  PROVE  /\ Shape' /\ TokensStay /\ Unrevoked' = {} /\ Active' = {}
<1>1. PICK y \in ReqState :
        /\ y = Idle \/ (req[d].op = "revoke" /\ y = [op |-> "bump", pw |-> req[d].pw])
        /\ Moves(d, y) /\ token' = RevokedBy(token)
        /\ device' = device \/ device' = [device EXCEPT ![d] = [token |-> 0, lost |-> FALSE]]
        /\ UNCHANGED account
  BY DEF EndsAll
<1>2. TokensStay /\ Unrevoked' = {} /\ Active' = {}
  BY <1>1, AllEnded
<1>3. CallRefs(d)'
  BY <1>1, MoveTypes DEF CallRefs, Idle
<1>. QED
  BY <1>1, <1>2, <1>3, EndedHist, ClientsKept, ShapeOfMove, Types

(* The successor of a token goes back to the same password.                 *)
LEMMA RereadShape ==
  ASSUME Shape, NEW d \in Device, Reread(d)
  PROVE  /\ Shape' /\ UNCHANGED <<account, token, device>> /\ TokensStay
         /\ req[d].op = "reread"
         /\ req'[d] = [op |-> "issue", sv |-> account.sv, pw |-> token[req[d].seen].pw,
                       login |-> FALSE]
         /\ req'[d].op = "issue" /\ req'[d].sv = account.sv
         /\ req'[d].pw = token[req[d].seen].pw
         /\ hist'.late = hist.late /\ hist'.crossed = hist.crossed
         /\ hist'.outdated = hist.outdated /\ hist'.oldPassword = hist.oldPassword
         /\ hist'.oldVersion = hist.oldVersion \ {d}
<1>1. PICK x \in ReqState : x = req[d]
  BY Types
<1>2. account \in AccountRow /\ hist \in HistState
  BY Types
<1>3. PICK y : y = [op |-> "issue", sv |-> account.sv, pw |-> token[x.seen].pw, login |-> FALSE]
  OBVIOUS
<1>4. x.seen \in Token /\ token[x.seen] \in TokenRow
  BY <1>1, BornRow DEF Reread, Shape, RefsOk, CallRefs
<1>5. y \in ReqState
  BY <1>2, <1>3, <1>4, StateSets DEF AccountRow, TokenRow, Issuing
<1>6. /\ Moves(d, y) /\ UNCHANGED <<account, token, device>>
      /\ hist' = [hist EXCEPT !.oldVersion = hist.oldVersion \ {d}]
  BY <1>1, <1>2, <1>3 DEF Reread, Goto, Moves, HistState
<1>7. /\ hist' \in HistState
      /\ hist'.late = hist.late /\ hist'.crossed = hist.crossed
      /\ hist'.outdated = hist.outdated /\ hist'.oldPassword = hist.oldPassword
      /\ hist'.oldVersion = hist.oldVersion \ {d}
  BY <1>2, <1>6 DEF HistState
<1>8. req'[d] = y /\ TokensStay
  BY <1>5, <1>6, MoveTypes, SameTokens
<1>9. CallRefs(d)'
  BY <1>3, <1>8 DEF CallRefs
<1>10. Shape'
  BY <1>2, <1>5, <1>6, <1>7, <1>8, <1>9, ClientsKept, ShapeOfMove, Types
<1>11. req[d].op = "reread"
  BY DEF Reread
<1>. QED
  BY <1>1, <1>3, <1>6, <1>7, <1>8, <1>10, <1>11

LEMMA EndsOneShape ==
  ASSUME Shape, NEW d \in Device, EndsOne(d)
  PROVE  /\ Shape' /\ TokensStay
         /\ req[d].seen \in Token /\ req[d].seen \notin Active'
<1>1. PICK x \in ReqState : x = req[d]
  BY Types
<1>2. x.op \in {"rotate", "signoutOne"} /\ x \in Rotating /\ x.seen \in Token /\ Born(x.seen)
  BY <1>1, StateOfCall DEF EndsOne, Shape, RefsOk, CallRefs
<1>3. TokensStay /\ x.seen \notin Active'
  BY <1>1, <1>2, TokenEnded DEF EndsOne
<1>4. PICK y \in ReqState : Moves(d, y) /\ y \in {Idle, [x EXCEPT !.op = "reread"]}
  <2>1. [x EXCEPT !.op = "reread"] \in Rotating
    BY <1>2 DEF Rotating
  <2>. QED
    BY <1>1, <2>1, StateSets DEF EndsOne
<1>5. CallRefs(d)'
  <2>1. y.op = "idle" \/ (y.op = "reread" /\ y.seen = x.seen)
    BY <1>2, <1>4 DEF Idle, Rotating
  <2>. QED
    BY <2>1, <1>2, <1>3, <1>4, MoveTypes DEF CallRefs, TokensStay
<1>. QED
  BY <1>1, <1>2, <1>3, <1>4, <1>5, ClientsKept, ShapeOfMove, Types DEF EndsOne

LEMMA CommitWrongShape ==
  ASSUME Shape, NEW d \in Device, CommitWrong(d)
  PROVE  /\ Shape' /\ account'.sv = account.sv /\ account'.pw = account.pw
         /\ hist'.crossed = hist.crossed /\ hist'.outdated = hist.outdated
         /\ hist'.oldVersion = hist.oldVersion /\ hist'.oldPassword = hist.oldPassword
         /\ account'.locked /\ ~account.locked => hist'.late = Others(d)
         /\ account'.locked /\ account.locked => hist'.late = hist.late
<1>1. PICK x \in ReqState : x = req[d]
  BY Types
<1>2. account \in AccountRow /\ hist \in HistState
  BY Types
<1>3. x.op = "wrong" /\ x.attempts \in 0 .. MaxAttempts
  BY <1>1, StateOfCall DEF CommitWrong, Wrong
<1>4. PICK n : n = x.attempts + 1
  OBVIOUS
<1>5. /\ account' = [account EXCEPT !.locked = LocksAt(n), !.attempts = Counted(n)]
      /\ hist' = [hist EXCEPT !.late =
                    IF LocksAt(n) /\ ~account.locked THEN Others(d) ELSE @]
      /\ Moves(d, Idle) /\ token' = token /\ device' = device
  BY <1>1, <1>4 DEF CommitWrong, Goto, Moves
<1>6. LocksAt(n) \in BOOLEAN /\ Counted(n) \in 0 .. MaxAttempts
  BY <1>3, <1>4, BoundAssumption DEF LocksAt, Counted
<1>7. /\ account' \in AccountRow /\ account'.locked = LocksAt(n)
      /\ account'.sv = account.sv /\ account'.pw = account.pw
  BY <1>2, <1>5, <1>6 DEF AccountRow
<1>8. PICK late \in SUBSET Device :
        late = IF LocksAt(n) /\ ~account.locked THEN Others(d) ELSE hist.late
  BY <1>2 DEF HistState, Calling, Others
<1>9. hist' = [hist EXCEPT !.late = late]
  BY <1>2, <1>5, <1>8 DEF HistState
<1>10. /\ hist' \in HistState /\ hist'.late = late
       /\ hist'.crossed = hist.crossed /\ hist'.outdated = hist.outdated
       /\ hist'.oldVersion = hist.oldVersion /\ hist'.oldPassword = hist.oldPassword
  BY <1>2, <1>9 DEF HistState
<1>11. CallRefs(d)'
  BY <1>5, MoveTypes, StateSets DEF CallRefs, Idle
<1>12. Shape'
  BY <1>5, <1>7, <1>10, <1>11, SameTokens, StateSets, ClientsKept, ShapeOfMove
<1>. QED
  BY <1>7, <1>8, <1>10, <1>12

LEMMA AccountHist ==
  ASSUME Shape, NEW d \in Device, BumpVersion(d) \/ SetPassword(d) \/ MarkSuccess(d)
  PROVE  /\ hist' \in HistState /\ hist'.late = hist.late
         /\ hist'.crossed = hist.crossed /\ hist'.outdated = hist.outdated
         /\ hist.oldVersion \ {d} \subseteq hist'.oldVersion
         /\ hist.oldPassword \subseteq hist'.oldPassword
         /\ BumpVersion(d) => Others(d) \subseteq hist'.oldVersion
<1>1. hist \in HistState
  BY Types
<1>2. CASE BumpVersion(d)
  <2>1. PICK held \in SUBSET Device : held = (hist.oldVersion \cup Others(d)) \ {d}
    BY <1>1 DEF HistState, Others, Calling
  <2>2. hist' = [hist EXCEPT !.oldVersion = held]
    BY <1>1, <1>2, <2>1 DEF BumpVersion, HistState
  <2>3. d \notin Others(d)
    BY DEF Others
  <2>. QED
    BY <1>1, <2>1, <2>2, <2>3 DEF HistState
<1>3. CASE SetPassword(d)
  <2>1. ~BumpVersion(d)
    BY <1>3 DEF SetPassword, BumpVersion
  <2>2. hist' = [hist EXCEPT !.oldPassword = @ \cup Others(d)]
    BY <1>3 DEF SetPassword
  <2>. QED
    BY <2>1, <2>2, ResetHist
<1>4. CASE MarkSuccess(d)
  BY <1>1, <1>4 DEF MarkSuccess, BumpVersion
<1>. QED
  BY <1>2, <1>3, <1>4

LEMMA AccountShape ==
  ASSUME Shape, NEW d \in Device, BumpVersion(d) \/ SetPassword(d) \/ MarkSuccess(d)
  PROVE  /\ Shape' /\ UNCHANGED <<token, device>>
         /\ BumpVersion(d) =>
              /\ req[d] # Idle /\ account'.sv = account.sv + 1 /\ account'.pw = account.pw
              /\ account'.locked = account.locked
              /\ req'[d] = [op |-> "issue", sv |-> account'.sv, pw |-> req[d].pw, login |-> TRUE]
         /\ SetPassword(d) =>
              /\ req[d] # Idle /\ account'.locked = account.locked /\ account'.sv = account.sv
              /\ req'[d] = [op |-> "endAll"]
         /\ MarkSuccess(d) =>
              /\ req[d] # Idle /\ account'.sv = account.sv /\ account'.pw = account.pw
              /\ ~account'.locked
              /\ req'[d].op = "reply" /\ req'[d].token = req[d].token
<1>1. PICK x \in ReqState : x = req[d]
  BY Types
<1>2. account \in AccountRow /\ UNCHANGED <<token, device>> /\ hist' \in HistState
  BY Types, AccountHist DEF BumpVersion, SetPassword, MarkSuccess
<1>3. CASE BumpVersion(d)
  <2>1. PICK y : y = [op |-> "issue", sv |-> account.sv + 1, pw |-> x.pw, login |-> TRUE]
    OBVIOUS
  <2>2. x.op = "bump" /\ x.pw \in 0 .. MaxReset /\ account.sv + 1 \in 0 .. MaxToken
    BY <1>1, <1>2, <1>3, StateOfCall, BoundAssumption DEF BumpVersion, Ending, AccountRow
  <2>3. y \in ReqState
    BY <2>1, <2>2, StateSets DEF Issuing
  <2>4. account' \in AccountRow /\ account'.sv = account.sv + 1 /\ account'.pw = account.pw
        /\ account'.locked = account.locked
    BY <1>2, <1>3, <2>2 DEF BumpVersion, AccountRow
  <2>5. Moves(d, y)
    BY <1>1, <1>3, <2>1 DEF BumpVersion, Goto, Moves
  <2>6. req'[d] = y /\ CallRefs(d)'
    BY <2>1, <2>3, <2>5, MoveTypes DEF CallRefs
  <2>7. Shape'
    BY <1>2, <2>3, <2>4, <2>5, <2>6, SameTokens, ClientsKept, ShapeOfMove, Types
  <2>8. ~SetPassword(d) /\ ~MarkSuccess(d) /\ x # Idle
    BY <1>1, <2>2 DEF SetPassword, MarkSuccess, Idle
  <2>. QED
    BY <1>1, <1>2, <2>1, <2>4, <2>6, <2>7, <2>8
<1>4. CASE SetPassword(d)
  <2>1. PICK y : y = [op |-> "endAll"]
    OBVIOUS
  <2>2. x.op = "setPassword" /\ account.pw + 1 \in 0 .. MaxReset
    BY <1>1, <1>2, <1>4, BoundAssumption DEF SetPassword, AccountRow
  <2>3. y \in ReqState
    BY <2>1, StateSets DEF Plain
  <2>4. account' \in AccountRow /\ account'.sv = account.sv /\ account'.locked = account.locked
    BY <1>2, <1>4, <2>2 DEF SetPassword, AccountRow
  <2>5. Moves(d, y)
    BY <1>4, <2>1 DEF SetPassword, Goto, Moves
  <2>6. req'[d] = y /\ CallRefs(d)'
    BY <2>1, <2>3, <2>5, MoveTypes DEF CallRefs
  <2>7. Shape'
    BY <1>2, <2>3, <2>4, <2>5, <2>6, SameTokens, ClientsKept, ShapeOfMove, Types
  <2>8. ~BumpVersion(d) /\ ~MarkSuccess(d) /\ x # Idle
    BY <1>1, <2>2 DEF BumpVersion, MarkSuccess, Idle
  <2>. QED
    BY <1>1, <1>2, <2>1, <2>4, <2>6, <2>7, <2>8
<1>5. CASE MarkSuccess(d)
  <2>1. PICK y : y = [x EXCEPT !.op = "reply"]
    OBVIOUS
  <2>2. x.op = "mark" /\ x \in Issued
    BY <1>1, <1>5, StateOfCall DEF MarkSuccess
  <2>3. y \in ReqState /\ y.op = "reply" /\ y.token = x.token
    BY <2>1, <2>2, StateSets DEF Issued
  <2>4. account' \in AccountRow /\ account'.sv = account.sv /\ account'.pw = account.pw
        /\ ~account'.locked
    <3>1. PICK zero \in 0 .. MaxAttempts : zero = 0
      BY BoundAssumption
    <3>2. account' = [account EXCEPT !.attempts = zero, !.locked = FALSE]
      BY <1>5, <3>1 DEF MarkSuccess
    <3>. QED
      BY <1>2, <3>2 DEF AccountRow
  <2>5. Moves(d, y)
    BY <1>1, <1>5, <2>1 DEF MarkSuccess, Goto, Moves
  <2>6. req'[d] = y /\ CallRefs(d)'
    BY <1>1, <1>2, <2>2, <2>3, <2>5, MoveTypes DEF CallRefs, Shape, RefsOk, Born
  <2>7. Shape'
    BY <1>2, <2>3, <2>4, <2>5, <2>6, SameTokens, ClientsKept, ShapeOfMove, Types
  <2>8. ~BumpVersion(d) /\ ~SetPassword(d) /\ x # Idle
    BY <1>1, <2>2 DEF BumpVersion, SetPassword, Idle
  <2>. QED
    BY <1>1, <1>2, <2>3, <2>4, <2>6, <2>7, <2>8
<1>. QED
  BY <1>3, <1>4, <1>5

LEMMA IssueShape ==
  ASSUME Shape, NEW d \in Device, IssueToken(d)
  PROVE  /\ Shape' /\ UNCHANGED <<account, device>>
         /\ req[d].op = "issue"
         /\ hist'.late = hist.late /\ hist'.oldVersion = hist.oldVersion
         /\ hist'.oldPassword = hist.oldPassword
         /\ hist.crossed \subseteq hist'.crossed /\ hist.outdated \subseteq hist'.outdated
         /\ \E t \in Token :
              /\ ~Born(t)
              /\ token'[t] = [status |-> "live", expired |-> FALSE, sv |-> req[d].sv,
                              pw |-> req[d].pw, of |-> d]
              /\ \A u \in Token \ {t} : token'[u] = token[u]
              /\ \A u \in Token : Born(u) => u < t
              /\ req'[d] = [op |-> IF req[d].login THEN "mark" ELSE "reply", token |-> t]
              /\ d \in hist.oldVersion \/ (\E e \in Others(d) : Replacing(e)) =>
                   t \in hist'.crossed
              /\ d \in hist.oldPassword /\ req[d].pw # account.pw => t \in hist'.outdated
<1>1. PICK x \in ReqState : x = req[d]
  BY Types
<1>2. PICK t \in Token :
        /\ token[t] = Unborn /\ \A u \in Token : u < t => token[u] # Unborn
        /\ token' = [token EXCEPT ![t] =
             [status |-> "live", expired |-> FALSE, sv |-> x.sv, pw |-> x.pw, of |-> d]]
        /\ Moves(d, [op |-> IF x.login THEN "mark" ELSE "reply", token |-> t])
        /\ hist' = [hist EXCEPT
             !.crossed = IF d \in hist.oldVersion \/ \E e \in Others(d) : Replacing(e)
                         THEN @ \cup {t} ELSE @,
             !.outdated = IF d \in hist.oldPassword /\ x.pw # account.pw
                          THEN @ \cup {t} ELSE @]
  BY <1>1 DEF IssueToken, Goto, Moves
<1>3. x.op = "issue" /\ x \in Issuing /\ UNCHANGED <<account, device>>
  BY <1>1, StateOfCall DEF IssueToken
<1>0. /\ hist' \in HistState
      /\ hist'.late = hist.late /\ hist'.oldVersion = hist.oldVersion
      /\ hist'.oldPassword = hist.oldPassword
      /\ hist.crossed \subseteq hist'.crossed /\ hist.outdated \subseteq hist'.outdated
      /\ d \in hist.oldVersion \/ (\E e \in Others(d) : Replacing(e)) => t \in hist'.crossed
      /\ d \in hist.oldPassword /\ x.pw # account.pw => t \in hist'.outdated
  <2>1. hist \in HistState
    BY Types
  <2>2. PICK c \in SUBSET Token :
          c = IF d \in hist.oldVersion \/ \E e \in Others(d) : Replacing(e)
              THEN hist.crossed \cup {t} ELSE hist.crossed
    BY <2>1 DEF HistState
  <2>3. PICK o \in SUBSET Token :
          o = IF d \in hist.oldPassword /\ x.pw # account.pw
              THEN hist.outdated \cup {t} ELSE hist.outdated
    BY <2>1 DEF HistState
  <2>4. hist' = [hist EXCEPT !.crossed = c, !.outdated = o]
    BY <1>2, <2>1, <2>2, <2>3 DEF HistState
  <2>5. /\ hist' \in HistState /\ hist'.crossed = c /\ hist'.outdated = o
        /\ hist'.late = hist.late /\ hist'.oldVersion = hist.oldVersion
        /\ hist'.oldPassword = hist.oldPassword
    BY <2>1, <2>4 DEF HistState
  <2>. QED
    BY <2>2, <2>3, <2>5
<1>4. PICK row : row = [status |-> "live", expired |-> FALSE, sv |-> x.sv, pw |-> x.pw, of |-> d]
  OBVIOUS
<1>5. row \in TokenRow /\ row # Unborn /\ row.of = d
  BY <1>3, <1>4 DEF TokenRow, Issuing, Unborn
<1>6. /\ token' \in [Token -> TokenRow \cup {Unborn}] /\ token'[t] = row
      /\ \A u \in Token \ {t} : token'[u] = token[u]
  BY <1>2, <1>4, <1>5, Types
<1>7. ~Born(t) /\ Born(t)' /\ \A u \in Token \ {t} : Born(u)' <=> Born(u)
  BY <1>2, <1>5, <1>6 DEF Born
<1>8. PICK y : y = [op |-> IF x.login THEN "mark" ELSE "reply", token |-> t]
  OBVIOUS
<1>9. y \in ReqState /\ y.op \in {"mark", "reply"} /\ y.token = t
  BY <1>8, StateSets DEF Issued
<1>10. Moves(d, y)
  BY <1>2, <1>8
<1>11. /\ req' \in [Device -> ReqState] /\ req'[d] = y
       /\ \A e \in Device \ {d} : req'[e] = req[e]
  BY <1>9, <1>10, MoveTypes
<1>12. Typed'
  BY <1>0, <1>3, <1>6, <1>11, Types DEF Typed
<1>13. CallRefs(d)'
  BY <1>5, <1>6, <1>7, <1>9, <1>11 DEF CallRefs, Born
<1>14. ASSUME NEW e \in Device, e # d
       PROVE  CallRefs(e)'
  <2>1. PICK z \in ReqState : z = req[e] /\ z = req'[e]
    BY <1>11, <1>14, Types
  <2>2. z.op \in {"mark", "reply"} => z.token \in Token
    BY <2>1, StateOfCall DEF Issued
  <2>3. CallRefs(e)
    BY DEF Shape, RefsOk
  <2>. QED
    BY <1>6, <1>7, <2>1, <2>2, <2>3 DEF CallRefs
<1>15. \A e \in Device : device'[e].token # 0 => Born(device[e].token)'
  <2>1. \A e \in Device : device[e].token # 0 => device[e].token \in Token /\ Born(device[e].token)
    BY Types DEF Shape, RefsOk, Client, Token
  <2>. QED
    BY <1>3, <1>7, <2>1
<1>16. \A u \in Token : Born(u) => u < t
  BY <1>2, <1>7 DEF Shape, RefsOk, Token, Born
<1>17. \A v \in Token : Born(v)' => \A u \in Token : u < v => Born(u)'
  <2>1. \A u \in Token : u < t => Born(u)
    BY <1>2 DEF Born
  <2>. QED
    BY <1>7, <1>16, <2>1 DEF Shape, RefsOk, Token
<1>18. Shape'
  BY <1>12, <1>13, <1>14, <1>15, <1>17 DEF Shape, RefsOk
<1>. QED
  BY <1>0, <1>1, <1>3, <1>4, <1>6, <1>7, <1>8, <1>11, <1>16, <1>18

LEMMA IssuedCall ==
  ASSUME Shape, NEW d \in Device, IssueToken(d)
  PROVE  /\ req[d].op = "issue" /\ req'[d].op \in {"mark", "reply"}
         /\ req'[d].op = "mark" => req[d].login
<1>1. PICK t : req' = [req EXCEPT ![d] = [op |-> IF req[d].login THEN "mark" ELSE "reply",
                                          token |-> t]]
  BY DEF IssueToken, Goto
<1>2. req'[d].op = IF req[d].login THEN "mark" ELSE "reply"
  BY <1>1, Types
<1>. QED
  BY <1>2 DEF IssueToken

LEMMA ReplyShape ==
  ASSUME Shape, NEW d \in Device, Reply(d)
  PROVE  /\ Shape' /\ UNCHANGED <<account, token, hist>>
         /\ req[d].op = "reply" /\ req[d].token \in Token /\ Moves(d, Idle)
         /\ device'[d].token = req[d].token
         /\ \A e \in Device \ {d} : device'[e] = device[e]
<1>1. PICK x \in ReqState : x = req[d]
  BY Types
<1>2. x.op = "reply" /\ x \in Issued /\ x.token \in Token
  BY <1>1, StateOfCall DEF Reply, Issued
<1>3. PICK row : row = [token |-> x.token, lost |-> FALSE]
  OBVIOUS
<1>4. row \in Client /\ row.token = x.token
  BY <1>2, <1>3 DEF Client, Token
<1>5. /\ device' = [device EXCEPT ![d] = row] /\ Moves(d, Idle)
      /\ UNCHANGED <<account, token, hist>>
  BY <1>1, <1>3 DEF Reply, Goto, Moves
<1>6. device' \in [Device -> Client] /\ device'[d] = row
      /\ \A e \in Device \ {d} : device'[e] = device[e]
  BY <1>4, <1>5, Types
<1>7. Born(x.token)
  BY <1>1, <1>2 DEF Shape, RefsOk, CallRefs
<1>8. \A e \in Device : device'[e].token # 0 => Born(device[e].token)'
  BY <1>4, <1>5, <1>6, <1>7 DEF Shape, RefsOk, Born
<1>9. CallRefs(d)'
  BY <1>5, MoveTypes, StateSets DEF CallRefs, Idle
<1>10. Shape'
  BY <1>5, <1>6, <1>8, <1>9, SameTokens, StateSets, ShapeOfMove, Types
<1>. QED
  BY <1>1, <1>2, <1>4, <1>5, <1>6, <1>10

LEMMA FailShape ==
  ASSUME Shape, NEW d \in Device, Fail(d)
  PROVE  /\ Shape' /\ UNCHANGED <<account, token>> /\ Moves(d, Idle)
         /\ \A e \in Device : device'[e].token = device[e].token
         /\ \A e \in Device : device[e].lost => device'[e].lost
         /\ req[d].op \in {"mark", "reply"} => device'[d].lost
         /\ hist'.late = hist.late /\ hist'.oldVersion = hist.oldVersion
         /\ hist'.crossed = hist.crossed /\ hist.outdated \subseteq hist'.outdated
         /\ hist.oldPassword \subseteq hist'.oldPassword
         /\ req[d].op = "endAll" =>
              /\ Others(d) \subseteq hist'.oldPassword
              /\ \A t \in Unrevoked : token[t].pw # account.pw => t \in hist'.outdated
<1>1. PICK x \in ReqState : x = req[d]
  BY Types
<1>2. device[d] \in Client /\ hist \in HistState
  BY Types
<1>3. PICK lost \in BOOLEAN : lost <=> device[d].lost \/ x.op \in {"mark", "reply"}
  OBVIOUS
<1>4. lost = (device[d].lost \/ x.op \in {"mark", "reply"})
  <2>1. (device[d].lost \/ x.op \in {"mark", "reply"}) \in BOOLEAN
    OBVIOUS
  <2>. QED
    BY <1>3, <2>1
<1>5. /\ hist' \in HistState
      /\ hist'.late = hist.late /\ hist'.oldVersion = hist.oldVersion
      /\ hist'.crossed = hist.crossed /\ hist.outdated \subseteq hist'.outdated
      /\ hist.oldPassword \subseteq hist'.oldPassword
      /\ req[d].op = "endAll" =>
           /\ Others(d) \subseteq hist'.oldPassword
           /\ \A t \in Unrevoked : token[t].pw # account.pw => t \in hist'.outdated
  <2>1. CASE req[d].op = "endAll"
    <3>1. PICK o \in SUBSET Token :
            o = hist.outdated \cup {t \in Unrevoked : token[t].pw # account.pw}
      BY <1>2 DEF HistState, Unrevoked
    <3>2. PICK held \in SUBSET Device : held = hist.oldPassword \cup Others(d)
      BY <1>2 DEF HistState, Others, Calling
    <3>3. hist' = [hist EXCEPT !.outdated = o, !.oldPassword = held]
      BY <1>2, <2>1, <3>1, <3>2 DEF Fail, HistState
    <3>4. /\ hist' \in HistState /\ hist'.outdated = o /\ hist'.oldPassword = held
          /\ hist'.late = hist.late /\ hist'.oldVersion = hist.oldVersion
          /\ hist'.crossed = hist.crossed
      BY <1>2, <3>3 DEF HistState
    <3>. QED
      BY <3>1, <3>2, <3>4
  <2>2. CASE req[d].op # "endAll"
    BY <1>2, <2>2 DEF Fail
  <2>. QED
    BY <2>1, <2>2
<1>8. PICK row : row = [device[d] EXCEPT !.lost = lost]
  OBVIOUS
<1>9. row \in Client /\ row.lost = lost /\ row.token = device[d].token
  BY <1>2, <1>8 DEF Client
<1>10. device' = [device EXCEPT ![d] = row]
  BY <1>1, <1>4, <1>8, Types DEF Fail
<1>11. device' \in [Device -> Client] /\ device'[d] = row
       /\ \A e \in Device \ {d} : device'[e] = device[e]
  BY <1>9, <1>10, Types
<1>13. UNCHANGED <<account, token>> /\ Moves(d, Idle)
  BY DEF Fail, Goto, Moves
<1>14. \A e \in Device : device'[e].token = device[e].token
  BY <1>9, <1>11
<1>15. \A e \in Device : device'[e].token # 0 => Born(device[e].token)'
  BY <1>13, <1>14 DEF Shape, RefsOk, Born
<1>16. CallRefs(d)'
  BY <1>13, MoveTypes, StateSets DEF CallRefs, Idle
<1>17. Shape'
  BY <1>5, <1>11, <1>13, <1>15, <1>16, SameTokens, StateSets, ShapeOfMove, Types
<1>. QED
  BY <1>1, <1>3, <1>5, <1>9, <1>11, <1>13, <1>14, <1>17

(* Steps of no call: no call moves. *)
LEMMA ShapeOfRest ==
  ASSUME Shape, TokensStay, account' \in AccountRow, UNCHANGED <<device, req, hist>>
  PROVE  Shape'
<1>1. Typed'
  BY Types DEF Typed, TokensStay
<1>2. ASSUME NEW e \in Device
      PROVE  CallRefs(e)'
  <2>1. PICK x \in ReqState : x = req[e] /\ x = req'[e]
    BY Types
  <2>2. CallRefs(e)
    BY DEF Shape, RefsOk
  <2>3. x.op \in {"mark", "reply"} => x.token \in Token
    BY <2>1, StateOfCall DEF Issued
  <2>. QED
    BY <2>1, <2>2, <2>3 DEF CallRefs, TokensStay
<1>3. \A e \in Device : device'[e].token # 0 => Born(device[e].token)'
  <2>1. \A e \in Device : device[e].token # 0 => device[e].token \in Token /\ Born(device[e].token)
    BY Types DEF Shape, RefsOk, Client, Token
  <2>. QED
    BY <2>1 DEF TokensStay
<1>4. \A t \in Token : Born(t)' => \A u \in Token : u < t => Born(u)'
  BY DEF TokensStay, Shape, RefsOk
<1>. QED
  BY <1>1, <1>2, <1>3, <1>4 DEF Shape, RefsOk

LEMMA TokenExpiresShape ==
  ASSUME Shape, NEW t \in Token, TokenExpires(t)
  PROVE  Shape' /\ TokensStay
<1>1. token[t] \in TokenRow /\ Born(t)
  BY Types, BornRow DEF TokenExpires, Unborn
<1>2. PICK row : row = [token[t] EXCEPT !.expired = TRUE]
  OBVIOUS
<1>3. /\ row \in TokenRow /\ row.expired /\ row.status = token[t].status
      /\ row.of = token[t].of /\ row.pw = token[t].pw /\ row.sv = token[t].sv
  BY <1>1, <1>2 DEF TokenRow
<1>4. token' = [token EXCEPT ![t] = row]
  BY <1>2, Types DEF TokenExpires
<1>5. TokensStay
  BY <1>1, <1>3, <1>4, TokenChanged
<1>. QED
  BY <1>5, ShapeOfRest, Types DEF TokenExpires

LEMMA LockExpiresShape ==
  ASSUME Shape, LockExpires
  PROVE  /\ Shape' /\ TokensStay /\ ~account'.locked
         /\ account'.sv = account.sv /\ account'.pw = account.pw
<1>1. account' \in AccountRow /\ ~account'.locked
      /\ account'.sv = account.sv /\ account'.pw = account.pw
  BY Types DEF LockExpires, AccountRow
<1>2. TokensStay
  BY SameTokens DEF LockExpires
<1>. QED
  BY <1>1, <1>2, ShapeOfRest DEF LockExpires

Still == UNCHANGED <<account, token, device, req, hist>>

LEMMA StillShape ==
  ASSUME Shape, Still
  PROVE  Shape' /\ TokensStay
BY SameTokens, ShapeOfRest, Types DEF Still

-----------------------------------------------------------------------------
(* Kinds of steps *)

Kind(d) ==
  \/ Starts(d) \/ GoesOn(d) \/ Reread(d) \/ EndsAll(d) \/ EndsOne(d) \/ CommitWrong(d)
  \/ BumpVersion(d) \/ SetPassword(d) \/ MarkSuccess(d) \/ IssueToken(d)
  \/ Reply(d) \/ Fail(d)

LEMMA Kinds ==
  ASSUME Shape, NEW d \in Device, Call(d)
  PROVE  Kind(d)
<1>1. CASE \/ StartLogin(d) \/ StartWrongLogin(d) \/ \E c \in 1 .. MaxCode : StartVerify(d, c)
           \/ StartRefresh(d) \/ StartLogout(d) \/ StartForgot(d)
           \/ \E k \in 1 .. MaxReset : StartReset(d, k)
  BY <1>1, Starting DEF Kind
<1>2. CASE \/ ChallengeLogin(d) \/ ChallengeTakeover(d) \/ TakeOver(d) \/ LoginAlone(d)
           \/ InvalidateCodes(d) \/ SendCode(d) \/ SpendCode(d)
           \/ VoidResets(d) \/ CreateReset(d) \/ BurnReset(d)
  BY <1>2, GoingOn DEF Kind
<1>3. CASE RevokeSessions(d) \/ Refuse(d) \/ Rotate(d) \/ CommitLogout(d) \/ EndAll(d)
  BY <1>3, Ends DEF Kind
<1>. QED
  BY <1>1, <1>2, <1>3 DEF Call, Kind

(* What kind of step it may be, only call d moves, and only its client      *)
(* learns of it.                                                            *)
LEMMA OnlyOne ==
  ASSUME Shape, NEW d \in Device, Kind(d)
  PROVE  /\ \A e \in Device \ {d} : req'[e] = req[e] /\ device'[e] = device[e]
         /\ req' \in [Device -> ReqState] /\ Shape'
<1>1. Shape'
  BY GoesOnShape, RereadShape, StartsShape, EndsAllShape, EndsOneShape, CommitWrongShape, AccountShape,
     IssueShape, ReplyShape, FailShape DEF Kind
<1>2. \A e \in Device \ {d} : req'[e] = req[e]
  <2>1. CASE Starts(d) \/ GoesOn(d) \/ EndsAll(d)
    <3>1. \E y : req' = [req EXCEPT ![d] = y]
      BY <2>1 DEF Starts, Begin, GoesOn, EndsAll, Moves
    <3>. QED
      BY <3>1, Types
  <2>2. CASE EndsOne(d)
    BY <2>2, Types DEF EndsOne, Moves
  <2>3. CASE Reread(d) \/ CommitWrong(d) \/ BumpVersion(d) \/ SetPassword(d) \/ MarkSuccess(d)
    BY <2>3, Types DEF Reread, CommitWrong, BumpVersion, SetPassword, MarkSuccess, Goto
  <2>4. CASE IssueToken(d) \/ Reply(d) \/ Fail(d)
    BY <2>4, Types DEF IssueToken, Reply, Fail, Goto
  <2>. QED
    BY <2>1, <2>2, <2>3, <2>4 DEF Kind
<1>3. \A e \in Device \ {d} : device'[e] = device[e]
  <2>1. device' = device \/ \E y : device' = [device EXCEPT ![d] = y]
    <3>1. CASE Starts(d) \/ GoesOn(d) \/ Reread(d) \/ EndsAll(d) \/ EndsOne(d)
      BY <3>1 DEF Starts, Begin, GoesOn, Reread, EndsAll, EndsOne
    <3>2. CASE CommitWrong(d) \/ BumpVersion(d) \/ SetPassword(d) \/ MarkSuccess(d) \/ IssueToken(d)
      BY <3>2 DEF CommitWrong, BumpVersion, SetPassword, MarkSuccess, IssueToken
    <3>3. CASE Reply(d)
      BY <3>3 DEF Reply
    <3>4. CASE Fail(d)
      BY <3>4 DEF Fail
    <3>. QED
      BY <3>1, <3>2, <3>3, <3>4 DEF Kind
  <2>. QED
    BY <2>1, Types
<1>. QED
  BY <1>1, <1>2, <1>3, Types DEF Shape, Typed

-----------------------------------------------------------------------------
(* Locks *)

(* A call that can lift a lock. *)
MayLift(x) ==
  \/ x.op \in {"entered", "wrong", "spend", "revoke", "bump", "mark"}
  \/ x.op = "issue" /\ x.login

(* Such calls tested the lock before it was set. *)
LateOk == account.locked => \A d \in Device \ hist.late : ~MayLift(req[d])

LEMMA LateKept ==
  ASSUME LateOk, NEW d \in Device, \A e \in Device \ {d} : req'[e] = req[e],
         account'.locked => account.locked, hist.late \ {d} \subseteq hist'.late,
         account'.locked => ~MayLift(req'[d]) \/ d \in hist'.late
  PROVE  LateOk'
BY DEF LateOk, MayLift

LEMMA LateStep ==
  ASSUME Shape, LateOk, NEW d \in Device, Kind(d)
  PROVE  LateOk'
<1>1. \A e \in Device \ {d} : req'[e] = req[e]
  BY OnlyOne
<1>2. MayLift(req[d]) /\ account.locked => d \in hist.late
  BY DEF LateOk
<1>3. ~MayLift(Idle)
  BY DEF MayLift, Idle
<1>4. CASE Starts(d)
  <2>1. PICK y \in ReqState : Begin(d, y) /\ Entering(d, y)
    BY <1>4 DEF Starts
  <2>2. req'[d] = y /\ account' = account /\ hist'.late = hist.late \ {d}
    BY <2>1, BeganHist, Types DEF Begin
  <2>3. account.locked => ~MayLift(y)
    BY <2>1 DEF Entering, MayLift
  <2>. QED
    BY <1>1, <2>2, <2>3, LateKept
<1>14. CASE Reread(d)
  <2>1. /\ account' = account /\ hist'.late = hist.late
        /\ req'[d] = [op |-> "issue", sv |-> account.sv, pw |-> token[req[d].seen].pw,
                      login |-> FALSE]
    BY <1>14, RereadShape
  <2>2. ~MayLift(req'[d])
    BY <2>1 DEF MayLift
  <2>. QED
    BY <1>1, <2>1, <2>2, LateKept
<1>5. CASE GoesOn(d)
  <2>1. PICK y \in ReqState : /\ Follows(req[d], y) /\ Moves(d, y)
                              /\ UNCHANGED <<account, token, device, hist>>
    BY <1>5 DEF GoesOn
  <2>2. req'[d] = y /\ account' = account /\ hist' = hist
    BY <2>1, MoveTypes
  <2>3. MayLift(y) => MayLift(req[d])
    BY <2>1 DEF Follows, MayLift
  <2>. QED
    BY <1>1, <1>2, <2>2, <2>3, LateKept
<1>6. CASE EndsAll(d)
  <2>1. PICK y \in ReqState :
          /\ y = Idle \/ (req[d].op = "revoke" /\ y = [op |-> "bump", pw |-> req[d].pw])
          /\ Moves(d, y) /\ account' = account
    BY <1>6 DEF EndsAll
  <2>2. req'[d] = y /\ hist'.late = hist.late
    BY <1>6, <2>1, MoveTypes, EndedHist
  <2>3. MayLift(y) => MayLift(req[d])
    BY <1>3, <2>1 DEF MayLift
  <2>. QED
    BY <1>1, <1>2, <2>1, <2>2, <2>3, LateKept
<1>7. CASE EndsOne(d)
  <2>1. PICK x \in ReqState : x = req[d]
    BY Types
  <2>2. x \in Rotating
    BY <1>7, <2>1, StateOfCall DEF EndsOne
  <2>3. ~MayLift([x EXCEPT !.op = "reread"])
    BY <2>2 DEF Rotating, MayLift
  <2>4. req'[d] \in {Idle, [x EXCEPT !.op = "reread"]}
    BY <1>7, <2>1, Types DEF EndsOne, Moves
  <2>5. account' = account /\ hist' = hist /\ ~MayLift(req'[d])
    BY <1>3, <1>7, <2>3, <2>4 DEF EndsOne
  <2>. QED
    BY <1>1, <2>5, LateKept
<1>8. CASE CommitWrong(d)
  <2>1. req'[d] = Idle
    BY <1>8, Types DEF CommitWrong, Goto
  <2>2. CASE account'.locked /\ ~account.locked
    <3>1. hist'.late = Others(d)
      BY <1>8, <2>2, CommitWrongShape
    <3>2. \A e \in Device \ hist'.late : req'[e] = Idle
      BY <1>1, <2>1, <3>1 DEF Calling, Others
    <3>. QED
      BY <1>3, <3>2 DEF LateOk, MayLift
  <2>3. CASE ~(account'.locked /\ ~account.locked)
    <3>1. account'.locked => hist'.late = hist.late
      BY <1>8, <2>3, CommitWrongShape
    <3>. QED
      BY <1>1, <1>3, <2>1, <2>3, <3>1 DEF LateOk, MayLift
  <2>. QED
    BY <2>2, <2>3
<1>9. CASE BumpVersion(d)
  <2>1. account'.locked = account.locked /\ hist'.late = hist.late
    BY <1>9, AccountShape, AccountHist
  <2>2. MayLift(req[d])
    BY <1>9 DEF BumpVersion, MayLift
  <2>. QED
    BY <1>1, <1>2, <2>1, <2>2, LateKept
<1>10. CASE SetPassword(d)
  <2>1. /\ account'.locked = account.locked /\ hist'.late = hist.late
        /\ req'[d] = [op |-> "endAll"]
    BY <1>10, AccountShape, AccountHist
  <2>2. ~MayLift(req'[d])
    BY <2>1 DEF MayLift
  <2>. QED
    BY <1>1, <2>1, <2>2, LateKept
<1>11. CASE MarkSuccess(d)
  BY <1>11, AccountShape DEF LateOk
<1>12. CASE IssueToken(d)
  <2>1. account' = account /\ hist'.late = hist.late
    BY <1>12, IssueShape
  <2>2. MayLift(req'[d]) => MayLift(req[d])
    BY <1>12, IssuedCall DEF MayLift
  <2>. QED
    BY <1>1, <1>2, <2>1, <2>2, LateKept
<1>13. CASE Reply(d) \/ Fail(d)
  <2>1. account' = account /\ req'[d] = Idle
    BY <1>13, Types DEF Reply, Fail, Goto
  <2>2. hist'.late = hist.late
    BY <1>13, FailShape DEF Reply
  <2>. QED
    BY <1>1, <1>3, <2>1, <2>2, LateKept
<1>. QED
  BY <1>4, <1>5, <1>6, <1>7, <1>8, <1>9, <1>10, <1>11, <1>12, <1>13, <1>14 DEF Kind

(* Only a call that may lift a lock does. *)
LEMMA LockLifted ==
  ASSUME Shape, LateOk, NEW d \in Device, Kind(d), account.locked, ~account'.locked
  PROVE  d \in hist.late /\ (CommitWrong(d) \/ MarkSuccess(d))
<1>1. account' # account
  OBVIOUS
<1>2. CommitWrong(d) \/ MarkSuccess(d)
  <2>1. ~(BumpVersion(d) \/ SetPassword(d))
    BY AccountShape
  <2>2. ~(Starts(d) \/ GoesOn(d) \/ EndsAll(d) \/ EndsOne(d))
    BY <1>1 DEF Starts, Begin, GoesOn, EndsAll, EndsOne
  <2>3. ~(Reread(d) \/ IssueToken(d) \/ Reply(d) \/ Fail(d))
    BY <1>1 DEF Reread, IssueToken, Reply, Fail
  <2>. QED
    BY <2>1, <2>2, <2>3 DEF Kind
<1>3. MayLift(req[d])
  BY <1>2 DEF CommitWrong, MarkSuccess, MayLift
<1>. QED
  BY <1>2, <1>3 DEF LateOk

-----------------------------------------------------------------------------
(* Lost replies *)

InFlight(d) == req[d].op \in {"mark", "reply"}

(* The token in flight is the newest of the device's; a device that lost no *)
(* reply knows all its tokens but the one in flight.                        *)
Knows(d) ==
  /\ InFlight(d) => \A t \in Token : Born(t) /\ token[t].of = d => t <= req[d].token
  /\ device[d].token # 0 /\ ~device[d].lost =>
       \A t \in Token : Born(t) /\ token[t].of = d /\ t > device[d].token =>
         InFlight(d) /\ t = req[d].token

LostOk == \A d \in Device : Knows(d)

LEMMA KnowsStill ==
  ASSUME Shape, TokensStay, NEW d \in Device, Knows(d), req'[d] = req[d], device'[d] = device[d]
  PROVE  Knows(d)'
BY DEF Knows, InFlight, TokensStay

LEMMA KnowsQuiet ==
  ASSUME Shape, TokensStay, NEW d \in Device, Knows(d), ~InFlight(d), ~InFlight(d)',
         \/ device'[d].token = device[d].token /\ (device[d].lost => device'[d].lost)
         \/ device'[d].token = 0
  PROVE  Knows(d)'
BY DEF Knows, InFlight, TokensStay

LEMMA LostKept ==
  ASSUME Shape, LostOk, TokensStay, NEW d \in Device, Kind(d), Knows(d)'
  PROVE  LostOk'
BY OnlyOne, KnowsStill DEF LostOk

(* All kinds but the creation of a token. *)
LEMMA TokensOfKind ==
  ASSUME Shape, NEW d \in Device, Kind(d), ~IssueToken(d)
  PROVE  TokensStay
<1>1. CASE token' = token
  BY <1>1, SameTokens
<1>2. CASE EndsAll(d) \/ EndsOne(d)
  BY <1>2, EndsAllShape, EndsOneShape
<1>3. EndsAll(d) \/ EndsOne(d) \/ token' = token
  BY DEF Kind, Starts, Begin, GoesOn, Reread, CommitWrong, BumpVersion, SetPassword, MarkSuccess,
         Reply, Fail
<1>. QED
  BY <1>1, <1>2, <1>3

LEMMA LostStep ==
  ASSUME Shape, LostOk, NEW d \in Device, Kind(d)
  PROVE  LostOk'
<1>1. Knows(d)
  BY DEF LostOk
<1>2. PICK x \in ReqState : x = req[d]
  BY Types
<1>3. CASE IssueToken(d)
  <2>1. PICK t \in Token :
          /\ ~Born(t)
          /\ token'[t] = [status |-> "live", expired |-> FALSE, sv |-> req[d].sv,
                          pw |-> req[d].pw, of |-> d]
          /\ \A u \in Token \ {t} : token'[u] = token[u]
          /\ \A u \in Token : Born(u) => u < t
          /\ req'[d] = [op |-> IF req[d].login THEN "mark" ELSE "reply", token |-> t]
    BY <1>3, IssueShape
  <2>2. device' = device /\ req[d].op = "issue"
    BY <1>3 DEF IssueToken
  <2>3. \A u \in Token \ {t} : Born(u)' <=> Born(u)
    BY <2>1 DEF Born
  <2>4. token'[t].of = d /\ req'[d].token = t /\ InFlight(d)'
    BY <2>1 DEF InFlight
  <2>5. \A u \in Token : Born(u)' => u <= t
    BY <2>1, <2>3 DEF Token
  <2>6. ~InFlight(d)
    BY <2>2 DEF InFlight
  <2>7. Knows(d)'
    BY <1>1, <2>1, <2>2, <2>3, <2>4, <2>5, <2>6 DEF Knows
  <2>8. ASSUME NEW e \in Device, e # d
        PROVE  Knows(e)'
    <3>1. req'[e] = req[e] /\ device'[e] = device[e] /\ Knows(e)
      BY <2>8, OnlyOne DEF LostOk
    <3>2. \A u \in Token : Born(u)' /\ token'[u].of = e => Born(u) /\ token[u].of = e
      BY <2>1, <2>3, <2>4, <2>8
    <3>. QED
      BY <3>1, <3>2 DEF Knows, InFlight
  <2>. QED
    BY <2>7, <2>8 DEF LostOk
<1>4. CASE ~IssueToken(d)
  <2>1. TokensStay
    BY <1>4, TokensOfKind
  <2>2. CASE MarkSuccess(d)
    <3>1. /\ device' = device /\ req'[d].op = "reply" /\ req'[d].token = req[d].token
          /\ req[d].op = "mark"
      BY <2>2, AccountShape DEF MarkSuccess
    <3>2. Knows(d)'
      BY <1>1, <2>1, <3>1 DEF Knows, InFlight, TokensStay
    <3>. QED
      BY <2>1, <3>2, LostKept
  <2>3. CASE Reply(d)
    <3>1. device'[d].token = x.token /\ x.token \in Token /\ x.op = "reply"
      BY <1>2, <2>3, ReplyShape
    <3>2. req'[d] = Idle
      BY <2>3, Types DEF Reply, Goto
    <3>3. \A t \in Token : Born(t)' /\ token'[t].of = d => t <= x.token
      BY <1>1, <1>2, <2>1, <3>1 DEF Knows, InFlight, TokensStay
    <3>4. Knows(d)'
      BY <3>1, <3>2, <3>3 DEF Knows, InFlight, Idle, Token
    <3>. QED
      BY <2>1, <3>4, LostKept
  <2>4. CASE Fail(d) /\ InFlight(d)
    <3>1. req'[d] = Idle
      BY <2>4, Types DEF Fail, Goto
    <3>2. device'[d].lost
      BY <2>4, FailShape DEF InFlight
    <3>3. Knows(d)'
      BY <3>1, <3>2 DEF Knows, InFlight, Idle
    <3>. QED
      BY <2>1, <3>3, LostKept
  <2>5. CASE Kind(d) /\ ~InFlight(d)
    <3>1. ~MarkSuccess(d) /\ ~Reply(d)
      BY <2>5 DEF MarkSuccess, Reply, InFlight
    <3>2. ~InFlight(d)'
      <4>1. CASE Starts(d)
        BY <4>1, Types DEF Starts, Begin, Entering, InFlight
      <4>2. CASE GoesOn(d)
        BY <4>2, Types DEF GoesOn, Moves, Follows, InFlight
      <4>8. CASE Reread(d)
        <5>1. req'[d].op = "issue"
          BY <4>8, RereadShape
        <5>. QED
          BY <5>1 DEF InFlight
      <4>3. CASE EndsAll(d)
        BY <4>3, Types DEF EndsAll, Moves, InFlight, Idle
      <4>4. CASE EndsOne(d)
        <5>1. x \in Rotating
          BY <1>2, <4>4, StateOfCall DEF EndsOne
        <5>2. req'[d] \in {Idle, [x EXCEPT !.op = "reread"]}
          BY <1>2, <4>4, Types DEF EndsOne, Moves
        <5>. QED
          BY <5>1, <5>2 DEF InFlight, Idle, Rotating
      <4>5. CASE CommitWrong(d) \/ Fail(d)
        <5>1. req'[d] = Idle
          BY <4>5, Types DEF CommitWrong, Fail, Goto
        <5>. QED
          BY <5>1 DEF InFlight, Idle
      <4>6. CASE BumpVersion(d)
        <5>1. req'[d].op = "issue"
          BY <4>6, Types DEF BumpVersion, Goto
        <5>. QED
          BY <5>1 DEF InFlight
      <4>7. CASE SetPassword(d)
        <5>1. req'[d].op = "endAll"
          BY <4>7, Types DEF SetPassword, Goto
        <5>. QED
          BY <5>1 DEF InFlight
      <4>. QED
        BY <1>4, <2>5, <3>1, <4>1, <4>2, <4>3, <4>4, <4>5, <4>6, <4>7, <4>8 DEF Kind
    <3>3. \/ device'[d].token = device[d].token /\ (device[d].lost => device'[d].lost)
          \/ device'[d].token = 0
      <4>1. CASE Fail(d)
        BY <4>1, FailShape
      <4>2. device' = device \/ device' = [device EXCEPT ![d] = [token |-> 0, lost |-> FALSE]]
            \/ Fail(d)
        BY <1>4, <2>5, <3>1 DEF Kind, Starts, Begin, GoesOn, Reread, EndsAll, EndsOne, CommitWrong,
                                BumpVersion, SetPassword
      <4>. QED
        BY <4>1, <4>2, Types
    <3>4. Knows(d)'
      BY <1>1, <2>1, <2>5, <3>2, <3>3, KnowsQuiet
    <3>. QED
      BY <2>1, <3>4, LostKept
  <2>6. CASE InFlight(d)
    <3>1. MarkSuccess(d) \/ Reply(d) \/ Fail(d)
      <4>1. req[d].op \in {"mark", "reply"} /\ req[d] # Idle
        BY <2>6 DEF InFlight, Idle
      <4>. QED
        BY <1>4, <4>1 DEF Kind, Starts, Begin, GoesOn, Follows, Reread, EndsAll, EndsOne, CommitWrong,
                          BumpVersion, SetPassword
    <3>. QED
      BY <2>2, <2>3, <2>4, <2>6, <3>1
  <2>. QED
    BY <2>5, <2>6
<1>. QED
  BY <1>3, <1>4

-----------------------------------------------------------------------------
(* Refusals *)

(* A refused token that is still live was replaced by one of another device *)
(* or one that got lost.                                                    *)
Refused(d) ==
  req[d].op = "refuse" /\ device[d].token \in Active =>
    /\ req[d].seen > device[d].token /\ req[d].seen \in Token /\ Born(req[d].seen)
    /\ token[req[d].seen].of # d \/ device[d].lost

RefusedOk == \A d \in Device : Refused(d)

LEMMA RefusedStill ==
  ASSUME Shape, TokensStay, NEW d \in Device, Refused(d), req'[d] = req[d],
         device'[d] = device[d]
  PROVE  Refused(d)'
<1>1. device[d].token \in Active' => device[d].token \in Active
  BY DEF TokensStay, Active, Unrevoked
<1>. QED
  BY <1>1 DEF Refused, TokensStay

LEMMA RefusedKept ==
  ASSUME Shape, RefusedOk, TokensStay, NEW d \in Device, Kind(d), Refused(d)'
  PROVE  RefusedOk'
BY OnlyOne, RefusedStill DEF RefusedOk

LEMMA RefusedStep ==
  ASSUME Shape, LostOk, RefusedOk, NEW d \in Device, Kind(d)
  PROVE  RefusedOk'
<1>1. CASE Starts(d)
  <2>1. PICK y \in ReqState : Begin(d, y) /\ Entering(d, y)
    BY <1>1 DEF Starts
  <2>2. /\ req[d] = Idle /\ UNCHANGED <<account, token, device>>
        /\ req'[d] = y /\ Active' = Active
    BY <2>1, Types DEF Begin, Active, Unrevoked
  <2>3. TokensStay
    BY <2>2, SameTokens
  <2>4. ASSUME y.op = "refuse", device[d].token \in Active
        PROVE  /\ Stored > device[d].token /\ Stored \in Token /\ Born(Stored)
               /\ y.seen = Stored
               /\ token[Stored].of # d \/ device[d].lost
    <3>1. y.seen = Stored /\ Stored # device[d].token
      BY <2>1, <2>4 DEF Entering
    <3>2. device[d].token \in Unrevoked /\ device[d].token \in Token
      BY <2>4 DEF Active, Unrevoked
    <3>3. device[d].token <= Stored /\ Stored \in 0 .. MaxToken
      BY <3>2, StoredOf
    <3>4. Stored > device[d].token /\ device[d].token # 0 /\ Stored \in Token
      BY <3>1, <3>2, <3>3 DEF Token
    <3>5. Stored \in Unrevoked
      BY <3>4, StoredOf DEF Token
    <3>6. Born(Stored)
      BY <3>4, <3>5, BornRow
    <3>7. ~InFlight(d)
      BY <2>2 DEF InFlight, Idle
    <3>8. token[Stored].of # d \/ device[d].lost
      BY <3>4, <3>6, <3>7 DEF LostOk, Knows
    <3>. QED
      BY <3>1, <3>4, <3>6, <3>8
  <2>5. Refused(d)'
    BY <2>2, <2>4 DEF Refused, Born
  <2>. QED
    BY <2>3, <2>5, RefusedKept
<1>2. CASE ~Starts(d)
  <2>1. req'[d].op # "refuse"
    <3>1. CASE GoesOn(d)
      BY <3>1, Types DEF GoesOn, Moves, Follows
    <3>2. CASE EndsAll(d)
      BY <3>2, Types DEF EndsAll, Moves, Idle
    <3>3. CASE EndsOne(d)
      <4>1. PICK x \in ReqState : x = req[d]
        BY Types
      <4>2. x \in Rotating
        BY <3>3, <4>1, StateOfCall DEF EndsOne
      <4>3. req'[d] \in {Idle, [x EXCEPT !.op = "reread"]}
        BY <3>3, <4>1, Types DEF EndsOne, Moves
      <4>. QED
        BY <4>2, <4>3 DEF Idle, Rotating
    <3>4. CASE CommitWrong(d) \/ Reply(d) \/ Fail(d)
      <4>1. req'[d] = Idle
        BY <3>4, Types DEF CommitWrong, Reply, Fail, Goto
      <4>. QED
        BY <4>1 DEF Idle
    <3>5. CASE BumpVersion(d) \/ SetPassword(d)
      BY <3>5, Types DEF BumpVersion, SetPassword, Goto
    <3>6. CASE MarkSuccess(d)
      <4>1. req'[d].op = "reply"
        BY <3>6, AccountShape
      <4>. QED
        BY <4>1
    <3>7. CASE IssueToken(d)
      BY <3>7, IssuedCall
    <3>8. CASE Reread(d)
      <4>1. req'[d].op = "issue"
        BY <3>8, RereadShape
      <4>. QED
        BY <4>1
    <3>. QED
      BY <1>2, <3>1, <3>2, <3>3, <3>4, <3>5, <3>6, <3>7, <3>8 DEF Kind
  <2>2. Refused(d)'
    BY <2>1 DEF Refused
  <2>3. CASE ~IssueToken(d)
    BY <2>2, <2>3, TokensOfKind, RefusedKept
  <2>4. CASE IssueToken(d)
    <3>1. PICK t \in Token : ~Born(t) /\ \A u \in Token \ {t} : token'[u] = token[u]
      BY <2>4, IssueShape
    <3>2. ASSUME NEW e \in Device, e # d
          PROVE  Refused(e)'
      <4>1. req'[e] = req[e] /\ device'[e] = device[e] /\ Refused(e)
        BY <3>2, OnlyOne DEF RefusedOk
      <4>2. ASSUME req[e].op = "refuse", device[e].token \in Active'
            PROVE  device[e].token \in Active
        <5>1. device[e].token \in Token /\ device[e].token # 0
          BY <4>2 DEF Active, Unrevoked, Token
        <5>2. device[e].token # t
          BY <3>1, <5>1 DEF Shape, RefsOk
        <5>. QED
          BY <3>1, <4>2, <5>1, <5>2 DEF Active, Unrevoked
      <4>3. \A u \in Token : Born(u) => u # t /\ token'[u] = token[u] /\ Born(u)'
        BY <3>1 DEF Born
      <4>. QED
        BY <4>1, <4>2, <4>3 DEF Refused
    <3>. QED
      BY <2>2, <3>2 DEF RefusedOk
  <2>. QED
    BY <2>3, <2>4
<1>. QED
  BY <1>1, <1>2

-----------------------------------------------------------------------------
(* Sessions *)

(* A call that is replacing a session has ended, or is about to end, the    *)
(* ones that did not cross with another call.                               *)
Replaces(d) ==
  Replacing(d) =>
    \A t \in Active : t \in hist.crossed \/ (req[d].op = "rotate" /\ t = req[d].seen)

(* The sessionVersion a call has read is out of date only if another call   *)
(* has written it since.                                                    *)
Version(d) ==
  d \notin hist.oldVersion /\ req[d].op \in {"entered", "issue"} => req[d].sv = account.sv

SessionsOk ==
  /\ OneUsableSession
  /\ \A d \in Device : Replaces(d) /\ Version(d)

LEMMA ActiveTokens ==
  Active \subseteq Token /\ Active \subseteq Unrevoked /\ Unrevoked \subseteq Token
BY DEF Active, Unrevoked

(* No token is created and the version stays.                               *)
LEMMA SessionsKept ==
  ASSUME Shape, SessionsOk, TokensStay, account'.sv = account.sv,
         hist.crossed \subseteq hist'.crossed
  PROVE  /\ OneUsableSession'
         /\ \A t \in Active' : t \in Active
<1>1. \A t \in Active' : t \in Token /\ t \in Active
  BY DEF TokensStay, Active, Unrevoked
<1>2. \A t \in Active : Born(t)
  BY BornRow, ActiveTokens
<1>. QED
  BY <1>1, <1>2 DEF SessionsOk, OneUsableSession, TokensStay

LEMMA SessionsMove ==
  ASSUME Shape, SessionsOk, NEW d \in Device, Kind(d), TokensStay, account'.sv = account.sv,
         hist.crossed \subseteq hist'.crossed, hist.oldVersion \ {d} \subseteq hist'.oldVersion,
         Replaces(d)', Version(d)'
  PROVE  SessionsOk'
<1>1. OneUsableSession' /\ \A t \in Active' : t \in Active
  BY SessionsKept
<1>2. ASSUME NEW e \in Device, e # d
      PROVE  Replaces(e)' /\ Version(e)'
  <2>1. req'[e] = req[e] /\ Replaces(e) /\ Version(e)
    BY <1>2, OnlyOne DEF SessionsOk
  <2>. QED
    BY <1>1, <1>2, <2>1 DEF Replaces, Replacing, Version
<1>. QED
  BY <1>1, <1>2 DEF SessionsOk

(* A call that goes on to something else than to replace a session.         *)
Leaves(d) == req'[d].op \notin {"rotate", "reread", "bump", "issue", "entered"}

LEMMA LeavesSessions ==
  ASSUME NEW d \in Device, Leaves(d)
  PROVE  Replaces(d)' /\ Version(d)'
BY DEF Leaves, Replaces, Replacing, Version

LEMMA StartsSessions ==
  ASSUME Shape, SessionsOk, NEW d \in Device, Starts(d)
  PROVE  SessionsOk'
<1>1. PICK y \in ReqState : Begin(d, y) /\ Entering(d, y)
  BY DEF Starts
<1>2. /\ UNCHANGED <<account, token>> /\ req'[d] = y
      /\ Active' = Active /\ TokensStay
  BY <1>1, SameTokens, Types DEF Begin, Active, Unrevoked
<1>3. hist'.crossed = hist.crossed /\ hist'.oldVersion = hist.oldVersion \ {d}
  BY <1>1, BeganHist
<1>4. Replaces(d)'
  <2>1. CASE y.op = "rotate"
    <3>1. y.seen = Stored /\ y.seen \in Active
      BY <1>1, <2>1 DEF Entering
    <3>2. \A t \in Active : t \in Nat /\ t <= y.seen /\ y.seen \in Nat
      BY <3>1, ActiveTokens, StoredOf DEF Token
    <3>3. \A t \in Active : t \in hist.crossed \/ t = y.seen
      BY <3>1, <3>2 DEF SessionsOk, OneUsableSession
    <3>. QED
      BY <1>2, <1>3, <2>1, <3>3 DEF Replaces
  <2>2. CASE y.op # "rotate"
    BY <1>1, <1>2, <2>2 DEF Entering, Replaces, Replacing
  <2>. QED
    BY <2>1, <2>2
<1>5. Version(d)'
  BY <1>1, <1>2 DEF Entering, Version
<1>. QED
  BY <1>2, <1>3, <1>4, <1>5, SessionsMove DEF Kind

LEMMA GoesOnSessions ==
  ASSUME Shape, SessionsOk, NEW d \in Device, GoesOn(d) \/ Reread(d)
  PROVE  SessionsOk'
<1>1. CASE GoesOn(d)
  <2>1. PICK y \in ReqState : /\ Follows(req[d], y) /\ Moves(d, y)
                              /\ UNCHANGED <<account, token, device, hist>>
    BY <1>1 DEF GoesOn
  <2>2. req'[d] = y /\ TokensStay /\ Active' = Active
    BY <2>1, MoveTypes, SameTokens DEF Active, Unrevoked
  <2>3. Version(d)
    BY DEF SessionsOk
  <2>4. Replaces(d)' /\ Version(d)'
    BY <2>1, <2>2, <2>3 DEF Follows, Replaces, Replacing, Version
  <2>. QED
    BY <1>1, <2>1, <2>2, <2>4, SessionsMove DEF Kind
<1>2. CASE Reread(d)
  <2>1. /\ UNCHANGED <<account, token>> /\ TokensStay /\ req[d].op = "reread"
        /\ req'[d].op = "issue" /\ req'[d].sv = account.sv
        /\ hist'.crossed = hist.crossed /\ hist'.oldVersion = hist.oldVersion \ {d}
    BY <1>2, RereadShape
  <2>2. Active' = Active /\ Replaces(d)
    BY <2>1 DEF Active, Unrevoked, SessionsOk
  <2>3. Replaces(d)' /\ Version(d)'
    BY <2>1, <2>2 DEF Replaces, Replacing, Version
  <2>. QED
    BY <1>2, <2>1, <2>3, SessionsMove DEF Kind
<1>. QED
  BY <1>1, <1>2

LEMMA EndsSessions ==
  ASSUME Shape, SessionsOk, NEW d \in Device, EndsAll(d) \/ EndsOne(d)
  PROVE  SessionsOk'
<1>1. CASE EndsAll(d)
  <2>1. PICK y \in ReqState :
          /\ y = Idle \/ y = [op |-> "bump", pw |-> req[d].pw]
          /\ Moves(d, y) /\ account' = account
    BY <1>1 DEF EndsAll
  <2>2. req'[d] = y /\ y.op \in {"idle", "bump"}
    BY <2>1, MoveTypes DEF Idle
  <2>3. TokensStay /\ Active' = {}
    BY <1>1, EndsAllShape
  <2>4. hist'.crossed = hist.crossed /\ hist'.oldVersion = hist.oldVersion
    BY <1>1, EndedHist
  <2>5. Replaces(d)' /\ Version(d)'
    BY <2>2, <2>3 DEF Replaces, Version
  <2>. QED
    BY <1>1, <2>1, <2>3, <2>4, <2>5, SessionsMove DEF Kind
<1>2. CASE EndsOne(d)
  <2>1. PICK x \in ReqState : x = req[d]
    BY Types
  <2>2. x \in Rotating
    BY <1>2, <2>1, StateOfCall DEF EndsOne
  <2>3. /\ account' = account /\ hist' = hist
        /\ TokensStay /\ x.seen \notin Active'
    BY <1>2, <2>1, EndsOneShape DEF EndsOne
  <2>4. CASE Moves(d, Idle)
    <3>1. req'[d] = Idle
      BY <2>4, Types DEF Moves
    <3>. QED
      BY <1>2, <2>3, <3>1, LeavesSessions, SessionsMove DEF Leaves, Idle, Kind
  <2>5. CASE x.op = "rotate" /\ Moves(d, [x EXCEPT !.op = "reread"])
    <3>1. req'[d].op = "reread"
      BY <2>2, <2>5, Types DEF Moves, Rotating
    <3>2. Replaces(d) /\ Replacing(d)
      BY <2>1, <2>5 DEF SessionsOk, Replacing
    <3>3. \A t \in Active' : t \in Active
      BY <2>3, SessionsKept
    <3>4. Replaces(d)' /\ Version(d)'
      BY <2>1, <2>3, <3>1, <3>2, <3>3 DEF Replaces, Version
    <3>. QED
      BY <1>2, <2>3, <3>4, SessionsMove DEF Kind
  <2>. QED
    BY <1>2, <2>1, <2>4, <2>5 DEF EndsOne
<1>. QED
  BY <1>1, <1>2

LEMMA BumpSessions ==
  ASSUME Shape, SessionsOk, NEW d \in Device, BumpVersion(d)
  PROVE  SessionsOk'
<1>1. /\ token' = token /\ Active' = Active /\ req[d].op = "bump"
      /\ req'[d].op = "issue" /\ req'[d].sv = account'.sv
  BY AccountShape DEF Active, Unrevoked, BumpVersion
<1>2. hist'.crossed = hist.crossed /\ Others(d) \subseteq hist'.oldVersion
  BY AccountHist
<1>3. Active \subseteq hist.crossed
  BY <1>1 DEF SessionsOk, Replaces, Replacing
<1>4. OneUsableSession'
  BY <1>1, <1>2, <1>3 DEF OneUsableSession
<1>5. Replaces(d)' /\ Version(d)'
  BY <1>1, <1>2, <1>3 DEF Replaces, Version
<1>6. ASSUME NEW e \in Device, e # d
      PROVE  Replaces(e)' /\ Version(e)'
  <2>1. req'[e] = req[e] /\ (req[e] # Idle => e \in hist'.oldVersion)
    BY <1>2, <1>6, OnlyOne DEF Kind, Others, Calling
  <2>2. Version(e)'
    BY <2>1 DEF Version, Idle
  <2>. QED
    BY <1>1, <1>2, <1>3, <2>2 DEF Replaces
<1>. QED
  BY <1>4, <1>5, <1>6 DEF SessionsOk

LEMMA IssueSessions ==
  ASSUME Shape, SessionsOk, NEW d \in Device, IssueToken(d)
  PROVE  SessionsOk'
<1>1. PICK t \in Token :
        /\ ~Born(t)
        /\ token'[t] = [status |-> "live", expired |-> FALSE, sv |-> req[d].sv,
                        pw |-> req[d].pw, of |-> d]
        /\ \A u \in Token \ {t} : token'[u] = token[u]
        /\ \A u \in Token : Born(u) => u < t
        /\ req'[d] = [op |-> IF req[d].login THEN "mark" ELSE "reply", token |-> t]
        /\ d \in hist.oldVersion \/ (\E e \in Others(d) : Replacing(e)) => t \in hist'.crossed
  BY IssueShape
<1>2. /\ account' = account /\ req[d].op = "issue" /\ hist.crossed \subseteq hist'.crossed
      /\ hist'.oldVersion = hist.oldVersion
  BY IssueShape
<1>3. \A u \in Active' : u \in Token /\ (u # t => u \in Active /\ u < t)
  <2>1. \A u \in Active : Born(u)
    BY BornRow, ActiveTokens
  <2>2. \A u \in Active' : u \in Token /\ (u # t => u \in Active)
    BY <1>1 DEF Active, Unrevoked
  <2>. QED
    BY <1>1, <2>1, <2>2
<1>4. Active \subseteq hist.crossed
  BY <1>2 DEF SessionsOk, Replaces, Replacing
<1>5. t \notin hist'.crossed => token'[t].sv = account'.sv
  <2>1. Version(d)
    BY DEF SessionsOk
  <2>. QED
    BY <1>1, <1>2, <2>1 DEF Version
<1>6. OneUsableSession'
  <2>1. \A u, v \in Active' : u < v => u # t
    BY <1>3 DEF Token
  <2>. QED
    BY <1>2, <1>3, <1>4, <1>5, <2>1 DEF OneUsableSession
<1>7. Replaces(d)' /\ Version(d)'
  <2>1. req'[d].op \in {"mark", "reply"}
    BY <1>1
  <2>. QED
    BY <2>1, LeavesSessions DEF Leaves
<1>8. ASSUME NEW e \in Device, e # d
      PROVE  Replaces(e)' /\ Version(e)'
  <2>1. req'[e] = req[e] /\ Version(e)
    BY <1>8, OnlyOne DEF Kind, SessionsOk
  <2>2. Version(e)'
    BY <1>2, <2>1 DEF Version
  <2>3. Replacing(e) => t \in hist'.crossed
    BY <1>1, <1>8 DEF Others, Calling, Replacing, Idle
  <2>. QED
    BY <1>2, <1>3, <1>4, <2>1, <2>2, <2>3 DEF Replaces, Replacing
<1>. QED
  BY <1>6, <1>7, <1>8 DEF SessionsOk

LEMMA SessionsStep ==
  ASSUME Shape, SessionsOk, NEW d \in Device, Kind(d)
  PROVE  SessionsOk'
<1>1. ASSUME TokensStay, account'.sv = account.sv, Leaves(d),
             hist'.crossed = hist.crossed, hist.oldVersion \ {d} \subseteq hist'.oldVersion
      PROVE  SessionsOk'
  BY <1>1, LeavesSessions, SessionsMove
<1>2. CASE CommitWrong(d)
  <2>1. /\ account'.sv = account.sv /\ hist'.crossed = hist.crossed
        /\ hist'.oldVersion = hist.oldVersion
    BY <1>2, CommitWrongShape
  <2>2. TokensStay /\ req'[d] = Idle
    BY <1>2, SameTokens, Types DEF CommitWrong, Goto
  <2>. QED
    BY <1>1, <2>1, <2>2 DEF Leaves, Idle
<1>3. CASE SetPassword(d) \/ MarkSuccess(d)
  <2>1. /\ account'.sv = account.sv /\ token' = token
        /\ req'[d].op \in {"endAll", "reply"}
    <3>1. CASE SetPassword(d)
      <4>1. /\ account'.sv = account.sv /\ token' = token
            /\ req'[d] = [op |-> "endAll"]
        BY <3>1, AccountShape
      <4>. QED
        BY <4>1
    <3>2. CASE MarkSuccess(d)
      BY <3>2, AccountShape
    <3>. QED
      BY <1>3, <3>1, <3>2
  <2>2. hist'.crossed = hist.crossed /\ hist.oldVersion \ {d} \subseteq hist'.oldVersion
    BY <1>3, AccountHist
  <2>. QED
    BY <1>1, <2>1, <2>2, SameTokens DEF Leaves
<1>4. CASE Reply(d) \/ Fail(d)
  <2>1. account' = account /\ TokensStay /\ req'[d] = Idle
    BY <1>4, SameTokens, Types DEF Reply, Fail, Goto
  <2>2. hist'.crossed = hist.crossed /\ hist'.oldVersion = hist.oldVersion
    BY <1>4, FailShape DEF Reply
  <2>. QED
    BY <1>1, <2>1, <2>2 DEF Leaves, Idle
<1>. QED
  BY <1>2, <1>3, <1>4, StartsSessions, GoesOnSessions, EndsSessions, BumpSessions,
     IssueSessions DEF Kind

-----------------------------------------------------------------------------
(* Passwords *)

(* The password a call has checked, or that of the session it goes on from. *)
Holding(d) ==
  req[d].op \in {"entered", "spend", "revoke", "bump", "issue", "rotate", "reread"}
InHand(d) ==
  IF req[d].op \in {"rotate", "reread"} THEN token[req[d].seen].pw ELSE req[d].pw

Resetting == \E d \in Device : req[d].op = "endAll"

HoldsOld(d) == Holding(d) /\ InHand(d) # account.pw => d \in hist.oldPassword \/ Resetting

PasswordOk == ResetEndsSessions /\ \A d \in Device : HoldsOld(d)

LEMMA InHandStays ==
  ASSUME Shape, TokensStay, NEW e \in Device, req'[e] = req[e]
  PROVE  (Holding(e)' <=> Holding(e)) /\ InHand(e)' = InHand(e)
<1>1. req[e].op \in {"rotate", "reread"} => req[e].seen \in Token /\ Born(req[e].seen)
  BY DEF Shape, RefsOk, CallRefs
<1>. QED
  BY <1>1 DEF Holding, InHand, TokensStay

(* No token is created and the password stays.                              *)
LEMMA PasswordsKept ==
  ASSUME Shape, PasswordOk, TokensStay, account'.pw = account.pw,
         Resetting => Resetting', hist.outdated \subseteq hist'.outdated
  PROVE  ResetEndsSessions'
<1>1. \A t \in Unrevoked' : t \in Token /\ t \in Unrevoked
  BY DEF TokensStay, Unrevoked
<1>2. \A t \in Unrevoked : Born(t)
  BY BornRow DEF Unrevoked
<1>. QED
  BY <1>1, <1>2 DEF PasswordOk, ResetEndsSessions, Resetting, TokensStay

LEMMA WhileResetting ==
  ASSUME Resetting'
  PROVE  PasswordOk'
BY DEF PasswordOk, ResetEndsSessions, HoldsOld, Resetting

LEMMA NothingInHand ==
  ASSUME NEW d \in Device, ~Holding(d)'
  PROVE  HoldsOld(d)'
BY DEF HoldsOld

LEMMA PasswordsGo ==
  ASSUME Shape, PasswordOk, NEW d \in Device, Kind(d), TokensStay, account'.pw = account.pw,
         req[d].op # "endAll", hist.outdated \subseteq hist'.outdated,
         hist.oldPassword \ {d} \subseteq hist'.oldPassword,
         ~Resetting => HoldsOld(d)'
  PROVE  PasswordOk'
<1>1. \A e \in Device \ {d} : req'[e] = req[e]
  BY OnlyOne
<1>2. CASE Resetting
  BY <1>1, <1>2, WhileResetting DEF Resetting
<1>3. CASE ~Resetting
  <2>1. ResetEndsSessions'
    BY <1>3, PasswordsKept
  <2>2. ASSUME NEW e \in Device, e # d
        PROVE  HoldsOld(e)'
    <3>1. HoldsOld(e) /\ req'[e] = req[e]
      BY <1>1, <2>2 DEF PasswordOk
    <3>. QED
      BY <1>3, <2>2, <3>1, InHandStays DEF HoldsOld
  <2>. QED
    BY <1>3, <2>1, <2>2 DEF PasswordOk
<1>. QED
  BY <1>2, <1>3

LEMMA StartsPasswords ==
  ASSUME Shape, PasswordOk, NEW d \in Device, Starts(d)
  PROVE  PasswordOk'
<1>1. PICK y \in ReqState : Begin(d, y) /\ Entering(d, y)
  BY DEF Starts
<1>2. UNCHANGED <<account, token>> /\ req'[d] = y /\ TokensStay /\ req[d].op # "endAll"
  BY <1>1, SameTokens, Types DEF Begin, Idle
<1>3. /\ hist'.outdated = hist.outdated /\ hist.oldPassword \ {d} \subseteq hist'.oldPassword
      /\ Prolongs(y) => d \in hist'.oldPassword
  BY <1>1, BeganHist
<1>4. ASSUME ~Resetting
      PROVE  HoldsOld(d)'
  <2>1. CASE y.op = "rotate"
    <3>1. y.seen \in Unrevoked
      BY <1>1, <2>1, ActiveTokens DEF Entering
    <3>2. token[y.seen].pw # account.pw => d \in hist'.oldPassword
      BY <1>3, <1>4, <2>1, <3>1 DEF PasswordOk, ResetEndsSessions, Resetting, Prolongs
    <3>. QED
      BY <1>2, <2>1, <3>2 DEF HoldsOld, InHand
  <2>2. CASE y.op # "rotate"
    BY <1>1, <1>2, <2>2 DEF Entering, HoldsOld, Holding, InHand
  <2>. QED
    BY <2>1, <2>2
<1>. QED
  BY <1>2, <1>3, <1>4, PasswordsGo DEF Kind

LEMMA GoesOnPasswords ==
  ASSUME Shape, PasswordOk, NEW d \in Device, GoesOn(d) \/ Reread(d)
  PROVE  PasswordOk'
<1>1. HoldsOld(d)
  BY DEF PasswordOk
<1>2. CASE GoesOn(d)
  <2>1. PICK y \in ReqState : /\ Follows(req[d], y) /\ Moves(d, y)
                              /\ UNCHANGED <<account, token, device, hist>>
    BY <1>2 DEF GoesOn
  <2>2. req'[d] = y /\ TokensStay /\ req[d].op # "endAll"
    BY <2>1, MoveTypes, SameTokens DEF Follows
  <2>3. ~Resetting => HoldsOld(d)'
    BY <1>1, <2>1, <2>2 DEF Follows, HoldsOld, Holding, InHand
  <2>. QED
    BY <1>2, <2>1, <2>2, <2>3, PasswordsGo DEF Kind
<1>3. CASE Reread(d)
  <2>1. /\ UNCHANGED <<account, token>> /\ TokensStay /\ req[d].op = "reread"
        /\ req'[d].op = "issue" /\ req'[d].pw = token[req[d].seen].pw
        /\ hist'.outdated = hist.outdated /\ hist'.oldPassword = hist.oldPassword
    BY <1>3, RereadShape
  <2>2. ~Resetting => HoldsOld(d)'
    BY <1>1, <2>1 DEF HoldsOld, Holding, InHand
  <2>. QED
    BY <1>3, <2>1, <2>2, PasswordsGo DEF Kind
<1>. QED
  BY <1>2, <1>3

LEMMA EndsPasswords ==
  ASSUME Shape, PasswordOk, NEW d \in Device, EndsAll(d) \/ EndsOne(d)
  PROVE  PasswordOk'
<1>1. HoldsOld(d)
  BY DEF PasswordOk
<1>2. CASE EndsAll(d)
  <2>1. PICK y \in ReqState :
          /\ y = Idle \/ (req[d].op = "revoke" /\ y = [op |-> "bump", pw |-> req[d].pw])
          /\ Moves(d, y) /\ account' = account
    BY <1>2 DEF EndsAll
  <2>2. req'[d] = y /\ TokensStay /\ Unrevoked' = {}
    BY <1>2, <2>1, MoveTypes, EndsAllShape
  <2>3. hist'.outdated = hist.outdated /\ hist.oldPassword \subseteq hist'.oldPassword
    BY <1>2, EndedHist
  <2>4. CASE req[d].op = "endAll"
    <3>1. Others(d) \subseteq hist'.oldPassword
      BY <1>2, <2>4, EndedHist
    <3>2. ASSUME NEW e \in Device
          PROVE  HoldsOld(e)'
      <4>1. CASE e = d
        BY <2>1, <2>2, <2>4, <4>1, NothingInHand DEF Holding, Idle
      <4>2. CASE e # d
        <5>1. req'[e] = req[e] /\ (req[e] # Idle => e \in hist'.oldPassword)
          BY <1>2, <3>1, <4>2, OnlyOne DEF Kind, Others, Calling
        <5>. QED
          BY <5>1 DEF HoldsOld, Holding, Idle
      <4>. QED
        BY <4>1, <4>2
    <3>. QED
      BY <2>2, <3>2 DEF PasswordOk, ResetEndsSessions
  <2>5. CASE req[d].op # "endAll"
    <3>1. ~Resetting => HoldsOld(d)'
      BY <1>1, <2>1, <2>2, <2>3 DEF HoldsOld, Holding, InHand, Idle
    <3>. QED
      BY <1>2, <2>1, <2>2, <2>3, <2>5, <3>1, PasswordsGo DEF Kind
  <2>. QED
    BY <2>4, <2>5
<1>3. CASE EndsOne(d)
  <2>1. PICK x \in ReqState : x = req[d]
    BY Types
  <2>2. x \in Rotating /\ x.op \in {"rotate", "signoutOne"}
    BY <1>3, <2>1, StateOfCall DEF EndsOne
  <2>3. /\ account' = account /\ hist' = hist /\ TokensStay /\ x.seen \in Token
    BY <1>3, <2>1, EndsOneShape DEF EndsOne
  <2>4. ~Resetting => HoldsOld(d)'
    <3>1. CASE Moves(d, Idle)
      <4>1. req'[d] = Idle
        BY <3>1, Types DEF Moves
      <4>. QED
        BY <4>1, NothingInHand DEF Holding, Idle
    <3>2. CASE x.op = "rotate" /\ Moves(d, [x EXCEPT !.op = "reread"])
      <4>1. req'[d].op = "reread" /\ req'[d].seen = x.seen
        BY <2>2, <3>2, Types DEF Moves, Rotating
      <4>2. Born(x.seen)
        BY <2>1, <3>2 DEF Shape, RefsOk, CallRefs
      <4>3. token'[x.seen].pw = token[x.seen].pw
        BY <2>3, <4>2 DEF TokensStay
      <4>. QED
        BY <1>1, <2>1, <2>3, <3>2, <4>1, <4>3 DEF HoldsOld, Holding, InHand
    <3>. QED
      BY <1>3, <2>1, <3>1, <3>2 DEF EndsOne
  <2>. QED
    BY <1>3, <2>1, <2>2, <2>3, <2>4, PasswordsGo DEF Kind
<1>. QED
  BY <1>2, <1>3

LEMMA IssuePasswords ==
  ASSUME Shape, PasswordOk, NEW d \in Device, IssueToken(d)
  PROVE  PasswordOk'
<1>1. PICK t \in Token :
        /\ token'[t] = [status |-> "live", expired |-> FALSE, sv |-> req[d].sv,
                        pw |-> req[d].pw, of |-> d]
        /\ \A u \in Token \ {t} : token'[u] = token[u]
        /\ req'[d] = [op |-> IF req[d].login THEN "mark" ELSE "reply", token |-> t]
        /\ ~Born(t)
        /\ d \in hist.oldPassword /\ req[d].pw # account.pw => t \in hist'.outdated
  BY IssueShape
<1>2. /\ account' = account /\ req[d].op = "issue" /\ hist.outdated \subseteq hist'.outdated
      /\ hist'.oldPassword = hist.oldPassword
  BY IssueShape
<1>3. \A e \in Device \ {d} : req'[e] = req[e]
  BY OnlyOne DEF Kind
<1>4. Resetting => PasswordOk'
  BY <1>2, <1>3, WhileResetting DEF Resetting
<1>5. CASE ~Resetting
  <2>1. req[d].pw # account.pw => t \in hist'.outdated
    BY <1>1, <1>2, <1>5 DEF PasswordOk, HoldsOld, Holding, InHand
  <2>2. \A u \in Unrevoked' : u = t \/ u \in Unrevoked
    BY <1>1 DEF Unrevoked
  <2>3. ResetEndsSessions'
    BY <1>1, <1>2, <1>5, <2>1, <2>2, ActiveTokens DEF PasswordOk, ResetEndsSessions, Resetting
  <2>4. ASSUME NEW e \in Device
        PROVE  HoldsOld(e)'
    <3>1. CASE e = d
      <4>1. req'[d].op \in {"mark", "reply"}
        BY <1>1
      <4>. QED
        BY <3>1, <4>1, NothingInHand DEF Holding
    <3>2. CASE e # d
      <4>1. HoldsOld(e) /\ req'[e] = req[e]
        BY <1>3, <3>2 DEF PasswordOk
      <4>2. req[e].op \in {"rotate", "reread"} => token'[req[e].seen] = token[req[e].seen]
        BY <1>1 DEF Shape, RefsOk, CallRefs
      <4>. QED
        BY <1>2, <1>5, <4>1, <4>2 DEF HoldsOld, Holding, InHand
    <3>. QED
      BY <3>1, <3>2
  <2>. QED
    BY <2>3, <2>4 DEF PasswordOk
<1>. QED
  BY <1>4, <1>5

LEMMA FailPasswords ==
  ASSUME Shape, PasswordOk, NEW d \in Device, Fail(d)
  PROVE  PasswordOk'
<1>1. /\ UNCHANGED <<account, token>> /\ req'[d] = Idle /\ TokensStay
      /\ hist.outdated \subseteq hist'.outdated /\ hist.oldPassword \subseteq hist'.oldPassword
  BY FailShape, SameTokens, Types DEF Moves
<1>2. ~Holding(d)'
  BY <1>1 DEF Holding, Idle
<1>3. CASE req[d].op # "endAll"
  BY <1>1, <1>2, <1>3, NothingInHand, PasswordsGo DEF Kind
<1>4. CASE req[d].op = "endAll"
  <2>1. /\ Others(d) \subseteq hist'.oldPassword
        /\ \A t \in Unrevoked : token[t].pw # account.pw => t \in hist'.outdated
    BY <1>4, FailShape
  <2>2. ResetEndsSessions'
    BY <1>1, <2>1 DEF ResetEndsSessions, Unrevoked
  <2>3. ASSUME NEW e \in Device, e # d
        PROVE  HoldsOld(e)'
    <3>1. req'[e] = req[e] /\ (req[e] # Idle => e \in hist'.oldPassword)
      BY <2>1, <2>3, OnlyOne DEF Kind, Others, Calling
    <3>. QED
      BY <3>1 DEF HoldsOld, Holding, Idle
  <2>. QED
    BY <1>2, <2>2, <2>3, NothingInHand DEF PasswordOk
<1>. QED
  BY <1>3, <1>4

LEMMA PasswordsStep ==
  ASSUME Shape, PasswordOk, NEW d \in Device, Kind(d)
  PROVE  PasswordOk'
<1>1. CASE CommitWrong(d)
  <2>1. /\ account'.pw = account.pw /\ hist'.outdated = hist.outdated
        /\ hist'.oldPassword = hist.oldPassword
    BY <1>1, CommitWrongShape
  <2>2. TokensStay /\ req'[d] = Idle /\ req[d].op # "endAll"
    BY <1>1, SameTokens, Types DEF CommitWrong, Goto
  <2>. QED
    BY <2>1, <2>2, NothingInHand, PasswordsGo DEF Holding, Idle
<1>2. CASE BumpVersion(d)
  <2>1. /\ account'.pw = account.pw /\ token' = token /\ req[d].op = "bump"
        /\ req'[d].op = "issue" /\ req'[d].pw = req[d].pw
    BY <1>2, AccountShape DEF BumpVersion
  <2>2. hist'.outdated = hist.outdated /\ hist.oldPassword \subseteq hist'.oldPassword
    BY <1>2, AccountHist
  <2>3. HoldsOld(d)
    BY DEF PasswordOk
  <2>4. ~Resetting => HoldsOld(d)'
    BY <2>1, <2>2, <2>3 DEF HoldsOld, Holding, InHand
  <2>. QED
    BY <2>1, <2>2, <2>4, SameTokens, PasswordsGo
<1>3. CASE SetPassword(d)
  <2>1. req'[d] = [op |-> "endAll"]
    BY <1>3, AccountShape
  <2>2. Resetting'
    BY <2>1 DEF Resetting
  <2>. QED
    BY <2>2, WhileResetting
<1>4. CASE MarkSuccess(d)
  <2>1. /\ account'.pw = account.pw /\ token' = token /\ req[d].op = "mark"
        /\ req'[d].op = "reply"
    BY <1>4, AccountShape DEF MarkSuccess
  <2>2. hist'.outdated = hist.outdated /\ hist.oldPassword \subseteq hist'.oldPassword
    BY <1>4, AccountHist
  <2>. QED
    BY <2>1, <2>2, SameTokens, NothingInHand, PasswordsGo DEF Holding
<1>5. CASE Reply(d)
  <2>1. account' = account /\ TokensStay /\ req'[d] = Idle /\ req[d].op = "reply" /\ hist' = hist
    BY <1>5, SameTokens, Types DEF Reply, Goto
  <2>. QED
    BY <2>1, NothingInHand, PasswordsGo DEF Holding, Idle
<1>. QED
  BY <1>1, <1>2, <1>3, <1>4, <1>5, StartsPasswords, GoesOnPasswords, EndsPasswords,
     IssuePasswords, FailPasswords DEF Kind

-----------------------------------------------------------------------------
(* Codes, reset tokens and the number of calls *)

Counts == code \subseteq 1 .. MaxCode /\ reset \subseteq 1 .. MaxReset /\ calls \in 0 .. MaxCall

LEMMA TypeParts ==
  TypeOK <=> Typed /\ Counts
BY DEF TypeOK, Typed, Counts, HistState

LEMMA CountsStep ==
  ASSUME Counts, [Next]_vars
  PROVE  Counts'
<1>1. CASE UNCHANGED vars
  BY <1>1 DEF Counts, vars
<1>2. ASSUME NEW d \in Device, Call(d)
      PROVE  Counts'
  <2>1. ASSUME NEW y, Begin(d, y)
        PROVE  Counts'
    BY <2>1, BoundAssumption DEF Counts, Begin
  <2>2. CASE \/ StartLogin(d) \/ StartWrongLogin(d) \/ \E c \in 1 .. MaxCode : StartVerify(d, c)
             \/ StartRefresh(d) \/ StartLogout(d) \/ StartForgot(d)
             \/ \E k \in 1 .. MaxReset : StartReset(d, k)
    BY <2>1, <2>2 DEF StartLogin, StartWrongLogin, StartVerify, StartRefresh, StartLogout,
                      StartForgot, StartReset
  <2>3. CASE CommitWrong(d) \/ ChallengeLogin(d) \/ ChallengeTakeover(d) \/ TakeOver(d)
             \/ LoginAlone(d) \/ RevokeSessions(d) \/ BumpVersion(d)
             \/ MarkSuccess(d) \/ Reply(d) \/ Refuse(d) \/ Rotate(d) \/ Reread(d)
             \/ CommitLogout(d) \/ SetPassword(d) \/ EndAll(d) \/ Fail(d)
    BY <2>3 DEF Counts, CommitWrong, ChallengeLogin, ChallengeTakeover, TakeOver, LoginAlone,
                Route, RevokeSessions, BumpVersion, MarkSuccess, Reply, Refuse, Rotate, Reread,
                CommitLogout, SetPassword, EndAll, Fail
  <2>4. CASE InvalidateCodes(d) \/ SendCode(d) \/ SpendCode(d) \/ IssueToken(d)
             \/ VoidResets(d) \/ CreateReset(d) \/ BurnReset(d)
    BY <2>4 DEF Counts, InvalidateCodes, SendCode, SpendCode, IssueToken, VoidResets,
                CreateReset, BurnReset
  <2>. QED
    BY <1>2, <2>2, <2>3, <2>4 DEF Call
<1>3. CASE \/ LockExpires \/ \E t \in Token : TokenExpires(t)
           \/ \E c \in 1 .. MaxCode : CodeExpires(c)
           \/ \E k \in 1 .. MaxReset : ResetExpires(k)
  BY <1>3 DEF Counts, LockExpires, TokenExpires, CodeExpires, ResetExpires
<1>. QED
  BY <1>1, <1>2, <1>3 DEF Next

-----------------------------------------------------------------------------
(* Theorems *)

Inv == Shape /\ Counts /\ SessionsOk /\ PasswordOk /\ LateOk /\ LostOk /\ RefusedOk

(* Steps of no call. *)
LEMMA RestStep ==
  ASSUME Inv,
         \/ LockExpires \/ \E t \in Token : TokenExpires(t)
         \/ \E c \in 1 .. MaxCode : CodeExpires(c)
         \/ \E k \in 1 .. MaxReset : ResetExpires(k)
         \/ UNCHANGED vars
  PROVE  Shape' /\ SessionsOk' /\ PasswordOk' /\ LateOk' /\ LostOk' /\ RefusedOk'
<1>1. Shape /\ SessionsOk /\ PasswordOk /\ LateOk /\ LostOk /\ RefusedOk
  BY DEF Inv
<1>2. UNCHANGED <<req, device, hist>>
  BY DEF LockExpires, TokenExpires, CodeExpires, ResetExpires, vars
<1>3. /\ Shape' /\ TokensStay /\ account'.sv = account.sv /\ account'.pw = account.pw
      /\ account'.locked => account.locked
  <2>1. CASE LockExpires
    BY <1>1, <2>1, LockExpiresShape
  <2>2. CASE \E t \in Token : TokenExpires(t)
    BY <1>1, <2>2, TokenExpiresShape DEF TokenExpires
  <2>3. CASE \/ \E c \in 1 .. MaxCode : CodeExpires(c)
             \/ \E k \in 1 .. MaxReset : ResetExpires(k)
             \/ UNCHANGED vars
    <3>1. Still
      BY <2>3 DEF CodeExpires, ResetExpires, Still, vars
    <3>. QED
      BY <1>1, <3>1, StillShape DEF Still
  <2>. QED
    BY <2>1, <2>2, <2>3
<1>4. SessionsOk'
  <2>1. OneUsableSession' /\ \A t \in Active' : t \in Active
    BY <1>1, <1>2, <1>3, SessionsKept
  <2>. QED
    BY <1>1, <1>2, <1>3, <2>1 DEF SessionsOk, Replaces, Replacing, Version
<1>8. PasswordOk'
  <2>1. Resetting' <=> Resetting
    BY <1>2 DEF Resetting
  <2>2. ResetEndsSessions'
    BY <1>1, <1>2, <1>3, <2>1, PasswordsKept
  <2>3. \A e \in Device : HoldsOld(e)'
    BY <1>1, <1>2, <1>3, <2>1, InHandStays DEF PasswordOk, HoldsOld
  <2>. QED
    BY <2>2, <2>3 DEF PasswordOk
<1>5. LateOk'
  BY <1>1, <1>2, <1>3 DEF LateOk
<1>6. LostOk'
  BY <1>1, <1>2, <1>3, KnowsStill DEF LostOk
<1>7. RefusedOk'
  BY <1>1, <1>2, <1>3, RefusedStill DEF RefusedOk
<1>. QED
  BY <1>3, <1>4, <1>5, <1>6, <1>7, <1>8

LEMMA InvInit ==
  ASSUME Init
  PROVE  Inv
<1>1. account \in AccountRow
  BY BoundAssumption DEF Init, AccountRow
<1>2. device \in [Device -> Client]
  BY BoundAssumption DEF Init, Client
<1>3. req \in [Device -> ReqState] /\ \A d \in Device : req[d] = Idle
  BY StateSets DEF Init
<1>4. hist \in HistState
  BY DEF Init, HistState
<1>5. \A t \in Token : ~Born(t)
  BY DEF Init, Born
<1>6. Unrevoked = {} /\ Active = {}
  BY DEF Init, Unrevoked, Active, Unborn
<1>7. \A d \in Device : device[d].token = 0
  BY DEF Init
<1>8. Shape
  <2>1. Typed
    BY <1>1, <1>2, <1>3, <1>4 DEF Typed, Init
  <2>2. RefsOk
    BY <1>3, <1>5, <1>7 DEF RefsOk, CallRefs, Idle
  <2>. QED
    BY <2>1, <2>2 DEF Shape
<1>9. Counts
  BY BoundAssumption DEF Counts, Init
<1>10. SessionsOk /\ PasswordOk
  BY <1>3, <1>6 DEF SessionsOk, OneUsableSession, Replaces, Replacing, Version, PasswordOk,
                    ResetEndsSessions, HoldsOld, Holding, Idle
<1>11. LateOk
  BY DEF LateOk, Init
<1>12. LostOk
  BY <1>3, <1>5 DEF LostOk, Knows, InFlight, Idle
<1>13. RefusedOk
  BY <1>3 DEF RefusedOk, Refused, Idle
<1>. QED
  BY <1>8, <1>9, <1>10, <1>11, <1>12, <1>13 DEF Inv

LEMMA InvNext ==
  ASSUME Inv, [Next]_vars
  PROVE  Inv'
<1>1. Counts'
  BY CountsStep DEF Inv
<1>2. ASSUME NEW d \in Device, Call(d)
      PROVE  Shape' /\ SessionsOk' /\ PasswordOk' /\ LateOk' /\ LostOk' /\ RefusedOk'
  <2>1. Shape /\ SessionsOk /\ PasswordOk /\ LateOk /\ LostOk /\ RefusedOk
    BY DEF Inv
  <2>2. Kind(d)
    BY <1>2, <2>1, Kinds
  <2>. QED
    BY <2>1, <2>2, OnlyOne, SessionsStep, PasswordsStep, LateStep, LostStep, RefusedStep
<1>. QED
  BY <1>1, <1>2, RestStep DEF Inv, Next

LEMMA Invariance ==
  Spec => []Inv
BY InvInit, InvNext, PTL DEF Spec

(* The account, its tokens and codes, the clients and the calls keep their  *)
(* types.                                                                   *)
THEOREM TypeCorrect ==
  Spec => []TypeOK
<1>1. Inv => TypeOK
  BY TypeParts DEF Inv, Shape
<1>. QED
  BY <1>1, Invariance, PTL

(* However the calls overlap, of two usable sessions the older crossed with *)
(* another call when it was created, and the access token of a session that *)
(* did not is of the current sessionVersion (login, refresh, the verify     *)
(* handlers, logout and resetPassword of AuthService).                      *)
THEOREM OneSession ==
  Spec => []OneUsableSession
<1>1. Inv => OneUsableSession
  BY DEF Inv, SessionsOk
<1>. QED
  BY <1>1, Invariance, PTL

(* However the calls overlap, no session outlives the password it goes back *)
(* to but one created by a call that a reset overlapped, or one that a      *)
(* reset which broke off did not end (resetPassword, generateTokens).       *)
THEOREM ResetsEndSessions ==
  Spec => []ResetEndsSessions
<1>1. Inv => ResetEndsSessions
  BY DEF Inv, PasswordOk
<1>. QED
  BY <1>1, Invariance, PTL

(* refresh turns a device's live token away only after another device       *)
(* signed in or the reply with the next token got lost, however the calls   *)
(* overlap.                                                                 *)
THEOREM RefusalMeansLost ==
  Spec => []RefusedOnlyWhenLost
<1>1. Inv => RefusedOnlyWhenLost
  BY DEF Inv, RefusedOk, Refused, RefusedOnlyWhenLost
<1>. QED
  BY <1>1, Invariance, PTL

(* Only time lifts a lock, or a call that had read the account before it    *)
(* was locked (login, markSuccessfulLogin).                                 *)
THEOREM LocksHold ==
  Spec => LockLiftedOnlyLate
<1>1. ASSUME Inv, [Next]_vars, account.locked, ~account'.locked
      PROVE  LockExpires \/ \E d \in hist.late : CommitWrong(d) \/ MarkSuccess(d)
  <2>1. account' # account
    BY <1>1
  <2>2. CASE \E d \in Device : Call(d)
    BY <1>1, <2>2, Kinds, LockLifted DEF Inv
  <2>3. ~(\/ \E t \in Token : TokenExpires(t)
          \/ \E c \in 1 .. MaxCode : CodeExpires(c)
          \/ \E k \in 1 .. MaxReset : ResetExpires(k)
          \/ UNCHANGED vars)
    BY <2>1 DEF TokenExpires, CodeExpires, ResetExpires, vars
  <2>. QED
    BY <1>1, <2>2, <2>3 DEF Next
<1>2. Inv /\ [Next]_vars =>
        [account.locked /\ ~account'.locked =>
           LockExpires \/ \E d \in hist.late : CommitWrong(d) \/ MarkSuccess(d)]_vars
  BY <1>1
<1>. QED
  BY <1>2, Invariance, PTL DEF Spec, LockLiftedOnlyLate

=============================================================================
