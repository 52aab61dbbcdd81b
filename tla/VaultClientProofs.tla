------------------------- MODULE VaultClientProofs -------------------------
(***************************************************************************)
(* The safety properties of the vault client, for every set of workers,    *)
(* all thresholds of the breaker and any number of tokens and faults.      *)
(***************************************************************************)
EXTENDS VaultClient, TLAPS

(* Who may try an operation has seen a connected client, and a connected   *)
(* client stays one: holder is never nil again.                            *)
Connected ==
    /\ initialized => holder # NilClient
    /\ \A w \in Workers : pc[w] \in {"gate", "op1", "lock", "op2", "op3"} => initialized

(* The token with which the last attempt is made is the valid one, unless  *)
(* it expired since the login, or is a static one.                         *)
LastAttemptIsFresh ==
    \A w \in Workers : pc[w] = "op3" =>
        holder = gen \/ excuse[w] \/ (staticToken /\ gen > 1)

(* Without faults, the number of logins is at most the token that is in    *)
(* use, and who is about to log in has found out, under the lock, that     *)
(* this is not the valid one.                                              *)
LoginsPaid ==
    /\ holder <= gen
    /\ ~initialized => logins = 0
    /\ faults = 0 /\ ~staticToken =>
        /\ holder = NoToken => \E w \in Workers : pc[w] = "login"
        /\ holder >= 1 => logins <= holder
        /\ \A w \in Workers : pc[w] \in {"connect", "dial", "login"} => logins < gen

IInv == TypeOK /\ Connected /\ LastAttemptIsFresh /\ FailuresAreExplained /\ LoginsPaid

-----------------------------------------------------------------------------
BreakerType == [state : BreakerStates, errors : 0..(ErrorThreshold - 1),
                successes : 0..(SuccessThreshold - 1)]

(* The breaker stays in its range, whatever it counts.                     *)
LEMMA BreakerInRange ==
  ASSUME breaker \in BreakerType
  PROVE  /\ Open \in BreakerType /\ Closed \in BreakerType /\ HalfOpen \in BreakerType
         /\ AfterError \subseteq BreakerType
         /\ \A began : AfterSuccess(began) \in BreakerType
  <1> USE VaultAssumption DEF BreakerType, BreakerStates
  <1>1. Open \in BreakerType /\ Closed \in BreakerType /\ HalfOpen \in BreakerType
    BY DEF Open, Closed, HalfOpen
  <1>2. ASSUME NEW e \in {0, breaker.errors}, e + 1 # ErrorThreshold
        PROVE  [breaker EXCEPT !.errors = e + 1] \in BreakerType
    BY <1>2
  <1>3. AfterError \subseteq BreakerType
    BY <1>1, <1>2 DEF AfterError
  <1>4. ASSUME breaker.successes + 1 # SuccessThreshold
        PROVE  [breaker EXCEPT !.successes = @ + 1] \in BreakerType
    BY <1>4
  <1>5. \A began : AfterSuccess(began) \in BreakerType
    BY <1>1, <1>4 DEF AfterSuccess
  <1> QED BY <1>1, <1>3, <1>5

(* So does the end of a Run of the breaker.                                *)
LEMMA BreakerDoneType ==
  ASSUME breaker \in BreakerType, NEW ok, NEW began, BreakerDone(ok, began)
  PROVE  breaker' \in BreakerType
  BY BreakerInRange DEF BreakerDone

(* The initial states satisfy the invariant.                               *)
LEMMA InitIInv == Init => IInv
  <1> SUFFICES ASSUME Init PROVE IInv
    OBVIOUS
  <1> USE VaultAssumption DEF Init
  <1>1. staticToken \in BOOLEAN /\ initialized \in BOOLEAN
    BY Zenon
  <1>2. breaker \in BreakerType
    BY DEF Closed, BreakerType, BreakerStates
  <1>3. TypeOK
    BY <1>1, <1>2 DEF TypeOK, BreakerType, BreakerStates, LockedSteps, NilClient, MaxLogins
  <1>4. Connected /\ LastAttemptIsFresh /\ FailuresAreExplained /\ LoginsPaid
    BY DEF Connected, LastAttemptIsFresh, FailuresAreExplained, LoginsPaid, NilClient, NoToken
  <1> QED BY <1>3, <1>4 DEF IInv

(* A request changes the excuse of its worker, and counts a fault.         *)
LEMMA RequestType ==
  ASSUME TypeOK, NEW w \in Workers, NEW ok \in BOOLEAN, Request(w, ok)
  PROVE  excuse' \in [Workers -> BOOLEAN] /\ faults' \in 0..MaxFaults
  <1>1. CASE UNCHANGED <<excuse, faults>>
    BY <1>1 DEF TypeOK
  <1>2. CASE faults < MaxFaults /\ faults' = faults + 1 /\ excuse' = [excuse EXCEPT ![w] = TRUE]
    BY <1>2, VaultAssumption DEF TypeOK
  <1> QED BY <1>1, <1>2 DEF Request

(* What Idle resets.                                                       *)
LEMMA IdleType ==
  ASSUME TypeOK, NEW w \in Workers, Idle(w)
  PROVE  /\ guarded' \in [Workers -> BOOLEAN] /\ excuse' \in [Workers -> BOOLEAN]
         /\ seen' \in [Workers -> BreakerStates] /\ seenConnect' \in [Workers -> BreakerStates]
         /\ ret' \in [Workers -> {"gate", "op3"}]
         /\ res' \in [Workers -> {"none", "ok", "err", "unconnected"}]
  <1>1. guarded' \in [Workers -> BOOLEAN] /\ excuse' \in [Workers -> BOOLEAN]
    BY DEF Idle, TypeOK
  <1>2. /\ seen' \in [Workers -> BreakerStates] /\ seenConnect' \in [Workers -> BreakerStates]
        /\ ret' \in [Workers -> {"gate", "op3"}]
        /\ res' \in [Workers -> {"none", "ok", "err", "unconnected"}]
    BY DEF Idle, TypeOK, BreakerStates
  <1> QED BY <1>1, <1>2

(* A step of one worker keeps the types, and the lock with the workers     *)
(* that are between Lock and Unlock.                                       *)
LEMMA StepType ==
  ASSUME TypeOK, NEW w \in Workers, Step(w) \/ (\E g \in BOOLEAN : Call(w, g))
  PROVE  TypeOK'
  <1> USE VaultAssumption DEF TypeOK, LockedSteps, serverVars, callVars, MaxLogins, NoToken
  <1>0. breaker.state \in BreakerStates
    OBVIOUS
  <1>1. CASE \E g \in BOOLEAN : Call(w, g)
    BY <1>1 DEF Call
  <1>2. CASE InitCheck(w)
    BY <1>2 DEF InitCheck
  <1>3. CASE Gate(w)
    <2>1. CASE Idle(w)
      <3>1. pc' = [pc EXCEPT ![w] = "idle"]
        BY <2>1 DEF Idle
      <3> QED BY <1>3, <2>1, <3>1, IdleType DEF Gate
    <2>2. CASE ~Idle(w)
      <3>1. /\ pc' = [pc EXCEPT ![w] = "op1"]
            /\ seen' = [seen EXCEPT ![w] = breaker.state]
            /\ UNCHANGED <<guarded, seenConnect, ret, res, excuse>>
            /\ UNCHANGED <<staticToken, lock, initialized, holder, gen, faults, logins, breaker>>
            /\ pc[w] = "gate"
        BY <1>3, <2>2 DEF Gate
      <3> QED BY <1>0, <3>1
    <2> QED BY <2>1, <2>2
  <1>4. CASE Lock(w)
    BY <1>4 DEF Lock
  <1>5. ASSUME NEW ok \in BOOLEAN, Op1(w, ok) PROVE TypeOK'
    <2>1. excuse' \in [Workers -> BOOLEAN] /\ faults' \in 0..MaxFaults
      BY <1>5, RequestType DEF Op1
    <2> QED BY <1>5, <2>1 DEF Op1, Finish
  <1>6. ASSUME NEW ok \in BOOLEAN, Op2(w, ok) PROVE TypeOK'
    <2>1. excuse' \in [Workers -> BOOLEAN] /\ faults' \in 0..MaxFaults
      BY <1>6, RequestType DEF Op2
    <2> QED BY <1>6, <2>1 DEF Op2, Finish
  <1>7. ASSUME NEW ok \in BOOLEAN, Op3(w, ok) PROVE TypeOK'
    <2>1. excuse' \in [Workers -> BOOLEAN] /\ faults' \in 0..MaxFaults
      BY <1>7, RequestType DEF Op3
    <2> QED BY <1>7, <2>1 DEF Op3, Finish
  <1>8. CASE Connect(w)
    <2>1. seenConnect' \in [Workers -> BreakerStates]
      BY <1>0, <1>8 DEF Connect
    <2>2. excuse' \in [Workers -> BOOLEAN]
      BY <1>8 DEF Connect
    <2>3. /\ res' \in [Workers -> {"none", "ok", "err", "unconnected"}]
          /\ \/ pc' = [pc EXCEPT ![w] = "finish"] /\ lock' = NoOne
             \/ pc' = [pc EXCEPT ![w] = "dial"] /\ lock' = lock
          /\ pc[w] = "connect"
      BY <1>8 DEF Connect, ConnectFails
    <2>4. UNCHANGED <<staticToken, guarded, seen, ret, initialized, holder, gen, faults, logins,
                      breaker>>
      BY <1>8 DEF Connect
    <2> QED BY <2>1, <2>2, <2>3, <2>4
  <1>9. CASE Dial(w)
    BY <1>9 DEF Dial
  <1>10. CASE DialFails(w) \/ LoginFails(w)
    <2>1. breaker' \in BreakerType
      BY <1>10, BreakerDoneType DEF DialFails, LoginFails, BreakerType
    <2>2. excuse' \in [Workers -> BOOLEAN] /\ faults' \in 0..MaxFaults
      <3>1. faults < MaxFaults /\ faults' = faults + 1 /\ excuse' = [excuse EXCEPT ![w] = TRUE]
        BY <1>10 DEF DialFails, LoginFails
      <3> QED BY <3>1
    <2>3. /\ res' \in [Workers -> {"none", "ok", "err", "unconnected"}]
          /\ pc' = [pc EXCEPT ![w] = "finish"] /\ lock' = NoOne /\ pc[w] \in LockedSteps
      BY <1>10 DEF DialFails, LoginFails, ConnectFails
    <2>4. UNCHANGED <<staticToken, guarded, seen, seenConnect, ret, initialized, holder, gen, logins>>
      BY <1>10 DEF DialFails, LoginFails
    <2> QED BY <2>1, <2>2, <2>3, <2>4 DEF BreakerType
  <1>11. CASE Login(w)
    <2>1. breaker' \in BreakerType
      BY <1>11, BreakerDoneType DEF Login, BreakerType
    <2>2. holder' \in -1..MaxGen /\ logins' \in 0..MaxLogins
      BY <1>11 DEF Login, LoginCounted
    <2>3. /\ pc' = [pc EXCEPT ![w] = ret[w]] /\ lock' = IF ret[w] = "gate" THEN NoOne ELSE lock
          /\ pc[w] = "login" /\ ret[w] \in {"gate", "op3"} /\ initialized' = TRUE
          /\ UNCHANGED <<staticToken, guarded, seen, seenConnect, ret, res, excuse, gen, faults>>
      BY <1>11 DEF Login
    <2> QED BY <2>1, <2>2, <2>3 DEF BreakerType
  <1>12. CASE Return(w)
    <2>1. breaker' \in BreakerType
      BY <1>12, BreakerDoneType DEF Return, BreakerType
    <2>2. /\ pc[w] = "finish" /\ pc' = [pc EXCEPT ![w] = "idle"]
          /\ UNCHANGED <<staticToken, gen, lock, initialized, holder, faults, logins>>
      BY <1>12 DEF Return, Idle
    <2>3. /\ guarded' \in [Workers -> BOOLEAN] /\ excuse' \in [Workers -> BOOLEAN]
          /\ seen' \in [Workers -> BreakerStates] /\ seenConnect' \in [Workers -> BreakerStates]
          /\ ret' \in [Workers -> {"gate", "op3"}]
          /\ res' \in [Workers -> {"none", "ok", "err", "unconnected"}]
      BY <1>12, IdleType DEF Return
    <2> QED BY <2>1, <2>2, <2>3 DEF BreakerType
  <1> QED
    BY <1>1, <1>2, <1>3, <1>4, <1>5, <1>6, <1>7, <1>8, <1>9, <1>10, <1>11, <1>12 DEF Step

(* Every step keeps the types.                                             *)
LEMMA NextType == TypeOK /\ [Next]_vars => TypeOK'
  <1> SUFFICES ASSUME TypeOK, [Next]_vars PROVE TypeOK'
    OBVIOUS
  <1>1. CASE BreakerTimer
    <2>1. breaker' \in BreakerType
      BY <1>1, BreakerInRange DEF BreakerTimer, TypeOK, BreakerType
    <2> QED BY <1>1, <2>1 DEF BreakerTimer, callVars, TypeOK, BreakerType
  <1>2. CASE TokenExpires
    <2>1. excuse' \in [Workers -> BOOLEAN] /\ gen' \in 1..MaxGen
      BY <1>2, VaultAssumption DEF TokenExpires, TypeOK
    <2> QED BY <1>2, <2>1 DEF TokenExpires, callVars, TypeOK
  <1>3. CASE UNCHANGED vars
    BY <1>3 DEF vars, TypeOK
  <1> QED BY <1>1, <1>2, <1>3, StepType DEF Next

-----------------------------------------------------------------------------
(* At most one worker is between Lock and Unlock.                          *)
LEMMA OneInside ==
  ASSUME TypeOK, NEW w \in Workers, NEW v \in Workers,
         pc[w] \in LockedSteps, pc[v] \in LockedSteps
  PROVE  v = w
  BY DEF TypeOK

(* A step of one worker leaves the program counter of the others alone.    *)
LEMMA OthersStay ==
  ASSUME TypeOK, NEW w \in Workers, Step(w) \/ (\E g \in BOOLEAN : Call(w, g)),
         NEW v \in Workers, v # w
  PROVE  pc'[v] = pc[v] /\ excuse'[v] = excuse[v] /\ res'[v] = res[v]
  <1> USE DEF TypeOK
  <1>1. CASE \E g \in BOOLEAN : Call(w, g)
    BY <1>1 DEF Call
  <1>2. CASE InitCheck(w) \/ Lock(w) \/ Dial(w) \/ Login(w)
    BY <1>2 DEF InitCheck, Lock, Dial, Login
  <1>3. CASE Gate(w) \/ Return(w)
    BY <1>3 DEF Gate, Return, Idle
  <1>4. ASSUME NEW ok \in BOOLEAN, Op1(w, ok) \/ Op2(w, ok) \/ Op3(w, ok)
        PROVE  pc'[v] = pc[v] /\ excuse'[v] = excuse[v] /\ res'[v] = res[v]
    BY <1>4 DEF Op1, Op2, Op3, Request, Finish
  <1>5. CASE Connect(w) \/ DialFails(w) \/ LoginFails(w)
    BY <1>5 DEF Connect, DialFails, LoginFails, ConnectFails
  <1> QED BY <1>1, <1>2, <1>3, <1>4, <1>5 DEF Step

(* The server's side is not the workers', and only Dial and Login touch    *)
(* the holder.                                                             *)
LEMMA OnlyConnectChanges ==
  ASSUME NEW w \in Workers, Step(w) \/ (\E g \in BOOLEAN : Call(w, g))
  PROVE  /\ UNCHANGED <<staticToken, gen>>
         /\ Dial(w) \/ Login(w) \/ UNCHANGED <<initialized, holder, logins>>
  BY DEF Step, Call, InitCheck, Gate, Lock, Return, Connect, Dial, DialFails, Login, LoginFails,
         Op1, Op2, Op3, serverVars

(* No step makes an operation meet a nil client.                           *)
LEMMA StepConnected ==
  ASSUME IInv, NEW w \in Workers, Step(w) \/ (\E g \in BOOLEAN : Call(w, g))
  PROVE  Connected'
  <1> USE DEF IInv, Connected, TypeOK, NilClient, NoToken, callVars, serverVars
  <1>1. (initialized => initialized') /\ (initialized' => holder' # NilClient)
    <2>1. CASE Dial(w)
      BY <2>1 DEF Dial
    <2>2. CASE Login(w)
      BY <2>2 DEF Login
    <2>3. CASE UNCHANGED <<initialized, holder, logins>>
      BY <2>3
    <2> QED BY <2>1, <2>2, <2>3, OnlyConnectChanges
  <1>2. pc'[w] \in {"gate", "op1", "lock", "op2", "op3"} => initialized'
    <2>1. CASE \E g \in BOOLEAN : Call(w, g)
      BY <2>1 DEF Call
    <2>2. CASE InitCheck(w) \/ Lock(w) \/ Dial(w) \/ Login(w)
      BY <2>2 DEF InitCheck, Lock, Dial, Login
    <2>3. CASE Gate(w) \/ Return(w)
      BY <2>3 DEF Gate, Return, Idle
    <2>4. ASSUME NEW ok \in BOOLEAN, Op1(w, ok) \/ Op2(w, ok) \/ Op3(w, ok)
          PROVE  pc'[w] \in {"gate", "op1", "lock", "op2", "op3"} => initialized'
      BY <2>4 DEF Op1, Op2, Op3, Finish
    <2>5. CASE Connect(w) \/ DialFails(w) \/ LoginFails(w)
      BY <2>5 DEF Connect, DialFails, LoginFails, ConnectFails
    <2> QED BY <2>1, <2>2, <2>3, <2>4, <2>5 DEF Step
  <1> QED BY <1>1, <1>2, OthersStay

(* Nobody connects while another worker is before its last attempt; a      *)
(* login leaves the valid token.                                           *)
LEMMA StepFresh ==
  ASSUME IInv, NEW w \in Workers, Step(w) \/ (\E g \in BOOLEAN : Call(w, g))
  PROVE  LastAttemptIsFresh'
  <1> USE DEF IInv
  <1> SUFFICES ASSUME NEW v \in Workers, pc'[v] = "op3"
               PROVE  holder' = gen' \/ excuse'[v] \/ (staticToken' /\ gen' > 1)
    BY DEF LastAttemptIsFresh
  <1>1. CASE v # w
    <2>1. pc[v] = "op3" /\ excuse'[v] = excuse[v]
      BY <1>1, OthersStay
    <2>2. ~Dial(w) /\ ~Login(w)
      BY <1>1, <2>1, OneInside DEF Dial, Login, LockedSteps
    <2> QED BY <2>1, <2>2, OnlyConnectChanges DEF LastAttemptIsFresh
  <1>2. CASE v = w
    <2>1. CASE Login(w)
      BY <1>2, <2>1 DEF Login, TypeOK, serverVars
    <2>2. CASE ~Login(w)
      <3>1. CASE \E g \in BOOLEAN : Call(w, g)
        BY <1>2, <3>1 DEF Call, TypeOK
      <3>2. CASE InitCheck(w) \/ Lock(w) \/ Dial(w) \/ Gate(w) \/ Return(w)
        BY <1>2, <3>2 DEF InitCheck, Lock, Dial, Gate, Return, Idle, TypeOK
      <3>3. CASE \E ok \in BOOLEAN : Op1(w, ok) \/ Op2(w, ok) \/ Op3(w, ok)
        BY <1>2, <3>3 DEF Op1, Op2, Op3, Finish, TypeOK
      <3>4. CASE Connect(w) \/ DialFails(w) \/ LoginFails(w)
        BY <1>2, <3>4 DEF Connect, DialFails, LoginFails, ConnectFails, TypeOK
      <3> QED BY <2>2, <3>1, <3>2, <3>3, <3>4 DEF Step
    <2> QED BY <2>1, <2>2
  <1> QED BY <1>1, <1>2

(* A failure that a step records has an excuse: a request of its own, the  *)
(* breaker, or the token that went stale before the last attempt.          *)
LEMMA StepExplained ==
  ASSUME IInv, NEW w \in Workers, Step(w) \/ (\E g \in BOOLEAN : Call(w, g))
  PROVE  FailuresAreExplained'
  <1> USE DEF IInv
  <1> DEFINE Stale == staticToken /\ gen > 1
             Fine == res'[w] \in {"err", "unconnected"} => excuse'[w] \/ Stale
  <1>1. \A v \in Workers : v # w /\ res'[v] \in {"err", "unconnected"} => excuse'[v] \/ Stale
    BY OthersStay DEF FailuresAreExplained
  <1>2. Fine
    <2>1. CASE \E g \in BOOLEAN : Call(w, g)
      BY <2>1 DEF Call, FailuresAreExplained
    <2>2. CASE InitCheck(w) \/ Lock(w) \/ Dial(w) \/ Login(w)
      BY <2>2 DEF InitCheck, Lock, Dial, Login, FailuresAreExplained
    <2>3. CASE Gate(w) \/ Return(w)
      BY <2>3 DEF Gate, Return, Idle, FailuresAreExplained, TypeOK
    <2>4. ASSUME NEW ok \in BOOLEAN, Op1(w, ok) PROVE Fine
      BY <2>4 DEF Op1, Request, Finish, FailuresAreExplained, TypeOK
    <2>5. ASSUME NEW ok \in BOOLEAN, Op2(w, ok) PROVE Fine
      BY <2>5 DEF Op2, Request, Finish, FailuresAreExplained, TypeOK
    <2>6. ASSUME NEW ok \in BOOLEAN, Op3(w, ok) PROVE Fine
      BY <2>6 DEF Op3, Request, Finish, LastAttemptIsFresh, TypeOK
    <2>7. CASE Connect(w) \/ DialFails(w) \/ LoginFails(w)
      BY <2>7 DEF Connect, DialFails, LoginFails, ConnectFails, FailuresAreExplained, TypeOK
    <2> QED BY <2>1, <2>2, <2>3, <2>4, <2>5, <2>6, <2>7 DEF Step
  <1> QED BY <1>1, <1>2, OnlyConnectChanges DEF FailuresAreExplained

(* Faults are only ever counted up.                                        *)
LEMMA FaultsGrow ==
  ASSUME TypeOK, NEW w \in Workers, Step(w) \/ (\E g \in BOOLEAN : Call(w, g))
  PROVE  faults \in Nat /\ (faults' = faults \/ faults' = faults + 1)
  <1>0. faults \in Nat
    BY VaultAssumption DEF TypeOK
  <1>1. ASSUME \E ok \in BOOLEAN : Op1(w, ok) \/ Op2(w, ok) \/ Op3(w, ok)
        PROVE  faults' = faults \/ faults' = faults + 1
    BY <1>1 DEF Op1, Op2, Op3, Request
  <1>2. ASSUME DialFails(w) \/ LoginFails(w) PROVE faults' = faults + 1
    BY <1>2 DEF DialFails, LoginFails
  <1>3. ASSUME InitCheck(w) \/ Gate(w) \/ Lock(w) \/ Return(w) \/ Connect(w) \/ Dial(w) \/ Login(w)
        PROVE  faults' = faults
    BY <1>3 DEF InitCheck, Gate, Lock, Return, Connect, Dial, Login
  <1> QED BY <1>0, <1>1, <1>2, <1>3 DEF Step, Call

(* Without faults, who begins to connect has made sure that there was no   *)
(* login for the valid token.                                              *)
LEMMA ConnectIsDue ==
  ASSUME IInv, NEW w \in Workers, Step(w) \/ (\E g \in BOOLEAN : Call(w, g)),
         faults' = 0, ~staticToken, pc'[w] \in {"connect", "dial", "login"}
  PROVE  logins < gen /\ ~Login(w)
  <1> USE DEF IInv, TypeOK
  <1>0. faults = 0
    BY FaultsGrow
  <1>1. CASE \E g \in BOOLEAN : Call(w, g)
    BY <1>1 DEF Call
  <1>2. CASE InitCheck(w)
    <2>1. pc[w] = "initLock" /\ ~initialized
      BY <1>2 DEF InitCheck
    <2>2. logins = 0 /\ ~Login(w)
      BY <2>1 DEF LoginsPaid, Login
    <2> QED BY <2>2
  <1>3. CASE Lock(w) \/ Gate(w) \/ Return(w) \/ Login(w)
    BY <1>3 DEF Lock, Gate, Return, Idle, Login
  <1>4. CASE Dial(w) \/ Connect(w) \/ DialFails(w) \/ LoginFails(w)
    <2>1. pc[w] \in {"dial", "connect"} /\ ~Login(w)
      BY <1>0, <1>4 DEF Dial, Connect, DialFails, LoginFails, ConnectFails, Login
    <2> QED BY <1>0, <2>1 DEF LoginsPaid
  <1>5. CASE \E ok \in BOOLEAN : Op1(w, ok) \/ Op3(w, ok)
    BY <1>5 DEF Op1, Op3, Finish
  <1>6. CASE \E ok \in BOOLEAN : Op2(w, ok)
    <2>1. pc[w] = "op2" /\ holder # gen
      BY <1>0, <1>6 DEF Op2, Request, Finish
    <2>2. holder # NilClient
      BY <2>1 DEF Connected
    <2>3. holder # NoToken
      BY <1>0, <2>1, OneInside DEF LoginsPaid, LockedSteps
    <2>4. holder >= 1 /\ holder < gen
      BY <2>1, <2>2, <2>3 DEF LoginsPaid, NilClient, NoToken
    <2>5. logins <= holder /\ ~Login(w)
      BY <1>0, <2>1, <2>4 DEF LoginsPaid, Login
    <2> QED BY <2>4, <2>5
  <1> QED BY <1>1, <1>2, <1>3, <1>4, <1>5, <1>6 DEF Step

(* A step of a worker keeps the account of the logins.                     *)
LEMMA StepLogins ==
  ASSUME IInv, NEW w \in Workers, Step(w) \/ (\E g \in BOOLEAN : Call(w, g))
  PROVE  LoginsPaid'
  <1> USE DEF IInv
  <1>0. UNCHANGED <<staticToken, gen>>
    BY OnlyConnectChanges
  <1>1. CASE Login(w)
    <2>1. /\ pc[w] = "login" /\ pc'[w] = ret[w] /\ ret[w] \in {"gate", "op3"}
          /\ initialized' = TRUE /\ faults' = faults
          /\ holder' = IF staticToken THEN 1 ELSE gen
          /\ logins' = logins \/ logins' = logins + 1
      BY <1>1 DEF Login, LoginCounted, TypeOK
    <2>2. \A v \in Workers : pc'[v] \notin {"connect", "dial", "login"}
      BY <2>1, OthersStay, OneInside DEF LockedSteps
    <2>3. holder' <= gen' /\ holder' >= 1
      BY <1>0, <2>1 DEF TypeOK
    <2>4. faults' = 0 /\ ~staticToken => logins' <= holder'
      BY <2>1 DEF LoginsPaid, TypeOK
    <2> QED BY <1>0, <2>1, <2>2, <2>3, <2>4 DEF LoginsPaid, NoToken
  <1>2. CASE ~Login(w)
    <2>1. holder' <= gen' /\ (~initialized' => logins' = 0) /\ logins' = logins
      BY <1>0, <1>2, OnlyConnectChanges DEF Dial, LoginsPaid, NoToken, TypeOK
    <2> SUFFICES ASSUME faults' = 0, ~staticToken
                 PROVE  /\ holder' = NoToken => \E v \in Workers : pc'[v] = "login"
                        /\ holder' >= 1 => logins' <= holder'
                        /\ \A v \in Workers : pc'[v] \in {"connect", "dial", "login"}
                              => logins' < gen'
      BY <1>0, <2>1 DEF LoginsPaid
    <2>2. faults = 0
      BY FaultsGrow DEF TypeOK
    <2>3. ASSUME NEW v \in Workers, pc'[v] \in {"connect", "dial", "login"}
          PROVE  logins' < gen'
      <3>1. CASE v = w
        BY <1>0, <2>1, <2>3, <3>1, ConnectIsDue
      <3>2. CASE v # w
        BY <1>0, <2>1, <2>2, <2>3, <3>2, OthersStay DEF LoginsPaid
      <3> QED BY <3>1, <3>2
    <2>4. CASE Dial(w)
      <3>1. holder' = NoToken /\ pc'[w] = "login"
        BY <2>4 DEF Dial, TypeOK
      <3> QED BY <2>3, <3>1 DEF NoToken
    <2>5. CASE ~Dial(w)
      <3>1. holder' = holder
        BY <1>2, <2>5, OnlyConnectChanges
      <3>2. ASSUME NEW v \in Workers, pc[v] = "login" PROVE pc'[v] = "login"
        <4>1. CASE v # w
          BY <3>2, <4>1, OthersStay
        <4>2. CASE v = w
          <5>1. ~LoginFails(w)
            BY <2>2 DEF LoginFails
          <5>2. FALSE
            BY <1>2, <3>2, <4>2, <5>1
               DEF Step, Call, InitCheck, Gate, Lock, Return, Connect, Dial, DialFails,
                   Op1, Op2, Op3
          <5> QED BY <5>2
        <4> QED BY <4>1, <4>2
      <3> QED BY <2>1, <2>2, <2>3, <3>1, <3>2 DEF LoginsPaid
    <2> QED BY <2>4, <2>5
  <1> QED BY <1>1, <1>2

(* Every step of Next keeps the invariant.                                 *)
LEMMA NextIInv == IInv /\ [Next]_vars => IInv'
  <1> SUFFICES ASSUME IInv, [Next]_vars PROVE IInv'
    OBVIOUS
  <1>1. TypeOK'
    BY NextType DEF IInv
  <1>2. ASSUME NEW w \in Workers, Step(w) \/ \E g \in BOOLEAN : Call(w, g) PROVE IInv'
    BY <1>1, <1>2, StepConnected, StepFresh, StepExplained, StepLogins DEF IInv
  <1>3. CASE BreakerTimer \/ UNCHANGED vars
    <2>1. UNCHANGED <<staticToken, pc, res, excuse, initialized, holder, gen, faults, logins>>
      BY <1>3 DEF BreakerTimer, vars
    <2> QED BY <1>1, <2>1
            DEF IInv, Connected, LastAttemptIsFresh, FailuresAreExplained, LoginsPaid
  <1>4. CASE TokenExpires
    <2>1. /\ UNCHANGED <<staticToken, pc, res, initialized, holder, faults, logins>>
          /\ gen' = gen + 1 /\ gen \in Nat /\ gen >= 1
          /\ holder \in Int /\ logins \in Nat
      BY <1>4, VaultAssumption DEF TokenExpires, IInv, TypeOK, MaxLogins
    <2>2. \A w \in Workers : (excuse[w] => excuse'[w]) /\ (pc[w] = "op3" => excuse'[w])
      BY <1>4 DEF TokenExpires, IInv, TypeOK, LockedSteps
    <2>3. Connected' /\ LastAttemptIsFresh'
      BY <2>1, <2>2 DEF IInv, Connected, LastAttemptIsFresh
    <2>4. FailuresAreExplained'
      BY <2>1, <2>2 DEF IInv, FailuresAreExplained
    <2>5. LoginsPaid'
      BY <2>1 DEF IInv, LoginsPaid
    <2> QED BY <1>1, <2>3, <2>4, <2>5 DEF IInv
  <1> QED BY <1>2, <1>3, <1>4 DEF Next

(* IInv holds in every state of every behaviour.                           *)
LEMMA Invariance == Spec => []IInv
  BY InitIInv, NextIInv, PTL DEF Spec

-----------------------------------------------------------------------------
(* The lock-free look at initialized never lets an operation run on a      *)
(* client that is still nil.                                               *)
THEOREM ClientIsThere == Spec => []NoNilClient
  <1>1. IInv => NoNilClient
    BY DEF IInv, Connected, NoNilClient
  <1> QED BY Invariance, <1>1, PTL

(* An operation fails only for an external reason: the reconnects of other *)
(* workers do not show.                                                    *)
THEOREM ExplainedFailures == Spec => []FailuresAreExplained
  <1>1. IInv => FailuresAreExplained
    BY DEF IInv
  <1> QED BY Invariance, <1>1, PTL

(* Any number of workers that meet an expired token log in once together.  *)
THEOREM NoLoginStorm == Spec => []OneLoginPerToken
  <1>1. IInv => OneLoginPerToken
    <2> SUFFICES ASSUME IInv, faults = 0, ~staticToken PROVE logins <= gen
      BY DEF OneLoginPerToken
    <2> USE DEF IInv, TypeOK, LoginsPaid, MaxLogins
    <2>1. CASE holder >= 1
      BY <2>1, VaultAssumption
    <2>2. CASE holder = NoToken
      BY <2>2, VaultAssumption
    <2>3. CASE holder = NilClient
      BY <2>3, VaultAssumption DEF Connected
    <2> QED BY <2>1, <2>2, <2>3 DEF NoToken, NilClient
  <1> QED BY Invariance, <1>1, PTL
=============================================================================
