---------------------------- MODULE VaultClient ----------------------------
(***************************************************************************)
(* vault/client.go: a client shared by many goroutines. It connects on     *)
(* first use, and when an operation fails it retries, under the client's   *)
(* lock, then connects again (a new API client and a new login) and tries  *)
(* a last time. A circuit breaker wraps the operations of the secrets      *)
(* engine and, nested in them, every connect.                              *)
(*                                                                         *)
(* External: the vault server, whose tokens expire (gen is the token that  *)
(* is valid now) and which may be down; the breaker of go-resiliency.      *)
(***************************************************************************)
EXTENDS Integers, FiniteSets

CONSTANTS
    Workers,          \* goroutines that use the client
    ErrorThreshold,   \* config.BreakerErrorTH
    SuccessThreshold, \* config.BreakerSuccessTH
    MaxGen,           \* bound: how many tokens the server issues in sequence
    MaxFaults         \* bound: how often something external fails

NoOne == "none"     \* nobody has the lock

ASSUME VaultAssumption ==
    /\ NoOne \notin Workers
    /\ ErrorThreshold \in Nat \ {0} /\ SuccessThreshold \in Nat \ {0}
    /\ MaxGen \in Nat \ {0} /\ MaxFaults \in Nat

NilClient == -1     \* the holder has no API client yet
NoToken == 0        \* an API client that is not logged in

VARIABLES
    staticToken, \* config.Token # "": there is no login
    pc,          \* the goroutine of each worker
    guarded,     \* its operation runs in the breaker (not Mount, Unmount)
    seen,        \* the breaker's state when its outer Run began
    seenConnect, \* the breaker's state when its nested Run began
    ret,         \* where it goes on after connect: "gate" or "op3"
    res,         \* the result of its operation
    excuse,      \* something external explains a failure of this call
    lock,        \* the holder of c.lock
    initialized, \* c.initialized
    holder,      \* the token of the API client in the holder
    gen,         \* the token that the server accepts
    faults,      \* how often something external failed
    logins,      \* how often the client logged in, up to MaxLogins
    breaker      \* the circuit breaker: state, errors, successes

vars == <<staticToken, pc, guarded, seen, seenConnect, ret, res, excuse, lock, initialized,
          holder, gen, faults, logins, breaker>>

callVars == <<guarded, seen, seenConnect, ret>>
serverVars == <<gen, staticToken>>

MaxLogins == MaxGen + 1     \* bound: more logins are not told apart
LoginCounted == logins' = IF logins < MaxLogins THEN logins + 1 ELSE logins

Closed == [state |-> "closed", errors |-> 0, successes |-> 0]
Open == [state |-> "open", errors |-> 0, successes |-> 0]
HalfOpen == [state |-> "half", errors |-> 0, successes |-> 0]

Init ==
    /\ staticToken \in BOOLEAN
    /\ pc = [w \in Workers |-> "idle"]
    /\ guarded = [w \in Workers |-> TRUE]
    /\ seen = [w \in Workers |-> "closed"]
    /\ seenConnect = [w \in Workers |-> "closed"]
    /\ ret = [w \in Workers |-> "gate"]
    /\ res = [w \in Workers |-> "none"]
    /\ excuse = [w \in Workers |-> FALSE]
    /\ lock = NoOne
    /\ initialized = FALSE
    /\ holder = NilClient
    /\ gen = 1 /\ faults = 0 /\ logins = 0
    /\ breaker = Closed

-----------------------------------------------------------------------------
(* The circuit breaker                                                     *)

(* processResult for an error: errors older than the timeout are forgotten.*)
AfterError ==
    IF breaker.state = "open" THEN {breaker}
    ELSE IF breaker.state = "half" THEN {Open}
    ELSE {IF e + 1 = ErrorThreshold THEN Open ELSE [breaker EXCEPT !.errors = e + 1] :
             e \in {0, breaker.errors}}

(* processResult for a success, which doWork skips if Run began closed.    *)
AfterSuccess(began) ==
    IF began = "closed" \/ breaker.state # "half" THEN breaker
    ELSE IF breaker.successes + 1 = SuccessThreshold THEN Closed
    ELSE [breaker EXCEPT !.successes = @ + 1]

(* The end of a breaker.Run that began in a given state.                   *)
BreakerDone(ok, began) ==
    \/ ok /\ breaker' = AfterSuccess(began)
    \/ ~ok /\ breaker' \in AfterError

(* The timer: an open breaker half-closes.                                 *)
BreakerTimer ==
    /\ breaker.state = "open"
    /\ breaker' = HalfOpen
    /\ UNCHANGED <<staticToken, pc, callVars, res, excuse, lock, initialized, holder, gen,
                   faults, logins>>

-----------------------------------------------------------------------------
(* An operation                                                            *)

(* The call has returned; what was local to it is gone.                    *)
Idle(w) ==
    /\ pc' = [pc EXCEPT ![w] = "idle"]
    /\ guarded' = [guarded EXCEPT ![w] = TRUE]
    /\ seen' = [seen EXCEPT ![w] = "closed"]
    /\ seenConnect' = [seenConnect EXCEPT ![w] = "closed"]
    /\ ret' = [ret EXCEPT ![w] = "gate"]
    /\ res' = [res EXCEPT ![w] = "none"]
    /\ excuse' = [excuse EXCEPT ![w] = FALSE]

BugCall(w, g) ==
    /\ pc[w] = "idle"
    /\ guarded' = [guarded EXCEPT ![w] = g]
    /\ pc' = [pc EXCEPT ![w] = IF initialized \/ lock # NoOne THEN "gate" ELSE "initLock"]
    /\ UNCHANGED <<serverVars, seen, seenConnect, ret, res, excuse, lock, initialized, holder,
                   faults, logins, breaker>>

(* Read, Write, List, Delete, ListMounts (guarded), or Mount and Unmount:  *)
(* the first, atomic, look at initialized.                                 *)
Call(w, g) ==
    /\ pc[w] = "idle"
    /\ guarded' = [guarded EXCEPT ![w] = g]
    /\ pc' = [pc EXCEPT ![w] = IF initialized THEN "gate" ELSE "initLock"]
    /\ UNCHANGED <<serverVars, seen, seenConnect, ret, res, excuse, lock, initialized, holder,
                   faults, logins, breaker>>

(* connectIfNotInitialized: the second look, under the lock.               *)
InitCheck(w) ==
    /\ pc[w] = "initLock" /\ lock = NoOne
    /\ IF initialized
         THEN pc' = [pc EXCEPT ![w] = "gate"] /\ UNCHANGED <<lock, ret>>
         ELSE /\ pc' = [pc EXCEPT ![w] = "connect"]
              /\ lock' = w
              /\ ret' = [ret EXCEPT ![w] = "gate"]
    /\ UNCHANGED <<serverVars, guarded, seen, seenConnect, res, excuse, initialized, holder,
                   faults, logins, breaker>>

(* tryOperationWithBreaker, or tryOperation without it.                    *)
Gate(w) ==
    /\ pc[w] = "gate"
    /\ IF guarded[w] /\ breaker.state = "open"
         THEN Idle(w)
         ELSE /\ pc' = [pc EXCEPT ![w] = "op1"]
              /\ seen' = [seen EXCEPT ![w] = breaker.state]
              /\ UNCHANGED <<guarded, seenConnect, ret, res, excuse>>
    /\ UNCHANGED <<serverVars, lock, initialized, holder, faults, logins, breaker>>

(* A request to the server: it fails if the token is not the valid one, or *)
(* for an external reason, which counts as a fault.                        *)
Request(w, ok) ==
    \/ ok /\ holder = gen /\ UNCHANGED <<excuse, faults>>
    \/ ~ok /\ holder # gen /\ UNCHANGED <<excuse, faults>>
    \/ /\ ~ok /\ faults < MaxFaults
       /\ faults' = faults + 1
       /\ excuse' = [excuse EXCEPT ![w] = TRUE]

Finish(w, ok) ==
    /\ pc' = [pc EXCEPT ![w] = "finish"]
    /\ res' = [res EXCEPT ![w] = IF ok THEN "ok" ELSE "err"]

(* The first attempt, without the lock.                                    *)
Op1(w, ok) ==
    /\ pc[w] = "op1"
    /\ Request(w, ok)
    /\ IF ok THEN Finish(w, TRUE)
             ELSE pc' = [pc EXCEPT ![w] = "lock"] /\ UNCHANGED res
    /\ UNCHANGED <<serverVars, callVars, lock, initialized, holder, logins, breaker>>

BugLockAndConnect(w) ==
    /\ pc[w] = "lock" /\ lock = NoOne
    /\ lock' = w
    /\ ret' = [ret EXCEPT ![w] = "op3"]
    /\ pc' = [pc EXCEPT ![w] = "connect"]
    /\ UNCHANGED <<serverVars, guarded, seen, seenConnect, res, excuse, initialized, holder,
                   faults, logins, breaker>>

Lock(w) ==
    /\ pc[w] = "lock" /\ lock = NoOne
    /\ lock' = w
    /\ pc' = [pc EXCEPT ![w] = "op2"]
    /\ UNCHANGED <<serverVars, callVars, res, excuse, initialized, holder, faults, logins,
                   breaker>>

BugOp2(w, ok) ==
    /\ pc[w] = "op2"
    /\ Request(w, ok)
    /\ lock' = NoOne /\ Finish(w, ok) /\ UNCHANGED ret
    /\ UNCHANGED <<serverVars, guarded, seen, seenConnect, initialized, holder, logins, breaker>>

(* The second attempt, with the lock: maybe someone else has reconnected.  *)
Op2(w, ok) ==
    /\ pc[w] = "op2"
    /\ Request(w, ok)
    /\ IF ok THEN lock' = NoOne /\ Finish(w, TRUE) /\ UNCHANGED ret
             ELSE /\ pc' = [pc EXCEPT ![w] = "connect"]
                  /\ ret' = [ret EXCEPT ![w] = "op3"]
                  /\ UNCHANGED <<lock, res>>
    /\ UNCHANGED <<serverVars, guarded, seen, seenConnect, initialized, holder, logins, breaker>>

(* The last attempt, after a reconnect.                                    *)
Op3(w, ok) ==
    /\ pc[w] = "op3"
    /\ Request(w, ok)
    /\ lock' = NoOne
    /\ Finish(w, ok)
    /\ UNCHANGED <<serverVars, callVars, initialized, holder, logins, breaker>>

(* The operation is over and the lock released; the breaker counts it.     *)
Return(w) ==
    /\ pc[w] = "finish"
    /\ IF guarded[w] /\ res[w] # "unconnected"
         THEN BreakerDone(res[w] = "ok", seen[w])
         ELSE UNCHANGED breaker
    /\ Idle(w)
    /\ UNCHANGED <<serverVars, lock, initialized, holder, faults, logins>>

-----------------------------------------------------------------------------
(* connectToVaultServerWithBreaker                                         *)

(* Where a connect that failed leaves its caller: in tryOperation the      *)
(* operation fails, in connectIfNotInitialized the call is over before the *)
(* operation's breaker.Run.                                                *)
ConnectFails(w) ==
    /\ lock' = NoOne
    /\ res' = [res EXCEPT ![w] = IF ret[w] = "op3" THEN "err" ELSE "unconnected"]
    /\ pc' = [pc EXCEPT ![w] = "finish"]

(* The nested breaker.Run.                                                 *)
Connect(w) ==
    /\ pc[w] = "connect"
    /\ IF breaker.state = "open"
         THEN ConnectFails(w) /\ excuse' = [excuse EXCEPT ![w] = TRUE]
         ELSE /\ pc' = [pc EXCEPT ![w] = "dial"]
              /\ UNCHANGED <<lock, res, excuse>>
    /\ seenConnect' = [seenConnect EXCEPT ![w] = breaker.state]
    /\ UNCHANGED <<serverVars, guarded, seen, ret, initialized, holder, faults, logins, breaker>>

(* The service account token cannot be read, or NewClient fails.           *)
DialFails(w) ==
    /\ pc[w] = "dial" /\ faults < MaxFaults
    /\ faults' = faults + 1
    /\ excuse' = [excuse EXCEPT ![w] = TRUE]
    /\ BreakerDone(FALSE, seenConnect[w])
    /\ ConnectFails(w)
    /\ UNCHANGED <<serverVars, callVars, initialized, holder, logins>>

(* c.h.set(vaultClient): from here on everybody gets the new API client,   *)
(* which is not logged in yet.                                             *)
Dial(w) ==
    /\ pc[w] = "dial"
    /\ holder' = NoToken
    /\ pc' = [pc EXCEPT ![w] = "login"]
    /\ UNCHANGED <<serverVars, callVars, res, excuse, lock, initialized, faults, logins, breaker>>

(* The login request fails.                                                *)
LoginFails(w) ==
    /\ pc[w] = "login" /\ ~staticToken /\ faults < MaxFaults
    /\ faults' = faults + 1
    /\ excuse' = [excuse EXCEPT ![w] = TRUE]
    /\ BreakerDone(FALSE, seenConnect[w])
    /\ ConnectFails(w)
    /\ UNCHANGED <<serverVars, callVars, initialized, holder, logins>>

BugLoginKeepsLock(w) ==
    /\ pc[w] = "login"
    /\ holder' = IF staticToken THEN 1 ELSE gen
    /\ LoginCounted
    /\ initialized' = TRUE
    /\ BreakerDone(TRUE, seenConnect[w])
    /\ pc' = [pc EXCEPT ![w] = ret[w]]
    /\ UNCHANGED <<serverVars, callVars, res, excuse, faults, lock>>

(* Login, or the configured token; SetToken; initialized is set. In        *)
(* connectIfNotInitialized the lock is released.                           *)
Login(w) ==
    /\ pc[w] = "login"
    /\ holder' = IF staticToken THEN 1 ELSE gen
    /\ LoginCounted
    /\ initialized' = TRUE
    /\ BreakerDone(TRUE, seenConnect[w])
    /\ pc' = [pc EXCEPT ![w] = ret[w]]
    /\ lock' = IF ret[w] = "gate" THEN NoOne ELSE lock
    /\ UNCHANGED <<serverVars, callVars, res, excuse, faults>>

(* The server revokes or expires the token. A worker that holds the lock   *)
(* may be hit between its login and its last attempt, which explains a     *)
(* failure; and a static token is never replaced.                          *)
TokenExpires ==
    /\ gen < MaxGen
    /\ gen' = gen + 1
    /\ excuse' = [w \in Workers |-> excuse[w] \/ w = lock]
    /\ UNCHANGED <<staticToken, pc, callVars, res, lock, initialized, holder, faults, logins,
                   breaker>>

-----------------------------------------------------------------------------
Step(w) ==
    \/ InitCheck(w) \/ Gate(w) \/ Lock(w) \/ Return(w)
    \/ Connect(w) \/ Dial(w) \/ DialFails(w) \/ Login(w) \/ LoginFails(w)
    \/ \E ok \in BOOLEAN : Op1(w, ok) \/ Op2(w, ok) \/ Op3(w, ok)

Next ==
    \/ BreakerTimer \/ TokenExpires
    \/ \E w \in Workers : Step(w) \/ \E g \in BOOLEAN : Call(w, g)

(* Goroutines run and requests are answered. A mutex of sync.Mutex is not  *)
(* withheld from a waiter for ever (starvation mode).                      *)
Fairness ==
    /\ WF_vars(BreakerTimer)
    /\ \A w \in Workers : WF_vars(Step(w)) /\ SF_vars(Lock(w)) /\ SF_vars(InitCheck(w))

Spec == Init /\ [][Next]_vars /\ Fairness

-----------------------------------------------------------------------------
(* Properties                                                              *)

BreakerStates == {"closed", "open", "half"}

LockedSteps == {"op2", "op3", "connect", "dial", "login"}

(* The types of the state, and who holds the lock: the steps between       *)
(* c.lock.Lock and the deferred Unlock, and no others.                     *)
TypeOK ==
    /\ staticToken \in BOOLEAN
    /\ pc \in [Workers -> {"idle", "initLock", "gate", "op1", "lock", "op2", "op3", "finish",
                           "connect", "dial", "login"}]
    /\ guarded \in [Workers -> BOOLEAN]
    /\ seen \in [Workers -> BreakerStates] /\ seenConnect \in [Workers -> BreakerStates]
    /\ ret \in [Workers -> {"gate", "op3"}]
    /\ res \in [Workers -> {"none", "ok", "err", "unconnected"}]
    /\ excuse \in [Workers -> BOOLEAN]
    /\ lock \in Workers \cup {NoOne}
    /\ \A w \in Workers : lock = w <=> pc[w] \in LockedSteps
    /\ initialized \in BOOLEAN
    /\ holder \in -1..MaxGen
    /\ gen \in 1..MaxGen /\ faults \in 0..MaxFaults /\ logins \in 0..MaxLogins
    /\ breaker \in [state : BreakerStates, errors : 0..(ErrorThreshold - 1),
                    successes : 0..(SuccessThreshold - 1)]

(* The lock-free look at initialized is safe: although it is taken while   *)
(* another goroutine connects, no operation is attempted on the nil        *)
(* API client of an empty holder.                                          *)
NoNilClient ==
    \A w \in Workers : pc[w] \in {"op1", "op2", "op3"} => holder # NilClient

(* The retry under the lock hides every reconnect from the other workers:  *)
(* although the new API client is published before it is logged in, and a  *)
(* failed login leaves it in place, an operation fails only if something   *)
(* external explains it: a request or a login of its own failed, the       *)
(* breaker was open, or the token expired while it held the lock.          *)
FailuresAreExplained ==
    \A w \in Workers : res[w] \in {"err", "unconnected"} => excuse[w] \/ (staticToken /\ gen > 1)

(* No login storm: as long as nothing external failed, the client logs in  *)
(* at most once for every token the server issued, however many workers    *)
(* find out at the same time that the token is not valid.                  *)
OneLoginPerToken == faults = 0 /\ ~staticToken => logins <= gen

(* Every call comes back, and no one keeps the lock: the client does not   *)
(* deadlock when calls, connects and logins fail.                          *)
CallsReturn == \A w \in Workers : (pc[w] # "idle") ~> (pc[w] = "idle")
=============================================================================
