-------------------------- MODULE AppRunnerProofs --------------------------
(***************************************************************************)
(* The safety properties of AppRunner, proved for every number of modules  *)
(* of every combination of kinds.                                          *)
(***************************************************************************)
EXTENDS AppRunner, TLAPS

Over == {"returned", "recorded"}

(* What the position of AppRunner.Run says about the goroutines.           *)
Phase ==
    /\ pc \in {"init", "panicked"} =>
            \A i \in Runnables : run[i] = "none" /\ close[i] = "none"
    /\ pc = "start" =>
            /\ idx >= 1
            /\ \A i \in Runnables : (i < idx <=> run[i] # "none") /\ close[i] = "none"
    /\ pc = "close" =>
            \A i \in Runnables :
                /\ run[i] # "none"
                /\ i > idx => close[i] \in Over
                /\ i < idx => close[i] = "none"
    /\ pc = "exited" =>
            \/ \A i \in Runnables : run[i] = "none" /\ close[i] = "none"
            \/ /\ \A i \in Runnables : run[i] = "recorded" /\ close[i] = "recorded"
               /\ exitCode = IF errs = {} THEN 0 ELSE 1

(* A result exists once the call is over, and errs holds exactly the       *)
(* errors of the goroutines that are done.                                 *)
Results ==
    \A i \in Runnables :
        /\ runRes[i] # "none" <=> run[i] \in Over
        /\ closeRes[i] # "none" <=> close[i] \in Over
        /\ i \in errs <=> \/ run[i] = "recorded" /\ runRes[i] = "err"
                          \/ close[i] = "recorded" /\ closeRes[i] = "err"

(* Requests are in flight only in servers whose Close() is not over, and a *)
(* server that drains accepts no more of them.                             *)
Requests ==
    \A i \in Runnables :
        /\ i \in busy => KindOf(i) = "http" /\ run[i] # "none" /\ close[i] \notin Over
        /\ close[i] = "draining" => KindOf(i) = "http"
        /\ KindOf(i) = "http" /\ close[i] \in Over \cup {"draining"} => i \in done

(* Where a cancelled context comes from.                                   *)
Causes ==
    /\ appCtx => pc \in {"close", "exited"}
    /\ runCtx => StopReason
    /\ pc = "close" => StopReason
    /\ pc = "exited" => StopReason \/ \A i \in Runnables : close[i] = "none"

IInv == TypeOK /\ Phase /\ Results /\ Requests /\ Causes

-----------------------------------------------------------------------------
(* The initial states satisfy the invariant.                               *)
LEMMA InitIInv == Init => IInv
  <1> SUFFICES ASSUME Init PROVE IInv
    OBVIOUS
  <1> USE NAssumption DEF Init, Runnables, Over
  <1>1. TypeOK
    <2>1. run \in [Runnables -> RunStates] /\ runRes \in [Runnables -> Outcomes \cup {"none"}]
      BY DEF RunStates
    <2>2. close \in [Runnables -> CloseStates] /\ closeRes \in [Runnables -> Outcomes \cup {"none"}]
      BY DEF CloseStates
    <2>3. idx \in 0..(N + 2) /\ exitCode \in {-1, 0, 1}
      OBVIOUS
    <2>4. /\ kind \in [Mods -> Kinds]
          /\ pc \in {"init", "start", "close", "exited", "panicked"} /\ pc # "close"
      OBVIOUS
    <2>5. /\ stop \in BOOLEAN /\ appCtx \in BOOLEAN /\ runCtx \in BOOLEAN /\ ready \in BOOLEAN
          /\ done \subseteq Runnables /\ panicked \subseteq Runnables
          /\ busy \subseteq Runnables /\ errs \subseteq Runnables
      OBVIOUS
    <2> QED BY <2>1, <2>2, <2>3, <2>4, <2>5 DEF TypeOK
  <1>2. Phase /\ Results
    BY DEF Phase, Results
  <1>3. Requests /\ Causes
    BY DEF Requests, Causes
  <1> QED BY <1>1, <1>2, <1>3 DEF IInv

(* Every step of Next keeps the invariant: one step per action.            *)
LEMMA NextIInv == IInv /\ [Next]_vars => IInv'
  <1> SUFFICES ASSUME IInv, [Next]_vars PROVE IInv'
    OBVIOUS
  <1> USE NAssumption DEF IInv, Runnables, Mods, Stopper, KindOf, Over, Outcomes,
      callVars, ctxVars, runVars, closeVars
  <1>1. CASE InitOk
    <2>1. TypeOK'
      BY <1>1 DEF InitOk, TypeOK, RunStates, CloseStates, StopReason, Phase
    <2>2. Phase'
      BY <1>1 DEF InitOk, TypeOK, Phase, RunStates, CloseStates, Results, Requests
    <2>3. Results'
      BY <1>1 DEF InitOk, TypeOK, Results, RunStates, CloseStates, Phase
    <2>4. Requests'
      BY <1>1 DEF InitOk, TypeOK, Requests, Phase, RunStates, CloseStates
    <2>5. Causes'
      BY <1>1 DEF InitOk, TypeOK, Causes, StopReason, Phase, RunDone, AppDone, RunStates, CloseStates
    <2> QED BY <2>1, <2>2, <2>3, <2>4, <2>5 DEF IInv
  <1>2. CASE InitFails
    <2>1. TypeOK'
      BY <1>2 DEF InitFails, TypeOK, RunStates, CloseStates, StopReason, Phase
    <2>2. Phase'
      BY <1>2 DEF InitFails, TypeOK, Phase, RunStates, CloseStates, Results, Requests
    <2>3. Results'
      BY <1>2 DEF InitFails, TypeOK, Results, RunStates, CloseStates, Phase
    <2>4. Requests'
      BY <1>2 DEF InitFails, TypeOK, Requests, Phase, RunStates, CloseStates
    <2>5. Causes'
      BY <1>2 DEF InitFails, TypeOK, Causes, StopReason, Phase, RunDone, AppDone, RunStates, CloseStates
    <2> QED BY <2>1, <2>2, <2>3, <2>4, <2>5 DEF IInv
  <1>3. CASE InitPanics
    <2>1. TypeOK'
      BY <1>3 DEF InitPanics, TypeOK, RunStates, CloseStates, StopReason, Phase
    <2>2. Phase'
      BY <1>3 DEF InitPanics, TypeOK, Phase, RunStates, CloseStates, Results, Requests
    <2>3. Results'
      BY <1>3 DEF InitPanics, TypeOK, Results, RunStates, CloseStates, Phase
    <2>4. Requests'
      BY <1>3 DEF InitPanics, TypeOK, Requests, Phase, RunStates, CloseStates
    <2>5. Causes'
      BY <1>3 DEF InitPanics, TypeOK, Causes, StopReason, Phase, RunDone, AppDone, RunStates, CloseStates
    <2> QED BY <2>1, <2>2, <2>3, <2>4, <2>5 DEF IInv
  <1>4. CASE Launch
    <2>1. TypeOK'
      BY <1>4 DEF Launch, TypeOK, RunStates, CloseStates, StopReason, Phase
    <2>2. Phase'
      BY <1>4 DEF Launch, TypeOK, Phase, RunStates, CloseStates, Results, Requests
    <2>3. Results'
      BY <1>4 DEF Launch, TypeOK, Results, RunStates, CloseStates, Phase
    <2>4. Requests'
      BY <1>4 DEF Launch, TypeOK, Requests, Phase, RunStates, CloseStates
    <2>5. Causes'
      BY <1>4 DEF Launch, TypeOK, Causes, StopReason, Phase, RunDone, AppDone, RunStates, CloseStates
    <2> QED BY <2>1, <2>2, <2>3, <2>4, <2>5 DEF IInv
  <1>5. CASE Spawn
    <2>1. TypeOK'
      BY <1>5 DEF Spawn, TypeOK, RunStates, CloseStates, StopReason, Phase
    <2>2. Phase'
      BY <1>5 DEF Spawn, TypeOK, Phase, RunStates, CloseStates, Results, Requests
    <2>3. Results'
      BY <1>5 DEF Spawn, TypeOK, Results, RunStates, CloseStates, Phase
    <2>4. Requests'
      BY <1>5 DEF Spawn, TypeOK, Requests, Phase, RunStates, CloseStates
    <2>5. Causes'
      BY <1>5 DEF Spawn, TypeOK, Causes, StopReason, Phase, RunDone, AppDone, RunStates, CloseStates
    <2> QED BY <2>1, <2>2, <2>3, <2>4, <2>5 DEF IInv
  <1>6. CASE AwaitDone
    <2>1. TypeOK'
      BY <1>6 DEF AwaitDone, TypeOK, RunStates, CloseStates, StopReason, Phase
    <2>2. Phase'
      BY <1>6 DEF AwaitDone, TypeOK, Phase, RunStates, CloseStates, Results, Requests
    <2>3. Results'
      BY <1>6 DEF AwaitDone, TypeOK, Results, RunStates, CloseStates, Phase
    <2>4. Requests'
      BY <1>6 DEF AwaitDone, TypeOK, Requests, Phase, RunStates, CloseStates
    <2>5. Causes'
      BY <1>6 DEF AwaitDone, TypeOK, Causes, StopReason, Phase, RunDone, AppDone, RunStates, CloseStates
    <2> QED BY <2>1, <2>2, <2>3, <2>4, <2>5 DEF IInv
  <1>7. CASE CloseCall
    <2>1. TypeOK'
      BY <1>7 DEF CloseCall, TypeOK, RunStates, CloseStates, StopReason, Phase
    <2>2. Phase'
      BY <1>7 DEF CloseCall, TypeOK, Phase, RunStates, CloseStates, Results, Requests
    <2>3. Results'
      BY <1>7 DEF CloseCall, TypeOK, Results, RunStates, CloseStates, Phase
    <2>4. Requests'
      BY <1>7 DEF CloseCall, TypeOK, Requests, Phase, RunStates, CloseStates
    <2>5. Causes'
      BY <1>7 DEF CloseCall, TypeOK, Causes, StopReason, Phase, RunDone, AppDone, RunStates, CloseStates
    <2> QED BY <2>1, <2>2, <2>3, <2>4, <2>5 DEF IInv
  <1>8. CASE CloseNext
    <2>1. TypeOK'
      BY <1>8 DEF CloseNext, TypeOK, RunStates, CloseStates, StopReason, Phase
    <2>2. Phase'
      BY <1>8 DEF CloseNext, TypeOK, Phase, RunStates, CloseStates, Results, Requests
    <2>3. Results'
      BY <1>8 DEF CloseNext, TypeOK, Results, RunStates, CloseStates, Phase
    <2>4. Requests'
      BY <1>8 DEF CloseNext, TypeOK, Requests, Phase, RunStates, CloseStates
    <2>5. Causes'
      BY <1>8 DEF CloseNext, TypeOK, Causes, StopReason, Phase, RunDone, AppDone, RunStates, CloseStates
    <2> QED BY <2>1, <2>2, <2>3, <2>4, <2>5 DEF IInv
  <1>9. CASE Join
    <2>1. TypeOK'
      BY <1>9 DEF Join, TypeOK, RunStates, CloseStates, StopReason, Phase
    <2>2. Phase'
      BY <1>9 DEF Join, TypeOK, Phase, RunStates, CloseStates, Results, Requests
    <2>3. Results'
      BY <1>9 DEF Join, TypeOK, Results, RunStates, CloseStates, Phase
    <2>4. Requests'
      BY <1>9 DEF Join, TypeOK, Requests, Phase, RunStates, CloseStates
    <2>5. Causes'
      BY <1>9 DEF Join, TypeOK, Causes, StopReason, Phase, RunDone, AppDone, RunStates, CloseStates
    <2> QED BY <2>1, <2>2, <2>3, <2>4, <2>5 DEF IInv
  <1>10. CASE CloseStopper
    <2>1. TypeOK'
      BY <1>10 DEF CloseStopper, TypeOK, RunStates, CloseStates, StopReason, Phase, CloseReturns
    <2>2. Phase'
      BY <1>10 DEF CloseStopper, TypeOK, Phase, RunStates, CloseStates, Results, Requests, CloseReturns
    <2>3. Results'
      BY <1>10 DEF CloseStopper, TypeOK, Results, RunStates, CloseStates, Phase, CloseReturns
    <2>4. Requests'
      BY <1>10 DEF CloseStopper, TypeOK, Requests, Phase, RunStates, CloseStates, CloseReturns
    <2>5. Causes'
      BY <1>10 DEF CloseStopper, TypeOK, Causes, StopReason, Phase, RunDone, AppDone, RunStates, CloseStates, CloseReturns
    <2> QED BY <2>1, <2>2, <2>3, <2>4, <2>5 DEF IInv
  <1>11. CASE Interrupt
    <2>1. TypeOK'
      BY <1>11 DEF Interrupt, TypeOK, RunStates, CloseStates, StopReason, Phase
    <2>2. Phase'
      BY <1>11 DEF Interrupt, TypeOK, Phase, RunStates, CloseStates, Results, Requests
    <2>3. Results'
      BY <1>11 DEF Interrupt, TypeOK, Results, RunStates, CloseStates, Phase
    <2>4. Requests'
      BY <1>11 DEF Interrupt, TypeOK, Requests, Phase, RunStates, CloseStates
    <2>5. Causes'
      BY <1>11 DEF Interrupt, TypeOK, Causes, StopReason, Phase, RunDone, AppDone, RunStates, CloseStates
    <2> QED BY <2>1, <2>2, <2>3, <2>4, <2>5 DEF IInv
  <1>12. ASSUME NEW i \in Runnables, RunCall(i) PROVE IInv'
    <2>1. TypeOK'
      BY <1>12 DEF RunCall, TypeOK, RunStates, CloseStates, StopReason, Phase
    <2>2. Phase'
      BY <1>12 DEF RunCall, TypeOK, Phase, RunStates, CloseStates, Results, Requests
    <2>3. Results'
      BY <1>12 DEF RunCall, TypeOK, Results, RunStates, CloseStates, Phase
    <2>4. Requests'
      BY <1>12 DEF RunCall, TypeOK, Requests, Phase, RunStates, CloseStates
    <2>5. Causes'
      BY <1>12 DEF RunCall, TypeOK, Causes, StopReason, Phase, RunDone, AppDone, RunStates, CloseStates
    <2> QED BY <2>1, <2>2, <2>3, <2>4, <2>5 DEF IInv
  <1>13. ASSUME NEW i \in Runnables, NEW o \in Outcomes, RunReturn(i, o) PROVE IInv'
    <2>1. TypeOK'
      BY <1>13 DEF RunReturn, TypeOK, RunStates, CloseStates, StopReason, Phase, MayReturn
    <2>2. Phase'
      BY <1>13 DEF RunReturn, TypeOK, Phase, RunStates, CloseStates, Results, Requests, MayReturn
    <2>3. Results'
      BY <1>13 DEF RunReturn, TypeOK, Results, RunStates, CloseStates, Phase, MayReturn
    <2>4. Requests'
      BY <1>13 DEF RunReturn, TypeOK, Requests, Phase, RunStates, CloseStates, MayReturn
    <2>5. Causes'
      BY <1>13 DEF RunReturn, TypeOK, Causes, StopReason, Phase, RunDone, AppDone, RunStates, CloseStates, MayReturn
    <2> QED BY <2>1, <2>2, <2>3, <2>4, <2>5 DEF IInv
  <1>14. ASSUME NEW i \in Runnables, RunRecorded(i) PROVE IInv'
    <2>1. TypeOK'
      BY <1>14 DEF RunRecorded, TypeOK, RunStates, CloseStates, StopReason, Phase
    <2>2. Phase'
      BY <1>14 DEF RunRecorded, TypeOK, Phase, RunStates, CloseStates, Results, Requests
    <2>3. Results'
      BY <1>14 DEF RunRecorded, TypeOK, Results, RunStates, CloseStates, Phase
    <2>4. Requests'
      BY <1>14 DEF RunRecorded, TypeOK, Requests, Phase, RunStates, CloseStates
    <2>5. Causes'
      BY <1>14 DEF RunRecorded, TypeOK, Causes, StopReason, Phase, RunDone, AppDone, RunStates, CloseStates
    <2> QED BY <2>1, <2>2, <2>3, <2>4, <2>5 DEF IInv
  <1>15. ASSUME NEW i \in Runnables, CloseInitable(i) PROVE IInv'
    <2>1. TypeOK'
      BY <1>15 DEF CloseInitable, TypeOK, RunStates, CloseStates, StopReason, Phase, CloseReturns
    <2>2. Phase'
      BY <1>15 DEF CloseInitable, TypeOK, Phase, RunStates, CloseStates, Results, Requests, CloseReturns
    <2>3. Results'
      BY <1>15 DEF CloseInitable, TypeOK, Results, RunStates, CloseStates, Phase, CloseReturns
    <2>4. Requests'
      BY <1>15 DEF CloseInitable, TypeOK, Requests, Phase, RunStates, CloseStates, CloseReturns
    <2>5. Causes'
      BY <1>15 DEF CloseInitable, TypeOK, Causes, StopReason, Phase, RunDone, AppDone, RunStates, CloseStates, CloseReturns
    <2> QED BY <2>1, <2>2, <2>3, <2>4, <2>5 DEF IInv
  <1>16. ASSUME NEW i \in Runnables, NEW o \in Outcomes, CloseClosable(i, o) PROVE IInv'
    <2>1. TypeOK'
      BY <1>16 DEF CloseClosable, TypeOK, RunStates, CloseStates, StopReason, Phase, CloseReturns
    <2>2. Phase'
      BY <1>16 DEF CloseClosable, TypeOK, Phase, RunStates, CloseStates, Results, Requests, CloseReturns
    <2>3. Results'
      BY <1>16 DEF CloseClosable, TypeOK, Results, RunStates, CloseStates, Phase, CloseReturns
    <2>4. Requests'
      BY <1>16 DEF CloseClosable, TypeOK, Requests, Phase, RunStates, CloseStates, CloseReturns
    <2>5. Causes'
      BY <1>16 DEF CloseClosable, TypeOK, Causes, StopReason, Phase, RunDone, AppDone, RunStates, CloseStates, CloseReturns
    <2> QED BY <2>1, <2>2, <2>3, <2>4, <2>5 DEF IInv
  <1>17. ASSUME NEW i \in Runnables, CloserPanics(i) PROVE IInv'
    <2>1. TypeOK'
      BY <1>17 DEF CloserPanics, TypeOK, RunStates, CloseStates, StopReason, Phase, CloseReturns
    <2>2. Phase'
      BY <1>17 DEF CloserPanics, TypeOK, Phase, RunStates, CloseStates, Results, Requests, CloseReturns
    <2>3. Results'
      BY <1>17 DEF CloserPanics, TypeOK, Results, RunStates, CloseStates, Phase, CloseReturns
    <2>4. Requests'
      BY <1>17 DEF CloserPanics, TypeOK, Requests, Phase, RunStates, CloseStates, CloseReturns
    <2>5. Causes'
      BY <1>17 DEF CloserPanics, TypeOK, Causes, StopReason, Phase, RunDone, AppDone, RunStates, CloseStates, CloseReturns
    <2> QED BY <2>1, <2>2, <2>3, <2>4, <2>5 DEF IInv
  <1>18. ASSUME NEW i \in Runnables, NEW o \in Outcomes, CloseGeneric(i, o) PROVE IInv'
    <2>1. TypeOK'
      BY <1>18 DEF CloseGeneric, TypeOK, RunStates, CloseStates, StopReason, Phase, CloseReturns
    <2>2. Phase'
      BY <1>18 DEF CloseGeneric, TypeOK, Phase, RunStates, CloseStates, Results, Requests, CloseReturns
    <2>3. Results'
      BY <1>18 DEF CloseGeneric, TypeOK, Results, RunStates, CloseStates, Phase, CloseReturns
    <2>4. Requests'
      BY <1>18 DEF CloseGeneric, TypeOK, Requests, Phase, RunStates, CloseStates, CloseReturns
    <2>5. Causes'
      BY <1>18 DEF CloseGeneric, TypeOK, Causes, StopReason, Phase, RunDone, AppDone, RunStates, CloseStates, CloseReturns
    <2> QED BY <2>1, <2>2, <2>3, <2>4, <2>5 DEF IInv
  <1>19. ASSUME NEW i \in Runnables, ShutdownServer(i) PROVE IInv'
    <2>1. TypeOK'
      BY <1>19 DEF ShutdownServer, TypeOK, RunStates, CloseStates, StopReason, Phase
    <2>2. Phase'
      BY <1>19 DEF ShutdownServer, TypeOK, Phase, RunStates, CloseStates, Results, Requests
    <2>3. Results'
      BY <1>19 DEF ShutdownServer, TypeOK, Results, RunStates, CloseStates, Phase
    <2>4. Requests'
      BY <1>19 DEF ShutdownServer, TypeOK, Requests, Phase, RunStates, CloseStates
    <2>5. Causes'
      BY <1>19 DEF ShutdownServer, TypeOK, Causes, StopReason, Phase, RunDone, AppDone, RunStates, CloseStates
    <2> QED BY <2>1, <2>2, <2>3, <2>4, <2>5 DEF IInv
  <1>20. ASSUME NEW i \in Runnables, NEW o \in Outcomes, ServerDrained(i, o) PROVE IInv'
    <2>1. TypeOK'
      BY <1>20 DEF ServerDrained, TypeOK, RunStates, CloseStates, StopReason, Phase, CloseReturns
    <2>2. Phase'
      BY <1>20 DEF ServerDrained, TypeOK, Phase, RunStates, CloseStates, Results, Requests, CloseReturns
    <2>3. Results'
      BY <1>20 DEF ServerDrained, TypeOK, Results, RunStates, CloseStates, Phase, CloseReturns
    <2>4. Requests'
      BY <1>20 DEF ServerDrained, TypeOK, Requests, Phase, RunStates, CloseStates, CloseReturns
    <2>5. Causes'
      BY <1>20 DEF ServerDrained, TypeOK, Causes, StopReason, Phase, RunDone, AppDone, RunStates, CloseStates, CloseReturns
    <2> QED BY <2>1, <2>2, <2>3, <2>4, <2>5 DEF IInv
  <1>21. ASSUME NEW i \in Runnables, CloseRecorded(i) PROVE IInv'
    <2>1. TypeOK'
      BY <1>21 DEF CloseRecorded, TypeOK, RunStates, CloseStates, StopReason, Phase
    <2>2. Phase'
      BY <1>21 DEF CloseRecorded, TypeOK, Phase, RunStates, CloseStates, Results, Requests
    <2>3. Results'
      BY <1>21 DEF CloseRecorded, TypeOK, Results, RunStates, CloseStates, Phase
    <2>4. Requests'
      BY <1>21 DEF CloseRecorded, TypeOK, Requests, Phase, RunStates, CloseStates
    <2>5. Causes'
      BY <1>21 DEF CloseRecorded, TypeOK, Causes, StopReason, Phase, RunDone, AppDone, RunStates, CloseStates
    <2> QED BY <2>1, <2>2, <2>3, <2>4, <2>5 DEF IInv
  <1>22. ASSUME NEW i \in Runnables, RequestStarts(i) PROVE IInv'
    <2>1. TypeOK'
      BY <1>22 DEF RequestStarts, TypeOK, RunStates, CloseStates, StopReason, Phase
    <2>2. Phase'
      BY <1>22 DEF RequestStarts, TypeOK, Phase, RunStates, CloseStates, Results, Requests
    <2>3. Results'
      BY <1>22 DEF RequestStarts, TypeOK, Results, RunStates, CloseStates, Phase
    <2>4. Requests'
      BY <1>22 DEF RequestStarts, TypeOK, Requests, Phase, RunStates, CloseStates
    <2>5. Causes'
      BY <1>22 DEF RequestStarts, TypeOK, Causes, StopReason, Phase, RunDone, AppDone, RunStates, CloseStates
    <2> QED BY <2>1, <2>2, <2>3, <2>4, <2>5 DEF IInv
  <1>23. ASSUME NEW i \in Runnables, RequestEnds(i) PROVE IInv'
    <2>1. TypeOK'
      BY <1>23 DEF RequestEnds, TypeOK, RunStates, CloseStates, StopReason, Phase
    <2>2. Phase'
      BY <1>23 DEF RequestEnds, TypeOK, Phase, RunStates, CloseStates, Results, Requests
    <2>3. Results'
      BY <1>23 DEF RequestEnds, TypeOK, Results, RunStates, CloseStates, Phase
    <2>4. Requests'
      BY <1>23 DEF RequestEnds, TypeOK, Requests, Phase, RunStates, CloseStates
    <2>5. Causes'
      BY <1>23 DEF RequestEnds, TypeOK, Causes, StopReason, Phase, RunDone, AppDone, RunStates, CloseStates
    <2> QED BY <2>1, <2>2, <2>3, <2>4, <2>5 DEF IInv
  <1>24. CASE UNCHANGED vars
    BY <1>24 DEF vars, TypeOK, Phase, Results, Requests, Causes, StopReason
  <1> QED
    BY <1>1, <1>2, <1>3, <1>4, <1>5, <1>6, <1>7, <1>8, <1>9, <1>10, <1>11, <1>12, <1>13, <1>14, <1>15, <1>16, <1>17, <1>18, <1>19, <1>20, <1>21, <1>22, <1>23, <1>24 DEF Next, Main, Running, Closing

-----------------------------------------------------------------------------
(* The inductive invariant holds in every reachable state.                 *)
THEOREM Invariance == Spec => []IInv
  BY InitIInv, NextIInv, PTL DEF Spec

(* Every variable of the runner stays in its type.                         *)
THEOREM TypeCorrect == Spec => []TypeOK
  <1>1. IInv => TypeOK
    BY DEF IInv
  <1> QED BY <1>1, Invariance, PTL

(* When AppRunner.Run returns after it started the modules, every Run()    *)
(* and every Close() is over and no request is in flight.                  *)
THEOREM ExitQuiescence == Spec => []ExitIsQuiescent
  <1>1. IInv => ExitIsQuiescent
    BY DEF IInv, TypeOK, Phase, Requests, ExitIsQuiescent, Launched, Over
  <1> QED BY <1>1, Invariance, PTL

(* The exit code is 0 exactly when no Run() and no Close() failed.         *)
THEOREM ExitCodeTruth == Spec => []ExitCodeIsTruth
  <1>1. IInv => ExitCodeIsTruth
    <2> SUFFICES ASSUME IInv, pc = "exited", Launched
                 PROVE exitCode = 0 <=> \A i \in Runnables : runRes[i] # "err" /\ closeRes[i] # "err"
      BY DEF ExitCodeIsTruth
    <2>1. /\ \A i \in Runnables : run[i] = "recorded" /\ close[i] = "recorded"
          /\ exitCode = IF errs = {} THEN 0 ELSE 1
      BY DEF IInv, Phase, Launched
    <2>2. errs = {} <=> \A i \in Runnables : i \notin errs
      BY DEF IInv, TypeOK
    <2>3. \A i \in Runnables : i \in errs <=> (runRes[i] = "err" \/ closeRes[i] = "err")
      BY <2>1 DEF IInv, Results
    <2> QED BY <2>1, <2>2, <2>3
  <1> QED BY <1>1, Invariance, PTL

(* Close() of a module is called only when Close() of all later ones is    *)
(* over.                                                                   *)
THEOREM ReverseClosing == Spec => []ClosedInReverse
  <1>1. IInv => ClosedInReverse
    BY NAssumption DEF IInv, TypeOK, Phase, ClosedInReverse, Over, Runnables, CloseStates
  <1> QED BY <1>1, Invariance, PTL

(* No module is closed while a later server still serves a request.        *)
THEOREM DependencySafety == Spec => []DependenciesOutliveRequests
  <1>1. IInv /\ ClosedInReverse => DependenciesOutliveRequests
    BY DEF IInv, Requests, ClosedInReverse, DependenciesOutliveRequests, Over
  <1> QED BY <1>1, Invariance, ReverseClosing, PTL

(* Nothing is closed without an interrupt or a Run() that is over.         *)
THEOREM JustifiedShutdown == Spec => []NoSpuriousShutdown
  <1>1. IInv => NoSpuriousShutdown
    BY DEF IInv, TypeOK, Phase, Causes, NoSpuriousShutdown
  <1> QED BY <1>1, Invariance, PTL
=============================================================================
