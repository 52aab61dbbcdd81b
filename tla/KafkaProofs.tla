----------------------------- MODULE KafkaProofs -----------------------------
(***************************************************************************)
(* The Kafka clients, for all sets of partitions, producers, prefixes and  *)
(* messages. kafka.ConcurrentPartitionConsumer: what Close, Setup and      *)
(* Cleanup promise, with and without retries. kafkamod.Consumer: Close is  *)
(* final. The producers: a prefix has one owner. Every step of             *)
(* kafkamod.Consumer and kafkamod.Producer is a step, or a stutter, of     *)
(* ModuleContract.                                                         *)
(***************************************************************************)
EXTENDS PartitionConsumer, TLAPS

(* run counts itself in the wait group from Add(1) to Done, and a session  *)
(* exists only inside its call of client.Consume.                          *)
RunCounted ==
    /\ waitGroup = (IF runPc \in Consuming \cup {"added"} THEN 1 ELSE 0)
    /\ session # "idle" => runPc = "consume"
    /\ session \notin {"open", "releasing"} => \A p \in Partitions : claim[p] = "none"

(* Close holds runSetupMutex from the cancellation to its return, and once *)
(* Wait is over no attempt of run gets past the mutex.                     *)
CloseLocks ==
    /\ mutex = "close" <=> closePc \in {"locked", "waiting", "woken", "passed"}
    /\ closePc = "passed" => runPc \notin Consuming

(* Without retries run is executed once: it has no cancel function before  *)
(* the loop, Close needs one, and the client is closed at the end.         *)
OneAttempt ==
    ~retryEnabled =>
        /\ runPc # "sleep"
        /\ runPc \in {"idle", "init", "added"} => ~hasCancel
        /\ closePc \notin {"idle", "panicked"} => hasCancel
        /\ runPc = "returned" => client = "nil"
        /\ closePc \in {"passed", "returned"} => runPc = "returned"

(* In a session the handler that was there when it began, and is still     *)
(* there, has been set up, and no other handler is owed a Cleanup, except  *)
(* for the ones swapped in a session.                                      *)
HandlerPaired ==
    \A h \in Handlers \ swapped :
        /\ owed[h] = "setup" => h = groupHandler
        /\ h = groupHandler /\ session \in {"open", "releasing"} => owed[h] = "setup"

IInv ==
    TypeOK /\ RunCounted /\ CloseLocks /\ OneAttempt /\ SetupMeetsCleanup /\ HandlerPaired

-----------------------------------------------------------------------------
(* The initial states satisfy the invariant.                               *)
LEMMA InitIInv == Init => IInv
  <1> SUFFICES ASSUME Init PROVE IInv
    OBVIOUS
  <1>1. GroupTypeOK
    BY DEF Init, GroupInit, GroupTypeOK, SessionStates, ClaimStates
  <1>2. /\ retryEnabled \in BOOLEAN /\ runErr \in BOOLEAN /\ hasCancel \in BOOLEAN
        /\ cancelled \in BOOLEAN /\ registered \in BOOLEAN /\ handlerFailed \in BOOLEAN
    BY Zenon DEF Init
  <1>3. TypeOK
    BY <1>1, <1>2 DEF Init, TypeOK, Consuming
  <1>4. RunCounted /\ CloseLocks /\ OneAttempt /\ SetupMeetsCleanup /\ HandlerPaired
    BY DEF Init, GroupInit, RunCounted, CloseLocks, OneAttempt, SetupMeetsCleanup,
       HandlerPaired, Consuming
  <1> QED BY <1>3, <1>4 DEF IInv

(* Run and Close keep the invariant where they leave sarama's state and    *)
(* the group handlers alone.                                               *)
LEMMA ControlIInv ==
  ASSUME IInv,
         \/ RunCalled \/ InitClient \/ InitClientFails \/ SetupRun \/ RunEnds \/ Retry
         \/ Close \/ UNCHANGED vars
  PROVE  IInv'
  <1> USE DEF IInv, TypeOK, RunCounted, CloseLocks, OneAttempt, Consuming, restVars,
            lockVars, ctxVars, runVars
  <1>1. UNCHANGED <<session, claim, groupHandler, owed, swapped, handlerFailed>>
    BY DEF RunCalled, InitClient, InitClientFails, SetupRun, RunEnds, Retry,
       Close, CloseCancels, CloseWaits, CloseWakes, CloseReturns, vars, groupVars,
       handlerVars
  <1>2. GroupTypeOK' /\ SetupMeetsCleanup' /\ HandlerPaired'
    BY <1>1 DEF GroupTypeOK, SetupMeetsCleanup, HandlerPaired
  <1> USE <1>1, <1>2
  <1>3. CASE RunCalled
    BY <1>3 DEF RunCalled
  <1>4. CASE InitClient
    BY <1>4 DEF InitClient
  <1>5. CASE InitClientFails
    BY <1>5 DEF InitClientFails
  <1>6. CASE SetupRun
    BY <1>6 DEF SetupRun
  <1>7. CASE RunEnds
    BY <1>7 DEF RunEnds
  <1>8. CASE Retry
    BY <1>8 DEF Retry
  <1>9. CASE CloseCancels
    <2>1. CASE hasCancel
      <3>1. /\ closePc' = "locked" /\ mutex' = "close" /\ cancelled' = TRUE
            /\ closePc = "idle" /\ mutex = "free"
            /\ UNCHANGED <<retryEnabled, registered, runPc, runErr, waitGroup, client, hasCancel>>
        BY <1>9, <2>1 DEF CloseCancels
      <3>2. cancelled' \in BOOLEAN
        BY <3>1
      <3> QED BY <2>1, <3>1, <3>2
    <2>2. CASE ~hasCancel
      BY <1>9, <2>2 DEF CloseCancels
    <2> QED BY <2>1, <2>2
  <1>10. CASE CloseWaits
    BY <1>10 DEF CloseWaits
  <1>11. CASE CloseWakes
    BY <1>11 DEF CloseWakes
  <1>12. CASE CloseReturns
    <2>1. /\ closePc = "passed" /\ closePc' \in {"returned", "panicked"} /\ mutex' = "free"
          /\ UNCHANGED <<retryEnabled, runPc, runErr, waitGroup, client, hasCancel, cancelled>>
      BY <1>12 DEF CloseReturns
    <2>2. registered' \in BOOLEAN
      BY <1>12 DEF CloseReturns
    <2> QED BY <2>1, <2>2
  <1>13. CASE UNCHANGED vars
    BY <1>13 DEF vars
  <1> QED
    BY <1>3, <1>4, <1>5, <1>6, <1>7, <1>8, <1>9, <1>10, <1>11, <1>12, <1>13 DEF Close

(* So does a new group handler: in a session it is one of the swapped.     *)
LEMMA SetHandlerIInv ==
  ASSUME IInv, NEW handler \in Handlers \cup {Nil}, SetConsumerGroupHandler(handler)
  PROVE  IInv'
  <1> USE DEF SetConsumerGroupHandler
  <1>1. /\ UNCHANGED <<session, claim, retryEnabled, registered, runPc, runErr, closePc, mutex,
                       waitGroup, client, hasCancel, cancelled, owed, handlerFailed>>
        /\ groupHandler' = handler
    BY DEF groupVars, restVars, runVars, lockVars, ctxVars
  <1>2. swapped' \in SUBSET Handlers
    BY DEF IInv, TypeOK
  <1>3. TypeOK'
    BY <1>1, <1>2 DEF IInv, TypeOK, GroupTypeOK
  <1>4. SetupMeetsCleanup' /\ HandlerPaired'
    BY NilAssumption, <1>1 DEF IInv, TypeOK, SetupMeetsCleanup, HandlerPaired
  <1>5. RunCounted' /\ CloseLocks' /\ OneAttempt'
    BY <1>1 DEF IInv, RunCounted, CloseLocks, OneAttempt
  <1> QED BY <1>3, <1>4, <1>5 DEF IInv

(* Calling client.Consume and taking its result keep the invariant.        *)
LEMMA ConsumeIInv ==
  ASSUME IInv, Consume \/ ConsumeDone
  PROVE  IInv'
  <1> USE DEF IInv, TypeOK, RunCounted, CloseLocks, OneAttempt, Consuming, restVars,
            lockVars, ctxVars, handlerVars
  <1>1. GroupTypeOK'
    BY DEF Consume, ConsumeDone, ConsumeCalled, ConsumeReturned, GroupTypeOK,
       SessionStates
  <1>2. SetupMeetsCleanup' /\ HandlerPaired'
    BY DEF Consume, ConsumeDone, ConsumeCalled, ConsumeReturned, SetupMeetsCleanup,
       HandlerPaired
  <1>3. CASE Consume
    BY <1>1, <1>2, <1>3 DEF Consume, ConsumeCalled
  <1>4. CASE ConsumeDone
    <2>1. runErr' \in BOOLEAN
      BY <1>4 DEF ConsumeDone
    <2> QED BY <1>1, <1>2, <1>4, <2>1 DEF ConsumeDone, ConsumeReturned
  <1> QED BY <1>3, <1>4

(* The steps of sarama and of the callbacks.                               *)
GroupStep ==
    Setup \/ Cleanup \/ Sarama \/ \E p \in Partitions : Handled(p) \/ HandlerFails(p)

(* They keep the invariant: they happen inside client.Consume, and Cleanup *)
(* runs before it returns.                                                 *)
LEMMA GroupIInv ==
  ASSUME IInv, GroupStep
  PROVE  IInv'
  <1> USE DEF IInv, RunCounted
  <1> DEFINE Kept ==
        /\ UNCHANGED <<retryEnabled, registered, runPc, runErr, closePc, mutex, waitGroup,
                       client, hasCancel, groupHandler>>
        /\ session # "idle" /\ session' # "idle"
        /\ session' \notin {"open", "releasing"} => \A p \in Partitions : claim'[p] = "none"
        /\ owed' \in [Handlers -> {"none", "setup", "unpaired"}]
        /\ swapped' \in SUBSET Handlers
        /\ SetupMeetsCleanup' /\ HandlerPaired'
        /\ GroupTypeOK'
  <1>1. Kept
    <2> USE DEF TypeOK, GroupTypeOK, SessionStates, ClaimStates, restVars,
              runVars, lockVars, ctxVars, handlerVars
    <2>1. CASE Setup
      BY <2>1 DEF Setup, Joined, SetupMeetsCleanup, HandlerPaired
    <2>2. CASE Cleanup
      BY <2>2 DEF Cleanup, Released, SetupMeetsCleanup, HandlerPaired
    <2>3. CASE Sarama
      <3>1. CASE JoinFails
        BY <2>3, <3>1 DEF Sarama, JoinFails, SetupMeetsCleanup, HandlerPaired
      <3>2. CASE SessionEnds
        BY <2>3, <3>2 DEF Sarama, SessionEnds, SetupMeetsCleanup, HandlerPaired
      <3>3. ASSUME NEW p \in Partitions,
                   ClaimStarts(p, "waiting") \/ MessageArrives(p) \/ MessagesClosed(p)
            PROVE  Kept
        BY <2>3, <3>3 DEF Sarama, ClaimStarts, MessageArrives, MessagesClosed,
           ClaimExits, SetupMeetsCleanup, HandlerPaired
      <3> QED BY <2>3, <3>1, <3>2, <3>3 DEF Sarama
    <2>4. ASSUME NEW p \in Partitions, Handled(p) \/ HandlerFails(p)
          PROVE  Kept
      BY <2>4 DEF Handled, HandlerFails, ClaimExits, SetupMeetsCleanup, HandlerPaired
    <2> QED BY <2>1, <2>2, <2>3, <2>4 DEF GroupStep
  <1>2. cancelled' \in BOOLEAN /\ handlerFailed' \in BOOLEAN
    BY DEF GroupStep, Setup, Cleanup, Sarama, Handled, HandlerFails,
       TypeOK, ctxVars, handlerVars
  <1>3. TypeOK'
    BY <1>1, <1>2 DEF TypeOK
  <1>4. RunCounted' /\ SetupMeetsCleanup' /\ HandlerPaired'
    BY <1>1
  <1>5. CloseLocks' /\ OneAttempt'
    BY <1>1 DEF CloseLocks, OneAttempt
  <1> QED BY <1>3, <1>4, <1>5

(* IInv holds in every state of every behaviour.                           *)
LEMMA Invariance == Spec => []IInv
  <1>1. IInv /\ [Next]_vars => IInv'
    BY ControlIInv, SetHandlerIInv, ConsumeIInv, GroupIInv DEF Next, Run, GroupStep
  <1> QED BY InitIInv, <1>1, PTL DEF Spec

(* Without retries nothing is consumed after Close has returned.           *)
THEOREM NothingAfterClose == Spec => []ClosedForGood
  <1>1. IInv => ClosedForGood
    BY DEF IInv, ClosedForGood, OneAttempt, RunCounted
  <1> QED BY Invariance, <1>1, PTL

(* A handler that stays c.groupHandler for a session gets its Setup and    *)
(* its Cleanup; a handler put in or taken out in a session is the only one *)
(* that may miss a Cleanup, or get one without a Setup.                    *)
THEOREM CleanupFollowsSetup == Spec => []SetupMeetsCleanup
  <1>1. IInv => SetupMeetsCleanup
    BY DEF IInv
  <1> QED BY Invariance, <1>1, PTL

(* With and without retries, no handler runs and no session is open at the *)
(* moment when Close returns.                                              *)
THEOREM QuietClose == Spec => CloseReturnsQuietly
  <1>1. IInv /\ [Next]_vars =>
          [closePc # "returned" /\ closePc' = "returned" =>
              session = "idle" /\ \A p \in Partitions : claim[p] = "none"]_vars
    <2> SUFFICES ASSUME IInv, [Next]_vars, closePc # "returned", closePc' = "returned"
                 PROVE  session = "idle" /\ \A p \in Partitions : claim[p] = "none"
      OBVIOUS
    <2>1. CloseReturns
      BY DEF Next, Run, RunCalled, InitClient, InitClientFails, SetupRun,
         Consume, ConsumeDone, RunEnds, Retry, Close, CloseCancels,
         CloseWaits, CloseWakes, Setup, Cleanup, SetConsumerGroupHandler,
         Sarama, Handled, HandlerFails, vars
    <2> QED BY <2>1 DEF CloseReturns, IInv, CloseLocks, RunCounted, Consuming
  <1> QED BY Invariance, <1>1, PTL DEF Spec, CloseReturnsQuietly

-----------------------------------------------------------------------------
(* kafkamod.Consumer uses the same consumer group. Its module is           *)
(* instantiated here with the variables that both name alike, and with     *)
(* these for the others.                                                   *)
VARIABLES preClaim, initPc, prefix, ready, runRes, consumePc, starts, errCh, fault

CM == INSTANCE ConsumerModule

(* A session exists only inside the call of Consume, and claims only while *)
(* it is open or being released.                                           *)
SessionInConsume ==
    /\ session # "idle" => consumePc = "consume"
    /\ session \notin {"open", "releasing"} => \A p \in Partitions : claim[p] = "none"

(* The order of Init, consume, Run and Close: consume begins once, after   *)
(* Init; Run takes the result that consume sent as its last step, and      *)
(* Close waits for Run.                                                    *)
Lifecycle ==
    /\ starts = 0 <=> consumePc = "none"
    /\ initPc # "ready" => starts = 0 /\ runPc = "idle" /\ closePc = "idle"
    /\ runPc # "idle" => starts = 1
    /\ errCh # "empty" => consumePc = "sent"
    /\ runPc = "returned" => consumePc = "sent"
    /\ closePc = "returned" => runPc = "returned"

(* Why consume ends: the context is cancelled only by Close or a failing   *)
(* handler, and Consume fails only then or because of a fault.             *)
EndHasReason ==
    /\ cancelled => closePc # "idle" \/ handlerFailed
    /\ session = "failed" => fault \/ cancelled
    /\ consumePc = "sent" => closePc # "idle" \/ fault \/ handlerFailed

ModuleInv == CM!TypeOK /\ SessionInConsume /\ Lifecycle /\ EndHasReason

-----------------------------------------------------------------------------
(* The initial states satisfy the invariant.                               *)
LEMMA ModuleInit == CM!Init => ModuleInv
  <1> SUFFICES ASSUME CM!Init PROVE ModuleInv
    OBVIOUS
  <1>1. CM!GroupTypeOK
    BY DEF CM!Init, CM!GroupInit, CM!GroupTypeOK, CM!SessionStates, CM!ClaimStates
  <1>2. CM!TypeOK
    <2>1. /\ preClaim \in BOOLEAN /\ ready \in BOOLEAN /\ cancelled \in BOOLEAN
          /\ fault \in BOOLEAN /\ handlerFailed \in BOOLEAN
      BY Zenon DEF CM!Init
    <2> QED BY <1>1, <2>1 DEF CM!Init, CM!TypeOK
  <1>3. SessionInConsume /\ Lifecycle /\ EndHasReason
    BY DEF CM!Init, CM!GroupInit, SessionInConsume, Lifecycle, EndHasReason
  <1> QED BY <1>2, <1>3 DEF ModuleInv

(* Init, Run and Close keep the invariant: they leave sarama's state alone.*)
LEMMA ModuleControl ==
  ASSUME ModuleInv,
         CM!InitOk \/ CM!InitRejected \/ CM!InitClientFails \/ CM!Run \/ CM!Close \/ UNCHANGED CM!vars
  PROVE  ModuleInv'
  <1> USE DEF ModuleInv
  <1>1. UNCHANGED CM!groupVars
    BY DEF CM!InitOk, CM!InitRejected, CM!InitClientFails, CM!Run, CM!RunStarts, CM!RunReturns,
       CM!Close, CM!CloseCancels, CM!CloseFinishes, CM!vars
  <1>2. CM!GroupTypeOK'
    BY <1>1 DEF CM!TypeOK, CM!GroupTypeOK, CM!groupVars
  <1>3. CASE CM!InitOk
    BY <1>1, <1>2, <1>3
       DEF CM!InitOk, CM!runVars, CM!groupVars, CM!TypeOK, SessionInConsume, Lifecycle,
           EndHasReason
  <1>4. CASE CM!InitRejected \/ CM!InitClientFails
    BY <1>1, <1>2, <1>4
       DEF CM!InitRejected, CM!InitClientFails, CM!runVars, CM!consumeVars, CM!groupVars,
           CM!TypeOK, SessionInConsume, Lifecycle, EndHasReason
  <1>5. CASE CM!RunStarts
    BY <1>1, <1>2, <1>5
       DEF CM!RunStarts, CM!moduleVars, CM!groupVars, CM!TypeOK, SessionInConsume, Lifecycle,
           EndHasReason
  <1>6. CASE CM!RunReturns
    BY <1>1, <1>2, <1>6
       DEF CM!RunReturns, CM!moduleVars, CM!groupVars, CM!TypeOK, SessionInConsume, Lifecycle,
           EndHasReason
  <1>7. CASE CM!CloseCancels
    BY <1>1, <1>2, <1>7
       DEF CM!CloseCancels, CM!moduleVars, CM!runVars, CM!consumeVars, CM!groupVars, CM!TypeOK,
           SessionInConsume, Lifecycle, EndHasReason
  <1>8. CASE CM!CloseFinishes
    BY <1>1, <1>2, <1>8
       DEF CM!CloseFinishes, CM!runVars, CM!consumeVars, CM!groupVars, CM!TypeOK,
           SessionInConsume, Lifecycle, EndHasReason
  <1>9. CASE UNCHANGED CM!vars
    BY <1>1, <1>2, <1>9
       DEF CM!vars, CM!groupVars, CM!TypeOK, SessionInConsume, Lifecycle, EndHasReason
  <1> QED BY <1>3, <1>4, <1>5, <1>6, <1>7, <1>8, <1>9 DEF CM!Run, CM!Close

(* Calling Consume and taking its result keep the invariant.               *)
LEMMA ModuleConsume ==
  ASSUME ModuleInv, CM!Consume \/ CM!ConsumeDone
  PROVE  ModuleInv'
  <1> USE DEF ModuleInv
  <1>1. CM!GroupTypeOK' /\ UNCHANGED claim
    BY DEF CM!Consume, CM!ConsumeDone, CM!ConsumeCalled, CM!ConsumeReturned, CM!TypeOK,
       CM!GroupTypeOK, CM!SessionStates
  <1>2. CASE CM!Consume
    BY <1>1, <1>2
       DEF CM!Consume, CM!ConsumeCalled, CM!moduleVars, CM!runVars, CM!TypeOK, SessionInConsume,
           Lifecycle, EndHasReason
  <1>3. CASE CM!ConsumeDone
    BY <1>1, <1>3
       DEF CM!ConsumeDone, CM!ConsumeReturned, CM!moduleVars, CM!runVars, CM!TypeOK,
           SessionInConsume, Lifecycle, EndHasReason
  <1> QED BY <1>2, <1>3

(* What sarama and the callbacks do: the module's own control stays, and   *)
(* the state of the group is as the module relies on.                      *)
ModuleGroupStep ==
    \/ CM!BrokerFails \/ CM!JoinCancelled \/ CM!SessionReleased \/ CM!Sarama
    \/ \E p \in Partitions : CM!ConsumeClaim(p) \/ CM!Forward(p) \/ CM!Handled(p) \/ CM!HandlerFails(p)

(* A step of the group happens inside Consume: the types and the claims of *)
(* the group stay right, the module's own control stays, and a failure is  *)
(* explained.                                                              *)
LEMMA ModuleGroupFacts ==
  ASSUME ModuleInv, ModuleGroupStep
  PROVE  /\ session # "idle" /\ session' # "idle"
         /\ CM!GroupTypeOK'
         /\ session' \notin {"open", "releasing"} => \A p \in Partitions : claim'[p] = "none"
         /\ session' = "failed" => fault' \/ cancelled
         /\ UNCHANGED CM!sameModule
         /\ fault' \in BOOLEAN /\ cancelled' \in BOOLEAN /\ handlerFailed' \in BOOLEAN
         /\ fault => fault'
         /\ cancelled => cancelled'
         /\ handlerFailed => handlerFailed'
         /\ cancelled' => cancelled \/ handlerFailed'
  <1> USE DEF ModuleInv
  <1>1. CASE CM!BrokerFails \/ CM!JoinCancelled
    <2>1. /\ session = "joining" /\ session' = "failed" /\ UNCHANGED claim
          /\ UNCHANGED <<CM!sameModule, cancelled, handlerFailed>>
      BY <1>1 DEF CM!BrokerFails, CM!JoinCancelled, CM!JoinFails
    <2>2. fault' = TRUE \/ (cancelled /\ fault' = fault)
      BY <1>1 DEF CM!BrokerFails, CM!JoinCancelled
    <2>3. CM!GroupTypeOK'
      BY <2>1 DEF CM!TypeOK, CM!GroupTypeOK, CM!SessionStates
    <2>4. fault' \in BOOLEAN /\ (session' = "failed" => fault' \/ cancelled) /\ (fault => fault')
      BY <2>2, Zenon DEF CM!TypeOK
    <2> QED BY <2>1, <2>3, <2>4 DEF CM!TypeOK, SessionInConsume
  <1>2. CASE CM!SessionReleased
    BY <1>2 DEF CM!SessionReleased, CM!Released, CM!TypeOK, CM!GroupTypeOK, CM!SessionStates,
       CM!ClaimStates
  <1>3. CASE CM!Sarama
    <2>1. CASE CM!Joined
      BY <1>3, <2>1 DEF CM!Sarama, CM!Joined, CM!TypeOK, CM!GroupTypeOK, CM!SessionStates,
         CM!ClaimStates
    <2>2. CASE CM!SessionEnds
      BY <1>3, <2>2 DEF CM!Sarama, CM!SessionEnds, CM!TypeOK, CM!GroupTypeOK, CM!SessionStates
    <2>3. CASE \E p \in Partitions : CM!MessageArrives(p) \/ CM!MessagesClosed(p)
      BY <1>3, <2>3 DEF CM!Sarama, CM!MessageArrives, CM!MessagesClosed, CM!ClaimExits,
         CM!TypeOK, CM!GroupTypeOK, CM!SessionStates, CM!ClaimStates, SessionInConsume,
         EndHasReason
    <2> QED BY <1>3, <2>1, <2>2, <2>3 DEF CM!Sarama
  <1>4. CASE \E p \in Partitions : CM!ConsumeClaim(p) \/ CM!Forward(p) \/ CM!Handled(p)
    BY <1>4 DEF CM!ConsumeClaim, CM!ClaimStarts, CM!Forward, CM!Handled, CM!TypeOK,
       CM!GroupTypeOK, CM!ClaimStates, SessionInConsume, EndHasReason
  <1>5. CASE \E p \in Partitions : CM!HandlerFails(p)
    BY <1>5 DEF CM!HandlerFails, CM!ClaimExits, CM!TypeOK, CM!GroupTypeOK, CM!SessionStates,
       CM!ClaimStates, SessionInConsume, EndHasReason
  <1> QED BY <1>1, <1>2, <1>3, <1>4, <1>5 DEF ModuleGroupStep

(* The steps of the group keep the invariant.                              *)
LEMMA ModuleGroup ==
  ASSUME ModuleInv, ModuleGroupStep
  PROVE  ModuleInv'
  <1> USE ModuleGroupFacts DEF ModuleInv
  <1>1. UNCHANGED <<preClaim, initPc, prefix, client, runPc, runRes, ready, consumePc, starts,
                    errCh, closePc>>
    BY DEF CM!sameModule, CM!moduleVars, CM!runVars, CM!consumeVars
  <1>2. CM!TypeOK'
    BY <1>1 DEF CM!TypeOK
  <1>3. SessionInConsume'
    BY <1>1 DEF SessionInConsume
  <1>4. Lifecycle'
    BY <1>1 DEF Lifecycle
  <1>5. EndHasReason'
    BY <1>1 DEF EndHasReason
  <1> QED BY <1>2, <1>3, <1>4, <1>5

(* Every step of Next keeps the invariant.                                 *)
LEMMA ModuleNext == ModuleInv /\ [CM!Next]_(CM!vars) => ModuleInv'
  BY ModuleControl, ModuleConsume, ModuleGroup DEF CM!Next, ModuleGroupStep

(* ModuleInv holds in every state of every behaviour.                           *)
LEMMA ModuleInvariance == CM!Spec => []ModuleInv
  BY ModuleInit, ModuleNext, PTL DEF CM!Spec

-----------------------------------------------------------------------------
(* When Close has returned, consume is over, and neither a session nor a   *)
(* claim of the group is left.                                             *)
THEOREM FinalClose == CM!Spec => []CM!CloseIsFinal
  <1>1. ModuleInv => CM!CloseIsFinal
    BY DEF ModuleInv, CM!CloseIsFinal, Lifecycle, SessionInConsume
  <1> QED BY ModuleInvariance, <1>1, PTL

-----------------------------------------------------------------------------
(* The initial states of the consumer are initial states of a module.      *)
LEMMA ConsumerInitRefines == CM!Init => CM!Contract!Init
  BY DEF CM!Init, CM!Contract!Init

(* Every step of the consumer is one that a module may take: consuming     *)
(* begins in Init or Run, ends only with a reason, Run returns after it,   *)
(* Close after Run, and only a step of the group breaks the module.        *)
LEMMA ConsumerNextRefines == ModuleInv /\ [CM!Next]_(CM!vars) => [CM!Contract!Next]_(CM!Contract!vars)
  <1> SUFFICES ASSUME ModuleInv, [CM!Next]_(CM!vars) PROVE [CM!Contract!Next]_(CM!Contract!vars)
    OBVIOUS
  <1> USE DEF ModuleInv, CM!Contract!vars
  <1>1. CASE CM!InitOk \/ CM!InitRejected \/ CM!InitClientFails
    <2>1. CM!Contract!InitReturns
      BY <1>1 DEF CM!InitOk, CM!InitRejected, CM!InitClientFails, CM!runVars, CM!consumeVars,
         CM!Contract!InitReturns
    <2> QED BY <2>1 DEF CM!Contract!Next
  <1>2. CASE CM!RunStarts
    <2>1. closePc # "returned"
      BY <1>2 DEF CM!RunStarts, Lifecycle
    <2>2. CM!Contract!RunCalled
      BY <1>2, <2>1 DEF CM!RunStarts, CM!moduleVars, CM!Contract!RunCalled
    <2> QED BY <2>2 DEF CM!Contract!Next
  <1>3. CASE CM!RunReturns
    <2>1. CM!Contract!RunReturns
      BY <1>3 DEF CM!RunReturns, CM!moduleVars, Lifecycle, EndHasReason, CM!Contract!RunReturns,
         CM!Contract!MayEnd
    <2> QED BY <2>1 DEF CM!Contract!Next
  <1>4. CASE CM!Consume
    BY <1>4 DEF CM!Consume, CM!moduleVars, CM!runVars
  <1>5. CASE CM!ConsumeDone
    <2>1. CASE consumePc' = "sent"
      <3>1. CM!Contract!Stops
        BY <1>5, <2>1 DEF CM!ConsumeDone, CM!moduleVars, CM!runVars, EndHasReason,
           CM!Contract!Stops, CM!Contract!MayEnd
      <3> QED BY <3>1 DEF CM!Contract!Next
    <2>2. CASE consumePc' # "sent"
      BY <1>5, <2>2 DEF CM!ConsumeDone, CM!moduleVars, CM!runVars
    <2> QED BY <2>1, <2>2
  <1>6. CASE CM!CloseCancels
    <2>1. CM!Contract!CloseCalled
      BY <1>6 DEF CM!CloseCancels, CM!moduleVars, CM!runVars, CM!consumeVars,
         CM!Contract!CloseCalled
    <2> QED BY <2>1 DEF CM!Contract!Next
  <1>7. CASE CM!CloseFinishes
    <2>1. CM!Contract!CloseReturns
      BY <1>7 DEF CM!CloseFinishes, CM!runVars, CM!consumeVars, Lifecycle,
         CM!Contract!CloseReturns
    <2> QED BY <2>1 DEF CM!Contract!Next
  <1>8. CASE ModuleGroupStep
    <2>1. initPc = "ready"
      BY <1>8, ModuleGroupFacts DEF SessionInConsume, Lifecycle
    <2>2. /\ UNCHANGED <<initPc, runPc, closePc, consumePc>>
          /\ fault \/ handlerFailed => fault' \/ handlerFailed'
      BY <1>8, ModuleGroupFacts DEF CM!sameModule, CM!moduleVars, CM!runVars, CM!consumeVars
    <2>3. CASE (fault' \/ handlerFailed') /\ ~(fault \/ handlerFailed)
      <3>1. CM!Contract!Breaks
        BY <2>1, <2>2, <2>3 DEF CM!Contract!Breaks
      <3> QED BY <3>1 DEF CM!Contract!Next
    <2>4. CASE ~((fault' \/ handlerFailed') /\ ~(fault \/ handlerFailed))
      BY <2>2, <2>4
    <2> QED BY <2>3, <2>4
  <1>9. CASE UNCHANGED CM!vars
    BY <1>9 DEF CM!vars
  <1> QED
    BY <1>1, <1>2, <1>3, <1>4, <1>5, <1>6, <1>7, <1>8, <1>9 DEF CM!Next, CM!Run, CM!Close,
       ModuleGroupStep

(* The safety part of ImplementsModule: whatever the group, the runner and *)
(* the handlers do, kafkamod.Consumer behaves as a module may.             *)
THEOREM ConsumerImplements == CM!Spec => CM!Contract!Safety
  BY ConsumerInitRefines, ConsumerNextRefines, ModuleInvariance, PTL DEF CM!Spec, CM!Contract!Safety

(* When Close of kafkamod.Consumer has returned nothing of it is at work,  *)
(* also if Run is called only then: what the runner takes from the module. *)
THEOREM ConsumerQuiet == CM!Spec => []CM!Contract!ClosedIsQuiet
  <1>1. ModuleInv => CM!Contract!ClosedIsQuiet
    BY DEF ModuleInv, Lifecycle, CM!Contract!ClosedIsQuiet
  <1> QED BY ModuleInvariance, <1>1, PTL

-----------------------------------------------------------------------------
(* The producers, whose module is instantiated in the same way. What it    *)
(* assumes of its constants is a hypothesis of the theorems here.          *)
CONSTANTS SyncProducers, AsyncProducers, ModuleProducer, Prefixes, Messages
VARIABLES pc, registry, chans, loop, msg, to, crashed

P == INSTANCE Producers

(* A producer that is not made yet owns nothing; one that is open has a    *)
(* prefix.                                                                 *)
MadeOwners ==
    \A p \in P!Producers :
        /\ pc[p] = "new" => \A x \in Prefixes : registry[x] # p
        /\ pc[p] = "open" => prefix[p] \in Prefixes

(* sarama shuts down only after Close, and closes the errors only when no  *)
(* message is counted, so that no answer comes after the channels were     *)
(* closed. Close of a synchronous producer has waited for that.            *)
ShutdownInOrder ==
    \A p \in P!Producers :
        /\ chans[p] # "open" => closePc[p] # "idle"
        /\ chans[p] \in {"errors", "all"} => P!Of(p, P!Counted) = {}
        /\ closePc[p] = "returned" /\ p \notin AsyncProducers => chans[p] = "all"

ProducersInv == P!ProducersDistinct /\ P!TypeOK /\ P!PrefixOwned /\ MadeOwners /\ ShutdownInOrder

-----------------------------------------------------------------------------
(* The initial states satisfy the invariant.                               *)
LEMMA ProducersInit == P!ProducersDistinct /\ P!Init => ProducersInv
  <1> SUFFICES ASSUME P!ProducersDistinct, P!Init PROVE ProducersInv
    OBVIOUS
  <1>1. P!TypeOK
    BY DEF P!Init, P!TypeOK
  <1>2. P!PrefixOwned /\ MadeOwners
    BY DEF P!ProducersDistinct, P!Init, P!PrefixOwned, MadeOwners
  <1>3. ShutdownInOrder
    BY DEF P!Init, ShutdownInOrder, P!Of
  <1> QED BY <1>1, <1>2, <1>3 DEF ProducersInv

(* Creating, closing and running a producer keep the types ...             *)
LEMMA ProducerType ==
  ASSUME P!TypeOK, NEW p \in P!Producers,
         P!Create(p) \/ P!ResponsesEnd(p) \/ P!Close(p) \/ P!Shutdown(p) \/ P!CloseReturns(p) \/ P!Run(p)
  PROVE  P!TypeOK'
  <1> USE DEF P!TypeOK
  <1>1. CASE P!Create(p)
    BY <1>1 DEF P!Create, P!Rejected, P!NewClientFails, P!NewProducer, P!Register
  <1>2. CASE P!ResponsesEnd(p) \/ P!CloseReturns(p)
    BY <1>2 DEF P!ResponsesEnd, P!CloseReturns
  <1>5. CASE P!Shutdown(p)
    <2>1. crashed' \in BOOLEAN
      BY <1>5, Zenon DEF P!Shutdown
    <2>2. chans' \in [P!Producers -> {"open", "flagged", "errors", "all"}]
      BY <1>5 DEF P!Shutdown
    <2> QED BY <1>5, <2>1, <2>2 DEF P!Shutdown
  <1>3. CASE P!Close(p)
    BY <1>3 DEF P!Close
  <1>4. CASE P!Run(p)
    BY <1>4 DEF P!Run, P!RunCalled, P!RunReturns
  <1> QED BY <1>1, <1>2, <1>3, <1>4, <1>5

(* ... and so does what happens to a message.                              *)
LEMMA MessageType ==
  ASSUME P!TypeOK, NEW m \in Messages,
         P!Answered(m) \/ P!Receive(m) \/ \E p \in P!Producers : P!Send(m, p)
  PROVE  P!TypeOK'
  <1> USE DEF P!TypeOK
  <1>1. CASE P!Answered(m)
    BY <1>1 DEF P!Answered, P!Counted
  <1>2. CASE P!Receive(m)
    BY <1>2 DEF P!Receive, P!Told, P!Response, P!Collect
  <1>3. CASE \E p \in P!Producers : P!Send(m, p)
    <2>1. PICK p \in P!Producers : P!Send(m, p)
      BY <1>3
    <2>2. crashed' \in BOOLEAN
      BY <2>1, Zenon DEF P!Send
    <2>3. msg' \in [Messages -> P!Counted \cup {"new", "refused", "acked", "logged", "returned"}]
      BY <2>1 DEF P!Send, P!Counted
    <2>4. to' \in [Messages -> P!Producers \cup {"none"}]
      BY <2>1 DEF P!Send
    <2> QED BY <2>1, <2>2, <2>3, <2>4 DEF P!Send
  <1> QED BY <1>1, <1>2, <1>3

-----------------------------------------------------------------------------
(* Registering a prefix that is free, before the producer is open, leaves  *)
(* the other owners alone.                                                 *)
LEMMA CreateOwned ==
  ASSUME ProducersInv, NEW p \in P!Producers, P!Create(p)
  PROVE  P!PrefixOwned' /\ MadeOwners'
  <1> USE DEF ProducersInv, P!ProducersDistinct, P!TypeOK
  <1>1. CASE P!Rejected(p)
    BY <1>1 DEF P!Rejected, P!PrefixOwned, MadeOwners
  <1>2. ASSUME NEW x \in Prefixes, P!NewClientFails(p, x) \/ P!NewProducer(p, x)
        PROVE  P!PrefixOwned' /\ MadeOwners'
    <2>1. /\ pc[p] = "new" /\ registry[x] = "free" /\ closePc' = closePc
          /\ registry' = [registry EXCEPT ![x] = p] /\ prefix' = [prefix EXCEPT ![p] = x]
          /\ pc' = [pc EXCEPT ![p] = "failed"] \/ pc' = [pc EXCEPT ![p] = "open"]
      BY <1>2 DEF P!NewClientFails, P!NewProducer, P!Register
    <2>2. closePc[p] = "idle"
      BY <2>1
    <2>3. MadeOwners'
      BY <2>1 DEF MadeOwners
    <2>4. ASSUME NEW q \in P!Producers, pc'[q] = "open", closePc'[q] = "idle"
          PROVE  registry'[prefix'[q]] = q
      <3>1. CASE q = p
        BY <2>1, <3>1
      <3>2. CASE q # p
        BY <2>1, <2>4, <3>2 DEF P!PrefixOwned, MadeOwners
      <3> QED BY <3>1, <3>2
    <2>5. ASSUME NEW y \in Prefixes, registry'[y] # "free"
          PROVE  /\ prefix'[registry'[y]] = y
                 /\ pc'[registry'[y]] = "failed" \/ closePc'[registry'[y]] = "idle"
      <3>1. CASE y = x
        BY <2>1, <2>2, <3>1
      <3>2. CASE y # x
        <4>1. registry'[y] = registry[y] /\ registry[y] # p /\ registry[y] \in P!Producers
          BY <2>1, <2>5, <3>2 DEF MadeOwners
        <4> QED BY <2>1, <2>5, <4>1 DEF P!PrefixOwned
      <3> QED BY <3>1, <3>2
    <2> QED BY <2>3, <2>4, <2>5 DEF P!PrefixOwned
  <1> QED BY <1>1, <1>2 DEF P!Create

(* Close frees the prefix of its own producer and no other one.            *)
LEMMA CloseOwned ==
  ASSUME ProducersInv, NEW p \in P!Producers, P!Close(p)
  PROVE  P!PrefixOwned' /\ MadeOwners'
  <1> USE DEF ProducersInv, P!ProducersDistinct, P!TypeOK
  <1>1. /\ pc[p] = "open" /\ prefix[p] \in Prefixes /\ registry[prefix[p]] = p
        /\ registry' = [registry EXCEPT ![prefix[p]] = "free"]
        /\ closePc' = [closePc EXCEPT ![p] = "waiting"]
        /\ UNCHANGED <<pc, prefix>>
    BY DEF P!Close, P!PrefixOwned, MadeOwners
  <1>2. MadeOwners'
    BY <1>1 DEF MadeOwners
  <1>3. ASSUME NEW q \in P!Producers, pc[q] = "open", closePc'[q] = "idle"
        PROVE  registry'[prefix[q]] = q
    BY <1>1, <1>3 DEF P!PrefixOwned, MadeOwners
  <1>4. ASSUME NEW y \in Prefixes, registry'[y] # "free"
        PROVE  /\ prefix[registry'[y]] = y
               /\ pc[registry'[y]] = "failed" \/ closePc'[registry'[y]] = "idle"
    <2>1. y # prefix[p] /\ registry'[y] = registry[y] /\ registry[y] # p
      BY <1>1, <1>4 DEF P!PrefixOwned
    <2> QED BY <1>1, <1>4, <2>1 DEF P!PrefixOwned
  <1> QED BY <1>1, <1>2, <1>3, <1>4 DEF P!PrefixOwned

(* No other step touches the registry.                                     *)
LEMMA OthersOwned ==
  ASSUME ProducersInv, UNCHANGED <<pc, prefix, registry>>,
         \A p \in P!Producers : closePc'[p] = closePc[p]
                              \/ (closePc[p] # "idle" /\ closePc'[p] # "idle")
  PROVE  P!PrefixOwned' /\ MadeOwners'
  <1>1. MadeOwners'
    BY DEF ProducersInv, MadeOwners
  <1>2. \A x \in Prefixes : registry[x] # "free" => registry[x] \in P!Producers
    BY DEF ProducersInv, P!TypeOK
  <1>3. P!PrefixOwned'
    BY <1>2 DEF ProducersInv, P!PrefixOwned, P!TypeOK
  <1> QED BY <1>1, <1>3

-----------------------------------------------------------------------------
(* What a step does to one message: it is answered, received, or sent.     *)
MessageStep(m) ==
    P!Answered(m) \/ P!Receive(m) \/ \E p \in P!Producers : P!Send(m, p)

(* A step leaves the other messages alone, and starts to count a message   *)
(* only while the channels are open.                                       *)
LEMMA MessageStepFacts ==
  ASSUME P!TypeOK, NEW m \in Messages, MessageStep(m)
  PROVE  /\ \A n \in Messages : n # m => to'[n] = to[n] /\ msg'[n] = msg[n]
         /\ msg'[m] \in P!Counted =>
              \/ msg[m] \in P!Counted /\ to'[m] = to[m]
              \/ chans[to'[m]] = "open"
         /\ UNCHANGED <<pc, prefix, registry, chans, loop, closePc, runPc>>
  <1> USE DEF P!TypeOK, P!Counted
  <1>1. CASE P!Answered(m)
    BY <1>1 DEF P!Answered
  <1>2. CASE P!Receive(m)
    BY <1>2 DEF P!Receive, P!Told, P!Response, P!Collect
  <1>3. CASE \E p \in P!Producers : P!Send(m, p)
    <2>1. PICK p \in P!Producers : P!Send(m, p)
      BY <1>3
    <2>2. to'[m] = p /\ \A n \in Messages : n # m => to'[n] = to[n] /\ msg'[n] = msg[n]
      BY <2>1 DEF P!Send
    <2>3. chans[p] = "open" \/ msg'[m] \in {"refused", "new"}
      BY <2>1 DEF P!Send
    <2> QED BY <2>1, <2>2, <2>3 DEF P!Send
  <1> QED BY <1>1, <1>2, <1>3 DEF MessageStep

(* Once the errors are closed no message is counted, and none will be.     *)
LEMMA CountedStays ==
  ASSUME P!TypeOK, NEW m \in Messages, MessageStep(m),
         NEW p \in P!Producers, chans[p] # "open", P!Of(p, P!Counted) = {}
  PROVE  P!Of(p, P!Counted)' = {}
  <1>1. \A n \in Messages : to[n] = p => msg[n] \notin P!Counted
    BY DEF P!Of
  <1>2. to'[m] = p => msg'[m] \notin P!Counted
    BY <1>1, MessageStepFacts
  <1>3. \A n \in Messages : to'[n] = p => msg'[n] \notin P!Counted
    BY <1>1, <1>2, MessageStepFacts
  <1>4. P!Counted' = P!Counted
    BY DEF P!Counted
  <1> QED BY <1>3, <1>4 DEF P!Of

(* The steps of a message keep the order of the shutdown.                  *)
LEMMA MessageShutdown ==
  ASSUME ProducersInv, NEW m \in Messages, MessageStep(m)
  PROVE  ShutdownInOrder'
  <1>1. UNCHANGED <<chans, closePc>>
    BY MessageStepFacts DEF ProducersInv
  <1>2. ASSUME NEW p \in P!Producers, chans[p] \in {"errors", "all"}
        PROVE  P!Of(p, P!Counted)' = {}
    BY <1>2, CountedStays DEF ProducersInv, ShutdownInOrder
  <1>3. P!Counted' = P!Counted
    BY DEF P!Counted
  <1> QED BY <1>1, <1>2, <1>3 DEF ProducersInv, ShutdownInOrder

(* What one producer does.                                                 *)
ProducerStep(p) ==
    P!Create(p) \/ P!ResponsesEnd(p) \/ P!Close(p) \/ P!Shutdown(p) \/ P!CloseReturns(p) \/ P!Run(p)

(* The steps of a producer keep the order of the shutdown: its channels go *)
(* forward only, and Close of a synchronous one waits for all of them.     *)
LEMMA ProducerShutdown ==
  ASSUME ProducersInv, NEW p \in P!Producers, ProducerStep(p)
  PROVE  ShutdownInOrder'
  <1> USE DEF ProducersInv, P!TypeOK
  <1>1. UNCHANGED <<msg, to>>
    BY DEF ProducerStep, P!Create, P!Rejected, P!NewClientFails, P!NewProducer, P!ResponsesEnd, P!Close,
           P!Shutdown, P!CloseReturns, P!Run, P!RunCalled, P!RunReturns
  <1>2. \A q, S : P!Of(q, S)' = P!Of(q, S)
    BY <1>1 DEF P!Of
  <1>3. CASE P!Create(p) \/ P!ResponsesEnd(p) \/ P!Run(p)
    <2>1. UNCHANGED <<chans, closePc>>
      BY <1>3 DEF P!Create, P!Rejected, P!NewClientFails, P!NewProducer, P!ResponsesEnd, P!Run,
                  P!RunCalled, P!RunReturns
    <2> QED BY <1>2, <2>1 DEF ShutdownInOrder, P!Counted
  <1>4. CASE P!Close(p)
    BY <1>2, <1>4 DEF P!Close, ShutdownInOrder, P!Counted
  <1>5. CASE P!Shutdown(p)
    BY <1>2, <1>5 DEF P!Shutdown, ShutdownInOrder, P!Counted
  <1>6. CASE P!CloseReturns(p)
    BY <1>2, <1>6 DEF P!CloseReturns, ShutdownInOrder, P!Counted
  <1> QED BY <1>3, <1>4, <1>5, <1>6 DEF ProducerStep

(* Every step of Next keeps the invariant.                                 *)
LEMMA ProducersNext == ProducersInv /\ [P!Next]_(P!vars) => ProducersInv'
  <1> SUFFICES ASSUME ProducersInv, [P!Next]_(P!vars) PROVE ProducersInv'
    OBVIOUS
  <1>1. ASSUME NEW p \in P!Producers, ProducerStep(p) PROVE ProducersInv'
    <2>1. P!TypeOK'
      BY <1>1, ProducerType DEF ProducersInv, ProducerStep
    <2>2. P!PrefixOwned' /\ MadeOwners'
      <3>1. CASE P!Create(p) \/ P!Close(p)
        BY <3>1, CreateOwned, CloseOwned
      <3>2. CASE P!ResponsesEnd(p) \/ P!Shutdown(p) \/ P!CloseReturns(p) \/ P!Run(p)
        <4>1. /\ UNCHANGED <<pc, prefix, registry>>
              /\ \A q \in P!Producers : closePc'[q] = closePc[q]
                                      \/ (closePc[q] # "idle" /\ closePc'[q] # "idle")
          BY <3>2 DEF P!ResponsesEnd, P!Shutdown, P!CloseReturns, P!Run, P!RunCalled, P!RunReturns,
                      ProducersInv, P!TypeOK
        <4> QED BY <4>1, OthersOwned
      <3> QED BY <1>1, <3>1, <3>2 DEF ProducerStep
    <2> QED BY <1>1, <2>1, <2>2, ProducerShutdown DEF ProducersInv
  <1>2. ASSUME NEW m \in Messages, MessageStep(m) PROVE ProducersInv'
    <2>1. P!TypeOK'
      BY <1>2, MessageType DEF ProducersInv, MessageStep
    <2>2. UNCHANGED <<pc, prefix, registry, closePc>>
      BY <1>2, MessageStepFacts DEF ProducersInv
    <2>3. P!PrefixOwned' /\ MadeOwners'
      BY <2>2, OthersOwned
    <2> QED BY <1>2, <2>1, <2>3, MessageShutdown DEF ProducersInv
  <1>3. CASE UNCHANGED P!vars
    <2>1. P!PrefixOwned' /\ MadeOwners'
      BY <1>3, OthersOwned DEF P!vars
    <2>2. \A q, S : P!Of(q, S)' = P!Of(q, S)
      BY <1>3 DEF P!vars, P!Of
    <2>3. ShutdownInOrder'
      BY <1>3, <2>2 DEF P!vars, ProducersInv, ShutdownInOrder, P!Counted
    <2>4. P!TypeOK'
      BY <1>3 DEF P!vars, ProducersInv, P!TypeOK
    <2> QED BY <2>1, <2>3, <2>4 DEF ProducersInv
  <1> QED BY <1>1, <1>2, <1>3 DEF P!Next, ProducerStep, MessageStep

(* ProducersInv holds in every state of every behaviour.                           *)
LEMMA ProducersInvariance == P!ProducersDistinct /\ P!Spec => []ProducersInv
  BY ProducersInit, ProducersNext, PTL DEF P!Spec

-----------------------------------------------------------------------------
(* While a producer exports metrics its prefix is its own, and a prefix    *)
(* that is in use belongs to a producer that is open, or could not connect.*)
THEOREM OwnedPrefixes == P!ProducersDistinct /\ P!Spec => []P!PrefixOwned
  <1>1. ProducersInv => P!PrefixOwned
    BY DEF ProducersInv
  <1> QED BY ProducersInvariance, <1>1, PTL

-----------------------------------------------------------------------------
(* The initial states are initial states of a module.                      *)
LEMMA ProducerInitRefines == P!Init => P!Contract!Init
  BY DEF P!Init, P!Contract!Init, P!Producers

(* The steps of the module producer are steps of a module: it works from   *)
(* Init on, stops only after Close was called, and Run and Close wait.     *)
LEMMA OwnStepRefines ==
  ASSUME ProducersInv, ~crashed, ProducerStep(ModuleProducer)
  PROVE  [P!Contract!Next]_(P!Contract!vars)
  <1> DEFINE k == ModuleProducer
  <1> USE DEF ProducersInv, P!ProducersDistinct, P!TypeOK, P!Contract!vars
  <1>1. k \in P!Producers
    BY DEF P!Producers
  <1>2. CASE P!Create(k)
    <2>1. /\ pc[k] = "new" /\ pc'[k] \in {"open", "failed"}
          /\ UNCHANGED <<runPc, closePc, crashed>>
      BY <1>1, <1>2 DEF P!Create, P!Rejected, P!NewClientFails, P!NewProducer, P!Register
    <2>2. P!Contract!InitReturns
      BY <2>1 DEF P!Contract!InitReturns
    <2> QED BY <2>2 DEF P!Contract!Next
  <1>3. CASE P!ResponsesEnd(k)
    BY <1>3 DEF P!ResponsesEnd, P!AtRest, P!Of, P!Counted
  <1>4. CASE P!Close(k)
    <2>1. /\ pc[k] = "open" /\ closePc[k] = "idle" /\ closePc'[k] = "waiting"
          /\ UNCHANGED <<pc, runPc, crashed, chans, msg, to>>
      BY <1>1, <1>4 DEF P!Close
    <2>2. P!Contract!CloseCalled
      BY <2>1 DEF P!Contract!CloseCalled, P!AtRest, P!Of, P!Counted
    <2> QED BY <2>2 DEF P!Contract!Next
  <1>5. CASE P!Shutdown(k)
    <2>1. /\ UNCHANGED <<pc, runPc, closePc, msg, to>> /\ crashed' \in BOOLEAN
          /\ chans[k] # "all" /\ chans'[k] # "open"
          /\ chans'[k] = "all" => chans[k] = "errors"
          /\ crashed' # crashed => chans'[k] = "errors" /\ crashed' = TRUE
      <3>1. P!TypeOK'
        BY <1>1, <1>5, ProducerType
      <3> QED BY <1>1, <1>5, <3>1 DEF P!Shutdown
    <2>2. CASE crashed' # crashed
      <3>1. UNCHANGED <<pc, runPc, closePc>> /\ chans[k] # "all" /\ chans'[k] # "all"
        BY <2>1, <2>2
      <3>2. P!Contract!Breaks
        BY <2>1, <2>2, <3>1 DEF P!Contract!Breaks, P!AtRest
      <3> QED BY <3>2 DEF P!Contract!Next
    <2>3. CASE crashed' = crashed /\ pc[k] = "open" /\ chans'[k] = "all"
      <3>1. chans[k] = "errors" /\ closePc[k] # "idle" /\ P!Of(k, P!Counted) = {}
        BY <1>1, <2>1, <2>3 DEF ShutdownInOrder
      <3>2. P!AtRest(k)' /\ ~P!AtRest(k)
        BY <2>1, <2>3, <3>1 DEF P!AtRest, P!Of, P!Counted
      <3>3. P!Contract!Stops
        BY <2>1, <2>3, <3>1, <3>2 DEF P!Contract!Stops, P!Contract!MayEnd
      <3> QED BY <3>3 DEF P!Contract!Next
    <2>4. CASE crashed' = crashed /\ ~(pc[k] = "open" /\ chans'[k] = "all")
      BY <2>1, <2>4 DEF P!AtRest
    <2> QED BY <2>2, <2>3, <2>4
  <1>6. CASE P!CloseReturns(k)
    <2>1. /\ closePc[k] = "waiting" /\ closePc'[k] = "returned"
          /\ chans[k] = "all"
          /\ UNCHANGED <<pc, runPc, crashed, chans, msg, to>>
      BY <1>1, <1>6 DEF P!CloseReturns
    <2>2. P!AtRest(k)
      BY <1>1, <2>1 DEF ShutdownInOrder, P!AtRest
    <2>3. P!Contract!CloseReturns
      BY <2>1, <2>2 DEF P!Contract!CloseReturns, P!AtRest, P!Of, P!Counted
    <2> QED BY <2>3 DEF P!Contract!Next
  <1>7. CASE P!RunCalled(k)
    <2>1. /\ pc[k] = "open" /\ runPc[k] = "idle" /\ runPc'[k] = "waiting"
          /\ UNCHANGED <<pc, closePc, crashed, chans, msg, to>>
      BY <1>1, <1>7 DEF P!RunCalled
    <2>2. P!Contract!RunCalled
      BY <2>1 DEF P!Contract!RunCalled, P!AtRest, P!Of, P!Counted
    <2> QED BY <2>2 DEF P!Contract!Next
  <1>8. CASE P!RunReturns(k)
    <2>1. /\ runPc[k] = "waiting" /\ runPc'[k] = "returned" /\ closePc[k] = "returned"
          /\ UNCHANGED <<pc, closePc, crashed, chans, msg, to>>
      BY <1>1, <1>8 DEF P!RunReturns
    <2>2. P!AtRest(k)
      BY <1>1, <2>1 DEF ShutdownInOrder, P!AtRest
    <2>3. P!Contract!RunReturns
      BY <2>1, <2>2 DEF P!Contract!RunReturns, P!Contract!MayEnd, P!AtRest, P!Of, P!Counted
    <2> QED BY <2>3 DEF P!Contract!Next
  <1> QED BY <1>2, <1>3, <1>4, <1>5, <1>6, <1>7, <1>8 DEF ProducerStep, P!Run

(* The steps of the other producers do not show, unless they make the      *)
(* process panic.                                                          *)
LEMMA OtherStepRefines ==
  ASSUME ProducersInv, ~crashed, NEW p \in P!Producers, p # ModuleProducer, ProducerStep(p)
  PROVE  [P!Contract!Next]_(P!Contract!vars)
  <1> DEFINE k == ModuleProducer
  <1>1. /\ pc'[k] = pc[k] /\ runPc'[k] = runPc[k] /\ closePc'[k] = closePc[k]
        /\ chans'[k] = chans[k] /\ UNCHANGED <<msg, to>>
    BY DEF ProducerStep, P!Create, P!Rejected, P!NewClientFails, P!NewProducer, P!Register,
           P!ResponsesEnd, P!Close, P!Shutdown, P!CloseReturns, P!Run, P!RunCalled, P!RunReturns,
           ProducersInv, P!TypeOK, P!Producers
  <1>2. P!AtRest(k)' = P!AtRest(k)
    BY <1>1 DEF P!AtRest, P!Of, P!Counted
  <1>3. crashed' \in BOOLEAN
    BY ProducerType DEF ProducersInv, ProducerStep, P!TypeOK
  <1>4. CASE crashed'
    BY <1>1, <1>2, <1>3, <1>4 DEF P!Contract!Next, P!Contract!Breaks
  <1>5. CASE ~crashed'
    BY <1>1, <1>2, <1>3, <1>5 DEF P!Contract!vars, ProducersInv, P!TypeOK
  <1> QED BY <1>4, <1>5

(* Sending too late breaks the process; every other step of a message is   *)
(* invisible.                                                              *)
LEMMA MessageStepRefines ==
  ASSUME ProducersInv, ~crashed, NEW m \in Messages, MessageStep(m)
  PROVE  [P!Contract!Next]_(P!Contract!vars)
  <1> DEFINE k == ModuleProducer
  <1>1. k \in P!Producers
    BY DEF P!Producers
  <1>2. UNCHANGED <<pc, runPc, closePc, chans>>
    BY MessageStepFacts DEF ProducersInv
  <1>3. P!AtRest(k)' = P!AtRest(k)
    <2>1. CASE chans[k] = "all"
      <3>1. P!Of(k, P!Counted) = {}
        BY <1>1, <2>1 DEF ProducersInv, ShutdownInOrder
      <3>2. P!Of(k, P!Counted)' = {}
        BY <1>1, <2>1, <3>1, CountedStays DEF ProducersInv
      <3> QED BY <1>2, <3>1, <3>2 DEF P!AtRest, P!Counted
    <2>2. CASE chans[k] # "all"
      BY <1>2, <2>2 DEF P!AtRest
    <2> QED BY <2>1, <2>2
  <1>4. crashed' \in BOOLEAN
    BY MessageType DEF ProducersInv, MessageStep, P!TypeOK
  <1>5. CASE crashed'
    BY <1>2, <1>3, <1>4, <1>5 DEF P!Contract!Next, P!Contract!Breaks
  <1>6. CASE ~crashed'
    BY <1>2, <1>3, <1>4, <1>6 DEF P!Contract!vars, ProducersInv, P!TypeOK
  <1> QED BY <1>5, <1>6

(* The safety part of ImplementsModule: whatever the senders, the brokers  *)
(* and the other producers do, kafkamod.Producer behaves as a module may.  *)
THEOREM ProducerImplements == P!ProducersDistinct /\ P!Spec => P!Contract!Safety
  <1>1. ProducersInv /\ [P!Next]_(P!vars) => [P!Contract!Next]_(P!Contract!vars)
    <2> SUFFICES ASSUME ProducersInv, [P!Next]_(P!vars) PROVE [P!Contract!Next]_(P!Contract!vars)
      OBVIOUS
    <2>1. CASE UNCHANGED P!vars
      BY <2>1 DEF P!vars, P!Contract!vars, P!AtRest, P!Of, P!Counted
    <2>2. ASSUME NEW p \in P!Producers, ~crashed, ProducerStep(p)
          PROVE  [P!Contract!Next]_(P!Contract!vars)
      BY <2>2, OwnStepRefines, OtherStepRefines
    <2> QED BY <2>1, <2>2, MessageStepRefines DEF P!Next, ProducerStep, MessageStep
  <1> QED BY ProducerInitRefines, <1>1, ProducersInvariance, PTL DEF P!Spec, P!Contract!Safety

(* When Close of kafkamod.Producer has returned its client is at rest: no  *)
(* message is counted in flight and both channels of sarama are closed.    *)
THEOREM ProducerQuiet == P!ProducersDistinct /\ P!Spec => []P!Contract!ClosedIsQuiet
  <1>1. ProducersInv => P!Contract!ClosedIsQuiet
    BY DEF ProducersInv, P!ProducersDistinct, P!Producers, ShutdownInOrder,
       P!AtRest, P!Contract!ClosedIsQuiet
  <1> QED BY ProducersInvariance, <1>1, PTL

=============================================================================
