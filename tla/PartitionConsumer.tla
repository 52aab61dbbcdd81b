------------------------- MODULE PartitionConsumer -------------------------
(***************************************************************************)
(* kafka.ConcurrentPartitionConsumer: one goroutine in Run (with its retry *)
(* loop), one that calls Close, the ConsumeClaim goroutines of sarama, and *)
(* the callers of SetConsumerGroupHandler. They share the wait group, the  *)
(* mutex runSetupMutex, the client and the cancel function.                *)
(***************************************************************************)
EXTENDS Integers, ConsumerGroup

CONSTANTS
    Handlers,  \* the ConsumerGroupHandlers the application has
    Nil        \* no group handler

ASSUME NilAssumption == Nil \notin Handlers

VARIABLES
    retryEnabled,  \* conf.RetryEnabled
    runPc,         \* the goroutine in Run
    runErr,        \* run is about to return an error
    closePc,       \* the goroutine in Close
    mutex,         \* the holder of runSetupMutex
    waitGroup,     \* the counter of cancelWaitGroup
    client,        \* c.client: "open" or "nil"
    hasCancel,     \* c.cancelContext # nil
    cancelled,     \* the context that c.cancelContext belongs to is cancelled
    registered,    \* the metrics prefix of the group is registered
    groupHandler,  \* c.groupHandler
    owed,          \* owed[h]: "setup" from a Setup of h to its Cleanup, "unpaired"
                   \* after a Cleanup that no Setup preceded
    swapped,       \* the handlers put in or taken out during a session, until
                   \* their next Setup
    handlerFailed  \* some message handler returned an error

handlerVars == <<groupHandler, owed, swapped, handlerFailed>>

vars == <<groupVars, retryEnabled, runPc, runErr, closePc, mutex, waitGroup, client,
          hasCancel, cancelled, registered, handlerVars>>

runVars == <<runPc, runErr>>
lockVars == <<mutex, waitGroup>>
ctxVars == <<hasCancel, cancelled>>
restVars == <<retryEnabled, registered>>

(* Run is in the loop around client.Consume, or on its way out of it.      *)
Consuming == {"loop", "consume", "defer"}

(* NewConcurrentPartitionConsumerWithConfig has returned: it created the   *)
(* client and registered the metrics, unless the prefix was refused twice. *)
Init ==
    /\ GroupInit
    /\ retryEnabled \in BOOLEAN
    /\ runPc = "idle" /\ runErr = FALSE
    /\ closePc = "idle"
    /\ mutex = "free" /\ waitGroup = 0
    /\ client = "open"
    /\ hasCancel = FALSE /\ cancelled = FALSE
    /\ registered \in BOOLEAN
    /\ groupHandler = Nil
    /\ owed = [h \in Handlers |-> "none"] /\ swapped = {}
    /\ handlerFailed = FALSE

-----------------------------------------------------------------------------
(* Run and run                                                             *)

RunCalled ==
    /\ runPc = "idle"
    /\ runPc' = "init"
    /\ UNCHANGED <<groupVars, restVars, runErr, closePc, lockVars, client, ctxVars,
                   handlerVars>>

(* initializeConsumerGroupClient succeeds, then cancelWaitGroup.Add(1).    *)
InitClient ==
    /\ runPc = "init"
    /\ client' = "open"
    /\ waitGroup' = waitGroup + 1
    /\ runPc' = "added"
    /\ UNCHANGED <<groupVars, restVars, runErr, closePc, mutex, ctxVars,
                   handlerVars>>

(* sarama.NewConsumerGroup fails: run returns before Add(1).               *)
InitClientFails ==
    /\ runPc = "init" /\ client = "nil"
    /\ runPc' = IF retryEnabled THEN "sleep" ELSE "returned"
    /\ UNCHANGED <<groupVars, restVars, runErr, closePc, lockVars, client, ctxVars,
                   handlerVars>>

(* The critical section of run: a new context and the handler.             *)
SetupRun ==
    /\ runPc = "added" /\ mutex = "free"
    /\ hasCancel' = TRUE
    /\ cancelled' = FALSE
    /\ runPc' = "loop"
    /\ UNCHANGED <<groupVars, restVars, runErr, closePc, lockVars, client,
                   handlerVars>>

(* c.client.Consume(ctx, c.topics, c)                                      *)
Consume ==
    /\ runPc = "loop"
    /\ ConsumeCalled(cancelled)
    /\ runPc' = "consume"
    /\ UNCHANGED <<restVars, runErr, closePc, lockVars, client, ctxVars, handlerVars>>

(* Consume returned: leave with its error; without one leave if the        *)
(* context is cancelled, else consume again.                               *)
ConsumeDone ==
    /\ runPc = "consume"
    /\ ConsumeReturned
    /\ runErr' = (session = "failed")
    /\ runPc' = IF session = "failed" \/ cancelled THEN "defer" ELSE "loop"
    /\ UNCHANGED <<restVars, closePc, lockVars, client, ctxVars, handlerVars>>

(* The deferred function of run, closeConsumerGroupClient and Done (which  *)
(* releases the goroutine in Wait), and what Run makes of the result.      *)
RunEnds ==
    /\ runPc = "defer"
    /\ client' = "nil"
    /\ waitGroup' = waitGroup - 1
    /\ runPc' = IF runErr /\ retryEnabled THEN "sleep" ELSE "returned"
    /\ closePc' = IF closePc = "waiting" THEN "woken" ELSE closePc
    /\ UNCHANGED <<groupVars, restVars, runErr, mutex, ctxVars, handlerVars>>

(* time.Sleep is over and run is called again.                             *)
Retry ==
    /\ runPc = "sleep"
    /\ runPc' = "init"
    /\ UNCHANGED <<groupVars, restVars, runErr, closePc, lockVars, client, ctxVars,
                   handlerVars>>

-----------------------------------------------------------------------------
(* Close                                                                   *)

BugCloseCancelsNot ==
    /\ closePc = "idle" /\ mutex = "free" /\ hasCancel
    /\ closePc' = "locked" /\ mutex' = "close"
    /\ UNCHANGED <<groupVars, restVars, runVars, waitGroup, client, ctxVars, handlerVars>>

(* runSetupMutex.Lock() and cancelContext(), which panics when run has not *)
(* set it; the deferred Unlock runs then.                                  *)
CloseCancels ==
    /\ closePc = "idle" /\ mutex = "free"
    /\ IF hasCancel
         THEN closePc' = "locked" /\ mutex' = "close" /\ cancelled' = TRUE
         ELSE closePc' = "panicked" /\ UNCHANGED <<mutex, cancelled>>
    /\ UNCHANGED <<groupVars, restVars, runVars, waitGroup, client, hasCancel, handlerVars>>

BugCloseWaitsNot ==
    /\ closePc = "locked"
    /\ closePc' = "passed"
    /\ UNCHANGED <<groupVars, restVars, runVars, lockVars, client, ctxVars, handlerVars>>

(* cancelWaitGroup.Wait() returns at once, or blocks.                      *)
CloseWaits ==
    /\ closePc = "locked"
    /\ closePc' = IF waitGroup = 0 THEN "passed" ELSE "waiting"
    /\ UNCHANGED <<groupVars, restVars, runVars, lockVars, client, ctxVars, handlerVars>>

(* A Wait that was released panics if Add(1) of the next attempt of run    *)
(* came first ("WaitGroup is reused before previous Wait has returned").   *)
CloseWakes ==
    /\ closePc = "woken"
    /\ IF waitGroup = 0
         THEN closePc' = "passed" /\ UNCHANGED mutex
         ELSE closePc' = "panicked" /\ mutex' = "free"
    /\ UNCHANGED <<groupVars, restVars, runVars, waitGroup, client, ctxVars, handlerVars>>

(* Unregister panics when the prefix is not registered; the mutex is       *)
(* released either way.                                                    *)
CloseReturns ==
    /\ closePc = "passed"
    /\ closePc' = IF registered THEN "returned" ELSE "panicked"
    /\ registered' = FALSE
    /\ mutex' = "free"
    /\ UNCHANGED <<groupVars, retryEnabled, runVars, waitGroup, client, ctxVars, handlerVars>>

-----------------------------------------------------------------------------
(* The callbacks                                                           *)

(* Setup: it calls groupHandler.Setup, whose error is ignored, if one is   *)
(* set, and returns nil, so a join that got this far succeeds.             *)
Setup ==
    /\ Joined
    /\ owed' = [h \in Handlers |-> IF h = groupHandler THEN "setup" ELSE owed[h]]
    /\ swapped' = swapped \ {groupHandler}
    /\ UNCHANGED <<restVars, runVars, closePc, lockVars, client, ctxVars, groupHandler,
                   handlerFailed>>

BugCleanupSkipped ==
    /\ Released("done")
    /\ UNCHANGED <<owed, swapped>>
    /\ UNCHANGED <<restVars, runVars, closePc, lockVars, client, ctxVars, groupHandler,
                   handlerFailed>>

(* Cleanup, at the release of the session, returns nil as well.            *)
Cleanup ==
    /\ Released("done")
    /\ owed' = [h \in Handlers |->
                   IF h # groupHandler THEN owed[h]
                   ELSE IF owed[h] = "setup" THEN "none" ELSE "unpaired"]
    /\ UNCHANGED <<restVars, runVars, closePc, lockVars, client, ctxVars, groupHandler,
                   swapped, handlerFailed>>

(* SetConsumerGroupHandler puts any handler, or none, in at any time.      *)
SetConsumerGroupHandler(handler) ==
    /\ groupHandler' = handler
    /\ swapped' = IF session \in {"open", "releasing"} /\ handler # groupHandler
                    THEN swapped \cup ({groupHandler, handler} \cap Handlers)
                    ELSE swapped
    /\ UNCHANGED <<groupVars, restVars, runVars, closePc, lockVars, client, ctxVars, owed,
                   handlerFailed>>

(* ConsumeClaim: the message handler returns nil ...                       *)
Handled(p) ==
    /\ claim[p] = "handling"
    /\ claim' = [claim EXCEPT ![p] = "waiting"]
    /\ UNCHANGED <<session, restVars, runVars, closePc, lockVars, client, ctxVars,
                   handlerVars>>

BugHandlerFails(p) ==
    /\ claim[p] = "handling"
    /\ ClaimExits(p)
    /\ handlerFailed' = TRUE
    /\ UNCHANGED <<restVars, runVars, closePc, lockVars, client, ctxVars, groupHandler, owed,
                   swapped>>

(* ... or an error, which cancels the context of run.                      *)
HandlerFails(p) ==
    /\ claim[p] = "handling"
    /\ ClaimExits(p)
    /\ handlerFailed' = TRUE
    /\ cancelled' = TRUE
    /\ UNCHANGED <<restVars, runVars, closePc, lockVars, client, hasCancel, groupHandler, owed,
                   swapped>>

(* Steps of sarama that do not touch the consumer's own state.             *)
Sarama ==
    /\ \/ JoinFails
       \/ SessionEnds
       \/ \E p \in Partitions :
             ClaimStarts(p, "waiting") \/ MessageArrives(p) \/ MessagesClosed(p)
    /\ UNCHANGED <<restVars, runVars, closePc, lockVars, client, ctxVars, handlerVars>>

-----------------------------------------------------------------------------
Run ==
    \/ RunCalled \/ InitClient \/ InitClientFails \/ SetupRun \/ Consume
    \/ ConsumeDone \/ RunEnds \/ Retry

Close == CloseCancels \/ CloseWaits \/ CloseWakes \/ CloseReturns

Next ==
    \/ Run \/ Close \/ Setup \/ Cleanup \/ Sarama
    \/ \E handler \in Handlers \cup {Nil} : SetConsumerGroupHandler(handler)
    \/ \E p \in Partitions : Handled(p) \/ HandlerFails(p)

(* Every goroutine that can run does; the brokers answer or fail, handlers *)
(* return, and a cancelled session sees its context. A claim that is over  *)
(* has finitely many buffered messages, so it meets the closed channel.    *)
Fairness ==
    /\ WF_vars(Run) /\ WF_vars(Close) /\ WF_vars(Cleanup)
    /\ WF_vars(Setup \/ (JoinFails /\ Sarama))
    /\ WF_vars(cancelled /\ SessionEnds /\ Sarama)
    /\ \A p \in Partitions :
        /\ WF_vars(ClaimStarts(p, "waiting") /\ Sarama)
        /\ WF_vars(Handled(p) \/ HandlerFails(p))
        /\ SF_vars(MessagesClosed(p) /\ Sarama)

Spec == Init /\ [][Next]_vars /\ Fairness

-----------------------------------------------------------------------------
(* Properties                                                              *)

(* The types of the state; the wait group counts the one call of run.      *)
TypeOK ==
    /\ GroupTypeOK
    /\ retryEnabled \in BOOLEAN /\ runErr \in BOOLEAN
    /\ runPc \in Consuming \cup {"idle", "init", "added", "sleep", "returned"}
    /\ closePc \in {"idle", "locked", "waiting", "woken", "passed", "returned",
                    "panicked"}
    /\ mutex \in {"free", "close"}
    /\ waitGroup \in {0, 1}
    /\ client \in {"open", "nil"}
    /\ hasCancel \in BOOLEAN /\ cancelled \in BOOLEAN /\ registered \in BOOLEAN
    /\ groupHandler \in Handlers \cup {Nil}
    /\ owed \in [Handlers -> {"none", "setup", "unpaired"}]
    /\ swapped \in SUBSET Handlers
    /\ handlerFailed \in BOOLEAN

(* At the moment Close returns, no message handler is running and no       *)
(* session is open: cancelContext and Wait cover the whole of run.         *)
CloseReturnsQuietly ==
    [][closePc # "returned" /\ closePc' = "returned" =>
        session = "idle" /\ \A p \in Partitions : claim[p] = "none"]_vars

(* Without retries, that is for good: nothing is consumed after Close.     *)
ClosedForGood ==
    closePc = "returned" /\ ~retryEnabled => session = "idle" /\ client = "nil"

(* A handler that stays c.groupHandler for a session gets its Setup and    *)
(* its Cleanup, whatever ended the session: the Cleanup is missing, or has *)
(* no Setup before it, only for a handler that SetConsumerGroupHandler put *)
(* in or took out while a session was open.                                *)
SetupMeetsCleanup ==
    \A h \in Handlers \ swapped :
        /\ owed[h] # "unpaired"
        /\ owed[h] = "setup" => session \in {"open", "releasing"}

(* A handler error ends Run for good, also when retries are enabled.       *)
HandlerErrorEndsRun == handlerFailed ~> [](runPc = "returned")

(* Close, which holds runSetupMutex while it waits, returns or panics, or  *)
(* meets an attempt of run between Add(1) and the mutex it then wants: that *)
(* deadlock is the only way for Close to hang.                             *)
CloseHangsOnlyOnSetup ==
    (closePc = "locked") ~>
        \/ closePc \in {"returned", "panicked"}
        \/ closePc = "waiting" /\ runPc = "added"
=============================================================================
