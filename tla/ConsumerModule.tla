--------------------------- MODULE ConsumerModule ---------------------------
(***************************************************************************)
(* kafkamod.Consumer, the Kafka consumer as a module of an application,    *)
(* with kafkamod.ConcurrentGroupConsumer as its handler. After a           *)
(* successful Init the runner calls Run and, possibly before Run has       *)
(* begun, Close, each in a goroutine of its own; consume runs in a third.  *)
(***************************************************************************)
EXTENDS Integers, ConsumerGroup

VARIABLES
    preClaim,   \* conf.PreClaimPartitions
    initPc,     \* Init: "new", "ready" or "failed"
    prefix,     \* the metrics prefix: "free", "ours", or "taken" by another
    client,     \* c.client: "nil", "open" or "closed"
    ready,      \* handler.ready is closed
    cancelled,  \* c.ctx is cancelled
    runPc,      \* Run: "idle", "waiting" for errCh, "returned"
    runRes,     \* what Run returned
    consumePc,  \* the goroutine in the body of runOnce
    starts,     \* how often that body was entered
    errCh,      \* the buffered channel: "empty" or the result in it
    closePc,    \* Close: "idle", "waiting" for runFinished, "returned"
    fault,      \* something failed: a broker, Setup or Cleanup
    handlerFailed   \* the handler of a message returned an error

vars == <<groupVars, preClaim, initPc, prefix, client, ready, cancelled, runPc, runRes,
          consumePc, starts, errCh, closePc, fault, handlerFailed>>

moduleVars == <<preClaim, initPc, prefix, client>>
runVars == <<runPc, runRes, ready>>
consumeVars == <<consumePc, starts, errCh>>

Init ==
    /\ GroupInit
    /\ preClaim \in BOOLEAN
    /\ initPc = "new"
    /\ prefix \in {"free", "taken"}
    /\ client = "nil"
    /\ ready = FALSE /\ cancelled = FALSE
    /\ runPc = "idle" /\ runRes = "none"
    /\ consumePc = "none" /\ starts = 0 /\ errCh = "empty"
    /\ closePc = "idle"
    /\ fault = FALSE /\ handlerFailed = FALSE

-----------------------------------------------------------------------------
(* Init succeeds: the prefix is registered, the client is created, and     *)
(* with PreClaimPartitions the consumer starts at once.                    *)
InitOk ==
    /\ initPc = "new" /\ prefix = "free"
    /\ prefix' = "ours"
    /\ client' = "open"
    /\ initPc' = "ready"
    /\ consumePc' = IF preClaim THEN "loop" ELSE "none"
    /\ starts' = IF preClaim THEN 1 ELSE 0
    /\ UNCHANGED <<groupVars, preClaim, cancelled, runVars, errCh, closePc, fault,
                   handlerFailed>>

(* An option fails, no handler is set, or the prefix is taken.             *)
InitRejected ==
    /\ initPc = "new"
    /\ initPc' = "failed"
    /\ UNCHANGED <<groupVars, preClaim, prefix, client, cancelled, runVars, consumeVars,
                   closePc, fault, handlerFailed>>

(* NewConsumerGroup fails, after the prefix was registered.                *)
InitClientFails ==
    /\ initPc = "new" /\ prefix = "free"
    /\ prefix' = "ours"
    /\ initPc' = "failed"
    /\ UNCHANGED <<groupVars, preClaim, client, cancelled, runVars, consumeVars, closePc,
                   fault, handlerFailed>>

-----------------------------------------------------------------------------
(* Run closes ready and starts consume, whose body runOnce enters once.    *)
RunStarts ==
    /\ initPc = "ready" /\ runPc = "idle"
    /\ ready' = TRUE
    /\ runPc' = "waiting"
    /\ consumePc' = IF starts = 0 THEN "loop" ELSE consumePc
    /\ starts' = 1
    /\ UNCHANGED <<groupVars, moduleVars, cancelled, runRes, errCh, closePc, fault,
                   handlerFailed>>

BugRunReturns ==
    /\ runPc = "waiting"
    /\ errCh # "empty" \/ cancelled
    /\ runRes' = IF errCh # "empty" THEN errCh ELSE "nil"
    /\ errCh' = "empty"
    /\ runPc' = "returned"
    /\ UNCHANGED <<groupVars, moduleVars, cancelled, ready, consumePc, starts, closePc, fault,
                   handlerFailed>>

(* <-c.errCh, and the deferred close(c.runFinished).                       *)
RunReturns ==
    /\ runPc = "waiting" /\ errCh # "empty"
    /\ runRes' = errCh
    /\ errCh' = "empty"
    /\ runPc' = "returned"
    /\ UNCHANGED <<groupVars, moduleVars, cancelled, ready, consumePc, starts, closePc, fault,
                   handlerFailed>>

(* One iteration of consume.                                               *)
Consume ==
    /\ consumePc = "loop"
    /\ ConsumeCalled(cancelled)
    /\ consumePc' = "consume"
    /\ UNCHANGED <<moduleVars, cancelled, runVars, starts, errCh, closePc, fault, handlerFailed>>

BugConsumeDone ==
    /\ consumePc = "consume"
    /\ ConsumeReturned
    /\ consumePc' = "sent"
    /\ errCh' = IF session = "failed" THEN "err" ELSE "nil"
    /\ UNCHANGED <<moduleVars, cancelled, runVars, starts, closePc, fault, handlerFailed>>

(* Consume returned an error, or the context is cancelled: the result goes *)
(* to errCh; else consume again.                                           *)
ConsumeDone ==
    /\ consumePc = "consume"
    /\ ConsumeReturned
    /\ IF session = "failed" \/ cancelled
         THEN consumePc' = "sent" /\ errCh' = IF session = "failed" THEN "err" ELSE "nil"
         ELSE consumePc' = "loop" /\ UNCHANGED errCh
    /\ UNCHANGED <<moduleVars, cancelled, runVars, starts, closePc, fault, handlerFailed>>

-----------------------------------------------------------------------------
CloseCancels ==
    /\ initPc = "ready" /\ closePc = "idle"
    /\ cancelled' = TRUE
    /\ closePc' = "waiting"
    /\ UNCHANGED <<groupVars, moduleVars, runVars, consumeVars, fault, handlerFailed>>

(* runFinished is closed: the prefix is unregistered, the client closed.   *)
CloseFinishes ==
    /\ closePc = "waiting" /\ runPc = "returned"
    /\ prefix' = "free"
    /\ client' = "closed"
    /\ closePc' = "returned"
    /\ UNCHANGED <<groupVars, preClaim, initPc, cancelled, runVars, consumeVars, fault,
                   handlerFailed>>

-----------------------------------------------------------------------------
(* sarama and the callbacks                                                *)

sameModule == <<moduleVars, runVars, consumeVars, closePc>>

(* A broker or Setup fails while the group is joined.                      *)
BrokerFails ==
    /\ JoinFails
    /\ fault' = TRUE
    /\ UNCHANGED <<sameModule, cancelled, handlerFailed>>

(* newSession returns ctx.Err() because Close came while it was joining.   *)
JoinCancelled ==
    /\ cancelled /\ JoinFails
    /\ UNCHANGED <<sameModule, cancelled, fault, handlerFailed>>

(* The session is released; Cleanup may fail.                              *)
SessionReleased ==
    /\ \/ Released("done") /\ UNCHANGED fault
       \/ Released("failed") /\ fault' = TRUE
    /\ UNCHANGED <<sameModule, cancelled, handlerFailed>>

(* handlerWrapper.ConsumeClaim waits for ready ...                         *)
ConsumeClaim(p) ==
    /\ ClaimStarts(p, "blocked")
    /\ UNCHANGED <<sameModule, cancelled, fault, handlerFailed>>

(* ... whatever happens to the session, and then calls the handler's.      *)
Forward(p) ==
    /\ claim[p] = "blocked" /\ ready
    /\ claim' = [claim EXCEPT ![p] = "waiting"]
    /\ UNCHANGED <<session, sameModule, cancelled, fault, handlerFailed>>

(* ConcurrentGroupConsumer.ConsumeClaim: Handle returns nil ...            *)
Handled(p) ==
    /\ claim[p] = "handling"
    /\ claim' = [claim EXCEPT ![p] = "waiting"]
    /\ UNCHANGED <<session, sameModule, cancelled, fault, handlerFailed>>

(* ... or an error, on which handlerWrapper cancels the consumer.          *)
HandlerFails(p) ==
    /\ claim[p] = "handling"
    /\ ClaimExits(p)
    /\ cancelled' = TRUE
    /\ handlerFailed' = TRUE
    /\ UNCHANGED <<sameModule, fault>>

Sarama ==
    /\ \/ Joined
       \/ SessionEnds
       \/ \E p \in Partitions : MessageArrives(p) \/ MessagesClosed(p)
    /\ UNCHANGED <<sameModule, cancelled, fault, handlerFailed>>

-----------------------------------------------------------------------------
Run == RunStarts \/ RunReturns
Close == CloseCancels \/ CloseFinishes
Join == BrokerFails \/ JoinCancelled \/ (Joined /\ Sarama)

Next ==
    \/ InitOk \/ InitRejected \/ InitClientFails
    \/ Run \/ Consume \/ ConsumeDone \/ Close
    \/ BrokerFails \/ JoinCancelled \/ SessionReleased \/ Sarama
    \/ \E p \in Partitions : ConsumeClaim(p) \/ Forward(p) \/ Handled(p) \/ HandlerFails(p)

(* The runner calls Run once Init returned; goroutines run, brokers answer *)
(* or fail, handlers return, a cancelled session notices it, and a closed  *)
(* claim has finitely many buffered messages.                              *)
Fairness ==
    /\ WF_vars(Run) /\ WF_vars(Consume \/ ConsumeDone) /\ WF_vars(CloseFinishes)
    /\ WF_vars(Join) /\ WF_vars(SessionReleased)
    /\ WF_vars(cancelled /\ SessionEnds /\ Sarama)
    /\ \A p \in Partitions :
        /\ WF_vars(ConsumeClaim(p) \/ Forward(p))
        /\ WF_vars(Handled(p) \/ HandlerFails(p))
        /\ SF_vars(MessagesClosed(p) /\ Sarama)

Spec == Init /\ [][Next]_vars /\ Fairness

-----------------------------------------------------------------------------
(* Properties                                                              *)

(* The types of the state; runOnce lets consume begin at most once.        *)
TypeOK ==
    /\ GroupTypeOK
    /\ preClaim \in BOOLEAN /\ ready \in BOOLEAN /\ cancelled \in BOOLEAN
    /\ fault \in BOOLEAN /\ handlerFailed \in BOOLEAN
    /\ initPc \in {"new", "ready", "failed"}
    /\ prefix \in {"free", "ours", "taken"}
    /\ client \in {"nil", "open", "closed"}
    /\ runPc \in {"idle", "waiting", "returned"}
    /\ runRes \in {"none", "nil", "err"}
    /\ consumePc \in {"none", "loop", "consume", "sent"}
    /\ starts \in 0..1
    /\ errCh \in {"empty", "nil", "err"}
    /\ closePc \in {"idle", "waiting", "returned"}

(* When Close returns, nothing of the consumer is left: the goroutine of   *)
(* consume is over, no handler runs, and no session uses the closed client.*)
CloseIsFinal ==
    closePc = "returned" =>
        /\ runPc = "returned" /\ consumePc = "sent"
        /\ session = "idle" /\ \A p \in Partitions : claim[p] = "none"

(* The consumer is a module as the runner expects it: the group is        *)
(* consumed only until Close returns, Run ends only because of Close, a    *)
(* failing handler or a fault of the group, and then it does, even if      *)
(* Close comes before Run or while claims wait for ready.                  *)
Contract == INSTANCE ModuleContract WITH
    init <- initPc, run <- runPc, close <- closePc,
    active <- consumePc \in {"loop", "consume"},
    broken <- fault \/ handlerFailed, crashed <- FALSE

(* Every behaviour of kafkamod.Consumer is one of a module.                *)
ImplementsModule == Contract!Spec
=============================================================================
