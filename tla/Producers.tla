----------------------------- MODULE Producers -----------------------------
(***************************************************************************)
(* The Kafka producers: kafka.Producer and kafka.AsyncProducer, and        *)
(* kafkamod.Producer, which is a module of an application. Each registers  *)
(* a metrics prefix and wraps a producer of sarama, whose dispatcher,      *)
(* response channels and shutdown are modelled as far as they matter.      *)
(* Applications send while others close, and may be refused or panic.      *)
(***************************************************************************)
EXTENDS FiniteSets

CONSTANTS
    SyncProducers, AsyncProducers,
    ModuleProducer,
    Prefixes,   \* the metrics prefixes in use
    Messages

Producers == SyncProducers \cup AsyncProducers \cup {ModuleProducer}

(* "free" is nobody's name, and kafkamod.Producer wraps a SyncProducer.    *)
ProducersDistinct == "free" \notin Producers /\ ModuleProducer \notin AsyncProducers
ASSUME ProducersAssumption == ProducersDistinct

VARIABLES
    pc,         \* the constructor or Init: "new", "open" or "failed"
    prefix,     \* the prefix the producer was made with, or "none"
    registry,   \* the owner of each prefix, or "free"
    chans,      \* sarama: "open", "flagged" (shuttingDown), "errors" closed, "all" closed
    loop,       \* handleProducerResponse: "none", "running" or "ended"
    closePc,    \* Close: "idle", "waiting" or "returned"
    runPc,      \* Run of a module: "idle", "waiting" or "returned"
    msg,        \* where each message is
    to,         \* the producer it was sent to, or "none"
    crashed     \* the process has panicked

vars == <<pc, prefix, registry, chans, loop, closePc, runPc, msg, to, crashed>>

Init ==
    /\ pc = [p \in Producers |-> "new"]
    /\ prefix = [p \in Producers |-> "none"]
    /\ registry = [x \in Prefixes |-> "free"]
    /\ chans = [p \in Producers |-> "open"]
    /\ loop = [p \in Producers |-> "none"]
    /\ closePc = [p \in Producers |-> "idle"]
    /\ runPc = [p \in Producers |-> "idle"]
    /\ msg = [m \in Messages |-> "new"]
    /\ to = [m \in Messages |-> "none"]
    /\ crashed = FALSE

Of(p, states) == { m \in Messages : to[m] = p /\ msg[m] \in states }

(* What the wait group inFlight counts: a message is counted until someone *)
(* has taken its answer ("ok", "err") from a channel, as these have no     *)
(* buffer. A message the dispatcher refuses is never counted.              *)
Counted == {"inFlight", "ok", "err"}

-----------------------------------------------------------------------------
(* The constructors and Init: the prefix is registered first. It may be    *)
(* taken, or the configuration be wrong ...                                *)
Rejected(p) ==
    /\ pc[p] = "new"
    /\ pc' = [pc EXCEPT ![p] = "failed"]
    /\ UNCHANGED <<prefix, registry, chans, loop, closePc, runPc, msg, to, crashed>>

BugRegister(p, x) ==
    /\ pc[p] = "new"
    /\ registry' = [registry EXCEPT ![x] = p]
    /\ prefix' = [prefix EXCEPT ![p] = x]

Register(p, x) ==
    /\ pc[p] = "new" /\ registry[x] = "free"
    /\ registry' = [registry EXCEPT ![x] = p]
    /\ prefix' = [prefix EXCEPT ![p] = x]

(* ... or no client can be created: the prefix stays registered.           *)
NewClientFails(p, x) ==
    /\ Register(p, x)
    /\ pc' = [pc EXCEPT ![p] = "failed"]
    /\ UNCHANGED <<chans, loop, closePc, runPc, msg, to, crashed>>

(* Only an asynchronous producer reads the responses itself.               *)
NewProducer(p, x) ==
    /\ Register(p, x)
    /\ pc' = [pc EXCEPT ![p] = "open"]
    /\ loop' = [loop EXCEPT ![p] = IF p \in AsyncProducers THEN "running" ELSE "none"]
    /\ UNCHANGED <<chans, closePc, runPc, msg, to, crashed>>

-----------------------------------------------------------------------------
(* SendMessage and SendMessages give a message to the dispatcher, which    *)
(* counts it and sends it on, or after the flag sends ErrShuttingDown on   *)
(* the channel of the errors and takes no message until someone receives   *)
(* it. After the input channel was closed the process panics.              *)
Send(m, p) ==
    /\ pc[p] = "open" /\ msg[m] = "new"
    /\ to' = [to EXCEPT ![m] = p]
    /\ \/ chans[p] = "open" /\ msg' = [msg EXCEPT ![m] = "inFlight"] /\ UNCHANGED crashed
       \/ /\ chans[p] = "flagged" /\ Of(p, {"refused"}) = {}
          /\ msg' = [msg EXCEPT ![m] = "refused"] /\ UNCHANGED crashed
       \/ chans[p] \in {"errors", "all"} /\ crashed' = TRUE /\ UNCHANGED msg
    /\ UNCHANGED <<pc, prefix, registry, chans, loop, closePc, runPc>>

(* The brokers acknowledge a message, or the last retry fails.             *)
Answered(m) ==
    /\ msg[m] = "inFlight"
    /\ \E answer \in {"ok", "err"} : msg' = [msg EXCEPT ![m] = answer]
    /\ UNCHANGED <<pc, prefix, registry, chans, loop, closePc, runPc, to, crashed>>

(* A synchronous producer tells the sender, who waits for it.              *)
Told(m) ==
    /\ to[m] \in Producers \ AsyncProducers /\ msg[m] \in {"ok", "err", "refused"}
    /\ msg' = [msg EXCEPT ![m] = IF @ = "ok" THEN "acked" ELSE "returned"]
    /\ UNCHANGED <<pc, prefix, registry, chans, loop, closePc, runPc, to, crashed>>

BugResponse(m) ==
    /\ to[m] \in AsyncProducers /\ loop[to[m]] = "running" /\ msg[m] \in {"ok", "err", "refused"}
    /\ msg' = [msg EXCEPT ![m] = IF @ = "ok" THEN "acked" ELSE "logged"]
    /\ loop' = [loop EXCEPT ![to[m]] = IF msg[m] = "ok" THEN @ ELSE "ended"]
    /\ UNCHANGED <<pc, prefix, registry, chans, closePc, runPc, to, crashed>>

(* handleProducerResponse takes a success, or logs an error ...            *)
Response(m) ==
    /\ to[m] \in AsyncProducers /\ loop[to[m]] = "running" /\ msg[m] \in {"ok", "err", "refused"}
    /\ msg' = [msg EXCEPT ![m] = IF @ = "ok" THEN "acked" ELSE "logged"]
    /\ UNCHANGED <<pc, prefix, registry, chans, loop, closePc, runPc, to, crashed>>

ErrorsClosed(p) == chans[p] \in {"errors", "all"}

(* ... until it finds one of the two channels closed.                      *)
ResponsesEnd(p) ==
    /\ loop[p] = "running"
    /\ ErrorsClosed(p)
    /\ loop' = [loop EXCEPT ![p] = "ended"]
    /\ UNCHANGED <<pc, prefix, registry, chans, closePc, runPc, msg, to, crashed>>

-----------------------------------------------------------------------------
(* Close unregisters the prefix and starts the shutdown of sarama.         *)
Close(p) ==
    /\ pc[p] = "open" /\ closePc[p] = "idle"
    /\ closePc' = [closePc EXCEPT ![p] = "waiting"]
    /\ registry' = [registry EXCEPT ![prefix[p]] = "free"]
    /\ UNCHANGED <<pc, prefix, chans, loop, runPc, msg, to, crashed>>

(* asyncProducer.shutdown: the dispatcher gets the flag; when no message   *)
(* is counted the input and the errors are closed, which makes a           *)
(* dispatcher that is sending a refusal panic, then the successes.         *)
Shutdown(p) ==
    /\ \/ /\ chans[p] = "open" /\ closePc[p] = "waiting"
          /\ chans' = [chans EXCEPT ![p] = "flagged"]
          /\ UNCHANGED crashed
       \/ /\ chans[p] = "flagged" /\ Of(p, Counted) = {}
          /\ chans' = [chans EXCEPT ![p] = "errors"]
          /\ crashed' = (Of(p, {"refused"}) # {})
       \/ /\ chans[p] = "errors"
          /\ chans' = [chans EXCEPT ![p] = "all"]
          /\ UNCHANGED crashed
    /\ UNCHANGED <<pc, prefix, registry, loop, closePc, runPc, msg, to>>

(* Close of an asynchronous producer collects the errors, and a goroutine  *)
(* of its own drains the successes, both next to handleProducerResponse.   *)
Collect(m) ==
    /\ to[m] \in AsyncProducers
    /\ \/ closePc[to[m]] = "waiting" /\ msg[m] \in {"err", "refused"}
       \/ closePc[to[m]] # "idle" /\ msg[m] = "ok"
    /\ msg' = [msg EXCEPT ![m] = IF @ = "ok" THEN "acked" ELSE "returned"]
    /\ UNCHANGED <<pc, prefix, registry, chans, loop, closePc, runPc, to, crashed>>

BugCloseReturns(p) ==
    /\ closePc[p] = "waiting"
    /\ chans[p] # "open"
    /\ closePc' = [closePc EXCEPT ![p] = "returned"]
    /\ UNCHANGED <<pc, prefix, registry, chans, loop, runPc, msg, to, crashed>>

(* Close returns when the errors are closed; that of a synchronous         *)
(* producer when the successes are, too.                                   *)
CloseReturns(p) ==
    /\ closePc[p] = "waiting"
    /\ ErrorsClosed(p)
    /\ p \notin AsyncProducers => chans[p] = "all"
    /\ closePc' = [closePc EXCEPT ![p] = "returned"]
    /\ UNCHANGED <<pc, prefix, registry, chans, loop, runPc, msg, to, crashed>>

-----------------------------------------------------------------------------
(* Run of a module waits for done, which Close closes when it returns.     *)
RunCalled(p) ==
    /\ p = ModuleProducer /\ pc[p] = "open" /\ runPc[p] = "idle"
    /\ runPc' = [runPc EXCEPT ![p] = "waiting"]
    /\ UNCHANGED <<pc, prefix, registry, chans, loop, closePc, msg, to, crashed>>

RunReturns(p) ==
    /\ runPc[p] = "waiting" /\ closePc[p] = "returned"
    /\ runPc' = [runPc EXCEPT ![p] = "returned"]
    /\ UNCHANGED <<pc, prefix, registry, chans, loop, closePc, msg, to, crashed>>

-----------------------------------------------------------------------------
Create(p) == Rejected(p) \/ \E x \in Prefixes : NewClientFails(p, x) \/ NewProducer(p, x)
Receive(m) == Told(m) \/ Response(m) \/ Collect(m)
Run(p) == RunCalled(p) \/ RunReturns(p)

Next ==
    /\ ~crashed
    /\ \/ \E p \in Producers :
            \/ Create(p) \/ ResponsesEnd(p) \/ Close(p) \/ Shutdown(p) \/ CloseReturns(p)
            \/ Run(p)
       \/ \E m \in Messages :
            Answered(m) \/ Receive(m) \/ \E p \in Producers : Send(m, p)

(* Brokers answer or retries run out, goroutines run, and the runner calls *)
(* Run of its modules.                                                     *)
Fairness ==
    /\ \A p \in Producers :
        /\ WF_vars(~crashed /\ Shutdown(p)) /\ WF_vars(~crashed /\ CloseReturns(p))
        /\ WF_vars(~crashed /\ ResponsesEnd(p)) /\ WF_vars(~crashed /\ Run(p))
    /\ \A m \in Messages :
        WF_vars(~crashed /\ Answered(m)) /\ WF_vars(~crashed /\ Receive(m))

Spec == Init /\ [][Next]_vars /\ Fairness

-----------------------------------------------------------------------------
(* Properties                                                              *)

(* The types of the state; what is closed was open.                        *)
TypeOK ==
    /\ pc \in [Producers -> {"new", "open", "failed"}]
    /\ prefix \in [Producers -> Prefixes \cup {"none"}]
    /\ registry \in [Prefixes -> Producers \cup {"free"}]
    /\ chans \in [Producers -> {"open", "flagged", "errors", "all"}]
    /\ loop \in [Producers -> {"none", "running", "ended"}]
    /\ closePc \in [Producers -> {"idle", "waiting", "returned"}]
    /\ runPc \in [Producers -> {"idle", "waiting", "returned"}]
    /\ msg \in [Messages -> Counted \cup {"new", "refused", "acked", "logged", "returned"}]
    /\ to \in [Messages -> Producers \cup {"none"}]
    /\ crashed \in BOOLEAN
    /\ \A p \in Producers : closePc[p] # "idle" => pc[p] = "open"

(* A prefix belongs to one producer for as long as it exports metrics      *)
(* under it. Nobody else owns a prefix, except a producer whose client     *)
(* could not be created: its prefix is lost.                               *)
PrefixOwned ==
    /\ \A p \in Producers :
        pc[p] = "open" /\ closePc[p] = "idle" => registry[prefix[p]] = p
    /\ \A x \in Prefixes : registry[x] # "free" =>
        /\ prefix[registry[x]] = x
        /\ pc[registry[x]] = "failed" \/ closePc[registry[x]] = "idle"

(* Every message that a producer took, or refused because it is closing,   *)
(* is acknowledged, or its error is logged, returned to the sender or      *)
(* returned by Close, whichever of handleProducerResponse and Close reads  *)
(* it; unless the process panics because a message was sent too late.      *)
MessagesAnswered ==
    \A m \in Messages :
        (msg[m] \in {"inFlight", "refused"})
            ~> (msg[m] \in {"acked", "logged", "returned"} \/ crashed)

(* Both channels are closed and no message is counted.                     *)
AtRest(p) == chans[p] = "all" /\ Of(p, Counted) = {}

(* kafkamod.Producer is a module as the runner expects it: the client      *)
(* works from Init until Close returns, and only then Run returns.         *)
Contract == INSTANCE ModuleContract WITH
    init <- IF pc[ModuleProducer] = "open" THEN "ready" ELSE pc[ModuleProducer],
    run <- runPc[ModuleProducer], close <- closePc[ModuleProducer],
    active <- pc[ModuleProducer] = "open" /\ ~AtRest(ModuleProducer),
    broken <- FALSE

(* Every behaviour of kafkamod.Producer is one of a module.                *)
ImplementsModule == Contract!Spec
=============================================================================
