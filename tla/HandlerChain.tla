---------------------------- MODULE HandlerChain ----------------------------
(***************************************************************************)
(* The middlewares of kafka/middleware that decide what happens to a       *)
(* message whose handler fails: retries, marking, ignored errors and       *)
(* recovered panics. One claim goroutine delivers the messages of a        *)
(* partition in order; an error (or an unrecovered panic) stops the        *)
(* consumer, which is then started again at the marked offset.             *)
(*                                                                         *)
(* chain names the composition in use:                                     *)
(*   "Mark"           Mark(handler)                                        *)
(*   "MarkIfNoError"  MarkIfNoError(handler)                               *)
(*   "Retry"          MarkIfNoError(Retry(max, wait, handler))             *)
(*   "IgnoreErrors"   Mark(IgnoreErrors(handler))                          *)
(*   "Defaults"       CommonDefaultsWithRetry(max, wait, handler)          *)
(* with Recover around it or not; Trace, Log, Duration and Middleware pass *)
(* messages and errors through.                                            *)
(***************************************************************************)
EXTENDS Naturals

CONSTANTS
    MaxRetries,   \* maxRetries
    Messages,     \* messages in the partition
    MaxStarts     \* bound on the number of times the consumer is started

ASSUME ChainAssumption == MaxRetries \in Nat /\ Messages \in Nat /\ MaxStarts \in Nat \ {0}

Chains == {"Mark", "MarkIfNoError", "Retry", "IgnoreErrors", "Defaults"}

(* What the handler can do with a message: errors.As finds a retryable or  *)
(* a markable error. Neither type unwraps, so of Retryable(Markable(err))  *)
(* only the outer one counts.                                              *)
Results == {"nil", "plain", "retryable", "markable", "panic"}

VARIABLES
    chain, recovering,  \* the composition, with Recover or not
    starts,   \* how often the consumer was started
    pc,       \* "idle", "calling" the handler, "stopped" by an error,
              \* "crashed" by a panic
    offset,   \* the message at hand
    tries,    \* the counter of Retry: calls of the handler for this delivery
    result,   \* what the last call for each message returned
    marked    \* the offset of the first message that is not marked

vars == <<chain, recovering, starts, pc, offset, tries, result, marked>>

Init ==
    /\ chain \in Chains /\ recovering \in BOOLEAN
    /\ starts = 1 /\ pc = "idle"
    /\ offset = 0 /\ tries = 0
    /\ result = [o \in 0..(Messages - 1) |-> "none"]
    /\ marked = 0

-----------------------------------------------------------------------------
Deliver ==
    /\ pc = "idle" /\ offset < Messages
    /\ pc' = "calling"
    /\ tries' = 1
    /\ UNCHANGED <<chain, recovering, starts, offset, result, marked>>

BugTriesAgain(r) == chain \in {"Retry", "Defaults"} /\ r = "retryable" /\ tries < MaxRetries

(* The condition of the loops in Retry and CommonDefaultsWithRetry.        *)
TriesAgain(r) == chain \in {"Retry", "Defaults"} /\ r = "retryable" /\ tries <= MaxRetries

(* The handler fails with a retryable error and is called again.           *)
CallAgain ==
    /\ pc = "calling"
    /\ TriesAgain("retryable")
    /\ result' = [result EXCEPT ![offset] = "retryable"]
    /\ tries' = tries + 1
    /\ UNCHANGED <<chain, recovering, starts, pc, offset, marked>>

BugMarks(r) ==
    \/ r = "nil"
    \/ chain = "Mark" /\ r # "panic"
    \/ chain = "IgnoreErrors" /\ r # "panic"
    \/ chain \in {"MarkIfNoError", "Retry"} /\ r = "markable"
    \/ chain = "Defaults" /\ r # "panic"

(* Whether the chain marks a message whose last call returned r. A panic   *)
(* passes every middleware but Recover, and no mark is set on its way.     *)
Marks(r) ==
    \/ r = "nil"
    \/ chain = "Mark" /\ r # "panic"
    \/ chain = "IgnoreErrors" /\ r # "panic"
    \/ chain \in {"MarkIfNoError", "Retry"} /\ r = "markable"
    \/ chain = "Defaults" /\ r \in {"plain", "markable"}

BugFailsNever(r) == r = "panic" \/ (chain = "Mark" /\ r # "nil")

BugFailsAlways(r) == r # "nil"

(* Whether the chain ends with an error (or a panic that leaves it): Mark  *)
(* passes errors on after marking.                                         *)
Fails(r) == r = "panic" \/ (r # "nil" /\ (chain = "Mark" \/ ~Marks(r)))

(* The last call for this message, and what the chain makes of it.         *)
LastCall(r) ==
    /\ pc = "calling"
    /\ ~TriesAgain(r)
    /\ result' = [result EXCEPT ![offset] = r]
    /\ marked' = IF Marks(r) THEN offset + 1 ELSE marked
    /\ pc' = IF Fails(r) THEN (IF r = "panic" /\ ~recovering THEN "crashed" ELSE "stopped")
                        ELSE "idle"
    /\ offset' = IF Fails(r) THEN offset ELSE offset + 1
    /\ UNCHANGED <<chain, recovering, starts, tries>>

(* The consumer is started again, after an error, or a crash or rebalance  *)
(* between or during calls.                                                *)
Start ==
    /\ starts < MaxStarts
    /\ starts' = starts + 1
    /\ pc' = "idle"
    /\ offset' = marked
    /\ UNCHANGED <<chain, recovering, tries, result, marked>>

Next == Deliver \/ CallAgain \/ (\E r \in Results : LastCall(r)) \/ Start

Spec == Init /\ [][Next]_vars

-----------------------------------------------------------------------------
(* Properties                                                              *)

(* The types of the state.                                                 *)
TypeOK ==
    /\ chain \in Chains /\ recovering \in BOOLEAN
    /\ starts \in 1..MaxStarts
    /\ pc \in {"idle", "calling", "stopped", "crashed"}
    /\ offset \in 0..Messages /\ marked \in 0..Messages
    /\ tries \in Nat
    /\ result \in [0..(Messages - 1) -> Results \cup {"none"}]

(* With none of the five compositions is a message skipped, over any       *)
(* number of restarts: a message that is marked was handled, or failed in  *)
(* a way the chain gives up on; with CommonDefaultsWithRetry ("If the      *)
(* error is retryable and it does not succeed [...], error is returned")   *)
(* never with a retryable error, and with MarkIfNoError, the outermost     *)
(* middleware or inside Recover, only with a markable one.                 *)
NothingSkipped ==
    \A o \in 0..(marked - 1) :
        /\ result[o] \notin {"none", "panic"}
        /\ chain = "Defaults" => result[o] # "retryable"
        /\ chain \in {"MarkIfNoError", "Retry"} => result[o] \in {"nil", "markable"}

(* Retry and CommonDefaultsWithRetry call the handler again maxRetries     *)
(* times and no more, and give a retryable error up only after all of them *)
(* ("does not succeed in given amount of maxRetries"), also after restarts *)
(* in the middle of the retries.                                           *)
RetriesSpent ==
    /\ tries <= MaxRetries + 1
    /\ chain \in {"Retry", "Defaults"} /\ pc = "stopped" /\ result[offset] = "retryable"
           => tries = MaxRetries + 1

(* When the consumer stops, the message it stopped at is delivered again   *)
(* after the restart; only Mark gives it up ("always mark offset").        *)
StopKeepsMessage == pc \in {"stopped", "crashed"} /\ chain # "Mark" => marked = offset

(* Everything before the message at hand is marked: no message is          *)
(* delivered a second time while the consumer runs.                        *)
DeliveredInStep == pc \in {"idle", "calling"} => offset = marked
=============================================================================
