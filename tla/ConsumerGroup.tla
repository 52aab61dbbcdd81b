--------------------------- MODULE ConsumerGroup ---------------------------
(***************************************************************************)
(* One call of sarama's ConsumerGroup.Consume(ctx, topics, handler), as    *)
(* far as the consumers of this library can observe it: joining the group, *)
(* the session with one ConsumeClaim goroutine per assigned partition, and *)
(* the release of the session. The code is vendored; the callers supply    *)
(* the bodies of their callbacks.                                          *)
(***************************************************************************)
EXTENDS FiniteSets

CONSTANT Partitions     \* the partitions that the group assigns to us

VARIABLES
    session,   \* where Consume stands
    claim      \* the ConsumeClaim goroutine of each partition

groupVars == <<session, claim>>

SessionStates == {"idle", "joining", "open", "releasing", "done", "failed"}
ClaimStates == {"none", "assigned", "blocked", "waiting", "handling", "exited"}

GroupTypeOK ==
    /\ session \in SessionStates
    /\ claim \in [Partitions -> ClaimStates]

GroupInit ==
    /\ session = "idle"
    /\ claim = [p \in Partitions |-> "none"]

(* Consume is called: newSession refuses a context that is cancelled.      *)
ConsumeCalled(cancelled) ==
    /\ session = "idle"
    /\ session' = IF cancelled THEN "failed" ELSE "joining"
    /\ UNCHANGED claim

(* Metadata, join, sync or Setup fails; or the context is cancelled before *)
(* or between the attempts of newSession, which then returns ctx.Err().    *)
JoinFails ==
    /\ session = "joining"
    /\ session' = "failed"
    /\ UNCHANGED claim

(* The group is joined, Setup has run, the ConsumeClaim goroutines start.  *)
Joined ==
    /\ session = "joining"
    /\ session' = "open"
    /\ claim' = [p \in Partitions |-> "assigned"]

(* The session's context ends: rebalance or lost heartbeat, or its parent, *)
(* the caller's context, was cancelled.                                    *)
SessionEnds ==
    /\ session = "open"
    /\ session' = "releasing"
    /\ UNCHANGED claim

(* A claim goroutine calls ConsumeClaim, which goes to its first state, or *)
(* exits at once when the session is over.                                 *)
ClaimStarts(p, first) ==
    /\ claim[p] = "assigned"
    /\ claim' = [claim EXCEPT ![p] = IF session = "open" THEN first ELSE "exited"]
    /\ UNCHANGED session

(* A message arrives; messages that were buffered arrive after the end of  *)
(* the session as well.                                                    *)
MessageArrives(p) ==
    /\ claim[p] = "waiting"
    /\ claim' = [claim EXCEPT ![p] = "handling"]
    /\ UNCHANGED session

(* ConsumeClaim returns: the first one to return ends the session.         *)
ClaimExits(p) ==
    /\ claim' = [claim EXCEPT ![p] = "exited"]
    /\ session' = IF session = "open" THEN "releasing" ELSE session

(* claim.Messages() is closed and drained.                                 *)
MessagesClosed(p) ==
    /\ claim[p] = "waiting" /\ session = "releasing"
    /\ ClaimExits(p)

(* Every ConsumeClaim has returned, Cleanup runs, Consume returns: nil, or *)
(* the error of Cleanup.                                                   *)
Released(outcome) ==
    /\ session = "releasing"
    /\ \A p \in Partitions : claim[p] = "exited"
    /\ session' = outcome
    /\ claim' = [p \in Partitions |-> "none"]

(* The caller takes the result.                                            *)
ConsumeReturned ==
    /\ session \in {"done", "failed"}
    /\ session' = "idle"
    /\ UNCHANGED claim
=============================================================================
