----------------------------- MODULE MultiMark -----------------------------
(***************************************************************************)
(* MultiPartitionMark and Serial of kafka/middleware, around a handler     *)
(* that buffers messages: the claim goroutines of all partitions call the  *)
(* same handler, which collects messages, writes them out when it decides  *)
(* to, and then calls mark, that is markAll.                               *)
(*                                                                         *)
(* The two middlewares can be nested in either order:                      *)
(*   "outside"  Serial(MultiPartitionMark(handler))                        *)
(*   "inside"   MultiPartitionMark(Serial(handler))                        *)
(***************************************************************************)
EXTENDS Integers, FiniteSets

CONSTANTS
    Claims,       \* the claimed topic-partitions
    PartitionOf,  \* msg.Partition of their messages (the topic is ignored)
    MaxOffset,    \* messages per claim
    MaxSessions   \* bound on the number of consumer group sessions

NoOne == "none"

ASSUME MultiMarkAssumption ==
    /\ NoOne \notin Claims
    /\ MaxOffset \in Nat /\ MaxSessions \in Nat \ {0}
    /\ DOMAIN PartitionOf = Claims

Offsets == 0..(MaxOffset - 1)
Numbers == {PartitionOf[c] : c \in Claims}
NoMark == [claim |-> NoOne, offset |-> -1, session |-> 0]

VARIABLES
    serial,    \* where Serial is
    session,   \* the number of the current session
    pc,        \* the goroutine of each claim
    next,      \* the offset of its current or next message
    lock,      \* the holder of Serial's mutex
    markers,   \* the map markers, NoMark where it has no entry
    buffer,    \* the messages the handler has collected
    written,   \* the messages it has written out
    refused,   \* the messages it returned an error for instead of taking them,
               \* and has not taken since
    marked     \* per claim, the offset up to which messages are marked

vars == <<serial, session, pc, next, lock, markers, buffer, written, refused, marked>>

Init ==
    /\ serial \in {"outside", "inside"}
    /\ session = 1
    /\ pc = [c \in Claims |-> "idle"]
    /\ next = [c \in Claims |-> 0]
    /\ lock = NoOne
    /\ markers = [p \in Numbers |-> NoMark]
    /\ buffer = {} /\ written = {} /\ refused = {}
    /\ marked = [c \in Claims |-> 0]

-----------------------------------------------------------------------------
(* Serial: lock.Lock() before its next handler is called.                  *)
SerialLock(c) ==
    /\ lock = NoOne
    /\ lock' = c
    /\ \/ serial = "outside" /\ pc[c] = "idle" /\ next[c] < MaxOffset
          /\ pc' = [pc EXCEPT ![c] = "store"]
       \/ serial = "inside" /\ pc[c] = "stored"
          /\ pc' = [pc EXCEPT ![c] = "handle"]
    /\ UNCHANGED <<serial, session, next, markers, buffer, written, refused, marked>>

BugStoreMarker(c) ==
    /\ pc[c] = "store" \/ (serial = "inside" /\ pc[c] = "idle" /\ next[c] < MaxOffset)
    /\ IF markers[PartitionOf[c]] = NoMark
         THEN markers' = [markers EXCEPT ![PartitionOf[c]] =
                    [claim |-> c, offset |-> next[c], session |-> session]]
         ELSE UNCHANGED markers
    /\ pc' = [pc EXCEPT ![c] = IF serial = "outside" THEN "handle" ELSE "stored"]
    /\ UNCHANGED <<serial, session, next, lock, buffer, written, refused, marked>>

BugStoreNextOffset(c) ==
    /\ pc[c] = "store" \/ (serial = "inside" /\ pc[c] = "idle" /\ next[c] < MaxOffset)
    /\ markers' = [markers EXCEPT ![PartitionOf[c]] =
            [claim |-> c, offset |-> next[c] + 1, session |-> session]]
    /\ pc' = [pc EXCEPT ![c] = IF serial = "outside" THEN "handle" ELSE "stored"]
    /\ UNCHANGED <<serial, session, next, lock, buffer, written, refused, marked>>

(* MultiPartitionMark: markers[msg.Partition] = mark, under its own lock.  *)
StoreMarker(c) ==
    /\ pc[c] = "store" \/ (serial = "inside" /\ pc[c] = "idle" /\ next[c] < MaxOffset)
    /\ markers' = [markers EXCEPT ![PartitionOf[c]] =
            [claim |-> c, offset |-> next[c], session |-> session]]
    /\ pc' = [pc EXCEPT ![c] = IF serial = "outside" THEN "handle" ELSE "stored"]
    /\ UNCHANGED <<serial, session, next, lock, buffer, written, refused, marked>>

(* The handler takes the message into its buffer ...                       *)
Buffer(c) ==
    /\ pc[c] = "handle"
    /\ buffer' = buffer \cup {<<c, next[c]>>}
    /\ refused' = refused \ {<<c, next[c]>>}
    /\ pc' = [pc EXCEPT ![c] = "buffered"]
    /\ UNCHANGED <<serial, session, next, lock, markers, written, marked>>

(* ... and may decide to write the buffer out.                             *)
Write(c) ==
    /\ pc[c] = "buffered"
    /\ written' = written \cup buffer
    /\ buffer' = {}
    /\ pc' = [pc EXCEPT ![c] = "mark"]
    /\ UNCHANGED <<serial, session, next, lock, markers, refused, marked>>

(* What session.MarkMessage does for the stored mark function m: offsets   *)
(* only move forward, and a session that is over has no effect.            *)
MarkedBy(m, c, cur) ==
    m.claim = c /\ m.session = cur

(* markAll: every stored mark function is called and removed.              *)
MarkAll(c) ==
    /\ pc[c] = "mark"
    /\ marked' = [d \in Claims |->
            LET m == markers[PartitionOf[d]]
            IN IF MarkedBy(m, d, session) /\ m.offset + 1 > marked[d]
                 THEN m.offset + 1 ELSE marked[d]]
    /\ markers' = [p \in Numbers |-> NoMark]
    /\ pc' = [pc EXCEPT ![c] = "return"]
    /\ UNCHANGED <<serial, session, next, lock, buffer, written, refused>>

(* The handler returns, Serial unlocks, ConsumeClaim takes the next        *)
(* message.                                                                *)
Return(c) ==
    /\ pc[c] \in {"buffered", "return"}
    /\ pc' = [pc EXCEPT ![c] = "idle"]
    /\ next' = [next EXCEPT ![c] = @ + 1]
    /\ lock' = NoOne
    /\ UNCHANGED <<serial, session, markers, buffer, written, refused, marked>>

(* The handler returns an error: before it took the message, or after it,  *)
(* when a write or a mark of its own fails. Serial unlocks, ConsumeClaim   *)
(* returns, and the marker of the message stays in the map.                *)
Fail(c) ==
    /\ pc[c] \in {"handle", "buffered", "mark", "return"}
    /\ refused' = IF pc[c] = "handle" THEN refused \cup {<<c, next[c]>>} ELSE refused
    /\ pc' = [pc EXCEPT ![c] = "failed"]
    /\ lock' = NoOne
    /\ UNCHANGED <<serial, session, next, markers, buffer, written, marked>>

(* A rebalance, or the end of the session after a failure: every           *)
(* ConsumeClaim has returned; the next session starts at the marked        *)
(* offsets. The markers of the old session stay in the map, the buffer of  *)
(* the handler as well.                                                    *)
Rebalance ==
    /\ session < MaxSessions
    /\ \A c \in Claims : pc[c] \in {"idle", "failed"}
    /\ session' = session + 1
    /\ pc' = [c \in Claims |-> "idle"]
    /\ next' = marked
    /\ UNCHANGED <<serial, lock, markers, buffer, written, refused, marked>>

(* The process is restarted: what was buffered and not written is gone.    *)
Restart ==
    /\ session < MaxSessions
    /\ session' = session + 1
    /\ pc' = [c \in Claims |-> "idle"]
    /\ next' = marked
    /\ lock' = NoOne
    /\ markers' = [p \in Numbers |-> NoMark]
    /\ buffer' = {}
    /\ UNCHANGED <<serial, written, refused, marked>>

Next ==
    \/ Rebalance \/ Restart
    \/ \E c \in Claims :
        SerialLock(c) \/ StoreMarker(c) \/ Buffer(c) \/ Write(c) \/ MarkAll(c) \/ Return(c)
        \/ Fail(c)

Spec == Init /\ [][Next]_vars

-----------------------------------------------------------------------------
(* Properties                                                              *)

(* The types of the state; a claim never runs past its messages.           *)
TypeOK ==
    /\ serial \in {"outside", "inside"}
    /\ session \in 1..MaxSessions
    /\ pc \in [Claims -> {"idle", "store", "stored", "handle", "buffered", "mark", "return",
                        "failed"}]
    /\ next \in [Claims -> 0..MaxOffset]
    /\ lock \in Claims \cup {NoOne}
    /\ markers \in [Numbers -> {NoMark} \cup
            [claim : Claims, offset : Offsets, session : 1..MaxSessions]]
    /\ buffer \subseteq Claims \X Offsets
    /\ written \subseteq Claims \X Offsets /\ refused \subseteq Claims \X Offsets
    /\ marked \in [Claims -> 0..MaxOffset]

(* What is marked, and so not delivered again after a restart, has been    *)
(* written, although markAll marks for all partitions and the markers of   *)
(* an old session survive a rebalance. The only messages that are lost are *)
(* those the handler refused: their markers stay in the map, and a markAll *)
(* of another claim calls them. It needs Serial around MultiPartitionMark: *)
(* inside it, another claim's markAll marks a message between              *)
(* markers[...] = mark and its handler.                                    *)
MarkedWasWritten ==
    serial = "outside" =>
        \A c \in Claims : \A o \in 0..(marked[c] - 1) : <<c, o>> \in written \cup refused

(* markAll forgets no partition: right after it, with Serial outside, the  *)
(* caller's message is marked, and so is everything the handler took in    *)
(* this session from a claim whose partition number no other topic shares. *)
WrittenGetsMarked ==
    serial = "outside" =>
        \A c \in Claims : pc[c] = "return" =>
            /\ marked[c] > next[c]
            /\ \A d \in Claims :
                (\A e \in Claims : PartitionOf[d] = PartitionOf[e] => e = d)
                    => marked[d] >= next[d]
=============================================================================
