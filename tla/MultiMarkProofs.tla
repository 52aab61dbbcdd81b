-------------------------- MODULE MultiMarkProofs --------------------------
(***************************************************************************)
(* Serial(MultiPartitionMark(handler)) loses no message but those the      *)
(* handler refused, and forgets no partition: proved for all claims,       *)
(* partition numbers, offsets and sessions.                                *)
(***************************************************************************)
EXTENDS MultiMark, TLAPS

Alone(d) == \A e \in Claims : PartitionOf[d] = PartitionOf[e] => e = d

(* Whose message is at hand has one.                                       *)
HasMessage == \A c \in Claims : pc[c] # "idle" => next[c] < MaxOffset

(* Serial outside: between Lock and Unlock there is one claim.             *)
Exclusive ==
    \A c \in Claims : pc[c] # "stored" /\ (pc[c] \notin {"idle", "failed"} => lock = c)

(* The claim that has stored its marker finds it there when it marks.      *)
OwnMarker ==
    \A c \in Claims : pc[c] \in {"handle", "buffered", "mark"} =>
        markers[PartitionOf[c]] = [claim |-> c, offset |-> next[c], session |-> session]

(* A marker of this session belongs to a message that was handled, that    *)
(* failed, or that the holder of the lock is about to handle.              *)
MarkersTaken ==
    \A p \in Numbers :
        /\ markers[p].session <= session
        /\ markers[p].session = session =>
            \E d \in Claims :
                /\ markers[p].claim = d
                /\ \/ markers[p].offset < next[d]
                   \/ markers[p].offset = next[d] /\ pc[d] \in {"handle", "buffered", "mark", "failed"}

(* Everything the claims have delivered in this session, or that was       *)
(* marked before it, is in the buffer, written or refused; at markAll the  *)
(* buffer is written.                                                      *)
Collected ==
    \A c \in Claims :
        /\ \A o \in 0..(next[c] - 1) : <<c, o>> \in buffer \cup written \cup refused
        /\ pc[c] \in {"buffered", "mark", "return", "failed"} =>
            <<c, next[c]>> \in buffer \cup written \cup refused
        /\ pc[c] = "mark" => buffer = {}

(* A message that is still to be handled is not marked.                    *)
NotAhead ==
    \A c \in Claims :
        /\ pc[c] \in {"idle", "store", "handle", "buffered", "mark"} => marked[c] <= next[c]
        /\ pc[c] = "return" => marked[c] <= next[c] + 1

(* What was delivered and is not marked has its marker in the map, if no   *)
(* other claim has the same partition number.                              *)
Pending ==
    \A d \in Claims : Alone(d) =>
        \/ marked[d] >= next[d]
        \/ /\ markers[PartitionOf[d]].claim = d /\ markers[PartitionOf[d]].session = session
           /\ markers[PartitionOf[d]].offset >= next[d] - 1

SerialInv == Exclusive /\ OwnMarker /\ MarkersTaken /\ Collected /\ Pending /\ NotAhead

IInv ==
    /\ TypeOK /\ HasMessage
    /\ serial = "outside" => SerialInv
    /\ MarkedWasWritten /\ WrittenGetsMarked

-----------------------------------------------------------------------------
Marks == [claim : Claims, offset : Offsets, session : 1..MaxSessions]

(* NoMark and the numbers of the claims.                                   *)
LEMMA MarkFacts ==
  /\ NoMark.claim = NoOne /\ NoMark.offset = -1 /\ NoMark.session = 0
  /\ \A c \in Claims : PartitionOf[c] \in Numbers
  BY DEF NoMark, Numbers

(* A mark function that was stored carries what StoreMarker put there.     *)
LEMMA StoredMark ==
  ASSUME NEW c \in Claims, NEW o \in Offsets, NEW n \in 1..MaxSessions
  PROVE  [claim |-> c, offset |-> o, session |-> n] \in Marks
  BY DEF Marks

(* The initial states satisfy the invariant.                               *)
LEMMA InitIInv == Init => IInv
  <1> SUFFICES ASSUME Init PROVE IInv
    OBVIOUS
  <1> USE MultiMarkAssumption DEF Init
  <1>1. TypeOK /\ HasMessage
    BY DEF TypeOK, HasMessage
  <1>2. Exclusive /\ OwnMarker /\ Collected /\ Pending /\ NotAhead
    BY DEF Exclusive, OwnMarker, Collected, Pending, NotAhead
  <1>3. MarkersTaken
    BY MarkFacts DEF MarkersTaken
  <1>4. MarkedWasWritten /\ WrittenGetsMarked
    BY DEF MarkedWasWritten, WrittenGetsMarked
  <1> QED BY <1>1, <1>2, <1>3, <1>4 DEF IInv, SerialInv

(* Every step keeps the types, and no claim runs past its messages.        *)
LEMMA NextType ==
  ASSUME TypeOK, HasMessage, [Next]_vars
  PROVE  TypeOK' /\ HasMessage'
  <1> USE MultiMarkAssumption DEF TypeOK, HasMessage
  <1>1. ASSUME NEW c \in Claims, SerialLock(c) PROVE TypeOK' /\ HasMessage'
    BY <1>1 DEF SerialLock
  <1>2. ASSUME NEW c \in Claims, StoreMarker(c) PROVE TypeOK' /\ HasMessage'
    <2>1. next[c] \in Offsets
      BY <1>2 DEF StoreMarker, Offsets
    <2>2. [claim |-> c, offset |-> next[c], session |-> session] \in Marks
      BY <2>1, StoredMark
    <2>3. markers' \in [Numbers -> {NoMark} \cup Marks]
      BY <1>2, <2>2 DEF StoreMarker, Marks
    <2> QED BY <1>2, <2>3 DEF StoreMarker, Marks
  <1>3. ASSUME NEW c \in Claims, Buffer(c) PROVE TypeOK' /\ HasMessage'
    <2>1. <<c, next[c]>> \in Claims \X Offsets
      BY <1>3 DEF Buffer, Offsets
    <2> QED BY <1>3, <2>1 DEF Buffer
  <1>4. ASSUME NEW c \in Claims, Write(c) PROVE TypeOK' /\ HasMessage'
    BY <1>4 DEF Write
  <1>5. ASSUME NEW c \in Claims, MarkAll(c) PROVE TypeOK' /\ HasMessage'
    <2>1. marked' \in [Claims -> 0..MaxOffset]
      <3>1. \A d \in Claims : markers[PartitionOf[d]] \in {NoMark} \cup Marks
        BY MarkFacts DEF Marks
      <3>2. ASSUME NEW d \in Claims,
                   LET m == markers[PartitionOf[d]]
                   IN  MarkedBy(m, d, session) /\ m.offset + 1 > marked[d]
            PROVE  markers[PartitionOf[d]].offset + 1 \in 0..MaxOffset
        BY <3>1, <3>2, MarkFacts DEF MarkedBy, Marks, Offsets
      <3> QED BY <1>5, <3>2 DEF MarkAll
    <2> QED BY <1>5, <2>1 DEF MarkAll
  <1>6. ASSUME NEW c \in Claims, Return(c) PROVE TypeOK' /\ HasMessage'
    BY <1>6 DEF Return
  <1>7. ASSUME NEW c \in Claims, Fail(c) PROVE TypeOK' /\ HasMessage'
    <2>1. <<c, next[c]>> \in Claims \X Offsets
      BY <1>7 DEF Fail, Offsets
    <2> QED BY <1>7, <2>1 DEF Fail
  <1>8. CASE Rebalance
    BY <1>8 DEF Rebalance
  <1>9. CASE Restart
    BY <1>9 DEF Restart
  <1>10. CASE UNCHANGED vars
    BY <1>10 DEF vars
  <1> QED BY <1>1, <1>2, <1>3, <1>4, <1>5, <1>6, <1>7, <1>8, <1>9, <1>10 DEF Next

-----------------------------------------------------------------------------
Resting == {"idle", "failed"}

(* With Serial outside, no other claim is inside when one takes a step.    *)
LEMMA OthersRest ==
  ASSUME IInv, serial = "outside", NEW c \in Claims,
         SerialLock(c) \/ pc[c] \notin Resting,
         NEW d \in Claims, d # c
  PROVE  pc[d] \in Resting
  BY MultiMarkAssumption DEF IInv, SerialInv, Exclusive, SerialLock, Resting

(* The rest of the invariant, for Serial outside.                          *)
Rest == SerialInv /\ MarkedWasWritten /\ WrittenGetsMarked

(* Taking the lock and storing the marker.                                 *)
LEMMA EnterKeeps ==
  ASSUME IInv, serial = "outside", TypeOK', NEW c \in Claims, SerialLock(c) \/ StoreMarker(c)
  PROVE  Rest'
  <1> USE MultiMarkAssumption DEF IInv, SerialInv, TypeOK, Resting
  <1>1. /\ UNCHANGED <<serial, session, next, buffer, written, refused, marked>>
        /\ pc'[c] \in {"store", "handle"} /\ \A d \in Claims : d # c => pc'[d] = pc[d] /\ pc[d] \in Resting
        /\ lock' = c
    <2>1. CASE SerialLock(c)
      BY <2>1, OthersRest DEF SerialLock
    <2>2. CASE StoreMarker(c)
      BY <2>2, OthersRest DEF StoreMarker, Exclusive
    <2> QED BY <2>1, <2>2
  <1>2. Exclusive' /\ Collected' /\ NotAhead'
    <2>1. pc[c] \in {"idle", "store"}
      BY DEF SerialLock, StoreMarker, Exclusive
    <2> QED BY <1>1, <2>1 DEF Exclusive, Collected, NotAhead
  <1>3. MarkedWasWritten' /\ WrittenGetsMarked'
    BY <1>1 DEF MarkedWasWritten, WrittenGetsMarked
  <1>4. OwnMarker' /\ MarkersTaken' /\ Pending'
    <2>1. CASE SerialLock(c)
      <3>1. pc'[c] = "store" /\ pc[c] = "idle" /\ markers' = markers
        BY <2>1 DEF SerialLock
      <3> QED BY <1>1, <3>1 DEF OwnMarker, MarkersTaken, Pending
    <2>2. CASE StoreMarker(c)
      <3> DEFINE mark == [claim |-> c, offset |-> next[c], session |-> session]
      <3>1. /\ pc'[c] = "handle" /\ markers' = [markers EXCEPT ![PartitionOf[c]] = mark]
            /\ PartitionOf[c] \in Numbers
        BY <2>2, MarkFacts DEF StoreMarker
      <3>2. mark.claim = c /\ mark.offset = next[c] /\ mark.session = session
        OBVIOUS
      <3>3. pc[c] = "store"
        BY <2>2 DEF StoreMarker
      <3> HIDE DEF mark
      <3>4. OwnMarker'
        BY <1>1, <3>1 DEF OwnMarker, mark
      <3>5. MarkersTaken'
        BY <1>1, <3>1, <3>2, <3>3 DEF MarkersTaken
      <3>6. Pending'
        BY <1>1, <3>1, <3>2, MarkFacts DEF Pending, Alone
      <3> QED BY <3>4, <3>5, <3>6
    <2> QED BY <2>1, <2>2
  <1> QED BY <1>2, <1>3, <1>4 DEF Rest

(* The handler takes the message, and writes the buffer.                   *)
LEMMA HandleKeeps ==
  ASSUME IInv, serial = "outside", TypeOK', NEW c \in Claims, Buffer(c) \/ Write(c)
  PROVE  Rest'
  <1> USE MultiMarkAssumption DEF IInv, SerialInv, TypeOK, Resting
  <1>1. /\ UNCHANGED <<serial, session, next, lock, markers, marked>>
        /\ pc[c] \in {"handle", "buffered"} /\ pc'[c] \in {"buffered", "mark"}
        /\ \A d \in Claims : d # c => pc'[d] = pc[d] /\ pc[d] \in Resting
        /\ written \subseteq written' /\ refused \ {<<c, next[c]>>} \subseteq refused'
        /\ buffer \cup written \cup refused \subseteq buffer' \cup written' \cup refused'
    BY OthersRest DEF Buffer, Write
  <1>2. Exclusive' /\ OwnMarker' /\ Pending' /\ NotAhead'
    BY <1>1 DEF Exclusive, OwnMarker, Pending, NotAhead
  <1>3. MarkersTaken'
    BY <1>1 DEF MarkersTaken
  <1>4. Collected'
    <2>1. CASE Buffer(c)
      <3>1. pc'[c] = "buffered" /\ <<c, next[c]>> \in buffer'
        BY <2>1 DEF Buffer
      <3> QED BY <1>1, <3>1 DEF Collected
    <2>2. CASE Write(c)
      <3>1. pc[c] = "buffered" /\ buffer' = {}
        BY <2>2 DEF Write
      <3> QED BY <1>1, <3>1 DEF Collected
    <2> QED BY <2>1, <2>2
  <1>5. MarkedWasWritten'
    <2> SUFFICES ASSUME NEW d \in Claims, NEW o \in 0..(marked[d] - 1)
                 PROVE  <<d, o>> \in written' \cup refused'
      BY <1>1 DEF MarkedWasWritten
    <2>1. <<d, o>> \in written \cup refused
      BY DEF MarkedWasWritten
    <2>2. d = c => o < next[c]
      BY <1>1 DEF NotAhead
    <2> QED BY <1>1, <2>1, <2>2
  <1>6. WrittenGetsMarked'
    BY <1>1 DEF WrittenGetsMarked
  <1> QED BY <1>2, <1>3, <1>4, <1>5, <1>6 DEF Rest

(* markAll: what it marks was written, because the buffer is; and it marks *)
(* whatever has its marker in the map.                                     *)
LEMMA MarkAllKeeps ==
  ASSUME IInv, serial = "outside", TypeOK', NEW c \in Claims, MarkAll(c)
  PROVE  Rest'
  <1> USE MultiMarkAssumption DEF IInv, SerialInv, TypeOK, Resting
  <1>1. /\ UNCHANGED <<serial, session, next, lock, buffer, written, refused>>
        /\ pc[c] = "mark" /\ pc'[c] = "return"
        /\ \A d \in Claims : d # c => pc'[d] = pc[d] /\ pc[d] \in Resting
        /\ \A p \in Numbers : markers'[p] = NoMark
        /\ buffer = {}
    BY OthersRest DEF MarkAll, Collected
  <1>2. ASSUME NEW d \in Claims
        PROVE  LET m == markers[PartitionOf[d]]
               IN  marked'[d] = IF MarkedBy(m, d, session) /\ m.offset + 1 > marked[d]
                                  THEN m.offset + 1 ELSE marked[d]
    BY DEF MarkAll
  <1>3. ASSUME NEW d \in Claims, markers[PartitionOf[d]].claim = d,
               markers[PartitionOf[d]].session = session
        PROVE  /\ markers[PartitionOf[d]].offset \in Int
               /\ marked'[d] >= markers[PartitionOf[d]].offset + 1
    <2>1. markers[PartitionOf[d]] \in Marks
      BY <1>3, MarkFacts DEF Marks
    <2>2. markers[PartitionOf[d]].offset \in Int
      BY <2>1 DEF Marks, Offsets
    <2> QED BY <1>2, <1>3, <2>2 DEF MarkedBy
  <1>4. Exclusive' /\ OwnMarker' /\ Collected'
    BY <1>1 DEF Exclusive, OwnMarker, Collected
  <1>5. MarkersTaken'
    BY <1>1, MarkFacts DEF MarkersTaken
  <1>6. ASSUME NEW d \in Claims, Alone(d) PROVE marked'[d] >= next[d]
    <2>1. CASE marked[d] >= next[d]
      BY <1>2, <1>3, <2>1 DEF MarkedBy
    <2>2. CASE ~(marked[d] >= next[d])
      <3>1. /\ markers[PartitionOf[d]].claim = d /\ markers[PartitionOf[d]].session = session
            /\ markers[PartitionOf[d]].offset >= next[d] - 1
        BY <1>6, <2>2 DEF Pending
      <3> QED BY <1>3, <3>1
    <2> QED BY <2>1, <2>2
  <1>7. Pending'
    BY <1>1, <1>6 DEF Pending, Alone
  <1>8. marked'[c] > next[c]
    <2>1. markers[PartitionOf[c]] = [claim |-> c, offset |-> next[c], session |-> session]
      BY <1>1 DEF OwnMarker
    <2> QED BY <1>3, <2>1
  <1>9. WrittenGetsMarked'
    BY <1>1, <1>6, <1>8 DEF WrittenGetsMarked, Alone
  <1>10. MarkedWasWritten'
    <2> SUFFICES ASSUME NEW d \in Claims, NEW o \in 0..(marked'[d] - 1)
                 PROVE  <<d, o>> \in written \cup refused
      BY <1>1 DEF MarkedWasWritten
    <2>1. CASE o < marked[d]
      BY <2>1 DEF MarkedWasWritten
    <2>2. CASE ~(o < marked[d])
      <3>1. /\ markers[PartitionOf[d]].claim = d /\ markers[PartitionOf[d]].session = session
            /\ marked'[d] = markers[PartitionOf[d]].offset + 1
        BY <1>2, <2>2 DEF MarkedBy
      <3>2. PartitionOf[d] \in Numbers
        BY MarkFacts
      <3>3. \/ markers[PartitionOf[d]].offset < next[d]
            \/ markers[PartitionOf[d]].offset = next[d] /\ pc[d] \in {"handle", "buffered", "mark", "failed"}
        BY <3>1, <3>2 DEF MarkersTaken
      <3>4. CASE o < next[d]
        <4>1. o \in 0..(next[d] - 1)
          BY <3>4
        <4> QED BY <1>1, <4>1 DEF Collected
      <3>5. CASE ~(o < next[d])
        <4>1. o = next[d] /\ pc[d] \in {"mark", "failed"}
          BY <1>1, <1>3, <3>1, <3>3, <3>5
        <4> QED BY <1>1, <4>1 DEF Collected
      <3> QED BY <3>4, <3>5
    <2> QED BY <2>1, <2>2
  <1>11. NotAhead'
    <2> SUFFICES ASSUME NEW d \in Claims, pc'[d] \in {"idle", "return"}
                 PROVE  marked'[d] <= IF pc'[d] = "idle" THEN next[d] ELSE next[d] + 1
      BY <1>1 DEF NotAhead
    <2>1. CASE marked'[d] = marked[d]
      BY <1>1, <2>1 DEF NotAhead
    <2>2. CASE marked'[d] # marked[d]
      <3>1. /\ markers[PartitionOf[d]].claim = d /\ markers[PartitionOf[d]].session = session
            /\ marked'[d] = markers[PartitionOf[d]].offset + 1
        BY <1>2, <2>2 DEF MarkedBy
      <3>2. PartitionOf[d] \in Numbers
        BY MarkFacts
      <3>3. \/ markers[PartitionOf[d]].offset < next[d]
            \/ markers[PartitionOf[d]].offset = next[d] /\ pc[d] = "mark"
        BY <1>1, <3>1, <3>2 DEF MarkersTaken
      <3> QED BY <1>1, <1>3, <3>1, <3>3
    <2> QED BY <2>1, <2>2
  <1> QED BY <1>4, <1>5, <1>7, <1>9, <1>10, <1>11 DEF Rest

(* The handler returns: what it took is collected, and marked or pending.  *)
LEMMA ReturnKeeps ==
  ASSUME IInv, serial = "outside", TypeOK', NEW c \in Claims, Return(c)
  PROVE  Rest'
  <1> USE MultiMarkAssumption DEF IInv, SerialInv, TypeOK, Resting
  <1>1. /\ UNCHANGED <<serial, session, markers, buffer, written, refused, marked>>
        /\ pc[c] \in {"buffered", "return"} /\ next'[c] = next[c] + 1 /\ pc'[c] = "idle"
        /\ \A d \in Claims : d # c => pc'[d] = pc[d] /\ pc[d] \in Resting /\ next'[d] = next[d]
    BY OthersRest DEF Return
  <1>2. Exclusive' /\ OwnMarker' /\ NotAhead'
    BY <1>1 DEF Exclusive, OwnMarker, NotAhead
  <1>3. MarkersTaken'
    <2> SUFFICES ASSUME NEW p \in Numbers, markers[p].session = session
                 PROVE  \E d \in Claims :
                            /\ markers[p].claim = d
                            /\ \/ markers[p].offset < next'[d]
                               \/ markers[p].offset = next'[d] /\ pc'[d] = "failed"
      BY <1>1 DEF MarkersTaken
    <2>1. PICK d \in Claims :
            /\ markers[p].claim = d
            /\ \/ markers[p].offset < next[d]
               \/ markers[p].offset = next[d] /\ pc[d] \in {"handle", "buffered", "mark", "failed"}
      BY DEF MarkersTaken
    <2>2. markers[p].offset \in Int
      <3>1. markers[p] \in {NoMark} \cup Marks
        BY DEF Marks
      <3> QED BY <3>1, MarkFacts DEF Marks, Offsets
    <2>3. \/ markers[p].offset < next'[d]
          \/ markers[p].offset = next'[d] /\ pc'[d] = "failed"
      BY <1>1, <2>1, <2>2
    <2> QED BY <2>1, <2>3
  <1>4. Collected'
    <2> SUFFICES ASSUME NEW d \in Claims, NEW o \in 0..(next'[d] - 1)
                 PROVE  <<d, o>> \in buffer \cup written \cup refused
      BY <1>1 DEF Collected
    <2>1. CASE o < next[d]
      <3>1. o \in 0..(next[d] - 1)
        BY <2>1
      <3> QED BY <3>1 DEF Collected
    <2>2. CASE ~(o < next[d])
      <3>1. d = c /\ o = next[c]
        BY <1>1, <2>2
      <3> QED BY <1>1, <3>1 DEF Collected
    <2> QED BY <2>1, <2>2
  <1>5. Pending'
    <2> SUFFICES ASSUME NEW d \in Claims, Alone(d)
                 PROVE  \/ marked[d] >= next'[d]
                        \/ /\ markers[PartitionOf[d]].claim = d
                           /\ markers[PartitionOf[d]].session = session
                           /\ markers[PartitionOf[d]].offset >= next'[d] - 1
      BY <1>1 DEF Pending, Alone
    <2>1. CASE d # c
      BY <1>1, <2>1 DEF Pending
    <2>2. CASE d = c /\ pc[c] = "return"
      BY <1>1, <2>2 DEF WrittenGetsMarked
    <2>3. CASE d = c /\ pc[c] = "buffered"
      <3>1. markers[PartitionOf[c]] = [claim |-> c, offset |-> next[c], session |-> session]
        BY <2>3 DEF OwnMarker
      <3> QED BY <1>1, <2>3, <3>1
    <2> QED BY <1>1, <2>1, <2>2, <2>3
  <1>6. MarkedWasWritten' /\ WrittenGetsMarked'
    BY <1>1 DEF MarkedWasWritten, WrittenGetsMarked
  <1> QED BY <1>2, <1>3, <1>4, <1>5, <1>6 DEF Rest

(* The handler fails: its message is collected or refused, and its marker  *)
(* stays.                                                                  *)
LEMMA FailKeeps ==
  ASSUME IInv, serial = "outside", TypeOK', NEW c \in Claims, Fail(c)
  PROVE  Rest'
  <1> USE MultiMarkAssumption DEF IInv, SerialInv, TypeOK, Resting
  <1>1. /\ UNCHANGED <<serial, session, next, markers, buffer, written, marked>>
        /\ pc[c] \in {"handle", "buffered", "mark", "return"} /\ pc'[c] = "failed"
        /\ \A d \in Claims : d # c => pc'[d] = pc[d] /\ pc[d] \in Resting
        /\ refused \subseteq refused'
        /\ pc[c] = "handle" => <<c, next[c]>> \in refused'
    BY OthersRest DEF Fail
  <1>2. Exclusive' /\ OwnMarker' /\ MarkersTaken' /\ NotAhead' /\ Pending'
    BY <1>1 DEF Exclusive, OwnMarker, MarkersTaken, NotAhead, Pending
  <1>3. Collected'
    BY <1>1 DEF Collected
  <1>4. MarkedWasWritten' /\ WrittenGetsMarked'
    BY <1>1 DEF MarkedWasWritten, WrittenGetsMarked
  <1> QED BY <1>2, <1>3, <1>4 DEF Rest

(* A new session, after a rebalance or a restart: it begins at what is     *)
(* marked, which was written or refused; no old marker is of this session. *)
LEMMA NewSessionKeeps ==
  ASSUME IInv, serial = "outside", TypeOK', Rebalance \/ Restart
  PROVE  Rest'
  <1> USE MultiMarkAssumption DEF IInv, SerialInv, TypeOK, Resting
  <1>1. /\ UNCHANGED <<serial, written, refused, marked>> /\ session' = session + 1
        /\ next' = marked /\ \A c \in Claims : pc'[c] = "idle"
    BY DEF Rebalance, Restart
  <1>2. Exclusive' /\ OwnMarker' /\ Pending' /\ NotAhead' /\ WrittenGetsMarked'
    BY <1>1 DEF Exclusive, OwnMarker, Pending, NotAhead, WrittenGetsMarked
  <1>3. MarkersTaken'
    <2> SUFFICES ASSUME NEW p \in Numbers
                 PROVE  markers'[p].session <= session' /\ markers'[p].session # session'
      BY DEF MarkersTaken
    <2>1. markers'[p] = markers[p] \/ markers'[p] = NoMark
      BY DEF Rebalance, Restart
    <2>2. markers[p].session \in Int /\ markers[p].session <= session
      <3>1. markers[p] \in {NoMark} \cup Marks
        BY DEF Marks
      <3> QED BY <3>1, MarkFacts DEF Marks, MarkersTaken
    <2> QED BY <1>1, <2>1, <2>2, MarkFacts
  <1>4. MarkedWasWritten' /\ Collected'
    BY <1>1 DEF MarkedWasWritten, Collected
  <1> QED BY <1>2, <1>3, <1>4 DEF Rest

(* Every step of Next keeps the invariant.                                 *)
LEMMA NextIInv == IInv /\ [Next]_vars => IInv'
  <1> SUFFICES ASSUME IInv, [Next]_vars PROVE IInv'
    OBVIOUS
  <1>1. TypeOK' /\ HasMessage'
    BY NextType DEF IInv
  <1>2. serial' = serial
    BY DEF Next, SerialLock, StoreMarker, Buffer, Write, MarkAll, Return, Fail, Rebalance,
       Restart, vars
  <1>3. CASE serial = "outside"
    <2>1. CASE UNCHANGED vars
      <3>1. Exclusive' /\ OwnMarker' /\ MarkersTaken' /\ Collected' /\ Pending' /\ NotAhead'
        BY <1>3, <2>1 DEF vars, IInv, SerialInv, Exclusive, OwnMarker, MarkersTaken, Collected,
           Pending, NotAhead
      <3>2. MarkedWasWritten' /\ WrittenGetsMarked'
        BY <2>1 DEF vars, IInv, MarkedWasWritten, WrittenGetsMarked
      <3> QED BY <1>1, <3>1, <3>2 DEF IInv, SerialInv
    <2>2. CASE Next
      <3>1. Rest'
        BY <1>1, <1>3, <2>2, EnterKeeps, HandleKeeps, MarkAllKeeps, ReturnKeeps, FailKeeps,
           NewSessionKeeps
           DEF Next
      <3> QED BY <1>1, <3>1 DEF IInv, Rest
    <2> QED BY <2>1, <2>2
  <1>4. CASE serial # "outside"
    BY <1>1, <1>2, <1>4 DEF IInv, MarkedWasWritten, WrittenGetsMarked
  <1> QED BY <1>3, <1>4

(* IInv holds in every state of every behaviour.                           *)
LEMMA Invariance == Spec => []IInv
  BY InitIInv, NextIInv, PTL DEF Spec

-----------------------------------------------------------------------------
(* With Serial outside, what is marked has been written, unless the        *)
(* handler refused it, over failures, rebalances and restarts.             *)
THEOREM OnlyRefusedAreLost == Spec => []MarkedWasWritten
  <1>1. IInv => MarkedWasWritten
    BY DEF IInv
  <1> QED BY Invariance, <1>1, PTL

(* With Serial outside, markAll leaves nothing unmarked that the handler   *)
(* took in this session.                                                   *)
THEOREM NoPartitionForgotten == Spec => []WrittenGetsMarked
  <1>1. IInv => WrittenGetsMarked
    BY DEF IInv
  <1> QED BY Invariance, <1>1, PTL
=============================================================================
