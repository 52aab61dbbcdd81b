------------------------- MODULE HandlerChainProofs -------------------------
(***************************************************************************)
(* The safety properties of HandlerChain, proved for every number of       *)
(* messages, retries and restarts.                                         *)
(***************************************************************************)
EXTENDS HandlerChain, TLAPS

(* A message is at hand while its handler is called, and when the consumer *)
(* has stopped at it.                                                      *)
AtHand == pc # "idle" => offset < Messages

(* The three properties support each other: that results of marked         *)
(* messages do not change needs DeliveredInStep.                           *)
IInv == TypeOK /\ AtHand /\ RetriesSpent /\ NothingSkipped /\ StopKeepsMessage /\ DeliveredInStep

-----------------------------------------------------------------------------
(* The initial states satisfy the invariant.                               *)
LEMMA InitIInv == Init => IInv
  BY ChainAssumption
     DEF Init, IInv, TypeOK, AtHand, RetriesSpent, NothingSkipped, StopKeepsMessage, DeliveredInStep

(* A chain that marks a message does so for one of the results that        *)
(* NothingSkipped allows; one that does not fail has marked the message.   *)
LEMMA MarksAllowed ==
  ASSUME chain \in Chains, NEW r \in Results, ~TriesAgain(r)
  PROVE  /\ Marks(r) => /\ r # "panic"
                        /\ chain = "Defaults" => r # "retryable"
                        /\ chain \in {"MarkIfNoError", "Retry"} => r \in {"nil", "markable"}
         /\ ~Fails(r) => Marks(r)
         /\ Fails(r) /\ chain # "Mark" => ~Marks(r)
  BY DEF Chains, Results, Marks, Fails

(* Every step of Next keeps the invariant: one step per action.            *)
LEMMA NextIInv == IInv /\ [Next]_vars => IInv'
  <1> SUFFICES ASSUME IInv, [Next]_vars PROVE IInv'
    OBVIOUS
  <1> USE ChainAssumption DEF IInv
  <1>1. CASE Deliver
    BY <1>1 DEF Deliver, TypeOK, AtHand, RetriesSpent, NothingSkipped, StopKeepsMessage, DeliveredInStep
  <1>2. CASE CallAgain
    <2>1. offset = marked /\ offset \in 0..(Messages - 1)
      BY <1>2 DEF CallAgain, TypeOK, AtHand, DeliveredInStep
    <2>2. TypeOK' /\ AtHand'
      BY <1>2, <2>1 DEF CallAgain, TriesAgain, TypeOK, AtHand, Results
    <2>3. NothingSkipped'
      BY <1>2, <2>1 DEF CallAgain, TypeOK, NothingSkipped
    <2>4. StopKeepsMessage' /\ DeliveredInStep'
      BY <1>2 DEF CallAgain, StopKeepsMessage, DeliveredInStep
    <2>5. RetriesSpent'
      BY <1>2 DEF CallAgain, TriesAgain, TypeOK, RetriesSpent
    <2> QED BY <2>2, <2>3, <2>4, <2>5
  <1>3. ASSUME NEW r \in Results, LastCall(r) PROVE IInv'
    <2>1. offset = marked /\ offset \in 0..(Messages - 1)
      BY <1>3 DEF LastCall, TypeOK, AtHand, DeliveredInStep
    <2>2. chain \in Chains /\ ~TriesAgain(r)
      BY <1>3 DEF LastCall, TypeOK
    <2>3. TypeOK' /\ AtHand'
      BY <1>3, <2>1 DEF LastCall, TypeOK, AtHand
    <2>4. NothingSkipped'
      <3> SUFFICES ASSUME NEW o \in 0..(marked' - 1)
                   PROVE  /\ result'[o] \notin {"none", "panic"}
                          /\ chain' = "Defaults" => result'[o] # "retryable"
                          /\ chain' \in {"MarkIfNoError", "Retry"} => result'[o] \in {"nil", "markable"}
        BY DEF NothingSkipped
      <3>1. CASE o = offset
        <4>1. Marks(r) /\ result'[o] = r /\ chain' = chain
          BY <1>3, <2>1, <3>1 DEF LastCall, TypeOK
        <4> QED BY <4>1, <2>2, MarksAllowed DEF Results
      <3>2. CASE o # offset
        <4>1. o \in 0..(marked - 1) /\ result'[o] = result[o] /\ chain' = chain
          BY <1>3, <2>1, <3>2 DEF LastCall, TypeOK
        <4> QED BY <4>1 DEF NothingSkipped
      <3> QED BY <3>1, <3>2
    <2>5. StopKeepsMessage' /\ DeliveredInStep'
      BY <1>3, <2>1, <2>2, MarksAllowed
         DEF LastCall, StopKeepsMessage, DeliveredInStep
    <2>6. RetriesSpent'
      <3>1. result'[offset] = r /\ tries' = tries /\ chain' = chain /\ tries <= MaxRetries + 1
        BY <1>3, <2>1 DEF LastCall, TypeOK, RetriesSpent
      <3>2. pc' = "stopped" => offset' = offset
        BY <1>3 DEF LastCall
      <3>3. chain \in {"Retry", "Defaults"} /\ r = "retryable" => tries = MaxRetries + 1
        BY <2>2, <3>1 DEF TriesAgain, TypeOK
      <3> QED BY <3>1, <3>2, <3>3 DEF RetriesSpent
    <2> QED BY <2>3, <2>4, <2>5, <2>6
  <1>4. CASE Start
    BY <1>4 DEF Start, TypeOK, AtHand, RetriesSpent, NothingSkipped, StopKeepsMessage, DeliveredInStep
  <1>5. CASE UNCHANGED vars
    BY <1>5 DEF vars, TypeOK, AtHand, RetriesSpent, NothingSkipped, StopKeepsMessage, DeliveredInStep
  <1> QED BY <1>1, <1>2, <1>3, <1>4, <1>5 DEF Next

(* IInv holds in every state of every behaviour.                           *)
LEMMA Invariance == Spec => []IInv
  BY InitIInv, NextIInv, PTL DEF Spec

-----------------------------------------------------------------------------
(* None of the five compositions that HandlerChain names skips a message,  *)
(* whatever the handlers return and however often the consumer is stopped, *)
(* crashes and restarts.                                                   *)
THEOREM NoMessageSkipped == Spec => []NothingSkipped
  <1>1. IInv => NothingSkipped
    BY DEF IInv
  <1> QED BY Invariance, <1>1, PTL

(* A consumer that stopped is given the message it stopped at again,       *)
(* unless its chain is Mark.                                               *)
THEOREM StoppedMessageKept == Spec => []StopKeepsMessage
  <1>1. IInv => StopKeepsMessage
    BY DEF IInv
  <1> QED BY Invariance, <1>1, PTL

(* While the consumer runs, exactly the messages before the one at hand    *)
(* are marked, with each of the five compositions.                         *)
THEOREM MarksInStep == Spec => []DeliveredInStep
  <1>1. IInv => DeliveredInStep
    BY DEF IInv
  <1> QED BY Invariance, <1>1, PTL

(* A retryable error is given up after 1 + maxRetries calls of the         *)
(* handler, not earlier and not later (Retry, CommonDefaultsWithRetry).    *)
THEOREM RetriesBounded == Spec => []RetriesSpent
  <1>1. IInv => RetriesSpent
    BY DEF IInv
  <1> QED BY Invariance, <1>1, PTL
=============================================================================
