----------------------- MODULE EmbeddedTransportProofs -----------------------
(***************************************************************************)
(* Proofs about the session, its endpoints and the socket, for pipes of    *)
(* every capacity and messages of every length: calls end badly only when  *)
(* somebody closes or cancels, and short only where the stream is over.    *)
(***************************************************************************)
EXTENDS EmbeddedTransport, TLAPS

-----------------------------------------------------------------------------

(* TypeOK in parts. *)
SessionTyped ==
    /\ session \subseteq SessionFlags
    /\ session # {} => "configured" \in session
    /\ "accepted" \in session => "connected" \in session
    /\ "connected" \in session => "listening" \in session

PipesTyped ==
    /\ size \in [Sides -> 0 .. Capacity]
    /\ given \in [Sides -> Nat]
    /\ \A s \in Sides : size[s] <= given[s]
    /\ sender \in [Sides -> Nat]

CallsTyped ==
    /\ receiver \in [Sides -> Receiving \cup {Idle}]
    /\ \A s \in Sides : receiver[s] # Idle => receiver[s].got < receiver[s].want

PointsTyped ==
    /\ endpoint \in [Sides -> {"null", "open", "closed"}]
    /\ closing \in [Sides -> {"no", "writer", "reader", "done"}]
    /\ cancelling \in Sides \cup {"no", "done"}

FlagsTyped ==
    /\ writerClosed \in [Sides -> BOOLEAN]
    /\ readerClosed \in [Sides -> BOOLEAN]
    /\ short \in [Sides -> BOOLEAN]
    /\ refused \in [Sides -> BOOLEAN]

Parts == SessionTyped /\ PipesTyped /\ CallsTyped /\ PointsTyped /\ FlagsTyped

LEMMA TypeParts == TypeOK <=> Parts
  BY DEF TypeOK, Parts, SessionTyped, PipesTyped, CallsTyped, PointsTyped, FlagsTyped

LEMMA TypePartsNext == TypeOK' <=> Parts'
  BY DEF TypeOK, Parts, SessionTyped, PipesTyped, CallsTyped, PointsTyped, FlagsTyped

LEMMA SessionStep ==
    SessionTyped /\ [Next]_vars => SessionTyped'
<1> SUFFICES ASSUME SessionTyped, [Next]_vars
    PROVE SessionTyped'
  OBVIOUS
<1> USE DEF SessionTyped, SessionFlags, pipes, ops, ctl
<1>1. CASE Rendezvous
  BY <1>1 DEF Rendezvous, Configure, Listen, Connect, Accept
<1>2. ASSUME NEW s \in Sides, Send(s) \/ SendStep(s) PROVE SessionTyped'
  <2>1. CASE Send(s)
    BY <2>1, LengthAssumption DEF Send
  <2>2. CASE SendChunk(s)
    BY <2>2 DEF SendChunk
  <2>3. CASE SendFail(s)
    BY <2>3 DEF SendFail
  <2> QED
    BY <1>2, <2>1, <2>2, <2>3 DEF SendStep
<1>3. ASSUME NEW s \in Sides, Receive(s) \/ ReceiveStep(s) \/ ReceiveTimeout(s)
      PROVE SessionTyped'
  <2>1. CASE Receive(s)
    BY <2>1, LengthAssumption, KindAssumption DEF Receive
  <2>2. CASE ReceiveChunk(s)
    BY <2>2 DEF ReceiveChunk, Advance
  <2>3. CASE ReceiveEnd(s)
    BY <2>3 DEF ReceiveEnd
  <2>4. CASE ReceiveTimeout(s)
    BY <2>4 DEF ReceiveTimeout
  <2> QED
    BY <1>3, <2>1, <2>2, <2>3, <2>4 DEF ReceiveStep
<1>4. ASSUME NEW s \in Sides, CloseBegin(s) \/ CloseStep(s) \/ Destroy(s)
      PROVE SessionTyped'
  <2>1. CASE CloseBegin(s)
    BY <2>1 DEF CloseBegin
  <2>2. CASE CloseOutgoing(s)
    BY <2>2 DEF CloseOutgoing
  <2>3. CASE CloseIncoming(s)
    BY <2>3 DEF CloseIncoming
  <2>4. CASE Destroy(s)
    BY <2>4 DEF Destroy
  <2> QED
    BY <1>4, <2>1, <2>2, <2>3, <2>4 DEF CloseStep
<1>5. CASE CancelBegin \/ CancelStep
  BY <1>5 DEF CancelBegin, CancelStep
<1>6. CASE UNCHANGED vars
  BY <1>6 DEF vars
<1> QED
  BY <1>1, <1>2, <1>3, <1>4, <1>5, <1>6 DEF Next

(* A chunk fits into the free space and into the rest of the message. *)
LEMMA PipesStep ==
    PipesTyped /\ [Next]_vars => PipesTyped'
<1> SUFFICES ASSUME PipesTyped, [Next]_vars
    PROVE PipesTyped'
  OBVIOUS
<1> USE CapacityAssumption DEF PipesTyped, Sides, Peer, pipes, ops, ctl
<1>1. CASE Rendezvous
  BY <1>1 DEF Rendezvous, Configure, Listen, Connect, Accept
<1>2. ASSUME NEW s \in Sides, Send(s) \/ SendStep(s) PROVE PipesTyped'
  <2>1. CASE Send(s)
    BY <2>1, LengthAssumption DEF Send
  <2>2. CASE SendChunk(s)
    BY <2>2 DEF SendChunk
  <2>3. CASE SendFail(s)
    BY <2>3 DEF SendFail
  <2> QED
    BY <1>2, <2>1, <2>2, <2>3 DEF SendStep
<1>3. ASSUME NEW s \in Sides, Receive(s) \/ ReceiveStep(s) \/ ReceiveTimeout(s)
      PROVE PipesTyped'
  <2>1. CASE Receive(s)
    BY <2>1, LengthAssumption, KindAssumption DEF Receive
  <2>2. CASE ReceiveChunk(s)
    BY <2>2 DEF ReceiveChunk, Advance
  <2>3. CASE ReceiveEnd(s)
    BY <2>3 DEF ReceiveEnd
  <2>4. CASE ReceiveTimeout(s)
    BY <2>4 DEF ReceiveTimeout
  <2> QED
    BY <1>3, <2>1, <2>2, <2>3, <2>4 DEF ReceiveStep
<1>4. ASSUME NEW s \in Sides, CloseBegin(s) \/ CloseStep(s) \/ Destroy(s)
      PROVE PipesTyped'
  <2>1. CASE CloseBegin(s)
    BY <2>1 DEF CloseBegin
  <2>2. CASE CloseOutgoing(s)
    BY <2>2 DEF CloseOutgoing
  <2>3. CASE CloseIncoming(s)
    BY <2>3 DEF CloseIncoming
  <2>4. CASE Destroy(s)
    BY <2>4 DEF Destroy
  <2> QED
    BY <1>4, <2>1, <2>2, <2>3, <2>4 DEF CloseStep
<1>5. CASE CancelBegin \/ CancelStep
  BY <1>5 DEF CancelBegin, CancelStep
<1>6. CASE UNCHANGED vars
  BY <1>6 DEF vars
<1> QED
  BY <1>1, <1>2, <1>3, <1>4, <1>5, <1>6 DEF Next

(* A loop that is not over has something left to ask for. *)
LEMMA CallsStep ==
    CallsTyped /\ [Next]_vars => CallsTyped'
<1> SUFFICES ASSUME CallsTyped, [Next]_vars
    PROVE CallsTyped'
  OBVIOUS
<1> USE DEF CallsTyped, Receiving, Idle, Sides, pipes, ops, ctl
<1>1. CASE Rendezvous
  BY <1>1 DEF Rendezvous, Configure, Listen, Connect, Accept
<1>2. ASSUME NEW s \in Sides, Send(s) \/ SendStep(s) PROVE CallsTyped'
  <2>1. CASE Send(s)
    BY <2>1, LengthAssumption DEF Send
  <2>2. CASE SendChunk(s)
    BY <2>2 DEF SendChunk
  <2>3. CASE SendFail(s)
    BY <2>3 DEF SendFail
  <2> QED
    BY <1>2, <2>1, <2>2, <2>3 DEF SendStep
<1>3. ASSUME NEW s \in Sides, Receive(s) \/ ReceiveStep(s) \/ ReceiveTimeout(s)
      PROVE CallsTyped'
  <2>1. CASE Receive(s)
    BY <2>1, LengthAssumption, KindAssumption DEF Receive
  <2>2. CASE ReceiveChunk(s)
    BY <2>2 DEF ReceiveChunk, Advance
  <2>3. CASE ReceiveEnd(s)
    BY <2>3 DEF ReceiveEnd
  <2>4. CASE ReceiveTimeout(s)
    BY <2>4 DEF ReceiveTimeout
  <2> QED
    BY <1>3, <2>1, <2>2, <2>3, <2>4 DEF ReceiveStep
<1>4. ASSUME NEW s \in Sides, CloseBegin(s) \/ CloseStep(s) \/ Destroy(s)
      PROVE CallsTyped'
  <2>1. CASE CloseBegin(s)
    BY <2>1 DEF CloseBegin
  <2>2. CASE CloseOutgoing(s)
    BY <2>2 DEF CloseOutgoing
  <2>3. CASE CloseIncoming(s)
    BY <2>3 DEF CloseIncoming
  <2>4. CASE Destroy(s)
    BY <2>4 DEF Destroy
  <2> QED
    BY <1>4, <2>1, <2>2, <2>3, <2>4 DEF CloseStep
<1>5. CASE CancelBegin \/ CancelStep
  BY <1>5 DEF CancelBegin, CancelStep
<1>6. CASE UNCHANGED vars
  BY <1>6 DEF vars
<1> QED
  BY <1>1, <1>2, <1>3, <1>4, <1>5, <1>6 DEF Next

LEMMA PointsStep ==
    PointsTyped /\ [Next]_vars => PointsTyped'
<1> SUFFICES ASSUME PointsTyped, [Next]_vars
    PROVE PointsTyped'
  OBVIOUS
<1> USE DEF PointsTyped, Sides, pipes, ops, ctl
<1>1. CASE Rendezvous
  BY <1>1 DEF Rendezvous, Configure, Listen, Connect, Accept
<1>2. ASSUME NEW s \in Sides, Send(s) \/ SendStep(s) PROVE PointsTyped'
  <2>1. CASE Send(s)
    BY <2>1, LengthAssumption DEF Send
  <2>2. CASE SendChunk(s)
    BY <2>2 DEF SendChunk
  <2>3. CASE SendFail(s)
    BY <2>3 DEF SendFail
  <2> QED
    BY <1>2, <2>1, <2>2, <2>3 DEF SendStep
<1>3. ASSUME NEW s \in Sides, Receive(s) \/ ReceiveStep(s) \/ ReceiveTimeout(s)
      PROVE PointsTyped'
  <2>1. CASE Receive(s)
    BY <2>1, LengthAssumption, KindAssumption DEF Receive
  <2>2. CASE ReceiveChunk(s)
    BY <2>2 DEF ReceiveChunk, Advance
  <2>3. CASE ReceiveEnd(s)
    BY <2>3 DEF ReceiveEnd
  <2>4. CASE ReceiveTimeout(s)
    BY <2>4 DEF ReceiveTimeout
  <2> QED
    BY <1>3, <2>1, <2>2, <2>3, <2>4 DEF ReceiveStep
<1>4. ASSUME NEW s \in Sides, CloseBegin(s) \/ CloseStep(s) \/ Destroy(s)
      PROVE PointsTyped'
  <2>1. CASE CloseBegin(s)
    BY <2>1 DEF CloseBegin
  <2>2. CASE CloseOutgoing(s)
    BY <2>2 DEF CloseOutgoing
  <2>3. CASE CloseIncoming(s)
    BY <2>3 DEF CloseIncoming
  <2>4. CASE Destroy(s)
    BY <2>4 DEF Destroy
  <2> QED
    BY <1>4, <2>1, <2>2, <2>3, <2>4 DEF CloseStep
<1>5. CASE CancelBegin \/ CancelStep
  BY <1>5 DEF CancelBegin, CancelStep
<1>6. CASE UNCHANGED vars
  BY <1>6 DEF vars
<1> QED
  BY <1>1, <1>2, <1>3, <1>4, <1>5, <1>6 DEF Next

LEMMA FlagsStep ==
    FlagsTyped /\ [Next]_vars => FlagsTyped'
<1> SUFFICES ASSUME FlagsTyped, [Next]_vars
    PROVE FlagsTyped'
  OBVIOUS
<1> USE DEF FlagsTyped, Sides, Peer, pipes, ops, ctl
<1>1. CASE Rendezvous
  BY <1>1 DEF Rendezvous, Configure, Listen, Connect, Accept
<1>2. ASSUME NEW s \in Sides, Send(s) \/ SendStep(s) PROVE FlagsTyped'
  <2>1. CASE Send(s)
    BY <2>1, LengthAssumption DEF Send
  <2>2. CASE SendChunk(s)
    BY <2>2 DEF SendChunk
  <2>3. CASE SendFail(s)
    BY <2>3 DEF SendFail
  <2> QED
    BY <1>2, <2>1, <2>2, <2>3 DEF SendStep
<1>3. ASSUME NEW s \in Sides, Receive(s) \/ ReceiveStep(s) \/ ReceiveTimeout(s)
      PROVE FlagsTyped'
  <2>1. CASE Receive(s)
    BY <2>1, LengthAssumption, KindAssumption DEF Receive
  <2>2. CASE ReceiveChunk(s)
    BY <2>2 DEF ReceiveChunk, Advance
  <2>3. CASE ReceiveEnd(s)
    BY <2>3 DEF ReceiveEnd
  <2>4. CASE ReceiveTimeout(s)
    BY <2>4 DEF ReceiveTimeout
  <2> QED
    BY <1>3, <2>1, <2>2, <2>3, <2>4 DEF ReceiveStep
<1>4. ASSUME NEW s \in Sides, CloseBegin(s) \/ CloseStep(s) \/ Destroy(s)
      PROVE FlagsTyped'
  <2>1. CASE CloseBegin(s)
    BY <2>1 DEF CloseBegin
  <2>2. CASE CloseOutgoing(s)
    BY <2>2 DEF CloseOutgoing
  <2>3. CASE CloseIncoming(s)
    BY <2>3 DEF CloseIncoming
  <2>4. CASE Destroy(s)
    BY <2>4 DEF Destroy
  <2> QED
    BY <1>4, <2>1, <2>2, <2>3, <2>4 DEF CloseStep
<1>5. CASE CancelBegin \/ CancelStep
  BY <1>5 DEF CancelBegin, CancelStep
<1>6. CASE UNCHANGED vars
  BY <1>6 DEF vars
<1> QED
  BY <1>1, <1>2, <1>3, <1>4, <1>5, <1>6 DEF Next

-----------------------------------------------------------------------------
(* What the properties rest on *)

(* An endpoint is made once in the life of the session, and a call works   *)
(* on the endpoint it has found.                                           *)
Made(s) == IF s = "server" THEN "connected" \in session ELSE "accepted" \in session
EndpointsKept ==
    \A s \in Sides :
        /\ short[s] => Made(s)
        /\ Made(s) <=> endpoint[s] # "null" \/ closing[s] # "no"
        /\ endpoint[s] = "closed" => closing[s] # "no"
        /\ endpoint[s] = "open" => closing[s] = "no"
        /\ receiver[s] # Idle => endpoint[s] # "null"

(* Connect and Accept find their flag not set: no endpoint comes back. *)
LEMMA EndpointsStep ==
    PointsTyped /\ FlagsTyped /\ EndpointsKept /\ [Next]_vars => EndpointsKept'
<1> SUFFICES ASSUME PointsTyped, FlagsTyped, EndpointsKept, [Next]_vars
    PROVE EndpointsKept'
  OBVIOUS
<1> USE DEF PointsTyped, FlagsTyped, EndpointsKept, Made, Sides, Peer, Idle, pipes, ops, ctl
<1>1. CASE Rendezvous
  BY <1>1 DEF Rendezvous, Configure, Listen, Connect, Accept
<1>2. ASSUME NEW s \in Sides, Send(s) \/ SendStep(s) PROVE EndpointsKept'
  <2>1. CASE Send(s)
    BY <2>1, LengthAssumption DEF Send
  <2>2. CASE SendChunk(s)
    BY <2>2 DEF SendChunk
  <2>3. CASE SendFail(s)
    BY <2>3 DEF SendFail
  <2> QED
    BY <1>2, <2>1, <2>2, <2>3 DEF SendStep
<1>3. ASSUME NEW s \in Sides, Receive(s) \/ ReceiveStep(s) \/ ReceiveTimeout(s)
      PROVE EndpointsKept'
  <2>1. CASE Receive(s)
    BY <2>1, LengthAssumption, KindAssumption DEF Receive
  <2>2. CASE ReceiveChunk(s)
    BY <2>2 DEF ReceiveChunk, Advance
  <2>3. CASE ReceiveEnd(s)
    BY <2>3 DEF ReceiveEnd
  <2>4. CASE ReceiveTimeout(s)
    BY <2>4 DEF ReceiveTimeout
  <2> QED
    BY <1>3, <2>1, <2>2, <2>3, <2>4 DEF ReceiveStep
<1>4. ASSUME NEW s \in Sides, CloseBegin(s) \/ CloseStep(s) \/ Destroy(s)
      PROVE EndpointsKept'
  <2>1. CASE CloseBegin(s)
    BY <2>1 DEF CloseBegin
  <2>2. CASE CloseOutgoing(s)
    BY <2>2 DEF CloseOutgoing
  <2>3. CASE CloseIncoming(s)
    BY <2>3 DEF CloseIncoming
  <2>4. CASE Destroy(s)
    BY <2>4 DEF Destroy
  <2> QED
    BY <1>4, <2>1, <2>2, <2>3, <2>4 DEF CloseStep
<1>5. CASE CancelBegin \/ CancelStep
  BY <1>5 DEF CancelBegin, CancelStep
<1>6. CASE UNCHANGED vars
  BY <1>6 DEF vars
<1> QED
  BY <1>1, <1>2, <1>3, <1>4, <1>5, <1>6 DEF Next

(* A call finds an end closed only by someone who is closing, or by Cancel. *)
LEMMA CutOffStep ==
    PointsTyped /\ FlagsTyped /\ EndpointsKept /\ NobodyIsCutOff /\ [Next]_vars =>
        NobodyIsCutOff'
<1> SUFFICES ASSUME PointsTyped, FlagsTyped, EndpointsKept, NobodyIsCutOff, [Next]_vars
    PROVE NobodyIsCutOff'
  OBVIOUS
<1> USE DEF PointsTyped, FlagsTyped, Ending, Sides, Peer, pipes, ops, ctl,
            EndpointsKept, NobodyIsCutOff, Writable, AtEnd
<1>1. CASE Rendezvous
  BY <1>1 DEF Rendezvous, Configure, Listen, Connect, Accept
<1>2. ASSUME NEW s \in Sides, Send(s) \/ SendStep(s) PROVE NobodyIsCutOff'
  <2>1. CASE Send(s)
    BY <2>1, LengthAssumption DEF Send
  <2>2. CASE SendChunk(s)
    BY <2>2 DEF SendChunk
  <2>3. CASE SendFail(s)
    BY <2>3 DEF SendFail
  <2> QED
    BY <1>2, <2>1, <2>2, <2>3 DEF SendStep
<1>3. ASSUME NEW s \in Sides, Receive(s) \/ ReceiveStep(s) \/ ReceiveTimeout(s)
      PROVE NobodyIsCutOff'
  <2>1. CASE Receive(s)
    BY <2>1, LengthAssumption, KindAssumption DEF Receive
  <2>2. CASE ReceiveChunk(s)
    BY <2>2 DEF ReceiveChunk, Advance
  <2>3. CASE ReceiveEnd(s)
    BY <2>3 DEF ReceiveEnd
  <2>4. CASE ReceiveTimeout(s)
    BY <2>4 DEF ReceiveTimeout
  <2> QED
    BY <1>3, <2>1, <2>2, <2>3, <2>4 DEF ReceiveStep
<1>4. ASSUME NEW s \in Sides, CloseBegin(s) \/ CloseStep(s) \/ Destroy(s)
      PROVE NobodyIsCutOff'
  <2>1. CASE CloseBegin(s)
    BY <2>1 DEF CloseBegin
  <2>2. CASE CloseOutgoing(s)
    BY <2>2 DEF CloseOutgoing
  <2>3. CASE CloseIncoming(s)
    BY <2>3 DEF CloseIncoming
  <2>4. CASE Destroy(s)
    BY <2>4 DEF Destroy
  <2> QED
    BY <1>4, <2>1, <2>2, <2>3, <2>4 DEF CloseStep
<1>5. CASE CancelBegin \/ CancelStep
  BY <1>5 DEF CancelBegin, CancelStep
<1>6. CASE UNCHANGED vars
  BY <1>6 DEF vars
<1> QED
  BY <1>1, <1>2, <1>3, <1>4, <1>5, <1>6 DEF Next

(* Where a read has found the end there is no more to come: nothing is put *)
(* into a pipe of which an end is closed, and endpoints do not reopen.     *)
LEMMA ShortStep ==
    Parts /\ EndpointsKept /\ ShortOnlyAtEnd /\ [Next]_vars => ShortOnlyAtEnd'
<1> SUFFICES ASSUME Parts, EndpointsKept, ShortOnlyAtEnd, [Next]_vars
    PROVE ShortOnlyAtEnd'
  OBVIOUS
<1> USE DEF Parts, PointsTyped, FlagsTyped, PipesTyped, CallsTyped, Ending, Sides,
            Peer, pipes, ops, ctl, EndpointsKept, Made, ShortOnlyAtEnd, AtEnd, Idle
<1>1. CASE Rendezvous
  BY <1>1 DEF Rendezvous, Configure, Listen, Connect, Accept
<1>2. ASSUME NEW s \in Sides, Send(s) \/ SendStep(s) PROVE ShortOnlyAtEnd'
  <2>1. CASE Send(s)
    BY <2>1, LengthAssumption DEF Send
  <2>2. CASE SendChunk(s)
    BY <2>2 DEF SendChunk
  <2>3. CASE SendFail(s)
    BY <2>3 DEF SendFail
  <2> QED
    BY <1>2, <2>1, <2>2, <2>3 DEF SendStep
<1>3. ASSUME NEW s \in Sides, Receive(s) \/ ReceiveStep(s) \/ ReceiveTimeout(s)
      PROVE ShortOnlyAtEnd'
  <2>1. CASE Receive(s)
    BY <2>1, LengthAssumption, KindAssumption DEF Receive
  <2>2. CASE ReceiveChunk(s)
    BY <2>2 DEF ReceiveChunk, Advance
  <2>3. CASE ReceiveEnd(s)
    BY <2>3 DEF ReceiveEnd
  <2>4. CASE ReceiveTimeout(s)
    BY <2>4 DEF ReceiveTimeout
  <2> QED
    BY <1>3, <2>1, <2>2, <2>3, <2>4 DEF ReceiveStep
<1>4. ASSUME NEW s \in Sides, CloseBegin(s) \/ CloseStep(s) \/ Destroy(s)
      PROVE ShortOnlyAtEnd'
  <2>1. CASE CloseBegin(s)
    BY <2>1 DEF CloseBegin
  <2>2. CASE CloseOutgoing(s)
    BY <2>2 DEF CloseOutgoing
  <2>3. CASE CloseIncoming(s)
    BY <2>3 DEF CloseIncoming
  <2>4. CASE Destroy(s)
    BY <2>4 DEF Destroy
  <2> QED
    BY <1>4, <2>1, <2>2, <2>3, <2>4 DEF CloseStep
<1>5. CASE CancelBegin \/ CancelStep
  BY <1>5 DEF CancelBegin, CancelStep
<1>6. CASE UNCHANGED vars
  BY <1>6 DEF vars
<1> QED
  BY <1>1, <1>2, <1>3, <1>4, <1>5, <1>6 DEF Next

-----------------------------------------------------------------------------
(* The invariant and the theorems *)

IInv == TypeOK /\ EndpointsKept /\ NobodyIsCutOff /\ ShortOnlyAtEnd

LEMMA InvariantInit == Init => IInv
<1> SUFFICES ASSUME Init PROVE IInv
  OBVIOUS
<1>1. SessionTyped /\ CallsTyped /\ PointsTyped /\ FlagsTyped
  BY DEF Init, SessionTyped, CallsTyped, PointsTyped, FlagsTyped, Sides
<1>2. PipesTyped
  BY CapacityAssumption DEF Init, PipesTyped
<1>3. EndpointsKept /\ ShortOnlyAtEnd
  BY DEF Init, EndpointsKept, Made, ShortOnlyAtEnd
<1>4. NobodyIsCutOff
  BY DEF Init, NobodyIsCutOff, Sides, Peer
<1> QED
  BY <1>1, <1>2, <1>3, <1>4, TypeParts DEF IInv, Parts

LEMMA Invariance == Spec => []IInv
<1>1. IInv /\ [Next]_vars => IInv'
  <2> SUFFICES ASSUME IInv, [Next]_vars PROVE IInv'
    OBVIOUS
  <2>1. Parts
    BY TypeParts DEF IInv
  <2>2. Parts'
    BY <2>1, SessionStep, PipesStep, CallsStep, PointsStep, FlagsStep DEF Parts
  <2>3. EndpointsKept' /\ NobodyIsCutOff' /\ ShortOnlyAtEnd'
    BY <2>1, EndpointsStep, CutOffStep, ShortStep DEF IInv, Parts
  <2> QED
    BY <2>2, <2>3, TypePartsNext DEF IInv
<1> QED
  BY InvariantInit, <1>1, PTL DEF Spec

(* TypeOK: the flags of the session are set in their order, a pipe never   *)
(* holds more than its capacity nor more than was put into it, and a       *)
(* reading loop never has more than it was asked for.                      *)
THEOREM TypeCorrect == Spec => []TypeOK
<1>1. IInv => TypeOK
  BY DEF IInv
<1> QED
  BY Invariance, <1>1, PTL

(* Messages of every length, through pipes of every capacity and with      *)
(* every pattern of chunks and timeouts, come whole: a read comes back     *)
(* short only where the stream of its side is over, and stays over.        *)
THEOREM MessagesAreWhole == Spec => []ShortOnlyAtEnd
<1>1. IInv => ShortOnlyAtEnd
  BY DEF IInv
<1> QED
  BY Invariance, <1>1, PTL

(* An endpoint is made once in the life of a session, the server's before  *)
(* the client's: in particular no pipe is used again after its end was     *)
(* closed.                                                                 *)
THEOREM EndpointsAreMadeOnce == Spec => []EndpointsMadeOnce
<1>1. IInv => EndpointsMadeOnce
  BY DEF IInv, TypeOK, EndpointsKept, EndpointsMadeOnce, Made, Sides
<1> QED
  BY Invariance, <1>1, PTL

(* No send fails and no read ends early unless a side has closed its       *)
(* endpoint or the session has been cancelled.                             *)
THEOREM CallsFailOnlyAtTheEnd == Spec => []NobodyIsCutOff
<1>1. IInv => NobodyIsCutOff
  BY DEF IInv
<1> QED
  BY Invariance, <1>1, PTL

=============================================================================
