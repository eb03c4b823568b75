-------------------------- MODULE EmbeddedTransport --------------------------
(***************************************************************************)
(* The process-wide rendezvous and the two endpoints of                    *)
(* src/src/embedded/TracyEmbeddedTransport.cpp, used through the Socket    *)
(* class of src/src/embedded/TracyEmbeddedSocket.cpp.                      *)
(*                                                                         *)
(* The server side is Tracy's Worker, which calls Connect; the client side *)
(* is the profiler's serializer thread, which listens and accepts.  Each   *)
(* side has a thread that sends, one that receives and one that closes,    *)
(* and some thread of the process may cancel the session.  Of the two      *)
(* pipes only amounts are kept: EmbeddedPipe deals with what they carry    *)
(* and how their threads sleep and wake.                                   *)
(***************************************************************************)
EXTENDS Integers

CONSTANTS
    Capacity,     \* the size of each pipe, as given to Configure
    Lengths,      \* the lengths callers send and ask for
    Senders,      \* the sides whose threads send
    Receivers,    \* the sides whose threads receive
    Kinds,        \* the receiving calls they make
    MaxBytes      \* bound: no call starts that could send more in a direction

ASSUME CapacityAssumption == Capacity \in Nat \ {0}
ASSUME SideAssumption == Senders \cup Receivers \subseteq {"client", "server"}
ASSUME KindAssumption == Kinds \subseteq {"Recv", "ReadUpTo", "Read", "ReadRaw"}
ASSUME LengthAssumption == Lengths \subseteq Nat \ {0}

VARIABLES
    session,      \* the flags of Session that are set: see SessionFlags
    endpoint,     \* endpoint[s]: the m_embedded pointer of side s
    size,         \* size[s]: bytes in the pipe that side s writes
    writerClosed, readerClosed,   \* the flags of that pipe
    given,        \* history: given[s] bytes were ever accepted from s
    sender,       \* sender[s]: the Send that is in progress at s
    receiver,     \* receiver[s]: the receiving call that is in progress at s
    short,        \* history: a Read or ReadUpTo at s came back short
    refused,      \* history: a Send at s failed
    closing,      \* closing[s]: how far CloseEndpoint at s has got
    cancelling    \* how far Cancel has got

pipes == <<size, writerClosed, readerClosed, given>>
ops   == <<sender, receiver, short, refused>>
ctl   == <<closing, cancelling>>
vars  == <<session, endpoint, pipes, ops, ctl>>

Sides == {"client", "server"}
Peer(s) == IF s = "client" THEN "server" ELSE "client"

SessionFlags == {"configured", "listening", "connected", "accepted", "cancelled"}

(* A receiving call of Socket.  Recv is one transport read; the others     *)
(* loop over it until they have what was asked for.                        *)
Idle == [kind |-> "idle"]
Receiving == [kind : Kinds, want : Nat, got : Nat, timed : BOOLEAN]

Init ==
    /\ session = {}
    /\ endpoint = [s \in Sides |-> "null"]
    /\ size = [s \in Sides |-> 0]
    /\ writerClosed = [s \in Sides |-> FALSE]
    /\ readerClosed = [s \in Sides |-> FALSE]
    /\ given = [s \in Sides |-> 0]
    /\ sender = [s \in Sides |-> 0]
    /\ receiver = [s \in Sides |-> Idle]
    /\ short = [s \in Sides |-> FALSE]
    /\ refused = [s \in Sides |-> FALSE]
    /\ closing = [s \in Sides |-> "no"]
    /\ cancelling = "no"

-----------------------------------------------------------------------------
(* Rendezvous.  A call that returns false changes nothing. *)

Configure ==
    /\ session = {}
    /\ session' = {"configured"}
    /\ UNCHANGED <<endpoint, pipes, ops, ctl>>

Listen ==
    /\ "configured" \in session
    /\ session \cap {"cancelled", "listening"} = {}
    /\ session' = session \cup {"listening"}
    /\ UNCHANGED <<endpoint, pipes, ops, ctl>>

Connect ==
    /\ endpoint["server"] = "null"
    /\ "listening" \in session
    /\ session \cap {"cancelled", "connected"} = {}
    /\ session' = session \cup {"connected"}
    /\ endpoint' = [endpoint EXCEPT !["server"] = "open"]
    /\ UNCHANGED <<pipes, ops, ctl>>

(* Definitions named Slip... are plausible mistakes in the definition that *)
(* follows; the specification does not use them.                           *)
SlipAccept ==
    /\ endpoint["client"] = "null"
    /\ "connected" \in session
    /\ "cancelled" \notin session
    /\ session' = session \cup {"accepted"}
    /\ endpoint' = [endpoint EXCEPT !["client"] = "open"]
    /\ UNCHANGED <<pipes, ops, ctl>>

Accept ==
    /\ endpoint["client"] = "null"
    /\ "connected" \in session
    /\ session \cap {"cancelled", "accepted"} = {}
    /\ session' = session \cup {"accepted"}
    /\ endpoint' = [endpoint EXCEPT !["client"] = "open"]
    /\ UNCHANGED <<pipes, ops, ctl>>

-----------------------------------------------------------------------------
(* Sending: Socket::Send, embedded::Send and writePipe *)

Send(s) ==
    /\ s \in Senders
    /\ endpoint[s] = "open"
    /\ sender[s] = 0
    /\ \E n \in Lengths :
          /\ given[s] + n <= MaxBytes
          /\ sender' = [sender EXCEPT ![s] = n]
    /\ UNCHANGED <<session, endpoint, pipes, receiver, short, refused, ctl>>

(* writePipe waits for this, under the name of the pipe's writer. *)
Writable(s) == readerClosed[s] \/ size[s] < Capacity

(* A chunk is as long as the free space, the payload and the place where   *)
(* the ring wraps allow; where it wraps is not kept here.                  *)
SendChunk(s) ==
    /\ sender[s] > 0
    /\ Writable(s)
    /\ ~readerClosed[s] /\ ~writerClosed[s]
    /\ \E n \in 1 .. sender[s] :
          /\ size[s] + n <= Capacity
          /\ size' = [size EXCEPT ![s] = @ + n]
          /\ given' = [given EXCEPT ![s] = @ + n]
          /\ sender' = [sender EXCEPT ![s] = @ - n]
    /\ UNCHANGED <<session, endpoint, writerClosed, readerClosed, receiver,
                   short, refused, ctl>>

SendFail(s) ==
    /\ sender[s] > 0
    /\ Writable(s)
    /\ readerClosed[s] \/ writerClosed[s]
    /\ sender' = [sender EXCEPT ![s] = 0]
    /\ refused' = [refused EXCEPT ![s] = TRUE]
    /\ UNCHANGED <<session, endpoint, pipes, receiver, short, ctl>>

-----------------------------------------------------------------------------
(* Receiving: Socket::Recv, ReadUpTo, Read and ReadRaw over embedded::Read *)

Receive(s) ==
    /\ s \in Receivers
    /\ endpoint[s] # "null"
    /\ receiver[s] = Idle
    /\ \E kind \in Kinds, n \in Lengths, timed \in BOOLEAN :
          /\ kind = "ReadUpTo" => ~timed
          /\ receiver' = [receiver EXCEPT ![s] =
                             [kind |-> kind, want |-> n, got |-> 0, timed |-> timed]]
    /\ UNCHANGED <<session, endpoint, pipes, sender, short, refused, ctl>>

(* What happens to the call when one transport read returned n > 0 bytes:  *)
(* Recv hands them out, the loops go on until they have all.               *)
Advance(call, n) ==
    IF call.kind = "Recv" \/ call.got + n = call.want
    THEN Idle ELSE [call EXCEPT !.got = @ + n]

ReceiveChunk(s) ==
    LET p == Peer(s)
    IN  /\ receiver[s] # Idle
        /\ endpoint[s] = "open"
        /\ \E n \in 1 .. receiver[s].want - receiver[s].got :
              /\ n <= size[p]
              /\ size' = [size EXCEPT ![p] = @ - n]
              /\ receiver' = [receiver EXCEPT ![s] = Advance(@, n)]
        /\ UNCHANGED <<session, endpoint, writerClosed, readerClosed, given,
                       sender, short, refused, ctl>>

(* The transport read returned 0: its endpoint has been closed, or an end  *)
(* of the pipe and nothing is left in it.                                  *)
AtEnd(s) ==
    LET p == Peer(s)
    IN  \/ endpoint[s] # "open"
        \/ size[p] = 0 /\ (writerClosed[p] \/ readerClosed[p])

ReceiveEnd(s) ==
    /\ receiver[s] # Idle
    /\ AtEnd(s)
    /\ receiver' = [receiver EXCEPT ![s] = Idle]
    /\ short' = [short EXCEPT ![s] = @ \/ receiver[s].kind \in {"Read", "ReadUpTo"}]
    /\ UNCHANGED <<session, endpoint, pipes, sender, refused, ctl>>

SlipTimeoutTakenForEnd(s) ==
    LET p == Peer(s)
    IN  /\ receiver[s] # Idle
        /\ receiver[s].timed
        /\ size[p] = 0
        /\ receiver' = [receiver EXCEPT ![s] = Idle]
        /\ short' = [short EXCEPT ![s] = @ \/ receiver[s].kind = "Read"]
        /\ UNCHANGED <<session, endpoint, pipes, sender, refused, ctl>>

(* The transport read returned -1 because its time was up: Recv and        *)
(* ReadRaw report it, the latter giving up the bytes it already has, and   *)
(* Read tries again.                                                       *)
ReceiveTimeout(s) ==
    LET p == Peer(s)
        call == receiver[s]
    IN  /\ call # Idle
        /\ call.timed
        /\ endpoint[s] = "open"
        /\ size[p] = 0 /\ ~writerClosed[p] /\ ~readerClosed[p]
        /\ receiver' = [receiver EXCEPT ![s] =
                           IF call.kind = "Read" THEN call ELSE Idle]
        /\ UNCHANGED <<session, endpoint, pipes, sender, short, refused, ctl>>

-----------------------------------------------------------------------------
(* Closing and cancelling.  Each step holds one lock; other threads run    *)
(* between two steps.                                                      *)

CloseBegin(s) ==
    /\ endpoint[s] = "open"
    /\ closing[s] = "no"
    /\ endpoint' = [endpoint EXCEPT ![s] = "closed"]
    /\ closing' = [closing EXCEPT ![s] = "writer"]
    /\ UNCHANGED <<session, pipes, ops, cancelling>>

CloseOutgoing(s) ==
    /\ closing[s] = "writer"
    /\ writerClosed' = [writerClosed EXCEPT ![s] = TRUE]
    /\ closing' = [closing EXCEPT ![s] = "reader"]
    /\ UNCHANGED <<session, endpoint, size, readerClosed, given, ops, cancelling>>

SlipCloseOwnReader(s) ==
    /\ closing[s] = "reader"
    /\ readerClosed' = [readerClosed EXCEPT ![s] = TRUE]
    /\ closing' = [closing EXCEPT ![s] = "done"]
    /\ UNCHANGED <<session, endpoint, size, writerClosed, given, ops, cancelling>>

CloseIncoming(s) ==
    /\ closing[s] = "reader"
    /\ readerClosed' = [readerClosed EXCEPT ![Peer(s)] = TRUE]
    /\ closing' = [closing EXCEPT ![s] = "done"]
    /\ UNCHANGED <<session, endpoint, size, writerClosed, given, ops, cancelling>>

(* DestroyEndpoint of an endpoint it has closed, by ~Socket: no call is in *)
(* progress on the socket.                                                 *)
Destroy(s) ==
    /\ endpoint[s] = "closed"
    /\ closing[s] = "done"
    /\ sender[s] = 0 /\ receiver[s] = Idle
    /\ endpoint' = [endpoint EXCEPT ![s] = "null"]
    /\ UNCHANGED <<session, pipes, ops, ctl>>

CancelBegin ==
    /\ "configured" \in session
    /\ cancelling = "no"
    /\ session' = session \cup {"cancelled"}
    /\ cancelling' = "client"
    /\ UNCHANGED <<endpoint, pipes, ops, closing>>

SlipCancelWritersOnly ==
    /\ cancelling \in Sides
    /\ writerClosed' = [writerClosed EXCEPT ![cancelling] = TRUE]
    /\ cancelling' = IF cancelling = "client" THEN "server" ELSE "done"
    /\ UNCHANGED <<session, endpoint, size, readerClosed, given, ops, closing>>

(* cancelPipe of the client-to-server pipe, then of the other one. *)
CancelStep ==
    /\ cancelling \in Sides
    /\ readerClosed' = [readerClosed EXCEPT ![cancelling] = TRUE]
    /\ writerClosed' = [writerClosed EXCEPT ![cancelling] = TRUE]
    /\ cancelling' = IF cancelling = "client" THEN "server" ELSE "done"
    /\ UNCHANGED <<session, endpoint, size, given, ops, closing>>

-----------------------------------------------------------------------------

Rendezvous == Configure \/ Listen \/ Connect \/ Accept

SendStep(s) == SendChunk(s) \/ SendFail(s)
ReceiveStep(s) == ReceiveChunk(s) \/ ReceiveEnd(s)
CloseStep(s) == CloseOutgoing(s) \/ CloseIncoming(s)

Next ==
    \/ Rendezvous
    \/ \E s \in Sides :
          \/ Send(s) \/ SendStep(s)
          \/ Receive(s) \/ ReceiveStep(s) \/ ReceiveTimeout(s)
          \/ CloseBegin(s) \/ CloseStep(s) \/ Destroy(s)
    \/ CancelBegin \/ CancelStep

Spec == Init /\ [][Next]_vars

(* Threads inside a call are scheduled.  Nobody has to start a call. *)
Fairness ==
    /\ \A s \in Sides : WF_vars(SendStep(s)) /\ WF_vars(ReceiveStep(s))
                        /\ WF_vars(CloseStep(s))
    /\ WF_vars(CancelStep)

FairSpec == Spec /\ Fairness

-----------------------------------------------------------------------------
(* Properties *)

(* The type invariant: every variable has its type and the rendezvous      *)
(* flags are set in order.                                                 *)
TypeOK ==
    /\ session \subseteq SessionFlags
    /\ session # {} => "configured" \in session
    /\ "accepted" \in session => "connected" \in session
    /\ "connected" \in session => "listening" \in session
    /\ endpoint \in [Sides -> {"null", "open", "closed"}]
    /\ size \in [Sides -> 0 .. Capacity]
    /\ writerClosed \in [Sides -> BOOLEAN]
    /\ readerClosed \in [Sides -> BOOLEAN]
    /\ given \in [Sides -> Nat]
    /\ \A s \in Sides : size[s] <= given[s]
    /\ sender \in [Sides -> Nat]
    /\ receiver \in [Sides -> Receiving \cup {Idle}]
    /\ \A s \in Sides : receiver[s] # Idle => receiver[s].got < receiver[s].want
    /\ short \in [Sides -> BOOLEAN]
    /\ refused \in [Sides -> BOOLEAN]
    /\ closing \in [Sides -> {"no", "writer", "reader", "done"}]
    /\ cancelling \in Sides \cup {"no", "done"}

Ending(s) == closing[s] # "no" \/ cancelling # "no"

(* Socket::Read and ReadUpTo deliver a message whole: they come back short *)
(* only when the stream is over for their side, so a message is never cut  *)
(* by a chunk boundary, a timeout or the peer's pace, and what follows a   *)
(* short result is nothing.                                                *)
ShortOnlyAtEnd == \A s \in Sides : short[s] => AtEnd(s)

(* A closed flag on a pipe, a refused send or a short read is always the   *)
(* work of someone who closed an endpoint or cancelled: transport calls do *)
(* not fail on their own.                                                  *)
NobodyIsCutOff ==
    \A s \in Sides :
        /\ writerClosed[s] => Ending(s)
        /\ readerClosed[s] => Ending(Peer(s))
        /\ refused[s] \/ short[s] => Ending(s) \/ Ending(Peer(s))

(* A session has one endpoint on each side, made in the order of the       *)
(* rendezvous: the client's never without the server's, and none again     *)
(* once it has been closed, not for a new Socket of that side either, which *)
(* would find pipes that are closed and what its predecessor left in them. *)
EndpointsMadeOnce ==
    /\ \A s \in Sides : endpoint[s] = "open" => closing[s] = "no"
    /\ endpoint["client"] # "null" =>
           endpoint["server"] # "null" \/ closing["server"] # "no"

(* Cancel makes every call in progress on either side return, blocked      *)
(* sends and the reads that retry their timeouts included.                 *)
CancelReleases ==
    \A s \in Sides :
        /\ cancelling # "no" /\ sender[s] > 0 ~> sender[s] = 0
        /\ cancelling # "no" /\ receiver[s] # Idle ~> receiver[s] = Idle

(* A side that closes its endpoint releases the calls of its peer: a       *)
(* blocked send fails, and a read gets what is left and then the end.      *)
CloseReleasesPeer ==
    \A s \in Sides :
        /\ closing[s] # "no" /\ sender[Peer(s)] > 0 ~> sender[Peer(s)] = 0
        /\ closing[s] # "no" /\ receiver[Peer(s)] # Idle ~> receiver[Peer(s)] = Idle

=============================================================================
