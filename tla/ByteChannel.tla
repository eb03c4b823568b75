---------------------------- MODULE ByteChannel -----------------------------
(***************************************************************************)
(* What one direction of the embedded transport promises its two users: a  *)
(* bounded stream of bytes that arrives whole and in order, and an end of  *)
(* the stream that is announced only once everything has arrived.  There   *)
(* is no ring, no thread and no lock here.                                 *)
(***************************************************************************)
EXTENDS Integers, Sequences

CONSTANTS Byte, Capacity

VARIABLES
    accepted,   \* the bytes taken from the sender
    delivered,  \* the bytes given to the receiver
    closed,     \* an end has been closed
    ended       \* the receiver has been told that there is no more

channel == <<accepted, delivered, closed, ended>>

Init ==
    /\ accepted = <<>>
    /\ delivered = <<>>
    /\ closed = FALSE
    /\ ended = FALSE

IsPrefixOf(s, t) ==
    Len(s) <= Len(t) /\ \A k \in 1 .. Len(s) : s[k] = t[k]

(* The sender adds bytes to an open channel, within its capacity. *)
Accept ==
    /\ ~closed
    /\ accepted' \in Seq(Byte)
    /\ IsPrefixOf(accepted, accepted')
    /\ Len(accepted') <= Len(delivered) + Capacity
    /\ UNCHANGED <<delivered, closed, ended>>

(* The receiver gets the next bytes, from a closed channel too. *)
Deliver ==
    /\ delivered' \in Seq(Byte)
    /\ IsPrefixOf(delivered, delivered')
    /\ IsPrefixOf(delivered', accepted)
    /\ UNCHANGED <<accepted, closed, ended>>

Close ==
    /\ closed' = TRUE
    /\ UNCHANGED <<accepted, delivered, ended>>

(* The end is announced when everything accepted has been delivered. *)
Announce ==
    /\ closed
    /\ delivered = accepted
    /\ ended' = TRUE
    /\ UNCHANGED <<accepted, delivered, closed>>

Next == Accept \/ Deliver \/ Close \/ Announce

Spec == Init /\ [][Next]_channel

=============================================================================
