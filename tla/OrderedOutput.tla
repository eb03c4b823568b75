--------------------------- MODULE OrderedOutput ----------------------------
(***************************************************************************)
(* What a query promises about the order of its output: records are taken  *)
(* in any order, and once all have been taken they are shown smallest      *)
(* first.  There is no chunk, no file, no heap and no limit here: output   *)
(* may stop early, but never skips a record.                               *)
(***************************************************************************)
EXTENDS Sequences

CONSTANTS Record, NotAfter(_, _)

VARIABLES
    taken,    \* the records that belong to the output
    sealed,   \* no record will be added
    shown     \* the output, in order

stream == <<taken, sealed, shown>>

Shown == {shown[k] : k \in DOMAIN shown}

Init ==
    /\ taken = {}
    /\ sealed = FALSE
    /\ shown = <<>>

Take ==
    /\ ~sealed
    /\ \E r \in Record \ taken : taken' = taken \cup {r}
    /\ UNCHANGED <<sealed, shown>>

Seal ==
    /\ ~sealed
    /\ sealed' = TRUE
    /\ UNCHANGED <<taken, shown>>

(* The next record is one that no record still to be shown comes before. *)
Show ==
    /\ sealed
    /\ \E r \in taken \ Shown :
          /\ \A other \in taken \ Shown : NotAfter(r, other)
          /\ shown' = Append(shown, r)
    /\ UNCHANGED <<taken, sealed>>

Next == Take \/ Seal \/ Show

Spec == Init /\ [][Next]_stream

=============================================================================
