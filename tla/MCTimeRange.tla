---------------------------- MODULE MCTimeRange -----------------------------
(* Words of six bits.  The units stand for a nanosecond, a decimal         *)
(* multiple of it and one that is not decimal; the integer parts are       *)
(* around the ends of the trace and around the limits of the checks.       *)
EXTENDS TimeRange

MCScale == [d \in 0 .. MaxLength |-> 10 ^ d]

MCGiven ==
    {t \in Texts : t.fraction \in CASE t.digits = 0 -> {0}
                                     [] t.digits = 1 -> {0, 5, 7}
                                     [] t.digits = 2 -> {0, 50}}

=============================================================================
