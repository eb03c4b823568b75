---------------------------- MODULE MCQuerySort -----------------------------
(* Five records for TLC: two that compare equal, and pairs that differ in  *)
(* the trace, in the kind and in the time only.                            *)
EXTENDS QuerySort

Rec(t, r, k, c) ==
    [time |-> t, trace |-> r, kind |-> k, source |-> 1, sequence |-> 0, content |-> c]

MCRecord ==
    {Rec(1, 1, 1, 1), Rec(1, 0, 2, 1), Rec(1, 1, 2, 1), Rec(2, 0, 1, 1), Rec(2, 0, 1, 2)}

=============================================================================
