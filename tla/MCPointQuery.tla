---------------------------- MODULE MCPointQuery ----------------------------
(* Records for TLC. *)
EXTENDS PointQuery

Rec(source, sequence, start, end, content) ==
    [trace |-> 1, source |-> source, kind |-> 1, sequence |-> sequence,
     interval |-> TRUE, time |-> start, end |-> end, content |-> content]

(* Intervals of two sources, some of them nested, some at the same time,   *)
(* some around the point.                                                  *)
MCIntervals ==
    {Rec(1, 0, 1, 6, 0), Rec(1, 1, 3, 3, 0), Rec(1, 2, 3, 4, 0), Rec(1, 3, 5, 6, 0),
     Rec(2, 0, 2, 3, 0), Rec(2, 1, 4, 4, 0)}

(* Hardware samples of one counter: visit_hardware_samples numbers the     *)
(* samples of each address from 0, and the source names the counter only.  *)
Sample(sequence, time, address) ==
    [trace |-> 1, source |-> 1, kind |-> 1, sequence |-> sequence,
     interval |-> FALSE, time |-> time, end |-> time, content |-> address]

MCSamples == {Sample(0, 1, 1), Sample(1, 2, 1), Sample(0, 5, 2), Sample(1, 6, 2)}

MCGroupings == {<<>>, <<"source">>, <<"source", "kind">>}

=============================================================================
