----------------------------- MODULE QuerySort ------------------------------
(***************************************************************************)
(* A normal query, from loading the traces to the exit status of the       *)
(* process: run_query and ExternalSorter of src/src/query.cpp under main   *)
(* of src/src/main.cpp.                                                    *)
(*                                                                         *)
(* Matching records come from the visitors in any order.  They are kept in *)
(* a chunk; a full chunk is sorted and written to a temporary file; at the *)
(* end the files are merged through a heap that holds the next record of   *)
(* each.  One action is what happens to one record, and each of them can   *)
(* fail where the code calls the file system or the output stream.         *)
(***************************************************************************)
EXTENDS Integers, Sequences, FiniteSets

CONSTANTS
    Record,      \* the records the traces may hold
    ChunkSize,   \* 8192 in the code
    Limits       \* the values of --limit; without it, one no output reaches

(* The fields that order records, and what else they carry.  Of the labels *)
(* and the sources only their order matters.                               *)
Records == [time : Int, trace : Nat, kind : Nat, source : Nat,
            sequence : Nat, content : Nat]

ASSUME RecordAssumption == Record \subseteq Records /\ IsFiniteSet(Record)
ASSUME ChunkAssumption == ChunkSize \in Nat \ {0}
ASSUME LimitAssumption == Limits \subseteq Nat

VARIABLES
    phase,     \* "load", "visit", "merge" or "exit"
    limit,     \* options_.limit
    visited,   \* the matching records so far: record_count_ and history
    chunk,     \* chunk_
    runs,      \* runs_: of each temporary file what has not been read
    heap,      \* the nodes of the heap in finish
    out,       \* the records written to the output, in order
    cause,     \* what failed, if something did
    warned,    \* the truncation has been reported
    status     \* the exit status of the process

vars == <<phase, limit, visited, chunk, runs, heap, out, cause, warned, status>>

Causes == {"none", "load", "execution", "temporary file", "output", "pipe closed"}

-----------------------------------------------------------------------------
(* The two orders: that of a chunk and that of the heap *)

RecordLess(left, right) ==
    IF left.time # right.time THEN left.time < right.time
    ELSE IF left.trace # right.trace THEN left.trace < right.trace
    ELSE IF left.kind # right.kind THEN left.kind < right.kind
    ELSE IF left.source # right.source THEN left.source < right.source
    ELSE left.sequence < right.sequence

(* Definitions named Slip... are plausible mistakes in the definition that *)
(* follows; the specification does not use them.                           *)
SlipLaterIgnoresTrace(left, right) ==
    IF left.time # right.time THEN left.time > right.time
    ELSE IF left.kind # right.kind THEN left.kind > right.kind
    ELSE IF left.source # right.source THEN left.source > right.source
    ELSE left.sequence > right.sequence

Later(left, right) ==
    IF left.time # right.time THEN left.time > right.time
    ELSE IF left.trace # right.trace THEN left.trace > right.trace
    ELSE IF left.kind # right.kind THEN left.kind > right.kind
    ELSE IF left.source # right.source THEN left.source > right.source
    ELSE left.sequence > right.sequence

NotAfter(left, right) == ~RecordLess(right, left)

Elements(s) == {s[k] : k \in DOMAIN s}

(* What std::sort may make of a chunk: records that compare equal may come *)
(* in either order.                                                        *)
Sorted(S) ==
    {s \in [1 .. Cardinality(S) -> S] :
        \A i, j \in DOMAIN s : i < j => s[i] # s[j] /\ NotAfter(s[i], s[j])}

Full(S) == Cardinality(S) >= ChunkSize

-----------------------------------------------------------------------------

Init ==
    /\ phase = "load"
    /\ limit \in Limits
    /\ visited = {}
    /\ chunk = {}
    /\ runs = <<>>
    /\ heap = {}
    /\ out = <<>>
    /\ cause = "none"
    /\ warned = FALSE
    /\ status = 0

data == <<visited, chunk, runs, heap, out>>

Load ==
    /\ phase = "load"
    /\ phase' = "visit"
    /\ UNCHANGED <<limit, data, cause, warned, status>>

(* main: an OutputError is taken for a consumer that wants no more. *)
MainStatus(why) == IF why \in {"load", "execution"} THEN 1 ELSE 0

(* An exception: the process exits with what main makes of it. *)
Fail(why) ==
    /\ phase' = "exit"
    /\ cause' = why
    /\ status' = MainStatus(why)
    /\ UNCHANGED <<limit, warned>>

LoadFails == phase = "load" /\ Fail("load") /\ UNCHANGED data

(* Anything else a visitor or a regular expression may throw. *)
VisitFails == phase = "visit" /\ Fail("execution") /\ UNCHANGED data

(* add, with flush_chunk *)
Add(r) ==
    /\ phase = "visit"
    /\ r \notin visited
    /\ visited' = visited \cup {r}
    /\ LET filled == chunk \cup {r}
       IN  \/ /\ ~Full(filled)
              /\ chunk' = filled
              /\ UNCHANGED runs
           \/ /\ Full(filled)
              /\ chunk' = {}
              /\ \E run \in Sorted(filled) : runs' = Append(runs, run)
    /\ UNCHANGED <<phase, limit, heap, out, cause, warned, status>>

(* No temporary file, or no space in it: the sorter is destroyed. *)
AddFails(r) ==
    /\ phase = "visit"
    /\ r \notin visited
    /\ Full(chunk \cup {r})
    /\ Fail("temporary file")
    /\ UNCHANGED data

(* finish reads the first record of every file into the heap. *)
FirstOfRuns(files) ==
    {[record |-> files[k][1], run |-> k] : k \in {n \in DOMAIN files : files[n] # <<>>}}

RestOfRuns(files) ==
    [k \in DOMAIN files |-> IF files[k] = <<>> THEN <<>> ELSE Tail(files[k])]

BeginMerge ==
    /\ phase = "visit"
    /\ phase' = "merge"
    /\ chunk' = {}
    /\ \E last \in Sorted(chunk) :
          LET files == IF chunk = {} THEN runs ELSE Append(runs, last)
          IN  /\ heap' = FirstOfRuns(files)
              /\ runs' = RestOfRuns(files)
    /\ UNCHANGED <<limit, visited, out, cause, warned, status>>

BeginMergeFails ==
    /\ phase = "visit"
    /\ chunk # {} \/ runs # <<>>
    /\ Fail("temporary file")
    /\ UNCHANGED data

(* heap.top: a node that is later than no other. *)
Top(node) == \A other \in heap : ~Later(node.record, other.record)

SlipMoreWanted == heap # {} /\ Len(out) <= limit
MoreWanted == heap # {} /\ Len(out) < limit

(* The heap loses the node and gets the next one of the same file. *)
Refill(node) ==
    LET file == runs[node.run]
    IN  \/ /\ file = <<>>
           /\ heap' = heap \ {node}
           /\ UNCHANGED runs
        \/ /\ file # <<>>
           /\ heap' = (heap \ {node}) \cup {[record |-> file[1], run |-> node.run]}
           /\ runs' = [runs EXCEPT ![node.run] = Tail(file)]

Emit ==
    /\ phase = "merge"
    /\ MoreWanted
    /\ \E node \in heap :
          /\ Top(node)
          /\ out' = Append(out, node.record)
          /\ Refill(node)
    /\ UNCHANGED <<phase, limit, visited, chunk, cause, warned, status>>

(* The line cannot be written, because its consumer has gone or for        *)
(* another reason.                                                         *)
EmitFails ==
    /\ phase = "merge"
    /\ MoreWanted
    /\ \E why \in {"output", "pipe closed"} : Fail(why)
    /\ \E node \in heap : Top(node) /\ heap' = heap \ {node}
    /\ UNCHANGED <<visited, chunk, runs, out>>

(* The line is out, and its file cannot be read any further. *)
RefillFails ==
    /\ phase = "merge"
    /\ MoreWanted
    /\ \E node \in heap :
          /\ Top(node)
          /\ out' = Append(out, node.record)
          /\ heap' = heap \ {node}
    /\ Fail("temporary file")
    /\ UNCHANGED <<visited, chunk, runs>>

Truncated == Len(out) < Cardinality(visited)

(* verify_output, and the diagnostic that --quiet leaves out. *)
EndMerge ==
    /\ phase = "merge"
    /\ ~MoreWanted
    /\ phase' = "exit"
    /\ warned' = Truncated
    /\ UNCHANGED <<limit, data, cause, status>>

VerifyFails ==
    /\ phase = "merge"
    /\ ~MoreWanted
    /\ \E why \in {"output", "pipe closed"} : Fail(why)
    /\ UNCHANGED data

Step == \/ Load \/ LoadFails \/ VisitFails
        \/ BeginMerge \/ BeginMergeFails
        \/ Emit \/ EmitFails \/ RefillFails \/ EndMerge \/ VerifyFails

Done == phase = "exit" /\ UNCHANGED vars

Next == \/ \E r \in Record : Add(r) \/ AddFails(r)
        \/ Step
        \/ Done

Spec == Init /\ [][Next]_vars

-----------------------------------------------------------------------------
(* Properties *)

Pending == {node.record : node \in heap} \cup
           UNION {Elements(runs[k]) : k \in DOMAIN runs}
Emitted == Elements(out)

(* The type invariant. *)
TypeOK ==
    /\ phase \in {"load", "visit", "merge", "exit"}
    /\ limit \in Limits
    /\ visited \subseteq Record
    /\ chunk \subseteq visited
    /\ runs \in Seq(Seq(Record))
    /\ heap \subseteq [record : Record, run : DOMAIN runs]
    /\ out \in Seq(Record)
    /\ cause \in Causes
    /\ warned \in BOOLEAN
    /\ status \in {0, 1}

(* However the records were spread over chunks and files, and also when    *)
(* the query ends in a failure, what it has written is in order.           *)
SortedOutput ==
    \A i, j \in DOMAIN out : i < j => NotAfter(out[i], out[j])

(* Until something fails every matching record is in exactly one place.    *)
NothingLost ==
    phase \in {"visit", "merge"} =>
        /\ visited = chunk \cup Pending \cup Emitted
        /\ chunk \cap (Pending \cup Emitted) = {}
        /\ Pending \cap Emitted = {}

(* A query that ends without a failure has written every matching record,  *)
(* or as many as --limit allows, and has said so if there were more.       *)
CompleteAtEnd ==
    phase = "exit" /\ cause = "none" =>
        /\ Len(out) = IF limit < Cardinality(visited) THEN limit ELSE Cardinality(visited)
        /\ warned <=> Len(out) < Cardinality(visited)

(* "Status 1: capture loading, reading, output, or execution failed": only *)
(* a consumer that has closed the pipe may turn an incomplete output into  *)
(* a success.                                                              *)
SuccessIsComplete ==
    phase = "exit" /\ status = 0 => cause \in {"none", "pipe closed"}

(* The output is a stream of records shown smallest first.                 *)
Stream == INSTANCE OrderedOutput
    WITH taken <- visited, sealed <- phase \in {"merge", "exit"}, shown <- out
ImplementsOrderedOutput == Stream!Spec

=============================================================================
