------------------------------ MODULE Visitors ------------------------------
(***************************************************************************)
(* The visitors of src/src/query.cpp: how the collections of a trace are   *)
(* walked, which records each of them presents, in which order and under   *)
(* which number, and how the records of zones tell their depth, parent and *)
(* ancestors.                                                              *)
(*                                                                         *)
(* An item is what a trace stores: a message, a zone, an allocation with   *)
(* its release.  It lies at a place (a thread, a plot, a CPU, ...) or, if  *)
(* it is a zone, below another zone.  The recursion of the zone visitors   *)
(* is a stack of activations; an activation is one loop over a vector.     *)
(***************************************************************************)
EXTENDS Integers, Sequences, FiniteSets, TLC, SequencesExt, FiniteSetsExt

CONSTANTS
    N,           \* bound: the items of the trace
    Places,      \* how many threads, plots, GPU timelines, ... there are
    Foreign      \* threads of other programs: only their context switches are known

Item == 1 .. N

ASSUME SizeAssumption == N \in Nat /\ Places \in Nat \ {0}
ASSUME ForeignAssumption == Foreign \subseteq 1 .. Places

\* Kinds by how their visitors work.
Nested     == {"cpu-zone", "gpu-zone", "ghost-zone"}
ThreadKind == {"message", "cpu-zone", "sample", "ghost-zone", "context-switch"}
TraceWide  == {"message", "cpu-usage", "crash"}    \* one loop for the whole trace
Scheduled  == {"context-switch", "cpu-slice"}      \* the last of a vector may be open
Interval   == Nested \cup Scheduled \cup {"frame"}
Stored     == ThreadKind \cup TraceWide \cup Nested \cup Scheduled \cup
              {"plot", "frame", "lock", "memory", "hardware-sample"}
NoKind     == "none"
NoParent   == -1
NoVector   == [place |-> 0, part |-> 0]

VARIABLES
    kindOf,    \* what an item is, or NoKind
    above,     \* where it is: the zone it is in, or -p for the place p
    marked,    \* frames with an image; allocations that were released; samples of
               \* context switches; the second hardware counter; intervals without end
    shift,     \* how far the GPU clock is from the order of the file
    todo,      \* the kinds the query has still to visit
    kind,      \* the kind being visited
    vectors,   \* the vectors its visitor has still to walk
    vector,    \* the vector it walks, while there is an activation
    stack,     \* the activations, the innermost last
    nextId,    \* next_id, sequence or index
    records    \* what the visitors have presented, in order

trace == <<kindOf, above, marked, shift>>
vars  == <<trace, todo, kind, vectors, vector, stack, nextId, records>>

-----------------------------------------------------------------------------
(* The trace. *)

(* The zones above an item: what is in every set that has the zone it is   *)
(* in and with a zone the one that zone is in.                             *)
HasAbove(f, z, S) == f[z] > 0 => f[z] \in S
Ancestors(f, z) ==
    {x \in Item : \A S \in SUBSET Item :
                    HasAbove(f, z, S) /\ (\A y \in S : HasAbove(f, y, S)) => x \in S}

PlaceIn(f, z) == LET top == {x \in Ancestors(f, z) \cup {z} : f[x] < 0}
                 IN  -f[CHOOSE x \in top : TRUE]

\* Zones lie below zones of their kind.  Only GPU zones may begin out of
\* order: the other zones of a timeline end before the next one begins.
IsPlaced(f, z) ==
    IF f[z] > 0
    THEN /\ kindOf[z] \in Nested /\ f[z] < z /\ kindOf[f[z]] = kindOf[z]
         /\ kindOf[z] # "gpu-zone" =>
              \A y \in f[z] + 1 .. z - 1 :
                 kindOf[y] = kindOf[z] /\ PlaceIn(f, y) = PlaceIn(f, z) => f[z] \in Ancestors(f, y)
    ELSE /\ kindOf[z] \in {"cpu-usage", "crash", NoKind} => f[z] = -1
         /\ kindOf[z] \in ThreadKind \ {"context-switch"} => -f[z] \notin Foreign

MayBeMarked(z) ==
    \/ kindOf[z] \in {"frame", "memory", "sample", "hardware-sample"}
    \/ kindOf[z] \in Scheduled /\ \A y \in z + 1 .. N : kindOf[y] = kindOf[z] => above[y] # above[z]

\* The records of a thread may be of two kinds; other items are of one.
\* A trace has one crash.
Together(k, other, S) ==
    \/ k = "crash" /\ other = NoKind /\ S = 2 .. N
    \/ k \in ThreadKind /\ other \in ThreadKind /\ 1 \notin S
    \/ k \notin ThreadKind \cup {"crash"} /\ other = NoKind /\ S = {}

Init ==
    /\ \E k \in Stored, other \in ThreadKind \cup {NoKind}, S \in SUBSET Item :
          /\ Together(k, other, S)
          /\ kindOf = [z \in Item |-> IF z \in S THEN other ELSE k]
    /\ above \in {f \in [Item -> (-Places .. -1) \cup Item] :
                     /\ \A z \in Item : f[z] < z
                     /\ \A z \in Item : IsPlaced(f, z)}
    /\ marked \in {S \in SUBSET Item : \A z \in S : MayBeMarked(z)}
    /\ shift \in IF kindOf[1] = "gpu-zone" THEN 0 .. N - 1 ELSE {0}
    /\ todo = {kindOf[z] : z \in {x \in Item : kindOf[x] # NoKind}} \cup
              IF kindOf[1] = "frame" THEN {"frame-image"} ELSE {}
    /\ kind = NoKind
    /\ vectors = {} /\ vector = NoVector /\ stack = <<>>
    /\ nextId = 0
    /\ records = <<>>

Below(z) == {x \in Item : x = z \/ z \in Ancestors(above, x)}
PlaceOf(z) == PlaceIn(above, z)

\* Items begin at even times and end at odd ones, zones after all that is
\* below them.  What was allocated first is released last.
Order(z) == 1 + ((z - 1 + shift) % N)
StartOf(z) == 2 * Order(z)
EndOf(z) == 1 + 2 * Order(CHOOSE x \in Below(z) : \A y \in Below(z) : Order(y) <= Order(x))
FreeOf(z) == 1 + 2 * (2 * N - z)
IsOpen(z) == kindOf[z] \in Scheduled /\ z \in marked

-----------------------------------------------------------------------------
(* The vectors of a kind. *)

\* Frame images are looked for among the frames.
Holding(k) == IF k = "frame-image" THEN "frame" ELSE k

\* A vector lies at a place; the samples of an address are in a vector per
\* counter.
Vectors(k) ==
    CASE k \in TraceWide         -> [place : {0}, part : {0}]
      [] k = "hardware-sample" -> [place : 1 .. Places, part : {1, 2}]
      [] OTHER                 -> [place : 1 .. Places, part : {0}]

Precedes(v, w) == v.place < w.place \/ (v.place = w.place /\ v.part < w.part)

Holds(k, v, z) ==
    /\ kindOf[z] = Holding(k)
    /\ v.place # 0 => above[z] = -v.place
    /\ v.part # 0 => (z \in marked) = (v.part = 2)

\* The samples of a thread come before those of its context switches.
Earlier(k, y, z) ==
    IF k = "sample" /\ (y \in marked) # (z \in marked) THEN z \in marked ELSE y < z

Roots(k, v) == {z \in Item : Holds(k, v, z)}
Children(z) == {x \in Item : above[x] = z}

SourceType(k) ==
    CASE k \in ThreadKind             -> "thread"
      [] k = "gpu-zone"               -> "gpu-thread"
      [] k \in {"frame", "frame-image"} -> "frame-set"
      [] k = "memory"                 -> "memory-pool"
      [] k = "cpu-slice"              -> "cpu"
      [] k = "hardware-sample"        -> "hardware-counter"
      [] k \in {"cpu-usage", "crash"} -> "capture"
      [] OTHER                        -> k

SourceOf(k, v, z) ==
    <<SourceType(k), CASE k \in {"cpu-usage", "crash"} -> 0
                       [] k = "hardware-sample" -> v.part
                       [] k = "message" -> PlaceOf(z)
                       [] OTHER -> v.place>>

-----------------------------------------------------------------------------
(* The walk. *)

Activation(items, depth, parent, ancestors) ==
    [items |-> items, depth |-> depth, parent |-> parent, ancestors |-> ancestors]

(* visit_kind, for a kind of the query.  Vectors without items are left    *)
(* out: no loop over them has a turn.                                      *)
NextKind ==
    /\ stack = <<>> /\ vectors = {}
    /\ \E k \in todo :
          /\ kind' = k
          /\ todo' = todo \ {k}
          /\ vectors' = {v \in Vectors(k) : Roots(k, v) # {}}
    /\ nextId' = 0
    /\ UNCHANGED <<trace, vector, stack, records>>

(* CPU and GPU zones are numbered through the trace, all others by vector. *)
CountsOn(k) == k \in {"cpu-zone", "gpu-zone"}

NextVector ==
    /\ stack = <<>>
    /\ \E v \in vectors :
          /\ \A w \in vectors \ {v} : Precedes(v, w)
          /\ vector' = v
          /\ vectors' = vectors \ {v}
          /\ stack' = <<Activation(Roots(kind, v), 0, NoParent, <<>>)>>
    /\ nextId' = IF CountsOn(kind) THEN nextId ELSE 0
    /\ UNCHANGED <<trace, todo, kind, records>>

(* The loops over ghost zones hand no ancestors down. *)
AncestorsBelow(z, top) == IF kind = "ghost-zone" THEN <<>> ELSE Append(top.ancestors, z)

(* Definitions named Slip... are plausible mistakes in the definition that *)
(* follows; the specification does not use them.                           *)
SlipInside(z, top, id) ==
    Activation(Children(z), top.depth + 1, top.parent, AncestorsBelow(z, top))
Inside(z, top, id) ==
    Activation(Children(z), top.depth + 1, id, AncestorsBelow(z, top))

(* The item taken, the innermost loop stands at the next one and, when the *)
(* item has children, the loop over them begins.                           *)
Descend(z, top) ==
    LET rest == Append(Front(stack), [top EXCEPT !.items = @ \ {z}])
    IN  IF Children(z) = {} THEN rest ELSE Append(rest, Inside(z, top, nextId))

(* An interval without end is presented as one that ends where it begins;  *)
(* so are points in time.                                                  *)
End(z) == IF kind \in Interval /\ ~IsOpen(z) THEN EndOf(z) ELSE StartOf(z)

Record(z, top) ==
    [kind |-> kind, source |-> SourceOf(kind, vector, z), id |-> nextId,
     item |-> z, release |-> FALSE, start |-> StartOf(z), end |-> End(z),
     depth |-> top.depth, parent |-> top.parent, ancestors |-> top.ancestors]

(* The release of an allocation is a record of its own. *)
Release(z, top) ==
    [Record(z, top) EXCEPT !.id = nextId + 1, !.release = TRUE,
                           !.start = FreeOf(z), !.end = FreeOf(z)]

Presents(z, top) ==
    CASE kind = "frame-image" /\ z \notin marked -> <<>>
      [] kind = "memory" /\ z \in marked -> <<Record(z, top), Release(z, top)>>
      [] OTHER -> <<Record(z, top)>>

(* One turn of a loop: the item is presented and then its children are     *)
(* walked, in an activation of their own.  Frames count by their index,    *)
(* whether or not they have the image that is looked for.                  *)
Visit ==
    /\ stack # <<>>
    /\ LET top == Last(stack) IN
       \E z \in top.items :
          /\ \A y \in top.items \ {z} : Earlier(kind, z, y)
          /\ records' = records \o Presents(z, top)
          /\ nextId' = nextId + (IF kind = "memory" /\ z \in marked THEN 2 ELSE 1)
          /\ stack' = Descend(z, top)
    /\ UNCHANGED <<trace, todo, kind, vectors, vector>>

(* The end of a loop: the outermost is the end of its vector. *)
Leave ==
    /\ stack # <<>>
    /\ Last(stack).items = {}
    /\ stack' = Front(stack)

SlipReturn ==
    /\ Leave
    /\ nextId' = IF Len(stack) > 1 THEN Last(stack).parent + 1 ELSE nextId
    /\ UNCHANGED <<trace, todo, kind, vectors, vector, records>>

(* The count is handed down by reference: it goes on after a loop ends.    *)
Return ==
    /\ Leave
    /\ UNCHANGED <<trace, todo, kind, vectors, vector, nextId, records>>

Over == todo = {} /\ vectors = {} /\ stack = <<>>

Next == NextKind \/ NextVector \/ Visit \/ Return \/ (Over /\ UNCHANGED vars)

Spec == Init /\ [][Next]_vars

-----------------------------------------------------------------------------
(* Properties *)

Presented == {records[k] : k \in DOMAIN records}

(* No two records of a source and a kind have the same number: what point  *)
(* queries take for a record's identity is one, except for hardware        *)
(* samples, which are numbered per address while their source names the    *)
(* counter only.  The zone_id of a CPU or GPU zone is its own in the whole *)
(* trace.                                                                  *)
NumbersIdentify ==
    \A r, s \in Presented :
        r.id = s.id /\ r.kind = s.kind /\ r.kind # "hardware-sample" =>
        (r.source = s.source \/ CountsOn(r.kind) => r = s)

(* The parent a record names is the record of the zone it is in, presented *)
(* before it, one level up, and its ancestors are that record's and it     *)
(* (ghost zones name no ancestors).                                        *)
ParentsAreRight ==
    \A r \in Presented :
        \/ r.parent = NoParent /\ above[r.item] < 0 /\ r.depth = 0 /\ r.ancestors = <<>>
        \/ \E s \in Presented :
              /\ s.source = r.source /\ s.kind = r.kind
              /\ s.id = r.parent /\ s.id < r.id
              /\ s.item = above[r.item]
              /\ r.depth = s.depth + 1
              /\ r.ancestors = IF r.kind = "ghost-zone" THEN <<>>
                               ELSE Append(s.ancestors, s.item)

=============================================================================
