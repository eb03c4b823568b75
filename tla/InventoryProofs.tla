--------------------------- MODULE InventoryProofs ---------------------------
(***************************************************************************)
(* Proofs about the visitors, the matcher and the command `sources', for   *)
(* any trace and any options: the number of a record identifies it, the    *)
(* zones name their parents, the structure options select what they say,   *)
(* every item is presented once, and `sources' lists, counts and times     *)
(* what the visitors present and selects what a query selects.             *)
(***************************************************************************)
EXTENDS Matcher, FiniteSetTheorems, NaturalsInduction, WellFoundedInduction, TLAPS

Kinds == Stored \cup {"frame-image"}

-----------------------------------------------------------------------------
(* The invariant *)

(* What is below an item is a zone, and so is the item. *)
TraceSound ==
    /\ above \in [Item -> (-Places .. -1) \cup Item]
    /\ \A z \in Item : above[z] < z
    /\ \A z \in Item :
          above[z] > 0 => kindOf[z] \in Nested /\ kindOf[above[z]] = kindOf[z]

Activations == [items : SUBSET Item, depth : Nat, parent : Int, ancestors : Seq(Item)]

(* A vector is walked once, and a kind is visited once. *)
WalkSound ==
    /\ todo \subseteq Kinds /\ kind \in Kinds \cup {NoKind} /\ kind \notin todo
    /\ vectors \subseteq Vectors(kind) /\ (kind = NoKind => vectors = {})
    /\ stack # <<>> => kind # NoKind /\ vector \in Vectors(kind) \ vectors
    /\ stack \in Seq(Activations)
    /\ nextId \in Nat

RecordSound(r) ==
    /\ r.kind \in Kinds \ todo
    /\ r.item \in Item /\ kindOf[r.item] = Holding(r.kind)
    /\ r.id \in Nat /\ r.depth \in Nat /\ r.ancestors \in Seq(Item)
    /\ r.source = <<SourceType(r.kind), r.source[2]>>
RecordsSound == records \in Seq(Presented) /\ \A r \in Presented : RecordSound(r)

(* The numbers given out under the source of the present vector, or in the *)
(* whole trace, lie below the next one, and no source comes twice.         *)
NumberedBelow(r) ==
    IF CountsOn(kind) THEN r.id < nextId
    ELSE kind # "hardware-sample" =>
            /\ \A v \in vectors : v.place # 0 /\ r.source[2] # v.place
            /\ stack # <<>> /\ (vector.place = 0 \/ r.source[2] = vector.place) => r.id < nextId
NumbersBelow == \A r \in Presented : r.kind = kind => NumberedBelow(r)

(* An activation walks items that lie at a place, or all that lies below   *)
(* one zone, of which there is a record.                                   *)
Topmost(a) ==
    a.parent = NoParent /\ a.depth = 0 /\ a.ancestors = <<>> /\ \A z \in a.items : above[z] < 0
Under(a, s) ==
    /\ kind \in Nested /\ s.kind = kind /\ s.source = <<SourceType(kind), vector.place>>
    /\ a.parent = s.id /\ s.id < nextId
    /\ \A z \in a.items : above[z] = s.item
    /\ a.depth = s.depth + 1
    /\ a.ancestors = IF kind = "ghost-zone" THEN <<>> ELSE Append(s.ancestors, s.item)
StackSound ==
    \A i \in DOMAIN stack :
        /\ \A z \in stack[i].items : kindOf[z] = Holding(kind)
        /\ Topmost(stack[i]) \/ \E s \in Presented : Under(stack[i], s)

(* The depth and the ancestors of a record are those of its zone. *)
OnItsPath(r) == r.kind \in Nested =>
    LET over == Ancestors(above, r.item) IN
    /\ r.depth = Cardinality(over)
    /\ r.kind # "ghost-zone" =>
          /\ ToSet(r.ancestors) = over
          /\ r.ancestors = <<>> <=> above[r.item] < 0
          /\ r.ancestors # <<>> => Last(r.ancestors) = above[r.item]
PathsSound == \A r \in Presented : OnItsPath(r)

IInv ==
    /\ TraceSound
    /\ WalkSound
    /\ RecordsSound
    /\ NumbersBelow
    /\ StackSound
    /\ NumbersIdentify
    /\ ParentsAreRight
    /\ PathsSound

-----------------------------------------------------------------------------
(* The tree of zones *)

LEMMA Items == N \in Nat /\ Places \in Nat /\ Item \subseteq Nat /\ (\A z \in Item : z > 0) /\ IsFiniteSet(Item)
<1>1. N \in Nat /\ Places \in Nat
  BY SizeAssumption
<1>2. IsFiniteSet(1 .. N)
  BY <1>1, FS_Interval
<1> QED
  BY <1>1, <1>2 DEF Item

LEMMA AboveOrOut ==
    ASSUME TraceSound, NEW z \in Item
    PROVE  \/ above[z] \in Item /\ above[z] > 0 /\ ~(above[z] < 0)
           \/ above[z] \in Int /\ above[z] < 0 /\ ~(above[z] > 0)
<1>1. above[z] \in (-Places .. -1) \cup Item
  BY DEF TraceSound
<1>2. CASE above[z] \in Item
  <2>1. above[z] \in Nat /\ above[z] > 0
    BY <1>2, Items
  <2> QED
    BY <1>2, <2>1
<1>3. CASE above[z] \in -Places .. -1
  BY <1>3, Items
<1> QED
  BY <1>1, <1>2, <1>3

LEMMA NoneAbove ==
    ASSUME NEW z \in Item, TraceSound, above[z] < 0
    PROVE  Ancestors(above, z) = {}
<1>1. HasAbove(above, z, {})
  BY AboveOrOut DEF HasAbove
<1>2. {} \in SUBSET Item
  OBVIOUS
<1>3. \A y \in {} : HasAbove(above, y, {})
  OBVIOUS
<1> QED
  BY <1>1, <1>2, <1>3 DEF Ancestors

LEMMA AboveAncestor ==
    ASSUME NEW z \in Item, TraceSound
    PROVE  \A y \in Ancestors(above, z) : HasAbove(above, y, Ancestors(above, z))
<1> SUFFICES ASSUME NEW y \in Ancestors(above, z), above[y] > 0
             PROVE  above[y] \in Ancestors(above, z)
  BY DEF HasAbove
<1>1. y \in Item
  BY DEF Ancestors
<1>2. above[y] \in Item
  BY <1>1, AboveOrOut
<1>3. ASSUME NEW S \in SUBSET Item, HasAbove(above, z, S), \A x \in S : HasAbove(above, x, S)
      PROVE  above[y] \in S
  <2>1. y \in S
    BY <1>3 DEF Ancestors
  <2> QED
    BY <1>3, <2>1 DEF HasAbove
<1> QED
  BY <1>2, <1>3 DEF Ancestors

LEMMA AncestorsUnfold ==
    ASSUME NEW z \in Item, TraceSound, above[z] > 0
    PROVE  Ancestors(above, z) = {above[z]} \cup Ancestors(above, above[z])
<1> DEFINE a == above[z]
           S == {a} \cup Ancestors(above, a)
<1>1. a \in Item
  BY AboveOrOut
<1>2. S \in SUBSET Item
  BY <1>1 DEF Ancestors
<1>3. Ancestors(above, z) \subseteq S
  <2>1. HasAbove(above, z, S)
    BY DEF HasAbove
  <2>2. HasAbove(above, a, Ancestors(above, a))
    <3> SUFFICES ASSUME above[a] > 0 PROVE above[a] \in Ancestors(above, a)
      BY DEF HasAbove
    <3>1. above[a] \in Item
      BY <1>1, AboveOrOut
    <3> QED
      BY <3>1 DEF Ancestors, HasAbove
  <2>3. \A y \in S : HasAbove(above, y, S)
    BY <1>1, <2>2, AboveAncestor DEF HasAbove
  <2> HIDE DEF S
  <2> QED
    BY <1>2, <2>1, <2>3 DEF Ancestors
<1>4. S \subseteq Ancestors(above, z)
  <2> SUFFICES ASSUME NEW x \in S, NEW R \in SUBSET Item, HasAbove(above, z, R),
                      \A y \in R : HasAbove(above, y, R)
               PROVE  x \in R
    BY <1>2 DEF Ancestors
  <2>1. a \in R
    BY DEF HasAbove
  <2>2. CASE x \in Ancestors(above, a)
    BY <2>1, <2>2 DEF Ancestors
  <2> QED
    BY <2>1, <2>2
<1> QED
  BY <1>3, <1>4

LEMMA AncestorsBefore ==
    ASSUME NEW z \in Item, TraceSound
    PROVE  \A x \in Ancestors(above, z) : x < z
<1> DEFINE S == {y \in Item : y < z}
<1>1. HasAbove(above, z, S)
  BY AboveOrOut DEF TraceSound, HasAbove
<1>2. ASSUME NEW y \in S PROVE HasAbove(above, y, S)
  <2> SUFFICES ASSUME above[y] > 0 PROVE above[y] \in S
    BY DEF HasAbove
  <2>1. above[y] \in Item /\ above[y] < y /\ y \in Item /\ y < z
    BY AboveOrOut DEF TraceSound
  <2>2. above[y] \in Nat /\ y \in Nat /\ z \in Nat
    BY <2>1, Items
  <2>3. above[y] < z
    BY <2>1, <2>2
  <2> QED
    BY <2>1, <2>3
<1>3. S \in SUBSET Item
  OBVIOUS
<1> QED
  BY <1>1, <1>2, <1>3 DEF Ancestors

(* A zone has one ancestor more than the zone it is in. *)
LEMMA OneMoreAbove ==
    ASSUME NEW z \in Item, TraceSound, above[z] > 0
    PROVE  Cardinality(Ancestors(above, z)) = Cardinality(Ancestors(above, above[z])) + 1
<1> DEFINE a == above[z]
           A == Ancestors(above, a)
<1>1. a \in Item
  BY AboveOrOut
<1>2. a \notin A
  <2>1. \A x \in A : x < a
    BY <1>1, AncestorsBefore
  <2>2. ~(a < a)
    <3>1. \A n \in Nat : ~(n < n)
      OBVIOUS
    <3> QED
      BY <1>1, <3>1, Items
  <2> QED
    BY <2>1, <2>2
<1>3. IsFiniteSet(A)
  <2>1. A \subseteq Item
    BY DEF Ancestors
  <2> QED
    BY <2>1, Items, FS_Subset
<1>4. Ancestors(above, z) = A \cup {a}
  BY AncestorsUnfold
<1> HIDE DEF A, a
<1>5. Cardinality(A \cup {a}) = Cardinality(A) + 1
  BY <1>2, <1>3, FS_AddElement
<1> QED
  BY <1>4, <1>5 DEF A, a

-----------------------------------------------------------------------------
(* Sequences *)

LEMMA Joined ==
    ASSUME NEW S, NEW T, NEW s \in Seq(S), NEW t \in Seq(T)
    PROVE  ToSet(s \o t) = ToSet(s) \cup ToSet(t)
<1>1. /\ s \in Seq(S \cup T) /\ t \in Seq(S \cup T)
      /\ Len(s) \in Nat /\ Len(t) \in Nat
      /\ DOMAIN s = 1 .. Len(s) /\ DOMAIN t = 1 .. Len(t)
  OBVIOUS
<1>2. /\ s \o t \in Seq(S \cup T)
      /\ DOMAIN (s \o t) = 1 .. Len(s) + Len(t)
      /\ \A i \in 1 .. Len(s) : (s \o t)[i] = s[i]
      /\ \A i \in 1 .. Len(t) : (s \o t)[Len(s) + i] = t[i]
  BY <1>1
<1>3. \A i \in 1 .. Len(s) + Len(t) : i \in 1 .. Len(s) \/ \E j \in 1 .. Len(t) : i = Len(s) + j
  <2> TAKE i \in 1 .. Len(s) + Len(t)
  <2>1. CASE i > Len(s)
    <3>1. i - Len(s) \in 1 .. Len(t) /\ i = Len(s) + (i - Len(s))
      BY <1>1, <2>1
    <3> QED
      BY <3>1
  <2> QED
    BY <1>1, <2>1
<1>4. \A i \in 1 .. Len(s) : i \in 1 .. Len(s) + Len(t)
  BY <1>1
<1>5. \A j \in 1 .. Len(t) : Len(s) + j \in 1 .. Len(s) + Len(t)
  BY <1>1
<1> DEFINE u == s \o t
<1> HIDE DEF u
<1>6. \A i \in DOMAIN u : u[i] \in {s[k] : k \in DOMAIN s} \cup {t[k] : k \in DOMAIN t}
  BY <1>1, <1>2, <1>3 DEF u
<1>7. /\ \A i \in DOMAIN s : s[i] \in {u[k] : k \in DOMAIN u}
      /\ \A i \in DOMAIN t : t[i] \in {u[k] : k \in DOMAIN u}
  BY <1>1, <1>2, <1>4, <1>5 DEF u
<1>8. ToSet(u) = ToSet(s) \cup ToSet(t)
  BY <1>6, <1>7 DEF ToSet
<1> QED
  BY <1>8 DEF u

LEMMA FrontIs ==
    ASSUME NEW S, NEW s \in Seq(S), s # <<>>
    PROVE  /\ Front(s) \in Seq(S) /\ Last(s) \in S
           /\ Len(s) \in DOMAIN s /\ Last(s) = s[Len(s)]
           /\ \A i \in DOMAIN Front(s) : i \in DOMAIN s /\ Front(s)[i] = s[i]
           /\ Front(s) # <<>> => s # <<>>
  BY DEF Front, Last

LEMMA AppendedRange ==
    ASSUME NEW S, NEW s \in Seq(S), NEW x
    PROVE  ToSet(Append(s, x)) = ToSet(s) \cup {x}
<1>1. /\ Len(s) \in Nat /\ DOMAIN s = 1 .. Len(s) /\ DOMAIN Append(s, x) = 1 .. Len(s) + 1
      /\ \A i \in 1 .. Len(s) : Append(s, x)[i] = s[i]
      /\ Append(s, x)[Len(s) + 1] = x
  OBVIOUS
<1>2. \A i \in 1 .. Len(s) + 1 : i \in 1 .. Len(s) \/ i = Len(s) + 1
  BY <1>1
<1>3. (\A i \in 1 .. Len(s) : i \in 1 .. Len(s) + 1) /\ Len(s) + 1 \in 1 .. Len(s) + 1
  BY <1>1
<1> DEFINE t == Append(s, x)
<1> HIDE DEF t
<1> QED
  BY <1>1, <1>2, <1>3 DEF t, ToSet

LEMMA Appended ==
    ASSUME NEW S, NEW s \in Seq(S), NEW x
    PROVE  \A i \in DOMAIN Append(s, x) :
              \/ i \in DOMAIN s /\ Append(s, x)[i] = s[i]
              \/ Append(s, x)[i] = x
  OBVIOUS

-----------------------------------------------------------------------------
(* Vectors and what is presented *)

LEMMA VectorPlaces ==
    ASSUME NEW k, NEW v \in Vectors(k)
    PROVE  /\ v.place = 0 <=> k \in TraceWide
           /\ v.place \in Nat
           /\ k # "hardware-sample" => v.part = 0
           /\ k # "hardware-sample" /\ v.place # 0 => \A z : SourceOf(k, v, z)[2] = v.place
<1>1. CASE k \in TraceWide
  BY <1>1 DEF Vectors, TraceWide
<1>2. CASE k = "hardware-sample"
  BY <1>2, Items DEF Vectors, TraceWide
<1>3. CASE k \notin TraceWide /\ k # "hardware-sample"
  <2>1. v \in [place : 1 .. Places, part : {0}]
    BY <1>3 DEF Vectors
  <2>2. \A z : SourceOf(k, v, z)[2] = v.place
    BY <1>3 DEF SourceOf, TraceWide
  <2> QED
    BY <1>3, <2>1, <2>2, Items
<1> QED
  BY <1>1, <1>2, <1>3

LEMMA VectorsApart ==
    ASSUME NEW k, k # "hardware-sample", NEW v \in Vectors(k), NEW w \in Vectors(k), v # w
    PROVE  v.place # 0 /\ w.place # 0 /\ v.place # w.place
<1>1. CASE k \in TraceWide
  BY <1>1 DEF Vectors
<1>2. CASE k \notin TraceWide
  <2>1. v \in [place : 1 .. Places, part : {0}] /\ w \in [place : 1 .. Places, part : {0}]
    BY <1>2 DEF Vectors
  <2> QED
    BY <2>1, Items
<1> QED
  BY <1>1, <1>2

LEMMA RootsAreTopmost ==
    ASSUME TraceSound, NEW k \in Kinds, NEW v \in Vectors(k), NEW z \in Roots(k, v)
    PROVE  z \in Item /\ kindOf[z] = Holding(k) /\ above[z] < 0
<1>1. z \in Item /\ Holds(k, v, z)
  BY DEF Roots
<1>2. CASE v.place # 0
  <2>1. above[z] = -v.place /\ v.place \in Nat
    BY <1>1, <1>2, VectorPlaces DEF Holds
  <2> QED
    BY <1>1, <1>2, <2>1 DEF Holds
<1>3. CASE v.place = 0
  <2>1. k \in TraceWide /\ kindOf[z] = k
    BY <1>1, <1>3, VectorPlaces DEF Holds, Holding, TraceWide
  <2>2. kindOf[z] \notin Nested
    BY <2>1 DEF TraceWide, Nested
  <2>3. ~(above[z] > 0)
    BY <1>1, <2>2 DEF TraceSound
  <2> QED
    BY <1>1, <2>3, AboveOrOut DEF Holds
<1> QED
  BY <1>2, <1>3

(* What a turn of a loop presents. *)
Turned(z, top, r) ==
    /\ r.kind = kind /\ r.source = SourceOf(kind, vector, z) /\ r.item = z
    /\ r.depth = top.depth /\ r.parent = top.parent /\ r.ancestors = top.ancestors
    /\ \/ r.id = nextId
       \/ kind = "memory" /\ z \in marked /\ r.id = nextId + 1

LEMMA PresentsTurned ==
    ASSUME NEW z, NEW top, nextId \in Nat,
           NEW p, p = Presents(z, top), NEW new, new = ToSet(p)
    PROVE  /\ p \in Seq(new)
           /\ \A r \in new : Turned(z, top, r)
           /\ \A r, s \in new : r.id = s.id => r = s
           /\ kind \in Nested => Record(z, top) \in new
<1> DEFINE a == Record(z, top)
           b == Release(z, top)
<1>1. Turned(z, top, a) /\ a.id = nextId
  BY DEF Record, Turned
<1>2. kind = "memory" /\ z \in marked => Turned(z, top, b) /\ b.id = nextId + 1
  BY DEF Release, Record, Turned
<1>3. \/ p = <<>> /\ kind = "frame-image"
      \/ p = <<a, b>> /\ kind = "memory" /\ z \in marked
      \/ p = <<a>>
  BY DEF Presents
<1> HIDE DEF a, b
<1>4. CASE p = <<>> /\ kind = "frame-image"
  <2>1. new = {} /\ p \in Seq({})
    BY <1>4 DEF ToSet
  <2> QED
    BY <1>4, <2>1 DEF Nested
<1>5. CASE p = <<a, b>> /\ kind = "memory" /\ z \in marked
  <2>1. new = {a, b} /\ p \in Seq({a, b})
    BY <1>5 DEF ToSet
  <2>2. a.id # b.id
    BY <1>1, <1>2, <1>5
  <2> QED
    BY <1>1, <1>2, <1>5, <2>1, <2>2 DEF Nested
<1>6. CASE p = <<a>>
  <2>1. new = {a} /\ p \in Seq({a})
    BY <1>6 DEF ToSet
  <2> QED
    BY <1>1, <1>6, <2>1 DEF a
<1> QED
  BY <1>3, <1>4, <1>5, <1>6

-----------------------------------------------------------------------------
(* The steps *)

LEMMA InitInv == Init => IInv
<1> SUFFICES ASSUME Init PROVE IInv
  OBVIOUS
<1>1. records = <<>> /\ stack = <<>> /\ vectors = {} /\ kind = NoKind /\ nextId = 0
  BY DEF Init
<1>2. Presented = {} /\ DOMAIN stack = {}
  BY <1>1 DEF Presented
<1>3. TraceSound
  <2>1. above \in [Item -> (-Places .. -1) \cup Item] /\ \A z \in Item : above[z] < z
    BY DEF Init
  <2>2. \A z \in Item : IsPlaced(above, z)
    BY DEF Init
  <2>3. \A z \in Item : above[z] > 0 => kindOf[z] \in Nested /\ kindOf[above[z]] = kindOf[z]
    BY <2>2 DEF IsPlaced
  <2> QED
    BY <2>1, <2>3 DEF TraceSound
<1>4. WalkSound
  <2>1. todo \subseteq Kinds
    <3>1. PICK k \in Stored, other \in ThreadKind \cup {NoKind}, S \in SUBSET Item :
             kindOf = [z \in Item |-> IF z \in S THEN other ELSE k]
      <4>1. \E k \in Stored, other \in ThreadKind \cup {NoKind}, S \in SUBSET Item :
               Together(k, other, S) /\ kindOf = [z \in Item |-> IF z \in S THEN other ELSE k]
        BY Zenon DEF Init
      <4> QED
        BY <4>1
    <3>2. \A z \in Item : kindOf[z] \in Stored \cup {NoKind}
      BY <3>1 DEF Stored
    <3>3. \A x \in todo : x = "frame-image" \/ \E z \in Item : kindOf[z] # NoKind /\ x = kindOf[z]
      BY DEF Init
    <3> QED
      BY <3>2, <3>3 DEF Kinds
  <2>2. NoKind \notin Kinds
    BY DEF NoKind, Kinds, Stored, ThreadKind, TraceWide, Nested, Scheduled
  <2> QED
    BY <1>1, <2>1, <2>2 DEF WalkSound
<1>5. RecordsSound /\ NumbersBelow /\ StackSound
  BY <1>1, <1>2 DEF RecordsSound, NumbersBelow, StackSound
<1>6. NumbersIdentify /\ ParentsAreRight /\ PathsSound
  BY <1>2 DEF NumbersIdentify, ParentsAreRight, PathsSound
<1> QED
  BY <1>3, <1>4, <1>5, <1>6 DEF IInv

(* Where nothing is presented. *)
LEMMA NothingPresented ==
    ASSUME IInv, UNCHANGED <<trace, records>>, todo' \subseteq todo
    PROVE  /\ Presented' = Presented
           /\ TraceSound' /\ RecordsSound' /\ NumbersIdentify' /\ ParentsAreRight' /\ PathsSound'
<1>1. Presented' = Presented /\ UNCHANGED <<kindOf, above, marked, shift, records>>
  BY DEF Presented, trace
<1>2. TraceSound' /\ NumbersIdentify' /\ ParentsAreRight'
  BY <1>1 DEF IInv, TraceSound, NumbersIdentify, ParentsAreRight
<1>3. RecordsSound'
  BY <1>1 DEF IInv, RecordsSound, RecordSound
<1>4. PathsSound'
  <2>1. PathsSound /\ above' = above /\ Presented' = Presented
    BY <1>1 DEF IInv
  <2>2. ASSUME NEW z PROVE Ancestors(above, z)' = Ancestors(above, z)
    BY <2>1 DEF Ancestors, HasAbove
  <2>3. ASSUME NEW r, OnItsPath(r) PROVE OnItsPath(r)'
    BY <2>1, <2>2, <2>3 DEF OnItsPath
  <2> QED
    BY <2>1, <2>3 DEF PathsSound
<1> QED
  BY <1>1, <1>2, <1>3, <1>4

LEMMA NextKindInv == ASSUME IInv, NextKind PROVE IInv'
<1>1. PICK k \in todo :
         /\ kind' = k /\ todo' = todo \ {k} /\ vectors' = {v \in Vectors(k) : Roots(k, v) # {}}
  BY DEF NextKind
<1>2. stack' = <<>> /\ nextId' = 0 /\ UNCHANGED <<trace, records>>
  BY DEF NextKind
<1>3. /\ Presented' = Presented
      /\ TraceSound' /\ RecordsSound' /\ NumbersIdentify' /\ ParentsAreRight' /\ PathsSound'
  BY <1>1, <1>2, NothingPresented
<1>4. WalkSound'
  <2>1. k # NoKind
    BY <1>1 DEF IInv, WalkSound, NoKind, Kinds, Stored, ThreadKind, TraceWide, Nested, Scheduled
  <2> QED
    BY <1>1, <1>2, <2>1 DEF IInv, WalkSound
<1>5. NumbersBelow'
  <2>1. \A r \in Presented : r.kind # k
    BY <1>1 DEF IInv, RecordsSound, RecordSound
  <2> QED
    BY <1>1, <1>3, <2>1 DEF NumbersBelow
<1>6. StackSound'
  BY <1>2 DEF StackSound
<1> QED
  BY <1>3, <1>4, <1>5, <1>6 DEF IInv

LEMMA NextVectorInv == ASSUME IInv, NextVector PROVE IInv'
<1>1. PICK v \in vectors :
         /\ vector' = v /\ vectors' = vectors \ {v}
         /\ stack' = <<Activation(Roots(kind, v), 0, NoParent, <<>>)>>
  BY DEF NextVector
<1>2. /\ stack = <<>> /\ nextId' = (IF CountsOn(kind) THEN nextId ELSE 0)
      /\ UNCHANGED <<trace, todo, kind, records>>
  BY DEF NextVector
<1>3. /\ Presented' = Presented
      /\ TraceSound' /\ RecordsSound' /\ NumbersIdentify' /\ ParentsAreRight' /\ PathsSound'
  BY <1>2, NothingPresented
<1>4. v \in Vectors(kind) /\ kind \in Kinds
  BY <1>1 DEF IInv, WalkSound, Vectors, Kinds, NoKind
<1>10. PICK a : a = Activation(Roots(kind, v), 0, NoParent, <<>>)
  OBVIOUS
<1>5. /\ a \in Activations /\ a.items = Roots(kind, v)
      /\ a.depth = 0 /\ a.parent = NoParent /\ a.ancestors = <<>>
  BY <1>10 DEF Activation, Activations, Roots, NoParent
<1>6. stack' \in Seq(Activations) /\ DOMAIN stack' = {1} /\ stack'[1] = a
  BY <1>1, <1>5, <1>10
<1>7. WalkSound'
  <2>1. kind # NoKind
    BY <1>4 DEF NoKind, Kinds, Stored, ThreadKind, TraceWide, Nested, Scheduled
  <2> QED
    BY <1>1, <1>2, <1>4, <1>6, <2>1 DEF IInv, WalkSound
<1>8. NumbersBelow'
  <2> SUFFICES ASSUME NEW r \in Presented, r.kind = kind PROVE NumberedBelow(r)'
    BY <1>2, <1>3 DEF NumbersBelow
  <2>1. NumberedBelow(r)
    BY DEF IInv, NumbersBelow
  <2>2. CASE CountsOn(kind)
    BY <1>2, <2>1, <2>2 DEF NumberedBelow, CountsOn
  <2>3. CASE ~CountsOn(kind) /\ kind # "hardware-sample"
    <3>1. \A w \in vectors : w.place # 0 /\ r.source[2] # w.place
      BY <2>1, <2>3 DEF NumberedBelow
    <3> QED
      BY <1>1, <1>2, <2>3, <3>1 DEF NumberedBelow, CountsOn
  <2> QED
    BY <1>2, <2>2, <2>3 DEF NumberedBelow, CountsOn
<1>9. StackSound'
  <2>1. \A z \in a.items : kindOf[z] = Holding(kind) /\ above[z] < 0
    BY <1>4, <1>5, RootsAreTopmost DEF IInv
  <2>2. /\ \A z \in a.items : kindOf'[z] = Holding(kind)'
        /\ Topmost(a)'
    BY <1>2, <1>5, <2>1 DEF Topmost, trace, Holding
  <2> QED
    BY <1>6, <2>2 DEF StackSound, Topmost
<1> QED
  BY <1>3, <1>7, <1>8, <1>9 DEF IInv

LEMMA ReturnInv == ASSUME IInv, Return PROVE IInv'
<1>1. /\ stack # <<>> /\ stack' = Front(stack)
      /\ UNCHANGED <<trace, todo, kind, vectors, vector, nextId, records>>
  BY DEF Return, Leave
<1>2. /\ Presented' = Presented
      /\ TraceSound' /\ RecordsSound' /\ NumbersIdentify' /\ ParentsAreRight' /\ PathsSound'
  BY <1>1, NothingPresented
<1>3. /\ stack' \in Seq(Activations)
      /\ \A i \in DOMAIN stack' : i \in DOMAIN stack /\ stack'[i] = stack[i]
  BY <1>1, FrontIs DEF IInv, WalkSound
<1>4. WalkSound'
  BY <1>1, <1>3 DEF IInv, WalkSound
<1>5. NumbersBelow'
  BY <1>1, <1>2 DEF IInv, NumbersBelow, NumberedBelow, CountsOn
<1>6. StackSound'
  <2> SUFFICES ASSUME NEW i \in DOMAIN stack'
               PROVE  (/\ \A z \in stack[i].items : kindOf[z] = Holding(kind)
                       /\ Topmost(stack[i]) \/ \E s \in Presented : Under(stack[i], s))'
    BY DEF StackSound
  <2>1. PICK a : a = stack[i] /\ a = stack'[i]
    BY <1>3
  <2>2. /\ \A z \in a.items : kindOf[z] = Holding(kind)
        /\ Topmost(a) \/ \E s \in Presented : Under(a, s)
    BY <1>3, <2>1 DEF IInv, StackSound
  <2>3. UNCHANGED <<kindOf, above, kind, vector, nextId>>
    BY <1>1 DEF trace
  <2>4. \A s : Under(a, s) => Under(stack[i], s)'
    BY <2>1, <2>3 DEF Under
  <2>5. Topmost(a) => Topmost(stack[i])'
    BY <2>1, <2>3 DEF Topmost
  <2> QED
    BY <1>2, <2>1, <2>2, <2>3, <2>4, <2>5 DEF Holding
<1> QED
  BY <1>2, <1>4, <1>5, <1>6 DEF IInv

-----------------------------------------------------------------------------
(* A turn of a loop *)

Turn(z, top, new) ==
    /\ stack # <<>> /\ top = Last(stack) /\ z \in top.items
    /\ stack' = Descend(z, top)
    /\ UNCHANGED <<kindOf, above, marked, shift, todo, kind, vectors, vector>>
    /\ Presented' = Presented \cup new /\ records' \in Seq(Presented')
    /\ nextId' \in Nat /\ nextId < nextId'
    /\ \A r \in new : Turned(z, top, r) /\ r.id \in Nat /\ nextId <= r.id /\ r.id < nextId'
    /\ \A r, s \in new : r.id = s.id => r = s
    /\ kind \in Nested => Record(z, top) \in new
    /\ new = ToSet(Presents(z, top))

LEMMA VisitTurns ==
    ASSUME IInv, Visit
    PROVE  \E z \in Item, top \in Activations : \E new : Turn(z, top, new)
<1>1. PICK top : top = Last(stack)
  OBVIOUS
<1>2. PICK z \in top.items :
         /\ records' = records \o Presents(z, top)
         /\ nextId' = nextId + (IF kind = "memory" /\ z \in marked THEN 2 ELSE 1)
         /\ stack' = Descend(z, top)
  BY <1>1 DEF Visit
<1>3. stack # <<>> /\ UNCHANGED <<kindOf, above, marked, shift, todo, kind, vectors, vector>>
  BY DEF Visit, trace
<1>4. top \in Activations /\ z \in Item
  <2>1. top \in Activations
    BY <1>1, <1>3, FrontIs DEF IInv, WalkSound
  <2> QED
    BY <1>2, <2>1 DEF Activations
<1>5. nextId \in Nat
  BY DEF IInv, WalkSound
<1>11. PICK p : p = Presents(z, top)
  OBVIOUS
<1>6. PICK new : new = ToSet(p)
  OBVIOUS
<1>7. /\ p \in Seq(new)
      /\ \A r \in new : Turned(z, top, r)
      /\ \A r, s \in new : r.id = s.id => r = s
      /\ kind \in Nested => Record(z, top) \in new
  BY <1>5, <1>11, <1>6, PresentsTurned
<1>8. Presented' = Presented \cup new /\ records' \in Seq(Presented')
  <2>1. records \in Seq(Presented)
    BY DEF IInv, RecordsSound
  <2>2. records' = records \o p
    BY <1>2, <1>11
  <2>5. /\ records \o p \in Seq(Presented \cup new)
        /\ ToSet(records \o p) = ToSet(records) \cup ToSet(p)
    <3>1. p \in Seq(new)
      BY <1>7
    <3>2. ToSet(records \o p) = ToSet(records) \cup ToSet(p)
      <4>1. ASSUME NEW s \in Seq(Presented), NEW t \in Seq(new)
            PROVE  ToSet(s \o t) = ToSet(s) \cup ToSet(t)
        BY Joined
      <4>2. PICK s : s = records
        OBVIOUS
      <4>3. ToSet(s \o p) = ToSet(s) \cup ToSet(p)
        BY <2>1, <3>1, <4>1, <4>2
      <4> QED
        BY <4>2, <4>3
    <3>3. records \in Seq(Presented \cup new) /\ p \in Seq(Presented \cup new)
      BY <2>1, <3>1
    <3> QED
      BY <3>2, <3>3
  <2>3. /\ records' \in Seq(Presented \cup new)
        /\ ToSet(records') = ToSet(records) \cup ToSet(p)
    BY <2>2, <2>5
  <2>4. Presented' = Presented \cup new
    BY <1>6, <2>3 DEF Presented, ToSet
  <2> QED
    BY <2>3, <2>4
<1>9. nextId' \in Nat /\ nextId < nextId'
  BY <1>2, <1>5
<1>10. ASSUME NEW r \in new PROVE r.id \in Nat /\ nextId <= r.id /\ r.id < nextId'
  BY <1>2, <1>5, <1>7 DEF Turned
<1>12. new = ToSet(Presents(z, top))
  BY <1>11, <1>6
<1> QED
  BY <1>1, <1>2, <1>3, <1>4, <1>7, <1>8, <1>9, <1>10, <1>12 DEF Turn

LEMMA TurnHere ==
    ASSUME IInv, NEW z, NEW top, NEW new, Turn(z, top, new)
    PROVE  /\ kind \in Kinds /\ kind \notin todo
           /\ vector \in Vectors(kind) \ vectors /\ vectors \subseteq Vectors(kind)
           /\ kindOf[z] = Holding(kind)
           /\ Topmost(top) \/ \E s \in Presented : Under(top, s)
<1>1. PICK i \in DOMAIN stack : top = stack[i]
  <2>1. stack \in Seq(Activations) /\ stack # <<>> /\ top = Last(stack)
    BY DEF Turn, IInv, WalkSound
  <2> QED
    BY <2>1, FrontIs
<1>2. z \in top.items
  BY DEF Turn
<1> QED
  BY <1>1, <1>2 DEF Turn, IInv, WalkSound, StackSound

(* The records that have the source of the new ones have lower numbers. *)
LEMMA TurnNumbers ==
    ASSUME IInv, NEW z \in Item, NEW top \in Activations, NEW new, Turn(z, top, new)
    PROVE  NumbersIdentify' /\ NumbersBelow'
<1>1. /\ kind \in Kinds /\ kind \notin todo
      /\ vector \in Vectors(kind) \ vectors /\ vectors \subseteq Vectors(kind)
  BY TurnHere
<1>2. ASSUME NEW r \in new
      PROVE  /\ r.kind = kind /\ r.source = SourceOf(kind, vector, z)
             /\ r.id \in Nat /\ nextId <= r.id /\ r.id < nextId'
  BY DEF Turn, Turned
<1>3. ASSUME NEW s \in Presented, s.kind = kind, kind # "hardware-sample",
             CountsOn(kind) \/ s.source = SourceOf(kind, vector, z)
      PROVE  s.id < nextId
  <2>1. NumberedBelow(s)
    BY <1>3 DEF IInv, NumbersBelow
  <2>2. CASE CountsOn(kind)
    BY <2>1, <2>2 DEF NumberedBelow
  <2>3. CASE ~CountsOn(kind)
    <3>1. vector.place = 0 \/ s.source[2] = vector.place
      BY <1>1, <1>3, <2>3, VectorPlaces
    <3>2. stack # <<>>
      BY DEF Turn
    <3> QED
      BY <1>3, <2>1, <2>3, <3>1, <3>2 DEF NumberedBelow
  <2> QED
    BY <2>2, <2>3
<1>4. Presented' = Presented \cup new /\ nextId \in Nat /\ nextId' \in Nat /\ nextId < nextId'
  BY DEF Turn, IInv, WalkSound
<1>5. \A s \in Presented : s.id \in Nat
  BY DEF IInv, RecordsSound, RecordSound
<1>6. ASSUME NEW r \in new, NEW s \in Presented, r.kind = s.kind, r.kind # "hardware-sample",
             r.source = s.source \/ CountsOn(r.kind)
      PROVE  r.id # s.id
  <2>1. s.id < nextId
    BY <1>2, <1>3, <1>6
  <2>2. nextId <= r.id /\ r.id \in Nat
    BY <1>2
  <2> QED
    BY <1>4, <1>5, <2>1, <2>2
<1>7. NumbersIdentify'
  <2> SUFFICES ASSUME NEW r \in Presented', NEW s \in Presented', r.id = s.id, r.kind = s.kind,
                      r.kind # "hardware-sample", r.source = s.source \/ CountsOn(r.kind)
               PROVE  r = s
    BY DEF NumbersIdentify, CountsOn
  <2>1. CASE r \in Presented /\ s \in Presented
    BY <2>1 DEF IInv, NumbersIdentify
  <2>2. CASE r \in new /\ s \in new
    BY <2>2 DEF Turn
  <2>3. CASE r \in new /\ s \in Presented
    BY <1>6, <2>3
  <2>4. CASE r \in Presented /\ s \in new
    BY <1>6, <2>4
  <2> QED
    BY <1>4, <2>1, <2>2, <2>3, <2>4
<1>8. NumbersBelow'
  <2>0. UNCHANGED <<kind, vectors, vector>>
    BY DEF Turn
  <2> SUFFICES ASSUME NEW r \in Presented', r.kind = kind PROVE NumberedBelow(r)'
    BY <2>0 DEF NumbersBelow
  <2>1. CASE r \in Presented
    <3>1. NumberedBelow(r) /\ r.id \in Nat /\ stack # <<>>
      BY <1>5, <2>1 DEF IInv, NumbersBelow, Turn
    <3> QED
      BY <1>4, <2>0, <3>1 DEF NumberedBelow, CountsOn
  <2>2. CASE r \in new
    <3>1. r.source = SourceOf(kind, vector, z) /\ r.id < nextId'
      BY <1>2, <2>2
    <3>2. ASSUME kind # "hardware-sample", NEW v \in vectors
          PROVE  v.place # 0 /\ r.source[2] # v.place
      <4>1. v.place # 0 /\ vector.place # 0 /\ v.place # vector.place
        BY <1>1, <3>2, VectorsApart
      <4>2. r.source[2] = vector.place
        BY <1>1, <3>1, <3>2, <4>1, VectorPlaces
      <4> QED
        BY <4>1, <4>2
    <3> QED
      BY <2>0, <3>1, <3>2 DEF NumberedBelow, CountsOn
  <2> QED
    BY <1>4, <2>1, <2>2
<1> QED
  BY <1>7, <1>8

LEMMA NestedSource ==
    ASSUME NEW k \in Nested, NEW v, NEW z
    PROVE  SourceOf(k, v, z) = <<SourceType(k), v.place>>
  BY DEF SourceOf, Nested

LEMMA TurnParents ==
    ASSUME IInv, NEW z \in Item, NEW top \in Activations, NEW new, Turn(z, top, new)
    PROVE  ParentsAreRight'
<1>1. Presented' = Presented \cup new /\ UNCHANGED <<above, kindOf, kind, vector>> /\ z \in top.items
  BY DEF Turn
<1> DEFINE Outer(r) == r.parent = NoParent /\ above[r.item] < 0 /\ r.depth = 0 /\ r.ancestors = <<>>
           In(r, s) == /\ s.source = r.source /\ s.kind = r.kind
                       /\ s.id = r.parent /\ s.id < r.id
                       /\ s.item = above[r.item]
                       /\ r.depth = s.depth + 1
                       /\ r.ancestors = IF r.kind = "ghost-zone" THEN <<>>
                                        ELSE Append(s.ancestors, s.item)
<1>2. ASSUME NEW r \in Presented PROVE Outer(r) \/ \E s \in Presented : In(r, s)
  BY DEF IInv, ParentsAreRight
<1>3. ASSUME NEW r \in new PROVE Outer(r) \/ \E s \in Presented : In(r, s)
  <2>1. /\ r.kind = kind /\ r.source = SourceOf(kind, vector, z) /\ r.item = z
        /\ r.depth = top.depth /\ r.parent = top.parent /\ r.ancestors = top.ancestors
        /\ r.id \in Nat /\ nextId <= r.id
    BY DEF Turn, Turned
  <2>2. CASE Topmost(top)
    BY <1>1, <2>1, <2>2 DEF Topmost
  <2>3. ASSUME NEW s \in Presented, Under(top, s) PROVE In(r, s)
    <3>1. s.source = r.source /\ s.kind = r.kind
      BY <2>1, <2>3, NestedSource DEF Under
    <3>2. s.id < r.id
      <4>1. s.id \in Nat /\ nextId \in Nat /\ s.id < nextId
        BY <2>3 DEF IInv, RecordsSound, RecordSound, WalkSound, Under
      <4> QED
        BY <2>1, <4>1
    <3> QED
      BY <1>1, <2>1, <2>3, <3>1, <3>2 DEF Under
  <2> QED
    BY <2>2, <2>3, TurnHere
<1>4. \A r \in Presented' : Outer(r) \/ \E s \in Presented' : In(r, s)
  BY <1>1, <1>2, <1>3
<1> QED
  BY <1>1, <1>4 DEF ParentsAreRight

LEMMA TurnPaths ==
    ASSUME IInv, NEW z \in Item, NEW top \in Activations, NEW new, Turn(z, top, new)
    PROVE  PathsSound'
<1>1. Presented' = Presented \cup new /\ above' = above /\ z \in top.items
  BY DEF Turn
<1>2. TraceSound
  BY DEF IInv
<1>3. ASSUME NEW r \in new PROVE OnItsPath(r)
  <2> SUFFICES ASSUME r.kind \in Nested PROVE OnItsPath(r)
    BY DEF OnItsPath
  <2>1. r.kind = kind /\ r.item = z /\ r.depth = top.depth /\ r.ancestors = top.ancestors
    BY DEF Turn, Turned
  <2>2. CASE Topmost(top)
    <3>1. above[z] < 0 /\ Ancestors(above, z) = {}
      BY <1>1, <1>2, <2>2, NoneAbove DEF Topmost
    <3>2. r.depth = 0 /\ r.ancestors = <<>>
      BY <2>1, <2>2 DEF Topmost
    <3>3. Cardinality({}) = 0 /\ ToSet(<<>>) = {}
      BY FS_EmptySet DEF ToSet
    <3> QED
      BY <2>1, <3>1, <3>2, <3>3 DEF OnItsPath
  <2>3. ASSUME NEW s \in Presented, Under(top, s) PROVE OnItsPath(r)
    <3>1. /\ s.kind = kind /\ above[z] = s.item /\ r.depth = s.depth + 1
          /\ r.ancestors = IF kind = "ghost-zone" THEN <<>> ELSE Append(s.ancestors, s.item)
      BY <1>1, <2>1, <2>3 DEF Under
    <3>2. s.item \in Item /\ s.ancestors \in Seq(Item)
      BY DEF IInv, RecordsSound, RecordSound
    <3>3. s.item > 0 /\ ~(s.item < 0)
      <4>1. s.item \in Nat /\ s.item > 0
        BY <3>2, Items
      <4> QED
        BY <4>1
    <3>4. /\ Ancestors(above, z) = {s.item} \cup Ancestors(above, s.item)
          /\ Cardinality(Ancestors(above, z)) = Cardinality(Ancestors(above, s.item)) + 1
      BY <1>2, <3>1, <3>3, AncestorsUnfold, OneMoreAbove
    <3>5. /\ s.depth = Cardinality(Ancestors(above, s.item))
          /\ kind # "ghost-zone" => ToSet(s.ancestors) = Ancestors(above, s.item)
      BY <2>1, <3>1 DEF IInv, PathsSound, OnItsPath
    <3>6. ASSUME kind # "ghost-zone"
          PROVE  /\ ToSet(r.ancestors) = Ancestors(above, z)
                 /\ r.ancestors # <<>> /\ Last(r.ancestors) = above[z]
      <4>1. r.ancestors = Append(s.ancestors, s.item)
        BY <3>1, <3>6
      <4>2. ToSet(Append(s.ancestors, s.item)) = ToSet(s.ancestors) \cup {s.item}
        BY <3>2, AppendedRange
      <4>3. Append(s.ancestors, s.item) # <<>> /\ Last(Append(s.ancestors, s.item)) = s.item
        BY <3>2 DEF Last
      <4> QED
        BY <3>1, <3>4, <3>5, <3>6, <4>1, <4>2, <4>3
    <3> QED
      BY <2>1, <3>1, <3>3, <3>4, <3>5, <3>6 DEF OnItsPath
  <2> QED
    BY <2>2, <2>3, TurnHere
<1>4. \A r \in Presented' : OnItsPath(r)
  BY <1>1, <1>3 DEF IInv, PathsSound
<1>5. \A r : OnItsPath(r) => OnItsPath(r)'
  BY <1>1 DEF OnItsPath, Ancestors, HasAbove
<1> QED
  BY <1>4, <1>5 DEF PathsSound

(* The activations after a turn. *)
LEMMA TurnStack ==
    ASSUME IInv, NEW z \in Item, NEW top \in Activations, NEW new, Turn(z, top, new)
    PROVE  stack' \in Seq(Activations) /\ StackSound'
<1>1. /\ stack # <<>> /\ top = Last(stack) /\ z \in top.items /\ stack' = Descend(z, top)
      /\ UNCHANGED <<kindOf, above, kind, vector>> /\ Presented' = Presented \cup new
  BY DEF Turn
<1>2. nextId \in Nat /\ nextId' \in Nat /\ nextId < nextId'
  BY DEF Turn, IInv, WalkSound
<1>3. \A s \in Presented : s.id \in Nat
  BY DEF IInv, RecordsSound, RecordSound
<1>4. /\ Topmost(top) \/ \E s \in Presented : Under(top, s)
      /\ kindOf[z] = Holding(kind) /\ kind \in Kinds
  BY TurnHere
<1>5. \A y \in top.items : kindOf[y] = Holding(kind)
  BY <1>1, FrontIs DEF IInv, WalkSound, StackSound
<1> DEFINE Sound(a) == /\ \A y \in a.items : kindOf[y] = Holding(kind)
                       /\ Topmost(a) \/ \E s \in Presented : Under(a, s)
<1>6. PICK rest, inner, f :
         /\ rest = [top EXCEPT !.items = @ \ {z}] /\ inner = Inside(z, top, nextId)
         /\ f = Front(stack)
  OBVIOUS
<1>7. /\ rest \in Activations /\ rest.items = top.items \ {z} /\ rest.depth = top.depth
      /\ rest.parent = top.parent /\ rest.ancestors = top.ancestors
  BY <1>6 DEF Activations
<1>8. Sound(rest)
  <2>1. Topmost(top) => Topmost(rest)
    BY <1>7 DEF Topmost
  <2>2. \A s : Under(top, s) => Under(rest, s)
    BY <1>7 DEF Under
  <2> QED
    BY <1>4, <1>5, <1>7, <2>1, <2>2
<1>9. /\ inner \in Activations /\ inner.items = Children(z) /\ inner.depth = top.depth + 1
      /\ inner.parent = nextId
      /\ inner.ancestors = IF kind = "ghost-zone" THEN <<>> ELSE Append(top.ancestors, z)
  <2>1. top.ancestors \in Seq(Item) /\ top.depth \in Nat
    BY DEF Activations
  <2>2. Append(top.ancestors, z) \in Seq(Item)
    BY <2>1
  <2>3. Children(z) \in SUBSET Item
    BY DEF Children
  <2>4. nextId \in Int
    BY <1>2
  <2> QED
    BY <1>6, <2>1, <2>2, <2>3, <2>4 DEF Inside, Activation, Activations, AncestorsBelow
<1>10. f \in Seq(Activations) /\ \A i \in DOMAIN f : Sound(f[i])
  <2>1. f \in Seq(Activations) /\ \A i \in DOMAIN f : i \in DOMAIN stack /\ f[i] = stack[i]
    BY <1>1, <1>6, FrontIs DEF IInv, WalkSound
  <2> QED
    BY <2>1 DEF IInv, StackSound
(* What was sound is sound when there are more records. *)
<1>11. ASSUME NEW a, Sound(a)
       PROVE  /\ \A y \in a.items : kindOf'[y] = Holding(kind)'
              /\ Topmost(a)' \/ \E s \in Presented' : Under(a, s)'
  <2>1. Topmost(a) => Topmost(a)'
    BY <1>1 DEF Topmost
  <2>2. \A s \in Presented : Under(a, s) => Under(a, s)'
    BY <1>1, <1>2, <1>3 DEF Under
  <2> QED
    BY <1>1, <1>11, <2>1, <2>2 DEF Holding
<1>12. ASSUME Children(z) # {}
       PROVE  /\ \A y \in inner.items : kindOf'[y] = Holding(kind)'
              /\ \E s \in Presented' : Under(inner, s)'
  <2>1. \A y \in Children(z) : y \in Item /\ above[y] = z /\ kindOf[y] = Holding(kind)
    <3>1. z > 0
      BY Items
    <3> QED
      BY <1>4, <3>1 DEF Children, IInv, TraceSound
  <2>2. kind \in Nested
    <3>1. Holding(kind) \in Nested
      <4>1. z > 0
        BY Items
      <4>2. PICK y \in Item : above[y] = z
        BY <1>12 DEF Children
      <4> QED
        BY <1>4, <2>1, <4>1, <4>2 DEF Children, IInv, TraceSound
    <3> QED
      BY <3>1 DEF Holding, Nested
  <2>3. Record(z, top) \in new
    BY <2>2 DEF Turn
  <2>4. PICK s \in new : s = Record(z, top)
    BY <2>3
  <2>5. /\ s.kind = kind /\ s.source = <<SourceType(kind), vector.place>> /\ s.id = nextId
        /\ s.item = z /\ s.depth = top.depth /\ s.ancestors = top.ancestors
    BY <2>2, <2>4, NestedSource DEF Record
  <2>6. Under(inner, s)'
    BY <1>1, <1>2, <1>9, <2>1, <2>2, <2>5 DEF Under
  <2> QED
    BY <1>1, <1>9, <2>1, <2>6 DEF Holding
<1> DEFINE g == Append(f, rest)
<1>13. /\ g \in Seq(Activations)
       /\ \A i \in DOMAIN g : (i \in DOMAIN f /\ g[i] = f[i]) \/ g[i] = rest
  BY <1>7, <1>10, Appended
<1>14. \A i \in DOMAIN g : Sound(g[i])
  BY <1>8, <1>10, <1>13
<1>15. stack' = IF Children(z) = {} THEN g ELSE Append(g, inner)
  BY <1>1, <1>6 DEF Descend
<1> HIDE DEF g
<1>16. stack' \in Seq(Activations)
  BY <1>9, <1>13, <1>15
<1>17. ASSUME NEW i \in DOMAIN stack'
       PROVE  \/ Sound(stack'[i])
              \/ Children(z) # {} /\ stack'[i] = inner
  <2>1. CASE Children(z) = {}
    BY <1>14, <1>15, <2>1
  <2>2. CASE Children(z) # {}
    <3>1. \/ i \in DOMAIN g /\ stack'[i] = g[i]
          \/ stack'[i] = inner
      BY <1>13, <1>15, <2>2, Appended
    <3> QED
      BY <1>14, <2>2, <3>1
  <2> QED
    BY <2>1, <2>2
<1> HIDE DEF Sound
<1>18. StackSound'
  <2> SUFFICES ASSUME NEW i \in DOMAIN stack'
               PROVE  (/\ \A y \in stack[i].items : kindOf[y] = Holding(kind)
                       /\ Topmost(stack[i]) \/ \E s \in Presented : Under(stack[i], s))'
    BY DEF StackSound
  <2>1. PICK a : a = stack'[i]
    OBVIOUS
  <2>2. /\ \A y \in a.items : kindOf'[y] = Holding(kind)'
        /\ Topmost(a)' \/ \E s \in Presented' : Under(a, s)'
    BY <1>11, <1>12, <1>17, <2>1
  <2> QED
    BY <2>1, <2>2 DEF Topmost, Under
<1> QED
  BY <1>16, <1>18

LEMMA VisitInv == ASSUME IInv, Visit PROVE IInv'
<1>10. PICK z \in Item, top \in Activations : \E new : Turn(z, top, new)
  BY VisitTurns
<1>1. PICK new : Turn(z, top, new)
  BY <1>10
<1>2. NumbersIdentify' /\ NumbersBelow'
  BY <1>1, TurnNumbers
<1>3. ParentsAreRight' /\ PathsSound'
  BY <1>1, TurnParents, TurnPaths
<1>4. stack' \in Seq(Activations) /\ StackSound'
  BY <1>1, TurnStack
<1>5. /\ UNCHANGED <<kindOf, above, marked, shift, todo, kind, vectors, vector>>
      /\ nextId' \in Nat /\ Presented' = Presented \cup new /\ records' \in Seq(Presented')
  BY <1>1 DEF Turn
<1>6. /\ kind \in Kinds /\ kind \notin todo /\ kindOf[z] = Holding(kind)
      /\ vector \in Vectors(kind) \ vectors /\ kind # NoKind
  <2>1. kind # NoKind
    BY <1>1 DEF Turn, IInv, WalkSound
  <2> QED
    BY <1>1, <2>1, TurnHere
<1>7. TraceSound'
  BY <1>5 DEF IInv, TraceSound
<1>8. WalkSound'
  BY <1>4, <1>5, <1>6 DEF IInv, WalkSound
<1>9. RecordsSound'
  <2>1. ASSUME NEW r \in new PROVE RecordSound(r)
    <3>1. /\ r.kind = kind /\ r.source = SourceOf(kind, vector, z) /\ r.item = z
          /\ r.depth = top.depth /\ r.ancestors = top.ancestors /\ r.id \in Nat
      BY <1>1 DEF Turn, Turned
    <3>2. top.depth \in Nat /\ top.ancestors \in Seq(Item)
      BY DEF Activations
    <3>3. SourceOf(kind, vector, z) = <<SourceType(kind), SourceOf(kind, vector, z)[2]>>
      BY DEF SourceOf
    <3> QED
      BY <1>6, <3>1, <3>2, <3>3 DEF RecordSound
  <2>2. \A r \in Presented' : RecordSound(r)
    BY <1>5, <2>1 DEF IInv, RecordsSound
  <2>3. \A r : RecordSound(r) => RecordSound(r)'
    BY <1>5 DEF RecordSound
  <2> QED
    BY <1>5, <2>2, <2>3 DEF RecordsSound
<1> QED
  BY <1>2, <1>3, <1>4, <1>7, <1>8, <1>9 DEF IInv

-----------------------------------------------------------------------------
(* The invariant holds *)

LEMMA NextInv == ASSUME IInv, [Next]_vars PROVE IInv'
<1>1. CASE NextKind
  BY <1>1, NextKindInv
<1>2. CASE NextVector
  BY <1>2, NextVectorInv
<1>3. CASE Visit
  BY <1>3, VisitInv
<1>4. CASE Return
  BY <1>4, ReturnInv
<1>5. CASE UNCHANGED vars
  <2>1. /\ UNCHANGED <<trace, records>> /\ todo' \subseteq todo
        /\ UNCHANGED <<todo, kind, vectors, vector, stack, nextId, kindOf, above>>
    BY <1>5 DEF vars, trace
  <2>2. /\ Presented' = Presented
        /\ TraceSound' /\ RecordsSound' /\ NumbersIdentify' /\ ParentsAreRight' /\ PathsSound'
    BY <2>1, NothingPresented
  <2>3. WalkSound'
    BY <2>1 DEF IInv, WalkSound
  <2>4. NumbersBelow'
    BY <2>1, <2>2 DEF IInv, NumbersBelow, NumberedBelow, CountsOn
  <2>5. StackSound'
    BY <2>1, <2>2 DEF IInv, StackSound, Topmost, Under, Holding
  <2> QED
    BY <2>2, <2>3, <2>4, <2>5 DEF IInv
<1> QED
  BY <1>1, <1>2, <1>3, <1>4, <1>5 DEF Next

LEMMA Invariance == Spec => []IInv
<1>1. Init => IInv
  BY InitInv
<1>2. IInv /\ [Next]_vars => IInv'
  BY NextInv
<1> QED
  BY <1>1, <1>2, PTL DEF Spec

(* The identity that point queries take for a record is one: no two        *)
(* records of a source and a kind have the same number, and no two CPU or  *)
(* GPU zones of a trace, in any trace whatever its items, kinds and        *)
(* places.                                                                 *)
THEOREM RecordsAreIdentified == Spec => []NumbersIdentify
<1>1. IInv => NumbersIdentify
  BY DEF IInv
<1> QED
  BY <1>1, Invariance, PTL

(* The parent a zone names is the record of the zone it is in, which was   *)
(* presented before it, one level up and with its ancestors: however deep  *)
(* the zones lie, the count handed down by reference never names another.  *)
THEOREM ParentsAreNamed == Spec => []ParentsAreRight
<1>1. IInv => ParentsAreRight
  BY DEF IInv
<1> QED
  BY <1>1, Invariance, PTL

-----------------------------------------------------------------------------
(* What the structure options select *)

LEMMA RootsHaveNoDepth ==
    ASSUME TraceSound, NEW z \in Item
    PROVE  Cardinality(Ancestors(above, z)) = 0 <=> above[z] < 0
<1>1. CASE above[z] < 0
  BY <1>1, NoneAbove, FS_EmptySet
<1>2. CASE above[z] > 0 /\ above[z] \in Item
  <2>1. Cardinality(Ancestors(above, z)) = Cardinality(Ancestors(above, above[z])) + 1
    BY <1>2, OneMoreAbove
  <2>2. Cardinality(Ancestors(above, above[z])) \in Nat
    <3>1. Ancestors(above, above[z]) \subseteq Item
      BY DEF Ancestors
    <3>2. IsFiniteSet(Ancestors(above, above[z]))
      BY <3>1, Items, FS_Subset
    <3> QED
      BY <3>2, FS_CardinalityType
  <2>3. ~(above[z] < 0)
    BY <1>2, AboveOrOut
  <2> QED
    BY <2>1, <2>2, <2>3
<1> QED
  BY <1>1, <1>2, AboveOrOut

(* Options of structure leave all else open. *)
LEMMA NoScopeMatches ==
    ASSUME NEW r, NEW o,
           /\ o.sourceIds = {} /\ o.sourceRegexes = {} /\ o.sourceTypes = {} /\ o.threads = {}
           /\ o.gpuContexts = {} /\ o.plots = {} /\ o.frameSets = {} /\ o.locks = {}
           /\ o.memoryPools = {} /\ o.cpus = {} /\ o.filters = {}
    PROVE  Matches(o, r) <=> MatchesStructure(o, r)
<1>1. MatchesScope(o, r)
  BY DEF MatchesScope, IsOneOf, MatchesAny, MatchesEither
<1> QED
  BY <1>1 DEF Matches

LEMMA StructureTold ==
    ASSUME TraceSound, NEW r, NEW o,
           r.item \in Item, r.kind \in Nested, OnItsPath(r),
           r.kind = "ghost-zone" => o.zoneParent = {} /\ o.zoneAncestor = {},
           \A p \in o.zoneParent : Nothing \notin p
    PROVE  MatchesStructure(o, r) <=> IsSelected(o, r)
<1> DEFINE over == Ancestors(above, r.item)
<1>1. r.depth = Cardinality(over)
  BY DEF OnItsPath
<1>2. r.depth = 0 <=> above[r.item] < 0
  BY <1>1, RootsHaveNoDepth
<1>3. CASE r.kind = "ghost-zone"
  BY <1>1, <1>2, <1>3 DEF MatchesStructure, IsSelected
<1>4. CASE r.kind # "ghost-zone"
  <2>1. /\ ToSet(r.ancestors) = over
        /\ r.ancestors = <<>> <=> above[r.item] < 0
        /\ r.ancestors # <<>> => Last(r.ancestors) = above[r.item]
    BY <1>4 DEF OnItsPath
  <2>2. Field(r, "parent_name") = IF r.ancestors # <<>> THEN ZoneName(Last(r.ancestors)) ELSE Nothing
    BY DEF Field
  <2>3. above[r.item] < 0 <=> ~(above[r.item] > 0)
    BY AboveOrOut
  <2>4. \A p \in o.zoneParent :
           Field(r, "parent_name") \in p <=> above[r.item] > 0 /\ ZoneName(above[r.item]) \in p
    BY <2>1, <2>2, <2>3
  <2>5. \A p \in o.zoneAncestor :
           (\E z \in ToSet(r.ancestors) : ZoneName(z) \in p) <=> (\E z \in over : ZoneName(z) \in p)
    BY <2>1
  <2> HIDE DEF over
  <2>6. MatchesStructure(o, r) <=>
           /\ o.rootZones => above[r.item] < 0
           /\ o.zoneDepth # {} => Cardinality(over) \in o.zoneDepth
           /\ \A p \in o.zoneParent : above[r.item] > 0 /\ ZoneName(above[r.item]) \in p
           /\ \A p \in o.zoneAncestor : \E z \in over : ZoneName(z) \in p
    BY <1>1, <1>2, <2>4, <2>5 DEF MatchesStructure
  <2> QED
    BY <2>6 DEF IsSelected, over
<1> QED
  BY <1>3, <1>4

(* --root-zones, --zone-depth, --zone-parent and --zone-ancestor select    *)
(* exactly the zones that lie so in the trace, told without the visitors,  *)
(* whatever the trace and the names that match.                            *)
THEOREM StructureIsSelected == Spec => []StructureSelects
<1>1. ASSUME IInv PROVE StructureSelects
  <2> SUFFICES ASSUME NEW r \in Presented, NEW o \in OptionSets,
                      r.kind \in Nested,
                      o = [Scopes(NoOptions) EXCEPT
                             !.rootZones = o.rootZones, !.zoneDepth = o.zoneDepth,
                             !.zoneParent = o.zoneParent, !.zoneAncestor = o.zoneAncestor],
                      r.kind = "ghost-zone" => o.zoneParent = {} /\ o.zoneAncestor = {},
                      \A p \in o.zoneParent : Nothing \notin p
               PROVE  Matches(o, r) <=> IsSelected(o, r)
    BY DEF StructureSelects
  <2>1. /\ o.sourceIds = {} /\ o.sourceRegexes = {} /\ o.sourceTypes = {} /\ o.threads = {}
        /\ o.gpuContexts = {} /\ o.plots = {} /\ o.frameSets = {} /\ o.locks = {}
        /\ o.memoryPools = {} /\ o.cpus = {} /\ o.filters = {}
    <3> DEFINE s == Scopes(NoOptions)
    <3>1. /\ s.sourceIds = {} /\ s.sourceRegexes = {} /\ s.sourceTypes = {} /\ s.threads = {}
          /\ s.gpuContexts = {} /\ s.plots = {} /\ s.frameSets = {} /\ s.locks = {}
          /\ s.memoryPools = {} /\ s.cpus = {} /\ s.filters = {}
          /\ DOMAIN s = {"kinds", "sourceIds", "sourceRegexes", "sourceTypes", "threads", "gpuContexts",
                         "plots", "frameSets", "locks", "memoryPools", "cpus", "rootZones", "zoneDepth",
                         "zoneParent", "zoneAncestor", "filters"}
      BY DEF Scopes, NoOptions
    <3>2. o = [s EXCEPT !.rootZones = o.rootZones, !.zoneDepth = o.zoneDepth,
                        !.zoneParent = o.zoneParent, !.zoneAncestor = o.zoneAncestor]
      OBVIOUS
    <3> HIDE DEF s
    <3> QED
      BY <3>1, <3>2
  <2>2. TraceSound /\ r.item \in Item /\ OnItsPath(r)
    BY <1>1 DEF IInv, RecordsSound, RecordSound, PathsSound
  <2>3. Matches(o, r) <=> MatchesStructure(o, r)
    BY <2>1, NoScopeMatches
  <2> QED
    BY <2>2, <2>3, StructureTold
<1> QED
  BY <1>1, Invariance, PTL

-----------------------------------------------------------------------------
(* What selects a source and its records *)

(* The kinds a type of source has. *)
LEMMA KindsByType ==
    ASSUME NEW k \in Kinds
    PROVE  LET type == SourceType(k) IN
           /\ type = "thread" <=> k \in ThreadKind
           /\ type = "gpu-thread" <=> k = "gpu-zone"
           /\ type = "plot" <=> k = "plot"
           /\ type = "frame-set" <=> k \in {"frame", "frame-image"}
           /\ type = "lock" <=> k = "lock"
           /\ type = "memory-pool" <=> k = "memory"
           /\ type = "cpu" <=> k = "cpu-slice"
           /\ type = "capture" <=> k \in {"cpu-usage", "crash"}
  BY DEF SourceType, Kinds, Stored, ThreadKind, TraceWide, Nested, Scheduled

(* A record and the source it comes from. *)
Comes(r, s) ==
    /\ r.kind \in Kinds /\ r.source = <<SourceType(r.kind), r.source[2]>>
    /\ s.id = r.source /\ r.kind \in KindsOfSource(s)

LEMMA SameThreads ==
    ASSUME NEW r, NEW s, Comes(r, s), NEW P, \A p \in P : SameThread(r, p)
    PROVE  MatchesEither(Field(r, "thread"), Field(r, "thread_name"), P)
           <=> /\ IsOfType(s, {"thread", "gpu-thread"}, P)
               /\ MatchesEither(Id(s.id), NameOfSource(s), P)
<1>1. s.id = r.source /\ r.kind \in Kinds /\ s.id[1] = SourceType(r.kind)
  BY DEF Comes
<1>2. CASE r.kind \in ThreadKind
  <2>1. s.id[1] = "thread"
    BY <1>1, <1>2, KindsByType
  <2>2. HasThread(r) /\ ThreadOf(r) = r.source[2]
    BY <1>2 DEF HasThread, ThreadOf, PlaceOfSource
  <2>3. Field(r, "thread") = Number(ThreadOf(r)) /\ Field(r, "thread_name") = ThreadName(ThreadOf(r))
    BY <2>2 DEF Field
  <2>4. NameOfSource(s) = NameOf(s.id) /\ ThreadName(ThreadOf(r)) = NameOf(s.id)
    BY <1>1, <2>1, <2>2 DEF NameOfSource, ThreadName, NameOf
  <2>5. \A p \in P : Number(ThreadOf(r)) \in p <=> Id(s.id) \in p
    BY <1>1, <1>2 DEF SameThread
  <2> QED
    BY <2>1, <2>3, <2>4, <2>5 DEF IsOfType, MatchesEither, MatchesAny
<1>3. CASE r.kind \notin ThreadKind
  <2>1. CASE P = {}
    BY <2>1 DEF IsOfType, MatchesEither, MatchesAny
  <2>2. CASE P # {}
    <3>1. ~HasThread(r) /\ \A p \in P : Nothing \notin p
      BY <1>3, <2>2 DEF SameThread
    <3>2. Field(r, "thread") = Nothing /\ Field(r, "thread_name") = Nothing
      BY <3>1 DEF Field
    <3>3. s.id[1] \notin {"thread", "gpu-thread"}
      BY <1>1, <1>3, <3>1, KindsByType DEF HasThread
    <3> QED
      BY <2>2, <3>1, <3>2, <3>3 DEF IsOfType, MatchesEither, MatchesAny
  <2> QED
    BY <2>1, <2>2
<1> QED
  BY <1>2, <1>3

LEMMA SameContexts ==
    ASSUME NEW r, NEW s, Comes(r, s), NEW P, \A p \in P : SameContext(r, p)
    PROVE  MatchesEither(Field(r, "context"), Field(r, "context_name"), P)
           <=> /\ IsOfType(s, {"gpu-thread"}, P)
               /\ MatchesEither(Id(s.id), NameOfSource(s), P)
<1>1. s.id = r.source /\ r.kind \in Kinds /\ s.id[1] = SourceType(r.kind)
  BY DEF Comes
<1> DEFINE c == ContextOf(PlaceOfSource(r))
<1> HIDE DEF c
<1>2. CASE r.kind = "gpu-zone"
  <2>1. s.id[1] = "gpu-thread"
    BY <1>1, <1>2, KindsByType
  <2>2. Field(r, "context") = Number(c) /\ Field(r, "context_name") = ContextName(c)
    BY <1>2 DEF Field, c
  <2>3. NameOfSource(s) = NameOf(s.id)
    BY <2>1 DEF NameOfSource
  <2>4. \A p \in P : Number(c) \in p \/ ContextName(c) \in p <=> Id(s.id) \in p \/ NameOf(s.id) \in p
    BY <1>1, <1>2 DEF SameContext, c
  <2> QED
    BY <2>1, <2>2, <2>3, <2>4 DEF IsOfType, MatchesEither, MatchesAny
<1>3. CASE r.kind # "gpu-zone"
  <2>1. \A p \in P : Nothing \notin p
    BY <1>3 DEF SameContext
  <2>2. Field(r, "context") = Nothing /\ Field(r, "context_name") = Nothing
    BY <1>3 DEF Field
  <2>3. s.id[1] # "gpu-thread"
    BY <1>1, <1>3, KindsByType
  <2> QED
    BY <2>1, <2>2, <2>3 DEF IsOfType, MatchesEither, MatchesAny
<1> QED
  BY <1>2, <1>3

LEMMA SameNames ==
    ASSUME NEW r, NEW s, Comes(r, s), NEW o,
           \A p \in o.frameSets : r.kind \in {"frame", "frame-image"} \/ Nothing \notin p
    PROVE  LET name == NameOfSource(s) IN
           /\ (o.plots # {} => r.kind = "plot" /\ MatchesAny(Field(r, "name"), o.plots))
              <=> IsOfType(s, {"plot"}, o.plots) /\ MatchesAny(name, o.plots)
           /\ MatchesAny(Field(r, "frame_set"), o.frameSets)
              <=> IsOfType(s, {"frame-set"}, o.frameSets) /\ MatchesAny(name, o.frameSets)
           /\ (o.locks # {} =>
                 r.kind = "lock" /\ MatchesEither(Id(r.source), Field(r, "name"), o.locks))
              <=> IsOfType(s, {"lock"}, o.locks) /\ MatchesEither(Id(s.id), name, o.locks)
           /\ (o.memoryPools # {} =>
                 r.kind = "memory" /\ MatchesEither(Id(r.source), Field(r, "pool"), o.memoryPools))
              <=> /\ IsOfType(s, {"memory-pool"}, o.memoryPools)
                  /\ MatchesEither(Id(s.id), name, o.memoryPools)
<1> DEFINE name == NameOfSource(s)
<1>1. s.id = r.source /\ r.kind \in Kinds /\ s.id[1] = SourceType(r.kind)
  BY DEF Comes
<1>2. /\ s.id[1] = "plot" <=> r.kind = "plot"
      /\ s.id[1] = "frame-set" <=> r.kind \in {"frame", "frame-image"}
      /\ s.id[1] = "lock" <=> r.kind = "lock"
      /\ s.id[1] = "memory-pool" <=> r.kind = "memory"
  BY <1>1, KindsByType
<1>3. s.id[1] \in {"plot", "frame-set", "lock", "memory-pool"} => name = NameOf(s.id)
  BY DEF NameOfSource
<1>4. /\ r.kind = "plot" => Field(r, "name") = NameOf(r.source)
      /\ r.kind = "lock" => Field(r, "name") = NameOf(r.source)
      /\ r.kind = "memory" => Field(r, "pool") = NameOf(r.source)
      /\ Field(r, "frame_set") =
            IF r.kind \in {"frame", "frame-image"} THEN NameOf(r.source) ELSE Nothing
  BY DEF Field
<1> HIDE DEF name
<1>5. (o.plots # {} => r.kind = "plot" /\ MatchesAny(Field(r, "name"), o.plots))
      <=> IsOfType(s, {"plot"}, o.plots) /\ MatchesAny(name, o.plots)
  BY <1>1, <1>2, <1>3, <1>4 DEF IsOfType, MatchesAny
<1>6. MatchesAny(Field(r, "frame_set"), o.frameSets)
      <=> IsOfType(s, {"frame-set"}, o.frameSets) /\ MatchesAny(name, o.frameSets)
  BY <1>1, <1>2, <1>3, <1>4 DEF IsOfType, MatchesAny
<1>7. (o.locks # {} => r.kind = "lock" /\ MatchesEither(Id(r.source), Field(r, "name"), o.locks))
      <=> IsOfType(s, {"lock"}, o.locks) /\ MatchesEither(Id(s.id), name, o.locks)
  BY <1>1, <1>2, <1>3, <1>4 DEF IsOfType, MatchesAny, MatchesEither
<1>8. (o.memoryPools # {} =>
         r.kind = "memory" /\ MatchesEither(Id(r.source), Field(r, "pool"), o.memoryPools))
      <=> IsOfType(s, {"memory-pool"}, o.memoryPools) /\ MatchesEither(Id(s.id), name, o.memoryPools)
  BY <1>1, <1>2, <1>3, <1>4 DEF IsOfType, MatchesAny, MatchesEither
<1> QED
  BY <1>5, <1>6, <1>7, <1>8 DEF name

LEMMA SameCpus ==
    ASSUME NEW r, NEW s, Comes(r, s), NEW C, C # {} => r.kind # "context-switch"
    PROVE  IsOneOf(Field(r, "cpu"), {Number(n) : n \in C})
           <=> IsOneOf(s.id, {<<"cpu", n>> : n \in C})
<1>1. s.id = <<SourceType(r.kind), r.source[2]>> /\ r.kind \in Kinds
  BY DEF Comes
<1>2. CASE C = {}
  <2>1. {Number(n) : n \in C} = {} /\ {<<"cpu", n>> : n \in C} = {}
    BY <1>2
  <2> QED
    BY <2>1 DEF IsOneOf
<1>3. CASE C # {}
  <2>1. {Number(n) : n \in C} # {} /\ {<<"cpu", n>> : n \in C} # {}
    BY <1>3
  <2>2. CASE r.kind = "cpu-slice"
    <3>1. Field(r, "cpu") = Number(r.source[2])
      BY <2>2 DEF Field, PlaceOfSource
    <3>2. s.id = <<"cpu", r.source[2]>>
      BY <1>1, <2>2, KindsByType
    <3>3. Field(r, "cpu") \in {Number(n) : n \in C} <=> r.source[2] \in C
      <4>1. \A m, n : Number(m) = Number(n) => m = n
        BY DEF Number
      <4> QED
        BY <3>1, <4>1
    <3>4. s.id \in {<<"cpu", n>> : n \in C} <=> r.source[2] \in C
      BY <3>2
    <3> QED
      BY <2>1, <3>3, <3>4 DEF IsOneOf
  <2>3. CASE r.kind # "cpu-slice"
    <3>1. Field(r, "cpu") = Nothing
      BY <1>3, <2>3 DEF Field
    <3>2. Nothing \notin {Number(n) : n \in C}
      BY DEF Nothing, Number
    <3>3. SourceType(r.kind) # "cpu"
      BY <1>1, <2>3, KindsByType
    <3>4. s.id \notin {<<"cpu", n>> : n \in C}
      BY <1>1, <3>3
    <3> QED
      BY <2>1, <3>1, <3>2, <3>4 DEF IsOneOf
  <2> QED
    BY <2>2, <2>3
<1> QED
  BY <1>2, <1>3

LEMMA SameFilters ==
    ASSUME NEW r, NEW s, Comes(r, s), NEW F,
           \A f \in F : f.field = "source" /\
              (f.kind \in {NoKind, r.kind} \/ f.kind \notin KindsOfSource(s))
    PROVE  (\A f \in F : InScope(f, {r.kind}) => Field(r, f.field) \in f.pattern)
           <=> \A f \in F :
                  InScope(f, KindsOfSource(s)) /\ f.field \in {"name", "source", "source_type"} =>
                  SourceField(s, f.field) \in f.pattern
<1>1. s.id = r.source /\ r.kind \in KindsOfSource(s)
  BY DEF Comes
<1>2. ASSUME NEW f \in F
      PROVE  /\ InScope(f, {r.kind}) <=> InScope(f, KindsOfSource(s))
             /\ Field(r, f.field) = SourceField(s, f.field)
             /\ f.field \in {"name", "source", "source_type"}
  <2>1. InScope(f, {r.kind}) <=> InScope(f, KindsOfSource(s))
    BY <1>1 DEF InScope
  <2>2. Field(r, "source") = Id(r.source) /\ SourceField(s, "source") = Id(s.id)
    BY DEF Field, SourceField
  <2> QED
    BY <1>1, <2>1, <2>2
<1> QED
  BY <1>2

(* Where the two commands hand the same texts to an expression, a query    *)
(* selects a record if, and only if, `sources' selects the source it comes *)
(* from: for every combination of the selectors and any expressions.       *)
THEOREM CommandsAgree == Spec => []SelectorsAgree
<1>1. ASSUME IInv PROVE SelectorsAgree
  <2> SUFFICES ASSUME NEW s \in DiscoverSources, NEW r \in RecordsOf(s), NEW o \in OptionSets,
                      NEW scope, scope = [Scopes(o) EXCEPT !.kinds = {r.kind}],
                      Alike(o, r, s)
               PROVE  Matches(scope, r) <=> SourceSelected(scope, s)
    BY DEF SelectorsAgree
  <2>1. Comes(r, s)
    <3>1. r \in Presented /\ r.source = s.id /\ r.kind \in KindsOfSource(s)
      BY DEF RecordsOf
    <3>2. RecordSound(r)
      BY <1>1, <3>1 DEF IInv, RecordsSound
    <3> QED
      BY <3>1, <3>2 DEF Comes, RecordSound
  <2>2. DOMAIN o = DOMAIN NoOptions
    BY OptionsAssumption
  <2>3. /\ scope.kinds = {r.kind} /\ scope.sourceIds = o.sourceIds
        /\ scope.sourceRegexes = o.sourceRegexes /\ scope.sourceTypes = o.sourceTypes
        /\ scope.threads = o.threads /\ scope.gpuContexts = o.gpuContexts
        /\ scope.plots = o.plots /\ scope.frameSets = o.frameSets /\ scope.locks = o.locks
        /\ scope.memoryPools = o.memoryPools /\ scope.cpus = o.cpus /\ scope.filters = o.filters
        /\ scope.rootZones = FALSE /\ scope.zoneDepth = {} /\ scope.zoneParent = {}
        /\ scope.zoneAncestor = {}
    BY <2>2 DEF Scopes, NoOptions
  <2>4. MatchesStructure(scope, r)
    BY <2>3 DEF MatchesStructure
  <2>5. scope.kinds = {} \/ KindsOfSource(s) \cap scope.kinds # {}
    BY <2>1, <2>3 DEF Comes
  <2>6. s.id = r.source /\ s.id[1] = SourceType(r.kind)
    BY <2>1 DEF Comes
  <2>7. MatchesEither(Field(r, "thread"), Field(r, "thread_name"), o.threads)
        <=> /\ IsOfType(s, {"thread", "gpu-thread"}, o.threads)
            /\ MatchesEither(Id(s.id), NameOfSource(s), o.threads)
    BY <2>1, SameThreads DEF Alike
  <2>8. MatchesEither(Field(r, "context"), Field(r, "context_name"), o.gpuContexts)
        <=> /\ IsOfType(s, {"gpu-thread"}, o.gpuContexts)
            /\ MatchesEither(Id(s.id), NameOfSource(s), o.gpuContexts)
    BY <2>1, SameContexts DEF Alike
  <2>9. /\ (o.plots # {} => r.kind = "plot" /\ MatchesAny(Field(r, "name"), o.plots))
           <=> IsOfType(s, {"plot"}, o.plots) /\ MatchesAny(NameOfSource(s), o.plots)
        /\ MatchesAny(Field(r, "frame_set"), o.frameSets)
           <=> IsOfType(s, {"frame-set"}, o.frameSets) /\ MatchesAny(NameOfSource(s), o.frameSets)
        /\ (o.locks # {} =>
              r.kind = "lock" /\ MatchesEither(Id(r.source), Field(r, "name"), o.locks))
           <=> IsOfType(s, {"lock"}, o.locks) /\ MatchesEither(Id(s.id), NameOfSource(s), o.locks)
        /\ (o.memoryPools # {} =>
              r.kind = "memory" /\ MatchesEither(Id(r.source), Field(r, "pool"), o.memoryPools))
           <=> /\ IsOfType(s, {"memory-pool"}, o.memoryPools)
               /\ MatchesEither(Id(s.id), NameOfSource(s), o.memoryPools)
    BY <2>1, SameNames DEF Alike
  <2>10. IsOneOf(Field(r, "cpu"), {Number(n) : n \in o.cpus})
         <=> IsOneOf(s.id, {<<"cpu", n>> : n \in o.cpus})
    BY <2>1, SameCpus DEF Alike
  <2>11. (\A f \in o.filters : InScope(f, {r.kind}) => Field(r, f.field) \in f.pattern)
         <=> \A f \in o.filters :
                InScope(f, KindsOfSource(s)) /\ f.field \in {"name", "source", "source_type"} =>
                SourceField(s, f.field) \in f.pattern
    BY <2>1, SameFilters DEF Alike
  <2>12. Matches(scope, r) <=>
            /\ IsOneOf(s.id, o.sourceIds)
            /\ MatchesAny(Id(s.id), o.sourceRegexes)
            /\ IsOneOf(s.id[1], o.sourceTypes)
            /\ MatchesEither(Field(r, "thread"), Field(r, "thread_name"), o.threads)
            /\ MatchesEither(Field(r, "context"), Field(r, "context_name"), o.gpuContexts)
            /\ (o.plots # {} => r.kind = "plot" /\ MatchesAny(Field(r, "name"), o.plots))
            /\ MatchesAny(Field(r, "frame_set"), o.frameSets)
            /\ (o.locks # {} =>
                  r.kind = "lock" /\ MatchesEither(Id(r.source), Field(r, "name"), o.locks))
            /\ (o.memoryPools # {} =>
                  r.kind = "memory" /\ MatchesEither(Id(r.source), Field(r, "pool"), o.memoryPools))
            /\ IsOneOf(Field(r, "cpu"), {Number(n) : n \in o.cpus})
            /\ \A f \in o.filters : InScope(f, {r.kind}) => Field(r, f.field) \in f.pattern
    BY <2>3, <2>4, <2>6 DEF Matches, MatchesScope
  <2> QED
    BY <2>3, <2>5, <2>7, <2>8, <2>9, <2>10, <2>11, <2>12 DEF SourceSelected
<1> QED
  BY <1>1, Invariance, PTL

-----------------------------------------------------------------------------
(* The invariant of the walk *)

(* What is taken over from the choice of a trace. *)
TraceShaped ==
    /\ \A z \in Item : kindOf[z] = "crash" => z = 1
    /\ shift \in Nat /\ \A z \in Item : kindOf[z] # "gpu-zone" => shift = 0
    /\ \A z \in Item : kindOf[z] = "cpu-zone" /\ above[z] > 0 =>
          \A y \in above[z] + 1 .. z - 1 :
             kindOf[y] = "cpu-zone" /\ PlaceOf(y) = PlaceOf(z) => above[z] \in Ancestors(above, y)

(* An item and what it is in. *)
Path(z) == Ancestors(above, z) \cup {z}

(* What a loop has still to take, and what a vector without a loop holds.  *)
At(i, x)   == i \in DOMAIN stack /\ x \in stack[i].items
Due(v, x)  == v \in vectors /\ x \in Roots(kind, v)
Waiting(x) == (\E i \in DOMAIN stack : At(i, x)) \/ (\E v \in vectors : Due(v, x))

(* No item waits twice, and of an item and what it is in one at most.      *)
WaitsOnce ==
    \A x \in Item :
       /\ \A i, j \in DOMAIN stack : At(i, x) /\ At(j, x) => i = j
       /\ \A i \in DOMAIN stack, v \in vectors : ~(At(i, x) /\ Due(v, x))
       /\ \A y \in Item : Waiting(x) /\ Waiting(y) /\ x \in Path(y) => x = y

(* What is presented does not wait any more, nor does what it is in. *)
NotAgain == \A r \in Presented : r.kind = kind => \A x \in Path(r.item) : ~Waiting(x)
OneRecord ==
    \A r, s \in Presented : r.kind = s.kind /\ r.item = s.item /\ r.release = s.release => r = s

(* What a kind presents of an item. *)
Shown(k, z, release) == \E r \in Presented : r.kind = k /\ r.item = z /\ r.release = release
IsShown(k, z) ==
    /\ Shown(k, z, FALSE) \/ (k = "frame-image" /\ z \notin marked)
    /\ k = "memory" /\ z \in marked => Shown(k, z, TRUE)
NoneLeft ==
    \A z \in Item, k \in Kinds :
       kindOf[z] = Holding(k) =>
          \/ k \in todo
          \/ k = kind /\ \E x \in Path(z) : Waiting(x)
          \/ IsShown(k, z)

(* What a loop takes lies at the place of the vector. *)
LiesAt(x, v) ==
    /\ v.place # 0 => PlaceOf(x) = v.place
    /\ v.part # 0 => (x \in marked) = (v.part = 2)
TakenHere == \A i \in DOMAIN stack : \A x \in stack[i].items : LiesAt(x, vector)

(* The source and the times of a record are those of its item. *)
PlaceNumber(k, z) ==
    CASE k \in {"cpu-usage", "crash"} -> 0
      [] k = "hardware-sample" -> IF z \in marked THEN 2 ELSE 1
      [] OTHER -> PlaceOf(z)
EndFor(k, z) == IF k \in Interval /\ ~IsOpen(z) THEN EndOf(z) ELSE StartOf(z)
Tells(r) ==
    /\ r.source = <<SourceType(r.kind), PlaceNumber(r.kind, r.item)>>
    /\ r.kind = "frame-image" => r.item \in marked
    /\ r.release \in BOOLEAN
    /\ ~r.release => r.start = StartOf(r.item) /\ r.end = EndFor(r.kind, r.item)
    /\ r.release =>
          /\ r.kind = "memory" /\ r.item \in marked
          /\ r.start = FreeOf(r.item) /\ r.end = FreeOf(r.item)
RecordsTell == \A r \in Presented : Tells(r)

WInv ==
    /\ TraceShaped
    /\ WaitsOnce
    /\ NotAgain
    /\ OneRecord
    /\ NoneLeft
    /\ TakenHere
    /\ RecordsTell

-----------------------------------------------------------------------------
(* Paths *)

LEMMA PathHas ==
    ASSUME TraceSound, NEW z \in Item
    PROVE  /\ z \in Path(z) /\ Path(z) \subseteq Item
           /\ \A x \in Path(z) : x <= z
           /\ \A x \in Path(z) : above[x] > 0 => above[x] \in Path(z)
<1>1. z \in Path(z) /\ Path(z) \subseteq Item
  BY DEF Path, Ancestors
<1>2. ASSUME NEW x \in Path(z) PROVE x <= z
  <2>1. x = z \/ x < z
    BY <1>2, AncestorsBefore DEF Path
  <2>2. x \in Nat /\ z \in Nat
    BY <1>1, Items
  <2> QED
    BY <2>1, <2>2
<1>3. ASSUME NEW x \in Path(z), above[x] > 0 PROVE above[x] \in Path(z)
  <2>1. CASE x = z
    <3>1. Ancestors(above, z) = {above[z]} \cup Ancestors(above, above[z])
      BY <1>3, <2>1, AncestorsUnfold
    <3> QED
      BY <2>1, <3>1 DEF Path
  <2>2. CASE x \in Ancestors(above, z)
    BY <1>3, <2>2, AboveAncestor DEF HasAbove, Path
  <2> QED
    BY <2>1, <2>2 DEF Path
<1> QED
  BY <1>1, <1>2, <1>3

LEMMA PathOfRoot ==
    ASSUME TraceSound, NEW z \in Item, above[z] < 0
    PROVE  Path(z) = {z} /\ PlaceOf(z) = -above[z]
<1>1. Ancestors(above, z) = {}
  BY NoneAbove
<1>2. {x \in Ancestors(above, z) \cup {z} : above[x] < 0} = {z}
  BY <1>1
<1> QED
  BY <1>1, <1>2 DEF Path, PlaceOf, PlaceIn

LEMMA PathOfChild ==
    ASSUME TraceSound, NEW z \in Item, above[z] > 0
    PROVE  /\ Path(z) = {z} \cup Path(above[z])
           /\ PlaceOf(z) = PlaceOf(above[z])
           /\ above[z] \in Item /\ kindOf[above[z]] = kindOf[z] /\ kindOf[z] \in Nested
<1>1. above[z] \in Item /\ ~(above[z] < 0)
  BY AboveOrOut
<1>2. Path(z) = {z} \cup Path(above[z])
  BY AncestorsUnfold DEF Path
<1>3. PlaceOf(z) = PlaceOf(above[z])
  <2> DEFINE a == above[z]
             S == {x \in Path(z) : above[x] < 0}
             T == {x \in Path(a) : above[x] < 0}
  <2>1. S = T
    BY <1>1, <1>2
  <2>2. PlaceOf(z) = -above[CHOOSE x \in S : TRUE] /\ PlaceOf(a) = -above[CHOOSE x \in T : TRUE]
    BY DEF PlaceOf, PlaceIn, Path
  <2> HIDE DEF S, T
  <2> QED
    BY <2>1, <2>2
<1> QED
  BY <1>1, <1>2, <1>3 DEF TraceSound

LEMMA Smallest ==
    ASSUME NEW S \in SUBSET Nat, S # {}
    PROVE  \E x \in S : \A y \in S : x <= y
<1> DEFINE R == OpToRel(<, Nat)
<1>1. IsWellFoundedOn(R, Nat)
  BY NatLessThanWellFounded
<1>2. \A x, y \in Nat : y < x => <<y, x>> \in R
  BY DEF OpToRel
<1> HIDE DEF R
<1>3. PICK x \in S : \A y \in S : ~(<<y, x>> \in R)
  BY <1>1, WFMin
<1>4. ASSUME NEW y \in S PROVE x <= y
  <2>1. x \in Nat /\ y \in Nat /\ ~(<<y, x>> \in R)
    BY <1>3
  <2> QED
    BY <1>2, <2>1
<1> QED
  BY <1>3, <1>4

(* A set that has the items without a zone above them, and each item whose *)
(* zone it has, has them all.                                              *)
LEMMA Downward ==
    ASSUME TraceSound, NEW S,
           \A z \in Item : above[z] < 0 => z \in S,
           \A z \in Item : above[z] > 0 /\ above[z] \in S => z \in S
    PROVE  Item \subseteq S
<1> SUFFICES ASSUME Item \ S # {} PROVE FALSE
  OBVIOUS
<1>1. Item \ S \in SUBSET Nat
  BY Items
<1>2. PICK z \in Item \ S : \A y \in Item \ S : z <= y
  BY <1>1, Smallest
<1>3. above[z] > 0 /\ above[z] \in Item
  BY AboveOrOut
<1>4. above[z] < z /\ above[z] \in Nat /\ z \in Nat
  BY <1>2, <1>3, Items DEF TraceSound
<1>5. above[z] \in S
  BY <1>2, <1>3, <1>4
<1> QED
  BY <1>3, <1>5

(* The items along a path are of one kind and lie at one place, and the    *)
(* first of them is in no other.                                           *)
LEMMA PathTop ==
    ASSUME TraceSound, NEW z \in Item
    PROVE  \E x \in Path(z) : above[x] < 0 /\ kindOf[x] = kindOf[z] /\ PlaceOf(z) = -above[x]
<1> DEFINE S == {y \in Item : \E x \in Path(y) : 
                    above[x] < 0 /\ kindOf[x] = kindOf[y] /\ PlaceOf(y) = -above[x]}
<1>1. ASSUME NEW y \in Item, above[y] < 0 PROVE y \in S
  BY <1>1, PathOfRoot
<1>2. ASSUME NEW y \in Item, above[y] > 0, above[y] \in S PROVE y \in S
  <2>1. PICK x \in Path(above[y]) :
           above[x] < 0 /\ kindOf[x] = kindOf[above[y]] /\ PlaceOf(above[y]) = -above[x]
    BY <1>2
  <2> QED
    BY <1>2, <2>1, PathOfChild
<1> HIDE DEF S
<1>3. Item \subseteq S
  BY <1>1, <1>2, Downward
<1> QED
  BY <1>3 DEF S

LEMMA PlaceThere ==
    ASSUME TraceSound, NEW z \in Item
    PROVE  PlaceOf(z) \in 1 .. Places
<1>1. PICK x \in Path(z) : above[x] < 0 /\ PlaceOf(z) = -above[x]
  BY PathTop
<1>2. x \in Item
  BY <1>1, PathHas
<1>3. above[x] \in (-Places .. -1) \cup Item
  BY <1>2 DEF TraceSound
<1>4. above[x] \notin Item
  <2> SUFFICES ASSUME above[x] \in Item PROVE FALSE
    OBVIOUS
  <2>1. above[x] \in Nat
    BY Items
  <2> QED
    BY <1>1, <2>1
<1>5. above[x] \in -Places .. -1
  BY <1>3, <1>4
<1> QED
  BY <1>1, <1>5, Items

(* Between an item and one above it on its path lies a child of the other. *)
LEMMA ChildOnPath ==
    ASSUME TraceSound, NEW z \in Item, NEW x \in Path(z), x # z
    PROVE  \E y \in Path(z) : above[y] = x /\ above[y] > 0
<1> DEFINE S == {w \in Ancestors(above, z) : \E y \in Path(z) : above[y] = w /\ above[y] > 0}
<1>1. S \in SUBSET Item
  BY DEF Ancestors
<1>2. HasAbove(above, z, S)
  <2> SUFFICES ASSUME above[z] > 0 PROVE above[z] \in S
    BY DEF HasAbove
  <2>1. above[z] \in Ancestors(above, z)
    BY AncestorsUnfold
  <2> QED
    BY <2>1 DEF Path
<1>3. ASSUME NEW y \in S PROVE HasAbove(above, y, S)
  <2> SUFFICES ASSUME above[y] > 0 PROVE above[y] \in S
    BY DEF HasAbove
  <2>1. above[y] \in Ancestors(above, z)
    BY AboveAncestor DEF HasAbove
  <2> QED
    BY <2>1 DEF Path
<1>4. x \in Ancestors(above, z)
  BY DEF Path
<1> HIDE DEF S
<1>5. x \in S
  BY <1>1, <1>2, <1>3, <1>4 DEF Ancestors
<1> QED
  BY <1>5 DEF S

(* What is on the path of an item on a path is on that path. *)
LEMMA PathOfPath ==
    ASSUME TraceSound, NEW z \in Item, NEW x \in Path(z)
    PROVE  Path(x) \subseteq Path(z)
<1>1. x \in Item
  BY PathHas
<1>2. HasAbove(above, x, Path(z)) /\ \A y \in Path(z) : HasAbove(above, y, Path(z))
  BY PathHas DEF HasAbove
<1>3. Path(z) \in SUBSET Item
  BY PathHas
<1>4. Ancestors(above, x) \subseteq Path(z)
  BY <1>2, <1>3 DEF Ancestors
<1> QED
  BY <1>4 DEF Path

-----------------------------------------------------------------------------
(* The steps keep the invariant of the walk *)

LEMMA TraceShapedAtFirst == Init => TraceShaped
<1> SUFFICES ASSUME Init PROVE TraceShaped
  OBVIOUS
<1>1. PICK k \in Stored, other \in ThreadKind \cup {NoKind}, S \in SUBSET Item :
         Together(k, other, S) /\ kindOf = [z \in Item |-> IF z \in S THEN other ELSE k]
  BY DEF Init
<1>2. ASSUME NEW z \in Item, kindOf[z] = "crash" PROVE z = 1
  <2>1. k = "crash" /\ S = 2 .. N /\ z \notin S
    BY <1>1, <1>2 DEF Together, ThreadKind, NoKind
  <2> QED
    BY <2>1, Items DEF Item
<1>3. shift \in Nat
  <2>1. shift \in 0 .. N - 1 \/ shift = 0
    BY DEF Init
  <2> QED
    BY <2>1, Items
<1>4. ASSUME NEW z \in Item, kindOf[z] # "gpu-zone" PROVE shift = 0
  <2>1. 1 \in Item
    BY Items DEF Item
  <2>2. kindOf[1] # "gpu-zone"
    BY <1>1, <1>4, <2>1 DEF Together, ThreadKind, NoKind
  <2> QED
    BY <2>2 DEF Init
<1>5. ASSUME NEW z \in Item, kindOf[z] = "cpu-zone", above[z] > 0,
             NEW y \in above[z] + 1 .. z - 1, kindOf[y] = "cpu-zone", PlaceOf(y) = PlaceOf(z)
      PROVE  above[z] \in Ancestors(above, y)
  <2>1. IsPlaced(above, z)
    BY DEF Init
  <2> QED
    BY <1>5, <2>1 DEF IsPlaced, PlaceOf
<1> QED
  BY <1>2, <1>3, <1>4, <1>5 DEF TraceShaped

LEMMA InitWalk == Init => WInv
<1> SUFFICES ASSUME Init PROVE WInv
  OBVIOUS
<1>1. records = <<>> /\ stack = <<>> /\ vectors = {} /\ kind = NoKind
  BY DEF Init
<1>2. Presented = {} /\ DOMAIN stack = {}
  BY <1>1 DEF Presented
<1>3. WaitsOnce /\ TakenHere
  BY <1>1, <1>2 DEF WaitsOnce, Waiting, TakenHere
<1>4. NotAgain /\ OneRecord /\ RecordsTell
  BY <1>2 DEF NotAgain, OneRecord, RecordsTell
<1>5. ASSUME NEW z \in Item, NEW k \in Kinds, kindOf[z] = Holding(k) PROVE k \in todo
  <2>1. kindOf[z] # NoKind
    BY <1>5 DEF Holding, NoKind, Kinds, Stored, ThreadKind, TraceWide, Nested, Scheduled
  <2>2. kindOf[z] \in {kindOf[y] : y \in {x \in Item : kindOf[x] # NoKind}}
    BY <2>1
  <2>3. CASE k # "frame-image"
    BY <1>5, <2>2, <2>3 DEF Init, Holding
  <2>4. CASE k = "frame-image"
    <3>1. kindOf[z] = "frame" /\ 1 \in Item
      BY <1>5, <2>4, Items DEF Holding, Item
    <3>2. PICK j \in Stored, other \in ThreadKind \cup {NoKind}, S \in SUBSET Item :
             Together(j, other, S) /\ kindOf = [y \in Item |-> IF y \in S THEN other ELSE j]
      BY DEF Init
    <3>3. kindOf[1] = "frame"
      BY <3>1, <3>2 DEF Together, ThreadKind, NoKind
    <3> QED
      BY <2>4, <3>3 DEF Init
  <2> QED
    BY <2>3, <2>4
<1>6. NoneLeft
  BY <1>5 DEF NoneLeft
<1> QED
  BY <1>3, <1>4, <1>6, TraceShapedAtFirst DEF WInv

(* What is said of the trace alone. *)
LEMMA Kept ==
    ASSUME UNCHANGED <<kindOf, above, marked, shift>>
    PROVE  /\ TraceShaped => TraceShaped'
           /\ \A z : Path(z)' = Path(z) /\ PlaceOf(z)' = PlaceOf(z)
           /\ \A k, v : Roots(k, v)' = Roots(k, v)
           /\ \A x, v : LiesAt(x, v)' <=> LiesAt(x, v)
           /\ \A r : Tells(r)' <=> Tells(r)
<1>1. \A z : Ancestors(above, z)' = Ancestors(above, z)
  BY DEF Ancestors, HasAbove
<1>2. \A z : Path(z)' = Path(z)
  BY <1>1 DEF Path
<1>3. \A z : PlaceOf(z)' = PlaceOf(z)
  BY <1>1 DEF PlaceOf, PlaceIn
<1>4. TraceShaped => TraceShaped'
  BY <1>1, <1>3 DEF TraceShaped
<1>5. \A k, v : Roots(k, v)' = Roots(k, v)
  BY DEF Roots, Holds, Holding
<1>6. \A x, v : LiesAt(x, v)' <=> LiesAt(x, v)
  BY <1>3 DEF LiesAt
<1>7. \A z : StartOf(z)' = StartOf(z) /\ FreeOf(z)' = FreeOf(z) /\ (IsOpen(z)' <=> IsOpen(z))
  BY DEF StartOf, FreeOf, IsOpen, Order
<1>8. \A z : EndOf(z)' = EndOf(z)
  <2>1. \A z : Below(z)' = Below(z)
    BY <1>1 DEF Below
  <2>2. \A z : Order(z)' = Order(z)
    BY DEF Order
  <2> QED
    BY <2>1, <2>2 DEF EndOf
<1>9. \A r : PlaceNumber(r.kind, r.item)' = PlaceNumber(r.kind, r.item)
  BY <1>3 DEF PlaceNumber
<1>10. \A r : EndFor(r.kind, r.item)' = EndFor(r.kind, r.item)
  BY <1>7, <1>8 DEF EndFor
<1>11. \A r : Tells(r)' <=> Tells(r)
  BY <1>7, <1>9, <1>10 DEF Tells
<1> QED
  BY <1>2, <1>3, <1>4, <1>5, <1>6, <1>11

LEMMA RootSomewhere ==
    ASSUME NEW k \in Kinds, NEW x \in Item, TraceSound, above[x] < 0, kindOf[x] = Holding(k)
    PROVE  \E v \in Vectors(k) : x \in Roots(k, v)
<1>1. -above[x] \in 1 .. Places /\ above[x] \in Int
  <2>1. PlaceOf(x) = -above[x]
    BY PathOfRoot
  <2> QED
    BY <2>1, PlaceThere, AboveOrOut
<1>2. CASE k \in TraceWide
  <2>1. [place |-> 0, part |-> 0] \in Vectors(k)
    BY <1>2 DEF Vectors, TraceWide
  <2>2. Holds(k, [place |-> 0, part |-> 0], x)
    BY DEF Holds
  <2> QED
    BY <2>1, <2>2 DEF Roots
<1>3. CASE k = "hardware-sample"
  <2> DEFINE v == [place |-> -above[x], part |-> IF x \in marked THEN 2 ELSE 1]
  <2>1. v \in Vectors(k)
    BY <1>1, <1>3 DEF Vectors, TraceWide
  <2>2. -(-above[x]) = above[x]
    BY <1>1
  <2>3. Holds(k, v, x)
    BY <2>2 DEF Holds
  <2> QED
    BY <2>1, <2>3 DEF Roots
<1>4. CASE k \notin TraceWide /\ k # "hardware-sample"
  <2> DEFINE v == [place |-> -above[x], part |-> 0]
  <2>1. v \in Vectors(k)
    BY <1>1, <1>4 DEF Vectors
  <2>2. -(-above[x]) = above[x]
    BY <1>1
  <2>3. Holds(k, v, x)
    BY <2>2 DEF Holds
  <2> QED
    BY <2>1, <2>3 DEF Roots
<1> QED
  BY <1>2, <1>3, <1>4

LEMMA RootsApart ==
    ASSUME NEW k, NEW v \in Vectors(k), NEW w \in Vectors(k), NEW x \in Item, TraceSound,
           x \in Roots(k, v), x \in Roots(k, w)
    PROVE  v = w
<1>1. Holds(k, v, x) /\ Holds(k, w, x)
  BY DEF Roots
<1>2. CASE k \in TraceWide
  <2>1. v \in [place : {0}, part : {0}] /\ w \in [place : {0}, part : {0}]
    BY <1>2 DEF Vectors, TraceWide
  <2> QED
    BY <2>1
<1>3. CASE k = "hardware-sample"
  <2>1. v \in [place : 1 .. Places, part : {1, 2}] /\ w \in [place : 1 .. Places, part : {1, 2}]
    BY <1>3 DEF Vectors, TraceWide
  <2>2. -v.place = -w.place /\ (v.part = 2 <=> w.part = 2)
    BY <1>1, <2>1, Items DEF Holds
  <2>3. v.place = w.place /\ v.part = w.part
    BY <2>1, <2>2, Items
  <2> QED
    BY <2>1, <2>3
<1>4. CASE k \notin TraceWide /\ k # "hardware-sample"
  <2>1. v \in [place : 1 .. Places, part : {0}] /\ w \in [place : 1 .. Places, part : {0}]
    BY <1>4 DEF Vectors
  <2>2. -v.place = -w.place
    BY <1>1, <2>1, Items DEF Holds
  <2>3. v.place = w.place /\ v.part = w.part
    BY <2>1, <2>2, Items
  <2> QED
    BY <2>1, <2>3
<1> QED
  BY <1>2, <1>3, <1>4

(* Where nothing is presented. *)
LEMMA NoneShown ==
    ASSUME WInv, UNCHANGED <<trace, records>>
    PROVE  /\ Presented' = Presented /\ UNCHANGED <<kindOf, above, marked, shift>>
           /\ TraceShaped' /\ OneRecord' /\ RecordsTell'
           /\ \A k, z : IsShown(k, z) => IsShown(k, z)'
<1>1. Presented' = Presented /\ UNCHANGED <<kindOf, above, marked, shift>>
  BY DEF Presented, trace
<1>2. TraceShaped' /\ \A r : Tells(r)' <=> Tells(r)
  BY <1>1, Kept DEF WInv
<1>3. OneRecord' /\ RecordsTell'
  BY <1>1, <1>2 DEF WInv, OneRecord, RecordsTell
<1>4. \A k, z : IsShown(k, z) => IsShown(k, z)'
  BY <1>1 DEF IsShown, Shown
<1> QED
  BY <1>1, <1>2, <1>3, <1>4

LEMMA NextKindWalk == ASSUME IInv, WInv, NextKind PROVE WInv'
<1>1. PICK k \in todo :
         /\ kind' = k /\ todo' = todo \ {k} /\ vectors' = {v \in Vectors(k) : Roots(k, v) # {}}
  BY DEF NextKind
<1>2. stack = <<>> /\ vectors = {} /\ stack' = <<>> /\ UNCHANGED <<trace, records>>
  BY DEF NextKind
<1>3. /\ Presented' = Presented /\ UNCHANGED <<kindOf, above, marked, shift>>
      /\ TraceShaped' /\ OneRecord' /\ RecordsTell'
      /\ \A j, z : IsShown(j, z) => IsShown(j, z)'
  BY <1>2, NoneShown
<1>4. /\ \A z : Path(z)' = Path(z)
      /\ \A j, v : Roots(j, v)' = Roots(j, v)
  BY <1>3, Kept
<1>5. TraceSound /\ k \in Kinds
  BY <1>1 DEF IInv, WalkSound
<1>6. \A v, x : Due(v, x)' <=> v \in Vectors(k) /\ x \in Roots(k, v)
  BY <1>1, <1>4 DEF Due
<1>7. DOMAIN stack' = {} /\ DOMAIN stack = {}
  BY <1>2
<1>8. \A x : Waiting(x)' <=> \E v \in Vectors(k) : x \in Roots(k, v)
  BY <1>1, <1>6, <1>7 DEF Waiting
<1>9. WaitsOnce'
  <2>1. ASSUME NEW x \in Item, NEW y \in Item, Waiting(x)', Waiting(y)', x \in Path(y)
        PROVE  x = y
    <3>1. above[y] < 0
      BY <1>5, <1>8, <2>1, RootsAreTopmost
    <3> QED
      BY <1>5, <2>1, <3>1, PathOfRoot
  <2> QED
    BY <1>4, <1>7, <2>1 DEF WaitsOnce
<1>10. NotAgain'
  <2>1. \A r \in Presented : r.kind # k
    BY <1>1 DEF IInv, RecordsSound, RecordSound
  <2> QED
    BY <1>1, <1>3, <2>1 DEF NotAgain
<1>11. NoneLeft'
  <2> SUFFICES ASSUME NEW z \in Item, NEW j \in Kinds, kindOf[z] = Holding(j), j \notin todo \ {k}
               PROVE  (j = k /\ \E x \in Path(z) : Waiting(x)') \/ IsShown(j, z)'
    BY <1>1, <1>3, <1>4 DEF NoneLeft, Holding
  <2>1. CASE j = k
    <3>1. PICK x \in Path(z) : above[x] < 0 /\ kindOf[x] = kindOf[z]
      BY <1>5, PathTop
    <3>2. x \in Item
      BY <1>5, PathHas
    <3> QED
      BY <1>5, <1>8, <2>1, <3>1, <3>2, RootSomewhere
  <2>2. CASE j # k
    <3>1. ~\E x \in Path(z) : Waiting(x)
      BY <1>2, <1>7 DEF Waiting
    <3> QED
      BY <1>3, <2>2, <3>1 DEF WInv, NoneLeft
  <2> QED
    BY <2>1, <2>2
<1>12. TakenHere'
  BY <1>7 DEF TakenHere
<1> QED
  BY <1>3, <1>9, <1>10, <1>11, <1>12 DEF WInv

LEMMA NextVectorWalk == ASSUME IInv, WInv, NextVector PROVE WInv'
<1>1. PICK v \in vectors :
         /\ vector' = v /\ vectors' = vectors \ {v}
         /\ stack' = <<Activation(Roots(kind, v), 0, NoParent, <<>>)>>
  BY DEF NextVector
<1>2. stack = <<>> /\ UNCHANGED <<trace, todo, kind, records>>
  BY DEF NextVector
<1>3. /\ Presented' = Presented /\ UNCHANGED <<kindOf, above, marked, shift>>
      /\ TraceShaped' /\ OneRecord' /\ RecordsTell'
      /\ \A j, z : IsShown(j, z) => IsShown(j, z)'
  BY <1>2, NoneShown
<1>4. /\ \A z : Path(z)' = Path(z)
      /\ \A j, w : Roots(j, w)' = Roots(j, w)
      /\ \A x, w : LiesAt(x, w)' <=> LiesAt(x, w)
  BY <1>3, Kept
<1>5. TraceSound /\ vectors \subseteq Vectors(kind) /\ kind \in Kinds
  BY <1>1 DEF IInv, WalkSound
<1>6. DOMAIN stack' = {1} /\ stack'[1].items = Roots(kind, v) /\ DOMAIN stack = {}
  BY <1>1, <1>2 DEF Activation
<1>7. \A i, x : At(i, x)' <=> i = 1 /\ x \in Roots(kind, v)
  BY <1>6 DEF At
<1>8. \A w, x : Due(w, x)' <=> Due(w, x) /\ w # v
  BY <1>1, <1>2, <1>4 DEF Due
<1>9. \A x : Waiting(x)' <=> Waiting(x)
  <2>1. \A x : Waiting(x) <=> \E w \in vectors : Due(w, x)
    BY <1>6 DEF Waiting
  <2>2. \A x : Waiting(x)' <=> (x \in Roots(kind, v) \/ \E w \in vectors \ {v} : Due(w, x))
    BY <1>1, <1>6, <1>7, <1>8 DEF Waiting
  <2> QED
    BY <2>1, <2>2 DEF Due
<1>10. WaitsOnce'
  <2>1. ASSUME NEW x \in Item, NEW w \in vectors \ {v}, x \in Roots(kind, v)
        PROVE  x \notin Roots(kind, w)
    BY <1>5, <2>1, RootsApart
  <2>2. ASSUME NEW x \in Item
        PROVE  /\ \A i, j \in DOMAIN stack' : At(i, x)' /\ At(j, x)' => i = j
               /\ \A i \in DOMAIN stack', w \in vectors' : ~(At(i, x)' /\ Due(w, x)')
    BY <1>1, <1>7, <1>8, <2>1 DEF Due
  <2>3. \A x, y \in Item : Waiting(x)' /\ Waiting(y)' /\ x \in Path(y)' => x = y
    BY <1>4, <1>9 DEF WInv, WaitsOnce
  <2> QED
    BY <2>2, <2>3 DEF WaitsOnce
<1>11. NotAgain'
  BY <1>2, <1>3, <1>4, <1>9 DEF WInv, NotAgain
<1>12. NoneLeft'
  BY <1>2, <1>3, <1>4, <1>9 DEF WInv, NoneLeft, Holding
<1>13. TakenHere'
  <2>1. ASSUME NEW x \in Roots(kind, v) PROVE LiesAt(x, v)
    <3>1. x \in Item /\ Holds(kind, v, x)
      BY DEF Roots
    <3>2. above[x] < 0 /\ above[x] \in Int
      BY <1>5, <3>1, RootsAreTopmost, AboveOrOut
    <3>3. PlaceOf(x) = -above[x]
      BY <1>5, <3>1, <3>2, PathOfRoot
    <3>4. v.place \in Nat
      BY <1>5, VectorPlaces
    <3> QED
      BY <3>1, <3>2, <3>3, <3>4 DEF LiesAt, Holds
  <2> QED
    BY <1>1, <1>4, <1>6, <2>1 DEF TakenHere
<1> QED
  BY <1>3, <1>10, <1>11, <1>12, <1>13 DEF WInv

LEMMA ReturnWalk == ASSUME IInv, WInv, Return PROVE WInv'
<1>1. /\ stack # <<>> /\ Last(stack).items = {} /\ stack' = Front(stack)
      /\ UNCHANGED <<trace, todo, kind, vectors, vector, records>>
  BY DEF Return, Leave
<1>2. /\ Presented' = Presented /\ UNCHANGED <<kindOf, above, marked, shift>>
      /\ TraceShaped' /\ OneRecord' /\ RecordsTell'
      /\ \A j, z : IsShown(j, z) => IsShown(j, z)'
  BY <1>1, NoneShown
<1>3. /\ \A z : Path(z)' = Path(z)
      /\ \A j, w : Roots(j, w)' = Roots(j, w)
      /\ \A x, w : LiesAt(x, w)' <=> LiesAt(x, w)
  BY <1>2, Kept
<1>4. stack \in Seq(Activations)
  BY DEF IInv, WalkSound
<1>5. /\ \A i \in DOMAIN stack' : i \in DOMAIN stack /\ stack'[i] = stack[i]
      /\ \A i \in DOMAIN stack : i = Len(stack) \/ i \in DOMAIN stack'
      /\ stack[Len(stack)].items = {}
  BY <1>1, <1>4 DEF Front, Last
<1>6. \A i, x : At(i, x)' <=> At(i, x)
  BY <1>5 DEF At
<1>7. \A w, x : Due(w, x)' <=> Due(w, x)
  BY <1>1, <1>3 DEF Due
<1>8. \A x : Waiting(x)' <=> Waiting(x)
  <2>1. \A x : (\E i \in DOMAIN stack' : At(i, x)') <=> (\E i \in DOMAIN stack : At(i, x))
    BY <1>5, <1>6 DEF At
  <2> QED
    BY <1>1, <1>7, <2>1 DEF Waiting
<1>9. WaitsOnce'
  BY <1>1, <1>3, <1>5, <1>6, <1>7, <1>8 DEF WInv, WaitsOnce
<1>10. NotAgain' /\ NoneLeft'
  BY <1>1, <1>2, <1>3, <1>8 DEF WInv, NotAgain, NoneLeft, Holding
<1>11. TakenHere'
  BY <1>1, <1>3, <1>5 DEF WInv, TakenHere
<1> QED
  BY <1>2, <1>9, <1>10, <1>11 DEF WInv

(* A turn takes the item from its loop and adds one over its children. *)
LEMMA TurnTakes ==
    ASSUME IInv, NEW z \in Item, NEW top \in Activations, NEW new, Turn(z, top, new),
           NEW n, n = Len(stack)
    PROVE  /\ At(n, z) /\ n + 1 \notin DOMAIN stack
           /\ \A i, x : At(i, x)' <=> ((At(i, x) /\ ~(i = n /\ x = z)) \/ (i = n + 1 /\ x \in Children(z)))
<1>1. /\ stack # <<>> /\ top = Last(stack) /\ z \in top.items /\ stack' = Descend(z, top)
      /\ stack \in Seq(Activations)
  BY DEF Turn, IInv, WalkSound
<1>2. n \in Nat /\ n \in DOMAIN stack /\ DOMAIN stack = 1 .. n /\ top = stack[n]
  BY <1>1 DEF Last
<1>3. PICK rest, inner, f :
         /\ rest = [top EXCEPT !.items = @ \ {z}] /\ inner = Inside(z, top, nextId)
         /\ f = Front(stack)
  OBVIOUS
<1>4. rest.items = top.items \ {z} /\ inner.items = Children(z)
  BY <1>3 DEF Activations, Inside, Activation
<1>5. /\ f \in Seq(Activations) /\ Len(f) = n - 1
      /\ \A i \in 1 .. n - 1 : f[i] = stack[i]
  BY <1>1, <1>2, <1>3 DEF Front
<1>6. PICK g : g = Append(f, rest)
  OBVIOUS
<1>7. rest \in Activations
  BY <1>3 DEF Activations
<1>8. /\ g \in Seq(Activations) /\ Len(g) = n /\ g[n] = rest
      /\ \A i \in 1 .. n - 1 : g[i] = stack[i]
  BY <1>2, <1>5, <1>6, <1>7
<1>9. stack' = IF Children(z) = {} THEN g ELSE Append(g, inner)
  BY <1>1, <1>3, <1>6 DEF Descend
<1>10. ASSUME NEW i, NEW x
       PROVE  i \in 1 .. n /\ x \in g[i].items <=> At(i, x) /\ ~(i = n /\ x = z)
  <2>1. CASE i = n
    BY <1>2, <1>4, <1>8, <2>1 DEF At
  <2>2. CASE i # n
    <3>1. i \in 1 .. n <=> i \in 1 .. n - 1
      BY <1>2, <2>2
    <3> QED
      BY <1>2, <1>8, <2>2, <3>1 DEF At
  <2> QED
    BY <2>1, <2>2
<1>11. CASE Children(z) = {}
  <2>1. \A i, x : At(i, x)' <=> i \in 1 .. n /\ x \in g[i].items
    BY <1>8, <1>9, <1>11 DEF At
  <2> QED
    BY <1>1, <1>2, <1>10, <1>11, <2>1 DEF At
<1>12. CASE Children(z) # {}
  <2>1. /\ DOMAIN Append(g, inner) = 1 .. n + 1 /\ Append(g, inner)[n + 1] = inner
        /\ \A i \in 1 .. n : Append(g, inner)[i] = g[i]
    BY <1>2, <1>8
  <2>2. PICK t : t = Append(g, inner)
    OBVIOUS
  <2>3. \A i : i \in 1 .. n + 1 <=> i \in 1 .. n \/ i = n + 1
    BY <1>2
  <2>4. n + 1 \notin 1 .. n
    BY <1>2
  <2>5. \A i, x : i \in DOMAIN t /\ x \in t[i].items <=>
           (i \in 1 .. n /\ x \in g[i].items) \/ (i = n + 1 /\ x \in inner.items)
    BY <2>1, <2>2, <2>3, <2>4
  <2>6. \A i, x : At(i, x)' <=> i \in DOMAIN t /\ x \in t[i].items
    BY <1>9, <1>12, <2>2 DEF At
  <2> QED
    BY <1>1, <1>2, <1>4, <1>10, <2>4, <2>5, <2>6 DEF At
<1> QED
  BY <1>11, <1>12

(* A turn presents the item as the trace has it. *)
LEMMA TurnTells ==
    ASSUME IInv, NEW z \in Item, NEW top \in Activations, NEW new, Turn(z, top, new),
           LiesAt(z, vector)
    PROVE  /\ \A r \in new : r.kind = kind /\ r.item = z /\ Tells(r)
           /\ \A r, s \in new : r.release = s.release => r = s
           /\ (kind = "frame-image" /\ z \notin marked) \/ \E r \in new : ~r.release
           /\ kind = "memory" /\ z \in marked => \E r \in new : r.release
<1>1. /\ kind \in Kinds /\ vector \in Vectors(kind) /\ kindOf[z] = Holding(kind)
  BY TurnHere
<1>2. SourceOf(kind, vector, z) = <<SourceType(kind), PlaceNumber(kind, z)>>
  <2>1. CASE kind \in {"cpu-usage", "crash"}
    BY <2>1 DEF SourceOf, PlaceNumber
  <2>2. CASE kind = "hardware-sample"
    <3>1. vector.part \in {1, 2}
      BY <1>1, <2>2 DEF Vectors, TraceWide
    <3>2. vector.part = IF z \in marked THEN 2 ELSE 1
      BY <3>1 DEF LiesAt
    <3> QED
      BY <2>2, <3>2 DEF SourceOf, PlaceNumber
  <2>3. CASE kind = "message"
    BY <2>3 DEF SourceOf, PlaceNumber
  <2>4. CASE kind \notin {"cpu-usage", "crash", "hardware-sample", "message"}
    <3>1. vector.place # 0
      BY <1>1, <2>4, VectorPlaces DEF TraceWide
    <3> QED
      BY <2>4, <3>1 DEF SourceOf, PlaceNumber, LiesAt
  <2> QED
    BY <2>1, <2>2, <2>3, <2>4
<1>3. PICK a, b, p : a = Record(z, top) /\ b = Release(z, top) /\ p = Presents(z, top)
  OBVIOUS
<1>4. /\ a.kind = kind /\ a.item = z /\ a.release = FALSE
      /\ a.source = SourceOf(kind, vector, z)
      /\ a.start = StartOf(z) /\ a.end = EndFor(kind, z)
  BY <1>3 DEF Record, End, EndFor
<1>5. /\ b.kind = kind /\ b.item = z /\ b.release = TRUE
      /\ b.source = SourceOf(kind, vector, z)
      /\ b.start = FreeOf(z) /\ b.end = FreeOf(z)
  BY <1>3 DEF Release, Record
<1>6. \/ p = <<>> /\ kind = "frame-image" /\ z \notin marked
      \/ p = <<a, b>> /\ kind = "memory" /\ z \in marked
      \/ p = <<a>> /\ ~(kind = "frame-image" /\ z \notin marked) /\ ~(kind = "memory" /\ z \in marked)
  BY <1>3 DEF Presents
<1>7. new = ToSet(p)
  BY <1>3 DEF Turn
<1>8. ~(kind = "frame-image" /\ z \notin marked) => Tells(a)
  BY <1>2, <1>4 DEF Tells
<1>9. kind = "memory" /\ z \in marked => Tells(b)
  BY <1>2, <1>5 DEF Tells
<1>10. CASE p = <<>> /\ kind = "frame-image" /\ z \notin marked
  <2>1. new = {}
    BY <1>7, <1>10 DEF ToSet
  <2> QED
    BY <1>10, <2>1
<1>11. CASE p = <<a, b>> /\ kind = "memory" /\ z \in marked
  <2>1. new = {a, b}
    BY <1>7, <1>11 DEF ToSet
  <2> QED
    BY <1>4, <1>5, <1>8, <1>9, <1>11, <2>1
<1>12. CASE p = <<a>> /\ ~(kind = "frame-image" /\ z \notin marked) /\ ~(kind = "memory" /\ z \in marked)
  <2>1. new = {a}
    BY <1>7, <1>12 DEF ToSet
  <2> QED
    BY <1>4, <1>8, <1>12, <2>1
<1> QED
  BY <1>6, <1>10, <1>11, <1>12

LEMMA ChildPaths ==
    ASSUME TraceSound, NEW z \in Item, NEW y \in Children(z)
    PROVE  /\ y \in Item /\ above[y] = z /\ above[y] > 0 /\ y \notin Path(z) /\ y # z
           /\ Path(y) = {y} \cup Path(z) /\ z \in Path(y)
           /\ PlaceOf(y) = PlaceOf(z) /\ kindOf[y] = kindOf[z] /\ kindOf[z] \in Nested
<1>1. y \in Item /\ above[y] = z /\ above[y] > 0
  BY Items DEF Children
<1>2. z < y /\ y \in Nat /\ z \in Nat
  BY <1>1, Items DEF TraceSound
<1>3. ~(y <= z)
  BY <1>2
<1>4. y \notin Path(z) /\ z \in Path(z)
  BY <1>3, PathHas
<1> QED
  BY <1>1, <1>4, PathOfChild

LEMMA TurnWaits ==
    ASSUME IInv, WInv, NEW z \in Item, NEW top \in Activations, NEW new, Turn(z, top, new)
    PROVE  /\ Waiting(z) /\ (\A y \in Children(z) : ~Waiting(y))
           /\ \A x : Waiting(x)' <=> ((Waiting(x) /\ x # z) \/ x \in Children(z))
           /\ WaitsOnce'
<1>1. PICK n : n = Len(stack)
  OBVIOUS
<1>2. /\ At(n, z) /\ n + 1 \notin DOMAIN stack
      /\ \A i, x : At(i, x)' <=> ((At(i, x) /\ ~(i = n /\ x = z)) \/ (i = n + 1 /\ x \in Children(z)))
  BY <1>1, TurnTakes
<1>3. UNCHANGED <<kindOf, above, marked, shift, kind, vectors>>
  BY DEF Turn
<1>4. (\A x : Path(x)' = Path(x)) /\ \A k, v : Roots(k, v)' = Roots(k, v)
  BY <1>3, Kept
<1>5. \A v, x : Due(v, x)' <=> Due(v, x)
  BY <1>3, <1>4 DEF Due
<1>6. TraceSound /\ WaitsOnce
  BY DEF IInv, WInv
<1>7. Waiting(z)
  BY <1>2 DEF Waiting, At
<1>8. ASSUME NEW y \in Children(z) PROVE ~Waiting(y)
  <2>1. y \in Item /\ z \in Path(y) /\ y # z
    BY <1>6, ChildPaths
  <2> QED
    BY <1>6, <1>7, <2>1 DEF WaitsOnce
<1>9. \A i, x : At(i, x) => i \in DOMAIN stack
  BY DEF At
<1>10. ASSUME NEW x PROVE Waiting(x)' <=> ((Waiting(x) /\ x # z) \/ x \in Children(z))
  <2>1. Waiting(x)' <=> (\E i : At(i, x)') \/ (\E v : Due(v, x)')
    BY DEF Waiting, At, Due
  <2>2. Waiting(x) <=> (\E i : At(i, x)) \/ (\E v : Due(v, x))
    BY DEF Waiting, At, Due
  <2>3. (\A i : At(i, z) => i = n) /\ \A v : ~Due(v, z)
    BY <1>2, <1>6, <1>9 DEF WaitsOnce, Due
  <2>4. CASE x = z
    <3>1. z \notin Children(z)
      BY <1>6, ChildPaths
    <3>2. ~Waiting(x)'
      BY <1>2, <1>5, <2>1, <2>3, <2>4, <3>1
    <3> QED
      BY <2>4, <3>1, <3>2
  <2>5. CASE x # z
    BY <1>2, <1>5, <2>1, <2>2, <2>5
  <2> QED
    BY <2>4, <2>5
<1>11. ASSUME NEW x \in Item, NEW y \in Item, Waiting(x)', Waiting(y)', x \in Path(y)
       PROVE  x = y
  <2>1. CASE ~(x \in Children(z)) /\ ~(y \in Children(z))
    BY <1>6, <1>10, <1>11, <2>1 DEF WaitsOnce
  <2>2. CASE y \in Children(z)
    <3>1. CASE x \in Children(z)
      BY <1>6, <1>11, <2>2, <3>1, ChildPaths
    <3>2. CASE x \notin Children(z)
      <4>1. Waiting(x) /\ x # z
        BY <1>10, <1>11, <3>2
      <4>2. x \notin Path(z)
        BY <1>6, <1>7, <4>1 DEF WaitsOnce
      <4> QED
        BY <1>6, <1>11, <2>2, <4>2, ChildPaths
    <3> QED
      BY <3>1, <3>2
  <2>3. CASE x \in Children(z) /\ y \notin Children(z)
    <3>1. Waiting(y) /\ y # z
      BY <1>10, <1>11, <2>3
    <3>2. z \in Path(y)
      BY <1>6, <1>11, <2>3, ChildPaths, PathOfPath
    <3> QED
      BY <1>6, <1>7, <3>1, <3>2 DEF WaitsOnce
  <2> QED
    BY <2>1, <2>2, <2>3
<1>12. ASSUME NEW x \in Item
       PROVE  /\ \A i, j : At(i, x)' /\ At(j, x)' => i = j
              /\ \A i, v : ~(At(i, x)' /\ Due(v, x)')
  <2>1. CASE x \in Children(z)
    <3>1. (\A i : ~At(i, x)) /\ \A v : ~Due(v, x)
      BY <1>8, <2>1 DEF Waiting, At, Due
    <3> QED
      BY <1>2, <1>5, <3>1
  <2>2. CASE x \notin Children(z)
    BY <1>2, <1>5, <1>6, <1>9, <2>2 DEF WaitsOnce, Due
  <2> QED
    BY <2>1, <2>2
<1>13. WaitsOnce'
  BY <1>4, <1>11, <1>12 DEF WaitsOnce
<1> QED
  BY <1>7, <1>8, <1>10, <1>13

LEMMA VisitWalk == ASSUME IInv, WInv, Visit PROVE WInv'
<1>1. PICK z \in Item, top \in Activations : \E new : Turn(z, top, new)
  BY VisitTurns
<1>2. PICK new : Turn(z, top, new)
  BY <1>1
<1>3. /\ UNCHANGED <<kindOf, above, marked, shift, todo, kind, vectors, vector>>
      /\ Presented' = Presented \cup new
  BY <1>2 DEF Turn
<1>4. /\ TraceShaped'
      /\ \A x : Path(x)' = Path(x)
      /\ \A x, v : LiesAt(x, v)' <=> LiesAt(x, v)
      /\ \A r : Tells(r)' <=> Tells(r)
  BY <1>3, Kept DEF WInv
<1>5. TraceSound
  BY DEF IInv
<1>6. PICK n : n = Len(stack)
  OBVIOUS
<1>7. /\ At(n, z)
      /\ \A i, x : At(i, x)' <=> ((At(i, x) /\ ~(i = n /\ x = z)) \/ (i = n + 1 /\ x \in Children(z)))
  BY <1>2, <1>6, TurnTakes
<1>8. /\ Waiting(z) /\ (\A y \in Children(z) : ~Waiting(y))
      /\ \A x : Waiting(x)' <=> ((Waiting(x) /\ x # z) \/ x \in Children(z))
      /\ WaitsOnce'
  BY <1>2, TurnWaits
<1>9. LiesAt(z, vector)
  BY <1>7 DEF WInv, TakenHere, At
<1>10. /\ \A r \in new : r.kind = kind /\ r.item = z /\ Tells(r)
       /\ \A r, s \in new : r.release = s.release => r = s
       /\ (kind = "frame-image" /\ z \notin marked) \/ \E r \in new : ~r.release
       /\ kind = "memory" /\ z \in marked => \E r \in new : r.release
  BY <1>2, <1>9, TurnTells
<1>11. ASSUME NEW r \in Presented, r.kind = kind
       PROVE  r.item \in Item /\ r.item # z /\ \A x \in Path(r.item) : ~Waiting(x)
  <2>1. r.item \in Item /\ \A x \in Path(r.item) : ~Waiting(x)
    BY <1>11 DEF WInv, NotAgain, IInv, RecordsSound, RecordSound
  <2> QED
    BY <1>5, <1>8, <2>1, PathHas
<1>12. NotAgain'
  <2>1. ASSUME NEW r \in Presented', r.kind = kind, NEW x \in Path(r.item) PROVE ~Waiting(x)'
    <3>1. CASE r \in Presented
      <4>1. r.item \in Item /\ \A y \in Path(r.item) : ~Waiting(y)
        BY <1>11, <2>1, <3>1
      <4>2. x \in Item
        BY <1>5, <2>1, <4>1, PathHas
      <4>3. x \notin Children(z)
        <5> SUFFICES ASSUME x \in Children(z) PROVE FALSE
          OBVIOUS
        <5>1. z \in Path(x)
          BY <1>5, ChildPaths
        <5>2. z \in Path(r.item)
          BY <1>5, <2>1, <4>1, <5>1, PathOfPath
        <5> QED
          BY <1>8, <4>1, <5>2
      <4> QED
        BY <1>8, <2>1, <4>1, <4>3
    <3>2. CASE r \in new
      <4>1. r.item = z /\ x \in Item
        BY <1>5, <1>10, <2>1, <3>2, PathHas
      <4>2. x \notin Children(z)
        BY <1>5, <2>1, <4>1, ChildPaths
      <4>3. Waiting(x) => x = z
        BY <1>8, <2>1, <4>1 DEF WInv, WaitsOnce
      <4> QED
        BY <1>8, <4>2, <4>3
    <3> QED
      BY <1>3, <3>1, <3>2
  <2> QED
    BY <1>3, <1>4, <2>1 DEF NotAgain
<1>13. OneRecord'
  <2> SUFFICES ASSUME NEW r \in Presented', NEW s \in Presented',
                      r.kind = s.kind, r.item = s.item, r.release = s.release
               PROVE  r = s
    BY DEF OneRecord
  <2>1. CASE r \in Presented /\ s \in Presented
    BY <2>1 DEF WInv, OneRecord
  <2>2. CASE r \in new /\ s \in new
    BY <1>10, <2>2
  <2>3. CASE r \in new /\ s \in Presented
    BY <1>10, <1>11, <2>3
  <2>4. CASE r \in Presented /\ s \in new
    BY <1>10, <1>11, <2>4
  <2> QED
    BY <1>3, <2>1, <2>2, <2>3, <2>4
<1>14. NoneLeft'
  <2>1. ASSUME NEW k, NEW y, IsShown(k, y) PROVE IsShown(k, y)'
    BY <1>3, <2>1 DEF IsShown, Shown
  <2>2. IsShown(kind, z)'
    <3>1. \A r \in new : Tells(r)
      BY <1>10
    <3>2. \A r \in new : r.release \in BOOLEAN
      BY <3>1 DEF Tells
    <3>3. Shown(kind, z, FALSE)' \/ (kind = "frame-image" /\ z \notin marked)
      <4>1. CASE kind = "frame-image" /\ z \notin marked
        BY <4>1
      <4>2. CASE \E r \in new : ~r.release
        <5>1. PICK r \in new : r.release = FALSE
          BY <3>2, <4>2
        <5> QED
          BY <1>3, <1>10, <5>1 DEF Shown
      <4> QED
        BY <1>10, <4>1, <4>2
    <3>4. ASSUME kind = "memory", z \in marked PROVE Shown(kind, z, TRUE)'
      <4>1. PICK r \in new : r.release = TRUE
        BY <1>10, <3>2, <3>4
      <4> QED
        BY <1>3, <1>10, <4>1 DEF Shown
    <3> QED
      BY <1>3, <3>3, <3>4 DEF IsShown
  <2> SUFFICES ASSUME NEW y \in Item, NEW k \in Kinds, kindOf[y] = Holding(k), k \notin todo,
                      ~IsShown(k, y)'
               PROVE  k = kind /\ \E x \in Path(y) : Waiting(x)'
    BY <1>3, <1>4 DEF NoneLeft, Holding
  <2>3. PICK x \in Path(y) : Waiting(x) /\ k = kind
    BY <2>1 DEF WInv, NoneLeft
  <2>4. CASE x # z
    BY <1>8, <2>3, <2>4
  <2>5. CASE x = z
    <3>1. y # z
      BY <1>3, <2>2, <2>3 DEF IsShown, Shown
    <3>2. PICK c \in Path(y) : above[c] = z /\ above[c] > 0
      BY <1>5, <2>5, <3>1, ChildOnPath
    <3>3. c \in Children(z)
      BY <1>5, <3>2, PathHas DEF Children
    <3> QED
      BY <1>8, <2>3, <3>2, <3>3
  <2> QED
    BY <2>4, <2>5
<1>15. TakenHere'
  <2>1. ASSUME NEW i, NEW x, At(i, x)' PROVE LiesAt(x, vector)
    <3>1. CASE At(i, x)
      BY <3>1 DEF WInv, TakenHere, At
    <3>2. CASE x \in Children(z)
      <4>1. PlaceOf(x) = PlaceOf(z) /\ kindOf[z] \in Nested
        BY <1>5, <3>2, ChildPaths
      <4>2. vector.part = 0
        <5>1. kindOf[z] = Holding(kind) /\ vector \in Vectors(kind)
          BY <1>2, TurnHere
        <5>2. kind # "hardware-sample"
          BY <4>1, <5>1 DEF Holding, Nested
        <5> QED
          BY <5>1, <5>2, VectorPlaces
      <4> QED
        BY <1>9, <4>1, <4>2 DEF LiesAt
    <3> QED
      BY <1>7, <2>1, <3>1, <3>2
  <2> QED
    BY <1>3, <1>4, <2>1 DEF TakenHere, At
<1>16. RecordsTell'
  BY <1>3, <1>4, <1>10 DEF WInv, RecordsTell
<1> QED
  BY <1>4, <1>8, <1>12, <1>13, <1>14, <1>15, <1>16 DEF WInv

LEMMA WalkInvariance == Spec => [](IInv /\ WInv)
<1>1. Init => IInv /\ WInv
  BY InitInv, InitWalk
<1>2. IInv /\ WInv /\ [Next]_vars => IInv' /\ WInv'
  <2> SUFFICES ASSUME IInv, WInv, [Next]_vars PROVE WInv'
    BY NextInv
  <2>1. CASE NextKind
    BY <2>1, NextKindWalk
  <2>2. CASE NextVector
    BY <2>2, NextVectorWalk
  <2>3. CASE Visit
    BY <2>3, VisitWalk
  <2>4. CASE Return
    BY <2>4, ReturnWalk
  <2>5. CASE UNCHANGED vars
    <3>1. /\ UNCHANGED <<trace, records>>
          /\ UNCHANGED <<todo, kind, vectors, vector, stack>>
      BY <2>5 DEF vars
    <3>2. /\ Presented' = Presented /\ UNCHANGED <<kindOf, above, marked, shift>>
          /\ TraceShaped' /\ OneRecord' /\ RecordsTell'
          /\ \A k, z : IsShown(k, z) => IsShown(k, z)'
      BY <3>1, NoneShown
    <3>3. /\ \A z : Path(z)' = Path(z)
          /\ \A k, v : Roots(k, v)' = Roots(k, v)
          /\ \A x, v : LiesAt(x, v)' <=> LiesAt(x, v)
      BY <3>2, Kept
    <3>4. (\A i, x : At(i, x)' <=> At(i, x)) /\ (\A v, x : Due(v, x)' <=> Due(v, x))
      BY <3>1, <3>3 DEF At, Due
    <3>5. \A x : Waiting(x)' <=> Waiting(x)
      BY <3>1, <3>4 DEF Waiting
    <3>6. WaitsOnce' /\ NotAgain' /\ NoneLeft' /\ TakenHere'
      BY <3>1, <3>2, <3>3, <3>4, <3>5
         DEF WInv, WaitsOnce, NotAgain, NoneLeft, Holding, TakenHere
    <3> QED
      BY <3>2, <3>6 DEF WInv
  <2> QED
    BY <2>1, <2>2, <2>3, <2>4, <2>5 DEF Next
<1> QED
  BY <1>1, <1>2, PTL DEF Spec

-----------------------------------------------------------------------------
(* When the walk is over, every item is presented, and once *)

(* The items and the records of a kind and a source. *)
ItemsOf(k, n) ==
    {z \in Item : kindOf[z] = Holding(k) /\ (k = "frame-image" => z \in marked) /\ PlaceNumber(k, z) = n}
Of(k, n) == {r \in Presented : r.kind = k /\ r.source = <<SourceType(k), n>>}

LEMMA OverShows ==
    ASSUME IInv, WInv, Over, NEW z \in Item, NEW k \in Kinds, kindOf[z] = Holding(k)
    PROVE  IsShown(k, z)
<1>1. todo = {} /\ vectors = {} /\ DOMAIN stack = {}
  BY DEF Over
<1>2. ~\E x \in Path(z) : Waiting(x)
  BY <1>1 DEF Waiting
<1> QED
  BY <1>1, <1>2 DEF WInv, NoneLeft

LEMMA OfItems ==
    ASSUME IInv, WInv, Over, NEW k \in Kinds, NEW n
    PROVE  /\ \A r \in Of(k, n) : r \in Presented /\ r.kind = k /\ r.item \in ItemsOf(k, n) /\ Tells(r)
           /\ \A z \in ItemsOf(k, n) :
                 /\ \E r \in Of(k, n) : r.item = z /\ r.release = FALSE
                 /\ k = "memory" /\ z \in marked => \E r \in Of(k, n) : r.item = z /\ r.release = TRUE
<1>1. ASSUME NEW r \in Of(k, n)
      PROVE  r \in Presented /\ r.kind = k /\ r.item \in ItemsOf(k, n) /\ Tells(r)
  <2>1. r \in Presented /\ r.kind = k /\ r.source = <<SourceType(k), n>>
    BY DEF Of
  <2>2. r.item \in Item /\ kindOf[r.item] = Holding(k) /\ Tells(r)
    BY <2>1 DEF IInv, RecordsSound, RecordSound, WInv, RecordsTell
  <2>3. r.source = <<SourceType(k), PlaceNumber(k, r.item)>> /\ (k = "frame-image" => r.item \in marked)
    BY <2>1, <2>2 DEF Tells
  <2> QED
    BY <2>1, <2>2, <2>3 DEF ItemsOf
<1>2. ASSUME NEW z \in ItemsOf(k, n), NEW r \in Presented, r.kind = k, r.item = z
      PROVE  r \in Of(k, n)
  <2>1. r.source = <<SourceType(k), PlaceNumber(k, z)>>
    BY <1>2 DEF WInv, RecordsTell, Tells
  <2> QED
    BY <1>2, <2>1 DEF Of, ItemsOf
<1>3. ASSUME NEW z \in ItemsOf(k, n)
      PROVE  /\ \E r \in Of(k, n) : r.item = z /\ r.release = FALSE
             /\ k = "memory" /\ z \in marked => \E r \in Of(k, n) : r.item = z /\ r.release = TRUE
  <2>1. IsShown(k, z)
    BY OverShows DEF ItemsOf
  <2>2. ~(k = "frame-image" /\ z \notin marked)
    BY DEF ItemsOf
  <2> QED
    BY <1>2, <2>1, <2>2 DEF IsShown, Shown
<1> QED
  BY <1>1, <1>3

(* A set of records with one record for each item of a set. *)
LEMMA OneEach ==
    ASSUME NEW S, IsFiniteSet(S), NEW R,
           \A r \in R : r.item \in S,
           \A z \in S : \E r \in R : r.item = z,
           \A r, s \in R : r.item = s.item => r = s
    PROVE  IsFiniteSet(R) /\ Cardinality(R) = Cardinality(S)
<1> DEFINE f == [z \in S |-> CHOOSE r \in R : r.item = z]
<1>1. \A z \in S : f[z] \in R /\ f[z].item = z
  OBVIOUS
<1>2. f \in [S -> R]
  BY <1>1
<1> HIDE DEF f
<1>3. f \in Injection(S, R)
  <2>1. \A a, b \in S : f[a] = f[b] => a = b
    BY <1>1
  <2>2. DOMAIN f = S
    BY <1>2
  <2> QED
    BY <1>2, <2>1, <2>2 DEF Injection, IsInjective
<1>4. f \in Surjection(S, R)
  BY <1>1, <1>2 DEF Surjection
<1>5. ExistsBijection(S, R)
  BY <1>3, <1>4 DEF ExistsBijection, Bijection
<1> QED
  BY <1>5, FS_Bijection

LEMMA ItemsFinite ==
    ASSUME NEW S, S \subseteq Item
    PROVE  IsFiniteSet(S) /\ Cardinality(S) \in Nat
<1>1. IsFiniteSet(S)
  BY Items, FS_Subset
<1> QED
  BY <1>1, FS_CardinalityType

LEMMA OfCounted ==
    ASSUME IInv, WInv, Over, NEW k \in Kinds, NEW n
    PROVE  Cardinality(Of(k, n)) =
              IF k = "memory" THEN Cardinality(ItemsOf(k, n)) + Cardinality(ItemsOf(k, n) \cap marked)
              ELSE Cardinality(ItemsOf(k, n))
<1> DEFINE R == Of(k, n)
           S == ItemsOf(k, n)
           A == {r \in R : r.release = FALSE}
           B == {r \in R : r.release = TRUE}
<1>1. /\ \A r \in R : r \in Presented /\ r.kind = k /\ r.item \in S /\ Tells(r)
      /\ \A z \in S : /\ \E r \in R : r.item = z /\ r.release = FALSE
                      /\ k = "memory" /\ z \in marked => \E r \in R : r.item = z /\ r.release = TRUE
  BY OfItems
<1>2. \A r, s \in R : r.item = s.item /\ r.release = s.release => r = s
  BY <1>1 DEF WInv, OneRecord
<1>3. \A r \in R : r.release \in BOOLEAN /\ (r.release = TRUE => k = "memory" /\ r.item \in marked)
  BY <1>1 DEF Tells
<1>4. S \subseteq Item
  BY DEF ItemsOf
<1> HIDE DEF R, S
<1>5. IsFiniteSet(A) /\ Cardinality(A) = Cardinality(S)
  <2>1. IsFiniteSet(S)
    BY <1>4, ItemsFinite
  <2>2. \A r \in A : r.item \in S
    BY <1>1
  <2>3. \A z \in S : \E r \in A : r.item = z
    BY <1>1
  <2>4. \A r, s \in A : r.item = s.item => r = s
    BY <1>2
  <2> HIDE DEF A
  <2> QED
    BY <2>1, <2>2, <2>3, <2>4, OneEach
<1>6. CASE k = "memory"
  <2>1. IsFiniteSet(B) /\ Cardinality(B) = Cardinality(S \cap marked)
    <3>1. IsFiniteSet(S \cap marked)
      BY <1>4, ItemsFinite
    <3>2. \A r \in B : r.item \in S \cap marked
      BY <1>1, <1>3
    <3>3. \A z \in S \cap marked : \E r \in B : r.item = z
      BY <1>1, <1>6
    <3>4. \A r, s \in B : r.item = s.item => r = s
      BY <1>2
    <3> HIDE DEF B
    <3> QED
      BY <3>1, <3>2, <3>3, <3>4, OneEach
  <2>2. R = A \cup B /\ A \cap B = {}
    BY <1>3
  <2> HIDE DEF A, B
  <2>3. Cardinality(A \cup B) = Cardinality(A) + Cardinality(B) - Cardinality(A \cap B)
    BY <1>5, <2>1, FS_Union
  <2>4. Cardinality({}) = 0
    BY FS_EmptySet
  <2>5. Cardinality(S) \in Nat /\ Cardinality(S \cap marked) \in Nat
    BY <1>4, ItemsFinite
  <2>7. Cardinality(R) = Cardinality(A \cup B) /\ Cardinality(A \cap B) = 0
    BY <2>2, <2>4
  <2>6. Cardinality(R) = Cardinality(S) + Cardinality(S \cap marked)
    BY <1>5, <2>1, <2>3, <2>5, <2>7
  <2> QED
    BY <1>6, <2>6 DEF R, S
<1>7. CASE k # "memory"
  <2>1. R = A
    BY <1>3, <1>7
  <2>2. Cardinality(R) = Cardinality(S)
    BY <1>5, <2>1
  <2> QED
    BY <1>7, <2>2 DEF R, S
<1> QED
  BY <1>6, <1>7

(* The times of the records of a kind and a source. *)
TimesOf(k, n) == {r.start : r \in Of(k, n)} \cup {r.end : r \in Of(k, n)}

LEMMA TimesTold ==
    ASSUME IInv, WInv, Over, NEW k \in Kinds, NEW n
    PROVE  TimesOf(k, n) =
              Starts(ItemsOf(k, n)) \cup
              IF k = "memory" THEN {FreeOf(z) : z \in ItemsOf(k, n) \cap marked}
              ELSE {EndFor(k, z) : z \in ItemsOf(k, n)}
<1> DEFINE R == Of(k, n)
           S == ItemsOf(k, n)
           T == {r.start : r \in R} \cup {r.end : r \in R}
           U == Starts(S) \cup IF k = "memory" THEN {FreeOf(z) : z \in S \cap marked}
                               ELSE {EndFor(k, z) : z \in S}
<1>1. /\ \A r \in R : r \in Presented /\ r.kind = k /\ r.item \in S /\ Tells(r)
      /\ \A z \in S : /\ \E r \in R : r.item = z /\ r.release = FALSE
                      /\ k = "memory" /\ z \in marked => \E r \in R : r.item = z /\ r.release = TRUE
  BY OfItems
<1>2. /\ \A r \in R : /\ r.release \in BOOLEAN
                      /\ r.release = FALSE => r.start = StartOf(r.item) /\ r.end = EndFor(k, r.item)
                      /\ r.release = TRUE =>
                            /\ k = "memory" /\ r.item \in marked
                            /\ r.start = FreeOf(r.item) /\ r.end = FreeOf(r.item)
  BY <1>1 DEF Tells
<1>3. k = "memory" => \A z : EndFor(k, z) = StartOf(z)
  BY DEF EndFor, Interval, Nested, Scheduled
<1> HIDE DEF R, S
<1>4. ASSUME NEW r \in R PROVE r.start \in U /\ r.end \in U
  <2>1. CASE r.release = FALSE
    BY <1>1, <1>2, <1>3, <2>1 DEF Starts
  <2>2. CASE r.release = TRUE
    BY <1>1, <1>2, <2>2
  <2> QED
    BY <1>2, <2>1, <2>2
<1>5. ASSUME NEW z \in S
      PROVE  /\ StartOf(z) \in T
             /\ k # "memory" => EndFor(k, z) \in T
             /\ k = "memory" /\ z \in marked => FreeOf(z) \in T
  <2>1. PICK r \in R : r.item = z /\ r.release = FALSE
    BY <1>1
  <2>2. r.start = StartOf(z) /\ r.end = EndFor(k, z)
    BY <1>2, <2>1
  <2>3. ASSUME k = "memory", z \in marked PROVE FreeOf(z) \in T
    <3>1. PICK s \in R : s.item = z /\ s.release = TRUE
      BY <1>1, <2>3
    <3> QED
      BY <1>2, <3>1
  <2> QED
    BY <2>2, <2>3
<1>6. T \subseteq U
  BY <1>4
<1>7. U \subseteq T
  BY <1>5 DEF Starts
<1>8. T = U
  BY <1>6, <1>7
<1> QED
  BY <1>8 DEF TimesOf, R, S

-----------------------------------------------------------------------------
(* Times *)

LEMMA MinAndMax ==
    ASSUME NEW n \in Nat, NEW S \in SUBSET (0 .. n), S # {}
    PROVE  /\ Min(S) \in S /\ Max(S) \in S
           /\ \A y \in S : Min(S) <= y /\ y <= Max(S)
<1>1. S \in SUBSET Nat
  OBVIOUS
<1>2. \E x \in S : \A y \in S : x <= y
  BY <1>1, Smallest
<1>3. Min(S) \in S /\ \A y \in S : Min(S) <= y
  BY <1>2 DEF Min
<1> DEFINE D == {n - x : x \in S}
<1>4. D \in SUBSET Nat /\ D # {}
  <2>1. ASSUME NEW x \in S PROVE n - x \in Nat
    BY SMT
  <2> QED
    BY <2>1
<1>5. PICK d \in D : \A y \in D : d <= y
  BY <1>4, Smallest
<1>6. PICK x \in S : d = n - x
  OBVIOUS
<1>7. ASSUME NEW y \in S PROVE x >= y
  <2>1. n - y \in D
    OBVIOUS
  <2>2. n - x <= n - y
    BY <1>5, <1>6, <2>1
  <2>3. x \in Nat /\ y \in Nat
    BY <1>1
  <2> HIDE DEF D
  <2> QED
    BY <2>2, <2>3
<1>8. Max(S) \in S /\ \A y \in S : Max(S) >= y
  BY <1>7 DEF Max
<1>9. \A y \in S : y \in Nat
  BY <1>1
<1> QED
  BY <1>3, <1>8, <1>9

(* Sets of times that reach as far as each other. *)
Bounds(A, B) == \A b \in B : \E a, c \in A : a <= b /\ b <= c
Alongside(A, B) == Bounds(A, B) /\ Bounds(B, A)

LastTime == 4 * N + 1
Times == 0 .. LastTime

LEMMA SameSpan ==
    ASSUME NEW A \in SUBSET Times, NEW B \in SUBSET Times, Alongside(A, B)
    PROVE  Spanning(A) = Spanning(B)
<1>1. LastTime \in Nat
  BY Items DEF LastTime
<1>2. A = {} <=> B = {}
  BY DEF Alongside, Bounds
<1>3. CASE A = {}
  BY <1>2, <1>3 DEF Spanning
<1>4. CASE A # {}
  <2>1. /\ Min(A) \in A /\ Max(A) \in A /\ \A y \in A : Min(A) <= y /\ y <= Max(A)
        /\ Min(B) \in B /\ Max(B) \in B /\ \A y \in B : Min(B) <= y /\ y <= Max(B)
    BY <1>1, <1>2, <1>4, MinAndMax DEF Times
  <2>2. A \subseteq Int /\ B \subseteq Int
    BY <1>1 DEF Times
  <2>3. PICK a1 \in A : a1 <= Min(B)
    BY <2>1 DEF Alongside, Bounds
  <2>4. PICK b1 \in B : b1 <= Min(A)
    BY <2>1 DEF Alongside, Bounds
  <2>5. PICK a2 \in A : Max(B) <= a2
    BY <2>1 DEF Alongside, Bounds
  <2>6. PICK b2 \in B : Max(A) <= b2
    BY <2>1 DEF Alongside, Bounds
  <2>7. Min(A) <= a1 /\ Min(B) <= b1 /\ a2 <= Max(A) /\ b2 <= Max(B)
    BY <2>1
  <2>8. Min(A) \in Int /\ Min(B) \in Int /\ Max(A) \in Int /\ Max(B) \in Int
    BY <2>1, <2>2
  <2>9. a1 \in Int /\ a2 \in Int /\ b1 \in Int /\ b2 \in Int
    BY <2>2
  <2>10. Min(A) = Min(B)
    BY <2>3, <2>4, <2>7, <2>8, <2>9
  <2>11. Max(A) = Max(B)
    BY <2>5, <2>6, <2>7, <2>8, <2>9
  <2> QED
    BY <1>2, <1>4, <2>10, <2>11 DEF Spanning
<1> QED
  BY <1>3, <1>4

LEMMA BoundsBoth ==
    ASSUME NEW A, NEW B, NEW C, NEW D, Bounds(A, B), Bounds(C, D)
    PROVE  Bounds(A \cup C, B \cup D)
  BY DEF Bounds

(* Both ends of two times in order. *)
LEMMA SpanOfTwo ==
    ASSUME NEW a \in Int, NEW b \in Int, a <= b
    PROVE  Spanning({a, b}) = [first |-> a, last |-> b]
<1>1. Min({a, b}) = a
  <2>1. \A x \in {a, b} : (\A y \in {a, b} : x <= y) => x = a
    OBVIOUS
  <2>2. a \in {a, b} /\ \A y \in {a, b} : a <= y
    OBVIOUS
  <2> QED
    BY <2>1, <2>2 DEF Min
<1>2. Max({a, b}) = b
  <2>1. \A x \in {a, b} : (\A y \in {a, b} : x >= y) => x = b
    OBVIOUS
  <2>2. b \in {a, b} /\ \A y \in {a, b} : b >= y
    OBVIOUS
  <2> QED
    BY <2>1, <2>2 DEF Max
<1> QED
  BY <1>1, <1>2 DEF Spanning

LEMMA ItemEnds ==
    ASSUME NEW S, S \subseteq Item, S # {}
    PROVE  /\ Min(S) \in S /\ Max(S) \in S
           /\ \A y \in S : Min(S) <= y /\ y <= Max(S)
<1>1. S \in SUBSET (0 .. N) /\ N \in Nat
  BY Items DEF Item
<1> QED
  BY <1>1, MinAndMax

LEMMA Ordered ==
    ASSUME TraceShaped, NEW z \in Item
    PROVE  Order(z) \in Item /\ (shift = 0 => Order(z) = z)
<1>1. N \in Nat /\ N > 0 /\ z \in 1 .. N
  BY Items DEF Item
<1>2. shift \in Nat
  BY DEF TraceShaped
<1>3. (z - 1 + shift) % N \in 0 .. N - 1
  <2>1. z - 1 + shift \in Int
    BY <1>1, <1>2
  <2>2. \A a \in Int : a % N \in 0 .. N - 1
    BY <1>1
  <2> QED
    BY <2>1, <2>2
<1>4. ASSUME shift = 0 PROVE (z - 1 + shift) % N = z - 1
  <2>1. z - 1 + shift = z - 1 /\ z - 1 \in 0 .. N - 1
    BY <1>1, <1>4
  <2>2. \A a \in 0 .. N - 1 : a % N = a
    BY <1>1
  <2> QED
    BY <2>1, <2>2
<1> QED
  BY <1>1, <1>3, <1>4 DEF Order, Item

(* The last end below an item, whatever the order of the times. *)
LEMMA EndThere ==
    ASSUME TraceShaped, NEW z \in Item
    PROVE  \E x \in Below(z) : EndOf(z) = 1 + 2 * Order(x) /\ \A y \in Below(z) : Order(y) <= Order(x)
<1> DEFINE B == Below(z)
           O == {Order(y) : y \in B}
<1>1. B \subseteq Item /\ z \in B
  BY DEF Below
<1> HIDE DEF B
<1>2. O \subseteq Item /\ O # {}
  BY <1>1, Ordered
<1>3. Max(O) \in O /\ \A y \in O : y <= Max(O)
  BY <1>2, ItemEnds
<1>4. PICK w \in B : Order(w) = Max(O)
  BY <1>3
<1>5. \A y \in B : Order(y) <= Order(w)
  BY <1>3, <1>4
<1> DEFINE x == CHOOSE x \in B : \A y \in B : Order(y) <= Order(x)
<1>6. x \in B /\ \A y \in B : Order(y) <= Order(x)
  BY <1>5
<1>7. EndOf(z) = 1 + 2 * Order(x)
  BY DEF EndOf, B
<1> HIDE DEF x
<1> QED
  BY <1>6, <1>7 DEF B

LEMMA ItemTimes ==
    ASSUME TraceShaped, NEW z \in Item
    PROVE  StartOf(z) \in Times /\ EndOf(z) \in Times /\ FreeOf(z) \in Times
<1>1. N \in Nat /\ z \in 1 .. N /\ Order(z) \in 1 .. N
  BY Items, Ordered DEF Item
<1>2. StartOf(z) \in Times /\ FreeOf(z) \in Times
  BY <1>1 DEF StartOf, FreeOf, Times, LastTime
<1>3. PICK x \in Below(z) : EndOf(z) = 1 + 2 * Order(x)
  BY EndThere
<1>4. Order(x) \in 1 .. N
  BY Ordered DEF Below, Item
<1>5. EndOf(z) \in Times
  BY <1>1, <1>3, <1>4 DEF Times, LastTime
<1> QED
  BY <1>2, <1>5

(* Where the clock is that of the file. *)
LEMMA InOrder ==
    ASSUME TraceShaped, shift = 0, NEW z \in Item
    PROVE  /\ StartOf(z) = 2 * z
           /\ EndOf(z) \in Nat /\ (\A y \in Below(z) : 1 + 2 * y <= EndOf(z))
           /\ \E x \in Below(z) : EndOf(z) = 1 + 2 * x
<1>1. \A y \in Item : Order(y) = y
  BY Ordered
<1>2. Below(z) \subseteq Item
  BY DEF Below
<1>3. PICK x \in Below(z) : EndOf(z) = 1 + 2 * Order(x) /\ \A y \in Below(z) : Order(y) <= Order(x)
  BY EndThere
<1>4. EndOf(z) = 1 + 2 * x /\ \A y \in Below(z) : y <= x
  BY <1>1, <1>2, <1>3
<1>5. x \in Nat /\ \A y \in Below(z) : y \in Nat
  BY <1>2, Items
<1>6. \A y \in Below(z) : 1 + 2 * y <= EndOf(z)
  BY <1>4, <1>5
<1>7. EndOf(z) \in Nat
  BY <1>4, <1>5
<1> QED
  BY <1>1, <1>4, <1>6, <1>7 DEF StartOf

(* Nothing lies below an item that is no zone. *)
LEMMA LeafEnds ==
    ASSUME TraceSound, TraceShaped, shift = 0, NEW z \in Item, kindOf[z] \notin Nested
    PROVE  EndOf(z) = 1 + 2 * z
<1>1. ASSUME NEW x \in Item, z \in Ancestors(above, x) PROVE FALSE
  <2>1. z \in Path(x) /\ x # z
    <3>1. z < x /\ z \in Nat
      BY <1>1, AncestorsBefore, Items
    <3> QED
      BY <1>1, <3>1 DEF Path
  <2>2. PICK y \in Path(x) : above[y] = z /\ above[y] > 0
    BY <2>1, ChildOnPath
  <2>3. y \in Item
    BY <2>2, PathHas
  <2> QED
    BY <2>2, <2>3 DEF TraceSound
<1>2. Below(z) = {z}
  BY <1>1 DEF Below
<1> QED
  BY <1>2, InOrder

(* The items along a path are of one kind and lie at one place. *)
LEMMA PathAlike ==
    ASSUME TraceSound, NEW z \in Item, NEW x \in Path(z)
    PROVE  kindOf[x] = kindOf[z] /\ PlaceOf(x) = PlaceOf(z)
<1> DEFINE S == {y \in Item : \A w \in Path(y) : kindOf[w] = kindOf[y] /\ PlaceOf(w) = PlaceOf(y)}
<1>1. ASSUME NEW y \in Item, above[y] < 0 PROVE y \in S
  BY <1>1, PathOfRoot
<1>2. ASSUME NEW y \in Item, above[y] > 0, above[y] \in S PROVE y \in S
  <2>1. \A w \in Path(above[y]) : kindOf[w] = kindOf[above[y]] /\ PlaceOf(w) = PlaceOf(above[y])
    BY <1>2
  <2>2. /\ Path(y) = {y} \cup Path(above[y])
        /\ PlaceOf(y) = PlaceOf(above[y]) /\ kindOf[above[y]] = kindOf[y]
    BY <1>2, PathOfChild
  <2> QED
    BY <2>1, <2>2
<1> HIDE DEF S
<1>3. Item \subseteq S
  BY <1>1, <1>2, Downward
<1> QED
  BY <1>3 DEF S

LEMMA BelowAlike ==
    ASSUME TraceSound, NEW z \in Item, NEW x \in Below(z)
    PROVE  x \in Item /\ kindOf[x] = kindOf[z] /\ PlaceOf(x) = PlaceOf(z)
<1>1. x \in Item /\ z \in Path(x)
  BY DEF Below, Path
<1> QED
  BY <1>1, PathAlike

(* The last zone of a thread lies on the last of its timeline, since zones *)
(* end before the next one begins.                                         *)
LEMMA LastOnTimeline ==
    ASSUME TraceSound, TraceShaped, NEW t, Own("cpu-zone", t) # {}
    PROVE  /\ Timeline("cpu-zone", t) # {}
           /\ \A z \in Own("cpu-zone", t) : Min(Timeline("cpu-zone", t)) <= z
           /\ Max(Own("cpu-zone", t)) \in Below(Max(Timeline("cpu-zone", t)))
<1> DEFINE S == Own("cpu-zone", t)
           T == Timeline("cpu-zone", t)
<1>1. /\ S \subseteq Item /\ (\A z \in S : kindOf[z] = "cpu-zone" /\ PlaceOf(z) = t)
      /\ \A z \in Item : kindOf[z] = "cpu-zone" /\ PlaceOf(z) = t => z \in S
      /\ T \subseteq S /\ (\A z \in T : above[z] < 0) /\ \A z \in S : above[z] < 0 => z \in T
      /\ S # {}
  BY DEF Own, Timeline
<1>2. ASSUME NEW z \in S PROVE \E x \in Path(z) : x \in T /\ x <= z
  <2>1. PICK x \in Path(z) : above[x] < 0
    BY <1>1, PathTop
  <2>2. x \in Item /\ x <= z /\ kindOf[x] = kindOf[z] /\ PlaceOf(x) = PlaceOf(z)
    BY <1>1, PathHas, PathAlike
  <2> QED
    BY <1>1, <2>1, <2>2
<1> HIDE DEF S, T
<1>3. T # {}
  BY <1>1, <1>2
<1>4. /\ Min(T) \in T /\ Max(T) \in T /\ \A y \in T : Min(T) <= y /\ y <= Max(T)
      /\ Max(S) \in S /\ \A y \in S : y <= Max(S)
  BY <1>1, <1>3, ItemEnds
<1>5. \A z \in Item : z \in Nat
  BY Items
<1>6. ASSUME NEW z \in S PROVE Min(T) <= z
  <2>1. PICK x \in Path(z) : x \in T /\ x <= z
    BY <1>2
  <2>2. Min(T) <= x /\ Min(T) \in Nat /\ x \in Nat /\ z \in Nat
    BY <1>1, <1>4, <1>5, <2>1
  <2> QED
    BY <2>1, <2>2
<1>7. PICK p, m : p = Max(T) /\ m = Max(S)
  OBVIOUS
<1>8. /\ p \in T /\ p \in S /\ m \in S /\ p \in Item /\ m \in Item /\ p \in Nat /\ m \in Nat
      /\ p <= m /\ above[p] < 0
  BY <1>1, <1>4, <1>5, <1>7
<1>9. p \in Path(m)
  <2> SUFFICES ASSUME p \notin Path(m) PROVE FALSE
    OBVIOUS
  <2> DEFINE U == {x \in Path(m) : x > p}
  <2>1. m \in Path(m) /\ Path(m) \subseteq Item
    BY <1>8, PathHas
  <2>2. m \in U
    BY <1>8, <2>1
  <2>3. U \subseteq Item /\ U # {}
    BY <2>1, <2>2
  <2>4. PICK x : x = Min(U)
    OBVIOUS
  <2>5. x \in U /\ \A y \in U : x <= y
    BY <2>3, <2>4, ItemEnds
  <2>6. x \in Item /\ x \in Path(m) /\ x > p /\ x \in Nat
    BY <1>5, <2>1, <2>5
  <2>7. kindOf[x] = "cpu-zone" /\ PlaceOf(x) = t
    BY <1>1, <1>8, <2>6, PathAlike
  <2>8. x \in S
    BY <1>1, <2>6, <2>7
  <2>9. ~(above[x] < 0)
    <3> SUFFICES ASSUME above[x] < 0 PROVE FALSE
      OBVIOUS
    <3>1. x \in T
      BY <1>1, <2>8
    <3>2. x <= p
      BY <1>4, <1>7, <3>1
    <3> QED
      BY <1>8, <2>6, <3>2
  <2>10. above[x] \in Item /\ above[x] > 0
    BY <2>6, <2>9, AboveOrOut
  <2>11. above[x] \in Path(m) /\ above[x] < x /\ above[x] \in Nat
    BY <1>5, <1>8, <2>6, <2>10, PathHas DEF TraceSound
  <2>12. above[x] < p
    <3>1. ~(above[x] > p)
      <4> SUFFICES ASSUME above[x] > p PROVE FALSE
        OBVIOUS
      <4>1. x <= above[x]
        BY <2>5, <2>11
      <4> QED
        BY <2>6, <2>11, <4>1
    <3>2. above[x] # p
      BY <2>11
    <3> QED
      BY <1>8, <2>11, <3>1, <3>2
  <2>13. p \in above[x] + 1 .. x - 1
    BY <1>8, <2>6, <2>11, <2>12
  <2>14. above[x] \in Ancestors(above, p)
    BY <1>1, <1>8, <2>6, <2>7, <2>10, <2>13 DEF TraceShaped
  <2>15. Ancestors(above, p) = {}
    BY <1>8, NoneAbove
  <2> QED
    BY <2>14, <2>15
<1>10. m \in Below(p)
  BY <1>8, <1>9 DEF Below, Path
<1> QED
  BY <1>3, <1>6, <1>7, <1>10 DEF S, T

LEMMA Within ==
    ASSUME NEW A, NEW B \in SUBSET Times, A \subseteq B
    PROVE  Bounds(B, A)
<1>1. \A b \in B : b \in Int
  BY Items DEF Times, LastTime
<1>2. \A b \in Int : b <= b
  OBVIOUS
<1> QED
  BY <1>1, <1>2 DEF Bounds

LEMMA TimesOfItems ==
    ASSUME TraceShaped, NEW S, S \subseteq Item
    PROVE  Starts(S) \in SUBSET Times /\ Ends(S) \in SUBSET Times /\ {FreeOf(z) : z \in S} \in SUBSET Times
  BY ItemTimes DEF Starts, Ends

(* The first and the last of points in time, of items without any below    *)
(* them, and of the zones of a timeline.                                   *)
LEMMA PointEnds ==
    ASSUME TraceShaped, shift = 0, NEW S, S \subseteq Item, S # {}
    PROVE  /\ Alongside({StartOf(Min(S)), StartOf(Max(S))}, Starts(S))
           /\ StartOf(Min(S)) \in Times /\ StartOf(Max(S)) \in Times
           /\ StartOf(Min(S)) <= StartOf(Max(S))
<1>1. /\ Min(S) \in S /\ Max(S) \in S
      /\ \A y \in S : Min(S) <= y /\ y <= Max(S)
  BY ItemEnds
<1>2. \A y \in S : StartOf(y) = 2 * y /\ y \in Nat /\ StartOf(y) \in Times
  BY InOrder, ItemTimes, Items
<1>3. \A y \in S : StartOf(Min(S)) <= StartOf(y) /\ StartOf(y) <= StartOf(Max(S))
  BY <1>1, <1>2
<1>4. Bounds({StartOf(Min(S)), StartOf(Max(S))}, Starts(S))
  BY <1>3 DEF Bounds, Starts
<1>5. Bounds(Starts(S), {StartOf(Min(S)), StartOf(Max(S))})
  <2>1. {StartOf(Min(S)), StartOf(Max(S))} \subseteq Starts(S)
    BY <1>1 DEF Starts
  <2> QED
    BY <2>1, TimesOfItems, Within
<1> QED
  BY <1>1, <1>2, <1>3, <1>4, <1>5 DEF Alongside

LEMMA LeafSpan ==
    ASSUME TraceSound, TraceShaped, shift = 0, NEW S, S \subseteq Item, S # {},
           \A z \in S : kindOf[z] \notin Nested
    PROVE  /\ Alongside({StartOf(Min(S)), EndOf(Max(S))}, Starts(S) \cup Ends(S))
           /\ StartOf(Min(S)) \in Times /\ EndOf(Max(S)) \in Times
           /\ StartOf(Min(S)) <= EndOf(Max(S))
           /\ \A z \in S : StartOf(z) <= EndOf(Max(S))
<1>1. /\ Min(S) \in S /\ Max(S) \in S
      /\ \A y \in S : Min(S) <= y /\ y <= Max(S)
  BY ItemEnds
<1>2. \A y \in S : /\ StartOf(y) = 2 * y /\ EndOf(y) = 1 + 2 * y /\ y \in Nat
                   /\ StartOf(y) \in Times /\ EndOf(y) \in Times
  BY InOrder, LeafEnds, ItemTimes, Items
<1>3. \A y \in S : /\ StartOf(Min(S)) <= StartOf(y) /\ StartOf(y) <= EndOf(Max(S))
                   /\ StartOf(Min(S)) <= EndOf(y) /\ EndOf(y) <= EndOf(Max(S))
  BY <1>1, <1>2
<1>4. Bounds({StartOf(Min(S)), EndOf(Max(S))}, Starts(S) \cup Ends(S))
  BY <1>3 DEF Bounds, Starts, Ends
<1>5. Bounds(Starts(S) \cup Ends(S), {StartOf(Min(S)), EndOf(Max(S))})
  <2>1. {StartOf(Min(S)), EndOf(Max(S))} \subseteq Starts(S) \cup Ends(S)
    BY <1>1 DEF Starts, Ends
  <2> QED
    BY <2>1, TimesOfItems, Within
<1> QED
  BY <1>1, <1>2, <1>3, <1>4, <1>5 DEF Alongside

LEMMA TimelineSpan ==
    ASSUME TraceSound, TraceShaped, shift = 0, NEW t, Own("cpu-zone", t) # {},
           NEW S, S = Own("cpu-zone", t), NEW T, T = Timeline("cpu-zone", t)
    PROVE  /\ Alongside({StartOf(Min(T)), EndOf(Max(T))}, Starts(S) \cup Ends(S))
           /\ StartOf(Min(T)) \in Times /\ EndOf(Max(T)) \in Times
<1>1. /\ T # {} /\ (\A z \in S : Min(T) <= z) /\ Max(S) \in Below(Max(T))
  BY LastOnTimeline
<1>2. T \subseteq S /\ S \subseteq Item
  BY DEF Own, Timeline
<1>3. Min(T) \in T /\ Max(T) \in T /\ Max(S) \in S /\ \A y \in S : y <= Max(S)
  BY <1>1, <1>2, ItemEnds
<1>4. ASSUME NEW y \in S
      PROVE  /\ StartOf(y) = 2 * y /\ StartOf(y) \in Times /\ EndOf(y) \in Times /\ y \in Nat
             /\ \E x \in S : EndOf(y) = 1 + 2 * x
  <2>1. StartOf(y) = 2 * y /\ StartOf(y) \in Times /\ EndOf(y) \in Times /\ y \in Nat
    BY <1>2, InOrder, ItemTimes, Items
  <2>2. PICK x \in Below(y) : EndOf(y) = 1 + 2 * x
    BY <1>2, InOrder
  <2>3. x \in S
    BY <1>2, BelowAlike DEF Own
  <2> QED
    BY <2>1, <2>2, <2>3
<1>5. 1 + 2 * Max(S) <= EndOf(Max(T)) /\ EndOf(Max(T)) \in Nat
  BY <1>1, <1>2, <1>3, InOrder
<1>6. PICK a, c, m : a = StartOf(Min(T)) /\ c = EndOf(Max(T)) /\ m = Max(S)
  OBVIOUS
<1>7. m \in Nat /\ (\A y \in S : y <= m) /\ 1 + 2 * m <= c /\ c \in Nat
  BY <1>3, <1>4, <1>5, <1>6
<1>8. Min(T) \in Nat /\ a = 2 * Min(T)
  BY <1>2, <1>3, <1>4, <1>6
<1>9. ASSUME NEW y \in S PROVE a <= StartOf(y) /\ StartOf(y) <= c /\ a <= EndOf(y) /\ EndOf(y) <= c
  <2>1. StartOf(y) = 2 * y /\ y \in Nat /\ Min(T) <= y /\ y <= m
    BY <1>1, <1>4, <1>7
  <2>2. PICK x \in S : EndOf(y) = 1 + 2 * x
    BY <1>4
  <2>3. x \in Nat /\ Min(T) <= x /\ x <= m
    BY <1>1, <1>4, <1>7
  <2> QED
    BY <1>7, <1>8, <2>1, <2>2, <2>3
<1>10. Bounds({a, c}, Starts(S) \cup Ends(S))
  BY <1>9 DEF Bounds, Starts, Ends
<1>11. Bounds(Starts(S) \cup Ends(S), {a, c})
  <2>1. {a, c} \subseteq Starts(S) \cup Ends(S)
    BY <1>2, <1>3, <1>6 DEF Starts, Ends
  <2> QED
    BY <1>2, <2>1, TimesOfItems, Within
<1> QED
  BY <1>2, <1>3, <1>4, <1>6, <1>10, <1>11 DEF Alongside

-----------------------------------------------------------------------------
(* The items and the times of a source *)

LEMMA ItemsAre ==
    ASSUME TraceSound, NEW n
    PROVE  /\ \A k \in Kinds \ {"cpu-usage", "crash", "hardware-sample", "frame-image"} :
                 ItemsOf(k, n) = Own(k, n)
           /\ ItemsOf("frame-image", n) = Own("frame", n) \cap marked
           /\ n \in {1, 2} => ItemsOf("hardware-sample", n) = AllSamples(n)
           /\ ItemsOf("crash", 0) = {z \in Item : kindOf[z] = "crash"}
<1>1. \A k \in Kinds \ {"cpu-usage", "crash", "hardware-sample", "frame-image"} : ItemsOf(k, n) = Own(k, n)
  BY DEF ItemsOf, Own, PlaceNumber, Holding
<1>2. ItemsOf("frame-image", n) = Own("frame", n) \cap marked
  BY DEF ItemsOf, Own, PlaceNumber, Holding
<1>3. ASSUME n \in {1, 2} PROVE ItemsOf("hardware-sample", n) = AllSamples(n)
  <2>1. \A z : z \in ItemsOf("hardware-sample", n) <=>
                  z \in Item /\ kindOf[z] = "hardware-sample" /\ (z \in marked <=> n = 2)
    BY <1>3 DEF ItemsOf, PlaceNumber, Holding
  <2>2. \A z : z \in AllSamples(n) <=>
                  \E p \in 1 .. Places : z \in Item /\ kindOf[z] = "hardware-sample" /\ PlaceOf(z) = p
                                         /\ (z \in marked <=> n = 2)
    BY DEF AllSamples, CounterSamples, Own
  <2> QED
    BY <2>1, <2>2, PlaceThere
<1>4. ItemsOf("crash", 0) = {z \in Item : kindOf[z] = "crash"}
  BY DEF ItemsOf, PlaceNumber, Holding
<1> QED
  BY <1>1, <1>2, <1>3, <1>4

LEMMA TimesAre ==
    ASSUME IInv, WInv, Over, NEW k \in Kinds, NEW n, NEW S, S = ItemsOf(k, n)
    PROVE  /\ S \subseteq Item /\ TimesOf(k, n) \in SUBSET Times
           /\ k \in Interval /\ (\A z \in S : ~IsOpen(z)) => TimesOf(k, n) = Starts(S) \cup Ends(S)
           /\ k \notin Interval /\ k # "memory" => TimesOf(k, n) = Starts(S)
           /\ k = "memory" => TimesOf(k, n) = Starts(S) \cup {FreeOf(z) : z \in S \cap marked}
<1>1. TimesOf(k, n) = Starts(S) \cup IF k = "memory" THEN {FreeOf(z) : z \in S \cap marked}
                                     ELSE {EndFor(k, z) : z \in S}
  BY TimesTold
<1>2. S \subseteq Item
  BY DEF ItemsOf
<1>3. k \in Interval /\ (\A z \in S : ~IsOpen(z)) =>
         k # "memory" /\ {EndFor(k, z) : z \in S} = Ends(S)
  BY DEF EndFor, Ends, Interval, Nested, Scheduled
<1>4. k \notin Interval => {EndFor(k, z) : z \in S} = Starts(S)
  BY DEF EndFor, Starts
<1>5. TimesOf(k, n) \in SUBSET Times
  <2>1. TraceShaped
    BY DEF WInv
  <2>2. \A z \in S : StartOf(z) \in Times /\ EndOf(z) \in Times /\ FreeOf(z) \in Times /\ EndFor(k, z) \in Times
    BY <1>2, <2>1, ItemTimes DEF EndFor
  <2> QED
    BY <1>1, <2>2 DEF Starts
<1> QED
  BY <1>1, <1>2, <1>3, <1>4, <1>5

LEMMA NoShift ==
    ASSUME TraceShaped, NEW S, S \subseteq Item, S # {}, NEW k, k # "gpu-zone",
           \A z \in S : kindOf[z] = k
    PROVE  shift = 0
  BY DEF TraceShaped

LEMMA ThreadSpan ==
    ASSUME IInv, WInv, Over, NEW k \in ThreadKind, NEW t,
           Own(k, t) # {}, \A z \in Own(k, t) : ~IsOpen(z)
    PROVE  ThreadTimes(k, t) \in SUBSET Times /\ Alongside(ThreadTimes(k, t), TimesOf(k, t))
<1> DEFINE S == Own(k, t)
<1>1. TraceSound /\ TraceShaped /\ k \in Kinds
  BY DEF IInv, WInv, Kinds, Stored
<1>2. S \subseteq Item /\ S = ItemsOf(k, t) /\ \A z \in S : kindOf[z] = k
  <2>1. S = ItemsOf(k, t)
    BY <1>1, ItemsAre DEF ThreadKind
  <2> QED
    BY <2>1 DEF Own
<1>3. /\ TimesOf(k, t) \in SUBSET Times
      /\ k \in Interval => TimesOf(k, t) = Starts(S) \cup Ends(S)
      /\ k \notin Interval => TimesOf(k, t) = Starts(S)
  BY <1>1, <1>2, TimesAre DEF ThreadKind
<1>4. shift = 0
  BY <1>1, <1>2, NoShift DEF ThreadKind
<1>5. CASE k = "message"
  <2>1. ThreadTimes(k, t) = {StartOf(Min(S)), StartOf(Max(S))}
    BY <1>5 DEF ThreadTimes, Starts
  <2>2. TimesOf(k, t) = Starts(S)
    BY <1>3, <1>5 DEF Interval, Nested, Scheduled
  <2> QED
    BY <1>1, <1>2, <1>4, <2>1, <2>2, PointEnds
<1>6. CASE k = "ghost-zone"
  <2>1. ThreadTimes(k, t) = Starts(S) \cup Ends(S)
    BY <1>6 DEF ThreadTimes
  <2>2. TimesOf(k, t) = ThreadTimes(k, t)
    BY <1>3, <1>6, <2>1 DEF Interval, Nested
  <2> QED
    BY <1>3, <2>2, Within DEF Alongside
<1>7. CASE k = "context-switch"
  <2>1. Max(S) \in S
    BY <1>2, ItemEnds
  <2>2. ThreadTimes(k, t) = {StartOf(Min(S)), EndOf(Max(S))}
    BY <1>7, <2>1 DEF ThreadTimes, RawEnd
  <2>3. TimesOf(k, t) = Starts(S) \cup Ends(S)
    BY <1>3, <1>7 DEF Interval, Scheduled
  <2>4. \A z \in S : kindOf[z] \notin Nested
    BY <1>2, <1>7 DEF Nested
  <2> QED
    BY <1>1, <1>2, <1>4, <2>2, <2>3, <2>4, LeafSpan
<1>8. CASE k = "cpu-zone"
  <2>1. ThreadTimes(k, t) = {StartOf(Min(Timeline(k, t))), EndOf(Max(Timeline(k, t)))}
    BY <1>8 DEF ThreadTimes
  <2>2. TimesOf(k, t) = Starts(S) \cup Ends(S)
    BY <1>3, <1>8 DEF Interval, Nested
  <2> QED
    BY <1>1, <1>4, <1>8, <2>1, <2>2, TimelineSpan
<1>9. CASE k = "sample"
  <2>1. ThreadTimes(k, t) = UNION {Starts({Min(V), Max(V)}) : V \in Apart(S)}
    BY <1>9 DEF ThreadTimes
  <2>2. TimesOf(k, t) = Starts(S)
    BY <1>3, <1>9 DEF Interval, Nested, Scheduled
  <2>3. ASSUME NEW V \in Apart(S)
        PROVE  /\ V \subseteq S /\ V # {}
               /\ Alongside({StartOf(Min(V)), StartOf(Max(V))}, Starts(V))
               /\ Starts({Min(V), Max(V)}) = {StartOf(Min(V)), StartOf(Max(V))}
               /\ Min(V) \in V /\ Max(V) \in V
    <3>1. V \subseteq S /\ V # {} /\ V \subseteq Item
      BY <1>2 DEF Apart
    <3> QED
      BY <1>1, <1>4, <3>1, PointEnds, ItemEnds DEF Starts
  <2>4. \A z \in S : \E V \in Apart(S) : z \in V
    BY DEF Apart
  <2> HIDE DEF S
  <2>5. ThreadTimes(k, t) \subseteq Starts(S)
    <3> SUFFICES ASSUME NEW V \in Apart(S) PROVE Starts({Min(V), Max(V)}) \subseteq Starts(S)
      BY <2>1
    <3>1. Min(V) \in S /\ Max(V) \in S
      BY <2>3
    <3> QED
      BY <3>1 DEF Starts
  <2>6. Bounds(ThreadTimes(k, t), Starts(S))
    <3> SUFFICES ASSUME NEW z \in S
                 PROVE  \E a, c \in ThreadTimes(k, t) : a <= StartOf(z) /\ StartOf(z) <= c
      BY DEF Bounds, Starts
    <3>1. PICK V \in Apart(S) : z \in V
      BY <2>4
    <3>2. \E a, c \in {StartOf(Min(V)), StartOf(Max(V))} : a <= StartOf(z) /\ StartOf(z) <= c
      BY <2>3, <3>1 DEF Alongside, Bounds, Starts
    <3>3. {StartOf(Min(V)), StartOf(Max(V))} \subseteq ThreadTimes(k, t)
      BY <2>1, <2>3, <3>1
    <3> QED
      BY <3>2, <3>3
  <2>7. Starts(S) \in SUBSET Times
    BY <1>3, <2>2
  <2> QED
    BY <2>2, <2>5, <2>6, <2>7, Within DEF Alongside
<1> QED
  BY <1>5, <1>6, <1>7, <1>8, <1>9 DEF ThreadKind

-----------------------------------------------------------------------------
(* What is said of a source *)

(* A source that is of one type, and says of its kinds what there is. *)
Describes(s, type, n) ==
    /\ s.id = <<type, n>>
    /\ KindsOfSource(s) \subseteq Kinds /\ \A k \in KindsOfSource(s) : SourceType(k) = type
    /\ \A k \in KindsOfSource(s) : s.counts[k] = Cardinality(Of(k, n))
    /\ (\A k \in KindsOfSource(s) : \A z \in ItemsOf(k, n) : ~IsOpen(z)) =>
          s.range = Spanning(UNION {TimesOf(k, n) : k \in KindsOfSource(s)})

LEMMA DescribesRecords ==
    ASSUME IInv, WInv, Over, NEW s, NEW type, NEW n, Describes(s, type, n),
           NEW mine, mine = RecordsOf(s)
    PROVE  /\ \A k \in KindsOfSource(s) : s.counts[k] = Cardinality({r \in mine : r.kind = k})
           /\ (\A r \in mine : ~IsOpen(r.item)) =>
                 s.range = Spanning({r.start : r \in mine} \cup {r.end : r \in mine})
<1> DEFINE K == KindsOfSource(s)
<1>1. \A k \in K : k \in Kinds /\ SourceType(k) = type
  BY DEF Describes
<1>2. mine = {r \in Presented : r.source = <<type, n>> /\ r.kind \in K}
  BY DEF RecordsOf, Describes
<1> HIDE DEF K
<1>3. \A k \in K : {r \in mine : r.kind = k} = Of(k, n)
  BY <1>1, <1>2 DEF Of
<1>4. \A r \in mine : r.kind \in K /\ r \in Of(r.kind, n)
  BY <1>1, <1>2 DEF Of
<1>5. \A k \in K : \A r \in Of(k, n) : r \in mine
  BY <1>3
<1>6. {r.start : r \in mine} \cup {r.end : r \in mine} = UNION {TimesOf(k, n) : k \in K}
  BY <1>4, <1>5 DEF TimesOf
<1>7. ASSUME \A r \in mine : ~IsOpen(r.item), NEW k \in K, NEW z \in ItemsOf(k, n)
      PROVE  ~IsOpen(z)
  <2>1. k \in Kinds
    BY <1>1
  <2>2. \A y \in ItemsOf(k, n) :
           /\ \E r \in Of(k, n) : r.item = y /\ r.release = FALSE
           /\ k = "memory" /\ y \in marked => \E r \in Of(k, n) : r.item = y /\ r.release = TRUE
    BY <2>1, OfItems
  <2>3. PICK r \in Of(k, n) : r.item = z
    BY <2>2
  <2> QED
    BY <1>5, <1>7, <2>3
<1>8. \A k \in K : s.counts[k] = Cardinality({r \in mine : r.kind = k})
  BY <1>3 DEF Describes, K
<1>9. ASSUME \A r \in mine : ~IsOpen(r.item)
      PROVE  s.range = Spanning({r.start : r \in mine} \cup {r.end : r \in mine})
  BY <1>6, <1>7, <1>9 DEF Describes, K
<1> QED
  BY <1>8, <1>9 DEF K

LEMMA OneKind ==
    ASSUME IInv, WInv, Over, NEW k \in Kinds, NEW n, NEW range,
           NEW count, count = Cardinality(Of(k, n)),
           (\A z \in ItemsOf(k, n) : ~IsOpen(z)) => range = Spanning(TimesOf(k, n)),
           NEW type, type = SourceType(k)
    PROVE  Describes(Source(type, n, Count(k, count), range), type, n)
<1> DEFINE s == Source(type, n, Count(k, count), range)
<1>1. /\ s.id = <<type, n>> /\ s.range = range
      /\ KindsOfSource(s) = {k} /\ s.counts[k] = count
  BY DEF Source, Count, KindsOfSource
<1> HIDE DEF s
<1>2. UNION {TimesOf(j, n) : j \in {k}} = TimesOf(k, n)
  OBVIOUS
<1>3. Describes(s, type, n)
  BY <1>1, <1>2 DEF Describes
<1> QED
  BY <1>3 DEF s

LEMMA FrontToBackSpans ==
    ASSUME NEW S, NEW last, NEW B \in SUBSET Times, S = {} => B = {},
           S # {} => /\ Alongside({StartOf(Min(S)), last}, B)
                     /\ StartOf(Min(S)) \in Times /\ last \in Times /\ StartOf(Min(S)) <= last
    PROVE  FrontToBack(S, last) = Spanning(B)
<1>1. CASE S = {}
  BY <1>1 DEF FrontToBack, Spanning
<1>2. CASE S # {}
  <2>1. PICK first : first = StartOf(Min(S))
    OBVIOUS
  <2>2. first \in Int /\ last \in Int
    BY <1>2, <2>1, Items DEF Times, LastTime
  <2>3. Spanning({first, last}) = [first |-> first, last |-> last]
    BY <1>2, <2>1, <2>2, SpanOfTwo
  <2>4. Spanning({first, last}) = Spanning(B)
    BY <1>2, <2>1, SameSpan
  <2> QED
    BY <1>2, <2>1, <2>3, <2>4 DEF FrontToBack
<1> QED
  BY <1>1, <1>2

(* Points in time and intervals, whose vectors are in order. *)
LEMMA PointsDescribed ==
    ASSUME IInv, WInv, Over, NEW k \in {"plot", "lock"}, NEW p
    PROVE  Describes(Source(k, p, Count(k, Size(k, p)),
                            FrontToBack(Own(k, p), StartOf(Back(k, p)))), k, p)
<1>1. k \in Kinds /\ SourceType(k) = k /\ k \notin Interval /\ k # "memory"
  BY DEF Kinds, Stored, SourceType, ThreadKind, Interval, Nested, Scheduled
<1>2. PICK S : S = Own(k, p)
  OBVIOUS
<1>3. S = ItemsOf(k, p) /\ S \subseteq Item /\ \A z \in S : kindOf[z] = k
  BY <1>1, <1>2, ItemsAre DEF IInv, Own
<1>4. TimesOf(k, p) = Starts(S) /\ TimesOf(k, p) \in SUBSET Times
  BY <1>1, <1>3, TimesAre
<1>5. Size(k, p) = Cardinality(Of(k, p))
  BY <1>1, <1>2, <1>3, OfCounted DEF Size
<1>6. FrontToBack(S, StartOf(Max(S))) = Spanning(TimesOf(k, p))
  <2>1. S = {} => TimesOf(k, p) = {}
    BY <1>4 DEF Starts
  <2>2. ASSUME S # {}
        PROVE  /\ Alongside({StartOf(Min(S)), StartOf(Max(S))}, TimesOf(k, p))
               /\ StartOf(Min(S)) \in Times /\ StartOf(Max(S)) \in Times
               /\ StartOf(Min(S)) <= StartOf(Max(S))
    <3>1. TraceShaped /\ shift = 0
      BY <1>3, <2>2, NoShift DEF WInv
    <3> QED
      BY <1>3, <1>4, <2>2, <3>1, PointEnds
  <2> QED
    BY <1>4, <2>1, <2>2, FrontToBackSpans
<1> QED
  BY <1>1, <1>2, <1>5, <1>6, OneKind DEF Back

LEMMA CpuDescribed ==
    ASSUME IInv, WInv, Over, NEW p
    PROVE  Describes(Source("cpu", p, Count("cpu-slice", Size("cpu-slice", p)),
                            FrontToBack(Own("cpu-slice", p), RawEnd(Back("cpu-slice", p)))), "cpu", p)
<1> DEFINE k == "cpu-slice"
<1>1. k \in Kinds /\ SourceType(k) = "cpu" /\ k \in Interval /\ k # "memory" /\ k \notin Nested
  BY DEF Kinds, Stored, SourceType, ThreadKind, Interval, Nested, Scheduled
<1>2. PICK S : S = Own(k, p)
  OBVIOUS
<1>3. S = ItemsOf(k, p) /\ S \subseteq Item /\ \A z \in S : kindOf[z] = k
  BY <1>1, <1>2, ItemsAre DEF IInv, Own
<1>4. Size(k, p) = Cardinality(Of(k, p))
  BY <1>1, <1>2, <1>3, OfCounted DEF Size
<1>5. ASSUME \A z \in S : ~IsOpen(z)
      PROVE  FrontToBack(S, RawEnd(Max(S))) = Spanning(TimesOf(k, p))
  <2>1. TimesOf(k, p) = Starts(S) \cup Ends(S) /\ TimesOf(k, p) \in SUBSET Times
    BY <1>1, <1>3, <1>5, TimesAre
  <2>2. S = {} => TimesOf(k, p) = {}
    BY <2>1 DEF Starts, Ends
  <2>3. ASSUME S # {}
        PROVE  /\ Alongside({StartOf(Min(S)), RawEnd(Max(S))}, TimesOf(k, p))
               /\ StartOf(Min(S)) \in Times /\ RawEnd(Max(S)) \in Times
               /\ StartOf(Min(S)) <= RawEnd(Max(S))
    <3>1. TraceShaped /\ shift = 0 /\ TraceSound
      BY <1>3, <2>3, NoShift DEF WInv, IInv
    <3>2. RawEnd(Max(S)) = EndOf(Max(S))
      BY <1>3, <1>5, <2>3, ItemEnds DEF RawEnd
    <3>3. \A z \in S : kindOf[z] \notin Nested
      BY <1>1, <1>3
    <3> QED
      BY <1>3, <2>1, <2>3, <3>1, <3>2, <3>3, LeafSpan
  <2> QED
    BY <2>1, <2>2, <2>3, FrontToBackSpans
<1> HIDE DEF k
<1>6. Describes(Source("cpu", p, Count(k, Size(k, p)), FrontToBack(S, RawEnd(Max(S)))), "cpu", p)
  BY <1>1, <1>3, <1>4, <1>5, OneKind
<1> QED
  BY <1>2, <1>6 DEF Back, k

LEMMA GpuDescribed ==
    ASSUME IInv, WInv, Over, NEW p
    PROVE  Describes(Source("gpu-thread", p, Count("gpu-zone", Size("gpu-zone", p)),
                            Spanning(GpuTimes(p))), "gpu-thread", p)
<1> DEFINE k == "gpu-zone"
<1>1. k \in Kinds /\ SourceType(k) = "gpu-thread" /\ k \in Interval /\ k # "memory"
  BY DEF Kinds, Stored, SourceType, ThreadKind, Interval, Nested
<1>2. Own(k, p) = ItemsOf(k, p) /\ \A z \in Own(k, p) : kindOf[z] = k
  BY <1>1, ItemsAre DEF IInv, Own
<1>3. Size(k, p) = Cardinality(Of(k, p))
  BY <1>1, <1>2, OfCounted DEF Size
<1>4. TimesOf(k, p) = GpuTimes(p)
  <2>1. \A z \in Own(k, p) : ~IsOpen(z)
    BY <1>2 DEF IsOpen, Scheduled
  <2> QED
    BY <1>1, <1>2, <2>1, TimesAre DEF GpuTimes
<1> HIDE DEF k
<1>5. Describes(Source("gpu-thread", p, Count(k, Size(k, p)), Spanning(GpuTimes(p))), "gpu-thread", p)
  BY <1>1, <1>3, <1>4, OneKind
<1> QED
  BY <1>5 DEF k

LEMMA MemoryDescribed ==
    ASSUME IInv, WInv, Over, NEW p
    PROVE  Describes(Source("memory-pool", p,
                            Count("memory", Size("memory", p) + Cardinality(Own("memory", p) \cap marked)),
                            Spanning(MemoryTimes(p))), "memory-pool", p)
<1> DEFINE k == "memory"
           count == Size(k, p) + Cardinality(Own(k, p) \cap marked)
<1>1. k \in Kinds /\ SourceType(k) = "memory-pool"
  BY DEF Kinds, Stored, SourceType, ThreadKind
<1>2. Own(k, p) = ItemsOf(k, p)
  BY <1>1, ItemsAre DEF IInv
<1>3. count = Cardinality(Of(k, p))
  BY <1>1, <1>2, OfCounted DEF Size
<1>4. TimesOf(k, p) = MemoryTimes(p)
  BY <1>1, <1>2, TimesAre DEF MemoryTimes
<1> HIDE DEF k, count
<1>5. Describes(Source("memory-pool", p, Count(k, count), Spanning(MemoryTimes(p))), "memory-pool", p)
  BY <1>1, <1>3, <1>4, OneKind
<1> QED
  BY <1>5 DEF k, count

LEMMA CounterDescribed ==
    ASSUME IInv, WInv, Over, NEW c \in {1, 2}
    PROVE  Describes(Source("hardware-counter", c, Count("hardware-sample", Cardinality(AllSamples(c))),
                            Spanning(CounterTimes(c))), "hardware-counter", c)
<1> DEFINE k == "hardware-sample"
<1>1. /\ k \in Kinds /\ SourceType(k) = "hardware-counter" /\ k \notin Interval /\ k # "memory"
      /\ TraceSound /\ TraceShaped
  BY DEF Kinds, Stored, SourceType, ThreadKind, Interval, Nested, Scheduled, IInv, WInv
<1>2. PICK S : S = AllSamples(c)
  OBVIOUS
<1>3. S = ItemsOf(k, c) /\ S \subseteq Item /\ \A z \in S : kindOf[z] = k
  <2>1. S = ItemsOf(k, c)
    BY <1>1, <1>2, ItemsAre
  <2> QED
    BY <2>1 DEF ItemsOf, Holding
<1>4. Cardinality(S) = Cardinality(Of(k, c))
  BY <1>1, <1>3, OfCounted
<1>5. TimesOf(k, c) = Starts(S) /\ TimesOf(k, c) \in SUBSET Times
  BY <1>1, <1>3, TimesAre
<1>6. PICK VS : VS = {CounterSamples(c, p) : p \in 1 .. Places} \ {{}}
  OBVIOUS
<1>7. UNION VS = S /\ \A V \in VS : V # {} /\ V \subseteq S
  BY <1>2, <1>6 DEF AllSamples
<1>8. CounterTimes(c) = UNION {Starts({Min(V), Max(V)}) : V \in VS}
  BY <1>6 DEF CounterTimes
<1>9. ASSUME NEW V \in VS
      PROVE  /\ Alongside({StartOf(Min(V)), StartOf(Max(V))}, Starts(V))
             /\ Starts({Min(V), Max(V)}) = {StartOf(Min(V)), StartOf(Max(V))}
             /\ Min(V) \in S /\ Max(V) \in S
  <2>1. V # {} /\ V \subseteq S /\ V \subseteq Item
    BY <1>3, <1>7
  <2>2. shift = 0
    BY <1>1, <1>3, <2>1, NoShift
  <2>3. Alongside({StartOf(Min(V)), StartOf(Max(V))}, Starts(V))
    BY <1>1, <2>1, <2>2, PointEnds
  <2>4. Min(V) \in S /\ Max(V) \in S
    BY <2>1, ItemEnds
  <2> QED
    BY <2>3, <2>4 DEF Starts
<1>10. CounterTimes(c) \subseteq Starts(S)
  <2> SUFFICES ASSUME NEW V \in VS PROVE Starts({Min(V), Max(V)}) \subseteq Starts(S)
    BY <1>8
  <2> QED
    BY <1>9 DEF Starts
<1>11. Bounds(CounterTimes(c), Starts(S))
  <2> SUFFICES ASSUME NEW z \in S
               PROVE  \E a, b \in CounterTimes(c) : a <= StartOf(z) /\ StartOf(z) <= b
    BY DEF Bounds, Starts
  <2>1. PICK V \in VS : z \in V
    BY <1>7
  <2>2. \E a, b \in {StartOf(Min(V)), StartOf(Max(V))} : a <= StartOf(z) /\ StartOf(z) <= b
    BY <1>9, <2>1 DEF Alongside, Bounds, Starts
  <2>3. {StartOf(Min(V)), StartOf(Max(V))} \subseteq CounterTimes(c)
    BY <1>8, <1>9, <2>1
  <2> QED
    BY <2>2, <2>3
<1>12. Spanning(CounterTimes(c)) = Spanning(TimesOf(k, c))
  BY <1>5, <1>10, <1>11, Within, SameSpan DEF Alongside
<1> HIDE DEF k
<1>13. Describes(Source("hardware-counter", c, Count(k, Cardinality(S)), Spanning(CounterTimes(c))),
                 "hardware-counter", c)
  BY <1>1, <1>4, <1>12, OneKind
<1> QED
  BY <1>2, <1>13 DEF k

LEMMA CrashDescribed ==
    ASSUME IInv, WInv, Over, NEW z \in Item, kindOf[z] = "crash"
    PROVE  Describes(Source("capture", 0, Count("crash", 1), [first |-> StartOf(z), last |-> StartOf(z)]),
                     "capture", 0)
<1> DEFINE k == "crash"
<1>1. /\ k \in Kinds /\ SourceType(k) = "capture" /\ k \notin Interval /\ k # "memory"
      /\ TraceSound /\ TraceShaped
  BY DEF Kinds, Stored, TraceWide, SourceType, ThreadKind, Interval, Nested, Scheduled, IInv, WInv
<1>2. ItemsOf(k, 0) = {z}
  BY <1>1, ItemsAre DEF TraceShaped
<1>3. Cardinality(Of(k, 0)) = 1
  <2>1. Cardinality(Of(k, 0)) = Cardinality(ItemsOf(k, 0))
    BY <1>1, OfCounted
  <2>2. Cardinality({z}) = 1
    BY FS_Singleton
  <2> QED
    BY <1>2, <2>1, <2>2
<1>4. TimesOf(k, 0) = {StartOf(z)}
  BY <1>1, <1>2, TimesAre DEF Starts
<1>5. Spanning({StartOf(z)}) = [first |-> StartOf(z), last |-> StartOf(z)]
  <2>1. StartOf(z) \in Int
    BY <1>1, ItemTimes, Items DEF Times, LastTime
  <2>2. {StartOf(z), StartOf(z)} = {StartOf(z)} /\ StartOf(z) <= StartOf(z)
    BY <2>1
  <2> QED
    BY <2>1, <2>2, SpanOfTwo
<1> HIDE DEF k
<1>6. Describes(Source("capture", 0, Count(k, 1), [first |-> StartOf(z), last |-> StartOf(z)]), "capture", 0)
  BY <1>1, <1>3, <1>4, <1>5, OneKind
<1> QED
  BY <1>6 DEF k

LEMMA FrameDescribed ==
    ASSUME IInv, WInv, Over, NEW p, NEW S, S = Own("frame", p),
           NEW images, images = Cardinality(S \cap marked)
    PROVE  Describes(Source("frame-set", p,
                            [k \in {"frame"} \cup (IF images = 0 THEN {} ELSE {"frame-image"}) |->
                               IF k = "frame" THEN Cardinality(S) ELSE images],
                            FrontToBack(S, EndOf(Max(S)))), "frame-set", p)
<1> DEFINE K == {"frame"} \cup (IF images = 0 THEN {} ELSE {"frame-image"})
           counts == [k \in K |-> IF k = "frame" THEN Cardinality(S) ELSE images]
           s == Source("frame-set", p, counts, FrontToBack(S, EndOf(Max(S))))
<1>1. /\ \A k \in {"frame", "frame-image"} : k \in Kinds /\ SourceType(k) = "frame-set" /\ k # "memory"
      /\ "frame" \in Interval /\ "frame-image" \notin Interval
      /\ TraceSound /\ TraceShaped
  BY DEF Kinds, Stored, SourceType, ThreadKind, Interval, Nested, Scheduled, IInv, WInv
<1>2. /\ S = ItemsOf("frame", p) /\ S \cap marked = ItemsOf("frame-image", p)
      /\ S \subseteq Item /\ \A z \in S : kindOf[z] = "frame"
  <2>1. S = ItemsOf("frame", p) /\ S \cap marked = ItemsOf("frame-image", p)
    BY <1>1, ItemsAre
  <2> QED
    BY <2>1 DEF Own
<1>3. /\ Cardinality(S) = Cardinality(Of("frame", p))
      /\ images = Cardinality(Of("frame-image", p))
  BY <1>1, <1>2, OfCounted
<1>4. /\ TimesOf("frame", p) = Starts(S) \cup Ends(S) /\ TimesOf("frame", p) \in SUBSET Times
      /\ TimesOf("frame-image", p) = Starts(S \cap marked)
  <2>1. \A z \in S : ~IsOpen(z)
    BY <1>2 DEF IsOpen, Scheduled
  <2> QED
    BY <1>1, <1>2, <2>1, TimesAre
<1>5. UNION {TimesOf(k, p) : k \in K} = TimesOf("frame", p)
  <2>1. TimesOf("frame-image", p) \subseteq TimesOf("frame", p)
    BY <1>4 DEF Starts
  <2>2. \A k \in K : k = "frame" \/ k = "frame-image"
    OBVIOUS
  <2> QED
    BY <2>1, <2>2
<1>6. FrontToBack(S, EndOf(Max(S))) = Spanning(TimesOf("frame", p))
  <2>1. S = {} => TimesOf("frame", p) = {}
    BY <1>4 DEF Starts, Ends
  <2>2. ASSUME S # {}
        PROVE  /\ Alongside({StartOf(Min(S)), EndOf(Max(S))}, TimesOf("frame", p))
               /\ StartOf(Min(S)) \in Times /\ EndOf(Max(S)) \in Times
               /\ StartOf(Min(S)) <= EndOf(Max(S))
    <3>1. shift = 0
      BY <1>1, <1>2, <2>2, NoShift
    <3>2. \A z \in S : kindOf[z] \notin Nested
      BY <1>2 DEF Nested
    <3> QED
      BY <1>1, <1>2, <1>4, <2>2, <3>1, <3>2, LeafSpan
  <2> QED
    BY <1>4, <2>1, <2>2, FrontToBackSpans
<1>7. /\ s.id = <<"frame-set", p>> /\ s.range = FrontToBack(S, EndOf(Max(S)))
      /\ KindsOfSource(s) = K /\ s.counts = counts
  BY DEF Source, KindsOfSource
<1>8. \A k \in K : counts[k] = Cardinality(Of(k, p)) /\ k \in {"frame", "frame-image"}
  BY <1>3
<1> HIDE DEF s, counts, K
<1>9. Describes(s, "frame-set", p)
  BY <1>1, <1>5, <1>6, <1>7, <1>8 DEF Describes
<1> QED
  BY <1>9 DEF s, counts, K

LEMMA ThreadDescribed ==
    ASSUME IInv, WInv, Over, NEW t, NEW K, K = {x \in ThreadKind : Own(x, t) # {}}
    PROVE  Describes(Source("thread", t, [k \in K |-> Size(k, t)],
                            Spanning(UNION {ThreadTimes(k, t) : k \in K})), "thread", t)
<1> DEFINE counts == [k \in K |-> Size(k, t)]
           A == UNION {ThreadTimes(k, t) : k \in K}
           B == UNION {TimesOf(k, t) : k \in K}
           s == Source("thread", t, counts, Spanning(A))
<1>1. \A k \in K : /\ k \in Kinds /\ k \in ThreadKind /\ SourceType(k) = "thread" /\ k # "memory"
                   /\ Own(k, t) # {} /\ Own(k, t) = ItemsOf(k, t)
  <2>1. ASSUME NEW k \in K
        PROVE  k \in Kinds /\ k \in ThreadKind /\ SourceType(k) = "thread" /\ k # "memory"
               /\ k \notin {"cpu-usage", "crash", "hardware-sample", "frame-image"} /\ Own(k, t) # {}
    BY DEF Kinds, Stored, SourceType, ThreadKind
  <2> QED
    BY <2>1, ItemsAre DEF IInv
<1>2. \A k \in K : Size(k, t) = Cardinality(Of(k, t))
  BY <1>1, OfCounted DEF Size
<1>3. ASSUME \A k \in K : \A z \in ItemsOf(k, t) : ~IsOpen(z)
      PROVE  Spanning(A) = Spanning(B)
  <2>1. ASSUME NEW k \in K
        PROVE  /\ ThreadTimes(k, t) \in SUBSET Times /\ TimesOf(k, t) \in SUBSET Times
               /\ Bounds(ThreadTimes(k, t), TimesOf(k, t)) /\ Bounds(TimesOf(k, t), ThreadTimes(k, t))
    <3>1. /\ k \in Kinds /\ k \in ThreadKind /\ Own(k, t) # {} /\ \A z \in Own(k, t) : ~IsOpen(z)
      BY <1>1, <1>3
    <3>2. ThreadTimes(k, t) \in SUBSET Times /\ Alongside(ThreadTimes(k, t), TimesOf(k, t))
      BY <3>1, ThreadSpan
    <3>3. TimesOf(k, t) \in SUBSET Times
      BY <3>1, TimesAre
    <3> QED
      BY <3>2, <3>3 DEF Alongside
  <2>2. A \in SUBSET Times /\ B \in SUBSET Times
    BY <2>1
  <2>3. Bounds(A, B)
    <3> SUFFICES ASSUME NEW k \in K, NEW b \in TimesOf(k, t)
                 PROVE  \E a, c \in A : a <= b /\ b <= c
      BY DEF Bounds
    <3>1. \E a, c \in ThreadTimes(k, t) : a <= b /\ b <= c
      BY <2>1 DEF Bounds
    <3> QED
      BY <3>1
  <2>4. Bounds(B, A)
    <3> SUFFICES ASSUME NEW k \in K, NEW a \in ThreadTimes(k, t)
                 PROVE  \E b, c \in B : b <= a /\ a <= c
      BY DEF Bounds
    <3>1. \E b, c \in TimesOf(k, t) : b <= a /\ a <= c
      BY <2>1 DEF Bounds
    <3> QED
      BY <3>1
  <2> HIDE DEF A, B
  <2> QED
    BY <2>2, <2>3, <2>4, SameSpan DEF Alongside
<1>4. /\ s.id = <<"thread", t>> /\ s.range = Spanning(A)
      /\ KindsOfSource(s) = K /\ s.counts = counts
  BY DEF Source, KindsOfSource
<1>5. \A k \in K : counts[k] = Cardinality(Of(k, t))
  BY <1>2
<1> HIDE DEF s, counts, A
<1>6. Describes(s, "thread", t)
  BY <1>1, <1>3, <1>4, <1>5 DEF Describes
<1> QED
  BY <1>6 DEF s, counts, A

LEMMA SourcesDescribed ==
    ASSUME IInv, WInv, Over, NEW s \in DiscoverSources
    PROVE  \E type, n : Describes(s, type, n)
<1>1. CASE s \in ThreadSources
  <2>1. PICK t \in 1 .. Places \ Foreign :
           s = Source("thread", t, [k \in {x \in ThreadKind : Own(x, t) # {}} |-> Size(k, t)],
                      Spanning(UNION {ThreadTimes(k, t) : k \in {x \in ThreadKind : Own(x, t) # {}}}))
    BY <1>1 DEF ThreadSources
  <2>2. PICK K : K = {x \in ThreadKind : Own(x, t) # {}}
    OBVIOUS
  <2>3. s = Source("thread", t, [k \in K |-> Size(k, t)], Spanning(UNION {ThreadTimes(k, t) : k \in K}))
    BY <2>1, <2>2
  <2>4. Describes(s, "thread", t)
    BY <2>2, <2>3, ThreadDescribed
  <2> QED
    BY <2>4
<1>2. CASE s \in GpuSources
  BY <1>2, GpuDescribed DEF GpuSources
<1>3. CASE s \in PlotSources
  BY <1>3, PointsDescribed DEF PlotSources
<1>4. CASE s \in FrameSources
  BY <1>4, FrameDescribed DEF FrameSources
<1>5. CASE s \in LockSources
  BY <1>5, PointsDescribed DEF LockSources
<1>6. CASE s \in MemorySources
  BY <1>6, MemoryDescribed DEF MemorySources
<1>7. CASE s \in CpuSources
  BY <1>7, CpuDescribed DEF CpuSources
<1>8. CASE s \in CounterSources
  <2>1. PICK c \in 1 .. 2 : s = Source("hardware-counter", c,
              Count("hardware-sample", Cardinality(AllSamples(c))), Spanning(CounterTimes(c)))
    BY <1>8 DEF CounterSources
  <2>2. c \in {1, 2}
    OBVIOUS
  <2> QED
    BY <2>1, <2>2, CounterDescribed
<1>9. CASE s \in CrashSource
  BY <1>9, CrashDescribed DEF CrashSource
<1> QED
  BY <1>1, <1>2, <1>3, <1>4, <1>5, <1>6, <1>7, <1>8, <1>9 DEF DiscoverSources

(* Every record that is not left out has its source in the list. *)
LEMMA RecordsListed ==
    ASSUME IInv, WInv, Over, NEW r \in Presented, ~Unlisted(r)
    PROVE  \E s \in DiscoverSources : s.id = r.source /\ r.kind \in KindsOfSource(s)
<1> DEFINE z == r.item
           p == PlaceOf(z)
           Listed == \E s \in DiscoverSources : s.id = r.source /\ r.kind \in KindsOfSource(s)
<1>1. /\ r.kind \in Kinds /\ z \in Item /\ kindOf[z] = Holding(r.kind)
      /\ r.source = <<SourceType(r.kind), PlaceNumber(r.kind, z)>>
      /\ r.kind = "frame-image" => z \in marked
  BY DEF IInv, RecordsSound, RecordSound, WInv, RecordsTell, Tells
<1>2. p \in 1 .. Places
  BY <1>1, PlaceThere DEF IInv
<1>3. r.kind # "frame-image" => z \in Own(r.kind, p)
  BY <1>1 DEF Own, Holding
<1>4. \A type, n, k, count, range :
         /\ Source(type, n, Count(k, count), range).id = <<type, n>>
         /\ k \in KindsOfSource(Source(type, n, Count(k, count), range))
  BY DEF Source, Count, KindsOfSource
<1> HIDE DEF z, p
<1>5. CASE r.kind \in ThreadKind
  <2>1. r.source = <<"thread", p>>
    BY <1>1, <1>5 DEF SourceType, PlaceNumber, ThreadKind, p
  <2>2. p \notin Foreign
    BY <2>1 DEF Unlisted
  <2>3. Own(r.kind, p) # {}
    BY <1>3, <1>5 DEF ThreadKind
  <2> DEFINE K == {x \in ThreadKind : Own(x, p) # {}}
             s == Source("thread", p, [k \in K |-> Size(k, p)], Spanning(UNION {ThreadTimes(k, p) : k \in K}))
  <2>4. s \in ThreadSources
    BY <1>2, <1>5, <2>2, <2>3 DEF ThreadSources
  <2>5. s.id = r.source /\ r.kind \in KindsOfSource(s)
    BY <1>5, <2>1, <2>3 DEF Source, KindsOfSource
  <2> HIDE DEF s
  <2> QED
    BY <2>4, <2>5 DEF DiscoverSources
<1>6. CASE r.kind = "gpu-zone"
  <2>1. r.source = <<"gpu-thread", p>>
    BY <1>1, <1>6 DEF SourceType, PlaceNumber, ThreadKind, p
  <2>2. Source("gpu-thread", p, Count("gpu-zone", Size("gpu-zone", p)), Spanning(GpuTimes(p))) \in GpuSources
    BY <1>2 DEF GpuSources
  <2> QED
    BY <1>4, <1>6, <2>1, <2>2 DEF DiscoverSources
<1>7. CASE r.kind = "plot"
  <2>1. r.source = <<"plot", p>>
    BY <1>1, <1>7 DEF SourceType, PlaceNumber, ThreadKind, p
  <2>2. Source("plot", p, Count("plot", Size("plot", p)),
               FrontToBack(Own("plot", p), StartOf(Back("plot", p)))) \in PlotSources
    BY <1>2 DEF PlotSources
  <2> QED
    BY <1>4, <1>7, <2>1, <2>2 DEF DiscoverSources
<1>8. CASE r.kind = "lock"
  <2>1. r.source = <<"lock", p>>
    BY <1>1, <1>8 DEF SourceType, PlaceNumber, ThreadKind, p
  <2>2. Source("lock", p, Count("lock", Size("lock", p)),
               FrontToBack(Own("lock", p), StartOf(Back("lock", p)))) \in LockSources
    BY <1>2 DEF LockSources
  <2> QED
    BY <1>4, <1>8, <2>1, <2>2 DEF DiscoverSources
<1>9. CASE r.kind = "memory"
  <2>1. r.source = <<"memory-pool", p>>
    BY <1>1, <1>9 DEF SourceType, PlaceNumber, ThreadKind, p
  <2>2. Source("memory-pool", p,
               Count("memory", Size("memory", p) + Cardinality(Own("memory", p) \cap marked)),
               Spanning(MemoryTimes(p))) \in MemorySources
    BY <1>2 DEF MemorySources
  <2> QED
    BY <1>4, <1>9, <2>1, <2>2 DEF DiscoverSources
<1>10. CASE r.kind = "cpu-slice"
  <2>1. r.source = <<"cpu", p>>
    BY <1>1, <1>10 DEF SourceType, PlaceNumber, ThreadKind, p
  <2>2. Source("cpu", p, Count("cpu-slice", Size("cpu-slice", p)),
               FrontToBack(Own("cpu-slice", p), RawEnd(Back("cpu-slice", p)))) \in CpuSources
    BY <1>2, <1>3, <1>10 DEF CpuSources
  <2> QED
    BY <1>4, <1>10, <2>1, <2>2 DEF DiscoverSources
<1>11. CASE r.kind = "hardware-sample"
  <2>1. PICK c \in 1 .. 2 : c = IF z \in marked THEN 2 ELSE 1
    OBVIOUS
  <2>2. r.source = <<"hardware-counter", c>>
    BY <1>1, <1>11, <2>1 DEF SourceType, PlaceNumber, ThreadKind
  <2>3. z \in AllSamples(c)
    BY <1>2, <1>3, <1>11, <2>1 DEF AllSamples, CounterSamples
  <2>4. Source("hardware-counter", c, Count("hardware-sample", Cardinality(AllSamples(c))),
               Spanning(CounterTimes(c))) \in CounterSources
    BY <2>3 DEF CounterSources
  <2> QED
    BY <1>4, <1>11, <2>2, <2>4 DEF DiscoverSources
<1>12. CASE r.kind = "crash"
  <2>1. r.source = <<"capture", 0>>
    BY <1>1, <1>12 DEF SourceType, PlaceNumber, ThreadKind
  <2>2. Source("capture", 0, Count("crash", 1), [first |-> StartOf(z), last |-> StartOf(z)]) \in CrashSource
    BY <1>1, <1>12 DEF CrashSource, Holding
  <2> QED
    BY <1>4, <1>12, <2>1, <2>2 DEF DiscoverSources
<1>13. CASE r.kind \in {"frame", "frame-image"}
  <2>1. r.source = <<"frame-set", p>>
    BY <1>1, <1>13 DEF SourceType, PlaceNumber, ThreadKind, p
  <2>2. PICK S, images : S = Own("frame", p) /\ images = Cardinality(S \cap marked)
    OBVIOUS
  <2> DEFINE K == {"frame"} \cup (IF images = 0 THEN {} ELSE {"frame-image"})
             s == Source("frame-set", p,
                         [k \in K |-> IF k = "frame" THEN Cardinality(S) ELSE images],
                         FrontToBack(S, EndOf(Max(S))))
  <2>3. s \in FrameSources
    BY <1>2, <2>2 DEF FrameSources
  <2>4. r.kind \in K
    <3>1. ASSUME r.kind = "frame-image" PROVE images # 0
      <4>1. z \in S \cap marked /\ S \subseteq Item
        BY <1>1, <2>2, <3>1 DEF Own, Holding, p
      <4>2. IsFiniteSet(S \cap marked)
        BY <4>1, ItemsFinite
      <4> QED
        BY <2>2, <4>1, <4>2, FS_EmptySet
    <3> QED
      BY <1>13, <3>1
  <2>5. s.id = r.source /\ r.kind \in KindsOfSource(s)
    BY <2>1, <2>4 DEF Source, KindsOfSource
  <2> HIDE DEF s
  <2> QED
    BY <2>3, <2>5 DEF DiscoverSources
<1>14. r.kind # "cpu-usage"
  BY DEF Unlisted
<1> HIDE DEF Listed
<1>15. Listed
  BY <1>1, <1>5, <1>6, <1>7, <1>8, <1>9, <1>10, <1>11, <1>12, <1>13, <1>14
     DEF Kinds, Stored, ThreadKind, TraceWide, Nested, Scheduled, Listed
<1> QED
  BY <1>15 DEF Listed

(* Of an item a kind has one record at most, and when a query is over all  *)
(* that it presents.                                                       *)
EachShownOnce ==
    /\ OneRecord
    /\ Over => \A z \in Item, k \in Kinds : kindOf[z] = Holding(k) => IsShown(k, z)

(* No item is left out and none is presented twice: when a query is over,  *)
(* every kind that holds an item has presented it once (of frame images,   *)
(* where there is one), and the release of an allocation once, however     *)
(* vectors, timelines and nested zones are walked.                         *)
THEOREM WalkIsComplete == Spec => []EachShownOnce
<1>1. IInv /\ WInv => EachShownOnce
  BY OverShows DEF EachShownOnce, WInv
<1> QED
  BY <1>1, WalkInvariance, PTL

(* Every record a query can present comes from a source that `sources'     *)
(* lists, under a kind it is listed with; of every source as many records  *)
(* are presented as it is said to have, and they lie exactly between the   *)
(* times it is said to have: whatever the trace, with its zones nested at  *)
(* will and its GPU clock shifted, although the two commands walk it by    *)
(* code of their own.                                                      *)
THEOREM SourcesTellRecords == Spec => []SourcesDescribeRecords
<1>1. ASSUME IInv, WInv PROVE SourcesDescribeRecords
  <2> SUFFICES ASSUME Over PROVE SourcesDescribeRecords
    BY DEF SourcesDescribeRecords
  <2>1. \A r \in Presented :
           ~Unlisted(r) => \E s \in DiscoverSources : s.id = r.source /\ r.kind \in KindsOfSource(s)
    BY <1>1, RecordsListed
  <2>2. ASSUME NEW s \in DiscoverSources, NEW mine, mine = RecordsOf(s)
        PROVE  /\ \A k \in KindsOfSource(s) : s.counts[k] = Cardinality({r \in mine : r.kind = k})
               /\ (\A r \in mine : ~IsOpen(r.item)) =>
                     s.range = Spanning({r.start : r \in mine} \cup {r.end : r \in mine})
    <3>1. PICK type, n : Describes(s, type, n)
      BY <1>1, SourcesDescribed
    <3> QED
      BY <1>1, <2>2, <3>1, DescribesRecords
  <2> QED
    BY <2>1, <2>2 DEF SourcesDescribeRecords
<1> QED
  BY <1>1, WalkInvariance, PTL

=============================================================================
