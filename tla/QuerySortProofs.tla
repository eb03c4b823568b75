-------------------------- MODULE QuerySortProofs ---------------------------
(***************************************************************************)
(* Proofs about the sorter: for every set of records, size of a chunk and  *)
(* limit, the output is ordered and complete, no record is lost between    *)
(* the chunk, the files and the heap, and the whole is a stream that is    *)
(* shown smallest first.                                                   *)
(***************************************************************************)
EXTENDS QuerySort, FiniteSetTheorems, SequenceTheorems, TLAPS

-----------------------------------------------------------------------------
(* The orders *)

LEMMA RecordFields ==
    ASSUME NEW r \in Record
    PROVE  /\ r.time \in Int /\ r.trace \in Int /\ r.kind \in Int
           /\ r.source \in Int /\ r.sequence \in Int
  BY RecordAssumption DEF Records

LEMMA NotAfterReflexive == \A r \in Record : NotAfter(r, r)
  BY RecordFields DEF NotAfter, RecordLess

(* The order of the heap is the converse of the order of a chunk. *)
LEMMA LaterIsConverse ==
    \A a, b \in Record : ~Later(a, b) <=> NotAfter(a, b)
  BY RecordFields DEF NotAfter, RecordLess, Later

LEMMA NotAfterTransitive ==
    ASSUME NEW a \in Record, NEW b \in Record, NEW c \in Record,
           NotAfter(a, b), NotAfter(b, c)
    PROVE  NotAfter(a, c)
  BY RecordFields DEF NotAfter, RecordLess

-----------------------------------------------------------------------------
(* Files *)

AllOf(files) == UNION {Elements(files[k]) : k \in DOMAIN files}

(* Every file is ordered ... *)
Ordered(files) ==
    \A k \in DOMAIN files : \A i, j \in DOMAIN files[k] :
        i < j => NotAfter(files[k][i], files[k][j])

(* ... and no record is in two places of them. *)
Apart(files) ==
    \A k, l \in DOMAIN files : \A i \in DOMAIN files[k], j \in DOMAIN files[l] :
        files[k][i] = files[l][j] => k = l /\ i = j

LEMMA InAllOf ==
    ASSUME NEW files, NEW r
    PROVE  r \in AllOf(files) <=>
               \E k \in DOMAIN files : \E i \in DOMAIN files[k] : r = files[k][i]
  BY DEF AllOf, Elements

LEMMA SortedFacts ==
    ASSUME NEW S, IsFiniteSet(S), S \subseteq Record, NEW s \in Sorted(S)
    PROVE  /\ s \in Seq(Record)
           /\ DOMAIN s = 1 .. Len(s)
           /\ Elements(s) = S
           /\ \A i, j \in DOMAIN s : s[i] = s[j] => i = j
           /\ \A i, j \in DOMAIN s : i < j => NotAfter(s[i], s[j])
<1> DEFINE n == Cardinality(S)
<1>1. n \in Nat
  BY FS_CardinalityType
<1>2. /\ s \in [1 .. n -> S]
      /\ \A i, j \in DOMAIN s : i < j => s[i] # s[j] /\ NotAfter(s[i], s[j])
  BY DEF Sorted
<1>3. s \in Seq(Record) /\ DOMAIN s = 1 .. Len(s)
  BY <1>1, <1>2
<1>4. \A i, j \in DOMAIN s : s[i] = s[j] => i = j
  BY <1>1, <1>2
<1>5. s \in Injection(1 .. n, S)
  BY <1>2, <1>4 DEF Injection, IsInjective
<1>6. IsFiniteSet(1 .. n) /\ Cardinality(1 .. n) = n
  BY <1>1, FS_Interval
<1>7. s \in Surjection(1 .. n, S)
  BY <1>5, <1>6, FS_Injection
<1>8. Elements(s) = S
  BY <1>2, <1>7 DEF Surjection, Elements
<1> QED
  BY <1>2, <1>3, <1>4, <1>8

(* One more file. *)
LEMMA OneMoreFile ==
    ASSUME NEW files \in Seq(Seq(Record)), Ordered(files), Apart(files),
           NEW S, IsFiniteSet(S), S \subseteq Record, S \cap AllOf(files) = {},
           NEW s \in Sorted(S)
    PROVE  /\ Append(files, s) \in Seq(Seq(Record))
           /\ Ordered(Append(files, s)) /\ Apart(Append(files, s))
           /\ AllOf(Append(files, s)) = AllOf(files) \cup S
<1> DEFINE more == Append(files, s)
           n == Len(files) + 1
<1>1. /\ s \in Seq(Record) /\ Elements(s) = S
      /\ \A i, j \in DOMAIN s : s[i] = s[j] => i = j
      /\ \A i, j \in DOMAIN s : i < j => NotAfter(s[i], s[j])
  BY SortedFacts
<1>2. /\ more \in Seq(Seq(Record)) /\ DOMAIN more = 1 .. n /\ DOMAIN files = 1 .. Len(files)
      /\ n \in Nat /\ Len(files) \in Nat
      /\ \A k \in DOMAIN files : more[k] = files[k]
      /\ more[n] = s
  BY <1>1
<1> HIDE DEF more
<1>3. \A k \in DOMAIN more : (k \in DOMAIN files /\ more[k] = files[k]) \/ (k = n /\ more[k] = s)
  BY <1>2
<1>4. Ordered(more)
  <2> SUFFICES ASSUME NEW k \in DOMAIN more
               PROVE  \A i, j \in DOMAIN more[k] : i < j => NotAfter(more[k][i], more[k][j])
    BY DEF Ordered
  <2>1. CASE k \in DOMAIN files /\ more[k] = files[k]
    BY <2>1 DEF Ordered
  <2>2. CASE more[k] = s
    BY <1>1, <2>2
  <2> QED
    BY <1>3, <2>1, <2>2
<1>5. \A k \in DOMAIN files : \A i \in DOMAIN files[k], j \in DOMAIN s : files[k][i] # s[j]
  <2> SUFFICES ASSUME NEW k \in DOMAIN files, NEW i \in DOMAIN files[k], NEW j \in DOMAIN s
               PROVE  files[k][i] # s[j]
    OBVIOUS
  <2>1. files[k][i] \in AllOf(files)
    BY InAllOf
  <2>2. s[j] \in S
    BY <1>1 DEF Elements
  <2> QED
    BY <2>1, <2>2
<1>6. Apart(more)
  BY <1>1, <1>2, <1>3, <1>5 DEF Apart
<1>7. AllOf(more) = AllOf(files) \cup S
  <2>1. ASSUME NEW r PROVE r \in AllOf(more) <=> r \in AllOf(files) \/ r \in Elements(s)
    <3>1. r \in AllOf(more) <=> \E k \in DOMAIN more : r \in Elements(more[k])
      BY DEF AllOf
    <3>2. r \in AllOf(files) <=> \E k \in DOMAIN files : r \in Elements(files[k])
      BY DEF AllOf
    <3>3. n \in DOMAIN more /\ DOMAIN files \subseteq DOMAIN more
      BY <1>2
    <3> QED
      BY <1>2, <1>3, <3>1, <3>2, <3>3
  <2> QED
    BY <1>1, <2>1
<1> QED
  BY <1>2, <1>4, <1>6, <1>7 DEF more

(* A file without its first record. *)
LEMMA TailFacts ==
    ASSUME NEW f \in Seq(Record), f # <<>>
    PROVE  /\ f[1] \in Record /\ Tail(f) \in Seq(Record)
           /\ \A i \in DOMAIN Tail(f) : i + 1 \in DOMAIN f /\ Tail(f)[i] = f[i + 1] /\ i + 1 # 1
           /\ 1 \in DOMAIN f
           /\ \A j \in DOMAIN f : j # 1 => j - 1 \in DOMAIN Tail(f) /\ f[j] = Tail(f)[j - 1]
           /\ Elements(f) = {f[1]} \cup Elements(Tail(f))
<1>1. /\ Tail(f) \in Seq(Record) /\ Len(Tail(f)) = Len(f) - 1
      /\ \A i \in 1 .. Len(Tail(f)) : Tail(f)[i] = f[i + 1]
      /\ Len(f) \in Nat \ {0} /\ DOMAIN f = 1 .. Len(f) /\ DOMAIN Tail(f) = 1 .. Len(Tail(f))
  BY HeadTailProperties
<1>2. /\ \A i \in DOMAIN Tail(f) : i + 1 \in DOMAIN f /\ Tail(f)[i] = f[i + 1] /\ i + 1 # 1
      /\ 1 \in DOMAIN f
      /\ \A j \in DOMAIN f : j # 1 => j - 1 \in DOMAIN Tail(f) /\ f[j] = Tail(f)[j - 1]
  BY <1>1
<1>3. Elements(f) = {f[1]} \cup Elements(Tail(f))
  BY <1>2 DEF Elements
<1>4. f[1] \in Record
  BY <1>1
<1> QED
  BY <1>1, <1>2, <1>3, <1>4

-----------------------------------------------------------------------------
(* The heap beside the files *)

AllIn(h, files) == {node.record : node \in h} \cup AllOf(files)

(* The heap has at most one node of every file, which comes before what is *)
(* left of it, and shares no record with the files.                        *)
HeapSound(h, files) ==
    /\ h \subseteq [record : Record, run : DOMAIN files]
    /\ \A a, b \in h : a.run = b.run => a = b
    /\ \A a, b \in h : a.record = b.record => a = b
    /\ \A a \in h : \A k \in DOMAIN files : \A i \in DOMAIN files[k] :
          /\ files[k][i] # a.record
          /\ k = a.run => NotAfter(a.record, files[k][i])

(* It has a node of every file from which there is more to read. *)
HeapFull(h, files) ==
    \A k \in DOMAIN files : files[k] # <<>> => \E a \in h : a.run = k

LEMMA FirstAndRest ==
    ASSUME NEW files \in Seq(Seq(Record)), Ordered(files), Apart(files)
    PROVE  /\ RestOfRuns(files) \in Seq(Seq(Record))
           /\ Ordered(RestOfRuns(files)) /\ Apart(RestOfRuns(files))
           /\ HeapSound(FirstOfRuns(files), RestOfRuns(files))
           /\ HeapFull(FirstOfRuns(files), RestOfRuns(files))
           /\ AllIn(FirstOfRuns(files), RestOfRuns(files)) = AllOf(files)
<1> DEFINE rest == RestOfRuns(files)
           h == FirstOfRuns(files)
<1>1. /\ DOMAIN files = 1 .. Len(files) /\ Len(files) \in Nat
      /\ \A k \in DOMAIN files : files[k] \in Seq(Record)
  OBVIOUS
<1>2. /\ DOMAIN rest = DOMAIN files
      /\ \A k \in DOMAIN files : rest[k] = IF files[k] = <<>> THEN <<>> ELSE Tail(files[k])
  BY DEF RestOfRuns
<1>3. \A k \in DOMAIN files : rest[k] \in Seq(Record)
  BY <1>1, <1>2, TailFacts
<1>4. rest \in Seq(Seq(Record))
  BY <1>1, <1>2, <1>3 DEF RestOfRuns
<1>5. ASSUME NEW k \in DOMAIN rest, NEW i \in DOMAIN rest[k]
      PROVE  /\ k \in DOMAIN files /\ files[k] # <<>>
             /\ 1 \in DOMAIN files[k] /\ i \in Nat \ {0}
             /\ i + 1 \in DOMAIN files[k] /\ rest[k][i] = files[k][i + 1]
  <2>1. files[k] # <<>> /\ files[k] \in Seq(Record)
    BY <1>1, <1>2
  <2>2. rest[k] = Tail(files[k])
    BY <1>2, <2>1
  <2>3. i \in Nat \ {0}
    BY <2>1, <2>2, TailFacts
  <2> QED
    BY <1>2, <2>1, <2>2, <2>3, TailFacts
<1>6. ASSUME NEW n \in h
      PROVE  /\ n.run \in DOMAIN files /\ files[n.run] # <<>>
             /\ 1 \in DOMAIN files[n.run] /\ n.record = files[n.run][1] /\ n.record \in Record
             /\ n = [record |-> n.record, run |-> n.run]
  <2>1. PICK k \in DOMAIN files : files[k] # <<>> /\ n = [record |-> files[k][1], run |-> k]
    BY DEF FirstOfRuns
  <2> QED
    BY <1>1, <2>1, TailFacts
<1>7. \A k \in DOMAIN files : files[k] # <<>> =>
          [record |-> files[k][1], run |-> k] \in h
  BY DEF FirstOfRuns
<1> HIDE DEF rest, h
<1>8. Ordered(rest)
  <2> SUFFICES ASSUME NEW k \in DOMAIN rest, NEW i \in DOMAIN rest[k], NEW j \in DOMAIN rest[k],
                      i < j
               PROVE  NotAfter(rest[k][i], rest[k][j])
    BY DEF Ordered
  <2> QED
    BY <1>5 DEF Ordered
<1>9. Apart(rest)
  <2> SUFFICES ASSUME NEW k \in DOMAIN rest, NEW l \in DOMAIN rest,
                      NEW i \in DOMAIN rest[k], NEW j \in DOMAIN rest[l],
                      rest[k][i] = rest[l][j]
               PROVE  k = l /\ i = j
    BY DEF Apart
  <2>1. k = l /\ i + 1 = j + 1
    BY <1>5 DEF Apart
  <2> QED
    BY <1>5, <2>1
<1>10. HeapSound(h, rest)
  <2>1. h \subseteq [record : Record, run : DOMAIN rest]
    BY <1>2, <1>6
  <2>2. \A a, b \in h : a.run = b.run => a = b
    BY <1>6
  <2>3. \A a, b \in h : a.record = b.record => a = b
    <3> SUFFICES ASSUME NEW a \in h, NEW b \in h, a.record = b.record
                 PROVE  a.run = b.run
      BY <2>2
    <3> QED
      BY <1>6 DEF Apart
  <2>4. ASSUME NEW a \in h, NEW k \in DOMAIN rest, NEW i \in DOMAIN rest[k]
        PROVE  rest[k][i] # a.record
    <3>1. i + 1 # 1
      BY <1>5
    <3> QED
      BY <1>5, <1>6, <3>1 DEF Apart
  <2>5. ASSUME NEW a \in h, NEW k \in DOMAIN rest, NEW i \in DOMAIN rest[k], k = a.run
        PROVE  NotAfter(a.record, rest[k][i])
    <3>1. 1 < i + 1
      BY <1>5
    <3> QED
      BY <1>5, <1>6, <2>5, <3>1 DEF Ordered
  <2> QED
    BY <2>1, <2>2, <2>3, <2>4, <2>5 DEF HeapSound
<1>11. HeapFull(h, rest)
  <2> SUFFICES ASSUME NEW k \in DOMAIN rest, rest[k] # <<>>
               PROVE  \E a \in h : a.run = k
    BY DEF HeapFull
  <2>1. k \in DOMAIN files /\ files[k] # <<>>
    BY <1>2
  <2>2. [record |-> files[k][1], run |-> k] \in h
    BY <1>7, <2>1
  <2> QED
    BY <2>2
<1>12. AllIn(h, rest) = AllOf(files)
  <2>1. ASSUME NEW r \in AllIn(h, rest) PROVE r \in AllOf(files)
    <3>1. CASE r \in AllOf(rest)
      <4>1. PICK k \in DOMAIN rest : \E i \in DOMAIN rest[k] : r = rest[k][i]
        BY <3>1, InAllOf
      <4> QED
        BY <1>5, <4>1, InAllOf
    <3>2. CASE r \in {n.record : n \in h}
      BY <1>6, <3>2, InAllOf
    <3> QED
      BY <3>1, <3>2 DEF AllIn
  <2>2. ASSUME NEW r \in AllOf(files) PROVE r \in AllIn(h, rest)
    <3>1. PICK k \in DOMAIN files : \E j \in DOMAIN files[k] : r = files[k][j]
      BY InAllOf
    <3>2. PICK j \in DOMAIN files[k] : r = files[k][j]
      BY <3>1
    <3>3. files[k] # <<>> /\ files[k] \in Seq(Record)
      BY <1>1, <3>2
    <3>4. CASE j = 1
      <4> DEFINE n == [record |-> files[k][1], run |-> k]
      <4>1. n \in h /\ n.record = r
        BY <1>7, <3>2, <3>3, <3>4
      <4> HIDE DEF n
      <4> QED
        BY <4>1 DEF AllIn
    <3>5. CASE j # 1
      <4>1. rest[k] = Tail(files[k])
        BY <1>2, <3>3
      <4>2. j - 1 \in DOMAIN rest[k] /\ r = rest[k][j - 1]
        BY <3>2, <3>3, <3>5, <4>1, TailFacts
      <4> QED
        BY <1>2, <4>2, InAllOf DEF AllIn
    <3> QED
      BY <3>4, <3>5
  <2> QED
    BY <2>1, <2>2
<1> QED
  BY <1>4, <1>8, <1>9, <1>10, <1>11, <1>12 DEF rest, h

(* One turn of the merge takes one record away. *)
LEMMA RefillKeeps ==
    ASSUME runs \in Seq(Seq(Record)), Ordered(runs), Apart(runs),
           HeapSound(heap, runs), HeapFull(heap, runs),
           NEW node \in heap, Refill(node)
    PROVE  /\ runs' \in Seq(Seq(Record)) /\ Ordered(runs') /\ Apart(runs')
           /\ HeapSound(heap', runs') /\ HeapFull(heap', runs')
           /\ AllIn(heap', runs') = AllIn(heap, runs) \ {node.record}
<1> DEFINE n == node.run
           file == runs[n]
<1>1. /\ DOMAIN runs = 1 .. Len(runs) /\ Len(runs) \in Nat
      /\ n \in DOMAIN runs /\ file \in Seq(Record)
      /\ node.record \in Record
      /\ \A a \in heap : a.record \in Record /\ a.run \in DOMAIN runs
  BY DEF HeapSound
<1>2. \A a \in heap \ {node} : a.run # n /\ a.record # node.record
  BY DEF HeapSound
<1>3. node.record \notin AllOf(runs)
  <2> SUFFICES ASSUME NEW k \in DOMAIN runs, NEW i \in DOMAIN runs[k]
               PROVE  node.record # runs[k][i]
    BY InAllOf
  <2> QED
    BY DEF HeapSound
<1>4. CASE file = <<>>
  <2>1. heap' = heap \ {node} /\ runs' = runs
    BY <1>4 DEF Refill
  <2>2. HeapSound(heap', runs')
    BY <2>1 DEF HeapSound
  <2>3. HeapFull(heap', runs')
    <3> SUFFICES ASSUME NEW k \in DOMAIN runs, runs[k] # <<>>
                 PROVE  \E a \in heap' : a.run = k
      BY <2>1 DEF HeapFull
    <3>1. k # n
      BY <1>4
    <3>2. PICK a \in heap : a.run = k
      BY DEF HeapFull
    <3> QED
      BY <2>1, <3>1, <3>2
  <2>4. AllIn(heap', runs') = AllIn(heap, runs) \ {node.record}
    BY <1>2, <1>3, <2>1 DEF AllIn
  <2> QED
    BY <2>1, <2>2, <2>3, <2>4
<1>5. CASE file # <<>>
  <2> DEFINE new == [record |-> file[1], run |-> n]
  <2>1. /\ heap' = (heap \ {node}) \cup {new}
        /\ runs' = [runs EXCEPT ![n] = Tail(file)]
    BY <1>5 DEF Refill
  <2>2. /\ DOMAIN runs' = DOMAIN runs /\ runs'[n] = Tail(file)
        /\ \A k \in DOMAIN runs : k # n => runs'[k] = runs[k]
    BY <1>1, <2>1
  <2>3. Tail(file) \in Seq(Record) /\ file[1] \in Record
    BY <1>1, <1>5, TailFacts
  <2>4. runs' \in Seq(Seq(Record))
    BY <1>1, <2>1, <2>3
  <2>5. new.record = file[1] /\ new.run = n /\ new \in [record : Record, run : DOMAIN runs]
    BY <1>1, <2>3
  <2>6. \A a \in heap' : (a \in heap /\ a # node) \/ a = new
    BY <2>1
  <2> HIDE DEF new
  (* Where a record of the files is now, and where it was. *)
  <2> DEFINE Old(k, i) == IF k = n THEN i + 1 ELSE i
  <2>7. ASSUME NEW k \in DOMAIN runs', NEW i \in DOMAIN runs'[k]
        PROVE  /\ k \in DOMAIN runs /\ i \in Nat \ {0}
               /\ Old(k, i) \in DOMAIN runs[k] /\ runs'[k][i] = runs[k][Old(k, i)]
    <3>1. CASE k = n
      <4>1. runs'[k] = Tail(file) /\ runs[k] = file /\ k \in DOMAIN runs
        BY <1>1, <2>2, <3>1
      <4> HIDE DEF file
      <4>2. i \in DOMAIN Tail(file)
        BY <4>1
      <4>3. i \in Nat \ {0}
        BY <2>3, <4>2
      <4> QED
        BY <1>1, <1>5, <3>1, <4>1, <4>2, <4>3, TailFacts
    <3>2. CASE k # n
      BY <1>1, <2>2, <3>2
    <3> QED
      BY <3>1, <3>2
  <2>8. 1 \in DOMAIN file
    BY <1>1, <1>5, TailFacts
  <2>9. Ordered(runs')
    <3> SUFFICES ASSUME NEW k \in DOMAIN runs', NEW i \in DOMAIN runs'[k],
                        NEW j \in DOMAIN runs'[k], i < j
                 PROVE  NotAfter(runs'[k][i], runs'[k][j])
      BY DEF Ordered
    <3>1. Old(k, i) < Old(k, j)
      BY <2>7
    <3> HIDE DEF Old
    <3> QED
      BY <2>7, <3>1 DEF Ordered
  <2>10. Apart(runs')
    <3> SUFFICES ASSUME NEW k \in DOMAIN runs', NEW l \in DOMAIN runs',
                        NEW i \in DOMAIN runs'[k], NEW j \in DOMAIN runs'[l],
                        runs'[k][i] = runs'[l][j]
                 PROVE  k = l /\ i = j
      BY DEF Apart
    <3>1. k = l /\ Old(k, i) = Old(l, j)
      <4> HIDE DEF Old
      <4> QED
        BY <2>7 DEF Apart
    <3> QED
      BY <2>7, <3>1
  <2>11. HeapSound(heap', runs')
    <3>1. heap' \subseteq [record : Record, run : DOMAIN runs']
      BY <2>1, <2>2, <2>5 DEF HeapSound
    <3>2. \A a \in heap : a.record # new.record
      BY <1>1, <2>5, <2>8 DEF HeapSound
    <3>3. \A a, b \in heap' : a.run = b.run => a = b
      BY <1>2, <2>5, <2>6 DEF HeapSound
    <3>4. \A a, b \in heap' : a.record = b.record => a = b
      BY <2>6, <3>2 DEF HeapSound
    <3>5. ASSUME NEW a \in heap', NEW k \in DOMAIN runs', NEW i \in DOMAIN runs'[k]
          PROVE  runs'[k][i] # a.record /\ (k = a.run => NotAfter(a.record, runs'[k][i]))
      <4>1. CASE a \in heap /\ a # node
        <5>1. a.run # n
          BY <1>2, <4>1
        <5>2. runs'[k][i] # a.record
          <6> HIDE DEF Old
          <6> QED
            BY <2>7, <4>1 DEF HeapSound
        <5>3. k = a.run => NotAfter(a.record, runs'[k][i])
          BY <2>7, <4>1, <5>1 DEF HeapSound
        <5> QED
          BY <5>2, <5>3
      <4>2. CASE a = new
        <5>1. runs'[k][i] # new.record
          BY <1>1, <2>5, <2>7, <2>8 DEF Apart
        <5>2. k = n => NotAfter(new.record, runs'[k][i])
          BY <1>1, <2>5, <2>7, <2>8 DEF Ordered
        <5> QED
          BY <2>5, <4>2, <5>1, <5>2
      <4> QED
        BY <2>6, <4>1, <4>2
    <3> QED
      BY <3>1, <3>3, <3>4, <3>5 DEF HeapSound
  <2>12. HeapFull(heap', runs')
    <3> SUFFICES ASSUME NEW k \in DOMAIN runs', runs'[k] # <<>>
                 PROVE  \E a \in heap' : a.run = k
      BY DEF HeapFull
    <3>1. CASE k = n
      BY <2>1, <2>5, <3>1
    <3>2. CASE k # n
      <4>1. PICK a \in heap : a.run = k
        BY <2>2, <3>2 DEF HeapFull
      <4> QED
        BY <2>1, <3>2, <4>1
    <3> QED
      BY <3>1, <3>2
  <2>13. AllIn(heap', runs') = AllIn(heap, runs) \ {node.record}
    <3>1. AllOf(runs) = AllOf(runs') \cup {new.record}
      <4>1. Elements(file) = Elements(runs'[n]) \cup {new.record}
        BY <1>1, <1>5, <2>2, <2>5, TailFacts
      <4>2. ASSUME NEW r PROVE r \in AllOf(runs) <=> r \in AllOf(runs') \/ r = new.record
        <5>1. r \in AllOf(runs) <=> \E k \in DOMAIN runs : r \in Elements(runs[k])
          BY DEF AllOf
        <5>2. r \in AllOf(runs') <=> \E k \in DOMAIN runs' : r \in Elements(runs'[k])
          BY DEF AllOf
        <5> QED
          BY <1>1, <2>2, <4>1, <5>1, <5>2
      <4> QED
        BY <4>2
    <3>2. {a.record : a \in heap'} = {a.record : a \in heap \ {node}} \cup {new.record}
      BY <2>1
    <3>3. {a.record : a \in heap} = {a.record : a \in heap \ {node}} \cup {node.record}
      OBVIOUS
    <3>4. node.record \notin {a.record : a \in heap \ {node}}
      BY <1>2
    <3> QED
      BY <1>3, <3>1, <3>2, <3>3, <3>4 DEF AllIn
  <2> QED
    BY <2>4, <2>9, <2>10, <2>11, <2>12, <2>13
<1> QED
  BY <1>4, <1>5

(* What heap.top returns is later than nothing that is left. *)
LEMMA TopIsFirst ==
    ASSUME runs \in Seq(Seq(Record)), HeapSound(heap, runs), HeapFull(heap, runs),
           NEW node \in heap, Top(node), NEW r \in AllIn(heap, runs)
    PROVE  NotAfter(node.record, r)
<1>1. \A a \in heap : a.record \in Record /\ NotAfter(node.record, a.record)
  BY LaterIsConverse DEF Top, HeapSound
<1>2. CASE r \in {a.record : a \in heap}
  BY <1>1, <1>2
<1>3. CASE r \in AllOf(runs)
  <2>1. PICK k \in DOMAIN runs : \E i \in DOMAIN runs[k] : r = runs[k][i]
    BY <1>3, InAllOf
  <2>2. PICK i \in DOMAIN runs[k] : r = runs[k][i]
    BY <2>1
  <2>3. runs[k] # <<>> /\ r \in Record
    BY <2>2
  <2>4. PICK a \in heap : a.run = k
    BY <2>3 DEF HeapFull
  <2>5. NotAfter(a.record, r)
    BY <2>2, <2>4 DEF HeapSound
  <2> QED
    BY <1>1, <2>3, <2>5, NotAfterTransitive
<1> QED
  BY <1>2, <1>3 DEF AllIn

-----------------------------------------------------------------------------
(* The inductive invariant *)

(* Nothing is where its phase has not come to, and nothing has failed. *)
PhaseSound ==
    /\ phase = "load" => visited = {} /\ runs = <<>>
    /\ phase \in {"load", "visit"} => heap = {} /\ out = <<>>
    /\ phase = "merge" => chunk = {}
    /\ phase # "exit" => cause = "none"

(* The files and the heap are ready to be merged. *)
FilesSound ==
    phase # "exit" =>
        /\ Ordered(runs) /\ Apart(runs)
        /\ HeapSound(heap, runs)
        /\ phase = "merge" => HeapFull(heap, runs)

(* No record is written twice, what has not been written comes after all   *)
(* that has, and the output is within the limit.                           *)
OutputSound ==
    /\ \A i, j \in DOMAIN out : out[i] = out[j] => i = j
    /\ Emitted \subseteq visited
    /\ \A k \in DOMAIN out : \A r \in visited \ Emitted : NotAfter(out[k], r)
    /\ Len(out) <= limit

IInv ==
    /\ TypeOK
    /\ PhaseSound
    /\ FilesSound
    /\ NothingLost
    /\ OutputSound
    /\ SortedOutput
    /\ CompleteAtEnd

LEMMA PendingIsAll == Pending = AllIn(heap, runs)
  BY DEF Pending, AllIn, AllOf

LEMMA InvInit == Init => IInv
<1> SUFFICES ASSUME Init PROVE IInv
  OBVIOUS
<1> USE DEF Init
<1>1. TypeOK
  <2>1. <<>> \in Seq(Record) /\ <<>> \in Seq(Seq(Record))
    OBVIOUS
  <2>2. runs \in Seq(Seq(Record)) /\ out \in Seq(Record)
    BY <2>1
  <2>3. heap \subseteq [record : Record, run : DOMAIN runs]
    OBVIOUS
  <2> QED
    BY <2>2, <2>3 DEF TypeOK, Causes
<1>2. PhaseSound /\ NothingLost /\ CompleteAtEnd
  BY DEF PhaseSound, NothingLost, CompleteAtEnd
<1>3. FilesSound
  BY DEF FilesSound, Ordered, Apart, HeapSound
<1>4. OutputSound /\ SortedOutput
  <2>1. Emitted = {} /\ DOMAIN out = {}
    BY DEF Emitted, Elements
  <2> QED
    BY <2>1, LimitAssumption DEF OutputSound, SortedOutput
<1> QED
  BY <1>1, <1>2, <1>3, <1>4 DEF IInv

(* A failure ends the process and leaves the data alone. *)
LEMMA FailInv ==
    ASSUME IInv, NEW why \in Causes \ {"none"}, Fail(why), UNCHANGED data
    PROVE  IInv'
<1> USE DEF IInv, Fail, data
<1>1. TypeOK'
  BY DEF TypeOK, MainStatus
<1>2. PhaseSound' /\ FilesSound' /\ NothingLost' /\ CompleteAtEnd'
  BY DEF PhaseSound, FilesSound, NothingLost, CompleteAtEnd
<1>3. OutputSound' /\ SortedOutput'
  BY DEF OutputSound, SortedOutput, Emitted
<1> QED
  BY <1>1, <1>2, <1>3

LEMMA LoadInv == ASSUME IInv, Load PROVE IInv'
<1> USE DEF IInv, Load, data
<1>1. TypeOK'
  BY DEF TypeOK
<1>2. PhaseSound' /\ FilesSound' /\ CompleteAtEnd'
  BY DEF PhaseSound, FilesSound, CompleteAtEnd
<1>3. OutputSound' /\ SortedOutput'
  BY DEF OutputSound, SortedOutput, Emitted
<1>4. NothingLost'
  <2>1. /\ visited = {} /\ chunk = {} /\ runs = <<>> /\ heap = {} /\ out = <<>>
    BY DEF PhaseSound, TypeOK
  <2>2. /\ visited' = {} /\ chunk' = {} /\ runs' = <<>> /\ heap' = {} /\ out' = <<>>
    BY <2>1
  <2>3. Pending' = {} /\ Emitted' = {}
    BY <2>2 DEF Pending, Emitted, Elements
  <2> QED
    BY <2>2, <2>3 DEF NothingLost
<1> QED
  BY <1>1, <1>2, <1>3, <1>4

LEMMA FiniteSubset == ASSUME NEW S, S \subseteq Record PROVE IsFiniteSet(S)
  BY FS_Subset, RecordAssumption

(* While records come, nothing is in the heap or out. *)
LEMMA WhileVisiting ==
    ASSUME IInv, phase = "visit"
    PROVE  /\ heap = {} /\ out = <<>> /\ Emitted = {} /\ cause = "none"
           /\ Pending = AllOf(runs)
           /\ runs \in Seq(Seq(Record)) /\ Ordered(runs) /\ Apart(runs)
           /\ visited = chunk \cup AllOf(runs) /\ chunk \cap AllOf(runs) = {}
<1>1. heap = {} /\ out = <<>> /\ cause = "none" /\ runs \in Seq(Seq(Record))
  BY DEF IInv, PhaseSound, TypeOK
<1>2. Pending = AllOf(runs) /\ Emitted = {}
  BY <1>1, PendingIsAll DEF AllIn, Emitted, Elements
<1> QED
  BY <1>1, <1>2 DEF IInv, NothingLost, FilesSound

(* What becomes of the records does not matter to the output while there   *)
(* is none.                                                                *)
LEMMA NoOutputYet ==
    ASSUME IInv, out' = <<>>, limit' = limit
    PROVE  OutputSound' /\ SortedOutput'
<1>1. DOMAIN out' = {} /\ Emitted' = {} /\ Len(out') = 0
  BY DEF Emitted, Elements
<1>2. limit \in Nat
  BY LimitAssumption DEF IInv, TypeOK
<1> QED
  BY <1>1, <1>2 DEF OutputSound, SortedOutput

LEMMA AddInv == ASSUME IInv, NEW r \in Record, Add(r) PROVE IInv'
<1> DEFINE filled == chunk \cup {r}
<1>1. /\ phase = "visit" /\ r \notin visited /\ visited' = visited \cup {r}
      /\ UNCHANGED <<phase, limit, heap, out, cause, warned, status>>
      /\ \/ chunk' = filled /\ runs' = runs
         \/ chunk' = {} /\ \E run \in Sorted(filled) : runs' = Append(runs, run)
  BY DEF Add
<1>2. /\ heap = {} /\ out = <<>> /\ Emitted = {} /\ cause = "none"
      /\ runs \in Seq(Seq(Record)) /\ Ordered(runs) /\ Apart(runs)
      /\ visited = chunk \cup AllOf(runs) /\ chunk \cap AllOf(runs) = {}
  BY <1>1, WhileVisiting
<1>3. filled \subseteq Record /\ IsFiniteSet(filled) /\ filled \cap AllOf(runs) = {}
  BY <1>1, <1>2, FiniteSubset DEF IInv, TypeOK
<1>4. /\ runs' \in Seq(Seq(Record)) /\ Ordered(runs') /\ Apart(runs')
      /\ visited' = chunk' \cup AllOf(runs') /\ chunk' \cap AllOf(runs') = {}
      /\ chunk' \subseteq visited'
  <2>1. CASE chunk' = filled /\ runs' = runs
    BY <1>1, <1>2, <1>3, <2>1
  <2>2. CASE chunk' = {} /\ \E run \in Sorted(filled) : runs' = Append(runs, run)
    <3>1. PICK run \in Sorted(filled) : runs' = Append(runs, run)
      BY <2>2
    <3>2. /\ runs' \in Seq(Seq(Record)) /\ Ordered(runs') /\ Apart(runs')
          /\ AllOf(runs') = AllOf(runs) \cup filled
      BY <1>2, <1>3, <3>1, OneMoreFile
    <3> QED
      BY <1>1, <1>2, <2>2, <3>2
  <2> QED
    BY <1>1, <2>1, <2>2
<1>5. TypeOK'
  BY <1>1, <1>2, <1>4 DEF IInv, TypeOK
<1>6. PhaseSound' /\ CompleteAtEnd'
  BY <1>1, <1>2 DEF PhaseSound, CompleteAtEnd
<1>7. FilesSound'
  BY <1>1, <1>2, <1>4 DEF FilesSound, HeapSound
<1>8. OutputSound' /\ SortedOutput'
  BY <1>1, <1>2, NoOutputYet
<1>9. NothingLost'
  <2>1. heap' = {} /\ out' = <<>>
    BY <1>1, <1>2
  <2>2. Pending' = AllOf(runs') /\ Emitted' = {}
    BY <2>1 DEF Pending, AllOf, Emitted, Elements
  <2> QED
    BY <1>4, <2>2 DEF NothingLost
<1> QED
  BY <1>5, <1>6, <1>7, <1>8, <1>9 DEF IInv

LEMMA BeginMergeInv == ASSUME IInv, BeginMerge PROVE IInv'
<1>1. /\ phase = "visit" /\ phase' = "merge" /\ chunk' = {}
      /\ UNCHANGED <<limit, visited, out, cause, warned, status>>
  BY DEF BeginMerge
<1>2. /\ heap = {} /\ out = <<>> /\ cause = "none"
      /\ runs \in Seq(Seq(Record)) /\ Ordered(runs) /\ Apart(runs)
      /\ visited = chunk \cup AllOf(runs) /\ chunk \cap AllOf(runs) = {}
      /\ chunk \subseteq Record /\ IsFiniteSet(chunk)
  BY <1>1, WhileVisiting, FiniteSubset DEF IInv, TypeOK
<1>3. PICK files : /\ files \in Seq(Seq(Record)) /\ Ordered(files) /\ Apart(files)
                   /\ AllOf(files) = visited
                   /\ heap' = FirstOfRuns(files) /\ runs' = RestOfRuns(files)
  <2>1. PICK last \in Sorted(chunk) :
            LET files == IF chunk = {} THEN runs ELSE Append(runs, last)
            IN  heap' = FirstOfRuns(files) /\ runs' = RestOfRuns(files)
    BY DEF BeginMerge
  <2>2. CASE chunk = {}
    BY <1>2, <2>1, <2>2
  <2>3. CASE chunk # {}
    <3>1. /\ Append(runs, last) \in Seq(Seq(Record))
          /\ Ordered(Append(runs, last)) /\ Apart(Append(runs, last))
          /\ AllOf(Append(runs, last)) = visited
      BY <1>2, <2>1, OneMoreFile
    <3> QED
      BY <2>1, <2>3, <3>1
  <2> QED
    BY <2>2, <2>3
<1>4. /\ runs' \in Seq(Seq(Record)) /\ Ordered(runs') /\ Apart(runs')
      /\ HeapSound(heap', runs') /\ HeapFull(heap', runs')
      /\ AllIn(heap', runs') = visited
  BY <1>3, FirstAndRest
<1>5. TypeOK'
  <2>1. heap' \subseteq [record : Record, run : DOMAIN runs']
    BY <1>4 DEF HeapSound
  <2> QED
    BY <1>1, <1>4, <2>1 DEF IInv, TypeOK
<1>6. PhaseSound' /\ CompleteAtEnd'
  BY <1>1, <1>2 DEF PhaseSound, CompleteAtEnd
<1>7. FilesSound'
  BY <1>1, <1>4 DEF FilesSound
<1>8. OutputSound' /\ SortedOutput'
  BY <1>1, <1>2, NoOutputYet
<1>9. NothingLost'
  <2>1. Pending' = visited'
    BY <1>1, <1>4 DEF Pending, AllIn, AllOf
  <2>2. out' = <<>>
    BY <1>1, <1>2
  <2>3. Emitted' = {}
    BY <2>2 DEF Emitted, Elements
  <2> QED
    BY <1>1, <2>1, <2>3 DEF NothingLost
<1> QED
  BY <1>5, <1>6, <1>7, <1>8, <1>9 DEF IInv

LEMMA WhileMerging ==
    ASSUME IInv, phase = "merge"
    PROVE  /\ chunk = {} /\ cause = "none"
           /\ runs \in Seq(Seq(Record)) /\ Ordered(runs) /\ Apart(runs)
           /\ HeapSound(heap, runs) /\ HeapFull(heap, runs)
           /\ visited \ Emitted = AllIn(heap, runs)
           /\ Emitted \subseteq visited
  BY PendingIsAll DEF IInv, TypeOK, PhaseSound, FilesSound, NothingLost

(* One more record in the output, the first of those that are left. *)
LEMMA EmitEffect ==
    ASSUME IInv, phase = "merge", MoreWanted, NEW node \in heap, Top(node),
           out' = Append(out, node.record), visited' = visited, limit' = limit
    PROVE  /\ node.record \in visited \ Emitted
           /\ \A r \in visited \ Emitted : NotAfter(node.record, r)
           /\ out' \in Seq(Record)
           /\ Emitted' = Emitted \cup {node.record}
           /\ OutputSound' /\ SortedOutput'
<1> DEFINE n == Len(out) + 1
<1>1. /\ runs \in Seq(Seq(Record)) /\ HeapSound(heap, runs) /\ HeapFull(heap, runs)
      /\ visited \ Emitted = AllIn(heap, runs)
  BY WhileMerging
<1>2. node.record \in visited \ Emitted
  BY <1>1 DEF AllIn
<1>3. \A r \in visited \ Emitted : NotAfter(node.record, r)
  BY <1>1, TopIsFirst
<1>4. out \in Seq(Record) /\ node.record \in Record /\ limit \in Nat
  BY <1>2, LimitAssumption DEF IInv, TypeOK
<1>5. /\ out' \in Seq(Record) /\ DOMAIN out' = 1 .. n /\ DOMAIN out = 1 .. Len(out)
      /\ n \in Nat /\ Len(out) \in Nat /\ Len(out') = n
      /\ \A k \in DOMAIN out : out'[k] = out[k]
      /\ out'[n] = node.record
  BY <1>4
<1> HIDE DEF n
<1>6. \A k \in DOMAIN out' : (k \in DOMAIN out /\ k < n) \/ k = n
  BY <1>5 DEF n
<1>7. DOMAIN out \subseteq DOMAIN out' /\ n \in DOMAIN out'
  BY <1>5 DEF n
<1>8. Emitted' = Emitted \cup {node.record}
  BY <1>5, <1>6, <1>7 DEF Emitted, Elements
<1>9. \A k \in DOMAIN out : out[k] \in Emitted /\ out[k] # node.record
                          /\ NotAfter(out[k], node.record)
  BY <1>2 DEF Emitted, Elements, IInv, OutputSound
<1>10. SortedOutput'
  <2> SUFFICES ASSUME NEW i \in DOMAIN out', NEW j \in DOMAIN out', i < j
               PROVE  NotAfter(out'[i], out'[j])
    BY DEF SortedOutput
  <2>1. i \in DOMAIN out
    BY <1>5, <1>6
  <2>2. CASE j = n
    BY <1>5, <1>9, <2>1, <2>2
  <2>3. CASE j \in DOMAIN out
    BY <1>5, <2>1, <2>3 DEF IInv, SortedOutput
  <2> QED
    BY <1>6, <2>2, <2>3
<1>11. OutputSound'
  <2>1. \A i, j \in DOMAIN out' : out'[i] = out'[j] => i = j
    BY <1>5, <1>6, <1>9 DEF IInv, OutputSound
  <2>2. Emitted' \subseteq visited'
    BY <1>2, <1>8 DEF IInv, OutputSound
  <2>3. \A k \in DOMAIN out' : \A r \in visited' \ Emitted' : NotAfter(out'[k], r)
    BY <1>3, <1>5, <1>6, <1>8 DEF IInv, OutputSound
  <2>4. Len(out') <= limit'
    BY <1>4, <1>5 DEF MoreWanted, n
  <2> QED
    BY <2>1, <2>2, <2>3, <2>4 DEF OutputSound
<1> QED
  BY <1>2, <1>3, <1>5, <1>8, <1>10, <1>11

LEMMA EmitInv == ASSUME IInv, Emit PROVE IInv'
<1>1. PICK node \in heap : Top(node) /\ out' = Append(out, node.record) /\ Refill(node)
  BY DEF Emit
<1>2. /\ phase = "merge" /\ MoreWanted
      /\ UNCHANGED <<phase, limit, visited, chunk, cause, warned, status>>
  BY DEF Emit
<1>3. /\ chunk = {} /\ cause = "none"
      /\ runs \in Seq(Seq(Record)) /\ Ordered(runs) /\ Apart(runs)
      /\ HeapSound(heap, runs) /\ HeapFull(heap, runs)
      /\ visited \ Emitted = AllIn(heap, runs) /\ Emitted \subseteq visited
  BY <1>2, WhileMerging
<1>4. /\ runs' \in Seq(Seq(Record)) /\ Ordered(runs') /\ Apart(runs')
      /\ HeapSound(heap', runs') /\ HeapFull(heap', runs')
      /\ AllIn(heap', runs') = AllIn(heap, runs) \ {node.record}
  BY <1>1, <1>3, RefillKeeps
<1>5. /\ node.record \in visited \ Emitted /\ out' \in Seq(Record)
      /\ Emitted' = Emitted \cup {node.record} /\ OutputSound' /\ SortedOutput'
  BY <1>1, <1>2, EmitEffect
<1>6. TypeOK'
  <2>1. heap' \subseteq [record : Record, run : DOMAIN runs']
    BY <1>4 DEF HeapSound
  <2> QED
    BY <1>2, <1>4, <1>5, <2>1 DEF IInv, TypeOK
<1>7. PhaseSound' /\ CompleteAtEnd'
  BY <1>2, <1>3 DEF PhaseSound, CompleteAtEnd
<1>8. FilesSound'
  BY <1>2, <1>4 DEF FilesSound
<1>9. NothingLost'
  <2>1. Pending' = AllIn(heap', runs')
    BY DEF Pending, AllIn, AllOf
  <2> QED
    BY <1>2, <1>3, <1>4, <1>5, <2>1 DEF NothingLost
<1> QED
  BY <1>5, <1>6, <1>7, <1>8, <1>9 DEF IInv

(* A failure in the middle of the merge, with or without the line out. *)
LEMMA MergeFailsInv ==
    ASSUME IInv, phase = "merge", NEW why \in Causes \ {"none"}, Fail(why),
           heap' \subseteq heap, UNCHANGED <<visited, chunk, runs>>,
           out' \in Seq(Record), OutputSound', SortedOutput'
    PROVE  IInv'
<1> USE DEF Fail
<1>1. TypeOK'
  BY DEF IInv, TypeOK, MainStatus
<1>2. PhaseSound' /\ FilesSound' /\ NothingLost' /\ CompleteAtEnd'
  BY DEF PhaseSound, FilesSound, NothingLost, CompleteAtEnd
<1> QED
  BY <1>1, <1>2 DEF IInv

LEMMA EmitFailsInv == ASSUME IInv, EmitFails PROVE IInv'
<1>1. PICK why \in {"output", "pipe closed"} : Fail(why)
  BY DEF EmitFails
<1>2. phase = "merge" /\ heap' \subseteq heap /\ UNCHANGED <<visited, chunk, runs, out, limit>>
  BY <1>1 DEF EmitFails, Fail
<1>3. OutputSound' /\ SortedOutput' /\ out' \in Seq(Record)
  BY <1>2 DEF IInv, TypeOK, OutputSound, SortedOutput, Emitted
<1> QED
  BY <1>1, <1>2, <1>3, MergeFailsInv DEF Causes

LEMMA RefillFailsInv == ASSUME IInv, RefillFails PROVE IInv'
<1>1. PICK node \in heap :
          Top(node) /\ out' = Append(out, node.record) /\ heap' = heap \ {node}
  BY DEF RefillFails
<1>2. /\ phase = "merge" /\ MoreWanted /\ Fail("temporary file")
      /\ UNCHANGED <<visited, chunk, runs, limit>>
  BY DEF RefillFails, Fail
<1>3. OutputSound' /\ SortedOutput' /\ out' \in Seq(Record)
  BY <1>1, <1>2, EmitEffect
<1> QED
  BY <1>1, <1>2, <1>3, MergeFailsInv DEF Causes

(* The output has as many records as were written. *)
LEMMA EmittedCount ==
    ASSUME IInv
    PROVE  /\ Cardinality(Emitted) = Len(out)
           /\ Len(out) \in Nat /\ Cardinality(visited) \in Nat
           /\ Len(out) <= Cardinality(visited)
<1>1. out \in Seq(Record) /\ visited \subseteq Record /\ Emitted \subseteq visited
  BY DEF IInv, TypeOK, OutputSound
<1>2. DOMAIN out = 1 .. Len(out) /\ Len(out) \in Nat
  BY <1>1
<1>3. IsFiniteSet(visited) /\ IsFiniteSet(Emitted)
  BY <1>1, FiniteSubset
<1>4. out \in [1 .. Len(out) -> Emitted]
  BY <1>1, <1>2 DEF Emitted, Elements
<1>5. out \in Surjection(1 .. Len(out), Emitted) /\ out \in Injection(1 .. Len(out), Emitted)
  BY <1>2, <1>4 DEF IInv, OutputSound, Surjection, Injection, IsInjective, Emitted, Elements
<1>6. IsFiniteSet(1 .. Len(out)) /\ Cardinality(1 .. Len(out)) = Len(out)
  <2>1. \A n \in Nat : IsFiniteSet(1 .. n) /\ Cardinality(1 .. n) = n
    <3> TAKE n \in Nat
    <3>1. IsFiniteSet(1 .. n) /\ Cardinality(1 .. n) = IF 1 > n THEN 0 ELSE n - 1 + 1
      BY FS_Interval
    <3> QED
      BY <3>1
  <2> QED
    BY <1>2, <2>1
<1>7. Cardinality(Emitted) = Len(out)
  BY <1>3, <1>5, <1>6, FS_Injection
<1>8. Cardinality(Emitted) <= Cardinality(visited) /\ Cardinality(visited) \in Nat
  BY <1>1, <1>3, FS_Subset, FS_CardinalityType
<1> QED
  BY <1>2, <1>7, <1>8

LEMMA EndMergeInv == ASSUME IInv, EndMerge PROVE IInv'
<1>1. /\ phase = "merge" /\ ~MoreWanted /\ phase' = "exit" /\ warned' = Truncated
      /\ UNCHANGED <<limit, visited, chunk, runs, heap, out, cause, status>>
  BY DEF EndMerge, data
<1>2. TypeOK'
  BY <1>1 DEF IInv, TypeOK, Truncated
<1>3. PhaseSound' /\ FilesSound' /\ NothingLost'
  BY <1>1 DEF PhaseSound, FilesSound, NothingLost
<1>4. OutputSound' /\ SortedOutput'
  BY <1>1 DEF IInv, OutputSound, SortedOutput, Emitted
<1>5. CompleteAtEnd'
  <2>1. /\ Cardinality(Emitted) = Len(out) /\ Len(out) <= limit /\ limit \in Nat
        /\ Len(out) \in Nat /\ Cardinality(visited) \in Nat /\ Len(out) <= Cardinality(visited)
    BY EmittedCount, LimitAssumption DEF IInv, TypeOK, OutputSound
  <2>2. Len(out) = IF limit < Cardinality(visited) THEN limit ELSE Cardinality(visited)
    <3>1. CASE heap = {}
      <4>1. AllOf(runs) = {}
        <5> SUFFICES ASSUME NEW k \in DOMAIN runs PROVE runs[k] = <<>>
          BY DEF AllOf, Elements
        <5> QED
          BY <1>1, <3>1, WhileMerging DEF HeapFull
      <4>2. visited = Emitted
        BY <1>1, <3>1, <4>1, WhileMerging DEF AllIn
      <4> QED
        BY <2>1, <4>2
    <3>2. CASE heap # {}
      BY <1>1, <2>1, <3>2 DEF MoreWanted
    <3> QED
      BY <3>1, <3>2
  <2>3. out' = out /\ visited' = visited /\ limit' = limit
    BY <1>1
  <2>4. Len(out') = IF limit' < Cardinality(visited') THEN limit' ELSE Cardinality(visited')
    BY <2>2, <2>3
  <2>5. warned' <=> Len(out') < Cardinality(visited')
    BY <1>1, <2>3 DEF Truncated
  <2> QED
    BY <2>4, <2>5 DEF CompleteAtEnd
<1> QED
  BY <1>2, <1>3, <1>4, <1>5 DEF IInv

LEMMA InvNext == IInv /\ [Next]_vars => IInv'
<1> SUFFICES ASSUME IInv, [Next]_vars PROVE IInv'
  OBVIOUS
<1>1. ASSUME NEW r \in Record, Add(r) PROVE IInv'
  BY <1>1, AddInv
<1>2. ASSUME NEW r \in Record, AddFails(r) PROVE IInv'
  BY <1>2, FailInv DEF AddFails, Causes
<1>3. CASE Load
  BY <1>3, LoadInv
<1>4. CASE LoadFails \/ VisitFails \/ BeginMergeFails
  BY <1>4, FailInv DEF LoadFails, VisitFails, BeginMergeFails, Causes
<1>5. CASE BeginMerge
  BY <1>5, BeginMergeInv
<1>6. CASE Emit
  BY <1>6, EmitInv
<1>7. CASE EmitFails
  BY <1>7, EmitFailsInv
<1>8. CASE RefillFails
  BY <1>8, RefillFailsInv
<1>9. CASE EndMerge
  BY <1>9, EndMergeInv
<1>10. CASE VerifyFails
  BY <1>10, FailInv DEF VerifyFails, Causes
<1>11. CASE UNCHANGED vars
  <2>1. TypeOK' /\ PhaseSound' /\ FilesSound' /\ CompleteAtEnd'
    BY <1>11 DEF vars, IInv, TypeOK, PhaseSound, FilesSound, CompleteAtEnd
  <2>2. NothingLost'
    BY <1>11 DEF vars, IInv, NothingLost, Pending, Emitted
  <2>3. OutputSound' /\ SortedOutput'
    BY <1>11 DEF vars, IInv, OutputSound, SortedOutput, Emitted
  <2> QED
    BY <2>1, <2>2, <2>3 DEF IInv
<1> QED
  BY <1>1, <1>2, <1>3, <1>4, <1>5, <1>6, <1>7, <1>8, <1>9, <1>10, <1>11 DEF Next, Step, Done

-----------------------------------------------------------------------------
(* What the invariant says of every query *)

THEOREM Invariance == Spec => []IInv
  BY InvInit, InvNext, PTL DEF Spec

(* The state of the sorter always has its type. *)
THEOREM TypeCorrect == Spec => []TypeOK
<1>1. IInv => TypeOK
  BY DEF IInv
<1> QED
  BY <1>1, Invariance, PTL

(* However the visitors order the records and whatever the chunk size,     *)
(* what the query has written is in order, also when it fails half-way.    *)
THEOREM OutputIsSorted == Spec => []SortedOutput
<1>1. IInv => SortedOutput
  BY DEF IInv
<1> QED
  BY <1>1, Invariance, PTL

(* Neither flush_chunk nor the refill of the heap loses or repeats a       *)
(* record: it is in the chunk, in a file or the heap, or in the output.    *)
THEOREM NoRecordIsLost == Spec => []NothingLost
<1>1. IInv => NothingLost
  BY DEF IInv
<1> QED
  BY <1>1, Invariance, PTL

(* A query that finish completes has written as many records as --limit    *)
(* allows, and reports a truncation exactly when there were more.          *)
THEOREM CompleteWhenDone == Spec => []CompleteAtEnd
<1>1. IInv => CompleteAtEnd
  BY DEF IInv
<1> QED
  BY <1>1, Invariance, PTL

-----------------------------------------------------------------------------
(* The refinement *)

(* A failure before the merge ends the stream without output. *)
LEMMA FailSeals ==
    ASSUME phase \in {"load", "visit"}, phase' \in {"merge", "exit"},
           UNCHANGED <<visited, out>>
    PROVE  Stream!Seal
  BY DEF Stream!Seal

(* While the heap is merged, writing its top shows the next record. *)
LEMMA EmitShows ==
    ASSUME IInv, phase = "merge", phase' \in {"merge", "exit"}, MoreWanted,
           NEW node \in heap, Top(node),
           out' = Append(out, node.record), visited' = visited, limit' = limit
    PROVE  Stream!Show
<1>1. /\ node.record \in visited \ Emitted
      /\ \A r \in visited \ Emitted : NotAfter(node.record, r)
  BY EmitEffect
<1>2. Stream!Shown = Emitted
  BY DEF Stream!Shown, Emitted, Elements
<1> QED
  BY <1>1, <1>2 DEF Stream!Show

(* Every step of the sorter is a step of the stream, or changes nothing    *)
(* the stream has.                                                         *)
LEMMA StreamStep == IInv /\ [Next]_vars => [Stream!Next]_(Stream!stream)
<1> SUFFICES ASSUME IInv, [Next]_vars PROVE [Stream!Next]_(Stream!stream)
  OBVIOUS
<1> USE DEF Stream!Next
<1>1. ASSUME NEW r \in Record, Add(r) PROVE Stream!Take
  <2>1. /\ phase = "visit" /\ r \in Record \ visited /\ visited' = visited \cup {r}
        /\ UNCHANGED <<phase, out>>
    BY <1>1 DEF Add
  <2> QED
    BY <2>1 DEF Stream!Take
<1>2. ASSUME NEW r \in Record, AddFails(r) PROVE Stream!Seal
  BY <1>2, FailSeals DEF AddFails, Fail, data
<1>3. CASE LoadFails \/ VisitFails \/ BeginMergeFails
  BY <1>3, FailSeals DEF LoadFails, VisitFails, BeginMergeFails, Fail, data
<1>4. CASE BeginMerge
  BY <1>4, FailSeals DEF BeginMerge
<1>5. CASE Emit
  <2>1. PICK node \in heap : Top(node) /\ out' = Append(out, node.record)
    BY <1>5 DEF Emit
  <2> QED
    BY <1>5, <2>1, EmitShows DEF Emit
<1>6. CASE RefillFails
  <2>1. PICK node \in heap : Top(node) /\ out' = Append(out, node.record)
    BY <1>6 DEF RefillFails
  <2> QED
    BY <1>6, <2>1, EmitShows DEF RefillFails, Fail
<1>7. CASE Load \/ EmitFails \/ EndMerge \/ VerifyFails
  <2>1. visited' = visited /\ out' = out
    BY <1>7 DEF Load, EmitFails, EndMerge, VerifyFails, Fail, data
  <2>2. (phase' \in {"merge", "exit"}) = (phase \in {"merge", "exit"})
    <3>1. CASE phase = "load" /\ phase' = "visit"
      BY <3>1
    <3>2. CASE phase = "merge" /\ phase' = "exit"
      BY <3>2
    <3> QED
      BY <1>7, <3>1, <3>2 DEF Load, EmitFails, EndMerge, VerifyFails, Fail
  <2> QED
    BY <2>1, <2>2 DEF Stream!stream
<1>8. CASE UNCHANGED vars
  BY <1>8 DEF vars, Stream!stream
<1> QED
  BY <1>1, <1>2, <1>3, <1>4, <1>5, <1>6, <1>7, <1>8 DEF Next, Step, Done

(* Chunks, temporary files and the heap are one way to show the records    *)
(* smallest first, never skipping one: the output is at every moment a     *)
(* first part of the sorted records.                                       *)
THEOREM SorterImplementsStream == Spec => ImplementsOrderedOutput
<1>1. Init => Stream!Init
  BY DEF Init, Stream!Init
<1> QED
  BY <1>1, StreamStep, Invariance, PTL DEF Spec, ImplementsOrderedOutput, Stream!Spec

=============================================================================
