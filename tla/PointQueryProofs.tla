-------------------------- MODULE PointQueryProofs ---------------------------
(***************************************************************************)
(* Proofs about point queries, for any records, any point and any order in *)
(* which the records come: what is asked for is reported, once, and        *)
(* nothing else, and the counts are those of what was selected.            *)
(***************************************************************************)
EXTENDS PointQuery, FiniteSetTheorems, WellFoundedInduction, TLAPS

(* What reporting the newest and the earliest record depends on: the       *)
(* visitors hand out identities that are identities.  Those of the samples *)
(* of two addresses are not.                                               *)
IdentitiesAreUnique ==
    \A r, s \in Record : Identity(r) = Identity(s) => r = s

-----------------------------------------------------------------------------
(* The invariant *)

OptionsSound ==
    /\ at \in Int
    /\ at = NoPoint => select = {}
    /\ visited \subseteq Record

(* Each map has for its keys the record closest to the point, among those  *)
(* presented so far.                                                       *)
LatestSound ==
    /\ \A k \in DOMAIN latest :
          "latest" \in select /\ latest[k] \in Before /\ Key(latest[k]) = k
    /\ "latest" \in select =>
          \A r \in Before : Key(r) \in DOMAIN latest /\ r.time <= latest[Key(r)].time

NextSound ==
    /\ \A k \in DOMAIN next :
          "next" \in select /\ next[k] \in After /\ Key(next[k]) = k
    /\ "next" \in select =>
          \A r \in After : Key(r) \in DOMAIN next /\ next[Key(r)].time <= r.time

(* Until they are gathered the records kept are the active ones, and their *)
(* identities are known.                                                   *)
ActiveSound ==
    phase = "visit" =>
        /\ pointIds = Ids(Result)
        /\ \A e \in records : \E r \in visited : e = Entry("active", r) /\ IsActive(r)

-----------------------------------------------------------------------------
(* Records, keys and maps *)

LEMMA RecordTimes == ASSUME NEW r \in Record PROVE r.time \in Int
  BY RecordAssumption DEF Records

LEMMA IdentityHasKey ==
    ASSUME NEW r, NEW s, Identity(r) = Identity(s)
    PROVE  Key(r) = Key(s)
  BY DEF Identity, Key

LEMMA Assigned ==
    ASSUME NEW map, NEW key, NEW r
    PROVE  /\ DOMAIN Assign(map, key, r) = DOMAIN map \cup {key}
           /\ Assign(map, key, r)[key] = r
           /\ \A k \in DOMAIN map \ {key} : Assign(map, key, r)[k] = map[k]
  BY DEF Assign

LEMMA ResultMembers ==
    ASSUME NEW e \in records PROVE e.record \in Result
  BY DEF Result

-----------------------------------------------------------------------------
(* A record is presented *)

LEMMA VisitLatest ==
    ASSUME OptionsSound, LatestSound, NEW r \in Record, Visit(r)
    PROVE  LatestSound'
<1>1. /\ visited' = visited \cup {r} /\ at' = at /\ select' = select
      /\ latest' = IF Newest(r) THEN Assign(latest, Key(r), r) ELSE latest
  BY DEF Visit, options
<1>2. Before' = Before \cup {x \in {r} : x.time <= at}
  BY <1>1 DEF Before
<1>3. at \in Int /\ r.time \in Int /\ \A x \in Before : x.time \in Int
  BY RecordTimes DEF OptionsSound, Before
<1>4. CASE Newest(r)
  <2>1. r \in Before' /\ "latest" \in select
    BY <1>2, <1>4 DEF Newest
  <2>2. /\ DOMAIN latest' = DOMAIN latest \cup {Key(r)}
        /\ latest'[Key(r)] = r
        /\ \A k \in DOMAIN latest \ {Key(r)} : latest'[k] = latest[k]
    <3>1. latest' = Assign(latest, Key(r), r)
      BY <1>1, <1>4
    <3> QED
      BY <3>1 DEF Assign
  <2>3. ASSUME NEW k \in DOMAIN latest'
        PROVE  "latest" \in select' /\ latest'[k] \in Before' /\ Key(latest'[k]) = k
    BY <1>1, <1>2, <2>1, <2>2 DEF LatestSound
  <2>4. ASSUME NEW x \in Before'
        PROVE  Key(x) \in DOMAIN latest' /\ x.time <= latest'[Key(x)].time
    <3>1. CASE x = r
      BY <1>3, <2>2, <3>1
    <3>2. CASE x \in Before /\ Key(x) = Key(r)
      BY <1>3, <1>4, <2>1, <2>2, <3>2 DEF LatestSound, Newest
    <3>3. CASE x \in Before /\ Key(x) # Key(r)
      BY <2>1, <2>2, <3>3 DEF LatestSound
    <3> QED
      BY <1>2, <3>1, <3>2, <3>3
  <2> QED
    BY <2>3, <2>4 DEF LatestSound
<1>5. CASE ~Newest(r)
  <2>1. latest' = latest
    BY <1>1, <1>5
  <2>2. ASSUME NEW k \in DOMAIN latest
        PROVE  "latest" \in select' /\ latest[k] \in Before' /\ Key(latest[k]) = k
    BY <1>1, <1>2 DEF LatestSound
  <2>3. ASSUME "latest" \in select, NEW x \in Before'
        PROVE  Key(x) \in DOMAIN latest /\ x.time <= latest[Key(x)].time
    <3>1. CASE x \in Before
      BY <2>3, <3>1 DEF LatestSound
    <3>2. CASE x = r /\ r.time <= at
      <4>1. Key(r) \in DOMAIN latest /\ ~(latest[Key(r)].time < r.time)
        BY <1>5, <2>3, <3>2 DEF Newest
      <4>2. latest[Key(r)] \in Before
        BY <4>1 DEF LatestSound
      <4> QED
        BY <1>3, <3>2, <4>1, <4>2
    <3> QED
      BY <1>2, <3>1, <3>2
  <2> QED
    BY <1>1, <2>1, <2>2, <2>3 DEF LatestSound
<1> QED
  BY <1>4, <1>5

LEMMA VisitNext ==
    ASSUME OptionsSound, NextSound, NEW r \in Record, Visit(r)
    PROVE  NextSound'
<1>1. /\ visited' = visited \cup {r} /\ at' = at /\ select' = select
      /\ next' = IF Earliest(r) THEN Assign(next, Key(r), r) ELSE next
  BY DEF Visit, options
<1>2. After' = After \cup {x \in {r} : x.time >= at}
  BY <1>1 DEF After
<1>3. at \in Int /\ r.time \in Int /\ \A x \in After : x.time \in Int
  BY RecordTimes DEF OptionsSound, After
<1>4. CASE Earliest(r)
  <2>1. r \in After' /\ "next" \in select
    BY <1>2, <1>4 DEF Earliest
  <2>2. /\ DOMAIN next' = DOMAIN next \cup {Key(r)}
        /\ next'[Key(r)] = r
        /\ \A k \in DOMAIN next \ {Key(r)} : next'[k] = next[k]
    <3>1. next' = Assign(next, Key(r), r)
      BY <1>1, <1>4
    <3> QED
      BY <3>1 DEF Assign
  <2>3. ASSUME NEW k \in DOMAIN next'
        PROVE  "next" \in select' /\ next'[k] \in After' /\ Key(next'[k]) = k
    BY <1>1, <1>2, <2>1, <2>2 DEF NextSound
  <2>4. ASSUME NEW x \in After'
        PROVE  Key(x) \in DOMAIN next' /\ next'[Key(x)].time <= x.time
    <3>1. CASE x = r
      BY <1>3, <2>2, <3>1
    <3>2. CASE x \in After /\ Key(x) = Key(r)
      BY <1>3, <1>4, <2>1, <2>2, <3>2 DEF NextSound, Earliest
    <3>3. CASE x \in After /\ Key(x) # Key(r)
      BY <2>1, <2>2, <3>3 DEF NextSound
    <3> QED
      BY <1>2, <3>1, <3>2, <3>3
  <2> QED
    BY <2>3, <2>4 DEF NextSound
<1>5. CASE ~Earliest(r)
  <2>1. next' = next
    BY <1>1, <1>5
  <2>2. ASSUME NEW k \in DOMAIN next
        PROVE  "next" \in select' /\ next[k] \in After' /\ Key(next[k]) = k
    BY <1>1, <1>2 DEF NextSound
  <2>3. ASSUME "next" \in select, NEW x \in After'
        PROVE  Key(x) \in DOMAIN next /\ next[Key(x)].time <= x.time
    <3>1. CASE x \in After
      BY <2>3, <3>1 DEF NextSound
    <3>2. CASE x = r /\ r.time >= at
      <4>1. Key(r) \in DOMAIN next /\ ~(next[Key(r)].time > r.time)
        BY <1>5, <2>3, <3>2 DEF Earliest
      <4>2. next[Key(r)] \in After
        BY <4>1 DEF NextSound
      <4> QED
        BY <1>3, <3>2, <4>1, <4>2
    <3> QED
      BY <1>2, <3>1, <3>2
  <2> QED
    BY <1>1, <2>1, <2>2, <2>3 DEF NextSound
<1> QED
  BY <1>4, <1>5

LEMMA VisitActive ==
    ASSUME ActiveSound, ReportedOnce, NEW r \in Record, Visit(r)
    PROVE  ActiveSound' /\ ReportedOnce'
<1>1. /\ phase = "visit" /\ phase' = "visit" /\ visited' = visited \cup {r}
      /\ at' = at /\ select' = select
  BY DEF Visit, options
<1>2. /\ pointIds = Ids(Result)
      /\ \A e \in records : \E x \in visited : e = Entry("active", x) /\ IsActive(x)
  BY <1>1 DEF ActiveSound
<1>3. \A x : IsActive(x)' <=> IsActive(x)
  BY <1>1 DEF IsActive
<1>4. CASE IsActive(r) /\ Identity(r) \notin pointIds
  <2> DEFINE n == Entry("active", r)
  <2>1. records' = records \cup {n} /\ pointIds' = pointIds \cup {Identity(r)}
    BY <1>4 DEF Visit
  <2>2. n.record = r
    BY DEF Entry
  <2>3. Result' = Result \cup {r}
    BY <2>1, <2>2 DEF Result
  <2>4. pointIds' = Ids(Result')
    BY <1>2, <2>1, <2>3 DEF Ids
  <2>5. ASSUME NEW e \in records'
        PROVE  \E x \in visited' : e = Entry("active", x) /\ IsActive(x)'
    BY <1>1, <1>2, <1>3, <1>4, <2>1
  <2>6. \A e \in records : Identity(e.record) \in pointIds
    BY <1>2 DEF Result, Ids
  <2>7. ReportedOnce'
    BY <1>4, <2>1, <2>2, <2>6 DEF ReportedOnce
  <2> QED
    BY <2>4, <2>5, <2>6, <2>7 DEF ActiveSound, Ids
<1>5. CASE ~(IsActive(r) /\ Identity(r) \notin pointIds)
  <2>1. records' = records /\ pointIds' = pointIds
    BY <1>5 DEF Visit
  <2>2. Result' = Result
    BY <2>1 DEF Result
  <2>3. ASSUME NEW e \in records'
        PROVE  \E x \in visited' : e = Entry("active", x) /\ IsActive(x)'
    BY <1>1, <1>2, <1>3, <2>1
  <2> QED
    BY <1>2, <2>1, <2>2, <2>3 DEF ActiveSound, ReportedOnce, Ids
<1> QED
  BY <1>4, <1>5


-----------------------------------------------------------------------------
(* The maps are put together *)

LEMMA GatherEffect ==
    ASSUME Gather
    PROVE  LET L == Fresh(latest, pointIds)
               N == Fresh(next, pointIds \cup Ids(L))
           IN  /\ records' = records \cup {Entry("latest", r) : r \in L}
                                     \cup {Entry("next", r) : r \in N}
               /\ Result' = Result \cup L \cup N
<1> DEFINE L == Fresh(latest, pointIds)
           N == Fresh(next, pointIds \cup Ids(L))
<1>1. records' = records \cup {Entry("latest", r) : r \in L} \cup {Entry("next", r) : r \in N}
  BY DEF Gather
<1> HIDE DEF L, N
<1>2. \A r : Entry("latest", r).record = r /\ Entry("next", r).record = r
  BY DEF Entry
<1>3. Result' = Result \cup L \cup N
  BY <1>1, <1>2 DEF Result
<1> QED
  BY <1>1, <1>3 DEF L, N

(* A record that is left out because its identity is known is there. *)
LEMMA KnownIsThere ==
    ASSUME IdentitiesAreUnique, NEW S \in SUBSET Record, NEW r \in Record,
           Identity(r) \in Ids(S)
    PROVE  r \in S
  BY DEF IdentitiesAreUnique, Ids

LEMMA GatherLatest ==
    ASSUME IdentitiesAreUnique, OptionsSound, LatestSound, ActiveSound, Gather
    PROVE  LatestReported'
<1> DEFINE L == Fresh(latest, pointIds)
<1>1. phase = "visit" /\ UNCHANGED <<options, visited>>
  BY DEF Gather
<1>2. L \subseteq Result'
  BY GatherEffect
<1>3. pointIds = Ids(Result) /\ Result \subseteq visited /\ Result \subseteq Result'
  <2>1. \A e \in records : e.record \in visited
    BY <1>1 DEF ActiveSound, Entry
  <2>2. Result \subseteq visited
    BY <2>1 DEF Result
  <2> QED
    BY <1>1, <2>2, GatherEffect DEF ActiveSound
<1>4. ASSUME "latest" \in select, NEW r \in Before
      PROVE  \E s \in Result' : Key(s) = Key(r) /\ r.time <= s.time /\ s.time <= at
  <2> DEFINE m == latest[Key(r)]
  <2>1. /\ Key(r) \in DOMAIN latest /\ r.time <= m.time
        /\ m \in Before /\ Key(m) = Key(r)
    BY <1>4 DEF LatestSound
  <2>2. m \in Record /\ m.time <= at
    BY <2>1 DEF Before, OptionsSound
  <2>3. m \in Result'
    <3>1. CASE Identity(m) \notin pointIds
      BY <1>2, <2>1, <3>1 DEF Fresh
    <3>2. CASE Identity(m) \in pointIds
      BY <1>3, <2>2, <3>2, KnownIsThere DEF OptionsSound
    <3> QED
      BY <3>1, <3>2
  <2> QED
    BY <2>1, <2>2, <2>3
<1> QED
  BY <1>1, <1>4 DEF LatestReported, Before, options

LEMMA GatherNext ==
    ASSUME IdentitiesAreUnique, OptionsSound, LatestSound, NextSound, ActiveSound, Gather
    PROVE  NextReported'
<1> DEFINE L == Fresh(latest, pointIds)
           N == Fresh(next, pointIds \cup Ids(L))
<1>1. phase = "visit" /\ UNCHANGED <<options, visited>>
  BY DEF Gather
<1>2. Result' = Result \cup L \cup N
  BY GatherEffect
<1>3. pointIds = Ids(Result) /\ Result \subseteq Record
  <2>1. \A e \in records : e.record \in visited
    BY <1>1 DEF ActiveSound, Entry
  <2> QED
    BY <1>1, <2>1 DEF ActiveSound, Result, OptionsSound
<1>4. L \subseteq Record
  BY DEF Fresh, LatestSound, Before, OptionsSound
<1>5. ASSUME "next" \in select, NEW r \in After
      PROVE  \E s \in Result' : Key(s) = Key(r) /\ at <= s.time /\ s.time <= r.time
  <2> DEFINE m == next[Key(r)]
  <2>1. /\ Key(r) \in DOMAIN next /\ m.time <= r.time
        /\ m \in After /\ Key(m) = Key(r)
    BY <1>5 DEF NextSound
  <2>2. m \in Record /\ m.time >= at
    BY <2>1 DEF After, OptionsSound
  <2>3. at <= m.time
    BY <2>2, RecordTimes DEF OptionsSound
  <2>4. m \in Result'
    <3> HIDE DEF L
    <3>1. CASE Identity(m) \notin pointIds \cup Ids(L)
      BY <1>2, <2>1, <3>1 DEF Fresh
    <3>2. CASE Identity(m) \in Ids(Result)
      BY <1>2, <1>3, <2>2, <3>2, KnownIsThere
    <3>3. CASE Identity(m) \in Ids(L)
      BY <1>2, <1>4, <2>2, <3>3, KnownIsThere
    <3> QED
      BY <1>3, <3>1, <3>2, <3>3
  <2> QED
    BY <2>1, <2>3, <2>4
<1> QED
  BY <1>1, <1>5 DEF NextReported, After, options

LEMMA GatherWanted ==
    ASSUME OptionsSound, LatestSound, NextSound, ActiveSound, Gather
    PROVE  OnlyWanted'
<1> DEFINE L == Fresh(latest, pointIds)
           N == Fresh(next, pointIds \cup Ids(L))
<1>1. phase = "visit" /\ UNCHANGED <<options, visited>>
  BY DEF Gather
<1>2. Result' = Result \cup L \cup N
  BY GatherEffect
<1>3. ASSUME NEW r \in Result PROVE Wanted(r)
  <2>1. PICK e \in records : r = e.record
    BY DEF Result
  <2>2. PICK x \in visited : e = Entry("active", x) /\ IsActive(x)
    BY <1>1 DEF ActiveSound
  <2>3. r = x /\ x.time \in Int /\ x.end \in Int
    BY <2>1, <2>2, RecordAssumption DEF Entry, OptionsSound, Records
  <2> QED
    BY <2>2, <2>3 DEF IsActive, Wanted, OptionsSound
<1>4. ASSUME NEW r \in L PROVE Wanted(r)
  <2>1. PICK k \in DOMAIN latest : r = latest[k]
    BY <1>4 DEF Fresh
  <2> QED
    BY <2>1 DEF LatestSound, Wanted, Before
<1>5. ASSUME NEW r \in N PROVE Wanted(r)
  <2>1. PICK k \in DOMAIN next : r = next[k]
    BY <1>5 DEF Fresh
  <2>2. \A s \in After : Key(s) = k => r.time <= s.time
    BY <2>1 DEF NextSound
  <2>3. \A s \in After : s.time \in Int
    BY RecordTimes DEF After, OptionsSound
  <2>4. r \in After /\ Key(r) = k /\ "next" \in select
    BY <2>1 DEF NextSound
  <2>5. \A s \in After : Key(s) = Key(r) => s.time >= r.time
    BY <2>2, <2>3, <2>4
  <2> QED
    BY <2>4, <2>5 DEF Wanted, After
<1>6. \A r : Wanted(r)' <=> Wanted(r)
  BY <1>1 DEF Wanted, Before, After, options
<1> QED
  BY <1>2, <1>3, <1>4, <1>5, <1>6 DEF OnlyWanted

(* The maps have one record for each key, and an identity has its key. *)
LEMMA FreshOnce ==
    ASSUME LatestSound, NextSound,
           NEW map \in {latest, next}, NEW ids,
           NEW r \in Fresh(map, ids), NEW s \in Fresh(map, ids), Identity(r) = Identity(s)
    PROVE  r = s /\ Identity(r) \notin ids
<1>1. PICK k \in DOMAIN map : r = map[k] /\ Identity(map[k]) \notin ids
  BY DEF Fresh
<1>2. PICK l \in DOMAIN map : s = map[l] /\ Identity(map[l]) \notin ids
  BY DEF Fresh
<1>3. Key(r) = k /\ Key(s) = l
  BY <1>1, <1>2 DEF LatestSound, NextSound
<1> QED
  BY <1>1, <1>2, <1>3, IdentityHasKey

LEMMA GatherOnce ==
    ASSUME LatestSound, NextSound, ActiveSound, ReportedOnce, Gather
    PROVE  ReportedOnce'
<1> DEFINE L == Fresh(latest, pointIds)
           N == Fresh(next, pointIds \cup Ids(L))
<1>1. records' = records \cup {Entry("latest", r) : r \in L} \cup {Entry("next", r) : r \in N}
  BY GatherEffect
<1>2. \A e \in records : Identity(e.record) \in pointIds
  <2>1. phase = "visit"
    BY DEF Gather
  <2> QED
    BY <2>1 DEF ActiveSound, Ids, Result
<1>3. /\ \A r \in L : Identity(r) \notin pointIds
      /\ \A r, s \in L : Identity(r) = Identity(s) => r = s
  BY FreshOnce
<1>4. /\ \A r \in N : Identity(r) \notin pointIds \cup Ids(L)
      /\ \A r, s \in N : Identity(r) = Identity(s) => r = s
  BY FreshOnce
<1>5. \A r \in L : Identity(r) \in Ids(L)
  BY DEF Ids
<1> HIDE DEF L, N
<1> SUFFICES ASSUME NEW e \in records', NEW f \in records',
                    Identity(e.record) = Identity(f.record)
             PROVE  e = f
  BY DEF ReportedOnce
<1>6. /\ e \in records \/ (\E r \in L : e = Entry("latest", r)) \/ \E r \in N : e = Entry("next", r)
      /\ f \in records \/ (\E r \in L : f = Entry("latest", r)) \/ \E r \in N : f = Entry("next", r)
  BY <1>1
<1>7. \A r : Entry("latest", r).record = r /\ Entry("next", r).record = r
  BY DEF Entry
<1>8. CASE e \in records
  BY <1>2, <1>3, <1>4, <1>6, <1>7, <1>8 DEF ReportedOnce
<1>9. CASE \E r \in L : e = Entry("latest", r)
  BY <1>2, <1>3, <1>4, <1>5, <1>6, <1>7, <1>9
<1>10. CASE \E r \in N : e = Entry("next", r)
  BY <1>2, <1>3, <1>4, <1>5, <1>6, <1>7, <1>10
<1> QED
  BY <1>6, <1>8, <1>9, <1>10


-----------------------------------------------------------------------------
(* The steps *)

IInv ==
    /\ OptionsSound
    /\ LatestSound
    /\ NextSound
    /\ ActiveSound
    /\ OnlyWanted
    /\ ReportedOnce

(* Nothing is in the result yet, and nothing of it is claimed. *)
LEMMA InitIInv == Init => IInv
<1> SUFFICES ASSUME Init PROVE IInv
  OBVIOUS
<1>1. visited = {} /\ records = {} /\ pointIds = {} /\ phase = "visit"
      /\ latest = <<>> /\ next = <<>>
  BY DEF Init
<1>2. at \in Int /\ (at = NoPoint => select = {})
  <2>1. at \in AtTimes \/ at = NoPoint
    BY DEF Init
  <2>2. at \in Int
    <3>1. CASE at \in AtTimes
      BY <3>1, AtAssumption
    <3>2. CASE at = NoPoint
      BY <3>2 DEF NoPoint
    <3> QED
      BY <2>1, <3>1, <3>2
  <2>3. select \in IF at = NoPoint THEN {{}} ELSE SUBSET Selectors \ {{}}
    BY DEF Init
  <2> QED
    BY <2>2, <2>3
<1>3. Before = {} /\ After = {} /\ Result = {}
  BY <1>1 DEF Before, After, Result
<1>4. DOMAIN latest = {} /\ DOMAIN next = {}
  BY <1>1
<1>5. LatestSound /\ NextSound
  BY <1>3, <1>4 DEF LatestSound, NextSound
<1>6. ActiveSound /\ ReportedOnce
  BY <1>1, <1>3 DEF ActiveSound, ReportedOnce, Ids
<1>7. OnlyWanted
  BY <1>3 DEF OnlyWanted
<1> QED
  BY <1>1, <1>2, <1>5, <1>6, <1>7 DEF IInv, OptionsSound

LEMMA StutterIInv ==
    ASSUME IInv, UNCHANGED <<phase, at, select, visited, latest, next, pointIds, records>>
    PROVE  IInv'
<1>1. Before' = Before /\ After' = After /\ Result' = Result
  BY DEF Before, After, Result
<1>2. \A r : (Wanted(r)' <=> Wanted(r)) /\ (IsActive(r)' <=> IsActive(r))
  BY <1>1 DEF Wanted, IsActive
<1>3. LatestSound' /\ NextSound' /\ OptionsSound'
  BY <1>1 DEF IInv, LatestSound, NextSound, OptionsSound
<1>4. ActiveSound'
  BY <1>1, <1>2 DEF IInv, ActiveSound, Ids
<1>5. OnlyWanted' /\ ReportedOnce'
  BY <1>1, <1>2 DEF IInv, OnlyWanted, ReportedOnce, Gathered
<1> QED
  BY <1>3, <1>4, <1>5 DEF IInv

(* Without a point nothing is asked of the maps. *)
LEMMA CountRecordIInv ==
    ASSUME IInv, NEW r \in Record, CountRecord(r) PROVE IInv'
<1>1. /\ phase = "visit" /\ at = NoPoint /\ visited' = visited \cup {r}
      /\ UNCHANGED <<phase, at, select, latest, next, pointIds, records>>
  BY DEF CountRecord, options, maps
<1>2. select = {} /\ OptionsSound'
  BY <1>1 DEF IInv, OptionsSound
<1>3. DOMAIN latest = {} /\ DOMAIN next = {}
  BY <1>2 DEF IInv, LatestSound, NextSound
<1>4. LatestSound' /\ NextSound'
  BY <1>1, <1>2, <1>3 DEF LatestSound, NextSound
<1>5. ActiveSound' /\ ReportedOnce'
  <2>1. Result' = Result
    BY <1>1 DEF Result
  <2>2. \A x : IsActive(x)' <=> IsActive(x)
    BY <1>1 DEF IsActive
  <2> QED
    BY <1>1, <2>1, <2>2 DEF IInv, ActiveSound, ReportedOnce, Ids
<1>6. OnlyWanted'
  BY <1>1 DEF OnlyWanted, Gathered
<1> QED
  BY <1>2, <1>4, <1>5, <1>6 DEF IInv

LEMMA VisitIInv ==
    ASSUME IInv, NEW r \in Record, Visit(r) PROVE IInv'
<1>1. LatestSound' /\ NextSound' /\ ActiveSound' /\ ReportedOnce'
  BY VisitLatest, VisitNext, VisitActive DEF IInv
<1>2. phase' = "visit" /\ at' = at /\ select' = select /\ visited' = visited \cup {r}
  BY DEF Visit, options
<1>3. OptionsSound' /\ OnlyWanted'
  BY <1>2 DEF IInv, OptionsSound, OnlyWanted, Gathered
<1> QED
  BY <1>1, <1>3 DEF IInv

LEMMA GatherIInv ==
    ASSUME IInv, Gather PROVE IInv'
<1>1. /\ phase' = "gathered"
      /\ UNCHANGED <<at, select, visited, latest, next>>
  BY DEF Gather, options, maps
<1>2. OnlyWanted' /\ ReportedOnce'
  BY GatherWanted, GatherOnce DEF IInv
<1>3. Before' = Before /\ After' = After
  BY <1>1 DEF Before, After
<1>4. OptionsSound' /\ LatestSound' /\ NextSound'
  BY <1>1, <1>3 DEF IInv, OptionsSound, LatestSound, NextSound
<1>5. ActiveSound'
  BY <1>1 DEF ActiveSound
<1> QED
  BY <1>2, <1>4, <1>5 DEF IInv

(* What comes after the gathering leaves the result as it is. *)
LEMMA OutputKeeps ==
    ASSUME CountGathered \/ Emit \/ EmitCount \/ Exit
    PROVE  /\ UNCHANGED <<at, select, visited, latest, next, pointIds, records>>
           /\ phase = "gathered" /\ phase' \in {"gathered", "exit"}
<1>1. CASE CountGathered \/ Emit
  BY <1>1 DEF CountGathered, Emit, options, maps
<1>2. CASE EmitCount
  BY <1>2 DEF EmitCount, options, maps
<1>3. CASE Exit
  BY <1>3 DEF Exit, options, maps
<1> QED
  BY <1>1, <1>2, <1>3

LEMMA OutputIInv ==
    ASSUME IInv, CountGathered \/ Emit \/ EmitCount \/ Exit PROVE IInv'
<1>1. /\ UNCHANGED <<at, select, visited, latest, next, pointIds, records>>
      /\ phase = "gathered" /\ phase' # "visit"
  BY OutputKeeps
<1>2. Before' = Before /\ After' = After /\ Result' = Result
  BY <1>1 DEF Before, After, Result
<1>3. \A r : Wanted(r)' <=> Wanted(r)
  BY <1>1, <1>2 DEF Wanted
<1>4. LatestSound' /\ NextSound' /\ OptionsSound' /\ ActiveSound'
  BY <1>1, <1>2 DEF IInv, LatestSound, NextSound, OptionsSound, ActiveSound
<1>5. OnlyWanted' /\ ReportedOnce'
  BY <1>1, <1>2, <1>3 DEF IInv, OnlyWanted, ReportedOnce, Gathered
<1> QED
  BY <1>4, <1>5 DEF IInv

LEMMA StepIInv == IInv /\ [Next]_vars => IInv'
<1> SUFFICES ASSUME IInv, [Next]_vars PROVE IInv'
  OBVIOUS
<1>1. CASE \E r \in Record : Visit(r) \/ CountRecord(r)
  BY <1>1, VisitIInv, CountRecordIInv
<1>2. CASE Gather
  BY <1>2, GatherIInv
<1>3. CASE CountGathered \/ Emit \/ EmitCount \/ Exit
  BY <1>3, OutputIInv
<1>4. CASE UNCHANGED vars
  BY <1>4, StutterIInv DEF vars, options, maps
<1> QED
  BY <1>1, <1>2, <1>3, <1>4 DEF Next

LEMMA IInvHolds == Spec => []IInv
<1>1. Init => IInv
  BY InitIInv
<1>2. IInv /\ [Next]_vars => IInv'
  BY StepIInv
<1> QED
  BY <1>1, <1>2, PTL DEF Spec

-----------------------------------------------------------------------------
(* Nothing but what was asked for is reported: an active interval, or a    *)
(* record of its key that no other is closer to the point than, in         *)
(* whatever order the visitors present the records.                        *)
THEOREM NothingElse == Spec => []OnlyWanted
<1>1. IInv => OnlyWanted
  BY DEF IInv
<1> QED
  BY <1>1, IInvHolds, PTL

(* point_ids keeps a record that is newest, earliest and active at once    *)
(* from being reported more than once.                                     *)
THEOREM NothingTwice == Spec => []ReportedOnce
<1>1. IInv => ReportedOnce
  BY DEF IInv
<1> QED
  BY <1>1, IInvHolds, PTL

(* If identities are identities, the newest record of every key before the *)
(* point is reported.                                                      *)
THEOREM NewestIsReported ==
    ASSUME IdentitiesAreUnique
    PROVE  Spec => []LatestReported
<1>1. Init => LatestReported
  BY DEF Init, LatestReported, Gathered
<1>2. IInv /\ LatestReported /\ [Next]_vars => LatestReported'
  <2> SUFFICES ASSUME IInv, LatestReported, [Next]_vars PROVE LatestReported'
    OBVIOUS
  <2>1. CASE \E r \in Record : Visit(r) \/ CountRecord(r)
    <3>1. phase' = "visit"
      BY <2>1 DEF Visit, CountRecord
    <3> QED
      BY <3>1 DEF LatestReported, Gathered
  <2>2. CASE Gather
    BY <2>2, GatherLatest DEF IInv
  <2>3. CASE CountGathered \/ Emit \/ EmitCount \/ Exit \/ UNCHANGED vars
    <3>1. UNCHANGED <<at, select, visited, records>> /\ (phase' = "visit" \/ phase # "visit")
      BY <2>3, OutputKeeps DEF vars, options
    <3>2. Before' = Before /\ Result' = Result
      BY <3>1 DEF Before, Result
    <3> QED
      BY <3>1, <3>2 DEF LatestReported, Gathered
  <2> QED
    BY <2>1, <2>2, <2>3 DEF Next
<1> QED
  BY <1>1, <1>2, IInvHolds, PTL DEF Spec

(* And so is the earliest one after it. *)
THEOREM EarliestIsReported ==
    ASSUME IdentitiesAreUnique
    PROVE  Spec => []NextReported
<1>1. Init => NextReported
  BY DEF Init, NextReported, Gathered
<1>2. IInv /\ NextReported /\ [Next]_vars => NextReported'
  <2> SUFFICES ASSUME IInv, NextReported, [Next]_vars PROVE NextReported'
    OBVIOUS
  <2>1. CASE \E r \in Record : Visit(r) \/ CountRecord(r)
    <3>1. phase' = "visit"
      BY <2>1 DEF Visit, CountRecord
    <3> QED
      BY <3>1 DEF NextReported, Gathered
  <2>2. CASE Gather
    BY <2>2, GatherNext DEF IInv
  <2>3. CASE CountGathered \/ Emit \/ EmitCount \/ Exit \/ UNCHANGED vars
    <3>1. UNCHANGED <<at, select, visited, records>> /\ (phase' = "visit" \/ phase # "visit")
      BY <2>3, OutputKeeps DEF vars, options
    <3>2. After' = After /\ Result' = Result
      BY <3>1 DEF After, Result
    <3> QED
      BY <3>1, <3>2 DEF NextReported, Gathered
  <2> QED
    BY <2>1, <2>2, <2>3 DEF Next
<1> QED
  BY <1>1, <1>2, IInvHolds, PTL DEF Spec

-----------------------------------------------------------------------------
(* The counts *)

Fields == {"trace", "source", "kind"}
Keys == [DOMAIN groupBy -> Nat]

GroupsTyped ==
    /\ groupBy \in Seq(Fields)
    /\ counting \in BOOLEAN
    /\ DOMAIN groups \subseteq Keys
    /\ \A g \in DOMAIN groups : groups[g] \in Nat

(* What has been counted: without a point, what has come; with one, what   *)
(* the loop over the result has passed.                                    *)
Tallied ==
    IF at = NoPoint THEN visited ELSE {e.record : e \in records \ uncounted}

InGroup(S, g) == {r \in S : Group(r) = g}

TallySound ==
    counting /\ (phase = "visit" => at = NoPoint) =>
        /\ DOMAIN groups = {Group(r) : r \in Tallied}
        /\ \A g \in DOMAIN groups : groups[g] = Cardinality(InGroup(Tallied, g))

(* Until the result is gathered no line is written, and a point query has  *)
(* counted nothing.                                                        *)
NothingYet == phase = "visit" =>
    /\ counts = <<>> /\ uncounted = {}
    /\ at # NoPoint => DOMAIN groups = {}

AllFinite ==
    /\ IsFiniteSet(visited) /\ Result \subseteq visited /\ uncounted \subseteq records
    /\ at = NoPoint => uncounted = {}

(* The lines are those of the first groups; they are written when all is   *)
(* counted.                                                                *)
LinesSound ==
    /\ counts \in Seq([group : Keys \cup {<<>>}, count : Nat])
    /\ counts # <<>> => counting /\ uncounted = {}
    /\ \A k \in DOMAIN counts :
          \/ counts[k].group \in DOMAIN groups /\ counts[k].count = groups[counts[k].group]
          \/ DOMAIN groups = {} /\ groupBy = <<>> /\ counts[k] = Line(<<>>, 0)
    /\ \A j, k \in DOMAIN counts : j < k => KeyLess(counts[j].group, counts[k].group)
    /\ \A j \in DOMAIN counts : \A g \in DOMAIN groups \ Written : KeyLess(counts[j].group, g)

(* At the end every group has its line. *)
AllWritten == phase = "exit" /\ counting =>
    uncounted = {} /\ DOMAIN groups \subseteq Written /\ (groupBy = <<>> => counts # <<>>)

CountInv == GroupsTyped /\ TallySound /\ NothingYet /\ AllFinite /\ LinesSound /\ AllWritten

LEMMA Smallest ==
    ASSUME NEW S \in SUBSET Nat, S # {}
    PROVE  \E x \in S : \A y \in S : x <= y
<1> DEFINE R == OpToRel(<, Nat)
<1>1. IsWellFoundedOn(R, Nat)
  BY NatLessThanWellFounded
<1>2. \A x, y \in Nat : y < x => <<y, x>> \in R
  BY DEF OpToRel
<1> HIDE DEF R
<1>3. PICK x \in S : \A y \in S : ~(<<y, x>> \in R)
  BY <1>1, WFMin
<1>4. ASSUME NEW y \in S PROVE x <= y
  <2>1. x \in Nat /\ y \in Nat /\ ~(<<y, x>> \in R)
    BY <1>3
  <2> QED
    BY <1>2, <2>1
<1> QED
  BY <1>3, <1>4

(* Two keys of groups differ first somewhere. *)
LEMMA KeysAreOrdered ==
    ASSUME GroupsTyped, NEW g \in Keys, NEW h \in Keys, g # h
    PROVE  KeyLess(g, h) \/ KeyLess(h, g)
<1>1. /\ DOMAIN groupBy = 1 .. Len(groupBy) /\ Len(groupBy) \in Nat
      /\ DOMAIN g = DOMAIN groupBy /\ DOMAIN h = DOMAIN groupBy
  BY DEF GroupsTyped, Keys
<1> DEFINE D == {i \in DOMAIN groupBy : g[i] # h[i]}
<1>2. D # {}
  BY DEF Keys
<1>3. D \in SUBSET Nat
  BY <1>1
<1>4. PICK i \in D : \A j \in D : i <= j
  BY <1>2, <1>3, Smallest
<1>5. \A j \in 1 .. i - 1 : g[j] = h[j] /\ h[j] = g[j]
  BY <1>1, <1>4
<1>6. g[i] \in Nat /\ h[i] \in Nat /\ g[i] # h[i]
  BY DEF Keys
<1>7. g[i] < h[i] \/ h[i] < g[i]
  BY <1>6
<1> QED
  BY <1>1, <1>5, <1>7 DEF KeyLess

LEMMA GroupIsKey ==
    ASSUME GroupsTyped, NEW r \in Record
    PROVE  Group(r) \in Keys
<1>1. r.trace \in Nat /\ r.source \in Nat /\ r.kind \in Nat
  BY RecordAssumption DEF Records
<1>2. \A i \in DOMAIN groupBy : groupBy[i] \in Fields
  BY DEF GroupsTyped
<1> QED
  BY <1>1, <1>2 DEF Group, Keys, Fields

LEMMA CountedMap ==
    ASSUME NEW r
    PROVE  LET map == Counted(groups, r)
               k == Group(r)
           IN  /\ DOMAIN map = DOMAIN groups \cup {k}
               /\ map[k] = IF k \in DOMAIN groups THEN groups[k] + 1 ELSE 1
               /\ \A g \in DOMAIN groups \ {k} : map[g] = groups[g]
<1> DEFINE k == Group(r)
           n == IF k \in DOMAIN groups THEN groups[k] + 1 ELSE 1
           map == Assign(groups, k, n)
<1>1. Counted(groups, r) = map
  BY DEF Counted
<1> HIDE DEF k, n
<1>2. /\ DOMAIN map = DOMAIN groups \cup {k}
      /\ map[k] = n
      /\ \A g \in DOMAIN groups \ {k} : map[g] = groups[g]
  BY DEF Assign
<1> QED
  BY <1>1, <1>2 DEF k, n

(* One more record is counted. *)
LEMMA CountedEffect ==
    ASSUME NEW T, IsFiniteSet(T), NEW r, r \notin T,
           DOMAIN groups = {Group(x) : x \in T},
           \A g \in DOMAIN groups : groups[g] = Cardinality(InGroup(T, g))
    PROVE  LET map == Counted(groups, r)
           IN  /\ DOMAIN map = {Group(x) : x \in T \cup {r}}
               /\ \A g \in DOMAIN map : map[g] = Cardinality(InGroup(T \cup {r}, g))
<1> DEFINE map == Counted(groups, r)
           k == Group(r)
<1>1. /\ DOMAIN map = DOMAIN groups \cup {k}
      /\ map[k] = IF k \in DOMAIN groups THEN groups[k] + 1 ELSE 1
      /\ \A g \in DOMAIN groups \ {k} : map[g] = groups[g]
  BY CountedMap
<1> HIDE DEF map
<1>2. DOMAIN map = {Group(x) : x \in T \cup {r}}
  BY <1>1
<1>3. map[k] = Cardinality(InGroup(T \cup {r}, k))
  <2>1. InGroup(T \cup {r}, k) = InGroup(T, k) \cup {r} /\ r \notin InGroup(T, k)
    BY DEF InGroup
  <2>2. IsFiniteSet(InGroup(T, k))
    BY FS_Subset DEF InGroup
  <2>3. Cardinality(InGroup(T \cup {r}, k)) = Cardinality(InGroup(T, k)) + 1
    BY <2>1, <2>2, FS_AddElement
  <2>4. CASE k \in DOMAIN groups
    BY <1>1, <2>3, <2>4
  <2>5. CASE k \notin DOMAIN groups
    <3>1. InGroup(T, k) = {}
      BY <2>5 DEF InGroup
    <3> QED
      BY <1>1, <2>3, <2>5, <3>1, FS_EmptySet
  <2> QED
    BY <2>4, <2>5
<1>4. ASSUME NEW g \in DOMAIN groups \ {k}
      PROVE  map[g] = Cardinality(InGroup(T \cup {r}, g))
  <2>1. InGroup(T \cup {r}, g) = InGroup(T, g)
    BY DEF InGroup
  <2> QED
    BY <1>1, <2>1
<1> QED
  BY <1>1, <1>2, <1>3, <1>4 DEF map

LEMMA CountedTyped ==
    ASSUME GroupsTyped, NEW r \in Record
    PROVE  LET map == Counted(groups, r)
           IN  DOMAIN map \subseteq Keys /\ \A g \in DOMAIN map : map[g] \in Nat
<1> DEFINE map == Counted(groups, r)
           k == Group(r)
<1>1. /\ DOMAIN map = DOMAIN groups \cup {k}
      /\ map[k] = IF k \in DOMAIN groups THEN groups[k] + 1 ELSE 1
      /\ \A g \in DOMAIN groups \ {k} : map[g] = groups[g]
  BY CountedMap
<1> HIDE DEF map
<1>2. k \in Keys
  BY GroupIsKey
<1> QED
  BY <1>1, <1>2 DEF GroupsTyped, map

LEMMA TalliedFinite ==
    ASSUME AllFinite PROVE IsFiniteSet(Tallied) /\ Tallied \subseteq visited
<1>1. Tallied \subseteq visited
  BY DEF AllFinite, Tallied, Result
<1> QED
  BY <1>1, FS_Subset DEF AllFinite

LEMMA InitCountInv == Init => CountInv
<1> SUFFICES ASSUME Init PROVE CountInv
  OBVIOUS
<1>1. /\ phase = "visit" /\ visited = {} /\ records = {} /\ uncounted = {}
      /\ counts = <<>> /\ groups = <<>> /\ counting \in BOOLEAN
      /\ groupBy \in IF counting THEN Groupings ELSE {<<>>}
  BY DEF Init
<1>2. DOMAIN groups = {} /\ DOMAIN counts = {}
  BY <1>1
<1>3. groupBy \in Seq(Fields)
  <2>1. CASE counting
    BY <1>1, <2>1, GroupingAssumption DEF Fields
  <2>2. CASE ~counting
    BY <1>1, <2>2
  <2> QED
    BY <2>1, <2>2
<1>4. GroupsTyped
  BY <1>1, <1>2, <1>3 DEF GroupsTyped
<1>5. TallySound
  BY <1>1, <1>2 DEF TallySound, Tallied
<1>6. NothingYet /\ AllFinite
  BY <1>1, <1>2, FS_EmptySet DEF NothingYet, AllFinite, Result
<1>7. LinesSound /\ AllWritten
  BY <1>1, <1>2 DEF LinesSound, AllWritten
<1> QED
  BY <1>4, <1>5, <1>6, <1>7 DEF CountInv

(* A record is counted as it comes. *)
LEMMA CountRecordCounts ==
    ASSUME IInv, CountInv, NEW r \in Record, CountRecord(r) PROVE CountInv'
<1>1. /\ phase = "visit" /\ at = NoPoint /\ r \notin visited
      /\ visited' = visited \cup {r} /\ groups' = Counted(groups, r)
      /\ UNCHANGED <<phase, at, counting, groupBy, records, uncounted, counts>>
  BY DEF CountRecord, options
<1>2. GroupsTyped'
  <2>1. Keys' = Keys
    BY <1>1 DEF Keys
  <2> QED
    BY <1>1, <2>1, CountedTyped DEF CountInv, GroupsTyped
<1>3. AllFinite'
  BY <1>1, FS_AddElement DEF CountInv, AllFinite, Result
<1>4. TallySound'
  <2> SUFFICES ASSUME counting PROVE TallySound'
    BY <1>1 DEF TallySound
  <2>1. Tallied = visited /\ Tallied' = visited \cup {r}
    BY <1>1 DEF Tallied
  <2>2. /\ DOMAIN groups = {Group(x) : x \in visited}
        /\ \A g \in DOMAIN groups : groups[g] = Cardinality(InGroup(visited, g))
    BY <1>1, <2>1 DEF CountInv, TallySound
  <2>3. /\ DOMAIN groups' = {Group(x) : x \in visited \cup {r}}
        /\ \A g \in DOMAIN groups' : groups'[g] = Cardinality(InGroup(visited \cup {r}, g))
    <3>1. IsFiniteSet(visited)
      BY DEF CountInv, AllFinite
    <3> DEFINE map == Counted(groups, r)
    <3>2. /\ DOMAIN map = {Group(x) : x \in visited \cup {r}}
          /\ \A g \in DOMAIN map : map[g] = Cardinality(InGroup(visited \cup {r}, g))
      BY <1>1, <2>2, <3>1, CountedEffect
    <3> QED
      BY <1>1, <3>2
  <2>4. \A x : Group(x)' = Group(x)
    BY <1>1 DEF Group
  <2>5. \A S, g : InGroup(S, g)' = InGroup(S, g)
    BY <2>4 DEF InGroup
  <2> QED
    BY <2>1, <2>3, <2>4, <2>5 DEF TallySound, InGroup
<1>5. NothingYet' /\ LinesSound' /\ AllWritten'
  <2>1. counts = <<>> /\ uncounted = {}
    BY <1>1 DEF CountInv, NothingYet
  <2>2. counts' = <<>> /\ DOMAIN counts' = {}
    BY <1>1, <2>1
  <2> QED
    BY <1>1, <2>1, <2>2 DEF NothingYet, LinesSound, AllWritten
<1> QED
  BY <1>2, <1>3, <1>4, <1>5 DEF CountInv

(* A record of the result is counted; no entry has a record of another. *)
LEMMA CountGatheredCounts ==
    ASSUME IInv, CountInv, CountGathered PROVE CountInv'
<1>1. PICK e \in uncounted :
         /\ phase = "gathered" /\ groups' = Counted(groups, e.record)
         /\ uncounted' = uncounted \ {e}
         /\ UNCHANGED <<phase, at, counting, groupBy, visited, records, counts>>
  BY DEF CountGathered, FirstOf, options
<1> DEFINE r == e.record
<1>2. e \in records /\ r \in visited /\ r \in Record
  BY <1>1, ResultMembers DEF CountInv, AllFinite, IInv, OptionsSound
<1>3. GroupsTyped'
  <2>1. Keys' = Keys
    BY <1>1 DEF Keys
  <2>2. DOMAIN groups' \subseteq Keys /\ \A g \in DOMAIN groups' : groups'[g] \in Nat
    BY <1>1, <1>2, CountedTyped DEF CountInv
  <2> QED
    BY <1>1, <2>1, <2>2 DEF CountInv, GroupsTyped
<1>4. AllFinite'
  BY <1>1 DEF CountInv, AllFinite, Result
<1>5. TallySound'
  <2> SUFFICES ASSUME counting PROVE TallySound'
    BY <1>1 DEF TallySound
  <2>1. CASE at = NoPoint
    BY <1>1, <2>1 DEF CountInv, AllFinite
  <2>2. CASE at # NoPoint
    <3>1. /\ DOMAIN groups = {Group(x) : x \in Tallied}
          /\ \A g \in DOMAIN groups : groups[g] = Cardinality(InGroup(Tallied, g))
      BY <1>1 DEF CountInv, TallySound
    <3>2. r \notin Tallied
      <4>1. ASSUME NEW f \in records \ uncounted, f.record = r PROVE FALSE
        <5>1. f = e
          BY <1>2, <4>1 DEF IInv, ReportedOnce
        <5> QED
          BY <1>1, <5>1
      <4> QED
        BY <2>2, <4>1 DEF Tallied
    <3>3. Tallied' = Tallied \cup {r}
      <4>1. records \ uncounted' = (records \ uncounted) \cup {e}
        BY <1>1, <1>2
      <4> QED
        BY <1>1, <2>2, <4>1 DEF Tallied
    <3>4. IsFiniteSet(Tallied)
      BY TalliedFinite DEF CountInv
    <3> DEFINE map == Counted(groups, r)
    <3>5. /\ DOMAIN map = {Group(x) : x \in Tallied \cup {r}}
          /\ \A g \in DOMAIN map : map[g] = Cardinality(InGroup(Tallied \cup {r}, g))
      BY <3>1, <3>2, <3>4, CountedEffect
    <3>6. \A x : Group(x)' = Group(x)
      BY <1>1 DEF Group
    <3>7. groups' = map
      BY <1>1
    <3> HIDE DEF map, r
    <3> QED
      BY <3>3, <3>5, <3>6, <3>7 DEF TallySound, InGroup
  <2> QED
    BY <2>1, <2>2
<1>6. NothingYet' /\ AllWritten'
  BY <1>1 DEF NothingYet, AllWritten
<1>7. LinesSound'
  <2>1. counts = <<>>
    BY <1>1 DEF CountInv, LinesSound
  <2>2. counts' = <<>> /\ DOMAIN counts' = {}
    BY <1>1, <2>1
  <2> QED
    BY <2>2 DEF LinesSound
<1> QED
  BY <1>3, <1>4, <1>5, <1>6, <1>7 DEF CountInv

(* The result is put together: for a point, the count of it begins. *)
LEMMA GatherCounts ==
    ASSUME IInv, CountInv, Gather PROVE CountInv'
<1>1. /\ phase = "visit" /\ phase' = "gathered"
      /\ uncounted' = IF counting /\ at # NoPoint THEN records' ELSE {}
      /\ UNCHANGED <<at, counting, groupBy, visited, groups, counts>>
  BY DEF Gather, options
<1>2. counts = <<>> /\ DOMAIN counts = {}
  BY <1>1 DEF CountInv, NothingYet
<1>3. GroupsTyped'
  BY <1>1 DEF CountInv, GroupsTyped, Keys
<1>4. AllFinite'
  <2> DEFINE L == Fresh(latest, pointIds)
             M == Fresh(next, pointIds \cup Ids(L))
  <2>1. Result' = Result \cup L \cup M
    BY GatherEffect
  <2>2. L \subseteq visited
    BY DEF IInv, LatestSound, Before, Fresh
  <2>3. M \subseteq visited
    BY DEF IInv, NextSound, After, Fresh
  <2> HIDE DEF L, M
  <2> QED
    BY <1>1, <2>1, <2>2, <2>3 DEF CountInv, AllFinite
<1>5. TallySound'
  <2> SUFFICES ASSUME counting PROVE TallySound'
    BY <1>1 DEF TallySound
  <2>1. \A x : Group(x)' = Group(x)
    BY <1>1 DEF Group
  <2>2. CASE at = NoPoint
    <3>1. Tallied' = Tallied
      BY <1>1, <2>2 DEF Tallied
    <3>2. /\ DOMAIN groups = {Group(x) : x \in Tallied}
          /\ \A g \in DOMAIN groups : groups[g] = Cardinality(InGroup(Tallied, g))
      BY <2>2 DEF CountInv, TallySound
    <3> QED
      BY <1>1, <2>1, <3>1, <3>2 DEF TallySound, InGroup
  <2>3. CASE at # NoPoint
    <3>1. Tallied' = {}
      BY <1>1, <2>3 DEF Tallied
    <3>2. DOMAIN groups = {}
      BY <1>1, <2>3 DEF CountInv, NothingYet
    <3> QED
      BY <1>1, <3>1, <3>2 DEF TallySound
  <2> QED
    BY <2>2, <2>3
<1>6. NothingYet' /\ LinesSound' /\ AllWritten'
  BY <1>1, <1>2 DEF NothingYet, LinesSound, AllWritten
<1> QED
  BY <1>3, <1>4, <1>5, <1>6 DEF CountInv

(* A record of a point query is not counted before it has been gathered. *)
LEMMA VisitCounts ==
    ASSUME IInv, CountInv, NEW r \in Record, Visit(r) PROVE CountInv'
<1>1. /\ phase = "visit" /\ at # NoPoint /\ visited' = visited \cup {r}
      /\ UNCHANGED <<phase, at, counting, groupBy, uncounted, groups, counts>>
  BY DEF Visit, options, tally
<1>2. counts = <<>> /\ DOMAIN counts = {} /\ uncounted = {} /\ DOMAIN groups = {}
  BY <1>1 DEF CountInv, NothingYet
<1>3. GroupsTyped'
  BY <1>1 DEF CountInv, GroupsTyped, Keys
<1>4. Result' \subseteq visited'
  <2>1. records' \subseteq records \cup {Entry("active", r)}
    BY DEF Visit
  <2>2. \A e \in records' : e.record \in Result \cup {r}
    BY <2>1 DEF Entry, Result
  <2>3. \A e \in records' : e.record \in visited'
    BY <1>1, <2>2 DEF CountInv, AllFinite
  <2> QED
    BY <2>3 DEF Result
<1>5. AllFinite'
  BY <1>1, <1>2, <1>4, FS_AddElement DEF CountInv, AllFinite
<1>6. TallySound' /\ NothingYet' /\ LinesSound' /\ AllWritten'
  BY <1>1, <1>2 DEF TallySound, NothingYet, LinesSound, AllWritten
<1> QED
  BY <1>3, <1>5, <1>6 DEF CountInv

LEMMA SameCounts ==
    ASSUME CountInv, phase' = phase,
           UNCHANGED <<at, counting, groupBy, visited, records, uncounted, groups, counts>>
    PROVE  CountInv'
<1>1. /\ Keys' = Keys /\ Tallied' = Tallied /\ Result' = Result /\ Written' = Written
      /\ \A x : Group(x)' = Group(x)
  BY DEF Keys, Tallied, Result, Written, Group
<1>2. GroupsTyped' /\ AllFinite'
  BY <1>1 DEF CountInv, GroupsTyped, AllFinite
<1>3. TallySound'
  BY <1>1 DEF CountInv, TallySound, InGroup
<1>4. NothingYet' /\ LinesSound' /\ AllWritten'
  BY <1>1 DEF CountInv, NothingYet, LinesSound, AllWritten
<1> QED
  BY <1>2, <1>3, <1>4 DEF CountInv

LEMMA ExitCounts == ASSUME CountInv, Exit PROVE CountInv'
<1>1. /\ phase = "gathered" /\ phase' = "exit" /\ uncounted = {}
      /\ counting => DOMAIN groups \subseteq Written /\ (groupBy = <<>> => counts # <<>>)
      /\ UNCHANGED <<at, counting, groupBy, visited, records, uncounted, groups, counts>>
  BY DEF Exit, options, tally
<1>2. /\ Keys' = Keys /\ Tallied' = Tallied /\ Result' = Result /\ Written' = Written
      /\ \A x : Group(x)' = Group(x)
  BY <1>1 DEF Keys, Tallied, Result, Written, Group
<1>3. GroupsTyped' /\ AllFinite'
  BY <1>1, <1>2 DEF CountInv, GroupsTyped, AllFinite
<1>4. TallySound'
  BY <1>1, <1>2 DEF CountInv, TallySound, InGroup
<1>5. NothingYet' /\ LinesSound' /\ AllWritten'
  BY <1>1, <1>2 DEF CountInv, NothingYet, LinesSound, AllWritten
<1> QED
  BY <1>3, <1>4, <1>5 DEF CountInv

(* The group of a new line is the first of those that have none, and every *)
(* other of them comes after it.                                           *)
LEMMA EmitCountCounts == ASSUME CountInv, EmitCount PROVE CountInv'
<1>1. /\ phase = "gathered" /\ counting /\ uncounted = {}
      /\ UNCHANGED <<phase, at, counting, groupBy, visited, records, uncounted, groups>>
  BY DEF EmitCount, options
<1>2. /\ Keys' = Keys /\ Tallied' = Tallied /\ Result' = Result
      /\ \A x : Group(x)' = Group(x)
  BY <1>1 DEF Keys, Tallied, Result, Group
<1>3. GroupsTyped' /\ AllFinite' /\ NothingYet' /\ AllWritten'
  BY <1>1, <1>2 DEF CountInv, GroupsTyped, AllFinite, NothingYet, AllWritten
<1>4. TallySound'
  BY <1>1, <1>2 DEF CountInv, TallySound, InGroup
<1>5. LinesSound'
  <2>1. CASE groupBy = <<>> /\ DOMAIN groups = {}
    <3>1. counts' = <<Line(<<>>, 0)>>
      BY <2>1 DEF EmitCount
    <3>2. /\ counts' \in Seq([group : Keys \cup {<<>>}, count : Nat])
          /\ DOMAIN counts' = {1} /\ counts'[1] = Line(<<>>, 0)
      BY <3>1 DEF Line
    <3>3. Line(<<>>, 0)' = Line(<<>>, 0)
      BY DEF Line
    <3>4. \A j, k \in DOMAIN counts' : ~(j < k)
      BY <3>2
    <3> QED
      BY <1>1, <1>2, <2>1, <3>2, <3>3, <3>4 DEF LinesSound
  <2>2. CASE ~(groupBy = <<>> /\ DOMAIN groups = {})
    <3>1. PICK g \in DOMAIN groups \ Written :
             /\ \A h \in DOMAIN groups \ Written : ~KeyLess(h, g)
             /\ counts' = Append(counts, Line(g, groups[g]))
      BY <2>2 DEF EmitCount
    <3>2. g \in Keys /\ groups[g] \in Nat
      BY <3>1 DEF CountInv, GroupsTyped
    <3>3. /\ counts \in Seq([group : Keys \cup {<<>>}, count : Nat])
          /\ \A k \in DOMAIN counts :
               counts[k].group \in DOMAIN groups /\ counts[k].count = groups[counts[k].group]
          /\ \A j, k \in DOMAIN counts : j < k => KeyLess(counts[j].group, counts[k].group)
          /\ \A j \in DOMAIN counts : \A h \in DOMAIN groups \ Written : KeyLess(counts[j].group, h)
      BY <3>1 DEF CountInv, LinesSound
    <3> DEFINE l == Line(g, groups[g])
               n == Len(counts)
    <3>4. l \in [group : Keys \cup {<<>>}, count : Nat] /\ l.group = g /\ l.count = groups[g]
      BY <3>2 DEF Line
    <3> HIDE DEF l
    <3>5. /\ counts' \in Seq([group : Keys \cup {<<>>}, count : Nat])
          /\ DOMAIN counts = 1 .. n /\ DOMAIN counts' = 1 .. n + 1 /\ n \in Nat
          /\ \A k \in 1 .. n : counts'[k] = counts[k]
          /\ counts'[n + 1] = l
      BY <3>1, <3>3, <3>4 DEF l
    <3> HIDE DEF n
    <3>6. \A k \in DOMAIN counts' : k \in DOMAIN counts \/ k = n + 1
      BY <3>5
    <3>7. Written' = Written \cup {g}
      <4>1. {counts'[k].group : k \in DOMAIN counts'} = {counts[k].group : k \in DOMAIN counts} \cup {g}
        BY <3>4, <3>5, <3>6
      <4> QED
        BY <4>1 DEF Written
    <3>8. \A k \in DOMAIN counts' :
             counts'[k].group \in DOMAIN groups /\ counts'[k].count = groups[counts'[k].group]
      BY <3>1, <3>3, <3>4, <3>5, <3>6
    <3>9. ASSUME NEW j \in DOMAIN counts', NEW k \in DOMAIN counts', j < k
          PROVE  KeyLess(counts'[j].group, counts'[k].group)
      <4>1. j \in DOMAIN counts
        BY <3>5, <3>9
      <4>2. CASE k \in DOMAIN counts
        BY <3>3, <3>5, <3>9, <4>1, <4>2
      <4>3. CASE k = n + 1
        BY <3>1, <3>3, <3>4, <3>5, <4>1, <4>3
      <4> QED
        BY <3>6, <4>2, <4>3
    <3>10. ASSUME NEW j \in DOMAIN counts', NEW h \in DOMAIN groups \ Written'
           PROVE  KeyLess(counts'[j].group, h)
      <4>1. h \in DOMAIN groups \ Written /\ h # g
        BY <3>7
      <4>2. CASE j \in DOMAIN counts
        BY <3>3, <3>5, <4>1, <4>2
      <4>3. CASE j = n + 1
        <5>1. h \in Keys
          BY <4>1 DEF CountInv, GroupsTyped
        <5>2. KeyLess(g, h) \/ KeyLess(h, g)
          BY <3>2, <4>1, <5>1, KeysAreOrdered DEF CountInv
        <5> QED
          BY <3>1, <3>4, <3>5, <4>1, <4>3, <5>2
      <4> QED
        BY <3>6, <4>2, <4>3
    <3>11. \A a, b : KeyLess(a, b)' = KeyLess(a, b)
      BY DEF KeyLess
    <3> QED
      BY <1>1, <1>2, <3>5, <3>8, <3>9, <3>10 DEF LinesSound, KeyLess
  <2> QED
    BY <2>1, <2>2
<1> QED
  BY <1>3, <1>4, <1>5 DEF CountInv

LEMMA StepCountInv == IInv /\ CountInv /\ [Next]_vars => CountInv'
<1> SUFFICES ASSUME IInv, CountInv, [Next]_vars PROVE CountInv'
  OBVIOUS
<1>1. CASE \E r \in Record : Visit(r) \/ CountRecord(r)
  BY <1>1, VisitCounts, CountRecordCounts
<1>2. CASE Gather
  BY <1>2, GatherCounts
<1>3. CASE CountGathered
  BY <1>3, CountGatheredCounts
<1>4. CASE Emit
  BY <1>4, SameCounts DEF Emit, options, tally
<1>5. CASE EmitCount
  BY <1>5, EmitCountCounts
<1>6. CASE Exit
  BY <1>6, ExitCounts
<1>7. CASE UNCHANGED vars
  BY <1>7, SameCounts DEF vars, options, tally
<1> QED
  BY <1>1, <1>2, <1>3, <1>4, <1>5, <1>6, <1>7 DEF Next

LEMMA CountInvGives == CountInv => CountsAreExact
<1> SUFFICES ASSUME CountInv, phase = "exit", counting PROVE CountsAreExact
  BY DEF CountsAreExact
<1> DEFINE selected == IF at = NoPoint THEN visited ELSE Result
           Size(g) == Cardinality({r \in selected : Group(r) = g})
<1>1. /\ uncounted = {} /\ DOMAIN groups \subseteq Written
      /\ groupBy = <<>> => counts # <<>>
  BY DEF CountInv, AllWritten
<1>2. Tallied = selected
  BY <1>1 DEF Tallied, Result
<1>3. /\ DOMAIN groups = {Group(r) : r \in selected}
      /\ \A g \in DOMAIN groups : groups[g] = Size(g)
  BY <1>2 DEF CountInv, TallySound, InGroup
<1>4. IsFiniteSet(selected)
  BY <1>2, TalliedFinite DEF CountInv
<1> HIDE DEF selected
<1>5. \A r \in selected : Group(r) \in Written
  BY <1>1, <1>3
<1>6. ASSUME NEW k \in DOMAIN counts
      PROVE  /\ counts[k].count = Size(counts[k].group)
             /\ groupBy # <<>> => counts[k].count > 0
  <2> DEFINE g == counts[k].group
  <2>1. CASE g \in DOMAIN groups /\ counts[k].count = groups[g]
    <3>1. PICK r \in selected : Group(r) = g
      BY <1>3, <2>1
    <3>2. IsFiniteSet({x \in selected : Group(x) = g})
      BY <1>4, FS_Subset
    <3>3. {x \in selected : Group(x) = g} # {}
      BY <3>1
    <3>4. Size(g) \in Nat /\ Size(g) # 0
      BY <3>2, <3>3, FS_CardinalityType, FS_EmptySet
    <3> QED
      BY <1>3, <2>1, <3>4
  <2>2. CASE DOMAIN groups = {} /\ groupBy = <<>> /\ counts[k] = Line(<<>>, 0)
    <3>1. selected = {}
      BY <1>3, <2>2
    <3>2. Size(g) = 0
      BY <3>1, FS_EmptySet
    <3> QED
      BY <2>2, <3>2 DEF Line
  <2> QED
    BY <2>1, <2>2 DEF CountInv, LinesSound
<1>7. \A j, k \in DOMAIN counts : j < k => KeyLess(counts[j].group, counts[k].group)
  BY DEF CountInv, LinesSound
<1>8. ASSUME groupBy = <<>> PROVE Len(counts) = 1
  <2>1. counts \in Seq([group : Keys \cup {<<>>}, count : Nat]) /\ counts # <<>>
    BY <1>1, <1>8 DEF CountInv, LinesSound
  <2>2. ASSUME NEW k \in DOMAIN counts PROVE DOMAIN counts[k].group = {}
    <3>1. DOMAIN groupBy = {}
      BY <1>8
    <3>2. counts[k] \in [group : Keys \cup {<<>>}, count : Nat]
      <4>1. \A E : counts \in Seq(E) => counts[k] \in E
        OBVIOUS
      <4> QED
        BY <2>1, <4>1
    <3>3. counts[k].group \in Keys \cup {<<>>}
      BY <3>2
    <3> QED
      BY <3>1, <3>3 DEF Keys
  <2>3. ASSUME Len(counts) > 1 PROVE FALSE
    <3>1. 1 \in DOMAIN counts /\ 2 \in DOMAIN counts
      BY <2>1, <2>3
    <3>2. KeyLess(counts[1].group, counts[2].group)
      BY <1>7, <3>1
    <3> QED
      BY <2>2, <3>1, <3>2 DEF KeyLess
  <2>4. Len(counts) \in Nat /\ Len(counts) # 0
    BY <2>1
  <2>5. ~(Len(counts) > 1)
    BY <2>3
  <2>6. \A n \in Nat : n # 0 /\ ~(n > 1) => n = 1
    OBVIOUS
  <2> QED
    BY <2>4, <2>5, <2>6
<1> QED
  BY <1>5, <1>6, <1>7, <1>8 DEF CountsAreExact, selected

(* The counts of a query are the numbers of the records that it selects,   *)
(* one line for every group and no other, in the order of the keys: for    *)
(* any traces, any grouping and any order in which the records come.       *)
THEOREM CountsAreRight == Spec => []CountsAreExact
<1>1. Init => CountInv
  BY InitCountInv
<1>2. IInv /\ CountInv /\ [Next]_vars => CountInv'
  BY StepCountInv
<1>3. CountInv => CountsAreExact
  BY CountInvGives
<1> QED
  BY <1>1, <1>2, <1>3, IInvHolds, PTL DEF Spec

=============================================================================
