----------------------------- MODULE PointQuery -----------------------------
(***************************************************************************)
(* A point query, `--at' with `--latest', `--next' and `--active', and the *)
(* counts of any query, `--count' with `--group-by': run_query of          *)
(* src/src/query.cpp.  QuerySort has what remains of it.                   *)
(*                                                                         *)
(* The visitors present the matching records one by one, in any order.     *)
(* For every key (trace, source and kind) the newest record before the     *)
(* point and the earliest after it are remembered; active intervals are    *)
(* kept at once.  At the end the three are put together, records that have *)
(* been kept already are left out, and the result is ordered and cut at    *)
(* the limit, or counted.  Without a point they are counted as they come.  *)
(***************************************************************************)
EXTENDS Integers, Sequences, FiniteSets

CONSTANTS
    Record,   \* the matching records of the traces
    AtTimes,  \* the points a query may ask for
    Groupings,\* sequences of what records may be grouped by
    Limits    \* the values of --limit; without it, one no output reaches

(* A point in time is a record that ends where it starts.  content stands  *)
(* for all fields that the query does not look at.                         *)
Records == [trace : Nat, source : Nat, kind : Nat, sequence : Nat,
            interval : BOOLEAN, time : Int, end : Int, content : Nat]

ASSUME RecordAssumption == Record \subseteq Records
ASSUME AtAssumption == AtTimes \subseteq Nat
ASSUME LimitAssumption == Limits \subseteq Nat
ASSUME GroupingAssumption == Groupings \subseteq Seq({"trace", "source", "kind"})

NoPoint == -1

Selectors == {"latest", "next", "active"}

VARIABLES
    phase,       \* "visit", "gathered" or "exit"
    at, select, limit,   \* the options; at is NoPoint without --at
    counting, groupBy,   \* --count and --group-by
    visited,     \* history: the records presented so far
    latest, next,        \* the two maps, from keys to records
    pointIds,    \* point_ids
    records,     \* records, before they are sorted: see Entry
    out,         \* the entries of records written, in order
    uncounted,   \* the entries of records that are still to be counted
    groups,      \* streaming_groups, or groups: how many records of each
    counts,      \* the groups written, in order
    warned       \* the truncation has been reported

options == <<at, select, limit, counting, groupBy>>
maps    == <<latest, next>>
tally   == <<uncounted, groups, counts>>
vars    == <<phase, options, visited, maps, pointIds, records, out, tally, warned>>

Key(r) == <<r.trace, r.source, r.kind>>

(* An entry of the vector `records': a record, and what it was kept for.   *)
(* Nothing is kept twice for the same reason.                              *)
Entry(reason, r) == [reason |-> reason, record |-> r]

Identity(r) == <<r.trace, r.source, r.kind, r.sequence>>

(* record_less, on what orders the records of this query. *)
RecordLess(a, b) ==
    \/ a.time < b.time
    \/ a.time = b.time /\ a.trace < b.trace
    \/ a.time = b.time /\ a.trace = b.trace /\ a.kind < b.kind
    \/ a.time = b.time /\ a.trace = b.trace /\ a.kind = b.kind /\ a.source < b.source
    \/ /\ a.time = b.time /\ a.trace = b.trace /\ a.kind = b.kind /\ a.source = b.source
       /\ a.sequence < b.sequence

Init ==
    /\ phase = "visit"
    /\ counting \in BOOLEAN
    /\ at \in AtTimes \cup (IF counting THEN {NoPoint} ELSE {})
    /\ select \in IF at = NoPoint THEN {{}} ELSE SUBSET Selectors \ {{}}
    /\ limit \in Limits
    /\ groupBy \in IF counting THEN Groupings ELSE {<<>>}
    /\ \A r \in Record : "active" \in select => r.interval
    /\ visited = {}
    /\ latest = <<>> /\ next = <<>>
    /\ pointIds = {}
    /\ records = {}
    /\ out = <<>>
    /\ uncounted = {} /\ groups = <<>> /\ counts = <<>>
    /\ warned = FALSE

-----------------------------------------------------------------------------

(* insert_or_assign *)
Assign(map, key, r) ==
    [k \in DOMAIN map \cup {key} |-> IF k = key THEN r ELSE map[k]]

IsActive(r) == "active" \in select /\ r.interval /\ r.time <= at /\ r.end >= at

(* Definitions named Slip... are plausible mistakes in the definition that *)
(* follows; the specification does not use them.                           *)
SlipNewest(r) ==
    /\ "latest" \in select /\ r.time <= at
    /\ Key(r) \in DOMAIN latest => latest[Key(r)].time > r.time

(* r becomes the newest record of its key before the point; the first of   *)
(* several at the same time stays.                                         *)
Newest(r) ==
    /\ "latest" \in select /\ r.time <= at
    /\ Key(r) \in DOMAIN latest => latest[Key(r)].time < r.time

SlipEarliest(r) ==
    /\ "next" \in select /\ r.time > at
    /\ Key(r) \in DOMAIN next => next[Key(r)].time > r.time

Earliest(r) ==
    /\ "next" \in select /\ r.time >= at
    /\ Key(r) \in DOMAIN next => next[Key(r)].time > r.time

(* What a group is known by: the values of its fields, in their order. *)
Group(r) == [i \in DOMAIN groupBy |->
    CASE groupBy[i] = "trace"  -> r.trace
      [] groupBy[i] = "source" -> r.source
      [] groupBy[i] = "kind"   -> r.kind]

SlipCounted(map, r) == Assign(map, Group(r), IF Group(r) \in DOMAIN map THEN map[Group(r)] ELSE 1)
Counted(map, r) == Assign(map, Group(r), IF Group(r) \in DOMAIN map THEN map[Group(r)] + 1 ELSE 1)

(* Without a point the records of the range are counted as they come. *)
CountRecord(r) ==
    /\ phase = "visit" /\ at = NoPoint
    /\ r \notin visited
    /\ visited' = visited \cup {r}
    /\ groups' = Counted(groups, r)
    /\ UNCHANGED <<phase, options, maps, pointIds, records, out, uncounted, counts, warned>>

Visit(r) ==
    /\ phase = "visit" /\ at # NoPoint
    /\ r \notin visited
    /\ visited' = visited \cup {r}
    /\ IF IsActive(r) /\ Identity(r) \notin pointIds
       THEN /\ records' = records \cup {Entry("active", r)}
            /\ pointIds' = pointIds \cup {Identity(r)}
       ELSE UNCHANGED <<records, pointIds>>
    /\ latest' = IF Newest(r) THEN Assign(latest, Key(r), r) ELSE latest
    /\ next' = IF Earliest(r) THEN Assign(next, Key(r), r) ELSE next
    /\ UNCHANGED <<phase, options, out, tally, warned>>

SlipFresh(map, ids) == {map[k] : k \in DOMAIN map}

(* The records of a map whose identity has not been seen. *)
Fresh(map, ids) == {map[k] : k \in {k \in DOMAIN map : Identity(map[k]) \notin ids}}
Ids(S) == {Identity(r) : r \in S}

Gather ==
    /\ phase = "visit"
    /\ phase' = "gathered"
    /\ LET fromLatest == Fresh(latest, pointIds)
           fromNext == Fresh(next, pointIds \cup Ids(fromLatest))
       IN  /\ records' = records \cup {Entry("latest", r) : r \in fromLatest}
                               \cup {Entry("next", r) : r \in fromNext}
           /\ pointIds' = pointIds \cup Ids(fromLatest) \cup Ids(fromNext)
    /\ uncounted' = IF counting /\ at # NoPoint THEN records' ELSE {}
    /\ UNCHANGED <<options, visited, maps, out, groups, counts, warned>>

FirstOf(entries) ==
    {e \in entries : \A other \in entries : ~RecordLess(other.record, e.record)}

Shown == {out[k] : k \in DOMAIN out}

(* The loop over the sorted records. *)
Emit ==
    /\ phase = "gathered" /\ ~counting
    /\ Len(out) < limit
    /\ \E e \in FirstOf(records \ Shown) : out' = Append(out, e)
    /\ UNCHANGED <<phase, options, visited, maps, pointIds, records, tally, warned>>

(* With --count the loop over the sorted records counts them. *)
CountGathered ==
    /\ phase = "gathered"
    /\ \E e \in FirstOf(uncounted) :
          /\ groups' = Counted(groups, e.record)
          /\ uncounted' = uncounted \ {e}
    /\ UNCHANGED <<phase, options, visited, maps, pointIds, records, out, counts, warned>>

(* The order of the keys of a std::map. *)
KeyLess(g, h) ==
    \E i \in DOMAIN g : g[i] < h[i] /\ \A j \in 1 .. i - 1 : g[j] = h[j]

Line(g, n) == [group |-> g, count |-> n]
Written == {counts[k].group : k \in DOMAIN counts}

(* The loop over the groups; without --group-by there is one line, for a   *)
(* count of zero too.                                                      *)
EmitCount ==
    /\ phase = "gathered" /\ counting /\ uncounted = {}
    /\ IF groupBy = <<>> /\ DOMAIN groups = {}
       THEN counts = <<>> /\ counts' = <<Line(<<>>, 0)>>
       ELSE \E g \in DOMAIN groups \ Written :
               /\ \A h \in DOMAIN groups \ Written : ~KeyLess(h, g)
               /\ counts' = Append(counts, Line(g, groups[g]))
    /\ UNCHANGED <<phase, options, visited, maps, pointIds, records, out, uncounted, groups, warned>>

Exit ==
    /\ phase = "gathered"
    /\ uncounted = {}
    /\ IF counting THEN DOMAIN groups \subseteq Written /\ (groupBy = <<>> => counts # <<>>)
       ELSE Len(out) >= limit \/ Shown = records
    /\ phase' = "exit"
    /\ warned' = (~counting /\ Len(out) < Cardinality(records))
    /\ UNCHANGED <<options, visited, maps, pointIds, records, out, tally>>

Next ==
    \/ \E r \in Record : Visit(r) \/ CountRecord(r)
    \/ Gather \/ CountGathered \/ Emit \/ EmitCount \/ Exit
    \/ phase = "exit" /\ UNCHANGED vars

Spec == Init /\ [][Next]_vars

-----------------------------------------------------------------------------
(* Properties *)

Before == {r \in visited : r.time <= at}
After  == {r \in visited : r.time >= at}
Gathered == phase # "visit"
Result == {e.record : e \in records}

(* Every record before the point has a record of its key in the result     *)
(* that is not older and not after the point: the newest is not missed,    *)
(* whatever the order of the records and whatever else was kept.           *)
LatestReported ==
    Gathered /\ "latest" \in select =>
        \A r \in Before : \E s \in Result :
            Key(s) = Key(r) /\ r.time <= s.time /\ s.time <= at

(* "`--next`: earliest matching record at or after the point, per          *)
(* trace/source/kind."                                                     *)
NextReported ==
    Gathered /\ "next" \in select =>
        \A r \in After : \E s \in Result :
            Key(s) = Key(r) /\ at <= s.time /\ s.time <= r.time

(* What is in the result is there for a reason: an active interval, or a   *)
(* record of its key that no other is closer to the point than.            *)
Wanted(r) ==
    \/ "active" \in select /\ r.time <= at /\ at <= r.end
    \/ "latest" \in select /\ r.time <= at /\ \A s \in Before : Key(s) = Key(r) => s.time <= r.time
    \/ "next" \in select /\ r.time >= at /\ \A s \in After : Key(s) = Key(r) => s.time >= r.time
OnlyWanted == Gathered => \A r \in Result : Wanted(r)

(* "`--limit N` limits normal record output after deterministic ordering.  *)
(* It does not change counts."  Every group of the records that the query  *)
(* selects has one line with their number, groups that are empty have      *)
(* none, and the lines come in the order of their keys, whatever the order *)
(* in which the records came.                                              *)
CountsAreExact ==
    phase = "exit" /\ counting =>
        LET selected == IF at = NoPoint THEN visited ELSE Result
            Size(g) == Cardinality({r \in selected : Group(r) = g})
        IN  /\ \A r \in selected : Group(r) \in Written
            /\ \A k \in DOMAIN counts : counts[k].count = Size(counts[k].group)
            /\ \A k \in DOMAIN counts : groupBy # <<>> => counts[k].count > 0
            /\ \A j, k \in DOMAIN counts : j < k => KeyLess(counts[j].group, counts[k].group)
            /\ groupBy = <<>> => Len(counts) = 1

(* A record that is newest, earliest and active at once is reported once.  *)
ReportedOnce ==
    \A e, f \in records : Identity(e.record) = Identity(f.record) => e = f

=============================================================================
