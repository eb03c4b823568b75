------------------------------ MODULE Sources -------------------------------
(***************************************************************************)
(* The command `sources': discover_sources of src/src/commands.cpp.  It    *)
(* reads the collections of a trace by itself, without the visitors, and   *)
(* says of every source which kinds it has, how many records of each, and  *)
(* between which times they lie.  The properties compare what it says with *)
(* what the visitors have presented.                                       *)
(***************************************************************************)
EXTENDS Visitors

-----------------------------------------------------------------------------
(* The range of a source: first_timestamp_ns and last_timestamp_ns. *)

NoRange == [first |-> "none", last |-> "none"]

(* update_range and update_interval, for all the times given. *)
Spanning(times) ==
    IF times = {} THEN NoRange ELSE [first |-> Min(times), last |-> Max(times)]

(* From where the first item of a vector begins to a time of the last, if  *)
(* there is one.                                                           *)
FrontToBack(S, last) ==
    IF S = {} THEN NoRange ELSE [first |-> StartOf(Min(S)), last |-> last]

(* Tracy has no time for the end of an open interval: what End() returns   *)
(* then is no time of the trace.                                           *)
NoTime == -1
RawEnd(z) == IF IsOpen(z) THEN NoTime ELSE EndOf(z)

(* The items of a kind at a place, and those that lie below no other.      *)
Own(k, p) == {z \in Item : kindOf[z] = k /\ PlaceOf(z) = p}
Back(k, p) == Max(Own(k, p))
Timeline(k, p) == {z \in Own(k, p) : above[z] < 0}

(* The two vectors that items may be in. *)
Apart(S) == {S \ marked, S \cap marked} \ {{}}

Starts(S) == {StartOf(z) : z \in S}
Ends(S)   == {EndOf(z) : z \in S}

(* The times that the range of a thread takes into account. *)
ThreadTimes(k, p) ==
    LET S == Own(k, p) IN
    CASE k = "cpu-zone"       -> {StartOf(Min(Timeline(k, p))), EndOf(Max(Timeline(k, p)))}
      [] k = "message"        -> Starts({Min(S), Max(S)})
      [] k = "sample"         -> UNION {Starts({Min(V), Max(V)}) : V \in Apart(S)}
      [] k = "ghost-zone"     -> Starts(S) \cup Ends(S)
      [] k = "context-switch" -> {StartOf(Min(S)), RawEnd(Max(S))}

(* count_gpu_zones looks at every zone: those of a GPU may be out of order. *)
SlipGpuTimes(p) ==
    LET S == Timeline("gpu-zone", p)
    IN  IF S = {} THEN {} ELSE {StartOf(Min(S)), EndOf(Max(S))}
GpuTimes(p) == Starts(Own("gpu-zone", p)) \cup Ends(Own("gpu-zone", p))

MemoryTimes(p) ==
    Starts(Own("memory", p)) \cup {FreeOf(z) : z \in Own("memory", p) \cap marked}

(* The samples of a hardware counter, address by address. *)
CounterSamples(c, p) == {z \in Own("hardware-sample", p) : (z \in marked) = (c = 2)}
AllSamples(c) == UNION {CounterSamples(c, p) : p \in 1 .. Places}
CounterTimes(c) ==
    UNION {Starts({Min(S), Max(S)}) : S \in {CounterSamples(c, p) : p \in 1 .. Places} \ {{}}}

-----------------------------------------------------------------------------

(* counts says how many records there are of each kind. *)
Source(type, number, counts, range) ==
    [id |-> <<type, number>>, counts |-> counts, range |-> range]

KindsOfSource(s) == DOMAIN s.counts

Count(k, n) == [x \in {k} |-> n]
Size(k, p) == Cardinality(Own(k, p))

(* Threads and CPUs without records are not listed, nor are counters;      *)
(* other sources are.                                                      *)
ThreadSources ==
    {Source("thread", t, [k \in {x \in ThreadKind : Own(x, t) # {}} |-> Size(k, t)],
            Spanning(UNION {ThreadTimes(k, t) : k \in {x \in ThreadKind : Own(x, t) # {}}}))
       : t \in {u \in 1 .. Places \ Foreign : \E k \in ThreadKind : Own(k, u) # {}}}

GpuSources ==
    {Source("gpu-thread", p, Count("gpu-zone", Size("gpu-zone", p)), Spanning(GpuTimes(p)))
       : p \in 1 .. Places}

PlotSources ==
    {Source("plot", p, Count("plot", Size("plot", p)), FrontToBack(Own("plot", p), StartOf(Back("plot", p))))
       : p \in 1 .. Places}

FrameSources ==
    {LET S == Own("frame", p)
         images == Cardinality(S \cap marked)
     IN  Source("frame-set", p,
                [k \in {"frame"} \cup (IF images = 0 THEN {} ELSE {"frame-image"}) |->
                   IF k = "frame" THEN Cardinality(S) ELSE images],
                FrontToBack(S, EndOf(Max(S))))
       : p \in 1 .. Places}

LockSources ==
    {Source("lock", p, Count("lock", Size("lock", p)), FrontToBack(Own("lock", p), StartOf(Back("lock", p))))
       : p \in 1 .. Places}

(* The allocations and the releases of a pool are counted apart; this is   *)
(* their sum.                                                              *)
MemorySources ==
    {Source("memory-pool", p,
            Count("memory", Size("memory", p) + Cardinality(Own("memory", p) \cap marked)),
            Spanning(MemoryTimes(p)))
       : p \in 1 .. Places}

CpuSources ==
    {Source("cpu", p, Count("cpu-slice", Size("cpu-slice", p)),
            FrontToBack(Own("cpu-slice", p), RawEnd(Back("cpu-slice", p))))
       : p \in {q \in 1 .. Places : Own("cpu-slice", q) # {}}}

CounterSources ==
    {Source("hardware-counter", c,
            Count("hardware-sample", Cardinality(AllSamples(c))),
            Spanning(CounterTimes(c)))
       : c \in {d \in 1 .. 2 : AllSamples(d) # {}}}

CrashSource ==
    {Source("capture", 0, Count("crash", 1), [first |-> StartOf(z), last |-> StartOf(z)])
       : z \in {y \in Item : kindOf[y] = "crash"}}

DiscoverSources ==
    ThreadSources \cup GpuSources \cup PlotSources \cup FrameSources \cup LockSources \cup
    MemorySources \cup CpuSources \cup CounterSources \cup CrashSource

-----------------------------------------------------------------------------
(* Properties *)

(* What no source is listed for: the usage of the CPUs, and what is known  *)
(* of threads that have no data of their own.                              *)
Unlisted(r) == r.kind = "cpu-usage" \/ r.source \in {<<"thread", t>> : t \in Foreign}

RecordsOf(s) == {r \in Presented : r.source = s.id /\ r.kind \in KindsOfSource(s)}

(* "Discover source IDs and names first, then scope later queries with     *)
(* them": a query finds its records in the sources that are listed, under  *)
(* the kinds they are listed with, and as many as they are said to have,   *)
(* between the times they are said to have (where no interval is open).    *)
SourcesDescribeRecords ==
    Over =>
        LET sources == DiscoverSources IN
        /\ \A r \in Presented :
              ~Unlisted(r) => \E s \in sources : s.id = r.source /\ r.kind \in KindsOfSource(s)
        /\ \A s \in sources :
              LET mine == RecordsOf(s) IN
              /\ \A k \in KindsOfSource(s) :
                    s.counts[k] = Cardinality({r \in mine : r.kind = k})
              /\ (\A r \in mine : ~IsOpen(r.item)) =>
                    s.range = Spanning({r.start : r \in mine} \cup {r.end : r \in mine})

=============================================================================
