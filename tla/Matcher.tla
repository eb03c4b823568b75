------------------------------ MODULE Matcher -------------------------------
(***************************************************************************)
(* What the options of a query and of `sources' select: the class Matcher  *)
(* of src/src/query.cpp and source_selected of src/src/commands.cpp.       *)
(*                                                                         *)
(* A regular expression is the set of the texts it is found in.  Of the    *)
(* texts only those matter that the code hands to an expression: the id or *)
(* name of a source, a number, the name of a zone, or nothing.             *)
(***************************************************************************)
EXTENDS Sources

CONSTANTS
    OptionSets,   \* the options tried; see NoOptions
    Actor         \* by item, the thread that locked, allocated, ran or crashed, or
                  \* the CPU of a context switch

ASSUME ActorAssumption == Actor \in [Item -> 1 .. Places]

(* Texts. *)
Nothing       == <<"nothing", "", 0>>
Number(n)     == <<"number", "", n>>
Id(source)    == <<"id", source[1], source[2]>>
NameOf(source) == <<"name", source[1], source[2]>>
ZoneName(z)   == <<"zone", "", z>>
ContextName(c) == <<"context", "", c>>

(* The place p of a GPU is the thread p of a context. *)
ContextOf(p)  == (p + 1) \div 2
ThreadName(t) == NameOf(<<"thread", t>>)

(* The fields of the options that select, none of them given. *)
NoOptions ==
    [kinds |-> {}, sourceIds |-> {}, sourceRegexes |-> {}, sourceTypes |-> {}, threads |-> {},
     gpuContexts |-> {}, plots |-> {}, frameSets |-> {}, locks |-> {}, memoryPools |-> {},
     cpus |-> {}, rootZones |-> FALSE, zoneDepth |-> {}, zoneParent |-> {}, zoneAncestor |-> {},
     filters |-> {}]

ASSUME OptionsAssumption == \A o \in OptionSets : DOMAIN o = DOMAIN NoOptions

-----------------------------------------------------------------------------

MatchesAny(text, patterns) == patterns = {} \/ \E p \in patterns : text \in p
MatchesEither(first, second, patterns) ==
    MatchesAny(first, patterns) \/ MatchesAny(second, patterns)
IsOneOf(value, values) == values = {} \/ value \in values

PlaceOfSource(r) == r.source[2]

HasThread(r) ==
    r.kind \in ThreadKind \cup {"gpu-zone", "lock", "memory", "cpu-slice", "crash"}
ThreadOf(r) ==
    IF r.kind \in ThreadKind \cup {"gpu-zone"} THEN PlaceOfSource(r) ELSE Actor[r.item]

(* field_string: nothing when a record has no such field. *)
Field(r, name) ==
    CASE name = "source" -> Id(r.source)
      [] name = "thread" /\ HasThread(r) -> Number(ThreadOf(r))
      [] name = "thread_name" /\ HasThread(r) -> ThreadName(ThreadOf(r))
      [] name = "context" /\ r.kind = "gpu-zone" -> Number(ContextOf(PlaceOfSource(r)))
      [] name = "context_name" /\ r.kind = "gpu-zone" -> ContextName(ContextOf(PlaceOfSource(r)))
      [] name = "name" /\ r.kind \in {"cpu-zone", "gpu-zone"} -> ZoneName(r.item)
      [] name = "name" /\ r.kind \in {"plot", "lock"} -> NameOf(r.source)
      [] name = "frame_set" /\ r.kind \in {"frame", "frame-image"} -> NameOf(r.source)
      [] name = "pool" /\ r.kind = "memory" -> NameOf(r.source)
      [] name = "cpu" /\ r.kind = "cpu-slice" -> Number(PlaceOfSource(r))
      [] name = "cpu" /\ r.kind = "context-switch" -> Number(Actor[r.item])
      [] name = "parent_name" /\ r.ancestors # <<>> -> ZoneName(Last(r.ancestors))
      [] OTHER -> Nothing

(* The scope of a filter: NoKind when it holds for every kind. *)
InScope(filter, kinds) == filter.kind = NoKind \/ filter.kind \in kinds

(* A parent is looked for in a text that is nothing for a zone without     *)
(* one; an ancestor among the names there are.                             *)
SlipMatchesStructure(o, r) ==
    /\ o.rootZones /\ r.kind \in Nested => r.depth = 0
    /\ o.zoneDepth # {} => r.kind \in Nested /\ r.depth \in o.zoneDepth
    /\ \A p \in o.zoneParent : Field(r, "parent_name") \in p
    /\ \A p \in o.zoneAncestor : Field(r, "parent_name") \in p
MatchesStructure(o, r) ==
    /\ o.rootZones /\ r.kind \in Nested => r.depth = 0
    /\ o.zoneDepth # {} => r.kind \in Nested /\ r.depth \in o.zoneDepth
    /\ \A p \in o.zoneParent : Field(r, "parent_name") \in p
    /\ \A p \in o.zoneAncestor : \E z \in ToSet(r.ancestors) : ZoneName(z) \in p

MatchesScope(o, r) ==
    /\ IsOneOf(r.source, o.sourceIds)
    /\ MatchesAny(Id(r.source), o.sourceRegexes)
    /\ IsOneOf(SourceType(r.kind), o.sourceTypes)
    /\ MatchesEither(Field(r, "thread"), Field(r, "thread_name"), o.threads)
    /\ MatchesEither(Field(r, "context"), Field(r, "context_name"), o.gpuContexts)
    /\ o.plots # {} => r.kind = "plot" /\ MatchesAny(Field(r, "name"), o.plots)
    /\ MatchesAny(Field(r, "frame_set"), o.frameSets)
    /\ o.locks # {} =>
          r.kind = "lock" /\ MatchesEither(Id(r.source), Field(r, "name"), o.locks)
    /\ o.memoryPools # {} =>
          r.kind = "memory" /\ MatchesEither(Id(r.source), Field(r, "pool"), o.memoryPools)
    /\ IsOneOf(Field(r, "cpu"), {Number(n) : n \in o.cpus})

(* Matcher::matches *)
Matches(o, r) ==
    /\ MatchesScope(o, r)
    /\ MatchesStructure(o, r)
    /\ \A f \in o.filters : InScope(f, {r.kind}) => Field(r, f.field) \in f.pattern

-----------------------------------------------------------------------------

(* The name of the source of a GPU thread is put together from those of the *)
(* context and of the thread.                                              *)
NameOfSource(s) ==
    CASE s.id[1] = "cpu"     -> Number(s.id[2])
      [] s.id[1] = "capture" -> Nothing
      [] OTHER               -> NameOf(s.id)

(* The part of source_selected that filters: other fields are passed over. *)
SourceField(s, name) ==
    CASE name = "name"        -> NameOfSource(s)
      [] name = "source"      -> Id(s.id)
      [] name = "source_type" -> <<"type", s.id[1], 0>>

SlipIsOfType(s, types, patterns) == TRUE
IsOfType(s, types, patterns) == patterns = {} \/ s.id[1] \in types

SourceSelected(o, s) ==
    LET name == NameOfSource(s) IN
    /\ o.kinds = {} \/ KindsOfSource(s) \cap o.kinds # {}
    /\ IsOneOf(s.id, o.sourceIds)
    /\ MatchesAny(Id(s.id), o.sourceRegexes)
    /\ IsOneOf(s.id[1], o.sourceTypes)
    /\ IsOfType(s, {"thread", "gpu-thread"}, o.threads) /\ MatchesEither(Id(s.id), name, o.threads)
    /\ IsOfType(s, {"gpu-thread"}, o.gpuContexts) /\ MatchesEither(Id(s.id), name, o.gpuContexts)
    /\ IsOfType(s, {"plot"}, o.plots) /\ MatchesAny(name, o.plots)
    /\ IsOfType(s, {"frame-set"}, o.frameSets) /\ MatchesAny(name, o.frameSets)
    /\ IsOfType(s, {"lock"}, o.locks) /\ MatchesEither(Id(s.id), name, o.locks)
    /\ IsOfType(s, {"memory-pool"}, o.memoryPools) /\ MatchesEither(Id(s.id), name, o.memoryPools)
    /\ IsOneOf(s.id, {<<"cpu", n>> : n \in o.cpus})
    /\ \A f \in o.filters :
          InScope(f, KindsOfSource(s)) /\ f.field \in {"name", "source", "source_type"} =>
          SourceField(s, f.field) \in f.pattern

-----------------------------------------------------------------------------
(* Properties *)

(* Where the two commands hand the same text to the same expression.  They *)
(* do not for threads and GPU contexts, which a query knows by number and  *)
(* by their own name (and `sources' by source id and by the name of the    *)
(* source); for records that have a thread or a CPU but come from another  *)
(* source; for expressions that match nothing; for the name that a filter  *)
(* looks at; and for a filter of one kind of a source that has several.    *)
SameThread(r, p) ==
    CASE r.kind \in ThreadKind -> (Number(ThreadOf(r)) \in p) = (Id(r.source) \in p)
      [] OTHER                 -> ~HasThread(r) /\ Nothing \notin p
SameContext(r, p) ==
    IF r.kind # "gpu-zone" THEN Nothing \notin p
    ELSE LET c == ContextOf(PlaceOfSource(r))
         IN  (Number(c) \in p \/ ContextName(c) \in p)
             = (Id(r.source) \in p \/ NameOf(r.source) \in p)

Alike(o, r, s) ==
    /\ \A p \in o.threads : SameThread(r, p)
    /\ \A p \in o.gpuContexts : SameContext(r, p)
    /\ \A p \in o.frameSets : r.kind \in {"frame", "frame-image"} \/ Nothing \notin p
    /\ o.cpus # {} => r.kind # "context-switch"
    /\ \A f \in o.filters :
          /\ f.field = "source"
          /\ f.kind \in {NoKind, r.kind} \/ f.kind \notin KindsOfSource(s)

(* "The source selectors documented for `sources` also apply to `query`":  *)
(* where they are handed the same texts, a query selects a record if, and  *)
(* only if, `sources' selects the source it comes from.                    *)
Scopes(o) == [o EXCEPT !.rootZones = FALSE, !.zoneDepth = {}, !.zoneParent = {}, !.zoneAncestor = {}]
SelectorsAgree ==
    Over =>
        \A s \in DiscoverSources : \A r \in RecordsOf(s), o \in OptionSets :
           LET scope == [Scopes(o) EXCEPT !.kinds = {r.kind}] IN
           Alike(o, r, s) => (Matches(scope, r) <=> SourceSelected(scope, s))

(* The zones that the structure options select, told from the trace itself *)
(* and not from what the visitors have made of it: roots, depths, and      *)
(* zones that lie directly or somewhere below a zone whose name matches.   *)
IsSelected(o, r) ==
    /\ o.rootZones => above[r.item] < 0
    /\ o.zoneDepth # {} => Cardinality(Ancestors(above, r.item)) \in o.zoneDepth
    /\ \A p \in o.zoneParent : above[r.item] > 0 /\ ZoneName(above[r.item]) \in p
    /\ \A p \in o.zoneAncestor : \E z \in Ancestors(above, r.item) : ZoneName(z) \in p

StructureSelects ==
    Over =>
        \A r \in Presented, o \in OptionSets :
           /\ r.kind \in Nested
           /\ o = [Scopes(NoOptions) EXCEPT !.rootZones = o.rootZones, !.zoneDepth = o.zoneDepth,
                     !.zoneParent = o.zoneParent, !.zoneAncestor = o.zoneAncestor]
           /\ r.kind = "ghost-zone" => o.zoneParent = {} /\ o.zoneAncestor = {}
           /\ \A p \in o.zoneParent : Nothing \notin p
           => (Matches(o, r) <=> IsSelected(o, r))

=============================================================================
