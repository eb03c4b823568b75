---------------------------- MODULE MCInventory -----------------------------
(* Options for TLC: one or two selectors each. *)
EXTENDS Matcher

MCActor == [z \in Item |-> 1 + (z % 2)]

(* Expressions: one text alone; a number wherever it stands; a name        *)
(* wherever it stands; anything.                                           *)
Alone(text) == {text}
Anywhere(n) ==
    {Number(n)} \cup {Id(<<type, n>>) : type \in {"thread", "gpu-thread", "lock", "memory-pool"}}
Named(t) == {ThreadName(t), NameOf(<<"gpu-thread", t>>)}
SourceTypes == {"thread", "plot", "gpu-thread", "frame-set", "lock", "memory-pool", "cpu",
                "hardware-counter", "capture"}
Anything ==
    {Nothing} \cup UNION {{Number(n), ZoneName(n), ContextName(n)} : n \in 0 .. N} \cup
    UNION {{Id(<<type, n>>), NameOf(<<type, n>>)} : type \in SourceTypes, n \in 0 .. Places}

With(o, field, values) == [o EXCEPT ![field] = values]
One(field, values) == With(NoOptions, field, values)
Filter(scope, field, pattern) == [kind |-> scope, field |-> field, pattern |-> pattern]

Scoped ==
    {One("sourceIds", {<<"thread", 1>>, <<"plot", 2>>}),
     One("sourceRegexes", {Anywhere(1), Alone(Id(<<"frame-set", 2>>))}),
     One("sourceTypes", {"thread", "cpu"}),
     One("threads", {Anywhere(2)}), One("threads", {Named(1)}),
     One("threads", {Anything}),
     One("gpuContexts", {{Number(2), Id(<<"gpu-thread", 3>>)}}),
     One("gpuContexts", {{ContextName(1), NameOf(<<"gpu-thread", 1>>), NameOf(<<"gpu-thread", 2>>)}}),
     One("plots", {Alone(NameOf(<<"plot", 1>>))}),
     One("frameSets", {Alone(NameOf(<<"frame-set", 2>>))}), One("frameSets", {Anything}),
     One("locks", {Anywhere(2), Alone(NameOf(<<"lock", 3>>))}),
     One("memoryPools", {Alone(NameOf(<<"memory-pool", 1>>)), Alone(Id(<<"memory-pool", 2>>))}),
     One("cpus", {1, 3}),
     One("filters", {Filter(NoKind, "source", Anywhere(1)), Filter("sample", "source", Anything)}),
     One("filters", {Filter("message", "source", Alone(Id(<<"thread", 2>>)))}),
     With(One("sourceTypes", {"lock", "thread"}), "locks", {Anything}),
     With(One("sourceIds", {<<"thread", 2>>}), "threads", {Anywhere(1)})}

Structural ==
    {One("rootZones", TRUE), One("zoneDepth", 1 .. 2),
     One("zoneParent", {Alone(ZoneName(1))}),
     One("zoneAncestor", {{ZoneName(1), ZoneName(3)}}),
     With(One("zoneDepth", {2, 3}), "zoneAncestor", {{ZoneName(2)}})}

MCOptionSets == Scoped \cup Structural

=============================================================================
