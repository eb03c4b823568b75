---------------------------- MODULE CommandLine -----------------------------
(***************************************************************************)
(* The command line: parse_cli of src/src/cli.cpp takes the arguments one  *)
(* after the other and then checks them together; the constructor of the   *)
(* class Matcher of src/src/query.cpp checks some of it again.             *)
(*                                                                         *)
(* Times are as in TimeRange, which has the values of --from and --to;     *)
(* here they are numbers.  Arguments come in any order, each once.         *)
(***************************************************************************)
EXTENDS Integers, FiniteSets, Sequences, SequencesExt, FiniteSetsExt

CONSTANTS
    Argument,    \* the arguments users give: <<option, value>>
    MaxArguments \* bound: how many of them one command line has

ASSUME BoundAssumption == MaxArguments \in Nat

(* Times have been through parse_time; of a selector's expression it is    *)
(* said whether it can be compiled.                                        *)
ASSUME ArgumentAssumption ==
    \A a \in Argument :
        /\ a[1] \in {"--from", "--to", "--at"} => a[2] \in Nat
        /\ a[1] = "--thread" => a[2] \in BOOLEAN

Commands == {"check", "range", "info", "sources", "query"}

(* adapter.cpp: the kinds, with the fields that filters may name. *)
ZoneKinds     == {"cpu-zone", "gpu-zone", "ghost-zone"}
SampleKinds   == {"sample", "ghost-zone", "hardware-sample"}
SchedulerKinds == {"context-switch", "cpu-slice", "cpu-usage"}
IntervalKinds == ZoneKinds \cup {"frame", "context-switch", "cpu-slice"}
AllKinds == ZoneKinds \cup SampleKinds \cup SchedulerKinds \cup
            {"message", "plot", "frame", "frame-image", "lock", "memory", "crash"}

FilterFields(k) ==
    {"trace", "source", "kind"} \cup
    CASE k = "message"  -> {"text", "thread", "color"}
      [] k = "plot"     -> {"name", "plot_type", "format"}
      [] k = "cpu-zone" -> {"name", "text", "function", "file", "thread", "color"}
      [] k = "gpu-zone" -> {"name", "function", "file", "thread", "context", "note"}
      [] k \in {"frame", "frame-image"} -> {"frame_set"}
      [] k = "lock"     -> {"name", "operation", "thread", "function", "file"}
      [] k = "memory"   -> {"pool", "operation", "thread", "symbol"}
      [] k \in SampleKinds    -> {"thread", "symbol", "function", "file", "counter"}
      [] k \in SchedulerKinds -> {"thread", "process", "cpu", "reason", "state", "derived"}
      [] k = "crash"    -> {"message", "thread", "symbol"}

None  == "none"
Unset == -1

VARIABLES
    given,         \* history: the arguments taken
    answer,        \* None, "help", "usage" (status 2) or "accepted"
    command,       \* command, or None
    positional,    \* positional_only
    queryOption,   \* query_option_seen
    traces,        \* options.traces: paths with their labels
    labels,        \* the labels given, in order
    kinds, every,  \* options.kinds and all_kinds
    from, to, at,  \* from_ns, to_ns and at_ns
    points,        \* latest, next, active
    structure,     \* root_zones, zone_depth, zone_parent, zone_ancestor
    filters,       \* a kind or None, and a field
    broken         \* a regular expression is malformed

scopes  == <<kinds, every, structure, filters, broken>>
times   == <<from, to, at, points>>
inputs  == <<command, positional, traces, labels>>
vars    == <<given, answer, queryOption, inputs, scopes, times>>

Init ==
    /\ given = {}
    /\ answer = None
    /\ command = None
    /\ positional = FALSE
    /\ queryOption = FALSE
    /\ traces = <<>> /\ labels = <<>>
    /\ kinds = {} /\ every = FALSE
    /\ from = Unset /\ to = Unset /\ at = Unset
    /\ points = {} /\ structure = {} /\ filters = {}
    /\ broken = FALSE

-----------------------------------------------------------------------------
(* The loop over the arguments. *)

Take(argument) ==
    /\ answer = None
    /\ argument \in Argument \ given
    /\ Cardinality(given) < MaxArguments
    /\ given' = given \cup {argument}

Trace(path, label) == [path |-> path, label |-> label]
AddTrace(word) == traces' = Append(traces, Trace(word, word))

(* A word is the command or, once there is one, a trace.  A trace without  *)
(* a command is to be checked; so is every word after `--'.                *)
TakeWord(word) ==
    /\ Take(<<"word", word>>)
    /\ CASE command = None /\ ~positional /\ word \in Commands ->
               command' = word /\ UNCHANGED <<traces, answer>>
         [] command = None /\ (positional \/ word # "-x") ->
               command' = "check" /\ AddTrace(word) /\ UNCHANGED answer
         [] command = None /\ ~positional /\ word = "-x" ->
               answer' = "usage" /\ UNCHANGED <<command, traces>>
         [] command # None ->
               AddTrace(word) /\ UNCHANGED <<command, answer>>
    /\ UNCHANGED <<queryOption, positional, labels, scopes, times>>

(* What begins with `--' is an option, unless it comes after `--'. *)
TakeOption(option, value) == ~positional /\ Take(<<option, value>>)

(* After `--' it is a trace: --quiet stands for every such argument.       *)
TakeQuiet ==
    /\ Take(<<"--quiet", None>>)
    /\ IF positional
       THEN AddTrace("--quiet") /\ command' = IF command = None THEN "check" ELSE command
       ELSE UNCHANGED <<command, traces>>
    /\ UNCHANGED <<answer, positional, labels, queryOption, scopes, times>>

EndOptions ==
    /\ TakeOption("--", None)
    /\ positional' = TRUE
    /\ UNCHANGED <<answer, command, traces, labels, queryOption, scopes, times>>

(* --help and --version answer at once, and so do a value that an option   *)
(* does not take and an option that there is not.                          *)
TakeHelp ==
    /\ TakeOption("--help", None)
    /\ answer' = "help"
    /\ UNCHANGED <<inputs, queryOption, scopes, times>>

TakeUnknown ==
    /\ TakeOption("--unknown", None)
    /\ answer' = "usage"
    /\ UNCHANGED <<inputs, queryOption, scopes, times>>

TakeLabel(path, label) ==
    /\ TakeOption("--trace-label", <<path, label>>)
    /\ labels' = Append(labels, Trace(path, label))
    /\ UNCHANGED <<answer, command, positional, traces, queryOption, scopes, times>>

QueryOption(option, value) ==
    /\ TakeOption(option, value)
    /\ queryOption' = TRUE
    /\ UNCHANGED <<answer, inputs>>

TakeKind(k) ==
    /\ QueryOption("--kind", k)
    /\ IF k = "all" THEN every' = TRUE /\ UNCHANGED kinds
       ELSE kinds' = kinds \cup {k} /\ UNCHANGED every
    /\ UNCHANGED <<structure, filters, broken, times>>

TakePoint(p) ==
    /\ QueryOption("--point", p)
    /\ points' = points \cup {p}
    /\ UNCHANGED <<from, to, at, scopes>>

TakeTime(option, t) ==
    /\ QueryOption(option, t)
    /\ CASE option = "--from" -> from' = t /\ UNCHANGED <<to, at>>
         [] option = "--to"   -> to' = t /\ UNCHANGED <<from, at>>
         [] option = "--at"   -> at' = t /\ UNCHANGED <<from, to>>
    /\ UNCHANGED <<points, scopes>>

TakeStructure(s) ==
    /\ QueryOption("--zone", s)
    /\ structure' = structure \cup {s}
    /\ UNCHANGED <<kinds, every, filters, broken, times>>

TakeFilter(k, field) ==
    /\ QueryOption("--filter", <<k, field>>)
    /\ filters' = filters \cup {[kind |-> k, field |-> field]}
    /\ UNCHANGED <<kinds, every, structure, broken, times>>

(* A selector of sources; its expression may be malformed. *)
TakeSelector(isRegex) ==
    /\ QueryOption("--thread", isRegex)
    /\ broken' = (broken \/ ~isRegex)
    /\ UNCHANGED <<kinds, every, structure, filters, times>>

-----------------------------------------------------------------------------
(* The checks after the loop. *)

(* Definitions named Slip... are plausible mistakes in the definition that *)
(* follows; the specification does not use them.                           *)
SlipLabelled(ts, ls) ==
    [i \in DOMAIN ts |->
        LET mine == {j \in DOMAIN ls : ls[j].path = ts[i].path}
        IN  IF mine = {} THEN ts[i] ELSE ls[Min(mine)]]

(* The last label given for a path is the label of every trace of it. *)
Labelled(ts, ls) ==
    [i \in DOMAIN ts |->
        LET mine == {j \in DOMAIN ls : ls[j].path = ts[i].path}
        IN  IF mine = {} THEN ts[i] ELSE ls[Max(mine)]]

UnknownPath == \E l \in ToSet(labels) : \A t \in ToSet(traces) : t.path # l.path

Queried == IF every THEN AllKinds ELSE kinds
HasRange == from # Unset \/ to # Unset

TimesClash ==
    \/ at # Unset /\ HasRange
    \/ at # Unset /\ points = {}
    \/ at = Unset /\ points # {}
    \/ from # Unset /\ to # Unset /\ from > to

(* The constructor of Matcher looks for these again, see Throws. *)
ActiveClashes == "active" \in points /\ \E k \in Queried : k \notin IntervalKinds
SlipStructureClashes == structure # {} /\ \A k \in Queried : k \notin ZoneKinds
StructureClashes ==
    /\ structure # {}
    /\ \E k \in Queried :
          k \notin ZoneKinds \/ (k = "ghost-zone" /\ structure \cap {"parent", "ancestor"} # {})
SlipFieldsClash == \E f \in filters, k \in Queried : f.field \notin FilterFields(k)
FieldsClash ==
    \E f \in filters :
        IF f.kind # None THEN f.field \notin FilterFields(f.kind)
        ELSE \E k \in Queried : f.field \notin FilterFields(k)

QueryClashes ==
    Queried = {} \/ TimesClash \/ ActiveClashes \/ StructureClashes \/ FieldsClash
SourcesClash == \E f \in filters : f.field \notin {"name", "source", "source_type"}

IsRefused ==
    \/ command = None \/ traces = <<>> \/ UnknownPath
    \/ command = "query" /\ QueryClashes
    \/ command = "sources" /\ SourcesClash
    \/ command \notin {"query", "sources"} /\ queryOption
    \/ broken

Check ==
    /\ answer = None
    /\ answer' = IF IsRefused THEN "usage" ELSE "accepted"
    /\ traces' = IF IsRefused THEN traces ELSE Labelled(traces, labels)
    /\ kinds' = Queried
    /\ UNCHANGED <<given, command, positional, labels, queryOption, every, structure, filters,
                   broken, times>>

TakeArgument ==
    \/ \E a \in Argument :
          CASE a[1] = "word"          -> TakeWord(a[2])
            [] a[1] = "--trace-label" -> TakeLabel(a[2][1], a[2][2])
            [] a[1] = "--kind"        -> TakeKind(a[2])
            [] a[1] = "--point"       -> TakePoint(a[2])
            [] a[1] \in {"--from", "--to", "--at"} -> TakeTime(a[1], a[2])
            [] a[1] = "--zone"        -> TakeStructure(a[2])
            [] a[1] = "--filter"      -> TakeFilter(a[2][1], a[2][2])
            [] a[1] = "--thread"      -> TakeSelector(a[2])
            [] OTHER -> FALSE
    \/ TakeQuiet \/ EndOptions \/ TakeHelp \/ TakeUnknown

Next == TakeArgument \/ Check \/ (answer # None /\ UNCHANGED vars)

Spec == Init /\ [][Next]_vars

-----------------------------------------------------------------------------
(* run_query first makes a Matcher of the options, which throws, with exit *)
(* status 1, for what it cannot work with.                                 *)

InvalidField ==
    \E f \in filters, k \in kinds : f.kind \in {None, k} /\ f.field \notin FilterFields(k)

Throws ==
    \/ broken
    \/ InvalidField
    \/ structure # {} /\ ~(kinds \subseteq ZoneKinds)
    \/ structure \cap {"parent", "ancestor"} # {} /\ "ghost-zone" \in kinds
    \/ "active" \in points /\ ~(kinds \subseteq IntervalKinds)

-----------------------------------------------------------------------------
(* Properties *)

(* What the parser accepts for a query, the Matcher can work with: a wrong *)
(* command line ends with status 2 and never, after the traces have been   *)
(* loaded, with the status 1 of an execution that failed.                  *)
ParserAndMatcherAgree == answer = "accepted" /\ command = "query" => ~Throws

(* What was given for an option, wherever on the command line it stood. *)
Given(option) == {a[2] : a \in {b \in given : b[1] = option}}
Has(option) == Given(option) # {}
KindsAsked == IF "all" \in Given("--kind") THEN AllKinds ELSE Given("--kind")

(* The rules that SKILL.md and the help state for a query, "Time           *)
(* selection", "Source, structural, and callstack selectors" and "Field    *)
(* regex filters".                                                         *)
QueryRules ==
    /\ KindsAsked # {}
    /\ Has("--at") => ~Has("--from") /\ ~Has("--to")
    /\ Has("--at") <=> Has("--point")
    /\ Has("--from") /\ Has("--to") => from <= to
    /\ "active" \in Given("--point") => KindsAsked \subseteq IntervalKinds
    /\ Has("--zone") => KindsAsked \subseteq ZoneKinds
    /\ Given("--zone") \cap {"parent", "ancestor"} # {} => "ghost-zone" \notin KindsAsked
    /\ \A f \in Given("--filter") :
          \A k \in IF f[1] = None THEN KindsAsked ELSE {f[1]} : f[2] \in FilterFields(k)

QueryOptions == {"--kind", "--point", "--from", "--to", "--at", "--zone", "--filter", "--thread"}

(* A command line that was read to its end is accepted if and only if what *)
(* it gives, taken together and whatever the order, keeps the documented   *)
(* rules of its command.                                                   *)
AcceptedAsDocumented ==
    answer = "accepted" \/ (answer = "usage" /\ ~Has("--unknown") /\ command # None) =>
        (answer = "accepted" <=>
            /\ traces # <<>>
            /\ \A l \in Given("--trace-label") : \E t \in ToSet(traces) : t.path = l[1]
            /\ FALSE \notin Given("--thread")
            /\ CASE command = "query"   -> QueryRules
                 [] command = "sources" ->
                        \A f \in Given("--filter") : f[2] \in {"name", "source", "source_type"}
                 [] OTHER -> \A o \in QueryOptions : ~Has(o))

(* "replace an input path in output with a stable label": every trace of a *)
(* path has the label that was given last for it, before the path or after *)
(* it; a trace for which none was given keeps its path.                    *)
LabelsApply ==
    answer = "accepted" =>
        \A i \in DOMAIN traces :
            IF \E l \in ToSet(labels) : l.path = traces[i].path
            THEN \E j \in DOMAIN labels :
                    /\ labels[j] = traces[i]
                    /\ \A k \in DOMAIN labels : labels[k].path = traces[i].path => k <= j
            ELSE traces[i].label = traces[i].path

=============================================================================
