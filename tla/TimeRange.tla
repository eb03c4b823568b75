----------------------------- MODULE TimeRange ------------------------------
(***************************************************************************)
(* The range options of the query command: how parse_cli of                *)
(* src/src/cli.cpp takes them one after the other and which it refuses,    *)
(* and which records temporal_range_match of src/src/query.cpp selects.    *)
(***************************************************************************)
EXTENDS TimeValue

CONSTANTS
    Given,       \* the texts a user gives
    TraceEnd,    \* the normalized time of the last event of the trace
    MaxOptions   \* bound: how many of these options a command line has

ASSUME EndAssumption == TraceEnd \in 0 .. SMax - 1
ASSUME GivenAssumption == Given \subseteq Texts
ASSUME OptionAssumption == MaxOptions \in Nat

(* A std::optional without a value. *)
Unset == -1

Modes == {"overlap", "start", "contained"}

(* The value of an option: a number with a unit, `start' or `end'. *)
Values == {<<"time", t>> : t \in Given} \cup {<<"start">>, <<"end">>}
None == <<"none">>

VARIABLES
    phase,               \* "parse", "refused" or "ready"
    from, to,            \* from_ns and to_ns
    fromStart, toEnd,    \* from_start and to_end
    mode,                \* range_match
    count,               \* how many options have been taken
    lastFrom, lastTo,    \* history: the last value of each option
    bad                  \* history: the value that parse_time has refused

bounds  == <<from, to, fromStart, toEnd>>
history == <<lastFrom, lastTo, bad>>
vars    == <<phase, bounds, mode, count, history>>

Init ==
    /\ phase = "parse"
    /\ from = Unset /\ to = Unset
    /\ fromStart = FALSE /\ toEnd = FALSE
    /\ mode = "overlap"
    /\ count = 0
    /\ lastFrom = None /\ lastTo = None /\ bad = None

IsTime(v) == v[1] = "time"
IsTaken(v) == IsTime(v) => Accepted(v[2])

Take ==
    /\ phase = "parse"
    /\ count < MaxOptions
    /\ count' = count + 1

(* `start' leaves from_ns as it is. *)
TakeFrom(v) ==
    /\ Take
    /\ IsTaken(v)
    /\ from' = CASE IsTime(v) -> Nanoseconds(v[2])
                 [] v[1] = "end" -> SMax
                 [] v[1] = "start" -> from
    /\ fromStart' = (fromStart \/ v[1] = "start")
    /\ lastFrom' = v
    /\ UNCHANGED <<phase, to, toEnd, mode, lastTo, bad>>

(* `end' leaves to_ns as it is. *)
TakeTo(v) ==
    /\ Take
    /\ IsTaken(v)
    /\ to' = CASE IsTime(v) -> Nanoseconds(v[2])
               [] v[1] = "end" -> to
               [] v[1] = "start" -> 0
    /\ toEnd' = (toEnd \/ v[1] = "end")
    /\ lastTo' = v
    /\ UNCHANGED <<phase, from, fromStart, mode, lastFrom, bad>>

(* parse_time refuses the value of --from or --to. *)
RefuseValue(v) ==
    /\ Take
    /\ ~IsTaken(v)
    /\ phase' = "refused"
    /\ bad' = v
    /\ UNCHANGED <<bounds, mode, lastFrom, lastTo>>

TakeMode(m) ==
    /\ Take
    /\ mode' = m
    /\ UNCHANGED <<phase, bounds, history>>

Validate ==
    /\ phase = "parse"
    /\ phase' = IF from # Unset /\ to # Unset /\ from > to THEN "refused" ELSE "ready"
    /\ UNCHANGED <<bounds, mode, count, history>>

Next ==
    \/ \E v \in Values : TakeFrom(v) \/ TakeTo(v) \/ RefuseValue(v)
    \/ \E m \in Modes : TakeMode(m)
    \/ Validate
    \/ phase # "parse" /\ UNCHANGED vars

Spec == Init /\ [][Next]_vars

-----------------------------------------------------------------------------
(* temporal_range_match.  A point in time is a record that ends where it   *)
(* starts.                                                                 *)

Explicit == from # Unset \/ to # Unset \/ fromStart \/ toEnd

From == IF from = Unset THEN 0 ELSE from
To   == IF to = Unset THEN TraceEnd ELSE to

SlipInRange(r, m) ==
    CASE m = "overlap"   -> r.start <= To /\ r.end > From
      [] m = "start"     -> r.start >= From /\ r.start <= To
      [] m = "contained" -> r.start >= From /\ r.end <= To

InRange(r, m) ==
    CASE m = "overlap"   -> r.start <= To /\ r.end >= From
      [] m = "start"     -> r.start >= From /\ r.start <= To
      [] m = "contained" -> r.start >= From /\ r.end <= To

Matches(r) == Explicit => InRange(r, mode)

-----------------------------------------------------------------------------
(* Properties *)

(* No word has wrapped in a way that shows: a bound that a number has set  *)
(* is exactly what that number says, and an int64_t.                       *)
Exact(bound, v) ==
    IsTime(v) => /\ bound * Scale[v[2].digits] = Meant(v[2])
                 /\ bound \in 0 .. SMax
BoundsAreExact == Exact(from, lastFrom) /\ Exact(to, lastTo)

(* An option that names an end of the trace does not undo a time that an   *)
(* earlier one of the same name has set.                                   *)
Overridden ==
    \/ lastFrom = <<"start">> /\ from # Unset
    \/ lastTo = <<"end">> /\ to # Unset

(* The range that was asked for, both of its ends included.                *)
NotBefore(x) ==
    IF IsTime(lastFrom) THEN x * Scale[lastFrom[2].digits] >= Meant(lastFrom[2]) ELSE x >= 0
NotLater(x) ==
    IF IsTime(lastTo) THEN x * Scale[lastTo[2].digits] <= Meant(lastTo[2])
    ELSE x <= IF lastTo = <<"start">> THEN 0 ELSE TraceEnd
Asked(x) == NotBefore(x) /\ NotLater(x)

IsAsked(r) ==
    CASE mode = "overlap"   -> \E t \in r.start .. r.end : Asked(t)
      [] mode = "start"     -> Asked(r.start)
      [] mode = "contained" -> Asked(r.start) /\ Asked(r.end)

(* The records of a trace lie within its time.                             *)
Recorded == {r \in [start : 0 .. TraceEnd, end : 0 .. TraceEnd] : r.start <= r.end}

(* The records selected are those of the range that was asked for, in the  *)
(* mode that was asked for.  Two kinds of command lines are left out: an   *)
(* option that was overridden, and --from end, which stands for the        *)
(* largest int64_t and selects nothing.                                    *)
SelectsTheRange ==
    phase = "ready" /\ ~Overridden /\ lastFrom # <<"end">> =>
        \A r \in Recorded : Matches(r) <=> IsAsked(r)

(* A command line is refused for a number that is no int64_t of            *)
(* nanoseconds, has too many digits or a fraction whose product with the   *)
(* unit is no word, and otherwise only for an empty range.                 *)
RefusedForAReason ==
    phase = "refused" =>
        IF bad # None
        THEN \/ ~Representable(bad[2])
             \/ bad[2].digits > MaxDigits
             \/ bad[2].fraction * bad[2].unit > UMax
        ELSE Overridden \/ lastFrom = <<"end">> \/ \A x \in 0 .. SMax : ~Asked(x)

=============================================================================
