-------------------------- MODULE CommandLineProofs --------------------------
(***************************************************************************)
(* Proofs about the command line, for any set of arguments in any order:   *)
(* what is accepted is what the documents allow, the Matcher accepts it    *)
(* too, and every label reaches the traces it is for.                      *)
(***************************************************************************)
EXTENDS CommandLine, SequenceTheorems, WellFoundedInduction, TLAPS

-----------------------------------------------------------------------------
(* The invariant *)

Paths == {a[2] : a \in Argument} \cup {"--quiet"}
Unlabelled == {Trace(path, path) : path \in Paths}
LabelValues == {a[2] : a \in Argument}
LabelTraces == {Trace(v[1], v[2]) : v \in LabelValues}

Typed ==
    /\ traces \in Seq(Unlabelled)
    /\ labels \in Seq(LabelTraces)
    /\ from \in Nat \cup {Unset} /\ to \in Nat \cup {Unset} /\ at \in Nat \cup {Unset}
    /\ broken \in BOOLEAN /\ every \in BOOLEAN /\ queryOption \in BOOLEAN

(* The options stand for what was given, whatever the order. *)
ScopesKnown ==
    /\ kinds = Given("--kind") \ {"all"}
    /\ every <=> "all" \in Given("--kind")
    /\ structure = Given("--zone")
    /\ filters = {[kind |-> f[1], field |-> f[2]] : f \in Given("--filter")}
    /\ broken <=> FALSE \in Given("--thread")

TimesKnown ==
    /\ points = Given("--point")
    /\ from # Unset <=> Has("--from")
    /\ to # Unset <=> Has("--to")
    /\ at # Unset <=> Has("--at")

InputsKnown ==
    /\ queryOption <=> \E o \in QueryOptions : Has(o)
    /\ {[path |-> l[1]] : l \in Given("--trace-label")}
       = {[path |-> labels[j].path] : j \in DOMAIN labels}

Known == Typed /\ ScopesKnown /\ TimesKnown /\ InputsKnown

IInv == answer = None => Known

-----------------------------------------------------------------------------
(* The greatest of a set of positions *)

LEMMA Smallest ==
    ASSUME NEW S \in SUBSET Nat, S # {}
    PROVE  \E x \in S : \A y \in S : x <= y
<1> DEFINE R == OpToRel(<, Nat)
<1>1. IsWellFoundedOn(R, Nat)
  BY NatLessThanWellFounded
<1>2. \A x, y \in Nat : y < x => <<y, x>> \in R
  BY DEF OpToRel
<1> HIDE DEF R
<1>3. PICK x \in S : \A y \in S : ~(<<y, x>> \in R)
  BY <1>1, WFMin
<1>4. ASSUME NEW y \in S PROVE x <= y
  <2>1. x \in Nat /\ y \in Nat /\ ~(<<y, x>> \in R)
    BY <1>3
  <2> QED
    BY <1>2, <2>1
<1> QED
  BY <1>3, <1>4

LEMMA MaxIsGreatest ==
    ASSUME NEW n \in Nat, NEW S \in SUBSET (1 .. n), S # {}
    PROVE  Max(S) \in S /\ \A y \in S : y <= Max(S)
<1> DEFINE D == {n - x : x \in S}
<1>1. D \in SUBSET Nat /\ D # {}
  <2>1. ASSUME NEW x \in S PROVE n - x \in Nat
    BY SMT
  <2> QED
    BY <2>1
<1>2. PICK d \in D : \A e \in D : d <= e
  BY <1>1, Smallest
<1>3. PICK x \in S : d = n - x
  OBVIOUS
<1>4. ASSUME NEW y \in S PROVE x >= y
  <2>1. n - y \in D
    OBVIOUS
  <2> QED
    BY <1>2, <1>3, <2>1
<1>5. Max(S) \in S /\ \A y \in S : Max(S) >= y
  BY <1>4 DEF Max
<1>6. \A y \in S : y \in Int
  OBVIOUS
<1> QED
  BY <1>5, <1>6

(* A label goes to the traces of its path. *)
LEMMA LabelledTraces ==
    ASSUME NEW ts, NEW L, NEW ls \in Seq(L), NEW i \in DOMAIN ts
    PROVE  LET new == Labelled(ts, ls)[i]
               mine == {j \in DOMAIN ls : ls[j].path = ts[i].path}
           IN  /\ DOMAIN Labelled(ts, ls) = DOMAIN ts
               /\ mine = {} => new = ts[i]
               /\ mine # {} => \E j \in mine : new = ls[j] /\ \A k \in mine : k <= j
<1> DEFINE mine == {j \in DOMAIN ls : ls[j].path = ts[i].path}
<1>1. Labelled(ts, ls)[i] = IF mine = {} THEN ts[i] ELSE ls[Max(mine)]
  BY DEF Labelled
<1>2. DOMAIN Labelled(ts, ls) = DOMAIN ts
  BY DEF Labelled
<1>3. Len(ls) \in Nat /\ DOMAIN ls = 1 .. Len(ls)
  OBVIOUS
<1>4. ASSUME mine # {} PROVE Max(mine) \in mine /\ \A k \in mine : k <= Max(mine)
  <2>1. mine \in SUBSET (1 .. Len(ls))
    BY <1>3
  <2> HIDE DEF mine
  <2> QED
    BY <1>3, <1>4, <2>1, MaxIsGreatest
<1> QED
  BY <1>1, <1>2, <1>4

-----------------------------------------------------------------------------
(* One more argument *)

LEMMA GivenMore ==
    ASSUME NEW option, NEW value, given' = given \cup {<<option, value>>}
    PROVE  /\ Given(option)' = Given(option) \cup {value}
           /\ \A o : o # option => Given(o)' = Given(o)
<1>1. <<option, value>>[1] = option /\ <<option, value>>[2] = value
  OBVIOUS
<1>2. Given(option)' = Given(option) \cup {value}
  BY <1>1 DEF Given
<1>3. ASSUME NEW o, o # option PROVE Given(o)' = Given(o)
  <2>1. {b \in given' : b[1] = o} = {b \in given : b[1] = o}
    BY <1>1, <1>3
  <2> QED
    BY <2>1 DEF Given
<1> QED
  BY <1>2, <1>3

LEMMA HasMore ==
    ASSUME NEW option, NEW value, given' = given \cup {<<option, value>>}
    PROVE  /\ Has(option)'
           /\ \A o : o # option => (Has(o)' <=> Has(o))
  BY GivenMore DEF Has

(* What is known of options that the argument does not give. *)
LEMMA ScopesUnmoved ==
    ASSUME ScopesKnown, UNCHANGED scopes,
           \A o \in {"--kind", "--zone", "--filter", "--thread"} : Given(o)' = Given(o)
    PROVE  ScopesKnown'
<1>1. UNCHANGED <<kinds, every, structure, filters, broken>>
  BY DEF scopes
<1>2. /\ Given("--kind")' = Given("--kind") /\ Given("--zone")' = Given("--zone")
      /\ Given("--filter")' = Given("--filter") /\ Given("--thread")' = Given("--thread")
  OBVIOUS
<1> QED
  BY <1>1, <1>2 DEF ScopesKnown

LEMMA TimesUnmoved ==
    ASSUME TimesKnown, UNCHANGED times,
           \A o \in {"--point", "--from", "--to", "--at"} : Given(o)' = Given(o)
    PROVE  TimesKnown'
<1>1. UNCHANGED <<points, from, to, at>>
  BY DEF times
<1>2. /\ Given("--point")' = Given("--point")
      /\ Has("--from")' = Has("--from") /\ Has("--to")' = Has("--to")
      /\ Has("--at")' = Has("--at")
  BY DEF Has
<1> QED
  BY <1>1, <1>2 DEF TimesKnown

LEMMA InputsUnmoved ==
    ASSUME InputsKnown, UNCHANGED <<queryOption, labels>>,
           Given("--trace-label")' = Given("--trace-label"),
           \A o \in QueryOptions : Has(o)' <=> Has(o)
    PROVE  InputsKnown'
<1>1. queryOption' <=> \E o \in QueryOptions : Has(o)'
  BY DEF InputsKnown
<1>2. {[path |-> l[1]] : l \in Given("--trace-label")'}
      = {[path |-> labels'[j].path] : j \in DOMAIN labels'}
  BY DEF InputsKnown
<1> QED
  BY <1>1, <1>2 DEF InputsKnown

LEMMA InitKnown == Init => IInv
<1> SUFFICES ASSUME Init PROVE Known
  BY DEF IInv
<1>1. \A o : Given(o) = {}
  BY DEF Init, Given
<1>2. Typed
  <2>1. traces \in Seq(Unlabelled) /\ labels \in Seq(LabelTraces)
    BY DEF Init
  <2>2. from \in Nat \cup {Unset} /\ to \in Nat \cup {Unset} /\ at \in Nat \cup {Unset}
    BY DEF Init
  <2>3. broken \in BOOLEAN /\ every \in BOOLEAN /\ queryOption \in BOOLEAN
    BY DEF Init
  <2> QED
    BY <2>1, <2>2, <2>3 DEF Typed
<1>3. ScopesKnown /\ TimesKnown
  BY <1>1 DEF Init, ScopesKnown, TimesKnown, Has
<1>4. InputsKnown
  BY <1>1 DEF Init, InputsKnown, Has
<1> QED
  BY <1>2, <1>3, <1>4 DEF Known

(* Words and options that give nothing to a query. *)
LEMMA AddTraceTyped ==
    ASSUME Typed, NEW word \in Paths, AddTrace(word)
    PROVE  traces' \in Seq(Unlabelled)
<1>1. Trace(word, word) \in Unlabelled
  BY DEF Unlabelled
<1> QED
  BY <1>1, AppendProperties DEF Typed, AddTrace

LEMMA WordKnown ==
    ASSUME Known, NEW word, TakeWord(word)
    PROVE  Known' /\ (answer' = None \/ (answer' = "usage" /\ command' = None))
<1>1. /\ given' = given \cup {<<"word", word>>} /\ answer = None
      /\ <<"word", word>> \in Argument
      /\ UNCHANGED <<queryOption, labels, scopes, times>>
  BY DEF TakeWord, Take
<1>2. word \in Paths
  <2>1. <<"word", word>>[2] = word
    OBVIOUS
  <2> QED
    BY <1>1, <2>1 DEF Paths
<1>3. \/ UNCHANGED traces /\ answer' = None
      \/ AddTrace(word) /\ answer' = None
      \/ UNCHANGED traces /\ answer' = "usage" /\ command' = None
  <2>1. CASE command # None
    BY <1>1, <2>1 DEF TakeWord
  <2>2. CASE command = None /\ ~positional /\ word \in Commands
    BY <1>1, <2>2 DEF TakeWord, Commands
  <2>3. CASE command = None /\ (positional \/ word \notin Commands)
    BY <1>1, <2>3 DEF TakeWord
  <2> QED
    BY <2>1, <2>2, <2>3
<1>4. traces' \in Seq(Unlabelled)
  <2>1. UNCHANGED traces \/ AddTrace(word)
    BY <1>3
  <2> QED
    BY <1>2, <2>1, AddTraceTyped DEF Known, Typed
<1>5. Typed'
  BY <1>1, <1>4 DEF Known, Typed, scopes, times
<1>6. ScopesKnown' /\ TimesKnown'
  BY <1>1, GivenMore, ScopesUnmoved, TimesUnmoved DEF Known
<1>7. InputsKnown'
  <2>1. Given("--trace-label")' = Given("--trace-label")
    BY <1>1, GivenMore
  <2>2. \A o \in QueryOptions : Has(o)' <=> Has(o)
    BY <1>1, HasMore DEF QueryOptions
  <2> QED
    BY <1>1, <2>1, <2>2, InputsUnmoved DEF Known
<1>8. Known'
  BY <1>5, <1>6, <1>7 DEF Known
<1> QED
  BY <1>3, <1>8

LEMMA GlobalKnown ==
    ASSUME Known, TakeQuiet \/ EndOptions
    PROVE  Known' /\ answer' = None
<1>1. PICK o \in {"--quiet", "--"} :
         /\ given' = given \cup {<<o, None>>} /\ answer' = None
         /\ UNCHANGED <<queryOption, labels, scopes, times>>
  BY DEF TakeQuiet, EndOptions, TakeOption, Take
<1>2. UNCHANGED traces \/ AddTrace("--quiet")
  BY DEF TakeQuiet, EndOptions
<1>3. traces' \in Seq(Unlabelled)
  BY <1>2, AddTraceTyped DEF Known, Typed, Paths
<1>4. Typed'
  BY <1>1, <1>3 DEF Known, Typed, scopes, times
<1>5. ScopesKnown' /\ TimesKnown'
  BY <1>1, GivenMore, ScopesUnmoved, TimesUnmoved DEF Known
<1>6. InputsKnown'
  <2>1. Given("--trace-label")' = Given("--trace-label")
    BY <1>1, GivenMore
  <2>2. \A f \in QueryOptions : Has(f)' <=> Has(f)
    BY <1>1, HasMore DEF QueryOptions
  <2> QED
    BY <1>1, <2>1, <2>2, InputsUnmoved DEF Known
<1> QED
  BY <1>1, <1>4, <1>5, <1>6 DEF Known

LEMMA LabelKnown ==
    ASSUME Known, NEW path, NEW label, TakeLabel(path, label)
    PROVE  Known' /\ answer' = None
<1> DEFINE value == <<path, label>>
           new == Trace(path, label)
<1>1. /\ given' = given \cup {<<"--trace-label", value>>} /\ answer' = None
      /\ <<"--trace-label", value>> \in Argument
      /\ labels' = Append(labels, new)
      /\ UNCHANGED <<traces, queryOption, scopes, times>>
  BY DEF TakeLabel, TakeOption, Take
<1>2. new \in LabelTraces
  <2>1. <<"--trace-label", value>>[2] = value /\ value[1] = path /\ value[2] = label
    OBVIOUS
  <2>2. value \in LabelValues
    BY <1>1, <2>1 DEF LabelValues
  <2> QED
    BY <2>1, <2>2 DEF LabelTraces
<1>3. labels \in Seq(LabelTraces)
  BY DEF Known, Typed
<1>4. labels' \in Seq(LabelTraces)
  BY <1>1, <1>2, <1>3, AppendProperties
<1>5. Typed'
  BY <1>1, <1>4 DEF Known, Typed, scopes, times
<1>6. ScopesKnown' /\ TimesKnown'
  <2> HIDE DEF value, new
  <2>1. \A o : o # "--trace-label" => Given(o)' = Given(o)
    BY <1>1, GivenMore
  <2>2. ScopesKnown'
    BY <1>1, <2>1, ScopesUnmoved DEF Known
  <2>3. TimesKnown'
    BY <1>1, <2>1, TimesUnmoved DEF Known
  <2> QED
    BY <2>2, <2>3
<1>7. InputsKnown'
  <2>1. Given("--trace-label")' = Given("--trace-label") \cup {value} /\ value[1] = path
    BY <1>1, GivenMore
  <2>2. {[path |-> l[1]] : l \in Given("--trace-label")'}
        = {[path |-> l[1]] : l \in Given("--trace-label")} \cup {[path |-> path]}
    BY <2>1
  <2>3. new.path = path
    BY DEF Trace
  <2>4. {[path |-> labels'[j].path] : j \in DOMAIN labels'}
        = {[path |-> labels[j].path] : j \in DOMAIN labels} \cup {[path |-> path]}
    <3> HIDE DEF new
    <3>1. /\ DOMAIN labels = 1 .. Len(labels) /\ Len(labels) \in Nat
          /\ DOMAIN labels' = 1 .. Len(labels) + 1
          /\ \A j \in DOMAIN labels : labels'[j] = labels[j]
          /\ labels'[Len(labels) + 1] = new
      BY <1>1, <1>2, <1>3, AppendProperties
    <3>2. DOMAIN labels' = DOMAIN labels \cup {Len(labels) + 1}
      BY <3>1
    <3> QED
      BY <2>3, <3>1, <3>2
  <2>5. \A o \in QueryOptions : Has(o)' <=> Has(o)
    BY <1>1, HasMore DEF QueryOptions
  <2> QED
    BY <1>1, <2>2, <2>4, <2>5 DEF Known, InputsKnown
<1> QED
  BY <1>1, <1>5, <1>6, <1>7 DEF Known

(* An option of a query. *)
LEMMA QueryOptionKnown ==
    ASSUME Known, NEW option \in QueryOptions, NEW value, QueryOption(option, value)
    PROVE  InputsKnown' /\ answer' = None
<1>1. /\ given' = given \cup {<<option, value>>} /\ queryOption' = TRUE
      /\ answer' = None /\ UNCHANGED labels
  BY DEF QueryOption, TakeOption, Take, inputs
<1>2. Given("--trace-label")' = Given("--trace-label")
  BY <1>1, GivenMore DEF QueryOptions
<1>3. Has(option)'
  BY <1>1, HasMore
<1> QED
  BY <1>1, <1>2, <1>3 DEF Known, InputsKnown

LEMMA ScopeOptionKnown ==
    ASSUME Known,
           \/ \E k : TakeKind(k)
           \/ \E s : TakeStructure(s)
           \/ \E k, field : TakeFilter(k, field)
           \/ \E isRegex : TakeSelector(isRegex)
    PROVE  Known' /\ answer' = None
<1>1. PICK o, value :
         /\ o \in {"--kind", "--zone", "--filter", "--thread"}
         /\ QueryOption(o, value)
         /\ UNCHANGED times
  <2>1. ASSUME NEW k, TakeKind(k) PROVE QueryOption("--kind", k) /\ UNCHANGED times
    BY <2>1 DEF TakeKind
  <2>2. ASSUME NEW s, TakeStructure(s) PROVE QueryOption("--zone", s) /\ UNCHANGED times
    BY <2>2 DEF TakeStructure
  <2>3. ASSUME NEW k, NEW field, TakeFilter(k, field)
        PROVE  \E v : QueryOption("--filter", v) /\ UNCHANGED times
    <3>1. QueryOption("--filter", <<k, field>>) /\ UNCHANGED times
      BY <2>3 DEF TakeFilter
    <3> QED
      BY <3>1
  <2>4. ASSUME NEW isRegex, TakeSelector(isRegex)
        PROVE  QueryOption("--thread", isRegex) /\ UNCHANGED times
    BY <2>4 DEF TakeSelector
  <2> QED
    BY <2>1, <2>2, <2>3, <2>4
<1>2. /\ given' = given \cup {<<o, value>>}
      /\ queryOption' = TRUE
      /\ UNCHANGED <<traces, labels>>
  BY <1>1 DEF QueryOption, TakeOption, Take, inputs
<1>3. InputsKnown' /\ answer' = None
  BY <1>1, QueryOptionKnown DEF QueryOptions
<1>4. TimesKnown'
  BY <1>2, <1>1, GivenMore, TimesUnmoved DEF Known
<1>5. CASE \E k : TakeKind(k)
  <2>1. PICK k : TakeKind(k)
    BY <1>5
  <2>2. /\ given' = given \cup {<<"--kind", k>>}
        /\ IF k = "all" THEN every' = TRUE /\ UNCHANGED kinds
           ELSE kinds' = kinds \cup {k} /\ UNCHANGED every
        /\ UNCHANGED <<structure, filters, broken>>
    BY <2>1 DEF TakeKind, QueryOption, TakeOption, Take
  <2>3. ScopesKnown'
    <3>1. /\ Given("--kind")' = Given("--kind") \cup {k}
          /\ Given("--zone")' = Given("--zone")
          /\ Given("--filter")' = Given("--filter") /\ Given("--thread")' = Given("--thread")
      BY <2>2, GivenMore
    <3>2. kinds' = Given("--kind")' \ {"all"}
      BY <2>2, <3>1 DEF Known, ScopesKnown
    <3>3. every' <=> "all" \in Given("--kind")'
      BY <2>2, <3>1 DEF Known, ScopesKnown
    <3> QED
      BY <2>2, <3>1, <3>2, <3>3 DEF Known, ScopesKnown
  <2>4. every' \in BOOLEAN /\ broken' \in BOOLEAN
    BY <2>2 DEF Known, Typed
  <2> QED
    BY <1>2, <1>1, <1>3, <1>4, <2>3, <2>4 DEF Known, Typed, times
<1>6. CASE \E s : TakeStructure(s)
  <2>1. PICK s : TakeStructure(s)
    BY <1>6
  <2>2. /\ given' = given \cup {<<"--zone", s>>}
        /\ structure' = structure \cup {s}
        /\ UNCHANGED <<kinds, every, filters, broken>>
    BY <2>1 DEF TakeStructure, QueryOption, TakeOption, Take
  <2>3. ScopesKnown'
    <3>1. /\ Given("--zone")' = Given("--zone") \cup {s}
          /\ Given("--kind")' = Given("--kind")
          /\ Given("--filter")' = Given("--filter") /\ Given("--thread")' = Given("--thread")
      BY <2>2, GivenMore
    <3> QED
      BY <2>2, <3>1 DEF Known, ScopesKnown
  <2> QED
    BY <1>2, <1>1, <1>3, <1>4, <2>2, <2>3 DEF Known, Typed, times
<1>7. CASE \E k, field : TakeFilter(k, field)
  <2>1. PICK k, field : TakeFilter(k, field)
    BY <1>7
  <2> DEFINE f == <<k, field>>
  <2>2. /\ given' = given \cup {<<"--filter", f>>}
        /\ filters' = filters \cup {[kind |-> k, field |-> field]}
        /\ UNCHANGED <<kinds, every, structure, broken>>
    BY <2>1 DEF TakeFilter, QueryOption, TakeOption, Take
  <2>3. f[1] = k /\ f[2] = field
    OBVIOUS
  <2> HIDE DEF f
  <2>4. Given("--filter")' = Given("--filter") \cup {f}
    BY <2>2, GivenMore
  <2>5. filters' = {[kind |-> g[1], field |-> g[2]] : g \in Given("--filter")'}
    BY <2>2, <2>3, <2>4 DEF Known, ScopesKnown
  <2>6. ScopesKnown'
    <3>1. /\ Given("--kind")' = Given("--kind") /\ Given("--zone")' = Given("--zone")
          /\ Given("--thread")' = Given("--thread")
      BY <2>2, GivenMore
    <3> QED
      BY <2>2, <2>5, <3>1 DEF Known, ScopesKnown
  <2> QED
    BY <1>2, <1>1, <1>3, <1>4, <2>2, <2>6 DEF Known, Typed, times
<1>8. CASE \E isRegex : TakeSelector(isRegex)
  <2>1. PICK isRegex : TakeSelector(isRegex)
    BY <1>8
  <2>2. /\ given' = given \cup {<<"--thread", isRegex>>} /\ <<"--thread", isRegex>> \in Argument
        /\ broken' = (broken \/ ~isRegex)
        /\ UNCHANGED <<kinds, every, structure, filters>>
    BY <2>1 DEF TakeSelector, QueryOption, TakeOption, Take
  <2>3. isRegex \in BOOLEAN
    <3>1. <<"--thread", isRegex>>[1] = "--thread" /\ <<"--thread", isRegex>>[2] = isRegex
      OBVIOUS
    <3> QED
      BY <2>2, <3>1, ArgumentAssumption, Zenon
  <2>4. broken' \in BOOLEAN /\ (broken' <=> broken \/ isRegex = FALSE)
    BY <2>2, <2>3
  <2>5. ScopesKnown'
    <3>1. /\ Given("--thread")' = Given("--thread") \cup {isRegex}
          /\ Given("--kind")' = Given("--kind") /\ Given("--zone")' = Given("--zone")
          /\ Given("--filter")' = Given("--filter")
      BY <2>2, GivenMore
    <3>2. broken' <=> FALSE \in Given("--thread")'
      BY <2>3, <2>4, <3>1 DEF Known, ScopesKnown
    <3> QED
      BY <2>2, <3>1, <3>2 DEF Known, ScopesKnown
  <2> QED
    BY <1>2, <1>1, <1>3, <1>4, <2>2, <2>4, <2>5 DEF Known, Typed, times
<1> QED
  BY <1>5, <1>6, <1>7, <1>8

LEMMA TimeOptionKnown ==
    ASSUME Known,
           \/ \E p : TakePoint(p)
           \/ \E o \in {"--from", "--to", "--at"} : \E t : TakeTime(o, t)
    PROVE  Known' /\ answer' = None
<1>1. PICK o, value :
         /\ o \in {"--point", "--from", "--to", "--at"}
         /\ QueryOption(o, value)
         /\ UNCHANGED scopes
  <2>1. ASSUME NEW p, TakePoint(p) PROVE QueryOption("--point", p) /\ UNCHANGED scopes
    BY <2>1 DEF TakePoint
  <2>2. ASSUME NEW x \in {"--from", "--to", "--at"}, NEW t, TakeTime(x, t)
        PROVE  QueryOption(x, t) /\ UNCHANGED scopes
    BY <2>2 DEF TakeTime
  <2> QED
    BY <2>1, <2>2
<1>2. /\ given' = given \cup {<<o, value>>}
      /\ queryOption' = TRUE
      /\ UNCHANGED <<traces, labels>>
  BY <1>1 DEF QueryOption, TakeOption, Take, inputs
<1>3. InputsKnown' /\ answer' = None
  BY <1>1, QueryOptionKnown DEF QueryOptions
<1>4. ScopesKnown'
  BY <1>2, <1>1, GivenMore, ScopesUnmoved DEF Known
<1>5. CASE \E p : TakePoint(p)
  <2>1. PICK p : TakePoint(p)
    BY <1>5
  <2>2. /\ given' = given \cup {<<"--point", p>>}
        /\ points' = points \cup {p}
        /\ UNCHANGED <<from, to, at>>
    BY <2>1 DEF TakePoint, QueryOption, TakeOption, Take
  <2>3. TimesKnown'
    BY <2>2, GivenMore, HasMore DEF Known, TimesKnown
  <2> QED
    BY <1>2, <1>1, <1>3, <1>4, <2>2, <2>3 DEF Known, Typed, scopes
<1>6. CASE \E x \in {"--from", "--to", "--at"} : \E t : TakeTime(x, t)
  <2>1. PICK x \in {"--from", "--to", "--at"} : \E t : TakeTime(x, t)
    BY <1>6
  <2>2. PICK t : TakeTime(x, t)
    BY <2>1
  <2>3. /\ given' = given \cup {<<x, t>>} /\ <<x, t>> \in Argument
        /\ UNCHANGED points
        /\ x = "--from" => from' = t /\ UNCHANGED <<to, at>>
        /\ x = "--to"   => to' = t /\ UNCHANGED <<from, at>>
        /\ x = "--at"   => at' = t /\ UNCHANGED <<from, to>>
    BY <2>2 DEF TakeTime, QueryOption, TakeOption, Take
  <2>4. t \in Nat
    <3>1. <<x, t>>[1] = x /\ <<x, t>>[2] = t
      OBVIOUS
    <3> QED
      BY <2>3, <3>1, ArgumentAssumption, Zenon
  <2>5. t # Unset
    BY <2>4 DEF Unset
  <2>6. TimesKnown' /\ from' \in Nat \cup {Unset} /\ to' \in Nat \cup {Unset} /\ at' \in Nat \cup {Unset}
    <3>1. /\ Given("--point")' = Given("--point")
          /\ Has(x)' /\ \A y : y # x => (Has(y)' <=> Has(y))
      BY <2>3, GivenMore, HasMore
    <3>2. CASE x = "--from"
      BY <2>3, <2>4, <2>5, <3>1, <3>2 DEF Known, TimesKnown, Typed
    <3>3. CASE x = "--to"
      BY <2>3, <2>4, <2>5, <3>1, <3>3 DEF Known, TimesKnown, Typed
    <3>4. CASE x = "--at"
      BY <2>3, <2>4, <2>5, <3>1, <3>4 DEF Known, TimesKnown, Typed
    <3> QED
      BY <3>2, <3>3, <3>4
  <2> QED
    BY <1>2, <1>1, <1>3, <1>4, <2>6 DEF Known, Typed, scopes
<1> QED
  BY <1>5, <1>6

(* An argument that does not end the parsing leaves everything known; what *)
(* ends it is a refusal that the property leaves out.                      *)
LEMMA ArgumentKnown ==
    ASSUME Known, TakeArgument
    PROVE  \/ Known' /\ answer' = None
           \/ answer' = "help"
           \/ answer' = "usage" /\ (command' = None \/ Has("--unknown")')
<1>1. CASE TakeQuiet \/ EndOptions
  BY <1>1, GlobalKnown
<1>2. CASE TakeHelp
  BY <1>2 DEF TakeHelp
<1>3. CASE TakeUnknown
  BY <1>3, HasMore DEF TakeUnknown, TakeOption, Take
<1>4. CASE \E a \in Argument :
          CASE a[1] = "word"          -> TakeWord(a[2])
            [] a[1] = "--trace-label" -> TakeLabel(a[2][1], a[2][2])
            [] a[1] = "--kind"        -> TakeKind(a[2])
            [] a[1] = "--point"       -> TakePoint(a[2])
            [] a[1] \in {"--from", "--to", "--at"} -> TakeTime(a[1], a[2])
            [] a[1] = "--zone"        -> TakeStructure(a[2])
            [] a[1] = "--filter"      -> TakeFilter(a[2][1], a[2][2])
            [] a[1] = "--thread"      -> TakeSelector(a[2])
            [] OTHER -> FALSE
  <2>1. PICK a \in Argument :
          \/ TakeWord(a[2])
          \/ TakeLabel(a[2][1], a[2][2])
          \/ TakeKind(a[2]) \/ TakeStructure(a[2]) \/ TakeFilter(a[2][1], a[2][2])
          \/ TakeSelector(a[2])
          \/ TakePoint(a[2]) \/ (a[1] \in {"--from", "--to", "--at"} /\ TakeTime(a[1], a[2]))
    BY <1>4
  <2>2. CASE TakeWord(a[2])
    BY <2>2, WordKnown
  <2>3. CASE TakeLabel(a[2][1], a[2][2])
    BY <2>3, LabelKnown
  <2>4. CASE TakeKind(a[2]) \/ TakeStructure(a[2]) \/ TakeFilter(a[2][1], a[2][2]) \/ TakeSelector(a[2])
    BY <2>4, ScopeOptionKnown
  <2>5. CASE TakePoint(a[2]) \/ (a[1] \in {"--from", "--to", "--at"} /\ TakeTime(a[1], a[2]))
    BY <2>5, TimeOptionKnown
  <2> QED
    BY <2>1, <2>2, <2>3, <2>4, <2>5
<1> QED
  BY <1>1, <1>2, <1>3, <1>4 DEF TakeArgument

LEMMA InvNext == IInv /\ [Next]_vars => IInv'
<1> SUFFICES ASSUME IInv, [Next]_vars, answer' = None PROVE Known'
  BY DEF IInv
<1>1. CASE TakeArgument
  <2>1. answer = None
    BY <1>1 DEF TakeArgument, TakeWord, TakeLabel, TakeKind, TakePoint, TakeTime, TakeStructure,
       TakeFilter, TakeSelector, TakeQuiet, EndOptions, TakeHelp, TakeUnknown, QueryOption,
       TakeOption, Take
  <2> QED
    BY <1>1, <2>1, ArgumentKnown DEF IInv, None
<1>2. CASE Check
  BY <1>2 DEF Check, None
<1>3. CASE UNCHANGED vars
  <2>1. answer = None
    BY <1>3 DEF vars
  <2>2. Known
    BY <2>1 DEF IInv
  <2>3. UNCHANGED <<given, queryOption, traces, labels, kinds, every, structure, filters, broken,
                    from, to, at, points>>
    BY <1>3 DEF vars, inputs, scopes, times
  <2>4. \A o : Given(o)' = Given(o) /\ (Has(o)' <=> Has(o))
    BY <2>3 DEF Given, Has
  <2>5. Typed' /\ ScopesKnown' /\ TimesKnown'
    BY <2>2, <2>3, <2>4 DEF Known, Typed, ScopesKnown, TimesKnown
  <2>6. InputsKnown'
    BY <2>2, <2>3, <2>4 DEF Known, InputsKnown
  <2> QED
    BY <2>5, <2>6 DEF Known
<1> QED
  BY <1>1, <1>2, <1>3 DEF Next

-----------------------------------------------------------------------------
(* The checks after the loop *)

LEMMA QueriedIsAsked ==
    ASSUME Known PROVE Queried = KindsAsked
  BY DEF Known, ScopesKnown, Queried, KindsAsked

LEMMA FieldRules ==
    ASSUME Known
    PROVE  FieldsClash <=>
           ~ \A f \in Given("--filter") :
               \A k \in IF f[1] = None THEN KindsAsked ELSE {f[1]} : f[2] \in FilterFields(k)
<1>1. filters = {[kind |-> f[1], field |-> f[2]] : f \in Given("--filter")}
  BY DEF Known, ScopesKnown
<1>2. ASSUME FieldsClash
      PROVE  \E f \in Given("--filter") :
                \E k \in IF f[1] = None THEN KindsAsked ELSE {f[1]} : f[2] \notin FilterFields(k)
  <2>1. PICK g \in filters :
           IF g.kind # None THEN g.field \notin FilterFields(g.kind)
           ELSE \E k \in Queried : g.field \notin FilterFields(k)
    BY <1>2 DEF FieldsClash
  <2>2. PICK f \in Given("--filter") : g = [kind |-> f[1], field |-> f[2]]
    BY <1>1
  <2>3. g.kind = f[1] /\ g.field = f[2]
    BY <2>2
  <2> QED
    BY <2>1, <2>3, QueriedIsAsked
<1>3. ASSUME NEW f \in Given("--filter"),
             NEW k \in IF f[1] = None THEN KindsAsked ELSE {f[1]},
             f[2] \notin FilterFields(k)
      PROVE  FieldsClash
  <2> DEFINE g == [kind |-> f[1], field |-> f[2]]
  <2>1. g \in filters
    BY <1>1
  <2>2. g.kind = f[1] /\ g.field = f[2]
    OBVIOUS
  <2> HIDE DEF g
  <2> QED
    BY <1>3, <2>1, <2>2, QueriedIsAsked DEF FieldsClash
<1> QED
  BY <1>2, <1>3

LEMMA SourceRules ==
    ASSUME Known
    PROVE  SourcesClash <=>
           ~ \A f \in Given("--filter") : f[2] \in {"name", "source", "source_type"}
<1>1. filters = {[kind |-> f[1], field |-> f[2]] : f \in Given("--filter")}
  BY DEF Known, ScopesKnown
<1>2. ASSUME NEW g \in filters
      PROVE  \E f \in Given("--filter") : g.field = f[2]
  BY <1>1
<1>3. ASSUME NEW f \in Given("--filter")
      PROVE  \E g \in filters : g.field = f[2]
  <2>1. [kind |-> f[1], field |-> f[2]] \in filters
    BY <1>1
  <2>2. [kind |-> f[1], field |-> f[2]].field = f[2]
    OBVIOUS
  <2> QED
    BY <2>1, <2>2
<1> QED
  BY <1>2, <1>3 DEF SourcesClash

LEMMA TimeRules ==
    ASSUME Known
    PROVE  TimesClash <=>
           ~ /\ Has("--at") => ~Has("--from") /\ ~Has("--to")
             /\ Has("--at") <=> Has("--point")
             /\ Has("--from") /\ Has("--to") => from <= to
<1>1. points = {} <=> ~Has("--point")
  BY DEF Known, TimesKnown, Has
<1>2. /\ from # Unset <=> Has("--from")
      /\ to # Unset <=> Has("--to")
      /\ at # Unset <=> Has("--at")
  BY DEF Known, TimesKnown
<1>3. from # Unset /\ to # Unset => (from > to <=> ~(from <= to))
  BY DEF Known, Typed
<1> QED
  BY <1>1, <1>2, <1>3 DEF TimesClash, HasRange

LEMMA ScopeRules ==
    ASSUME Known
    PROVE  ActiveClashes \/ StructureClashes <=>
           ~ /\ "active" \in Given("--point") => KindsAsked \subseteq IntervalKinds
             /\ Has("--zone") => KindsAsked \subseteq ZoneKinds
             /\ Given("--zone") \cap {"parent", "ancestor"} # {} => "ghost-zone" \notin KindsAsked
<1>1. points = Given("--point") /\ structure = Given("--zone")
  BY DEF Known, TimesKnown, ScopesKnown
<1> QED
  BY <1>1, QueriedIsAsked DEF ActiveClashes, StructureClashes, Has

LEMMA QueryRulesAreChecked ==
    ASSUME Known PROVE QueryClashes <=> ~QueryRules
  BY QueriedIsAsked, FieldRules, TimeRules, ScopeRules DEF QueryClashes, QueryRules

(* Labelling leaves the paths. *)
LEMMA PathsStay ==
    ASSUME Known
    PROVE  LET new == Labelled(traces, labels)
           IN  /\ new = <<>> <=> traces = <<>>
               /\ \A i \in DOMAIN traces : new[i].path = traces[i].path
               /\ DOMAIN new = DOMAIN traces
<1> DEFINE new == Labelled(traces, labels)
<1>1. DOMAIN new = DOMAIN traces
  BY DEF Labelled
<1>2. traces \in Seq(Unlabelled) /\ labels \in Seq(LabelTraces)
  BY DEF Known, Typed
<1>3. ASSUME NEW i \in DOMAIN traces PROVE new[i].path = traces[i].path
  BY <1>2, LabelledTraces
<1>4. new = <<>> <=> traces = <<>>
  <2>1. traces = <<>> <=> DOMAIN traces = {}
    BY <1>2
  <2>2. new = [i \in DOMAIN traces |-> new[i]]
    BY DEF Labelled
  <2>3. new = <<>> <=> DOMAIN new = {}
    BY <1>1, <2>2
  <2> QED
    BY <1>1, <2>1, <2>3
<1> QED
  BY <1>1, <1>3, <1>4

LEMMA LabelRules ==
    ASSUME Known, NEW ts, DOMAIN ts = DOMAIN traces,
           \A i \in DOMAIN traces : ts[i].path = traces[i].path
    PROVE  UnknownPath <=>
           ~ \A l \in Given("--trace-label") : \E t \in ToSet(ts) : t.path = l[1]
<1> DEFINE P == {[path |-> labels[j].path] : j \in DOMAIN labels}
           IsPath(p) == \E i \in DOMAIN traces : traces[i].path = p
<1>1. {[path |-> l[1]] : l \in Given("--trace-label")} = P
  BY DEF Known, InputsKnown
<1>2. UnknownPath <=> \E j \in DOMAIN labels : ~IsPath(labels[j].path)
  BY DEF UnknownPath, ToSet
<1>3. \A p : (\E t \in ToSet(ts) : t.path = p) <=> IsPath(p)
  BY DEF ToSet
<1>4. ASSUME NEW j \in DOMAIN labels
      PROVE  \E l \in Given("--trace-label") : l[1] = labels[j].path
  <2>1. [path |-> labels[j].path] \in P
    OBVIOUS
  <2>2. PICK l \in Given("--trace-label") : [path |-> l[1]] = [path |-> labels[j].path]
    BY <1>1, <2>1
  <2>3. [path |-> l[1]].path = [path |-> labels[j].path].path
    BY <2>2
  <2> QED
    BY <2>3
<1>5. ASSUME NEW l \in Given("--trace-label")
      PROVE  \E j \in DOMAIN labels : l[1] = labels[j].path
  <2>1. [path |-> l[1]] \in P
    BY <1>1
  <2>2. PICK j \in DOMAIN labels : [path |-> l[1]] = [path |-> labels[j].path]
    BY <2>1
  <2>3. [path |-> l[1]].path = [path |-> labels[j].path].path
    BY <2>2
  <2> QED
    BY <2>3
<1> HIDE DEF P, IsPath
<1> QED
  BY <1>2, <1>3, <1>4, <1>5

(* What Check decides, in the words of the documents. *)
Allowed(ts) ==
    /\ ts # <<>>
    /\ \A l \in Given("--trace-label") : \E t \in ToSet(ts) : t.path = l[1]
    /\ FALSE \notin Given("--thread")
    /\ CASE command = "query"   -> QueryRules
         [] command = "sources" ->
                \A f \in Given("--filter") : f[2] \in {"name", "source", "source_type"}
         [] OTHER -> \A o \in QueryOptions : ~Has(o)

LEMMA CheckDecides ==
    ASSUME Known, command # None,
           NEW ts, ts = traces \/ ts = Labelled(traces, labels)
    PROVE  IsRefused <=> ~Allowed(ts)
<1>1. /\ ts = <<>> <=> traces = <<>>
      /\ DOMAIN ts = DOMAIN traces
      /\ \A i \in DOMAIN traces : ts[i].path = traces[i].path
  BY PathsStay
<1>2. UnknownPath <=>
      ~ \A l \in Given("--trace-label") : \E t \in ToSet(ts) : t.path = l[1]
  BY <1>1, LabelRules
<1>3. broken <=> FALSE \in Given("--thread")
  BY DEF Known, ScopesKnown
<1>4. queryOption <=> \E o \in QueryOptions : Has(o)
  BY DEF Known, InputsKnown
<1>5. CASE command = "query"
  BY <1>1, <1>2, <1>3, <1>5, QueryRulesAreChecked DEF IsRefused, Allowed
<1>6. CASE command = "sources"
  BY <1>1, <1>2, <1>3, <1>6, SourceRules DEF IsRefused, Allowed
<1>7. CASE command \notin {"query", "sources"}
  BY <1>1, <1>2, <1>3, <1>4, <1>7 DEF IsRefused, Allowed
<1> QED
  BY <1>5, <1>6, <1>7

LEMMA AllowedStays ==
    ASSUME UNCHANGED <<given, command, from, to>>, NEW ts
    PROVE  Allowed(ts)' <=> Allowed(ts)
<1>1. \A o : Given(o)' = Given(o) /\ (Has(o)' <=> Has(o))
  BY DEF Given, Has
<1>2. KindsAsked' = KindsAsked
  BY <1>1 DEF KindsAsked
<1>3. QueryRules' <=> QueryRules
  BY <1>1, <1>2 DEF QueryRules
<1> QED
  BY <1>1, <1>3 DEF Allowed

-----------------------------------------------------------------------------
(* The theorems *)

LEMMA KnownBefore == Spec => []IInv
<1>1. IInv /\ [Next]_vars => IInv'
  BY InvNext
<1> QED
  BY <1>1, InitKnown, PTL DEF Spec

(* Whoever has the answer has it for good. *)
LEMMA Answered ==
    ASSUME [Next]_vars, answer # None PROVE UNCHANGED vars
  BY DEF Next, Check, TakeArgument, TakeWord, TakeLabel, TakeKind, TakePoint, TakeTime,
     TakeStructure, TakeFilter, TakeSelector, TakeQuiet, EndOptions, TakeHelp, TakeUnknown,
     QueryOption, TakeOption, Take

LEMMA AnswerStep ==
    ASSUME IInv, [Next]_vars, answer = None, answer' # None
    PROVE  \/ Known /\ Check
           \/ answer' = "help"
           \/ answer' = "usage" /\ (command' = None \/ Has("--unknown")')
<1>1. Known
  BY DEF IInv
<1>2. ~UNCHANGED vars
  BY DEF vars
<1> QED
  BY <1>1, <1>2, ArgumentKnown DEF Next

(* The Matcher never refuses, after the traces have been loaded, what the  *)
(* parser has accepted for a query.                                        *)
THEOREM MatcherAgrees == Spec => []ParserAndMatcherAgree
<1>1. Init => ParserAndMatcherAgree
  BY DEF Init, ParserAndMatcherAgree, None
<1>2. IInv /\ ParserAndMatcherAgree /\ [Next]_vars => ParserAndMatcherAgree'
  <2> SUFFICES ASSUME IInv, ParserAndMatcherAgree, [Next]_vars,
                      answer' = "accepted", command' = "query"
               PROVE  ~Throws'
    BY DEF ParserAndMatcherAgree
  <2>1. CASE answer # None
    <3>1. UNCHANGED <<answer, command, kinds, structure, filters, broken, points>>
      BY <2>1, Answered DEF vars, inputs, scopes, times
    <3>2. Throws' <=> Throws
      BY <3>1 DEF Throws, InvalidField
    <3> QED
      BY <3>1, <3>2 DEF ParserAndMatcherAgree
  <2>2. CASE answer = None
    <3>1. Check
      BY <2>2, AnswerStep DEF None
    <3>2. /\ kinds' = Queried /\ ~IsRefused
          /\ UNCHANGED <<command, structure, filters, broken, points>>
      BY <3>1 DEF Check, times
    <3>3. ~broken /\ ~QueryClashes
      BY <3>2 DEF IsRefused
    <3>4. ~InvalidField'
      BY <3>2, <3>3 DEF InvalidField, QueryClashes, FieldsClash
    <3>5. /\ ~(structure' # {} /\ ~(kinds' \subseteq ZoneKinds))
          /\ ~(structure' \cap {"parent", "ancestor"} # {} /\ "ghost-zone" \in kinds')
      BY <3>2, <3>3 DEF QueryClashes, StructureClashes
    <3>6. ~("active" \in points' /\ ~(kinds' \subseteq IntervalKinds))
      BY <3>2, <3>3 DEF QueryClashes, ActiveClashes
    <3> QED
      BY <3>2, <3>3, <3>4, <3>5, <3>6 DEF Throws
  <2> QED
    BY <2>1, <2>2
<1> QED
  BY <1>1, <1>2, KnownBefore, PTL DEF Spec

(* What is accepted is what the documents allow, for any arguments in any  *)
(* order.                                                                  *)
THEOREM AcceptsTheDocumented == Spec => []AcceptedAsDocumented
<1>1. Init => AcceptedAsDocumented
  BY DEF Init, AcceptedAsDocumented, None
<1>2. IInv /\ AcceptedAsDocumented /\ [Next]_vars => AcceptedAsDocumented'
  <2> SUFFICES ASSUME IInv, AcceptedAsDocumented, [Next]_vars,
                      \/ answer' = "accepted"
                      \/ answer' = "usage" /\ ~Has("--unknown")' /\ command' # None
               PROVE  answer' = "accepted" <=> Allowed(traces)'
    BY DEF AcceptedAsDocumented, Allowed
  <2>1. CASE answer # None
    <3>1. UNCHANGED <<given, answer, command, traces, from, to>>
      BY <2>1, Answered DEF vars, inputs, times
    <3>2. Allowed(traces)' <=> Allowed(traces)
      <4>1. traces' = traces
        BY <3>1
      <4> QED
        BY <3>1, <4>1, AllowedStays DEF Allowed
    <3>3. Has("--unknown")' <=> Has("--unknown")
      BY <3>1 DEF Has, Given
    <3> QED
      BY <3>1, <3>2, <3>3 DEF AcceptedAsDocumented, Allowed
  <2>2. CASE answer = None
    <3>1. Known /\ Check
      BY <2>2, AnswerStep DEF None
    <3>2. /\ UNCHANGED <<given, command, from, to>>
          /\ answer' = IF IsRefused THEN "usage" ELSE "accepted"
          /\ traces' = traces \/ traces' = Labelled(traces, labels)
      BY <3>1 DEF Check, times
    <3>3. command # None
      <4>1. CASE answer' = "accepted"
        BY <3>2, <4>1 DEF IsRefused
      <4> QED
        BY <3>2, <4>1
    <3>4. IsRefused <=> ~Allowed(traces')
      BY <3>1, <3>2, <3>3, CheckDecides
    <3>5. Allowed(traces)' <=> Allowed(traces')
      BY <3>2, AllowedStays
    <3> QED
      BY <3>2, <3>4, <3>5
  <2> QED
    BY <2>1, <2>2
<1> QED
  BY <1>1, <1>2, KnownBefore, PTL DEF Spec

(* Every trace has the label that was given last for its path, before the  *)
(* path or after it.                                                       *)
THEOREM LabelsReachTraces == Spec => []LabelsApply
<1>1. Init => LabelsApply
  BY DEF Init, LabelsApply, None
<1>2. IInv /\ LabelsApply /\ [Next]_vars => LabelsApply'
  <2> SUFFICES ASSUME IInv, LabelsApply, [Next]_vars, answer' = "accepted"
               PROVE  LabelsApply'
    BY DEF LabelsApply
  <2>1. CASE answer # None
    <3>1. UNCHANGED <<answer, traces, labels>>
      BY <2>1, Answered DEF vars, inputs
    <3> QED
      BY <3>1 DEF LabelsApply, ToSet
  <2>2. CASE answer = None
    <3>1. Known /\ Check
      BY <2>2, AnswerStep DEF None
    <3>2. traces' = Labelled(traces, labels) /\ labels' = labels
      BY <3>1 DEF Check
    <3>3. traces \in Seq(Unlabelled) /\ labels \in Seq(LabelTraces)
      BY <3>1 DEF Known, Typed
    <3>4. DOMAIN traces' = DOMAIN traces
      BY <3>2 DEF Labelled
    <3> SUFFICES ASSUME NEW i \in DOMAIN traces
                 PROVE  IF \E l \in ToSet(labels) : l.path = traces'[i].path
                        THEN \E j \in DOMAIN labels :
                               /\ labels[j] = traces'[i]
                               /\ \A k \in DOMAIN labels :
                                     labels[k].path = traces'[i].path => k <= j
                        ELSE traces'[i].label = traces'[i].path
      BY <3>2, <3>4 DEF LabelsApply, ToSet
    <3> DEFINE mine == {j \in DOMAIN labels : labels[j].path = traces[i].path}
    <3>5. /\ mine = {} => traces'[i] = traces[i]
          /\ mine # {} => \E j \in mine : traces'[i] = labels[j] /\ \A k \in mine : k <= j
      BY <3>2, <3>3, LabelledTraces
    <3>6. traces'[i].path = traces[i].path
      BY <3>5
    <3>7. traces[i].label = traces[i].path
      <4>1. traces[i] \in Unlabelled
        BY <3>3
      <4> QED
        BY <4>1 DEF Unlabelled, Trace
    <3>8. CASE mine = {}
      BY <3>5, <3>6, <3>7, <3>8 DEF ToSet
    <3>9. CASE mine # {}
      <4>1. PICK j \in mine : traces'[i] = labels[j] /\ \A k \in mine : k <= j
        BY <3>5, <3>9
      <4>2. \A k \in DOMAIN labels : labels[k].path = traces'[i].path => k <= j
        BY <3>6, <4>1
      <4>3. \E l \in ToSet(labels) : l.path = traces'[i].path
        BY <3>6, <4>1 DEF ToSet
      <4> QED
        BY <4>1, <4>2, <4>3
    <3> QED
      BY <3>8, <3>9
  <2> QED
    BY <2>1, <2>2
<1> QED
  BY <1>1, <1>2, KnownBefore, PTL DEF Spec

=============================================================================
