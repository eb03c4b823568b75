-------------------------- MODULE TimeRangeProofs ---------------------------
(***************************************************************************)
(* Proofs about the range options: what parse_time accepts is exact, for   *)
(* every size of the word, every unit and every number of digits, and the  *)
(* records selected are those that were asked for.                         *)
(***************************************************************************)
EXTENDS TimeRange, TLAPS

-----------------------------------------------------------------------------
(* Arithmetic *)

(* The test of checked_multiply is exact: the quotient is large enough     *)
(* only if the product is small enough.                                    *)
LEMMA QuotientBound ==
    ASSUME NEW a \in Nat, NEW b \in Nat, NEW m \in Nat, a # 0, b <= m \div a
    PROVE  a * b <= m
<1> DEFINE q == m \div a
<1>1. q \in Nat /\ a * q <= m
  BY SMT
<1>2. a * b <= a * q
  BY <1>1, SMT
<1> QED
  BY <1>1, <1>2, SMT

(* A number that divides another without remainder is a factor of it.      *)
LEMMA ExactQuotient ==
    ASSUME NEW a \in Nat, NEW s \in Nat, s # 0, a % s = 0
    PROVE  a \div s \in Nat /\ (a \div s) * s = a
  BY SMT

(* A word that holds a number is that number. *)
LEMMA WordOfSmall ==
    ASSUME NEW n \in Nat, n <= UMax
    PROVE  Word(n) = n
  BY WordAssumption, SMT DEF Word

LEMMA ProductFits ==
    ASSUME NEW a \in Nat, NEW b \in Nat, MultiplyFits(a, b)
    PROVE  a * b \in 0 .. UMax /\ Word(a * b) = a * b
<1>1. a * b \in Nat
  BY SMT
<1>2. a * b <= UMax
  <2>1. CASE a = 0
    BY <2>1, WordAssumption, SMT
  <2>2. CASE a # 0
    BY <2>2, QuotientBound, WordAssumption DEF MultiplyFits
  <2> QED
    BY <2>1, <2>2
<1> QED
  BY <1>1, <1>2, WordOfSmall

(* A fraction of a unit that is a number of nanoseconds is shorter than    *)
(* the unit.                                                               *)
LEMMA FractionBelowUnit ==
    ASSUME NEW f \in Nat, NEW u \in Nat, NEW s \in Nat, NEW k \in Nat,
           f < s, k * s = f * u, u # 0
    PROVE  k < u
<1> SUFFICES ASSUME k >= u PROVE FALSE
  BY SMT
<1>1. k * s >= u * s
  BY SMT
<1>2. f * u < s * u
  BY SMT
<1> QED
  BY <1>1, <1>2, SMT

LEMMA Distribute ==
    ASSUME NEW w \in Nat, NEW u \in Nat, NEW f \in Nat, NEW s \in Nat, NEW k \in Nat,
           k * s = f * u
    PROVE  (w * u + k) * s = (w * s + f) * u
<1>1. (w * u + k) * s = (w * u) * s + k * s
  BY SMT
<1>2. (w * s + f) * u = (w * s) * u + f * u
  BY SMT
<1>3. (w * u) * s = (w * s) * u
  BY SMT
<1> QED
  BY <1>1, <1>2, <1>3, SMT

-----------------------------------------------------------------------------
(* parse_time *)

LEMMA TextFacts ==
    ASSUME NEW t \in Texts
    PROVE  /\ t.whole \in Nat /\ t.unit \in 1 .. SMax
           /\ t.digits \in 0 .. MaxLength
           /\ Scale[t.digits] \in Nat \ {0}
           /\ t.fraction \in 0 .. Scale[t.digits] - 1
<1>1. PICK d \in 0 .. MaxLength :
          t \in [whole : Wholes, digits : {d}, fraction : 0 .. Scale[d] - 1, unit : Units]
  BY DEF Texts
<1>2. Scale[d] \in Nat \ {0}
  BY ScaleAssumption
<1>3. t.whole \in Wholes /\ t.digits = d /\ t.fraction \in 0 .. Scale[d] - 1 /\ t.unit \in Units
  BY <1>1
<1> QED
  BY <1>2, <1>3, WholeAssumption, UnitAssumption

(* The fractional part that is computed is the one that is meant. *)
LEMMA FractionIsExact ==
    ASSUME NEW t \in Texts, FractionTaken(t)
    PROVE  /\ Fractional(t) \in Nat
           /\ Fractional(t) * Scale[t.digits] = t.fraction * t.unit
           /\ Fractional(t) <= SMax
<1> DEFINE s == Scale[t.digits]
<1>1. /\ t.unit \in 1 .. SMax /\ t.digits \in 0 .. MaxLength
      /\ s \in Nat \ {0} /\ t.fraction \in 0 .. s - 1
  BY TextFacts
<1>2. CASE t.digits = 0
  <2>1. s = 1 /\ t.fraction = 0
    BY <1>1, <1>2, ScaleAssumption
  <2>2. Fractional(t) = 0
    BY <1>2 DEF Fractional
  <2> QED
    BY <1>1, <2>1, <2>2, WordAssumption, SMT
<1>3. CASE t.digits # 0
  <2> DEFINE p == t.fraction * t.unit
             k == p \div s
  <2>1. MultiplyFits(t.fraction, t.unit) /\ Divides(Word(p), s)
    BY <1>1, <1>3 DEF FractionTaken
  <2>2. p \in 0 .. UMax /\ Word(p) = p
    BY <1>1, <2>1, ProductFits
  <2>3. p \in Nat /\ p % s = 0
    BY <2>1, <2>2, WordAssumption DEF Divides
  <2>4. Fractional(t) = k
    BY <1>3, <2>2 DEF Fractional
  <2> HIDE DEF p
  <2>5. k \in Nat /\ k * s = p
    BY <1>1, <2>3, ExactQuotient
  <2>6. k < t.unit
    <3> HIDE DEF s, k
    <3>1. t.fraction \in Nat /\ t.unit \in Nat /\ s \in Nat /\ t.fraction < s /\ t.unit # 0
      BY <1>1, WordAssumption
    <3> QED
      BY <2>5, <3>1, FractionBelowUnit DEF p
  <2> QED
    BY <1>1, <2>4, <2>5, <2>6, WordAssumption DEF p
<1> QED
  BY <1>2, <1>3

(* What parse_time accepts is what the text means, and an int64_t. *)
THEOREM AcceptedIsExact ==
    ASSUME NEW t \in Texts, Accepted(t)
    PROVE  /\ Nanoseconds(t) \in 0 .. SMax
           /\ Nanoseconds(t) * Scale[t.digits] = Meant(t)
<1> DEFINE s == Scale[t.digits]
           w == t.whole * t.unit
           k == Fractional(t)
<1>1. t.whole \in Nat /\ t.unit \in Nat /\ s \in Nat /\ t.fraction \in Nat
  BY TextFacts, WordAssumption
<1>2. w \in 0 .. UMax /\ Whole(t) = w
  BY <1>1, ProductFits DEF Accepted, Whole
<1>3. k \in Nat /\ k * s = t.fraction * t.unit /\ k <= SMax
  BY FractionIsExact DEF Accepted
<1>4. w + k <= UMax
  <2>1. CASE t.digits = 0
    <3>1. k = 0
      BY <2>1 DEF Fractional
    <3> HIDE DEF w, k
    <3> QED
      BY <1>2, <3>1, WordAssumption
  <2>2. CASE t.digits # 0
    <3>1. w <= Word(SMax - k)
      BY <1>2, <2>2, TextFacts DEF Accepted, FractionTaken, Fits
    <3> HIDE DEF w, k
    <3>2. Word(SMax - k) = SMax - k
      BY <1>3, WordOfSmall, WordAssumption
    <3> QED
      BY <1>2, <1>3, <3>1, <3>2, WordAssumption
  <2> QED
    BY <2>1, <2>2
<1>5. Nanoseconds(t) = w + k
  <2>1. Nanoseconds(t) = Word(w + k)
    BY <1>2 DEF Nanoseconds
  <2> HIDE DEF w, k
  <2> QED
    BY <1>2, <1>3, <1>4, <2>1, WordOfSmall, WordAssumption
<1>6. w + k \in 0 .. SMax
  <2>1. w + k <= SMax
    BY <1>5 DEF Accepted
  <2> HIDE DEF w, k
  <2> QED
    BY <1>2, <1>3, <2>1, WordAssumption
<1>7. (w + k) * s = (t.whole * s + t.fraction) * t.unit
  <2> HIDE DEF k, s
  <2> QED
    BY <1>1, <1>3, Distribute
<1> QED
  BY <1>5, <1>6, <1>7 DEF Meant

-----------------------------------------------------------------------------
(* The command line *)

TypeOK ==
    /\ from \in {Unset} \cup 0 .. SMax
    /\ to \in {Unset} \cup 0 .. SMax
    /\ fromStart \in BOOLEAN /\ toEnd \in BOOLEAN
    /\ mode \in Modes
    /\ lastFrom \in Values \cup {None}
    /\ lastTo \in Values \cup {None}

(* The bounds are those of the last options, up to what was overridden. *)
FromIsLast ==
    /\ lastFrom = None => from = Unset /\ ~fromStart
    /\ IsTime(lastFrom) => Accepted(lastFrom[2]) /\ from = Nanoseconds(lastFrom[2])
    /\ lastFrom = <<"start">> => fromStart
ToIsLast ==
    /\ lastTo = None => to = Unset /\ ~toEnd
    /\ IsTime(lastTo) => Accepted(lastTo[2]) /\ to = Nanoseconds(lastTo[2])
    /\ lastTo = <<"start">> => to = 0
    /\ lastTo = <<"end">> => toEnd

Validated == phase = "ready" => (from # Unset /\ to # Unset => from <= to)

IInv == TypeOK /\ FromIsLast /\ ToIsLast /\ Validated

LEMMA ValueFacts ==
    ASSUME NEW v \in Values
    PROVE  /\ v # None
           /\ \/ IsTime(v) /\ v[2] \in Texts /\ v # <<"start">> /\ v # <<"end">>
              \/ v = <<"start">> /\ ~IsTime(v) /\ v[1] = "start"
              \/ v = <<"end">> /\ ~IsTime(v) /\ v[1] = "end"
<1>1. CASE v \in {<<"time", t>> : t \in Given}
  <2>1. PICK t \in Given : v = <<"time", t>>
    BY <1>1
  <2> QED
    BY <2>1, GivenAssumption DEF IsTime, None
<1>2. CASE v = <<"start">>
  BY <1>2 DEF IsTime, None
<1>3. CASE v = <<"end">>
  BY <1>3 DEF IsTime, None
<1> QED
  BY <1>1, <1>2, <1>3 DEF Values

LEMMA NoneIsNoTime == ~IsTime(None) /\ None # <<"start">> /\ None # <<"end">>
  BY DEF None, IsTime

LEMMA InvInit == Init => IInv
<1> SUFFICES ASSUME Init PROVE IInv
  OBVIOUS
<1> QED
  BY NoneIsNoTime DEF Init, IInv, TypeOK, FromIsLast, ToIsLast, Validated, Modes

LEMMA TakeFromInv ==
    ASSUME IInv, NEW v \in Values, TakeFrom(v)
    PROVE  IInv'
<1>1. /\ phase = "parse" /\ phase' = "parse" /\ to' = to /\ toEnd' = toEnd /\ mode' = mode
      /\ lastTo' = lastTo /\ lastFrom' = v /\ IsTaken(v)
      /\ fromStart' = (fromStart \/ v[1] = "start")
  BY DEF TakeFrom, Take
<1>2. CASE IsTime(v)
  <2>1. from' = Nanoseconds(v[2]) /\ Accepted(v[2]) /\ v[2] \in Texts
    BY <1>1, <1>2, ValueFacts DEF TakeFrom, IsTaken, IsTime
  <2>2. from' \in 0 .. SMax
    BY <2>1, AcceptedIsExact
  <2> QED
    BY <1>1, <1>2, <2>1, <2>2, ValueFacts, NoneIsNoTime
       DEF IInv, TypeOK, FromIsLast, ToIsLast, Validated
<1>3. CASE v = <<"start">>
  <2>1. from' = from /\ ~IsTime(v) /\ v # None
    BY <1>3, ValueFacts DEF TakeFrom, IsTime
  <2> QED
    BY <1>1, <1>3, <2>1, ValueFacts DEF IInv, TypeOK, FromIsLast, ToIsLast, Validated
<1>4. CASE v = <<"end">>
  <2>1. from' = SMax /\ ~IsTime(v) /\ v # None /\ v # <<"start">>
    BY <1>4, ValueFacts DEF TakeFrom, IsTime
  <2> QED
    BY <1>1, <1>4, <2>1, WordAssumption DEF IInv, TypeOK, FromIsLast, ToIsLast, Validated
<1> QED
  BY <1>2, <1>3, <1>4, ValueFacts

LEMMA TakeToInv ==
    ASSUME IInv, NEW v \in Values, TakeTo(v)
    PROVE  IInv'
<1>1. /\ phase = "parse" /\ phase' = "parse" /\ from' = from /\ fromStart' = fromStart
      /\ mode' = mode /\ lastFrom' = lastFrom /\ lastTo' = v /\ IsTaken(v)
      /\ toEnd' = (toEnd \/ v[1] = "end")
  BY DEF TakeTo, Take
<1>2. CASE IsTime(v)
  <2>1. to' = Nanoseconds(v[2]) /\ Accepted(v[2]) /\ v[2] \in Texts
    BY <1>1, <1>2, ValueFacts DEF TakeTo, IsTaken, IsTime
  <2>2. to' \in 0 .. SMax
    BY <2>1, AcceptedIsExact
  <2> QED
    BY <1>1, <1>2, <2>1, <2>2, ValueFacts, NoneIsNoTime
       DEF IInv, TypeOK, FromIsLast, ToIsLast, Validated
<1>3. CASE v = <<"end">>
  <2>1. to' = to /\ ~IsTime(v) /\ v # None /\ v # <<"start">>
    BY <1>3, ValueFacts DEF TakeTo, IsTime
  <2> QED
    BY <1>1, <1>3, <2>1, ValueFacts DEF IInv, TypeOK, FromIsLast, ToIsLast, Validated
<1>4. CASE v = <<"start">>
  <2>1. to' = 0 /\ ~IsTime(v) /\ v # None /\ v # <<"end">>
    BY <1>4, ValueFacts DEF TakeTo, IsTime
  <2> QED
    BY <1>1, <1>4, <2>1, WordAssumption DEF IInv, TypeOK, FromIsLast, ToIsLast, Validated
<1> QED
  BY <1>2, <1>3, <1>4, ValueFacts

LEMMA InvNext == IInv /\ [Next]_vars => IInv'
<1> SUFFICES ASSUME IInv, [Next]_vars PROVE IInv'
  OBVIOUS
<1> USE DEF IInv, TypeOK, FromIsLast, ToIsLast, Validated, bounds, history
<1>1. ASSUME NEW v \in Values, TakeFrom(v) PROVE IInv'
  BY <1>1, TakeFromInv
<1>2. ASSUME NEW v \in Values, TakeTo(v) PROVE IInv'
  BY <1>2, TakeToInv
<1>3. ASSUME NEW v \in Values, RefuseValue(v) PROVE IInv'
  BY <1>3 DEF RefuseValue, Take
<1>4. ASSUME NEW m \in Modes, TakeMode(m) PROVE IInv'
  BY <1>4 DEF TakeMode, Take
<1>5. CASE Validate
  BY <1>5 DEF Validate, Unset
<1>6. CASE UNCHANGED vars
  BY <1>6 DEF vars
<1> QED
  BY <1>1, <1>2, <1>3, <1>4, <1>5, <1>6 DEF Next

LEMMA Invariance == Spec => []IInv
  BY InvInit, InvNext, PTL DEF Spec

(* A bound that a number has set is exactly what the number says, for      *)
(* every size of the word, every unit and every count of digits.           *)
THEOREM BoundsExact == Spec => []BoundsAreExact
<1>1. IInv => BoundsAreExact
  <2> SUFFICES ASSUME IInv PROVE BoundsAreExact
    OBVIOUS
  <2>1. Exact(from, lastFrom)
    BY AcceptedIsExact, ValueFacts, NoneIsNoTime DEF IInv, TypeOK, FromIsLast, Exact
  <2>2. Exact(to, lastTo)
    BY AcceptedIsExact, ValueFacts, NoneIsNoTime DEF IInv, TypeOK, ToIsLast, Exact
  <2> QED
    BY <2>1, <2>2 DEF BoundsAreExact
<1> QED
  BY <1>1, Invariance, PTL

-----------------------------------------------------------------------------
(* The records selected *)

LEMMA ScaleOrder ==
    ASSUME NEW x \in Nat, NEW y \in Nat, NEW s \in Nat, s # 0
    PROVE  x * s >= y * s <=> x >= y
<1>1. x >= y => x * s >= y * s
  BY SMT
<1>2. x < y => x * s < y * s
  BY SMT
<1> QED
  BY <1>1, <1>2, SMT

(* Nothing was overridden: the bounds in use are those that were asked for. *)
Plain == ~Overridden /\ lastFrom # <<"end">>

LEMMA FromIsAsked ==
    ASSUME IInv, Plain
    PROVE  /\ From \in 0 .. SMax
           /\ \A x \in Nat : NotBefore(x) <=> x >= From
<1>1. CASE IsTime(lastFrom)
  <2>1. lastFrom[2] \in Texts /\ Accepted(lastFrom[2]) /\ from = Nanoseconds(lastFrom[2])
    BY <1>1, ValueFacts, NoneIsNoTime DEF IInv, TypeOK, FromIsLast
  <2>2. from \in 0 .. SMax /\ from * Scale[lastFrom[2].digits] = Meant(lastFrom[2])
    BY <2>1, AcceptedIsExact
  <2>3. From = from
    BY <2>2, WordAssumption DEF From, Unset
  <2>4. Scale[lastFrom[2].digits] \in Nat \ {0}
    BY <2>1, TextFacts
  <2>5. ASSUME NEW x \in Nat PROVE NotBefore(x) <=> x >= From
    BY <1>1, <2>2, <2>3, <2>4, ScaleOrder, WordAssumption DEF NotBefore
  <2> QED
    BY <2>2, <2>3, <2>5
<1>2. CASE ~IsTime(lastFrom)
  <2>1. from = Unset
    BY <1>2, ValueFacts DEF IInv, TypeOK, FromIsLast, Plain, Overridden
  <2>2. From = 0
    BY <2>1 DEF From
  <2> QED
    BY <1>2, <2>2, WordAssumption DEF NotBefore
<1> QED
  BY <1>1, <1>2

LEMMA ToIsAsked ==
    ASSUME IInv, Plain
    PROVE  /\ To \in 0 .. SMax
           /\ \A x \in 0 .. TraceEnd : NotLater(x) <=> x <= To
<1>1. CASE IsTime(lastTo)
  <2>1. lastTo[2] \in Texts /\ Accepted(lastTo[2]) /\ to = Nanoseconds(lastTo[2])
    BY <1>1, ValueFacts, NoneIsNoTime DEF IInv, TypeOK, ToIsLast
  <2>2. to \in 0 .. SMax /\ to * Scale[lastTo[2].digits] = Meant(lastTo[2])
    BY <2>1, AcceptedIsExact
  <2>3. To = to
    BY <2>2, WordAssumption DEF To, Unset
  <2>4. Scale[lastTo[2].digits] \in Nat \ {0}
    BY <2>1, TextFacts
  <2>5. ASSUME NEW x \in 0 .. TraceEnd PROVE NotLater(x) <=> x <= To
    <3>1. x \in Nat /\ to \in Nat
      BY <2>2, EndAssumption, WordAssumption
    <3>2. to * Scale[lastTo[2].digits] >= x * Scale[lastTo[2].digits] <=> to >= x
      BY <2>4, <3>1, ScaleOrder
    <3>3. x * Scale[lastTo[2].digits] \in Int /\ to * Scale[lastTo[2].digits] \in Int
      BY <2>4, <3>1
    <3> QED
      BY <1>1, <2>2, <2>3, <3>1, <3>2, <3>3 DEF NotLater
  <2> QED
    BY <2>2, <2>3, <2>5
<1>2. CASE lastTo = <<"start">>
  <2>1. to = 0 /\ ~IsTime(lastTo)
    BY <1>2, ValueFacts, NoneIsNoTime DEF IInv, TypeOK, ToIsLast
  <2> QED
    BY <1>2, <2>1, WordAssumption, EndAssumption DEF To, NotLater, Unset
<1>3. CASE ~IsTime(lastTo) /\ lastTo # <<"start">>
  <2>1. to = Unset
    BY <1>3, ValueFacts DEF IInv, TypeOK, ToIsLast, Plain, Overridden
  <2>2. To = TraceEnd
    BY <2>1 DEF To
  <2> QED
    BY <1>3, <2>2, EndAssumption, WordAssumption DEF NotLater
<1> QED
  BY <1>1, <1>2, <1>3

(* A record overlaps a range exactly if one of its instants is in it. *)
LEMMA OverlapHasInstant ==
    ASSUME NEW low \in Nat, NEW high \in Nat, NEW a \in Nat, NEW b \in Nat,
           a <= b, low <= high \/ b <= high
    PROVE  a <= high /\ b >= low <=> \E t \in a .. b : low <= t /\ t <= high
<1>1. ASSUME a <= high, b >= low PROVE \E t \in a .. b : low <= t /\ t <= high
  <2>1. CASE low <= a
    <3> WITNESS a \in a .. b
    <3> QED
      BY <1>1, <2>1
  <2>2. CASE low > a
    <3>1. low <= high
      BY <1>1
    <3>2. low \in a .. b
      BY <1>1, <2>2
    <3> WITNESS low \in a .. b
    <3> QED
      BY <3>1
  <2> QED
    BY <2>1, <2>2
<1>2. ASSUME NEW t \in a .. b, low <= t, t <= high PROVE a <= high /\ b >= low
  BY <1>2
<1> QED
  BY <1>1, <1>2

LEMMA NothingGiven ==
    ASSUME IInv, Plain, ~Explicit
    PROVE  From = 0 /\ To = TraceEnd
  BY DEF Explicit, From, To

LEMMA InRangeIsAsked ==
    ASSUME IInv, Plain, phase = "ready", NEW r \in Recorded
    PROVE  InRange(r, mode) <=> IsAsked(r)
<1>1. r.start \in 0 .. TraceEnd /\ r.end \in 0 .. TraceEnd /\ r.start <= r.end
  BY DEF Recorded
<1>2. TraceEnd \in Nat
  BY EndAssumption
<1>3. \A x \in 0 .. TraceEnd : Asked(x) <=> From <= x /\ x <= To
  BY <1>2, FromIsAsked, ToIsAsked, WordAssumption DEF Asked
<1>4. From \in Nat /\ To \in Nat
  BY FromIsAsked, ToIsAsked, WordAssumption
<1>5. CASE mode = "overlap"
  <2>1. From <= To \/ r.end <= To
    <3>1. CASE from = Unset
      BY <1>4, <3>1 DEF From
    <3>2. CASE to = Unset
      BY <1>1, <3>2 DEF To
    <3>3. CASE from # Unset /\ to # Unset
      BY <3>3 DEF IInv, Validated, From, To
    <3> QED
      BY <3>1, <3>2, <3>3
  <2>2. r.start <= To /\ r.end >= From <=> \E t \in r.start .. r.end : From <= t /\ t <= To
    BY <1>1, <1>2, <1>4, <2>1, OverlapHasInstant
  <2>3. \A t \in r.start .. r.end : Asked(t) <=> From <= t /\ t <= To
    BY <1>1, <1>2, <1>3
  <2>4. IsAsked(r) <=> \E t \in r.start .. r.end : Asked(t)
    BY <1>5 DEF IsAsked
  <2>5. InRange(r, mode) <=> r.start <= To /\ r.end >= From
    BY <1>5 DEF InRange
  <2> QED
    BY <2>2, <2>3, <2>4, <2>5
<1>6. CASE mode = "start"
  <2>1. InRange(r, mode) <=> r.start >= From /\ r.start <= To
    BY <1>6 DEF InRange
  <2>2. IsAsked(r) <=> Asked(r.start)
    BY <1>6 DEF IsAsked
  <2> QED
    BY <1>1, <1>2, <1>3, <1>4, <2>1, <2>2
<1>7. CASE mode = "contained"
  <2>1. InRange(r, mode) <=> r.start >= From /\ r.end <= To
    BY <1>7 DEF InRange
  <2>2. IsAsked(r) <=> Asked(r.start) /\ Asked(r.end)
    BY <1>7 DEF IsAsked
  <2> QED
    BY <1>1, <1>2, <1>3, <1>4, <2>1, <2>2
<1> QED
  BY <1>5, <1>6, <1>7 DEF IInv, TypeOK, Modes

(* Whatever the options, in whatever order: the records selected are those *)
(* of the range that was asked for.                                        *)
THEOREM RangeIsSelected == Spec => []SelectsTheRange
<1>1. IInv => SelectsTheRange
  <2> SUFFICES ASSUME IInv, Plain, phase = "ready", NEW r \in Recorded
               PROVE  Matches(r) <=> IsAsked(r)
    BY DEF SelectsTheRange, Plain
  <2>1. CASE Explicit
    BY <2>1, InRangeIsAsked DEF Matches
  <2>2. CASE ~Explicit
    <3>1. From = 0 /\ To = TraceEnd
      BY <2>2, NothingGiven
    <3>2. /\ r.start \in 0 .. TraceEnd /\ r.end \in 0 .. TraceEnd
          /\ TraceEnd \in Nat /\ mode \in {"overlap", "start", "contained"}
      BY EndAssumption DEF IInv, TypeOK, Modes, Recorded
    <3>3. r.start >= From /\ r.end >= From /\ r.start <= To /\ r.end <= To
      BY <3>1, <3>2
    <3>4. InRange(r, mode)
      BY <3>2, <3>3 DEF InRange
    <3> QED
      BY <2>2, <3>4, InRangeIsAsked DEF Matches
  <2> QED
    BY <2>1, <2>2
<1> QED
  BY <1>1, Invariance, PTL

-----------------------------------------------------------------------------
(* What is refused *)

LEMMA Cancel ==
    ASSUME NEW a \in Nat, NEW b \in Nat, NEW s \in Nat, s # 0, a * s <= b * s
    PROVE  a <= b
<1> SUFFICES ASSUME a > b PROVE FALSE
  BY SMT
<1>1. a * s > b * s
  BY SMT
<1> QED
  BY <1>1, SMT

LEMMA RestDivides ==
    ASSUME NEW a \in Nat, NEW p \in Nat, NEW s \in Nat, s # 0, (a * s + p) % s = 0
    PROVE  p % s = 0
<1> DEFINE q == (a * s + p) \div s
           k == q - a
<1>1. q \in Nat /\ q * s = a * s + p
  <2>1. a * s + p \in Nat
    BY SMT
  <2> QED
    BY <2>1, ExactQuotient
<1> HIDE DEF q
<1>2. k * s = p
  BY <1>1, SMT
<1>3. k \in Int
  BY <1>1, SMT
<1> DEFINE d == p \div s
           r == p % s
<1>4. d \in Int /\ r \in Nat /\ r < s /\ p = d * s + r
  BY SMT
<1> HIDE DEF k, d, r
<1>5. (k - d) * s = r
  BY <1>2, <1>3, <1>4, SMT
<1>6. k - d < 1
  <2> SUFFICES ASSUME k - d >= 1 PROVE FALSE
    BY <1>3, <1>4, SMT
  <2>1. (k - d) * s >= s
    BY <1>3, <1>4, SMT
  <2> QED
    BY <1>4, <1>5, <2>1, SMT
<1>7. k - d > -1
  <2> SUFFICES ASSUME k - d <= -1 PROVE FALSE
    BY <1>3, <1>4, SMT
  <2>1. (k - d) * s <= -s
    BY <1>3, <1>4, SMT
  <2> QED
    BY <1>4, <1>5, <2>1, SMT
<1>8. k - d = 0
  BY <1>3, <1>4, <1>6, <1>7, SMT
<1> QED
  BY <1>4, <1>5, <1>8, SMT DEF r

LEMMA FitsProduct ==
    ASSUME NEW a \in Nat, NEW b \in Nat, NEW m \in Nat, a * b <= m
    PROVE  a # 0 => b <= m \div a
<1> SUFFICES ASSUME a # 0, m \div a < b PROVE FALSE
  BY SMT
<1> DEFINE q == m \div a
<1>1. q \in Nat /\ m < a * (q + 1)
  BY SMT
<1> HIDE DEF q
<1>2. q + 1 <= b
  BY <1>1, SMT DEF q
<1>3. a * (q + 1) <= a * b
  BY <1>1, <1>2, SMT
<1> QED
  BY <1>1, <1>3, SMT

(* Whatever is an int64_t of nanoseconds is accepted, unless its fraction  *)
(* has too many digits or a product with the unit that is no word.         *)
THEOREM RepresentableIsAccepted ==
    ASSUME NEW t \in Texts, Representable(t), t.digits <= MaxDigits,
           t.fraction * t.unit <= UMax
    PROVE  Accepted(t)
<1> DEFINE s == Scale[t.digits]
           w == t.whole * t.unit
           p == t.fraction * t.unit
           k == p \div s
<1>1. /\ t.whole \in Nat /\ t.unit \in Nat /\ t.unit # 0 /\ t.fraction \in Nat
      /\ s \in Nat /\ s # 0 /\ t.digits \in 0 .. MaxLength
  BY TextFacts, WordAssumption
<1>2. w \in Nat /\ p \in Nat /\ p <= UMax
  BY <1>1, SMT
<1>3. Meant(t) = w * s + p
  <2> HIDE DEF s
  <2> QED
    BY <1>1, SMT DEF Meant, s
<1>4. (w * s + p) % s = 0 /\ w * s + p <= SMax * s
  BY <1>3 DEF Representable
<1>5. p % s = 0 /\ k \in Nat /\ k * s = p
  <2> HIDE DEF w, p, s
  <2>1. p % s = 0
    BY <1>1, <1>2, <1>4, RestDivides
  <2> QED
    BY <1>1, <1>2, <2>1, ExactQuotient
<1>6. w + k <= SMax
  <2> HIDE DEF w, p, s, k
  <2>1. (w + k) * s = w * s + p
    BY <1>1, <1>2, <1>5, SMT
  <2>2. w + k \in Nat
    BY <1>2, <1>5, SMT
  <2> QED
    BY <1>1, <1>4, <2>1, <2>2, Cancel, WordAssumption
<1>7. w <= UMax /\ w + k <= UMax /\ k <= SMax
  <2> HIDE DEF w, k
  <2> QED
    BY <1>2, <1>5, <1>6, WordAssumption
<1>8. t.whole <= w /\ t.fraction <= p
  BY <1>1, SMT
<1>9. Readable(t.whole) /\ MultiplyFits(t.whole, t.unit)
  <2> HIDE DEF w
  <2>1. t.whole <= UMax
    BY <1>1, <1>2, <1>7, <1>8, WordAssumption
  <2>2. t.whole # 0 => t.unit <= UMax \div t.whole
    BY <1>1, <1>7, FitsProduct, WordAssumption DEF w
  <2> QED
    BY <2>1, <2>2 DEF Readable, MultiplyFits
<1>10. Whole(t) = w
  <2> HIDE DEF w
  <2>1. Word(w) = w
    BY <1>2, <1>7, WordOfSmall
  <2> QED
    BY <2>1 DEF Whole, w
<1>11. Word(p) = p
  <2> HIDE DEF p
  <2> QED
    BY <1>2, WordOfSmall
<1>12. FractionTaken(t) /\ Fractional(t) = k
  <2>1. CASE t.digits = 0
    <3>1. s = 1 /\ t.fraction = 0
      BY <1>1, <2>1, TextFacts, ScaleAssumption
    <3>2. k = 0
      BY <1>1, <3>1, SMT
    <3> QED
      BY <2>1, <3>2 DEF FractionTaken, Fractional
  <2>2. CASE t.digits # 0
    <3>1. Fractional(t) = k
      BY <1>11, <2>2 DEF Fractional
    <3>2. Readable(t.fraction)
      <4> HIDE DEF p
      <4> QED
        BY <1>1, <1>2, <1>8, WordAssumption DEF Readable
    <3>3. MultiplyFits(t.fraction, t.unit)
      BY <1>1, <1>2, FitsProduct, WordAssumption DEF MultiplyFits
    <3>4. Divides(Word(p), s)
      BY <1>5, <1>11 DEF Divides
    <3>5. w <= SMax - k /\ SMax - k \in Nat /\ SMax - k <= UMax
      <4> HIDE DEF w, k
      <4> QED
        BY <1>2, <1>5, <1>6, <1>7, WordAssumption
    <3>6. Word(SMax - k) = SMax - k
      <4> HIDE DEF k
      <4> QED
        BY <3>5, WordOfSmall
    <3>7. Fits(Whole(t), Fractional(t))
      BY <1>10, <3>1, <3>5, <3>6 DEF Fits
    <3> QED
      BY <3>1, <3>2, <3>3, <3>4, <3>7 DEF FractionTaken
  <2> QED
    BY <2>1, <2>2
<1>13. Nanoseconds(t) <= SMax
  <2>1. Nanoseconds(t) = Word(w + k)
    BY <1>10, <1>12 DEF Nanoseconds
  <2> HIDE DEF w, k
  <2>2. Word(w + k) = w + k
    BY <1>2, <1>5, <1>7, WordOfSmall
  <2> QED
    BY <1>6, <2>1, <2>2
<1> QED
  BY <1>9, <1>12, <1>13 DEF Accepted

(* A command line is refused for the value it stopped at, or for a range   *)
(* that ends before it begins.                                             *)
Refused ==
    /\ phase # "refused" => bad = None
    /\ bad # None => bad \in Values /\ ~IsTaken(bad)
    /\ phase = "refused" /\ bad = None => from # Unset /\ to # Unset /\ from > to

LEMMA RefusedStep == Refused /\ [Next]_vars => Refused'
<1> SUFFICES ASSUME Refused, [Next]_vars PROVE Refused'
  OBVIOUS
<1> USE DEF Refused, bounds, history, Take
<1>1. ASSUME NEW v \in Values, TakeFrom(v) \/ TakeTo(v) PROVE Refused'
  BY <1>1 DEF TakeFrom, TakeTo
<1>2. ASSUME NEW v \in Values, RefuseValue(v) PROVE Refused'
  BY <1>2, ValueFacts DEF RefuseValue, IsTaken, IsTime
<1>3. ASSUME NEW m \in Modes, TakeMode(m) PROVE Refused'
  BY <1>3 DEF TakeMode
<1>4. CASE Validate
  BY <1>4 DEF Validate
<1>5. CASE UNCHANGED vars
  BY <1>5 DEF vars, IsTaken, IsTime
<1> QED
  BY <1>1, <1>2, <1>3, <1>4, <1>5 DEF Next

(* A bound that was set is the one that was asked for, beyond the end of   *)
(* the trace too.                                                          *)
LEMMA ToBeyondIsAsked ==
    ASSUME IInv, Plain, to # Unset
    PROVE  \A x \in Nat : NotLater(x) => x <= to
<1>1. CASE IsTime(lastTo)
  <2>1. lastTo[2] \in Texts /\ Accepted(lastTo[2]) /\ to = Nanoseconds(lastTo[2])
    BY <1>1, ValueFacts, NoneIsNoTime DEF IInv, TypeOK, ToIsLast
  <2>2. to \in 0 .. SMax /\ to * Scale[lastTo[2].digits] = Meant(lastTo[2])
    BY <2>1, AcceptedIsExact
  <2>3. Scale[lastTo[2].digits] \in Nat \ {0}
    BY <2>1, TextFacts
  <2>4. ASSUME NEW x \in Nat, NotLater(x) PROVE x <= to
    <3>1. x * Scale[lastTo[2].digits] <= to * Scale[lastTo[2].digits]
      BY <1>1, <2>2, <2>4 DEF NotLater
    <3>2. to \in Nat
      BY <2>2, WordAssumption
    <3> QED
      BY <2>3, <3>1, <3>2, Cancel
  <2> QED
    BY <2>4
<1>2. CASE lastTo = <<"start">>
  BY <1>2, ValueFacts, NoneIsNoTime DEF IInv, TypeOK, ToIsLast, NotLater
<1>3. CASE ~IsTime(lastTo) /\ lastTo # <<"start">>
  BY <1>3, ValueFacts DEF IInv, TypeOK, ToIsLast, Plain, Overridden
<1> QED
  BY <1>1, <1>2, <1>3

(* No command line is refused without a reason that its user can see, for  *)
(* every size of the word, every unit and every sequence of options.       *)
THEOREM RefusalHasReason == Spec => []RefusedForAReason
<1>1. Init => Refused
  BY DEF Init, Refused
<1>2. IInv /\ Refused => RefusedForAReason
  <2> SUFFICES ASSUME IInv, Refused, phase = "refused" PROVE RefusedForAReason
    BY DEF RefusedForAReason
  <2>1. CASE bad # None
    <3>1. IsTime(bad) /\ bad[2] \in Texts /\ ~Accepted(bad[2])
      BY <2>1, ValueFacts DEF Refused, IsTaken
    <3>2. bad[2].digits \in Nat /\ bad[2].fraction * bad[2].unit \in Int
      BY <3>1, TextFacts, DigitAssumption, WordAssumption, SMT
    <3>3. \/ ~Representable(bad[2]) \/ bad[2].digits > MaxDigits
          \/ bad[2].fraction * bad[2].unit > UMax
      BY <3>1, <3>2, RepresentableIsAccepted, DigitAssumption, WordAssumption
    <3> QED
      BY <2>1, <3>3 DEF RefusedForAReason
  <2>2. CASE bad = None
    <3>1. from # Unset /\ to # Unset /\ from > to
      BY <2>2 DEF Refused
    <3>2. ASSUME Plain, NEW x \in 0 .. SMax PROVE ~Asked(x)
      <4>1. x \in Nat /\ From = from /\ from \in Int /\ to \in Int
        BY <3>1, WordAssumption DEF From, IInv, TypeOK, Unset
      <4>2. NotBefore(x) => x >= from
        BY <3>2, <4>1, FromIsAsked
      <4>3. NotLater(x) => x <= to
        BY <3>1, <3>2, <4>1, ToBeyondIsAsked
      <4> QED
        BY <3>1, <4>1, <4>2, <4>3 DEF Asked
    <3> QED
      BY <2>2, <3>2 DEF RefusedForAReason, Plain
  <2> QED
    BY <2>1, <2>2
<1> QED
  BY <1>1, <1>2, RefusedStep, Invariance, PTL DEF Spec

=============================================================================
