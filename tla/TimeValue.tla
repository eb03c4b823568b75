----------------------------- MODULE TimeValue ------------------------------
(***************************************************************************)
(* parse_time of src/src/time.cpp on a number with an optional fraction    *)
(* and a unit: its arithmetic in unsigned 64-bit words and the checks it   *)
(* makes before every operation that might leave them.                     *)
(*                                                                         *)
(* A text is what its digits say: the integer part and the fraction as     *)
(* numbers, the count of fractional digits, and the unit as its length in  *)
(* nanoseconds.  Texts of another form are refused without arithmetic.     *)
(***************************************************************************)
EXTENDS Integers

CONSTANTS
    UMax,        \* the largest uint64_t
    SMax,        \* the largest int64_t
    Units,       \* the multipliers
    MaxDigits,   \* the most fractional digits: 18
    Scale,       \* Scale[d]: ten to the d
    Wholes,      \* the integer parts a text may have
    MaxLength    \* bound: the most fractional digits in a text

ASSUME WordAssumption == UMax \in Nat /\ SMax \in Nat /\ SMax < UMax
ASSUME UnitAssumption == Units \subseteq 1 .. SMax
ASSUME DigitAssumption == MaxDigits \in Nat /\ MaxLength \in Nat
ASSUME ScaleAssumption ==
    /\ Scale \in [0 .. MaxLength -> Nat \ {0}]
    /\ Scale[0] = 1
    /\ \A d \in 0 .. MaxLength : d <= MaxDigits => Scale[d] <= UMax
ASSUME WholeAssumption == Wholes \subseteq Nat

Texts ==
    UNION {[whole : Wholes, digits : {d}, fraction : 0 .. Scale[d] - 1, unit : Units] :
              d \in 0 .. MaxLength}

Word(n) == n % (UMax + 1)

(* What comes as Slip... is a plausible mistake in the definition below it; *)
(* nothing uses it.                                                        *)
SlipMultiplyFits(left, right) == TRUE
MultiplyFits(left, right) == left # 0 => right <= UMax \div left

(* from_chars refuses a number that is no uint64_t. *)
Readable(n) == n <= UMax

Divides(n, scale) == n % scale = 0

(* The sum of both parts is an int64_t. *)
Fits(nanoseconds, fractional) == nanoseconds <= Word(SMax - fractional)

Whole(t) == Word(t.whole * t.unit)
Fractional(t) ==
    IF t.digits = 0 THEN 0 ELSE Word(t.fraction * t.unit) \div Scale[t.digits]

Nanoseconds(t) == Word(Whole(t) + Fractional(t))

SlipFractionTaken(t) ==
    t.digits > 0 =>
        /\ t.digits < MaxDigits
        /\ Readable(t.fraction)
        /\ MultiplyFits(t.fraction, t.unit)
        /\ Divides(Word(t.fraction * t.unit), Scale[t.digits])
        /\ Fits(Whole(t), Fractional(t))

FractionTaken(t) ==
    t.digits > 0 =>
        /\ t.digits <= MaxDigits
        /\ Readable(t.fraction)
        /\ MultiplyFits(t.fraction, t.unit)
        /\ Divides(Word(t.fraction * t.unit), Scale[t.digits])
        /\ Fits(Whole(t), Fractional(t))

Accepted(t) ==
    /\ Readable(t.whole)
    /\ MultiplyFits(t.whole, t.unit)
    /\ FractionTaken(t)
    /\ Nanoseconds(t) <= SMax

-----------------------------------------------------------------------------
(* What a text means, in nanoseconds, times the scale of its fraction. *)

Meant(t) == (t.whole * Scale[t.digits] + t.fraction) * t.unit

Representable(t) ==
    /\ Meant(t) % Scale[t.digits] = 0
    /\ Meant(t) <= SMax * Scale[t.digits]

=============================================================================
