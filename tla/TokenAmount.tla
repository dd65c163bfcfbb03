---------------------------- MODULE TokenAmount ----------------------------
(***************************************************************************)
(* FormatTokenAmount (internal/metadata/token_amount.go): an integer amount  *)
(* in a token's smallest unit, as decimal text with a point.  A text is a     *)
(* sign, the digits before the point and the digits behind it, each digit a   *)
(* number; the minus and the point are written exactly when negative is TRUE   *)
(* and fraction is not empty.                                                  *)
(***************************************************************************)
EXTENDS Integers, Sequences, SequencesExt

CONSTANTS
    Base,       \* 10
    Amounts,    \* the values of *big.Int that are formatted
    Decimals,   \* the decimals of tokens
    Nil         \* the nil pointer

ASSUME BaseAssumption == Base \in Nat /\ Base > 1

ASSUME AmountsAssumption == Amounts \subseteq Int /\ Nil \notin Amounts

ASSUME DecimalsAssumption == Decimals \subseteq Nat

VARIABLES
    value, decimals,   \* the arguments
    result             \* the text, or Nil before the call returned

amountVars == <<value, decimals, result>>

-----------------------------------------------------------------------------
\* big.Int.String of an absolute value: no leading zero, but one digit for 0.
Digits(n) ==
    LET digits[m \in Nat] ==
            IF m < Base THEN <<m>> ELSE Append(digits[m \div Base], m % Base)
    IN  digits[n]

\* Mutant of Padded: one zero too few, so that no digit is left before the point.
PaddedToDecimals(digits, count) ==
    IF Len(digits) <= count
    THEN [i \in 1..(count - Len(digits)) |-> 0] \o digits
    ELSE digits

\* strings.Repeat("0", count - len + 1) + digits
Padded(digits, count) ==
    IF Len(digits) <= count
    THEN [i \in 1..(count - Len(digits) + 1) |-> 0] \o digits
    ELSE digits

\* Mutant of TrimRight: zeros inside the fraction go too.
TrimZeros(digits) == SelectSeq(digits, LAMBDA d : d # 0)

\* strings.TrimRight(fraction, "0")
TrimRight(digits) ==
    LET n == SelectLastInSeq(digits, LAMBDA d : d # 0)
    IN  SubSeq(digits, 1, n)

Text(negative, whole, fraction) ==
    [negative |-> negative, whole |-> whole, fraction |-> fraction]

Format(v, d) ==
    IF v = Nil THEN Text(FALSE, <<0>>, <<>>)
    ELSE LET absolute == IF v < 0 THEN -v ELSE v
             digits   == Padded(Digits(absolute), d)
             split    == Len(digits) - d
         IN  IF d = 0
             THEN Text(v < 0, Digits(absolute), <<>>)   \* value.String()
             ELSE Text(v < 0, SubSeq(digits, 1, split),
                       TrimRight(SubSeq(digits, split + 1, Len(digits))))

-----------------------------------------------------------------------------
AmountInit ==
    /\ value \in Amounts \cup {Nil}
    /\ decimals \in Decimals
    /\ result = Nil

FormatTokenAmount ==
    /\ result = Nil
    /\ result' = Format(value, decimals)
    /\ UNCHANGED <<value, decimals>>

-----------------------------------------------------------------------------
\* Reference definitions: what a text means, and which texts are well formed.

Digit == 0..(Base - 1)

\* The number the digits stand for.
Number(digits) ==
    LET first[i \in 0..Len(digits)] ==   \* the number of the first i digits
            IF i = 0 THEN 0 ELSE first[i - 1] * Base + digits[i]
    IN  first[Len(digits)]

\* The text denotes exactly value / Base^decimals: shifted left by decimals
\* places, its two parts give the amount FormatTokenAmount was called with.  And
\* it is the shortest such text, so that equal amounts of a token have equal
\* texts and a client may compare them: a digit before the point, no superfluous
\* zero at either end, no more digits than decimals, no minus zero.
ExactText ==
    result # Nil =>
        LET shifted == result.whole \o result.fraction
                       \o [i \in 1..(decimals - Len(result.fraction)) |-> 0]
        IN  /\ value # Nil =>
                   Number(shifted) * (IF result.negative THEN -1 ELSE 1) = value
            /\ result.whole \in Seq(Digit) \ {<<>>} /\ result.fraction \in Seq(Digit)
            /\ Len(result.whole) > 1 => Head(result.whole) # 0
            /\ Len(result.fraction) <= decimals
            /\ result.fraction # <<>> => Last(result.fraction) # 0
            /\ result.negative => Number(shifted) # 0
=============================================================================
