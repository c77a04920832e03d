--------------------------------- MODULE Ids ---------------------------------
(***************************************************************************)
(* Ids as numbers and as text.  A text is a sequence of digits 0..Base-1;     *)
(* Base itself stands for any character that is not in the alphabet.         *)
(***************************************************************************)
EXTENDS Integers, Sequences, SequencesExt

CONSTANTS
    Base,       \* 62
    Draws,      \* what secrets.randbits(12) may return: 0..Draws-1
    MaxId       \* the largest BIGINT, 2^63 - 1

ASSUME IdsAssumption ==
    /\ Base \in Nat /\ Base > 1
    /\ Draws \in Nat \ {0}
    /\ MaxId \in Nat \ {0}

(* new_id: (ts << 12) | randbits, for a clock at or after EPOCH_US.          *)
NewId(clock, draw) == clock * Draws + draw

Fits(n) == n <= MaxId

(* encode; for a negative number, which only a clock before EPOCH_US gives, its    *)
(* loop does not end.                                                         *)
Encode[n \in 0..MaxId] ==
    IF n < Base THEN <<n>> ELSE Append(Encode[n \div Base], n % Base)

(* decode, NoId for its ValueError.                                            *)
NoId == 0
Decode(s) ==
    IF s = <<>> \/ Base \in ToSet(s) THEN NoId
    ELSE FoldLeft(LAMBDA value, digit : value * Base + digit, 0, s)

LeadingZeros(s) == IF Decode(s) \in 1..MaxId THEN Decode(s) ELSE NoId
DecodeId(s) ==
    LET value == Decode(s)
    IN  IF value < 1 \/ value > MaxId THEN NoId ELSE IF Encode[value] # s THEN NoId ELSE value
===============================================================================
