------------------------------- MODULE Money -------------------------------
(***************************************************************************)
(* models.FormatMinor: how an amount in minor units is written for a       *)
(* client and in a Telegram message.  The amount is an int64, -Half is the *)
(* smallest one (Half = 2^63 in the code); its negation wraps around.  The *)
(* text is its sign, the number before the dot and the number after it.    *)
(***************************************************************************)
EXTENDS Integers

MinorUnits == 100

\* -n in two's complement: the smallest number is its own opposite.
Negated(Half, n) == IF n = -Half THEN n ELSE -n

\* The operators / and % of Go truncate towards zero.
Quotient(n) == IF n >= 0 THEN n \div MinorUnits ELSE -((-n) \div MinorUnits)
Remainder(n) == n - MinorUnits * Quotient(n)

FormatMinor(Half, amount) ==
  LET magnitude == IF amount < 0 THEN Negated(Half, amount) ELSE amount
  IN  [minus |-> amount < 0, units |-> Quotient(magnitude), rest |-> Remainder(magnitude)]

\* What a reader takes the text for, and whether %d.%02d writes it with digits
\* only.
Reads(text) ==
  LET written == MinorUnits * text.units + text.rest
  IN  IF text.minus THEN -written ELSE written
IsDecimal(text) == text.units >= 0 /\ text.rest \in 0 .. MinorUnits - 1
=============================================================================
