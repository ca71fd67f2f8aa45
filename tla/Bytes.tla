--------------------------------- MODULE Bytes ---------------------------------
(***************************************************************************)
(* Numbers as digits, the lowest first: Python's int.to_bytes and          *)
(* int.from_bytes with "little" and the encoders that shift bytes out of a *)
(* number.  A base other than 256 scales the bytes down.                   *)
(***************************************************************************)
EXTENDS Integers, SequencesExt

\* What is left of n when 0, 1, .. w digits have been shifted out.  Division
\* rounds down, so that the digits of a negative number are its complement.
Quotients(n, base, w) ==
    LET left[i \in 0 .. w] == IF i = 0 THEN n ELSE left[i - 1] \div base IN left

Power(base, w) ==
    LET pow[i \in 0 .. w] == IF i = 0 THEN 1 ELSE pow[i - 1] * base IN pow[w]

ToDigits(n, base, w) == [i \in 1 .. w |-> Quotients(n, base, w)[i - 1] % base]
FromDigits(s, base) == FoldRight(LAMBDA d, n : n * base + d, s, 0)
=============================================================================
