------------------------------- MODULE BitSets -------------------------------
(***************************************************************************)
(* A register of a chip as the set of its bits that are 1.                   *)
(***************************************************************************)
EXTENDS Integers

Bits == 0 .. 7

\* The number in bits lo .. lo+n-1, eight at most
Field(bits, lo, n) ==
  LET weight(i) == IF i < n /\ lo + i \in bits THEN 2^i ELSE 0
  IN weight(0) + weight(1) + weight(2) + weight(3) + weight(4) + weight(5) + weight(6) + weight(7)
Number(bits) == Field(bits, 0, 8)
Differs(v, w) == (v \ w) \cup (w \ v)
=============================================================================
