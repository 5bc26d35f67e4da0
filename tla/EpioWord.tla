------------------------------ MODULE EpioWord ------------------------------
(***************************************************************************)
(* The machine words of the emulator.  A uint32_t is the set of the        *)
(* positions of its one bits, so a mask is an intersection, a complement a *)
(* set difference and a shift a translation; no power of two is computed.  *)
(* The code's words have WordBits = 32.                                    *)
(***************************************************************************)
EXTENDS Integers

CONSTANT WordBits

ASSUME WordBitsAssumption == WordBits \in Nat /\ WordBits >= 16

Bits == 0 .. WordBits - 1

Word == SUBSET Bits

\* w & ((1 << n) - 1)
Low(w, n) == w \cap 0 .. n - 1

\* w >> n and w << n, where n = WordBits gives 0 as the code's special case does
ShiftRight(w, n) == {k \in Bits : k + n \in w}

ShiftLeft(w, n) == {k \in Bits : k - n \in w}

\* ~w
Invert(w) == Bits \ w

\* The loop of MOV's bit reversal
Reverse(w) == {k \in Bits : (WordBits - 1) - k \in w}

\* w - 1 modulo 2^WordBits: a bit keeps its value when a one bit lies below it
Decrement(w) == {k \in Bits : (k \in w) <=> (\E j \in w : j < k)}

\* w + v modulo 2^WordBits: a carry comes out of a bit that both have, and goes on
\* through bits that either has
Plus(w, v) ==
  LET carry(k) ==
        \E j \in w \cap v : j < k /\ \A i \in j + 1 .. k - 1 : i \in w \cup v
  IN  {k \in Bits : ((k \in w) <=> (k \in v)) <=> carry(k)}

\* A number below 2^31 as a word
WordOf(n) == {k \in Bits \cap 0 .. 30 : (n \div 2^k) % 2 = 1}

\* The number held in the low eight bits, which is what a uint8_t keeps
ByteOf(w) ==
  LET bit(k, v) == IF k \in w THEN v ELSE 0
  IN  bit(0, 1) + bit(1, 2) + bit(2, 4) + bit(3, 8)
        + bit(4, 16) + bit(5, 32) + bit(6, 64) + bit(7, 128)

\* (w >> at) & ((1 << n) - 1) as a number, for fields of at most eight bits
Field(w, at, n) == ByteOf(Low(ShiftRight(w, at), n))
=============================================================================
