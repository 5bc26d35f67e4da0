------------------------------ MODULE EpioSram ------------------------------
(***************************************************************************)
(* The SRAM: bytes at addresses that are machine words.  The code has the  *)
(* 520 KB from MIN_SRAM_ADDR on; the model has the addresses SramAddrs of  *)
(* them, whole words each.  An access outside of them, or one that is not  *)
(* aligned to its size, fails an assertion: no action.                     *)
(***************************************************************************)
EXTENDS EpioWord, Sequences

CONSTANT SramAddrs

Lanes == SUBSET {0, 1}       \* the address bits that select a byte of a word

ASSUME SramAssumption ==
  /\ WordBits = 32
  /\ SramAddrs \subseteq Word
  /\ \A a \in SramAddrs : \A lane \in Lanes : (a \ {0, 1}) \cup lane \in SramAddrs

VARIABLE sram                \* sram[a]: a byte, as the set of its one bits

Byte == SUBSET (0 .. 7)

Sizes == {1, 2, 4}           \* bytes moved by an access

SramTypeOK == sram \in [SramAddrs -> Byte]

\* calloc
SramInit == sram = [a \in SramAddrs |-> {}]

\* CHECK_SRAM_ADDR and CHECK_SRAM_ALIGN
Accessible(a, size) ==
  a \in SramAddrs /\ (size >= 2 => 0 \notin a) /\ (size = 4 => 1 \notin a)

\* The address of byte k of an aligned access at a
ByteAddr(a, k) ==
  a \cup (IF k % 2 = 1 THEN {0} ELSE {}) \cup (IF k >= 2 THEN {1} ELSE {})

\* epio_sram_read_byte, _halfword and _word: the bytes in the order of a
\* little-endian host
Load(a, size) ==
  UNION {ShiftLeft(sram[ByteAddr(a, k)], 8 * k) : k \in 0 .. size - 1}

\* epio_sram_write_byte, _halfword and _word
Store(a, size, w) ==
  /\ Accessible(a, size)
  /\ sram' = [c \in SramAddrs |->
                IF \E k \in 0 .. size - 1 : c = ByteAddr(a, k)
                THEN LET k == CHOOSE k \in 0 .. size - 1 : c = ByteAddr(a, k)
                     IN  Low(ShiftRight(w, 8 * k), 8)
                ELSE sram[c]]

\* epio_sram_set looks at the first and at the last address only
SramSet(a, bytes) ==
  LET at(n) == Plus(a, WordOf(n))
  IN  /\ a \in SramAddrs /\ Decrement(at(Len(bytes))) \in SramAddrs
      /\ sram' = [c \in SramAddrs |->
                    IF \E n \in DOMAIN bytes : c = at(n - 1)
                    THEN bytes[CHOOSE n \in DOMAIN bytes : c = at(n - 1)]
                    ELSE sram[c]]
=============================================================================
