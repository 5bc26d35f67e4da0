------------------------------ MODULE EpioInstr ------------------------------
(***************************************************************************)
(* PIO instructions as records, one shape for each opcode, and the decoder *)
(* of their 16-bit form.  The bits that carry a delay are kept as a delay; *)
(* the emulator gives side-set no other meaning.                           *)
(***************************************************************************)
EXTENDS EpioWord

Conds == <<"ALWAYS", "NOT_X", "X_DEC", "NOT_Y", "Y_DEC", "X_NOT_Y", "PIN",
           "NOT_OSRE">>

WaitSources == <<"GPIO", "PIN", "IRQ", "JMP_PIN">>

\* "BAD" stands for the encodings that end in an assertion failure
InSources == <<"PINS", "X", "Y", "NULL", "BAD", "BAD", "ISR", "OSR">>

OutDests == <<"PINS", "X", "Y", "NULL", "PINDIRS", "PC", "ISR", "EXEC">>

MovDests == <<"PINS", "X", "Y", "PINDIRS", "EXEC", "PC", "ISR", "OSR">>

MovOps == <<"NONE", "INVERT", "BITREV", "BAD">>

MovSources == <<"PINS", "X", "Y", "NULL", "BAD", "STATUS", "ISR", "OSR">>

SetDests == <<"PINS", "X", "Y", "BAD", "PINDIRS", "BAD", "BAD", "BAD">>

Names(table) == {table[k] : k \in DOMAIN table}

Delays == 0 .. 31

Indexes == 0 .. 31           \* a five-bit operand: an address, a pin, an IRQ

Counts == 1 .. 32            \* a five-bit count, where 0 means 32

JmpInstr ==
  [op : {"JMP"}, cond : Names(Conds), addr : Indexes, delay : Delays]

WaitInstr ==
  [op : {"WAIT"}, polarity : BOOLEAN, src : Names(WaitSources),
   index : Indexes, delay : Delays]

InInstr ==
  [op : {"IN"}, src : Names(InSources), count : Counts, delay : Delays]

OutInstr ==
  [op : {"OUT"}, dst : Names(OutDests), count : Counts, delay : Delays]

PushInstr ==
  [op : {"PUSH"}, if_full : BOOLEAN, block : BOOLEAN, delay : Delays]

PullInstr ==
  [op : {"PULL"}, if_empty : BOOLEAN, block : BOOLEAN, delay : Delays]

MovInstr ==
  [op : {"MOV"}, dst : Names(MovDests), mov_op : Names(MovOps),
   src : Names(MovSources), delay : Delays]

IrqInstr ==
  [op : {"IRQ"}, clr : BOOLEAN, wait : BOOLEAN, index : Indexes,
   delay : Delays]

SetInstr ==
  [op : {"SET"}, dst : Names(SetDests), data : SUBSET (0 .. 4),
   delay : Delays]

\* MOV to and from the RX FIFO is not implemented: the code asserts on it
BadInstr == [op : {"BAD"}]

Instr ==
  JmpInstr \cup WaitInstr \cup InInstr \cup OutInstr \cup PushInstr
    \cup PullInstr \cup MovInstr \cup IrqInstr \cup SetInstr \cup BadInstr

\* The instruction held in the low 16 bits of a word
Decode(w) ==
  LET opcode == Field(w, 13, 3)
      delay == Field(w, 8, 5)
      high == Field(w, 5, 3)             \* condition, source or destination
      low == Field(w, 0, 5)
      count == IF low = 0 THEN 32 ELSE low
  IN  CASE opcode = 0 ->
             [op |-> "JMP", cond |-> Conds[high + 1], addr |-> low,
              delay |-> delay]
        [] opcode = 1 ->
             [op |-> "WAIT", polarity |-> 7 \in w,
              src |-> WaitSources[Field(w, 5, 2) + 1], index |-> low,
              delay |-> delay]
        [] opcode = 2 ->
             [op |-> "IN", src |-> InSources[high + 1], count |-> count,
              delay |-> delay]
        [] opcode = 3 ->
             [op |-> "OUT", dst |-> OutDests[high + 1], count |-> count,
              delay |-> delay]
        [] opcode = 4 /\ 3 \in w -> [op |-> "BAD"]
        [] opcode = 4 /\ 3 \notin w /\ 7 \in w ->
             [op |-> "PULL", if_empty |-> 6 \in w, block |-> 5 \in w,
              delay |-> delay]
        [] opcode = 4 /\ 3 \notin w /\ 7 \notin w ->
             [op |-> "PUSH", if_full |-> 6 \in w, block |-> 5 \in w,
              delay |-> delay]
        [] opcode = 5 ->
             [op |-> "MOV", dst |-> MovDests[high + 1],
              mov_op |-> MovOps[Field(w, 3, 2) + 1],
              src |-> MovSources[Field(w, 0, 3) + 1], delay |-> delay]
        [] opcode = 6 ->
             [op |-> "IRQ", clr |-> 6 \in w, wait |-> 5 \in w, index |-> low,
              delay |-> delay]
        [] opcode = 7 ->
             [op |-> "SET", dst |-> SetDests[high + 1],
              data |-> Low(w, 5), delay |-> delay]
=============================================================================
