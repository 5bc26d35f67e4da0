------------------------------ MODULE EpioAsm -------------------------------
(***************************************************************************)
(* Shorthand for the programs and register settings the MC modules run.    *)
(***************************************************************************)
EXTENDS EpioInstr, Sequences

JmpI(cond, addr) == [op |-> "JMP", cond |-> cond, addr |-> addr, delay |-> 0]

WaitI(polarity, src, index) ==
  [op |-> "WAIT", polarity |-> polarity, src |-> src, index |-> index,
   delay |-> 0]

InI(src, count) == [op |-> "IN", src |-> src, count |-> count, delay |-> 0]

OutI(dst, count) == [op |-> "OUT", dst |-> dst, count |-> count, delay |-> 0]

PushI(if_full, block) ==
  [op |-> "PUSH", if_full |-> if_full, block |-> block, delay |-> 0]

PullI(if_empty, block) ==
  [op |-> "PULL", if_empty |-> if_empty, block |-> block, delay |-> 0]

MovI(dst, mov_op, src) ==
  [op |-> "MOV", dst |-> dst, mov_op |-> mov_op, src |-> src, delay |-> 0]

IrqI(clr, wait, index) ==
  [op |-> "IRQ", clr |-> clr, wait |-> wait, index |-> index, delay |-> 0]

SetI(dst, data) == [op |-> "SET", dst |-> dst, data |-> data, delay |-> 0]

After(i, d) == [i EXCEPT !.delay = d]

\* IRQ indexes: the mode in the upper bits
PrevBlock == 8

Relative == 16

NextBlock == 24

\* A block's memory: the program from address 0 on, then the zeroes of calloc
Memory(program, size) ==
  [a \in 0 .. size - 1 |->
     IF a < Len(program) THEN program[a + 1] ELSE Decode({})]

\* Registers of a machine that wraps from address top to 0 and shifts right
Wrapping(top) ==
  [jmp_pin |-> 0, status_sel |-> 0, status_n |-> 0,
   wrap_top |-> top, wrap_bottom |-> 0,
   autopull |-> FALSE, autopush |-> FALSE,
   in_right |-> TRUE, out_right |-> TRUE,
   push_thresh |-> 32, pull_thresh |-> 32,
   in_base |-> 0, in_count |-> 0, out_base |-> 0, out_count |-> 0,
   set_base |-> 0, set_count |-> 0]

\* A host that only steps the emulator
Quiet ==
  [push_tx |-> {}, push_rx |-> {}, pop_tx |-> {}, pop_rx |-> {}, irqs |-> {},
   toggles |-> {}, plays |-> {}, pins |-> {}, resets |-> FALSE, regs |-> {},
   instrs |-> {}, execs |-> {}, bases |-> {}]
=============================================================================
