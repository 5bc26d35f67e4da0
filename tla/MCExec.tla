------------------------------- MODULE MCExec -------------------------------
(***************************************************************************)
(* A machine that executes what the host pushes, for ever:                 *)
(*     out exec, 16 [3]                                                    *)
(*     set y, 31                                                           *)
(* The second instruction is never executed: the one in exec_instr takes   *)
(* its place, at once, until it has retired.  Between cycles the host also  *)
(* rewrites that instruction and the registers, uses all four FIFO calls,  *)
(* resets the pins and executes instructions by itself.                    *)
(***************************************************************************)
EXTENDS EpioStall, EpioAsm

Me == <<0, 0>>

\* As they are encoded: set x, 1 [2]; wait 1 irq 0; push block
Pushed == {{0, 5, 9, 13, 14, 15}, {6, 7, 13}, {5, 15}}

ExecConfig == [Wrapping(1) EXCEPT !.autopull = TRUE, !.pull_thresh = 16]

ExecSetups ==
  {[program |-> [b \in Blocks |->
                   Memory(<<After(OutI("EXEC", 16), 3), SetI("Y", 0 .. 4)>>,
                          NumInstrs)],
    config |-> [m \in SMs |-> ExecConfig],
    enabled |-> SMs, start |-> [m \in SMs |-> 0],
    base |-> [b \in Blocks |-> 0], control |-> [b \in Blocks |-> {}]]}

ExecHost ==
  [Quiet EXCEPT
     !.push_tx = {Me} \X Pushed, !.push_rx = {<<Me, {}>>},
     !.pop_tx = {Me}, !.pop_rx = {Me}, !.irqs = {<<0, 0>>}, !.resets = TRUE,
     !.regs = {Me} \X {[ExecConfig EXCEPT !.autopush = on] : on \in BOOLEAN},
     !.instrs = {0} \X {1} \X {SetI("Y", 0 .. 4), JmpI("ALWAYS", 0)},
     !.execs = {Me} \X {SetI("X", {2}), MovI("Y", "NONE", "NULL")}]

\* What is pushed is about something else than the program counter, and what the host
\* executes is beside the program
ASSUME
  /\ Replaceable /\ ExecutesUndelayed
  /\ \A w \in Pushed : ~Redirects(Decode(w)) /\ ~HandsOver(Decode(w))
=============================================================================
