----------------------------- MODULE MCFindings -----------------------------
(***************************************************************************)
(* Programs for which the code departs from its documentation, each on a   *)
(* machine of its own, and what the documentation says of them.            *)
(*   <<0, 0>>:  out exec, 16         (the host pushes jmp 0)               *)
(*   <<0, 1>>:  pull block; mov x, osr; jmp x-- 3   (the host pushes 256)  *)
(*   <<0, 2>>:  set pindirs, 1       (block 0 controls pin 0)              *)
(*   <<1, 0>>:  mov pindirs, null    (block 1 does not control pin 0)      *)
(***************************************************************************)
EXTENDS EpioExec, EpioAsm

Executor == <<0, 0>>
Counter == <<0, 1>>
Driver == <<0, 2>>

FindingsProgram ==
  [b \in Blocks |->
     Memory(IF b = 0
            THEN <<OutI("EXEC", 16),
                   PullI(FALSE, TRUE), MovI("X", "NONE", "OSR"),
                   JmpI("X_DEC", 3), SetI("PINDIRS", {0})>>
            ELSE <<MovI("PINDIRS", "NONE", "NULL")>>, NumInstrs)]

FindingsStart ==
  [m \in SMs |-> CASE m = Counter -> 1
                   [] m = Driver -> 4
                   [] OTHER -> 0]

FindingsConfig ==
  [m \in SMs |->
     [Wrapping(IF m = Counter THEN 3 ELSE FindingsStart[m])
        EXCEPT !.wrap_bottom = FindingsStart[m],
               !.autopull = m = Executor, !.pull_thresh = 16,
               !.set_count = 1, !.out_count = 1]]

FindingsSetups ==
  {[program |-> FindingsProgram, config |-> FindingsConfig,
    enabled |-> {Executor, Counter, Driver, <<1, 0>>}, start |-> FindingsStart,
    base |-> [b \in Blocks |-> 0],
    control |-> [b \in Blocks |-> IF b = 0 THEN {0} ELSE {}]]}

\* jmp 0 as it is encoded, and 256
FindingsHost ==
  [Quiet EXCEPT !.push_tx = {<<Executor, {}>>, <<Counter, {8}>>}]

Stepped(m) == turn = m /\ turn' # m /\ sm[m].enabled /\ sm[m].delay = 0

\* "whether we have a pending EXEC instruction ... that should be executed next":
\* a pending jump is executed once (epio_sm_step, was_exec_pending).
ExecutedJumpIsDone ==
  [][\A m \in SMs :
       Stepped(m) /\ sm[m].exec_pending /\ sm[m].exec_instr.op = "JMP" =>
         ~sm'[m].exec_pending]_vars

\* "The X register is a general-purpose 32-bit scratch register": JMP X-- jumps
\* whenever X, before the decrement, is not zero (OC_JMP, JMP_COND_X_DEC).
JumpTestsAllOfX ==
  [][\A m \in SMs : \A i \in Current(m) :
       Stepped(m) /\ i.op = "JMP" /\ i.cond = "X_DEC" /\ sm[m].x # {} =>
         sm'[m].pc = i.addr]_vars

\* "Only a PIO block with output control for that GPIO can drive it as an
\* output": an output is not turned off by a block that does not control it
\* (OUT_DEST_PINDIRS and MOV_DEST_PINDIRS).
OnlyOwnerTurns ==
  [][\A m \in SMs : Stepped(m) =>
       gpio.dir \ gpio.control[m[1]] \subseteq gpio'.dir]_vars
=============================================================================
