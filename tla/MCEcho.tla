------------------------------- MODULE MCEcho -------------------------------
(***************************************************************************)
(* The echoing machine of EpioEcho, with a delay after its OUT, beside a   *)
(* machine of the same block and memory that sets a flag, waits for it and *)
(* jumps back.                                                             *)
(***************************************************************************)
EXTENDS EpioEcho, EpioStall, EpioAsm

Echo == <<0, 0>>

EchoWords == {{0, 15, 17, 31}, {8, 16}}

EchoSetups ==
  {[program |-> [b \in Blocks |->
                   Memory(<<After(OutI("X", 16), 1), InI("X", 16),
                            IrqI(FALSE, FALSE, 0), WaitI(TRUE, "IRQ", 0),
                            JmpI("ALWAYS", 2)>>,
                          NumInstrs)],
    config |-> [m \in SMs |->
                  IF m = Echo
                  THEN [Wrapping(1) EXCEPT !.autopull = TRUE, !.autopush = TRUE]
                  ELSE Wrapping(4)],
    enabled |-> SMs, start |-> [m \in SMs |-> IF m = Echo THEN 0 ELSE 2],
    base |-> [b \in Blocks |-> 0], control |-> [b \in Blocks |-> {}]]}

EchoHost ==
  [Quiet EXCEPT !.push_tx = {Echo} \X EchoWords, !.pop_rx = {Echo},
                !.toggles = {Echo}]

\* Both programs wrap at their end and lead nowhere else
ASSUME Contained
=============================================================================
