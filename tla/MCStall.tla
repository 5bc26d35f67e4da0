------------------------------ MODULE MCStall -------------------------------
(***************************************************************************)
(* One state machine that runs through every blocking instruction, with a  *)
(* host that lets it through or not.                                       *)
(***************************************************************************)
EXTENDS EpioStall, EpioAsm

Me == <<0, 0>>

\* The word pushed is split in two by OUT X and put together again by IN X; the
\* rest of the program moves through every other way to use the FIFOs, the shift
\* registers and the condition codes, and ends in a jump to 0.
StallProgram ==
  [b \in Blocks |-> Memory(<<
     \*  0
     OutI("X", 16), After(InI("X", 16), 1), IrqI(FALSE, TRUE, 0),
     After(WaitI(TRUE, "IRQ", 1), 1), WaitI(FALSE, "GPIO", 0),
     PullI(TRUE, TRUE), PushI(FALSE, TRUE),
     \*  7: X counts down from 1 and past 0
     SetI("X", {0}), JmpI("X_DEC", 8), MovI("Y", "INVERT", "X"),
     JmpI("NOT_X", 0), JmpI("NOT_Y", 13), SetI("Y", {0}),
     JmpI("Y_DEC", 0), JmpI("X_NOT_Y", 0),
     \* 15: 12 bits into the ISR, too few for PUSH IFFULL
     MovI("ISR", "NONE", "STATUS"), InI("Y", 4), InI("NULL", 4),
     InI("OSR", 2), InI("ISR", 2), PushI(TRUE, FALSE),
     \* 21: 16 bits out of the OSR, so PULL IFEMPTY pulls
     MovI("OSR", "BITREV", "X"), OutI("Y", 4), OutI("NULL", 4),
     OutI("ISR", 4), OutI("PINS", 2), OutI("PINDIRS", 2),
     PullI(TRUE, FALSE), IrqI(TRUE, FALSE, 0), JmpI("PIN", 30),
     \* 30: two ways back, both to 0
     MovI("PC", "NONE", "NULL"), OutI("PC", 8)>>, NumInstrs)]

StallSetups ==
  {[program |-> StallProgram,
    config |-> [m \in SMs |-> [Wrapping(31) EXCEPT
                  !.autopull = TRUE, !.autopush = TRUE,
                  !.push_thresh = 16, !.pull_thresh = 16, !.status_n = 1]],
    enabled |-> SMs, start |-> [m \in SMs |-> 0],
    base |-> [b \in Blocks |-> 0], control |-> [b \in Blocks |-> {}]]}

StallHost ==
  [Quiet EXCEPT !.push_tx = {Me} \X {{3, 16}}, !.pop_rx = {Me},
                !.irqs = {0} \X {0, 1}, !.plays = {0},
                !.bases = {0} \X Bases,
                !.execs = {Me} \X {SetI("Y", {0}), IrqI(TRUE, FALSE, 1)}]

\* The host leaves the program alone, and executes what passes it by
ASSUME Undisturbed
=============================================================================
