------------------------------- MODULE MCPins -------------------------------
(***************************************************************************)
(* Pins shared by the machines of a block, and pins at the edges of the    *)
(* two GPIOBASE windows.  Block 0, at base 0, controls pin 5 and block 1,  *)
(* at base 16, pins 20 to 23.                                              *)
(*   <<0, 0>>:  set pins, 0            <<0, 1>>:  set pins, 3              *)
(*   <<1, 0>>:  mov pins, pins         <<1, 1>>:  mov pindirs, pins        *)
(*                                                set pindirs, 2           *)
(* The sets write pins 5 and 6, and 23 and 24, of which the block controls *)
(* only the first; the movs read pins 47 and 16, which follow each other   *)
(* in the window of block 1.  They write 20 and 21, or the directions of   *)
(* 47 and 16, which only the host may have made outputs.                   *)
(* Between cycles the host plays levels into 16 and 47, gives 47 to either *)
(* block, turns, forces, inverts and sets it, and resets all pins.         *)
(***************************************************************************)
EXTENDS EpioSync, EpioAsm

Zero == <<0, 0>>
One == <<0, 1>>
Repeater == <<1, 0>>
Director == <<1, 1>>

PinsProgram ==
  [b \in Blocks |->
     Memory(IF b = 0
            THEN <<SetI("PINS", {}), SetI("PINS", {0, 1})>>
            ELSE <<MovI("PINS", "NONE", "PINS"),
                   MovI("PINDIRS", "NONE", "PINS"),
                   SetI("PINDIRS", {1})>>, NumInstrs)]

PinsConfig ==
  [m \in SMs |->
     [Wrapping(IF m = Director THEN 2 ELSE m[2]) EXCEPT
        !.wrap_bottom = m[2],
        !.set_base = IF m[1] = 0 THEN 5 ELSE 7, !.set_count = 2,
        !.in_base = 31, !.in_count = 2,
        !.out_base = IF m = Director THEN 31 ELSE 4, !.out_count = 2]]

PinsSetups ==
  {[program |-> PinsProgram, config |-> PinsConfig,
    enabled |-> SMs, start |-> [m \in SMs |-> m[2]],
    base |-> [b \in Blocks |-> 16 * b],
    control |-> [b \in Blocks |-> IF b = 0 THEN {5} ELSE 20 .. 23]]}

PinsHost == [Quiet EXCEPT !.toggles = {Zero, One}, !.plays = {16, 47},
                          !.pins = {47}, !.resets = TRUE]

\* No pin is given to both blocks, and the machines run round their loops
ASSUME DisjointControl /\ Looped
=============================================================================
