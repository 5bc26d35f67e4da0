------------------------------- MODULE MCIrq -------------------------------
(***************************************************************************)
(* Machines of three blocks that synchronise by IRQ flags.  Two programs,  *)
(* each with a start of its own.                                           *)
(*                                                                         *)
(* In the first, two tokens go round the blocks, passed by machine 0 to    *)
(* the next block with flag 0 and by machine 1 to the previous block with  *)
(* flag 1, which it waits for as flag 0 relative to itself:                *)
(*     wait 1 irq rel 0                                                    *)
(*     set x, 1              the token is held from here                   *)
(*     set x, 0 [1]                                                        *)
(*     irq next 0  /  irq prev 1                                           *)
(* The machines of block 0 start at the last instruction and so inject the *)
(* tokens.                                                                 *)
(*                                                                         *)
(* In the second, a producer in block 2 waits for a consumer in block 0 to *)
(* take each item, and a pulser does not wait for its listener in block 1: *)
(*   producer:  mov x, ~x        consumer:  wait 1 irq prev 0              *)
(*              irq wait 0                  mov y, ~y [1]                  *)
(*   pulser:    irq set 2        listener:  wait 1 irq 2                   *)
(*                                                                         *)
(* The host disables and enables machine 0 of each block between cycles.   *)
(***************************************************************************)
EXTENDS EpioSync, EpioAsm, TLC

IrqHost == [Quiet EXCEPT !.toggles = Blocks \X {0}]

\* A start of program p in which each enabled machine m loops from first[m] to
\* last[m], and begins at start[m]
Looping(p, first, last, start) ==
  [program |-> [b \in Blocks |-> Memory(p, NumInstrs)],
   config |-> [m \in SMs |->
                 IF m \in DOMAIN last
                 THEN [Wrapping(last[m]) EXCEPT !.wrap_bottom = first[m]]
                 ELSE Wrapping(0)],
   enabled |-> DOMAIN last,
   start |-> [m \in SMs |-> IF m \in DOMAIN start THEN start[m] ELSE 0],
   base |-> [b \in Blocks |-> 0], control |-> [b \in Blocks |-> {}]]

-----------------------------------------------------------------------------
(* The tokens *)

TokenLoop(pass) ==
  <<WaitI(TRUE, "IRQ", Relative), SetI("X", {0}), After(SetI("X", {}), 1), pass>>

\* Machine 0 runs at addresses 0 to 3, machine 1 at 4 to 7
TokenFirst == [m \in SMs |-> 4 * m[2]]

TokenLast == [m \in SMs |-> TokenFirst[m] + 3]

Tokens ==
  Looping(TokenLoop(IrqI(FALSE, FALSE, NextBlock))
            \o TokenLoop(IrqI(FALSE, FALSE, PrevBlock + 1)),
          TokenFirst, TokenLast,
          [m \in SMs |-> IF m[1] = 0 THEN TokenLast[m] ELSE TokenFirst[m]])

InTokens == instr = Tokens.program

\* Every block has each token again and again if the emulator is stepped and
\* the machines are left enabled from some time on.
TokenCirculates ==
  InTokens /\ <>[](\A m \in SMs : sm[m].enabled) =>
    \A m \in SMs : []<>(sm[m].x # {})

-----------------------------------------------------------------------------
(* The handshake and the pulses *)

Producer == <<2, 0>>
Consumer == <<0, 0>>
Pulser   == <<1, 0>>
Listener == <<1, 1>>

HandshakeFirst == (Producer :> 0) @@ (Consumer :> 2) @@ (Pulser :> 4) @@ (Listener :> 5)

HandshakeLast == (Producer :> 1) @@ (Consumer :> 3) @@ (Pulser :> 4) @@ (Listener :> 5)

Handshake ==
  Looping(<<MovI("X", "INVERT", "X"), IrqI(FALSE, TRUE, 0),
            WaitI(TRUE, "IRQ", PrevBlock), After(MovI("Y", "INVERT", "Y"), 1),
            IrqI(FALSE, FALSE, 2),
            WaitI(TRUE, "IRQ", 2)>>,
          HandshakeFirst, HandshakeLast, HandshakeFirst)

InHandshake == instr = Handshake.program

\* While the machines are enabled items are made and taken for ever.
ItemsFlow ==
  InHandshake /\ <>[](sm[Producer].enabled /\ sm[Consumer].enabled) =>
    []<>(sm[Consumer].y # {}) /\ []<>(sm[Consumer].y = {})

IrqSetups == {Tokens, Handshake}

\* All run round their loops; some of them are a handshake, some a train of pulses
ASSUME Looped /\ Handshakes # {} /\ Trains # {}
=============================================================================
