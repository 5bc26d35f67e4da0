------------------------------ MODULE EpioEcho -------------------------------
(***************************************************************************)
(* One state machine of the chip that echoes words half by half, with      *)
(* autopull and autopush:                                                  *)
(*     out x, 16 [any delay]                                               *)
(*     in  x, 16 [any delay]                                               *)
(* Between a host that pushes, pops, disables and enables whenever it      *)
(* likes, beside other machines with other programs, it implements the     *)
(* channel of EpioChannel: the halves of a word in flight are in the OSR,  *)
(* in X and in the ISR.                                                    *)
(***************************************************************************)
EXTENDS EpioExec

CONSTANTS Me,                \* the machine that echoes
          Words              \* what the host pushes to it

\* What Me runs, with the registers of a machine that shifts right and moves whole
\* words between the shift registers and the FIFOs
Echoes(setup) ==
  LET code == setup.program[Me[1]]
      r == setup.config[Me]
  IN  /\ \E d \in Delays :
           code[0] = [op |-> "OUT", dst |-> "X", count |-> 16, delay |-> d]
      /\ \E d \in Delays :
           code[1] = [op |-> "IN", src |-> "X", count |-> 16, delay |-> d]
      /\ setup.start[Me] = 0 /\ r.wrap_top = 1 /\ r.wrap_bottom = 0
      /\ r.autopull /\ r.pull_thresh = 32 /\ r.out_right
      /\ r.autopush /\ r.push_thresh = 32 /\ r.in_right

\* The host may do what it likes to the chip but for Me, of which it uses one end of
\* either FIFO
LeavesEcho ==
  /\ \A c \in Host.push_tx : c[1] = Me => c[2] \in Words
  /\ \A c \in Host.push_rx \cup Host.regs \cup Host.execs : c[1] # Me
  /\ Me \notin Host.pop_tx
  /\ \A c \in Host.instrs : c[1] = Me[1] => c[2] \notin {0, 1}

ASSUME EchoAssumption ==
  /\ NumInstrs >= 2
  /\ Me \in SMs
  /\ Words \subseteq Word
  /\ \A setup \in Setups : Echoes(setup)
  /\ LeavesEcho

\* The word between the FIFOs.  The low half leaves the OSR first, and enters
\* the ISR first, from the top.
InFlight ==
  LET s == sm[Me]
      inHand == s.pc = 1 /\ ~s.stalled               \* a half is in X
      rest == ShiftLeft(s.osr, 16)
  IN  CASE s.isr_count = 32 -> <<s.isr>>
        [] s.isr_count = 16 /\ inHand ->
             <<ShiftRight(s.isr, 16) \cup ShiftLeft(s.x, 16)>>
        [] s.isr_count = 16 /\ ~inHand -> <<ShiftRight(s.isr, 16) \cup rest>>
        [] s.isr_count = 0 /\ inHand -> <<s.x \cup rest>>
        [] s.isr_count = 0 /\ ~inHand -> <<>>

Channel == INSTANCE EpioChannel WITH
             Message <- Words, Capacity <- 2 * FifoDepth + 1,
             queue <- sm[Me].rx \o InFlight \o sm[Me].tx

\* The echoing state machine implements the channel: whatever the host's
\* pushes, pops, disables and enables, what it pops is what it pushed, each word
\* once, whole and in order (autopull in OC_OUT, autopush in OC_IN, the FIFOs).
EchoIsChannel == Channel!Spec

\* If the emulator is stepped and the machine is left enabled, a word anywhere
\* on its way makes a word appear in the RX FIFO: the stall of an autopull on an
\* empty TX FIFO ends with the next word and leaves nothing behind.
EchoFlows ==
  <>[](sm[Me].enabled) =>
    (InFlight \o sm[Me].tx # <<>> ~> sm[Me].rx # <<>>)
=============================================================================
