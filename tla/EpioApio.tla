------------------------------ MODULE EpioApio ------------------------------
(***************************************************************************)
(* epio_from_apio: the emulator configured from what the apio macros have  *)
(* recorded.  Nothing else happens until it returns.  boot is the position *)
(* of its loop over the blocks and their state machines.                   *)
(*                                                                         *)
(* For each block it sets GPIOBASE and the memory; for each machine it     *)
(* sets the registers, pushes the recorded FIFO words, executes the        *)
(* recorded instructions at once (a JMP to the start is one of them) and   *)
(* enables it; the pins are configured last.                               *)
(***************************************************************************)
EXTENDS EpioExec

CONSTANTS Apio,              \* what is recorded, see ApioRecord
          MaxPreInstrs       \* MAX_PRE_INSTRS of apio

VARIABLE boot

bootVars == <<vars, boot>>

\* The recorded state of a machine, with its registers and words as machine words
SmRecord ==
  [first : Indexes, start : Indexes, end : Indexes,
   execctrl : Word, shiftctrl : Word, pinctrl : Word,
   tx : Seq(Word), rx : Seq(Word), pre : Seq(Word), enabled : BOOLEAN]

\* _apio_emulated_pio and _apio_emulated_gpios; output_block is NoBlock for a pin
\* that no block controls
NoBlock == -1

ApioRecord ==
  [gpio_base : [Blocks -> Nat], instr : [Blocks -> Seq(Word)],
   sms : [SMs -> SmRecord], inverted : SUBSET Gpios,
   force_low : SUBSET Gpios, force_high : SUBSET Gpios,
   output_block : [Gpios -> Blocks \cup {NoBlock}]]

ASSUME ApioAssumption ==
  /\ MaxPreInstrs \in Nat
  /\ DOMAIN Apio = {"gpio_base", "instr", "sms", "inverted", "force_low",
                    "force_high", "output_block"}
  /\ \A b \in Blocks : Apio.gpio_base[b] \in Nat /\ Apio.instr[b] \in Seq(Word)
  /\ \A m \in SMs : Apio.sms[m] \in SmRecord
  /\ Apio.inverted \subseteq Gpios
  /\ Apio.force_low \subseteq Gpios /\ Apio.force_high \subseteq Gpios
  /\ Apio.output_block \in [Gpios -> Blocks \cup {NoBlock}]

At(at, m, k) == [at |-> at, m |-> m, k |-> k]

BootState ==
  [at : {"block", "sm", "pre", "pins", "done"}, m : SMs, k : Nat]

-----------------------------------------------------------------------------
(* The registers, as the macros of epio_priv.h take them apart *)

BugThreshold(n) == n

\* _THRESH_CONVERT
Threshold(n) == IF n = 0 THEN 32 ELSE n

RegOf(execctrl, shiftctrl, pinctrl) ==
  [jmp_pin |-> Field(execctrl, 24, 5),
   status_sel |-> Field(execctrl, 5, 2), status_n |-> Field(execctrl, 0, 5),
   wrap_top |-> Field(execctrl, 12, 5), wrap_bottom |-> Field(execctrl, 7, 5),
   autopull |-> 17 \in shiftctrl, autopush |-> 16 \in shiftctrl,
   in_right |-> 18 \in shiftctrl, out_right |-> 19 \in shiftctrl,
   push_thresh |-> Threshold(Field(shiftctrl, 20, 5)),
   pull_thresh |-> Threshold(Field(shiftctrl, 25, 5)),
   in_base |-> Field(pinctrl, 15, 5), in_count |-> Field(shiftctrl, 0, 5),
   out_base |-> Field(pinctrl, 0, 5), out_count |-> Field(pinctrl, 20, 5),
   set_base |-> Field(pinctrl, 5, 5), set_count |-> Field(pinctrl, 26, 5)]

\* epio_init: calloc's zeroes in the memory and in the registers
Fresh ==
  [program |-> [b \in Blocks |-> [a \in Addrs |-> Decode({})]],
   config |-> [m \in SMs |-> RegOf({}, {}, {})],
   enabled |-> {}, start |-> [m \in SMs |-> 0],
   base |-> [b \in Blocks |-> 0], control |-> [b \in Blocks |-> {}]]

BootInit == InitFrom(Fresh) /\ boot = At("block", <<0, 0>>, 0)

-----------------------------------------------------------------------------
(* The steps of epio_from_apio.  An assertion that fails ends the program.  *)

LoadBlock(b) ==
  /\ boot = At("block", <<b, 0>>, 0)
  /\ Apio.gpio_base[b] \in Bases
  /\ Len(Apio.instr[b]) <= NumInstrs
  /\ base' = [base EXCEPT ![b] = Apio.gpio_base[b]]
  /\ instr' = [instr EXCEPT ![b] =
                 [a \in Addrs |-> IF a < Len(Apio.instr[b])
                                  THEN Decode(Apio.instr[b][a + 1]) ELSE @[a]]]
  /\ boot' = At("sm", <<b, 0>>, 0)
  /\ UNCHANGED <<reg, sm, irq, gpio, turn>>

BugLastFirst(q) == q

LastFirst(q) == [k \in DOMAIN q |-> q[Len(q) + 1 - k]]

\* Debug information, registers and FIFOs; the words are pushed last to first
LoadSm(m) ==
  LET a == Apio.sms[m]
  IN  /\ boot = At("sm", m, 0)
      /\ a.start <= MaxPreInstrs
      /\ a.first <= a.start /\ a.start <= a.end
      /\ Len(a.tx) <= FifoDepth /\ Len(a.rx) <= FifoDepth
      /\ Len(a.pre) <= MaxPreInstrs
      /\ reg' = [reg EXCEPT ![m] = RegOf(a.execctrl, a.shiftctrl, a.pinctrl)]
      /\ sm' = [sm EXCEPT ![m].tx = @ \o LastFirst(a.tx),
                          ![m].rx = @ \o LastFirst(a.rx)]
      /\ boot' = At("pre", m, 1)
      /\ UNCHANGED <<instr, base, irq, gpio, turn>>

PreInstr(m) ==
  /\ boot.at = "pre" /\ boot.m = m /\ boot.k \in DOMAIN Apio.sms[m].pre
  /\ Execute(m, Decode(Apio.sms[m].pre[boot.k]), FALSE)
  /\ boot' = [boot EXCEPT !.k = @ + 1]
  /\ UNCHANGED <<instr, base, reg, turn>>

\* Where the loop goes after machine m
AfterSm(m) ==
  IF m[2] < NumSms - 1 THEN At("sm", <<m[1], m[2] + 1>>, 0)
  ELSE IF m[1] < NumBlocks - 1 THEN At("block", <<m[1] + 1, 0>>, 0)
  ELSE At("pins", m, 0)

EnableSm(m) ==
  /\ boot.at = "pre" /\ boot.m = m /\ boot.k > Len(Apio.sms[m].pre)
  /\ sm' = [sm EXCEPT ![m].enabled = @ \/ Apio.sms[m].enabled]
  /\ boot' = AfterSm(m)
  /\ UNCHANGED <<instr, base, reg, irq, gpio, turn>>

\* Pin by pin inversion, forces and output control: the loop ends the program if
\* two overrides are recorded for one pin
ConfigurePins ==
  /\ boot.at = "pins"
  /\ Apio.inverted \cap (Apio.force_low \cup Apio.force_high) = {}
  /\ Apio.force_low \cap Apio.force_high = {}
  /\ gpio' = [gpio EXCEPT
                !.inverted = Apio.inverted,
                !.force_low = @ \cup Apio.force_low,
                !.force_high = @ \cup Apio.force_high,
                !.input = (@ \ Apio.force_low) \cup Apio.force_high,
                !.control = [b \in Blocks |->
                   @[b] \cup {p \in Gpios : Apio.output_block[p] = b}]]
  /\ boot' = [boot EXCEPT !.at = "done"]
  /\ UNCHANGED <<instr, base, reg, sm, irq, turn>>

FromApio ==
  \/ \E b \in Blocks : LoadBlock(b)
  \/ \E m \in SMs : LoadSm(m) \/ PreInstr(m) \/ EnableSm(m)
  \/ ConfigurePins

Booted == boot.at = "done"

\* Output control is given after the instructions are executed: nothing that was
\* recorded before the machines run can drive a pin or move a level
\* (epio_from_apio gives it last).
BootLeavesPins == boot.at # "done" => gpio = GpioReset

\* A machine finds the words recorded for it in the order "last to first" (the
\* comment in epio_from_apio), and none is lost or disturbed by the instructions
\* that are executed meanwhile: what they leave in a TX FIFO are the words that
\* were recorded first, the first of them last, and what they put into an RX FIFO
\* comes after the words recorded for it.
PreloadsInOrder ==
  boot.at = "pins" =>
    \A m \in SMs :
      LET tx == sm[m].tx
          rx == sm[m].rx
          a == Apio.sms[m]
      IN  /\ Len(tx) <= Len(a.tx)
          /\ \A k \in 1 .. Len(tx) : tx[k] = a.tx[Len(tx) + 1 - k]
          /\ Len(rx) >= Len(a.rx)
          /\ \A k \in 1 .. Len(a.rx) : rx[k] = a.rx[Len(a.rx) + 1 - k]
=============================================================================
