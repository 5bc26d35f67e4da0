------------------------------ MODULE EpioGpio ------------------------------
(***************************************************************************)
(* The GPIO pins: what is driven into them from outside (input), what the  *)
(* PIO blocks drive out of them (output, dir), the per-pin configuration   *)
(* (inverted, force_low, force_high) and which block may drive which pin   *)
(* (control).  A uint64_t mask is the set of its pins.                     *)
(*                                                                         *)
(* A host call whose assertion would fail is an action that is not         *)
(* enabled: the assertion ends the program.  For the definitions named     *)
(* Bug... see EpioExec.                                                    *)
(***************************************************************************)
EXTENDS EpioChip

CONSTANT NumGpios            \* 48 in the code

ASSUME GpioAssumption == NumGpios \in Nat /\ NumGpios >= 1

VARIABLE gpio

Gpios == 0 .. NumGpios - 1

GpioState ==
  [input : SUBSET Gpios, output : SUBSET Gpios, dir : SUBSET Gpios,
   ext_driven : SUBSET Gpios, inverted : SUBSET Gpios,
   force_low : SUBSET Gpios, force_high : SUBSET Gpios,
   control : [Blocks -> SUBSET Gpios]]

GpioTypeOK == gpio \in GpioState

\* Every pin an input, pulled up
GpioReset ==
  [input |-> Gpios, output |-> Gpios, dir |-> {}, ext_driven |-> {},
   inverted |-> {}, force_low |-> {}, force_high |-> {},
   control |-> [b \in Blocks |-> {}]]

BugWith(pins, p, on) == IF on THEN pins \cup {p + 1} ELSE pins \ {p + 1}

With(pins, p, on) == IF on THEN pins \cup {p} ELSE pins \ {p}

-----------------------------------------------------------------------------
(* Reading pins *)

\* epio_get_gpio_input: what the instructions see
Input(p) == (p \in gpio.input) # (p \in gpio.inverted)

\* epio_read_pin_states: what an observer of the chip sees
PinStates ==
  LET raw == (gpio.output \cap gpio.dir) \cup (gpio.input \ gpio.dir)
  IN  (raw \ gpio.inverted) \cup (gpio.inverted \ raw)

\* epio_read_driven_pins
DrivenPins == gpio.ext_driven \cup gpio.dir

-----------------------------------------------------------------------------
(* What the instructions write: pins is the set of pins written, high (outs) *)
(* the ones written with a 1.  The pins of one instruction are distinct, so  *)
(* the loop over them is one assignment.                                     *)

BugWritePins(b, pins, high) ==
  [gpio EXCEPT !.output = (@ \ pins) \cup (high \cap pins)]

\* OUT, MOV and SET PINS: only the pins the block controls
WritePins(b, pins, high) ==
  LET own == pins \cap gpio.control[b]
  IN  [gpio EXCEPT !.output = (@ \ own) \cup (high \cap own)]

\* epio_set_gpio_output on outs and epio_set_gpio_input on ins
Redirected(outs, ins) ==
  [gpio EXCEPT !.dir = (@ \ ins) \cup outs, !.output = @ \cup ins]

\* OUT and MOV PINDIRS: turning a pin to output is guarded by control, turning
\* it to input is not
WriteDirs(b, pins, outs) ==
  Redirected(outs \cap gpio.control[b], pins \ outs)

BugWriteOwnDirs(b, pins, outs) == Redirected(outs, pins \ outs)

\* SET PINDIRS: both are guarded
WriteOwnDirs(b, pins, outs) ==
  Redirected(outs \cap gpio.control[b], (pins \ outs) \cap gpio.control[b])

-----------------------------------------------------------------------------
(* Host calls *)

\* epio_init_gpios: control, inversion and forces are forgotten too
ResetGpios == gpio' = GpioReset

SetForceInputLow(p, on) ==
  /\ on => p \notin gpio.force_high \cup gpio.inverted
  /\ gpio' = [gpio EXCEPT !.force_low = With(@, p, on),
                          !.input = With(@, p, ~on)]

\* The level becomes high whether the pin is being forced or released
SetForceInputHigh(p, on) ==
  /\ on => p \notin gpio.force_low \cup gpio.inverted
  /\ gpio' = [gpio EXCEPT !.force_high = With(@, p, on),
                          !.input = With(@, p, TRUE)]

BugSetInputInverted(p, on) ==
  /\ on => p \notin gpio.force_low
  /\ gpio' = [gpio EXCEPT !.inverted = With(@, p, on)]

SetInputInverted(p, on) ==
  /\ on => p \notin gpio.force_low \cup gpio.force_high
  /\ gpio' = [gpio EXCEPT !.inverted = With(@, p, on)]

BugSetOutputControl(p, b) ==
  /\ p \notin gpio.control[b]
  /\ gpio' = [gpio EXCEPT !.control[b] = @ \cup {p}]

SetOutputControl(p, b) ==
  /\ \A c \in Blocks : p \notin gpio.control[c]
  /\ gpio' = [gpio EXCEPT !.control[b] = @ \cup {p}]

ClearOutputControl(p, b) ==
  gpio' = [gpio EXCEPT !.control[b] = @ \ {p}]

BugForcedLevelsHigh(pins, high) == (high \cap pins) \ gpio.force_low

BugForcedLevelsLow(pins, high) == (high \cap pins) \cup (pins \cap gpio.force_high)

\* The levels that reach the pins in set when the host asks for high on them:
\* a force overrides the host, and forced high has the last word
ForcedLevels(pins, high) ==
  ((high \cap pins) \ gpio.force_low) \cup (pins \cap gpio.force_high)

SetInputLevel(p, on) ==
  gpio' = [gpio EXCEPT
             !.input = (@ \ {p}) \cup ForcedLevels({p}, IF on THEN {p} ELSE {})]

\* Every pin is written: the ones not driven are pulled up
DriveExt(pins, high) ==
  gpio' = [gpio EXCEPT
             !.input = ForcedLevels(Gpios, (high \cap pins) \cup (Gpios \ pins)),
             !.ext_driven = pins]

SetGpioOutput(p) == gpio' = Redirected({p}, {})

SetGpioInput(p) == gpio' = Redirected({}, {p})

SetOutputLevel(p, on) == gpio' = [gpio EXCEPT !.output = With(@, p, on)]

\* The calls that only play levels into the pins
HostPlays(pins) ==
  \/ \E p \in pins, on \in BOOLEAN : SetInputLevel(p, on)
  \/ \E driven, high \in SUBSET pins : DriveExt(driven, high)

\* The calls that configure the pins or override what the blocks drive
HostConfigures(pins) ==
  \E p \in pins :
    \/ SetGpioOutput(p)
    \/ SetGpioInput(p)
    \/ \E b \in Blocks : SetOutputControl(p, b) \/ ClearOutputControl(p, b)
    \/ \E on \in BOOLEAN :
         \/ SetForceInputLow(p, on)
         \/ SetForceInputHigh(p, on)
         \/ SetInputInverted(p, on)
         \/ SetOutputLevel(p, on)
=============================================================================
