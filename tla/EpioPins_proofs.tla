--------------------------- MODULE EpioPins_proofs ---------------------------
(***************************************************************************)
(* The invariants of the GPIO pins, for any number of pins and blocks.     *)
(***************************************************************************)
EXTENDS EpioPins, TLAPS

-----------------------------------------------------------------------------
(* The writes of the instructions and the calls of the host keep every mask *)
(* within the pins of the chip.                                             *)

\* Turning pins to outputs and inputs keeps the type of the pins.
LEMMA RedirectedTyped ==
  ASSUME GpioTypeOK, NEW outs \in SUBSET Gpios, NEW ins \in SUBSET Gpios
  PROVE  Redirected(outs, ins) \in GpioState
BY DEF GpioTypeOK, GpioState, Redirected

\* So do the three ways in which an instruction writes pins.
LEMMA WritesTyped ==
  ASSUME GpioTypeOK, NEW b \in Blocks,
         NEW pins \in SUBSET Gpios, NEW ones \in SUBSET Gpios
  PROVE  /\ WritePins(b, pins, ones) \in GpioState
         /\ WriteDirs(b, pins, ones) \in GpioState
         /\ WriteOwnDirs(b, pins, ones) \in GpioState
BY DEF GpioTypeOK, GpioState, WritePins, WriteDirs, WriteOwnDirs, Redirected

\* So do the calls that play levels into the pins.
LEMMA PlaysTyped ==
  ASSUME GpioTypeOK, NEW pins \in SUBSET Gpios, HostPlays(pins)
  PROVE  gpio' \in GpioState
<1>1. gpio \in GpioState
  BY DEF GpioTypeOK
<1>2. ASSUME NEW p \in pins, NEW on \in BOOLEAN, SetInputLevel(p, on)
      PROVE  gpio' \in GpioState
  BY <1>1, <1>2 DEF SetInputLevel, ForcedLevels, GpioState
<1>3. ASSUME NEW driven \in SUBSET pins, NEW high \in SUBSET pins,
             DriveExt(driven, high)
      PROVE  gpio' \in GpioState
  BY <1>1, <1>3 DEF DriveExt, ForcedLevels, GpioState
<1> QED
  BY <1>2, <1>3 DEF HostPlays

\* A call that configures pins puts new sets of pins in the place of old ones.
LEMMA ConfiguredTyped ==
  ASSUME GpioTypeOK, NEW input \in SUBSET Gpios, NEW other \in SUBSET Gpios
  PROVE  /\ [gpio EXCEPT !.force_low = other, !.input = input] \in GpioState
         /\ [gpio EXCEPT !.force_high = other, !.input = input] \in GpioState
         /\ [gpio EXCEPT !.inverted = other] \in GpioState
         /\ [gpio EXCEPT !.output = other] \in GpioState
BY DEF GpioTypeOK, GpioState

\* So does every other call of the host.
LEMMA ConfiguresTyped ==
  ASSUME GpioTypeOK, NEW pins \in SUBSET Gpios, HostConfigures(pins)
  PROVE  gpio' \in GpioState
<1>1. gpio \in GpioState
  BY DEF GpioTypeOK
<1>2. \A p \in Gpios, on \in BOOLEAN, ps \in SUBSET Gpios :
        With(ps, p, on) \in SUBSET Gpios
  BY DEF With
<1>3. PICK p \in pins :
        \/ SetGpioOutput(p)
        \/ SetGpioInput(p)
        \/ \E b \in Blocks : SetOutputControl(p, b) \/ ClearOutputControl(p, b)
        \/ \E on \in BOOLEAN :
             \/ SetForceInputLow(p, on)
             \/ SetForceInputHigh(p, on)
             \/ SetInputInverted(p, on)
             \/ SetOutputLevel(p, on)
  BY DEF HostConfigures
<1>4. CASE SetGpioOutput(p) \/ SetGpioInput(p)
  <2>1. \E outs, ins \in SUBSET Gpios : gpio' = Redirected(outs, ins)
    BY <1>4 DEF SetGpioOutput, SetGpioInput
  <2> QED
    BY <2>1, RedirectedTyped
<1>5. ASSUME NEW b \in Blocks, SetOutputControl(p, b) \/ ClearOutputControl(p, b)
      PROVE  gpio' \in GpioState
  BY <1>1, <1>5 DEF SetOutputControl, ClearOutputControl, GpioState
<1>6. ASSUME NEW on \in BOOLEAN, SetForceInputLow(p, on)
      PROVE  gpio' \in GpioState
  <2>1. With(gpio.force_low, p, on) \in SUBSET Gpios
    BY <1>1, <1>2 DEF GpioState
  <2>2. With(gpio.input, p, ~on) \in SUBSET Gpios
    BY <1>1 DEF GpioState, With
  <2> QED
    BY <1>6, <2>1, <2>2, ConfiguredTyped DEF SetForceInputLow
<1>7. ASSUME NEW on \in BOOLEAN, SetForceInputHigh(p, on)
      PROVE  gpio' \in GpioState
  <2>1. With(gpio.force_high, p, on) \in SUBSET Gpios
    BY <1>1, <1>2 DEF GpioState
  <2>2. With(gpio.input, p, TRUE) \in SUBSET Gpios
    BY <1>1, <1>2 DEF GpioState
  <2> QED
    BY <1>7, <2>1, <2>2, ConfiguredTyped DEF SetForceInputHigh
<1>8. ASSUME NEW on \in BOOLEAN, SetInputInverted(p, on)
      PROVE  gpio' \in GpioState
  <2>1. With(gpio.inverted, p, on) \in SUBSET Gpios
    BY <1>1, <1>2 DEF GpioState
  <2> QED
    BY <1>8, <2>1, ConfiguredTyped DEF SetInputInverted
<1>9. ASSUME NEW on \in BOOLEAN, SetOutputLevel(p, on)
      PROVE  gpio' \in GpioState
  <2>1. With(gpio.output, p, on) \in SUBSET Gpios
    BY <1>1, <1>2 DEF GpioState
  <2> QED
    BY <1>9, <2>1, ConfiguredTyped DEF SetOutputLevel
<1> QED
  BY <1>3, <1>4, <1>5, <1>6, <1>7, <1>8, <1>9

\* epio_init_gpios makes a well-typed state.
LEMMA ResetTyped == GpioReset \in GpioState
BY DEF GpioReset, GpioState

-----------------------------------------------------------------------------
(* The invariants *)

\* The four invariants are inductive together.  ForcedHighReadsHigh needs
\* OneOverride: a pin forced high must be neither inverted nor forced low.
PinsInv ==
  /\ GpioTypeOK
  /\ OneController
  /\ OneOverride
  /\ ForcedHighReadsHigh

\* What decides the last three of them
Configuration(g) ==
  <<g.input, g.inverted, g.force_low, g.force_high, g.control>>

\* PinsInv is about the configuration and the levels of forced pins only.
LEMMA PinsInvOfConfiguration ==
  ASSUME PinsInv, GpioTypeOK', Configuration(gpio') = Configuration(gpio)
  PROVE  PinsInv'
BY DEF PinsInv, OneController, OneOverride, ForcedHighReadsHigh, Input,
       Configuration

\* An instruction leaves a GpioState in which only levels and directions differ.
LEMMA BlockWritesKeepPinsInv ==
  ASSUME PinsInv, NEW b \in Blocks, BlockWrites(b)
  PROVE  PinsInv'
<1>1. PICK pins \in SUBSET Gpios, ones \in SUBSET Gpios :
        \/ gpio' = WritePins(b, pins, ones)
        \/ gpio' = WriteDirs(b, pins, ones)
        \/ gpio' = WriteOwnDirs(b, pins, ones)
  BY DEF BlockWrites
<1>2. gpio \in GpioState
  BY DEF PinsInv, GpioTypeOK
<1>3. gpio' \in GpioState
  BY <1>1, <1>2, WritesTyped DEF GpioTypeOK
<1>4. Configuration(gpio') = Configuration(gpio)
  BY <1>1, <1>2 DEF GpioState, WritePins, WriteDirs, WriteOwnDirs, Redirected,
                    Configuration
<1> QED
  BY <1>3, <1>4, PinsInvOfConfiguration DEF GpioTypeOK

\* The calls that play levels write only what ForcedLevels lets through.
LEMMA PlaysKeepPinsInv ==
  ASSUME PinsInv, HostPlays(Gpios)
  PROVE  PinsInv'
<1>1. gpio \in GpioState
  BY DEF PinsInv, GpioTypeOK
<1>2. PICK input \in SUBSET Gpios, driven \in SUBSET Gpios :
        /\ gpio.force_high \subseteq input
        /\ gpio' = [gpio EXCEPT !.input = input, !.ext_driven = driven]
  <2>1. ASSUME NEW p \in Gpios, NEW on \in BOOLEAN, SetInputLevel(p, on)
        PROVE  \E input, driven \in SUBSET Gpios :
                 /\ gpio.force_high \subseteq input
                 /\ gpio' = [gpio EXCEPT !.input = input, !.ext_driven = driven]
    <3> DEFINE input == (gpio.input \ {p})
                          \cup ForcedLevels({p}, IF on THEN {p} ELSE {})
    <3>1. gpio.force_high \subseteq gpio.input
      BY <1>1 DEF PinsInv, ForcedHighReadsHigh, OneOverride, Input, GpioState
    <3>2. input \in SUBSET Gpios /\ gpio.force_high \subseteq input
      BY <1>1, <3>1 DEF ForcedLevels, GpioState
    <3>3. gpio' = [gpio EXCEPT !.input = input, !.ext_driven = gpio.ext_driven]
      BY <1>1, <2>1 DEF SetInputLevel, GpioState
    <3> QED
      BY <1>1, <3>2, <3>3 DEF GpioState
  <2>2. ASSUME NEW driven \in SUBSET Gpios, NEW high \in SUBSET Gpios,
               DriveExt(driven, high)
        PROVE  \E input, ext \in SUBSET Gpios :
                 /\ gpio.force_high \subseteq input
                 /\ gpio' = [gpio EXCEPT !.input = input, !.ext_driven = ext]
    <3> DEFINE input ==
          ForcedLevels(Gpios, (high \cap driven) \cup (Gpios \ driven))
    <3>1. input \in SUBSET Gpios /\ gpio.force_high \subseteq input
      BY <1>1 DEF ForcedLevels, GpioState
    <3> QED
      BY <2>2, <3>1 DEF DriveExt
  <2> QED
    BY <2>1, <2>2 DEF HostPlays
<1>3. gpio' \in GpioState
  BY <1>1, <1>2 DEF GpioState
<1> QED
  BY <1>1, <1>2, <1>3 DEF PinsInv, GpioTypeOK, GpioState, OneController,
     OneOverride, ForcedHighReadsHigh, Input

\* Directions and output levels are no part of PinsInv.
LEMMA RedirectedKeeps ==
  ASSUME GpioTypeOK, NEW outs \in SUBSET Gpios, NEW ins \in SUBSET Gpios
  PROVE  Configuration(Redirected(outs, ins)) = Configuration(gpio)
BY DEF GpioTypeOK, GpioState, Redirected, Configuration

\* The pairwise assertions of the configuring calls are what keeps the overrides
\* and the controllers exclusive.
LEMMA ConfiguresKeepPinsInv ==
  ASSUME PinsInv, HostConfigures(Gpios)
  PROVE  PinsInv'
<1>1. gpio \in GpioState
  BY DEF PinsInv, GpioTypeOK
<1>2. ASSUME NEW p \in Gpios, SetGpioOutput(p) \/ SetGpioInput(p)
      PROVE  PinsInv'
  <2>1. PICK outs \in SUBSET Gpios, ins \in SUBSET Gpios :
          gpio' = Redirected(outs, ins)
    BY <1>2 DEF SetGpioOutput, SetGpioInput
  <2> QED
    BY <1>1, <2>1, RedirectedTyped, RedirectedKeeps, PinsInvOfConfiguration
    DEF GpioTypeOK
<1>3. ASSUME NEW p \in Gpios, NEW on \in BOOLEAN, SetForceInputLow(p, on)
      PROVE  PinsInv'
  <2>1. CASE on
    <3>1. p \notin gpio.force_high \cup gpio.inverted
      BY <1>3, <2>1 DEF SetForceInputLow
    <3>2. gpio' = [gpio EXCEPT !.force_low = @ \cup {p}, !.input = @ \ {p}]
      BY <1>3, <2>1 DEF SetForceInputLow, With
    <3>3. gpio' \in GpioState
      BY <1>1, <3>2, ConfiguredTyped DEF GpioTypeOK, GpioState
    <3> QED
      BY <1>1, <3>1, <3>2, <3>3
      DEF PinsInv, GpioTypeOK, GpioState, OneController, OneOverride,
          ForcedHighReadsHigh, Input
  <2>2. CASE ~on
    <3>1. gpio' = [gpio EXCEPT !.force_low = @ \ {p}, !.input = @ \cup {p}]
      BY <1>3, <2>2 DEF SetForceInputLow, With
    <3>2. gpio' \in GpioState
      BY <1>1, <3>1, ConfiguredTyped DEF GpioTypeOK, GpioState
    <3> QED
      BY <1>1, <3>1, <3>2
      DEF PinsInv, GpioTypeOK, GpioState, OneController, OneOverride,
          ForcedHighReadsHigh, Input
  <2> QED
    BY <2>1, <2>2
<1>4. ASSUME NEW p \in Gpios, NEW on \in BOOLEAN, SetForceInputHigh(p, on)
      PROVE  PinsInv'
  <2>1. CASE on
    <3>1. p \notin gpio.force_low \cup gpio.inverted
      BY <1>4, <2>1 DEF SetForceInputHigh
    <3>2. gpio' = [gpio EXCEPT !.force_high = @ \cup {p}, !.input = @ \cup {p}]
      BY <1>4, <2>1 DEF SetForceInputHigh, With
    <3>3. gpio' \in GpioState
      BY <1>1, <3>2, ConfiguredTyped DEF GpioTypeOK, GpioState
    <3> QED
      BY <1>1, <3>1, <3>2, <3>3
      DEF PinsInv, GpioTypeOK, GpioState, OneController, OneOverride,
          ForcedHighReadsHigh, Input
  <2>2. CASE ~on
    <3>1. gpio' = [gpio EXCEPT !.force_high = @ \ {p}, !.input = @ \cup {p}]
      BY <1>4, <2>2 DEF SetForceInputHigh, With
    <3>2. gpio' \in GpioState
      BY <1>1, <3>1, ConfiguredTyped DEF GpioTypeOK, GpioState
    <3> QED
      BY <1>1, <3>1, <3>2
      DEF PinsInv, GpioTypeOK, GpioState, OneController, OneOverride,
          ForcedHighReadsHigh, Input
  <2> QED
    BY <2>1, <2>2
<1>5. ASSUME NEW p \in Gpios, NEW on \in BOOLEAN, SetInputInverted(p, on)
      PROVE  PinsInv'
  <2>1. CASE on
    <3>1. p \notin gpio.force_low \cup gpio.force_high
      BY <1>5, <2>1 DEF SetInputInverted
    <3>2. gpio' = [gpio EXCEPT !.inverted = @ \cup {p}]
      BY <1>5, <2>1 DEF SetInputInverted, With
    <3>3. gpio' \in GpioState
      BY <1>1, <3>2, ConfiguredTyped DEF GpioTypeOK, GpioState
    <3> QED
      BY <1>1, <3>1, <3>2, <3>3
      DEF PinsInv, GpioTypeOK, GpioState, OneController, OneOverride,
          ForcedHighReadsHigh, Input
  <2>2. CASE ~on
    <3>1. gpio' = [gpio EXCEPT !.inverted = @ \ {p}]
      BY <1>5, <2>2 DEF SetInputInverted, With
    <3>2. gpio' \in GpioState
      BY <1>1, <3>1, ConfiguredTyped DEF GpioTypeOK, GpioState
    <3> QED
      BY <1>1, <3>1, <3>2
      DEF PinsInv, GpioTypeOK, GpioState, OneController, OneOverride,
          ForcedHighReadsHigh, Input
  <2> QED
    BY <2>1, <2>2
<1>6. ASSUME NEW p \in Gpios, NEW on \in BOOLEAN, SetOutputLevel(p, on)
      PROVE  PinsInv'
  <2>1. With(gpio.output, p, on) \in SUBSET Gpios
    BY <1>1 DEF GpioState, With
  <2>2. gpio' \in GpioState
    BY <1>1, <1>6, <2>1, ConfiguredTyped DEF SetOutputLevel, GpioTypeOK
  <2>3. Configuration(gpio') = Configuration(gpio)
    BY <1>1, <1>6 DEF SetOutputLevel, Configuration, GpioState
  <2> QED
    BY <2>2, <2>3, PinsInvOfConfiguration DEF GpioTypeOK
<1>7. ASSUME NEW p \in Gpios, NEW b \in Blocks, SetOutputControl(p, b)
      PROVE  PinsInv'
  BY <1>1, <1>7 DEF PinsInv, GpioTypeOK, GpioState, OneController, OneOverride,
     ForcedHighReadsHigh, Input, SetOutputControl
<1>8. ASSUME NEW p \in Gpios, NEW b \in Blocks, ClearOutputControl(p, b)
      PROVE  PinsInv'
  BY <1>1, <1>8 DEF PinsInv, GpioTypeOK, GpioState, OneController, OneOverride,
     ForcedHighReadsHigh, Input, ClearOutputControl
<1> QED
  BY <1>2, <1>3, <1>4, <1>5, <1>6, <1>7, <1>8 DEF HostConfigures

\* epio_init_gpios establishes PinsInv.
LEMMA InitPinsInv == gpio = GpioReset => PinsInv
BY DEF GpioReset, PinsInv, GpioTypeOK, GpioState, OneController, OneOverride,
       ForcedHighReadsHigh, Input

\* Every step of the pins keeps the invariants.
LEMMA PinsStepKeepsInv ==
  ASSUME PinsInv, [PinsNext]_gpio
  PROVE  PinsInv'
<1>1. CASE HostPlays(Gpios)
  BY <1>1, PlaysKeepPinsInv
<1>2. CASE HostConfigures(Gpios)
  BY <1>2, ConfiguresKeepPinsInv
<1>3. CASE ResetGpios
  <2>1. (gpio = GpioReset => PinsInv)'
    BY InitPinsInv, PTL
  <2> QED
    BY <1>3, <2>1 DEF ResetGpios, GpioReset
<1>4. ASSUME NEW b \in Blocks, BlockWrites(b) PROVE PinsInv'
  BY <1>4, BlockWritesKeepPinsInv
<1>5. CASE UNCHANGED gpio
  BY <1>5, PinsInvOfConfiguration DEF PinsInv, GpioTypeOK
<1> QED
  BY <1>1, <1>2, <1>3, <1>4, <1>5 DEF PinsNext

\* The pins' inductive invariant.
THEOREM PinsInvariant == PinsSpec => []PinsInv
<1>1. PinsInit => PinsInv
  BY InitPinsInv DEF PinsInit
<1>2. PinsInv /\ [PinsNext]_gpio => PinsInv'
  BY PinsStepKeepsInv
<1> QED
  BY <1>1, <1>2, PTL DEF PinsSpec

\* The type invariant: a mask never has a bit beyond the pins of the chip.
THEOREM PinsTyped == PinsSpec => []GpioTypeOK
BY PinsInvariant, PTL DEF PinsInv

\* epio_set_gpio_output_control never lets two blocks control one pin.
THEOREM OneControllerAlways == PinsSpec => []OneController
BY PinsInvariant, PTL DEF PinsInv

\* The assertions of the three overriding calls exclude every pair of overrides,
\* in every order of the calls.
THEOREM OneOverrideAlways == PinsSpec => []OneOverride
BY PinsInvariant, PTL DEF PinsInv

\* A pin forced high reads high (epio_drive_gpios_ext and the other writers of
\* gpio.input apply force_high last).
THEOREM ForcedHighAlways == PinsSpec => []ForcedHighReadsHigh
BY PinsInvariant, PTL DEF PinsInv

-----------------------------------------------------------------------------
\* No step but the release of the other force raises the level under a pin that
\* stays forced low.
LEMMA OnlyReleaseRaises ==
  ASSUME GpioTypeOK, OneOverride, OneOverride', PinsNext,
         NEW p \in gpio.force_low \cap gpio'.force_low,
         p \notin gpio.input, p \in gpio'.input
  PROVE  SetForceInputHigh(p, FALSE)
<1>1. gpio \in GpioState
  BY DEF GpioTypeOK
<1>2. p \in Gpios /\ p \notin gpio.force_high
  BY <1>1 DEF GpioState, OneOverride
<1>3. CASE HostPlays(Gpios)
  BY <1>1, <1>2, <1>3 DEF HostPlays, SetInputLevel, DriveExt, ForcedLevels,
     GpioState
<1>4. ASSUME NEW b \in Blocks, BlockWrites(b) PROVE FALSE
  BY <1>1, <1>4 DEF BlockWrites, WritePins, WriteDirs, WriteOwnDirs, Redirected,
     GpioState
<1>5. CASE ResetGpios
  BY <1>5 DEF ResetGpios, GpioReset
<1>6. CASE HostConfigures(Gpios)
  <2>1. PICK q \in Gpios :
          \/ SetGpioOutput(q)
          \/ SetGpioInput(q)
          \/ \E b \in Blocks : SetOutputControl(q, b) \/ ClearOutputControl(q, b)
          \/ \E on \in BOOLEAN :
               \/ SetForceInputLow(q, on)
               \/ SetForceInputHigh(q, on)
               \/ SetInputInverted(q, on)
               \/ SetOutputLevel(q, on)
    BY <1>6 DEF HostConfigures
  <2>2. CASE SetForceInputLow(q, TRUE)
    BY <1>1, <2>2 DEF SetForceInputLow, With, GpioState
  <2>3. CASE SetForceInputLow(q, FALSE)
    BY <1>1, <2>3 DEF SetForceInputLow, With, GpioState
  <2>4. CASE SetForceInputHigh(q, TRUE)
    BY <1>1, <2>4 DEF SetForceInputHigh, With, GpioState
  <2>5. CASE SetForceInputHigh(q, FALSE)
    BY <1>1, <2>5 DEF SetForceInputHigh, With, GpioState
  <2>6. gpio'.input # gpio.input
    OBVIOUS
  <2>7. ~(SetGpioOutput(q) \/ SetGpioInput(q))
    BY <1>1, <2>6 DEF SetGpioOutput, SetGpioInput, Redirected, GpioState
  <2>8. ~ \E b \in Blocks : SetOutputControl(q, b) \/ ClearOutputControl(q, b)
    BY <1>1, <2>6 DEF SetOutputControl, ClearOutputControl, GpioState
  <2>9. ~ \E on \in BOOLEAN : SetInputInverted(q, on) \/ SetOutputLevel(q, on)
    BY <1>1, <2>6 DEF SetInputInverted, SetOutputLevel, GpioState
  <2> QED
    BY <2>1, <2>2, <2>3, <2>4, <2>5, <2>7, <2>8, <2>9
<1> QED
  BY <1>3, <1>4, <1>5, <1>6 DEF PinsNext

\* A pin forced low keeps reading low but for that one call.
LEMMA StepForcedLow ==
  ASSUME PinsInv, PinsInv', PinsNext, NEW p \in gpio.force_low \cap gpio'.force_low,
         ~Input(p), Input(p)'
  PROVE  SetForceInputHigh(p, FALSE)
<1>1. p \notin gpio.input /\ p \in gpio'.input
  BY DEF PinsInv, OneOverride, Input
<1> QED
  BY <1>1, OnlyReleaseRaises DEF PinsInv

\* Whatever is called and written, in any order, a pin forced low reads low until the
\* other force is released on it.
THEOREM ForcedLowStays == PinsSpec => ForcedLowHolds
<1> DEFINE Holds ==
      \A p \in gpio.force_low \cap gpio'.force_low :
        ~Input(p) /\ Input(p)' => SetForceInputHigh(p, FALSE)
<1>1. PinsInv /\ PinsInv' /\ [PinsNext]_gpio => [Holds]_gpio
  BY StepForcedLow
<1> QED
  BY <1>1, PinsInvariant, PTL DEF PinsSpec, ForcedLowHolds
=============================================================================
