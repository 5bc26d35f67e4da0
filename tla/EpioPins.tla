------------------------------ MODULE EpioPins ------------------------------
(***************************************************************************)
(* The GPIO pins by themselves: every host call and every write a block    *)
(* may make, on any pins, in any order.                                    *)
(***************************************************************************)
EXTENDS EpioGpio

\* An instruction of block b writes some pins: levels, or directions
BlockWrites(b) ==
  \E pins \in SUBSET Gpios : \E ones \in SUBSET pins :
    \/ gpio' = WritePins(b, pins, ones)
    \/ gpio' = WriteDirs(b, pins, ones)
    \/ gpio' = WriteOwnDirs(b, pins, ones)

PinsInit == gpio = GpioReset

PinsNext ==
  \/ HostPlays(Gpios)
  \/ HostConfigures(Gpios)
  \/ ResetGpios
  \/ \E b \in Blocks : BlockWrites(b)

PinsSpec == PinsInit /\ [][PinsNext]_gpio

-----------------------------------------------------------------------------
\* No two blocks ever control one pin, so that two blocks never fight over it:
\* blocks are stepped one by one, and the last would silently win
\* (epio_set_gpio_output_control).
OneController ==
  \A b, c \in Blocks : b # c => gpio.control[b] \cap gpio.control[c] = {}

\* At most one override is configured on a pin, whatever the order of the calls:
\* the pairwise assertions of the three calls cover every order.
OneOverride ==
  /\ gpio.force_low \cap gpio.force_high = {}
  /\ gpio.force_low \cap gpio.inverted = {}
  /\ gpio.force_high \cap gpio.inverted = {}

\* A pin forced high reads high, through external drives, other forces set and
\* released, inversions and level changes.
ForcedHighReadsHigh == \A p \in gpio.force_high : Input(p)

\* A pin forced low keeps reading low whatever drives it, but for one call: the
\* release of the other force, which raises the level without looking.
ForcedLowHolds ==
  [][\A p \in gpio.force_low \cap gpio'.force_low :
       ~Input(p) /\ Input(p)' => SetForceInputHigh(p, FALSE)]_gpio

\* The documented promise of the same force, "to always read inputs as low".
ForcedLowReadsLow == \A p \in gpio.force_low : ~Input(p)
=============================================================================
