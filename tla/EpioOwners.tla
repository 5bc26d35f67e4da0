----------------------------- MODULE EpioOwners -----------------------------
(***************************************************************************)
(* The pins of a chip whose blocks run programs: what the blocks do to     *)
(* them, and to the pins of each other.                                    *)
(***************************************************************************)
EXTENDS EpioExec, EpioPins

\* The pins whose levels or directions instruction i of machine m writes
PinsOf(m, i) ==
  LET r == reg[m]
  IN  IF i.op \notin {"SET", "OUT", "MOV"} \/ i.dst \notin {"PINS", "PINDIRS"} THEN {}
      ELSE IF i.op = "SET" THEN PinsAt(m, r.set_base, 0 .. r.set_count - 1)
      ELSE LET n == IF i.op = "OUT" THEN i.count ELSE r.out_count
           IN  PinsAt(m, r.out_base, 0 .. n - 1)

\* All that a machine can do to a pin its block does not control is to turn it into an
\* input and pull it up, and only by an OUT or MOV PINDIRS in whose window the pin
\* is, whatever the width of the write (epio_block_can_control_gpio_output, which
\* these two do not ask on the way to input).
OwnerWrites ==
  [][\A m \in SMs : turn = m /\ turn' # m =>
       \A p \in Gpios \ gpio.control[m[1]] :
         \/ /\ p \in gpio'.output <=> p \in gpio.output
            /\ p \in gpio'.dir <=> p \in gpio.dir
         \/ /\ p \in gpio'.output \ gpio'.dir
            /\ \E i \in Current(m) : /\ i.op \in {"OUT", "MOV"} /\ i.dst = "PINDIRS"
                                     /\ p \in PinsOf(m, i)]_vars

\* The controllers the chip is configured with differ from pin to pin
DisjointControl ==
  \A setup \in Setups : \A b, c \in Blocks :
    b # c => setup.control[b] \cap setup.control[c] = {}
=============================================================================
