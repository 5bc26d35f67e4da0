------------------------------ MODULE EpioSync ------------------------------
(***************************************************************************)
(* Machines, also of different blocks, that share flags or pins.  They     *)
(* synchronise by IRQ flags in three ways.  In a ring, machines hand a     *)
(* token to each other: each waits for a flag of its own and later raises  *)
(* that of another.  In a handshake a producer offers items with IRQ WAIT, *)
(* and goes on when its consumer, which waits for the flag, has taken the  *)
(* item.  A pulser raises a flag in every cycle, and waits for nobody.     *)
(* What the machines do besides, and what the others do, is left open as   *)
(* long as it leaves the flags of a ring or a handshake alone.  Machines   *)
(* that write one pin in one cycle write it in their order.                *)
(***************************************************************************)
EXTENDS EpioStall, EpioOwners, FiniteSets

\* The addresses a machine of a setup runs round
Loop(setup, m) == setup.config[m].wrap_bottom .. setup.config[m].wrap_top

At(setup, m, a) == setup.program[m[1]][a]

\* Instruction i leads on to the next one or to one of addrs
KeepsTo(i, addrs) ==
  /\ ~HandsOver(i)
  /\ i.op = "JMP" => i.addr \in addrs
  /\ i.op \in {"OUT", "MOV"} => i.dst # "PC"

\* Every machine runs round its loop, whatever the host does
Looped ==
  /\ Host.regs = {} /\ Host.instrs = {} /\ Host.execs = {}
  /\ \A setup \in Setups, m \in SMs :
       /\ Loop(setup, m) \subseteq Addrs
       /\ setup.start[m] \in Loop(setup, m)
       /\ \A a \in Loop(setup, m) : KeepsTo(At(setup, m, a), Loop(setup, m))

\* The block and flag the instruction sets or clears, if any
Requests(m, i) ==
  IF \/ i.op = "IRQ"
     \/ i.op = "WAIT" /\ i.src = "IRQ" /\ i.polarity
  THEN {IrqTarget(m[1], m[2], i.index)}
  ELSE {}

\* It waits for flag t, and clears it
Takes(m, i, t) == i.op = "WAIT" /\ Requests(m, i) = {t}

\* It raises flag t, and waits until it is cleared
Offers(m, i, t) == i.op = "IRQ" /\ ~i.clr /\ i.wait /\ Requests(m, i) = {t}

\* The flag is up, or will be after this cycle
Raised(t) ==
  t[2] \in (irq[t[1]].flags \ irq[t[1]].to_clear) \cup irq[t[1]].to_set

-----------------------------------------------------------------------------
(* Rings.  The machines of ring n are those with number n, one in each      *)
(* block, and the ring's flags are the flags n.  Each machine waits for its *)
(* flag at wrap_bottom and at wrap_top raises that of its own block, the    *)
(* previous or the next.                                                    *)

\* It raises the flag with m's number, in m's block or a neighbour
Passes(m, i) ==
  /\ i.op = "IRQ" /\ ~i.clr /\ ~i.wait
  /\ \A t \in Requests(m, i) : t[2] = m[2]

LeavesFlag(m, i, n) == \A t \in Requests(m, i) : t[2] # n

\* The addresses at which a machine of a setup has taken the token and not passed it
InHand(setup, m) == setup.config[m].wrap_bottom + 1 .. setup.config[m].wrap_top

\* Machine m of a setup takes the token and passes it on
Relays(setup, m) ==
  LET bottom == setup.config[m].wrap_bottom
      top == setup.config[m].wrap_top
  IN  /\ bottom < top
      /\ Takes(m, At(setup, m, bottom), m)
      /\ Passes(m, At(setup, m, top))
      /\ \A a \in bottom + 1 .. top - 1 :
           /\ KeepsTo(At(setup, m, a), InHand(setup, m))
           /\ LeavesFlag(m, At(setup, m, a), m[2])

IsRing(setup, n) ==
  /\ \A m \in SMs :
       IF m[2] = n THEN Relays(setup, m)
       ELSE \A a \in Loop(setup, m) : LeavesFlag(m, At(setup, m, a), n)
  /\ \E b \in Blocks : \A c \in Blocks :
       setup.start[<<c, n>>] \in InHand(setup, <<c, n>>) <=> c = b
  /\ \A t \in Host.irqs : t[2] # n

\* The machines n run as a ring
InRing(n) ==
  \A setup \in Setups :
    instr = setup.program /\ reg = setup.config => IsRing(setup, n)

\* A machine has the token when its wait has succeeded and it has not passed it
Holds(m) == sm[m].pc # reg[m].wrap_bottom

\* Each ring has one token at any moment, also in the middle of a cycle: in a
\* flag, in a request or in the hands of a machine.  WAIT IRQ must consume the
\* flag exactly once and a set requested in the cycle of a clear must survive
\* (OC_WAIT, OC_IRQ, epio_finish_step).
OneToken ==
  \A n \in SmNums : InRing(n) =>
    Cardinality({b \in Blocks : Raised(<<b, n>>)})
      + Cardinality({b \in Blocks : Holds(<<b, n>>)}) = 1

-----------------------------------------------------------------------------
(* Handshakes *)

\* Machine p offers items by flag t and c takes them, and nobody else sets or clears
\* it, nor they in any other way
IsHandshake(setup, p, c, t) ==
  /\ p # c
  /\ t \notin Host.irqs
  /\ \E a \in Loop(setup, p) : Offers(p, At(setup, p, a), t)
  /\ \E a \in Loop(setup, c) : Takes(c, At(setup, c, a), t)
  /\ \A m \in SMs : \A a \in Loop(setup, m) :
       t \in Requests(m, At(setup, m, a)) =>
         \/ m = p /\ Offers(m, At(setup, m, a), t)
         \/ m = c /\ Takes(m, At(setup, m, a), t)

Handshakes ==
  {h \in Setups \X SMs \X SMs \X (Blocks \X IrqNums) :
     IsHandshake(h[1], h[2], h[3], h[4])}

\* The step is one in which machine m executes an instruction, not a delay
Executes(m) == turn = m /\ turn' # m /\ sm[m].enabled /\ sm[m].delay = 0

\* Producer p offers an item, is let go after one, consumer c takes one
Offered(p, t) ==
  Executes(p) /\ ~sm[p].stalled /\ \E i \in Current(p) : Offers(p, i, t)

Released(p, t) ==
  Executes(p) /\ ~sm'[p].stalled /\ \E i \in Current(p) : Offers(p, i, t)

Taken(c, t) ==
  Executes(c) /\ ~sm'[c].stalled /\ \E i \in Current(c) : Takes(c, i, t)

\* Each item is taken once, and nothing is taken that was not offered: an offer
\* raises the flag, and finds it down; a take finds it up, and leaves it down; and
\* nothing else moves it.  The producer is let go only when its item is taken.
\* IRQ WAIT must raise its flag once however long it stalls (OC_IRQ, where stalled
\* stands for "already raised") and WAIT IRQ consume it once (OC_WAIT).
HandedOver ==
  [][\A h \in Handshakes : instr = h[1].program /\ reg = h[1].config =>
       LET t == h[4]
       IN  /\ Offered(h[2], t) => ~Raised(t) /\ Raised(t)'
           /\ Taken(h[3], t) => Raised(t) /\ ~Raised(t)'
           /\ Released(h[2], t) => ~Raised(t)
           /\ Raised(t)' # Raised(t) => Offered(h[2], t) \/ Taken(h[3], t)]_vars

-----------------------------------------------------------------------------
(* Pulses *)

\* It raises flag t, and goes on at once
Pulses(m, i, t) ==
  i.op = "IRQ" /\ ~i.clr /\ ~i.wait /\ i.delay = 0 /\ Requests(m, i) = {t}

\* Machine p raises flag t in every cycle, whatever the others do with the flag
IsTrain(setup, p, t) ==
  /\ t \notin Host.irqs
  /\ \A a \in Loop(setup, p) : Pulses(p, At(setup, p, a), t)

Trains ==
  {h \in Setups \X SMs \X (Blocks \X IrqNums) : IsTrain(h[1], h[2], h[3])}

\* No pulse is lost to a listener that clears the flag in the same cycle: once up, the
\* flag of an enabled pulser stays up, however many take it, and so nobody stalls who
\* waits for it (epio_finish_step applies the clears before the sets).
PulsesHeard ==
  [][\A h \in Trains : instr = h[1].program /\ reg = h[1].config =>
       LET t == h[3]
       IN  sm[h[2]].enabled /\ Flag(t) =>
             /\ Flag(t)'
             /\ \A c \in SMs :
                  Executes(c) /\ (\E i \in Current(c) : Takes(c, i, t)) => ~sm'[c].stalled]_vars

-----------------------------------------------------------------------------
(* Shared pins *)

\* Those that a SET or MOV PINS makes high
HighOf(m, i) ==
  LET r == reg[m]
  IN  IF i.op = "SET" THEN PinsAt(m, r.set_base, Low(i.data, r.set_count))
      ELSE PinsAt(m, r.out_base, Low(MovValue(m, i), r.out_count))

\* It retires at once, and leads on to the next one
Prompt(i) ==
  /\ i.delay = 0
  /\ i.op = "SET" \/ (i.op = "MOV" /\ i.dst \notin {"PC", "EXEC"})

\* Where machine m runs round, and whether it does so one instruction a cycle
Round(m) == reg[m].wrap_bottom .. reg[m].wrap_top

Straight(m) == \A a \in Round(m) : Prompt(instr[m[1]][a])

\* What a straight machine has executed last
Last(m) == instr[m[1]][Preceding(reg[m], sm[m].pc)]

\* Position t of the loop over the machines is beyond machine m
Beyond(t, m) == t[1] > m[1] \/ (t[1] = m[1] /\ t[2] > m[2])

\* Machine m has had its turn in this cycle
Stepped(m) == sm[m].enabled /\ Beyond(turn, m)

\* The pins it may then have written
Touched(m) ==
  IF Straight(m) THEN PinsOf(m, Last(m))
  ELSE UNION {PinsOf(m, instr[m[1]][a]) : a \in Round(m)}

\* In this cycle m has written pin p of its block, and no later machine has
HasPin(m, p) ==
  /\ Stepped(m) /\ Straight(m)
  /\ Last(m).dst = "PINS" /\ p \in PinsOf(m, Last(m)) \cap gpio.control[m[1]]
  /\ \A n \in SMs : Stepped(n) /\ Beyond(n, m) => p \notin Touched(n)

\* When several machines write a pin in one cycle the last of them wins, the highest
\* numbered one of the block (the comment on the order of the loop in
\* epio_step_cycles), and one that is alone has its way: the level is what its
\* instruction makes of its registers and of the inputs of that very cycle.
HighestWins ==
  \A m \in SMs, p \in Gpios :
    HasPin(m, p) => (p \in gpio.output <=> p \in HighOf(m, Last(m)))

\* It copies input pins to output pins, as they are or inverted
Copies(i) == i.op = "MOV" /\ i.src = "PINS" /\ i.mov_op \in {"NONE", "INVERT"}

\* The outputs of a machine that copies its inputs are, when it has had its turn, the
\* inputs of that very cycle, inversion and forces included, pin by pin in the
\* window of its block, also across its edge.
RepeaterFollows ==
  \A m \in SMs, k \in 0 .. 31 :
    LET out == base[m[1]] + ((reg[m].out_base + k) % 32)
        in == base[m[1]] + ((reg[m].in_base + k) % 32)
        high == k < reg[m].in_count /\ Input(in)
    IN  k < reg[m].out_count /\ HasPin(m, out) /\ Copies(Last(m)) =>
          (out \in gpio.output <=> (Last(m).mov_op = "INVERT") # high)
=============================================================================
