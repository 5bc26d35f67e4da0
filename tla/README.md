# A TLA+ model of epio

epio emulates the PIO (programmable I/O) blocks of the RP2350: three blocks of
four state machines that share an instruction memory, eight IRQ flags per block
and 48 GPIO pins. A host program configures the emulator, plays pin levels and
FIFO words into it, steps it cycle by cycle and observes it. This directory
holds TLA+ modules translated from its C sources, TLC configurations that check
them on small chips and programs, and TLAPS proofs for chips of every size,
every program and every use the host makes of them.

## Inventory

| Component | Source | State | Operations | Modelled in |
|---|---|---|---|---|
| execution core | `src/epio_exec.c`, macros of `include/epio_priv.h` | per state machine: X, Y, ISR, OSR, shift counts, PC, delay, `stalled`, `enabled`, pending EXEC; per block: instruction memory, GPIOBASE | `epio_step_cycles`, `epio_sm_step`, nine opcodes in `epio_exec_instr_sm`, `epio_finish_step`, `epio_set_instr` | `EpioExec`, `EpioStall`, `EpioEcho` |
| instruction encoding | `include/epio_priv.h`, field extraction in `epio_exec.c` | none | decode | `EpioInstr`, `EpioWord` |
| IRQ flags | `src/epio_irq.c`, `epio_finish_step` | flags, `irq_to_clear`, `irq_to_set` of a block | requests by instructions, application at the end of the cycle, host set and clear | `EpioIrq`, `EpioSync` |
| GPIO pins | `src/epio_gpio.c` | input, output, direction, externally driven, inverted, forced low, forced high, control of each block | 12 calls that write, 3 observers | `EpioGpio`, `EpioPins`, `EpioOwners`, `EpioSync` |
| FIFOs | `src/epio_fifo.c` | two arrays of four words for each machine | push, pop, depth; `epio_wait_tx_fifo` | `EpioExec`, `EpioSystem` |
| registers | `include/epio_priv.h`, `epio_set_sm_reg` | EXECCTRL, SHIFTCTRL, PINCTRL | the `_GET` macros | `EpioApio` (`RegOf`); `EpioExec` uses the fields |
| lifecycle | `src/epio.c` | | init, enable, disable, GPIOBASE | `EpioExec` |
| configuration from apio | `src/epio_apio.c` | what the apio macros recorded; the position of its loop | `epio_from_apio` | `EpioApio` |
| DMA chains | `src/epio_dma.c` | 16 channels: two countdowns, an address, a value | `epio_dma_step`, set-up | `EpioDmaChannel`, `EpioDma`, `EpioLookup` |
| SRAM | `src/epio_sram.c` | 520 kB of bytes | reads, writes and `epio_sram_set` with their assertions | `EpioSram` |
| the cycle as a whole | `epio_step_cycles`, `epio_after_step` | | machines, IRQ requests, DMA channels, host | `EpioSystem` |
| peek, disassembler, WASM bindings, examples | `src/epio_peek.c`, `src/epio_log.c`, `wasm/`, `example/` | none | observers and formatting | not modelled |

How they interact. Everything is a direct call in one thread; the concurrency
is that of the emulated hardware, serialised by a loop. In a cycle the loop
executes one instruction (or one delay) of each enabled machine, in ascending
order, and every instruction sees at once the pins and FIFOs that earlier
machines of the same cycle have left. IRQ flags are the exception: instructions
only record requests, and the end of the cycle applies the clears and then the
sets. After that the DMA channels move words between FIFOs and SRAM. The host
calls anything it likes between two cycles, including the execution of single
instructions on a machine, which shares that machine's delay, stall and pending
flags with its program.

What is hard here: the order of machines within a cycle; requests that meet at
the end of a cycle; one `stalled` flag shared by six blocking instructions, two
of which give it a second meaning ("already shifted", "already raised");
instructions that hand over another instruction; arithmetic at the edges (shift
by 32, thresholds where 0 means 32, a byte-wide program counter, a pin window
that wraps); pin overrides set and released in any order; waiting that must
end; a DMA channel that holds one value between two countdowns; words that grow
stale on their way through two FIFOs and a channel while the pins change.
`PROJECT.json` lists each of these at its line, with the properties that are
about it.

What makes each component correct:

- core: a stall belongs to the instruction that caused it and a retry repeats
  nothing; nothing is lost between the FIFOs, the shift registers and the
  scratch registers; a handed-over instruction runs exactly once; the host's
  own instructions do not move the program; shared pins go to the highest
  machine, and no block touches another block's pins;
- IRQ: a flag is consumed once; a set survives a clear of the same cycle;
  indexes name the right block; handshakes neither lose nor double an item;
- GPIO: one controller and at most one override for a pin; forced levels stay;
- FIFOs: bounded and in order, whoever pushes; a wait for a word counts right
  and ends;
- DMA: every address popped becomes one word pushed, in order, with the content
  of the SRAM at one moment; a chain that has room delivers;
- configuration: recorded words come out in the order of the comment in
  `epio_from_apio`, and nothing recorded moves a pin before control is given;
- the whole: a ROM made of these parts serves the byte at the address on its
  pins, and only while it is selected.

## Modules

| Module | Role |
|---|---|
| `EpioWord` | words as sets of bit positions: shifts, masks, decrement, reversal, bytes |
| `EpioInstr` | instructions as records, the encoding tables, `Decode` |
| `EpioChip` | number of blocks and machines |
| `EpioGpio` | the pins: state, what instructions see and write, the host's calls |
| `EpioIrq` | the IRQ flags: requests, their application, index modes, the host's calls |
| `EpioExec` | the chip: one action per opcode, the loop, the host; `Spec`, `FairSpec`, `TypeOK` |
| `EpioStall` | the stall protocol (`StallJustified`, `StallFreezes`, `FifoBounded`), and what is executed next: `ExecInPlace`, `ExecAtOnce`, `ExecStalls`, `HostBesideProgram`, `InProgram` |
| `EpioSync` | programs that meet within a cycle: rings (`OneToken`), handshakes (`HandedOver`) and pulses (`PulsesHeard`) by IRQ flags; shared pins (`HighestWins`, `RepeaterFollows`) |
| `EpioOwners` | the chip's blocks and the pins of each other: `OwnerWrites` |
| `EpioPins` | the pins alone under every call in every order, with their properties |
| `EpioChannel` | abstract specification: a bounded channel |
| `EpioEcho` | a machine that echoes words, and its refinement mapping to `EpioChannel` |
| `EpioSram` | the bytes, and the calls that read and write them |
| `EpioDmaChannel` | the DMA channels: a step as functions of the channel, the room it finds and the words it pops from; set-up, the host's SRAM calls; what a channel has in hand |
| `EpioDma` | the loop over the channels beside any use of the FIFOs and the SRAM; `DmaSpec`, `DmaTypeOK` |
| `EpioLookup` | abstract specification: addresses answered from the SRAM |
| `EpioDmaLookup` | the refinement mapping from `EpioDma` to `EpioLookup`, and liveness |
| `EpioApio` | the registers taken apart, and `epio_from_apio` step by step |
| `EpioSystem` | configuration, cycles with the DMA, `epio_wait_tx_fifo`, the host; `SystemSpec`, and the refinement mapping of its channels to `EpioLookup` (`ChainsServe`) |
| `EpioAsm` | shorthand for programs and register settings |
| `MC*` | programs, configurations and hosts for TLC, and the properties of those programs |
| `*_proofs` | lemmas and theorems of the module they are named after |

`EpioExec` extends `EpioInstr` (over `EpioWord`), `EpioGpio` and `EpioIrq` (both
over `EpioChip`); `EpioStall` and `EpioEcho` extend it. `EpioPins` uses `EpioGpio` without the
machines, and `EpioOwners` puts it and `EpioExec` together; `EpioSync` extends
`EpioStall` and `EpioOwners`. `EpioDmaChannel` and `EpioLookup` extend `EpioSram`. What a
channel's step makes of its state (`Pushes`, `Fetches`, `Accepts`, `NextChannel`)
is written once there; `EpioDma` extends it with FIFOs that anybody uses, and
`EpioSystem` with the state machines and their FIFOs, the steps of `EpioApio`
(which extends `EpioExec`) and `EpioStall`. Both map to `EpioLookup`.

### Correspondence with the code

- `sm[m]` is `epio_sm_state_t` of machine `m = <<block, number>>`, FIFOs
  included; `reg[m]` holds the fields the `_GET` macros extract from its
  registers; `instr`, `base`, `irq` and `gpio` are the block and pin states.
- `turn` is the position of the loops of `epio_step_cycles`. `Delayed(m)`,
  `Step(m)` and `Skip(m)` are the three things the loop may do at machine `m`;
  `FinishStep` is `epio_finish_step`. `HostCall` is enabled only when `turn` is
  back at the start: the library is not re-entrant.
- Each opcode is one action (`Jmp`, `Wait`, `In`, `Out`, `Pull`, `Push`, `Mov`,
  `Irq`, `Set`) with everything its `case` writes, the delay and the program
  counter included. `dont_update_pc` and `process_new_delay` become the three
  ends of an execution, `Retire`, `Redirect` and `Stall`. `stepping` tells
  `epio_sm_step` from a call of `epio_exec_instr_sm` by the host, after which
  nobody advances the program counter or clears the pending flag.
- A `uint32_t` is the set of its one bits, a pin mask the set of its pins, a
  byte of the SRAM the set of its bits.
- A failed assertion ends the program: the action is not enabled (reserved
  encodings, a pin above 47, a push to a full FIFO by the host). In the proofs
  these are just absent steps.
- A fetch from outside the instruction memory is undefined in C. `UbInstrs` is
  the set of instructions such a fetch may yield; the proofs of `TypeOK`,
  `FifoBounded` hold for every such set. A reserved encoding retried by a
  stalled IN is accepted, as in the code.
- `Host` lists which calls the host of a run makes, with which arguments.
  `HostExec` is a call of `epio_exec_instr_sm`, which `include/epio_priv.h`
  declares and only `epio_from_apio` makes: where a run or a proof admits it
  between cycles, it admits more than the public API does.
- Init of `EpioExec` is `epio_init` followed by a configuration, one of
  `Setups`: registers, program, GPIOBASE, pin control, and the start address a
  pre-executed JMP sets. `EpioSystem` starts at `epio_init` and takes the steps of
  `epio_from_apio`: `boot` is the position of its loops over blocks and machines,
  `LoadBlock`, `LoadSm`, `PreInstr`, `EnableSm` and `ConfigurePins` their parts.
  The two cannot be confused: `Apio` is what the apio macros recorded, with the
  registers as 32-bit words, of which `RegOf` takes the fields.
- `dma[c]` is `epio_dma_state_t` of channel `c` and `chan` the position of the
  loop of `epio_dma_step`. A channel's step is its three parts one after the
  other, each a function of the one before: `Written`, `Fetched`, and the new
  address in `NextChannel`. It depends on the FIFOs only by `room`, whether the TX
  FIFO takes a word, and `q`, the words in the RX FIFO; whether it pushes and pops
  (`Pushes`, `Accepts`) is all that the FIFOs see of it.
- In `EpioDma` alone the machines and the host are whoever pushes and pops
  between two steps (`Others`); in `EpioSystem` they are themselves.
- The SRAM of a run is the addresses it names (`SramAddrs`), whole words of the
  code's range; an access elsewhere, or one that is not aligned, fails an
  assertion.
- `wait` is a call of `epio_wait_tx_fifo`: at the test of its loop, in a cycle it
  runs, or returned with a result. Other calls of the host wait for its return.
- The cycles of a DMA chain are 1 to 255, as `epio.h:633-636` gives them. The code
  does not check it: with 0 a value is never written.

Operators named `Bug...` are slips one could make in the definition that
follows them. Nothing uses them; they are put in place of their namesake to see
that the property they are listed with fails.

## Runs

All runs are of small chips with complete state spaces; no state constraint is
used. FIFOs have their real depth of 4 (2 in `dma`) and words their real width of
32 bits.

| Run | Module | Chip | What it asks |
|---|---|---|---|
| `echo` | `MCEcho` | 2 machines | does `out x,16 [1]; in x,16` with autopull and autopush, beside a machine with a program of its own, implement a bounded channel (refinement of `EpioChannel`), and do words keep flowing; does either machine stay in its own program |
| `stall` | `MCStall` | 1 machine, 32 instructions | does every stall, of every blocking instruction, keep the protocol, also when GPIOBASE changes and the host lets it through, or executes an instruction of its own, at any time; are FIFOs bounded |
| `irq` | `MCIrq` | 3 blocks x 2 | do IRQ flags hand tokens around the blocks, in both directions, without losing or doubling one, for ever; is every item offered with IRQ WAIT taken once, and do items keep flowing; is a pulse that meets a clear heard |
| `exec` | `MCExec` | 1 machine | is an instruction handed over by OUT EXEC run exactly once, at once, through stalls and delays, while the host rewrites registers and memory and executes instructions of its own, which move neither the program counter nor what is pending; is everything well typed |
| `pins` | `MCPins` | 2 x 2, bases 0 and 16 | who wins a shared pin; do copied levels come from the inputs of the same cycle, and which pins does a wrapped window reach; what can a block do to a pin of another; do controllers and overrides stay exclusive and forced levels in force, in every order of the GPIO calls for one pin, of drives of two, and of what the programs write meanwhile |
| `dma` | `MCDma` | 2 channels, 2 machines, 2 words of SRAM | do the channels implement the lookups of `EpioLookup`, with every width, delays of 1 and 2, both channels on the same two FIFOs, the SRAM rewritten and channels set up again at any time; do they keep delivering |
| `rom` | `MCRom` | 1 block x 4, 48 pins, 2 channels | the ROM of `test/onerom_programs.h` as `test/onerom.c` uses it, from `epio_from_apio` on: in which order are recorded words pulled, also when a recorded instruction has pulled or pushed already; do recorded instructions move a pin; when does the first byte arrive and what does `epio_wait_tx_fifo` say of it; is the byte at the address on the data pins once the pins rest; are the channels, between machines that push and pull, the lookups of `EpioLookup` |

Why the bounds are enough. The machines of one block are alike, so two of them
meet in every order the loop has; three blocks are the code's number and the
least for which previous, next and own block differ. The FIFOs fill and empty
completely. Two words with bits at the ends and across the halves tell lost,
swapped, repeated and shifted halves apart. The rules of overrides, forces and
controllers are about each pin by itself, so `pins` makes all calls on one pin,
47, which both blocks may be given, and drives a second with it; the rules are
proved for every number of pins and blocks anyway. In `dma` two channels on one
FIFO with two words of room meet every clash of the loop: one is full or empty
for the second because of the first; delays of 1 and 2 make either side due
first or both at once, and the refinement is proved for all delays anyway. In
`rom` the two address pins (one of them the select pin) name four bytes that all
differ. `MaxBurst` = 2 lets the host change them twice before they rest, so that
a second address enters while the first is under way; `Settle` = 13 cycles is
tight: with 12 `ServesByte` fails. The second channel is never set up, so that
the loop also passes over one. Deadlock is checked in every run.

Fairness. `FairSpec` assumes weak fairness of `Cycle` as a whole: the host goes
on calling `epio_step_cycles`, and the loop then reaches every machine by itself
because it takes exactly one step at each. Nothing is assumed of the other host
calls: that machines are left enabled from some time on is a premise of the
liveness properties (`EchoFlows`, `ItemsFlow`, `TokenCirculates`). `ChainsDeliver`
and `WaitsReturn` carry all they need as premises, because the code that calls
the library decides it: that a chain is stepped with room and something in hand
again and again and is set up for the last time at some point; that cycles run. A
wait for ever returns in `rom` because the reader pushes an address every four
cycles, not because of any assumption.

### Departures from the documentation

Five runs are expected to fail, each on one property quoted from a comment or
from `epio.h`; `PROJECT.json` gives the lines.

- `ExecutedJumpIsDone`: a JMP handed over by OUT EXEC stays pending for ever.
- `JumpTestsAllOfX`: JMP X-- tests the low byte of X only.
- `OnlyOwnerTurns`: OUT and MOV PINDIRS turn off outputs of other blocks.
- `ForcedLowReadsLow`: releasing a high force raises a pin that is forced low.
- `GivesUpOnNothing`: a wait of 12 steps for the first byte of the ROM returns -1
  with the byte in the FIFO. `epio_wait_tx_fifo` counts the steps and does not look
  after the last of them; in `rom` the waits are longer or shorter than that.

More were met while translating; the model does as the code does, and no run is
spent on them:

- an OUT EXEC that is itself handed over loses what it hands over
  (`epio_exec.c:118-122`, against the comment at 119-120);
- the program counter leaves the memory after address 31 without a wrap, and by
  OUT PC (`epio_exec.c:132`, `469`, against `epio.h:745-746`);
- a stall that an instruction executed by the host leaves behind is inherited by
  the program, whose IN then skips its shift (`epio_exec.c:310`, against
  `epio.h:863-864`);
- an external drive pulls up all the pins it leaves out (`epio_gpio.c:181-184`,
  against `epio.h:389`);
- an input ignores what a block drives onto the pin (`epio_gpio.c:121-128`,
  against `epio.h:475-476`); no property is stated of what it reads then.

Behaviour worth knowing that no text contradicts: turning a pin to input raises
its output latch; a handed-over instruction replaces the one at the program
counter and advances it; JMP !OSRE jumps when the OSR *is* empty; clearing
output control leaves the pin an output; an IN_COUNT of 0 makes MOV read no
pins; recorded instructions that write pins or directions have no effect, since
output control is given after they are executed.

## Proofs

Every theorem is about a module's specification and holds for every value of the
constants that satisfies the named assumptions (`WordBitsAssumption`,
`ChipAssumption`, `GpioAssumption`, `ExecAssumption`, `SramAssumption`,
`ChannelAssumption`, `DmaAssumption`, `ApioAssumption`, `SystemAssumption`: at least
one block, machine and pin, 48 or more pins where instructions address them, 32-bit words, whole
words of SRAM, and programs, registers, recorded configurations, DMA set-ups and
host calls within their types). `EchoAssumption` says which program one of the
machines runs. Where a theorem needs more of the programs or of the host, it says
so by a premise over the constants. `ExecutedInPlace` also assumes something of the
behaviour: `[]Harmless`, that nothing which is handed over is itself about the
program counter. `MCExec` hands over no such instruction.

| Premise | Says | Met by |
|---|---|---|
| `Undisturbed` | the host rewrites neither registers nor memory after the first cycle, and executes by itself only what passes a stalled machine by (`PassesBy`: undelayed SET, IRQ without WAIT, MOV to X, Y or pins); no fetch is outside the memory | `MCStall` |
| `ExecutesUndelayed` | what the host executes by itself has no delay | `MCExec` |
| `ExecutesBeside` | what the host executes by itself neither jumps nor hands over | `MCExec` |
| `Replaceable` | as `ExecutesBeside`; machines run round their loops, reach the addresses behind a hand-over by nothing else, and the host rewrites at most what is there | `MCExec` |
| `Contained` | programs wrap at their end, and neither they nor what the host writes or executes leads elsewhere | `MCEcho` |
| `Looped` | every machine starts in its wrap range and its jumps lead into it; the host rewrites and executes nothing | `MCIrq`, `MCPins` |
| `DisjointControl` | the configuration gives no pin to two blocks | `MCPins`; of `EpioSystem` it is proved |

The MC modules named state each premise as an ASSUME, so that TLC evaluates it.

### Types and bounds

- `EpioExec_proofs!TypeCorrect`: `Spec => []TypeOK`. `TypeOK` is inductive by
  itself. One lemma for each opcode bounds what it writes; they rest on lemmas
  about words and pins, on `UpdatesTyped`, which says that a machine stays one when
  a field is replaced, and on `EndsTyped` for the three ends of an execution.
  `DecodeTyped` shows that any 32-bit word handed over by OUT EXEC decodes to an
  instruction.
- `EpioStall_proofs!FifosBounded`: `Spec => []FifoBounded`, with no assumption
  about the host beyond the assertions of the push calls.
- `EpioSystem_proofs!SystemInvariant`: `SystemInv` has the types of all parts, the
  bound of the FIFOs, and, until `epio_from_apio` is done, `Untouched`: no loop is
  under way, the pins are as `epio_init` left them, and the machines not yet
  reached have empty FIFOs. The last is what bounds the FIFOs it fills; that no
  block controls a pin yet is what keeps its instructions from moving one
  (`UncontrolledStays`). `SystemTyped` and `BootMovesNoPin` follow.
- `EpioSystem_proofs!PreloadsKeepOrder`: `PreloadInv` says of every machine
  `epio_from_apio` has come to, and not only at the end, that its FIFOs are in the
  recorded order. It holds when the words have been pushed (`LastFirstInOrder`), and
  an instruction only takes from the head of the one FIFO and adds to the tail of
  the other (`InOrderKeeps`). This is why the recorded words are compared from the
  tail of the TX FIFO and the head of the RX FIFO.

### What is executed, and when

- `StallsJustified` and `StallsFreeze`, under `Undisturbed`: a stalled machine is in
  no delay and its current instruction is a blocking one that will block again, and
  a retry changes nothing but the FIFOs it does not wait for. `StallJustified` is
  inductive together with `TypeOK`. The argument is in `Outcome`: whatever an
  instruction does, either its machine ends unstalled or it is held at an
  instruction that blocks, *provided* that, if it was stalled before, it was by an
  instruction that blocks; `StallJustified` is that proviso. Each opcode has its
  lemma, and `ExecuteOthers` says that no instruction touches another machine. What
  the host executes leaves a stalled machine in its place (`HostExecPasses`).
- `HandedOverAtOnce`, under `ExecutesUndelayed`; `HandedOverStalls`, under
  `Undisturbed`; `HostsBesidePrograms`, under `ExecutesBeside`; `StaysInProgram`,
  under `Contained`. All four rest on `ExecuteLeaves`: an execution ends with the
  machine as it was but stalled, or retired to the next address, or at an address it
  jumped to, or with an instruction pending (`EndedIn`). `HandedOverAtOnce` shows
  that a pending instruction is delayed only by itself, and only when it has jumped,
  which is the one way it stays pending after it is done (`ExecutedJumpIsDone`).
  `ProgramInv` adds to `InProgram` that the program keeps its form while the host
  rewrites it, and that nothing is pending.
- `ExecutedInPlace`, under `Replaceable`: `Spec /\ []Harmless => []ExecInPlace`.
  `InPlaceInv` adds to `ExecInPlace` that a machine is in its loop and that the
  loop keeps its form: rewriting what is behind a hand-over never makes or unmakes
  one (`SameBehind`). `PrecedesFollowing` is the arithmetic of the wrap: the address
  after the hand-over is the one whose predecessor it is. `StepInPlace` goes through
  the ends of an execution: a hand-over retires to the address behind it, a stall
  stays, and a handed-over instruction retires past it.

### The echo

`EpioEcho_proofs!EchoImplementsChannel`: `Spec => EchoIsChannel`, for any delays of
the two instructions, any words, any number of other machines with any programs,
and any host that leaves the echoing machine its program and its ends of the FIFOs.
`EchoInv` says where a word may be: `Phase` lists five combinations of program
counter, shift counts and `stalled`, out of all those `TypeOK` has; without it the
mapping `InFlight` is not defined in every state. `HalvesJoin` is the arithmetic: a
word is its low half and its high half. `PathKeeps` shows that steps which leave
the registers alone leave the word in flight, `WordsMove` that a word which moves
between a FIFO and the machine keeps the queue, and `EndsMove` that the host's push
and pop are the channel's Send and Receive. So autopull, OUT, IN and autopush are
stutters, retries of a stalled IN among them.

### IRQ flags

The theorems of `EpioSync_proofs` about flags are for any number of blocks and
machines, and quantify over programs: what the machines do between taking and
passing, and what all others do, is open as long as it leaves the flags in question
alone. Beside a pulse the others may do anything with its flag.

- `TokensAreKept`: `Looped => (Spec => []OneToken)`. That there is one token is not
  inductive: in the middle of a cycle a flag may be up, to be cleared and to be set
  at once, and a second WAIT in that cycle would take it again. `RingInv` adds
  `Orderly`: no flag that is up is to be set, and one that is to be cleared has been
  taken in this very cycle by its machine, which the loop has passed (`Past`) and
  which therefore cannot act before `epio_finish_step`. `TokenIn` names the one
  block that has the token; `TokenCounts` turns it into the numbers of `OneToken`.
  `StepTakes`, `StepPasses` and `StepApart` are the three things a machine can do.
- `ItemsAreHandedOver`: `Looped => (Spec => HandedOver)`. `HandInv` is: the flag is
  up, or to be raised, only while its producer is stalled at the instruction that
  offers, and never both; to be raised only when the loop has passed the producer in
  this cycle, and to be cleared only when it is up and the loop has passed the
  consumer. `ProducerDeals`, `ConsumerDeals`, `OtherDeals` and `IdleDeals` show of
  every kind of step that it keeps `HandInv` and that what it does to the flag is an
  offer, a take, or nothing.
- `PulsesAreHeard`: `Looped => (Spec => PulsesHeard)`. `TrainInv` says that a machine
  whose loop is all pulses runs into no delay, and that, while it is enabled, its
  flag is to be set once the loop over the machines has passed it. So whatever the
  listeners have asked for, `epio_finish_step` sets the flag last (`FinishApplies`),
  and a listener that finds it up does not stall (`ListenerGoes`).

### Pins

- `EpioPins_proofs`: `PinsInv`, the conjunction of `GpioTypeOK`, `OneController`,
  `OneOverride` and `ForcedHighReadsHigh`, is inductive (a forced-high pin reads
  high only because it is not also inverted or forced low, and its level is only
  written through `ForcedLevels`); `PinsTyped`, `OneControllerAlways`,
  `OneOverrideAlways`, `ForcedHighAlways` and `ForcedLowStays` follow.
- `EpioExec_proofs!ChipKeepsPins` and `ChipForcesLow`, under `DisjointControl`: the
  same on a chip that runs programs. `StepsPins` shows that whatever a machine or the
  host does to the pins is one of the calls of `EpioPins`.
- `EpioExec_proofs!ForeignsTurnedOff`: `Spec => OwnerWrites`, with no premise. That a
  block leaves other blocks' pins alone is false, see `OnlyOwnerTurns`. This is what
  is true instead: for every instruction, what becomes of a pin the block does
  not control is nothing, or an input with its latch up, and then the instruction is
  an OUT or MOV PINDIRS in whose window the pin is (`WritesForeign`,
  `ExecuteForeign`).
- `EpioSync_proofs!LastWriterWins`: `Looped => (Spec => []HighestWins)`. It is
  inductive with `Going`, that programs keep to their loops and straight machines run
  into no delay. A machine's own turn makes the level (`OwnTurnWins`), which rests on
  `PromptRetires`, that it goes on at once and leaves what the level is made of, and
  on `SameHigh`, that the level can therefore be told from the state afterwards. A
  later turn of a machine that does not touch the pin leaves level and claim
  (`OtherTurnWins`, `OthersStand`), and one that does ends `HasPin`. That an
  instruction changes the pins of its window only is `ExecuteDrives`.
- `EpioSync_proofs!CopiesFollow`: `Looped => (Spec => []RepeaterFollows)` follows
  with `BitIsPin`: bit k of what is read and bit k of what is written are the pins
  the property names, across the edge of both windows.
- `EpioSystem_proofs!SystemKeepsPins` and `SystemOwnerWrites` carry `ChipKeepsPins`
  and `ForeignsTurnedOff` over to the composed emulator, where
  `ConfiguresApart` proves of `epio_from_apio` what `DisjointControl` assumes of
  a configuration.

### DMA

Two modules step the channels, so the lemmas about a channel are in
`EpioDmaChannel_proofs`. `InUse` says that a channel that is set up has a width and
delays of at least a cycle. It is needed because the mapping reads what a channel has
in hand off its two countdowns: a value is there exactly while `write_delay` is
positive and an address while `read_delay` is, which a delay of 0 would belie.
`HandForms` gives the four forms of a hand; `HandWritten`, `HandFetched` and
`HandNext` say what each part of a step does to it (deliver its head, turn its
address into an answer, append a request), and `StepServesHand` puts the three
together into one abstract step; `ReadIsContent` shows, bit by bit, that loading the
bytes and replicating them is the abstract content of the address.

- `EpioDma_proofs!DmaInvariant`: `DmaInv`, the types of the channels and the FIFOs
  and `InUse`, is inductive.
- `EpioDma_proofs!DmaImplementsLookups`: `DmaSpec => ChainsAreLookups`. Setting up
  abandons the hand, all else moves a word of a FIFO or the SRAM.
- `EpioSystem_proofs!SystemServes`: `SystemSpec => ChainsServe`, the same between the
  real state machines and for every program, configuration and host. What `EpioDma`
  assumes of the others is proved of them here: `NextMovesOne` says that a turn of a
  machine and a call of the host move one word of one FIFO at most, which needs of
  every instruction that it does not push and pull at once (`FifosFrom` in
  `EpioStall_proofs`). `epio_from_apio` may push several words between two of the
  points the model stops at, but leaves channels and SRAM alone (`UnbootedLeaves`);
  so `ChainsServe` asks for the abstract steps from its end on.

### Model-checked only

Liveness (`EchoFlows`, `ItemsFlow`, `TokenCirculates`, `ChainsDeliver`,
`WaitsReturn`) is out of the prover's reach. `ServesByte`, `KeepsUp` and
`FirstByteInTime` speak of one program and its timing, cycle by cycle: a proof would
follow the program through as many cases as TLC does and show no more. For a
host that executes other instructions than those that pass by, `StallJustified`
is not true: see the third of the unchecked departures above.

## Not modelled

Side-set (the code has none beyond treating its bits as delay), the clock
divider (the emulation ignores it), the cycle counter (read by the host only),
allocation failure and `epio_free`, the peek functions but for the one the
instructions use, the disassembler and the debug information it prints (its
assertions are part of `LoadSm`), the WASM bindings, the examples. What the apio
macros record is a constant: the macros are in another repository.

## Plan

What is left, most important first:

1. The abstract cycle in which all machines act at once on the state at its
   beginning, and the conditions on programs under which the sequential loop
   implements it.
2. Proofs: that a ROM of three machines and a chain answers within a
   number of cycles given by its delays, for all of them.
3. ROMs with two writers, or a chain of 16 bits, as further programs of `rom`.

The runs are kept to a dozen, so that all of them stay quick; the violation runs
are those whose disagreement matters most to a program.
