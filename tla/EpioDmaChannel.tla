--------------------------- MODULE EpioDmaChannel ---------------------------
(***************************************************************************)
(* The channels of the DMA engine.  One that is set up takes an address    *)
(* from the RX FIFO of one state machine, reads the SRAM there read_cycles *)
(* later and pushes what it read into the TX FIFO of another write_cycles  *)
(* after that.                                                             *)
(*                                                                         *)
(* What a step makes of a channel d is defined as functions of d, of       *)
(* whether there is room in the TX FIFO it pushes to, and of the words q   *)
(* in the RX FIFO it pops from.  EpioDma steps the channels beside any use *)
(* of the FIFOs, EpioSystem beside the state machines.  For the            *)
(* definitions named Bug... see EpioExec.                                  *)
(***************************************************************************)
EXTENDS EpioChip, EpioSram

CONSTANTS NumChannels,       \* 16 in the code
          DmaHost            \* what the host calls, see DmaHostCalls

VARIABLES dma,               \* dma[c]: epio_dma_state_t
          chan               \* the channel epio_dma_step is at, or ChanEnd

Channels == 0 .. NumChannels - 1

ChanEnd == NumChannels

Cycles == 0 .. 255           \* uint8_t

BitModes == {8, 16, 32}

\* The arguments of epio_dma_setup_read_pio_chain: its documentation gives the
\* range of the cycles, nothing checks it
Chain ==
  [from : SMs, to : SMs, read_cycles : 1 .. 255, write_cycles : 1 .. 255,
   bit_mode : BitModes]

DmaState ==
  [setup : BOOLEAN, from : SMs, to : SMs,
   read_cycles : Cycles, write_cycles : Cycles,
   read_delay : Cycles, write_delay : Cycles, bit_mode : BitModes \cup {0},
   read_addr : Word, read_value : Word]

DmaHostCalls ==
  [chains : SUBSET (Channels \X Chain),
   stores : SUBSET (SramAddrs \X Sizes \X Word),
   sets : SUBSET (SramAddrs \X Seq(Byte))]

ASSUME ChannelAssumption ==
  /\ NumChannels \in Nat
  /\ DmaHost \in DmaHostCalls

ChannelsTypeOK ==
  /\ dma \in [Channels -> DmaState]
  /\ chan \in Channels \cup {ChanEnd}
  /\ SramTypeOK

\* epio_init_dma_channel
DmaReset ==
  [setup |-> FALSE, from |-> <<0, 0>>, to |-> <<0, 0>>,
   read_cycles |-> 0, write_cycles |-> 0, read_delay |-> 0, write_delay |-> 0,
   bit_mode |-> 0, read_addr |-> {}, read_value |-> {}]

ChannelsInit ==
  /\ dma = [c \in Channels |-> DmaReset]
  /\ chan = ChanEnd
  /\ SramInit

-----------------------------------------------------------------------------
(* A step: first the write side, then the read side, then a new address     *)

BugPushes(d, room) == d.write_delay = 1

BugPushesIdle(d, room) == d.write_delay = 1 /\ room /\ d.read_delay = 0

\* A write that is due finds room
Pushes(d, room) == d.write_delay = 1 /\ room

\* The channel after its write side: a write that finds no room is due again in
\* the next cycle
Written(d, room) ==
  [d EXCEPT
     !.write_delay = IF @ = 0 \/ Pushes(d, room) THEN 0
                     ELSE IF @ = 1 THEN 1 ELSE @ - 1,
     !.read_value = IF Pushes(d, room) THEN {} ELSE @]

BugFetches(d, room) == d.read_delay = 1

\* A read that is due, with no write still waiting
Fetches(d, room) == d.read_delay = 1 /\ Written(d, room).write_delay = 0

Size(mode) == mode \div 8

\* epio_sram_read_... asserts on the address it is given
FetchAllowed(d, room) ==
  Fetches(d, room) => Accessible(d.read_addr, Size(d.bit_mode))

BugReplicated(w, mode) == w \cup ShiftLeft(w, mode)

\* The item over the whole word
Replicated(w, mode) == UNION {ShiftLeft(w, n * mode) : n \in 0 .. 3}

\* The channel after its read side
Fetched(d, room) ==
  LET e == Written(d, room)
  IN  IF Fetches(d, room)
      THEN [e EXCEPT
              !.read_delay = 0, !.write_delay = e.write_cycles,
              !.read_value = Replicated(Load(e.read_addr, Size(e.bit_mode)),
                                        e.bit_mode)]
      ELSE [e EXCEPT
              !.read_delay = IF @ = 0 THEN 0 ELSE IF @ = 1 THEN 1 ELSE @ - 1]

BugAccepts(d, room, q) == d.read_delay = 0 /\ q # <<>>

\* No read is pending, and there is an address
Accepts(d, room, q) == Fetched(d, room).read_delay = 0 /\ q # <<>>

NextChannel(d, room, q) ==
  LET e == Fetched(d, room)
  IN  IF Accepts(d, room, q)
      THEN [e EXCEPT !.read_addr = Head(q), !.read_delay = e.read_cycles]
      ELSE e

-----------------------------------------------------------------------------
(* The host's calls *)

\* A channel as epio_dma_setup_read_pio_chain leaves it: what it had in hand is
\* forgotten
SetUp(chain) ==
  [setup |-> TRUE, from |-> chain.from, to |-> chain.to,
   read_cycles |-> chain.read_cycles, write_cycles |-> chain.write_cycles,
   read_delay |-> 0, write_delay |-> 0, bit_mode |-> chain.bit_mode,
   read_addr |-> {}, read_value |-> {}]

SetupChain ==
  /\ \E c \in DmaHost.chains : dma' = [dma EXCEPT ![c[1]] = SetUp(c[2])]
  /\ UNCHANGED sram

HostUsesSram ==
  /\ \/ \E s \in DmaHost.stores : Store(s[1], s[2], s[3])
     \/ \E s \in DmaHost.sets : SramSet(s[1], s[2])
  /\ UNCHANGED dma

-----------------------------------------------------------------------------
(* The channels as EpioLookup sees them *)

\* What a channel has in hand, oldest first: a value that waits to be written is
\* a request already looked up, an address that waits to be read is one that is not
Hand(d) ==
  LET value == [known |-> TRUE, word |-> d.read_value]
      address == [known |-> FALSE, word |-> d.read_addr]
  IN  CASE d.write_delay = 0 /\ d.read_delay = 0 -> <<>>
        [] d.write_delay > 0 /\ d.read_delay = 0 -> <<value>>
        [] d.write_delay = 0 /\ d.read_delay > 0 -> <<address>>
        [] d.write_delay > 0 /\ d.read_delay > 0 -> <<value, address>>

Use(d) == [from |-> d.from, to |-> d.to, bit_mode |-> d.bit_mode]

Hands == [c \in Channels |-> Hand(dma[c])]

Uses == [c \in Channels |-> Use(dma[c])]
=============================================================================
