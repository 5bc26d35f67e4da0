------------------------------ MODULE EpioDma -------------------------------
(***************************************************************************)
(* The DMA engine.  epio_dma_step steps the channels one after the other   *)
(* at the end of every cycle; chan is the position of that loop, or        *)
(* ChanEnd between two cycles, when everybody else uses the FIFOs and the  *)
(* SRAM.                                                                   *)
(***************************************************************************)
EXTENDS EpioDmaChannel

CONSTANTS FifoDepth,         \* MAX_FIFO_DEPTH, 4 in the code
          Others             \* what the state machines and the host push and pop

VARIABLES rx, tx             \* rx[m], tx[m]: the FIFOs of the state machines

dmaVars == <<dma, chan, rx, tx, sram>>

OthersCalls ==
  [push_rx : SUBSET (SMs \X Word), pop_rx : SUBSET SMs,
   push_tx : SUBSET (SMs \X Word), pop_tx : SUBSET SMs]

ASSUME DmaAssumption ==
  /\ FifoDepth \in Nat \ {0}
  /\ Others \in OthersCalls

\* An array of FifoDepth words and a count
Fifo == {q \in Seq(Word) : Len(q) <= FifoDepth}

\* No delay leaves its uint8_t and no FIFO its array, whoever pushes
\* (epio_dma_step looks at the room before it calls epio_push_tx_fifo).
DmaTypeOK ==
  /\ ChannelsTypeOK
  /\ rx \in [SMs -> Fifo]
  /\ tx \in [SMs -> Fifo]

DmaInit ==
  /\ ChannelsInit
  /\ rx = [m \in SMs |-> <<>>]
  /\ tx = [m \in SMs |-> <<>>]

-----------------------------------------------------------------------------
(* The loop over the channels *)

BeginDma ==
  /\ chan = ChanEnd
  /\ chan' = 0
  /\ UNCHANGED <<dma, rx, tx, sram>>

StepChannel(c) ==
  LET d == dma[c]
      room == Len(tx[d.to]) < FifoDepth
      q == rx[d.from]
  IN  /\ chan = c /\ d.setup /\ FetchAllowed(d, room)
      /\ dma' = [dma EXCEPT ![c] = NextChannel(d, room, q)]
      /\ rx' = IF Accepts(d, room, q) THEN [rx EXCEPT ![d.from] = Tail(@)] ELSE rx
      /\ tx' = IF Pushes(d, room)
               THEN [tx EXCEPT ![d.to] = Append(@, d.read_value)] ELSE tx
      /\ chan' = c + 1
      /\ UNCHANGED sram

SkipChannel(c) ==
  /\ chan = c /\ ~dma[c].setup
  /\ chan' = c + 1
  /\ UNCHANGED <<dma, rx, tx, sram>>

DmaStep == BeginDma \/ \E c \in Channels : StepChannel(c) \/ SkipChannel(c)

-----------------------------------------------------------------------------
(* Between two cycles *)

\* The state machines and the host push and pop
OthersUseFifos ==
  /\ \/ /\ \E p \in Others.push_rx :
             Len(rx[p[1]]) < FifoDepth /\ rx' = [rx EXCEPT ![p[1]] = Append(@, p[2])]
        /\ UNCHANGED tx
     \/ /\ \E m \in Others.pop_rx :
             rx[m] # <<>> /\ rx' = [rx EXCEPT ![m] = Tail(@)]
        /\ UNCHANGED tx
     \/ /\ \E p \in Others.push_tx :
             Len(tx[p[1]]) < FifoDepth /\ tx' = [tx EXCEPT ![p[1]] = Append(@, p[2])]
        /\ UNCHANGED rx
     \/ /\ \E m \in Others.pop_tx :
             tx[m] # <<>> /\ tx' = [tx EXCEPT ![m] = Tail(@)]
        /\ UNCHANGED rx
  /\ UNCHANGED <<dma, sram>>

Between ==
  /\ chan = ChanEnd
  /\ \/ SetupChain /\ UNCHANGED <<rx, tx>>
     \/ HostUsesSram /\ UNCHANGED <<rx, tx>>
     \/ OthersUseFifos
  /\ UNCHANGED chan

DmaNext == DmaStep \/ Between

DmaSpec == DmaInit /\ [][DmaNext]_dmaVars
=============================================================================
