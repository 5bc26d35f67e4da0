---------------------------- MODULE EpioDmaLookup -----------------------------
(***************************************************************************)
(* The DMA engine implements the lookups of EpioLookup, and what follows   *)
(* for those who wait for an answer.                                       *)
(***************************************************************************)
EXTENDS EpioDma

Lookup == INSTANCE EpioLookup WITH chain <- Uses, flight <- Hands

\* The DMA engine implements the lookups: each address is answered once and in
\* order, with the content of the SRAM when its read was due, in every interleaving
\* of two channels on the same FIFOs with pushes, pulls, writes to the SRAM and
\* new set-ups (epio_dma_step, epio_sram_read_...).
ChainsAreLookups == Lookup!LookupSpec

Stepped(c) == chan = c /\ chan' # c

\* A chain that is left as it is, is stepped again and again with room in the TX
\* FIFO, and has something in hand again and again, keeps delivering: its two
\* countdowns never wait for each other for ever, nor for another chain (the
\* write_delay and read_delay of epio_dma_step, "Check again next cycle").
ChainsDeliver ==
  \A c \in Channels :
    /\ <>[][chan # c => dma'[c] = dma[c]]_dmaVars
    /\ []<><<Stepped(c) /\ Len(tx[dma[c].to]) < FifoDepth>>_dmaVars
    /\ []<>(Hand(dma[c]) # <<>>)
    => []<><<Stepped(c) /\ tx' # tx>>_dmaVars
===============================================================================
