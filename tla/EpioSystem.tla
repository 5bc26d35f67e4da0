----------------------------- MODULE EpioSystem -----------------------------
(***************************************************************************)
(* The emulator as its clients use it: configured by epio_from_apio, and   *)
(* then stepped, with the DMA engine at the end of every cycle.  A cycle   *)
(* is the loop over the state machines (turn), the IRQ requests and the    *)
(* loop over the DMA channels (chan).  Between two cycles the host makes   *)
(* its calls; one of them, epio_wait_tx_fifo, runs cycles itself.          *)
(***************************************************************************)
EXTENDS EpioApio, EpioStall, EpioDmaChannel

CONSTANT Waits               \* the calls of epio_wait_tx_fifo the host makes

VARIABLE wait                \* the call of epio_wait_tx_fifo

systemVars == <<bootVars, sram, dma, chan, wait>>

NoLimit == -1                \* the count that waits for ever

\* The loop of epio_wait_tx_fifo is at its test, or in a cycle, or has returned
\* result
WaitState ==
  [at : {"returned", "test", "cycle"}, m : SMs,
   count : Nat \cup {NoLimit}, steps : Nat, result : Nat \cup {-1}]

ASSUME SystemAssumption == Waits \subseteq SMs \X (Nat \cup {NoLimit})

\* The parts keep their types and, with four of them pushing, the FIFOs their bound
SystemTypeOK ==
  TypeOK /\ FifoBounded /\ boot \in BootState /\ ChannelsTypeOK /\ wait \in WaitState

SystemInit ==
  /\ BootInit
  /\ ChannelsInit
  /\ wait = [at |-> "returned", m |-> <<0, 0>>, count |-> 0, steps |-> 0,
             result |-> 0]

\* Between two cycles
Rests == Booted /\ turn = <<0, 0>> /\ chan = ChanEnd

-----------------------------------------------------------------------------
(* A cycle.  While the host waits only the waiting runs cycles.             *)

\* The loop over the machines is under way, or may begin
Steps ==
  /\ chan = ChanEnd
  /\ Booted
  /\ Rests => wait.at # "test"
  /\ \E m \in SMs : Delayed(m) \/ Step(m) \/ Skip(m)
  /\ UNCHANGED <<boot, sram, dma, chan, wait>>

\* The IRQ requests are applied, and the loop over the channels begins
AppliesIrqs ==
  /\ FinishStep
  /\ chan' = 0
  /\ UNCHANGED <<boot, sram, dma, wait>>

BugEndsCycle(c) == wait

\* When the last channel has been stepped a waiting host looks again
EndsCycle(c) ==
  [wait EXCEPT !.at = IF c = NumChannels - 1 /\ @ = "cycle" THEN "test" ELSE @]

StepsChannel(c) ==
  LET d == dma[c]
      room == Len(sm[d.to].tx) < FifoDepth
      q == sm[d.from].rx
  IN  /\ chan = c /\ d.setup /\ FetchAllowed(d, room)
      /\ dma' = [dma EXCEPT ![c] = NextChannel(d, room, q)]
      /\ sm' = [m \in SMs |->
                  [sm[m] EXCEPT
                     !.rx = IF Accepts(d, room, q) /\ m = d.from THEN Tail(@) ELSE @,
                     !.tx = IF Pushes(d, room) /\ m = d.to
                            THEN Append(@, d.read_value) ELSE @]]
      /\ chan' = c + 1
      /\ wait' = EndsCycle(c)
      /\ UNCHANGED <<instr, base, reg, irq, gpio, turn, boot, sram>>

SkipsChannel(c) ==
  /\ chan = c /\ ~dma[c].setup
  /\ chan' = c + 1
  /\ wait' = EndsCycle(c)
  /\ UNCHANGED <<vars, boot, sram, dma>>

RunsCycle ==
  \/ Steps
  \/ AppliesIrqs
  \/ \E c \in Channels : StepsChannel(c) \/ SkipsChannel(c)

-----------------------------------------------------------------------------
(* The host's calls *)

\* The call begins, at the first test of its loop
WaitTx(m, count) ==
  wait' = [at |-> "test", m |-> m, count |-> count, steps |-> 0, result |-> 0]

BugExpired == wait.count # NoLimit /\ wait.steps + 1 >= wait.count

\* The loop condition: the FIFO is not looked at once the steps are used up
Expired == wait.count # NoLimit /\ wait.steps >= wait.count

Returns(result) == wait' = [wait EXCEPT !.at = "returned", !.result = result]

WaitTest ==
  /\ Rests /\ wait.at = "test"
  /\ \/ Expired /\ Returns(-1)
     \/ ~Expired /\ sm[wait.m].tx # <<>> /\ Returns(wait.steps)
     \/ /\ ~Expired /\ sm[wait.m].tx = <<>>
        /\ wait' = [wait EXCEPT !.at = "cycle", !.steps = @ + 1]
  /\ UNCHANGED <<bootVars, sram, dma, chan>>

\* epio_dma_setup_read_pio_chain, the SRAM calls, epio_wait_tx_fifo, and the
\* calls of EpioExec
ClientCalls ==
  \/ (SetupChain \/ HostUsesSram) /\ UNCHANGED <<vars, wait>>
  \/ /\ \E w \in Waits : WaitTx(w[1], w[2])
     /\ UNCHANGED <<vars, sram, dma>>
  \/ /\ HostCall
     /\ UNCHANGED <<sram, dma, wait>>

HostCallsSystem ==
  /\ Rests /\ wait.at = "returned"
  /\ ClientCalls
  /\ UNCHANGED <<boot, chan>>

SystemNext ==
  \/ FromApio /\ UNCHANGED <<sram, dma, chan, wait>>
  \/ RunsCycle
  \/ WaitTest
  \/ HostCallsSystem

SystemSpec == SystemInit /\ [][SystemNext]_systemVars

-----------------------------------------------------------------------------
RxFifos == [m \in SMs |-> sm[m].rx]

TxFifos == [m \in SMs |-> sm[m].tx]

Lookup == INSTANCE EpioLookup WITH
            chain <- Uses, flight <- Hands, rx <- RxFifos, tx <- TxFifos

\* Between the state machines that ask and those that wait for an answer the
\* channels are what EpioLookup promises, from the end of epio_from_apio on, which
\* leaves channels and SRAM alone: each address a machine pushes is answered once
\* and in order, and whatever an instruction, a call of the host or a cycle does
\* besides, it moves one word of one FIFO at most (epio_dma_step, and all that
\* pushes and pops).
ChainsServe ==
  /\ Lookup!LookupInit
  /\ [][IF Booted THEN Lookup!LookupNext ELSE UNCHANGED <<dma, sram>>]_(Lookup!lookupVars)
=============================================================================
