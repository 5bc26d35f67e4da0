-------------------------------- MODULE MCRom --------------------------------
(***************************************************************************)
(* The sample ROM of src/test/onerom_programs.h, configured and loaded by  *)
(* epio_from_apio and then used as test_onerom_program uses it: the host   *)
(* fills the SRAM, sets a DMA chain up, drives the pins, waits for the     *)
(* first byte with epio_wait_tx_fifo and then changes the pins when it     *)
(* likes.  The pins Select and Select + 1 are driven, the others keep      *)
(* their pull-ups.                                                         *)
(*   Selector:  drives the data pins while the pin Select is low           *)
(*   Reader:    pushes 0x2000 and pins 8 to 23 as an address, every four   *)
(*              cycles                                                     *)
(*   Writer:    puts the byte it pulls on pins 0 to 7                      *)
(*   Loader:    never enabled, but two words for either FIFO and           *)
(*              instructions that pull and push one and turn pins 0 and 1  *)
(*              to outputs are recorded for it                             *)
(***************************************************************************)
EXTENDS EpioSystem

CONSTANTS MaxBurst,          \* changes of the pins before they are left alone
          Settle             \* cycles after which they count as left alone

VARIABLES client,            \* what the host does next
          quiet,             \* cycles since it changed the pins, up to Settle
          burst              \* changes since quiet was last Settle

romVars == <<systemVars, client, quiet, burst>>

Selector == <<0, 0>>
Reader == <<0, 1>>
Writer == <<0, 2>>
Loader == <<0, 3>>

DataPins == 0 .. 7
Select == 8

Nums(q) == [k \in DOMAIN q |-> WordOf(q[k])]

\*  0  mov pindirs, null     1  mov x, pins          2  jmp x--, 1
\*  3  mov pindirs, ~null    4  mov x, pins          5  jmp !x, 4
\*  6  in x, 16 [2]          7  in pins, 16          8  out pins, 8
RomProgram ==
  Nums(<<\hA063, \hA020, \h0041, \hA06B, \hA020, \h0024,
         \h4230, \h4010, \h6008>>)

RomSm(first, end, execctrl, shiftctrl, pinctrl, tx, pre) ==
  [first |-> first, start |-> first, end |-> end,
   execctrl |-> WordOf(execctrl), shiftctrl |-> WordOf(shiftctrl),
   pinctrl |-> WordOf(pinctrl), tx |-> Nums(tx), rx |-> <<>>, pre |-> Nums(pre),
   enabled |-> TRUE]

\* The recorded instructions are jumps to the start, pull block (80A0),
\* mov x, osr (A027), push noblock (8000) and set pindirs, 3 (E083)
RomSms ==
  [m \in SMs |->
     CASE m = Selector -> RomSm(0, 5, \h5000, \h1, \h840000, <<>>, <<0>>)
       [] m = Reader -> RomSm(6, 7, \h7300, \h10010, \h40000, <<\h2000>>,
                              <<\h80A0, \hA027, 6>>)
       [] m = Writer -> RomSm(8, 8, \h8400, \h100A0000, \h800000, <<>>, <<8>>)
       [] m = Loader -> [RomSm(9, 9, \h1F000, 0, \h8000000, <<\h11, \h22>>,
                               <<\h80A0, \hA027, \h8000, \hE083>>)
                           EXCEPT !.rx = Nums(<<\h33, \h44>>),
                                  !.enabled = FALSE]]

RomApio ==
  [gpio_base |-> [b \in Blocks |-> 0], instr |-> [b \in Blocks |-> RomProgram],
   sms |-> RomSms, inverted |-> {}, force_low |-> {}, force_high |-> {},
   output_block |-> [p \in Gpios |-> IF p \in DataPins THEN 0 ELSE NoBlock]]

\* The SRAM of the addresses the pins can form: 0x2000FFFC and on
FirstAddr == WordOf(\h2000FFFC)

RomAddrs == {FirstAddr \cup lane : lane \in SUBSET {0, 1}}

RomChain ==
  [from |-> Reader, to |-> Writer, read_cycles |-> 4, write_cycles |-> 4,
   bit_mode |-> 8]

\* 0x12345678, a word or its bytes
RomDmaHost ==
  [chains |-> {<<0, RomChain>>},
   stores |-> {<<FirstAddr, 4, WordOf(\h12345678)>>},
   sets |-> {<<FirstAddr, Nums(<<\h78, \h56, \h34, \h12>>)>>}]

RomHost ==
  [push_tx |-> {}, push_rx |-> {}, pop_tx |-> {}, pop_rx |-> {}, irqs |-> {},
   toggles |-> {}, plays |-> {Select, Select + 1}, pins |-> {}, resets |-> FALSE,
   regs |-> {}, instrs |-> {}, execs |-> {}, bases |-> {}]

\* As long as it takes, longer than it takes, and not long enough; and exactly as long,
\* of which documentation and code differ
RomWaits == {Writer} \X {NoLimit, 13, 8}

ExactWait == {<<Writer, 12>>}

-----------------------------------------------------------------------------
RomInit == SystemInit /\ client = "image" /\ quiet = 0 /\ burst = 0

RomCycle ==
  /\ RunsCycle
  /\ wait.at = "cycle" \/ client = "serve"
  /\ quiet' = IF turn = LoopEnd /\ client = "serve" /\ quiet < Settle
              THEN quiet + 1 ELSE quiet
  /\ burst' = IF quiet' = Settle THEN 0 ELSE burst
  /\ UNCHANGED client

\* The calls of the host, in the order of the test
RomCall ==
  /\ HostCallsSystem
  /\ \/ /\ client = "image" /\ sram' # sram /\ client' = "chain"
        /\ UNCHANGED <<quiet, burst>>
     \/ /\ client = "chain" /\ dma' # dma /\ client' = "pins"
        /\ UNCHANGED <<quiet, burst>>
     \/ /\ client = "pins" /\ gpio' # gpio /\ client' = "wait"
        /\ UNCHANGED <<quiet, burst>>
     \/ /\ client = "wait" /\ wait' # wait /\ client' = "serve"
        /\ UNCHANGED <<quiet, burst>>
     \/ /\ client = "serve" /\ gpio'.input # gpio.input /\ burst < MaxBurst
        /\ quiet' = 0 /\ burst' = burst + 1
        /\ UNCHANGED client

RomNext ==
  \/ /\ \/ FromApio /\ UNCHANGED <<sram, dma, chan, wait>>
        \/ WaitTest
     /\ UNCHANGED <<client, quiet, burst>>
  \/ RomCycle
  \/ RomCall

RomSpec == RomInit /\ [][RomNext]_romVars

-----------------------------------------------------------------------------
\* The address on the pins, of which Select is the lowest bit
Address == {29} \cup {k \in 0 .. 15 : Input(Select + k)}

\* Once the pins have been left alone for Settle cycles the data pins are outputs
\* exactly if the ROM is selected, and their latches hold the byte at the address:
\* no stale word is left in a FIFO or in the DMA chain, and the latches that
\* turning the pins to inputs has raised ("Assume pull-ups") are written again.
ServesByte ==
  Rests /\ client = "serve" /\ quiet = Settle =>
    /\ gpio.dir = IF Input(Select) THEN {} ELSE DataPins
    /\ gpio.output \cap DataPins = sram[Address]

\* The DMA chain keeps up with the reader: no address waits behind another one,
\* so the reader never stalls with an address in its ISR that ages.
KeepsUp ==
  /\ Len(sm[Reader].rx) <= 1 /\ ~sm[Reader].stalled
  /\ Len(sm[Writer].tx) <= 1

\* The first byte takes 12 cycles from the call: a wait for ever or for longer returns
\* that number, and one that is much too short gives up (epio_wait_tx_fifo, and
\* src/test/onerom.c:43-47).
FirstByteInTime ==
  client = "serve" /\ wait.at = "returned" =>
    wait.result = IF wait.count = 8 THEN -1 ELSE 12

\* A wait returns, one for ever as well, when the cycles it runs do.
WaitsReturn ==
  []<><<turn' # turn \/ chan' # chan \/ wait' # wait>>_romVars
    => (wait.at = "test" ~> wait.at = "returned")

\* "Wait for a certain number of steps for something to be pushed to the TX FIFO":
\* a wait gives up only if that has not happened.
GivesUpOnNothing ==
  [][wait.at = "test" /\ wait'.at = "returned" /\ wait'.result = -1 =>
       sm[wait.m].tx = <<>>]_romVars
=============================================================================
