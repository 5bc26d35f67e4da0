-------------------------------- MODULE MCDma --------------------------------
(***************************************************************************)
(* Two DMA channels between the FIFOs of two state machines.  The machine  *)
(* Reader pushes addresses and the machine Writer pulls the answers,       *)
(* whenever they like; the host sets the channels up, and up again, with   *)
(* other delays and widths, and rewrites the two words of SRAM they read.  *)
(***************************************************************************)
EXTENDS EpioDmaLookup

Reader == <<0, 0>>
Writer == <<0, 1>>

\* Two words of SRAM, at 0x20000000 and 0x20000004
Start == {29}

DmaAddrs == {a \cup lane : a \in {Start, Start \cup {2}}, lane \in Lanes}

ByteChain ==
  [from |-> Reader, to |-> Writer, read_cycles |-> 1, write_cycles |-> 2,
   bit_mode |-> 8]

HalfChain ==
  [from |-> Reader, to |-> Writer, read_cycles |-> 1, write_cycles |-> 1,
   bit_mode |-> 16]

WordChain ==
  [from |-> Reader, to |-> Writer, read_cycles |-> 2, write_cycles |-> 1,
   bit_mode |-> 32]

\* The bytes 9, 10, 11 and 12, for the first of the words
Image == <<{0, 3}, {1, 3}, {0, 1, 3}, {2, 3}>>

DmaOthers ==
  [push_rx |-> {Reader} \X {Start, Start \cup {2}}, pop_rx |-> {},
   push_tx |-> {}, pop_tx |-> {Writer}]

HostOfDma ==
  [chains |-> {<<0, ByteChain>>, <<0, WordChain>>, <<1, HalfChain>>},
   stores |-> {<<Start, 4, {}>>},
   sets |-> {<<Start, Image>>}]

=============================================================================
