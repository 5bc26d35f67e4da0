----------------------- MODULE EpioDmaChannel_proofs ------------------------
(***************************************************************************)
(* A channel of the DMA engine, whatever its delays of at least one cycle: *)
(* a step keeps its type and what it was set up with, and does to what the *)
(* channel has in hand what EpioLookup asks for.  Both those who step the  *)
(* channels, EpioDma and EpioSystem, rest on this.                         *)
(***************************************************************************)
EXTENDS EpioDmaChannel, TLAPS

-----------------------------------------------------------------------------
(* Types *)

\* Each part of a step leaves a well-typed channel.
LEMMA ChannelTyped ==
  ASSUME NEW d \in DmaState, NEW room \in BOOLEAN, NEW q \in Seq(Word)
  PROVE  /\ Written(d, room) \in DmaState
         /\ Fetched(d, room) \in DmaState
         /\ NextChannel(d, room, q) \in DmaState
<1>1. {} \in Word
  BY DEF Word
<1>2. Written(d, room) \in DmaState
  <2> DEFINE delay == IF d.write_delay = 0 \/ Pushes(d, room) THEN 0
                      ELSE IF d.write_delay = 1 THEN 1 ELSE d.write_delay - 1
             value == IF Pushes(d, room) THEN {} ELSE d.read_value
  <2>1. delay \in Cycles
    BY DEF DmaState, Cycles
  <2>2. value \in Word
    BY <1>1 DEF DmaState
  <2>3. Written(d, room) =
          [[d EXCEPT !.write_delay = delay] EXCEPT !.read_value = value]
    BY DEF Written, DmaState
  <2> HIDE DEF delay, value
  <2> QED
    BY <2>1, <2>2, <2>3 DEF DmaState
<1>3. Fetched(d, room) \in DmaState
  <2> DEFINE e == Written(d, room)
             value == Replicated(Load(e.read_addr, Size(e.bit_mode)), e.bit_mode)
             delay == IF e.read_delay = 0 THEN 0
                      ELSE IF e.read_delay = 1 THEN 1 ELSE e.read_delay - 1
  <2>1. value \in Word
    BY DEF Replicated, ShiftLeft, Word
  <2>2. delay \in Cycles /\ 0 \in Cycles /\ e.write_cycles \in Cycles
    BY <1>2 DEF DmaState, Cycles
  <2>3. Fetched(d, room) =
          IF Fetches(d, room)
          THEN [e EXCEPT !.read_delay = 0, !.write_delay = e.write_cycles,
                         !.read_value = value]
          ELSE [e EXCEPT !.read_delay = delay]
    BY DEF Fetched
  <2> HIDE DEF value, e, delay
  <2>4. e \in DmaState
    BY <1>2 DEF e
  <2> QED
    BY <2>1, <2>2, <2>3, <2>4 DEF DmaState
<1>4. CASE ~Accepts(d, room, q)
  BY <1>2, <1>3, <1>4 DEF NextChannel
<1>5. CASE Accepts(d, room, q)
  <2> DEFINE e == Fetched(d, room)
  <2>1. Head(q) \in Word
    BY <1>5 DEF Accepts
  <2>2. NextChannel(d, room, q) =
          [e EXCEPT !.read_addr = Head(q), !.read_delay = e.read_cycles]
    BY <1>5 DEF NextChannel
  <2> HIDE DEF e
  <2>3. e \in DmaState
    BY <1>3 DEF e
  <2> QED
    BY <1>2, <1>3, <2>1, <2>2, <2>3 DEF DmaState
<1> QED
  BY <1>4, <1>5

\* A channel that is set up has a width and delays of at least a cycle: what it
\* holds is then never lost between its two countdowns.
InUse(d) == d.bit_mode \in BitModes /\ d.read_cycles > 0 /\ d.write_cycles > 0

\* What a step of a channel leaves alone.
SetFields == {"setup", "from", "to", "read_cycles", "write_cycles", "bit_mode"}

LEMMA StepKeeps ==
  ASSUME NEW d \in DmaState, NEW room \in BOOLEAN, NEW q \in Seq(Word),
         NEW f \in SetFields
  PROVE  /\ Written(d, room)[f] = d[f]
         /\ Fetched(d, room)[f] = d[f]
         /\ NextChannel(d, room, q)[f] = d[f]
<1>1. Written(d, room) \in DmaState /\ Fetched(d, room) \in DmaState
  BY ChannelTyped
<1>2. Written(d, room)[f] = d[f]
  BY DEF Written, DmaState, SetFields
<1>3. Fetched(d, room)[f] = Written(d, room)[f]
  <2>1. CASE Fetches(d, room)
    BY <1>1, <2>1 DEF Fetched, DmaState, SetFields
  <2>2. CASE ~Fetches(d, room)
    BY <1>1, <2>2 DEF Fetched, DmaState, SetFields
  <2> QED
    BY <2>1, <2>2
<1>4. NextChannel(d, room, q)[f] = Fetched(d, room)[f]
  BY <1>1 DEF NextChannel, DmaState, SetFields
<1> QED
  BY <1>2, <1>3, <1>4

LEMMA StepInUse ==
  ASSUME NEW d \in DmaState, NEW room \in BOOLEAN, NEW q \in Seq(Word), InUse(d)
  PROVE  InUse(NextChannel(d, room, q))
<1>1. \A f \in SetFields : NextChannel(d, room, q)[f] = d[f]
  BY StepKeeps
<1>2. /\ NextChannel(d, room, q).bit_mode = d.bit_mode
      /\ NextChannel(d, room, q).read_cycles = d.read_cycles
      /\ NextChannel(d, room, q).write_cycles = d.write_cycles
  BY <1>1 DEF SetFields
<1> QED
  BY <1>2 DEF InUse

LEMMA ChannelResetTyped == DmaReset \in DmaState /\ ~DmaReset.setup
<1>1. <<0, 0>> \in SMs
  BY ChipAssumption DEF SMs, Blocks, SmNums
<1> QED
  BY <1>1 DEF DmaReset, DmaState, Cycles, Word

LEMMA SetUpInUse ==
  ASSUME NEW chain \in Chain
  PROVE  SetUp(chain) \in DmaState /\ InUse(SetUp(chain)) /\ SetUp(chain).setup
<1>1. {} \in Word /\ 0 \in Cycles /\ 1 .. 255 \subseteq Cycles
  BY DEF Word, Cycles
<1>2. /\ chain.from \in SMs /\ chain.to \in SMs
      /\ chain.read_cycles \in 1 .. 255 /\ chain.write_cycles \in 1 .. 255
      /\ chain.bit_mode \in BitModes
  BY DEF Chain
<1>3. SetUp(chain) \in DmaState
  BY <1>1, <1>2 DEF SetUp, DmaState
<1>4. InUse(SetUp(chain)) /\ SetUp(chain).setup
  BY <1>2 DEF SetUp, InUse
<1> QED
  BY <1>3, <1>4

-----------------------------------------------------------------------------
(* The channels together *)

ChannelsInv ==
  /\ ChannelsTypeOK
  /\ \A c \in Channels : dma[c].setup => InUse(dma[c])

LEMMA InitChannelsInv == ChannelsInit => ChannelsInv
<1> SUFFICES ASSUME ChannelsInit PROVE ChannelsInv
  OBVIOUS
<1>1. SramTypeOK
  BY DEF ChannelsInit, SramInit, SramTypeOK, Byte
<1> QED
  BY <1>1, ChannelResetTyped DEF ChannelsInit, ChannelsInv, ChannelsTypeOK

\* The loop over the channels goes on to the next one, or ends.
LEMMA LoopGoesOn ==
  /\ 0 \in Channels \cup {ChanEnd}
  /\ \A c \in Channels : c + 1 \in Channels \cup {ChanEnd}
BY ChannelAssumption DEF Channels, ChanEnd

LEMMA StepKeepsChannels ==
  ASSUME ChannelsInv, NEW c \in Channels, NEW room \in BOOLEAN,
         NEW q \in Seq(Word), dma[c].setup, chan' = c + 1, sram' = sram,
         dma' = [dma EXCEPT ![c] = NextChannel(dma[c], room, q)]
  PROVE  ChannelsInv'
<1>1. dma[c] \in DmaState /\ InUse(dma[c])
  BY DEF ChannelsInv, ChannelsTypeOK
<1>2. /\ NextChannel(dma[c], room, q) \in DmaState
      /\ InUse(NextChannel(dma[c], room, q))
  BY <1>1, ChannelTyped, StepInUse
<1>3. dma' \in [Channels -> DmaState]
  BY <1>2 DEF ChannelsInv, ChannelsTypeOK
<1>4. \A e \in Channels : dma'[e].setup => InUse(dma'[e])
  <2> TAKE e \in Channels
  <2>1. CASE e = c
    BY <1>2, <2>1 DEF ChannelsInv, ChannelsTypeOK
  <2>2. CASE e # c
    BY <2>2 DEF ChannelsInv, ChannelsTypeOK
  <2> QED
    BY <2>1, <2>2
<1> QED
  BY <1>3, <1>4, LoopGoesOn DEF ChannelsInv, ChannelsTypeOK, SramTypeOK

\* The calls that write the SRAM leave bytes.
LEMMA StoresTyped ==
  ASSUME SramTypeOK, NEW a, NEW size, NEW w, NEW bytes \in Seq(Byte),
         Store(a, size, w) \/ SramSet(a, bytes)
  PROVE  SramTypeOK'
<1>1. CASE Store(a, size, w)
  <2>1. \A k : Low(ShiftRight(w, k), 8) \in Byte
    BY DEF Low, Byte
  <2> QED
    BY <1>1, <2>1 DEF Store, SramTypeOK
<1>2. CASE SramSet(a, bytes)
  <2> DEFINE at(n) == Plus(a, WordOf(n))
  <2>1. ASSUME NEW c \in SramAddrs, \E n \in DOMAIN bytes : c = at(n - 1)
        PROVE  bytes[CHOOSE n \in DOMAIN bytes : c = at(n - 1)] \in Byte
    BY <2>1
  <2> QED
    BY <1>2, <2>1 DEF SramSet, SramTypeOK
<1> QED
  BY <1>1, <1>2

LEMMA CallsKeepChannels ==
  ASSUME ChannelsInv, SetupChain \/ HostUsesSram, chan' = chan
  PROVE  ChannelsInv'
<1>1. CASE SetupChain
  <2>1. PICK c \in Channels, chain \in Chain :
          dma' = [dma EXCEPT ![c] = SetUp(chain)] /\ sram' = sram
    BY <1>1, ChannelAssumption DEF SetupChain, DmaHostCalls
  <2>2. dma' \in [Channels -> DmaState]
    BY <2>1, SetUpInUse DEF ChannelsInv, ChannelsTypeOK
  <2>3. \A e \in Channels : dma'[e].setup => InUse(dma'[e])
    BY <2>1, SetUpInUse DEF ChannelsInv, ChannelsTypeOK
  <2> QED
    BY <2>1, <2>2, <2>3 DEF ChannelsInv, ChannelsTypeOK, SramTypeOK
<1>2. CASE HostUsesSram
  <2>1. SramTypeOK /\ <<>> \in Seq(Byte)
    BY DEF ChannelsInv, ChannelsTypeOK
  <2>2. ASSUME NEW s \in DmaHost.stores, Store(s[1], s[2], s[3]) PROVE SramTypeOK'
    BY <2>1, <2>2, StoresTyped
  <2>3. ASSUME NEW s \in DmaHost.sets, SramSet(s[1], s[2]) PROVE SramTypeOK'
    BY <2>1, <2>3, StoresTyped, ChannelAssumption DEF DmaHostCalls
  <2> QED
    BY <1>2, <2>2, <2>3 DEF HostUsesSram, ChannelsInv, ChannelsTypeOK
<1> QED
  BY <1>1, <1>2

-----------------------------------------------------------------------------
(* What each part of a step does to what a channel has in hand *)

Value(w) == [known |-> TRUE, word |-> w]

Addr(w) == [known |-> FALSE, word |-> w]

\* What is in hand, by which of the delays are running.
LEMMA HandForms ==
  ASSUME NEW d \in DmaState
  PROVE  /\ d.write_delay = 0 /\ d.read_delay = 0 => Hand(d) = <<>>
         /\ d.write_delay # 0 /\ d.read_delay = 0 =>
              Hand(d) = <<Value(d.read_value)>>
         /\ d.write_delay = 0 /\ d.read_delay # 0 =>
              Hand(d) = <<Addr(d.read_addr)>>
         /\ d.write_delay # 0 /\ d.read_delay # 0 =>
              Hand(d) = <<Value(d.read_value), Addr(d.read_addr)>>
<1>1. d.write_delay \in 0 .. 255 /\ d.read_delay \in 0 .. 255
  BY DEF DmaState, Cycles
<1>2. /\ d.write_delay > 0 <=> d.write_delay # 0
      /\ d.read_delay > 0 <=> d.read_delay # 0
  BY <1>1
<1> QED
  BY <1>2, Zenon DEF Hand, Value, Addr

\* The write side delivers the oldest request, which has been looked up.
LEMMA HandWritten ==
  ASSUME NEW d \in DmaState, NEW room \in BOOLEAN
  PROVE  /\ Pushes(d, room) => /\ Hand(d) # <<>>
                               /\ Hand(d)[1] = Value(d.read_value)
                               /\ Hand(Written(d, room)) = Tail(Hand(d))
         /\ ~Pushes(d, room) => Hand(Written(d, room)) = Hand(d)
<1> DEFINE e == Written(d, room)
<1>1. e \in DmaState
  <2>1. <<>> \in Seq(Word)
    OBVIOUS
  <2> QED
    BY <2>1, ChannelTyped
<1>2. e.read_delay = d.read_delay /\ e.read_addr = d.read_addr
  BY <1>1 DEF Written, DmaState
<1>3. CASE Pushes(d, room)
  <2>1. d.write_delay = 1 /\ e.write_delay = 0
    BY <1>1, <1>3 DEF Written, Pushes, DmaState
  <2>2. CASE d.read_delay = 0
    <3>1. Hand(d) = <<Value(d.read_value)>> /\ Hand(e) = <<>>
      BY <1>1, <1>2, <2>1, <2>2, HandForms
    <3> QED
      BY <1>3, <3>1
  <2>3. CASE d.read_delay # 0
    <3>1. /\ Hand(d) = <<Value(d.read_value), Addr(d.read_addr)>>
          /\ Hand(e) = <<Addr(d.read_addr)>>
      BY <1>1, <1>2, <2>1, <2>3, HandForms
    <3> QED
      BY <1>3, <3>1
  <2> QED
    BY <2>2, <2>3
<1>4. CASE ~Pushes(d, room)
  <2>1. e.read_value = d.read_value
    BY <1>1, <1>4 DEF Written, DmaState
  <2>2. d.write_delay = 0 <=> e.write_delay = 0
    BY <1>1, <1>4 DEF Written, DmaState, Cycles
  <2>3. Hand(e) = Hand(d)
    BY <1>1, <1>2, <2>1, <2>2, HandForms
  <2> QED
    BY <1>4, <2>3
<1> QED
  BY <1>3, <1>4

\* What the read side reads.
Read(d) == Replicated(Load(d.read_addr, Size(d.bit_mode)), d.bit_mode)

\* The read side looks up the oldest request, when all before it are delivered.
LEMMA HandFetched ==
  ASSUME NEW d \in DmaState, NEW room \in BOOLEAN, InUse(d)
  PROVE  /\ Fetches(d, room) => /\ Hand(Written(d, room)) = <<Addr(d.read_addr)>>
                                /\ Hand(Fetched(d, room)) = <<Value(Read(d))>>
         /\ ~Fetches(d, room) => Hand(Fetched(d, room)) = Hand(Written(d, room))
<1> DEFINE w == Written(d, room)
           e == Fetched(d, room)
<1>0. <<>> \in Seq(Word)
  OBVIOUS
<1>1. w \in DmaState /\ e \in DmaState
  BY <1>0, ChannelTyped
<1>2. w.read_addr = d.read_addr /\ w.read_delay = d.read_delay
  BY <1>1 DEF Written, DmaState
<1>3. w.bit_mode = d.bit_mode /\ w.write_cycles = d.write_cycles
  BY <1>0, StepKeeps DEF SetFields
<1>4. CASE Fetches(d, room)
  <2>1. w.write_delay = 0 /\ w.read_delay = 1
    BY <1>2, <1>4 DEF Fetches
  <2>2. /\ e.read_delay = 0 /\ e.write_delay = d.write_cycles
        /\ e.read_value = Read(d)
    BY <1>1, <1>2, <1>3, <1>4 DEF Fetched, DmaState, Read
  <2>3. d.write_cycles # 0
    BY DEF InUse
  <2> QED
    BY <1>1, <1>2, <1>4, <2>1, <2>2, <2>3, HandForms
<1>5. CASE ~Fetches(d, room)
  <2>1. /\ e.write_delay = w.write_delay /\ e.read_value = w.read_value
        /\ e.read_addr = w.read_addr
    BY <1>1, <1>5 DEF Fetched, DmaState
  <2>2. w.read_delay = 0 <=> e.read_delay = 0
    BY <1>1, <1>5 DEF Fetched, DmaState, Cycles
  <2>3. Hand(e) = Hand(w)
    BY <1>1, <2>1, <2>2, HandForms
  <2> QED
    BY <1>5, <2>3
<1> QED
  BY <1>4, <1>5

\* A new address comes behind what is in hand, all of it looked up.
LEMMA HandNext ==
  ASSUME NEW d \in DmaState, NEW room \in BOOLEAN, NEW q \in Seq(Word), InUse(d)
  PROVE  LET known == Hand(Fetched(d, room))
             next == Hand(NextChannel(d, room, q))
         IN  /\ Accepts(d, room, q) =>
                  /\ \A k \in DOMAIN known : known[k].known
                  /\ next = Append(known, Addr(Head(q)))
             /\ ~Accepts(d, room, q) => next = known
<1> DEFINE w == Fetched(d, room)
           e == NextChannel(d, room, q)
<1>1. w \in DmaState /\ e \in DmaState
  BY ChannelTyped
<1>2. w.read_cycles = d.read_cycles
  BY StepKeeps DEF SetFields
<1>3. CASE Accepts(d, room, q)
  <2>1. w.read_delay = 0
    BY <1>3 DEF Accepts
  <2>2. /\ e.read_delay = d.read_cycles /\ e.write_delay = w.write_delay
        /\ e.read_addr = Head(q) /\ e.read_value = w.read_value
    BY <1>1, <1>2, <1>3 DEF NextChannel, DmaState
  <2>3. e.read_delay # 0
    BY <2>2 DEF InUse
  <2>4. CASE w.write_delay = 0
    <3>1. Hand(w) = <<>> /\ Hand(e) = <<Addr(Head(q))>>
      BY <1>1, <2>1, <2>2, <2>3, <2>4, HandForms
    <3> QED
      BY <1>3, <3>1
  <2>5. CASE w.write_delay # 0
    <3>1. /\ Hand(w) = <<Value(w.read_value)>>
          /\ Hand(e) = <<Value(w.read_value), Addr(Head(q))>>
      BY <1>1, <2>1, <2>2, <2>3, <2>5, HandForms
    <3>2. Value(w.read_value).known
      BY DEF Value
    <3> QED
      BY <1>3, <3>1, <3>2
  <2> QED
    BY <2>4, <2>5
<1>4. CASE ~Accepts(d, room, q)
  BY <1>4 DEF NextChannel
<1> QED
  BY <1>3, <1>4

-----------------------------------------------------------------------------
(* The word that is read is the one a lookup asks for *)

\* Every byte of an access is in the SRAM.
LEMMA BytesAccessible ==
  ASSUME SramTypeOK, NEW a, NEW size \in Sizes, Accessible(a, size),
         NEW j \in 0 .. size - 1
  PROVE  sram[ByteAddr(a, j)] \subseteq 0 .. 7
<1> DEFINE lane == (a \cap {0, 1}) \cup (ByteAddr(a, j) \ a)
<1>1. a \in SramAddrs
  BY DEF Accessible
<1>2. lane \in Lanes /\ ByteAddr(a, j) = (a \ {0, 1}) \cup lane
  BY DEF Lanes, ByteAddr
<1>3. ByteAddr(a, j) \in SramAddrs
  BY <1>1, <1>2, SramAssumption
<1> QED
  BY <1>3 DEF SramTypeOK, Byte

\* Bit k of what is loaded is bit k % 8 of byte k \div 8.
LEMMA LoadBit ==
  ASSUME SramTypeOK, NEW a, NEW size \in Sizes, Accessible(a, size),
         NEW k \in Int
  PROVE  k \in Load(a, size) <=>
           /\ k \in 0 .. 8 * size - 1
           /\ k % 8 \in sram[ByteAddr(a, k \div 8)]
<1>1. Bits = 0 .. 31
  BY SramAssumption DEF Bits
<1>2. k \in Load(a, size) <=>
        k \in Bits /\ \E j \in 0 .. size - 1 : k - 8 * j \in sram[ByteAddr(a, j)]
  BY DEF Load, ShiftLeft
<1>3. ASSUME NEW j \in 0 .. size - 1, k - 8 * j \in sram[ByteAddr(a, j)]
      PROVE  j = k \div 8 /\ k - 8 * j = k % 8 /\ k \in 0 .. 8 * size - 1
  <2>1. k - 8 * j \in 0 .. 7
    BY <1>3, BytesAccessible
  <2> QED
    BY <2>1 DEF Sizes
<1>4. ASSUME k \in 0 .. 8 * size - 1
      PROVE  k \in Bits /\ k \div 8 \in 0 .. size - 1 /\ k - 8 * (k \div 8) = k % 8
  BY <1>1, <1>4 DEF Sizes
<1> QED
  BY <1>2, <1>3, <1>4

\* The item at address a over and over, as EpioLookup has it
SramContent(a, mode) ==
  {k \in Bits : k % 8 \in sram[ByteAddr(a, (k % mode) \div 8)]}

\* The word a channel reads answers the address it has taken.
LEMMA ReadIsContent ==
  ASSUME SramTypeOK, NEW a, NEW mode \in BitModes, Accessible(a, Size(mode))
  PROVE  Replicated(Load(a, Size(mode)), mode) = SramContent(a, mode)
<1> DEFINE loaded == Load(a, Size(mode))
<1>1. Bits = 0 .. 31
  BY SramAssumption DEF Bits
<1>2. Size(mode) \in Sizes /\ 8 * Size(mode) = mode
  BY DEF Size, Sizes, BitModes
<1>3. \A k \in Int : k \in loaded <=>
        k \in 0 .. mode - 1 /\ k % 8 \in sram[ByteAddr(a, k \div 8)]
  BY <1>2, LoadBit
<1>4. Replicated(loaded, mode) =
        {k \in Bits : \E n \in 0 .. 3 : k - n * mode \in loaded}
  BY DEF Replicated, ShiftLeft
<1> HIDE DEF loaded
<1>5. ASSUME NEW k \in Bits
      PROVE  (\E n \in 0 .. 3 : k - n * mode \in loaded) <=>
               k % 8 \in sram[ByteAddr(a, (k % mode) \div 8)]
  <2>1. (k % mode) % 8 = k % 8 /\ k % mode \in 0 .. mode - 1
    BY <1>1 DEF BitModes
  <2>2. k % mode \in loaded <=> k % 8 \in sram[ByteAddr(a, (k % mode) \div 8)]
    BY <2>1, <1>3
  <2>3. \E n \in 0 .. 3 : k - n * mode = k % mode
    <3>1. k \div mode \in 0 .. 3 /\ k - (k \div mode) * mode = k % mode
      BY <1>1 DEF BitModes
    <3> QED
      BY <3>1
  <2>4. ASSUME NEW n \in 0 .. 3, k - n * mode \in loaded
        PROVE  k - n * mode = k % mode
    <3>1. k - n * mode \in Int
      BY <1>1 DEF BitModes
    <3>2. k - n * mode \in 0 .. mode - 1
      BY <1>3, <2>4, <3>1
    <3> QED
      BY <1>1, <3>2 DEF BitModes
  <2> QED
    BY <2>2, <2>3, <2>4
<1>6. Replicated(loaded, mode) =
        {k \in Bits : k % 8 \in sram[ByteAddr(a, (k % mode) \div 8)]}
  BY <1>4, <1>5
<1> QED
  BY <1>6 DEF loaded, SramContent

-----------------------------------------------------------------------------
(* A step serves the requests in hand *)

\* What is in hand after the write side, after the read side, and after the step
Kept(d, room) == IF Pushes(d, room) THEN Tail(Hand(d)) ELSE Hand(d)

Known(d, room) ==
  IF Fetches(d, room)
  THEN [Kept(d, room) EXCEPT ![1] = Value(SramContent(@.word, d.bit_mode))]
  ELSE Kept(d, room)

Taken(d, room, q) ==
  IF Accepts(d, room, q) THEN Append(Known(d, room), Addr(Head(q)))
  ELSE Known(d, room)

LEMMA StepServesHand ==
  ASSUME SramTypeOK, NEW d \in DmaState, InUse(d), NEW room \in BOOLEAN,
         NEW q \in Seq(Word), FetchAllowed(d, room)
  PROVE  /\ Pushes(d, room) =>
              /\ Hand(d) # <<>> /\ Hand(d)[1].known
              /\ Hand(d)[1].word = d.read_value
         /\ Fetches(d, room) =>
              Kept(d, room) # <<>> /\ ~Kept(d, room)[1].known
         /\ Accepts(d, room, q) =>
              /\ q # <<>>
              /\ \A k \in DOMAIN Known(d, room) : Known(d, room)[k].known
         /\ Hand(NextChannel(d, room, q)) = Taken(d, room, q)
         /\ Use(NextChannel(d, room, q)) = Use(d)
<1>1. Pushes(d, room) => Hand(d) # <<>> /\ Hand(d)[1] = Value(d.read_value)
  BY HandWritten
<1>2. Kept(d, room) = Hand(Written(d, room))
  BY HandWritten DEF Kept
<1>3. Fetches(d, room) =>
        /\ Kept(d, room) = <<Addr(d.read_addr)>>
        /\ Hand(Fetched(d, room)) = <<Value(SramContent(d.read_addr, d.bit_mode))>>
  <2> SUFFICES ASSUME Fetches(d, room)
               PROVE  /\ Hand(Written(d, room)) = <<Addr(d.read_addr)>>
                      /\ Hand(Fetched(d, room)) =
                           <<Value(SramContent(d.read_addr, d.bit_mode))>>
    BY <1>2
  <2>1. Accessible(d.read_addr, Size(d.bit_mode)) /\ d.bit_mode \in BitModes
    BY DEF FetchAllowed, InUse
  <2>2. Read(d) = SramContent(d.read_addr, d.bit_mode)
    BY <2>1, ReadIsContent DEF Read
  <2> QED
    BY <2>2, HandFetched
<1>4. Known(d, room) = Hand(Fetched(d, room))
  <2>1. CASE Fetches(d, room)
    <3>1. Addr(d.read_addr).word = d.read_addr
      BY DEF Addr
    <3>2. [<<Addr(d.read_addr)>> EXCEPT ![1] =
             Value(SramContent(@.word, d.bit_mode))] =
            <<Value(SramContent(d.read_addr, d.bit_mode))>>
      BY <3>1
    <3> QED
      BY <1>3, <2>1, <3>2, Zenon DEF Known
  <2>2. CASE ~Fetches(d, room)
    BY <1>2, <2>2, HandFetched DEF Known
  <2> QED
    BY <2>1, <2>2
<1>5. Fetches(d, room) => Kept(d, room) # <<>> /\ ~Kept(d, room)[1].known
  <2>1. ~Addr(d.read_addr).known
    BY DEF Addr
  <2> QED
    BY <1>3, <2>1
<1>6. Hand(NextChannel(d, room, q)) = Taken(d, room, q)
  BY <1>4, HandNext DEF Taken
<1>7. Accepts(d, room, q) =>
        q # <<>> /\ \A k \in DOMAIN Known(d, room) : Known(d, room)[k].known
  BY <1>4, HandNext DEF Accepts
<1>8. Use(NextChannel(d, room, q)) = Use(d)
  <2>1. \A f \in SetFields : NextChannel(d, room, q)[f] = d[f]
    BY StepKeeps
  <2> QED
    BY <2>1 DEF Use, SetFields
<1>9. Value(d.read_value).known /\ Value(d.read_value).word = d.read_value
  BY DEF Value
<1> QED
  BY <1>1, <1>5, <1>6, <1>7, <1>8, <1>9
=============================================================================
