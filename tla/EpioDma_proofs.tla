--------------------------- MODULE EpioDma_proofs ----------------------------
(***************************************************************************)
(* The DMA engine stays within its types, and it implements EpioLookup,    *)
(* for any number of channels, FIFOs of any depth, any delays of at least  *)
(* one cycle and any use of the FIFOs and the SRAM by others.              *)
(***************************************************************************)
EXTENDS EpioDmaLookup, EpioDmaChannel_proofs

-----------------------------------------------------------------------------
(* Types *)

DmaInv == DmaTypeOK /\ ChannelsInv

LEMMA InitDmaInv == DmaInit => DmaInv
<1>1. <<>> \in Fifo
  BY DmaAssumption DEF Fifo
<1> QED
  BY <1>1, InitChannelsInv DEF DmaInit, DmaInv, DmaTypeOK, ChannelsInv

\* What a step finds at the FIFOs of its channel.
LEMMA StepFinds ==
  ASSUME DmaInv, NEW c \in Channels
  PROVE  LET d == dma[c]
             room == Len(tx[d.to]) < FifoDepth
         IN  /\ d \in DmaState /\ d.from \in SMs /\ d.to \in SMs
             /\ room \in BOOLEAN
             /\ rx[d.from] \in Seq(Word)
             /\ d.setup => InUse(d)
<1>1. dma[c] \in DmaState
  BY DEF DmaInv, DmaTypeOK, ChannelsTypeOK
<1>2. dma[c].from \in SMs /\ dma[c].to \in SMs
  BY <1>1 DEF DmaState
<1> QED
  BY <1>1, <1>2 DEF DmaInv, DmaTypeOK, Fifo, ChannelsInv

LEMMA StepChannelKeepsInv ==
  ASSUME DmaInv, NEW c \in Channels, StepChannel(c)
  PROVE  DmaInv'
<1> DEFINE d == dma[c]
           room == Len(tx[d.to]) < FifoDepth
           q == rx[d.from]
<1>1. /\ d \in DmaState /\ room \in BOOLEAN /\ q \in Seq(Word)
      /\ d.from \in SMs /\ d.to \in SMs
  BY StepFinds
<1>2. /\ d.setup /\ chan' = c + 1 /\ sram' = sram
      /\ dma' = [dma EXCEPT ![c] = NextChannel(d, room, q)]
      /\ rx' = IF Accepts(d, room, q) THEN [rx EXCEPT ![d.from] = Tail(@)] ELSE rx
      /\ tx' = IF Pushes(d, room)
               THEN [tx EXCEPT ![d.to] = Append(@, d.read_value)] ELSE tx
  BY DEF StepChannel
<1>3. ChannelsInv'
  <2>1. ChannelsInv
    BY DEF DmaInv
  <2> HIDE DEF room, q
  <2> QED
    BY <1>1, <1>2, <2>1, StepKeepsChannels
<1>4. rx' \in [SMs -> Fifo]
  <2>1. \A r \in Fifo : r # <<>> => Tail(r) \in Fifo
    BY DmaAssumption DEF Fifo
  <2>2. Accepts(d, room, q) => q # <<>>
    BY DEF Accepts
  <2> HIDE DEF room
  <2> QED
    BY <1>1, <1>2, <2>1, <2>2 DEF DmaInv, DmaTypeOK
<1>5. tx' \in [SMs -> Fifo]
  <2>1. Pushes(d, room) => Append(tx[d.to], d.read_value) \in Fifo
    BY <1>1, DmaAssumption DEF Pushes, DmaInv, DmaTypeOK, Fifo, DmaState
  <2> HIDE DEF room
  <2> QED
    BY <1>1, <1>2, <2>1 DEF DmaInv, DmaTypeOK
<1> QED
  BY <1>3, <1>4, <1>5 DEF DmaInv, DmaTypeOK, ChannelsInv

LEMMA OthersUseFifosTyped ==
  ASSUME DmaTypeOK, OthersUseFifos
  PROVE  rx' \in [SMs -> Fifo] /\ tx' \in [SMs -> Fifo]
<1>1. /\ Others.push_rx \subseteq SMs \X Word
      /\ Others.push_tx \subseteq SMs \X Word
      /\ Others.pop_rx \subseteq SMs /\ Others.pop_tx \subseteq SMs
  BY DmaAssumption DEF OthersCalls
<1>2. rx \in [SMs -> Fifo] /\ tx \in [SMs -> Fifo]
  BY DEF DmaTypeOK
<1>3. \A q \in Fifo, w \in Word : Len(q) < FifoDepth => Append(q, w) \in Fifo
  BY DmaAssumption DEF Fifo
<1>4. \A q \in Fifo : q # <<>> => Tail(q) \in Fifo
  BY DmaAssumption DEF Fifo
<1>5. CASE \E p \in Others.push_rx :
             Len(rx[p[1]]) < FifoDepth /\ rx' = [rx EXCEPT ![p[1]] = Append(@, p[2])]
                /\ UNCHANGED tx
  BY <1>1, <1>2, <1>3, <1>5
<1>6. CASE \E m \in Others.pop_rx :
             rx[m] # <<>> /\ rx' = [rx EXCEPT ![m] = Tail(@)] /\ UNCHANGED tx
  BY <1>1, <1>2, <1>4, <1>6
<1>7. CASE \E p \in Others.push_tx :
             Len(tx[p[1]]) < FifoDepth /\ tx' = [tx EXCEPT ![p[1]] = Append(@, p[2])]
                /\ UNCHANGED rx
  BY <1>1, <1>2, <1>3, <1>7
<1>8. CASE \E m \in Others.pop_tx :
             tx[m] # <<>> /\ tx' = [tx EXCEPT ![m] = Tail(@)] /\ UNCHANGED rx
  BY <1>1, <1>2, <1>4, <1>8
<1> QED
  BY <1>5, <1>6, <1>7, <1>8 DEF OthersUseFifos

LEMMA BetweenKeepsInv ==
  ASSUME DmaInv, Between
  PROVE  DmaInv'
<1>1. CASE (SetupChain \/ HostUsesSram) /\ UNCHANGED <<rx, tx>>
  BY <1>1, CallsKeepChannels DEF Between, DmaInv, DmaTypeOK, ChannelsInv
<1>2. CASE OthersUseFifos
  BY <1>2, OthersUseFifosTyped
  DEF OthersUseFifos, Between, DmaInv, DmaTypeOK, ChannelsInv, ChannelsTypeOK,
      SramTypeOK
<1> QED
  BY <1>1, <1>2 DEF Between

THEOREM DmaInvariant == DmaSpec => []DmaInv
<1>1. DmaInv /\ [DmaNext]_dmaVars => DmaInv'
  <2> SUFFICES ASSUME DmaInv, [DmaNext]_dmaVars PROVE DmaInv'
    OBVIOUS
  <2>1. CASE UNCHANGED <<dma, rx, tx, sram>> /\ chan' \in Channels \cup {ChanEnd}
    BY <2>1 DEF DmaInv, DmaTypeOK, ChannelsInv, ChannelsTypeOK, SramTypeOK
  <2>2. CASE UNCHANGED dmaVars
    BY <2>1, <2>2 DEF dmaVars, DmaInv, DmaTypeOK, ChannelsTypeOK
  <2>3. CASE BeginDma \/ \E c \in Channels : SkipChannel(c)
    BY <2>1, <2>3, LoopGoesOn DEF BeginDma, SkipChannel
  <2> QED
    BY <2>2, <2>3, StepChannelKeepsInv, BetweenKeepsInv DEF DmaNext, DmaStep
<1> QED
  BY <1>1, InitDmaInv, PTL DEF DmaSpec

\* The channels, their delays of a uint8_t, the FIFOs of at most FifoDepth words
\* and the SRAM of bytes stay within their types, whoever uses them besides.
THEOREM DmaTyped == DmaSpec => []DmaTypeOK
BY DmaInvariant, PTL DEF DmaInv

-----------------------------------------------------------------------------
(* The refinement *)

\* What a lookup finds in the SRAM is what a channel reads there.
LEMMA SameContent ==
  \A a, mode : Lookup!Content(a, mode) = SramContent(a, mode)
BY DEF Lookup!Content, Lookup!ByteAddr, ByteAddr, Lookup!Bits, Bits, SramContent

\* A step of a channel delivers, looks up and takes as one Serve.
LEMMA StepServes ==
  ASSUME DmaInv, NEW c \in Channels, StepChannel(c)
  PROVE  \E deliver, lookup, take \in BOOLEAN :
           Lookup!Serve(c, deliver, lookup, take)
<1> DEFINE d == dma[c]
           room == Len(tx[d.to]) < FifoDepth
           q == rx[d.from]
           deliver == Pushes(d, room)
           lookup == Fetches(d, room)
           take == Accepts(d, room, q)
           kept == Kept(d, room)
           known == Known(d, room)
           next == NextChannel(d, room, q)
<1>1. /\ d \in DmaState /\ room \in BOOLEAN /\ q \in Seq(Word) /\ InUse(d)
      /\ d.from \in SMs /\ d.to \in SMs
  BY StepFinds DEF StepChannel
<1>2. /\ FetchAllowed(d, room) /\ sram' = sram
      /\ dma' = [dma EXCEPT ![c] = next] /\ dma \in [Channels -> DmaState]
      /\ rx' = IF take THEN [rx EXCEPT ![d.from] = Tail(@)] ELSE rx
      /\ tx' = IF deliver THEN [tx EXCEPT ![d.to] = Append(@, d.read_value)] ELSE tx
  BY DEF StepChannel, DmaInv, DmaTypeOK, ChannelsTypeOK
<1>3. SramTypeOK
  BY DEF DmaInv, DmaTypeOK, ChannelsTypeOK
<1>4. deliver => Len(tx[d.to]) < FifoDepth
  BY DEF Pushes
<1> HIDE DEF room, q
<1>5. /\ deliver => Hand(d) # <<>> /\ Hand(d)[1].known /\ Hand(d)[1].word = d.read_value
      /\ lookup => kept # <<>> /\ ~kept[1].known
      /\ take => q # <<>> /\ \A k \in DOMAIN known : known[k].known
      /\ Hand(next) = Taken(d, room, q)
      /\ Use(next) = Use(d)
  BY <1>1, <1>2, <1>3, StepServesHand
<1>6. deliver \in BOOLEAN /\ lookup \in BOOLEAN /\ take \in BOOLEAN
  BY <1>1 DEF Pushes, Fetches, Accepts
<1>7. kept = IF deliver THEN Tail(Hand(d)) ELSE Hand(d)
  BY DEF Kept
<1>8. known = IF lookup
              THEN [kept EXCEPT ![1] =
                      Lookup!Answer(Lookup!Content(@.word, d.bit_mode))]
              ELSE kept
  <2>1. \A w : Lookup!Answer(w) = Value(w)
    BY DEF Lookup!Answer, Value
  <2> QED
    BY <2>1, SameContent, Zenon DEF Known
<1>9. Hand(next) = IF take THEN Append(known, Lookup!Request(Head(q))) ELSE known
  <2>1. \A w : Lookup!Request(w) = Addr(w)
    BY DEF Lookup!Request, Addr
  <2> QED
    BY <1>5, <2>1 DEF Taken
<1> HIDE DEF deliver, lookup, take, kept, known, next
<1>10. Use(d).from = d.from /\ Use(d).to = d.to /\ Use(d).bit_mode = d.bit_mode
  BY DEF Use
<1>11. Use(d) # Lookup!Unused
  BY <1>1 DEF Use, InUse, BitModes, Lookup!Unused
<1>12. Uses' = Uses /\ Hands' = [Hands EXCEPT ![c] = Hand(next)]
  <2>1. Uses' = Uses
    BY <1>2, <1>5 DEF Uses
  <2>2. Hands' = [Hands EXCEPT ![c] = Hand(next)]
    BY <1>2 DEF Hands
  <2> QED
    BY <2>1, <2>2
<1>13. Uses[c] = Use(d) /\ Hands[c] = Hand(d)
  BY DEF Uses, Hands
<1>14. /\ Uses[c].from = d.from /\ Uses[c].to = d.to
       /\ Uses[c].bit_mode = d.bit_mode /\ q = rx[Uses[c].from]
  BY <1>10, <1>13 DEF q
<1> HIDE DEF d
<1>15. tx' = IF deliver THEN [tx EXCEPT ![Uses[c].to] = Append(@, Hands[c][1].word)]
             ELSE tx
  BY <1>2, <1>5, <1>13, <1>14
<1>16. Lookup!Serve(c, deliver, lookup, take)
  BY <1>2, <1>4, <1>5, <1>7, <1>8, <1>9, <1>11, <1>12, <1>13, <1>14, <1>15, Zenon
  DEF Lookup!Serve
<1> QED
  BY <1>6, <1>16

\* Setting a chain up abandons what it had in hand.
LEMMA SetupAbandons ==
  ASSUME DmaInv, SetupChain, UNCHANGED <<rx, tx>>
  PROVE  \E c \in Channels : Lookup!Abandon(c)
<1>1. PICK c \in Channels, chain \in Chain :
        dma' = [dma EXCEPT ![c] = SetUp(chain)] /\ sram' = sram
  BY ChannelAssumption DEF SetupChain, DmaHostCalls
<1>2. dma \in [Channels -> DmaState]
  BY DEF DmaInv, DmaTypeOK, ChannelsTypeOK
<1>3. Hand(SetUp(chain)) = <<>>
  BY SetUpInUse, HandForms DEF SetUp
<1>4. Uses'[c] # Lookup!Unused
  BY <1>1, <1>2, SetUpInUse DEF Uses, Use, InUse, BitModes, Lookup!Unused
<1>5. \A e \in Channels \ {c} : Uses'[e] = Uses[e]
  BY <1>1, <1>2 DEF Uses
<1>6. Hands' = [Hands EXCEPT ![c] = <<>>]
  BY <1>1, <1>2, <1>3 DEF Hands
<1> QED
  BY <1>1, <1>4, <1>5, <1>6 DEF Lookup!Abandon

LEMMA SameMachines == Lookup!SMs = SMs
BY DEF Lookup!SMs, SMs, Lookup!Blocks, Blocks, Lookup!SmNums, SmNums

\* A push and a pop are moves at the ends of a FIFO.
LEMMA PushMoves ==
  ASSUME NEW q \in [SMs -> Fifo], NEW m \in SMs, NEW w \in Word,
         Len(q[m]) < FifoDepth
  PROVE  Lookup!Moves(q, [q EXCEPT ![m] = Append(@, w)])
<1> DEFINE r == [q EXCEPT ![m] = Append(@, w)]
<1>1. q[m] \in Seq(Word) /\ Len(q[m]) \in Nat
  BY DEF Fifo
<1>2. r[m] = Append(q[m], w) /\ \A n \in SMs \ {m} : r[n] = q[n]
  OBVIOUS
<1>3. /\ r[m] # <<>> /\ Len(r[m]) = Len(q[m]) + 1
      /\ q[m] = SubSeq(r[m], 1, Len(r[m]) - 1)
  BY <1>1, <1>2
<1>4. Len(r[m]) <= FifoDepth
  BY <1>1, <1>3, DmaAssumption
<1> HIDE DEF r
<1>5. Lookup!Moves(q, r)
  BY <1>2, <1>3, <1>4, SameMachines DEF Lookup!Moves
<1> QED
  BY <1>5 DEF r

LEMMA PopMoves ==
  ASSUME NEW q \in [SMs -> Fifo], NEW m \in SMs, q[m] # <<>>
  PROVE  Lookup!Moves(q, [q EXCEPT ![m] = Tail(@)])
BY SameMachines DEF Lookup!Moves

LEMMA OthersUseFifosMove ==
  ASSUME DmaInv, OthersUseFifos
  PROVE  Lookup!OthersMove
<1>1. /\ Others.push_rx \subseteq SMs \X Word
      /\ Others.push_tx \subseteq SMs \X Word
      /\ Others.pop_rx \subseteq SMs /\ Others.pop_tx \subseteq SMs
  BY DmaAssumption DEF OthersCalls
<1>2. rx \in [SMs -> Fifo] /\ tx \in [SMs -> Fifo]
  BY DEF DmaInv, DmaTypeOK
<1>3. UNCHANGED <<dma, sram>>
  BY DEF OthersUseFifos
<1>4. \/ Lookup!Moves(rx, rx') /\ UNCHANGED tx
      \/ Lookup!Moves(tx, tx') /\ UNCHANGED rx
  <2>1. CASE \E p \in Others.push_rx :
               Len(rx[p[1]]) < FifoDepth /\ rx' = [rx EXCEPT ![p[1]] = Append(@, p[2])]
                  /\ UNCHANGED tx
    <3>1. PICK m \in SMs, w \in Word :
            Len(rx[m]) < FifoDepth /\ rx' = [rx EXCEPT ![m] = Append(@, w)]
               /\ UNCHANGED tx
      BY <1>1, <2>1
    <3> QED
      BY <1>2, <3>1, PushMoves
  <2>2. CASE \E m \in Others.pop_rx :
               rx[m] # <<>> /\ rx' = [rx EXCEPT ![m] = Tail(@)] /\ UNCHANGED tx
    BY <1>1, <1>2, <2>2, PopMoves
  <2>3. CASE \E p \in Others.push_tx :
               Len(tx[p[1]]) < FifoDepth /\ tx' = [tx EXCEPT ![p[1]] = Append(@, p[2])]
                  /\ UNCHANGED rx
    <3>1. PICK m \in SMs, w \in Word :
            Len(tx[m]) < FifoDepth /\ tx' = [tx EXCEPT ![m] = Append(@, w)]
               /\ UNCHANGED rx
      BY <1>1, <2>3
    <3> QED
      BY <1>2, <3>1, PushMoves
  <2>4. CASE \E m \in Others.pop_tx :
               tx[m] # <<>> /\ tx' = [tx EXCEPT ![m] = Tail(@)] /\ UNCHANGED rx
    BY <1>1, <1>2, <2>4, PopMoves
  <2> QED
    BY <2>1, <2>2, <2>3, <2>4 DEF OthersUseFifos
<1> QED
  BY <1>3, <1>4 DEF Lookup!OthersMove, Uses, Hands

\* The DMA engine implements the lookups, for any number of channels, whatever
\* their delays of at least one cycle: each address is answered once and in order,
\* with what the SRAM holds at one moment.
THEOREM DmaImplementsLookups == DmaSpec => ChainsAreLookups
<1>1. DmaInit => Lookup!LookupInit
  <2> SUFFICES ASSUME DmaInit PROVE Lookup!LookupInit
    OBVIOUS
  <2>1. Hand(DmaReset) = <<>>
    BY ChannelResetTyped, HandForms DEF DmaReset
  <2>2. Use(DmaReset) = Lookup!Unused
    BY DEF Use, DmaReset, Lookup!Unused
  <2> QED
    BY <2>1, <2>2, SameMachines
    DEF DmaInit, ChannelsInit, Uses, Hands, Lookup!LookupInit, SramInit,
        Lookup!SramInit
<1>2. DmaInv /\ [DmaNext]_dmaVars => [Lookup!LookupNext]_Lookup!lookupVars
  <2> SUFFICES ASSUME DmaInv, [DmaNext]_dmaVars
               PROVE  Lookup!LookupNext \/ UNCHANGED Lookup!lookupVars
    OBVIOUS
  <2>1. CASE UNCHANGED <<dma, rx, tx, sram>>
    BY <2>1 DEF Lookup!lookupVars, Uses, Hands
  <2>2. CASE UNCHANGED dmaVars \/ BeginDma \/ \E c \in Channels : SkipChannel(c)
    BY <2>1, <2>2 DEF dmaVars, BeginDma, SkipChannel
  <2>3. ASSUME NEW c \in Channels, StepChannel(c) PROVE Lookup!LookupNext
    BY <2>3, StepServes DEF Lookup!LookupNext
  <2>4. CASE Between
    <3>1. CASE SetupChain /\ UNCHANGED <<rx, tx>>
      BY <3>1, SetupAbandons DEF Lookup!LookupNext
    <3>2. CASE OthersUseFifos
      BY <3>2, OthersUseFifosMove DEF Lookup!LookupNext
    <3>3. CASE HostUsesSram /\ UNCHANGED <<rx, tx>>
      BY <3>3 DEF HostUsesSram, Lookup!LookupNext, Lookup!OthersMove, Uses, Hands
    <3> QED
      BY <2>4, <3>1, <3>2, <3>3 DEF Between
  <2> QED
    BY <2>2, <2>3, <2>4 DEF DmaNext, DmaStep
<1> QED
  BY <1>1, <1>2, DmaInvariant, PTL
  DEF DmaSpec, ChainsAreLookups, Lookup!LookupSpec
=============================================================================
