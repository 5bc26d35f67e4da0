--------------------------- MODULE EpioEcho_proofs ---------------------------
(***************************************************************************)
(* The echoing machine implements the channel, whatever words it is given, *)
(* whatever the delays of its program, and whatever else runs on the chip. *)
(***************************************************************************)
EXTENDS EpioEcho, EpioStall_proofs, SequenceTheorems

-----------------------------------------------------------------------------
(* Halves of words *)

\* The halves OUT takes from a word make up the word.
LEMMA HalvesJoin ==
  ASSUME NEW w \in Word
  PROVE  Low(w, 16) \cup ShiftLeft(ShiftRight(w, 16), 16) = w
<1>1. \A k \in w : k \in 0 .. 31
  BY ExecAssumption DEF Word, Bits
<1>2. \A k : k \in Low(w, 16) <=> k \in w /\ k \in 0 .. 15
  BY DEF Low
<1>3. \A k : k \in ShiftLeft(ShiftRight(w, 16), 16) <=> k \in w /\ k \in 16 .. 31
  BY <1>1, ExecAssumption DEF ShiftLeft, ShiftRight, Bits
<1> QED
  BY <1>1, <1>2, <1>3

\* A shift by 16 to the left leaves no room for the upper half.
LEMMA LowHalfShifted ==
  ASSUME NEW w \in Word
  PROVE  ShiftLeft(Low(w, 16), 16) = ShiftLeft(w, 16)
<1>1. \A k \in Bits : k - 16 \in w <=> k - 16 \in Low(w, 16)
  BY ExecAssumption DEF Low, Word, Bits
<1> QED
  BY <1>1 DEF ShiftLeft

\* A half that IN has shifted in from the top comes back with a shift by 16.
LEMMA HalfShiftedIn ==
  ASSUME NEW v \in Word, NEW x \in SUBSET (0 .. 15)
  PROVE  ShiftRight(ShiftRight(v, 16) \cup ShiftLeft(Low(x, 16), 16), 16) = x
<1> DEFINE top == ShiftRight(v, 16) \cup ShiftLeft(Low(x, 16), 16)
<1>1. ASSUME NEW k \in Bits
      PROVE  k + 16 \in top <=> k \in x
  <2>1. k \in 0 .. 31
    BY ExecAssumption DEF Bits
  <2>2. k + 16 + 16 \notin v
    BY <2>1, ExecAssumption DEF Word, Bits
  <2>3. k + 16 \in ShiftLeft(Low(x, 16), 16) <=> k \in x
    BY <2>1, ExecAssumption DEF ShiftLeft, Low, Bits
  <2> QED
    BY <2>2, <2>3 DEF ShiftRight
<1>2. x \subseteq Bits
  BY ExecAssumption DEF Bits
<1> HIDE DEF top
<1> QED
  BY <1>1, <1>2 DEF ShiftRight, top

-----------------------------------------------------------------------------
(* The invariant *)

\* The program and the registers are those of Echoes
Coded ==
  /\ \E d \in Delays :
       instr[Me[1]][0] = [op |-> "OUT", dst |-> "X", count |-> 16, delay |-> d]
  /\ \E d \in Delays :
       instr[Me[1]][1] = [op |-> "IN", src |-> "X", count |-> 16, delay |-> d]
  /\ reg[Me].wrap_top = 1 /\ reg[Me].wrap_bottom = 0
  /\ reg[Me].autopull /\ reg[Me].pull_thresh = 32 /\ reg[Me].out_right
  /\ reg[Me].autopush /\ reg[Me].push_thresh = 32 /\ reg[Me].in_right

\* Where a word is: nowhere or in the OSR, its first half in X, in the ISR, its
\* second half in X, or all of it in the ISR of the stalled machine
Phase(s) ==
  \/ s.pc = 0 /\ s.isr_count = 0 /\ s.osr_count = 32
  \/ s.pc = 1 /\ s.isr_count = 0 /\ s.osr_count = 16 /\ ~s.stalled
       /\ s.x \subseteq 0 .. 15
  \/ s.pc = 0 /\ s.isr_count = 16 /\ s.osr_count = 16 /\ ~s.stalled
  \/ s.pc = 1 /\ s.isr_count = 16 /\ s.osr_count = 32 /\ ~s.stalled
  \/ s.pc = 1 /\ s.isr_count = 32 /\ s.osr_count = 32 /\ s.stalled

EchoInv == Coded /\ ~sm[Me].exec_pending /\ Phase(sm[Me])

\* The part of a machine a word can be in
Path(s) ==
  <<s.pc, s.stalled, s.exec_pending, s.x, s.isr, s.osr, s.isr_count, s.osr_count>>

\* What is in flight depends on that part alone.
LEMMA PathKeeps ==
  ASSUME Path(sm'[Me]) = Path(sm[Me])
  PROVE  /\ InFlight' = InFlight
         /\ Phase(sm[Me]) => Phase(sm'[Me])
         /\ ~sm[Me].exec_pending => ~sm'[Me].exec_pending
<1>1. /\ sm'[Me].pc = sm[Me].pc /\ sm'[Me].stalled = sm[Me].stalled
      /\ sm'[Me].x = sm[Me].x /\ sm'[Me].isr = sm[Me].isr
      /\ sm'[Me].osr = sm[Me].osr /\ sm'[Me].isr_count = sm[Me].isr_count
      /\ sm'[Me].osr_count = sm[Me].osr_count
      /\ sm'[Me].exec_pending = sm[Me].exec_pending
  BY DEF Path
<1> QED
  BY <1>1, Zenon DEF InFlight, Phase

\* What a retired instruction leaves of the state it made
LEMMA RetireSteps ==
  ASSUME TypeOK, NEW m \in SMs, NEW i, NEW s, Shaped(s), Retire(m, i, TRUE, s)
  PROVE  /\ \A f \in Fields \ {"delay", "pc", "exec_pending"} : sm'[m][f] = s[f]
         /\ sm'[m].pc = Following(m, s.pc)
         /\ sm'[m].exec_pending = (s.exec_pending /\ ~sm[m].exec_pending)
<1> DEFINE t == [s EXCEPT !.delay = NewDelay(i)]
<1>1. /\ Shaped(t) /\ t.pc = s.pc /\ t.exec_pending = s.exec_pending
      /\ \A f \in Fields \ {"delay"} : t[f] = s[f]
  BY DEF Shaped, Fields
<1>2. Put(m, Advanced(m, t))
  BY DEF Retire
<1> HIDE DEF t
<1>3. /\ \A f \in Fields \ {"pc", "exec_pending"} : Advanced(m, t)[f] = t[f]
      /\ Advanced(m, t).pc = Following(m, t.pc)
      /\ Advanced(m, t).exec_pending = (t.exec_pending /\ ~sm[m].exec_pending)
  BY <1>1 DEF Advanced, Shaped, Fields
<1> QED
  BY <1>1, <1>2, <1>3, PutKeeps

-----------------------------------------------------------------------------
(* The channel *)

Queue == sm[Me].rx \o InFlight \o sm[Me].tx

LEMMA FlightTyped ==
  ASSUME TypeOK, EchoInv
  PROVE  InFlight \in Seq(Word) /\ Len(InFlight) <= 1
<1>1. Me \in SMs
  BY EchoAssumption
<1>2. sm[Me] \in SmState
  BY <1>1, MachineTyped
<1>3. \A w, n : ShiftRight(w, n) \in Word /\ ShiftLeft(w, n) \in Word
  BY DEF ShiftRight, ShiftLeft, Word
<1>4. /\ \A w \in Word : <<w>> \in Seq(Word) /\ Len(<<w>>) <= 1
      /\ <<>> \in Seq(Word) /\ Len(<<>>) <= 1
  OBVIOUS
<1>5. \A v, w \in Word : v \cup w \in Word
  BY DEF Word
<1>6. InFlight = <<>> \/ \E w \in Word : InFlight = <<w>>
  BY <1>2, <1>3, <1>5 DEF EchoInv, Phase, InFlight, SmState
<1> QED
  BY <1>4, <1>6, Zenon

\* Words move on from FIFO to flight to FIFO, and the channel's queue stays.
LEMMA WordsMove ==
  ASSUME NEW q \in Seq(Word), NEW w \in Word, NEW r \in Seq(Word)
  PROVE  /\ r # <<>> => q \o <<>> \o r = q \o <<Head(r)>> \o Tail(r)
         /\ Append(q, w) \o <<>> \o r = q \o <<w>> \o r
<1>1. q \o <<>> = q /\ Append(q, w) \o <<>> = Append(q, w)
  BY AppendProperties, ConcatEmptySeq
<1>2. Append(q, w) = q \o <<w>>
  BY AppendIsConcat
<1>3. ASSUME r # <<>> PROVE q \o <<Head(r)>> \o Tail(r) = q \o r
  <2>1. Head(r) \in Word /\ Tail(r) \in Seq(Word)
    BY <1>3, HeadTailProperties
  <2>2. <<Head(r)>> \o Tail(r) = r
    BY <1>3
  <2> QED
    BY <2>1, <2>2, ConcatAssociative
<1> QED
  BY <1>1, <1>2, <1>3

-----------------------------------------------------------------------------
(* The two instructions *)

\* OUT pulls the next word and takes its low half, or takes the high half.
LEMMA OutEchoes ==
  ASSUME TypeOK, EchoInv, NEW i, NEW d,
         i = [op |-> "OUT", dst |-> "X", count |-> 16, delay |-> d],
         sm[Me].pc = 0, Execute(Me, i, TRUE)
  PROVE  Phase(sm'[Me]) /\ ~sm'[Me].exec_pending /\ Queue' = Queue
<1> DEFINE m == Me
           s == sm[Me]
           refill == s.osr_count >= 32
           t == IF refill THEN PullOsr(s) ELSE s
           data == Low(t.osr, 16)
           u == [ShiftedOut(m, t, 16) EXCEPT !.x = data]
<1>1. m \in SMs /\ s \in SmState /\ Shaped(s)
  BY EchoAssumption, MachineTyped, MachineFields
<1>2. /\ i.op = "OUT" /\ i.dst = "X" /\ i.count = 16
      /\ reg[m].wrap_top = 1 /\ reg[m].autopull /\ reg[m].pull_thresh = 32
      /\ reg[m].out_right /\ ~s.exec_pending
  BY DEF EchoInv, Coded
<1>3. \/ refill /\ s.tx = <<>> /\ Stall(m, s)
      \/ (refill => s.tx # <<>>) /\ Retire(m, i, TRUE, u)
  <2>1. Out(m, i, TRUE)
    BY <1>2 DEF Execute, Jmp, Wait, In, Pull, Push, Mov, Irq, Set
  <2>2. OutData(m, t, 16) = data
    BY <1>2 DEF OutData
  <2> HIDE DEF t, data
  <2>3. \/ refill /\ s.tx = <<>> /\ Stall(m, s)
        \/ /\ refill => s.tx # <<>>
           /\ OutTo(m, i, TRUE, ShiftedOut(m, t, 16), data)
    BY <1>2, <2>1, <2>2, Zenon DEF Out, t
  <2> QED
    BY <1>2, <2>3 DEF OutTo, Deliver
<1>4. CASE refill /\ s.tx = <<>> /\ Stall(m, s)
  <2>1. s.pc = 0 /\ s.isr_count = 0 /\ s.osr_count = 32
    BY <1>4 DEF EchoInv, Phase
  <2>2. \A f \in Fields \ {"stalled"} : sm'[m][f] = s[f]
    BY <1>1, <1>4, StallKeeps
  <2>3. /\ sm'[m].pc = 0 /\ sm'[m].isr_count = 0 /\ sm'[m].osr_count = 32
        /\ sm'[m].exec_pending = s.exec_pending
        /\ sm'[m].tx = s.tx /\ sm'[m].rx = s.rx
    BY <2>1, <2>2 DEF Fields
  <2>4. InFlight = <<>> /\ InFlight' = <<>>
    BY <2>1, <2>3 DEF InFlight
  <2> QED
    BY <1>2, <2>3, <2>4 DEF Phase, Queue
<1>5. CASE (refill => s.tx # <<>>) /\ Retire(m, i, TRUE, u)
  <2>1. /\ Shaped(t) /\ t.pc = 0 /\ t.isr_count = s.isr_count /\ t.isr = s.isr
        /\ t.exec_pending = s.exec_pending /\ t.rx = s.rx
        /\ refill => t.osr = Head(s.tx) /\ t.tx = Tail(s.tx)
                     /\ t.osr_count = 0 /\ ~t.stalled
        /\ ~refill => t = s
    BY <1>1 DEF PullOsr, Shaped, Fields
  <2> HIDE DEF t
  <2>2. /\ Shaped(u) /\ u.pc = 0 /\ u.isr_count = s.isr_count /\ u.isr = s.isr
        /\ u.exec_pending = s.exec_pending /\ u.rx = s.rx /\ u.tx = t.tx
        /\ u.stalled = t.stalled /\ u.x = Low(t.osr, 16)
        /\ u.osr = ShiftRight(t.osr, 16) /\ u.osr_count = Capped(t.osr_count + 16)
    BY <1>2, <2>1 DEF ShiftedOut, Shaped, Fields
  <2> HIDE DEF u
  <2>3. /\ \A f \in Fields \ {"delay", "pc", "exec_pending"} : sm'[m][f] = u[f]
        /\ sm'[m].pc = Following(m, u.pc)
        /\ sm'[m].exec_pending = (u.exec_pending /\ ~s.exec_pending)
    <3>1. Shaped(u) /\ Retire(m, i, TRUE, u)
      BY <1>5, <2>2 DEF u
    <3> QED
      BY <1>1, <3>1, RetireSteps, Zenon
  <2>4. Following(m, u.pc) = 1
    BY <1>2, <2>2 DEF Following
  <2>5. /\ sm'[m].pc = 1 /\ ~sm'[m].exec_pending
        /\ sm'[m].isr_count = s.isr_count /\ sm'[m].isr = s.isr
        /\ sm'[m].rx = s.rx /\ sm'[m].tx = t.tx
        /\ sm'[m].stalled = t.stalled /\ sm'[m].x = Low(t.osr, 16)
        /\ sm'[m].osr = ShiftRight(t.osr, 16)
        /\ sm'[m].osr_count = Capped(t.osr_count + 16)
    BY <1>2, <2>2, <2>3, <2>4 DEF Fields
  <2>6. CASE refill
    <3>1. s.isr_count = 0 /\ s.osr_count = 32
      BY <2>6 DEF EchoInv, Phase
    <3>2. /\ sm'[m].isr_count = 0 /\ ~sm'[m].stalled /\ sm'[m].osr_count = 16
          /\ sm'[m].tx = Tail(s.tx)
      BY <2>1, <2>5, <2>6, <3>1 DEF Capped
    <3>3. /\ s.tx \in Seq(Word) /\ s.tx # <<>> /\ Head(s.tx) \in Word
          /\ s.rx \in Seq(Word)
      BY <1>1, <1>5, <2>6, HeadTailProperties DEF SmState, Fifo
    <3>4. sm'[m].x \cup ShiftLeft(sm'[m].osr, 16) = Head(s.tx)
      BY <2>1, <2>5, <2>6, <3>3, HalvesJoin
    <3>5. InFlight = <<>> /\ InFlight' = <<Head(s.tx)>>
      <4>1. InFlight = <<>>
        BY <3>1 DEF InFlight
      <4>2. InFlight' = <<sm'[m].x \cup ShiftLeft(sm'[m].osr, 16)>>
        BY <2>5, <3>2 DEF InFlight
      <4> QED
        BY <3>4, <4>1, <4>2, Zenon
    <3>6. Phase(sm'[m])
      BY <2>5, <3>2 DEF Phase, Low
    <3> QED
      BY <2>5, <3>2, <3>3, <3>5, <3>6, WordsMove DEF Queue
  <2>7. CASE ~refill
    <3>1. /\ t = s /\ s.isr_count = 16 /\ s.osr_count = 16 /\ ~s.stalled
      BY <2>1, <2>7 DEF EchoInv, Phase
    <3>2. /\ sm'[m].isr_count = 16 /\ ~sm'[m].stalled /\ sm'[m].osr_count = 32
          /\ sm'[m].tx = s.tx
      BY <2>5, <3>1 DEF Capped
    <3>3. ShiftLeft(sm'[m].x, 16) = ShiftLeft(s.osr, 16)
      BY <1>1, <2>5, <3>1, LowHalfShifted DEF SmState
    <3>4. InFlight' = InFlight
      BY <2>5, <3>1, <3>2, <3>3 DEF InFlight
    <3> QED
      BY <2>5, <3>2, <3>4 DEF Phase, Queue
  <2> QED
    BY <2>6, <2>7
<1> QED
  BY <1>3, <1>4, <1>5

\* IN takes a half; with the second it hands the word to the RX FIFO, or stalls with
\* it and hands it over when there is room.
LEMMA InEchoes ==
  ASSUME TypeOK, EchoInv, NEW i, NEW d,
         i = [op |-> "IN", src |-> "X", count |-> 16, delay |-> d],
         sm[Me].pc = 1, Execute(Me, i, TRUE)
  PROVE  Phase(sm'[Me]) /\ ~sm'[Me].exec_pending /\ Queue' = Queue
<1> DEFINE m == Me
           s == sm[Me]
           t == InState(m, i)
           push == t.isr_count >= 32
<1>1. m \in SMs /\ s \in SmState /\ Shaped(s)
  BY EchoAssumption, MachineTyped, MachineFields
<1>2. /\ i.op = "IN" /\ i.src = "X" /\ i.count = 16
      /\ reg[m].wrap_top = 1 /\ reg[m].wrap_bottom = 0
      /\ reg[m].autopush /\ reg[m].push_thresh = 32
      /\ reg[m].in_right /\ ~s.exec_pending
  BY DEF EchoInv, Coded
<1>3. \/ push /\ Retire(m, i, TRUE, PushIsr(t))
      \/ push /\ Stall(m, t)
      \/ ~push /\ Retire(m, i, TRUE, t)
  <2>1. In(m, i, TRUE)
    BY <1>2 DEF Execute, Jmp, Wait, Out, Pull, Push, Mov, Irq, Set
  <2> HIDE DEF t
  <2> QED
    BY <1>2, <2>1, Zenon DEF In, t
<1>4. /\ Shaped(t) /\ t.pc = 1 /\ t.osr_count = s.osr_count /\ t.osr = s.osr
      /\ t.x = s.x /\ t.exec_pending = s.exec_pending
      /\ t.rx = s.rx /\ t.tx = s.tx /\ t.stalled = s.stalled
      /\ s.stalled => t.isr = s.isr /\ t.isr_count = s.isr_count
      /\ ~s.stalled =>
           /\ t.isr = ShiftRight(s.isr, 16) \cup ShiftLeft(Low(s.x, 16), 16)
           /\ t.isr_count = Capped(s.isr_count + 16)
  <2>1. InSource(m, i) = s.x
    BY <1>2 DEF InSource
  <2> QED
    BY <1>1, <1>2, <2>1 DEF InState, ShiftedIn, Shaped, Fields
<1> HIDE DEF t
<1>5. \A pc : pc = 1 => Following(m, pc) = 0
  BY <1>2 DEF Following
<1>6. s.isr \in Word /\ s.x \in Word /\ s.rx \in Seq(Word) /\ s.tx \in Seq(Word)
  BY <1>1 DEF SmState, Fifo
\* All of a word is in the ISR.
<1>7. ASSUME push
      PROVE  /\ InFlight = <<t.isr>> /\ t.isr \in Word
             /\ t.isr_count = 32 /\ t.osr_count = 32
  <2>1. CASE s.stalled
    <3>1. s.isr_count = 32 /\ s.osr_count = 32
      BY <2>1 DEF EchoInv, Phase
    <3> QED
      BY <1>4, <1>6, <2>1, <3>1 DEF InFlight
  <2>2. CASE ~s.stalled
    <3>1. s.isr_count = 16 /\ s.osr_count = 32
      BY <1>4, <1>7, <2>2 DEF EchoInv, Phase, Capped
    <3>2. t.isr = ShiftRight(s.isr, 16) \cup ShiftLeft(s.x, 16)
      BY <1>4, <1>6, <2>2, LowHalfShifted
    <3>3. t.isr \in Word
      BY <3>2 DEF ShiftRight, ShiftLeft, Word
    <3> QED
      BY <1>4, <2>2, <3>1, <3>2, <3>3 DEF InFlight, Capped
  <2> QED
    BY <2>1, <2>2
<1>8. CASE push /\ Retire(m, i, TRUE, PushIsr(t))
  <2> DEFINE u == PushIsr(t)
  <2>1. /\ Shaped(u) /\ u.pc = 1 /\ u.isr_count = 0 /\ u.osr_count = 32
        /\ u.rx = Append(s.rx, t.isr) /\ u.tx = s.tx
        /\ u.exec_pending = s.exec_pending
    BY <1>4, <1>7, <1>8 DEF PushIsr, Shaped, Fields
  <2> HIDE DEF u
  <2>2. /\ \A f \in Fields \ {"delay", "pc", "exec_pending"} : sm'[m][f] = u[f]
        /\ sm'[m].pc = Following(m, u.pc)
        /\ sm'[m].exec_pending = (u.exec_pending /\ ~s.exec_pending)
    <3>1. Shaped(u) /\ Retire(m, i, TRUE, u)
      BY <1>8, <2>1 DEF u
    <3> QED
      BY <1>1, <3>1, RetireSteps, Zenon
  <2>3. /\ sm'[m].pc = 0 /\ sm'[m].isr_count = 0 /\ sm'[m].osr_count = 32
        /\ sm'[m].rx = Append(s.rx, t.isr) /\ sm'[m].tx = s.tx
        /\ ~sm'[m].exec_pending
    BY <1>2, <1>5, <2>1, <2>2 DEF Fields
  <2>4. InFlight' = <<>>
    BY <2>3 DEF InFlight
  <2>5. Append(s.rx, t.isr) \o <<>> \o s.tx = s.rx \o <<t.isr>> \o s.tx
    BY <1>6, <1>7, <1>8, WordsMove, Zenon
  <2>6. Queue' = Queue
    BY <1>7, <1>8, <2>3, <2>4, <2>5, Zenon DEF Queue
  <2> QED
    BY <2>3, <2>6 DEF Phase
<1>9. CASE push /\ Stall(m, t)
  <2>1. /\ sm'[m] = [t EXCEPT !.stalled = TRUE]
        /\ \A f \in Fields \ {"stalled"} : sm'[m][f] = t[f]
    BY <1>1, <1>4, <1>9, StallKeeps
  <2>2. /\ sm'[m].pc = 1 /\ sm'[m].isr_count = 32 /\ sm'[m].osr_count = 32
        /\ sm'[m].isr = t.isr /\ sm'[m].rx = s.rx /\ sm'[m].tx = s.tx
        /\ sm'[m].exec_pending = s.exec_pending /\ sm'[m].stalled
    BY <1>4, <1>7, <1>9, <2>1 DEF Fields, Shaped
  <2>3. InFlight' = <<t.isr>>
    BY <2>2 DEF InFlight
  <2> QED
    BY <1>2, <1>7, <1>9, <2>2, <2>3 DEF Phase, Queue
<1>10. CASE ~push /\ Retire(m, i, TRUE, t)
  <2>1. ~s.stalled /\ s.isr_count = 0 /\ s.osr_count = 16 /\ s.x \subseteq 0 .. 15
    BY <1>4, <1>10 DEF EchoInv, Phase, Capped
  <2>2. /\ \A f \in Fields \ {"delay", "pc", "exec_pending"} : sm'[m][f] = t[f]
        /\ sm'[m].pc = Following(m, t.pc)
        /\ sm'[m].exec_pending = (t.exec_pending /\ ~s.exec_pending)
    BY <1>1, <1>4, <1>10, RetireSteps, Zenon
  <2>3. t.pc = 1 /\ t.isr_count = 16
    BY <1>4, <2>1 DEF Capped
  <2>4. /\ sm'[m].pc = 0 /\ sm'[m].isr_count = 16 /\ sm'[m].osr_count = 16
        /\ sm'[m].isr = t.isr /\ sm'[m].osr = s.osr
        /\ sm'[m].rx = s.rx /\ sm'[m].tx = s.tx
        /\ ~sm'[m].exec_pending /\ ~sm'[m].stalled
    <3>1. /\ sm'[m].pc = 0 /\ sm'[m].isr_count = 16 /\ sm'[m].osr_count = 16
          /\ sm'[m].isr = t.isr /\ sm'[m].osr = s.osr
          /\ sm'[m].rx = s.rx /\ sm'[m].tx = s.tx
      BY <1>4, <1>5, <2>1, <2>2, <2>3 DEF Fields
    <3>2. sm'[m].stalled = t.stalled
      BY <2>2 DEF Fields
    <3> QED
      BY <1>2, <1>4, <2>1, <2>2, <3>1, <3>2, Zenon
  <2>5. ShiftRight(t.isr, 16) = s.x
    BY <1>4, <1>6, <2>1, HalfShiftedIn
  <2>6. InFlight' = InFlight
    BY <2>1, <2>4, <2>5 DEF InFlight
  <2> QED
    BY <2>4, <2>6 DEF Phase, Queue
<1> QED
  BY <1>3, <1>8, <1>9, <1>10

-----------------------------------------------------------------------------
(* Every step of the chip *)

\* What a step does to the queue of the channel
Moves ==
  \/ Queue' = Queue
  \/ Queue # <<>> /\ Queue' = Tail(Queue)
  \/ /\ Len(Queue) < 2 * FifoDepth + 1
     /\ \E w \in Words : Queue' = Append(Queue, w)

\* The code stays when instructions and registers do.
LEMMA CodedKeeps ==
  ASSUME EchoInv, UNCHANGED <<instr, reg>>
  PROVE  Coded'
BY DEF EchoInv, Coded

\* A step that leaves the path of the word and the FIFOs alone
LEMMA PathEchoes ==
  ASSUME EchoInv, Coded', Path(sm'[Me]) = Path(sm[Me]),
         sm'[Me].rx = sm[Me].rx, sm'[Me].tx = sm[Me].tx
  PROVE  EchoInv' /\ Moves
BY PathKeeps DEF EchoInv, Queue, Moves

\* A step of the echoing machine executes one of the two.
LEMMA StepEchoes ==
  ASSUME TypeOK, EchoInv, Step(Me)
  PROVE  EchoInv' /\ Moves
<1>1. PICK i \in Current(Me) : Execute(Me, i, TRUE)
  BY DEF Step
<1>2. Coded'
  BY CodedKeeps DEF Step
<1>3. sm[Me].pc \in {0, 1}
  BY DEF EchoInv, Phase
<1>4. i = instr[Me[1]][sm[Me].pc]
  BY <1>1, <1>3, EchoAssumption, ExecAssumption DEF EchoInv, Current, Addrs
<1>5. CASE sm[Me].pc = 0
  <2>1. PICK d : i = [op |-> "OUT", dst |-> "X", count |-> 16, delay |-> d]
    BY <1>4, <1>5 DEF EchoInv, Coded
  <2>2. Phase(sm'[Me]) /\ ~sm'[Me].exec_pending /\ Queue' = Queue
    BY <1>1, <1>5, <2>1, OutEchoes
  <2> QED
    BY <1>2, <2>2 DEF EchoInv, Moves
<1>6. CASE sm[Me].pc = 1
  <2>1. PICK d : i = [op |-> "IN", src |-> "X", count |-> 16, delay |-> d]
    BY <1>4, <1>6 DEF EchoInv, Coded
  <2>2. Phase(sm'[Me]) /\ ~sm'[Me].exec_pending /\ Queue' = Queue
    BY <1>1, <1>6, <2>1, InEchoes
  <2> QED
    BY <1>2, <2>2 DEF EchoInv, Moves
<1> QED
  BY <1>3, <1>5, <1>6

\* A cycle: a delay, a step of any machine, or the end of the loop.
LEMMA CycleEchoes ==
  ASSUME TypeOK, EchoInv, Cycle
  PROVE  EchoInv' /\ Moves
<1>1. Me \in SMs
  BY EchoAssumption
<1>2. ASSUME sm'[Me] = sm[Me], UNCHANGED <<instr, reg>>
      PROVE  EchoInv' /\ Moves
  <2>1. Path(sm'[Me]) = Path(sm[Me])
    BY <1>2
  <2> QED
    BY <1>2, <2>1, CodedKeeps, PathEchoes
<1>3. ASSUME NEW m \in SMs, Delayed(m)
      PROVE  EchoInv' /\ Moves
  <2> DEFINE s == [sm[m] EXCEPT !.delay = @ - 1]
  <2>1. /\ Path(s) = Path(sm[m])
        /\ s.rx = sm[m].rx /\ s.tx = sm[m].tx
    BY MachineFields DEF Shaped, Fields, Path
  <2>2. Put(m, s) /\ UNCHANGED <<instr, reg>>
    BY <1>3 DEF Delayed
  <2> HIDE DEF s
  <2>3. /\ sm'[m] = s
        /\ \A n \in SMs : n # m => sm'[n] = sm[n]
    BY <2>2, PutKeeps
  <2>4. CASE m = Me
    <3>1. /\ Path(sm'[Me]) = Path(sm[Me])
          /\ sm'[Me].rx = sm[Me].rx /\ sm'[Me].tx = sm[Me].tx
      BY <2>1, <2>3, <2>4, Zenon
    <3> QED
      BY <2>2, <3>1, CodedKeeps, PathEchoes
  <2>5. CASE m # Me
    BY <1>1, <1>2, <2>2, <2>3, <2>5
  <2> QED
    BY <2>4, <2>5
<1>4. ASSUME NEW m \in SMs, Step(m)
      PROVE  EchoInv' /\ Moves
  <2>1. CASE m = Me
    BY <1>4, <2>1, StepEchoes
  <2>2. CASE m # Me
    BY <1>1, <1>2, <1>4, <2>2, ExecuteOthers DEF Step
  <2> QED
    BY <2>1, <2>2
<1>5. ASSUME NEW m \in SMs, Skip(m)
      PROVE  EchoInv' /\ Moves
  BY <1>2, <1>5 DEF Skip
<1>6. CASE FinishStep
  BY <1>2, <1>6 DEF FinishStep
<1> QED
  BY <1>3, <1>4, <1>5, <1>6 DEF Cycle

\* A pushed word is the last of the queue, a popped one the first.
LEMMA EndsMove ==
  ASSUME NEW q \in Seq(Word), NEW f \in Seq(Word), NEW r \in Seq(Word),
         NEW w \in Word
  PROVE  /\ q \o f \o Append(r, w) = Append(q \o f \o r, w)
         /\ q # <<>> => /\ q \o f \o r # <<>>
                       /\ Tail(q) \o f \o r = Tail(q \o f \o r)
         /\ Len(q \o f \o r) = Len(q) + Len(f) + Len(r)
<1>1. q \o f \in Seq(Word) /\ q \o f \o r \in Seq(Word)
  BY ConcatProperties
<1>2. q \o f \o Append(r, w) = Append(q \o f \o r, w)
  <2>1. Append(r, w) = r \o <<w>> /\ <<w>> \in Seq(Word)
    BY AppendIsConcat
  <2>2. Append(q \o f \o r, w) = (q \o f \o r) \o <<w>>
    BY <1>1, AppendIsConcat
  <2> QED
    BY <1>1, <2>1, <2>2, ConcatAssociative
<1>3. ASSUME q # <<>>
      PROVE  /\ q \o f \o r # <<>>
             /\ Tail(q) \o f \o r = Tail(q \o f \o r)
  <2>1. /\ f \o r \in Seq(Word)
        /\ q \o f \o r = q \o (f \o r)
        /\ Tail(q) \o f \o r = Tail(q) \o (f \o r)
    BY <1>3, HeadTailProperties, ConcatProperties, ConcatAssociative
  <2> DEFINE g == f \o r
  <2> HIDE DEF g
  <2>2. ASSUME g \in Seq(Word)
        PROVE  q \o g # <<>> /\ Tail(q) \o g = Tail(q \o g)
    BY <1>3, <2>2
  <2> QED
    BY <2>1, <2>2 DEF g
<1>4. Len(q \o f \o r) = Len(q) + Len(f) + Len(r)
  BY <1>1, ConcatProperties
<1> QED
  BY <1>2, <1>3, <1>4

\* The FIFO calls of the host are the channel's calls, or do not concern it.
LEMMA HostSmEchoes ==
  ASSUME TypeOK, FifoBounded, EchoInv, HostSm
  PROVE  EchoInv' /\ Moves
<1> DEFINE s == sm[Me]
<1>1. /\ Me \in SMs /\ s \in SmState /\ Shaped(s)
      /\ s.rx \in Seq(Word) /\ s.tx \in Seq(Word)
      /\ Len(s.rx) \in Nat /\ Len(s.tx) \in Nat
  BY EchoAssumption, MachineTyped, MachineFields DEF SmState, Fifo
<1>2. Coded'
  BY CodedKeeps DEF HostSm
<1>3. ASSUME NEW t, Put(Me, t), Path(t) = Path(s)
      PROVE  EchoInv' /\ InFlight' = InFlight /\ sm'[Me] = t
  <2>1. sm'[Me] = t
    BY <1>1, <1>3, PutKeeps
  <2> QED
    BY <1>2, <1>3, <2>1, PathKeeps DEF EchoInv
<1>4. ASSUME NEW m \in SMs, NEW t, Put(m, t), m # Me
      PROVE  EchoInv' /\ Moves
  <2>1. sm'[Me] = sm[Me]
    BY <1>1, <1>4, PutKeeps
  <2>2. Path(sm'[Me]) = Path(sm[Me])
    BY <2>1
  <2> QED
    BY <1>2, <2>1, <2>2, PathEchoes
<1>5. InFlight \in Seq(Word) /\ Len(InFlight) \in Nat /\ Len(InFlight) <= 1
  <2>1. InFlight \in Seq(Word) /\ Len(InFlight) <= 1
    BY FlightTyped, Zenon
  <2> QED
    BY <2>1, LenProperties
<1>6. ASSUME NEW w \in Words, PushTx(Me, w)
      PROVE  EchoInv' /\ Moves
  <2> DEFINE t == [s EXCEPT !.tx = Append(@, w)]
  <2>1. /\ Path(t) = Path(s) /\ t.rx = s.rx /\ t.tx = Append(s.tx, w)
    BY <1>1 DEF Shaped, Fields, Path
  <2>2. Put(Me, t) /\ Len(s.tx) < FifoDepth
    BY <1>6 DEF PushTx
  <2> HIDE DEF t
  <2>3. EchoInv' /\ InFlight' = InFlight /\ sm'[Me] = t
    BY <1>3, <2>1, <2>2
  <2>4. w \in Word
    BY EchoAssumption
  <2>5. Queue' = Append(Queue, w)
    <3>1. s.rx \o InFlight \o Append(s.tx, w) = Append(s.rx \o InFlight \o s.tx, w)
      BY <1>1, <1>5, <2>4, EndsMove, Zenon
    <3> QED
      BY <2>1, <2>3, <3>1, Zenon DEF Queue
  <2>6. Len(Queue) = Len(s.rx) + Len(InFlight) + Len(s.tx)
    BY <1>1, <1>5, <2>4, EndsMove, Zenon DEF Queue
  <2>7. Len(s.rx) <= FifoDepth
    BY <1>1 DEF FifoBounded
  <2>8. Len(Queue) < 2 * FifoDepth + 1
    <3>1. \A a, b, c \in Nat :
            a <= FifoDepth /\ b <= 1 /\ c < FifoDepth => a + b + c < 2 * FifoDepth + 1
      BY DEF FifoDepth
    <3> QED
      BY <1>1, <1>5, <2>2, <2>6, <2>7, <3>1, Zenon
  <2> QED
    BY <2>3, <2>5, <2>8 DEF Moves
<1>7. CASE PopRx(Me)
  <2> DEFINE t == [s EXCEPT !.rx = Tail(@)]
  <2>1. /\ Path(t) = Path(s) /\ t.tx = s.tx /\ t.rx = Tail(s.rx)
    BY <1>1 DEF Shaped, Fields, Path
  <2>2. Put(Me, t) /\ s.rx # <<>>
    BY <1>7 DEF PopRx
  <2> HIDE DEF t
  <2>3. EchoInv' /\ InFlight' = InFlight /\ sm'[Me] = t
    BY <1>3, <2>1, <2>2
  <2>4. {} \in Word
    BY DEF Word
  <2>5. Queue # <<>> /\ Queue' = Tail(Queue)
    <3>1. /\ s.rx \o InFlight \o s.tx # <<>>
          /\ Tail(s.rx) \o InFlight \o s.tx = Tail(s.rx \o InFlight \o s.tx)
      BY <1>1, <1>5, <2>2, <2>4, EndsMove, Zenon
    <3> QED
      BY <2>1, <2>3, <3>1, Zenon DEF Queue
  <2> QED
    BY <2>3, <2>5 DEF Moves
<1>8. ASSUME NEW on \in BOOLEAN, Put(Me, [sm[Me] EXCEPT !.enabled = on])
      PROVE  EchoInv' /\ Moves
  <2> DEFINE t == [s EXCEPT !.enabled = on]
  <2>1. Path(t) = Path(s) /\ t.tx = s.tx /\ t.rx = s.rx
    BY <1>1 DEF Shaped, Fields, Path
  <2>2. Put(Me, t)
    BY <1>8
  <2> HIDE DEF t
  <2>3. EchoInv' /\ InFlight' = InFlight /\ sm'[Me] = t
    BY <1>3, <2>1, <2>2
  <2> QED
    BY <2>1, <2>3 DEF Moves, Queue
<1>9. ASSUME NEW c \in Host.push_tx, PushTx(c[1], c[2])
      PROVE  EchoInv' /\ Moves
  <2>1. c[1] \in SMs /\ (c[1] = Me => c[2] \in Words)
    BY ExecAssumption, EchoAssumption DEF HostCalls, LeavesEcho
  <2>2. \E t : Put(c[1], t)
    BY <1>9 DEF PushTx
  <2> QED
    BY <1>4, <1>6, <1>9, <2>1, <2>2
<1>10. ASSUME NEW c \in Host.push_rx, PushRx(c[1], c[2])
       PROVE  EchoInv' /\ Moves
  <2>1. c[1] \in SMs /\ c[1] # Me
    BY ExecAssumption, EchoAssumption DEF HostCalls, LeavesEcho
  <2>2. \E t : Put(c[1], t)
    BY <1>10 DEF PushRx
  <2> QED
    BY <1>4, <2>1, <2>2
<1>11. ASSUME NEW m \in Host.pop_tx, PopTx(m)
       PROVE  EchoInv' /\ Moves
  <2>1. m \in SMs /\ m # Me
    BY ExecAssumption, EchoAssumption DEF HostCalls, LeavesEcho
  <2>2. \E t : Put(m, t)
    BY <1>11 DEF PopTx
  <2> QED
    BY <1>4, <2>1, <2>2
<1>12. ASSUME NEW m \in Host.pop_rx, PopRx(m)
       PROVE  EchoInv' /\ Moves
  <2>1. m \in SMs
    BY ExecAssumption DEF HostCalls
  <2>2. \E t : Put(m, t)
    BY <1>12 DEF PopRx
  <2> QED
    BY <1>4, <1>7, <1>12, <2>1, <2>2
<1>13. ASSUME NEW m \in Host.toggles, NEW on \in BOOLEAN,
              Put(m, [sm[m] EXCEPT !.enabled = on])
       PROVE  EchoInv' /\ Moves
  <2>1. m \in SMs
    BY ExecAssumption DEF HostCalls
  <2> QED
    BY <1>4, <1>8, <1>13, <2>1
<1> QED
  BY <1>9, <1>10, <1>11, <1>12, <1>13 DEF HostSm

\* No other call of the host concerns it.
LEMMA HostEchoes ==
  ASSUME TypeOK, FifoBounded, EchoInv, HostCall
  PROVE  EchoInv' /\ Moves
<1>1. Me \in SMs
  BY EchoAssumption
<1>2. ASSUME sm'[Me] = sm[Me], Coded'
      PROVE  EchoInv' /\ Moves
  <2>1. Path(sm'[Me]) = Path(sm[Me])
    BY <1>2
  <2> QED
    BY <1>2, <2>1, PathEchoes
<1>3. CASE HostIrq \/ HostPins
  BY <1>2, <1>3, CodedKeeps DEF HostIrq, HostPins
<1>4. CASE HostConfig
  <2>1. reg'[Me] = reg[Me]
    <3>1. ASSUME NEW c \in Host.regs, reg' = [reg EXCEPT ![c[1]] = c[2]]
          PROVE  reg'[Me] = reg[Me]
      BY <1>1, <3>1, EchoAssumption DEF LeavesEcho, TypeOK
    <3> QED
      BY <1>4, <3>1 DEF HostConfig
  <2>2. instr'[Me[1]][0] = instr[Me[1]][0] /\ instr'[Me[1]][1] = instr[Me[1]][1]
    <3>1. ASSUME NEW c \in Host.instrs,
                 instr' = [instr EXCEPT ![c[1]] = [@ EXCEPT ![c[2]] = c[3]]]
          PROVE  /\ instr'[Me[1]][0] = instr[Me[1]][0]
                 /\ instr'[Me[1]][1] = instr[Me[1]][1]
      <4>1. Me[1] \in Blocks /\ {0, 1} \subseteq Addrs
        BY <1>1, SmTyped, EchoAssumption, ExecAssumption DEF Addrs
      <4>2. c[1] = Me[1] => c[2] # 0 /\ c[2] # 1
        BY EchoAssumption DEF LeavesEcho
      <4>3. instr \in [Blocks -> [Addrs -> Instr]]
        BY DEF TypeOK
      <4> QED
        BY <3>1, <4>1, <4>2, <4>3
    <3> QED
      BY <1>4, <3>1 DEF HostConfig
  <2>3. Coded'
    BY <2>1, <2>2 DEF EchoInv, Coded
  <2> QED
    BY <1>2, <1>4, <2>3 DEF HostConfig
<1>5. CASE HostExec
  <2>1. PICK c \in Host.execs : Execute(c[1], c[2], FALSE)
    BY <1>5 DEF HostExec
  <2>2. c[1] \in SMs /\ c[1] # Me
    BY ExecAssumption, EchoAssumption DEF HostCalls, LeavesEcho
  <2>3. sm'[Me] = sm[Me]
    BY <1>1, <2>1, <2>2, ExecuteOthers
  <2>4. Coded'
    BY <1>5, CodedKeeps DEF HostExec
  <2> QED
    BY <1>2, <2>3, <2>4
<1> QED
  BY <1>3, <1>4, <1>5, HostSmEchoes DEF HostCall

-----------------------------------------------------------------------------
(* The refinement *)

\* The machine starts with its program and registers, and without a word.
LEMMA InitEchoes == Init => EchoInv /\ Queue = <<>>
<1> SUFFICES ASSUME NEW setup \in Setups, InitFrom(setup)
             PROVE  EchoInv /\ Queue = <<>>
  BY DEF Init
<1>1. Me \in SMs /\ Echoes(setup)
  BY EchoAssumption
<1>2. sm[Me] = SmReset(setup, Me) /\ setup.start[Me] = 0
  BY <1>1 DEF InitFrom, Echoes
<1>3. /\ sm[Me].pc = 0 /\ sm[Me].isr_count = 0 /\ sm[Me].osr_count = 32
      /\ sm[Me].exec_pending = FALSE /\ sm[Me].stalled = FALSE
      /\ sm[Me].rx = <<>> /\ sm[Me].tx = <<>>
  BY <1>2 DEF SmReset
<1>4. Coded
  BY <1>1 DEF InitFrom, Echoes, Coded
<1>5. InFlight = <<>>
  BY <1>3 DEF InFlight
<1> QED
  BY <1>3, <1>4, <1>5 DEF EchoInv, Phase, Queue

\* Whatever words the machine is given and however it is interrupted, what the host
\* pops from it is what the host pushed to it, each word once, whole and in order,
\* and no more than the two FIFOs and one word in flight hold: for every delay in
\* the two instructions, and whatever other machines, their programs and the rest
\* of the host's calls do.
THEOREM EchoImplementsChannel == Spec => EchoIsChannel
<1>1. Init => EchoInv /\ Channel!Init
  BY InitEchoes DEF Channel!Init, Queue
<1>2. TypeOK /\ FifoBounded /\ EchoInv /\ [Next]_vars =>
        EchoInv' /\ [Channel!Next]_(sm[Me].rx \o InFlight \o sm[Me].tx)
  <2> SUFFICES ASSUME TypeOK, FifoBounded, EchoInv, [Next]_vars
               PROVE  EchoInv' /\ Moves
    BY DEF Moves, Queue, Channel!Next, Channel!Send, Channel!Receive
  <2>1. CASE UNCHANGED vars
    <3>1. sm'[Me] = sm[Me] /\ Path(sm'[Me]) = Path(sm[Me])
      BY <2>1 DEF vars
    <3>2. Coded'
      BY <2>1, CodedKeeps DEF vars
    <3> QED
      BY <3>1, <3>2, PathEchoes
  <2> QED
    BY <2>1, CycleEchoes, HostEchoes DEF Next
<1> QED
  BY <1>1, <1>2, TypeCorrect, FifosBounded, PTL
  DEF Spec, EchoIsChannel, Channel!Spec
=============================================================================
