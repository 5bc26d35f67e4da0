--------------------------- MODULE EpioExec_proofs ---------------------------
(***************************************************************************)
(* The machine words and the decoder, for every width of at least 16 bits: *)
(* what the shifts return is a word, a bit field is within its width, and  *)
(* every word decodes to an instruction.  Type correctness of the PIO      *)
(* blocks, for every size of the chip, every program and configuration,    *)
(* and every set of host calls.  And their pins: each step of the chip is, *)
(* for the pins, a step of EpioPins, so that what is proved there holds    *)
(* here, and no block drives a pin of another.                             *)
(***************************************************************************)
EXTENDS EpioOwners, EpioPins_proofs

-----------------------------------------------------------------------------
(* Words and instructions *)

\* Shifts, masks, complements and decrements of words are words.
LEMMA WordsTyped ==
  ASSUME NEW w \in Word, NEW n
  PROVE  /\ Low(w, n) \in Word
         /\ ShiftRight(w, n) \in Word
         /\ ShiftLeft(w, n) \in Word
         /\ Invert(w) \in Word
         /\ Reverse(w) \in Word
         /\ Decrement(w) \in Word
         /\ {} \in Word
         /\ Bits \in Word
BY DEF Word, Low, ShiftRight, ShiftLeft, Invert, Reverse, Decrement

\* The uint8_t that a PC is.
LEMMA ByteOfTyped ==
  ASSUME NEW w
  PROVE  ByteOf(w) \in 0 .. 255
BY DEF ByteOf

\* A number of n bits is below 2^n, for the widths of the encoding.
LEMMA LowBounds ==
  ASSUME NEW v
  PROVE  /\ ByteOf(Low(v, 2)) \in 0 .. 3
         /\ ByteOf(Low(v, 3)) \in 0 .. 7
         /\ ByteOf(Low(v, 5)) \in 0 .. 31
<1>1. ASSUME NEW n \in Nat, NEW k \in Nat, k >= n
      PROVE  k \notin Low(v, n)
  BY <1>1 DEF Low
<1>2. ByteOf(Low(v, 2)) \in 0 .. 3
  <2>1. \A k \in 2 .. 7 : k \notin Low(v, 2)
    BY <1>1
  <2> QED
    BY <2>1 DEF ByteOf
<1>3. ByteOf(Low(v, 3)) \in 0 .. 7
  <2>1. \A k \in 3 .. 7 : k \notin Low(v, 3)
    BY <1>1
  <2> QED
    BY <2>1 DEF ByteOf
<1>4. ByteOf(Low(v, 5)) \in 0 .. 31
  <2>1. \A k \in 5 .. 7 : k \notin Low(v, 5)
    BY <1>1
  <2> QED
    BY <2>1 DEF ByteOf
<1> QED
  BY <1>2, <1>3, <1>4

\* So is a field of n bits.
LEMMA FieldBounds ==
  ASSUME NEW w, NEW at
  PROVE  /\ Field(w, at, 2) \in 0 .. 3
         /\ Field(w, at, 3) \in 0 .. 7
         /\ Field(w, at, 5) \in 0 .. 31
BY LowBounds DEF Field

\* Every entry of the tables of names is one of their names.
LEMMA NamesTyped ==
  /\ \A k \in 0 .. 7 : Conds[k + 1] \in Names(Conds)
  /\ \A k \in 0 .. 3 : WaitSources[k + 1] \in Names(WaitSources)
  /\ \A k \in 0 .. 7 : InSources[k + 1] \in Names(InSources)
  /\ \A k \in 0 .. 7 : OutDests[k + 1] \in Names(OutDests)
  /\ \A k \in 0 .. 7 : MovDests[k + 1] \in Names(MovDests)
  /\ \A k \in 0 .. 3 : MovOps[k + 1] \in Names(MovOps)
  /\ \A k \in 0 .. 7 : MovSources[k + 1] \in Names(MovSources)
  /\ \A k \in 0 .. 7 : SetDests[k + 1] \in Names(SetDests)
BY DEF Names, Conds, WaitSources, InSources, OutDests, MovDests, MovOps,
       MovSources, SetDests

\* Every word decodes to an instruction, in range: the bounds of the tables and
\* of the operands are never exceeded.
LEMMA DecodeTyped ==
  ASSUME NEW w
  PROVE  Decode(w) \in Instr
<1> DEFINE opcode == Field(w, 13, 3)
           delay == Field(w, 8, 5)
           high == Field(w, 5, 3)
           low == Field(w, 0, 5)
           count == IF low = 0 THEN 32 ELSE low
           jmp == [op |-> "JMP", cond |-> Conds[high + 1], addr |-> low,
                   delay |-> delay]
           wait == [op |-> "WAIT", polarity |-> 7 \in w,
                    src |-> WaitSources[Field(w, 5, 2) + 1], index |-> low,
                    delay |-> delay]
           in == [op |-> "IN", src |-> InSources[high + 1], count |-> count,
                  delay |-> delay]
           out == [op |-> "OUT", dst |-> OutDests[high + 1], count |-> count,
                   delay |-> delay]
           pull == [op |-> "PULL", if_empty |-> 6 \in w, block |-> 5 \in w,
                    delay |-> delay]
           push == [op |-> "PUSH", if_full |-> 6 \in w, block |-> 5 \in w,
                    delay |-> delay]
           mov == [op |-> "MOV", dst |-> MovDests[high + 1],
                   mov_op |-> MovOps[Field(w, 3, 2) + 1],
                   src |-> MovSources[Field(w, 0, 3) + 1], delay |-> delay]
           flag == [op |-> "IRQ", clr |-> 6 \in w, wait |-> 5 \in w,
                    index |-> low, delay |-> delay]
           set == [op |-> "SET", dst |-> SetDests[high + 1],
                   data |-> Low(w, 5), delay |-> delay]
<1>1. /\ opcode \in 0 .. 7 /\ delay \in Delays /\ high \in 0 .. 7
      /\ low \in Indexes /\ count \in Counts
      /\ Field(w, 5, 2) \in 0 .. 3 /\ Field(w, 3, 2) \in 0 .. 3
      /\ Field(w, 0, 3) \in 0 .. 7
  BY FieldBounds DEF Delays, Indexes, Counts
<1>2. jmp \in JmpInstr
  BY <1>1, NamesTyped DEF JmpInstr
<1>3. wait \in WaitInstr
  BY <1>1, NamesTyped DEF WaitInstr
<1>4. in \in InInstr
  BY <1>1, NamesTyped DEF InInstr
<1>5. out \in OutInstr
  BY <1>1, NamesTyped DEF OutInstr
<1>6. pull \in PullInstr /\ push \in PushInstr
  BY <1>1 DEF PullInstr, PushInstr
<1>7. mov \in MovInstr
  BY <1>1, NamesTyped DEF MovInstr
<1>8. flag \in IrqInstr
  BY <1>1 DEF IrqInstr
<1>9. set \in SetInstr
  BY <1>1, NamesTyped DEF SetInstr, Low
<1>10. [op |-> "BAD"] \in BadInstr
  BY DEF BadInstr
<1>11. Decode(w) =
         CASE opcode = 0 -> jmp
           [] opcode = 1 -> wait
           [] opcode = 2 -> in
           [] opcode = 3 -> out
           [] opcode = 4 /\ 3 \in w -> [op |-> "BAD"]
           [] opcode = 4 /\ 3 \notin w /\ 7 \in w -> pull
           [] opcode = 4 /\ 3 \notin w /\ 7 \notin w -> push
           [] opcode = 5 -> mov
           [] opcode = 6 -> flag
           [] opcode = 7 -> set
  BY DEF Decode
<1> HIDE DEF opcode, jmp, wait, in, out, pull, push, mov, flag, set
<1> QED
  BY <1>1, <1>2, <1>3, <1>4, <1>5, <1>6, <1>7, <1>8, <1>9, <1>10, <1>11
  DEF Instr

-----------------------------------------------------------------------------
(* Executions *)

\* What an execution must leave behind
Typed ==
  /\ sm' \in [SMs -> SmState]
  /\ irq' \in [Blocks -> IrqState]
  /\ gpio' \in GpioState

-----------------------------------------------------------------------------
(* Numbers *)

\* The two halves of a machine's name.
LEMMA SmTyped ==
  ASSUME NEW m \in SMs
  PROVE  m[1] \in Blocks /\ m[2] \in SmNums /\ m = <<m[1], m[2]>>
BY DEF SMs

\* The loop of epio_step_cycles goes from machine to machine, and to its end.
LEMMA NextTurnTyped ==
  ASSUME NEW m \in SMs
  PROVE  NextTurn(m) \in Turns
<1>1. m[1] \in 0 .. NumBlocks - 1 /\ m[2] \in 0 .. NumSms - 1
  BY SmTyped DEF Blocks, SmNums
<1>2. CASE m[2] < NumSms - 1
  BY <1>1, <1>2, ChipAssumption DEF NextTurn, Turns, SMs, Blocks, SmNums
<1>3. CASE m[2] = NumSms - 1 /\ m[1] < NumBlocks - 1
  BY <1>1, <1>3, ChipAssumption DEF NextTurn, Turns, SMs, Blocks, SmNums
<1>4. CASE m[2] = NumSms - 1 /\ m[1] = NumBlocks - 1
  BY <1>1, <1>4, ChipAssumption DEF NextTurn, Turns, LoopEnd
<1> QED
  BY <1>1, <1>2, <1>3, <1>4, ChipAssumption

\* Neither the relative numbering nor the neighbouring block runs off its range.
LEMMA IrqTargetTyped ==
  ASSUME NEW b \in Blocks, NEW s \in SmNums, NEW index \in Indexes
  PROVE  IrqTarget(b, s, index) \in Blocks \X IrqNums
<1> DEFINE mode == index \div 8
           num == index % 8
<1>1. mode \in 0 .. 3 /\ num \in 0 .. 7
  BY DEF Indexes
<1>2. (4 * (num \div 4)) + ((num + s) % 4) \in 0 .. 7
  BY <1>1, ChipAssumption DEF SmNums
<1>3. IrqTarget(b, s, index) =
        CASE mode = 0 -> <<b, num>>
          [] mode = 1 -> <<IF b = 0 THEN NumBlocks - 1 ELSE b - 1, num>>
          [] mode = 2 -> <<b, (4 * (num \div 4)) + ((num + s) % 4)>>
          [] mode = 3 -> <<IF b = NumBlocks - 1 THEN 0 ELSE b + 1, num>>
  BY DEF IrqTarget
<1> HIDE DEF mode, num
<1> QED
  BY <1>1, <1>2, <1>3, ChipAssumption DEF Blocks, IrqNums

\* Whatever pins an instruction writes, wrapped in the window, exist.
LEMMA PinsAtTyped ==
  ASSUME TypeOK, NEW m \in SMs, NEW first \in Int, NEW ks \in SUBSET Int
  PROVE  PinsAt(m, first, ks) \in SUBSET Gpios
<1>1. base[m[1]] \in {0, 16}
  BY SmTyped DEF TypeOK, Bases
<1>2. \A k \in Int : PinAt(m, k) \in Gpios
  <2>1. \A k \in Int : k % 32 \in 0 .. 31
    OBVIOUS
  <2>2. \A j \in 0 .. 31 : j + base[m[1]] \in Gpios
    BY <1>1, ExecAssumption, GpioAssumption DEF Gpios
  <2> QED
    BY <2>1, <2>2 DEF PinAt, Window
<1>3. \A k \in ks : first + k \in Int
  OBVIOUS
<1>4. \A k \in ks : PinAt(m, first + k) \in Gpios
  BY <1>2, <1>3
<1> QED
  BY <1>4 DEF PinsAt

\* The input pins gathered by IN and MOV make a word.
LEMMA InputWordTyped ==
  ASSUME NEW m, NEW first, NEW n \in 0 .. 32
  PROVE  InputWord(m, first, n) \in Word
<1>1. 0 .. n - 1 \subseteq Bits
  BY ExecAssumption DEF Bits
<1> QED
  BY <1>1 DEF InputWord, Word

-----------------------------------------------------------------------------
(* Machine states *)

\* Replacing one machine keeps them all well typed.
LEMMA PutTyped ==
  ASSUME TypeOK, NEW m \in SMs, NEW s \in SmState, Put(m, s)
  PROVE  sm' \in [SMs -> SmState]
BY DEF TypeOK, Put

\* One field at a time: an update of several fields is a chain of these.
LEMMA UpdatesTyped ==
  ASSUME NEW s \in SmState
  PROVE  /\ \A w \in Word : /\ [s EXCEPT !.x = w] \in SmState
                            /\ [s EXCEPT !.y = w] \in SmState
                            /\ [s EXCEPT !.isr = w] \in SmState
                            /\ [s EXCEPT !.osr = w] \in SmState
         /\ \A n \in 0 .. 32 : /\ [s EXCEPT !.isr_count = n] \in SmState
                               /\ [s EXCEPT !.osr_count = n] \in SmState
         /\ [s EXCEPT !.isr_count = 0] \in SmState
         /\ [s EXCEPT !.osr_count = 0] \in SmState
         /\ \A n \in 0 .. 255 : [s EXCEPT !.pc = n] \in SmState
         /\ \A d \in Delays : [s EXCEPT !.delay = d] \in SmState
         /\ \A q \in Fifo : /\ [s EXCEPT !.tx = q] \in SmState
                            /\ [s EXCEPT !.rx = q] \in SmState
         /\ \A b \in BOOLEAN : /\ [s EXCEPT !.stalled = b] \in SmState
                               /\ [s EXCEPT !.enabled = b] \in SmState
                               /\ [s EXCEPT !.exec_pending = b] \in SmState
         /\ \A i \in Instr : [s EXCEPT !.exec_instr = i] \in SmState
<1>1. \A w \in Word : [s EXCEPT !.x = w] \in SmState
  BY DEF SmState
<1>2. \A w \in Word : [s EXCEPT !.y = w] \in SmState
  BY DEF SmState
<1>3. \A w \in Word : [s EXCEPT !.isr = w] \in SmState
  BY DEF SmState
<1>4. \A w \in Word : [s EXCEPT !.osr = w] \in SmState
  BY DEF SmState
<1>5. \A n \in 0 .. 32 : [s EXCEPT !.isr_count = n] \in SmState
  BY DEF SmState
<1>6. \A n \in 0 .. 32 : [s EXCEPT !.osr_count = n] \in SmState
  BY DEF SmState
<1>7. \A n \in 0 .. 255 : [s EXCEPT !.pc = n] \in SmState
  BY DEF SmState
<1>8. \A d \in Delays : [s EXCEPT !.delay = d] \in SmState
  BY DEF SmState
<1>9. \A q \in Fifo : [s EXCEPT !.tx = q] \in SmState
  BY DEF SmState
<1>10. \A q \in Fifo : [s EXCEPT !.rx = q] \in SmState
  BY DEF SmState
<1>11. \A b \in BOOLEAN : [s EXCEPT !.stalled = b] \in SmState
  BY DEF SmState
<1>12. \A b \in BOOLEAN : [s EXCEPT !.enabled = b] \in SmState
  BY DEF SmState
<1>13. \A b \in BOOLEAN : [s EXCEPT !.exec_pending = b] \in SmState
  BY DEF SmState
<1>14. \A i \in Instr : [s EXCEPT !.exec_instr = i] \in SmState
  BY DEF SmState
<1>15. 0 \in 0 .. 32
  OBVIOUS
<1> QED
  BY <1>1, <1>2, <1>3, <1>4, <1>5, <1>6, <1>7, <1>8, <1>9, <1>10, <1>11, <1>12,
     <1>13, <1>14, <1>15

\* A delay field fits the delay counter.
LEMMA DelayTyped ==
  ASSUME NEW i \in Instr, i.op # "BAD"
  PROVE  NewDelay(i) \in Delays
<1>1. i.delay \in Delays
  BY DEF Instr, JmpInstr, WaitInstr, InInstr, OutInstr, PushInstr, PullInstr,
         MovInstr, IrqInstr, SetInstr, BadInstr
<1> QED
  BY <1>1 DEF NewDelay, Delays

\* The three ends of an execution keep a machine state a machine state; the
\* program counter remains a uint8_t.
LEMMA EndsTyped ==
  ASSUME TypeOK, NEW m \in SMs, NEW i \in Instr, i.op # "BAD", NEW stepping,
         NEW s \in SmState,
         Retire(m, i, stepping, s) \/ Redirect(m, i, s) \/ Stall(m, s)
  PROVE  sm' \in [SMs -> SmState]
<1> DEFINE t == [s EXCEPT !.delay = NewDelay(i)]
<1>1. t \in SmState
  BY DelayTyped DEF SmState
<1>2. Advanced(m, t) \in SmState
  <2>1. reg[m].wrap_bottom \in 0 .. 31
    BY DEF TypeOK, Reg
  <2>2. Following(m, t.pc) \in 0 .. 255
    BY <1>1, <2>1 DEF Following, SmState
  <2>3. \A pc \in 0 .. 255 : \A pending \in BOOLEAN :
          [t EXCEPT !.pc = pc, !.exec_pending = pending] \in SmState
    BY <1>1 DEF SmState
  <2>4. PICK pending \in BOOLEAN :
          pending = (t.exec_pending /\ ~sm[m].exec_pending)
    OBVIOUS
  <2>5. Advanced(m, t) =
          [t EXCEPT !.pc = Following(m, t.pc), !.exec_pending = pending]
    BY <2>4 DEF Advanced
  <2> HIDE DEF t
  <2> QED
    BY <2>2, <2>3, <2>5
<1>3. [s EXCEPT !.stalled = TRUE] \in SmState
  BY DEF SmState
<1>4. \E r \in SmState : Put(m, r)
  BY <1>1, <1>2, <1>3 DEF Retire, Redirect, Stall
<1> QED
  BY <1>4, PutTyped

\* A push of the ISR or a pull into the OSR leaves a well-typed machine.
LEMMA FifosTyped ==
  ASSUME NEW s \in SmState
  PROVE  /\ PushIsr(s) \in SmState
         /\ s.tx # <<>> => PullOsr(s) \in SmState
         /\ [s EXCEPT !.stalled = FALSE] \in SmState
<1>1. Append(s.rx, s.isr) \in Fifo /\ {} \in Word
  BY DEF SmState, Fifo, Word
<1>2. s.tx # <<>> => Head(s.tx) \in Word /\ Tail(s.tx) \in Fifo
  BY DEF SmState, Fifo
<1>3. PushIsr(s) \in SmState
  <2>1. [s EXCEPT !.rx = Append(@, s.isr)] \in SmState
    BY <1>1, UpdatesTyped
  <2>2. [s EXCEPT !.rx = Append(@, s.isr), !.isr = {}] \in SmState
    BY <1>1, <2>1, UpdatesTyped
  <2>3. [s EXCEPT !.rx = Append(@, s.isr), !.isr = {}, !.isr_count = 0]
          \in SmState
    BY <1>1, <2>2, UpdatesTyped
  <2> QED
    BY <2>3, UpdatesTyped DEF PushIsr
<1>4. ASSUME s.tx # <<>> PROVE PullOsr(s) \in SmState
  <2>1. [s EXCEPT !.osr = Head(s.tx)] \in SmState
    BY <1>2, <1>4, UpdatesTyped
  <2>2. [s EXCEPT !.osr = Head(s.tx), !.tx = Tail(@)] \in SmState
    BY <1>2, <1>4, <2>1, UpdatesTyped
  <2>3. [s EXCEPT !.osr = Head(s.tx), !.tx = Tail(@), !.osr_count = 0]
          \in SmState
    BY <1>1, <2>2, UpdatesTyped
  <2> QED
    BY <2>3, UpdatesTyped DEF PullOsr
<1> QED
  BY <1>3, <1>4, UpdatesTyped

-----------------------------------------------------------------------------
(* The instructions *)

\* What TypeOK says of one machine.
LEMMA MachineTyped ==
  ASSUME TypeOK, NEW m \in SMs
  PROVE  /\ sm[m] \in SmState
         /\ reg[m] \in Reg
         /\ irq \in [Blocks -> IrqState]
         /\ gpio \in GpioState
BY DEF TypeOK

\* The opcode of an instruction tells which fields it has.
LEMMA InstrFields ==
  ASSUME NEW i \in Instr
  PROVE  /\ i.op = "JMP" => i \in JmpInstr
         /\ i.op = "WAIT" => i \in WaitInstr
         /\ i.op = "IN" => i \in InInstr
         /\ i.op = "OUT" => i \in OutInstr
         /\ i.op = "PULL" => i \in PullInstr
         /\ i.op = "PUSH" => i \in PushInstr
         /\ i.op = "MOV" => i \in MovInstr
         /\ i.op = "IRQ" => i \in IrqInstr
         /\ i.op = "SET" => i \in SetInstr
BY DEF Instr, JmpInstr, WaitInstr, InInstr, OutInstr, PushInstr, PullInstr,
       MovInstr, IrqInstr, SetInstr, BadInstr

\* A request to set or clear a flag is one of the eight of a block.
LEMMA RequestsTyped ==
  ASSUME TypeOK, NEW t \in Blocks \X IrqNums,
         RequestSet(t) \/ RequestClear(t) \/ UNCHANGED irq
  PROVE  irq' \in [Blocks -> IrqState]
<1>1. t[1] \in Blocks /\ t[2] \in IrqNums /\ irq[t[1]] \in IrqState
  BY DEF TypeOK
<1>2. /\ [irq[t[1]] EXCEPT !.to_set = @ \cup {t[2]}] \in IrqState
      /\ [irq[t[1]] EXCEPT !.to_clear = @ \cup {t[2]}] \in IrqState
  BY <1>1 DEF IrqState
<1>3. CASE RequestSet(t)
  BY <1>1, <1>2, <1>3 DEF TypeOK, RequestSet
<1>4. CASE RequestClear(t)
  BY <1>1, <1>2, <1>4 DEF TypeOK, RequestClear
<1> QED
  BY <1>3, <1>4 DEF TypeOK

\* JMP, with the decrements of X and Y, keeps the types.
LEMMA JmpTyped ==
  ASSUME TypeOK, NEW m \in SMs, NEW i \in Instr, NEW stepping,
         Jmp(m, i, stepping)
  PROVE  Typed
<1> DEFINE x == IF i.cond = "X_DEC" THEN Decrement(sm[m].x) ELSE sm[m].x
           y == IF i.cond = "Y_DEC" THEN Decrement(sm[m].y) ELSE sm[m].y
           s == [sm[m] EXCEPT !.x = x, !.y = y]
<1>1. i \in JmpInstr /\ i.op # "BAD"
  BY InstrFields DEF Jmp
<1>2. s \in SmState
  <2>1. x \in Word /\ y \in Word
    BY MachineTyped, WordsTyped DEF SmState
  <2> HIDE DEF x, y
  <2>2. [sm[m] EXCEPT !.x = x] \in SmState
    BY <2>1, MachineTyped, UpdatesTyped
  <2> QED
    BY <2>1, <2>2, UpdatesTyped
<1>3. [s EXCEPT !.pc = i.addr] \in SmState
  <2>1. i.addr \in 0 .. 255
    BY <1>1 DEF JmpInstr, Indexes
  <2> HIDE DEF s
  <2> QED
    BY <1>2, <2>1, UpdatesTyped
<1>4. \/ Redirect(m, i, [s EXCEPT !.pc = i.addr])
      \/ Retire(m, i, stepping, s)
  BY DEF Jmp
<1>5. UNCHANGED <<irq, gpio>>
  BY DEF Jmp
<1> HIDE DEF s
<1>6. sm' \in [SMs -> SmState]
  BY <1>1, <1>2, <1>3, <1>4, EndsTyped
<1> QED
  BY <1>5, <1>6 DEF TypeOK, Typed

\* WAIT keeps the types.
LEMMA WaitTyped ==
  ASSUME TypeOK, NEW m \in SMs, NEW i \in Instr, NEW stepping,
         Wait(m, i, stepping)
  PROVE  Typed
<1>1. i \in WaitInstr /\ i.op # "BAD"
  BY InstrFields DEF Wait
<1>2. sm[m] \in SmState /\ [sm[m] EXCEPT !.stalled = FALSE] \in SmState
  BY MachineTyped, FifosTyped
<1>3. \/ Retire(m, i, stepping, [sm[m] EXCEPT !.stalled = FALSE])
      \/ Stall(m, sm[m])
  BY DEF Wait
<1>4. sm' \in [SMs -> SmState]
  BY <1>1, <1>2, <1>3, EndsTyped
<1>5. irq' \in [Blocks -> IrqState]
  <2>1. IrqTarget(m[1], m[2], i.index) \in Blocks \X IrqNums
    BY <1>1, SmTyped, IrqTargetTyped DEF WaitInstr
  <2>2. RequestClear(IrqTarget(m[1], m[2], i.index)) \/ UNCHANGED irq
    BY DEF Wait
  <2> QED
    BY <2>1, <2>2, RequestsTyped
<1>6. gpio' \in GpioState
  BY DEF Wait, TypeOK
<1> QED
  BY <1>4, <1>5, <1>6 DEF Typed

\* The shift of IN stays within a word and its count within 32.
LEMMA InStateTyped ==
  ASSUME TypeOK, NEW m \in SMs, NEW i \in InInstr,
         ~sm[m].stalled => i.src # "BAD"
  PROVE  InState(m, i) \in SmState
<1> SUFFICES ASSUME ~sm[m].stalled PROVE InState(m, i) \in SmState
  BY MachineTyped DEF InState
<1>1. /\ i.src \in {"PINS", "X", "Y", "NULL", "ISR", "OSR"}
      /\ i.count \in 0 .. 32
  BY DEF InInstr, Names, InSources, Counts
<1>2. InSource(m, i) \in Word
  BY <1>1, InputWordTyped, MachineTyped, WordsTyped DEF InSource, SmState, Word
<1> DEFINE data == Low(InSource(m, i), i.count)
           isr == IF reg[m].in_right
                  THEN ShiftRight(sm[m].isr, i.count)
                         \cup ShiftLeft(data, 32 - i.count)
                  ELSE ShiftLeft(sm[m].isr, i.count) \cup data
           n == Capped(sm[m].isr_count + i.count)
<1>3. isr \in Word
  BY <1>2, MachineTyped, WordsTyped DEF SmState, Word, Low, ShiftRight,
     ShiftLeft
<1>4. n \in 0 .. 32
  BY <1>1, MachineTyped DEF Capped, SmState, InInstr, Counts
<1>5. ShiftedIn(m, i) = [sm[m] EXCEPT !.isr = isr, !.isr_count = n]
  BY DEF ShiftedIn
<1> HIDE DEF isr, n
<1>6. [sm[m] EXCEPT !.isr = isr] \in SmState
  BY <1>3, MachineTyped, UpdatesTyped
<1>7. ShiftedIn(m, i) \in SmState
  BY <1>4, <1>5, <1>6, UpdatesTyped
<1> QED
  BY <1>7, MachineTyped DEF InState

\* IN, with its autopush, keeps the types.
LEMMA InTyped ==
  ASSUME TypeOK, NEW m \in SMs, NEW i \in Instr, NEW stepping,
         In(m, i, stepping)
  PROVE  Typed
<1>1. i \in InInstr /\ i.op # "BAD" /\ (~sm[m].stalled => i.src # "BAD")
  BY InstrFields DEF In
<1>2. InState(m, i) \in SmState
  BY <1>1, InStateTyped
<1>3. \/ Retire(m, i, stepping, PushIsr(InState(m, i)))
      \/ Stall(m, InState(m, i))
      \/ Retire(m, i, stepping, InState(m, i))
  BY DEF In
<1>4. sm' \in [SMs -> SmState]
  BY <1>1, <1>2, <1>3, FifosTyped, EndsTyped
<1> QED
  BY <1>4 DEF In, TypeOK, Typed

\* The destinations of OUT and MOV: the pins they write exist.
LEMMA DeliverTyped ==
  ASSUME TypeOK, NEW m \in SMs, NEW i \in Instr, i.op # "BAD", NEW stepping,
         NEW s \in SmState, NEW n \in 0 .. 32, NEW data \in Word,
         Deliver(m, i, stepping, s, n, data)
  PROVE  sm' \in [SMs -> SmState] /\ gpio' \in GpioState
<1> DEFINE pins == PinsAt(m, reg[m].out_base, 0 .. n - 1)
           ones == PinsAt(m, reg[m].out_base, Low(data, n))
           e == [s EXCEPT !.exec_instr = Decode(Low(data, 16)),
                          !.exec_pending = TRUE]
<1>1. pins \in SUBSET Gpios /\ ones \in SUBSET Gpios
  <2>1. reg[m].out_base \in Int
    BY MachineTyped DEF Reg
  <2>2. 0 .. n - 1 \in SUBSET Int /\ Low(data, n) \in SUBSET Int
    BY DEF Low
  <2> QED
    BY <2>1, <2>2, PinsAtTyped
<1>2. /\ [s EXCEPT !.x = data] \in SmState
      /\ [s EXCEPT !.y = data] \in SmState
  BY UpdatesTyped
<1>3. e \in SmState
  <2>1. [s EXCEPT !.exec_instr = Decode(Low(data, 16))] \in SmState
    BY DecodeTyped, UpdatesTyped
  <2> QED
    BY <2>1, UpdatesTyped
<1>4. \E r \in SmState : Retire(m, i, stepping, r)
  BY <1>2, <1>3 DEF Deliver
<1>5. sm' \in [SMs -> SmState]
  BY <1>4, EndsTyped
<1>6. gpio \in GpioState
  BY MachineTyped
<1> HIDE DEF pins, ones
<1>7. /\ WritePins(m[1], pins, ones) \in GpioState
      /\ WriteDirs(m[1], pins, ones) \in GpioState
  BY <1>1, <1>6, SmTyped, WritesTyped DEF GpioTypeOK
<1>8. \/ UNCHANGED gpio
      \/ gpio' = WritePins(m[1], pins, ones)
      \/ gpio' = WriteDirs(m[1], pins, ones)
  BY DEF Deliver, pins, ones
<1> QED
  BY <1>5, <1>6, <1>7, <1>8

\* OUT, with its autopull, keeps the types: the program counter stays a byte.
LEMMA OutTyped ==
  ASSUME TypeOK, NEW m \in SMs, NEW i \in Instr, NEW stepping,
         Out(m, i, stepping)
  PROVE  Typed
<1> DEFINE refill == reg[m].autopull /\ sm[m].osr_count >= reg[m].pull_thresh
           s == IF refill THEN PullOsr(sm[m]) ELSE sm[m]
           t == ShiftedOut(m, s, i.count)
           data == OutData(m, s, i.count)
<1>1. i \in OutInstr /\ i.op # "BAD" /\ i.count \in 1 .. 32
  BY InstrFields DEF Out, OutInstr, Counts
<1>2. CASE Stall(m, sm[m]) /\ UNCHANGED gpio
  BY <1>1, <1>2, MachineTyped, EndsTyped DEF Out, Typed
<1>3. CASE (refill => sm[m].tx # <<>>) /\ OutTo(m, i, stepping, t, data)
  <2>1. s \in SmState
    BY <1>3, MachineTyped, FifosTyped
  <2> HIDE DEF s
  <2>2. t \in SmState
    <3> DEFINE osr == IF reg[m].out_right THEN ShiftRight(s.osr, i.count)
                      ELSE ShiftLeft(s.osr, i.count)
               n == Capped(s.osr_count + i.count)
    <3>1. osr \in Word /\ n \in 0 .. 32
      BY <1>1, <2>1, WordsTyped DEF Capped, SmState
    <3>2. t = [s EXCEPT !.osr = osr, !.osr_count = n]
      BY DEF ShiftedOut
    <3> HIDE DEF osr, n
    <3>3. [s EXCEPT !.osr = osr] \in SmState
      BY <2>1, <3>1, UpdatesTyped
    <3> QED
      BY <3>1, <3>2, <3>3, UpdatesTyped
  <2>3. data \in Word
    BY <2>1, WordsTyped DEF OutData, SmState
  <2> HIDE DEF t, data
  <2>4. CASE Deliver(m, i, stepping, t, i.count, data)
    <3>1. i.count \in 0 .. 32
      BY <1>1
    <3> QED
      BY <1>1, <2>2, <2>3, <2>4, <3>1, DeliverTyped DEF Out, Typed, TypeOK
  <2>5. CASE Retire(m, i, stepping, t) /\ UNCHANGED gpio
    BY <1>1, <2>2, <2>5, EndsTyped DEF Out, Typed, TypeOK
  <2>6. CASE Redirect(m, i, [t EXCEPT !.pc = ByteOf(data)]) /\ UNCHANGED gpio
    <3>1. [t EXCEPT !.pc = ByteOf(data)] \in SmState
      BY <2>2, ByteOfTyped, UpdatesTyped
    <3> QED
      BY <1>1, <2>6, <3>1, EndsTyped DEF Out, Typed, TypeOK
  <2>7. CASE /\ Retire(m, i, stepping,
                       [t EXCEPT !.isr = data, !.isr_count = i.count])
             /\ UNCHANGED gpio
    <3>1. [t EXCEPT !.isr = data] \in SmState
      BY <2>2, <2>3, UpdatesTyped
    <3>2. i.count \in 0 .. 32
      BY <1>1
    <3>3. [t EXCEPT !.isr = data, !.isr_count = i.count] \in SmState
      BY <3>1, <3>2, UpdatesTyped
    <3> QED
      BY <1>1, <2>7, <3>3, EndsTyped DEF Out, Typed, TypeOK
  <2> QED
    BY <1>3, <2>4, <2>5, <2>6, <2>7 DEF OutTo
<1> QED
  BY <1>2, <1>3 DEF Out

\* PULL keeps the types.
LEMMA PullTyped ==
  ASSUME TypeOK, NEW m \in SMs, NEW i \in Instr, NEW stepping,
         Pull(m, i, stepping)
  PROVE  Typed
<1> DEFINE empty == [sm[m] EXCEPT !.osr = sm[m].x, !.osr_count = 0,
                                  !.stalled = FALSE]
<1>1. i.op # "BAD" /\ sm[m] \in SmState
  BY MachineTyped DEF Pull
<1>2. empty \in SmState
  <2>1. [sm[m] EXCEPT !.osr = sm[m].x] \in SmState
    <3>1. sm[m].x \in Word
      BY <1>1 DEF SmState
    <3> QED
      BY <1>1, <3>1, UpdatesTyped
  <2>2. [sm[m] EXCEPT !.osr = sm[m].x, !.osr_count = 0] \in SmState
    BY <2>1, UpdatesTyped
  <2> QED
    BY <2>2, UpdatesTyped
<1>3. \E s \in SmState : Retire(m, i, stepping, s) \/ Stall(m, s)
  <2>1. CASE Retire(m, i, stepping, sm[m]) \/ Stall(m, sm[m])
    BY <1>1, <2>1
  <2>2. CASE sm[m].tx # <<>> /\ Retire(m, i, stepping, PullOsr(sm[m]))
    BY <1>1, <2>2, FifosTyped
  <2>3. CASE Retire(m, i, stepping, empty)
    BY <1>2, <2>3
  <2> QED
    BY <2>1, <2>2, <2>3 DEF Pull
<1>4. sm' \in [SMs -> SmState]
  BY <1>1, <1>3, EndsTyped
<1> QED
  BY <1>4 DEF Pull, TypeOK, Typed

\* PUSH keeps the types.
LEMMA PushTyped ==
  ASSUME TypeOK, NEW m \in SMs, NEW i \in Instr, NEW stepping,
         Push(m, i, stepping)
  PROVE  Typed
<1> DEFINE lost == [sm[m] EXCEPT !.isr = {}, !.isr_count = 0]
<1>1. i.op # "BAD" /\ sm[m] \in SmState
  BY MachineTyped DEF Push
<1>2. lost \in SmState
  <2>1. [sm[m] EXCEPT !.isr = {}] \in SmState
    BY <1>1, UpdatesTyped DEF Word
  <2> QED
    BY <2>1, UpdatesTyped
<1>3. \E s \in SmState : Retire(m, i, stepping, s) \/ Stall(m, s)
  <2>1. CASE Retire(m, i, stepping, sm[m]) \/ Stall(m, sm[m])
    BY <1>1, <2>1
  <2>2. CASE Retire(m, i, stepping, PushIsr(sm[m]))
    BY <1>1, <2>2, FifosTyped
  <2>3. CASE Retire(m, i, stepping, lost)
    BY <1>2, <2>3
  <2> QED
    BY <2>1, <2>2, <2>3 DEF Push
<1>4. sm' \in [SMs -> SmState]
  BY <1>1, <1>3, EndsTyped
<1> QED
  BY <1>4 DEF Push, TypeOK, Typed

\* MOV keeps the types, whatever its source and operation.
LEMMA MovTyped ==
  ASSUME TypeOK, NEW m \in SMs, NEW i \in Instr, NEW stepping,
         Mov(m, i, stepping)
  PROVE  Typed
<1> DEFINE data == MovValue(m, i)
<1>1. /\ i \in MovInstr /\ i.op # "BAD"
      /\ i.src # "BAD" /\ i.mov_op # "BAD"
  BY InstrFields DEF Mov
<1>2. sm[m] \in SmState /\ reg[m].out_count \in 0 .. 32
  <2>1. reg[m].out_count \in 0 .. 31
    BY MachineTyped DEF Reg
  <2> QED
    BY <2>1, MachineTyped
<1>3. data \in Word
  <2>1. MovSource(m, i) \in Word
    <3>1. i.src \in {"PINS", "X", "Y", "NULL", "STATUS", "ISR", "OSR"}
      BY <1>1 DEF MovInstr, Names, MovSources
    <3>2. reg[m].in_count \in 0 .. 32
      BY MachineTyped DEF Reg
    <3> QED
      BY <1>2, <3>1, <3>2, InputWordTyped DEF MovSource, SmState, Word
  <2>2. i.mov_op \in {"NONE", "INVERT", "BITREV"}
    BY <1>1 DEF MovInstr, Names, MovOps
  <2> QED
    BY <2>1, <2>2, WordsTyped DEF MovValue
<1> HIDE DEF data
<1>4. CASE Deliver(m, i, stepping, sm[m], reg[m].out_count, data)
  BY <1>1, <1>2, <1>3, <1>4, DeliverTyped DEF Mov, Typed, TypeOK
<1>5. CASE /\ Redirect(m, i, [sm[m] EXCEPT !.pc = ByteOf(Low(data, 5))])
           /\ UNCHANGED gpio
  <2>1. [sm[m] EXCEPT !.pc = ByteOf(Low(data, 5))] \in SmState
    BY <1>2, ByteOfTyped, UpdatesTyped
  <2> QED
    BY <1>1, <1>5, <2>1, EndsTyped DEF Mov, Typed, TypeOK
<1>6. CASE /\ Retire(m, i, stepping,
                     [sm[m] EXCEPT !.isr = data, !.isr_count = 0])
           /\ UNCHANGED gpio
  <2>1. [sm[m] EXCEPT !.isr = data] \in SmState
    BY <1>2, <1>3, UpdatesTyped
  <2>2. [sm[m] EXCEPT !.isr = data, !.isr_count = 0] \in SmState
    BY <2>1, UpdatesTyped
  <2> QED
    BY <1>1, <1>6, <2>2, EndsTyped DEF Mov, Typed, TypeOK
<1>7. CASE /\ Retire(m, i, stepping,
                     [sm[m] EXCEPT !.osr = data, !.osr_count = 0])
           /\ UNCHANGED gpio
  <2>1. [sm[m] EXCEPT !.osr = data] \in SmState
    BY <1>2, <1>3, UpdatesTyped
  <2>2. [sm[m] EXCEPT !.osr = data, !.osr_count = 0] \in SmState
    BY <2>1, UpdatesTyped
  <2> QED
    BY <1>1, <1>7, <2>2, EndsTyped DEF Mov, Typed, TypeOK
<1> QED
  BY <1>4, <1>5, <1>6, <1>7 DEF Mov, data

\* IRQ keeps the types.
LEMMA IrqTyped ==
  ASSUME TypeOK, NEW m \in SMs, NEW i \in Instr, NEW stepping,
         Irq(m, i, stepping)
  PROVE  Typed
<1> DEFINE t == IrqTarget(m[1], m[2], i.index)
<1>1. i \in IrqInstr /\ i.op # "BAD"
  BY InstrFields DEF Irq
<1>2. t \in Blocks \X IrqNums
  BY <1>1, SmTyped, IrqTargetTyped DEF IrqInstr
<1>3. sm[m] \in SmState /\ [sm[m] EXCEPT !.stalled = FALSE] \in SmState
  BY MachineTyped, FifosTyped
<1> HIDE DEF t
<1>4. \/ Retire(m, i, stepping, sm[m])
      \/ Retire(m, i, stepping, [sm[m] EXCEPT !.stalled = FALSE])
      \/ Stall(m, sm[m])
  BY DEF Irq
<1>5. sm' \in [SMs -> SmState]
  BY <1>1, <1>3, <1>4, EndsTyped
<1>6. RequestSet(t) \/ RequestClear(t) \/ UNCHANGED irq
  BY DEF Irq, t
<1>7. irq' \in [Blocks -> IrqState]
  BY <1>2, <1>6, RequestsTyped
<1> QED
  BY <1>5, <1>7 DEF Irq, TypeOK, Typed

\* SET keeps the types.
LEMMA SetTyped ==
  ASSUME TypeOK, NEW m \in SMs, NEW i \in Instr, NEW stepping,
         Set(m, i, stepping)
  PROVE  Typed
<1> DEFINE n == reg[m].set_count
           pins == PinsAt(m, reg[m].set_base, 0 .. n - 1)
           ones == PinsAt(m, reg[m].set_base, Low(i.data, n))
           x == IF i.dst = "X" THEN i.data ELSE sm[m].x
           y == IF i.dst = "Y" THEN i.data ELSE sm[m].y
           s == [sm[m] EXCEPT !.x = x, !.y = y]
<1>1. i.op # "BAD" /\ i.data \in SUBSET (0 .. 4) /\ i.data \in Word
  <2>1. i \in SetInstr /\ i.op # "BAD"
    BY InstrFields DEF Set
  <2>2. i.data \in SUBSET (0 .. 4)
    BY <2>1 DEF SetInstr
  <2>3. 0 .. 4 \subseteq Bits
    BY ExecAssumption DEF Bits
  <2> QED
    BY <2>1, <2>2, <2>3 DEF Word
<1>2. s \in SmState
  <2>1. x \in Word /\ y \in Word
    BY <1>1, MachineTyped DEF SmState
  <2> HIDE DEF x, y
  <2>2. [sm[m] EXCEPT !.x = x] \in SmState
    BY <2>1, MachineTyped, UpdatesTyped
  <2> QED
    BY <2>1, <2>2, UpdatesTyped
<1>3. pins \in SUBSET Gpios /\ ones \in SUBSET Gpios
  <2>1. reg[m].set_base \in Int
    BY MachineTyped DEF Reg
  <2>2. 0 .. n - 1 \in SUBSET Int /\ Low(i.data, n) \in SUBSET Int
    BY DEF Low
  <2> QED
    BY <2>1, <2>2, PinsAtTyped
<1> HIDE DEF pins, ones, s
<1>4. Retire(m, i, stepping, s) /\ UNCHANGED irq
  BY DEF Set, s
<1>5. sm' \in [SMs -> SmState]
  BY <1>1, <1>2, <1>4, EndsTyped
<1>6. \/ UNCHANGED gpio
      \/ gpio' = WritePins(m[1], pins, ones)
      \/ gpio' = WriteOwnDirs(m[1], pins, ones)
  BY DEF Set, pins, ones
<1>7. gpio' \in GpioState
  BY <1>3, <1>6, SmTyped, MachineTyped, WritesTyped DEF GpioTypeOK
<1> QED
  BY <1>4, <1>5, <1>7 DEF Typed, TypeOK

\* Every instruction keeps the types, in a cycle or executed by the host.
LEMMA ExecuteTyped ==
  ASSUME TypeOK, NEW m \in SMs, NEW i \in Instr, NEW stepping,
         Execute(m, i, stepping)
  PROVE  Typed
BY JmpTyped, WaitTyped, InTyped, OutTyped, PullTyped, PushTyped, MovTyped,
   IrqTyped, SetTyped DEF Execute

-----------------------------------------------------------------------------
(* The cycle and the host *)

\* What a step executes is an instruction.
LEMMA CurrentTyped ==
  ASSUME TypeOK, NEW m \in SMs
  PROVE  Current(m) \subseteq Instr
<1>1. sm[m].exec_instr \in Instr
  BY MachineTyped DEF SmState
<1>2. instr[m[1]] \in [Addrs -> Instr]
  BY SmTyped DEF TypeOK
<1> QED
  BY <1>1, <1>2, ExecAssumption DEF Current

\* One position of the loop of epio_step_cycles keeps TypeOK.
LEMMA StepTyped ==
  ASSUME TypeOK, NEW m \in SMs, Step(m)
  PROVE  TypeOK'
<1>1. PICK i \in Current(m) : Execute(m, i, TRUE)
  BY DEF Step
<1>2. Typed
  BY <1>1, CurrentTyped, ExecuteTyped
<1> QED
  BY <1>2, NextTurnTyped DEF Step, Typed, TypeOK

\* A step of the cycle keeps TypeOK.
LEMMA CycleTyped ==
  ASSUME TypeOK, Cycle
  PROVE  TypeOK'
<1>1. CASE FinishStep
  <2>1. irq' \in [Blocks -> IrqState]
    BY <1>1 DEF FinishStep, ApplyRequests, TypeOK, IrqState
  <2>2. <<0, 0>> \in Turns
    BY ChipAssumption DEF Turns, SMs, Blocks, SmNums
  <2> QED
    BY <1>1, <2>1, <2>2 DEF FinishStep, TypeOK
<1>2. ASSUME NEW m \in SMs, Delayed(m) PROVE TypeOK'
  <2>1. sm[m].delay - 1 \in Delays
    BY <1>2, MachineTyped DEF Delayed, SmState, Delays
  <2>2. [sm[m] EXCEPT !.delay = @ - 1] \in SmState
    BY <2>1, MachineTyped, UpdatesTyped
  <2>3. sm' \in [SMs -> SmState]
    BY <1>2, <2>2, PutTyped DEF Delayed
  <2> QED
    BY <1>2, <2>3, NextTurnTyped DEF Delayed, TypeOK
<1>3. ASSUME NEW m \in SMs, Skip(m) PROVE TypeOK'
  BY <1>3, NextTurnTyped DEF Skip, TypeOK
<1> QED
  BY <1>1, <1>2, <1>3, StepTyped DEF Cycle

\* The FIFO calls and the enabling of machines keep the types.
LEMMA HostSmTyped ==
  ASSUME TypeOK, HostSm
  PROVE  sm' \in [SMs -> SmState]
<1>1. /\ Host.push_tx \subseteq SMs \X Word
      /\ Host.push_rx \subseteq SMs \X Word
      /\ Host.pop_tx \subseteq SMs /\ Host.pop_rx \subseteq SMs
      /\ Host.toggles \subseteq SMs
  BY ExecAssumption DEF HostCalls
<1>2. ASSUME NEW m \in SMs, NEW w \in Word, PushTx(m, w) \/ PushRx(m, w)
      PROVE  sm' \in [SMs -> SmState]
  <2>1. Append(sm[m].tx, w) \in Fifo /\ Append(sm[m].rx, w) \in Fifo
    BY MachineTyped DEF SmState, Fifo
  <2>2. /\ [sm[m] EXCEPT !.tx = Append(@, w)] \in SmState
        /\ [sm[m] EXCEPT !.rx = Append(@, w)] \in SmState
    BY <2>1, MachineTyped, UpdatesTyped
  <2> QED
    BY <1>2, <2>2, PutTyped DEF PushTx, PushRx
<1>3. ASSUME NEW m \in SMs, PopTx(m) PROVE sm' \in [SMs -> SmState]
  <2>1. Tail(sm[m].tx) \in Fifo
    BY <1>3, MachineTyped DEF PopTx, SmState, Fifo
  <2> QED
    BY <1>3, <2>1, MachineTyped, UpdatesTyped, PutTyped DEF PopTx
<1>4. ASSUME NEW m \in SMs, PopRx(m) PROVE sm' \in [SMs -> SmState]
  <2>1. Tail(sm[m].rx) \in Fifo
    BY <1>4, MachineTyped DEF PopRx, SmState, Fifo
  <2> QED
    BY <1>4, <2>1, MachineTyped, UpdatesTyped, PutTyped DEF PopRx
<1>5. ASSUME NEW m \in SMs, NEW on \in BOOLEAN,
             Put(m, [sm[m] EXCEPT !.enabled = on])
      PROVE  sm' \in [SMs -> SmState]
  BY <1>5, MachineTyped, UpdatesTyped, PutTyped
<1> QED
  BY <1>1, <1>2, <1>3, <1>4, <1>5 DEF HostSm

\* Every call of the host keeps TypeOK.
LEMMA HostCallTyped ==
  ASSUME TypeOK, HostCall
  PROVE  TypeOK'
<1>1. CASE HostSm
  BY <1>1, HostSmTyped DEF HostSm, HostCall, TypeOK
<1>2. CASE HostIrq
  <2>1. PICK c \in Host.irqs : SetBlockIrq(c[1], c[2]) \/ ClearBlockIrq(c[1], c[2])
    BY <1>2 DEF HostIrq
  <2>2. c[1] \in Blocks /\ c[2] \in IrqNums
    BY ExecAssumption DEF HostCalls
  <2>3. /\ [irq[c[1]] EXCEPT !.flags = @ \cup {c[2]}] \in IrqState
        /\ [irq[c[1]] EXCEPT !.flags = @ \ {c[2]}] \in IrqState
    BY <2>2 DEF TypeOK, IrqState
  <2>4. irq' \in [Blocks -> IrqState]
    BY <2>1, <2>2, <2>3 DEF SetBlockIrq, ClearBlockIrq, TypeOK
  <2> QED
    BY <1>2, <2>4 DEF HostIrq, HostCall, TypeOK
<1>3. CASE HostPins
  <2>1. Host.plays \in SUBSET Gpios /\ Host.pins \in SUBSET Gpios
    BY ExecAssumption DEF HostCalls
  <2>2. gpio' \in GpioState
    BY <1>3, <2>1, MachineTyped, PlaysTyped, ConfiguresTyped, ResetTyped
    DEF HostPins, ResetGpios, GpioTypeOK, TypeOK
  <2> QED
    BY <1>3, <2>2 DEF HostPins, HostCall, TypeOK
<1>4. CASE HostConfig
  <2>1. /\ Host.regs \subseteq SMs \X Reg
        /\ Host.instrs \subseteq Blocks \X Addrs \X Instr
        /\ Host.bases \subseteq Blocks \X Bases
    BY ExecAssumption DEF HostCalls
  <2>2. reg' \in [SMs -> Reg]
    BY <1>4, <2>1 DEF HostConfig, TypeOK
  <2>3. base' \in [Blocks -> Bases]
    BY <1>4, <2>1 DEF HostConfig, TypeOK
  <2>4. instr' \in [Blocks -> [Addrs -> Instr]]
    <3>1. ASSUME NEW b \in Blocks, NEW a \in Addrs, NEW i \in Instr
          PROVE  [instr EXCEPT ![b] = [@ EXCEPT ![a] = i]]
                   \in [Blocks -> [Addrs -> Instr]]
      <4>1. instr[b] \in [Addrs -> Instr]
        BY DEF TypeOK
      <4>2. [instr[b] EXCEPT ![a] = i] \in [Addrs -> Instr]
        BY <4>1
      <4> QED
        BY <4>2 DEF TypeOK
    <3>2. ASSUME NEW c \in Host.instrs
          PROVE  c[1] \in Blocks /\ c[2] \in Addrs /\ c[3] \in Instr
      BY <2>1
    <3>3. CASE UNCHANGED instr
      BY <3>3 DEF TypeOK
    <3>4. ASSUME NEW c \in Host.instrs,
                 instr' = [instr EXCEPT ![c[1]] = [@ EXCEPT ![c[2]] = c[3]]]
          PROVE  instr' \in [Blocks -> [Addrs -> Instr]]
      BY <3>1, <3>2, <3>4
    <3> QED
      BY <1>4, <3>3, <3>4 DEF HostConfig
  <2> QED
    BY <1>4, <2>2, <2>3, <2>4 DEF HostConfig, HostCall, TypeOK
<1>5. CASE HostExec
  <2>1. PICK c \in Host.execs : Execute(c[1], c[2], FALSE)
    BY <1>5 DEF HostExec
  <2>2. c[1] \in SMs /\ c[2] \in Instr
    BY ExecAssumption DEF HostCalls
  <2>3. Typed
    BY <2>1, <2>2, ExecuteTyped
  <2> QED
    BY <1>5, <2>3 DEF HostExec, HostCall, Typed, TypeOK
<1> QED
  BY <1>1, <1>2, <1>3, <1>4, <1>5 DEF HostCall

\* epio_init and a configuration make a well-typed chip.
LEMMA InitFromTyped ==
  ASSUME NEW setup \in Setup, InitFrom(setup)
  PROVE  TypeOK
<1>1. ASSUME NEW m \in SMs PROVE SmReset(setup, m) \in SmState
  <2>1. Decode({}) \in Instr /\ {} \in Word /\ <<>> \in Fifo
    BY DecodeTyped DEF Word, Fifo
  <2>2. setup.start[m] \in 0 .. 255
    BY DEF Setup, Indexes
  <2>3. (m \in setup.enabled) \in BOOLEAN /\ 0 \in Delays
    BY DEF Delays
  <2> QED
    BY <2>1, <2>2, <2>3 DEF SmReset, SmState
<1>2. sm \in [SMs -> SmState]
  BY <1>1 DEF InitFrom
<1>3. irq \in [Blocks -> IrqState]
  BY DEF InitFrom, IrqInit, IrqState
<1>4. gpio \in GpioState
  BY ResetTyped DEF InitFrom, GpioState, Setup
<1>5. turn \in Turns
  BY ChipAssumption DEF InitFrom, Turns, SMs, Blocks, SmNums
<1> QED
  BY <1>2, <1>3, <1>4, <1>5 DEF InitFrom, Setup, TypeOK

LEMMA InitTyped == Init => TypeOK
BY InitFromTyped, ExecAssumption DEF Init

\* Every state a chip of any size reaches, under any program, configuration and
\* host, has its registers in their widths, its counts within 32, its program
\* counters within a uint8_t and its IRQ requests and pins within the chip.
THEOREM TypeCorrect == Spec => []TypeOK
<1>1. TypeOK /\ [Next]_vars => TypeOK'
  <2> SUFFICES ASSUME TypeOK, [Next]_vars PROVE TypeOK'
    OBVIOUS
  <2>1. CASE UNCHANGED vars
    BY <2>1 DEF vars, TypeOK
  <2> QED
    BY <2>1, CycleTyped, HostCallTyped DEF Next
<1> QED
  BY <1>1, InitTyped, PTL DEF Spec

-----------------------------------------------------------------------------
(* What an instruction writes to the pins *)

\* The pins of some positions of a window are among those of more positions.
LEMMA PinsAtMonotone ==
  ASSUME NEW m, NEW first, NEW ks, NEW js \in SUBSET ks
  PROVE  PinsAt(m, first, js) \subseteq PinsAt(m, first, ks)
BY DEF PinsAt

\* n pins from first on, and those of them that get the ones of data.
LEMMA WindowWritten ==
  ASSUME TypeOK, NEW m \in SMs, NEW first \in Int, NEW n, NEW data
  PROVE  /\ PinsAt(m, first, 0 .. n - 1) \in SUBSET Gpios
         /\ PinsAt(m, first, Low(data, n)) \in SUBSET PinsAt(m, first, 0 .. n - 1)
<1> DEFINE window == 0 .. n - 1
<1>1. window \in SUBSET Int /\ Low(data, n) \in SUBSET window
  BY DEF Low
<1> HIDE DEF window
<1>2. PinsAt(m, first, window) \in SUBSET Gpios
  BY <1>1, PinsAtTyped
<1>3. PinsAt(m, first, Low(data, n)) \subseteq PinsAt(m, first, window)
  BY <1>1, PinsAtMonotone
<1> QED
  BY <1>2, <1>3 DEF window

\* OUT and MOV write a block's levels or directions, or leave the pins alone.
LEMMA DeliverWrites ==
  ASSUME TypeOK, NEW m \in SMs, NEW i, NEW stepping, NEW s, NEW n, NEW data,
         Deliver(m, i, stepping, s, n, data)
  PROVE  UNCHANGED gpio \/ BlockWrites(m[1])
<1> DEFINE pins == PinsAt(m, reg[m].out_base, 0 .. n - 1)
           ones == PinsAt(m, reg[m].out_base, Low(data, n))
<1>1. reg[m].out_base \in Int
  BY MachineTyped DEF Reg
<1>2. pins \in SUBSET Gpios /\ ones \in SUBSET pins
  BY <1>1, WindowWritten
<1>3. \/ UNCHANGED gpio
      \/ gpio' = WritePins(m[1], pins, ones)
      \/ gpio' = WriteDirs(m[1], pins, ones)
  BY DEF Deliver
<1> HIDE DEF pins, ones
<1> QED
  BY <1>2, <1>3 DEF BlockWrites

\* So does SET.
LEMMA SetWrites ==
  ASSUME TypeOK, NEW m \in SMs, NEW i, NEW stepping, Set(m, i, stepping)
  PROVE  UNCHANGED gpio \/ BlockWrites(m[1])
<1> DEFINE n == reg[m].set_count
           pins == PinsAt(m, reg[m].set_base, 0 .. n - 1)
           ones == PinsAt(m, reg[m].set_base, Low(i.data, n))
<1>1. reg[m].set_base \in Int
  BY MachineTyped DEF Reg
<1>2. pins \in SUBSET Gpios /\ ones \in SUBSET pins
  BY <1>1, WindowWritten
<1>3. \/ UNCHANGED gpio
      \/ gpio' = WritePins(m[1], pins, ones)
      \/ gpio' = WriteOwnDirs(m[1], pins, ones)
  BY DEF Set
<1> HIDE DEF pins, ones
<1> QED
  BY <1>2, <1>3 DEF BlockWrites

\* Whatever the instruction, it writes nothing or what its block may.
LEMMA ExecuteWrites ==
  ASSUME TypeOK, NEW m \in SMs, NEW i, NEW stepping, Execute(m, i, stepping)
  PROVE  UNCHANGED gpio \/ BlockWrites(m[1])
<1>1. CASE \/ Jmp(m, i, stepping) \/ Wait(m, i, stepping) \/ In(m, i, stepping)
           \/ Pull(m, i, stepping) \/ Push(m, i, stepping) \/ Irq(m, i, stepping)
  BY <1>1 DEF Jmp, Wait, In, Pull, Push, Irq
<1>2. CASE Out(m, i, stepping)
  <2>1. \/ UNCHANGED gpio
        \/ \E s, data : Deliver(m, i, stepping, s, i.count, data)
    BY <1>2 DEF Out, OutTo
  <2> QED
    BY <2>1, DeliverWrites
<1>3. CASE Mov(m, i, stepping)
  <2>1. \/ UNCHANGED gpio
        \/ \E s, n, data : Deliver(m, i, stepping, s, n, data)
    BY <1>3 DEF Mov
  <2> QED
    BY <2>1, DeliverWrites
<1> QED
  BY <1>1, <1>2, <1>3, SetWrites DEF Execute

-----------------------------------------------------------------------------
(* Every step of the chip is a step of the pins *)

\* The calls of a host on some of the pins are calls on the pins.
LEMMA HostPinsAlone ==
  ASSUME HostPins
  PROVE  PinsNext
<1>1. Host.plays \subseteq Gpios /\ Host.pins \subseteq Gpios
  BY ExecAssumption DEF HostCalls
<1>2. HostPlays(Host.plays) => HostPlays(Gpios)
  <2>1. SUBSET Host.plays \subseteq SUBSET Gpios
    BY <1>1
  <2> QED
    BY <1>1, <2>1 DEF HostPlays
<1>3. HostConfigures(Host.pins) => HostConfigures(Gpios)
  BY <1>1 DEF HostConfigures
<1> QED
  BY <1>2, <1>3 DEF HostPins, PinsNext

\* No step of the loop touches the pins but through the instruction of a machine.
LEMMA CycleWrites ==
  ASSUME TypeOK, Cycle
  PROVE  \/ UNCHANGED gpio
         \/ \E m \in SMs : turn = m /\ BlockWrites(m[1])
<1>1. ASSUME NEW m \in SMs, Step(m)
      PROVE  UNCHANGED gpio \/ (turn = m /\ BlockWrites(m[1]))
  <2>1. PICK i \in Current(m) : Execute(m, i, TRUE)
    BY <1>1 DEF Step
  <2> QED
    BY <1>1, <2>1, ExecuteWrites DEF Step
<1>2. ASSUME NEW m \in SMs, Delayed(m) \/ Skip(m)
      PROVE  UNCHANGED gpio
  BY <1>2 DEF Delayed, Skip
<1>3. FinishStep => UNCHANGED gpio
  BY DEF FinishStep
<1> QED
  BY <1>1, <1>2, <1>3 DEF Cycle

\* The host writes the pins by its calls or through an instruction it executes.
LEMMA HostCallWrites ==
  ASSUME TypeOK, HostCall
  PROVE  UNCHANGED gpio \/ PinsNext
<1>1. HostSm \/ HostIrq \/ HostConfig => UNCHANGED gpio
  BY DEF HostSm, HostIrq, HostConfig
<1>2. HostPins => PinsNext
  BY HostPinsAlone
<1>3. ASSUME HostExec
      PROVE  UNCHANGED gpio \/ PinsNext
  <2>1. PICK c \in Host.execs : Execute(c[1], c[2], FALSE)
    BY <1>3 DEF HostExec
  <2>2. c[1] \in SMs
    BY ExecAssumption DEF HostCalls
  <2>3. UNCHANGED gpio \/ BlockWrites(c[1][1])
    BY <2>1, <2>2, ExecuteWrites
  <2> QED
    BY <2>2, <2>3, SmTyped DEF PinsNext
<1> QED
  BY <1>1, <1>2, <1>3 DEF HostCall

\* For the pins a step of the chip is a step of EpioPins, or none.
LEMMA StepsPins ==
  ASSUME TypeOK, [Next]_vars
  PROVE  [PinsNext]_gpio
<1>1. ASSUME Cycle
      PROVE  UNCHANGED gpio \/ PinsNext
  BY <1>1, CycleWrites, SmTyped DEF PinsNext
<1>2. UNCHANGED vars => UNCHANGED gpio
  BY DEF vars
<1> QED
  BY <1>1, <1>2, HostCallWrites DEF Next

\* If the controllers are configured apart, as epio_set_gpio_output_control sees
\* to, then under any programs and any host no two blocks ever control one pin, at
\* most one override is in force on a pin, and a pin forced high reads high.
THEOREM ChipKeepsPins == DisjointControl => (Spec => []PinsInv)
<1> SUFFICES ASSUME DisjointControl PROVE Spec => []PinsInv
  OBVIOUS
<1>1. Init => PinsInv
  <2> SUFFICES ASSUME NEW setup \in Setups, InitFrom(setup) PROVE PinsInv
    BY DEF Init
  <2>1. setup \in Setup
    BY ExecAssumption
  <2>2. gpio = [GpioReset EXCEPT !.control = setup.control]
    BY DEF InitFrom
  <2>3. gpio \in GpioState
    BY <2>1, <2>2, ResetTyped DEF Setup, GpioState
  <2>4. /\ gpio.control = setup.control /\ gpio.input = Gpios
        /\ gpio.inverted = {} /\ gpio.force_low = {} /\ gpio.force_high = {}
    BY <2>2 DEF GpioReset
  <2> QED
    BY <2>3, <2>4 DEF PinsInv, GpioTypeOK, OneController, OneOverride,
       ForcedHighReadsHigh, Input, DisjointControl
<1>2. TypeOK /\ PinsInv /\ [Next]_vars => PinsInv'
  BY StepsPins, PinsStepKeepsInv
<1> QED
  BY <1>1, <1>2, TypeCorrect, PTL DEF Spec

\* Nor does any program or any host then make a pin that is forced low read high,
\* except by releasing the other force.
THEOREM ChipForcesLow == DisjointControl => (Spec => ForcedLowHolds)
<1> SUFFICES ASSUME DisjointControl PROVE Spec => ForcedLowHolds
  OBVIOUS
<1> DEFINE Holds ==
      \A p \in gpio.force_low \cap gpio'.force_low :
        ~Input(p) /\ Input(p)' => SetForceInputHigh(p, FALSE)
<1>1. TypeOK /\ PinsInv /\ PinsInv' /\ [Next]_vars => [Holds]_gpio
  BY StepsPins, StepForcedLow
<1>2. Spec => []PinsInv
  BY ChipKeepsPins
<1> QED
  BY <1>1, <1>2, TypeCorrect, PTL DEF Spec, ForcedLowHolds

-----------------------------------------------------------------------------
(* The pins of other blocks *)

\* The pin is as it was
Still(p) ==
  /\ p \in gpio'.output <=> p \in gpio.output
  /\ p \in gpio'.dir <=> p \in gpio.dir

\* The pin has become an input, pulled up
TurnedOff(p) == p \in gpio'.output \ gpio'.dir

\* A write of a block turns off those of its pins that another block controls, and
\* only OUT and MOV PINDIRS do that.
LEMMA WritesForeign ==
  ASSUME TypeOK, NEW b, NEW pins, NEW high, NEW p, p \notin gpio.control[b]
  PROVE  /\ gpio' = WritePins(b, pins, high) => Still(p)
         /\ gpio' = WriteOwnDirs(b, pins, high) => Still(p)
         /\ gpio' = WriteDirs(b, pins, high) => Still(p) \/ (p \in pins /\ TurnedOff(p))
<1>1. gpio \in GpioState
  BY DEF TypeOK
<1>2. gpio' = WritePins(b, pins, high) => Still(p)
  BY <1>1 DEF WritePins, GpioState, Still
<1>3. gpio' = WriteOwnDirs(b, pins, high) => Still(p)
  BY <1>1 DEF WriteOwnDirs, Redirected, GpioState, Still
<1>4. gpio' = WriteDirs(b, pins, high) => Still(p) \/ (p \in pins /\ TurnedOff(p))
  BY <1>1 DEF WriteDirs, Redirected, GpioState, Still, TurnedOff
<1> QED
  BY <1>2, <1>3, <1>4

\* The instructions that may turn a pin off
TurnsOff(m, i, p) ==
  i.op \in {"OUT", "MOV"} /\ i.dst = "PINDIRS" /\ p \in PinsOf(m, i)

LEMMA ExecuteForeign ==
  ASSUME TypeOK, NEW m \in SMs, NEW i, NEW stepping, Execute(m, i, stepping),
         NEW p, p \notin gpio.control[m[1]]
  PROVE  Still(p) \/ (TurnedOff(p) /\ TurnsOff(m, i, p))
<1>1. CASE UNCHANGED gpio
  BY <1>1 DEF Still
<1>2. ASSUME NEW s, NEW n, NEW data, Deliver(m, i, stepping, s, n, data),
             \/ i.op = "OUT" /\ n = i.count
             \/ i.op = "MOV" /\ n = reg[m].out_count
      PROVE  Still(p) \/ (TurnedOff(p) /\ TurnsOff(m, i, p))
  <2> DEFINE pins == PinsAt(m, reg[m].out_base, 0 .. n - 1)
             ones == PinsAt(m, reg[m].out_base, Low(data, n))
  <2>1. \/ UNCHANGED gpio
        \/ gpio' = WritePins(m[1], pins, ones)
        \/ i.dst = "PINDIRS" /\ gpio' = WriteDirs(m[1], pins, ones)
    BY <1>2 DEF Deliver
  <2>2. i.dst = "PINDIRS" /\ p \in pins => TurnsOff(m, i, p)
    BY <1>2 DEF PinsOf, TurnsOff
  <2> HIDE DEF pins, ones
  <2> QED
    BY <1>1, <2>1, <2>2, WritesForeign
<1>3. CASE Out(m, i, stepping)
  <2>1. /\ i.op = "OUT"
        /\ \/ UNCHANGED gpio
           \/ \E s, data : Deliver(m, i, stepping, s, i.count, data)
    BY <1>3 DEF Out, OutTo
  <2> QED
    BY <1>1, <1>2, <2>1
<1>4. CASE Mov(m, i, stepping)
  <2>1. /\ i.op = "MOV"
        /\ \/ UNCHANGED gpio
           \/ \E s, data : Deliver(m, i, stepping, s, reg[m].out_count, data)
    BY <1>4 DEF Mov
  <2> QED
    BY <1>1, <1>2, <2>1
<1>5. CASE Set(m, i, stepping)
  <2>1. \/ UNCHANGED gpio
        \/ \E pins, ones : \/ gpio' = WritePins(m[1], pins, ones)
                           \/ gpio' = WriteOwnDirs(m[1], pins, ones)
    BY <1>5 DEF Set
  <2> QED
    BY <1>1, <2>1, WritesForeign
<1> QED
  BY <1>1, <1>3, <1>4, <1>5 DEF Execute, Jmp, Wait, In, Pull, Push, Irq

\* A machine's turn, in whatever specification it is one: it executes its current
\* instruction or writes no pin.
LEMMA TurnForeign ==
  ASSUME TypeOK, Cycle \/ turn' = turn, NEW m \in SMs, turn = m, turn' # m,
         NEW p \in Gpios \ gpio.control[m[1]]
  PROVE  Still(p) \/ (TurnedOff(p) /\ \E i \in Current(m) : TurnsOff(m, i, p))
<1>1. CASE \E i \in Current(m) : Execute(m, i, TRUE)
  BY <1>1, ExecuteForeign
<1>2. CASE UNCHANGED gpio
  BY <1>2 DEF Still
<1> QED
  BY <1>1, <1>2 DEF Cycle, Step, Delayed, Skip, FinishStep

\* What OwnerWrites says of a step
OwnerStep ==
  \A m \in SMs : turn = m /\ turn' # m =>
    \A p \in Gpios \ gpio.control[m[1]] :
      \/ /\ p \in gpio'.output <=> p \in gpio.output
         /\ p \in gpio'.dir <=> p \in gpio.dir
      \/ /\ p \in gpio'.output \ gpio'.dir
         /\ \E i \in Current(m) : /\ i.op \in {"OUT", "MOV"} /\ i.dst = "PINDIRS"
                                  /\ p \in PinsOf(m, i)

LEMMA TurnsAreOwners ==
  ASSUME TypeOK, Cycle \/ turn' = turn
  PROVE  OwnerStep
<1> SUFFICES ASSUME NEW m \in SMs, turn = m, turn' # m,
                    NEW p \in Gpios \ gpio.control[m[1]]
             PROVE  Still(p) \/ (TurnedOff(p) /\ \E i \in Current(m) : TurnsOff(m, i, p))
  BY Zenon DEF OwnerStep, Still, TurnedOff, TurnsOff
<1> QED
  BY TurnForeign

\* Whatever the programs and the host, a block does nothing to another block's pins but
\* turn them off, by OUT or MOV PINDIRS.
THEOREM ForeignsTurnedOff == Spec => OwnerWrites
<1>1. TypeOK /\ [Next]_vars => [OwnerStep]_vars
  BY TurnsAreOwners DEF Next, HostCall
<1> QED
  BY <1>1, TypeCorrect, PTL DEF Spec, OwnerWrites, OwnerStep
=============================================================================
