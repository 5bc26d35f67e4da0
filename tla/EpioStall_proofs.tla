-------------------------- MODULE EpioStall_proofs ---------------------------
(***************************************************************************)
(* The bound of the FIFOs and the stall protocol, for every size of the    *)
(* chip, every program and configuration.                                  *)
(***************************************************************************)
EXTENDS EpioStall, EpioExec_proofs

Bounded(s) == Len(s.tx) <= FifoDepth /\ Len(s.rx) <= FifoDepth

Fields == {"x", "y", "isr", "osr", "isr_count", "osr_count", "pc", "delay",
           "stalled", "enabled", "exec_pending", "exec_instr", "tx", "rx"}

\* s has the fields of a machine
Shaped(s) == DOMAIN s = Fields

\* What decides whether a machine is stalled and how full its FIFOs are
Hold(s) == <<s.stalled, s.tx, s.rx>>

\* Every machine has the fields of a machine.
LEMMA MachineFields ==
  ASSUME TypeOK, NEW m \in SMs
  PROVE  Shaped(sm[m])
BY MachineTyped DEF SmState, Fields, Shaped

\* What the ends of an execution take from the state the instruction made.
LEMMA PutKeeps ==
  ASSUME TypeOK, NEW m \in SMs, NEW t, Put(m, t)
  PROVE  sm'[m] = t /\ \A n \in SMs : n # m => sm'[n] = sm[n]
BY DEF TypeOK, Put

\* Retiring changes neither the stall nor the FIFOs the instruction left.
LEMMA RetireKeeps ==
  ASSUME TypeOK, NEW m \in SMs, NEW i, NEW stepping,
         NEW s, Shaped(s), Retire(m, i, stepping, s)
  PROVE  Hold(sm'[m]) = Hold(s)
<1> DEFINE t == [s EXCEPT !.delay = NewDelay(i)]
<1>1. Shaped(t) /\ Hold(t) = Hold(s)
  BY DEF Fields, Shaped, Hold
<1>2. Put(m, Advanced(m, t)) \/ Put(m, t)
  BY DEF Retire
<1> HIDE DEF t
<1>3. Hold(Advanced(m, t)) = Hold(t)
  BY <1>1 DEF Advanced, Fields, Shaped, Hold
<1> QED
  BY <1>1, <1>2, <1>3, PutKeeps

\* Nor does redirecting the program counter.
LEMMA RedirectKeeps ==
  ASSUME TypeOK, NEW m \in SMs, NEW i, NEW s, Shaped(s), Redirect(m, i, s)
  PROVE  Hold(sm'[m]) = Hold(s)
<1>1. PICK t : Put(m, t) /\ Hold(t) = Hold(s)
  BY DEF Redirect, Hold, Fields, Shaped
<1> QED
  BY <1>1, PutKeeps

\* Stalling changes the flag alone.
LEMMA StallKeeps ==
  ASSUME TypeOK, NEW m \in SMs, NEW s, Shaped(s), Stall(m, s)
  PROVE  /\ sm'[m] = [s EXCEPT !.stalled = TRUE]
         /\ \A f \in Fields \ {"stalled"} : sm'[m][f] = s[f]
<1>1. sm'[m] = [s EXCEPT !.stalled = TRUE]
  BY PutKeeps DEF Stall
<1> QED
  BY <1>1 DEF Shaped

\* The pushes and pulls of the FIFOs end the stall and keep the bound.
LEMMA FifosKeep ==
  ASSUME NEW s \in SmState
  PROVE  /\ ~PushIsr(s).stalled
         /\ s.tx # <<>> => ~PullOsr(s).stalled
         /\ RxRoom(s) /\ Bounded(s) => Bounded(PushIsr(s))
         /\ s.tx # <<>> /\ Bounded(s) => Bounded(PullOsr(s))
         /\ Shaped(PushIsr(s)) /\ Shaped(PullOsr(s))
<1>1. /\ PushIsr(s).stalled = FALSE /\ PushIsr(s).tx = s.tx
      /\ PushIsr(s).rx = Append(s.rx, s.isr)
  BY DEF PushIsr, SmState
<1>2. /\ PullOsr(s).stalled = FALSE /\ PullOsr(s).rx = s.rx
      /\ PullOsr(s).tx = Tail(s.tx)
  BY DEF PullOsr, SmState
<1>3. s.rx \in Seq(Word) /\ s.tx \in Seq(Word) /\ s.isr \in Word
  BY DEF SmState, Fifo
<1>4. Len(Append(s.rx, s.isr)) = Len(s.rx) + 1
  BY <1>3
<1>5. s.tx # <<>> => Len(Tail(s.tx)) = Len(s.tx) - 1
  BY <1>3
<1>6. Len(s.tx) \in Nat /\ Len(s.rx) \in Nat
  BY <1>3
<1>7. Shaped(PushIsr(s)) /\ Shaped(PullOsr(s))
  BY DEF PushIsr, PullOsr, SmState, Fields, Shaped
<1> QED
  BY <1>1, <1>2, <1>4, <1>5, <1>6, <1>7 DEF Bounded, RxRoom, FifoDepth

-----------------------------------------------------------------------------
(* What each instruction does to a machine that is stalled, or stalls *)

\* The instruction held its machine where it is: it will be executed again, and
\* will block again; a repetition changed nothing.
Held(m, i) ==
  /\ sm'[m].delay = sm[m].delay
  /\ sm'[m].pc = sm[m].pc
  /\ sm'[m].exec_pending = sm[m].exec_pending
  /\ sm'[m].exec_instr = sm[m].exec_instr
  /\ Blocking(m, i)'
  /\ sm[m].stalled =>
       Registers(sm'[m]) = Registers(sm[m]) /\ UNCHANGED <<irq, gpio>>

Outcome(m, i) ==
  /\ Bounded(sm[m]) => Bounded(sm'[m])
  /\ (sm[m].stalled => Blocking(m, i)) => ~sm'[m].stalled \/ Held(m, i)

\* A stall of the machine as it is holds it there.
LEMMA StallHolds ==
  ASSUME TypeOK, NEW m \in SMs, NEW i, Stall(m, sm[m]), reg' = reg,
         Blocking(m, i), sm[m].stalled => UNCHANGED <<irq, gpio>>
  PROVE  Held(m, i) /\ (Bounded(sm[m]) => Bounded(sm'[m]))
<1>1. \A f \in Fields \ {"stalled"} : sm'[m][f] = sm[m][f]
  BY MachineFields, StallKeeps
<1>2. Registers(sm'[m]) = Registers(sm[m])
  BY <1>1 DEF Fields, Registers
<1>3. Blocking(m, i)'
  BY <1>1 DEF Blocking, ShouldPull, ShouldPush, Fields
<1> QED
  BY <1>1, <1>2, <1>3 DEF Held, Fields, Bounded

\* An execution that neither stalls nor touches the FIFOs, of an instruction
\* that cannot block.
LEMMA PassingOutcome ==
  ASSUME TypeOK, NEW m \in SMs, NEW i, NEW stepping, NEW s,
         Shaped(s), Hold(s) = Hold(sm[m]),
         Retire(m, i, stepping, s) \/ Redirect(m, i, s),
         sm[m].stalled => ~Blocking(m, i)
  PROVE  Outcome(m, i)
<1>1. Hold(sm'[m]) = Hold(s)
  <2>1. CASE Retire(m, i, stepping, s)
    BY <2>1, RetireKeeps
  <2>2. CASE Redirect(m, i, s)
    BY <2>2, RedirectKeeps
  <2> QED
    BY <2>1, <2>2
<1> QED
  BY <1>1 DEF Outcome, Hold, Bounded

\* JMP: never stalls, never blocks.
LEMMA JmpOutcome ==
  ASSUME TypeOK, NEW m \in SMs, NEW i, NEW stepping, Jmp(m, i, stepping)
  PROVE  Outcome(m, i)
<1> DEFINE s == [sm[m] EXCEPT
                   !.x = IF i.cond = "X_DEC" THEN Decrement(@) ELSE @,
                   !.y = IF i.cond = "Y_DEC" THEN Decrement(@) ELSE @]
<1>1. Shaped(s) /\ Hold(s) = Hold(sm[m])
  BY MachineFields DEF Hold, Fields, Shaped
<1>2. \/ Redirect(m, i, [s EXCEPT !.pc = i.addr])
      \/ Retire(m, i, stepping, s)
  BY DEF Jmp
<1> HIDE DEF s
<1>3. /\ Shaped([s EXCEPT !.pc = i.addr])
      /\ Hold([s EXCEPT !.pc = i.addr]) = Hold(s)
  BY <1>1 DEF Hold, Fields, Shaped
<1>4. ~Blocking(m, i)
  BY DEF Jmp, Blocking
<1> QED
  BY <1>1, <1>2, <1>3, <1>4, PassingOutcome

\* WAIT: clears or holds.
LEMMA WaitOutcome ==
  ASSUME TypeOK, NEW m \in SMs, NEW i, NEW stepping, Wait(m, i, stepping),
         reg' = reg
  PROVE  Outcome(m, i)
<1>1. CASE Retire(m, i, stepping, [sm[m] EXCEPT !.stalled = FALSE])
  <2> DEFINE s == [sm[m] EXCEPT !.stalled = FALSE]
  <2>1. /\ Shaped(s) /\ s.stalled = FALSE
        /\ s.tx = sm[m].tx /\ s.rx = sm[m].rx
    BY MachineFields DEF Fields, Shaped
  <2> HIDE DEF s
  <2>2. Hold(sm'[m]) = Hold(s)
    BY <1>1, <2>1, RetireKeeps DEF s
  <2> QED
    BY <2>1, <2>2 DEF Outcome, Hold, Bounded
<1>2. CASE Stall(m, sm[m]) /\ UNCHANGED irq
  <2>1. Blocking(m, i) /\ UNCHANGED <<irq, gpio>>
    BY <1>2 DEF Wait, Blocking
  <2> QED
    BY <1>2, <2>1, StallHolds DEF Outcome
<1> QED
  BY <1>1, <1>2 DEF Wait

\* IN: holds after its shift, and its retry does not shift again.
LEMMA InOutcome ==
  ASSUME TypeOK, NEW m \in SMs, NEW i \in Instr, NEW stepping,
         In(m, i, stepping), reg' = reg
  PROVE  Outcome(m, i)
<1> DEFINE s == InState(m, i)
           push == reg[m].autopush /\ s.isr_count >= reg[m].push_thresh
<1>1. s \in SmState /\ Shaped(s)
  <2>1. i \in InInstr /\ (~sm[m].stalled => i.src # "BAD")
    BY InstrFields DEF In
  <2>2. s \in SmState
    BY <2>1, InStateTyped
  <2> QED
    BY <2>2 DEF SmState, Fields, Shaped
<1>2. /\ Hold(s) = Hold(sm[m])
      /\ s.delay = sm[m].delay /\ s.pc = sm[m].pc
      /\ s.exec_pending = sm[m].exec_pending
      /\ s.exec_instr = sm[m].exec_instr
  BY MachineFields DEF InState, ShiftedIn, Hold, Fields, Shaped
<1>3. sm[m].stalled => s = sm[m]
  BY DEF InState
<1>4. i.op = "IN" /\ UNCHANGED <<irq, gpio>>
  BY DEF In
<1>5. \/ RxRoom(s) /\ Retire(m, i, stepping, PushIsr(s))
      \/ push /\ Stall(m, s)
      \/ ~push /\ Retire(m, i, stepping, s)
  BY DEF In
<1> HIDE DEF s
<1>6. CASE RxRoom(s) /\ Retire(m, i, stepping, PushIsr(s))
  <2>1. Hold(sm'[m]) = Hold(PushIsr(s))
    BY <1>1, <1>6, FifosKeep, RetireKeeps
  <2>2. Bounded(sm[m]) => Bounded(s)
    BY <1>2 DEF Hold, Bounded
  <2>3. ~PushIsr(s).stalled /\ (Bounded(s) => Bounded(PushIsr(s)))
    BY <1>1, <1>6, FifosKeep
  <2> QED
    BY <2>1, <2>2, <2>3 DEF Outcome, Hold, Bounded
<1>7. CASE push /\ Stall(m, s)
  <2>1. \A f \in Fields \ {"stalled"} : sm'[m][f] = s[f]
    BY <1>1, <1>7, StallKeeps
  <2>2. Blocking(m, i)'
    BY <1>4, <1>7, <2>1 DEF Blocking, Fields
  <2>3. Held(m, i)
    BY <1>2, <1>3, <1>4, <2>1, <2>2 DEF Held, Fields, Registers
  <2> QED
    BY <1>2, <2>1, <2>3 DEF Outcome, Hold, Bounded, Fields
<1>8. CASE ~push /\ Retire(m, i, stepping, s)
  <2>1. sm[m].stalled => ~Blocking(m, i)
    BY <1>3, <1>4, <1>8 DEF Blocking
  <2> QED
    BY <1>1, <1>2, <1>8, <2>1, PassingOutcome
<1> QED
  BY <1>5, <1>6, <1>7, <1>8

\* The destinations of OUT and MOV leave the stall and the FIFOs alone.
LEMMA DeliverOutcome ==
  ASSUME TypeOK, NEW m \in SMs, NEW i, NEW stepping, NEW s, NEW n, NEW data,
         Shaped(s), Deliver(m, i, stepping, s, n, data)
  PROVE  Hold(sm'[m]) = Hold(s)
<1>1. PICK t : Shaped(t) /\ Hold(t) = Hold(s) /\ Retire(m, i, stepping, t)
  <2>1. /\ Shaped([s EXCEPT !.x = data]) /\ Shaped([s EXCEPT !.y = data])
        /\ Hold([s EXCEPT !.x = data]) = Hold(s)
        /\ Hold([s EXCEPT !.y = data]) = Hold(s)
    BY DEF Shaped, Hold, Fields
  <2>2. \A w : LET t == [s EXCEPT !.exec_instr = w, !.exec_pending = TRUE]
               IN  Shaped(t) /\ Hold(t) = Hold(s)
    BY DEF Shaped, Hold, Fields
  <2> QED
    BY <2>1, <2>2 DEF Deliver
<1> QED
  BY <1>1, RetireKeeps

\* So do those of OUT alone.
LEMMA OutToOutcome ==
  ASSUME TypeOK, NEW m \in SMs, NEW i, NEW stepping, NEW s, NEW data,
         Shaped(s), OutTo(m, i, stepping, s, data)
  PROVE  Hold(sm'[m]) = Hold(s)
<1>1. CASE Deliver(m, i, stepping, s, i.count, data)
  BY <1>1, DeliverOutcome
<1>2. CASE Retire(m, i, stepping, s)
  BY <1>2, RetireKeeps
<1>3. CASE Redirect(m, i, [s EXCEPT !.pc = ByteOf(data)])
  <2> DEFINE t == [s EXCEPT !.pc = ByteOf(data)]
  <2>1. Shaped(t) /\ Hold(t) = Hold(s)
    BY DEF Shaped, Hold, Fields
  <2> HIDE DEF t
  <2> QED
    BY <1>3, <2>1, RedirectKeeps DEF t
<1>4. CASE Retire(m, i, stepping,
                  [s EXCEPT !.isr = data, !.isr_count = i.count])
  <2> DEFINE t == [s EXCEPT !.isr = data, !.isr_count = i.count]
  <2>1. Shaped(t) /\ Hold(t) = Hold(s)
    BY DEF Shaped, Hold, Fields
  <2> HIDE DEF t
  <2> QED
    BY <1>4, <2>1, RetireKeeps DEF t
<1> QED
  BY <1>1, <1>2, <1>3, <1>4 DEF OutTo

\* OUT: holds before its shift, or its autopull ends the stall.
LEMMA OutOutcome ==
  ASSUME TypeOK, NEW m \in SMs, NEW i, NEW stepping, Out(m, i, stepping),
         reg' = reg
  PROVE  Outcome(m, i)
<1> DEFINE refill == reg[m].autopull /\ sm[m].osr_count >= reg[m].pull_thresh
           s == IF refill THEN PullOsr(sm[m]) ELSE sm[m]
           t == ShiftedOut(m, s, i.count)
<1>1. i.op = "OUT" /\ UNCHANGED irq
  BY DEF Out
<1>2. CASE refill /\ sm[m].tx = <<>> /\ Stall(m, sm[m]) /\ UNCHANGED gpio
  <2>1. Blocking(m, i)
    BY <1>1, <1>2 DEF Blocking
  <2> QED
    BY <1>1, <1>2, <2>1, StallHolds DEF Outcome
<1>3. CASE /\ refill => sm[m].tx # <<>>
           /\ OutTo(m, i, stepping, t, OutData(m, s, i.count))
  <2>1. /\ Shaped(s) /\ (Bounded(sm[m]) => Bounded(s))
        /\ refill => ~s.stalled
        /\ ~refill => s.stalled = sm[m].stalled
    BY <1>3, MachineTyped, MachineFields, FifosKeep
  <2> HIDE DEF s
  <2>2. Shaped(t) /\ Hold(t) = Hold(s)
    BY <2>1 DEF ShiftedOut, Shaped, Hold, Fields
  <2> HIDE DEF t
  <2>3. Hold(sm'[m]) = Hold(s)
    BY <1>3, <2>2, OutToOutcome
  <2>4. ~refill => ~Blocking(m, i)
    BY <1>1 DEF Blocking
  <2> QED
    BY <2>1, <2>3, <2>4 DEF Outcome, Hold, Bounded
<1> QED
  BY <1>2, <1>3 DEF Out

\* PULL: a pulled word or X ends the stall.
LEMMA PullOutcome ==
  ASSUME TypeOK, NEW m \in SMs, NEW i, NEW stepping, Pull(m, i, stepping),
         reg' = reg
  PROVE  Outcome(m, i)
<1>1. i.op = "PULL" /\ UNCHANGED <<irq, gpio>>
  BY DEF Pull
<1>2. CASE ~ShouldPull(m, i) /\ Retire(m, i, stepping, sm[m])
  <2>1. ~Blocking(m, i)
    BY <1>1, <1>2 DEF Blocking
  <2> QED
    BY <1>2, <2>1, MachineFields, PassingOutcome
<1>3. CASE sm[m].tx # <<>> /\ Retire(m, i, stepping, PullOsr(sm[m]))
  <2>1. /\ ~PullOsr(sm[m]).stalled /\ Shaped(PullOsr(sm[m]))
        /\ Bounded(sm[m]) => Bounded(PullOsr(sm[m]))
    BY <1>3, MachineTyped, FifosKeep
  <2>2. Hold(sm'[m]) = Hold(PullOsr(sm[m]))
    BY <1>3, <2>1, RetireKeeps
  <2> QED
    BY <2>1, <2>2 DEF Outcome, Hold, Bounded
<1>4. CASE ShouldPull(m, i) /\ i.block /\ Stall(m, sm[m])
  <2>1. Blocking(m, i)
    BY <1>1, <1>4 DEF Blocking
  <2> QED
    BY <1>1, <1>4, <2>1, StallHolds DEF Outcome
<1>5. CASE Retire(m, i, stepping,
                  [sm[m] EXCEPT !.osr = sm[m].x, !.osr_count = 0,
                                !.stalled = FALSE])
  <2> DEFINE t == [sm[m] EXCEPT !.osr = sm[m].x, !.osr_count = 0,
                                !.stalled = FALSE]
  <2>1. /\ Shaped(t) /\ t.stalled = FALSE
        /\ t.tx = sm[m].tx /\ t.rx = sm[m].rx
    BY MachineFields DEF Fields, Shaped
  <2> HIDE DEF t
  <2>2. Hold(sm'[m]) = Hold(t)
    BY <1>5, <2>1, RetireKeeps DEF t
  <2> QED
    BY <2>1, <2>2 DEF Outcome, Hold, Bounded
<1> QED
  BY <1>2, <1>3, <1>4, <1>5 DEF Pull

\* PUSH: a pushed ISR ends the stall, and only a PUSH that does not block drops it.
LEMMA PushOutcome ==
  ASSUME TypeOK, NEW m \in SMs, NEW i, NEW stepping, Push(m, i, stepping),
         reg' = reg
  PROVE  Outcome(m, i)
<1>1. i.op = "PUSH" /\ UNCHANGED <<irq, gpio>>
  BY DEF Push
<1>2. CASE ~ShouldPush(m, i) /\ Retire(m, i, stepping, sm[m])
  <2>1. ~Blocking(m, i)
    BY <1>1, <1>2 DEF Blocking
  <2> QED
    BY <1>2, <2>1, MachineFields, PassingOutcome
<1>3. CASE RxRoom(sm[m]) /\ Retire(m, i, stepping, PushIsr(sm[m]))
  <2>1. /\ ~PushIsr(sm[m]).stalled /\ Shaped(PushIsr(sm[m]))
        /\ Bounded(sm[m]) => Bounded(PushIsr(sm[m]))
    BY <1>3, MachineTyped, FifosKeep
  <2>2. Hold(sm'[m]) = Hold(PushIsr(sm[m]))
    BY <1>3, <2>1, RetireKeeps
  <2> QED
    BY <2>1, <2>2 DEF Outcome, Hold, Bounded
<1>4. CASE ShouldPush(m, i) /\ i.block /\ Stall(m, sm[m])
  <2>1. Blocking(m, i)
    BY <1>1, <1>4 DEF Blocking
  <2> QED
    BY <1>1, <1>4, <2>1, StallHolds DEF Outcome
<1>5. CASE ~i.block /\ Retire(m, i, stepping,
                              [sm[m] EXCEPT !.isr = {}, !.isr_count = 0])
  <2> DEFINE t == [sm[m] EXCEPT !.isr = {}, !.isr_count = 0]
  <2>1. Shaped(t) /\ Hold(t) = Hold(sm[m])
    BY MachineFields DEF Shaped, Hold, Fields
  <2> HIDE DEF t
  <2>2. ~Blocking(m, i)
    BY <1>1, <1>5 DEF Blocking
  <2> QED
    BY <1>5, <2>1, <2>2, PassingOutcome DEF t
<1> QED
  BY <1>2, <1>3, <1>4, <1>5 DEF Push

\* MOV: never stalls, never blocks.
LEMMA MovOutcome ==
  ASSUME TypeOK, NEW m \in SMs, NEW i, NEW stepping, Mov(m, i, stepping)
  PROVE  Outcome(m, i)
<1> DEFINE data == MovValue(m, i)
<1>1. ~Blocking(m, i)
  BY DEF Mov, Blocking
<1>2. CASE Deliver(m, i, stepping, sm[m], reg[m].out_count, data)
  <2>1. Hold(sm'[m]) = Hold(sm[m])
    BY <1>2, MachineFields, DeliverOutcome
  <2> QED
    BY <1>1, <2>1 DEF Outcome, Hold, Bounded
<1>3. CASE Redirect(m, i, [sm[m] EXCEPT !.pc = ByteOf(Low(data, 5))])
  <2> DEFINE t == [sm[m] EXCEPT !.pc = ByteOf(Low(data, 5))]
  <2>1. Shaped(t) /\ Hold(t) = Hold(sm[m])
    BY MachineFields DEF Shaped, Hold, Fields
  <2> HIDE DEF t
  <2> QED
    BY <1>1, <1>3, <2>1, PassingOutcome DEF t
<1>4. CASE Retire(m, i, stepping,
                  [sm[m] EXCEPT !.isr = data, !.isr_count = 0])
  <2> DEFINE t == [sm[m] EXCEPT !.isr = data, !.isr_count = 0]
  <2>1. Shaped(t) /\ Hold(t) = Hold(sm[m])
    BY MachineFields DEF Shaped, Hold, Fields
  <2> HIDE DEF t
  <2> QED
    BY <1>1, <1>4, <2>1, PassingOutcome DEF t
<1>5. CASE Retire(m, i, stepping,
                  [sm[m] EXCEPT !.osr = data, !.osr_count = 0])
  <2> DEFINE t == [sm[m] EXCEPT !.osr = data, !.osr_count = 0]
  <2>1. Shaped(t) /\ Hold(t) = Hold(sm[m])
    BY MachineFields DEF Shaped, Hold, Fields
  <2> HIDE DEF t
  <2> QED
    BY <1>1, <1>5, <2>1, PassingOutcome DEF t
<1> QED
  BY <1>2, <1>3, <1>4, <1>5 DEF Mov

\* IRQ: only IRQ WAIT stalls, and a stalled one requests nothing.
LEMMA IrqOutcome ==
  ASSUME TypeOK, NEW m \in SMs, NEW i, NEW stepping, Irq(m, i, stepping),
         reg' = reg
  PROVE  Outcome(m, i)
<1> DEFINE t == IrqTarget(m[1], m[2], i.index)
<1>1. i.op = "IRQ" /\ UNCHANGED gpio
  BY DEF Irq
<1>2. CASE (i.clr \/ ~i.wait) /\ Retire(m, i, stepping, sm[m])
  <2>1. ~Blocking(m, i)
    BY <1>1, <1>2 DEF Blocking
  <2> QED
    BY <1>2, <2>1, MachineFields, PassingOutcome
<1>3. CASE /\ ~i.clr /\ i.wait /\ Stall(m, sm[m])
           /\ sm[m].stalled => UNCHANGED irq
  <2>1. Blocking(m, i)
    BY <1>1, <1>3 DEF Blocking
  <2> QED
    BY <1>1, <1>3, <2>1, StallHolds DEF Outcome
<1>4. CASE Retire(m, i, stepping, [sm[m] EXCEPT !.stalled = FALSE])
  <2> DEFINE s == [sm[m] EXCEPT !.stalled = FALSE]
  <2>1. /\ Shaped(s) /\ s.stalled = FALSE
        /\ s.tx = sm[m].tx /\ s.rx = sm[m].rx
    BY MachineFields DEF Fields, Shaped
  <2> HIDE DEF s
  <2>2. Hold(sm'[m]) = Hold(s)
    BY <1>4, <2>1, RetireKeeps DEF s
  <2> QED
    BY <2>1, <2>2 DEF Outcome, Hold, Bounded
<1> QED
  BY <1>2, <1>3, <1>4 DEF Irq

\* SET: never stalls, never blocks.
LEMMA SetOutcome ==
  ASSUME TypeOK, NEW m \in SMs, NEW i, NEW stepping, Set(m, i, stepping)
  PROVE  Outcome(m, i)
<1> DEFINE s == [sm[m] EXCEPT !.x = IF i.dst = "X" THEN i.data ELSE @,
                              !.y = IF i.dst = "Y" THEN i.data ELSE @]
<1>1. Shaped(s) /\ Hold(s) = Hold(sm[m])
  BY MachineFields DEF Hold, Fields, Shaped
<1>2. i.op = "SET" /\ Retire(m, i, stepping, s)
  BY DEF Set
<1>3. ~Blocking(m, i)
  BY <1>2 DEF Blocking
<1> HIDE DEF s
<1> QED
  BY <1>1, <1>2, <1>3, PassingOutcome

\* Every instruction, in a cycle or executed by the host.
LEMMA ExecuteOutcome ==
  ASSUME TypeOK, NEW m \in SMs, NEW i \in Instr, NEW stepping,
         Execute(m, i, stepping), reg' = reg
  PROVE  Outcome(m, i)
BY JmpOutcome, WaitOutcome, InOutcome, OutOutcome, PullOutcome, PushOutcome,
   MovOutcome, IrqOutcome, SetOutcome DEF Execute

\* No instruction touches another state machine.
LEMMA ExecuteOthers ==
  ASSUME TypeOK, NEW m \in SMs, NEW i, NEW stepping, Execute(m, i, stepping)
  PROVE  \A n \in SMs : n # m => sm'[n] = sm[n]
<1>1. ASSUME NEW s, Retire(m, i, stepping, s) \/ Redirect(m, i, s) \/ Stall(m, s)
      PROVE  \E t : Put(m, t)
  BY <1>1 DEF Retire, Redirect, Stall
<1>2. \E t : Put(m, t)
  <2>1. CASE Jmp(m, i, stepping)
    BY <1>1, <2>1 DEF Jmp
  <2>2. CASE Wait(m, i, stepping)
    BY <1>1, <2>2 DEF Wait
  <2>3. CASE In(m, i, stepping)
    BY <1>1, <2>3 DEF In
  <2>4. ASSUME NEW s, NEW n, NEW data, Deliver(m, i, stepping, s, n, data)
        PROVE  \E t : Put(m, t)
    BY <1>1, <2>4 DEF Deliver
  <2>5. CASE Out(m, i, stepping)
    BY <1>1, <2>4, <2>5 DEF Out, OutTo
  <2>6. CASE Pull(m, i, stepping)
    BY <1>1, <2>6 DEF Pull
  <2>7. CASE Push(m, i, stepping)
    BY <1>1, <2>7 DEF Push
  <2>8. CASE Mov(m, i, stepping)
    BY <1>1, <2>4, <2>8 DEF Mov
  <2>9. CASE Irq(m, i, stepping)
    BY <1>1, <2>9 DEF Irq
  <2>10. CASE Set(m, i, stepping)
    BY <1>1, <2>10 DEF Set
  <2> QED
    BY <2>1, <2>2, <2>3, <2>5, <2>6, <2>7, <2>8, <2>9, <2>10 DEF Execute
<1> QED
  BY <1>2, PutKeeps

-----------------------------------------------------------------------------
(* How an execution ends: what it leaves of the machine's place in the     *)
(* program and of its FIFOs                                                *)

\* At most one word has left the TX FIFO or entered the RX FIFO
FifosFrom(m, s) ==
  /\ s.tx = sm[m].tx \/ (sm[m].tx # <<>> /\ s.tx = Tail(sm[m].tx))
  /\ s.rx = sm[m].rx \/ \E w : s.rx = Append(sm[m].rx, w)
  /\ s.tx = sm[m].tx \/ s.rx = sm[m].rx

\* s is what an instruction made of machine m before it ended
From(m, s) ==
  /\ Shaped(s)
  /\ s.pc = sm[m].pc /\ s.delay = sm[m].delay
  /\ s.exec_pending = sm[m].exec_pending /\ s.exec_instr = sm[m].exec_instr
  /\ s.enabled = sm[m].enabled /\ FifosFrom(m, s)

\* Where an instruction that redirects the program counter may send it
Goes(i, a) ==
  /\ Redirects(i)
  /\ i.op = "JMP" => a = i.addr
  /\ i.op = "MOV" => a \in 0 .. 31

\* The four ends of instruction i
Ends(m, i, stepping) ==
  \E s : /\ From(m, s)
         /\ \/ ~HandsOver(i) /\ Retire(m, i, stepping, s)
            \/ Stall(m, s)
            \/ \E a : Goes(i, a) /\ Redirect(m, i, [s EXCEPT !.pc = a])
            \/ HandsOver(i) /\ \E w :
                 Retire(m, i, stepping,
                        [s EXCEPT !.exec_instr = w, !.exec_pending = TRUE])

\* A machine is from itself, and writing its registers keeps it so.
LEMMA FromMachine ==
  ASSUME TypeOK, NEW m \in SMs
  PROVE  /\ From(m, sm[m])
         /\ \A s : From(m, s) =>
              /\ \A w : /\ From(m, [s EXCEPT !.x = w])
                        /\ From(m, [s EXCEPT !.y = w])
                        /\ From(m, [s EXCEPT !.isr = w])
                        /\ From(m, [s EXCEPT !.osr = w])
                        /\ From(m, [s EXCEPT !.isr_count = w])
                        /\ From(m, [s EXCEPT !.osr_count = w])
                        /\ From(m, [s EXCEPT !.stalled = w])
<1>1. From(m, sm[m])
  BY MachineFields DEF From, FifosFrom
<1>2. ASSUME NEW s, From(m, s), NEW f \in {"x", "y", "isr", "osr", "isr_count",
                                          "osr_count", "stalled"}, NEW w
      PROVE  From(m, [s EXCEPT ![f] = w])
  BY <1>2 DEF From, FifosFrom, Shaped, Fields
<1> QED
  BY <1>1, <1>2

\* Autopush and autopull move one word.
LEMMA FromFifos ==
  ASSUME TypeOK, NEW m \in SMs, NEW s, From(m, s),
         s.rx = sm[m].rx, s.tx = sm[m].tx
  PROVE  From(m, PushIsr(s)) /\ (s.tx # <<>> => From(m, PullOsr(s)))
BY DEF From, FifosFrom, Shaped, Fields, PushIsr, PullOsr

LEMMA DeliverEnds ==
  ASSUME TypeOK, NEW m \in SMs, NEW i, i.op \in {"OUT", "MOV"}, NEW stepping,
         NEW s, From(m, s), NEW n, NEW data, Deliver(m, i, stepping, s, n, data)
  PROVE  Ends(m, i, stepping)
<1>1. From(m, [s EXCEPT !.x = data]) /\ From(m, [s EXCEPT !.y = data])
  BY FromMachine
<1> QED
  BY <1>1 DEF Deliver, Ends, HandsOver

\* Every instruction ends in one of the four ways.
LEMMA ExecuteEnds ==
  ASSUME TypeOK, NEW m \in SMs, NEW i, NEW stepping, Execute(m, i, stepping)
  PROVE  Ends(m, i, stepping)
<1>1. CASE Jmp(m, i, stepping)
  <2> DEFINE s == [sm[m] EXCEPT
                     !.x = IF i.cond = "X_DEC" THEN Decrement(@) ELSE @,
                     !.y = IF i.cond = "Y_DEC" THEN Decrement(@) ELSE @]
  <2>1. From(m, s)
    BY FromMachine
  <2>2. Goes(i, i.addr) /\ (\/ Redirect(m, i, [s EXCEPT !.pc = i.addr])
                           \/ Retire(m, i, stepping, s))
    BY <1>1 DEF Jmp, Goes, Redirects
  <2>3. ~HandsOver(i)
    BY <1>1 DEF Jmp, HandsOver
  <2> HIDE DEF s
  <2> QED
    BY <2>1, <2>2, <2>3 DEF Ends
<1>2. CASE Wait(m, i, stepping)
  BY <1>2, FromMachine DEF Wait, Ends, HandsOver
<1>3. CASE In(m, i, stepping)
  <2> DEFINE s == InState(m, i)
  <2>1. From(m, s) /\ s.rx = sm[m].rx /\ s.tx = sm[m].tx
    BY MachineFields DEF InState, ShiftedIn, From, FifosFrom, Shaped, Fields
  <2>2. /\ ~HandsOver(i)
        /\ \/ Retire(m, i, stepping, PushIsr(s))
           \/ Stall(m, s)
           \/ Retire(m, i, stepping, s)
    BY <1>3 DEF In, HandsOver
  <2> HIDE DEF s
  <2>3. From(m, PushIsr(s))
    BY <2>1, FromFifos
  <2> QED
    BY <2>1, <2>2, <2>3 DEF Ends
<1>4. CASE Out(m, i, stepping)
  <2> DEFINE refill == reg[m].autopull /\ sm[m].osr_count >= reg[m].pull_thresh
             s == IF refill THEN PullOsr(sm[m]) ELSE sm[m]
             t == ShiftedOut(m, s, i.count)
  <2>1. i.op = "OUT"
    BY <1>4 DEF Out
  <2>2. CASE Stall(m, sm[m])
    BY <2>2, FromMachine DEF Ends
  <2>3. CASE /\ refill => sm[m].tx # <<>>
             /\ OutTo(m, i, stepping, t, OutData(m, s, i.count))
    <3> DEFINE data == OutData(m, s, i.count)
               u == [t EXCEPT !.isr = data, !.isr_count = i.count]
    <3>1. From(m, s)
      BY <2>3, FromMachine, FromFifos
    <3>2. OutTo(m, i, stepping, t, data)
      BY <2>3
    <3> HIDE DEF s, data
    <3>3. From(m, t)
      BY <3>1 DEF ShiftedOut, From, FifosFrom, Shaped, Fields
    <3> HIDE DEF t
    <3>4. From(m, u)
      BY <3>3 DEF From, FifosFrom, Shaped, Fields
    <3>5. \/ \E n : Deliver(m, i, stepping, t, n, data)
          \/ ~HandsOver(i) /\ Retire(m, i, stepping, t)
          \/ i.dst = "PC" /\ Redirect(m, i, [t EXCEPT !.pc = ByteOf(data)])
          \/ ~HandsOver(i) /\ Retire(m, i, stepping, u)
      BY <3>2 DEF OutTo, HandsOver
    <3> HIDE DEF u
    <3>6. CASE \E n : Deliver(m, i, stepping, t, n, data)
      BY <2>1, <3>3, <3>6, DeliverEnds
    <3>7. CASE i.dst = "PC" /\ Redirect(m, i, [t EXCEPT !.pc = ByteOf(data)])
      BY <2>1, <3>3, <3>7 DEF Ends, Goes, Redirects
    <3> QED
      BY <3>3, <3>4, <3>5, <3>6, <3>7 DEF Ends
  <2> QED
    BY <1>4, <2>2, <2>3 DEF Out
<1>5. CASE Pull(m, i, stepping)
  <2> DEFINE s == [sm[m] EXCEPT !.osr = sm[m].x, !.osr_count = 0,
                                !.stalled = FALSE]
  <2>1. From(m, s)
    BY MachineFields DEF From, FifosFrom, Shaped, Fields
  <2>2. /\ ~HandsOver(i)
        /\ \/ Retire(m, i, stepping, sm[m])
           \/ Stall(m, sm[m])
           \/ sm[m].tx # <<>> /\ Retire(m, i, stepping, PullOsr(sm[m]))
           \/ Retire(m, i, stepping, s)
    BY <1>5 DEF Pull, HandsOver
  <2> HIDE DEF s
  <2> QED
    BY <2>1, <2>2, FromMachine, FromFifos DEF Ends
<1>6. CASE Push(m, i, stepping)
  <2> DEFINE s == [sm[m] EXCEPT !.isr = {}, !.isr_count = 0]
  <2>1. From(m, s)
    BY MachineFields DEF From, FifosFrom, Shaped, Fields
  <2>2. /\ ~HandsOver(i)
        /\ \/ Retire(m, i, stepping, sm[m])
           \/ Stall(m, sm[m])
           \/ Retire(m, i, stepping, PushIsr(sm[m]))
           \/ Retire(m, i, stepping, s)
    BY <1>6 DEF Push, HandsOver
  <2> HIDE DEF s
  <2> QED
    BY <2>1, <2>2, FromMachine, FromFifos DEF Ends
<1>7. CASE Mov(m, i, stepping)
  <2> DEFINE data == MovValue(m, i)
             s == [sm[m] EXCEPT !.isr = data, !.isr_count = 0]
             t == [sm[m] EXCEPT !.osr = data, !.osr_count = 0]
  <2>1. From(m, s) /\ From(m, t)
    BY MachineFields DEF From, FifosFrom, Shaped, Fields
  <2>2. /\ i.op = "MOV"
        /\ \/ Deliver(m, i, stepping, sm[m], reg[m].out_count, data)
           \/ i.dst = "PC"
                /\ Redirect(m, i, [sm[m] EXCEPT !.pc = ByteOf(Low(data, 5))])
           \/ ~HandsOver(i) /\ Retire(m, i, stepping, s)
           \/ ~HandsOver(i) /\ Retire(m, i, stepping, t)
    BY <1>7 DEF Mov, HandsOver
  <2> HIDE DEF s, t, data
  <2>3. CASE Deliver(m, i, stepping, sm[m], reg[m].out_count, data)
    BY <2>2, <2>3, FromMachine, DeliverEnds
  <2>4. CASE /\ i.dst = "PC"
             /\ Redirect(m, i, [sm[m] EXCEPT !.pc = ByteOf(Low(data, 5))])
    <3> DEFINE a == ByteOf(Low(data, 5))
    <3>1. Goes(i, a)
      BY <2>2, <2>4, LowBounds DEF Goes, Redirects
    <3> HIDE DEF a
    <3> QED
      BY <2>4, <3>1, FromMachine DEF Ends, a
  <2> QED
    BY <2>1, <2>2, <2>3, <2>4 DEF Ends
<1>8. CASE Irq(m, i, stepping)
  BY <1>8, FromMachine DEF Irq, Ends, HandsOver
<1>9. CASE Set(m, i, stepping)
  <2> DEFINE s == [sm[m] EXCEPT !.x = IF i.dst = "X" THEN i.data ELSE @,
                                !.y = IF i.dst = "Y" THEN i.data ELSE @]
  <2>1. From(m, s)
    BY FromMachine
  <2>2. ~HandsOver(i) /\ Retire(m, i, stepping, s)
    BY <1>9 DEF Set, HandsOver
  <2> HIDE DEF s
  <2> QED
    BY <2>1, <2>2 DEF Ends
<1> QED
  BY <1>1, <1>2, <1>3, <1>4, <1>5, <1>6, <1>7, <1>8, <1>9 DEF Execute

\* What an execution leaves of the machine's place in the program
EndedIn(m, i, stepping) ==
  LET s == sm[m]
      t == sm'[m]
  IN  \/ /\ t.pc = s.pc /\ t.delay = s.delay            \* stalled
         /\ t.exec_pending = s.exec_pending /\ t.exec_instr = s.exec_instr
      \/ /\ ~HandsOver(i) /\ t.delay = NewDelay(i)      \* retired
         /\ ~stepping => t.pc = s.pc /\ t.exec_pending = s.exec_pending
         /\ stepping => t.pc = Following(m, s.pc) /\ ~t.exec_pending
         /\ t.exec_instr = s.exec_instr
      \/ /\ Goes(i, t.pc)                               \* redirected
         /\ t.delay = NewDelay(i)
         /\ t.exec_pending = s.exec_pending /\ t.exec_instr = s.exec_instr
      \/ /\ HandsOver(i) /\ t.delay = NewDelay(i)       \* handed over
         /\ stepping => /\ t.pc = Following(m, s.pc)
                        /\ t.exec_pending = ~s.exec_pending

Leaves(m, i, stepping) ==
  /\ EndedIn(m, i, stepping)
  /\ FifosFrom(m, sm'[m]) /\ sm'[m].enabled = sm[m].enabled

LEMMA ExecuteLeaves ==
  ASSUME TypeOK, NEW m \in SMs, NEW i, NEW stepping \in BOOLEAN,
         Execute(m, i, stepping)
  PROVE  /\ EndedIn(m, i, stepping)
         /\ FifosFrom(m, sm'[m]) /\ sm'[m].enabled = sm[m].enabled
<1>1. PICK s :
        /\ From(m, s)
        /\ \/ ~HandsOver(i) /\ Retire(m, i, stepping, s)
           \/ Stall(m, s)
           \/ \E a : Goes(i, a) /\ Redirect(m, i, [s EXCEPT !.pc = a])
           \/ HandsOver(i) /\ \E w :
                Retire(m, i, stepping,
                       [s EXCEPT !.exec_instr = w, !.exec_pending = TRUE])
  BY ExecuteEnds DEF Ends
<1>2. ASSUME NEW t, Shaped(t), t.tx = s.tx, t.rx = s.rx, t.enabled = s.enabled,
             Retire(m, i, stepping, t)
      PROVE  /\ sm'[m].tx = s.tx /\ sm'[m].rx = s.rx
             /\ sm'[m].enabled = s.enabled
             /\ sm'[m].delay = NewDelay(i) /\ sm'[m].exec_instr = t.exec_instr
             /\ ~stepping => /\ sm'[m].pc = t.pc
                             /\ sm'[m].exec_pending = t.exec_pending
             /\ stepping =>
                  /\ sm'[m].pc = Following(m, t.pc)
                  /\ sm'[m].exec_pending =
                       (t.exec_pending /\ ~sm[m].exec_pending)
  <2> DEFINE u == [t EXCEPT !.delay = NewDelay(i)]
             v == Advanced(m, u)
  <2>1. /\ u.tx = s.tx /\ u.rx = s.rx /\ u.delay = NewDelay(i) /\ u.pc = t.pc
        /\ u.exec_instr = t.exec_instr /\ u.exec_pending = t.exec_pending
        /\ Shaped(u) /\ u.enabled = s.enabled
    BY <1>2 DEF Shaped, Fields
  <2>2. Put(m, IF stepping THEN v ELSE u)
    BY <1>2 DEF Retire
  <2> HIDE DEF u
  <2>3. /\ v.tx = s.tx /\ v.rx = s.rx /\ v.delay = NewDelay(i)
        /\ v.pc = Following(m, t.pc) /\ v.exec_instr = t.exec_instr
        /\ v.enabled = s.enabled
        /\ v.exec_pending = (t.exec_pending /\ ~sm[m].exec_pending)
    BY <2>1 DEF Advanced, Shaped, Fields
  <2> HIDE DEF v
  <2> QED
    BY <2>1, <2>2, <2>3, PutKeeps
<1>3. /\ Shaped(s) /\ s.pc = sm[m].pc /\ s.delay = sm[m].delay
      /\ s.exec_pending = sm[m].exec_pending /\ s.exec_instr = sm[m].exec_instr
      /\ FifosFrom(m, s) /\ s.enabled = sm[m].enabled
  BY <1>1 DEF From
<1>4. CASE ~HandsOver(i) /\ Retire(m, i, stepping, s)
  <2>1. sm[m].exec_pending \in BOOLEAN
    BY MachineTyped DEF SmState
  <2> QED
    BY <1>2, <1>3, <1>4, <2>1 DEF Leaves, EndedIn, FifosFrom
<1>5. CASE Stall(m, s)
  <2>1. \A f \in Fields \ {"stalled"} : sm'[m][f] = s[f]
    BY <1>3, <1>5, StallKeeps
  <2>2. /\ sm'[m].tx = s.tx /\ sm'[m].rx = s.rx
        /\ sm'[m].pc = s.pc /\ sm'[m].delay = s.delay
        /\ sm'[m].exec_pending = s.exec_pending
        /\ sm'[m].exec_instr = s.exec_instr
        /\ sm'[m].enabled = s.enabled
    BY <2>1 DEF Fields
  <2> QED
    BY <1>3, <2>2 DEF Leaves, EndedIn, FifosFrom
<1>6. ASSUME NEW a, Goes(i, a), Redirect(m, i, [s EXCEPT !.pc = a])
      PROVE  Leaves(m, i, stepping)
  <2> DEFINE t == [[s EXCEPT !.pc = a] EXCEPT !.delay = NewDelay(i)]
  <2>1. /\ t.tx = s.tx /\ t.rx = s.rx /\ t.delay = NewDelay(i) /\ t.pc = a
        /\ t.exec_pending = s.exec_pending /\ t.exec_instr = s.exec_instr
        /\ t.enabled = s.enabled
    BY <1>3 DEF Shaped, Fields
  <2>2. Put(m, t)
    BY <1>6 DEF Redirect
  <2> HIDE DEF t
  <2>3. sm'[m] = t
    BY <2>2, PutKeeps
  <2> QED
    BY <1>3, <1>6, <2>1, <2>3 DEF Leaves, EndedIn, FifosFrom
<1>7. ASSUME HandsOver(i), NEW w,
             Retire(m, i, stepping,
                    [s EXCEPT !.exec_instr = w, !.exec_pending = TRUE])
      PROVE  Leaves(m, i, stepping)
  <2> DEFINE t == [s EXCEPT !.exec_instr = w, !.exec_pending = TRUE]
  <2>1. /\ Shaped(t) /\ t.tx = s.tx /\ t.rx = s.rx
        /\ t.pc = s.pc /\ t.exec_pending = TRUE /\ t.enabled = s.enabled
    BY <1>3 DEF Shaped, Fields
  <2>2. Retire(m, i, stepping, t)
    BY <1>7
  <2> HIDE DEF t
  <2>3. /\ sm'[m].tx = s.tx /\ sm'[m].rx = s.rx
        /\ sm'[m].enabled = s.enabled
        /\ sm'[m].delay = NewDelay(i)
        /\ stepping => /\ sm'[m].pc = Following(m, sm[m].pc)
                       /\ sm'[m].exec_pending = ~sm[m].exec_pending
    BY <1>2, <1>3, <2>1, <2>2
  <2> QED
    BY <1>3, <1>7, <2>3 DEF Leaves, EndedIn, FifosFrom
<1> QED
  BY <1>1, <1>4, <1>5, <1>6, <1>7 DEF Leaves

-----------------------------------------------------------------------------
(* The FIFOs *)

\* The host's pushes are refused when a FIFO is full.
LEMMA HostSmBounded ==
  ASSUME TypeOK, FifoBounded, HostSm
  PROVE  FifoBounded'
<1>1. SUFFICES ASSUME NEW m \in SMs, NEW s, Bounded(s), Put(m, s)
               PROVE  FifoBounded'
  <2>1. /\ Host.push_tx \subseteq SMs \X Word
        /\ Host.push_rx \subseteq SMs \X Word
        /\ Host.pop_tx \subseteq SMs /\ Host.pop_rx \subseteq SMs
        /\ Host.toggles \subseteq SMs
    BY ExecAssumption DEF HostCalls
  <2>2. ASSUME NEW m \in SMs
        PROVE  /\ Shaped(sm[m]) /\ Bounded(sm[m])
               /\ sm[m].tx \in Seq(Word) /\ sm[m].rx \in Seq(Word)
    BY MachineFields, MachineTyped DEF FifoBounded, Bounded, SmState, Fifo
  <2>3. ASSUME NEW m \in SMs, NEW w \in Word, PushTx(m, w)
        PROVE  \E s : Bounded(s) /\ Put(m, s)
    <3>1. Len(Append(sm[m].tx, w)) = Len(sm[m].tx) + 1
      BY <2>2
    <3>2. Len(sm[m].tx) \in Nat
      BY <2>2
    <3> QED
      BY <2>2, <2>3, <3>1, <3>2 DEF PushTx, Bounded, Shaped, Fields, FifoDepth
  <2>4. ASSUME NEW m \in SMs, NEW w \in Word, PushRx(m, w)
        PROVE  \E s : Bounded(s) /\ Put(m, s)
    <3>1. Len(Append(sm[m].rx, w)) = Len(sm[m].rx) + 1
      BY <2>2
    <3>2. Len(sm[m].rx) \in Nat
      BY <2>2
    <3> QED
      BY <2>2, <2>4, <3>1, <3>2 DEF PushRx, Bounded, Shaped, Fields, FifoDepth
  <2>5. ASSUME NEW m \in SMs, PopTx(m)
        PROVE  \E s : Bounded(s) /\ Put(m, s)
    <3>1. Len(Tail(sm[m].tx)) = Len(sm[m].tx) - 1 /\ Len(sm[m].tx) \in Nat
      BY <2>2, <2>5 DEF PopTx
    <3> QED
      BY <2>2, <2>5, <3>1 DEF PopTx, Bounded, Shaped, Fields, FifoDepth
  <2>6. ASSUME NEW m \in SMs, PopRx(m)
        PROVE  \E s : Bounded(s) /\ Put(m, s)
    <3>1. Len(Tail(sm[m].rx)) = Len(sm[m].rx) - 1 /\ Len(sm[m].rx) \in Nat
      BY <2>2, <2>6 DEF PopRx
    <3> QED
      BY <2>2, <2>6, <3>1 DEF PopRx, Bounded, Shaped, Fields, FifoDepth
  <2>7. ASSUME NEW m \in SMs, NEW on, Put(m, [sm[m] EXCEPT !.enabled = on])
        PROVE  \E s : Bounded(s) /\ Put(m, s)
    BY <2>2, <2>7 DEF Bounded, Shaped, Fields
  <2>8. \E m \in SMs : \E s : Bounded(s) /\ Put(m, s)
    BY <2>1, <2>3, <2>4, <2>5, <2>6, <2>7 DEF HostSm
  <2> QED
    BY <1>1, <2>8
<1> QED
  BY <1>1, PutKeeps DEF FifoBounded, Bounded

\* An instruction keeps every FIFO within its bound.
LEMMA ExecuteBounded ==
  ASSUME TypeOK, FifoBounded, NEW m \in SMs, NEW i \in Instr, NEW stepping,
         Execute(m, i, stepping), reg' = reg
  PROVE  FifoBounded'
BY ExecuteOutcome, ExecuteOthers DEF Outcome, FifoBounded, Bounded

\* A step of the chip keeps every FIFO within its bound.
LEMMA StepBounded ==
  ASSUME TypeOK, FifoBounded, Next
  PROVE  FifoBounded'
<1>1. ASSUME NEW m \in SMs, Delayed(m)
      PROVE  FifoBounded'
  <2> DEFINE s == [sm[m] EXCEPT !.delay = @ - 1]
  <2>1. Bounded(s)
    BY MachineFields DEF FifoBounded, Bounded, Shaped, Fields
  <2>2. Put(m, s)
    BY <1>1 DEF Delayed
  <2> HIDE DEF s
  <2> QED
    BY <2>1, <2>2, PutKeeps DEF FifoBounded, Bounded
<1>2. ASSUME NEW m \in SMs, Step(m)
      PROVE  FifoBounded'
  BY <1>2, CurrentTyped, ExecuteBounded DEF Step
<1>3. ASSUME NEW m \in SMs, Skip(m)
      PROVE  FifoBounded'
  BY <1>3 DEF Skip, FifoBounded
<1>4. CASE FinishStep
  BY <1>4 DEF FinishStep, FifoBounded
<1>5. CASE HostExec
  BY <1>5, ExecAssumption, ExecuteBounded DEF HostExec, HostCalls
<1>6. CASE HostIrq \/ HostPins \/ HostConfig
  BY <1>6 DEF HostIrq, HostPins, HostConfig, FifoBounded
<1> QED
  BY <1>1, <1>2, <1>3, <1>4, <1>5, <1>6, HostSmBounded
  DEF Next, Cycle, HostCall

\* No FIFO ever holds more than its four words, under any program and any host:
\* the array of epio_fifo.c is never overrun, by PUSH, autopush or the host.
THEOREM FifosBounded == Spec => []FifoBounded
<1>1. Init => FifoBounded
  BY DEF Init, InitFrom, SmReset, FifoBounded, FifoDepth
<1>2. TypeOK /\ FifoBounded /\ [Next]_vars => FifoBounded'
  <2>1. ASSUME FifoBounded, UNCHANGED vars
        PROVE  FifoBounded'
    BY <2>1 DEF vars, FifoBounded
  <2> QED
    BY <2>1, StepBounded
<1> QED
  BY <1>1, <1>2, TypeCorrect, PTL DEF Spec

-----------------------------------------------------------------------------
(* The stall protocol.  StallJustified is inductive: it is what makes the  *)
(* guarantee of Outcome hold whenever a stalled machine is executed.       *)

\* The part of a machine StallJustified reads
Place(s) ==
  <<s.stalled, s.delay, s.exec_pending, s.exec_instr, s.pc, s.isr_count,
    s.osr_count>>

\* One machine's part of StallJustified
Justified(m) ==
  sm[m].stalled => sm[m].delay = 0 /\ \A i \in Current(m) : Blocking(m, i)

\* A machine whose place did not change is as justified as before.
LEMMA PlaceKeeps ==
  ASSUME NEW m \in SMs, Justified(m), Place(sm'[m]) = Place(sm[m]),
         UNCHANGED <<instr, reg>>
  PROVE  Justified(m)'
<1>1. /\ sm'[m].stalled = sm[m].stalled /\ sm'[m].delay = sm[m].delay
      /\ sm'[m].exec_pending = sm[m].exec_pending
      /\ sm'[m].exec_instr = sm[m].exec_instr /\ sm'[m].pc = sm[m].pc
      /\ sm'[m].isr_count = sm[m].isr_count
      /\ sm'[m].osr_count = sm[m].osr_count
  BY DEF Place
<1>2. Current(m)' = Current(m)
  BY <1>1 DEF Current
<1>3. \A i : Blocking(m, i)' = Blocking(m, i)
  BY <1>1 DEF Blocking, ShouldPull, ShouldPush
<1> QED
  BY <1>1, <1>2, <1>3 DEF Justified

\* A step of a stalled machine ends its stall, or changes nothing.
LEMMA StepJustified ==
  ASSUME TypeOK, Undisturbed, NEW m \in SMs, Justified(m), Step(m)
  PROVE  /\ Justified(m)'
         /\ sm[m].stalled /\ sm'[m].stalled =>
              Registers(sm'[m]) = Registers(sm[m]) /\ UNCHANGED <<irq, gpio>>
<1>1. PICK i \in Current(m) : Execute(m, i, TRUE)
  BY DEF Step
<1>2. UNCHANGED <<instr, reg>> /\ sm[m].delay = 0
  BY DEF Step
<1>3. Current(m) = {i}
  BY <1>1 DEF Current, Undisturbed
<1>4. i \in Instr
  BY <1>1, CurrentTyped
<1>5. Outcome(m, i)
  BY <1>1, <1>2, <1>4, ExecuteOutcome
<1>6. sm[m].stalled => Blocking(m, i)
  BY <1>1 DEF Justified
<1>7. ~sm'[m].stalled \/ Held(m, i)
  BY <1>5, <1>6 DEF Outcome
<1>8. CASE Held(m, i)
  <2>1. Current(m)' = {i}
    BY <1>2, <1>3, <1>8 DEF Held, Current
  <2> QED
    BY <1>2, <1>8, <2>1 DEF Held, Justified
<1> QED
  BY <1>7, <1>8 DEF Justified

\* The host's FIFO calls leave the place and the registers of every machine.
LEMMA HostSmKeeps ==
  ASSUME TypeOK, HostSm, NEW n \in SMs
  PROVE  Place(sm'[n]) = Place(sm[n]) /\ Registers(sm'[n]) = Registers(sm[n])
<1> DEFINE Same(s, m) == /\ Place(s) = Place(sm[m])
                         /\ Registers(s) = Registers(sm[m])
<1>1. SUFFICES ASSUME NEW m \in SMs, NEW s, Put(m, s), Same(s, m)
               PROVE  Same(sm'[n], n)
  <2>1. /\ Host.push_tx \subseteq SMs \X Word
        /\ Host.push_rx \subseteq SMs \X Word
        /\ Host.pop_tx \subseteq SMs /\ Host.pop_rx \subseteq SMs
        /\ Host.toggles \subseteq SMs
    BY ExecAssumption DEF HostCalls
  <2>2. ASSUME NEW m \in SMs
        PROVE  \A q, e : /\ Same([sm[m] EXCEPT !.tx = q], m)
                         /\ Same([sm[m] EXCEPT !.rx = q], m)
                         /\ Same([sm[m] EXCEPT !.enabled = e], m)
    BY MachineFields DEF Place, Registers, Shaped, Fields
  <2> HIDE DEF Same
  <2>3. \E m \in SMs : \E s : Put(m, s) /\ Same(s, m)
    <3>1. ASSUME NEW c \in Host.push_tx, PushTx(c[1], c[2])
          PROVE  \E m \in SMs : \E s : Put(m, s) /\ Same(s, m)
      BY <2>1, <2>2, <3>1 DEF PushTx
    <3>2. ASSUME NEW c \in Host.push_rx, PushRx(c[1], c[2])
          PROVE  \E m \in SMs : \E s : Put(m, s) /\ Same(s, m)
      BY <2>1, <2>2, <3>2 DEF PushRx
    <3>3. ASSUME NEW m \in Host.pop_tx, PopTx(m)
          PROVE  \E k \in SMs : \E s : Put(k, s) /\ Same(s, k)
      BY <2>1, <2>2, <3>3 DEF PopTx
    <3>4. ASSUME NEW m \in Host.pop_rx, PopRx(m)
          PROVE  \E k \in SMs : \E s : Put(k, s) /\ Same(s, k)
      BY <2>1, <2>2, <3>4 DEF PopRx
    <3>5. ASSUME NEW m \in Host.toggles, NEW on,
                 Put(m, [sm[m] EXCEPT !.enabled = on])
          PROVE  \E k \in SMs : \E s : Put(k, s) /\ Same(s, k)
      BY <2>1, <2>2, <3>5
    <3> QED
      BY <3>1, <3>2, <3>3, <3>4, <3>5 DEF HostSm
  <2> QED
    BY <1>1, <2>3 DEF Same
<1> QED
  BY <1>1, PutKeeps

\* An instruction that passes, executed by the host, leaves nothing behind: no delay,
\* and the machine's place as it was.
LEMMA PassingKeeps ==
  ASSUME TypeOK, NEW m \in SMs, NEW i, PassesBy(i), Execute(m, i, FALSE)
  PROVE  sm'[m].delay = 0 /\ Place(sm'[m]) = Place([sm[m] EXCEPT !.delay = 0])
<1>1. Set(m, i, FALSE) \/ Irq(m, i, FALSE) \/ Mov(m, i, FALSE)
  BY DEF PassesBy, Execute, Jmp, Wait, In, Out, Pull, Push
<1>2. NewDelay(i) = 0
  BY DEF PassesBy, NewDelay
<1>3. ASSUME NEW s, Shaped(s),
             Place([s EXCEPT !.delay = 0]) = Place([sm[m] EXCEPT !.delay = 0]),
             Retire(m, i, FALSE, s)
      PROVE  sm'[m].delay = 0 /\ Place(sm'[m]) = Place([sm[m] EXCEPT !.delay = 0])
  <2>1. Put(m, [s EXCEPT !.delay = 0])
    BY <1>2, <1>3 DEF Retire
  <2>2. sm'[m] = [s EXCEPT !.delay = 0]
    BY <2>1, PutKeeps
  <2> QED
    BY <1>3, <2>2 DEF Shaped, Fields
<1>4. Shaped(sm[m])
  BY MachineFields
<1>5. CASE Set(m, i, FALSE)
  <2> DEFINE s == [sm[m] EXCEPT !.x = IF i.dst = "X" THEN i.data ELSE @,
                                !.y = IF i.dst = "Y" THEN i.data ELSE @]
  <2>1. Retire(m, i, FALSE, s)
    BY <1>5 DEF Set
  <2>2. Shaped(s) /\ Place([s EXCEPT !.delay = 0]) = Place([sm[m] EXCEPT !.delay = 0])
    BY <1>4 DEF Shaped, Fields, Place
  <2> HIDE DEF s
  <2> QED
    BY <1>3, <2>1, <2>2
<1>6. CASE Irq(m, i, FALSE)
  <2>1. i.op = "IRQ"
    BY <1>6 DEF Irq
  <2>2. i.wait => i.clr
    BY <2>1 DEF PassesBy
  <2>3. Retire(m, i, FALSE, sm[m])
    BY <1>6, <2>2 DEF Irq
  <2> QED
    BY <1>3, <1>4, <2>3
<1>7. CASE Mov(m, i, FALSE)
  <2> DEFINE data == MovValue(m, i)
  <2>1. i.op = "MOV" /\ i.dst \in {"X", "Y", "PINS", "PINDIRS"}
    BY <1>7 DEF Mov, PassesBy
  <2>2. \/ Retire(m, i, FALSE, [sm[m] EXCEPT !.x = data])
        \/ Retire(m, i, FALSE, [sm[m] EXCEPT !.y = data])
        \/ Retire(m, i, FALSE, sm[m])
    BY <1>7, <2>1 DEF Mov, Deliver
  <2>3. \A v : /\ Shaped([sm[m] EXCEPT !.x = v]) /\ Shaped([sm[m] EXCEPT !.y = v])
               /\ Place([[sm[m] EXCEPT !.x = v] EXCEPT !.delay = 0])
                    = Place([sm[m] EXCEPT !.delay = 0])
               /\ Place([[sm[m] EXCEPT !.y = v] EXCEPT !.delay = 0])
                    = Place([sm[m] EXCEPT !.delay = 0])
    BY <1>4 DEF Shaped, Fields, Place
  <2> HIDE DEF data
  <2> QED
    BY <1>3, <1>4, <2>2, <2>3
<1> QED
  BY <1>1, <1>5, <1>6, <1>7

\* What the host executes leaves a stalled machine in its place.
LEMMA HostExecPasses ==
  ASSUME TypeOK, Undisturbed, HostExec, NEW n \in SMs
  PROVE  /\ sm[n].stalled /\ sm[n].delay = 0 => Place(sm'[n]) = Place(sm[n])
         /\ sm'[n].stalled = sm[n].stalled
         /\ sm'[n].exec_pending = sm[n].exec_pending
         /\ sm'[n].exec_instr = sm[n].exec_instr
<1>1. PICK c \in Host.execs : Execute(c[1], c[2], FALSE)
  BY DEF HostExec
<1>2. c[1] \in SMs /\ PassesBy(c[2])
  BY ExecAssumption DEF HostCalls, Undisturbed
<1>3. CASE n = c[1]
  <2>1. sm'[n].delay = 0 /\ Place(sm'[n]) = Place([sm[n] EXCEPT !.delay = 0])
    BY <1>1, <1>2, <1>3, PassingKeeps
  <2> QED
    BY <2>1, MachineFields DEF Place, Shaped, Fields
<1>4. CASE n # c[1]
  BY <1>1, <1>2, <1>4, ExecuteOthers
<1> QED
  BY <1>3, <1>4

\* What one step of an undisturbed chip does to the stall of machine n
LEMMA NextJustified ==
  ASSUME TypeOK, Undisturbed, StallJustified, Next, NEW n \in SMs
  PROVE  /\ Justified(n)'
         /\ sm[n].stalled /\ sm'[n].stalled /\ turn' # turn =>
              /\ Registers(sm'[n]) = Registers(sm[n])
              /\ turn = n => UNCHANGED <<irq, gpio>>
<1>1. Justified(n)
  BY DEF StallJustified, Justified
<1>2. ASSUME NEW m \in SMs, Delayed(m)
      PROVE  /\ Justified(n)'
             /\ sm[n].stalled /\ sm'[n].stalled =>
                  /\ Registers(sm'[n]) = Registers(sm[n])
                  /\ turn = n => UNCHANGED <<irq, gpio>>
  <2> DEFINE s == [sm[m] EXCEPT !.delay = @ - 1]
  <2>1. s.stalled = sm[m].stalled
    BY MachineFields DEF Shaped, Fields
  <2>2. Put(m, s) /\ UNCHANGED <<instr, reg, irq, gpio>> /\ sm[m].delay > 0
    BY <1>2 DEF Delayed
  <2> HIDE DEF s
  <2>3. CASE n = m
    <3>1. ~sm[n].stalled
      BY <1>1, <2>2, <2>3 DEF Justified
    <3> QED
      BY <2>1, <2>2, <2>3, <3>1, PutKeeps DEF Justified
  <2>4. CASE n # m
    BY <1>1, <2>2, <2>4, PlaceKeeps, PutKeeps
  <2> QED
    BY <2>3, <2>4
<1>3. ASSUME NEW m \in SMs, Step(m)
      PROVE  /\ Justified(n)'
             /\ sm[n].stalled /\ sm'[n].stalled =>
                  /\ Registers(sm'[n]) = Registers(sm[n])
                  /\ turn = n => UNCHANGED <<irq, gpio>>
  <2>1. turn = m /\ UNCHANGED <<instr, reg>>
    BY <1>3 DEF Step
  <2>2. CASE n = m
    BY <1>1, <1>3, <2>2, StepJustified
  <2>3. CASE n # m
    <3>1. sm'[n] = sm[n]
      BY <1>3, <2>3, ExecuteOthers DEF Step
    <3> QED
      BY <1>1, <2>1, <2>3, <3>1, PlaceKeeps
  <2> QED
    BY <2>2, <2>3
<1>4. ASSUME UNCHANGED <<instr, reg, sm>>
      PROVE  Justified(n)' /\ Registers(sm'[n]) = Registers(sm[n])
  BY <1>1, <1>4, PlaceKeeps
<1>5. ASSUME NEW m \in SMs, Skip(m)
      PROVE  UNCHANGED <<instr, reg, sm, irq, gpio>>
  BY <1>5 DEF Skip
<1>6. CASE FinishStep
  <2>1. turn # n
    BY <1>6, SmTyped, ChipAssumption DEF FinishStep, LoopEnd, Blocks
  <2> QED
    BY <1>4, <1>6, <2>1 DEF FinishStep
<1>7. CASE HostCall
  <2>1. turn' = turn
    BY <1>7 DEF HostCall
  <2>2. CASE HostSm
    BY <1>1, <2>1, <2>2, HostSmKeeps, PlaceKeeps DEF HostSm
  <2>3. CASE HostExec
    <3>1. UNCHANGED <<instr, reg>>
      BY <2>3 DEF HostExec
    <3>2. CASE sm[n].stalled
      BY <1>1, <2>1, <2>3, <3>1, <3>2, HostExecPasses, PlaceKeeps DEF Justified
    <3>3. CASE ~sm[n].stalled
      BY <2>1, <2>3, <3>3, HostExecPasses DEF Justified
    <3> QED
      BY <3>2, <3>3
  <2>4. CASE HostIrq \/ HostPins \/ HostConfig
    BY <1>4, <2>1, <2>4 DEF HostIrq, HostPins, HostConfig, Undisturbed
  <2> QED
    BY <1>7, <2>2, <2>3, <2>4 DEF HostCall
<1> QED
  BY <1>2, <1>3, <1>4, <1>5, <1>6, <1>7 DEF Next, Cycle

\* No machine is stalled to begin with.
LEMMA InitJustified == Init => StallJustified
BY DEF Init, InitFrom, SmReset, StallJustified

\* If the host leaves registers and memory alone and executes only what passes, and
\* programs stay within the memory, then under any program a stalled machine
\* is about to retry the instruction that stalled it.
THEOREM StallsJustified == Undisturbed => (Spec => []StallJustified)
<1> SUFFICES ASSUME Undisturbed PROVE Spec => []StallJustified
  OBVIOUS
<1>1. TypeOK /\ StallJustified /\ [Next]_vars => StallJustified'
  <2> SUFFICES ASSUME TypeOK, StallJustified, [Next]_vars PROVE StallJustified'
    OBVIOUS
  <2>1. CASE UNCHANGED vars
    BY <2>1 DEF vars, StallJustified, Current, Blocking, ShouldPull, ShouldPush
  <2>2. CASE Next
    <3>1. \A n \in SMs : Justified(n)'
      BY <2>2, NextJustified
    <3> QED
      BY <3>1 DEF StallJustified, Justified
  <2> QED
    BY <2>1, <2>2
<1> QED
  BY <1>1, InitJustified, TypeCorrect, PTL DEF Spec

\* Under the same conditions a retry is not a repetition: while a machine stays
\* stalled no cycle changes its registers, and it requests no IRQ and writes no pin.
THEOREM StallsFreeze == Undisturbed => (Spec => StallFreezes)
<1> SUFFICES ASSUME Undisturbed PROVE Spec => StallFreezes
  OBVIOUS
<1>1. TypeOK /\ StallJustified /\ [Next]_vars =>
        [\A m \in SMs :
           sm[m].stalled /\ sm'[m].stalled /\ turn' # turn =>
             /\ Registers(sm'[m]) = Registers(sm[m])
             /\ turn = m => UNCHANGED <<irq, gpio>>]_vars
  BY NextJustified
<1>2. Spec => []StallJustified
  BY StallsJustified
<1> QED
  BY <1>1, <1>2, TypeCorrect, PTL DEF Spec, StallFreezes

-----------------------------------------------------------------------------
(* The hand-over of OUT EXEC and MOV EXEC *)

\* The FIFO calls of the host leave what is pending and the delays alone.
LEMMA HostSmHolds ==
  ASSUME TypeOK, HostSm, NEW n \in SMs
  PROVE  /\ sm'[n].pc = sm[n].pc /\ sm'[n].delay = sm[n].delay
         /\ sm'[n].exec_pending = sm[n].exec_pending
         /\ sm'[n].exec_instr = sm[n].exec_instr
BY HostSmKeeps DEF Place

\* A step of the machine waits for no delay but that of a jump.
LEMMA StepAtOnce ==
  ASSUME TypeOK, NEW m \in SMs, Step(m)
  PROVE  sm'[m].exec_pending /\ sm'[m].delay > 0 => Redirects(sm'[m].exec_instr)
<1>1. PICK i \in Current(m) : Execute(m, i, TRUE)
  BY DEF Step
<1>2. EndedIn(m, i, TRUE) /\ sm[m].delay = 0
  BY <1>1, ExecuteLeaves DEF Step
<1>3. sm[m].exec_pending => i = sm[m].exec_instr
  BY <1>1 DEF Current
<1>4. HandsOver(i) => NewDelay(i) = 0
  BY DEF HandsOver, NewDelay
<1>5. \/ sm'[m].delay = 0
      \/ ~sm'[m].exec_pending
      \/ /\ Redirects(i)
         /\ sm'[m].exec_pending = sm[m].exec_pending
         /\ sm'[m].exec_instr = sm[m].exec_instr
  BY <1>2, <1>4, Zenon DEF EndedIn, Goes
<1>6. ~(0 > 0)
  OBVIOUS
<1> QED
  BY <1>3, <1>5, <1>6, Zenon

\* If the host executes no delays, then under any program and any other use of the
\* chip a pending instruction waits for no delay but that of a jump it has made.
THEOREM HandedOverAtOnce == ExecutesUndelayed => (Spec => []ExecAtOnce)
<1> SUFFICES ASSUME ExecutesUndelayed PROVE Spec => []ExecAtOnce
  OBVIOUS
<1> DEFINE AtOnce(m) ==
      sm[m].exec_pending /\ sm[m].delay > 0 => Redirects(sm[m].exec_instr)
<1>1. Init => ExecAtOnce
  BY DEF Init, InitFrom, SmReset, ExecAtOnce
<1>2. TypeOK /\ ExecAtOnce /\ [Next]_vars => ExecAtOnce'
  <2> SUFFICES ASSUME TypeOK, ExecAtOnce, Next \/ UNCHANGED vars, NEW n \in SMs
               PROVE  AtOnce(n)'
    BY DEF ExecAtOnce
  <2>1. AtOnce(n)
    BY DEF ExecAtOnce
  <2>2. ASSUME sm'[n] = sm[n] PROVE AtOnce(n)'
    BY <2>1, <2>2
  <2>3. ASSUME NEW m \in SMs, Delayed(m) PROVE AtOnce(n)'
    <3> DEFINE s == [sm[m] EXCEPT !.delay = @ - 1]
    <3>1. /\ s.exec_pending = sm[m].exec_pending
          /\ s.exec_instr = sm[m].exec_instr /\ sm[m].delay > 0
      BY <2>3, MachineFields DEF Delayed, Shaped, Fields
    <3>2. Put(m, s)
      BY <2>3 DEF Delayed
    <3> HIDE DEF s
    <3> QED
      BY <2>1, <2>2, <3>1, <3>2, PutKeeps
  <2>4. ASSUME NEW m \in SMs, Step(m) PROVE AtOnce(n)'
    BY <2>2, <2>4, StepAtOnce, ExecuteOthers DEF Step
  <2>5. CASE HostExec
    <3>1. PICK c \in Host.execs : Execute(c[1], c[2], FALSE)
      BY <2>5 DEF HostExec
    <3>2. c[1] \in SMs /\ c[2].delay = 0
      BY ExecAssumption DEF HostCalls, ExecutesUndelayed
    <3>3. NewDelay(c[2]) = 0
      BY <3>2 DEF NewDelay
    <3>4. CASE n = c[1]
      <4>1. EndedIn(n, c[2], FALSE)
        BY <3>1, <3>4, ExecuteLeaves
      <4>2. \/ sm'[n].delay = 0
            \/ /\ sm'[n].delay = sm[n].delay
               /\ sm'[n].exec_pending = sm[n].exec_pending
               /\ sm'[n].exec_instr = sm[n].exec_instr
        BY <3>3, <4>1, Zenon DEF EndedIn, Goes
      <4>3. ~(0 > 0)
        OBVIOUS
      <4> QED
        BY <2>1, <4>2, <4>3, Zenon
    <3> QED
      BY <2>2, <3>1, <3>2, <3>4, ExecuteOthers
  <2>6. CASE HostSm
    BY <2>1, <2>6, HostSmHolds
  <2> QED
    BY <2>2, <2>3, <2>4, <2>5, <2>6
    DEF Next, Cycle, FinishStep, Skip, HostCall, HostIrq, HostPins, HostConfig, vars
<1> QED
  BY <1>1, <1>2, TypeCorrect, PTL DEF Spec

\* Under the conditions of StallsJustified a handed over instruction that stalls
\* keeps its place, whatever it waits for.
THEOREM HandedOverStalls == Undisturbed => (Spec => ExecStalls)
<1> SUFFICES ASSUME Undisturbed PROVE Spec => ExecStalls
  OBVIOUS
<1> DEFINE Keeps(m) == sm'[m].exec_pending /\ sm'[m].exec_instr = sm[m].exec_instr
<1>1. ASSUME TypeOK, StallJustified, Next \/ UNCHANGED vars, NEW n \in SMs,
             sm[n].exec_pending, sm'[n].stalled
      PROVE  Keeps(n)
  <2>1. Justified(n)
    BY <1>1 DEF StallJustified, Justified
  <2>2. ASSUME sm'[n] = sm[n] PROVE Keeps(n)
    BY <1>1, <2>2
  <2>3. ASSUME NEW m \in SMs, Delayed(m) PROVE Keeps(n)
    <3> DEFINE s == [sm[m] EXCEPT !.delay = @ - 1]
    <3>1. /\ s.exec_pending = sm[m].exec_pending
          /\ s.exec_instr = sm[m].exec_instr
      BY <1>1, MachineFields DEF Shaped, Fields
    <3>2. Put(m, s)
      BY <2>3 DEF Delayed
    <3> HIDE DEF s
    <3> QED
      BY <1>1, <2>2, <3>1, <3>2, PutKeeps
  <2>4. ASSUME NEW m \in SMs, Step(m) PROVE Keeps(n)
    <3>1. PICK i \in Current(m) : Execute(m, i, TRUE)
      BY <2>4 DEF Step
    <3>2. CASE n = m
      <4>1. i \in Instr /\ reg' = reg
        BY <1>1, <2>4, <3>1, CurrentTyped DEF Step
      <4>2. Outcome(m, i)
        BY <1>1, <3>1, <4>1, ExecuteOutcome
      <4> QED
        BY <1>1, <2>1, <3>1, <3>2, <4>2 DEF Outcome, Justified, Held
    <3> QED
      BY <1>1, <2>2, <3>1, <3>2, ExecuteOthers
  <2>5. CASE HostSm
    BY <1>1, <2>5, HostSmHolds
  <2>6. CASE HostExec
    BY <1>1, <2>6, HostExecPasses
  <2> QED
    BY <1>1, <2>2, <2>3, <2>4, <2>5, <2>6
    DEF Next, Cycle, FinishStep, Skip, HostCall, HostIrq, HostPins, HostConfig, vars
<1>2. TypeOK /\ StallJustified /\ [Next]_vars =>
        [\A m \in SMs : sm[m].exec_pending /\ sm'[m].stalled =>
           sm'[m].exec_pending /\ sm'[m].exec_instr = sm[m].exec_instr]_vars
  BY <1>1
<1>3. Spec => []StallJustified
  BY StallsJustified
<1> QED
  BY <1>2, <1>3, TypeCorrect, PTL DEF Spec, ExecStalls

\* No call of a host that executes no jumps by itself, and hands nothing over, moves
\* a program counter or disturbs what is pending.
THEOREM HostsBesidePrograms == ExecutesBeside => (Spec => HostBesideProgram)
<1> SUFFICES ASSUME ExecutesBeside PROVE Spec => HostBesideProgram
  OBVIOUS
<1> DEFINE Beside(m) == /\ sm'[m].pc = sm[m].pc
                        /\ sm'[m].exec_pending = sm[m].exec_pending
                        /\ sm'[m].exec_instr = sm[m].exec_instr
<1>1. ASSUME TypeOK, Next \/ UNCHANGED vars, turn' = turn, NEW n \in SMs
      PROVE  Beside(n)
  <2>1. ASSUME sm'[n] = sm[n] PROVE Beside(n)
    BY <2>1
  <2>2. ~Cycle
    <3>1. \A m \in SMs : NextTurn(m) # m
      BY SmTyped DEF NextTurn, Blocks, SmNums
    <3>2. LoopEnd # <<0, 0>>
      BY ChipAssumption DEF LoopEnd
    <3> QED
      BY <1>1, <3>1, <3>2 DEF Cycle, FinishStep, Delayed, Step, Skip
  <2>3. CASE HostExec
    <3>1. PICK c \in Host.execs : Execute(c[1], c[2], FALSE)
      BY <2>3 DEF HostExec
    <3>2. c[1] \in SMs /\ ~Redirects(c[2]) /\ ~HandsOver(c[2])
      BY ExecAssumption DEF HostCalls, ExecutesBeside
    <3>3. CASE n = c[1]
      BY <1>1, <3>1, <3>2, <3>3, ExecuteLeaves DEF EndedIn, Goes
    <3> QED
      BY <1>1, <2>1, <3>1, <3>2, <3>3, ExecuteOthers
  <2>4. CASE HostSm
    BY <1>1, <2>4, HostSmHolds
  <2> QED
    BY <1>1, <2>1, <2>2, <2>3, <2>4
    DEF Next, HostCall, HostIrq, HostPins, HostConfig, vars
<1>2. TypeOK /\ [Next]_vars =>
        [turn' = turn => \A m \in SMs :
           /\ sm'[m].pc = sm[m].pc
           /\ sm'[m].exec_pending = sm[m].exec_pending
           /\ sm'[m].exec_instr = sm[m].exec_instr]_vars
  BY <1>1
<1> QED
  BY <1>2, TypeCorrect, PTL DEF Spec, HostBesideProgram

-----------------------------------------------------------------------------
(* What is executed *)

\* A machine's program, in memory and in the hands of the host, leads nowhere else
Closed(m) ==
  LET top == reg[m].wrap_top
  IN  /\ reg[m].wrap_bottom <= top /\ top \in Addrs
      /\ \A a \in 0 .. top : Stays(instr[m[1]][a], top)
      /\ \A c \in Host.instrs : c[1] = m[1] /\ c[2] <= top => Stays(c[3], top)
      /\ \A c \in Host.execs : c[1] = m => Stays(c[2], top)

\* The machine is in its program, and nothing is pending that was not in it
Within(s, top) == s.pc \in 0 .. top /\ ~s.exec_pending

ProgramInv == \A m \in SMs : Closed(m) /\ Within(sm[m], reg[m].wrap_top)

\* What the invariant says of the memory it says of what is executed.
LEMMA ProgramExecuted ==
  ASSUME TypeOK, ProgramInv, NEW m \in SMs
  PROVE  /\ reg[m].wrap_top \in Nat /\ reg[m].wrap_top <= 31
         /\ sm[m].pc \in 0 .. reg[m].wrap_top
         /\ Current(m) = {instr[m[1]][sm[m].pc]}
<1>1. /\ Closed(m) /\ Within(sm[m], reg[m].wrap_top)
      /\ reg[m].wrap_top \in 0 .. 31
  BY MachineTyped DEF ProgramInv, Reg
<1>2. sm[m].pc \in 0 .. reg[m].wrap_top /\ reg[m].wrap_top <= NumInstrs - 1
  BY <1>1, ExecAssumption DEF Closed, Within, Addrs
<1>3. sm[m].pc \in Addrs
  BY <1>1, <1>2, ExecAssumption DEF Addrs
<1> QED
  BY <1>1, <1>2, <1>3 DEF Within, Current

\* An instruction that stays leaves its machine in the program.
LEMMA StaysWithin ==
  ASSUME TypeOK, NEW m \in SMs, Closed(m), Within(sm[m], reg[m].wrap_top),
         NEW i \in Instr, Stays(i, reg[m].wrap_top), NEW stepping \in BOOLEAN,
         Execute(m, i, stepping)
  PROVE  Within(sm'[m], reg[m].wrap_top)
<1> DEFINE top == reg[m].wrap_top
<1>1. EndedIn(m, i, stepping)
  BY ExecuteLeaves
<1>2. top \in 0 .. 31 /\ reg[m].wrap_bottom \in 0 .. top
  BY MachineTyped DEF Reg, Closed
<1>3. sm[m].pc \in 0 .. top /\ ~sm[m].exec_pending
  BY DEF Within
<1>4. Following(m, sm[m].pc) \in 0 .. top
  BY <1>2, <1>3 DEF Following
<1>5. \A a : Goes(i, a) => a \in 0 .. top
  <2>1. i.op = "JMP" => i.addr \in 0 .. 31
    BY InstrFields DEF JmpInstr, Indexes
  <2> QED
    BY <1>2, <2>1 DEF Goes, Redirects, Stays
<1>6. ~HandsOver(i)
  BY DEF Stays
<1> HIDE DEF top
<1> QED
  BY <1>1, <1>3, <1>4, <1>5, <1>6, Zenon DEF EndedIn, Within, top

\* Every step of the chip and every call of its host keeps the machines there.
LEMMA NextWithin ==
  ASSUME TypeOK, Contained, ProgramInv, Next
  PROVE  ProgramInv'
<1> DEFINE top(m) == reg[m].wrap_top
<1>1. reg' = reg
  BY DEF Next, Cycle, FinishStep, Delayed, Step, Skip, HostCall, HostSm, HostIrq,
         HostPins, HostConfig, HostExec, Contained
<1>2. ASSUME NEW m \in SMs PROVE Closed(m)'
  <2>1. CASE instr' = instr
    BY <1>1, <2>1 DEF ProgramInv, Closed
  <2>2. ASSUME NEW c \in Host.instrs,
               instr' = [instr EXCEPT ![c[1]] = [@ EXCEPT ![c[2]] = c[3]]]
        PROVE  Closed(m)'
    <3>1. Closed(m) /\ m[1] \in Blocks /\ top(m) \in Addrs
      BY SmTyped DEF ProgramInv, Closed
    <3>2. c[1] \in Blocks /\ c[2] \in Addrs
      BY ExecAssumption DEF HostCalls
    <3>3. instr \in [Blocks -> [Addrs -> Instr]]
      BY DEF TypeOK
    <3>4. ASSUME NEW a \in 0 .. top(m)
          PROVE  Stays(instr'[m[1]][a], top(m))
      <4>1. a \in Addrs /\ Stays(instr[m[1]][a], top(m))
        BY <3>1, ExecAssumption DEF Closed, Addrs
      <4>2. CASE c[1] = m[1] /\ c[2] = a
        <5>1. instr'[m[1]][a] = c[3]
          BY <2>2, <3>1, <3>2, <3>3, <4>1, <4>2
        <5>2. c[2] <= top(m)
          BY <4>2
        <5> QED
          BY <3>1, <4>2, <5>1, <5>2 DEF Closed
      <4>3. CASE ~(c[1] = m[1] /\ c[2] = a)
        <5>1. instr'[m[1]][a] = instr[m[1]][a]
          BY <2>2, <3>1, <3>2, <3>3, <4>1, <4>3
        <5> QED
          BY <4>1, <5>1
      <4> QED
        BY <4>2, <4>3
    <3> QED
      BY <1>1, <3>1, <3>4 DEF Closed
  <2> QED
    BY <2>1, <2>2
    DEF Next, Cycle, FinishStep, Delayed, Step, Skip, HostCall, HostSm, HostIrq,
        HostPins, HostConfig, HostExec
<1>3. ASSUME NEW n \in SMs PROVE Within(sm'[n], top(n))
  <2>1. Closed(n) /\ Within(sm[n], top(n))
    BY DEF ProgramInv
  <2>2. ASSUME sm'[n] = sm[n] PROVE Within(sm'[n], top(n))
    BY <2>1, <2>2
  <2>3. ASSUME NEW m \in SMs, Delayed(m) PROVE Within(sm'[n], top(n))
    <3> DEFINE s == [sm[m] EXCEPT !.delay = @ - 1]
    <3>1. s.pc = sm[m].pc /\ s.exec_pending = sm[m].exec_pending
      BY MachineFields DEF Shaped, Fields
    <3>2. Put(m, s)
      BY <2>3 DEF Delayed
    <3> HIDE DEF s
    <3>3. sm'[m] = s
      BY <3>2, PutKeeps
    <3>4. CASE n = m
      BY <2>1, <3>1, <3>3, <3>4, Zenon DEF Within
    <3> QED
      BY <2>2, <3>2, <3>4, PutKeeps
  <2>4. ASSUME NEW m \in SMs, Step(m) PROVE Within(sm'[n], top(n))
    <3>1. PICK i \in Current(m) : Execute(m, i, TRUE)
      BY <2>4 DEF Step
    <3>2. CASE n = m
      <4>1. i \in Instr
        BY <3>1, CurrentTyped
      <4>2. Stays(i, top(m))
        BY <3>1, ProgramExecuted DEF ProgramInv, Closed
      <4> QED
        BY <2>1, <3>1, <3>2, <4>1, <4>2, StaysWithin
    <3> QED
      BY <2>2, <3>1, <3>2, ExecuteOthers
  <2>5. CASE HostExec
    <3>1. PICK c \in Host.execs : Execute(c[1], c[2], FALSE)
      BY <2>5 DEF HostExec
    <3>2. c[1] \in SMs /\ c[2] \in Instr
      BY ExecAssumption DEF HostCalls
    <3>3. CASE n = c[1]
      <4>1. Stays(c[2], top(n))
        BY <2>1, <3>3 DEF Closed
      <4> QED
        BY <2>1, <3>1, <3>2, <3>3, <4>1, StaysWithin
    <3> QED
      BY <2>2, <3>1, <3>2, <3>3, ExecuteOthers
  <2>6. CASE HostSm
    <3>1. sm'[n].pc = sm[n].pc /\ sm'[n].exec_pending = sm[n].exec_pending
      BY <2>6, HostSmHolds
    <3> QED
      BY <2>1, <3>1, Zenon DEF Within
  <2> QED
    BY <2>2, <2>3, <2>4, <2>5, <2>6
    DEF Next, Cycle, FinishStep, Skip, HostCall, HostIrq, HostPins, HostConfig
<1> QED
  BY <1>1, <1>2, <1>3 DEF ProgramInv

\* If programs wrap at their end and lead nowhere else, then whatever they are and
\* whatever the host makes of them and of the chip, every machine executes its own
\* program: nothing is fetched from beyond the memory, or by another way in.
THEOREM StaysInProgram == Contained => (Spec => []InProgram)
<1> SUFFICES ASSUME Contained PROVE Spec => []InProgram
  OBVIOUS
<1>1. Init => ProgramInv
  <2> SUFFICES ASSUME NEW setup \in Setups, InitFrom(setup), NEW m \in SMs
               PROVE  Closed(m) /\ Within(sm[m], reg[m].wrap_top)
    BY DEF Init, ProgramInv
  <2>1. /\ instr = setup.program /\ reg = setup.config
        /\ sm[m].pc = setup.start[m] /\ sm[m].exec_pending = FALSE
    BY DEF InitFrom, SmReset
  <2>2. setup.start[m] \in 0 .. 31
    BY ExecAssumption DEF Setup, Indexes
  <2>3. Closed(m)
    BY <2>1 DEF Contained, Closed
  <2>4. setup.start[m] <= reg[m].wrap_top /\ reg[m].wrap_top \in Addrs
    BY <2>1 DEF Contained
  <2>5. sm[m].pc \in 0 .. reg[m].wrap_top
    BY <2>1, <2>2, <2>4, ExecAssumption DEF Addrs
  <2> QED
    BY <2>1, <2>3, <2>5 DEF Within
<1>2. TypeOK /\ ProgramInv /\ [Next]_vars => ProgramInv'
  <2>1. ASSUME ProgramInv, UNCHANGED vars PROVE ProgramInv'
    BY <2>1 DEF vars, ProgramInv, Closed
  <2> QED
    BY <2>1, NextWithin
<1>3. TypeOK /\ ProgramInv => InProgram
  BY ProgramExecuted DEF InProgram
<1> QED
  BY <1>1, <1>2, <1>3, TypeCorrect, PTL DEF Spec

-----------------------------------------------------------------------------
(* What is handed over is executed in place of the next instruction *)

\* In a loop the address that precedes the one that follows is the address itself.
LEMMA PrecedesFollowing ==
  ASSUME TypeOK, NEW m \in SMs,
         sm[m].pc \in reg[m].wrap_bottom .. reg[m].wrap_top
  PROVE  /\ Following(m, sm[m].pc) \in reg[m].wrap_bottom .. reg[m].wrap_top
         /\ Preceding(reg[m], Following(m, sm[m].pc)) = sm[m].pc
<1> DEFINE bottom == reg[m].wrap_bottom
           top == reg[m].wrap_top
           pc == sm[m].pc
           next == Following(m, pc)
<1>1. bottom \in 0 .. 31 /\ top \in 0 .. 31 /\ pc \in bottom .. top
  BY MachineTyped DEF Reg
<1>2. next = IF pc = top THEN bottom ELSE pc + 1
  BY <1>1 DEF Following
<1>3. Preceding(reg[m], next) = IF next = bottom THEN top ELSE next - 1
  BY DEF Preceding
<1> HIDE DEF bottom, top, pc, next
<1>4. next \in bottom .. top
  BY <1>1, <1>2
<1>5. (IF next = bottom THEN top ELSE next - 1) = pc
  BY <1>1, <1>2
<1> QED
  BY <1>3, <1>4, <1>5 DEF bottom, top, pc, next

\* Machine m is in its loop as it was set up, but for what the host has written
\* where nothing is executed; and something is pending exactly there
InPlace(setup, m) ==
  LET config == setup.config[m]
      mem == setup.program[m[1]]
      loop == config.wrap_bottom .. config.wrap_top
      behind == Behind(config, mem)
  IN  /\ reg[m].wrap_bottom = config.wrap_bottom /\ reg[m].wrap_top = config.wrap_top
      /\ sm[m].pc \in loop
      /\ \A a \in loop \ behind : instr[m[1]][a] = mem[a]
      /\ \A a \in loop \cap behind : ~HandsOver(instr[m[1]][a])
      /\ sm[m].exec_pending <=> sm[m].pc \in behind

InPlaceInv == \E setup \in Setups : \A m \in SMs : InPlace(setup, m)

\* What is behind a hand-over in the memory as it was set up still is.
LEMMA SameBehind ==
  ASSUME TypeOK, Replaceable, NEW setup \in Setups, NEW m \in SMs, InPlace(setup, m)
  PROVE  Behind(reg[m], instr[m[1]]) = Behind(setup.config[m], setup.program[m[1]])
<1> DEFINE config == setup.config[m]
           mem == setup.program[m[1]]
           now == instr[m[1]]
           loop == config.wrap_bottom .. config.wrap_top
<1>1. /\ reg[m].wrap_bottom = config.wrap_bottom /\ reg[m].wrap_top = config.wrap_top
      /\ \A a \in loop \ Behind(config, mem) : now[a] = mem[a]
      /\ \A a \in loop \cap Behind(config, mem) : ~HandsOver(now[a])
  BY DEF InPlace
<1>2. \A a \in loop \cap Behind(config, mem) : ~HandsOver(mem[a])
  BY DEF Replaceable
<1>3. config.wrap_bottom \in 0 .. 31 /\ config.wrap_top \in 0 .. 31
  BY ExecAssumption DEF Setup, Reg
<1> HIDE DEF config, mem, now
<1>4. \A a \in loop : HandsOver(now[a]) <=> HandsOver(mem[a])
  BY <1>1, <1>2
<1>5. \A a \in loop : /\ Preceding(config, a) \in loop
                      /\ Preceding(reg[m], a) = Preceding(config, a)
  BY <1>1, <1>3 DEF Preceding
<1>6. Behind(reg[m], now) = Behind(config, mem)
  BY <1>1, <1>4, <1>5 DEF Behind
<1> QED
  BY <1>6 DEF config, mem, now

\* A step of the machine keeps it in place, if what is pending is harmless.
LEMMA StepInPlace ==
  ASSUME TypeOK, Replaceable, Harmless, NEW setup \in Setups, NEW m \in SMs,
         InPlace(setup, m), Step(m)
  PROVE  InPlace(setup, m)'
<1> DEFINE config == setup.config[m]
           mem == setup.program[m[1]]
           loop == config.wrap_bottom .. config.wrap_top
           behind == Behind(config, mem)
           pc == sm[m].pc
<1>1. PICK i \in Current(m) : Execute(m, i, TRUE)
  BY DEF Step
<1>2. EndedIn(m, i, TRUE)
  BY <1>1, ExecuteLeaves
<1>3. UNCHANGED <<reg, instr>>
  BY DEF Step
<1>4. /\ pc \in loop /\ (sm[m].exec_pending <=> pc \in behind)
      /\ pc \notin behind => instr[m[1]][pc] = mem[pc]
      /\ reg[m].wrap_bottom = config.wrap_bottom /\ reg[m].wrap_top = config.wrap_top
  BY DEF InPlace
<1>5. /\ Following(m, pc) \in loop
      /\ Following(m, pc) \in behind <=> HandsOver(mem[pc])
  <2>1. /\ Following(m, pc) \in loop
        /\ Preceding(reg[m], Following(m, pc)) = pc
    BY <1>4, PrecedesFollowing
  <2>2. Preceding(config, Following(m, pc)) = pc
    BY <1>4, <2>1 DEF Preceding
  <2> QED
    BY <2>1, <2>2 DEF Behind
<1>6. /\ loop \subseteq Addrs
      /\ \A a \in loop \ behind :
           Redirects(mem[a]) => mem[a].op = "JMP" /\ mem[a].addr \in loop \ behind
      /\ \A a \in loop \cap behind : ~HandsOver(mem[a])
  BY DEF Replaceable
<1>7. sm[m].exec_pending \in BOOLEAN
  BY MachineTyped DEF SmState
<1>8. sm'[m].pc \in loop /\ (sm'[m].exec_pending <=> sm'[m].pc \in behind)
  <2>1. CASE sm[m].exec_pending
    <3>1. i = sm[m].exec_instr
      BY <1>1, <2>1 DEF Current
    <3>2. ~Redirects(i) /\ ~HandsOver(i)
      BY <2>1, <3>1 DEF Harmless
    <3>3. ~HandsOver(mem[pc])
      BY <1>4, <1>6, <2>1
    <3> HIDE DEF loop, behind, mem, pc
    <3> QED
      BY <1>2, <1>4, <1>5, <2>1, <3>2, <3>3, Zenon DEF EndedIn, Goes, pc
  <2>2. CASE ~sm[m].exec_pending
    <3>1. pc \in loop \ behind /\ pc \in Addrs
      BY <1>4, <1>6, <2>2
    <3>2. i = mem[pc]
      BY <1>1, <1>4, <2>2, <3>1 DEF Current
    <3>3. \A a : Goes(i, a) => a \in loop \ behind
      BY <1>6, <3>1, <3>2 DEF Goes
    <3> HIDE DEF loop, behind, mem, pc
    <3>4. \/ sm'[m].pc = pc /\ sm'[m].exec_pending = sm[m].exec_pending
          \/ /\ sm'[m].pc = Following(m, pc) /\ ~sm'[m].exec_pending
             /\ ~HandsOver(i)
          \/ Goes(i, sm'[m].pc) /\ sm'[m].exec_pending = sm[m].exec_pending
          \/ /\ sm'[m].pc = Following(m, pc) /\ sm'[m].exec_pending
             /\ HandsOver(i)
      BY <1>2, <2>2, Zenon DEF EndedIn, pc
    <3> QED
      BY <1>4, <1>5, <2>2, <3>1, <3>2, <3>3, <3>4
  <2> QED
    BY <2>1, <2>2
<1> HIDE DEF config, mem
<1> QED
  BY <1>3, <1>8 DEF InPlace, config, mem

\* Whatever the host writes, it writes it where nothing is executed from memory.
LEMMA ConfigInPlace ==
  ASSUME TypeOK, Replaceable, NEW setup \in Setups, NEW m \in SMs,
         InPlace(setup, m), HostConfig
  PROVE  InPlace(setup, m)'
<1> DEFINE config == setup.config[m]
           mem == setup.program[m[1]]
           loop == config.wrap_bottom .. config.wrap_top
           behind == Behind(config, mem)
           now == instr[m[1]]
<1>1. sm' = sm
  BY DEF HostConfig
<1>2. /\ reg'[m].wrap_bottom = config.wrap_bottom
      /\ reg'[m].wrap_top = config.wrap_top
  <2>1. CASE reg' = reg
    BY <2>1 DEF InPlace
  <2>2. ASSUME NEW c \in Host.regs, reg' = [reg EXCEPT ![c[1]] = c[2]]
        PROVE  /\ reg'[m].wrap_bottom = config.wrap_bottom
               /\ reg'[m].wrap_top = config.wrap_top
    <3>1. CASE c[1] = m
      <4>1. reg'[m] = c[2]
        BY <2>2, <3>1 DEF TypeOK
      <4> QED
        BY <3>1, <4>1 DEF Replaceable
    <3>2. CASE c[1] # m
      <4>1. reg'[m] = reg[m]
        BY <2>2, <3>2 DEF TypeOK
      <4> QED
        BY <4>1 DEF InPlace
    <3> QED
      BY <3>1, <3>2
  <2> QED
    BY <2>1, <2>2 DEF HostConfig
<1>3. \A a \in loop : \/ instr'[m[1]][a] = now[a]
                      \/ a \in behind /\ ~HandsOver(instr'[m[1]][a])
  <2>1. ASSUME NEW c \in Host.instrs,
               instr' = [instr EXCEPT ![c[1]] = [@ EXCEPT ![c[2]] = c[3]]],
               NEW a \in loop
        PROVE  \/ instr'[m[1]][a] = now[a]
               \/ a \in behind /\ ~HandsOver(instr'[m[1]][a])
    <3>1. m[1] \in Blocks /\ c[1] \in Blocks /\ c[2] \in Addrs /\ a \in Addrs
      BY SmTyped, ExecAssumption DEF HostCalls, Replaceable
    <3>2. instr \in [Blocks -> [Addrs -> Instr]]
      BY DEF TypeOK
    <3>3. CASE c[1] = m[1] /\ c[2] = a
      <4>1. instr'[m[1]][a] = c[3]
        BY <2>1, <3>1, <3>2, <3>3
      <4>2. a \notin loop \ behind /\ ~HandsOver(c[3])
        BY <3>3 DEF Replaceable
      <4> QED
        BY <4>1, <4>2
    <3>4. CASE ~(c[1] = m[1] /\ c[2] = a)
      BY <2>1, <3>1, <3>2, <3>4
    <3> QED
      BY <3>3, <3>4
  <2> QED
    BY <2>1 DEF HostConfig
<1> HIDE DEF config, mem
<1>4. /\ \A a \in loop \ behind : now[a] = mem[a]
      /\ \A a \in loop \cap behind : ~HandsOver(now[a])
      /\ sm[m].pc \in loop /\ (sm[m].exec_pending <=> sm[m].pc \in behind)
  BY DEF InPlace, config, mem
<1>5. /\ \A a \in loop \ behind : instr'[m[1]][a] = mem[a]
      /\ \A a \in loop \cap behind : ~HandsOver(instr'[m[1]][a])
  BY <1>3, <1>4
<1> QED
  BY <1>1, <1>2, <1>4, <1>5 DEF InPlace, config, mem

\* Every step of the chip and every call of its host keeps the machines in place.
LEMMA NextInPlace ==
  ASSUME TypeOK, Replaceable, Harmless, NEW setup \in Setups, NEW n \in SMs,
         InPlace(setup, n), Next
  PROVE  InPlace(setup, n)'
<1>1. ASSUME UNCHANGED <<instr, reg>>, sm'[n].pc = sm[n].pc,
             sm'[n].exec_pending = sm[n].exec_pending
      PROVE  InPlace(setup, n)'
  BY <1>1 DEF InPlace
<1>2. ASSUME NEW m \in SMs, Delayed(m) PROVE InPlace(setup, n)'
  <2> DEFINE s == [sm[m] EXCEPT !.delay = @ - 1]
  <2>1. s.pc = sm[m].pc /\ s.exec_pending = sm[m].exec_pending
    BY MachineFields DEF Shaped, Fields
  <2>2. Put(m, s) /\ UNCHANGED <<instr, reg>>
    BY <1>2 DEF Delayed
  <2> HIDE DEF s
  <2> QED
    BY <1>1, <2>1, <2>2, PutKeeps
<1>3. ASSUME NEW m \in SMs, Step(m) PROVE InPlace(setup, n)'
  <2>1. CASE n = m
    BY <1>3, <2>1, StepInPlace
  <2>2. CASE n # m
    BY <1>1, <1>3, <2>2, ExecuteOthers DEF Step
  <2> QED
    BY <2>1, <2>2
<1>4. CASE HostExec
  <2>1. PICK c \in Host.execs : Execute(c[1], c[2], FALSE)
    BY <1>4 DEF HostExec
  <2>2. c[1] \in SMs /\ ~Redirects(c[2]) /\ ~HandsOver(c[2])
    BY ExecAssumption DEF HostCalls, Replaceable, ExecutesBeside
  <2>3. sm'[n].pc = sm[n].pc /\ sm'[n].exec_pending = sm[n].exec_pending
    <3>1. CASE n = c[1]
      BY <2>1, <2>2, <3>1, ExecuteLeaves DEF EndedIn, Goes
    <3> QED
      BY <2>1, <2>2, <3>1, ExecuteOthers
  <2> QED
    BY <1>1, <1>4, <2>3 DEF HostExec
<1>5. CASE HostSm
  BY <1>1, <1>5, HostSmHolds DEF HostSm
<1>6. CASE HostConfig
  BY <1>6, ConfigInPlace
<1> QED
  BY <1>1, <1>2, <1>3, <1>4, <1>5, <1>6
  DEF Next, Cycle, FinishStep, Skip, HostCall, HostIrq, HostPins

\* In every program that comes to the address behind a hand-over by that alone, and
\* as long as no jump and no further hand-over is handed over, whatever is handed
\* over is executed in place of the next instruction: once, and never beside it.
THEOREM ExecutedInPlace == Replaceable => (Spec /\ []Harmless => []ExecInPlace)
<1> SUFFICES ASSUME Replaceable PROVE Spec /\ []Harmless => []ExecInPlace
  OBVIOUS
<1>1. Init => InPlaceInv
  <2> SUFFICES ASSUME NEW setup \in Setups, InitFrom(setup), NEW m \in SMs
               PROVE  InPlace(setup, m)
    BY DEF Init, InPlaceInv
  <2>1. /\ instr = setup.program /\ reg = setup.config
        /\ sm[m].pc = setup.start[m] /\ sm[m].exec_pending = FALSE
    BY DEF InitFrom, SmReset
  <2> QED
    BY <2>1 DEF InPlace, Replaceable
<1>2. TypeOK /\ Harmless /\ InPlaceInv /\ [Next]_vars => InPlaceInv'
  <2>1. ASSUME InPlaceInv, UNCHANGED vars PROVE InPlaceInv'
    BY <2>1 DEF vars, InPlaceInv, InPlace
  <2> QED
    BY <2>1, NextInPlace DEF InPlaceInv
<1>3. TypeOK /\ InPlaceInv => ExecInPlace
  <2> SUFFICES ASSUME TypeOK, NEW setup \in Setups,
                      \A m \in SMs : InPlace(setup, m), NEW n \in SMs
               PROVE  /\ sm[n].exec_pending <=>
                           sm[n].pc \in Behind(reg[n], instr[n[1]])
                      /\ sm[n].exec_pending => Current(n) = {sm[n].exec_instr}
    BY DEF InPlaceInv, ExecInPlace
  <2> QED
    BY SameBehind DEF InPlace, Current
<1> QED
  BY <1>1, <1>2, <1>3, TypeCorrect, PTL DEF Spec

=============================================================================
