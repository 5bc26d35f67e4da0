--------------------------- MODULE EpioSync_proofs ---------------------------
(***************************************************************************)
(* Tokens in rings are neither lost nor doubled, items offered in          *)
(* handshakes are taken one by one, no pulse is lost to a listener, and of *)
(* the machines that write a pin in one cycle the last one wins, for every *)
(* number of blocks and machines, every program of that form, and whatever *)
(* other programs run beside them.                                         *)
(***************************************************************************)
EXTENDS EpioSync, EpioStall_proofs, FiniteSetTheorems

Flagged(t) == t[2] \in irq[t[1]].flags

Clearing(t) == t[2] \in irq[t[1]].to_clear

Setting(t) == t[2] \in irq[t[1]].to_set

\* The loop of this cycle is past machine m
Past(m) == Beyond(turn, m)

\* What the flags and the requests say of t does not change
SameFlag(t) ==
  /\ Flagged(t)' <=> Flagged(t)
  /\ Clearing(t)' <=> Clearing(t)
  /\ Setting(t)' <=> Setting(t)

-----------------------------------------------------------------------------
(* The flags *)

LEMMA RaisedIs ==
  ASSUME NEW t
  PROVE  Raised(t) <=> (Flagged(t) /\ ~Clearing(t)) \/ Setting(t)
BY DEF Raised, Flagged, Clearing, Setting

LEMMA RaisedNext ==
  ASSUME NEW t
  PROVE  Raised(t)' <=> (Flagged(t)' /\ ~Clearing(t)') \/ Setting(t)'
BY DEF Raised, Flagged, Clearing, Setting

\* An instruction records requests for the flag its operand names, and changes none;
\* it takes back no request to set one.
LEMMA RequestsAreKept ==
  ASSUME TypeOK, NEW m \in SMs, NEW i \in Instr, NEW stepping,
         Execute(m, i, stepping), NEW t \in Blocks \X Nat
  PROVE  /\ Flagged(t)' <=> Flagged(t)
         /\ Setting(t) => Setting(t)'
         /\ t \notin Requests(m, i) => SameFlag(t)
<1> DEFINE u == IrqTarget(m[1], m[2], i.index)
<1>1. CASE irq' = irq
  BY <1>1 DEF SameFlag, Flagged, Clearing, Setting
<1>2. ASSUME RequestSet(u) \/ RequestClear(u), u \in Blocks \X IrqNums
      PROVE  /\ Flagged(t)' <=> Flagged(t)
             /\ Setting(t) => Setting(t)'
             /\ t # u => SameFlag(t)
  <2>1. irq[t[1]] \in IrqState /\ irq \in [Blocks -> IrqState]
    BY DEF TypeOK
  <2>2. t # u => t[1] # u[1] \/ t[2] # u[2]
    BY <1>2
  <2> HIDE DEF u
  <2>3. CASE RequestSet(u)
    BY <1>2, <2>1, <2>2, <2>3
    DEF RequestSet, SameFlag, Flagged, Clearing, Setting, IrqState
  <2>4. CASE RequestClear(u)
    BY <1>2, <2>1, <2>2, <2>4
    DEF RequestClear, SameFlag, Flagged, Clearing, Setting, IrqState
  <2> QED
    BY <1>2, <2>3, <2>4
<1>3. \/ irq' = irq
      \/ /\ Requests(m, i) = {u} /\ (RequestSet(u) \/ RequestClear(u))
         /\ u \in Blocks \X IrqNums
  <2>1. CASE Wait(m, i, stepping)
    <3>1. i.op = "WAIT" => i.index \in Indexes
      BY InstrFields DEF WaitInstr
    <3> QED
      BY <2>1, <3>1, SmTyped, IrqTargetTyped DEF Wait, Requests
  <2>2. CASE Irq(m, i, stepping)
    <3>1. i.op = "IRQ" => i.index \in Indexes
      BY InstrFields DEF IrqInstr
    <3> QED
      BY <2>2, <3>1, SmTyped, IrqTargetTyped DEF Irq, Requests
  <2> QED
    BY <2>1, <2>2 DEF Execute, Jmp, In, Out, Pull, Push, Mov, Set
<1> HIDE DEF u
<1> QED
  BY <1>1, <1>2, <1>3

\* The requests themselves.
LEMMA RequestsAre ==
  ASSUME TypeOK, NEW t \in Blocks \X IrqNums, NEW u \in Blocks \X IrqNums
  PROVE  /\ RequestSet(t) =>
              /\ Flagged(u)' <=> Flagged(u)
              /\ Clearing(u)' <=> Clearing(u)
              /\ Setting(u)' <=> Setting(u) \/ u = t
         /\ RequestClear(t) =>
              /\ Flagged(u)' <=> Flagged(u)
              /\ Clearing(u)' <=> Clearing(u) \/ u = t
              /\ Setting(u)' <=> Setting(u)
<1>1. irq[u[1]] \in IrqState /\ irq \in [Blocks -> IrqState]
  BY DEF TypeOK
<1>2. u = t <=> u[1] = t[1] /\ u[2] = t[2]
  OBVIOUS
<1>3. ASSUME RequestSet(t)
      PROVE  /\ Flagged(u)' <=> Flagged(u)
             /\ Clearing(u)' <=> Clearing(u)
             /\ Setting(u)' <=> Setting(u) \/ u = t
  BY <1>1, <1>2, <1>3 DEF RequestSet, Flagged, Clearing, Setting, IrqState
<1>4. ASSUME RequestClear(t)
      PROVE  /\ Flagged(u)' <=> Flagged(u)
             /\ Clearing(u)' <=> Clearing(u) \/ u = t
             /\ Setting(u)' <=> Setting(u)
  BY <1>1, <1>2, <1>4 DEF RequestClear, Flagged, Clearing, Setting, IrqState
<1> QED
  BY <1>3, <1>4

\* The end of the cycle makes the flags what they were going to be.
LEMMA FinishApplies ==
  ASSUME NEW t, t[1] \in Blocks, FinishStep
  PROVE  /\ Flagged(t)' <=> Raised(t)
         /\ ~Clearing(t)' /\ ~Setting(t)'
BY DEF FinishStep, ApplyRequests, Flagged, Clearing, Setting, Raised

\* The loop of the cycle moves past the machine it is at, and past no other back.
LEMMA TurnPasses ==
  ASSUME NEW m \in SMs, turn = m, turn' = NextTurn(m)
  PROVE  ~Past(m) /\ Past(m)' /\ \A k \in SMs : Past(k) => Past(k)'
BY SmTyped DEF Past, Beyond, NextTurn, Blocks, SmNums

\* A machine has had its turn after a step if it had before, or if it was its turn.
LEMMA TurnReaches ==
  ASSUME NEW m \in SMs, turn = m, turn' = NextTurn(m), NEW k \in SMs
  PROVE  Beyond(turn, k)' <=> Beyond(turn, k) \/ k = m
<1>1. /\ m[1] \in Int /\ k[1] \in Int /\ m = <<m[1], m[2]>> /\ k = <<k[1], k[2]>>
      /\ m[2] \in 0 .. NumSms - 1 /\ k[2] \in 0 .. NumSms - 1 /\ NumSms \in Int
  BY SmTyped, ChipAssumption DEF Blocks, SmNums
<1>2. k = m <=> k[1] = m[1] /\ k[2] = m[2]
  BY <1>1
<1>3. CASE m[2] < NumSms - 1
  <2>1. turn'[1] = m[1] /\ turn'[2] = m[2] + 1
    BY <1>3 DEF NextTurn
  <2> QED
    BY <1>1, <1>2, <2>1 DEF Beyond
<1>4. CASE ~(m[2] < NumSms - 1)
  <2>1. turn'[1] = m[1] + 1 /\ turn'[2] = 0
    BY <1>4 DEF NextTurn
  <2> QED
    BY <1>1, <1>2, <1>4, <2>1 DEF Beyond
<1> QED
  BY <1>3, <1>4

-----------------------------------------------------------------------------
(* The ends of an execution *)

\* An instruction that retires moves the program counter on.
LEMMA RetireMoves ==
  ASSUME TypeOK, NEW m \in SMs, NEW i, NEW s, Shaped(s), s.pc = sm[m].pc,
         Retire(m, i, TRUE, s)
  PROVE  /\ sm'[m].pc = Following(m, sm[m].pc)
         /\ sm'[m].stalled = s.stalled
         /\ sm'[m].delay = NewDelay(i)
<1> DEFINE u == [s EXCEPT !.delay = NewDelay(i)]
           v == Advanced(m, u)
<1>1. /\ u.pc = sm[m].pc /\ Shaped(u) /\ u.stalled = s.stalled
      /\ u.delay = NewDelay(i)
  BY DEF Shaped, Fields
<1>2. Put(m, v)
  BY DEF Retire
<1> HIDE DEF u
<1>3. v.pc = Following(m, sm[m].pc) /\ v.stalled = u.stalled /\ v.delay = u.delay
  BY <1>1 DEF Advanced, Shaped, Fields
<1> HIDE DEF v
<1> QED
  BY <1>1, <1>2, <1>3, PutKeeps

\* One that stalls does not.
LEMMA StallStays ==
  ASSUME TypeOK, NEW m \in SMs, Stall(m, sm[m])
  PROVE  sm'[m].pc = sm[m].pc /\ sm'[m].stalled
<1>1. \A f \in Fields \ {"stalled"} : sm'[m][f] = sm[m][f]
  BY MachineFields, StallKeeps
<1>2. sm'[m] = [sm[m] EXCEPT !.stalled = TRUE]
  BY MachineFields, StallKeeps
<1>3. sm'[m].stalled
  BY <1>2, MachineFields DEF Shaped, Fields
<1> QED
  BY <1>1, <1>3 DEF Fields

\* A machine that waits for a flag stalls, or has seen it up and clears it.
LEMMA TakesFlag ==
  ASSUME TypeOK, NEW m \in SMs, NEW i \in Instr, NEW t, Takes(m, i, t),
         Execute(m, i, TRUE)
  PROVE  \/ /\ ~Flagged(t) /\ irq' = irq
            /\ sm'[m].pc = sm[m].pc /\ sm'[m].stalled
         \/ /\ Flagged(t) /\ RequestClear(t)
            /\ sm'[m].pc = Following(m, sm[m].pc) /\ ~sm'[m].stalled
<1>1. Wait(m, i, TRUE)
  BY DEF Takes, Execute, Jmp, In, Out, Pull, Push, Mov, Irq, Set
<1>2. i.src = "IRQ" /\ i.polarity /\ IrqTarget(m[1], m[2], i.index) = t
  BY DEF Takes, Requests
<1>3. CASE /\ WaitLevel(m, i) = i.polarity
           /\ Retire(m, i, TRUE, [sm[m] EXCEPT !.stalled = FALSE])
           /\ RequestClear(IrqTarget(m[1], m[2], i.index))
  <2> DEFINE s == [sm[m] EXCEPT !.stalled = FALSE]
  <2>1. Shaped(s) /\ s.pc = sm[m].pc /\ ~s.stalled
    BY MachineFields DEF Shaped, Fields
  <2>2. Retire(m, i, TRUE, s)
    BY <1>3
  <2> HIDE DEF s
  <2>3. sm'[m].pc = Following(m, sm[m].pc) /\ ~sm'[m].stalled
    BY <2>1, <2>2, RetireMoves
  <2>4. Flagged(t)
    BY <1>2, <1>3 DEF WaitLevel, Flag, Flagged
  <2> QED
    BY <1>2, <1>3, <2>3, <2>4
<1>4. CASE WaitLevel(m, i) # i.polarity /\ Stall(m, sm[m]) /\ irq' = irq
  BY <1>2, <1>4, StallStays DEF WaitLevel, Flag, Flagged
<1> QED
  BY <1>1, <1>2, <1>3, <1>4 DEF Wait

\* A machine that offers an item raises the flag and stalls; when it has done so it
\* stays stalled while the flag is up, and goes on when it is not.
LEMMA OffersItem ==
  ASSUME TypeOK, NEW m \in SMs, NEW i \in Instr, NEW t, Offers(m, i, t),
         Execute(m, i, TRUE)
  PROVE  \/ /\ ~sm[m].stalled /\ RequestSet(t)
            /\ sm'[m].pc = sm[m].pc /\ sm'[m].stalled
         \/ /\ sm[m].stalled /\ Flagged(t) /\ irq' = irq
            /\ sm'[m].pc = sm[m].pc /\ sm'[m].stalled
         \/ /\ sm[m].stalled /\ ~Flagged(t) /\ irq' = irq
            /\ ~sm'[m].stalled
<1>1. Irq(m, i, TRUE) /\ ~i.clr /\ i.wait
  BY DEF Offers, Execute, Jmp, Wait, In, Out, Pull, Push, Mov, Set
<1>2. IrqTarget(m[1], m[2], i.index) = t
  BY DEF Offers, Requests
<1>3. CASE ~sm[m].stalled /\ RequestSet(t) /\ Stall(m, sm[m])
  BY <1>3, StallStays
<1>4. CASE sm[m].stalled /\ Flag(t) /\ Stall(m, sm[m]) /\ irq' = irq
  BY <1>4, StallStays DEF Flag, Flagged
<1>5. CASE /\ sm[m].stalled /\ ~Flag(t) /\ irq' = irq
           /\ Retire(m, i, TRUE, [sm[m] EXCEPT !.stalled = FALSE])
  <2> DEFINE s == [sm[m] EXCEPT !.stalled = FALSE]
  <2>1. Shaped(s) /\ s.pc = sm[m].pc /\ ~s.stalled
    BY MachineFields DEF Shaped, Fields
  <2>2. Retire(m, i, TRUE, s)
    BY <1>5
  <2> HIDE DEF s
  <2>3. ~sm'[m].stalled
    BY <2>1, <2>2, RetireMoves
  <2> QED
    BY <1>5, <2>3 DEF Flag, Flagged
<1> QED
  BY <1>1, <1>2, <1>3, <1>4, <1>5 DEF Irq

\* A machine that passes the token raises a flag of its ring, and moves on.
LEMMA PassesToken ==
  ASSUME TypeOK, NEW m \in SMs, NEW i \in Instr, Passes(m, i),
         Execute(m, i, TRUE)
  PROVE  /\ sm'[m].pc = Following(m, sm[m].pc)
         /\ \E b \in Blocks : RequestSet(<<b, m[2]>>) /\ m[2] \in IrqNums
<1> DEFINE t == IrqTarget(m[1], m[2], i.index)
<1>1. RequestSet(t) /\ Retire(m, i, TRUE, sm[m])
  BY DEF Passes, Execute, Jmp, Wait, In, Out, Pull, Push, Mov, Irq, Set
<1>2. t[2] = m[2]
  BY DEF Passes, Requests
<1>3. t \in Blocks \X IrqNums
  <2>1. i.index \in Indexes
    BY InstrFields DEF Passes, IrqInstr
  <2> QED
    BY <2>1, SmTyped, IrqTargetTyped
<1> HIDE DEF t
<1>4. t = <<t[1], m[2]>> /\ t[1] \in Blocks /\ m[2] \in IrqNums
  BY <1>2, <1>3
<1>5. RequestSet(<<t[1], m[2]>>)
  BY <1>1, <1>4
<1>6. sm'[m].pc = Following(m, sm[m].pc)
  BY <1>1, MachineFields, RetireMoves
<1> QED
  BY <1>4, <1>5, <1>6

-----------------------------------------------------------------------------
(* The loops *)

\* The machines run round the loops of the setup
Looping(setup) ==
  /\ instr = setup.program /\ reg = setup.config
  /\ \A m \in SMs : sm[m].pc \in Loop(setup, m) /\ ~sm[m].exec_pending

\* The address after one in a loop is in the loop.
LEMMA WrapsWithin ==
  ASSUME NEW bottom \in 0 .. 31, NEW top \in 0 .. 31, NEW pc \in bottom .. top
  PROVE  (IF pc = top THEN bottom ELSE pc + 1) \in bottom .. top
<1>1. CASE pc = top
  BY <1>1
<1>2. CASE pc # top
  <2>1. pc + 1 \in bottom .. top
    BY <1>2
  <2> QED
    BY <1>2, <2>1
<1> QED
  BY <1>1, <1>2

\* A machine in its loop executes the instruction there, and follows on in it.
LEMMA LoopFollows ==
  ASSUME TypeOK, Looped, NEW setup \in Setups, Looping(setup), NEW m \in SMs
  PROVE  LET i == At(setup, m, sm[m].pc)
         IN  /\ Current(m) = {i} /\ i \in Instr
             /\ Step(m) => Execute(m, i, TRUE)
             /\ KeepsTo(i, Loop(setup, m))
             /\ Following(m, sm[m].pc) \in Loop(setup, m)
<1> DEFINE bottom == setup.config[m].wrap_bottom
           top == setup.config[m].wrap_top
           pc == sm[m].pc
           i == At(setup, m, pc)
<1>1. reg[m] = setup.config[m] /\ bottom \in 0 .. 31 /\ top \in 0 .. 31
  BY MachineTyped DEF Looping, Reg
<1>2. pc \in Loop(setup, m) /\ Loop(setup, m) \subseteq Addrs /\ ~sm[m].exec_pending
  BY DEF Looping, Looped
<1>3. Current(m) = {i} /\ i \in Instr
  <2>1. pc \in Addrs /\ m[1] \in Blocks
    BY <1>2, SmTyped
  <2>2. instr[m[1]][pc] = i
    BY DEF Looping, At
  <2>3. instr[m[1]][pc] \in Instr
    BY <2>1 DEF TypeOK
  <2> QED
    BY <1>2, <2>1, <2>2, <2>3 DEF Current
<1>4. KeepsTo(i, Loop(setup, m))
  BY <1>2 DEF Looped
<1>5. Following(m, pc) = IF pc = top THEN bottom ELSE pc + 1
  BY <1>1, <1>2 DEF Following, Loop
<1>6. pc \in bottom .. top /\ Loop(setup, m) = bottom .. top
  BY <1>2 DEF Loop
<1> HIDE DEF i, bottom, top, pc
<1>7. Following(m, pc) \in Loop(setup, m)
  <2>1. (IF pc = top THEN bottom ELSE pc + 1) \in bottom .. top
    <3>1. bottom \in 0 .. 31 /\ top \in 0 .. 31 /\ pc \in bottom .. top
      BY <1>1, <1>6
    <3> QED
      BY <3>1, WrapsWithin
  <2> QED
    BY <1>5, <1>6, <2>1, Zenon
<1>8. Step(m) => Execute(m, i, TRUE)
  BY <1>3 DEF Step
<1> QED
  BY <1>3, <1>4, <1>7, <1>8 DEF i, pc

\* An instruction that keeps to some addresses leads to them or follows on.
LEMMA KeepsToThem ==
  ASSUME TypeOK, NEW m \in SMs, NEW i, NEW addrs, KeepsTo(i, addrs),
         ~sm[m].exec_pending, Execute(m, i, TRUE),
         sm[m].pc \in addrs, Following(m, sm[m].pc) \in addrs
  PROVE  sm'[m].pc \in addrs /\ ~sm'[m].exec_pending
<1>1. EndedIn(m, i, TRUE)
  BY ExecuteLeaves
<1>2. ~HandsOver(i)
  BY DEF KeepsTo
<1>3. \A a : Goes(i, a) => a \in addrs
  BY DEF Goes, Redirects, KeepsTo
<1> QED
  BY <1>1, <1>2, <1>3, Zenon DEF EndedIn

\* All that is not a step of a machine leaves every machine where it is.
LEMMA IdleKeeps ==
  ASSUME TypeOK, Looped,
         \/ FinishStep \/ HostCall
         \/ \E m \in SMs : Delayed(m) \/ Skip(m)
         \/ UNCHANGED vars
  PROVE  /\ instr' = instr /\ reg' = reg
         /\ \A k \in SMs : /\ sm'[k].pc = sm[k].pc
                           /\ sm'[k].exec_pending = sm[k].exec_pending
                           /\ sm'[k].stalled = sm[k].stalled
<1> DEFINE Same(s, k) == /\ s.pc = sm[k].pc
                         /\ s.exec_pending = sm[k].exec_pending
                         /\ s.stalled = sm[k].stalled
<1>1. instr' = instr /\ reg' = reg
  BY DEF FinishStep, Delayed, Skip, vars, HostCall, HostSm, HostIrq, HostPins,
         HostConfig, HostExec, Looped
<1>2. CASE sm' = sm
  BY <1>1, <1>2
<1>3. ASSUME NEW m \in SMs, Delayed(m), NEW k \in SMs PROVE Same(sm'[k], k)
  <2> DEFINE s == [sm[m] EXCEPT !.delay = @ - 1]
  <2>1. Same(s, m)
    BY MachineFields DEF Shaped, Fields
  <2>2. Put(m, s)
    BY <1>3 DEF Delayed
  <2> HIDE DEF s
  <2> QED
    BY <2>1, <2>2, PutKeeps
<1>4. ASSUME HostSm, NEW k \in SMs PROVE Same(sm'[k], k)
  <2>1. Place(sm'[k]) = Place(sm[k])
    BY <1>4, HostSmKeeps
  <2> QED
    BY <2>1 DEF Place
<1> QED
  BY <1>1, <1>2, <1>3, <1>4
  DEF FinishStep, Skip, vars, HostCall, HostIrq, HostPins, HostConfig, HostExec, Looped

\* The machines stay in their loops.
LEMMA NextLoops ==
  ASSUME TypeOK, Looped, NEW setup \in Setups, Looping(setup), Next
  PROVE  Looping(setup)'
<1>1. ASSUME NEW m \in SMs, Step(m) PROVE Looping(setup)'
  <2> DEFINE i == At(setup, m, sm[m].pc)
  <2>1. /\ Execute(m, i, TRUE) /\ KeepsTo(i, Loop(setup, m))
        /\ Following(m, sm[m].pc) \in Loop(setup, m)
    BY <1>1, LoopFollows
  <2> HIDE DEF i
  <2>2. sm[m].pc \in Loop(setup, m) /\ ~sm[m].exec_pending
    BY DEF Looping
  <2>3. sm'[m].pc \in Loop(setup, m) /\ ~sm'[m].exec_pending
    BY <2>1, <2>2, KeepsToThem
  <2>4. \A k \in SMs : k # m => sm'[k] = sm[k]
    BY <2>1, ExecuteOthers
  <2>5. \A k \in SMs : sm'[k].pc \in Loop(setup, k) /\ ~sm'[k].exec_pending
    BY <2>3, <2>4 DEF Looping
  <2>6. instr' = instr /\ reg' = reg
    BY <1>1 DEF Step
  <2> QED
    BY <2>5, <2>6 DEF Looping
<1>2. ASSUME ~(\E m \in SMs : Step(m)) PROVE Looping(setup)'
  <2>1. /\ instr' = instr /\ reg' = reg
        /\ \A k \in SMs : /\ sm'[k].pc = sm[k].pc
                          /\ sm'[k].exec_pending = sm[k].exec_pending
    BY <1>2, IdleKeeps DEF Next, Cycle
  <2> QED
    BY <2>1 DEF Looping
<1> QED
  BY <1>1, <1>2

\* A host that does not name a flag does not change it.
LEMMA HostLeaves ==
  ASSUME TypeOK, Looped, HostCall, NEW t \in Blocks \X Nat, t \notin Host.irqs
  PROVE  SameFlag(t)
<1>1. CASE irq' = irq
  BY <1>1 DEF SameFlag, Flagged, Clearing, Setting
<1>2. ASSUME NEW u \in Host.irqs, SetBlockIrq(u[1], u[2]) \/ ClearBlockIrq(u[1], u[2])
      PROVE  SameFlag(t)
  <2>1. u \in Blocks \X IrqNums /\ u # t
    BY ExecAssumption DEF HostCalls
  <2>2. irq[t[1]] \in IrqState /\ irq \in [Blocks -> IrqState]
    BY DEF TypeOK
  <2>3. t[1] # u[1] \/ t[2] # u[2]
    BY <2>1
  <2> QED
    BY <1>2, <2>1, <2>2, <2>3
    DEF SetBlockIrq, ClearBlockIrq, SameFlag, Flagged, Clearing, Setting, IrqState
<1> QED
  BY <1>1, <1>2
  DEF HostCall, HostSm, HostIrq, HostPins, HostConfig, HostExec, Looped

-----------------------------------------------------------------------------
(* Rings *)

\* Nothing is set that is up already, and what is to be cleared has been taken in
\* this very cycle.
Orderly(n) ==
  \A b \in Blocks :
    /\ Setting(<<b, n>>) => ~Flagged(<<b, n>>)
    /\ Clearing(<<b, n>>) => Holds(<<b, n>>) /\ Past(<<b, n>>)

\* The token is in block b and nowhere else, in a flag or in hand
TokenIn(n, b) ==
  \A c \in Blocks :
    /\ Raised(<<c, n>>) => c = b
    /\ Holds(<<c, n>>) => c = b
    /\ c = b => (Raised(<<c, n>>) <=> ~Holds(<<c, n>>))

RingInv(setup, n) ==
  Looping(setup) /\ Orderly(n) /\ \E b \in Blocks : TokenIn(n, b)

\* The addresses of a loop beyond its bottom: every one is followed by another or,
\* at the top, by the bottom.
LEMMA RingWraps ==
  ASSUME NEW bottom \in 0 .. 31, NEW top \in 0 .. 31, bottom < top,
         NEW pc \in bottom .. top
  PROVE  LET next == IF pc = top THEN bottom ELSE pc + 1
             hand == bottom + 1 .. top
         IN  /\ bottom \notin hand
             /\ pc = bottom => next \in hand
             /\ pc = top => next = bottom /\ pc \in hand
             /\ \/ pc = bottom
                \/ pc = top
                \/ pc \in bottom + 1 .. top - 1 /\ pc \in hand /\ next \in hand
<1>1. CASE pc = bottom
  BY <1>1
<1>2. CASE pc = top
  BY <1>2
<1>3. CASE pc # bottom /\ pc # top
  BY <1>3
<1> QED
  BY <1>1, <1>2, <1>3

\* A machine of a ring has the token beyond the bottom, up to the top, where it
\* goes back.
LEMMA RingFollows ==
  ASSUME TypeOK, Looped, NEW setup \in Setups, NEW n, IsRing(setup, n),
         Looping(setup), NEW m \in SMs, m[2] = n
  PROVE  LET bottom == setup.config[m].wrap_bottom
             top == setup.config[m].wrap_top
             pc == sm[m].pc
         IN  /\ reg[m].wrap_bottom = bottom /\ bottom \notin InHand(setup, m)
             /\ pc = bottom => Following(m, pc) \in InHand(setup, m)
             /\ pc = top => Following(m, pc) = bottom /\ pc \in InHand(setup, m)
             /\ \/ pc = bottom
                \/ pc = top
                \/ /\ pc \in bottom + 1 .. top - 1
                   /\ pc \in InHand(setup, m)
                   /\ Following(m, pc) \in InHand(setup, m)
<1> DEFINE bottom == setup.config[m].wrap_bottom
           top == setup.config[m].wrap_top
           pc == sm[m].pc
<1>1. reg[m] = setup.config[m] /\ bottom \in 0 .. 31 /\ top \in 0 .. 31
  BY MachineTyped DEF Looping, Reg
<1>2. pc \in bottom .. top
  BY DEF Looping, Loop
<1>3. Following(m, pc) = IF pc = top THEN bottom ELSE pc + 1
  BY <1>1, <1>2 DEF Following
<1>4. bottom < top
  BY DEF IsRing, Relays
<1>5. InHand(setup, m) = bottom + 1 .. top
  BY DEF InHand
<1>6. reg[m].wrap_bottom = bottom
  BY <1>1
<1> HIDE DEF bottom, top, pc
<1>7. /\ bottom \notin InHand(setup, m)
      /\ pc = bottom => Following(m, pc) \in InHand(setup, m)
      /\ pc = top => Following(m, pc) = bottom /\ pc \in InHand(setup, m)
      /\ \/ pc = bottom
         \/ pc = top
         \/ /\ pc \in bottom + 1 .. top - 1
            /\ pc \in InHand(setup, m)
            /\ Following(m, pc) \in InHand(setup, m)
  <2> DEFINE next == IF pc = top THEN bottom ELSE pc + 1
             hand == bottom + 1 .. top
  <2>1. /\ bottom \notin hand
        /\ pc = bottom => next \in hand
        /\ pc = top => next = bottom /\ pc \in hand
        /\ \/ pc = bottom
           \/ pc = top
           \/ pc \in bottom + 1 .. top - 1 /\ pc \in hand /\ next \in hand
    <3>1. bottom \in 0 .. 31 /\ top \in 0 .. 31 /\ pc \in bottom .. top /\ bottom < top
      BY <1>1, <1>2, <1>4
    <3> QED
      BY <3>1, RingWraps
  <2>2. Following(m, pc) = next /\ InHand(setup, m) = hand
    BY <1>3, <1>5
  <2> HIDE DEF next, hand
  <2> QED
    BY <2>1, <2>2, Zenon
<1> QED
  BY <1>6, <1>7 DEF bottom, top, pc

\* What leaves the flags, and the hands of the ring's machines, as they are leaves
\* the token where it is.
LEMMA SameKeeps ==
  ASSUME NEW n,
         \A b \in Blocks :
           /\ SameFlag(<<b, n>>)
           /\ Holds(<<b, n>>)' <=> Holds(<<b, n>>)
           /\ Past(<<b, n>>) => Past(<<b, n>>)'
  PROVE  /\ Orderly(n) => Orderly(n)'
         /\ \A b \in Blocks : TokenIn(n, b) => TokenIn(n, b)'
<1>1. \A b \in Blocks : Raised(<<b, n>>)' <=> Raised(<<b, n>>)
  BY RaisedIs, RaisedNext DEF SameFlag
<1>2. Orderly(n) => Orderly(n)'
  BY DEF Orderly, SameFlag
<1>3. \A b \in Blocks : TokenIn(n, b) => TokenIn(n, b)'
  BY <1>1 DEF TokenIn
<1> QED
  BY <1>2, <1>3

\* A machine that is not of the ring, or has the token and keeps it, leaves the
\* flags of the ring alone.
LEMMA StepApart ==
  ASSUME TypeOK, Looped, NEW setup \in Setups, NEW n \in SmNums,
         IsRing(setup, n), Looping(setup), NEW m \in SMs, Step(m),
         \/ m[2] # n
         \/ /\ m[2] = n
            /\ sm[m].pc \in setup.config[m].wrap_bottom + 1 ..
                              setup.config[m].wrap_top - 1
            /\ sm[m].pc \in InHand(setup, m)
            /\ Following(m, sm[m].pc) \in InHand(setup, m)
  PROVE  /\ m[2] = n => (Holds(m)' <=> Holds(m))
         /\ \A b \in Blocks : SameFlag(<<b, n>>)
<1> DEFINE i == At(setup, m, sm[m].pc)
<1>1. Execute(m, i, TRUE) /\ i \in Instr
  BY LoopFollows
<1>2. sm[m].pc \in Loop(setup, m) /\ ~sm[m].exec_pending
  BY DEF Looping
<1>3. reg' = reg
  BY DEF Step
<1>4. ASSUME LeavesFlag(m, i, n), NEW b \in Blocks PROVE SameFlag(<<b, n>>)
  <2>1. <<b, n>> \notin Requests(m, i)
    BY <1>4 DEF LeavesFlag
  <2>2. <<b, n>> \in Blocks \X Nat
    BY DEF SmNums
  <2> QED
    BY <1>1, <2>1, <2>2, RequestsAreKept
<1>5. CASE m[2] # n
  <2>1. LeavesFlag(m, i, n)
    BY <1>2, <1>5 DEF IsRing
  <2> QED
    BY <1>4, <1>5, <2>1
<1>6. CASE /\ m[2] = n
           /\ sm[m].pc \in setup.config[m].wrap_bottom + 1 ..
                             setup.config[m].wrap_top - 1
           /\ sm[m].pc \in InHand(setup, m)
           /\ Following(m, sm[m].pc) \in InHand(setup, m)
  <2>1. KeepsTo(i, InHand(setup, m)) /\ LeavesFlag(m, i, n)
    BY <1>6 DEF IsRing, Relays
  <2> HIDE DEF i
  <2>2. sm'[m].pc \in InHand(setup, m)
    BY <1>1, <1>2, <1>6, <2>1, KeepsToThem
  <2>3. reg[m].wrap_bottom \notin InHand(setup, m)
    BY <1>6, RingFollows
  <2>4. Holds(m) /\ Holds(m)'
    BY <1>3, <1>6, <2>2, <2>3 DEF Holds
  <2> QED
    BY <1>4, <2>1, <2>4
<1> QED
  BY <1>5, <1>6

\* A step of one machine leaves what the others hold.
LEMMA StepHands ==
  ASSUME TypeOK, NEW m \in SMs, Step(m), NEW n \in SmNums
  PROVE  \A c \in Blocks : <<c, n>> # m => (Holds(<<c, n>>)' <=> Holds(<<c, n>>))
<1> SUFFICES ASSUME NEW c \in Blocks, <<c, n>> # m
             PROVE  Holds(<<c, n>>)' <=> Holds(<<c, n>>)
  OBVIOUS
<1>1. <<c, n>> \in SMs
  BY DEF SMs
<1>2. sm'[<<c, n>>] = sm[<<c, n>>] /\ reg' = reg
  BY <1>1, ExecuteOthers DEF Step
<1> QED
  BY <1>2 DEF Holds

\* A machine of the ring at the bottom finds no flag and stays, or takes the token.
LEMMA StepTakes ==
  ASSUME TypeOK, Looped, NEW setup \in Setups, NEW n \in SmNums,
         IsRing(setup, n), Looping(setup), NEW m \in SMs, m[2] = n, Step(m),
         sm[m].pc = setup.config[m].wrap_bottom
  PROVE  /\ ~Holds(m)
         /\ \/ ~Holds(m)' /\ \A c \in Blocks : SameFlag(<<c, n>>)
            \/ /\ Holds(m)' /\ Flagged(m)
               /\ \A c \in Blocks :
                    LET t == <<c, n>>
                    IN  /\ Flagged(t)' <=> Flagged(t)
                        /\ Clearing(t)' <=> Clearing(t) \/ t = m
                        /\ Setting(t)' <=> Setting(t)
<1> DEFINE i == At(setup, m, sm[m].pc)
<1>1. Execute(m, i, TRUE) /\ i \in Instr
  BY LoopFollows
<1>2. Takes(m, i, m)
  BY DEF IsRing, Relays
<1> HIDE DEF i
<1>3. reg' = reg /\ reg[m].wrap_bottom = sm[m].pc
  BY RingFollows DEF Step
<1>4. Following(m, sm[m].pc) # sm[m].pc
  BY RingFollows
<1>5. ~Holds(m)
  BY <1>3 DEF Holds
<1>6. m \in Blocks \X IrqNums /\ m[1] \in Blocks
  <2>1. IrqTarget(m[1], m[2], i.index) = m /\ i.index \in Indexes
    BY <1>1, <1>2, InstrFields DEF Takes, Requests, WaitInstr
  <2> QED
    BY <2>1, SmTyped, IrqTargetTyped
<1>7. CASE irq' = irq /\ sm'[m].pc = sm[m].pc
  <2>1. ~Holds(m)'
    BY <1>3, <1>7 DEF Holds
  <2>2. \A c \in Blocks : SameFlag(<<c, n>>)
    BY <1>7 DEF SameFlag, Flagged, Clearing, Setting
  <2> QED
    BY <1>5, <2>1, <2>2
<1>8. CASE /\ Flagged(m) /\ RequestClear(m)
           /\ sm'[m].pc = Following(m, sm[m].pc)
  <2>1. Holds(m)'
    BY <1>3, <1>4, <1>8 DEF Holds
  <2>2. ASSUME NEW c \in Blocks
        PROVE  LET t == <<c, n>>
               IN  /\ Flagged(t)' <=> Flagged(t)
                   /\ Clearing(t)' <=> Clearing(t) \/ t = m
                   /\ Setting(t)' <=> Setting(t)
    <3>1. <<c, n>> \in Blocks \X IrqNums
      BY <1>6
    <3> QED
      BY <1>6, <1>8, <3>1, RequestsAre
  <2> QED
    BY <1>5, <1>8, <2>1, <2>2
<1> QED
  BY <1>1, <1>2, <1>7, <1>8, TakesFlag

\* A machine of the ring at the top passes the token.
LEMMA StepPasses ==
  ASSUME TypeOK, Looped, NEW setup \in Setups, NEW n \in SmNums,
         IsRing(setup, n), Looping(setup), NEW m \in SMs, m[2] = n, Step(m),
         sm[m].pc = setup.config[m].wrap_top
  PROVE  /\ Holds(m) /\ ~Holds(m)'
         /\ \E d \in Blocks : \A c \in Blocks :
              LET t == <<c, n>>
              IN  /\ Flagged(t)' <=> Flagged(t)
                  /\ Clearing(t)' <=> Clearing(t)
                  /\ Setting(t)' <=> Setting(t) \/ c = d
<1> DEFINE i == At(setup, m, sm[m].pc)
<1>1. Execute(m, i, TRUE) /\ i \in Instr
  BY LoopFollows
<1>2. Passes(m, i)
  BY DEF IsRing, Relays
<1> HIDE DEF i
<1>3. /\ reg' = reg /\ reg[m].wrap_bottom # sm[m].pc
      /\ Following(m, sm[m].pc) = reg[m].wrap_bottom
  BY RingFollows DEF Step
<1>4. /\ sm'[m].pc = Following(m, sm[m].pc)
      /\ \E d \in Blocks : RequestSet(<<d, n>>) /\ n \in IrqNums
  BY <1>1, <1>2, PassesToken
<1>5. Holds(m) /\ ~Holds(m)'
  BY <1>3, <1>4 DEF Holds
<1>6. PICK d \in Blocks : RequestSet(<<d, n>>) /\ n \in IrqNums
  BY <1>4
<1>7. ASSUME NEW c \in Blocks
      PROVE  LET t == <<c, n>>
             IN  /\ Flagged(t)' <=> Flagged(t)
                 /\ Clearing(t)' <=> Clearing(t)
                 /\ Setting(t)' <=> Setting(t) \/ c = d
  <2>1. <<c, n>> \in Blocks \X IrqNums /\ <<d, n>> \in Blocks \X IrqNums
    BY <1>6
  <2>2. <<c, n>> = <<d, n>> <=> c = d
    OBVIOUS
  <2> QED
    BY <1>6, <2>1, <2>2, RequestsAre
<1> QED
  BY <1>5, <1>7
\* Whatever a machine does, the ring goes on.
LEMMA StepRing ==
  ASSUME TypeOK, Looped, NEW setup \in Setups, NEW n \in SmNums,
         IsRing(setup, n), RingInv(setup, n), NEW m \in SMs, Step(m)
  PROVE  Orderly(n)' /\ \E b \in Blocks : TokenIn(n, b)'
<1>1. Looping(setup) /\ Orderly(n) /\ \E b \in Blocks : TokenIn(n, b)
  BY DEF RingInv
<1>2. ~Past(m) /\ Past(m)' /\ \A k \in SMs : Past(k) => Past(k)'
  BY TurnPasses DEF Step
<1>3. \A b \in Blocks : <<b, n>> \in SMs
  BY DEF SMs
<1>4. \A b \in Blocks : Past(<<b, n>>) => Past(<<b, n>>)'
  BY <1>2, <1>3
<1>5. \A b \in Blocks : <<b, n>> # m => (Holds(<<b, n>>)' <=> Holds(<<b, n>>))
  BY StepHands
<1>6. ASSUME /\ m[2] = n => (Holds(m)' <=> Holds(m))
             /\ \A b \in Blocks : SameFlag(<<b, n>>)
      PROVE  Orderly(n)' /\ \E b \in Blocks : TokenIn(n, b)'
  <2>1. \A b \in Blocks : Holds(<<b, n>>)' <=> Holds(<<b, n>>)
    BY <1>5, <1>6
  <2>2. /\ Orderly(n) => Orderly(n)'
        /\ \A b \in Blocks : TokenIn(n, b) => TokenIn(n, b)'
    BY <1>4, <1>6, <2>1, SameKeeps
  <2> QED
    BY <1>1, <2>2
<1>7. ASSUME m[2] = n, sm[m].pc = setup.config[m].wrap_bottom
      PROVE  Orderly(n)' /\ \E b \in Blocks : TokenIn(n, b)'
  <2>1. /\ ~Holds(m)
        /\ \/ ~Holds(m)' /\ \A c \in Blocks : SameFlag(<<c, n>>)
           \/ /\ Holds(m)' /\ Flagged(m)
              /\ \A c \in Blocks :
                   LET t == <<c, n>>
                   IN  /\ Flagged(t)' <=> Flagged(t)
                       /\ Clearing(t)' <=> Clearing(t) \/ t = m
                       /\ Setting(t)' <=> Setting(t)
    BY <1>1, <1>7, StepTakes
  <2>2. CASE ~Holds(m)' /\ \A c \in Blocks : SameFlag(<<c, n>>)
    BY <1>6, <2>1, <2>2
  <2>3. CASE /\ Holds(m)' /\ Flagged(m)
             /\ \A c \in Blocks :
                  LET t == <<c, n>>
                  IN  /\ Flagged(t)' <=> Flagged(t)
                      /\ Clearing(t)' <=> Clearing(t) \/ t = m
                      /\ Setting(t)' <=> Setting(t)
    <3>1. m[1] \in Blocks /\ m = <<m[1], n>>
      BY <1>7, SmTyped
    <3>2. ~Clearing(m) /\ ~Setting(m) /\ Raised(m)
      BY <1>1, <2>1, <2>3, <3>1, RaisedIs DEF Orderly
    <3>3. TokenIn(n, m[1])
      BY <1>1, <3>1, <3>2 DEF TokenIn
    <3>4. \A c \in Blocks : c # m[1] => <<c, n>> # m
      BY <3>1
    <3>5. \A c \in Blocks : c # m[1] =>
            ~Raised(<<c, n>>) /\ ~Holds(<<c, n>>) /\ ~Clearing(<<c, n>>)
      BY <1>1, <3>3 DEF TokenIn, Orderly
    <3>6. \A c \in Blocks : c # m[1] => ~Holds(<<c, n>>)'
      BY <1>5, <3>4, <3>5
    <3>7. \A c \in Blocks : ~Raised(<<c, n>>)'
      <4>1. ~Raised(<<m[1], n>>)'
        BY <2>3, <3>1, <3>2, RaisedNext
      <4>2. ASSUME NEW c \in Blocks, c # m[1] PROVE ~Raised(<<c, n>>)'
        BY <2>3, <3>4, <3>5, <4>2, RaisedIs, RaisedNext
      <4> QED
        BY <4>1, <4>2
    <3>8. TokenIn(n, m[1])'
      BY <2>3, <3>1, <3>6, <3>7 DEF TokenIn
    <3>9. Orderly(n)'
      BY <1>1, <1>2, <2>3, <3>1, <3>2, <3>4, <3>5 DEF Orderly
    <3> QED
      BY <3>1, <3>8, <3>9
  <2> QED
    BY <2>1, <2>2, <2>3
<1>8. ASSUME m[2] = n, sm[m].pc = setup.config[m].wrap_top
      PROVE  Orderly(n)' /\ \E b \in Blocks : TokenIn(n, b)'
  <2>1. /\ Holds(m) /\ ~Holds(m)'
        /\ \E d \in Blocks : \A c \in Blocks :
             LET t == <<c, n>>
             IN  /\ Flagged(t)' <=> Flagged(t)
                 /\ Clearing(t)' <=> Clearing(t)
                 /\ Setting(t)' <=> Setting(t) \/ c = d
    BY <1>1, <1>8, StepPasses
  <2>2. PICK d \in Blocks : \A c \in Blocks :
          LET t == <<c, n>>
          IN  /\ Flagged(t)' <=> Flagged(t)
              /\ Clearing(t)' <=> Clearing(t)
              /\ Setting(t)' <=> Setting(t) \/ c = d
    BY <2>1
  <2>3. m[1] \in Blocks /\ m = <<m[1], n>>
    BY <1>8, SmTyped
  <2>4. PICK b \in Blocks : TokenIn(n, b)
    BY <1>1
  <2>5. m[1] = b
    BY <2>1, <2>3, <2>4 DEF TokenIn
  <2>6. \A c \in Blocks : ~Raised(<<c, n>>)
    BY <2>1, <2>3, <2>4, <2>5 DEF TokenIn
  <2>7. \A c \in Blocks : c # b => ~Holds(<<c, n>>)
    BY <2>4 DEF TokenIn
  <2>8. \A c \in Blocks : ~Clearing(<<c, n>>)
    BY <1>1, <1>2, <2>3, <2>5, <2>7 DEF Orderly
  <2>9. \A c \in Blocks : ~Flagged(<<c, n>>) /\ ~Setting(<<c, n>>)
    BY <2>6, <2>8, RaisedIs
  <2>10. \A c \in Blocks : Raised(<<c, n>>)' <=> c = d
    BY <2>2, <2>8, <2>9, RaisedNext
  <2>11. \A c \in Blocks : ~Holds(<<c, n>>)'
    BY <1>5, <2>1, <2>3, <2>5, <2>7
  <2>12. TokenIn(n, d)'
    BY <2>10, <2>11 DEF TokenIn
  <2>13. Orderly(n)'
    BY <2>2, <2>8, <2>9 DEF Orderly
  <2> QED
    BY <2>12, <2>13
<1>9. CASE m[2] # n
  <2>1. /\ m[2] = n => (Holds(m)' <=> Holds(m))
        /\ \A b \in Blocks : SameFlag(<<b, n>>)
    BY <1>1, <1>9, StepApart
  <2> QED
    BY <1>6, <2>1
<1>10. CASE m[2] = n
  <2>1. \/ sm[m].pc = setup.config[m].wrap_bottom
        \/ sm[m].pc = setup.config[m].wrap_top
        \/ /\ sm[m].pc \in setup.config[m].wrap_bottom + 1 ..
                             setup.config[m].wrap_top - 1
           /\ sm[m].pc \in InHand(setup, m)
           /\ Following(m, sm[m].pc) \in InHand(setup, m)
    BY <1>1, <1>10, RingFollows
  <2>2. CASE /\ sm[m].pc \in setup.config[m].wrap_bottom + 1 ..
                               setup.config[m].wrap_top - 1
             /\ sm[m].pc \in InHand(setup, m)
             /\ Following(m, sm[m].pc) \in InHand(setup, m)
    <3>1. /\ m[2] = n => (Holds(m)' <=> Holds(m))
          /\ \A b \in Blocks : SameFlag(<<b, n>>)
      BY <1>1, <1>10, <2>2, StepApart
    <3> QED
      BY <1>6, <3>1
  <2> QED
    BY <1>7, <1>8, <1>10, <2>1, <2>2
<1> QED
  BY <1>9, <1>10

\* Nor does anything else in the cycle stop it, or a host that lets its flags be.
LEMMA NextRing ==
  ASSUME TypeOK, Looped, NEW setup \in Setups, NEW n \in SmNums,
         IsRing(setup, n), RingInv(setup, n), Next
  PROVE  RingInv(setup, n)'
<1>1. Looping(setup) /\ Orderly(n) /\ \E b \in Blocks : TokenIn(n, b)
  BY DEF RingInv
<1>2. \A b \in Blocks : <<b, n>> \in SMs /\ <<b, n>> \in Blocks \X Nat
  BY DEF SMs, SmNums
<1>3. Looping(setup)'
  BY <1>1, NextLoops
<1>4. ASSUME FinishStep \/ HostCall \/ \E m \in SMs : Delayed(m) \/ Skip(m)
      PROVE  \A b \in Blocks : Holds(<<b, n>>)' <=> Holds(<<b, n>>)
  <2>1. reg' = reg /\ \A k \in SMs : sm'[k].pc = sm[k].pc
    BY <1>4, IdleKeeps
  <2> QED
    BY <1>2, <2>1 DEF Holds
<1>5. ASSUME \A b \in Blocks :
               /\ SameFlag(<<b, n>>)
               /\ Holds(<<b, n>>)' <=> Holds(<<b, n>>)
               /\ Past(<<b, n>>) => Past(<<b, n>>)'
      PROVE  RingInv(setup, n)'
  <2>1. /\ Orderly(n) => Orderly(n)'
        /\ \A b \in Blocks : TokenIn(n, b) => TokenIn(n, b)'
    BY <1>5, SameKeeps
  <2> QED
    BY <1>1, <1>3, <2>1 DEF RingInv
<1>6. ASSUME NEW m \in SMs, Delayed(m) \/ Skip(m) PROVE RingInv(setup, n)'
  <2>1. turn = m /\ turn' = NextTurn(m) /\ irq' = irq
    BY <1>6 DEF Delayed, Skip
  <2>2. \A b \in Blocks : Past(<<b, n>>) => Past(<<b, n>>)'
    BY <1>2, <2>1, TurnPasses
  <2>3. \A b \in Blocks : SameFlag(<<b, n>>)
    BY <2>1 DEF SameFlag, Flagged, Clearing, Setting
  <2> QED
    BY <1>4, <1>5, <1>6, <2>2, <2>3
<1>7. CASE FinishStep
  <2>1. ASSUME NEW b \in Blocks
        PROVE  /\ Flagged(<<b, n>>)' <=> Raised(<<b, n>>)
               /\ ~Clearing(<<b, n>>)' /\ ~Setting(<<b, n>>)'
    BY <1>7, FinishApplies
  <2>2. \A b \in Blocks : Raised(<<b, n>>)' <=> Raised(<<b, n>>)
    BY <2>1, RaisedNext
  <2>3. Orderly(n)'
    BY <2>1 DEF Orderly
  <2>4. \A b \in Blocks : Holds(<<b, n>>)' <=> Holds(<<b, n>>)
    BY <1>4, <1>7
  <2>5. ASSUME NEW b \in Blocks, TokenIn(n, b) PROVE TokenIn(n, b)'
    BY <2>2, <2>4, <2>5 DEF TokenIn
  <2> QED
    BY <1>1, <1>3, <2>3, <2>5 DEF RingInv
<1>8. CASE HostCall
  <2>1. \A b \in Blocks : Past(<<b, n>>)' <=> Past(<<b, n>>)
    BY <1>8 DEF HostCall, Past
  <2>2. \A b \in Blocks : <<b, n>> \notin Host.irqs
    BY DEF IsRing
  <2>3. \A b \in Blocks : SameFlag(<<b, n>>)
    BY <1>2, <1>8, <2>2, HostLeaves
  <2> QED
    BY <1>4, <1>5, <1>8, <2>1, <2>3
<1>9. CASE \E m \in SMs : Step(m)
  <2>1. Orderly(n)' /\ \E b \in Blocks : TokenIn(n, b)'
    BY <1>9, StepRing
  <2> QED
    BY <1>3, <2>1 DEF RingInv
<1> QED
  BY <1>6, <1>7, <1>8, <1>9 DEF Next, Cycle

\* What the invariant says in numbers.
LEMMA TokenCounts ==
  ASSUME NEW n, NEW b \in Blocks, TokenIn(n, b)
  PROVE  Cardinality({c \in Blocks : Raised(<<c, n>>)})
           + Cardinality({c \in Blocks : Holds(<<c, n>>)}) = 1
<1> DEFINE R == {c \in Blocks : Raised(<<c, n>>)}
           H == {c \in Blocks : Holds(<<c, n>>)}
<1>0. Cardinality({b}) = 1 /\ Cardinality({}) = 0
  BY FS_Singleton, FS_EmptySet
<1>1. CASE Raised(<<b, n>>)
  <2>1. R = {b} /\ H = {}
    BY <1>1 DEF TokenIn
  <2> HIDE DEF R, H
  <2>2. Cardinality(R) + Cardinality(H) = 1
    BY <1>0, <2>1
  <2> QED
    BY <2>2 DEF R, H
<1>2. CASE ~Raised(<<b, n>>)
  <2>1. R = {} /\ H = {b}
    BY <1>2 DEF TokenIn
  <2> HIDE DEF R, H
  <2>2. Cardinality(R) + Cardinality(H) = 1
    BY <1>0, <2>1
  <2> QED
    BY <2>2 DEF R, H
<1> QED
  BY <1>1, <1>2

\* From the start the machines run round their loops.
LEMMA InitLoops ==
  ASSUME Looped, NEW setup \in Setups, InitFrom(setup)
  PROVE  Looping(setup)
<1>1. \A m \in SMs : sm[m].pc = setup.start[m] /\ ~sm[m].exec_pending
  BY DEF InitFrom, SmReset
<1> QED
  BY <1>1 DEF Looped, Looping, InitFrom

\* Machines of any number of blocks that hand a token round by IRQ flags neither
\* lose it nor make two of it, in whichever directions they pass it, whatever they
\* do while they hold it, and whatever other programs run beside them.
THEOREM TokensAreKept == Looped => (Spec => []OneToken)
<1> DEFINE Inv == \A n \in SmNums : InRing(n) =>
                    \E setup \in Setups : IsRing(setup, n) /\ RingInv(setup, n)
<1> SUFFICES ASSUME Looped PROVE Spec => []OneToken
  OBVIOUS
<1>1. Init => Inv
  <2> SUFFICES ASSUME NEW setup \in Setups, InitFrom(setup), NEW n \in SmNums, InRing(n)
               PROVE  IsRing(setup, n) /\ RingInv(setup, n)
    BY DEF Init
  <2>1. Looping(setup)
    BY InitLoops
  <2>2. IsRing(setup, n)
    BY <2>1 DEF Looping, InRing
  <2>3. \A m \in SMs : sm[m].pc = setup.start[m]
    BY DEF InitFrom, SmReset
  <2>4. ASSUME NEW b \in Blocks
        PROVE  /\ ~Flagged(<<b, n>>) /\ ~Clearing(<<b, n>>) /\ ~Setting(<<b, n>>)
               /\ ~Raised(<<b, n>>)
    BY DEF InitFrom, IrqInit, Flagged, Clearing, Setting, Raised
  <2>5. Orderly(n)
    BY <2>4 DEF Orderly
  <2>6. PICK b \in Blocks : \A c \in Blocks :
          setup.start[<<c, n>>] \in InHand(setup, <<c, n>>) <=> c = b
    BY <2>2 DEF IsRing
  <2>7. \A c \in Blocks : Holds(<<c, n>>) <=> c = b
    <3> TAKE c \in Blocks
    <3>1. <<c, n>> \in SMs
      BY DEF SMs
    <3>2. setup.start[<<c, n>>] \in Loop(setup, <<c, n>>)
      BY <3>1 DEF Looped
    <3>3. reg[<<c, n>>] = setup.config[<<c, n>>] /\ setup.config[<<c, n>>] \in Reg
      BY <2>1, <3>1, ExecAssumption DEF Setup, Looping
    <3>4. Holds(<<c, n>>) <=> setup.start[<<c, n>>] \in InHand(setup, <<c, n>>)
      BY <2>3, <3>1, <3>2, <3>3 DEF Holds, Loop, InHand, Reg
    <3> QED
      BY <2>6, <3>4
  <2>8. TokenIn(n, b)
    BY <2>4, <2>7 DEF TokenIn
  <2> QED
    BY <2>1, <2>2, <2>5, <2>8 DEF RingInv
<1>2. TypeOK /\ Inv /\ [Next]_vars => Inv'
  <2>1. ASSUME TypeOK, Inv, Next PROVE Inv'
    <3> SUFFICES ASSUME NEW n \in SmNums, InRing(n)'
                 PROVE  \E setup \in Setups : IsRing(setup, n) /\ RingInv(setup, n)'
      OBVIOUS
    <3>1. instr' = instr /\ reg' = reg
      BY <2>1, IdleKeeps DEF Next, Cycle, Step
    <3>2. InRing(n)
      BY <3>1 DEF InRing
    <3>3. PICK setup \in Setups : IsRing(setup, n) /\ RingInv(setup, n)
      BY <2>1, <3>2
    <3>4. RingInv(setup, n)'
      BY <2>1, <3>3, NextRing
    <3> QED
      BY <3>3, <3>4
  <2>2. ASSUME Inv, UNCHANGED vars PROVE Inv'
    <3>1. ASSUME NEW setup, NEW n, RingInv(setup, n) PROVE RingInv(setup, n)'
      BY <2>2, <3>1
      DEF vars, RingInv, Looping, Orderly, TokenIn, Raised, Holds, Past, Flagged,
          Clearing, Setting
    <3>2. ASSUME NEW n PROVE InRing(n)' <=> InRing(n)
      BY <2>2 DEF vars, InRing
    <3> QED
      BY <2>2, <3>1, <3>2
  <2> QED
    BY <2>1, <2>2
<1>3. Inv => OneToken
  BY TokenCounts DEF RingInv, OneToken
<1> QED
  BY <1>1, <1>2, <1>3, TypeCorrect, PTL DEF Spec
-----------------------------------------------------------------------------
(* Handshakes *)

\* Producer p has raised flag t and waits until it is taken
Waiting(setup, p, t) == sm[p].stalled /\ Offers(p, At(setup, p, sm[p].pc), t)

\* The flag is up, or to be raised, only while its producer waits, and never both;
\* and it is to be cleared only when its consumer has seen it in this very cycle.
HandInv(setup, p, c, t) ==
  /\ Flagged(t) => Waiting(setup, p, t)
  /\ Setting(t) => ~Flagged(t) /\ Waiting(setup, p, t) /\ Past(p)
  /\ Clearing(t) => Flagged(t) /\ Past(c)

\* What HandedOver says of one handshake
Deals(p, c, t) ==
  /\ Offered(p, t) => ~Raised(t) /\ Raised(t)'
  /\ Taken(c, t) => Raised(t) /\ ~Raised(t)'
  /\ Released(p, t) => ~Raised(t)
  /\ Raised(t)' # Raised(t) => Offered(p, t) \/ Taken(c, t)

\* The producer at its offer raises the flag when it is down, and waits.
LEMMA ProducerDeals ==
  ASSUME TypeOK, Looped, NEW setup \in Setups, Looping(setup),
         NEW p \in SMs, NEW c \in SMs, NEW t \in Blocks \X IrqNums,
         p # c, HandInv(setup, p, c, t), Step(p),
         Offers(p, At(setup, p, sm[p].pc), t)
  PROVE  HandInv(setup, p, c, t)' /\ Deals(p, c, t)
<1> DEFINE i == At(setup, p, sm[p].pc)
<1>1. Current(p) = {i} /\ i \in Instr /\ Execute(p, i, TRUE)
  BY LoopFollows
<1>2. ~Past(p) /\ Past(p)' /\ \A k \in SMs : Past(k) => Past(k)'
  BY TurnPasses DEF Step
<1>3. ~Taken(c, t)
  BY DEF Taken, Executes, Step
<1>4. Executes(p)
  BY SmTyped DEF Executes, Step, NextTurn, SMs, SmNums, Blocks
<1>5. Offered(p, t) <=> ~sm[p].stalled
  BY <1>1, <1>4 DEF Offered
<1>6. Released(p, t) => ~sm'[p].stalled
  BY DEF Released
<1>7. sm'[p].pc = sm[p].pc => At(setup, p, sm'[p].pc) = i
  OBVIOUS
<1>8. \/ /\ ~sm[p].stalled /\ RequestSet(t)
         /\ sm'[p].pc = sm[p].pc /\ sm'[p].stalled
      \/ /\ sm[p].stalled /\ Flagged(t) /\ irq' = irq
         /\ sm'[p].pc = sm[p].pc /\ sm'[p].stalled
      \/ /\ sm[p].stalled /\ ~Flagged(t) /\ irq' = irq
         /\ ~sm'[p].stalled
  BY <1>1, OffersItem
<1> HIDE DEF i
<1>9. Offers(p, i, t)
  BY DEF i
<1>10. ~Setting(t)
  BY <1>2 DEF HandInv
<1>11. CASE /\ ~sm[p].stalled /\ RequestSet(t)
            /\ sm'[p].pc = sm[p].pc /\ sm'[p].stalled
  <2>1. ~Flagged(t) /\ ~Clearing(t)
    BY <1>11 DEF HandInv, Waiting
  <2>2. ~Flagged(t)' /\ ~Clearing(t)' /\ Setting(t)'
    BY <1>11, <2>1, RequestsAre
  <2>3. Waiting(setup, p, t)'
    BY <1>7, <1>9, <1>11 DEF Waiting
  <2>4. ~Raised(t) /\ Raised(t)'
    BY <1>10, <2>1, <2>2, RaisedIs, RaisedNext
  <2>5. Deals(p, c, t)
    BY <1>3, <1>5, <1>6, <1>11, <2>4 DEF Deals
  <2> QED
    BY <1>2, <2>2, <2>3, <2>5 DEF HandInv
<1>12. CASE sm[p].stalled /\ irq' = irq
  <2>1. SameFlag(t) /\ ~Setting(t)'
    BY <1>10, <1>12 DEF SameFlag, Flagged, Clearing, Setting
  <2>2. Raised(t)' <=> Raised(t)
    BY <2>1, RaisedIs, RaisedNext DEF SameFlag
  <2>3. Flagged(t) => Waiting(setup, p, t)'
    BY <1>7, <1>8, <1>9, <1>12 DEF Waiting
  <2>4. Released(p, t) => ~Raised(t)
    BY <1>6, <1>8, <1>10, <1>12, RaisedIs
  <2>5. Deals(p, c, t)
    BY <1>3, <1>5, <1>12, <2>2, <2>4 DEF Deals, Raised
  <2> QED
    BY <1>2, <2>1, <2>3, <2>5 DEF HandInv, SameFlag
<1> QED
  BY <1>8, <1>11, <1>12

\* The consumer at its wait takes the flag when it is up.
LEMMA ConsumerDeals ==
  ASSUME TypeOK, Looped, NEW setup \in Setups, Looping(setup),
         NEW p \in SMs, NEW c \in SMs, NEW t \in Blocks \X IrqNums,
         p # c, HandInv(setup, p, c, t), Step(c),
         Takes(c, At(setup, c, sm[c].pc), t)
  PROVE  HandInv(setup, p, c, t)' /\ Deals(p, c, t)
<1> DEFINE i == At(setup, c, sm[c].pc)
<1>1. Current(c) = {i} /\ i \in Instr /\ Execute(c, i, TRUE)
  BY LoopFollows
<1>2. ~Past(c) /\ Past(c)' /\ \A k \in SMs : Past(k) => Past(k)'
  BY TurnPasses DEF Step
<1>3. ~Offered(p, t) /\ ~Released(p, t)
  BY DEF Offered, Released, Executes, Step
<1>4. Executes(c)
  BY SmTyped DEF Executes, Step, NextTurn, SMs, SmNums, Blocks
<1>5. Taken(c, t) <=> ~sm'[c].stalled
  BY <1>1, <1>4 DEF Taken
<1>6. \/ irq' = irq /\ sm'[c].pc = sm[c].pc /\ sm'[c].stalled
      \/ /\ Flagged(t) /\ RequestClear(t)
         /\ sm'[c].pc = Following(c, sm[c].pc) /\ ~sm'[c].stalled
  BY <1>1, TakesFlag
<1> HIDE DEF i
<1>7. sm'[p] = sm[p]
  BY <1>1, ExecuteOthers
<1>8. Waiting(setup, p, t) => Waiting(setup, p, t)'
  BY <1>7 DEF Waiting
<1>9. ~Clearing(t)
  BY <1>2 DEF HandInv
<1>10. CASE irq' = irq /\ sm'[c].stalled
  <2>1. SameFlag(t)
    BY <1>10 DEF SameFlag, Flagged, Clearing, Setting
  <2>2. Raised(t)' <=> Raised(t)
    BY <2>1, RaisedIs, RaisedNext DEF SameFlag
  <2>3. Deals(p, c, t)
    BY <1>3, <1>5, <1>10, <2>2 DEF Deals, Raised
  <2> QED
    BY <1>2, <1>8, <2>1, <2>3 DEF HandInv, SameFlag
<1>11. CASE Flagged(t) /\ RequestClear(t) /\ ~sm'[c].stalled
  <2>1. Flagged(t)' /\ Clearing(t)' /\ (Setting(t)' <=> Setting(t))
    BY <1>11, RequestsAre
  <2>2. ~Setting(t)
    BY <1>11 DEF HandInv
  <2>3. Raised(t) /\ ~Raised(t)'
    BY <1>9, <1>11, <2>1, <2>2, RaisedIs, RaisedNext
  <2>4. Deals(p, c, t)
    BY <1>3, <1>5, <1>11, <2>3 DEF Deals
  <2> QED
    BY <1>2, <1>8, <1>11, <2>1, <2>2, <2>4 DEF HandInv
<1> QED
  BY <1>6, <1>10, <1>11

\* A step of a machine that neither offers nor takes leaves the handshake alone: when
\* it is the producer, nothing is on offer.
LEMMA OtherDeals ==
  ASSUME TypeOK, Looped, NEW setup \in Setups, Looping(setup),
         NEW p \in SMs, NEW c \in SMs, NEW t \in Blocks \X IrqNums,
         HandInv(setup, p, c, t), NEW m \in SMs, Step(m),
         ~(m = p /\ Offers(m, At(setup, m, sm[m].pc), t)),
         ~(m = c /\ Takes(m, At(setup, m, sm[m].pc), t)),
         t \notin Requests(m, At(setup, m, sm[m].pc))
  PROVE  HandInv(setup, p, c, t)' /\ Deals(p, c, t)
<1> DEFINE i == At(setup, m, sm[m].pc)
<1>1. Current(m) = {i} /\ i \in Instr /\ Execute(m, i, TRUE)
  BY LoopFollows
<1>2. \A k \in SMs : Past(k) => Past(k)'
  BY TurnPasses DEF Step
<1>3. t \in Blocks \X Nat
  BY DEF IrqNums
<1>4. SameFlag(t)
  BY <1>1, <1>3, RequestsAreKept
<1>5. Raised(t)' <=> Raised(t)
  BY <1>4, RaisedIs, RaisedNext DEF SameFlag
<1>6. m = p => ~Offered(p, t) /\ ~Released(p, t) /\ ~Waiting(setup, p, t)
  BY <1>1 DEF Offered, Released, Waiting
<1>7. m # p => ~Offered(p, t) /\ ~Released(p, t)
  BY DEF Offered, Released, Executes, Step
<1>8. ~Taken(c, t)
  <2>1. CASE m = c
    BY <1>1, <2>1 DEF Taken
  <2>2. CASE m # c
    BY <2>2 DEF Taken, Executes, Step
  <2> QED
    BY <2>1, <2>2
<1> HIDE DEF i
<1>9. m # p => (Waiting(setup, p, t) => Waiting(setup, p, t)')
  <2>1. m # p => sm'[p] = sm[p]
    BY <1>1, ExecuteOthers
  <2> QED
    BY <2>1 DEF Waiting
<1>10. Deals(p, c, t)
  BY <1>5, <1>6, <1>7, <1>8 DEF Deals, Raised
<1>11. HandInv(setup, p, c, t)'
  <2>1. CASE m = p
    BY <1>4, <1>6, <2>1 DEF HandInv, SameFlag
  <2>2. CASE m # p
    BY <1>2, <1>4, <1>9, <2>2 DEF HandInv, SameFlag
  <2> QED
    BY <2>1, <2>2
<1> QED
  BY <1>10, <1>11

\* The rest of the cycle, and a host that lets the flag be, keep what is going on.
LEMMA IdleDeals ==
  ASSUME TypeOK, Looped, NEW setup \in Setups, Looping(setup),
         NEW p \in SMs, NEW c \in SMs, NEW t \in Blocks \X IrqNums,
         t \notin Host.irqs, HandInv(setup, p, c, t),
         \/ FinishStep \/ HostCall
         \/ \E m \in SMs : Delayed(m) \/ Skip(m)
  PROVE  HandInv(setup, p, c, t)' /\ Deals(p, c, t)
<1>1. sm'[p].pc = sm[p].pc /\ sm'[p].stalled = sm[p].stalled
  BY IdleKeeps
<1>2. Waiting(setup, p, t)' <=> Waiting(setup, p, t)
  BY <1>1 DEF Waiting
<1>3. ~Executes(p) /\ ~Executes(c)
  <2>1. FinishStep => turn \notin SMs
    BY DEF FinishStep, LoopEnd, SMs, SmNums, Blocks
  <2>2. HostCall => turn' = turn
    BY DEF HostCall
  <2>3. ASSUME NEW m \in SMs, Delayed(m) \/ Skip(m), NEW k \in SMs
        PROVE  ~Executes(k)
    BY <2>3, MachineFields DEF Delayed, Skip, Executes
  <2> QED
    BY <2>1, <2>2, <2>3 DEF Executes
<1>4. ~Offered(p, t) /\ ~Released(p, t) /\ ~Taken(c, t)
  BY <1>3 DEF Offered, Released, Taken
<1>5. (Raised(t)' <=> Raised(t)) => Deals(p, c, t)
  BY <1>4 DEF Deals, Raised
<1>6. CASE FinishStep
  <2>1. (Flagged(t)' <=> Raised(t)) /\ ~Clearing(t)' /\ ~Setting(t)'
    BY <1>6, FinishApplies
  <2>2. Raised(t)' <=> Raised(t)
    BY <2>1, RaisedNext
  <2>3. Raised(t) => Waiting(setup, p, t)
    BY RaisedIs DEF HandInv
  <2> QED
    BY <1>2, <1>5, <2>1, <2>2, <2>3 DEF HandInv
<1>7. ASSUME SameFlag(t), \A k \in SMs : Past(k) => Past(k)'
      PROVE  HandInv(setup, p, c, t)' /\ Deals(p, c, t)
  <2>1. Raised(t)' <=> Raised(t)
    BY <1>7, RaisedIs, RaisedNext DEF SameFlag
  <2>2. HandInv(setup, p, c, t)'
    BY <1>2, <1>7 DEF HandInv, SameFlag
  <2> QED
    BY <1>5, <2>1, <2>2
<1>8. CASE HostCall
  <2>1. \A k \in SMs : Past(k) => Past(k)'
    BY <1>8 DEF HostCall, Past
  <2>2. t \in Blocks \X Nat
    BY DEF IrqNums
  <2> QED
    BY <1>7, <1>8, <2>1, <2>2, HostLeaves
<1>9. ASSUME NEW m \in SMs, Delayed(m) \/ Skip(m)
      PROVE  HandInv(setup, p, c, t)' /\ Deals(p, c, t)
  <2>1. turn = m /\ turn' = NextTurn(m) /\ irq' = irq
    BY <1>9 DEF Delayed, Skip
  <2>2. \A k \in SMs : Past(k) => Past(k)'
    BY <2>1, TurnPasses
  <2>3. SameFlag(t)
    BY <2>1 DEF SameFlag, Flagged, Clearing, Setting
  <2> QED
    BY <1>7, <2>2, <2>3
<1> QED
  BY <1>6, <1>8, <1>9

LEMMA NextDeals ==
  ASSUME TypeOK, Looped, NEW setup \in Setups, Looping(setup),
         NEW p \in SMs, NEW c \in SMs, NEW t \in Blocks \X IrqNums,
         IsHandshake(setup, p, c, t), HandInv(setup, p, c, t), Next
  PROVE  HandInv(setup, p, c, t)' /\ Deals(p, c, t)
<1>1. p # c /\ t \notin Host.irqs
  BY DEF IsHandshake
<1>2. ASSUME NEW m \in SMs, Step(m)
      PROVE  HandInv(setup, p, c, t)' /\ Deals(p, c, t)
  <2>1. sm[m].pc \in Loop(setup, m)
    BY DEF Looping
  <2>2. t \in Requests(m, At(setup, m, sm[m].pc)) =>
          \/ m = p /\ Offers(m, At(setup, m, sm[m].pc), t)
          \/ m = c /\ Takes(m, At(setup, m, sm[m].pc), t)
    BY <2>1 DEF IsHandshake
  <2>3. CASE m = p /\ Offers(m, At(setup, m, sm[m].pc), t)
    BY <1>1, <1>2, <2>3, ProducerDeals
  <2>4. CASE m = c /\ Takes(m, At(setup, m, sm[m].pc), t)
    BY <1>1, <1>2, <2>4, ConsumerDeals
  <2> QED
    BY <1>2, <2>2, <2>3, <2>4, OtherDeals
<1>3. CASE \/ FinishStep \/ HostCall
           \/ \E m \in SMs : Delayed(m) \/ Skip(m)
  BY <1>1, <1>3, IdleDeals
<1> QED
  BY <1>2, <1>3 DEF Next, Cycle

\* In a handshake every item offered is taken exactly once and the producer goes on
\* only after that, for any number of handshakes at a time, whatever the two do in
\* between, and whatever other programs run beside them.
THEOREM ItemsAreHandedOver == Looped => (Spec => HandedOver)
<1> DEFINE Shakes(h) == instr = h[1].program /\ reg = h[1].config
           Inv == \A h \in Handshakes : Shakes(h) =>
                    Looping(h[1]) /\ HandInv(h[1], h[2], h[3], h[4])
<1> SUFFICES ASSUME Looped PROVE Spec => HandedOver
  OBVIOUS
<1>1. \A h \in Handshakes :
        /\ h[1] \in Setups /\ h[2] \in SMs /\ h[3] \in SMs
        /\ h[4] \in Blocks \X IrqNums
        /\ IsHandshake(h[1], h[2], h[3], h[4])
  BY DEF Handshakes
<1>2. Init => Inv
  <2> SUFFICES ASSUME NEW setup \in Setups, InitFrom(setup),
                      NEW h \in Handshakes, Shakes(h)
               PROVE  Looping(h[1]) /\ HandInv(h[1], h[2], h[3], h[4])
    BY DEF Init
  <2>1. Looping(setup)
    BY InitLoops
  <2>2. Looping(h[1])
    BY <2>1 DEF Looping, Loop
  <2>3. LET t == h[4] IN ~Flagged(t) /\ ~Clearing(t) /\ ~Setting(t)
    BY <1>1 DEF InitFrom, IrqInit, Flagged, Clearing, Setting
  <2> QED
    BY <2>2, <2>3 DEF HandInv
<1>3. ASSUME TypeOK, Inv, Next
      PROVE  /\ Inv'
             /\ \A h \in Handshakes : Shakes(h) => Deals(h[2], h[3], h[4])
  <2>1. instr' = instr /\ reg' = reg
    BY <1>3, IdleKeeps DEF Next, Cycle, Step
  <2>2. ASSUME NEW h \in Handshakes, Shakes(h)
        PROVE  /\ Looping(h[1])' /\ HandInv(h[1], h[2], h[3], h[4])'
               /\ Deals(h[2], h[3], h[4])
    <3>1. Looping(h[1]) /\ HandInv(h[1], h[2], h[3], h[4])
      BY <1>3, <2>2
    <3>2. Looping(h[1])'
      BY <1>1, <1>3, <3>1, NextLoops
    <3>3. HandInv(h[1], h[2], h[3], h[4])' /\ Deals(h[2], h[3], h[4])
      BY <1>1, <1>3, <3>1, NextDeals
    <3> QED
      BY <3>2, <3>3
  <2> QED
    BY <2>1, <2>2
<1>4. ASSUME Inv, UNCHANGED vars PROVE Inv'
  <2>1. ASSUME NEW setup PROVE Looping(setup)' <=> Looping(setup)
    BY <1>4 DEF vars, Looping
  <2>2. ASSUME NEW setup, NEW p, NEW c, NEW t
        PROVE  HandInv(setup, p, c, t)' <=> HandInv(setup, p, c, t)
    BY <1>4 DEF vars, HandInv, Waiting, Flagged, Setting, Clearing, Past
  <2> QED
    BY <1>4, <2>1, <2>2 DEF vars
<1>5. TypeOK /\ Inv /\ [Next]_vars =>
        [\A h \in Handshakes : instr = h[1].program /\ reg = h[1].config =>
           LET t == h[4]
           IN  /\ Offered(h[2], t) => ~Raised(t) /\ Raised(t)'
               /\ Taken(h[3], t) => Raised(t) /\ ~Raised(t)'
               /\ Released(h[2], t) => ~Raised(t)
               /\ Raised(t)' # Raised(t) => Offered(h[2], t) \/ Taken(h[3], t)]_vars
  BY <1>3 DEF Deals
<1>6. TypeOK /\ Inv /\ [Next]_vars => Inv'
  BY <1>3, <1>4
<1> QED
  BY <1>2, <1>5, <1>6, TypeCorrect, PTL DEF Spec, HandedOver

-----------------------------------------------------------------------------
(* Pulses *)

\* A pulser that has had its turn has asked for its flag, and runs into no delay.
TrainInv(p, t) ==
  sm[p].delay = 0 /\ (sm[p].enabled /\ Past(p) => Setting(t))

\* A pulse asks for the flag, and takes one cycle.
LEMMA PulseAsks ==
  ASSUME TypeOK, NEW m \in SMs, NEW i, NEW t, Pulses(m, i, t), Execute(m, i, TRUE)
  PROVE  RequestSet(t) /\ sm'[m].delay = 0
<1>1. Irq(m, i, TRUE) /\ ~i.clr /\ ~i.wait /\ i.delay = 0 /\ i.op = "IRQ"
  BY DEF Pulses, Execute, Jmp, Wait, In, Out, Pull, Push, Mov, Set
<1>2. IrqTarget(m[1], m[2], i.index) = t
  BY DEF Pulses, Requests
<1>3. RequestSet(t) /\ Retire(m, i, TRUE, sm[m])
  BY <1>1, <1>2 DEF Irq
<1>4. sm'[m].delay = NewDelay(i)
  BY <1>3, MachineFields, RetireMoves
<1> QED
  BY <1>1, <1>3, <1>4 DEF NewDelay

\* What a turn does to a train: the pulser's own asks for the flag, and no other's
\* takes that back.
LEMMA TurnPulses ==
  ASSUME TypeOK, Looped, NEW setup \in Setups, Looping(setup),
         NEW p \in SMs, NEW t \in Blocks \X IrqNums, IsTrain(setup, p, t),
         TrainInv(p, t), NEW m \in SMs, Step(m) \/ Delayed(m) \/ Skip(m)
  PROVE  TrainInv(p, t)' /\ (Flagged(t)' <=> Flagged(t))
<1>1. turn = m /\ turn' = NextTurn(m)
  BY DEF Step, Delayed, Skip
<1>2. Past(p)' <=> Past(p) \/ p = m
  BY <1>1, TurnReaches DEF Past
<1>3. t \in Blocks \X Nat
  BY DEF IrqNums
<1>4. ASSUME Step(m)
      PROVE  TrainInv(p, t)' /\ (Flagged(t)' <=> Flagged(t))
  <2> DEFINE i == At(setup, m, sm[m].pc)
  <2>1. Execute(m, i, TRUE) /\ i \in Instr
    BY <1>4, LoopFollows
  <2>2. m = p => Pulses(p, i, t)
    BY DEF IsTrain, Looping
  <2> HIDE DEF i
  <2>3. (Flagged(t)' <=> Flagged(t)) /\ (Setting(t) => Setting(t)')
    BY <1>3, <2>1, RequestsAreKept
  <2>4. CASE m = p
    BY <2>1, <2>2, <2>3, <2>4, PulseAsks, RequestsAre DEF TrainInv
  <2>5. CASE m # p
    <3>1. sm'[p] = sm[p]
      BY <2>1, <2>5, ExecuteOthers
    <3> QED
      BY <1>2, <2>3, <2>5, <3>1 DEF TrainInv
  <2> QED
    BY <2>4, <2>5
<1>5. ASSUME irq' = irq
      PROVE  (Flagged(t)' <=> Flagged(t)) /\ (Setting(t)' <=> Setting(t))
  BY <1>5 DEF Flagged, Setting
<1>6. CASE Delayed(m)
  <2>1. m # p /\ irq' = irq /\ \E s : Put(m, s)
    BY <1>6 DEF Delayed, TrainInv
  <2>2. sm'[p] = sm[p]
    BY <2>1, PutKeeps
  <2> QED
    BY <1>2, <1>5, <2>1, <2>2 DEF TrainInv
<1>7. CASE Skip(m)
  <2>1. ~sm[m].enabled /\ sm' = sm /\ irq' = irq
    BY <1>7 DEF Skip
  <2> QED
    BY <1>2, <1>5, <2>1 DEF TrainInv
<1> QED
  BY <1>4, <1>6, <1>7

\* Between two cycles nobody has had a turn.  At the end of one an enabled pulser has,
\* and the flag is up after it.
LEMMA NextPulses ==
  ASSUME TypeOK, Looped, NEW setup \in Setups, Looping(setup),
         NEW p \in SMs, NEW t \in Blocks \X IrqNums, IsTrain(setup, p, t),
         TrainInv(p, t), Next
  PROVE  TrainInv(p, t)' /\ (sm[p].enabled /\ Flagged(t) => Flagged(t)')
<1>1. turn = <<0, 0>> => ~Past(p)
  BY SmTyped DEF Past, Beyond, Blocks, SmNums
<1>2. turn' = <<0, 0>> => ~Past(p)'
  BY SmTyped DEF Past, Beyond, Blocks, SmNums
<1>3. CASE FinishStep
  <2>1. turn' = <<0, 0>> /\ sm' = sm
    BY <1>3 DEF FinishStep
  <2>2. Past(p)
    BY <1>3, SmTyped, ChipAssumption
    DEF FinishStep, LoopEnd, Past, Beyond, Blocks, SmNums
  <2>3. Flagged(t)' <=> Raised(t)
    BY <1>3, FinishApplies
  <2>4. sm[p].enabled => Flagged(t)'
    BY <2>2, <2>3, RaisedIs DEF TrainInv
  <2> QED
    BY <1>2, <2>1, <2>4 DEF TrainInv
<1>4. CASE HostCall
  <2>1. t \in Blocks \X Nat /\ t \notin Host.irqs
    BY DEF IrqNums, IsTrain
  <2>2. SameFlag(t)
    BY <1>4, <2>1, HostLeaves
  <2>3. turn' = <<0, 0>>
    BY <1>4 DEF HostCall
  <2>4. sm'[p].delay = sm[p].delay
    <3>1. HostSm \/ sm' = sm
      BY <1>4 DEF HostCall, HostIrq, HostPins, HostConfig, HostExec, Looped
    <3> QED
      BY <3>1, HostSmHolds
  <2> QED
    BY <1>2, <2>2, <2>3, <2>4 DEF TrainInv, SameFlag
<1>5. CASE \E m \in SMs : Step(m) \/ Delayed(m) \/ Skip(m)
  BY <1>5, TurnPulses
<1> QED
  BY <1>3, <1>4, <1>5 DEF Next, Cycle

\* A machine that waits for a flag that is up does not stall.
LEMMA ListenerGoes ==
  ASSUME TypeOK, Looped, NEW setup \in Setups, Looping(setup), Next,
         NEW c \in SMs, Executes(c), NEW i \in Current(c),
         NEW t, Takes(c, i, t), Flagged(t)
  PROVE  ~sm'[c].stalled
<1>1. Step(c)
  <2>1. ~FinishStep
    BY DEF FinishStep, LoopEnd, Executes, SMs, SmNums, Blocks
  <2>2. ~HostCall
    BY DEF HostCall, Executes
  <2>3. \A m \in SMs : ~Delayed(m) /\ ~Skip(m)
    BY DEF Delayed, Skip, Executes
  <2>4. PICK m \in SMs : Step(m)
    BY <2>1, <2>2, <2>3 DEF Next, Cycle
  <2> QED
    BY <2>4 DEF Step, Executes
<1>2. Current(c) = {At(setup, c, sm[c].pc)} /\ Execute(c, At(setup, c, sm[c].pc), TRUE)
  BY <1>1, LoopFollows
<1>3. Execute(c, i, TRUE) /\ i \in Instr
  BY <1>2, LoopFollows
<1> QED
  BY <1>3, TakesFlag

\* The pulses of every pulser are heard, by any number of listeners, whatever the
\* others do with the flag.
THEOREM PulsesAreHeard == Looped => (Spec => PulsesHeard)
<1> DEFINE Runs(h) == instr = h[1].program /\ reg = h[1].config
           Inv == \A h \in Trains : Runs(h) => Looping(h[1]) /\ TrainInv(h[2], h[3])
           Heard(h) ==
             sm[h[2]].enabled /\ Flag(h[3]) =>
               /\ Flag(h[3])'
               /\ \A c \in SMs :
                    Executes(c) /\ (\E i \in Current(c) : Takes(c, i, h[3])) =>
                      ~sm'[c].stalled
<1> SUFFICES ASSUME Looped PROVE Spec => PulsesHeard
  OBVIOUS
<1>1. \A h \in Trains :
        /\ h[1] \in Setups /\ h[2] \in SMs /\ h[3] \in Blocks \X IrqNums
        /\ IsTrain(h[1], h[2], h[3])
  BY DEF Trains
<1>2. Init => Inv
  <2> SUFFICES ASSUME NEW setup \in Setups, InitFrom(setup), NEW h \in Trains, Runs(h)
               PROVE  Looping(h[1]) /\ TrainInv(h[2], h[3])
    BY DEF Init
  <2>1. Looping(h[1])
    BY InitLoops DEF Looping, Loop
  <2>2. turn = <<0, 0>> /\ sm[h[2]].delay = 0
    BY <1>1 DEF InitFrom, SmReset
  <2>3. ~Past(h[2])
    BY <1>1, <2>2, SmTyped DEF Past, Beyond, Blocks, SmNums
  <2> QED
    BY <2>1, <2>2, <2>3 DEF TrainInv
<1>3. ASSUME TypeOK, Inv, Next
      PROVE  Inv' /\ \A h \in Trains : Runs(h) => Heard(h)
  <2>1. instr' = instr /\ reg' = reg
    BY <1>3, IdleKeeps DEF Next, Cycle, Step
  <2>2. ASSUME NEW h \in Trains, Runs(h)
        PROVE  Looping(h[1])' /\ TrainInv(h[2], h[3])' /\ Heard(h)
    <3>1. Looping(h[1]) /\ TrainInv(h[2], h[3])
      BY <1>3, <2>2
    <3>2. Looping(h[1])'
      BY <1>1, <1>3, <3>1, NextLoops
    <3>3. /\ TrainInv(h[2], h[3])'
          /\ sm[h[2]].enabled /\ Flagged(h[3]) => Flagged(h[3])'
      BY <1>1, <1>3, <3>1, NextPulses
    <3>4. ASSUME NEW c \in SMs, Executes(c), NEW i \in Current(c), Takes(c, i, h[3]),
                 Flagged(h[3])
          PROVE  ~sm'[c].stalled
      BY <1>1, <1>3, <3>1, <3>4, ListenerGoes
    <3> QED
      BY <3>2, <3>3, <3>4 DEF Flag, Flagged
  <2> QED
    BY <2>1, <2>2
<1>4. ASSUME Inv, UNCHANGED vars PROVE Inv'
  <2>1. ASSUME NEW setup PROVE Looping(setup)' <=> Looping(setup)
    BY <1>4 DEF vars, Looping
  <2>2. ASSUME NEW p, NEW t PROVE TrainInv(p, t)' <=> TrainInv(p, t)
    BY <1>4 DEF vars, TrainInv, Setting, Past, Beyond
  <2> QED
    BY <1>4, <2>1, <2>2 DEF vars
<1>5. TypeOK /\ Inv /\ [Next]_vars =>
        [\A h \in Trains : instr = h[1].program /\ reg = h[1].config =>
           LET t == h[3]
           IN  sm[h[2]].enabled /\ Flag(t) =>
                 /\ Flag(t)'
                 /\ \A c \in SMs :
                      Executes(c) /\ (\E i \in Current(c) : Takes(c, i, t)) =>
                        ~sm'[c].stalled]_vars
  BY <1>3
<1>6. TypeOK /\ Inv /\ [Next]_vars => Inv'
  BY <1>3, <1>4
<1> QED
  BY <1>2, <1>5, <1>6, TypeCorrect, PTL DEF Spec, PulsesHeard

-----------------------------------------------------------------------------
(* Shared pins *)

\* A step for the pins that changes nothing but, at some of them, what is driven
DrivesOnly(pins) ==
  /\ gpio'.input = gpio.input /\ gpio'.inverted = gpio.inverted
  /\ gpio'.control = gpio.control
  /\ \A p : p \notin pins => (p \in gpio'.output <=> p \in gpio.output)

\* What an instruction writes to some pins it writes to those alone.
LEMMA WritesThere ==
  ASSUME TypeOK, NEW b, NEW pins, NEW high,
         \/ UNCHANGED gpio
         \/ gpio' = WritePins(b, pins, high)
         \/ gpio' = WriteDirs(b, pins, high)
         \/ gpio' = WriteOwnDirs(b, pins, high)
  PROVE  DrivesOnly(pins)
<1>1. gpio \in GpioState
  BY DEF TypeOK
<1>2. ASSUME NEW outs, NEW ins \in SUBSET pins, gpio' = Redirected(outs, ins)
      PROVE  DrivesOnly(pins)
  BY <1>1, <1>2 DEF Redirected, GpioState, DrivesOnly
<1>3. CASE gpio' = WritePins(b, pins, high)
  BY <1>1, <1>3 DEF WritePins, GpioState, DrivesOnly
<1>4. CASE gpio' = WriteDirs(b, pins, high)
  BY <1>2, <1>4 DEF WriteDirs
<1>5. CASE gpio' = WriteOwnDirs(b, pins, high)
  BY <1>2, <1>5 DEF WriteOwnDirs
<1> QED
  BY <1>3, <1>4, <1>5 DEF DrivesOnly

\* Every instruction writes the pins of its window and no others.
LEMMA ExecuteDrives ==
  ASSUME TypeOK, NEW m \in SMs, NEW i, NEW stepping, Execute(m, i, stepping)
  PROVE  DrivesOnly(PinsOf(m, i))
<1>1. CASE \/ Jmp(m, i, stepping) \/ Wait(m, i, stepping) \/ In(m, i, stepping)
           \/ Pull(m, i, stepping) \/ Push(m, i, stepping) \/ Irq(m, i, stepping)
  BY <1>1 DEF Jmp, Wait, In, Pull, Push, Irq, DrivesOnly
<1>2. ASSUME NEW s, NEW n, NEW data, Deliver(m, i, stepping, s, n, data),
             \/ i.op = "OUT" /\ n = i.count
             \/ i.op = "MOV" /\ n = reg[m].out_count
      PROVE  DrivesOnly(PinsOf(m, i))
  <2> DEFINE pins == PinsAt(m, reg[m].out_base, 0 .. n - 1)
             ones == PinsAt(m, reg[m].out_base, Low(data, n))
  <2>1. \/ UNCHANGED gpio
        \/ /\ i.dst \in {"PINS", "PINDIRS"}
           /\ gpio' = WritePins(m[1], pins, ones) \/ gpio' = WriteDirs(m[1], pins, ones)
    BY <1>2 DEF Deliver
  <2>2. i.dst \in {"PINS", "PINDIRS"} => PinsOf(m, i) = pins
    BY <1>2 DEF PinsOf
  <2> HIDE DEF pins, ones
  <2> QED
    BY <2>1, <2>2, WritesThere DEF DrivesOnly
<1>3. CASE Out(m, i, stepping)
  <2>1. /\ i.op = "OUT"
        /\ \/ UNCHANGED gpio
           \/ \E s, data : Deliver(m, i, stepping, s, i.count, data)
    BY <1>3 DEF Out, OutTo
  <2> QED
    BY <1>2, <2>1 DEF DrivesOnly
<1>4. CASE Mov(m, i, stepping)
  <2>1. /\ i.op = "MOV"
        /\ \/ UNCHANGED gpio
           \/ \E s, data : Deliver(m, i, stepping, s, reg[m].out_count, data)
    BY <1>4 DEF Mov
  <2> QED
    BY <1>2, <2>1 DEF DrivesOnly
<1>5. CASE Set(m, i, stepping)
  <2> DEFINE n == reg[m].set_count
             pins == PinsAt(m, reg[m].set_base, 0 .. n - 1)
             ones == PinsAt(m, reg[m].set_base, Low(i.data, n))
  <2>1. \/ UNCHANGED gpio
        \/ /\ i.op = "SET" /\ i.dst \in {"PINS", "PINDIRS"}
           /\ \/ gpio' = WritePins(m[1], pins, ones)
              \/ gpio' = WriteOwnDirs(m[1], pins, ones)
    BY <1>5 DEF Set
  <2>2. i.op = "SET" /\ i.dst \in {"PINS", "PINDIRS"} => PinsOf(m, i) = pins
    BY DEF PinsOf
  <2> HIDE DEF pins, ones
  <2> QED
    BY <2>1, <2>2, WritesThere DEF DrivesOnly
<1> QED
  BY <1>1, <1>3, <1>4, <1>5 DEF Execute

\* What of a machine's state a MOV can read
Readable(s) == <<s.x, s.y, s.isr, s.osr, s.tx, s.rx>>

\* A prompt instruction retires; if it writes levels, it writes those of HighOf, which
\* are made of a state that it leaves as it is.
LEMMA PromptRetires ==
  ASSUME TypeOK, NEW m \in SMs, NEW i, Prompt(i), Execute(m, i, TRUE)
  PROVE  /\ sm'[m].pc = Following(m, sm[m].pc) /\ sm'[m].delay = 0
         /\ irq' = irq
         /\ i.dst = "PINS" => /\ Readable(sm'[m]) = Readable(sm[m])
                              /\ gpio' = WritePins(m[1], PinsOf(m, i), HighOf(m, i))
<1>1. Set(m, i, TRUE) \/ Mov(m, i, TRUE)
  BY DEF Prompt, Execute, Jmp, Wait, In, Out, Pull, Push, Irq
<1>2. i.delay = 0 /\ NewDelay(i) = 0
  BY DEF Prompt, NewDelay
<1>3. ASSUME NEW s, Shaped(s), s.pc = sm[m].pc, Retire(m, i, TRUE, s)
      PROVE  /\ sm'[m].pc = Following(m, sm[m].pc) /\ sm'[m].delay = 0
             /\ Readable(sm'[m]) = Readable(s)
  <2> DEFINE u == [s EXCEPT !.delay = NewDelay(i)]
             v == Advanced(m, u)
  <2>1. u.delay = 0 /\ Shaped(u) /\ Readable(u) = Readable(s)
    BY <1>2, <1>3 DEF Shaped, Fields, Readable
  <2>2. Put(m, v)
    BY <1>3 DEF Retire
  <2> HIDE DEF u
  <2>3. v.delay = 0 /\ Readable(v) = Readable(u)
    BY <2>1 DEF Advanced, Shaped, Fields, Readable
  <2> HIDE DEF v
  <2> QED
    BY <1>3, <2>1, <2>2, <2>3, PutKeeps, RetireMoves
<1>4. CASE Set(m, i, TRUE)
  <2> DEFINE s == [sm[m] EXCEPT !.x = IF i.dst = "X" THEN i.data ELSE @,
                                !.y = IF i.dst = "Y" THEN i.data ELSE @]
  <2>1. /\ Shaped(s) /\ s.pc = sm[m].pc
        /\ i.dst = "PINS" => Readable(s) = Readable(sm[m])
    BY MachineFields DEF Shaped, Fields, Readable
  <2>2. Retire(m, i, TRUE, s) /\ i.op = "SET" /\ irq' = irq
    BY <1>4 DEF Set
  <2> HIDE DEF s
  <2>3. i.dst = "PINS" => gpio' = WritePins(m[1], PinsOf(m, i), HighOf(m, i))
    BY <1>4, <2>2 DEF Set, PinsOf, HighOf
  <2> QED
    BY <1>3, <2>1, <2>2, <2>3
<1>5. CASE Mov(m, i, TRUE)
  <2> DEFINE data == MovValue(m, i)
  <2>1. /\ i.op = "MOV" /\ i.dst \notin {"PC", "EXEC"} /\ irq' = irq
    BY <1>5 DEF Mov, Prompt
  <2>2. \/ Deliver(m, i, TRUE, sm[m], reg[m].out_count, data)
        \/ /\ i.dst = "ISR"
           /\ Retire(m, i, TRUE, [sm[m] EXCEPT !.isr = data, !.isr_count = 0])
        \/ /\ i.dst = "OSR"
           /\ Retire(m, i, TRUE, [sm[m] EXCEPT !.osr = data, !.osr_count = 0])
    BY <1>5, <2>1 DEF Mov
  <2>3. \/ /\ i.dst \in {"X", "Y", "ISR", "OSR", "PINDIRS"}
           /\ \E s : Shaped(s) /\ s.pc = sm[m].pc /\ Retire(m, i, TRUE, s)
        \/ /\ i.dst = "PINS" /\ Retire(m, i, TRUE, sm[m])
           /\ gpio' = WritePins(m[1], PinsAt(m, reg[m].out_base, 0 .. reg[m].out_count - 1),
                                PinsAt(m, reg[m].out_base, Low(data, reg[m].out_count)))
    <3>1. /\ Shaped(sm[m])
          /\ \A w : \A s \in {[sm[m] EXCEPT !.x = w], [sm[m] EXCEPT !.y = w],
                              [sm[m] EXCEPT !.isr = w, !.isr_count = 0],
                              [sm[m] EXCEPT !.osr = w, !.osr_count = 0]} :
               Shaped(s) /\ s.pc = sm[m].pc
      BY MachineFields DEF Shaped, Fields
    <3> HIDE DEF data
    <3> QED
      BY <2>1, <2>2, <3>1 DEF Deliver
  <2>4. i.dst = "PINS" =>
          /\ PinsOf(m, i) = PinsAt(m, reg[m].out_base, 0 .. reg[m].out_count - 1)
          /\ HighOf(m, i) = PinsAt(m, reg[m].out_base, Low(data, reg[m].out_count))
    BY <2>1 DEF PinsOf, HighOf
  <2> HIDE DEF data
  <2> QED
    BY <1>3, <2>1, <2>3, <2>4, MachineFields
<1> QED
  BY <1>1, <1>4, <1>5

\* What a machine makes of its state and of what it can see of the chip is the same
\* when these are.
LEMMA SameHigh ==
  ASSUME TypeOK, NEW m \in SMs, UNCHANGED <<reg, base>>, NEW i,
         Readable(sm'[m]) = Readable(sm[m]),
         gpio'.input = gpio.input, gpio'.inverted = gpio.inverted,
         \A b \in Blocks : irq'[b].flags = irq[b].flags
  PROVE  HighOf(m, i)' = HighOf(m, i) /\ PinsOf(m, i)' = PinsOf(m, i)
<1>1. \A p : Input(p)' = Input(p)
  BY DEF Input
<1>2. \A k : PinAt(m, k)' = PinAt(m, k)
  BY DEF PinAt
<1>3. \A first, ks : PinsAt(m, first, ks)' = PinsAt(m, first, ks)
  BY <1>2 DEF PinsAt
<1>4. \A first, n : InputWord(m, first, n)' = InputWord(m, first, n)
  BY <1>1, <1>2 DEF InputWord
<1>5. /\ sm'[m].x = sm[m].x /\ sm'[m].y = sm[m].y /\ sm'[m].isr = sm[m].isr
      /\ sm'[m].osr = sm[m].osr /\ sm'[m].tx = sm[m].tx /\ sm'[m].rx = sm[m].rx
  BY DEF Readable
<1>6. StatusHolds(m)' = StatusHolds(m)
  <2> DEFINE t == IrqTarget(m[1], m[2], reg[m].status_n)
  <2>1. t[1] \in Blocks
    <3>1. reg[m].status_n \in Indexes
      BY MachineTyped DEF Reg, Indexes
    <3> QED
      BY <3>1, SmTyped, IrqTargetTyped
  <2> HIDE DEF t
  <2>2. Flag(t)' = Flag(t)
    BY <2>1 DEF Flag, t
  <2> QED
    BY <1>5, <2>2 DEF StatusHolds, t
<1>7. MovSource(m, i)' = MovSource(m, i)
  BY <1>4, <1>5, <1>6 DEF MovSource
<1>8. MovValue(m, i)' = MovValue(m, i)
  BY <1>7 DEF MovValue
<1> QED
  BY <1>3, <1>8 DEF HighOf, PinsOf

\* What is made of the instruction executed last is what is made of that instruction.
LEMMA LastIs ==
  ASSUME NEW m, NEW i, Last(m)' = i
  PROVE  /\ HighOf(m, Last(m))' = HighOf(m, i)'
         /\ PinsOf(m, Last(m))' = PinsOf(m, i)'
BY DEF HighOf, PinsOf, MovValue, MovSource

\* No instruction changes a flag that the others can see.
LEMMA FlagsKept ==
  ASSUME TypeOK, NEW m \in SMs, NEW i, NEW stepping, Execute(m, i, stepping)
  PROVE  \A b \in Blocks : irq'[b].flags = irq[b].flags
<1>1. irq \in [Blocks -> IrqState]
  BY DEF TypeOK
<1>2. ASSUME NEW t, RequestSet(t) \/ RequestClear(t)
      PROVE  \A b \in Blocks : irq'[b].flags = irq[b].flags
  BY <1>1, <1>2 DEF RequestSet, RequestClear, IrqState
<1>3. irq' = irq \/ \E t : RequestSet(t) \/ RequestClear(t)
  BY DEF Execute, Jmp, Wait, In, Out, Pull, Push, Mov, Irq, Set
<1> QED
  BY <1>2, <1>3

\* The machines run round their loops, the straight ones without a delay
Going(setup) ==
  Looping(setup) /\ \A m \in SMs : Straight(m) => sm[m].delay = 0

\* A machine executes an instruction of its loop, which writes no pins but those that
\* count as touched when it has had its turn; a straight one has executed it last.
LEMMA StepTouches ==
  ASSUME TypeOK, Looped, NEW setup \in Setups, Going(setup), NEW m \in SMs, Step(m)
  PROVE  \E i : /\ Execute(m, i, TRUE)
                /\ PinsOf(m, i) \subseteq Touched(m)'
                /\ Straight(m) => Prompt(i) /\ Last(m)' = i
<1> DEFINE i == At(setup, m, sm[m].pc)
<1>1. Execute(m, i, TRUE) /\ Looping(setup)
  BY LoopFollows DEF Going
<1>2. UNCHANGED <<instr, reg, base>>
  BY DEF Step
<1>3. sm[m].pc \in Round(m) /\ i = instr[m[1]][sm[m].pc]
  BY <1>1 DEF Looping, Loop, Round, At
<1> HIDE DEF i
<1>4. PICK j : j = i
  OBVIOUS
<1>5. PinsOf(m, j)' = PinsOf(m, j)
  BY <1>2 DEF PinsOf, PinsAt, PinAt
<1>6. ASSUME Straight(m) PROVE Prompt(j) /\ Last(m)' = j
  <2>1. Prompt(i)
    BY <1>3, <1>6 DEF Straight
  <2>2. sm'[m].pc = Following(m, sm[m].pc)
    BY <1>1, <2>1, PromptRetires
  <2>3. Preceding(reg[m], sm'[m].pc) = sm[m].pc
    BY <1>3, <2>2, PrecedesFollowing DEF Round
  <2>4. Last(m)' = instr[m[1]][Preceding(reg[m], sm'[m].pc)]
    BY <1>2 DEF Last, Preceding
  <2> QED
    BY <1>3, <1>4, <2>1, <2>3, <2>4
<1>7. PinsOf(m, j) \subseteq Touched(m)'
  <2>1. Straight(m)' <=> Straight(m)
    BY <1>2 DEF Straight, Round
  <2>2. CASE Straight(m)
    <3>1. Touched(m)' = PinsOf(m, Last(m))'
      BY <2>1, <2>2 DEF Touched
    <3> QED
      BY <1>5, <1>6, <2>2, <3>1, LastIs
  <2>3. CASE ~Straight(m)
    <3>1. Touched(m)' = UNION {PinsOf(m, instr[m[1]][a])' : a \in Round(m)'}
      BY <2>1, <2>3 DEF Touched
    <3>2. \A a : PinsOf(m, instr[m[1]][a])' = PinsOf(m, instr[m[1]][a])
      BY <1>2 DEF PinsOf, PinsAt, PinAt
    <3>3. Round(m)' = Round(m)
      BY <1>2 DEF Round
    <3> QED
      BY <1>3, <1>4, <3>1, <3>2, <3>3
  <2> QED
    BY <2>2, <2>3
<1> QED
  BY <1>1, <1>4, <1>6, <1>7

\* The turn of machine n: what it does to the pins it does to those it has touched.
LEMMA TurnDrives ==
  ASSUME TypeOK, Looped, NEW setup \in Setups, Going(setup), NEW n \in SMs,
         Step(n) \/ Delayed(n) \/ Skip(n)
  PROVE  /\ turn = n /\ turn' = NextTurn(n) /\ UNCHANGED <<instr, reg, base>>
         /\ DrivesOnly(IF sm'[n].enabled THEN Touched(n)' ELSE {})
         /\ \A b \in Blocks : irq'[b].flags = irq[b].flags
         /\ \A k \in SMs : k # n => sm'[k] = sm[k]
<1>1. CASE Step(n)
  <2>1. PICK i : Execute(n, i, TRUE) /\ PinsOf(n, i) \subseteq Touched(n)'
    BY <1>1, StepTouches
  <2>2. DrivesOnly(PinsOf(n, i)) /\ \A b \in Blocks : irq'[b].flags = irq[b].flags
    BY <2>1, ExecuteDrives, FlagsKept
  <2>3. sm'[n].enabled = sm[n].enabled
    BY <2>1, ExecuteLeaves
  <2>4. \A k \in SMs : k # n => sm'[k] = sm[k]
    BY <2>1, ExecuteOthers
  <2> QED
    BY <1>1, <2>1, <2>2, <2>3, <2>4 DEF Step, DrivesOnly
<1>2. CASE Delayed(n)
  BY <1>2, PutKeeps DEF Delayed, DrivesOnly
<1>3. CASE Skip(n)
  BY <1>3 DEF Skip, DrivesOnly
<1> QED
  BY <1>1, <1>2, <1>3

\* What the turn of machine n leaves of any other machine: all that says which pins
\* that one has.
LEMMA OthersStand ==
  ASSUME NEW n \in SMs, turn = n, turn' = NextTurn(n), UNCHANGED <<instr, reg, base>>,
         NEW k \in SMs, k # n, sm'[k] = sm[k]
  PROVE  /\ Stepped(k)' <=> Stepped(k)
         /\ Straight(k)' <=> Straight(k)
         /\ Last(k)' = Last(k)
         /\ \A i : PinsOf(k, i)' = PinsOf(k, i)
         /\ PinsOf(k, Last(k))' = PinsOf(k, Last(k))
         /\ Touched(k)' = Touched(k)
<1>1. Beyond(turn, k)' <=> Beyond(turn, k)
  BY TurnReaches
<1>2. Last(k)' = Last(k) /\ Round(k)' = Round(k)
  BY DEF Last, Preceding, Round
<1>3. \A i : PinsOf(k, i)' = PinsOf(k, i)
  BY DEF PinsOf, PinsAt, PinAt
<1>4. Straight(k)' <=> Straight(k)
  BY <1>2 DEF Straight
<1>5. PinsOf(k, Last(k))' = PinsOf(k, Last(k))
  <2>1. PICK j : j = Last(k)
    OBVIOUS
  <2>2. PinsOf(k, Last(k))' = PinsOf(k, j)'
    BY <1>2, <2>1, LastIs
  <2> QED
    BY <1>3, <2>1, <2>2
<1>6. Touched(k)' = Touched(k)
  <2>1. CASE Straight(k)
    BY <1>4, <1>5, <2>1 DEF Touched
  <2>2. CASE ~Straight(k)
    <3>1. Touched(k)' = UNION {PinsOf(k, instr[k[1]][a])' : a \in Round(k)'}
      BY <1>4, <2>2 DEF Touched
    <3>2. \A a : PinsOf(k, instr[k[1]][a])' = PinsOf(k, instr[k[1]][a])
      BY DEF PinsOf, PinsAt, PinAt
    <3>3. Touched(k) = UNION {PinsOf(k, instr[k[1]][a]) : a \in Round(k)}
      BY <2>2 DEF Touched
    <3> QED
      BY <1>2, <3>1, <3>2, <3>3
  <2> QED
    BY <2>1, <2>2
<1> QED
  BY <1>1, <1>2, <1>3, <1>4, <1>5, <1>6 DEF Stepped

\* The level that instruction j of machine m has made of pin p
Made(m, p, j) == p \in gpio.output <=> p \in HighOf(m, j)

LEMMA MadeByLast ==
  ASSUME NEW m, NEW p, NEW j, Last(m)' = j, Made(m, p, j)'
  PROVE  (p \in gpio.output <=> p \in HighOf(m, Last(m)))'
BY LastIs DEF Made

\* A machine that has written a pin in its turn has it.
LEMMA OwnTurnWins ==
  ASSUME TypeOK, Looped, NEW setup \in Setups, Going(setup), NEW m \in SMs,
         Step(m) \/ Delayed(m) \/ Skip(m), NEW p \in Gpios, HasPin(m, p)'
  PROVE  (p \in gpio.output <=> p \in HighOf(m, Last(m)))'
<1>1. UNCHANGED <<instr, reg, base>> /\ Straight(m)
  <2>1. UNCHANGED <<instr, reg, base>>
    BY DEF Step, Delayed, Skip
  <2> QED
    BY <2>1 DEF HasPin, Straight, Round
<1>2. Step(m)
  <2>1. sm[m].delay = 0
    BY <1>1 DEF Going
  <2>2. sm'[m].enabled
    BY DEF HasPin, Stepped
  <2> QED
    BY <2>1, <2>2 DEF Delayed, Skip
<1>3. PICK i : Execute(m, i, TRUE) /\ Prompt(i) /\ Last(m)' = i
  BY <1>1, <1>2, StepTouches
<1>4. i.dst = "PINS" /\ p \in PinsOf(m, i)' /\ p \in gpio'.control[m[1]]
  <2>1. PinsOf(m, Last(m))' = PinsOf(m, i)'
    BY <1>3, LastIs
  <2> QED
    BY <1>3, <2>1 DEF HasPin
<1>5. /\ Readable(sm'[m]) = Readable(sm[m]) /\ irq' = irq
      /\ gpio' = WritePins(m[1], PinsOf(m, i), HighOf(m, i))
  BY <1>3, <1>4, PromptRetires
<1>6. gpio \in GpioState
  BY DEF TypeOK
<1>7. /\ gpio'.input = gpio.input /\ gpio'.inverted = gpio.inverted
      /\ gpio'.control = gpio.control
  BY <1>5, <1>6 DEF WritePins, GpioState
<1>8. HighOf(m, i)' = HighOf(m, i) /\ PinsOf(m, i)' = PinsOf(m, i)
  BY <1>1, <1>5, <1>7, SameHigh
<1>9. p \in gpio'.output <=> p \in HighOf(m, i)
  BY <1>4, <1>5, <1>6, <1>7, <1>8 DEF WritePins, GpioState
<1>10. Made(m, p, i)'
  BY <1>8, <1>9 DEF Made
<1> QED
  BY <1>3, <1>10, MadeByLast

\* A later machine leaves it the pin, or takes it.
LEMMA OtherTurnWins ==
  ASSUME TypeOK, Looped, NEW setup \in Setups, Going(setup), HighestWins, NEW n \in SMs,
         Step(n) \/ Delayed(n) \/ Skip(n),
         NEW m \in SMs, m # n, NEW p \in Gpios, HasPin(m, p)'
  PROVE  (p \in gpio.output <=> p \in HighOf(m, Last(m)))'
<1>1. /\ turn = n /\ turn' = NextTurn(n) /\ UNCHANGED <<instr, reg, base>>
      /\ DrivesOnly(IF sm'[n].enabled THEN Touched(n)' ELSE {})
      /\ \A b \in Blocks : irq'[b].flags = irq[b].flags
      /\ \A k \in SMs : k # n => sm'[k] = sm[k]
  BY TurnDrives
<1>2. \A k \in SMs : k # n =>
        /\ Stepped(k)' <=> Stepped(k)
        /\ Straight(k)' <=> Straight(k)
        /\ Last(k)' = Last(k) /\ PinsOf(k, Last(k))' = PinsOf(k, Last(k))
        /\ Touched(k)' = Touched(k)
  BY <1>1, OthersStand
<1>3. /\ gpio'.input = gpio.input /\ gpio'.inverted = gpio.inverted
      /\ gpio'.control = gpio.control
  BY <1>1 DEF DrivesOnly
<1>4. ~Beyond(n, n)
  BY SmTyped DEF Beyond, Blocks, SmNums
<1>5. HasPin(m, p)
  <2>1. Stepped(m) /\ Straight(m) /\ Last(m).dst = "PINS"
    BY <1>2 DEF HasPin
  <2>2. p \in PinsOf(m, Last(m)) \cap gpio.control[m[1]]
    BY <1>2, <1>3 DEF HasPin
  <2>3. ASSUME NEW k \in SMs, Stepped(k), Beyond(k, m) PROVE p \notin Touched(k)
    <3>1. k # n
      BY <1>1, <1>4, <2>3 DEF Stepped
    <3> QED
      BY <1>2, <2>3, <3>1 DEF HasPin
  <2> QED
    BY <2>1, <2>2, <2>3 DEF HasPin
<1>6. p \notin (IF sm'[n].enabled THEN Touched(n)' ELSE {})
  <2>1. SUFFICES ASSUME sm'[n].enabled PROVE p \notin Touched(n)'
    OBVIOUS
  <2>2. Beyond(n, m)
    BY <1>1, <1>5 DEF HasPin, Stepped
  <2>3. Stepped(n)'
    BY <1>1, <2>1, TurnReaches DEF Stepped
  <2> QED
    BY <2>2, <2>3 DEF HasPin
<1>7. p \in gpio'.output <=> p \in gpio.output
  BY <1>1, <1>6 DEF DrivesOnly
<1>8. PICK j : Last(m) = j /\ Last(m)' = j
  BY <1>2
<1>9. p \in gpio.output <=> p \in HighOf(m, j)
  BY <1>5, <1>8 DEF HighestWins
<1>10. HighOf(m, j)' = HighOf(m, j)
  BY <1>1, <1>3, SameHigh DEF Readable
<1>11. Made(m, p, j)'
  BY <1>7, <1>9, <1>10 DEF Made
<1> QED
  BY <1>8, <1>11, MadeByLast

\* At the start of a cycle no machine has had its turn.
LEMMA NoneStepped ==
  ASSUME turn = <<0, 0>> PROVE HighestWins
<1>1. \A m \in SMs : ~Beyond(turn, m)
  BY SmTyped DEF Beyond, Blocks, SmNums
<1> QED
  BY <1>1 DEF HighestWins, HasPin, Stepped

\* Straight machines run into no delays.
LEMMA NextGoing ==
  ASSUME TypeOK, Looped, NEW setup \in Setups, Going(setup), Next
  PROVE  Going(setup)'
<1>1. Looping(setup)'
  BY NextLoops DEF Going
<1>2. UNCHANGED <<instr, reg>>
  BY IdleKeeps DEF Next, Cycle, Step
<1>3. ASSUME NEW m \in SMs, Straight(m)' PROVE sm'[m].delay = 0
  <2>1. Straight(m) /\ sm[m].delay = 0
    BY <1>2, <1>3 DEF Straight, Round, Going
  <2>2. ASSUME NEW n \in SMs, Step(n) PROVE sm'[m].delay = 0
    <3>1. PICK i : Execute(n, i, TRUE) /\ (Straight(n) => Prompt(i))
      BY <2>2, StepTouches
    <3>2. CASE n = m
      BY <2>1, <3>1, <3>2, PromptRetires
    <3>3. CASE n # m
      BY <2>1, <3>1, <3>3, ExecuteOthers
    <3> QED
      BY <3>2, <3>3
  <2>3. ASSUME NEW n \in SMs, Delayed(n) PROVE sm'[m].delay = 0
    <3>1. n # m /\ \E s : Put(n, s)
      BY <2>1, <2>3 DEF Delayed
    <3> QED
      BY <2>1, <3>1, PutKeeps
  <2>4. CASE HostSm
    BY <2>1, <2>4, HostSmHolds
  <2>5. CASE sm' = sm
    BY <2>1, <2>5
  <2> QED
    BY <2>2, <2>3, <2>4, <2>5
    DEF Next, Cycle, Skip, FinishStep, HostCall, HostIrq, HostPins, HostConfig,
        HostExec, Looped
<1> QED
  BY <1>1, <1>3 DEF Going

LEMMA NextWins ==
  ASSUME TypeOK, Looped, NEW setup \in Setups, Going(setup), HighestWins, Next
  PROVE  HighestWins'
<1>1. CASE FinishStep \/ HostCall
  <2>1. turn' = <<0, 0>>
    BY <1>1 DEF FinishStep, HostCall
  <2>2. \A m \in SMs : ~Beyond(turn, m)'
    BY <2>1, SmTyped DEF Beyond, Blocks, SmNums
  <2> QED
    BY <2>2 DEF HighestWins, HasPin, Stepped
<1>2. ASSUME NEW n \in SMs, Step(n) \/ Delayed(n) \/ Skip(n) PROVE HighestWins'
  <2> SUFFICES ASSUME NEW m \in SMs, NEW p \in Gpios, HasPin(m, p)'
               PROVE  (p \in gpio.output <=> p \in HighOf(m, Last(m)))'
    BY DEF HighestWins
  <2>1. CASE m = n
    BY <1>2, <2>1, OwnTurnWins
  <2>2. CASE m # n
    BY <1>2, <2>2, OtherTurnWins
  <2> QED
    BY <2>1, <2>2
<1> QED
  BY <1>1, <1>2 DEF Next, Cycle

LEMMA SameWins ==
  ASSUME HighestWins, UNCHANGED vars PROVE HighestWins'
<1> USE DEF vars
<1>1. \A m, i : PinsOf(m, i)' = PinsOf(m, i)
  BY DEF PinsOf, PinsAt, PinAt
<1>2. \A m, i : MovSource(m, i)' = MovSource(m, i)
  BY DEF MovSource, InputWord, PinAt, Input, StatusHolds, Flag
<1>3. \A m, i : HighOf(m, i)' = HighOf(m, i)
  BY <1>2 DEF HighOf, PinsAt, PinAt, MovValue
<1>4. \A m : /\ Last(m)' = Last(m) /\ (Straight(m)' <=> Straight(m))
             /\ Round(m)' = Round(m) /\ (Stepped(m)' <=> Stepped(m))
  BY DEF Last, Preceding, Straight, Round, Stepped, Beyond
<1>5. \A m : PinsOf(m, Last(m))' = PinsOf(m, Last(m))
  BY <1>4 DEF PinsOf, PinsAt, PinAt
<1>6. \A m : HighOf(m, Last(m))' = HighOf(m, Last(m))
  <2> TAKE m
  <2>1. PICK j : j = Last(m)
    OBVIOUS
  <2>2. HighOf(m, Last(m))' = HighOf(m, j)'
    BY <1>4, <2>1, LastIs
  <2> QED
    BY <1>3, <2>1, <2>2
<1>7. \A m : Touched(m)' = Touched(m)
  <2> TAKE m
  <2>1. \A a : PinsOf(m, instr[m[1]][a])' = PinsOf(m, instr[m[1]][a])
    BY DEF PinsOf, PinsAt, PinAt
  <2> QED
    BY <1>4, <1>5, <2>1 DEF Touched
<1>8. \A m, p : HasPin(m, p)' <=> HasPin(m, p)
  BY <1>4, <1>5, <1>7 DEF HasPin
<1> QED
  BY <1>6, <1>8 DEF HighestWins

\* Of the machines that write a pin in one cycle the last one wins, for any number of
\* blocks and machines, whatever programs they run beside, and one that is alone has
\* its way.
THEOREM LastWriterWins == Looped => (Spec => []HighestWins)
<1> DEFINE Inv == HighestWins /\ \E setup \in Setups : Going(setup)
<1> SUFFICES ASSUME Looped PROVE Spec => []HighestWins
  OBVIOUS
<1>1. Init => Inv
  <2> SUFFICES ASSUME NEW setup \in Setups, InitFrom(setup)
               PROVE  HighestWins /\ Going(setup)
    BY DEF Init
  <2>1. turn = <<0, 0>> /\ \A m \in SMs : sm[m].delay = 0
    BY DEF InitFrom, SmReset
  <2> QED
    BY <2>1, InitLoops, NoneStepped DEF Going
<1>2. TypeOK /\ Inv /\ [Next]_vars => Inv'
  <2>1. ASSUME TypeOK, Inv, Next PROVE Inv'
    BY <2>1, NextGoing, NextWins
  <2>2. ASSUME Inv, UNCHANGED vars PROVE Inv'
    <3>1. ASSUME NEW setup \in Setups, Going(setup) PROVE Going(setup)'
      BY <2>2, <3>1 DEF vars, Going, Looping, Straight, Round
    <3>2. HighestWins'
      BY <2>2, SameWins
    <3> QED
      BY <2>2, <3>1, <3>2
  <2> QED
    BY <2>1, <2>2
<1>3. Inv => HighestWins
  OBVIOUS
<1> QED
  BY <1>1, <1>2, <1>3, TypeCorrect, PTL DEF Spec

\* Two bits of one word go to two pins of the window.
LEMMA BitsApart ==
  ASSUME NEW first \in Nat, NEW j \in 0 .. 31, NEW k \in 0 .. 31,
         (first + j) % 32 = (first + k) % 32
  PROVE  j = k
OBVIOUS

\* The pins a straight machine has from a MOV PINS are those of its value's bits.
LEMMA BitIsPin ==
  ASSUME TypeOK, NEW m \in SMs, NEW i, i.op = "MOV", NEW k \in 0 .. 31,
         k < reg[m].out_count
  PROVE  PinAt(m, reg[m].out_base + k) \in HighOf(m, i) <=> k \in MovValue(m, i)
<1> DEFINE first == reg[m].out_base
           n == reg[m].out_count
           value == MovValue(m, i)
<1>1. first \in Nat /\ n \in 0 .. 31
  BY MachineTyped DEF Reg
<1>2. HighOf(m, i) = {PinAt(m, first + j) : j \in Low(value, n)}
  BY DEF HighOf, PinsAt
<1> HIDE DEF first, n, value
<1>3. \A j \in 0 .. 31 : PinAt(m, first + j) = PinAt(m, first + k) => j = k
  <2>1. base[m[1]] \in {0, 16}
    BY SmTyped DEF TypeOK, Bases
  <2> SUFFICES ASSUME NEW j \in 0 .. 31, PinAt(m, first + j) = PinAt(m, first + k)
               PROVE  j = k
    OBVIOUS
  <2>2. ((first + j) % 32) + base[m[1]] = ((first + k) % 32) + base[m[1]]
    BY DEF PinAt, Window
  <2>3. (first + j) % 32 \in Int /\ (first + k) % 32 \in Int
    BY <1>1
  <2>4. (first + j) % 32 = (first + k) % 32
    BY <2>1, <2>2, <2>3
  <2> QED
    BY <1>1, <2>4, BitsApart
<1>4. Low(value, n) \subseteq 0 .. 31 /\ (k \in Low(value, n) <=> k \in value)
  BY <1>1 DEF Low, n
<1> QED
  BY <1>2, <1>3, <1>4 DEF first, value

\* The outputs of a machine that copies its inputs are those inputs, inverted or not,
\* when it has had its turn and no later machine has had the pin.
THEOREM CopiesFollow == Looped => (Spec => []RepeaterFollows)
<1> SUFFICES ASSUME Looped PROVE Spec => []RepeaterFollows
  OBVIOUS
<1>1. TypeOK /\ HighestWins => RepeaterFollows
  <2> SUFFICES ASSUME TypeOK, HighestWins, NEW m \in SMs, NEW k \in 0 .. 31
               PROVE  LET out == base[m[1]] + ((reg[m].out_base + k) % 32)
                          in == base[m[1]] + ((reg[m].in_base + k) % 32)
                          high == k < reg[m].in_count /\ Input(in)
                      IN  k < reg[m].out_count /\ HasPin(m, out) /\ Copies(Last(m)) =>
                            (out \in gpio.output <=> (Last(m).mov_op = "INVERT") # high)
    BY DEF RepeaterFollows
  <2> DEFINE out == PinAt(m, reg[m].out_base + k)
             in == PinAt(m, reg[m].in_base + k)
             high == k < reg[m].in_count /\ Input(in)
             i == Last(m)
  <2>1. /\ out = base[m[1]] + ((reg[m].out_base + k) % 32)
        /\ in = base[m[1]] + ((reg[m].in_base + k) % 32)
    <3> HIDE DEF high, i
    <3>1. base[m[1]] \in {0, 16}
      BY SmTyped DEF TypeOK, Bases
    <3>2. reg[m].out_base \in 0 .. 31 /\ reg[m].in_base \in 0 .. 31
      BY MachineTyped DEF Reg
    <3>3. (reg[m].out_base + k) % 32 \in Int /\ (reg[m].in_base + k) % 32 \in Int
      BY <3>2
    <3> QED
      BY <3>1, <3>3 DEF PinAt, Window
  <2>2. SUFFICES ASSUME k < reg[m].out_count, HasPin(m, out), Copies(i)
                 PROVE  out \in gpio.output <=> (i.mov_op = "INVERT") # high
    BY <2>1
  <2> HIDE DEF i
  <2>3. out \in gpio.output <=> out \in HighOf(m, i)
    <3>1. out \in Gpios
      BY <2>2, MachineTyped, SmTyped DEF HasPin, GpioState
    <3> QED
      BY <2>2, <3>1 DEF HighestWins, i
  <2>4. out \in HighOf(m, i) <=> k \in MovValue(m, i)
    BY <2>2, BitIsPin DEF Copies
  <2>5. k \in MovSource(m, i) <=> high
    <3>1. MovSource(m, i) = InputWord(m, reg[m].in_base, reg[m].in_count)
      BY <2>2 DEF Copies, MovSource
    <3>2. reg[m].in_count \in 0 .. 31
      BY MachineTyped DEF Reg
    <3> QED
      BY <3>1, <3>2 DEF InputWord
  <2>6. k \in MovValue(m, i) <=> (i.mov_op = "INVERT") # high
    <3>1. CASE i.mov_op = "NONE"
      BY <2>5, <3>1 DEF MovValue
    <3>2. CASE i.mov_op = "INVERT"
      BY <2>5, <3>2, ExecAssumption DEF MovValue, Invert, Bits
    <3> QED
      BY <2>2, <3>1, <3>2 DEF Copies
  <2> QED
    BY <2>3, <2>4, <2>6
<1> QED
  BY <1>1, LastWriterWins, TypeCorrect, PTL
=============================================================================
