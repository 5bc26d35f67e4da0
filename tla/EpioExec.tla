------------------------------ MODULE EpioExec ------------------------------
(***************************************************************************)
(* The PIO blocks: their state machines, instruction memory, IRQ flags and *)
(* the cycle that steps them.  epio_step_cycles steps the enabled state    *)
(* machines one after the other, blocks and machines ascending, and then   *)
(* applies the IRQ requests; turn is the position of that loop.  The host  *)
(* calls the library between two cycles, when the loop is at its start.    *)
(*                                                                         *)
(* One action models one execution of one opcode, with everything it       *)
(* writes.  An execution has one of three ends: the instruction retires    *)
(* and the program counter follows it, it redirects the program counter    *)
(* itself, or it stalls and will be executed again.                        *)
(*                                                                         *)
(* An instruction fetched from beyond the instruction memory is undefined  *)
(* behaviour of the C program: any member of UbInstrs may be executed.  An *)
(* instruction that fails an assertion ends the program: no action.        *)
(*                                                                         *)
(* A definition named Bug... is a slip one could make in the definition    *)
(* that follows it.  Nothing uses it: it is put in place of its namesake   *)
(* to see that a property notices.                                         *)
(***************************************************************************)
EXTENDS EpioInstr, EpioGpio, EpioIrq, Sequences

CONSTANTS NumInstrs,         \* instructions in a block's memory: 32 in the code
          UbInstrs,          \* what may be found beyond them
          Setups,            \* the configurations to start from, see Setup
          Host               \* the calls the host makes, see HostCalls

VARIABLES instr,             \* instr[b][a]: instruction memory
          base,              \* base[b]: GPIOBASE
          reg,               \* reg[m]: the registers, as decoded fields
          sm,                \* sm[m]: epio_sm_state_t
          turn               \* the state machine the loop is at, or LoopEnd

vars == <<instr, base, reg, sm, irq, gpio, turn>>

Addrs == 0 .. NumInstrs - 1

Fifo == Seq(Word)

FifoDepth == 4               \* MAX_FIFO_DEPTH

Bases == {0, 16}

Window == 32                 \* pins a block can reach, from its GPIOBASE on

\* The fields the macros extract from EXECCTRL, SHIFTCTRL and PINCTRL
Reg ==
  [jmp_pin : 0 .. 31, status_sel : 0 .. 3, status_n : 0 .. 31,
   wrap_top : 0 .. 31, wrap_bottom : 0 .. 31,
   autopull : BOOLEAN, autopush : BOOLEAN,
   in_right : BOOLEAN, out_right : BOOLEAN,
   push_thresh : Counts, pull_thresh : Counts,
   in_base : 0 .. 31, in_count : 0 .. 31, out_base : 0 .. 31,
   out_count : 0 .. 31, set_base : 0 .. 31, set_count : 0 .. 31]

SmState ==
  [x : Word, y : Word, isr : Word, osr : Word,
   isr_count : 0 .. 32, osr_count : 0 .. 32,
   pc : 0 .. 255, delay : Delays, stalled : BOOLEAN, enabled : BOOLEAN,
   exec_pending : BOOLEAN, exec_instr : Instr, tx : Fifo, rx : Fifo]

LoopEnd == <<NumBlocks, 0>>

Turns == SMs \cup {LoopEnd}

\* What is configured before the first cycle: memory, registers, the machines
\* that are enabled and where each was sent by a JMP, GPIOBASE, output control
Setup ==
  [program : [Blocks -> [Addrs -> Instr]], config : [SMs -> Reg],
   enabled : SUBSET SMs, start : [SMs -> Indexes],
   base : [Blocks -> Bases], control : [Blocks -> SUBSET Gpios]]

HostCalls ==
  [push_tx : SUBSET (SMs \X Word), push_rx : SUBSET (SMs \X Word),
   pop_tx : SUBSET SMs, pop_rx : SUBSET SMs,
   irqs : SUBSET (Blocks \X IrqNums), toggles : SUBSET SMs,
   plays : SUBSET Gpios, pins : SUBSET Gpios, resets : BOOLEAN,
   regs : SUBSET (SMs \X Reg), instrs : SUBSET (Blocks \X Addrs \X Instr),
   execs : SUBSET (SMs \X Instr), bases : SUBSET (Blocks \X Bases)]

\* WordBits is 32 wherever words are executed: counts and thresholds reach it
ASSUME ExecAssumption ==
  /\ WordBits = 32
  /\ NumGpios >= 48
  /\ NumInstrs \in 1 .. 32
  /\ UbInstrs \subseteq Instr
  /\ Setups \subseteq Setup
  /\ Host \in HostCalls

TypeOK ==
  /\ instr \in [Blocks -> [Addrs -> Instr]]
  /\ base \in [Blocks -> Bases]
  /\ reg \in [SMs -> Reg]
  /\ sm \in [SMs -> SmState]
  /\ irq \in [Blocks -> IrqState]
  /\ gpio \in GpioState
  /\ turn \in Turns

-----------------------------------------------------------------------------
(* Before the first cycle: epio_init, and a configuration applied to it *)

SmReset(setup, m) ==
  [x |-> {}, y |-> {}, isr |-> {}, osr |-> {},
   isr_count |-> 0, osr_count |-> 32,
   pc |-> setup.start[m], delay |-> 0, stalled |-> FALSE,
   enabled |-> m \in setup.enabled,
   exec_pending |-> FALSE, exec_instr |-> Decode({}),
   tx |-> <<>>, rx |-> <<>>]

InitFrom(setup) ==
  /\ instr = setup.program
  /\ base = setup.base
  /\ reg = setup.config
  /\ sm = [m \in SMs |-> SmReset(setup, m)]
  /\ IrqInit
  /\ gpio = [GpioReset EXCEPT !.control = setup.control]
  /\ turn = <<0, 0>>

Init == \E setup \in Setups : InitFrom(setup)

-----------------------------------------------------------------------------
(* The ends of an execution.  s is what instruction i makes of sm[m];       *)
(* stepping is TRUE in epio_sm_step and FALSE when the host has             *)
(* epio_exec_instr_sm execute an instruction outside the cycle.             *)

Put(m, s) == sm' = [sm EXCEPT ![m] = s]

BugNewDelay(i) == i.delay

\* OUT EXEC and MOV EXEC ignore their delay
NewDelay(i) ==
  IF i.op \in {"OUT", "MOV"} /\ i.dst = "EXEC" THEN 0 ELSE i.delay

BugFollowing(m, pc) ==
  IF pc = (reg[m].wrap_top + 1) % 256 THEN reg[m].wrap_bottom ELSE (pc + 1) % 256

\* Where the program counter, a uint8_t, goes after the instruction at pc
Following(m, pc) ==
  IF pc = reg[m].wrap_top THEN reg[m].wrap_bottom ELSE (pc + 1) % 256

\* The program counter moves on, and an EXEC that was pending is done
Advanced(m, s) ==
  [s EXCEPT !.pc = Following(m, @),
            !.exec_pending = @ /\ ~sm[m].exec_pending]

BugRetire(m, i, stepping, s) ==
  Put(m, Advanced(m, [s EXCEPT !.delay = NewDelay(i)]))

Retire(m, i, stepping, s) ==
  LET t == [s EXCEPT !.delay = NewDelay(i)]
  IN  Put(m, IF stepping THEN Advanced(m, t) ELSE t)

Redirect(m, i, s) == Put(m, [s EXCEPT !.delay = NewDelay(i)])

BugStall(m, s) == Put(m, [s EXCEPT !.stalled = TRUE, !.exec_pending = FALSE])

Stall(m, s) == Put(m, [s EXCEPT !.stalled = TRUE])

-----------------------------------------------------------------------------
(* What the instructions read and move *)

BugPinAt(m, k) == k + base[m[1]]

\* The GPIO that is k pins above pin 0 of m's window, wrapping in the window
PinAt(m, k) == (k % Window) + base[m[1]]

PinsAt(m, first, ks) == {PinAt(m, first + k) : k \in ks}

\* n input pins from first on, as a word
InputWord(m, first, n) == {k \in 0 .. n - 1 : Input(PinAt(m, first + k))}

\* epio_get_jmp_pin_state
JmpPin(m) == Input(reg[m].jmp_pin + base[m[1]])

BugPushIsr(s) == [s EXCEPT !.rx = Append(@, s.isr), !.stalled = FALSE]

PushIsr(s) ==
  [s EXCEPT !.rx = Append(@, s.isr), !.isr = {}, !.isr_count = 0,
            !.stalled = FALSE]

BugPullOsr(s) == [s EXCEPT !.osr = Head(s.tx), !.tx = Tail(@), !.osr_count = 0]

PullOsr(s) ==
  [s EXCEPT !.osr = Head(s.tx), !.tx = Tail(@), !.osr_count = 0,
            !.stalled = FALSE]

BugRxRoom(s) == Len(s.rx) <= FifoDepth

RxRoom(s) == Len(s.rx) < FifoDepth

Capped(n) == IF n > 32 THEN 32 ELSE n

-----------------------------------------------------------------------------
(* JMP *)

\* X-- and Y-- keep only a byte of the register before they test it, and
\* NOT_OSRE tests that the OSR holds no more bits to shift out
JmpTaken(m, cond) ==
  LET s == sm[m]
  IN  \/ cond = "ALWAYS"
      \/ cond = "NOT_X" /\ s.x = {}
      \/ cond = "X_DEC" /\ Low(s.x, 8) # {}
      \/ cond = "NOT_Y" /\ s.y = {}
      \/ cond = "Y_DEC" /\ Low(s.y, 8) # {}
      \/ cond = "X_NOT_Y" /\ s.x # s.y
      \/ cond = "PIN" /\ JmpPin(m)
      \/ cond = "NOT_OSRE" /\ s.osr_count >= reg[m].pull_thresh

Jmp(m, i, stepping) ==
  /\ i.op = "JMP"
  /\ LET s == [sm[m] EXCEPT
                 !.x = IF i.cond = "X_DEC" THEN Decrement(@) ELSE @,
                 !.y = IF i.cond = "Y_DEC" THEN Decrement(@) ELSE @]
     IN  \/ /\ JmpTaken(m, i.cond)
            /\ Redirect(m, i, [s EXCEPT !.pc = i.addr])
         \/ /\ ~JmpTaken(m, i.cond)
            /\ Retire(m, i, stepping, s)
  /\ UNCHANGED <<irq, gpio>>

-----------------------------------------------------------------------------
(* WAIT *)

\* The pin of WAIT GPIO and WAIT PIN: neither wraps in the window
WaitPin(m, i) ==
  i.index + base[m[1]] + (IF i.src = "PIN" THEN reg[m].in_base ELSE 0)

WaitLevel(m, i) ==
  CASE i.src \in {"GPIO", "PIN"} -> Input(WaitPin(m, i))
    [] i.src = "IRQ" -> Flag(IrqTarget(m[1], m[2], i.index))
    [] i.src = "JMP_PIN" -> JmpPin(m)

Wait(m, i, stepping) ==
  /\ i.op = "WAIT"
  /\ i.src \in {"GPIO", "PIN"} => WaitPin(m, i) \in Gpios      \* CHECK_GPIO
  /\ \/ /\ WaitLevel(m, i) = i.polarity
        /\ Retire(m, i, stepping, [sm[m] EXCEPT !.stalled = FALSE])
        /\ IF i.src = "IRQ" /\ i.polarity
           THEN RequestClear(IrqTarget(m[1], m[2], i.index))
           ELSE UNCHANGED irq
     \/ /\ WaitLevel(m, i) # i.polarity
        /\ Stall(m, sm[m])
        /\ UNCHANGED irq
  /\ UNCHANGED gpio

-----------------------------------------------------------------------------
(* IN, with autopush *)

InSource(m, i) ==
  CASE i.src = "PINS" -> InputWord(m, reg[m].in_base, i.count)
    [] i.src = "X" -> sm[m].x
    [] i.src = "Y" -> sm[m].y
    [] i.src = "NULL" -> {}
    [] i.src = "ISR" -> sm[m].isr
    [] i.src = "OSR" -> sm[m].osr

ShiftedIn(m, i) ==
  LET data == Low(InSource(m, i), i.count)
  IN  [sm[m] EXCEPT
         !.isr = IF reg[m].in_right
                 THEN ShiftRight(@, i.count) \cup ShiftLeft(data, 32 - i.count)
                 ELSE ShiftLeft(@, i.count) \cup data,
         !.isr_count = Capped(@ + i.count)]

BugInState(m, i) == ShiftedIn(m, i)

\* An IN that stalled on a full RX FIFO has shifted already
InState(m, i) == IF sm[m].stalled THEN sm[m] ELSE ShiftedIn(m, i)

In(m, i, stepping) ==
  /\ i.op = "IN" /\ (~sm[m].stalled => i.src # "BAD")
  /\ LET s == InState(m, i)
         push == reg[m].autopush /\ s.isr_count >= reg[m].push_thresh
     IN  \/ /\ push /\ RxRoom(s)
            /\ Retire(m, i, stepping, PushIsr(s))
         \/ /\ push /\ ~RxRoom(s)
            /\ Stall(m, s)
         \/ /\ ~push
            /\ Retire(m, i, stepping, s)
  /\ UNCHANGED <<irq, gpio>>

-----------------------------------------------------------------------------
(* OUT, with autopull *)

\* The bits OUT takes from the OSR
OutData(m, s, n) ==
  IF reg[m].out_right THEN Low(s.osr, n) ELSE ShiftRight(s.osr, 32 - n)

ShiftedOut(m, s, n) ==
  [s EXCEPT !.osr = IF reg[m].out_right THEN ShiftRight(@, n) ELSE ShiftLeft(@, n),
            !.osr_count = Capped(@ + n)]

\* The destinations OUT and MOV share, for n pins of data
Deliver(m, i, stepping, s, n, data) ==
  LET pins == PinsAt(m, reg[m].out_base, 0 .. n - 1)
      ones == PinsAt(m, reg[m].out_base, Low(data, n))
  IN  \/ /\ i.dst = "X"
         /\ Retire(m, i, stepping, [s EXCEPT !.x = data])
         /\ UNCHANGED gpio
      \/ /\ i.dst = "Y"
         /\ Retire(m, i, stepping, [s EXCEPT !.y = data])
         /\ UNCHANGED gpio
      \/ /\ i.dst = "EXEC"
         /\ Retire(m, i, stepping, [s EXCEPT !.exec_instr = Decode(Low(data, 16)),
                                          !.exec_pending = TRUE])
         /\ UNCHANGED gpio
      \/ /\ i.dst = "PINS"
         /\ Retire(m, i, stepping, s)
         /\ gpio' = WritePins(m[1], pins, ones)
      \/ /\ i.dst = "PINDIRS"
         /\ Retire(m, i, stepping, s)
         /\ gpio' = WriteDirs(m[1], pins, ones)

OutTo(m, i, stepping, s, data) ==
  \/ Deliver(m, i, stepping, s, i.count, data)
  \/ /\ i.dst = "NULL"
     /\ Retire(m, i, stepping, s)
     /\ UNCHANGED gpio
  \/ /\ i.dst = "PC"                            \* a uint8_t: not kept below 32
     /\ Redirect(m, i, [s EXCEPT !.pc = ByteOf(data)])
     /\ UNCHANGED gpio
  \/ /\ i.dst = "ISR"
     /\ Retire(m, i, stepping, [s EXCEPT !.isr = data, !.isr_count = i.count])
     /\ UNCHANGED gpio

Out(m, i, stepping) ==
  /\ i.op = "OUT"
  /\ LET refill == reg[m].autopull /\ sm[m].osr_count >= reg[m].pull_thresh
         s == IF refill THEN PullOsr(sm[m]) ELSE sm[m]
     IN  \/ /\ refill /\ sm[m].tx = <<>>
            /\ Stall(m, sm[m])
            /\ UNCHANGED gpio
         \/ /\ refill => sm[m].tx # <<>>
            /\ OutTo(m, i, stepping, ShiftedOut(m, s, i.count),
                     OutData(m, s, i.count))
  /\ UNCHANGED irq

-----------------------------------------------------------------------------
(* PULL and PUSH *)

\* With autopull, a PULL while the OSR still holds bits does nothing
ShouldPull(m, i) ==
  LET empty == sm[m].osr_count >= reg[m].pull_thresh
  IN  (i.if_empty => empty) /\ (reg[m].autopull => empty)

Pull(m, i, stepping) ==
  /\ i.op = "PULL"
  /\ \/ /\ ~ShouldPull(m, i)
        /\ Retire(m, i, stepping, sm[m])
     \/ /\ ShouldPull(m, i) /\ sm[m].tx # <<>>
        /\ Retire(m, i, stepping, PullOsr(sm[m]))
     \/ /\ ShouldPull(m, i) /\ sm[m].tx = <<>> /\ i.block
        /\ Stall(m, sm[m])
     \/ /\ ShouldPull(m, i) /\ sm[m].tx = <<>> /\ ~i.block
        /\ Retire(m, i, stepping,
                  [sm[m] EXCEPT !.osr = sm[m].x, !.osr_count = 0,
                                !.stalled = FALSE])
  /\ UNCHANGED <<irq, gpio>>

ShouldPush(m, i) == i.if_full => sm[m].isr_count >= reg[m].push_thresh

Push(m, i, stepping) ==
  /\ i.op = "PUSH"
  /\ \/ /\ ~ShouldPush(m, i)
        /\ Retire(m, i, stepping, sm[m])
     \/ /\ ShouldPush(m, i) /\ RxRoom(sm[m])
        /\ Retire(m, i, stepping, PushIsr(sm[m]))
     \/ /\ ShouldPush(m, i) /\ ~RxRoom(sm[m]) /\ i.block
        /\ Stall(m, sm[m])
     \/ /\ ShouldPush(m, i) /\ ~RxRoom(sm[m]) /\ ~i.block
        /\ Retire(m, i, stepping, [sm[m] EXCEPT !.isr = {}, !.isr_count = 0])
  /\ UNCHANGED <<irq, gpio>>

-----------------------------------------------------------------------------
(* MOV *)

\* STATUS is all ones or all zeroes
StatusHolds(m) ==
  CASE reg[m].status_sel = 0 -> Len(sm[m].tx) < reg[m].status_n
    [] reg[m].status_sel = 1 -> Len(sm[m].rx) < reg[m].status_n
    [] reg[m].status_sel = 2 -> Flag(IrqTarget(m[1], m[2], reg[m].status_n))

MovSource(m, i) ==
  CASE i.src = "PINS" -> InputWord(m, reg[m].in_base, reg[m].in_count)
    [] i.src = "X" -> sm[m].x
    [] i.src = "Y" -> sm[m].y
    [] i.src = "NULL" -> {}
    [] i.src = "STATUS" -> IF StatusHolds(m) THEN Bits ELSE {}
    [] i.src = "ISR" -> sm[m].isr
    [] i.src = "OSR" -> sm[m].osr

MovValue(m, i) ==
  LET v == MovSource(m, i)
  IN  CASE i.mov_op = "NONE" -> v
        [] i.mov_op = "INVERT" -> Invert(v)
        [] i.mov_op = "BITREV" -> Reverse(v)

Mov(m, i, stepping) ==
  /\ i.op = "MOV" /\ i.src # "BAD" /\ i.mov_op # "BAD"
  /\ i.src = "STATUS" => reg[m].status_sel # 3
  /\ LET data == MovValue(m, i)
         s == sm[m]
     IN  \/ Deliver(m, i, stepping, s, reg[m].out_count, data)
         \/ /\ i.dst = "PC"
            /\ Redirect(m, i, [s EXCEPT !.pc = ByteOf(Low(data, 5))])
            /\ UNCHANGED gpio
         \/ /\ i.dst = "ISR"
            /\ Retire(m, i, stepping, [s EXCEPT !.isr = data, !.isr_count = 0])
            /\ UNCHANGED gpio
         \/ /\ i.dst = "OSR"
            /\ Retire(m, i, stepping, [s EXCEPT !.osr = data, !.osr_count = 0])
            /\ UNCHANGED gpio
  /\ UNCHANGED irq

-----------------------------------------------------------------------------
(* IRQ and SET *)

BugIrq(m, i, stepping) ==
  LET t == IrqTarget(m[1], m[2], i.index)
  IN  /\ i.op = "IRQ"
      /\ IF i.clr THEN RequestClear(t) ELSE RequestSet(t)
      /\ IF ~i.clr /\ i.wait /\ (~sm[m].stalled \/ Flag(t))
         THEN Stall(m, sm[m])
         ELSE Retire(m, i, stepping, [sm[m] EXCEPT !.stalled = FALSE])
      /\ UNCHANGED gpio

\* IRQ WAIT sets the flag when it is first executed, and stalls until the flag
\* is seen clear
Irq(m, i, stepping) ==
  LET t == IrqTarget(m[1], m[2], i.index)
  IN  /\ i.op = "IRQ"
      /\ \/ /\ i.clr
            /\ RequestClear(t)
            /\ Retire(m, i, stepping, sm[m])
         \/ /\ ~i.clr /\ ~i.wait
            /\ RequestSet(t)
            /\ Retire(m, i, stepping, sm[m])
         \/ /\ ~i.clr /\ i.wait /\ ~sm[m].stalled
            /\ RequestSet(t)
            /\ Stall(m, sm[m])
         \/ /\ ~i.clr /\ i.wait /\ sm[m].stalled /\ ~Flag(t)
            /\ Retire(m, i, stepping, [sm[m] EXCEPT !.stalled = FALSE])
            /\ UNCHANGED irq
         \/ /\ ~i.clr /\ i.wait /\ sm[m].stalled /\ Flag(t)
            /\ Stall(m, sm[m])
            /\ UNCHANGED irq
      /\ UNCHANGED gpio

Set(m, i, stepping) ==
  LET n == reg[m].set_count
      pins == PinsAt(m, reg[m].set_base, 0 .. n - 1)
      ones == PinsAt(m, reg[m].set_base, Low(i.data, n))
      s == [sm[m] EXCEPT !.x = IF i.dst = "X" THEN i.data ELSE @,
                         !.y = IF i.dst = "Y" THEN i.data ELSE @]
  IN  /\ i.op = "SET" /\ i.dst # "BAD"
      /\ Retire(m, i, stepping, s)
      /\ \/ i.dst \in {"X", "Y"} /\ UNCHANGED gpio
         \/ i.dst = "PINS" /\ gpio' = WritePins(m[1], pins, ones)
         \/ i.dst = "PINDIRS" /\ gpio' = WriteOwnDirs(m[1], pins, ones)
      /\ UNCHANGED irq

-----------------------------------------------------------------------------
(* The cycle *)

Execute(m, i, stepping) ==
  \/ Jmp(m, i, stepping)
  \/ Wait(m, i, stepping)
  \/ In(m, i, stepping)
  \/ Out(m, i, stepping)
  \/ Pull(m, i, stepping)
  \/ Push(m, i, stepping)
  \/ Mov(m, i, stepping)
  \/ Irq(m, i, stepping)
  \/ Set(m, i, stepping)

BugCurrent(m) == IF sm[m].pc \in Addrs THEN {instr[m[1]][sm[m].pc]} ELSE UbInstrs

\* The instruction a step executes, as a set: see UbInstrs
Current(m) ==
  IF sm[m].exec_pending THEN {sm[m].exec_instr}
  ELSE IF sm[m].pc \in Addrs THEN {instr[m[1]][sm[m].pc]}
  ELSE UbInstrs

BugNextTurn(m) ==
  IF m[2] < NumSms - 2 THEN <<m[1], m[2] + 1>> ELSE <<m[1] + 1, 0>>

\* The loop over blocks and machines
NextTurn(m) ==
  IF m[2] < NumSms - 1 THEN <<m[1], m[2] + 1>>
  ELSE <<m[1] + 1, 0>>

BugDelayed(m) ==
  /\ turn = m /\ sm[m].enabled
  /\ Put(m, [sm[m] EXCEPT !.delay = (@ - 1) % 256])
  /\ turn' = NextTurn(m)
  /\ UNCHANGED <<instr, base, reg, irq, gpio>>

\* A state machine in a delay only counts it down
Delayed(m) ==
  /\ turn = m /\ sm[m].enabled /\ sm[m].delay > 0
  /\ Put(m, [sm[m] EXCEPT !.delay = @ - 1])
  /\ turn' = NextTurn(m)
  /\ UNCHANGED <<instr, base, reg, irq, gpio>>

Step(m) ==
  /\ turn = m /\ sm[m].enabled /\ sm[m].delay = 0
  /\ \E i \in Current(m) : Execute(m, i, TRUE)
  /\ turn' = NextTurn(m)
  /\ UNCHANGED <<instr, base, reg>>

Skip(m) ==
  /\ turn = m /\ ~sm[m].enabled
  /\ turn' = NextTurn(m)
  /\ UNCHANGED <<instr, base, reg, sm, irq, gpio>>

FinishStep ==
  /\ turn = LoopEnd
  /\ ApplyRequests
  /\ turn' = <<0, 0>>
  /\ UNCHANGED <<instr, base, reg, sm, gpio>>

Cycle == FinishStep \/ \E m \in SMs : Delayed(m) \/ Step(m) \/ Skip(m)

-----------------------------------------------------------------------------
(* The host's calls.  A push to a full FIFO and a pop of an empty one fail  *)
(* an assertion.                                                            *)

PushTx(m, w) ==
  /\ Len(sm[m].tx) < FifoDepth
  /\ Put(m, [sm[m] EXCEPT !.tx = Append(@, w)])

PushRx(m, w) ==
  /\ Len(sm[m].rx) < FifoDepth
  /\ Put(m, [sm[m] EXCEPT !.rx = Append(@, w)])

PopTx(m) == sm[m].tx # <<>> /\ Put(m, [sm[m] EXCEPT !.tx = Tail(@)])

PopRx(m) == sm[m].rx # <<>> /\ Put(m, [sm[m] EXCEPT !.rx = Tail(@)])

\* The FIFO calls, and epio_enable_sm and epio_disable_sm
HostSm ==
  /\ \/ \E c \in Host.push_tx : PushTx(c[1], c[2])
     \/ \E c \in Host.push_rx : PushRx(c[1], c[2])
     \/ \E m \in Host.pop_tx : PopTx(m)
     \/ \E m \in Host.pop_rx : PopRx(m)
     \/ \E m \in Host.toggles, on \in BOOLEAN :
          Put(m, [sm[m] EXCEPT !.enabled = on])
  /\ UNCHANGED <<instr, base, reg, irq, gpio>>

HostIrq ==
  /\ \E c \in Host.irqs : SetBlockIrq(c[1], c[2]) \/ ClearBlockIrq(c[1], c[2])
  /\ UNCHANGED <<instr, base, reg, sm, gpio>>

HostPins ==
  /\ \/ HostPlays(Host.plays)
     \/ HostConfigures(Host.pins)
     \/ Host.resets /\ ResetGpios
  /\ UNCHANGED <<instr, base, reg, sm, irq>>

\* epio_set_sm_reg, epio_set_instr and epio_set_gpiobase
HostConfig ==
  /\ \/ /\ \E c \in Host.regs : reg' = [reg EXCEPT ![c[1]] = c[2]]
        /\ UNCHANGED <<instr, base>>
     \/ /\ \E c \in Host.instrs :
             instr' = [instr EXCEPT ![c[1]] = [@ EXCEPT ![c[2]] = c[3]]]
        /\ UNCHANGED <<reg, base>>
     \/ /\ \E c \in Host.bases : base' = [base EXCEPT ![c[1]] = c[2]]
        /\ UNCHANGED <<reg, instr>>
  /\ UNCHANGED <<sm, irq, gpio>>

\* An instruction executed at once, as epio_from_apio does with pre-instructions
HostExec ==
  /\ \E c \in Host.execs : Execute(c[1], c[2], FALSE)
  /\ UNCHANGED <<instr, base, reg>>

HostCall ==
  /\ turn = <<0, 0>>
  /\ HostSm \/ HostIrq \/ HostPins \/ HostConfig \/ HostExec
  /\ UNCHANGED turn

Next == Cycle \/ HostCall

Spec == Init /\ [][Next]_vars

\* The host never stops stepping the emulator
FairSpec == Spec /\ WF_vars(Cycle)
=============================================================================
