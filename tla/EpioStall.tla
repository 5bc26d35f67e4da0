----------------------------- MODULE EpioStall ------------------------------
(***************************************************************************)
(* The stall protocol of the state machines.  One flag, stalled, serves    *)
(* every blocking instruction: IN reads it as "already shifted", IRQ WAIT  *)
(* as "already raised".  It must therefore never outlive the instruction   *)
(* that set it.  And what is executed next: after the hand-over of OUT EXEC *)
(* and MOV EXEC, whose instruction takes the place of the next one, also   *)
(* when it stalls; and at the end of the program.                          *)
(***************************************************************************)
EXTENDS EpioExec

\* The instruction passes a stalled machine by: it can neither stall nor be
\* delayed, moves no program counter, hands nothing over and counts no bits
PassesBy(i) ==
  /\ i.delay = 0
  /\ \/ i.op = "SET"
     \/ i.op = "IRQ" /\ (i.wait => i.clr)
     \/ i.op = "MOV" /\ i.dst \in {"X", "Y", "PINS", "PINDIRS"}

\* The host steps, plays pins, IRQs and FIFOs, enables or disables machines and
\* executes instructions that pass, but does not rewrite registers or memory after
\* the first cycle; and no instruction is fetched from beyond the memory.
Undisturbed ==
  /\ Host.regs = {}
  /\ Host.instrs = {}
  /\ \A c \in Host.execs : PassesBy(c[2])
  /\ UbInstrs = {}

\* The instruction is one that may stall, and what it decides before it looks
\* at the FIFO, the flag or the pin it waits for still sends it there
Blocking(m, i) ==
  \/ i.op = "WAIT"
  \/ /\ i.op = "IN"
     /\ reg[m].autopush /\ sm[m].isr_count >= reg[m].push_thresh
  \/ /\ i.op = "OUT"
     /\ reg[m].autopull /\ sm[m].osr_count >= reg[m].pull_thresh
  \/ i.op = "PULL" /\ i.block /\ ShouldPull(m, i)
  \/ i.op = "PUSH" /\ i.block /\ ShouldPush(m, i)
  \/ i.op = "IRQ" /\ i.wait /\ ~i.clr

\* A stalled machine is about to re-execute the instruction that stalled it: it
\* is in no delay, and its current instruction is a blocking one that has not
\* been let through (epio_sm_step, and each use of stalled in the opcodes).
StallJustified ==
  \A m \in SMs : sm[m].stalled =>
    /\ sm[m].delay = 0
    /\ \A i \in Current(m) : Blocking(m, i)

\* The part of a machine's state its program can see
Registers(s) ==
  <<s.x, s.y, s.isr, s.osr, s.isr_count, s.osr_count, s.pc, s.delay,
    s.exec_pending, s.exec_instr>>

\* While a machine stays stalled no cycle changes anything of it but its FIFOs, and
\* its retries request no IRQ change and write no pin: a retry is not a repetition.
StallFreezes ==
  [][\A m \in SMs :
       sm[m].stalled /\ sm'[m].stalled /\ turn' # turn =>
         /\ Registers(sm'[m]) = Registers(sm[m])
         /\ turn = m => UNCHANGED <<irq, gpio>>]_vars

\* The instruction writes the program counter itself
Redirects(i) == i.op = "JMP" \/ (i.op \in {"OUT", "MOV"} /\ i.dst = "PC")

\* It makes a word the next instruction
HandsOver(i) == i.op \in {"OUT", "MOV"} /\ i.dst = "EXEC"

\* The host executes no instruction with a delay
ExecutesUndelayed == \A c \in Host.execs : c[2].delay = 0

\* It executes no instruction that is about the program counter
ExecutesBeside == \A c \in Host.execs : ~Redirects(c[2]) /\ ~HandsOver(c[2])

\* The delay of an OUT EXEC or a MOV EXEC never holds up what it hands over: a
\* pending instruction waits for no delay but its own, which it can only have left
\* behind by a jump.
ExecAtOnce ==
  \A m \in SMs :
    sm[m].exec_pending /\ sm[m].delay > 0 => Redirects(sm[m].exec_instr)

\* An instruction that was handed over and waits for a flag, a pin, or a FIFO keeps
\* its place: it is given up only in the step that lets it through.
ExecStalls ==
  [][\A m \in SMs :
       sm[m].exec_pending /\ sm'[m].stalled =>
         sm'[m].exec_pending /\ sm'[m].exec_instr = sm[m].exec_instr]_vars

\* Whatever the host calls between two cycles, no program counter moves and no
\* pending instruction is dropped or replaced: an instruction it executes by
\* itself is executed beside the program, not in it (epio_exec_instr_sm).
HostBesideProgram ==
  [][turn' = turn => \A m \in SMs :
       /\ sm'[m].pc = sm[m].pc
       /\ sm'[m].exec_pending = sm[m].exec_pending
       /\ sm'[m].exec_instr = sm[m].exec_instr]_vars

\* The addresses of the loop a machine is configured with, in its memory mem, that
\* follow an instruction that hands over
Preceding(config, a) == IF a = config.wrap_bottom THEN config.wrap_top ELSE a - 1

Behind(config, mem) ==
  {a \in config.wrap_bottom .. config.wrap_top : HandsOver(mem[Preceding(config, a)])}

\* Every machine runs round its loop and comes to these addresses only by a hand-over;
\* what is there, and only that, the host may rewrite
Replaceable ==
  /\ ExecutesBeside
  /\ \A setup \in Setups, m \in SMs :
       LET config == setup.config[m]
           mem == setup.program[m[1]]
           loop == config.wrap_bottom .. config.wrap_top
           entered == loop \ Behind(config, mem)
       IN  /\ loop \subseteq Addrs /\ setup.start[m] \in entered
           /\ \A a \in entered :
                Redirects(mem[a]) => mem[a].op = "JMP" /\ mem[a].addr \in entered
           /\ \A a \in loop \ entered : ~HandsOver(mem[a])
           /\ \A c \in Host.regs :
                c[1] = m => c[2].wrap_bottom = config.wrap_bottom
                              /\ c[2].wrap_top = config.wrap_top
           /\ \A c \in Host.instrs :
                c[1] = m[1] => c[2] \notin entered /\ ~HandsOver(c[3])

\* Nothing that is handed over is itself about the program counter
Harmless ==
  \A m \in SMs : LET i == sm[m].exec_instr
                 IN  sm[m].exec_pending => ~Redirects(i) /\ ~HandsOver(i)

\* An instruction that is handed over is executed in place of the next one, which
\* never is: through stalls and delays the program counter waits there for exactly
\* as long as the other is pending (was_exec_pending in epio_sm_step).
ExecInPlace ==
  \A m \in SMs :
    LET replaced == sm[m].pc \in Behind(reg[m], instr[m[1]])
    IN  /\ sm[m].exec_pending <=> replaced
        /\ replaced => Current(m) = {sm[m].exec_instr}

\* In a program that ends at address top the instruction leads nowhere else
Stays(i, top) ==
  /\ ~HandsOver(i)
  /\ i.op = "JMP" => i.addr <= top
  /\ i.op = "OUT" => i.dst # "PC"                 \* it may load any byte
  /\ i.op = "MOV" /\ i.dst = "PC" => top >= 31    \* and this one any five bits

\* Every machine starts in a program that ends where it wraps and leads nowhere
\* else, whatever the host makes of its instructions
Contained ==
  /\ Host.regs = {}
  /\ \A setup \in Setups, m \in SMs :
       LET top == setup.config[m].wrap_top
       IN  /\ setup.start[m] <= top /\ setup.config[m].wrap_bottom <= top
           /\ top \in Addrs
           /\ \A a \in 0 .. top : Stays(setup.program[m[1]][a], top)
           /\ \A c \in Host.instrs :
                c[1] = m[1] /\ c[2] <= top => Stays(c[3], top)
           /\ \A c \in Host.execs : c[1] = m => Stays(c[2], top)

\* Every machine executes its own program, and never what lies beyond it, be it
\* another machine's program or what is behind the end of instr[]: the program
\* counter, which wraps only when it is exactly wrap_top, never passes it.
InProgram ==
  \A m \in SMs :
    /\ sm[m].pc \in 0 .. reg[m].wrap_top
    /\ Current(m) = {instr[m[1]][sm[m].pc]}

\* No FIFO ever holds more than MAX_FIFO_DEPTH words (an array overrun in the
\* code), whoever pushes: the host, PUSH or autopush.
FifoBounded ==
  \A m \in SMs : Len(sm[m].tx) <= FifoDepth /\ Len(sm[m].rx) <= FifoDepth
=============================================================================
