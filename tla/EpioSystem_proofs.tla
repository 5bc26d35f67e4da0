-------------------------- MODULE EpioSystem_proofs --------------------------
(***************************************************************************)
(* epio_from_apio moves no pin, whatever is recorded, for a chip of any    *)
(* size; what it configures, and the system that is then stepped, keep the *)
(* types of the state machines; and in that system the DMA channels are    *)
(* what EpioLookup promises.                                               *)
(***************************************************************************)
EXTENDS EpioSystem, EpioStall_proofs, EpioDmaChannel_proofs

-----------------------------------------------------------------------------
(* The pins of a chip that is being configured *)

\* On a chip whose blocks control no pin an instruction moves nothing.
LEMMA UncontrolledStays ==
  ASSUME gpio = GpioReset, NEW m \in SMs, UNCHANGED gpio \/ BlockWrites(m[1])
  PROVE  gpio' = gpio
<1>1. m[1] \in Blocks
  BY SmTyped
<1>2. /\ gpio.control[m[1]] = {} /\ gpio.dir = {} /\ gpio.output = Gpios
      /\ gpio \in GpioState
  BY <1>1, ResetTyped DEF GpioReset
<1>3. ASSUME NEW pins \in SUBSET Gpios
      PROVE  /\ [gpio EXCEPT !.output = (@ \ {}) \cup {}] = gpio
             /\ Redirected({}, pins) = gpio
  BY <1>2 DEF GpioState, Redirected
<1>4. ASSUME NEW pins \in SUBSET Gpios, NEW ones \in SUBSET Gpios
      PROVE  WritePins(m[1], pins, ones) = gpio
  <2>1. pins \cap gpio.control[m[1]] = {} /\ ones \cap {} = {}
    BY <1>2
  <2> QED
    BY <1>3, <2>1 DEF WritePins
<1>5. ASSUME NEW pins \in SUBSET Gpios, NEW ones \in SUBSET Gpios
      PROVE  WriteDirs(m[1], pins, ones) = gpio
  <2>1. ones \cap gpio.control[m[1]] = {} /\ pins \ ones \in SUBSET Gpios
    BY <1>2
  <2> QED
    BY <1>3, <2>1 DEF WriteDirs
<1>6. ASSUME NEW pins \in SUBSET Gpios, NEW ones \in SUBSET Gpios
      PROVE  WriteOwnDirs(m[1], pins, ones) = gpio
  <2>1. WriteOwnDirs(m[1], pins, ones) = Redirected({}, {})
    BY <1>2 DEF WriteOwnDirs
  <2>2. {} \in SUBSET Gpios
    OBVIOUS
  <2> QED
    BY <1>3, <2>1, <2>2
<1>7. CASE BlockWrites(m[1])
  <2>1. PICK pins \in SUBSET Gpios, ones \in SUBSET Gpios :
          \/ gpio' = WritePins(m[1], pins, ones)
          \/ gpio' = WriteDirs(m[1], pins, ones)
          \/ gpio' = WriteOwnDirs(m[1], pins, ones)
    BY <1>7 DEF BlockWrites
  <2> QED
    BY <1>4, <1>5, <1>6, <2>1
<1> QED
  BY <1>7

-----------------------------------------------------------------------------
(* epio_from_apio *)

\* The macros make registers within their fields of any three words.
LEMMA RegOfTyped ==
  ASSUME NEW execctrl, NEW shiftctrl, NEW pinctrl
  PROVE  RegOf(execctrl, shiftctrl, pinctrl) \in Reg
<1>1. \A n \in 0 .. 31 : Threshold(n) \in Counts
  BY DEF Threshold, Counts
<1> QED
  BY <1>1, FieldBounds DEF RegOf, Reg

\* epio_init is one of the configurations of EpioExec.
LEMMA FreshTyped == Fresh \in Setup
BY RegOfTyped, DecodeTyped, ChipAssumption, ExecAssumption
DEF Fresh, Setup, Indexes, Bases

LEMMA BootInitTyped == BootInit => TypeOK
BY FreshTyped, InitFromTyped DEF BootInit

LEMMA LoadBlockTyped ==
  ASSUME TypeOK, NEW b \in Blocks, LoadBlock(b)
  PROVE  TypeOK'
<1>1. base' \in [Blocks -> Bases]
  BY DEF LoadBlock, TypeOK
<1>2. instr' \in [Blocks -> [Addrs -> Instr]]
  <2> DEFINE loaded == [a \in Addrs |-> IF a < Len(Apio.instr[b])
                                        THEN Decode(Apio.instr[b][a + 1])
                                        ELSE instr[b][a]]
  <2>1. loaded \in [Addrs -> Instr]
    BY DecodeTyped DEF TypeOK
  <2>2. instr' = [instr EXCEPT ![b] = loaded]
    BY DEF LoadBlock, TypeOK
  <2> HIDE DEF loaded
  <2> QED
    BY <2>1, <2>2 DEF TypeOK
<1> QED
  BY <1>1, <1>2 DEF LoadBlock, TypeOK

LEMMA LoadSmTyped ==
  ASSUME TypeOK, NEW m \in SMs, LoadSm(m)
  PROVE  TypeOK'
<1> DEFINE a == Apio.sms[m]
<1>1. a \in SmRecord
  BY ApioAssumption
<1>2. \A q \in Seq(Word) : LastFirst(q) \in Seq(Word)
  BY DEF LastFirst
<1>3. sm[m] \in SmState
  BY MachineTyped
<1>4. sm[m].tx \o LastFirst(a.tx) \in Fifo /\ sm[m].rx \o LastFirst(a.rx) \in Fifo
  BY <1>1, <1>2, <1>3 DEF SmRecord, SmState, Fifo
<1>5. [[sm[m] EXCEPT !.tx = @ \o LastFirst(a.tx)]
               EXCEPT !.rx = @ \o LastFirst(a.rx)] \in SmState
  BY <1>3, <1>4 DEF SmState
<1>6. sm' = [sm EXCEPT ![m] =
               [[sm[m] EXCEPT !.tx = @ \o LastFirst(a.tx)]
                       EXCEPT !.rx = @ \o LastFirst(a.rx)]]
  BY <1>3 DEF LoadSm, TypeOK, SmState
<1>7. sm' \in [SMs -> SmState]
  BY <1>5, <1>6 DEF TypeOK
<1>8. reg' \in [SMs -> Reg]
  BY RegOfTyped DEF LoadSm, TypeOK
<1> QED
  BY <1>7, <1>8 DEF LoadSm, TypeOK

LEMMA PreInstrTyped ==
  ASSUME TypeOK, NEW m \in SMs, PreInstr(m)
  PROVE  TypeOK' /\ (UNCHANGED gpio \/ BlockWrites(m[1]))
<1>1. PICK i \in Instr : Execute(m, i, FALSE)
  BY DecodeTyped DEF PreInstr
<1>2. Typed /\ (UNCHANGED gpio \/ BlockWrites(m[1]))
  BY <1>1, ExecuteTyped, ExecuteWrites
<1> QED
  BY <1>2 DEF PreInstr, Typed, TypeOK

LEMMA EnableSmTyped ==
  ASSUME TypeOK, NEW m \in SMs, EnableSm(m)
  PROVE  TypeOK'
<1>1. sm[m].enabled \in BOOLEAN /\ Apio.sms[m].enabled \in BOOLEAN
  BY ApioAssumption, MachineTyped DEF SmRecord, SmState
<1>2. [sm[m] EXCEPT !.enabled = @ \/ Apio.sms[m].enabled] \in SmState
  BY <1>1, MachineTyped, UpdatesTyped
<1> QED
  BY <1>2 DEF EnableSm, TypeOK

LEMMA ConfigurePinsTyped ==
  ASSUME TypeOK, ConfigurePins
  PROVE  TypeOK'
<1>1. gpio' \in GpioState
  BY ApioAssumption DEF ConfigurePins, TypeOK, GpioState
<1> QED
  BY <1>1 DEF ConfigurePins, TypeOK

LEMMA FromApioTyped ==
  ASSUME TypeOK, FromApio
  PROVE  TypeOK'
BY LoadBlockTyped, LoadSmTyped, PreInstrTyped, EnableSmTyped, ConfigurePinsTyped
DEF FromApio

-----------------------------------------------------------------------------
(* The DMA channels at the FIFOs of the machines *)

\* What a step finds at the FIFOs of its channel.
LEMMA ChannelFinds ==
  ASSUME TypeOK, ChannelsInv, NEW c \in Channels
  PROVE  LET d == dma[c]
             room == Len(sm[d.to].tx) < FifoDepth
         IN  /\ d \in DmaState /\ d.from \in SMs /\ d.to \in SMs
             /\ room \in BOOLEAN
             /\ sm[d.from].rx \in Seq(Word)
             /\ d.setup => InUse(d)
<1>1. dma[c] \in DmaState
  BY DEF ChannelsInv, ChannelsTypeOK
<1>2. dma[c].from \in SMs /\ dma[c].to \in SMs
  BY <1>1 DEF DmaState
<1>3. sm[dma[c].from].rx \in Seq(Word)
  BY <1>2, MachineTyped DEF SmState, Fifo
<1> QED
  BY <1>1, <1>2, <1>3 DEF ChannelsInv

\* What a step of channel d makes of the FIFOs of machine m
ServedFifos(d, room, q, m) ==
  [sm[m] EXCEPT
     !.rx = IF Accepts(d, room, q) /\ m = d.from THEN Tail(@) ELSE @,
     !.tx = IF Pushes(d, room) /\ m = d.to THEN Append(@, d.read_value) ELSE @]

LEMMA ServedTyped ==
  ASSUME TypeOK, FifoBounded, NEW d \in DmaState, NEW m \in SMs
  PROVE  LET served == ServedFifos(d, Len(sm[d.to].tx) < FifoDepth, sm[d.from].rx, m)
         IN  /\ served \in SmState
             /\ Len(served.rx) <= FifoDepth /\ Len(served.tx) <= FifoDepth
<1> DEFINE room == Len(sm[d.to].tx) < FifoDepth
           taken == sm[d.from].rx
           q == IF Accepts(d, room, taken) /\ m = d.from THEN Tail(sm[m].rx)
                ELSE sm[m].rx
           r == IF Pushes(d, room) /\ m = d.to
                THEN Append(sm[m].tx, d.read_value) ELSE sm[m].tx
           served == [[sm[m] EXCEPT !.rx = q] EXCEPT !.tx = r]
<1>1. /\ sm[m].rx \in Seq(Word) /\ sm[m].tx \in Seq(Word)
      /\ Len(sm[m].tx) <= 4 /\ Len(sm[m].rx) <= 4
  BY MachineTyped DEF SmState, Fifo, FifoBounded, FifoDepth
<1>2. q \in Seq(Word) /\ Len(q) <= 4
  <2>1. CASE Accepts(d, room, taken) /\ m = d.from
    <3>1. sm[m].rx # <<>> /\ q = Tail(sm[m].rx)
      BY <2>1 DEF Accepts
    <3> QED
      BY <1>1, <3>1
  <2>2. CASE ~(Accepts(d, room, taken) /\ m = d.from)
    BY <1>1, <2>2
  <2> QED
    BY <2>1, <2>2
<1>3. r \in Seq(Word) /\ Len(r) <= 4
  <2>1. CASE Pushes(d, room) /\ m = d.to
    <3>1. Len(sm[m].tx) < 4 /\ r = Append(sm[m].tx, d.read_value)
      BY <2>1 DEF Pushes, FifoDepth
    <3>2. d.read_value \in Word
      BY DEF DmaState
    <3> QED
      BY <1>1, <3>1, <3>2
  <2>2. CASE ~(Pushes(d, room) /\ m = d.to)
    BY <1>1, <2>2
  <2> QED
    BY <2>1, <2>2
<1>4. sm[m] \in SmState
  BY MachineTyped
<1>5. ServedFifos(d, room, taken, m) = served
  BY <1>4 DEF ServedFifos, SmState
<1>6. /\ q \in Fifo /\ r \in Fifo
      /\ Len(q) <= FifoDepth /\ Len(r) <= FifoDepth
  BY <1>2, <1>3 DEF Fifo, FifoDepth
<1> HIDE DEF q, r
<1>7. served \in SmState /\ served.rx = q /\ served.tx = r
  BY <1>4, <1>6 DEF SmState
<1> HIDE DEF served
<1> QED
  BY <1>5, <1>6, <1>7

-----------------------------------------------------------------------------
(* The invariant.  The FIFOs of the machines are bounded while             *)
(* epio_from_apio fills them because it fills each once, and while the     *)
(* chip runs because whoever pushes looks first: PUSH and autopush, the    *)
(* host, and the DMA channels.                                             *)

Before(m, n) == m[1] < n[1] \/ (m[1] = n[1] /\ m[2] < n[2])

\* epio_from_apio has not come to machine m
Unloaded(m) ==
  \/ boot.at \in {"block", "sm"} /\ boot.m = m
  \/ boot.at \in {"block", "sm", "pre"} /\ Before(boot.m, m)

\* What epio_from_apio has not come to is as epio_init left it
Untouched ==
  /\ chan = ChanEnd /\ turn = <<0, 0>> /\ gpio = GpioReset
  /\ \A m \in SMs : Unloaded(m) => sm[m].tx = <<>> /\ sm[m].rx = <<>>

SystemInv ==
  /\ TypeOK /\ FifoBounded
  /\ ChannelsInv
  /\ boot \in BootState
  /\ wait \in WaitState
  /\ ~Booted => Untouched

LEMMA InitSystemInv == SystemInit => SystemInv
<1> SUFFICES ASSUME SystemInit PROVE SystemInv
  OBVIOUS
<1>1. TypeOK
  BY BootInitTyped DEF SystemInit
<1>2. <<0, 0>> \in SMs
  BY ChipAssumption DEF SMs, Blocks, SmNums
<1>3. \A m \in SMs : sm[m].tx = <<>> /\ sm[m].rx = <<>>
  BY DEF SystemInit, BootInit, InitFrom, SmReset
<1>4. FifoBounded
  BY <1>3 DEF FifoBounded, FifoDepth
<1>5. ChannelsInv
  BY InitChannelsInv DEF SystemInit
<1>6. boot \in BootState /\ wait \in WaitState
  BY <1>2 DEF SystemInit, BootInit, At, BootState, WaitState
<1>7. gpio = GpioReset /\ turn = <<0, 0>> /\ chan = ChanEnd
  <2>1. [GpioReset EXCEPT !.control = [b \in Blocks |-> {}]] = GpioReset
    BY DEF GpioReset
  <2> QED
    BY <2>1 DEF SystemInit, ChannelsInit, BootInit, InitFrom, Fresh
<1> QED
  BY <1>1, <1>3, <1>4, <1>5, <1>6, <1>7 DEF SystemInv, Untouched

\* The loop of epio_from_apio goes from machine to machine, and to its end.
LEMMA AfterSmTyped ==
  ASSUME NEW m \in SMs
  PROVE  /\ AfterSm(m) \in BootState
         /\ AfterSm(m).at \in {"block", "sm", "pins"}
         /\ AfterSm(m).at # "pins" =>
              \A n \in SMs :
                Before(AfterSm(m).m, n) \/ AfterSm(m).m = n => Before(m, n)
<1>1. m[1] \in 0 .. NumBlocks - 1 /\ m[2] \in 0 .. NumSms - 1
  BY SmTyped DEF Blocks, SmNums
<1>2. \A n \in SMs : n[1] \in Int /\ n[2] \in Int
  BY SmTyped DEF Blocks, SmNums
<1>3. CASE m[2] < NumSms - 1
  <2> DEFINE next == <<m[1], m[2] + 1>>
  <2>1. next \in SMs
    BY <1>1, <1>3, ChipAssumption DEF SMs, Blocks, SmNums
  <2>2. AfterSm(m) = [at |-> "sm", m |-> next, k |-> 0]
    BY <1>3 DEF AfterSm, At
  <2>3. AfterSm(m) \in BootState /\ AfterSm(m).at = "sm" /\ AfterSm(m).m = next
    BY <2>1, <2>2 DEF BootState
  <2>4. next[1] = m[1] /\ next[2] = m[2] + 1
    OBVIOUS
  <2> HIDE DEF next
  <2>5. ASSUME NEW n \in SMs, Before(next, n) \/ next = n
        PROVE  Before(m, n)
    <3>1. n[1] \in Int /\ n[2] \in Int /\ m[1] \in Int /\ m[2] \in Int
      BY <1>1, <1>2
    <3> QED
      BY <2>4, <2>5, <3>1 DEF Before
  <2> QED
    BY <2>3, <2>5
<1>4. CASE ~(m[2] < NumSms - 1) /\ m[1] < NumBlocks - 1
  <2> DEFINE next == <<m[1] + 1, 0>>
  <2>1. next \in SMs
    BY <1>1, <1>4, ChipAssumption DEF SMs, Blocks, SmNums
  <2>2. AfterSm(m) = [at |-> "block", m |-> next, k |-> 0]
    BY <1>4 DEF AfterSm, At
  <2>3. /\ AfterSm(m) \in BootState /\ AfterSm(m).at = "block"
        /\ AfterSm(m).m = next
    BY <2>1, <2>2 DEF BootState
  <2>4. next[1] = m[1] + 1 /\ next[2] = 0
    OBVIOUS
  <2> HIDE DEF next
  <2>5. ASSUME NEW n \in SMs, Before(next, n) \/ next = n
        PROVE  Before(m, n)
    <3>1. n[1] \in Int /\ n[2] \in Int /\ m[1] \in Int /\ m[2] \in Int
      BY <1>1, <1>2
    <3> QED
      BY <2>4, <2>5, <3>1 DEF Before
  <2> QED
    BY <2>3, <2>5
<1>5. CASE ~(m[2] < NumSms - 1) /\ ~(m[1] < NumBlocks - 1)
  BY <1>5 DEF AfterSm, At, BootState
<1> QED
  BY <1>3, <1>4, <1>5

\* epio_from_apio is over when it has configured the pins.
LEMMA BootingUnbooted ==
  ASSUME FromApio
  PROVE  ~Booted
<1>1. SUFFICES ASSUME boot.at = "done" PROVE FALSE
  BY DEF Booted
<1>2. \A at, k, m : At(at, m, k).at = at
  BY DEF At
<1>3. \A b : ~LoadBlock(b)
  BY <1>1, <1>2 DEF LoadBlock
<1>4. \A m : ~LoadSm(m)
  <2>1. \A m : LoadSm(m) => boot = At("sm", m, 0)
    BY Zenon DEF LoadSm
  <2> QED
    BY <1>1, <1>2, <2>1
<1> QED
  BY <1>1, <1>3, <1>4 DEF FromApio, PreInstr, EnableSm, ConfigurePins

LEMMA FromApioKeeps ==
  ASSUME SystemInv, FromApio, UNCHANGED <<sram, dma, chan, wait>>
  PROVE  SystemInv'
<1>1. ~Booted /\ TypeOK /\ FifoBounded /\ Untouched /\ boot \in BootState
  BY BootingUnbooted DEF SystemInv
<1>2. TypeOK'
  BY <1>1, FromApioTyped
<1>3. ChannelsInv' /\ (wait \in WaitState)'
  BY DEF SystemInv, ChannelsInv, ChannelsTypeOK, SramTypeOK, WaitState
<1>4. (chan = ChanEnd)' /\ (turn = <<0, 0>>)'
  BY <1>1 DEF Untouched, FromApio, LoadBlock, LoadSm, PreInstr, EnableSm,
              ConfigurePins, ChanEnd
<1>5. SUFFICES /\ FifoBounded' /\ (boot \in BootState)'
               /\ ~Booted' =>
                    /\ gpio' = GpioReset
                    /\ \A m \in SMs :
                         Unloaded(m)' => sm'[m].tx = <<>> /\ sm'[m].rx = <<>>
  BY <1>2, <1>3, <1>4 DEF SystemInv, Untouched, GpioReset
<1>6. ASSUME NEW b \in Blocks, LoadBlock(b)
      PROVE  /\ FifoBounded' /\ boot' \in BootState /\ gpio' = GpioReset
             /\ \A m \in SMs :
                  Unloaded(m)' => sm'[m].tx = <<>> /\ sm'[m].rx = <<>>
  <2>1. <<b, 0>> \in SMs
    BY ChipAssumption DEF SMs, SmNums
  <2>2. boot = At("block", <<b, 0>>, 0) /\ boot' = At("sm", <<b, 0>>, 0)
    BY <1>6 DEF LoadBlock
  <2>3. \A m \in SMs : Unloaded(m)' => Unloaded(m)
    BY <2>2 DEF Unloaded, At
  <2>4. sm' = sm /\ gpio' = gpio
    BY <1>6 DEF LoadBlock
  <2> QED
    BY <1>1, <2>1, <2>2, <2>3, <2>4 DEF Untouched, FifoBounded, BootState, At
<1>7. ASSUME NEW m \in SMs, LoadSm(m)
      PROVE  /\ FifoBounded' /\ boot' \in BootState /\ gpio' = GpioReset
             /\ \A n \in SMs :
                  Unloaded(n)' => sm'[n].tx = <<>> /\ sm'[n].rx = <<>>
  <2> DEFINE a == Apio.sms[m]
  <2>1. boot = At("sm", m, 0) /\ boot' = At("pre", m, 1)
    BY <1>7 DEF LoadSm
  <2>2. sm[m].tx = <<>> /\ sm[m].rx = <<>>
    BY <1>1, <2>1 DEF Untouched, Unloaded, At
  <2>3. /\ a.tx \in Seq(Word) /\ a.rx \in Seq(Word)
        /\ Len(a.tx) <= 4 /\ Len(a.rx) <= 4
    BY <1>7, ApioAssumption DEF SmRecord, LoadSm, FifoDepth
  <2>4. \A q \in Seq(Word) :
          /\ LastFirst(q) \in Seq(Word) /\ Len(LastFirst(q)) = Len(q)
          /\ <<>> \o LastFirst(q) = LastFirst(q)
    BY DEF LastFirst
  <2> DEFINE loaded == [[sm[m] EXCEPT !.tx = LastFirst(a.tx)]
                                EXCEPT !.rx = LastFirst(a.rx)]
  <2>5. sm' = [sm EXCEPT ![m] = loaded]
    BY <1>1, <1>7, <2>2, <2>3, <2>4, MachineTyped DEF LoadSm, SmState, TypeOK
  <2>6. /\ Len(sm'[m].tx) <= 4 /\ Len(sm'[m].rx) <= 4
        /\ \A n \in SMs : n # m => sm'[n] = sm[n]
    <3>1. loaded.tx = LastFirst(a.tx) /\ loaded.rx = LastFirst(a.rx)
      BY MachineTyped DEF SmState
    <3>2. Len(loaded.tx) <= 4 /\ Len(loaded.rx) <= 4
      BY <2>3, <2>4, <3>1
    <3> HIDE DEF loaded
    <3> QED
      BY <1>1, <2>5, <3>2 DEF TypeOK
  <2>7. FifoBounded'
    BY <1>1, <2>6 DEF FifoBounded, FifoDepth
  <2>8. \A n \in SMs : Unloaded(n)' => n # m /\ Unloaded(n)
    <3>1. ~Before(m, m)
      BY SmTyped DEF Before, Blocks, SmNums
    <3> QED
      BY <2>1, <3>1 DEF Unloaded, At
  <2>9. gpio' = GpioReset
    BY <1>1, <1>7 DEF Untouched, LoadSm
  <2>10. boot' \in BootState
    BY <2>1 DEF BootState, At
  <2> QED
    BY <1>1, <2>6, <2>7, <2>8, <2>9, <2>10 DEF Untouched
<1>8. ASSUME NEW m \in SMs, PreInstr(m)
      PROVE  /\ FifoBounded' /\ boot' \in BootState /\ gpio' = GpioReset
             /\ \A n \in SMs :
                  Unloaded(n)' => sm'[n].tx = <<>> /\ sm'[n].rx = <<>>
  <2>1. PICK i \in Instr : Execute(m, i, FALSE)
    BY <1>8, DecodeTyped DEF PreInstr
  <2>2. FifoBounded'
    BY <1>1, <1>8, <2>1, ExecuteBounded DEF PreInstr
  <2>3. gpio' = GpioReset
    BY <1>1, <1>8, PreInstrTyped, UncontrolledStays DEF Untouched
  <2>4. /\ boot.at = "pre" /\ boot.m = m /\ boot.k \in Nat
        /\ boot' = [boot EXCEPT !.k = @ + 1]
    BY <1>1, <1>8 DEF PreInstr, BootState
  <2>5. /\ boot' \in BootState
        /\ \A n \in SMs : Unloaded(n)' => n # m /\ Unloaded(n)
    <3>1. ~Before(m, m)
      BY SmTyped DEF Before, Blocks, SmNums
    <3> QED
      BY <1>1, <2>4, <3>1 DEF BootState, Unloaded
  <2>6. \A n \in SMs : n # m => sm'[n] = sm[n]
    BY <1>1, <2>1, ExecuteOthers
  <2> QED
    BY <1>1, <2>2, <2>3, <2>5, <2>6 DEF Untouched
<1>9. ASSUME NEW m \in SMs, EnableSm(m)
      PROVE  /\ FifoBounded' /\ boot' \in BootState /\ gpio' = GpioReset
             /\ \A n \in SMs :
                  Unloaded(n)' => sm'[n].tx = <<>> /\ sm'[n].rx = <<>>
  <2>1. \A n \in SMs : sm'[n].tx = sm[n].tx /\ sm'[n].rx = sm[n].rx
    BY <1>1, <1>9, MachineTyped DEF EnableSm, TypeOK, SmState
  <2>2. boot.at = "pre" /\ boot.m = m /\ boot' = AfterSm(m) /\ gpio' = gpio
    BY <1>9 DEF EnableSm
  <2>3. \A n \in SMs : Unloaded(n)' => Unloaded(n)
    BY <2>2, AfterSmTyped DEF Unloaded
  <2> QED
    BY <1>1, <2>1, <2>2, <2>3, AfterSmTyped DEF Untouched, FifoBounded
<1>10. CASE ConfigurePins
  BY <1>1, <1>10 DEF ConfigurePins, FifoBounded, BootState, Booted
<1> QED
  BY <1>6, <1>7, <1>8, <1>9, <1>10 DEF FromApio

\* A step of the cycle or a call that is one of EpioExec.
LEMMA ExecStepKeeps ==
  ASSUME SystemInv, Booted, boot' = boot, Next, UNCHANGED <<sram, dma>>,
         wait' \in WaitState, chan' \in Channels \cup {ChanEnd}
  PROVE  SystemInv'
<1>1. TypeOK' /\ FifoBounded'
  BY CycleTyped, HostCallTyped, StepBounded DEF SystemInv, Next
<1>2. ChannelsInv'
  BY DEF SystemInv, ChannelsInv, ChannelsTypeOK, SramTypeOK
<1>3. Booted' /\ (boot \in BootState)'
  BY DEF SystemInv, Booted, BootState
<1> QED
  BY <1>1, <1>2, <1>3 DEF SystemInv, WaitState

\* The loop over the channels runs only when epio_from_apio is done.
LEMMA LoopsBooted ==
  ASSUME SystemInv, chan \in Channels \/ turn = LoopEnd
  PROVE  Booted
<1>1. chan \in Channels => chan # ChanEnd
  BY ChannelAssumption DEF Channels, ChanEnd
<1>2. LoopEnd # <<0, 0>>
  BY ChipAssumption DEF LoopEnd
<1> QED
  BY <1>1, <1>2 DEF SystemInv, Untouched

LEMMA RunsCycleKeeps ==
  ASSUME SystemInv, RunsCycle
  PROVE  SystemInv'
<1>1. wait \in WaitState /\ chan \in Channels \cup {ChanEnd}
  BY DEF SystemInv, ChannelsInv, ChannelsTypeOK
<1>2. CASE Steps
  BY <1>1, <1>2, ExecStepKeeps DEF Steps, Next, Cycle
<1>3. CASE AppliesIrqs
  <2>1. 0 \in Channels \cup {ChanEnd}
    BY ChannelAssumption DEF Channels, ChanEnd
  <2> QED
    BY <1>1, <1>3, <2>1, LoopsBooted, ExecStepKeeps
    DEF AppliesIrqs, Next, Cycle, FinishStep
<1>4. ASSUME NEW c \in Channels, chan = c, chan' = c + 1
      PROVE  /\ Booted
             /\ chan' \in Channels \cup {ChanEnd}
             /\ EndsCycle(c) \in WaitState
  <2>1. c + 1 \in Channels \cup {ChanEnd}
    BY ChannelAssumption DEF Channels, ChanEnd
  <2>2. EndsCycle(c) \in WaitState
    BY <1>1 DEF EndsCycle, WaitState
  <2> QED
    BY <1>4, <2>1, <2>2, LoopsBooted
<1>5. ASSUME NEW c \in Channels, StepsChannel(c)
      PROVE  SystemInv'
  <2> DEFINE d == dma[c]
             room == Len(sm[d.to].tx) < FifoDepth
             q == sm[d.from].rx
  <2>1. /\ Booted /\ chan' \in Channels \cup {ChanEnd}
        /\ wait' \in WaitState
    BY <1>4, <1>5 DEF StepsChannel
  <2>2. TypeOK /\ FifoBounded /\ ChannelsInv /\ boot \in BootState
    BY DEF SystemInv
  <2>3. /\ d.setup /\ chan' = c + 1 /\ sram' = sram
        /\ dma' = [dma EXCEPT ![c] = NextChannel(d, room, q)]
        /\ sm' = [m \in SMs |-> ServedFifos(d, room, q, m)]
    BY <1>5 DEF StepsChannel, ServedFifos
  <2>4. /\ d \in DmaState /\ room \in BOOLEAN /\ q \in Seq(Word)
        /\ d.from \in SMs /\ d.to \in SMs
    BY <2>2, ChannelFinds
  <2>5. \A m \in SMs :
          /\ sm'[m] \in SmState
          /\ Len(sm'[m].rx) <= FifoDepth /\ Len(sm'[m].tx) <= FifoDepth
    BY <2>2, <2>3, <2>4, ServedTyped
  <2>6. ChannelsInv'
    <3> HIDE DEF room, q
    <3> QED
      BY <2>2, <2>3, <2>4, StepKeepsChannels
  <2>7. sm' \in [SMs -> SmState]
    BY <2>3, <2>5
  <2>8. TypeOK' /\ FifoBounded'
    BY <1>5, <2>2, <2>5, <2>7 DEF StepsChannel, TypeOK, FifoBounded
  <2>9. Booted' /\ boot' \in BootState
    BY <1>5, <2>1, <2>2 DEF StepsChannel, Booted
  <2> QED
    BY <2>1, <2>6, <2>8, <2>9 DEF SystemInv, BootState, WaitState
<1>6. ASSUME NEW c \in Channels, SkipsChannel(c)
      PROVE  SystemInv'
  <2>1. /\ Booted /\ chan' \in Channels \cup {ChanEnd}
        /\ wait' \in WaitState
    BY <1>4, <1>6 DEF SkipsChannel
  <2> QED
    BY <1>6, <2>1
    DEF SkipsChannel, SystemInv, ChannelsInv, ChannelsTypeOK, SramTypeOK, vars,
        TypeOK, FifoBounded, Booted, BootState, WaitState
<1> QED
  BY <1>2, <1>3, <1>5, <1>6 DEF RunsCycle

LEMMA WaitTestKeeps ==
  ASSUME SystemInv, WaitTest
  PROVE  SystemInv'
<1>1. wait \in WaitState /\ Booted
  BY DEF SystemInv, WaitTest, Rests
<1>2. wait' \in WaitState
  <2>1. wait.steps \in Nat /\ wait.steps + 1 \in Nat /\ -1 \in Nat \cup {-1}
    BY <1>1 DEF WaitState
  <2> QED
    BY <1>1, <2>1 DEF WaitTest, Returns, WaitState
<1> QED
  BY <1>1, <1>2
  DEF WaitTest, bootVars, SystemInv, ChannelsInv, ChannelsTypeOK, SramTypeOK,
      vars, TypeOK, FifoBounded, Booted, BootState, WaitState

LEMMA HostCallsSystemKeep ==
  ASSUME SystemInv, HostCallsSystem
  PROVE  SystemInv'
<1>1. /\ Booted /\ boot' = boot /\ chan' = chan
      /\ wait \in WaitState /\ ChannelsInv
  BY DEF SystemInv, HostCallsSystem, Rests
<1>2. ASSUME UNCHANGED vars, ChannelsInv', wait' \in WaitState
      PROVE  SystemInv'
  BY <1>1, <1>2
  DEF SystemInv, vars, TypeOK, FifoBounded, Booted, BootState, WaitState
<1>3. CASE (SetupChain \/ HostUsesSram) /\ UNCHANGED <<vars, wait>>
  BY <1>1, <1>2, <1>3, CallsKeepChannels
<1>4. ASSUME NEW w \in Waits, WaitTx(w[1], w[2]), UNCHANGED <<vars, sram, dma>>
      PROVE  SystemInv'
  <2>1. w[1] \in SMs /\ w[2] \in Nat \cup {NoLimit}
    BY SystemAssumption
  <2>2. wait' \in WaitState
    BY <1>4, <2>1 DEF WaitTx, WaitState
  <2>3. ChannelsInv'
    BY <1>1, <1>4 DEF ChannelsInv, ChannelsTypeOK, SramTypeOK
  <2> QED
    BY <1>2, <1>4, <2>2, <2>3
<1>5. CASE HostCall /\ UNCHANGED <<sram, dma, wait>>
  BY <1>1, <1>5, ExecStepKeeps DEF Next, ChannelsInv, ChannelsTypeOK
<1> QED
  BY <1>3, <1>4, <1>5 DEF HostCallsSystem, ClientCalls

-----------------------------------------------------------------------------
\* The invariant holds of every recorded configuration, every program, any number
\* of channels and every use the host makes of the chip.
THEOREM SystemInvariant == SystemSpec => []SystemInv
<1>1. ASSUME SystemInv, SystemNext PROVE SystemInv'
  BY <1>1, FromApioKeeps, RunsCycleKeeps, WaitTestKeeps, HostCallsSystemKeep
  DEF SystemNext
<1>2. ASSUME SystemInv, UNCHANGED systemVars PROVE SystemInv'
  BY <1>2
  DEF systemVars, bootVars, vars, SystemInv, TypeOK, FifoBounded, ChannelsInv,
      ChannelsTypeOK, SramTypeOK, ChanEnd, BootState, WaitState, Booted, Untouched, Unloaded
<1>3. SystemInv /\ [SystemNext]_systemVars => SystemInv'
  BY <1>1, <1>2
<1> QED
  BY <1>3, InitSystemInv, PTL DEF SystemSpec

\* While epio_from_apio runs, no instruction it executes and no FIFO it fills has
\* moved a pin: output control is given last.
THEOREM BootMovesNoPin == SystemSpec => []BootLeavesPins
<1>1. SystemInv => BootLeavesPins
  BY DEF SystemInv, Booted, Untouched, BootLeavesPins
<1> QED
  BY <1>1, SystemInvariant, PTL

\* The parts of the chip keep their own and each other's types: in particular no
\* FIFO ever holds more than its four words although the configuration, the
\* instructions, the DMA channels and the host all push.
THEOREM SystemTyped == SystemSpec => []SystemTypeOK
<1>1. SystemInv => SystemTypeOK
  BY DEF SystemInv, SystemTypeOK, ChannelsInv
<1> QED
  BY <1>1, SystemInvariant, PTL

-----------------------------------------------------------------------------
(* The pins of the whole system *)

\* Whatever the system does to the pins after epio_from_apio has configured them,
\* and before, is a step of EpioPins.
LEMMA SystemStepsPins ==
  ASSUME SystemInv, [SystemNext]_systemVars
  PROVE  [PinsNext]_gpio \/ ConfigurePins
<1>1. TypeOK
  BY DEF SystemInv
<1>2. CASE FromApio
  <2>1. ASSUME NEW m \in SMs, PreInstr(m) PROVE [PinsNext]_gpio
    BY <1>1, <2>1, PreInstrTyped, SmTyped DEF PinsNext
  <2>2. ASSUME \/ \E b \in Blocks : LoadBlock(b)
               \/ \E m \in SMs : LoadSm(m) \/ EnableSm(m)
        PROVE  UNCHANGED gpio
    BY <2>2 DEF LoadBlock, LoadSm, EnableSm
  <2> QED
    BY <1>2, <2>1, <2>2 DEF FromApio
<1>3. RunsCycle => [Next]_vars \/ UNCHANGED gpio
  BY DEF RunsCycle, Steps, AppliesIrqs, StepsChannel, SkipsChannel, Next, Cycle,
         vars
<1>4. WaitTest => UNCHANGED gpio
  BY DEF WaitTest, bootVars, vars
<1>5. HostCallsSystem => [Next]_vars \/ UNCHANGED gpio
  BY DEF HostCallsSystem, ClientCalls, Next, vars
<1>6. UNCHANGED systemVars => UNCHANGED gpio
  BY DEF systemVars, bootVars, vars
<1> QED
  BY <1>1, <1>2, <1>3, <1>4, <1>5, <1>6, StepsPins DEF SystemNext

\* epio_from_apio gives each pin to one block and each pin one override at most:
\* it is recorded by pin, and two overrides of one end the program.
LEMMA ConfiguresApart ==
  ASSUME SystemInv, ConfigurePins
  PROVE  PinsInv'
<1>1. TypeOK' /\ gpio = GpioReset
  <2>1. TypeOK /\ ~Booted
    BY DEF SystemInv, ConfigurePins, Booted
  <2> QED
    BY <2>1, ConfigurePinsTyped DEF SystemInv, Untouched
<1>2. /\ gpio'.control = [b \in Blocks |-> {p \in Gpios : Apio.output_block[p] = b}]
      /\ gpio'.inverted = Apio.inverted
      /\ gpio'.force_low = Apio.force_low /\ gpio'.force_high = Apio.force_high
      /\ gpio'.input = (Gpios \ Apio.force_low) \cup Apio.force_high
  BY <1>1, Zenon DEF ConfigurePins, GpioReset
<1>3. /\ Apio.inverted \cap (Apio.force_low \cup Apio.force_high) = {}
      /\ Apio.force_low \cap Apio.force_high = {}
  BY DEF ConfigurePins
<1>4. OneController'
  BY <1>2 DEF OneController
<1>5. OneOverride' /\ ForcedHighReadsHigh'
  BY <1>2, <1>3 DEF OneOverride, ForcedHighReadsHigh, Input
<1> QED
  BY <1>1, <1>4, <1>5 DEF PinsInv, GpioTypeOK, TypeOK

\* Whatever is recorded, under any programs and any use the host makes of the
\* chip, no two blocks ever control one pin, at most one override is in force on a
\* pin, and a pin forced high reads high.
THEOREM SystemKeepsPins == SystemSpec => []PinsInv
<1>1. SystemInit => PinsInv
  <2>1. SystemInit => SystemInv /\ ~Booted
    BY InitSystemInv DEF SystemInit, BootInit, Booted, At
  <2> QED
    BY <2>1, InitPinsInv DEF SystemInv, Untouched
<1>2. SystemInv /\ PinsInv /\ [SystemNext]_systemVars => PinsInv'
  BY SystemStepsPins, ConfiguresApart, PinsStepKeepsInv
<1> QED
  BY <1>1, <1>2, SystemInvariant, PTL DEF SystemSpec

\* And of the composed system: between epio_from_apio, the DMA engine, the waits of the
\* host and its calls, all that a machine does to a pin its block does not control is
\* to turn it off, by OUT or MOV PINDIRS.
THEOREM SystemOwnerWrites == SystemSpec => OwnerWrites
<1>1. SystemNext => Cycle \/ turn' = turn
  BY DEF SystemNext, FromApio, LoadBlock, LoadSm, PreInstr, EnableSm,
     ConfigurePins, RunsCycle, Steps, AppliesIrqs, StepsChannel, SkipsChannel,
     Cycle, WaitTest, HostCallsSystem, ClientCalls, HostCall, bootVars, vars
<1>2. UNCHANGED systemVars => UNCHANGED vars
  BY DEF systemVars, bootVars
<1>3. TypeOK /\ [SystemNext]_systemVars => [OwnerStep]_vars
  BY <1>1, <1>2, TurnsAreOwners
<1>4. SystemInv => TypeOK
  BY DEF SystemInv
<1> QED
  BY <1>3, <1>4, SystemInvariant, PTL DEF SystemSpec, OwnerWrites, OwnerStep

-----------------------------------------------------------------------------
(* The recorded FIFO words *)

\* epio_from_apio has come to machine m, and has not returned
Loaded(m) == ~Booted /\ ~Unloaded(m)

\* FIFOs with these words are in the order of the record, as PreloadsInOrder has it
InOrder(a, tx, rx) ==
  /\ Len(tx) <= Len(a.tx)
  /\ \A k \in 1 .. Len(tx) : tx[k] = a.tx[Len(tx) + 1 - k]
  /\ Len(rx) >= Len(a.rx)
  /\ \A k \in 1 .. Len(a.rx) : rx[k] = a.rx[Len(a.rx) + 1 - k]

\* Every machine that is loaded has its FIFOs in order, whatever it has executed.
PreloadInv ==
  \A m \in SMs : Loaded(m) => InOrder(Apio.sms[m], sm[m].tx, sm[m].rx)

\* The words are in order when they have been pushed.
LEMMA LastFirstInOrder ==
  ASSUME NEW m \in SMs
  PROVE  LET a == Apio.sms[m]
         IN  InOrder(a, LastFirst(a.tx), LastFirst(a.rx))
<1>1. Apio.sms[m].tx \in Seq(Word) /\ Apio.sms[m].rx \in Seq(Word)
  BY ApioAssumption DEF SmRecord
<1>2. \A q \in Seq(Word) :
        /\ Len(LastFirst(q)) = Len(q)
        /\ \A k \in 1 .. Len(q) : LastFirst(q)[k] = q[Len(q) + 1 - k]
  BY DEF LastFirst
<1>3. /\ Len(Apio.sms[m].tx) \in Nat /\ Len(Apio.sms[m].rx) \in Nat
      /\ Len(LastFirst(Apio.sms[m].tx)) = Len(Apio.sms[m].tx)
      /\ Len(LastFirst(Apio.sms[m].rx)) = Len(Apio.sms[m].rx)
  BY <1>1, <1>2
<1>4. \A k \in 1 .. Len(Apio.sms[m].tx) :
        LastFirst(Apio.sms[m].tx)[k] = Apio.sms[m].tx[Len(Apio.sms[m].tx) + 1 - k]
  BY <1>1, <1>2
<1>5. \A k \in 1 .. Len(Apio.sms[m].rx) :
        LastFirst(Apio.sms[m].rx)[k] = Apio.sms[m].rx[Len(Apio.sms[m].rx) + 1 - k]
  BY <1>1, <1>2
<1> QED
  BY <1>3, <1>4, <1>5 DEF InOrder

\* They stay so when one is pulled and one pushed.
LEMMA InOrderKeeps ==
  ASSUME NEW m \in SMs, TypeOK, FifosFrom(m, sm'[m]),
         InOrder(Apio.sms[m], sm[m].tx, sm[m].rx), sm'[m] \in SmState
  PROVE  InOrder(Apio.sms[m], sm'[m].tx, sm'[m].rx)
<1> DEFINE a == Apio.sms[m]
           tx == sm[m].tx
           rx == sm[m].rx
<1>1. /\ a.tx \in Seq(Word) /\ a.rx \in Seq(Word)
      /\ tx \in Seq(Word) /\ rx \in Seq(Word)
  BY ApioAssumption, MachineTyped DEF SmRecord, SmState, Fifo
<1>2. /\ Len(tx) <= Len(a.tx) /\ Len(rx) >= Len(a.rx)
      /\ \A k \in 1 .. Len(tx) : tx[k] = a.tx[Len(tx) + 1 - k]
      /\ \A k \in 1 .. Len(a.rx) : rx[k] = a.rx[Len(a.rx) + 1 - k]
  BY DEF InOrder
<1>3. sm'[m].rx \in Seq(Word)
  BY DEF SmState, Fifo
<1>4. ASSUME NEW q, q = tx \/ (tx # <<>> /\ q = Tail(tx))
      PROVE  /\ Len(q) <= Len(a.tx)
             /\ \A k \in 1 .. Len(q) : q[k] = a.tx[Len(q) + 1 - k]
  <2>1. CASE tx # <<>> /\ q = Tail(tx)
    <3>1. Len(q) = Len(tx) - 1 /\ Len(tx) \in Nat /\ Len(a.tx) \in Nat
      BY <1>1, <2>1
    <3>2. ASSUME NEW k \in 1 .. Len(q) PROVE q[k] = a.tx[Len(q) + 1 - k]
      <4>1. q[k] = tx[k + 1] /\ k + 1 \in 1 .. Len(tx)
        BY <1>1, <2>1, <3>1
      <4>2. Len(tx) + 1 - (k + 1) = Len(q) + 1 - k
        <5>1. k \in Int /\ Len(q) \in Int /\ Len(tx) \in Int
          BY <3>1
        <5>2. \A l \in Int, n \in Int : n = l - 1 => l + 1 - (k + 1) = n + 1 - k
          BY <5>1
        <5> QED
          BY <3>1, <5>1, <5>2, Zenon
      <4> QED
        BY <1>2, <4>1, <4>2
    <3> QED
      BY <1>2, <3>1, <3>2
  <2> QED
    BY <1>2, <1>4, <2>1
<1>5. ASSUME NEW r \in Seq(Word), r = rx \/ \E w : r = Append(rx, w)
      PROVE  /\ Len(r) >= Len(a.rx)
             /\ \A k \in 1 .. Len(a.rx) : r[k] = a.rx[Len(a.rx) + 1 - k]
  <2>1. ASSUME NEW w, r = Append(rx, w)
        PROVE  Len(r) = Len(rx) + 1 /\ \A k \in 1 .. Len(rx) : r[k] = rx[k]
    BY <1>1, <2>1
  <2>2. Len(rx) \in Nat /\ Len(a.rx) \in Nat
    BY <1>1
  <2>3. Len(r) >= Len(rx) /\ \A k \in 1 .. Len(rx) : r[k] = rx[k]
    BY <1>5, <2>1, <2>2
  <2> QED
    BY <1>2, <2>2, <2>3
<1> QED
  BY <1>3, <1>4, <1>5 DEF FifosFrom, InOrder

\* The loop of epio_from_apio leaves out no machine.
LEMMA AfterSmReaches ==
  ASSUME NEW m \in SMs, NEW n \in SMs, Before(m, n)
  PROVE  /\ AfterSm(m).at \in {"block", "sm"}
         /\ AfterSm(m).m = n \/ Before(AfterSm(m).m, n)
<1>1. /\ m[1] \in 0 .. NumBlocks - 1 /\ m[2] \in 0 .. NumSms - 1
      /\ n[1] \in 0 .. NumBlocks - 1 /\ n[2] \in 0 .. NumSms - 1
      /\ n = <<n[1], n[2]>>
  BY SmTyped DEF Blocks, SmNums
<1>2. CASE m[2] < NumSms - 1
  <2>1. AfterSm(m) = [at |-> "sm", m |-> <<m[1], m[2] + 1>>, k |-> 0]
    BY <1>2 DEF AfterSm, At
  <2>2. AfterSm(m).at = "sm" /\ AfterSm(m).m = <<m[1], m[2] + 1>>
    BY <2>1
  <2>3. n = <<m[1], m[2] + 1>> \/ Before(<<m[1], m[2] + 1>>, n)
    BY <1>1 DEF Before
  <2> QED
    BY <2>2, <2>3
<1>3. CASE ~(m[2] < NumSms - 1)
  <2>1. m[1] < NumBlocks - 1 /\ m[1] < n[1]
    BY <1>1, <1>3, ChipAssumption DEF Before
  <2>2. AfterSm(m) = [at |-> "block", m |-> <<m[1] + 1, 0>>, k |-> 0]
    BY <1>3, <2>1 DEF AfterSm, At
  <2>3. AfterSm(m).at = "block" /\ AfterSm(m).m = <<m[1] + 1, 0>>
    BY <2>2
  <2>4. n = <<m[1] + 1, 0>> \/ Before(<<m[1] + 1, 0>>, n)
    BY <1>1, <2>1 DEF Before
  <2> QED
    BY <2>3, <2>4
<1> QED
  BY <1>2, <1>3

LEMMA FromApioInOrder ==
  ASSUME SystemInv, PreloadInv, FromApio, UNCHANGED <<sram, dma, chan, wait>>,
         NEW n \in SMs, Loaded(n)'
  PROVE  InOrder(Apio.sms[n], sm'[n].tx, sm'[n].rx)
<1>1. TypeOK /\ TypeOK' /\ Untouched
  BY BootingUnbooted, FromApioTyped DEF SystemInv
<1>2. ASSUME ~Unloaded(n), sm'[n].tx = sm[n].tx, sm'[n].rx = sm[n].rx, ~Booted
      PROVE  InOrder(Apio.sms[n], sm'[n].tx, sm'[n].rx)
  BY <1>2 DEF PreloadInv, Loaded
<1>3. ~Unloaded(n)' /\ ~Booted'
  BY DEF Loaded
<1>4. ASSUME NEW b \in Blocks, LoadBlock(b)
      PROVE  InOrder(Apio.sms[n], sm'[n].tx, sm'[n].rx)
  <2>1. ~Unloaded(n) /\ sm' = sm /\ ~Booted
    BY <1>3, <1>4 DEF LoadBlock, Unloaded, At, Booted
  <2> QED
    BY <1>2, <2>1
<1>5. ASSUME NEW m \in SMs, LoadSm(m)
      PROVE  InOrder(Apio.sms[n], sm'[n].tx, sm'[n].rx)
  <2>1. boot = At("sm", m, 0) /\ boot' = At("pre", m, 1)
    BY <1>5 DEF LoadSm
  <2>2. CASE n = m
    <3> DEFINE a == Apio.sms[m]
               loaded == [[sm[m] EXCEPT !.tx = LastFirst(a.tx)]
                                 EXCEPT !.rx = LastFirst(a.rx)]
    <3>1. sm[m].tx = <<>> /\ sm[m].rx = <<>>
      BY <1>1, <2>1 DEF Untouched, Unloaded, At
    <3>2. /\ <<>> \o LastFirst(a.tx) = LastFirst(a.tx)
          /\ <<>> \o LastFirst(a.rx) = LastFirst(a.rx)
      <4>1. a.tx \in Seq(Word) /\ a.rx \in Seq(Word)
        BY ApioAssumption DEF SmRecord
      <4>2. \A q \in Seq(Word) : LastFirst(q) \in Seq(Word)
        BY DEF LastFirst
      <4> QED
        BY <4>1, <4>2
    <3>3. sm' = [sm EXCEPT ![m] = loaded]
      BY <1>1, <1>5, <3>1, <3>2, MachineTyped DEF LoadSm, SmState, TypeOK
    <3>4. loaded.tx = LastFirst(a.tx) /\ loaded.rx = LastFirst(a.rx)
      BY <1>1, MachineTyped DEF SmState
    <3> HIDE DEF loaded
    <3>5. sm'[m] = loaded
      BY <1>1, <3>3 DEF TypeOK
    <3> QED
      BY <2>2, <3>4, <3>5, LastFirstInOrder
  <2>3. CASE n # m
    <3>1. ~Unloaded(n) /\ ~Booted
      BY <1>3, <2>1, <2>3 DEF Unloaded, At, Booted
    <3>2. sm'[n] = sm[n]
      BY <1>1, <1>5, <2>3 DEF LoadSm, TypeOK
    <3> QED
      BY <1>2, <3>1, <3>2
  <2> QED
    BY <2>2, <2>3
<1>6. ASSUME NEW m \in SMs, PreInstr(m)
      PROVE  InOrder(Apio.sms[n], sm'[n].tx, sm'[n].rx)
  <2>1. PICK i : Execute(m, i, FALSE)
    BY <1>6 DEF PreInstr
  <2>2. boot.at = "pre" /\ boot'.at = boot.at /\ boot'.m = boot.m
    BY <1>6 DEF PreInstr, SystemInv, BootState
  <2>3. ~Unloaded(n) /\ ~Booted
    BY <1>3, <2>2 DEF Unloaded, Booted
  <2>4. InOrder(Apio.sms[n], sm[n].tx, sm[n].rx)
    BY <2>3 DEF PreloadInv, Loaded
  <2>5. CASE n = m
    BY <1>1, <2>1, <2>4, <2>5, ExecuteLeaves, InOrderKeeps DEF TypeOK
  <2>6. CASE n # m
    BY <1>1, <2>1, <2>4, <2>6, ExecuteOthers
  <2> QED
    BY <2>5, <2>6
<1>7. ASSUME NEW m \in SMs, EnableSm(m)
      PROVE  InOrder(Apio.sms[n], sm'[n].tx, sm'[n].rx)
  <2>1. boot.at = "pre" /\ boot.m = m /\ boot' = AfterSm(m)
    BY <1>7 DEF EnableSm
  <2>2. ~Unloaded(n) /\ ~Booted
    BY <1>3, <2>1, AfterSmReaches DEF Unloaded, Booted
  <2>3. sm'[n].tx = sm[n].tx /\ sm'[n].rx = sm[n].rx
    BY <1>1, <1>7, MachineTyped DEF EnableSm, TypeOK, SmState
  <2> QED
    BY <1>2, <2>2, <2>3
<1>8. ~ConfigurePins
  BY <1>3 DEF ConfigurePins, Booted, SystemInv, BootState
<1> QED
  BY <1>4, <1>5, <1>6, <1>7, <1>8 DEF FromApio

\* Whatever is recorded, the machines find their words in the recorded order.
THEOREM PreloadsKeepOrder == SystemSpec => []PreloadsInOrder
<1>1. SystemInit => PreloadInv
  <2> SUFFICES ASSUME SystemInit, NEW m \in SMs PROVE Unloaded(m)
    BY DEF PreloadInv, Loaded
  <2>1. boot.at = "block" /\ boot.m = <<0, 0>>
    BY DEF SystemInit, BootInit, At
  <2>2. m = <<0, 0>> \/ Before(<<0, 0>>, m)
    BY SmTyped DEF Before, Blocks, SmNums
  <2> QED
    BY <2>1, <2>2 DEF Unloaded
<1>2. SystemInv /\ PreloadInv /\ [SystemNext]_systemVars => PreloadInv'
  <2> SUFFICES ASSUME SystemInv, PreloadInv, [SystemNext]_systemVars,
                      NEW n \in SMs, Loaded(n)'
               PROVE  InOrder(Apio.sms[n], sm'[n].tx, sm'[n].rx)
    BY DEF PreloadInv
  <2>1. CASE FromApio /\ UNCHANGED <<sram, dma, chan, wait>>
    BY <2>1, FromApioInOrder
  <2>2. CASE RunsCycle \/ WaitTest \/ HostCallsSystem
    <3>1. \A c \in Channels : chan = c => Booted
      BY LoopsBooted
    <3>2. AppliesIrqs => Booted
      BY LoopsBooted DEF AppliesIrqs, FinishStep
    <3>3. Booted /\ boot' = boot
      BY <2>2, <3>1, <3>2
      DEF RunsCycle, Steps, AppliesIrqs, StepsChannel, SkipsChannel, WaitTest,
          HostCallsSystem, Rests, bootVars
    <3> QED
      BY <3>3 DEF Loaded, Booted
  <2>3. CASE UNCHANGED systemVars
    BY <2>3 DEF systemVars, bootVars, vars, PreloadInv, Loaded, Unloaded, Booted
  <2> QED
    BY <2>1, <2>2, <2>3 DEF SystemNext
<1>3. PreloadInv => PreloadsInOrder
  BY DEF PreloadInv, Loaded, Unloaded, Booted, InOrder, PreloadsInOrder
<1> QED
  BY <1>1, <1>2, <1>3, SystemInvariant, PTL DEF SystemSpec

-----------------------------------------------------------------------------
(* The DMA channels are what EpioLookup promises                            *)

\* The first word has left the FIFO, or one has entered it behind the last
Moved(q, r) == (q # <<>> /\ r = Tail(q)) \/ \E w : r = Append(q, w)

\* At most one word has left or entered the FIFOs, one of machine m
MovesOne(m) ==
  /\ \A n \in SMs \ {m} : sm'[n].tx = sm[n].tx /\ sm'[n].rx = sm[n].rx
  /\ sm'[m].tx = sm[m].tx \/ Moved(sm[m].tx, sm'[m].tx)
  /\ sm'[m].rx = sm[m].rx \/ Moved(sm[m].rx, sm'[m].rx)
  /\ sm'[m].tx = sm[m].tx \/ sm'[m].rx = sm[m].rx

LEMMA PutMovesOne ==
  ASSUME TypeOK, NEW m \in SMs, NEW s, Put(m, s),
         \/ s.rx = sm[m].rx /\ (s.tx = sm[m].tx \/ Moved(sm[m].tx, s.tx))
         \/ s.tx = sm[m].tx /\ Moved(sm[m].rx, s.rx)
  PROVE  MovesOne(m)
BY PutKeeps DEF MovesOne

LEMMA ExecuteMovesOne ==
  ASSUME TypeOK, NEW m \in SMs, NEW i, NEW stepping \in BOOLEAN,
         Execute(m, i, stepping)
  PROVE  MovesOne(m)
BY ExecuteLeaves, ExecuteOthers DEF MovesOne, FifosFrom, Moved

\* The host pushes or pops one word.
LEMMA HostSmMovesOne ==
  ASSUME TypeOK, HostSm
  PROVE  \E m \in SMs : MovesOne(m)
<1>1. /\ Host.push_tx \subseteq SMs \X Word /\ Host.push_rx \subseteq SMs \X Word
      /\ Host.pop_tx \subseteq SMs /\ Host.pop_rx \subseteq SMs
      /\ Host.toggles \subseteq SMs
  BY ExecAssumption DEF HostCalls
<1>2. ASSUME NEW m \in SMs, NEW q, Put(m, [sm[m] EXCEPT !.tx = q]),
             Moved(sm[m].tx, q)
      PROVE  MovesOne(m)
  <2> DEFINE s == [sm[m] EXCEPT !.tx = q]
  <2>1. s.tx = q /\ s.rx = sm[m].rx
    BY MachineFields DEF Shaped, Fields
  <2> HIDE DEF s
  <2> QED
    BY <1>2, <2>1, PutMovesOne DEF s
<1>3. ASSUME NEW m \in SMs, NEW q, Put(m, [sm[m] EXCEPT !.rx = q]),
             Moved(sm[m].rx, q)
      PROVE  MovesOne(m)
  <2> DEFINE s == [sm[m] EXCEPT !.rx = q]
  <2>1. s.rx = q /\ s.tx = sm[m].tx
    BY MachineFields DEF Shaped, Fields
  <2> HIDE DEF s
  <2> QED
    BY <1>3, <2>1, PutMovesOne DEF s
<1>4. ASSUME NEW m \in SMs, NEW w, PushTx(m, w) PROVE MovesOne(m)
  BY <1>2, <1>4 DEF PushTx, Moved
<1>5. ASSUME NEW m \in SMs, NEW w, PushRx(m, w) PROVE MovesOne(m)
  BY <1>3, <1>5 DEF PushRx, Moved
<1>6. ASSUME NEW m \in SMs, PopTx(m) PROVE MovesOne(m)
  BY <1>2, <1>6 DEF PopTx, Moved
<1>7. ASSUME NEW m \in SMs, PopRx(m) PROVE MovesOne(m)
  BY <1>3, <1>7 DEF PopRx, Moved
<1>8. ASSUME NEW m \in SMs, NEW on, Put(m, [sm[m] EXCEPT !.enabled = on])
      PROVE  MovesOne(m)
  <2> DEFINE s == [sm[m] EXCEPT !.enabled = on]
  <2>1. s.rx = sm[m].rx /\ s.tx = sm[m].tx
    BY MachineFields DEF Shaped, Fields
  <2> HIDE DEF s
  <2> QED
    BY <1>8, <2>1, PutMovesOne DEF s
<1> QED
  BY <1>1, <1>4, <1>5, <1>6, <1>7, <1>8 DEF HostSm

\* A step of the chip or a call of its host moves one word of one FIFO at most.
LEMMA NextMovesOne ==
  ASSUME TypeOK, Next
  PROVE  \E m \in SMs : MovesOne(m)
<1>1. <<0, 0>> \in SMs
  BY ChipAssumption DEF SMs, Blocks, SmNums
<1>2. ASSUME sm' = sm PROVE MovesOne(<<0, 0>>)
  BY <1>2 DEF MovesOne
<1>3. ASSUME NEW m \in SMs, Delayed(m) PROVE MovesOne(m)
  <2> DEFINE s == [sm[m] EXCEPT !.delay = @ - 1]
  <2>1. s.tx = sm[m].tx /\ s.rx = sm[m].rx
    BY MachineFields DEF Shaped, Fields
  <2>2. Put(m, s)
    BY <1>3 DEF Delayed
  <2> HIDE DEF s
  <2> QED
    BY <2>1, <2>2, PutMovesOne
<1>4. ASSUME NEW m \in SMs, Step(m) PROVE MovesOne(m)
  BY <1>4, ExecuteMovesOne DEF Step
<1>5. CASE HostExec
  <2>1. PICK c \in Host.execs : Execute(c[1], c[2], FALSE)
    BY <1>5 DEF HostExec
  <2>2. c[1] \in SMs
    BY ExecAssumption DEF HostCalls
  <2> QED
    BY <2>1, <2>2, ExecuteMovesOne
<1>6. (\E m \in SMs : Skip(m)) \/ FinishStep \/ HostIrq \/ HostPins \/ HostConfig
        => sm' = sm
  BY DEF Skip, FinishStep, HostIrq, HostPins, HostConfig
<1> QED
  BY <1>1, <1>2, <1>3, <1>4, <1>5, <1>6, HostSmMovesOne DEF Next, Cycle, HostCall

LEMMA SameMachines == Lookup!SMs = SMs
BY DEF Lookup!SMs, SMs, Lookup!Blocks, Blocks, Lookup!SmNums, SmNums

\* What a lookup finds in the SRAM is what a channel reads there.
LEMMA SameContent ==
  \A a, mode : Lookup!Content(a, mode) = SramContent(a, mode)
BY DEF Lookup!Content, Lookup!ByteAddr, ByteAddr, Lookup!Bits, Bits, SramContent

\* A word that moves in one FIFO is a move of EpioLookup.
LEMMA MovedMoves ==
  ASSUME NEW q, NEW r, NEW m \in SMs, \A n \in SMs \ {m} : r[n] = q[n],
         q[m] \in Seq(Word), r[m] \in Seq(Word), Moved(q[m], r[m]),
         Len(r[m]) <= FifoDepth
  PROVE  Lookup!Moves(q, r)
<1>1. CASE q[m] # <<>> /\ r[m] = Tail(q[m])
  BY <1>1, SameMachines DEF Lookup!Moves
<1>2. CASE \E w : r[m] = Append(q[m], w)
  <2>1. PICK w : r[m] = Append(q[m], w)
    BY <1>2
  <2>2. /\ Len(r[m]) = Len(q[m]) + 1 /\ Len(q[m]) \in Nat
        /\ \A k \in 1 .. Len(q[m]) : r[m][k] = q[m][k]
    BY <2>1
  <2>3. r[m] # <<>> /\ q[m] = SubSeq(r[m], 1, Len(r[m]) - 1)
    BY <2>2
  <2> QED
    BY <2>3, SameMachines DEF Lookup!Moves
<1> QED
  BY <1>1, <1>2 DEF Moved

LEMMA MovesOneMoves ==
  ASSUME TypeOK, TypeOK', FifoBounded', UNCHANGED <<dma, sram>>,
         NEW m \in SMs, MovesOne(m)
  PROVE  Lookup!OthersMove
<1>1. Uses' = Uses /\ Hands' = Hands
  BY DEF Uses, Hands
<1>2. /\ TxFifos[m] \in Seq(Word) /\ TxFifos'[m] \in Seq(Word)
      /\ RxFifos[m] \in Seq(Word) /\ RxFifos'[m] \in Seq(Word)
  BY DEF TypeOK, SmState, Fifo, TxFifos, RxFifos
<1>3. Len(TxFifos'[m]) <= FifoDepth /\ Len(RxFifos'[m]) <= FifoDepth
  BY DEF FifoBounded, TxFifos, RxFifos
<1>4. /\ \A n \in SMs \ {m} : TxFifos'[n] = TxFifos[n] /\ RxFifos'[n] = RxFifos[n]
      /\ TxFifos'[m] = TxFifos[m] \/ Moved(TxFifos[m], TxFifos'[m])
      /\ RxFifos'[m] = RxFifos[m] \/ Moved(RxFifos[m], RxFifos'[m])
      /\ TxFifos'[m] = TxFifos[m] \/ RxFifos'[m] = RxFifos[m]
  BY DEF MovesOne, TxFifos, RxFifos
<1>5. /\ TxFifos'[m] = TxFifos[m] => UNCHANGED TxFifos
      /\ RxFifos'[m] = RxFifos[m] => UNCHANGED RxFifos
  BY <1>4 DEF TxFifos, RxFifos
<1>6. /\ Moved(TxFifos[m], TxFifos'[m]) => Lookup!Moves(TxFifos, TxFifos')
      /\ Moved(RxFifos[m], RxFifos'[m]) => Lookup!Moves(RxFifos, RxFifos')
  BY <1>2, <1>3, <1>4, MovedMoves
<1> QED
  BY <1>1, <1>4, <1>5, <1>6 DEF Lookup!OthersMove

\* A step of a channel delivers, looks up and takes as one Serve.
LEMMA StepServes ==
  ASSUME SystemInv, NEW c \in Channels, StepsChannel(c)
  PROVE  \E deliver, lookup, take \in BOOLEAN :
           Lookup!Serve(c, deliver, lookup, take)
<1> DEFINE d == dma[c]
           room == Len(sm[d.to].tx) < FifoDepth
           q == sm[d.from].rx
           deliver == Pushes(d, room)
           lookup == Fetches(d, room)
           take == Accepts(d, room, q)
           kept == Kept(d, room)
           known == Known(d, room)
           next == NextChannel(d, room, q)
<1>1. /\ d \in DmaState /\ room \in BOOLEAN /\ q \in Seq(Word) /\ InUse(d)
      /\ d.from \in SMs /\ d.to \in SMs
  BY ChannelFinds DEF StepsChannel, SystemInv
<1>2. /\ FetchAllowed(d, room) /\ sram' = sram
      /\ dma' = [dma EXCEPT ![c] = next] /\ dma \in [Channels -> DmaState]
      /\ sm' = [m \in SMs |-> ServedFifos(d, room, q, m)]
  BY DEF StepsChannel, ServedFifos, SystemInv, ChannelsInv, ChannelsTypeOK
<1>3. SramTypeOK
  BY DEF SystemInv, ChannelsInv, ChannelsTypeOK
<1>4. deliver => Len(TxFifos[d.to]) < FifoDepth
  BY <1>1 DEF Pushes, TxFifos
<1>5. q = RxFifos[d.from]
  BY <1>1 DEF RxFifos
<1> HIDE DEF room, q
<1>6. /\ deliver => Hand(d) # <<>> /\ Hand(d)[1].known /\ Hand(d)[1].word = d.read_value
      /\ lookup => kept # <<>> /\ ~kept[1].known
      /\ take => q # <<>> /\ \A k \in DOMAIN known : known[k].known
      /\ Hand(next) = Taken(d, room, q)
      /\ Use(next) = Use(d)
  BY <1>1, <1>2, <1>3, StepServesHand
<1>7. deliver \in BOOLEAN /\ lookup \in BOOLEAN /\ take \in BOOLEAN
  BY <1>1 DEF Pushes, Fetches, Accepts
<1>8. kept = IF deliver THEN Tail(Hand(d)) ELSE Hand(d)
  BY DEF Kept
<1>9. known = IF lookup
              THEN [kept EXCEPT ![1] =
                      Lookup!Answer(Lookup!Content(@.word, d.bit_mode))]
              ELSE kept
  <2>1. \A w : Lookup!Answer(w) = Value(w)
    BY DEF Lookup!Answer, Value
  <2> QED
    BY <2>1, SameContent, Zenon DEF Known
<1>10. Hand(next) = IF take THEN Append(known, Lookup!Request(Head(q))) ELSE known
  <2>1. \A w : Lookup!Request(w) = Addr(w)
    BY DEF Lookup!Request, Addr
  <2> QED
    BY <1>6, <2>1 DEF Taken
<1> HIDE DEF deliver, lookup, take, kept, known, next
<1>11. \A m \in SMs :
         /\ sm'[m].rx = IF take /\ m = d.from THEN Tail(sm[m].rx) ELSE sm[m].rx
         /\ sm'[m].tx = IF deliver /\ m = d.to THEN Append(sm[m].tx, d.read_value)
                        ELSE sm[m].tx
  <2>1. ASSUME NEW m \in SMs
        PROVE  Shaped(sm[m]) /\ sm'[m] = ServedFifos(d, room, q, m)
    BY <1>2, MachineFields DEF SystemInv
  <2> QED
    BY <2>1 DEF ServedFifos, Shaped, Fields, take, deliver
<1>12. /\ RxFifos' = IF take THEN [RxFifos EXCEPT ![d.from] = Tail(@)] ELSE RxFifos
       /\ TxFifos' = IF deliver
                     THEN [TxFifos EXCEPT ![d.to] = Append(@, d.read_value)]
                     ELSE TxFifos
  BY <1>1, <1>11 DEF RxFifos, TxFifos
<1>13. Use(d).from = d.from /\ Use(d).to = d.to /\ Use(d).bit_mode = d.bit_mode
  BY DEF Use
<1>14. Use(d) # Lookup!Unused
  BY <1>1 DEF Use, InUse, BitModes, Lookup!Unused
<1>15. Uses' = Uses /\ Hands' = [Hands EXCEPT ![c] = Hand(next)]
  <2>1. Uses' = Uses
    BY <1>2, <1>6 DEF Uses
  <2>2. Hands' = [Hands EXCEPT ![c] = Hand(next)]
    BY <1>2 DEF Hands
  <2> QED
    BY <2>1, <2>2
<1>16. Uses[c] = Use(d) /\ Hands[c] = Hand(d)
  BY DEF Uses, Hands
<1>17. /\ Uses[c].from = d.from /\ Uses[c].to = d.to
       /\ Uses[c].bit_mode = d.bit_mode /\ q = RxFifos[Uses[c].from]
  BY <1>5, <1>13, <1>16
<1> HIDE DEF d
<1>18. TxFifos' = IF deliver
                  THEN [TxFifos EXCEPT ![Uses[c].to] = Append(@, Hands[c][1].word)]
                  ELSE TxFifos
  BY <1>6, <1>12, <1>16, <1>17
<1>19. Lookup!Serve(c, deliver, lookup, take)
  BY <1>2, <1>4, <1>6, <1>8, <1>9, <1>10, <1>12, <1>14, <1>15, <1>16, <1>17,
     <1>18, Zenon
  DEF Lookup!Serve
<1> QED
  BY <1>7, <1>19

\* Setting a chain up abandons what it had in hand.
LEMMA SetupAbandons ==
  ASSUME SystemInv, SetupChain, UNCHANGED vars
  PROVE  \E c \in Channels : Lookup!Abandon(c)
<1>1. PICK c \in Channels, chain \in Chain :
        dma' = [dma EXCEPT ![c] = SetUp(chain)] /\ sram' = sram
  BY ChannelAssumption DEF SetupChain, DmaHostCalls
<1>2. dma \in [Channels -> DmaState]
  BY DEF SystemInv, ChannelsInv, ChannelsTypeOK
<1>3. Hand(SetUp(chain)) = <<>>
  BY SetUpInUse, HandForms DEF SetUp
<1>4. Uses'[c] # Lookup!Unused
  BY <1>1, <1>2, SetUpInUse DEF Uses, Use, InUse, BitModes, Lookup!Unused
<1>5. \A e \in Channels \ {c} : Uses'[e] = Uses[e]
  BY <1>1, <1>2 DEF Uses
<1>6. Hands' = [Hands EXCEPT ![c] = <<>>]
  BY <1>1, <1>2, <1>3 DEF Hands
<1>7. RxFifos' = RxFifos /\ TxFifos' = TxFifos
  BY DEF vars, RxFifos, TxFifos
<1> QED
  BY <1>1, <1>4, <1>5, <1>6, <1>7 DEF Lookup!Abandon

\* Once the chip is configured every step serves, abandons, moves a word, or
\* changes nothing a lookup sees.
LEMMA BootedServes ==
  ASSUME SystemInv, SystemInv', Booted, [SystemNext]_systemVars
  PROVE  [Lookup!LookupNext]_Lookup!lookupVars
<1>1. TypeOK /\ TypeOK' /\ FifoBounded'
  BY DEF SystemInv
<1>2. ASSUME UNCHANGED <<sm, dma, sram>> PROVE UNCHANGED Lookup!lookupVars
  BY <1>2 DEF Lookup!lookupVars, Uses, Hands, RxFifos, TxFifos
<1>3. ASSUME Next, UNCHANGED <<dma, sram>> PROVE Lookup!LookupNext
  BY <1>1, <1>3, NextMovesOne, MovesOneMoves DEF Lookup!LookupNext
<1>4. ~FromApio
  BY BootingUnbooted
<1>5. CASE RunsCycle
  <2>1. CASE Steps \/ AppliesIrqs
    BY <1>3, <2>1 DEF Steps, AppliesIrqs, Next, Cycle
  <2>2. ASSUME NEW c \in Channels, StepsChannel(c) PROVE Lookup!LookupNext
    BY <2>2, StepServes DEF Lookup!LookupNext
  <2>3. ASSUME NEW c \in Channels, SkipsChannel(c)
        PROVE  UNCHANGED <<sm, dma, sram>>
    BY <2>3 DEF SkipsChannel, vars
  <2> QED
    BY <1>2, <1>5, <2>1, <2>2, <2>3 DEF RunsCycle
<1>6. CASE WaitTest
  BY <1>2, <1>6 DEF WaitTest, bootVars, vars
<1>7. CASE HostCallsSystem
  <2>1. CASE SetupChain /\ UNCHANGED <<vars, wait>>
    BY <2>1, SetupAbandons DEF Lookup!LookupNext
  <2>2. CASE HostUsesSram /\ UNCHANGED <<vars, wait>>
    BY <2>2
    DEF HostUsesSram, Lookup!LookupNext, Lookup!OthersMove, Uses, Hands, vars,
        RxFifos, TxFifos
  <2>3. CASE UNCHANGED <<vars, sram, dma>>
    BY <1>2, <2>3 DEF vars
  <2>4. CASE HostCall /\ UNCHANGED <<sram, dma, wait>>
    BY <1>3, <2>4 DEF Next
  <2> QED
    BY <1>7, <2>1, <2>2, <2>3, <2>4 DEF HostCallsSystem, ClientCalls
<1>8. CASE UNCHANGED systemVars
  BY <1>2, <1>8 DEF systemVars, bootVars, vars
<1> QED
  BY <1>4, <1>5, <1>6, <1>7, <1>8 DEF SystemNext

\* Before that nothing touches the channels and the SRAM.
LEMMA UnbootedLeaves ==
  ASSUME SystemInv, ~Booted, [SystemNext]_systemVars
  PROVE  UNCHANGED <<dma, sram>>
<1>1. \A c \in Channels : chan # c
  BY LoopsBooted
<1> QED
  BY <1>1
  DEF SystemNext, RunsCycle, Steps, AppliesIrqs, StepsChannel, SkipsChannel,
      WaitTest, HostCallsSystem, Rests, systemVars

\* In the whole system, under any programs, any number of channels with delays of at
\* least a cycle, and any use the host makes of FIFOs and SRAM, the channels answer
\* each address once and in order, with what the SRAM holds at one moment.
THEOREM SystemServes == SystemSpec => ChainsServe
<1>1. SystemInit => Lookup!LookupInit
  <2> SUFFICES ASSUME SystemInit PROVE Lookup!LookupInit
    OBVIOUS
  <2>1. Hand(DmaReset) = <<>>
    BY ChannelResetTyped, HandForms DEF DmaReset
  <2>2. Use(DmaReset) = Lookup!Unused
    BY DEF Use, DmaReset, Lookup!Unused
  <2>3. RxFifos = [m \in SMs |-> <<>>] /\ TxFifos = [m \in SMs |-> <<>>]
    BY DEF SystemInit, BootInit, InitFrom, SmReset, RxFifos, TxFifos
  <2> QED
    BY <2>1, <2>2, <2>3, SameMachines
    DEF SystemInit, ChannelsInit, Uses, Hands, Lookup!LookupInit, SramInit,
        Lookup!SramInit
<1> DEFINE Serves == IF Booted THEN Lookup!LookupNext ELSE UNCHANGED <<dma, sram>>
<1>2. SystemInv /\ SystemInv' /\ [SystemNext]_systemVars
        => [Serves]_Lookup!lookupVars
  BY BootedServes, UnbootedLeaves
<1> QED
  BY <1>1, <1>2, SystemInvariant, PTL DEF SystemSpec, ChainsServe
=============================================================================
