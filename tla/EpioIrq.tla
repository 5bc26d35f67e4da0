------------------------------ MODULE EpioIrq -------------------------------
(***************************************************************************)
(* The eight IRQ flags of each PIO block.  Instructions do not change the  *)
(* flags they can see: they record what to clear and what to set, and the  *)
(* end of the cycle applies the clears and then the sets, in every block.  *)
(* The host changes the flags at once.  For the definitions named Bug...   *)
(* see EpioExec.                                                           *)
(***************************************************************************)
EXTENDS EpioChip

VARIABLE irq

IrqNums == 0 .. 7

IrqState ==
  [flags : SUBSET IrqNums, to_clear : SUBSET IrqNums,
   to_set : SUBSET IrqNums]

IrqTypeOK == irq \in [Blocks -> IrqState]

IrqInit ==
  irq = [b \in Blocks |-> [flags |-> {}, to_clear |-> {}, to_set |-> {}]]

BugIrqTarget(b, s, index) ==
  LET num == index % 8
  IN  CASE index \div 8 \in {0, 2} -> <<b, num>>
        [] index \div 8 = 1 -> <<IF b = 0 THEN NumBlocks - 1 ELSE b - 1, num>>
        [] index \div 8 = 3 -> <<IF b = NumBlocks - 1 THEN 0 ELSE b + 1, num>>

\* The block and the number an index of IRQ, WAIT IRQ or STATUS names, when
\* used by state machine s of block b: the upper two bits are the mode
IrqTarget(b, s, index) ==
  LET mode == index \div 8
      num == index % 8
  IN  CASE mode = 0 -> <<b, num>>
        [] mode = 1 -> <<IF b = 0 THEN NumBlocks - 1 ELSE b - 1, num>>
        [] mode = 2 -> <<b, (4 * (num \div 4)) + ((num + s) % 4)>>
        [] mode = 3 -> <<IF b = NumBlocks - 1 THEN 0 ELSE b + 1, num>>

Flag(t) == t[2] \in irq[t[1]].flags

RequestSet(t) == irq' = [irq EXCEPT ![t[1]].to_set = @ \cup {t[2]}]

RequestClear(t) == irq' = [irq EXCEPT ![t[1]].to_clear = @ \cup {t[2]}]

BugApplySetsFirst ==
  irq' = [b \in Blocks |->
            [flags |-> (irq[b].flags \cup irq[b].to_set) \ irq[b].to_clear,
             to_clear |-> {}, to_set |-> {}]]

BugApplyNoClear ==
  irq' = [b \in Blocks |->
            [flags |-> irq[b].flags \cup irq[b].to_set,
             to_clear |-> {}, to_set |-> {}]]

BugApplyNotLast ==
  irq' = [b \in Blocks |->
            IF b = NumBlocks - 1 THEN irq[b]
            ELSE [flags |-> (irq[b].flags \ irq[b].to_clear) \cup irq[b].to_set,
                  to_clear |-> {}, to_set |-> {}]]

\* epio_finish_step: a set and a clear of one flag in one cycle leave it set
ApplyRequests ==
  irq' = [b \in Blocks |->
            [flags |-> (irq[b].flags \ irq[b].to_clear) \cup irq[b].to_set,
             to_clear |-> {}, to_set |-> {}]]

SetBlockIrq(b, num) == irq' = [irq EXCEPT ![b].flags = @ \cup {num}]

ClearBlockIrq(b, num) == irq' = [irq EXCEPT ![b].flags = @ \ {num}]
=============================================================================
