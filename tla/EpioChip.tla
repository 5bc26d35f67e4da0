------------------------------ MODULE EpioChip ------------------------------
(***************************************************************************)
(* The size of the emulated chip: NumBlocks PIO blocks (3 in the code) of  *)
(* NumSms state machines each (4 in the code), numbered from 0.            *)
(***************************************************************************)
EXTENDS Integers

CONSTANTS NumBlocks, NumSms

ASSUME ChipAssumption ==
  /\ NumBlocks \in Nat /\ NumBlocks >= 1
  /\ NumSms \in Nat /\ NumSms >= 1

Blocks == 0 .. NumBlocks - 1

SmNums == 0 .. NumSms - 1

\* A state machine is named by its block and its number in it
SMs == Blocks \X SmNums
=============================================================================
