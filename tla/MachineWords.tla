---------------------------- MODULE MachineWords ----------------------------
(***************************************************************************)
(* The unsigned integers of the program, with fewer values: a number is    *)
(* taken modulo Word, and a subtraction below zero wraps around.           *)
(***************************************************************************)
EXTENDS Naturals

CONSTANT Word   \* 2^64 in the program, 2^32 for positions in images

Bytes == 0 .. Word - 1

\* Subtraction of unsigned words.
Minus(a, b) == IF b <= a THEN a - b ELSE a - b + Word
=============================================================================
