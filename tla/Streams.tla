------------------------------- MODULE Streams -------------------------------
(***************************************************************************)
(* What is written bit by bit and read again: the partitions of a lossy     *)
(* image, through the boolean coder, or the prefix codes of a lossless one. *)
(* An image is one or the other, as the tag of its chunk says               *)
(* (DecodeInto, src/dec/webp_dec.c).                                        *)
(***************************************************************************)
EXTENDS LossyStream, PrefixCodes

vars == <<lossyVars, codesVars>>

Init == (LossyInit /\ CodesIdle) \/ (LossyIdle /\ CodesInit)

Lossy    == LossyNext /\ UNCHANGED codesVars
Lossless == CodesNext /\ UNCHANGED lossyVars

\* All is read, or can not be.
Terminated == (LossyEnded \/ CodesEnded) /\ UNCHANGED vars

Next == Lossy \/ Lossless \/ Terminated

Spec == Init /\ [][Next]_vars
=============================================================================
