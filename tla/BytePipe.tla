------------------------------ MODULE BytePipe ------------------------------
(* What a TCP direction promises: what comes out is, at every moment, a      *)
(* prefix of what went in, and neither side ever takes a byte back.          *)
EXTENDS Integers, Sequences

CONSTANT Chunk          \* what one write may add

VARIABLES written, taken

Init == written = <<>> /\ taken = <<>>

Write == (\E d \in Chunk : written' = written \o d) /\ taken' = taken

Take ==
  /\ \E n \in (Len(taken) + 1)..Len(written) : taken' = SubSeq(written, 1, n)
  /\ written' = written

Spec == Init /\ [][Write \/ Take]_<<written, taken>>
============================================================================
