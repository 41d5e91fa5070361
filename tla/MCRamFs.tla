------------------------------ MODULE MCRamFs ------------------------------
(* Small instances of RamFs: the bounds on NEXT_ID and NEXT_OFFSET are here, *)
(* so the specification and its proofs have none.                            *)
EXTENDS RamFs, TLC

CONSTANTS IdBound, OffsetBound

Bounded == fs'.nextId <= IdBound /\ fs'.next <= OffsetBound

MCSpec == Init /\ [][Next /\ Bounded]_fs

\* Names are only compared.
NameSymmetry == Permutations(Name)

\* Contents of every length up to one more than MAX_FILE_SIZE = 2.
SomeData == {<<>>, <<"x">>, <<"y", "y">>, <<"x", "y", "x">>}
=============================================================================
