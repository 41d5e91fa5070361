------------------------------ MODULE MCDiskFs ------------------------------
(* Small instances of DiskFs. *)
EXTENDS DiskFs, TLC

CONSTANTS IdBound, OffsetBound, SaveBound

\* After SaveBound saves in a row that finished there are only reboots.
Bounded ==
    /\ fs'.nextId <= IdBound
    /\ fs'.next <= OffsetBound
    /\ disk.super = SaveBound => fs' \in {fs, boot(disk)} /\ pending' = <<>>

MCSpec == DiskInit /\ [][DiskNext /\ Bounded]_vars

\* Names are only compared. The sample tree fixes one of them, but a boot shows
\* it only while the disk has no superblock, and then nothing but the sectors of
\* format, which hold no name, can have reached the disk: states that differ in
\* an exchange of names have the same state after such a boot.
NameSymmetry == Permutations(Name)

\* A small file and a larger one: one block and two.
SomeData == {<<"x">>, <<"y", "x">>}

\* The sample tree has a file of one byte.
SampleTree ==
    LET n  == CHOOSE n \in Name : TRUE
        s1 == create_node(Empty, ROOT_ID, n, "File")
    IN  write_file(s1, 2, <<"x">>)
=============================================================================
