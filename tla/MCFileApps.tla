----------------------------- MODULE MCFileApps -----------------------------
(* Small instances of FileApps, with the bounds on NEXT_ID and NEXT_OFFSET. *)
EXTENDS FileApps

CONSTANTS IdBound, OffsetBound

\* The file manager is used only while no file has contents, on a smaller tree.
Bounded ==
    /\ fs'.nextId <= IdBound
    /\ fs'.next <= OffsetBound
    /\ fm' # FmStart(Empty) => fs'.nextId < IdBound /\ fs'.next = 1 /\ ed'.text = <<>>

MCSpec == AppsInit /\ [][AppsNext /\ Bounded]_vars

SomeData == {<<"x">>, <<"x", "y">>}

P(abs, parts) == [abs |-> abs, parts |-> parts]

\* One name that directories are reached by.
D == CHOOSE n \in Name : TRUE

\* Plain names, one directory down and one up, and the root.
SomePaths ==
    {P(FALSE, <<n>>) : n \in Name}
        \cup {P(FALSE, <<D, n>>) : n \in Name}
        \cup {P(FALSE, <<DotDot, n>>) : n \in Name}
        \cup {P(TRUE, <<>>)}
=============================================================================
