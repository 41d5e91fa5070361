------------------------------- MODULE MCTcp -------------------------------
(* Tcp against an arbitrary environment, with every kind of segment.         *)
EXTENDS Tcp

MCPayloads == {<<>>, <<"b">>, <<"b", "b">>}
MCWrites == {<<"b">>}

MCSegment ==
  [seq : 0..(SeqMod - 1), ack : 0..(SeqMod - 1), syn : BOOLEAN, ackf : BOOLEAN,
   fin : BOOLEAN, rst : {FALSE}, data : MCPayloads]
  \cup [seq : {0}, ack : {0}, syn : {FALSE}, ackf : {FALSE}, fin : {FALSE},
        rst : {TRUE}, data : {<<>>}]
============================================================================
