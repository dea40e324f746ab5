------------------------------ MODULE MCFramer -----------------------------
EXTENDS Connection

(* An unsigned number of two bytes; nothing; a signed number and a flag.   *)
MCType   == 0 :> <<<<Unsigned(2)>>>> @@ 1 :> <<>> @@ 2 :> <<<<Signed(1), Bool>>>>
MCValues == {[id |-> 0, value |-> <<<<11>>>>], [id |-> 1, value |-> <<>>],
             [id |-> 2, value |-> <<<<-2, TRUE>>>>]}
MCResults ==
  [o \in Ops |-> CASE o = "connect" -> {-1, 0}
                   [] o = "send" -> {-1} \union 1 .. BufSize
                   [] o = "recv" -> 0 .. BufSize
                   [] OTHER -> {0}]
(* A magic cookie, a length that is too large, and the start of a header.  *)
MCRawPieces == {<<3, 0>>, <<0, 3>>, <<3>>}
=============================================================================
