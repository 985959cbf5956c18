----------------------------- MODULE MCLSAHeap -----------------------------
(***************************************************************************)
(* Small instances of LSAHeap.  Offsets and sizes are the code's own       *)
(* (7-byte headers, 4-byte integers, 4 + 4n bytes for a list of n), only   *)
(* the memory is shrunk from 16384 bytes to one that holds a few blocks.   *)
(***************************************************************************)
EXTENDS LSAHeap, TLC

Shapes == {<<4, 4>>}

\* A global string of 5 bytes, then a global list of one integer.
StringAndList ==
    (4 :> [Block("LST_DATA", 5, 1) EXCEPT !.elems = <<>>])
      @@ (16 :> [Block("LST_LIST", 8, 1) EXCEPT !.elems = <<28>>])
      @@ (31 :> Block("LST_DATA", 4, 1))
============================================================================
