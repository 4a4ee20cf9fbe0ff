------------------------------ MODULE MCConsole ------------------------------
(***************************************************************************)
(* A screen of three rows of four characters, a prompt of three, lines of  *)
(* at most three characters and a ring buffer of three: lines wrap, the    *)
(* screen scrolls, the buffer wraps round and fills.                       *)
(***************************************************************************)
EXTENDS Console

MCOutputs == {<<"n">>, <<"c", "n", "c", "c", "n">>}
=============================================================================
