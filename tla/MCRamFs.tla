------------------------------ MODULE MCRamFs ------------------------------
(***************************************************************************)
(* Two short components and one that is cut off.  Two children fill a      *)
(* node.                                                                   *)
(***************************************************************************)
EXTENDS RamFs

MCComponents == {"a", "b", "long"}
MCKept(n) == IF n = <<"long">> THEN <<"lon">> ELSE n
MCContents == {"x", "y"}

MCPaths ==
  {[abs |-> TRUE, comps |-> c] : c \in {<<>>, <<"a", "b">>}} \cup
  {[abs |-> FALSE, comps |-> c] :
     c \in {<<"a">>, <<"long">>, <<"a", "a">>, <<"a", "b">>, <<"a", "long">>, <<"b", "a">>,
            <<"a", "b", "a">>}}
=============================================================================
