------------------------------ MODULE MCFatDir ------------------------------
(***************************************************************************)
(* A directory of one cluster that may grow by another, with two sectors   *)
(* of two slots each; names of one and of two LFN records.  It begins      *)
(* empty or with an entry that has no LFN record, and stale records behind *)
(* its end, or full without an end mark, as other systems leave it.        *)
(***************************************************************************)
EXTENDS FatDir

MCNames == {"a", "b", "long", "even"}
MCLfnCnt == [n \in MCNames |-> IF n \in {"a", "b"} THEN 1 ELSE 2]
MCNameLen == [n \in MCNames |-> IF n \in {"a", "b"} THEN 1 ELSE 14]
MCUses ==
  {<<"create", "a">>, <<"mkdir", "long">>, <<"open", "a">>, <<"stat", "b">>,
   <<"unlink", "b">>, <<"unlink", "even">>}
MCInitial ==
  {<<EndSlot, JunkSlot, JunkSlot, JunkSlot>>,
   <<SfnSlot("a"), EndSlot, JunkSlot, JunkSlot>>,
   <<LfnSlot("a", 1), SfnSlot("a"), LfnSlot("b", 1), SfnSlot("b")>>}
=============================================================================
