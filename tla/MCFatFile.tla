------------------------------ MODULE MCFatFile ------------------------------
(***************************************************************************)
(* Two handles and two files on a volume of two clusters of two sectors of *)
(* two bytes: writes cross sectors and clusters, start in the middle of a  *)
(* sector, fill the volume and pass the largest offset; one file is opened *)
(* through both handles at a time.                                         *)
(***************************************************************************)
EXTENDS FatFile

MCFiles == {"a", "b"}
MCHandles == {"h", "i"}
MCTexts == {<<1, 1, 1>>}
MCSeeks == {<<5, "START">>}
MCUses ==
  {<<"h", "a", {"READ", "WRITE", "CREATE"}>>, <<"i", "a", {"READ", "APPEND"}>>,
   <<"i", "b", {"WRITE", "CREATE", "TRUNC"}>>}
=============================================================================
