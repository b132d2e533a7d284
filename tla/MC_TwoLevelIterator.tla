------------------------- MODULE MC_TwoLevelIterator -------------------------
(* Model-checking instance of TwoLevelIterator: three data blocks, one of *)
(* a single entry, with gaps between them so that a Seek target can fall  *)
(* after a block's last key but at or before its separator, and targets   *)
(* before the first and after the last key.                               *)
EXTENDS TwoLevelIterator

MCBlocks == << <<1, 2>>, <<4>>, <<6, 7>> >>
MCTargets == 0..8
===============================================================================
