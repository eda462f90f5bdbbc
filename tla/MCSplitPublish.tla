--------------------------- MODULE MCSplitPublish ---------------------------
(* Two interchangeable pairs, three generation numbers and one reader; up  *)
(* to four publications during a read, so that it can be overtaken by      *)
(* removals, orphans and renumbering, and meet a missing file twice.       *)
EXTENDS SplitPublish, TLC

PairsAlike == Permutations(Pairs)
=============================================================================
