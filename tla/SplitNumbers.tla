---------------------------- MODULE SplitNumbers ----------------------------
(***************************************************************************)
(* split_publish.rs once more, with the highest number any cameras.conf    *)
(* ever named: whether a number comes back.                                *)
(***************************************************************************)
EXTENDS SplitPublish

VARIABLE highest  \* history: the highest generation any conf named

NumbersSpec ==
  /\ SplitInit /\ highest = 0
  /\ [][SplitNext /\ highest' = Max({highest, conf'.gen})]_<<splitVars, highest>>

(* ADR-0032 4.1.3: "so a number is never reused, including after a crash": *)
(* the number a writer is about to commit was named by no earlier          *)
(* cameras.conf.  Clearing the selection of an empty store removes every   *)
(* generation file, and publish_split then counts from 1 again.            *)
NumberNeverReused == pc = "publish" /\ want.gen # 0 => want.gen > highest
=============================================================================
