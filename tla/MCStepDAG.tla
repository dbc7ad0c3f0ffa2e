------------------------------ MODULE MCStepDAG ----------------------------
(***************************************************************************)
(* Small modules for TLC.  Diamond: fork fans out to left and right, join  *)
(* needs both, side is independent.  Chain: fork, left, join in a row and  *)
(* side next to them.                                                      *)
(***************************************************************************)
EXTENDS StepDAG, TLC

CONSTANTS fork, left, right, join, side

Diamond == {fork, left, right, join, side}
DiamondDeps ==
  [s \in Diamond |->
     CASE s \in {left, right} -> {fork}
       [] s = join            -> {left, right}
       [] s \in {fork, side}  -> {}]

Chain == {fork, left, join, side}
ChainDeps ==
  [s \in Chain |->
     CASE s = left            -> {fork}
       [] s = join            -> {left}
       [] s \in {fork, side}  -> {}]
=============================================================================
