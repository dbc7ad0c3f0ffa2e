------------------------------ MODULE StepLoop -----------------------------
(***************************************************************************)
(* A module whose steps have no depends_on: the loop of ExecuteModule      *)
(* (executor.go).  A step is looked up by name when another step's         *)
(* decision routes to it, so the loop can go back.  The run's context can  *)
(* be cancelled at any time.                                               *)
(*                                                                         *)
(* What a step computes is left out; how it ended, what its decisions      *)
(* matched and whether an action of on_error is continue is all the loop   *)
(* looks at.                                                               *)
(***************************************************************************)
EXTENDS Naturals, Sequences, SequencesExt

CONSTANTS
  StepName,
  NoGoto, EndGoto,  \* goto targets: the empty one and "_end"
  NoCase,           \* a switch of which no case matches
  MaxConds          \* bound: conditions of a step that match

ASSUME StepLoopAssumption ==
  /\ {NoGoto, EndGoto, NoCase} \cap StepName = {}
  /\ NoGoto # EndGoto /\ NoCase \notin {NoGoto, EndGoto}
  /\ MaxConds \in Nat

VARIABLES
  steps,      \* the names of the module's steps, in order
  tolerant,   \* the positions whose step has continue among its on_error
  ctxDone,    \* is the run's context done?
  loopPc,     \* "off", "setup", "top" of the loop, in a "step"
  current,    \* currentStep
  modStatus,  \* the status ExecuteModule returned last, "none" while it runs
  modErr      \* and its error: "nil", "ctx" if it is context.Canceled or
              \* context.DeadlineExceeded, else "other"

loopVars == <<loopPc, current, modStatus, modErr>>

Target == StepName \cup {NoGoto, EndGoto}

StepLoopTypeOK ==
  /\ steps \in Seq(StepName)
  /\ tolerant \in SUBSET DOMAIN steps
  /\ ctxDone \in BOOLEAN
  /\ loopPc \in {"off", "setup", "top", "step"}
  /\ current \in 1 .. Len(steps) + 1
  /\ modStatus \in {"none", "completed", "skipped", "failed", "cancelled"}
  /\ modErr \in {"nil", "ctx", "other"}

StepLoopInit ==
  /\ tolerant \in SUBSET DOMAIN steps
  /\ ctxDone = FALSE
  /\ loopPc = "off" /\ current = 1
  /\ modStatus = "none" /\ modErr = "nil"

(* The first step of that name; 0 if there is none.                         *)
FindStepIndex(name) ==
  LET at == {i \in DOMAIN steps : steps[i] = name}
  IN IF at = {} THEN 0 ELSE CHOOSE i \in at : \A j \in at : i <= j

(* The case a switch matches says where to go, even if it says nothing; of  *)
(* the conditions that match, the last one with a goto overrides it.        *)
NextStep(case, conds) ==
  LET gotos == SelectSeq(conds, LAMBDA g : g # NoGoto)
  IN IF gotos # <<>> THEN Last(gotos)
     ELSE IF case = NoCase THEN NoGoto ELSE case
-----------------------------------------------------------------------------
Returns(s, err) ==
  /\ loopPc' = "off" /\ current' = 1
  /\ modStatus' = s /\ modErr' = err

EnterModule ==
  /\ loopPc = "off"
  /\ loopPc' = "setup" /\ current' = 1
  /\ modStatus' = "none" /\ modErr' = "nil"

(* Before the loop: the manual trigger may be disabled (skipped); the       *)
(* runner, the parameters or a dependency may fail.  The runner's setup may *)
(* run into the context, or into the timeout of its own dial.               *)
SetUp ==
  /\ loopPc = "setup"
  /\ \/ Returns("skipped", "nil")
     \/ \E err \in {"ctx", "other"} : Returns("failed", err)
     \/ loopPc' = "top" /\ UNCHANGED <<current, modStatus, modErr>>
  /\ UNCHANGED ctxDone

LoopCancelled ==
  /\ loopPc = "top" /\ current <= Len(steps) /\ ctxDone
  /\ Returns("cancelled", "ctx")
  /\ UNCHANGED ctxDone

(* Mutant: the loop does not look at the context.                           *)
BeginStepAlways ==
  /\ loopPc = "top" /\ current <= Len(steps)
  /\ loopPc' = "step"
  /\ UNCHANGED <<ctxDone, current, modStatus, modErr>>

BeginStep ==
  /\ loopPc = "top" /\ current <= Len(steps) /\ ~ ctxDone
  /\ loopPc' = "step"
  /\ UNCHANGED <<ctxDone, current, modStatus, modErr>>

(* After the last step, or "_end": the hooks, the exports; the context is   *)
(* not looked at again.                                                     *)
LoopEnds ==
  /\ loopPc = "top" /\ current > Len(steps)
  /\ Returns("completed", "nil")
  /\ UNCHANGED ctxDone

Advance == current' = current + 1 /\ loopPc' = "top" /\ UNCHANGED <<modStatus, modErr>>

(* A pre_condition that does not hold: no decision is taken.                *)
StepSkipped == loopPc = "step" /\ Advance /\ UNCHANGED ctxDone

(* skip(), in the step or in its pre_condition, ends the module.            *)
StepSkipsModule == loopPc = "step" /\ Returns("skipped", "nil") /\ UNCHANGED ctxDone

(* The error of an HTTP step that timed out by itself is DeadlineExceeded   *)
(* as well, although the run's context is not done.                         *)
StepFails ==
  /\ loopPc = "step"
  /\ IF current \in tolerant
       THEN Advance
       ELSE \E err \in {"ctx", "other"} : Returns("failed", err)
  /\ UNCHANGED ctxDone

StepSucceeds ==
  /\ loopPc = "step"
  /\ \E case \in Target \cup {NoCase}, conds \in BoundedSeq(Target, MaxConds) :
       LET next == NextStep(case, conds) IN
         IF next = EndGoto
           THEN /\ current' = Len(steps) + 1
                /\ loopPc' = "top"
                /\ UNCHANGED <<modStatus, modErr>>
           ELSE IF FindStepIndex(next) > 0
           THEN /\ current' = FindStepIndex(next)
                /\ loopPc' = "top"
                /\ UNCHANGED <<modStatus, modErr>>
           ELSE Advance
  /\ UNCHANGED ctxDone

LoopStep ==
  \/ SetUp \/ LoopCancelled \/ BeginStep \/ LoopEnds
  \/ StepSkipped \/ StepSkipsModule \/ StepFails \/ StepSucceeds

(* The caller's timeout, an interrupt or a request to cancel.               *)
CancelContext == ~ ctxDone /\ ctxDone' = TRUE /\ UNCHANGED loopVars
=============================================================================
