----------------------------- MODULE MCFlowRun -----------------------------
(* Instances for TLC: flows of three entries with up to MaxEdges items in   *)
(* their depends_on, whose modules have one step; and a single module with  *)
(* every sequence of up to three steps.                                     *)
EXTENDS FlowRun

CONSTANTS a, b, c, s1, s2, s3, MaxEdges

Entry(m)  == [name : {m}, dependsOn : BoundedSeq(Module \cup {Missing}, 2), aborts : BOOLEAN]
Items(f)  == Len(f[1].dependsOn) + Len(f[2].dependsOn) + Len(f[3].dependsOn)
ThreeOf(x, y, z) ==
  {f \in {<<p, q, r>> : p \in Entry(x), q \in Entry(y), r \in Entry(z)} :
     Items(f) <= MaxEdges /\ ~ f[2].aborts /\ ~ f[3].aborts}

ManyModules == /\ flow \in ThreeOf(a, b, c) \cup ThreeOf(a, b, a)
               /\ steps = <<s1>> /\ tolerant = {}
ManySteps   == /\ flow = <<[name |-> a, dependsOn |-> <<>>, aborts |-> FALSE]>>
               /\ steps \in BoundedSeq(StepName, 3)

MCInit == (ManyModules \/ ManySteps) /\ StepLoopInit /\ FlowInit
MCSpec == MCInit /\ [][Next]_vars /\ WF_vars(Step)
=============================================================================
