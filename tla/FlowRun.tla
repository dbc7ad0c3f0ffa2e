------------------------------- MODULE FlowRun -----------------------------
(***************************************************************************)
(* ExecuteFlow (executor.go): the modules of a flow run one after the      *)
(* other, in an order that their depends_on allows.  buildDependencyGraph  *)
(* counts each module's dependencies; whenever a module has ended, in      *)
(* whatever way, its dependents are counted down and become ready at zero. *)
(* The graph is by name: of two entries with one name, the counts add up   *)
(* and the later entry is the one that runs.  Each module runs by the loop *)
(* of StepLoop (the modules all have the same steps here).                 *)
(***************************************************************************)
EXTENDS StepLoop, FiniteSets

CONSTANTS
  Module, Missing  \* names of modules, and one that no entry has

ASSUME FlowRunAssumption == IsFiniteSet(Module) /\ Missing \notin Module

VARIABLES
  flow,      \* the entries of flow.Modules: [name, dependsOn, aborts]
  inDegree,  \* dependencies a name waits for
  ready,     \* the ready queue
  executed,  \* names that have been dealt with
  results,   \* result.ModuleResults: [entry, status]
  flowPc,    \* "new", "loop", "popped", in a "module", "end"
  entry,     \* the entry that runs
  verdict    \* how the flow ended: its status, and "circular" for that failure

flowVars == <<inDegree, ready, executed, results, flowPc, entry, verdict>>
vars     == <<steps, tolerant, ctxDone, loopVars, flow, flowVars>>
fixed    == <<steps, tolerant, flow>>

Names == {flow[i].name : i \in DOMAIN flow}

(* The entries of a name, and the one that buildModuleMap keeps: the last.  *)
EntriesOf(m) == {i \in DOMAIN flow : flow[i].name = m}
EntryOf(m)   == CHOOSE i \in EntriesOf(m) : \A j \in EntriesOf(m) : j <= i

(* The items of depends_on in m's entries, each by its place; what each     *)
(* names; and how many of m's name d.                                       *)
Edges(m)    == UNION {{i} \X DOMAIN flow[i].dependsOn : i \in EntriesOf(m)}
To(e)       == flow[e[1]].dependsOn[e[2]]
Lists(m, d) == Cardinality({e \in Edges(m) : To(e) = d})

Flows == Seq([name : Module, dependsOn : Seq(Module \cup {Missing}), aborts : BOOLEAN])

TypeOK ==
  /\ StepLoopTypeOK
  /\ flow \in Flows
  /\ inDegree \in [Names -> Nat]
  /\ ready \in Seq(Names)
  /\ executed \in SUBSET Names
  /\ results \in Seq([entry : DOMAIN flow,
                      status : {"completed", "skipped", "failed", "cancelled"}])
  /\ flowPc \in {"new", "loop", "popped", "module", "end"}
  /\ entry \in (DOMAIN flow) \cup {0}
  /\ verdict \in {"running", "completed", "failed", "circular", "cancelled"}

FlowInit ==
  /\ inDegree = [m \in Names |-> 0]
  /\ ready = <<>> /\ executed = {} /\ results = <<>>
  /\ flowPc = "new" /\ entry = 0 /\ verdict = "running"

Record(i, s) == results' = Append(results, [entry |-> i, status |-> s])

(* Mutant: a dependent is ready as soon as one of its dependencies is done. *)
UnblockAny(m) ==
  LET freed == {d \in Names : Lists(d, m) > 0 /\ d \notin executed'}
  IN /\ inDegree' = [d \in Names |-> inDegree[d] - Lists(d, m)]
     /\ \E order \in SetToSeqs(freed) : ready' = ready \o order

(* Count m's dependents down; those that reach zero are ready.  A           *)
(* dependent that lists m twice is counted down twice, and added once.      *)
Unblock(m) ==
  LET freed == {d \in Names : /\ Lists(d, m) > 0 /\ Lists(d, m) = inDegree[d]
                              /\ d \notin executed'}
  IN /\ inDegree' = [d \in Names |-> inDegree[d] - Lists(d, m)]
     /\ \E order \in SetToSeqs(freed) : ready' = ready \o order
-----------------------------------------------------------------------------
(* Parameters or a dependency of the flow may fail.                         *)
FlowRefused ==
  /\ flowPc = "new"
  /\ flowPc' = "end" /\ verdict' = "failed"
  /\ UNCHANGED <<fixed, ctxDone, loopVars, inDegree, ready, executed, results, entry>>

(* Mutant: a module counts as one dependency, however many it has.          *)
BuildDependencyGraphOnce ==
  /\ flowPc = "new"
  /\ inDegree' = [m \in Names |-> IF Edges(m) = {} THEN 0 ELSE 1]
  /\ ready' \in SetToSeqs({m \in Names : inDegree'[m] = 0})
  /\ flowPc' = "loop"
  /\ UNCHANGED <<fixed, ctxDone, loopVars, executed, results, entry, verdict>>

(* Names without dependencies start in the ready queue, in any order.       *)
BuildDependencyGraph ==
  /\ flowPc = "new"
  /\ inDegree' = [m \in Names |-> Cardinality(Edges(m))]
  /\ ready' \in SetToSeqs({m \in Names : inDegree'[m] = 0})
  /\ flowPc' = "loop"
  /\ UNCHANGED <<fixed, ctxDone, loopVars, executed, results, entry, verdict>>

FlowCancelled ==
  /\ flowPc = "loop" /\ ready # <<>> /\ ctxDone
  /\ flowPc' = "end" /\ verdict' = "cancelled"
  /\ UNCHANGED <<fixed, ctxDone, loopVars, inDegree, ready, executed, results, entry>>

PopReady ==
  /\ flowPc = "loop" /\ ready # <<>> /\ ~ ctxDone
  /\ ready' = Tail(ready)
  /\ IF Head(ready) \in executed
       THEN UNCHANGED <<flowPc, entry>>
       ELSE entry' = EntryOf(Head(ready)) /\ flowPc' = "popped"
  /\ UNCHANGED <<fixed, ctxDone, loopVars, inDegree, executed, results, verdict>>

(* The entry has been dealt with: its result, and its dependents.           *)
Done(s) ==
  /\ Record(entry, s)
  /\ executed' = executed \cup {flow[entry].name}
  /\ Unblock(flow[entry].name)
  /\ flowPc' = "loop" /\ entry' = 0
  /\ UNCHANGED verdict

EndsWith(v) == flowPc' = "end" /\ verdict' = v /\ UNCHANGED <<inDegree, ready, executed, entry>>

(* It is excluded, or its condition is false or cannot be evaluated.        *)
SkipModule ==
  /\ flowPc = "popped"
  /\ Done("skipped")
  /\ UNCHANGED <<fixed, ctxDone, loopVars>>

LoadFails ==
  /\ flowPc = "popped"
  /\ EndsWith("failed")
  /\ UNCHANGED <<fixed, ctxDone, loopVars, results>>

ExecuteModule ==
  /\ flowPc = "popped"
  /\ EnterModule
  /\ flowPc' = "module"
  /\ UNCHANGED <<fixed, ctxDone, inDegree, ready, executed, results, entry, verdict>>

RunsModule == flowPc = "module" /\ LoopStep /\ UNCHANGED <<fixed, flowVars>>

Returned == flowPc = "module" /\ loopPc = "off"

ModuleEnds ==
  /\ Returned /\ modErr = "nil"
  /\ Done(modStatus)
  /\ UNCHANGED <<fixed, ctxDone, loopVars>>

(* The context's error, or a timeout of the module's own: no on_error.      *)
ModuleCancelled ==
  /\ Returned /\ modErr = "ctx"
  /\ Record(entry, "cancelled")
  /\ EndsWith("cancelled")
  /\ UNCHANGED <<fixed, ctxDone, loopVars>>

(* An abort among its on_error actions ends the flow, also one whose        *)
(* condition does not hold; otherwise its dependents run all the same.      *)
ModuleFails ==
  /\ Returned /\ modErr = "other"
  /\ IF flow[entry].aborts
       THEN Record(entry, "failed") /\ EndsWith("failed")
       ELSE Done("failed")
  /\ UNCHANGED <<fixed, ctxDone, loopVars>>

(* Mutant: what is left over at the end is not looked at.                   *)
FlowEndsUnchecked ==
  /\ flowPc = "loop" /\ ready = <<>>
  /\ EndsWith(IF ctxDone THEN "cancelled" ELSE "completed")
  /\ UNCHANGED <<fixed, ctxDone, loopVars, results>>

(* Names that still wait for others are a circular dependency.              *)
FlowEnds ==
  /\ flowPc = "loop" /\ ready = <<>>
  /\ EndsWith(IF \E m \in Names : m \notin executed /\ inDegree[m] > 0 THEN "circular"
               ELSE IF ctxDone THEN "cancelled" ELSE "completed")
  /\ UNCHANGED <<fixed, ctxDone, loopVars, results>>

Cancel == flowPc # "end" /\ CancelContext /\ UNCHANGED <<fixed, flowVars>>
-----------------------------------------------------------------------------
Step ==
  \/ FlowRefused \/ BuildDependencyGraph \/ FlowCancelled \/ PopReady
  \/ SkipModule \/ LoadFails \/ ExecuteModule \/ RunsModule
  \/ ModuleEnds \/ ModuleCancelled \/ ModuleFails \/ FlowEnds

Next == Step \/ Cancel

Init ==
  /\ steps \in Seq(StepName)
  /\ flow \in Flows
  /\ StepLoopInit /\ FlowInit

Spec == Init /\ [][Next]_vars /\ WF_vars(Step)
-----------------------------------------------------------------------------
Deps(m)  == {To(e) : e \in Edges(m)}
Recorded == {flow[results[i].entry].name : i \in DOMAIN results}

(* The modules as FlowOrder sees them.                                      *)
StatusOf(m) ==
  IF m \in Recorded
    THEN results[CHOOSE i \in DOMAIN results : flow[results[i].entry].name = m].status
    ELSE IF flowPc = "module" /\ flow[entry].name = m THEN "running" ELSE "pending"

Depends == [m \in Names |-> Deps(m)]
Status  == [m \in Names |-> StatusOf(m)]

Order == INSTANCE FlowOrder WITH deps <- Depends, status <- Status, ended <- verdict

(* The loop keeps FlowOrder's promise: a module runs once, after all it     *)
(* depends on, also when entries repeat names or names repeat in depends_on *)
(* (executor.go:2001, :2033, :2259).                                        *)
ImplementsFlowOrder == Order!Spec

(* The names that can never run: the largest set of names each of which     *)
(* waits for a name of the set, or for one that no entry has.               *)
Stuck == UNION {S \in SUBSET Names :
                \A m \in S : \E d \in Deps(m) : d \in S \/ d \notin Names}

(* The flow fails as circular only if some names cannot run, having dealt   *)
(* with all the others; it completes only with a result for every name; it  *)
(* is cancelled only if its context is done or its last module returned the *)
(* error of some context, a step's timeout included; and such a module ends *)
(* the flow, whatever its on_error says (executor.go:2178, :2267-2300).     *)
VerdictIsRight ==
  /\ verdict = "circular"  => Stuck # {} /\ executed = Names \ Stuck
  /\ verdict = "completed" => Stuck = {} /\ Recorded = Names
  /\ verdict = "cancelled" =>
       ctxDone \/ \E i \in DOMAIN results : results[i].status = "cancelled"
  /\ \A i \in DOMAIN results :
       results[i].status = "cancelled" => i = Len(results) /\ verdict = "cancelled"

(* A flow whose context is done ends, even out of a loop of gotos, for      *)
(* which the code has no bound (executor.go:1319).                          *)
CancelEnds == ctxDone ~> flowPc = "end"
=============================================================================
