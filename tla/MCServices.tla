----------------------------- MODULE MCServices -----------------------------
(* What a session owns: the coordinator of background delivery with three    *)
(* channels, one more than the source registers; the scope of an extension;  *)
(* the Python kernel; the compaction of the conversation.  They share no     *)
(* state: the initial state chooses one, and the others stay as they are.    *)
EXTENDS BackgroundDelivery, Lifecycle, EvalKernel, Compaction

CONSTANTS bash, agents, other

VARIABLE part
serviceVars == <<part, vars, lifecycleVars, evalVars, compactionVars>>

MCChannels == {bash, agents, other}

ServicesInit == /\ Init /\ LifecycleInit /\ EvalInit /\ CompactionInit
                /\ part \in {"delivery", "scope", "kernel", "compaction"}
ServicesNext ==
  \/ /\ part = "delivery" /\ Next
     /\ UNCHANGED <<part, lifecycleVars, evalVars, compactionVars>>
  \/ /\ part = "scope" /\ LifecycleNext
     /\ UNCHANGED <<part, vars, evalVars, compactionVars>>
  \/ /\ part = "kernel" /\ EvalNext
     /\ UNCHANGED <<part, vars, lifecycleVars, compactionVars>>
  \/ /\ part = "compaction" /\ CompactionNext
     /\ UNCHANGED <<part, vars, lifecycleVars, evalVars>>
ServicesSpec == /\ ServicesInit /\ [][ServicesNext]_serviceVars
                /\ WF_vars(RunBatch \/ Skip \/ FlushHead) /\ EvalFairness
=============================================================================
