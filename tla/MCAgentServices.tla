--------------------------- MODULE MCAgentServices ---------------------------
(* What runs around an agent's handler, for TLC: the model it calls, the    *)
(* artifacts it reads and collects, the checkpoints it resumes from; and    *)
(* the Rust runtime, its tasks over both stores with handlers that panic    *)
(* and processes that die, its one-shot invocations over both stores with   *)
(* statements that fail, two processes and processes that die, and its      *)
(* calls over a network that loses and delays.  They share no state, so     *)
(* each behaviour uses one of them, and the others keep one initial state.  *)
EXTENDS LlmCalls, ArtifactTools, EvidencePack, ResumeCheckpoints, RustTasks, RustOneShot, RustCallbacks

VARIABLE side \* the service this behaviour uses

\* every client with calls marked by an id; the other styles where tool calls are stitched
MCLlmSetups ==
  {[client |-> c, backend |-> "platform", style |-> "id"] : c \in {"author", "agent", "chat", "structured"}}
    \cup {[client |-> c, backend |-> "platform", style |-> st] :
            c \in {"agent", "chat"}, st \in {"index", "index_and_id", "first_id"}}
    \cup {[client |-> "author", backend |-> b, style |-> st] :
            b \in {"byok", "none"}, st \in {"id"}}
MCUpstream == <<1, 1>>
MCBodies   == {[summary |-> 0, content |-> 0], [summary |-> 1, content |-> 3]}
MCContextBudget == [total |-> 5, item |-> 2, refs |-> 3, entries |-> 2]

\* one step in two workflows and for two inputs, and another step with its capability
Invocation(w, s, c, d) == [workflow |-> w, step |-> s, capability |-> c, input |-> d]
MCInvocations ==
  {Invocation("w1", "s1", "outline", "d1"), Invocation("w1", "s2", "review", "d1"),
   Invocation("none", "s1", "outline", "d2")}

\* an agent signs its checkpoint, or names no more than its step
MCLabels == {{"step", "workflow", "capability", "input"}, {"step"}}

Runtime(durable, faults) == [durable |-> durable, faults |-> faults]
MCDeployments ==
  {Runtime(FALSE, {"panic"}), Runtime(TRUE, {"panic"}), Runtime(FALSE, {"crash"}),
   Runtime(TRUE, {"crash"})}

OneProcess == CHOOSE ps \in SUBSET Processes : Cardinality(ps) = 1
OneKey     == CHOOSE ks \in SUBSET InvocationKeys : Cardinality(ks) = 1
OneShot(sqlite, procs, mortal, failing) ==
  [sqlite |-> sqlite, procs |-> procs, mortal |-> mortal, failing |-> failing]
MCOneShotDeployments ==
  {OneShot(FALSE, OneProcess, FALSE, {}), OneShot(TRUE, OneProcess, TRUE, OneKey),
   OneShot(TRUE, Processes, FALSE, {}), OneShot(FALSE, OneProcess, TRUE, {})}

ServicesInit ==
  /\ side \in {"llm", "tools", "pack", "checkpoints", "tasks", "one_shot", "calls"}
  /\ LlmInit /\ ToolInit /\ PackInit /\ ResumeInit
  /\ Init /\ OneShotInit /\ CallbackInit
  /\ side # "llm"   => llm = CHOOSE setup \in LlmSetups : TRUE
  /\ side # "tools" => ~legacy
  /\ side # "pack"  => artifacts = [i \in {1} |-> CHOOSE body \in Bodies : TRUE]
  /\ side # "checkpoints" => service = "platform"
  /\ side # "tasks" => conf = CHOOSE d \in Deployments : TRUE
  /\ side # "one_shot" => deployed = CHOOSE d \in OneShotDeployments : TRUE

ServicesNext ==
  \/ /\ side = "llm" /\ LlmNext
     /\ UNCHANGED <<side, toolVars, packVars, resumeVars, vars, oneShotVars, callbackVars>>
  \/ /\ side = "tools" /\ ToolNext
     /\ UNCHANGED <<side, llmVars, packVars, resumeVars, vars, oneShotVars, callbackVars>>
  \/ /\ side = "pack" /\ PackNext
     /\ UNCHANGED <<side, llmVars, toolVars, resumeVars, vars, oneShotVars, callbackVars>>
  \/ /\ side = "checkpoints" /\ ResumeNext
     /\ UNCHANGED <<side, llmVars, toolVars, packVars, vars, oneShotVars, callbackVars>>
  \/ /\ side = "tasks" /\ Next
     /\ UNCHANGED <<side, llmVars, toolVars, packVars, resumeVars, oneShotVars, callbackVars>>
  \/ /\ side = "one_shot" /\ OneShotNext
     /\ UNCHANGED <<side, llmVars, toolVars, packVars, resumeVars, vars, callbackVars>>
  \/ /\ side = "calls" /\ CallbackNext
     /\ UNCHANGED <<side, llmVars, toolVars, packVars, resumeVars, vars, oneShotVars>>

serviceVars == <<side, llmVars, toolVars, packVars, resumeVars, vars, oneShotVars, callbackVars>>

(* Only the tasks of the Rust runtime are fair, and none of their steps is  *)
(* enabled in a behaviour of another side: there is no POST.                *)
ServicesSpec == ServicesInit /\ [][ServicesNext]_serviceVars /\ Fairness

ServicesTypeOK ==
  /\ LlmTypeOK /\ ToolTypeOK /\ PackTypeOK /\ ResumeTypeOK
  /\ TypeOK /\ OneShotTypeOK /\ CallbackTypeOK
=============================================================================
