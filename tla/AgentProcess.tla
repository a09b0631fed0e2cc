----------------------------- MODULE AgentProcess -----------------------------
(***************************************************************************)
(* The Python Agent as a process that the application starts, stops and    *)
(* asks (RS/agent/mod.rs, RS/commands/agent.rs), with the model            *)
(* configuration that it is started with (RS/commands/models.rs,           *)
(* RS/secrets.rs).  Requests come from several threads; between any two    *)
(* locks or awaits of one, others go on.  Processes bind one port, exit    *)
(* on their own, and outlive the application.                              *)
(***************************************************************************)
EXTENDS Naturals, FiniteSets

CONSTANTS Callers,     \* threads that use the service
          MaxSpawns,   \* bound: processes started
          MaxSaves,    \* bound: model configurations saved
          MaxRestarts  \* bound: restarts of the application

ASSUME ProcessAssumption == {MaxSpawns, MaxSaves, MaxRestarts} \subseteq Nat

Pids     == 1..MaxSpawns
NoPid    == 0
Versions == 0..MaxSaves   \* of endpoints and keys; 0 is none

VARIABLES row,       \* model_configs: the endpoint saved last, and if it refers to a key
          secret,    \* the file with the key
          saves,     \* configurations saved so far
          saving,    \* what the window's thread is saving
          env,       \* AgentServiceConfig.runtime_env, as far as the model goes
          child,     \* AgentService.child
          process,   \* the processes
          caller,    \* what each thread is doing
          restarts,
          disturbed  \* two threads have used the service at once, a process
                     \* could not be killed, or one outlived the application

configVars == <<row, secret, saves, saving>>
processVars == <<configVars, env, child, process, caller, restarts, disturbed>>

NoEnv   == [endpoint |-> 0, key |-> 0]
Dead    == [state |-> "dead", env |-> NoEnv]
Away    == [step |-> "idle"]
NoSave  == [step |-> "none"]

ProcessInit ==
    /\ row = [endpoint |-> 0, ref |-> FALSE] /\ secret = 0 /\ saves = 0 /\ saving = NoSave
    /\ env = NoEnv /\ child = NoPid
    /\ process = [p \in Pids |-> [state |-> "none", env |-> NoEnv]]
    /\ caller = [c \in Callers |-> Away]
    /\ restarts = 0 /\ disturbed = FALSE

Alive   == {p \in Pids : process[p].state \in {"starting", "serving"}}
Serving == {p \in Pids : process[p].state = "serving"}

-----------------------------------------------------------------------------
(* Saving the configuration: the key goes to its file first, the row       *)
(* follows under another lock.                                             *)

BeginSave(key) ==
    /\ saving = NoSave /\ saves < MaxSaves
    /\ saves' = saves + 1
    /\ \/ /\ key = "keep" /\ UNCHANGED secret
          /\ saving' = [step |-> "row", ref |-> row.ref]
       \/ /\ key = "put" /\ secret' = saves'
          /\ saving' = [step |-> "row", ref |-> TRUE]
       \/ /\ key = "clear" /\ secret' = IF row.ref THEN 0 ELSE secret
          /\ saving' = [step |-> "row", ref |-> FALSE]
    /\ UNCHANGED <<row, env, child, process, caller, restarts, disturbed>>

\* The row is written, or cannot be.
EndSave ==
    /\ saving.step = "row"
    /\ row' \in {row, [endpoint |-> saves, ref |-> saving.ref]}
    /\ saving' = NoSave
    /\ UNCHANGED <<secret, saves, env, child, process, caller, restarts, disturbed>>

-----------------------------------------------------------------------------
(* A thread that uses the service.                                         *)

In(c, step) == caller[c].step = step
To(c, step) == caller' = [caller EXCEPT ![c].step = step]
End(c)      == caller' = [caller EXCEPT ![c] = Away]

\* stop_agent_service goes to its stop; a start and a request ("use") prepare the
\* runtime first, and differ in nothing that is kept.
Enter(c, op) ==
    /\ In(c, "idle")
    /\ caller' = [caller EXCEPT ![c] =
                     [step |-> IF op = "stop" THEN "stop" ELSE "load", op |-> op,
                      env |-> NoEnv, pid |-> NoPid]]
    /\ disturbed' = (disturbed \/ \E d \in Callers \ {c} : ~In(d, "idle"))
    /\ UNCHANGED <<configVars, env, child, process, restarts>>

\* load_agent_runtime_env: the row under the lock, the key after it.
LoadRow(c) ==
    /\ In(c, "load")
    /\ \/ /\ row.endpoint # 0 /\ row.ref
          /\ caller' = [caller EXCEPT ![c].step = "key", ![c].env.endpoint = row.endpoint]
       \/ /\ row.endpoint = 0 \/ ~row.ref
          /\ End(c)
    /\ UNCHANGED <<configVars, env, child, process, restarts, disturbed>>

LoadKey(c) ==
    /\ In(c, "key")
    /\ \/ /\ secret # 0
          /\ caller' = [caller EXCEPT ![c].step = "set", ![c].env.key = secret]
       \/ /\ secret = 0
          /\ End(c)
    /\ UNCHANGED <<configVars, env, child, process, restarts, disturbed>>

\* Mutant: the process that has the old values is kept.
SetEnvOnly(c) ==
    /\ In(c, "set")
    /\ env' = caller[c].env
    /\ To(c, "probe")
    /\ UNCHANGED <<configVars, child, process, restarts, disturbed>>

\* set_runtime_env; what changed is not known to a running process.
SetEnv(c) ==
    /\ In(c, "set")
    /\ env' = caller[c].env
    /\ To(c, IF env # caller[c].env THEN "stop" ELSE "probe")
    /\ UNCHANGED <<configVars, child, process, restarts, disturbed>>

\* A probe may be late although a process serves.  The environment for a new
\* process is read before the old one is taken.
Probe(c) ==
    /\ In(c, "probe")
    /\ \/ Serving # {} /\ To(c, "up")
       \/ caller' = [caller EXCEPT ![c].step = "take", ![c].env = env]
    /\ UNCHANGED <<configVars, env, child, process, restarts, disturbed>>

\* Taking the child, to stop it or to replace it.
After(step) == CASE step = "stop" -> "stopping" [] step = "take" -> "replacing"
                 [] OTHER -> "failing"

\* Mutant: a child that did not answer is forgotten.
ForgetChild(c) ==
    /\ caller[c].step \in {"stop", "take", "failed"}
    /\ caller' = [caller EXCEPT ![c].step = After(@), ![c].pid = NoPid]
    /\ child' = NoPid
    /\ UNCHANGED <<configVars, env, process, restarts, disturbed>>

TakeChild(c) ==
    /\ caller[c].step \in {"stop", "take", "failed"}
    /\ caller' = [caller EXCEPT ![c].step = After(@), ![c].pid = child]
    /\ child' = NoPid
    /\ UNCHANGED <<configVars, env, process, restarts, disturbed>>

Terminated(c) ==
    IF caller[c].pid \in Alive THEN [process EXCEPT ![caller[c].pid] = Dead] ELSE process

\* terminate_child.  After a stop the service is started again if it was
\* stopped for new values.
Terminate(c) ==
    /\ caller[c].step \in {"stopping", "replacing", "failing"}
    /\ process' = Terminated(c)
    /\ CASE In(c, "stopping") /\ caller[c].op # "stop" -> To(c, "probe")
         [] In(c, "replacing")                         -> To(c, "spawn")
         [] OTHER                                      -> End(c)
    /\ UNCHANGED <<configVars, env, child, restarts, disturbed>>

\* The handle is dropped, which does not end the process.
TerminateFails(c) ==
    /\ caller[c].step \in {"stopping", "replacing", "failing"}
    /\ caller[c].pid \in Alive
    /\ End(c)
    /\ disturbed' = TRUE
    /\ UNCHANGED <<configVars, env, child, process, restarts>>

Spawn(c) ==
    /\ In(c, "spawn")
    /\ \/ \E p \in Pids :
             /\ process[p].state = "none" /\ \A q \in 1..p-1 : process[q].state # "none"
             /\ process' = [process EXCEPT ![p] = [state |-> "starting", env |-> caller[c].env]]
             /\ caller' = [caller EXCEPT ![c].step = "replace", ![c].pid = p]
       \/ End(c) /\ UNCHANGED process
    /\ UNCHANGED <<configVars, env, child, restarts, disturbed>>

\* A handle that was there is dropped.
ReplaceChild(c) ==
    /\ In(c, "replace")
    /\ child' = caller[c].pid
    /\ To(c, "wait")
    /\ UNCHANGED <<configVars, env, process, restarts, disturbed>>

\* wait_until_healthy: whichever process answers, and whichever is held.
Healthy(c) ==
    /\ In(c, "wait") /\ Serving # {}
    /\ To(c, "up")
    /\ UNCHANGED <<configVars, env, child, process, restarts, disturbed>>

ChildExited(c) ==
    /\ In(c, "wait") /\ child # NoPid /\ child \notin Alive
    /\ child' = NoPid
    /\ To(c, "failed")
    /\ UNCHANGED <<configVars, env, process, restarts, disturbed>>

DeadlinePassed(c) ==
    /\ In(c, "wait")
    /\ To(c, "failed")
    /\ UNCHANGED <<configVars, env, child, process, restarts, disturbed>>

\* The answer of start with the pid, which forgets a child that has exited;
\* or the request of api_json to whichever process serves, if one does.
Use(c) ==
    /\ In(c, "up")
    /\ child' = IF child # NoPid /\ child \notin Alive THEN NoPid ELSE child
    /\ End(c)
    /\ UNCHANGED <<configVars, env, process, restarts, disturbed>>

CallerStep(c) ==
    \/ LoadRow(c) \/ LoadKey(c) \/ SetEnv(c) \/ Probe(c) \/ TakeChild(c) \/ Terminate(c)
    \/ TerminateFails(c) \/ Spawn(c) \/ ReplaceChild(c) \/ Healthy(c) \/ ChildExited(c)
    \/ DeadlinePassed(c) \/ Use(c)

-----------------------------------------------------------------------------
(* Processes, and the application.                                         *)

\* A second process on the port ends.
Bind(p) ==
    /\ process[p].state = "starting"
    /\ process' = [process EXCEPT ![p] = IF Serving = {} THEN [@ EXCEPT !.state = "serving"] ELSE Dead]
    /\ UNCHANGED <<configVars, env, child, caller, restarts, disturbed>>

Exit(p) ==
    /\ p \in Alive
    /\ process' = [process EXCEPT ![p] = Dead]
    /\ UNCHANGED <<configVars, env, child, caller, restarts, disturbed>>

Relaunch ==
    /\ restarts < MaxRestarts /\ restarts' = restarts + 1
    /\ caller' = [c \in Callers |-> Away]
    /\ saving' = NoSave /\ env' = NoEnv /\ child' = NoPid
    /\ disturbed' = (disturbed \/ Alive # {})
    /\ UNCHANGED <<row, secret, saves, process>>

ProcessNext ==
    \/ \E key \in {"keep", "put", "clear"} : BeginSave(key)
    \/ EndSave
    \/ \E c \in Callers : \/ \E op \in {"use", "stop"} : Enter(c, op)
                          \/ CallerStep(c)
    \/ \E p \in Pids : Bind(p) \/ Exit(p)
    \/ Relaunch

ProcessSpec == ProcessInit /\ [][ProcessNext]_processVars

-----------------------------------------------------------------------------
\* As long as one thread at a time uses the service, and what it kills is
\* dead, a request is answered by a process with the configuration that was
\* loaded for the request, and not by one that was started with an older one.
ServedAsConfigured ==
    [][\A c \in Callers : Use(c) /\ ~disturbed =>
          \A p \in Serving : process[p].env = caller[c].env]_processVars

\* Until then there is at most one process, whatever exits, is late or fails
\* to start.
OneInstance == ~disturbed => Cardinality(Alive) <= 1
=============================================================================
