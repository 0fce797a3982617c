--------------------------- MODULE RemoteCommands ---------------------------
(***************************************************************************)
(* How the scripts of a variation reach the hosts: run_remote_executions   *)
(* (controller/src/run.rs) goes through setups, execute and teardowns, and *)
(* for each of them the executors of controller/src/command.rs start one   *)
(* task per host and wait for these tasks.                                 *)
(*                                                                         *)
(* An attempt is one variation of one run.  When a step of it fails        *)
(* main_loop gives the whole request up, and the next attempt belongs to   *)
(* another request; tasks nobody waits for any more go on by themselves.   *)
(***************************************************************************)
EXTENDS Integers, Sequences, FiniteSets

CONSTANTS
  Attempts,     \* number of attempts, a bound
  MaxSteps,     \* steps of one attempt, a bound
  Hosts,        \* every host, Localhost among them
  Localhost,
  Steps,        \* Steps[a] : setups, execute and teardowns of attempt a, in order,
                \*   as [source, hosts]; the source is "script" or "command"
  Sessions,     \* Sessions[a] : the hosts main_loop connected to for attempt a
  Spaced,       \* attempts whose variation directory has a space in its path
  SshFails      \* may an ssh connection fail

ASSUME RemoteCommandsAssumption ==
  /\ Attempts \in Nat /\ MaxSteps \in Nat
  /\ Localhost \in Hosts
  /\ Steps \in [1 .. Attempts -> Seq([source : {"script", "command"}, hosts : SUBSET Hosts])]
  /\ \A a \in 1 .. Attempts : Len(Steps[a]) <= MaxSteps
  /\ Sessions \in [1 .. Attempts -> SUBSET Hosts]
  /\ Spaced \subseteq 1 .. Attempts /\ SshFails \in BOOLEAN

VARIABLES
  attempt, step,   \* where main_loop is
  toJoin,          \* hosts whose task run_command still waits for
  waiting,         \* run_command has been called and has not returned
  task,            \* the executor's task for each attempt, step and host
  script,          \* the script on that host
  result           \* history: how each attempt ended

loop == <<attempt, step, toJoin, waiting, result>>
vars == <<loop, task, script>>

Commands == (1 .. Attempts) \X (1 .. MaxSteps) \X Hosts

Init ==
  /\ attempt = 1 /\ step = 1 /\ toJoin = {} /\ waiting = FALSE
  /\ task = [c \in Commands |-> "none"]
  /\ script = [c \in Commands |-> "none"]
  /\ result = [a \in 1 .. Attempts |-> "none"]

-----------------------------------------------------------------------------
(* The hosts a step is sent to.  filter_host_sessions keeps the hosts that *)
(* have a session; from_sessions takes no session at all to mean a local   *)
(* command.                                                                *)
Targets(a, k) ==
  LET filtered == Steps[a][k].hosts \cap Sessions[a]
  IN IF filtered = {} THEN {Localhost} ELSE filtered

-----------------------------------------------------------------------------
(* Faults a change to the code could bring in.  None is part of the        *)
(* specification: each stands in for the definition named after "for", to  *)
(* see that a property notices.                                            *)

(* for EndAttempt: the handles of the failed step are kept                 *)
EndAttemptOnly(r) ==
  /\ result' = [result EXCEPT ![attempt] = r]
  /\ attempt' = attempt + 1 /\ step' = 1
  /\ UNCHANGED toJoin /\ waiting' = FALSE

(* for Join: the first host to succeed is enough                           *)
JoinFirst ==
  /\ waiting /\ \E h \in toJoin : task[<<attempt, step, h>>] = "ok"
  /\ toJoin' = {}
  /\ UNCHANGED <<attempt, step, waiting, result, task, script>>

(* for Join: an error is taken for an answer                               *)
JoinAny ==
  /\ waiting
  /\ \E h \in toJoin :
       task[<<attempt, step, h>>] \in {"ok", "error"} /\ toJoin' = toJoin \ {h}
  /\ UNCHANGED <<attempt, step, waiting, result, task, script>>

(* for Join: an error is not an answer                                     *)
JoinSuccessful ==
  /\ waiting
  /\ \E h \in toJoin : task[<<attempt, step, h>>] = "ok" /\ toJoin' = toJoin \ {h}
  /\ UNCHANGED <<attempt, step, waiting, result, task, script>>

(* for Return: the tasks are spawned and not waited for                    *)
ReturnAtOnce ==
  /\ waiting
  /\ toJoin' = {} /\ waiting' = FALSE /\ step' = step + 1
  /\ UNCHANGED <<attempt, result, task, script>>

-----------------------------------------------------------------------------
(* main_loop and the executors.                                            *)

EndAttempt(r) ==
  /\ result' = [result EXCEPT ![attempt] = r]
  /\ attempt' = attempt + 1 /\ step' = 1
  /\ toJoin' = {} /\ waiting' = FALSE

Unfinished == attempt \in 1 .. Attempts /\ ~waiting

(* run_remote_execution: only scripts are looked at.                       *)
SkipCommand ==
  /\ Unfinished /\ step \in DOMAIN Steps[attempt]
  /\ Steps[attempt][step].source = "command"
  /\ step' = step + 1
  /\ UNCHANGED <<attempt, toJoin, waiting, result, task, script>>

RunScript ==
  /\ Unfinished /\ step \in DOMAIN Steps[attempt]
  /\ Steps[attempt][step].source = "script"
  /\ toJoin' = Targets(attempt, step) /\ waiting' = TRUE
  /\ task' = [c \in Commands |->
                IF c[1] = attempt /\ c[2] = step /\ c[3] \in toJoin' THEN "spawned" ELSE task[c]]
  /\ UNCHANGED <<attempt, step, result, script>>

(* The local task is waited for first, the remote ones in any order.  The  *)
(* first error returns, whatever the other tasks do.                       *)
Join ==
  /\ waiting
  /\ \E h \in toJoin :
       /\ Localhost \in toJoin => h = Localhost
       /\ \/ /\ task[<<attempt, step, h>>] = "ok"
             /\ toJoin' = toJoin \ {h}
             /\ UNCHANGED <<attempt, step, waiting, result>>
          \/ /\ task[<<attempt, step, h>>] = "error"
             /\ EndAttempt("failed")
  /\ UNCHANGED <<task, script>>

Return ==
  /\ waiting /\ toJoin = {}
  /\ waiting' = FALSE /\ step' = step + 1
  /\ UNCHANGED <<attempt, toJoin, result, task, script>>

Complete ==
  /\ Unfinished /\ step > Len(Steps[attempt])
  /\ EndAttempt("completed")
  /\ UNCHANGED <<task, script>>

-----------------------------------------------------------------------------
(* The task of command c, and the script on its host.                      *)

(* bash -c "cd directory && script": a space in the directory makes cd     *)
(* fail, and the script is not run.                                        *)
Start(c) ==
  /\ task[c] = "spawned"
  /\ task' = [task EXCEPT ![c] = "running"]
  /\ script' = [script EXCEPT ![c] = IF c[1] \in Spaced THEN "not run" ELSE "running"]
  /\ UNCHANGED loop

(* The connection fails, before the script starts or while it runs; then   *)
(* the script goes on without a listener.                                  *)
LoseConnection(c) ==
  /\ SshFails /\ c[3] # Localhost
  /\ task[c] \in {"spawned", "running"}
  /\ task' = [task EXCEPT ![c] = "error"]
  /\ UNCHANGED <<loop, script>>

Exit(c) ==
  /\ script[c] = "running"
  /\ script' = [script EXCEPT ![c] = "exited"]
  /\ UNCHANGED <<loop, task>>

(* Any exit status counts as success.                                      *)
Output(c) ==
  /\ task[c] = "running" /\ script[c] \in {"exited", "not run"}
  /\ task' = [task EXCEPT ![c] = "ok"]
  /\ UNCHANGED <<loop, script>>

-----------------------------------------------------------------------------
MainLoop == SkipCommand \/ RunScript \/ Join \/ Return \/ Complete

Next ==
  \/ MainLoop
  \/ \E c \in Commands : Start(c) \/ LoseConnection(c) \/ Exit(c) \/ Output(c)

(* Scripts end and tokio polls its tasks.                                  *)
Fairness ==
  /\ WF_vars(MainLoop)
  /\ \A c \in Commands : WF_vars(Start(c)) /\ WF_vars(Exit(c)) /\ WF_vars(Output(c))

Spec == Init /\ [][Next]_vars /\ Fairness

-----------------------------------------------------------------------------
(* Properties.                                                             *)

(* Every variable keeps its type; main_loop waits for hosts of the current *)
(* step only (controller/src/command.rs:397-494).                          *)
TypeOK ==
  /\ attempt \in 1 .. Attempts + 1 /\ step \in 1 .. MaxSteps + 1
  /\ toJoin \subseteq Hosts /\ waiting \in BOOLEAN
  /\ waiting => attempt \in 1 .. Attempts /\ step \in DOMAIN Steps[attempt]
  /\ toJoin # {} => waiting /\ toJoin \subseteq Targets(attempt, step)
  /\ task \in [Commands -> {"none", "spawned", "running", "ok", "error"}]
  /\ script \in [Commands -> {"none", "not run", "running", "exited"}]
  /\ result \in [1 .. Attempts -> {"none", "completed", "failed"}]

(* No step starts on any host before every earlier step of the variation   *)
(* has ended on all of its hosts: setups before execute before teardowns,  *)
(* also when tasks of an abandoned step are still about (run.rs:459-484).  *)
StepsInOrder ==
  \A c, d \in Commands :
    /\ c[1] = d[1] /\ c[2] < d[2]
    /\ script[d] # "none"
    => task[c] \in {"none", "ok"} /\ script[c] # "running"

(* As long as no connection fails only one variation has scripts on the    *)
(* hosts; a failed one may leave scripts behind, or even tasks that have   *)
(* yet to start theirs, for the next request to meet.                      *)
OneVariationAtATime ==
  (\A c \in Commands : task[c] # "error") =>
    \A c \in Commands : script[c] = "running" => c[1] = attempt

Ran(a, k) == \A h \in Steps[a][k].hosts : script[<<a, k, h>>] = "exited"

(* A variation that main_loop takes for complete had no error on any host  *)
(* unnoticed, and each of its scripts has run to its end on every host of  *)
(* the step that is connected, if the directory has no space in it         *)
(* (run_command, controller/src/command.rs:397-494).                       *)
CompletedScriptsRan ==
  \A a \in 1 .. Attempts : result[a] = "completed" =>
    \A k \in DOMAIN Steps[a] :
      /\ \A h \in Hosts : task[<<a, k, h>>] # "error"
      /\ Steps[a][k].source = "script" /\ a \notin Spaced =>
           \A h \in Steps[a][k].hosts \cap Sessions[a] : script[<<a, k, h>>] = "exited"

(* "The shell command/script to be run in parallel on all hosts defined"   *)
(* (controller/src/parse.rs:1286-1287): it has been run on all of them     *)
(* when the variation is complete.                                         *)
CompletedStepsRan ==
  \A a \in 1 .. Attempts : result[a] = "completed" =>
    \A k \in DOMAIN Steps[a] : Ran(a, k)

(* An error on one host never leaves main_loop waiting: run_command        *)
(* returns in the end (controller/src/command.rs:431-437).                 *)
RunCommandReturns == waiting ~> ~waiting

=============================================================================
