-------------------------- MODULE ExperimentRunner --------------------------
(***************************************************************************)
(* The controller's ExperimentRunner (controller/src/run.rs) and the HTTP  *)
(* handlers that share its state (controller/src/routes.rs).               *)
(*                                                                         *)
(* Concurrent tasks: the one runner task, one task for each POST /run and  *)
(* one for each GET /status.  They share the experiment queue and the name *)
(* of the current experiment, each behind a tokio mutex, and two atomics,  *)
(* current_run and current_runs, behind nothing.  An action is what a task *)
(* does between two points where another task can see the difference.      *)
(*                                                                         *)
(* What the stages of a variation do to the hosts is the subject of the    *)
(* module Exporters; here a stage succeeds, returns an error or panics.    *)
(***************************************************************************)
EXTENDS TokioMutex

CONSTANTS
  Requests,      \* the POST /run requests; a client's retry is another request
  Rejected,      \* those that validation or generation refuses
  Probes,        \* the GET /status requests
  Names,         \* names of generated experiments
  Runs,          \* Runs[r] : how often request r is repeated
  Variations,    \* Variations[r] : names of the experiments generated for r
  SlashNames,    \* names that hold a '/', so that the run number cannot be read back
  Unsplittable,  \* names of experiments with an exporter command no shell could split
  FaultyStages,  \* stages that may return an error
  Runner,        \* the runner task
  NoRequest, NoName

(* Everything main_loop does for a request before its first run, and for   *)
(* each variation of each run.  "settle" is the five seconds of sleep.     *)
PrepareStages == <<"connect_to_hosts", "make_directories", "upload", "correct_dependencies">>

VariationStages ==
  <<"make_directory", "symlink_dependencies", "start_exporters", "settle", "setups",
    "execute", "teardowns", "stop_exporters", "unlink_dependencies", "collect_results">>

Stages == {PrepareStages[i] : i \in DOMAIN PrepareStages}
            \cup {VariationStages[i] : i \in DOMAIN VariationStages}

MaxRuns == 65535      \* runs is a u16

ASSUME RunnerAssumption ==
  /\ Rejected \subseteq Requests
  /\ Runs \in [Requests -> 1 .. MaxRuns]
  /\ Variations \in [Requests -> Seq(Names) \ {<<>>}]
  /\ FaultyStages \subseteq Stages \ {"settle"}
  /\ NoRequest \notin Requests /\ NoName \notin Names
  /\ Runner \notin Requests \cup Probes /\ Requests \cap Probes = {}
  /\ Nobody \notin Requests \cup Probes \cup {Runner}

RunnerPCs == Stages \cup
  {"poll", "locked", "sleep", "store_run", "lock_name", "set_name",
   "reset_runs", "reset_run", "lock_reset", "reset_name", "dead"}

HandlerStates == {"new", "rejected", "enqueue", "dropped",
                  "enqueued", "acknowledged", "unacknowledged"}

ProbeStates == {"new", "status", "run loaded", "runs loaded", "both loaded", "answered"}

VARIABLES
  queue,               \* experiment_queue
  queueLock,           \* the mutex around it
  current_experiment,  \* the name shown by GET /status
  nameLock,            \* the mutex around it
  current_run, current_runs,
  pc,                  \* where the runner task is
  job,                 \* the request main_loop works on
  run, variation,      \* its loop variables, the second as an index
  handler,             \* how far each POST /run is
  probe,               \* what each GET /status has read so far
  collected,           \* history: the <<run, variation>> pairs downloaded, in order
  outcome              \* history: how the work on each request ended

shared == <<queue, queueLock, current_experiment, nameLock, current_run, current_runs>>
runner == <<pc, job, run, variation, collected, outcome>>
vars   == <<shared, runner, handler, probe>>

-----------------------------------------------------------------------------
Blank == [pc |-> "new", name |-> NoName, run |-> 0, runs |-> 0]

Init ==
  /\ queue = <<>> /\ queueLock = Unlocked
  /\ current_experiment = NoName /\ nameLock = Unlocked
  /\ current_run = 0 /\ current_runs = 0
  /\ pc = "poll" /\ job = NoRequest /\ run = 0 /\ variation = 0
  /\ handler = [r \in Requests |-> "new"]
  /\ probe = [p \in Probes |-> Blank]
  /\ collected = [r \in Requests |-> <<>>]
  /\ outcome = [r \in Requests |-> "none"]

-----------------------------------------------------------------------------
(* An unwrap or expect fails: ShellCommand::from_parsed_command splits an  *)
(* exporter's command, variation_dir_parts reads the run number back.      *)
Panics(s) ==
  \/ s = "start_exporters" /\ Variations[job][variation] \in Unsplittable
  \/ s = "collect_results" /\ Variations[job][variation] \in SlashNames

-----------------------------------------------------------------------------
(* Faults a change to the code could bring in.  None is part of the        *)
(* specification: each stands in for the definition named after "for", to  *)
(* see that a property notices.                                            *)

(* for Enqueue: push_front                                                 *)
EnqueueInFront(r) ==
  /\ handler[r] = "enqueue" /\ queueLock.owner = r
  /\ queue' = <<r>> \o queue
  /\ queueLock' = Unlock(queueLock)
  /\ handler' = [handler EXCEPT ![r] = "enqueued"]
  /\ UNCHANGED <<current_experiment, nameLock, current_run, current_runs, runner, probe>>

(* for PopFront: front instead of pop_front                                *)
PeekFront ==
  /\ pc = "locked" /\ queueLock.owner = Runner /\ queue # <<>>
  /\ job' = Head(queue) /\ current_runs' = Runs[Head(queue)]
  /\ queueLock' = Unlock(queueLock)
  /\ pc' = "connect_to_hosts"
  /\ UNCHANGED <<queue, current_experiment, nameLock, current_run, run, variation, collected,
                 outcome, handler, probe>>

(* for WakeUp: the guard is taken once, outside the loop                   *)
WakeUpLocked ==
  /\ pc = "sleep" /\ pc' = "locked"
  /\ UNCHANGED <<shared, job, run, variation, collected, outcome, handler, probe>>

(* for StoreRun: only the first run starts from the first variation        *)
StoreRunOnly ==
  /\ pc = "store_run"
  /\ current_run' = run /\ pc' = "lock_name"
  /\ variation' = IF run = 1 THEN 1 ELSE variation
  /\ UNCHANGED <<queue, queueLock, current_experiment, nameLock, current_runs,
                 job, run, collected, outcome, handler, probe>>

(* for SetName: the guard lives on                                         *)
SetNameLocked ==
  /\ pc = "set_name" /\ nameLock.owner = Runner
  /\ current_experiment' = Variations[job][variation]
  /\ pc' = VariationStages[1]
  /\ UNCHANGED <<queue, queueLock, nameLock, current_run, current_runs,
                 job, run, variation, collected, outcome, handler, probe>>

(* for ResetRun: the store is forgotten                                    *)
ResetRunForgotten ==
  /\ pc = "reset_run" /\ pc' = "lock_reset"
  /\ UNCHANGED <<shared, job, run, variation, collected, outcome, handler, probe>>

(* for LockReset: try_lock                                                 *)
TryLockReset ==
  /\ pc = "lock_reset"
  /\ IF nameLock.owner = Nobody
       THEN nameLock' = Lock(nameLock, Runner) /\ pc' = "reset_name"
       ELSE UNCHANGED nameLock /\ pc' = "poll"
  /\ UNCHANGED <<queue, queueLock, current_experiment, current_run, current_runs,
                 job, run, variation, collected, outcome, handler, probe>>

(* for Abort: start returns at the first error                             *)
AbortForGood ==
  /\ pc \in FaultyStages /\ ~Panics(pc)
  /\ outcome' = [outcome EXCEPT ![job] = "aborted"]
  /\ job' = NoRequest /\ pc' = "gone"
  /\ UNCHANGED <<shared, run, variation, collected, handler, probe>>

-----------------------------------------------------------------------------
(* POST /run.                                                              *)

(* Validation and generation do not await, so they and the call of lock()  *)
(* in enqueue are one step.                                                *)
Receive(r) ==
  /\ handler[r] = "new"
  /\ IF r \in Rejected
       THEN handler' = [handler EXCEPT ![r] = "rejected"] /\ UNCHANGED queueLock
       ELSE /\ handler' = [handler EXCEPT ![r] = "enqueue"]
            /\ queueLock' = Lock(queueLock, r)
  /\ UNCHANGED <<queue, current_experiment, nameLock, current_run, current_runs, runner, probe>>

Enqueue(r) ==
  /\ handler[r] = "enqueue" /\ queueLock.owner = r
  /\ queue' = Append(queue, r)
  /\ queueLock' = Unlock(queueLock)
  /\ handler' = [handler EXCEPT ![r] = "enqueued"]
  /\ UNCHANGED <<current_experiment, nameLock, current_run, current_runs, runner, probe>>

Respond(r) ==
  /\ handler[r] = "enqueued"
  /\ handler' = [handler EXCEPT ![r] = "acknowledged"]
  /\ UNCHANGED <<shared, runner, probe>>

(* The client goes away: the server drops the handler's future wherever it *)
(* awaits, or cannot deliver the response.                                 *)
Disconnect(r) ==
  /\ \/ /\ handler[r] = "enqueue"
        /\ queueLock' = Abandon(queueLock, r)
        /\ handler' = [handler EXCEPT ![r] = "dropped"]
     \/ /\ handler[r] = "enqueued"
        /\ handler' = [handler EXCEPT ![r] = "unacknowledged"]
        /\ UNCHANGED queueLock
  /\ UNCHANGED <<queue, current_experiment, nameLock, current_run, current_runs, runner, probe>>

-----------------------------------------------------------------------------
(* GET /status.                                                            *)

AskStatus(p) ==
  /\ probe[p].pc = "new"
  /\ nameLock' = Lock(nameLock, p)
  /\ probe' = [probe EXCEPT ![p].pc = "status"]
  /\ UNCHANGED <<queue, queueLock, current_experiment, current_run, current_runs, runner, handler>>

(* The two loads are relaxed, so they may happen in either order; the lock *)
(* is held until the text is built, but the runner stores without it.      *)
LoadRun(p) ==
  /\ nameLock.owner = p
  /\ \/ probe[p].pc = "status"    /\ probe' = [probe EXCEPT ![p].pc = "run loaded", ![p].run = current_run]
     \/ probe[p].pc = "runs loaded" /\ probe' = [probe EXCEPT ![p].pc = "both loaded", ![p].run = current_run]
  /\ UNCHANGED <<shared, runner, handler>>

LoadRuns(p) ==
  /\ nameLock.owner = p
  /\ \/ probe[p].pc = "status"     /\ probe' = [probe EXCEPT ![p].pc = "runs loaded", ![p].runs = current_runs]
     \/ probe[p].pc = "run loaded" /\ probe' = [probe EXCEPT ![p].pc = "both loaded", ![p].runs = current_runs]
  /\ UNCHANGED <<shared, runner, handler>>

Report(p) ==
  /\ probe[p].pc = "both loaded"
  /\ probe' = [probe EXCEPT ![p].pc = "answered", ![p].name = current_experiment]
  /\ nameLock' = Unlock(nameLock)
  /\ UNCHANGED <<queue, queueLock, current_experiment, current_run, current_runs, runner, handler>>

-----------------------------------------------------------------------------
(* The runner task: wait_for_experiments.                                  *)

Poll ==
  /\ pc = "poll"
  /\ queueLock' = Lock(queueLock, Runner)
  /\ pc' = "locked"
  /\ UNCHANGED <<queue, current_experiment, nameLock, current_run, current_runs,
                 job, run, variation, collected, outcome, handler, probe>>

(* The guard is dropped by the return, after current_runs is stored.       *)
PopFront ==
  /\ pc = "locked" /\ queueLock.owner = Runner /\ queue # <<>>
  /\ job' = Head(queue) /\ queue' = Tail(queue)
  /\ current_runs' = Runs[Head(queue)]
  /\ queueLock' = Unlock(queueLock)
  /\ pc' = "connect_to_hosts"
  /\ UNCHANGED <<current_experiment, nameLock, current_run, run, variation, collected,
                 outcome, handler, probe>>

(* An empty queue is slept on with the guard still alive: it is dropped at *)
(* the end of the loop body, after the sleep.                              *)
SleepOnEmpty ==
  /\ pc = "locked" /\ queueLock.owner = Runner /\ queue = <<>>
  /\ pc' = "sleep"
  /\ UNCHANGED <<shared, job, run, variation, collected, outcome, handler, probe>>

WakeUp ==
  /\ pc = "sleep"
  /\ queueLock' = Unlock(queueLock)
  /\ pc' = "poll"
  /\ UNCHANGED <<queue, current_experiment, nameLock, current_run, current_runs,
                 job, run, variation, collected, outcome, handler, probe>>

-----------------------------------------------------------------------------
(* The runner task: main_loop.                                             *)

Prepare ==
  /\ \E i \in DOMAIN PrepareStages :
       /\ pc = PrepareStages[i]
       /\ IF i < Len(PrepareStages)
            THEN pc' = PrepareStages[i + 1] /\ UNCHANGED run
            ELSE pc' = "store_run" /\ run' = 1
  /\ UNCHANGED <<shared, job, variation, collected, outcome, handler, probe>>

StoreRun ==
  /\ pc = "store_run"
  /\ current_run' = run
  /\ variation' = 1
  /\ pc' = "lock_name"
  /\ UNCHANGED <<queue, queueLock, current_experiment, nameLock, current_runs,
                 job, run, collected, outcome, handler, probe>>

(* update_current_experiment                                               *)
LockName ==
  /\ pc = "lock_name"
  /\ nameLock' = Lock(nameLock, Runner)
  /\ pc' = "set_name"
  /\ UNCHANGED <<queue, queueLock, current_experiment, current_run, current_runs,
                 job, run, variation, collected, outcome, handler, probe>>

SetName ==
  /\ pc = "set_name" /\ nameLock.owner = Runner
  /\ current_experiment' = Variations[job][variation]
  /\ nameLock' = Unlock(nameLock)
  /\ pc' = VariationStages[1]
  /\ UNCHANGED <<queue, queueLock, current_run, current_runs,
                 job, run, variation, collected, outcome, handler, probe>>

Perform ==
  /\ ~Panics(pc)
  /\ \E i \in 1 .. Len(VariationStages) - 1 :
       pc = VariationStages[i] /\ pc' = VariationStages[i + 1]
  /\ UNCHANGED <<shared, job, run, variation, collected, outcome, handler, probe>>

(* The last stage, and the step to the next iteration of the two loops.    *)
CollectResults ==
  /\ pc = "collect_results" /\ ~Panics(pc)
  /\ collected' = [collected EXCEPT ![job] = Append(@, <<run, variation>>)]
  /\ \/ /\ variation < Len(Variations[job])
        /\ variation' = variation + 1 /\ pc' = "lock_name" /\ UNCHANGED run
     \/ /\ variation = Len(Variations[job]) /\ run < Runs[job]
        /\ run' = run + 1 /\ pc' = "store_run" /\ UNCHANGED variation
     \/ /\ variation = Len(Variations[job]) /\ run = Runs[job]
        /\ pc' = "reset_runs" /\ UNCHANGED <<run, variation>>
  /\ UNCHANGED <<shared, job, outcome, handler, probe>>

(* reset_metadata: two stores without the lock, then the name under it.    *)
ResetRuns ==
  /\ pc = "reset_runs"
  /\ current_runs' = 0 /\ pc' = "reset_run"
  /\ UNCHANGED <<queue, queueLock, current_experiment, nameLock, current_run,
                 job, run, variation, collected, outcome, handler, probe>>

ResetRun ==
  /\ pc = "reset_run"
  /\ current_run' = 0 /\ pc' = "lock_reset"
  /\ UNCHANGED <<queue, queueLock, current_experiment, nameLock, current_runs,
                 job, run, variation, collected, outcome, handler, probe>>

LockReset ==
  /\ pc = "lock_reset"
  /\ nameLock' = Lock(nameLock, Runner) /\ pc' = "reset_name"
  /\ UNCHANGED <<queue, queueLock, current_experiment, current_run, current_runs,
                 job, run, variation, collected, outcome, handler, probe>>

ResetName ==
  /\ pc = "reset_name" /\ nameLock.owner = Runner
  /\ current_experiment' = NoName
  /\ nameLock' = Unlock(nameLock)
  /\ outcome' = [outcome EXCEPT ![job] = "finished"]
  /\ job' = NoRequest /\ pc' = "poll"
  /\ UNCHANGED <<queue, queueLock, current_run, current_runs, run, variation,
                 collected, handler, probe>>

(* A stage returns an error: `?` leaves main_loop, start logs it and calls *)
(* main_loop again.  Nothing is reset.                                     *)
Abort ==
  /\ pc \in FaultyStages /\ ~Panics(pc)
  /\ outcome' = [outcome EXCEPT ![job] = "aborted"]
  /\ job' = NoRequest /\ pc' = "poll"
  /\ UNCHANGED <<shared, run, variation, collected, handler, probe>>

(* A panic ends the runner task; the server goes on.                       *)
Panic ==
  /\ pc \in Stages /\ Panics(pc)
  /\ outcome' = [outcome EXCEPT ![job] = "aborted"]
  /\ job' = NoRequest /\ pc' = "dead"
  /\ UNCHANGED <<shared, run, variation, collected, handler, probe>>

-----------------------------------------------------------------------------
RunnerStep ==
  \/ Poll \/ PopFront \/ SleepOnEmpty \/ WakeUp
  \/ Prepare \/ StoreRun \/ LockName \/ SetName \/ Perform \/ CollectResults
  \/ ResetRuns \/ ResetRun \/ LockReset \/ ResetName
  \/ Abort \/ Panic

HandlerStep(r) == Receive(r) \/ Enqueue(r) \/ Respond(r) \/ Disconnect(r)

StatusStep(p) == AskStatus(p) \/ LoadRun(p) \/ LoadRuns(p) \/ Report(p)

Next ==
  \/ RunnerStep
  \/ \E r \in Requests : HandlerStep(r)
  \/ \E p \in Probes : StatusStep(p)

(* tokio polls every task that can go on, and every remote command is      *)
(* taken to end.  Nobody has to send a request.                            *)
Fairness ==
  /\ WF_vars(RunnerStep)
  /\ \A r \in Requests : WF_vars(Enqueue(r) \/ Respond(r))
  /\ \A p \in Probes : WF_vars(LoadRun(p) \/ LoadRuns(p) \/ Report(p))

Spec == Init /\ [][Next]_vars /\ Fairness

-----------------------------------------------------------------------------
(* Properties.                                                             *)

Served == {r \in Requests : outcome[r] # "none"}

InQueue(r) == \E i \in DOMAIN queue : queue[i] = r

WaitsOnce(r) ==
  \E i \in DOMAIN queue : queue[i] = r /\ \A j \in DOMAIN queue : queue[j] = r => j = i

(* Every state variable keeps its type: the mutexes stay well formed, the  *)
(* counters stay within a u16, and main_loop works on a request exactly    *)
(* while it is past wait_for_experiments (controller/src/run.rs:198-214).  *)
TypeOK ==
  /\ queue \in Seq(Requests)
  /\ queueLock \in Mutexes(Requests \cup {Runner})
  /\ current_experiment \in Names \cup {NoName}
  /\ nameLock \in Mutexes(Probes \cup {Runner})
  /\ current_run \in 0 .. MaxRuns /\ current_runs \in 0 .. MaxRuns
  /\ pc \in RunnerPCs
  /\ job \in Requests \cup {NoRequest}
  /\ job = NoRequest <=> pc \in {"poll", "locked", "sleep", "dead"}
  /\ run \in 0 .. MaxRuns /\ variation \in Nat
  /\ handler \in [Requests -> HandlerStates]
  /\ probe \in [Probes -> [pc : ProbeStates, name : Names \cup {NoName},
                           run : 0 .. MaxRuns, runs : 0 .. MaxRuns]]
  /\ collected \in [Requests -> Seq(Nat \X Nat)]
  /\ outcome \in [Requests -> {"none", "finished", "aborted"}]

(* A request that reached the queue is in exactly one place: waiting once, *)
(* being worked on, or done with.  One that was refused or whose client    *)
(* left before the push is in none.  No interleaving of handlers, client   *)
(* disconnects, polls, errors and panics loses or doubles a request        *)
(* (enqueue and wait_for_experiments, controller/src/run.rs:296-312).      *)
InExactlyOnePlace ==
  \A r \in Requests :
    IF handler[r] \in {"enqueued", "acknowledged", "unacknowledged"}
      THEN \/ WaitsOnce(r) /\ job # r /\ r \notin Served
           \/ ~InQueue(r) /\ job = r /\ r \notin Served
           \/ ~InQueue(r) /\ job # r /\ r \in Served
      ELSE ~InQueue(r) /\ job # r /\ r \notin Served

(* Results are collected breadth first: every variation of a run before    *)
(* the next run, nothing skipped, nothing twice, and a request counts as   *)
(* finished only when all of them are there, whatever stage of whatever    *)
(* request fails (main_loop, controller/src/run.rs:407-529).               *)
CollectedBreadthFirst ==
  \A r \in Requests :
    LET n == Len(Variations[r])
    IN /\ \A i \in DOMAIN collected[r] :
            collected[r][i] = <<1 + ((i - 1) \div n), 1 + ((i - 1) % n)>>
       /\ Len(collected[r]) <= n * Runs[r]
       /\ outcome[r] = "finished" => Len(collected[r]) = n * Runs[r]
       /\ outcome[r] = "aborted" => Len(collected[r]) < n * Runs[r]

(* As long as no request has failed, a status answer never mixes two       *)
(* requests, although the runner stores current_run and current_runs       *)
(* without the lock the status handler holds: a name shown is one of the   *)
(* request being run, with its own number of repeats or 0, and its run is  *)
(* within them; with no name shown at most the first run of the next       *)
(* request can be visible (status, controller/src/routes.rs:62-69;         *)
(* reset_metadata, run.rs:314).                                            *)
StatusIsOfOneRequest ==
  [][\A p \in Probes :
       /\ \A r \in Requests : outcome[r] # "aborted"
       /\ probe[p].pc = "both loaded" /\ probe'[p].pc = "answered"
       => LET a == probe'[p]
          IN /\ a.name # NoName =>
                  /\ job # NoRequest /\ a.name \in {Variations[job][i] : i \in DOMAIN Variations[job]}
                  /\ a.run \in 0 .. Runs[job]
             /\ a.name = NoName => a.run \in {0, 1}
             /\ a.runs # 0 => job # NoRequest /\ a.runs = Runs[job]
             /\ a.run # 0 => job # NoRequest]_vars

(* The controller implements the service its users see: requests are run   *)
(* one at a time, in the order of their push, whatever fails (enqueue,     *)
(* wait_for_experiments, start; controller/src/run.rs:296-353).            *)
Service == INSTANCE ExperimentService WITH
             pending <- queue, active <- job, served <- Served

ImplementsService == Service!SafeSpec

(* A POST /run handler that waits for the queue gets it, although an idle  *)
(* runner holds the mutex all through its sleep and asks for it again at   *)
(* once (wait_for_experiments, controller/src/run.rs:300-312).             *)
EnqueueCompletes ==
  \A r \in Requests : handler[r] = "enqueue" ~> handler[r] # "enqueue"

(* GET /status is always answered: the runner never keeps the name locked  *)
(* across a stage (controller/src/run.rs:320-333).                         *)
StatusIsAnswered ==
  \A p \in Probes : probe[p].pc = "status" ~> probe[p].pc = "answered"

(* "When an experiment is running, this contains the name of the           *)
(* experiment" (controller/src/run.rs:199), and GET /status "shows if it   *)
(* is still running an experiment" (routes.rs:27).  A runner that waits    *)
(* for work may show a name after all, but only one of a request that      *)
(* failed: `?` leaves main_loop past reset_metadata (run.rs:348, 529).     *)
IdleShowsOnlyFailures ==
  pc \in {"poll", "locked", "sleep"} /\ current_experiment # NoName =>
    \E r \in Requests :
      /\ outcome[r] = "aborted"
      /\ \E i \in DOMAIN Variations[r] : current_experiment = Variations[r][i]

(* An error in one request never keeps the runner from the next one: what  *)
(* is queued is taken in the end, unless a panic killed the runner task    *)
(* (start, controller/src/run.rs:346-353).                                 *)
ErrorsAreSurvived ==
  \A r \in Requests : InQueue(r) ~> (job = r \/ pc = "dead")

(* "After this function has been run, the ExperimentRunner will begin to   *)
(* consume from it's internal queue until there is nothing left to         *)
(* consume" (controller/src/run.rs:342-343): what is queued is taken.      *)
QueueIsConsumed ==
  \A r \in Requests : InQueue(r) ~> job = r

=============================================================================
