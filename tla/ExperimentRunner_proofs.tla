----------------------- MODULE ExperimentRunner_proofs -----------------------
(***************************************************************************)
(* Theorems about ExperimentRunner, for any requests, probes, repeats,     *)
(* variations and faults: the variables keep their types, no request is    *)
(* lost or doubled, the runner implements ExperimentService, no task is    *)
(* overtaken at a mutex and none waits there for a task that cannot go on. *)
(*                                                                         *)
(* The inductive invariant ties the owner and the line of each mutex to    *)
(* the program counters of the tasks that may ask for it, and the loop     *)
(* variables of main_loop to the request it works on.                      *)
(***************************************************************************)
EXTENDS ExperimentRunner, TokioMutex_proofs

QueueTasks == Requests \cup {Runner}
NameTasks  == Probes \cup {Runner}
Reading    == {"status", "run loaded", "runs loaded", "both loaded"}

QueueLockInv ==
  /\ WellFormed(queueLock, QueueTasks)
  /\ \A r \in Requests : Asks(queueLock, r) <=> handler[r] = "enqueue"
  /\ Asks(queueLock, Runner) <=> pc \in {"locked", "sleep"}
  /\ pc = "sleep" => queueLock.owner = Runner

NameLockInv ==
  /\ WellFormed(nameLock, NameTasks)
  /\ \A p \in Probes : Asks(nameLock, p) <=> probe[p].pc \in Reading
  /\ Asks(nameLock, Runner) <=> pc \in {"set_name", "reset_name"}
  /\ \A p \in Probes : probe[p].pc \in Reading \ {"status"} => nameLock.owner = p

OfVariation == {VariationStages[i] : i \in DOMAIN VariationStages} \cup {"lock_name", "set_name"}

Working ==
  /\ pc \in OfVariation \cup {"store_run"} => run \in 1 .. Runs[job]
  /\ pc \in OfVariation => variation \in 1 .. Len(Variations[job])

IInv == TypeOK /\ QueueLockInv /\ NameLockInv /\ Working

-----------------------------------------------------------------------------
(* Constants and program counters.                                         *)

(* The runner is no request and no probe, and nobody is nobody.            *)
LEMMA TaskNames ==
  /\ Runner \notin Requests /\ Runner \notin Probes
  /\ Nobody \notin QueueTasks /\ Nobody \notin NameTasks
  /\ NoRequest \notin Requests /\ NoName \notin Names
BY RunnerAssumption DEF RunnerAssumption, QueueTasks, NameTasks

(* What the proofs need to know of the width of runs, and no more.         *)
LEMMA CounterType == MaxRuns \in Nat /\ MaxRuns >= 1
BY DEF MaxRuns

(* A request is run at least once and has at least one variation.          *)
LEMMA RequestType ==
  ASSUME NEW r \in Requests
  PROVE  /\ Runs[r] \in 1 .. MaxRuns /\ Runs[r] \in Nat
         /\ Variations[r] \in Seq(Names) /\ Len(Variations[r]) \in Nat \ {0}
         /\ \A i \in 1 .. Len(Variations[r]) : Variations[r][i] \in Names
<1>1. Runs[r] \in 1 .. MaxRuns
  BY RunnerAssumption DEF RunnerAssumption
<1>2. Variations[r] \in Seq(Names) \ {<<>>}
  BY RunnerAssumption DEF RunnerAssumption
<1>3. Runs[r] \in Nat
  BY <1>1, CounterType
<1>4. Len(Variations[r]) \in Nat \ {0} /\ DOMAIN Variations[r] = 1 .. Len(Variations[r])
  BY <1>2
<1>5. \A i \in 1 .. Len(Variations[r]) : Variations[r][i] \in Names
  BY <1>2, <1>4
<1>6. Variations[r] \in Seq(Names)
  BY <1>2
<1> QED BY <1>1, <1>3, <1>4, <1>5, <1>6

(* The stages before the first run, one by one.                            *)
LEMMA PrepareNames ==
  /\ DOMAIN PrepareStages = 1 .. 4 /\ Len(PrepareStages) = 4
  /\ PrepareStages[1] = "connect_to_hosts" /\ PrepareStages[2] = "make_directories"
  /\ PrepareStages[3] = "upload" /\ PrepareStages[4] = "correct_dependencies"
BY DEF PrepareStages

(* The stages of a variation, one by one.                                  *)
LEMMA VariationNames ==
  /\ DOMAIN VariationStages = 1 .. 10 /\ Len(VariationStages) = 10
  /\ VariationStages[1] = "make_directory" /\ VariationStages[2] = "symlink_dependencies"
  /\ VariationStages[3] = "start_exporters" /\ VariationStages[4] = "settle"
  /\ VariationStages[5] = "setups" /\ VariationStages[6] = "execute"
  /\ VariationStages[7] = "teardowns" /\ VariationStages[8] = "stop_exporters"
  /\ VariationStages[9] = "unlink_dependencies" /\ VariationStages[10] = "collect_results"
BY DEF VariationStages

(* Where the runner is while it works on a variation.                      *)
LEMMA OfVariationNames ==
  OfVariation = {"make_directory", "symlink_dependencies", "start_exporters", "settle",
                 "setups", "execute", "teardowns", "stop_exporters", "unlink_dependencies",
                 "collect_results", "lock_name", "set_name"}
<1>1. {VariationStages[i] : i \in 1 .. 10} =
        {"make_directory", "symlink_dependencies", "start_exporters", "settle",
         "setups", "execute", "teardowns", "stop_exporters", "unlink_dependencies",
         "collect_results"}
  <2>1. 1 .. 10 = {1, 2, 3, 4, 5, 6, 7, 8, 9, 10}
    OBVIOUS
  <2> QED BY <2>1, VariationNames
<1> QED BY <1>1, VariationNames DEF OfVariation

(* Every stage of main_loop.                                               *)
LEMMA StageNames ==
  Stages = {"connect_to_hosts", "make_directories", "upload", "correct_dependencies",
            "make_directory", "symlink_dependencies", "start_exporters", "settle",
            "setups", "execute", "teardowns", "stop_exporters", "unlink_dependencies",
            "collect_results"}
<1>1. {PrepareStages[i] : i \in DOMAIN PrepareStages} =
        {"connect_to_hosts", "make_directories", "upload", "correct_dependencies"}
  <2>1. 1 .. 4 = {1, 2, 3, 4}
    OBVIOUS
  <2> QED BY <2>1, PrepareNames
<1>2. {VariationStages[i] : i \in DOMAIN VariationStages} =
        {"make_directory", "symlink_dependencies", "start_exporters", "settle",
         "setups", "execute", "teardowns", "stop_exporters", "unlink_dependencies",
         "collect_results"}
  <2>1. 1 .. 10 = {1, 2, 3, 4, 5, 6, 7, 8, 9, 10}
    OBVIOUS
  <2> QED BY <2>1, VariationNames
<1> QED BY <1>1, <1>2 DEF Stages

(* Both ends of a step of Perform are stages of a variation.               *)
LEMMA NextStageNames ==
  ASSUME NEW i \in 1 .. 9
  PROVE  /\ VariationStages[i] \in OfVariation \ {"lock_name", "set_name"}
         /\ VariationStages[i + 1] \in OfVariation \ {"lock_name", "set_name"}
<1>1. i \in {1, 2, 3, 4, 5, 6, 7, 8, 9}
  OBVIOUS
<1> QED BY <1>1, VariationNames, OfVariationNames

-----------------------------------------------------------------------------
(* The inductive invariant holds at first.                                 *)
LEMMA InitInv == Init => IInv
<1> SUFFICES ASSUME Init PROVE IInv
  OBVIOUS
<1>1. TypeOK
  <2>1. queueLock \in Mutexes(Requests \cup {Runner}) /\ nameLock \in Mutexes(Probes \cup {Runner})
    BY UnlockedIsWellFormed DEF Init, WellFormed
  <2>2. probe \in [Probes -> [pc : ProbeStates, name : Names \cup {NoName},
                              run : 0 .. MaxRuns, runs : 0 .. MaxRuns]]
    BY CounterType DEF Init, Blank, ProbeStates
  <2>3. /\ handler \in [Requests -> HandlerStates]
        /\ collected \in [Requests -> Seq(Nat \X Nat)]
        /\ outcome \in [Requests -> {"none", "finished", "aborted"}]
    BY DEF Init, HandlerStates
  <2>4. queue \in Seq(Requests) /\ pc \in RunnerPCs
    BY DEF Init, RunnerPCs
  <2>5. /\ current_run \in 0 .. MaxRuns /\ current_runs \in 0 .. MaxRuns
        /\ run \in 0 .. MaxRuns /\ variation \in Nat
    BY CounterType DEF Init
  <2>6. /\ current_experiment \in Names \cup {NoName} /\ job \in Requests \cup {NoRequest}
        /\ job = NoRequest <=> pc \in {"poll", "locked", "sleep", "dead"}
    BY DEF Init
  <2> QED BY <2>1, <2>2, <2>3, <2>4, <2>5, <2>6 DEF TypeOK
<1>2. QueueLockInv
  BY UnlockedIsWellFormed, TaskNames DEF Init, QueueLockInv, QueueTasks
<1>3. NameLockInv
  BY UnlockedIsWellFormed, TaskNames DEF Init, NameLockInv, NameTasks, Blank, Reading
<1>4. Working
  BY OfVariationNames DEF Init, Working
<1> QED BY <1>1, <1>2, <1>3, <1>4 DEF IInv

-----------------------------------------------------------------------------
(* POST /run.                                                              *)

(* Every step of a POST /run handler keeps the invariant.                  *)
LEMMA HandlerStepInv ==
  ASSUME IInv, NEW r \in Requests, HandlerStep(r)
  PROVE  IInv'
<1>1. UNCHANGED <<current_experiment, nameLock, current_run, current_runs, runner, probe>>
  BY DEF HandlerStep, Receive, Enqueue, Respond, Disconnect, shared
<1>2. NameLockInv' /\ Working'
  BY <1>1 DEF IInv, NameLockInv, Working, runner
<1>3. r \in QueueTasks /\ Nobody \notin QueueTasks /\ r # Runner
  BY TaskNames DEF QueueTasks
<1>4. WellFormed(queueLock, QueueTasks) /\ \A t \in QueueTasks : Asks(queueLock, t) <=>
        (t \in Requests /\ handler[t] = "enqueue") \/ (t = Runner /\ pc \in {"locked", "sleep"})
  BY TaskNames DEF IInv, QueueLockInv, QueueTasks
<1>5. handler' \in [Requests -> HandlerStates] /\ queue' \in Seq(Requests)
  <2>1. queue' = queue \/ queue' = Append(queue, r)
    BY DEF HandlerStep, Receive, Enqueue, Respond, Disconnect, shared
  <2>2. \E h \in HandlerStates : handler' = [handler EXCEPT ![r] = h]
    BY DEF HandlerStep, Receive, Enqueue, Respond, Disconnect, HandlerStates
  <2>3. queue' \in Seq(Requests)
    <3>1. queue \in Seq(Requests)
      BY DEF IInv, TypeOK
    <3> QED BY <2>1, <3>1
  <2>4. handler' \in [Requests -> HandlerStates]
    <3>1. PICK h \in HandlerStates : handler' = [handler EXCEPT ![r] = h]
      BY <2>2
    <3>2. handler \in [Requests -> HandlerStates]
      BY DEF IInv, TypeOK
    <3> QED BY <3>1, <3>2
  <2> QED BY <2>3, <2>4
<1>6. SUFFICES QueueLockInv'
  <2>1. QueueLockInv' => queueLock' \in Mutexes(Requests \cup {Runner})
    BY DEF QueueLockInv, WellFormed, QueueTasks
  <2>2. QueueLockInv' => TypeOK'
    BY <1>1, <1>5, <2>1 DEF IInv, TypeOK, runner
  <2> QED BY <1>2, <2>2 DEF IInv
<1>7. CASE Receive(r)
  <2>1. CASE r \in Rejected
    BY <1>1, <1>7, <2>1 DEF Receive, IInv, TypeOK, QueueLockInv, runner
  <2>2. CASE r \notin Rejected
    <3>1. /\ handler[r] = "new" /\ handler' = [handler EXCEPT ![r] = "enqueue"]
          /\ queueLock' = Lock(queueLock, r)
      BY <1>7, <2>2 DEF Receive
    <3>2. ~Asks(queueLock, r)
      BY <1>3, <1>4, <3>1
    <3>3. /\ WellFormed(queueLock', QueueTasks)
          /\ \A u \in QueueTasks : Asks(queueLock', u) <=> Asks(queueLock, u) \/ u = r
          /\ \A u \in QueueTasks : queueLock.owner = u => queueLock'.owner = u
      BY <1>3, <1>4, <3>1, <3>2, LockAsks
    <3> QED BY <1>1, <1>3, <3>1, <3>3 DEF IInv, TypeOK, QueueLockInv, QueueTasks, runner
  <2> QED BY <2>1, <2>2
<1>8. CASE Enqueue(r)
  <2>1. /\ handler[r] = "enqueue" /\ handler' = [handler EXCEPT ![r] = "enqueued"]
        /\ queueLock.owner = r /\ queueLock' = Unlock(queueLock)
    BY <1>8 DEF Enqueue
  <2>2. /\ WellFormed(queueLock', QueueTasks)
        /\ \A u \in QueueTasks : Asks(queueLock', u) <=> Asks(queueLock, u) /\ u # r
    BY <1>3, <1>4, <2>1, UnlockAsks
  <2>3. pc # "sleep"
    BY <1>3, <2>1 DEF IInv, QueueLockInv
  <2> QED BY <1>1, <1>3, <2>1, <2>2, <2>3 DEF IInv, TypeOK, QueueLockInv, QueueTasks, runner
<1>9. CASE Respond(r)
  BY <1>1, <1>9 DEF Respond, IInv, TypeOK, QueueLockInv, runner, shared
<1>10. CASE Disconnect(r)
  <2>1. CASE handler[r] = "enqueue"
    <3>1. /\ handler' = [handler EXCEPT ![r] = "dropped"]
          /\ queueLock' = Abandon(queueLock, r)
      BY <1>10, <2>1 DEF Disconnect
    <3>2. Asks(queueLock, r)
      BY <1>3, <1>4, <2>1
    <3>3. /\ WellFormed(queueLock', QueueTasks)
          /\ \A u \in QueueTasks : Asks(queueLock', u) <=> Asks(queueLock, u) /\ u # r
          /\ queueLock.owner # r => queueLock'.owner = queueLock.owner
      BY <1>3, <1>4, <3>1, <3>2, AbandonAsks
    <3> QED BY <1>1, <1>3, <2>1, <3>1, <3>3 DEF IInv, TypeOK, QueueLockInv, QueueTasks, runner
  <2>2. CASE handler[r] # "enqueue"
    BY <1>1, <1>10, <2>2 DEF Disconnect, IInv, TypeOK, QueueLockInv, runner
  <2> QED BY <2>1, <2>2
<1> QED BY <1>7, <1>8, <1>9, <1>10 DEF HandlerStep

-----------------------------------------------------------------------------
(* GET /status.                                                            *)

(* Every step of a status handler keeps the invariant.                     *)
LEMMA StatusStepInv ==
  ASSUME IInv, NEW p \in Probes, StatusStep(p)
  PROVE  IInv'
<1>1. UNCHANGED <<queue, queueLock, current_experiment, current_run, current_runs, runner, handler>>
  BY DEF StatusStep, AskStatus, LoadRun, LoadRuns, Report, shared
<1>2. QueueLockInv' /\ Working'
  BY <1>1 DEF IInv, QueueLockInv, Working, runner
<1>3. p \in NameTasks /\ Nobody \notin NameTasks /\ p # Runner
  BY TaskNames DEF NameTasks
<1>4. WellFormed(nameLock, NameTasks) /\ \A t \in NameTasks : Asks(nameLock, t) <=>
        (t \in Probes /\ probe[t].pc \in Reading) \/ (t = Runner /\ pc \in {"set_name", "reset_name"})
  BY TaskNames DEF IInv, NameLockInv, NameTasks
<1>5. probe' \in [Probes -> [pc : ProbeStates, name : Names \cup {NoName},
                             run : 0 .. MaxRuns, runs : 0 .. MaxRuns]]
  <2> DEFINE P == [pc : ProbeStates, name : Names \cup {NoName},
                   run : 0 .. MaxRuns, runs : 0 .. MaxRuns]
  <2>1. probe \in [Probes -> P] /\ probe[p] \in P
    BY DEF IInv, TypeOK
  <2>2. /\ current_experiment \in Names \cup {NoName}
        /\ current_run \in 0 .. MaxRuns /\ current_runs \in 0 .. MaxRuns
    BY DEF IInv, TypeOK
  <2>3. /\ probe' \in [Probes -> {probe'[q] : q \in Probes}]
        /\ \A q \in Probes : q # p => probe'[q] = probe[q]
    BY DEF StatusStep, AskStatus, LoadRun, LoadRuns, Report, IInv, TypeOK
  <2>4. probe'[p] \in P
    <3>1. CASE AskStatus(p)
      BY <2>1, <3>1 DEF AskStatus, ProbeStates
    <3>2. CASE LoadRun(p)
      <4>1. PICK s \in ProbeStates :
              probe' = [probe EXCEPT ![p].pc = s, ![p].run = current_run]
        BY <3>2 DEF LoadRun, ProbeStates
      <4>2. probe'[p] = [probe[p] EXCEPT !.pc = s, !.run = current_run]
        BY <2>1, <4>1
      <4> QED BY <2>1, <2>2, <4>2
    <3>3. CASE LoadRuns(p)
      <4>1. PICK s \in ProbeStates :
              probe' = [probe EXCEPT ![p].pc = s, ![p].runs = current_runs]
        BY <3>3 DEF LoadRuns, ProbeStates
      <4>2. probe'[p] = [probe[p] EXCEPT !.pc = s, !.runs = current_runs]
        BY <2>1, <4>1
      <4> QED BY <2>1, <2>2, <4>2
    <3>4. CASE Report(p)
      BY <2>1, <2>2, <3>4 DEF Report, ProbeStates
    <3> QED BY <3>1, <3>2, <3>3, <3>4 DEF StatusStep
  <2> HIDE DEF P
  <2>5. probe' \in [Probes -> P]
    BY <2>1, <2>3, <2>4
  <2> QED BY <2>5 DEF P
<1>6. SUFFICES NameLockInv'
  <2>1. NameLockInv' => nameLock' \in Mutexes(Probes \cup {Runner})
    BY DEF NameLockInv, WellFormed, NameTasks
  <2>2. NameLockInv' => TypeOK'
    BY <1>1, <1>5, <2>1 DEF IInv, TypeOK, runner
  <2> QED BY <1>2, <2>2 DEF IInv
<1>7. \A q \in Probes : q # p => probe'[q] = probe[q]
  BY DEF StatusStep, AskStatus, LoadRun, LoadRuns, Report, IInv, TypeOK
<1>8. CASE AskStatus(p)
  <2>1. /\ probe[p].pc = "new" /\ probe'[p].pc = "status"
        /\ nameLock' = Lock(nameLock, p)
    BY <1>8 DEF AskStatus, IInv, TypeOK
  <2>2. ~Asks(nameLock, p)
    BY <1>3, <1>4, <2>1 DEF Reading
  <2>3. /\ WellFormed(nameLock', NameTasks)
        /\ \A u \in NameTasks : Asks(nameLock', u) <=> Asks(nameLock, u) \/ u = p
        /\ \A u \in NameTasks : nameLock.owner = u => nameLock'.owner = u
    BY <1>3, <1>4, <2>1, <2>2, LockAsks
  <2> QED BY <1>1, <1>3, <1>7, <2>1, <2>3 DEF IInv, NameLockInv, NameTasks, Reading, runner
<1>9. CASE LoadRun(p) \/ LoadRuns(p)
  <2>1. /\ nameLock.owner = p /\ UNCHANGED nameLock
        /\ probe[p].pc \in Reading /\ probe'[p].pc \in Reading
    <3>1. nameLock.owner = p /\ UNCHANGED nameLock
      BY <1>9 DEF LoadRun, LoadRuns, shared
    <3>2. probe[p].pc \in Reading
      BY <1>9 DEF LoadRun, LoadRuns, Reading
    <3>3. probe \in [Probes -> [pc : ProbeStates, name : Names \cup {NoName},
                               run : 0 .. MaxRuns, runs : 0 .. MaxRuns]]
      BY DEF IInv, TypeOK
    <3>4. CASE LoadRun(p)
      BY <3>1, <3>2, <3>3, <3>4 DEF LoadRun, Reading
    <3>5. CASE LoadRuns(p)
      BY <3>1, <3>2, <3>3, <3>5 DEF LoadRuns, Reading
    <3> QED BY <1>9, <3>4, <3>5
  <2> QED BY <1>1, <1>7, <2>1 DEF IInv, NameLockInv, runner
<1>10. CASE Report(p)
  <2>1. /\ probe[p].pc = "both loaded" /\ probe'[p].pc = "answered"
        /\ nameLock' = Unlock(nameLock)
    BY <1>10 DEF Report, IInv, TypeOK
  <2>2. nameLock.owner = p
    BY <2>1 DEF IInv, NameLockInv, Reading
  <2>3. /\ WellFormed(nameLock', NameTasks)
        /\ \A u \in NameTasks : Asks(nameLock', u) <=> Asks(nameLock, u) /\ u # p
    BY <1>3, <1>4, <2>1, <2>2, UnlockAsks
  <2>4. \A q \in Probes \ {p} : probe[q].pc \notin Reading \ {"status"}
    BY <2>2 DEF IInv, NameLockInv
  <2> QED BY <1>1, <1>3, <1>7, <2>1, <2>3, <2>4 DEF IInv, NameLockInv, NameTasks, Reading, runner
<1> QED BY <1>8, <1>9, <1>10 DEF StatusStep

-----------------------------------------------------------------------------
(* The runner task.                                                        *)

(* A step of the runner away from the queue's mutex keeps what is known of  *)
(* that mutex.                                                             *)
LEMMA QueueLockKept ==
  ASSUME IInv, UNCHANGED <<queueLock, handler>>,
         pc \notin {"locked", "sleep"}, pc' \notin {"locked", "sleep"}
  PROVE  QueueLockInv'
BY DEF IInv, QueueLockInv

(* The same for the mutex around the name.                                 *)
LEMMA NameLockKept ==
  ASSUME IInv, UNCHANGED <<nameLock, probe>>,
         pc \notin {"set_name", "reset_name"}, pc' \notin {"set_name", "reset_name"}
  PROVE  NameLockInv'
BY DEF IInv, NameLockInv

(* What the lemmas about mutexes ask of the two mutexes.                   *)
LEMMA LocksOf ==
  ASSUME IInv
  PROVE  /\ WellFormed(queueLock, QueueTasks) /\ WellFormed(nameLock, NameTasks)
         /\ Runner \in QueueTasks /\ Runner \in NameTasks
         /\ Nobody \notin QueueTasks /\ Nobody \notin NameTasks
BY TaskNames DEF IInv, QueueLockInv, NameLockInv, QueueTasks, NameTasks

(* wait_for_experiments works on the queue and its mutex only.             *)
LEMMA WaitStepInv ==
  ASSUME IInv, Poll \/ PopFront \/ SleepOnEmpty \/ WakeUp
  PROVE  IInv'
<1>1. /\ UNCHANGED <<current_experiment, nameLock, current_run, run, variation, collected,
                     outcome, handler, probe>>
      /\ pc \in {"poll", "locked", "sleep"}
      /\ pc' \in {"poll", "locked", "sleep", "connect_to_hosts"}
  BY DEF Poll, PopFront, SleepOnEmpty, WakeUp, shared
<1>2. NameLockInv' /\ Working'
  BY <1>1, NameLockKept, OfVariationNames DEF Working
<1>3. CASE Poll
  <2>1. /\ pc = "poll" /\ pc' = "locked" /\ queueLock' = Lock(queueLock, Runner)
        /\ ~Asks(queueLock, Runner)
    BY <1>3 DEF Poll, IInv, QueueLockInv
  <2>2. /\ WellFormed(queueLock', QueueTasks)
        /\ \A u \in QueueTasks : Asks(queueLock', u) <=> Asks(queueLock, u) \/ u = Runner
    BY <2>1, LocksOf, LockAsks
  <2>3. QueueLockInv'
    BY <1>1, <2>1, <2>2, TaskNames DEF IInv, QueueLockInv, QueueTasks
  <2>4. TypeOK'
    BY <1>1, <1>3, <2>2 DEF Poll, IInv, TypeOK, RunnerPCs, WellFormed, QueueTasks
  <2> QED BY <1>2, <2>3, <2>4 DEF IInv
<1>4. CASE PopFront
  <2>1. /\ pc = "locked" /\ pc' = "connect_to_hosts" /\ queueLock' = Unlock(queueLock)
        /\ queueLock.owner = Runner
    BY <1>4 DEF PopFront
  <2>2. /\ WellFormed(queueLock', QueueTasks)
        /\ \A u \in QueueTasks : Asks(queueLock', u) <=> Asks(queueLock, u) /\ u # Runner
    BY <2>1, LocksOf, UnlockAsks
  <2>3. QueueLockInv'
    BY <1>1, <2>1, <2>2, TaskNames DEF IInv, QueueLockInv, QueueTasks
  <2>4. Head(queue) \in Requests /\ Tail(queue) \in Seq(Requests)
    BY <1>4 DEF PopFront, IInv, TypeOK
  <2>5. job' \in Requests /\ queue' \in Seq(Requests) /\ current_runs' \in 0 .. MaxRuns
    BY <1>4, <2>4, RequestType, CounterType DEF PopFront
  <2>6. TypeOK'
    BY <1>1, <2>1, <2>2, <2>5, TaskNames, StageNames DEF IInv, TypeOK, RunnerPCs, WellFormed, QueueTasks
  <2> QED BY <1>2, <2>3, <2>6 DEF IInv
<1>5. CASE SleepOnEmpty
  <2>1. QueueLockInv'
    BY <1>1, <1>5 DEF SleepOnEmpty, IInv, QueueLockInv, shared
  <2>2. TypeOK'
    BY <1>1, <1>5 DEF SleepOnEmpty, IInv, TypeOK, RunnerPCs, shared
  <2> QED BY <1>2, <2>1, <2>2 DEF IInv
<1>6. CASE WakeUp
  <2>1. /\ pc = "sleep" /\ pc' = "poll" /\ queueLock' = Unlock(queueLock)
        /\ queueLock.owner = Runner
    BY <1>6 DEF WakeUp, IInv, QueueLockInv
  <2>2. /\ WellFormed(queueLock', QueueTasks)
        /\ \A u \in QueueTasks : Asks(queueLock', u) <=> Asks(queueLock, u) /\ u # Runner
    BY <2>1, LocksOf, UnlockAsks
  <2>3. QueueLockInv'
    BY <1>1, <2>1, <2>2, TaskNames DEF IInv, QueueLockInv, QueueTasks
  <2>4. TypeOK'
    BY <1>1, <1>6, <2>2 DEF WakeUp, IInv, TypeOK, RunnerPCs, WellFormed, QueueTasks
  <2> QED BY <1>2, <2>3, <2>4 DEF IInv
<1> QED BY <1>3, <1>4, <1>5, <1>6

(* Steps of main_loop that take and give back no mutex.                    *)
LEMMA LoopStepInv ==
  ASSUME IInv,
         Prepare \/ StoreRun \/ Perform \/ CollectResults \/ ResetRuns \/ ResetRun \/ Abort \/ Panic
  PROVE  IInv'
<1>1. UNCHANGED <<queue, queueLock, current_experiment, nameLock, handler, probe>>
  BY DEF Prepare, StoreRun, Perform, CollectResults, ResetRuns, ResetRun, Abort, Panic, shared
<1>2. CASE Prepare
  <2>1. PICK i \in 1 .. 4 :
          /\ pc = PrepareStages[i]
          /\ IF i < 4 THEN pc' = PrepareStages[i + 1] /\ UNCHANGED run
                      ELSE pc' = "store_run" /\ run' = 1
    BY <1>2, PrepareNames DEF Prepare
  <2>2. i \in {1, 2, 3, 4}
    OBVIOUS
  <2>3. /\ pc \in {"connect_to_hosts", "make_directories", "upload", "correct_dependencies"}
        /\ pc' \in {"make_directories", "upload", "correct_dependencies", "store_run"}
        /\ pc' # "store_run" => UNCHANGED run
        /\ pc' = "store_run" => run' = 1
    BY <2>1, <2>2, PrepareNames
  <2>4. UNCHANGED <<current_run, current_runs, job, variation, collected, outcome>>
    BY <1>2 DEF Prepare, shared
  <2>5. job \in Requests
    BY <2>3 DEF IInv, TypeOK
  <2>6. TypeOK'
    BY <1>1, <2>3, <2>4, <2>5, TaskNames, StageNames, CounterType DEF IInv, TypeOK, RunnerPCs
  <2>7. Working'
    BY <2>3, <2>4, <2>5, RequestType, OfVariationNames DEF Working
  <2> QED BY <1>1, <2>3, <2>6, <2>7, QueueLockKept, NameLockKept DEF IInv
<1>3. CASE StoreRun
  <2>1. /\ pc = "store_run" /\ pc' = "lock_name" /\ current_run' = run /\ variation' = 1
        /\ UNCHANGED <<current_runs, job, run, collected, outcome>>
    BY <1>3 DEF StoreRun
  <2>2. job \in Requests /\ run \in 1 .. Runs[job]
    BY <2>1 DEF IInv, TypeOK, Working
  <2>3. TypeOK'
    BY <1>1, <2>1, <2>2, TaskNames DEF IInv, TypeOK, RunnerPCs
  <2>4. Working'
    BY <2>1, <2>2, RequestType, OfVariationNames DEF Working
  <2> QED BY <1>1, <2>1, <2>3, <2>4, QueueLockKept, NameLockKept DEF IInv
<1>4. CASE Perform
  <2>1. PICK i \in 1 .. 9 : pc = VariationStages[i] /\ pc' = VariationStages[i + 1]
    BY <1>4, VariationNames DEF Perform
  <2>2. pc \in OfVariation \ {"lock_name", "set_name"} /\ pc' \in OfVariation \ {"lock_name", "set_name"}
    BY <2>1, NextStageNames
  <2>3. UNCHANGED <<current_run, current_runs, job, run, variation, collected, outcome>>
    BY <1>4 DEF Perform, shared
  <2>4. /\ pc \notin {"poll", "locked", "sleep", "dead", "set_name", "reset_name"}
        /\ pc' \notin {"poll", "locked", "sleep", "dead", "set_name", "reset_name"}
        /\ pc' \in RunnerPCs
    BY <2>2, OfVariationNames, StageNames DEF RunnerPCs
  <2>5. TypeOK'
    BY <1>1, <2>3, <2>4 DEF IInv, TypeOK
  <2>6. Working'
    BY <2>2, <2>3 DEF IInv, Working
  <2> QED BY <1>1, <2>4, <2>5, <2>6, QueueLockKept, NameLockKept DEF IInv
<1>5. CASE CollectResults
  <2>1. /\ pc = "collect_results" /\ pc' \in {"lock_name", "store_run", "reset_runs"}
        /\ collected' = [collected EXCEPT ![job] = Append(@, <<run, variation>>)]
        /\ UNCHANGED <<current_run, current_runs, job, outcome>>
    BY <1>5 DEF CollectResults, shared
  <2>2. /\ job \in Requests /\ run \in 1 .. Runs[job] /\ run \in Nat
        /\ variation \in 1 .. Len(Variations[job]) /\ variation \in Nat
    BY <2>1, RequestType, OfVariationNames DEF IInv, TypeOK, Working
  <2>3. collected' \in [Requests -> Seq(Nat \X Nat)]
    <3>1. collected[job] \in Seq(Nat \X Nat) /\ <<run, variation>> \in Nat \X Nat
      BY <2>2 DEF IInv, TypeOK
    <3>2. Append(collected[job], <<run, variation>>) \in Seq(Nat \X Nat)
      BY <3>1
    <3> QED BY <2>1, <2>2, <3>2 DEF IInv, TypeOK
  <2>4. /\ pc' = "lock_name" => run' = run /\ variation' = variation + 1 /\ variation < Len(Variations[job])
        /\ pc' = "store_run" => run' = run + 1 /\ variation' = variation /\ run < Runs[job]
        /\ pc' = "reset_runs" => run' = run /\ variation' = variation
    BY <1>5 DEF CollectResults
  <2>5. /\ run' \in 1 .. Runs[job] /\ variation' \in 1 .. Len(Variations[job])
        /\ run' \in 0 .. MaxRuns /\ variation' \in Nat
    BY <2>1, <2>2, <2>4, RequestType, CounterType
  <2>6. TypeOK'
    BY <1>1, <2>1, <2>2, <2>3, <2>5, TaskNames DEF IInv, TypeOK, RunnerPCs
  <2>7. Working'
    BY <2>1, <2>5 DEF Working
  <2> QED BY <1>1, <2>1, <2>6, <2>7, QueueLockKept, NameLockKept DEF IInv
<1>6. CASE ResetRuns \/ ResetRun
  <2>1. /\ pc \in {"reset_runs", "reset_run"} /\ pc' \in {"reset_run", "lock_reset"}
        /\ current_run' \in {current_run, 0} /\ current_runs' \in {current_runs, 0}
        /\ UNCHANGED <<job, run, variation, collected, outcome>>
    BY <1>6 DEF ResetRuns, ResetRun
  <2>2. TypeOK'
    BY <1>1, <2>1, TaskNames, CounterType DEF IInv, TypeOK, RunnerPCs
  <2>3. Working'
    BY <2>1, OfVariationNames DEF Working
  <2> QED BY <1>1, <2>1, <2>2, <2>3, QueueLockKept, NameLockKept DEF IInv
<1>7. CASE Abort \/ Panic
  <2>1. /\ pc \in Stages /\ pc' \in {"poll", "dead"}
        /\ outcome' = [outcome EXCEPT ![job] = "aborted"] /\ job' = NoRequest
        /\ UNCHANGED <<current_run, current_runs, run, variation, collected>>
    BY <1>7, RunnerAssumption DEF RunnerAssumption, Abort, Panic, shared
  <2>2. TypeOK'
    BY <1>1, <2>1 DEF IInv, TypeOK, RunnerPCs
  <2>3. Working'
    BY <2>1, OfVariationNames DEF Working
  <2> QED BY <1>1, <2>1, <2>2, <2>3, StageNames, QueueLockKept, NameLockKept DEF IInv
<1> QED BY <1>2, <1>3, <1>4, <1>5, <1>6, <1>7

(* update_current_experiment and reset_metadata.                           *)
LEMMA NameStepInv ==
  ASSUME IInv, LockName \/ SetName \/ LockReset \/ ResetName
  PROVE  IInv'
<1>1. UNCHANGED <<queue, queueLock, current_run, current_runs, run, variation, collected, handler, probe>>
  BY DEF LockName, SetName, LockReset, ResetName
<1>2. CASE LockName \/ LockReset
  <2>1. /\ \/ pc = "lock_name" /\ pc' = "set_name"
           \/ pc = "lock_reset" /\ pc' = "reset_name"
        /\ nameLock' = Lock(nameLock, Runner)
        /\ UNCHANGED <<current_experiment, job, outcome>>
    BY <1>2 DEF LockName, LockReset
  <2>2. ~Asks(nameLock, Runner)
    BY <2>1 DEF IInv, NameLockInv
  <2>3. /\ WellFormed(nameLock', NameTasks)
        /\ \A u \in NameTasks : Asks(nameLock', u) <=> Asks(nameLock, u) \/ u = Runner
        /\ \A u \in NameTasks : nameLock.owner = u => nameLock'.owner = u
    BY <2>1, <2>2, LocksOf, LockAsks
  <2>4. NameLockInv'
    BY <1>1, <2>1, <2>3, TaskNames DEF IInv, NameLockInv, NameTasks
  <2>5. TypeOK'
    <3>1. nameLock' \in Mutexes(Probes \cup {Runner})
      BY <2>3 DEF WellFormed, NameTasks
    <3> QED BY <1>1, <2>1, <3>1 DEF IInv, TypeOK, RunnerPCs
  <2>6. Working'
    BY <1>1, <2>1, OfVariationNames DEF IInv, Working
  <2> QED BY <1>1, <2>1, <2>4, <2>5, <2>6, QueueLockKept DEF IInv
<1>3. CASE SetName \/ ResetName
  <2>1. /\ \/ pc = "set_name" /\ pc' = VariationStages[1] /\ UNCHANGED <<job, outcome>>
              /\ current_experiment' = Variations[job][variation]
           \/ pc = "reset_name" /\ pc' = "poll" /\ job' = NoRequest
              /\ outcome' = [outcome EXCEPT ![job] = "finished"]
              /\ current_experiment' = NoName
        /\ nameLock.owner = Runner /\ nameLock' = Unlock(nameLock)
    BY <1>3 DEF SetName, ResetName
  <2>2. /\ pc \in {"set_name", "reset_name"} /\ pc' \in {"make_directory", "poll"}
        /\ job \in Requests
    BY <2>1, VariationNames DEF IInv, TypeOK
  <2>3. /\ WellFormed(nameLock', NameTasks)
        /\ \A u \in NameTasks : Asks(nameLock', u) <=> Asks(nameLock, u) /\ u # Runner
    BY <2>1, LocksOf, UnlockAsks
  <2>4. \A p \in Probes : probe[p].pc \notin Reading \ {"status"}
    BY <2>1, TaskNames DEF IInv, NameLockInv
  <2>5. NameLockInv'
    BY <1>1, <2>2, <2>3, <2>4, TaskNames DEF IInv, NameLockInv, NameTasks
  <2>6. current_experiment' \in Names \cup {NoName}
    BY <2>1, <2>2, RequestType, OfVariationNames DEF IInv, Working
  <2>7. TypeOK'
    <3>1. nameLock' \in Mutexes(Probes \cup {Runner})
      BY <2>3 DEF WellFormed, NameTasks
    <3>2. outcome' \in [Requests -> {"none", "finished", "aborted"}]
      BY <2>1 DEF IInv, TypeOK
    <3>3. pc' \in RunnerPCs
      BY <2>2, StageNames DEF RunnerPCs
    <3>4. /\ job' \in Requests \cup {NoRequest}
          /\ job' = NoRequest <=> pc' \in {"poll", "locked", "sleep", "dead"}
      BY <2>1, <2>2, VariationNames, TaskNames DEF IInv, TypeOK
    <3> QED BY <1>1, <2>6, <3>1, <3>2, <3>3, <3>4 DEF IInv, TypeOK
  <2>8. Working'
    BY <1>1, <2>1, <2>2, VariationNames, OfVariationNames DEF IInv, Working
  <2> QED BY <1>1, <2>2, <2>5, <2>7, <2>8, QueueLockKept DEF IInv
<1> QED BY <1>2, <1>3

(* Every step keeps the inductive invariant.                               *)
LEMMA NextInv == IInv /\ [Next]_vars => IInv'
<1> SUFFICES ASSUME IInv, [Next]_vars PROVE IInv'
  OBVIOUS
<1>1. CASE UNCHANGED vars
  BY <1>1 DEF vars, shared, runner, IInv, TypeOK, QueueLockInv, NameLockInv, Working
<1>2. CASE RunnerStep
  BY <1>2, WaitStepInv, LoopStepInv, NameStepInv DEF RunnerStep
<1> QED BY <1>1, <1>2, HandlerStepInv, StatusStepInv DEF Next

(* The variables keep their types, whatever requests, probes and faults    *)
(* there are; run and variation stay within the request worked on.         *)
THEOREM TypeCorrect == Spec => []TypeOK
<1>1. IInv => TypeOK
  BY DEF IInv
<1> QED BY <1>1, InitInv, NextInv, PTL DEF Spec

-----------------------------------------------------------------------------
(* No request is lost or doubled.                                          *)

(* A push puts a request that was nowhere into the queue and moves no      *)
(* other.                                                                  *)
LEMMA PushPlaces ==
  ASSUME queue \in Seq(Requests), NEW r \in Requests, queue' = Append(queue, r)
  PROVE  /\ \A u \in Requests \ {r} :
              (InQueue(u)' <=> InQueue(u)) /\ (WaitsOnce(u) => WaitsOnce(u)')
         /\ ~InQueue(r) => WaitsOnce(r)'
<1>1. /\ DOMAIN queue = 1 .. Len(queue) /\ Len(queue) \in Nat
      /\ DOMAIN queue' = 1 .. Len(queue) + 1
      /\ \A i \in 1 .. Len(queue) : queue'[i] = queue[i]
      /\ queue'[Len(queue) + 1] = r
  OBVIOUS
<1>2. ASSUME NEW u \in Requests \ {r} PROVE InQueue(u)' <=> InQueue(u)
  BY <1>1 DEF InQueue
<1>3. ASSUME NEW u \in Requests \ {r}, WaitsOnce(u) PROVE WaitsOnce(u)'
  BY <1>1, <1>3 DEF WaitsOnce
<1>4. ~InQueue(r) => WaitsOnce(r)'
  BY <1>1 DEF InQueue, WaitsOnce
<1> QED BY <1>2, <1>3, <1>4

(* A pop moves the head out of the queue and leaves the others in their    *)
(* places.                                                                 *)
LEMMA PopPlaces ==
  ASSUME queue \in Seq(Requests), queue # <<>>, queue' = Tail(queue),
         NEW h \in Requests, h = Head(queue)
  PROVE  /\ InQueue(h)
         /\ \A u \in Requests \ {h} :
              (InQueue(u)' <=> InQueue(u)) /\ (WaitsOnce(u) => WaitsOnce(u)')
         /\ WaitsOnce(h) => ~InQueue(h)'
<1>1. /\ DOMAIN queue = 1 .. Len(queue) /\ Len(queue) \in Nat \ {0}
      /\ DOMAIN queue' = 1 .. Len(queue) - 1
      /\ \A i \in 1 .. Len(queue) - 1 : queue'[i] = queue[i + 1]
      /\ h = queue[1]
  OBVIOUS
<1>2. \A j \in 2 .. Len(queue) : j - 1 \in 1 .. Len(queue) - 1 /\ queue'[j - 1] = queue[j]
  <2> SUFFICES ASSUME NEW j \in 2 .. Len(queue)
               PROVE  j - 1 \in 1 .. Len(queue) - 1 /\ queue'[j - 1] = queue[j]
    OBVIOUS
  <2>1. j - 1 \in 1 .. Len(queue) - 1 /\ (j - 1) + 1 = j
    BY <1>1
  <2> QED BY <1>1, <2>1
<1>3. ASSUME NEW u \in Requests \ {h} PROVE InQueue(u)' <=> InQueue(u)
  <2>1. ASSUME InQueue(u)' PROVE InQueue(u)
    <3>1. PICK i \in 1 .. Len(queue) - 1 : queue'[i] = u
      BY <1>1, <2>1 DEF InQueue
    <3>2. i + 1 \in DOMAIN queue /\ queue[i + 1] = u
      BY <1>1, <3>1
    <3> QED BY <3>2 DEF InQueue
  <2>2. ASSUME InQueue(u) PROVE InQueue(u)'
    <3>1. PICK i \in 1 .. Len(queue) : queue[i] = u
      BY <1>1, <2>2 DEF InQueue
    <3>2. i \in 2 .. Len(queue)
      BY <1>1, <3>1
    <3>3. i - 1 \in DOMAIN queue' /\ queue'[i - 1] = u
      BY <1>1, <1>2, <3>1, <3>2
    <3> QED BY <3>3 DEF InQueue
  <2> QED BY <2>1, <2>2
<1>4. ASSUME NEW u \in Requests \ {h}, WaitsOnce(u) PROVE WaitsOnce(u)'
  <2>1. PICK i \in DOMAIN queue : queue[i] = u /\ \A j \in DOMAIN queue : queue[j] = u => j = i
    BY <1>4 DEF WaitsOnce
  <2>2. i \in 2 .. Len(queue)
    BY <1>1, <2>1
  <2>3. i - 1 \in DOMAIN queue' /\ queue'[i - 1] = u
    BY <1>1, <1>2, <2>1, <2>2
  <2>4. \A j \in DOMAIN queue' : queue'[j] = u => j = i - 1
    BY <1>1, <2>1
  <2> QED BY <2>3, <2>4 DEF WaitsOnce
<1>5. ASSUME WaitsOnce(h) PROVE ~InQueue(h)'
  <2>1. \A j \in DOMAIN queue : queue[j] = queue[1] => j = 1
    BY <1>1, <1>5 DEF WaitsOnce
  <2>2. ASSUME NEW j \in DOMAIN queue' PROVE queue'[j] # queue[1]
    <3>1. j + 1 \in DOMAIN queue /\ queue'[j] = queue[j + 1] /\ j + 1 # 1
      BY <1>1
    <3> QED BY <2>1, <3>1
  <2> QED BY <1>1, <2>2 DEF InQueue
<1>6. InQueue(h)
  BY <1>1 DEF InQueue
<1> QED BY <1>1, <1>3, <1>4, <1>5, <1>6

Pushed == {"enqueued", "acknowledged", "unacknowledged"}

(* Every step keeps each request in exactly one place.                     *)
LEMMA PlaceStep == IInv /\ InExactlyOnePlace /\ [Next]_vars => InExactlyOnePlace'
<1> SUFFICES ASSUME IInv, InExactlyOnePlace, [Next]_vars PROVE InExactlyOnePlace'
  OBVIOUS
<1>1. /\ queue \in Seq(Requests) /\ handler \in [Requests -> HandlerStates]
      /\ outcome \in [Requests -> {"none", "finished", "aborted"}]
      /\ job \in Requests \cup {NoRequest} /\ NoRequest \notin Requests
  BY TaskNames DEF IInv, TypeOK
<1>2. CASE UNCHANGED <<queue, job, outcome>> /\ \A r \in Requests : handler'[r] \in Pushed <=> handler[r] \in Pushed
  BY <1>2 DEF InExactlyOnePlace, InQueue, WaitsOnce, Served, Pushed
<1>3. ASSUME NEW r \in Requests, HandlerStep(r) PROVE InExactlyOnePlace'
  <2>1. UNCHANGED <<job, outcome>>
    BY <1>3 DEF HandlerStep, Receive, Enqueue, Respond, Disconnect, runner
  <2>2. CASE Enqueue(r)
    <3>1. /\ handler[r] = "enqueue" /\ handler' = [handler EXCEPT ![r] = "enqueued"]
          /\ queue' = Append(queue, r)
      BY <2>2 DEF Enqueue
    <3>2. ~InQueue(r) /\ job # r /\ r \notin Served
      BY <3>1 DEF InExactlyOnePlace
    <3>3. WaitsOnce(r)' /\ \A u \in Requests \ {r} :
            (InQueue(u)' <=> InQueue(u)) /\ (WaitsOnce(u) => WaitsOnce(u)')
      BY <1>1, <3>1, <3>2, PushPlaces
    <3>4. Served' = Served
      BY <2>1 DEF Served
    <3> QED BY <1>1, <2>1, <3>1, <3>2, <3>3, <3>4 DEF InExactlyOnePlace
  <2>3. CASE Receive(r) \/ Respond(r) \/ Disconnect(r)
    <3>1. UNCHANGED queue
      BY <2>3 DEF Receive, Respond, Disconnect, shared
    <3>2. \A u \in Requests : handler'[u] \in Pushed <=> handler[u] \in Pushed
      BY <1>1, <2>3 DEF Receive, Respond, Disconnect, Pushed
    <3> QED BY <1>2, <2>1, <3>1, <3>2
  <2> QED BY <1>3, <2>2, <2>3 DEF HandlerStep
<1>4. CASE PopFront
  <2>1. /\ queue # <<>> /\ job' = Head(queue) /\ queue' = Tail(queue) /\ pc = "locked"
        /\ UNCHANGED <<outcome, handler>>
    BY <1>4 DEF PopFront
  <2>2. job = NoRequest
    BY <2>1 DEF IInv, TypeOK
  <2>0. PICK h \in Requests : h = Head(queue)
    BY <1>1, <2>1
  <2>3. /\ InQueue(h)
        /\ \A u \in Requests \ {h} :
             (InQueue(u)' <=> InQueue(u)) /\ (WaitsOnce(u) => WaitsOnce(u)')
        /\ WaitsOnce(h) => ~InQueue(h)'
    BY <1>1, <2>1, <2>0, PopPlaces
  <2>4. Served' = Served
    BY <2>1 DEF Served
  <2>5. handler[h] \in Pushed /\ WaitsOnce(h) /\ h \notin Served
    BY <2>2, <2>3 DEF InExactlyOnePlace, Pushed
  <2> SUFFICES ASSUME NEW u \in Requests
               PROVE  IF handler[u] \in Pushed
                        THEN \/ WaitsOnce(u)' /\ job' # u /\ u \notin Served
                             \/ ~InQueue(u)' /\ job' = u /\ u \notin Served
                             \/ ~InQueue(u)' /\ job' # u /\ u \in Served
                        ELSE ~InQueue(u)' /\ job' # u /\ u \notin Served
    BY <2>1, <2>4 DEF InExactlyOnePlace, Pushed
  <2>6. CASE u = h
    <3>1. ~InQueue(u)' /\ job' = u /\ u \notin Served /\ handler[u] \in Pushed
      BY <2>0, <2>1, <2>3, <2>5, <2>6
    <3> QED BY <3>1
  <2>7. CASE u # h
    <3>1. IF handler[u] \in Pushed
            THEN \/ WaitsOnce(u) /\ u \notin Served
                 \/ ~InQueue(u) /\ u \in Served
            ELSE ~InQueue(u) /\ u \notin Served
      BY <1>1, <2>2 DEF InExactlyOnePlace, Pushed
    <3> QED BY <2>0, <2>1, <2>3, <2>7, <3>1
  <2> QED BY <2>6, <2>7
<1>5. CASE ResetName \/ Abort \/ Panic
  <2>1. /\ UNCHANGED <<queue, handler>> /\ job' = NoRequest
        /\ \E o \in {"finished", "aborted"} : outcome' = [outcome EXCEPT ![job] = o]
    BY <1>5 DEF ResetName, Abort, Panic, shared
  <2>2. job \in Requests
    BY <1>1, <1>5, RunnerAssumption, StageNames DEF RunnerAssumption, IInv, TypeOK, ResetName, Abort, Panic
  <2>3. Served' = Served \cup {job}
    BY <1>1, <2>1, <2>2 DEF Served
  <2> QED BY <1>1, <2>1, <2>2, <2>3 DEF InExactlyOnePlace, InQueue, WaitsOnce
<1>6. CASE RunnerStep
  <2>1. CASE \/ Poll \/ SleepOnEmpty \/ WakeUp \/ Prepare \/ StoreRun \/ LockName \/ SetName
             \/ Perform \/ CollectResults \/ ResetRuns \/ ResetRun \/ LockReset
    BY <1>2, <2>1 DEF Poll, SleepOnEmpty, WakeUp, Prepare, StoreRun, LockName, SetName,
       Perform, CollectResults, ResetRuns, ResetRun, LockReset, shared
  <2> QED BY <1>4, <1>5, <1>6, <2>1 DEF RunnerStep
<1>7. CASE \E p \in Probes : StatusStep(p)
  BY <1>2, <1>7 DEF StatusStep, AskStatus, LoadRun, LoadRuns, Report, shared, runner
<1>8. CASE UNCHANGED vars
  BY <1>2, <1>8 DEF vars, shared, runner
<1> QED BY <1>3, <1>6, <1>7, <1>8 DEF Next

(* A request that reached the queue is waiting once, being worked on or    *)
(* done with, and never two of these: not one is lost or doubled.          *)
THEOREM NothingLostOrDoubled == Spec => []InExactlyOnePlace
<1>1. Init => InExactlyOnePlace
  BY TaskNames DEF Init, InExactlyOnePlace, InQueue, Served
<1> QED BY <1>1, InitInv, NextInv, PlaceStep, PTL DEF Spec

-----------------------------------------------------------------------------
(* The runner serves the accepted requests one at a time in the order of   *)
(* their push: it implements ExperimentService, whatever fails.            *)
THEOREM Implementation == Spec => ImplementsService
<1>1. Init => Service!Init
  BY DEF Init, Service!Init, Served
<1>2. IInv /\ InExactlyOnePlace /\ [Next]_vars => [Service!Next]_Service!vars
  <2> SUFFICES ASSUME IInv, InExactlyOnePlace, [Next]_vars
               PROVE  [Service!Next]_Service!vars
    OBVIOUS
  <2>1. /\ outcome \in [Requests -> {"none", "finished", "aborted"}]
        /\ job \in Requests \cup {NoRequest} /\ NoRequest \notin Requests
    BY TaskNames DEF IInv, TypeOK
  <2>2. CASE UNCHANGED <<queue, job, outcome>>
    BY <2>2 DEF Service!vars, Served
  <2>3. ASSUME NEW r \in Requests, HandlerStep(r) PROVE [Service!Next]_Service!vars
    <3>1. CASE Enqueue(r)
      <4>1. /\ handler[r] = "enqueue" /\ queue' = Append(queue, r) /\ UNCHANGED <<job, outcome>>
        BY <3>1 DEF Enqueue, runner
      <4>2. r \notin Service!Accepted
        BY <2>1, <4>1 DEF Service!Accepted, InExactlyOnePlace, InQueue
      <4>3. Service!Accept(r)
        BY <4>1, <4>2 DEF Service!Accept, Served
      <4> QED BY <4>3 DEF Service!Next
    <3>2. CASE Receive(r) \/ Respond(r) \/ Disconnect(r)
      BY <2>2, <3>2 DEF Receive, Respond, Disconnect, shared, runner
    <3> QED BY <2>3, <3>1, <3>2 DEF HandlerStep
  <2>4. CASE PopFront
    <3>1. job = NoRequest
      BY <2>4 DEF PopFront, IInv, TypeOK
    <3>2. Service!Begin
      BY <2>4, <3>1 DEF PopFront, Service!Begin, Served
    <3> QED BY <3>2 DEF Service!Next
  <2>5. CASE ResetName \/ Abort \/ Panic
    <3>1. /\ UNCHANGED queue /\ job' = NoRequest
          /\ \E o \in {"finished", "aborted"} : outcome' = [outcome EXCEPT ![job] = o]
      BY <2>5 DEF ResetName, Abort, Panic, shared
    <3>2. job \in Requests
      BY <2>1, <2>5, RunnerAssumption, StageNames DEF RunnerAssumption, IInv, TypeOK, ResetName, Abort, Panic
    <3>3. Served' = Served \cup {job}
      BY <2>1, <3>1, <3>2 DEF Served
    <3>4. Service!End
      BY <2>1, <3>1, <3>2, <3>3 DEF Service!End
    <3> QED BY <3>4 DEF Service!Next
  <2>6. CASE RunnerStep
    <3>1. CASE \/ Poll \/ SleepOnEmpty \/ WakeUp \/ Prepare \/ StoreRun \/ LockName \/ SetName
               \/ Perform \/ CollectResults \/ ResetRuns \/ ResetRun \/ LockReset
      BY <2>2, <3>1 DEF Poll, SleepOnEmpty, WakeUp, Prepare, StoreRun, LockName, SetName,
         Perform, CollectResults, ResetRuns, ResetRun, LockReset, shared
    <3> QED BY <2>4, <2>5, <2>6, <3>1 DEF RunnerStep
  <2>7. CASE \E p \in Probes : StatusStep(p)
    BY <2>2, <2>7 DEF StatusStep, AskStatus, LoadRun, LoadRuns, Report, shared, runner
  <2>8. CASE UNCHANGED vars
    BY <2>2, <2>8 DEF vars, shared, runner
  <2> QED BY <2>3, <2>6, <2>7, <2>8 DEF Next
<1> QED BY <1>1, <1>2, InitInv, NextInv, NothingLostOrDoubled, PTL
        DEF Spec, ImplementsService, Service!SafeSpec

-----------------------------------------------------------------------------
(* Nobody waits in vain.                                                   *)

(* What a step can do to the queue's mutex.                                *)
LEMMA QueueLockMoves ==
  ASSUME IInv, [Next]_vars
  PROVE  \/ queueLock' = queueLock
         \/ \E t \in QueueTasks : queueLock' = Lock(queueLock, t)
         \/ queueLock' = Unlock(queueLock)
         \/ \E r \in Requests : /\ Asks(queueLock, r) /\ handler'[r] = "dropped"
                                 /\ queueLock' = Abandon(queueLock, r)
<1>1. ASSUME NEW r \in Requests, HandlerStep(r)
      PROVE  \/ queueLock' = queueLock
             \/ queueLock' = Lock(queueLock, r)
             \/ queueLock' = Unlock(queueLock)
             \/ /\ Asks(queueLock, r) /\ handler'[r] = "dropped"
                /\ queueLock' = Abandon(queueLock, r)
  <2>1. CASE Receive(r) \/ Enqueue(r) \/ Respond(r)
    BY <2>1 DEF Receive, Enqueue, Respond, shared
  <2>2. CASE Disconnect(r)
    <3>1. handler[r] = "enqueue" => Asks(queueLock, r) /\ handler \in [Requests -> HandlerStates]
      BY DEF IInv, TypeOK, QueueLockInv
    <3> QED BY <2>2, <3>1 DEF Disconnect
  <2> QED BY <1>1, <2>1, <2>2 DEF HandlerStep
<1>2. CASE RunnerStep
  <2>1. CASE Poll \/ PopFront \/ WakeUp
    BY <2>1, LocksOf DEF Poll, PopFront, WakeUp
  <2>2. CASE \/ SleepOnEmpty \/ Prepare \/ StoreRun \/ LockName \/ SetName \/ Perform
             \/ CollectResults \/ ResetRuns \/ ResetRun \/ LockReset \/ ResetName \/ Abort \/ Panic
    BY <2>2 DEF SleepOnEmpty, Prepare, StoreRun, LockName, SetName, Perform, CollectResults,
       ResetRuns, ResetRun, LockReset, ResetName, Abort, Panic, shared
  <2> QED BY <1>2, <2>1, <2>2 DEF RunnerStep
<1>3. CASE \E p \in Probes : StatusStep(p)
  BY <1>3 DEF StatusStep, AskStatus, LoadRun, LoadRuns, Report, shared
<1>4. CASE UNCHANGED vars
  BY <1>4 DEF vars, shared
<1>5. Requests \subseteq QueueTasks
  BY DEF QueueTasks
<1> QED BY <1>1, <1>2, <1>3, <1>4, <1>5 DEF Next

(* The name's mutex is asked for and released, never given up.             *)
LEMMA NameLockMoves ==
  ASSUME IInv, [Next]_vars
  PROVE  \/ nameLock' = nameLock
         \/ \E t \in NameTasks : nameLock' = Lock(nameLock, t)
         \/ nameLock' = Unlock(nameLock)
<1>1. CASE \E r \in Requests : HandlerStep(r)
  BY <1>1 DEF HandlerStep, Receive, Enqueue, Respond, Disconnect, shared
<1>2. CASE RunnerStep
  <2>1. CASE LockName \/ SetName \/ LockReset \/ ResetName
    BY <2>1, LocksOf DEF LockName, SetName, LockReset, ResetName
  <2>2. CASE \/ Poll \/ PopFront \/ SleepOnEmpty \/ WakeUp \/ Prepare \/ StoreRun \/ Perform
             \/ CollectResults \/ ResetRuns \/ ResetRun \/ Abort \/ Panic
    BY <2>2 DEF Poll, PopFront, SleepOnEmpty, WakeUp, Prepare, StoreRun, Perform, CollectResults,
       ResetRuns, ResetRun, Abort, Panic, shared
  <2> QED BY <1>2, <2>1, <2>2 DEF RunnerStep
<1>3. CASE \E p \in Probes : StatusStep(p)
  BY <1>3 DEF StatusStep, AskStatus, LoadRun, LoadRuns, Report, shared, NameTasks
<1>4. CASE UNCHANGED vars
  BY <1>4 DEF vars, shared
<1> QED BY <1>1, <1>2, <1>3, <1>4 DEF Next

(* No POST /run and no GET /status, and not the runner either, is ever     *)
(* overtaken while it waits for a mutex: with each release it comes one    *)
(* nearer, however often the runner asks for the queue anew after its      *)
(* sleep and whoever else comes or gives up (wait_for_experiments and      *)
(* enqueue, controller/src/run.rs:296-312; status, routes.rs:62-69). It is *)
(* the measure by which EnqueueCompletes and StatusIsAnswered come true.   *)
THEOREM NeverOvertaken ==
  Spec => [][/\ Advances(queueLock, queueLock', Runner) /\ Advances(nameLock, nameLock', Runner)
             /\ \A r \in Requests :
                  handler'[r] # "dropped" => Advances(queueLock, queueLock', r)
             /\ \A p \in Probes : Advances(nameLock, nameLock', p)]_vars
<1>1. \A m, T, t : WellFormed(m, T) => Advances(m, m, t)
  <2> SUFFICES ASSUME NEW m, NEW T, NEW t, WellFormed(m, T) PROVE Advances(m, m, t)
    OBVIOUS
  <2>1. m.waiters \in Seq(T)
    BY DEF WellFormed, Mutexes
  <2>2. \A i \in DOMAIN m.waiters : i <= i
    BY <2>1
  <2> QED BY <2>2 DEF Advances
<1>2. ASSUME IInv, [Next]_vars, NEW t, NEW T, WellFormed(nameLock, T), T = NameTasks
      PROVE  Advances(nameLock, nameLock', t)
  BY <1>1, <1>2, NameLockMoves, LockAdvances, UnlockAdvances
<1>3. ASSUME IInv, [Next]_vars, NEW t, t \in Requests => handler'[t] # "dropped"
      PROVE  Advances(queueLock, queueLock', t)
  <2>1. WellFormed(queueLock, QueueTasks) /\ Requests \subseteq QueueTasks
    BY <1>3, LocksOf DEF QueueTasks
  <2> QED BY <1>1, <1>3, <2>1, QueueLockMoves, LockAdvances, UnlockAdvances, AbandonAdvances
<1>4. IInv /\ [Next]_vars =>
        /\ Advances(queueLock, queueLock', Runner) /\ Advances(nameLock, nameLock', Runner)
        /\ \A r \in Requests : handler'[r] # "dropped" => Advances(queueLock, queueLock', r)
        /\ \A p \in Probes : Advances(nameLock, nameLock', p)
  BY <1>2, <1>3, LocksOf, TaskNames
<1> QED BY <1>4, InitInv, NextInv, PTL DEF Spec

(* Who holds a mutex is at a point of its program from where it goes on    *)
(* without waiting for anybody, and releases it: the runner, which may     *)
(* fall asleep first, or a handler that is not done.  Who waits is in its  *)
(* line, and nobody is in the line of a free mutex.                        *)
HoldersGoOn ==
  /\ \/ queueLock.owner = Nobody /\ queueLock.waiters = <<>>
     \/ queueLock.owner = Runner /\ pc \in {"locked", "sleep"}
     \/ queueLock.owner \in Requests /\ handler[queueLock.owner] = "enqueue"
  /\ \/ nameLock.owner = Nobody /\ nameLock.waiters = <<>>
     \/ nameLock.owner = Runner /\ pc \in {"set_name", "reset_name"}
     \/ nameLock.owner \in Probes /\ probe[nameLock.owner].pc \in Reading
  /\ \A r \in Requests : handler[r] = "enqueue" => Asks(queueLock, r)
  /\ \A p \in Probes : probe[p].pc = "status" => Asks(nameLock, p)

(* What EnqueueCompletes and StatusIsAnswered need besides fairness and    *)
(* the order of the line, in every state: no wake-up is lost, and no task  *)
(* holds one mutex while it waits for the other (controller/src/           *)
(* run.rs:296-333, routes.rs:55-70).                                       *)
THEOREM NoLostWakeUp == Spec => []HoldersGoOn
<1>1. IInv => HoldersGoOn
  <2> SUFFICES ASSUME IInv PROVE HoldersGoOn
    OBVIOUS
  <2>1. /\ queueLock.owner \in Requests \cup {Runner, Nobody}
        /\ nameLock.owner \in Probes \cup {Runner, Nobody}
        /\ queueLock.owner = Nobody => queueLock.waiters = <<>>
        /\ nameLock.owner = Nobody => nameLock.waiters = <<>>
    BY LocksOf DEF WellFormed, Mutexes, QueueTasks, NameTasks
  <2>2. Asks(queueLock, queueLock.owner) /\ Asks(nameLock, nameLock.owner)
    BY DEF Asks
  <2> QED BY <2>1, <2>2 DEF IInv, QueueLockInv, NameLockInv, HoldersGoOn, Reading
<1> QED BY <1>1, InitInv, NextInv, PTL DEF Spec

=============================================================================
