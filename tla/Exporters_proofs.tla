-------------------------- MODULE Exporters_proofs --------------------------
(***************************************************************************)
(* Theorems about Exporters, for every plan, every number of rounds and    *)
(* every choice of which steps may fail: the variables keep their types,   *)
(* an exporter never runs twice on a host, the flag is set only while      *)
(* main_loop waits for the background tasks, and main_loop waits for none  *)
(* that cannot end.  Under the conditions their statements name, exporters *)
(* run while they should and are gone when results are collected.          *)
(*                                                                         *)
(* None of these is inductive alone.  OneInstance needs that the advisory  *)
(* lock of a file names exactly the process that is alive for it (Locked), *)
(* and that in turn needs that a process is spawned at most once (Fresh).  *)
(***************************************************************************)
EXTENDS Exporters, TLAPS

(* A process that start_exporters has yet to reach, and its task.          *)
Ahead(p) ==
  \/ p[1] > round
  \/ p[1] = round /\ phase \in {"start", "spawn"} /\ p[2] >= slot

Fresh == \A p \in Processes : Ahead(p) => proc[p] = "none" /\ task[p] = "none"

InOrder ==
  /\ phase = "start" => slot = 1
  /\ phase = "stopped" <=> round > Rounds

(* The holder of a lock is the process that is alive for that file.        *)
Locked ==
  /\ \A f \in Files : lockFile[f] # NoProcess => File(lockFile[f]) = f
  /\ \A p \in Processes : Alive(p) <=> lockFile[File(p)] = p

IInv == TypeOK /\ InOrder /\ Fresh /\ Locked

-----------------------------------------------------------------------------
(* Processes and their files.                                              *)

(* The parts of a plan.                                                    *)
LEMMA PlanType ==
  ASSUME NEW n \in 1 .. Rounds
  PROVE  /\ Len(Plan[n]) \in Nat /\ Len(Plan[n]) <= MaxExporters
         /\ DOMAIN Plan[n] = 1 .. Len(Plan[n])
         /\ \A k \in DOMAIN Plan[n] : Plan[n][k].name \in Exporters
<1> DEFINE Entry == [name : Exporters, hosts : SUBSET Hosts]
<1>1. Plan[n] \in Seq(Entry) /\ Len(Plan[n]) <= MaxExporters
  BY ExportersAssumption DEF ExportersAssumption
<1>2. \A e \in Entry : e.name \in Exporters
  OBVIOUS
<1> HIDE DEF Entry
<1>3. /\ Len(Plan[n]) \in Nat /\ DOMAIN Plan[n] = 1 .. Len(Plan[n])
      /\ \A k \in DOMAIN Plan[n] : Plan[n][k] \in Entry
  BY <1>1
<1> QED BY <1>1, <1>2, <1>3

(* The parts of a process, and that its file is one of the files.          *)
LEMMA ProcessType ==
  ASSUME NEW p \in Processes
  PROVE  /\ p[1] \in 1 .. Rounds
         /\ p[2] \in 1 .. Len(Plan[p[1]]) /\ p[2] \in Nat
         /\ p[3] \in Hosts
         /\ File(p) \in Files
         /\ p # NoProcess
<1>1. p \in (1 .. Rounds) \X (1 .. MaxExporters) \X Hosts /\ p[2] \in DOMAIN Plan[p[1]]
  BY DEF Processes
<1>2. p[1] \in 1 .. Rounds /\ p[2] \in 1 .. MaxExporters /\ p[3] \in Hosts
  BY <1>1
<1>3. p[2] \in 1 .. Len(Plan[p[1]]) /\ Plan[p[1]][p[2]].name \in Exporters
  BY <1>1, <1>2, PlanType
<1>4. File(p) \in Files
  BY <1>2, <1>3 DEF File, Files
<1> QED BY <1>2, <1>3, <1>4, NoProcessAssumption DEF NoProcessAssumption

-----------------------------------------------------------------------------
(* What the proofs need to know of the bounds.                             *)
LEMMA Bounds == Rounds \in Nat /\ Rounds >= 1 /\ MaxExporters \in Nat
BY ExportersAssumption DEF ExportersAssumption

(* The inductive invariant holds at first.                                 *)
LEMMA InitInv == Init => IInv
<1> SUFFICES ASSUME Init PROVE IInv
  OBVIOUS
<1>1. TypeOK
  <2>1. /\ task \in [Processes -> {"none", "polling", "killing", "done", "failed"}]
        /\ proc \in [Processes -> {"none", "starting", "running", "refused",
                                   "orphaned", "killed", "exited"}]
    BY DEF Init
  <2>2. /\ lockFile \in [Files -> Processes \cup {NoProcess}]
        /\ pidFile \in [Files -> Processes \cup {NoProcess}]
    BY DEF Init
  <2>3. KILL_EXPORTERS \in BOOLEAN /\ failedBefore \in BOOLEAN
    BY DEF Init
  <2>4. round \in 1 .. Rounds + 1 /\ slot \in 1 .. MaxExporters + 1
    BY Bounds DEF Init
  <2> QED BY <2>1, <2>2, <2>3, <2>4 DEF Init, TypeOK
<1>2. InOrder
  BY Bounds DEF Init, InOrder
<1>3. Fresh
  BY DEF Init, Fresh
<1>4. Locked
  BY ProcessType DEF Init, Locked, Alive
<1> QED BY <1>1, <1>2, <1>3, <1>4 DEF IInv

-----------------------------------------------------------------------------
(* Steps of main_loop.                                                     *)

(* Whoever starts another round leaves the type and the order intact.      *)
LEMMA NextRoundStep ==
  ASSUME IInv, NextRound, phase # "stopped"
  PROVE  /\ phase' \in {"start", "stopped"} /\ round' \in 1 .. Rounds + 1
         /\ slot' \in 1 .. MaxExporters + 1
         /\ InOrder'
         /\ \A p \in Processes : Ahead(p)' => Ahead(p)
<1>1. /\ round \in 1 .. Rounds /\ round' = round + 1 /\ slot' = 1
      /\ phase' = IF round < Rounds THEN "start" ELSE "stopped"
  BY Bounds DEF IInv, TypeOK, InOrder, NextRound
<1>2. \A p \in Processes : Ahead(p)' => Ahead(p)
  <2> SUFFICES ASSUME NEW p \in Processes, Ahead(p)' PROVE Ahead(p)
    OBVIOUS
  <2>1. p[1] \in Nat /\ p[1] >= round'
    BY <1>1, Bounds, ProcessType DEF Ahead
  <2> QED BY <1>1, <2>1, Bounds DEF Ahead
<1> QED BY <1>1, <1>2, Bounds DEF InOrder

(* Spawning meets only processes that were never spawned before (Fresh).   *)
LEMMA SpawnExporterStep ==
  ASSUME IInv, SpawnExporter
  PROVE  IInv'
<1>1. PICK failed \in SUBSET Plan[round][slot].hosts :
        LET spawned == {p \in Processes : InRound(p) /\ p[2] = slot /\ p[3] \notin failed}
        IN /\ proc' = [p \in Processes |-> IF p \in spawned THEN "starting" ELSE proc[p]]
           /\ \/ /\ failed = {}
                 /\ task' = [p \in Processes |-> IF p \in spawned THEN "polling" ELSE task[p]]
                 /\ handles' = spawned \cup
                      {p \in handles : Plan[round][p[2]].name # Plan[round][slot].name}
                 /\ slot' = slot + 1
                 /\ UNCHANGED <<phase, round, failedBefore>>
              \/ failed # {} /\ FailRound /\ UNCHANGED task
  BY DEF SpawnExporter
<1> DEFINE spawned == {p \in Processes : InRound(p) /\ p[2] = slot /\ p[3] \notin failed}
<1>2. /\ phase = "spawn" /\ round \in 1 .. Rounds
      /\ slot \in 1 .. Len(Plan[round]) /\ slot \in 1 .. MaxExporters
      /\ UNCHANGED <<live_exporters, KILL_EXPORTERS, lockFile, pidFile>>
  BY Bounds, PlanType DEF SpawnExporter, IInv, TypeOK, InOrder
<1>3. \A p \in spawned : p \in Processes /\ p[1] = round /\ p[2] = slot /\ proc[p] = "none"
  <2> SUFFICES ASSUME NEW p \in spawned
               PROVE  p \in Processes /\ p[1] = round /\ p[2] = slot /\ proc[p] = "none"
    OBVIOUS
  <2>1. p \in Processes /\ p[1] = round /\ p[2] = slot
    BY DEF InRound
  <2>2. Ahead(p)
    BY <1>2, <2>1 DEF Ahead
  <2> QED BY <2>1, <2>2 DEF IInv, Fresh
<1>4. proc' = [p \in Processes |-> IF p \in spawned THEN "starting" ELSE proc[p]]
  BY <1>1
<1>5. Locked'
  <2>1. \A p \in Processes : Alive(p)' <=> Alive(p)
    BY <1>3, <1>4 DEF Alive
  <2> QED BY <1>2, <2>1, ProcessType DEF IInv, Locked, File
<1>6. CASE failed = {}
  <2>1. /\ task' = [p \in Processes |-> IF p \in spawned THEN "polling" ELSE task[p]]
        /\ handles' = spawned \cup
             {p \in handles : Plan[round][p[2]].name # Plan[round][slot].name}
        /\ slot' = slot + 1 /\ UNCHANGED <<phase, round, failedBefore>>
    BY <1>1, <1>6
  <2>2. \A p \in handles' : p \in Processes /\ p[1] = round /\ p[2] < slot'
    <3>1. \A p \in handles : p \in Processes /\ p[1] = round /\ p[2] < slot /\ p[2] \in Nat
      BY ProcessType DEF IInv, TypeOK, InRound
    <3> QED BY <1>2, <1>3, <2>1, <3>1
  <2>3. TypeOK'
    <3>1. handles' \subseteq Processes /\ \A p \in handles' : phase' = "spawn" /\ InRound(p)' /\ p[2] < slot'
      BY <1>2, <2>1, <2>2 DEF InRound
    <3>2. slot' \in 1 .. MaxExporters + 1
      BY <1>2, <2>1, Bounds
    <3>3. proc' \in [Processes -> {"none", "starting", "running", "refused",
                                   "orphaned", "killed", "exited"}]
      BY <1>4 DEF IInv, TypeOK
    <3>4. task' \in [Processes -> {"none", "polling", "killing", "done", "failed"}]
      BY <2>1 DEF IInv, TypeOK
    <3> QED BY <1>2, <2>1, <3>1, <3>2, <3>3, <3>4 DEF IInv, TypeOK
  <2>4. InOrder'
    BY <1>2, <2>1 DEF IInv, InOrder
  <2>5. Fresh'
    <3> SUFFICES ASSUME NEW p \in Processes, Ahead(p)'
                 PROVE  proc'[p] = "none" /\ task'[p] = "none"
      BY DEF Fresh
    <3>1. Ahead(p) /\ p \notin spawned
      BY <1>2, <1>3, <2>1, ProcessType DEF Ahead
    <3> QED BY <1>4, <2>1, <3>1 DEF IInv, Fresh
  <2> QED BY <1>5, <2>3, <2>4, <2>5 DEF IInv
<1>7. CASE failed # {}
  <2>1. NextRound /\ handles' = {} /\ failedBefore' = TRUE /\ UNCHANGED task
    BY <1>1, <1>7 DEF FailRound
  <2>2. /\ phase' \in {"start", "stopped"} /\ round' \in 1 .. Rounds + 1
        /\ slot' \in 1 .. MaxExporters + 1 /\ InOrder'
        /\ \A p \in Processes : Ahead(p)' => Ahead(p)
    BY <1>2, <2>1, NextRoundStep
  <2>3. TypeOK'
    <3>1. proc' \in [Processes -> {"none", "starting", "running", "refused",
                                   "orphaned", "killed", "exited"}]
      BY <1>4 DEF IInv, TypeOK
    <3> QED BY <1>2, <2>1, <2>2, <3>1 DEF IInv, TypeOK
  <2>4. Fresh'
    <3> SUFFICES ASSUME NEW p \in Processes, Ahead(p)'
                 PROVE  proc'[p] = "none" /\ task'[p] = "none"
      BY DEF Fresh
    <3>1. p \notin spawned
      <4>1. p[1] >= round' /\ p[1] \in Nat /\ round' = round + 1
        BY <1>2, <2>1, <2>2, ProcessType DEF Ahead, NextRound
      <4> QED BY <1>2, <1>3, <4>1
    <3> QED BY <1>4, <2>1, <2>2, <3>1 DEF IInv, Fresh
  <2> QED BY <1>5, <2>2, <2>3, <2>4 DEF IInv
<1> QED BY <1>6, <1>7

(* The other steps of main_loop touch neither a process nor its task.      *)
LEMMA LoopOnly ==
  ASSUME IInv, UNCHANGED <<task, world>>,
         \A p \in Processes : Ahead(p)' => Ahead(p)
  PROVE  Fresh' /\ Locked'
BY DEF IInv, Fresh, Locked, Alive, File, world

(* The end of a round, whether it failed or not, keeps the invariant.      *)
LEMMA RoundEndStep ==
  ASSUME IInv, UNCHANGED <<task, world>>, NextRound, phase # "stopped",
         handles' \subseteq handles, phase = "spawn" => handles' = {},
         live_exporters' \subseteq live_exporters,
         failedBefore' \in BOOLEAN, KILL_EXPORTERS' = KILL_EXPORTERS
  PROVE  IInv'
<1>1. /\ phase' \in {"start", "stopped"} /\ round' \in 1 .. Rounds + 1
      /\ slot' \in 1 .. MaxExporters + 1 /\ InOrder'
      /\ \A p \in Processes : Ahead(p)' => Ahead(p)
  BY NextRoundStep
<1>2. handles' = {}
  BY DEF IInv, TypeOK
<1>3. TypeOK'
  BY <1>1, <1>2 DEF IInv, TypeOK, world
<1> QED BY <1>1, <1>3, LoopOnly DEF IInv

(* Every step of main_loop keeps the invariant.                            *)
LEMMA MainLoopStep == IInv /\ MainLoop => IInv'
<1> SUFFICES ASSUME IInv, MainLoop PROVE IInv'
  OBVIOUS
<1>1. CASE SetupExporters
  <2>1. TypeOK' /\ InOrder'
    BY <1>1 DEF SetupExporters, IInv, TypeOK, InOrder, InRound, world
  <2>2. \A p \in Processes : Ahead(p)' => Ahead(p)
    BY <1>1 DEF SetupExporters, Ahead
  <2> QED BY <1>1, <2>1, <2>2, LoopOnly DEF IInv, SetupExporters
<1>2. CASE SpawnExporter
  BY <1>2, SpawnExporterStep
<1>3. CASE RegisterExporters
  <2>1. TypeOK' /\ InOrder'
    BY <1>3 DEF RegisterExporters, IInv, TypeOK, InOrder, InRound, world
  <2>2. \A p \in Processes : Ahead(p)' => Ahead(p)
    BY <1>3 DEF RegisterExporters, Ahead
  <2> QED BY <1>3, <2>1, <2>2, LoopOnly DEF IInv, RegisterExporters
<1>4. CASE Settle
  <2>1. TypeOK' /\ InOrder'
    BY <1>4 DEF Settle, IInv, TypeOK, InOrder, InRound, world
  <2>2. \A p \in Processes : Ahead(p)' => Ahead(p)
    BY <1>4 DEF Settle, Ahead
  <2> QED BY <1>4, <2>1, <2>2, LoopOnly DEF IInv, Settle
<1>5. CASE RunScripts
  <2>1. TypeOK' /\ InOrder'
    BY <1>5 DEF RunScripts, IInv, TypeOK, InOrder, InRound, world
  <2>2. \A p \in Processes : Ahead(p)' => Ahead(p)
    BY <1>5 DEF RunScripts, Ahead
  <2> QED BY <1>5, <2>1, <2>2, LoopOnly DEF IInv, RunScripts
<1>6. CASE SignalExporters
  <2>1. TypeOK' /\ InOrder'
    BY <1>6 DEF SignalExporters, IInv, TypeOK, InOrder, InRound, world
  <2>2. \A p \in Processes : Ahead(p)' => Ahead(p)
    BY <1>6 DEF SignalExporters, Ahead
  <2> QED BY <1>6, <2>1, <2>2, LoopOnly DEF IInv, SignalExporters
<1>7. CASE AwaitExporter
  <2>1. CASE FailRound
    BY <1>7, <2>1, RoundEndStep DEF AwaitExporter, FailRound, IInv, TypeOK
  <2>2. CASE /\ live_exporters' \subseteq live_exporters
             /\ UNCHANGED <<phase, round, slot, handles, failedBefore, KILL_EXPORTERS, task, world>>
    <3>1. TypeOK' /\ InOrder'
      BY <2>2 DEF IInv, TypeOK, InOrder, InRound, world
    <3>2. \A p \in Processes : Ahead(p)' => Ahead(p)
      BY <2>2 DEF Ahead
    <3> QED BY <2>2, <3>1, <3>2, LoopOnly DEF IInv
  <2> QED BY <1>7, <2>1, <2>2 DEF AwaitExporter
<1>8. CASE ExportersStopped
  <2>1. TypeOK' /\ InOrder'
    BY <1>8 DEF ExportersStopped, IInv, TypeOK, InOrder, InRound, world
  <2>2. \A p \in Processes : Ahead(p)' => Ahead(p)
    BY <1>8 DEF ExportersStopped, Ahead
  <2> QED BY <1>8, <2>1, <2>2, LoopOnly DEF IInv, ExportersStopped
<1>9. CASE CollectResults
  BY <1>9, RoundEndStep DEF CollectResults, IInv, TypeOK
<1>10. CASE StageError
  BY <1>10, RoundEndStep DEF StageError, FailRound, IInv, TypeOK
<1> QED BY <1>1, <1>2, <1>3, <1>4, <1>5, <1>6, <1>7, <1>8, <1>9, <1>10 DEF MainLoop

-----------------------------------------------------------------------------
(* Steps of the background tasks and of the processes.                     *)

(* A step of a task, a shell or an exporter leaves main_loop where it is.  *)
LEMMA ProcessStep ==
  ASSUME IInv, NEW p \in Processes,
         TaskStep(p) \/ Launch(p) \/ Exit(p)
  PROVE  IInv'
<1> USE DEF loop, world
<1>1. UNCHANGED loop /\ InOrder' /\ \A q \in Processes : Ahead(q)' <=> Ahead(q)
  BY DEF TaskStep, SeeFlag, KillRemote, KillLocal, Launch, Exit, IInv, InOrder, Ahead
<1>2. File(p) \in Files /\ p # NoProcess /\ \A q \in Processes : File(q) \in Files /\ q # NoProcess
  BY ProcessType
<1>3. \A q \in Processes : File(q)' = File(q)
  BY DEF File
<1>4. CASE SeeFlag(p)
  <2>1. TypeOK' /\ Locked'
    BY <1>1, <1>3, <1>4 DEF SeeFlag, IInv, TypeOK, InRound, Locked, Alive
  <2>2. Fresh'
    BY <1>1, <1>4 DEF SeeFlag, IInv, TypeOK, Fresh
  <2> QED BY <1>1, <2>1, <2>2 DEF IInv
<1>5. CASE KillRemote(p)
  <2>1. /\ task' \in [Processes -> {"none", "polling", "killing", "done", "failed"}]
        /\ \A q \in Processes : task[q] = "none" => task'[q] = "none"
    BY <1>5 DEF KillRemote, IInv, TypeOK
  <2> DEFINE target == pidFile[File(p)]
  <2>2. CASE /\ target # NoProcess /\ lockFile[File(p)] = target
             /\ proc' = [proc EXCEPT ![target] = "killed"]
             /\ lockFile' = [lockFile EXCEPT ![File(p)] = NoProcess]
    <3>1. target \in Processes /\ File(target) = File(p) /\ Alive(target)
      BY <1>2, <2>2 DEF IInv, TypeOK, Locked
    <3>2. TypeOK'
      BY <1>1, <1>2, <1>5, <2>1, <2>2, <3>1 DEF KillRemote, IInv, TypeOK, InRound
    <3>3. Locked'
      BY <1>2, <1>3, <2>2, <3>1 DEF IInv, TypeOK, Locked, Alive
    <3>4. Fresh'
      BY <1>1, <2>1, <2>2, <3>1 DEF IInv, TypeOK, Fresh, Alive
    <3> QED BY <1>1, <3>2, <3>3, <3>4 DEF IInv
  <2>3. CASE UNCHANGED <<proc, lockFile>>
    <3>1. TypeOK'
      BY <1>1, <1>5, <2>1, <2>3 DEF KillRemote, IInv, TypeOK, InRound
    <3>2. Locked' /\ Fresh'
      BY <1>1, <1>3, <2>1, <2>3 DEF IInv, Locked, Fresh, Alive
    <3> QED BY <1>1, <3>1, <3>2 DEF IInv
  <2> QED BY <1>5, <2>2, <2>3 DEF KillRemote
<1>6. CASE KillLocal(p)
  <2>1. TypeOK'
    BY <1>1, <1>6 DEF KillLocal, IInv, TypeOK, InRound
  <2>2. Locked'
    <3>1. \A q \in Processes : Alive(q)' <=> Alive(q)
      BY <1>6 DEF KillLocal, IInv, TypeOK, Alive
    <3> QED BY <1>3, <1>6, <3>1 DEF KillLocal, IInv, Locked
  <2>3. Fresh'
    BY <1>1, <1>6 DEF KillLocal, IInv, TypeOK, Fresh
  <2> QED BY <1>1, <2>1, <2>2, <2>3 DEF IInv
<1>7. CASE Launch(p)
  <2>1. CASE /\ lockFile[File(p)] = NoProcess
             /\ lockFile' = [lockFile EXCEPT ![File(p)] = p]
             /\ pidFile' = IF p[1] \in Spaced THEN pidFile ELSE [pidFile EXCEPT ![File(p)] = p]
             /\ proc' = [proc EXCEPT ![p] = "running"]
    <3>1. TypeOK'
      BY <1>1, <1>2, <1>7, <2>1 DEF Launch, IInv, TypeOK, InRound
    <3>2. Locked'
      BY <1>2, <1>3, <2>1 DEF IInv, TypeOK, Locked, Alive
    <3>3. Fresh'
      BY <1>1, <1>7, <2>1 DEF Launch, IInv, TypeOK, Fresh
    <3> QED BY <1>1, <3>1, <3>2, <3>3 DEF IInv
  <2>2. CASE proc' = [proc EXCEPT ![p] = "refused"] /\ UNCHANGED <<lockFile, pidFile>>
    <3>1. TypeOK'
      BY <1>1, <1>7, <2>2 DEF Launch, IInv, TypeOK, InRound
    <3>2. Locked' /\ Fresh'
      BY <1>1, <1>2, <1>3, <1>7, <2>2 DEF Launch, IInv, TypeOK, Locked, Fresh, Alive
    <3> QED BY <1>1, <3>1, <3>2 DEF IInv
  <2> QED BY <1>7, <2>1, <2>2 DEF Launch
<1>8. CASE Exit(p)
  <2>1. TypeOK'
    BY <1>1, <1>2, <1>8 DEF Exit, IInv, TypeOK, InRound
  <2>2. Locked'
    BY <1>2, <1>3, <1>8 DEF Exit, IInv, TypeOK, Locked, Alive
  <2>3. Fresh'
    BY <1>1, <1>8 DEF Exit, IInv, TypeOK, Fresh, Alive
  <2> QED BY <1>1, <2>1, <2>2, <2>3 DEF IInv
<1> QED BY <1>4, <1>5, <1>6, <1>7, <1>8 DEF TaskStep

(* Every step keeps the invariant.                                         *)
LEMMA NextInv == IInv /\ [Next]_vars => IInv'
<1> SUFFICES ASSUME IInv, [Next]_vars PROVE IInv'
  OBVIOUS
<1>1. CASE UNCHANGED vars
  BY <1>1 DEF vars, loop, world, IInv, TypeOK, InOrder, Fresh, Locked, Ahead, Alive, File, InRound
<1> QED BY <1>1, MainLoopStep, ProcessStep DEF Next

-----------------------------------------------------------------------------
(* The variables keep their types, whatever fails and for every plan.      *)
THEOREM TypeCorrect == Spec => []TypeOK
<1>1. IInv => TypeOK
  BY DEF IInv
<1> QED BY <1>1, InitInv, NextInv, PTL DEF Spec

(* An exporter never runs twice on a host, however many rounds failed and  *)
(* left their tasks and processes behind.                                  *)
THEOREM AdvisoryLock == Spec => []OneInstance
<1>1. IInv => OneInstance
  BY DEF IInv, Locked, OneInstance
<1> QED BY <1>1, InitInv, NextInv, PTL DEF Spec

-----------------------------------------------------------------------------
(* A kill that failed stays failed: no step gives its task another state.  *)
LEMMA FailuresStay == IInv /\ [Next]_vars /\ KillsWorked' => KillsWorked
<1> SUFFICES ASSUME IInv, [Next]_vars, NEW p \in Processes, task[p] = "failed"
             PROVE  task'[p] = "failed"
  BY DEF KillsWorked
<1>1. CASE SpawnExporter
  <2>1. PICK failed \in SUBSET Plan[round][slot].hosts :
          \/ UNCHANGED task
          \/ task' = [q \in Processes |->
                        IF q \in {r \in Processes : InRound(r) /\ r[2] = slot /\ r[3] \notin failed}
                          THEN "polling" ELSE task[q]]
    BY <1>1 DEF SpawnExporter
  <2>2. ~Ahead(p)
    BY DEF IInv, Fresh
  <2>3. ~(InRound(p) /\ p[2] = slot)
    BY <1>1, <2>2, ProcessType DEF SpawnExporter, Ahead, InRound, IInv, TypeOK
  <2> QED BY <2>1, <2>3
<1>2. CASE \E q \in Processes : TaskStep(q)
  BY <1>2 DEF TaskStep, SeeFlag, KillRemote, KillLocal, IInv, TypeOK
<1>3. CASE UNCHANGED task
  BY <1>3
<1> QED BY <1>1, <1>2, <1>3 DEF Next, MainLoop, SetupExporters, RegisterExporters, Settle,
           RunScripts, SignalExporters, AwaitExporter, ExportersStopped, CollectResults,
           StageError, Launch, Exit, vars

(* The flag is set only while main_loop waits for the tasks that are to    *)
(* see it, unless a kill failed: for each step.                            *)
LEMMA FlagStep == IInv /\ FlagOnlyWhileStopping /\ [Next]_vars => FlagOnlyWhileStopping'
<1> SUFFICES ASSUME IInv, FlagOnlyWhileStopping, [Next]_vars, KILL_EXPORTERS', KillsWorked'
             PROVE  phase' = "drain"
  BY DEF FlagOnlyWhileStopping
<1>1. KillsWorked
  BY FailuresStay
<1>2. CASE SignalExporters
  BY <1>2 DEF SignalExporters
<1>3. CASE AwaitExporter
  <2>1. CASE FailRound
    BY <1>1, <1>3, <2>1 DEF AwaitExporter, KillsWorked, IInv, TypeOK, FailRound, NextRound
  <2> QED BY <1>1, <1>3, <2>1 DEF AwaitExporter, FlagOnlyWhileStopping, KillsWorked, IInv, TypeOK
<1>4. CASE /\ UNCHANGED KILL_EXPORTERS
           /\ phase = "drain" => UNCHANGED phase
  BY <1>1, <1>4 DEF FlagOnlyWhileStopping
<1>5. CASE ExportersStopped
  BY <1>5 DEF ExportersStopped
<1>6. CASE MainLoop
  BY <1>2, <1>3, <1>4, <1>5, <1>6 DEF MainLoop, SetupExporters, SpawnExporter,
     RegisterExporters, Settle, RunScripts, CollectResults, StageError
<1>7. CASE \E p \in Processes : TaskStep(p) \/ Launch(p) \/ Exit(p)
  BY <1>4, <1>7 DEF TaskStep, SeeFlag, KillRemote, KillLocal, Launch, Exit, loop
<1>8. CASE UNCHANGED vars
  BY <1>4, <1>8 DEF vars, loop
<1> QED BY <1>6, <1>7, <1>8 DEF Next

(* The flag is set only while main_loop waits for the tasks that are to    *)
(* see it, unless a kill failed.                                           *)
THEOREM FlagOfThisRound == Spec => []FlagOnlyWhileStopping
<1>1. Init => FlagOnlyWhileStopping
  BY DEF Init, FlagOnlyWhileStopping
<1> QED BY <1>1, FlagStep, InitInv, NextInv, PTL DEF Spec

(* The tasks of a round that still spawns are not killing either.          *)
NoneKills ==
  phase \in {"spawn", "settle", "setups", "execute", "teardowns"} =>
    \A p \in Processes : InRound(p) => task[p] \in {"none", "polling"}

LEMMA NoneKillsStep ==
  IInv /\ FlagOnlyWhileStopping /\ (KillsWorked => NoneKills) /\ [Next]_vars
    => (KillsWorked => NoneKills)'
<1> SUFFICES ASSUME IInv, FlagOnlyWhileStopping, KillsWorked => NoneKills, [Next]_vars, KillsWorked',
                    phase' \in {"spawn", "settle", "setups", "execute", "teardowns"},
                    NEW p \in Processes, InRound(p)'
             PROVE  task'[p] \in {"none", "polling"}
  BY DEF NoneKills
<1>1. KillsWorked /\ NoneKills
  BY FailuresStay
<1>2. CASE SetupExporters
  <2>1. Ahead(p)
    BY <1>2, ProcessType DEF SetupExporters, Ahead, InRound, IInv, InOrder
  <2> QED BY <1>2, <2>1 DEF SetupExporters, IInv, Fresh
<1>3. CASE SpawnExporter
  <2>1. PICK failed \in SUBSET Plan[round][slot].hosts :
          \/ failed # {} /\ FailRound
          \/ /\ UNCHANGED <<phase, round>>
             /\ task' = [q \in Processes |->
                          IF q \in {r \in Processes : InRound(r) /\ r[2] = slot /\ r[3] \notin failed}
                            THEN "polling" ELSE task[q]]
    BY <1>3 DEF SpawnExporter
  <2>2. ~FailRound
    BY DEF FailRound, NextRound
  <2> QED BY <1>1, <1>3, <2>1, <2>2 DEF SpawnExporter, NoneKills, InRound
<1>4. CASE UNCHANGED <<task, round>> /\ phase \in {"spawn", "settle", "setups", "execute", "teardowns"}
  BY <1>1, <1>4 DEF NoneKills, InRound
<1>5. CASE MainLoop
  BY <1>2, <1>3, <1>4, <1>5 DEF MainLoop, RegisterExporters, Settle, RunScripts,
     SignalExporters, AwaitExporter, ExportersStopped, CollectResults, StageError,
     FailRound, NextRound
<1>6. ASSUME NEW q \in Processes, TaskStep(q) PROVE task'[p] \in {"none", "polling"}
  <2>1. UNCHANGED <<phase, round>> /\ InRound(p) /\ task[p] \in {"none", "polling"}
    BY <1>1, <1>6 DEF TaskStep, SeeFlag, KillRemote, KillLocal, loop, NoneKills, InRound
  <2>2. ~SeeFlag(q)
    BY <1>1, <2>1 DEF SeeFlag, FlagOnlyWhileStopping
  <2>3. p # q
    BY <1>6, <2>1, <2>2 DEF TaskStep, KillRemote, KillLocal
  <2> QED BY <1>6, <2>1, <2>2, <2>3 DEF TaskStep, KillRemote, KillLocal, IInv, TypeOK
<1>7. CASE \E q \in Processes : Launch(q) \/ Exit(q)
  BY <1>4, <1>7 DEF Launch, Exit, loop
<1>8. CASE UNCHANGED vars
  BY <1>4, <1>8 DEF vars, loop
<1> QED BY <1>5, <1>6, <1>7, <1>8 DEF Next

(* Only the flag that a failed kill leaves set lets a task kill its        *)
(* exporter while the scripts of the round run: as long as every kill      *)
(* reaches its host none does, for any plan, and whatever stages and       *)
(* spawns fail or detach tasks of earlier rounds (run.rs:486-501).         *)
THEOREM UndisturbedWhileKillsWork == Spec => [](KillsWorked => Undisturbed)
<1>1. Init => FlagOnlyWhileStopping /\ (KillsWorked => NoneKills)
  BY DEF Init, FlagOnlyWhileStopping, NoneKills
<1>2. (KillsWorked => NoneKills) => (KillsWorked => Undisturbed)
  BY DEF NoneKills, Undisturbed
<1> QED BY <1>1, <1>2, FlagStep, NoneKillsStep, InitInv, NextInv, PTL DEF Spec

-----------------------------------------------------------------------------
(* RemoteStoppedBeforeCollect: what is known of the exporters of a round   *)
(* from their spawning to the collection.                                  *)

(* No round has two exporters of one name.                                 *)
DistinctExporters ==
  \A n \in 1 .. Rounds : \A i, j \in DOMAIN Plan[n] : Plan[n][i].name = Plan[n][j].name => i = j

(* The holder of a lock is the process that its pid file names, if it      *)
(* could write one.                                                        *)
PidNames ==
  \A f \in Files :
    lockFile[f] # NoProcess /\ lockFile[f][1] \notin Spaced => pidFile[f] = lockFile[f]

Measuring == {"setups", "execute", "teardowns", "stop"}

Settled ==
  phase \in Measuring \cup {"drain", "collect"} => \A p \in Processes : proc[p] # "starting"

(* No task of the round is past polling before the flag is set.            *)
Waiting ==
  KillsWorked /\ phase \notin {"drain", "collect", "stopped"} =>
    \A p \in Processes : InRound(p) => task[p] \in {"none", "polling"}

(* Each task of the round is one that main_loop still has, or is done.     *)
Registered ==
  \A p \in Processes : InRound(p) =>
    /\ phase = "spawn" /\ p[2] < slot => p \in handles
    /\ phase \in Measuring \cup {"settle"} => p \in live_exporters
    /\ phase = "drain" => p \in live_exporters \/ task[p] = "done"
    /\ phase = "collect" => task[p] = "done"

(* A task that is done leaves its lock free, or with a process that could  *)
(* not write its pid.                                                      *)
FreeOfPids(f) == lockFile[f] = NoProcess \/ lockFile[f][1] \in Spaced

Freed ==
  KillsWorked /\ phase \in {"drain", "collect"} =>
    \A p \in Processes :
      InRound(p) /\ task[p] = "done" /\ p[3] \notin LocalHosts => FreeOfPids(File(p))

RInv == FlagOnlyWhileStopping /\ PidNames /\ Settled /\ Waiting /\ Registered /\ Freed

(* Who writes locks and pid files.                                         *)
LEMMA PidNamesStep == IInv /\ RInv /\ [Next]_vars => PidNames'
<1> SUFFICES ASSUME IInv, RInv, [Next]_vars,
                    NEW f \in Files, lockFile'[f] # NoProcess, lockFile'[f][1] \notin Spaced
             PROVE  pidFile'[f] = lockFile'[f]
  BY DEF PidNames
<1>1. CASE UNCHANGED <<lockFile, pidFile>>
  BY <1>1 DEF RInv, PidNames
<1>2. ASSUME NEW p \in Processes, Launch(p) PROVE pidFile'[f] = lockFile'[f]
  <2>1. CASE /\ lockFile' = [lockFile EXCEPT ![File(p)] = p]
             /\ pidFile' = IF p[1] \in Spaced THEN pidFile ELSE [pidFile EXCEPT ![File(p)] = p]
    <3>1. File(p) \in Files /\ lockFile \in [Files -> Processes \cup {NoProcess}]
          /\ pidFile \in [Files -> Processes \cup {NoProcess}]
      BY ProcessType DEF IInv, TypeOK
    <3>2. CASE f = File(p)
      <4>1. lockFile'[f] = p
        BY <2>1, <3>1, <3>2
      <4> QED BY <2>1, <3>1, <3>2, <4>1
    <3>3. CASE f # File(p)
      <4>1. lockFile'[f] = lockFile[f] /\ pidFile'[f] = pidFile[f]
        BY <2>1, <3>1, <3>3
      <4> QED BY <4>1 DEF RInv, PidNames
    <3> QED BY <3>2, <3>3
  <2> QED BY <1>1, <1>2, <2>1 DEF Launch
<1>3. ASSUME NEW p \in Processes, KillRemote(p) \/ Exit(p) PROVE pidFile'[f] = lockFile'[f]
  <2>1. UNCHANGED pidFile /\ lockFile'[f] = lockFile[f]
    BY <1>3, ProcessType DEF KillRemote, Exit, IInv, TypeOK
  <2> QED BY <2>1 DEF RInv, PidNames
<1> QED BY <1>1, <1>2, <1>3 DEF Next, MainLoop, SetupExporters, SpawnExporter, RegisterExporters,
           Settle, RunScripts, SignalExporters, AwaitExporter, ExportersStopped, CollectResults,
           StageError, TaskStep, SeeFlag, KillLocal, world, vars

(* Nothing is spawned once the five seconds are over.                      *)
LEMMA SettledStep == SettleInTime /\ IInv /\ RInv /\ [Next]_vars => Settled'
<1> SUFFICES ASSUME SettleInTime, IInv, Settled, [Next]_vars,
                    phase' \in Measuring \cup {"drain", "collect"}, NEW p \in Processes
             PROVE  proc'[p] # "starting"
  BY DEF Settled, RInv
<1>1. CASE Settle
  BY <1>1 DEF Settle, world
<1>2. CASE UNCHANGED proc /\ phase \in Measuring \cup {"drain", "collect"}
  BY <1>2 DEF Settled
<1>3. CASE SpawnExporter
  BY <1>3 DEF SpawnExporter, FailRound, NextRound, Measuring
<1>4. CASE MainLoop
  BY <1>1, <1>2, <1>3, <1>4 DEF MainLoop, SetupExporters, RegisterExporters, RunScripts,
     SignalExporters, AwaitExporter, ExportersStopped, CollectResults, StageError, FailRound,
     NextRound, world, Measuring
<1>5. ASSUME NEW q \in Processes, TaskStep(q) \/ Launch(q) \/ Exit(q)
      PROVE  proc'[p] # "starting"
  <2>1. phase' = phase
    BY <1>5 DEF TaskStep, SeeFlag, KillRemote, KillLocal, Launch, Exit, loop
  <2>2. proc'[p] = "starting" => proc[p] = "starting"
    BY <1>5 DEF TaskStep, SeeFlag, KillRemote, KillLocal, Launch, Exit, IInv, TypeOK, world
  <2> QED BY <2>1, <2>2 DEF Settled
<1> QED BY <1>2, <1>4, <1>5 DEF Next, vars, world, loop

(* The flag is what tasks wait for.                                        *)
LEMMA WaitingStep == IInv /\ RInv /\ [Next]_vars => Waiting'
<1> SUFFICES ASSUME IInv, RInv, [Next]_vars, KillsWorked',
                    phase' \notin {"drain", "collect", "stopped"}, NEW p \in Processes, InRound(p)'
             PROVE  task'[p] \in {"none", "polling"}
  BY DEF Waiting
<1>1. KillsWorked
  BY FailuresStay
<1>2. CASE UNCHANGED <<phase, round, task>>
  BY <1>1, <1>2 DEF RInv, Waiting, InRound
<1>3. ASSUME NextRound, UNCHANGED task, phase # "stopped" PROVE task'[p] \in {"none", "polling"}
  <2>1. Ahead(p)
    BY <1>3, ProcessType, Bounds DEF NextRound, Ahead, InRound, IInv, TypeOK
  <2> QED BY <1>3, <2>1 DEF IInv, Fresh
<1>4. CASE SpawnExporter
  <2>1. PICK failed \in SUBSET Plan[round][slot].hosts :
          \/ /\ task' = [q \in Processes |->
                  IF q \in {r \in Processes : InRound(r) /\ r[2] = slot /\ r[3] \notin failed}
                    THEN "polling" ELSE task[q]]
             /\ UNCHANGED <<phase, round>>
          \/ FailRound /\ UNCHANGED task
    BY <1>4 DEF SpawnExporter
  <2>2. phase = "spawn"
    BY <1>4 DEF SpawnExporter
  <2> QED BY <1>1, <1>3, <2>1, <2>2 DEF FailRound, RInv, Waiting, InRound
<1>5. CASE MainLoop
  <2>1. CASE /\ UNCHANGED <<round, task>> /\ phase \notin {"drain", "collect", "stopped"}
    BY <1>1, <2>1 DEF RInv, Waiting, InRound
  <2> QED BY <1>2, <1>3, <1>4, <1>5, <2>1 DEF MainLoop, SetupExporters, RegisterExporters, Settle,
             RunScripts, SignalExporters, AwaitExporter, ExportersStopped, CollectResults,
             StageError, FailRound
<1>6. ASSUME NEW q \in Processes, TaskStep(q) PROVE task'[p] \in {"none", "polling"}
  <2>1. UNCHANGED <<phase, round>> /\ \A r \in Processes \ {q} : task'[r] = task[r]
    BY <1>6 DEF TaskStep, SeeFlag, KillRemote, KillLocal, loop, IInv, TypeOK
  <2>2. task[p] \in {"none", "polling"}
    BY <1>1, <2>1 DEF RInv, Waiting, InRound
  <2>3. CASE p = q
    BY <1>1, <1>6, <2>1, <2>2, <2>3 DEF TaskStep, SeeFlag, KillRemote, KillLocal, RInv,
       FlagOnlyWhileStopping
  <2> QED BY <2>1, <2>2, <2>3
<1> QED BY <1>2, <1>5, <1>6 DEF Next, Launch, Exit, vars, loop

(* Every handle of a plan without two exporters of one name is kept.       *)
LEMMA RegisteredStep == DistinctExporters /\ IInv /\ RInv /\ [Next]_vars => Registered'
<1> SUFFICES ASSUME DistinctExporters, IInv, RInv, [Next]_vars,
                    NEW p \in Processes, InRound(p)'
             PROVE  /\ phase' = "spawn" /\ p[2] < slot' => p \in handles'
                    /\ phase' \in Measuring \cup {"settle"} => p \in live_exporters'
                    /\ phase' = "drain" => p \in live_exporters' \/ task'[p] = "done"
                    /\ phase' = "collect" => task'[p] = "done"
  BY DEF Registered
<1>p. p[2] \in Nat /\ p[2] >= 1 /\ p[1] \in 1 .. Rounds /\ p[2] \in 1 .. Len(Plan[p[1]])
  BY ProcessType
<1>1. CASE UNCHANGED <<phase, round, slot, handles, live_exporters>>
           /\ (task[p] = "done" => task'[p] = "done")
  BY <1>1 DEF RInv, Registered, InRound
<1>2. CASE NextRound
  BY <1>2 DEF NextRound, Measuring
<1>3. CASE SpawnExporter
  <2>1. PICK failed \in SUBSET Plan[round][slot].hosts :
          LET spawned == {q \in Processes : InRound(q) /\ q[2] = slot /\ q[3] \notin failed}
          IN \/ /\ failed = {}
                /\ handles' = spawned \cup
                     {q \in handles : Plan[round][q[2]].name # Plan[round][slot].name}
                /\ slot' = slot + 1
                /\ UNCHANGED <<phase, round, failedBefore>>
             \/ FailRound
    BY <1>3 DEF SpawnExporter
  <2>2. CASE FailRound
    BY <1>2, <2>2 DEF FailRound
  <2>3. CASE /\ failed = {} /\ slot' = slot + 1 /\ UNCHANGED <<phase, round, failedBefore>>
             /\ handles' = {q \in Processes : InRound(q) /\ q[2] = slot /\ q[3] \notin failed} \cup
                  {q \in handles : Plan[round][q[2]].name # Plan[round][slot].name}
    <3>1. phase = "spawn" /\ phase' = "spawn" /\ p[1] = round /\ slot \in DOMAIN Plan[round] /\ slot \in Nat
      BY <1>3, <2>3 DEF SpawnExporter, InRound, IInv, TypeOK
    <3>2. CASE p[2] = slot
      BY <2>3, <3>1, <3>2 DEF InRound, Measuring
    <3>3. CASE p[2] < slot
      <4>1. p \in handles
        BY <3>1, <3>3 DEF RInv, Registered, InRound
      <4>2. p[2] \in DOMAIN Plan[round] /\ round \in 1 .. Rounds
        BY <3>1, <1>p DEF Processes
      <4>3. Plan[round][p[2]].name # Plan[round][slot].name
        BY <3>1, <3>3, <4>2 DEF DistinctExporters
      <4> QED BY <2>3, <3>1, <4>1, <4>3 DEF Measuring
    <3> QED BY <1>p, <2>3, <3>1, <3>2, <3>3 DEF Measuring
  <2> QED BY <2>1, <2>2, <2>3
<1>4. CASE RegisterExporters
  <2>1. p[2] < slot
    BY <1>4, <1>p, PlanType DEF RegisterExporters, InRound, IInv, TypeOK
  <2> QED BY <1>4, <2>1 DEF RegisterExporters, RInv, Registered, InRound, Measuring
<1>5. CASE AwaitExporter
  <2>1. CASE FailRound
    BY <1>2, <2>1 DEF FailRound
  <2> QED BY <1>5, <2>1 DEF AwaitExporter, RInv, Registered, InRound, Measuring, IInv, TypeOK
<1>6. CASE ExportersStopped
  BY <1>6 DEF ExportersStopped, RInv, Registered, InRound, Measuring
<1>7. CASE SetupExporters
  BY <1>7, <1>p DEF SetupExporters, IInv, InOrder, Measuring
<1>8. CASE Settle \/ RunScripts \/ SignalExporters
  BY <1>8 DEF Settle, RunScripts, SignalExporters, RInv, Registered, InRound, Measuring
<1>9. CASE MainLoop
  BY <1>2, <1>3, <1>4, <1>5, <1>6, <1>7, <1>8, <1>9 DEF MainLoop, CollectResults, StageError, FailRound
<1>10. ASSUME NEW q \in Processes, TaskStep(q) PROVE task[p] = "done" => task'[p] = "done"
  BY <1>10 DEF TaskStep, SeeFlag, KillRemote, KillLocal, IInv, TypeOK
<1> QED BY <1>1, <1>9, <1>10 DEF Next, TaskStep, SeeFlag, KillRemote, KillLocal, Launch, Exit, vars, loop

(* A kill that worked frees the lock, and nobody is left to take it.       *)
LEMMA FreedStep == SettleInTime /\ IInv /\ RInv /\ [Next]_vars => Freed'
<1> SUFFICES ASSUME SettleInTime, IInv, RInv, [Next]_vars, KillsWorked',
                    phase' \in {"drain", "collect"},
                    NEW p \in Processes, InRound(p)', task'[p] = "done", p[3] \notin LocalHosts
             PROVE  FreeOfPids(File(p))'
  BY DEF Freed, File
<1>1. KillsWorked
  BY FailuresStay
<1>2. File(p) \in Files
  BY ProcessType
<1>3. CASE SignalExporters
  BY <1>1, <1>3 DEF SignalExporters, RInv, Waiting, InRound
<1>4. CASE UNCHANGED <<round, task, lockFile>> /\ phase \in {"drain", "collect"}
  <2>1. File(p)' = File(p)
    BY DEF File
  <2> QED BY <1>1, <1>4, <2>1 DEF RInv, Freed, FreeOfPids, InRound
<1>5. CASE MainLoop
  BY <1>3, <1>4, <1>5 DEF MainLoop, SetupExporters, SpawnExporter, RegisterExporters, Settle,
     RunScripts, AwaitExporter, ExportersStopped, CollectResults, StageError, FailRound,
     NextRound, world
<1>6. ASSUME NEW q \in Processes, TaskStep(q) \/ Launch(q) \/ Exit(q)
      PROVE  FreeOfPids(File(p))'
  <2>1. UNCHANGED <<phase, round>> /\ File(p)' = File(p)
    BY <1>6 DEF TaskStep, SeeFlag, KillRemote, KillLocal, Launch, Exit, loop, File
  <2>2. proc[q] # "starting"
    BY <2>1 DEF RInv, Settled
  <2>3. lockFile'[File(p)] = lockFile[File(p)] \/ lockFile'[File(p)] = NoProcess
    BY <1>2, <1>6, <2>2 DEF TaskStep, SeeFlag, KillRemote, KillLocal, Launch, Exit, IInv, TypeOK, world
  <2>4. CASE task[p] = "done"
    BY <1>1, <2>1, <2>3, <2>4 DEF RInv, Freed, FreeOfPids, InRound
  <2>5. CASE task[p] # "done"
    <3>1. q = p /\ KillRemote(p)
      BY <1>6, <2>5 DEF TaskStep, SeeFlag, KillRemote, KillLocal, Launch, Exit, IInv, TypeOK
    <3>2. FreeOfPids(File(p)) \/ pidFile[File(p)] = lockFile[File(p)]
      BY <1>2 DEF RInv, PidNames, FreeOfPids
    <3>3. task'[p] = "done" /\ task'[p] # "failed"
      OBVIOUS
    <3>4. lockFile'[File(p)] = NoProcess \/ (UNCHANGED lockFile /\ FreeOfPids(File(p)))
      <4>1. CASE UNCHANGED lockFile
        BY <1>2, <3>1, <3>2, <3>3, <4>1 DEF KillRemote, IInv, TypeOK, FreeOfPids
      <4>2. CASE lockFile' = [lockFile EXCEPT ![File(p)] = NoProcess]
        BY <1>2, <4>2 DEF IInv, TypeOK
      <4> QED BY <3>1, <4>1, <4>2 DEF KillRemote
    <3> QED BY <2>1, <3>4 DEF FreeOfPids
  <2> QED BY <2>4, <2>5
<1> QED BY <1>4, <1>5, <1>6 DEF Next, vars, world, loop

(* What must be known holds at first.                                      *)
LEMMA InitRInv == Init => RInv
<1> SUFFICES ASSUME Init PROVE RInv
  OBVIOUS
<1>1. FlagOnlyWhileStopping /\ Settled /\ Freed
  BY DEF Init, FlagOnlyWhileStopping, Settled, Freed, Measuring
<1>2. PidNames
  BY DEF Init, PidNames
<1>3. Waiting
  BY DEF Init, Waiting
<1>4. Registered
  BY DEF Init, Registered, Measuring
<1> QED BY <1>1, <1>2, <1>3, <1>4 DEF RInv

(* What runs when results are collected is what no kill reaches.           *)
LEMMA NoneLeftAtCollect ==
  ASSUME IInv, RInv, KillsWorked, phase = "collect",
         NEW p \in Processes, Alive(p), OfTheRound(p)
  PROVE  Missed(p)
<1>1. PICK q \in Processes : InRound(q) /\ File(q) = File(p)
  BY DEF OfTheRound
<1>2. q[3] = p[3] /\ File(p) \in Files /\ p # NoProcess
  BY <1>1, ProcessType DEF File
<1>3. task[q] = "done"
  BY <1>1 DEF RInv, Registered, InRound
<1>4. p[3] \notin LocalHosts => FreeOfPids(File(p))
  BY <1>1, <1>2, <1>3 DEF RInv, Freed
<1>5. lockFile[File(p)] = p
  BY DEF IInv, Locked
<1> QED BY <1>2, <1>4, <1>5 DEF FreeOfPids, Missed

(* Whatever else fails, when a round collects its results none of its      *)
(* exporters runs on a remote host, but for instances that could not write *)
(* their pid: if every kill reached its host, five seconds were enough for *)
(* every shell to get going, and no round has two exporters of one name.   *)
THEOREM RemoteStopped ==
  ASSUME SettleInTime, DistinctExporters
  PROVE  Spec => []RemoteStoppedBeforeCollect
<1>1. RInv /\ IInv /\ [Next]_vars => RInv'
  BY FlagStep, PidNamesStep, SettledStep, WaitingStep, RegisteredStep, FreedStep DEF RInv
<1>2. IInv /\ RInv => RemoteStoppedBeforeCollect
  BY NoneLeftAtCollect DEF RemoteStoppedBeforeCollect
<1> QED BY <1>1, <1>2, InitRInv, InitInv, NextInv, PTL DEF Spec

-----------------------------------------------------------------------------
(* MeasuredUntilFailure: as long as no round failed, nothing of an earlier *)
(* round is left that could refuse or kill an exporter of this one.        *)

(* No exporter that a kill must miss is launched again on its host.        *)
NoneRelaunched ==
  \A p, q \in Processes : Missed(p) /\ p[1] < q[1] => File(p) # File(q)

Over ==
  ~failedBefore =>
    \A p \in Processes :
      p[1] < round => /\ task[p] = "done" /\ proc[p] # "starting"
                      /\ Alive(p) => Missed(p)

NoKillFailed == ~failedBefore /\ phase # "drain" => KillsWorked

Up ==
  ~failedBefore /\ phase \in {"spawn", "settle"} \cup Measuring =>
    \A p \in Processes :
      InRound(p) /\ (phase = "spawn" => p[2] < slot) => proc[p] \in {"starting", "running", "exited"}

FInv == Over /\ NoKillFailed /\ Up

(* A failure is never forgotten, and without one a round ends by           *)
(* collecting its results.                                                 *)
LEMMA NoFailureYet ==
  ASSUME IInv, [Next]_vars, ~failedBefore'
  PROVE  /\ ~failedBefore
         /\ CollectResults \/ round' = round
<1>1. failedBefore' = failedBefore \/ failedBefore' = TRUE
  BY DEF Next, MainLoop, SetupExporters, SpawnExporter, RegisterExporters, Settle, RunScripts,
     SignalExporters, AwaitExporter, ExportersStopped, CollectResults, StageError, FailRound,
     TaskStep, SeeFlag, KillRemote, KillLocal, Launch, Exit, vars, loop
<1>2. CollectResults \/ round' = round
  BY DEF Next, MainLoop, SetupExporters, SpawnExporter, RegisterExporters, Settle, RunScripts,
     SignalExporters, AwaitExporter, ExportersStopped, StageError, FailRound,
     TaskStep, SeeFlag, KillRemote, KillLocal, Launch, Exit, vars, loop
<1> QED BY <1>1, <1>2 DEF IInv, TypeOK

(* Outside of the stopping no task is about to kill.                       *)
LEMMA NobodyKills ==
  ASSUME IInv, RInv, FInv, ~failedBefore, phase # "drain", NEW p \in Processes
  PROVE  task[p] \in {"none", "polling", "done"}
<1>1. KillsWorked
  BY DEF FInv, NoKillFailed
<1>2. CASE p[1] < round
  BY <1>2 DEF FInv, Over
<1>3. CASE p[1] = round
  <2>1. CASE phase = "collect"
    BY <1>3, <2>1 DEF RInv, Registered, InRound
  <2>2. CASE phase = "stopped"
    BY <1>3, <2>2, ProcessType, Bounds DEF IInv, InOrder
  <2> QED BY <1>1, <1>3, <2>1, <2>2 DEF RInv, Waiting, InRound
<1>4. CASE p[1] > round
  BY <1>4 DEF IInv, Fresh, Ahead
<1> QED BY <1>2, <1>3, <1>4, ProcessType DEF IInv, TypeOK

(* What a round leaves behind when it collects: tasks that are done, and   *)
(* processes that no kill reaches.                                         *)
LEMMA OverStep ==
  ASSUME IInv, RInv, FInv, [Next]_vars
  PROVE  Over'
<1> SUFFICES ASSUME ~failedBefore', NEW p \in Processes, p[1] < round'
             PROVE  task'[p] = "done" /\ proc'[p] # "starting" /\ (Alive(p)' => Missed(p))
  BY DEF Over, Missed
<1>1. ~failedBefore /\ (CollectResults \/ round' = round)
  BY NoFailureYet
<1>2. p[1] \in Nat /\ round \in Nat
  BY ProcessType, Bounds DEF IInv, TypeOK
<1>3. CASE CollectResults
  <2>1. UNCHANGED <<task, proc>> /\ phase = "collect" /\ round' = round + 1
    BY <1>3 DEF CollectResults, NextRound, world
  <2>2. CASE p[1] < round
    BY <1>1, <2>1, <2>2 DEF FInv, Over, Alive
  <2>3. CASE p[1] = round
    <3>1. task[p] = "done" /\ proc[p] # "starting" /\ OfTheRound(p)
      BY <2>1, <2>3 DEF RInv, Registered, Settled, InRound, OfTheRound
    <3>2. Alive(p) => Missed(p)
      BY <1>1, <2>1, <3>1, NoneLeftAtCollect DEF FInv, NoKillFailed
    <3> QED BY <2>1, <3>1, <3>2 DEF Alive
  <2> QED BY <1>2, <2>1, <2>2, <2>3
<1>4. CASE round' = round
  <2>1. task[p] = "done" /\ proc[p] # "starting" /\ (Alive(p) => Missed(p))
    BY <1>1, <1>4 DEF FInv, Over
  <2> SUFFICES task'[p] = "done" /\ proc'[p] # "starting" /\ (Alive(p)' => Alive(p))
    BY <2>1
  <2>2. CASE SpawnExporter
    <3>1. PICK failed \in SUBSET Plan[round][slot].hosts :
            LET spawned == {q \in Processes : InRound(q) /\ q[2] = slot /\ q[3] \notin failed}
            IN /\ proc' = [q \in Processes |-> IF q \in spawned THEN "starting" ELSE proc[q]]
               /\ \/ task' = [q \in Processes |-> IF q \in spawned THEN "polling" ELSE task[q]]
                  \/ UNCHANGED task
      BY <2>2 DEF SpawnExporter
    <3>2. ~InRound(p)
      BY <1>2, <1>4 DEF InRound
    <3> QED BY <2>1, <3>1, <3>2 DEF Alive
  <2>3. CASE UNCHANGED <<task, proc>>
    BY <2>1, <2>3 DEF Alive
  <2>4. ASSUME NEW q \in Processes, SeeFlag(q) \/ KillLocal(q) \/ Launch(q) \/ Exit(q)
        PROVE  task'[p] = "done" /\ proc'[p] # "starting" /\ (Alive(p)' => Alive(p))
    BY <2>1, <2>4 DEF SeeFlag, KillLocal, Launch, Exit, IInv, TypeOK, Alive, world
  <2>5. ASSUME NEW q \in Processes, KillRemote(q)
        PROVE  task'[p] = "done" /\ proc'[p] # "starting" /\ (Alive(p)' => Alive(p))
    <3>1. task'[p] = "done"
      BY <2>1, <2>5 DEF KillRemote, IInv, TypeOK
    <3>2. \/ UNCHANGED proc
          \/ \E r \in Processes : proc' = [proc EXCEPT ![r] = "killed"]
      BY <2>5, ProcessType DEF KillRemote, IInv, TypeOK
    <3> QED BY <2>1, <3>1, <3>2 DEF IInv, TypeOK, Alive
  <2> QED BY <2>2, <2>3, <2>4, <2>5 DEF Next, MainLoop, SetupExporters, RegisterExporters,
             Settle, RunScripts, SignalExporters, AwaitExporter, ExportersStopped, CollectResults,
             StageError, TaskStep, vars, world
<1> QED BY <1>1, <1>3, <1>4

(* A kill that fails is noticed by the wait for its task.                  *)
LEMMA NoKillFailedStep ==
  ASSUME IInv, RInv, FInv, [Next]_vars
  PROVE  NoKillFailed'
<1> SUFFICES ASSUME ~failedBefore', phase' # "drain", NEW p \in Processes
             PROVE  task'[p] # "failed"
  BY DEF NoKillFailed, KillsWorked
<1>1. ~failedBefore
  BY NoFailureYet
<1>2. CASE phase = "drain"
  <2>1. CASE ExportersStopped
    <3>1. task' = task /\ live_exporters = {}
      BY <2>1 DEF ExportersStopped
    <3>2. CASE p[1] < round
      BY <1>1, <3>1, <3>2 DEF FInv, Over
    <3>3. CASE p[1] = round
      BY <1>2, <3>1, <3>3 DEF RInv, Registered, InRound
    <3>4. CASE p[1] > round
      BY <3>1, <3>4 DEF IInv, Fresh, Ahead
    <3> QED BY <3>2, <3>3, <3>4, ProcessType DEF IInv, TypeOK
  <2>2. CASE AwaitExporter
    BY <1>2, <2>2 DEF AwaitExporter, FailRound
  <2>3. ~ExportersStopped /\ ~AwaitExporter => phase' = phase
    BY <1>2 DEF Next, MainLoop, SetupExporters, SpawnExporter, RegisterExporters, Settle,
       RunScripts, SignalExporters, CollectResults, StageError, TaskStep, SeeFlag, KillRemote,
       KillLocal, Launch, Exit, vars, loop
  <2> QED BY <1>2, <2>1, <2>2, <2>3
<1>3. CASE phase # "drain"
  <2>1. task[p] \in {"none", "polling", "done"}
    BY <1>1, <1>3, NobodyKills
  <2>2. CASE SpawnExporter
    <3>1. task'[p] = task[p] \/ task'[p] = "polling"
      <4>1. PICK failed \in SUBSET Plan[round][slot].hosts :
              \/ UNCHANGED task
              \/ task' = [q \in Processes |->
                            IF q \in {r \in Processes : InRound(r) /\ r[2] = slot /\ r[3] \notin failed}
                              THEN "polling" ELSE task[q]]
        BY <2>2 DEF SpawnExporter
      <4> QED BY <4>1
    <3> QED BY <2>1, <3>1
  <2>3. ASSUME NEW q \in Processes, KillRemote(q) \/ KillLocal(q) PROVE FALSE
    <3>1. task[q] \in {"none", "polling", "done"}
      BY <1>1, <1>3, NobodyKills
    <3> QED BY <2>3, <3>1 DEF KillRemote, KillLocal
  <2>4. ASSUME NEW q \in Processes, SeeFlag(q) PROVE task'[p] # "failed"
    BY <2>1, <2>4 DEF SeeFlag, IInv, TypeOK
  <2>5. CASE UNCHANGED task
    BY <2>1, <2>5
  <2> QED BY <2>2, <2>3, <2>4, <2>5 DEF Next, MainLoop, SetupExporters, RegisterExporters,
             Settle, RunScripts, SignalExporters, AwaitExporter, ExportersStopped, CollectResults,
             StageError, TaskStep, Launch, Exit, vars
<1> QED BY <1>2, <1>3

(* The lock of an exporter that starts is free.                            *)
LEMMA NobodyRefused ==
  ASSUME DistinctExporters, NoneRelaunched, IInv, FInv, ~failedBefore,
         NEW p \in Processes, InRound(p), proc[p] = "starting"
  PROVE  lockFile[File(p)] = NoProcess
<1> SUFFICES ASSUME lockFile[File(p)] # NoProcess PROVE FALSE
  OBVIOUS
<1> DEFINE q == lockFile[File(p)]
<1>1. q \in Processes /\ File(q) = File(p) /\ Alive(q)
  BY ProcessType DEF IInv, TypeOK, Locked
<1>2. q[1] = round
  <2>1. ~(q[1] < round)
    BY <1>1 DEF FInv, Over, NoneRelaunched, InRound
  <2>2. ~(q[1] > round)
    BY <1>1 DEF IInv, Fresh, Ahead, Alive
  <2> QED BY <1>1, <2>1, <2>2, ProcessType DEF IInv, TypeOK
<1>3. /\ q = <<q[1], q[2], q[3]>> /\ p = <<p[1], p[2], p[3]>>
      /\ q[2] \in DOMAIN Plan[round] /\ p[2] \in DOMAIN Plan[round] /\ round \in 1 .. Rounds
  BY <1>1, <1>2, ProcessType DEF Processes, InRound
<1>4. q[2] = p[2] /\ q[3] = p[3]
  <2>1. Plan[round][q[2]].name = Plan[round][p[2]].name /\ q[3] = p[3]
    BY <1>1, <1>2 DEF File, InRound
  <2> QED BY <1>3, <2>1 DEF DistinctExporters
<1>5. q = p
  BY <1>2, <1>3, <1>4 DEF InRound
<1> QED BY <1>1, <1>5 DEF Alive

(* What main_loop does to the exporters of the round.                      *)
LEMMA UpLoopStep ==
  ASSUME DistinctExporters, IInv, FInv, MainLoop, ~failedBefore,
         ~failedBefore', round' = round, phase' \in {"spawn", "settle"} \cup Measuring,
         NEW p \in Processes, InRound(p)', phase' = "spawn" => p[2] < slot'
  PROVE  proc'[p] \in {"starting", "running", "exited"}
<1>0. InRound(p) /\ p[2] \in Nat /\ p[2] >= 1 /\ p[2] \in 1 .. Len(Plan[p[1]]) /\ slot \in Nat
  BY ProcessType DEF InRound, IInv, TypeOK
<1>1. CASE /\ UNCHANGED proc
           /\ phase \in {"spawn", "settle"} \cup Measuring
           /\ phase = "spawn" => p[2] < slot
  BY <1>0, <1>1 DEF FInv, Up
<1>2. CASE SpawnExporter
  <2>1. PICK failed \in SUBSET Plan[round][slot].hosts :
          LET spawned == {q \in Processes : InRound(q) /\ q[2] = slot /\ q[3] \notin failed}
          IN /\ proc' = [q \in Processes |-> IF q \in spawned THEN "starting" ELSE proc[q]]
             /\ \/ failed = {} /\ slot' = slot + 1 /\ UNCHANGED phase
                \/ FailRound
    BY <1>2 DEF SpawnExporter
  <2>2. failed = {} /\ slot' = slot + 1 /\ phase = "spawn" /\ phase' = "spawn"
    BY <1>2, <2>1 DEF SpawnExporter, FailRound
  <2>3. CASE p[2] = slot
    BY <1>0, <2>1, <2>2, <2>3
  <2>4. CASE p[2] < slot
    <3>1. proc[p] \in {"starting", "running", "exited"}
      BY <1>0, <2>2, <2>4 DEF FInv, Up
    <3> QED BY <2>1, <3>1
  <2> QED BY <1>0, <2>2, <2>3, <2>4
<1>3. CASE RegisterExporters
  BY <1>0, <1>1, <1>3, PlanType DEF RegisterExporters, world, InRound, IInv, TypeOK
<1>4. CASE SetupExporters
  BY <1>0, <1>4 DEF SetupExporters, IInv, InOrder
<1>5. CASE Settle \/ RunScripts \/ SignalExporters
  BY <1>1, <1>5 DEF Settle, RunScripts, SignalExporters, world, Measuring
<1>6. CASE AwaitExporter
  BY <1>1, <1>6 DEF AwaitExporter, FailRound, Measuring, world
<1>7. CASE ExportersStopped
  BY <1>7 DEF ExportersStopped, Measuring
<1>8. CASE CollectResults \/ StageError
  BY <1>8 DEF CollectResults, StageError, FailRound, NextRound, Measuring
<1> QED BY <1>2, <1>3, <1>4, <1>5, <1>6, <1>7, <1>8 DEF MainLoop

(* An exporter of the round starts, runs and ends by itself.               *)
LEMMA UpStep ==
  ASSUME DistinctExporters, NoneRelaunched, IInv, RInv, FInv, [Next]_vars
  PROVE  Up'
<1> SUFFICES ASSUME ~failedBefore', phase' \in {"spawn", "settle"} \cup Measuring,
                    NEW p \in Processes, InRound(p)', phase' = "spawn" => p[2] < slot'
             PROVE  proc'[p] \in {"starting", "running", "exited"}
  BY DEF Up
<1>1. ~failedBefore /\ (CollectResults \/ round' = round)
  BY NoFailureYet
<1>2. round' = round
  BY <1>1 DEF CollectResults, NextRound, Measuring
<1>3. CASE MainLoop
  BY <1>1, <1>2, <1>3, UpLoopStep
<1>4. CASE UNCHANGED <<loop, proc>>
  BY <1>1, <1>4 DEF loop, FInv, Up, InRound
<1>5. ASSUME NEW q \in Processes, TaskStep(q) \/ Launch(q) \/ Exit(q)
      PROVE  proc'[p] \in {"starting", "running", "exited"}
  <2>1. UNCHANGED <<phase, round, slot>>
    BY <1>5 DEF TaskStep, SeeFlag, KillRemote, KillLocal, Launch, Exit, loop
  <2>2. proc[p] \in {"starting", "running", "exited"} /\ InRound(p)
    BY <1>1, <2>1 DEF FInv, Up, InRound
  <2>3. phase # "drain"
    BY <2>1 DEF Measuring
  <2>4. ~KillRemote(q) /\ ~KillLocal(q)
    BY <1>1, <2>3, NobodyKills DEF KillRemote, KillLocal
  <2>5. CASE Launch(q)
    BY <1>1, <2>2, <2>5, NobodyRefused DEF Launch, IInv, TypeOK
  <2>6. CASE SeeFlag(q) \/ Exit(q)
    BY <2>2, <2>6 DEF SeeFlag, Exit, world, IInv, TypeOK
  <2> QED BY <1>5, <2>4, <2>5, <2>6 DEF TaskStep
<1> QED BY <1>3, <1>4, <1>5 DEF Next, vars, loop, world

(* FInv holds throughout.                                                  *)
LEMMA InitFInv == Init => FInv
<1> SUFFICES ASSUME Init PROVE FInv
  OBVIOUS
<1>1. Over
  BY ProcessType DEF Init, Over
<1>2. NoKillFailed /\ Up
  BY DEF Init, NoKillFailed, KillsWorked, Up, Measuring
<1> QED BY <1>1, <1>2 DEF FInv

LEMMA NextFInv ==
  SettleInTime /\ DistinctExporters /\ NoneRelaunched
    /\ IInv /\ RInv /\ FInv /\ [Next]_vars => RInv' /\ FInv'
BY FlagStep, PidNamesStep, SettledStep, WaitingStep, RegisteredStep, FreedStep,
   OverStep, NoKillFailedStep, UpStep DEF RInv, FInv

(* As long as no round failed, every exporter of a round runs while its    *)
(* scripts run, or ended by itself: if no exporter that a kill must miss   *)
(* is launched again on its host, five seconds are enough for every shell  *)
(* to get going, and no round has two exporters of one name.               *)
THEOREM MeasuredThroughout ==
  ASSUME SettleInTime, DistinctExporters, NoneRelaunched
  PROVE  Spec => []MeasuredUntilFailure
<1>1. RInv /\ FInv => MeasuredUntilFailure
  BY DEF RInv, FInv, Settled, Up, Measuring, MeasuredUntilFailure, Measured
<1> QED BY <1>1, InitFInv, NextFInv, InitRInv, InitInv, NextInv, PTL DEF Spec

-----------------------------------------------------------------------------
(* Where what is said of exporters holds without a condition on how a      *)
(* behaviour went.                                                         *)

(* A failed round has a cause: a stage, a spawn or a kill that may fail.   *)
LEMMA KillsWork == ~KillFails /\ IInv /\ KillsWorked /\ [Next]_vars => KillsWorked'
<1> SUFFICES ASSUME ~KillFails, IInv, KillsWorked, [Next]_vars, NEW p \in Processes
             PROVE  task'[p] # "failed"
  BY DEF KillsWorked
<1>1. task[p] # "failed"
  BY DEF KillsWorked
<1>2. CASE SpawnExporter
  <2>1. PICK failed \in SUBSET Plan[round][slot].hosts :
          \/ UNCHANGED task
          \/ task' = [q \in Processes |->
                        IF q \in {r \in Processes : InRound(r) /\ r[2] = slot /\ r[3] \notin failed}
                          THEN "polling" ELSE task[q]]
    BY <1>2 DEF SpawnExporter
  <2> QED BY <1>1, <2>1
<1>3. CASE \E q \in Processes : TaskStep(q)
  BY <1>1, <1>3 DEF TaskStep, SeeFlag, KillRemote, KillLocal, IInv, TypeOK
<1>4. CASE UNCHANGED task
  BY <1>1, <1>4
<1> QED BY <1>2, <1>3, <1>4 DEF Next, MainLoop, SetupExporters, RegisterExporters, Settle,
           RunScripts, SignalExporters, AwaitExporter, ExportersStopped, CollectResults,
           StageError, Launch, Exit, vars

LEMMA NothingFails ==
  ~StageFails /\ ~SpawnFails /\ IInv /\ KillsWorked /\ ~failedBefore /\ [Next]_vars
    => ~failedBefore'
<1> SUFFICES ASSUME ~StageFails, ~SpawnFails, IInv, KillsWorked, ~failedBefore, [Next]_vars
             PROVE  failedBefore' = failedBefore
  OBVIOUS
<1>1. ~StageError
  BY DEF StageError
<1>2. CASE SpawnExporter
  BY <1>2 DEF SpawnExporter
<1>3. CASE AwaitExporter
  BY <1>3 DEF AwaitExporter, KillsWorked, IInv, TypeOK
<1> QED BY <1>1, <1>2, <1>3 DEF Next, MainLoop, SetupExporters, RegisterExporters, Settle,
           RunScripts, SignalExporters, ExportersStopped, CollectResults,
           TaskStep, SeeFlag, KillRemote, KillLocal, Launch, Exit, vars, loop

(* Exporters are "properly killed at the end of a run"                     *)
(* (cli/src/main.rs:248-250): where all of them are remote, no directory   *)
(* has a space and every kill reaches its host.                            *)
THEOREM StoppedWhereReached ==
  ASSUME SettleInTime, DistinctExporters, ~KillFails, \A p \in Processes : ~Missed(p)
  PROVE  Spec => []StoppedBeforeCollect
<1>1. Init => KillsWorked
  BY DEF Init, KillsWorked
<1>2. IInv /\ KillsWorked /\ [Next]_vars => KillsWorked'
  BY KillsWork
<1>3. KillsWorked /\ RemoteStoppedBeforeCollect => StoppedBeforeCollect
  BY DEF RemoteStoppedBeforeCollect, StoppedBeforeCollect
<1> QED BY <1>1, <1>2, <1>3, RemoteStopped, InitInv, NextInv, PTL DEF Spec

(* Exporters run while the scripts of their round do (run.rs:674-675), in  *)
(* every round: where no stage, spawn or kill fails.                       *)
THEOREM MeasuredWithoutFailures ==
  ASSUME SettleInTime, DistinctExporters, NoneRelaunched, ~StageFails, ~SpawnFails, ~KillFails
  PROVE  Spec => []Measured
<1>1. Init => KillsWorked /\ ~failedBefore
  BY DEF Init, KillsWorked
<1>2. IInv /\ KillsWorked /\ ~failedBefore /\ [Next]_vars => KillsWorked' /\ ~failedBefore'
  BY KillsWork, NothingFails
<1>3. ~failedBefore /\ MeasuredUntilFailure => Measured
  BY DEF MeasuredUntilFailure
<1> QED BY <1>1, <1>2, <1>3, MeasuredThroughout, InitInv, NextInv, PTL DEF Spec

-----------------------------------------------------------------------------
(* What no kill reaches.                                                   *)

PidsReached ==
  \A f \in Files :
    pidFile[f] # NoProcess => pidFile[f][1] \notin Spaced /\ File(pidFile[f]) = f

LEMMA PidsReachedStep == IInv /\ PidsReached /\ [Next]_vars => PidsReached'
<1> SUFFICES ASSUME IInv, PidsReached, [Next]_vars, NEW f \in Files, pidFile'[f] # NoProcess
             PROVE  pidFile'[f][1] \notin Spaced /\ File(pidFile'[f]) = f
  BY DEF PidsReached, File
<1>1. CASE UNCHANGED pidFile
  BY <1>1 DEF PidsReached
<1>2. ASSUME NEW p \in Processes, Launch(p)
      PROVE  pidFile'[f][1] \notin Spaced /\ File(pidFile'[f]) = f
  <2>1. CASE p[1] \notin Spaced /\ pidFile' = [pidFile EXCEPT ![File(p)] = p]
    <3>1. CASE f = File(p)
      <4>1. pidFile'[f] = p
        BY <2>1, <3>1 DEF IInv, TypeOK
      <4> QED BY <2>1, <3>1, <4>1
    <3>2. CASE f # File(p)
      <4>1. pidFile'[f] = pidFile[f]
        BY <2>1, <3>2 DEF IInv, TypeOK
      <4> QED BY <4>1 DEF PidsReached
    <3> QED BY <3>1, <3>2
  <2> QED BY <1>1, <1>2, <2>1 DEF Launch
<1> QED BY <1>1, <1>2 DEF Next, MainLoop, SetupExporters, SpawnExporter, RegisterExporters,
           Settle, RunScripts, SignalExporters, AwaitExporter, ExportersStopped, CollectResults,
           StageError, TaskStep, SeeFlag, KillRemote, KillLocal, Exit, world, vars

(* An exporter on the controller's own host, or one in a directory with a  *)
(* space, runs until it ends by itself: no kill of any round, not even one *)
(* that goes by a pid file, ends it (run.rs:736-761, command.rs:216-232).  *)
THEOREM RunsOn ==
  Spec => [][\A p \in Processes : Missed(p) /\ Alive(p) /\ ~Alive(p)' => Exit(p)]_vars
<1>1. Init => PidsReached
  BY DEF Init, PidsReached
<1>2. IInv /\ PidsReached /\ [Next]_vars =>
        [\A p \in Processes : Missed(p) /\ Alive(p) /\ ~Alive(p)' => Exit(p)]_vars
  <2> SUFFICES ASSUME IInv, PidsReached, Next,
                      NEW p \in Processes, Missed(p), Alive(p), ~Alive(p)'
               PROVE  Exit(p)
    OBVIOUS
  <2>1. CASE SpawnExporter
    <3>1. PICK failed \in SUBSET Plan[round][slot].hosts :
            proc' = [q \in Processes |->
                       IF q \in {r \in Processes : InRound(r) /\ r[2] = slot /\ r[3] \notin failed}
                         THEN "starting" ELSE proc[q]]
      BY <2>1 DEF SpawnExporter
    <3>2. ~Ahead(p)
      BY DEF IInv, Fresh, Alive
    <3>3. ~(InRound(p) /\ p[2] = slot)
      BY <2>1, <3>2, ProcessType DEF SpawnExporter, Ahead, InRound, IInv, TypeOK
    <3> QED BY <3>1, <3>3 DEF Alive
  <2>2. CASE UNCHANGED proc
    BY <2>2 DEF Alive
  <2>3. ASSUME NEW q \in Processes, Launch(q) \/ KillLocal(q) PROVE FALSE
    BY <2>3 DEF Launch, KillLocal, Alive, IInv, TypeOK
  <2>4. ASSUME NEW q \in Processes, Exit(q) PROVE Exit(p)
    <3>1. CASE p = q
      BY <2>4, <3>1
    <3>2. CASE p # q
      BY <2>4, <3>2 DEF Exit, Alive, IInv, TypeOK
    <3> QED BY <3>1, <3>2
  <2>5. ASSUME NEW q \in Processes, KillRemote(q) PROVE FALSE
    <3>1. PICK target \in Processes : target = pidFile[File(q)] /\ proc' = [proc EXCEPT ![target] = "killed"]
      <4>1. pidFile[File(q)] \in Processes \cup {NoProcess}
        BY ProcessType DEF IInv, TypeOK
      <4>2. ~UNCHANGED proc
        BY DEF Alive
      <4> QED BY <2>5, <4>1, <4>2 DEF KillRemote
    <3>2. target = p
      BY <3>1 DEF Alive, IInv, TypeOK
    <3>3. p[1] \notin Spaced /\ File(p) = File(q)
      BY <3>1, <3>2, ProcessType DEF PidsReached
    <3>4. p[3] = q[3]
      BY <3>3 DEF File
    <3> QED BY <2>5, <3>3, <3>4 DEF KillRemote, Missed
  <2> QED BY <2>1, <2>2, <2>3, <2>4, <2>5 DEF Next, MainLoop, SetupExporters, RegisterExporters,
             Settle, RunScripts, SignalExporters, AwaitExporter, ExportersStopped, CollectResults,
             StageError, TaskStep, SeeFlag, world
<1> QED BY <1>1, <1>2, PidsReachedStep, InitInv, NextInv, PTL DEF Spec

-----------------------------------------------------------------------------
(* The wait for the tasks.                                                 *)

(* Every task main_loop has, or will have, was spawned.                    *)
TasksSpawned == \A p \in handles \cup live_exporters : task[p] # "none"

FlagWhileDraining == phase = "drain" => KILL_EXPORTERS

LEMMA TasksSpawnedStep == IInv /\ TasksSpawned /\ [Next]_vars => TasksSpawned'
<1> SUFFICES ASSUME IInv, TasksSpawned, [Next]_vars, NEW p \in (handles \cup live_exporters)'
             PROVE  task'[p] # "none"
  BY DEF TasksSpawned
<1>1. CASE SpawnExporter
  <2>1. PICK failed \in SUBSET Plan[round][slot].hosts :
          LET spawned == {q \in Processes : InRound(q) /\ q[2] = slot /\ q[3] \notin failed}
          IN \/ /\ task' = [q \in Processes |-> IF q \in spawned THEN "polling" ELSE task[q]]
                /\ handles' \subseteq spawned \cup handles
             \/ UNCHANGED task /\ handles' = {}
    BY <1>1 DEF SpawnExporter, FailRound
  <2>2. live_exporters' = live_exporters /\ handles \cup live_exporters \subseteq Processes
    BY <1>1 DEF SpawnExporter, IInv, TypeOK
  <2> QED BY <2>1, <2>2 DEF TasksSpawned
<1>2. CASE UNCHANGED task /\ (handles \cup live_exporters)' \subseteq handles \cup live_exporters
  BY <1>2 DEF TasksSpawned
<1>3. CASE MainLoop
  BY <1>1, <1>2, <1>3 DEF MainLoop, SetupExporters, RegisterExporters, Settle, RunScripts,
     SignalExporters, AwaitExporter, ExportersStopped, CollectResults, StageError, FailRound
<1>4. ASSUME NEW q \in Processes, TaskStep(q) PROVE task'[p] # "none"
  BY <1>4 DEF TaskStep, SeeFlag, KillRemote, KillLocal, loop, TasksSpawned, IInv, TypeOK
<1>5. CASE \E q \in Processes : Launch(q) \/ Exit(q)
  BY <1>2, <1>5 DEF Launch, Exit, loop
<1>6. CASE UNCHANGED vars
  BY <1>2, <1>6 DEF vars, loop
<1> QED BY <1>3, <1>4, <1>5, <1>6 DEF Next

(* main_loop never waits for a task that cannot end, for any plan and      *)
(* whatever failed: while it waits the flag stays set, and every task it   *)
(* waits for has been spawned, so it sees the flag, kills or has ended.    *)
(* It is what StoppingEnds needs besides fairness (run.rs:486-501).        *)
THEOREM WaitsForLiveTasks ==
  Spec => [](phase = "drain" =>
               /\ KILL_EXPORTERS
               /\ \A p \in live_exporters : task[p] \in {"polling", "killing", "done", "failed"})
<1>1. Init => TasksSpawned /\ FlagWhileDraining
  BY DEF Init, TasksSpawned, FlagWhileDraining
<1>2. FlagWhileDraining /\ [Next]_vars => FlagWhileDraining'
  BY DEF FlagWhileDraining, Next, MainLoop, SetupExporters, SpawnExporter, RegisterExporters,
     Settle, RunScripts, SignalExporters, AwaitExporter, ExportersStopped, CollectResults,
     StageError, FailRound, NextRound, TaskStep, SeeFlag, KillRemote, KillLocal, Launch, Exit,
     vars, loop
<1>3. IInv /\ TasksSpawned /\ FlagWhileDraining =>
        (phase = "drain" =>
           /\ KILL_EXPORTERS
           /\ \A p \in live_exporters : task[p] \in {"polling", "killing", "done", "failed"})
  BY DEF IInv, TypeOK, TasksSpawned, FlagWhileDraining
<1> QED BY <1>1, <1>2, <1>3, TasksSpawnedStep, InitInv, NextInv, PTL DEF Spec
=============================================================================
