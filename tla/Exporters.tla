------------------------------ MODULE Exporters ------------------------------
(***************************************************************************)
(* The life of exporters (controller/src/run.rs): long-running collectors  *)
(* that start_exporters spawns on the hosts for each variation, that a     *)
(* background task per process kills once the static flag KILL_EXPORTERS   *)
(* is set, and that main_loop waits for before it collects the results.    *)
(*                                                                         *)
(* A round is one iteration of main_loop's inner loop, one variation of    *)
(* one run.  When a round fails main_loop returns and the next round is    *)
(* the first one of the next request: everything that survives a failed    *)
(* round -- the flag, background tasks, processes, lock and pid files --   *)
(* meets the rounds of others.                                             *)
(*                                                                         *)
(* flock(1), the shell, kill(1) and the kill of a local child are not code *)
(* of this repository: Launch, Exit and Killed say what they do with the   *)
(* command lines that controller/src/command.rs builds.                    *)
(***************************************************************************)
EXTENDS Integers, Sequences, FiniteSets

CONSTANTS
  Rounds,        \* number of rounds, a bound
  Hosts,
  LocalHosts,    \* those that are "localhost", where no ssh session is used
  Exporters,     \* names of exporters
  MaxExporters,  \* exporters in one round, a bound
  Plan,          \* Plan[n] : the exporters of round n in order, as [name, hosts]
  Spaced,        \* rounds whose variation directory has a space in its path
  StageFails,    \* may a stage of main_loop return an error
  SpawnFails,    \* may run_command fail on some host when exporters are spawned
  KillFails,     \* may the ssh connection fail when a task runs kill
  SettleInTime,  \* are five seconds enough for every spawned shell to get going
  NoProcess

ASSUME ExportersAssumption ==
  /\ Rounds \in Nat \ {0} /\ MaxExporters \in Nat
  /\ LocalHosts \subseteq Hosts /\ Spaced \subseteq 1 .. Rounds
  /\ {StageFails, SpawnFails, KillFails, SettleInTime} \subseteq BOOLEAN
  /\ Plan \in [1 .. Rounds -> Seq([name : Exporters, hosts : SUBSET Hosts])]
  /\ \A n \in 1 .. Rounds : Len(Plan[n]) <= MaxExporters

(* One spawned process for each round, place in its plan, and host.        *)
Processes == {p \in (1 .. Rounds) \X (1 .. MaxExporters) \X Hosts :
                p[2] \in DOMAIN Plan[p[1]] /\ p[3] \in Plan[p[1]][p[2]].hosts}

ASSUME NoProcessAssumption == NoProcess \notin Processes

(* The lock and the pid file belong to a name on a host, see shell_files:  *)
(* processes of several rounds share them.                                 *)
Files   == Exporters \X Hosts
File(p) == <<Plan[p[1]][p[2]].name, p[3]>>

VARIABLES
  phase,            \* where main_loop is in the round
  round, slot,      \* the round, and the exporter start_exporters is at
  KILL_EXPORTERS,
  handles,          \* exporters_handles: tasks of this round not registered yet
  live_exporters,   \* tasks main_loop can still wait for
  task,             \* the background task of each process
  proc,             \* each process on its host
  lockFile,         \* which process holds the advisory lock
  pidFile,          \* which process last wrote its pid
  failedBefore      \* history: some round failed

loop  == <<phase, round, slot, handles, live_exporters, failedBefore>>
world == <<proc, lockFile, pidFile>>
vars  == <<loop, KILL_EXPORTERS, task, world>>

Init ==
  /\ phase = "start" /\ round = 1 /\ slot = 1
  /\ KILL_EXPORTERS = FALSE
  /\ handles = {} /\ live_exporters = {}
  /\ task = [p \in Processes |-> "none"]
  /\ proc = [p \in Processes |-> "none"]
  /\ lockFile = [f \in Files |-> NoProcess]
  /\ pidFile = [f \in Files |-> NoProcess]
  /\ failedBefore = FALSE

-----------------------------------------------------------------------------
(* Rounds.                                                                 *)

InRound(p) == p[1] = round

NextRound ==
  /\ round' = round + 1 /\ slot' = 1
  /\ phase' = IF round < Rounds THEN "start" ELSE "stopped"

-----------------------------------------------------------------------------
(* Faults a change to the code could bring in.  None is part of the        *)
(* specification: each stands in for the definition named after "for", to  *)
(* see that a property notices.                                            *)

(* for FailRound: the handles outlive start_exporters                      *)
FailRoundOnly == NextRound /\ failedBefore' = TRUE /\ UNCHANGED handles

(* for SignalExporters: the flag is not set                                *)
SignalNobody ==
  /\ phase = "stop" /\ phase' = "drain"
  /\ UNCHANGED <<round, slot, handles, live_exporters, failedBefore, KILL_EXPORTERS, task, world>>

(* for AwaitExporter: the handles are dropped                              *)
AwaitNobody ==
  /\ phase = "drain" /\ live_exporters # {} /\ live_exporters' = {}
  /\ UNCHANGED <<phase, round, slot, handles, failedBefore, KILL_EXPORTERS, task, world>>

(* for ExportersStopped: the flag is not cleared                           *)
StoppedForGood ==
  /\ phase = "drain" /\ live_exporters = {}
  /\ phase' = "collect"
  /\ UNCHANGED <<round, slot, handles, live_exporters, failedBefore, KILL_EXPORTERS, task, world>>

(* for SeeFlag: the flag is not looked at                                  *)
SeeAnything(p) ==
  /\ task[p] = "polling"
  /\ task' = [task EXCEPT ![p] = "killing"]
  /\ UNCHANGED <<loop, KILL_EXPORTERS, world>>

(* for Launch: no flock                                                    *)
LaunchUnlocked(p) ==
  /\ proc[p] = "starting"
  /\ proc' = [proc EXCEPT ![p] = "running"]
  /\ lockFile' = [lockFile EXCEPT ![File(p)] = p]
  /\ pidFile' = [pidFile EXCEPT ![File(p)] = p]
  /\ UNCHANGED <<loop, KILL_EXPORTERS, task>>

-----------------------------------------------------------------------------
(* main_loop, step by step.                                                *)

(* `?` in main_loop or start_exporters: the tasks that are not in          *)
(* live_exporters are detached, the flag keeps its value.                  *)
FailRound == NextRound /\ handles' = {} /\ failedBefore' = TRUE

(* make_directory, symlink_dependencies and setup_exporters.               *)
SetupExporters ==
  /\ phase = "start"
  /\ phase' = "spawn"
  /\ UNCHANGED <<round, slot, handles, live_exporters, failedBefore, KILL_EXPORTERS, task, world>>

(* One iteration of the loop in start_exporters.  Each host is asked in a  *)
(* task of its own, so if one fails the others run the command all the     *)
(* same, but nobody keeps their children: no task will kill them.  Handles *)
(* are kept by exporter name, a second entry replaces the first.           *)
SpawnExporter ==
  /\ phase = "spawn" /\ slot \in DOMAIN Plan[round]
  /\ \E failed \in SUBSET Plan[round][slot].hosts :
       LET spawned == {p \in Processes : InRound(p) /\ p[2] = slot /\ p[3] \notin failed}
       IN /\ failed # {} => SpawnFails
          /\ proc' = [p \in Processes |-> IF p \in spawned THEN "starting" ELSE proc[p]]
          /\ \/ /\ failed = {}
                /\ task' = [p \in Processes |-> IF p \in spawned THEN "polling" ELSE task[p]]
                /\ handles' = spawned \cup
                     {p \in handles : Plan[round][p[2]].name # Plan[round][slot].name}
                /\ slot' = slot + 1
                /\ UNCHANGED <<phase, round, failedBefore>>
             \/ failed # {} /\ FailRound /\ UNCHANGED task
  /\ UNCHANGED <<live_exporters, KILL_EXPORTERS, lockFile, pidFile>>

(* The map of a round that failed is overwritten, which detaches its tasks. *)
RegisterExporters ==
  /\ phase = "spawn" /\ slot > Len(Plan[round])
  /\ live_exporters' = handles /\ handles' = {}
  /\ phase' = "settle"
  /\ UNCHANGED <<round, slot, failedBefore, KILL_EXPORTERS, task, world>>

Settle ==
  /\ phase = "settle"
  /\ SettleInTime => \A p \in Processes : proc[p] # "starting"
  /\ phase' = "setups"
  /\ UNCHANGED <<round, slot, handles, live_exporters, failedBefore, KILL_EXPORTERS, task, world>>

RunScripts ==
  /\ \/ phase = "setups"  /\ phase' = "execute"
     \/ phase = "execute" /\ phase' = "teardowns"
     \/ phase = "teardowns" /\ phase' = "stop"
  /\ UNCHANGED <<round, slot, handles, live_exporters, failedBefore, KILL_EXPORTERS, task, world>>

SignalExporters ==
  /\ phase = "stop"
  /\ KILL_EXPORTERS' = TRUE
  /\ phase' = "drain"
  /\ UNCHANGED <<round, slot, handles, live_exporters, failedBefore, task, world>>

(* The map is drained in no particular order.  The error of a task leaves  *)
(* main_loop: the rest of the map is dropped and the flag stays set.       *)
AwaitExporter ==
  /\ phase = "drain"
  /\ \E p \in live_exporters :
       \/ /\ task[p] = "done"
          /\ live_exporters' = live_exporters \ {p}
          /\ UNCHANGED <<phase, round, slot, handles, failedBefore>>
       \/ task[p] = "failed" /\ live_exporters' = {} /\ FailRound
  /\ UNCHANGED <<KILL_EXPORTERS, task, world>>

ExportersStopped ==
  /\ phase = "drain" /\ live_exporters = {}
  /\ KILL_EXPORTERS' = FALSE
  /\ phase' = "collect"
  /\ UNCHANGED <<round, slot, handles, live_exporters, failedBefore, task, world>>

(* unlink_dependencies and collect_results.                                *)
CollectResults ==
  /\ phase = "collect"
  /\ NextRound
  /\ UNCHANGED <<handles, live_exporters, failedBefore, KILL_EXPORTERS, task, world>>

StageError ==
  /\ StageFails
  /\ phase \in {"start", "setups", "execute", "teardowns", "collect"}
  /\ FailRound
  /\ UNCHANGED <<live_exporters, KILL_EXPORTERS, task, world>>

-----------------------------------------------------------------------------
(* The background task of process p, spawned by start_exporters.           *)

SeeFlag(p) ==
  /\ task[p] = "polling" /\ KILL_EXPORTERS
  /\ task' = [task EXCEPT ![p] = "killing"]
  /\ UNCHANGED <<loop, KILL_EXPORTERS, world>>

(* kill -KILL $(cat pid) ends whatever process the pid file names, if it   *)
(* still runs; its exit status is not looked at.                           *)
KillRemote(p) ==
  /\ task[p] = "killing" /\ p[3] \notin LocalHosts
  /\ \/ LET target == pidFile[File(p)]
        IN /\ task' = [task EXCEPT ![p] = "done"]
           /\ IF target # NoProcess /\ lockFile[File(p)] = target
                THEN /\ proc' = [proc EXCEPT ![target] = "killed"]
                     /\ lockFile' = [lockFile EXCEPT ![File(p)] = NoProcess]
                ELSE UNCHANGED <<proc, lockFile>>
     \/ /\ KillFails
        /\ task' = [task EXCEPT ![p] = "failed"]
        /\ UNCHANGED <<proc, lockFile>>
  /\ UNCHANGED <<loop, KILL_EXPORTERS, pidFile>>

(* The child of a local spawn is flock itself.  Killing it leaves the      *)
(* command it started alone, with the lock that command inherited.         *)
KillLocal(p) ==
  /\ task[p] = "killing" /\ p[3] \in LocalHosts
  /\ task' = [task EXCEPT ![p] = "done"]
  /\ proc' = [proc EXCEPT ![p] = IF @ = "running" THEN "orphaned"
                                 ELSE IF @ = "starting" THEN "killed" ELSE @]
  /\ UNCHANGED <<loop, KILL_EXPORTERS, lockFile, pidFile>>

-----------------------------------------------------------------------------
(* Process p on its host runs                                              *)
(*   flock -n lock bash -c "cd directory && echo $$ >pid; exec command".   *)

(* Without the lock flock gives up at once.  With a space in the directory *)
(* cd fails, so no pid is written, but the command after `;` runs.         *)
Launch(p) ==
  /\ proc[p] = "starting"
  /\ \/ /\ lockFile[File(p)] = NoProcess
        /\ lockFile' = [lockFile EXCEPT ![File(p)] = p]
        /\ pidFile' = IF p[1] \in Spaced THEN pidFile ELSE [pidFile EXCEPT ![File(p)] = p]
        /\ proc' = [proc EXCEPT ![p] = "running"]
     \/ /\ lockFile[File(p)] # NoProcess
        /\ proc' = [proc EXCEPT ![p] = "refused"]
        /\ UNCHANGED <<lockFile, pidFile>>
  /\ UNCHANGED <<loop, KILL_EXPORTERS, task>>

Alive(p) == proc[p] \in {"running", "orphaned"}

(* The command ends by itself.                                             *)
Exit(p) ==
  /\ Alive(p)
  /\ proc' = [proc EXCEPT ![p] = "exited"]
  /\ lockFile' = [lockFile EXCEPT ![File(p)] = NoProcess]
  /\ UNCHANGED <<loop, KILL_EXPORTERS, task, pidFile>>

-----------------------------------------------------------------------------
MainLoop ==
  \/ SetupExporters \/ SpawnExporter \/ RegisterExporters \/ Settle \/ RunScripts
  \/ SignalExporters \/ AwaitExporter \/ ExportersStopped \/ CollectResults \/ StageError

TaskStep(p) == SeeFlag(p) \/ KillRemote(p) \/ KillLocal(p)

Next ==
  \/ MainLoop
  \/ \E p \in Processes : TaskStep(p) \/ Launch(p) \/ Exit(p)

(* Scripts and ssh commands end, tokio polls its tasks, shells get going.  *)
(* An exporter need not end by itself.                                     *)
Fairness ==
  /\ WF_vars(MainLoop)
  /\ \A p \in Processes : WF_vars(TaskStep(p)) /\ WF_vars(Launch(p))

Spec == Init /\ [][Next]_vars /\ Fairness

-----------------------------------------------------------------------------
(* Properties.                                                             *)

(* Every variable keeps its type, and exporters_handles, local to          *)
(* start_exporters, holds tasks of this very round (run.rs:677-768).       *)
TypeOK ==
  /\ phase \in {"start", "spawn", "settle", "setups", "execute", "teardowns",
                "stop", "drain", "collect", "stopped"}
  /\ round \in 1 .. Rounds + 1 /\ slot \in 1 .. MaxExporters + 1
  /\ KILL_EXPORTERS \in BOOLEAN /\ failedBefore \in BOOLEAN
  /\ handles \subseteq Processes /\ live_exporters \subseteq Processes
  /\ \A p \in handles : phase = "spawn" /\ InRound(p) /\ p[2] < slot
  /\ task \in [Processes -> {"none", "polling", "killing", "done", "failed"}]
  /\ proc \in [Processes -> {"none", "starting", "running", "refused",
                             "orphaned", "killed", "exited"}]
  /\ lockFile \in [Files -> Processes \cup {NoProcess}]
  /\ pidFile \in [Files -> Processes \cup {NoProcess}]

(* The advisory lock does its work (cli/src/main.rs:248-250, command.rs:   *)
(* 216-221): however rounds fail, tasks are late and processes outlive     *)
(* their round, an exporter never runs twice on one host.                  *)
OneInstance ==
  \A p, q \in Processes : Alive(p) /\ Alive(q) /\ File(p) = File(q) => p = q

KillsWorked == \A p \in Processes : task[p] # "failed"

(* As long as every kill reaches its host, no round sees the flag of an    *)
(* earlier one: it is set only while main_loop waits for the tasks         *)
(* (controller/src/run.rs:486-501).                                        *)
FlagOnlyWhileStopping == KILL_EXPORTERS /\ KillsWorked => phase = "drain"

(* Exporters are "expected to collect system-level metrics whilst an       *)
(* experiment is running" (run.rs:674-675), and "Time for us to close our  *)
(* exporters" (486) comes when the scripts of the round are through: while *)
(* they run, no background task of the round has gone on to kill its       *)
(* exporter.  Whether that runs, was refused its lock or is killed by a    *)
(* task of another round is not asked here.                                *)
Undisturbed ==
  phase \in {"setups", "execute", "teardowns"} =>
    \A p \in Processes : InRound(p) => task[p] \in {"none", "polling"}

(* Processes that no kill reaches: of a local one it only ends the flock   *)
(* wrapper, one in a directory with a space never wrote its pid.           *)
Missed(p) == p[3] \in LocalHosts \/ p[1] \in Spaced

(* As long as no round failed before, every exporter of a round runs while *)
(* its scripts run, unless it ended by itself (run.rs:674-675). So it is   *)
(* where no exporter that a kill has missed is launched again on its host: *)
(* it keeps the lock that the later round asks for.                        *)
Measured ==
  phase \in {"setups", "execute", "teardowns"} =>
    \A p \in Processes : InRound(p) => proc[p] \in {"running", "exited"}

MeasuredUntilFailure == ~failedBefore => Measured

(* p is an exporter that this round has on that host, of whatever round.   *)
OfTheRound(p) == \E q \in Processes : InRound(q) /\ File(q) = File(p)

(* As long as every kill reaches its host, once a round collects its       *)
(* results none of its exporters runs any more on any remote host, not     *)
(* even an instance that a failed round left behind and that no task of    *)
(* its own would kill, unless the shell of that instance could not write   *)
(* its pid (run.rs:486-521).                                               *)
RemoteStoppedBeforeCollect ==
  KillsWorked /\ phase = "collect" =>
    \A p \in Processes : Alive(p) /\ OfTheRound(p) => Missed(p)

(* Exporters are "properly killed at the end of a run"                     *)
(* (cli/src/main.rs:248-250), on the local host too.                       *)
StoppedBeforeCollect ==
  phase = "collect" => \A p \in Processes : Alive(p) => ~OfTheRound(p)

(* main_loop never waits for a task that cannot end: the flag is not       *)
(* cleared before every task of the round has seen it (run.rs:486-501).    *)
StoppingEnds == phase = "drain" ~> phase # "drain"

=============================================================================
