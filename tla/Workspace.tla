----------------------------- MODULE Workspace -----------------------------
(***************************************************************************)
(* The files of one request on the hosts: from the storage directory of    *)
(* the controller (module Storage), by scp, into the experiment directory  *)
(* of each host, from there as scripts and as links to dependencies into   *)
(* the directory of each variation, and back as results                    *)
(* (controller/src/run.rs and session.rs).                                 *)
(*                                                                         *)
(* The uploads of Storage go on all the time.  The runner is one process;  *)
(* a command it runs on several hosts is one step, which may fail on some  *)
(* of them: the order among hosts is the subject of RemoteCommands, as are *)
(* steps given as shell commands; exporters have their own module.  Exit   *)
(* statuses are ignored throughout, as in the code: only a host that can   *)
(* not be reached is an error.  Requests have directories of their own,    *)
(* named after the time of their start, so one request is enough.          *)
(***************************************************************************)
EXTENDS Storage

CONSTANTS
  Hosts,
  Plans     \* the requests considered, as generate_experiments leaves them

(* A plan has the base name of its script, the hosts it runs on, the base  *)
(* names of its dependencies, its setups and teardowns, [script, hosts]    *)
(* each, the base names of their dependencies, further hosts that are only *)
(* connected to (those of exporters), the number of runs and that of       *)
(* experiments, base and variations.  Requests are such as the CLI sends,  *)
(* with the file_type of its list in each setup and teardown, and with     *)
(* some experiment on the hosts of the base: what else a body may hold is  *)
(* the subject of Intake.                                                  *)
Stages == Seq([script : Names, hosts : SUBSET Hosts])

(* What is copied to a host, and of which upload.                          *)
Copies == [file : FileTypes \X Names, writers : SUBSET (Uploads \cup {Before}), executable : BOOLEAN]

ASSUME WorkspaceAssumption ==
  /\ None \notin Copies
  /\ \A p \in Plans :
       /\ p.script \in Names /\ p.hosts \subseteq Hosts /\ p.hosts # {}
       /\ p.dependencies \subseteq Names
       /\ p.setups \in Stages /\ p.teardowns \in Stages
       /\ p.stage_dependencies \subseteq Names /\ p.others \subseteq Hosts
       /\ p.runs \in Nat \ {0} /\ p.experiments \in Nat \ {0}

VARIABLES
  plan,       \* the request
  stage,      \* how far the controller is with it
  ready,      \* history: had the client's last --upload been successful?
  expected,   \* history: what the client can expect to run (of each path)
  target,     \* the host scp sends to, None between two hosts
  left,       \* what it still has to send there
  sent,       \* hosts that scp is done with
  top,        \* what is at the path of the experiment directory
  root,       \* root[h][n] : file n of that directory
  deps,       \* deps[h][n] : file n of its <script>-deps directory
  corrected,  \* experiments that correct_dependencies is done with
  run, variation, index,   \* the loops of main_loop; index is for setups and teardowns
  links,      \* links[h] : names linked in the variation's directory
  outputs,    \* outputs[h] : what the scripts left there
  results,    \* results[h][r] : what was collected for round r
  lost        \* history: hosts on which an scp has failed

request  == <<plan, ready>>
transfer == <<target, left, sent>>
nodes    == <<top, root, deps, links, outputs>>
loops    == <<corrected, run, variation, index>>
vars == <<storage, request, stage, expected, transfer, nodes, loops, results, lost>>

-----------------------------------------------------------------------------
(* What a plan says.                                                       *)

StageFiles(type, stages) == {<<type, stages[i].script>> : i \in DOMAIN stages}

(* Experiment::files, the same for all experiments of a request.           *)
FilesOf(p) ==
  {<<"execute", p.script>>} \cup StageFiles("setup", p.setups)
    \cup StageFiles("teardown", p.teardowns) \cup {"dependency"} \X p.dependencies

(* ExperimentConfig::validate_files looks up a few more.                   *)
CheckedFiles(p) == FilesOf(p) \cup {"dependency"} \X p.stage_dependencies

StageHosts(stages) == UNION {stages[i].hosts : i \in DOMAIN stages}

(* unique_hosts_for_all_experiments                                        *)
Sessions == plan.hosts \cup StageHosts(plan.setups) \cup StageHosts(plan.teardowns) \cup plan.others

Present(files) == \A f \in files : disk[f] # None

(* The sources are sorted by path, and so by type first.                   *)
TypeOrder == <<"dependency", "execute", "setup", "teardown">>

Rank(f) == CHOOSE i \in DOMAIN TypeOrder : TypeOrder[i] = f[1]

Rounds == {<<r, v>> : r \in 1 .. plan.runs, v \in 1 .. plan.experiments}

-----------------------------------------------------------------------------
Nothing == [n \in Names |-> None]

Init ==
  /\ StorageInit
  /\ plan \in Plans /\ ready = FALSE
  /\ stage = "unsent"
  /\ expected = [p \in Paths |-> None]
  /\ target = None /\ left = {} /\ sent = {}
  /\ top = [h \in Hosts |-> "absent"]
  /\ root = [h \in Hosts |-> Nothing] /\ deps = [h \in Hosts |-> Nothing]
  /\ corrected = 0 /\ run = 1 /\ variation = 1 /\ index = 1
  /\ links = [h \in Hosts |-> {}] /\ outputs = [h \in Hosts |-> {}]
  /\ results = [h \in Hosts |-> [r \in Rounds |-> [outputs |-> {}, dependencies |-> {}]]]
  /\ lost = {}

-----------------------------------------------------------------------------
(* What the commands do to a host.                                         *)

(* scp of files to a path where nothing is: a directory is made for        *)
(* several files; a single one becomes a file of that name.  (External:    *)
(* scp of OpenSSH 9 or later.)                                             *)
ScpMakes(files) == IF \E f \in files : files = {f} THEN "file" ELSE "directory"

(* mkdir -p of something below the experiment directory.                   *)
MkdirBelow(kind) == IF kind = "absent" THEN "directory" ELSE kind

(* mv d1 d2 .. <script>-deps: what is not there is left out.               *)
Moved(h) == {n \in plan.dependencies : top[h] = "directory" /\ root[h][n] # None}

(* The names below which a script finds something through its links.       *)
AtHand(h) == {n \in links[h] : deps[h][n] # None}

(* cd <variation directory> && <experiment directory>/<script>: a script   *)
(* leaves something in the directory, which tells the step, the file that  *)
(* ran and which dependencies it found.                                    *)
Output(h, n, step) ==
  IF top[h] = "directory" /\ root[h][n] # None /\ root[h][n].executable
    THEN {[step |-> step, file |-> root[h][n].file, writers |-> root[h][n].writers,
           found |-> {d \in AtHand(h) : deps[h][d].file = <<"dependency", d>>}]}
    ELSE {}

(* scp -r <variation directory>/* follows links.                           *)
Collected(h) == [outputs |-> outputs[h], dependencies |-> AtHand(h)]

(* The stage that a list of setups or teardowns starts with.               *)
First(stages, here, after) == IF stages = <<>> THEN after ELSE here

-----------------------------------------------------------------------------
(* Faults a change to the code could bring in.  None is part of the        *)
(* specification: each stands in for the definition named after "for", to  *)
(* see that a property notices.                                            *)

(* for Unlink: rm is given the names, not their paths in the directory     *)
UnlinkNothing ==
  /\ stage = "unlinking" /\ stage' = "collecting"
  /\ UNCHANGED <<storage, request, expected, transfer, nodes, loops, results, lost>>

(* for Link: only the first variation of a run gets its links              *)
LinkOnce ==
  /\ stage = "linking"
  /\ links' = [h \in Hosts |-> IF h \in plan.hosts /\ variation = 1 THEN plan.dependencies ELSE {}]
  /\ stage' = First(plan.setups, "setups", "execute") /\ index' = 1
  /\ UNCHANGED <<storage, request, expected, transfer, top, root, deps, outputs,
                 corrected, run, variation, results, lost>>

(* for NextRound: 1 ..= n for a loop that counts from 0                    *)
NextRoundInclusive ==
  \/ /\ variation <= plan.experiments /\ variation' = variation + 1
     /\ stage' = "making directory" /\ UNCHANGED run
  \/ /\ variation > plan.experiments /\ stage' = "finished" /\ UNCHANGED <<run, variation>>

-----------------------------------------------------------------------------
(* The request.                                                            *)

(* Each file was there already or is among the blobs of c, and what the    *)
(* blob says it is agrees with what the plan uses it for: by its type, or  *)
(* by the only word in its name.                                           *)
Provides(c) ==
  \A f \in CheckedFiles(plan) :
    \/ disk[f] # None
    \/ \E i \in DOMAIN Blobs[c] :
         LET blob == Blobs[c][i]
         IN /\ blob.name = f[2]
            /\ IF blob.type = None THEN Words[f[2]] = {f[1]} \ {"execute"} ELSE blob.type = f[1]

(* Another call of the CLI: POST /run.                                     *)
Submit(c) ==
  /\ stage = "unsent" /\ cli[c] \in {"idle", "uploaded", "failed"}
  /\ stage' = "posted"
  /\ ready' = (cli[c] = "uploaded" /\ Provides(c))
  /\ expected' = settled
  /\ UNCHANGED <<storage, plan, transfer, nodes, loops, results, lost>>

(* validate_files, and generate_experiments, which keeps the base name of  *)
(* each file and looks for it below its type.                              *)
ValidateFiles ==
  /\ stage = "posted"
  /\ stage' = IF Present(CheckedFiles(plan)) THEN "queued" ELSE "rejected"
  /\ UNCHANGED <<storage, request, expected, transfer, nodes, loops, results, lost>>

(* The CLIs and the POST /upload handlers go on.  What the client expects  *)
(* of a path is void when somebody uploads to it before it has been sent.  *)
StorageStep ==
  /\ StorageNext
  /\ expected' = IF stage \in {"posted", "queued", "sending"}
                   THEN [p \in Paths |-> IF settled'[p] = expected[p] THEN expected[p] ELSE None]
                   ELSE expected
  /\ UNCHANGED <<request, stage, transfer, nodes, loops, results, lost>>

-----------------------------------------------------------------------------
(* main_loop: session::upload.                                             *)

CheckFiles ==
  /\ stage = "queued"
  /\ stage' = IF Present(FilesOf(plan)) THEN "sending" ELSE "aborted"
  /\ UNCHANGED <<storage, request, expected, transfer, nodes, loops, results, lost>>

StartScp(h) ==
  /\ stage = "sending" /\ target = None /\ h \in Sessions \ sent
  /\ target' = h /\ left' = FilesOf(plan)
  /\ UNCHANGED <<storage, request, stage, expected, sent, nodes, loops, results, lost>>

EndScp ==
  /\ target' = None /\ left' = {} /\ sent' = sent \cup {target}
  /\ stage' = IF sent' = Sessions THEN "correcting" ELSE stage

(* Files of all types land in one directory, the later over the earlier.   *)
CopyFile(f) ==
  LET h == target
      made == ScpMakes(FilesOf(plan))
  IN /\ stage = "sending" /\ h # None /\ f \in left
     /\ \A g \in left : Rank(f) <= Rank(g)
     /\ top' = [top EXCEPT ![h] = made]
     /\ root' = IF made = "directory"
                  THEN [root EXCEPT ![h][f[2]] =
                          [file |-> f, writers |-> disk[f].writers, executable |-> disk[f].executable]]
                  ELSE root
     /\ IF left = {f} THEN EndScp
                      ELSE left' = left \ {f} /\ UNCHANGED <<target, sent, stage>>
     /\ UNCHANGED <<storage, request, expected, deps, links, outputs, loops, results, lost>>

(* scp cannot log in, or stops half-way: its exit status is ignored.       *)
ScpFails ==
  /\ stage = "sending" /\ target # None
  /\ lost' = lost \cup {target}
  /\ EndScp
  /\ UNCHANGED <<storage, request, expected, nodes, loops, results>>

-----------------------------------------------------------------------------
(* main_loop: remote commands.  A command that cannot be run on one of its *)
(* hosts is an error, although it has been run on others.                  *)

Then(done, hosts, after) == stage' = IF done = hosts THEN after ELSE "aborted"

(* mkdir -p and mv, for each experiment, the same files every time.        *)
CorrectDependencies ==
  /\ stage = "correcting"
  /\ \E done \in SUBSET Sessions :
       /\ top' = [h \in Hosts |-> IF h \in done THEN MkdirBelow(top[h]) ELSE top[h]]
       /\ deps' = [h \in Hosts |->
                     [n \in Names |-> IF h \in done /\ n \in Moved(h) THEN root[h][n] ELSE deps[h][n]]]
       /\ root' = [h \in Hosts |->
                     [n \in Names |-> IF h \in done /\ n \in Moved(h) THEN None ELSE root[h][n]]]
       /\ Then(done, Sessions,
               IF corrected + 1 = plan.experiments THEN "making directory" ELSE "correcting")
  /\ corrected' = corrected + 1
  /\ UNCHANGED <<storage, request, expected, transfer, links, outputs, run, variation, index,
                 results, lost>>

(* The directory is new: every round has its own.                          *)
MakeVariationDirectory ==
  /\ stage = "making directory"
  /\ \E done \in SUBSET Sessions :
       /\ top' = [h \in Hosts |-> IF h \in done THEN MkdirBelow(top[h]) ELSE top[h]]
       /\ Then(done, Sessions, "linking")
  /\ links' = [h \in Hosts |-> {}] /\ outputs' = [h \in Hosts |-> {}]
  /\ UNCHANGED <<storage, request, expected, transfer, root, deps, loops, results, lost>>

(* ln -s makes a link whether or not there is something to link to.        *)
Link ==
  /\ stage = "linking"
  /\ \E done \in SUBSET plan.hosts :
       /\ links' = [h \in Hosts |-> IF h \in done /\ top[h] = "directory" THEN plan.dependencies
                                    ELSE links[h]]
       /\ Then(done, plan.hosts, First(plan.setups, "setups", "execute"))
  /\ index' = 1
  /\ UNCHANGED <<storage, request, expected, transfer, top, root, deps, outputs,
                 corrected, run, variation, results, lost>>

RunScript(hosts, n, step, after) ==
  /\ \E done \in SUBSET hosts :
       /\ outputs' = [h \in Hosts |-> outputs[h] \cup IF h \in done THEN Output(h, n, step) ELSE {}]
       /\ Then(done, hosts, after)
  /\ UNCHANGED <<storage, request, expected, transfer, top, root, deps, links,
                 corrected, run, variation, results, lost>>

RunStage(type, stages, here, after) ==
  LET s == stages[index]
      last == index = Len(stages)
  IN /\ stage = here
     /\ RunScript(s.hosts, s.script, <<type, index>>, IF last THEN after ELSE here)
     /\ index' = IF last THEN 1 ELSE index + 1

RunSetup    == RunStage("setup", plan.setups, "setups", "execute")
RunTeardown == RunStage("teardown", plan.teardowns, "teardowns", "unlinking")

Execute ==
  /\ stage = "execute"
  /\ RunScript(plan.hosts, plan.script, <<"execute", 1>>,
               First(plan.teardowns, "teardowns", "unlinking"))
  /\ UNCHANGED index

Unlink ==
  /\ stage = "unlinking"
  /\ \E done \in SUBSET plan.hosts :
       /\ links' = [h \in Hosts |-> IF h \in done THEN links[h] \ plan.dependencies ELSE links[h]]
       /\ Then(done, plan.hosts, "collecting")
  /\ UNCHANGED <<storage, request, expected, transfer, top, root, deps, outputs, loops,
                 results, lost>>

NextRound ==
  \/ /\ variation < plan.experiments /\ variation' = variation + 1
     /\ stage' = "making directory" /\ UNCHANGED run
  \/ /\ variation = plan.experiments /\ run < plan.runs
     /\ run' = run + 1 /\ variation' = 1 /\ stage' = "making directory"
  \/ /\ variation = plan.experiments /\ run = plan.runs
     /\ stage' = "finished" /\ UNCHANGED <<run, variation>>

(* An scp for each host, whose exit status is ignored too, and the step to *)
(* the next round.                                                         *)
CollectResults ==
  /\ stage = "collecting"
  /\ \E ok \in SUBSET Sessions :
       /\ results' = [h \in Hosts |-> IF h \in ok
                        THEN [results[h] EXCEPT ![<<run, variation>>] = Collected(h)]
                        ELSE results[h]]
       /\ lost' = lost \cup (Sessions \ ok)
  /\ NextRound
  /\ UNCHANGED <<storage, request, expected, transfer, nodes, corrected, index>>

(* connect_to_hosts or make_directories fails, scp cannot be started, or a *)
(* results directory cannot be made.                                       *)
Abort ==
  /\ stage \in {"queued", "sending", "collecting"}
  /\ stage' = "aborted"
  /\ UNCHANGED <<storage, request, expected, transfer, nodes, loops, results, lost>>

RunnerStep ==
  \/ CheckFiles \/ (\E h \in Hosts : StartScp(h)) \/ (\E f \in left : CopyFile(f)) \/ ScpFails
  \/ CorrectDependencies \/ MakeVariationDirectory \/ Link
  \/ RunSetup \/ Execute \/ RunTeardown \/ Unlink \/ CollectResults \/ Abort

Next == StorageStep \/ (\E c \in Clients : Submit(c)) \/ ValidateFiles \/ RunnerStep

Spec == Init /\ [][Next]_vars

-----------------------------------------------------------------------------
(* Properties.                                                             *)

Steps == FileTypes \X Nat

OutputSet == SUBSET [step : Steps, file : FileTypes \X Names,
                     writers : SUBSET (Uploads \cup {Before}), found : SUBSET Names]

StageNames == {"unsent", "posted", "rejected", "queued", "sending", "correcting",
               "making directory", "linking", "setups", "execute", "teardowns",
               "unlinking", "collecting", "finished", "aborted"}

(* Every variable keeps its type, and the loops stay within their bounds.  *)
TypeOK ==
  /\ StorageTypeOK
  /\ plan \in Plans /\ ready \in BOOLEAN /\ stage \in StageNames
  /\ expected \in [Paths -> Uploads \cup {None}]
  /\ target \in Hosts \cup {None} /\ left \subseteq FilesOf(plan) /\ sent \subseteq Sessions
  /\ top \in [Hosts -> {"absent", "file", "directory"}]
  /\ root \in [Hosts -> [Names -> Copies \cup {None}]]
  /\ deps \in [Hosts -> [Names -> Copies \cup {None}]]
  /\ corrected \in 0 .. plan.experiments
  /\ run \in 1 .. plan.runs /\ variation \in 1 .. plan.experiments /\ index \in Nat \ {0}
  /\ links \in [Hosts -> SUBSET Names] /\ outputs \in [Hosts -> OutputSet]
  /\ results \in [Hosts -> [Rounds -> [outputs : OutputSet, dependencies : SUBSET Names]]]
  /\ lost \subseteq Sessions

(* The steps a round takes on host h, with the file that each is to run.   *)
Planned(h) ==
  {<<<<"setup", i>>, <<"setup", plan.setups[i].script>>>> :
     i \in {i \in DOMAIN plan.setups : h \in plan.setups[i].hosts}}
  \cup {<<<<"teardown", i>>, <<"teardown", plan.teardowns[i].script>>>> :
          i \in {i \in DOMAIN plan.teardowns : h \in plan.teardowns[i].hosts}}
  \cup {<<<<"execute", 1>>, <<"execute", plan.script>>>> : i \in {i \in {1} : h \in plan.hosts}}

(* All files of a request share one directory on the hosts.                *)
OneFilePerName == \A f, g \in FilesOf(plan) : f[2] = g[2] => f = g

(* Whoever uploads the files of a request with the CLI and is told of no   *)
(* failure can have it run: validation finds every file below the type the *)
(* configuration uses it for, if the names given without a type say no     *)
(* more than that (parse_upload and upload_data, cli/src/main.rs:178-226;  *)
(* upload, controller/src/routes.rs:72-97; validate_files, parse.rs:790).  *)
UploadedIsFound == stage = "rejected" => ~ready

(* A step that runs, on whatever host, in whatever variation and whatever  *)
(* else happened, is one the plan has for that host, and runs a file of    *)
(* the request with the name the plan gives.  If no two files of the       *)
(* request have the same base name it is the file the plan gives, in the   *)
(* version that the client last had an answer for before it asked for the  *)
(* run, if nobody has uploaded over it before it was sent and no other     *)
(* upload was still at the path when its own opened the file               *)
(* (session::upload, run_remote_execution; controller/src/run.rs:376-405,  *)
(* 792-819).                                                               *)
UploadedVersionRuns ==
  \A h \in Hosts : \A o \in outputs[h] :
    /\ o.file \in FilesOf(plan) /\ \E s \in Planned(h) : s[1] = o.step /\ s[2][2] = o.file[2]
    /\ OneFilePerName => /\ <<o.step, o.file>> \in Planned(h)
                         /\ expected[o.file] # None => o.writers = {expected[o.file]}

(* "these files are then symlinked into the current variation directory   *)
(* so that the script can detect them" (parse.rs:581-582): the script      *)
(* finds every dependency, in every run and every variation, although the  *)
(* files are moved for each experiment and only the first time succeeds    *)
(* (correct_dependencies, symlink_dependencies, controller/src/            *)
(* run.rs:574-619, 821-861).                                               *)
DependenciesAtHand ==
  OneFilePerName =>
    \A h \in Hosts \ lost : \A o \in outputs[h] :
      o.step[1] = "execute" => o.found = plan.dependencies

(* A request that finishes has results of every round from every step on   *)
(* every host that no scp has failed on, and no dependency among them:     *)
(* provided it has more than one file, all of different base names, and    *)
(* each script is an uploaded shell script that nobody has touched         *)
(* (main_loop and collect_results, controller/src/run.rs:407-524,          *)
(* 894-921).                                                               *)
ResultsComplete ==
  stage = "finished" /\ OneFilePerName /\ ScpMakes(FilesOf(plan)) = "directory" =>
    \A h \in Sessions \ lost : \A r \in Rounds :
      /\ results[h][r].dependencies = {}
      /\ \A s \in Planned(h) :
           expected[s[2]] # None /\ s[2][2] \in ShellScripts =>
             \E o \in results[h][r].outputs : o.step = s[1]

(* "we want all resources for that specific experiment to instead populate *)
(* the /srv/experimentah/<timestamp>/ directory" (controller/src/          *)
(* run.rs:391-393): where scp has not failed, that directory is there.     *)
ResourcesInDirectory == \A h \in sent \ lost : top[h] = "directory"

=============================================================================
