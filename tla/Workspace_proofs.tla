-------------------------- MODULE Workspace_proofs --------------------------
(***************************************************************************)
(* Theorems about Workspace, for any users, files, hosts and plans: the    *)
(* runner leaves the storage directory alone, so that what Storage_proofs  *)
(* shows of it is true of the whole; what has been uploaded and answered   *)
(* is found, when a request is made and when its turn comes; every script  *)
(* that runs is the planned one, in the version the client expects; it     *)
(* finds its dependencies; and what finishes has been collected whole.     *)
(*                                                                         *)
(* The version and the dependencies need the way of each file: until the   *)
(* files are sent, what the client expects is what Storage has settled     *)
(* (StillSettled); every copy on a host is of a file of the request, below *)
(* its own name, and of the version expected (CopiesRight); the hosts that *)
(* scp has served without a failure have every dependency, before it is    *)
(* moved or after (Served, AllMoved), and links to all of them (Linked).   *)
(* The results need that scripts are there with their mode (ScriptsThere,  *)
(* Runnable), which steps main_loop is past (Behind), and that no link is  *)
(* left when it collects (LinksGone).                                      *)
(***************************************************************************)
EXTENDS Workspace, Storage_proofs

(* The loops and the stages agree.                                         *)
InLoops ==
  /\ stage \in {"unsent", "posted", "queued", "sending"} => corrected = 0
  /\ stage = "correcting" => corrected < plan.experiments
  /\ stage = "setups" => index \in DOMAIN plan.setups
  /\ stage = "execute" => index = 1
  /\ stage = "teardowns" => index \in DOMAIN plan.teardowns
  /\ target \in Sessions \cup {None}

(* Nothing is on the hosts before the request is made.                     *)
Untouched ==
  stage = "unsent" =>
    \A h \in Hosts : outputs[h] = {} /\ \A n \in Names : root[h][n] = None /\ deps[h][n] = None

(* What is to be found, or sent, is there.                                 *)
ReadyIsPresent ==
  /\ ready => Present(CheckedFiles(plan))
  /\ stage = "rejected" => ~ready
SentIsPresent  == stage = "sending" => Present(FilesOf(plan))

StillSettled ==
  stage \in {"posted", "queued", "sending"} =>
    \A p \in Paths : expected[p] # None => settled[p] = expected[p]

RightVersion(f, writers) ==
  f \in FilesOf(plan) /\ (expected[f] # None => writers = {expected[f]})

CopiesRight ==
  \A h \in Hosts : \A n \in Names :
    /\ root[h][n] # None => root[h][n].file[2] = n /\ RightVersion(root[h][n].file, root[h][n].writers)
    /\ deps[h][n] # None => deps[h][n].file[2] = n /\ deps[h][n].file \in FilesOf(plan)

(* A planned step has run a file of the planned name.                      *)
AsNamed(h, o) == \E s \in Planned(h) : s[1] = o.step /\ s[2][2] = o.file[2]

OutputsRight ==
  \A h \in Hosts : \A o \in outputs[h] :
    /\ RightVersion(o.file, o.writers) /\ AsNamed(h, o)
    /\ OneFilePerName => <<o.step, o.file>> \in Planned(h)

WInv ==
  /\ TypeOK /\ InLoops /\ Untouched /\ ReadyIsPresent /\ SentIsPresent
  /\ StillSettled /\ CopiesRight /\ OutputsRight

(* Whether scp makes a directory.                                          *)
Several == ScpMakes(FilesOf(plan)) = "directory"

Served ==
  \A h \in sent \ lost :
    Several =>
      top[h] = "directory" /\ \A n \in plan.dependencies : root[h][n] # None \/ deps[h][n] # None

(* The same of the host scp is at, for the files it has sent there.        *)
Serving ==
  target # None =>
    /\ stage \in {"sending", "aborted"}
    /\ Several =>
         \A f \in FilesOf(plan) \ left : top[target] = "directory" /\ root[target][f[2]] # None

InRound == {"making directory", "linking", "setups", "execute", "teardowns", "unlinking", "collecting"}

AllMoved ==
  /\ stage = "correcting" \/ stage \in InRound => sent = Sessions
  /\ stage \in InRound =>
       \A h \in Sessions \ lost : \A n \in plan.dependencies : deps[h][n] # None

Linked ==
  stage \in {"setups", "execute"} =>
    \A h \in plan.hosts : top[h] = "directory" => links[h] = plan.dependencies

DInv == Served /\ Serving /\ AllMoved /\ Linked /\ DependenciesAtHand

-----------------------------------------------------------------------------
(* The runner leaves the storage directory alone.                          *)

(* No step of the request writes to the storage directory or moves a       *)
(* client.                                                                 *)
LEMMA RunnerLeavesStorage ==
  ASSUME NEW c, ValidateFiles \/ RunnerStep \/ Submit(c)
  PROVE  UNCHANGED storage
BY DEF ValidateFiles, RunnerStep, Submit, CheckFiles, StartScp, CopyFile, ScpFails,
       CorrectDependencies, MakeVariationDirectory, Link, RunSetup, RunStage, Execute, RunTeardown,
       RunScript, Unlink, CollectResults, Abort

(* Every step is one of the storage directory, or none.                    *)
LEMMA StepOfStorage == [Next]_vars => [StorageNext]_storage
<1>1. Next => [StorageNext]_storage
  BY RunnerLeavesStorage DEF Next, StorageStep
<1>2. UNCHANGED vars => UNCHANGED storage
  BY DEF vars
<1> QED BY <1>1, <1>2

(* The controller with its runner is one of the behaviours of the storage  *)
(* directory alone: no step of main_loop changes what is stored            *)
(* (controller/src/run.rs:360-531, session.rs:228-276).                    *)
THEOREM Composition == Spec => StorageSpec
<1>1. Init => StorageInit
  BY DEF Init
<1> QED BY <1>1, StepOfStorage, PTL DEF Spec, StorageSpec

(* An answered upload whose handler did not overlap with another at its    *)
(* path is stored whole also while requests are run (controller/src/       *)
(* routes.rs:96-107).                                                      *)
THEOREM StoredThroughout == Spec => []AnsweredIsStored
BY Composition, Stored, PTL

(* No client that leaves leaves half a file behind, also while requests    *)
(* are run (controller/src/routes.rs:92-107).                              *)
THEOREM WholeThroughout == Spec => []NothingLeftHalfWritten
BY Composition, Whole, PTL

-----------------------------------------------------------------------------
(* Plans and their files.                                                  *)

(* The parts of setups and teardowns.                                      *)
LEMMA StagesType ==
  ASSUME NEW stages \in Stages
  PROVE  /\ Len(stages) \in Nat /\ DOMAIN stages = 1 .. Len(stages)
         /\ \A i \in DOMAIN stages : stages[i].script \in Names /\ stages[i].hosts \subseteq Hosts
<1> DEFINE Entry == [script : Names, hosts : SUBSET Hosts]
<1>1. stages \in Seq(Entry)
  BY DEF Stages
<1>2. \A e \in Entry : e.script \in Names /\ e.hosts \subseteq Hosts
  OBVIOUS
<1> HIDE DEF Entry
<1>3. /\ Len(stages) \in Nat /\ DOMAIN stages = 1 .. Len(stages)
      /\ \A i \in DOMAIN stages : stages[i] \in Entry
  BY <1>1
<1> QED BY <1>2, <1>3

(* The parts of a plan, its hosts and its files.                           *)
LEMMA PlanType ==
  ASSUME plan \in Plans
  PROVE  /\ plan.script \in Names /\ plan.hosts \subseteq Hosts
         /\ plan.dependencies \subseteq Names
         /\ plan.setups \in Stages /\ plan.teardowns \in Stages
         /\ plan.runs \in Nat \ {0} /\ plan.experiments \in Nat \ {0}
         /\ Sessions \subseteq Hosts /\ plan.hosts \subseteq Sessions
         /\ \A i \in DOMAIN plan.setups : plan.setups[i].hosts \subseteq Sessions
         /\ \A i \in DOMAIN plan.teardowns : plan.teardowns[i].hosts \subseteq Sessions
         /\ FilesOf(plan) \subseteq FileTypes \X Names
         /\ FilesOf(plan) \subseteq CheckedFiles(plan) /\ FilesOf(plan) # {}
<1>1. /\ plan.script \in Names /\ plan.hosts \subseteq Hosts
      /\ plan.dependencies \subseteq Names
      /\ plan.setups \in Stages /\ plan.teardowns \in Stages
      /\ plan.runs \in Nat \ {0} /\ plan.experiments \in Nat \ {0}
      /\ plan.others \subseteq Hosts
  BY WorkspaceAssumption DEF WorkspaceAssumption
<1>2. /\ \A i \in DOMAIN plan.setups : /\ plan.setups[i].script \in Names
                                       /\ plan.setups[i].hosts \subseteq Hosts
      /\ \A i \in DOMAIN plan.teardowns : /\ plan.teardowns[i].script \in Names
                                          /\ plan.teardowns[i].hosts \subseteq Hosts
  BY <1>1, StagesType
<1>3. /\ Sessions \subseteq Hosts /\ plan.hosts \subseteq Sessions
      /\ \A i \in DOMAIN plan.setups : plan.setups[i].hosts \subseteq Sessions
      /\ \A i \in DOMAIN plan.teardowns : plan.teardowns[i].hosts \subseteq Sessions
  BY <1>1, <1>2 DEF Sessions, StageHosts
<1>4. "execute" \in FileTypes /\ "setup" \in FileTypes
      /\ "teardown" \in FileTypes /\ "dependency" \in FileTypes
  <2>1. DOMAIN TypeWords = 1 .. 4
    BY DEF TypeWords
  <2>2. TypeWords[1] = "setup" /\ TypeWords[2] = "teardown" /\ TypeWords[3] = "dependency"
    BY DEF TypeWords
  <2> QED BY <2>1, <2>2 DEF FileTypes
<1>5. FilesOf(plan) \subseteq FileTypes \X Names
  BY <1>1, <1>2, <1>4 DEF FilesOf, StageFiles
<1>6. FilesOf(plan) \subseteq CheckedFiles(plan) /\ <<"execute", plan.script>> \in FilesOf(plan)
  BY DEF FilesOf, CheckedFiles
<1> QED BY <1>1, <1>3, <1>5, <1>6
-----------------------------------------------------------------------------
(* What a step has to do with the files.                                   *)

(* What has been uploaded and answered for is where validation looks.      *)
LEMMA ProvidedIsPresent ==
  ASSUME IInv, Delivered, plan \in Plans, NEW c \in Clients, cli[c] = "uploaded", Provides(c)
  PROVE  Present(CheckedFiles(plan))
<1> SUFFICES ASSUME NEW f \in CheckedFiles(plan), disk[f] = None PROVE FALSE
  BY DEF Present
<1>1. PICK i \in DOMAIN Blobs[c] :
        /\ Blobs[c][i].name = f[2]
        /\ IF Blobs[c][i].type = None THEN Words[f[2]] = {f[1]} \ {"execute"}
                                      ELSE Blobs[c][i].type = f[1]
  BY DEF Provides
<1>2. f = <<f[1], f[2]>> /\ f[1] \in {"execute", "setup", "teardown", "dependency"}
  BY DEF CheckedFiles, FilesOf, StageFiles
<1>3. TypeOf(Blobs[c][i]) = f[1]
  <2>1. CASE Blobs[c][i].type # None
    BY <1>1, <2>1 DEF TypeOf
  <2>2. CASE Blobs[c][i].type = None
    <3>1. TypeOf(Blobs[c][i]) = Inferred(f[2]) /\ Words[f[2]] = {f[1]} \ {"execute"}
      BY <1>1, <2>2 DEF TypeOf
    <3> DEFINE found == {j \in DOMAIN TypeWords : TypeWords[j] \in Words[f[2]]}
    <3>2. /\ DOMAIN TypeWords = {1, 2, 3, 4}
          /\ TypeWords[1] = "setup" /\ TypeWords[2] = "teardown" /\ TypeWords[3] = "dependency"
          /\ TypeWords[4] = "exporter"
      BY DEF TypeWords
    <3>3. CASE f[1] = "execute"
      <4>1. found = {}
        BY <3>1, <3>3
      <4> QED BY <3>1, <3>3, <4>1 DEF Inferred
    <3>4. CASE f[1] # "execute"
      <4>1. PICK j \in DOMAIN TypeWords : TypeWords[j] = f[1]
        BY <1>2, <3>2, <3>4
      <4>2. found = {j}
        BY <3>1, <3>2, <3>4, <4>1
      <4>3. (CHOOSE i2 \in found : \A j2 \in found : i2 <= j2) = j
        BY <3>2, <4>2
      <4> QED BY <3>1, <4>1, <4>2, <4>3 DEF Inferred
    <3> QED BY <3>3, <3>4
  <2> QED BY <2>1, <2>2
<1>4. PathOf(c, i) = f
  <2>1. PathOf(c, i) = <<TypeOf(Blobs[c][i]), Blobs[c][i].name>>
    BY DEF PathOf, Target, Form
  <2> QED BY <1>1, <1>2, <1>3, <2>1
<1> QED BY <1>1, <1>4 DEF Delivered

(* Files that are present stay so, whichever step is taken.                *)
LEMMA PresentStays ==
  ASSUME IInv, IInv', [StorageNext]_storage, NEW files \in SUBSET Paths, Present(files)
  PROVE  Present(files)'
<1>1. CASE StorageNext
  BY <1>1, FilesStay DEF Present
<1>2. CASE UNCHANGED storage
  BY <1>2 DEF Present, storage
<1> QED BY <1>1, <1>2

(* Every file that is looked up is at a path of the storage directory.     *)
LEMMA CheckedFilesType ==
  ASSUME plan \in Plans
  PROVE  CheckedFiles(plan) \subseteq Paths /\ FilesOf(plan) \subseteq Paths
<1>1. FilesOf(plan) \subseteq FileTypes \X Names
  BY PlanType
<1>2. plan.stage_dependencies \subseteq Names
  BY WorkspaceAssumption DEF WorkspaceAssumption
<1>3. "dependency" \in FileTypes
  <2>1. 3 \in DOMAIN TypeWords /\ TypeWords[3] = "dependency"
    BY DEF TypeWords
  <2> QED BY <2>1 DEF FileTypes
<1> QED BY <1>1, <1>2, <1>3 DEF CheckedFiles, Paths

-----------------------------------------------------------------------------
(* The invariant of the request holds at first.                            *)
LEMMA WInit == Init => WInv
<1> SUFFICES ASSUME Init PROVE WInv
  OBVIOUS
<1>1. /\ plan \in Plans /\ stage = "unsent" /\ ready = FALSE /\ corrected = 0
      /\ plan.runs \in Nat \ {0} /\ plan.experiments \in Nat \ {0}
  BY PlanType DEF Init
<1>2. TypeOK
  <2>1. StorageTypeOK
    BY InitInv DEF Init, IInv
  <2>2. /\ root \in [Hosts -> [Names -> Copies \cup {None}]]
        /\ deps \in [Hosts -> [Names -> Copies \cup {None}]]
        /\ links \in [Hosts -> SUBSET Names] /\ outputs \in [Hosts -> OutputSet]
    BY DEF Init, Nothing, OutputSet
  <2>3. results \in [Hosts -> [Rounds -> [outputs : OutputSet, dependencies : SUBSET Names]]]
    BY DEF Init, OutputSet
  <2>4. /\ expected \in [Paths -> Uploads \cup {None}]
        /\ target \in Hosts \cup {None} /\ left \subseteq FilesOf(plan) /\ sent \subseteq Sessions
        /\ top \in [Hosts -> {"absent", "file", "directory"}] /\ lost \subseteq Sessions
    BY DEF Init
  <2>5. corrected \in 0 .. plan.experiments /\ run \in 1 .. plan.runs
        /\ variation \in 1 .. plan.experiments /\ index \in Nat \ {0}
    BY <1>1 DEF Init
  <2> QED BY <1>1, <2>1, <2>2, <2>3, <2>4, <2>5 DEF TypeOK, StageNames
<1>3. InLoops /\ ReadyIsPresent /\ SentIsPresent /\ StillSettled
  BY <1>1 DEF Init, InLoops, ReadyIsPresent, SentIsPresent, StillSettled
<1>4. Untouched /\ CopiesRight /\ OutputsRight
  BY DEF Init, Nothing, Untouched, CopiesRight, OutputsRight
<1> QED BY <1>2, <1>3, <1>4 DEF WInv
-----------------------------------------------------------------------------
(* Steps keep WInv.                                                        *)

(* What is said of the plan stands as long as the plan does.               *)
LEMMA PlanKept ==
  ASSUME plan' = plan
  PROVE  /\ Sessions' = Sessions /\ Rounds' = Rounds
         /\ OneFilePerName' <=> OneFilePerName
         /\ Several' <=> Several
         /\ \A h : Planned(h)' = Planned(h)
BY DEF Sessions, StageHosts, Rounds, OneFilePerName, Several, Planned

(* An expectation only ever goes away: what was right stays right.         *)
LEMMA CopiesKept ==
  ASSUME WInv, plan' = plan, root' = root, deps' = deps,
         \A p \in Paths : expected'[p] # None => expected'[p] = expected[p]
  PROVE  CopiesRight'
<1>1. FilesOf(plan) \subseteq Paths
  BY CheckedFilesType DEF WInv, TypeOK
<1>2. \A f, writers : RightVersion(f, writers) => RightVersion(f, writers)'
  BY <1>1 DEF RightVersion
<1> QED BY <1>2 DEF WInv, CopiesRight

(* The same for what has run.                                              *)
LEMMA OutputsKept ==
  ASSUME WInv, plan' = plan, outputs' = outputs,
         \A p \in Paths : expected'[p] # None => expected'[p] = expected[p]
  PROVE  OutputsRight'
<1>1. FilesOf(plan) \subseteq Paths
  BY CheckedFilesType DEF WInv, TypeOK
<1>2. \A f, writers : RightVersion(f, writers) => RightVersion(f, writers)'
  BY <1>1 DEF RightVersion
<1>3. \A h, o : AsNamed(h, o) => AsNamed(h, o)'
  BY PlanKept DEF AsNamed
<1> QED BY <1>2, <1>3, PlanKept DEF WInv, OutputsRight

(* An upload can only make an expectation void.                            *)
LEMMA StorageStepKeeps ==
  ASSUME IInv, IInv', WInv, StorageStep
  PROVE  WInv'
<1>1. /\ StorageNext
      /\ expected' = IF stage \in {"posted", "queued", "sending"}
                       THEN [p \in Paths |-> IF settled'[p] = expected[p] THEN expected[p] ELSE None]
                       ELSE expected
      /\ UNCHANGED <<plan, ready, stage, target, left, sent, top, root, deps, links, outputs,
                     corrected, run, variation, index, results, lost>>
  BY DEF StorageStep, request, transfer, nodes, loops
<1>2. expected' \in [Paths -> Uploads \cup {None}]
  BY <1>1 DEF WInv, TypeOK
<1>3. \A p \in Paths : expected'[p] # None => expected'[p] = expected[p]
  BY <1>1
<1>4. TypeOK'
  BY <1>1, <1>2, PlanKept DEF WInv, TypeOK, IInv
<1>5. InLoops' /\ Untouched'
  BY <1>1, PlanKept DEF WInv, InLoops, Untouched
<1>6. ReadyIsPresent' /\ SentIsPresent'
  <2>1. CheckedFiles(plan) \subseteq Paths /\ FilesOf(plan) \subseteq Paths
    BY CheckedFilesType DEF WInv, TypeOK
  <2>2. /\ Present(CheckedFiles(plan)) => Present(CheckedFiles(plan))'
        /\ Present(FilesOf(plan)) => Present(FilesOf(plan))'
    BY <1>1, <2>1, PresentStays
  <2> QED BY <1>1, <2>2 DEF WInv, ReadyIsPresent, SentIsPresent
<1>7. StillSettled'
  BY <1>1 DEF StillSettled
<1>8. CopiesRight' /\ OutputsRight'
  BY <1>1, <1>3, CopiesKept, OutputsKept
<1> QED BY <1>4, <1>5, <1>6, <1>7, <1>8 DEF WInv

(* What the client has been answered for is present when it asks for the   *)
(* run.                                                                    *)
LEMMA SubmitKeeps ==
  ASSUME IInv, Delivered, WInv, NEW c \in Clients, Submit(c)
  PROVE  WInv'
<1>1. /\ stage = "unsent" /\ stage' = "posted"
      /\ ready' = (cli[c] = "uploaded" /\ Provides(c)) /\ expected' = settled
      /\ UNCHANGED <<disk, handler, cli, next, posted, settled>>
      /\ UNCHANGED <<plan, target, left, sent, top, root, deps, links, outputs,
                     corrected, run, variation, index, results, lost>>
  BY DEF Submit, storage, transfer, nodes, loops
<1>2. TypeOK'
  <2>1. ready' \in BOOLEAN
    BY <1>1
  <2>2. StorageTypeOK'
    BY <1>1 DEF IInv, StorageTypeOK
  <2> QED BY <1>1, <2>1, <2>2, PlanKept DEF WInv, TypeOK, IInv, StorageTypeOK, StageNames
<1>3. InLoops' /\ Untouched' /\ SentIsPresent'
  BY <1>1, PlanKept DEF WInv, InLoops, Untouched, SentIsPresent
<1>4. ReadyIsPresent'
  <2>1. ready' => Present(CheckedFiles(plan))
    BY <1>1, ProvidedIsPresent DEF WInv, TypeOK
  <2> QED BY <1>1, <2>1 DEF ReadyIsPresent, Present
<1>5. StillSettled'
  BY <1>1 DEF StillSettled
<1>6. CopiesRight' /\ OutputsRight'
  BY <1>1 DEF WInv, Untouched, CopiesRight, OutputsRight
<1> QED BY <1>2, <1>3, <1>4, <1>5, <1>6 DEF WInv

(* ValidateFiles, CheckFiles and Abort change the stage only.              *)
LEMMA StageKeeps ==
  ASSUME WInv, ValidateFiles \/ CheckFiles \/ Abort
  PROVE  WInv'
<1>1. /\ UNCHANGED <<disk, handler, cli, next, posted, settled>>
      /\ UNCHANGED <<plan, ready, expected, target, left, sent, top, root, deps, links, outputs,
                     corrected, run, variation, index, results, lost>>
      /\ stage \in {"posted", "queued", "sending", "collecting"}
      /\ \/ stage = "posted" /\ stage' = "queued"
         \/ stage = "posted" /\ stage' = "rejected" /\ ~Present(CheckedFiles(plan))
         \/ stage = "queued" /\ stage' = "sending" /\ Present(FilesOf(plan))
         \/ stage' = "aborted"
  BY DEF ValidateFiles, CheckFiles, Abort, storage, request, transfer, nodes, loops
<1>2. TypeOK'
  BY <1>1, PlanKept DEF WInv, TypeOK, StorageTypeOK, StageNames
<1>3. InLoops' /\ Untouched'
  BY <1>1, PlanKept DEF WInv, InLoops, Untouched
<1>4. ReadyIsPresent' /\ SentIsPresent'
  BY <1>1 DEF WInv, ReadyIsPresent, SentIsPresent, Present
<1>5. StillSettled'
  BY <1>1 DEF WInv, StillSettled
<1>6. CopiesRight' /\ OutputsRight'
  BY <1>1, CopiesKept, OutputsKept
<1> QED BY <1>2, <1>3, <1>4, <1>5, <1>6 DEF WInv

(* The start of a copy leaves hosts and files alone.                       *)
LEMMA StartScpKeeps ==
  ASSUME WInv, NEW h \in Hosts, StartScp(h)
  PROVE  WInv'
<1>1. /\ UNCHANGED <<disk, handler, cli, next, posted, settled>>
      /\ UNCHANGED <<plan, ready, stage, expected, sent, top, root, deps, links, outputs,
                     corrected, run, variation, index, results, lost>>
      /\ target' = h /\ left' = FilesOf(plan) /\ h \in Sessions
  BY DEF StartScp, storage, request, nodes, loops
<1>2. TypeOK'
  BY <1>1, PlanKept DEF WInv, TypeOK, StorageTypeOK
<1>3. InLoops' /\ Untouched'
  BY <1>1, PlanKept DEF WInv, InLoops, Untouched
<1>4. ReadyIsPresent' /\ SentIsPresent' /\ StillSettled'
  BY <1>1 DEF WInv, ReadyIsPresent, SentIsPresent, Present, StillSettled
<1>5. CopiesRight' /\ OutputsRight'
  BY <1>1, CopiesKept, OutputsKept
<1> QED BY <1>2, <1>3, <1>4, <1>5 DEF WInv
(* What scp writes is a copy of the version expected: the file is there    *)
(* and nobody has uploaded to it since it was settled.                     *)
LEMMA CopyRight ==
  ASSUME IInv, WInv, stage = "sending", NEW f \in FilesOf(plan)
  PROVE  /\ f = <<f[1], f[2]>> /\ f[1] \in FileTypes /\ f[2] \in Names
         /\ [file |-> f, writers |-> disk[f].writers, executable |-> disk[f].executable] \in Copies
         /\ RightVersion(f, disk[f].writers)
<1>1. FilesOf(plan) \subseteq FileTypes \X Names /\ f \in Paths
  BY PlanType, CheckedFilesType DEF WInv, TypeOK
<1>2. disk[f] \in Contents
  BY <1>1 DEF WInv, SentIsPresent, Present, IInv, StorageTypeOK
<1>3. disk[f].writers \in SUBSET (Uploads \cup {Before}) /\ disk[f].executable \in BOOLEAN
  BY <1>2 DEF Contents
<1>4. RightVersion(f, disk[f].writers)
  <2> SUFFICES ASSUME expected[f] # None PROVE disk[f].writers = {expected[f]}
    BY DEF RightVersion
  <2>1. settled[f] = expected[f]
    BY <1>1 DEF WInv, StillSettled
  <2>2. /\ handler[settled[f]].path = f /\ handler[settled[f]].pc = "saved"
        /\ handler[settled[f]].alone /\ settled[f] \in Uploads
    BY <1>1, <2>1 DEF IInv, SettledIsAlone
  <2>3. Left(settled[f], "saved", f, disk[f])
    BY <1>1, <2>2 DEF IInv, AloneSees
  <2> QED BY <2>1, <2>3 DEF Left
<1> QED BY <1>1, <1>3, <1>4 DEF Copies

(* The end of scp for a host, successful or not.                           *)
LEMMA EndScpKeeps ==
  ASSUME WInv, stage = "sending", target # None, EndScp
  PROVE  /\ target' = None /\ left' = {} /\ sent' = sent \cup {target} /\ sent' \subseteq Sessions
         /\ stage' = (IF sent' = Sessions THEN "correcting" ELSE "sending")
BY DEF WInv, TypeOK, InLoops, EndScp

(* A file is copied below its own name, in the version settled then.       *)
LEMMA CopyFileKeeps ==
  ASSUME IInv, WInv, NEW f \in left, CopyFile(f)
  PROVE  WInv'
<1> DEFINE copy == [file |-> f, writers |-> disk[f].writers, executable |-> disk[f].executable]
           made == ScpMakes(FilesOf(plan))
<1>1. /\ stage = "sending" /\ target # None /\ target \in Sessions /\ target \in Hosts
      /\ top' = [top EXCEPT ![target] = made]
      /\ root' = IF made = "directory" THEN [root EXCEPT ![target][f[2]] = copy] ELSE root
      /\ UNCHANGED <<disk, handler, cli, next, posted, settled>>
      /\ UNCHANGED <<plan, ready, expected, deps, links, outputs,
                     corrected, run, variation, index, results, lost>>
      /\ EndScp \/ (left' = left \ {f} /\ UNCHANGED <<target, sent, stage>>)
  BY PlanType DEF CopyFile, storage, request, loops, WInv, TypeOK, InLoops
<1>2. f \in FilesOf(plan) /\ made \in {"file", "directory"}
  BY DEF WInv, TypeOK, ScpMakes
<1>3. f[2] \in Names /\ copy \in Copies /\ RightVersion(f, disk[f].writers)
  BY <1>1, <1>2, CopyRight
<1>4. copy.file = f /\ copy.writers = disk[f].writers
  OBVIOUS
<1> HIDE DEF copy, made
<1>5. /\ stage' \in {"sending", "correcting"} /\ target' \in {target, None}
      /\ left' \subseteq left /\ sent' \subseteq Sessions
  BY <1>1, EndScpKeeps DEF WInv, TypeOK
<1>6. root' \in [Hosts -> [Names -> Copies \cup {None}]]
  BY <1>1, <1>3 DEF WInv, TypeOK
<1>7. TypeOK'
  <2>1. top' \in [Hosts -> {"absent", "file", "directory"}]
    BY <1>1, <1>2 DEF WInv, TypeOK
  <2>2. StorageTypeOK'
    BY <1>1 DEF WInv, TypeOK, StorageTypeOK
  <2> QED BY <1>1, <1>5, <1>6, <2>1, <2>2, PlanKept DEF WInv, TypeOK, StageNames
<1>8. InLoops' /\ Untouched' /\ ReadyIsPresent' /\ SentIsPresent' /\ StillSettled'
  <2>1. plan.experiments \in Nat \ {0}
    BY PlanType DEF WInv, TypeOK
  <2> QED BY <1>1, <1>5, <2>1, PlanKept DEF WInv, InLoops, Untouched, ReadyIsPresent,
                                          SentIsPresent, Present, StillSettled
<1>9. CopiesRight'
  <2> SUFFICES ASSUME NEW h \in Hosts, NEW n \in Names
               PROVE  /\ root'[h][n] # None => /\ root'[h][n].file[2] = n
                                              /\ RightVersion(root'[h][n].file, root'[h][n].writers)
                      /\ deps[h][n] # None => deps[h][n].file[2] = n /\ deps[h][n].file \in FilesOf(plan)
    BY <1>1 DEF CopiesRight, RightVersion
  <2>1. root'[h][n] = root[h][n] \/ (n = f[2] /\ root'[h][n] = copy)
    BY <1>1, <1>3 DEF WInv, TypeOK
  <2> QED BY <1>3, <1>4, <2>1 DEF WInv, CopiesRight
<1>10. OutputsRight'
  BY <1>1, OutputsKept
<1> QED BY <1>7, <1>8, <1>9, <1>10 DEF WInv

(* A copy that breaks off leaves what has been copied.                     *)
LEMMA ScpFailsKeeps ==
  ASSUME WInv, ScpFails
  PROVE  WInv'
<1>1. /\ stage = "sending" /\ target # None /\ EndScp /\ lost' = lost \cup {target}
      /\ UNCHANGED <<disk, handler, cli, next, posted, settled>>
      /\ UNCHANGED <<plan, ready, expected, top, root, deps, links, outputs,
                     corrected, run, variation, index, results>>
  BY DEF ScpFails, storage, request, nodes, loops
<1>2. /\ target' = None /\ left' = {} /\ sent' \subseteq Sessions
      /\ stage' \in {"sending", "correcting"} /\ target \in Sessions
  BY <1>1, EndScpKeeps DEF WInv, InLoops
<1>3. TypeOK'
  BY <1>1, <1>2, PlanKept DEF WInv, TypeOK, StorageTypeOK, StageNames
<1>4. InLoops' /\ Untouched' /\ ReadyIsPresent' /\ SentIsPresent' /\ StillSettled'
  <2>1. plan.experiments \in Nat \ {0}
    BY PlanType DEF WInv, TypeOK
  <2> QED BY <1>1, <1>2, <2>1, PlanKept DEF WInv, InLoops, Untouched, ReadyIsPresent,
                                          SentIsPresent, Present, StillSettled
<1>5. CopiesRight' /\ OutputsRight'
  BY <1>1, CopiesKept, OutputsKept
<1> QED BY <1>3, <1>4, <1>5 DEF WInv
(* mkdir -p turns nothing into a directory and leaves the rest.            *)
LEMMA MkdirType ==
  ASSUME NEW kind \in {"absent", "file", "directory"}
  PROVE  /\ MkdirBelow(kind) \in {"absent", "file", "directory"}
         /\ kind = "directory" => MkdirBelow(kind) = "directory"
BY DEF MkdirBelow

(* The counter of correct_dependencies stays within its bound.             *)
LEMMA Below ==
  \A i, n \in Nat : i < n => i + 1 \in 0 .. n /\ (i + 1 # n => i + 1 < n)
OBVIOUS

(* A file that is moved is the same file below the same name.              *)
LEMMA CorrectDependenciesKeeps ==
  ASSUME WInv, CorrectDependencies
  PROVE  WInv'
<1>1. /\ stage = "correcting" /\ corrected' = corrected + 1
      /\ UNCHANGED <<disk, handler, cli, next, posted, settled>>
      /\ UNCHANGED <<plan, ready, expected, target, left, sent, links, outputs, run, variation, index,
                     results, lost>>
  BY DEF CorrectDependencies, storage, request, transfer
<1>2. PICK done \in SUBSET Sessions :
        /\ top' = [h \in Hosts |-> IF h \in done THEN MkdirBelow(top[h]) ELSE top[h]]
        /\ deps' = [h \in Hosts |->
                      [n \in Names |-> IF h \in done /\ n \in Moved(h) THEN root[h][n] ELSE deps[h][n]]]
        /\ root' = [h \in Hosts |->
                      [n \in Names |-> IF h \in done /\ n \in Moved(h) THEN None ELSE root[h][n]]]
        /\ Then(done, Sessions,
                IF corrected + 1 = plan.experiments THEN "making directory" ELSE "correcting")
  BY DEF CorrectDependencies
<1>3. /\ corrected \in Nat /\ corrected < plan.experiments /\ plan.experiments \in Nat
      /\ corrected' \in 0 .. plan.experiments
      /\ \/ stage' = "making directory" \/ stage' = "aborted"
         \/ stage' = "correcting" /\ corrected' < plan.experiments
  <2>1. plan.experiments \in Nat
    BY PlanType DEF WInv, TypeOK
  <2>2. corrected \in Nat /\ corrected < plan.experiments
    BY <1>1, <2>1 DEF WInv, TypeOK, InLoops
  <2>3. \/ stage' = "making directory" \/ stage' = "aborted"
        \/ stage' = "correcting" /\ corrected + 1 # plan.experiments
    BY <1>2 DEF Then
  <2>4. corrected' = corrected + 1
    BY <1>1
  <2>5. corrected' \in 0 .. plan.experiments
    BY <2>1, <2>2, <2>4, Below
  <2>6. corrected + 1 # plan.experiments => corrected' < plan.experiments
    BY <2>1, <2>2, <2>4, Below
  <2> QED BY <2>1, <2>2, <2>3, <2>5, <2>6
<1>4. TypeOK'
  <2>1. top' \in [Hosts -> {"absent", "file", "directory"}]
    BY <1>2, MkdirType DEF WInv, TypeOK
  <2>2. root' \in [Hosts -> [Names -> Copies \cup {None}]]
    BY <1>2 DEF WInv, TypeOK
  <2>3. deps' \in [Hosts -> [Names -> Copies \cup {None}]]
    BY <1>2 DEF WInv, TypeOK
  <2>4. corrected' \in 0 .. plan.experiments
    BY <1>3
  <2>6. stage' \in StageNames
    BY <1>3 DEF StageNames
  <2>5. StorageTypeOK'
    BY <1>1 DEF WInv, TypeOK, StorageTypeOK
  <2> QED BY <1>1, <2>1, <2>2, <2>3, <2>4, <2>5, <2>6, PlanKept DEF WInv, TypeOK
<1>5. InLoops' /\ Untouched' /\ ReadyIsPresent' /\ SentIsPresent' /\ StillSettled'
  BY <1>1, <1>3, PlanKept DEF WInv, InLoops, Untouched, ReadyIsPresent, SentIsPresent, Present,
                              StillSettled
<1>6. CopiesRight'
  <2> SUFFICES ASSUME NEW h \in Hosts, NEW n \in Names
               PROVE  /\ root'[h][n] # None => /\ root'[h][n].file[2] = n
                                              /\ RightVersion(root'[h][n].file, root'[h][n].writers)
                      /\ deps'[h][n] # None => /\ deps'[h][n].file[2] = n
                                              /\ deps'[h][n].file \in FilesOf(plan)
    BY <1>1 DEF CopiesRight, RightVersion
  <2>1. root'[h][n] \in {root[h][n], None} /\ deps'[h][n] \in {deps[h][n], root[h][n]}
    BY <1>2
  <2> QED BY <2>1 DEF WInv, CopiesRight, RightVersion
<1>7. OutputsRight'
  BY <1>1, OutputsKept
<1> QED BY <1>4, <1>5, <1>6, <1>7 DEF WInv

(* A new directory has no outputs and no links.                            *)
LEMMA MakeVariationDirectoryKeeps ==
  ASSUME WInv, MakeVariationDirectory
  PROVE  WInv'
<1>1. /\ stage = "making directory"
      /\ links' = [h \in Hosts |-> {}] /\ outputs' = [h \in Hosts |-> {}]
      /\ UNCHANGED <<disk, handler, cli, next, posted, settled>>
      /\ UNCHANGED <<plan, ready, expected, target, left, sent, root, deps,
                     corrected, run, variation, index, results, lost>>
  BY DEF MakeVariationDirectory, storage, request, transfer, loops
<1>2. PICK done \in SUBSET Sessions :
        /\ top' = [h \in Hosts |-> IF h \in done THEN MkdirBelow(top[h]) ELSE top[h]]
        /\ Then(done, Sessions, "linking")
  BY DEF MakeVariationDirectory
<1>3. stage' \in {"linking", "aborted"}
  BY <1>2 DEF Then
<1>4. TypeOK'
  <2>1. top' \in [Hosts -> {"absent", "file", "directory"}]
    BY <1>2, MkdirType DEF WInv, TypeOK
  <2>2. links' \in [Hosts -> SUBSET Names] /\ outputs' \in [Hosts -> OutputSet]
    BY <1>1 DEF OutputSet
  <2>3. StorageTypeOK'
    BY <1>1 DEF WInv, TypeOK, StorageTypeOK
  <2> QED BY <1>1, <1>3, <2>1, <2>2, <2>3, PlanKept DEF WInv, TypeOK, StageNames
<1>5. InLoops' /\ Untouched' /\ ReadyIsPresent' /\ SentIsPresent' /\ StillSettled'
  BY <1>1, <1>3, PlanKept DEF WInv, InLoops, Untouched, ReadyIsPresent, SentIsPresent, Present,
                              StillSettled
<1>6. CopiesRight'
  BY <1>1, CopiesKept
<1>7. OutputsRight'
  BY <1>1 DEF OutputsRight
<1> QED BY <1>4, <1>5, <1>6, <1>7 DEF WInv

(* Links touch neither files nor outputs.                                  *)
LEMMA LinkKeeps ==
  ASSUME WInv, Link
  PROVE  WInv'
<1>1. /\ stage = "linking" /\ index' = 1
      /\ UNCHANGED <<disk, handler, cli, next, posted, settled>>
      /\ UNCHANGED <<plan, ready, expected, target, left, sent, top, root, deps, outputs,
                     corrected, run, variation, results, lost>>
  BY DEF Link, storage, request, transfer
<1>2. PICK done \in SUBSET plan.hosts :
        /\ links' = [h \in Hosts |-> IF h \in done /\ top[h] = "directory" THEN plan.dependencies
                                     ELSE links[h]]
        /\ Then(done, plan.hosts, First(plan.setups, "setups", "execute"))
  BY DEF Link
<1>3. \/ stage' = "setups" /\ 1 \in DOMAIN plan.setups
      \/ stage' \in {"execute", "aborted"}
  BY <1>2, PlanType, StagesType DEF Then, First, WInv, TypeOK
<1>4. TypeOK'
  <2>1. links' \in [Hosts -> SUBSET Names]
    <3>1. plan.dependencies \in SUBSET Names
      BY PlanType DEF WInv, TypeOK
    <3>2. links \in [Hosts -> SUBSET Names]
      BY DEF WInv, TypeOK
    <3> QED BY <1>2, <3>1, <3>2
  <2>2. StorageTypeOK'
    BY <1>1 DEF WInv, TypeOK, StorageTypeOK
  <2>3. stage' \in StageNames
    BY <1>3 DEF StageNames
  <2> QED BY <1>1, <2>1, <2>2, <2>3, PlanKept DEF WInv, TypeOK
<1>5. InLoops' /\ Untouched' /\ ReadyIsPresent' /\ SentIsPresent' /\ StillSettled'
  BY <1>1, <1>3, PlanKept DEF WInv, InLoops, Untouched, ReadyIsPresent, SentIsPresent, Present,
                              StillSettled
<1>6. CopiesRight' /\ OutputsRight'
  BY <1>1, CopiesKept, OutputsKept
<1> QED BY <1>4, <1>5, <1>6 DEF WInv
-----------------------------------------------------------------------------
(* Scripts.                                                                *)

(* What a script leaves behind: as names are unique, the file below its    *)
(* name is the planned one.                                                *)
LEMMA OutputRight ==
  ASSUME WInv, NEW h \in Hosts, NEW n \in Names, NEW step \in Steps,
         <<step, <<step[1], n>>>> \in Planned(h), <<step[1], n>> \in FilesOf(plan),
         NEW o \in Output(h, n, step)
  PROVE  /\ o \in [step : Steps, file : FileTypes \X Names,
                   writers : SUBSET (Uploads \cup {Before}), found : SUBSET Names]
         /\ o.step = step
         /\ RightVersion(o.file, o.writers) /\ AsNamed(h, o)
         /\ OneFilePerName => <<o.step, o.file>> \in Planned(h)
<1> DEFINE c == root[h][n]
           found == {d \in AtHand(h) : deps[h][d].file = <<"dependency", d>>}
<1>1. /\ c # None /\ o = [step |-> step, file |-> c.file, writers |-> c.writers, found |-> found]
  BY DEF Output
<1>2. c \in Copies /\ c.file[2] = n /\ RightVersion(c.file, c.writers)
  BY <1>1 DEF WInv, TypeOK, CopiesRight
<1>3. c.file \in FileTypes \X Names /\ c.writers \in SUBSET (Uploads \cup {Before})
  BY <1>2 DEF Copies
<1>4. found \in SUBSET Names
  BY DEF AtHand, WInv, TypeOK
<1> HIDE DEF c, found
<1>5. OneFilePerName => c.file = <<step[1], n>>
  BY <1>2 DEF OneFilePerName, RightVersion
<1>6. AsNamed(h, o)
  BY <1>1, <1>2 DEF AsNamed
<1> QED BY <1>1, <1>2, <1>3, <1>4, <1>5, <1>6

(* A script adds outputs of its own step, on its own hosts, and nothing    *)
(* else.                                                                   *)
LEMMA RunScriptKeeps ==
  ASSUME WInv, NEW hosts \in SUBSET Hosts, NEW n \in Names, NEW step \in Steps,
         \A h \in hosts : <<step, <<step[1], n>>>> \in Planned(h),
         <<step[1], n>> \in FilesOf(plan),
         NEW after \in StageNames, RunScript(hosts, n, step, after)
  PROVE  /\ UNCHANGED <<disk, handler, cli, next, posted, settled>>
         /\ UNCHANGED <<plan, ready, expected, target, left, sent, top, root, deps, links,
                        corrected, run, variation, results, lost>>
         /\ stage' \in {after, "aborted"}
         /\ outputs' \in [Hosts -> OutputSet] /\ OutputsRight'
         /\ \A h \in Hosts : \A o \in outputs'[h] :
              o \in outputs[h] \/ (h \in hosts /\ o \in Output(h, n, step))
<1>1. /\ UNCHANGED <<disk, handler, cli, next, posted, settled>>
      /\ UNCHANGED <<plan, ready, expected, target, left, sent, top, root, deps, links,
                     corrected, run, variation, results, lost>>
  BY DEF RunScript, storage, request, transfer
<1>2. PICK done \in SUBSET hosts :
        /\ outputs' = [h \in Hosts |-> outputs[h] \cup IF h \in done THEN Output(h, n, step) ELSE {}]
        /\ Then(done, hosts, after)
  BY DEF RunScript
<1>3. stage' \in {after, "aborted"}
  BY <1>2 DEF Then
<1>4. \A h \in Hosts : \A o \in outputs'[h] :
        o \in outputs[h] \/ (h \in hosts /\ o \in Output(h, n, step))
  BY <1>2
<1>5. \A h \in Hosts : \A o \in outputs'[h] :
        /\ o \in [step : Steps, file : FileTypes \X Names,
                  writers : SUBSET (Uploads \cup {Before}), found : SUBSET Names]
        /\ RightVersion(o.file, o.writers) /\ AsNamed(h, o)
        /\ OneFilePerName => <<o.step, o.file>> \in Planned(h)
  <2> SUFFICES ASSUME NEW h \in Hosts, NEW o \in outputs'[h]
               PROVE  /\ o \in [step : Steps, file : FileTypes \X Names,
                                writers : SUBSET (Uploads \cup {Before}), found : SUBSET Names]
                      /\ RightVersion(o.file, o.writers) /\ AsNamed(h, o)
                      /\ OneFilePerName => <<o.step, o.file>> \in Planned(h)
    OBVIOUS
  <2>1. CASE o \in outputs[h]
    BY <2>1 DEF WInv, TypeOK, OutputSet, OutputsRight
  <2>2. CASE h \in hosts /\ o \in Output(h, n, step)
    BY <2>2, OutputRight
  <2> QED BY <1>4, <2>1, <2>2
<1>6. outputs' \in [Hosts -> OutputSet]
  BY <1>2, <1>5 DEF OutputSet
<1>7. OutputsRight'
  <2>1. /\ \A f, writers : RightVersion(f, writers) => RightVersion(f, writers)'
        /\ \A h, o : AsNamed(h, o) => AsNamed(h, o)'
    BY <1>1, PlanKept DEF RightVersion, AsNamed
  <2> QED BY <1>1, <1>5, <2>1, PlanKept DEF OutputsRight
<1> QED BY <1>1, <1>3, <1>4, <1>6, <1>7

(* What remains to be shown of a step that runs a script.                  *)
LEMMA ScriptStepKeeps ==
  ASSUME WInv,
         UNCHANGED <<disk, handler, cli, next, posted, settled>>,
         UNCHANGED <<plan, ready, expected, target, left, sent, top, root, deps, links,
                     corrected, run, variation, results, lost>>,
         outputs' \in [Hosts -> OutputSet], OutputsRight',
         index' \in Nat \ {0},
         stage' \in {"setups", "execute", "teardowns", "unlinking", "aborted"},
         stage' = "setups" => index' \in DOMAIN plan.setups,
         stage' = "execute" => index' = 1,
         stage' = "teardowns" => index' \in DOMAIN plan.teardowns
  PROVE  WInv'
<1>1. TypeOK'
  <2>1. StorageTypeOK'
    BY DEF WInv, TypeOK, StorageTypeOK
  <2>2. stage' \in StageNames
    BY DEF StageNames
  <2> QED BY <2>1, <2>2, PlanKept DEF WInv, TypeOK
<1>2. InLoops' /\ Untouched' /\ ReadyIsPresent' /\ SentIsPresent' /\ StillSettled'
  BY PlanKept DEF WInv, InLoops, Untouched, ReadyIsPresent, SentIsPresent, Present, StillSettled
<1>3. CopiesRight'
  BY CopiesKept
<1> QED BY <1>1, <1>2, <1>3 DEF WInv

(* The step and the file of a script in a list of setups or teardowns.     *)
LEMMA RunSetupIs ==
  ASSUME WInv, RunSetup
  PROVE  LET s == plan.setups[index]
             step == <<"setup", index>>
         IN /\ stage = "setups" /\ s.hosts \in SUBSET Hosts /\ s.script \in Names /\ step \in Steps
            /\ index \in DOMAIN plan.setups
            /\ \A h \in s.hosts : <<step, <<step[1], s.script>>>> \in Planned(h)
            /\ <<step[1], s.script>> \in FilesOf(plan)
            /\ step[1] # "execute"
            /\ index' = IF index = Len(plan.setups) THEN 1 ELSE index + 1
            /\ RunScript(s.hosts, s.script, step, IF index = Len(plan.setups) THEN "execute" ELSE "setups")
<1>1. stage = "setups" /\ index \in DOMAIN plan.setups /\ index \in Nat
  BY DEF WInv, TypeOK, InLoops, RunSetup, RunStage
<1>2. plan.setups[index].hosts \in SUBSET Hosts /\ plan.setups[index].script \in Names
  BY <1>1, PlanType, StagesType DEF WInv, TypeOK
<1>3. <<"setup", index>> \in Steps /\ <<"setup", plan.setups[index].script>> \in FilesOf(plan)
  <2>1. 1 \in DOMAIN TypeWords /\ TypeWords[1] = "setup"
    BY DEF TypeWords
  <2> QED BY <1>1, <2>1 DEF Steps, FileTypes, FilesOf, StageFiles
<1>4. \A h \in plan.setups[index].hosts :
        <<<<"setup", index>>, <<"setup", plan.setups[index].script>>>> \in Planned(h)
  BY <1>1 DEF Planned
<1> QED BY <1>1, <1>2, <1>3, <1>4 DEF RunSetup, RunStage

(* The same for a teardown.                                                *)
LEMMA RunTeardownIs ==
  ASSUME WInv, RunTeardown
  PROVE  LET s == plan.teardowns[index]
             step == <<"teardown", index>>
         IN /\ stage = "teardowns" /\ s.hosts \in SUBSET Hosts /\ s.script \in Names /\ step \in Steps
            /\ index \in DOMAIN plan.teardowns
            /\ \A h \in s.hosts : <<step, <<step[1], s.script>>>> \in Planned(h)
            /\ <<step[1], s.script>> \in FilesOf(plan)
            /\ step[1] # "execute"
            /\ index' = IF index = Len(plan.teardowns) THEN 1 ELSE index + 1
            /\ RunScript(s.hosts, s.script, step,
                         IF index = Len(plan.teardowns) THEN "unlinking" ELSE "teardowns")
<1>1. stage = "teardowns" /\ index \in DOMAIN plan.teardowns /\ index \in Nat
  BY DEF WInv, TypeOK, InLoops, RunTeardown, RunStage
<1>2. plan.teardowns[index].hosts \in SUBSET Hosts /\ plan.teardowns[index].script \in Names
  BY <1>1, PlanType, StagesType DEF WInv, TypeOK
<1>3. <<"teardown", index>> \in Steps /\ <<"teardown", plan.teardowns[index].script>> \in FilesOf(plan)
  <2>1. 2 \in DOMAIN TypeWords /\ TypeWords[2] = "teardown"
    BY DEF TypeWords
  <2> QED BY <1>1, <2>1 DEF Steps, FileTypes, FilesOf, StageFiles
<1>4. \A h \in plan.teardowns[index].hosts :
        <<<<"teardown", index>>, <<"teardown", plan.teardowns[index].script>>>> \in Planned(h)
  BY <1>1 DEF Planned
<1> QED BY <1>1, <1>2, <1>3, <1>4 DEF RunTeardown, RunStage

(* The same for the script of the experiment.                              *)
LEMMA ExecuteIs ==
  ASSUME WInv, Execute
  PROVE  LET step == <<"execute", 1>>
         IN /\ stage = "execute" /\ plan.hosts \in SUBSET Hosts /\ plan.script \in Names
            /\ step \in Steps /\ index' = 1
            /\ \A h \in plan.hosts : <<step, <<step[1], plan.script>>>> \in Planned(h)
            /\ <<step[1], plan.script>> \in FilesOf(plan)
            /\ RunScript(plan.hosts, plan.script, step, First(plan.teardowns, "teardowns", "unlinking"))
<1>1. stage = "execute" /\ index' = 1
  BY DEF WInv, InLoops, Execute
<1>2. plan.hosts \in SUBSET Hosts /\ plan.script \in Names
  BY PlanType DEF WInv, TypeOK
<1>3. <<"execute", 1>> \in Steps /\ <<"execute", plan.script>> \in FilesOf(plan)
  BY DEF Steps, FileTypes, FilesOf
<1>4. \A h \in plan.hosts : <<<<"execute", 1>>, <<"execute", plan.script>>>> \in Planned(h)
  BY DEF Planned
<1> QED BY <1>1, <1>2, <1>3, <1>4 DEF Execute
(* The index of the next setup or teardown is one of them.                 *)
LEMMA NextIndex ==
  ASSUME NEW stages \in Stages, NEW i \in DOMAIN stages, NEW j,
         j = IF i = Len(stages) THEN 1 ELSE i + 1
  PROVE  j \in Nat \ {0} /\ (i # Len(stages) => j \in DOMAIN stages)
BY StagesType

(* Setups, teardowns and the script itself keep the invariant.             *)
LEMMA ScriptKeeps ==
  ASSUME WInv, RunSetup \/ RunTeardown \/ Execute
  PROVE  WInv'
<1>1. plan.setups \in Stages /\ plan.teardowns \in Stages
  BY PlanType DEF WInv, TypeOK
<1>2. CASE RunSetup
  <2> DEFINE after == IF index = Len(plan.setups) THEN "execute" ELSE "setups"
  <2>1. after \in StageNames /\ after \in {"execute", "setups"}
    BY DEF StageNames
  <2>2. /\ index' \in Nat \ {0} /\ (after = "setups" => index' \in DOMAIN plan.setups)
        /\ after = "execute" => index' = 1
    BY <1>1, <1>2, RunSetupIs, NextIndex
  <2>3. /\ UNCHANGED <<disk, handler, cli, next, posted, settled>>
        /\ UNCHANGED <<plan, ready, expected, target, left, sent, top, root, deps, links,
                       corrected, run, variation, results, lost>>
        /\ stage' \in {after, "aborted"}
        /\ outputs' \in [Hosts -> OutputSet] /\ OutputsRight'
    <3> HIDE DEF after
    <3>1. RunScript(plan.setups[index].hosts, plan.setups[index].script, <<"setup", index>>, after)
      BY <1>2, RunSetupIs DEF after
    <3> QED BY <1>2, <2>1, <3>1, RunSetupIs, RunScriptKeeps
  <2> HIDE DEF after
  <2> QED BY <2>1, <2>2, <2>3, ScriptStepKeeps
<1>3. CASE RunTeardown
  <2> DEFINE after == IF index = Len(plan.teardowns) THEN "unlinking" ELSE "teardowns"
  <2>1. after \in StageNames /\ after \in {"unlinking", "teardowns"}
    BY DEF StageNames
  <2>2. index' \in Nat \ {0} /\ (after = "teardowns" => index' \in DOMAIN plan.teardowns)
    BY <1>1, <1>3, RunTeardownIs, NextIndex
  <2>3. /\ UNCHANGED <<disk, handler, cli, next, posted, settled>>
        /\ UNCHANGED <<plan, ready, expected, target, left, sent, top, root, deps, links,
                       corrected, run, variation, results, lost>>
        /\ stage' \in {after, "aborted"}
        /\ outputs' \in [Hosts -> OutputSet] /\ OutputsRight'
    <3> HIDE DEF after
    <3>1. RunScript(plan.teardowns[index].hosts, plan.teardowns[index].script, <<"teardown", index>>, after)
      BY <1>3, RunTeardownIs DEF after
    <3> QED BY <1>3, <2>1, <3>1, RunTeardownIs, RunScriptKeeps
  <2> HIDE DEF after
  <2> QED BY <2>1, <2>2, <2>3, ScriptStepKeeps
<1>4. CASE Execute
  <2> DEFINE after == First(plan.teardowns, "teardowns", "unlinking")
  <2>1. after \in StageNames /\ after \in {"unlinking", "teardowns"}
    BY DEF StageNames, First
  <2>2. index' = 1 /\ (after = "teardowns" => 1 \in DOMAIN plan.teardowns)
    BY <1>1, <1>4, ExecuteIs, StagesType DEF First
  <2>3. /\ UNCHANGED <<disk, handler, cli, next, posted, settled>>
        /\ UNCHANGED <<plan, ready, expected, target, left, sent, top, root, deps, links,
                       corrected, run, variation, results, lost>>
        /\ stage' \in {after, "aborted"}
        /\ outputs' \in [Hosts -> OutputSet] /\ OutputsRight'
    <3> HIDE DEF after
    <3>1. RunScript(plan.hosts, plan.script, <<"execute", 1>>, after)
      BY <1>4, ExecuteIs DEF after
    <3> QED BY <1>4, <2>1, <3>1, ExecuteIs, RunScriptKeeps
  <2> HIDE DEF after
  <2> QED BY <2>1, <2>2, <2>3, ScriptStepKeeps
<1> QED BY <1>2, <1>3, <1>4

(* Removing links touches neither files nor outputs.                       *)
LEMMA UnlinkKeeps ==
  ASSUME WInv, Unlink
  PROVE  WInv'
<1>1. /\ stage = "unlinking"
      /\ UNCHANGED <<disk, handler, cli, next, posted, settled>>
      /\ UNCHANGED <<plan, ready, expected, target, left, sent, top, root, deps, outputs,
                     corrected, run, variation, index, results, lost>>
  BY DEF Unlink, storage, request, transfer, loops
<1>2. PICK done \in SUBSET plan.hosts :
        /\ links' = [h \in Hosts |-> IF h \in done THEN links[h] \ plan.dependencies ELSE links[h]]
        /\ Then(done, plan.hosts, "collecting")
  BY DEF Unlink
<1>3. stage' \in {"collecting", "aborted"}
  BY <1>2 DEF Then
<1>4. TypeOK'
  <2>1. links' \in [Hosts -> SUBSET Names]
    BY <1>2 DEF WInv, TypeOK
  <2>2. StorageTypeOK'
    BY <1>1 DEF WInv, TypeOK, StorageTypeOK
  <2> QED BY <1>1, <1>3, <2>1, <2>2, PlanKept DEF WInv, TypeOK, StageNames
<1>5. InLoops' /\ Untouched' /\ ReadyIsPresent' /\ SentIsPresent' /\ StillSettled'
  BY <1>1, <1>3, PlanKept DEF WInv, InLoops, Untouched, ReadyIsPresent, SentIsPresent, Present,
                              StillSettled
<1>6. CopiesRight' /\ OutputsRight'
  BY <1>1, CopiesKept, OutputsKept
<1> QED BY <1>4, <1>5, <1>6 DEF WInv

(* Counting up from one stays within the bound.                            *)
LEMMA Counts ==
  \A n \in Nat : /\ n # 0 => 1 \in 1 .. n
                 /\ \A i \in 1 .. n : i < n => i + 1 \in 1 .. n
OBVIOUS

(* The loops of main_loop stay within their bounds.                        *)
LEMMA NextRoundType ==
  ASSUME WInv, NextRound
  PROVE  /\ run' \in 1 .. plan.runs /\ variation' \in 1 .. plan.experiments
         /\ stage' \in {"making directory", "finished"}
<1>1. /\ plan.runs \in Nat /\ plan.experiments \in Nat
      /\ plan.runs # 0 /\ plan.experiments # 0
  BY PlanType DEF WInv, TypeOK
<1>2. run \in 1 .. plan.runs /\ variation \in 1 .. plan.experiments
  BY DEF WInv, TypeOK
<1>3. 1 \in 1 .. plan.experiments
  BY <1>1, Counts
<1>4. CASE variation < plan.experiments /\ variation' = variation + 1 /\ run' = run
           /\ stage' = "making directory"
  <2>1. variation + 1 \in 1 .. plan.experiments
    BY <1>1, <1>2, <1>4, Counts
  <2> QED BY <1>2, <1>4, <2>1
<1>5. CASE run < plan.runs /\ run' = run + 1 /\ variation' = 1 /\ stage' = "making directory"
  <2>1. run + 1 \in 1 .. plan.runs
    BY <1>1, <1>2, <1>5, Counts
  <2> QED BY <1>3, <1>5, <2>1
<1>6. CASE run' = run /\ variation' = variation /\ stage' = "finished"
  BY <1>2, <1>6
<1> QED BY <1>4, <1>5, <1>6 DEF NextRound

(* Collecting results changes nothing on the hosts.                        *)
LEMMA CollectResultsKeeps ==
  ASSUME WInv, CollectResults
  PROVE  WInv'
<1>1. /\ stage = "collecting" /\ NextRound
      /\ UNCHANGED <<disk, handler, cli, next, posted, settled>>
      /\ UNCHANGED <<plan, ready, expected, target, left, sent, top, root, deps, links, outputs,
                     corrected, index>>
  BY DEF CollectResults, storage, request, transfer, nodes
<1>2. PICK ok \in SUBSET Sessions :
        /\ results' = [h \in Hosts |-> IF h \in ok
                         THEN [results[h] EXCEPT ![<<run, variation>>] = Collected(h)]
                         ELSE results[h]]
        /\ lost' = lost \cup (Sessions \ ok)
  BY DEF CollectResults
<1>3. /\ run' \in 1 .. plan.runs /\ variation' \in 1 .. plan.experiments
      /\ stage' \in {"making directory", "finished"}
  BY <1>1, NextRoundType
<1>4. TypeOK'
  <2>1. results' \in [Hosts -> [Rounds -> [outputs : OutputSet, dependencies : SUBSET Names]]]
    <3>1. \A h \in Hosts : Collected(h) \in [outputs : OutputSet, dependencies : SUBSET Names]
      <4> SUFFICES ASSUME NEW h \in Hosts
                   PROVE  Collected(h) \in [outputs : OutputSet, dependencies : SUBSET Names]
        OBVIOUS
      <4>1. AtHand(h) \in SUBSET Names /\ outputs[h] \in OutputSet
        BY DEF AtHand, WInv, TypeOK
      <4> QED BY <4>1 DEF Collected
    <3>2. results \in [Hosts -> [Rounds -> [outputs : OutputSet, dependencies : SUBSET Names]]]
      BY DEF WInv, TypeOK
    <3> QED BY <1>2, <3>1, <3>2
  <2>2. lost' \subseteq Sessions
    BY <1>2 DEF WInv, TypeOK
  <2>3. StorageTypeOK'
    BY <1>1 DEF WInv, TypeOK, StorageTypeOK
  <2> QED BY <1>1, <1>3, <2>1, <2>2, <2>3, PlanKept DEF WInv, TypeOK, StageNames
<1>5. InLoops' /\ Untouched' /\ ReadyIsPresent' /\ SentIsPresent' /\ StillSettled'
  BY <1>1, <1>3, PlanKept DEF WInv, InLoops, Untouched, ReadyIsPresent, SentIsPresent, Present,
                              StillSettled
<1>6. CopiesRight' /\ OutputsRight'
  BY <1>1, CopiesKept, OutputsKept
<1> QED BY <1>4, <1>5, <1>6 DEF WInv

(* Every step keeps the invariant of the request.                          *)
LEMMA NextKeeps == IInv /\ IInv' /\ Delivered /\ WInv /\ [Next]_vars => WInv'
<1> SUFFICES ASSUME IInv, IInv', Delivered, WInv, [Next]_vars PROVE WInv'
  OBVIOUS
<1>1. CASE StorageStep
  BY <1>1, StorageStepKeeps
<1>2. ASSUME NEW c \in Clients, Submit(c) PROVE WInv'
  BY <1>2, SubmitKeeps
<1>3. CASE ValidateFiles
  BY <1>3, StageKeeps
<1>4. CASE RunnerStep
  BY <1>4, StageKeeps, StartScpKeeps, CopyFileKeeps, ScpFailsKeeps, CorrectDependenciesKeeps,
     MakeVariationDirectoryKeeps, LinkKeeps, ScriptKeeps, UnlinkKeeps, CollectResultsKeeps
     DEF RunnerStep
<1>5. CASE UNCHANGED vars
  <2>1. /\ UNCHANGED <<disk, handler, cli, next, posted, settled>>
        /\ UNCHANGED <<plan, ready, stage, expected, target, left, sent, top, root, deps, links,
                       outputs, corrected, run, variation, index, results, lost>>
    BY <1>5 DEF vars, storage, request, transfer, nodes, loops
  <2>2. TypeOK'
    BY <2>1, PlanKept DEF WInv, TypeOK, StorageTypeOK
  <2>3. InLoops' /\ Untouched' /\ ReadyIsPresent' /\ SentIsPresent' /\ StillSettled'
    BY <2>1, PlanKept DEF WInv, InLoops, Untouched, ReadyIsPresent, SentIsPresent, Present,
                          StillSettled
  <2>4. CopiesRight' /\ OutputsRight'
    BY <2>1, CopiesKept, OutputsKept
  <2> QED BY <2>2, <2>3, <2>4 DEF WInv
<1> QED BY <1>1, <1>2, <1>3, <1>4, <1>5 DEF Next

(* Storage and request keep their invariants throughout.                   *)
LEMMA Invariant == Spec => [](IInv /\ Delivered /\ WInv)
<1>1. Spec => []IInv
  BY Composition, StorageInvariant, PTL
<1>2. Spec => []Delivered
  BY Composition, Delivery, PTL
<1> QED BY <1>1, <1>2, WInit, NextKeeps, PTL DEF Spec
-----------------------------------------------------------------------------
(* What is true of the request.                                            *)

(* Every variable of a request keeps its type and every loop of main_loop  *)
(* its bounds, for any plan, hosts and uploads (controller/src/            *)
(* run.rs:360-531).                                                        *)
THEOREM RequestTypeCorrect == Spec => []TypeOK
<1>1. WInv => TypeOK
  BY DEF WInv
<1> QED BY <1>1, Invariant, PTL

(* A request whose files its client has uploaded and been answered for is  *)
(* never rejected for want of a file (cli/src/main.rs:178-226, routes.rs:  *)
(* 72-97, parse.rs:790-810).                                               *)
THEOREM NeverRejected == Spec => []UploadedIsFound
<1>1. WInv => UploadedIsFound
  BY DEF WInv, ReadyIsPresent, UploadedIsFound
<1> QED BY <1>1, Invariant, PTL

(* Whatever runs, on whatever host, is a step planned for that host and a  *)
(* file of the planned name; in any plan in which no two files have the    *)
(* same name it is the planned file, in the version its client was last    *)
(* answered for before it asked for the run, unless an upload to the same  *)
(* path overlapped with that one or has begun since (controller/src/       *)
(* run.rs:376-405, 792-819).                                               *)
THEOREM RightVersionRuns == Spec => []UploadedVersionRuns
<1>1. WInv => UploadedVersionRuns
  BY DEF WInv, OutputsRight, RightVersion, AsNamed, UploadedVersionRuns
<1> QED BY <1>1, Invariant, PTL

(* An accepted request is never given up for want of a file when its turn  *)
(* comes, however long it has waited: what validate_files found is there   *)
(* for session::upload, which looks for less, and no upload that goes on   *)
(* meanwhile removes it (parse.rs:790-810, session.rs:228-276).            *)
THEOREM NeverMissed == Spec => [](stage = "queued" => Present(FilesOf(plan)))
<1> DEFINE Found == stage = "queued" => Present(FilesOf(plan))
<1>1. Init => Found
  BY DEF Init
<1>2. IInv /\ IInv' /\ WInv /\ Found /\ [Next]_vars => Found'
  <2> SUFFICES ASSUME IInv, IInv', WInv, Found, [Next]_vars, stage' = "queued"
               PROVE  Present(FilesOf(plan))'
    OBVIOUS
  <2>1. CASE ValidateFiles
    <3>1. Present(CheckedFiles(plan)) /\ UNCHANGED <<disk, plan>>
      BY <2>1 DEF ValidateFiles, storage, request
    <3> QED BY <3>1 DEF CheckedFiles, Present
  <2>2. CASE StorageStep \/ UNCHANGED vars
    <3>1. stage = "queued" /\ UNCHANGED plan /\ [StorageNext]_storage
      BY <2>2, StepOfStorage DEF StorageStep, vars, request
    <3>2. FilesOf(plan) \in SUBSET Paths
      BY CheckedFilesType DEF WInv, TypeOK
    <3> QED BY <3>1, <3>2, PresentStays
  <2>3. CASE (\E c \in Clients : Submit(c)) \/ RunnerStep
    <3>1. stage' # "queued"
      BY <2>3 DEF Submit, RunnerStep, CheckFiles, StartScp, CopyFile, EndScp, ScpFails, CorrectDependencies,
         MakeVariationDirectory, Link, RunSetup, RunStage, Execute, RunTeardown, RunScript, Unlink,
         CollectResults, NextRound, Abort, Then, First
    <3> QED BY <3>1
  <2> QED BY <2>1, <2>2, <2>3 DEF Next
<1> QED BY <1>1, <1>2, Invariant, PTL DEF Spec
-----------------------------------------------------------------------------
(* Steps keep DInv.                                                        *)

(* A request with a dependency has more than one file.                     *)
LEMMA DependenciesAreSeveral ==
  ASSUME NEW n \in plan.dependencies
  PROVE  Several /\ <<"dependency", n>> \in FilesOf(plan)
<1>1. <<"execute", plan.script>> \in FilesOf(plan) /\ <<"dependency", n>> \in FilesOf(plan)
  BY DEF FilesOf
<1>2. <<"execute", plan.script>> # <<"dependency", n>>
  OBVIOUS
<1>3. ~\E f \in FilesOf(plan) : FilesOf(plan) = {f}
  <2> HIDE DEF FilesOf
  <2> QED BY <1>1, <1>2
<1> QED BY <1>1, <1>3 DEF Several, ScpMakes

(* Steps of the clients and of validation, and the start of a copy.        *)
LEMMA DRequest ==
  ASSUME WInv, DInv,
         UNCHANGED <<plan, sent, top, root, deps, links, outputs, lost>>,
         \/ target' = target /\ left' = left
         \/ stage = "sending" /\ stage' = "sending" /\ left' = FilesOf(plan),
         \/ stage' = stage \/ stage' = "aborted"
         \/ /\ stage \in {"unsent", "posted", "queued"}
            /\ stage' \in {"posted", "rejected", "queued", "sending"}
  PROVE  DInv'
<1>1. Served'
  BY PlanKept DEF DInv, Served
<1>2. Serving'
  BY PlanKept DEF DInv, Serving
<1>3. AllMoved'
  BY PlanKept DEF DInv, AllMoved, InRound
<1>4. Linked'
  BY DEF DInv, Linked
<1>5. DependenciesAtHand'
  BY PlanKept DEF DInv, DependenciesAtHand
<1> QED BY <1>1, <1>2, <1>3, <1>4, <1>5 DEF DInv

(* A file that has been copied is there from then on; the last one         *)
(* completes the host.                                                     *)
LEMMA DCopyFile ==
  ASSUME IInv, WInv, DInv, NEW f \in left, CopyFile(f)
  PROVE  DInv'
<1> DEFINE copy == [file |-> f, writers |-> disk[f].writers, executable |-> disk[f].executable]
           made == ScpMakes(FilesOf(plan))
<1>1. /\ stage = "sending" /\ target # None /\ target \in Hosts
      /\ top' = [top EXCEPT ![target] = made]
      /\ root' = IF made = "directory" THEN [root EXCEPT ![target][f[2]] = copy] ELSE root
      /\ UNCHANGED <<plan, deps, links, outputs, lost>>
      /\ (EndScp /\ left = {f}) \/ (left' = left \ {f} /\ UNCHANGED <<target, sent, stage>>)
  BY DEF CopyFile, request, WInv, TypeOK
<1>2. f \in FilesOf(plan) /\ f[2] \in Names /\ copy # None
  <2>1. f \in FilesOf(plan)
    BY DEF WInv, TypeOK
  <2>2. f[2] \in Names /\ copy \in Copies
    BY <1>1, <2>1, CopyRight
  <2> QED BY <2>1, <2>2, WorkspaceAssumption DEF WorkspaceAssumption
<1> HIDE DEF copy
<1>3. Several =>
        /\ top'[target] = "directory" /\ root'[target][f[2]] # None
        /\ \A h \in Hosts : /\ top[h] = "directory" => top'[h] = "directory"
                            /\ \A n \in Names : root[h][n] # None => root'[h][n] # None
  BY <1>1, <1>2 DEF Several, WInv, TypeOK
<1>4. ASSUME Several, NEW g \in FilesOf(plan) \ (left \ {f})
      PROVE  top'[target] = "directory" /\ root'[target][g[2]] # None
  <2>1. CASE g = f
    BY <1>3, <1>4, <2>1
  <2>2. CASE g # f
    <3>1. root[target][g[2]] # None /\ g[2] \in Names
      BY <1>1, <1>4, <2>2, PlanType DEF DInv, Serving, WInv, TypeOK
    <3> QED BY <1>1, <1>3, <1>4, <3>1
  <2> QED BY <2>1, <2>2
<1>5. \/ /\ left = {f} /\ target' = None /\ sent' = sent \cup {target} /\ sent' \subseteq Sessions
         /\ stage' = IF sent' = Sessions THEN "correcting" ELSE "sending"
      \/ left' = left \ {f} /\ UNCHANGED <<target, sent, stage>>
  BY <1>1, EndScpKeeps
<1>6. Served'
  <2> SUFFICES ASSUME NEW h \in sent' \ lost, Several
               PROVE  /\ top'[h] = "directory"
                      /\ \A n \in plan.dependencies : root'[h][n] # None \/ deps[h][n] # None
    BY <1>1, PlanKept DEF Served
  <2>1. CASE h \in sent
    <3>1. h \in Hosts /\ plan.dependencies \subseteq Names
      BY <2>1, PlanType DEF WInv, TypeOK
    <3> QED BY <1>3, <2>1, <3>1 DEF DInv, Served
  <2>2. CASE h \notin sent
    <3>1. h = target /\ left = {f}
      BY <1>5, <2>2
    <3>2. \A n \in plan.dependencies : root'[h][n] # None
      <4> SUFFICES ASSUME NEW n \in plan.dependencies PROVE root'[target][n] # None
        BY <3>1
      <4>1. <<"dependency", n>> \in FilesOf(plan) \ (left \ {f})
        BY <3>1, DependenciesAreSeveral
      <4> QED BY <1>4, <4>1
    <3> QED BY <1>3, <3>1, <3>2
  <2> QED BY <2>1, <2>2
<1>7. Serving'
  <2> SUFFICES ASSUME target' # None
               PROVE  /\ stage' \in {"sending", "aborted"}
                      /\ Several => \A g \in FilesOf(plan) \ left' :
                                      top'[target'] = "directory" /\ root'[target'][g[2]] # None
    BY <1>1, PlanKept DEF Serving
  <2>1. left' = left \ {f} /\ UNCHANGED <<target, stage>>
    BY <1>5
  <2> QED BY <1>1, <1>4, <2>1
<1>8. AllMoved' /\ Linked'
  BY <1>1, <1>5, PlanKept DEF AllMoved, InRound, Linked
<1>9. DependenciesAtHand'
  BY <1>1, PlanKept DEF DInv, DependenciesAtHand
<1> QED BY <1>6, <1>7, <1>8, <1>9 DEF DInv

(* A host whose copy broke off is among the lost.                          *)
LEMMA DScpFails ==
  ASSUME WInv, DInv, ScpFails
  PROVE  DInv'
<1>1. /\ stage = "sending" /\ target # None /\ EndScp /\ lost' = lost \cup {target}
      /\ UNCHANGED <<plan, top, root, deps, links, outputs>>
  BY DEF ScpFails, request, nodes
<1>2. /\ target' = None /\ sent' = sent \cup {target}
      /\ stage' = (IF sent' = Sessions THEN "correcting" ELSE "sending")
  BY <1>1, EndScpKeeps
<1>3. Served' /\ Serving'
  BY <1>1, <1>2, PlanKept DEF DInv, Served, Serving
<1>4. AllMoved' /\ Linked'
  BY <1>1, <1>2, PlanKept DEF AllMoved, InRound, Linked
<1>5. DependenciesAtHand'
  BY <1>1, PlanKept DEF DInv, DependenciesAtHand
<1> QED BY <1>3, <1>4, <1>5 DEF DInv
(* What has been moved is there after as it was before.                    *)
LEMMA DCorrectDependencies ==
  ASSUME WInv, DInv, CorrectDependencies
  PROVE  DInv'
<1>1. /\ stage = "correcting" /\ target = None
      /\ UNCHANGED <<plan, target, left, sent, links, outputs, lost>>
  BY DEF CorrectDependencies, transfer, request, DInv, Serving
<1>2. PICK done \in SUBSET Sessions :
        /\ top' = [h \in Hosts |-> IF h \in done THEN MkdirBelow(top[h]) ELSE top[h]]
        /\ deps' = [h \in Hosts |->
                      [n \in Names |-> IF h \in done /\ n \in Moved(h) THEN root[h][n] ELSE deps[h][n]]]
        /\ root' = [h \in Hosts |->
                      [n \in Names |-> IF h \in done /\ n \in Moved(h) THEN None ELSE root[h][n]]]
        /\ Then(done, Sessions,
                IF corrected + 1 = plan.experiments THEN "making directory" ELSE "correcting")
  BY DEF CorrectDependencies
<1>3. Sessions \subseteq Hosts /\ plan.dependencies \subseteq Names
  BY PlanType DEF WInv, TypeOK
<1>4. \A h \in Hosts : top[h] = "directory" => top'[h] = "directory"
  BY <1>2, MkdirType
<1>5. ASSUME NEW h \in Hosts, NEW n \in Names
      PROVE  /\ root[h][n] # None \/ deps[h][n] # None => root'[h][n] # None \/ deps'[h][n] # None
             /\ h \in done /\ n \in Moved(h) => deps'[h][n] # None
             /\ n \notin Moved(h) => deps'[h][n] = deps[h][n]
  BY <1>2 DEF Moved
<1>6. Served'
  <2> SUFFICES ASSUME NEW h \in sent \ lost, Several
               PROVE  /\ top'[h] = "directory"
                      /\ \A n \in plan.dependencies : root'[h][n] # None \/ deps'[h][n] # None
    BY <1>1, PlanKept DEF Served
  <2>1. /\ h \in Hosts /\ top[h] = "directory"
        /\ \A n \in plan.dependencies : root[h][n] # None \/ deps[h][n] # None
    BY <1>3 DEF DInv, Served, WInv, TypeOK
  <2> QED BY <1>3, <1>4, <1>5, <2>1
<1>7. Serving'
  BY <1>1 DEF Serving
<1>8. stage' \in {"making directory", "correcting", "aborted"}
      /\ (stage' = "making directory" => done = Sessions)
  BY <1>2 DEF Then
<1>9. AllMoved'
  <2>1. sent = Sessions
    BY <1>1 DEF DInv, AllMoved
  <2>2. ASSUME done = Sessions, NEW h \in Sessions \ lost, NEW n \in plan.dependencies
        PROVE  deps'[h][n] # None
    <3>1. h \in Hosts /\ n \in Names /\ Several
      BY <1>3, DependenciesAreSeveral
    <3>2. top[h] = "directory" /\ (root[h][n] # None \/ deps[h][n] # None)
      BY <2>1, <3>1 DEF DInv, Served
    <3>3. n \in Moved(h) \/ deps[h][n] # None
      BY <3>2 DEF Moved
    <3> QED BY <1>5, <2>2, <3>1, <3>3
  <2> QED BY <1>1, <1>8, <2>1, <2>2, PlanKept DEF AllMoved, InRound
<1>10. Linked'
  BY <1>8 DEF Linked
<1>11. DependenciesAtHand'
  BY <1>1, PlanKept DEF DInv, DependenciesAtHand
<1> QED BY <1>6, <1>7, <1>9, <1>10, <1>11 DEF DInv

(* A new directory leaves the dependencies where they are.                 *)
LEMMA DMakeVariationDirectory ==
  ASSUME WInv, DInv, MakeVariationDirectory
  PROVE  DInv'
<1>1. /\ stage = "making directory" /\ target = None
      /\ outputs' = [h \in Hosts |-> {}]
      /\ UNCHANGED <<plan, target, left, sent, root, deps, lost>>
  BY DEF MakeVariationDirectory, request, transfer, DInv, Serving
<1>2. PICK done \in SUBSET Sessions :
        /\ top' = [h \in Hosts |-> IF h \in done THEN MkdirBelow(top[h]) ELSE top[h]]
        /\ Then(done, Sessions, "linking")
  BY DEF MakeVariationDirectory
<1>3. stage' \in {"linking", "aborted"}
  BY <1>2 DEF Then
<1>4. Served'
  <2>1. \A h \in Hosts : top[h] = "directory" => top'[h] = "directory"
    BY <1>2, MkdirType
  <2>2. sent \subseteq Hosts
    BY PlanType DEF WInv, TypeOK
  <2> QED BY <1>1, <2>1, <2>2, PlanKept DEF DInv, Served
<1>5. Serving' /\ Linked'
  BY <1>1, <1>3 DEF Serving, Linked
<1>6. AllMoved'
  BY <1>1, <1>3, PlanKept DEF DInv, AllMoved, InRound
<1>7. DependenciesAtHand'
  BY <1>1 DEF DependenciesAtHand
<1> QED BY <1>4, <1>5, <1>6, <1>7 DEF DInv

(* Steps of a round that leave the directories and their files alone.      *)
LEMMA DRound ==
  ASSUME DInv, stage \in InRound,
         stage' \in InRound \cup {"finished", "aborted"},
         UNCHANGED <<plan, target, left, sent, top, root, deps>>, lost \subseteq lost'
  PROVE  Served' /\ Serving' /\ AllMoved'
<1>1. target = None
  BY DEF DInv, Serving, InRound
<1>2. Served' /\ Serving'
  BY <1>1, PlanKept DEF DInv, Served, Serving
<1>3. AllMoved'
  BY PlanKept DEF DInv, AllMoved, InRound
<1> QED BY <1>2, <1>3

(* Every host of the experiment gets its links before a script runs.       *)
LEMMA DLink ==
  ASSUME WInv, DInv, Link
  PROVE  DInv'
<1>1. /\ stage = "linking"
      /\ UNCHANGED <<plan, target, left, sent, top, root, deps, outputs, lost>>
  BY DEF Link, request, transfer
<1>2. PICK done \in SUBSET plan.hosts :
        /\ links' = [h \in Hosts |-> IF h \in done /\ top[h] = "directory" THEN plan.dependencies
                                     ELSE links[h]]
        /\ Then(done, plan.hosts, First(plan.setups, "setups", "execute"))
  BY DEF Link
<1>3. stage' \in {"setups", "execute", "aborted"} /\ (stage' # "aborted" => done = plan.hosts)
  BY <1>2 DEF Then, First
<1>4. Linked'
  <2>1. plan.hosts \subseteq Hosts
    BY PlanType DEF WInv, TypeOK
  <2> QED BY <1>1, <1>2, <1>3, <2>1 DEF Linked
<1>5. Served' /\ Serving' /\ AllMoved'
  BY <1>1, <1>3, DRound DEF InRound
<1>6. DependenciesAtHand'
  BY <1>1, PlanKept DEF DInv, DependenciesAtHand
<1> QED BY <1>4, <1>5, <1>6 DEF DInv

(* Setups and teardowns move neither links nor dependencies.               *)
LEMMA DSetupsAndTeardowns ==
  ASSUME WInv, DInv, NEW hosts \in SUBSET Hosts, NEW n \in Names, NEW step \in Steps,
         \A h \in hosts : <<step, <<step[1], n>>>> \in Planned(h),
         <<step[1], n>> \in FilesOf(plan), step[1] # "execute",
         NEW after \in StageNames, RunScript(hosts, n, step, after),
         \/ stage = "setups" /\ after \in {"setups", "execute"}
         \/ stage = "teardowns" /\ after \in {"teardowns", "unlinking"}
  PROVE  DInv'
<1>1. /\ UNCHANGED <<plan, target, left, sent, top, root, deps, links, lost>>
      /\ stage' \in {after, "aborted"}
      /\ \A h \in Hosts : \A o \in outputs'[h] :
           o \in outputs[h] \/ (h \in hosts /\ o \in Output(h, n, step))
  BY RunScriptKeeps
<1>2. \A h \in Hosts : \A o \in outputs'[h] : o \in outputs[h] \/ o.step[1] # "execute"
  BY <1>1 DEF Output
<1>3. DependenciesAtHand'
  BY <1>1, <1>2, PlanKept DEF DInv, DependenciesAtHand
<1>4. Linked'
  BY <1>1 DEF DInv, Linked
<1>5. Served' /\ Serving' /\ AllMoved'
  BY <1>1, DRound DEF InRound
<1> QED BY <1>3, <1>4, <1>5 DEF DInv

(* Every link leads to a dependency that has been moved.                   *)
LEMMA DExecute ==
  ASSUME WInv, DInv, Execute
  PROVE  DInv'
<1> DEFINE after == First(plan.teardowns, "teardowns", "unlinking")
           step == <<"execute", 1>>
<1>1. after \in StageNames /\ after \in {"teardowns", "unlinking"}
  BY DEF First, StageNames
<1>2. /\ UNCHANGED <<plan, target, left, sent, top, root, deps, links, lost>>
      /\ stage' \in {after, "aborted"} /\ stage = "execute"
      /\ \A h \in Hosts : \A o \in outputs'[h] :
           o \in outputs[h] \/ (h \in plan.hosts /\ o \in Output(h, plan.script, step))
  <2> HIDE DEF after
  <2>1. RunScript(plan.hosts, plan.script, step, after)
    BY ExecuteIs DEF after
  <2> QED BY <1>1, <2>1, ExecuteIs, RunScriptKeeps
<1> HIDE DEF after
<1>3. ASSUME OneFilePerName, NEW h \in plan.hosts, h \notin lost, NEW o \in Output(h, plan.script, step)
      PROVE  o.found = plan.dependencies
  <2>1. top[h] = "directory" /\ o.found = {d \in AtHand(h) : deps[h][d].file = <<"dependency", d>>}
    BY <1>3 DEF Output
  <2>2. links[h] = plan.dependencies
    BY <1>2, <2>1 DEF DInv, Linked
  <2>3. h \in Sessions /\ h \in Hosts /\ plan.dependencies \subseteq Names
    BY PlanType DEF WInv, TypeOK
  <2>4. ASSUME NEW d \in plan.dependencies
        PROVE  deps[h][d] # None /\ deps[h][d].file = <<"dependency", d>>
    <3>1. deps[h][d] # None
      BY <1>2, <1>3, <2>3 DEF DInv, AllMoved, InRound
    <3>2. deps[h][d].file[2] = d /\ deps[h][d].file \in FilesOf(plan)
      BY <2>3, <3>1 DEF WInv, CopiesRight
    <3>3. <<"dependency", d>> \in FilesOf(plan)
      BY DependenciesAreSeveral
    <3>4. <<"dependency", d>>[2] = d
      OBVIOUS
    <3> QED BY <1>3, <3>1, <3>2, <3>3, <3>4 DEF OneFilePerName
  <2> QED BY <2>1, <2>2, <2>4 DEF AtHand
<1>4. DependenciesAtHand'
  BY <1>2, <1>3, PlanKept DEF DInv, DependenciesAtHand
<1>5. Linked'
  BY <1>1, <1>2 DEF Linked
<1>6. Served' /\ Serving' /\ AllMoved'
  BY <1>1, <1>2, DRound DEF InRound
<1> QED BY <1>4, <1>5, <1>6 DEF DInv

(* The links are taken away after the script has run.                      *)
LEMMA DUnlink ==
  ASSUME WInv, DInv, Unlink
  PROVE  DInv'
<1>1. /\ stage = "unlinking" /\ stage' \in {"collecting", "aborted"}
      /\ UNCHANGED <<plan, target, left, sent, top, root, deps, outputs, lost>>
  BY DEF Unlink, Then, request, transfer
<1>2. Served' /\ Serving' /\ AllMoved'
  BY <1>1, DRound DEF InRound
<1>3. Linked'
  BY <1>1 DEF Linked
<1>4. DependenciesAtHand'
  BY <1>1, PlanKept DEF DInv, DependenciesAtHand
<1> QED BY <1>2, <1>3, <1>4 DEF DInv

(* Collecting moves no file on the hosts.                                  *)
LEMMA DCollectResults ==
  ASSUME WInv, DInv, CollectResults
  PROVE  DInv'
<1>1. /\ stage = "collecting" /\ NextRound /\ lost \subseteq lost'
      /\ UNCHANGED <<plan, target, left, sent, top, root, deps, links, outputs>>
  BY DEF CollectResults, request, transfer, nodes
<1>2. stage' \in {"making directory", "finished"}
  BY <1>1, NextRoundType
<1>3. Served' /\ Serving' /\ AllMoved'
  BY <1>1, <1>2, DRound DEF InRound
<1>4. Linked'
  BY <1>2 DEF Linked
<1>5. DependenciesAtHand'
  BY <1>1, PlanKept DEF DInv, DependenciesAtHand
<1> QED BY <1>3, <1>4, <1>5 DEF DInv

(* Nothing has been sent or run at first.                                  *)
LEMMA DInit == Init => DInv
<1> SUFFICES ASSUME Init PROVE DInv
  OBVIOUS
<1>1. stage = "unsent" /\ target = None /\ sent = {} /\ \A h \in Hosts : outputs[h] = {}
  BY DEF Init
<1> QED BY <1>1 DEF DInv, Served, Serving, AllMoved, InRound, Linked, DependenciesAtHand

(* Steps before the files have been sent, and errors.                      *)
LEMMA DRequestSteps ==
  ASSUME WInv, DInv, NEW c, NEW h,
         StorageStep \/ Submit(c) \/ ValidateFiles \/ CheckFiles \/ StartScp(h) \/ Abort
  PROVE  DInv'
<1>1. UNCHANGED <<plan, sent, top, root, deps, links, outputs, lost>>
  BY DEF StorageStep, Submit, ValidateFiles, CheckFiles, StartScp, Abort, request, transfer, nodes
<1>2. \/ target' = target /\ left' = left
      \/ stage = "sending" /\ stage' = "sending" /\ left' = FilesOf(plan)
  BY DEF StorageStep, Submit, ValidateFiles, CheckFiles, StartScp, Abort, transfer
<1>3. \/ stage' = stage \/ stage' = "aborted"
      \/ /\ stage \in {"unsent", "posted", "queued"}
         /\ stage' \in {"posted", "rejected", "queued", "sending"}
  BY DEF StorageStep, Submit, ValidateFiles, CheckFiles, StartScp, Abort
<1> QED BY <1>1, <1>2, <1>3, DRequest

(* Setups and teardowns, whichever comes next.                             *)
LEMMA DStage ==
  ASSUME WInv, DInv, RunSetup \/ RunTeardown
  PROVE  DInv'
<1>1. CASE RunSetup
  <2> DEFINE after == IF index = Len(plan.setups) THEN "execute" ELSE "setups"
  <2>1. after \in StageNames /\ after \in {"setups", "execute"}
    BY DEF StageNames
  <2> HIDE DEF after
  <2> QED BY <1>1, <2>1, RunSetupIs, DSetupsAndTeardowns DEF after
<1>2. CASE RunTeardown
  <2> DEFINE after == IF index = Len(plan.teardowns) THEN "unlinking" ELSE "teardowns"
  <2>1. after \in StageNames /\ after \in {"teardowns", "unlinking"}
    BY DEF StageNames
  <2> HIDE DEF after
  <2> QED BY <1>2, <2>1, RunTeardownIs, DSetupsAndTeardowns DEF after
<1> QED BY <1>1, <1>2

(* Every step keeps the invariant of the dependencies.                     *)
LEMMA DNext == IInv /\ WInv /\ DInv /\ [Next]_vars => DInv'
<1> SUFFICES ASSUME IInv, WInv, DInv, [Next]_vars PROVE DInv'
  OBVIOUS
<1>1. CASE UNCHANGED vars
  <2>1. UNCHANGED <<plan, stage, target, left, sent, top, root, deps, links, outputs, lost>>
    BY <1>1 DEF vars, request, transfer, nodes
  <2> QED BY <2>1, DRequest
<1>2. CASE StorageStep \/ ValidateFiles \/ CheckFiles \/ Abort
  BY <1>2, DRequestSteps
<1>3. CASE \E c \in Clients : Submit(c)
  BY <1>3, DRequestSteps
<1>4. CASE \E h \in Hosts : StartScp(h)
  BY <1>4, DRequestSteps
<1>5. CASE \E f \in left : CopyFile(f)
  BY <1>5, DCopyFile
<1>6. CASE ScpFails \/ CorrectDependencies \/ MakeVariationDirectory \/ Link
  BY <1>6, DScpFails, DCorrectDependencies, DMakeVariationDirectory, DLink
<1>7. CASE RunSetup \/ RunTeardown \/ Execute
  BY <1>7, DStage, DExecute
<1>8. CASE Unlink \/ CollectResults
  BY <1>8, DUnlink, DCollectResults
<1> QED BY <1>1, <1>2, <1>3, <1>4, <1>5, <1>6, <1>7, <1>8 DEF Next, RunnerStep

(* The script of an experiment finds every one of its dependencies through *)
(* the links, in every variation of every run, on every host that no scp   *)
(* has failed on, although correct_dependencies moves the files once for   *)
(* each experiment (controller/src/run.rs:574-619, 821-861).               *)
THEOREM DependenciesFound == Spec => []DependenciesAtHand
<1>1. DInv => DependenciesAtHand
  BY DEF DInv
<1> QED BY <1>1, Invariant, DInit, DNext, PTL DEF Spec

(* The files of a request are in its directory on every host that scp has  *)
(* served, if every request considered has several of them: the only way   *)
(* to break the comment of the code is a request with a single file        *)
(* (controller/src/run.rs:391-393, session.rs:228-276).                    *)
THEOREM SeveralInDirectory ==
  ASSUME \A p \in Plans : ScpMakes(FilesOf(p)) = "directory"
  PROVE  Spec => []ResourcesInDirectory
<1>1. WInv /\ DInv => ResourcesInDirectory
  BY DEF WInv, TypeOK, DInv, Served, Several, ResourcesInDirectory
<1> QED BY <1>1, Invariant, DInit, DNext, PTL DEF Spec

-----------------------------------------------------------------------------
(* ResultsComplete: a script that the client expects to run can be run, a  *)
(* step that main_loop is past has left something on each of its hosts,    *)
(* and a round that is over has been collected.                            *)

Expected(f) == expected[f] # None /\ f[2] \in ShellScripts

Runnable ==
  \A h \in Hosts : \A n \in Names :
    root[h][n] # None /\ Expected(root[h][n].file) => root[h][n].executable

Orderly == OneFilePerName /\ Several

Scripts == {f \in FilesOf(plan) : f[1] # "dependency"}

ScriptsThere == Orderly => \A h \in sent \ lost : \A f \in Scripts : root[h][f[2]] # None

(* The steps of the round that main_loop is past.                          *)
Behind(step) ==
  \/ /\ step[1] = "setup"
     /\ stage = "setups" => step[2] < index
     /\ stage \in {"setups", "execute", "teardowns", "unlinking", "collecting"}
  \/ step[1] = "execute" /\ stage \in {"teardowns", "unlinking", "collecting"}
  \/ /\ step[1] = "teardown"
     /\ stage = "teardowns" => step[2] < index
     /\ stage \in {"teardowns", "unlinking", "collecting"}

Marked(outs, s) == Expected(s[2]) => \E o \in outs : o.step = s[1]

OutputsThere ==
  Orderly =>
    \A h \in Sessions \ lost : \A s \in Planned(h) : Behind(s[1]) => Marked(outputs[h], s)

LinksGone ==
  \A h \in Hosts :
    /\ links[h] \subseteq plan.dependencies
    /\ h \notin plan.hosts \/ stage = "collecting" => links[h] = {}

RoundOver(r) == stage = "finished" \/ r[1] < run \/ (r[1] = run /\ r[2] < variation)

Complete(h, result) ==
  result.dependencies = {} /\ \A s \in Planned(h) : Marked(result.outputs, s)

ResultsThere ==
  Orderly =>
    \A h \in Sessions \ lost : \A r \in Rounds : RoundOver(r) => Complete(h, results[h][r])

NotBegun == stage = "unsent" => run = 1 /\ variation = 1

RInv == Runnable /\ ScriptsThere /\ OutputsThere /\ LinksGone /\ ResultsThere /\ NotBegun

(* What the client expects can only become less once it has made its       *)
(* request.                                                                *)
Shrinks == \A f \in Paths : expected'[f] # None => expected[f] # None

(* The steps of a round and their files.                                   *)
LEMMA PlannedAre ==
  ASSUME WInv, NEW h, NEW s \in Planned(h)
  PROVE  /\ s[2] \in Scripts /\ s[2] \in Paths /\ s[2][2] \in Names
         /\ \/ \E i \in DOMAIN plan.setups :
                 /\ s = <<<<"setup", i>>, <<"setup", plan.setups[i].script>>>>
                 /\ h \in plan.setups[i].hosts
            \/ \E i \in DOMAIN plan.teardowns :
                 /\ s = <<<<"teardown", i>>, <<"teardown", plan.teardowns[i].script>>>>
                 /\ h \in plan.teardowns[i].hosts
            \/ s = <<<<"execute", 1>>, <<"execute", plan.script>>>> /\ h \in plan.hosts
<1>1. \/ \E i \in DOMAIN plan.setups :
           /\ s = <<<<"setup", i>>, <<"setup", plan.setups[i].script>>>>
           /\ h \in plan.setups[i].hosts
      \/ \E i \in DOMAIN plan.teardowns :
           /\ s = <<<<"teardown", i>>, <<"teardown", plan.teardowns[i].script>>>>
           /\ h \in plan.teardowns[i].hosts
      \/ s = <<<<"execute", 1>>, <<"execute", plan.script>>>> /\ h \in plan.hosts
  BY DEF Planned
<1>2. s[2] \in FilesOf(plan) /\ s[2][1] # "dependency"
  BY <1>1 DEF FilesOf, StageFiles
<1>3. FilesOf(plan) \subseteq FileTypes \X Names /\ FilesOf(plan) \subseteq Paths
  BY PlanType, CheckedFilesType DEF WInv, TypeOK
<1> QED BY <1>1, <1>2, <1>3 DEF Scripts

(* Copies of scripts that can be run stay so.                              *)
LEMMA RunnableStays ==
  ASSUME WInv, RInv, Shrinks,
         \A h \in Hosts : \A n \in Names : root'[h][n] = root[h][n] \/ root'[h][n] = None
  PROVE  Runnable'
<1>1. ASSUME NEW h \in Hosts, NEW n \in Names, root[h][n] # None PROVE root[h][n].file \in Paths
  BY <1>1, CheckedFilesType DEF WInv, TypeOK, CopiesRight, RightVersion
<1> QED BY <1>1 DEF RInv, Runnable, Shrinks, Expected

(* The same of a round's outputs, as long as no more steps are behind.     *)
LEMMA OutputsStay ==
  ASSUME WInv, RInv, Shrinks, plan' = plan, outputs' = outputs, lost \subseteq lost',
         \A h : \A s \in Planned(h) : Behind(s[1])' => Behind(s[1])
  PROVE  OutputsThere'
<1> SUFFICES ASSUME Orderly, NEW h \in Sessions \ lost', NEW s \in Planned(h), Behind(s[1])'
             PROVE  Marked(outputs[h], s)'
  BY PlanKept DEF OutputsThere, Orderly
<1>1. Marked(outputs[h], s)
  BY DEF RInv, OutputsThere
<1>2. Marked(outputs[h], s) => Marked(outputs[h], s)'
  <2>1. s[2] \in Paths
    BY PlannedAre
  <2> QED BY <2>1 DEF Marked, Expected, Shrinks
<1> QED BY <1>1, <1>2

(* The same of the results collected, as long as no more rounds are over.  *)
LEMMA ResultsStay ==
  ASSUME WInv, RInv, Shrinks, plan' = plan, results' = results, lost \subseteq lost',
         \A r \in Rounds : RoundOver(r)' => RoundOver(r)
  PROVE  ResultsThere'
<1> SUFFICES ASSUME Orderly, NEW h \in Sessions \ lost', NEW r \in Rounds, RoundOver(r)'
             PROVE  Complete(h, results[h][r])'
  BY PlanKept DEF ResultsThere, Orderly
<1>1. Complete(h, results[h][r])
  BY DEF RInv, ResultsThere
<1>2. \A s \in Planned(h) : s[2] \in Paths
  BY PlannedAre
<1> QED BY <1>1, <1>2, PlanKept DEF Complete, Marked, Expected, Shrinks

(* Steps before the files have been sent, and errors, add nothing.         *)
LEMMA RRequestSteps ==
  ASSUME IInv, WInv, RInv, NEW h,
         StorageStep \/ ValidateFiles \/ CheckFiles \/ StartScp(h) \/ Abort \/ UNCHANGED vars
  PROVE  RInv'
<1>1. /\ UNCHANGED <<plan, sent, root, links, outputs, results, lost, run, variation, index>>
      /\ \/ stage' = stage \/ stage' = "aborted"
         \/ stage' \in {"rejected", "queued", "sending"}
  BY DEF StorageStep, ValidateFiles, CheckFiles, StartScp, Abort, vars, request, transfer, nodes, loops
<1>2. Shrinks
  BY DEF StorageStep, ValidateFiles, CheckFiles, StartScp, Abort, vars, Shrinks
<1>3. \A step : Behind(step)' => Behind(step)
  BY <1>1 DEF Behind
<1>4. \A r : RoundOver(r)' => RoundOver(r)
  BY <1>1 DEF RoundOver
<1>5. Runnable'
  BY <1>1, <1>2, RunnableStays
<1>6. OutputsThere' /\ ResultsThere'
  BY <1>1, <1>2, <1>3, <1>4, OutputsStay, ResultsStay
<1>7. ScriptsThere'
  BY <1>1, PlanKept DEF RInv, ScriptsThere, Orderly, Scripts
<1>8. LinksGone'
  BY <1>1 DEF RInv, LinksGone
<1>9. NotBegun'
  BY <1>1 DEF RInv, NotBegun
<1> QED BY <1>5, <1>6, <1>7, <1>8, <1>9 DEF RInv

(* When the request is made nothing has been sent or run.                  *)
LEMMA RSubmit ==
  ASSUME WInv, RInv, NEW c, Submit(c)
  PROVE  RInv'
<1>1. /\ stage = "unsent" /\ stage' = "posted"
      /\ UNCHANGED <<plan, sent, root, links, outputs, results, lost, run, variation, index>>
  BY DEF Submit, transfer, nodes, loops
<1>2. Runnable'
  BY <1>1 DEF WInv, Untouched, Runnable
<1>3. OutputsThere'
  BY <1>1 DEF OutputsThere, Behind
<1>4. ScriptsThere' /\ LinksGone'
  BY <1>1, PlanKept DEF RInv, ScriptsThere, Orderly, Scripts, LinksGone
<1>5. ResultsThere'
  <2>1. run = 1 /\ variation = 1
    BY <1>1 DEF RInv, NotBegun
  <2>2. \A r \in Rounds : ~RoundOver(r)'
    BY <1>1, <2>1 DEF Rounds, RoundOver
  <2> QED BY <1>1, <2>2, PlanKept DEF ResultsThere
<1>6. NotBegun'
  BY <1>1 DEF NotBegun
<1> QED BY <1>2, <1>3, <1>4, <1>5, <1>6 DEF RInv

(* scp writes a file that can be run, if it is one that the client         *)
(* expects to.                                                             *)
LEMMA RCopyFile ==
  ASSUME IInv, WInv, DInv, RInv, NEW f \in left, CopyFile(f)
  PROVE  RInv'
<1> DEFINE copy == [file |-> f, writers |-> disk[f].writers, executable |-> disk[f].executable]
           made == ScpMakes(FilesOf(plan))
<1>1. /\ stage = "sending" /\ target # None /\ target \in Hosts
      /\ root' = IF made = "directory" THEN [root EXCEPT ![target][f[2]] = copy] ELSE root
      /\ UNCHANGED <<plan, expected, links, outputs, results, lost, run, variation, index>>
      /\ (EndScp /\ left = {f}) \/ (left' = left \ {f} /\ UNCHANGED <<target, sent, stage>>)
  BY DEF CopyFile, request, loops, WInv, TypeOK
<1>2. f \in FilesOf(plan) /\ f \in Paths /\ f[2] \in Names /\ copy # None
  <2>1. f \in FilesOf(plan)
    BY DEF WInv, TypeOK
  <2>2. f[2] \in Names /\ copy \in Copies
    BY <1>1, <2>1, CopyRight
  <2>3. FilesOf(plan) \subseteq Paths
    BY CheckedFilesType DEF WInv, TypeOK
  <2> QED BY <2>1, <2>2, <2>3, WorkspaceAssumption DEF WorkspaceAssumption
<1>3. Expected(f) => copy.executable
  <2> SUFFICES ASSUME Expected(f) PROVE disk[f].executable
    OBVIOUS
  <2>1. settled[f] = expected[f] /\ expected[f] # None /\ f[2] \in ShellScripts
    BY <1>1, <1>2 DEF WInv, StillSettled, Expected
  <2>2. AnsweredIsStored
    BY SettledIsStored
  <2> QED BY <1>2, <2>1, <2>2 DEF AnsweredIsStored
<1>4. copy.file = f
  OBVIOUS
<1> HIDE DEF copy
<1>5. \/ /\ left = {f} /\ target' = None /\ sent' = sent \cup {target} /\ sent' \subseteq Sessions
         /\ stage' = IF sent' = Sessions THEN "correcting" ELSE "sending"
      \/ left' = left \ {f} /\ UNCHANGED <<target, sent, stage>>
  BY <1>1, EndScpKeeps
<1>6. \A h \in Hosts : \A n \in Names :
        root'[h][n] = root[h][n] \/ (Several /\ n = f[2] /\ root'[h][n] = copy)
  BY <1>1, <1>2 DEF WInv, TypeOK, Several
<1>7. Runnable'
  <2> SUFFICES ASSUME NEW h \in Hosts, NEW n \in Names, root'[h][n] # None, Expected(root'[h][n].file)
               PROVE  root'[h][n].executable
    BY <1>1 DEF Runnable, Expected
  <2>1. CASE root'[h][n] = root[h][n]
    BY <2>1 DEF RInv, Runnable
  <2>2. CASE root'[h][n] = copy
    BY <1>3, <1>4, <2>2
  <2> QED BY <1>6, <2>1, <2>2
<1>8. ScriptsThere'
  <2> SUFFICES ASSUME Orderly, NEW h \in sent' \ lost, NEW g \in Scripts
               PROVE  root'[h][g[2]] # None
    BY <1>1, PlanKept DEF ScriptsThere, Orderly, Scripts
  <2>1. g \in FilesOf(plan) /\ g[2] \in Names /\ h \in Hosts
    BY <1>5, PlanType DEF Scripts, WInv, TypeOK
  <2>2. CASE h \in sent
    <3>1. root[h][g[2]] # None
      BY <2>2 DEF RInv, ScriptsThere
    <3> QED BY <1>2, <1>6, <2>1, <3>1
  <2>3. CASE h \notin sent
    <3>1. h = target /\ left = {f}
      BY <1>5, <2>3
    <3>2. g # f => root[h][g[2]] # None
      BY <1>1, <2>1, <3>1 DEF DInv, Serving, Orderly
    <3>3. g = f => root'[h][g[2]] = copy
      BY <1>1, <1>2, <3>1 DEF Orderly, Several, WInv, TypeOK
    <3> QED BY <1>2, <1>6, <2>1, <3>2, <3>3
  <2> QED BY <2>2, <2>3
<1>9. Shrinks /\ stage' \in {"sending", "correcting"}
  BY <1>1, <1>5 DEF Shrinks
<1>10. OutputsThere' /\ ResultsThere'
  <2>1. (\A step : Behind(step)' => Behind(step)) /\ \A r : RoundOver(r)' => RoundOver(r)
    BY <1>1, <1>9 DEF Behind, RoundOver
  <2> QED BY <1>1, <1>9, <2>1, OutputsStay, ResultsStay
<1>11. LinksGone'
  BY <1>1, <1>9 DEF RInv, LinksGone
<1>12. NotBegun'
  BY <1>9 DEF NotBegun
<1> QED BY <1>7, <1>8, <1>10, <1>11, <1>12 DEF RInv

(* A host whose copy broke off is among the lost.                          *)
LEMMA RScpFails ==
  ASSUME WInv, RInv, ScpFails
  PROVE  RInv'
<1>1. /\ stage = "sending" /\ target # None /\ EndScp /\ lost' = lost \cup {target}
      /\ UNCHANGED <<plan, expected, root, links, outputs, results, run, variation, index>>
  BY DEF ScpFails, request, nodes, loops
<1>2. sent' = sent \cup {target} /\ stage' \in {"sending", "correcting"}
  BY <1>1, EndScpKeeps
<1>3. Shrinks /\ (\A step : Behind(step)' => Behind(step)) /\ \A r : RoundOver(r)' => RoundOver(r)
  BY <1>1, <1>2 DEF Shrinks, Behind, RoundOver
<1>4. Runnable' /\ OutputsThere' /\ ResultsThere'
  BY <1>1, <1>3, RunnableStays, OutputsStay, ResultsStay
<1>5. ScriptsThere' /\ LinksGone' /\ NotBegun'
  BY <1>1, <1>2, PlanKept DEF RInv, ScriptsThere, Orderly, Scripts, LinksGone, NotBegun
<1> QED BY <1>4, <1>5 DEF RInv

(* Only dependencies are moved, and no script has the name of one.         *)
LEMMA RCorrectDependencies ==
  ASSUME WInv, RInv, CorrectDependencies
  PROVE  RInv'
<1>1. /\ stage = "correcting"
      /\ UNCHANGED <<plan, expected, sent, links, outputs, results, lost, run, variation, index>>
  BY DEF CorrectDependencies, transfer, request
<1>2. PICK done \in SUBSET Sessions :
        /\ root' = [h \in Hosts |->
                      [n \in Names |-> IF h \in done /\ n \in Moved(h) THEN None ELSE root[h][n]]]
        /\ Then(done, Sessions,
                IF corrected + 1 = plan.experiments THEN "making directory" ELSE "correcting")
  BY DEF CorrectDependencies
<1>3. stage' \in {"making directory", "correcting", "aborted"}
  BY <1>2 DEF Then
<1>4. Shrinks /\ (\A step : Behind(step)' => Behind(step)) /\ \A r : RoundOver(r)' => RoundOver(r)
  BY <1>1, <1>3 DEF Shrinks, Behind, RoundOver
<1>5. Runnable' /\ OutputsThere' /\ ResultsThere'
  BY <1>1, <1>2, <1>4, RunnableStays, OutputsStay, ResultsStay
<1>6. ScriptsThere'
  <2> SUFFICES ASSUME Orderly, NEW h \in sent \ lost, NEW f \in Scripts
               PROVE  root'[h][f[2]] # None
    BY <1>1, PlanKept DEF ScriptsThere, Orderly, Scripts
  <2>1. root[h][f[2]] # None
    BY DEF RInv, ScriptsThere
  <2>2. f[2] \notin plan.dependencies
    <3> SUFFICES ASSUME f[2] \in plan.dependencies PROVE FALSE
      OBVIOUS
    <3>1. <<"dependency", f[2]>> \in FilesOf(plan)
      BY DependenciesAreSeveral
    <3>2. f \in FilesOf(plan) /\ f[1] # "dependency"
      BY DEF Scripts
    <3>3. <<"dependency", f[2]>>[2] = f[2] /\ <<"dependency", f[2]>>[1] = "dependency"
      OBVIOUS
    <3>4. f = <<"dependency", f[2]>>
      BY <3>1, <3>2, <3>3 DEF Orderly, OneFilePerName
    <3> QED BY <3>2, <3>3, <3>4
  <2>3. h \in Hosts /\ f[2] \in Names
    <3>1. FilesOf(plan) \subseteq FileTypes \X Names /\ Sessions \subseteq Hosts
      BY PlanType DEF WInv, TypeOK
    <3> QED BY <3>1 DEF Scripts, WInv, TypeOK
  <2> QED BY <1>2, <2>1, <2>2, <2>3 DEF Moved
<1>7. LinksGone' /\ NotBegun'
  BY <1>1, <1>3 DEF RInv, LinksGone, NotBegun
<1> QED BY <1>5, <1>6, <1>7 DEF RInv

(* What no step of a round touches.                                        *)
LEMMA RRound ==
  ASSUME WInv, RInv, stage \in InRound, stage' \in InRound \cup {"aborted"},
         UNCHANGED <<plan, expected, sent, root, results, lost, run, variation>>
  PROVE  Runnable' /\ ScriptsThere' /\ ResultsThere' /\ NotBegun'
<1>1. Shrinks /\ \A r : RoundOver(r)' => RoundOver(r)
  BY DEF Shrinks, RoundOver, InRound
<1>2. Runnable' /\ ResultsThere'
  BY <1>1, RunnableStays, ResultsStay
<1> QED BY <1>2, PlanKept DEF RInv, ScriptsThere, Orderly, Scripts, NotBegun, InRound

(* A round begins with nothing left behind.                                *)
LEMMA RMakeVariationDirectory ==
  ASSUME WInv, RInv, MakeVariationDirectory
  PROVE  RInv'
<1>1. /\ stage = "making directory" /\ links' = [h \in Hosts |-> {}]
      /\ UNCHANGED <<plan, expected, sent, root, results, lost, run, variation>>
  BY DEF MakeVariationDirectory, request, transfer, loops
<1>2. stage' \in {"linking", "aborted"}
  BY DEF MakeVariationDirectory, Then
<1>3. Runnable' /\ ScriptsThere' /\ ResultsThere' /\ NotBegun'
  BY <1>1, <1>2, RRound DEF InRound
<1>4. OutputsThere' /\ LinksGone'
  BY <1>1, <1>2 DEF OutputsThere, Behind, LinksGone
<1> QED BY <1>3, <1>4 DEF RInv

(* Only hosts of the experiment get links, and only to dependencies.       *)
LEMMA RLink ==
  ASSUME WInv, RInv, Link
  PROVE  RInv'
<1>1. /\ stage = "linking" /\ index' = 1
      /\ UNCHANGED <<plan, expected, sent, root, outputs, results, lost, run, variation>>
  BY DEF Link, request, transfer
<1>2. PICK done \in SUBSET plan.hosts :
        /\ links' = [h \in Hosts |-> IF h \in done /\ top[h] = "directory" THEN plan.dependencies
                                     ELSE links[h]]
        /\ Then(done, plan.hosts, First(plan.setups, "setups", "execute"))
  BY DEF Link
<1>3. stage' \in {"setups", "execute", "aborted"} /\ (stage' = "execute" => plan.setups = <<>>)
  BY <1>2 DEF Then, First
<1>4. Runnable' /\ ScriptsThere' /\ ResultsThere' /\ NotBegun'
  BY <1>1, <1>3, RRound DEF InRound
<1>5. LinksGone'
  BY <1>1, <1>2, <1>3 DEF RInv, LinksGone
<1>6. ASSUME NEW h, NEW s \in Planned(h) PROVE ~Behind(s[1])'
  <2>1. DOMAIN plan.setups = 1 .. Len(plan.setups) /\ Len(plan.setups) \in Nat
    BY PlanType, StagesType DEF WInv, TypeOK
  <2>2. \A i \in DOMAIN plan.setups : ~(i < 1)
    BY <2>1
  <2>3. stage' = "execute" => DOMAIN plan.setups = {}
    BY <1>3
  <2> QED BY <1>1, <1>3, <2>2, <2>3, PlannedAre DEF Behind
<1>7. OutputsThere'
  BY <1>1, <1>6, PlanKept DEF OutputsThere
<1> QED BY <1>4, <1>5, <1>7 DEF RInv

(* Once the links are removed from all hosts of the experiment, no host    *)
(* has any.                                                                *)
LEMMA RUnlink ==
  ASSUME WInv, RInv, Unlink
  PROVE  RInv'
<1>1. /\ stage = "unlinking"
      /\ UNCHANGED <<plan, expected, sent, root, outputs, results, lost, run, variation, index>>
  BY DEF Unlink, request, transfer, loops
<1>2. PICK done \in SUBSET plan.hosts :
        /\ links' = [h \in Hosts |-> IF h \in done THEN links[h] \ plan.dependencies ELSE links[h]]
        /\ Then(done, plan.hosts, "collecting")
  BY DEF Unlink
<1>3. stage' \in {"collecting", "aborted"} /\ (stage' = "collecting" => done = plan.hosts)
  BY <1>2 DEF Then
<1>4. Runnable' /\ ScriptsThere' /\ ResultsThere' /\ NotBegun'
  BY <1>1, <1>3, RRound DEF InRound
<1>5. LinksGone'
  BY <1>1, <1>2, <1>3 DEF RInv, LinksGone
<1>6. OutputsThere'
  <2>1. Shrinks /\ \A step : Behind(step)' => Behind(step)
    BY <1>1, <1>3 DEF Shrinks, Behind
  <2> QED BY <1>1, <2>1, OutputsStay
<1> QED BY <1>4, <1>5, <1>6 DEF RInv

(* A script that the client expects to run leaves something wherever it is *)
(* run.                                                                    *)
LEMMA Leaves ==
  ASSUME WInv, DInv, RInv, stage \in InRound, Orderly,
         NEW h \in Sessions \ lost, NEW s \in Planned(h), Expected(s[2])
  PROVE  \E o \in Output(h, s[2][2], s[1]) : o.step = s[1]
<1> DEFINE n == s[2][2]
<1>1. s[2] \in Scripts /\ n \in Names /\ h \in Hosts
  BY PlannedAre, PlanType DEF WInv, TypeOK
<1>2. h \in sent \ lost
  BY DEF DInv, AllMoved
<1>3. top[h] = "directory" /\ root[h][n] # None
  BY <1>1, <1>2 DEF DInv, Served, Orderly, RInv, ScriptsThere
<1>4. root[h][n].file = s[2]
  <2>1. root[h][n].file \in FilesOf(plan) /\ root[h][n].file[2] = n
    BY <1>1, <1>3 DEF WInv, CopiesRight, RightVersion
  <2> QED BY <1>1, <2>1 DEF Scripts, Orderly, OneFilePerName
<1>5. root[h][n].executable
  BY <1>1, <1>3, <1>4 DEF RInv, Runnable
<1>6. Output(h, n, s[1]) =
        {[step |-> s[1], file |-> root[h][n].file, writers |-> root[h][n].writers,
          found |-> {d \in AtHand(h) : deps[h][d].file = <<"dependency", d>>}]}
  BY <1>3, <1>5 DEF Output
<1> QED BY <1>6

(* A step that has been run on all of its hosts is behind.                 *)
LEMMA RScript ==
  ASSUME WInv, DInv, RInv, NEW hosts \in SUBSET Hosts, NEW n, NEW step, NEW after,
         RunScript(hosts, n, step, after), stage \in InRound,
         stage' = "aborted" \/ stage' \in InRound \ {"collecting"},
         stage' # "aborted" =>
           \A h \in Sessions : \A s \in Planned(h) :
             Behind(s[1])' => Behind(s[1]) \/ (s[1] = step /\ s[2][2] = n /\ h \in hosts),
         after # "aborted"
  PROVE  RInv'
<1>1. UNCHANGED <<plan, expected, sent, root, links, results, lost, run, variation>>
  BY DEF RunScript, request, transfer
<1>2. PICK done \in SUBSET hosts :
        /\ outputs' = [h \in Hosts |-> outputs[h] \cup IF h \in done THEN Output(h, n, step) ELSE {}]
        /\ Then(done, hosts, after)
  BY DEF RunScript
<1>3. Runnable' /\ ScriptsThere' /\ ResultsThere' /\ NotBegun'
  BY <1>1, RRound
<1>4. LinksGone'
  BY <1>1 DEF RInv, LinksGone
<1>5. OutputsThere'
  <2> SUFFICES ASSUME Orderly, NEW h \in Sessions \ lost, NEW s \in Planned(h), Behind(s[1])',
                      Expected(s[2])
               PROVE  \E o \in outputs'[h] : o.step = s[1]
    BY <1>1, PlanKept DEF OutputsThere, Orderly, Marked, Expected
  <2>1. stage' # "aborted"
    BY DEF Behind
  <2>2. h \in Hosts /\ done = hosts
    BY <1>2, <2>1, PlanType DEF WInv, TypeOK, Then
  <2>3. CASE Behind(s[1])
    <3>1. \E o \in outputs[h] : o.step = s[1]
      BY <2>3 DEF RInv, OutputsThere, Marked
    <3> QED BY <1>2, <2>2, <3>1
  <2>4. CASE s[1] = step /\ s[2][2] = n /\ h \in hosts
    <3>1. \E o \in Output(h, n, step) : o.step = s[1]
      BY <2>4, Leaves
    <3> QED BY <1>2, <2>2, <2>4, <3>1
  <2> QED BY <2>1, <2>3, <2>4
<1> QED BY <1>3, <1>4, <1>5 DEF RInv

(* Counting up by one leaves one more behind.                              *)
LEMMA OneMore ==
  ASSUME NEW stages \in Stages, NEW i \in DOMAIN stages, NEW j \in DOMAIN stages
  PROVE  (j < i + 1 => j < i \/ j = i) /\ (i = Len(stages) => j < i \/ j = i) /\ ~(j < 1)
BY StagesType

(* Setups, the script and teardowns, whichever comes next.                 *)
LEMMA RStage ==
  ASSUME WInv, DInv, RInv, RunSetup \/ Execute \/ RunTeardown
  PROVE  RInv'
<1>1. plan.setups \in Stages /\ plan.teardowns \in Stages
  BY PlanType DEF WInv, TypeOK
<1>2. CASE RunSetup
  <2> DEFINE after == IF index = Len(plan.setups) THEN "execute" ELSE "setups"
             e == plan.setups[index]
  <2>1. /\ stage = "setups" /\ e.hosts \in SUBSET Hosts /\ index \in DOMAIN plan.setups
        /\ index' = IF index = Len(plan.setups) THEN 1 ELSE index + 1
        /\ RunScript(e.hosts, e.script, <<"setup", index>>, after)
    BY <1>2, RunSetupIs
  <2>2. stage' \in {after, "aborted"} /\ UNCHANGED plan
    BY <2>1 DEF RunScript, Then, request
  <2>3. ASSUME stage' # "aborted", NEW h \in Sessions, NEW s \in Planned(h), Behind(s[1])'
        PROVE  Behind(s[1]) \/ (s[1] = <<"setup", index>> /\ s[2][2] = e.script /\ h \in e.hosts)
    <3>1. PICK i \in DOMAIN plan.setups :
            /\ s = <<<<"setup", i>>, <<"setup", plan.setups[i].script>>>>
            /\ h \in plan.setups[i].hosts
      BY <2>2, <2>3, PlannedAre DEF Behind
    <3>2. i < index \/ i = index
      <4>1. CASE index = Len(plan.setups)
        BY <1>1, <2>1, <4>1, OneMore
      <4>2. CASE index # Len(plan.setups)
        <5>1. stage' = "setups" /\ index' = index + 1
          BY <2>1, <2>2, <2>3, <4>2
        <5>2. i < index + 1
          BY <2>3, <3>1, <5>1 DEF Behind
        <5> QED BY <1>1, <2>1, <5>2, OneMore
      <4> QED BY <4>1, <4>2
    <3> QED BY <2>1, <3>1, <3>2 DEF Behind
  <2>4. after # "aborted" /\ after \in InRound \ {"collecting"} /\ "setups" \in InRound
    BY DEF InRound
  <2> HIDE DEF after, e
  <2> QED BY <2>1, <2>2, <2>3, <2>4, RScript
<1>3. CASE RunTeardown
  <2> DEFINE after == IF index = Len(plan.teardowns) THEN "unlinking" ELSE "teardowns"
             e == plan.teardowns[index]
  <2>1. /\ stage = "teardowns" /\ e.hosts \in SUBSET Hosts /\ index \in DOMAIN plan.teardowns
        /\ index' = IF index = Len(plan.teardowns) THEN 1 ELSE index + 1
        /\ RunScript(e.hosts, e.script, <<"teardown", index>>, after)
    BY <1>3, RunTeardownIs
  <2>2. stage' \in {after, "aborted"} /\ UNCHANGED plan
    BY <2>1 DEF RunScript, Then, request
  <2>3. ASSUME stage' # "aborted", NEW h \in Sessions, NEW s \in Planned(h), Behind(s[1])', ~Behind(s[1])
        PROVE  s[1] = <<"teardown", index>> /\ s[2][2] = e.script /\ h \in e.hosts
    <3>1. PICK i \in DOMAIN plan.teardowns :
            /\ s = <<<<"teardown", i>>, <<"teardown", plan.teardowns[i].script>>>>
            /\ h \in plan.teardowns[i].hosts
      BY <2>1, <2>2, <2>3, PlannedAre DEF Behind
    <3>2. i < index \/ i = index
      <4>1. CASE index = Len(plan.teardowns)
        BY <1>1, <2>1, <4>1, OneMore
      <4>2. CASE index # Len(plan.teardowns)
        <5>1. stage' = "teardowns" /\ index' = index + 1
          BY <2>1, <2>2, <2>3, <4>2
        <5>2. i < index + 1
          BY <2>3, <3>1, <5>1 DEF Behind
        <5> QED BY <1>1, <2>1, <5>2, OneMore
      <4> QED BY <4>1, <4>2
    <3> QED BY <2>1, <2>3, <3>1, <3>2 DEF Behind
  <2>4. after # "aborted" /\ after \in InRound \ {"collecting"} /\ "teardowns" \in InRound
    BY DEF InRound
  <2> HIDE DEF after, e
  <2> QED BY <2>1, <2>2, <2>3, <2>4, RScript
<1>4. CASE Execute
  <2> DEFINE after == First(plan.teardowns, "teardowns", "unlinking")
  <2>1. /\ stage = "execute" /\ plan.hosts \in SUBSET Hosts /\ index' = 1
        /\ RunScript(plan.hosts, plan.script, <<"execute", 1>>, after)
    BY <1>4, ExecuteIs
  <2>2. stage' \in {after, "aborted"} /\ UNCHANGED plan
    BY <2>1 DEF RunScript, Then, request
  <2>3. after \in {"teardowns", "unlinking"} /\ (after = "unlinking" => plan.teardowns = <<>>)
    BY DEF First
  <2> HIDE DEF after
  <2>4. ASSUME stage' # "aborted", NEW h \in Sessions, NEW s \in Planned(h), Behind(s[1])', ~Behind(s[1])
        PROVE  s[1] = <<"execute", 1>> /\ s[2][2] = plan.script /\ h \in plan.hosts
    <3>1. ASSUME NEW i \in DOMAIN plan.teardowns, s[1] = <<"teardown", i>> PROVE FALSE
      <4>1. stage' = "teardowns"
        BY <1>1, <2>2, <2>3, <2>4, <3>1
      <4>2. i < 1
        BY <2>1, <2>4, <3>1, <4>1 DEF Behind
      <4> QED BY <1>1, <4>2, OneMore
    <3>2. ASSUME NEW i \in DOMAIN plan.setups, s[1] = <<"setup", i>> PROVE FALSE
      BY <2>1, <2>4, <3>2 DEF Behind
    <3> QED BY <3>1, <3>2, PlannedAre
  <2>5. after # "aborted" /\ after \in InRound \ {"collecting"} /\ "execute" \in InRound
    BY <2>3 DEF InRound
  <2> QED BY <2>1, <2>2, <2>4, <2>5, RScript
<1> QED BY <1>2, <1>3, <1>4

(* Rounds are in the order of main_loop's loops.                           *)
LEMMA Later ==
  ASSUME NEW n \in Nat, NEW v \in Nat \ {0}, NEW i \in Nat, NEW j \in Nat
  PROVE  LET before == n < i \/ (n = i /\ v < j) \/ (n = i /\ v = j)
         IN /\ n < i \/ (n = i /\ v < j + 1) => before
            /\ v <= j /\ (n < i + 1 \/ (n = i + 1 /\ v < 1)) => before
            /\ v <= j /\ n <= i => before
OBVIOUS

(* Going on to the next round adds the last one to those that are over.    *)
LEMMA OneMoreRound ==
  ASSUME WInv, NextRound, stage # "finished", NEW r \in Rounds, RoundOver(r)'
  PROVE  RoundOver(r) \/ r = <<run, variation>>
<1>1. /\ plan.runs \in Nat /\ plan.experiments \in Nat
      /\ run \in 1 .. plan.runs /\ variation \in 1 .. plan.experiments
  BY PlanType DEF WInv, TypeOK
<1>2. PICK n \in 1 .. plan.runs, v \in 1 .. plan.experiments : r = <<n, v>>
  BY DEF Rounds
<1>3. /\ run \in Nat /\ variation \in Nat /\ n \in Nat /\ v \in Nat \ {0}
      /\ n <= plan.runs /\ v <= plan.experiments
  BY <1>1, <1>2
<1>4. n < run \/ (n = run /\ v < variation) \/ (n = run /\ v = variation)
  <2> DEFINE runs == plan.runs
             experiments == plan.experiments
  <2>1. stage' = "finished" \/ n < run' \/ (n = run' /\ v < variation')
    BY <1>2 DEF RoundOver
  <2>2. CASE variation < experiments /\ variation' = variation + 1 /\ run' = run
             /\ stage' = "making directory"
    <3>1. n < run \/ (n = run /\ v < variation + 1)
      BY <2>1, <2>2
    <3> QED BY <1>3, <3>1, Later
  <2>3. CASE variation = experiments /\ run' = run + 1 /\ variation' = 1
             /\ stage' = "making directory"
    <3>1. n < run + 1 \/ (n = run + 1 /\ v < 1)
      BY <2>1, <2>3
    <3> QED BY <1>3, <2>3, <3>1, Later
  <2>4. CASE variation = experiments /\ run = runs
    BY <1>3, <2>4, Later
  <2> QED BY <2>2, <2>3, <2>4 DEF NextRound
<1> QED BY <1>2, <1>4 DEF RoundOver

(* What is collected of a round that went through is whole.                *)
LEMMA RCollectResults ==
  ASSUME WInv, DInv, RInv, CollectResults
  PROVE  RInv'
<1>1. /\ stage = "collecting" /\ NextRound
      /\ UNCHANGED <<plan, expected, sent, root, links, outputs, index>>
  BY DEF CollectResults, request, transfer, nodes
<1>2. PICK ok \in SUBSET Sessions :
        /\ results' = [h \in Hosts |-> IF h \in ok
                         THEN [results[h] EXCEPT ![<<run, variation>>] = Collected(h)]
                         ELSE results[h]]
        /\ lost' = lost \cup (Sessions \ ok)
  BY DEF CollectResults
<1>3. stage' \in {"making directory", "finished"} /\ Shrinks
  BY <1>1, NextRoundType DEF Shrinks
<1>4. Runnable' /\ ScriptsThere' /\ OutputsThere' /\ LinksGone' /\ NotBegun'
  <2>1. Runnable'
    BY <1>1, <1>3, RunnableStays
  <2>2. ScriptsThere'
    BY <1>1, <1>2, PlanKept DEF RInv, ScriptsThere, Orderly, Scripts
  <2>3. OutputsThere' /\ LinksGone' /\ NotBegun'
    BY <1>1, <1>3 DEF RInv, OutputsThere, Behind, LinksGone, NotBegun
  <2> QED BY <2>1, <2>2, <2>3
<1>5. ResultsThere'
  <2> SUFFICES ASSUME Orderly, NEW h \in Sessions \ lost', NEW r \in Rounds, RoundOver(r)'
               PROVE  Complete(h, results'[h][r])
    BY <1>1, PlanKept DEF ResultsThere, Orderly, Complete, Marked, Expected
  <2>1. h \in Sessions \ lost /\ h \in ok /\ h \in Hosts
    BY <1>2, PlanType DEF WInv, TypeOK
  <2>2. results[h] \in [Rounds -> [outputs : OutputSet, dependencies : SUBSET Names]]
    BY <2>1 DEF WInv, TypeOK
  <2>3. CASE r = <<run, variation>>
    <3>1. results'[h][r] = Collected(h)
      BY <1>2, <2>1, <2>2, <2>3
    <3>2. links[h] = {}
      BY <1>1, <2>1 DEF RInv, LinksGone
    <3>3. \A s \in Planned(h) : Behind(s[1])
      BY <1>1, PlannedAre DEF Behind
    <3>4. \A s \in Planned(h) : Marked(outputs[h], s)
      BY <2>1, <3>3 DEF RInv, OutputsThere
    <3> QED BY <3>1, <3>2, <3>4 DEF Collected, AtHand, Complete
  <2>4. CASE r # <<run, variation>>
    <3>1. results'[h][r] = results[h][r]
      BY <1>2, <2>1, <2>2, <2>4
    <3>2. RoundOver(r)
      BY <1>1, <2>4, OneMoreRound
    <3> QED BY <2>1, <3>1, <3>2 DEF RInv, ResultsThere
  <2> QED BY <2>3, <2>4
<1> QED BY <1>4, <1>5 DEF RInv

(* Nothing is expected, sent, run or collected at first.                   *)
LEMMA RInit == Init => RInv
<1> SUFFICES ASSUME Init PROVE RInv
  OBVIOUS
<1>1. /\ stage = "unsent" /\ sent = {} /\ run = 1 /\ variation = 1
      /\ \A h \in Hosts : links[h] = {} /\ \A n \in Names : root[h][n] = None
  BY DEF Init, Nothing
<1>2. \A r \in Rounds : ~RoundOver(r)
  BY <1>1 DEF Rounds, RoundOver
<1> QED BY <1>1, <1>2 DEF RInv, Runnable, ScriptsThere, OutputsThere, Behind, LinksGone,
                          ResultsThere, NotBegun

(* Every step keeps the invariant of the results.                          *)
LEMMA RNext == IInv /\ WInv /\ DInv /\ RInv /\ [Next]_vars => RInv'
<1> SUFFICES ASSUME IInv, WInv, DInv, RInv, [Next]_vars PROVE RInv'
  OBVIOUS
<1>1. CASE StorageStep \/ ValidateFiles \/ CheckFiles \/ Abort \/ UNCHANGED vars
  BY <1>1, RRequestSteps
<1>2. CASE \E c \in Clients : Submit(c)
  BY <1>2, RSubmit
<1>3. CASE \E h \in Hosts : StartScp(h)
  BY <1>3, RRequestSteps
<1>4. CASE \E f \in left : CopyFile(f)
  BY <1>4, RCopyFile
<1>5. CASE ScpFails \/ CorrectDependencies \/ MakeVariationDirectory \/ Link
  BY <1>5, RScpFails, RCorrectDependencies, RMakeVariationDirectory, RLink
<1>6. CASE RunSetup \/ RunTeardown \/ Execute
  BY <1>6, RStage
<1>7. CASE Unlink \/ CollectResults
  BY <1>7, RUnlink, RCollectResults
<1> QED BY <1>1, <1>2, <1>3, <1>4, <1>5, <1>6, <1>7 DEF Next, RunnerStep

(* A request that finishes has been collected whole: results of every step *)
(* of every round, and no dependency among them, from every host that no   *)
(* scp failed on, whatever failed on others, for any plan of several files *)
(* that all have different names (controller/src/run.rs:407-524, 894-921). *)
THEOREM ResultsWhole == Spec => []ResultsComplete
<1>1. RInv => ResultsComplete
  BY DEF RInv, ResultsThere, ResultsComplete, Orderly, Several, RoundOver, Complete, Marked, Expected
<1> QED BY <1>1, Invariant, DInit, DNext, RInit, RNext, PTL DEF Spec

=============================================================================
