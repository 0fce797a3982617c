------------------------------- MODULE Intake -------------------------------
(***************************************************************************)
(* What POST /run does to a request before it enqueues it, and what the    *)
(* runner later makes of the result (controller/src/parse.rs, routes.rs,   *)
(* run.rs): the two configurations are validated against each other, the   *)
(* files they name are looked up in the storage directory, and one         *)
(* Experiment is generated for the base experiment and for each variation. *)
(* When its turn comes the runner connects to the hosts of all of them and *)
(* uploads their files.  POST /upload may write to the storage directory   *)
(* at any time, from other tasks.                                          *)
(*                                                                         *)
(* A list of host, exporter or dependency names is a set here: only        *)
(* membership is ever asked of it.  Of a list of arguments only its length *)
(* matters.  None stands for an absent Option.                             *)
(***************************************************************************)
EXTENDS Integers, Sequences

CONSTANTS
  Configs,            \* the Config bodies considered, valid and not
  ExperimentConfigs,  \* the ExperimentConfig bodies considered
  SshAddresses,       \* addresses that match the "user@host" expression
  Localhost, None,
  Files               \* <<file type, base name>> pairs of the storage directory

MaxRuns == 65535      \* runs is a u16

SetOf(list) == {list[i] : i \in DOMAIN list}

(* Stages and variations are lists, and runs, if given, fits its type.     *)
ASSUME IntakeAssumption ==
  \A x \in ExperimentConfigs :
    /\ x.runs \in 0 .. MaxRuns \cup {None}
    /\ \A list \in {x.setups, x.teardowns, x.variations} : list \in Seq(SetOf(list))

VARIABLES
  config, experiment_config,   \* the request
  stage,                       \* how far it is
  storage,                     \* the files in the storage directory
  experiments,                 \* what generate_experiments returned
  runs,
  sessions,                    \* addresses the runner connected to
  uploaded                     \* files the runner sent to the hosts

request == <<config, experiment_config>>
vars == <<request, stage, storage, experiments, runs, sessions, uploaded>>

-----------------------------------------------------------------------------
(* Validation.                                                             *)

HostNames(c) == {h.name : h \in c.hosts}

HostsCheck(c, hosts) == hosts \subseteq HostNames(c) \cup {Localhost}

ExportersCheck(c, exporters) ==
  exporters \subseteq {c.exporters[i].name : i \in DOMAIN c.exporters}

ArgumentsCheckLax(expected, arguments) ==
  expected # None /\ arguments # None => expected = arguments

ArgumentsCheck(expected, arguments) ==
  /\ ArgumentsCheckLax(expected, arguments)
  /\ expected # None /\ arguments = None => expected = 0

ValidConfig(c) ==
  /\ \A h \in c.hosts : h.name # Localhost /\ h.address \in SshAddresses \ {Localhost}
  /\ \A i \in DOMAIN c.exporters :
       /\ c.exporters[i].hosts # {} /\ HostsCheck(c, c.exporters[i].hosts)
       /\ ~c.exporters[i].blank

ValidRemoteExecution(c, s) == s.hosts # {} /\ HostsCheck(c, s.hosts) /\ ~s.blank

(* The errors that RemoteExecutionConfig words itself, for which it takes  *)
(* its file_type to be there.                                              *)
OwnError(c, s) == s.hosts = {} \/ (HostsCheck(c, s.hosts) /\ s.blank)

ValidVariation(c, v) ==
  /\ ~v.blank
  /\ v.hosts # {} \/ v.arguments # None \/ v.exporters # {}
  /\ HostsCheck(c, v.hosts)
  /\ ArgumentsCheck(v.expected, v.arguments)
  /\ ExportersCheck(c, v.exporters)

-----------------------------------------------------------------------------
(* Faults a change to the code could bring in.  None is part of the        *)
(* specification: each stands in for the definition named after "for", to  *)
(* see that a property notices.                                            *)

(* for CrossCheck: only the variation's own arguments are looked at        *)
CrossCheckOneWay(x, v) ==
  v.expected = None /\ v.arguments # None => ArgumentsCheck(x.expected, v.arguments)

(* for DistinctNames: only the base is compared with                       *)
NotNamedAsBase(x) == \A i \in DOMAIN x.variations : x.variations[i].name # x.name

(* for FilesPresent: the dependencies are not looked up                    *)
ScriptsPresent(x) == <<"execute", x.script>> \in storage

(* for HostsOf: setups and teardowns are forgotten                         *)
HostsOfExporters(e) == e.hosts \cup UNION {exporter.hosts : exporter \in e.exporters}

(* for Default: 0 for a missing number                                     *)
OrZero(option, value) == IF option = None THEN 0 ELSE option

-----------------------------------------------------------------------------
(* The two configurations against each other.                              *)

(* The arguments of a variation against what the base expects, or those of *)
(* the base against what the variation expects.                            *)
CrossCheck(x, v) ==
  /\ v.expected = None /\ v.arguments # None => ArgumentsCheck(x.expected, v.arguments)
  /\ v.expected # None /\ v.arguments = None => ArgumentsCheck(v.expected, x.arguments)

DistinctNames(x) ==
  \A i, j \in DOMAIN x.variations : x.variations[i].name = x.variations[j].name => i = j

(* The setups, then the teardowns.  A stage has the file_type that the     *)
(* body gives it, if any: the CLI sets that of the list the stage is in    *)
(* (parse_toml), POST /run does not look.                                  *)
StageList(x) == x.setups \o x.teardowns

StagesOf(x) == SetOf(x.setups) \cup SetOf(x.teardowns)

ValidBase(c, x) ==
  /\ ~x.blank
  /\ x.runs # 0
  /\ IF x.variations_only THEN ArgumentsCheckLax(x.expected, x.arguments)
                          ELSE ArgumentsCheck(x.expected, x.arguments)
  /\ x.hosts # {} /\ HostsCheck(c, x.hosts)
  /\ ExportersCheck(c, x.exporters)

ValidExperimentConfig(c, x) ==
  /\ ValidBase(c, x)
  /\ \A s \in StagesOf(x) : ValidRemoteExecution(c, s)
  /\ x.variations_only => x.variations # <<>>
  /\ \A i \in DOMAIN x.variations :
       ValidVariation(c, x.variations[i]) /\ CrossCheck(x, x.variations[i])
  /\ DistinctNames(x)

(* The checks go through the stages in order, and the first error is that  *)
(* of a stage without a file_type: an expect fails while it is worded.     *)
ErrorPanics(c, x) ==
  /\ ValidConfig(c) /\ ValidBase(c, x)
  /\ \E i \in DOMAIN StageList(x) :
       /\ \A j \in 1 .. i - 1 : ValidRemoteExecution(c, StageList(x)[j])
       /\ StageList(x)[i].file_type = None /\ OwnError(c, StageList(x)[i])

-----------------------------------------------------------------------------
(* The files.                                                              *)

Stored(type, files) == {type} \X files \subseteq storage

BaseFilesPresent(x) == Stored("execute", {x.script}) /\ Stored("dependency", x.dependencies)

(* The script of a stage, None for a shell command, is looked up below the *)
(* stage's own file_type, which is unwrapped.                              *)
StageFilesPresent(s) ==
  /\ s.file_type # None
  /\ Stored(s.file_type, {s.script} \ {None})
  /\ Stored("dependency", s.dependencies)

FilesPresent(x) == BaseFilesPresent(x) /\ \A s \in StagesOf(x) : StageFilesPresent(s)

(* The first stage to fail has no file_type to unwrap.                     *)
LookupPanics(x) ==
  /\ BaseFilesPresent(x)
  /\ \E i \in DOMAIN StageList(x) :
       /\ \A j \in 1 .. i - 1 : StageFilesPresent(StageList(x)[j])
       /\ StageList(x)[i].file_type = None

-----------------------------------------------------------------------------
(* Generation.                                                             *)

MapHosts(c, hosts) ==
  {h.address : h \in {h \in c.hosts : h.name \in hosts}} \cup (hosts \cap {Localhost})

MapExporters(c, exporters) ==
  {[name |-> c.exporters[i].name, hosts |-> MapHosts(c, c.exporters[i].hosts)] :
     i \in {i \in DOMAIN c.exporters : c.exporters[i].name \in exporters}}

Default(option, value) == IF option = None THEN value ELSE option

(* map_remote_executions: the directory of a script is that of its list.   *)
Mapped(c, type, list) ==
  {[hosts |-> MapHosts(c, s.hosts), files |-> {type} \X ({s.script} \ {None})] : s \in SetOf(list)}

BaseExperiment(c, x) ==
  [name      |-> <<x.name>>,
   hosts     |-> MapHosts(c, x.hosts),
   execute   |-> [hosts |-> MapHosts(c, x.hosts), file |-> <<"execute", x.script>>],
   stages    |-> Mapped(c, "setup", x.setups) \cup Mapped(c, "teardown", x.teardowns),
   dependencies |-> {"dependency"} \X x.dependencies,
   expected  |-> x.expected,
   arguments |-> Default(x.arguments, 0),
   exporters |-> MapExporters(c, x.exporters)]

(* Everything else, the hosts of execute too, is that of the base.         *)
VariationExperiment(c, x, v) ==
  [BaseExperiment(c, x) EXCEPT
     !.name      = <<x.name, v.name>>,
     !.hosts     = IF v.hosts = {} THEN @ ELSE MapHosts(c, v.hosts),
     !.expected  = Default(v.expected, @),
     !.arguments = Default(v.arguments, @),
     !.exporters = IF v.exporters = {} THEN @ ELSE MapExporters(c, v.exporters)]

GenerateExperiments(c, x) ==
  (IF x.variations_only THEN <<>> ELSE <<BaseExperiment(c, x)>>)
    \o [i \in DOMAIN x.variations |-> VariationExperiment(c, x, x.variations[i])]

(* Experiment::hosts and unique_hosts_for_all_experiments.                 *)
HostsOf(e) ==
  e.hosts \cup (UNION {exporter.hosts : exporter \in e.exporters})
          \cup (UNION {s.hosts : s \in e.stages})

UniqueHosts(es) == UNION {HostsOf(es[i]) : i \in DOMAIN es}

(* Experiment::files and unique_files_for_all_experiments.                 *)
FilesOf(e) == {e.execute.file} \cup (UNION {s.files : s \in e.stages}) \cup e.dependencies

UniqueFiles(es) == UNION {FilesOf(es[i]) : i \in DOMAIN es}

-----------------------------------------------------------------------------
(* At first any files may have been uploaded.                              *)
Init ==
  /\ config \in Configs /\ experiment_config \in ExperimentConfigs
  /\ stage = "received"
  /\ storage \in SUBSET Files
  /\ experiments = <<>> /\ runs = 0
  /\ sessions = {} /\ uploaded = {}

(* A panic ends the handler, and the client's connection with it.          *)
Refused(panics) == IF panics THEN "panicked" ELSE "rejected"

Validate ==
  /\ stage = "received"
  /\ stage' = IF ValidConfig(config) /\ ValidExperimentConfig(config, experiment_config)
                THEN "valid" ELSE Refused(ErrorPanics(config, experiment_config))
  /\ UNCHANGED <<request, storage, experiments, runs, sessions, uploaded>>

ValidateFiles ==
  /\ stage = "valid"
  /\ stage' = IF FilesPresent(experiment_config)
                THEN "complete" ELSE Refused(LookupPanics(experiment_config))
  /\ UNCHANGED <<request, storage, experiments, runs, sessions, uploaded>>

Generate ==
  /\ stage = "complete"
  /\ experiments' = GenerateExperiments(config, experiment_config)
  /\ runs' = Default(experiment_config.runs, 1)
  /\ stage' = "enqueued"
  /\ UNCHANGED <<request, storage, sessions, uploaded>>

(* The runner: main_loop goes through connect_to_hosts.                     *)
ConnectToHosts ==
  /\ stage = "enqueued"
  /\ sessions' = UniqueHosts(experiments)
  /\ stage' = "connected"
  /\ UNCHANGED <<request, storage, experiments, runs, uploaded>>

(* session::upload returns an error, and main_loop with it, before it has  *)
(* sent anything if one of the files is not there.                         *)
UploadFiles ==
  /\ stage = "connected"
  /\ LET files == UniqueFiles(experiments)
         present == files \subseteq storage
     IN /\ uploaded' = IF present THEN files ELSE {}
        /\ stage' = IF present THEN "running" ELSE "aborted"
  /\ UNCHANGED <<request, storage, experiments, runs, sessions>>

(* POST /upload writes a file, over one of the same name if there is one.  *)
ReceiveUpload(f) ==
  /\ storage' = storage \cup {f}
  /\ UNCHANGED <<request, stage, experiments, runs, sessions, uploaded>>

Next ==
  \/ Validate \/ ValidateFiles \/ Generate \/ ConnectToHosts \/ UploadFiles
  \/ \E f \in Files : ReceiveUpload(f)

Spec == Init /\ [][Next]_vars

-----------------------------------------------------------------------------
(* Properties.                                                             *)

Stages == {"received", "valid", "complete", "enqueued", "connected", "running",
           "rejected", "panicked", "aborted"}

(* Every variable keeps its type; runs stays within what its documentation *)
(* allows, [1, 65536) (controller/src/parse.rs:595-599).                   *)
TypeOK ==
  /\ config \in Configs /\ experiment_config \in ExperimentConfigs
  /\ stage \in Stages
  /\ storage \subseteq Files /\ uploaded \subseteq Files
  /\ experiments # <<>> => runs \in 1 .. MaxRuns

Accepted == stage \in {"enqueued", "connected", "running", "aborted"}

Generated == {experiments[i] : i \in DOMAIN experiments}

(* An accepted request yields at least one experiment, and no two of them  *)
(* have the same name and so share a results directory (the base and every *)
(* variation, controller/src/parse.rs:907-918, 2171-2188).                 *)
NamesDistinct ==
  Accepted =>
    /\ experiments # <<>>
    /\ \A i, j \in DOMAIN experiments : experiments[i].name = experiments[j].name => i = j

AsExpected(e) == e.expected # None => e.expected = e.arguments

(* Where the base experiment is generated too, each generated experiment   *)
(* has as many arguments as it expects, whichever of the two the variation *)
(* overrides (arguments_check and the match in ExperimentConfig::validate, *)
(* controller/src/parse.rs:864-905, 998-1020).                             *)
BaseArgumentsAsExpected ==
  Accepted /\ ~experiment_config.variations_only => \A e \in Generated : AsExpected(e)

HostLists(e) == {exporter.hosts : exporter \in e.exporters} \cup {s.hosts : s \in e.stages} \cup {e.hosts}

(* Every experiment of the request is a variation with hosts of its own.   *)
OnlyOwnHosts(x) ==
  x.variations_only /\ \A i \in DOMAIN x.variations : x.variations[i].hosts # {}

(* No command of an accepted request falls back to the controller's own    *)
(* host for want of a session: every list of hosts that validation let     *)
(* through resolves to at least one address, and the runner has connected  *)
(* to all of them (hosts_check, map_hosts, Experiment::hosts).  The hosts  *)
(* of execute, which Experiment::hosts leaves out, are connected to on     *)
(* account of the experiment, or another of the request, that has the      *)
(* hosts of the base: nothing is said of them where there is none.         *)
EveryHostConnected ==
  stage \in {"connected", "running", "aborted"} =>
    \A e \in Generated :
      \A hosts \in HostLists(e) \cup
                       (IF OnlyOwnHosts(experiment_config) THEN {} ELSE {e.execute.hosts}) :
        hosts # {} /\ hosts \subseteq sessions

(* "Returns a vector containing all the unique host addresses for this     *)
(* experiment" (Experiment::hosts, parse.rs:1472): the hosts of execute    *)
(* are among them, so that the runner has a session to each of them when   *)
(* it selects those to run the script in.  Without any it would take the   *)
(* script for a local one and run it on the controller                     *)
(* (filter_host_sessions, run.rs:536-552; from_sessions, command.rs:503-   *)
(* 533).                                                                   *)
ExecuteConnected ==
  stage \in {"connected", "running", "aborted"} =>
    \A e \in Generated : e.execute.hosts \subseteq sessions

(* A script that is looked up in one directory and sent from another.      *)
Misfiled(list, type) ==
  \E s \in SetOf(list) : s.script # None /\ s.file_type \notin {type, None}

(* The files the runner uploads were all looked up when the request was    *)
(* accepted, and a request that is refused is answered for, as long as the *)
(* body gives each stage the file_type of its list: session::upload misses *)
(* no file unless a script has another one, and the handler does not panic *)
(* unless a stage has none.  The CLI sends neither (parse_toml,            *)
(* ExperimentConfig::validate_files against Experiment::files,             *)
(* parse.rs:758-769, 790-810, 1504-1529).                                  *)
UploadNeverMisses ==
  /\ stage = "aborted" => \/ Misfiled(experiment_config.setups, "setup")
                          \/ Misfiled(experiment_config.teardowns, "teardown")
  /\ stage = "panicked" => \E s \in StagesOf(experiment_config) : s.file_type = None

=============================================================================
