# TLA+ specifications of Experimentah

Experimentah's controller is a small HTTP server that accepts descriptions of
experiments, queues them, and runs them one after the other on remote hosts
over ssh, with long-running exporters that collect metrics meanwhile. This
directory holds TLA+ models of the parts of it where order, failure and
concurrency decide whether it is right, the TLC runs that check them on small
instances, and TLAPS proofs of the most important facts for every instance.

All paths below are relative to `src/controller/src/` unless they start with
`src/`.

## The system

| Part | State it keeps | Operations | Interacts with |
| --- | --- | --- | --- |
| Runner (`run.rs`) | `experiment_queue`, `current_experiment` (each behind a tokio mutex), `current_run`, `current_runs` (atomics), `live_exporters` | `enqueue`, `wait_for_experiments`, `start`, `main_loop`, `update_current_experiment`, `reset_metadata` | one task of its own; shares its state with every HTTP handler |
| HTTP handlers (`routes.rs`) | none | `run`, `status`, `upload`, `index` | call the parser, push to the queue, read the run metadata, write the storage directory |
| Parser (`parse.rs`) | none | `validate`, `validate_files`, `generate_experiments`, `Experiment::hosts`, `Experiment::files` | reads the storage directory that `upload` writes |
| Exporters (`run.rs`) | the static `KILL_EXPORTERS`, a background task per process, lock and pid files on the hosts | `setup_exporters`, `start_exporters`, the kill tasks, the draining of `live_exporters` | the flag, the tasks and the files outlive a variation that fails |
| Command executors (`command.rs`) | none | `ShellCommand::build`, `from_sessions`, `run_command`, one task per host | local processes and ssh sessions |
| Sessions (`session.rs`) | the ssh connections of one request | `connect_to_hosts`, `upload`, `download`, `make_directory`, `run_script_at` | hosts |
| Paths (`lib.rs`) | none | `variation_dir_parts`, `file_to_deps_path` | `collect_results`, dependency links |
| Storage directory | files below `<type>/<name>`, their modes | `upload` writes; validation, `session::upload` and `scp` read | every handler and the runner, without a lock |
| Hosts' files | the directory of each request, its `<script>-deps`, a directory for each variation | `scp`, `mkdir -p`, `mv`, `ln -s`, scripts, `rm`, `scp -r` back | written by one command at a time, whose exit status nobody looks at |
| CLI (`src/cli`) | none | `--upload` sends files one by one; a call without it sends one `POST /run`; `--status` | the HTTP handlers |

What is hard here:

- **Shared state under two mutexes and no mutex.** The idle runner sleeps with
  the queue's guard alive; the status handler holds the name's mutex while the
  runner stores the two counters without it; clients disconnect at any await.
- **Errors leave in the middle.** `?` leaves `main_loop` from any stage and
  `start` calls it again. Whatever was not undone - run metadata,
  `KILL_EXPORTERS`, background tasks, processes, lock and pid files - meets
  the next request.
- **Panics.** An `expect` in the runner task ends it while the server goes on.
- **Fan-out.** Every remote command is one task per host, joined in order,
  abandoned at the first error.
- **Time as synchronisation.** Five seconds of sleep order the start of an
  exporter before everything that relies on it.
- **Validation far from use.** A request is validated when it arrives and used
  when its turn comes, from a storage directory that other clients write to.
- **Half-written files.** `fs::write` truncates, writes, and only then is the
  mode set; a client that gives up does not stop its handler, and its second try
  meets the first one on the disk.
- **Exit statuses.** Nobody looks at those of `scp`, `mkdir`, `mv`, `ln`, `cd`
  and the scripts: a step that did nothing is a step done.

`PROJECT.json` lists these as hazards, each at its line, with the properties
that watch it or the reason why none does.

## Modules

| Module | Models |
| --- | --- |
| `TokioMutex` | the fair asynchronous mutex of tokio, as a record and operators (external) |
| `ExperimentService` | abstract: one line of requests, served one at a time in order |
| `ExperimentRunner` | the runner task, `POST /run` and `GET /status` handlers |
| `Exporters` | the life of exporters over several rounds |
| `RemoteCommands` | `run_remote_executions` and the executors, over several attempts |
| `Intake` | validation, generation, and what the runner then connects to and uploads |
| `Storage` | the storage directory, the CLIs that upload to it and the `POST /upload` handlers |
| `Workspace` | extends `Storage` with one request: validation against what is stored, and what `main_loop` does with the files on the hosts |
| `MC*` | constants of the small instances |
| `TokioMutex_proofs`, `ExperimentRunner_proofs`, `ExperimentRunner_results`, `Exporters_proofs`, `RemoteCommands_proofs`, `Storage_proofs`, `Workspace_proofs`, `Intake_proofs` | theorems |

Each component module has a section of *faults a change could bring in*:
operators that no specification uses, each a variant of one definition (a
forgotten reset, `front` for `pop_front`, a missing `flock`). Put in the place
of that definition, each makes a property fail, which shows that the property
looks at the code and not at the shape of the model.

### ExperimentRunner

`queueLock` and `nameLock` are the mutexes; `queue`, `current_experiment`,
`current_run`, `current_runs` the shared fields. `pc`, `job`, `run`,
`variation` are the runner task's position and loop variables; `handler[r]`
and `probe[p]` the progress of each `POST /run` and `GET /status`. An action is
what a task does between two points where another can see the difference:
calling `lock()` (joining the line) and being inside the guard are separate
steps, as are the two relaxed loads of `status` and the two stores of
`reset_metadata`. Everything `main_loop` does to hosts is a named stage
(`PrepareStages`, `VariationStages`) that is passed, returns an error (`Abort`)
or panics (`Panic`); `Panics` says which experiments make which stage panic.
`Disconnect` drops a handler's future while it waits for the queue, or loses
the response of one that has pushed.

`collected` and `outcome` are history: which results were downloaded, and how
work on a request ended.

### Exporters

A round is one variation of one run. `phase` and `slot` say where `main_loop`
and `start_exporters` are, `task[p]` is the background task of a process,
`proc[p]` the process on its host, `lockFile` and `pidFile` are per exporter
name and host as in `Exporter::shell_files`. A failed round goes on to the next
with everything else left as it is. External behaviour is in `Launch` (what
`flock -n lock bash -c "cd dir && echo $$ >pid; exec command"` does), in
`KillRemote` (`kill -KILL $(cat pid)`, which hits whatever process the file
names) and in `KillLocal` (tokio's `Child::kill`, which hits `flock` and not
the command that `flock` forked).

### RemoteCommands

An attempt is one variation of one run, a step one of its setups, its execute
script or one of its teardowns. `Targets` follows `filter_host_sessions` and
`from_sessions`; `Join` the order of awaiting in `UnifiedExecutor` and
`RemoteCommandExecutor`. After an error the tasks of the step are nobody's and
go on. A task that loses its connection leaves its script running.

### Intake

One request, chosen from a finite list; `storage` starts with any subset of the
files, and uploads happen at any time. Lists of names are sets, arguments are
counted. The two functions that derive hosts and files from an experiment are
modelled separately from validation, so that the runs can tell whether one
covers the other.

A stage has two types. Its script is looked up below the `file_type` of the body
(`StageFilesPresent`), an `Option` that only the CLI is sure to fill in, and it
is sent from the directory of the list it is in (`Mapped`). The look-up unwraps
the `file_type`, and the wording of some errors expects it: a request in which a
stage has none, and is not refused for another reason before, panics its handler
(`LookupPanics`, `ErrorPanics`; stage `panicked`).

### Storage

`disk[p]` is the file at a path of two components: whose uploads it holds and
whether it is executable. `cli[c]`, `next[c]` and `posted[c]` are a user's CLI
in the loop of `upload_data`; `handler[u]` is the handler of one `POST /upload`.
A handler awaits only while it receives the form (`receiving`): there a
departed client may have it dropped (`Drop`) and a broken form panics it
(`RefuseForm`). After that it blocks its thread, and `Truncate`, `Write` and
`SetPermissions` are three steps because other handlers and `scp` see the disk
between them. `Form` has the fields in the order the CLI sends them and `Target`
pushes them in that order, as the handler does. `GiveUp` is the CLI's timeout,
or the connection that a panic closes; `Invoke` lets the user try again.

`settled[p]` is history: the upload that was last answered for at a path, if no
other handler was still to change the file there when its own truncated it
(`alone`, set in `Truncate`), and none has come to that path since. What earlier
handlers left there, those of a first try that timed out included, does not
matter to it; a handler that comes late does, and `OwnUploadStored`, which does
without this history, is about it.

### Workspace

`plan` is the request: what `generate_experiments` leaves of a configuration.
`stage` says where `main_loop` is. `top[h]`, `root[h]` and `deps[h]` are the
directory of the request on host `h`, its files, and those of its
`<script>-deps`; `links[h]` and `outputs[h]` are the variation's directory;
`results[h][r]` is what `download` brought back of a round. An action is one
command over all of its hosts: `\E done \in SUBSET hosts` are the hosts it was
run on, and if they are not all, `run_command` returns an error (`Then`). That
a failed command may still be running elsewhere is in `RemoteCommands`. `scp`
is different: it is a local process whose exit status is dropped, so `ScpFails`
and `CollectResults` go on to the next host. `CopyFile` copies file by file, in
the order in which `unique_files_for_all_experiments` sorted them, and reads the
disk of `Storage` at that moment.

`expected[p]`, `ready` and `lost` are history: which upload the client may
expect to run, whether it was answered for everything it uploaded, and where an
`scp` failed.

`Workspace` has `Storage`'s steps as they are, and its own leave the storage
directory alone: `Workspace_proofs!Composition` shows that each of its
behaviours is one of `StorageSpec`, so what is proved of `Storage` need not be
proved again.

## Runs

| Run | Question | Result |
| --- | --- | --- |
| `runner_faults` | Are requests neither lost, doubled, reordered nor starved, and results collected breadth first, whatever stage fails, panics, and whichever client leaves? Does a status answer ever mix two requests, and what does an idle runner show? | holds; the status is of one request as long as nothing failed, and an idle runner shows at most a request that failed |
| `runner_panic` | Is everything queued taken? | violated: an exporter command with an unbalanced quote panics the runner task |
| `exporters` | One instance per host, a flag that never leaks, measuring until a failure, everything remote stopped before results are collected, and no wait without end? | holds under the conditions each property names |
| `exporters_kill_error` | Does no background task kill its exporter before the scripts of its round are through? | violated: a failed kill leaves `KILL_EXPORTERS` set, and a later round's own task sees it |
| `exporters_local` | Are local exporters stopped too? | violated: only `flock` is killed |
| `commands` | Are steps in order, errors noticed, and does `run_command` return? | holds |
| `commands_skipped` | Does every step of a completed variation run? | violated: shell commands are skipped |
| `intake` | Are accepted requests consistent: names, arguments, hosts, files? | holds under the conditions each property names |
| `intake_unconnected` | Does the runner connect to every host of the script it executes? | violated: not if all experiments are variations with hosts of their own; the script runs on the controller |
| `files` | Is an answered upload stored whole, does a request find its files, run the version its client uploaded, find its dependencies in every variation, and bring all results back? | holds under the conditions each property names |
| `files_single` | Is the directory of the request there after the upload? | violated: a single file becomes a file of that name |
| `files_retry` | Is a file there after an answered upload, if nobody else uses the storage directory? | violated: the handler of a first try that timed out truncates it again |

The violations are described with the lines they contradict under "findings"
in `PROJECT.json`.

### Bounds

- `runner_faults`: three requests, one of two runs with two variations, so that
  both inner loops turn, a request waits while another runs, and a failure can
  hit any of four rounds. The second panics in `collect_results`, the third is
  refused by validation. One probe suffices: probes do not see each other except
  in the line of the name's mutex, of which the runner and one probe already use
  the waiting part.
- `exporters`: three rounds. Leftovers of a failed round need one round that
  leaves them, one that meets them, and one that sees what the meeting left.
  One remote host and the local one, two exporters, the first of which is in
  every round.
- `commands`: three attempts of at most three steps over two remote hosts and
  the local one: the last attempt meets tasks of both before it.
- `intake`: two hosts, one exporter, one script and one dependency, at most two
  variations; `MCIntake` combines every value of the fields that validation
  relates (hosts, arguments, expected arguments, exporters, `variations_only`,
  variation names) and adds one bad value of each other field, and in either list
  a stage of another `file_type` or without one, alone and after a good one, with
  every way to be refused. `intake_unconnected` takes the same requests.
- `files`: ann uploads a dependency and a script and may begin again once; bob
  uploads a script of the same name, which ann's request would run too. A third
  party adds nothing to a path where two can already meet, and a user's second
  try is, for the disk, another user's. Four files are there from before. Three
  plans: two variations with a setup on a second host, two runs on two hosts
  with a teardown, and a setup that has the name of the script. Any command may
  fail on any of the two hosts, any copy may break off. `files_single` has a plan
  of one file. `files_retry` has ann alone with her two requests, which are enough
  for a first try and a second of the same file.
- `View` in `MCWorkspace` leaves the storage directory out of the state once the
  files are sent, or never will be: from there on no action of the request and
  no invariant about it reads it (`StorageStep` leaves `expected` alone), and
  the invariants about storage are checked in all states with the request not
  yet made, from which the storage directory can do all that it ever can.
- `MaxRuns` is the width of `runs: u16`; instances use 1 and 2.

Deadlock is not checked where the system may really stop: requests are finite
and a panic ends the runner (`runner_faults`, `runner_panic`); the rounds,
attempts, uploads and requests of the other models come to an end.

### Fairness

Weak fairness of the runner's steps, of a handler that has asked for the queue,
and of a status handler that has asked for the name: tokio polls every task
that can go on. That `lock()` is served at all rests on tokio's first-in
first-out promise, which is in `TokioMutex` and not in the fairness. Nobody is
obliged to send a request, to read an answer or to disconnect. `Exporters` is
fair to `main_loop`, to the kill tasks and to shells that were spawned, never
to an exporter's own exit. All models take a script or ssh command to end:
the code has no timeout anywhere, so with a script that hangs no liveness
property of the runner holds.

### Conditions that the properties name

- `StatusIsOfOneRequest` speaks of the time before the first failure: `?` leaves
  `main_loop` past `reset_metadata`, so the next request's counters meet the
  name of the failed one. `IdleShowsOnlyFailures` says what an idle runner may
  show: nothing, or the last request that failed.
- `UploadedVersionRuns` and `DependenciesAtHand` need that no two files of a
  request have the same base name (`OneFilePerName`), as all land in one
  directory; validation does not ask for that. Without it a script may run in the
  place of another, but what runs is a file of the request with the name of a
  step planned for that host, which `UploadedVersionRuns` states of every plan.
- `AnsweredIsStored` speaks of uploads that did not overlap: no other handler was
  still to change the file when theirs truncated it, and none has come since. A
  file that an overlapping handler got hold of may be empty or hold another
  version (`files_retry`); that it is not left half-written for good, unless the
  write failed, is `NothingLeftHalfWritten`, which has no such condition.
- `UploadedVersionRuns` expects a version only where the client was answered, its
  handler did not overlap with another, and nobody has uploaded to that path
  between its request and the copy: the storage directory is shared by design.
- `DependenciesAtHand` and `ResultsComplete` leave out hosts on which an `scp`
  failed, which the code does not notice; of the other hosts they speak all the
  same.
- `ResultsComplete` needs a request of more than one file (`files_single`), none
  with the name of another, and scripts whose names end in `.sh`, as others are
  stored without the mode.
- `CompletedScriptsRan` speaks of connected hosts and of scripts: shell commands
  are skipped (`commands_skipped`), and a space in the variation's directory keeps
  a script from running: `ShellCommand::build` has it unquoted behind `cd`
  (`command.rs:230`), and nobody looks at exit statuses. The variations of
  `src/README.md:87` and 93 have such names. That no error was left unnoticed the
  property says of every host.
- `ScpMakes` is what `scp` of OpenSSH 9 or later does with a target that does
  not exist: several files make a directory of it. An older `scp` refuses
  several files there, and no request of more than one file would run at all.
- `FlagOnlyWhileStopping` and `RemoteStoppedBeforeCollect` say "as long as
  every kill reached its host"; `MeasuredUntilFailure` says "as long as no round
  failed". Without these the code does not keep them.
- `Missed(p)` are the exporters that a kill must miss: one on the controller's
  own host, where only `flock` is killed (`exporters_local`), and one with a
  space in its directory, whose shell writes no pid file.
  `RemoteStoppedBeforeCollect` says that no others are left.
- `MeasuredUntilFailure` also needs that no such exporter is launched again on
  its host (`NoneRelaunched`), as in the plan of `exporters`: it keeps the lock
  that the later launch asks for.
- `SettleInTime`: five seconds are enough for a spawned shell to take the lock
  and write its pid. The code checks nothing of the kind.
- The plans checked have no two exporters of one name in a round; validation
  does not forbid that. Of the theorems only `RemoteStopped`,
  `MeasuredThroughout` and the two that follow from them assume it.
- `Undisturbed`, which `exporters_kill_error` violates, is about the flag alone:
  an exporter that a leftover process keeps from its lock, or that another
  round's task kills through the pid file, does not violate it. It holds as long
  as every kill reaches its host (`UndisturbedWhileKillsWork`).
- `BaseArgumentsAsExpected` holds when the base experiment is generated, not under
  `variations_only`.
- `EveryHostConnected` leaves out the hosts of execute where every experiment is a
  variation with hosts of its own (`OnlyOwnHosts`, possible under
  `variations_only` only). That is where `Experiment::hosts` misses them and the
  script runs on the controller: `intake_unconnected`.
- `UploadNeverMisses` holds where the body gives each stage the `file_type` of its
  list, as the CLI does. A setup with the `file_type` of a teardown is accepted,
  and its upload may miss the script (`Misfiled`); one without a `file_type`
  panics the handler. Nothing in the repository says what should happen then.

## Proofs

TLAPS proves, for every value of the constants that satisfies the modules'
assumptions:

| Theorem | States |
| --- | --- |
| `ExperimentRunner_proofs!TypeCorrect` | `Spec => []TypeOK` |
| `ExperimentRunner_proofs!NothingLostOrDoubled` | `Spec => []InExactlyOnePlace` |
| `ExperimentRunner_proofs!Implementation` | `Spec => ImplementsService` |
| `ExperimentRunner_proofs!NeverOvertaken` | whoever waits for a mutex comes nearer with each release (`Advances`) |
| `ExperimentRunner_proofs!NoLostWakeUp` | `Spec => []HoldersGoOn` |
| `ExperimentRunner_results!BreadthFirst` | `Spec => []CollectedBreadthFirst` |
| `ExperimentRunner_results!StatusOfOneRequest` | `Spec => StatusIsOfOneRequest` |
| `ExperimentRunner_results!IdleShowsFailures` | `Spec => []IdleShowsOnlyFailures` |
| `ExperimentRunner_results!ServedForGood` | the outcome and the results of a served request never change |
| `ExperimentRunner_results!DeadForGood` | after a panic nothing is taken from the queue and the status is frozen |
| `ExperimentRunner_results!DeathHasACause` | `Spec => []Culprit` |
| `Exporters_proofs!TypeCorrect` | `Spec => []TypeOK` |
| `Exporters_proofs!AdvisoryLock` | `Spec => []OneInstance` |
| `Exporters_proofs!FlagOfThisRound` | `Spec => []FlagOnlyWhileStopping` |
| `Exporters_proofs!RemoteStopped` | `Spec => []RemoteStoppedBeforeCollect`, if shells settle in time and no round has two exporters of one name |
| `Exporters_proofs!MeasuredThroughout` | `Spec => []MeasuredUntilFailure`, if moreover no exporter that a kill must miss is launched again |
| `Exporters_proofs!StoppedWhereReached` | `Spec => []StoppedBeforeCollect`, as `RemoteStopped`, if kills reach every exporter and none fails |
| `Exporters_proofs!MeasuredWithoutFailures` | `Spec => []Measured`, as `MeasuredThroughout`, if no stage, spawn or kill fails |
| `Exporters_proofs!UndisturbedWhileKillsWork` | `Spec => [](KillsWorked => Undisturbed)` |
| `Exporters_proofs!RunsOn` | an exporter that a kill must miss ends only by itself |
| `Exporters_proofs!WaitsForLiveTasks` | each task that `main_loop` waits for can see the flag, kills, or has ended |
| `RemoteCommands_proofs!TypeCorrect` | `Spec => []TypeOK` |
| `RemoteCommands_proofs!Order` | `Spec => []StepsInOrder` |
| `RemoteCommands_proofs!NoMeeting` | `Spec => []OneVariationAtATime` |
| `RemoteCommands_proofs!Completeness` | `Spec => []CompletedScriptsRan` |
| `RemoteCommands_proofs!AllStepsRan` | `Spec => []CompletedStepsRan`, if steps are scripts, hosts connected and no directory has a space |
| `RemoteCommands_proofs!NowhereElse` | a script runs on a connected host that its step names, or on the controller if none is connected |
| `RemoteCommands_proofs!WaitsForLiveTasks` | each host that `main_loop` waits for has a task that can go on or has answered |
| `Storage_proofs!Stored` | `StorageSpec => []AnsweredIsStored` (overlapping handlers excluded) |
| `Storage_proofs!StoredUnlessOpenedAgain` | an answered file is stored whole as long as no other handler has opened it |
| `Storage_proofs!Whole` | `StorageSpec => []NothingLeftHalfWritten` |
| `Workspace_proofs!Composition` | `Spec => StorageSpec` |
| `Workspace_proofs!StoredThroughout` | `Spec => []AnsweredIsStored` (overlapping handlers excluded) |
| `Workspace_proofs!WholeThroughout` | `Spec => []NothingLeftHalfWritten` |
| `Workspace_proofs!RequestTypeCorrect` | `Spec => []TypeOK` |
| `Workspace_proofs!NeverRejected` | `Spec => []UploadedIsFound` |
| `Workspace_proofs!NeverMissed` | the files of a queued request stay there |
| `Workspace_proofs!RightVersionRuns` | `Spec => []UploadedVersionRuns` |
| `Workspace_proofs!DependenciesFound` | `Spec => []DependenciesAtHand` |
| `Workspace_proofs!SeveralInDirectory` | `Spec => []ResourcesInDirectory`, if every plan has several files |
| `Workspace_proofs!ResultsWhole` | `Spec => []ResultsComplete` |
| `Intake_proofs!TypeCorrect` | `Spec => []TypeOK` |
| `Intake_proofs!Distinct` | `Spec => []NamesDistinct` |
| `Intake_proofs!AsManyAsExpected` | `Spec => []BaseArgumentsAsExpected` |
| `Intake_proofs!HostsConnected` | `Spec => []EveryHostConnected` (execute excluded under `OnlyOwnHosts`) |
| `Intake_proofs!ConnectedUnlessAllOwn` | `Spec => []ExecuteConnected`, if no request is `OnlyOwnHosts` |
| `Intake_proofs!NeverMissed` | `Spec => []UploadNeverMisses` (scripts of another `file_type` than their list excluded) |
| `Intake_proofs!OwnHostsIgnored` | `Spec => []ExecutesAtBase` |

Five of these (`StoppedWhereReached`, `UndisturbedWhileKillsWork`, `AllStepsRan`,
`SeveralInDirectory`, `ConnectedUnlessAllOwn`) are about statements of the
repository that a run finds violated: they show that the conditions named are all
that is missing. `StoredUnlessOpenedAgain` does so of `OwnUploadStored`, for which
it names the only culprit. `RunsOn`, `OwnHostsIgnored` and `DeadForGood` say the
opposite, what happens for certain where a condition is missing.

**The runner.** `TypeOK` is not inductive. That `queueLock` stays a mutex whose
line holds tasks only once needs to know who may ask for it, and that a handler
may push needs to know that nobody else is inside. `QueueLockInv` and
`NameLockInv` say that a task is the owner or in the line of a mutex (`Asks`)
exactly while its program counter says it called `lock()` and has not dropped
the guard, and that nobody asks twice (`WellFormed`). `Working` bounds `run` and
`variation` by the request, so that the name stored in `current_experiment` is
a name. `TokioMutex_proofs` shows what `Lock`, `Unlock` and `Abandon` do to
`Asks` and `WellFormed`, whatever the mutex guards; each step of the runner
then only needs these lemmas. `PlaceStep` shows that `InExactlyOnePlace` is
inductive relative to that invariant: a push appends a request that was nowhere,
a pop moves the head to `job`, and `Abort`, `Panic` and `ResetName` move `job` to
the served ones. The refinement uses it once more: `Accept` of the abstract
service demands that the request be nowhere, which the concrete push, behind a
handler's program counter, does not mention.

Liveness is out of the prover's reach, but not what it rests on.
`TokioMutex_proofs` has a lemma for each operation of the mutex that a task which
stays in line comes nearer with it, or keeps its place (`Advances`);
`NeverOvertaken` concludes that every handler, probe and the runner itself does so
in every step of the system, although the runner asks for the queue again and
again. `HoldersGoOn` says in every state that the holder of a mutex is at a point
from which it goes on to release it, that who waits is in line, and that nobody
holds one mutex and waits for the other: no deadlock and no lost wake-up.
With fairness of each task, the only thing left to TLC, `EnqueueCompletes` and
`StatusIsAnswered` follow.

**The results.** `CollectedBreadthFirst` says of the n-th result which run and
variation it belongs to, which no single step shows. `Progress` makes it
inductive: while `main_loop` is in a variation it has collected
`Size(job) * (run - 1) + (variation - 1)` results, none while it prepares and
`Size(job) * Runs[job]` when it resets the metadata. `Untouched` says that a
request not yet begun has none. The result that is appended then has its place
by division with remainder (`Division`), and one given up is short of the full
number (`Monotone`). `ServedForGood` follows from `InExactlyOnePlace`: the runner
changes the outcome and the results of `job` alone, and a served request is not
`job`. `DeathHasACause` names somebody to blame for a dead runner (`Culprit`): a
request that was given up, has an experiment that panics, and was not `Rejected`,
as only accepted requests come into the queue. `DeadForGood` is what the run
`runner_panic` shows on one instance, for all.

**The status.** A handler loads `current_run` and `current_runs` one after the
other while the runner may store either. That the answer is of one request until
something fails rests on the order of the stores, which `Counters` and
`NameShown` state for every program counter: the counters are set before the
name and reset before it, and what `reset_metadata` does last is take the name
away, for which it needs the mutex the handler holds. `Seen` says of values
loaded earlier that the runner has not left their request since, `OfThisRequest`
that a name is shown only while `job` is set. After a failure only `Shown` is
left, which is what `IdleShowsOnlyFailures` says.

**Exporters.** `OneInstance` follows from `Locked`: a lock file names exactly
the process that is alive for it. To keep it across `SpawnExporter`, which
writes "starting" over whatever a process was, one needs `Fresh`, that processes
ahead of `round` and `slot` were never spawned. `FlagOfThisRound` adds that a
task that failed stays failed, so that the condition cannot come back.
`RemoteStopped` has to join four things that lie apart: the pid file of a held
lock names its holder (`PidNames`), unless that is one the kill must miss, so a
kill hits whoever else runs, be it of an earlier round; after settling nothing
of the round is starting any more (`Settled`); a task is either still
`main_loop`'s to wait for or done (`Registered`), and none is done before the
flag is set (`Waiting`); and one that is done leaves its lock free (`Freed`).
`MeasuredThroughout` turns on `Over`: as long as no round failed, nothing of an
earlier round is left to hold a lock or to kill but the `Missed`, which hold
locks that nobody asks for again, so every launch gets its lock and runs (`Up`).
`StoppedWhereReached` and `MeasuredWithoutFailures` then show that failures do
not come from elsewhere: where the constants rule out the external faults,
`KillsWorked` and `~failedBefore` are invariants. `RunsOn` is the other side: no
pid file names an exporter of a directory with a space (`PidsReached`), and the
kill of a local one does not read it, so no kill ever ends a `Missed` one.
`UndisturbedWhileKillsWork` takes `FlagOfThisRound` one step on: with the flag
clear until `drain`, a task of the round is polling until then; `KillsWorked` is
not an invariant but cannot come back once lost, so it can be assumed of the
state before each step.
`WaitsForLiveTasks` is the safety part of `StoppingEnds`: `main_loop` waits only
for tasks that were spawned, with the flag set, which is why a fair task ends.

**Commands.** The properties speak of scripts on hosts, but what keeps them
true is what `main_loop` knows of the tasks. `Barrier` is the heart: once a task
of a step was spawned, every task of an earlier step is over, without an error,
and this stays so when the attempt has long been given up. To keep it when
`RunScript` spawns, one needs that all earlier steps of the attempt were passed
(`EarlierPassed`), which `Return` gets from `Joined`: hosts no longer waited for
have answered. `Fresh` says that what is ahead was never spawned and `Matches`
ties a script to its task. `CompletedPassed` remembers of a completed attempt
what was known when it ended; `NothingLeft` that without errors no earlier
attempt has a task about. `NowhereElse` says where a script can be, as each task is at a
target of its step (`AtTargets`): the controller's own host stands in for exactly
the steps none of whose hosts has a session. `WaitsForLiveTasks` is the safety
part of `RunCommandReturns`.

**The storage directory.** What was answered stays stored because of who can be
at a path, not because of any single step. `SettledIsAlone` says that while a
path is settled no handler but that of the settled upload can have been there,
and `AloneSees` that a handler that was alone at its path since it truncated
the file (`Alone`) sees on the disk what it did itself. `EmptyHasCause` and
`ModeHasCause` name a live handler behind every truncated file and every file
without its mode: a handler that is past its last await cannot be dropped, so
when none is left nothing is half-written. `StoredUnlessOpenedAgain` comes to the
stored file without the history: a handler that nobody else has opened the file
beside sees what it did itself (`OpenerSees`), and a client that was answered has
a handler that saved (`AnsweredIsSaved`).

**A request's files.** `Composition` maps every step of `Workspace` to a step of
`Storage` or a stutter, so `Storage`'s invariants hold there without a second
proof. `Delivered` carries what the client was answered for into `Provides`, and
from there to `ValidateFiles`; `NeverMissed` goes on from there to the upload,
as no step of `Storage` removes a file. `WInv` follows a version from the disk
(`StillSettled`) through the copies on the hosts (`CopiesRight`) to what the
scripts left (`OutputsRight`), each of which is of a planned step and a file of
the request (`AsNamed`); `Rank` matters not at all once base names are distinct.
`DInv` says where the dependencies of a host are: still in the root while
`CorrectDependencies` has not reached it, moved ever after (`AllMoved`), among
the files sent (`Serving`, `Served`), and linked from `Link` to `Unlink` in
every round (`Linked`); `SeveralInDirectory` is a corollary of it. That the
second `mv` finds nothing and destroys nothing is the point where a version, a
move and a link meet. `RInv` leads from there to the results: scripts stay in
the root, as no dependency that is moved has the name of one (`ScriptsThere`),
with the mode that the settled upload left (`Runnable`, from
`AnsweredIsStored`); a step that `main_loop` is past (`Behind`) has left an
output on each of its hosts; links are gone when results are collected
(`LinksGone`); and a round once over is not collected again (`OneMoreRound`).

**Intake.** `GInv` only says which checks a request has passed at each stage and
what was derived from it. The rest is about functions: `GeneratedAre` says what
the list of experiments is, `VariedIs` what a variation takes over from the
base, `HostsResolve` that a list of hosts that passes `hosts_check` is not empty
after `map_hosts`. `UploadNeverMisses` is part of `GInv`, by `FilesAreLookedUp`:
the files of each experiment are among those that `validate_files` looks up,
but for scripts of another `file_type` than their list (`MappedAreLookedUp`), and
nothing is ever removed from the storage directory. `ExecutesAtBase` says what
generation makes of a variation's own hosts. What `Experiment::hosts` leaves out
is made up for by any experiment that has the base's hosts
(`BaseHostsGenerated`), which there is unless the request is `OnlyOwnHosts`; hence
the two theorems about hosts.

**From one module to the next.** What one module assumes of a request another
shows of it. That runs and variations are never none, and runs never more than
`MaxRuns` (`RunnerAssumption`), is `TypeCorrect` and `Distinct` of `Intake`; that
all hosts of a step are connected, which `AllStepsRan` asks for, is
`HostsConnected`, for the execute step only of requests that are not
`OnlyOwnHosts`; that everything uploaded is looked up before is `NeverMissed`, of
requests whose stages have the `file_type` of their list, the only ones that
`Workspace` has.
These links are by inspection: the modules abstract a request differently, and
no module composes `Intake` with the others.

Assumed are the named ASSUMEs of the modules (checked by TLC on every instance)
and what the external definitions say of tokio, flock, kill, scp and the shell.

Only model-checked is liveness (under fairness, out of the prover's reach):
`EnqueueCompletes`, `StatusIsAnswered`, `StoppingEnds` and `RunCommandReturns`,
of which the safety parts are proved as said above, and `ErrorsAreSurvived`.
Every other property of a passing run is stated by a theorem.

## Not modelled

- The text of command lines, paths, addresses, TOML and JSON, except where what
  it does decides a property (a space, a '/', an unbalanced quote, a type in a
  file's name).
- A restart of the controller: nothing is persisted and no code recovers
  anything. The queue is lost, and exporters left on hosts are those of a failed
  round.
- Arguments of scripts: they are validated and generated (`Intake`), and no code
  passes them on.
- `max_experiments`, which no code reads; `db.rs`, an empty stub; the parsing of
  the CLI's arguments and `--validate`, which only prints; the `ssh_utils` crate,
  which the controller no longer uses.

## Plan

Done: `TokioMutex`, `ExperimentService`, `ExperimentRunner`, `Exporters`,
`RemoteCommands`, `Intake`, `Storage` and `Workspace`, with the theorems above.

Left:

1. A composition of `Exporters` and `RemoteCommands` under one `main_loop`: what
   a script of an abandoned step and a leftover exporter do to one host.
2. An abstract specification of `run_remote_executions`, a barrier between
   steps, that `RemoteCommands` implements as long as no connection fails.
