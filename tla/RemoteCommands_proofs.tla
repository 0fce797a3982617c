------------------------- MODULE RemoteCommands_proofs -------------------------
(***************************************************************************)
(* Theorems about RemoteCommands, for any attempts, steps, hosts, sessions *)
(* and failing connections: the variables keep their types, steps keep     *)
(* their order on the hosts, variations do not meet unless a connection    *)
(* failed, what counts as complete has run, nothing runs on a host that no *)
(* step names, and main_loop waits for no task that cannot end.            *)
(*                                                                         *)
(* The properties speak of scripts; that they hold is due to what          *)
(* main_loop knows of the tasks.  Barrier is the heart of it: once a task  *)
(* of a step was spawned, those of the steps before it are over, and stay  *)
(* so when main_loop has long gone on to other attempts.                   *)
(***************************************************************************)
EXTENDS RemoteCommands, TLAPS

Over == {"none", "ok"}

(* Commands that run_command has yet to reach.                             *)
Ahead(c) ==
  \/ c[1] > attempt
  \/ c[1] = attempt /\ c[2] > step
  \/ c[1] = attempt /\ c[2] = step /\ ~waiting

Fresh == \A c \in Commands : Ahead(c) => task[c] = "none"

(* What a task knows of its script.                                        *)
Matches ==
  \A c \in Commands :
    /\ task[c] \in {"none", "spawned"} => script[c] = "none"
    /\ task[c] = "running" => script[c] # "none"
    /\ task[c] = "ok" => script[c] \in {"exited", "not run"}
    /\ script[c] = "not run" => c[1] \in Spaced

Barrier ==
  \A c, d \in Commands :
    c[1] = d[1] /\ c[2] < d[2] /\ task[d] # "none" => task[c] \in Over

IsTarget(c) == Steps[c[1]][c[2]].source = "script" /\ c[3] \in Targets(c[1], c[2])

Passed(c) == task[c] \in Over /\ (IsTarget(c) => task[c] = "ok")

(* The steps of the attempt so far, and the hosts of this one so far.      *)
EarlierPassed == \A c \in Commands : c[1] = attempt /\ c[2] < step => Passed(c)

Joined ==
  waiting => \A c \in Commands :
    c[1] = attempt /\ c[2] = step /\ c[3] \notin toJoin => Passed(c)

CompletedPassed ==
  \A a \in 1 .. Attempts :
    /\ result[a] # "none" => a < attempt
    /\ result[a] = "completed" =>
         \A c \in Commands : c[1] = a /\ c[2] \in DOMAIN Steps[a] => Passed(c)

(* Without errors nothing of earlier attempts is left.                     *)
NothingLeft ==
  (\A c \in Commands : task[c] # "error") =>
    \A c \in Commands : c[1] < attempt => task[c] \in Over

IInv == /\ TypeOK /\ Fresh /\ Matches /\ Barrier
        /\ EarlierPassed /\ Joined /\ CompletedPassed /\ NothingLeft

-----------------------------------------------------------------------------
(* Steps of an attempt, and the commands they stand for.                   *)

(* A list of steps is within its bound, and a step goes to hosts.          *)
LEMMA StepType ==
  ASSUME NEW a \in 1 .. Attempts
  PROVE  /\ Len(Steps[a]) \in Nat /\ Len(Steps[a]) <= MaxSteps
         /\ DOMAIN Steps[a] = 1 .. Len(Steps[a])
         /\ \A k \in DOMAIN Steps[a] : Targets(a, k) \subseteq Hosts
<1> DEFINE Entry == [source : {"script", "command"}, hosts : SUBSET Hosts]
<1>1. Steps[a] \in Seq(Entry) /\ Len(Steps[a]) <= MaxSteps /\ Localhost \in Hosts
  BY RemoteCommandsAssumption DEF RemoteCommandsAssumption
<1>2. \A e \in Entry : e.hosts \subseteq Hosts
  OBVIOUS
<1> HIDE DEF Entry
<1>3. /\ Len(Steps[a]) \in Nat /\ DOMAIN Steps[a] = 1 .. Len(Steps[a])
      /\ \A k \in DOMAIN Steps[a] : Steps[a][k] \in Entry
  BY <1>1
<1>4. \A k \in DOMAIN Steps[a] : Targets(a, k) \subseteq Hosts
  BY <1>1, <1>2, <1>3 DEF Targets
<1> QED BY <1>1, <1>3, <1>4

(* What the proofs need to know of the bounds.                             *)
LEMMA Bounds == Attempts \in Nat /\ MaxSteps \in Nat
BY RemoteCommandsAssumption DEF RemoteCommandsAssumption

(* The parts of a command.                                                 *)
LEMMA CommandType ==
  /\ \A c \in Commands : /\ c[1] \in 1 .. Attempts /\ c[2] \in 1 .. MaxSteps /\ c[3] \in Hosts
                         /\ c = <<c[1], c[2], c[3]>>
  /\ \A a \in 1 .. Attempts, k \in 1 .. MaxSteps, h \in Hosts : <<a, k, h>> \in Commands
BY DEF Commands

-----------------------------------------------------------------------------
(* Nothing was spawned at first.                                           *)
LEMMA InitInv == Init => IInv
<1> SUFFICES ASSUME Init PROVE IInv
  OBVIOUS
<1>1. /\ \A c \in Commands : task[c] = "none" /\ script[c] = "none"
      /\ \A a \in 1 .. Attempts : result[a] = "none"
      /\ attempt = 1 /\ step = 1 /\ ~waiting /\ toJoin = {}
  BY DEF Init
<1>2. TypeOK
  <2>1. /\ task \in [Commands -> {"none", "spawned", "running", "ok", "error"}]
        /\ script \in [Commands -> {"none", "not run", "running", "exited"}]
        /\ result \in [1 .. Attempts -> {"none", "completed", "failed"}]
    BY DEF Init
  <2>2. attempt \in 1 .. Attempts + 1 /\ step \in 1 .. MaxSteps + 1
    BY <1>1, Bounds
  <2>3. waiting = FALSE
    BY DEF Init
  <2> QED BY <1>1, <2>1, <2>2, <2>3 DEF TypeOK
<1>3. Fresh /\ Matches /\ Barrier
  BY <1>1 DEF Fresh, Matches, Barrier
<1>4. EarlierPassed /\ Joined /\ CompletedPassed /\ NothingLeft
  BY <1>1, CommandType DEF EarlierPassed, Joined, CompletedPassed, NothingLeft, Over
<1> QED BY <1>2, <1>3, <1>4 DEF IInv

-----------------------------------------------------------------------------
(* Tasks and scripts.                                                      *)

(* Tasks that are not spawned, and those that are over, stay as they are,  *)
(* and so does an error: nothing that main_loop relies on changes.         *)
LEMMA TasksGoOn ==
  ASSUME IInv, UNCHANGED loop,
         \A c \in Commands : /\ task'[c] = "none" <=> task[c] = "none"
                             /\ task[c] = "ok" => task'[c] = "ok"
                             /\ task[c] = "error" => task'[c] = "error"
  PROVE  /\ Fresh' /\ Barrier' /\ EarlierPassed' /\ Joined'
         /\ CompletedPassed' /\ NothingLeft'
<1>1. \A c \in Commands : task[c] \in Over => task'[c] \in Over
  BY DEF Over
<1>2. \A c \in Commands : Passed(c) => Passed(c)'
  BY <1>1 DEF Passed, IsTarget, Targets
<1>3. Fresh'
  BY DEF IInv, Fresh, Ahead, loop
<1>4. Barrier'
  BY <1>1 DEF IInv, Barrier
<1>5. EarlierPassed' /\ Joined'
  BY <1>2 DEF IInv, EarlierPassed, Joined, loop
<1>6. CompletedPassed'
  BY <1>2 DEF IInv, CompletedPassed, loop
<1>7. NothingLeft'
  BY <1>1 DEF IInv, NothingLeft, loop
<1> QED BY <1>3, <1>4, <1>5, <1>6, <1>7

(* A task, its script or its connection keeps the invariant.               *)
LEMMA CommandStepInv ==
  ASSUME IInv, NEW c \in Commands, Start(c) \/ LoseConnection(c) \/ Exit(c) \/ Output(c)
  PROVE  IInv'
<1>1. /\ task \in [Commands -> {"none", "spawned", "running", "ok", "error"}]
      /\ script \in [Commands -> {"none", "not run", "running", "exited"}]
  BY DEF IInv, TypeOK
<1>2. UNCHANGED loop
  BY DEF Start, LoseConnection, Exit, Output
<1>3. /\ task' \in [Commands -> {"none", "spawned", "running", "ok", "error"}]
      /\ script' \in [Commands -> {"none", "not run", "running", "exited"}]
  BY <1>1 DEF Start, LoseConnection, Exit, Output
<1>4. TypeOK'
  BY <1>2, <1>3 DEF IInv, TypeOK, loop
<1>5. \A u \in Commands \ {c} : task'[u] = task[u] /\ script'[u] = script[u]
  BY <1>1 DEF Start, LoseConnection, Exit, Output
<1>6. CASE Start(c)
  <2>1. /\ task[c] = "spawned" /\ task'[c] = "running"
        /\ script'[c] = IF c[1] \in Spaced THEN "not run" ELSE "running"
    BY <1>1, <1>6 DEF Start
  <2>2. Matches'
    BY <1>5, <2>1 DEF IInv, Matches
  <2> QED BY <1>2, <1>4, <1>5, <2>1, <2>2, TasksGoOn DEF IInv
<1>7. CASE LoseConnection(c)
  <2>1. task[c] \in {"spawned", "running"} /\ task'[c] = "error" /\ script'[c] = script[c]
    BY <1>1, <1>7 DEF LoseConnection
  <2>2. Matches'
    BY <1>5, <2>1 DEF IInv, Matches
  <2> QED BY <1>2, <1>4, <1>5, <2>1, <2>2, TasksGoOn DEF IInv
<1>8. CASE Exit(c)
  <2>1. script[c] = "running" /\ script'[c] = "exited" /\ UNCHANGED task
    BY <1>1, <1>8 DEF Exit
  <2>2. Matches'
    BY <1>5, <2>1 DEF IInv, Matches
  <2> QED BY <1>2, <1>4, <2>1, <2>2, TasksGoOn DEF IInv
<1>9. CASE Output(c)
  <2>1. /\ task[c] = "running" /\ script[c] \in {"exited", "not run"}
        /\ task'[c] = "ok" /\ script'[c] = script[c]
    BY <1>1, <1>9 DEF Output
  <2>2. Matches'
    BY <1>5, <2>1 DEF IInv, Matches
  <2> QED BY <1>2, <1>4, <1>5, <2>1, <2>2, TasksGoOn DEF IInv
<1> QED BY <1>6, <1>7, <1>8, <1>9

-----------------------------------------------------------------------------
(* main_loop.                                                              *)

(* What does not look at main_loop is kept when no task changes.           *)
LEMMA TasksKept ==
  ASSUME IInv, UNCHANGED <<task, script>>
  PROVE  Matches' /\ Barrier' /\ (\A c \in Commands : Passed(c)' <=> Passed(c))
BY DEF IInv, Matches, Barrier, Passed, IsTarget, Targets, Over

(* On to the next step, when the current one is over on all hosts.         *)
LEMMA NextStepInv ==
  ASSUME IInv, attempt \in 1 .. Attempts, step \in DOMAIN Steps[attempt],
         step' = step + 1, toJoin' = {}, waiting' = FALSE,
         UNCHANGED <<attempt, result, task, script>>,
         \A c \in Commands : c[1] = attempt /\ c[2] = step => Passed(c)
  PROVE  IInv'
<1>1. step \in Nat /\ step + 1 \in 1 .. MaxSteps + 1
  BY StepType, Bounds
<1>2. TypeOK'
  BY <1>1 DEF IInv, TypeOK
<1>3. Fresh'
  BY <1>1, CommandType DEF IInv, Fresh, Ahead
<1>4. EarlierPassed'
  BY <1>1, CommandType, TasksKept DEF IInv, EarlierPassed
<1>5. Joined' /\ CompletedPassed' /\ NothingLeft'
  BY TasksKept DEF IInv, Joined, CompletedPassed, NothingLeft
<1> QED BY <1>2, <1>3, <1>4, <1>5, TasksKept DEF IInv

(* The end of an attempt, with every step passed or with an error.         *)
LEMMA EndAttemptInv ==
  ASSUME IInv, attempt \in 1 .. Attempts, NEW r \in {"completed", "failed"},
         EndAttempt(r), UNCHANGED <<task, script>>,
         r = "failed" => \E c \in Commands : task[c] = "error",
         r = "completed" => ~waiting /\ step > Len(Steps[attempt])
  PROVE  IInv'
<1>1. /\ attempt' = attempt + 1 /\ step' = 1 /\ toJoin' = {} /\ ~waiting' /\ waiting' \in BOOLEAN
      /\ result' = [result EXCEPT ![attempt] = r]
  BY DEF EndAttempt
<1>2. result \in [1 .. Attempts -> {"none", "completed", "failed"}] /\ step \in Nat
  <2>1. /\ result \in [1 .. Attempts -> {"none", "completed", "failed"}]
        /\ step \in 1 .. MaxSteps + 1
    BY DEF IInv, TypeOK
  <2> QED BY <2>1, Bounds
<1>3. TypeOK'
  <2>1. result' \in [1 .. Attempts -> {"none", "completed", "failed"}]
    BY <1>1, <1>2
  <2>2. attempt' \in 1 .. Attempts + 1 /\ step' \in 1 .. MaxSteps + 1
    BY <1>1, Bounds
  <2>3. /\ task' \in [Commands -> {"none", "spawned", "running", "ok", "error"}]
        /\ script' \in [Commands -> {"none", "not run", "running", "exited"}]
    BY DEF IInv, TypeOK
  <2>4. waiting' = FALSE
    BY DEF EndAttempt
  <2> QED BY <1>1, <2>1, <2>2, <2>3, <2>4 DEF TypeOK
<1>4. Fresh'
  BY <1>1, CommandType DEF IInv, Fresh, Ahead
<1>5. EarlierPassed' /\ Joined'
  BY <1>1, CommandType DEF EarlierPassed, Joined
<1>6. CompletedPassed'
  <2> SUFFICES ASSUME NEW a \in 1 .. Attempts
               PROVE  /\ result'[a] # "none" => a < attempt'
                      /\ result'[a] = "completed" =>
                           \A c \in Commands : c[1] = a /\ c[2] \in DOMAIN Steps[a] => Passed(c)
    BY TasksKept DEF CompletedPassed
  <2>1. CASE a = attempt
    <3>1. r = "completed" => \A k \in DOMAIN Steps[a] : k < step
      BY <1>2, <2>1, StepType
    <3> QED BY <1>1, <1>2, <2>1, <3>1 DEF IInv, EarlierPassed
  <2>2. CASE a # attempt
    BY <1>1, <1>2, <2>2 DEF IInv, CompletedPassed
  <2> QED BY <2>1, <2>2
<1>7. NothingLeft'
  <2> SUFFICES ASSUME \A c \in Commands : task[c] # "error",
                      NEW c \in Commands, c[1] < attempt + 1
               PROVE  task[c] \in Over
    BY <1>1 DEF NothingLeft
  <2>1. r = "completed" /\ ~waiting
    OBVIOUS
  <2>2. CASE c[1] = attempt /\ c[2] < step
    BY <2>2 DEF IInv, EarlierPassed, Passed
  <2>3. CASE c[1] = attempt /\ c[2] >= step
    BY <1>2, <2>1, <2>3, CommandType DEF IInv, Fresh, Ahead, Over
  <2>4. CASE c[1] < attempt
    BY <2>4 DEF IInv, NothingLeft
  <2> QED BY <1>2, <2>2, <2>3, <2>4, CommandType
<1> QED BY <1>3, <1>4, <1>5, <1>6, <1>7, TasksKept DEF IInv

(* run_command spawns its tasks: those of the steps before are over.       *)
LEMMA RunScriptInv ==
  ASSUME IInv, RunScript
  PROVE  IInv'
<1>1. /\ attempt \in 1 .. Attempts /\ ~waiting /\ step \in DOMAIN Steps[attempt]
      /\ toJoin' = Targets(attempt, step) /\ waiting' = TRUE
      /\ task' = [c \in Commands |->
                    IF c[1] = attempt /\ c[2] = step /\ c[3] \in toJoin' THEN "spawned" ELSE task[c]]
      /\ UNCHANGED <<attempt, step, result, script>>
  BY DEF RunScript, Unfinished
<1>2. step \in Nat /\ attempt \in Nat /\ toJoin' \subseteq Hosts
  BY <1>1, StepType
<1>3. \A c \in Commands : c[1] = attempt /\ c[2] >= step => task[c] = "none"
  BY <1>1, <1>2, CommandType DEF IInv, Fresh, Ahead
<1>4. \A c \in Commands :
        /\ c[1] = attempt /\ c[2] = step /\ c[3] \in toJoin' => task'[c] = "spawned" /\ task[c] = "none"
        /\ ~(c[1] = attempt /\ c[2] = step /\ c[3] \in toJoin') => task'[c] = task[c]
  BY <1>1, <1>2, <1>3, CommandType
<1>5. \A c \in Commands : ~(c[1] = attempt /\ c[2] = step) => (Passed(c)' <=> Passed(c))
  BY <1>4 DEF Passed, IsTarget, Targets
<1>6. TypeOK'
  <2>1. task' \in [Commands -> {"none", "spawned", "running", "ok", "error"}]
    BY <1>1 DEF IInv, TypeOK
  <2>2. Targets(attempt, step)' = Targets(attempt, step)
    BY <1>1 DEF Targets
  <2> QED BY <1>1, <1>2, <2>1, <2>2 DEF IInv, TypeOK
<1>7. Fresh'
  BY <1>1, <1>2, <1>4, CommandType DEF IInv, Fresh, Ahead
<1>8. Matches'
  BY <1>1, <1>4 DEF IInv, Matches
<1>9. Barrier'
  <2> SUFFICES ASSUME NEW c \in Commands, NEW d \in Commands,
                      c[1] = d[1], c[2] < d[2], task'[d] # "none"
               PROVE  task'[c] \in Over
    BY DEF Barrier
  <2>1. CASE d[1] = attempt /\ d[2] = step
    <3>1. task[c] \in Over
      BY <2>1 DEF IInv, EarlierPassed, Passed
    <3> QED BY <1>2, <1>4, <2>1, <3>1, CommandType
  <2>2. CASE d[1] = attempt /\ d[2] > step
    BY <1>2, <1>3, <1>4, <2>2, CommandType
  <2>3. CASE d[1] # attempt \/ d[2] < step
    <3>1. task'[d] = task[d] /\ task'[c] = task[c]
      BY <1>2, <1>4, <2>3, CommandType
    <3> QED BY <3>1 DEF IInv, Barrier
  <2> QED BY <1>2, <2>1, <2>2, <2>3, CommandType
<1>10. EarlierPassed'
  BY <1>1, <1>2, <1>5, CommandType DEF IInv, EarlierPassed
<1>11. Joined'
  <2> SUFFICES ASSUME NEW c \in Commands, c[1] = attempt, c[2] = step, c[3] \notin toJoin'
               PROVE  Passed(c)'
    BY <1>1 DEF Joined
  <2>1. task'[c] = "none"
    BY <1>2, <1>3, <1>4, CommandType
  <2>2. ~IsTarget(c)'
    BY <1>1 DEF IsTarget, Targets
  <2> QED BY <2>1, <2>2 DEF Passed, Over
<1>12. CompletedPassed'
  BY <1>1, <1>2, <1>5 DEF IInv, CompletedPassed
<1>13. NothingLeft'
  <2> SUFFICES ASSUME \A c \in Commands : task'[c] # "error",
                      NEW c \in Commands, c[1] < attempt
               PROVE  task'[c] \in Over
    BY <1>1 DEF NothingLeft
  <2>1. \A u \in Commands : task[u] # "error"
    BY <1>4
  <2>2. task[c] \in Over
    BY <2>1 DEF IInv, NothingLeft
  <2> QED BY <1>2, <1>4, <2>2, CommandType
<1> QED BY <1>6, <1>7, <1>8, <1>9, <1>10, <1>11, <1>12, <1>13 DEF IInv

(* run_command takes the answer of a host, or returns its error.           *)
LEMMA JoinInv ==
  ASSUME IInv, Join
  PROVE  IInv'
<1>1. attempt \in 1 .. Attempts /\ step \in DOMAIN Steps[attempt] /\ step \in 1 .. MaxSteps
  <2>1. attempt \in 1 .. Attempts /\ step \in DOMAIN Steps[attempt]
    BY DEF Join, IInv, TypeOK
  <2> QED BY <2>1, StepType, Bounds
<1>2. PICK h \in toJoin :
        \/ /\ task[<<attempt, step, h>>] = "ok"
           /\ toJoin' = toJoin \ {h}
           /\ UNCHANGED <<attempt, step, waiting, result>>
        \/ /\ task[<<attempt, step, h>>] = "error"
           /\ EndAttempt("failed")
  BY DEF Join
<1>3. waiting /\ UNCHANGED <<task, script>> /\ h \in Hosts /\ <<attempt, step, h>> \in Commands
  BY <1>1, CommandType DEF Join, IInv, TypeOK
<1>4. CASE task[<<attempt, step, h>>] = "error" /\ EndAttempt("failed")
  BY <1>1, <1>3, <1>4, EndAttemptInv
<1>5. CASE /\ task[<<attempt, step, h>>] = "ok"
           /\ toJoin' = toJoin \ {h}
           /\ UNCHANGED <<attempt, step, waiting, result>>
  <2>1. TypeOK'
    BY <1>3, <1>5 DEF IInv, TypeOK, Targets
  <2>2. Fresh' /\ EarlierPassed' /\ CompletedPassed' /\ NothingLeft'
    BY <1>3, <1>5, TasksKept DEF IInv, Fresh, Ahead, EarlierPassed, CompletedPassed, NothingLeft
  <2>3. Joined'
    <3> SUFFICES ASSUME NEW c \in Commands, c[1] = attempt, c[2] = step, c[3] \notin toJoin \ {h}
                 PROVE  Passed(c)
      BY <1>3, <1>5, TasksKept DEF Joined
    <3>1. CASE c[3] = h
      <4>1. task[c] = "ok"
        BY <1>5, <3>1, CommandType
      <4> QED BY <4>1 DEF Passed, Over
    <3>2. CASE c[3] \notin toJoin
      BY <1>3, <3>2 DEF IInv, Joined
    <3> QED BY <3>1, <3>2
  <2> QED BY <1>3, <2>1, <2>2, <2>3, TasksKept DEF IInv
<1> QED BY <1>2, <1>4, <1>5

(* Every step of main_loop keeps the invariant.                            *)
LEMMA MainLoopInv ==
  ASSUME IInv, MainLoop
  PROVE  IInv'
<1>1. CASE SkipCommand
  <2>1. /\ attempt \in 1 .. Attempts /\ ~waiting /\ step \in DOMAIN Steps[attempt]
        /\ Steps[attempt][step].source = "command" /\ step' = step + 1
        /\ UNCHANGED <<attempt, toJoin, waiting, result, task, script>>
    BY <1>1 DEF SkipCommand, Unfinished
  <2>2. toJoin = {} /\ waiting = FALSE
    BY <2>1 DEF IInv, TypeOK
  <2>3. \A c \in Commands : c[1] = attempt /\ c[2] = step => Passed(c)
    BY <2>1 DEF IInv, Fresh, Ahead, Passed, IsTarget, Over
  <2> QED BY <2>1, <2>2, <2>3, NextStepInv
<1>2. CASE Return
  <2>1. /\ waiting /\ toJoin = {} /\ waiting' = FALSE /\ step' = step + 1
        /\ UNCHANGED <<attempt, toJoin, result, task, script>>
    BY <1>2 DEF Return
  <2>2. attempt \in 1 .. Attempts /\ step \in DOMAIN Steps[attempt]
    BY <2>1 DEF IInv, TypeOK
  <2>3. \A c \in Commands : c[1] = attempt /\ c[2] = step => Passed(c)
    BY <2>1 DEF IInv, Joined
  <2> QED BY <2>1, <2>2, <2>3, NextStepInv
<1>3. CASE Complete
  BY <1>3, EndAttemptInv DEF Complete, Unfinished
<1> QED BY <1>1, <1>2, <1>3, RunScriptInv, JoinInv DEF MainLoop

(* Every step keeps the invariant.                                         *)
LEMMA NextInv == IInv /\ [Next]_vars => IInv'
<1> SUFFICES ASSUME IInv, [Next]_vars PROVE IInv'
  OBVIOUS
<1>1. CASE UNCHANGED vars
  <2>1. TypeOK' /\ Matches'
    BY <1>1, TasksKept DEF IInv, TypeOK, vars, loop, Targets
  <2> QED BY <1>1, <2>1, TasksGoOn DEF vars, IInv
<1> QED BY <1>1, MainLoopInv, CommandStepInv DEF Next

-----------------------------------------------------------------------------
(* Every variable keeps its type; main_loop waits for hosts of the current *)
(* step only.                                                              *)
THEOREM TypeCorrect == Spec => []TypeOK
<1>1. IInv => TypeOK
  BY DEF IInv
<1> QED BY <1>1, InitInv, NextInv, PTL DEF Spec

(* No step starts on any host before every earlier step of its variation   *)
(* has ended on all of its hosts.                                          *)
THEOREM Order == Spec => []StepsInOrder
<1>1. IInv => StepsInOrder
  <2> SUFFICES ASSUME IInv, NEW c \in Commands, NEW d \in Commands,
                      c[1] = d[1], c[2] < d[2], script[d] # "none"
               PROVE  task[c] \in {"none", "ok"} /\ script[c] # "running"
    BY DEF StepsInOrder
  <2>1. task[d] # "none"
    BY DEF IInv, Matches
  <2>2. task[c] \in Over
    BY <2>1 DEF IInv, Barrier
  <2> QED BY <2>2 DEF IInv, Matches, Over
<1> QED BY <1>1, InitInv, NextInv, PTL DEF Spec

(* Variations do not meet on the hosts as long as no connection fails.     *)
THEOREM NoMeeting == Spec => []OneVariationAtATime
<1>1. IInv => OneVariationAtATime
  <2> SUFFICES ASSUME IInv, \A c \in Commands : task[c] # "error",
                      NEW c \in Commands, script[c] = "running"
               PROVE  c[1] = attempt
    BY DEF OneVariationAtATime
  <2>1. task[c] \notin Over
    BY DEF IInv, Matches, Over
  <2>2. ~(c[1] < attempt)
    BY <2>1 DEF IInv, NothingLeft
  <2>3. ~(c[1] > attempt)
    BY <2>1 DEF IInv, Fresh, Ahead, Over
  <2>4. attempt \in 1 .. Attempts + 1
    BY DEF IInv, TypeOK
  <2>5. c[1] \in 1 .. Attempts
    BY CommandType
  <2> QED BY <2>2, <2>3, <2>4, <2>5, Bounds
<1> QED BY <1>1, InitInv, NextInv, PTL DEF Spec

(* What was asked of a host that is connected has run there when the       *)
(* variation is complete, and no error was left unnoticed.                 *)
LEMMA CompletedRan == IInv => CompletedScriptsRan
<1> SUFFICES ASSUME IInv, NEW a \in 1 .. Attempts, result[a] = "completed",
                    NEW k \in DOMAIN Steps[a], NEW h \in Hosts
             PROVE  /\ task[<<a, k, h>>] # "error"
                    /\ Steps[a][k].source = "script" /\ a \notin Spaced
                         /\ h \in Steps[a][k].hosts \cap Sessions[a]
                         => script[<<a, k, h>>] = "exited"
  <2>1. \A a \in 1 .. Attempts : Sessions[a] \subseteq Hosts
    BY RemoteCommandsAssumption DEF RemoteCommandsAssumption
  <2> QED BY <2>1 DEF CompletedScriptsRan
<1>1. k \in 1 .. MaxSteps
  BY StepType, Bounds
<1>2. PICK c \in Commands : c = <<a, k, h>>
  BY <1>1, CommandType
<1>3. c[1] = a /\ c[2] = k /\ c[3] = h
  BY <1>2
<1>4. Passed(c)
  BY <1>3 DEF IInv, CompletedPassed
<1>5. task[c] # "error"
  BY <1>4 DEF Passed, Over
<1>6. ASSUME Steps[a][k].source = "script", a \notin Spaced, h \in Steps[a][k].hosts \cap Sessions[a]
      PROVE  script[c] = "exited"
  <2>1. h \in Targets(a, k)
    BY <1>6 DEF Targets
  <2>2. task[c] = "ok"
    BY <1>3, <1>4, <1>6, <2>1 DEF Passed, IsTarget
  <2> QED BY <1>3, <1>6, <2>2 DEF IInv, Matches
<1> QED BY <1>2, <1>5, <1>6

(* Where directories hold no space, every script of a completed variation  *)
(* has run to its end on all of its connected hosts, and no error of any   *)
(* host was left unnoticed.                                                *)
THEOREM Completeness == Spec => []CompletedScriptsRan
BY CompletedRan, InitInv, NextInv, PTL DEF Spec

(* "The shell command/script to be run in parallel on all hosts defined"   *)
(* (controller/src/parse.rs:1286-1287): every step of a completed          *)
(* variation has run on all of its hosts, where every step is a script,    *)
(* every host is connected and no directory has a space.  That every host  *)
(* is connected is what Intake's ConnectedUnlessAllOwn says of a request   *)
(* that generates the base experiment or has a variation without hosts of  *)
(* its own; of the others EveryHostConnected says it but for execute.      *)
THEOREM AllStepsRan ==
  ASSUME Spaced = {},
         \A a \in 1 .. Attempts : \A k \in DOMAIN Steps[a] :
           Steps[a][k].source = "script" /\ Steps[a][k].hosts \subseteq Sessions[a]
  PROVE  Spec => []CompletedStepsRan
<1>1. CompletedScriptsRan => CompletedStepsRan
  BY DEF CompletedScriptsRan, CompletedStepsRan, Ran
<1> QED BY <1>1, Completeness, PTL

-----------------------------------------------------------------------------
(* Where scripts run, and what is waited for.                              *)

AtTargets == \A c \in Commands : task[c] # "none" => IsTarget(c)

LEMMA AtTargetsStep == IInv /\ AtTargets /\ [Next]_vars => AtTargets'
<1> SUFFICES ASSUME IInv, AtTargets, [Next]_vars, NEW c \in Commands, task'[c] # "none"
             PROVE  IsTarget(c)
  BY DEF AtTargets, IsTarget, Targets
<1>1. CASE task[c] # "none"
  BY <1>1 DEF AtTargets
<1>2. CASE task[c] = "none"
  <2>1. CASE RunScript
    BY <1>2, <2>1 DEF RunScript, IsTarget
  <2>2. CASE \E d \in Commands : Start(d) \/ LoseConnection(d) \/ Exit(d) \/ Output(d)
    BY <1>2, <2>2 DEF Start, LoseConnection, Exit, Output, IInv, TypeOK
  <2> QED BY <1>2, <2>1, <2>2 DEF Next, MainLoop, SkipCommand, Join, Return, Complete, vars
<1> QED BY <1>1, <1>2

(* Where a script runs, for any steps and sessions: on a host that its     *)
(* step names and main_loop has connected to, or else on the controller's  *)
(* own host, and there only when main_loop has connected to none that the  *)
(* step names.  filter_host_sessions leaves nothing then                   *)
(* (controller/src/run.rs:536-552), and from_sessions takes nothing to     *)
(* mean a local command (command.rs:503-533): the step runs on the         *)
(* controller and counts as run.  Such requests are accepted; the          *)
(* counterexample to ExecuteConnected of Intake is one.                    *)
THEOREM NowhereElse ==
  Spec => [](\A c \in Commands :
               script[c] # "none" =>
                 /\ c[2] \in DOMAIN Steps[c[1]]
                 /\ LET hosts == Steps[c[1]][c[2]].hosts
                    IN \/ c[3] \in hosts \cap Sessions[c[1]]
                       \/ c[3] = Localhost /\ hosts \cap Sessions[c[1]] = {})
<1> DEFINE InSteps == \A c \in Commands : task[c] # "none" => c[2] \in DOMAIN Steps[c[1]]
<1>1. Init => AtTargets /\ InSteps
  BY DEF Init, AtTargets
<1>2. IInv /\ InSteps /\ [Next]_vars => InSteps'
  <2> SUFFICES ASSUME IInv, InSteps, [Next]_vars, NEW c \in Commands, task[c] = "none", task'[c] # "none"
               PROVE  c[2] \in DOMAIN Steps[c[1]]
    OBVIOUS
  <2>1. CASE RunScript
    BY <2>1 DEF RunScript
  <2>2. CASE \E d \in Commands : Start(d) \/ LoseConnection(d) \/ Exit(d) \/ Output(d)
    BY <2>2 DEF Start, LoseConnection, Exit, Output, IInv, TypeOK
  <2> QED BY <2>1, <2>2 DEF Next, MainLoop, SkipCommand, Join, Return, Complete, vars
<1>3. IInv /\ AtTargets /\ InSteps =>
        \A c \in Commands :
          script[c] # "none" =>
            /\ c[2] \in DOMAIN Steps[c[1]]
            /\ LET hosts == Steps[c[1]][c[2]].hosts
               IN \/ c[3] \in hosts \cap Sessions[c[1]]
                  \/ c[3] = Localhost /\ hosts \cap Sessions[c[1]] = {}
  <2> SUFFICES ASSUME IInv, AtTargets, InSteps, NEW c \in Commands, script[c] # "none"
               PROVE  /\ c[2] \in DOMAIN Steps[c[1]]
                      /\ LET hosts == Steps[c[1]][c[2]].hosts
                         IN \/ c[3] \in hosts \cap Sessions[c[1]]
                            \/ c[3] = Localhost /\ hosts \cap Sessions[c[1]] = {}
    OBVIOUS
  <2>1. task[c] # "none"
    BY DEF IInv, Matches
  <2>2. c[2] \in DOMAIN Steps[c[1]] /\ c[3] \in Targets(c[1], c[2]) /\ c[1] \in 1 .. Attempts
    BY <2>1, CommandType DEF AtTargets, IsTarget
  <2> QED BY <2>2 DEF Targets
<1> HIDE DEF InSteps
<1> QED BY <1>1, <1>2, <1>3, AtTargetsStep, InitInv, NextInv, PTL DEF Spec

(* main_loop never waits for a task that cannot end, for any steps and     *)
(* sessions and whatever failed: each host it waits for has a task, which  *)
(* is to start its script, has it running or run, or has an answer. It is  *)
(* what RunCommandReturns needs besides fairness (command.rs:397-494).     *)
THEOREM WaitsForLiveTasks ==
  Spec => [](waiting => \A h \in toJoin :
               LET c == <<attempt, step, h>>
               IN \/ task[c] \in {"spawned", "ok", "error"}
                  \/ task[c] = "running" /\ script[c] \in {"running", "exited", "not run"})
<1> DEFINE Spawned == waiting => \A h \in toJoin : task[<<attempt, step, h>>] # "none"
<1>1. Init => Spawned
  BY DEF Init
<1>2. IInv /\ Spawned /\ [Next]_vars => Spawned'
  <2> SUFFICES ASSUME IInv, Spawned, [Next]_vars, waiting', NEW h \in toJoin'
               PROVE  task'[<<attempt', step', h>>] # "none"
    OBVIOUS
  <2>1. CASE RunScript
    <3>1. attempt \in 1 .. Attempts /\ step \in DOMAIN Steps[attempt] /\ h \in Targets(attempt, step)
      BY <2>1 DEF RunScript, Unfinished
    <3>2. h \in Hosts /\ step \in 1 .. MaxSteps
      BY <3>1, StepType, Bounds
    <3>3. PICK c \in Commands : c = <<attempt, step, h>>
      BY <3>1, <3>2, CommandType
    <3>4. c[1] = attempt /\ c[2] = step /\ c[3] = h
      BY <3>3
    <3>5. task'[c] = "spawned" /\ UNCHANGED <<attempt, step>>
      BY <2>1, <3>4 DEF RunScript
    <3> QED BY <3>3, <3>5
  <2>2. CASE Join
    BY <2>2 DEF Join, EndAttempt
  <2>3. CASE \E d \in Commands : Start(d) \/ LoseConnection(d) \/ Exit(d) \/ Output(d)
    <3>1. UNCHANGED loop /\ task \in [Commands -> {"none", "spawned", "running", "ok", "error"}]
      BY <2>3 DEF Start, LoseConnection, Exit, Output, IInv, TypeOK
    <3>2. attempt \in 1 .. Attempts /\ step \in DOMAIN Steps[attempt] /\ h \in Hosts
      BY <3>1 DEF loop, IInv, TypeOK
    <3> step \in 1 .. MaxSteps
      BY <3>2, StepType, Bounds
    <3>3. PICK c \in Commands : c = <<attempt, step, h>>
      BY <3>2, CommandType
    <3>4. waiting /\ h \in toJoin /\ c = <<attempt', step', h>> /\ task[c] # "none"
      BY <3>1, <3>3 DEF loop
    <3>5. PICK d \in Commands : Start(d) \/ LoseConnection(d) \/ Exit(d) \/ Output(d)
      BY <2>3
    <3>6. task' = task \/ \E t \in {"running", "error", "ok"} : task' = [task EXCEPT ![d] = t]
      BY <3>5 DEF Start, LoseConnection, Exit, Output
    <3>7. task'[c] # "none"
      BY <3>1, <3>4, <3>6
    <3> QED BY <3>4, <3>7
  <2>4. CASE SkipCommand \/ Return \/ Complete
    BY <2>4 DEF SkipCommand, Unfinished, Return, Complete, EndAttempt
  <2>5. CASE UNCHANGED vars
    BY <2>5 DEF vars, loop
  <2> QED BY <2>1, <2>2, <2>3, <2>4, <2>5 DEF Next, MainLoop
<1>3. IInv /\ Spawned =>
        (waiting => \A h \in toJoin :
           LET c == <<attempt, step, h>>
           IN \/ task[c] \in {"spawned", "ok", "error"}
              \/ task[c] = "running" /\ script[c] \in {"running", "exited", "not run"})
  <2> SUFFICES ASSUME IInv, Spawned, waiting, NEW h \in toJoin
               PROVE  LET c == <<attempt, step, h>>
                      IN \/ task[c] \in {"spawned", "ok", "error"}
                         \/ task[c] = "running" /\ script[c] \in {"running", "exited", "not run"}
    OBVIOUS
  <2>1. attempt \in 1 .. Attempts /\ step \in DOMAIN Steps[attempt] /\ h \in Hosts
    BY DEF IInv, TypeOK
  <2>2. step \in 1 .. MaxSteps
    BY <2>1, StepType, Bounds
  <2>3. PICK c \in Commands : c = <<attempt, step, h>>
    BY <2>1, <2>2, CommandType
  <2>4. task[c] # "none"
    BY <2>3
  <2>5. \/ task[c] \in {"spawned", "ok", "error"}
        \/ task[c] = "running" /\ script[c] \in {"running", "exited", "not run"}
    BY <2>4 DEF IInv, TypeOK, Matches
  <2> QED BY <2>3, <2>5
<1> HIDE DEF Spawned
<1> QED BY <1>1, <1>2, <1>3, InitInv, NextInv, PTL DEF Spec

=============================================================================
