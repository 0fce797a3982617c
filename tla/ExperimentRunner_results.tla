----------------------- MODULE ExperimentRunner_results -----------------------
(***************************************************************************)
(* Theorems about what users see of a request, for any requests, repeats,  *)
(* variations and faults.  The results main_loop collects come breadth     *)
(* first, complete when a request is finished and incomplete when it was   *)
(* given up, and stay what they are; the answers to GET /status are of one *)
(* request; the runner dies only of certain requests, and then for good.   *)
(*                                                                         *)
(* The number of results collected for the request being worked on is a    *)
(* function of the loop variables and the program counter (Progress); all  *)
(* else follows from that number, which needs some arithmetic.  The name   *)
(* and the counters that are shown are functions of them too, until the    *)
(* first failure (Counters, NameShown); what a status handler has loaded   *)
(* stays true while it holds the name's mutex (Seen).                      *)
(***************************************************************************)
EXTENDS ExperimentRunner_proofs

Preparing == {"connect_to_hosts", "make_directories", "upload", "correct_dependencies"}
Resetting == {"reset_runs", "reset_run", "lock_reset", "reset_name"}

Size(r) == Len(Variations[r])

(* How many results of its request the runner has collected.               *)
Progress ==
  /\ pc \in Preparing => Len(collected[job]) = 0
  /\ pc = "store_run" => Len(collected[job]) = Size(job) * (run - 1)
  /\ pc \in OfVariation => Len(collected[job]) = Size(job) * (run - 1) + (variation - 1)
  /\ pc \in Resetting => Len(collected[job]) = Size(job) * Runs[job]

(* A request that was not begun has no results.                            *)
Untouched ==
  \A r \in Requests : outcome[r] = "none" /\ job # r => Len(collected[r]) = 0

CInv == Progress /\ Untouched /\ CollectedBreadthFirst

-----------------------------------------------------------------------------
(* Arithmetic.                                                             *)

(* A product of natural numbers is one, and one factor more adds the other. *)
LEMMA Products ==
  ASSUME NEW n \in Nat, NEW q \in Nat
  PROVE  /\ n * q \in Nat
         /\ n * (q + 1) = n * q + n
         /\ n * 0 = 0
OBVIOUS

(* One more factor of at most as many.                                     *)
LEMMA Monotone ==
  ASSUME NEW n \in Nat, NEW q \in Nat, NEW k \in Nat, q < k
  PROVE  n * q + n <= n * k
<1>1. PICK d \in Nat : k = (q + 1) + d
  <2>1. k - (q + 1) \in Nat /\ k = (q + 1) + (k - (q + 1))
    OBVIOUS
  <2> QED BY <2>1
<1>2. n * k = n * (q + 1) + n * d
  BY <1>1
<1>3. n * d \in Nat /\ n * (q + 1) = n * q + n /\ n * q \in Nat
  BY Products
<1>4. n * k = n * q + n + n * d
  BY <1>2, <1>3
<1> QED BY <1>3, <1>4

(* Division with remainder has one outcome.                                *)
LEMMA Division ==
  ASSUME NEW n \in Nat \ {0}, NEW q \in Nat, NEW v \in 0 .. n - 1
  PROVE  (n * q + v) \div n = q /\ (n * q + v) % n = v
OBVIOUS

(* A counter that is unset or within 1 .. n is within 0 .. n.              *)
LEMMA FromZero == \A n \in Nat : \A k : k = 0 \/ k \in 1 .. n => k \in 0 .. n
OBVIOUS

-----------------------------------------------------------------------------
(* Where the runner is.                                                    *)

(* The groups of program counters do not overlap, and each but the last    *)
(* is one in which main_loop works on a request.                           *)
LEMMA Places ==
  /\ Stages = Preparing \cup (OfVariation \ {"lock_name", "set_name"})
  /\ Preparing \cap OfVariation = {} /\ Preparing \cap Resetting = {}
  /\ OfVariation \cap Resetting = {}
  /\ "store_run" \notin Preparing \cup OfVariation \cup Resetting
  /\ \A s \in {"poll", "locked", "sleep", "dead"} :
        s # "store_run" /\ s \notin Preparing \cup OfVariation \cup Resetting
BY StageNames, OfVariationNames DEF Preparing, Resetting

(* The request worked on, its size and its loop variables are numbers.     *)
LEMMA AtWork ==
  ASSUME IInv, job # NoRequest
  PROVE  /\ job \in Requests /\ outcome \in [Requests -> {"none", "finished", "aborted"}]
         /\ Size(job) \in Nat \ {0} /\ Runs[job] \in Nat \ {0}
         /\ collected \in [Requests -> Seq(Nat \X Nat)] /\ Len(collected[job]) \in Nat
         /\ pc \in OfVariation => /\ run - 1 \in Nat /\ run - 1 < Runs[job] /\ run \in Nat
                                  /\ variation - 1 \in 0 .. Size(job) - 1 /\ variation \in Nat
<1>1. job \in Requests
  BY DEF IInv, TypeOK
<1>2. Size(job) \in Nat \ {0} /\ Runs[job] \in Nat \ {0}
  BY <1>1, RequestType DEF Size
<1>3. collected \in [Requests -> Seq(Nat \X Nat)] /\ Len(collected[job]) \in Nat
  BY <1>1 DEF IInv, TypeOK
<1>4. pc \in OfVariation => run \in 1 .. Runs[job] /\ variation \in 1 .. Size(job)
  BY DEF IInv, Working, Size
<1>5. outcome \in [Requests -> {"none", "finished", "aborted"}]
  BY DEF IInv, TypeOK
<1> QED BY <1>1, <1>2, <1>3, <1>4, <1>5

(* While main_loop works on a variation, results are missing.              *)
LEMMA Incomplete ==
  ASSUME IInv, Progress, pc \in Stages
  PROVE  Len(collected[job]) < Size(job) * Runs[job]
<1>1. job # NoRequest
  BY Places DEF IInv, TypeOK
<1>2. CASE pc \in Preparing
  <2>1. Size(job) \in Nat \ {0} /\ Runs[job] \in Nat /\ 0 < Runs[job]
    BY <1>1, AtWork
  <2>2. Size(job) * 0 + Size(job) <= Size(job) * Runs[job] /\ Size(job) * 0 = 0
    BY <2>1, Monotone, Products
  <2>3. PICK total \in Nat : total = Size(job) * Runs[job]
    BY <2>1, Products
  <2> QED BY <1>2, <2>1, <2>2, <2>3 DEF Progress
<1>3. CASE pc \in OfVariation
  <2>1. Size(job) * (run - 1) + Size(job) <= Size(job) * Runs[job]
    BY <1>1, <1>3, AtWork, Monotone
  <2>2. Size(job) * (run - 1) \in Nat /\ Size(job) * Runs[job] \in Nat
    BY <1>1, <1>3, AtWork, Products
  <2>3. PICK before \in Nat : before = Size(job) * (run - 1)
    BY <2>2
  <2>4. PICK total \in Nat : total = Size(job) * Runs[job]
    BY <2>2
  <2>5. Len(collected[job]) = before + (variation - 1) /\ before + Size(job) <= total
    BY <1>3, <2>1, <2>3, <2>4 DEF Progress
  <2>6. Size(job) \in Nat \ {0} /\ variation - 1 \in 0 .. Size(job) - 1
    BY <1>1, <1>3, AtWork
  <2>7. before + (variation - 1) < total
    BY <2>5, <2>6
  <2> QED BY <2>4, <2>5, <2>7
<1> QED BY <1>2, <1>3, Places

-----------------------------------------------------------------------------
(* Steps.                                                                  *)

(* Nothing was collected, begun or given up at first.                      *)
LEMMA InitCollected == Init => CInv
<1> SUFFICES ASSUME Init PROVE CInv
  OBVIOUS
<1>1. /\ pc = "poll" /\ collected = [r \in Requests |-> <<>>]
      /\ outcome = [r \in Requests |-> "none"]
  BY DEF Init
<1>2. Progress
  BY <1>1, Places DEF Progress
<1>3. Untouched
  BY <1>1 DEF Untouched
<1>4. CollectedBreadthFirst
  <2> SUFFICES ASSUME NEW r \in Requests
               PROVE  /\ \A i \in DOMAIN collected[r] :
                            collected[r][i] = <<1 + ((i - 1) \div Len(Variations[r])),
                                                1 + ((i - 1) % Len(Variations[r]))>>
                      /\ Len(collected[r]) <= Len(Variations[r]) * Runs[r]
                      /\ outcome[r] = "none"
    BY <1>1 DEF CollectedBreadthFirst
  <2>1. collected[r] = <<>> /\ outcome[r] = "none"
    BY <1>1
  <2>2. Len(Variations[r]) * Runs[r] \in Nat
    BY RequestType, Products
  <2> QED BY <2>1, <2>2
<1> QED BY <1>2, <1>3, <1>4 DEF CInv

(* A step that collects nothing and ends nothing.                          *)
LEMMA QuietStep ==
  ASSUME CInv, UNCHANGED <<collected, outcome>>, Progress', Untouched'
  PROVE  CInv'
BY DEF CInv, CollectedBreadthFirst

(* A request is begun: nothing was collected for it.                       *)
LEMMA PopCollected ==
  ASSUME IInv, InExactlyOnePlace, CInv, PopFront
  PROVE  CInv'
<1>1. /\ pc = "locked" /\ pc' = "connect_to_hosts" /\ queue # <<>>
      /\ job' = Head(queue) /\ UNCHANGED <<collected, outcome>>
  BY DEF PopFront
<1>2. job = NoRequest /\ queue \in Seq(Requests)
  BY <1>1 DEF IInv, TypeOK
<1>3. PICK h \in Requests : h = Head(queue)
  BY <1>1, <1>2
<1>4. InQueue(h)
  BY <1>1, <1>2, <1>3 DEF InQueue
<1>5. outcome[h] = "none"
  BY <1>4 DEF InExactlyOnePlace, Served
<1>6. Len(collected[h]) = 0
  BY <1>2, <1>3, <1>5, TaskNames DEF CInv, Untouched
<1>7. Progress'
  BY <1>1, <1>3, <1>6, Places DEF Progress, Preparing
<1>8. Untouched'
  BY <1>1, <1>2, TaskNames DEF CInv, Untouched
<1> QED BY <1>1, <1>7, <1>8, QuietStep

(* The runner goes on with a request without collecting anything.          *)
LEMMA OnwardCollected ==
  ASSUME IInv, CInv,
         \/ Poll \/ SleepOnEmpty \/ WakeUp \/ Prepare \/ StoreRun \/ LockName \/ SetName
         \/ Perform \/ ResetRuns \/ ResetRun \/ LockReset
  PROVE  CInv'
<1>1. UNCHANGED <<job, collected, outcome>>
  BY DEF Poll, SleepOnEmpty, WakeUp, Prepare, StoreRun, LockName, SetName, Perform,
         ResetRuns, ResetRun, LockReset, shared
<1>2. Untouched'
  BY <1>1 DEF CInv, Untouched
<1>3. CASE Poll \/ SleepOnEmpty \/ WakeUp
  <2>1. pc' \in {"poll", "locked", "sleep"}
    BY <1>3 DEF Poll, SleepOnEmpty, WakeUp
  <2> QED BY <1>1, <1>2, <2>1, Places, QuietStep DEF Progress
<1>4. CASE Prepare
  <2>1. PICK i \in 1 .. 4 :
          /\ pc = PrepareStages[i]
          /\ IF i < 4 THEN pc' = PrepareStages[i + 1] /\ UNCHANGED run
                      ELSE pc' = "store_run" /\ run' = 1
    BY <1>4, PrepareNames DEF Prepare
  <2>2. i \in {1, 2, 3, 4}
    OBVIOUS
  <2>3. /\ pc \in Preparing /\ pc' \in Preparing \cup {"store_run"}
        /\ pc' = "store_run" => run' = 1
    BY <2>1, <2>2, PrepareNames DEF Preparing
  <2>4. Len(collected[job]) = 0 /\ job # NoRequest
    BY <2>3 DEF CInv, Progress, IInv, TypeOK, Preparing
  <2>5. Size(job) * 0 = 0
    BY <2>4, AtWork, Products
  <2>6. Progress'
    BY <1>1, <2>3, <2>4, <2>5, Places DEF Progress, Size
  <2> QED BY <1>1, <1>2, <2>6, QuietStep
<1>5. CASE StoreRun
  <2>1. pc = "store_run" /\ pc' = "lock_name" /\ variation' = 1 /\ UNCHANGED run
    BY <1>5 DEF StoreRun
  <2>2. Len(collected[job]) = Size(job) * (run - 1) /\ Len(collected[job]) \in Nat
    BY <2>1, AtWork DEF CInv, Progress, IInv, TypeOK
  <2>3. pc' \in OfVariation
    BY <2>1, OfVariationNames
  <2>4. Progress'
    BY <1>1, <2>1, <2>2, <2>3, Places DEF Progress, Size
  <2> QED BY <1>1, <1>2, <2>4, QuietStep
<1>6. CASE LockName \/ SetName \/ Perform
  <2>1. pc \in OfVariation /\ pc' \in OfVariation
    <3>1. CASE LockName \/ SetName
      BY <3>1, VariationNames, OfVariationNames DEF LockName, SetName
    <3>2. CASE Perform
      <4>1. PICK i \in 1 .. 9 : pc = VariationStages[i] /\ pc' = VariationStages[i + 1]
        BY <3>2, VariationNames DEF Perform
      <4> QED BY <4>1, NextStageNames
    <3> QED BY <1>6, <3>1, <3>2
  <2>2. UNCHANGED <<run, variation>>
    BY <1>6 DEF LockName, SetName, Perform
  <2>3. Progress'
    BY <1>1, <2>1, <2>2, Places DEF CInv, Progress, Size
  <2> QED BY <1>1, <1>2, <2>3, QuietStep
<1>7. CASE ResetRuns \/ ResetRun \/ LockReset
  <2>1. pc \in Resetting /\ pc' \in Resetting
    BY <1>7 DEF ResetRuns, ResetRun, LockReset, Resetting
  <2>2. Progress'
    BY <1>1, <2>1, Places DEF CInv, Progress, Size
  <2> QED BY <1>1, <1>2, <2>2, QuietStep
<1> QED BY <1>3, <1>4, <1>5, <1>6, <1>7

(* The result of a variation is added: it is the next one in breadth-first *)
(* order, and the last one only if run and variation are the last.         *)
LEMMA CollectCollected ==
  ASSUME IInv, CInv, InExactlyOnePlace, CollectResults
  PROVE  CInv'
<1> DEFINE n == Size(job)
           k == n * (run - 1) + (variation - 1)
<1>1. /\ pc = "collect_results" /\ pc \in OfVariation /\ job # NoRequest
      /\ collected' = [collected EXCEPT ![job] = Append(@, <<run, variation>>)]
      /\ UNCHANGED <<job, outcome>>
      /\ \/ pc' = "lock_name" /\ run' = run /\ variation' = variation + 1
         \/ pc' = "store_run" /\ run' = run + 1 /\ variation = n
         \/ pc' = "reset_runs" /\ run = Runs[job] /\ variation = n
  BY OfVariationNames DEF CollectResults, IInv, TypeOK, Size
<1>2. /\ job \in Requests /\ n \in Nat \ {0} /\ Runs[job] \in Nat \ {0}
      /\ run - 1 \in Nat /\ run - 1 < Runs[job] /\ run \in Nat
      /\ variation - 1 \in 0 .. n - 1 /\ variation \in Nat
      /\ collected \in [Requests -> Seq(Nat \X Nat)]
  BY <1>1, AtWork
<1>3. Len(collected[job]) = k
  BY <1>1 DEF CInv, Progress
<1>4. n * (run - 1) \in Nat /\ n * run = n * (run - 1) + n /\ n * Runs[job] \in Nat
  BY <1>2, Products
<1>5. n * (run - 1) + n <= n * Runs[job]
  BY <1>2, Monotone
<1>6. k \div n = run - 1 /\ k % n = variation - 1
  BY <1>2, Division
<1>7. k \in Nat /\ k + 1 <= n * Runs[job]
  <2>1. PICK before \in Nat : before = n * (run - 1)
    BY <1>4
  <2>2. PICK all \in Nat : all = n * Runs[job]
    BY <1>4
  <2>3. PICK v \in Nat : v = variation - 1 /\ v < n
    BY <1>2
  <2>4. before + n <= all
    BY <1>5, <2>1, <2>2
  <2>5. before + v \in Nat /\ (before + v) + 1 <= all
    BY <1>2, <2>3, <2>4
  <2> QED BY <2>1, <2>2, <2>3, <2>5
<1>8. /\ collected[job] \in Seq(Nat \X Nat)
      /\ collected'[job] = Append(collected[job], <<run, variation>>)
      /\ \A r \in Requests \ {job} : collected'[r] = collected[r]
  BY <1>1, <1>2
<1>9. /\ Len(collected'[job]) = k + 1 /\ DOMAIN collected'[job] = 1 .. k + 1
      /\ \A i \in 1 .. k : i \in DOMAIN collected[job] /\ collected'[job][i] = collected[job][i]
      /\ collected'[job][k + 1] = <<run, variation>>
  BY <1>3, <1>7, <1>8
<1>10. Progress'
  <2>1. CASE pc' = "lock_name"
    <3>1. /\ pc' \in OfVariation /\ run' = run
          /\ k + 1 = n * (run - 1) + ((variation + 1) - 1) /\ variation' = variation + 1
      <4>1. PICK before \in Nat : before = n * (run - 1)
        BY <1>4
      <4>2. (before + (variation - 1)) + 1 = before + ((variation + 1) - 1)
        BY <1>2
      <4> QED BY <1>1, <2>1, <4>1, <4>2, OfVariationNames
    <3> HIDE DEF k
    <3> QED BY <1>1, <1>9, <2>1, <3>1, Places DEF Progress, Size
  <2>2. CASE pc' = "store_run"
    <3>1. variation = n /\ (run + 1) - 1 = run
      BY <1>1, <1>2, <2>2
    <3>2. PICK before \in Nat : before = n * (run - 1)
      BY <1>4
    <3>3. (before + (n - 1)) + 1 = before + n
      BY <1>2
    <3>4. k + 1 = n * run
      BY <1>4, <3>1, <3>2, <3>3
    <3> QED BY <1>1, <1>9, <2>2, <3>1, <3>4, Places DEF Progress, Size
  <2>3. CASE pc' = "reset_runs"
    <3>1. /\ run = Runs[job] /\ variation = n
      BY <1>1, <2>3
    <3>2. PICK before \in Nat : before = n * (run - 1)
      BY <1>4
    <3>3. (before + (n - 1)) + 1 = before + n
      BY <1>2
    <3>4. k + 1 = n * Runs[job]
      BY <1>4, <3>1, <3>2, <3>3
    <3> QED BY <1>1, <1>9, <2>3, <3>4, Places DEF Progress, Size, Resetting
  <2> QED BY <1>1, <2>1, <2>2, <2>3
<1>11. Untouched'
  BY <1>1, <1>8 DEF CInv, Untouched
<1>12. outcome[job] = "none"
  BY <1>2 DEF InExactlyOnePlace, Served
<1>13. CollectedBreadthFirst'
  <2> SUFFICES ASSUME NEW r \in Requests
               PROVE  /\ \A i \in DOMAIN collected'[r] :
                            collected'[r][i] = <<1 + ((i - 1) \div Size(r)), 1 + ((i - 1) % Size(r))>>
                      /\ Len(collected'[r]) <= Size(r) * Runs[r]
                      /\ outcome[r] = "finished" => Len(collected'[r]) = Size(r) * Runs[r]
                      /\ outcome[r] = "aborted" => Len(collected'[r]) < Size(r) * Runs[r]
    BY <1>1 DEF CollectedBreadthFirst, Size
  <2>1. CASE r # job
    BY <1>8, <2>1 DEF CInv, CollectedBreadthFirst, Size
  <2>2. CASE r = job
    <3>1. ASSUME NEW i \in 1 .. k
          PROVE  collected'[job][i] = <<1 + ((i - 1) \div n), 1 + ((i - 1) % n)>>
      BY <1>2, <1>9 DEF CInv, CollectedBreadthFirst, Size
    <3>2. collected'[job][k + 1] = <<1 + (((k + 1) - 1) \div n), 1 + (((k + 1) - 1) % n)>>
      <4>1. (k + 1) - 1 = k /\ 1 + (run - 1) = run /\ 1 + (variation - 1) = variation
        BY <1>2, <1>7
      <4> QED BY <1>6, <1>9, <4>1
    <3>3. \A i \in 1 .. k + 1 : i \in 1 .. k \/ i = k + 1
      BY <1>7
    <3> QED BY <1>7, <1>9, <1>12, <2>2, <3>1, <3>2, <3>3
  <2> QED BY <2>1, <2>2
<1> QED BY <1>10, <1>11, <1>13 DEF CInv

(* The work on a request ends: finished with all results, given up without. *)
LEMMA EndCollected ==
  ASSUME IInv, CInv, ResetName \/ Abort \/ Panic
  PROVE  CInv'
<1>1. /\ pc' \in {"poll", "dead"} /\ UNCHANGED collected /\ job' = NoRequest
      /\ job # NoRequest
  BY StageNames, RunnerAssumption DEF RunnerAssumption, ResetName, Abort, Panic, shared, IInv, TypeOK
<1>2. PICK o \in {"finished", "aborted"} :
        /\ outcome' = [outcome EXCEPT ![job] = o]
        /\ o = "finished" => pc = "reset_name"
        /\ o = "aborted" => pc \in Stages
  BY RunnerAssumption DEF RunnerAssumption, ResetName, Abort, Panic
<1>3. /\ job \in Requests /\ outcome'[job] = o
      /\ \A r \in Requests \ {job} : outcome'[r] = outcome[r]
  BY <1>1, <1>2, AtWork
<1>4. o = "finished" => Len(collected[job]) = Size(job) * Runs[job]
  BY <1>2 DEF CInv, Progress, Resetting
<1>5. o = "aborted" => Len(collected[job]) < Size(job) * Runs[job]
  BY <1>2, Incomplete DEF CInv
<1>6. Progress'
  BY <1>1, Places DEF Progress
<1>7. Untouched'
  BY <1>1, <1>3 DEF CInv, Untouched
<1>8. CollectedBreadthFirst'
  BY <1>1, <1>2, <1>3, <1>4, <1>5 DEF CInv, CollectedBreadthFirst, Size
<1> QED BY <1>6, <1>7, <1>8 DEF CInv

(* Every step keeps what is known of the results.                          *)
LEMMA CollectedStep == IInv /\ InExactlyOnePlace /\ CInv /\ [Next]_vars => CInv'
<1> SUFFICES ASSUME IInv, InExactlyOnePlace, CInv, [Next]_vars PROVE CInv'
  OBVIOUS
<1>1. CASE RunnerStep
  BY <1>1, PopCollected, OnwardCollected, CollectCollected, EndCollected DEF RunnerStep
<1>2. CASE UNCHANGED runner
  <2>1. Progress' /\ Untouched'
    BY <1>2 DEF CInv, Progress, Untouched, runner, Size
  <2> QED BY <1>2, <2>1, QuietStep DEF runner
<1>3. CASE \E r \in Requests : HandlerStep(r)
  BY <1>2, <1>3 DEF HandlerStep, Receive, Enqueue, Respond, Disconnect
<1>4. CASE \E p \in Probes : StatusStep(p)
  BY <1>2, <1>4 DEF StatusStep, AskStatus, LoadRun, LoadRuns, Report
<1>5. CASE UNCHANGED vars
  BY <1>2, <1>5 DEF vars
<1> QED BY <1>1, <1>3, <1>4, <1>5 DEF Next

(* Results are collected breadth first, all of them for a request that is  *)
(* finished and not all for one that was given up.                         *)
THEOREM BreadthFirst == Spec => []CollectedBreadthFirst
<1>1. CInv => CollectedBreadthFirst
  BY DEF CInv
<1> QED BY <1>1, InitInv, NextInv, NothingLostOrDoubled, InitCollected, CollectedStep, PTL DEF Spec

-----------------------------------------------------------------------------
(* The status.                                                             *)

Idle == {"poll", "locked", "sleep"}

NamesOf(r) == {Variations[r][i] : i \in DOMAIN Variations[r]}

NoneFailed == \A r \in Requests : outcome[r] # "aborted"

Counters ==
  /\ pc \in Idle \cup {"reset_run", "lock_reset", "reset_name"} => current_runs = 0
  /\ pc \in Preparing \cup OfVariation \cup {"store_run", "reset_runs"} => current_runs = Runs[job]
  /\ pc \in Idle \cup Preparing \cup {"lock_reset", "reset_name"} => current_run = 0
  /\ pc = "store_run" => current_run = run - 1
  /\ pc \in OfVariation => current_run = run
  /\ pc \in {"reset_runs", "reset_run"} => current_run = Runs[job]

NameShown ==
  /\ pc \in Idle \cup Preparing => current_experiment = NoName
  /\ pc \in {"store_run", "lock_name", "set_name"} =>
       (current_experiment = NoName /\ run = 1) \/ current_experiment \in NamesOf(job)
  /\ pc \in (OfVariation \ {"lock_name", "set_name"}) \cup Resetting =>
       current_experiment \in NamesOf(job)

(* What a status handler has loaded is of the request being run.           *)
Seen ==
  \A p \in Probes :
    /\ probe[p].pc \in {"run loaded", "both loaded"} =>
         /\ probe[p].run # 0 => job # NoRequest /\ probe[p].run \in 1 .. Runs[job]
         /\ current_experiment = NoName => probe[p].run \in {0, 1}
    /\ probe[p].pc \in {"runs loaded", "both loaded"} /\ probe[p].runs # 0 =>
         job # NoRequest /\ probe[p].runs = Runs[job]

SInv == NoneFailed => pc # "dead" /\ Counters /\ NameShown /\ Seen

(* A failed request stays failed.                                          *)
LEMMA NoneFailedYet == IInv /\ InExactlyOnePlace /\ [Next]_vars /\ NoneFailed' => NoneFailed
<1> SUFFICES ASSUME IInv, InExactlyOnePlace, [Next]_vars, NEW r \in Requests, outcome[r] = "aborted"
             PROVE  outcome'[r] = "aborted"
  BY DEF NoneFailed
<1>1. job # r
  BY DEF InExactlyOnePlace, Served
<1> QED BY <1>1 DEF Next, RunnerStep, Poll, PopFront, SleepOnEmpty, WakeUp, Prepare, StoreRun,
           LockName, SetName, Perform, CollectResults, ResetRuns, ResetRun, LockReset, ResetName,
           Abort, Panic, HandlerStep, Receive, Enqueue, Respond, Disconnect, StatusStep,
           AskStatus, LoadRun, LoadRuns, Report, vars, runner, IInv, TypeOK

(* The counters in each step of the runner.                                *)
LEMMA CountersStep ==
  ASSUME IInv, Counters, RunnerStep, ~Abort, ~Panic
  PROVE  Counters'
<1> USE DEF Preparing, Idle
<1>1. CASE Poll \/ SleepOnEmpty \/ WakeUp
  BY <1>1, OfVariationNames DEF Poll, SleepOnEmpty, WakeUp, shared, Counters
<1>2. CASE PopFront
  BY <1>2, OfVariationNames DEF PopFront, Counters
<1>3. CASE Prepare
  <2>1. PICK i \in 1 .. 4 :
          /\ pc = PrepareStages[i]
          /\ IF i < 4 THEN pc' = PrepareStages[i + 1] /\ UNCHANGED run
                      ELSE pc' = "store_run" /\ run' = 1
    BY <1>3, PrepareNames DEF Prepare
  <2>2. i \in {1, 2, 3, 4}
    OBVIOUS
  <2>3. pc \in Preparing /\ (pc' \in Preparing \/ (pc' = "store_run" /\ run' = 1))
    BY <2>1, <2>2, PrepareNames
  <2>4. UNCHANGED <<current_run, current_runs, job>>
    BY <1>3 DEF Prepare, shared
  <2> QED BY <2>3, <2>4, OfVariationNames DEF Counters
<1>4. CASE StoreRun
  BY <1>4, OfVariationNames DEF StoreRun, Counters
<1>5. CASE LockName \/ SetName
  BY <1>5, OfVariationNames, VariationNames DEF LockName, SetName, Counters
<1>6. CASE Perform
  <2>1. PICK i \in 1 .. 9 : pc = VariationStages[i] /\ pc' = VariationStages[i + 1]
    BY <1>6, VariationNames DEF Perform
  <2>2. pc \in OfVariation /\ pc' \in OfVariation
    BY <2>1, NextStageNames
  <2>3. UNCHANGED <<current_run, current_runs, job, run>>
    BY <1>6 DEF Perform, shared
  <2> QED BY <2>2, <2>3, OfVariationNames DEF Counters
<1>7. CASE CollectResults
  <2>1. run \in Nat /\ pc \in OfVariation
    BY <1>7, OfVariationNames DEF CollectResults, IInv, TypeOK
  <2> QED BY <1>7, <2>1, OfVariationNames DEF CollectResults, shared, Counters
<1>8. CASE ResetRuns \/ ResetRun \/ LockReset
  BY <1>8, OfVariationNames DEF ResetRuns, ResetRun, LockReset, Counters
<1>9. CASE ResetName
  BY <1>9, OfVariationNames DEF ResetName, Counters
<1> QED BY <1>1, <1>2, <1>3, <1>4, <1>5, <1>6, <1>7, <1>8, <1>9 DEF RunnerStep

(* The name in each step of the runner.                                    *)
LEMMA NameShownStep ==
  ASSUME IInv, NameShown, RunnerStep, ~Abort, ~Panic
  PROVE  NameShown'
<1> USE DEF Preparing, Idle, Resetting
<1>1. CASE Poll \/ SleepOnEmpty \/ WakeUp
  BY <1>1, OfVariationNames DEF Poll, SleepOnEmpty, WakeUp, shared, NameShown
<1>2. CASE PopFront
  BY <1>2, OfVariationNames DEF PopFront, NameShown
<1>3. CASE Prepare
  <2>1. PICK i \in 1 .. 4 :
          /\ pc = PrepareStages[i]
          /\ IF i < 4 THEN pc' = PrepareStages[i + 1] /\ UNCHANGED run
                      ELSE pc' = "store_run" /\ run' = 1
    BY <1>3, PrepareNames DEF Prepare
  <2>2. i \in {1, 2, 3, 4}
    OBVIOUS
  <2>3. pc \in Preparing /\ (pc' \in Preparing \/ (pc' = "store_run" /\ run' = 1))
    BY <2>1, <2>2, PrepareNames
  <2>4. UNCHANGED <<current_experiment, job>>
    BY <1>3 DEF Prepare, shared
  <2> QED BY <2>3, <2>4, OfVariationNames DEF NameShown
<1>4. CASE StoreRun \/ LockName
  BY <1>4, OfVariationNames DEF StoreRun, LockName, NameShown
<1>5. CASE SetName
  <2>1. variation \in DOMAIN Variations[job] /\ job' = job /\ pc' = "make_directory"
        /\ current_experiment' = Variations[job][variation]
    <3>1. pc \in OfVariation /\ job \in Requests
      BY <1>5, OfVariationNames DEF SetName, IInv, TypeOK
    <3> QED BY <1>5, <3>1, RequestType, VariationNames DEF SetName, IInv, Working
  <2>2. current_experiment' \in NamesOf(job)
    BY <2>1 DEF NamesOf
  <2> QED BY <2>1, <2>2, OfVariationNames DEF NameShown, NamesOf
<1>6. CASE Perform
  <2>1. PICK i \in 1 .. 9 : pc = VariationStages[i] /\ pc' = VariationStages[i + 1]
    BY <1>6, VariationNames DEF Perform
  <2>2. i \in {1, 2, 3, 4, 5, 6, 7, 8, 9}
    OBVIOUS
  <2>3. pc \in OfVariation \ {"lock_name", "set_name"} /\ pc' \in OfVariation \ {"lock_name", "set_name"}
    BY <2>1, <2>2, VariationNames, OfVariationNames
  <2>4. UNCHANGED <<current_experiment, job>>
    BY <1>6 DEF Perform, shared
  <2> QED BY <2>3, <2>4, OfVariationNames DEF NameShown, NamesOf
<1>7. CASE CollectResults
  BY <1>7, OfVariationNames DEF CollectResults, shared, NameShown, NamesOf
<1>8. CASE ResetRuns \/ ResetRun \/ LockReset
  BY <1>8, OfVariationNames DEF ResetRuns, ResetRun, LockReset, NameShown, NamesOf
<1>9. CASE ResetName
  BY <1>9, OfVariationNames DEF ResetName, NameShown
<1> QED BY <1>1, <1>2, <1>3, <1>4, <1>5, <1>6, <1>7, <1>8, <1>9 DEF RunnerStep

(* What the status shows is of the request being run.                      *)
LEMMA OfThisRequest ==
  ASSUME IInv, Counters, NameShown, pc # "dead"
  PROVE  /\ current_run # 0 => job # NoRequest /\ current_run \in 1 .. Runs[job]
         /\ current_experiment = NoName => current_run \in {0, 1}
         /\ current_runs # 0 => job # NoRequest /\ current_runs = Runs[job]
         /\ current_experiment # NoName => job # NoRequest /\ current_experiment \in NamesOf(job)
<1>1. CASE pc \in Idle
  BY <1>1 DEF Counters, NameShown
<1>2. CASE pc \notin Idle
  <2>1. job # NoRequest /\ job \in Requests
    BY <1>2 DEF IInv, TypeOK, Idle
  <2>2. Runs[job] \in Nat /\ Runs[job] >= 1 /\ NoName \notin NamesOf(job)
    BY <2>1, RequestType, TaskNames DEF NamesOf
  <2>3. pc \in Preparing \cup OfVariation \cup {"store_run"} \cup Resetting
    <3>1. pc \in Stages \cup {"store_run", "lock_name", "set_name", "reset_runs", "reset_run",
                             "lock_reset", "reset_name"}
      BY <1>2 DEF IInv, TypeOK, RunnerPCs, Idle
    <3> QED BY <3>1, Places, OfVariationNames DEF Resetting
  <2>4. CASE pc \in Preparing
    BY <2>1, <2>4 DEF Counters, NameShown
  <2>5. CASE pc \in OfVariation \cup {"store_run"}
    <3>1. run \in 1 .. Runs[job]
      BY <2>5 DEF IInv, Working
    <3>2. current_run \in 0 .. Runs[job] /\ current_runs = Runs[job] /\ (run = 1 => current_run \in {0, 1})
      BY <2>2, <2>5, <3>1 DEF Counters
    <3>3. (current_experiment = NoName /\ run = 1) \/ current_experiment \in NamesOf(job)
      BY <2>5 DEF NameShown
    <3> QED BY <2>1, <2>2, <3>2, <3>3
  <2>6. CASE pc \in Resetting
    <3>1. current_experiment \in NamesOf(job)
      BY <2>6 DEF NameShown
    <3>2. current_run \in {0, Runs[job]} /\ current_runs \in {0, Runs[job]}
      BY <2>6 DEF Counters, Resetting
    <3> QED BY <2>1, <2>2, <3>1, <3>2
  <2> QED BY <2>3, <2>4, <2>5, <2>6
<1> QED BY <1>1, <1>2

(* A status handler that holds the name's mutex keeps the runner from      *)
(* showing another request.                                                *)
LEMMA SeenStep ==
  ASSUME IInv, Counters, NameShown, Seen, pc # "dead", [Next]_vars, ~Abort, ~Panic
  PROVE  Seen'
<1>1. CASE UNCHANGED <<probe, job, current_experiment>>
  BY <1>1 DEF Seen
<1>2. CASE RunnerStep
  <2>1. probe' = probe
    BY <1>2 DEF RunnerStep, Poll, PopFront, SleepOnEmpty, WakeUp, Prepare, StoreRun, LockName,
       SetName, Perform, CollectResults, ResetRuns, ResetRun, LockReset, ResetName
  <2>2. ASSUME NEW p \in Probes, probe[p].pc \in Reading \ {"status"}
        PROVE  current_experiment' = current_experiment /\ (job # NoRequest => job' = job)
    <3>1. nameLock.owner # Runner
      BY <2>2, TaskNames DEF IInv, NameLockInv
    <3>2. job = NoRequest \/ pc # "locked"
      BY DEF IInv, TypeOK
    <3> QED BY <1>2, <3>1, <3>2 DEF RunnerStep, Poll, PopFront, SleepOnEmpty, WakeUp, Prepare,
               StoreRun, LockName, SetName, Perform, CollectResults, ResetRuns, ResetRun,
               LockReset, ResetName, shared
  <2> QED BY <2>1, <2>2 DEF Seen, Reading
<1>3. ASSUME NEW q \in Probes, StatusStep(q) PROVE Seen'
  <2>1. UNCHANGED <<job, current_experiment, runner>>
    BY <1>3 DEF StatusStep, AskStatus, LoadRun, LoadRuns, Report, shared, runner
  <2>2. \A p \in Probes \ {q} : probe'[p] = probe[p]
    BY <1>3 DEF StatusStep, AskStatus, LoadRun, LoadRuns, Report, IInv, TypeOK
  <2>3. \/ probe'[q].pc \in {"status", "answered"}
        \/ /\ probe[q].pc = "status" /\ probe'[q].pc = "run loaded" /\ probe'[q].run = current_run
        \/ /\ probe[q].pc = "runs loaded" /\ probe'[q].pc = "both loaded"
           /\ probe'[q].run = current_run /\ probe'[q].runs = probe[q].runs
        \/ /\ probe[q].pc = "status" /\ probe'[q].pc = "runs loaded" /\ probe'[q].runs = current_runs
        \/ /\ probe[q].pc = "run loaded" /\ probe'[q].pc = "both loaded"
           /\ probe'[q].runs = current_runs /\ probe'[q].run = probe[q].run
    <3>1. q \in DOMAIN probe /\ probe[q] \in [pc : ProbeStates, name : Names \cup {NoName},
                                              run : 0 .. MaxRuns, runs : 0 .. MaxRuns]
      BY DEF IInv, TypeOK
    <3>2. CASE AskStatus(q) \/ Report(q)
      BY <3>1, <3>2 DEF AskStatus, Report
    <3>3. CASE LoadRun(q)
      <4>1. CASE /\ probe[q].pc = "status"
                 /\ probe' = [probe EXCEPT ![q].pc = "run loaded", ![q].run = current_run]
        BY <3>1, <4>1
      <4>2. CASE /\ probe[q].pc = "runs loaded"
                 /\ probe' = [probe EXCEPT ![q].pc = "both loaded", ![q].run = current_run]
        BY <3>1, <4>2
      <4> QED BY <3>3, <4>1, <4>2 DEF LoadRun
    <3>4. CASE LoadRuns(q)
      <4>1. CASE /\ probe[q].pc = "status"
                 /\ probe' = [probe EXCEPT ![q].pc = "runs loaded", ![q].runs = current_runs]
        BY <3>1, <4>1
      <4>2. CASE /\ probe[q].pc = "run loaded"
                 /\ probe' = [probe EXCEPT ![q].pc = "both loaded", ![q].runs = current_runs]
        BY <3>1, <4>2
      <4> QED BY <3>4, <4>1, <4>2 DEF LoadRuns
    <3> QED BY <1>3, <3>2, <3>3, <3>4 DEF StatusStep
  <2>4. /\ probe'[q].pc \in {"run loaded", "both loaded"} =>
             /\ probe'[q].run # 0 => job # NoRequest /\ probe'[q].run \in 1 .. Runs[job]
             /\ current_experiment = NoName => probe'[q].run \in {0, 1}
        /\ probe'[q].pc \in {"runs loaded", "both loaded"} /\ probe'[q].runs # 0 =>
             job # NoRequest /\ probe'[q].runs = Runs[job]
    BY <2>3, OfThisRequest DEF Seen
  <2> QED BY <2>1, <2>2, <2>4 DEF Seen
<1>4. CASE \E r \in Requests : HandlerStep(r)
  BY <1>1, <1>4 DEF HandlerStep, Receive, Enqueue, Respond, Disconnect, shared, runner
<1> QED BY <1>1, <1>2, <1>3, <1>4 DEF Next, vars, shared, runner

(* Before the first failure nothing of an earlier request is shown.        *)
LEMMA StatusInv == IInv /\ InExactlyOnePlace /\ SInv /\ [Next]_vars => SInv'
<1> SUFFICES ASSUME IInv, InExactlyOnePlace, SInv, [Next]_vars, NoneFailed'
             PROVE  pc' # "dead" /\ Counters' /\ NameShown' /\ Seen'
  BY DEF SInv
<1>1. NoneFailed /\ pc # "dead" /\ Counters /\ NameShown /\ Seen
  BY NoneFailedYet DEF SInv
<1>2. ~Abort /\ ~Panic
  <2> SUFFICES ASSUME Abort \/ Panic PROVE FALSE
    OBVIOUS
  <2>1. pc \in Stages
    BY RunnerAssumption DEF RunnerAssumption, Abort, Panic
  <2>2. job \in Requests
    BY <2>1, StageNames DEF IInv, TypeOK
  <2>3. outcome'[job] = "aborted"
    BY <2>2 DEF Abort, Panic, IInv, TypeOK
  <2> QED BY <2>2, <2>3 DEF NoneFailed
<1>3. Seen'
  BY <1>1, <1>2, SeenStep
<1>4. CASE RunnerStep
  <2>1. pc' # "dead"
    <3>1. CASE Prepare
      <4>1. PICK i \in 1 .. 4 : pc' = IF i < 4 THEN PrepareStages[i + 1] ELSE "store_run"
        BY <3>1, PrepareNames DEF Prepare
      <4>2. i \in {1, 2, 3, 4}
        OBVIOUS
      <4> QED BY <4>1, <4>2, PrepareNames
    <3>2. CASE Perform
      <4>1. PICK i \in 1 .. 9 : pc = VariationStages[i] /\ pc' = VariationStages[i + 1]
        BY <3>2, VariationNames DEF Perform
      <4> QED BY <4>1, NextStageNames, OfVariationNames
    <3> QED BY <1>2, <1>4, <3>1, <3>2, VariationNames DEF RunnerStep, Poll, PopFront, SleepOnEmpty,
               WakeUp, StoreRun, LockName, SetName, CollectResults, ResetRuns, ResetRun,
               LockReset, ResetName
  <2> QED BY <1>1, <1>2, <1>3, <1>4, <2>1, CountersStep, NameShownStep
<1>5. CASE UNCHANGED <<runner, current_experiment, current_run, current_runs>>
  BY <1>1, <1>3, <1>5 DEF Counters, NameShown, NamesOf, runner
<1> QED BY <1>4, <1>5 DEF Next, HandlerStep, Receive, Enqueue, Respond, Disconnect, StatusStep,
           AskStatus, LoadRun, LoadRuns, Report, vars, shared

(* As long as no request failed, a status answer is of the request that is *)
(* being run, although the counters are stored without the lock, for any   *)
(* requests, probes, repeats and variations.                               *)
THEOREM StatusOfOneRequest == Spec => StatusIsOfOneRequest
<1>1. Init => SInv
  <2> SUFFICES ASSUME Init PROVE Counters /\ NameShown /\ Seen /\ pc # "dead"
    BY DEF SInv
  <2>1. /\ pc = "poll" /\ current_run = 0 /\ current_runs = 0 /\ current_experiment = NoName
        /\ \A p \in Probes : probe[p].pc = "new"
    BY DEF Init, Blank
  <2> QED BY <2>1, OfVariationNames DEF Counters, NameShown, Seen, Idle, Preparing, Resetting
<1>2. IInv /\ SInv /\ [Next]_vars =>
        [\A p \in Probes :
           /\ \A r \in Requests : outcome[r] # "aborted"
           /\ probe[p].pc = "both loaded" /\ probe'[p].pc = "answered"
           => LET a == probe'[p]
              IN /\ a.name # NoName =>
                      /\ job # NoRequest /\ a.name \in {Variations[job][i] : i \in DOMAIN Variations[job]}
                      /\ a.run \in 0 .. Runs[job]
                 /\ a.name = NoName => a.run \in {0, 1}
                 /\ a.runs # 0 => job # NoRequest /\ a.runs = Runs[job]
                 /\ a.run # 0 => job # NoRequest]_vars
  <2> SUFFICES ASSUME IInv, SInv, Next, NEW p \in Probes, NoneFailed,
                      probe[p].pc = "both loaded", probe'[p].pc = "answered"
               PROVE  LET a == probe'[p]
                      IN /\ a.name # NoName =>
                              /\ job # NoRequest /\ a.name \in NamesOf(job)
                              /\ a.run \in 0 .. Runs[job]
                         /\ a.name = NoName => a.run \in {0, 1}
                         /\ a.runs # 0 => job # NoRequest /\ a.runs = Runs[job]
                         /\ a.run # 0 => job # NoRequest
    BY DEF NoneFailed, NamesOf, vars
  <2>1. pc # "dead" /\ Counters /\ NameShown /\ Seen
    BY DEF SInv
  <2>2. Report(p)
    <3>1. probe' # probe
      OBVIOUS
    <3>2. \E q \in Probes : StatusStep(q)
      BY <3>1 DEF Next, RunnerStep, Poll, PopFront, SleepOnEmpty, WakeUp, Prepare, StoreRun,
         LockName, SetName, Perform, CollectResults, ResetRuns, ResetRun, LockReset, ResetName,
         Abort, Panic, HandlerStep, Receive, Enqueue, Respond, Disconnect
    <3> QED BY <3>2 DEF StatusStep, AskStatus, LoadRun, LoadRuns, Report, IInv, TypeOK
  <2>3. /\ probe'[p].name = current_experiment
        /\ probe'[p].run = probe[p].run /\ probe'[p].runs = probe[p].runs
    BY <2>2 DEF Report, IInv, TypeOK
  <2>4. /\ probe[p].run # 0 => job # NoRequest /\ probe[p].run \in 1 .. Runs[job]
        /\ current_experiment = NoName => probe[p].run \in {0, 1}
        /\ probe[p].runs # 0 => job # NoRequest /\ probe[p].runs = Runs[job]
    BY <2>1 DEF Seen
  <2>5. current_experiment # NoName => job # NoRequest /\ current_experiment \in NamesOf(job)
    BY <2>1, OfThisRequest
  <2>6. job # NoRequest => Runs[job] \in Nat
    BY RequestType DEF IInv, TypeOK
  <2>7. ASSUME job # NoRequest PROVE probe[p].run \in 0 .. Runs[job]
    <3>1. PICK n \in Nat : n = Runs[job]
      BY <2>6, <2>7
    <3>2. probe[p].run = 0 \/ probe[p].run \in 1 .. n
      BY <2>4, <3>1
    <3> QED BY <3>1, <3>2, FromZero
  <2> QED BY <2>3, <2>4, <2>5, <2>7
<1> QED BY <1>1, <1>2, StatusInv, InitInv, NextInv, NothingLostOrDoubled, PTL
        DEF Spec, StatusIsOfOneRequest

-----------------------------------------------------------------------------
(* A name that is shown is of the request being run or of one that failed. *)
Shown ==
  current_experiment # NoName =>
    \/ job # NoRequest /\ current_experiment \in NamesOf(job)
    \/ \E r \in Requests : outcome[r] = "aborted" /\ current_experiment \in NamesOf(r)

(* Only SetName, ResetName and the end of a request matter.                *)
LEMMA ShownStep == IInv /\ InExactlyOnePlace /\ Shown /\ [Next]_vars => Shown'
<1> SUFFICES ASSUME IInv, InExactlyOnePlace, Shown, [Next]_vars, current_experiment' # NoName
             PROVE  \/ job' # NoRequest /\ current_experiment' \in NamesOf(job')
                    \/ \E r \in Requests : outcome'[r] = "aborted" /\ current_experiment' \in NamesOf(r)
  BY DEF Shown, NamesOf
<1>1. CASE UNCHANGED <<current_experiment, job, outcome>>
  BY <1>1 DEF Shown
<1>2. CASE PopFront
  <2>1. job = NoRequest /\ UNCHANGED <<current_experiment, outcome>>
    BY <1>2 DEF PopFront, IInv, TypeOK
  <2> QED BY <2>1 DEF Shown
<1>3. CASE SetName
  <2>1. pc \in OfVariation /\ job # NoRequest /\ job \in Requests
    BY <1>3, OfVariationNames DEF SetName, IInv, TypeOK
  <2>2. variation \in DOMAIN Variations[job]
    BY <2>1, RequestType DEF IInv, Working
  <2> QED BY <1>3, <2>1, <2>2 DEF SetName, NamesOf
<1>4. CASE ResetName
  BY <1>4 DEF ResetName
<1>5. CASE Abort \/ Panic
  <2>1. job \in Requests
    BY <1>5, StageNames, RunnerAssumption DEF RunnerAssumption, Abort, Panic, IInv, TypeOK
  <2>2. /\ current_experiment' = current_experiment /\ outcome'[job] = "aborted"
        /\ \A r \in Requests : outcome[r] = "aborted" => outcome'[r] = "aborted"
    BY <1>5, <2>1 DEF Abort, Panic, shared, IInv, TypeOK
  <2> QED BY <2>1, <2>2 DEF Shown
<1> QED BY <1>1, <1>2, <1>3, <1>4, <1>5 DEF Next, RunnerStep, Poll, SleepOnEmpty, WakeUp, Prepare,
           StoreRun, LockName, Perform, CollectResults, ResetRuns, ResetRun, LockReset,
           HandlerStep, Receive, Enqueue, Respond, Disconnect, StatusStep, AskStatus, LoadRun,
           LoadRuns, Report, vars, shared, runner

(* A runner that waits for work shows a name only if it is one of a        *)
(* request that failed, whatever fails and however often.                  *)
THEOREM IdleShowsFailures == Spec => []IdleShowsOnlyFailures
<1>1. Init => Shown
  BY DEF Init, Shown
<1>2. IInv /\ Shown => IdleShowsOnlyFailures
  BY DEF IInv, TypeOK, Shown, NamesOf, IdleShowsOnlyFailures
<1> QED BY <1>1, <1>2, ShownStep, InitInv, NextInv, NothingLostOrDoubled, PTL DEF Spec

-----------------------------------------------------------------------------
(* The end of a request and the end of the runner.                         *)

(* A step that gives a request its outcome is one of the runner, and of    *)
(* the request it works on.                                                *)
LEMMA OutcomeOf ==
  ASSUME [Next]_vars, outcome' # outcome \/ collected' # collected
  PROVE  /\ pc \in Stages \cup FaultyStages \cup {"reset_name"}
         /\ \/ UNCHANGED outcome
            \/ \E o \in {"finished", "aborted"} : outcome' = [outcome EXCEPT ![job] = o]
         /\ \/ UNCHANGED collected
            \/ collected' = [collected EXCEPT ![job] = Append(@, <<run, variation>>)]
<1>1. CASE CollectResults \/ ResetName \/ Abort \/ Panic
  BY <1>1, StageNames DEF CollectResults, ResetName, Abort, Panic, shared
<1>2. CASE \/ Poll \/ PopFront \/ SleepOnEmpty \/ WakeUp \/ Prepare \/ StoreRun \/ LockName \/ SetName
           \/ Perform \/ ResetRuns \/ ResetRun \/ LockReset
  BY <1>2 DEF Poll, PopFront, SleepOnEmpty, WakeUp, Prepare, StoreRun, LockName, SetName, Perform,
     ResetRuns, ResetRun, LockReset
<1>3. CASE (\E r \in Requests : HandlerStep(r)) \/ (\E p \in Probes : StatusStep(p)) \/ UNCHANGED vars
  BY <1>3 DEF HandlerStep, Receive, Enqueue, Respond, Disconnect, StatusStep, AskStatus, LoadRun,
     LoadRuns, Report, vars, runner
<1> QED BY <1>1, <1>2, <1>3 DEF Next, RunnerStep

(* A request that is finished or given up is so for good, and its results  *)
(* stay as they are: whatever comes after it, whatever fails, no step of   *)
(* another request collects for it or changes how it ended (start and      *)
(* main_loop, controller/src/run.rs:346-529).                              *)
THEOREM ServedForGood ==
  Spec => [][\A r \in Served : outcome'[r] = outcome[r] /\ collected'[r] = collected[r]]_vars
<1>1. IInv /\ InExactlyOnePlace /\ [Next]_vars =>
        \A r \in Served : outcome'[r] = outcome[r] /\ collected'[r] = collected[r]
  <2> SUFFICES ASSUME IInv, InExactlyOnePlace, [Next]_vars, NEW r \in Served
               PROVE  outcome'[r] = outcome[r] /\ collected'[r] = collected[r]
    OBVIOUS
  <2>1. r \in Requests /\ job # r
    BY DEF Served, InExactlyOnePlace
  <2>2. /\ outcome \in [Requests -> {"none", "finished", "aborted"}]
        /\ collected \in [Requests -> Seq(Nat \X Nat)]
    BY DEF IInv, TypeOK
  <2> QED BY <2>1, <2>2, OutcomeOf
<1> QED BY <1>1, InitInv, NextInv, NothingLostOrDoubled, PTL DEF Spec

(* The panic of the runner task.                                           *)
LEMMA DiesByPanic ==
  ASSUME IInv, [Next]_vars, pc # "dead", pc' = "dead"
  PROVE  Panic
<1>1. CASE RunnerStep
  <2>1. CASE Prepare
    BY <2>1, PrepareNames DEF Prepare
  <2>2. CASE Perform
    <3>1. PICK i \in 1 .. 9 : pc' = VariationStages[i + 1]
      BY <2>2, VariationNames DEF Perform
    <3>2. pc' \in OfVariation
      BY <3>1, NextStageNames
    <3> QED BY <3>2, OfVariationNames
  <2>3. CASE SetName
    BY <2>3, VariationNames DEF SetName
  <2> QED BY <1>1, <2>1, <2>2, <2>3 DEF RunnerStep, Poll, PopFront, SleepOnEmpty, WakeUp, StoreRun,
             LockName, CollectResults, ResetRuns, ResetRun, LockReset, ResetName, Abort
<1>2. CASE (\E r \in Requests : HandlerStep(r)) \/ (\E p \in Probes : StatusStep(p)) \/ UNCHANGED vars
  BY <1>2 DEF HandlerStep, Receive, Enqueue, Respond, Disconnect, StatusStep, AskStatus, LoadRun,
     LoadRuns, Report, vars, runner
<1> QED BY <1>1, <1>2 DEF Next

(* A dead runner does nothing more.                                        *)
LEMMA DeadIsStill ==
  ASSUME [Next]_vars, pc = "dead"
  PROVE  ~RunnerStep /\ UNCHANGED <<runner, current_experiment, current_run, current_runs>>
<1>1. ~RunnerStep
  BY PrepareNames, VariationNames, StageNames, RunnerAssumption
     DEF RunnerAssumption, RunnerStep, Poll, PopFront, SleepOnEmpty, WakeUp, Prepare, StoreRun, LockName,
         SetName, Perform, CollectResults, ResetRuns, ResetRun, LockReset, ResetName, Abort, Panic
<1> QED BY <1>1 DEF Next, HandlerStep, Receive, Enqueue, Respond, Disconnect, StatusStep, AskStatus,
           LoadRun, LoadRuns, Report, vars, shared, runner

(* A panic stops the controller for good, for any requests and whatever    *)
(* the handlers go on accepting: no request is taken from the queue or     *)
(* overtaken in it ever again, and the status shows what it showed.  It is *)
(* the general form of what breaks QueueIsConsumed (start,                 *)
(* controller/src/run.rs:344-353).                                         *)
THEOREM DeadForGood ==
  Spec => [][pc = "dead" =>
               /\ UNCHANGED <<runner, current_experiment, current_run, current_runs>>
               /\ \A i \in DOMAIN queue : i \in DOMAIN queue' /\ queue'[i] = queue[i]]_vars
<1>1. IInv /\ [Next]_vars =>
        (pc = "dead" =>
           /\ UNCHANGED <<runner, current_experiment, current_run, current_runs>>
           /\ \A i \in DOMAIN queue : i \in DOMAIN queue' /\ queue'[i] = queue[i])
  <2> SUFFICES ASSUME IInv, [Next]_vars, pc = "dead"
               PROVE  \A i \in DOMAIN queue : i \in DOMAIN queue' /\ queue'[i] = queue[i]
    BY DeadIsStill
  <2>1. queue' = queue \/ \E r \in Requests : queue' = Append(queue, r)
    BY DeadIsStill DEF Next, HandlerStep, Receive, Enqueue, Respond, Disconnect, StatusStep, AskStatus,
       LoadRun, LoadRuns, Report, vars, shared
  <2>2. queue \in Seq(Requests)
    BY DEF IInv, TypeOK
  <2> QED BY <2>1, <2>2
<1> QED BY <1>1, InitInv, NextInv, PTL DEF Spec

(* A request that was refused never gets past its handler.                 *)
Refused == \A r \in Rejected : handler[r] \in {"new", "rejected"}

Fatal(r) == \E i \in DOMAIN Variations[r] : Variations[r][i] \in Unsplittable \cup SlashNames

Culprit == pc = "dead" => \E r \in Requests \ Rejected : outcome[r] = "aborted" /\ Fatal(r)

(* Nothing but a request with a fatal experiment kills the runner.         *)
LEMMA CulpritStep ==
  IInv /\ InExactlyOnePlace /\ Refused /\ Culprit /\ [Next]_vars => Refused' /\ Culprit'
<1> SUFFICES ASSUME IInv, InExactlyOnePlace, Refused, Culprit, [Next]_vars
             PROVE  Refused' /\ Culprit'
  OBVIOUS
<1>1. Refused'
  <2>1. handler \in [Requests -> HandlerStates] /\ Rejected \subseteq Requests
    BY RunnerAssumption DEF RunnerAssumption, IInv, TypeOK
  <2>2. CASE UNCHANGED handler
    BY <2>2 DEF Refused
  <2>3. CASE \E r \in Requests : HandlerStep(r)
    BY <2>1, <2>3 DEF Refused, HandlerStep, Receive, Enqueue, Respond, Disconnect
  <2>4. CASE RunnerStep \/ (\E p \in Probes : StatusStep(p)) \/ UNCHANGED vars
    <3>1. UNCHANGED handler
      BY <2>4 DEF RunnerStep, Poll, PopFront, SleepOnEmpty, WakeUp, Prepare, StoreRun, LockName, SetName,
       Perform, CollectResults, ResetRuns, ResetRun, LockReset, ResetName, Abort, Panic,
       StatusStep, AskStatus, LoadRun, LoadRuns, Report, vars
    <3> QED BY <2>2, <3>1
  <2> QED BY <2>3, <2>4 DEF Next
<1>2. CASE pc = "dead"
  BY <1>1, <1>2, DeadIsStill DEF Culprit, Fatal, runner
<1>3. CASE pc # "dead"
  <2> SUFFICES ASSUME pc' = "dead"
               PROVE  \E r \in Requests \ Rejected : outcome'[r] = "aborted" /\ Fatal(r)
    BY <1>1 DEF Culprit, Fatal
  <2>1. Panic
    BY <1>3, DiesByPanic
  <2>2. /\ pc \in Stages /\ outcome' = [outcome EXCEPT ![job] = "aborted"]
        /\ Variations[job][variation] \in Unsplittable \cup SlashNames
        /\ pc \in OfVariation
    BY <2>1, OfVariationNames DEF Panic, Panics
  <2>3. job \in Requests /\ variation \in 1 .. Len(Variations[job])
    BY <2>2, StageNames, TaskNames DEF IInv, TypeOK, Working
  <2>4. variation \in DOMAIN Variations[job]
    BY <2>3, RequestType
  <2>5. job \notin Rejected
    BY <2>3 DEF Refused, InExactlyOnePlace
  <2>6. outcome'[job] = "aborted"
    BY <2>2, <2>3 DEF IInv, TypeOK
  <2> QED BY <2>2, <2>3, <2>4, <2>5, <2>6 DEF Fatal
<1> QED BY <1>2, <1>3

(* The runner task dies of nothing but a request that was accepted and has *)
(* an experiment with a '/' in its name or with an exporter command that   *)
(* cannot be split: no error of a stage, no client and no interleaving     *)
(* kills it (start, controller/src/run.rs:346-353; from_parsed_command,    *)
(* command.rs:98-109).                                                     *)
THEOREM DeathHasACause == Spec => []Culprit
<1>1. Init => Refused /\ Culprit
  <2>1. Rejected \subseteq Requests
    BY RunnerAssumption DEF RunnerAssumption
  <2> QED BY <2>1 DEF Init, Refused, Culprit
<1> QED BY <1>1, CulpritStep, InitInv, NextInv, NothingLostOrDoubled, PTL DEF Spec

=============================================================================
