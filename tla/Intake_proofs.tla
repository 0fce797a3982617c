---------------------------- MODULE Intake_proofs ----------------------------
(***************************************************************************)
(* Theorems about Intake, for any configurations, valid or not: what       *)
(* validation lets through is what generation, the connections and the     *)
(* upload of files rely on.  Nothing of it is decided in one place: the    *)
(* checks, the experiments they are about and the hosts and files derived  *)
(* from these are four functions that have to agree.                       *)
(*                                                                         *)
(* The invariant (GInv) only says that a request that has come so far      *)
(* passed the checks before, and that what was generated, connected to and *)
(* sent was derived from it; the rest is about the functions.              *)
(***************************************************************************)
EXTENDS Intake, TLAPS

Base == BaseExperiment(config, experiment_config)

Varied(i) == VariationExperiment(config, experiment_config, experiment_config.variations[i])

Validated == ValidConfig(config) /\ ValidExperimentConfig(config, experiment_config)

Generating == {"enqueued", "connected", "running", "aborted"}

GInv ==
  /\ config \in Configs /\ experiment_config \in ExperimentConfigs
  /\ stage \in {"received", "valid", "complete", "rejected", "panicked"} \cup Generating
  /\ storage \subseteq Files /\ uploaded \subseteq Files
  /\ stage \in {"valid", "complete"} \cup Generating => Validated
  /\ stage \in {"complete"} \cup Generating => FilesPresent(experiment_config)
  /\ IF stage \in Generating
       THEN /\ experiments = GenerateExperiments(config, experiment_config)
            /\ runs = Default(experiment_config.runs, 1)
       ELSE experiments = <<>>
  /\ stage \in {"connected", "running", "aborted"} => sessions = UniqueHosts(experiments)
  /\ UploadNeverMisses

-----------------------------------------------------------------------------
(* What generate_experiments returns.                                      *)

(* The base experiment comes first, if at all, and then the variations, in *)
(* their order.                                                            *)
LEMMA GeneratedAre ==
  ASSUME experiment_config \in ExperimentConfigs
  PROVE  LET es == GenerateExperiments(config, experiment_config)
             vs == experiment_config.variations
             b  == IF experiment_config.variations_only THEN 0 ELSE 1
         IN /\ Len(vs) \in Nat /\ DOMAIN vs = 1 .. Len(vs)
            /\ Len(es) = b + Len(vs) /\ DOMAIN es = 1 .. (b + Len(vs))
            /\ b = 1 => es[1] = Base
            /\ \A i \in 1 .. Len(vs) : es[b + i] = Varied(i)
            /\ \A k \in DOMAIN es : (b = 1 /\ k = 1) \/ \E i \in DOMAIN vs : k = b + i
<1> DEFINE vs == experiment_config.variations
           only == experiment_config.variations_only
           S == {vs[i] : i \in DOMAIN vs}
           T == {Varied(i) : i \in DOMAIN vs} \cup {Base}
           head == IF only THEN <<>> ELSE <<Base>>
           tail == [i \in DOMAIN vs |-> Varied(i)]
           b == IF only THEN 0 ELSE 1
<1>1. vs \in Seq(S)
  BY IntakeAssumption DEF SetOf
<1>2. Len(vs) \in Nat /\ DOMAIN vs = 1 .. Len(vs)
  <2> HIDE DEF vs, S
  <2> QED BY <1>1
<1>3. GenerateExperiments(config, experiment_config) = head \o tail
  BY DEF GenerateExperiments, Base, Varied
<1>4. \A i \in DOMAIN vs : Varied(i) \in T
  OBVIOUS
<1>5. Base \in T
  OBVIOUS
<1> HIDE DEF vs, T
<1>6. tail \in Seq(T) /\ Len(tail) = Len(vs) /\ \A i \in 1 .. Len(vs) : tail[i] = Varied(i)
  BY <1>2, <1>4
<1>7. head \in Seq(T) /\ Len(head) = b /\ (b = 1 => head[1] = Base)
  BY <1>5
<1>8. b \in {0, 1}
  OBVIOUS
<1> HIDE DEF head, tail, b
<1>9. /\ Len(head \o tail) = b + Len(vs) /\ DOMAIN (head \o tail) = 1 .. (b + Len(vs))
      /\ b = 1 => (head \o tail)[1] = Base
      /\ \A i \in 1 .. Len(vs) : (head \o tail)[b + i] = Varied(i)
  BY <1>2, <1>6, <1>7, <1>8
<1>10. \A k \in 1 .. (b + Len(vs)) : (b = 1 /\ k = 1) \/ \E i \in 1 .. Len(vs) : k = b + i
  <2> SUFFICES ASSUME NEW k \in 1 .. (b + Len(vs)), ~(b = 1 /\ k = 1)
               PROVE  k - b \in 1 .. Len(vs) /\ k = b + (k - b)
    BY <1>2
  <2> QED BY <1>2, <1>8
<1> QED BY <1>2, <1>3, <1>9, <1>10 DEF vs, b

(* Every generated experiment is the base or one of the variations.        *)
LEMMA EachIs ==
  ASSUME GInv, Accepted, NEW e \in Generated
  PROVE  \/ ~experiment_config.variations_only /\ e = Base
         \/ \E i \in DOMAIN experiment_config.variations : e = Varied(i)
<1>1. PICK k \in DOMAIN experiments : e = experiments[k]
  BY DEF Generated
<1>2. /\ experiments = GenerateExperiments(config, experiment_config)
      /\ experiment_config \in ExperimentConfigs
  BY DEF GInv, Accepted, Generating
<1> HIDE DEF Accepted
<1>3. \/ ~experiment_config.variations_only /\ k = 1 /\ experiments[k] = Base
      \/ \E i \in DOMAIN experiment_config.variations : experiments[k] = Varied(i)
  <2> DEFINE b == IF experiment_config.variations_only THEN 0 ELSE 1
             vs == experiment_config.variations
  <2>1. /\ b = 1 => experiments[1] = Base
        /\ DOMAIN vs = 1 .. Len(vs)
        /\ \A i \in 1 .. Len(vs) : experiments[b + i] = Varied(i)
        /\ (b = 1 /\ k = 1) \/ \E i \in DOMAIN vs : k = b + i
    BY <1>2, GeneratedAre
  <2>2. b = 1 => ~experiment_config.variations_only
    OBVIOUS
  <2> HIDE DEF b, vs
  <2>3. \/ b = 1 /\ k = 1 /\ experiments[k] = Base
        \/ \E i \in DOMAIN vs : experiments[k] = Varied(i)
    BY <2>1
  <2> QED BY <2>2, <2>3 DEF vs
<1> QED BY <1>1, <1>3

(* What a variation overrides, and what it takes from the base.            *)
LEMMA VariedIs ==
  ASSUME NEW i
  PROVE  LET v == experiment_config.variations[i]
         IN /\ Varied(i).name = <<experiment_config.name, v.name>>
            /\ Varied(i).hosts = IF v.hosts = {} THEN Base.hosts ELSE MapHosts(config, v.hosts)
            /\ Varied(i).expected = Default(v.expected, Base.expected)
            /\ Varied(i).arguments = Default(v.arguments, Base.arguments)
            /\ Varied(i).exporters = IF v.exporters = {} THEN Base.exporters
                                                         ELSE MapExporters(config, v.exporters)
            /\ Varied(i).execute = Base.execute /\ Varied(i).stages = Base.stages
            /\ Varied(i).dependencies = Base.dependencies
<1>1. DOMAIN Base = {"name", "hosts", "execute", "stages", "dependencies", "expected",
                     "arguments", "exporters"}
  BY DEF Base, BaseExperiment
<1> DEFINE v == experiment_config.variations[i]
<1>2. Varied(i) = [Base EXCEPT
                     !.name      = <<experiment_config.name, v.name>>,
                     !.hosts     = IF v.hosts = {} THEN @ ELSE MapHosts(config, v.hosts),
                     !.expected  = Default(v.expected, @),
                     !.arguments = Default(v.arguments, @),
                     !.exporters = IF v.exporters = {} THEN @ ELSE MapExporters(config, v.exporters)]
  BY DEF Varied, VariationExperiment, Base
<1> QED BY <1>1, <1>2

-----------------------------------------------------------------------------
(* The way of a request.                                                   *)

(* What is looked up for a stage of the right file_type is what is sent.   *)
LEMMA MappedAreLookedUp ==
  ASSUME NEW list, NEW type, ~Misfiled(list, type), \A s \in SetOf(list) : StageFilesPresent(s),
         NEW stg \in Mapped(config, type, list)
  PROVE  stg.files \subseteq storage
<1>1. PICK s \in SetOf(list) : stg.files = {type} \X ({s.script} \ {None})
  BY DEF Mapped
<1>2. s.file_type # None /\ {s.file_type} \X ({s.script} \ {None}) \subseteq storage
  BY DEF StageFilesPresent, Stored
<1>3. s.script = None \/ s.file_type = type
  BY <1>2 DEF Misfiled
<1> QED BY <1>1, <1>2, <1>3

AsListed ==
  ~Misfiled(experiment_config.setups, "setup") /\ ~Misfiled(experiment_config.teardowns, "teardown")

(* All files that will be sent are among those looked up, unless a script  *)
(* has the file_type of another list.                                      *)
LEMMA FilesAreLookedUp ==
  ASSUME GInv, Accepted, FilesPresent(experiment_config), AsListed
  PROVE  UniqueFiles(experiments) \subseteq storage
<1>1. FilesOf(Base) \subseteq storage
  <2>1. {Base.execute.file} \cup Base.dependencies \subseteq storage
    BY DEF FilesPresent, BaseFilesPresent, Stored, Base, BaseExperiment
  <2>2. Base.stages = Mapped(config, "setup", experiment_config.setups)
                        \cup Mapped(config, "teardown", experiment_config.teardowns)
    BY DEF Base, BaseExperiment
  <2>3. /\ \A s \in SetOf(experiment_config.setups) : StageFilesPresent(s)
        /\ \A s \in SetOf(experiment_config.teardowns) : StageFilesPresent(s)
    BY DEF FilesPresent, StagesOf
  <2>4. \A s \in Base.stages : s.files \subseteq storage
    BY <2>2, <2>3, MappedAreLookedUp DEF AsListed
  <2> QED BY <2>1, <2>4 DEF FilesOf
<1>2. \A i : FilesOf(Varied(i)) = FilesOf(Base)
  BY VariedIs DEF FilesOf
<1>3. \A e \in Generated : FilesOf(e) \subseteq storage
  BY <1>1, <1>2, EachIs
<1> QED BY <1>3 DEF UniqueFiles, Generated

LEMMA StagesListed ==
  ASSUME experiment_config \in ExperimentConfigs, NEW i \in DOMAIN StageList(experiment_config)
  PROVE  StageList(experiment_config)[i] \in StagesOf(experiment_config)
<1> DEFINE s == experiment_config.setups
           t == experiment_config.teardowns
<1>1. s \in Seq(StagesOf(experiment_config)) /\ t \in Seq(StagesOf(experiment_config))
  <2>1. s \in Seq(SetOf(s)) /\ t \in Seq(SetOf(t))
    BY IntakeAssumption
  <2>2. \A j \in DOMAIN s : s[j] \in StagesOf(experiment_config)
    BY DEF StagesOf, SetOf
  <2>3. \A j \in DOMAIN t : t[j] \in StagesOf(experiment_config)
    BY DEF StagesOf, SetOf
  <2> HIDE DEF s, t
  <2> QED BY <2>1, <2>2, <2>3
<1> HIDE DEF s, t
<1>2. s \o t \in Seq(StagesOf(experiment_config))
  BY <1>1
<1>3. StageList(experiment_config) \in Seq(StagesOf(experiment_config))
  BY <1>2 DEF StageList, s, t
<1> QED BY <1>3

(* Both panics are for want of a file_type.                                *)
LEMMA PanicsForAType ==
  ASSUME experiment_config \in ExperimentConfigs,
         ErrorPanics(config, experiment_config) \/ LookupPanics(experiment_config)
  PROVE  \E s \in StagesOf(experiment_config) : s.file_type = None
<1>1. \E i \in DOMAIN StageList(experiment_config) : StageList(experiment_config)[i].file_type = None
  BY Zenon DEF ErrorPanics, LookupPanics
<1> QED BY <1>1, StagesListed

(* GInv is an invariant.                                                   *)
LEMMA GInvariant == Spec => []GInv
<1>1. Init => GInv
  BY DEF Init, GInv, Generating, UploadNeverMisses
<1>2. GInv /\ [Next]_vars => GInv'
  <2> SUFFICES ASSUME GInv, [Next]_vars PROVE GInv'
    OBVIOUS
  <2>0. /\ UNCHANGED request => (Validated' <=> Validated)
        /\ UNCHANGED <<request, storage>> /\ FilesPresent(experiment_config)
             => FilesPresent(experiment_config)'
    BY DEF Validated, request, FilesPresent, BaseFilesPresent, StageFilesPresent, Stored
  <2>1. CASE UNCHANGED vars
    BY <2>0, <2>1 DEF vars, request, GInv, UploadNeverMisses
  <2>2. CASE Validate
    BY <2>0, <2>2, PanicsForAType
       DEF Validate, Refused, request, GInv, Validated, Generating, UploadNeverMisses
  <2>3. CASE ValidateFiles
    BY <2>0, <2>3, PanicsForAType
       DEF ValidateFiles, Refused, request, GInv, Generating, UploadNeverMisses
  <2>4. CASE Generate
    BY <2>0, <2>4 DEF Generate, request, GInv, Generating, UploadNeverMisses
  <2>5. CASE ConnectToHosts
    BY <2>0, <2>5 DEF ConnectToHosts, request, GInv, Generating, UploadNeverMisses
  <2>6. CASE UploadFiles
    <3>1. AsListed => UniqueFiles(experiments) \subseteq storage
      BY <2>6, FilesAreLookedUp DEF UploadFiles, GInv, Generating, Accepted
    <3>2. uploaded' \subseteq Files
      BY <2>6 DEF UploadFiles, GInv
    <3>3. UploadNeverMisses'
      BY <2>6, <3>1 DEF UploadFiles, request, AsListed, UploadNeverMisses, Misfiled, SetOf
    <3> QED BY <2>0, <2>6, <3>2, <3>3 DEF UploadFiles, request, GInv, Generating
  <2>7. ASSUME NEW f \in Files, ReceiveUpload(f) PROVE GInv'
    <3>1. FilesPresent(experiment_config) => FilesPresent(experiment_config)'
      BY <2>7 DEF ReceiveUpload, request, FilesPresent, BaseFilesPresent, StageFilesPresent, Stored
    <3> QED BY <2>0, <2>7, <3>1 DEF ReceiveUpload, request, GInv, UploadNeverMisses
  <2> QED BY <2>1, <2>2, <2>3, <2>4, <2>5, <2>6, <2>7 DEF Next
<1> QED BY <1>1, <1>2, PTL DEF Spec

(* What the arithmetic of runs comes to: a u16 that is not zero. *)
LEMMA InBounds ==
  /\ 1 \in 1 .. MaxRuns
  /\ \A n \in 0 .. MaxRuns : n # 0 => n \in 1 .. MaxRuns
<1>1. MaxRuns \in Int /\ 1 <= MaxRuns
  BY DEF MaxRuns
<1> QED BY <1>1

-----------------------------------------------------------------------------
(* Every request keeps its types, and the number of runs is one that the   *)
(* documentation allows, whatever was given for it (controller/src/        *)
(* parse.rs:595-599, 844-850).                                             *)
THEOREM TypeCorrect == Spec => []TypeOK
<1>1. GInv => TypeOK
  <2> SUFFICES ASSUME GInv PROVE TypeOK
    OBVIOUS
  <2>1. experiments # <<>> => runs \in 1 .. MaxRuns
    <3> SUFFICES ASSUME experiments # <<>> PROVE runs \in 1 .. MaxRuns
      OBVIOUS
    <3> DEFINE n == experiment_config.runs
    <3>1. n # 0 /\ n \in 0 .. MaxRuns \cup {None} /\ runs = (IF n = None THEN 1 ELSE n)
      <4>1. stage \in Generating
        BY DEF GInv
      <4>2. n # 0
        BY <4>1 DEF GInv, Validated, ValidExperimentConfig, ValidBase
      <4>3. n \in 0 .. MaxRuns \cup {None}
        BY IntakeAssumption DEF GInv
      <4>4. runs = (IF n = None THEN 1 ELSE n)
        BY <4>1 DEF GInv, Default
      <4> QED BY <4>2, <4>3, <4>4
    <3> HIDE DEF n
    <3>2. CASE n = None
      BY <3>1, <3>2, InBounds
    <3>3. CASE n # None
      BY <3>1, <3>3, InBounds
    <3> QED BY <3>2, <3>3
  <2> QED BY <2>1 DEF GInv, TypeOK, Stages, Generating
<1> QED BY <1>1, GInvariant, PTL

(* An accepted request has at least one experiment and no two of one name, *)
(* so that none writes to the results directory of another (controller/    *)
(* src/parse.rs:907-918, 2171-2188).                                       *)
THEOREM Distinct == Spec => []NamesDistinct
<1>1. GInv => NamesDistinct
  <2> SUFFICES ASSUME GInv, Accepted
               PROVE  /\ experiments # <<>>
                      /\ \A i, j \in DOMAIN experiments : experiments[i].name = experiments[j].name => i = j
    BY DEF NamesDistinct
  <2> DEFINE vs == experiment_config.variations
             b == IF experiment_config.variations_only THEN 0 ELSE 1
  <2>1. /\ Len(vs) \in Nat /\ DOMAIN vs = 1 .. Len(vs) /\ b \in {0, 1}
        /\ Len(experiments) = b + Len(vs) /\ DOMAIN experiments = 1 .. (b + Len(vs))
        /\ b = 1 => experiments[1] = Base
        /\ \A i \in 1 .. Len(vs) : experiments[b + i] = Varied(i)
        /\ \A k \in DOMAIN experiments : (b = 1 /\ k = 1) \/ \E i \in DOMAIN vs : k = b + i
    BY GeneratedAre DEF GInv, Accepted, Generating
  <2>2. b = 0 => vs # <<>>
    BY DEF GInv, Accepted, Generating, Validated, ValidExperimentConfig
  <2>3. \A i, j \in DOMAIN vs : vs[i].name = vs[j].name => i = j
    BY DEF GInv, Accepted, Generating, Validated, ValidExperimentConfig, DistinctNames
  <2>4. \A i, j \in DOMAIN vs : Varied(i).name = Varied(j).name => i = j
    BY <2>3, VariedIs
  <2>5. \A i \in DOMAIN vs : Varied(i).name # Base.name
    BY VariedIs DEF Base, BaseExperiment
  <2> HIDE DEF vs, b
  <2>6. 1 \in DOMAIN experiments
    <3>1. b = 0 => Len(vs) # 0
      <4>1. vs \in Seq(SetOf(vs))
        BY IntakeAssumption DEF GInv, vs
      <4> QED BY <2>2, <4>1
    <3> QED BY <2>1, <3>1
  <2>7. ASSUME NEW i \in DOMAIN experiments, NEW j \in DOMAIN experiments,
               experiments[i].name = experiments[j].name
        PROVE  i = j
    <3>1. CASE b = 1 /\ i = 1 /\ j # 1
      BY <2>1, <2>5, <2>7, <3>1
    <3>2. CASE b = 1 /\ j = 1 /\ i # 1
      BY <2>1, <2>5, <2>7, <3>2
    <3>3. CASE ~(b = 1 /\ (i = 1 \/ j = 1))
      <4>1. PICK k \in DOMAIN vs, l \in DOMAIN vs : i = b + k /\ j = b + l
        BY <2>1, <2>7, <3>3
      <4> QED BY <2>1, <2>4, <2>7, <4>1
    <3> QED BY <3>1, <3>2, <3>3
  <2> QED BY <2>6, <2>7
<1> QED BY <1>1, GInvariant, PTL

(* Where the base experiment is generated, every experiment has as many    *)
(* arguments as it expects: the checks of base and variation, and of one   *)
(* against the other, leave out no combination of what the variation       *)
(* overrides (controller/src/parse.rs:864-905, 998-1020).                  *)
THEOREM AsManyAsExpected == Spec => []BaseArgumentsAsExpected
<1>1. GInv => BaseArgumentsAsExpected
  <2> SUFFICES ASSUME GInv, Accepted, ~experiment_config.variations_only, NEW e \in Generated
               PROVE  AsExpected(e)
    BY DEF BaseArgumentsAsExpected
  <2> DEFINE x == experiment_config
  <2>1. /\ ArgumentsCheck(x.expected, x.arguments)
        /\ \A i \in DOMAIN x.variations :
             /\ ArgumentsCheck(x.variations[i].expected, x.variations[i].arguments)
             /\ CrossCheck(x, x.variations[i])
    BY DEF GInv, Accepted, Generating, Validated, ValidExperimentConfig, ValidBase, ValidVariation
  <2>2. Base.expected = x.expected /\ Base.arguments = Default(x.arguments, 0)
    BY DEF Base, BaseExperiment
  <2>3. AsExpected(Base)
    BY <2>1, <2>2 DEF AsExpected, ArgumentsCheck, ArgumentsCheckLax, Default
  <2>4. ASSUME NEW i \in DOMAIN x.variations PROVE AsExpected(Varied(i))
    <3> DEFINE v == x.variations[i]
    <3>1. /\ Varied(i).expected = Default(v.expected, x.expected)
          /\ Varied(i).arguments = Default(v.arguments, Default(x.arguments, 0))
      BY <2>2, VariedIs
    <3>2. ArgumentsCheck(v.expected, v.arguments) /\ CrossCheck(x, v)
      BY <2>1, <2>4
    <3> HIDE DEF v, x
    <3> QED BY <2>1, <3>1, <3>2 DEF AsExpected, ArgumentsCheck, ArgumentsCheckLax, CrossCheck, Default
  <2> QED BY <2>3, <2>4, EachIs
<1> QED BY <1>1, GInvariant, PTL

(* A list of hosts that passes hosts_check resolves to some address.       *)
LEMMA HostsResolve ==
  ASSUME NEW hosts, hosts # {}, HostsCheck(config, hosts)
  PROVE  MapHosts(config, hosts) # {}
<1>1. PICK n \in hosts : n \in HostNames(config) \cup {Localhost}
  BY DEF HostsCheck
<1>2. CASE n = Localhost
  BY <1>1, <1>2 DEF MapHosts
<1>3. CASE n \in HostNames(config)
  BY <1>1, <1>3 DEF MapHosts, HostNames
<1> QED BY <1>1, <1>2, <1>3

(* Nor is a list of an exporter empty.                                     *)
LEMMA ExportersResolve ==
  ASSUME Validated, NEW exporters, NEW exporter \in MapExporters(config, exporters)
  PROVE  exporter.hosts # {}
<1>1. PICK i \in DOMAIN config.exporters : exporter.hosts = MapHosts(config, config.exporters[i].hosts)
  BY DEF MapExporters
<1>2. config.exporters[i].hosts # {} /\ HostsCheck(config, config.exporters[i].hosts)
  BY DEF Validated, ValidConfig
<1> QED BY <1>1, <1>2, HostsResolve

(* No list of hosts in an experiment is empty.                             *)
LEMMA ListsResolve ==
  ASSUME Validated
  PROVE  /\ \A hosts \in HostLists(Base) \cup {Base.execute.hosts} : hosts # {}
         /\ \A i \in DOMAIN experiment_config.variations :
              \A hosts \in HostLists(Varied(i)) : hosts # {}
<1> DEFINE x == experiment_config
<1>1. /\ Base.hosts = MapHosts(config, x.hosts) /\ Base.execute.hosts = MapHosts(config, x.hosts)
      /\ Base.exporters = MapExporters(config, x.exporters)
      /\ \A stg \in Base.stages : \E s \in StagesOf(x) : stg.hosts = MapHosts(config, s.hosts)
  BY DEF Base, BaseExperiment, Mapped, StagesOf
<1>2. /\ x.hosts # {} /\ HostsCheck(config, x.hosts)
      /\ \A s \in StagesOf(x) : s.hosts # {} /\ HostsCheck(config, s.hosts)
      /\ \A i \in DOMAIN x.variations : HostsCheck(config, x.variations[i].hosts)
  BY DEF Validated, ValidExperimentConfig, ValidBase, ValidRemoteExecution, ValidVariation
<1>3. MapHosts(config, x.hosts) # {}
  BY <1>2, HostsResolve
<1>4. \A s \in Base.stages : s.hosts # {}
  BY <1>1, <1>2, HostsResolve
<1>5. \A exporter \in Base.exporters : exporter.hosts # {}
  BY <1>1, ExportersResolve
<1>6. \A hosts \in HostLists(Base) \cup {Base.execute.hosts} : hosts # {}
  BY <1>1, <1>3, <1>4, <1>5 DEF HostLists
<1>7. ASSUME NEW i \in DOMAIN x.variations, NEW hosts \in HostLists(Varied(i))
      PROVE  hosts # {}
  <2> DEFINE v == x.variations[i]
  <2>1. /\ Varied(i).hosts = IF v.hosts = {} THEN Base.hosts ELSE MapHosts(config, v.hosts)
        /\ Varied(i).exporters = IF v.exporters = {} THEN Base.exporters
                                                     ELSE MapExporters(config, v.exporters)
        /\ Varied(i).stages = Base.stages
    BY VariedIs
  <2>2. Varied(i).hosts # {}
    BY <1>1, <1>2, <1>3, <2>1, HostsResolve
  <2>3. \A exporter \in Varied(i).exporters : exporter.hosts # {}
    BY <1>5, <2>1, ExportersResolve
  <2> QED BY <1>4, <2>1, <2>2, <2>3 DEF HostLists
<1> QED BY <1>6, <1>7

(* Every list is among the hosts that are connected to.                    *)
LEMMA ListsConnected ==
  ASSUME GInv, sessions = UniqueHosts(experiments), NEW e \in Generated, NEW hosts \in HostLists(e)
  PROVE  hosts \subseteq sessions
<1>1. HostsOf(e) \subseteq sessions
  BY DEF UniqueHosts, Generated
<1>2. hosts \subseteq HostsOf(e)
  BY DEF HostLists, HostsOf
<1> QED BY <1>1, <1>2

(* The experiment that has the hosts of the base, if there is one.         *)
LEMMA BaseHostsGenerated ==
  ASSUME GInv, Accepted, ~OnlyOwnHosts(experiment_config)
  PROVE  \E e \in Generated : Base.execute.hosts = e.hosts
<1>1. Base.execute.hosts = Base.hosts
  BY DEF Base, BaseExperiment
<1>2. /\ experiments = GenerateExperiments(config, experiment_config)
      /\ experiment_config \in ExperimentConfigs
  BY DEF GInv, Accepted, Generating
<1>3. CASE ~experiment_config.variations_only
  <2>1. Base \in Generated
    BY <1>2, <1>3, GeneratedAre DEF Generated
  <2> QED BY <1>1, <2>1
<1>4. CASE experiment_config.variations_only
  <2>1. PICK i \in DOMAIN experiment_config.variations : experiment_config.variations[i].hosts = {}
    BY <1>4 DEF OnlyOwnHosts
  <2>2. Varied(i) \in Generated
    BY <1>2, <1>4, GeneratedAre DEF Generated
  <2>3. Varied(i).hosts = Base.hosts
    BY <2>1, VariedIs
  <2> QED BY <1>1, <2>2, <2>3
<1> QED BY <1>3, <1>4

(* For any configurations, every list of hosts of an exporter, a stage or  *)
(* an experiment resolves to hosts that main_loop connects to, and so does *)
(* that of execute unless every experiment of the request is a variation   *)
(* with hosts of its own (hosts_check, map_hosts, Experiment::hosts;       *)
(* controller/src/parse.rs:1046-1063, 1967-1985, 1473-1492): only then can *)
(* a command be left to the controller's own host.                         *)
THEOREM HostsConnected == Spec => []EveryHostConnected
<1>1. GInv => EveryHostConnected
  <2> SUFFICES ASSUME GInv, stage \in {"connected", "running", "aborted"}, NEW e \in Generated,
                      NEW hosts \in HostLists(e) \cup
                            (IF OnlyOwnHosts(experiment_config) THEN {} ELSE {e.execute.hosts})
               PROVE  hosts # {} /\ hosts \subseteq sessions
    BY DEF EveryHostConnected
  <2>1. Accepted /\ Validated /\ sessions = UniqueHosts(experiments)
    BY DEF GInv, Accepted, Generating
  <2>2. \A d \in Generated : \A l \in HostLists(d) : l # {} /\ l \subseteq sessions
    BY <2>1, EachIs, ListsResolve, ListsConnected
  <2>3. CASE ~OnlyOwnHosts(experiment_config) /\ hosts = e.execute.hosts
    <3>1. e.execute = Base.execute
      BY <2>1, EachIs, VariedIs
    <3>2. PICK d \in Generated : Base.execute.hosts = d.hosts
      BY <2>1, <2>3, BaseHostsGenerated
    <3>3. hosts \in HostLists(d)
      BY <2>3, <3>1, <3>2 DEF HostLists
    <3> QED BY <2>2, <3>3
  <2> QED BY <2>2, <2>3
<1> QED BY <1>1, GInvariant, PTL

(* Where some experiment of each request has the hosts of the base, the    *)
(* runner has a session to every host of every script it executes: the one *)
(* run that shows otherwise needs variations_only and own hosts throughout *)
(* (Experiment::hosts, controller/src/parse.rs:1472-1492, 1614-1638).      *)
THEOREM ConnectedUnlessAllOwn ==
  ASSUME \A x \in ExperimentConfigs : ~OnlyOwnHosts(x)
  PROVE  Spec => []ExecuteConnected
<1>1. GInv /\ EveryHostConnected => ExecuteConnected
  BY DEF GInv, EveryHostConnected, ExecuteConnected
<1> QED BY <1>1, GInvariant, HostsConnected, PTL

(* For any configurations the upload misses a file only if a stage's       *)
(* script was looked up under the file_type of another list than its own,  *)
(* and the handler panics only if a stage has no file_type at all: all     *)
(* else that Experiment::files returns was looked up by validate_files,    *)
(* and the storage directory only grows (controller/src/parse.rs:790-810,  *)
(* 1333-1390, 1504-1529).                                                  *)
THEOREM NeverMissed == Spec => []UploadNeverMisses
<1>1. GInv => UploadNeverMisses
  BY DEF GInv
<1> QED BY <1>1, GInvariant, PTL

(* Where the script of an experiment runs: always on the hosts of the      *)
(* base, whatever hosts the variation names, and only a variation that     *)
(* does name hosts differs in it from what its description says.           *)
ExecutesAtBase ==
  Accepted => \A e \in Generated :
    /\ e.execute.hosts = MapHosts(config, experiment_config.hosts)
    /\ e.hosts # e.execute.hosts =>
         \E i \in DOMAIN experiment_config.variations :
           /\ experiment_config.variations[i].hosts # {}
           /\ e.name = <<experiment_config.name, experiment_config.variations[i].name>>

(* For any configurations a variation's own hosts are connected to and get *)
(* its links, but never its script (the conversion of a variation to an    *)
(* Experiment, controller/src/parse.rs:1614-1638, although a variation is  *)
(* meant for "changing the hosts which the experiment runs on", 611-613):  *)
(* with ConnectedUnlessAllOwn, all there is to the loss of                 *)
(* ExecuteConnected.                                                       *)
THEOREM OwnHostsIgnored == Spec => []ExecutesAtBase
<1>1. GInv => ExecutesAtBase
  <2> SUFFICES ASSUME GInv, Accepted, NEW e \in Generated
               PROVE  /\ e.execute.hosts = MapHosts(config, experiment_config.hosts)
                      /\ e.hosts # e.execute.hosts =>
                           \E i \in DOMAIN experiment_config.variations :
                             /\ experiment_config.variations[i].hosts # {}
                             /\ e.name = <<experiment_config.name, experiment_config.variations[i].name>>
    BY DEF ExecutesAtBase
  <2>1. /\ Base.execute.hosts = MapHosts(config, experiment_config.hosts)
        /\ Base.hosts = Base.execute.hosts
    BY DEF Base, BaseExperiment
  <2>2. CASE e = Base
    BY <2>1, <2>2
  <2>3. CASE \E i \in DOMAIN experiment_config.variations : e = Varied(i)
    BY <2>1, <2>3, VariedIs
  <2> QED BY <2>2, <2>3, EachIs
<1> QED BY <1>1, GInvariant, PTL

=============================================================================
