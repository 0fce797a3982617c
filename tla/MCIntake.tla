------------------------------ MODULE MCIntake ------------------------------
(* Small instances of Intake for TLC.  The lists of requests hold, for one *)
(* or two variations, every combination of the fields that validation      *)
(* relates to each other, and one bad value of each of the other fields.   *)
EXTENDS Intake

CONSTANTS h1, h2, nohost, a1, a2, cpu, noexporter, x, v1, v2, sh, dep

MCFiles == {<<"execute", sh>>, <<"setup", sh>>, <<"teardown", sh>>, <<"dependency", dep>>}

GoodConfig ==
  [hosts     |-> {[name |-> h1, address |-> a1], [name |-> h2, address |-> a2]},
   exporters |-> <<[name |-> cpu, hosts |-> {h2}, blank |-> FALSE]>>]

BadConfigs ==
  {[GoodConfig EXCEPT !.exporters[1].hosts = {nohost}],
   [GoodConfig EXCEPT !.exporters[1].hosts = {}],
   [GoodConfig EXCEPT !.exporters[1].blank = TRUE],
   [GoodConfig EXCEPT !.hosts = @ \cup {[name |-> nohost, address |-> Localhost]}]}

Setup(hosts) == [file_type |-> "setup", script |-> sh, dependencies |-> {dep},
                 hosts |-> hosts, blank |-> FALSE]
Teardown     == [Setup({h1}) EXCEPT !.file_type = "teardown"]

(* A setup that is looked up as a teardown, one without a file_type that   *)
(* is fine otherwise, without hosts, with an unknown one, blank, or a      *)
(* shell command.                                                          *)
OddSetups ==
  {[Setup({h2}) EXCEPT !.file_type = "teardown"]}
    \cup {[Setup(hosts) EXCEPT !.file_type = None] : hosts \in {{h2}, {}, {nohost}}}
    \cup {[Setup({h2}) EXCEPT !.file_type = None, !.blank = TRUE],
          [Setup({h2}) EXCEPT !.file_type = None, !.script = None]}

SomeVariations ==
  [name : {v1}, blank : {FALSE}, hosts : {{}, {h2}}, expected : {None, 0, 1},
   arguments : {None, 1, 2}, exporters : {{}, {cpu}}]

PlainVariation == [name |-> v1, blank |-> FALSE, hosts |-> {h2}, expected |-> None,
                   arguments |-> None, exporters |-> {}]

BadVariations ==
  {[PlainVariation EXCEPT !.blank = TRUE], [PlainVariation EXCEPT !.hosts = {}],
   [PlainVariation EXCEPT !.hosts = {nohost}], [PlainVariation EXCEPT !.exporters = {noexporter}]}

VariationLists ==
  {<<>>} \cup {<<v>> : v \in SomeVariations \cup BadVariations}
         \cup {<<PlainVariation, [PlainVariation EXCEPT !.name = n]>> : n \in {v1, v2}}

SomeExperimentConfigs ==
  [name : {x}, blank : {FALSE}, runs : {None}, script : {sh}, dependencies : {{dep}},
   hosts : {{h1}}, exporters : {{}},
   setups : {<<Setup({h2})>>}, teardowns : {<<>>}, arguments : {None, 0, 1}, expected : {None, 0, 1},
   variations : VariationLists, variations_only : BOOLEAN]

PlainExperimentConfig ==
  [name |-> x, blank |-> FALSE, runs |-> 2, script |-> sh, dependencies |-> {},
   hosts |-> {h1, Localhost}, exporters |-> {cpu}, setups |-> <<>>,
   teardowns |-> <<Teardown>>, arguments |-> None, expected |-> None, variations |-> <<>>, variations_only |-> FALSE]

OtherExperimentConfigs ==
  {PlainExperimentConfig,
   [PlainExperimentConfig EXCEPT !.blank = TRUE],
   [PlainExperimentConfig EXCEPT !.runs = 0],
   [PlainExperimentConfig EXCEPT !.hosts = {}],
   [PlainExperimentConfig EXCEPT !.hosts = {nohost}],
   [PlainExperimentConfig EXCEPT !.exporters = {noexporter}],
   [PlainExperimentConfig EXCEPT !.setups = <<Setup({nohost})>>],
   [PlainExperimentConfig EXCEPT !.setups = <<Setup({})>>],
   [PlainExperimentConfig EXCEPT !.setups = <<[Setup({h2}) EXCEPT !.script = None]>>]}
    \cup {[PlainExperimentConfig EXCEPT !.setups = <<s>>] : s \in OddSetups}
    \cup {[PlainExperimentConfig EXCEPT !.setups = <<Setup({h2}), s>>] : s \in OddSetups}
    \cup {[PlainExperimentConfig EXCEPT !.teardowns = <<s>>] : s \in OddSetups}

MCConfigs           == {GoodConfig} \cup BadConfigs
MCExperimentConfigs == SomeExperimentConfigs \cup OtherExperimentConfigs
=============================================================================
