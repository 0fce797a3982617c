---------------------------- MODULE MCExporters ----------------------------
(* Small instances of Exporters for TLC.                                   *)
EXTENDS Exporters

CONSTANTS cpu, power, h1, here

On(e, hosts) == [name |-> e, hosts |-> hosts]

(* One exporter on a remote host and on the controller's own host, then on *)
(* the remote host together with another one, then alone.                  *)
MixedPlan == <<<<On(cpu, {h1, here})>>,
               <<On(cpu, {h1}), On(power, {h1})>>,
               <<On(cpu, {h1})>>>>

(* The same exporter on one host in every round.                           *)
SamePlan  == [n \in 1 .. Rounds |-> <<On(cpu, {h1})>>]
LocalPlan == [n \in 1 .. Rounds |-> <<On(cpu, {here})>>]
=============================================================================
