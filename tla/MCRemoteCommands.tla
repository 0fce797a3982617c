-------------------------- MODULE MCRemoteCommands --------------------------
(* Small instances of RemoteCommands for TLC.                              *)
EXTENDS RemoteCommands

CONSTANTS h1, h2, here

Script(hosts)  == [source |-> "script", hosts |-> hosts]
Command(hosts) == [source |-> "command", hosts |-> hosts]

(* Two remote hosts and the controller's own, a shell command among the    *)
(* setups, then an attempt whose execute host has no session, then one     *)
(* that meets whatever the two left behind.                                *)
MixedSteps    == <<<<Script({h1, here}), Command({h1}), Script({h1, h2})>>,
                   <<Script({h1}), Script({h2})>>,
                   <<Script({h1}), Script({h1, h2})>>>>
MixedSessions == <<{h1, h2, here}, {h1}, {h1, h2}>>

(* One setup given as a shell command, then the script.                    *)
CommandSteps  == <<<<Command({h1}), Script({h1})>>>>
AllConnected  == [n \in 1 .. Attempts |-> Hosts]
=============================================================================
