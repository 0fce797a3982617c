---------------------------- MODULE MCWorkspace ----------------------------
(* Small instances of Workspace for TLC.  ann uploads the script of the    *)
(* experiment and its dependency and may try again, bob has a script of    *)
(* the same name; setup and teardown have been uploaded earlier.           *)
EXTENDS Workspace

CONSTANTS ann, bob, work, dep, prep, h1, h2

MCWords == [n \in Names |-> IF n = dep THEN {"dependency"} ELSE {}]

MCBlobs == [c \in Clients |->
              IF c = ann THEN <<[name |-> dep, type |-> None], [name |-> work, type |-> "execute"]>>
                         ELSE <<[name |-> work, type |-> None]>>]

MCPosts == [c \in Clients |-> Len(Blobs[c])]

MCEarlierFiles == {{<<"execute", work>>, <<"setup", prep>>, <<"setup", work>>, <<"teardown", prep>>}}

(* Two variations, and a setup on another host.                            *)
Prepared == [script |-> work, hosts |-> {h1}, dependencies |-> {dep},
             setups |-> <<[script |-> prep, hosts |-> {h2}]>>, teardowns |-> <<>>,
             stage_dependencies |-> {}, others |-> {}, runs |-> 1, experiments |-> 2]

(* Two runs on two hosts, and a teardown.                                  *)
Repeated == [Prepared EXCEPT !.hosts = {h1, h2}, !.setups = <<>>,
                             !.teardowns = <<[script |-> prep, hosts |-> {h1}]>>,
                             !.runs = 2, !.experiments = 1]

(* A setup and a script of one name, and no dependencies of its own.       *)
Clashing == [Prepared EXCEPT !.setups = <<[script |-> work, hosts |-> {h1}]>>,
                             !.dependencies = {}, !.stage_dependencies = {dep},
                             !.experiments = 1]

Single == [Clashing EXCEPT !.setups = <<>>]

ManyFiles == {Prepared, Repeated, Clashing}
OneFile   == {Single}

(* Once the files have been sent, or will not be, nothing of the request   *)
(* depends on the storage directory any more: the states it is in from     *)
(* there on count as one.  What the storage directory does by itself is    *)
(* all there before the request is made.                                   *)
View ==
  IF stage \in {"unsent", "posted", "queued", "sending"}
    THEN vars
    ELSE <<plan, ready, stage, expected, transfer, nodes, loops, results, lost>>
=============================================================================
