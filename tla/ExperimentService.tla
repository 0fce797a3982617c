------------------------- MODULE ExperimentService -------------------------
(***************************************************************************)
(* What the controller promises to somebody who submits experiments, with  *)
(* none of its locks, polls, stages or status fields: accepted requests    *)
(* wait in one line, are served one at a time in the order in which they   *)
(* were accepted, and none is lost, served twice or put aside.             *)
(***************************************************************************)
EXTENDS Integers, Sequences

CONSTANTS Requests,    \* the bodies of POST /run
          NoRequest    \* the service is idle; not one of Requests

VARIABLES pending,     \* accepted and waiting, oldest first
          active,      \* being served, or NoRequest
          served       \* no longer of any concern, whether it worked or not

vars == <<pending, active, served>>

Accepted == {pending[i] : i \in DOMAIN pending} \cup served \cup ({active} \ {NoRequest})

Init == pending = <<>> /\ active = NoRequest /\ served = {}

Accept(r) ==
  /\ r \notin Accepted
  /\ pending' = Append(pending, r)
  /\ UNCHANGED <<active, served>>

Begin ==
  /\ active = NoRequest /\ pending # <<>>
  /\ active' = Head(pending) /\ pending' = Tail(pending)
  /\ UNCHANGED served

End ==
  /\ active # NoRequest
  /\ served' = served \cup {active} /\ active' = NoRequest
  /\ UNCHANGED pending

Next == (\E r \in Requests : Accept(r)) \/ Begin \/ End

SafeSpec == Init /\ [][Next]_vars

(* Every accepted request is served in the end, as long as serving one     *)
(* request takes finite time.                                              *)
Spec == SafeSpec /\ WF_vars(Begin) /\ WF_vars(End)

=============================================================================
