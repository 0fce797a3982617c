--------------------------- MODULE Storage_proofs ---------------------------
(***************************************************************************)
(* Theorems about Storage, for any users, files and number of requests:    *)
(* the variables keep their types, an answered upload is stored, and no    *)
(* client that leaves leaves half a file behind.                           *)
(*                                                                         *)
(* AnsweredIsStored is not inductive: it speaks of uploads that have been  *)
(* answered, and what makes it true happens before.  A handler that has    *)
(* been alone at its path since it opened its file finds there what it has *)
(* just done itself (AloneSees), no other live handler shares the path *)
(* with it (Alone), and settled names only such handlers (SettledIsAlone). *)
(*                                                                         *)
(* NothingLeftHalfWritten needs that somebody is to blame for each file    *)
(* that is empty or lacks its mode (EmptyHasCause, ModeHasCause).          *)
(***************************************************************************)
EXTENDS Storage, TLAPS

(* The counters and the states of the CLIs agree.                          *)
InOrder ==
  \A c \in Clients :
    /\ cli[c] = "sending" => next[c] \in DOMAIN Blobs[c]
    /\ cli[c] = "waiting" => next[c] \in DOMAIN Blobs[c] /\ posted[c] >= 1

(* A handler there is has a path, and its request has been sent.           *)
HasPath ==
  \A u \in Uploads :
    handler[u].pc # "none" => handler[u].path \in Paths /\ u[2] <= posted[u[1]]

(* A handler that has opened its file finds one there ever after.          *)
FileMade ==
  \A u \in Uploads :
    handler[u].pc \in {"opened", "written", "saved", "broken"} => disk[handler[u].path] # None

Alone ==
  \A u, v \in Uploads :
    u # v /\ handler[u].alone /\ handler[u].path \in Paths => ~Busy(v, handler[u].path)

(* What the handler of u has left at path p when it has got to pc.         *)
Left(u, pc, p, content) ==
  /\ pc = "opened" => content.writers = {}
  /\ pc \in {"written", "saved"} => content.writers = {u}
  /\ pc = "saved" /\ p[2] \in ShellScripts => content.executable

AloneSees ==
  \A u \in Uploads :
    handler[u].alone /\ handler[u].path \in Paths =>
      Left(u, handler[u].pc, handler[u].path, disk[handler[u].path])

SettledIsAlone ==
  \A p \in Paths :
    settled[p] # None =>
      /\ settled[p] \in Uploads
      /\ handler[settled[p]].path = p /\ handler[settled[p]].pc = "saved"
      /\ handler[settled[p]].alone

EmptyHasCause ==
  \A p \in Paths :
    disk[p] # None /\ disk[p].writers = {} =>
      \E u \in Uploads : handler[u].path = p /\ handler[u].pc \in {"opened", "broken"}

ModeHasCause ==
  \A p \in Paths :
    disk[p] # None /\ p[2] \in ShellScripts /\ ~disk[p].executable =>
      \E u \in Uploads : handler[u].path = p /\ handler[u].pc \in {"opened", "written", "broken"}

IInv ==
  /\ StorageTypeOK
  /\ InOrder /\ HasPath /\ FileMade /\ Alone /\ AloneSees /\ SettledIsAlone
  /\ EmptyHasCause /\ ModeHasCause

-----------------------------------------------------------------------------
(* Uploads, forms and paths.                                               *)

(* Every user has a bound.                                                 *)
LEMMA PostsType == \A c \in Clients : Posts[c] \in Nat
BY StorageAssumption DEF StorageAssumption

(* The number of an upload is within its client's bound.                   *)
LEMMA UploadParts ==
  \A c \in Clients : \A i : <<c, i>> \in Uploads <=> i \in 1 .. Posts[c]
BY DEF Uploads

(* What --upload lists are blobs, one for each number.                     *)
LEMMA BlobType ==
  ASSUME NEW c \in Clients, NEW i \in DOMAIN Blobs[c]
  PROVE  Blobs[c][i] \in [name : Names, type : FileTypes \cup {None}]
<1> DEFINE Blob == [name : Names, type : FileTypes \cup {None}]
<1>1. Blobs[c] \in Seq(Blob)
  BY StorageAssumption DEF StorageAssumption
<1> HIDE DEF Blob
<1>2. Blobs[c][i] \in Blob
  BY <1>1
<1> QED BY <1>2 DEF Blob

(* An upload is a user's, and something.                                   *)
LEMMA UploadsHaveClients ==
  ASSUME NEW u \in Uploads
  PROVE  u[1] \in Clients /\ u # None
BY StorageAssumption DEF Uploads, StorageAssumption

(* The file type of a blob is one of the five.                             *)
LEMMA TypeOfType ==
  ASSUME NEW blob \in [name : Names, type : FileTypes \cup {None}]
  PROVE  TypeOf(blob) \in FileTypes
<1>1. ASSUME NEW n PROVE Inferred(n) \in FileTypes
  <2> DEFINE found == {i \in DOMAIN TypeWords : TypeWords[i] \in Words[n]}
  <2>1. CASE found = {}
    BY <2>1 DEF Inferred, FileTypes
  <2>2. CASE found # {}
    <3>1. DOMAIN TypeWords = 1 .. 4
      BY DEF TypeWords
    <3>2. \E i \in found : \A j \in found : i <= j
      <4>1. \A i \in found : i \in {1, 2, 3, 4}
        BY <3>1
      <4> QED BY <2>2, <4>1
    <3>3. (CHOOSE i \in found : \A j \in found : i <= j) \in DOMAIN TypeWords
      BY <3>2
    <3> QED BY <2>2, <3>3 DEF Inferred, FileTypes
  <2> QED BY <2>1, <2>2
<1> QED BY <1>1 DEF TypeOf

(* A form names a type and then a file.                                    *)
LEMMA TargetType ==
  ASSUME NEW blob \in [name : Names, type : FileTypes \cup {None}]
  PROVE  Target(Form(blob)) \in Paths
<1>1. Target(Form(blob)) = <<TypeOf(blob), blob.name>>
  BY DEF Target, Form
<1>2. TypeOf(blob) \in FileTypes /\ blob.name \in Names
  BY TypeOfType
<1> QED BY <1>1, <1>2 DEF Paths

(* A record is not None.                                                   *)
LEMMA ContentsSomething ==
  ASSUME NEW content \in Contents
  PROVE  content # None
BY StorageAssumption DEF StorageAssumption

(* The inductive invariant holds at first.                                 *)
LEMMA InitInv == StorageInit => IInv
<1> SUFFICES ASSUME StorageInit PROVE IInv
  OBVIOUS
<1>1. PICK earlier \in EarlierFiles :
        disk = [p \in Paths |->
                  IF p \in earlier
                    THEN [writers |-> {Before}, executable |-> p[2] \in ShellScripts]
                    ELSE None]
  BY DEF StorageInit
<1>2. \A p \in Paths :
        disk[p] # None => /\ disk[p] = [writers |-> {Before}, executable |-> p[2] \in ShellScripts]
                          /\ disk[p].writers # {}
                          /\ p[2] \in ShellScripts => disk[p].executable
  BY <1>1
<1>3. \A u \in Uploads : handler[u].pc = "none" /\ handler[u].alone = FALSE /\ handler[u].path = None
  BY DEF StorageInit, NoHandler
<1>4. StorageTypeOK
  <2>1. disk \in [Paths -> Contents \cup {None}]
    <3>1. \A p \in Paths : [writers |-> {Before}, executable |-> p[2] \in ShellScripts] \in Contents
      BY DEF Contents
    <3> QED BY <1>1, <3>1
  <2>2. handler \in [Uploads -> [pc : HandlerStates, path : Paths \cup {None}, alone : BOOLEAN]]
    BY DEF StorageInit, NoHandler, HandlerStates
  <2>3. \A c \in Clients : posted[c] <= Posts[c]
    <3> SUFFICES ASSUME NEW c \in Clients PROVE posted[c] <= Posts[c]
      OBVIOUS
    <3>1. posted[c] = 0
      BY DEF StorageInit
    <3>2. Posts[c] \in Nat
      BY PostsType
    <3>3. 0 <= Posts[c]
      BY <3>2
    <3> QED BY <3>1, <3>3
  <2>4. /\ cli \in [Clients -> {"idle", "sending", "waiting", "uploaded", "failed"}]
        /\ next \in [Clients -> Nat] /\ posted \in [Clients -> Nat]
        /\ settled \in [Paths -> Uploads \cup {None}]
    BY DEF StorageInit
  <2> QED BY <2>1, <2>2, <2>3, <2>4 DEF StorageTypeOK
<1>5. InOrder /\ HasPath /\ FileMade /\ Alone /\ AloneSees /\ SettledIsAlone
  BY <1>3 DEF StorageInit, InOrder, HasPath, FileMade, Alone, AloneSees, SettledIsAlone
<1>6. EmptyHasCause /\ ModeHasCause
  BY <1>2 DEF EmptyHasCause, ModeHasCause
<1> QED BY <1>4, <1>5, <1>6 DEF IInv

-----------------------------------------------------------------------------
(* Steps of the CLI.                                                       *)

(* What the invariant says of the disk and the handlers stands as long as  *)
(* these and settled do.                                                   *)
LEMMA FilesKept ==
  ASSUME IInv, UNCHANGED <<disk, handler, posted, settled>>
  PROVE  /\ HasPath' /\ FileMade' /\ Alone' /\ AloneSees' /\ SettledIsAlone'
         /\ EmptyHasCause' /\ ModeHasCause'
         /\ disk' \in [Paths -> Contents \cup {None}]
         /\ handler' \in [Uploads -> [pc : HandlerStates, path : Paths \cup {None}, alone : BOOLEAN]]
         /\ settled' \in [Paths -> Uploads \cup {None}]
BY DEF IInv, StorageTypeOK, HasPath, FileMade, Alone, Busy, AloneSees, SettledIsAlone,
       Left, EmptyHasCause, ModeHasCause

(* The CLI is started at its first blob.                                   *)
LEMMA InvokeStep ==
  ASSUME IInv, NEW c \in Clients, Invoke(c)
  PROVE  IInv'
<1>1. 1 \in DOMAIN Blobs[c]
  BY StorageAssumption DEF StorageAssumption, Invoke
<1>2. InOrder'
  BY <1>1 DEF Invoke, InOrder, IInv, StorageTypeOK
<1>3. /\ cli' \in [Clients -> {"idle", "sending", "waiting", "uploaded", "failed"}]
      /\ next' \in [Clients -> Nat] /\ posted' = posted
  BY DEF Invoke, IInv, StorageTypeOK
<1> QED BY <1>2, <1>3, FilesKept DEF Invoke, IInv, StorageTypeOK

(* A client that gives up leaves disk and handlers as they are.            *)
LEMMA GiveUpStep ==
  ASSUME IInv, NEW c \in Clients, GiveUp(c)
  PROVE  IInv'
<1>1. InOrder'
  BY DEF GiveUp, InOrder, IInv, StorageTypeOK
<1>2. cli' \in [Clients -> {"idle", "sending", "waiting", "uploaded", "failed"}]
  BY DEF GiveUp, IInv, StorageTypeOK
<1> QED BY <1>1, <1>2, FilesKept DEF GiveUp, IInv, StorageTypeOK

(* Where the CLI waits, its current request is an upload with a path.      *)
LEMMA CurrentUpload ==
  ASSUME IInv, NEW c \in Clients, cli[c] = "waiting"
  PROVE  Current(c) \in Uploads
<1>1. posted[c] \in 1 .. Posts[c]
  BY PostsType DEF IInv, StorageTypeOK, InOrder
<1> QED BY <1>1, UploadParts DEF Current

(* Only a handler that was alone settles a path.                           *)
LEMMA RespondedStep ==
  ASSUME IInv, NEW c \in Clients, Responded(c)
  PROVE  IInv'
<1> DEFINE u == Current(c)
           p == handler[u].path
<1>1. /\ u \in Uploads /\ handler[u].pc = "saved" /\ p \in Paths
      /\ settled' = [settled EXCEPT ![p] = IF handler[u].alone THEN u ELSE @]
  BY CurrentUpload DEF Responded, IInv, HasPath
<1>2. settled' \in [Paths -> Uploads \cup {None}] /\ SettledIsAlone'
  <2>1. settled' \in [Paths -> Uploads \cup {None}]
    BY <1>1 DEF IInv, StorageTypeOK
  <2>2. SettledIsAlone'
    <3> SUFFICES ASSUME NEW q \in Paths, settled'[q] # None
                 PROVE  /\ settled'[q] \in Uploads
                        /\ handler[settled'[q]].path = q /\ handler[settled'[q]].pc = "saved"
                        /\ handler[settled'[q]].alone
      BY DEF SettledIsAlone, Responded
    <3>1. settled'[q] = settled[q] \/ (q = p /\ settled'[q] = u /\ handler[u].alone)
      BY <1>1 DEF IInv, StorageTypeOK
    <3> QED BY <1>1, <3>1 DEF IInv, SettledIsAlone
  <2> QED BY <2>1, <2>2
<1>3. /\ cli' \in [Clients -> {"idle", "sending", "waiting", "uploaded", "failed"}]
      /\ next' \in [Clients -> Nat] /\ posted' = posted /\ InOrder'
  <2>1. Blobs[c] \in Seq([name : Names, type : FileTypes \cup {None}])
    BY StorageAssumption DEF StorageAssumption
  <2>2. CASE next[c] < Len(Blobs[c])
    <3>1. /\ cli' = [cli EXCEPT ![c] = "sending"] /\ next' = [next EXCEPT ![c] = @ + 1]
          /\ posted' = posted
      BY <2>2 DEF Responded
    <3>2. next[c] + 1 \in DOMAIN Blobs[c]
      BY <2>1, <2>2 DEF IInv, StorageTypeOK
    <3> QED BY <3>1, <3>2 DEF IInv, StorageTypeOK, InOrder
  <2>3. CASE ~(next[c] < Len(Blobs[c]))
    <3>1. cli' = [cli EXCEPT ![c] = "uploaded"] /\ next' = next /\ posted' = posted
      BY <2>3 DEF Responded
    <3> QED BY <3>1 DEF IInv, StorageTypeOK, InOrder
  <2> QED BY <2>2, <2>3
<1>4. disk' = disk /\ handler' = handler /\ posted' = posted
  BY DEF Responded
<1>5. /\ disk' \in [Paths -> Contents \cup {None}]
      /\ handler' \in [Uploads -> [pc : HandlerStates, path : Paths \cup {None}, alone : BOOLEAN]]
      /\ HasPath' /\ FileMade' /\ Alone' /\ AloneSees' /\ EmptyHasCause' /\ ModeHasCause'
  BY <1>4 DEF IInv, StorageTypeOK, HasPath, FileMade, Alone, Busy, AloneSees, Left, EmptyHasCause, ModeHasCause
<1> QED BY <1>2, <1>3, <1>5 DEF IInv, StorageTypeOK

(* From now on no handler is alone where the new one is.                   *)
LEMMA SendStep ==
  ASSUME IInv, NEW c \in Clients, Send(c)
  PROVE  IInv'
<1> DEFINE p == Target(Form(Blobs[c][next[c]]))
           u == <<c, posted[c] + 1>>
<1>1. p \in Paths
  <2>1. next[c] \in DOMAIN Blobs[c]
    BY DEF Send, IInv, InOrder
  <2> QED BY <2>1, BlobType, TargetType
<1>2. u \in Uploads
  <2>1. posted[c] + 1 \in 1 .. Posts[c]
    BY PostsType DEF Send, IInv, StorageTypeOK
  <2> QED BY <2>1, UploadParts
<1>3. /\ handler' = [v \in Uploads |->
                       IF v = u THEN [pc |-> "receiving", path |-> p, alone |-> FALSE]
                       ELSE IF handler[v].path = p THEN [handler[v] EXCEPT !.alone = FALSE]
                       ELSE handler[v]]
      /\ settled' = [settled EXCEPT ![p] = None]
      /\ cli' = [cli EXCEPT ![c] = "waiting"]
      /\ posted' = [posted EXCEPT ![c] = @ + 1]
      /\ disk' = disk /\ next' = next /\ cli[c] = "sending" /\ posted[c] < Posts[c]
  BY DEF Send
<1>9. handler[u].pc = "none" /\ u[1] = c /\ u[2] = posted[c] + 1
  BY <1>2 DEF IInv, HasPath, StorageTypeOK
<1> HIDE DEF p, u
<1>4. /\ handler'[u].pc = "receiving" /\ handler'[u].path = p
      /\ ~handler'[u].alone
  BY <1>2, <1>3
<1>5. \A v \in Uploads : v # u =>
        /\ handler'[v].pc = handler[v].pc /\ handler'[v].path = handler[v].path
        /\ handler'[v].alone <=> handler[v].alone /\ handler[v].path # p
  BY <1>3 DEF IInv, StorageTypeOK
<1>6. StorageTypeOK'
  <2>1. handler' \in [Uploads -> [pc : HandlerStates, path : Paths \cup {None}, alone : BOOLEAN]]
    <3> SUFFICES ASSUME NEW v \in Uploads
                 PROVE  handler'[v] \in [pc : HandlerStates, path : Paths \cup {None}, alone : BOOLEAN]
      BY <1>3
    <3>1. CASE v = u
      BY <1>1, <1>2, <1>3, <3>1 DEF HandlerStates
    <3>2. CASE v # u
      BY <1>3, <3>2 DEF IInv, StorageTypeOK
    <3> QED BY <3>1, <3>2
  <2>2. posted' \in [Clients -> Nat] /\ \A d \in Clients : posted'[d] <= Posts[d]
    BY <1>3, PostsType DEF IInv, StorageTypeOK
  <2> QED BY <1>1, <1>3, <2>1, <2>2 DEF IInv, StorageTypeOK
<1>7. InOrder'
  BY <1>3 DEF IInv, InOrder, StorageTypeOK
<1>8. HasPath'
  <2> SUFFICES ASSUME NEW v \in Uploads, handler'[v].pc # "none"
               PROVE  handler'[v].path \in Paths /\ v[2] <= posted'[v[1]]
    BY DEF HasPath
  <2>1. CASE v = u
    <3>1. posted'[c] = posted[c] + 1 /\ posted[c] \in Nat
      BY <1>3 DEF IInv, StorageTypeOK
    <3> QED BY <1>1, <1>4, <1>9, <2>1, <3>1
  <2>2. CASE v # u
    <3>1. handler'[v].path \in Paths /\ v[2] <= posted[v[1]]
      BY <1>5, <2>2 DEF IInv, HasPath
    <3>2. v[1] \in Clients /\ v[2] \in Nat
      BY UploadParts, UploadsHaveClients DEF Uploads
    <3>3. posted[v[1]] \in Nat /\ posted'[v[1]] >= posted[v[1]] /\ posted'[v[1]] \in Nat
      BY <1>3, <3>2 DEF IInv, StorageTypeOK
    <3> QED BY <3>1, <3>2, <3>3
  <2> QED BY <2>1, <2>2
<1>10. Alone'
  <2> SUFFICES ASSUME NEW v \in Uploads, NEW w \in Uploads, v # w,
                      handler'[v].alone, handler'[v].path \in Paths
               PROVE  ~Busy(w, handler[v].path)'
    BY DEF Alone
  <2>1. CASE v = u
    BY <1>4, <1>5, <2>1 DEF Busy
  <2>2. CASE w = u
    BY <1>4, <1>5, <2>2 DEF Busy
  <2>3. CASE v # u /\ w # u
    BY <1>5, <2>3 DEF IInv, Alone, Busy
  <2> QED BY <2>1, <2>2, <2>3
<1>11. FileMade' /\ AloneSees'
  BY <1>3, <1>4, <1>5 DEF IInv, FileMade, AloneSees, Left
<1>12. SettledIsAlone'
  <2> SUFFICES ASSUME NEW q \in Paths, settled'[q] # None
               PROVE  /\ settled'[q] \in Uploads
                      /\ handler'[settled'[q]].path = q /\ handler'[settled'[q]].pc = "saved"
                      /\ handler'[settled'[q]].alone
    BY DEF SettledIsAlone
  <2>1. q # p /\ settled'[q] = settled[q]
    BY <1>1, <1>3 DEF IInv, StorageTypeOK
  <2>2. /\ settled[q] \in Uploads /\ settled[q] # u
        /\ handler[settled[q]].path = q /\ handler[settled[q]].pc = "saved"
        /\ handler[settled[q]].alone
    BY <1>9, <2>1 DEF IInv, SettledIsAlone
  <2> QED BY <1>5, <2>1, <2>2
<1>13. EmptyHasCause' /\ ModeHasCause'
  BY <1>3, <1>5, <1>9 DEF IInv, EmptyHasCause, ModeHasCause
<1> QED BY <1>6, <1>7, <1>8, <1>10, <1>11, <1>12, <1>13 DEF IInv
-----------------------------------------------------------------------------
(* Steps of the handlers.                                                  *)

(* A handler that moves on stays at its path, and what is true of paths    *)
(* and of those that are alone stays true: it was live before.             *)
LEMMA HandlerMoves ==
  ASSUME IInv, NEW u \in Uploads, handler[u].pc \in Live,
         NEW s \in HandlerStates, s # "none",
         NEW alone \in BOOLEAN,
         alone => handler[u].alone \/ \A v \in Uploads \ {u} : ~Busy(v, handler[u].path),
         handler' = [handler EXCEPT ![u].pc = s, ![u].alone = alone],
         UNCHANGED <<cli, next, posted, settled>>
  PROVE  /\ handler[u].path \in Paths
         /\ handler'[u].pc = s /\ handler'[u].alone = alone
         /\ \A v \in Uploads : v # u => handler'[v] = handler[v]
         /\ \A v \in Uploads : handler'[v].path = handler[v].path
         /\ \A v \in Uploads : v # u /\ handler[v].alone => handler[v].path # handler[u].path
         /\ handler' \in [Uploads -> [pc : HandlerStates, path : Paths \cup {None}, alone : BOOLEAN]]
         /\ InOrder' /\ HasPath' /\ Alone' /\ SettledIsAlone'
<1>1. handler[u].path \in Paths /\ handler[u].pc # "none" /\ handler[u].pc # "saved"
  BY DEF IInv, HasPath, Live
<1>2. /\ handler'[u].pc = s /\ handler'[u].alone = alone
      /\ \A v \in Uploads : v # u => handler'[v] = handler[v]
      /\ \A v \in Uploads : handler'[v].path = handler[v].path
  BY DEF IInv, StorageTypeOK
<1>3. \A v \in Uploads : v # u /\ handler[v].alone => handler[v].path # handler[u].path
  BY <1>1 DEF IInv, Alone, Busy
<1>4. handler' \in [Uploads -> [pc : HandlerStates, path : Paths \cup {None}, alone : BOOLEAN]]
  <2> SUFFICES ASSUME NEW v \in Uploads
               PROVE  handler'[v] \in [pc : HandlerStates, path : Paths \cup {None}, alone : BOOLEAN]
    BY DEF IInv, StorageTypeOK
  <2> QED BY DEF IInv, StorageTypeOK
<1>5. InOrder'
  BY DEF IInv, InOrder
<1>6. HasPath'
  BY <1>1, <1>2 DEF IInv, HasPath
<1>7. Alone'
  <2> SUFFICES ASSUME NEW v \in Uploads, NEW w \in Uploads, v # w,
                      handler'[v].alone, handler'[v].path \in Paths
               PROVE  ~(handler'[w].pc \in Live /\ handler'[w].path = handler'[v].path)
    BY DEF Alone, Busy
  <2>0. /\ handler'[v].path = handler[v].path /\ handler'[w].path = handler[w].path
        /\ handler[v].path \in Paths
    BY <1>2
  <2>1. CASE v = u
    <3>1. ~(handler[w].pc \in Live /\ handler[w].path = handler[v].path)
      BY <1>2, <2>0, <2>1 DEF IInv, Alone, Busy
    <3> QED BY <1>2, <2>0, <2>1, <3>1
  <2>2. CASE v # u /\ w = u
    <3>1. handler[v].alone
      BY <1>2, <2>2
    <3> QED BY <1>3, <2>0, <2>2, <3>1
  <2>3. CASE v # u /\ w # u
    <3>1. handler[v].alone /\ handler'[w].pc = handler[w].pc
      BY <1>2, <2>3
    <3> QED BY <2>0, <3>1 DEF IInv, Alone, Busy
  <2> QED BY <2>1, <2>2, <2>3
<1>8. SettledIsAlone'
  <2> SUFFICES ASSUME NEW q \in Paths, settled[q] # None
               PROVE  /\ settled[q] \in Uploads
                      /\ handler'[settled[q]].path = q /\ handler'[settled[q]].pc = "saved"
                      /\ handler'[settled[q]].alone
    BY DEF SettledIsAlone
  <2>1. /\ settled[q] \in Uploads
        /\ handler[settled[q]].path = q /\ handler[settled[q]].pc = "saved"
        /\ handler[settled[q]].alone
    BY DEF IInv, SettledIsAlone
  <2>2. handler'[settled[q]] = handler[settled[q]]
    BY <1>1, <1>2, <2>1
  <2> QED BY <2>1, <2>2
<1> QED BY <1>1, <1>2, <1>3, <1>4, <1>5, <1>6, <1>7, <1>8

(* Drop, RefuseForm and WriteFails leave the disk alone.                   *)
LEMMA HandlerEnds ==
  ASSUME IInv, NEW u \in Uploads, Drop(u) \/ RefuseForm(u) \/ WriteFails(u)
  PROVE  IInv'
<1>1. PICK s \in {"dropped", "refused", "broken"} :
        /\ (handler[u].pc = "receiving" /\ s # "broken") \/ (handler[u].pc = "opened" /\ s = "broken")
        /\ handler' = [handler EXCEPT ![u].pc = s]
        /\ UNCHANGED <<disk, cli, next, posted, settled>>
  BY DEF Drop, RefuseForm, WriteFails
<1>2. handler[u].pc \in Live /\ s \in HandlerStates /\ s # "none"
  BY <1>1 DEF Live, HandlerStates
<1>3. /\ handler'[u].pc = s /\ \A v \in Uploads : v # u => handler'[v] = handler[v]
      /\ \A v \in Uploads : handler'[v].path = handler[v].path
      /\ handler' \in [Uploads -> [pc : HandlerStates, path : Paths \cup {None}, alone : BOOLEAN]]
      /\ InOrder' /\ HasPath' /\ Alone' /\ SettledIsAlone'
  <2>1. /\ handler[u].alone \in BOOLEAN
        /\ handler' = [handler EXCEPT ![u].pc = s, ![u].alone = handler[u].alone]
    BY <1>1 DEF IInv, StorageTypeOK
  <2> QED BY <1>1, <1>2, <2>1, HandlerMoves
<1>4. StorageTypeOK'
  BY <1>1, <1>3 DEF IInv, StorageTypeOK
<1>5. FileMade' /\ AloneSees'
  <2>1. FileMade'
    BY <1>1, <1>3 DEF IInv, FileMade
  <2>2. AloneSees'
    <3> SUFFICES ASSUME NEW v \in Uploads, handler'[v].alone, handler'[v].path \in Paths
                 PROVE  Left(v, handler'[v].pc, handler'[v].path, disk'[handler'[v].path])
      BY DEF AloneSees, Left
    <3>1. CASE v = u
      BY <1>3, <3>1 DEF Left
    <3>2. CASE v # u
      BY <1>1, <1>3, <3>2 DEF IInv, AloneSees
    <3> QED BY <3>1, <3>2
  <2> QED BY <2>1, <2>2
<1>6. EmptyHasCause' /\ ModeHasCause'
  BY <1>1, <1>3 DEF IInv, EmptyHasCause, ModeHasCause
<1> QED BY <1>3, <1>4, <1>5, <1>6 DEF IInv

(* A handler that changes the file at its path keeps all that concerns     *)
(* others, if it leaves what it should.                                    *)
LEMMA FileChanges ==
  ASSUME IInv, NEW u \in Uploads, handler[u].pc \in Live,
         NEW s \in HandlerStates, s # "none",
         NEW alone \in BOOLEAN,
         alone => handler[u].alone \/ \A v \in Uploads \ {u} : ~Busy(v, handler[u].path),
         handler' = [handler EXCEPT ![u].pc = s, ![u].alone = alone],
         NEW content \in Contents,
         disk' = [disk EXCEPT ![handler[u].path] = content],
         alone => Left(u, s, handler[u].path, content),
         UNCHANGED <<cli, next, posted, settled>>
  PROVE  /\ StorageTypeOK' /\ InOrder' /\ HasPath' /\ FileMade' /\ Alone' /\ AloneSees'
         /\ SettledIsAlone'
         /\ handler[u].path \in Paths
         /\ disk'[handler[u].path] = content
         /\ \A q \in Paths : q # handler[u].path => disk'[q] = disk[q]
         /\ handler'[u].pc = s
         /\ \A v \in Uploads : v # u => handler'[v] = handler[v]
         /\ \A v \in Uploads : handler'[v].path = handler[v].path
<1> DEFINE p == handler[u].path
<1>1. /\ p \in Paths
      /\ handler'[u].pc = s /\ handler'[u].alone = alone
      /\ \A v \in Uploads : v # u => handler'[v] = handler[v]
      /\ \A v \in Uploads : handler'[v].path = handler[v].path
      /\ \A v \in Uploads : v # u /\ handler[v].alone => handler[v].path # p
      /\ handler' \in [Uploads -> [pc : HandlerStates, path : Paths \cup {None}, alone : BOOLEAN]]
      /\ InOrder' /\ HasPath' /\ Alone' /\ SettledIsAlone'
  BY HandlerMoves
<1>2. /\ disk' \in [Paths -> Contents \cup {None}]
      /\ disk'[p] = content /\ content # None
      /\ \A q \in Paths : q # p => disk'[q] = disk[q]
  BY <1>1, ContentsSomething DEF IInv, StorageTypeOK
<1>3. StorageTypeOK'
  BY <1>1, <1>2 DEF IInv, StorageTypeOK
<1>5. FileMade'
  BY <1>1, <1>2 DEF IInv, FileMade, HasPath
<1>4. AloneSees'
  <2> SUFFICES ASSUME NEW v \in Uploads, handler'[v].alone, handler'[v].path \in Paths
               PROVE  Left(v, handler'[v].pc, handler'[v].path, disk'[handler'[v].path])
    BY DEF AloneSees, Left
  <2>1. CASE v = u
    BY <1>1, <1>2, <2>1
  <2>2. CASE v # u
    <3>1. disk'[handler[v].path] = disk[handler[v].path] /\ handler'[v] = handler[v]
      BY <1>1, <1>2, <2>2
    <3> QED BY <3>1 DEF IInv, AloneSees
  <2> QED BY <2>1, <2>2
<1> QED BY <1>1, <1>2, <1>3, <1>4, <1>5

(* The file is there, empty, and its handler is the cause.                 *)
LEMMA TruncateStep ==
  ASSUME IInv, NEW u \in Uploads, Truncate(u)
  PROVE  IInv'
<1> DEFINE p == handler[u].path
           content == [writers |-> {}, executable |-> IF disk[p] = None THEN FALSE ELSE disk[p].executable]
           alone == \A v \in Uploads \ {u} : ~Busy(v, p)
<1>1. /\ handler[u].pc = "receiving"
      /\ handler' = [handler EXCEPT ![u].pc = "opened", ![u].alone = alone]
      /\ UNCHANGED <<cli, next, posted, settled>> /\ alone \in BOOLEAN
  BY DEF Truncate
<1>2. handler[u].pc \in Live /\ "opened" \in HandlerStates /\ p \in Paths
  BY <1>1 DEF Live, HandlerStates, IInv, HasPath
<1>3. content \in Contents /\ content.writers = {}
  <2>1. disk[p] # None => disk[p].executable \in BOOLEAN
    BY <1>2 DEF IInv, StorageTypeOK, Contents
  <2>2. (IF disk[p] = None THEN FALSE ELSE disk[p].executable) \in BOOLEAN
    BY <2>1
  <2> QED BY <2>2 DEF Contents
<1>4. disk' = [disk EXCEPT ![p] = content]
  BY <1>2 DEF Truncate, IInv, StorageTypeOK
<1> HIDE DEF content, alone
<1>5. Left(u, "opened", p, content)
  BY <1>3 DEF Left
<1>6. /\ StorageTypeOK' /\ InOrder' /\ HasPath' /\ FileMade' /\ Alone' /\ AloneSees'
      /\ SettledIsAlone'
      /\ \A q \in Paths : q # p => disk'[q] = disk[q]
      /\ handler'[u].pc = "opened"
      /\ \A v \in Uploads : v # u => handler'[v] = handler[v]
      /\ \A v \in Uploads : handler'[v].path = handler[v].path
  <2>1. alone => \A v \in Uploads \ {u} : ~Busy(v, p)
    BY DEF alone
  <2> QED BY <1>1, <1>2, <1>3, <1>4, <1>5, <2>1, FileChanges
<1>7. handler'[u].path = p /\ handler[u].pc = "receiving"
  BY <1>1, <1>6
<1>8. EmptyHasCause'
  BY <1>6, <1>7 DEF IInv, EmptyHasCause
<1>9. ModeHasCause'
  BY <1>6, <1>7 DEF IInv, ModeHasCause
<1> QED BY <1>6, <1>8, <1>9 DEF IInv

(* A handler that is alone writes the whole file.                          *)
LEMMA WriteStep ==
  ASSUME IInv, NEW u \in Uploads, Write(u)
  PROVE  IInv'
<1> DEFINE p == handler[u].path
           content == [disk[p] EXCEPT !.writers = @ \cup {u}]
<1>1. /\ handler[u].pc = "opened"
      /\ handler' = [handler EXCEPT ![u].pc = "written", ![u].alone = handler[u].alone]
      /\ UNCHANGED <<cli, next, posted, settled>> /\ handler[u].alone \in BOOLEAN
  BY DEF Write, IInv, StorageTypeOK
<1>2. handler[u].pc \in Live /\ "written" \in HandlerStates /\ p \in Paths
  BY <1>1 DEF Live, HandlerStates, IInv, HasPath
<1>3. disk' = [disk EXCEPT ![p] = content]
  BY <1>2 DEF Write, IInv, StorageTypeOK
<1>4. /\ disk[p] \in Contents /\ disk[p] # None /\ content \in Contents
      /\ content.writers = disk[p].writers \cup {u} /\ content.executable = disk[p].executable
  BY <1>1, <1>2 DEF IInv, StorageTypeOK, FileMade, Contents
<1> HIDE DEF content
<1>5. handler[u].alone => Left(u, "written", p, content)
  BY <1>1, <1>2, <1>4 DEF IInv, AloneSees, Left
<1>6. /\ StorageTypeOK' /\ InOrder' /\ HasPath' /\ FileMade' /\ Alone' /\ AloneSees'
      /\ SettledIsAlone'
      /\ disk'[p] = content
      /\ \A q \in Paths : q # p => disk'[q] = disk[q]
      /\ handler'[u].pc = "written"
      /\ \A v \in Uploads : v # u => handler'[v] = handler[v]
      /\ \A v \in Uploads : handler'[v].path = handler[v].path
  BY <1>1, <1>2, <1>3, <1>4, <1>5, FileChanges
<1>7. EmptyHasCause'
  <2>1. u \in disk'[p].writers
    BY <1>4, <1>6
  <2> SUFFICES ASSUME NEW q \in Paths, disk'[q] # None, disk'[q].writers = {}
               PROVE  \E v \in Uploads : handler'[v].path = q /\ handler'[v].pc \in {"opened", "broken"}
    BY DEF EmptyHasCause
  <2>2. q # p /\ disk[q] # None /\ disk[q].writers = {}
    BY <1>6, <2>1
  <2>3. PICK v \in Uploads : handler[v].path = q /\ handler[v].pc \in {"opened", "broken"}
    BY <2>2 DEF IInv, EmptyHasCause
  <2> QED BY <1>6, <2>2, <2>3
<1>8. ModeHasCause'
  <2>1. handler'[u].path = p
    BY <1>6
  <2> QED BY <1>4, <1>6, <2>1 DEF IInv, ModeHasCause
<1> QED BY <1>6, <1>7, <1>8 DEF IInv

(* The mode is set, and what was written stays.                            *)
LEMMA SetPermissionsStep ==
  ASSUME IInv, NEW u \in Uploads, SetPermissions(u)
  PROVE  IInv'
<1> DEFINE p == handler[u].path
           content == [disk[p] EXCEPT !.executable = @ \/ p[2] \in ShellScripts]
<1>1. /\ handler[u].pc = "written"
      /\ handler' = [handler EXCEPT ![u].pc = "saved", ![u].alone = handler[u].alone]
      /\ UNCHANGED <<cli, next, posted, settled>> /\ handler[u].alone \in BOOLEAN
  BY DEF SetPermissions, IInv, StorageTypeOK
<1>2. handler[u].pc \in Live /\ "saved" \in HandlerStates /\ p \in Paths
  BY <1>1 DEF Live, HandlerStates, IInv, HasPath
<1>3. disk' = [disk EXCEPT ![p] = content]
  BY <1>2 DEF SetPermissions, IInv, StorageTypeOK
<1>4. /\ disk[p] # None /\ disk[p] \in Contents /\ content \in Contents
      /\ content.writers = disk[p].writers
      /\ p[2] \in ShellScripts => content.executable
  <2>1. disk[p] # None /\ disk[p] \in Contents
    BY <1>1, <1>2 DEF IInv, StorageTypeOK, FileMade
  <2>2. disk[p].executable \in BOOLEAN
    BY <2>1 DEF Contents
  <2> DEFINE executable == disk[p].executable \/ p[2] \in ShellScripts
  <2>3. executable \in BOOLEAN /\ (p[2] \in ShellScripts => executable)
    BY <2>2
  <2>4. content = [disk[p] EXCEPT !.executable = executable]
    OBVIOUS
  <2> HIDE DEF executable, content
  <2> QED BY <2>1, <2>3, <2>4 DEF Contents
<1> HIDE DEF content
<1>5. handler[u].alone => Left(u, "saved", p, content)
  BY <1>1, <1>2, <1>4 DEF IInv, AloneSees, Left
<1>6. /\ StorageTypeOK' /\ InOrder' /\ HasPath' /\ FileMade' /\ Alone' /\ AloneSees'
      /\ SettledIsAlone'
      /\ disk'[p] = content
      /\ \A q \in Paths : q # p => disk'[q] = disk[q]
      /\ \A v \in Uploads : v # u => handler'[v] = handler[v]
      /\ \A v \in Uploads : handler'[v].path = handler[v].path
  BY <1>1, <1>2, <1>3, <1>4, <1>5, FileChanges
<1>7. EmptyHasCause'
  <2> SUFFICES ASSUME NEW q \in Paths, disk'[q] # None, disk'[q].writers = {}
               PROVE  \E v \in Uploads : handler'[v].path = q /\ handler'[v].pc \in {"opened", "broken"}
    BY DEF EmptyHasCause
  <2>1. disk[q] # None /\ disk[q].writers = {}
    BY <1>4, <1>6
  <2>2. PICK v \in Uploads : handler[v].path = q /\ handler[v].pc \in {"opened", "broken"}
    BY <2>1 DEF IInv, EmptyHasCause
  <2> QED BY <1>1, <1>6, <2>2
<1>8. ModeHasCause'
  <2> SUFFICES ASSUME NEW q \in Paths, disk'[q] # None, q[2] \in ShellScripts, ~disk'[q].executable
               PROVE  \E v \in Uploads : /\ handler'[v].path = q
                                        /\ handler'[v].pc \in {"opened", "written", "broken"}
    BY DEF ModeHasCause
  <2>1. q # p /\ disk'[q] = disk[q]
    BY <1>4, <1>6
  <2>2. PICK v \in Uploads : handler[v].path = q /\ handler[v].pc \in {"opened", "written", "broken"}
    BY <2>1 DEF IInv, ModeHasCause
  <2> QED BY <1>6, <2>1, <2>2
<1> QED BY <1>6, <1>7, <1>8 DEF IInv

-----------------------------------------------------------------------------
(* Every step keeps the inductive invariant.                               *)
LEMMA NextInv == IInv /\ [StorageNext]_storage => IInv'
<1> SUFFICES ASSUME IInv, [StorageNext]_storage PROVE IInv'
  OBVIOUS
<1>1. ASSUME NEW c \in Clients, CliStep(c) PROVE IInv'
  BY <1>1, InvokeStep, SendStep, RespondedStep, GiveUpStep DEF CliStep
<1>2. ASSUME NEW u \in Uploads, HandlerStep(u) PROVE IInv'
  BY <1>2, HandlerEnds, TruncateStep, WriteStep, SetPermissionsStep DEF HandlerStep
<1>3. CASE UNCHANGED storage
  <2>1. UNCHANGED <<disk, handler, cli, next, posted, settled>>
    BY <1>3 DEF storage
  <2>2. InOrder'
    BY <2>1 DEF IInv, InOrder
  <2> QED BY <2>1, <2>2, FilesKept DEF IInv, StorageTypeOK
<1> QED BY <1>1, <1>2, <1>3 DEF StorageNext

(* The inductive invariant holds throughout.                               *)
LEMMA StorageInvariant == StorageSpec => []IInv
BY InitInv, NextInv, PTL DEF StorageSpec

-----------------------------------------------------------------------------
(* Files never go away, and the file of every request that a CLI is done   *)
(* with is there.                                                          *)
PathOf(c, i) == Target(Form(Blobs[c][i]))

Delivered ==
  \A c \in Clients :
    /\ cli[c] = "waiting" => /\ handler[Current(c)].pc # "none"
                             /\ handler[Current(c)].path = PathOf(c, next[c])
    /\ cli[c] \in {"sending", "waiting"} =>
         \A i \in DOMAIN Blobs[c] : i < next[c] => disk[PathOf(c, i)] # None
    /\ cli[c] = "uploaded" => \A i \in DOMAIN Blobs[c] : disk[PathOf(c, i)] # None

(* No step takes a file away.                                              *)
LEMMA FilesStay ==
  ASSUME IInv, IInv', StorageNext, NEW p \in Paths, disk[p] # None
  PROVE  disk'[p] # None
<1>1. ASSUME NEW c \in Clients, CliStep(c) PROVE disk' = disk
  BY <1>1 DEF CliStep, Invoke, Send, Responded, GiveUp
<1>2. ASSUME NEW u \in Uploads, HandlerStep(u) PROVE disk'[p] # None
  <2>1. CASE Drop(u) \/ RefuseForm(u) \/ WriteFails(u)
    BY <2>1 DEF Drop, RefuseForm, WriteFails
  <2>2. CASE Truncate(u) \/ Write(u) \/ SetPermissions(u)
    <3>1. PICK s \in {"opened", "written", "saved"} : handler' = [handler EXCEPT ![u].pc = s]
      BY <2>2 DEF Truncate, Write, SetPermissions
    <3>2. handler'[u].pc \in {"opened", "written", "saved"} /\ handler'[u].path = handler[u].path
      BY <3>1 DEF IInv, StorageTypeOK
    <3>3. disk'[handler[u].path] # None
      BY <3>2 DEF IInv, FileMade
    <3>4. p # handler[u].path => disk'[p] = disk[p]
      BY <2>2 DEF Truncate, Write, SetPermissions, IInv, StorageTypeOK
    <3> QED BY <3>3, <3>4
  <2> QED BY <1>2, <2>1, <2>2 DEF HandlerStep
<1> QED BY <1>1, <1>2 DEF StorageNext

(* A request that has been sent keeps its path.                            *)
LEMMA PathStays ==
  ASSUME IInv, StorageNext, NEW u \in Uploads, handler[u].pc # "none"
  PROVE  handler'[u].path = handler[u].path /\ handler'[u].pc # "none"
<1>1. ASSUME NEW c \in Clients, CliStep(c)
      PROVE  handler'[u].path = handler[u].path /\ handler'[u].pc # "none"
  <2>1. CASE Send(c)
    <3>1. posted[c] \in Nat /\ u # <<c, posted[c] + 1>>
      BY DEF IInv, HasPath, StorageTypeOK
    <3> QED BY <2>1, <3>1 DEF Send, IInv, StorageTypeOK
  <2> QED BY <1>1, <2>1 DEF CliStep, Invoke, Responded, GiveUp
<1>2. ASSUME NEW v \in Uploads, HandlerStep(v)
      PROVE  handler'[u].path = handler[u].path /\ handler'[u].pc # "none"
  BY <1>2 DEF HandlerStep, Drop, RefuseForm, Truncate, Write, WriteFails, SetPermissions,
              IInv, StorageTypeOK
<1> QED BY <1>1, <1>2 DEF StorageNext

(* The numbers of the blobs are those up to their count.                   *)
LEMMA BlobNumbers ==
  ASSUME NEW c \in Clients
  PROVE  Len(Blobs[c]) \in Nat /\ DOMAIN Blobs[c] = 1 .. Len(Blobs[c])
BY StorageAssumption DEF StorageAssumption

(* Every step keeps Delivered: a blob was answered for before the next was *)
(* sent.                                                                   *)
LEMMA DeliveredStep ==
  ASSUME IInv, IInv', Delivered, StorageNext
  PROVE  Delivered'
<1>1. ASSUME NEW c \in Clients, NEW i \in DOMAIN Blobs[c], disk[PathOf(c, i)] # None
      PROVE  disk'[PathOf(c, i)] # None
  <2>1. PathOf(c, i) \in Paths
    BY BlobType, TargetType DEF PathOf
  <2> QED BY <1>1, <2>1, FilesStay
<1> SUFFICES ASSUME NEW c \in Clients
             PROVE  /\ cli'[c] = "waiting" => /\ handler'[Current(c)'].pc # "none"
                                              /\ handler'[Current(c)'].path = PathOf(c, next'[c])
                    /\ cli'[c] \in {"sending", "waiting"} =>
                         \A i \in DOMAIN Blobs[c] : i < next'[c] => disk'[PathOf(c, i)] # None
                    /\ cli'[c] = "uploaded" => \A i \in DOMAIN Blobs[c] : disk'[PathOf(c, i)] # None
  BY DEF Delivered, PathOf
<1>2. CASE cli'[c] = cli[c] /\ next'[c] = next[c] /\ posted'[c] = posted[c]
  <2>1. Current(c)' = Current(c)
    BY <1>2 DEF Current
  <2>2. ASSUME cli[c] = "waiting"
        PROVE  /\ handler'[Current(c)].path = handler[Current(c)].path
               /\ handler'[Current(c)].pc # "none"
    <3>1. Current(c) \in Uploads /\ handler[Current(c)].pc # "none"
      BY <2>2, CurrentUpload DEF Delivered
    <3> QED BY <3>1, PathStays
  <2> QED BY <1>1, <1>2, <2>1, <2>2 DEF Delivered
<1>3. CASE Invoke(c)
  <2>1. cli'[c] = "sending" /\ next'[c] = 1
    BY <1>3 DEF Invoke, IInv, StorageTypeOK
  <2>2. \A i \in DOMAIN Blobs[c] : ~(i < 1)
    BY BlobNumbers
  <2> QED BY <2>1, <2>2
<1>4. CASE Send(c)
  <2>1. /\ cli'[c] = "waiting" /\ next'[c] = next[c] /\ cli[c] = "sending"
        /\ posted'[c] = posted[c] + 1
    BY <1>4 DEF Send, IInv, StorageTypeOK
  <2>2. Current(c)' = <<c, posted[c] + 1>> /\ Current(c)' \in Uploads
    <3>1. posted[c] + 1 \in 1 .. Posts[c]
      BY <1>4, PostsType DEF Send, IInv, StorageTypeOK
    <3> QED BY <2>1, <3>1, UploadParts DEF Current
  <2>3. handler'[Current(c)'].path = PathOf(c, next[c]) /\ handler'[Current(c)'].pc # "none"
    BY <1>4, <2>2 DEF Send, PathOf
  <2> QED BY <1>1, <2>1, <2>3 DEF Delivered
<1>5. CASE Responded(c)
  <2>1. cli[c] = "waiting" /\ handler[Current(c)].pc = "saved" /\ Current(c) \in Uploads
    BY <1>5, CurrentUpload DEF Responded
  <2>2. next[c] \in DOMAIN Blobs[c] /\ disk[PathOf(c, next[c])] # None
    BY <2>1 DEF IInv, InOrder, FileMade, Delivered
  <2>3. \A i \in DOMAIN Blobs[c] : i <= next[c] => disk'[PathOf(c, i)] # None
    <3> SUFFICES ASSUME NEW i \in DOMAIN Blobs[c], i <= next[c]
                 PROVE  disk'[PathOf(c, i)] # None
      OBVIOUS
    <3>1. i < next[c] \/ i = next[c]
      BY BlobNumbers, <2>2
    <3> QED BY <1>1, <2>1, <2>2, <3>1 DEF Delivered
  <2>4. CASE next[c] < Len(Blobs[c])
    <3>1. cli'[c] = "sending" /\ next'[c] = next[c] + 1
      BY <1>5, <2>4 DEF Responded, IInv, StorageTypeOK
    <3>2. \A i \in DOMAIN Blobs[c] : i < next[c] + 1 => i <= next[c]
      BY BlobNumbers, <2>2
    <3> QED BY <2>3, <3>1, <3>2
  <2>5. CASE ~(next[c] < Len(Blobs[c]))
    <3>1. cli'[c] = "uploaded"
      BY <1>5, <2>5 DEF Responded, IInv, StorageTypeOK
    <3>2. \A i \in DOMAIN Blobs[c] : i <= next[c]
      BY BlobNumbers, <2>2, <2>5
    <3> QED BY <2>3, <3>1, <3>2
  <2> QED BY <2>4, <2>5
<1>6. CASE GiveUp(c)
  BY <1>6 DEF GiveUp, IInv, StorageTypeOK
<1>7. ASSUME NEW d \in Clients, d # c, CliStep(d)
      PROVE  cli'[c] = cli[c] /\ next'[c] = next[c] /\ posted'[c] = posted[c]
  BY <1>7 DEF CliStep, Invoke, Send, Responded, GiveUp, IInv, StorageTypeOK
<1>8. ASSUME NEW u \in Uploads, HandlerStep(u)
      PROVE  cli'[c] = cli[c] /\ next'[c] = next[c] /\ posted'[c] = posted[c]
  BY <1>8 DEF HandlerStep, Drop, RefuseForm, Truncate, Write, WriteFails, SetPermissions
<1> QED BY <1>2, <1>3, <1>4, <1>5, <1>6, <1>7, <1>8 DEF StorageNext, CliStep

(* What a CLI has been answered for is on the disk, at the path of its     *)
(* form.                                                                   *)
LEMMA Delivery == StorageSpec => []Delivered
<1>1. StorageInit => Delivered
  BY DEF StorageInit, Delivered
<1>2. IInv /\ IInv' /\ Delivered /\ [StorageNext]_storage => Delivered'
  <2>1. IInv /\ IInv' /\ Delivered /\ StorageNext => Delivered'
    BY DeliveredStep
  <2>2. Delivered /\ UNCHANGED storage => Delivered'
    BY DEF Delivered, storage, Current, PathOf
  <2> QED BY <2>1, <2>2
<1> QED BY <1>1, <1>2, StorageInvariant, PTL DEF StorageSpec

-----------------------------------------------------------------------------
(* Every variable of the storage directory keeps its type, for any users,  *)
(* files and numbers of requests (controller/src/routes.rs:71-113,         *)
(* cli/src/main.rs:178-226).                                               *)
THEOREM TypeCorrect == StorageSpec => []StorageTypeOK
<1>1. IInv => StorageTypeOK
  BY DEF IInv
<1> QED BY <1>1, StorageInvariant, PTL

(* What is settled is stored as it was sent.                               *)
LEMMA SettledIsStored == IInv => AnsweredIsStored
BY DEF IInv, SettledIsAlone, AloneSees, FileMade, Left, AnsweredIsStored

(* For any users, files and numbers of requests an answered upload is      *)
(* stored whole until somebody uploads to the same path, provided that its *)
(* handler did not overlap with another one: none was still to change the  *)
(* file when it opened it (controller/src/routes.rs:96-107).               *)
THEOREM Stored == StorageSpec => []AnsweredIsStored
BY SettledIsStored, StorageInvariant, PTL

-----------------------------------------------------------------------------
(* Without the history: who else has opened the file.                      *)

Opened == {"opened", "written", "saved", "broken"}

(* No handler but that of u has opened the file at its path so far.        *)
OnlyOpener(u) ==
  \A v \in Uploads \ {u} : handler[v].path = handler[u].path => handler[v].pc \notin Opened

OpenerSees ==
  \A u \in Uploads :
    handler[u].pc # "none" /\ OnlyOpener(u) =>
      Left(u, handler[u].pc, handler[u].path, disk[handler[u].path])

AnsweredIsSaved ==
  \A c \in Clients : Answered(c) => Current(c) \in Uploads /\ handler[Current(c)].pc = "saved"

(* A handler changes its own file only, and whoever changes it opened it.  *)
LEMMA OpenerSeesStep ==
  ASSUME IInv, OpenerSees, StorageNext
  PROVE  OpenerSees'
<1> SUFFICES ASSUME NEW u \in Uploads, handler'[u].pc # "none", OnlyOpener(u)'
             PROVE  Left(u, handler'[u].pc, handler'[u].path, disk'[handler'[u].path])
  BY DEF OpenerSees, Left
<1>1. CASE UNCHANGED <<disk, handler>>
  BY <1>1 DEF OpenerSees, OnlyOpener
<1>2. ASSUME NEW c \in Clients, Send(c)
      PROVE  Left(u, handler'[u].pc, handler'[u].path, disk'[handler'[u].path])
  <2> DEFINE w == <<c, posted[c] + 1>>
  <2>1. CASE u = w
    BY <1>2, <2>1 DEF Send, Left, IInv, StorageTypeOK
  <2>2. CASE u # w
    <3>1. \A v \in Uploads : v # w => handler'[v].pc = handler[v].pc /\ handler'[v].path = handler[v].path
      BY <1>2 DEF Send, IInv, StorageTypeOK
    <3>2. \A v \in Uploads : v = w => handler[v].pc = "none"
      BY DEF IInv, HasPath, StorageTypeOK
    <3>3. OnlyOpener(u)
      BY <2>2, <3>1, <3>2 DEF OnlyOpener, Opened
    <3> QED BY <1>2, <2>2, <3>1, <3>3 DEF Send, OpenerSees
  <2> QED BY <2>1, <2>2
<1>3. ASSUME NEW w \in Uploads, HandlerStep(w)
      PROVE  Left(u, handler'[u].pc, handler'[u].path, disk'[handler'[u].path])
  <2>1. /\ handler[w].pc # "none" /\ handler[w].path \in Paths
        /\ \A v \in Uploads : handler'[v].path = handler[v].path
        /\ \A v \in Uploads : v # w => handler'[v].pc = handler[v].pc
        /\ \A q \in Paths : q # handler[w].path => disk'[q] = disk[q]
    <3>1. handler[w].pc # "none" /\ handler[w].path \in Paths
      BY <1>3 DEF HandlerStep, Drop, RefuseForm, Truncate, Write, WriteFails, SetPermissions,
                  IInv, HasPath
    <3>2. /\ \A v \in Uploads : handler'[v].path = handler[v].path
          /\ \A v \in Uploads : v # w => handler'[v].pc = handler[v].pc
      BY <1>3 DEF HandlerStep, Drop, RefuseForm, Truncate, Write, WriteFails, SetPermissions,
                  IInv, StorageTypeOK
    <3>3. \A q \in Paths : q # handler[w].path => disk'[q] = disk[q]
      BY <1>3 DEF HandlerStep, Drop, RefuseForm, Truncate, Write, WriteFails, SetPermissions,
                  IInv, StorageTypeOK
    <3> QED BY <3>1, <3>2, <3>3
  <2>2. CASE u = w
    <3>1. OnlyOpener(u)
      BY <2>1, <2>2 DEF OnlyOpener
    <3>2. Left(u, handler[u].pc, handler[u].path, disk[handler[u].path])
      BY <2>1, <2>2, <3>1 DEF OpenerSees
    <3>3. CASE Drop(u) \/ RefuseForm(u) \/ WriteFails(u)
      BY <3>3 DEF Drop, RefuseForm, WriteFails, Left, IInv, StorageTypeOK
    <3>4. CASE Truncate(u)
      BY <2>1, <2>2, <3>4 DEF Truncate, Left, IInv, StorageTypeOK
    <3>5. handler[u].pc \in {"opened", "written"} =>
            disk[handler[u].path] \in Contents /\ disk[handler[u].path] # None
      BY <2>1, <2>2 DEF IInv, StorageTypeOK, FileMade
    <3>6. CASE Write(u)
      BY <2>1, <2>2, <3>2, <3>5, <3>6 DEF Write, Left, IInv, StorageTypeOK, Contents
    <3>7. CASE SetPermissions(u)
      <4>1. LET p == handler[u].path
            IN /\ handler[u].pc = "written" /\ handler'[u].pc = "saved"
               /\ disk'[p].writers = disk[p].writers
               /\ disk'[p].executable = (disk[p].executable \/ p[2] \in ShellScripts)
        BY <2>1, <2>2, <3>5, <3>7 DEF SetPermissions, IInv, StorageTypeOK, Contents
      <4> QED BY <2>1, <3>2, <4>1 DEF Left
    <3> QED BY <1>3, <2>2, <3>3, <3>4, <3>6, <3>7 DEF HandlerStep
  <2>3. CASE u # w /\ handler[w].path # handler[u].path
    <3>1. OnlyOpener(u)
      BY <2>1, <2>3 DEF OnlyOpener
    <3>2. handler[u].pc # "none" /\ handler[u].path \in Paths
      BY <2>1, <2>3 DEF IInv, HasPath
    <3> QED BY <2>1, <2>3, <3>1, <3>2 DEF OpenerSees
  <2>4. CASE u # w /\ handler[w].path = handler[u].path
    <3>1. handler'[w].pc \notin Opened
      BY <2>1, <2>4 DEF OnlyOpener
    <3>2. Drop(w) \/ RefuseForm(w)
      BY <1>3, <3>1 DEF HandlerStep, Truncate, Write, WriteFails, SetPermissions, Opened,
                        IInv, StorageTypeOK
    <3>3. handler[w].pc \notin Opened /\ disk' = disk
      BY <3>2 DEF Drop, RefuseForm, Opened
    <3>4. OnlyOpener(u)
      BY <2>1, <3>3 DEF OnlyOpener
    <3> QED BY <2>1, <2>4, <3>3, <3>4 DEF OpenerSees
  <2> QED BY <2>2, <2>3, <2>4
<1> QED BY <1>1, <1>2, <1>3 DEF StorageNext, CliStep, Invoke, Responded, GiveUp

(* Only a saved upload is answered for, and it stays saved.                *)
LEMMA AnsweredIsSavedStep ==
  ASSUME IInv, AnsweredIsSaved, StorageNext
  PROVE  AnsweredIsSaved'
<1> SUFFICES ASSUME NEW c \in Clients, Answered(c)'
             PROVE  Current(c)' \in Uploads /\ handler'[Current(c)'].pc = "saved"
  BY DEF AnsweredIsSaved
<1>1. CASE Invoke(c) \/ Send(c) \/ GiveUp(c)
  BY <1>1 DEF Invoke, Send, GiveUp, Answered, IInv, StorageTypeOK
<1>2. CASE Responded(c)
  BY <1>2, CurrentUpload DEF Responded, Current
<1>3. ASSUME ~CliStep(c)
      PROVE  Current(c)' \in Uploads /\ handler'[Current(c)'].pc = "saved"
  <2>1. cli'[c] = cli[c] /\ next'[c] = next[c] /\ posted'[c] = posted[c]
    <3>1. ASSUME NEW d \in Clients, d # c, CliStep(d)
          PROVE  cli'[c] = cli[c] /\ next'[c] = next[c] /\ posted'[c] = posted[c]
      BY <3>1 DEF CliStep, Invoke, Send, Responded, GiveUp, IInv, StorageTypeOK
    <3>2. ASSUME NEW u \in Uploads, HandlerStep(u)
          PROVE  cli'[c] = cli[c] /\ next'[c] = next[c] /\ posted'[c] = posted[c]
      BY <3>2 DEF HandlerStep, Drop, RefuseForm, Truncate, Write, WriteFails, SetPermissions
    <3> QED BY <1>3, <3>1, <3>2 DEF StorageNext
  <2>2. Current(c)' = Current(c) /\ Current(c) \in Uploads /\ handler[Current(c)].pc = "saved"
    BY <2>1 DEF Answered, AnsweredIsSaved, Current
  <2>3. \A u \in Uploads : handler[u].pc = "saved" => handler'[u].pc = "saved"
    <3>1. ASSUME NEW d \in Clients, Send(d), NEW u \in Uploads, handler[u].pc = "saved"
          PROVE  handler'[u].pc = "saved"
      <4>1. u # <<d, posted[d] + 1>>
        BY <3>1 DEF IInv, HasPath, StorageTypeOK
      <4> QED BY <3>1, <4>1 DEF Send, IInv, StorageTypeOK
    <3>2. ASSUME NEW v \in Uploads, HandlerStep(v), NEW u \in Uploads, handler[u].pc = "saved"
          PROVE  handler'[u].pc = "saved"
      BY <3>2 DEF HandlerStep, Drop, RefuseForm, Truncate, Write, WriteFails, SetPermissions,
                  IInv, StorageTypeOK
    <3> QED BY <3>1, <3>2 DEF StorageNext, CliStep, Invoke, Responded, GiveUp
  <2> QED BY <2>2, <2>3
<1> QED BY <1>1, <1>2, <1>3 DEF CliStep

(* What is lost of an answered upload, it loses to another handler: as     *)
(* long as no other has opened the file, of the same client or of another  *)
(* one, and whoever else gave up, was refused or is still sending, it is   *)
(* on the disk as it was sent last, whole, and executable if it is a shell *)
(* script (controller/src/routes.rs:96-107, cli/src/main.rs:217-222).      *)
THEOREM StoredUnlessOpenedAgain ==
  StorageSpec => [](\A c \in Clients :
    LET u == Current(c)
        p == handler[u].path
    IN Answered(c) /\ OnlyOpener(u) =>
         /\ disk[p] # None /\ disk[p].writers = {u}
         /\ p[2] \in ShellScripts => disk[p].executable)
<1>1. StorageInit => OpenerSees /\ AnsweredIsSaved
  BY DEF StorageInit, NoHandler, OpenerSees, AnsweredIsSaved, Answered
<1>2. IInv /\ OpenerSees /\ AnsweredIsSaved /\ [StorageNext]_storage
        => OpenerSees' /\ AnsweredIsSaved'
  <2>1. ASSUME UNCHANGED storage, OpenerSees, AnsweredIsSaved PROVE OpenerSees' /\ AnsweredIsSaved'
    <3>1. /\ disk' = disk /\ handler' = handler /\ cli' = cli /\ next' = next
          /\ posted' = posted
      BY <2>1 DEF storage
    <3>2. OpenerSees'
      BY <2>1, <3>1 DEF OpenerSees, OnlyOpener, Left
    <3>3. AnsweredIsSaved'
      BY <2>1, <3>1 DEF AnsweredIsSaved, Answered, Current
    <3> QED BY <3>2, <3>3
  <2> QED BY <2>1, OpenerSeesStep, AnsweredIsSavedStep
<1>3. IInv /\ OpenerSees /\ AnsweredIsSaved =>
        \A c \in Clients :
          LET u == Current(c)
              p == handler[u].path
          IN Answered(c) /\ OnlyOpener(u) =>
               /\ disk[p] # None /\ disk[p].writers = {u}
               /\ p[2] \in ShellScripts => disk[p].executable
  BY DEF IInv, FileMade, OpenerSees, AnsweredIsSaved, Left
<1> QED BY <1>1, <1>2, <1>3, StorageInvariant, PTL DEF StorageSpec

(* When no handler is at a path, the file there is whole and has its mode, *)
(* whichever clients have left (controller/src/routes.rs:92-107).          *)
THEOREM Whole == StorageSpec => []NothingLeftHalfWritten
<1>1. IInv => NothingLeftHalfWritten
  BY DEF IInv, EmptyHasCause, ModeHasCause, NothingLeftHalfWritten
<1> QED BY <1>1, StorageInvariant, PTL

=============================================================================
