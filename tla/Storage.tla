------------------------------ MODULE Storage ------------------------------
(***************************************************************************)
(* The storage directory of the controller and those who fill it: the CLI  *)
(* with --upload (cli/src/main.rs) and the POST /upload handlers           *)
(* (controller/src/routes.rs).                                             *)
(*                                                                         *)
(* Concurrent processes: the users' CLIs, which send one file after the    *)
(* other and give up on an answer after a while, and one handler for each  *)
(* request.  A handler awaits only while it receives the form; from there  *)
(* on it blocks its thread, so that a client that leaves cannot stop it,   *)
(* but handlers of other requests and the runner see every one of its      *)
(* steps on the disk.                                                      *)
(*                                                                         *)
(* The content of a file is the set of uploads written to it since it was  *)
(* last truncated: {} is an empty or partial file, {u} the whole file that *)
(* u carried, anything else a mixture.                                     *)
(***************************************************************************)
EXTENDS Naturals, Sequences

CONSTANTS
  Clients,       \* users of the CLI
  Names,         \* base names of files
  Words,         \* Words[n] : the words of TypeWords that occur in n
  ShellScripts,  \* names that end in ".sh"
  Blobs,         \* Blobs[c] : what c's --upload lists, [name, type] each
  Posts,         \* Posts[c] : bound on the POST /upload requests of c
  Before,        \* an upload of long ago
  EarlierFiles,  \* the sets of files such uploads may have left
  None

TypeWords == <<"setup", "teardown", "dependency", "exporter">>

FileTypes == {TypeWords[i] : i \in DOMAIN TypeWords} \cup {"execute"}

Uploads == UNION {{c} \X (1 .. Posts[c]) : c \in Clients}

Contents == [writers : SUBSET (Uploads \cup {Before}), executable : BOOLEAN]

ASSUME StorageAssumption ==
  /\ Posts \in [Clients -> Nat]
  /\ Words \in [Names -> SUBSET FileTypes]
  /\ ShellScripts \subseteq Names
  /\ Blobs \in [Clients -> Seq([name : Names, type : FileTypes \cup {None}])]
  /\ EarlierFiles \subseteq SUBSET (FileTypes \X Names)
  /\ Before \notin Uploads
  /\ None \notin Uploads \cup {Before} \cup FileTypes \cup Names \cup Contents

(* Two components below the storage directory, in the order in which the   *)
(* form has them.                                                          *)
Paths == (FileTypes \X Names) \cup (Names \X FileTypes)

VARIABLES
  disk,      \* disk[p] : what is at path p, None if nothing
  handler,   \* the POST /upload handlers
  cli,       \* what each user's CLI is at
  next,      \* the blob it sends next or has sent last
  posted,    \* how many requests it has sent
  settled    \* history: the last upload to each path, if its client was answered
             \* and no handler of another upload was still at that path when its
             \* own opened the file

storage == <<disk, handler, cli, next, posted, settled>>

-----------------------------------------------------------------------------
Live == {"receiving", "opened", "written"}

(* Is the handler of u still going to change the file at p?                *)
Busy(u, p) == handler[u].pc \in Live /\ handler[u].path = p

Current(c) == <<c, posted[c]>>

NoHandler == [pc |-> "none", path |-> None, alone |-> FALSE]

StorageInit ==
  /\ \E earlier \in EarlierFiles :
       disk = [p \in Paths |->
                 IF p \in earlier
                   THEN [writers |-> {Before}, executable |-> p[2] \in ShellScripts]
                   ELSE None]
  /\ handler = [u \in Uploads |-> NoHandler]
  /\ cli = [c \in Clients |-> "idle"]
  /\ next = [c \in Clients |-> 0]
  /\ posted = [c \in Clients |-> 0]
  /\ settled = [p \in Paths |-> None]

-----------------------------------------------------------------------------
(* What a path and a form are made of.                                     *)

(* FileType::try_from: the first of the words that the name contains.      *)
Inferred(n) ==
  LET found == {i \in DOMAIN TypeWords : TypeWords[i] \in Words[n]}
  IN IF found = {} THEN "execute"
     ELSE TypeWords[CHOOSE i \in found : \A j \in found : i <= j]

(* parse_upload                                                            *)
TypeOf(blob) == IF blob.type = None THEN Inferred(blob.name) ELSE blob.type

(* A fault that a change could bring in, for Form: .file(..).text(..); not *)
(* part of the specification.                                              *)
FormFileFirst(blob) == <<[field |-> "file", value |-> blob.name],
                         [field |-> "type", value |-> TypeOf(blob)]>>

(* The fields of the multipart form, in the order in which they are sent.  *)
Form(blob) == <<[field |-> "type", value |-> TypeOf(blob)],
                [field |-> "file", value |-> blob.name]>>

(* The handler pushes each field onto the path as it arrives.              *)
Target(form) == [i \in DOMAIN form |-> form[i].value]

-----------------------------------------------------------------------------
(* Faults a change to the code could bring in.  None is part of the        *)
(* specification: each stands in for the definition named after "for", to  *)
(* see that a property notices.                                            *)

(* for Drop: tokio::fs::write, a point where the future may be dropped     *)
DropAnywhere(u) ==
  /\ handler[u].pc \in {"receiving", "opened"}
  /\ ~(cli[u[1]] = "waiting" /\ Current(u[1]) = u)
  /\ handler' = [handler EXCEPT ![u].pc = "dropped"]
  /\ UNCHANGED <<disk, cli, next, posted, settled>>

(* for Responded: the handler answers before it has written the file       *)
RespondedEarly(c) ==
  LET u == Current(c)
      p == handler[u].path
  IN /\ cli[c] = "waiting" /\ handler[u].pc \in {"opened", "written", "saved"}
     /\ settled' = [settled EXCEPT ![p] = IF handler[u].alone THEN u ELSE @]
     /\ IF next[c] < Len(Blobs[c])
          THEN cli' = [cli EXCEPT ![c] = "sending"] /\ next' = [next EXCEPT ![c] = @ + 1]
          ELSE cli' = [cli EXCEPT ![c] = "uploaded"] /\ UNCHANGED next
     /\ UNCHANGED <<disk, handler, posted>>

-----------------------------------------------------------------------------
(* The CLI.                                                                *)

(* A user runs the CLI with --upload, again perhaps after an error.        *)
Invoke(c) ==
  /\ cli[c] \in {"idle", "uploaded", "failed"} /\ Blobs[c] # <<>>
  /\ posted[c] < Posts[c]
  /\ cli' = [cli EXCEPT ![c] = "sending"]
  /\ next' = [next EXCEPT ![c] = 1]
  /\ UNCHANGED <<disk, handler, posted, settled>>

Send(c) ==
  LET p == Target(Form(Blobs[c][next[c]]))
      u == <<c, posted[c] + 1>>
  IN /\ cli[c] = "sending" /\ posted[c] < Posts[c]
     /\ cli' = [cli EXCEPT ![c] = "waiting"]
     /\ posted' = [posted EXCEPT ![c] = @ + 1]
     /\ handler' = [v \in Uploads |->
                      IF v = u THEN [pc |-> "receiving", path |-> p, alone |-> FALSE]
                      ELSE IF handler[v].path = p THEN [handler[v] EXCEPT !.alone = FALSE]
                      ELSE handler[v]]
     /\ settled' = [settled EXCEPT ![p] = None]
     /\ UNCHANGED <<disk, next>>

(* Any answer will do: its status is printed and not looked at.            *)
Responded(c) ==
  LET u == Current(c)
      p == handler[u].path
  IN /\ cli[c] = "waiting" /\ handler[u].pc = "saved"
     /\ settled' = [settled EXCEPT ![p] = IF handler[u].alone THEN u ELSE @]
     /\ IF next[c] < Len(Blobs[c])
          THEN cli' = [cli EXCEPT ![c] = "sending"] /\ next' = [next EXCEPT ![c] = @ + 1]
          ELSE cli' = [cli EXCEPT ![c] = "uploaded"] /\ UNCHANGED next
     /\ UNCHANGED <<disk, handler, posted>>

(* The connection is closed when a handler panics, and given up after a    *)
(* timeout: send returns an error, and what is left is not sent.           *)
GiveUp(c) ==
  /\ cli[c] = "waiting"
  /\ cli' = [cli EXCEPT ![c] = "failed"]
  /\ UNCHANGED <<disk, handler, next, posted, settled>>

-----------------------------------------------------------------------------
(* POST /upload.                                                           *)

(* The client has left and the handler's future is dropped, which is       *)
(* possible only where it awaits.                                          *)
Drop(u) ==
  /\ handler[u].pc = "receiving"
  /\ ~(cli[u[1]] = "waiting" /\ Current(u[1]) = u)
  /\ handler' = [handler EXCEPT ![u].pc = "dropped"]
  /\ UNCHANGED <<disk, cli, next, posted, settled>>

(* An unwrap or expect fails on a broken or oversized form, or on a        *)
(* directory or file that cannot be opened.                                *)
RefuseForm(u) ==
  /\ handler[u].pc = "receiving"
  /\ handler' = [handler EXCEPT ![u].pc = "refused"]
  /\ UNCHANGED <<disk, cli, next, posted, settled>>

(* create_dir_all, and the first half of fs::write: the file is created or *)
(* truncated; one that was there keeps its mode.                           *)
Truncate(u) ==
  LET p == handler[u].path
  IN /\ handler[u].pc = "receiving"
     /\ handler' = [handler EXCEPT ![u].pc = "opened",
                                   ![u].alone = \A v \in Uploads \ {u} : ~Busy(v, p)]
     /\ disk' = [disk EXCEPT ![p] = [writers |-> {},
                                     executable |-> IF @ = None THEN FALSE ELSE @.executable]]
     /\ UNCHANGED <<cli, next, posted, settled>>

Write(u) ==
  LET p == handler[u].path
  IN /\ handler[u].pc = "opened"
     /\ handler' = [handler EXCEPT ![u].pc = "written"]
     /\ disk' = [disk EXCEPT ![p].writers = @ \cup {u}]
     /\ UNCHANGED <<cli, next, posted, settled>>

(* The disk is full, say: what has been written stays.                     *)
WriteFails(u) ==
  /\ handler[u].pc = "opened"
  /\ handler' = [handler EXCEPT ![u].pc = "broken"]
  /\ UNCHANGED <<disk, cli, next, posted, settled>>

SetPermissions(u) ==
  LET p == handler[u].path
  IN /\ handler[u].pc = "written"
     /\ handler' = [handler EXCEPT ![u].pc = "saved"]
     /\ disk' = [disk EXCEPT ![p].executable = @ \/ p[2] \in ShellScripts]
     /\ UNCHANGED <<cli, next, posted, settled>>

CliStep(c) == Invoke(c) \/ Send(c) \/ Responded(c) \/ GiveUp(c)

HandlerStep(u) ==
  Drop(u) \/ RefuseForm(u) \/ Truncate(u) \/ Write(u) \/ WriteFails(u) \/ SetPermissions(u)

StorageNext ==
  \/ \E c \in Clients : CliStep(c)
  \/ \E u \in Uploads : HandlerStep(u)

StorageSpec == StorageInit /\ [][StorageNext]_storage

-----------------------------------------------------------------------------
(* Properties.                                                             *)

HandlerStates == {"none", "receiving", "opened", "written", "saved",
                  "dropped", "refused", "broken"}

(* Every variable of the storage directory and of the CLIs keeps its type. *)
StorageTypeOK ==
  /\ disk \in [Paths -> Contents \cup {None}]
  /\ handler \in [Uploads -> [pc : HandlerStates, path : Paths \cup {None}, alone : BOOLEAN]]
  /\ cli \in [Clients -> {"idle", "sending", "waiting", "uploaded", "failed"}]
  /\ next \in [Clients -> Nat]
  /\ posted \in [Clients -> Nat] /\ \A c \in Clients : posted[c] <= Posts[c]
  /\ settled \in [Paths -> Uploads \cup {None}]

(* Once a client has its answer, and until anybody uploads to the same     *)
(* path again, the file there is the one it sent, whole, and executable if *)
(* it is a shell script, whatever handlers at the same path have left      *)
(* there before: saved, broken off, refused or dropped, those of a first   *)
(* try that timed out among them (upload, controller/src/routes.rs:96-107; *)
(* upload_data, cli/src/main.rs:208-226).  Handlers that overlap are       *)
(* excluded: where another one was still to change the file when the       *)
(* handler of the client opened it, nothing is said, and OwnUploadStored   *)
(* shows what may be lost.                                                 *)
AnsweredIsStored ==
  \A p \in Paths :
    settled[p] # None =>
      /\ disk[p] # None /\ disk[p].writers = {settled[p]}
      /\ p[2] \in ShellScripts => disk[p].executable

(* The last file that c sent was answered for.                             *)
Answered(c) == cli[c] = "uploaded" \/ (cli[c] = "sending" /\ next[c] > 1)

(* The endpoint stores what it is sent "in a well-known location"          *)
(* (routes.rs:29): the file that its client was answered for last is there *)
(* and not empty, as long as only that client has ever sent one to that    *)
(* path, however often it gave up before and tried again (upload_data,     *)
(* cli/src/main.rs:217-222; upload, routes.rs:98).  That it is the last    *)
(* version is not asked: a retry may well send what the first try did.     *)
OwnUploadStored ==
  \A c \in Clients :
    LET u == Current(c)
        p == handler[u].path
    IN Answered(c) /\ (\A v \in Uploads : handler[v].path = p => v[1] = c)
         => disk[p] # None /\ disk[p].writers # {}

(* A client that leaves never leaves a file behind that is truncated or    *)
(* lacks its mode: when no handler is at a path any more, and no write to  *)
(* it failed, the file there is not empty, and executable if it is a shell *)
(* script (upload, controller/src/routes.rs:92-107).                       *)
NothingLeftHalfWritten ==
  \A p \in Paths :
    disk[p] # None /\ (\A u \in Uploads : handler[u].path = p =>
                                            handler[u].pc \notin {"opened", "written", "broken"})
    => disk[p].writers # {} /\ (p[2] \in ShellScripts => disk[p].executable)

=============================================================================
