------------------------------ MODULE Storage -------------------------------
(***************************************************************************)
(* The life of a download on disk: internal/storage/storage.go, as run in  *)
(* main.go uses it, in processes that are killed, machines that lose       *)
(* power, and restarts over whatever is left.                              *)
(*                                                                         *)
(* The directory has two names, the partial file and the completed one,    *)
(* and a file is known by its inode.  The bytes of a file are abstracted   *)
(* to the set of pieces that are right, once as every process sees them    *)
(* and once as they are on the medium.                                     *)
(***************************************************************************)
EXTENDS Integers, FiniteSets

CONSTANTS
    Pieces,         \* the pieces of the torrent
    Processes,      \* instances of the program that may run at a time
    MaxPartials     \* bound: partial files ever created

ASSUME StorageAssumption == IsFiniteSet(Pieces) /\ MaxPartials \in Nat

None  == -1
Other == 0                  \* a completed file that was there before
Files == Other .. MaxPartials

VARIABLES
    part,       \* InProgressPath: a file, or None
    completed,  \* CompletedPath: a file, or None
    content,    \* the right pieces of every file
    durable,    \* those of them that are on the medium
    created,    \* how many partial files have been created
    pc,         \* where each process is
    known       \* the pieces its piece manager has as complete

fileVars == <<content, durable, created>>
vars == <<part, completed, content, durable, created, pc, known>>

PC == {"down", "restore", "download", "lstat", "sync", "rename", "finished"}

TypeOK ==
    /\ part \in Files \cup {None}
    /\ completed \in Files \cup {None}
    /\ content \in [Files -> SUBSET Pieces]
    /\ durable \in [Files -> SUBSET Pieces]
    /\ created \in 0 .. MaxPartials
    /\ pc \in [Processes -> PC]
    /\ known \in [Processes -> SUBSET Pieces]

Init ==
    /\ part = None
    /\ completed \in {None, Other}
    /\ content = [f \in Files |-> IF f = Other THEN Pieces ELSE {}]
    /\ durable = content
    /\ created = 0
    /\ pc = [i \in Processes |-> "down"]
    /\ known = [i \in Processes |-> {}]

Goto(i, to) == pc' = [pc EXCEPT ![i] = to]

-----------------------------------------------------------------------------
(* One process.                                                            *)

\* MUTANT of openSizedFile: an existing partial file is emptied.
openSizedFileTruncating ==
    /\ part' = IF part = None THEN created + 1 ELSE part
    /\ part' \in Files
    /\ created' = IF part = None THEN created + 1 ELSE created
    /\ content' = [content EXCEPT ![part'] = {}]
    /\ UNCHANGED durable

\* The partial file is opened as it is, or created without a right byte.
openSizedFile ==
    \/ /\ part # None
       /\ UNCHANGED <<part, fileVars>>
    \/ /\ part = None
       /\ created < MaxPartials
       /\ created' = created + 1
       /\ part' = created'
       /\ UNCHANGED <<content, durable>>

NewStorageAt(i) ==
    /\ pc[i] = "down"
    /\ openSizedFile
    /\ Goto(i, "restore")
    /\ UNCHANGED <<completed, known>>

\* An error anywhere ends the process; what is on disk stays.
Fail(i) ==
    /\ pc' = [pc EXCEPT ![i] = "down"]
    /\ known' = [known EXCEPT ![i] = {}]

\* MUTANT of Restored: a partial file of the right size is trusted.
RestoredUnhashed == Pieces

Restored == content[part]

\* RestoreExisting opens the file by its name and hashes every piece.
RestoreExisting(i) ==
    /\ pc[i] = "restore"
    /\ IF part = None
       THEN Fail(i)
       ELSE /\ known' = [known EXCEPT ![i] = Restored]
            /\ Goto(i, IF Restored = Pieces THEN "lstat" ELSE "download")
    /\ UNCHANGED <<part, completed, fileVars>>

\* WriteAt opens the file by its name for every write, and never creates it.
\* The piece is complete once the write has succeeded; a write that fails may
\* still have left every byte in the file, and the download goes on.
WritePiece(i, p) ==
    /\ pc[i] = "download"
    /\ part # None
    /\ p \notin known[i]
    /\ content' = [content EXCEPT ![part] = @ \cup {p}]
    /\ \E stored \in {{}, {p}} :
           known' = [known EXCEPT ![i] = @ \cup stored]
    /\ Goto(i, IF known'[i] = Pieces THEN "lstat" ELSE "download")
    /\ UNCHANGED <<part, completed, durable, created>>

\* The download is given up: interrupted, idle or out of peers.
GiveUp(i) ==
    /\ pc[i] = "download"
    /\ Fail(i)
    /\ UNCHANGED <<part, completed, fileVars>>

\* MUTANT of DestinationFree: the destination is not looked at.
DestinationFreeUnchecked == TRUE

DestinationFree == completed = None

\* Complete, first: refuse an existing destination.
CompleteLstat(i) ==
    /\ pc[i] = "lstat"
    /\ IF DestinationFree
       THEN Goto(i, "sync") /\ UNCHANGED known
       ELSE Fail(i)
    /\ UNCHANGED <<part, completed, fileVars>>

\* MUTANT of Sync: the file is closed but not synced.
SyncSkipped == UNCHANGED durable

Sync == durable' = [durable EXCEPT ![part] = content[part]]

\* Complete, second: sync every file, or report that one could not be.
CompleteSync(i) ==
    /\ pc[i] = "sync"
    /\ \/ /\ part # None
          /\ Sync
          /\ Goto(i, "rename")
          /\ UNCHANGED known
       \/ /\ Fail(i)
          /\ UNCHANGED durable
    /\ UNCHANGED <<part, completed, content, created>>

\* Complete, third: rename, which replaces an existing file.
CompleteRename(i) ==
    /\ pc[i] = "rename"
    /\ \/ /\ part # None
          /\ completed' = part
          /\ part' = None
          /\ Goto(i, "finished")
          /\ UNCHANGED known
       \/ /\ Fail(i)
          /\ UNCHANGED <<part, completed>>
    /\ UNCHANGED fileVars

\* A finished process exits, and the program may be started again.
Leave(i) ==
    /\ pc[i] = "finished"
    /\ Fail(i)
    /\ UNCHANGED <<part, completed, fileVars>>

-----------------------------------------------------------------------------
(* Crashes.  The directory is taken to be journalled: a rename that took   *)
(* effect is not undone.                                                   *)

Kill(i) ==
    /\ pc[i] # "down"
    /\ Fail(i)
    /\ UNCHANGED <<part, completed, fileVars>>

\* Every file keeps what was synced and some of the rest.
PowerLoss ==
    /\ \E kept \in [Files -> SUBSET Pieces] :
           /\ \A f \in Files : kept[f] \subseteq content[f]
                               /\ durable[f] \subseteq kept[f]
           /\ content' = kept
           /\ durable' = kept
    /\ pc' = [i \in Processes |-> "down"]
    /\ known' = [i \in Processes |-> {}]
    /\ UNCHANGED <<part, completed, created>>

Next ==
    \/ PowerLoss
    \/ \E i \in Processes :
           \/ NewStorageAt(i)
           \/ RestoreExisting(i)
           \/ \E p \in Pieces : WritePiece(i, p)
           \/ GiveUp(i)
           \/ CompleteLstat(i)
           \/ CompleteSync(i)
           \/ CompleteRename(i)
           \/ Leave(i)
           \/ Kill(i)

Spec == Init /\ [][Next]_vars

-----------------------------------------------------------------------------
(* Properties.                                                             *)

\* Whatever is under the completed name is whole, on the medium: no crash,
\* power loss or restart, at whichever step of Complete, leaves a completed
\* file with a piece missing.
CompletedIsWhole == completed # None => durable[completed] = Pieces

\* "An existing completed destination is never overwritten."
NeverOverwritten == [][completed # None => completed' = completed]_vars

\* A download that is started again resumes: the pieces in the partial file
\* are never thrown away, except those that a power loss takes.
PartialKept ==
    [][part # None /\ ~PowerLoss =>
          \/ part' = part /\ content[part] \subseteq content'[part]
          \/ completed' = part /\ content[part] \subseteq content'[part]]_vars

\* What the piece manager has as complete is in the file it works on.
KnownIsStored ==
    \A i \in Processes :
        pc[i] \in {"download", "lstat", "sync", "rename"}
            => part # None /\ known[i] \subseteq content[part]

=============================================================================
