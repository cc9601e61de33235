------------------------------- MODULE Persist -------------------------------
(***************************************************************************)
(* The database file (internal/engine/persist.go) under the connections of  *)
(* module Engine: every commit marshals the whole committed state, writes   *)
(* it to one temporary file, syncs, renames it over the database and syncs  *)
(* the directory; Open reads the database back after a crash.               *)
(*                                                                          *)
(* The file system is modelled as the kernel provides it: directory entries *)
(* that name inodes, descriptors that keep naming an inode after its entry  *)
(* is gone, contents in the page cache and on the disk.  A process that is  *)
(* killed loses its memory and keeps the page cache; a power failure loses  *)
(* what was not synced.  A file's contents are the set of effects of the    *)
(* marshalled state, or nothing at all, or Garbage: cut off or mixed.       *)
(* json.Unmarshal refuses the last two.                                     *)
(***************************************************************************)
EXTENDS Engine, Naturals

CONSTANTS
  Inode,      \* the inodes of the directory of the database
  Empty,      \* no contents: a file that has just been truncated
  Garbage,    \* other contents that cannot be parsed
  Failures,   \* the steps of persist() whose system call may fail
  Crashes,    \* "kill", "power": how the process may end
  MaxCrash    \* bound: how often it does

ASSUME FileAssumption == /\ Persistent
                         /\ None \notin Inode
                         /\ \A contents \in SUBSET Write : contents \notin {Empty, Garbage}
                         /\ Empty # Garbage
                         /\ Failures \subseteq PersistPC
                         /\ Crashes \subseteq {"kill", "power"}
                         /\ MaxCrash \in Nat

VARIABLES
  page,       \* contents of an inode as processes see them
  disk,       \* contents of an inode that a power failure leaves
  entry,      \* the directory as processes see it
  entryDisk,  \* the directory that a power failure leaves
  fd,         \* the inode of a connection's open temporary file
  data,       \* what a connection has marshalled
  crashes,    \* how often the process has ended
  published   \* history: the contents the committed state has had

buffers == <<fd, data>>
files == <<page, disk, entry, entryDisk>>
memory == <<heap, committed, writer, tx, rd>>
pvars == <<vars, files, buffers, crashes, published>>

Name == {"db", "tmp"}
Unreadable == {Empty, Garbage}
Content == (SUBSET Write) \union Unreadable

PInit == /\ Init
         /\ page = [i \in Inode |-> Empty]
         /\ disk = [i \in Inode |-> Garbage]
         /\ entry = [n \in Name |-> None]
         /\ entryDisk = [n \in Name |-> None]
         /\ fd = [c \in Conn |-> None]
         /\ data = [c \in Conn |-> {}]
         /\ crashes = 0
         /\ published = {{}}

-----------------------------------------------------------------------------
InUse == {entry[n] : n \in Name} \union {entryDisk[n] : n \in Name}
           \union {fd[c] : c \in Conn}

\* The statement is answered with the error of persist().
Refuse_Slip(c) == Goto(c, "idle") /\ Answer(c)
Refuse(c) == /\ Goto(c, "idle")
             /\ writes' = [writes EXCEPT ![c] = {}]
             /\ UNCHANGED <<issued, acked>>

\* The marshalled bytes have no further use.
Drop(c) == data' = [data EXCEPT ![c] = {}]

\* The step after a failed system call: close and remove the temporary file.
Cleanup_Slip == "rename"
Cleanup == "remove"

\* The state that marshalTables serializes.
Marshalled_Slip(c) == UNION {heap[tx[d].ref] : d \in {d \in Conn : tx[d] # NoTx}}
Marshalled(c) == heap[committed]

(* marshalTables runs under e.lock on the committed state of this moment,   *)
(* which later commits may have changed since this connection's flush.      *)
Marshal(c) == /\ pc[c] = "marshal"
              /\ data' = [data EXCEPT ![c] = Marshalled(c)]
              /\ Goto(c, "create")
              /\ UNCHANGED <<memory, history, files, fd, crashes, published>>

\* json.Marshal fails (a float that is not a number, for one).
MarshalFails(c) == /\ pc[c] = "marshal" /\ "marshal" \in Failures
                   /\ Refuse(c)
                   /\ UNCHANGED <<memory, files, buffers, crashes, published>>

\* The descriptor of the temporary file.
OpenFd_Slip(c, i) == UNCHANGED fd
OpenFd(c, i) == fd' = [fd EXCEPT ![c] = i]

(* os.OpenFile(tmp, O_CREATE|O_WRONLY|O_TRUNC): the file of another         *)
(* connection that is still under this name is opened and emptied.          *)
Create(c) == /\ pc[c] = "create"
             /\ \E i \in Inode :
                  /\ IF entry["tmp"] = None THEN i \notin InUse ELSE i = entry["tmp"]
                  /\ OpenFd(c, i)
                  /\ entry' = [entry EXCEPT !["tmp"] = i]
                  /\ page' = [page EXCEPT ![i] = Empty]
                  /\ disk' = [disk EXCEPT ![i] = Garbage]
             /\ Goto(c, "write")
             /\ UNCHANGED <<memory, history, entryDisk, data, crashes, published>>

CreateFails(c) == /\ pc[c] = "create" /\ "create" \in Failures
                  /\ Refuse(c) /\ Drop(c)
                  /\ UNCHANGED <<memory, files, fd, crashes, published>>

(* f.Write at offset 0 of the inode: over the bytes of another connection,   *)
(* whole or cut off, it leaves behind it what they are longer by.           *)
WriteFile(c) == /\ pc[c] = "write"
                /\ \E d \in IF page[fd[c]] \in {Empty, data[c]}
                              THEN {data[c]} ELSE {data[c], Garbage} :
                     page' = [page EXCEPT ![fd[c]] = d]
                /\ Drop(c) /\ Goto(c, "sync")
                /\ UNCHANGED <<memory, history, disk, entry, entryDisk, fd,
                               crashes, published>>

\* f.Write fails, before or after the first byte.
WriteFails(c) == /\ pc[c] = "write" /\ "write" \in Failures
                 /\ \E d \in {Garbage, page[fd[c]]} : page' = [page EXCEPT ![fd[c]] = d]
                 /\ Drop(c) /\ Goto(c, Cleanup)
                 /\ UNCHANGED <<memory, history, disk, entry, entryDisk, fd,
                                crashes, published>>

FlushFile_Slip(c) == UNCHANGED disk
FlushFile(c) == disk' = [disk EXCEPT ![fd[c]] = page[fd[c]]]

\* f.Sync and f.Close; when either fails the temporary file is removed.
Sync(c) == /\ pc[c] = "sync"
           /\ FlushFile(c)
           /\ fd' = [fd EXCEPT ![c] = None]
           /\ Goto(c, "rename")
           /\ UNCHANGED <<memory, history, page, entry, entryDisk, data,
                          crashes, published>>

SyncFails(c) == /\ pc[c] = "sync" /\ "sync" \in Failures
                /\ Goto(c, Cleanup)
                /\ UNCHANGED <<memory, history, files, buffers, crashes, published>>

\* os.Rename moves whatever the temporary name stands for now.
Rename(c) == /\ pc[c] = "rename" /\ entry["tmp"] # None
             /\ entry' = [n \in Name |-> IF n = "db" THEN entry["tmp"] ELSE None]
             /\ Goto(c, "syncdir")
             /\ UNCHANGED <<memory, history, page, disk, entryDisk, buffers,
                            crashes, published>>

RenameFails(c) == /\ pc[c] = "rename"
                  /\ entry["tmp"] = None \/ "rename" \in Failures
                  /\ Goto(c, Cleanup)
                  /\ UNCHANGED <<memory, history, files, buffers, crashes, published>>

\* os.Remove(tmp) on an error path; the statement fails.
Remove(c) == /\ pc[c] = "remove"
             /\ entry' = [entry EXCEPT !["tmp"] = None]
             /\ fd' = [fd EXCEPT ![c] = None]
             /\ Refuse(c)
             /\ UNCHANGED <<memory, page, disk, entryDisk, data, crashes, published>>

\* The directory is synced, or that fails and nobody is told.
SyncDir(c) == /\ pc[c] = "syncdir"
              /\ \/ entryDisk' = entry
                 \/ "syncdir" \in Failures /\ UNCHANGED entryDisk
              /\ Goto(c, "idle")
              /\ Answer(c)
              /\ UNCHANGED <<memory, page, disk, entry, buffers, crashes, published>>

PersistStep(c) == \/ Marshal(c) \/ MarshalFails(c) \/ Create(c) \/ CreateFails(c)
                  \/ WriteFile(c) \/ WriteFails(c) \/ Sync(c) \/ SyncFails(c)
                  \/ Rename(c) \/ RenameFails(c) \/ Remove(c) \/ SyncDir(c)

-----------------------------------------------------------------------------
\* The process ends: open files and every transaction are gone.
Die == /\ \E c \in Conn : pc[c] # "down"
       /\ crashes < MaxCrash
       /\ crashes' = crashes + 1
       /\ pc' = [c \in Conn |-> "down"]
       /\ tx' = [c \in Conn |-> NoTx] /\ rd' = [c \in Conn |-> None]
       /\ writer' = None
       /\ writes' = [c \in Conn |-> {}]
       /\ fd' = [c \in Conn |-> None] /\ data' = [c \in Conn |-> {}]
       /\ UNCHANGED <<heap, committed, issued, acked, published>>

Kill == "kill" \in Crashes /\ Die /\ UNCHANGED files

\* What was not synced is lost; the directory may have reached the disk.
PowerFailure == /\ "power" \in Crashes /\ Die
                /\ page' = disk
                /\ entry' \in {entry, entryDisk} /\ entryDisk' = entry'
                /\ UNCHANGED disk

FileContents == IF entry["db"] = None THEN {} ELSE page[entry["db"]]

(* Open: loadTables reads the file, no file is an empty database, and a     *)
(* file that cannot be parsed is reported as corrupt and nothing starts.    *)
(* Here the state read is the state that was marshalled.                    *)
Restart == /\ \A c \in Conn : pc[c] = "down"
           /\ FileContents \notin Unreadable
           /\ \E r \in Ref \ {committed} :
                /\ heap' = [heap EXCEPT ![r] = FileContents]
                /\ committed' = r
           /\ published' = published \union {FileContents}
           /\ pc' = [c \in Conn |-> "idle"]
           /\ UNCHANGED <<writer, tx, rd, history, files, buffers, crashes>>

ConnStep(c) == /\ Start(c) \/ Continue(c)
               /\ published' = published \union {heap'[committed']}
               /\ UNCHANGED <<files, buffers, crashes>>

PNext == \/ \E c \in Conn : ConnStep(c) \/ PersistStep(c)
         \/ Kill \/ PowerFailure \/ Restart

PSpec == PInit /\ [][PNext]_pvars

-----------------------------------------------------------------------------
\* The variables of this module have the types of what they stand for.
FileTypeOK == /\ page \in [Inode -> Content] /\ disk \in [Inode -> Content]
              /\ entry \in [Name -> Inode \union {None}]
              /\ entryDisk \in [Name -> Inode \union {None}]
              /\ fd \in [Conn -> Inode \union {None}]
              /\ data \in [Conn -> SUBSET Write]
              /\ crashes \in 0..MaxCrash
              /\ published \in SUBSET SUBSET Write
              /\ \A c \in Conn : pc[c] \in {"write", "sync"} => fd[c] # None

(* "A committed transaction survives a kill -9" (README): every effect a    *)
(* client was told is committed is in the file a restart would read, if it   *)
(* can be read at all (Recoverable).                                        *)
AckedDurable == FileContents \notin Unreadable => acked \subseteq FileContents

(* The same for a power failure, which also loses what was not synced:      *)
(* whichever directory survives, its database holds what was acknowledged.  *)
AckedOnDisk == \A dir \in {entry, entryDisk} :
                 IF dir["db"] = None THEN acked = {}
                 ELSE disk[dir["db"]] \notin Unreadable /\ acked \subseteq disk[dir["db"]]

\* A restart can always open the database.
Recoverable == FileContents \notin Unreadable

(* "An uncommitted transaction never reaches the file" (persist.go): what   *)
(* can be read from the database file was the committed state at some time. *)
FileIsACommit == FileContents \in published \union Unreadable

(* With one writing connection every step is one of DurableStore or none at *)
(* all: a restart, after a kill or a power failure, between any two system  *)
(* calls and whichever of them failed, finds the whole contents of the last *)
(* acknowledged commit or of one after it, also when a commit was answered  *)
(* with an error before.                                                    *)
Found == {FileContents} \union
           {IF dir["db"] = None THEN {} ELSE disk[dir["db"]] : dir \in {entry, entryDisk}}
Durable == INSTANCE DurableStore WITH
             up <- \E c \in Conn : pc[c] # "down",
             store <- heap[committed], saved <- Found
ImplementsDurableStore == Durable!Spec

=============================================================================
