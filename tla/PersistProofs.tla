---------------------------- MODULE PersistProofs ----------------------------
(***************************************************************************)
(* Proofs about module Persist: the engine with its database file, for any  *)
(* number of connections, effects, inodes and crashes, and whichever system *)
(* calls may fail.                                                          *)
(***************************************************************************)
EXTENDS Persist, EngineProofs

(* What a step of persist() is for the engine: it moves one connection that *)
(* holds neither the lock nor a transaction, and when it answers the        *)
(* statement the effects of it are acknowledged or forgotten.               *)
Quiet(c) ==
  /\ UNCHANGED <<memory, issued, crashes, published>>
  /\ pc[c] \in PersistPC
  /\ \/ /\ \E label \in PersistPC : pc' = [pc EXCEPT ![c] = label]
        /\ UNCHANGED <<writes, acked>>
     \/ /\ pc' = [pc EXCEPT ![c] = "idle"]
        /\ writes' = [writes EXCEPT ![c] = {}]
        /\ acked' \in {acked, acked \union writes[c]}

\* Every step of persist() is of this kind.
LEMMA PersistIsQuiet == ASSUME NEW c \in Conn, PersistStep(c) PROVE Quiet(c)
<1> USE DEF Quiet, Goto, Refuse, Cleanup, Answer, history, PersistPC
<1>1. CASE Marshal(c)
  BY <1>1 DEF Marshal
<1>2. CASE MarshalFails(c)
  BY <1>2 DEF MarshalFails
<1>3. CASE Create(c)
  BY <1>3 DEF Create
<1>4. CASE CreateFails(c)
  BY <1>4 DEF CreateFails
<1>5. CASE WriteFile(c)
  BY <1>5 DEF WriteFile
<1>6. CASE WriteFails(c)
  BY <1>6 DEF WriteFails
<1>7. CASE Sync(c)
  BY <1>7 DEF Sync
<1>8. CASE SyncFails(c)
  BY <1>8 DEF SyncFails
<1>9. CASE Rename(c)
  BY <1>9 DEF Rename
<1>10. CASE RenameFails(c)
  BY <1>10 DEF RenameFails
<1>11. CASE Remove(c)
  BY <1>11 DEF Remove
<1>12. CASE SyncDir(c)
  BY <1>12 DEF SyncDir
<1>13. QED
  BY <1>1, <1>2, <1>3, <1>4, <1>5, <1>6, <1>7, <1>8, <1>9, <1>10, <1>11, <1>12
     DEF PersistStep

\* The database starts as the engine without a file does.
LEMMA EngineInit == PInit => IInv
BY InvInit DEF PInit

(* Neither a step of persist() nor a crash or a restart breaks the          *)
(* invariant of the engine.                                                 *)
LEMMA EngineKept == IInv /\ FileTypeOK /\ [PNext]_pvars => IInv'
<1> SUFFICES ASSUME IInv, FileTypeOK, [PNext]_pvars PROVE IInv'
  OBVIOUS
<1>1. CASE UNCHANGED pvars
  BY <1>1, InvStep DEF pvars
<1>2. ASSUME NEW c \in Conn, ConnStep(c) PROVE IInv'
  BY <1>2, InvStep DEF ConnStep, EngineStep
<1>3. ASSUME NEW c \in Conn, PersistStep(c) PROVE IInv'
  <2>1. Quiet(c)
    BY <1>3, PersistIsQuiet
  <2> USE <2>1, NoTxFacts, NoneAssumption DEF Quiet, memory, IInv
  <2>2. TypeOK'
    BY DEF TypeOK, PC, PersistPC
  <2>3. ControlOK'
    BY DEF TypeOK, PC, PersistPC, ControlOK, Control
  <2>4. WriteExclusion'
    BY DEF TypeOK, WriteExclusion
  <2>5. NoSharing'
    BY DEF TypeOK, PersistPC, ControlOK, Control, NoSharing, Open
  <2>6. QED
    BY <2>2, <2>3, <2>4, <2>5
<1>4. CASE Die
  BY <1>4, NoTxFacts, NoneAssumption
     DEF Die, IInv, TypeOK, ControlOK, Control, WriteExclusion, NoSharing, Open, PC, PersistPC
<1>5. CASE Restart
  <2> USE <1>5, NoTxFacts, NoneAssumption DEF IInv, Restart, history
  <2>1. FileContents \in SUBSET Write
    BY DEF FileTypeOK, FileContents, Content, Unreadable, Name
  <2>2. QED
    BY <2>1 DEF TypeOK, ControlOK, Control, WriteExclusion, NoSharing, Open, PC, PersistPC
<1>6. QED
  BY <1>1, <1>2, <1>3, <1>4, <1>5 DEF PNext, Kill, PowerFailure

-----------------------------------------------------------------------------
\* The directory, the inodes and the descriptors start with their types...
LEMMA FileTypeInit == PInit => FileTypeOK
BY FileAssumption DEF PInit, Init, FileTypeOK, Content, Unreadable, Name

(* ... and keep them: a file is only written through an open descriptor.    *)
LEMMA FileTypeStep == IInv /\ IInv' /\ FileTypeOK /\ [PNext]_pvars => FileTypeOK'
<1> SUFFICES ASSUME IInv, IInv', FileTypeOK, [PNext]_pvars PROVE FileTypeOK'
  OBVIOUS
<1> USE FileAssumption DEF IInv, TypeOK, FileTypeOK, Content, Unreadable, Name
<1>1. CASE UNCHANGED pvars
  BY <1>1 DEF pvars, vars, files, buffers
<1>2. ASSUME NEW c \in Conn, ConnStep(c) PROVE FileTypeOK'
  <2>1. \A d \in Conn : pc'[d] \in {"write", "sync"} => pc[d] \in {"write", "sync"}
    BY <1>2 DEF ConnStep, Start, Continue, Snapshot, EndScan, Acquire, WriteTables,
                OpenImplicit, RunOk, RunFail, Abort, Begin, Commit, Rollback, Swap,
                EndFlush, Goto, history
  <2>2. heap'[committed'] \in SUBSET Write
    OBVIOUS
  <2>3. QED
    BY <1>2, <2>1, <2>2 DEF ConnStep, files, buffers
<1>3. ASSUME NEW c \in Conn, PersistStep(c) PROVE FileTypeOK'
  <2> USE DEF files, buffers, memory, Goto, Refuse, Cleanup, Drop, PC, PersistPC
  <2>1. CASE Marshal(c)
    BY <2>1 DEF Marshal, Marshalled
  <2>2. CASE MarshalFails(c)
    BY <2>2 DEF MarshalFails
  <2>3. CASE Create(c)
    BY <2>3 DEF Create, OpenFd
  <2>4. CASE CreateFails(c)
    BY <2>4 DEF CreateFails
  <2>5. CASE WriteFile(c)
    BY <2>5 DEF WriteFile
  <2>6. CASE WriteFails(c)
    BY <2>6 DEF WriteFails
  <2>7. CASE Sync(c)
    BY <2>7 DEF Sync, FlushFile
  <2>8. CASE SyncFails(c)
    BY <2>8 DEF SyncFails
  <2>9. CASE Rename(c)
    BY <2>9 DEF Rename
  <2>10. CASE RenameFails(c)
    BY <2>10 DEF RenameFails
  <2>11. CASE Remove(c)
    BY <2>11 DEF Remove
  <2>12. CASE SyncDir(c)
    BY <2>12 DEF SyncDir
  <2>13. QED
    BY <1>3, <2>1, <2>2, <2>3, <2>4, <2>5, <2>6, <2>7, <2>8, <2>9, <2>10, <2>11, <2>12
       DEF PersistStep
<1>4. CASE Die /\ UNCHANGED files
  BY <1>4 DEF Die, files
<1>5. CASE PowerFailure
  BY <1>5 DEF PowerFailure, Die
<1>6. CASE Restart
  <2>1. FileContents \in SUBSET Write
    BY <1>6 DEF Restart, FileContents
  <2>2. QED
    BY <1>6, <2>1 DEF Restart, files, buffers
<1>7. QED
  BY <1>1, <1>2, <1>3, <1>4, <1>5, <1>6 DEF PNext, Kill

\* What holds of the engine and of its file, whatever happens to either.
PInv == IInv /\ FileTypeOK

\* Every step keeps it, system calls that fail and crashes included.
LEMMA PInvStep == PInv /\ [PNext]_pvars => PInv'
BY EngineKept, FileTypeStep DEF PInv

\* The invariant of the engine and the types of the file hold in every
\* reachable state, over any number of crashes.
THEOREM FileInvariance == PSpec => []PInv
<1>1. PInit => PInv
  BY EngineInit, FileTypeInit DEF PInv
<1>2. QED
  BY <1>1, PInvStep, PTL DEF PSpec

-----------------------------------------------------------------------------
(* Where contents can come from.  FileIsACommit is about the database file, *)
(* which is a temporary file renamed, whose contents were marshalled by     *)
(* some connection, which took them from the committed state.  So it is     *)
(* inductive with the same fact about every one of these.                   *)
Sources == /\ heap[committed] \in published /\ {} \in published
           /\ \A c \in Conn : data[c] \in published
           /\ \A i \in Inode : /\ page[i] \in published \union Unreadable
                               /\ disk[i] \in published \union Unreadable

\* Contents only move along this way.
LEMMA SourcesStep == PInv /\ Sources /\ [PNext]_pvars => Sources'
<1> SUFFICES ASSUME PInv, Sources, [PNext]_pvars PROVE Sources'
  OBVIOUS
<1> USE DEF PInv, FileTypeOK, Name, Sources, Unreadable
<1>1. CASE UNCHANGED pvars
  BY <1>1 DEF pvars, vars, files, buffers
<1>2. ASSUME NEW c \in Conn, ConnStep(c) PROVE Sources'
  BY <1>2 DEF ConnStep, files, buffers
<1>3. ASSUME NEW c \in Conn, PersistStep(c) PROVE Sources'
  <2>1. UNCHANGED <<heap, committed, published>>
    BY <1>3, PersistIsQuiet DEF Quiet, memory
  <2> USE <2>1 DEF files, buffers, memory, Drop
  <2>2. CASE Marshal(c)
    BY <2>2 DEF Marshal, Marshalled
  <2>3. CASE MarshalFails(c)
    BY <2>3 DEF MarshalFails
  <2>4. CASE Create(c)
    BY <2>4 DEF Create
  <2>5. CASE CreateFails(c)
    BY <2>5 DEF CreateFails
  <2>6. CASE WriteFile(c)
    BY <2>6 DEF WriteFile
  <2>7. CASE WriteFails(c)
    BY <2>7 DEF WriteFails
  <2>8. CASE Sync(c)
    BY <2>8 DEF Sync, FlushFile
  <2>9. CASE SyncFails(c)
    BY <2>9 DEF SyncFails
  <2>10. CASE Rename(c) \/ Remove(c) \/ SyncDir(c)
    BY <2>10 DEF Rename, Remove, SyncDir
  <2>11. CASE RenameFails(c)
    BY <2>11 DEF RenameFails
  <2>12. QED
    BY <1>3, <2>2, <2>3, <2>4, <2>5, <2>6, <2>7, <2>8, <2>9, <2>10, <2>11 DEF PersistStep
<1>4. CASE Die /\ UNCHANGED files
  BY <1>4 DEF Die, files
<1>5. CASE PowerFailure
  BY <1>5 DEF PowerFailure, Die
<1>6. CASE Restart
  <2>1. heap'[committed'] = FileContents
    BY <1>6 DEF Restart, IInv, TypeOK
  <2>2. QED
    BY <1>6, <2>1 DEF Restart, files, buffers
<1>7. QED
  BY <1>1, <1>2, <1>3, <1>4, <1>5, <1>6 DEF PNext, Kill

(* What can be read from the database file was the committed state at some  *)
(* time: an uncommitted or rolled back transaction never reaches it, and    *)
(* commits of several connections that persist at the same time are not     *)
(* mixed in a file that can be read.                                        *)
THEOREM OnlyCommitsInFile == PSpec => []FileIsACommit
<1>1. PInit => Sources
  BY DEF PInit, Init, Sources, Unreadable
<1>2. PInv /\ Sources => FileIsACommit
  BY DEF PInv, FileTypeOK, Name, Sources, FileIsACommit, FileContents
<1>3. QED
  BY <1>1, <1>2, SourcesStep, FileInvariance, PTL DEF PSpec

\* The variables of the file system and of the descriptors keep their types.
THEOREM FileTypesCorrect == PSpec => []FileTypeOK
<1>1. PInv => FileTypeOK
  BY DEF PInv
<1>2. QED
  BY <1>1, FileInvariance, PTL

(* Crashes, restarts and failing system calls leave the promises of the     *)
(* engine alone: the write lock excludes, working copies are private, and   *)
(* no statement leaks the lock or an autocommit transaction, not even one   *)
(* whose persist() failed.                                                  *)
THEOREM EngineSurvives == PSpec => [](WriteExclusion /\ NoSharing /\ NothingLeaked)
<1>1. PInv => WriteExclusion /\ NoSharing /\ NothingLeaked
  BY NoTxFacts DEF PInv, IInv, TypeOK, ControlOK, Control, NothingLeaked, PersistPC
<1>2. QED
  BY <1>1, FileInvariance, PTL

-----------------------------------------------------------------------------
(* From here on one client writes, in transactions or in autocommit; any    *)
(* number of others read.  With two that write, one removes or overwrites   *)
(* the temporary file of the other, and MCPersist finds a database that     *)
(* cannot be read.                                                          *)
OneWriter == \E w \in Conn : TxConn \union WriteConn \subseteq {w}

\* Only who writes has a transaction or comes to persist().
Writers == /\ Workload
           /\ \A c \in Conn : pc[c] \in PersistPC => c \in TxConn \union WriteConn

(* The layout of the directory: the temporary file is the one that is open, *)
(* and it is neither the database nor what a power failure leaves of it...  *)
Apart == /\ \A c \in Conn : fd[c] # None => /\ fd[c] = entry["tmp"]
                                      /\ pc[c] \in {"write", "sync", "remove"}
         /\ entry["tmp"] # None => entry["tmp"] \notin {entry["db"], entryDisk["db"]}
         /\ entryDisk["tmp"] # None => entryDisk["tmp"] # entryDisk["db"]

\* ... which are files that were written and synced as a whole.
Whole(i) == i # None => page[i] = disk[i] /\ page[i] \notin Unreadable
WholeFiles == Whole(entry["db"]) /\ Whole(entryDisk["db"])

\* How far the committed contents have come on the way to the file.
Progress(c) ==
  /\ pc[c] \in {"create", "write"} => data[c] = heap[committed]
  /\ pc[c] = "write" => page[fd[c]] = Empty
  /\ pc[c] = "sync" => page[fd[c]] = heap[committed]
  /\ pc[c] = "rename" => /\ entry["tmp"] # None
                         /\ page[entry["tmp"]] = heap[committed]
                         /\ disk[entry["tmp"]] = heap[committed]
  /\ pc[c] = "syncdir" => /\ entry["tmp"] = None /\ entry["db"] # None
                          /\ page[entry["db"]] = heap[committed]

Layout == Apart /\ WholeFiles /\ \A c \in Conn : Progress(c)

LInv == PInv /\ Writers /\ Layout

(* What a step of the engine proper is for the file: one connection moves,  *)
(* at most up to the entry of persist() and then from a transaction; the    *)
(* committed contents change in Swap only.                                  *)
LEMMA EngineIsLocal ==
  ASSUME PInv, NEW c \in Conn, ConnStep(c)
  PROVE  /\ \A d \in Conn \ {c} : pc'[d] = pc[d]
         /\ pc[c] \notin PersistPC \union {"down"}
         /\ pc'[c] \notin (PersistPC \ {"marshal"}) \union {"down"}
         /\ pc'[c] = "marshal" => tx[c] # NoTx
         /\ acked' = acked
         /\ Swap(c) \/ heap'[committed'] = heap[committed]
<1> DEFINE Goal == /\ \A d \in Conn \ {c} : pc'[d] = pc[d]
                   /\ pc[c] \notin PersistPC \union {"down"}
                   /\ pc'[c] \notin (PersistPC \ {"marshal"}) \union {"down"}
                   /\ pc'[c] = "marshal" => tx[c] # NoTx
                   /\ acked' = acked
                   /\ Swap(c) \/ heap'[committed'] = heap[committed]
<1> USE DEF PInv, IInv, TypeOK, PersistPC, history, Goto
<1>1. CASE Snapshot(c) \/ EndScan(c) \/ Acquire(c) \/ RunFail(c)
  BY <1>1 DEF Snapshot, EndScan, Acquire, WriteTables, RunFail
<1>2. CASE OpenImplicit(c) \/ Begin(c)
  BY <1>2 DEF OpenImplicit, Begin, CloneInto, Reachable
<1>3. CASE RunOk(c)
  <2>1. tx[c].ref # committed
    BY <1>3 DEF RunOk, ControlOK, Control, NoSharing, Open
  <2>2. QED
    BY <1>3, <2>1 DEF RunOk
<1>4. CASE Abort(c) \/ Commit(c) \/ Rollback(c)
  BY <1>4 DEF Abort, Commit, Rollback
<1>5. CASE Swap(c)
  BY <1>5 DEF Swap
<1>6. CASE EndFlush(c)
  BY <1>6, FileAssumption DEF EndFlush, ControlOK, Control
<1>7. QED
  BY <1>1, <1>2, <1>3, <1>4, <1>5, <1>6 DEF ConnStep, Start, Continue

\* So only one connection at a time is in persist().
LEMMA OneInPersist ==
  ASSUME OneWriter, Writers, NEW c \in Conn, NEW d \in Conn,
         pc[c] \in PersistPC, pc[d] \in PersistPC \/ tx[d] # NoTx
  PROVE  c = d
BY NoTxFacts DEF OneWriter, Writers, Workload

\* Neither persist() nor a crash lets a reader open a transaction.
LEMMA WritersStep == PInv /\ Writers /\ [PNext]_pvars => Writers'
<1> SUFFICES ASSUME PInv, Writers, [PNext]_pvars PROVE Writers'
  OBVIOUS
<1>1. CASE UNCHANGED pvars
  BY <1>1 DEF pvars, vars, Writers, Workload
<1>2. ASSUME NEW c \in Conn, ConnStep(c) PROVE Writers'
  <2>1. Workload'
    BY <1>2, WorkloadStep DEF ConnStep, EngineStep, PInv, IInv, Writers
  <2>2. QED
    BY <1>2, <2>1, EngineIsLocal DEF Writers, Workload
<1>3. ASSUME NEW c \in Conn, PersistStep(c) PROVE Writers'
  BY <1>3, PersistIsQuiet DEF Quiet, memory, Writers, Workload, PInv, IInv, TypeOK, PersistPC
<1>4. CASE Die
  BY <1>4, NoTxFacts DEF Die, Writers, Workload, PersistPC
<1>5. CASE Restart
  BY <1>5 DEF Restart, Writers, Workload, PersistPC
<1>6. QED
  BY <1>1, <1>2, <1>3, <1>4, <1>5 DEF PNext, Kill, PowerFailure

(* Every step keeps the layout of the directory and the progress of the     *)
(* contents: a new temporary file is in an inode nothing refers to, and it  *)
(* is renamed only when what it holds is on the disk.                       *)
LEMMA LayoutStep == OneWriter /\ LInv /\ [PNext]_pvars => Layout'
<1> SUFFICES ASSUME OneWriter, LInv, [PNext]_pvars PROVE Layout'
  OBVIOUS
<1> USE FileAssumption DEF LInv, Layout, Apart, WholeFiles, Whole, FileTypeOK, Name, PersistPC
<1>0. FileTypeOK /\ TypeOK
  BY DEF PInv, IInv
<1>1. CASE UNCHANGED pvars
  BY <1>1 DEF pvars, vars, files, buffers, Progress
<1>2. ASSUME NEW c \in Conn, ConnStep(c) PROVE Layout'
  <2>1. UNCHANGED <<files, buffers>>
    BY <1>2 DEF ConnStep
  <2>2. \A d \in Conn \ {c} : pc'[d] = pc[d]
    BY <1>2, EngineIsLocal
  <2>3. Apart'
    BY <1>2, <2>1, <2>2, EngineIsLocal DEF files, buffers
  <2>4. ASSUME NEW d \in Conn PROVE Progress(d)'
    <3>1. CASE d = c
      BY <1>2, <3>1, EngineIsLocal DEF Progress
    <3>2. CASE d # c /\ pc[d] \in PersistPC
      <4>1. ~Swap(c)
        BY <1>0, <3>2, OneInPersist, NoTxFacts DEF Swap, PInv, IInv, ControlOK, Control
      <4>2. heap'[committed'] = heap[committed]
        BY <1>2, <4>1, EngineIsLocal
      <4>3. QED
        BY <2>1, <2>2, <3>2, <4>2 DEF Progress, files, buffers
    <3>3. CASE d # c /\ pc[d] \notin PersistPC
      BY <2>2, <3>3 DEF Progress
    <3>4. QED
      BY <3>1, <3>2, <3>3
  <2>5. QED
    BY <2>1, <2>3, <2>4 DEF files
<1>3. ASSUME NEW c \in Conn, PersistStep(c) PROVE Layout'
  <2>1. /\ UNCHANGED <<heap, committed>> /\ pc[c] \in PersistPC
        /\ \A d \in Conn \ {c} : pc'[d] = pc[d] /\ pc[d] \notin PersistPC
    BY <1>0, <1>3, PersistIsQuiet, OneInPersist DEF Quiet, memory, TypeOK
  <2>2. \A d \in Conn \ {c} : Progress(d)' /\ fd[d] = None
    BY <2>1 DEF Progress
  <2> USE <1>0, <2>1, <2>2 DEF files, buffers, Drop, Goto, Refuse, Cleanup, TypeOK
  <2>3. CASE Marshal(c)
    BY <2>3 DEF Marshal, Marshalled, Progress
  <2>4. CASE MarshalFails(c) \/ CreateFails(c)
    BY <2>4 DEF MarshalFails, CreateFails, Progress
  <2>5. CASE Create(c)
    <3>1. PICK i \in Inode :
            /\ IF entry["tmp"] = None THEN i \notin InUse ELSE i = entry["tmp"]
            /\ fd' = [fd EXCEPT ![c] = i]
            /\ entry' = [entry EXCEPT !["tmp"] = i]
            /\ page' = [page EXCEPT ![i] = Empty]
            /\ disk' = [disk EXCEPT ![i] = Garbage]
      BY <2>5 DEF Create, OpenFd
    <3>2. i \notin {entry["db"], entryDisk["db"]}
      BY <3>1 DEF InUse
    <3>3. entryDisk' = entryDisk /\ data' = data /\ pc[c] = "create" /\ pc'[c] = "write"
      BY <2>5 DEF Create
    <3>4. Apart' /\ WholeFiles'
      BY <3>1, <3>2, <3>3
    <3>5. Progress(c)'
      BY <3>1, <3>3 DEF Progress
    <3>6. QED
      BY <3>4, <3>5
  <2>6. CASE WriteFile(c)
    <3>1. pc[c] = "write" /\ fd[c] = entry["tmp"] /\ fd[c] # None
      BY <2>6 DEF WriteFile
    <3>2. page[fd[c]] = Empty /\ data[c] = heap[committed]
      BY <3>1 DEF Progress
    <3>3. /\ page' = [page EXCEPT ![fd[c]] = heap[committed]]
          /\ entry' = entry /\ entryDisk' = entryDisk /\ disk' = disk /\ fd' = fd
      BY <2>6, <3>2 DEF WriteFile
    <3>4. pc'[c] = "sync"
      BY <2>6 DEF WriteFile
    <3>5. Apart' /\ WholeFiles'
      BY <3>1, <3>3, <3>4
    <3>6. Progress(c)'
      BY <3>1, <3>3, <3>4 DEF Progress
    <3>7. QED
      BY <3>5, <3>6
  <2>7. CASE WriteFails(c)
    BY <2>7 DEF WriteFails, Progress
  <2>8. CASE Sync(c)
    BY <2>8 DEF Sync, FlushFile, Progress
  <2>9. CASE SyncFails(c) \/ RenameFails(c)
    BY <2>9 DEF SyncFails, RenameFails, Progress
  <2>10. CASE Rename(c)
    <3>1. heap[committed] \notin Unreadable
      BY DEF Unreadable
    <3>2. QED
      BY <2>10, <3>1 DEF Rename, Progress
  <2>11. CASE Remove(c)
    BY <2>11 DEF Remove, Progress
  <2>12. CASE SyncDir(c)
    BY <2>12 DEF SyncDir, Progress
  <2>13. QED
    BY <1>3, <2>3, <2>4, <2>5, <2>6, <2>7, <2>8, <2>9, <2>10, <2>11, <2>12 DEF PersistStep
<1>4. CASE Die /\ UNCHANGED files
  BY <1>4 DEF Die, files, Progress
<1>5. CASE PowerFailure
  BY <1>5 DEF PowerFailure, Die, Progress
<1>6. CASE Restart
  BY <1>6 DEF Restart, files, buffers, Progress
<1>7. QED
  BY <1>1, <1>2, <1>3, <1>4, <1>5, <1>6 DEF PNext, Kill

\* The layout holds in every reachable state.
LEMMA LayoutInvariance == ASSUME OneWriter PROVE PSpec => []LInv
<1>1. PInit => LInv
  BY EngineInit, FileTypeInit, NoTxFacts
     DEF PInit, Init, LInv, PInv, Writers, Workload, Layout, Apart, WholeFiles, Whole,
         Progress, Name, PersistPC
<1>2. OneWriter /\ LInv /\ [PNext]_pvars => LInv'
  BY PInvStep, WritersStep, LayoutStep DEF LInv
<1>3. QED
  BY <1>1, <1>2, PTL DEF PSpec

(* With one writer the database can always be opened again: whichever       *)
(* system calls failed, the directory sync among them, and wherever the     *)
(* process was killed or the power failed.                                  *)
THEOREM AlwaysRecoverable == ASSUME OneWriter PROVE PSpec => []Recoverable
<1>1. LInv => Recoverable
  BY FileAssumption DEF LInv, Layout, WholeFiles, Whole, Unreadable, Recoverable, FileContents
<1>2. QED
  BY <1>1, LayoutInvariance, PTL

-----------------------------------------------------------------------------
\* What the engine knows about lost updates: NoLostUpdate of EngineProofs.
Serial == PInv /\ Workload /\ NotStale /\ AckedVisible

\* persist() keeps it: it acknowledges only what flush has published.
LEMMA SerialKept ==
  ASSUME LoneTxClient, Serial, PNext, ~Kill, ~PowerFailure, ~Restart
  PROVE  NotStale' /\ AckedVisible'
<1> USE DEF Serial
<1>1. ASSUME NEW c \in Conn, ConnStep(c) PROVE NotStale' /\ AckedVisible'
  BY <1>1, SerialStep DEF ConnStep, EngineStep, SInv, PInv
<1>2. ASSUME NEW c \in Conn, PersistStep(c) PROVE NotStale' /\ AckedVisible'
  <2>1. Quiet(c) /\ ~Open(c)
    BY <1>2, PersistIsQuiet DEF Quiet, PInv, IInv, ControlOK, Control, Open
  <2>2. \A d \in Conn : Open(d)' = Open(d) /\ writes'[d] \subseteq writes[d]
    BY <2>1 DEF Quiet, memory, Open, PInv, IInv, TypeOK, PersistPC
  <2>3. acked' \subseteq acked \union writes[c] /\ UNCHANGED <<heap, committed, tx>>
    BY <2>1 DEF Quiet, memory
  <2>4. QED
    BY <2>1, <2>2, <2>3 DEF NotStale, AckedVisible
<1>3. QED
  BY <1>1, <1>2 DEF PNext

\* A connection that is down has no transaction to forget.
LEMMA NothingPending ==
  ASSUME PInv, \A c \in Conn : pc[c] = "down"
  PROVE  \A c \in Conn : ~Open(c) /\ writes[c] = {}
BY DEF PInv, IInv, ControlOK, Control, Open, PersistPC

\* The process is not killed; it is up to begin with, since a connection is.
NoCrash == Conn # {} /\ (MaxCrash = 0 \/ Crashes = {})

(* AckedVisible holds in every reachable state while the process runs, with *)
(* a file as without one: no update that flush() has published is lost, in  *)
(* autocommit for any number of writers, whatever system calls of persist() *)
(* fail under them.                                                         *)
THEOREM NoLostUpdateWithFile == ASSUME LoneTxClient, NoCrash PROVE PSpec => []AckedVisible
<1> DEFINE Inv == /\ Serial /\ \E c \in Conn : pc[c] # "down"
                  /\ crashes = 0
<1>1. PInit => Inv
  BY EngineInit, FileTypeInit, NoTxFacts
     DEF NoCrash, PInit, Init, Serial, PInv, Workload, NotStale, AckedVisible, Open
<1>2. Inv /\ [PNext]_pvars => Inv'
  <2> SUFFICES ASSUME Inv, [PNext]_pvars PROVE Inv'
    OBVIOUS
  <2>1. CASE UNCHANGED pvars
    <3>1. PInv'
      BY PInvStep DEF Serial
    <3>2. QED
      BY <2>1, <3>1 DEF pvars, vars, Serial, Workload, NotStale, AckedVisible, Open
  <2>2. CASE PNext
    <3>1. ~Kill /\ ~PowerFailure /\ ~Restart
      BY FileAssumption DEF NoCrash, Kill, PowerFailure, Die, Restart
    <3>2. PInv' /\ NotStale' /\ AckedVisible'
      BY <2>2, <3>1, PInvStep, SerialKept DEF Serial
    <3>3. PICK c \in Conn : ConnStep(c) \/ PersistStep(c)
      BY <2>2, <3>1 DEF PNext
    <3>4. CASE ConnStep(c)
      <4>1. Workload'
        BY <3>4, WorkloadStep DEF ConnStep, EngineStep, Serial, PInv, IInv
      <4>2. pc'[c] # "down" /\ crashes' = crashes
        BY <3>4, EngineIsLocal DEF ConnStep, Serial
      <4>3. QED
        BY <3>2, <4>1, <4>2 DEF Serial
    <3>5. CASE PersistStep(c)
      <4>1. Quiet(c)
        BY <3>5, PersistIsQuiet
      <4>2. Workload' /\ pc'[c] # "down" /\ crashes' = crashes
        BY <4>1 DEF Quiet, memory, Serial, Workload, PInv, IInv, TypeOK, PersistPC
      <4>3. QED
        BY <3>2, <4>2 DEF Serial
    <3>6. QED
      BY <3>3, <3>4, <3>5
  <2>3. QED
    BY <2>1, <2>2
<1>3. Inv => AckedVisible
  BY DEF Serial
<1>4. QED
  BY <1>1, <1>2, <1>3, PTL DEF PSpec

-----------------------------------------------------------------------------
(* One writer again, and crashes.  What the database of a directory holds   *)
(* on the disk is, by the layout, what it holds for a process.  persist()   *)
(* ignores an error of the directory sync, so a power failure may undo an   *)
(* acknowledged commit if that call can fail; a kill cannot.                *)
DirSyncs == "syncdir" \notin Failures
Survives == DirSyncs \/ "power" \notin Crashes

OnDisk(dir) == IF dir["db"] = None THEN {} ELSE disk[dir["db"]]

(* Everything acknowledged is in the file, and everything that will be      *)
(* acknowledged in the committed contents that are on their way to it.      *)
AckInv == /\ LInv /\ NotStale /\ AckedVisible
          /\ acked \subseteq OnDisk(entry)
          /\ DirSyncs => acked \subseteq OnDisk(entryDisk)

\* One writer is a workload without lost updates.
LEMMA OneWriterIsLone == OneWriter => LoneTxClient
BY DEF OneWriter, LoneTxClient

\* A process finds in the database what a power failure would leave.
LEMMA FileContentsAre == LInv => FileContents = OnDisk(entry)
BY DEF LInv, Layout, WholeFiles, Whole, FileContents, OnDisk

(* The files of the two directories under persist(): only the rename and    *)
(* the sync of the directory change what is to be found, and what they put  *)
(* there are the committed contents.                                        *)
LEMMA PersistMoves ==
  ASSUME LInv, NEW c \in Conn, PersistStep(c)
  PROVE  /\ Rename(c) => /\ OnDisk(entry)' = heap[committed]
                         /\ OnDisk(entryDisk)' = OnDisk(entryDisk)
                         /\ acked' = acked
         /\ SyncDir(c) => /\ OnDisk(entry) = heap[committed]
                          /\ OnDisk(entry)' = OnDisk(entry)
                          /\ OnDisk(entryDisk)' \in {OnDisk(entry), OnDisk(entryDisk)}
                          /\ DirSyncs => OnDisk(entryDisk)' = OnDisk(entry)
                          /\ acked' = acked \union writes[c]
         /\ ~Rename(c) /\ ~SyncDir(c) => /\ OnDisk(entry)' = OnDisk(entry)
                                         /\ OnDisk(entryDisk)' = OnDisk(entryDisk)
                                         /\ acked' = acked
<1> USE DEF LInv, PInv, IInv, TypeOK, FileTypeOK, Name, Layout, Apart, WholeFiles, Whole,
            files, history, Refuse, OnDisk
<1>1. Rename(c) => /\ OnDisk(entry)' = heap[committed]
                   /\ OnDisk(entryDisk)' = OnDisk(entryDisk)
                   /\ acked' = acked
  BY DEF Rename, Progress
<1>2. SyncDir(c) => /\ OnDisk(entry) = heap[committed]
                    /\ OnDisk(entry)' = OnDisk(entry)
                    /\ OnDisk(entryDisk)' \in {OnDisk(entry), OnDisk(entryDisk)}
                    /\ DirSyncs => OnDisk(entryDisk)' = OnDisk(entry)
                    /\ acked' = acked \union writes[c]
  BY DEF SyncDir, Answer, Progress, DirSyncs
<1>3. ASSUME ~Rename(c), ~SyncDir(c)
      PROVE  /\ OnDisk(entry)' = OnDisk(entry)
             /\ OnDisk(entryDisk)' = OnDisk(entryDisk)
             /\ acked' = acked
  <2>1. CASE Marshal(c) \/ MarshalFails(c) \/ CreateFails(c) \/ SyncFails(c) \/ RenameFails(c)
    BY <2>1 DEF Marshal, MarshalFails, CreateFails, SyncFails, RenameFails
  <2>2. CASE Create(c)
    BY <2>2, FileAssumption DEF Create, InUse
  <2>3. CASE WriteFile(c) \/ WriteFails(c)
    BY <2>3 DEF WriteFile, WriteFails
  <2>4. CASE Sync(c)
    <3>1. fd[c] \notin {entry["db"], entryDisk["db"]}
      BY <2>4 DEF Sync
    <3>2. QED
      BY <2>4, <3>1 DEF Sync, FlushFile
  <2>5. CASE Remove(c)
    BY <2>5 DEF Remove
  <2>6. QED
    BY <1>3, <2>1, <2>2, <2>3, <2>4, <2>5 DEF PersistStep
<1>4. QED
  BY <1>1, <1>2, <1>3

\* No step, no failing call, no kill and no power failure loses what was
\* acknowledged.
LEMMA AckStep == OneWriter /\ Survives /\ AckInv /\ [PNext]_pvars => AckInv'
<1> SUFFICES ASSUME OneWriter, Survives, AckInv, [PNext]_pvars PROVE AckInv'
  OBVIOUS
<1> USE DEF AckInv
<1>0. LInv'
  BY PInvStep, WritersStep, LayoutStep DEF LInv
<1>1. CASE UNCHANGED pvars
  BY <1>0, <1>1 DEF pvars, vars, files, NotStale, AckedVisible, Open, OnDisk
<1>2. CASE ~Kill /\ ~PowerFailure /\ ~Restart /\ PNext
  <2>1. NotStale' /\ AckedVisible'
    BY <1>2, SerialKept, OneWriterIsLone DEF Serial, LInv, Writers
  <2>2. ASSUME NEW c \in Conn, ConnStep(c) PROVE AckInv'
    BY <1>0, <2>1, <2>2, EngineIsLocal DEF ConnStep, files, OnDisk, LInv
  <2>3. ASSUME NEW c \in Conn, PersistStep(c) PROVE AckInv'
    <3>1. heap' = heap /\ committed' = committed
      BY <2>3, PersistIsQuiet DEF Quiet, memory
    <3>2. CASE Rename(c)
      BY <1>0, <2>1, <2>3, <3>1, <3>2, PersistMoves DEF AckedVisible
    <3>3. CASE ~Rename(c)
      BY <1>0, <2>1, <2>3, <3>1, <3>3, PersistMoves DEF AckedVisible
    <3>4. QED
      BY <3>2, <3>3
  <2>4. QED
    BY <1>2, <2>2, <2>3 DEF PNext
<1>3. CASE Kill \/ PowerFailure
  <2>1. NotStale' /\ AckedVisible'
    BY <1>3, NoTxFacts DEF Kill, PowerFailure, Die, NotStale, AckedVisible, Open
  <2>2. CASE Kill
    BY <1>0, <2>1, <2>2 DEF Kill, Die, files, OnDisk
  <2>3. CASE PowerFailure
    <3>1. DirSyncs
      BY <2>3 DEF PowerFailure, Survives
    <3>2. QED
      BY <1>0, <2>1, <2>3, <3>1 DEF PowerFailure, Die, OnDisk
  <2>4. QED
    BY <1>3, <2>2, <2>3
<1>4. CASE Restart
  <2>1. FileContents = OnDisk(entry)
    BY FileContentsAre
  <2>2. heap'[committed'] = FileContents
    BY <1>4 DEF Restart, LInv, PInv, IInv, TypeOK
  <2>3. NotStale'
    BY <1>4, NothingPending DEF Restart, history, NotStale, Open, LInv
  <2>4. QED
    BY <1>0, <1>4, <2>1, <2>2, <2>3 DEF Restart, history, files, AckedVisible, OnDisk
<1>5. QED
  BY <1>1, <1>2, <1>3, <1>4 DEF PNext

\* Nothing that was acknowledged is lost in any reachable state.
LEMMA AckInvariance == ASSUME OneWriter, Survives PROVE PSpec => []AckInv
<1>1. PInit => AckInv
  BY EngineInit, FileTypeInit, NoTxFacts
     DEF PInit, Init, AckInv, LInv, PInv, Writers, Workload, Layout, Apart, WholeFiles,
         Whole, Progress, Name, PersistPC, NotStale, AckedVisible, Open, OnDisk
<1>2. OneWriter /\ Survives /\ AckInv /\ [PNext]_pvars => AckInv'
  BY AckStep
<1>3. QED
  BY <1>1, <1>2, PTL DEF PSpec

(* "A committed transaction survives a kill -9" (README.md): with one       *)
(* writer, a restart finds every effect that a client was told is           *)
(* committed.  Of a power failure this holds if the directory sync, whose   *)
(* error persist() ignores, does not fail.                                  *)
THEOREM SurvivesKill == ASSUME OneWriter, Survives PROVE PSpec => []AckedDurable
<1>1. AckInv => AckedDurable
  BY FileContentsAre DEF AckInv, AckedDurable
<1>2. QED
  BY <1>1, AckInvariance, PTL

(* Then what a power failure leaves of either directory holds it as well.   *)
THEOREM SurvivesPowerFailure == ASSUME OneWriter, DirSyncs PROVE PSpec => []AckedOnDisk
<1>1. AckInv => AckedOnDisk
  BY FileAssumption
     DEF AckInv, LInv, Layout, WholeFiles, Whole, DirSyncs, OnDisk, AckedOnDisk
<1>2. QED
  BY <1>1, AckInvariance, PTL DEF Survives

-----------------------------------------------------------------------------
\* The state functions that module Persist substitutes for those of DurableStore.
Up == \E c \in Conn : pc[c] # "down"
Visible == heap[committed]

\* What can be found is what the two directories have on the disk.
LEMMA FoundIs == LInv => Found = {OnDisk(entry), OnDisk(entryDisk)}
BY FileContentsAre DEF Found, OnDisk

\* An empty directory is the empty database.
LEMMA DurableInit == OneWriter /\ PInit => Durable!Init
BY DEF OneWriter, PInit, Init, Name, Durable!Init, Found, FileContents

\* Every step is a commit, a save, a settlement, a crash, a restart or nothing.
LEMMA DurableStep ==
  OneWriter /\ DirSyncs /\ AckInv /\ AckInv' /\ [PNext]_pvars
    => [Durable!Next]_(Durable!vars)
<1> SUFFICES ASSUME OneWriter, DirSyncs, AckInv, AckInv', [PNext]_pvars
             PROVE  Durable!Next \/ UNCHANGED Durable!vars
  OBVIOUS
<1> DEFINE Same == UNCHANGED <<Up, Visible, Found, acked>>
<1>a. Same => UNCHANGED Durable!vars
  BY DEF Up, Visible, Durable!vars
<1>b0. (LInv => Found = {OnDisk(entry), OnDisk(entryDisk)})'
  BY FoundIs, PTL
<1>b. /\ Found = {OnDisk(entry), OnDisk(entryDisk)}
      /\ Found' = {OnDisk(entry)', OnDisk(entryDisk)'}
  BY FoundIs, <1>b0 DEF AckInv
<1>c. heap \in [Ref -> SUBSET Write] /\ committed \in Ref
  BY DEF AckInv, LInv, PInv, IInv, TypeOK
<1>1. CASE UNCHANGED pvars
  <2>1. Same
    BY <1>1, <1>b DEF pvars, vars, files, OnDisk, Up, Visible
  <2>2. QED
    BY <2>1, <1>a
<1>2. ASSUME NEW c \in Conn, ConnStep(c) PROVE Durable!Commit \/ Same
  <2>1. Up /\ Up' /\ acked' = acked /\ (Swap(c) \/ Visible' = Visible)
    BY <1>2, EngineIsLocal DEF Up, Visible, AckInv, LInv
  <2>2. Found' = Found
    BY <1>2, <1>b DEF ConnStep, files, OnDisk
  <2>3. CASE Swap(c)
    <3>1. Visible' = heap[tx[c].ref] /\ Open(c) /\ tx[c].ref \in Ref
      BY <2>3, NoTxFacts
         DEF Swap, Visible, Open, AckInv, LInv, PInv, IInv, TypeOK, ControlOK, Control
    <3>2. Visible \subseteq Visible' /\ Visible' \in SUBSET Write
      BY <3>1, <1>c DEF AckInv, NotStale, Visible
    <3>3. QED
      BY <2>1, <2>2, <3>2 DEF Durable!Commit, Up, Visible
  <2>4. QED
    BY <2>1, <2>2, <2>3
<1>3. ASSUME NEW c \in Conn, PersistStep(c)
      PROVE  Durable!Save \/ Durable!Settle \/ Same
  <2>1. Quiet(c)
    BY <1>3, PersistIsQuiet
  <2>2. Up /\ Up' /\ Visible' = Visible
    BY <2>1 DEF Quiet, memory, Up, Visible, PersistPC, AckInv, LInv, PInv, IInv, TypeOK
  <2>3. CASE Rename(c)
    <3>1. Found' = {OnDisk(entryDisk)} \union {Visible} /\ acked' = acked
      BY <1>3, <2>3, <1>b, PersistMoves DEF Rename, SyncDir, AckInv, Visible, history
    <3>2. {OnDisk(entryDisk)} \subseteq Found
      BY <1>b
    <3>3. QED
      BY <2>2, <3>1, <3>2 DEF Durable!Save, Up, Visible
  <2>4. CASE SyncDir(c)
    <3>1. /\ OnDisk(entry) = Visible /\ OnDisk(entry)' = Visible
          /\ OnDisk(entryDisk)' = Visible /\ acked' = acked \union writes[c]
      BY <1>3, <2>4, PersistMoves
         DEF Visible, AckInv, LInv, Layout, Progress, SyncDir, Answer, OnDisk,
             WholeFiles, Whole, DirSyncs
    <3>2. acked' \subseteq Visible
      BY <2>2 DEF AckInv, AckedVisible, Visible
    <3>3. QED
      BY <1>b, <2>2, <3>1, <3>2 DEF Durable!Settle, Up, Visible
  <2>5. CASE ~Rename(c) /\ ~SyncDir(c)
    BY <1>3, <1>b, <2>2, <2>5, PersistMoves DEF AckInv
  <2>6. QED
    BY <2>3, <2>4, <2>5
<1>4. CASE Kill \/ PowerFailure
  <2>1. Up /\ ~Up' /\ Visible' = Visible /\ acked' = acked
    BY <1>4 DEF Kill, PowerFailure, Die, Up, Visible
  <2>2. OnDisk(entry)' \in Found /\ OnDisk(entryDisk)' \in Found
    BY <1>4, <1>b DEF Kill, PowerFailure, files, OnDisk
  <2>3. Found' \in (SUBSET Found) \ {{}}
    BY <1>b, <2>2
  <2>4. Durable!Crash
    BY <2>1, <2>3 DEF Durable!Crash, Up, Visible
  <2>5. QED
    BY <2>4 DEF Durable!Next
<1>5. CASE Restart
  <2>1. ~Up /\ Up' /\ acked' = acked
    BY <1>5 DEF Restart, history, Up, OneWriter
  <2>2. Visible' = FileContents /\ Found' = Found
    BY <1>5, <1>b, <1>c DEF Restart, files, OnDisk, Visible
  <2>3. Visible' \in Found
    BY <2>2, <1>b, FileContentsAre DEF AckInv
  <2>4. Durable!Restart
    BY <2>1, <2>2, <2>3 DEF Durable!Restart, Up, Visible
  <2>5. QED
    BY <2>4 DEF Durable!Next
<1>6. QED
  BY <1>1, <1>2, <1>3, <1>4, <1>5, <1>a DEF PNext, Durable!Next

(* With one writer, and a directory sync that does not fail, the file       *)
(* system, the descriptors and the system calls in their order implement    *)
(* the store that saves whole states, across crashes of both kinds.         *)
THEOREM DurableRefinement ==
  ASSUME OneWriter, DirSyncs PROVE PSpec => ImplementsDurableStore
<1>1. OneWriter /\ PInit => Durable!Init
  BY DurableInit
<1>2. OneWriter /\ DirSyncs /\ AckInv /\ AckInv' /\ [PNext]_pvars
        => [Durable!Next]_(Durable!vars)
  BY DurableStep
<1>3. PSpec => []AckInv
  BY AckInvariance DEF Survives
<1>4. QED
  BY <1>1, <1>2, <1>3, PTL DEF PSpec, ImplementsDurableStore, Durable!Spec
=============================================================================
