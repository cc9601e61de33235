------------------------------- MODULE Engine --------------------------------
(***************************************************************************)
(* Connections, transactions and the write lock of the SQL engine           *)
(* (internal/engine/conn.go).                                               *)
(*                                                                          *)
(* A map of tables and indexes is an object of the heap, named by a Ref; its *)
(* contents are the set of effects (Write) of the statements that were run  *)
(* on it.  e.tables/e.indexes and c.tx.tables/c.tx.indexes are references,  *)
(* so that sharing a map by mistake is a behaviour of the model.  A         *)
(* connection executes one statement at a time; pc says which step of it    *)
(* comes next, and each step is at most one critical section of e.lock or   *)
(* e.writerL.                                                               *)
(*                                                                          *)
(* Statements that change nothing are stuttering steps and have no action:  *)
(* BEGIN inside a transaction, COMMIT and ROLLBACK outside of one, a write  *)
(* that finds "database is locked", a SELECT on the transaction's own copy, *)
(* and a statement rejected by the tokenizer.                               *)
(*                                                                          *)
(* A definition X_Slip is X with one slip a programmer could have made; it  *)
(* is no part of the specification, and a property below notices it.        *)
(***************************************************************************)
EXTENDS FiniteSets

CONSTANTS
  Conn,        \* the connections
  TxConn,      \* those whose client uses BEGIN ... COMMIT / ROLLBACK
  WriteConn,   \* those whose client runs writing statements
  Write,       \* the effects of writing statements: each is run at most once
  Ref,         \* names of the heap objects that hold a table and index map
  None,        \* nil
  Persistent   \* TRUE: e.dbPath # "", flush goes on to persist()

ASSUME WorkloadAssumption == TxConn \subseteq Conn /\ WriteConn \subseteq Conn
ASSUME NoneAssumption == None \notin Conn /\ None \notin Ref
ASSUME PersistentAssumption == Persistent \in BOOLEAN

VARIABLES
  heap,       \* the contents of every object
  committed,  \* e.tables, e.indexes
  writer,     \* e.writer
  tx,         \* c.tx: the working copy and whether it is of autocommit
  rd,         \* the snapshot a SELECT outside of a transaction reads
  pc,         \* the next step of the statement of a connection
  writes,     \* history: the effects its open or unanswered transaction made
  issued,     \* history: the effects run so far
  acked       \* history: the effects whose commit was answered with success

connVars == <<tx, rd, pc>>
history == <<writes, issued, acked>>
vars == <<heap, committed, writer, tx, rd, pc, writes, issued, acked>>

NoTx == [ref |-> None, implicit |-> FALSE]

\* The steps of persist(), which module Persist models, and a dead process.
PersistPC == {"marshal", "create", "write", "sync", "rename", "syncdir", "remove"}
PC == {"idle", "scan", "acquired", "run", "abort", "swap", "release", "down"}
        \union PersistPC

Init == /\ heap = [r \in Ref |-> {}]
        /\ committed \in Ref
        /\ writer = None
        /\ tx = [c \in Conn |-> NoTx]
        /\ rd = [c \in Conn |-> None]
        /\ pc = [c \in Conn |-> "idle"]
        /\ writes = [c \in Conn |-> {}]
        /\ issued = {}
        /\ acked = {}

-----------------------------------------------------------------------------
Goto(c, label) == pc' = [pc EXCEPT ![c] = label]

\* The objects some pointer of the program still reaches.
Reachable == {committed} \union {tx[c].ref : c \in Conn} \union {rd[c] : c \in Conn}

\* snapshot() and cloneState(): a copy of the committed maps in a new object.
CloneInto_Slip(r) == r = committed /\ UNCHANGED heap
CloneInto(r) == /\ r \in Ref \ Reachable
                /\ heap' = [heap EXCEPT ![r] = heap[committed]]

\* acquireWrite succeeds for the holder and when nobody holds the lock.
Available_Slip(c) == TRUE
Available(c) == writer \in {None, c}

\* releaseWrite: drops the lock if this connection holds it.
Release_Slip(c) == UNCHANGED writer
Release(c) == writer' = IF writer = c THEN None ELSE writer

\* c.tx = nil
CloseTx_Slip(c) == tx' = [tx EXCEPT ![c].ref = None]
CloseTx(c) == tx' = [tx EXCEPT ![c] = NoTx]

\* writeTables opens a transaction of its own unless one is open.
WriteTables_Slip(c) == Goto(c, "acquired")
WriteTables(c) == Goto(c, IF tx[c] = NoTx THEN "acquired" ELSE "run")

(* SELECT outside of a transaction (execRead): the snapshot is taken under  *)
(* e.lock, the tables are read afterwards without it.                       *)
Snapshot(c) == /\ pc[c] = "idle" /\ tx[c] = NoTx
               /\ rd' = [rd EXCEPT ![c] = committed]
               /\ Goto(c, "scan")
               /\ UNCHANGED <<heap, committed, writer, tx, history>>

EndScan(c) == /\ pc[c] = "scan"
              /\ rd' = [rd EXCEPT ![c] = None]
              /\ Goto(c, "idle")
              /\ UNCHANGED <<heap, committed, writer, tx, history>>

(* A writing statement (execWrite) takes the lock or fails at once.         *)
Acquire(c) == /\ pc[c] = "idle" /\ c \in WriteConn
              /\ Available(c)
              /\ writer' = c
              /\ WriteTables(c)
              /\ UNCHANGED <<heap, committed, tx, rd, history>>

OpenImplicit_Slip(c) == /\ pc[c] = "acquired" /\ writer = None
                        /\ \E r \in Ref : /\ CloneInto(r)
                                          /\ tx' = [tx EXCEPT ![c] = [ref |-> r, implicit |-> TRUE]]
                        /\ Goto(c, "run")
                        /\ UNCHANGED <<committed, writer, rd, history>>

\* The rest of writeTables in autocommit: a transaction for one statement.
OpenImplicit(c) == /\ pc[c] = "acquired"
                   /\ \E r \in Ref : /\ CloneInto(r)
                                     /\ tx' = [tx EXCEPT ![c] = [ref |-> r, implicit |-> TRUE]]
                   /\ Goto(c, "run")
                   /\ UNCHANGED <<committed, writer, rd, history>>

\* run(tbls, idx) succeeds: it has changed the working copy in place.
RunOk(c) == /\ pc[c] = "run"
            /\ \E w \in Write \ issued :
                 /\ heap' = [heap EXCEPT ![tx[c].ref] = @ \union {w}]
                 /\ writes' = [writes EXCEPT ![c] = @ \union {w}]
                 /\ issued' = issued \union {w}
            /\ Goto(c, IF tx[c].implicit THEN "swap" ELSE "idle")
            /\ UNCHANGED <<committed, writer, tx, rd, acked>>

\* run(tbls, idx) fails: every statement checks before it changes anything.
RunFail(c) == /\ pc[c] = "run"
              /\ Goto(c, IF tx[c].implicit THEN "abort" ELSE "idle")
              /\ UNCHANGED <<heap, committed, writer, tx, rd, history>>

\* execWrite after a failure in autocommit: lock and copy are given up.
Abort(c) == /\ pc[c] = "abort"
            /\ Release(c)
            /\ CloseTx(c)
            /\ Goto(c, "idle")
            /\ UNCHANGED <<heap, committed, rd, history>>

(* execBegin.                                                               *)
Begin(c) == /\ pc[c] = "idle" /\ tx[c] = NoTx /\ c \in TxConn
            /\ \E r \in Ref : /\ CloneInto(r)
                              /\ tx' = [tx EXCEPT ![c] = [ref |-> r, implicit |-> FALSE]]
            /\ UNCHANGED <<committed, writer, rd, pc, history>>

\* execCommit up to the call of flush, which needs no lock to be held.
Commit(c) == /\ pc[c] = "idle" /\ tx[c] # NoTx
             /\ Goto(c, "swap")
             /\ UNCHANGED <<heap, committed, writer, tx, rd, history>>

(* execRollback.                                                            *)
Rollback(c) == /\ pc[c] = "idle" /\ tx[c] # NoTx
               /\ Release(c)
               /\ CloseTx(c)
               /\ writes' = [writes EXCEPT ![c] = {}]
               /\ UNCHANGED <<heap, committed, rd, pc, issued, acked>>

(* flush: the committed maps are replaced under e.lock; then the write lock *)
(* is released and the transaction closed; then, if there is a file, the    *)
(* state is persisted before the statement is answered.                     *)
Swap(c) == /\ pc[c] = "swap"
           /\ committed' = tx[c].ref
           /\ Goto(c, "release")
           /\ UNCHANGED <<heap, writer, tx, rd, history>>

\* The statement is answered with success.
Answer(c) == /\ acked' = acked \union writes[c]
             /\ writes' = [writes EXCEPT ![c] = {}]
             /\ UNCHANGED issued

EndFlush(c) == /\ pc[c] = "release"
               /\ Release(c)
               /\ CloseTx(c)
               /\ IF Persistent THEN Goto(c, "marshal") /\ UNCHANGED history
                                ELSE Goto(c, "idle") /\ Answer(c)
               /\ UNCHANGED <<heap, committed, rd>>

-----------------------------------------------------------------------------
\* The steps of a statement that has been started...
Continue(c) == \/ EndScan(c)
               \/ OpenImplicit(c) \/ RunOk(c) \/ RunFail(c) \/ Abort(c)
               \/ Swap(c) \/ EndFlush(c)

\* ... and those that wait for the client.
Start(c) == Snapshot(c) \/ Acquire(c) \/ Begin(c) \/ Commit(c) \/ Rollback(c)

EngineStep == \E c \in Conn : Start(c) \/ Continue(c)

Spec == Init /\ [][EngineStep]_vars

\* The scheduler runs every goroutine: a started statement goes on.
FairSpec == Spec /\ \A c \in Conn : WF_vars(Continue(c))

\* In addition, a client that can end its transaction again and again does.
EndTx(c) == Commit(c) \/ Rollback(c)
FairClientSpec == FairSpec /\ \A c \in Conn : SF_vars(EndTx(c))

-----------------------------------------------------------------------------
\* The transaction of c is open until flush has made its copy the committed one.
Open(c) == tx[c] # NoTx /\ pc[c] # "release"

\* Every variable has the type its Go declaration gives it.
TypeOK == /\ heap \in [Ref -> SUBSET Write]
          /\ committed \in Ref
          /\ writer \in Conn \union {None}
          /\ tx \in [Conn -> [ref : Ref, implicit : BOOLEAN] \union {NoTx}]
          /\ rd \in [Conn -> Ref \union {None}]
          /\ pc \in [Conn -> PC]
          /\ writes \in [Conn -> SUBSET Write]
          /\ issued \in SUBSET Write
          /\ acked \in SUBSET Write

(* "The write lock implements mutual exclusion" (conn.go): a connection     *)
(* whose transaction has changed its copy holds the write lock, so no two   *)
(* connections ever have unpublished changes.                               *)
WriteExclusion == \A c \in Conn : tx[c] # NoTx /\ writes[c] # {} => writer = c

(* No statement leaks the lock or an autocommit transaction: between two    *)
(* statements a connection that holds the lock has an explicit transaction  *)
(* open, and no autocommit transaction is left behind.                      *)
NothingLeaked == \A c \in Conn : pc[c] \in {"idle", "scan"} \union PersistPC =>
                    /\ ~tx[c].implicit
                    /\ writer = c => tx[c] # NoTx

(* "Committed Table values are never mutated in place" (conn.go): the copy  *)
(* that statements change is reached by no other connection, and neither a  *)
(* reader nor the committed state shares it.                                *)
NoSharing == \A c \in Conn : Open(c) =>
                /\ tx[c].ref # committed
                /\ \A d \in Conn : rd[d] # tx[c].ref
                /\ \A d \in Conn \ {c} : tx[d].ref # tx[c].ref

(* Snapshot isolation as far as the code provides it: private copies,       *)
(* stable reads, one author at a time, commit in one step.                  *)
Author(c) == Open(c) /\ writes[c] # {}
Store == INSTANCE TxStore WITH
           store <- heap[committed],
           open <- {c \in Conn : Open(c)},
           view <- [c \in Conn |-> IF Open(c) THEN heap[tx[c].ref] ELSE {}],
           author <- {c \in Conn : Author(c)},
           reading <- {c \in Conn : rd[c] # None},
           seen <- [c \in Conn |-> IF rd[c] # None THEN heap[rd[c]] ELSE {}]
ImplementsTxStore == Store!Spec

(* No update is lost: what a client was told is committed stays in the      *)
(* committed state.                                                         *)
AckedVisible == acked \subseteq heap[committed]

(* Every started statement is answered: nothing in the engine waits for     *)
(* another connection.                                                      *)
StatementsReturn == \A c \in Conn : pc[c] # "idle" ~> pc[c] = "idle"

(* The write lock becomes free again if clients end their transactions.     *)
LockIsFreed == \A c \in Conn : writer = c ~> writer # c
=============================================================================
