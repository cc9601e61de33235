---------------------------- MODULE EngineProofs -----------------------------
(***************************************************************************)
(* Proofs about module Engine, for any number of connections, objects and   *)
(* effects, with and without a database file.                               *)
(***************************************************************************)
EXTENDS Engine, TLAPS

(* What the step a connection has reached says about its transaction, its   *)
(* snapshot and the write lock.  The invariants of module Engine are not    *)
(* inductive without it: WriteExclusion, for one, needs that a statement    *)
(* only runs under the lock and that a transaction opens without changes.   *)
Control(c) ==
  /\ pc[c] = "scan" <=> rd[c] # None
  /\ pc[c] \in {"scan", "acquired", "down"} \union PersistPC => tx[c] = NoTx
  /\ pc[c] \in {"run", "abort", "swap", "release"} => tx[c] # NoTx
  /\ pc[c] \in {"acquired", "run", "abort"} => writer = c
  /\ pc[c] = "abort" => tx[c].implicit
  /\ tx[c].implicit => writer = c /\ pc[c] \in {"run", "abort", "swap", "release"}
  /\ writer = c => tx[c] # NoTx \/ pc[c] = "acquired"
  /\ tx[c] = NoTx /\ pc[c] \notin PersistPC => writes[c] = {}
  /\ tx[c].implicit /\ pc[c] \in {"run", "abort"} => writes[c] = {}

ControlOK == \A c \in Conn : Control(c)

IInv == TypeOK /\ ControlOK /\ WriteExclusion /\ NoSharing

\* The nil transaction is none of the transactions a connection can open.
LEMMA NoTxFacts == /\ NoTx.ref = None /\ NoTx.implicit = FALSE
                   /\ NoTx \notin [ref : Ref, implicit : BOOLEAN]
BY NoneAssumption DEF NoTx

\* The types hold at the start...
LEMMA TypeInit == Init => TypeOK
BY NoTxFacts DEF Init, TypeOK, PC, PersistPC

\* ... and a statement only runs on a copy that exists, so every step keeps them.
LEMMA TypeStep == TypeOK /\ ControlOK /\ [EngineStep]_vars => TypeOK'
<1> USE NoTxFacts, NoneAssumption DEF TypeOK
<1> SUFFICES ASSUME TypeOK, ControlOK, [EngineStep]_vars PROVE TypeOK'
  OBVIOUS
<1>1. CASE UNCHANGED vars
  BY <1>1 DEF vars
<1>2. ASSUME NEW c \in Conn, Snapshot(c) PROVE TypeOK'
  BY <1>2 DEF Snapshot, Goto, history, PC
<1>3. ASSUME NEW c \in Conn, EndScan(c) PROVE TypeOK'
  BY <1>3 DEF EndScan, Goto, history, PC
<1>4. ASSUME NEW c \in Conn, Acquire(c) PROVE TypeOK'
  BY <1>4 DEF Acquire, WriteTables, Goto, history, PC
<1>5. ASSUME NEW c \in Conn, OpenImplicit(c) PROVE TypeOK'
  BY <1>5 DEF OpenImplicit, CloneInto, Goto, history, PC
<1>6. ASSUME NEW c \in Conn, RunOk(c) PROVE TypeOK'
  BY <1>6 DEF RunOk, Goto, PC, ControlOK, Control
<1>7. ASSUME NEW c \in Conn, RunFail(c) PROVE TypeOK'
  BY <1>7 DEF RunFail, Goto, history, PC
<1>8. ASSUME NEW c \in Conn, Abort(c) PROVE TypeOK'
  BY <1>8 DEF Abort, Release, CloseTx, Goto, history, PC
<1>9. ASSUME NEW c \in Conn, Begin(c) PROVE TypeOK'
  BY <1>9 DEF Begin, CloneInto, history
<1>10. ASSUME NEW c \in Conn, Commit(c) PROVE TypeOK'
  BY <1>10 DEF Commit, Goto, history, PC
<1>11. ASSUME NEW c \in Conn, Rollback(c) PROVE TypeOK'
  BY <1>11 DEF Rollback, Release, CloseTx
<1>12. ASSUME NEW c \in Conn, Swap(c) PROVE TypeOK'
  BY <1>12 DEF Swap, Goto, history, PC, ControlOK, Control
<1>13. ASSUME NEW c \in Conn, EndFlush(c) PROVE TypeOK'
  BY <1>13 DEF EndFlush, Release, CloseTx, Answer, Goto, history, PC, PersistPC
<1>14. QED
  BY <1>1, <1>2, <1>3, <1>4, <1>5, <1>6, <1>7, <1>8, <1>9, <1>10, <1>11, <1>12, <1>13
     DEF EngineStep, Start, Continue

\* No statement has been started at the start.
LEMMA ControlInit == Init => ControlOK
BY NoTxFacts, NoneAssumption DEF Init, ControlOK, Control, PersistPC

\* Every step leaves each connection with the lock and the transaction that the
\* step it has reached calls for.
LEMMA ControlStep == TypeOK /\ ControlOK /\ [EngineStep]_vars => ControlOK'
<1> USE NoTxFacts, NoneAssumption DEF TypeOK, ControlOK, Control, PC, PersistPC
<1> SUFFICES ASSUME TypeOK, ControlOK, [EngineStep]_vars, NEW d \in Conn
             PROVE  Control(d)'
  OBVIOUS
<1>1. CASE UNCHANGED vars
  BY <1>1 DEF vars
<1>2. ASSUME NEW c \in Conn, Snapshot(c) PROVE Control(d)'
  BY <1>2 DEF Snapshot, Goto, history
<1>3. ASSUME NEW c \in Conn, EndScan(c) PROVE Control(d)'
  BY <1>3 DEF EndScan, Goto, history
<1>4. ASSUME NEW c \in Conn, Acquire(c) PROVE Control(d)'
  BY <1>4 DEF Acquire, Available, WriteTables, Goto, history
<1>5. ASSUME NEW c \in Conn, OpenImplicit(c) PROVE Control(d)'
  BY <1>5 DEF OpenImplicit, CloneInto, Goto, history
<1>6. ASSUME NEW c \in Conn, RunOk(c) PROVE Control(d)'
  BY <1>6 DEF RunOk, Goto
<1>7. ASSUME NEW c \in Conn, RunFail(c) PROVE Control(d)'
  BY <1>7 DEF RunFail, Goto, history
<1>8. ASSUME NEW c \in Conn, Abort(c) PROVE Control(d)'
  BY <1>8 DEF Abort, Release, CloseTx, Goto, history
<1>9. ASSUME NEW c \in Conn, Begin(c) PROVE Control(d)'
  BY <1>9 DEF Begin, CloneInto, history
<1>10. ASSUME NEW c \in Conn, Commit(c) PROVE Control(d)'
  BY <1>10 DEF Commit, Goto, history
<1>11. ASSUME NEW c \in Conn, Rollback(c) PROVE Control(d)'
  BY <1>11 DEF Rollback, Release, CloseTx
<1>12. ASSUME NEW c \in Conn, Swap(c) PROVE Control(d)'
  BY <1>12 DEF Swap, Goto, history
<1>13. ASSUME NEW c \in Conn, EndFlush(c) PROVE Control(d)'
  BY <1>13 DEF EndFlush, Release, CloseTx, Answer, Goto, history
<1>14. QED
  BY <1>1, <1>2, <1>3, <1>4, <1>5, <1>6, <1>7, <1>8, <1>9, <1>10, <1>11, <1>12, <1>13
     DEF EngineStep, Start, Continue

\* Only a statement that holds the lock changes a copy, and the lock is only
\* given up together with the transaction.
LEMMA ExclusionStep ==
  TypeOK /\ ControlOK /\ WriteExclusion /\ [EngineStep]_vars => WriteExclusion'
<1> USE NoTxFacts, NoneAssumption
    DEF TypeOK, ControlOK, Control, WriteExclusion, PC, PersistPC
<1> SUFFICES ASSUME TypeOK, ControlOK, WriteExclusion, [EngineStep]_vars, NEW d \in Conn
             PROVE  tx'[d] # NoTx /\ writes'[d] # {} => writer' = d
  OBVIOUS
<1>1. CASE UNCHANGED vars
  BY <1>1 DEF vars
<1>2. ASSUME NEW c \in Conn, Snapshot(c) PROVE tx'[d] # NoTx /\ writes'[d] # {} => writer' = d
  BY <1>2 DEF Snapshot, Goto, history
<1>3. ASSUME NEW c \in Conn, EndScan(c) PROVE tx'[d] # NoTx /\ writes'[d] # {} => writer' = d
  BY <1>3 DEF EndScan, Goto, history
<1>4. ASSUME NEW c \in Conn, Acquire(c) PROVE tx'[d] # NoTx /\ writes'[d] # {} => writer' = d
  BY <1>4 DEF Acquire, Available, WriteTables, Goto, history
<1>5. ASSUME NEW c \in Conn, OpenImplicit(c) PROVE tx'[d] # NoTx /\ writes'[d] # {} => writer' = d
  BY <1>5 DEF OpenImplicit, CloneInto, Reachable, Goto, history
<1>6. ASSUME NEW c \in Conn, RunOk(c) PROVE tx'[d] # NoTx /\ writes'[d] # {} => writer' = d
  BY <1>6 DEF RunOk, Goto
<1>7. ASSUME NEW c \in Conn, RunFail(c) PROVE tx'[d] # NoTx /\ writes'[d] # {} => writer' = d
  BY <1>7 DEF RunFail, Goto, history
<1>8. ASSUME NEW c \in Conn, Abort(c) PROVE tx'[d] # NoTx /\ writes'[d] # {} => writer' = d
  BY <1>8 DEF Abort, Release, CloseTx, Goto, history
<1>9. ASSUME NEW c \in Conn, Begin(c) PROVE tx'[d] # NoTx /\ writes'[d] # {} => writer' = d
  BY <1>9 DEF Begin, CloneInto, Reachable, history
<1>10. ASSUME NEW c \in Conn, Commit(c) PROVE tx'[d] # NoTx /\ writes'[d] # {} => writer' = d
  BY <1>10 DEF Commit, Goto, history
<1>11. ASSUME NEW c \in Conn, Rollback(c) PROVE tx'[d] # NoTx /\ writes'[d] # {} => writer' = d
  BY <1>11 DEF Rollback, Release, CloseTx
<1>12. ASSUME NEW c \in Conn, Swap(c) PROVE tx'[d] # NoTx /\ writes'[d] # {} => writer' = d
  BY <1>12 DEF Swap, Goto, history
<1>13. ASSUME NEW c \in Conn, EndFlush(c) PROVE tx'[d] # NoTx /\ writes'[d] # {} => writer' = d
  BY <1>13 DEF EndFlush, Release, CloseTx, Answer, Goto, history
<1>14. QED
  BY <1>1, <1>2, <1>3, <1>4, <1>5, <1>6, <1>7, <1>8, <1>9, <1>10, <1>11, <1>12, <1>13
     DEF EngineStep, Start, Continue

\* New copies go into unreachable objects, and flush hands its object over.
LEMMA SharingStep ==
  TypeOK /\ ControlOK /\ NoSharing /\ [EngineStep]_vars => NoSharing'
<1> USE NoTxFacts, NoneAssumption
    DEF TypeOK, ControlOK, Control, NoSharing, Open, PC, PersistPC
<1> SUFFICES ASSUME TypeOK, ControlOK, NoSharing, [EngineStep]_vars,
                    NEW d \in Conn, Open(d)', NEW e \in Conn
             PROVE  /\ tx'[d].ref # committed'
                    /\ rd'[e] # tx'[d].ref
                    /\ e # d => tx'[e].ref # tx'[d].ref
  OBVIOUS
<1> DEFINE Goal == /\ tx'[d].ref # committed'
                   /\ rd'[e] # tx'[d].ref
                   /\ e # d => tx'[e].ref # tx'[d].ref
<1>1. CASE UNCHANGED vars
  BY <1>1 DEF vars
<1>2. ASSUME NEW c \in Conn, Snapshot(c) PROVE Goal
  BY <1>2 DEF Snapshot, Goto, history
<1>3. ASSUME NEW c \in Conn, EndScan(c) PROVE Goal
  BY <1>3 DEF EndScan, Goto, history
<1>4. ASSUME NEW c \in Conn, Acquire(c) PROVE Goal
  BY <1>4 DEF Acquire, Available, WriteTables, Goto, history
<1>5. ASSUME NEW c \in Conn, OpenImplicit(c) PROVE Goal
  BY <1>5 DEF OpenImplicit, CloneInto, Reachable, Goto, history
<1>6. ASSUME NEW c \in Conn, RunOk(c) PROVE Goal
  BY <1>6 DEF RunOk, Goto
<1>7. ASSUME NEW c \in Conn, RunFail(c) PROVE Goal
  BY <1>7 DEF RunFail, Goto, history
<1>8. ASSUME NEW c \in Conn, Abort(c) PROVE Goal
  BY <1>8 DEF Abort, Release, CloseTx, Goto, history
<1>9. ASSUME NEW c \in Conn, Begin(c) PROVE Goal
  BY <1>9 DEF Begin, CloneInto, Reachable, history
<1>10. ASSUME NEW c \in Conn, Commit(c) PROVE Goal
  BY <1>10 DEF Commit, Goto, history
<1>11. ASSUME NEW c \in Conn, Rollback(c) PROVE Goal
  BY <1>11 DEF Rollback, Release, CloseTx
<1>12. ASSUME NEW c \in Conn, Swap(c) PROVE Goal
  BY <1>12 DEF Swap, Goto, history
<1>13. ASSUME NEW c \in Conn, EndFlush(c) PROVE Goal
  BY <1>13 DEF EndFlush, Release, CloseTx, Answer, Goto, history
<1>14. QED
  BY <1>1, <1>2, <1>3, <1>4, <1>5, <1>6, <1>7, <1>8, <1>9, <1>10, <1>11, <1>12, <1>13
     DEF EngineStep, Start, Continue

-----------------------------------------------------------------------------
\* The conjunction of all of it is inductive.
LEMMA InvInit == Init => IInv
BY TypeInit, ControlInit, NoTxFacts
   DEF Init, IInv, WriteExclusion, NoSharing, Open

\* No step of the engine breaks it.
LEMMA InvStep == IInv /\ [EngineStep]_vars => IInv'
BY TypeStep, ControlStep, ExclusionStep, SharingStep DEF IInv

\* The inductive invariant holds in every reachable state.
THEOREM Invariance == Spec => []IInv
BY InvInit, InvStep, PTL DEF Spec

(* Every variable keeps the type of its Go declaration.                     *)
THEOREM TypeCorrect == Spec => []TypeOK
<1>1. IInv => TypeOK
  BY DEF IInv
<1>2. QED
  BY <1>1, Invariance, PTL

(* The write lock excludes: a connection with unpublished changes holds it. *)
THEOREM Exclusion == Spec => []WriteExclusion
<1>1. IInv => WriteExclusion
  BY DEF IInv
<1>2. QED
  BY <1>1, Invariance, PTL

(* No statement leaves the lock or an autocommit transaction behind.        *)
THEOREM NoLeak == Spec => []NothingLeaked
<1>1. IInv => NothingLeaked
  BY NoTxFacts DEF IInv, TypeOK, ControlOK, Control, NothingLeaked, PersistPC
<1>2. QED
  BY <1>1, Invariance, PTL

(* Working copies are private: no pointer to the committed tables or of a   *)
(* reader leads into one.                                                   *)
THEOREM PrivateCopies == Spec => []NoSharing
<1>1. IInv => NoSharing
  BY DEF IInv
<1>2. QED
  BY <1>1, Invariance, PTL

-----------------------------------------------------------------------------
\* The state functions that module Engine substitutes for those of TxStore.
opened == {c \in Conn : Open(c)}
viewed == [c \in Conn |-> IF Open(c) THEN heap[tx[c].ref] ELSE {}]
authors == {c \in Conn : Author(c)}
readers == {c \in Conn : rd[c] # None}
shown == [c \in Conn |-> IF rd[c] # None THEN heap[rd[c]] ELSE {}]

\* The empty engine is the empty store.
LEMMA StoreInit == Init => Store!Init
BY NoTxFacts DEF Init, Store!Init, Open, Author

\* Every step of the engine is a step of the store or changes nothing there.
LEMMA StoreStep == IInv /\ [EngineStep]_vars => [Store!Next]_(Store!vars)
<1> USE NoTxFacts, NoneAssumption
    DEF IInv, TypeOK, ControlOK, Control, NoSharing, Open, Author
<1> SUFFICES ASSUME IInv, [EngineStep]_vars
             PROVE  Store!Next \/ UNCHANGED Store!vars
  OBVIOUS
<1>1. CASE UNCHANGED vars
  BY <1>1 DEF vars, Store!vars
<1>2. ASSUME NEW c \in Conn, Snapshot(c) PROVE Store!Look(c)
  <2>1. c \notin readers /\ readers' = readers \union {c}
    BY <1>2 DEF Snapshot, Goto, history, readers
  <2>2. shown' = [shown EXCEPT ![c] = heap[committed]]
    BY <1>2 DEF Snapshot, Goto, history, shown
  <2>3. UNCHANGED <<heap[committed], opened, viewed, authors>>
    BY <1>2 DEF Snapshot, Goto, history, opened, viewed, authors
  <2>4. QED
    BY <2>1, <2>2, <2>3 DEF readers, shown, opened, viewed, authors, Store!Look
<1>3. ASSUME NEW c \in Conn, EndScan(c) PROVE Store!LookAway(c)
  BY <1>3 DEF EndScan, Goto, history, Store!LookAway
<1>4. ASSUME NEW c \in Conn, Acquire(c) PROVE UNCHANGED Store!vars
  BY <1>4 DEF Acquire, Available, WriteTables, Goto, history, Store!vars
<1>5. ASSUME NEW c \in Conn, OpenImplicit(c) PROVE Store!Open(c)
  <2>1. PICK r \in Ref \ Reachable : heap' = [heap EXCEPT ![r] = heap[committed]]
                                    /\ tx'[c].ref = r /\ tx'[c] # NoTx
    <3>1. PICK r \in Ref \ Reachable :
            /\ heap' = [heap EXCEPT ![r] = heap[committed]]
            /\ tx' = [tx EXCEPT ![c] = [ref |-> r, implicit |-> TRUE]]
      BY <1>5 DEF OpenImplicit, CloneInto
    <3>2. tx'[c] = [ref |-> r, implicit |-> TRUE]
      BY <3>1
    <3>3. tx'[c].ref = r /\ tx'[c] # NoTx
      BY <3>2
    <3>4. QED
      BY <3>1, <3>3
  <2>2. /\ \A d \in Conn \ {c} : tx'[d] = tx[d] /\ Open(d)' = Open(d)
        /\ tx[c] = NoTx /\ Open(c)' /\ UNCHANGED <<committed, rd, writes>>
    BY <1>5, <2>1 DEF OpenImplicit, Goto, history, PersistPC
  <2>3. \A o \in Reachable : o \in Ref => heap'[o] = heap[o]
    BY <2>1
  <2>4. c \notin opened /\ opened' = opened \union {c}
    BY <2>2 DEF opened
  <2>5. viewed' = [viewed EXCEPT ![c] = heap[committed]]
    <3>1. ASSUME NEW d \in Conn \ {c}, Open(d)
          PROVE  heap'[tx'[d].ref] = heap[tx[d].ref]
      BY <3>1, <2>2, <2>3 DEF Reachable
    <3>2. heap'[tx'[c].ref] = heap[committed]
      BY <2>1
    <3>3. \A d \in Conn : Open(d)' <=> d = c \/ Open(d)
      BY <2>2
    <3>4. QED
      <4> HIDE DEF Open, TypeOK, ControlOK, NoSharing
      <4>1. QED
        BY <3>1, <3>2, <3>3 DEF viewed
  <2>6. authors' = authors
    BY <1>5, <2>2 DEF OpenImplicit, authors, PersistPC
  <2>7. UNCHANGED <<heap[committed], readers, shown>>
    BY <2>2, <2>3 DEF readers, shown, Reachable
  <2>8. QED
    BY <2>4, <2>5, <2>6, <2>7 DEF readers, shown, opened, viewed, authors, Store!Open
<1>6. ASSUME NEW c \in Conn, RunOk(c) PROVE Store!Change(c)
  <2> DEFINE o == tx[c].ref
  <2>1. PICK w \in Write : /\ heap' = [heap EXCEPT ![o] = @ \union {w}]
                          /\ writes' = [writes EXCEPT ![c] = @ \union {w}]
    BY <1>6 DEF RunOk
  <2>2. /\ UNCHANGED <<tx, rd, committed>> /\ o \in Ref /\ Open(c) /\ Open(c)'
        /\ \A d \in Conn : Open(d)' = Open(d)
    BY <1>6 DEF RunOk, Goto
  <2>3. c \in opened /\ opened' = opened
    BY <2>2 DEF opened
  <2>4. viewed' = [viewed EXCEPT ![c] = @ \union {w}]
    BY <2>1, <2>2 DEF viewed
  <2>5. authors \subseteq {c} /\ authors' = {c}
    <3>1. writer = c
      BY <1>6 DEF RunOk
    <3>2. authors \subseteq {c}
      BY <3>1 DEF authors, WriteExclusion
    <3>3. \A d \in Conn : d # c => writes'[d] = writes[d]
      BY <2>1
    <3>4. writes'[c] # {}
      BY <2>1
    <3>5. QED
      BY <2>2, <3>2, <3>3, <3>4 DEF authors
  <2>6. UNCHANGED <<heap[committed], readers, shown>>
    BY <2>1, <2>2 DEF readers, shown
  <2>7. QED
    BY <2>3, <2>4, <2>5, <2>6 DEF readers, shown, opened, viewed, authors, Store!Change
<1>7. ASSUME NEW c \in Conn, RunFail(c) PROVE UNCHANGED Store!vars
  BY <1>7 DEF RunFail, Goto, history, Store!vars
<1>8. ASSUME NEW c \in Conn, Abort(c) PROVE Store!Discard(c)
  BY <1>8 DEF Abort, Release, CloseTx, Goto, history, Store!Discard, Store!Close
<1>9. ASSUME NEW c \in Conn, Begin(c) PROVE Store!Open(c)
  <2>1. PICK r \in Ref \ Reachable : heap' = [heap EXCEPT ![r] = heap[committed]]
                                    /\ tx'[c].ref = r /\ tx'[c] # NoTx
    <3>1. PICK r \in Ref \ Reachable :
            /\ heap' = [heap EXCEPT ![r] = heap[committed]]
            /\ tx' = [tx EXCEPT ![c] = [ref |-> r, implicit |-> FALSE]]
      BY <1>9 DEF Begin, CloneInto
    <3>2. tx'[c] = [ref |-> r, implicit |-> FALSE]
      BY <3>1
    <3>3. tx'[c].ref = r /\ tx'[c] # NoTx
      BY <3>2
    <3>4. QED
      BY <3>1, <3>3
  <2>2. /\ \A d \in Conn \ {c} : tx'[d] = tx[d] /\ Open(d)' = Open(d)
        /\ tx[c] = NoTx /\ Open(c)' /\ UNCHANGED <<committed, rd, writes>>
    BY <1>9, <2>1 DEF Begin, Goto, history, PersistPC
  <2>3. \A o \in Reachable : o \in Ref => heap'[o] = heap[o]
    BY <2>1
  <2>4. c \notin opened /\ opened' = opened \union {c}
    BY <2>2 DEF opened
  <2>5. viewed' = [viewed EXCEPT ![c] = heap[committed]]
    <3>1. ASSUME NEW d \in Conn \ {c}, Open(d)
          PROVE  heap'[tx'[d].ref] = heap[tx[d].ref]
      BY <3>1, <2>2, <2>3 DEF Reachable
    <3>2. heap'[tx'[c].ref] = heap[committed]
      BY <2>1
    <3>3. \A d \in Conn : Open(d)' <=> d = c \/ Open(d)
      BY <2>2
    <3>4. QED
      <4> HIDE DEF Open, TypeOK, ControlOK, NoSharing
      <4>1. QED
        BY <3>1, <3>2, <3>3 DEF viewed
  <2>6. authors' = authors
    BY <1>9, <2>2 DEF Begin, authors, PersistPC
  <2>7. UNCHANGED <<heap[committed], readers, shown>>
    BY <2>2, <2>3 DEF readers, shown, Reachable
  <2>8. QED
    BY <2>4, <2>5, <2>6, <2>7 DEF readers, shown, opened, viewed, authors, Store!Open
<1>10. ASSUME NEW c \in Conn, Commit(c) PROVE UNCHANGED Store!vars
  BY <1>10 DEF Commit, Goto, history, Store!vars
<1>11. ASSUME NEW c \in Conn, Rollback(c) PROVE Store!Discard(c)
  BY <1>11 DEF Rollback, Release, CloseTx, Store!Discard, Store!Close
<1>12. ASSUME NEW c \in Conn, Swap(c) PROVE Store!Publish(c)
  BY <1>12 DEF Swap, Goto, history, Store!Publish, Store!Close
<1>13. ASSUME NEW c \in Conn, EndFlush(c) PROVE UNCHANGED Store!vars
  BY <1>13 DEF EndFlush, Release, CloseTx, Answer, Goto, history, Store!vars
<1>14. QED
  BY <1>1, <1>2, <1>3, <1>4, <1>5, <1>6, <1>7, <1>8, <1>9, <1>10, <1>11, <1>12, <1>13
     DEF EngineStep, Start, Continue, Store!Next, Store!Step

(* The engine with its pointers, lock and steps implements the store with   *)
(* private views, one author and commits in one step.                       *)
THEOREM Refinement == Spec => ImplementsTxStore
BY StoreInit, StoreStep, Invariance, PTL DEF Spec, ImplementsTxStore, Store!Spec

-----------------------------------------------------------------------------
(* No update is lost as long as a client that uses BEGIN is the only one    *)
(* that does and the only one that writes; in particular if nobody uses     *)
(* BEGIN.  Without this workload module MCEngine finds the counterexample.  *)
LoneTxClient == \A c \in TxConn, d \in TxConn \union WriteConn : c = d

(* Who opens which transactions, and that every copy grows from the         *)
(* committed contents: no transaction is stale.                             *)
Workload == \A c \in Conn :
  /\ pc[c] = "acquired" => c \in WriteConn
  /\ tx[c].implicit => c \in WriteConn
  /\ tx[c] # NoTx /\ ~tx[c].implicit => c \in TxConn
NotStale == \A c \in Conn :
  /\ Open(c) => heap[committed] \union writes[c] \subseteq heap[tx[c].ref]
  /\ ~Open(c) => writes[c] \subseteq heap[committed]

SInv == IInv /\ Workload /\ NotStale /\ AckedVisible

\* Transactions are only opened by the clients that may.
LEMMA WorkloadStep == TypeOK /\ ControlOK /\ Workload /\ [EngineStep]_vars => Workload'
<1> USE NoTxFacts, NoneAssumption
    DEF TypeOK, ControlOK, Control, Workload, PC, PersistPC
<1> SUFFICES ASSUME TypeOK, ControlOK, Workload, [EngineStep]_vars, NEW d \in Conn
             PROVE  /\ pc'[d] = "acquired" => d \in WriteConn
                    /\ tx'[d].implicit => d \in WriteConn
                    /\ tx'[d] # NoTx /\ ~tx'[d].implicit => d \in TxConn
  OBVIOUS
<1> DEFINE Goal == /\ pc'[d] = "acquired" => d \in WriteConn
                   /\ tx'[d].implicit => d \in WriteConn
                   /\ tx'[d] # NoTx /\ ~tx'[d].implicit => d \in TxConn
<1>1. CASE UNCHANGED vars
  BY <1>1 DEF vars
<1>2. ASSUME NEW c \in Conn, Snapshot(c) PROVE Goal
  BY <1>2 DEF Snapshot, Goto, history
<1>3. ASSUME NEW c \in Conn, EndScan(c) PROVE Goal
  BY <1>3 DEF EndScan, Goto, history
<1>4. ASSUME NEW c \in Conn, Acquire(c) PROVE Goal
  BY <1>4 DEF Acquire, Available, WriteTables, Goto, history
<1>5. ASSUME NEW c \in Conn, OpenImplicit(c) PROVE Goal
  BY <1>5 DEF OpenImplicit, CloneInto, Reachable, Goto, history
<1>6. ASSUME NEW c \in Conn, RunOk(c) PROVE Goal
  BY <1>6 DEF RunOk, Goto
<1>7. ASSUME NEW c \in Conn, RunFail(c) PROVE Goal
  BY <1>7 DEF RunFail, Goto, history
<1>8. ASSUME NEW c \in Conn, Abort(c) PROVE Goal
  BY <1>8 DEF Abort, Release, CloseTx, Goto, history
<1>9. ASSUME NEW c \in Conn, Begin(c) PROVE Goal
  BY <1>9 DEF Begin, CloneInto, Reachable, history
<1>10. ASSUME NEW c \in Conn, Commit(c) PROVE Goal
  BY <1>10 DEF Commit, Goto, history
<1>11. ASSUME NEW c \in Conn, Rollback(c) PROVE Goal
  BY <1>11 DEF Rollback, Release, CloseTx
<1>12. ASSUME NEW c \in Conn, Swap(c) PROVE Goal
  BY <1>12 DEF Swap, Goto, history
<1>13. ASSUME NEW c \in Conn, EndFlush(c) PROVE Goal
  BY <1>13 DEF EndFlush, Release, CloseTx, Answer, Goto, history
<1>14. QED
  BY <1>1, <1>2, <1>3, <1>4, <1>5, <1>6, <1>7, <1>8, <1>9, <1>10, <1>11, <1>12, <1>13
     DEF EngineStep, Start, Continue

\* Under this workload at most one transaction is open.
LEMMA OneTx == ASSUME LoneTxClient, IInv, Workload,
                      NEW c \in Conn, NEW d \in Conn, tx[c] # NoTx, tx[d] # NoTx
               PROVE  c = d
<1> USE DEF IInv, TypeOK, ControlOK, Control, Workload, LoneTxClient
<1>1. CASE tx[c].implicit /\ tx[d].implicit
  BY <1>1
<1>2. CASE ~tx[c].implicit \/ ~tx[d].implicit
  BY <1>2
<1>3. QED
  BY <1>1, <1>2

\* So flush replaces the committed contents by contents that include them.
LEMMA SerialStep == LoneTxClient /\ SInv /\ [EngineStep]_vars => NotStale' /\ AckedVisible'
<1> USE NoTxFacts, NoneAssumption
    DEF SInv, IInv, TypeOK, ControlOK, Control, NoSharing, NotStale, AckedVisible, Open,
        PC, PersistPC
<1> SUFFICES ASSUME LoneTxClient, SInv, [EngineStep]_vars
             PROVE  NotStale' /\ AckedVisible'
  OBVIOUS
<1>1. CASE UNCHANGED vars
  BY <1>1 DEF vars
<1>2. ASSUME NEW c \in Conn, Snapshot(c) PROVE NotStale' /\ AckedVisible'
  BY <1>2 DEF Snapshot, Goto, history
<1>3. ASSUME NEW c \in Conn, EndScan(c) PROVE NotStale' /\ AckedVisible'
  BY <1>3 DEF EndScan, Goto, history
<1>4. ASSUME NEW c \in Conn, Acquire(c) PROVE NotStale' /\ AckedVisible'
  BY <1>4 DEF Acquire, Available, WriteTables, Goto, history
<1>5. ASSUME NEW c \in Conn, OpenImplicit(c) PROVE NotStale' /\ AckedVisible'
  BY <1>5 DEF OpenImplicit, CloneInto, Reachable, Goto, history
<1>6. ASSUME NEW c \in Conn, RunOk(c) PROVE NotStale' /\ AckedVisible'
  BY <1>6 DEF RunOk, Goto
<1>7. ASSUME NEW c \in Conn, RunFail(c) PROVE NotStale' /\ AckedVisible'
  BY <1>7 DEF RunFail, Goto, history
<1>8. ASSUME NEW c \in Conn, Abort(c) PROVE NotStale' /\ AckedVisible'
  BY <1>8 DEF Abort, Release, CloseTx, Goto, history
<1>9. ASSUME NEW c \in Conn, Begin(c) PROVE NotStale' /\ AckedVisible'
  BY <1>9 DEF Begin, CloneInto, Reachable, history
<1>10. ASSUME NEW c \in Conn, Commit(c) PROVE NotStale' /\ AckedVisible'
  BY <1>10 DEF Commit, Goto, history
<1>11. ASSUME NEW c \in Conn, Rollback(c) PROVE NotStale' /\ AckedVisible'
  BY <1>11 DEF Rollback, Release, CloseTx
<1>12. ASSUME NEW c \in Conn, Swap(c) PROVE NotStale' /\ AckedVisible'
  BY <1>12, OneTx DEF Swap, Goto, history
<1>13. ASSUME NEW c \in Conn, EndFlush(c) PROVE NotStale' /\ AckedVisible'
  BY <1>13 DEF EndFlush, Release, CloseTx, Answer, Goto, history
<1>14. QED
  BY <1>1, <1>2, <1>3, <1>4, <1>5, <1>6, <1>7, <1>8, <1>9, <1>10, <1>11, <1>12, <1>13
     DEF EngineStep, Start, Continue

\* What a client was told is committed stays in the committed state.
THEOREM NoLostUpdate == ASSUME LoneTxClient PROVE Spec => []AckedVisible
<1>1. Init => SInv
  BY InvInit, NoTxFacts DEF Init, SInv, Workload, NotStale, AckedVisible, Open
<1>2. SInv /\ [EngineStep]_vars => SInv'
  BY InvStep, WorkloadStep, SerialStep DEF SInv, IInv
<1>3. SInv => AckedVisible
  BY DEF SInv
<1>4. QED
  BY <1>1, <1>2, <1>3, PTL DEF Spec
=============================================================================
