-------------------------- MODULE DurableStoreProofs --------------------------
(***************************************************************************)
(* DurableStore keeps its promise for any set of effects and any number of  *)
(* commits, saves, crashes and restarts.  The promise is about the contents *)
(* that a restart may find; it is inductive with the fact that the contents *)
(* in memory, which the next save writes, hold what was acknowledged too.   *)
(***************************************************************************)
EXTENDS DurableStore, TLAPS

IInv == /\ up \in BOOLEAN
        /\ Promise
        /\ up => acked \subseteq store

\* A new database has acknowledged nothing.
LEMMA Fresh == Init => IInv
  BY DEF Init, IInv, Promise

\* No commit, save, crash or restart loses an acknowledged effect.
LEMMA Kept == IInv /\ [Next]_vars => IInv'
  <1> SUFFICES ASSUME IInv, [Next]_vars PROVE IInv'
    OBVIOUS
  <1> USE DEF IInv, Promise
  <1>1. CASE Commit
    BY <1>1 DEF Commit
  <1>2. CASE Save
    <2>1. PICK older \in SUBSET saved : saved' = older \union {store}
      BY <1>2 DEF Save
    <2>2. Promise'
      BY <1>2, <2>1 DEF Save
    <2> QED BY <1>2, <2>2 DEF Save
  <1>3. CASE Settle
    \* The only contents to be found are those in memory.
    <2>1. PICK a \in SUBSET store : acked' = a
      BY <1>3 DEF Settle
    <2> QED BY <1>3, <2>1 DEF Settle
  <1>4. CASE Crash
    BY <1>4 DEF Crash
  <1>5. CASE Restart
    \* What is loaded was to be found, and holds what was acknowledged.
    BY <1>5 DEF Restart
  <1>6. CASE UNCHANGED vars
    BY <1>6 DEF vars
  <1> QED BY <1>1, <1>2, <1>3, <1>4, <1>5, <1>6 DEF Next

(* "A committed transaction survives a kill -9" (README.md): whatever a      *)
(* restart finds holds every effect that was acknowledged.                  *)
THEOREM PromiseKept == Spec => []Promise
  <1>1. IInv => Promise
    BY DEF IInv
  <1> QED BY Fresh, Kept, <1>1, PTL DEF Spec
=============================================================================
