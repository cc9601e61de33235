------------------------------- MODULE TxStore -------------------------------
(***************************************************************************)
(* What the comments of conn.go promise of a shared store, with no locks,   *)
(* pointers or half-finished statements: every transaction works on a       *)
(* private view of the store taken when it opened, only one connection at a *)
(* time has unpublished changes, a commit replaces the store by the view in *)
(* one step, and a reader keeps looking at the store as it was when its     *)
(* statement started.  Module Engine implements this specification.         *)
(***************************************************************************)

CONSTANTS Conn,   \* the connections
          Write   \* the effects that statements have on the contents

VARIABLES store,    \* the committed contents: the set of effects in them
          open,     \* the connections with an open transaction
          view,     \* the contents that the transaction of a connection sees
          author,   \* the connections with unpublished changes
          reading,  \* the connections in the middle of a SELECT
          seen      \* the contents that SELECT reads

vars == <<store, open, view, author, reading, seen>>

Init == /\ store = {}
        /\ open = {} /\ view = [c \in Conn |-> {}]
        /\ author = {}
        /\ reading = {} /\ seen = [c \in Conn |-> {}]

\* A transaction starts from the store as it is now.
Open(c) == /\ c \notin open
           /\ open' = open \union {c}
           /\ view' = [view EXCEPT ![c] = store]
           /\ UNCHANGED <<store, author, reading, seen>>

\* A statement changes the view, if nobody else has unpublished changes.
Change(c) == /\ c \in open
             /\ author \subseteq {c}
             /\ \E w \in Write : view' = [view EXCEPT ![c] = @ \union {w}]
             /\ author' = {c}
             /\ UNCHANGED <<store, open, reading, seen>>

Close(c) == /\ c \in open
            /\ open' = open \ {c}
            /\ view' = [view EXCEPT ![c] = {}]
            /\ author' = author \ {c}
            /\ UNCHANGED <<reading, seen>>

Publish(c) == Close(c) /\ store' = view[c]

Discard(c) == Close(c) /\ UNCHANGED store

Look(c) == /\ c \notin reading
           /\ reading' = reading \union {c}
           /\ seen' = [seen EXCEPT ![c] = store]
           /\ UNCHANGED <<store, open, view, author>>

LookAway(c) == /\ c \in reading
               /\ reading' = reading \ {c}
               /\ seen' = [seen EXCEPT ![c] = {}]
               /\ UNCHANGED <<store, open, view, author>>

Step(c) == \/ Open(c) \/ Change(c) \/ Publish(c) \/ Discard(c)
           \/ Look(c) \/ LookAway(c)

Next == \E c \in Conn : Step(c)

Spec == Init /\ [][Next]_vars
=============================================================================
