----------------------------- MODULE DurableStore -----------------------------
(***************************************************************************)
(* What persist.go promises of a database with a file and one writing       *)
(* connection, with no files, descriptors or system calls in it: a commit   *)
(* becomes visible, then its whole contents are saved, then it is           *)
(* acknowledged; a crash may come at any moment, and a restart finds the     *)
(* contents of one of the saves that are not yet superseded.  A commit that *)
(* could not be saved stays visible, and a later save takes it along.       *)
(* Module Persist implements this specification.                            *)
(***************************************************************************)

CONSTANT Write   \* the effects that statements have on the contents

VARIABLES up,     \* whether the process runs
          store,  \* the visible contents: the set of effects in them
          saved,  \* the contents that a restart may find
          acked   \* the effects that have been acknowledged

vars == <<up, store, saved, acked>>

Init == up = TRUE /\ store = {} /\ saved = {{}} /\ acked = {}

Commit == /\ up
          /\ \E s \in SUBSET Write : store \subseteq s /\ store' = s
          /\ UNCHANGED <<up, saved, acked>>

\* The file is replaced: a restart finds these contents or older ones.
Save == /\ up
        /\ \E older \in SUBSET saved : saved' = older \union {store}
        /\ UNCHANGED <<up, store, acked>>

\* The replacement is final, and everything in it may be acknowledged.
Settle == /\ up /\ store \in saved
          /\ saved' = {store}
          /\ \E a \in SUBSET store : acked \subseteq a /\ acked' = a
          /\ UNCHANGED <<up, store>>

\* Whatever survives was there to be found.
Crash == /\ up
         /\ up' = FALSE
         /\ saved' \in (SUBSET saved) \ {{}}
         /\ UNCHANGED <<store, acked>>

Restart == /\ ~up
           /\ up' = TRUE
           /\ store' \in saved
           /\ UNCHANGED <<saved, acked>>

Next == Commit \/ Save \/ Settle \/ Crash \/ Restart

Spec == Init /\ [][Next]_vars

-----------------------------------------------------------------------------
(* "A committed transaction survives a kill -9" (README.md): whatever a      *)
(* restart finds holds everything that was acknowledged.                    *)
Promise == \A s \in saved : acked \subseteq s
=============================================================================
