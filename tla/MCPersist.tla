------------------------------ MODULE MCPersist ------------------------------
(* Symmetry for the runs of module Persist, and a view of its states that   *)
(* leaves out the contents of objects and inodes nothing refers to.         *)
EXTENDS Persist, TLC

Symmetry == Permutations(Write) \union Permutations(Ref) \union Permutations(Inode)
SymmetryAll == Symmetry \union Permutations(Conn)

LiveHeap == [r \in Ref |-> IF r \in Reachable THEN heap[r] ELSE {}]
LiveFile(contents) == [i \in Inode |-> IF i \in InUse THEN contents[i] ELSE Empty]
View == <<LiveHeap, committed, writer, tx, rd, pc, history,
          LiveFile(page), LiveFile(disk), entry, entryDisk, buffers,
          crashes, published>>
=============================================================================
