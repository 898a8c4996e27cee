----------------------------- MODULE CausalLog -----------------------------
(***************************************************************************)
(* What the chain synchroniser promises the readers of the database: the   *)
(* blocks of a chain become readable in the order of their heights, and no *)
(* block before the blocks of other chains it refers to.  Once readable, a *)
(* block stays so.                                                         *)
(***************************************************************************)
EXTENDS Naturals

CONSTANTS Chains, First, Last, Refs

VARIABLE saved    \* the blocks, <<chain, height>>, that are fully stored

\* First is the chain's beginning: it is on disk before the log starts.
Available(c, h) == h <= First \/ <<c, h>> \in saved

Init == saved = {}

Save(c, h) ==
  /\ Available(c, h - 1)
  /\ \A r \in Refs[<<c, h>>] : Available(r[1], r[2])
  /\ saved' = saved \union {<<c, h>>}

Next == \E c \in Chains, h \in First .. Last : Save(c, h)

Spec == Init /\ [][Next]_saved
=============================================================================
