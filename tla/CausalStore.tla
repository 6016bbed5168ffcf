---------------------------- MODULE CausalStore -----------------------------
(***************************************************************************)
(* What the tasks that fetch missing blocks and batches promise to those   *)
(* who read the store: an item is there only with all that it refers to,   *)
(* so a walk from a stored block to Genesis, or into its payload, never    *)
(* meets a gap ("We should have all the ancestors by now", core.rs:132).   *)
(***************************************************************************)
CONSTANTS
  Item,       \* what may be stored
  Needs(_)    \* what an item refers to

VARIABLE have   \* the items stored

Closed(S) == \A x \in S : Needs(x) \subseteq S

Init == have \in SUBSET Item /\ Closed(have)

Add(x) == Needs(x) \subseteq have /\ have' = have \cup {x}

Next == \E x \in Item : Add(x)

Spec == Init /\ [][Next]_have
=============================================================================
