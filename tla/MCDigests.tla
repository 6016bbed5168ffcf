------------------------------ MODULE MCDigests ------------------------------
(* Finite instances of Digests: the blocks and committees of MCHotStuff. *)
EXTENDS MCHotStuff, Digests
=============================================================================
