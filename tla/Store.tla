------------------------------- MODULE Store --------------------------------
(***************************************************************************)
(* The store of a node (store/src/lib.rs).  Its task takes the commands of *)
(* all the others from one channel and carries them out one by one, so     *)
(* each is a step here at the time it enters the channel.  A waiter is one *)
(* future, which may wait for several keys; it polls the answers later.    *)
(* Keys are digests of their values.                                       *)
(***************************************************************************)

\* The database, and the obligations of each key: those who wait for its write.
StoreState(Key, Waiter) ==
  [db : SUBSET Key, obligations : [Key -> SUBSET Waiter]]

\* Store::new opens what is on the disk.
OpenStore(Key, db) == [db |-> db, obligations |-> [k \in Key |-> {}]]

\* Mutant: a write serves one of the waiters.
write_serves_one(s, k) ==
  [s EXCEPT !.db = @ \cup {k},
            !.obligations[k] = IF @ = {} THEN @ ELSE @ \ {CHOOSE w \in @ : TRUE}]

\* A write serves everybody who waits for the key.
write(s, k) == [s EXCEPT !.db = @ \cup {k}, !.obligations[k] = {}]

\* Of the asks, pairs of a waiter and a key, those for a key that is there are
\* answered and the rest queued.
notify_read(s, asks) ==
  [s EXCEPT !.obligations =
     [k \in DOMAIN @ |->
        IF k \in s.db THEN @[k] ELSE @[k] \cup {x[1] : x \in {y \in asks : y[2] = k}}]]

\* The future of w is dropped: answers to it go nowhere.
forget(s, w) == [s EXCEPT !.obligations = [k \in DOMAIN @ |-> @[k] \ {w}]]

Answered(s, w) == \A k \in DOMAIN s.obligations : w \notin s.obligations[k]
=============================================================================
