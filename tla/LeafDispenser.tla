---------------------------- MODULE LeafDispenser ----------------------------
(***************************************************************************)
(* What a stateful signing key promises to whoever trusts its public key:  *)
(* leaves are reserved in order, a reserved leaf signs at most one message *)
(* that is ever given out, and a leaf that is not given out is lost.       *)
(***************************************************************************)
EXTENDS Integers

CONSTANT Messages
VARIABLES capacity, \* number of leaves, fixed for the life of the key
          reserved, \* leaves 0 .. reserved-1 are reserved
          issued    \* the (leaf, message) pairs given out

Init ==
  /\ capacity \in Nat
  /\ reserved \in 0..capacity
  /\ issued = {}

Reserve ==
  /\ reserved < capacity
  /\ reserved' = reserved + 1
  /\ UNCHANGED <<capacity, issued>>

Issue(l, m) ==
  /\ \A i \in issued : i.leaf # l
  /\ issued' = issued \cup {[leaf |-> l, msg |-> m]}
  /\ UNCHANGED <<capacity, reserved>>

Next == Reserve \/ \E l \in 0..(reserved - 1), m \in Messages : Issue(l, m)

Spec == Init /\ [][Next]_<<capacity, reserved, issued>>
==============================================================================
