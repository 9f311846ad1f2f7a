------------------------------- MODULE Lockbox -------------------------------
(***************************************************************************)
(* What at-rest encryption promises: a key is open, or locked under one    *)
(* passphrase, and only that passphrase opens it again.                    *)
(***************************************************************************)
CONSTANTS Names, Passphrases, Open

VARIABLES
  lock,     \* lock[n]: the passphrase key n is locked under, or Open
  opened    \* opened[n]: the passphrase that last opened key n, or Open

Init ==
  /\ lock = [n \in Names |-> Open]
  /\ opened = [n \in Names |-> Open]

Lock(n, p) ==
  /\ lock[n] = Open
  /\ lock' = [lock EXCEPT ![n] = p]
  /\ UNCHANGED opened

Unlock(n, p) ==
  /\ lock[n] = p
  /\ lock' = [lock EXCEPT ![n] = Open]
  /\ opened' = [opened EXCEPT ![n] = p]

Next == \E n \in Names, p \in Passphrases : Lock(n, p) \/ Unlock(n, p)

Spec == Init /\ [][Next]_<<lock, opened>>
=============================================================================
