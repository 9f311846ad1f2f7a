-------------------------- MODULE StoredKeys_proof --------------------------
(***************************************************************************)
(* Proofs about keys at rest and on their way: the vault (KeyVault), its   *)
(* inductive invariant, the safety properties it implies, and that it      *)
(* implements Lockbox; and the stream (KeyStream), what the decoders make  *)
(* of the units of an item wherever they are, the inductive invariant, and *)
(* the safety properties it implies.                                       *)
(***************************************************************************)
EXTENDS KeyVault, KeyStream, FiniteSetTheorems, SequenceTheorems, TLAPS

(***************************************************************************)
(* What encryption and decryption do to a Multikey.                        *)
(***************************************************************************)
\* The parts of a cipher key, and its salt where it has one.
LEMMA CipherTyped ==
  ASSUME NEW c \in CipherKeys
  PROVE  /\ c.key.pass \in Passphrases /\ c.key.salt \in Salts
         /\ c.key = [pass |-> c.key.pass, salt |-> c.key.salt]
         /\ c.nonce \in Nonces \cup {Absent}
         /\ c.salt # Absent => c.salt = c.key.salt
BY DEF CipherKeys, DerivedKeys

\* Encryption by a cipher key with nonce and salt gives a Multikey.
LEMMA EncryptedTyped ==
  ASSUME NEW k \in Multikeys, NEW c \in CipherKeys, CanEncrypt(k, c)
  PROVE  /\ Encrypted(k, c) \in Multikeys
         /\ Encrypted(k, c).family = k.family
         /\ Encrypted(k, c).role = k.role
<1> DEFINE layer == [key |-> c.key, nonce |-> c.nonce]
<1>1. c.nonce \in Nonces /\ c.salt \in Salts
  BY CipherTyped DEF CanEncrypt
<1>2. layer \in Layers
  BY <1>1, CipherTyped DEF Layers, CipherKeys
<1>3. <<layer>> \o k.layers \in Seq(Layers)
  BY <1>2 DEF Multikeys
<1>4. QED
  BY <1>1, <1>3 DEF Encrypted, Multikeys

\* Decryption of a Multikey with a layer gives a Multikey.
LEMMA DecryptedTyped ==
  ASSUME NEW k \in Multikeys, k.layers # <<>>
  PROVE  /\ Decrypted(k) \in Multikeys
         /\ Decrypted(k).family = k.family
         /\ Decrypted(k).role = k.role
<1>1. Tail(k.layers) \in Seq(Layers)
  BY DEF Multikeys
<1>2. QED
  BY <1>1 DEF Decrypted, Multikeys

\* A key that was put in, and its open form, are unlike any locked one.
LEMMA OpenIsNotEncrypted ==
  ASSUME NEW o \in StartKeys, NEW k \in OpenForms(o)
  PROVE  ~ k.encrypted /\ k.layers = <<>> /\ ~ IsEncrypted(k)
BY VaultConstants DEF OpenForms, IsEncrypted

\* Encryption takes an open key to a locked one.
LEMMA EncryptLocks ==
  ASSUME NEW o \in StartKeys, NEW k \in OpenForms(o), NEW c \in CipherKeys, CanEncrypt(k, c)
  PROVE  /\ o.role = "Secret"
         /\ c.key.pass \in Passphrases
         /\ \E salt \in Salts, nonce \in Nonces :
              Encrypted(k, c) = LockedForm(o, c.key.pass, salt, nonce)
<1>1. c.nonce \in Nonces /\ c.salt = c.key.salt /\ c.key.salt \in Salts
  BY CipherTyped DEF CanEncrypt
<1>2. k.family = o.family /\ k.role = o.role /\ k.layers = <<>>
  <2>1. CASE k = o
    BY <2>1, OpenIsNotEncrypted
  <2>2. CASE k = [family |-> o.family, role |-> o.role, layers |-> o.layers,
                  encrypted |-> FALSE, nonce |-> Absent, salt |-> Absent]
    <3>1. k.layers = <<>>
      BY OpenIsNotEncrypted
    <3>2. QED
      BY <2>2, <3>1
  <2>3. QED
    BY <2>1, <2>2 DEF OpenForms
<1>3. <<[key |-> c.key, nonce |-> c.nonce]>> \o k.layers = <<[key |-> c.key, nonce |-> c.nonce]>>
  BY <1>2
<1>4. Encrypted(k, c) = LockedForm(o, c.key.pass, c.salt, c.nonce)
  BY <1>1, <1>2, <1>3, CipherTyped DEF Encrypted, LockedForm
<1>5. QED
  BY <1>1, <1>2, <1>4, CipherTyped DEF CanEncrypt, HasSecretBytes, IsSecretKey

\* Decryption of a locked key takes the passphrase it was locked under, and
\* gives an open form.
LEMMA DecryptOpens ==
  ASSUME NEW o \in StartKeys, NEW pass, NEW salt, NEW nonce, NEW c \in CipherKeys,
         CanDecrypt(LockedForm(o, pass, salt, nonce), c)
  PROVE  /\ c.key.pass = pass
         /\ Decrypted(LockedForm(o, pass, salt, nonce)) \in OpenForms(o)
<1> DEFINE layer == [key |-> [pass |-> pass, salt |-> salt], nonce |-> nonce]
           k == LockedForm(o, pass, salt, nonce)
<1>1. k.layers = <<layer>>
  BY DEF LockedForm
<1>2. layer = [key |-> c.key, nonce |-> c.nonce]
  BY <1>1 DEF CanDecrypt
<1>3. c.key = [pass |-> pass, salt |-> salt]
  BY <1>2
<1>4. Tail(<<layer>>) = <<>>
  OBVIOUS
<1>5. o.layers = <<>>
  BY VaultConstants
<1>6. Decrypted(k) = [family |-> o.family, role |-> o.role, layers |-> o.layers,
                      encrypted |-> FALSE, nonce |-> Absent, salt |-> Absent]
  BY <1>4, <1>5 DEF Decrypted, LockedForm
<1>7. QED
  BY <1>3, <1>6 DEF OpenForms

(***************************************************************************)
(* The inductive invariant.                                                *)
(***************************************************************************)
\* The invariant holds of the keys as they are put in.
LEMMA InitInv == Init => IInv
<1> SUFFICES ASSUME Init PROVE IInv
  OBVIOUS
<1>1. TypeOK
  BY VaultConstants DEF Init, TypeOK
<1>2. QED
  BY <1>1 DEF Init, IInv, OpenForms

\* The entries that a step does not touch keep their part of the invariant.
LEMMA EntryStep ==
  ASSUME IInv, NEW n \in Names, NEW k \in Multikeys, NEW l \in Passphrases \cup {Absent},
         store' = [store EXCEPT ![n] = k],
         lockedBy' = [lockedBy EXCEPT ![n] = l],
         openedBy' \in [Names -> Passphrases \cup {Absent}],
         UNCHANGED original,
         k.family = original[n].family, k.role = original[n].role,
         Aware(n) =>
           \/ k \in OpenForms(original[n])
           \/ /\ original[n].role = "Secret"
              /\ l \in Passphrases
              /\ \E salt \in Salts, nonce \in Nonces : k = LockedForm(original[n], l, salt, nonce)
  PROVE  IInv'
<1>1. TypeOK'
  BY DEF IInv, TypeOK
<1>2. /\ store'[n] = k /\ lockedBy'[n] = l
      /\ \A m \in Names : m # n => store'[m] = store[m] /\ lockedBy'[m] = lockedBy[m]
      /\ \A m \in Names : original'[m] = original[m]
  BY DEF IInv, TypeOK
<1>3. \A m \in Names : Aware(m)' <=> Aware(m)
  BY <1>2 DEF Aware
<1>4. QED
  BY <1>1, <1>2, <1>3 DEF IInv

\* encrypt keeps the invariant.
LEMMA EncryptStep ==
  ASSUME IInv, NEW n \in Names, NEW c \in CipherKeys, Encrypt(n, c)
  PROVE  IInv'
<1> DEFINE k == Encrypted(store[n], c)
<1>1. store[n] \in Multikeys /\ original[n] \in StartKeys
  BY DEF IInv, TypeOK
<1>2. k \in Multikeys /\ k.family = original[n].family /\ k.role = original[n].role
  BY <1>1, EncryptedTyped DEF Encrypt, IInv
<1>3. c.key.pass \in Passphrases
  BY CipherTyped
<1>4. ASSUME Aware(n)
      PROVE  /\ original[n].role = "Secret"
             /\ \E salt \in Salts, nonce \in Nonces :
                  k = LockedForm(original[n], c.key.pass, salt, nonce)
  <2>1. store[n] \in OpenForms(original[n])
    <3>1. ~ IsEncrypted(store[n])
      BY DEF Encrypt, CanEncrypt
    <3>2. ASSUME NEW p, NEW s, NEW o, store[n] = LockedForm(original[n], p, s, o) PROVE FALSE
      BY <1>4, <3>1, <3>2 DEF LockedForm, IsEncrypted, Aware
    <3>3. QED
      BY <1>4, <3>2 DEF IInv
  <2>2. QED
    BY <1>1, <2>1, EncryptLocks DEF Encrypt
<1> HIDE DEF k
<1>5. /\ store' = [store EXCEPT ![n] = k]
      /\ lockedBy' = [lockedBy EXCEPT ![n] = c.key.pass]
      /\ UNCHANGED original
      /\ openedBy' \in [Names -> Passphrases \cup {Absent}]
  BY DEF Encrypt, IInv, TypeOK, k
<1>6. QED
  BY <1>2, <1>3, <1>4, <1>5, EntryStep

\* decrypt keeps the invariant.
LEMMA DecryptStep ==
  ASSUME IInv, NEW n \in Names, NEW c \in CipherKeys, Decrypt(n, c)
  PROVE  IInv'
<1> DEFINE k == Decrypted(store[n])
<1>1. store[n] \in Multikeys /\ original[n] \in StartKeys /\ CanDecrypt(store[n], c)
  BY DEF IInv, TypeOK, Decrypt
<1>2. k \in Multikeys /\ k.family = original[n].family /\ k.role = original[n].role
  BY <1>1, DecryptedTyped DEF CanDecrypt, IInv
<1>3. ASSUME Aware(n) PROVE k \in OpenForms(original[n])
  <2>1. store[n] \notin OpenForms(original[n])
    BY <1>1, OpenIsNotEncrypted DEF CanDecrypt
  <2>2. PICK salt \in Salts, nonce \in Nonces :
          store[n] = LockedForm(original[n], lockedBy[n], salt, nonce)
    BY <1>3, <2>1 DEF IInv
  <2>3. QED
    BY <1>1, <2>2, DecryptOpens
<1> HIDE DEF k
<1>4. /\ store' = [store EXCEPT ![n] = k]
      /\ lockedBy' = [lockedBy EXCEPT ![n] = lockedBy[n]]
      /\ UNCHANGED original
      /\ openedBy' \in [Names -> Passphrases \cup {Absent}]
  BY CipherTyped DEF Decrypt, IInv, TypeOK, k
<1>5. lockedBy[n] \in Passphrases \cup {Absent}
  BY DEF IInv, TypeOK
<1>6. QED
  BY <1>2, <1>3, <1>4, <1>5, EntryStep

\* Unlock is the decryption by the cipher key rebuilt from the entry.
LEMMA UnlockDecrypts ==
  ASSUME IInv, NEW n \in Names, NEW pass \in Passphrases, Unlock(n, pass)
  PROVE  \E c \in CipherKeys : Decrypt(n, c)
<1>1. store[n].nonce \in Nonces /\ store[n].salt \in Salts
  BY DEF Unlock, IInv, TypeOK, Multikeys
<1>2. CipherOf(store[n], pass) \in CipherKeys
  BY <1>1 DEF CipherOf, Derived, CipherKeys, DerivedKeys
<1>3. QED
  BY <1>2 DEF Unlock

\* Every step keeps the invariant.
LEMMA NextInv == IInv /\ [Next]_vars => IInv'
<1> SUFFICES ASSUME IInv, [Next]_vars PROVE IInv'
  OBVIOUS
<1>1. ASSUME NEW n \in Names, NEW pass \in Passphrases, Unlock(n, pass) PROVE IInv'
  BY <1>1, UnlockDecrypts, DecryptStep
<1>2. CASE UNCHANGED vars
  BY <1>2 DEF vars, IInv, TypeOK, Aware
<1>3. QED
  BY <1>1, <1>2, EncryptStep, DecryptStep DEF Next

(***************************************************************************)
(* Theorems.                                                               *)
(***************************************************************************)
\* The inductive invariant holds in every behaviour.
THEOREM Inductive == Spec => []IInv
BY InitInv, NextInv, PTL DEF Spec

\* Type correctness.
THEOREM TypeCorrect == Spec => []TypeOK
<1>1. IInv => TypeOK
  BY DEF IInv
<1>2. QED
  BY <1>1, Inductive, PTL

\* An open entry is not encrypted and has no layer; a locked one has one.
LEMMA EntryCases ==
  ASSUME IInv, NEW n \in Names, Aware(n)
  PROVE  \/ /\ store[n] \in OpenForms(original[n])
            /\ ~ store[n].encrypted /\ store[n].layers = <<>>
         \/ \E salt \in Salts, nonce \in Nonces :
              /\ store[n] = LockedForm(original[n], lockedBy[n], salt, nonce)
              /\ store[n].encrypted /\ Len(store[n].layers) = 1 /\ store[n].layers # <<>>
              /\ IsEncrypted(store[n])
<1>1. CASE store[n] \in OpenForms(original[n])
  BY <1>1, OpenIsNotEncrypted DEF IInv, TypeOK
<1>2. CASE \E salt \in Salts, nonce \in Nonces :
             store[n] = LockedForm(original[n], lockedBy[n], salt, nonce)
  <2>1. PICK salt \in Salts, nonce \in Nonces :
          store[n] = LockedForm(original[n], lockedBy[n], salt, nonce)
    BY <1>2
  <2>2. store[n].encrypted /\ store[n].family = original[n].family
    BY <2>1 DEF LockedForm
  <2>3. store[n].layers = <<[key |-> [pass |-> lockedBy[n], salt |-> salt], nonce |-> nonce]>>
    BY <2>1 DEF LockedForm
  <2>4. Len(store[n].layers) = 1 /\ store[n].layers # <<>>
    BY <2>3
  <2>5. QED
    BY <2>1, <2>2, <2>4 DEF IsEncrypted, Aware
<1>3. QED
  BY <1>1, <1>2 DEF IInv

\* secret_bytes never hands out a ciphertext, and no key is encrypted twice.
THEOREM NoCiphertextAsSecret == Spec => []OneLayer
<1>1. ASSUME IInv PROVE OneLayer
  <2> SUFFICES ASSUME NEW n \in Names, Aware(n)
               PROVE  /\ Len(store[n].layers) <= 1
                      /\ IsEncrypted(store[n]) <=> store[n].layers # <<>>
    BY DEF OneLayer
  <2>1. CASE ~ store[n].encrypted /\ store[n].layers = <<>>
    <3>1. Len(store[n].layers) <= 1
      BY <2>1
    <3>2. QED
      BY <2>1, <3>1 DEF IsEncrypted
  <2>2. CASE Len(store[n].layers) = 1 /\ store[n].layers # <<>> /\ IsEncrypted(store[n])
    BY <2>2
  <2>3. QED
    BY <1>1, <2>1, <2>2, EntryCases
<1>2. QED
  BY <1>1, Inductive, PTL

\* The open keys are the ones that were put in.
THEOREM RoundTrip == Spec => []OpenIsOriginal
<1>1. ASSUME IInv PROVE OpenIsOriginal
  BY <1>1, EntryCases DEF OpenIsOriginal, OpenForms
<1>2. QED
  BY <1>1, Inductive, PTL

\* An encrypted key opens with its passphrase and what it states of itself.
THEOREM SelfDescribing == Spec => []OpensItself
<1>1. ASSUME IInv PROVE OpensItself
  <2> SUFFICES ASSUME NEW n \in Names, Aware(n), store[n].encrypted, NEW pass \in Passphrases
               PROVE  CanDecrypt(store[n], CipherOf(store[n], pass)) <=> pass = lockedBy[n]
    BY DEF OpensItself
  <2>1. PICK salt \in Salts, nonce \in Nonces :
          /\ store[n] = LockedForm(original[n], lockedBy[n], salt, nonce)
          /\ store[n].layers # <<>>
          /\ IsEncrypted(store[n])
    BY <1>1, EntryCases
  <2>2. CipherOf(store[n], pass) = [key |-> [pass |-> pass, salt |-> salt], nonce |-> nonce, salt |-> salt]
    BY <2>1 DEF CipherOf, Derived, LockedForm
  <2>3. /\ store[n].layers = <<[key |-> [pass |-> lockedBy[n], salt |-> salt], nonce |-> nonce]>>
        /\ Head(store[n].layers) = [key |-> [pass |-> lockedBy[n], salt |-> salt], nonce |-> nonce]
    BY <2>1 DEF LockedForm
  <2>4. store[n].role = "Secret"
    BY <1>1, <2>1, OpenIsNotEncrypted DEF IInv, TypeOK
  <2>5. nonce # Absent
    BY VaultConstants
  <2>6. CanDecrypt(store[n], CipherOf(store[n], pass))
          <=> [key |-> [pass |-> lockedBy[n], salt |-> salt], nonce |-> nonce]
                = [key |-> [pass |-> pass, salt |-> salt], nonce |-> nonce]
    BY <2>1, <2>2, <2>3, <2>4, <2>5 DEF CanDecrypt, IsSecretKey
  <2>7. [key |-> [pass |-> lockedBy[n], salt |-> salt], nonce |-> nonce]
          = [key |-> [pass |-> pass, salt |-> salt], nonce |-> nonce] => lockedBy[n] = pass
    <3> DEFINE k1 == [pass |-> lockedBy[n], salt |-> salt]
               k2 == [pass |-> pass, salt |-> salt]
    <3>1. [key |-> k1, nonce |-> nonce] = [key |-> k2, nonce |-> nonce] => k1 = k2
      OBVIOUS
    <3>2. k1 = k2 => k1.pass = k2.pass
      OBVIOUS
    <3>3. QED
      BY <3>1, <3>2
  <2>8. QED
    BY <2>6, <2>7
<1>2. QED
  BY <1>1, Inductive, PTL

\* The lock that Lockbox sees of each entry.
LEMMA BoxesInit == Init => Boxes!Init
BY OpenIsNotEncrypted DEF Init, Boxes!Init, OpenForms

\* Every step of the vault is a step of the lockboxes or leaves them alone.
LEMMA BoxesNext == IInv /\ IInv' /\ [Next]_vars =>
  [Boxes!Next]_<<[n \in Names |-> IF IsEncrypted(store[n]) THEN lockedBy[n] ELSE Absent], openedBy>>
<1> DEFINE lock == [n \in Names |-> IF IsEncrypted(store[n]) THEN lockedBy[n] ELSE Absent]
<1> SUFFICES ASSUME IInv, IInv', [Next]_vars
             PROVE  Boxes!Next \/ (lock' = lock /\ openedBy' = openedBy)
  OBVIOUS
<1>1. ASSUME NEW n \in Names, NEW c \in CipherKeys, Encrypt(n, c)
      PROVE  Boxes!Next \/ (lock' = lock /\ openedBy' = openedBy)
  <2>1. lock[n] = Absent
    BY <1>1 DEF Encrypt, CanEncrypt
  <2>2. /\ \A m \in Names : m # n => store'[m] = store[m] /\ lockedBy'[m] = lockedBy[m]
        /\ lockedBy'[n] = c.key.pass /\ c.key.pass \in Passphrases
        /\ UNCHANGED openedBy
    BY <1>1, CipherTyped DEF Encrypt, IInv, TypeOK
  <2>3. \A m \in Names : m # n => lock'[m] = lock[m]
    BY <2>2
  <2>4. CASE IsEncrypted(store[n])'
    <3>1. lock' = [lock EXCEPT ![n] = c.key.pass]
      BY <2>2, <2>3, <2>4
    <3>2. QED
      BY <2>1, <2>2, <3>1 DEF Boxes!Next, Boxes!Lock
  <2>5. CASE ~ IsEncrypted(store[n])'
    BY <2>1, <2>2, <2>3, <2>5
  <2>6. QED
    BY <2>4, <2>5
<1>2. ASSUME NEW n \in Names, NEW c \in CipherKeys, Decrypt(n, c)
      PROVE  Boxes!Next \/ (lock' = lock /\ openedBy' = openedBy)
  <2>1. IsEncrypted(store[n]) /\ CanDecrypt(store[n], c)
    BY <1>2 DEF Decrypt, CanDecrypt
  <2>2. Aware(n) /\ original[n] \in StartKeys
    BY <2>1 DEF IsEncrypted, Aware, IInv, TypeOK
  <2>3. c.key.pass = lockedBy[n] /\ lockedBy[n] \in Passphrases
    <3>1. store[n] \notin OpenForms(original[n])
      BY <2>1, <2>2, OpenIsNotEncrypted
    <3>2. PICK salt \in Salts, nonce \in Nonces :
            store[n] = LockedForm(original[n], lockedBy[n], salt, nonce)
      BY <2>2, <3>1 DEF IInv
    <3>3. QED
      BY <2>1, <2>2, <3>1, <3>2, DecryptOpens DEF IInv
  <2>4. /\ \A m \in Names : m # n => store'[m] = store[m]
        /\ lockedBy' = lockedBy
        /\ store'[n] = Decrypted(store[n])
        /\ openedBy' = [openedBy EXCEPT ![n] = c.key.pass]
    BY <1>2 DEF Decrypt, IInv, TypeOK
  <2>5. ~ IsEncrypted(store'[n])
    BY <2>4 DEF Decrypted, IsEncrypted
  <2>6. lock' = [lock EXCEPT ![n] = Absent]
    BY <2>4, <2>5
  <2>7. lock[n] = lockedBy[n]
    BY <2>1
  <2>8. QED
    BY <2>3, <2>4, <2>6, <2>7 DEF Boxes!Next, Boxes!Unlock
<1>3. ASSUME NEW n \in Names, NEW pass \in Passphrases, Unlock(n, pass)
      PROVE  Boxes!Next \/ (lock' = lock /\ openedBy' = openedBy)
  BY <1>2, <1>3, UnlockDecrypts
<1>4. CASE UNCHANGED vars
  BY <1>4 DEF vars
<1>5. QED
  BY <1>1, <1>2, <1>3, <1>4 DEF Next

\* The vault implements one lockbox per entry.
THEOREM Refinement == Spec => LocksAndOpens
<1>1. Spec => Boxes!Init /\ [][Boxes!Next]_<<[n \in Names |-> IF IsEncrypted(store[n]) THEN lockedBy[n] ELSE Absent], openedBy>>
  BY BoxesInit, BoxesNext, Inductive, PTL DEF Spec
<1>2. QED
  BY <1>1, PTL DEF LocksAndOpens, Boxes!Spec

-----------------------------------------------------------------------------
(***************************************************************************)
(* The stream.  Inductions over lengths use NatSets: a set of naturals     *)
(* that has 0 and, with a number, the next one is Nat, because the rest of *)
(* Nat would have a least element (NatLessThanWellFounded).  It stands in  *)
(* for the induction theorems, whose operator parameter the provers cannot *)
(* instantiate.                                                            *)
(***************************************************************************)
\* A set of naturals has a least element.
LEMMA Least ==
  ASSUME NEW T \in SUBSET Nat, T # {}
  PROVE  \E x \in T : \A y \in T : x <= y
<1>1. PICK x \in T : \A y \in T : ~ (<<y, x>> \in OpToRel(<, Nat))
  BY WFMin, NatLessThanWellFounded
<1>2. \A y \in T : y < x => <<y, x>> \in OpToRel(<, Nat)
  BY DEF OpToRel
<1>3. \A y \in T : ~ (y < x)
  BY <1>1, <1>2, Zenon
<1>4. QED
  BY <1>3

\* Induction, for a property given as the set of the numbers that have it.
LEMMA NatSets ==
  ASSUME NEW T \in SUBSET Nat, 0 \in T, \A n \in T : n + 1 \in T
  PROVE  T = Nat
<1>1. SUFFICES ASSUME Nat \ T # {} PROVE FALSE
  OBVIOUS
<1>2. PICK x \in Nat \ T : \A y \in Nat \ T : x <= y
  BY <1>1, Least
<1>3. x - 1 \in T
  BY <1>2
<1>4. QED
  BY <1>2, <1>3

\* The units of a joined sequence.
LEMMA Joined ==
  ASSUME NEW a \in Seq(Nat), NEW b \in Seq(Nat)
  PROVE  /\ a \o b \in Seq(Nat) /\ Len(a) \in Nat /\ Len(b) \in Nat
         /\ Len(a \o b) = Len(a) + Len(b)
         /\ \A j \in 1 .. Len(a) : (a \o b)[j] = a[j]
         /\ \A j \in 1 .. Len(b) : (a \o b)[Len(a) + j] = b[j]
OBVIOUS

Cell(pair) == <<pair[1]>> \o Varbytes(pair[2])

\* The units of one attribute: its code, a length and the payload.
LEMMA CellIs ==
  ASSUME NEW pair \in Nat \X Seq(Nat)
  PROVE  /\ Cell(pair) \in Seq(Nat)
         /\ Len(Cell(pair)) = Len(pair[2]) + 2
         /\ Cell(pair)[1] = pair[1]
         /\ Cell(pair)[2] = Len(pair[2])
         /\ \A j \in 1 .. Len(pair[2]) : Cell(pair)[j + 2] = pair[2][j]
<1>1. /\ <<pair[1]>> \in Seq(Nat) /\ <<Len(pair[2])>> \in Seq(Nat)
      /\ pair[2] \in Seq(Nat)
  OBVIOUS
<1>2. QED
  BY <1>1, Z3 DEF Cell, Varbytes

-----------------------------------------------------------------------------
(* Recursive definitions. *)

\* The function that FlattenSeq chooses exists.
LEMMA FlattenUnfolds ==
  ASSUME NEW seqs, NEW n \in Nat
  PROVE  \E f : f = [i \in 1 .. n |-> IF i = 1 THEN seqs[i] ELSE f[i - 1] \o seqs[i]]
<1> DEFINE IsF(f, m) == /\ f = [i \in 1 .. m |-> f[i]]
                       /\ \A i \in 1 .. m : f[i] = IF i = 1 THEN seqs[i] ELSE f[i - 1] \o seqs[i]
           T == {m \in Nat : \E f : IsF(f, m)}
<1>1. 0 \in T
  <2>1. IsF(<< >>, 0)
    OBVIOUS
  <2>2. QED
    BY <2>1
<1>2. ASSUME NEW m \in Nat, NEW g, IsF(g, m) PROVE \E f : IsF(f, m + 1)
  <2> DEFINE h == [i \in 1 .. m + 1 |-> IF i = 1 THEN seqs[i] ELSE g[i - 1] \o seqs[i]]
  <2>1. ASSUME NEW i \in 1 .. m PROVE h[i] = g[i]
    <3>1. g[i] = IF i = 1 THEN seqs[i] ELSE g[i - 1] \o seqs[i]
      BY <1>2, Zenon
    <3>2. i \in 1 .. m + 1
      OBVIOUS
    <3> HIDE DEF IsF, T
    <3>3. h[i] = IF i = 1 THEN seqs[i] ELSE g[i - 1] \o seqs[i]
      BY <3>2, Zenon
    <3>4. QED
      BY <3>1, <3>3, Zenon
  <2>2. ASSUME NEW i \in 1 .. m + 1 PROVE h[i] = IF i = 1 THEN seqs[i] ELSE h[i - 1] \o seqs[i]
    <3> HIDE DEF IsF, T
    <3>1. h[i] = IF i = 1 THEN seqs[i] ELSE g[i - 1] \o seqs[i]
      BY Zenon
    <3>2. i # 1 => i - 1 \in 1 .. m
      OBVIOUS
    <3>3. i # 1 => h[i - 1] = g[i - 1]
      BY <3>2, <2>1, Zenon
    <3> HIDE DEF h
    <3>4. QED
      BY <3>1, <3>3, Zenon
  <2>3. h = [i \in 1 .. m + 1 |-> h[i]]
    BY Zenon
  <2> HIDE DEF h
  <2>4. IsF(h, m + 1)
    BY <2>2, <2>3, Zenon
  <2>5. QED
    BY <2>4, Zenon
<1>3. \A m \in T : m + 1 \in T
  <2> HIDE DEF IsF
  <2>1. QED
    BY <1>2
<1> HIDE DEF T
<1>4. T = Nat
  <2>1. T \in SUBSET Nat
    BY Zenon DEF T
  <2>2. QED
    BY <2>1, <1>1, <1>3, NatSets
<1>5. PICK f : IsF(f, n)
  BY <1>4, Zenon DEF T
<1>6. f = [i \in 1 .. n |-> IF i = 1 THEN seqs[i] ELSE f[i - 1] \o seqs[i]]
  BY <1>5, Zenon
<1>7. QED
  BY <1>6, Zenon

\* The decoder's loop from state r0 on.
Loop(s, r0, n) ==
  CHOOSE f : f = [i \in 0 .. n |-> IF i = 0 THEN r0 ELSE AttributeRead(s, f[i - 1])]

\* ... and so does the decoder's loop.
LEMMA ReadUnfolds ==
  ASSUME NEW s, NEW r0, NEW n \in Nat
  PROVE  Loop(s, r0, n) = [i \in 0 .. n |->
           IF i = 0 THEN r0 ELSE AttributeRead(s, Loop(s, r0, n)[i - 1])]
<1> DEFINE IsF(f, m) == /\ f = [i \in 0 .. m |-> f[i]]
                       /\ \A i \in 0 .. m : f[i] = IF i = 0 THEN r0 ELSE AttributeRead(s, f[i - 1])
           T == {m \in Nat : \E f : IsF(f, m)}
<1>1. 0 \in T
  <2>1. IsF([i \in 0 .. 0 |-> r0], 0)
    OBVIOUS
  <2>2. QED
    BY <2>1
<1>2. ASSUME NEW m \in Nat, NEW g, IsF(g, m) PROVE \E f : IsF(f, m + 1)
  <2> DEFINE h == [i \in 0 .. m + 1 |-> IF i = 0 THEN r0 ELSE AttributeRead(s, g[i - 1])]
  <2>1. ASSUME NEW i \in 0 .. m PROVE h[i] = g[i]
    <3>1. g[i] = IF i = 0 THEN r0 ELSE AttributeRead(s, g[i - 1])
      BY <1>2, Zenon
    <3>2. i \in 0 .. m + 1
      OBVIOUS
    <3> HIDE DEF IsF, T
    <3>3. h[i] = IF i = 0 THEN r0 ELSE AttributeRead(s, g[i - 1])
      BY <3>2, Zenon
    <3>4. QED
      BY <3>1, <3>3, Zenon
  <2>2. ASSUME NEW i \in 0 .. m + 1 PROVE h[i] = IF i = 0 THEN r0 ELSE AttributeRead(s, h[i - 1])
    <3> HIDE DEF IsF, T
    <3>1. h[i] = IF i = 0 THEN r0 ELSE AttributeRead(s, g[i - 1])
      BY Zenon
    <3>2. i # 0 => i - 1 \in 0 .. m
      OBVIOUS
    <3>3. i # 0 => h[i - 1] = g[i - 1]
      BY <3>2, <2>1, Zenon
    <3> HIDE DEF h
    <3>4. QED
      BY <3>1, <3>3, Zenon
  <2>3. h = [i \in 0 .. m + 1 |-> h[i]]
    BY Zenon
  <2> HIDE DEF h
  <2>4. IsF(h, m + 1)
    BY <2>2, <2>3, Zenon
  <2>5. QED
    BY <2>4, Zenon
<1>3. \A m \in T : m + 1 \in T
  <2> HIDE DEF IsF
  <2>1. QED
    BY <1>2
<1> HIDE DEF T
<1>4. T = Nat
  <2>1. T \in SUBSET Nat
    BY Zenon DEF T
  <2>2. QED
    BY <2>1, <1>1, <1>3, NatSets
<1>5. PICK f : IsF(f, n)
  BY <1>4, Zenon DEF T
<1>6. f = [i \in 0 .. n |-> IF i = 0 THEN r0 ELSE AttributeRead(s, f[i - 1])]
  BY <1>5, Zenon
<1>7. QED
  BY <1>6, Zenon DEF Loop

-----------------------------------------------------------------------------
(* The units of the pairs of a key. *)

PairSeqs == Seq(Nat \X Seq(Nat))

\* u[i]: the units of the first i pairs.
Built(u, pairs) ==
  /\ u \in [0 .. Len(pairs) -> Seq(Nat)]
  /\ u[0] = << >>
  /\ \A i \in 1 .. Len(pairs) : u[i] = u[i - 1] \o Cell(pairs[i])

\* The units of the pairs are built up pair by pair.
LEMMA UnitsBuilt ==
  ASSUME NEW pairs \in PairSeqs
  PROVE  \E u : Built(u, pairs) /\ PairUnits(pairs) = u[Len(pairs)]
<1> DEFINE n == Len(pairs)
           seqs == [i \in 1 .. n |-> <<pairs[i][1]>> \o Varbytes(pairs[i][2])]
           flat == CHOOSE f : f = [i \in 1 .. n |-> IF i = 1 THEN seqs[i] ELSE f[i - 1] \o seqs[i]]
           u == [i \in 0 .. n |-> IF i = 0 THEN << >> ELSE flat[i]]
<1>1. n \in Nat /\ \A i \in 1 .. n : pairs[i] \in Nat \X Seq(Nat)
  BY DEF PairSeqs
<1>2. \A i \in 1 .. n : seqs[i] = Cell(pairs[i]) /\ seqs[i] \in Seq(Nat)
  BY <1>1, CellIs DEF Cell
<1>3. Len(seqs) = n /\ (n = 0 => seqs = << >>)
  BY <1>1
<1> HIDE DEF n, seqs
<1>4. flat = [i \in 1 .. n |-> IF i = 1 THEN seqs[i] ELSE flat[i - 1] \o seqs[i]]
  BY <1>1, FlattenUnfolds, Zenon
<1> HIDE DEF flat
<1>5. \A i \in 1 .. n : flat[i] = IF i = 1 THEN seqs[i] ELSE flat[i - 1] \o seqs[i]
  BY <1>4, Zenon
<1>6. \A i \in 1 .. n : flat[i] \in Seq(Nat)
  <2> DEFINE T == {m \in Nat : m + 1 \in 1 .. n => flat[m + 1] \in Seq(Nat)}
  <2>1. 0 \in T
    BY <1>2, <1>5
  <2>2. ASSUME NEW m \in T PROVE m + 1 \in T
    <3>1. CASE m + 2 \in 1 .. n
      <4>1. m + 1 \in 1 .. n /\ m + 2 # 1 /\ (m + 2) - 1 = m + 1 /\ (m + 1) + 1 = m + 2
        BY <3>1, <1>1
      <4>2. flat[m + 1] \in Seq(Nat) /\ seqs[m + 2] \in Seq(Nat)
        BY <3>1, <4>1, <1>2
      <4>3. flat[m + 2] = flat[(m + 2) - 1] \o seqs[m + 2]
        BY <3>1, <4>1, <1>5, Zenon
      <4>4. flat[m + 2] \in Seq(Nat)
        <5> HIDE DEF T
        <5>1. QED
          BY <4>1, <4>2, <4>3
      <4>5. QED
        BY <4>1, <4>4
    <3>2. QED
      BY <3>1
  <2> HIDE DEF T
  <2>3. T = Nat
    BY <2>1, <2>2, NatSets DEF T
  <2>4. QED
    <3>1. ASSUME NEW i \in 1 .. n PROVE flat[i] \in Seq(Nat)
      <4>1. i - 1 \in T
        BY <2>3, <1>1
      <4>2. QED
        BY <4>1, <1>1 DEF T
    <3>2. QED
      BY <3>1
<1>7. Built(u, pairs)
  <2>1. u \in [0 .. n -> Seq(Nat)] /\ u[0] = << >>
    BY <1>1, <1>6
  <2>2. ASSUME NEW i \in 1 .. n PROVE u[i] = u[i - 1] \o Cell(pairs[i])
    <3>1. u[i] = flat[i]
      BY <1>1
    <3>2. CASE i = 1
      <4>1. flat[i] = Cell(pairs[i]) /\ u[i - 1] = << >> /\ Cell(pairs[i]) \in Seq(Nat)
        BY <3>2, <1>1, <1>2, <1>5
      <4>2. QED
        BY <4>1, <3>1, ConcatEmptySeq
    <3>3. CASE i # 1
      <4>1. u[i - 1] = flat[i - 1]
        BY <3>3, <1>1
      <4>2. flat[i] = flat[i - 1] \o seqs[i]
        BY <3>3, <1>5, Zenon
      <4>3. QED
        BY <4>1, <4>2, <3>1, <1>2, Zenon
    <3>4. QED
      BY <3>2, <3>3
  <2> HIDE DEF u
  <2>3. QED
    BY <2>1, <2>2 DEF Built, n
<1>8. PairUnits(pairs) = FlattenSeq(seqs)
  BY DEF PairUnits, n, seqs
<1>9. FlattenSeq(seqs) = u[n]
  <2>1. CASE n = 0
    BY <2>1, <1>3 DEF FlattenSeq
  <2>2. CASE n # 0
    <3>1. FlattenSeq(seqs) = flat[n]
      BY <2>2, <1>3, Zenon DEF FlattenSeq, flat
    <3>2. QED
      BY <3>1, <2>2, <1>1
  <2>3. QED
    BY <2>1, <2>2
<1>10. QED
  BY <1>7, <1>8, <1>9 DEF n

\* What the units of the first i pairs are made of.
LEMMA BuiltParts ==
  ASSUME NEW pairs \in PairSeqs, NEW u, Built(u, pairs)
  PROVE  /\ Len(pairs) \in Nat
         /\ u[0] = << >> /\ Len(u[0]) = 0
         /\ \A i \in 0 .. Len(pairs) : u[i] \in Seq(Nat) /\ Len(u[i]) \in Nat
         /\ \A i \in 1 .. Len(pairs) : /\ pairs[i] \in Nat \X Seq(Nat)
                                       /\ i - 1 \in 0 .. Len(pairs)
                                       /\ u[i] = u[i - 1] \o Cell(pairs[i])
<1>1. \A i \in 0 .. Len(pairs) : u[i] \in Seq(Nat)
  BY Zenon DEF Built
<1>2. \A i \in 0 .. Len(pairs) : Len(u[i]) \in Nat
  BY <1>1
<1>3. Len(pairs) \in Nat /\ \A i \in 1 .. Len(pairs) : pairs[i] \in Nat \X Seq(Nat)
  BY DEF PairSeqs
<1>4. \A i \in 1 .. Len(pairs) : i - 1 \in 0 .. Len(pairs)
  BY <1>3
<1>5. u[0] = << >> /\ \A i \in 1 .. Len(pairs) : u[i] = u[i - 1] \o Cell(pairs[i])
  BY Zenon DEF Built
<1>6. Len(u[0]) = 0
  BY <1>5
<1>7. QED
  BY <1>1, <1>2, <1>3, <1>4, <1>5, <1>6, Zenon

\* The units of the first pairs begin those of more pairs.
LEMMA UnitsGrow ==
  ASSUME NEW pairs \in PairSeqs, NEW u, Built(u, pairs),
         NEW k \in 0 .. Len(pairs), NEW i \in 0 .. k
  PROVE  /\ Len(u[i]) <= Len(u[k])
         /\ \A j \in 1 .. Len(u[i]) : u[k][j] = u[i][j]
<1> DEFINE n == Len(pairs)
           Starts(v) == /\ Len(u[i]) <= Len(v)
                        /\ \A j \in 1 .. Len(u[i]) : v[j] = u[i][j]
           T == {m \in Nat : i + m <= n => Starts(u[i + m])}
<1>1. n \in Nat /\ i \in Nat /\ k \in Nat /\ i + 0 = i /\ Len(u[i]) \in Nat
  BY BuiltParts
<1>2. 0 \in T
  BY <1>1
<1>3. ASSUME NEW m \in T PROVE m + 1 \in T
  <2>1. CASE i + (m + 1) <= n
    <3> DEFINE k1 == i + (m + 1)
               v == u[i + m]
               c == Cell(pairs[k1])
    <3>1. k1 \in 1 .. n /\ k1 - 1 = i + m /\ i + m \in 0 .. n
      BY <2>1, <1>1
    <3>2. Starts(v)
      BY <3>1
    <3> HIDE DEF T
    <3>3. u[k1] = u[k1 - 1] \o c /\ v \in Seq(Nat) /\ pairs[k1] \in Nat \X Seq(Nat)
      BY <3>1, BuiltParts, Zenon
    <3>4. u[k1] = v \o c /\ c \in Seq(Nat)
      BY <3>1, <3>3, CellIs
    <3> HIDE DEF k1, c, v
    <3>5. Starts(v \o c)
      <4>1. \A j \in 1 .. Len(v) : (v \o c)[j] = v[j]
        BY <3>3, <3>4
      <4>2. Len(v \o c) >= Len(v) /\ Len(v) \in Nat
        BY <3>3, <3>4
      <4>3. QED
        BY <4>1, <4>2, <3>2, <1>1
    <3>6. Starts(u[i + (m + 1)])
      BY <3>4, <3>5, Zenon DEF k1
    <3> HIDE DEF Starts
    <3>7. QED
      BY <3>6 DEF T
  <2>2. QED
    BY <2>1
<1> HIDE DEF T
<1>4. T = Nat
  BY <1>2, <1>3, NatSets DEF T
<1>5. k - i \in T /\ i + (k - i) = k /\ k <= n
  BY <1>1, <1>4
<1> HIDE DEF Starts
<1>6. Starts(u[k])
  BY <1>5 DEF T
<1>7. QED
  BY <1>6 DEF Starts

\* After the first n of these units come those of the pair.
HasCell(all, n, pair) ==
  /\ all \in Seq(Nat) /\ Len(all) \in Nat /\ n \in Nat
  /\ pair \in Nat \X Seq(Nat) /\ Len(pair[2]) \in Nat
  /\ n + Len(pair[2]) + 2 <= Len(all)
  /\ all[n + 1] = pair[1]
  /\ all[n + 2] = Len(pair[2])
  /\ \A j \in 1 .. Len(pair[2]) : all[n + 2 + j] = pair[2][j]

\* Where the i-th pair is.
LEMMA CellPlace ==
  ASSUME NEW pairs \in PairSeqs, NEW u, Built(u, pairs), NEW i \in 1 .. Len(pairs)
  PROVE  /\ HasCell(u[Len(pairs)], Len(u[i - 1]), pairs[i])
         /\ Len(u[i]) = Len(u[i - 1]) + Len(pairs[i][2]) + 2
         /\ Len(u[i]) <= Len(u[Len(pairs)])
<1> DEFINE n == Len(pairs)
           all == u[n]
           v == u[i - 1]
           at == Len(v)
           c == Cell(pairs[i])
<1>1. n \in Nat /\ i \in 1 .. n /\ i - 1 \in 0 .. n /\ i \in 0 .. n /\ n \in 0 .. n
  BY DEF PairSeqs
<1>2. pairs[i] \in Nat \X Seq(Nat) /\ v \in Seq(Nat) /\ u[i] \in Seq(Nat) /\ all \in Seq(Nat) /\ u[i] = v \o c
  BY <1>1, BuiltParts, Zenon
<1> HIDE DEF all
<1>3. /\ Len(u[i]) <= Len(all)
      /\ \A j \in 1 .. Len(u[i]) : all[j] = u[i][j]
  BY <1>1, UnitsGrow DEF all
<1>4. /\ c \in Seq(Nat) /\ Len(c) = Len(pairs[i][2]) + 2
      /\ c[1] = pairs[i][1] /\ c[2] = Len(pairs[i][2])
      /\ \A j \in 1 .. Len(pairs[i][2]) : c[j + 2] = pairs[i][2][j]
  BY <1>2, CellIs
<1>5. at \in Nat /\ at = Len(v) /\ Len(pairs[i][2]) \in Nat
  BY <1>2
<1> HIDE DEF c, v, n, all, at
<1>6. /\ Len(u[i]) = at + Len(c) /\ Len(c) \in Nat
      /\ \A j \in 1 .. Len(c) : u[i][at + j] = c[j]
  <2>1. /\ Len(v \o c) = Len(v) + Len(c) /\ Len(c) \in Nat
        /\ \A j \in 1 .. Len(c) : (v \o c)[Len(v) + j] = c[j]
    BY <1>2, <1>4, Joined, Zenon
  <2>2. QED
    BY <2>1, <1>2, <1>5, Zenon
<1>7. ASSUME NEW j \in 1 .. Len(c) PROVE all[at + j] = c[j]
  <2>1. at + j \in 1 .. Len(u[i])
    BY <1>5, <1>6
  <2>2. QED
    BY <2>1, <1>3, <1>6, Zenon
<1>8. all[at + 1] = pairs[i][1] /\ all[at + 2] = Len(pairs[i][2])
  BY <1>4, <1>5, <1>7
<1>9. \A j \in 1 .. Len(pairs[i][2]) : all[at + 2 + j] = pairs[i][2][j]
  <2>1. Len(c) = Len(pairs[i][2]) + 2 /\ Len(pairs[i][2]) \in Nat /\ at \in Nat
    BY <1>4, <1>5, Zenon
  <2>2. ASSUME NEW j \in 1 .. Len(pairs[i][2])
        PROVE  j + 2 \in 1 .. Len(c) /\ at + (j + 2) = at + 2 + j
    BY <2>1
  <2>3. ASSUME NEW j \in 1 .. Len(pairs[i][2]) PROVE all[at + 2 + j] = pairs[i][2][j]
    <3>1. all[at + (j + 2)] = c[j + 2]
      BY <1>7, <2>2, Zenon
    <3>2. c[j + 2] = pairs[i][2][j]
      BY <1>4, Zenon
    <3>3. QED
      BY <3>1, <3>2, <2>2, Zenon
  <2>4. QED
    BY <2>3
<1>10. Len(u[i]) = at + Len(pairs[i][2]) + 2
  BY <1>4, <1>5, <1>6
<1>11. HasCell(all, at, pairs[i])
  <2>1. at + Len(pairs[i][2]) + 2 <= Len(all) /\ Len(all) \in Nat
    BY <1>2, <1>3, <1>10
  <2>2. QED
    BY <2>1, <1>2, <1>5, <1>8, <1>9, Zenon DEF HasCell
<1>12. QED
  BY <1>3, <1>10, <1>11, Zenon DEF n, all, at, v

-----------------------------------------------------------------------------
(* The units of a key, and what the decoder makes of them. *)

\* A part of a sequence that is known unit by unit.
LEMMA Within ==
  ASSUME NEW s \in Seq(Nat), NEW b \in Seq(Nat), NEW at \in Nat, at + Len(b) <= Len(s),
         \A j \in 1 .. Len(b) : s[at + j] = b[j]
  PROVE  SubSeq(s, at + 1, at + Len(b)) = b
<1> DEFINE t == SubSeq(s, at + 1, at + Len(b))
<1>1. Len(b) \in Nat /\ Len(s) \in Nat
  OBVIOUS
<1>2. t \in Seq(Nat) /\ Len(t) = Len(b) /\ \A j \in 1 .. Len(b) : t[j] = s[at + j]
  <2>1. at + 1 \in 1 .. Len(s) + 1 /\ at + Len(b) \in at .. Len(s)
    BY <1>1
  <2>2. QED
    BY <1>1, <2>1
<1> HIDE DEF t
<1>3. \A j \in 1 .. Len(t) : t[j] = b[j]
  BY <1>2
<1>4. t = b
  BY <1>2, <1>3, SeqEqual
<1>5. QED
  BY <1>4 DEF t

\* The units of pairs are a sequence of units.
LEMMA PairUnitsType ==
  ASSUME NEW pairs \in PairSeqs
  PROVE  PairUnits(pairs) \in Seq(Nat) /\ Len(PairUnits(pairs)) \in Nat
<1>1. PICK u : Built(u, pairs) /\ PairUnits(pairs) = u[Len(pairs)]
  BY UnitsBuilt, Zenon
<1>2. Len(pairs) \in 0 .. Len(pairs)
  BY DEF PairSeqs
<1>3. u[Len(pairs)] \in Seq(Nat) /\ Len(u[Len(pairs)]) \in Nat
  <2>1. Built(u, pairs)
    BY <1>1, Zenon
  <2>2. \A i \in 0 .. Len(pairs) : u[i] \in Seq(Nat) /\ Len(u[i]) \in Nat
    BY <2>1, BuiltParts, Zenon
  <2>3. QED
    BY <2>2, <1>2, Zenon
<1>4. QED
  BY <1>1, <1>3, Zenon

\* units has these parts in their places.
HasParts(units, codec, comment, n, all) ==
  /\ units \in Seq(Nat) /\ Len(comment) \in Nat /\ Len(all) \in Nat
  /\ Len(units) = 4 + Len(comment) + Len(all)
  /\ units[1] = Sigil /\ units[2] = codec /\ units[3] = Len(comment)
  /\ \A j \in 1 .. Len(comment) : units[3 + j] = comment[j]
  /\ units[4 + Len(comment)] = n
  /\ \A j \in 1 .. Len(all) : units[4 + Len(comment) + j] = all[j]

\* Where the parts of a key are.
LEMMA KeyUnitsAre ==
  ASSUME NEW codec \in Nat, NEW comment \in Seq(Nat), NEW pairs \in PairSeqs
  PROVE  HasParts(KeyUnits(codec, comment, pairs), codec, comment, Len(pairs), PairUnits(pairs))
<1> DEFINE units == KeyUnits(codec, comment, pairs)
           all == PairUnits(pairs)
           m == Len(comment)
<1>1. all \in Seq(Nat)
  BY PairUnitsType, Zenon
<1> DEFINE n == Len(pairs)
<1>2. n \in Nat /\ m \in Nat /\ Sigil \in Nat /\ Len(all) \in Nat
  <2>1. Sigil \in Nat
    BY WireConstants, Zenon
  <2>2. n \in Nat /\ m \in Nat /\ Len(all) \in Nat
    BY PairUnitsType DEF PairSeqs
  <2>3. QED
    BY <2>1, <2>2
<1> DEFINE a == <<Sigil, codec>>
           b == <<m>> \o comment
           ab == a \o b
           abn == ab \o <<n>>
<1>3. units = abn \o all
  BY Zenon DEF KeyUnits, Varbytes
<1>4. comment \in Seq(Nat) /\ m = Len(comment)
  OBVIOUS
<1> HIDE DEF units, all, m
<1>5. /\ b \in Seq(Nat) /\ Len(b) = m + 1 /\ b[1] = m
      /\ \A j \in 1 .. m : b[1 + j] = comment[j]
  <2>1. <<m>> \in Seq(Nat) /\ Len(<<m>>) = 1 /\ <<m>>[1] = m
    BY <1>2
  <2> DEFINE c == <<m>>
  <2> HIDE DEF c
  <2>2. /\ c \o comment \in Seq(Nat) /\ Len(c \o comment) = Len(c) + Len(comment)
        /\ \A j \in 1 .. Len(c) : (c \o comment)[j] = c[j]
        /\ \A j \in 1 .. Len(comment) : (c \o comment)[Len(c) + j] = comment[j]
    BY <2>1, <1>4, Joined, Zenon DEF c
  <2>3. QED
    BY <2>1, <2>2, <1>2, <1>4 DEF c
<1>6. a \in Seq(Nat) /\ Len(a) = 2 /\ a[1] = Sigil /\ a[2] = codec
  BY <1>2
<1> HIDE DEF a, b
<1>7. /\ ab \in Seq(Nat) /\ Len(ab) = 3 + m
      /\ ab[1] = Sigil /\ ab[2] = codec /\ ab[3] = m
      /\ \A j \in 1 .. m : ab[3 + j] = comment[j]
  <2>1. /\ ab \in Seq(Nat) /\ Len(ab) = Len(a) + Len(b)
        /\ \A j \in 1 .. Len(a) : ab[j] = a[j]
        /\ \A j \in 1 .. Len(b) : ab[Len(a) + j] = b[j]
    BY <1>5, <1>6, Joined, Zenon
  <2> HIDE DEF ab
  <2>2. ab[1] = Sigil /\ ab[2] = codec /\ ab[3] = m /\ Len(ab) = 3 + m
    BY <2>1, <1>2, <1>5, <1>6
  <2>3. ASSUME NEW j \in 1 .. m PROVE ab[3 + j] = comment[j]
    <3>1. 1 + j \in 1 .. Len(b) /\ Len(a) + (1 + j) = 3 + j
      BY <1>2, <1>5, <1>6
    <3>2. ab[Len(a) + (1 + j)] = b[1 + j]
      BY <3>1, <2>1, Zenon
    <3>3. QED
      BY <3>1, <3>2, <1>5
  <2>4. QED
    BY <2>1, <2>2, <2>3
<1> HIDE DEF ab
<1>8. /\ abn \in Seq(Nat) /\ Len(abn) = 4 + m
      /\ \A j \in 1 .. 3 + m : abn[j] = ab[j]
      /\ abn[4 + m] = n
  BY <1>2, <1>7
<1> HIDE DEF abn, n
<1>9. /\ units \in Seq(Nat) /\ Len(units) = Len(abn) + Len(all)
      /\ \A j \in 1 .. Len(abn) : units[j] = abn[j]
      /\ \A j \in 1 .. Len(all) : units[Len(abn) + j] = all[j]
  <2>1. /\ abn \o all \in Seq(Nat) /\ Len(abn \o all) = Len(abn) + Len(all)
        /\ \A j \in 1 .. Len(abn) : (abn \o all)[j] = abn[j]
        /\ \A j \in 1 .. Len(all) : (abn \o all)[Len(abn) + j] = all[j]
    BY <1>8, <1>1, Joined, Zenon
  <2>2. QED
    BY <1>3, <2>1, Zenon
<1>10. \A j \in 1 .. 3 + m : units[j] = ab[j]
  BY <1>2, <1>8, <1>9
<1>11. ASSUME NEW j \in 1 .. m PROVE units[3 + j] = comment[j]
  <2>1. 3 + j \in 1 .. 3 + m
    BY <1>2
  <2>2. QED
    BY <2>1, <1>7, <1>10, Zenon
<1>12. /\ units[1] = Sigil /\ units[2] = codec /\ units[3] = m
       /\ units[4 + m] = n
  <2>1. units[4 + m] = n
    <3>1. 4 + m \in 1 .. Len(abn)
      BY <1>2, <1>8
    <3>2. QED
      BY <3>1, <1>8, <1>9, Zenon
  <2>2. 1 \in 1 .. 3 + m /\ 2 \in 1 .. 3 + m /\ 3 \in 1 .. 3 + m
    BY <1>2
  <2>3. QED
    BY <2>1, <2>2, <1>7, <1>10, Zenon
<1>13. Len(units) = 4 + m + Len(all)
  BY <1>2, <1>8, <1>9
<1>14. \A j \in 1 .. Len(all) : units[4 + m + j] = all[j]
  BY <1>8, <1>9, Zenon
<1>15. QED
  BY <1>2, <1>9, <1>11, <1>12, <1>13, <1>14, Zenon DEF n, units, all, m, HasParts

\* After the first n units of s come these, as far as s goes.
Holds(s, n, units) == \A j \in 1 .. Len(units) : n + j <= Len(s) => s[n + j] = units[j]

\* The attributes that the first n pairs make.
IsTable(attributes, pairs, n) ==
  /\ attributes = [id \in DOMAIN attributes |-> attributes[id]]
  /\ DOMAIN attributes = {pairs[j][1] : j \in 1 .. n}
  /\ \A j \in 1 .. n : attributes[pairs[j][1]] = pairs[j][2]
  /\ \A j, k \in 1 .. n : pairs[j][1] = pairs[k][1] => j = k

\* What the decoder's loop has after i attributes, which begin after the base.
HasRead(r, i, pairs, u, base, s) ==
  /\ r.at = base + Len(u[i]) + 1 /\ r.at <= Len(s) + 1
  /\ i > 0 => r.at - 1 <= MaxDecodedSize
  /\ IsTable(r.attributes, pairs, i)
  /\ \A j \in 1 .. i : pairs[j][1] \in AttrIds /\ Len(pairs[j][2]) <= MaxVarbytes

\* From position p on, s holds the units of the pair, as far as it goes.
PairAt(s, p, pair) ==
  /\ p <= Len(s) => s[p] = pair[1]
  /\ p + 1 <= Len(s) => s[p + 1] = Len(pair[2])
  /\ \A j \in 1 .. Len(pair[2]) : p + 1 + j <= Len(s) => s[p + 1 + j] = pair[2][j]

\* The decoder accepts it after these attributes.
Fits(s, r, pair) ==
  /\ pair[1] \in AttrIds /\ pair[1] \notin DOMAIN r.attributes
  /\ Len(pair[2]) <= MaxVarbytes
  /\ r.at + 1 + Len(pair[2]) <= Len(s)
  /\ r.at + 1 + Len(pair[2]) <= MaxDecodedSize

\* One turn of the loop.
LEMMA AttributeReadAt ==
  ASSUME NEW s \in Seq(Nat), NEW pair \in Nat \X Seq(Nat),
         NEW r, r.ok = TRUE, r.at \in Nat, PairAt(s, r.at, pair)
  PROVE  AttributeRead(s, r) =
           IF Fits(s, r, pair)
           THEN [r EXCEPT !.at = r.at + 2 + Len(pair[2]),
                          !.attributes = With(@, pair[1], pair[2])]
           ELSE [r EXCEPT !.ok = FALSE]
<1> DEFINE p == r.at
           id == pair[1]
           value == pair[2]
           len == Len(value)
<1>1. /\ p \in Nat /\ id \in Nat /\ value \in Seq(Nat) /\ len \in Nat
      /\ len = Len(value)
  OBVIOUS
<1>2. /\ p <= Len(s) => s[p] = id
      /\ p + 1 <= Len(s) => s[p + 1] = len
      /\ \A j \in 1 .. len : p + 1 + j <= Len(s) => s[p + 1 + j] = value[j]
  BY Zenon DEF PairAt
<1>3. Fits(s, r, pair) <=>
        /\ id \in AttrIds /\ id \notin DOMAIN r.attributes
        /\ len <= MaxVarbytes /\ p + 1 + len <= Len(s)
        /\ p + 1 + len <= MaxDecodedSize
  BY Zenon DEF Fits
<1>4. r.at = p /\ r.ok
  OBVIOUS
<1> HIDE DEF p, id, value, len
<1>5. Len(s) \in Nat /\ MaxDecodedSize \in Nat /\ MaxVarbytes \in Nat
  BY WireConstants
<1>6. CASE p + 1 <= Len(s)
  <2>1. s[p] = id /\ s[p + 1] = len
    BY <1>1, <1>2, <1>5, <1>6
  <2>2. After(s, p + 1) = p + 2 + len /\ (p + 2 + len) - 1 = p + 1 + len /\ p <= Len(s)
    BY <2>1, <1>1, <1>5, <1>6 DEF After
  <2>3. HasVarbytes(s, p + 1) <=> len <= MaxVarbytes /\ p + 1 + len <= Len(s)
    BY <2>1, <1>6, Zenon DEF HasVarbytes
  <2>4. ASSUME p + 1 + len <= Len(s) PROVE VarbytesAt(s, p + 1) = value
    <3>1. \A j \in 1 .. len : s[(p + 1) + j] = value[j]
      BY <2>4, <1>1, <1>2, <1>5
    <3>2. p + 1 \in Nat
      BY <1>1
    <3>3. SubSeq(s, (p + 1) + 1, (p + 1) + len) = value
      BY <2>4, <3>1, <3>2, <1>1, Within
    <3>4. QED
      BY <2>1, <3>3 DEF VarbytesAt
  <2>5. AttributeRead(s, r) =
          IF /\ IsNewAttribute(id, r.attributes)
             /\ HasVarbytes(s, p + 1)
             /\ p + 1 + len <= MaxDecodedSize
          THEN [r EXCEPT !.at = p + 2 + len, !.attributes = With(@, id, VarbytesAt(s, p + 1))]
          ELSE [r EXCEPT !.ok = FALSE]
    BY <2>1, <2>2, <1>4, Zenon DEF AttributeRead
  <2>6. QED
    BY <2>3, <2>4, <2>5, <1>3, <1>4, Zenon DEF IsNewAttribute, p, id, value, len
<1>7. CASE ~ (p + 1 <= Len(s))
  <2>1. ~ HasVarbytes(s, p + 1)
    BY <1>7, Zenon DEF HasVarbytes
  <2>2. ~ (p + 1 + len <= Len(s))
    BY <1>1, <1>5, <1>7
  <2>3. AttributeRead(s, r) = [r EXCEPT !.ok = FALSE]
    BY <2>1, <1>4, Zenon DEF AttributeRead
  <2>4. QED
    BY <2>2, <2>3, <1>3, Zenon
<1>8. QED
  BY <1>6, <1>7

IsState(r) == DOMAIN r = {"ok", "at", "attributes"} /\ r.ok \in BOOLEAN

\* The i-th pair is there, within the limits, and has an attribute of its own.
CanRead(s, base, pairs, u, i) ==
  /\ base + Len(u[i]) <= Len(s) /\ base + Len(u[i]) <= MaxDecodedSize
  /\ pairs[i][1] \in AttrIds /\ Len(pairs[i][2]) <= MaxVarbytes
  /\ \A j \in 1 .. i - 1 : pairs[j][1] # pairs[i][1]

\* The i-th turn of the loop: it reads the i-th pair or refuses, and reads it
\* where it can.
LEMMA AttributeReadIs ==
  ASSUME NEW pairs \in PairSeqs, NEW u, Built(u, pairs), NEW i \in 1 .. Len(pairs),
         NEW s \in Seq(Nat), NEW base \in Nat, Holds(s, base, u[Len(pairs)]),
         NEW r, IsState(r), r.ok, HasRead(r, i - 1, pairs, u, base, s)
  PROVE  LET next == AttributeRead(s, r)
         IN  /\ IsState(next)
             /\ next.ok => HasRead(next, i, pairs, u, base, s)
             /\ CanRead(s, base, pairs, u, i) => next.ok
<1> DEFINE pair == pairs[i]
           all == u[Len(pairs)]
           at == Len(u[i - 1])
           id == pair[1]
           value == pair[2]
           len == Len(value)
           p == base + at + 1
           next == AttributeRead(s, r)
<1>1. /\ HasCell(all, at, pair)
      /\ Len(u[i]) = at + len + 2
  BY CellPlace, Zenon
<1>2. /\ Len(all) \in Nat /\ at \in Nat /\ pair \in Nat \X Seq(Nat) /\ len \in Nat
      /\ at + len + 2 <= Len(all)
      /\ all[at + 1] = id /\ all[at + 2] = len
      /\ \A j \in 1 .. len : all[at + 2 + j] = value[j]
  BY <1>1, Zenon DEF HasCell
<1>3. i \in Nat /\ Len(s) \in Nat /\ MaxDecodedSize \in Nat
  BY WireConstants DEF PairSeqs
<1>4. /\ r.at = p /\ p <= Len(s) + 1
      /\ DOMAIN r.attributes = {pairs[j][1] : j \in 1 .. i - 1}
      /\ \A j \in 1 .. i - 1 : /\ pairs[j][1] \in AttrIds /\ Len(pairs[j][2]) <= MaxVarbytes
                               /\ r.attributes[pairs[j][1]] = pairs[j][2]
      /\ \A j, k \in 1 .. i - 1 : pairs[j][1] = pairs[k][1] => j = k
  <2>1. r.at = base + at + 1
    BY Zenon DEF HasRead
  <2>2. QED
    BY <2>1, Zenon DEF HasRead, IsTable
<1> HIDE DEF pair, all, at, id, value, len
<1>5. /\ base + Len(u[i]) = p + 1 + len /\ p \in Nat
      /\ at + 1 \in 1 .. Len(all) /\ at + 2 \in 1 .. Len(all)
      /\ base + (at + 1) = p /\ base + (at + 2) = p + 1
      /\ \A j \in 1 .. len : at + 2 + j \in 1 .. Len(all) /\ base + (at + 2 + j) = p + 1 + j
  <2>1. at \in Nat /\ len \in Nat /\ Len(all) \in Nat /\ Len(u[i]) = at + len + 2 /\ at + len + 2 <= Len(all)
    BY <1>1, <1>2
  <2>2. QED
    BY <2>1
<1> HIDE DEF p
<1>6. PairAt(s, p, pair)
  <2>1. \A j \in 1 .. Len(all) : base + j <= Len(s) => s[base + j] = all[j]
    BY Zenon DEF Holds, all
  <2>2. ASSUME NEW j \in 1 .. len, p + 1 + j <= Len(s) PROVE s[p + 1 + j] = value[j]
    <3>1. s[base + (at + 2 + j)] = all[at + 2 + j]
      BY <1>5, <2>1, <2>2, Zenon
    <3>2. QED
      BY <3>1, <1>2, <1>5, Zenon
  <2>3. p <= Len(s) => s[p] = id
    <3>1. base + (at + 1) <= Len(s) => s[base + (at + 1)] = all[at + 1]
      BY <2>1, <1>5, Zenon
    <3>2. base + (at + 1) = p /\ all[at + 1] = id
      BY <1>2, <1>5, Zenon
    <3>3. QED
      BY <3>1, <3>2, Zenon
  <2>4. p + 1 <= Len(s) => s[p + 1] = len
    <3>1. base + (at + 2) <= Len(s) => s[base + (at + 2)] = all[at + 2]
      BY <2>1, <1>5, Zenon
    <3>2. base + (at + 2) = p + 1 /\ all[at + 2] = len
      BY <1>2, <1>5, Zenon
    <3>3. QED
      BY <3>1, <3>2, Zenon
  <2>5. QED
    BY <2>2, <2>3, <2>4, Zenon DEF PairAt, id, value, len
<1>7. next = IF Fits(s, r, pair)
             THEN [r EXCEPT !.at = r.at + 2 + len, !.attributes = With(@, id, value)]
             ELSE [r EXCEPT !.ok = FALSE]
  <2>1. r.ok = TRUE
    BY DEF IsState
  <2>2. r.at \in Nat /\ PairAt(s, r.at, pair) /\ pair \in Nat \X Seq(Nat)
    BY <1>2, <1>4, <1>5, <1>6, Zenon
  <2>3. QED
    BY <2>1, <2>2, AttributeReadAt, Zenon DEF id, value, len, next
<1> HIDE DEF next
<1>8. Fits(s, r, pair) <=>
        /\ id \in AttrIds /\ id \notin DOMAIN r.attributes
        /\ len <= MaxVarbytes
        /\ p + 1 + len <= Len(s) /\ p + 1 + len <= MaxDecodedSize
  BY <1>4, Zenon DEF Fits, id, value, len
<1>9. CASE ~ Fits(s, r, pair)
  <2>1. next = [r EXCEPT !.ok = FALSE]
    BY <1>7, <1>9, Zenon
  <2>2. IsState(next) /\ next.ok = FALSE
    BY <2>1 DEF IsState
  <2>3. CanRead(s, base, pairs, u, i) => id \notin DOMAIN r.attributes
    BY <1>4 DEF id, pair, CanRead
  <2>4. CanRead(s, base, pairs, u, i) => /\ id \in AttrIds /\ len <= MaxVarbytes
                                         /\ p + 1 + len <= Len(s) /\ p + 1 + len <= MaxDecodedSize
    BY <1>5, Zenon DEF id, len, value, pair, CanRead
  <2>5. ~ CanRead(s, base, pairs, u, i)
    BY <2>3, <2>4, <1>8, <1>9, Zenon
  <2>6. QED
    BY <2>2, <2>5 DEF next
<1>10. CASE Fits(s, r, pair)
  <2>1. next = [r EXCEPT !.at = r.at + 2 + len, !.attributes = With(@, id, value)]
    BY <1>7, <1>10, Zenon
  <2>2. /\ IsState(next) /\ next.ok = TRUE
        /\ next.at = r.at + 2 + len /\ next.attributes = With(r.attributes, id, value)
    BY <2>1 DEF IsState
  <2>3. /\ id \in AttrIds /\ id \notin DOMAIN r.attributes
        /\ len <= MaxVarbytes /\ p + 1 + len <= Len(s)
        /\ p + 1 + len <= MaxDecodedSize
    BY <1>8, <1>10, Zenon
  <2>4. next.at = base + Len(u[i]) + 1 /\ next.at <= Len(s) + 1 /\ next.at - 1 <= MaxDecodedSize
    <3>1. len \in Nat /\ p \in Nat /\ next.at = p + 2 + len /\ Len(u[i]) = at + len + 2 /\ at \in Nat
      BY <1>1, <1>2, <1>4, <1>5, <2>2
    <3>2. QED
      BY <3>1, <1>3, <1>5, <2>3 DEF p
  <2>5. 1 .. i = (1 .. i - 1) \cup {i} /\ i \notin 1 .. i - 1
    BY <1>3
  <2>6. DOMAIN next.attributes = {pairs[j][1] : j \in 1 .. i}
    <3>1. DOMAIN next.attributes = DOMAIN r.attributes \cup {id}
      BY <2>2, Zenon DEF With
    <3>2. QED
      BY <3>1, <1>4, <2>5 DEF id, pair
  <2>7. ASSUME NEW j \in 1 .. i
        PROVE  /\ pairs[j][1] \in AttrIds /\ Len(pairs[j][2]) <= MaxVarbytes
               /\ next.attributes[pairs[j][1]] = pairs[j][2]
    <3>1. CASE j = i
      BY <3>1, <2>2, <2>3 DEF With, id, value, len, pair
    <3>2. CASE j \in 1 .. i - 1
      <4>1. pairs[j][1] \in DOMAIN r.attributes /\ pairs[j][1] # id
        BY <3>2, <1>4, <2>3
      <4>2. next.attributes[pairs[j][1]] = r.attributes[pairs[j][1]]
        BY <4>1, <2>2 DEF With
      <4>3. QED
        BY <3>2, <4>2, <1>4
    <3>3. QED
      BY <3>1, <3>2, <2>5
  <2>8. ASSUME NEW j \in 1 .. i, NEW k \in 1 .. i, pairs[j][1] = pairs[k][1] PROVE j = k
    <3>1. \A l \in 1 .. i - 1 : pairs[l][1] # pairs[i][1]
      BY <1>4, <2>3 DEF id, pair
    <3>2. QED
      BY <3>1, <2>5, <2>8, <1>4
  <2>9. HasRead(next, i, pairs, u, base, s)
    <3>1. next.attributes = [x \in DOMAIN next.attributes |-> next.attributes[x]]
      BY <2>2, Zenon DEF With
    <3>2. QED
      BY <3>1, <2>4, <2>6, <2>7, <2>8, <1>3 DEF HasRead, IsTable
  <2>10. QED
    BY <2>2, <2>9 DEF next
<1>11. QED
  BY <1>9, <1>10

\* The loop over all the attributes.
LEMMA AttributesReadIs ==
  ASSUME NEW pairs \in PairSeqs, NEW u, Built(u, pairs),
         NEW s \in Seq(Nat), NEW base \in Nat, base <= Len(s), Holds(s, base, u[Len(pairs)])
  PROVE  LET r == AttributesRead(s, base + 1, Len(pairs))
         IN  /\ r.ok \in BOOLEAN
             /\ r.ok => HasRead(r, Len(pairs), pairs, u, base, s)
             /\ (\A i \in 1 .. Len(pairs) : CanRead(s, base, pairs, u, i)) => r.ok
<1> DEFINE n == Len(pairs)
           r0 == [ok |-> TRUE, at |-> base + 1, attributes |-> << >>]
           f == Loop(s, r0, n)
           Fine(i) == /\ IsState(f[i])
                      /\ f[i].ok => HasRead(f[i], i, pairs, u, base, s)
                      /\ (\A j \in 1 .. i : CanRead(s, base, pairs, u, j)) => f[i].ok
           T == {m \in Nat : m <= n => Fine(m)}
<1>1. n \in Nat /\ Len(s) \in Nat /\ u[0] = << >> /\ Len(u[0]) = 0
  <2>1. n \in Nat /\ u[0] = << >> /\ Len(u[0]) = 0
    BY BuiltParts, Zenon
  <2>2. Len(s) \in Nat
    OBVIOUS
  <2>3. QED
    BY <2>1, <2>2, Zenon
<1> HIDE DEF r0
<1>2. f = [i \in 0 .. n |-> IF i = 0 THEN r0 ELSE AttributeRead(s, f[i - 1])]
  <2>1. n \in Nat
    BY <1>1
  <2> HIDE DEF n, Fine, T
  <2>2. Loop(s, r0, n) = [i \in 0 .. n |->
          IF i = 0 THEN r0 ELSE AttributeRead(s, Loop(s, r0, n)[i - 1])]
    BY <2>1, ReadUnfolds
  <2>3. QED
    BY <2>2, Zenon
<1>3. AttributesRead(s, base + 1, n) = f[n]
  BY Zenon DEF AttributesRead, Loop, r0
<1> HIDE DEF f
<1>4. f[0] = r0 /\ \A i \in 1 .. n : f[i] = AttributeRead(s, f[i - 1])
  <2>1. 0 \in 0 .. n /\ \A i \in 1 .. n : i \in 0 .. n /\ i # 0
    BY <1>1
  <2>2. QED
    BY <1>2, <2>1, Zenon
<1>5. 0 \in T
  <2>1. HasRead(r0, 0, pairs, u, base, s)
    BY <1>1 DEF HasRead, IsTable, r0
  <2>2. Fine(0)
    BY <1>4, <2>1 DEF IsState, r0
  <2>3. QED
    BY <2>2
<1>6. ASSUME NEW m \in Nat, m <= n => Fine(m) PROVE m + 1 <= n => Fine(m + 1)
  <2>1. SUFFICES ASSUME m + 1 <= n PROVE Fine(m + 1)
    OBVIOUS
  <2>2. m + 1 \in 1 .. n /\ (m + 1) - 1 = m /\ m <= n /\ m + 1 \in Nat
    BY <1>1, <2>1
  <2>3. Fine(m) /\ f[m + 1] = AttributeRead(s, f[m])
    BY <1>4, <1>6, <2>2
  <2>4. \A j \in 1 .. m : j \in 1 .. m + 1
    OBVIOUS
  <2>5. m + 1 \in 1 .. m + 1
    OBVIOUS
  <2>6. CASE f[m].ok
    <3>1. HasRead(f[m], (m + 1) - 1, pairs, u, base, s) /\ IsState(f[m])
      BY <2>2, <2>3, <2>6
    <3>2. /\ IsState(AttributeRead(s, f[m]))
          /\ AttributeRead(s, f[m]).ok => HasRead(AttributeRead(s, f[m]), m + 1, pairs, u, base, s)
          /\ CanRead(s, base, pairs, u, m + 1) => AttributeRead(s, f[m]).ok
      <4> HIDE DEF n
      <4>1. m + 1 \in 1 .. Len(pairs)
        BY <2>2 DEF n
      <4>2. QED
        BY <2>6, <3>1, <4>1, AttributeReadIs, Zenon
    <3>3. QED
      BY <2>3, <2>5, <3>2, Zenon
  <2>7. CASE ~ f[m].ok
    <3>1. AttributeRead(s, f[m]) = [f[m] EXCEPT !.ok = FALSE]
      BY <2>7, Zenon DEF AttributeRead
    <3>2. IsState(f[m + 1]) /\ f[m + 1].ok = FALSE
      BY <3>1, <2>3 DEF IsState
    <3>3. ~ \A j \in 1 .. m + 1 : CanRead(s, base, pairs, u, j)
      BY <2>3, <2>4, <2>7, Zenon
    <3>4. QED
      BY <3>2, <3>3, Zenon
  <2>8. QED
    BY <2>6, <2>7, Zenon
<1> HIDE DEF Fine
<1>7. \A m \in T : m + 1 \in T
  BY <1>6
<1> HIDE DEF T
<1>8. T = Nat
  <2>1. T \in SUBSET Nat
    BY Zenon DEF T
  <2>2. QED
    BY <2>1, <1>5, <1>7, NatSets
<1>9. Fine(n)
  BY <1>1, <1>8 DEF T
<1>10. QED
  BY <1>3, <1>9, Zenon DEF Fine, n, IsState

\* The attributes read are those of the key that the units stand for.
LEMMA KeyOfIs ==
  ASSUME NEW codec, NEW comment, NEW pairs \in PairSeqs, NEW attributes,
         IsTable(attributes, pairs, Len(pairs))
  PROVE  /\ KeyOf(codec, comment, pairs) = [codec |-> codec, comment |-> comment,
                                            attributes |-> attributes]
         /\ NoneTwice(pairs)
<1> DEFINE ids == {pairs[j][1] : j \in DOMAIN pairs}
           at(id) == CHOOSE j \in DOMAIN pairs : pairs[j][1] = id
<1>1. DOMAIN pairs = 1 .. Len(pairs)
  BY DEF PairSeqs
<1>2. attributes = [id \in ids |-> attributes[id]]
  BY <1>1, Zenon DEF IsTable
<1>3. ASSUME NEW id \in ids PROVE attributes[id] = pairs[at(id)][2]
  <2>1. \E j \in DOMAIN pairs : pairs[j][1] = id
    BY Zenon
  <2>2. at(id) \in 1 .. Len(pairs) /\ pairs[at(id)][1] = id
    BY <2>1, <1>1, Zenon
  <2>3. QED
    BY <2>2, Zenon DEF IsTable
<1>4. attributes = [id \in ids |-> pairs[at(id)][2]]
  BY <1>2, <1>3
<1>5. KeyOf(codec, comment, pairs) = [codec |-> codec, comment |-> comment, attributes |-> attributes]
  BY <1>4, Zenon DEF KeyOf
<1>6. QED
  BY <1>1, <1>5, Zenon DEF NoneTwice, IsTable

\* The units of a key are within the limits of the decoder.
Readable(codec, comment, pairs) ==
  /\ codec \in KnownCodecs /\ IsText(comment)
  /\ Len(comment) <= MaxVarbytes /\ Len(pairs) <= MaxAttributes
  /\ \A i \in 1 .. Len(pairs) : pairs[i][1] \in AttrIds /\ Len(pairs[i][2]) <= MaxVarbytes
  /\ NoneTwice(pairs)
  /\ Len(pairs) > 0 => Len(KeyUnits(codec, comment, pairs)) <= MaxDecodedSize

\* What the decoder makes of the sigil, the codec, the comment and the number
\* of attributes.
LEMMA HeaderIs ==
  ASSUME NEW codec \in Nat, NEW comment \in Seq(Nat), NEW pairs \in PairSeqs,
         NEW s \in Seq(Nat), Holds(s, 0, KeyUnits(codec, comment, pairs))
  PROVE  LET m == Len(comment)
         IN  /\ HasHeader(s) <=> /\ codec \in KnownCodecs /\ IsText(comment)
                                 /\ m <= MaxVarbytes /\ Len(pairs) <= MaxAttributes
                                 /\ 4 + m <= Len(s)
             /\ 4 + m <= Len(s) => /\ s[2] = codec /\ VarbytesAt(s, 3) = comment
                                   /\ After(s, 3) = 4 + m /\ s[4 + m] = Len(pairs)
<1> DEFINE m == Len(comment)
           units == KeyUnits(codec, comment, pairs)
           all == PairUnits(pairs)
<1>1. /\ m \in Nat /\ Len(all) \in Nat /\ Len(units) = 4 + m + Len(all)
      /\ units[1] = Sigil /\ units[2] = codec /\ units[3] = m
      /\ \A j \in 1 .. m : units[3 + j] = comment[j]
      /\ units[4 + m] = Len(pairs)
  <2>1. HasParts(units, codec, comment, Len(pairs), all)
    BY KeyUnitsAre, Zenon
  <2> HIDE DEF units, all
  <2>2. QED
    BY <2>1, Zenon DEF HasParts
<1>2. \A j \in 1 .. Len(units) : 0 + j <= Len(s) => s[0 + j] = units[j]
  BY Zenon DEF Holds
<1>3. Len(s) \in Nat /\ Len(pairs) \in Nat
  BY DEF PairSeqs
<1> HIDE DEF m, units, all
<1>4. \A j \in 1 .. 4 + m : j <= Len(s) => s[j] = units[j]
  <2>1. \A j \in 1 .. 4 + m : j \in 1 .. Len(units) /\ 0 + j = j
    BY <1>1
  <2>2. QED
    BY <2>1, <1>2, Zenon
<1>5. /\ 1 \in 1 .. 4 + m /\ 2 \in 1 .. 4 + m /\ 3 \in 1 .. 4 + m /\ 4 + m \in 1 .. 4 + m
      /\ \A j \in 1 .. m : 3 + j \in 1 .. 4 + m
  BY <1>1
<1>6. /\ 1 <= Len(s) => s[1] = Sigil
      /\ 2 <= Len(s) => s[2] = codec
      /\ 3 <= Len(s) => s[3] = m
      /\ 4 + m <= Len(s) => s[4 + m] = Len(pairs)
      /\ \A j \in 1 .. m : 3 + j <= Len(s) => s[3 + j] = comment[j]
  BY <1>1, <1>4, <1>5, Zenon
<1>7. 3 <= Len(s) => After(s, 3) = 4 + m /\ (HasVarbytes(s, 3) <=> m <= MaxVarbytes /\ 3 + m <= Len(s))
  <2>1. SUFFICES ASSUME 3 <= Len(s) PROVE After(s, 3) = 4 + m /\ (HasVarbytes(s, 3) <=> m <= MaxVarbytes /\ 3 + m <= Len(s))
    OBVIOUS
  <2>2. s[3] = m
    BY <2>1, <1>6, Zenon
  <2>3. QED
    BY <2>1, <2>2, <1>1 DEF After, HasVarbytes
<1>8. 3 + m <= Len(s) => VarbytesAt(s, 3) = comment
  <2>1. SUFFICES ASSUME 3 + m <= Len(s) PROVE VarbytesAt(s, 3) = comment
    OBVIOUS
  <2>2. 3 <= Len(s) /\ \A j \in 1 .. m : 3 + j <= Len(s)
    BY <2>1, <1>1, <1>3
  <2>3. s[3] = m /\ \A j \in 1 .. m : s[3 + j] = comment[j]
    BY <2>2, <1>6, Zenon
  <2>4. SubSeq(s, 3 + 1, 3 + Len(comment)) = comment
    BY <2>1, <2>3, Within DEF m
  <2>5. QED
    BY <2>3, <2>4, Zenon DEF VarbytesAt, m
<1>9. CASE 4 + m <= Len(s)
  <2>1. 1 <= Len(s) /\ 2 <= Len(s) /\ 3 <= Len(s) /\ 3 + m <= Len(s) /\ Len(s) >= 2
    BY <1>1, <1>3, <1>9
  <2>2. /\ s[1] = Sigil /\ s[2] = codec /\ s[4 + m] = Len(pairs)
        /\ After(s, 3) = 4 + m /\ VarbytesAt(s, 3) = comment
        /\ HasVarbytes(s, 3) <=> m <= MaxVarbytes
    BY <2>1, <1>6, <1>7, <1>8, <1>9, Zenon
  <2>3. HasHeader(s) <=> /\ codec \in KnownCodecs /\ IsText(comment)
                         /\ m <= MaxVarbytes /\ Len(pairs) <= MaxAttributes
    BY <2>1, <2>2, <1>9, Zenon DEF HasHeader
  <2>4. QED
    BY <2>2, <2>3, <1>9, Zenon DEF m
<1>10. CASE ~ (4 + m <= Len(s))
  <2>1. ~ HasHeader(s)
    <3>1. SUFFICES ASSUME HasHeader(s) PROVE FALSE
      OBVIOUS
    <3>2. 3 <= Len(s) /\ After(s, 3) <= Len(s)
      BY <3>1, Zenon DEF HasHeader, HasVarbytes
    <3>3. QED
      BY <3>2, <1>7, <1>10, Zenon
  <2>2. QED
    BY <2>1, <1>10, Zenon DEF m
<1>11. QED
  BY <1>9, <1>10

\* What the decoder reads at the head of s, if the units of a key are there as far as s goes.
LEMMA DecodedKeyIs ==
  ASSUME NEW codec \in Nat, NEW comment \in Seq(Nat), NEW pairs \in PairSeqs,
         NEW s \in Seq(Nat), Holds(s, 0, KeyUnits(codec, comment, pairs))
  PROVE  LET n == Len(KeyUnits(codec, comment, pairs))
         IN  /\ DecodedKey(s).ok => /\ n <= Len(s) /\ Readable(codec, comment, pairs)
                                    /\ DecodedKey(s) = Accepted(KeyOf(codec, comment, pairs),
                                                                SubSeq(s, n + 1, Len(s)))
             /\ Readable(codec, comment, pairs) /\ n <= Len(s) => DecodedKey(s).ok
<1> DEFINE m == Len(comment)
           units == KeyUnits(codec, comment, pairs)
           all == PairUnits(pairs)
           base == 4 + m
           r == AttributesRead(s, base + 1, Len(pairs))
<1>1. PICK u : Built(u, pairs) /\ all = u[Len(pairs)]
  BY UnitsBuilt, Zenon
<1>2. all \in Seq(Nat) /\ Len(pairs) \in Nat /\ Len(s) \in Nat /\ m \in Nat /\ base \in Nat /\ Len(all) \in Nat
  <2>1. Len(pairs) \in Nat /\ Len(s) \in Nat /\ m \in Nat
    BY DEF PairSeqs
  <2>2. all \in Seq(Nat) /\ Len(all) \in Nat
    BY PairUnitsType, Zenon
  <2>3. QED
    BY <2>1, <2>2
<1>3. Len(units) = base + Len(all) /\ \A j \in 1 .. Len(all) : units[base + j] = all[j]
  <2>1. HasParts(units, codec, comment, Len(pairs), all)
    BY KeyUnitsAre, Zenon
  <2> HIDE DEF units, all
  <2>2. QED
    BY <2>1, Zenon DEF HasParts
<1> HIDE DEF m, units, all, base, r
<1>4. Holds(s, base, all)
  <2>1. ASSUME NEW j \in 1 .. Len(all), base + j <= Len(s) PROVE s[base + j] = all[j]
    <3>1. base + j \in 1 .. Len(units) /\ 0 + (base + j) = base + j
      BY <1>2, <1>3
    <3>2. s[base + j] = units[base + j]
      BY <3>1, <2>1, Zenon DEF Holds, units
    <3>3. QED
      BY <3>2, <1>3, Zenon
  <2>2. QED
    BY <2>1, Zenon DEF Holds
<1>5. /\ HasHeader(s) <=> /\ codec \in KnownCodecs /\ IsText(comment)
                          /\ m <= MaxVarbytes /\ Len(pairs) <= MaxAttributes
                          /\ base <= Len(s)
      /\ base <= Len(s) => /\ s[2] = codec /\ VarbytesAt(s, 3) = comment
                           /\ After(s, 3) = base /\ s[base] = Len(pairs)
  BY HeaderIs DEF m, base
<1>6. base <= Len(s) =>
        /\ r.ok \in BOOLEAN
        /\ r.ok => HasRead(r, Len(pairs), pairs, u, base, s)
        /\ (\A i \in 1 .. Len(pairs) : CanRead(s, base, pairs, u, i)) => r.ok
  BY <1>1, <1>2, <1>4, AttributesReadIs, Zenon DEF r
<1>7. HasHeader(s) =>
        DecodedKey(s) = IF r.ok
                        THEN Accepted([codec |-> codec, comment |-> comment,
                                       attributes |-> r.attributes],
                                      SubSeq(s, r.at, Len(s)))
                        ELSE Refused
  BY <1>5, Zenon DEF DecodedKey, r
<1>8. ~ HasHeader(s) => DecodedKey(s) = Refused
  BY Zenon DEF DecodedKey
<1>9. ~ Refused.ok /\ \A v, w : Accepted(v, w).ok
  BY DEF Refused, Accepted
<1>10. ASSUME DecodedKey(s).ok
       PROVE  /\ Len(units) <= Len(s) /\ Readable(codec, comment, pairs)
              /\ DecodedKey(s) = Accepted(KeyOf(codec, comment, pairs),
                                          SubSeq(s, Len(units) + 1, Len(s)))
  <2>1. HasHeader(s) /\ r.ok
    BY <1>7, <1>8, <1>9, <1>10, Zenon
  <2>2. HasRead(r, Len(pairs), pairs, u, base, s)
    BY <2>1, <1>5, <1>6, Zenon
  <2>3. /\ r.at = base + Len(all) + 1 /\ r.at <= Len(s) + 1
        /\ Len(pairs) > 0 => r.at - 1 <= MaxDecodedSize
        /\ KeyOf(codec, comment, pairs) = [codec |-> codec, comment |-> comment, attributes |-> r.attributes]
        /\ \A j \in 1 .. Len(pairs) : pairs[j][1] \in AttrIds /\ Len(pairs[j][2]) <= MaxVarbytes
        /\ NoneTwice(pairs)
    <3>1. /\ KeyOf(codec, comment, pairs) = [codec |-> codec, comment |-> comment, attributes |-> r.attributes]
          /\ NoneTwice(pairs)
      BY <2>2, KeyOfIs, Zenon DEF HasRead
    <3>2. QED
      BY <2>2, <3>1, <1>1, Zenon DEF HasRead
  <2>4. r.at = Len(units) + 1 /\ Len(units) <= Len(s) /\ (Len(pairs) > 0 => Len(units) <= MaxDecodedSize)
    BY <2>3, <1>2, <1>3
  <2>5. Readable(codec, comment, pairs)
    BY <2>1, <2>3, <2>4, <1>5, Zenon DEF Readable, m, units
  <2>6. QED
    BY <2>1, <2>3, <2>4, <2>5, <1>7, Zenon
<1>11. ASSUME Readable(codec, comment, pairs), Len(units) <= Len(s)
       PROVE  DecodedKey(s).ok
  <2>1. base <= Len(s)
    BY <1>2, <1>3, <1>11
  <2>2. HasHeader(s)
    BY <2>1, <1>5, <1>11, Zenon DEF Readable, m
  <2>3. ASSUME NEW i \in 1 .. Len(pairs) PROVE CanRead(s, base, pairs, u, i)
    <3>1. Len(u[i]) <= Len(all) /\ Len(u[i]) \in Nat
      <4>1. Len(u[i]) <= Len(all)
        BY <1>1, CellPlace, Zenon
      <4>2. i \in 0 .. Len(pairs)
        BY <1>2
      <4>3. QED
        BY <4>1, <4>2, <1>1, BuiltParts, Zenon
    <3>2. Len(pairs) > 0 /\ i \in Nat
      BY <1>2
    <3>3. Len(units) <= MaxDecodedSize /\ MaxDecodedSize \in Nat
      BY <3>2, <1>11, WireConstants, Zenon DEF Readable, units
    <3>4. base + Len(u[i]) <= Len(s) /\ base + Len(u[i]) <= MaxDecodedSize
      BY <3>1, <3>3, <1>2, <1>3, <1>11
    <3>5. \A j \in 1 .. i - 1 : pairs[j][1] # pairs[i][1]
      <4>1. \A j \in 1 .. i - 1 : j \in 1 .. Len(pairs) /\ j # i
        BY <1>2
      <4>2. DOMAIN pairs = 1 .. Len(pairs)
        BY DEF PairSeqs
      <4>3. QED
        BY <4>1, <4>2, <1>11, Zenon DEF Readable, NoneTwice
    <3>6. QED
      BY <3>4, <3>5, <1>11, Zenon DEF CanRead, Readable
  <2>4. r.ok
    BY <2>1, <2>3, <1>6, Zenon
  <2>5. QED
    BY <2>2, <2>4, <1>7, <1>9, Zenon
<1>12. QED
  BY <1>10, <1>11, Zenon DEF units

Ascends(s) == \A i, j \in DOMAIN s : i < j => s[i] < s[j]

\* A finite set of naturals can be written in ascending order.
LEMMA OrderExists ==
  ASSUME NEW ids \in SUBSET Nat, IsFiniteSet(ids)
  PROVE  \E s \in [1 .. Cardinality(ids) -> ids] : Ascends(s)
<1> DEFINE Ordered(n) == \A S \in SUBSET Nat : IsFiniteSet(S) /\ Cardinality(S) = n =>
                           \E s \in [1 .. n -> S] : Ascends(s)
           T == {n \in Nat : Ordered(n)}
<1>1. Ordered(0)
  <2>1. \A S : << >> \in [1 .. 0 -> S] /\ Ascends(<< >>)
    BY DEF Ascends
  <2>2. QED
    BY <2>1
<1>2. ASSUME NEW n \in Nat, Ordered(n) PROVE Ordered(n + 1)
  <2>1. SUFFICES ASSUME NEW S \in SUBSET Nat, IsFiniteSet(S), Cardinality(S) = n + 1
                 PROVE  \E s \in [1 .. n + 1 -> S] : Ascends(s)
    OBVIOUS
  <2>2. S # {}
    <3>1. n + 1 # 0
      OBVIOUS
    <3>2. Cardinality({}) = 0
      BY FS_EmptySet, Zenon
    <3>3. QED
      BY <2>1, <3>1, <3>2, Zenon
  <2>3. PICK x \in S : \A y \in S : x <= y
    BY <2>2, Least, Zenon
  <2> DEFINE R == S \ {x}
  <2>4. IsFiniteSet(R) /\ Cardinality(R) = n
    <3>1. IsFiniteSet(R) /\ Cardinality(R) = IF x \in S THEN Cardinality(S) - 1 ELSE Cardinality(S)
      BY <2>1, FS_RemoveElement, Zenon
    <3>2. Cardinality(R) = (n + 1) - 1
      BY <3>1, <2>1, Zenon
    <3> HIDE DEF R
    <3>3. QED
      BY <3>1, <3>2
  <2>5. PICK s \in [1 .. n -> R] : Ascends(s)
    BY <1>2, <2>4
  <2> DEFINE t == [i \in 1 .. n + 1 |-> IF i = 1 THEN x ELSE s[i - 1]]
  <2>6. \A i \in 1 .. n + 1 : i # 1 => i - 1 \in 1 .. n /\ s[i - 1] \in S /\ s[i - 1] > x
    <3>1. \A i \in 1 .. n + 1 : i # 1 => i - 1 \in 1 .. n
      OBVIOUS
    <3>2. \A i \in 1 .. n : s[i] \in S /\ s[i] # x
      OBVIOUS
    <3>3. ASSUME NEW i \in 1 .. n PROVE s[i] > x
      <4>1. x <= s[i] /\ s[i] # x /\ s[i] \in Nat /\ x \in Nat
        BY <2>1, <2>3, <3>2
      <4>2. QED
        BY <4>1
    <3>4. QED
      BY <3>1, <3>2, <3>3, Zenon
  <2>7. t \in [1 .. n + 1 -> S]
    BY <2>6
  <2>8. ASSUME NEW i \in 1 .. n + 1, NEW j \in 1 .. n + 1, i < j PROVE t[i] < t[j]
    <3>1. j # 1 /\ j - 1 \in 1 .. n /\ t[j] = s[j - 1]
      BY <2>6, <2>8
    <3>2. CASE i = 1
      <4>1. t[i] = x
        BY <3>2
      <4>2. QED
        BY <4>1, <3>1, <2>6
    <3>3. CASE i # 1
      <4>1. i - 1 \in 1 .. n /\ t[i] = s[i - 1] /\ i - 1 < j - 1
        BY <3>3, <2>6, <2>8
      <4>2. s[i - 1] < s[j - 1]
        BY <2>5, <3>1, <4>1 DEF Ascends
      <4>3. QED
        BY <3>1, <4>1, <4>2
    <3>4. QED
      BY <3>2, <3>3
  <2>9. Ascends(t)
    BY <2>8 DEF Ascends
  <2>10. QED
    BY <2>7, <2>9
<1> HIDE DEF Ordered
<1>3. T = Nat
  <2>1. T \in SUBSET Nat /\ 0 \in T
    BY <1>1
  <2>2. \A n \in T : n + 1 \in T
    BY <1>2
  <2> HIDE DEF T
  <2>3. QED
    BY <2>1, <2>2, NatSets
<1>4. Cardinality(ids) \in Nat
  BY FS_CardinalityType
<1>5. Ordered(Cardinality(ids))
  BY <1>3, <1>4
<1>6. QED
  BY <1>5 DEF Ordered

\* InOrder lists each of its members once.
LEMMA InOrderIs ==
  ASSUME NEW ids \in SUBSET Nat, IsFiniteSet(ids)
  PROVE  LET s == InOrder(ids)
         IN  /\ Cardinality(ids) \in Nat /\ s \in [1 .. Cardinality(ids) -> ids]
             /\ \A i, j \in 1 .. Cardinality(ids) : s[i] = s[j] => i = j
             /\ ids = {s[i] : i \in 1 .. Cardinality(ids)}
<1> DEFINE n == Cardinality(ids)
           s == InOrder(ids)
<1>1. n \in Nat
  BY FS_CardinalityType
<1>2. s \in [1 .. n -> ids] /\ Ascends(s)
  <2>1. \E t \in [1 .. n -> ids] : Ascends(t)
    BY OrderExists, Zenon
  <2>2. s = CHOOSE t \in [1 .. n -> ids] : Ascends(t)
    BY Zenon DEF InOrder, Ascends
  <2>3. QED
    BY <2>1, <2>2, Zenon
<1> HIDE DEF s
<1>3. ASSUME NEW i \in 1 .. n, NEW j \in 1 .. n, s[i] = s[j] PROVE i = j
  <2>1. i < j => s[i] < s[j]
    BY <1>2 DEF Ascends
  <2>2. j < i => s[j] < s[i]
    BY <1>2 DEF Ascends
  <2>3. s[i] \in Nat /\ s[j] \in Nat
    BY <1>2
  <2>4. QED
    BY <2>1, <2>2, <2>3, <1>3, <1>1
<1>4. s \in Injection(1 .. n, ids)
  BY <1>2, <1>3 DEF Injection, IsInjective
<1>5. IsFiniteSet(1 .. n) /\ Cardinality(1 .. n) = n
  BY <1>1, FS_Interval
<1>6. s \in Surjection(1 .. n, ids)
  BY <1>4, <1>5, FS_Injection
<1>7. ids = {s[i] : i \in 1 .. n}
  BY <1>2, <1>6 DEF Surjection
<1>8. QED
  BY <1>1, <1>2, <1>3, <1>7, Zenon DEF s

\* The codes of attributes are finitely many.
LEMMA AttrIdsFinite == AttrIds \subseteq Nat /\ IsFiniteSet(AttrIds) /\ Cardinality(AttrIds) \in Nat
<1>1. AttrIds = 0 .. 29
  BY DEF AttrIds, AttrNames
<1>2. IsFiniteSet(0 .. 29)
  <2>1. 0 \in Int /\ 29 \in Int
    OBVIOUS
  <2>2. QED
    BY <2>1, FS_Interval, Zenon
<1>3. IsFiniteSet(AttrIds) /\ AttrIds \subseteq Nat
  BY <1>1, <1>2
<1>4. QED
  BY <1>3, FS_CardinalityType

\* Attributes that this crate knows.
AreAttributes(attributes) ==
  /\ attributes = [id \in DOMAIN attributes |-> attributes[id]]
  /\ DOMAIN attributes \subseteq AttrIds
  /\ \A id \in DOMAIN attributes : attributes[id] \in Seq(Nat)

\* The pairs of a key.
LEMMA PairsAre ==
  ASSUME NEW k, AreAttributes(k.attributes)
  PROVE  Pairs(k) \in PairSeqs /\ IsTable(k.attributes, Pairs(k), Len(Pairs(k)))
<1> DEFINE ids == DOMAIN k.attributes
           s == InOrder(ids)
           n == Cardinality(ids)
           p == Pairs(k)
           a == k.attributes
<1>1. ids \in SUBSET Nat /\ IsFiniteSet(ids)
  BY AttrIdsFinite, FS_Subset DEF AreAttributes
<1>2. /\ n \in Nat /\ s \in [1 .. n -> ids]
      /\ \A i, j \in 1 .. n : s[i] = s[j] => i = j
      /\ ids = {s[i] : i \in 1 .. n}
  BY <1>1, InOrderIs, Zenon
<1>3. \A id \in ids : a[id] \in Seq(Nat)
  BY DEF AreAttributes
<1>4. a = [id \in ids |-> a[id]]
  BY DEF AreAttributes
<1>5. p = [i \in DOMAIN s |-> <<s[i], a[s[i]]>>]
  BY Zenon DEF Pairs
<1> HIDE DEF s, n, p, a, ids
<1>6. p = [i \in 1 .. n |-> <<s[i], a[s[i]]>>]
  BY <1>2, <1>5
<1>7. p \in PairSeqs /\ Len(p) = n
  <2>1. ASSUME NEW i \in 1 .. n PROVE <<s[i], a[s[i]]>> \in Nat \X Seq(Nat)
    <3>1. s[i] \in ids /\ s[i] \in Nat /\ a[s[i]] \in Seq(Nat)
      BY <1>1, <1>2, <1>3
    <3>2. QED
      BY <3>1
  <2>2. p \in [1 .. n -> Nat \X Seq(Nat)]
    BY <1>6, <2>1
  <2>3. QED
    BY <1>2, <2>2 DEF PairSeqs
<1>8. \A i \in 1 .. n : p[i][1] = s[i] /\ p[i][2] = a[s[i]]
  BY <1>6
<1>9. IsTable(a, p, n)
  <2>1. DOMAIN a = ids
    BY DEF ids, a
  <2>2. ids = {p[i][1] : i \in 1 .. n}
    BY <1>2, <1>8
  <2>3. \A j \in 1 .. n : a[p[j][1]] = p[j][2]
    BY <1>8, Zenon
  <2>4. ASSUME NEW j \in 1 .. n, NEW l \in 1 .. n, p[j][1] = p[l][1] PROVE j = l
    <3>1. s[j] = s[l]
      BY <1>8, <2>4
    <3>2. QED
      BY <1>2, <3>1, Zenon
  <2>5. a = [id \in DOMAIN a |-> a[id]]
    BY <2>1, <1>4, Zenon
  <2>6. DOMAIN a = {p[i][1] : i \in 1 .. n}
    BY <2>1, <2>2
  <2>7. QED
    BY <2>3, <2>4, <2>5, <2>6, Zenon DEF IsTable
<1>10. QED
  BY <1>7, <1>9 DEF a, p

\* One place for each unit of these pairs.
CellOf(pair) == {pair[1]} \X (1 .. Len(pair[2]) + 2)

Cells(S) == UNION {CellOf(pair) : pair \in S}

\* A pair has as many places as units.
LEMMA CellCounted ==
  ASSUME NEW pair \in Nat \X Seq(Nat)
  PROVE  IsFiniteSet(CellOf(pair)) /\ Cardinality(CellOf(pair)) = Len(pair[2]) + 2
<1> DEFINE m == Len(pair[2]) + 2
           A == {pair[1]}
           B == 1 .. m
<1>1. m \in Nat /\ m >= 1
  OBVIOUS
<1> HIDE DEF m
<1>2. IsFiniteSet(A) /\ Cardinality(A) = 1
  BY FS_Singleton, Zenon
<1>3. IsFiniteSet(B) /\ Cardinality(B) = m
  <2>1. 1 \in Int /\ m \in Int
    BY <1>1
  <2>2. IsFiniteSet(B) /\ Cardinality(B) = IF 1 > m THEN 0 ELSE m - 1 + 1
    BY <2>1, FS_Interval, Zenon
  <2>3. QED
    BY <2>2, <1>1
<1>4. CellOf(pair) = A \X B
  BY Zenon DEF CellOf, m
<1> HIDE DEF A, B
<1>5. IsFiniteSet(A \X B) /\ Cardinality(A \X B) = Cardinality(A) * Cardinality(B)
  BY <1>2, <1>3, FS_Product, Zenon
<1>6. 1 * m = m
  BY <1>1
<1>7. QED
  BY <1>2, <1>3, <1>4, <1>5, <1>6, Zenon DEF m

\* The pairs have an attribute each.
Apart(pairs) == \A j, l \in 1 .. Len(pairs) : pairs[j][1] = pairs[l][1] => j = l

Upto(pairs, i) == {pairs[j] : j \in 1 .. i}

\* Pairs of different attributes have as many places as units together.
LEMMA CellsCounted ==
  ASSUME NEW pairs \in PairSeqs, NEW u, Built(u, pairs), Apart(pairs)
  PROVE  LET S == Upto(pairs, Len(pairs))
         IN  /\ IsFiniteSet(S) /\ Cardinality(S) = Len(pairs)
             /\ Cardinality(Cells(S)) = Len(u[Len(pairs)])
<1> DEFINE n == Len(pairs)
           S(i) == Upto(pairs, i)
           Counted(i) == /\ IsFiniteSet(S(i)) /\ Cardinality(S(i)) = i
                         /\ IsFiniteSet(Cells(S(i))) /\ Cardinality(Cells(S(i))) = Len(u[i])
           T == {i \in Nat : i <= n => Counted(i)}
<1>1. n \in Nat /\ Len(u[0]) = 0
  BY BuiltParts, Zenon
<1>2. Counted(0)
  <2>1. S(0) = {} /\ Cells(S(0)) = {}
    BY DEF Upto, Cells
  <2>2. QED
    BY <2>1, <1>1, FS_EmptySet
<1>3. ASSUME NEW i \in Nat, i + 1 <= n, Counted(i) PROVE Counted(i + 1)
  <2> DEFINE pair == pairs[i + 1]
             C == CellOf(pair)
             D == Cells(S(i))
  <2>1. i + 1 \in 1 .. n /\ (i + 1) - 1 = i
    BY <1>1, <1>3
  <2>2. pair \in Nat \X Seq(Nat) /\ Len(u[i + 1]) = Len(u[i]) + Len(pair[2]) + 2
    <3>1. pair \in Nat \X Seq(Nat)
      BY <2>1, BuiltParts, Zenon
    <3>2. Len(u[i + 1]) = Len(u[(i + 1) - 1]) + Len(pair[2]) + 2
      BY <2>1, CellPlace, Zenon
    <3>3. QED
      BY <3>1, <3>2, <2>1, Zenon
  <2>3. \A j \in 1 .. i : pairs[j][1] # pair[1]
    BY <2>1, <1>1 DEF Apart
  <2>4. 1 .. i + 1 = (1 .. i) \cup {i + 1}
    OBVIOUS
  <2>5. S(i + 1) = S(i) \cup {pair} /\ pair \notin S(i)
    BY <2>3, <2>4 DEF Upto
  <2>6. Cells(S(i + 1)) = D \cup C
    BY <2>5 DEF Cells
  <2>7. D \cap C = {}
    <3>1. SUFFICES ASSUME NEW c \in D, c \in C PROVE FALSE
      OBVIOUS
    <3>2. PICK j \in 1 .. i : c \in CellOf(pairs[j])
      BY <3>1, Zenon DEF Cells, Upto
    <3>3. c[1] = pairs[j][1] /\ c[1] = pair[1]
      BY <3>1, <3>2 DEF CellOf
    <3>4. QED
      BY <3>3, <2>3
  <2>8. IsFiniteSet(C) /\ Cardinality(C) = Len(pair[2]) + 2
    BY <2>2, CellCounted, Zenon
  <2>9. IsFiniteSet(D) /\ Cardinality(D) = Len(u[i]) /\ IsFiniteSet(S(i)) /\ Cardinality(S(i)) = i
    BY <1>3, Zenon
  <2>10. IsFiniteSet(S(i + 1)) /\ Cardinality(S(i + 1)) = i + 1
    BY <2>5, <2>9, FS_AddElement
  <2>11. Len(u[i]) \in Nat /\ Len(pair[2]) \in Nat
    <3>1. i \in 0 .. n
      BY <2>1, <1>1
    <3>2. QED
      BY <3>1, <2>2, BuiltParts
  <2> HIDE DEF S, C, D, pair, Counted, T
  <2>12. /\ IsFiniteSet(D \cup C)
         /\ Cardinality(D \cup C) = Cardinality(D) + Cardinality(C) - Cardinality(D \cap C)
    BY <2>8, <2>9, FS_Union, Zenon
  <2>13. Cardinality(D \cap C) = 0
    BY <2>7, FS_EmptySet
  <2>14. Cardinality(D \cup C) = Len(u[i + 1])
    BY <2>2, <2>8, <2>9, <2>11, <2>12, <2>13
  <2>15. QED
    BY <2>6, <2>10, <2>12, <2>14, Zenon DEF Counted
<1> HIDE DEF Counted
<1>4. T = Nat
  <2>1. T \in SUBSET Nat /\ 0 \in T
    BY <1>2
  <2>2. \A i \in T : i + 1 \in T
    BY <1>1, <1>3
  <2> HIDE DEF T
  <2>3. QED
    BY <2>1, <2>2, NatSets
<1>5. Counted(n)
  BY <1>1, <1>4
<1>6. QED
  BY <1>5 DEF Counted

\* The order of the attributes does not change how many units there are.
LEMMA SameSize ==
  ASSUME NEW p \in PairSeqs, NEW q \in PairSeqs, Apart(p), Apart(q),
         Upto(p, Len(p)) = Upto(q, Len(q))
  PROVE  Len(p) = Len(q) /\ Len(PairUnits(p)) = Len(PairUnits(q))
<1>1. PICK u : Built(u, p) /\ PairUnits(p) = u[Len(p)]
  BY UnitsBuilt, Zenon
<1>2. PICK v : Built(v, q) /\ PairUnits(q) = v[Len(q)]
  BY UnitsBuilt, Zenon
<1>3. Cardinality(Upto(p, Len(p))) = Len(p) /\ Cardinality(Cells(Upto(p, Len(p)))) = Len(u[Len(p)])
  BY <1>1, CellsCounted, Zenon
<1>4. Cardinality(Upto(q, Len(q))) = Len(q) /\ Cardinality(Cells(Upto(q, Len(q)))) = Len(v[Len(q)])
  BY <1>2, CellsCounted, Zenon
<1>5. QED
  BY <1>1, <1>2, <1>3, <1>4, Zenon

\* A key of pairs with known attributes has as many as there are in AttrIds at most.
LEMMA FewPairs ==
  ASSUME NEW pairs \in PairSeqs, Apart(pairs), \A i \in 1 .. Len(pairs) : pairs[i][1] \in AttrIds
  PROVE  Len(pairs) <= MaxAttributes
<1> DEFINE n == Len(pairs)
           f == [i \in 1 .. n |-> pairs[i][1]]
<1>1. n \in Nat
  BY DEF PairSeqs
<1>2. f \in Injection(1 .. n, AttrIds)
  <2>1. f \in [1 .. n -> AttrIds]
    OBVIOUS
  <2>2. \A i, j \in 1 .. n : f[i] = f[j] => i = j
    BY DEF Apart
  <2> HIDE DEF f
  <2>3. QED
    BY <2>1, <2>2 DEF Injection, IsInjective
<1> HIDE DEF f
<1>3. Cardinality(1 .. n) <= Cardinality(AttrIds)
  BY <1>2, AttrIdsFinite, FS_Injection
<1>4. Cardinality(1 .. n) = n
  <2>1. 1 \in Int /\ n \in Int
    BY <1>1
  <2>2. Cardinality(1 .. n) = IF 1 > n THEN 0 ELSE n - 1 + 1
    BY <2>1, FS_Interval, Zenon
  <2>3. QED
    BY <2>2, <1>1
<1>5. MaxAttributes \in Nat /\ Cardinality(AttrIds) <= MaxAttributes /\ Cardinality(AttrIds) \in Nat
  <2>1. MaxAttributes \in Nat /\ MaxAttributes >= Cardinality(AttrIds)
    BY WireConstants, Zenon
  <2>2. QED
    BY <2>1, AttrIdsFinite
<1>6. QED
  BY <1>1, <1>3, <1>4, <1>5

\* Attributes are the set of their pairs, in whatever order those were.
LEMMA TableIs ==
  ASSUME NEW pairs \in PairSeqs, NEW a, IsTable(a, pairs, Len(pairs))
  PROVE  Upto(pairs, Len(pairs)) = {<<id, a[id]>> : id \in DOMAIN a} /\ Apart(pairs)
<1> DEFINE n == Len(pairs)
<1>1. \A i \in 1 .. n : pairs[i] = <<pairs[i][1], pairs[i][2]>>
  BY DEF PairSeqs
<1>2. /\ DOMAIN a = {pairs[i][1] : i \in 1 .. n}
      /\ \A i \in 1 .. n : a[pairs[i][1]] = pairs[i][2]
  BY Zenon DEF IsTable
<1>3. Apart(pairs)
  BY Zenon DEF IsTable, Apart
<1> HIDE DEF n
<1>4. \A i \in 1 .. n : pairs[i] = <<pairs[i][1], a[pairs[i][1]]>>
  BY <1>1, <1>2, Zenon
<1>5. {pairs[i] : i \in 1 .. n} = {<<id, a[id]>> : id \in DOMAIN a}
  <2>1. ASSUME NEW i \in 1 .. n PROVE pairs[i] \in {<<id, a[id]>> : id \in DOMAIN a}
    BY <1>2, <1>4, Zenon
  <2>2. ASSUME NEW id \in DOMAIN a PROVE \E i \in 1 .. n : pairs[i] = <<id, a[id]>>
    <3>1. PICK i \in 1 .. n : pairs[i][1] = id
      BY <1>2, Zenon
    <3>2. QED
      BY <3>1, <1>4, Zenon
  <2>3. QED
    BY <2>1, <2>2
<1>6. QED
  BY <1>3, <1>5 DEF Upto, n

\* The parts of the key that units stand for.
LEMMA KeyOfParts ==
  ASSUME NEW codec, NEW comment, NEW pairs \in PairSeqs, NoneTwice(pairs)
  PROVE  LET k == KeyOf(codec, comment, pairs)
         IN  /\ k.codec = codec /\ k.comment = comment
             /\ IsTable(k.attributes, pairs, Len(pairs))
<1> DEFINE n == Len(pairs)
           at(id) == CHOOSE i \in DOMAIN pairs : pairs[i][1] = id
           a == [id \in {pairs[i][1] : i \in DOMAIN pairs} |-> pairs[at(id)][2]]
           k == KeyOf(codec, comment, pairs)
<1>1. DOMAIN pairs = 1 .. n
  BY DEF PairSeqs
<1>2. k = [codec |-> codec, comment |-> comment, attributes |-> a]
  BY Zenon DEF KeyOf
<1>3. k.codec = codec /\ k.comment = comment /\ k.attributes = a
  BY <1>2
<1> HIDE DEF k, n
<1>4. ASSUME NEW i \in 1 .. n PROVE a[pairs[i][1]] = pairs[i][2]
  <2>1. at(pairs[i][1]) \in DOMAIN pairs /\ pairs[at(pairs[i][1])][1] = pairs[i][1]
    BY <1>1, Zenon
  <2>2. at(pairs[i][1]) = i
    BY <2>1, <1>1, Zenon DEF NoneTwice
  <2>3. pairs[i][1] \in {pairs[j][1] : j \in DOMAIN pairs}
    BY <1>1, Zenon
  <2>4. QED
    BY <2>2, <2>3, Zenon
<1>5. DOMAIN a = {pairs[i][1] : i \in 1 .. n} /\ a = [id \in DOMAIN a |-> a[id]]
  BY <1>1
<1>6. \A i, j \in 1 .. n : pairs[i][1] = pairs[j][1] => i = j
  BY <1>1, Zenon DEF NoneTwice
<1> HIDE DEF a
<1>7. IsTable(a, pairs, n)
  BY <1>4, <1>5, <1>6, Zenon DEF IsTable
<1>8. QED
  BY <1>3, <1>7 DEF k, n

\* If the attributes are known ones, so are those of the pairs.
LEMMA TableGood ==
  ASSUME NEW pairs \in PairSeqs, NEW a, IsTable(a, pairs, Len(pairs)),
         DOMAIN a \subseteq AttrIds
  PROVE  AreAttributes(a) /\ \A i \in 1 .. Len(pairs) : pairs[i][1] \in AttrIds
<1>1. \A i \in 1 .. Len(pairs) : pairs[i][2] \in Seq(Nat)
  BY DEF PairSeqs
<1>2. /\ DOMAIN a = {pairs[i][1] : i \in 1 .. Len(pairs)}
      /\ \A i \in 1 .. Len(pairs) : a[pairs[i][1]] = pairs[i][2]
      /\ a = [id \in DOMAIN a |-> a[id]]
  BY Zenon DEF IsTable
<1>3. ASSUME NEW id \in DOMAIN a PROVE a[id] \in Seq(Nat)
  <2>1. PICK i \in 1 .. Len(pairs) : id = pairs[i][1]
    BY <1>2, Zenon
  <2>2. QED
    BY <2>1, <1>1, <1>2
<1>4. \A i \in 1 .. Len(pairs) : pairs[i][1] \in AttrIds
  BY <1>2
<1>5. QED
  BY <1>2, <1>3, <1>4, Zenon DEF AreAttributes

\* Units of a key which is written in the order of its attributes.
LEMMA InOrderSame ==
  ASSUME NEW codec \in Nat, NEW comment \in Seq(Nat), NEW pairs \in PairSeqs, NoneTwice(pairs),
         DOMAIN KeyOf(codec, comment, pairs).attributes \subseteq AttrIds
  PROVE  LET k == KeyOf(codec, comment, pairs)
             p == Pairs(k)
         IN  /\ p \in PairSeqs /\ NoneTwice(p)
             /\ EncodedKey(k) = KeyUnits(codec, comment, p)
             /\ KeyOf(codec, comment, p) = k
             /\ Len(p) = Len(pairs)
             /\ Upto(p, Len(p)) = Upto(pairs, Len(pairs))
             /\ Len(KeyUnits(codec, comment, p)) = Len(KeyUnits(codec, comment, pairs))
<1> DEFINE k == KeyOf(codec, comment, pairs)
           p == Pairs(k)
<1>1. /\ k.codec = codec /\ k.comment = comment
      /\ IsTable(k.attributes, pairs, Len(pairs))
  BY KeyOfParts, Zenon
<1>2. AreAttributes(k.attributes)
  BY <1>1, TableGood, Zenon
<1> HIDE DEF k
<1>3. p \in PairSeqs /\ IsTable(k.attributes, p, Len(p))
  BY <1>2, PairsAre, Zenon
<1>4. EncodedKey(k) = KeyUnits(codec, comment, p)
  BY <1>1, Zenon DEF EncodedKey
<1> HIDE DEF p
<1>5. /\ KeyOf(codec, comment, p) = [codec |-> codec, comment |-> comment, attributes |-> k.attributes]
      /\ NoneTwice(p)
  BY <1>3, KeyOfIs, Zenon
<1>6. KeyOf(codec, comment, pairs) = [codec |-> codec, comment |-> comment, attributes |-> k.attributes]
  BY <1>1, KeyOfIs, Zenon
<1>7. Upto(p, Len(p)) = Upto(pairs, Len(pairs)) /\ Apart(p) /\ Apart(pairs)
  BY <1>1, <1>3, TableIs, Zenon
<1>8. Len(p) = Len(pairs) /\ Len(PairUnits(p)) = Len(PairUnits(pairs))
  BY <1>3, <1>7, SameSize, Zenon
<1>9. Len(KeyUnits(codec, comment, p)) = Len(KeyUnits(codec, comment, pairs))
  <2>1. HasParts(KeyUnits(codec, comment, p), codec, comment, Len(p), PairUnits(p))
    BY <1>3, KeyUnitsAre, Zenon
  <2>2. HasParts(KeyUnits(codec, comment, pairs), codec, comment, Len(pairs), PairUnits(pairs))
    BY KeyUnitsAre, Zenon
  <2>3. QED
    BY <2>1, <2>2, <1>8, Zenon DEF HasParts
<1>10. QED
  BY <1>3, <1>4, <1>5, <1>6, <1>7, <1>8, <1>9, Zenon DEF k, p

\* A key that was within the limits of the decoder still is when this crate
\* writes it.
LEMMA StaysReadable ==
  ASSUME NEW codec \in Nat, NEW comment \in Seq(Nat), NEW pairs \in PairSeqs,
         Readable(codec, comment, pairs)
  PROVE  LET k == KeyOf(codec, comment, pairs)
         IN  /\ DOMAIN k.attributes \subseteq AttrIds
             /\ IsMultikey(k)
             /\ Readable(codec, comment, Pairs(k))
<1> DEFINE k == KeyOf(codec, comment, pairs)
           p == Pairs(k)
           n == Len(pairs)
<1>1. /\ codec \in KnownCodecs /\ IsText(comment)
      /\ Len(comment) <= MaxVarbytes /\ n <= MaxAttributes
      /\ \A i \in 1 .. n : pairs[i][1] \in AttrIds /\ Len(pairs[i][2]) <= MaxVarbytes
      /\ NoneTwice(pairs)
      /\ n > 0 => Len(KeyUnits(codec, comment, pairs)) <= MaxDecodedSize
  BY Zenon DEF Readable
<1>2. k.codec = codec /\ k.comment = comment /\ IsTable(k.attributes, pairs, n)
  BY <1>1, KeyOfParts, Zenon
<1>3. DOMAIN k.attributes = {pairs[i][1] : i \in 1 .. n}
  BY <1>2, Zenon DEF IsTable
<1>4. DOMAIN k.attributes \subseteq AttrIds
  BY <1>1, <1>3, Zenon
<1>5. IsMultikey(k)
  BY <1>1, <1>2, <1>4, Zenon DEF IsMultikey
<1>6. /\ p \in PairSeqs /\ NoneTwice(p) /\ Len(p) = n
      /\ Upto(p, Len(p)) = Upto(pairs, n)
      /\ Len(KeyUnits(codec, comment, p)) = Len(KeyUnits(codec, comment, pairs))
  BY <1>1, <1>4, InOrderSame, Zenon
<1> HIDE DEF p, k
<1>7. ASSUME NEW i \in 1 .. Len(p) PROVE p[i][1] \in AttrIds /\ Len(p[i][2]) <= MaxVarbytes
  <2>1. p[i] \in Upto(pairs, n)
    BY <1>6, Zenon DEF Upto
  <2>2. PICK j \in 1 .. n : p[i] = pairs[j]
    BY <2>1, Zenon DEF Upto
  <2>3. QED
    BY <2>2, <1>1, Zenon
<1>8. Readable(codec, comment, p)
  <2>1. Len(p) <= MaxAttributes
    BY <1>1, <1>6, Zenon
  <2>2. Len(p) > 0 => Len(KeyUnits(codec, comment, p)) <= MaxDecodedSize
    BY <1>1, <1>6, Zenon
  <2>3. QED
    BY <2>1, <2>2, <1>1, <1>6, <1>7, Zenon DEF Readable
<1>9. QED
  BY <1>4, <1>5, <1>8 DEF k, p

\* The units of a Nonce.
LEMMA NonceUnitsAre ==
  ASSUME NEW value \in Seq(Nat)
  PROVE  LET units == EncodedNonce(value)
         IN  /\ units \in Seq(Nat) /\ Len(value) \in Nat /\ Len(units) = 2 + Len(value)
             /\ units[1] = NonceSigil /\ units[2] = Len(value)
             /\ \A j \in 1 .. Len(value) : units[2 + j] = value[j]
<1>1. NonceSigil \in Nat
  BY WireConstants, Zenon
<1> DEFINE pair == <<NonceSigil, value>>
<1>2. EncodedNonce(value) = <<NonceSigil>> \o Varbytes(value)
  BY Zenon DEF EncodedNonce
<1>3. pair \in Nat \X Seq(Nat) /\ pair[1] = NonceSigil /\ pair[2] = value
  BY <1>1
<1> HIDE DEF pair
<1>4. /\ Cell(pair) \in Seq(Nat)
      /\ Len(Cell(pair)) = Len(value) + 2
      /\ Cell(pair)[1] = NonceSigil
      /\ Cell(pair)[2] = Len(value)
      /\ \A j \in 1 .. Len(value) : Cell(pair)[j + 2] = value[j]
  BY <1>3, CellIs
<1>5. Cell(pair) = EncodedNonce(value)
  BY <1>2, <1>3, Zenon DEF Cell
<1>6. QED
  <2>1. Len(value) \in Nat
    OBVIOUS
  <2>2. \A j \in 1 .. Len(value) : j + 2 = 2 + j
    BY <2>1
  <2>3. Len(value) + 2 = 2 + Len(value)
    BY <2>1
  <2>4. QED
    BY <1>4, <1>5, <2>1, <2>2, <2>3, Zenon

\* What the decoders read at the head of s, if the units of a nonce are there
\* as far as s goes.
LEMMA DecodedNonceIs ==
  ASSUME NEW value \in Seq(Nat), NEW s \in Seq(Nat), Holds(s, 0, EncodedNonce(value))
  PROVE  LET n == Len(EncodedNonce(value))
         IN  /\ DecodedNonce(s).ok => /\ n <= Len(s)
                                      /\ DecodedNonce(s) = Accepted(value, SubSeq(s, n + 1, Len(s)))
             /\ n <= Len(s) /\ Len(value) <= MaxVarbytes => DecodedNonce(s).ok
             /\ Len(s) >= 1 => ~ DecodedKey(s).ok
<1> DEFINE m == Len(value)
           units == EncodedNonce(value)
<1>1. /\ units \in Seq(Nat) /\ m \in Nat /\ Len(units) = 2 + m
      /\ units[1] = NonceSigil /\ units[2] = m
      /\ \A j \in 1 .. m : units[2 + j] = value[j]
  BY NonceUnitsAre, Zenon
<1>2. \A j \in 1 .. Len(units) : 0 + j <= Len(s) => s[0 + j] = units[j]
  BY Zenon DEF Holds
<1>3. Len(s) \in Nat
  OBVIOUS
<1>4. ~ Refused.ok /\ \A v, w : Accepted(v, w).ok
  BY DEF Refused, Accepted
<1> HIDE DEF m, units
<1>5. \A j \in 1 .. 2 + m : j <= Len(s) => s[j] = units[j]
  <2>1. \A j \in 1 .. 2 + m : j \in 1 .. Len(units) /\ 0 + j = j
    BY <1>1
  <2>2. QED
    BY <2>1, <1>2, Zenon
<1>6. 1 \in 1 .. 2 + m /\ 2 \in 1 .. 2 + m /\ \A j \in 1 .. m : 2 + j \in 1 .. 2 + m
  BY <1>1
<1>7. /\ 1 <= Len(s) => s[1] = NonceSigil
      /\ 2 <= Len(s) => s[2] = m
      /\ \A j \in 1 .. m : 2 + j <= Len(s) => s[2 + j] = value[j]
  BY <1>1, <1>5, <1>6, Zenon
<1>8. Len(s) >= 1 => ~ DecodedKey(s).ok
  <2>1. Len(s) >= 1 => s[1] = NonceSigil
    BY <1>3, <1>7
  <2>2. Sigil # NonceSigil
    BY WireConstants, Zenon
  <2>3. Len(s) >= 1 => ~ HasHeader(s)
    BY <2>1, <2>2, Zenon DEF HasHeader
  <2>4. QED
    BY <2>3, <1>4, Zenon DEF DecodedKey
<1>9. 2 <= Len(s) => After(s, 2) = Len(units) + 1 /\ (HasVarbytes(s, 2) <=> m <= MaxVarbytes /\ Len(units) <= Len(s))
  <2>1. SUFFICES ASSUME 2 <= Len(s)
                 PROVE  After(s, 2) = Len(units) + 1 /\ (HasVarbytes(s, 2) <=> m <= MaxVarbytes /\ Len(units) <= Len(s))
    OBVIOUS
  <2>2. s[2] = m
    BY <2>1, <1>7, Zenon
  <2>3. QED
    BY <2>1, <2>2, <1>1 DEF After, HasVarbytes
<1>10. Len(units) <= Len(s) => VarbytesAt(s, 2) = value
  <2>1. SUFFICES ASSUME Len(units) <= Len(s) PROVE VarbytesAt(s, 2) = value
    OBVIOUS
  <2>2. 2 <= Len(s) /\ 2 + m <= Len(s) /\ \A j \in 1 .. m : 2 + j <= Len(s)
    BY <2>1, <1>1, <1>3
  <2>3. s[2] = m /\ \A j \in 1 .. m : s[2 + j] = value[j]
    BY <2>2, <1>7, Zenon
  <2>4. SubSeq(s, 2 + 1, 2 + Len(value)) = value
    BY <2>2, <2>3, Within DEF m
  <2>5. QED
    BY <2>3, <2>4, Zenon DEF VarbytesAt, m
<1>11. ASSUME DecodedNonce(s).ok
       PROVE  /\ Len(units) <= Len(s)
              /\ DecodedNonce(s) = Accepted(value, SubSeq(s, Len(units) + 1, Len(s)))
  <2>1. /\ HasVarbytes(s, 2)
        /\ DecodedNonce(s) = Accepted(VarbytesAt(s, 2), SubSeq(s, After(s, 2), Len(s)))
    BY <1>4, <1>11, Zenon DEF DecodedNonce
  <2>2. 2 <= Len(s)
    BY <2>1, Zenon DEF HasVarbytes
  <2>3. QED
    BY <2>1, <2>2, <1>9, <1>10, Zenon
<1>12. ASSUME Len(units) <= Len(s), m <= MaxVarbytes PROVE DecodedNonce(s).ok
  <2>1. 2 <= Len(s) /\ 1 <= Len(s) /\ Len(s) >= 1
    BY <1>1, <1>3, <1>12
  <2>2. s[1] = NonceSigil /\ HasVarbytes(s, 2)
    BY <2>1, <1>7, <1>9, <1>12, Zenon
  <2>3. QED
    BY <2>1, <2>2, <1>4, Zenon DEF DecodedNonce
<1>13. QED
  BY <1>8, <1>11, <1>12, Zenon DEF m, units

-----------------------------------------------------------------------------
(* The inductive invariant. *)

\* full is the form of the key that w, an entry of written, is about.
KeyForm(w, full) ==
  \E codec \in Nat, comment \in Seq(Nat), pairs \in PairSeqs :
    /\ full = KeyUnits(codec, comment, pairs)
    /\ w.item = [kind |-> "key", value |-> KeyOf(codec, comment, pairs)]
    /\ ~ w.torn => (w.whole <=> IsMultikey(KeyOf(codec, comment, pairs)) /\ NoneTwice(pairs))

NonceForm(w, full) ==
  \E value \in Seq(Nat) :
    /\ full = EncodedNonce(value)
    /\ w.item = [kind |-> "nonce", value |-> value]
    /\ ~ w.torn => w.whole

Form(w, full) == full \in Seq(Nat) /\ (KeyForm(w, full) \/ NonceForm(w, full))

\* The entry went to the stream as these units.
WentAs(w, units) ==
  /\ units \in Seq(Nat) /\ Len(units) >= 1
  /\ \/ ~ w.torn /\ Form(w, units)
     \/ /\ w.torn /\ ~ w.whole
        /\ \E full : /\ Form(w, full)
                     /\ Len(units) < Len(full)
                     /\ \A j \in 1 .. Len(units) : units[j] = full[j]

\* rest[i]: what the stream has from the entry after the i-th on.
Chain(rest) ==
  /\ rest \in [0 .. Len(written) -> Seq(Nat)]
  /\ rest[Len(written)] = << >>
  /\ \A i \in 1 .. Len(written) :
       \E units : WentAs(written[i], units) /\ rest[i - 1] = units \o rest[i]

IsSeq(s) == \E S : s \in Seq(S)

\* What was read is within the limits of the decoder.
WithinLimits(item) ==
  item.kind = "key" =>
    \E codec \in Nat, comment \in Seq(Nat), pairs \in PairSeqs :
      item.value = KeyOf(codec, comment, pairs) /\ Readable(codec, comment, pairs)

ReadSoFar ==
  \A i \in 1 .. Len(read) :
    written[i].whole /\ read[i] = written[i].item /\ WithinLimits(read[i])

LastMayBeTorn == \A i \in 1 .. Len(written) : i < Len(written) => ~ written[i].torn

StreamIInv ==
  /\ IsSeq(written) /\ IsSeq(read) /\ Len(read) <= Len(written)
  /\ \E rest : Chain(rest) /\ stream = rest[Len(read)]
  /\ LastMayBeTorn
  /\ ReadSoFar

-----------------------------------------------------------------------------
IsWith(t, s, x) ==
  /\ IsSeq(t) /\ Len(s) \in Nat /\ Len(t) = Len(s) + 1
  /\ \A i \in 1 .. Len(s) : t[i] = s[i]
  /\ t[Len(s) + 1] = x

\* A sequence with one more element.
LEMMA Appended ==
  ASSUME NEW s, NEW x, IsSeq(s)
  PROVE  IsWith(Append(s, x), s, x)
<1>1. PICK S : s \in Seq(S)
  BY Zenon DEF IsSeq
<1> DEFINE T == S \cup {x}
<1>2. s \in Seq(T)
  <2>1. S \subseteq T
    OBVIOUS
  <2> HIDE DEF T
  <2>2. QED
    BY <1>1, <2>1, SeqMonotonic
<1>3. x \in T
  OBVIOUS
<1> HIDE DEF T
<1>4. /\ Append(s, x) \in Seq(T) /\ Len(s) \in Nat /\ Len(Append(s, x)) = Len(s) + 1
      /\ \A i \in 1 .. Len(s) : Append(s, x)[i] = s[i]
      /\ Append(s, x)[Len(s) + 1] = x
  BY <1>2, <1>3
<1>5. QED
  BY <1>4, Zenon DEF IsSeq, IsWith

\* Three sequences of units joined.
LEMMA Associative ==
  ASSUME NEW a \in Seq(Nat), NEW b \in Seq(Nat), NEW c \in Seq(Nat)
  PROVE  (a \o b) \o c = a \o (b \o c)
BY ConcatAssociative

\* The length of a sequence.
LEMMA SeqIs ==
  ASSUME NEW s, IsSeq(s)
  PROVE  Len(s) \in Nat /\ DOMAIN s = 1 .. Len(s)
<1>1. PICK S : s \in Seq(S)
  BY Zenon DEF IsSeq
<1>2. QED
  BY <1>1

\* An entry is added to the stream.
LEMMA AddedInv ==
  ASSUME StreamIInv, NEW item, NEW whole, NEW torn, NEW units,
         Append1(item, whole, torn, units),
         WentAs([item |-> item, whole |-> whole, torn |-> torn], units)
  PROVE  StreamIInv'
<1> DEFINE n == Len(written)
           w == [item |-> item, whole |-> whole, torn |-> torn]
<1>1. PICK rest : Chain(rest) /\ stream = rest[Len(read)]
  BY Zenon DEF StreamIInv
<1>2. /\ written' = Append(written, w) /\ stream' = stream \o units /\ read' = read
      /\ ~ Torn
  BY Zenon DEF Append1
<1>3. /\ IsSeq(written') /\ n \in Nat /\ Len(written') = n + 1
      /\ \A i \in 1 .. n : written'[i] = written[i]
      /\ written'[n + 1] = w
  <2>1. IsSeq(written)
    BY Zenon DEF StreamIInv
  <2> HIDE DEF w
  <2>2. IsWith(written', written, w)
    BY <2>1, <1>2, Appended, Zenon
  <2>3. QED
    BY <2>2, Zenon DEF IsWith
<1>4. units \in Seq(Nat)
  BY Zenon DEF WentAs
<1>5. IsSeq(read) /\ Len(read) <= n /\ Len(read) \in Nat
  BY SeqIs, Zenon DEF StreamIInv
<1>6. /\ rest \in [0 .. n -> Seq(Nat)] /\ rest[n] = << >>
      /\ \A i \in 1 .. n :
           \E part : WentAs(written[i], part) /\ rest[i - 1] = part \o rest[i]
  BY <1>1, Zenon DEF Chain
<1>7. PICK more : more = [i \in 0 .. n + 1 |-> IF i = n + 1 THEN << >> ELSE rest[i] \o units]
  OBVIOUS
<1> HIDE DEF w, n
<1>8. \A i \in 0 .. n : more[i] = rest[i] \o units /\ rest[i] \in Seq(Nat)
  <2>1. \A i \in 0 .. n : i \in 0 .. n + 1 /\ i # n + 1
    BY <1>3
  <2>2. QED
    BY <2>1, <1>6, <1>7, Zenon
<1>9. more[n + 1] = << >>
  BY <1>3, <1>7
<1>10. more \in [0 .. n + 1 -> Seq(Nat)]
  BY <1>3, <1>4, <1>6, <1>7
<1>11. ASSUME NEW i \in 1 .. n + 1
       PROVE  \E part : WentAs(written'[i], part) /\ more[i - 1] = part \o more[i]
  <2>1. CASE i = n + 1
    <3>1. more[i - 1] = units /\ more[i] = << >> /\ units \o << >> = units
      <4>1. i - 1 = n /\ n \in 0 .. n
        BY <2>1, <1>3
      <4>2. << >> \o units = units /\ units \o << >> = units
        BY <1>4, ConcatEmptySeq
      <4>3. QED
        BY <4>1, <4>2, <1>6, <1>8, <1>9, <2>1
    <3>2. WentAs(w, units)
      BY DEF w
    <3>3. written'[i] = w
      BY <2>1, <1>3
    <3>4. QED
      BY <3>1, <3>2, <3>3, Zenon
  <2>2. CASE i \in 1 .. n
    <3>1. PICK part : WentAs(written[i], part) /\ rest[i - 1] = part \o rest[i]
      BY <2>2, <1>6, Zenon
    <3>2. part \in Seq(Nat)
      BY <3>1, Zenon DEF WentAs
    <3>3. i \in 0 .. n /\ i - 1 \in 0 .. n
      BY <2>2, <1>3
    <3>4. more[i] = rest[i] \o units /\ more[i - 1] = rest[i - 1] \o units /\ rest[i] \in Seq(Nat)
      BY <3>3, <1>8, Zenon
    <3>5. (part \o rest[i]) \o units = part \o (rest[i] \o units)
      BY <3>2, <3>4, <1>4, Associative, Zenon
    <3>6. written'[i] = written[i]
      BY <2>2, <1>3, Zenon
    <3>7. more[i - 1] = part \o more[i]
      BY <3>1, <3>4, <3>5, Zenon
    <3>8. QED
      BY <3>1, <3>6, <3>7, Zenon
  <2>3. i = n + 1 \/ i \in 1 .. n
    BY <1>3
  <2>4. QED
    BY <2>1, <2>2, <2>3, Zenon
<1>12. Chain(more)'
  BY <1>3, <1>9, <1>10, <1>11, Zenon DEF Chain
<1>13. stream' = more[Len(read')]
  <2>1. Len(read) \in 0 .. n
    BY <1>3, <1>5
  <2>2. QED
    BY <2>1, <1>1, <1>2, <1>8, Zenon
<1>14. LastMayBeTorn'
  <2>1. ASSUME NEW i \in 1 .. n + 1, i < n + 1 PROVE ~ written'[i].torn
    <3>1. i \in 1 .. n
      BY <2>1, <1>3
    <3>2. written'[i] = written[i]
      BY <3>1, <1>3, Zenon
    <3>3. CASE i < n
      BY <3>1, <3>2, <3>3, Zenon DEF StreamIInv, LastMayBeTorn, n
    <3>4. CASE i = n
      <4>1. written # << >>
        <5>1. written = << >> => n = 0
          BY DEF n
        <5>2. QED
          BY <5>1, <3>1, <1>3
      <4>2. ~ Last(written).torn
        BY <4>1, <1>2, Zenon DEF Torn
      <4>3. QED
        BY <4>2, <3>2, <3>4, Zenon DEF Last, n
    <3>5. QED
      BY <3>1, <3>3, <3>4, <1>3
  <2>2. QED
    BY <2>1, <1>3, Zenon DEF LastMayBeTorn
<1>15. ReadSoFar'
  <2>1. \A i \in 1 .. Len(read) : i \in 1 .. n
    BY <1>3, <1>5
  <2>2. \A i \in 1 .. Len(read) : written[i].whole /\ read[i] = written[i].item /\ WithinLimits(read[i])
    BY Zenon DEF StreamIInv, ReadSoFar
  <2>3. QED
    BY <2>1, <2>2, <1>2, <1>3, Zenon DEF ReadSoFar
<1>16. IsSeq(read') /\ Len(read') <= Len(written')
  BY <1>2, <1>3, <1>5
<1>17. QED
  BY <1>3, <1>12, <1>13, <1>14, <1>15, <1>16, Zenon DEF StreamIInv

\* The item at the head of the stream is taken off.
LEMMA TakenInv ==
  ASSUME StreamIInv, NEW rest, Chain(rest), stream = rest[Len(read)],
         NEW item, Len(read) < Len(written),
         written[Len(read) + 1].whole, item = written[Len(read) + 1].item, WithinLimits(item),
         read' = Append(read, item), stream' = rest[Len(read) + 1], written' = written
  PROVE  StreamIInv'
<1> DEFINE n == Len(read)
<1>1. /\ IsSeq(read') /\ n \in Nat /\ Len(read') = n + 1
      /\ \A i \in 1 .. n : read'[i] = read[i]
      /\ read'[n + 1] = item
  <2>1. IsSeq(read)
    BY Zenon DEF StreamIInv
  <2>2. IsWith(Append(read, item), read, item)
    BY <2>1, Appended, Zenon
  <2>3. IsWith(read', read, item)
    BY <2>2
  <2>4. QED
    BY <2>3, Zenon DEF IsWith
<1>2. Len(written) \in Nat /\ IsSeq(written)
  BY SeqIs, Zenon DEF StreamIInv
<1>3. Len(read') <= Len(written')
  BY <1>1, <1>2
<1>4. Chain(rest)' /\ stream' = rest[Len(read')]
  BY <1>1, Zenon DEF Chain
<1>5. LastMayBeTorn'
  BY Zenon DEF StreamIInv, LastMayBeTorn
<1>6. ReadSoFar'
  <2>1. ASSUME NEW i \in 1 .. n + 1
        PROVE  written[i].whole /\ read'[i] = written[i].item /\ WithinLimits(read'[i])
    <3>1. CASE i = n + 1
      BY <3>1, <1>1, Zenon
    <3>2. CASE i \in 1 .. n
      BY <3>2, <1>1, Zenon DEF StreamIInv, ReadSoFar
    <3>3. QED
      BY <3>1, <3>2, <1>1
  <2>2. QED
    BY <2>1, <1>1, Zenon DEF ReadSoFar
<1>7. QED
  BY <1>1, <1>2, <1>3, <1>4, <1>5, <1>6, Zenon DEF StreamIInv

\* The first entry that is not read yet begins the stream.
HeadIs(w, tail) ==
  \E full :
    /\ Form(w, full) /\ Holds(stream, 0, full) /\ Len(stream) >= 1
    /\ w.torn => Len(stream) < Len(full)
    /\ ~ w.torn => /\ Len(full) <= Len(stream)
                   /\ SubSeq(stream, Len(full) + 1, Len(stream)) = tail

\* What is after the first of two joined sequences is the second.
LEMMA Prefixed ==
  ASSUME NEW a \in Seq(Nat), NEW b \in Seq(Nat)
  PROVE  /\ Len(a) <= Len(a \o b) /\ SubSeq(a \o b, Len(a) + 1, Len(a \o b)) = b
         /\ \A j \in 1 .. Len(a) : (a \o b)[j] = a[j]
<1> DEFINE s == a \o b
<1>1. /\ s \in Seq(Nat) /\ Len(a) \in Nat /\ Len(b) \in Nat
      /\ Len(s) = Len(a) + Len(b)
      /\ \A j \in 1 .. Len(a) : s[j] = a[j]
      /\ \A j \in 1 .. Len(b) : s[Len(a) + j] = b[j]
  BY Joined, Zenon
<1> HIDE DEF s
<1>2. Len(a) <= Len(s) /\ Len(a) + Len(b) <= Len(s)
  BY <1>1
<1>3. SubSeq(s, Len(a) + 1, Len(a) + Len(b)) = b
  BY <1>1, <1>2, Within
<1>4. QED
  BY <1>1, <1>2, <1>3, Zenon DEF s

\* What the stream begins with.
LEMMA AtHead ==
  ASSUME StreamIInv
  PROVE  /\ stream \in Seq(Nat)
         /\ Len(read) \in Nat /\ Len(written) \in Nat /\ Len(read) <= Len(written)
         /\ Len(read) = Len(written) => stream = << >>
         /\ \E rest : /\ Chain(rest) /\ stream = rest[Len(read)]
                      /\ Len(read) < Len(written) =>
                           HeadIs(written[Len(read) + 1], rest[Len(read) + 1])
<1> DEFINE n == Len(written)
           i == Len(read) + 1
           w == written[i]
<1>1. PICK rest : Chain(rest) /\ stream = rest[Len(read)]
  BY Zenon DEF StreamIInv
<1>2. Len(read) \in Nat /\ n \in Nat /\ Len(read) <= n
  BY SeqIs, Zenon DEF StreamIInv
<1>3. /\ rest \in [0 .. n -> Seq(Nat)] /\ rest[n] = << >>
      /\ \A l \in 1 .. n :
           \E part : WentAs(written[l], part) /\ rest[l - 1] = part \o rest[l]
  BY <1>1, Zenon DEF Chain
<1> HIDE DEF n, i, w
<1>4. stream \in Seq(Nat)
  BY <1>1, <1>2, <1>3
<1>5. Len(read) = n => stream = << >>
  BY <1>1, <1>3
<1>6. ASSUME Len(read) < n PROVE HeadIs(w, rest[i])
  <2>1. i \in 1 .. n /\ i - 1 = Len(read) /\ i \in 0 .. n
    BY <1>2, <1>6 DEF i
  <2>2. PICK part : WentAs(w, part) /\ stream = part \o rest[i]
    BY <2>1, <1>1, <1>3, Zenon DEF w
  <2>3. part \in Seq(Nat) /\ Len(part) >= 1 /\ rest[i] \in Seq(Nat)
    BY <2>1, <2>2, <1>3, Zenon DEF WentAs
  <2>4. /\ Len(part) <= Len(stream) /\ SubSeq(stream, Len(part) + 1, Len(stream)) = rest[i]
        /\ \A j \in 1 .. Len(part) : stream[j] = part[j]
    BY <2>2, <2>3, Prefixed, Zenon
  <2>5. Len(stream) \in Nat /\ Len(part) \in Nat /\ Len(stream) >= 1
    BY <2>3, <2>4, <1>4
  <2>6. CASE ~ w.torn
    <3>1. Form(w, part)
      BY <2>2, <2>6, Zenon DEF WentAs
    <3>2. Holds(stream, 0, part)
      <4>1. \A j \in 1 .. Len(part) : 0 + j = j
        BY <2>5
      <4>2. QED
        BY <4>1, <2>4, Zenon DEF Holds
    <3>3. QED
      BY <3>1, <3>2, <2>4, <2>5, <2>6, Zenon DEF HeadIs
  <2>7. CASE w.torn
    <3>1. PICK full : /\ Form(w, full) /\ Len(part) < Len(full)
                      /\ \A j \in 1 .. Len(part) : part[j] = full[j]
      BY <2>2, <2>7, Zenon DEF WentAs
    <3>2. i = n
      <4>1. ~ (i < n)
        BY <2>1, <2>7, Zenon DEF StreamIInv, LastMayBeTorn, n, w
      <4>2. QED
        BY <4>1, <2>1, <1>2
    <3>3. stream = part
      <4>1. rest[i] = << >>
        BY <3>2, <1>3
      <4>2. part \o << >> = part
        BY <2>3, ConcatEmptySeq
      <4>3. QED
        BY <4>1, <4>2, <2>2
    <3>4. Holds(stream, 0, full)
      <4>1. full \in Seq(Nat)
        BY <3>1, Zenon DEF Form
      <4>2. Len(full) \in Nat
        BY <4>1
      <4>3. \A j \in 1 .. Len(full) : 0 + j = j /\ (0 + j <= Len(stream) => j \in 1 .. Len(part))
        BY <4>2, <3>3, <2>5
      <4>4. QED
        BY <4>3, <3>1, <3>3, Zenon DEF Holds
    <3>5. QED
      BY <3>1, <3>3, <3>4, <2>5, <2>7, Zenon DEF HeadIs
  <2>8. QED
    BY <2>6, <2>7
<1>7. QED
  BY <1>1, <1>2, <1>4, <1>5, <1>6, Zenon DEF n, i, w

\* The decoders read nothing from nothing.
LEMMA NothingDecodes ==
  stream = << >> => ~ DecodedKey(stream).ok /\ ~ DecodedNonce(stream).ok
<1>1. SUFFICES ASSUME stream = << >> PROVE ~ DecodedKey(stream).ok /\ ~ DecodedNonce(stream).ok
  OBVIOUS
<1>2. ~ (Len(stream) >= 2) /\ ~ (Len(stream) >= 1)
  BY <1>1
<1>3. ~ Refused.ok
  BY DEF Refused
<1>4. ~ HasHeader(stream)
  BY <1>2, Zenon DEF HasHeader
<1>5. QED
  BY <1>2, <1>3, <1>4, Zenon DEF DecodedKey, DecodedNonce

\* What the key decoder finds at the head.
LEMMA KeyAtHead ==
  ASSUME StreamIInv, DecodedKey(stream).ok
  PROVE  LET i == Len(read) + 1
             item == [kind |-> "key", value |-> DecodedKey(stream).value]
         IN  /\ Len(read) < Len(written)
             /\ written[i].whole /\ item = written[i].item /\ WithinLimits(item)
             /\ \E rest : /\ Chain(rest) /\ stream = rest[Len(read)]
                          /\ DecodedKey(stream).rest = rest[i]
<1> DEFINE i == Len(read) + 1
           w == written[i]
           r == DecodedKey(stream)
           item == [kind |-> "key", value |-> r.value]
<1>1. PICK rest : /\ Chain(rest) /\ stream = rest[Len(read)]
                  /\ Len(read) < Len(written) => HeadIs(w, rest[i])
  BY AtHead, Zenon
<1>2. /\ stream \in Seq(Nat) /\ Len(read) \in Nat /\ Len(written) \in Nat
      /\ Len(read) <= Len(written) /\ (Len(read) = Len(written) => stream = << >>)
  BY AtHead, Zenon
<1>3. Len(read) < Len(written)
  <2>1. Len(read) # Len(written)
    BY <1>2, NothingDecodes, Zenon
  <2>2. QED
    BY <2>1, <1>2
<1> HIDE DEF w, i
<1>4. PICK full : /\ Form(w, full) /\ Holds(stream, 0, full) /\ Len(stream) >= 1
                  /\ w.torn => Len(stream) < Len(full)
                  /\ ~ w.torn => /\ Len(full) <= Len(stream)
                                 /\ SubSeq(stream, Len(full) + 1, Len(stream)) = rest[i]
  BY <1>1, <1>3, Zenon DEF HeadIs
<1>5. ~ NonceForm(w, full)
  <2>1. SUFFICES ASSUME NEW value \in Seq(Nat), full = EncodedNonce(value) PROVE FALSE
    BY Zenon DEF NonceForm
  <2>2. Holds(stream, 0, EncodedNonce(value))
    BY <2>1, <1>4, Zenon
  <2>3. QED
    BY <2>2, <1>2, <1>4, DecodedNonceIs, Zenon
<1>6. PICK codec \in Nat, comment \in Seq(Nat), pairs \in PairSeqs :
        /\ full = KeyUnits(codec, comment, pairs)
        /\ w.item = [kind |-> "key", value |-> KeyOf(codec, comment, pairs)]
        /\ ~ w.torn => (w.whole <=> IsMultikey(KeyOf(codec, comment, pairs)) /\ NoneTwice(pairs))
  <2>1. KeyForm(w, full)
    BY <1>4, <1>5, Zenon DEF Form
  <2>2. QED
    BY <2>1, Zenon DEF KeyForm
<1>7. /\ Len(full) <= Len(stream) /\ Readable(codec, comment, pairs)
      /\ r = Accepted(KeyOf(codec, comment, pairs), SubSeq(stream, Len(full) + 1, Len(stream)))
  <2>1. Holds(stream, 0, KeyUnits(codec, comment, pairs))
    BY <1>4, <1>6, Zenon
  <2>2. QED
    BY <2>1, <1>2, <1>6, DecodedKeyIs, Zenon
<1>8. ~ w.torn
  <2>1. full \in Seq(Nat)
    BY <1>4, Zenon DEF Form
  <2>2. ~ (Len(stream) < Len(full))
    BY <2>1, <1>2, <1>7
  <2>3. QED
    BY <2>2, <1>4, Zenon
<1>9. r.value = KeyOf(codec, comment, pairs) /\ r.rest = rest[i]
  <2>1. r = Accepted(KeyOf(codec, comment, pairs), rest[i])
    BY <1>4, <1>7, <1>8, Zenon
  <2> HIDE DEF r
  <2>2. QED
    BY <2>1 DEF Accepted
<1>10. w.whole
  <2>1. IsMultikey(KeyOf(codec, comment, pairs))
    BY <1>7, StaysReadable, Zenon
  <2>2. NoneTwice(pairs)
    BY <1>7, Zenon DEF Readable
  <2>3. QED
    BY <2>1, <2>2, <1>6, <1>8, Zenon
<1>11. item = w.item /\ WithinLimits(item)
  <2>1. item = w.item
    BY <1>6, <1>9, Zenon
  <2>2. WithinLimits(item)
    <3>1. item.value = KeyOf(codec, comment, pairs)
      BY <1>9
    <3>2. QED
      BY <3>1, <1>7, Zenon DEF WithinLimits
  <2>3. QED
    BY <2>1, <2>2
<1>12. QED
  BY <1>1, <1>3, <1>9, <1>10, <1>11, Zenon DEF w, i

\* What the nonce decoder finds at the head.
LEMMA NonceAtHead ==
  ASSUME StreamIInv, DecodedNonce(stream).ok
  PROVE  LET i == Len(read) + 1
             item == [kind |-> "nonce", value |-> DecodedNonce(stream).value]
         IN  /\ Len(read) < Len(written)
             /\ written[i].whole /\ item = written[i].item /\ WithinLimits(item)
             /\ \E rest : /\ Chain(rest) /\ stream = rest[Len(read)]
                          /\ DecodedNonce(stream).rest = rest[i]
<1> DEFINE i == Len(read) + 1
           w == written[i]
           r == DecodedNonce(stream)
           item == [kind |-> "nonce", value |-> r.value]
<1>1. PICK rest : /\ Chain(rest) /\ stream = rest[Len(read)]
                  /\ Len(read) < Len(written) => HeadIs(w, rest[i])
  BY AtHead, Zenon
<1>2. /\ stream \in Seq(Nat) /\ Len(read) \in Nat /\ Len(written) \in Nat
      /\ Len(read) <= Len(written) /\ (Len(read) = Len(written) => stream = << >>)
  BY AtHead, Zenon
<1>3. Len(read) < Len(written)
  <2>1. Len(read) # Len(written)
    BY <1>2, NothingDecodes, Zenon
  <2>2. QED
    BY <2>1, <1>2
<1> HIDE DEF w, i
<1>4. PICK full : /\ Form(w, full) /\ Holds(stream, 0, full) /\ Len(stream) >= 1
                  /\ w.torn => Len(stream) < Len(full)
                  /\ ~ w.torn => /\ Len(full) <= Len(stream)
                                 /\ SubSeq(stream, Len(full) + 1, Len(stream)) = rest[i]
  BY <1>1, <1>3, Zenon DEF HeadIs
<1>5. ~ KeyForm(w, full)
  <2>1. SUFFICES ASSUME NEW codec \in Nat, NEW comment \in Seq(Nat), NEW pairs \in PairSeqs,
                        full = KeyUnits(codec, comment, pairs)
                 PROVE  FALSE
    BY Zenon DEF KeyForm
  <2>2. HasParts(full, codec, comment, Len(pairs), PairUnits(pairs))
    BY <2>1, KeyUnitsAre, Zenon
  <2>3. full[1] = Sigil /\ Len(full) = 4 + Len(comment) + Len(PairUnits(pairs))
        /\ Len(comment) \in Nat /\ Len(PairUnits(pairs)) \in Nat
    BY <2>2, Zenon DEF HasParts
  <2>4. 1 \in 1 .. Len(full) /\ 0 + 1 = 1
    BY <2>3
  <2>5. 0 + 1 <= Len(stream)
    BY <1>2, <1>4
  <2>6. stream[1] = Sigil
    <3>1. stream[0 + 1] = full[1]
      BY <2>4, <2>5, <1>4, Zenon DEF Holds
    <3>2. QED
      BY <3>1, <2>3
  <2>7. stream[1] = NonceSigil
    <3>1. ~ Refused.ok
      BY DEF Refused
    <3>2. QED
      BY <3>1, Zenon DEF DecodedNonce
  <2>8. QED
    BY <2>6, <2>7, WireConstants, Zenon
<1>6. PICK value \in Seq(Nat) : /\ full = EncodedNonce(value)
                                /\ w.item = [kind |-> "nonce", value |-> value]
                                /\ ~ w.torn => w.whole
  <2>1. NonceForm(w, full)
    BY <1>4, <1>5, Zenon DEF Form
  <2>2. QED
    BY <2>1, Zenon DEF NonceForm
<1>7. /\ Len(full) <= Len(stream)
      /\ r = Accepted(value, SubSeq(stream, Len(full) + 1, Len(stream)))
  <2>1. Holds(stream, 0, EncodedNonce(value))
    BY <1>4, <1>6, Zenon
  <2>2. QED
    BY <2>1, <1>2, <1>6, DecodedNonceIs, Zenon
<1>8. ~ w.torn
  <2>1. full \in Seq(Nat)
    BY <1>4, Zenon DEF Form
  <2>2. ~ (Len(stream) < Len(full))
    BY <2>1, <1>2, <1>7
  <2>3. QED
    BY <2>2, <1>4, Zenon
<1>9. r.value = value /\ r.rest = rest[i]
  <2>1. r = Accepted(value, rest[i])
    BY <1>4, <1>7, <1>8, Zenon
  <2> HIDE DEF r
  <2>2. QED
    BY <2>1 DEF Accepted
<1>10. item = w.item /\ WithinLimits(item)
  <2>1. item = w.item
    BY <1>6, <1>9, Zenon
  <2>2. item.kind # "key"
    OBVIOUS
  <2>3. QED
    BY <2>1, <2>2, Zenon DEF WithinLimits
<1>11. QED
  BY <1>1, <1>3, <1>6, <1>8, <1>9, <1>10, Zenon DEF w, i

\* An item of this crate has a form.
LEMMA ItemForm ==
  ASSUME NEW item \in Items, NEW w, w.item = item, ~ w.torn => w.whole
  PROVE  Form(w, Encoded(item))
<1>1. CASE item.kind = "nonce"
  <2>1. item \in [kind : {"nonce"}, value : Payloads]
    BY <1>1 DEF Items
  <2>2. item = [kind |-> "nonce", value |-> item.value] /\ item.value \in Seq(Nat)
    BY <2>1, StreamConstants
  <2>3. Encoded(item) = EncodedNonce(item.value)
    BY <1>1 DEF Encoded
  <2>4. EncodedNonce(item.value) \in Seq(Nat)
    BY <2>2, NonceUnitsAre, Zenon
  <2>5. QED
    BY <2>2, <2>3, <2>4, Zenon DEF Form, NonceForm
<1>2. CASE item.kind # "nonce"
  <2> DEFINE k == item.value
             a == k.attributes
             p == Pairs(k)
  <2>1. item \in [kind : {"key"}, value : [codec : KeyCodecs, comment : Comments,
                   attributes : UNION {[ids -> Payloads] : ids \in SUBSET Ids}]]
    BY <1>2 DEF Items
  <2>2. /\ item.kind = "key" /\ item = [kind |-> "key", value |-> k]
        /\ k = [codec |-> k.codec, comment |-> k.comment, attributes |-> a]
        /\ k.codec \in KeyCodecs /\ k.comment \in Comments
        /\ a \in UNION {[ids -> Payloads] : ids \in SUBSET Ids}
    BY <2>1
  <2> HIDE DEF k, a
  <2>3. PICK ids \in SUBSET Ids : a \in [ids -> Payloads]
    BY <2>2
  <2>4. /\ k.codec \in KnownCodecs /\ k.codec \in Nat /\ k.comment \in Seq(Nat)
        /\ IsText(k.comment) /\ Payloads \subseteq Seq(Nat) /\ Ids \subseteq AttrIds
    BY <2>2, StreamConstants, WireConstants
  <2>5. AreAttributes(a)
    BY <2>3, <2>4 DEF AreAttributes
  <2>6. p \in PairSeqs /\ IsTable(a, p, Len(p))
    BY <2>5, PairsAre, Zenon DEF a
  <2> HIDE DEF p
  <2>7. KeyOf(k.codec, k.comment, p) = k /\ NoneTwice(p)
    <3>1. /\ KeyOf(k.codec, k.comment, p) =
               [codec |-> k.codec, comment |-> k.comment, attributes |-> a]
          /\ NoneTwice(p)
      BY <2>6, KeyOfIs, Zenon
    <3>2. QED
      BY <2>2, <3>1, Zenon
  <2>8. IsMultikey(k)
    BY <2>4, <2>5, Zenon DEF IsMultikey, AreAttributes, a
  <2>9. Encoded(item) = KeyUnits(k.codec, k.comment, p)
    BY <2>2, Zenon DEF Encoded, EncodedKey, p, k
  <2>10. KeyUnits(k.codec, k.comment, p) \in Seq(Nat)
    BY <2>4, <2>6, KeyUnitsAre, Zenon DEF HasParts
  <2>11. KeyForm(w, Encoded(item))
    BY <2>2, <2>4, <2>6, <2>7, <2>8, <2>9, Zenon DEF KeyForm
  <2>12. QED
    BY <2>9, <2>10, <2>11, Zenon DEF Form
<1>3. QED
  BY <1>1, <1>2

\* No item is written without units.
LEMMA FormIsLong ==
  ASSUME NEW w, NEW full, Form(w, full)
  PROVE  full \in Seq(Nat) /\ Len(full) \in Nat /\ Len(full) >= 1
<1>1. full \in Seq(Nat) /\ Len(full) \in Nat
  <2>1. full \in Seq(Nat)
    BY Zenon DEF Form
  <2>2. QED
    BY <2>1
<1>2. CASE KeyForm(w, full)
  <2>1. PICK codec \in Nat, comment \in Seq(Nat), pairs \in PairSeqs :
               full = KeyUnits(codec, comment, pairs)
    BY <1>2, Zenon DEF KeyForm
  <2>2. HasParts(full, codec, comment, Len(pairs), PairUnits(pairs))
    BY <2>1, KeyUnitsAre, Zenon
  <2>3. Len(full) = 4 + Len(comment) + Len(PairUnits(pairs))
        /\ Len(comment) \in Nat /\ Len(PairUnits(pairs)) \in Nat
    BY <2>2, Zenon DEF HasParts
  <2>4. QED
    BY <2>3, <1>1
<1>3. CASE NonceForm(w, full)
  <2>1. PICK value \in Seq(Nat) : full = EncodedNonce(value)
    BY <1>3, Zenon DEF NonceForm
  <2>2. Len(full) = 2 + Len(value) /\ Len(value) \in Nat
    BY <2>1, NonceUnitsAre, Zenon
  <2>3. QED
    BY <2>2, <1>1
<1>4. QED
  BY <1>1, <1>2, <1>3, Zenon DEF Form

\* Each action preserves the invariant.
LEMMA WriteInv ==
  ASSUME StreamIInv, NEW item \in Items, Write(item)
  PROVE  StreamIInv'
<1> DEFINE w == [item |-> item, whole |-> TRUE, torn |-> FALSE]
<1>1. w.item = item /\ w.whole /\ ~ w.torn
  OBVIOUS
<1>2. Form(w, Encoded(item))
  BY <1>1, ItemForm, Zenon
<1> HIDE DEF w
<1>3. WentAs(w, Encoded(item))
  BY <1>1, <1>2, FormIsLong, Zenon DEF WentAs
<1>4. Append1(item, TRUE, FALSE, Encoded(item))
  BY Zenon DEF Write
<1>5. QED
  BY <1>3, <1>4, AddedInv, Zenon DEF w

LEMMA WriteTornInv ==
  ASSUME StreamIInv, NEW item \in Items, NEW n \in 1 .. Len(Encoded(item)), WriteTorn(item, n)
  PROVE  StreamIInv'
<1> DEFINE w == [item |-> item, whole |-> FALSE, torn |-> TRUE]
           full == Encoded(item)
           part == SubSeq(full, 1, n)
<1>1. w.item = item /\ ~ w.whole /\ w.torn
  OBVIOUS
<1>2. Form(w, full)
  BY <1>1, ItemForm, Zenon
<1>3. full \in Seq(Nat) /\ Len(full) \in Nat
  BY <1>2, FormIsLong, Zenon
<1>4. n < Len(full) /\ Append1(item, FALSE, TRUE, part)
  BY Zenon DEF WriteTorn
<1> HIDE DEF w, full
<1>5. n \in 1 .. Len(full)
  BY DEF full
<1>6. part \in Seq(Nat) /\ Len(part) = n /\ \A j \in 1 .. n : part[j] = full[j]
  BY <1>3, <1>5
<1> HIDE DEF part
<1>7. WentAs(w, part)
  <2>1. Len(part) >= 1 /\ Len(part) < Len(full)
    BY <1>3, <1>4, <1>5, <1>6
  <2>2. QED
    BY <2>1, <1>1, <1>2, <1>6, Zenon DEF WentAs
<1>8. QED
  BY <1>4, <1>7, AddedInv, Zenon DEF w

LEMMA WriteOtherInv ==
  ASSUME StreamIInv, NEW codec \in OtherCodecs, NEW comment \in OtherComments,
         NEW pairs \in BoundedSeq(OtherIds \X OtherPayloads, MaxPairs),
         WriteOther(codec, comment, pairs)
  PROVE  StreamIInv'
<1> DEFINE key == KeyOf(codec, comment, pairs)
           full == KeyUnits(codec, comment, pairs)
           item == [kind |-> "key", value |-> key]
           whole == IsMultikey(key) /\ NoneTwice(pairs)
           w == [item |-> item, whole |-> whole, torn |-> FALSE]
<1>1. codec \in Nat /\ comment \in Seq(Nat)
  BY StreamConstants
<1>2. pairs \in PairSeqs
  <2>1. PICK m \in 0 .. MaxPairs : pairs \in [1 .. m -> OtherIds \X OtherPayloads]
    BY DEF BoundedSeq, SeqOf
  <2>2. m \in Nat
    BY StreamConstants
  <2>3. OtherIds \X OtherPayloads \subseteq Nat \X Seq(Nat)
    BY StreamConstants
  <2>4. pairs \in [1 .. m -> Nat \X Seq(Nat)]
    BY <2>1, <2>3
  <2>5. QED
    BY <2>2, <2>4 DEF PairSeqs
<1>3. full \in Seq(Nat)
  BY <1>1, <1>2, KeyUnitsAre, Zenon DEF HasParts
<1>4. Append1(item, whole, FALSE, full)
  BY Zenon DEF WriteOther
<1>5. w.item = item /\ (w.whole <=> whole) /\ ~ w.torn
  OBVIOUS
<1> HIDE DEF w
<1>6. KeyForm(w, full)
  BY <1>1, <1>2, <1>5, Zenon DEF KeyForm
<1>7. Form(w, full)
  BY <1>3, <1>6, Zenon DEF Form
<1>8. WentAs(w, full)
  BY <1>5, <1>7, FormIsLong, Zenon DEF WentAs
<1>9. QED
  <2> HIDE DEF full, item, whole
  <2>1. QED
    BY <1>4, <1>8, AddedInv, Zenon DEF w

LEMMA ReadKeyInv ==
  ASSUME StreamIInv, ReadKey
  PROVE  StreamIInv'
<1> DEFINE item == [kind |-> "key", value |-> DecodedKey(stream).value]
           i == Len(read) + 1
<1>1. /\ DecodedKey(stream).ok /\ read' = Append(read, item)
      /\ stream' = DecodedKey(stream).rest /\ written' = written
  BY Zenon DEF ReadKey
<1>2. /\ Len(read) < Len(written)
      /\ written[i].whole /\ item = written[i].item /\ WithinLimits(item)
      /\ \E rest : /\ Chain(rest) /\ stream = rest[Len(read)]
                   /\ DecodedKey(stream).rest = rest[i]
  BY <1>1, KeyAtHead, Zenon
<1>3. PICK rest : /\ Chain(rest) /\ stream = rest[Len(read)]
                  /\ DecodedKey(stream).rest = rest[i]
  BY <1>2, Zenon
<1> HIDE DEF item
<1>4. stream' = rest[Len(read) + 1]
  BY <1>1, <1>3, Zenon
<1>5. QED
  BY <1>1, <1>2, <1>3, <1>4, TakenInv, Zenon

LEMMA ReadNonceInv ==
  ASSUME StreamIInv, ReadNonce
  PROVE  StreamIInv'
<1> DEFINE item == [kind |-> "nonce", value |-> DecodedNonce(stream).value]
           i == Len(read) + 1
<1>1. /\ DecodedNonce(stream).ok /\ read' = Append(read, item)
      /\ stream' = DecodedNonce(stream).rest /\ written' = written
  BY Zenon DEF ReadNonce
<1>2. /\ Len(read) < Len(written)
      /\ written[i].whole /\ item = written[i].item /\ WithinLimits(item)
      /\ \E rest : /\ Chain(rest) /\ stream = rest[Len(read)]
                   /\ DecodedNonce(stream).rest = rest[i]
  BY <1>1, NonceAtHead, Zenon
<1>3. PICK rest : /\ Chain(rest) /\ stream = rest[Len(read)]
                  /\ DecodedNonce(stream).rest = rest[i]
  BY <1>2, Zenon
<1> HIDE DEF item
<1>4. stream' = rest[Len(read) + 1]
  BY <1>1, <1>3, Zenon
<1>5. QED
  BY <1>1, <1>2, <1>3, <1>4, TakenInv, Zenon

\* The invariant holds of the empty stream.
LEMMA StreamInitInv == StreamInit => StreamIInv
<1>1. SUFFICES ASSUME StreamInit PROVE StreamIInv
  OBVIOUS
<1>2. stream = << >> /\ written = << >> /\ read = << >>
  BY <1>1, Zenon DEF StreamInit
<1>3. IsSeq(<< >>) /\ Len(<< >>) = 0
  <2>1. << >> \in Seq({})
    OBVIOUS
  <2>2. QED
    BY <2>1 DEF IsSeq
<1>4. PICK rest : rest = [i \in 0 .. 0 |-> << >>]
  OBVIOUS
<1>5. Chain(rest) /\ rest[0] = << >>
  BY <1>2, <1>3, <1>4 DEF Chain
<1>6. \A i \in 1 .. 0 : FALSE
  OBVIOUS
<1>7. LastMayBeTorn /\ ReadSoFar
  BY <1>2, <1>3, <1>6, Zenon DEF LastMayBeTorn, ReadSoFar
<1>8. Len(read) <= Len(written)
  BY <1>2, <1>3
<1>9. QED
  BY <1>2, <1>3, <1>5, <1>7, <1>8, Zenon DEF StreamIInv

\* Every step preserves the invariant.
LEMMA StreamNextInv == StreamIInv /\ [StreamNext]_streamVars => StreamIInv'
<1>1. SUFFICES ASSUME StreamIInv, [StreamNext]_streamVars PROVE StreamIInv'
  OBVIOUS
<1>2. ASSUME NEW item \in Items, Write(item) PROVE StreamIInv'
  BY <1>1, <1>2, WriteInv, Zenon
<1>3. ASSUME NEW item \in Items, NEW n \in 1 .. Len(Encoded(item)), WriteTorn(item, n)
      PROVE  StreamIInv'
  BY <1>1, <1>3, WriteTornInv, Zenon
<1>4. ASSUME NEW codec \in OtherCodecs, NEW comment \in OtherComments,
             NEW pairs \in BoundedSeq(OtherIds \X OtherPayloads, MaxPairs),
             WriteOther(codec, comment, pairs)
      PROVE  StreamIInv'
  BY <1>1, <1>4, WriteOtherInv, Zenon
<1>5. CASE ReadKey
  BY <1>1, <1>5, ReadKeyInv, Zenon
<1>6. CASE ReadNonce
  BY <1>1, <1>6, ReadNonceInv, Zenon
<1>7. CASE UNCHANGED streamVars
  <2>1. stream' = stream /\ written' = written /\ read' = read
    BY <1>7 DEF streamVars
  <2>2. QED
    BY <1>1, <2>1, Zenon DEF StreamIInv, Chain, LastMayBeTorn, ReadSoFar
<1>8. QED
  BY <1>1, <1>2, <1>3, <1>4, <1>5, <1>6, <1>7, Zenon DEF StreamNext

\* No two attributes have one name.
LEMMA NamesApart ==
  /\ Len(AttrNames) = 30
  /\ \A i, j \in 1 .. 30 : AttrNames[i] = AttrNames[j] => i = j
BY DEF AttrNames

\* The invariant holds in every reachable state.
THEOREM StreamInductive == StreamSpec => []StreamIInv
<1>1. StreamInit => StreamIInv
  BY StreamInitInv
<1>2. StreamIInv /\ [StreamNext]_streamVars => StreamIInv'
  BY StreamNextInv
<1>3. QED
  BY <1>1, <1>2, PTL DEF StreamSpec

LEMMA TypeFollows == StreamIInv => StreamTypeOK
<1>1. SUFFICES ASSUME StreamIInv PROVE StreamTypeOK
  OBVIOUS
<1>2. stream \in Seq(Nat) /\ Len(read) <= Len(written)
  BY <1>1, AtHead, Zenon
<1>3. DOMAIN read = 1 .. Len(read)
  BY <1>1, SeqIs, Zenon DEF StreamIInv
<1>4. ASSUME NEW i \in DOMAIN read, read[i].kind = "key" PROVE IsMultikey(read[i].value)
  <2>1. WithinLimits(read[i])
    BY <1>1, <1>3, <1>4, Zenon DEF StreamIInv, ReadSoFar
  <2>2. PICK codec \in Nat, comment \in Seq(Nat), pairs \in PairSeqs :
          read[i].value = KeyOf(codec, comment, pairs) /\ Readable(codec, comment, pairs)
    BY <2>1, <1>4, Zenon DEF WithinLimits
  <2>3. QED
    BY <2>2, StaysReadable, Zenon
<1>5. QED
  BY <1>2, <1>4, Zenon DEF StreamTypeOK

\* The stream is made of units, and what was read of it are Multikeys and
\* Nonces (Multikey::try_decode_from, Nonce::try_decode_from).
THEOREM StreamTypeCorrect == StreamSpec => []StreamTypeOK
BY StreamInductive, TypeFollows, PTL

LEMMA ReadIsWrittenFollows == StreamIInv => ReadIsWritten
<1>1. SUFFICES ASSUME StreamIInv PROVE ReadIsWritten
  OBVIOUS
<1>2. DOMAIN read = 1 .. Len(read)
  BY <1>1, SeqIs, Zenon DEF StreamIInv
<1>3. QED
  BY <1>1, <1>2, Zenon DEF StreamIInv, ReadSoFar, ReadIsWritten

\* What was read is what was written whole, item by item, whatever else was
\* written between and after (try_decode_from returns the units after the item).
THEOREM NothingMadeUp == StreamSpec => []ReadIsWritten
BY StreamInductive, ReadIsWrittenFollows, PTL

LEMMA WholeItemsFollow == StreamIInv => WholeItemsAreRead
<1> DEFINE i == Len(read) + 1
           w == written[i]
<1>1. SUFFICES ASSUME StreamIInv, i <= Len(written), w.whole,
                      Len(Encoded(w.item)) <= MaxDecodedSize
               PROVE  DecodedKey(stream).ok \/ DecodedNonce(stream).ok
  BY Zenon DEF WholeItemsAreRead
<1>2. PICK rest : /\ Chain(rest) /\ stream = rest[Len(read)]
                  /\ Len(read) < Len(written) => HeadIs(w, rest[i])
  BY <1>1, AtHead, Zenon
<1>3. stream \in Seq(Nat) /\ Len(read) \in Nat /\ Len(written) \in Nat
  BY <1>1, AtHead, Zenon
<1>4. Len(read) < Len(written) /\ i \in 1 .. Len(written)
  BY <1>1, <1>3
<1> HIDE DEF w
<1>5. ~ w.torn
  <2>1. PICK units : WentAs(w, units)
    BY <1>2, <1>4, Zenon DEF Chain, w
  <2>2. QED
    BY <2>1, <1>1, Zenon DEF WentAs
<1> HIDE DEF i
<1>6. PICK full : Form(w, full) /\ Holds(stream, 0, full) /\ Len(full) <= Len(stream)
  BY <1>2, <1>4, <1>5, Zenon DEF HeadIs
<1>7. MaxDecodedSize <= MaxVarbytes /\ MaxDecodedSize \in Nat /\ MaxVarbytes \in Nat
  <2>1. MaxVarbytes >= MaxDecodedSize /\ MaxDecodedSize \in Nat /\ MaxVarbytes \in Nat
    BY WireConstants, Zenon
  <2>2. QED
    BY <2>1
<1>8. CASE KeyForm(w, full)
  <2>1. PICK codec \in Nat, comment \in Seq(Nat), pairs \in PairSeqs :
          /\ full = KeyUnits(codec, comment, pairs)
          /\ w.item = [kind |-> "key", value |-> KeyOf(codec, comment, pairs)]
          /\ ~ w.torn => (w.whole <=> IsMultikey(KeyOf(codec, comment, pairs)) /\ NoneTwice(pairs))
    BY <1>8, Zenon DEF KeyForm
  <2> DEFINE k == KeyOf(codec, comment, pairs)
             n == Len(pairs)
  <2>2. IsMultikey(k) /\ NoneTwice(pairs)
    BY <2>1, <1>1, <1>5, Zenon
  <2>3. k.codec = codec /\ k.comment = comment /\ IsTable(k.attributes, pairs, n)
    BY <2>2, KeyOfParts, Zenon
  <2>4. codec \in KnownCodecs /\ IsText(comment) /\ DOMAIN k.attributes \subseteq AttrIds
    BY <2>2, <2>3, Zenon DEF IsMultikey
  <2>5. /\ EncodedKey(k) = KeyUnits(codec, comment, Pairs(k))
        /\ Len(KeyUnits(codec, comment, Pairs(k))) = Len(full)
    BY <2>1, <2>2, <2>4, InOrderSame, Zenon
  <2>6. Encoded(w.item) = EncodedKey(k)
    <3>1. w.item.kind = "key" /\ w.item.value = k
      BY <2>1
    <3>2. QED
      BY <3>1, Zenon DEF Encoded
  <2>7. Len(full) <= MaxDecodedSize
    BY <2>5, <2>6, <1>1, Zenon
  <2> HIDE DEF k
  <2>8. \A j \in 1 .. n : pairs[j][1] \in AttrIds
    BY <2>3, <2>4, Zenon DEF IsTable
  <2>9. n <= MaxAttributes
    <3>1. Apart(pairs)
      BY <2>3, TableIs, Zenon
    <3>2. QED
      BY <3>1, <2>8, FewPairs, Zenon
  <2>10. HasParts(full, codec, comment, n, PairUnits(pairs))
    BY <2>1, KeyUnitsAre, Zenon
  <2>11. /\ Len(comment) \in Nat /\ Len(PairUnits(pairs)) \in Nat
         /\ Len(full) = 4 + Len(comment) + Len(PairUnits(pairs))
    BY <2>10, Zenon DEF HasParts
  <2>12. Len(comment) <= MaxVarbytes
    BY <2>7, <2>11, <1>7
  <2>13. ASSUME NEW j \in 1 .. n PROVE Len(pairs[j][2]) <= MaxVarbytes
    <3>1. PICK u : Built(u, pairs) /\ PairUnits(pairs) = u[n]
      BY UnitsBuilt, Zenon
    <3>2. HasCell(u[n], Len(u[j - 1]), pairs[j])
      BY <3>1, CellPlace, Zenon
    <3>3. /\ Len(u[j - 1]) \in Nat /\ Len(pairs[j][2]) \in Nat
          /\ Len(u[j - 1]) + Len(pairs[j][2]) + 2 <= Len(PairUnits(pairs))
      BY <3>1, <3>2, Zenon DEF HasCell
    <3> DEFINE a == Len(u[j - 1])
               b == Len(pairs[j][2])
               c == Len(PairUnits(pairs))
               m == Len(comment)
               f == Len(full)
    <3>4. /\ a \in Nat /\ b \in Nat /\ c \in Nat /\ m \in Nat
          /\ a + b + 2 <= c /\ f = 4 + m + c /\ f <= MaxDecodedSize
      BY <3>3, <2>7, <2>11, Zenon
    <3> HIDE DEF a, b, c, m, f
    <3>5. b <= MaxVarbytes
      BY <3>4, <1>7
    <3>6. QED
      BY <3>5 DEF b
  <2>14. Readable(codec, comment, pairs)
    BY <2>1, <2>2, <2>4, <2>7, <2>8, <2>9, <2>12, <2>13, Zenon DEF Readable
  <2>15. DecodedKey(stream).ok
    BY <2>1, <2>14, <1>3, <1>6, DecodedKeyIs, Zenon
  <2>16. QED
    BY <2>15
<1>9. CASE NonceForm(w, full)
  <2>1. PICK value \in Seq(Nat) : /\ full = EncodedNonce(value)
                                  /\ w.item = [kind |-> "nonce", value |-> value]
    BY <1>9, Zenon DEF NonceForm
  <2>2. Encoded(w.item) = full
    <3>1. w.item.kind # "key" /\ w.item.value = value
      BY <2>1
    <3>2. QED
      BY <2>1, <3>1, Zenon DEF Encoded
  <2>3. Len(full) = 2 + Len(value) /\ Len(value) \in Nat
    BY <2>1, NonceUnitsAre, Zenon
  <2>4. Len(value) <= MaxVarbytes
    BY <2>2, <2>3, <1>1, <1>7
  <2>5. DecodedNonce(stream).ok
    BY <2>1, <2>4, <1>3, <1>6, DecodedNonceIs, Zenon
  <2>6. QED
    BY <2>5
<1>10. QED
  BY <1>6, <1>8, <1>9, Zenon DEF Form

\* A well-formed item within the size limit is read when it is its turn.
THEOREM WellFormedIsRead == StreamSpec => []WholeItemsAreRead
BY StreamInductive, WholeItemsFollow, PTL

\* A key that was just read.
LEMMA LastRead ==
  ASSUME StreamIInv, read # << >>, Last(read).kind = "key"
  PROVE  \E codec \in Nat, comment \in Seq(Nat), pairs \in PairSeqs :
           Last(read).value = KeyOf(codec, comment, pairs) /\ Readable(codec, comment, pairs)
<1>1. Len(read) \in 1 .. Len(read)
  <2>1. PICK S : read \in Seq(S)
    BY Zenon DEF StreamIInv, IsSeq
  <2>2. Len(read) \in Nat \ {0}
    BY <2>1, EmptySeq
  <2>3. QED
    BY <2>2
<1>2. WithinLimits(Last(read))
  BY <1>1, Zenon DEF StreamIInv, ReadSoFar, Last
<1>3. QED
  BY <1>2, Zenon DEF WithinLimits

LEMMA TravelFollows == StreamIInv => ReadItemsTravel
<1> DEFINE k == Last(read).value
<1>1. SUFFICES ASSUME StreamIInv, read # << >>, Last(read).kind = "key"
               PROVE  DecodedKey(EncodedKey(k) \o stream) = Accepted(k, stream)
  BY Zenon DEF ReadItemsTravel
<1>2. PICK codec \in Nat, comment \in Seq(Nat), pairs \in PairSeqs :
        k = KeyOf(codec, comment, pairs) /\ Readable(codec, comment, pairs)
  BY <1>1, LastRead, Zenon
<1> HIDE DEF k
<1> DEFINE p == Pairs(k)
           full == EncodedKey(k)
           s == full \o stream
<1>3. DOMAIN k.attributes \subseteq AttrIds /\ Readable(codec, comment, p)
  BY <1>2, StaysReadable, Zenon
<1>4. /\ p \in PairSeqs
      /\ full = KeyUnits(codec, comment, p) /\ KeyOf(codec, comment, p) = k
  <2>1. NoneTwice(pairs)
    BY <1>2, Zenon DEF Readable
  <2>2. QED
    BY <2>1, <1>2, <1>3, InOrderSame, Zenon
<1> HIDE DEF p, full
<1>5. full \in Seq(Nat)
  BY <1>4, KeyUnitsAre, Zenon DEF HasParts
<1>6. stream \in Seq(Nat)
  BY <1>1, AtHead, Zenon
<1>7. /\ Len(full) <= Len(s) /\ SubSeq(s, Len(full) + 1, Len(s)) = stream
      /\ \A j \in 1 .. Len(full) : s[j] = full[j]
  BY <1>5, <1>6, Prefixed, Zenon
<1>8. s \in Seq(Nat) /\ Len(full) \in Nat
  BY <1>5, <1>6
<1> HIDE DEF s
<1>9. Holds(s, 0, full)
  <2>1. \A j \in 1 .. Len(full) : 0 + j = j
    BY <1>8
  <2>2. QED
    BY <2>1, <1>7, Zenon DEF Holds
<1>10. DecodedKey(s) = Accepted(k, stream)
  BY <1>3, <1>4, <1>7, <1>8, <1>9, DecodedKeyIs, Zenon
<1>11. QED
  BY <1>10 DEF s, full

\* A key that was read is read again from its own encoding.
THEOREM SentOn == StreamSpec => []ReadItemsTravel
BY StreamInductive, TravelFollows, PTL

\* A name stands for the attribute that has it.
LEMMA NameOfIds ==
  \A id \in AttrIds : AsStr(id) \in ToSet(AttrNames) /\ FromStr(AsStr(id)) = id
<1>1. AttrIds = 0 .. 29 /\ DOMAIN AttrNames = 1 .. 30
  BY DEF AttrIds, AttrNames
<1>2. ASSUME NEW a \in AttrIds, NEW b \in AttrIds, AsStr(a) = AsStr(b) PROVE a = b
  <2>1. a + 1 \in 1 .. 30 /\ b + 1 \in 1 .. 30 /\ a \in Nat /\ b \in Nat
    BY <1>1
  <2>2. AttrNames[a + 1] = AttrNames[b + 1]
    BY <1>2, Zenon DEF AsStr
  <2>3. a + 1 = b + 1
    BY <2>1, <2>2, NamesApart, Zenon
  <2>4. QED
    BY <2>1, <2>3
<1>3. ASSUME NEW id \in AttrIds PROVE AsStr(id) \in ToSet(AttrNames)
  <2>1. id + 1 \in DOMAIN AttrNames
    BY <1>1
  <2>2. QED
    BY <2>1, Zenon DEF AsStr, ToSet
<1>4. ASSUME NEW id \in AttrIds PROVE FromStr(AsStr(id)) = id
  <2>1. FromStr(AsStr(id)) \in AttrIds /\ AsStr(FromStr(AsStr(id))) = AsStr(id)
    BY Zenon DEF FromStr
  <2>2. QED
    BY <2>1, <1>2, Zenon
<1>5. QED
  BY <1>3, <1>4, Zenon

NamedPairs(k) == [i \in DOMAIN Pairs(k) |-> <<AsStr(Pairs(k)[i][1]), Pairs(k)[i][2]>>]

AttributesOf(pairs) ==
  [id \in {FromStr(pairs[i][1]) : i \in DOMAIN pairs} |->
    pairs[CHOOSE i \in DOMAIN pairs : FromStr(pairs[i][1]) = id][2]]

\* The named pairs give the attributes back.
LEMMA NamedPairsAre ==
  ASSUME NEW k, AreAttributes(k.attributes)
  PROVE  NamesOnce(NamedPairs(k)) /\ AttributesOf(NamedPairs(k)) = k.attributes
<1> DEFINE p == Pairs(k)
           n == Len(p)
           q == NamedPairs(k)
           a == k.attributes
           ids == {FromStr(q[i][1]) : i \in DOMAIN q}
           at(id) == CHOOSE i \in DOMAIN q : FromStr(q[i][1]) = id
<1>1. p \in PairSeqs /\ IsTable(a, p, n)
  BY PairsAre, Zenon
<1>2. DOMAIN a \subseteq AttrIds
  BY Zenon DEF AreAttributes
<1>3. q = [i \in DOMAIN p |-> <<AsStr(p[i][1]), p[i][2]>>]
  BY Zenon DEF NamedPairs
<1> HIDE DEF p, q, a
<1>4. DOMAIN p = 1 .. n
  BY <1>1 DEF PairSeqs
<1> HIDE DEF n
<1>5. /\ DOMAIN a = {p[i][1] : i \in 1 .. n} /\ a = [id \in DOMAIN a |-> a[id]]
      /\ \A i \in 1 .. n : a[p[i][1]] = p[i][2]
      /\ \A i, j \in 1 .. n : p[i][1] = p[j][1] => i = j
  BY <1>1, Zenon DEF IsTable
<1>6. DOMAIN q = 1 .. n
  BY <1>3, <1>4, Zenon
<1>7. ASSUME NEW i \in 1 .. n
      PROVE  /\ q[i][1] \in ToSet(AttrNames) /\ FromStr(q[i][1]) = p[i][1]
             /\ q[i][2] = p[i][2]
  <2>1. q[i] = <<AsStr(p[i][1]), p[i][2]>>
    BY <1>3, <1>4, Zenon
  <2>2. q[i][1] = AsStr(p[i][1]) /\ q[i][2] = p[i][2]
    BY <2>1
  <2>3. p[i][1] \in AttrIds
    BY <1>2, <1>5, Zenon
  <2>4. QED
    BY <2>2, <2>3, NameOfIds, Zenon
<1>8. ASSUME NEW i \in 1 .. n, NEW j \in 1 .. n, q[i][1] = q[j][1] PROVE i = j
  <2>1. FromStr(q[i][1]) = p[i][1] /\ FromStr(q[j][1]) = p[j][1]
    BY <1>7, Zenon
  <2>2. FromStr(q[i][1]) = FromStr(q[j][1])
    BY <1>8, Zenon
  <2>3. p[i][1] = p[j][1]
    BY <2>1, <2>2, Zenon
  <2>4. QED
    BY <2>3, <1>5, Zenon
<1>9. NamesOnce(q)
  BY <1>6, <1>7, <1>8, Zenon DEF NamesOnce
<1>10. ids = DOMAIN a
  <2>1. ids = {FromStr(q[i][1]) : i \in 1 .. n}
    BY <1>6, Zenon
  <2>2. \A i \in 1 .. n : FromStr(q[i][1]) = p[i][1]
    BY <1>7, Zenon
  <2>3. {FromStr(q[i][1]) : i \in 1 .. n} = {p[i][1] : i \in 1 .. n}
    BY <2>2
  <2>4. QED
    BY <2>1, <2>3, <1>5, Zenon
<1>11. ASSUME NEW id \in ids PROVE q[at(id)][2] = a[id]
  <2>1. at(id) \in DOMAIN q /\ FromStr(q[at(id)][1]) = id
    BY Zenon
  <2> DEFINE j == at(id)
  <2> HIDE DEF j
  <2>2. j \in 1 .. n /\ FromStr(q[j][1]) = id
    BY <2>1, <1>6, Zenon DEF j
  <2>3. p[j][1] = id /\ q[j][2] = p[j][2]
    BY <2>2, <1>7, Zenon
  <2>4. q[j][2] = a[id]
    BY <2>2, <2>3, <1>5, Zenon
  <2>5. QED
    BY <2>4 DEF j
<1> HIDE DEF at, ids
<1>12. [id \in ids |-> q[at(id)][2]] = a
  <2>1. [id \in ids |-> q[at(id)][2]] = [id \in ids |-> a[id]]
    BY <1>11
  <2>2. [id \in ids |-> a[id]] = a
    BY <1>5, <1>10, Zenon
  <2>3. QED
    BY <2>1, <2>2, Zenon
<1>13. QED
  BY <1>9, <1>12, Zenon DEF q, a, at, ids, AttributesOf

\* A document has three fields.
LEMMA ThreeFields == Cardinality(FieldNames) = 3
<1>1. IsFiniteSet({"codec"}) /\ Cardinality({"codec"}) = 1
  BY FS_Singleton, Zenon
<1>2. IsFiniteSet({"codec"} \cup {"comment"}) /\ Cardinality({"codec"} \cup {"comment"}) = 2
  <2>1. "comment" \notin {"codec"}
    OBVIOUS
  <2>2. QED
    BY <1>1, <2>1, FS_AddElement
<1>3. Cardinality(({"codec"} \cup {"comment"}) \cup {"attributes"}) = 3
  <2>1. "attributes" \notin ({"codec"} \cup {"comment"})
    OBVIOUS
  <2>2. QED
    BY <1>2, <2>1, FS_AddElement
<1>4. FieldNames = ({"codec"} \cup {"comment"}) \cup {"attributes"}
  BY DEF FieldNames
<1>5. QED
  BY <1>3, <1>4

\* A document with its three fields in any order gives the key back, and with
\* other fields nothing.
LEMMA DocumentReads ==
  ASSUME NEW k, k = [codec |-> k.codec, comment |-> k.comment, attributes |-> k.attributes],
         AreAttributes(k.attributes),
         NEW fields \in BoundedSeq(1 .. 3, 4)
  PROVE  LET r == KeyOfDocument([i \in DOMAIN fields |-> Document(k)[fields[i]]])
         IN  IF ToSet(fields) = 1 .. 3 /\ Len(fields) = 3 THEN r.ok /\ r.value = k ELSE ~ r.ok
<1> DEFINE doc == Document(k)
           d == [i \in DOMAIN fields |-> doc[fields[i]]]
           q == NamedPairs(k)
           names == {d[i].name : i \in DOMAIN d}
<1>1. PICK m \in 0 .. 4 : fields \in [1 .. m -> 1 .. 3]
  BY DEF BoundedSeq, SeqOf
<1>2. m \in Nat /\ DOMAIN fields = 1 .. m /\ Len(fields) = m
  BY <1>1
<1>3. doc = << [name |-> "codec", value |-> k.codec],
               [name |-> "comment", value |-> k.comment],
               [name |-> "attributes", value |-> q] >>
  BY Zenon DEF Document, NamedPairs
<1> HIDE DEF doc, q
<1>4. /\ doc[1].name = "codec" /\ doc[1].value = k.codec
      /\ doc[2].name = "comment" /\ doc[2].value = k.comment
      /\ doc[3].name = "attributes" /\ doc[3].value = q
  BY <1>3
<1>5. DOMAIN d = 1 .. m /\ Len(d) = m /\ \A i \in 1 .. m : d[i] = doc[fields[i]] /\ fields[i] \in 1 .. 3
  BY <1>1, <1>2
<1> HIDE DEF d
<1>6. ASSUME NEW i \in 1 .. m
      PROVE  /\ d[i].name \in FieldNames
             /\ d[i].name = "codec" <=> fields[i] = 1
             /\ d[i].name = "comment" <=> fields[i] = 2
             /\ d[i].name = "attributes" <=> fields[i] = 3
  <2>1. fields[i] = 1 \/ fields[i] = 2 \/ fields[i] = 3
    BY <1>5
  <2>2. d[i] = doc[fields[i]]
    BY <1>5
  <2>3. QED
    BY <2>1, <2>2, <1>4 DEF FieldNames
<1>7. names = FieldNames <=> ToSet(fields) = 1 .. 3
  <2>1. names = {d[i].name : i \in 1 .. m} /\ ToSet(fields) = {fields[i] : i \in 1 .. m}
    BY <1>2, <1>5, Zenon DEF ToSet
  <2>2. names \subseteq FieldNames /\ ToSet(fields) \subseteq 1 .. 3
    <3>1. names \subseteq FieldNames
      BY <2>1, <1>6, Zenon
    <3>2. \A i \in 1 .. m : fields[i] \in 1 .. 3
      BY <1>5, Zenon
    <3>3. ASSUME NEW x \in ToSet(fields)
          PROVE  x \in 1 .. 3
      <4>1. PICK i \in 1 .. m : x = fields[i]
        BY <2>1, Zenon
      <4>2. QED
        BY <4>1, <3>2, Zenon
    <3>4. QED
      BY <3>1, <3>3, Zenon
  <2>3. /\ "codec" \in names <=> 1 \in ToSet(fields)
        /\ "comment" \in names <=> 2 \in ToSet(fields)
        /\ "attributes" \in names <=> 3 \in ToSet(fields)
    <3>1. /\ \A name : name \in names <=> \E i \in 1 .. m : d[i].name = name
          /\ \A j : j \in ToSet(fields) <=> \E i \in 1 .. m : fields[i] = j
      BY <2>1, Zenon
    <3> HIDE DEF names
    <3>2. "codec" \in names <=> 1 \in ToSet(fields)
      <4>1. \A i \in 1 .. m : d[i].name = "codec" <=> fields[i] = 1
        BY <1>6, Zenon
      <4>2. "codec" \in names <=> \E i \in 1 .. m : d[i].name = "codec"
        BY <3>1, Zenon
      <4>3. 1 \in ToSet(fields) <=> \E i \in 1 .. m : fields[i] = 1
        BY <3>1, Zenon
      <4>4. (\E i \in 1 .. m : d[i].name = "codec") <=> \E i \in 1 .. m : fields[i] = 1
        BY <4>1, Zenon
      <4>5. QED
        BY <4>2, <4>3, <4>4, Zenon
    <3>3. "comment" \in names <=> 2 \in ToSet(fields)
      <4>1. \A i \in 1 .. m : d[i].name = "comment" <=> fields[i] = 2
        BY <1>6, Zenon
      <4>2. "comment" \in names <=> \E i \in 1 .. m : d[i].name = "comment"
        BY <3>1, Zenon
      <4>3. 2 \in ToSet(fields) <=> \E i \in 1 .. m : fields[i] = 2
        BY <3>1, Zenon
      <4>4. (\E i \in 1 .. m : d[i].name = "comment") <=> \E i \in 1 .. m : fields[i] = 2
        BY <4>1, Zenon
      <4>5. QED
        BY <4>2, <4>3, <4>4, Zenon
    <3>4. "attributes" \in names <=> 3 \in ToSet(fields)
      <4>1. \A i \in 1 .. m : d[i].name = "attributes" <=> fields[i] = 3
        BY <1>6, Zenon
      <4>2. "attributes" \in names <=> \E i \in 1 .. m : d[i].name = "attributes"
        BY <3>1, Zenon
      <4>3. 3 \in ToSet(fields) <=> \E i \in 1 .. m : fields[i] = 3
        BY <3>1, Zenon
      <4>4. (\E i \in 1 .. m : d[i].name = "attributes") <=> \E i \in 1 .. m : fields[i] = 3
        BY <4>1, Zenon
      <4>5. QED
        BY <4>2, <4>3, <4>4, Zenon
    <3>5. QED
      BY <3>2, <3>3, <3>4, Zenon
  <2> HIDE DEF names
  <2>4. names = FieldNames <=> "codec" \in names /\ "comment" \in names /\ "attributes" \in names
    BY <2>2 DEF FieldNames
  <2>5. ToSet(fields) = 1 .. 3 <=> 1 \in ToSet(fields) /\ 2 \in ToSet(fields) /\ 3 \in ToSet(fields)
    BY <2>2
  <2>6. QED
    BY <2>3, <2>4, <2>5, Zenon
<1>8. HasFieldsOnce(d) <=> ToSet(fields) = 1 .. 3 /\ Len(fields) = 3
  BY <1>2, <1>5, <1>7, ThreeFields, Zenon DEF HasFieldsOnce
<1>9. CASE ~ (ToSet(fields) = 1 .. 3 /\ Len(fields) = 3)
  <2>1. KeyOfDocument(d) = Refused
    BY <1>8, <1>9, Zenon DEF KeyOfDocument
  <2>2. ~ KeyOfDocument(d).ok
    BY <2>1 DEF Refused
  <2>3. QED
    BY <2>2, <1>9, Zenon DEF d, doc
<1>10. CASE ToSet(fields) = 1 .. 3 /\ Len(fields) = 3
  <2>1. /\ \E i \in 1 .. m : fields[i] = 1
        /\ \E i \in 1 .. m : fields[i] = 2
        /\ \E i \in 1 .. m : fields[i] = 3
    <3>1. 1 \in ToSet(fields) /\ 2 \in ToSet(fields) /\ 3 \in ToSet(fields)
      BY <1>10
    <3>2. ToSet(fields) = {fields[i] : i \in 1 .. m}
      BY <1>2, Zenon DEF ToSet
    <3>3. QED
      BY <3>1, <3>2, Zenon
  <2>2. Field(d, "codec") \in 1 .. m /\ d[Field(d, "codec")].name = "codec"
    <3>1. \E i \in DOMAIN d : d[i].name = "codec"
      <4>1. PICK i \in 1 .. m : fields[i] = 1
        BY <2>1, Zenon
      <4>2. d[i].name = "codec"
        BY <4>1, <1>6, Zenon
      <4>3. i \in DOMAIN d
        BY <1>5, Zenon
      <4>4. QED
        BY <4>2, <4>3, Zenon
    <3>2. QED
      BY <3>1, <1>5, Zenon DEF Field
  <2>3. Field(d, "comment") \in 1 .. m /\ d[Field(d, "comment")].name = "comment"
    <3>1. \E i \in DOMAIN d : d[i].name = "comment"
      <4>1. PICK i \in 1 .. m : fields[i] = 2
        BY <2>1, Zenon
      <4>2. d[i].name = "comment"
        BY <4>1, <1>6, Zenon
      <4>3. i \in DOMAIN d
        BY <1>5, Zenon
      <4>4. QED
        BY <4>2, <4>3, Zenon
    <3>2. QED
      BY <3>1, <1>5, Zenon DEF Field
  <2>4. Field(d, "attributes") \in 1 .. m /\ d[Field(d, "attributes")].name = "attributes"
    <3>1. \E i \in DOMAIN d : d[i].name = "attributes"
      <4>1. PICK i \in 1 .. m : fields[i] = 3
        BY <2>1, Zenon
      <4>2. d[i].name = "attributes"
        BY <4>1, <1>6, Zenon
      <4>3. i \in DOMAIN d
        BY <1>5, Zenon
      <4>4. QED
        BY <4>2, <4>3, Zenon
    <3>2. QED
      BY <3>1, <1>5, Zenon DEF Field
  <2>5. /\ d[Field(d, "codec")].value = k.codec
        /\ d[Field(d, "comment")].value = k.comment
        /\ d[Field(d, "attributes")].value = q
    <3>1. /\ d[Field(d, "codec")] = doc[1]
          /\ d[Field(d, "comment")] = doc[2]
          /\ d[Field(d, "attributes")] = doc[3]
      <4>1. /\ fields[Field(d, "codec")] = 1
            /\ fields[Field(d, "comment")] = 2
            /\ fields[Field(d, "attributes")] = 3
        <5>1. fields[Field(d, "codec")] = 1
          BY <2>2, <1>6, Zenon
        <5>2. fields[Field(d, "comment")] = 2
          BY <2>3, <1>6, Zenon
        <5>3. fields[Field(d, "attributes")] = 3
          BY <2>4, <1>6, Zenon
        <5>4. QED
          BY <5>1, <5>2, <5>3
      <4>2. \A i \in 1 .. m : d[i] = doc[fields[i]]
        BY <1>5, Zenon
      <4>3. QED
        BY <2>2, <2>3, <2>4, <4>1, <4>2, Zenon
    <3>2. QED
      BY <3>1, <1>4, Zenon
  <2>6. NamesOnce(q) /\ AttributesOf(q) = k.attributes
    BY NamedPairsAre, Zenon DEF q
  <2>7. KeyOfDocument(d) = Accepted([codec |-> d[Field(d, "codec")].value,
                                     comment |-> d[Field(d, "comment")].value,
                                     attributes |-> AttributesOf(d[Field(d, "attributes")].value)], << >>)
    BY <2>5, <2>6, <1>8, <1>10, Zenon DEF KeyOfDocument, AttributesOf
  <2>8. KeyOfDocument(d) = Accepted(k, << >>)
    BY <2>5, <2>6, <2>7, Zenon
  <2>9. KeyOfDocument(d).ok /\ KeyOfDocument(d).value = k
    BY <2>8 DEF Accepted
  <2>10. QED
    BY <2>9, <1>10, Zenon DEF d, doc
<1>11. QED
  BY <1>9, <1>10

LEMMA DocumentsFollow == StreamIInv => DocumentsAgree
<1> DEFINE k == Last(read).value
<1>1. SUFFICES ASSUME StreamIInv, read # << >>, Last(read).kind = "key",
                      NEW fields \in BoundedSeq(1 .. 3, 4)
               PROVE  LET r == KeyOfDocument([i \in DOMAIN fields |-> Document(k)[fields[i]]])
                      IN  IF ToSet(fields) = 1 .. 3 /\ Len(fields) = 3
                          THEN r.ok /\ r.value = k ELSE ~ r.ok
  BY Zenon DEF DocumentsAgree
<1>2. PICK codec \in Nat, comment \in Seq(Nat), pairs \in PairSeqs :
        k = KeyOf(codec, comment, pairs) /\ Readable(codec, comment, pairs)
  BY <1>1, LastRead, Zenon
<1> HIDE DEF k
<1>3. DOMAIN k.attributes \subseteq AttrIds /\ NoneTwice(pairs)
  BY <1>2, StaysReadable, Zenon DEF Readable
<1>4. IsTable(k.attributes, pairs, Len(pairs)) /\ k.codec = codec /\ k.comment = comment
  <2> DEFINE key == KeyOf(codec, comment, pairs)
  <2>1. key.codec = codec /\ key.comment = comment /\ IsTable(key.attributes, pairs, Len(pairs))
    BY <1>3, KeyOfParts, Zenon
  <2>2. key = k
    BY <1>2, Zenon
  <2> HIDE DEF key
  <2>3. QED
    BY <2>1, <2>2, Zenon
<1>5. AreAttributes(k.attributes)
  BY <1>3, <1>4, TableGood, Zenon
<1>6. k = [codec |-> k.codec, comment |-> k.comment, attributes |-> k.attributes]
  <2>1. KeyOf(codec, comment, pairs) =
          [codec |-> codec, comment |-> comment, attributes |-> k.attributes]
    BY <1>4, KeyOfIs, Zenon
  <2>2. QED
    BY <2>1, <1>2, <1>4, Zenon
<1>7. QED
  BY <1>5, <1>6, DocumentReads, Zenon DEF k

\* The document of a key that was read gives the key, and no other number or
\* choice of its fields does (Serialize and Deserialize for Multikey).
THEOREM FormsAgree == StreamSpec => []DocumentsAgree
BY StreamInductive, DocumentsFollow, PTL


=============================================================================
