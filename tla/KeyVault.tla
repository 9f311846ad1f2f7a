------------------------------- MODULE KeyVault -------------------------------
(***************************************************************************)
(* Keys encrypted at rest: the ChaCha20-Poly1305 CipherView                *)
(* (src/src/views/chacha20.rs), the bcrypt KdfView                         *)
(* (src/src/views/bcrypt.rs) and the builders of the two parameter keys    *)
(* (src/src/cipher.rs, src/src/kdf.rs).                                    *)
(*                                                                         *)
(* A vault stores one Multikey per name.  Callers encrypt a key with any   *)
(* cipher Multikey they have derived, decrypt it with any, or rebuild the  *)
(* cipher Multikey from what the stored key says of itself and a           *)
(* passphrase.  The AEAD is perfect: a layer opens under the key and the   *)
(* nonce that made it and no other; bcrypt is injective.                   *)
(***************************************************************************)
EXTENDS Naturals, Sequences, FiniteSets

CONSTANTS
  Names,        \* the vault's entries
  StartKeys,    \* the Multikeys that are put into the vault
  Passphrases, Salts, Nonces,
  Absent,       \* an attribute that is not there
  MaxLayers     \* bound: encryptions of one key on top of each other

(***************************************************************************)
(* View families.  These read the KeyIsEncrypted attribute in              *)
(* AttrView::is_encrypted; the views of the others answer false for every  *)
(* key.                                                                    *)
(***************************************************************************)
AwareFamilies == {"Bls12381", "Chacha20", "Ed25519", "NistP", "Rsa", "Secp256k1"}

OtherFamilies == {"FnDsa", "MlDsa", "Mayo", "SlhDsa", "MlKem", "Sntrup", "FrodoKem",
                  "ClassicMceliece", "Lamport", "LamportMerkle", "Xmss", "X25519",
                  "XEdDsa", "Hybrid"}

Families == AwareFamilies \cup OtherFamilies

\* One encryption of the key bytes: what bcrypt derived, and the nonce.
DerivedKeys == [pass : Passphrases, salt : Salts]
Layers      == [key : DerivedKeys, nonce : Nonces]

(***************************************************************************)
(* A Multikey: its secret and the encryptions around it, outermost first,  *)
(* stand for KeyData.  The cipher attributes (CipherCodec, CipherKeyLen,   *)
(* CipherNonce) are written and removed together, and so are the KDF's     *)
(* (KdfCodec, KdfSalt, KdfRounds): each triple is one field.               *)
(***************************************************************************)
Multikeys == [family    : Families,
              role      : {"Secret", "Public"},
              layers    : Seq(Layers),
              encrypted : BOOLEAN,
              nonce     : Nonces \cup {Absent},
              salt      : Salts \cup {Absent}]

\* The cipher Multikeys there can be, KeyData under `key`: derive_key records
\* the salt it used; a key built from raw bytes has no salt, and one made
\* without a nonce has none.
CipherKeys == {c \in [key   : DerivedKeys,
                      nonce : Nonces \cup {Absent},
                      salt  : Salts \cup {Absent}] : c.salt \in {c.key.salt, Absent}}

ASSUME VaultConstants ==
  /\ Absent \notin Passphrases /\ Absent \notin Salts /\ Absent \notin Nonces
  /\ \A k \in StartKeys :
       /\ k \in Multikeys
       /\ k.layers = <<>> /\ ~ k.encrypted
       /\ k.family = "Chacha20" => k.role = "Secret"
  /\ MaxLayers \in Nat

(***************************************************************************)
(* Views.                                                                  *)
(***************************************************************************)
IsEncrypted(k) == k.family \in AwareFamilies /\ k.encrypted

IsSecretKey(k) == k.role = "Secret"

\* DataView::secret_bytes succeeds.
HasSecretBytes(k) == IsSecretKey(k) /\ ~ IsEncrypted(k)

\* KdfView::derive_key on a cipher key with a nonce, under a KDF key with a
\* salt; rounds are part of the salt's value.
Derived(pass, salt, nonce) ==
  [key |-> [pass |-> pass, salt |-> salt], nonce |-> nonce, salt |-> salt]

\* The cipher key rebuilt from an encrypted Multikey: cipher::Builder and
\* kdf::Builder try_from_multikey, then derive_key.
CipherOf(k, pass) == Derived(pass, k.salt, k.nonce)

\* Mutant of CanEncrypt: the view's word on encryption is not asked for.
CanEncryptTwice(k, c) == c.nonce # Absent /\ IsSecretKey(k) /\ c.salt # Absent

\* CipherView::encrypt succeeds.  The KDF attributes of the cipher key are
\* needed because they are copied onto the result.
CanEncrypt(k, c) ==
  /\ ~ IsEncrypted(k)
  /\ c.nonce # Absent
  /\ HasSecretBytes(k)
  /\ c.salt # Absent

\* Mutant of Encrypted: the nonce of the cipher key is not recorded.
EncryptedNoNonce(k, c) ==
  [family    |-> k.family,
   role      |-> k.role,
   layers    |-> <<[key |-> c.key, nonce |-> c.nonce]>> \o k.layers,
   encrypted |-> TRUE,
   nonce     |-> k.nonce,
   salt      |-> c.salt]

\* CipherView::encrypt: the result states the cipher, its nonce and the KDF.
Encrypted(k, c) ==
  [family    |-> k.family,
   role      |-> k.role,
   layers    |-> <<[key |-> c.key, nonce |-> c.nonce]>> \o k.layers,
   encrypted |-> TRUE,
   nonce     |-> c.nonce,
   salt      |-> c.salt]

\* Mutant of CanDecrypt: the tag is not checked, as with the bare stream cipher.
CanDecryptAnyhow(k, c) == IsEncrypted(k) /\ IsSecretKey(k) /\ c.nonce # Absent

\* CipherView::decrypt succeeds: the view says that the key is encrypted, and
\* the outermost layer opens under the cipher key.  The nonce is the cipher
\* key's, whatever the encrypted key has.
CanDecrypt(k, c) ==
  /\ IsEncrypted(k)
  /\ IsSecretKey(k)
  /\ c.nonce # Absent
  /\ k.layers # <<>>
  /\ Head(k.layers) = [key |-> c.key, nonce |-> c.nonce]

\* Mutant of Decrypted: the KDF attributes stay.
DecryptedKeepKdf(k) ==
  [family    |-> k.family,
   role      |-> k.role,
   layers    |-> Tail(k.layers),
   encrypted |-> FALSE,
   nonce     |-> Absent,
   salt      |-> k.salt]

\* CipherView::decrypt: none of the cipher and KDF attributes is left.
Decrypted(k) ==
  [family    |-> k.family,
   role      |-> k.role,
   layers    |-> Tail(k.layers),
   encrypted |-> FALSE,
   nonce     |-> Absent,
   salt      |-> Absent]

(***************************************************************************)
(* The vault.                                                              *)
(***************************************************************************)
VARIABLES
  store,     \* store[n]: the Multikey under name n
  original,  \* history: original[n] as it was put in
  lockedBy,  \* history: the passphrase of the last encryption of n
  openedBy   \* history: the passphrase of the last decryption of n

vars == <<store, original, lockedBy, openedBy>>

Init ==
  /\ store \in [Names -> StartKeys]
  /\ original = store
  /\ lockedBy = [n \in Names |-> Absent]
  /\ openedBy = [n \in Names |-> Absent]

\* A caller encrypts a key with a cipher key it has, and stores the result.
Encrypt(n, c) ==
  /\ Len(store[n].layers) < MaxLayers
  /\ CanEncrypt(store[n], c)
  /\ store' = [store EXCEPT ![n] = Encrypted(store[n], c)]
  /\ lockedBy' = [lockedBy EXCEPT ![n] = c.key.pass]
  /\ UNCHANGED <<original, openedBy>>

\* A caller decrypts a key with a cipher key it has, which need not be one
\* that was made for it.
Decrypt(n, c) ==
  /\ CanDecrypt(store[n], c)
  /\ store' = [store EXCEPT ![n] = Decrypted(store[n])]
  /\ openedBy' = [openedBy EXCEPT ![n] = c.key.pass]
  /\ UNCHANGED <<original, lockedBy>>

\* A caller decrypts a key with a passphrase and what the key says of itself.
Unlock(n, pass) ==
  /\ store[n].nonce # Absent
  /\ store[n].salt # Absent
  /\ Decrypt(n, CipherOf(store[n], pass))

Next ==
  \/ \E n \in Names, c \in CipherKeys : Encrypt(n, c)
  \/ \E n \in Names, c \in CipherKeys : Decrypt(n, c)
  \/ \E n \in Names, pass \in Passphrases : Unlock(n, pass)

Spec == Init /\ [][Next]_vars
-----------------------------------------------------------------------------
(***************************************************************************)
(* Properties.                                                             *)
(***************************************************************************)
Aware(n) == original[n].family \in AwareFamilies

\* Type correctness.
TypeOK ==
  /\ store \in [Names -> Multikeys]
  /\ original \in [Names -> StartKeys]
  /\ lockedBy \in [Names -> Passphrases \cup {Absent}]
  /\ openedBy \in [Names -> Passphrases \cup {Absent}]

\* An encrypted key of a family that reads the attribute describes how to open
\* itself: with the passphrase it was locked under, the cipher key rebuilt
\* from its attributes decrypts it, to the bare secret (encrypt's attributes
\* against try_from_multikey and decrypt).  Another passphrase does not.
OpensItself ==
  \A n \in Names :
    (Aware(n) /\ store[n].encrypted) =>
      \A pass \in Passphrases :
        CanDecrypt(store[n], CipherOf(store[n], pass)) <=> pass = lockedBy[n]

\* Whatever was encrypted and decrypted in between, an open key is the one put
\* in, apart from cipher and KDF attributes that it had of its own, which
\* decrypt removes; so one without them is the same to the last attribute.
OpenIsOriginal ==
  \A n \in Names :
    (Aware(n) /\ ~ store[n].encrypted) =>
      /\ store[n].family = original[n].family
      /\ store[n].role = original[n].role
      /\ store[n].layers = original[n].layers
      /\ store[n].nonce \in {original[n].nonce, Absent}
      /\ store[n].salt \in {original[n].salt, Absent}

\* Bytes are encrypted once at most, and a key says so exactly when they are:
\* secret_bytes never hands out a ciphertext.
OneLayer ==
  \A n \in Names :
    Aware(n) => /\ Len(store[n].layers) <= 1
                /\ IsEncrypted(store[n]) <=> store[n].layers # <<>>

\* An open key of an aware family, as it was put in or without the cipher and
\* KDF attributes that decrypt removes.
OpenForms(k) ==
  {k, [family |-> k.family, role |-> k.role, layers |-> k.layers, encrypted |-> FALSE,
       nonce |-> Absent, salt |-> Absent]}

\* The key that encryption by this passphrase, salt and nonce leaves.
LockedForm(k, pass, salt, nonce) ==
  [family |-> k.family, role |-> k.role,
   layers |-> <<[key |-> [pass |-> pass, salt |-> salt], nonce |-> nonce]>>,
   encrypted |-> TRUE, nonce |-> nonce, salt |-> salt]

\* The inductive invariant: an aware entry is open, or is a secret key under
\* one layer whose parameters are those it states and whose passphrase is the
\* last one used.
IInv ==
  /\ TypeOK
  /\ \A n \in Names : /\ store[n].family = original[n].family
                      /\ store[n].role = original[n].role
  /\ \A n \in Names :
       Aware(n) =>
         \/ store[n] \in OpenForms(original[n])
         \/ /\ original[n].role = "Secret"
            /\ lockedBy[n] \in Passphrases
            /\ \E salt \in Salts, nonce \in Nonces :
                 store[n] = LockedForm(original[n], lockedBy[n], salt, nonce)

\* Every entry is a lockbox, locked while its view says that it is encrypted,
\* and only the passphrase it was locked under opens it.  (An entry of a family
\* that does not read the attribute is never seen as locked, nor opened.)
Boxes == INSTANCE Lockbox WITH
  Open <- Absent,
  lock <- [n \in Names |-> IF IsEncrypted(store[n]) THEN lockedBy[n] ELSE Absent],
  opened <- openedBy

LocksAndOpens == Boxes!Spec

\* What AttrView::is_encrypted is documented to answer, of every family.
EncryptedIsKnown ==
  \A n \in Names : store[n].layers # <<>> => IsEncrypted(store[n])
=============================================================================
