# A verification project for multi-key

TLA+ models of the `multi-key` crate, the runs that model-check them with TLC, and theorems
about them with proofs that TLAPS checks. Source paths below are relative to the repository,
which lies under `src/` (so the crate's own Rust code is in `src/src/`).

Contents: [the system](#1-the-system), [modules and code](#2-modules-and-the-code-they-model),
[runs](#3-runs), [fairness](#4-fairness), [proofs](#5-proofs),
[divergences found](#6-where-code-and-documentation-differ),
[what is only model-checked](#7-what-is-only-model-checked),
[what is not modelled](#8-what-is-not-modelled), [plan](#9-plan).

## 1. The system

`multi-key` represents every kind of cryptographic key as one value, a *Multikey*: a codec, a
comment, and a map from attribute identifiers to bytes. What can be done with a key is offered by
*views*: small objects that borrow a Multikey and implement one capability (sign, verify, encrypt,
split, ...) for one family of codecs. No view mutates its Multikey. An operation that "changes" a
key returns a new Multikey, and whether the old one is replaced is up to the caller.

The crate has no threads, locks, I/O, timers or retries of its own. What is hard about it comes
from sequences of calls and from what callers do between them:

- a stateful signing key is only safe if the advanced copy is persisted before the signature
  leaves, by several signers and through crashes;
- an attribute written by one call is read, much later and in another process, by another (the
  parameters of an encryption, t and n of a share, the depth of a tree);
- an accumulator is rebuilt around a growing payload by every call, and any field forgotten in a
  rebuild is lost;
- shares, ciphertexts and keys meet each other in every order, damaged or from elsewhere;
- two dozen families implement the same traits apart from each other, and a key goes from one form
  to another (public, encrypted, an SSH file, a share) in every order of calls: sign, verify,
  `to_public_key`, fingerprint and `is_encrypted` of a family must agree in all of them;
- a signature over attributes (the threshold marker) stays on a key whose attributes then change.

### Components

| Component | State | Operations | Interacts with | Correct when |
|---|---|---|---|---|
| Stateful signing keys, XMSS and Merkle-Lamport (`views/xmss.rs`, `views/lamport_merkle.rs`) | index of the next leaf and remaining secret blocks in `KeyData`; tree depth there and in the `Depth` attribute | `sign_advance`, `to_public_key`, `verify`, state accessors | the caller's storage; Builder makes the keys | no leaf signs two messages; a key is usable until spent; signatures verify under the key first published |
| Merkle-Lamport shares (same file) | a share of the state at the split's leaf | `split`, the share branch of `sign_advance` | multi-sig crate combines the signature shares | agreeing holders can always combine; a combined signature verifies |
| BLS12-381 shares (`views/bls12381.rs`) | share value and identifier; `ThresholdData` of an accumulator | `split`, `split_with_disclosure`, `add_share(_with_meta)`, `combine(_with_meta)` | threshold disclosure; at-rest encryption of shares | nothing accepted is lost; combine gives the split key or nothing |
| Threshold disclosure (`views/threshold_meta.rs`) | `Threshold`, `Limit`, mode, encrypted metadata | `disclosure_mode`, `read_threshold_params`, `stamp_disclosure_attrs`, `to_disclosure` | used by the BLS views and by Builder | t and n survive every conversion; a mode hides what it says |
| At-rest encryption (`views/chacha20.rs`, `views/bcrypt.rs`, `cipher.rs`, `kdf.rs`) | `KeyIsEncrypted`, cipher and KDF attributes, ciphertext under `KeyData` | `derive_key`, `encrypt`, `decrypt`, the parameter keys rebuilt from a Multikey | every family's `AttrView` and `DataView` | an encrypted key describes how to open it; no ciphertext passes for a secret |
| Generic key splitting (`keysplit.rs`) | share payload: t, n, scheme, value, commitments | `split`, `verify_share`, `combine` | every family's `secret_bytes` | enough undamaged shares give the key; a wrong key is explained |
| Wire forms (`mk.rs`, `nonce.rs`, `attrid.rs`, `serde/`) | a stream of bytes; a document of fields | encode, decode, serialise, deserialise | storage, other programs | what is read is what was written, and all that was whole is read |
| View dispatch and `ViewBuilder` (`views/dispatch.rs`, `views/builder.rs`) | registered factories | one lookup per view kind | every view | a codec without a built-in view is served by the factory registered last for it; built-in views win |
| Stateless signing views (`views/{ed25519,secp256k1,nist_p,rsa,bls12381,ml_dsa,fn_dsa,mayo,slh_dsa}.rs`) | none | `sign`, `verify`, `to_public_key`, fingerprint, SSH forms | dispatch; at-rest encryption; SSH | what a key signed verifies with all its forms, and nothing else does; one key has one fingerprint; an encrypted key does nothing |
| Hybrid signing views (`views/ed25519_*.rs`, `views/bls12381_g1_*.rs`) | none | the same, of two halves | the two schemes | the halves are of one call, over the right bytes |
| XEdDSA view (`views/xeddsa.rs`, `views/x25519.rs`) | none | `sign`, `verify` of 32-byte challenges | X25519 keys | as for the other signing views |
| One-time Lamport keys (`views/lamport.rs`) | none | `sign`, `verify`, `split` | the caller, who must sign once | as for the other signing views |
| Message sealing (`views/aead.rs`, KEM, ECDH, hybrid, RSA and BLS views) | ephemeral key, beside or inside the message | `seal`, `open` | AEAD, KDF | only the right key and ephemeral open a message, and it is the one that was sealed |
| Threshold marker (`views/threshold_marker.rs`) | group key, participants, marker signature | `set_*`, `sign_marker`, `verify_marker` | disclosure modes, Builder, the controller's signing view | a marker verifies only for what was signed; conversions do not break it for good |
| Key generation and SSH conversion (`mk.rs`) | none | `new_from_*`, `new_from_ssh_*` | every view | an imported key is the key that was exported |
| DKG attributes, wrappers, errors | attributes read | accessors | | read back as written |

## 2. Modules and the code they model

| Module | Role |
|---|---|
| `StatefulKeys` | operators: one per method of the XMSS and Merkle-Lamport views |
| `LeafKeystore` | signers, storage and crashes around `sign_advance` (EXTENDS `StatefulKeys`) |
| `LeafDispenser` | abstract specification that `LeafKeystore` implements |
| `ShareGroup` | owner and holders of a split Merkle-Lamport key (EXTENDS `StatefulKeys`) |
| `Disclosure` | operators: one per function of `threshold_meta.rs` |
| `BlsThreshold` | holders and collectors of BLS shares (EXTENDS `Disclosure`) |
| `KeyVault` | encryption and decryption of stored keys |
| `Lockbox` | abstract specification that `KeyVault` implements |
| `KeySplit` | splits, damaged storage and recombination |
| `MultikeyWire` | operators: encoders and decoders of the binary and document form |
| `KeyStream` | writers and a reader of a stream (EXTENDS `MultikeyWire`) |
| `Codecs` | families, roles and sets of codecs |
| `KeyForms` | Multikeys as the views see them, and what the signing views have in common (EXTENDS `Codecs`) |
| `ClassicalViews`, `PostQuantumViews`, `HybridViews` | one operator per call and family (EXTEND `KeyForms`) |
| `SealForms`, `SealViews` | the AEAD layer and the three shapes of sealing; `seal` and `open` per family |
| `Dispatch` | operators: one per function of `dispatch.rs` (EXTENDS `Codecs`) |
| `DispatchedViews` | the calls of the view traits: dispatch, then the family's operator |
| `SshKeys` | operators: one per arm of the import of SSH keys |
| `KeyViews` | a key on its way through its forms, and its signatures on theirs (EXTENDS `DispatchedViews`, `SshKeys`) |
| `ViewBuilder` | builders, registrations and the views built (EXTENDS `Dispatch`) |
| `Sealing` | sealed messages under way between holders (EXTENDS `DispatchedViews`) |
| `SealedBox` | abstract specification that `Sealing` implements |
| `ThresholdMarker` | Builder, marker and conversions of one controller's key (EXTENDS `DispatchedViews`, INSTANCE of `Disclosure`) |
| `MC*` | instances for TLC |
| `*_proof` | theorems and proofs |

The exact lines of every definition are in `PROJECT.json` under `map`. Some definitions are
external: they model what the crate's code relies on (the caller's storage, the multi-sig crate,
interpolation) from how the crate uses it.

### StatefulKeys, LeafKeystore

A key is a record of family, kind, key data (form, depth, next leaf, blocks left), `Depth`
attribute and the other attributes. `CanSignAdvance` is the conjunction of `sign_advance`'s early
returns, `SignatureOf` the Multisig it builds, `Advanced` the Multikey it rebuilds. XMSS and Merkle
keys differ as in the code: only Merkle keys carry and check the `Depth` attribute. Secrets and
hashes are left out; the eleven digest variants behave alike.

`LeafKeystore` is the protocol that `SignView::sign_advance` asks of its caller (`views.rs`
288-291): take the stored key, sign, persist the advanced key, give the signature out. `Load`,
`Persist` and `Release` are the caller's steps and are external. `SignAdvance` and `SignRefused`
are the two outcomes of the call, on the signer's *copy* of the key. `Crash` loses what a signer has
in memory at any point; stored keys and signatures already given out stay. The keystore may begin
with a key that a decoder accepts and a signer cannot use: with its depth attribute missing or wrong,
partly consumed, or with key data that does not parse.

### ShareGroup

`Split` gives every holder a share of the owner's state without consuming or advancing the owner's
key, as `ThresholdView::split` does. `HolderSign` is the `PrivShare` branch of `sign_advance`,
which does not advance the share and does not check the depth attribute. `Combine` is the
multi-sig crate's. `ReadShare` lets storage hand back a share with any depth attribute, since the
decoder accepts it.

### Disclosure, BlsThreshold

`Params` has the attributes the disclosure modes govern. `Stamped` follows
`stamp_disclosure_attrs`: clear five attributes, then write those of the target mode, with t and n
cast to 16 bits where they are encrypted. An accumulator is the Multikey that `add_share` rebuilds
each time: codec, t and n of the last share added, and the decoded threshold data as a function from
identifiers to shares. `EncryptShare` puts the at-rest encryption on a share, whose value then no
longer parses as a scalar, while its attributes stay readable; `add_share` accepts it and `combine`
refuses it. Two dealings of one key are two polynomials whose holders have the same identifiers.

### KeyVault

The key bytes are a secret with a sequence of encryption layers. `CanEncrypt`, `Encrypted`,
`CanDecrypt` and `Decrypted` are `CipherView::encrypt` and `decrypt` with every attribute they write
and remove. `CipherOf` rebuilds the cipher key from an encrypted key's attributes and a passphrase
(`cipher::Builder` and `kdf::Builder::try_from_multikey`, then `derive_key`). A family is *aware* when
its `AttrView::is_encrypted` reads `KeyIsEncrypted`; in the others it is the constant `false`.
The AEAD is perfect and bcrypt injective. The default build is modelled: the fallback to the bare
stream cipher is behind a feature that is off.

### KeySplit

A share payload has the fields of `SharePayload`. A point and a commitment carry the number of the
split they belong to and whether their bytes are as made; only the model sees these. `Verified` is
`verify_share`. `Combine` takes any subset of the shares in storage, and its result may be split
again. `Damage` adds a damaged copy of a share.

`HandsOutBytes` is what `secret_bytes` lets `split` have: an open secret, and also the ciphertext of an
encrypted key when the family's view does not read `KeyIsEncrypted` (`UnawareCodecs`). Of those,
`SchemeTakes` refuses the ones whose scheme needs a scalar or a seed of the right length, so that X25519
is refused and the post-quantum and hybrid keys, which are shared byte by byte, are split. `combine`
builds a key of codec and bytes only (`Rebuilt`): an open key comes back as it was, an encrypted one
in the form `Ciphertext`, of which nothing says any more that it is encrypted.

### MultikeyWire, KeyStream

A unit is a varint or a byte; both are numbers, since the wire has no tags. The decoders follow
`try_decode_from` step by step, with their limits, as a recursive function over the attributes. The
`KeyStream` writers are this crate, this crate dying after any number of units, and other programs
that write attributes in any order, twice, or unknown to this crate, unknown codecs, and comments
that are not text. The document form is serde's, with fields in any order, missing or repeated.
Varint widths, multibase text and UTF-8 are other crates' and left out.

### Codecs, Dispatch, ViewBuilder

A codec is a family and a role. The parameter sets of a family (curves, key sizes, digests), whose
arms differ in names and lengths only, are one family. `Dispatch` has one operator per function of
`dispatch.rs`, a table of codecs with the error that the function returns for the others; cipher and
KDF attributes look at the codec that the key *states*, the cipher and KDF views at a second key.
`ViewBuilder` follows `ViewBuilder::new`, the selectors of the seventeen kinds,
`with_local_codec` (a map insert) and `build`, which asks a factory only after the error that its
kind expects. The record `view` keeps the answer for the properties.

### KeyForms, the views, DispatchedViews

A Multikey is its family, role, the generation call its bytes come from (`origin`), whether it is
encrypted, and, for BLS shares, whether its threshold and limit can be read (the identifier always can,
and is all that `verify` with a public share asks for). An `Attr` record is what the family's
`AttrView` answers: the *aware* families read `KeyIsEncrypted`, the others answer `false` for every
key and stop only at the length of the ciphertext (`Parses`). On it stand the patterns that the
families repeat, `Derived`, `Fingerprint`, `PublicForm`, `SignedWith`, `VerifiesPlain`,
`VerifiesNested`; each family has an operator per call that says which pattern it follows and where it
differs (BLS schemes and shares, XEdDSA's 32-byte challenges, hybrids' nested halves, families
without SSH form). Signature primitives are perfect; a half of a signature says whose it is, of what
message, of which call of a scheme that may be randomised, and over which first half.

`KeyViews` turns the key at hand into its other forms: public key, out to an SSH file and in again,
encrypted and decrypted, one of its shares, hidden parameters. Signatures are resent, put together
from two, cut, and given another embedded message or scheme. One family per behaviour; all are
covered by the choice in `Init`.

### SealForms, SealViews, Sealing

A shared secret stands for the two keys it comes from and, for a KEM, the call; the AEAD opens what was
sealed with the same codec, key and associated data. ECDH families return the ephemeral key beside the
message, KEMs put the encapsulation inside, hybrids both. `Sealing` lets messages and ephemeral keys
arrive in any order and any number of times, or never, and put together from parts of two. `Open` may be
called with any form of a holder's key. `SealedBox` is what that promises: a box for an addressee,
with a label, out of which comes what was put in.

### ThresholdMarker

One controller's key: first the Builder methods that state t and n, in any order (`WithThreshold`,
`WithLimit`, `WithDisclosure` with its error dropped, `WithEncryptedMeta`, `TryBuild`), then the setters,
`SignMarker`, the signature of another marker put in (`TakeSignature`), and `ToDisclosure`. `asked` is
the last statement of t and n; it is None when a Builder call has left two statements of one number
in the key (an attribute beside an encryption), of which the code prefers different ones in different
readers. `since` remembers a signature while nothing but the disclosure mode has changed. Which reader
`threshold_params` is depends on the marked key's codec (`ThresholdKind`), and `ReadersReadLastAsked` is
about every codec.

## 3. Runs

"Bounds" names every cap of the instance; "enough" says which interesting cases fit in it.

| Run | Shows | Bounds, and why they are enough |
|---|---|---|
| `leaf_keystore` | `TypeOK`, `NoLeafReuse`, `RefusedOnlyWhenSpent`, `ReleasedVerifies`, `LeavesAccounted`; refinement `DispensesLeaves`; liveness `KeyIsUsedUp` | two signers, two messages, Merkle trees of 2 and 4 leaves, an XMSS tree of 2 leaves, at most two crashes (`MaxCrashes`), start keys generated and imported. Two signers give every order of hand-over; two crashes give one on each side of `Persist`; four leaves outlast both crashes; the last leaf is reached in all. |
| `leaf_keystore_attrs` | violation: `OtherAttributesKept` | the same with keys that carry a further attribute |
| `share_group` | `GroupTypeOK`, `UsedOnceIsSafe`, `QuorumCombines`, `CombinedVerifies` | three holders, threshold 2, two messages, a fresh key and one that has signed, two leaves, a wrong depth attribute that storage may hand back: two quorums that share one holder, the owner signing before and after the split |
| `key_stream` | `StreamTypeOK`, `ReadIsWritten`, `WholeItemsAreRead`, `ReadItemsTravel`, `DocumentsAgree` | two items (`MaxItems`), keys with up to two attributes of codes 1 and 29 (the last), other programs' codes 0, 29 and the unknown 30 in at most two pairs (`MaxPairs`), payloads that contain the sigil and lengths, size limit 13 so that items lie on both sides of it, every torn length |
| `bls_threshold` | `SharesKept`, `CombinedIsSplitKey`, `EnoughSharesCombine`, `ParamsSurvive`, `ConfidentialHides` | one key split 2-of-3 and 2-of-2, two meta keys, one collector, two edits (`MaxEdits`): a conversion there and back, or one before and one after an encryption; identifiers of the two splits collide |
| `key_vault` | `OpensItself`, `OpenIsOriginal`, `OneLayer`; refinement `LocksAndOpens` | two entries, four kinds of start key, two passphrases, salts and nonces, two layers (`MaxLayers`): every wrong combination of passphrase, salt and nonce, and a second layer for the families that allow it |
| `key_vault_known` | violation: `EncryptedIsKnown` | the same |
| `key_split` | `RecoversKey`, `WrongKeyHasCause` | thresholds 1 to 4 with limit 3 (those on both sides of what `split` accepts), two splits (`MaxSplits`), one damaged copy (`MaxDamaged`), a key of each scheme, the byte-shared one also encrypted, and three that `split` refuses (a public key, an encrypted one of a family that knows it, an encrypted X25519 key): shares of two splits of one key, of two keys, of an open key and its ciphertext, and of a recombined key or ciphertext |
| `key_views` | `TypeOK`, `GenuineVerifies`, `VerifiedIsGenuine`, `OneIdentity`, `LockedIsInert` | every family; two generated keys and one share, so that a signature meets another key; two calls of `sign` (`MaxCalls`), so that halves of two calls are put together; a 32-byte challenge, another message and the empty one, which XEdDSA and `VerifyView` treat apart |
| `view_builder` | `LastFactoryServes`, `BuiltInWins` | every kind of view; pairs of twelve keys with and without built-in view, stating known, unknown and malformed ciphers and KDFs; two factories, a codec with a built-in view of some kinds and one without; three registrations (`MaxRegistrations`), so that one is replaced with another codec's between |
| `sealing` | `OwnerOpens`, `OpenedAsSealed`; refinement `SealsBoxes` | all thirteen sealing families, two holders, two texts, two associated data, two AEADs, two calls of `seal` (`MaxSeals`): each part of a message may be the other's |
| `threshold_marker` | `MarkerAuthentic`, `ConvertedMarkerHolds`, `ReadersReadLastAsked` | controllers' families of each kind of signature (plain, XEdDSA, BLS, hybrid), two controllers, two groups, three participant maps of which one is too large, numbers 1, 2 and 5 where `Width` is 4 (5 fits no u16 and is 1 when cast), two meta keys, two signatures (`MaxSigns`) |

Deadlock is off where the modelled world really may stop: all shares dealt and combined, a stream
read to its end, a vault of public keys. All other worlds never stop, as some call is always possible, and
their runs check deadlock.

Every property of a passing run has a mutant in `PROJECT.json`: a plausible bug in one of the modelled
definitions (a field that is not copied, a check left out, two fields exchanged) under which the same
run reports that property violated. The mutants are the operators commented `Mutant of ...`; nothing
else uses them.

## 4. Fairness

Only `KeyIsUsedUp` needs fairness, and `BusySpec` states it:

- `WF_vars(Proceed(p))` for each signer: a signer that has loaded the key goes on. The code
  justifies this: no function of the crate waits, locks or retries, so each call returns.
- `WF_vars` of some `Load`: somebody keeps asking for signatures. This is an assumption on the callers,
  needed because a key that nobody uses is never used up.

`Crash` has no fairness: crashes may happen or not, up to `MaxCrashes`.

## 5. Proofs

TLC finds on a small instance that a property holds; the theorems say so for every value of the
constants that the named `ASSUME`s admit. Each proof has the same plan: `Init => IInv`,
`IInv /\ [Next]_vars => IInv'` with a step per action, and `IInv => property`.

### StatefulKeys_proof

The first half is about `LeafKeystore`, the second about `ShareGroup`; what the views make of a stateful key
(`SignAdvanceResult`, `OwnerSignResult`, `SignPartialResult` and the lemmas about readable keys) is proved once.

*LeafKeystore*: any set of signers, messages and start keys, trees of depth 1 to 3 (Merkle) and any height (XMSS),
any number of crashes.

`NoLeafReuse` is not inductive: it says nothing of signatures that are on their way. `IInv` adds where
every signature's leaf is, relative to the stored index: the holder of the key is the one signer
between loading and persisting (`HolderInv`), so its copy is current (`CopyInv`) and what it
signed is at the stored index; persisted and released leaves are below the index (`ConsumedInv`) and
differ (`DistinctInv`). `Persist` moves the index past the one leaf in flight, which puts it in the
second group without touching the first. `KeyInv` says that the stored key keeps what made it
readable, `FitInv` that every signature fits the key published at the start.

`LeavesAccounted` counts: `CountInv` adds that the leaves consumed since the start are at most the
signatures released, the crashes, and the signers between `Persist` and `Release`. `Persist` adds one
leaf and one such signer, `Release` turns the signer into a signature that was not there before (leaves
differ), and a crash turns it into a crash.

Theorems: `Inductive`, `TypeCorrect`, `OneTimeLeaves`, `RefusalMeansSpent`, `GivenOutVerifies`,
`IndexOnlyAdvances`, `WasteIsCrashes`, and `Refinement`, where `Persist` maps to reserving a leaf, `Release` to
issuing it (or to a stutter), and all other steps to stutters.

*ShareGroup*: any number of holders, any threshold of at least two, any start keys, messages and depth attributes
that storage hands back.

`GroupIInv`: shares are given out at once and never change but for the attribute, so all signature shares
are at one leaf, the owner's next one while the owner does not sign (`ShareInv`, `BoardInv`). As long as
it does not, a complete signature is the owner's at a leaf it has passed, or one that a threshold of
holders signed at that leaf (`OnceInv`). Two majorities share a holder, and that holder signed
one message. `QuorumCombines` and `CombinedVerifies` need none of the discipline.

Theorems: `GroupInductive`, `GroupTypeCorrect`, `OneLeafOneMessage`, `AgreementCombines`, `GroupVerifies`.

### BlsThreshold_proof

Any dealings with t and n in the range blsful accepts and below `Width` (README.md: at most 255),
any meta keys, collectors and identifiers.

`IInv` says that every share is at its place with attributes of exactly one mode that read as its split
made them (`GoodParams`), that the accumulator holds exactly what it accepted (`SharesKept`), and that it
asks for the threshold of a share it holds (`AccInv`). The last is what makes `combine` exact: for
shares of one split the accumulator's t is that split's, so what passes `combine`'s count is enough for
interpolation, and what passes its parse is no ciphertext of a share encrypted at rest. `StampedGood` is the central lemma: stamping leaves nothing of the mode before and
the 16-bit cast loses nothing under the assumption on t and n.

Theorems: `Inductive`, `TypeCorrect`, `NoShareLost`, `CombineIsExact`, `QuorumSuffices` (points
and identifiers are in one-to-one correspondence), `ConversionsKeepParams`, `ModesHide`.

### StoredKeys_proof

The first part is about `KeyVault`, the second about `KeyStream`.

*KeyVault*: any names, passphrases, salts, nonces and start keys (open keys without layers).

`IInv`: an aware entry is the key that was put in, possibly without its own cipher and KDF
attributes, or that key under *one* layer whose nonce and salt are those it states and whose
passphrase is the last one used. Entries of other families only keep their family and role.

Theorems: `Inductive`, `TypeCorrect`, `NoCiphertextAsSecret`, `RoundTrip`, `SelfDescribing`, and
`Refinement`: each entry is a `Lockbox`, locked while its view says it is encrypted.

*KeyStream*: any keys, codecs, comments and payloads, of this crate and of others, any number of attributes
and of items. The constants are what `mk.rs` and the Varbytes decoder have: the limit of
attributes is not below the number there is (`mk.rs:391-393`), and the Varbytes limit not below the
decoder's (16 MiB both).

The properties are not inductive: they say nothing of the units that are still in the stream.
`StreamIInv` adds what the stream is (`Chain`): the units of the entries not read yet, one after the
other, each whole (`Form`) but for the last, which may be the beginning of one. And it adds that
what was read is of the entries before, and was within the decoder's limits when it was read (`ReadSoFar`).
A read then needs one fact about the decoders, `DecodedKeyIs` and `DecodedNonceIs`: at the head of a stream that
begins with an item, or that ends within one, `DecodedKey` and `DecodedNonce` give that item and what follows, or refuse. An
item of the other kind is refused by its sigil, and the end of the stream stands for the missing
part of a torn one. The decoder's loop is a recursive function of the attributes' number; that its
i-th turn reads the i-th pair (`AttributeReadIs`, `AttributesReadIs`) is an induction over i, stated for the set of the
numbers that have the property (`NatSets`, from the least element of the set of those that have not).

`ReadItemsTravel` needs more than the order of attributes being irrelevant: a key that was read with its attributes in
another program's order must fit the limits in this crate's. `StaysReadable` counts the units: each is
at one place in one attribute, and the places are the same set in both orders (`CellsCounted`, `SameSize`).
`DocumentsAgree` rests on no two attributes having one name (`NamesApart`).

Theorems: `StreamInductive`, `StreamTypeCorrect`, `NothingMadeUp`, `WellFormedIsRead`, `SentOn`, `FormsAgree`.

### KeySplit_proof

Any keys, thresholds, limits, number of splits and damaged copies.

`IInv`: every recorded split passed `CanSplit`; every share states of its split what `split` wrote,
its point is of that split and its commitment of that split or none; the last result is still what its
shares combine to, a key rebuilt of the split key's codec and bytes or nobody's (a later split must not change that, hence the lemma `SplitAppended`).

Theorems: `Inductive`, `TypeCorrect`, `QuorumRecovers`, `WrongKeysExplained`.

### ViewBuilder_proof

Any keys, codecs with factories, factories and number of registrations.

`IInv` says that the table of factories is the history of registrations, the last one of each codec.
That `build` then asks it for the right codec is a fact about each of the seventeen kinds: the
error its dispatch function returns is the one that it waits for and names the codec of `LookedUp`
(`AnswerTo` and its lemmas).

Theorems: `Inductive`, `TypeCorrect`, `FactoriesServe`, `BuiltInViewsStay`.

### KeyViews_proof

Any generation calls, shares, messages and schemes, every family that has keys, any number of calls of `sign`.

Of the 25 families, all but BLS12-381 answer alike for a key pair, but for whether they read `KeyIsEncrypted`
and which halves they sign: lemmas `PairAttrIs` to `UsualVerifyIs`, one per call of the traits, for all families
at once. With what BLS keys and shares and Lamport shares answer (`BlsViewsAre`, `LamportShareViews`) they give
one lemma per call for every form of a key: `PublicGives`, `FilesWritten` and `FilesRead`, `SplitGives`,
`SignIs`, `VerifyIs`, `FingerprintIs`.

`IInv` says which forms there can be (`KeyOk`: only secrets are encrypted, no pair's half has share
parameters, a Lamport share is never encrypted), that every signature on record is what `sign` of
that family returns for its maker and message (`IsEntry`), and that the halves of one under way are
first halves in the first place and second ones in the second (`SentInv`). The invariants of
`KeyViews` alone are not inductive: they compare what views answer now, and say nothing of a key that is
about to be imported, or of halves about to be put together. That halves of two calls do not verify
rests on the second half of a hybrid carrying the first (`HalvesAre`), and on nothing else: calls
need not be told apart.

Theorems: `Inductive`, `TypeCorrect`, `GenuineSignaturesVerify`, `OnlyGenuineVerify`, `KeysHaveOneIdentity`,
`LockedKeysWait`.

### Sealing_proof

Any holders, texts, associated data, AEADs and number of messages, every sealing family.

The thirteen families are reduced to four shapes by lemmas about `SealWith` and `OpenWith`
(`EcdhSeals`, `EcdhOpens`, ...). `IInv`: each message is of one call, with the secret that the shape gives
it (`CallsKnown`), and what is under way is of parts of messages (`PartsKnown`). The body fixes the
secret, the secret the holder and the call, and the call the other parts: `OpenedWasSealed`, one step
per shape. `OwnerOpens` is inductive itself, by one lemma per shape.

Theorems: `Inductive`, `TypeCorrect`, `OnlySealedOpens`, `OwnersOpen`, `ImplementsBox`.

### ThresholdMarker_proof

Any controllers of any signing families, groups, participant maps, meta keys, numbers, and any
number of signatures.

First the signing families are reduced to what `sign` and `verify` do with a key pair (`OneHalfViews`,
`HybridViewsAlike`, `BlsSigns`, XEdDSA by itself, then `ControllerForms`). `IInv`: what can be read means what
was asked (`AskedInv`); every signature is one that `sign_marker` returned for the bundle that
the attributes then stated (`SignedInv`, `SigInv`); and while only the mode has changed since, the
attributes and encryptions still mean the signed bundle (`SinceInv`).

Theorems: `Inductive`, `TypeCorrect`, `OnlySignedVerifies`, `ConversionsKeepMarker`, `OneStatement`.

### Assumptions the proofs rest on

Perfect AEAD, signatures and key agreement, and injective bcrypt and hashes; perfect sharing (enough points
of one polynomial give its secret, others give nobody's key); interpolation and signature combination as
external operators; t and n below 2^16 for the BLS shares; `None` is no view, key or key bytes (it is a model
value, for absence). None is about the order of calls.

## 6. Where code and documentation differ

Two are runs with one property that TLC finds violated; `PROJECT.json` quotes the lines.

- `OtherAttributesKept`: the key that `sign_advance` returns has codec, comment and `KeyData` of
  the key it replaces (and `Depth`, for Merkle keys); all other attributes are lost. Comment and
  changelog say that they are kept.
- `EncryptedIsKnown`: in families whose view answers `false`, an encrypted key says that it is open,
  hands out its ciphertext as the secret, and cannot be decrypted any more. `LockedIsInert`
  of `key_views` shows that no view takes such a ciphertext for a key; `keysplit::split` does (below).

Others are in the models as the code has them:

- A Merkle-Lamport share is returned unadvanced (`lamport_merkle.rs:689`), while the trait asks every
  caller to persist the key that it gets back and to drop the one before (`views.rs:288-291`): a holder that does
  signs the next message with the same leaf. Hence the discipline of `UsedOnce`.
- The share branch of `sign_advance` (`lamport_merkle.rs:686`) skips the cross-check of the depth
  that the module promises of every read (`lamport_merkle.rs:11-13`); `ReadShare` makes use of it.
- Each share overwrites the accumulator's t and n (`bls12381.rs:962`), not only the first as the
  comment above says (960-961); `AddShare` of `BlsThreshold` does.
- `keysplit::combine` (`keysplit.rs:542`) does not count shares against the threshold they carry
  (documented at 533-535), nor compare what split they are of: `WrongKeyHasCause` names both.
- `keysplit::split` takes an encrypted key of a family whose view does not read `KeyIsEncrypted`
  (`keysplit.rs:506`) and `combine` builds a key of the codec and the ciphertext (584-587), without the attributes
  that say how to open it, while its comment promises the original private key (533): `Rebuilt`
  gives it the form `Ciphertext`, and `RecoversKey` and `WrongKeyHasCause` say what does hold.
- A comment says that P-521 is not wired for sealing (`nist_p.rs:467-468`); code and tests seal with it,
  and so does the family `NistP` of `Sealing`, which stands for all three curves.
- RSA and MAYO keys export to SSH and their import is refused: `SshKeys`.
- `with_threshold` and `with_limit` after a confidential `with_disclosure` (`mk.rs:2011-2019`) leave two
  statements of one number: `asked` is None then.

## 7. What is only model-checked

- `KeyIsUsedUp`: liveness under fairness is beyond the prover.

Everything else that a passing run checks is also a theorem. `StreamIInv` quantifies over sequences
of any length, so it is proved and not evaluated by TLC.

## 8. What is not modelled

- Cryptographic primitives, curve arithmetic (XEdDSA's canonical lift, refusals of small-order points),
  random generation and constant-time behaviour: libraries, no control. They are external and perfect.
- DKG attributes (of `threshold_params` only that it reads others for a DKG share), type wrappers, error enums: accessors and copies.
- The feature-gated fallback to bare ChaCha20 ciphertexts: off by default.
- The length of nonces, and the consequences of a nonce used twice: the AEAD is perfect.
- Attributes other than the key bytes and the encryption through `keysplit`, and a stateful key recombined from shares
  made before it was used on: planned, section 9.
- That a one-time Lamport key, or plain XMSS `sign`, is used once only: the code keeps no state for
  it and says that its caller must.

## 9. Plan

Order: the more that can go wrong between two calls, the earlier.

| Step | Modules | Composes | Abstract specification | Theorems | State |
|---|---|---|---|---|---|
| 1 | `StatefulKeys`, `LeafKeystore`, `ShareGroup` | keys with storage, signers, crashes | `LeafDispenser` | safety, refinement | done |
| 2 | `Disclosure`, `BlsThreshold` | shares, modes, at-rest encryption | | safety | done |
| 3 | `KeyVault` | cipher, KDF, families | `Lockbox` | safety, refinement | done |
| 4 | `KeySplit` | splits with storage | | safety | done |
| 5 | `MultikeyWire`, `KeyStream` | encoders with a stream | the list of items written | safety | done |
| 6 | `Dispatch`, `ViewBuilder` | dispatch tables, builder, factories | a builder without factories | safety | done |
| 7 | `KeyForms`, the views, `SshKeys`, `KeyViews` | every signing family with its forms, SSH, encryption, shares | | safety | done |
| 8 | `SealForms`, `SealViews`, `Sealing` | seal and open with ephemeral keys apart from, after, or with other messages | `SealedBox` | safety, refinement | done |
| 9 | `ThresholdMarker` | marker with `Disclosure`, Builder and the signing views | what was signed is what verifies | safety | done |
| 10 | `KeySplit` with `StatefulKeys` | a stateful key recombined from old shares | `LeafDispenser` | safety | next |
