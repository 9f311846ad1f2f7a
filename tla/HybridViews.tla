----------------------------- MODULE HybridViews -----------------------------
(***************************************************************************)
(* The views of the hybrid signing keys, a classical half and a            *)
(* post-quantum one (src/src/views/{ed25519_mldsa65,ed25519_fndsa512,      *)
(* ed25519_mayo2,bls12381_g1_*,bls12381_hybrid}.rs).  The classical half   *)
(* signs the message and the other half the message followed by the first  *)
(* half; keys and signatures are the two halves end to end, of exact       *)
(* length.  There are no SSH forms.                                        *)
(***************************************************************************)
EXTENDS KeyForms

\* Ed25519 and ML-DSA-65.
Ed25519MlDsa65Attr(k)        == Unaware(k)
Ed25519MlDsa65Public(k)      == Derived(Ed25519MlDsa65Attr(k), k)
Ed25519MlDsa65Form(k)        == PublicForm(Ed25519MlDsa65Attr(k), Ed25519MlDsa65Public(k), k)
Ed25519MlDsa65Fingerprint(k) == Fingerprint(Ed25519MlDsa65Attr(k), Ed25519MlDsa65Public(k), k)
Ed25519MlDsa65Sign(k, m, combined, call) ==
  SignedWith(Ed25519MlDsa65Attr(k), k, Nested(k.origin, m, call), m, combined)
Ed25519MlDsa65Verifies(k, s, arg) == VerifiesNested(Ed25519MlDsa65Form(k), s, arg)

\* Ed25519 and FN-DSA-512.
Ed25519FnDsa512Attr(k)        == Unaware(k)
Ed25519FnDsa512Public(k)      == Derived(Ed25519FnDsa512Attr(k), k)
Ed25519FnDsa512Form(k)        == PublicForm(Ed25519FnDsa512Attr(k), Ed25519FnDsa512Public(k), k)
Ed25519FnDsa512Fingerprint(k) == Fingerprint(Ed25519FnDsa512Attr(k), Ed25519FnDsa512Public(k), k)
Ed25519FnDsa512Sign(k, m, combined, call) ==
  SignedWith(Ed25519FnDsa512Attr(k), k, Nested(k.origin, m, call), m, combined)
Ed25519FnDsa512Verifies(k, s, arg) == VerifiesNested(Ed25519FnDsa512Form(k), s, arg)

\* Ed25519 and MAYO-2.
Ed25519Mayo2Attr(k)        == Unaware(k)
Ed25519Mayo2Public(k)      == Derived(Ed25519Mayo2Attr(k), k)
Ed25519Mayo2Form(k)        == PublicForm(Ed25519Mayo2Attr(k), Ed25519Mayo2Public(k), k)
Ed25519Mayo2Fingerprint(k) == Fingerprint(Ed25519Mayo2Attr(k), Ed25519Mayo2Public(k), k)
Ed25519Mayo2Sign(k, m, combined, call) ==
  SignedWith(Ed25519Mayo2Attr(k), k, Nested(k.origin, m, call), m, combined)
Ed25519Mayo2Verifies(k, s, arg) == VerifiesNested(Ed25519Mayo2Form(k), s, arg)

\* BLS12-381 G1 (basic scheme) and ML-DSA-65.
BlsMlDsa65Attr(k)        == Unaware(k)
BlsMlDsa65Public(k)      == Derived(BlsMlDsa65Attr(k), k)
BlsMlDsa65Form(k)        == PublicForm(BlsMlDsa65Attr(k), BlsMlDsa65Public(k), k)
BlsMlDsa65Fingerprint(k) == Fingerprint(BlsMlDsa65Attr(k), BlsMlDsa65Public(k), k)
BlsMlDsa65Sign(k, m, combined, call) ==
  SignedWith(BlsMlDsa65Attr(k), k, Nested(k.origin, m, call), m, combined)
BlsMlDsa65Verifies(k, s, arg) == VerifiesNested(BlsMlDsa65Form(k), s, arg)

\* BLS12-381 G1 and FN-DSA-512.
BlsFnDsa512Attr(k)        == Unaware(k)
BlsFnDsa512Public(k)      == Derived(BlsFnDsa512Attr(k), k)
BlsFnDsa512Form(k)        == PublicForm(BlsFnDsa512Attr(k), BlsFnDsa512Public(k), k)
BlsFnDsa512Fingerprint(k) == Fingerprint(BlsFnDsa512Attr(k), BlsFnDsa512Public(k), k)
BlsFnDsa512Sign(k, m, combined, call) ==
  SignedWith(BlsFnDsa512Attr(k), k, Nested(k.origin, m, call), m, combined)
BlsFnDsa512Verifies(k, s, arg) == VerifiesNested(BlsFnDsa512Form(k), s, arg)

\* BLS12-381 G1 and MAYO-1.
BlsMayo1Attr(k)        == Unaware(k)
BlsMayo1Public(k)      == Derived(BlsMayo1Attr(k), k)
BlsMayo1Form(k)        == PublicForm(BlsMayo1Attr(k), BlsMayo1Public(k), k)
BlsMayo1Fingerprint(k) == Fingerprint(BlsMayo1Attr(k), BlsMayo1Public(k), k)
BlsMayo1Sign(k, m, combined, call) ==
  SignedWith(BlsMayo1Attr(k), k, Nested(k.origin, m, call), m, combined)
BlsMayo1Verifies(k, s, arg) == VerifiesNested(BlsMayo1Form(k), s, arg)

\* BLS12-381 G1 and MAYO-2.
BlsMayo2Attr(k)        == Unaware(k)
BlsMayo2Public(k)      == Derived(BlsMayo2Attr(k), k)
BlsMayo2Form(k)        == PublicForm(BlsMayo2Attr(k), BlsMayo2Public(k), k)
BlsMayo2Fingerprint(k) == Fingerprint(BlsMayo2Attr(k), BlsMayo2Public(k), k)
BlsMayo2Sign(k, m, combined, call) ==
  SignedWith(BlsMayo2Attr(k), k, Nested(k.origin, m, call), m, combined)
BlsMayo2Verifies(k, s, arg) == VerifiesNested(BlsMayo2Form(k), s, arg)
=============================================================================
