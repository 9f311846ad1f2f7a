--------------------------- MODULE PostQuantumViews ---------------------------
(***************************************************************************)
(* The views of the post-quantum signing keys: ML-DSA, FN-DSA, MAYO,       *)
(* SLH-DSA and the one-time Lamport keys with their shares                 *)
(* (src/src/views/{ml_dsa,fn_dsa,mayo,slh_dsa,lamport}.rs).  None of them  *)
(* reads KeyIsEncrypted.                                                   *)
(***************************************************************************)
EXTENDS KeyForms

\* ML-DSA-65 and ML-DSA-87.
MlDsaAttr(k)        == Unaware(k)
MlDsaPublic(k)      == Derived(MlDsaAttr(k), k)
MlDsaForm(k)        == PublicForm(MlDsaAttr(k), MlDsaPublic(k), k)
MlDsaFingerprint(k) == Fingerprint(MlDsaAttr(k), MlDsaPublic(k), k)
MlDsaSshPublic(k)   == SshPublic(MlDsaForm(k))
MlDsaSshPrivate(k)  == SshPrivate(MlDsaAttr(k), k)
MlDsaSign(k, m, combined, call) ==
  SignedWith(MlDsaAttr(k), k, Plain(k.origin, m, call), m, combined)
MlDsaVerifies(k, s, arg) == VerifiesPlain(MlDsaForm(k), s, arg)

\* FN-DSA-512 and FN-DSA-1024; the bytes of a key say which.
FnDsaAttr(k)        == Unaware(k)
FnDsaPublic(k)      == Derived(FnDsaAttr(k), k)
FnDsaForm(k)        == PublicForm(FnDsaAttr(k), FnDsaPublic(k), k)
FnDsaFingerprint(k) == Fingerprint(FnDsaAttr(k), FnDsaPublic(k), k)
FnDsaSshPublic(k)   == SshPublic(FnDsaForm(k))
FnDsaSshPrivate(k)  == SshPrivate(FnDsaAttr(k), k)
FnDsaSign(k, m, combined, call) ==
  SignedWith(FnDsaAttr(k), k, Plain(k.origin, m, call), m, combined)
FnDsaVerifies(k, s, arg) == VerifiesPlain(FnDsaForm(k), s, arg)

\* MAYO 1, 2, 3 and 5.
MayoAttr(k)        == Unaware(k)
MayoPublic(k)      == Derived(MayoAttr(k), k)
MayoForm(k)        == PublicForm(MayoAttr(k), MayoPublic(k), k)
MayoFingerprint(k) == Fingerprint(MayoAttr(k), MayoPublic(k), k)
MayoSshPublic(k)   == SshPublic(MayoForm(k))
MayoSshPrivate(k)  == SshPrivate(MayoAttr(k), k)
MayoSign(k, m, combined, call) ==
  SignedWith(MayoAttr(k), k, Plain(k.origin, m, call), m, combined)
MayoVerifies(k, s, arg) == VerifiesPlain(MayoForm(k), s, arg)

\* SLH-DSA, its twelve parameter sets.
SlhDsaAttr(k)        == Unaware(k)
SlhDsaPublic(k)      == Derived(SlhDsaAttr(k), k)
SlhDsaForm(k)        == PublicForm(SlhDsaAttr(k), SlhDsaPublic(k), k)
SlhDsaFingerprint(k) == Fingerprint(SlhDsaAttr(k), SlhDsaPublic(k), k)
SlhDsaSshPublic(k)   == SshPublic(SlhDsaForm(k))
SlhDsaSshPrivate(k)  == SshPrivate(SlhDsaAttr(k), k)
SlhDsaSign(k, m, combined, call) ==
  SignedWith(SlhDsaAttr(k), k, Plain(k.origin, m, call), m, combined)
SlhDsaVerifies(k, s, arg) == VerifiesPlain(SlhDsaForm(k), s, arg)
-----------------------------------------------------------------------------
(***************************************************************************)
(* One-time Lamport keys.  A key share is no secret key for the views, so  *)
(* secret_bytes refuses it and it cannot be encrypted at rest; sign reads  *)
(* key_bytes, and a share makes a signature share, which no view verifies. *)
(* Nothing counts how often a key signs.  There are no SSH forms.          *)
(***************************************************************************)
LamportAttr(k)        == Unaware(k)
LamportPublic(k)      == Derived(LamportAttr(k), k)
LamportForm(k)        == PublicForm(LamportAttr(k), LamportPublic(k), k)
LamportFingerprint(k) == Fingerprint(LamportAttr(k), LamportPublic(k), k)

\* The bytes-level functions choose the digest by the codec and refuse the
\* codecs of other roles; the wrapper parses the bytes and calls the library.
LamportSignBytes(k, m, call) ==
  IF k.role = "Priv" /\ Parses(k) THEN Plain(k.origin, m, call) ELSE None

LamportShareSignBytes(k, m, call) ==
  IF k.role = "PrivShare" /\ Parses(k) THEN Plain(k.origin, m, call) ELSE None

LamportVerifyBytes(p, halves, m) ==
  p.role = "Pub" /\ Len(halves) = 1 /\ Checks(halves[1], p.origin, m, None, None)

LamportSign(k, m, combined, call) ==
  LET h == IF k.role = "PrivShare" THEN LamportShareSignBytes(k, m, call)
           ELSE LamportSignBytes(k, m, call)
  IN IF h # None THEN Signature(h, m, combined, None, k.role = "PrivShare") ELSE None

LamportVerifies(k, s, arg) ==
  /\ Effective(s, arg) # None
  /\ LamportForm(k) # None
  /\ LamportVerifyBytes(LamportForm(k), s.halves, Effective(s, arg))

\* ThresholdView::split: a share, of origin o.  A share has no parameters of
\* its own; those of the split are followed in ShareGroup.
LamportShare(k, o) ==
  IF Usable(LamportAttr(k), k) THEN Multikey(k.family, "PrivShare", o, FALSE) ELSE None
=============================================================================
