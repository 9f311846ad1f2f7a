--------------------------- MODULE MCLeafKeystore ---------------------------
(***************************************************************************)
(* Instances of LeafKeystore for TLC.                                      *)
(***************************************************************************)
EXTENDS LeafKeystore, TLC

\* Keys as the Builder makes them.
Generated ==
  {NewWithDepth(d) : d \in MerkleDepths} \cup {NewXmss(h) : h \in XmssHeights}

\* Keys read back from storage: consumed in part, with further attributes,
\* with a depth attribute that is missing or wrong, with key data that does
\* not parse.  Decoding checks none of this.
Imported ==
  {[k EXCEPT !.data.next = 1, !.data.blocks = @ - 1] : k \in Generated}
    \cup {[k EXCEPT !.depthAttr = d] : k \in Generated, d \in {1, 3, Absent}}
    \cup {[k EXCEPT !.data.form = "opaque"] : k \in Generated}

SomeKeys == Generated \cup Imported

AnnotatedKeys == {[k EXCEPT !.other = OtherAttrs] : k \in Generated}

=============================================================================
