----------------------------- MODULE MCKeyStream -----------------------------
(***************************************************************************)
(* A small instance of KeyStream.  Payload bytes are also the sigil, an    *)
(* attribute's code and a length, so that a reader that lost its place     *)
(* would find something to read.                                           *)
(***************************************************************************)
EXTENDS KeyStream

MCPayloads == {<< >>, <<1>>, <<7, 5, 0, 0>>}
MCComments == {<< >>, <<1>>}
MCOtherComments == {<<7>>, <<9>>}
MCOtherPayloads == {<< >>, <<1, 29>>}
=============================================================================
