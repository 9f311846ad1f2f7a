------------------------------- MODULE SealedBox -------------------------------
(***************************************************************************)
(* What sealing promises: boxes that only their addressee opens, and that  *)
(* hold then what was put in.  Boxes may be opened again or never.         *)
(***************************************************************************)
CONSTANTS Addressees, Texts, Labels, Nothing

VARIABLES
  boxes,  \* the boxes ever closed: for whom, what is in them, what is written on them
  taken   \* what was taken out last, by whom and under what label, or Nothing

Boxes == [to : Addressees, text : Texts, label : Labels]

Init == boxes = {} /\ taken = Nothing

Close(b) == boxes' = boxes \cup {b} /\ UNCHANGED taken

Open == (\E b \in boxes : taken' = b) /\ UNCHANGED boxes

Refuse == taken' = Nothing /\ UNCHANGED boxes

Next == (\E b \in Boxes : Close(b)) \/ Open \/ Refuse

Spec == Init /\ [][Next]_<<boxes, taken>>
=============================================================================
