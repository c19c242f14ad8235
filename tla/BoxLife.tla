------------------------------ MODULE BoxLife ------------------------------
(***************************************************************************)
(* The life of a box as its owner is promised it (boxPowerPolicy.ts): it   *)
(* goes down and comes up, and either may come to nothing.  A box that is  *)
(* doomed (claimed for terminate) stays down unless it is spared first,    *)
(* and one that has ended stays ended.                                     *)
(***************************************************************************)
VARIABLES life, doomed

LifeInit == life = "up" /\ doomed = FALSE

GoDown == life \in {"up", "comingUp"} /\ ~doomed /\ life' = "goingDown" /\ UNCHANGED doomed

\* It was not taken down after all.
TurnBack == life = "goingDown" /\ life' \in {"up", "comingUp"} /\ UNCHANGED doomed

Down == life \in {"goingDown", "comingUp"} /\ life' = "down" /\ UNCHANGED doomed

ComeUp == life = "down" /\ ~doomed /\ life' = "comingUp" /\ UNCHANGED doomed

Up == life = "comingUp" /\ life' = "up" /\ UNCHANGED doomed

Doom == life = "down" /\ ~doomed /\ doomed' = TRUE /\ UNCHANGED life

Spare == life = "down" /\ doomed /\ doomed' = FALSE /\ UNCHANGED life

End == life # "gone" /\ life' = "gone" /\ UNCHANGED doomed

LifeNext == GoDown \/ TurnBack \/ Down \/ ComeUp \/ Up \/ Doom \/ Spare \/ End

LifeSpec == LifeInit /\ [][LifeNext]_<<life, doomed>>
=============================================================================
