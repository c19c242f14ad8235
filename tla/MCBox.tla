------------------------------- MODULE MCBox -------------------------------
(***************************************************************************)
(* BoxLifecycle with a history variable: the kind of the last stop that    *)
(* moved the box, for what the code's comments say of hand stops.          *)
(***************************************************************************)
EXTENDS BoxLifecycle

VARIABLE lastStop

Moved(c) == req[c] # None /\ req[c].pc = "read" /\ req'[c] # None /\ req'[c].pc = "sent"

RecordStop ==
  LET stops == {c \in Callers : Moved(c) /\ req[c].kind \in Stops} IN
    lastStop' = IF stops = {} THEN lastStop ELSE req[CHOOSE c \in stops : TRUE].kind

MCSpec == BoxInit /\ lastStop = None /\ [][BoxNext /\ RecordStop]_<<boxVars, lastStop>>

\* The lifecycle sweep terminates a box it stopped, never one its owner
\* stopped by hand (boxPower.ts, sweepPowerStates).
NeverStoppedByHand == row.claimed => lastStop # "ownerStop"
=============================================================================
