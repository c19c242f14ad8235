----------------------------- MODULE HeldQueue -----------------------------
(***************************************************************************)
(* What holding a chat's messages promises (the header of                  *)
(* backend/src/services/chatHeld.ts): "it goes in once the chat can take   *)
(* it: oldest first ...  one that refuses for good keeps the message with  *)
(* its error, and the ones behind it go on."  No processes, claims or      *)
(* lost answers here.                                                      *)
(***************************************************************************)

CONSTANT Msg

VARIABLES
  accepted,   \* messages whose sender was told they are held
  queue,      \* those still to go in
  ahead,      \* ahead[m]: the messages accepted before m
  taken,      \* messages the chat has
  refused     \* messages shown with an error

queueVars == <<accepted, queue, ahead, taken, refused>>

QueueInit ==
  /\ accepted = {} /\ queue = {} /\ taken = {} /\ refused = {}
  /\ ahead = [m \in Msg |-> {}]

Front(m) == m \in queue /\ ahead[m] \cap queue = {}

Accept(m) ==
  /\ m \notin accepted
  /\ accepted' = accepted \cup {m}
  /\ queue' = queue \cup {m}
  /\ ahead' = [ahead EXCEPT ![m] = accepted]
  /\ UNCHANGED <<taken, refused>>

\* A message goes in for the first time from the front of the queue.  One that
\* has left it may be on its way still.
Take(m) ==
  /\ m \in accepted
  /\ m \in queue => Front(m)
  /\ taken' = taken \cup {m}
  /\ UNCHANGED <<accepted, queue, ahead, refused>>

\* A message leaves the queue from its front, in the chat or with an error.
Leave(m) ==
  /\ Front(m)
  /\ queue' = queue \ {m}
  /\ \/ m \in taken /\ UNCHANGED refused
     \/ refused' = refused \cup {m}
  /\ UNCHANGED <<accepted, ahead, taken>>

\* An error is taken back only from a message that went in after all.
Recall(m) ==
  /\ m \in refused \cap taken
  /\ refused' = refused \ {m}
  /\ UNCHANGED <<accepted, queue, ahead, taken>>

QueueNext == \E m \in Msg : Accept(m) \/ Take(m) \/ Leave(m) \/ Recall(m)

QueueSpec == QueueInit /\ [][QueueNext]_queueVars

=============================================================================
