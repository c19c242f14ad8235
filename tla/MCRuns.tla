------------------------------- MODULE MCRuns -------------------------------
(***************************************************************************)
(* AutomationRuns on three runs: an occurrence and a Run now of a chat     *)
(* automation, and an occurrence of a T3 one.                              *)
(***************************************************************************)
EXTENDS AutomationRuns

RunIds == {1, 2, 3}
Occurrences == {1, 3}
Automations == {"chat", "task"}
TaskOf == [r \in RunIds |-> IF r = 3 THEN "task" ELSE "chat"]

\* Two chat automations, an occurrence each.
TwoIds == {1, 2}
EachItsOwn == [r \in TwoIds |-> IF r = 1 THEN "chat" ELSE "task"]
=============================================================================
