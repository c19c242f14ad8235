--------------------------- MODULE AutomationRuns ---------------------------
(***************************************************************************)
(* The runs of the automations of one box (services/automations/           *)
(* scheduler.ts, runner.ts, complete.ts, t3Hook.ts; Run now and Stop in    *)
(* routes/automations.ts), from the row an occurrence gets to its end.     *)
(*                                                                         *)
(* A tick of a leader and a click are callers, each awaiting one statement *)
(* or one call at a time.  A tick goes through timeOutRuns, resolvePending *)
(* and startDue with the `now` it began with: a step here may be of any of *)
(* the three, with any `now`.  What the box, the flags and the budget      *)
(* answer is left open.                                                    *)
(***************************************************************************)
EXTENDS Integers, FiniteSets

CONSTANTS
  Run,         \* run rows that may come to be: naturals, in the order of their ids
  Scheduled,   \* those of an occurrence; the others are Run now's
  Automation, Of,  \* the automations, and each run's
  T3,          \* automations whose run is a T3 task's webhook
  Tick, Hand,  \* callers: processes that tick as leader, clicks in progress
  None,        \* no run
  Cap,         \* perBoxConcurrent
  MaxRuns,     \* bound: rows that come to be
  MaxDate,     \* bound: dates a `now` can have
  MaxFaults    \* bound: deaths and thrown statements

ASSUME RunsAssumption ==
  /\ Run \subseteq Nat /\ IsFiniteSet(Run) /\ Scheduled \subseteq Run /\ None \notin Run
  /\ Of \in [Run -> Automation] /\ T3 \subseteq Automation
  /\ Tick \cap Hand = {}
  /\ Cap \in Nat \ {0} /\ MaxRuns \in Nat /\ MaxDate \in Nat /\ MaxFaults \in Nat

VARIABLES
  state,      \* AutomationRun.state: "none" before the row is created;
              \* "done" stands for done, blocked and needs_input
  startedAt,  \* the date the claim wrote, 0 for none
  late,       \* rows created pendingMinutes ago
  turn,       \* the run's turn on the box: "none", "live" until its turn-end is
              \* read, "judged" (completeRun is to finish the row), "told"
  job,        \* what each caller awaits, for which run, with which `now`
  faults      \* counter of the bound above

rows == <<state, startedAt>>
runsVars == <<rows, late, turn, job, faults>>

Caller == Tick \cup Hand
Idle == [at |-> "idle", run |-> None, now |-> 0]
Steps == {"decide", "look", "count", "skip", "claim", "check", "back", "link", "send",
          "discard", "fail", "hook", "requeue", "started", "end", "withdraw", "again"}
Jobs == {Idle} \cup [at : Steps, run : Run, now : 0..MaxDate]

Live == {r \in Run : state[r] \in {"pending", "running"}}
Running == {r \in Run : state[r] = "running"}
Final == {"done", "failed", "skipped"}

\* Types; and no caller works on a row that is not there.
RunsTypeOK ==
  /\ state \in [Run -> {"none", "pending", "running"} \cup Final]
  /\ startedAt \in [Run -> 0..MaxDate]
  /\ late \in SUBSET Run
  /\ turn \in [Run -> {"none", "live", "judged", "told"}]
  /\ job \in [Caller -> Jobs]
  /\ faults \in 0..MaxFaults
  /\ \A c \in Caller : job[c] # Idle => state[job[c].run] # "none"

RunsInit ==
  /\ state = [r \in Run |-> "none"]
  /\ startedAt = [r \in Run |-> 0]
  /\ late = {}
  /\ turn = [r \in Run |-> "none"]
  /\ job = [c \in Caller |-> Idle]
  /\ faults = 0

Fault == faults < MaxFaults /\ faults' = faults + 1
Turn(r, from, to) == turn' = [turn EXCEPT ![r] = IF @ = from THEN to ELSE @]
At(c, step) == job[c].at = step
Goto(c, step) == job' = [job EXCEPT ![c].at = step]
Return(c) == job' = [job EXCEPT ![c] = Idle]
Begin(c, step, r) ==
  /\ job[c] = Idle
  /\ \E n \in 0..MaxDate :
       job' = [job EXCEPT ![c] = [at |-> step, run |-> r, now |-> n]]

\* updateMany where id and state: the row moves if it is still in `from`.
Moves(r, from, to) == state' = [state EXCEPT ![r] = IF @ = from THEN to ELSE @]

-----------------------------------------------------------------------------
(* Where a decision comes from. *)

\* Wrong: a row that could not be created is decided all the same.
CreateIgnored(c, r) ==
  /\ state[r] = "none"
  /\ c \in (IF r \in Scheduled THEN Tick ELSE Hand)
  /\ Begin(c, "decide", r)
  /\ UNCHANGED <<rows, late, turn, faults>>

\* startDue and runNowFor create the row, under the unique key, and decide it.
Create(c, r) ==
  /\ state[r] = "none" /\ Cardinality({s \in Run : state[s] # "none"}) < MaxRuns
  /\ c \in (IF r \in Scheduled THEN Tick ELSE Hand)
  /\ Begin(c, "decide", r)
  /\ state' = [state EXCEPT ![r] = "pending"]
  /\ UNCHANGED <<startedAt, late, turn, faults>>

\* resolvePending: a disabled automation's run and one that waited too long are
\* skipped, the others decided again.
Resolve(p, r) ==
  /\ state[r] = "pending"
  /\ \/ Begin(p, "skip", r)
     \/ r \notin late /\ Begin(p, "decide", r)
  /\ UNCHANGED <<rows, late, turn, faults>>

-----------------------------------------------------------------------------
(* decideAndStart. *)

\* Wrong: a pending run is not a previous run.
PreviousRunning(r) == {s \in Running \ {r} : Of[s] = Of[r]}

Previous(r) == {s \in Live \ {r} : Of[s] = Of[r]}

\* The row.
Decide(c) ==
  /\ At(c, "decide")
  /\ IF state[job[c].run] = "pending" THEN Goto(c, "look") ELSE Return(c)
  /\ UNCHANGED <<rows, late, turn, faults>>

\* The automation's other live runs; a pause, the flag or the budget may skip it too.
Look(c) ==
  /\ At(c, "look")
  /\ \/ Goto(c, "skip")
     \/ Previous(job[c].run) = {} /\ Goto(c, "count")
  /\ UNCHANGED <<rows, late, turn, faults>>

\* The box's running rows; then the box itself, which may be gone, asleep (the
\* row stays pending) or up.
Count(c) ==
  /\ At(c, "count")
  /\ \/ Goto(c, "skip")
     \/ /\ Cardinality(Running) < Cap
        /\ Return(c) \/ Goto(c, "claim")
  /\ UNCHANGED <<rows, late, turn, faults>>

Skip(c) ==
  /\ At(c, "skip")
  /\ Moves(job[c].run, "pending", "skipped")
  /\ Return(c)
  /\ UNCHANGED <<startedAt, late, turn, faults>>

Claim(c) ==
  LET r == job[c].run IN
  /\ At(c, "claim")
  /\ IF state[r] = "pending"
     THEN /\ state' = [state EXCEPT ![r] = "running"]
          /\ startedAt' = [startedAt EXCEPT ![r] = job[c].now]
          /\ Goto(c, "check")
     ELSE Return(c) /\ UNCHANGED <<state, startedAt>>
  /\ UNCHANGED <<late, turn, faults>>

\* The box's running rows before r's, by startedAt and id.
Before(r) ==
  {s \in Running : \/ startedAt[s] < startedAt[r]
                   \/ startedAt[s] = startedAt[r] /\ s < r}

\* A row that no longer runs is not in the list, and goes on.
Check(c) ==
  LET r == job[c].run IN
  /\ At(c, "check")
  /\ Goto(c, IF r \in Running /\ Cardinality(Before(r)) >= Cap THEN "back"
             ELSE IF Of[r] \in T3 THEN "hook" ELSE "link")
  /\ UNCHANGED <<rows, late, turn, faults>>

StepBack(c) ==
  LET r == job[c].run IN
  /\ At(c, "back")
  /\ Moves(r, "running", "skipped")
  /\ startedAt' = [startedAt EXCEPT ![r] = IF state[r] = "running" THEN 0 ELSE @]
  /\ Return(c)
  /\ UNCHANGED <<late, turn, faults>>

-----------------------------------------------------------------------------
(* startRun and what decideAndStart makes of its outcome. *)

\* The worktree and the notes may fail; the row gets its workstreamId while it
\* still runs, and a row that does not gets no brief.  So a run whose turn has
\* begun has its link, until the turn is stopped.
Link(c) ==
  /\ At(c, "link")
  /\ \/ Goto(c, "fail")
     \/ job[c].run \in Running /\ Goto(c, "send")
  /\ UNCHANGED <<rows, late, turn, faults>>

\* chat-send: taken and answered, or timed out, which leaves the row to the
\* turn's end; refused, or never sent; or taken, and the box's socket lost,
\* which reads as a refusal.
Send(c) ==
  /\ At(c, "send")
  /\ \/ Turn(job[c].run, "none", "live") /\ (Return(c) \/ Goto(c, "discard"))
     \/ UNCHANGED turn /\ (Return(c) \/ Goto(c, "discard"))
  /\ UNCHANGED <<rows, late, faults>>

\* discardWorkstream: its chat is stopped and the worktree and the link go, or
\* the box does not answer and they stay.
Discard(c) ==
  /\ At(c, "discard")
  /\ Turn(job[c].run, "live", "told") \/ UNCHANGED turn
  /\ Goto(c, "fail")
  /\ UNCHANGED <<rows, late, faults>>

\* Only a row still running is failed (or skipped, for an older runner).
Fail(c) ==
  /\ At(c, "fail")
  /\ Moves(job[c].run, "running", "failed") \/ Moves(job[c].run, "running", "skipped")
  /\ Return(c)
  /\ UNCHANGED <<startedAt, late, turn, faults>>

\* startT3Run: the webhook starts the task, fails, or is not served yet.
Hook(c) ==
  /\ At(c, "hook")
  /\ Goto(c, "started") \/ Goto(c, "fail") \/ Goto(c, "requeue")
  /\ UNCHANGED <<rows, late, turn, faults>>

Requeue(c) ==
  LET r == job[c].run IN
  /\ At(c, "requeue")
  /\ Moves(r, "running", "pending")
  /\ startedAt' = [startedAt EXCEPT ![r] = IF state[r] = "running" THEN 0 ELSE @]
  /\ Return(c)
  /\ UNCHANGED <<late, turn, faults>>

HookStarted(c) ==
  /\ At(c, "started")
  /\ Moves(job[c].run, "running", "done")
  /\ Return(c)
  /\ UNCHANGED <<startedAt, late, turn, faults>>

-----------------------------------------------------------------------------
(* timeOutRuns, and Stop. *)

\* Wrong: only runs whose turn began are timed out.
TimeOutBegun(p, r) ==
  /\ r \in Running /\ turn[r] # "none"
  /\ Begin(p, "end", r)
  /\ UNCHANGED <<rows, late, turn, faults>>

\* A row found past maxRunMinutes: any running row may be by now.
TimeOut(p, r) ==
  /\ r \in Running
  /\ Begin(p, "end", r)
  /\ UNCHANGED <<rows, late, turn, faults>>

Stop(h, r) ==
  /\ r \in Live
  /\ Begin(h, IF r \in Running THEN "end" ELSE "withdraw", r)
  /\ UNCHANGED <<rows, late, turn, faults>>

\* Stop of a pending run, which may have been claimed since it was read.
Withdraw(h) ==
  LET r == job[h].run IN
  /\ At(h, "withdraw")
  /\ Moves(r, "pending", "skipped")
  /\ IF state[r] = "pending" THEN Return(h) ELSE Goto(h, "again")
  /\ UNCHANGED <<startedAt, late, turn, faults>>

StopAgain(h) ==
  LET r == job[h].run IN
  /\ At(h, "again")
  /\ IF r \in Running THEN Goto(h, "end") ELSE Return(h)
  /\ UNCHANGED <<rows, late, turn, faults>>

\* The row first, and then the interrupt, which only ends a live turn sooner.
End(c) ==
  /\ At(c, "end")
  /\ Moves(job[c].run, "running", "failed")
  /\ Return(c)
  /\ UNCHANGED <<startedAt, late, turn, faults>>

-----------------------------------------------------------------------------
(* completeRun. *)

\* The turn ends and its turn-end reaches a process, which finds the run by its
\* link; or the frame is lost with the box.
TurnEnds(r) ==
  /\ turn[r] = "live"
  /\ \/ Turn(r, "live", "judged") /\ r \in Running
     \/ Turn(r, "live", "told")
  /\ UNCHANGED <<rows, late, job, faults>>

\* Wrong: completion writes what it read a moment ago to be running.
FinishRowAnyway(r) ==
  /\ turn[r] = "judged" /\ Turn(r, "judged", "told")
  /\ state' = [state EXCEPT ![r] = "done"]
  /\ UNCHANGED <<startedAt, late, job, faults>>

\* finishRow, after the log and the notes hold their places in the queue.
FinishRow(r) ==
  /\ turn[r] = "judged" /\ Turn(r, "judged", "told")
  /\ Moves(r, "running", "done") \/ Moves(r, "running", "failed")
  /\ UNCHANGED <<startedAt, late, job, faults>>

\* The process that is to finish the row dies.
FinishLost(r) ==
  /\ turn[r] = "judged" /\ Fault
  /\ Turn(r, "judged", "told")
  /\ UNCHANGED <<rows, late, job>>

-----------------------------------------------------------------------------
(* Faults and time. *)

\* A statement throws, or the process dies.
Abandon(c) ==
  /\ job[c] # Idle /\ Fault
  /\ Return(c)
  /\ UNCHANGED <<rows, late, turn>>

\* pendingMinutes pass.
WaitPasses(r) ==
  /\ r \in Live \ late /\ late' = late \cup {r}
  /\ UNCHANGED <<rows, turn, job, faults>>

Step(c) ==
  \/ Decide(c) \/ Look(c) \/ Count(c) \/ Skip(c) \/ Claim(c) \/ Check(c) \/ StepBack(c)
  \/ Link(c) \/ Send(c) \/ Discard(c) \/ Fail(c)
  \/ Hook(c) \/ Requeue(c) \/ HookStarted(c)
  \/ End(c) \/ Withdraw(c) \/ StopAgain(c)

RunsNext ==
  \/ \E c \in Caller : Step(c) \/ Abandon(c)
  \/ \E r \in Run : \/ \E c \in Caller : Create(c, r)
                    \/ \E p \in Tick : Resolve(p, r) \/ TimeOut(p, r)
                    \/ \E h \in Hand : Stop(h, r)
                    \/ TurnEnds(r) \/ FinishRow(r) \/ FinishLost(r) \/ WaitPasses(r)

RunsSpec == RunsInit /\ [][RunsNext]_runsVars

\* Awaits return, time passes, and a tick goes through every pending row and, in
\* time, finds every running row past its limit.  No turn need end, nobody need click, fail or die.
RunsFairSpec ==
  /\ RunsSpec
  /\ \A c \in Caller : WF_runsVars(Step(c))
  /\ WF_runsVars(\E r \in Run : WaitPasses(r))
  /\ \A r \in Run : SF_runsVars(\E p \in Tick : Resolve(p, r) \/ TimeOut(p, r))

-----------------------------------------------------------------------------
(* Properties. *)

\* Two runs of one automation never run at once, whatever ticks and clicks
\* decide at the same time: each row is there before its caller looks for the
\* others (decideAndStart, previousLive).
OnePerAutomation ==
  \A r, s \in Running : Of[r] = Of[s] => r = s

\* A finished run is final: of a step back, a failed launch, a completion, a
\* timeout and a stop that meet on one row, the first decides.
FinishedStays ==
  [][\A r \in Run : state[r] \in Final => state'[r] = state[r]]_runsVars

\* The brief of a run goes to the box once: while one caller is about to send it
\* no other is, and no turn of it has begun.
BriefOnce ==
  \A c \in Caller : At(c, "send") =>
    /\ turn[job[c].run] = "none"
    /\ \A d \in Caller \ {c} : At(d, "send") => job[d].run # job[c].run

\* Every run that was begun ends: the sweeps end what a death, a lost frame or a
\* box that never answers leaves pending or running.
EveryRunEnds == \A r \in Run : r \in Live ~> state[r] \in Final

\* "After it the box's running rows are ordered and this one steps back if it is
\* beyond the cap; both processes see the same order, so only the excess does"
\* (decideAndStart): the runs that have looked are within the cap.
WithinCap ==
  Cardinality({r \in Running : \A c \in Caller :
     job[c].run = r => job[c].at \notin {"check", "back"}}) <= Cap

=============================================================================
