------------------------ MODULE AutomationRuns_proofs ------------------------
(***************************************************************************)
(* Theorems about AutomationRuns, for any runs, automations and callers.   *)
(*                                                                         *)
(* Nearly every step moves one caller and at most one row; the lemmas of   *)
(* the first part say what such a step leaves, once.                       *)
(***************************************************************************)
EXTENDS AutomationRuns, TLAPS

States == {"none", "pending", "running"} \cup Final

-----------------------------------------------------------------------------
(* What the helpers do. *)

\* A caller that goes on keeps its run and its date.
LEMMA GotoMoves ==
  ASSUME RunsTypeOK, NEW c \in Caller, NEW step \in Steps, job[c] # Idle, Goto(c, step)
  PROVE  /\ job' \in [Caller -> Jobs]
         /\ job'[c] # Idle /\ job'[c].at = step /\ job'[c].run = job[c].run
         /\ job[c].run \in Run
         /\ \A d \in Caller : d # c => job'[d] = job[d]
<1>1. job \in [Caller -> Jobs] /\ job[c] \in [at : Steps, run : Run, now : 0..MaxDate]
  BY DEF RunsTypeOK, Jobs
<1>2. job' = [job EXCEPT ![c] = [job[c] EXCEPT !.at = step]]
  BY <1>1 DEF Goto
<1>3. [job[c] EXCEPT !.at = step] \in [at : Steps, run : Run, now : 0..MaxDate]
  BY <1>1
<1>4. [job[c] EXCEPT !.at = step].at = step /\ [job[c] EXCEPT !.at = step].run = job[c].run
  BY <1>1
<1>5. step # "idle"
  BY DEF Steps
<1>6. job'[c] = [job[c] EXCEPT !.at = step]
  BY <1>1, <1>2
<1>7. job'[c] # Idle
  BY <1>4, <1>5, <1>6 DEF Idle
<1> QED
  BY <1>1, <1>2, <1>3, <1>4, <1>6, <1>7 DEF Jobs

\* A caller that is done is idle.
LEMMA ReturnMoves ==
  ASSUME RunsTypeOK, NEW c \in Caller, Return(c)
  PROVE  /\ job' \in [Caller -> Jobs]
         /\ job'[c] = Idle /\ job'[c].at = "idle"
         /\ \A d \in Caller : d # c => job'[d] = job[d]
<1>1. job \in [Caller -> Jobs] /\ Idle \in Jobs /\ Idle.at = "idle"
  BY DEF RunsTypeOK, Jobs, Idle
<1> QED
  BY <1>1 DEF Return

\* A caller begins on a run.
LEMMA BeginMoves ==
  ASSUME RunsTypeOK, NEW c \in Caller, NEW step \in Steps, NEW r \in Run, Begin(c, step, r)
  PROVE  /\ job' \in [Caller -> Jobs]
         /\ job'[c].at = step /\ job'[c].run = r
         /\ \A d \in Caller : d # c => job'[d] = job[d]
<1>1. PICK n \in 0..MaxDate :
        job' = [job EXCEPT ![c] = [at |-> step, run |-> r, now |-> n]]
  BY DEF Begin
<1>2. job \in [Caller -> Jobs] /\ [at |-> step, run |-> r, now |-> n] \in Jobs
  BY DEF RunsTypeOK, Jobs
<1> QED
  BY <1>1, <1>2

\* A guarded update moves that row, if it is in `from`.
LEMMA MovesOne ==
  ASSUME RunsTypeOK, NEW r \in Run, NEW from, NEW to \in States, Moves(r, from, to)
  PROVE  /\ state' \in [Run -> States]
         /\ state'[r] = IF state[r] = from THEN to ELSE state[r]
         /\ \A s \in Run : s # r => state'[s] = state[s]
  BY DEF RunsTypeOK, Moves, States

\* Moving a turn on changes that turn only, and only if it is where it is expected.
LEMMA TurnMoves ==
  ASSUME RunsTypeOK, NEW r \in Run, NEW from, NEW to \in {"live", "judged", "told"},
         Turn(r, from, to)
  PROVE  /\ turn' \in [Run -> {"none", "live", "judged", "told"}]
         /\ turn'[r] = IF turn[r] = from THEN to ELSE turn[r]
         /\ \A s \in Run : s # r => turn'[s] = turn[s]
  BY DEF RunsTypeOK, Turn

\* A caller that awaits something awaits it for a run that is there.
LEMMA AtARun ==
  ASSUME RunsTypeOK, NEW c \in Caller, NEW step \in Steps, At(c, step)
  PROVE  /\ job[c] # Idle /\ job[c].run \in Run /\ state[job[c].run] # "none"
         /\ job[c].now \in 0..MaxDate
<1>1. job[c] \in Jobs /\ Idle.at = "idle" /\ step # "idle"
  BY DEF RunsTypeOK, Idle, Steps
<1>2. job[c] # Idle
  BY <1>1 DEF At
<1> QED
  BY <1>1, <1>2 DEF Jobs, RunsTypeOK

-----------------------------------------------------------------------------
(* Types. *)

\* A step of one caller that takes no row away keeps the types.
LEMMA OneCallerKeepsTypes ==
  ASSUME RunsTypeOK, NEW c \in Caller,
         job' \in [Caller -> Jobs],
         \A d \in Caller : d # c => job'[d] = job[d],
         job'[c] = Idle \/ state'[job'[c].run] # "none",
         state' \in [Run -> States],
         \A r \in Run : state[r] # "none" => state'[r] # "none",
         startedAt' \in [Run -> 0..MaxDate], late' \in SUBSET Run,
         turn' \in [Run -> {"none", "live", "judged", "told"}],
         faults' \in 0..MaxFaults
  PROVE  RunsTypeOK'
<1>1. ASSUME NEW d \in Caller, job'[d] # Idle PROVE state'[job'[d].run] # "none"
  <2>1. CASE d = c BY <1>1, <2>1
  <2>2. CASE d # c
    <3>1. job[d] = job'[d] /\ job[d] # Idle /\ job[d] \in Jobs
      BY <1>1, <2>2 DEF RunsTypeOK
    <3>2. job[d].run \in Run /\ state[job[d].run] # "none"
      BY <3>1 DEF RunsTypeOK, Jobs
    <3> QED BY <3>1, <3>2
  <2> QED BY <2>1, <2>2
<1> QED
  BY <1>1 DEF RunsTypeOK, States

\* Steps that only take a caller on: from an await to the next, or to its end.
LEMMA GoesOnKeepsTypes ==
  ASSUME RunsTypeOK, NEW c \in Caller, NEW step \in Steps, At(c, step),
         (\E next \in Steps : Goto(c, next)) \/ Return(c),
         state' \in [Run -> States],
         \A r \in Run : state[r] # "none" => state'[r] # "none",
         startedAt' \in [Run -> 0..MaxDate], late' \in SUBSET Run,
         turn' \in [Run -> {"none", "live", "judged", "told"}],
         faults' \in 0..MaxFaults
  PROVE  RunsTypeOK'
<1>1. job[c] # Idle /\ job[c].run \in Run /\ state[job[c].run] # "none"
  BY AtARun
<1>2. CASE \E next \in Steps : Goto(c, next)
  <2>1. PICK next \in Steps : Goto(c, next) BY <1>2
  <2> QED BY <1>1, <2>1, GotoMoves, OneCallerKeepsTypes
<1>3. CASE Return(c)
  BY <1>3, ReturnMoves, OneCallerKeepsTypes
<1> QED
  BY <1>2, <1>3

\* Every step keeps the types.
LEMMA TypesKept == RunsTypeOK /\ [RunsNext]_runsVars => RunsTypeOK'
<1> SUFFICES ASSUME RunsTypeOK, [RunsNext]_runsVars PROVE RunsTypeOK'
  OBVIOUS
<1> DEFINE Same == UNCHANGED <<rows, late, turn, faults>>
<1>0. /\ state \in [Run -> States] /\ startedAt \in [Run -> 0..MaxDate]
      /\ late \in SUBSET Run /\ turn \in [Run -> {"none", "live", "judged", "told"}]
      /\ faults \in 0..MaxFaults
  BY DEF RunsTypeOK, States
<1>z. 0 \in 0..MaxDate
  BY RunsAssumption
<1>m. ASSUME NEW r \in Run, NEW from \in States, NEW to \in States \ {"none"}, Moves(r, from, to)
      PROVE  state' \in [Run -> States] /\ \A s \in Run : state[s] # "none" => state'[s] # "none"
  <2>1. /\ state'[r] = IF state[r] = from THEN to ELSE state[r]
        /\ \A s \in Run : s # r => state'[s] = state[s]
        /\ state' \in [Run -> States]
    BY <1>m, MovesOne
  <2> QED BY <2>1
<1>1. ASSUME NEW c \in Caller, Step(c) PROVE RunsTypeOK'
  <2> USE <1>0
  <2>1. CASE Decide(c) \/ Look(c)
    BY <2>1, GoesOnKeepsTypes DEF Decide, Look, rows, Steps
  <2>2. CASE Count(c)
    BY <2>2, GoesOnKeepsTypes DEF Count, rows, Steps
  <2>3. CASE Skip(c)
    <3>1. At(c, "skip") /\ Return(c) BY <2>3 DEF Skip
    <3>2. job[c].run \in Run BY <3>1, AtARun DEF Steps
    <3> QED BY <2>3, <3>1, <3>2, <1>m, GoesOnKeepsTypes DEF Skip, rows, Steps, States, Final
  <2>4. CASE Claim(c)
    <3>1. At(c, "claim") BY <2>4 DEF Claim
    <3>2. job[c].run \in Run /\ job[c].now \in 0..MaxDate BY <3>1, AtARun DEF Steps
    <3>3. state' \in [Run -> States] /\ startedAt' \in [Run -> 0..MaxDate]
      BY <2>4, <3>2 DEF Claim, States
    <3>4. \A r \in Run : state[r] # "none" => state'[r] # "none"
      BY <2>4, <3>2 DEF Claim, States
    <3> QED BY <2>4, <3>1, <3>3, <3>4, GoesOnKeepsTypes DEF Claim, Steps
  <2>5. CASE Check(c)
    BY <2>5, GoesOnKeepsTypes DEF Check, rows, Steps
  <2>6. CASE StepBack(c)
    <3>1. At(c, "back") /\ Return(c) BY <2>6 DEF StepBack
    <3>2. job[c].run \in Run BY <3>1, AtARun DEF Steps
    <3>3. startedAt' \in [Run -> 0..MaxDate] BY <2>6, <3>2, <1>z DEF StepBack
    <3> QED BY <2>6, <3>1, <3>2, <3>3, <1>m, GoesOnKeepsTypes DEF StepBack, Steps, States, Final
  <2>7. CASE Link(c)
    BY <2>7, GoesOnKeepsTypes DEF Link, rows, Steps
  <2>8. CASE Send(c)
    <3>1. At(c, "send") BY <2>8 DEF Send
    <3>2. job[c].run \in Run BY <3>1, AtARun DEF Steps
    <3>3. turn' \in [Run -> {"none", "live", "judged", "told"}]
      BY <2>8, <3>2, TurnMoves DEF Send
    <3> QED BY <2>8, <3>1, <3>3, GoesOnKeepsTypes DEF Send, rows, Steps
  <2>9. CASE Discard(c)
    <3>1. At(c, "discard") BY <2>9 DEF Discard
    <3>2. job[c].run \in Run BY <3>1, AtARun DEF Steps
    <3>3. turn' \in [Run -> {"none", "live", "judged", "told"}]
      BY <2>9, <3>2, TurnMoves DEF Discard
    <3> QED BY <2>9, <3>1, <3>3, GoesOnKeepsTypes DEF Discard, rows, Steps
  <2>10. CASE Fail(c)
    <3>1. At(c, "fail") /\ Return(c) BY <2>10 DEF Fail
    <3>2. job[c].run \in Run BY <3>1, AtARun DEF Steps
    <3> QED BY <2>10, <3>1, <3>2, <1>m, GoesOnKeepsTypes DEF Fail, Steps, States, Final
  <2>11. CASE Hook(c)
    BY <2>11, GoesOnKeepsTypes DEF Hook, rows, Steps
  <2>12. CASE Requeue(c)
    <3>1. At(c, "requeue") /\ Return(c) BY <2>12 DEF Requeue
    <3>2. job[c].run \in Run BY <3>1, AtARun DEF Steps
    <3>3. startedAt' \in [Run -> 0..MaxDate] BY <2>12, <3>2, <1>z DEF Requeue
    <3> QED BY <2>12, <3>1, <3>2, <3>3, <1>m, GoesOnKeepsTypes DEF Requeue, Steps, States, Final
  <2>13. CASE HookStarted(c)
    <3>1. At(c, "started") /\ Return(c) BY <2>13 DEF HookStarted
    <3>2. job[c].run \in Run BY <3>1, AtARun DEF Steps
    <3> QED BY <2>13, <3>1, <3>2, <1>m, GoesOnKeepsTypes DEF HookStarted, Steps, States, Final
  <2>14. CASE End(c)
    <3>1. At(c, "end") /\ Return(c) BY <2>14 DEF End
    <3>2. job[c].run \in Run BY <3>1, AtARun DEF Steps
    <3> QED BY <2>14, <3>1, <3>2, <1>m, GoesOnKeepsTypes DEF End, Steps, States, Final
  <2>15. CASE Withdraw(c)
    <3>1. At(c, "withdraw") BY <2>15 DEF Withdraw
    <3>2. job[c].run \in Run BY <3>1, AtARun DEF Steps
    <3> QED BY <2>15, <3>1, <3>2, <1>m, GoesOnKeepsTypes DEF Withdraw, Steps, States, Final
  <2>16. CASE StopAgain(c)
    BY <2>16, GoesOnKeepsTypes DEF StopAgain, rows, Steps
  <2> QED
    BY <1>1, <2>1, <2>2, <2>3, <2>4, <2>5, <2>6, <2>7, <2>8, <2>9, <2>10, <2>11,
       <2>12, <2>13, <2>14, <2>15, <2>16 DEF Step
<1>2. ASSUME NEW c \in Caller, Abandon(c) PROVE RunsTypeOK'
  BY <1>0, <1>2, ReturnMoves, OneCallerKeepsTypes, RunsAssumption DEF Abandon, Fault, rows
<1>3. ASSUME NEW c \in Caller, NEW r \in Run, Create(c, r) PROVE RunsTypeOK'
  <2>1. Begin(c, "decide", r) /\ state' = [state EXCEPT ![r] = "pending"]
        /\ UNCHANGED <<startedAt, late, turn, faults>>
    BY <1>3 DEF Create
  <2>2. state' \in [Run -> States] /\ state'[r] = "pending"
        /\ \A s \in Run : state[s] # "none" => state'[s] # "none"
    BY <1>0, <2>1 DEF States
  <2> QED BY <1>0, <2>1, <2>2, BeginMoves, OneCallerKeepsTypes DEF Steps
<1>4. ASSUME NEW c \in Caller, NEW r \in Run,
             Resolve(c, r) \/ TimeOut(c, r) \/ Stop(c, r)
      PROVE  RunsTypeOK'
  <2>1. PICK step \in Steps : Begin(c, step, r)
    BY <1>4 DEF Resolve, TimeOut, Stop, Steps
  <2>2. state[r] # "none" /\ UNCHANGED <<rows, late, turn, faults>>
    BY <1>4 DEF Resolve, TimeOut, Stop, Live, Running
  <2> QED BY <1>0, <2>1, <2>2, BeginMoves, OneCallerKeepsTypes DEF rows
<1>5. ASSUME NEW r \in Run, TurnEnds(r) \/ FinishRow(r) \/ FinishLost(r) \/ WaitPasses(r)
      PROVE  RunsTypeOK'
  <2>1. UNCHANGED job /\ UNCHANGED startedAt
    BY <1>5 DEF TurnEnds, FinishRow, FinishLost, WaitPasses, rows
  <2>2. state' \in [Run -> States] /\ \A s \in Run : state[s] # "none" => state'[s] # "none"
    BY <1>0, <1>5, <1>m DEF TurnEnds, FinishRow, FinishLost, WaitPasses, rows, States, Final
  <2>3. turn' \in [Run -> {"none", "live", "judged", "told"}] /\ late' \in SUBSET Run
        /\ faults' \in 0..MaxFaults
    <3>1. CASE TurnEnds(r)
      BY <1>0, <3>1, TurnMoves DEF TurnEnds
    <3>2. CASE FinishRow(r)
      BY <1>0, <3>2, TurnMoves DEF FinishRow
    <3>3. CASE FinishLost(r)
      <4>1. turn' \in [Run -> {"none", "live", "judged", "told"}] /\ UNCHANGED late
        BY <3>3, TurnMoves DEF FinishLost
      <4>2. faults' \in 0..MaxFaults
        BY <1>0, <3>3, RunsAssumption DEF FinishLost, Fault
      <4> QED BY <1>0, <4>1, <4>2
    <3>4. CASE WaitPasses(r)
      BY <1>0, <3>4 DEF WaitPasses
    <3> QED BY <1>5, <3>1, <3>2, <3>3, <3>4
  <2>4. job \in [Caller -> Jobs] /\ \A c \in Caller : job[c] # Idle => state[job[c].run] # "none"
    BY DEF RunsTypeOK
  <2>5. \A c \in Caller : job[c] # Idle => job[c].run \in Run
    BY <2>4 DEF Jobs
  <2>6. \A c \in Caller : job'[c] # Idle => state'[job'[c].run] # "none"
    BY <2>1, <2>2, <2>4, <2>5
  <2> QED BY <1>0, <2>1, <2>2, <2>3, <2>4, <2>6 DEF RunsTypeOK, States
<1>6. CASE UNCHANGED runsVars
  BY <1>6 DEF runsVars, rows, RunsTypeOK
<1> QED
  BY <1>1, <1>2, <1>3, <1>4, <1>5, <1>6 DEF RunsNext, Caller

\* Types hold for any number of runs, callers and faults (RunsTypeOK).
THEOREM RunsTypeCorrect == RunsSpec => []RunsTypeOK
<1>1. RunsInit => RunsTypeOK
  BY RunsAssumption DEF RunsInit, RunsTypeOK, Jobs
<1> QED
  BY <1>1, TypesKept, PTL DEF RunsSpec

-----------------------------------------------------------------------------
(* One run per automation. *)

\* r runs, or a caller that found no other live run is about to claim it.
Chosen(r) ==
  \/ state[r] = "running"
  \/ /\ state[r] = "pending"
     /\ \E c \in Caller : job[c].at \in {"count", "claim"} /\ job[c].run = r

OneChosen == \A r, s \in Run : Chosen(r) /\ Chosen(s) /\ Of[r] = Of[s] => r = s

\* A step that starts nothing new, and takes no caller past the look at the
\* other live runs, chooses no run.
LEMMA NoneChosen ==
  ASSUME RunsTypeOK, NEW r \in Run,
         state'[r] = "running" => Chosen(r),
         state'[r] = "pending" => state[r] \in {"none", "pending", "running"},
         \A d \in Caller : job'[d].at \in {"count", "claim"} =>
           job[d].at \in {"count", "claim"} /\ job'[d].run = job[d].run
  PROVE  Chosen(r)' => Chosen(r)
<1> SUFFICES ASSUME state'[r] = "pending", NEW d \in Caller,
                    job'[d].at \in {"count", "claim"}, job'[d].run = r
             PROVE  Chosen(r)
  BY DEF Chosen
<1>1. job[d].at \in {"count", "claim"} /\ job[d].run = r
  OBVIOUS
<1>2. job[d] # Idle
  BY <1>1 DEF Idle
<1>3. state[r] # "none"
  BY <1>1, <1>2 DEF RunsTypeOK
<1> QED BY <1>1, <1>3 DEF Chosen

\* No row starts to run but by a claim, and no finished row is pending again.
LEMMA StartsByClaim ==
  ASSUME RunsTypeOK, RunsNext, NEW r \in Run
  PROVE  /\ state'[r] = "running" => Chosen(r)
         /\ state[r] \in Final => state'[r] = state[r]
<1> DEFINE P == /\ state'[r] = "running" => Chosen(r)
                /\ state[r] \in Final => state'[r] = state[r]
<1>u. ASSUME UNCHANGED state PROVE P
  BY <1>u DEF Chosen
<1>m. ASSUME NEW s \in Run, NEW from \in {"pending", "running"},
             NEW to \in {"pending", "skipped", "failed", "done"}, Moves(s, from, to)
      PROVE  P
  <2>1. /\ state'[s] = IF state[s] = from THEN to ELSE state[s]
        /\ r # s => state'[r] = state[r]
    BY <1>m, MovesOne DEF States, Final
  <2> QED BY <2>1 DEF Chosen, Final
<1>1. ASSUME NEW c \in Caller, Step(c) PROVE P
  <2>r. ASSUME NEW step \in Steps, At(c, step) PROVE job[c].run \in Run
    BY <2>r, AtARun
  <2>1. CASE Skip(c) \/ StepBack(c) \/ Fail(c)
    BY <2>1, <2>r, <1>m DEF Skip, StepBack, Fail, Steps
  <2>2. CASE Requeue(c) \/ HookStarted(c) \/ End(c) \/ Withdraw(c)
    BY <2>2, <2>r, <1>m DEF Requeue, HookStarted, End, Withdraw, Steps
  <2>3. CASE Claim(c)
    <3>1. job[c].run \in Run /\ job[c].at = "claim"
      BY <2>3, <2>r DEF Claim, Steps, At
    <3>2. CASE state[job[c].run] = "pending"
      <4>1. state' = [state EXCEPT ![job[c].run] = "running"] BY <2>3, <3>2 DEF Claim
      <4>2. state'[r] = IF r = job[c].run THEN "running" ELSE state[r]
        BY <3>1, <4>1 DEF RunsTypeOK
      <4> QED BY <3>1, <3>2, <4>2 DEF Chosen, Final
    <3>3. CASE state[job[c].run] # "pending"
      BY <2>3, <3>3, <1>u DEF Claim
    <3> QED BY <3>2, <3>3
  <2>4. CASE Decide(c) \/ Look(c) \/ Count(c) \/ Check(c) \/ Link(c)
    BY <2>4, <1>u DEF Decide, Look, Count, Check, Link, rows
  <2>5. CASE Send(c) \/ Discard(c) \/ Hook(c) \/ StopAgain(c)
    BY <2>5, <1>u DEF Send, Discard, Hook, StopAgain, rows
  <2> QED BY <1>1, <2>1, <2>2, <2>3, <2>4, <2>5 DEF Step
<1>2. ASSUME NEW c \in Caller, Abandon(c) PROVE P
  BY <1>2, <1>u DEF Abandon, rows
<1>3. ASSUME NEW c \in Caller, NEW s \in Run, Create(c, s) PROVE P
  <2>1. state[s] = "none" /\ state' = [state EXCEPT ![s] = "pending"] BY <1>3 DEF Create
  <2>2. state'[r] = IF r = s THEN "pending" ELSE state[r] BY <2>1 DEF RunsTypeOK
  <2> QED BY <2>1, <2>2 DEF Chosen, Final
<1>4. ASSUME NEW c \in Caller, NEW s \in Run,
             Resolve(c, s) \/ TimeOut(c, s) \/ Stop(c, s)
      PROVE  P
  BY <1>4, <1>u DEF Resolve, TimeOut, Stop, rows
<1>5. ASSUME NEW s \in Run, TurnEnds(s) \/ FinishLost(s) \/ WaitPasses(s) PROVE P
  BY <1>5, <1>u DEF TurnEnds, FinishLost, WaitPasses, rows
<1>6. ASSUME NEW s \in Run, FinishRow(s) PROVE P
  BY <1>6, <1>m DEF FinishRow
<1> QED
  BY <1>1, <1>2, <1>3, <1>4, <1>5, <1>6 DEF RunsNext, Caller

\* A caller is taken past the look at the other live runs by Look only.
LEMMA LooksOnce ==
  ASSUME RunsTypeOK, RunsNext, \A c \in Caller : ~Look(c), NEW d \in Caller,
         job'[d].at \in {"count", "claim"}
  PROVE  job[d].at \in {"count", "claim"} /\ job'[d].run = job[d].run
<1> DEFINE P == job[d].at \in {"count", "claim"} /\ job'[d].run = job[d].run
<1>b. ASSUME NEW c \in Caller, NEW step \in Steps \ {"count", "claim"}, NEW r \in Run,
             Begin(c, step, r)
      PROVE  P
  <2>1. job'[c].at = step /\ (d # c => job'[d] = job[d])
    BY <1>b, BeginMoves
  <2> QED BY <2>1
<1>g. ASSUME NEW c \in Caller, job[c] # Idle,
             NEW step \in Steps \ {"count", "claim"}, Goto(c, step)
      PROVE  P
  <2>1. job'[c].at = step /\ (d # c => job'[d] = job[d])
    BY <1>g, GotoMoves
  <2> QED BY <2>1
<1>r. ASSUME NEW c \in Caller, Return(c) PROVE P
  <2>1. job'[c].at = "idle" /\ (d # c => job'[d] = job[d])
    BY <1>r, ReturnMoves
  <2> QED BY <2>1
<1>1. ASSUME NEW c \in Caller, Step(c) PROVE P
  <2>a. ASSUME NEW step \in Steps, At(c, step) PROVE job[c] # Idle
    BY <2>a, AtARun
  <2>0. CASE Decide(c)
    BY <2>0, <2>a, <1>g, <1>r DEF Decide, Steps
  <2>1. CASE Skip(c) \/ StepBack(c) \/ Fail(c) \/ Requeue(c) \/ HookStarted(c) \/ End(c)
    BY <2>1, <1>r DEF Skip, StepBack, Fail, Requeue, HookStarted, End
  <2>2. CASE Claim(c) \/ Check(c) \/ Link(c) \/ Send(c)
    BY <2>2, <2>a, <1>g, <1>r DEF Claim, Check, Link, Send, Steps
  <2>3. CASE Discard(c) \/ Hook(c) \/ Withdraw(c) \/ StopAgain(c)
    BY <2>3, <2>a, <1>g, <1>r DEF Discard, Hook, Withdraw, StopAgain, Steps
  <2>4. CASE Count(c)
    <3>1. job[c].at = "count" /\ job[c] # Idle BY <2>4, <2>a DEF Count, At, Steps
    <3>2. CASE Goto(c, "claim")
      <4>1. job'[c].run = job[c].run /\ (d # c => job'[d] = job[d])
        BY <3>1, <3>2, GotoMoves DEF Steps
      <4> QED BY <3>1, <4>1
    <3>3. CASE Goto(c, "skip") \/ Return(c)
      BY <3>1, <3>3, <1>g, <1>r DEF Steps
    <3> QED BY <2>4, <3>2, <3>3 DEF Count
  <2> QED BY <1>1, <2>0, <2>1, <2>2, <2>3, <2>4 DEF Step
<1>2. ASSUME NEW c \in Caller, Abandon(c) PROVE P
  BY <1>2, <1>r DEF Abandon
<1>3. ASSUME NEW c \in Caller, NEW r \in Run,
             Create(c, r) \/ Resolve(c, r) \/ TimeOut(c, r) \/ Stop(c, r)
      PROVE  P
  BY <1>3, <1>b DEF Create, Resolve, TimeOut, Stop, Steps
<1>4. ASSUME NEW r \in Run, TurnEnds(r) \/ FinishRow(r) \/ FinishLost(r) \/ WaitPasses(r)
      PROVE  P
  BY <1>4 DEF TurnEnds, FinishRow, FinishLost, WaitPasses
<1> QED
  BY <1>1, <1>2, <1>3, <1>4 DEF RunsNext, Caller

\* Every step keeps one chosen run per automation: the look chooses, and it finds
\* none live.
LEMMA OneChosenKept == RunsTypeOK /\ OneChosen /\ [RunsNext]_runsVars => OneChosen'
<1> SUFFICES ASSUME RunsTypeOK, OneChosen, [RunsNext]_runsVars PROVE OneChosen'
  OBVIOUS
<1>1. CASE UNCHANGED runsVars
  BY <1>1 DEF runsVars, rows, OneChosen, Chosen
<1>2. CASE RunsNext /\ \A c \in Caller : ~Look(c)
  <2>1. ASSUME NEW r \in Run PROVE Chosen(r)' => Chosen(r)
    <3>1. state[r] \in States /\ (state'[r] = "running" => Chosen(r))
          /\ (state'[r] = "pending" => state[r] \in {"none", "pending", "running"})
      BY <1>2, StartsByClaim DEF RunsTypeOK, States, Final
    <3> QED BY <1>2, <3>1, LooksOnce, NoneChosen
  <2> QED BY <2>1 DEF OneChosen
<1>3. ASSUME NEW c \in Caller, Look(c) PROVE OneChosen'
  <2> DEFINE r == job[c].run
  <2>1. /\ job[c] # Idle /\ r \in Run /\ UNCHANGED state
        /\ At(c, "look")
    BY <1>3, AtARun DEF Look, rows, Steps
  <2>2. \A d \in Caller : d # c => job'[d] = job[d]
    BY <1>3, <2>1, GotoMoves, ReturnMoves DEF Look, Steps
  <2>3. CASE Previous(r) = {} /\ Goto(c, "count")
    <3>1. job'[c].run = r BY <2>1, <2>3, GotoMoves DEF Steps
    <3>2. \A s \in Run : Chosen(s)' => Chosen(s) \/ s = r
      BY <2>1, <2>2, <3>1 DEF Chosen
    <3>3. \A s \in Run : Chosen(s) /\ Of[s] = Of[r] => s = r
      BY <2>1, <2>3 DEF Chosen, Previous, Live
    <3> QED BY <3>2, <3>3, <2>1 DEF OneChosen
  <2>4. CASE Goto(c, "skip")
    <3>1. job'[c].at \in {"skip"}
      BY <2>1, <2>4, GotoMoves, ReturnMoves DEF Steps
    <3>2. \A s \in Run : Chosen(s)' => Chosen(s)
      BY <2>1, <2>2, <3>1 DEF Chosen
    <3> QED BY <3>2 DEF OneChosen
  <2> QED BY <1>3, <2>3, <2>4 DEF Look
<1> QED BY <1>1, <1>2, <1>3

\* Two runs of one automation never run at once, whatever ticks and clicks
\* decide at the same time (OnePerAutomation).
THEOREM OnePerAutomationTheorem == RunsSpec => []OnePerAutomation
<1>1. RunsInit => RunsTypeOK /\ OneChosen
  BY RunsAssumption DEF RunsInit, RunsTypeOK, Jobs, OneChosen, Chosen
<1>2. RunsTypeOK /\ OneChosen /\ [RunsNext]_runsVars => (RunsTypeOK /\ OneChosen)'
  BY TypesKept, OneChosenKept
<1>3. OneChosen => OnePerAutomation
  BY DEF OneChosen, OnePerAutomation, Chosen, Running
<1> QED
  BY <1>1, <1>2, <1>3, PTL DEF RunsSpec

\* A finished run is final, whichever writers meet on its row (FinishedStays).
THEOREM FinishedStaysTheorem == RunsSpec => FinishedStays
<1>1. ASSUME RunsTypeOK, [RunsNext]_runsVars
      PROVE  [\A r \in Run : state[r] \in Final => state'[r] = state[r]]_runsVars
  <2>1. CASE RunsNext
    BY <1>1, <2>1, StartsByClaim
  <2>2. CASE UNCHANGED runsVars
    BY <2>2
  <2> QED BY <1>1, <2>1, <2>2
<1>2. RunsSpec => []RunsTypeOK
  BY RunsTypeCorrect
<1> QED
  BY <1>1, <1>2, PTL DEF RunsSpec, FinishedStays

-----------------------------------------------------------------------------
(* One brief per run. *)

Chat == {r \in Run : Of[r] \notin T3}
Past(r) == state[r] \notin {"none", "pending"}

\* A caller that claimed the row of a chat run and has not sent its brief yet.
Holds(c) == job[c].at \in {"check", "link", "send"} /\ job[c].run \in Chat

\* Briefs are sent for chat runs only, webhooks called for the others.
Kinds ==
  \A c \in Caller :
    /\ job[c].at \in {"hook", "requeue", "started"} => Of[job[c].run] \in T3
    /\ job[c].at \in {"link", "send"} => Of[job[c].run] \notin T3

\* A claimed chat run has one holder, as long as its turn has not begun.
OneHolder ==
  \A c \in Caller : Holds(c) =>
    /\ Past(job[c].run) /\ turn[job[c].run] = "none"
    /\ \A d \in Caller \ {c} : Holds(d) => job[d].run # job[c].run

\* A turn is a claimed chat run's.
TurnClaimed == \A r \in Run : turn[r] # "none" => r \in Chat /\ Past(r)

BriefInv == RunsTypeOK /\ Kinds /\ OneHolder /\ TurnClaimed

\* A claimed chat run is never pending again: only a webhook is put off.
LEMMA PastStays ==
  ASSUME RunsTypeOK, Kinds, RunsNext, NEW r \in Chat, Past(r)
  PROVE  Past(r)'
<1> r \in Run BY DEF Chat
<1>u. ASSUME UNCHANGED state PROVE Past(r)'
  BY <1>u DEF Past
<1>m. ASSUME NEW s \in Run, NEW from \in States,
             NEW to \in {"skipped", "failed", "done"}, Moves(s, from, to)
      PROVE  Past(r)'
  <2>1. /\ state'[s] = IF state[s] = from THEN to ELSE state[s]
        /\ r # s => state'[r] = state[r]
    BY <1>m, MovesOne DEF States, Final
  <2> QED BY <2>1 DEF Past
<1>1. ASSUME NEW c \in Caller, Step(c) PROVE Past(r)'
  <2>r. ASSUME NEW step \in Steps, At(c, step) PROVE job[c].run \in Run
    BY <2>r, AtARun
  <2>1. CASE Skip(c) \/ StepBack(c) \/ Fail(c)
    BY <2>1, <2>r, <1>m DEF Skip, StepBack, Fail, Steps, States
  <2>2. CASE HookStarted(c) \/ End(c) \/ Withdraw(c)
    BY <2>2, <2>r, <1>m DEF HookStarted, End, Withdraw, Steps, States
  <2>3. CASE Claim(c)
    BY <2>3 DEF Claim, RunsTypeOK, Past
  <2>4. CASE Requeue(c)
    <3>1. At(c, "requeue") /\ Moves(job[c].run, "running", "pending")
      BY <2>4 DEF Requeue
    <3>2. job[c].run \in Run /\ job[c].run # r
      BY <3>1, <2>r DEF Kinds, At, Chat, Steps
    <3>3. state'[r] = state[r]
      BY <3>1, <3>2, MovesOne DEF States
    <3> QED BY <3>3 DEF Past
  <2>5. CASE Decide(c) \/ Look(c) \/ Count(c) \/ Check(c) \/ Link(c)
    BY <2>5, <1>u DEF Decide, Look, Count, Check, Link, rows
  <2>6. CASE Send(c) \/ Discard(c) \/ Hook(c) \/ StopAgain(c)
    BY <2>6, <1>u DEF Send, Discard, Hook, StopAgain, rows
  <2> QED BY <1>1, <2>1, <2>2, <2>3, <2>4, <2>5, <2>6 DEF Step
<1>2. ASSUME NEW c \in Caller, Abandon(c) PROVE Past(r)'
  BY <1>2, <1>u DEF Abandon, rows
<1>3. ASSUME NEW c \in Caller, NEW s \in Run, Create(c, s) PROVE Past(r)'
  BY <1>3 DEF Create, RunsTypeOK, Past
<1>4. ASSUME NEW c \in Caller, NEW s \in Run,
             Resolve(c, s) \/ TimeOut(c, s) \/ Stop(c, s)
      PROVE  Past(r)'
  BY <1>4, <1>u DEF Resolve, TimeOut, Stop, rows
<1>5. ASSUME NEW s \in Run, TurnEnds(s) \/ FinishLost(s) \/ WaitPasses(s) PROVE Past(r)'
  BY <1>5, <1>u DEF TurnEnds, FinishLost, WaitPasses, rows
<1>6. ASSUME NEW s \in Run, FinishRow(s) PROVE Past(r)'
  BY <1>6, <1>m DEF FinishRow, States
<1> QED
  BY <1>1, <1>2, <1>3, <1>4, <1>5, <1>6 DEF RunsNext, Caller

\* What a caller's next await may be, from the one it is at.
LEMMA Awaits ==
  ASSUME RunsTypeOK, RunsNext, NEW d \in Caller, job'[d] # job[d]
  PROVE  \/ job'[d].at \notin {"check", "link", "send", "hook", "requeue", "started"}
         \/ /\ job'[d].run = job[d].run /\ job[d].run \in Run
            /\ \/ /\ Claim(d) /\ job'[d].at = "check" /\ state[job[d].run] = "pending"
                  /\ state' = [state EXCEPT ![job[d].run] = "running"]
               \/ /\ Check(d)
                  /\ IF Of[job[d].run] \in T3 THEN job'[d].at = "hook"
                                              ELSE job'[d].at = "link"
               \/ Link(d) /\ job'[d].at = "send"
               \/ Hook(d) /\ job'[d].at \in {"requeue", "started"}
<1> DEFINE Other == job'[d].at \notin {"check", "link", "send", "hook", "requeue", "started"}
           Same == job'[d].run = job[d].run /\ job[d].run \in Run
<1>b. ASSUME NEW c \in Caller, NEW step \in {"decide", "skip", "end", "withdraw"},
             NEW r \in Run, Begin(c, step, r)
      PROVE  Other
  <2>1. job'[c].at = step /\ (d # c => job'[d] = job[d])
    BY <1>b, BeginMoves DEF Steps
  <2> QED BY <2>1
<1>g. ASSUME NEW c \in Caller, job[c] # Idle, NEW step \in Steps, Goto(c, step)
      PROVE  c = d /\ job'[d].at = step /\ Same
  BY <1>g, GotoMoves
<1>r. ASSUME NEW c \in Caller, Return(c) PROVE Other
  <2>1. job'[c].at = "idle" /\ (d # c => job'[d] = job[d])
    BY <1>r, ReturnMoves
  <2> QED BY <2>1
<1>1. ASSUME NEW c \in Caller, Step(c)
      PROVE  \/ Other
             \/ /\ Same
                /\ \/ /\ Claim(d) /\ job'[d].at = "check" /\ state[job[d].run] = "pending"
                      /\ state' = [state EXCEPT ![job[d].run] = "running"]
                   \/ /\ Check(d)
                      /\ IF Of[job[d].run] \in T3 THEN job'[d].at = "hook"
                                                  ELSE job'[d].at = "link"
                   \/ Link(d) /\ job'[d].at = "send"
                   \/ Hook(d) /\ job'[d].at \in {"requeue", "started"}
  <2>a. ASSUME NEW step \in Steps, At(c, step) PROVE job[c] # Idle
    BY <2>a, AtARun
  <2>1. CASE Skip(c) \/ StepBack(c) \/ Fail(c) \/ Requeue(c) \/ HookStarted(c) \/ End(c)
    BY <2>1, <1>r DEF Skip, StepBack, Fail, Requeue, HookStarted, End
  <2>2. CASE Decide(c) \/ Look(c) \/ Count(c) \/ Send(c)
    BY <2>2, <2>a, <1>g, <1>r DEF Decide, Look, Count, Send, Steps
  <2>3. CASE Discard(c) \/ Withdraw(c) \/ StopAgain(c)
    BY <2>3, <2>a, <1>g, <1>r DEF Discard, Withdraw, StopAgain, Steps
  <2>4. CASE Claim(c)
    <3>1. job[c] # Idle BY <2>4, <2>a DEF Claim, Steps
    <3>2. CASE state[job[c].run] = "pending"
      <4>1. Goto(c, "check") BY <2>4, <3>2 DEF Claim
      <4>2. c = d /\ job'[d].at = "check" /\ Same BY <3>1, <4>1, <1>g DEF Steps
      <4> QED BY <2>4, <3>2, <4>2 DEF Claim
    <3>3. CASE state[job[c].run] # "pending"
      BY <2>4, <3>3, <1>r DEF Claim
    <3> QED BY <3>2, <3>3
  <2>5. CASE Check(c)
    <3>1. job[c] # Idle BY <2>5, <2>a DEF Check, Steps
    <3>2. CASE Goto(c, "back")
      BY <3>1, <3>2, <1>g DEF Steps
    <3>3. CASE Goto(c, IF Of[job[c].run] \in T3 THEN "hook" ELSE "link")
      <4>1. CASE Of[job[c].run] \in T3
        <5>1. c = d /\ job'[d].at = "hook" /\ Same BY <3>1, <3>3, <4>1, <1>g DEF Steps
        <5> QED BY <2>5, <4>1, <5>1
      <4>2. CASE Of[job[c].run] \notin T3
        <5>1. c = d /\ job'[d].at = "link" /\ Same BY <3>1, <3>3, <4>2, <1>g DEF Steps
        <5> QED BY <2>5, <4>2, <5>1
      <4> QED BY <4>1, <4>2
    <3> QED BY <2>5, <3>2, <3>3 DEF Check
  <2>6. CASE Link(c)
    <3>1. job[c] # Idle BY <2>6, <2>a DEF Link, Steps
    <3>2. CASE Goto(c, "fail") BY <3>1, <3>2, <1>g DEF Steps
    <3>3. CASE Goto(c, "send")
      <4>1. c = d /\ job'[d].at = "send" /\ Same BY <3>1, <3>3, <1>g DEF Steps
      <4> QED BY <2>6, <4>1
    <3> QED BY <2>6, <3>2, <3>3 DEF Link
  <2>7. CASE Hook(c)
    <3>1. job[c] # Idle BY <2>7, <2>a DEF Hook, Steps
    <3>2. CASE Goto(c, "fail") BY <3>1, <3>2, <1>g DEF Steps
    <3>3. ASSUME NEW step \in {"requeue", "started"}, Goto(c, step)
          PROVE  Same /\ Hook(d) /\ job'[d].at \in {"requeue", "started"}
      <4>1. c = d /\ job'[d].at = step /\ Same BY <3>1, <3>3, <1>g DEF Steps
      <4> QED BY <2>7, <4>1
    <3> QED BY <2>7, <3>2, <3>3 DEF Hook
  <2> QED BY <1>1, <2>1, <2>2, <2>3, <2>4, <2>5, <2>6, <2>7 DEF Step
<1>2. ASSUME NEW c \in Caller, Abandon(c) PROVE Other
  BY <1>2, <1>r DEF Abandon
<1>3. ASSUME NEW c \in Caller, NEW r \in Run,
             Create(c, r) \/ Resolve(c, r) \/ TimeOut(c, r) \/ Stop(c, r)
      PROVE  Other
  BY <1>3, <1>b DEF Create, Resolve, TimeOut, Stop
<1>4. ASSUME NEW r \in Run, TurnEnds(r) \/ FinishRow(r) \/ FinishLost(r) \/ WaitPasses(r)
      PROVE  FALSE
  BY <1>4 DEF TurnEnds, FinishRow, FinishLost, WaitPasses
<1> QED
  BY <1>1, <1>2, <1>3, <1>4 DEF RunsNext, Caller

\* A turn begins by its run's brief.
LEMMA BeginsBySend ==
  ASSUME RunsTypeOK, RunsNext, NEW r \in Run, turn[r] = "none", turn'[r] # "none"
  PROVE  \E c \in Caller : /\ job[c].at = "send" /\ job[c].run = r
                           /\ job'[c].at \in {"idle", "discard"}
<1> DEFINE P == \E c \in Caller : /\ job[c].at = "send" /\ job[c].run = r
                                  /\ job'[c].at \in {"idle", "discard"}
<1>u. ASSUME UNCHANGED turn PROVE P
  BY <1>u
<1>t. ASSUME NEW s \in Run, NEW from \in {"live", "judged"}, NEW to \in {"judged", "told"},
             Turn(s, from, to)
      PROVE  P
  <2>1. turn'[s] = (IF turn[s] = from THEN to ELSE turn[s]) /\ (r # s => turn'[r] = turn[r])
    BY <1>t, TurnMoves
  <2> QED BY <2>1
<1>1. ASSUME NEW c \in Caller, Step(c) PROVE P
  <2>1. CASE Send(c)
    <3>1. job[c] # Idle /\ job[c].run \in Run /\ job[c].at = "send"
      BY <2>1, AtARun DEF Send, Steps, At
    <3>2. job'[c].at \in {"idle", "discard"}
      BY <2>1, <3>1, GotoMoves, ReturnMoves DEF Send, Steps
    <3>3. Turn(job[c].run, "none", "live")
      BY <2>1, <1>u DEF Send
    <3>4. job[c].run = r
      BY <3>1, <3>3, TurnMoves
    <3> QED BY <3>1, <3>2, <3>4
  <2>2. CASE Discard(c)
    <3>1. job[c].run \in Run BY <2>2, AtARun DEF Discard, Steps
    <3> QED BY <2>2, <3>1, <1>t, <1>u DEF Discard
  <2>3. CASE Decide(c) \/ Look(c) \/ Count(c) \/ Skip(c) \/ Claim(c) \/ Check(c)
             \/ StepBack(c) \/ Link(c)
    BY <2>3, <1>u DEF Decide, Look, Count, Skip, Claim, Check, StepBack, Link
  <2>4. CASE Fail(c) \/ Hook(c) \/ Requeue(c) \/ HookStarted(c) \/ End(c) \/ Withdraw(c)
             \/ StopAgain(c)
    BY <2>4, <1>u DEF Fail, Hook, Requeue, HookStarted, End, Withdraw, StopAgain
  <2> QED BY <1>1, <2>1, <2>2, <2>3, <2>4 DEF Step
<1>2. ASSUME NEW c \in Caller, Abandon(c) PROVE P
  BY <1>2, <1>u DEF Abandon
<1>3. ASSUME NEW c \in Caller, NEW s \in Run,
             Create(c, s) \/ Resolve(c, s) \/ TimeOut(c, s) \/ Stop(c, s)
      PROVE  P
  BY <1>3, <1>u DEF Create, Resolve, TimeOut, Stop
<1>4. ASSUME NEW s \in Run, TurnEnds(s) \/ FinishRow(s) \/ FinishLost(s) PROVE P
  BY <1>4, <1>t DEF TurnEnds, FinishRow, FinishLost
<1>5. ASSUME NEW s \in Run, WaitPasses(s) PROVE P
  BY <1>5, <1>u DEF WaitPasses
<1> QED
  BY <1>1, <1>2, <1>3, <1>4, <1>5 DEF RunsNext, Caller

\* A caller's place fits the kind of its run: a webhook's statements are for a
\* webhook's run, link and send for a chat's.
LEMMA KindsKept == RunsTypeOK /\ Kinds /\ RunsNext => Kinds'
<1> SUFFICES ASSUME RunsTypeOK, Kinds, RunsNext, NEW d \in Caller
             PROVE  /\ job'[d].at \in {"hook", "requeue", "started"} => Of[job'[d].run] \in T3
                    /\ job'[d].at \in {"link", "send"} => Of[job'[d].run] \notin T3
  BY DEF Kinds
<1>1. CASE job'[d] = job[d]
  BY <1>1 DEF Kinds
<1>2. CASE job'[d] # job[d]
  BY <1>2, Awaits DEF Kinds, Link, Hook, At
<1> QED BY <1>1, <1>2

\* Who holds a run after a step held it before, or has just claimed it.
LEMMA HoldersKept ==
  ASSUME BriefInv, RunsNext, NEW d \in Caller, Holds(d)', ~Holds(d)
  PROVE  /\ Claim(d) /\ job'[d].run = job[d].run /\ job[d].run \in Chat
         /\ state[job[d].run] = "pending"
         /\ state' = [state EXCEPT ![job[d].run] = "running"]
<1>1. job'[d] # job[d] /\ RunsTypeOK /\ job'[d].run \in Chat
  BY DEF Holds, BriefInv, Chat
<1>2. job'[d].run = job[d].run /\ ~(Check(d) /\ job'[d].at = "link") /\ ~Link(d)
  <2>1. job'[d].run = job[d].run
    BY <1>1, Awaits DEF Holds
  <2> QED BY <1>1, <2>1 DEF Holds, Check, Link, At
<1> QED BY <1>1, <1>2, Awaits DEF Holds, Check, Chat

\* Every step keeps a claimed chat run whose brief is unsent in one caller's hands.
LEMMA OneHolderKept == BriefInv /\ RunsNext => OneHolder'
<1> SUFFICES ASSUME BriefInv, RunsNext, NEW c \in Caller, Holds(c)'
             PROVE  /\ state'[job'[c].run] \notin {"none", "pending"}
                    /\ turn'[job'[c].run] = "none"
                    /\ \A d \in Caller \ {c} : Holds(d)' => job'[d].run # job'[c].run
  BY DEF OneHolder, Past
<1> DEFINE r == job'[c].run
<1>t. RunsTypeOK /\ Kinds /\ OneHolder /\ TurnClaimed /\ r \in Chat /\ r \in Run
  BY DEF BriefInv, Holds, Chat
<1>k. ASSUME NEW d \in Caller, Holds(d)', Holds(d) PROVE job'[d].run = job[d].run
  <2>1. CASE job'[d] = job[d]
    BY <2>1
  <2>2. CASE job'[d] # job[d]
    BY <1>t, <1>k, <2>2, Awaits DEF Holds
  <2> QED BY <2>1, <2>2
<1>n. ASSUME turn[r] = "none",
             \A d \in Caller : Holds(d) /\ job[d].run = r => Holds(d)'
      PROVE  turn'[r] = "none"
  <2> SUFFICES ASSUME turn'[r] # "none" PROVE FALSE
    OBVIOUS
  <2>1. PICK d \in Caller : /\ job[d].at = "send" /\ job[d].run = r
                            /\ job'[d].at \in {"idle", "discard"}
    BY <1>n, <1>t, BeginsBySend
  <2> QED BY <1>n, <1>t, <2>1 DEF Holds
<1>1. CASE Holds(c)
  <2>1. job[c].run = r /\ Past(r) /\ turn[r] = "none"
        /\ \A d \in Caller \ {c} : Holds(d) => job[d].run # r
    BY <1>1, <1>k, <1>t DEF OneHolder
  <2>2. state'[r] \notin {"none", "pending"}
    BY <1>t, <2>1, PastStays DEF Past
  <2>3. turn'[r] = "none"
    BY <1>n, <2>1
  <2>4. ASSUME NEW d \in Caller \ {c}, Holds(d)' PROVE job'[d].run # r
    <3>1. CASE Holds(d)
      BY <2>1, <2>4, <3>1, <1>k
    <3>2. CASE ~Holds(d)
      BY <2>1, <2>4, <3>2, HoldersKept DEF Past
    <3> QED BY <3>1, <3>2
  <2> QED BY <2>2, <2>3, <2>4
<1>2. CASE ~Holds(c)
  <2>1. /\ job[c].run = r /\ state[r] = "pending" /\ state'[r] = "running"
        /\ Claim(c)
    BY <1>2, <1>t, HoldersKept DEF RunsTypeOK
  <2>2. turn[r] = "none" /\ state'[r] \notin {"none", "pending"}
    BY <1>t, <2>1 DEF TurnClaimed, Past
  <2>3. \A d \in Caller : Holds(d) => job[d].run # r
    BY <1>t, <2>1 DEF OneHolder, Past
  <2>4. turn'[r] = "none"
    BY <2>2, <2>3, <1>n
  <2>5. ASSUME NEW d \in Caller \ {c}, Holds(d)' PROVE job'[d].run # r
    <3>1. CASE Holds(d)
      BY <2>3, <2>5, <3>1, <1>k
    <3>2. CASE ~Holds(d)
      <4>1. Claim(d) BY <2>5, <3>2, HoldersKept
      <4>2. job' = [job EXCEPT ![c].at = "check"]
        BY <2>1 DEF Claim, Goto
      <4>3. job'[d] = job[d]
        BY <4>2, <1>t DEF RunsTypeOK
      <4> QED BY <2>5, <3>2, <4>1, <4>3 DEF Claim, At, Holds
    <3> QED BY <3>1, <3>2
  <2> QED BY <2>2, <2>4, <2>5
<1> QED BY <1>1, <1>2

\* Every step keeps turns to claimed chat runs.
LEMMA TurnClaimedKept == BriefInv /\ RunsNext => TurnClaimed'
<1> SUFFICES ASSUME BriefInv, RunsNext, NEW r \in Run, turn'[r] # "none"
             PROVE  r \in Chat /\ Past(r)'
  BY DEF TurnClaimed, Chat
<1>1. RunsTypeOK /\ Kinds /\ OneHolder /\ TurnClaimed
  BY DEF BriefInv
<1>2. r \in Chat /\ Past(r)
  <2>1. CASE turn[r] # "none"
    BY <1>1, <2>1 DEF TurnClaimed
  <2>2. CASE turn[r] = "none"
    <3>1. PICK c \in Caller : job[c].at = "send" /\ job[c].run = r
      BY <1>1, <2>2, BeginsBySend
    <3>2. r \in Chat BY <1>1, <3>1 DEF Kinds, Chat
    <3> QED BY <1>1, <3>1, <3>2 DEF OneHolder, Holds
  <2> QED BY <2>1, <2>2
<1> QED BY <1>1, <1>2, PastStays

\* A run's brief goes to the box once: no row claimed for a chat is ever
\* claimed again, and its turn begins by the one who claimed it (BriefOnce).
THEOREM BriefOnceTheorem == RunsSpec => []BriefOnce
<1>1. RunsInit => BriefInv
  <2> SUFFICES ASSUME RunsInit PROVE BriefInv
    OBVIOUS
  <2>1. RunsTypeOK BY RunsAssumption DEF RunsInit, RunsTypeOK, Jobs
  <2>2. \A c \in Caller : job[c].at = "idle" BY DEF RunsInit, Idle
  <2> QED BY <2>1, <2>2 DEF RunsInit, BriefInv, Kinds, OneHolder, Holds, TurnClaimed
<1>2. BriefInv /\ [RunsNext]_runsVars => BriefInv'
  <2>1. BriefInv /\ RunsNext => BriefInv'
    BY TypesKept, KindsKept, OneHolderKept, TurnClaimedKept DEF BriefInv
  <2>2. BriefInv /\ UNCHANGED runsVars => BriefInv'
    BY DEF BriefInv, RunsTypeOK, Kinds, OneHolder, Holds, TurnClaimed, Past, runsVars, rows
  <2> QED BY <2>1, <2>2
<1>3. BriefInv => BriefOnce
  <2> SUFFICES ASSUME BriefInv, NEW c \in Caller, At(c, "send")
               PROVE  /\ turn[job[c].run] = "none"
                      /\ \A d \in Caller \ {c} : At(d, "send") => job[d].run # job[c].run
    BY DEF BriefOnce
  <2>1. \A d \in Caller : At(d, "send") => Holds(d)
    BY AtARun DEF BriefInv, Kinds, Holds, Chat, At, Steps
  <2> QED BY <2>1 DEF BriefInv, OneHolder
<1> QED
  BY <1>1, <1>2, <1>3, PTL DEF RunsSpec
=============================================================================
