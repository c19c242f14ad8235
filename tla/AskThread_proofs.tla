---------------------------- MODULE AskThread_proofs ----------------------------
(***************************************************************************)
(* Theorems about AskThread, for any number of messages, faults, cancels   *)
(* and retries: what a message's row, its start and its run on the box say *)
(* of each other in every reachable state.                                 *)
(*                                                                         *)
(* The inductive invariant has four parts beside the types.  PostsCreate:  *)
(* before its POST's transaction a message is nowhere.  JudgedActive: what *)
(* is judged lost was read as active.  ResultsCount ties the recorded      *)
(* result to the status, the publish in progress and the publishes done.   *)
(* PromptIsUnsent: a row that still holds its prompt has no run, which     *)
(* needs that no start which may yet send it has one either.               *)
(*                                                                         *)
(* Most actions are Quiet: what they do to rows, starts and runs keeps     *)
(* every part, whichever action it is.  The others, which send, hold,      *)
(* create, report or publish, are taken part by part.                      *)
(***************************************************************************)
EXTENDS AskThread, TLAPS

PostsCreate ==
    \A m \in Msg :
      /\ ask[m].pc # "done" <=> Status(m) = "none"
      /\ Status(m) = "none" => start[m].pc = "idle" /\ box[m].run = "none" /\ Unanswered(m)

JudgedActive ==
    \A m \in Msg :
      /\ ask[m].pc \in {"status", "lost"} => ask[m].seen \in ActiveStates
      /\ sweep[m].pc # "idle" => sweep[m].seen \in ActiveStates

ResultsCount ==
    \A m \in Msg :
      /\ Unanswered(m) => m \notin publishing /\ published[m] = 0
      /\ m \in publishing => published[m] = 0
      /\ published[m] <= 1
      /\ ~ Unanswered(m) => Status(m) \in {"working", "completed", "failed"}
      /\ Status(m) = "completed" => row[m].result = "ok"

PromptIsUnsent ==
    \A m \in Msg :
      /\ start[m].pc # "idle" => row[m].prompt = FALSE
      /\ start[m].pc \in {"claimed", "rpc", "hold"} => ~ Running(m)
      /\ row[m].prompt = TRUE => ~ Running(m)

AskInv == AskTypeOK /\ PostsCreate /\ JudgedActive /\ ResultsCount /\ PromptIsUnsent

(***************************************************************************)
(* Effects.                                                                *)
(***************************************************************************)

Statuses == {"none"} \cup ActiveStates \cup EndStates
StartPcs == {"idle", "claimed", "rpc", "check", "fail", "hold", "mark",
             "supersede", "reread", "stop"}

\* One row changes, to status s, prompt b and result r.
RowMoves(m, s, b, r) ==
    /\ row' \in [Msg -> MessageRows]
    /\ row'[m].status = s /\ row'[m].prompt = b /\ row'[m].result = r
    /\ \A o \in Msg \ {m} : row'[o] = row[o]

\* One start goes on to pc.
StartMoves(m, pc) ==
    /\ start' \in [Msg -> StartStates]
    /\ start'[m].pc = pc
    /\ \A o \in Msg \ {m} : start'[o] = start[o]

\* Runs on the box may end; none starts, none is forgotten.
RunsOnlyEnd ==
    /\ box' \in [Msg -> Runs]
    /\ \A o \in Msg : /\ box'[o].run = "none" <=> box[o].run = "none"
                      /\ Running(o)' => Running(o)

\* m's run starts, alone or in another's turn.
RunStarts(m) ==
    /\ box' \in [Msg -> Runs]
    /\ box'[m].run # "none"
    /\ \A o \in Msg \ {m} : /\ box'[o].run = "none" <=> box[o].run = "none"
                            /\ Running(o)' => Running(o)

\* What an update of a row's status leaves ...
LEMMA StatusUpdate ==
    ASSUME AskTypeOK, NEW m \in Msg, NEW s \in Statuses
    PROVE  /\ row' = [row EXCEPT ![m].status = s] => RowMoves(m, s, row[m].prompt, row[m].result)
           /\ \A b \in BOOLEAN : row' = [row EXCEPT ![m].status = s, ![m].prompt = b]
                                 => RowMoves(m, s, b, row[m].result)
           /\ row' = [row EXCEPT ![m].status = s, ![m].started = TRUE]
              => RowMoves(m, s, row[m].prompt, row[m].result)
<1> row \in [Msg -> MessageRows] /\ Statuses = {"none"} \cup ActiveStates \cup EndStates
  BY DEF AskTypeOK, Statuses
<1>1. row' = [row EXCEPT ![m].status = s] => RowMoves(m, s, row[m].prompt, row[m].result)
  BY DEF RowMoves, MessageRows
<1>2. ASSUME NEW b \in BOOLEAN, row' = [row EXCEPT ![m].status = s, ![m].prompt = b]
      PROVE  RowMoves(m, s, b, row[m].result)
  <2> DEFINE r == [row[m] EXCEPT !.status = s, !.prompt = b]
  <2>1. r \in MessageRows /\ r.status = s /\ r.prompt = b /\ r.result = row[m].result
    BY DEF MessageRows
  <2>2. row' = [row EXCEPT ![m] = r]
    BY <1>2
  <2> QED
    BY <2>1, <2>2 DEF RowMoves
<1>3. row' = [row EXCEPT ![m].status = s, ![m].started = TRUE]
      => RowMoves(m, s, row[m].prompt, row[m].result)
  <2> DEFINE r == [row[m] EXCEPT !.status = s, !.started = TRUE]
  <2>1. r \in MessageRows /\ r.status = s /\ r.prompt = row[m].prompt /\ r.result = row[m].result
    BY DEF MessageRows
  <2>2. [row EXCEPT ![m].status = s, ![m].started = TRUE] = [row EXCEPT ![m] = r]
    OBVIOUS
  <2> QED
    BY <2>1, <2>2 DEF RowMoves
<1> QED
  BY <1>1, <1>2, <1>3

\* ... of its prompt ...
LEMMA PromptUpdate ==
    ASSUME AskTypeOK, NEW m \in Msg, NEW b \in BOOLEAN, row' = [row EXCEPT ![m].prompt = b]
    PROVE  RowMoves(m, Status(m), b, row[m].result)
  BY DEF AskTypeOK, RowMoves, MessageRows, Status

\* ... and of its result.
LEMMA ResultUpdate ==
    ASSUME AskTypeOK, NEW m \in Msg, NEW r \in Results, row' = [row EXCEPT ![m].result = r]
    PROVE  RowMoves(m, Status(m), row[m].prompt, r)
  BY DEF AskTypeOK, RowMoves, MessageRows, Status

\* A conditional update changes the row it names, if there is one, or nothing.
LEMMA MoveUpdate ==
    ASSUME AskTypeOK, NEW m, NEW condition, NEW s \in Statuses, Move(m, condition, s)
    PROVE  \/ row' = row
           \/ /\ m \in Msg /\ condition
              /\ RowMoves(m, s, row[m].prompt, row[m].result)
<1>1. CASE m \in Msg
  BY <1>1, StatusUpdate DEF Move
<1>2. CASE m \notin Msg
  BY <1>2 DEF Move, AskTypeOK
<1> QED
  BY <1>1, <1>2

\* What an update of a start leaves.
LEMMA StartUpdate ==
    ASSUME AskTypeOK, NEW m \in Msg, NEW pc \in StartPcs
    PROVE  /\ StartAt(m, pc) => StartMoves(m, pc)
           /\ StartEnds(m) => StartMoves(m, "idle")
           /\ \A b \in BOOLEAN :
                /\ start' = [start EXCEPT ![m].pc = pc, ![m].steered = b] => StartMoves(m, pc)
                /\ start' = [start EXCEPT ![m].pc = pc, ![m].stop = b] => StartMoves(m, pc)
                /\ start' = [start EXCEPT ![m].pc = pc, ![m].moved = b] => StartMoves(m, pc)
           /\ \A of \in Ids : start' = [start EXCEPT ![m] = [NoStart EXCEPT !.pc = pc, !.of = of]]
                              => StartMoves(m, pc)
           /\ start' = [start EXCEPT ![m] = [NoStart EXCEPT !.pc = pc]] => StartMoves(m, pc)
<1> start \in [Msg -> StartStates]
  BY DEF AskTypeOK
<1>1. StartAt(m, pc) => StartMoves(m, pc)
  BY DEF StartAt, StartMoves, StartStates, StartPcs
<1>2. StartEnds(m) => StartMoves(m, "idle")
  BY DEF StartEnds, NoStart, StartMoves, StartStates, Ids
<1>3. ASSUME NEW b \in BOOLEAN
      PROVE  /\ start' = [start EXCEPT ![m].pc = pc, ![m].steered = b] => StartMoves(m, pc)
             /\ start' = [start EXCEPT ![m].pc = pc, ![m].stop = b] => StartMoves(m, pc)
             /\ start' = [start EXCEPT ![m].pc = pc, ![m].moved = b] => StartMoves(m, pc)
  <2>1. ASSUME NEW s \in StartStates, s.pc = pc, start' = [start EXCEPT ![m] = s]
        PROVE  StartMoves(m, pc)
    BY <2>1 DEF StartMoves
  <2>2. /\ [start[m] EXCEPT !.pc = pc, !.steered = b] \in StartStates
        /\ [start[m] EXCEPT !.pc = pc, !.steered = b].pc = pc
    BY DEF StartStates, StartPcs
  <2>3. /\ [start[m] EXCEPT !.pc = pc, !.stop = b] \in StartStates
        /\ [start[m] EXCEPT !.pc = pc, !.stop = b].pc = pc
    BY DEF StartStates, StartPcs
  <2>4. /\ [start[m] EXCEPT !.pc = pc, !.moved = b] \in StartStates
        /\ [start[m] EXCEPT !.pc = pc, !.moved = b].pc = pc
    BY DEF StartStates, StartPcs
  <2>5. /\ [start EXCEPT ![m].pc = pc, ![m].steered = b]
           = [start EXCEPT ![m] = [start[m] EXCEPT !.pc = pc, !.steered = b]]
        /\ [start EXCEPT ![m].pc = pc, ![m].stop = b]
           = [start EXCEPT ![m] = [start[m] EXCEPT !.pc = pc, !.stop = b]]
        /\ [start EXCEPT ![m].pc = pc, ![m].moved = b]
           = [start EXCEPT ![m] = [start[m] EXCEPT !.pc = pc, !.moved = b]]
    OBVIOUS
  <2> QED
    BY <2>1, <2>2, <2>3, <2>4, <2>5
<1>4. ASSUME NEW of \in Ids, start' = [start EXCEPT ![m] = [NoStart EXCEPT !.pc = pc, !.of = of]]
      PROVE  StartMoves(m, pc)
  BY <1>4 DEF NoStart, StartMoves, StartStates, StartPcs
<1>5. start' = [start EXCEPT ![m] = [NoStart EXCEPT !.pc = pc]] => StartMoves(m, pc)
  BY DEF NoStart, StartMoves, StartStates, StartPcs, Ids
<1> QED
  BY <1>1, <1>2, <1>3, <1>4, <1>5

\* A run ends with those it superseded.
LEMMA EndRunEnds ==
    ASSUME AskTypeOK, NEW m \in Msg, Running(m), NEW how \in {"gone", "reporting"}, EndRun(m, how)
    PROVE  RunsOnlyEnd
<1> box \in [Msg -> Runs]
  BY DEF AskTypeOK
<1>1. ASSUME NEW o \in Msg
      PROVE  /\ box'[o] \in Runs
             /\ box'[o].run = "none" <=> box[o].run = "none"
             /\ Running(o)' => Running(o)
  <2>1. CASE o = m
    BY <2>1 DEF EndRun, Running, Runs
  <2>2. CASE o # m /\ o \in Tombstones(m)
    BY <2>2 DEF EndRun, Tombstones, Gone, Running, Runs, Ids
  <2>3. CASE o # m /\ o \notin Tombstones(m)
    BY <2>3 DEF EndRun, Running
  <2> QED
    BY <2>1, <2>2, <2>3
<1> QED
  BY <1>1 DEF EndRun, RunsOnlyEnd

\* A fault stays within its bound.
LEMMA FaultType == AskTypeOK /\ (Fault \/ UNCHANGED faults) => faults' \in 0..MaxFaults
  BY AskAssumption DEF AskTypeOK, Fault

\* stopRun ends runs or fails.
LEMMA StopRunEnds ==
    ASSUME AskTypeOK, NEW m \in Msg, StopRun(m)
    PROVE  RunsOnlyEnd /\ faults' \in 0..MaxFaults
<1>1. box' = box => RunsOnlyEnd
  BY DEF AskTypeOK, RunsOnlyEnd, Running
<1> QED
  BY <1>1, EndRunEnds, FaultType DEF StopRun

\* ask-run starts a run, of its own or in the turn of one that is alive.
LEMMA SendStarts ==
    ASSUME AskTypeOK, NEW m \in Msg, NEW s \in Msg, Starts(m) \/ Joins(m, s)
    PROVE  RunStarts(m)
<1> box \in [Msg -> Runs]
  BY DEF AskTypeOK
<1>1. CASE Starts(m)
  BY <1>1 DEF Starts, RunStarts, Running, Runs, Ids
<1>2. CASE Joins(m, s)
  BY <1>2 DEF Joins, RunStarts, Running, Runs, Ids
<1> QED
  BY <1>1, <1>2

\* The rows: at most one, which is active, moves; no prompt appears; a
\* status that excludes a result is given to a row without one only, and
\* `completed` to one whose result says so.
RowSettles ==
    \/ row' = row
    \/ \E x \in Msg, s \in Statuses \ {"none"}, b \in BOOLEAN :
         /\ RowMoves(x, s, b, row[x].result)
         /\ Status(x) \in ActiveStates
         /\ b = FALSE \/ b = row[x].prompt
         /\ \/ s \in {"working", "failed"}
            \/ s # "completed" /\ Unanswered(x)
            \/ s = Outcome(x) /\ ~ Unanswered(x)

\* The starts: at most one goes on, and not to a point where it may still send.
StartSettles ==
    \/ start' = start
    \/ \E x \in Msg, pc \in StartPcs \ {"claimed", "rpc", "hold"} :
         StartMoves(x, pc) /\ start[x].pc # "idle"

\* The POSTs: none is begun anew or done.
AskSettles ==
    /\ ask' \in [Msg -> AskStates]
    /\ \A x \in Msg : ask'[x].pc = "done" <=> ask[x].pc = "done"

\* What most actions do to what the invariant speaks of.
Quiet ==
    /\ RowSettles /\ StartSettles /\ (box' = box \/ RunsOnlyEnd)
    /\ ask' = ask \/ AskSettles
    /\ UNCHANGED <<publishing, published>>
    /\ JudgedActive'

RestTyped ==
    /\ order \in Seq(Msg)
    /\ cancel \in [Msg -> CancelStates]
    /\ replay \in [Msg -> {"idle", "status", "live", "lost"}]
    /\ sweep \in [Msg -> SweepStates]
    /\ tick \subseteq Msg
    /\ faults \in 0..MaxFaults /\ requests \in 0..MaxRequests

\* No end but `failed` is left.
EndsKept ==
    \A m \in Msg : Status(m) \in EndStates \ {"failed"} => Status(m)' = Status(m)

\* A quiet step keeps every part.
LEMMA QuietKeeps ==
    ASSUME AskInv, Quiet, RestTyped'
    PROVE  AskInv' /\ EndsKept
<1>1. AskTypeOK'
  BY DEF AskInv, AskTypeOK, Quiet, RestTyped, RowSettles, StartSettles, RowMoves,
         StartMoves, RunsOnlyEnd, AskSettles
<1>2. ASSUME NEW o \in Msg
      PROVE  /\ \/ start'[o] = start[o]
                \/ start[o].pc # "idle" /\ start'[o].pc \notin {"claimed", "rpc", "hold"}
             /\ box'[o].run = "none" <=> box[o].run = "none"
             /\ Running(o)' => Running(o)
  BY DEF Quiet, StartSettles, StartMoves, RunsOnlyEnd, Running
<1>3. ASSUME NEW o \in Msg
      PROVE  \/ row'[o] = row[o]
             \/ /\ row[o].status \in ActiveStates /\ row'[o].status # "none"
                /\ row'[o].result = row[o].result
                /\ row'[o].prompt = FALSE \/ row'[o].prompt = row[o].prompt
                /\ \/ row'[o].status \in {"working", "failed"}
                   \/ row'[o].status # "completed" /\ Unanswered(o)
                   \/ row'[o].status = Outcome(o) /\ ~ Unanswered(o)
  BY DEF Quiet, RowSettles, RowMoves, Status
<1>4. PostsCreate'
  <2>1. "none" \notin ActiveStates
    BY DEF ActiveStates
  <2> QED
    BY <1>2, <1>3, <2>1 DEF AskInv, PostsCreate, Quiet, AskSettles, Status, Unanswered
<1>5. ResultsCount'
  <2>1. \A o \in Msg : row[o].result \in {"none", "ok", "error"}
    BY DEF AskInv, AskTypeOK, MessageRows, Results
  <2> QED
    BY <1>3, <2>1 DEF AskInv, ResultsCount, Quiet, Status, Unanswered, Outcome
<1>6. PromptIsUnsent'
  BY <1>2, <1>3 DEF AskInv, PromptIsUnsent, Running
<1>7. EndsKept
  BY <1>3 DEF EndsKept, Status, ActiveStates, EndStates
<1> QED
  BY <1>1, <1>4, <1>5, <1>6, <1>7 DEF AskInv, Quiet

\* A conditional update of an existing row settles it.
LEMMA MoveSettles ==
    ASSUME AskTypeOK, NEW x, NEW condition, NEW s \in Statuses \ {"none", "completed"},
           Move(x, condition, s),
           x \in Msg /\ condition
           => Status(x) \in ActiveStates /\ (s \in {"working", "failed"} \/ Unanswered(x))
    PROVE  RowSettles
<1>1. CASE row' = row
  BY <1>1 DEF RowSettles
<1>2. CASE x \in Msg /\ condition /\ RowMoves(x, s, row[x].prompt, row[x].result)
  <2>1. row[x].prompt \in BOOLEAN
    BY <1>2 DEF AskTypeOK, MessageRows
  <2> QED
    BY <1>2, <2>1 DEF RowSettles
<1> QED
  BY <1>1, <1>2, MoveUpdate

\* So does setting the status of one, with its prompt cleared or kept.
LEMMA StatusSettles ==
    ASSUME AskTypeOK, NEW x \in Msg, NEW s \in Statuses \ {"none"},
           \/ row' = [row EXCEPT ![x].status = s]
           \/ row' = [row EXCEPT ![x].status = s, ![x].prompt = FALSE]
           \/ row' = [row EXCEPT ![x].status = s, ![x].started = TRUE],
           Status(x) \in ActiveStates,
           \/ s \in {"working", "failed"}
           \/ s # "completed" /\ Unanswered(x)
           \/ s = Outcome(x) /\ ~ Unanswered(x)
    PROVE  RowSettles
<1>1. row[x].prompt \in BOOLEAN
  BY DEF AskTypeOK, MessageRows
<1>2. \E b \in {FALSE, row[x].prompt} : RowMoves(x, s, b, row[x].result)
  BY StatusUpdate
<1> QED
  BY <1>1, <1>2 DEF RowSettles

(***************************************************************************)
(* The start of a run.                                                     *)
(***************************************************************************)

\* A turn fails only while it is submitted.
LEMMA FailStartInv ==
    ASSUME AskInv, NEW m \in Msg, FailStart(m)
    PROVE  AskInv' /\ EndsKept
<1>1. RowSettles
  BY MoveSettles DEF FailStart, AskInv, Statuses, ActiveStates, EndStates
<1>2. StartSettles
  BY StartUpdate DEF FailStart, AskInv, StartSettles, StartPcs
<1>3. Quiet /\ RestTyped'
  BY <1>1, <1>2 DEF FailStart, StartKeeps, AskInv, AskTypeOK, Quiet, RestTyped, JudgedActive
<1> QED
  BY <1>3, QuietKeeps

\* So does one sendQueued refuses.
LEMMA RefuseInv ==
    ASSUME AskInv, NEW m \in Msg, Refuse(m)
    PROVE  AskInv' /\ EndsKept
<1>1. RowSettles
  BY MoveSettles DEF Refuse, AskInv, Statuses, ActiveStates, EndStates
<1>2. StartSettles
  BY StartUpdate DEF Refuse, AskInv, StartSettles, StartPcs
<1>3. Quiet /\ RestTyped'
  BY <1>1, <1>2 DEF Refuse, StartKeeps, AskInv, AskTypeOK, Quiet, RestTyped, JudgedActive
<1> QED
  BY <1>3, QuietKeeps

\* The marked row is submitted; a row somebody moved stays.
LEMMA MarkWorkingInv ==
    ASSUME AskInv, NEW m \in Msg, MarkWorking(m)
    PROVE  AskInv' /\ EndsKept
<1>1. RowSettles
  BY StatusSettles DEF MarkWorking, AskInv, Statuses, ActiveStates, EndStates, RowSettles
<1>2. StartSettles
  BY StartUpdate DEF MarkWorking, AskInv, StartSettles, StartPcs
<1>3. Quiet /\ RestTyped'
  BY <1>1, <1>2 DEF MarkWorking, StartKeeps, AskInv, AskTypeOK, Quiet, RestTyped, JudgedActive
<1> QED
  BY <1>3, QuietKeeps

\* A superseded turn works and has no result.
LEMMA SupersedeInv ==
    ASSUME AskInv, NEW m \in Msg, Supersede(m)
    PROVE  AskInv' /\ EndsKept
<1>1. RowSettles
  BY MoveSettles DEF Supersede, Supersedes, Supersedable, AskInv, Statuses, ActiveStates, EndStates
<1>2. StartSettles
  BY StartUpdate DEF Supersede, AskInv, StartSettles, StartPcs
<1>3. Quiet /\ RestTyped'
  BY <1>1, <1>2 DEF Supersede, StartKeeps, AskInv, AskTypeOK, Quiet, RestTyped, JudgedActive
<1> QED
  BY <1>3, QuietKeeps

\* Reading again changes no row.
LEMMA RereadInv ==
    ASSUME AskInv, NEW m \in Msg, Reread(m)
    PROVE  AskInv' /\ EndsKept
<1>1. RowSettles
  BY DEF Reread, RowSettles
<1>2. StartSettles
  BY StartUpdate DEF Reread, AskInv, StartSettles, StartPcs
<1>3. Quiet /\ RestTyped'
  BY <1>1, <1>2 DEF Reread, StartKeeps, AskInv, AskTypeOK, Quiet, RestTyped, JudgedActive
<1> QED
  BY <1>3, QuietKeeps

\* Stopping a run ends runs and nothing else.
LEMMA StopStartInv ==
    ASSUME AskInv, NEW m \in Msg, StopStart(m)
    PROVE  AskInv' /\ EndsKept
<1>1. RowSettles
  BY DEF StopStart, RowSettles
<1>2. StartSettles
  BY StartUpdate DEF StopStart, AskInv, StartSettles, StartPcs
<1>3. Quiet /\ RestTyped'
  <2>1. RunsOnlyEnd /\ faults' \in 0..MaxFaults
    BY StopRunEnds DEF StopStart, AskInv
  <2> QED
    BY <1>1, <1>2, <2>1 DEF StopStart, StartKeeps, AskInv, AskTypeOK, Quiet, RestTyped, JudgedActive
<1> QED
  BY <1>3, QuietKeeps

\* The box's answer decides whether the start goes on, is held or fails; it is
\* held only if its run is not on the box.
LEMMA CheckInv ==
    ASSUME AskInv, NEW m \in Msg, Check(m)
    PROVE  AskInv' /\ EndsKept
<1>1. PICK pc \in {"mark", "hold", "fail"} : StartMoves(m, pc) /\ (pc = "hold" => ~ Running(m))
  <2>1. \A pc \in {"mark", "hold", "fail"} : pc \in StartPcs
    BY DEF StartPcs
  <2>2. \A s : (s # None /\ box[s].by = m) \in BOOLEAN
    OBVIOUS
  <2> QED
    BY <2>1, <2>2, StartUpdate DEF Check, AskInv
<1>2. UNCHANGED <<row, box, StartKeeps>> /\ faults' \in 0..MaxFaults /\ start[m].pc = "check"
  BY FaultType DEF Check, AskInv
<1>3. AskTypeOK'
  BY <1>1, <1>2 DEF AskInv, AskTypeOK, StartMoves, StartKeeps
<1>4. PostsCreate' /\ JudgedActive' /\ ResultsCount'
  BY <1>1, <1>2
  DEF AskInv, PostsCreate, JudgedActive, ResultsCount, StartMoves, StartKeeps, Status, Unanswered
<1>5. PromptIsUnsent'
  BY <1>1, <1>2 DEF AskInv, PromptIsUnsent, StartMoves, Running
<1>6. EndsKept
  BY <1>2 DEF EndsKept, Status
<1> QED
  BY <1>3, <1>4, <1>5, <1>6 DEF AskInv

\* A start that is held has no run: its prompt may go back into the queue.
LEMMA HoldInv ==
    ASSUME AskInv, NEW m \in Msg, Hold(m)
    PROVE  AskInv' /\ EndsKept
<1>1. row' = row \/ RowMoves(m, Status(m), TRUE, row[m].result)
  BY PromptUpdate DEF Hold, AskInv
<1>2. StartMoves(m, "idle")
  BY StartUpdate DEF Hold, AskInv, StartPcs
<1>3. UNCHANGED <<box, faults, StartKeeps>> /\ start[m].pc = "hold"
  BY DEF Hold
<1>4. AskTypeOK'
  BY <1>1, <1>2, <1>3 DEF AskInv, AskTypeOK, StartMoves, RowMoves, StartKeeps
<1>5. PostsCreate' /\ JudgedActive' /\ ResultsCount'
  BY <1>1, <1>2, <1>3
  DEF AskInv, PostsCreate, JudgedActive, ResultsCount, StartMoves, RowMoves, StartKeeps,
      Status, Unanswered
<1>6. PromptIsUnsent'
  BY <1>1, <1>2, <1>3 DEF AskInv, PromptIsUnsent, StartMoves, RowMoves, Running
<1>7. EndsKept
  BY <1>1 DEF EndsKept, RowMoves, Status
<1> QED
  BY <1>4, <1>5, <1>6, <1>7 DEF AskInv

\* The box starts the run of a start that still held the message, or none.
LEMMA SendInv ==
    ASSUME AskInv, NEW m \in Msg, Send(m)
    PROVE  AskInv' /\ EndsKept
<1>1. \/ StartMoves(m, "mark") /\ RunStarts(m)
      \/ StartMoves(m, "check") /\ (RunStarts(m) \/ box' = box)
      \/ StartMoves(m, "hold") /\ box' = box
  <2>1. {"mark", "check", "hold"} \subseteq StartPcs
    BY DEF StartPcs
  <2>2. /\ StartAt(m, "mark") => StartMoves(m, "mark")
        /\ StartAt(m, "check") => StartMoves(m, "check")
        /\ StartAt(m, "hold") => StartMoves(m, "hold")
        /\ start' = [start EXCEPT ![m].pc = "mark", ![m].steered = TRUE] => StartMoves(m, "mark")
    BY <2>1, StartUpdate DEF AskInv
  <2>3. start[m].of \in Msg \cup {None}
    BY DEF AskInv, AskTypeOK, StartStates, Ids
  <2>4. Starts(m) \/ (start[m].of # None /\ Joins(m, start[m].of)) => RunStarts(m)
    BY <2>3, SendStarts DEF AskInv
  <2> QED
    BY <2>2, <2>4 DEF Send
<1>2. UNCHANGED <<row, StartKeeps>> /\ faults' \in 0..MaxFaults /\ start[m].pc \in {"claimed", "rpc"}
  BY FaultType DEF Send, AskInv
<1>3. AskTypeOK'
  BY <1>1, <1>2 DEF AskInv, AskTypeOK, StartMoves, RunStarts, StartKeeps
<1>4. PostsCreate' /\ JudgedActive' /\ ResultsCount'
  BY <1>1, <1>2
  DEF AskInv, PostsCreate, JudgedActive, ResultsCount, StartMoves, RunStarts, StartKeeps,
      Status, Unanswered
<1>5. PromptIsUnsent'
  BY <1>1, <1>2 DEF AskInv, PromptIsUnsent, StartMoves, RunStarts, Running
<1>6. EndsKept
  BY <1>2 DEF EndsKept, Status
<1> QED
  BY <1>3, <1>4, <1>5, <1>6 DEF AskInv

(***************************************************************************)
(* The POST.                                                               *)
(***************************************************************************)

\* Whatever the POST read, what it is to judge by its run it read as active.
LEMMA AskReadInv ==
    ASSUME AskInv, NEW m \in Msg, AskRead(m)
    PROVE  AskInv' /\ EndsKept
<1>1. PICK a \in AskStates : /\ ask' = [ask EXCEPT ![m] = a] /\ a.pc \in {"create", "status"}
                             /\ a.pc = "status" => a.seen \in ActiveStates
  <2>1. CASE ask' = [ask EXCEPT ![m].pc = "create"]
    <3> DEFINE a == [ask[m] EXCEPT !.pc = "create"]
    <3>1. a \in AskStates /\ a.pc = "create"
      BY DEF AskInv, AskTypeOK, AskStates
    <3> QED
      BY <2>1, <3>1
  <2>2. ASSUME NEW busy \in Msg,
               ask' = [ask EXCEPT ![m] = [pc |-> "create", busy |-> busy, seen |-> "none", plan |-> "queue"]]
        PROVE  \E a \in AskStates : /\ ask' = [ask EXCEPT ![m] = a] /\ a.pc \in {"create", "status"}
                                    /\ a.pc = "status" => a.seen \in ActiveStates
    <3>1. [pc |-> "create", busy |-> busy, seen |-> "none", plan |-> "queue"] \in AskStates
      BY DEF AskStates, Ids
    <3> QED
      BY <2>2, <3>1
  <2>3. ASSUME NEW busy \in Msg, Newest(busy),
               ask' = [ask EXCEPT ![m] = [pc |-> "status", busy |-> busy, seen |-> Status(busy), plan |-> "free"]]
        PROVE  \E a \in AskStates : /\ ask' = [ask EXCEPT ![m] = a] /\ a.pc \in {"create", "status"}
                                    /\ a.pc = "status" => a.seen \in ActiveStates
    <3> DEFINE a == [pc |-> "status", busy |-> busy, seen |-> Status(busy), plan |-> "free"]
    <3>1. Status(busy) \in ActiveStates
      BY <2>3 DEF Newest, Active
    <3>2. a \in AskStates
      BY <3>1 DEF AskStates, Ids
    <3> QED
      BY <2>3, <3>1, <3>2
  <2> QED
    BY <2>1, <2>2, <2>3 DEF AskRead
<1>2. /\ ask[m].pc = "none"
      /\ UNCHANGED <<row, order, start, cancel, replay, sweep, tick, publishing, published, box, budgets>>
  BY DEF AskRead
<1>3. Quiet /\ RestTyped'
  BY <1>1, <1>2 DEF AskInv, AskTypeOK, Quiet, RestTyped, RowSettles, StartSettles, AskSettles,
                    JudgedActive, budgets
<1> QED
  BY <1>3, QuietKeeps

\* The box's answer leads on to the judgement or to the transaction.
LEMMA AskStatusInv ==
    ASSUME AskInv, NEW m \in Msg, AskStatus(m)
    PROVE  AskInv' /\ EndsKept
<1>1. ask[m] \in AskStates /\ ask[m].pc = "status" /\ ask[m].seen \in ActiveStates
  BY DEF AskStatus, AskInv, AskTypeOK, JudgedActive
<1>2. PICK a \in AskStates : /\ ask' = [ask EXCEPT ![m] = a] /\ a.pc \in {"create", "lost"}
                             /\ a.seen = ask[m].seen
  <2>1. ASSUME NEW pc \in {"create", "lost"}, NEW plan \in {"free", "queue", "steer"}
        PROVE  /\ [ask[m] EXCEPT !.pc = pc, !.plan = plan] \in AskStates
               /\ [ask[m] EXCEPT !.pc = pc, !.plan = plan].pc = pc
               /\ [ask[m] EXCEPT !.pc = pc, !.plan = plan].seen = ask[m].seen
               /\ [ask[m] EXCEPT !.pc = pc] \in AskStates
               /\ [ask[m] EXCEPT !.pc = pc].pc = pc
               /\ [ask[m] EXCEPT !.pc = pc].seen = ask[m].seen
    BY <1>1 DEF AskStates
  <2>2. \/ ask' = [ask EXCEPT ![m] = [ask[m] EXCEPT !.pc = "lost"]]
        \/ \E plan \in {"queue", "steer"} :
             ask' = [ask EXCEPT ![m] = [ask[m] EXCEPT !.pc = "create", !.plan = plan]]
    BY DEF AskStatus, AskInv, AskTypeOK
  <2> QED
    BY <2>1, <2>2
<1>3. /\ faults' \in 0..MaxFaults
      /\ UNCHANGED <<row, order, start, cancel, replay, sweep, tick, publishing, published, box, requests>>
  BY FaultType DEF AskStatus, AskInv
<1>4. Quiet /\ RestTyped'
  BY <1>1, <1>2, <1>3 DEF AskInv, AskTypeOK, Quiet, RestTyped, RowSettles, StartSettles,
                          AskSettles, JudgedActive
<1> QED
  BY <1>4, QuietKeeps

\* A turn judged lost was active when it was read, and is so when it fails.
LEMMA AskLostInv ==
    ASSUME AskInv, NEW m \in Msg, AskLost(m)
    PROVE  AskInv' /\ EndsKept
<1>1. ask[m].pc = "lost" /\ ask[m].seen \in ActiveStates
  BY DEF AskLost, AskInv, JudgedActive
<1>2. RowSettles
  BY <1>1, MoveSettles DEF AskLost, FinishLost, AskInv, Statuses, ActiveStates, EndStates
<1>3. [NoAsk EXCEPT !.pc = "create"] \in AskStates /\ [NoAsk EXCEPT !.pc = "create"].pc = "create"
  BY DEF NoAsk, AskStates, Ids
<1>4. /\ ask' = [ask EXCEPT ![m] = [NoAsk EXCEPT !.pc = "create"]]
      /\ UNCHANGED <<order, start, cancel, replay, sweep, tick, publishing, published, box, budgets>>
  BY DEF AskLost
<1>5. Quiet /\ RestTyped'
  BY <1>1, <1>2, <1>3, <1>4 DEF AskInv, AskTypeOK, Quiet, RestTyped, StartSettles,
                                AskSettles, JudgedActive, budgets
<1> QED
  BY <1>5, QuietKeeps

\* The transaction gives a message that was nowhere its row: with its prompt,
\* or with a start.
LEMMA AskCreateInv ==
    ASSUME AskInv, NEW m \in Msg, AskCreate(m)
    PROVE  AskInv' /\ EndsKept
<1>1. /\ ask[m].pc = "create"
      /\ ask' = [ask EXCEPT ![m] = AskDone]
      /\ order' = Append(order, m)
      /\ UNCHANGED <<cancel, replay, sweep, tick, publishing, published, box, budgets>>
  BY DEF AskCreate
<1>2. /\ Status(m) = "none" /\ start[m].pc = "idle" /\ box[m].run = "none" /\ Unanswered(m)
      /\ m \notin publishing /\ published[m] = 0
  BY <1>1 DEF AskInv, PostsCreate, ResultsCount
<1>3. PICK queued \in BOOLEAN :
        /\ row' = [row EXCEPT ![m].status = "submitted", ![m].prompt = queued]
        /\ IF queued THEN start' = start
           ELSE \E of \in Ids : start' = [start EXCEPT ![m] = [NoStart EXCEPT !.pc = "rpc", !.of = of]]
  <2>1. ask[m].busy \in Ids /\ None \in Ids
    BY DEF AskInv, AskTypeOK, AskStates, Ids
  <2> QED
    BY <2>1 DEF AskCreate
<1>4. RowMoves(m, "submitted", queued, row[m].result)
  BY <1>3, StatusUpdate DEF AskInv, Statuses, ActiveStates
<1>5. IF queued THEN start' = start ELSE StartMoves(m, "rpc")
  BY <1>3, StartUpdate DEF AskInv, StartPcs
<1>6. AskDone \in AskStates /\ AskDone.pc = "done"
  BY DEF AskDone, NoAsk, AskStates, Ids
<1>7. AskTypeOK'
  <2>1. order' \in Seq(Msg)
    BY <1>1 DEF AskInv, AskTypeOK
  <2> QED
    BY <1>1, <1>4, <1>5, <1>6, <2>1 DEF AskInv, AskTypeOK, RowMoves, StartMoves, budgets
<1>8. PostsCreate' /\ JudgedActive'
  BY <1>1, <1>4, <1>5, <1>6
  DEF AskInv, AskTypeOK, PostsCreate, JudgedActive, RowMoves, StartMoves, Status, Unanswered
<1>9. ResultsCount'
  BY <1>1, <1>2, <1>4 DEF AskInv, ResultsCount, RowMoves, Status, Unanswered
<1>10. PromptIsUnsent'
  BY <1>1, <1>2, <1>4, <1>5 DEF AskInv, PromptIsUnsent, RowMoves, StartMoves, Running
<1>11. EndsKept
  BY <1>2, <1>4 DEF EndsKept, RowMoves, Status, EndStates
<1> QED
  BY <1>7, <1>8, <1>9, <1>10, <1>11 DEF AskInv

(***************************************************************************)
(* The queue.                                                              *)
(***************************************************************************)

\* Reading the queue changes nothing but what the tick is about to send.
LEMMA TickReadInv == AskInv /\ TickRead => AskInv' /\ EndsKept
<1> SUFFICES ASSUME AskInv, TickRead PROVE AskInv' /\ EndsKept
  OBVIOUS
<1>1. Quiet /\ RestTyped'
  BY DEF TickRead, TickKeeps, AskInv, AskTypeOK, Quiet, RestTyped, RowSettles, StartSettles,
         JudgedActive, budgets
<1> QED
  BY <1>1, QuietKeeps

\* The claim takes the prompt from a row that has no run.
LEMMA SendQueuedInv ==
    ASSUME AskInv, NEW m \in Msg, SendQueued(m)
    PROVE  AskInv' /\ EndsKept
<1>1. UNCHANGED TickKeeps /\ tick' \subseteq Msg
  BY DEF SendQueued, AskInv, AskTypeOK
<1>2. CASE ~ Queued(m)
  <2>1. Quiet /\ RestTyped'
    BY <1>1, <1>2 DEF SendQueued, TickKeeps, AskInv, AskTypeOK, Quiet, RestTyped, RowSettles,
                      StartSettles, JudgedActive, budgets
  <2> QED
    BY <2>1, QuietKeeps
<1>3. CASE Queued(m)
  <2>1. Status(m) = "submitted" /\ row[m].prompt = TRUE /\ ~ Running(m)
    BY <1>3 DEF Queued, AskInv, AskTypeOK, MessageRows, PromptIsUnsent
  <2>2. RowMoves(m, Status(m), FALSE, row[m].result)
    BY <1>3, PromptUpdate DEF SendQueued, AskInv
  <2>3. StartMoves(m, "claimed")
    BY <1>3, StartUpdate DEF SendQueued, AskInv, StartPcs
  <2>4. AskTypeOK'
    BY <1>1, <2>2, <2>3 DEF TickKeeps, budgets, AskInv, AskTypeOK, RowMoves, StartMoves
  <2>5. PostsCreate' /\ JudgedActive' /\ ResultsCount'
    BY <1>1, <2>1, <2>2, <2>3
    DEF TickKeeps, AskInv, PostsCreate, JudgedActive, ResultsCount, RowMoves, StartMoves,
        Status, Unanswered
  <2>6. PromptIsUnsent'
    BY <1>1, <2>1, <2>2, <2>3 DEF TickKeeps, AskInv, PromptIsUnsent, RowMoves, StartMoves, Running
  <2>7. EndsKept
    BY <2>2 DEF EndsKept, RowMoves, Status
  <2> QED
    BY <2>4, <2>5, <2>6, <2>7 DEF AskInv
<1> QED
  BY <1>2, <1>3

\* A queued turn that fails gives up its prompt.
LEMMA FailQueuedInv ==
    ASSUME AskInv, NEW m \in Msg, FailQueued(m)
    PROVE  AskInv' /\ EndsKept
<1>1. RowSettles
  <2>1. Status(m) = "submitted"
    BY DEF FailQueued, Queued
  <2> QED
    BY <2>1, StatusSettles DEF FailQueued, AskInv, Statuses, ActiveStates, EndStates
<1>2. Quiet /\ RestTyped'
  BY <1>1 DEF FailQueued, TickKeeps, AskInv, AskTypeOK, Quiet, RestTyped, StartSettles,
              JudgedActive, budgets
<1> QED
  BY <1>2, QuietKeeps

(***************************************************************************)
(* Cancel, replay and sweep.                                               *)
(***************************************************************************)

\* The cancel reads, and counts as a request.
LEMMA CancelReadInv ==
    ASSUME AskInv, NEW m \in Msg, CancelRead(m)
    PROVE  AskInv' /\ EndsKept
<1>1. cancel' \in [Msg -> CancelStates]
  BY DEF CancelRead, AskInv, AskTypeOK, CancelStates, Active, ActiveStates
<1>2. requests' \in 0..MaxRequests
  BY AskAssumption DEF CancelRead, Requested, AskInv, AskTypeOK
<1>3. Quiet /\ RestTyped'
  BY <1>1, <1>2 DEF CancelRead, CancelKeeps, AskInv, AskTypeOK, Quiet, RestTyped, RowSettles,
                    StartSettles, JudgedActive
<1> QED
  BY <1>3, QuietKeeps

\* It takes an active message without a result.
LEMMA CancelWriteInv ==
    ASSUME AskInv, NEW m \in Msg, CancelWrite(m)
    PROVE  AskInv' /\ EndsKept
<1>1. RowSettles
  <2>1. CASE Active(m) /\ Unanswered(m)
    BY <2>1, StatusSettles
    DEF CancelWrite, AskInv, Active, Statuses, ActiveStates, EndStates
  <2>2. CASE ~ (Active(m) /\ Unanswered(m))
    BY <2>2 DEF CancelWrite, RowSettles
  <2> QED
    BY <2>1, <2>2
<1>2. cancel' \in [Msg -> CancelStates]
  <2>1. NoCancel \in CancelStates /\ [cancel[m] EXCEPT !.pc = "find"] \in CancelStates
    BY DEF AskInv, AskTypeOK, NoCancel, CancelStates
  <2>2. \/ cancel' = [cancel EXCEPT ![m] = NoCancel]
        \/ cancel' = [cancel EXCEPT ![m] = [cancel[m] EXCEPT !.pc = "find"]]
    BY DEF CancelWrite, AskInv, AskTypeOK
  <2> QED
    BY <2>1, <2>2 DEF AskInv, AskTypeOK
<1>3. Quiet /\ RestTyped'
  BY <1>1, <1>2 DEF CancelWrite, CancelKeeps, AskInv, AskTypeOK, Quiet, RestTyped,
                    StartSettles, JudgedActive, budgets
<1> QED
  BY <1>3, QuietKeeps

\* It decides whether to stop a run.
LEMMA CancelFindInv ==
    ASSUME AskInv, NEW m \in Msg, CancelFind(m)
    PROVE  AskInv' /\ EndsKept
<1>1. cancel' \in [Msg -> CancelStates]
  BY DEF CancelFind, AskInv, AskTypeOK, CancelStates, NoCancel
<1>2. Quiet /\ RestTyped'
  BY <1>1 DEF CancelFind, CancelKeeps, AskInv, AskTypeOK, Quiet, RestTyped, RowSettles,
              StartSettles, JudgedActive, budgets
<1> QED
  BY <1>2, QuietKeeps

\* And stops it.
LEMMA CancelStopInv ==
    ASSUME AskInv, NEW m \in Msg, CancelStop(m)
    PROVE  AskInv' /\ EndsKept
<1>1. RunsOnlyEnd /\ faults' \in 0..MaxFaults
  BY StopRunEnds DEF CancelStop, AskInv
<1>2. cancel' \in [Msg -> CancelStates]
  BY DEF CancelStop, AskInv, AskTypeOK, CancelStates, NoCancel
<1>3. Quiet /\ RestTyped'
  BY <1>1, <1>2 DEF CancelStop, CancelKeeps, AskInv, AskTypeOK, Quiet, RestTyped, RowSettles,
                    StartSettles, JudgedActive
<1> QED
  BY <1>3, QuietKeeps

\* A retried POST reads the row.
LEMMA ReplayReadInv ==
    ASSUME AskInv, NEW m \in Msg, ReplayRead(m)
    PROVE  AskInv' /\ EndsKept
<1>1. requests' \in 0..MaxRequests
  BY AskAssumption DEF ReplayRead, Requested, AskInv, AskTypeOK
<1>2. Quiet /\ RestTyped'
  BY <1>1 DEF ReplayRead, ReplayKeeps, AskInv, AskTypeOK, Quiet, RestTyped, RowSettles,
              StartSettles, JudgedActive
<1> QED
  BY <1>2, QuietKeeps

\* It asks the box.
LEMMA ReplayStatusInv ==
    ASSUME AskInv, NEW m \in Msg, ReplayStatus(m)
    PROVE  AskInv' /\ EndsKept
<1>1. faults' \in 0..MaxFaults
  BY FaultType DEF ReplayStatus, AskInv
<1>2. Quiet /\ RestTyped'
  BY <1>1 DEF ReplayStatus, ReplayKeeps, AskInv, AskTypeOK, Quiet, RestTyped, RowSettles,
              StartSettles, JudgedActive
<1> QED
  BY <1>2, QuietKeeps

\* It settles a row that is still submitted.
LEMMA ReplaySettleInv ==
    ASSUME AskInv, NEW m \in Msg, ReplaySettle(m)
    PROVE  AskInv' /\ EndsKept
<1>1. RowSettles
  <2>1. CASE Status(m) = "submitted"
    BY <2>1, StatusSettles DEF ReplaySettle, AskInv, Statuses, ActiveStates, EndStates
  <2>2. CASE Status(m) # "submitted"
    BY <2>2 DEF ReplaySettle, RowSettles
  <2> QED
    BY <2>1, <2>2
<1>2. Quiet /\ RestTyped'
  BY <1>1 DEF ReplaySettle, ReplayKeeps, AskInv, AskTypeOK, Quiet, RestTyped, StartSettles,
              JudgedActive, budgets
<1> QED
  BY <1>2, QuietKeeps

\* The sweep's coroutines: whatever one judges it read as active.
LEMMA SweepSettles ==
    ASSUME AskInv, NEW m \in Msg, NEW w \in SweepStates, sweep' = [sweep EXCEPT ![m] = w],
           w.pc # "idle" => w.seen \in ActiveStates,
           RowSettles, faults' \in 0..MaxFaults, UNCHANGED SweepKeeps
    PROVE  AskInv' /\ EndsKept
<1>1. Quiet /\ RestTyped'
  BY DEF SweepKeeps, AskInv, AskTypeOK, Quiet, RestTyped, StartSettles, JudgedActive
<1> QED
  BY <1>1, QuietKeeps

\* It reads an active message without a result.
LEMMA SweepReadInv ==
    ASSUME AskInv, NEW m \in Msg, SweepRead(m)
    PROVE  AskInv' /\ EndsKept
<1>1. Status(m) \in ActiveStates
  BY DEF SweepRead, Active
<1>2. [pc |-> "status", seen |-> Status(m)] \in SweepStates
  BY <1>1 DEF SweepStates
<1>3. RowSettles /\ faults' \in 0..MaxFaults
  BY DEF SweepRead, RowSettles, AskInv, AskTypeOK
<1> QED
  BY <1>1, <1>2, <1>3, SweepSettles DEF SweepRead

\* It asks the box.
LEMMA SweepStatusInv ==
    ASSUME AskInv, NEW m \in Msg, SweepStatus(m)
    PROVE  AskInv' /\ EndsKept
<1>1. sweep[m] \in SweepStates /\ sweep[m].seen \in ActiveStates
  BY DEF SweepStatus, AskInv, AskTypeOK, JudgedActive
<1>2. PICK w \in SweepStates : sweep' = [sweep EXCEPT ![m] = w]
                               /\ (w.pc # "idle" => w.seen \in ActiveStates)
  <2>1. NoSweep \in SweepStates /\ NoSweep.pc = "idle"
    BY DEF NoSweep, SweepStates
  <2>2. ASSUME NEW pc \in {"supersede", "close"}
        PROVE  /\ [sweep[m] EXCEPT !.pc = pc] \in SweepStates
               /\ [sweep[m] EXCEPT !.pc = pc].seen \in ActiveStates
    BY <1>1 DEF SweepStates
  <2>3. \/ sweep' = [sweep EXCEPT ![m] = NoSweep]
        \/ \E pc \in {"supersede", "close"} : sweep' = [sweep EXCEPT ![m] = [sweep[m] EXCEPT !.pc = pc]]
    BY DEF SweepStatus, AskInv, AskTypeOK
  <2> QED
    BY <2>1, <2>2, <2>3
<1>3. RowSettles /\ faults' \in 0..MaxFaults /\ UNCHANGED SweepKeeps
  BY FaultType DEF SweepStatus, RowSettles, AskInv
<1> QED
  BY <1>2, <1>3, SweepSettles

\* A turn the box says was joined is superseded if it still works.
LEMMA SweepSupersedeInv ==
    ASSUME AskInv, NEW m \in Msg, SweepSupersede(m)
    PROVE  AskInv' /\ EndsKept
<1>1. sweep[m] \in SweepStates /\ sweep[m].seen \in ActiveStates
  BY DEF SweepSupersede, AskInv, AskTypeOK, JudgedActive
<1>2. PICK w \in SweepStates : sweep' = [sweep EXCEPT ![m] = w]
                               /\ (w.pc # "idle" => w.seen \in ActiveStates)
  <2>1. NoSweep \in SweepStates /\ NoSweep.pc = "idle"
    BY DEF NoSweep, SweepStates
  <2>2. /\ [sweep[m] EXCEPT !.pc = "close"] \in SweepStates
        /\ [sweep[m] EXCEPT !.pc = "close"].seen \in ActiveStates
    BY <1>1 DEF SweepStates
  <2> QED
    BY <2>1, <2>2 DEF SweepSupersede
<1>3. RowSettles
  BY MoveSettles
  DEF SweepSupersede, Supersedes, Supersedable, AskInv, Statuses, ActiveStates, EndStates
<1>4. faults' \in 0..MaxFaults /\ UNCHANGED SweepKeeps
  BY DEF SweepSupersede, AskInv, AskTypeOK
<1> QED
  BY <1>2, <1>3, <1>4, SweepSettles

\* A lost one is failed in the state it was judged in.
LEMMA SweepCloseInv ==
    ASSUME AskInv, NEW m \in Msg, SweepClose(m)
    PROVE  AskInv' /\ EndsKept
<1>1. sweep[m].seen \in ActiveStates
  BY DEF SweepClose, AskInv, JudgedActive
<1>2. RowSettles
  BY <1>1, MoveSettles DEF SweepClose, AskInv, Statuses, ActiveStates, EndStates
<1>3. NoSweep \in SweepStates /\ NoSweep.pc = "idle"
  BY DEF NoSweep, SweepStates
<1> QED
  BY <1>2, <1>3, SweepSettles DEF SweepClose, AskInv, AskTypeOK

\* A stuck publish ends as its result says.
LEMMA SweepStuckInv ==
    ASSUME AskInv, NEW m \in Msg, SweepStuck(m)
    PROVE  AskInv' /\ EndsKept
<1>1. Outcome(m) \in Statuses \ {"none"}
  BY DEF Outcome, Statuses, EndStates
<1>2. RowSettles
  BY <1>1, StatusSettles DEF SweepStuck, AskInv, ActiveStates
<1>3. Quiet /\ RestTyped'
  BY <1>2 DEF SweepStuck, SweepKeeps, AskInv, AskTypeOK, Quiet, RestTyped, StartSettles,
              JudgedActive
<1> QED
  BY <1>3, QuietKeeps

\* Clearing the prompt of an ended turn.
LEMMA SweepPromptInv ==
    ASSUME AskInv, NEW m \in Msg, SweepPrompt(m)
    PROVE  AskInv' /\ EndsKept
<1>1. RowMoves(m, Status(m), FALSE, row[m].result)
  BY PromptUpdate DEF SweepPrompt, AskInv
<1>2. AskTypeOK'
  BY <1>1 DEF SweepPrompt, SweepKeeps, AskInv, AskTypeOK, RowMoves
<1>3. PostsCreate' /\ JudgedActive' /\ ResultsCount'
  BY <1>1 DEF SweepPrompt, SweepKeeps, AskInv, PostsCreate, JudgedActive, ResultsCount, RowMoves,
              Status, Unanswered
<1>4. PromptIsUnsent'
  BY <1>1 DEF SweepPrompt, SweepKeeps, AskInv, PromptIsUnsent, RowMoves, Running
<1>5. EndsKept
  BY <1>1 DEF EndsKept, RowMoves, Status
<1> QED
  BY <1>2, <1>3, <1>4, <1>5 DEF AskInv

(***************************************************************************)
(* The report, the publish, the box, the restart.                          *)
(***************************************************************************)

\* The first report of a working turn records its result and begins a publish
\* that nobody made before.
LEMMA PostResultInv ==
    ASSUME AskInv, NEW m \in Msg, PostResult(m)
    PROVE  AskInv' /\ EndsKept
<1>1. RunsOnlyEnd
  <2>1. box \in [Msg -> Runs] /\ box[m].run = "reporting"
    BY DEF PostResult, AskInv, AskTypeOK
  <2>2. Gone(box[m]) \in Runs /\ Gone(box[m]).run = "gone"
    BY <2>1 DEF Gone, Runs, Ids
  <2> QED
    BY <2>1, <2>2 DEF PostResult, RunsOnlyEnd, Running
<1>2. /\ faults' \in 0..MaxFaults
      /\ UNCHANGED <<order, ask, start, cancel, replay, sweep, tick, published, requests>>
  BY FaultType DEF PostResult, AskInv
<1>3. CASE ~ (Status(m) = "working" /\ Unanswered(m))
  <2>1. Quiet /\ RestTyped'
    BY <1>1, <1>2, <1>3 DEF PostResult, AskInv, AskTypeOK, Quiet, RestTyped, RowSettles,
                            StartSettles, JudgedActive
  <2> QED
    BY <2>1, QuietKeeps
<1>4. CASE Status(m) = "working" /\ Unanswered(m)
  <2>1. PICK r \in Results \ {"none"} : RowMoves(m, Status(m), row[m].prompt, r)
    BY <1>4, ResultUpdate DEF PostResult, AskInv
  <2>2. publishing' = publishing \cup {m}
    BY <1>4 DEF PostResult
  <2>3. AskTypeOK'
    BY <1>1, <1>2, <2>1, <2>2 DEF AskInv, AskTypeOK, RowMoves, RunsOnlyEnd
  <2>4. PostsCreate' /\ JudgedActive'
    BY <1>1, <1>2, <1>4, <2>1
    DEF AskInv, PostsCreate, JudgedActive, RowMoves, RunsOnlyEnd, Status, Unanswered
  <2>5. ResultsCount'
    BY <1>2, <1>4, <2>1, <2>2 DEF AskInv, ResultsCount, RowMoves, Status, Unanswered
  <2>6. PromptIsUnsent'
    BY <1>1, <1>2, <2>1 DEF AskInv, PromptIsUnsent, RowMoves, RunsOnlyEnd, Running
  <2>7. EndsKept
    BY <2>1 DEF EndsKept, RowMoves, Status
  <2> QED
    BY <2>3, <2>4, <2>5, <2>6, <2>7 DEF AskInv
<1> QED
  BY <1>3, <1>4

\* The publish is counted, and ends the turn as its result says.
LEMMA FinishRunInv ==
    ASSUME AskInv, NEW m \in Msg, FinishRun(m)
    PROVE  AskInv' /\ EndsKept
<1>1. ~ Unanswered(m) /\ published[m] = 0 /\ Status(m) # "none"
  BY DEF FinishRun, AskInv, ResultsCount, PostsCreate
<1>2. row' = row \/ RowMoves(m, Outcome(m), row[m].prompt, row[m].result)
  <2>1. Outcome(m) \in Statuses
    BY DEF Outcome, Statuses, EndStates
  <2> QED
    BY <2>1, StatusUpdate DEF FinishRun, AskInv
<1>3. /\ faults' \in 0..MaxFaults
      /\ publishing' = publishing \ {m} /\ published' = [published EXCEPT ![m] = @ + 1]
      /\ UNCHANGED <<order, ask, start, cancel, replay, sweep, tick, box, requests>>
  BY FaultType DEF FinishRun, AskInv
<1>4. AskTypeOK'
  BY <1>2, <1>3 DEF AskInv, AskTypeOK, RowMoves
<1>5. Outcome(m) \in {"completed", "failed"} /\ (Outcome(m) = "completed" => row[m].result = "ok")
  BY <1>1 DEF Outcome, AskInv, AskTypeOK, MessageRows, Results, Unanswered
<1>6. PostsCreate' /\ JudgedActive'
  BY <1>1, <1>2, <1>3, <1>5
  DEF AskInv, PostsCreate, JudgedActive, RowMoves, Status, Unanswered
<1>7. ResultsCount'
  BY <1>1, <1>2, <1>3, <1>5 DEF AskInv, AskTypeOK, ResultsCount, RowMoves, Status, Unanswered
<1>8. PromptIsUnsent'
  BY <1>2, <1>3 DEF AskInv, PromptIsUnsent, RowMoves, Running
<1>9. EndsKept
  BY <1>1, <1>2 DEF AskInv, ResultsCount, EndsKept, RowMoves, Status, Unanswered, EndStates, Outcome
<1> QED
  BY <1>4, <1>6, <1>7, <1>8, <1>9 DEF AskInv

\* A run that ends, by itself or not, changes no row.
LEMMA BoxInv ==
    ASSUME AskInv, NEW m \in Msg, Finish(m) \/ Die(m)
    PROVE  AskInv' /\ EndsKept
<1>1. RunsOnlyEnd
  BY EndRunEnds DEF Finish, Die, AskInv, Running
<1>2. faults' \in 0..MaxFaults
  BY FaultType DEF Finish, Die, AskInv, budgets
<1>3. Quiet /\ RestTyped'
  BY <1>1, <1>2 DEF Finish, Die, coroutines, budgets, AskInv, AskTypeOK, Quiet, RestTyped,
                    RowSettles, StartSettles, JudgedActive
<1> QED
  BY <1>3, QuietKeeps

\* A restart forgets every coroutine; a row stays and so does what was done.
LEMMA RestartInv == AskInv /\ Restart => AskInv' /\ EndsKept
<1> SUFFICES ASSUME AskInv, Restart PROVE AskInv' /\ EndsKept
  OBVIOUS
<1>1. /\ NoAsk \in AskStates /\ NoAsk.pc = "none"
      /\ AskDone \in AskStates /\ AskDone.pc = "done"
      /\ NoStart \in StartStates /\ NoStart.pc = "idle"
      /\ NoCancel \in CancelStates
      /\ NoSweep \in SweepStates /\ NoSweep.pc = "idle"
  BY DEF NoAsk, AskDone, NoStart, NoCancel, NoSweep, AskStates, StartStates, CancelStates,
         SweepStates, Ids
<1>2. AskTypeOK'
  BY <1>1, FaultType DEF Restart, AskInv, AskTypeOK
<1>3. PostsCreate' /\ JudgedActive'
  BY <1>1 DEF Restart, AskInv, PostsCreate, JudgedActive, Status, Unanswered
<1>4. ResultsCount' /\ PromptIsUnsent'
  BY <1>1 DEF Restart, AskInv, ResultsCount, PromptIsUnsent, Status, Unanswered, Running
<1>5. EndsKept
  BY DEF Restart, EndsKept, Status
<1> QED
  BY <1>2, <1>3, <1>4, <1>5 DEF AskInv

(***************************************************************************)
(* The theorems.                                                           *)
(***************************************************************************)

\* The inductive invariant holds before any message is posted.
LEMMA InitAskInv == AskInit => AskInv
<1> SUFFICES ASSUME AskInit PROVE AskInv
  OBVIOUS
<1>1. AskTypeOK
  BY AskAssumption
  DEF AskInit, AskTypeOK, MessageRows, AskStates, StartStates, CancelStates, SweepStates, Runs,
      NoAsk, NoStart, NoCancel, NoSweep, Ids, Results
<1>2. PostsCreate /\ JudgedActive /\ ResultsCount /\ PromptIsUnsent
  BY DEF AskInit, PostsCreate, JudgedActive, ResultsCount, PromptIsUnsent, NoAsk, NoStart,
         NoSweep, Status, Unanswered, Running
<1> QED
  BY <1>1, <1>2 DEF AskInv

\* Every step keeps it, and leaves no end but `failed`.
LEMMA NextAskInv == AskInv /\ AskNext => AskInv' /\ EndsKept
<1> SUFFICES ASSUME AskInv, AskNext PROVE AskInv' /\ EndsKept
  OBVIOUS
<1>1. ASSUME NEW m \in Msg, AskRead(m) \/ AskStatus(m) \/ AskLost(m) \/ AskCreate(m) PROVE AskInv' /\ EndsKept
  BY <1>1, AskReadInv, AskStatusInv, AskLostInv, AskCreateInv
<1>2. ASSUME NEW m \in Msg, StartStep(m) PROVE AskInv' /\ EndsKept
  BY <1>2, SendInv, CheckInv, FailStartInv, RefuseInv, MarkWorkingInv, SupersedeInv, RereadInv,
     StopStartInv, HoldInv DEF StartStep
<1>3. ASSUME NEW m \in Msg, SendQueued(m) \/ FailQueued(m) PROVE AskInv' /\ EndsKept
  BY <1>3, SendQueuedInv, FailQueuedInv
<1>4. ASSUME NEW m \in Msg, CancelRead(m) \/ CancelStep(m) PROVE AskInv' /\ EndsKept
  BY <1>4, CancelReadInv, CancelWriteInv, CancelFindInv, CancelStopInv DEF CancelStep
<1>5. ASSUME NEW m \in Msg, PostResult(m) \/ FinishRun(m) PROVE AskInv' /\ EndsKept
  BY <1>5, PostResultInv, FinishRunInv
<1>6. ASSUME NEW m \in Msg, ReplayRead(m) \/ ReplayStatus(m) \/ ReplaySettle(m) PROVE AskInv' /\ EndsKept
  BY <1>6, ReplayReadInv, ReplayStatusInv, ReplaySettleInv
<1>7. ASSUME NEW m \in Msg, SweepStep(m) PROVE AskInv' /\ EndsKept
  BY <1>7, SweepReadInv, SweepStatusInv, SweepSupersedeInv, SweepCloseInv, SweepStuckInv,
     SweepPromptInv DEF SweepStep
<1>8. ASSUME NEW m \in Msg, Finish(m) \/ Die(m) PROVE AskInv' /\ EndsKept
  BY <1>8, BoxInv
<1> QED
  BY <1>1, <1>2, <1>3, <1>4, <1>5, <1>6, <1>7, <1>8, TickReadInv, RestartInv DEF AskNext

\* A step that leaves every variable alone keeps it too.
LEMMA StutterAskInv == AskInv /\ UNCHANGED vars => AskInv'
  BY DEF vars, coroutines, budgets, AskInv, AskTypeOK, PostsCreate, JudgedActive, ResultsCount,
         PromptIsUnsent, Status, Unanswered, Running

\* The inductive invariant holds in every reachable state.
LEMMA AskInvariance == AskSpec => []AskInv
  BY InitAskInv, NextAskInv, StutterAskInv, PTL DEF AskSpec

\* Rows, coroutines and runs keep their types.
THEOREM AskTypeCorrect == AskSpec => []AskTypeOK
<1>1. AskInv => AskTypeOK
  BY DEF AskInv
<1> QED
  BY <1>1, AskInvariance, PTL

\* A cancel and a result never both take a message, nor a supersede and a result.
THEOREM CancelOrResultTheorem == AskSpec => []CancelOrResult
<1>1. AskInv => CancelOrResult
  BY DEF AskInv, ResultsCount, CancelOrResult, Unanswered
<1> QED
  BY <1>1, AskInvariance, PTL

\* A result is published once, through repeated reports, lost answers, failed
\* updates and restarts.
THEOREM PublishedOnceTheorem == AskSpec => []PublishedOnce
<1>1. AskInv => PublishedOnce
  BY DEF AskInv, ResultsCount, PublishedOnce
<1> QED
  BY <1>1, AskInvariance, PTL

\* A queued prompt has no start in progress and no run on the box.
THEOREM QueuedIsUnsentTheorem == AskSpec => []QueuedIsUnsent
<1>1. AskInv => QueuedIsUnsent
  BY DEF AskInv, AskTypeOK, MessageRows, PromptIsUnsent, QueuedIsUnsent, Queued
<1> QED
  BY <1>1, AskInvariance, PTL

\* An end other than `failed` is for good.
THEOREM EndsStayTheorem == AskSpec => EndsStay
<1>1. AskInv /\ [AskNext]_vars => [EndsKept]_vars
  BY NextAskInv
<1>2. [EndsKept]_vars => [\A m \in Msg : Status(m) \in EndStates \ {"failed"} => Status(m)' = Status(m)]_vars
  BY DEF EndsKept
<1> QED
  BY <1>1, <1>2, AskInvariance, PTL DEF AskSpec, EndsStay

=============================================================================
