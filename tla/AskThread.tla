------------------------------- MODULE AskThread -------------------------------
(***************************************************************************)
(* One ask thread: the messages one agent sends another                    *)
(* (services/askService.ts, services/agentMessages.ts), the rows they are  *)
(* in the database, every orchestrator coroutine that moves them (the      *)
(* POST, the start, the queue's tick, cancel, the retried POST, the sweep, *)
(* the publish), and the runs on the box as the orchestrator observes them *)
(* through ask-run, ask-run-status, ask-run-cancel and the result report.  *)
(*                                                                         *)
(* Every await in the code is a step boundary here: what a coroutine read  *)
(* before it may be stale after it.  A conditional updateMany is one step. *)
(* Lost calls, dead runs and orchestrator restarts are bounded by          *)
(* MaxFaults, cancels and retried POSTs by MaxRequests.  The thread may    *)
(* have a history: messages before these, all ended.                       *)
(*                                                                         *)
(* Ages become choices, with three assumptions taken from the constants:   *)
(*  - an ask-run call is answered or has failed inside the 20 s a          *)
(*    submitted turn counts as starting (START_RPC_MS + START_SLACK_MS),   *)
(*    and a whole start inside the sweep's LOST_RUN_GRACE_MS (2 minutes);  *)
(*  - a publish ends inside PUBLISH_STUCK_MS unless its process stops;     *)
(*  - a queued turn's expiry lies ahead until the tick that fails it.      *)
(***************************************************************************)
EXTENDS Naturals, Sequences

CONSTANTS
    Msg,          \* the thread's messages
    None,         \* no message
    Steering,     \* whether the box runs live chat turns a follow-up can join
    MaxFaults,    \* bound: lost calls and answers, dead runs and orchestrator restarts, together
    MaxRequests   \* bound: cancels and retried POSTs, together

ASSUME AskAssumption ==
    /\ None \notin Msg
    /\ Steering \in BOOLEAN
    /\ {MaxFaults, MaxRequests} \subseteq Nat

VARIABLES
    row,         \* AgentMessage: status, the recorded result, queuedPrompt # null, startedAt # null
    order,       \* the created messages, by createdAt
    ask,         \* the POST of each message: where it is, the busy message it read, what it plans
    start,       \* startRun of each message
    cancel,      \* the cancel of each message
    replay,      \* the retried POST of each message
    sweep,       \* closeLostRuns, for each message
    tick,        \* the messages the queue's ticks found ready to send
    publishing,  \* the messages finishRun is publishing
    published,   \* how often each message was published
    box,         \* each run on the box: its stage, its turn, the follow-up that joined it
    faults, requests

coroutines == <<ask, start, cancel, replay, sweep, tick, publishing>>
budgets == <<faults, requests>>
vars == <<row, order, coroutines, published, box, budgets>>

Ids == Msg \cup {None}
ActiveStates == {"submitted", "working"}
EndStates == {"completed", "failed", "canceled", "superseded"}
Results == {"none", "ok", "error"}

NoAsk == [pc |-> "none", busy |-> None, seen |-> "none", plan |-> "free"]
AskDone == [NoAsk EXCEPT !.pc = "done"]
NoStart == [pc |-> "idle", of |-> None, steered |-> FALSE, stop |-> FALSE, moved |-> FALSE]
NoCancel == [pc |-> "idle", seen |-> "none"]
NoSweep == [pc |-> "idle", seen |-> "none"]

MessageRows == [status : {"none"} \cup ActiveStates \cup EndStates, result : Results,
                prompt : BOOLEAN, started : BOOLEAN]
AskStates == [pc : {"none", "status", "lost", "create", "done"}, busy : Ids,
              seen : {"none"} \cup ActiveStates, plan : {"free", "queue", "steer"}]
StartStates == [pc : {"idle", "claimed", "rpc", "check", "fail", "hold", "mark",
                      "supersede", "reread", "stop"},
                of : Ids, steered : BOOLEAN, stop : BOOLEAN, moved : BOOLEAN]
CancelStates == [pc : {"idle", "write", "find", "stop"}, seen : {"none"} \cup ActiveStates]
SweepStates == [pc : {"idle", "status", "supersede", "close"}, seen : {"none"} \cup ActiveStates]
Runs == [run : {"none", "alive", "reporting", "joined", "gone"}, turn : Ids, by : Ids]

AskTypeOK ==
    /\ row \in [Msg -> MessageRows]
    /\ order \in Seq(Msg)
    /\ ask \in [Msg -> AskStates]
    /\ start \in [Msg -> StartStates]
    /\ cancel \in [Msg -> CancelStates]
    /\ replay \in [Msg -> {"idle", "status", "live", "lost"}]
    /\ sweep \in [Msg -> SweepStates]
    /\ tick \subseteq Msg
    /\ publishing \subseteq Msg
    /\ published \in [Msg -> Nat]
    /\ box \in [Msg -> Runs]
    /\ faults \in 0..MaxFaults /\ requests \in 0..MaxRequests

AskInit ==
    /\ row = [m \in Msg |-> [status |-> "none", result |-> "none", prompt |-> FALSE, started |-> FALSE]]
    /\ order = <<>>
    /\ ask = [m \in Msg |-> NoAsk]
    /\ start = [m \in Msg |-> NoStart]
    /\ cancel = [m \in Msg |-> NoCancel]
    /\ replay = [m \in Msg |-> "idle"]
    /\ sweep = [m \in Msg |-> NoSweep]
    /\ tick = {} /\ publishing = {}
    /\ published = [m \in Msg |-> 0]
    /\ box = [m \in Msg |-> [run |-> "none", turn |-> None, by |-> None]]
    /\ faults = 0 /\ requests = 0

-----------------------------------------------------------------------------
(* The rows. *)

Status(m) == row[m].status
Active(m) == Status(m) \in ActiveStates
Unanswered(m) == row[m].result = "none"

(* createdAt order. *)
Before(e, m) == \E i, j \in DOMAIN order : i < j /\ order[i] = e /\ order[j] = m

(* m is the thread's newest active message. *)
Newest(m) == Active(m) /\ ~ \E o \in Msg : Active(o) /\ Before(m, o)

(* waitsForThread: an earlier message of the thread is still active. *)
WaitsForThread(m) == \E e \in Msg : Before(e, m) /\ Active(e)

(* An updateMany that sets the status while the row meets its condition.    *)
Move(m, condition, to) ==
    row' = IF condition THEN [row EXCEPT ![m].status = to] ELSE row

(* stillStarting says so for certain: queued, or inside its start call. *)
Starting(m) == row[m].prompt \/ start[m].pc \in {"claimed", "rpc"}

(* One call to the box fails, or its answer is lost. *)
Fault == faults < MaxFaults /\ faults' = faults + 1

(* Somebody cancels, or a client retries. *)
Requested == requests < MaxRequests /\ requests' = requests + 1

-----------------------------------------------------------------------------
(* The box, as the calls on it see it. *)

(* ask-run-status: a run steered into answers `gone` and names its joiner.  *)
Running(m) == box[m].run \in {"alive", "reporting"}
LiveTurn(m) == Steering /\ box[m].run = "alive"

(* The runs that end with m's: the asks its turn superseded. *)
Tombstones(m) == {s \in Msg : box[s].run = "joined" /\ box[s].turn = box[m].turn}
Gone(b) == [b EXCEPT !.run = "gone", !.by = None]
EndRun(m, how) ==
    box' = [b \in Msg |-> IF b = m THEN [box[m] EXCEPT !.run = how]
                          ELSE IF b \in Tombstones(m) THEN Gone(box[b]) ELSE box[b]]

(* stopRun, best effort.  A joined run is not stopped: its turn is the      *)
(* follow-up's.                                                             *)
StopRun(m) ==
    \/ IF Running(m) THEN EndRun(m, "gone") /\ UNCHANGED faults ELSE UNCHANGED <<box, faults>>
    \/ Fault /\ UNCHANGED box

(* The turn is over: the run reports, for itself and those it superseded. *)
Finish(m) ==
    /\ box[m].run = "alive"
    /\ EndRun(m, "reporting")
    /\ UNCHANGED <<row, order, coroutines, published, budgets>>

(* A reboot, a kill, a crash of the runner. *)
Die(m) ==
    /\ Running(m) /\ Fault
    /\ EndRun(m, "gone")
    /\ UNCHANGED <<row, order, coroutines, published, requests>>

-----------------------------------------------------------------------------
(* POST /ask. *)

(* The newest active message, read before the transaction.  One that is     *)
(* still starting is queued behind; another's run is asked for at the box.  *)
AskRead(m) ==
    /\ ask[m].pc = "none" /\ row[m].status = "none"
    /\ \/ /\ ~ \E busy \in Msg : Newest(busy)
          /\ ask' = [ask EXCEPT ![m].pc = "create"]
       \/ \E busy \in Msg :
          /\ Newest(busy) /\ Status(busy) = "submitted"
          /\ ask' = [ask EXCEPT ![m] = [pc |-> "create", busy |-> busy, seen |-> "none", plan |-> "queue"]]
       \/ \E busy \in Msg :
          /\ Newest(busy) /\ ~ Starting(busy)
          /\ ask' = [ask EXCEPT ![m] = [pc |-> "status", busy |-> busy, seen |-> Status(busy), plan |-> "free"]]
    /\ UNCHANGED <<row, order, start, cancel, replay, sweep, tick, publishing, published, box, budgets>>

(* runStatus of the busy run, then steerDecision. *)
AskStatus(m) ==
    /\ ask[m].pc = "status"
    /\ LET busy == ask[m].busy IN
       \/ /\ ~ Running(busy)
          /\ ask' = [ask EXCEPT ![m].pc = "lost"] /\ UNCHANGED faults
       \/ /\ Running(busy)
          /\ ask' = [ask EXCEPT ![m].pc = "create",
                       ![m].plan = IF ask[m].seen = "working" /\ LiveTurn(busy) THEN "steer" ELSE "queue"]
          /\ UNCHANGED faults
       \/ Fault /\ ask' = [ask EXCEPT ![m].pc = "create", ![m].plan = "queue"]
    /\ UNCHANGED <<row, order, start, cancel, replay, sweep, tick, publishing, published, box, requests>>

(* finishLost: fails the turn if it is still in the state it was judged lost in. *)
FinishLost(m, seen) == Move(m, Status(m) = seen, "failed")

AskLost(m) ==
    /\ ask[m].pc = "lost"
    /\ FinishLost(ask[m].busy, ask[m].seen)
    /\ ask' = [ask EXCEPT ![m] = [NoAsk EXCEPT !.pc = "create"]]
    /\ UNCHANGED <<order, start, cancel, replay, sweep, tick, publishing, published, box, budgets>>

(* Wrong: the transaction trusts the busy message read before it.           *)
AskCreateUnchecked(m) ==
    /\ ask[m].pc = "create"
    /\ \E waits \in BOOLEAN :
         LET queued == waits \/ ask[m].plan = "queue"
         IN /\ row' = [row EXCEPT ![m].status = "submitted", ![m].prompt = queued]
            /\ start' = IF queued THEN start
                        ELSE [start EXCEPT ![m] = [NoStart EXCEPT !.pc = "rpc",
                                !.of = IF ask[m].plan = "steer" THEN ask[m].busy ELSE None]]
    /\ order' = Append(order, m)
    /\ ask' = [ask EXCEPT ![m] = AskDone]
    /\ UNCHANGED <<cancel, replay, sweep, tick, publishing, published, box, budgets>>

(* The transaction: the newest active message read again under the asker's  *)
(* lock, the row, and the start of a turn that is not queued.  A parked box *)
(* or an unfinished clone queues it whatever the thread does.               *)
AskCreate(m) ==
    /\ ask[m].pc = "create"
    /\ \E waits \in BOOLEAN :
         LET overtaken == \E o \in Msg \ {ask[m].busy} : Newest(o)
             plan == IF overtaken THEN "queue" ELSE ask[m].plan
             queued == waits \/ plan = "queue"
         IN /\ row' = [row EXCEPT ![m].status = "submitted", ![m].prompt = queued]
            /\ start' = IF queued THEN start
                        ELSE [start EXCEPT ![m] = [NoStart EXCEPT !.pc = "rpc",
                                !.of = IF plan = "steer" THEN ask[m].busy ELSE None]]
    /\ order' = Append(order, m)
    /\ ask' = [ask EXCEPT ![m] = AskDone]
    /\ UNCHANGED <<cancel, replay, sweep, tick, publishing, published, box, budgets>>

-----------------------------------------------------------------------------
(* startRun. *)

StartAt(m, pc) == start' = [start EXCEPT ![m].pc = pc]
StartEnds(m) == start' = [start EXCEPT ![m] = NoStart]
StartKeeps == <<order, ask, cancel, replay, sweep, tick, publishing, published, requests>>

(* The box takes the run, of its own or into the turn of start[m].of. *)
Starts(m) == box' = [box EXCEPT ![m] = [run |-> "alive", turn |-> m, by |-> None]]
Joins(m, s) ==
    /\ box[s].run = "alive"
    /\ box' = [box EXCEPT ![m] = [run |-> "alive", turn |-> box[s].turn, by |-> None],
                          ![s].run = "joined", ![s].by = m]

(* ask-run.  Its answer may be lost after the box acted, or it may never    *)
(* have arrived; the box may refuse a steer, and starts nothing then.       *)
Send(m) ==
    /\ start[m].pc \in {"claimed", "rpc"}
    /\ LET s == start[m].of IN
       \/ /\ s = None /\ Starts(m) /\ StartAt(m, "mark") /\ UNCHANGED faults
       \/ /\ s = None /\ Starts(m) /\ StartAt(m, "check") /\ Fault
       \/ /\ s # None /\ Joins(m, s) /\ UNCHANGED faults
          /\ start' = [start EXCEPT ![m].pc = "mark", ![m].steered = TRUE]
       \/ /\ s # None /\ Joins(m, s) /\ StartAt(m, "check") /\ Fault
       \/ /\ s # None /\ StartAt(m, "hold") /\ UNCHANGED <<box, faults>>
       \/ /\ StartAt(m, "check") /\ Fault /\ UNCHANGED box
    /\ UNCHANGED <<row, StartKeeps>>

(* Wrong: a steer whose call failed is held without asking the box.         *)
CheckHoldsAnyway(m) ==
    /\ start[m].pc = "check"
    /\ IF start[m].of # None THEN StartAt(m, "hold")
       ELSE StartAt(m, IF Running(m) THEN "mark" ELSE "fail")
    /\ UNCHANGED <<row, box, faults, StartKeeps>>

(* The call failed: startFailureAction, by what the box says of the run. *)
Check(m) ==
    /\ start[m].pc = "check"
    /\ LET s == start[m].of IN
       \/ /\ Running(m) /\ UNCHANGED faults
          /\ start' = [start EXCEPT ![m].pc = "mark", ![m].steered = s # None /\ box[s].by = m]
       \/ /\ ~ Running(m) /\ UNCHANGED faults
          /\ StartAt(m, IF s # None THEN "hold" ELSE "fail")
       \/ Fault /\ start' = [start EXCEPT ![m].pc = "fail", ![m].stop = TRUE]
    /\ UNCHANGED <<row, box, StartKeeps>>

(* Failed, and stopped when the box could not say; a turn someone else      *)
(* moved on meanwhile falls through to the update below.                    *)
FailStart(m) ==
    /\ start[m].pc = "fail"
    /\ Move(m, Status(m) = "submitted", "failed")
    /\ IF Status(m) # "submitted" THEN StartAt(m, "mark")
       ELSE IF start[m].stop THEN StartAt(m, "stop") ELSE StartEnds(m)
    /\ UNCHANGED <<box, faults, StartKeeps>>

(* failClaimed: what sendQueued checks between its claim and the call. *)
Refuse(m) ==
    /\ start[m].pc = "claimed"
    /\ Move(m, Status(m) = "submitted", "failed")
    /\ StartEnds(m)
    /\ UNCHANGED <<box, faults, StartKeeps>>

(* Wrong: marked working whatever became of it meanwhile.                   *)
MarkWorkingAnyway(m) ==
    /\ start[m].pc = "mark"
    /\ row' = [row EXCEPT ![m].status = "working", ![m].started = TRUE]
    /\ IF start[m].steered THEN StartAt(m, "supersede") ELSE StartEnds(m)
    /\ UNCHANGED <<box, faults, StartKeeps>>

MarkWorking(m) ==
    /\ start[m].pc = "mark"
    /\ LET moved == Status(m) # "submitted" IN
       /\ row' = IF moved THEN row ELSE [row EXCEPT ![m].status = "working", ![m].started = TRUE]
       /\ IF start[m].steered
          THEN start' = [start EXCEPT ![m].pc = "supersede", ![m].moved = moved]
          ELSE IF moved THEN StartAt(m, "reread") ELSE StartEnds(m)
    /\ UNCHANGED <<box, faults, StartKeeps>>

(* supersede: only a working turn with no result yet. *)
Supersedable(s) == Status(s) = "working" /\ Unanswered(s)
Supersedes(s) == Move(s, Supersedable(s), "superseded")

Supersede(m) ==
    /\ start[m].pc = "supersede"
    /\ Supersedes(start[m].of)
    /\ IF start[m].moved THEN StartAt(m, "reread") ELSE StartEnds(m)
    /\ UNCHANGED <<box, faults, StartKeeps>>

(* Canceled while it started: the cancel found nothing to stop yet. *)
Reread(m) ==
    /\ start[m].pc = "reread"
    /\ IF Status(m) = "canceled" THEN StartAt(m, "stop") ELSE StartEnds(m)
    /\ UNCHANGED <<row, box, faults, StartKeeps>>

StopStart(m) ==
    /\ start[m].pc = "stop"
    /\ StopRun(m)
    /\ StartEnds(m)
    /\ UNCHANGED <<row, StartKeeps>>

(* holdAsNextTurn. *)
Hold(m) ==
    /\ start[m].pc = "hold"
    /\ row' = IF Status(m) = "submitted" THEN [row EXCEPT ![m].prompt = TRUE] ELSE row
    /\ StartEnds(m)
    /\ UNCHANGED <<box, faults, StartKeeps>>

StartStep(m) ==
    \/ Send(m) \/ Check(m) \/ FailStart(m) \/ Refuse(m) \/ MarkWorking(m)
    \/ Supersede(m) \/ Reread(m) \/ StopStart(m) \/ Hold(m)

-----------------------------------------------------------------------------
(* The queue: tickQueue, sendQueued, failQueued. *)

TickKeeps == <<order, ask, cancel, replay, sweep, publishing, published, box, budgets>>

Queued(m) == Status(m) = "submitted" /\ row[m].prompt

(* Wrong: a queued follow-up does not wait for the turns before it.         *)
TickReadUnordered ==
    /\ tick' = tick \cup {m \in Msg : Queued(m)}
    /\ tick' # tick
    /\ UNCHANGED <<row, start, TickKeeps>>

TickRead ==
    /\ tick' = tick \cup {m \in Msg : Queued(m) /\ ~ WaitsForThread(m)}
    /\ tick' # tick
    /\ UNCHANGED <<row, start, TickKeeps>>

(* The claim clears the prompt, so one tick only sends it. *)
SendQueued(m) ==
    /\ m \in tick
    /\ tick' = tick \ {m}
    /\ IF Queued(m)
       THEN /\ row' = [row EXCEPT ![m].prompt = FALSE]
            /\ start' = [start EXCEPT ![m] = [NoStart EXCEPT !.pc = "claimed"]]
       ELSE UNCHANGED <<row, start>>
    /\ UNCHANGED TickKeeps

(* Past its deadline, its clone's setup failed, or its box is gone. *)
FailQueued(m) ==
    /\ Queued(m)
    /\ row' = [row EXCEPT ![m].status = "failed", ![m].prompt = FALSE]
    /\ UNCHANGED <<start, tick, TickKeeps>>

-----------------------------------------------------------------------------
(* Cancel. *)

CancelKeeps == <<order, ask, start, replay, sweep, tick, publishing, published>>

(* cancelDecision: a turn that ended, or whose result is in, is past it. *)
CancelRead(m) ==
    /\ cancel[m].pc = "idle"
    /\ Active(m) /\ Unanswered(m)
    /\ Requested
    /\ cancel' = [cancel EXCEPT ![m] = [pc |-> "write", seen |-> Status(m)]]
    /\ UNCHANGED <<row, box, faults, CancelKeeps>>

(* Wrong: a cancel that read the turn before its result came still wins.    *)
CancelWriteLate(m) ==
    /\ cancel[m].pc = "write"
    /\ IF Active(m)
       THEN /\ row' = [row EXCEPT ![m].status = "canceled", ![m].prompt = FALSE]
            /\ cancel' = [cancel EXCEPT ![m].pc = "find"]
       ELSE /\ cancel' = [cancel EXCEPT ![m] = NoCancel]
            /\ UNCHANGED row
    /\ UNCHANGED <<box, budgets, CancelKeeps>>

(* Whichever of the cancel and the box's result lands first wins; beaten,   *)
(* the cancel reads again and is refused.                                   *)
CancelWrite(m) ==
    /\ cancel[m].pc = "write"
    /\ IF Active(m) /\ Unanswered(m)
       THEN /\ row' = [row EXCEPT ![m].status = "canceled", ![m].prompt = FALSE]
            /\ cancel' = [cancel EXCEPT ![m].pc = "find"]
       ELSE /\ cancel' = [cancel EXCEPT ![m] = NoCancel]
            /\ UNCHANGED row
    /\ UNCHANGED <<box, budgets, CancelKeeps>>

(* Wrong: stops only a turn it had read as working.                         *)
CancelFindSeen(m) ==
    /\ cancel[m].pc = "find"
    /\ cancel' = [cancel EXCEPT ![m] = IF cancel[m].seen = "working"
                                       THEN [pc |-> "stop", seen |-> "none"] ELSE NoCancel]
    /\ UNCHANGED <<row, box, budgets, CancelKeeps>>

(* cancelShouldStop. *)
CancelFind(m) ==
    /\ cancel[m].pc = "find"
    /\ cancel' = [cancel EXCEPT ![m] = IF cancel[m].seen = "working" \/ row[m].started
                                       THEN [pc |-> "stop", seen |-> "none"] ELSE NoCancel]
    /\ UNCHANGED <<row, box, budgets, CancelKeeps>>

CancelStop(m) ==
    /\ cancel[m].pc = "stop"
    /\ StopRun(m)
    /\ cancel' = [cancel EXCEPT ![m] = NoCancel]
    /\ UNCHANGED <<row, requests, CancelKeeps>>

CancelStep(m) == CancelWrite(m) \/ CancelFind(m) \/ CancelStop(m)

-----------------------------------------------------------------------------
(* recordResult and finishRun. *)

(* Wrong: only a cancel drops a report; a repeated one is taken again.      *)
PostResultAgain(m) ==
    /\ box[m].run = "reporting"
    /\ IF Status(m) # "canceled"
       THEN /\ \E r \in Results \ {"none"} : row' = [row EXCEPT ![m].result = r]
            /\ publishing' = publishing \cup {m}
       ELSE UNCHANGED <<row, publishing>>
    /\ \/ box' = [box EXCEPT ![m] = Gone(box[m])] /\ UNCHANGED faults
       \/ Fault /\ UNCHANGED box
    /\ UNCHANGED <<order, ask, start, cancel, replay, sweep, tick, published, requests>>

(* The report.  Only the first one of a working turn counts; any other is   *)
(* answered 204 and dropped.  The runner reports again when it hears none.  *)
PostResult(m) ==
    /\ box[m].run = "reporting"
    /\ IF Status(m) = "working" /\ Unanswered(m)
       THEN /\ \E r \in Results \ {"none"} : row' = [row EXCEPT ![m].result = r]
            /\ publishing' = publishing \cup {m}
       ELSE UNCHANGED <<row, publishing>>
    /\ \/ box' = [box EXCEPT ![m] = Gone(box[m])] /\ UNCHANGED faults
       \/ Fault /\ UNCHANGED box
    /\ UNCHANGED <<order, ask, start, cancel, replay, sweep, tick, published, requests>>

(* Wrong: the run's own result word for the message's status.               *)
OutcomeRaw(m) == row[m].result

Outcome(m) == IF row[m].result = "error" THEN "failed" ELSE "completed"

(* Published; the row is then set by id, with no condition on its status.   *)
(* The update itself may fail, and is only logged.                          *)
FinishRun(m) ==
    /\ m \in publishing
    /\ publishing' = publishing \ {m}
    /\ published' = [published EXCEPT ![m] = @ + 1]
    /\ \/ row' = [row EXCEPT ![m].status = Outcome(m)] /\ UNCHANGED faults
       \/ Fault /\ UNCHANGED row
    /\ UNCHANGED <<order, ask, start, cancel, replay, sweep, tick, box, requests>>

-----------------------------------------------------------------------------
(* replayAsk: the same id posted again, on a row submitted past its start.  *)

ReplayKeeps == <<order, ask, start, cancel, sweep, tick, publishing, published, box>>

ReplayRead(m) ==
    /\ replay[m] = "idle"
    /\ Status(m) = "submitted" /\ ~ Starting(m)
    /\ Requested
    /\ replay' = [replay EXCEPT ![m] = "status"]
    /\ UNCHANGED <<row, faults, ReplayKeeps>>

ReplayStatus(m) ==
    /\ replay[m] = "status"
    /\ \/ replay' = [replay EXCEPT ![m] = IF Running(m) THEN "live" ELSE "lost"] /\ UNCHANGED faults
       \/ replay' = [replay EXCEPT ![m] = "idle"] /\ Fault
    /\ UNCHANGED <<row, requests, ReplayKeeps>>

ReplaySettle(m) ==
    /\ replay[m] \in {"live", "lost"}
    /\ row' = IF Status(m) # "submitted" THEN row
              ELSE IF replay[m] = "live" THEN [row EXCEPT ![m].status = "working", ![m].started = TRUE]
              ELSE [row EXCEPT ![m].status = "failed"]
    /\ replay' = [replay EXCEPT ![m] = "idle"]
    /\ UNCHANGED <<budgets, ReplayKeeps>>

-----------------------------------------------------------------------------
(* sweepAsks and closeLostRuns. *)

SweepKeeps == <<order, ask, start, cancel, replay, tick, publishing, published, box, requests>>

(* Wrong: the sweep looks at working turns only.                            *)
SweepReadWorking(m) ==
    /\ sweep[m].pc = "idle"
    /\ Status(m) = "working" /\ Unanswered(m)
    /\ start[m].pc = "idle"
    /\ sweep' = [sweep EXCEPT ![m] = [pc |-> "status", seen |-> Status(m)]]
    /\ UNCHANGED <<row, faults, SweepKeeps>>

SweepRead(m) ==
    /\ sweep[m].pc = "idle"
    /\ Active(m) /\ Unanswered(m)
    /\ ~ Queued(m) /\ start[m].pc = "idle"
    /\ sweep' = [sweep EXCEPT ![m] = [pc |-> "status", seen |-> Status(m)]]
    /\ UNCHANGED <<row, faults, SweepKeeps>>

SweepStatus(m) ==
    /\ sweep[m].pc = "status"
    /\ LET joined == box[m].by # None /\ sweep[m].seen = "working" IN
       \/ Running(m) /\ sweep' = [sweep EXCEPT ![m] = NoSweep] /\ UNCHANGED faults
       \/ ~ Running(m) /\ sweep' = [sweep EXCEPT ![m].pc = IF joined THEN "supersede" ELSE "close"] /\ UNCHANGED faults
       \/ sweep' = [sweep EXCEPT ![m] = NoSweep] /\ Fault
    /\ UNCHANGED <<row, SweepKeeps>>

SweepSupersede(m) ==
    /\ sweep[m].pc = "supersede"
    /\ Supersedes(m)
    /\ sweep' = [sweep EXCEPT ![m] = IF Supersedable(m) THEN NoSweep ELSE [@ EXCEPT !.pc = "close"]]
    /\ UNCHANGED <<faults, SweepKeeps>>

SweepClose(m) ==
    /\ sweep[m].pc = "close"
    /\ Move(m, Status(m) = sweep[m].seen /\ Unanswered(m), "failed")
    /\ sweep' = [sweep EXCEPT ![m] = NoSweep]
    /\ UNCHANGED <<faults, SweepKeeps>>

(* A publish its process took with it. *)
SweepStuck(m) ==
    /\ Status(m) = "working" /\ ~ Unanswered(m) /\ m \notin publishing
    /\ row' = [row EXCEPT ![m].status = Outcome(m)]
    /\ UNCHANGED <<sweep, faults, SweepKeeps>>

(* An ended turn never needs its prompt. *)
SweepPrompt(m) ==
    /\ Status(m) \in EndStates /\ row[m].prompt
    /\ row' = [row EXCEPT ![m].prompt = FALSE]
    /\ UNCHANGED <<sweep, faults, SweepKeeps>>

SweepStep(m) ==
    SweepRead(m) \/ SweepStatus(m) \/ SweepSupersede(m) \/ SweepClose(m) \/ SweepStuck(m) \/ SweepPrompt(m)

(* The orchestrator restarts: every coroutine is lost, the rows stay.  A    *)
(* POST that created no row is sent again by its client.                    *)
Restart ==
    /\ Fault
    /\ ask' = [m \in Msg |-> IF Status(m) = "none" THEN NoAsk ELSE AskDone]
    /\ start' = [m \in Msg |-> NoStart]
    /\ cancel' = [m \in Msg |-> NoCancel]
    /\ replay' = [m \in Msg |-> "idle"]
    /\ sweep' = [m \in Msg |-> NoSweep]
    /\ tick' = {} /\ publishing' = {}
    /\ UNCHANGED <<row, order, published, box, requests>>

AskNext ==
    \/ \E m \in Msg :
         \/ AskRead(m) \/ AskStatus(m) \/ AskLost(m) \/ AskCreate(m)
         \/ StartStep(m)
         \/ SendQueued(m) \/ FailQueued(m)
         \/ CancelRead(m) \/ CancelStep(m)
         \/ PostResult(m) \/ FinishRun(m)
         \/ ReplayRead(m) \/ ReplayStatus(m) \/ ReplaySettle(m)
         \/ SweepStep(m)
         \/ Finish(m) \/ Die(m)
    \/ TickRead
    \/ Restart

AskSpec == AskInit /\ [][AskNext]_vars

(* Scheduling.  A coroutine once resumed goes on, an interval comes round   *)
(* again, a run ends and its report arrives.  A new message, a cancel, a    *)
(* retried POST, a fault and a restart need never happen.                   *)
AskFairSpec ==
    /\ AskSpec
    /\ WF_vars(TickRead)
    /\ \A m \in Msg :
         /\ WF_vars(StartStep(m))
         /\ WF_vars(SendQueued(m))
         /\ WF_vars(FinishRun(m))
         /\ WF_vars(SweepStep(m))
         /\ WF_vars(Finish(m))
         /\ WF_vars(PostResult(m))

-----------------------------------------------------------------------------
(* Properties. *)

(* A cancel and the box's result never both take a message: whichever lands *)
(* first wins, whatever a lost answer, a repeated report or a restart does  *)
(* in between (cancel's and recordResult's `resultAt: null`).               *)
CancelOrResult ==
    \A m \in Msg : Status(m) \in {"canceled", "superseded"} => row[m].result = "none" /\ published[m] = 0

(* A result is published once, however often the box reports it.            *)
PublishedOnce == \A m \in Msg : published[m] <= 1

(* A prompt waiting in the queue is nowhere on its way: no start of it is   *)
(* in progress and no run of it is on the box, so a tick can send it.       *)
QueuedIsUnsent ==
    \A m \in Msg : Queued(m) => start[m].pc = "idle" /\ ~ Running(m)

(* Every canceled run is stopped: while its run goes on, the cancel or the  *)
(* start it raced is still to stop it.  Lost calls and restarts are         *)
(* excepted: stopRun is best effort.                                   *)
CanceledRunIsStopped ==
    faults = 0 =>
      \A m \in Msg : Status(m) = "canceled" /\ Running(m) =>
        \/ cancel[m].pc \in {"find", "stop"}
        \/ start[m].pc \in {"mark", "supersede", "reread", "stop"}

(* An end other than `failed` is for good.                                  *)
EndsStay ==
    [][\A m \in Msg : Status(m) \in EndStates \ {"failed"} => Status(m)' = Status(m)]_vars

(* The box gets a turn of its own only once every earlier message of the    *)
(* thread has ended: one turn at a time, in order (waitsForThread, the      *)
(* re-read of the newest active message in the POST's transaction).         *)
TurnsInOrder ==
    [][\A m \in Msg : ~ Running(m) /\ Running(m)' /\ box'[m].turn = m => ~ WaitsForThread(m)]_vars

(* No two messages still active each have a run of their own in the         *)
(* thread's clone (steerDecision: `at most one run works`).                 *)
OneRunAtATime ==
    \A m, o \in Msg : Active(m) /\ Active(o) /\ Running(m) /\ Running(o) => m = o

(* Every message ends: the restart that took its coroutine, the answer that *)
(* was lost and the run that died are all settled by the sweep.             *)
EveryAskEnds ==
    \A m \in Msg : Active(m) ~> Status(m) \in EndStates

(* What the code says of itself and does not do, see README.                *)

(* A message's end is final (agentMessages.ts lists the ended states;       *)
(* finishLost fails a turn only in the state it was judged lost in; a turn  *)
(* whose result is in is publishing).                                       *)
EndIsFinal ==
    [][\A m \in Msg : Status(m) \in EndStates => Status(m)' = Status(m)]_vars

(* A turn a follow-up went into is not lost: it ends superseded             *)
(* (closeLostRuns, runStatus).                                              *)
JoinedIsNotLost ==
    \A m \in Msg : box[m].run = "joined" => Status(m) # "failed"

=============================================================================
