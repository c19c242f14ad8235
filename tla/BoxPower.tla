------------------------------ MODULE BoxPower ------------------------------
(***************************************************************************)
(* Power requests on one EC2 box (boxPower.ts): a request reads the box's  *)
(* row, moves it to `stopping` or `starting` by a write guarded on what it *)
(* read, asks EC2, and puts the row back if EC2 refuses.  The power sweep  *)
(* settles the two passing statuses from what EC2 says, and the agent's    *)
(* connect makes a started box `ready` (agentRegistry.ts).                 *)
(*                                                                         *)
(* A refused request puts back every column as it read it, also one that   *)
(* changed before it moved the row.  `overwrote` says that has happened:   *)
(* what a column promises about the past ends there (see the README).      *)
(*                                                                         *)
(* Every SQL statement is one step, every await lies between two steps.    *)
(* Dates are opaque stamps: the code compares them for equality, apart     *)
(* from the ages, which may be anything when a step reads them.            *)
(***************************************************************************)
EXTENDS Naturals, FiniteSets

CONSTANTS
  Clients,      \* owners, reviewers and automations with a request under way
  None,
  MaxFaults,    \* bound: refused calls, glitches of EC2, failed terminates, restarts
  Timely        \* whether EC2 answers a call before a sweep looks at the box

ASSUME BoxAssumption ==
  /\ MaxFaults \in Nat /\ Timely \in BOOLEAN
  /\ IsFiniteSet(Clients) /\ Clients \cap {"sweep", "resize"} = {}
  /\ None \notin {"ok", "refused", "conflict"}

VARIABLES
  row,         \* the box's row in `instances`
  ec2,         \* what EC2 says of the instance
  req,         \* the power request of each caller, None when it has none
  lock,        \* the open `resize` row in box_events: "free", "held", "orphan"
  settling,    \* what the power sweep read of the row, and EC2's state
  online,      \* the box's agent has a socket
  connecting,  \* the row its connect was authorized with, until it is recorded
  told,        \* the answer to the resize's request, None when it waits for none
  faults,
  ownerUp,     \* history: its owner used it since the sweep last put it down
  touched,     \* history: it was used since the sweep's park re-read it
  overwrote    \* history: a refused request put back an older row than it moved

agentVars == <<online, connecting>>
historyVars == <<ownerUp, touched, overwrote>>
powerVars == <<row, ec2, req, told, lock, settling, agentVars, faults, historyVars>>

Callers == Clients \cup {"sweep", "resize"}
\* `wake` is a reviewer's or an automation's: both restart the idle clock only.
Starts == {"ownerStart", "wake", "resizeStart"}
Stops == {"ownerStop", "park", "stuckStop", "resizeStop"}
Statuses == {"ready", "stopping", "stopped", "starting", "terminated"}

To(kind) == IF kind \in Starts THEN "starting" ELSE "stopping"

InFlight(c) == req[c] # None /\ req[c].pc \in {"sent", "reverting"}
CallsAnswered == \A c \in Callers : ~InFlight(c)
\* Assumption of a Timely run: no call to EC2 is in flight and no connect waits
\* to be recorded while a sweep looks at what EC2 says (the ages it settles at
\* are a minute and more, but for a stop that is done) or finds a start stuck.
NoCallAcross == Timely => CallsAnswered /\ connecting = None

-----------------------------------------------------------------------------
(* Stamps: lastActivityAt and parkedAt.  A new one differs from every copy *)
(* of an older one that something still compares with; 0 is NULL.          *)

Fresh(inUse) == CHOOSE n \in 1..(Cardinality(inUse) + 1) : n \notin inUse

Copies == {req[c].seen : c \in {d \in Callers : req[d] # None}}
FreshClock == Fresh({r.clock : r \in Copies})

\* An owner's use of the box (boxInUseFields).
InUse(r) == [r EXCEPT !.clock = FreshClock, !.parked = 0, !.auto = FALSE, !.stuck = FALSE]

\* What a request writes besides the status.  `stuck` says that lifecycleNote
\* is a stuck start's.
Columns(kind, r) ==
  CASE kind = "ownerStart" -> InUse(r)
    [] kind = "ownerStop" -> [r EXCEPT !.stuck = FALSE]
    [] kind = "wake" -> [r EXCEPT !.clock = FreshClock]
    [] kind = "park" -> [r EXCEPT !.stuck = FALSE, !.auto = TRUE, !.parked = 0]
    [] kind = "stuckStop" -> [r EXCEPT !.stuck = TRUE, !.auto = TRUE, !.parked = 0]
    [] kind \in {"resizeStop", "resizeStart"} -> r

-----------------------------------------------------------------------------
(* requestPower                                                            *)

\* The caller reads the row it will ask for.
Ask(c, kind) ==
  /\ req[c] = None
  /\ req' = [req EXCEPT ![c] = [pc |-> "read", kind |-> kind, seen |-> row, late |-> FALSE]]

\* A resize waits for its request's answer; the others are done with it.
Answer(c, answer) == req' = [req EXCEPT ![c] = None] /\ told' = IF c = "resize" THEN answer ELSE told

\* Wrong: a stop the sweep decided on minutes ago is not guarded on the clock.
UnmovedAnyClock(c) ==
  LET r == req[c] IN
    /\ row.status = r.seen.status
    /\ ~row.claimed
    /\ r.kind \notin {"resizeStop", "resizeStart"} => lock = "free"

\* Wrong: the row's status is checked by the caller only.
UnmovedAnyStatus(c) ==
  LET r == req[c] IN
    /\ ~row.claimed
    /\ r.kind \notin {"resizeStop", "resizeStart"} => lock = "free"
    /\ r.kind = "park" => row.clock = r.seen.clock

\* Wrong: a claim for terminate does not hold a start off.
UnmovedThoughClaimed(c) ==
  LET r == req[c] IN
    /\ row.status = r.seen.status
    /\ r.kind \notin {"resizeStop", "resizeStart"} => lock = "free"
    /\ r.kind = "park" => row.clock = r.seen.clock

\* The guard of the write that moves the row.
Unmoved(c) ==
  LET r == req[c] IN
    /\ row.status = r.seen.status
    /\ ~row.claimed
    /\ r.kind \notin {"resizeStop", "resizeStart"} => lock = "free"
    /\ r.kind = "park" => row.clock = r.seen.clock

Moves(c) == req[c] # None /\ req[c].pc = "read" /\ Unmoved(c)

Move(c) ==
  LET kind == req[c].kind IN
    /\ Moves(c)
    /\ row' = [Columns(kind, row) EXCEPT !.status = To(kind)]
    /\ req' = [req EXCEPT ![c].pc = "sent", ![c].late = row # req[c].seen]
    /\ ownerUp' = ((ownerUp \/ kind = "ownerStart") /\ kind \notin {"park", "stuckStop"})
    /\ touched' = (touched /\ c # "sweep")
    /\ overwrote' = (overwrote /\ kind # "ownerStart")
    /\ UNCHANGED <<ec2, told, lock, settling, agentVars, faults>>

\* PowerRequestConflict.
Conflict(c) ==
  /\ req[c] # None /\ req[c].pc = "read" /\ ~Unmoved(c)
  /\ Answer(c, "conflict")
  /\ touched' = (touched /\ c # "sweep")
  /\ UNCHANGED <<row, ec2, lock, settling, agentVars, faults, ownerUp, overwrote>>

\* EC2 takes a call: what the instance does, or nothing when it can't.
Possible(kind) ==
  IF kind \in Starts THEN ec2 \in {"stopped", "running"} ELSE ec2 # "terminated"

Accepted(c) ==
  LET kind == req[c].kind IN
    /\ req[c] # None /\ req[c].pc = "sent" /\ Possible(kind)
    /\ ec2' = IF kind \in Starts THEN "running"
              ELSE IF ec2 = "running" THEN "stopping" ELSE ec2
    /\ Answer(c, "ok")
    /\ UNCHANGED <<row, lock, settling, agentVars, faults, historyVars>>

Refused(c) ==
  /\ req[c] # None /\ req[c].pc = "sent"
  /\ Possible(req[c].kind) => faults < MaxFaults
  /\ faults' = IF Possible(req[c].kind) THEN faults + 1 ELSE faults
  /\ req' = [req EXCEPT ![c].pc = "reverting"]
  /\ UNCHANGED <<row, ec2, told, lock, settling, agentVars, historyVars>>

\* Wrong: the row is put back whatever it says by now.
PutsBackAlways(c) == TRUE

\* The row as revert leaves it: `claimed` is not among its columns.
Reverted(seen) == [seen EXCEPT !.claimed = row.claimed]

PutsBack(c) == row.status = To(req[c].kind)

Revert(c) ==
  /\ req[c] # None /\ req[c].pc = "reverting"
  /\ IF PutsBack(c)
     THEN row' = Reverted(req[c].seen) /\ overwrote' = (overwrote \/ req[c].late)
     ELSE UNCHANGED <<row, overwrote>>
  /\ ownerUp' = (ownerUp /\ req[c].kind # "ownerStart")
  /\ Answer(c, "refused")
  /\ UNCHANGED <<ec2, lock, settling, agentVars, faults, touched>>

PowerStep(c) == Move(c) \/ Conflict(c) \/ Accepted(c) \/ Refused(c) \/ Revert(c)

-----------------------------------------------------------------------------
(* sweepPowerStates: read the rows, describe each box, settle it by a      *)
(* write guarded on the status read.                                       *)

\* Wrong: a start that did not take is not settled.
SettlementOfStops(status, state) ==
  CASE status = "stopping" /\ state = "stopped" -> "stopped"
    [] status = "stopping" /\ state = "running" -> "ready"
    [] OTHER -> None

\* settlePowerState; None leaves the row.
Settlement(status, state) ==
  CASE status \in {"stopping", "starting"} /\ state = "stopped" -> "stopped"
    [] status = "stopping" /\ state = "running" -> "ready"
    [] OTHER -> None

\* Wrong: any stop that settles starts the terminate clock.
StampsParkAnyStop == row.status = "stopping" /\ row.parked = 0
\* The sweep's stop settles: parkedAt starts the terminate clock.
StampsPark == row.status = "stopping" /\ row.auto /\ row.parked = 0

\* The sweep lists the box and describes it; the age it settles at is reached.
Describe ==
  LET to == Settlement(row.status, ec2) IN
    /\ settling = None
    /\ to # None
    /\ NoCallAcross
    /\ settling' = [status |-> row.status, to |-> to, stamps |-> StampsPark]
    /\ UNCHANGED <<row, ec2, req, told, lock, agentVars, faults, historyVars>>

Settle(freshPark) ==
  /\ settling # None
  /\ settling' = None
  /\ IF row.status = settling.status
     THEN row' = [row EXCEPT
            !.status = settling.to,
            !.parked = IF settling.to = "stopped" /\ settling.stamps THEN freshPark ELSE @,
            !.auto = @ /\ settling.to # "ready"]
     ELSE UNCHANGED row
  /\ UNCHANGED <<ec2, req, told, lock, agentVars, faults, historyVars>>

-----------------------------------------------------------------------------
(* EC2 and the agent on the box                                            *)

Ec2Stops ==
  /\ ec2 = "stopping" /\ ec2' = "stopped" /\ online' = FALSE
  /\ UNCHANGED <<row, req, told, lock, settling, connecting, faults,
                 historyVars>>

\* A stop that was accepted is dropped, or a running instance goes down.
Ec2Glitch ==
  /\ faults < MaxFaults /\ faults' = faults + 1
  /\ \/ ec2 = "stopping" /\ ec2' = "running" /\ UNCHANGED online
     \/ ec2 = "running" /\ ec2' = "stopped" /\ online' = FALSE
  /\ UNCHANGED <<row, req, told, lock, settling, connecting, historyVars>>

\* The agent dials in: its token and its row are read, its socket is kept.
AgentConnects ==
  /\ ec2 = "running" /\ ~online /\ connecting = None
  /\ row.status # "terminated"
  /\ online' = TRUE /\ connecting' = [status |-> row.status, stuck |-> row.stuck]
  /\ UNCHANGED <<row, ec2, req, told, lock, settling, faults, historyVars>>

\* Wrong: a status it does not know is clobbered.
ClobberedOnConnect(status) == IF status \in {"stopped", "starting"} THEN "ready" ELSE None

\* CONNECT_TRANSITIONS
NextOnConnect(status) == IF status \in {"stopped", "starting"} THEN "ready" ELSE status

\* Wrong: the connect is recorded over whatever the row says by now.
RecordsAlways == TRUE
RecordsConnect == row.status = connecting.status

\* connectUpdate; when its guard fails, stuckMarkDropUpdate.
ConnectRecorded ==
  LET stuck == IF RecordsConnect THEN connecting.stuck ELSE row.stuck IN
    /\ connecting # None
    /\ connecting' = None
    /\ row' = [row EXCEPT
         !.status = IF RecordsConnect THEN NextOnConnect(connecting.status) ELSE @,
         !.stuck = @ /\ ~stuck,
         !.auto = @ /\ ~stuck]
    /\ UNCHANGED <<ec2, req, told, lock, settling, online, faults,
                   historyVars>>

\* The sweep has read the box again and not asked for its park yet.
ParkRead == req["sweep"] # None /\ req["sweep"].kind = "park" /\ req["sweep"].pc = "read"

\* noteBoxActivity, noteAutomationRunActivity: only a ready box's clock moves.
Activity ==
  /\ row.status = "ready"
  /\ row' = [row EXCEPT !.clock = FreshClock]
  /\ touched' = (touched \/ ParkRead)
  /\ UNCHANGED <<ec2, req, told, lock, settling, agentVars, faults, ownerUp, overwrote>>

\* keepOwnedBoxRunning
KeepRunning ==
  /\ row.status = "ready"
  /\ row' = InUse(row)
  /\ touched' = (touched \/ ParkRead) /\ ownerUp' = TRUE /\ overwrote' = FALSE
  /\ UNCHANGED <<ec2, req, told, lock, settling, agentVars, faults>>
=============================================================================
