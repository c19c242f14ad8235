---------------------------- MODULE BoxLifecycle ----------------------------
(***************************************************************************)
(* Who asks for power, composed with BoxPower: the owner, reviewers and    *)
(* automations; the lifecycle sweep (boxLifecycle.ts), which parks an idle *)
(* box, stops one that never came up and terminates one parked too long;   *)
(* and a resize (boxResize.ts), which holds the box while it stops,        *)
(* retypes and starts it.                                                  *)
(***************************************************************************)
EXTENDS BoxPower

CONSTANTS
  EndsInResize,  \* whether the owner terminates a box that is being resized
  MaxAtOnce      \* bound: what is under way when somebody begins something

VARIABLES
  ending,    \* the sweep's terminate: where it is and what it decided on
  teardown,  \* terminateBox has been called and has not reached EC2 yet
  job        \* the resize's step, and whether it starts the box at the end

boxVars == <<powerVars, ending, teardown, job>>
lifeVars == <<ending, teardown, job>>

Rows == [status : Statuses, parked : Nat, auto : BOOLEAN, claimed : BOOLEAN,
         clock : Nat, stuck : BOOLEAN]
Requests == [pc : {"read", "sent", "reverting"},
             kind : Starts \cup Stops, seen : Rows, late : BOOLEAN]
JobSteps == {"stop", "stopping", "modify", "start", "starting", "back", "backing", "close"}

ASSUME LifecycleAssumption ==
  /\ EndsInResize \in BOOLEAN /\ MaxAtOnce \in Nat
  /\ None \notin [pc : JobSteps, after : BOOLEAN] /\ None \notin Requests

BoxTypeOK ==
  /\ row \in Rows
  /\ ec2 \in {"running", "stopping", "stopped", "terminated"}
  /\ req \in [Callers -> Requests \cup {None}]
  /\ lock \in {"free", "held", "orphan"}
  /\ settling \in [status : Statuses, to : Statuses, stamps : BOOLEAN] \cup {None}
  /\ told \in {"ok", "refused", "conflict", None}
  /\ online \in BOOLEAN
  /\ connecting \in [status : Statuses, stuck : BOOLEAN] \cup {None}
  /\ faults \in 0..MaxFaults
  /\ ownerUp \in BOOLEAN /\ touched \in BOOLEAN
  /\ overwrote \in BOOLEAN
  /\ ending \in [pc : {"due", "claimed", "failed"}, parked : Nat, stuck : BOOLEAN] \cup {None}
  /\ teardown \in BOOLEAN
  /\ job \in [pc : JobSteps, after : BOOLEAN] \cup {None}

\* A box its owner set up and uses.
BoxInit ==
  /\ row = [status |-> "ready", parked |-> 0, auto |-> FALSE, claimed |-> FALSE,
            clock |-> 1, stuck |-> FALSE]
  /\ ec2 = "running" /\ online = TRUE /\ connecting = None
  /\ req = [c \in Callers |-> None] /\ lock = "free" /\ settling = None /\ told = None
  /\ faults = 0
  /\ ownerUp = TRUE /\ touched = FALSE /\ overwrote = FALSE
  /\ ending = None /\ teardown = FALSE /\ job = None

-----------------------------------------------------------------------------
(* Who asks (powerRequestError, wakeShareBox, the scheduler's start).       *)

\* What is under way: requests, a resize, a terminate, a settle, a connect.
UnderWay ==
  {c \in Callers : req[c] # None}
    \cup {"resize" : j \in {job} \ {None}} \cup {"ending" : e \in {ending} \ {None}}
    \cup {"settling" : r \in {settling} \ {None}} \cup {"connecting" : r \in {connecting} \ {None}}
MayBegin == Cardinality(UnderWay) < MaxAtOnce

MayAsk(kind) ==
  CASE kind = "ownerStart" -> row.status = "stopped" /\ ~row.claimed
    [] kind = "ownerStop" -> row.status \in {"ready", "starting"} /\ ~row.claimed
    [] kind = "wake" -> row.status = "stopped"

ClientAsks(c) ==
  /\ MayBegin
  /\ \E kind \in {"ownerStart", "ownerStop", "wake"} :
       MayAsk(kind) /\ Ask(c, kind)
  /\ UNCHANGED <<row, ec2, told, lock, settling, agentVars, faults,
                 historyVars, lifeVars>>

\* terminateBoxRow, all of it: nothing it reads holds its transaction off,
\* not even a resize at work.
OwnerTerminate ==
  /\ MayBegin
  /\ EndsInResize \/ job = None
  /\ row.status # "terminated"
  /\ row' = [row EXCEPT !.status = "terminated"]
  /\ teardown' = TRUE
  /\ UNCHANGED <<ec2, req, told, lock, settling, agentVars, faults,
                 historyVars, ending, job>>

-----------------------------------------------------------------------------
(* The lifecycle sweep.  One pass at a time (`sweeping`), one box at a     *)
(* time here.                                                              *)

SweepFree == req["sweep"] = None /\ ending = None /\ MayBegin

\* considerBox, from its second reading of the box on.
Park ==
  /\ SweepFree
  /\ row.status = "ready" /\ ~row.stuck
  /\ Ask("sweep", "park")
  /\ touched' = FALSE
  /\ UNCHANGED <<row, ec2, told, lock, settling, agentVars, faults, ownerUp, overwrote, lifeVars>>

\* stuckStartPass: it was started long ago and its agent is not there.
StuckStart ==
  /\ SweepFree
  /\ NoCallAcross
  /\ row.status = "starting" /\ ~online
  /\ Ask("sweep", "stuckStop")
  /\ UNCHANGED <<row, ec2, told, lock, settling, agentVars, faults,
                 historyVars, lifeVars>>

\* terminatePass finds the box, and terminateDecision that it is due.
TerminateDue ==
  /\ SweepFree
  /\ row.status = "stopped" /\ row.parked # 0
  /\ ending' = [pc |-> "due", parked |-> row.parked, stuck |-> row.stuck]
  /\ UNCHANGED <<powerVars, teardown, job>>

StillParked == row.status = "stopped" /\ row.parked = ending.parked

\* considerTerminate's claim.
Claim ==
  /\ ending # None /\ ending.pc = "due"
  /\ IF StillParked
     THEN /\ row' = [row EXCEPT !.claimed = TRUE, !.stuck = FALSE]
          /\ ending' = [ending EXCEPT !.pc = "claimed"]
     ELSE UNCHANGED row /\ ending' = None
  /\ UNCHANGED <<ec2, req, told, lock, settling, agentVars, faults,
                 historyVars, teardown, job>>

\* terminateOwnedBox answers 200.
Terminate ==
  /\ ending # None /\ ending.pc = "claimed"
  /\ row' = [row EXCEPT !.status = "terminated"]
  /\ teardown' = (teardown \/ row.status # "terminated")
  /\ ending' = None
  /\ UNCHANGED <<ec2, req, told, lock, settling, agentVars, faults,
                 historyVars, job>>

\* It throws or answers something else.
TerminateFails ==
  /\ ending # None /\ ending.pc = "claimed"
  /\ faults < MaxFaults /\ faults' = faults + 1
  /\ ending' = [ending EXCEPT !.pc = "failed"]
  /\ UNCHANGED <<row, ec2, req, told, lock, settling, agentVars, historyVars, teardown, job>>

Released ==
  IF row.status = "stopped"
  THEN [row EXCEPT !.claimed = FALSE, !.stuck = ending.stuck] ELSE row

Release ==
  /\ ending # None /\ ending.pc = "failed"
  /\ row' = Released
  /\ ending' = None
  /\ UNCHANGED <<ec2, req, told, lock, settling, agentVars, faults,
                 historyVars, teardown, job>>

\* terminateBox, which nobody waits for.
Teardown ==
  /\ teardown
  /\ ec2' = "terminated" /\ online' = FALSE /\ teardown' = FALSE
  /\ UNCHANGED <<row, req, told, lock, settling, connecting, faults,
                 historyVars, ending, job>>

-----------------------------------------------------------------------------
(* A resize                                                                *)

At(step) == job # None /\ job.pc = step
Goto(step) == job' = [job EXCEPT !.pc = step]

\* startResize: its lock, under the box's row lock; by its owner or an admin.
StartResize ==
  /\ MayBegin
  /\ job = None /\ lock = "free"
  /\ row.status \in {"ready", "stopped"} /\ ~row.claimed
  /\ lock' = "held"
  /\ job' = [pc |-> IF row.status = "ready" THEN "stop" ELSE "modify",
             after |-> row.status = "ready"]
  /\ \E byOwner \in BOOLEAN :
       IF byOwner /\ row.status = "ready"
       THEN row' = InUse(row) /\ touched' = (touched \/ ParkRead) /\ ownerUp' = TRUE /\ overwrote' = FALSE
       ELSE UNCHANGED <<row, historyVars>>
  /\ UNCHANGED <<ec2, req, told, settling, agentVars, faults, ending, teardown>>

\* Its stops and starts read the row again and ask whatever it says.
ResizeAsks ==
  /\ \/ At("stop") /\ Ask("resize", "resizeStop") /\ Goto("stopping")
     \/ At("start") /\ Ask("resize", "resizeStart") /\ Goto("starting")
     \/ At("back") /\ Ask("resize", "resizeStart") /\ Goto("backing")
  /\ UNCHANGED <<row, ec2, told, lock, settling, agentVars, faults,
                 historyVars, ending, teardown>>

\* A start refused for capacity goes on to the next type or back to the
\* old one; any other failure while it is down starts it as it is.
AfterRefusal ==
  CASE job.pc = "stopping" -> {"close"}
    [] job.pc = "starting" -> {"modify", "back"}
    [] job.pc = "backing" -> {"close"}

ResizeRefused ==
  /\ told \in {"refused", "conflict"}
  /\ \E step \in AfterRefusal : (step = "modify" => told = "refused") /\ Goto(step)
  /\ told' = None
  /\ UNCHANGED <<row, ec2, req, lock, settling, agentVars, faults,
                 historyVars, ending, teardown>>

\* Wrong: a stop that was asked for counts as done.
StoppedWhenAsked == row.status \in {"stopping", "stopped"}
StoppedForRetype == row.status = "stopped"

\* waitFor: the stop settles, the agent reconnects, or the wait fails.
ResizeWaits ==
  /\ told = "ok"
  /\ told' = None
  /\ \/ At("stopping") /\ StoppedForRetype /\ Goto("modify")
     \/ At("starting") /\ row.status = "ready" /\ Goto("close")
     \/ At("backing") /\ Goto("close")
     \/ \* the wait's deadline, or a status that ends it
        job.pc \in {"stopping", "starting"} /\ Goto("close")
  /\ UNCHANGED <<row, ec2, req, lock, settling, agentVars, faults,
                 historyVars, ending, teardown>>

\* ModifyInstanceAttribute: EC2 retypes a stopped instance only.
Modify ==
  /\ At("modify")
  /\ \/ /\ ec2 = "stopped"
        /\ Goto(IF job.after THEN "start" ELSE "close")
        /\ UNCHANGED faults
     \/ /\ IF ec2 = "stopped"
           THEN faults < MaxFaults /\ faults' = faults + 1
           ELSE UNCHANGED faults
        /\ Goto(IF job.after THEN "back" ELSE "close")
  /\ UNCHANGED <<row, ec2, req, told, lock, settling, agentVars, historyVars, ending, teardown>>

\* Wrong: only a resize that went well closes its event.
ClosedLockOnSuccess == IF row.status \in {"ready", "stopped"} THEN "free" ELSE lock
ClosedLock == "free"

\* finishResize
FinishResize ==
  /\ At("close")
  /\ job' = None /\ lock' = ClosedLock
  /\ UNCHANGED <<row, ec2, req, told, settling, agentVars, faults,
                 historyVars, ending, teardown>>

\* An open row of a process that died stops holding the box after
\* RESIZE_STALE_MS, which no resize at work reaches.
LockGoesStale ==
  /\ lock = "orphan" /\ lock' = "free"
  /\ UNCHANGED <<row, ec2, req, told, settling, agentVars, faults,
                 historyVars, lifeVars>>

-----------------------------------------------------------------------------
\* Nothing but the database and EC2 survives a restart.
Restart ==
  /\ faults < MaxFaults /\ faults' = faults + 1
  /\ req' = [c \in Callers |-> None]
  /\ told' = None
  /\ settling' = None /\ online' = FALSE /\ connecting' = None
  /\ ending' = None /\ teardown' = FALSE /\ job' = None
  /\ lock' = IF lock = "held" THEN "orphan" ELSE lock
  /\ UNCHANGED <<row, ec2, historyVars>>

FreshPark ==
  Fresh({r.parked : r \in Copies} \cup {e.parked : e \in {ending} \ {None}})

SettleSweep == (MayBegin /\ Describe) \/ Settle(FreshPark)
AgentOnline == (MayBegin /\ AgentConnects) \/ ConnectRecorded

Power ==
  /\ \/ \E c \in Callers : PowerStep(c)
     \/ SettleSweep \/ Ec2Stops \/ Ec2Glitch \/ AgentOnline
     \/ Activity \/ KeepRunning
  /\ UNCHANGED lifeVars

Sweep ==
  Park \/ StuckStart \/ TerminateDue \/ Claim \/ Terminate \/ TerminateFails \/ Release

Resize == StartResize \/ ResizeAsks \/ ResizeRefused \/ ResizeWaits \/ Modify \/ FinishResize

\* The sweep and a resize go on with what they began.
SweepGoesOn ==
  \/ PowerStep("sweep") /\ UNCHANGED lifeVars
  \/ Claim \/ Terminate \/ TerminateFails \/ Release

ResizeGoesOn ==
  \/ PowerStep("resize") /\ UNCHANGED lifeVars
  \/ ResizeAsks \/ ResizeRefused \/ ResizeWaits \/ Modify \/ FinishResize

BoxNext ==
  \/ Power \/ Sweep \/ Resize
  \/ \E c \in Clients : ClientAsks(c)
  \/ OwnerTerminate \/ Teardown \/ LockGoesStale \/ Restart

BoxSpec == BoxInit /\ [][BoxNext]_boxVars

\* Replies come, the sweeps come round, the agent dials and the lock's age
\* grows: nobody has to use, park, resize or terminate the box.
BoxFairSpec ==
  /\ BoxSpec
  /\ \A c \in Clients : WF_boxVars(PowerStep(c) /\ UNCHANGED lifeVars)
  /\ SF_boxVars(SettleSweep /\ UNCHANGED lifeVars)
  /\ WF_boxVars(Ec2Stops /\ UNCHANGED lifeVars)
  /\ SF_boxVars(AgentOnline /\ UNCHANGED lifeVars)
  /\ WF_boxVars(SweepGoesOn)
  /\ WF_boxVars(ResizeGoesOn)
  /\ WF_boxVars(LockGoesStale)

-----------------------------------------------------------------------------
\* A box that the row calls stopped costs nothing: EC2 does not run it.
StoppedIsDown == row.status = "stopped" => ec2 # "running"

\* What the row says of the box's life, and the box's life as promised
\* (BoxLife).
LifeOf(status) ==
  CASE status = "ready" -> "up"
    [] status = "stopping" -> "goingDown"
    [] status = "stopped" -> "down"
    [] status = "starting" -> "comingUp"
    [] status = "terminated" -> "gone"

Life == INSTANCE BoxLife WITH life <- LifeOf(row.status), doomed <- row.claimed

\* The row goes through a box's life and nothing else, whatever requests,
\* sweeps, resizes, connects and restarts meet.
LivesItsLife == Life!LifeSpec

\* A box claimed for terminate stays down until it is released or gone.
ClaimedStaysDown ==
  row.claimed /\ row.status # "terminated" => row.status = "stopped" /\ ec2 # "running"

\* The terminate clock of a park ends with its owner's next use of the box:
\* one whose start EC2 took, Keep running, or a resize.
OwnersUseUnparks == row.parked # 0 \/ row.claimed => ~ownerUp \/ overwrote

\* A resize retypes only an instance that is down.
RetypedDown == At("modify") => ec2 # "running"

\* The sweep never parks a box that was used since it decided to.  (A
\* refused request that puts an older clock back clears `touched`.)
UseBeatsPark == [][(Moves("sweep") /\ req["sweep"].kind = "park" /\ row' # row) => ~touched \/ overwrote]_boxVars

\* A terminated box stays terminated.
TerminatedStays == [][row.status = "terminated" => row'.status = "terminated"]_boxVars

\* A box does not stay in a passing status.
PassingStatusSettles ==
  row.status \in {"stopping", "starting"} ~>
    \/ row.status \notin {"stopping", "starting"}
    \/ row.status = "starting" /\ online /\ connecting = None

\* A resize gives the box back.
ResizeGivesBack == lock # "free" ~> lock = "free"
=============================================================================
