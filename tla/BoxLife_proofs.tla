--------------------------- MODULE BoxLife_proofs ---------------------------
(***************************************************************************)
(* Theorems about BoxLifecycle in a Timely run without terminates in the   *)
(* middle of a resize, for any number of clients, requests and faults: the *)
(* row's `stopped` is EC2's, a claimed box stays down, a resize retypes a  *)
(* box that is down, the row lives the life BoxLife promises, an owner's   *)
(* use ends the terminate clock, and a use beats the park it raced.        *)
(*                                                                         *)
(* None of them is inductive: what they rest on is who may have a call to  *)
(* EC2 in flight at each status, what every request has read by its kind,  *)
(* and what a settle, a connect and a resize still hold of the row.        *)
(***************************************************************************)
EXTENDS BoxLifecycle_proofs

(***************************************************************************)
(* The inductive invariant of the row and of EC2.                          *)
(***************************************************************************)

StartFlies(c) == InFlight(c) /\ req[c].kind \in Starts
StopFlies(c) == InFlight(c) /\ req[c].kind \in Stops

\* Only an accepted start brings it up, and no agent can dial in.
IsDown == ec2 \in {"stopped", "terminated"} /\ connecting = None

\* The statuses a kind of request asks for a box in.
SeenBy(kind) ==
  CASE kind \in {"ownerStart", "wake"} -> {"stopped"}
    [] kind = "ownerStop" -> {"ready", "starting"}
    [] kind \in {"park", "resizeStop"} -> {"ready"}
    [] kind = "stuckStop" -> {"starting"}
    [] kind = "resizeStart" -> {"stopped", "terminated"}

ResizeKinds == {"resizeStop", "resizeStart"}

ReadsFit ==
  \A c \in Callers : req[c] # None =>
    /\ req[c].seen.status \in SeenBy(req[c].kind)
    /\ req[c].kind \in ResizeKinds <=> c = "resize"
    /\ req[c].kind \in {"park", "stuckStop"} => c = "sweep"
    /\ req[c].kind = "resizeStop" => job.pc = "stopping"
    /\ req[c].kind = "resizeStart" => job.pc \in {"starting", "backing"}

\* One start at a time, of a box that is down; a stop beside it read it starting.
StartsFit ==
  \A c \in Callers : StartFlies(c) =>
    /\ IsDown /\ settling = None
    /\ row.status \in {"starting", "stopping", "terminated"}
    /\ c = "resize" => row.status = "starting"
    /\ \A d \in Callers : StartFlies(d) => d = c
    /\ \A d \in Callers : StopFlies(d) => req[d].seen.status = "starting"

\* One stop at a time, of a box that goes down.
StopsFit ==
  \A c \in Callers : StopFlies(c) =>
    /\ row.status \in {"stopping", "terminated"}
    /\ \A d \in Callers : StopFlies(d) => d = c

\* A resize has the box to itself.
CallsFit == \A c \in Callers : InFlight(c) /\ c # "resize" => job = None

\* What a settle found still holds when it writes.
SettlesFit ==
  settling # None =>
    /\ row.status # "stopped"
    /\ settling.to \in {"stopped", "ready"}
    /\ settling.to = "stopped" => IsDown
    /\ settling.to = "ready" => settling.status = "stopping"
    /\ settling.status = "stopping" => row.status \in {"stopping", "terminated"} /\ CallsAnswered

StoppedFit == row.status = "stopped" => IsDown
ClaimFits == row.claimed => row.status \in {"stopped", "terminated"}

\* The resize has its box down: before its start, or after a refusal of it.
JobIsDown ==
  \/ job.pc \in {"modify", "start", "back"}
  \/ /\ job.pc \in {"starting", "backing"}
     /\ told \in {"refused", "conflict"} \/ (req["resize"] # None /\ req["resize"].pc = "read")

JobFits ==
  job # None =>
    /\ lock = "held"
    /\ job.pc = "stop" => row.status = "ready"
    /\ job.pc \in {"stop", "start", "starting", "back", "backing"} => job.after
    /\ JobIsDown => row.status \in {"stopped", "terminated"} /\ IsDown

FitInv ==
  ReadsFit /\ StartsFit /\ StopsFit /\ CallsFit /\ SettlesFit /\ StoppedFit /\ ClaimFits /\ JobFits

\* A ready or stopped box has no call in flight, a starting one no stop.
LEMMA Quiet ==
  ASSUME GoneInv, FitInv
  PROVE  /\ row.status \in {"ready", "stopped"} => CallsAnswered
         /\ row.status = "starting" => \A c \in Callers : ~StopFlies(c)
         /\ row.status = "stopped" => settling = None
         /\ \A c \in Callers : InFlight(c) => StartFlies(c) \/ StopFlies(c)
<1>1. \A c \in Callers : InFlight(c) => StartFlies(c) \/ StopFlies(c)
  BY RequestType DEF GoneInv, TypeInv, InFlight, StartFlies, StopFlies, Kinds
<1>2. row.status \in {"ready", "stopped"} => CallsAnswered
  BY <1>1 DEF CallsAnswered, FitInv, StartsFit, StopsFit
<1> QED
  BY <1>1, <1>2 DEF FitInv, StopsFit, SettlesFit

\* The box its owner set up.
LEMMA InitFit == BoxInit => FitInv
<1> SUFFICES ASSUME BoxInit PROVE FitInv
  OBVIOUS
<1>1. \A c \in Callers : req[c] = None
  BY DEF BoxInit
<1> QED
  BY <1>1 DEF BoxInit, FitInv, ReadsFit, StartsFit, StopsFit, CallsFit, SettlesFit, StoppedFit,
     ClaimFits, JobFits, InFlight, StartFlies, StopFlies

\* Steps that leave the requests and the status alone, and a box that is down, down.
LEMMA StillFits ==
  ASSUME FitInv, UNCHANGED <<req, told, lock, settling, job>>,
         row'.status = row.status, row'.claimed => row.claimed, IsDown => IsDown'
  PROVE  FitInv'
<1>1. ReadsFit' /\ CallsFit'
  BY DEF FitInv, ReadsFit, CallsFit, InFlight
<1>2. StartsFit' /\ StopsFit'
  BY DEF FitInv, StartsFit, StopsFit, InFlight, StartFlies, StopFlies
<1>3. SettlesFit'
  BY DEF FitInv, SettlesFit, CallsAnswered, InFlight
<1>4. StoppedFit' /\ ClaimFits'
  BY DEF FitInv, StoppedFit, ClaimFits
<1>5. JobFits'
  BY DEF FitInv, JobFits, JobIsDown
<1> QED
  BY <1>1, <1>2, <1>3, <1>4, <1>5 DEF FitInv

(***************************************************************************)
(* The steps of a request.                                                 *)
(***************************************************************************)

\* Requests as they were, but for one that is read, has not been sent, or is
\* about to be put back.
SameCalls ==
  \A c \in Callers :
    /\ (req'[c] # None /\ req'[c].pc \in {"sent", "reverting"}) <=> InFlight(c)
    /\ InFlight(c) => /\ req'[c].kind = req[c].kind /\ req'[c].seen = req[c].seen
                      /\ req'[c].late = req[c].late

\* Calls in flight are what they were.
LEMMA SameCallsFit ==
  ASSUME FitInv, SameCalls, UNCHANGED <<row, ec2, connecting, settling>>, job # None => job' # None,
         job = None => job' = None
  PROVE  (StartsFit /\ StopsFit /\ CallsFit /\ SettlesFit /\ StoppedFit /\ ClaimFits)'
<1>1. \A c \in Callers : /\ InFlight(c)' <=> InFlight(c)
                         /\ StartFlies(c)' <=> StartFlies(c)
                         /\ StopFlies(c)' <=> StopFlies(c)
                         /\ InFlight(c) => req'[c].seen = req[c].seen
  BY DEF SameCalls, InFlight, StartFlies, StopFlies
<1>2. IsDown' <=> IsDown
  BY DEF IsDown
<1>3. StartsFit'
  <2>1. ASSUME NEW c \in Callers, StartFlies(c)'
        PROVE  /\ (IsDown /\ settling = None)'
               /\ row'.status \in {"starting", "stopping", "terminated"}
               /\ c = "resize" => row'.status = "starting"
    BY <1>1, <1>2, <2>1 DEF FitInv, StartsFit
  <2>2. ASSUME NEW c \in Callers, StartFlies(c)', NEW d \in Callers
        PROVE  /\ StartFlies(d)' => d = c
               /\ StopFlies(d)' => req'[d].seen.status = "starting"
    <3>1. StopFlies(d) => InFlight(d)
      BY DEF StopFlies
    <3> QED
      BY <1>1, <2>2, <3>1 DEF FitInv, StartsFit
  <2> QED
    BY <2>1, <2>2 DEF StartsFit
<1>4. StopsFit' /\ CallsFit'
  BY <1>1 DEF FitInv, StopsFit, CallsFit
<1>5. SettlesFit'
  BY <1>1, <1>2 DEF FitInv, SettlesFit, CallsAnswered
<1>6. StoppedFit' /\ ClaimFits'
  BY <1>2 DEF FitInv, StoppedFit, ClaimFits
<1> QED
  BY <1>3, <1>4, <1>5, <1>6

\* A request that is only read moves no call.
LEMMA AskSameCalls ==
  ASSUME BoxTypeOK, NEW c \in Callers, NEW kind, Ask(c, kind)
  PROVE  /\ SameCalls
         /\ req'[c] = [pc |-> "read", kind |-> kind, seen |-> row, late |-> FALSE]
         /\ \A d \in Callers : d # c => req'[d] = req[d]
  BY DEF BoxTypeOK, Ask, SameCalls, InFlight

\* Someone but the resize asks.
LEMMA AskFits ==
  ASSUME GoneInv, FitInv, NEW c \in Callers \ {"resize"}, NEW kind \in Kinds \ ResizeKinds, Ask(c, kind),
         row.status \in SeenBy(kind), kind \in {"park", "stuckStop"} => c = "sweep",
         UNCHANGED <<row, ec2, connecting, told, lock, settling, job>>
  PROVE  FitInv'
<1>1. /\ SameCalls
      /\ req'[c] = [pc |-> "read", kind |-> kind, seen |-> row, late |-> FALSE]
      /\ \A d \in Callers : d # c => req'[d] = req[d]
  BY AskSameCalls DEF GoneInv, TypeInv
<1>2. (StartsFit /\ StopsFit /\ CallsFit /\ SettlesFit /\ StoppedFit /\ ClaimFits)'
  BY <1>1, SameCallsFit
<1>3. ReadsFit'
  BY <1>1 DEF FitInv, ReadsFit, ResizeKinds
<1>4. JobFits'
  <2>1. req'["resize"] = req["resize"]
    BY <1>1 DEF Callers
  <2> QED
    BY <2>1 DEF FitInv, JobFits, JobIsDown, IsDown
<1> QED
  BY <1>2, <1>3, <1>4 DEF FitInv

\* The resize asks for its box as it finds it.
LEMMA ResizeAsksFits ==
  ASSUME GoneInv, FitInv, ResizeAsks
  PROVE  FitInv'
<1> DEFINE kind == IF At("stop") THEN "resizeStop" ELSE "resizeStart"
           next == IF At("stop") THEN "stopping" ELSE IF At("start") THEN "starting" ELSE "backing"
<1>1. /\ Ask("resize", kind) /\ Goto(next)
      /\ job # None /\ job.pc \in {"stop", "start", "back"}
      /\ (kind = "resizeStop" <=> job.pc = "stop") /\ (next = "stopping" <=> job.pc = "stop")
      /\ next \in {"stopping", "starting", "backing"}
  BY DEF ResizeAsks, At
<1>2. UNCHANGED <<row, ec2, told, lock, settling, connecting>>
  BY DEF ResizeAsks, agentVars
<1>3. job \in [pc : JobSteps, after : BOOLEAN]
  BY <1>1 DEF GoneInv, TypeInv, BoxTypeOK
<1>4. job' # None /\ job'.pc = next /\ job'.after = job.after
  <2>1. job' = [job EXCEPT !.pc = next] /\ next \in JobSteps
    BY <1>1 DEF Goto, JobSteps
  <2>2. job' \in [pc : JobSteps, after : BOOLEAN] /\ job'.pc = next /\ job'.after = job.after
    BY <1>3, <2>1
  <2> QED
    BY <2>2, LifecycleAssumption
<1> HIDE DEF kind, next
<1>5. /\ SameCalls
      /\ req'["resize"] = [pc |-> "read", kind |-> kind, seen |-> row, late |-> FALSE]
      /\ \A d \in Callers : d # "resize" => req'[d] = req[d]
  <2>1. "resize" \in Callers
    BY DEF Callers
  <2> QED
    BY <1>1, <2>1, AskSameCalls DEF GoneInv, TypeInv
<1>6. (StartsFit /\ StopsFit /\ CallsFit /\ SettlesFit /\ StoppedFit /\ ClaimFits)'
  BY <1>1, <1>2, <1>4, <1>5, SameCallsFit
<1>7. job.pc = "stop" => row.status = "ready"
  BY <1>1 DEF FitInv, JobFits
<1>8. job.pc # "stop" => row.status \in {"stopped", "terminated"} /\ IsDown
  BY <1>1 DEF FitInv, JobFits, JobIsDown
<1>9. ReadsFit'
  <2>1. kind = "resizeStop" => row.status \in SeenBy(kind)
    BY <1>1, <1>7 DEF SeenBy
  <2>2. kind # "resizeStop" => kind = "resizeStart" /\ row.status \in SeenBy(kind)
    BY <1>1, <1>8 DEF SeenBy, kind
  <2>3. ASSUME NEW d \in Callers, d # "resize", req'[d] # None
        PROVE  /\ req'[d].seen.status \in SeenBy(req'[d].kind)
               /\ req'[d].kind \notin ResizeKinds
               /\ req'[d].kind \in {"park", "stuckStop"} => d = "sweep"
    BY <1>5, <2>3 DEF FitInv, ReadsFit
  <2> QED
    BY <1>1, <1>4, <1>5, <2>1, <2>2, <2>3 DEF ReadsFit, ResizeKinds
<1>10. JobFits'
  <2>1. lock' = "held" /\ job'.after
    BY <1>1, <1>2, <1>4 DEF FitInv, JobFits
  <2>2. next # "stopping" => row'.status \in {"stopped", "terminated"} /\ IsDown'
    BY <1>1, <1>2, <1>8 DEF IsDown
  <2> QED
    BY <1>1, <1>4, <2>1, <2>2 DEF JobFits, JobIsDown
<1> QED
  BY <1>6, <1>9, <1>10 DEF FitInv

\* A request that finds its row moved goes away.
LEMMA ConflictFits ==
  ASSUME GoneInv, FitInv, NEW c \in Callers, Conflict(c), UNCHANGED lifeVars
  PROVE  FitInv'
<1>1. req[c] # None /\ req[c].pc = "read" /\ Answer(c, "conflict")
      /\ UNCHANGED <<row, ec2, connecting, settling, lock, job>>
  BY DEF Conflict, agentVars, lifeVars
<1>2. req'[c] = None /\ \A d \in Callers : d # c => req'[d] = req[d]
  BY <1>1 DEF Answer, GoneInv, TypeInv, BoxTypeOK
<1>3. SameCalls
  BY <1>1, <1>2 DEF SameCalls, InFlight
<1>4. (StartsFit /\ StopsFit /\ CallsFit /\ SettlesFit /\ StoppedFit /\ ClaimFits)'
  BY <1>1, <1>3, SameCallsFit
<1>5. ReadsFit'
  BY <1>1, <1>2 DEF FitInv, ReadsFit
<1>6. JobFits'
  <2>1. CASE c = "resize"
    BY <1>1, <1>2, <2>1 DEF FitInv, JobFits, JobIsDown, IsDown
  <2>2. CASE c # "resize"
    <3>1. req'["resize"] = req["resize"] /\ told' = told
      BY <1>1, <1>2, <2>2 DEF Answer, Callers
    <3> QED
      BY <1>1, <3>1 DEF FitInv, JobFits, JobIsDown, IsDown
  <2> QED
    BY <2>1, <2>2
<1> QED
  BY <1>4, <1>5, <1>6 DEF FitInv

\* EC2 refuses: the call is still to be put back.
LEMMA RefusedFits ==
  ASSUME GoneInv, FitInv, NEW c \in Callers, Refused(c), UNCHANGED lifeVars
  PROVE  FitInv'
<1>1. req[c] # None /\ req[c].pc = "sent" /\ req[c] \in Requests
      /\ UNCHANGED <<row, ec2, connecting, settling, lock, job, told>>
  BY RequestType DEF Refused, agentVars, lifeVars, GoneInv, TypeInv
<1>2. /\ req'[c] = [req[c] EXCEPT !.pc = "reverting"]
      /\ \A d \in Callers : d # c => req'[d] = req[d]
  BY <1>1 DEF Refused, GoneInv, TypeInv, BoxTypeOK
<1>3. /\ req'[c] # None /\ req'[c].pc = "reverting" /\ req'[c].kind = req[c].kind
      /\ req'[c].seen = req[c].seen /\ req'[c].late = req[c].late
  <2>1. [req[c] EXCEPT !.pc = "reverting"] \in Requests
    BY <1>1 DEF Requests
  <2>2. req'[c] # None
    BY <1>2, <2>1, LifecycleAssumption
  <2>3. /\ req'[c].pc = "reverting" /\ req'[c].kind = req[c].kind
        /\ req'[c].seen = req[c].seen /\ req'[c].late = req[c].late
    BY <1>1, <1>2 DEF Requests
  <2> QED
    BY <2>2, <2>3
<1>4. SameCalls
  BY <1>1, <1>2, <1>3 DEF SameCalls, InFlight
<1>5. (StartsFit /\ StopsFit /\ CallsFit /\ SettlesFit /\ StoppedFit /\ ClaimFits)'
  BY <1>1, <1>4, SameCallsFit
<1>6. ReadsFit'
  <2>1. \A d \in Callers : req'[d] # None =>
          req[d] # None /\ req'[d].kind = req[d].kind /\ req'[d].seen = req[d].seen
    BY <1>1, <1>2, <1>3
  <2> QED
    BY <1>1, <2>1 DEF FitInv, ReadsFit
<1>7. JobFits'
  <2>1. req'["resize"] # None /\ req'["resize"].pc = "read" => req["resize"] # None /\ req["resize"].pc = "read"
    BY <1>2, <1>3 DEF Callers
  <2> QED
    BY <1>1, <2>1 DEF FitInv, JobFits, JobIsDown, IsDown
<1> QED
  BY <1>5, <1>6, <1>7 DEF FitInv

\* What a write that moves the row leaves behind.
LEMMA MoveFacts ==
  ASSUME GoneInv, FitInv, NEW c \in Callers, Move(c), UNCHANGED lifeVars
  PROVE  /\ req[c] # None /\ req[c].pc = "read" /\ req[c].kind \in Kinds
         /\ req'[c] # None /\ req'[c].pc = "sent" /\ req'[c].kind = req[c].kind
         /\ req'[c].seen = req[c].seen /\ req'[c].late = (row # req[c].seen)
         /\ \A d \in Callers : d # c => req'[d] = req[d]
         /\ row.status = req[c].seen.status /\ req[c].seen.status # "terminated"
         /\ row'.status = To(req[c].kind) /\ ~row.claimed /\ ~row'.claimed
         /\ UNCHANGED <<ec2, told, lock, settling, connecting, job>>
         /\ c # "resize" => job = None
         /\ c = "resize" => job # None /\ told = None
<1> USE DEF GoneInv, TypeInv
<1>1. /\ req[c] # None /\ req[c].pc = "read" /\ req[c].kind \in Kinds /\ req[c] \in Requests
      /\ row \in Rows
  BY RequestType DEF Move, Moves, BoxTypeOK
<1>2. UNCHANGED <<ec2, told, lock, settling, connecting, job>>
  BY DEF Move, agentVars, lifeVars
<1>3. row.status = req[c].seen.status /\ ~row.claimed
      /\ (req[c].kind \notin ResizeKinds => lock = "free")
  BY DEF Move, Moves, Unmoved, ResizeKinds
<1>4. /\ req'[c] = [req[c] EXCEPT !.pc = "sent", !.late = (row # req[c].seen)]
      /\ \A d \in Callers : d # c => req'[d] = req[d]
  BY DEF Move, BoxTypeOK
<1>5. /\ req'[c] # None /\ req'[c].pc = "sent" /\ req'[c].kind = req[c].kind
      /\ req'[c].seen = req[c].seen /\ req'[c].late = (row # req[c].seen)
  <2>1. [req[c] EXCEPT !.pc = "sent", !.late = (row # req[c].seen)] \in Requests
    BY <1>1 DEF Requests
  <2>2. req'[c] # None
    BY <1>4, <2>1, LifecycleAssumption
  <2>3. /\ req'[c].pc = "sent" /\ req'[c].kind = req[c].kind /\ req'[c].seen = req[c].seen
        /\ req'[c].late = (row # req[c].seen)
    BY <1>1, <1>4 DEF Requests
  <2> QED
    BY <2>2, <2>3
<1>6. row'.status = To(req[c].kind) /\ row'.claimed = row.claimed
  <2>1. /\ Columns(req[c].kind, row) \in Rows
        /\ Columns(req[c].kind, row).claimed = row.claimed
    BY <1>1, ColumnsType
  <2>2. row' = [Columns(req[c].kind, row) EXCEPT !.status = To(req[c].kind)]
    BY DEF Move
  <2> HIDE DEF Columns, To
  <2> QED
    BY <2>1, <2>2 DEF Rows
<1>7. req[c].seen.status # "terminated"
  <2>1. SeenLiving'
    BY PowerKeepsEnd DEF PowerStep
  <2> QED
    BY <1>5, <2>1 DEF SeenLiving
<1>8. c # "resize" => job = None
  BY <1>1, <1>3 DEF FitInv, ReadsFit, JobFits
<1>9. c = "resize" => job # None /\ told = None
  BY <1>1, LifecycleAssumption DEF AwaitsAnswer, JobSteps
<1> QED
  BY <1>1, <1>2, <1>3, <1>4, <1>5, <1>6, <1>7, <1>8, <1>9

\* A start is asked for a box that is down, with nothing in flight.
LEMMA MoveStartFits ==
  ASSUME GoneInv, FitInv, NEW c \in Callers, Move(c), UNCHANGED lifeVars, req[c].kind \in Starts
  PROVE  FitInv'
<1>1. row.status = "stopped" /\ row'.status = "starting"
  <2>1. req[c].seen.status \in SeenBy(req[c].kind)
    BY MoveFacts DEF FitInv, ReadsFit
  <2> QED
    BY <2>1, MoveFacts DEF SeenBy, Starts, To
<1>2. CallsAnswered /\ settling = None /\ IsDown
  BY <1>1, Quiet DEF FitInv, StoppedFit
<1>3. \A d \in Callers : /\ InFlight(d)' <=> d = c
                         /\ StartFlies(d)' <=> d = c
                         /\ ~StopFlies(d)'
  <2>1. "resizeStart" \notin Stops /\ req[c].kind \notin Stops
    BY DEF Starts, Stops
  <2> QED
    BY <1>2, <2>1, MoveFacts DEF CallsAnswered, InFlight, StartFlies, StopFlies
<1>4. IsDown' /\ settling' = None
  BY <1>2, MoveFacts DEF IsDown
<1>5. ReadsFit'
  <2>1. \A d \in Callers : req'[d] # None =>
          req[d] # None /\ req'[d].kind = req[d].kind /\ req'[d].seen = req[d].seen
    BY MoveFacts
  <2> QED
    BY <2>1, MoveFacts DEF FitInv, ReadsFit
<1>6. StartsFit' /\ StopsFit' /\ CallsFit' /\ SettlesFit'
  BY <1>1, <1>3, <1>4, MoveFacts DEF StartsFit, StopsFit, CallsFit, SettlesFit
<1>7. StoppedFit' /\ ClaimFits'
  BY <1>1, MoveFacts DEF StoppedFit, ClaimFits
<1>8. JobFits'
  <2> SUFFICES ASSUME job # None PROVE JobFits'
    BY MoveFacts DEF JobFits
  <2>1. c = "resize" /\ told = None
    BY MoveFacts
  <2>2. job.pc \in {"starting", "backing"}
    <3>1. req[c].kind = "resizeStart"
      BY <2>1, MoveFacts DEF FitInv, ReadsFit, ResizeKinds, Starts
    <3> QED
      BY <2>1, <3>1, MoveFacts DEF FitInv, ReadsFit
  <2>3. ~JobIsDown'
    BY <2>1, <2>2, MoveFacts, BoxAssumption DEF JobIsDown
  <2> QED
    BY <2>2, <2>3, MoveFacts DEF FitInv, JobFits
<1> QED
  BY <1>5, <1>6, <1>7, <1>8 DEF FitInv

\* A stop is asked for a box that no other stop takes down; the start it may
\* meet is what has it starting.
LEMMA MoveStopFits ==
  ASSUME GoneInv, FitInv, NEW c \in Callers, Move(c), UNCHANGED lifeVars, req[c].kind \in Stops
  PROVE  FitInv'
<1>1. row.status \in {"ready", "starting"} /\ row'.status = "stopping"
  <2>1. req[c].seen.status \in SeenBy(req[c].kind)
    BY MoveFacts DEF FitInv, ReadsFit
  <2>2. To(req[c].kind) = "stopping"
    BY DEF Starts, Stops, To
  <2> QED
    BY <2>1, <2>2, MoveFacts DEF SeenBy, Stops
<1>2. \A d \in Callers : ~StopFlies(d)
  BY <1>1, Quiet DEF CallsAnswered, StopFlies
<1>3. \A d \in Callers : /\ InFlight(d)' <=> InFlight(d) \/ d = c
                         /\ StartFlies(d)' <=> StartFlies(d) /\ d # c
                         /\ StopFlies(d)' <=> d = c
                         /\ req'[d] # None => /\ req[d] # None /\ req'[d].kind = req[d].kind
                                              /\ req'[d].seen = req[d].seen
  <2>1. req[c].kind \notin Starts
    BY DEF Starts, Stops
  <2> QED
    BY <1>2, <2>1, MoveFacts DEF InFlight, StartFlies, StopFlies
<1>4. ReadsFit'
  BY <1>3, MoveFacts DEF FitInv, ReadsFit
<1>5. ASSUME NEW d \in Callers, StartFlies(d), d # c
      PROVE  d # "resize" /\ row.status = "starting"
  <2>1. row.status = "starting"
    BY <1>1, <1>5 DEF FitInv, StartsFit
  <2>2. ASSUME d = "resize" PROVE FALSE
    <3>1. job # None
      BY <1>5, <2>2, LifecycleAssumption DEF StartFlies, InFlight, GoneInv, TypeInv, AwaitsAnswer, JobSteps
    <3> QED
      BY <1>5, <2>2, <3>1, MoveFacts
  <2> QED
    BY <2>1, <2>2
<1>6. StartsFit'
  <2> SUFFICES ASSUME NEW d \in Callers, StartFlies(d), d # c
               PROVE  /\ IsDown' /\ settling' = None
                      /\ row'.status = "stopping" /\ d # "resize"
                      /\ \A e \in Callers : StartFlies(e) => e = d
                      /\ \A e \in Callers : StopFlies(e)' => req'[e].seen.status = "starting"
    BY <1>3 DEF StartsFit
  <2>1. IsDown /\ settling = None /\ \A e \in Callers : StartFlies(e) => e = d
    BY DEF FitInv, StartsFit
  <2> QED
    BY <1>1, <1>3, <1>5, <2>1, MoveFacts DEF IsDown
<1>7. StopsFit'
  BY <1>1, <1>3 DEF StopsFit
<1>8. CallsFit'
  BY <1>3, MoveFacts DEF FitInv, CallsFit
<1>9. SettlesFit'
  <2>1. settling # None => settling.status # "stopping"
    BY <1>1 DEF FitInv, SettlesFit
  <2> QED
    BY <1>1, <2>1, MoveFacts DEF FitInv, SettlesFit, IsDown
<1>10. StoppedFit' /\ ClaimFits'
  BY <1>1, MoveFacts DEF StoppedFit, ClaimFits
<1>11. JobFits'
  <2> SUFFICES ASSUME job # None PROVE JobFits'
    BY MoveFacts DEF JobFits
  <2>1. c = "resize"
    BY MoveFacts
  <2>2. job.pc = "stopping"
    <3>1. req[c].kind = "resizeStop"
      BY <2>1, MoveFacts DEF FitInv, ReadsFit, ResizeKinds, Stops
    <3> QED
      BY <2>1, <3>1, MoveFacts DEF FitInv, ReadsFit
  <2> QED
    BY <2>2, MoveFacts DEF FitInv, JobFits, JobIsDown
<1> QED
  BY <1>4, <1>6, <1>7, <1>8, <1>9, <1>10, <1>11 DEF FitInv

\* A call that is answered leaves its caller without one, the others with theirs.
LEMMA AnswerFacts ==
  ASSUME GoneInv, NEW c \in Callers, req[c] # None, NEW answer, Answer(c, answer)
  PROVE  /\ req'[c] = None /\ \A d \in Callers : d # c => req'[d] = req[d]
         /\ \A d \in Callers : /\ InFlight(d)' <=> InFlight(d) /\ d # c
                               /\ StartFlies(d)' <=> StartFlies(d) /\ d # c
                               /\ StopFlies(d)' <=> StopFlies(d) /\ d # c
         /\ c # "resize" => told' = told /\ req'["resize"] = req["resize"]
         /\ c = "resize" => told' = answer
<1>1. req'[c] = None /\ \A d \in Callers : d # c => req'[d] = req[d]
  BY DEF Answer, GoneInv, TypeInv, BoxTypeOK
<1> QED
  BY <1>1 DEF Answer, InFlight, StartFlies, StopFlies, Callers

\* EC2 takes a start, and the box may come up; or a stop, and one that is down
\* stays so.
LEMMA AcceptedFits ==
  ASSUME GoneInv, FitInv, NEW c \in Callers, Accepted(c), UNCHANGED lifeVars
  PROVE  FitInv'
<1>1. /\ req[c] # None /\ req[c].pc = "sent" /\ req[c].kind \in Kinds /\ InFlight(c)
      /\ Answer(c, "ok")
      /\ UNCHANGED <<row, lock, settling, connecting, job>>
  BY RequestType DEF Accepted, InFlight, agentVars, lifeVars, GoneInv, TypeInv
<1>2. /\ req'[c] = None /\ \A d \in Callers : d # c => req'[d] = req[d]
      /\ \A d \in Callers : /\ InFlight(d)' <=> InFlight(d) /\ d # c
                            /\ StartFlies(d)' <=> StartFlies(d) /\ d # c
                            /\ StopFlies(d)' <=> StopFlies(d) /\ d # c
      /\ c # "resize" => told' = told /\ req'["resize"] = req["resize"]
      /\ c = "resize" => told' = "ok"
  BY <1>1, AnswerFacts
<1>3. ReadsFit'
  BY <1>1, <1>2 DEF FitInv, ReadsFit
<1>4. StopsFit' /\ CallsFit' /\ ClaimFits'
  BY <1>1, <1>2 DEF FitInv, StopsFit, CallsFit, ClaimFits
<1>5. CASE req[c].kind \in Starts
  <2>1. StartFlies(c) /\ settling = None /\ row.status # "stopped"
        /\ \A d \in Callers : StartFlies(d) => d = c
    BY <1>1, <1>5 DEF StartFlies, FitInv, StartsFit
  <2>2. StartsFit' /\ SettlesFit' /\ StoppedFit'
    BY <1>1, <1>2, <2>1 DEF StartsFit, SettlesFit, StoppedFit
  <2>3. JobFits'
    <3> SUFFICES ASSUME job # None PROVE JobFits'
      BY <1>1 DEF JobFits
    <3>1. c = "resize"
      BY <1>1 DEF FitInv, CallsFit
    <3>2. ~JobIsDown'
      <4>1. job.pc \in {"starting", "backing"}
        BY <1>1, <1>5, <3>1 DEF FitInv, ReadsFit, ResizeKinds, Starts
      <4> QED
        BY <1>1, <1>2, <3>1, <4>1 DEF JobIsDown
    <3> QED
      BY <1>1, <3>2 DEF FitInv, JobFits
  <2> QED
    BY <1>3, <1>4, <2>2, <2>3 DEF FitInv
<1>6. CASE req[c].kind \in Stops
  <2>1. IsDown => IsDown'
    <3>1. req[c].kind \notin Starts
      BY <1>6 DEF Starts, Stops
    <3> QED
      BY <1>1, <3>1 DEF Accepted, IsDown
  <2>2. req[c].kind \notin Starts
    BY <1>6 DEF Starts, Stops
  <2>3. StartsFit'
    <3> SUFFICES ASSUME NEW d \in Callers, StartFlies(d), d # c
                 PROVE  /\ IsDown' /\ settling' = None
                        /\ row'.status \in {"starting", "stopping", "terminated"}
                        /\ d = "resize" => row'.status = "starting"
                        /\ \A e \in Callers : StartFlies(e)' => e = d
                        /\ \A e \in Callers : StopFlies(e)' => req'[e].seen.status = "starting"
      BY <1>2 DEF StartsFit
    <3> QED
      BY <1>1, <1>2, <2>1 DEF FitInv, StartsFit
  <2>4. SettlesFit'
    BY <1>1, <1>2, <2>1 DEF FitInv, SettlesFit, CallsAnswered
  <2>5. StoppedFit'
    BY <1>1, <2>1 DEF FitInv, StoppedFit
  <2>6. JobFits'
    <3> SUFFICES ASSUME job # None PROVE JobFits'
      BY <1>1 DEF JobFits
    <3>1. JobIsDown' => JobIsDown
      <4>1. c = "resize"
        BY <1>1 DEF FitInv, CallsFit
      <4> QED
        BY <1>1, <1>2, <4>1 DEF JobIsDown
    <3> QED
      BY <1>1, <2>1, <3>1 DEF FitInv, JobFits
  <2> QED
    BY <1>3, <1>4, <2>3, <2>4, <2>5, <2>6 DEF FitInv
<1> QED
  BY <1>1, <1>5, <1>6 DEF Kinds

\* What putting the row back writes.
LEMMA RevertFacts ==
  ASSUME GoneInv, FitInv, NEW c \in Callers, Revert(c), UNCHANGED lifeVars
  PROVE  /\ req[c] # None /\ InFlight(c) /\ req[c].kind \in Kinds
         /\ req[c].seen \in Rows /\ req[c].late \in BOOLEAN
         /\ req[c].seen.status \in SeenBy(req[c].kind) \ {"terminated"}
         /\ IF row.status = To(req[c].kind)
            THEN row' = [req[c].seen EXCEPT !.claimed = row.claimed]
                 /\ row'.status = req[c].seen.status
            ELSE row' = row
         /\ row'.claimed = row.claimed
         /\ UNCHANGED <<ec2, lock, settling, connecting, job>>
         /\ Answer(c, "refused")
<1>1. /\ req[c] # None /\ req[c].pc = "reverting" /\ req[c].kind \in Kinds
      /\ req[c].seen \in Rows /\ req[c].late \in BOOLEAN
  BY RequestType DEF Revert, GoneInv, TypeInv
<1>2. req[c].seen.status \in SeenBy(req[c].kind) \ {"terminated"}
  BY <1>1 DEF FitInv, ReadsFit, GoneInv, SeenLiving
<1>3. IF row.status = To(req[c].kind)
      THEN row' = [req[c].seen EXCEPT !.claimed = row.claimed] ELSE row' = row
  BY DEF Revert, PutsBack, Reverted
<1>4. row.status = To(req[c].kind) => row'.status = req[c].seen.status /\ row'.claimed = row.claimed
  BY <1>1, <1>3 DEF Rows
<1> QED
  BY <1>1, <1>2, <1>3, <1>4 DEF Revert, InFlight, agentVars, lifeVars

\* A refused start leaves its box as it was, down.
LEMMA RevertStartFits ==
  ASSUME GoneInv, FitInv, NEW c \in Callers, Revert(c), UNCHANGED lifeVars, req[c].kind \in Starts
  PROVE  FitInv'
<1>1. /\ req'[c] = None /\ \A d \in Callers : d # c => req'[d] = req[d]
      /\ \A d \in Callers : /\ InFlight(d)' <=> InFlight(d) /\ d # c
                            /\ StartFlies(d)' <=> StartFlies(d) /\ d # c
                            /\ StopFlies(d)' <=> StopFlies(d) /\ d # c
      /\ c # "resize" => told' = told /\ req'["resize"] = req["resize"]
      /\ c = "resize" => told' = "refused"
  BY RevertFacts, AnswerFacts
<1>2. StartFlies(c) /\ IsDown /\ settling = None /\ \A d \in Callers : StartFlies(d) => d = c
  BY RevertFacts DEF StartFlies, FitInv, StartsFit
<1>3. IsDown' /\ settling' = None
  BY <1>2, RevertFacts DEF IsDown
<1>4. To(req[c].kind) = "starting" /\ req[c].seen.status = "stopped"
  BY RevertFacts DEF To, SeenBy, Starts
<1>5. /\ row.status = "starting" => row'.status = "stopped"
      /\ row.status # "starting" => row' = row
  BY <1>4, RevertFacts
<1>6. ReadsFit'
  BY <1>1, RevertFacts DEF FitInv, ReadsFit
<1>7. StartsFit' /\ SettlesFit' /\ StoppedFit'
  BY <1>1, <1>2, <1>3 DEF StartsFit, SettlesFit, StoppedFit
<1>8. StopsFit'
  <2>1. row.status = "starting" => \A d \in Callers : ~StopFlies(d)
    BY Quiet
  <2> QED
    BY <1>1, <1>5, <2>1 DEF FitInv, StopsFit
<1>9. CallsFit' /\ ClaimFits'
  BY <1>1, <1>5, RevertFacts DEF FitInv, CallsFit, ClaimFits
<1>10. JobFits'
  <2> SUFFICES ASSUME job # None PROVE JobFits'
    BY RevertFacts DEF JobFits
  <2>1. c = "resize"
    BY RevertFacts DEF FitInv, CallsFit
  <2>2. row'.status = "stopped"
    BY <1>2, <1>5, <2>1 DEF FitInv, StartsFit
  <2>3. job.pc \in {"starting", "backing"}
    BY <2>1, RevertFacts DEF FitInv, ReadsFit, ResizeKinds, Starts
  <2> QED
    BY <1>3, <2>2, <2>3, RevertFacts DEF FitInv, JobFits
<1> QED
  BY <1>6, <1>7, <1>8, <1>9, <1>10 DEF FitInv

\* A refused stop gives its box back to whoever had it, a start in flight too.
LEMMA RevertStopFits ==
  ASSUME GoneInv, FitInv, NEW c \in Callers, Revert(c), UNCHANGED lifeVars, req[c].kind \in Stops
  PROVE  FitInv'
<1>1. /\ req'[c] = None /\ \A d \in Callers : d # c => req'[d] = req[d]
      /\ \A d \in Callers : /\ InFlight(d)' <=> InFlight(d) /\ d # c
                            /\ StartFlies(d)' <=> StartFlies(d) /\ d # c
                            /\ StopFlies(d)' <=> StopFlies(d) /\ d # c
      /\ c # "resize" => told' = told /\ req'["resize"] = req["resize"]
      /\ c = "resize" => told' = "refused"
  BY RevertFacts, AnswerFacts
<1>2. /\ StopFlies(c) /\ row.status \in {"stopping", "terminated"}
      /\ \A d \in Callers : StopFlies(d) => d = c
  BY RevertFacts DEF StopFlies, FitInv, StopsFit
<1>3. IsDown' <=> IsDown
  BY RevertFacts DEF IsDown
<1>4. To(req[c].kind) = "stopping" /\ req[c].seen.status \in {"ready", "starting"}
  BY RevertFacts DEF To, SeenBy, Starts, Stops
<1>5. /\ row.status = "stopping" => row'.status = req[c].seen.status
      /\ row.status # "stopping" => row' = row
  BY <1>4, RevertFacts
<1>6. ReadsFit'
  BY <1>1, RevertFacts DEF FitInv, ReadsFit
<1>7. StartsFit'
  <2> SUFFICES ASSUME NEW d \in Callers, StartFlies(d), d # c
               PROVE  /\ IsDown' /\ settling' = None
                      /\ row'.status \in {"starting", "stopping", "terminated"}
                      /\ d = "resize" => row'.status = "starting"
                      /\ \A e \in Callers : StartFlies(e)' => e = d
                      /\ \A e \in Callers : ~StopFlies(e)'
    BY <1>1, <1>2 DEF StartsFit
  <2>1. /\ IsDown /\ settling = None /\ d # "resize" /\ \A e \in Callers : StartFlies(e) => e = d
        /\ req[c].seen.status = "starting"
    BY <1>2 DEF FitInv, StartsFit
  <2> QED
    BY <1>1, <1>2, <1>3, <1>5, <2>1, RevertFacts
<1>8. StopsFit' /\ CallsFit'
  BY <1>1, <1>2, RevertFacts DEF FitInv, StopsFit, CallsFit
<1>9. SettlesFit'
  <2>1. settling # None => settling.status # "stopping"
    BY RevertFacts DEF FitInv, SettlesFit, CallsAnswered
  <2> QED
    BY <1>3, <1>4, <1>5, <2>1, RevertFacts DEF FitInv, SettlesFit
<1>10. StoppedFit' /\ ClaimFits'
  BY <1>3, <1>4, <1>5, RevertFacts DEF FitInv, StoppedFit, ClaimFits
<1>11. JobFits'
  <2> SUFFICES ASSUME job # None PROVE JobFits'
    BY RevertFacts DEF JobFits
  <2>1. c = "resize"
    BY RevertFacts DEF FitInv, CallsFit
  <2>2. job.pc = "stopping"
    BY <2>1, RevertFacts DEF FitInv, ReadsFit, ResizeKinds, Stops
  <2> QED
    BY <2>2, RevertFacts DEF FitInv, JobFits, JobIsDown
<1> QED
  BY <1>6, <1>7, <1>8, <1>9, <1>10, <1>11 DEF FitInv

\* Every step of a request.
LEMMA PowerStepFits ==
  ASSUME GoneInv, FitInv, NEW c \in Callers, PowerStep(c), UNCHANGED lifeVars
  PROVE  FitInv'
<1>1. CASE Move(c)
  BY <1>1, MoveFacts, MoveStartFits, MoveStopFits DEF Kinds
<1>2. CASE Revert(c)
  BY <1>2, RevertFacts, RevertStartFits, RevertStopFits DEF Kinds
<1> QED
  BY <1>1, <1>2, ConflictFits, AcceptedFits, RefusedFits DEF PowerStep

(***************************************************************************)
(* The sweep's settle, EC2, the agent and the box's users.                 *)
(***************************************************************************)

\* A sweep looks at a box with no call in flight: what it finds stands.
LEMMA DescribeFits ==
  ASSUME Timely, GoneInv, FitInv, Describe, UNCHANGED lifeVars
  PROVE  FitInv'
<1> DEFINE to == Settlement(row.status, ec2)
<1>1. /\ to # None /\ CallsAnswered /\ connecting = None
      /\ settling' = [status |-> row.status, to |-> to, stamps |-> StampsPark]
      /\ UNCHANGED <<row, ec2, req, told, lock, connecting, job>>
  BY DEF Describe, NoCallAcross, agentVars, lifeVars
<1>2. /\ row.status \in {"stopping", "starting"} /\ to \in {"stopped", "ready"}
      /\ to = "stopped" => ec2 = "stopped"
      /\ to = "ready" => row.status = "stopping"
  BY <1>1 DEF Settlement
<1> HIDE DEF to
<1>3. settling'.status = row.status /\ settling'.to = to
  BY <1>1
<1>4. \A c \in Callers : ~InFlight(c)' /\ ~StartFlies(c)' /\ ~StopFlies(c)'
  BY <1>1 DEF CallsAnswered, InFlight, StartFlies, StopFlies
<1>5. ReadsFit' /\ StartsFit' /\ StopsFit' /\ CallsFit'
  BY <1>1, <1>4 DEF FitInv, ReadsFit, StartsFit, StopsFit, CallsFit
<1>6. SettlesFit'
  BY <1>1, <1>2, <1>3, <1>4 DEF SettlesFit, IsDown, CallsAnswered
<1>7. StoppedFit' /\ ClaimFits' /\ JobFits'
  BY <1>1 DEF FitInv, StoppedFit, ClaimFits, JobFits, JobIsDown, IsDown
<1> QED
  BY <1>5, <1>6, <1>7 DEF FitInv

\* A settle writes what still holds of the box.
LEMMA SettleFits ==
  ASSUME GoneInv, FitInv, Settle(FreshPark), UNCHANGED lifeVars
  PROVE  FitInv'
<1>1. /\ settling # None /\ settling' = None
      /\ UNCHANGED <<ec2, req, told, lock, connecting, job>>
      /\ row \in Rows
  BY DEF Settle, agentVars, lifeVars, GoneInv, TypeInv, BoxTypeOK
<1>2. /\ row'.claimed = row.claimed
      /\ row.status = settling.status => row'.status = settling.to
      /\ row.status # settling.status => row'.status = row.status
  BY <1>1 DEF Settle, Rows
<1>3. settling.status \in {"stopping", "starting"}
  BY <1>1 DEF GoneInv, SettlesPassing
<1>4. \A c \in Callers : ~StartFlies(c)
  BY <1>1 DEF FitInv, StartsFit
<1>5. /\ IsDown' <=> IsDown
      /\ \A c \in Callers : /\ InFlight(c)' <=> InFlight(c)
                            /\ ~StartFlies(c)'
                            /\ StopFlies(c)' <=> StopFlies(c)
  BY <1>1, <1>4 DEF IsDown, InFlight, StartFlies, StopFlies
<1>6. /\ settling.to \in {"stopped", "ready"}
      /\ settling.to = "stopped" => IsDown
      /\ settling.to = "ready" => settling.status = "stopping"
      /\ settling.status = "stopping" => CallsAnswered
      /\ row.status # "stopped"
  BY <1>1 DEF FitInv, SettlesFit
<1>7. ReadsFit' /\ CallsFit'
  BY <1>1, <1>5 DEF FitInv, ReadsFit, CallsFit
<1>8. StartsFit' /\ SettlesFit'
  BY <1>1, <1>5 DEF StartsFit, SettlesFit
<1>9. StopsFit'
  <2>1. settling.status = "stopping" => \A c \in Callers : ~StopFlies(c)
    BY <1>6 DEF CallsAnswered, StopFlies
  <2> QED
    BY <1>2, <1>3, <1>5, <2>1 DEF FitInv, StopsFit
<1>10. StoppedFit' /\ ClaimFits'
  BY <1>2, <1>3, <1>5, <1>6 DEF FitInv, StoppedFit, ClaimFits
<1>11. JobFits'
  BY <1>1, <1>2, <1>3, <1>5 DEF FitInv, JobFits, JobIsDown
<1> QED
  BY <1>7, <1>8, <1>9, <1>10, <1>11 DEF FitInv

\* A connect is recorded over the status it read, and only a start leaves that
\* one to change.
LEMMA ConnectFacts ==
  ASSUME GoneInv, FitInv, ConnectRecorded
  PROVE  /\ connecting # None /\ row'.claimed = row.claimed
         /\ row.status # "stopped"
         /\ row'.status # row.status => row.status = "starting" /\ row'.status = "ready"
<1>1. connecting # None /\ row \in Rows
  BY DEF ConnectRecorded, GoneInv, TypeInv, BoxTypeOK
<1>2. row.status # "stopped"
  BY <1>1 DEF FitInv, StoppedFit, IsDown
<1>3. /\ row'.claimed = row.claimed
      /\ row'.status = IF row.status = connecting.status THEN NextOnConnect(connecting.status)
                       ELSE row.status
  BY <1>1 DEF ConnectRecorded, RecordsConnect, Rows
<1>4. row'.status # row.status => row.status = "starting" /\ row'.status = "ready"
  BY <1>2, <1>3 DEF NextOnConnect
<1> QED
  BY <1>1, <1>2, <1>3, <1>4

\* A recorded connect changes the status only from starting to ready, and only of
\* a box that is up.
LEMMA ConnectFits ==
  ASSUME GoneInv, FitInv, ConnectRecorded, UNCHANGED lifeVars
  PROVE  FitInv'
<1>1. /\ UNCHANGED <<ec2, req, told, lock, settling, job>> /\ connecting' = None
  BY DEF ConnectRecorded, lifeVars
<1>2. IsDown => IsDown'
  BY <1>1 DEF IsDown
<1>3. CASE row'.status = row.status
  BY <1>1, <1>2, <1>3, ConnectFacts, StillFits
<1>4. CASE row'.status # row.status
  <2>1. row.status = "starting" /\ row'.status = "ready" /\ ~IsDown /\ row'.claimed = row.claimed
    BY <1>4, ConnectFacts DEF IsDown
  <2>2. \A c \in Callers : /\ InFlight(c)' <=> InFlight(c)
                           /\ ~StartFlies(c)' /\ ~StopFlies(c)'
    BY <1>1, <2>1, Quiet DEF FitInv, StartsFit, InFlight, StartFlies, StopFlies
  <2>3. ReadsFit' /\ CallsFit' /\ StartsFit' /\ StopsFit'
    BY <1>1, <2>2 DEF FitInv, ReadsFit, CallsFit, StartsFit, StopsFit
  <2>4. SettlesFit'
    BY <1>1, <2>1 DEF FitInv, SettlesFit
  <2>5. StoppedFit' /\ ClaimFits'
    BY <2>1 DEF FitInv, StoppedFit, ClaimFits
  <2>6. JobFits'
    BY <1>1, <2>1 DEF FitInv, JobFits, JobIsDown
  <2> QED
    BY <2>3, <2>4, <2>5, <2>6 DEF FitInv
<1> QED
  BY <1>3, <1>4

\* EC2, a dial-in, a use: none of them moves the row or a box that is down.
LEMMA WorldFits ==
  ASSUME Timely, GoneInv, FitInv, UNCHANGED lifeVars,
         SettleSweep \/ Ec2Stops \/ Ec2Glitch \/ AgentOnline \/ Activity \/ KeepRunning
  PROVE  FitInv'
<1>1. CASE Ec2Stops \/ Ec2Glitch \/ AgentConnects
  <2>1. UNCHANGED <<row, req, told, lock, settling, job>>
    BY <1>1 DEF Ec2Stops, Ec2Glitch, AgentConnects, lifeVars
  <2>2. ~IsDown
    BY <1>1 DEF Ec2Stops, Ec2Glitch, AgentConnects, IsDown
  <2> QED
    BY <2>1, <2>2, StillFits
<1>2. CASE Activity \/ KeepRunning
  <2>1. UNCHANGED <<ec2, connecting, req, told, lock, settling, job>>
    BY <1>2 DEF Activity, KeepRunning, agentVars, lifeVars
  <2>2. row'.status = row.status /\ row'.claimed = row.claimed
    <3>1. row \in Rows
      BY DEF GoneInv, TypeInv, BoxTypeOK
    <3>2. row' = InUse(row) \/ row' = [row EXCEPT !.clock = FreshClock]
      BY <1>2 DEF Activity, KeepRunning
    <3> QED
      BY <3>1, <3>2 DEF InUse, Rows
  <2>3. IsDown => IsDown'
    BY <2>1 DEF IsDown
  <2> QED
    BY <2>1, <2>2, <2>3, StillFits
<1> QED
  BY <1>1, <1>2, DescribeFits, SettleFits, ConnectFits DEF SettleSweep, AgentOnline

(***************************************************************************)
(* The lifecycle sweep, the resize, the owner and a restart.               *)
(***************************************************************************)

\* Ending a box its sweep or its owner terminates.
LEMMA EndFits ==
  ASSUME GoneInv, FitInv, row'.status = "terminated", job # None => row.claimed,
         UNCHANGED <<ec2, connecting, req, told, lock, settling, job>>
  PROVE  FitInv'
<1>1. /\ IsDown' <=> IsDown
      /\ \A c \in Callers : /\ InFlight(c)' <=> InFlight(c)
                            /\ StartFlies(c)' <=> StartFlies(c)
                            /\ StopFlies(c)' <=> StopFlies(c)
                            /\ req'[c] = req[c]
  BY DEF IsDown, InFlight, StartFlies, StopFlies
<1>2. ~StartFlies("resize")
  <2> SUFFICES ASSUME StartFlies("resize") PROVE FALSE
    OBVIOUS
  <2>1. row.status = "starting"
    BY DEF FitInv, StartsFit, Callers
  <2>2. job # None
    BY LifecycleAssumption DEF StartFlies, InFlight, GoneInv, TypeInv, AwaitsAnswer, JobSteps
  <2> QED
    BY <2>1, <2>2 DEF FitInv, ClaimFits
<1>3. ReadsFit' /\ CallsFit'
  BY <1>1 DEF FitInv, ReadsFit, CallsFit
<1>4. StartsFit'
  <2> SUFFICES ASSUME NEW c \in Callers, StartFlies(c)
               PROVE  /\ IsDown' /\ settling' = None /\ c # "resize"
                      /\ \A d \in Callers : StartFlies(d)' => d = c
                      /\ \A d \in Callers : StopFlies(d)' => req'[d].seen.status = "starting"
    BY <1>1 DEF StartsFit
  <2> QED
    BY <1>1, <1>2 DEF FitInv, StartsFit
<1>5. StopsFit'
  BY <1>1 DEF FitInv, StopsFit
<1>6. SettlesFit'
  BY <1>1 DEF FitInv, SettlesFit, CallsAnswered
<1>7. StoppedFit' /\ ClaimFits'
  BY DEF StoppedFit, ClaimFits
<1>8. JobFits'
  BY <1>1 DEF FitInv, JobFits, JobIsDown, ClaimFits
<1> QED
  BY <1>3, <1>4, <1>5, <1>6, <1>7, <1>8 DEF FitInv

\* The sweep claims a stopped box, and ends one it has claimed.
LEMMA SweepFits ==
  ASSUME GoneInv, FitInv, Sweep
  PROVE  FitInv'
<1>1. row \in Rows
  BY DEF GoneInv, TypeInv, BoxTypeOK
<1>2. CASE Park \/ StuckStart
  <2>1. PICK kind \in {"park", "stuckStop"} :
          /\ Ask("sweep", kind)
          /\ kind = "park" => row.status = "ready"
          /\ kind = "stuckStop" => row.status = "starting"
    BY <1>2 DEF Park, StuckStart
  <2>2. kind \in Kinds \ ResizeKinds /\ row.status \in SeenBy(kind) /\ "sweep" \in Callers \ {"resize"}
    BY <2>1 DEF Kinds, Starts, Stops, ResizeKinds, SeenBy, Callers
  <2>3. UNCHANGED <<row, ec2, connecting, told, lock, settling, job>>
    BY <1>2 DEF Park, StuckStart, agentVars, lifeVars
  <2> QED
    BY <2>1, <2>2, <2>3, AskFits
<1>3. CASE TerminateDue \/ TerminateFails \/ Release
  <2>1. UNCHANGED <<ec2, connecting, req, told, lock, settling, job>>
    BY <1>3 DEF TerminateDue, TerminateFails, Release, powerVars, agentVars
  <2>2. row'.status = row.status /\ (row'.claimed => row.claimed)
    BY <1>1, <1>3 DEF TerminateDue, TerminateFails, Release, Released, powerVars, Rows
  <2>3. IsDown => IsDown'
    BY <2>1 DEF IsDown
  <2> QED
    BY <2>1, <2>2, <2>3, StillFits
<1>4. CASE Claim
  <2>1. UNCHANGED <<ec2, connecting, req, told, lock, settling, job>>
    BY <1>4 DEF Claim, agentVars
  <2>2. /\ row'.status = row.status
        /\ row'.claimed => row.claimed \/ row.status = "stopped"
    BY <1>1, <1>4 DEF Claim, StillParked, Rows
  <2>3. /\ IsDown' <=> IsDown
        /\ \A c \in Callers : /\ InFlight(c)' <=> InFlight(c)
                              /\ StartFlies(c)' <=> StartFlies(c)
                              /\ StopFlies(c)' <=> StopFlies(c)
    BY <2>1 DEF IsDown, InFlight, StartFlies, StopFlies
  <2>4. ReadsFit' /\ CallsFit' /\ StopsFit'
    BY <2>1, <2>2, <2>3 DEF FitInv, ReadsFit, CallsFit, StopsFit
  <2>5. StartsFit' /\ SettlesFit'
    BY <2>1, <2>2, <2>3 DEF FitInv, StartsFit, SettlesFit, CallsAnswered
  <2>6. StoppedFit' /\ ClaimFits' /\ JobFits'
    BY <2>1, <2>2, <2>3 DEF FitInv, StoppedFit, ClaimFits, JobFits, JobIsDown
  <2> QED
    BY <2>4, <2>5, <2>6 DEF FitInv
<1>5. CASE Terminate
  <2>1. UNCHANGED <<ec2, connecting, req, told, lock, settling, job>>
    BY <1>5 DEF Terminate, agentVars
  <2>2. row'.status = "terminated" /\ row.claimed
    BY <1>1, <1>5 DEF Terminate, Rows, GoneInv, EndingIsClaimed
  <2> QED
    BY <2>1, <2>2, EndFits
<1> QED
  BY <1>2, <1>3, <1>4, <1>5 DEF Sweep

\* The resize's own steps but its requests: it goes on only from a box that
\* it has down.
LEMMA GotoFits ==
  ASSUME GoneInv, FitInv, job # None, NEW step \in JobSteps, Goto(step),
         UNCHANGED <<row, ec2, connecting, req, lock, settling>>, req["resize"] = None,
         step \in {"modify", "start", "back", "close"}, told' = None,
         step # "close" => row.status \in {"stopped", "terminated"} /\ IsDown,
         step \in {"start", "back"} => job.after
  PROVE  FitInv'
<1>1. job' # None /\ job'.pc = step /\ job'.after = job.after
  <2>1. job' \in [pc : JobSteps, after : BOOLEAN] /\ job'.pc = step /\ job'.after = job.after
    BY DEF Goto, GoneInv, TypeInv, BoxTypeOK
  <2> QED
    BY <2>1, LifecycleAssumption
<1>2. SameCalls
  BY DEF SameCalls, InFlight
<1>3. (StartsFit /\ StopsFit /\ CallsFit /\ SettlesFit /\ StoppedFit /\ ClaimFits)'
  BY <1>1, <1>2, SameCallsFit
<1>4. ReadsFit'
  BY DEF FitInv, ReadsFit, ResizeKinds
<1>5. JobFits'
  BY <1>1, BoxAssumption DEF FitInv, JobFits, JobIsDown, IsDown
<1> QED
  BY <1>3, <1>4, <1>5 DEF FitInv

\* The resize's own steps: it begins on a settled box, asks, and modifies the
\* instance once its stop is known to be done.
LEMMA ResizeFits ==
  ASSUME GoneInv, FitInv, Resize
  PROVE  FitInv'
<1>1. CASE StartResize
  <2>1. /\ job = None /\ row.status \in {"ready", "stopped"} /\ ~row.claimed
        /\ lock' = "held"
        /\ UNCHANGED <<ec2, connecting, req, told, settling>>
    BY <1>1 DEF StartResize, agentVars
  <2>2. /\ job' = [pc |-> IF row.status = "ready" THEN "stop" ELSE "modify", after |-> row.status = "ready"]
    BY <1>1 DEF StartResize
  <2>3. /\ job'.pc = (IF row.status = "ready" THEN "stop" ELSE "modify")
        /\ job'.after = (row.status = "ready")
    BY <2>2
  <2>4. row'.status = row.status /\ row'.claimed = row.claimed
    <3>1. InUse(row).status = row.status /\ InUse(row).claimed = row.claimed
      BY DEF InUse, GoneInv, TypeInv, BoxTypeOK, Rows
    <3> QED
      BY <1>1, <3>1 DEF StartResize
  <2>5. \A c \in Callers : ~InFlight(c)' /\ ~StartFlies(c)' /\ ~StopFlies(c)'
    BY <2>1, Quiet DEF CallsAnswered, InFlight, StartFlies, StopFlies
  <2>6. req["resize"] = None
    BY <2>1, LifecycleAssumption DEF GoneInv, TypeInv, AwaitsAnswer, JobSteps
  <2>7. ReadsFit'
    BY <2>1, <2>6 DEF FitInv, ReadsFit, ResizeKinds
  <2>8. StartsFit' /\ StopsFit' /\ CallsFit'
    BY <2>5 DEF StartsFit, StopsFit, CallsFit
  <2>9. SettlesFit'
    BY <2>1, <2>4, <2>5 DEF FitInv, SettlesFit, CallsAnswered, IsDown
  <2>10. StoppedFit' /\ ClaimFits'
    BY <2>1, <2>4 DEF FitInv, StoppedFit, ClaimFits, IsDown
  <2>11. JobFits'
    BY <2>1, <2>3, <2>4 DEF FitInv, JobFits, JobIsDown, StoppedFit, IsDown
  <2> QED
    BY <2>7, <2>8, <2>9, <2>10, <2>11 DEF FitInv
<1>2. CASE ResizeRefused \/ ResizeWaits
  <2>1. told # None /\ told' = None /\ UNCHANGED <<row, ec2, connecting, req, lock, settling>>
    BY <1>2, BoxAssumption DEF ResizeRefused, ResizeWaits, agentVars
  <2>2. req["resize"] = None /\ job # None /\ job.pc \in {"stopping", "starting", "backing"}
    BY <2>1, LifecycleAssumption DEF GoneInv, TypeInv, AwaitsAnswer, JobSteps
  <2>3. CASE ResizeRefused
    <3>1. PICK step \in AfterRefusal : Goto(step)
      BY <2>3 DEF ResizeRefused
    <3>2. /\ step \in {"modify", "back", "close"}
          /\ step # "close" => job.pc = "starting"
      BY <2>2, <3>1 DEF AfterRefusal
    <3>3. step # "close" => row.status \in {"stopped", "terminated"} /\ IsDown /\ job.after
      BY <2>2, <2>3, <3>2 DEF ResizeRefused, FitInv, JobFits, JobIsDown
    <3>4. step \in JobSteps
      BY <3>2 DEF JobSteps
    <3> QED
      BY <2>1, <2>2, <3>1, <3>2, <3>3, <3>4, GotoFits
  <2>4. CASE ResizeWaits
    <3>1. \/ Goto("modify") /\ row.status = "stopped"
          \/ Goto("close")
      BY <2>4 DEF ResizeWaits, StoppedForRetype
    <3>2. row.status = "stopped" => IsDown
      BY DEF FitInv, StoppedFit
    <3>3. "modify" \in JobSteps /\ "close" \in JobSteps
      BY DEF JobSteps
    <3> QED
      BY <2>1, <2>2, <3>1, <3>2, <3>3, GotoFits
  <2> QED
    BY <1>2, <2>3, <2>4
<1>3. CASE Modify
  <2>1. /\ job # None /\ job.pc = "modify" /\ UNCHANGED <<row, ec2, connecting, req, told, lock, settling>>
    BY <1>3 DEF Modify, At, agentVars
  <2>2. PICK step \in {"start", "back", "close"} :
          Goto(step) /\ (step \in {"start", "back"} => job.after)
    BY <1>3 DEF Modify
  <2>3. req["resize"] = None /\ told = None
    BY <2>1 DEF GoneInv, TypeInv, AwaitsAnswer
  <2>4. row.status \in {"stopped", "terminated"} /\ IsDown
    BY <2>1 DEF FitInv, JobFits, JobIsDown
  <2>5. step \in JobSteps
    BY DEF JobSteps
  <2> QED
    BY <2>1, <2>2, <2>3, <2>4, <2>5, GotoFits
<1>4. CASE FinishResize
  <2>1. /\ job # None /\ job.pc = "close" /\ job' = None
        /\ UNCHANGED <<row, ec2, connecting, req, told, settling>>
    BY <1>4 DEF FinishResize, At, agentVars
  <2>2. req["resize"] = None
    BY <2>1 DEF GoneInv, TypeInv, AwaitsAnswer
  <2>3. /\ IsDown' <=> IsDown
        /\ \A c \in Callers : /\ InFlight(c)' <=> InFlight(c)
                              /\ StartFlies(c)' <=> StartFlies(c)
                              /\ StopFlies(c)' <=> StopFlies(c)
    BY <2>1 DEF IsDown, InFlight, StartFlies, StopFlies
  <2>4. ReadsFit' /\ CallsFit' /\ StopsFit'
    BY <2>1, <2>2, <2>3 DEF FitInv, ReadsFit, ResizeKinds, CallsFit, StopsFit
  <2>5. StartsFit' /\ SettlesFit'
    BY <2>1, <2>3 DEF FitInv, StartsFit, SettlesFit, CallsAnswered
  <2>6. StoppedFit' /\ ClaimFits' /\ JobFits'
    BY <2>1, <2>3 DEF FitInv, StoppedFit, ClaimFits, JobFits
  <2> QED
    BY <2>4, <2>5, <2>6 DEF FitInv
<1> QED
  BY <1>1, <1>2, <1>3, <1>4, ResizeAsksFits DEF Resize

\* The owner, the other callers and a restart.
LEMMA OthersFit ==
  ASSUME ~EndsInResize, GoneInv, FitInv,
         (\E c \in Clients : ClientAsks(c)) \/ OwnerTerminate \/ Teardown \/ LockGoesStale \/ Restart
  PROVE  FitInv'
<1>1. row \in Rows
  BY DEF GoneInv, TypeInv, BoxTypeOK
<1>2. ASSUME NEW c \in Clients, ClientAsks(c) PROVE FitInv'
  <2>1. PICK kind \in {"ownerStart", "ownerStop", "wake"} : MayAsk(kind) /\ Ask(c, kind)
    BY <1>2 DEF ClientAsks
  <2>2. kind \in Kinds \ ResizeKinds /\ kind \notin {"park", "stuckStop"} /\ row.status \in SeenBy(kind)
    BY <2>1 DEF Kinds, Starts, Stops, ResizeKinds, MayAsk, SeenBy
  <2>3. c \in Callers \ {"resize"}
    BY BoxAssumption DEF Callers
  <2>4. UNCHANGED <<row, ec2, connecting, told, lock, settling, job>>
    BY <1>2 DEF ClientAsks, agentVars, lifeVars
  <2> QED
    BY <2>1, <2>2, <2>3, <2>4, AskFits
<1>3. CASE OwnerTerminate
  <2>1. job = None /\ UNCHANGED <<ec2, connecting, req, told, lock, settling, job>>
    BY <1>3 DEF OwnerTerminate, agentVars
  <2>2. row'.status = "terminated"
    BY <1>1, <1>3 DEF OwnerTerminate, Rows
  <2> QED
    BY <2>1, <2>2, EndFits
<1>4. CASE Teardown
  <2>1. UNCHANGED <<row, req, told, lock, settling, connecting, job>> /\ ec2' = "terminated"
    BY <1>4 DEF Teardown
  <2>2. IsDown => IsDown'
    BY <2>1 DEF IsDown
  <2> QED
    BY <2>1, <2>2, StillFits
<1>5. CASE LockGoesStale
  <2>1. UNCHANGED <<row, ec2, connecting, req, told, settling, job>> /\ lock = "orphan"
    BY <1>5 DEF LockGoesStale, agentVars, lifeVars
  <2>2. job = None
    BY <2>1 DEF FitInv, JobFits
  <2>3. SameCalls
    BY <2>1 DEF SameCalls, InFlight
  <2>4. (StartsFit /\ StopsFit /\ CallsFit /\ SettlesFit /\ StoppedFit /\ ClaimFits)'
    BY <2>1, <2>3, SameCallsFit
  <2>5. ReadsFit' /\ JobFits'
    BY <2>1, <2>2 DEF FitInv, ReadsFit, JobFits
  <2> QED
    BY <2>4, <2>5 DEF FitInv
<1>6. CASE Restart
  <2>1. /\ \A c \in Callers : req'[c] = None
        /\ settling' = None /\ connecting' = None /\ job' = None
        /\ UNCHANGED <<row, ec2>>
    BY <1>6 DEF Restart
  <2>2. \A c \in Callers : ~InFlight(c)' /\ ~StartFlies(c)' /\ ~StopFlies(c)'
    BY <2>1 DEF InFlight, StartFlies, StopFlies
  <2>3. ReadsFit' /\ StartsFit' /\ StopsFit' /\ CallsFit' /\ SettlesFit' /\ JobFits'
    BY <2>1, <2>2 DEF ReadsFit, StartsFit, StopsFit, CallsFit, SettlesFit, JobFits
  <2>4. StoppedFit' /\ ClaimFits'
    BY <2>1 DEF FitInv, StoppedFit, ClaimFits, IsDown
  <2> QED
    BY <2>3, <2>4 DEF FitInv
<1> QED
  BY <1>2, <1>3, <1>4, <1>5, <1>6

\* Every step.
LEMMA NextFits ==
  ASSUME Timely, ~EndsInResize, GoneInv, FitInv, [BoxNext]_boxVars
  PROVE  FitInv'
<1>1. CASE UNCHANGED boxVars
  <2>1. UNCHANGED <<row, ec2, connecting, req, told, lock, settling, job>>
    BY <1>1 DEF boxVars, powerVars, agentVars
  <2>2. IsDown => IsDown'
    BY <2>1 DEF IsDown
  <2> QED
    BY <2>1, <2>2, StillFits
<1>2. CASE BoxNext
  BY <1>2, PowerStepFits, WorldFits, SweepFits, ResizeFits, OthersFit DEF BoxNext, Power
<1> QED
  BY <1>1, <1>2

LifeInv == GoneInv /\ FitInv

\* Both invariants hold in every reachable state.
LEMMA LifeHolds ==
  ASSUME Timely, ~EndsInResize
  PROVE  BoxSpec => []LifeInv
<1>1. BoxInit => LifeInv
  BY InitGone, InitFit DEF LifeInv
<1>2. LifeInv /\ [BoxNext]_boxVars => LifeInv'
  BY NextGone, NextFits DEF LifeInv
<1> QED
  BY <1>1, <1>2, PTL DEF BoxSpec

(***************************************************************************)
(* What the invariant says.                                                *)
(***************************************************************************)

\* What is stopped, claimed or retyped is down.
LEMMA LifeInvariants ==
  ASSUME LifeInv
  PROVE  StoppedIsDown /\ ClaimedStaysDown /\ RetypedDown
<1>1. StoppedIsDown
  BY DEF LifeInv, FitInv, StoppedFit, IsDown, StoppedIsDown
<1>2. ClaimedStaysDown
  BY DEF LifeInv, FitInv, StoppedFit, ClaimFits, IsDown, ClaimedStaysDown
<1>3. RetypedDown
  BY DEF LifeInv, FitInv, JobFits, JobIsDown, At, IsDown, RetypedDown
<1> QED
  BY <1>1, <1>2, <1>3

\* A box that its row calls stopped is not running, whatever requests, settles,
\* connects and crashes came before.
THEOREM StoppedIsDownTheorem ==
  ASSUME Timely, ~EndsInResize
  PROVE  BoxSpec => []StoppedIsDown
<1>1. LifeInv => StoppedIsDown
  BY LifeInvariants
<1> QED
  BY <1>1, LifeHolds, PTL

\* A box the sweep has claimed for terminate is stopped, in the row and in EC2,
\* until it is released or gone.
THEOREM ClaimedStaysDownTheorem ==
  ASSUME Timely, ~EndsInResize
  PROVE  BoxSpec => []ClaimedStaysDown
<1>1. LifeInv => ClaimedStaysDown
  BY LifeInvariants
<1> QED
  BY <1>1, LifeHolds, PTL

\* A resize never retypes an instance that runs.
THEOREM RetypedDownTheorem ==
  ASSUME Timely, ~EndsInResize
  PROVE  BoxSpec => []RetypedDown
<1>1. LifeInv => RetypedDown
  BY LifeInvariants
<1> QED
  BY <1>1, LifeHolds, PTL

(***************************************************************************)
(* The row lives the life BoxLife promises.                                *)
(***************************************************************************)

\* The steps of BoxLife, and a step that is none, in the row's own words.
KeepsClaim == row'.claimed = row.claimed
Lives ==
  \/ row'.status = row.status /\ KeepsClaim
  \/ row.status \in {"ready", "starting"} /\ ~row.claimed /\ row'.status = "stopping" /\ KeepsClaim
  \/ row.status = "stopping" /\ row'.status \in {"ready", "starting"} /\ KeepsClaim
  \/ row.status \in {"stopping", "starting"} /\ row'.status = "stopped" /\ KeepsClaim
  \/ row.status = "stopped" /\ ~row.claimed /\ row'.status = "starting" /\ KeepsClaim
  \/ row.status = "starting" /\ row'.status = "ready" /\ KeepsClaim
  \/ row.status = "stopped" /\ row'.status = "stopped" /\ row'.claimed # row.claimed
  \/ row'.status = "terminated" /\ KeepsClaim

\* Each of them is a step of BoxLife.
LEMMA LivesIsLife ==
  ASSUME row.claimed \in BOOLEAN, row'.claimed \in BOOLEAN, row.status \in Statuses, Lives
  PROVE  [Life!LifeNext]_<<LifeOf(row.status), row.claimed>>
<1>1. CASE row'.status = row.status /\ KeepsClaim
  BY <1>1 DEF KeepsClaim
<1>2. CASE row.status \in {"ready", "starting"} /\ ~row.claimed /\ row'.status = "stopping" /\ KeepsClaim
  BY <1>2 DEF KeepsClaim, LifeOf, Life!LifeNext, Life!GoDown
<1>3. CASE row.status = "stopping" /\ row'.status \in {"ready", "starting"} /\ KeepsClaim
  BY <1>3 DEF KeepsClaim, LifeOf, Life!LifeNext, Life!TurnBack
<1>4. CASE row.status \in {"stopping", "starting"} /\ row'.status = "stopped" /\ KeepsClaim
  BY <1>4 DEF KeepsClaim, LifeOf, Life!LifeNext, Life!Down
<1>5. CASE row.status = "stopped" /\ ~row.claimed /\ row'.status = "starting" /\ KeepsClaim
  BY <1>5 DEF KeepsClaim, LifeOf, Life!LifeNext, Life!ComeUp
<1>6. CASE row.status = "starting" /\ row'.status = "ready" /\ KeepsClaim
  BY <1>6 DEF KeepsClaim, LifeOf, Life!LifeNext, Life!Up
<1>7. CASE row.status = "stopped" /\ row'.status = "stopped" /\ row'.claimed # row.claimed
  BY <1>7 DEF LifeOf, Life!LifeNext, Life!Doom, Life!Spare
<1>8. CASE row'.status = "terminated" /\ KeepsClaim
  BY <1>8 DEF KeepsClaim, LifeOf, Statuses, Life!LifeNext, Life!End
<1> QED
  BY <1>1, <1>2, <1>3, <1>4, <1>5, <1>6, <1>7, <1>8 DEF Lives

\* A request moves the row along that life and back.
LEMMA PowerStepLives ==
  ASSUME LifeInv, NEW c \in Callers, PowerStep(c), UNCHANGED lifeVars
  PROVE  Lives
<1> USE DEF LifeInv
<1>1. CASE Move(c)
  <2>1. req[c].seen.status \in SeenBy(req[c].kind)
    BY <1>1, MoveFacts DEF FitInv, ReadsFit
  <2>2. /\ row.status = req[c].seen.status /\ row.status # "terminated"
        /\ row'.status = To(req[c].kind) /\ ~row.claimed /\ ~row'.claimed
        /\ row.claimed = row'.claimed /\ req[c].kind \in Kinds
    <3>1. row.claimed \in BOOLEAN /\ row'.claimed \in BOOLEAN
      BY <1>1, ColumnsType, PowerKeepsEnd DEF PowerStep, KeepsEnd, GoneInv, TypeInv, BoxTypeOK, Rows
    <3> QED
      BY <1>1, <3>1, MoveFacts
  <2> QED
    BY <2>1, <2>2 DEF Lives, KeepsClaim, SeenBy, To, Kinds, Starts, Stops
<1>2. CASE Revert(c)
  <2>1. /\ req[c].seen.status \in SeenBy(req[c].kind) \ {"terminated"}
        /\ req[c].kind \in Kinds
        /\ row.status = To(req[c].kind) => row'.status = req[c].seen.status
        /\ row.status # To(req[c].kind) => row' = row
        /\ KeepsClaim
    BY <1>2, RevertFacts DEF KeepsClaim
  <2> QED
    BY <2>1 DEF Lives, SeenBy, To, Kinds, Starts, Stops
<1>3. CASE Conflict(c) \/ Accepted(c) \/ Refused(c)
  BY <1>3 DEF Conflict, Accepted, Refused, Lives, KeepsClaim
<1> QED
  BY <1>1, <1>2, <1>3 DEF PowerStep

\* So do a settle and a connect.
LEMMA WorldLives ==
  ASSUME LifeInv, UNCHANGED lifeVars,
         SettleSweep \/ Ec2Stops \/ Ec2Glitch \/ AgentOnline \/ Activity \/ KeepRunning
  PROVE  Lives
<1>1. row \in Rows
  BY DEF LifeInv, GoneInv, TypeInv, BoxTypeOK
<1>2. CASE Settle(FreshPark)
  <2>1. settling # None /\ settling.status \in {"stopping", "starting"}
        /\ settling.to \in {"stopped", "ready"} /\ (settling.to = "ready" => settling.status = "stopping")
    BY <1>2 DEF Settle, LifeInv, GoneInv, SettlesPassing, FitInv, SettlesFit
  <2>2. /\ row.status = settling.status => row'.status = settling.to
        /\ row.status # settling.status => row'.status = row.status
        /\ row'.claimed = row.claimed
    BY <1>1, <1>2 DEF Settle, Rows
  <2> QED
    BY <2>1, <2>2 DEF Lives, KeepsClaim
<1>3. CASE ConnectRecorded
  BY <1>3, ConnectFacts DEF LifeInv, Lives, KeepsClaim
<1>4. CASE Activity \/ KeepRunning
  <2>1. row' = InUse(row) \/ row' = [row EXCEPT !.clock = FreshClock]
    BY <1>4 DEF Activity, KeepRunning
  <2> QED
    BY <1>1, <2>1 DEF InUse, Rows, Lives, KeepsClaim
<1>5. CASE Describe \/ Ec2Stops \/ Ec2Glitch \/ AgentConnects
  BY <1>5 DEF Describe, Ec2Stops, Ec2Glitch, AgentConnects, Lives, KeepsClaim
<1> QED
  BY <1>2, <1>3, <1>4, <1>5 DEF SettleSweep, AgentOnline

\* The sweep dooms a stopped box, spares it or ends it; the owner ends any.
LEMMA OthersLive ==
  ASSUME LifeInv,
         Sweep \/ Resize \/ (\E c \in Clients : ClientAsks(c)) \/ OwnerTerminate \/ Teardown
           \/ LockGoesStale \/ Restart
  PROVE  Lives
<1>1. row \in Rows
  BY DEF LifeInv, GoneInv, TypeInv, BoxTypeOK
<1>2. CASE Claim
  <2>1. row'.status = row.status /\ (row'.claimed # row.claimed => row.status = "stopped")
    BY <1>1, <1>2 DEF Claim, StillParked, Rows
  <2> QED
    BY <2>1 DEF Lives, KeepsClaim
<1>3. CASE Release
  <2>1. row'.status = row.status /\ (row'.claimed # row.claimed => row.status = "stopped")
    BY <1>1, <1>3 DEF Release, Released, Rows
  <2> QED
    BY <2>1 DEF Lives, KeepsClaim
<1>4. CASE Terminate \/ OwnerTerminate
  BY <1>1, <1>4 DEF Terminate, OwnerTerminate, Lives, KeepsClaim, Rows
<1>5. CASE StartResize
  <2>1. row' = InUse(row) \/ row' = row
    BY <1>5 DEF StartResize
  <2> QED
    BY <1>1, <2>1 DEF InUse, Rows, Lives, KeepsClaim
<1>6. CASE Park \/ StuckStart \/ TerminateDue \/ TerminateFails
  BY <1>6 DEF Park, StuckStart, TerminateDue, TerminateFails, powerVars, Lives, KeepsClaim
<1>7. CASE ResizeAsks \/ ResizeRefused \/ ResizeWaits \/ Modify \/ FinishResize
  BY <1>7 DEF ResizeAsks, ResizeRefused, ResizeWaits, Modify, FinishResize, Lives, KeepsClaim
<1>8. CASE (\E c \in Clients : ClientAsks(c)) \/ Teardown \/ LockGoesStale \/ Restart
  BY <1>8 DEF ClientAsks, Teardown, LockGoesStale, Restart, Lives, KeepsClaim
<1> QED
  BY <1>2, <1>3, <1>4, <1>5, <1>6, <1>7, <1>8 DEF Sweep, Resize

\* BoxLifecycle implements BoxLife: its first state is BoxLife's and every step
\* is one of BoxLife's or a stutter.
THEOREM LivesItsLifeTheorem ==
  ASSUME Timely, ~EndsInResize
  PROVE  BoxSpec => LivesItsLife
<1>1. BoxInit => Life!LifeInit
  BY DEF BoxInit, Life!LifeInit, LifeOf
<1>2. LifeInv /\ LifeInv' /\ [BoxNext]_boxVars => [Life!LifeNext]_<<LifeOf(row.status), row.claimed>>
  <2> SUFFICES ASSUME LifeInv, LifeInv', [BoxNext]_boxVars
               PROVE  [Life!LifeNext]_<<LifeOf(row.status), row.claimed>>
    OBVIOUS
  <2>1. row.claimed \in BOOLEAN /\ row'.claimed \in BOOLEAN /\ row.status \in Statuses
    BY DEF LifeInv, GoneInv, TypeInv, BoxTypeOK, Rows
  <2>2. CASE BoxNext
    <3>1. Lives
      BY <2>2, PowerStepLives, WorldLives, OthersLive DEF BoxNext, Power
    <3> QED
      BY <2>1, <3>1, LivesIsLife
  <2>3. CASE UNCHANGED boxVars
    BY <2>3 DEF boxVars, powerVars
  <2> QED
    BY <2>2, <2>3
<1> QED
  BY <1>1, <1>2, LifeHolds, PTL DEF BoxSpec, LivesItsLife, Life!LifeSpec

(***************************************************************************)
(* Whose use counts: the inductive invariant of the clocks.                *)
(***************************************************************************)

Owned == ownerUp /\ ~overwrote

\* A box its owner uses is not parked, and no request would put a park back.
OwnersClock == Owned => row.parked = 0 /\ ~row.auto /\ ~row.claimed
OwnersCopies ==
  Owned => \A c \in Callers : InFlight(c) /\ ~req[c].late /\ req[c].kind # "ownerStart" =>
             req[c].seen.parked = 0 /\ ~req[c].seen.auto

\* A settle stamps a park only on a box that its sweep put down.
StampsFit == settling # None /\ settling.stamps => settling.status = "stopping" /\ ~Owned

EndsParked == ending # None => ending.parked # 0

Beaten == touched /\ ParkRead /\ ~overwrote

\* It may be ready again without a new clock.
Rises == row.status \in {"ready", "starting", "stopping"} \/ (job # None /\ job.after)

\* A use has moved the clock away from what a park has read, and no request
\* would put that one back.
ClockBeaten == Beaten /\ Rises => row.clock # req["sweep"].seen.clock
CopiesBeaten ==
  Beaten => \A c \in Callers : InFlight(c) /\ ~req[c].late /\ req[c].kind \in Stops \cup {"resizeStart"} =>
              req[c].seen.clock # req["sweep"].seen.clock

UseInv == OwnersClock /\ OwnersCopies /\ StampsFit /\ EndsParked /\ ClockBeaten /\ CopiesBeaten

\* In the beginning the box is ready and not parked, and nobody has a copy of
\* the row.
LEMMA InitUse == BoxInit => UseInv
<1> SUFFICES ASSUME BoxInit PROVE UseInv
  OBVIOUS
<1>1. \A c \in Callers : ~InFlight(c)
  BY DEF BoxInit, InFlight
<1> QED
  BY <1>1 DEF BoxInit, UseInv, Owned, OwnersClock, OwnersCopies, StampsFit, EndsParked, Beaten,
     ClockBeaten, CopiesBeaten

\* A new clock is none that a request has read.
LEMMA FreshClockIsNew ==
  ASSUME NEW c \in Callers, req[c] # None
  PROVE  FreshClock # req[c].seen.clock
<1> DEFINE f == [r \in Copies |-> r.clock]
           T == {r.clock : r \in Copies}
<1>1. IsFiniteSet({f[r] : r \in Copies})
  BY CopiesFinite, ImageFinite
<1>2. T = {f[r] : r \in Copies}
  OBVIOUS
<1>3. req[c].seen.clock \in T
  BY DEF Copies
<1> HIDE DEF T, f
<1>4. FreshClock = Fresh(T)
  BY DEF FreshClock, T
<1> QED
  BY <1>1, <1>2, <1>3, <1>4, FreshIsNew

\* No call but those that were in flight.
FewerCalls ==
  \A c \in Callers : req'[c] # None /\ req'[c].pc \in {"sent", "reverting"} =>
    /\ InFlight(c) /\ req'[c].kind = req[c].kind /\ req'[c].seen = req[c].seen
    /\ req'[c].late = req[c].late

\* What a step that sends no request has to keep.
LEMMA UseStill ==
  ASSUME UseInv, FewerCalls, Owned' => Owned /\ row'.parked = 0 /\ ~row'.auto /\ ~row'.claimed,
         settling' = settling \/ settling' = None,
         ending' = None \/ (ending # None /\ ending'.parked = ending.parked),
         Beaten' => Beaten /\ req'["sweep"] = req["sweep"],
         Beaten' /\ Rises' => row'.clock # req["sweep"].seen.clock
  PROVE  UseInv'
<1>1. OwnersClock' /\ EndsParked' /\ ClockBeaten'
  BY DEF UseInv, OwnersClock, EndsParked, ClockBeaten
<1>2. StampsFit'
  BY DEF UseInv, StampsFit
<1>3. OwnersCopies'
  <2> SUFFICES ASSUME Owned', NEW c \in Callers, InFlight(c)', ~req'[c].late, req'[c].kind # "ownerStart"
               PROVE  req'[c].seen.parked = 0 /\ ~req'[c].seen.auto
    BY DEF OwnersCopies
  <2>1. /\ InFlight(c) /\ req'[c].kind = req[c].kind /\ req'[c].seen = req[c].seen
        /\ req'[c].late = req[c].late
    BY DEF FewerCalls, InFlight
  <2> QED
    BY <2>1 DEF UseInv, OwnersCopies
<1>4. CopiesBeaten'
  <2> SUFFICES ASSUME Beaten', NEW c \in Callers, InFlight(c)', ~req'[c].late,
                      req'[c].kind \in Stops \cup {"resizeStart"}
               PROVE  req'[c].seen.clock # req'["sweep"].seen.clock
    BY DEF CopiesBeaten
  <2>1. /\ InFlight(c) /\ req'[c].kind = req[c].kind /\ req'[c].seen = req[c].seen
        /\ req'[c].late = req[c].late
    BY DEF FewerCalls, InFlight
  <2> QED
    BY <2>1 DEF UseInv, CopiesBeaten
<1> QED
  BY <1>1, <1>2, <1>3, <1>4 DEF UseInv

\* Most steps leave the clocks and the history alone.
LEMMA UseCalm ==
  ASSUME UseInv, FewerCalls, UNCHANGED <<ownerUp, overwrote>>,
         row'.parked = row.parked, row'.auto => row.auto, row'.claimed => row.claimed,
         row'.clock = row.clock,
         settling' = settling \/ settling' = None,
         ending' = None \/ (ending # None /\ ending'.parked = ending.parked),
         Beaten' => Beaten /\ req'["sweep"] = req["sweep"],
         Rises' => Rises
  PROVE  UseInv'
<1>1. Owned' => Owned /\ row'.parked = 0 /\ ~row'.auto /\ ~row'.claimed
  BY DEF Owned, UseInv, OwnersClock
<1>2. Beaten' /\ Rises' => row'.clock # req["sweep"].seen.clock
  BY DEF UseInv, ClockBeaten
<1> QED
  BY <1>1, <1>2, UseStill

\* The ending that stays stays parked.
LEMMA SameEnding == ending' = ending => ending' = None \/ (ending # None /\ ending'.parked = ending.parked)
  OBVIOUS

\* An ask leaves a beaten park beaten, or begins a new one.
LEMMA AskUses ==
  ASSUME LifeInv, UseInv, NEW c \in Callers, NEW kind \in Kinds, Ask(c, kind),
         kind = "park" => touched' = FALSE, touched' => touched,
         UNCHANGED <<row, settling, ownerUp, overwrote, ending>>, Rises' => Rises,
         kind = "park" \/ c # "sweep" \/ kind = "stuckStop"
  PROVE  UseInv'
<1>1. /\ SameCalls
      /\ req'[c] = [pc |-> "read", kind |-> kind, seen |-> row, late |-> FALSE]
      /\ \A d \in Callers : d # c => req'[d] = req[d]
  BY AskSameCalls DEF LifeInv, GoneInv, TypeInv
<1>2. FewerCalls
  BY <1>1 DEF SameCalls, FewerCalls
<1>3. Beaten' => Beaten /\ req'["sweep"] = req["sweep"]
  <2>1. CASE c # "sweep"
    BY <1>1, <2>1 DEF Beaten, ParkRead, Callers
  <2>2. CASE c = "sweep" /\ kind = "park"
    BY <2>2 DEF Beaten
  <2>3. CASE c = "sweep" /\ kind = "stuckStop"
    BY <1>1, <2>3 DEF Beaten, ParkRead
  <2> QED
    BY <2>1, <2>2, <2>3
<1> QED
  BY <1>2, <1>3, SameEnding, UseCalm

\* A request that moves its box: an owner's start ends the park, a sweep's stop
\* begins one, and the others keep what the row promises.
LEMMA MoveUses ==
  ASSUME LifeInv, UseInv, NEW c \in Callers, Move(c), UNCHANGED lifeVars
  PROVE  UseInv'
<1> DEFINE kind == req[c].kind
<1> USE DEF LifeInv
<1>1. /\ kind \in Kinds /\ row \in Rows /\ c \in Callers
      /\ ownerUp' = ((ownerUp \/ kind = "ownerStart") /\ kind \notin {"park", "stuckStop"})
      /\ touched' = (touched /\ c # "sweep")
      /\ overwrote' = (overwrote /\ kind # "ownerStart")
      /\ UNCHANGED <<settling, ending, job>>
      /\ row' = [Columns(kind, row) EXCEPT !.status = To(kind)]
      /\ ownerUp \in BOOLEAN /\ overwrote \in BOOLEAN /\ touched \in BOOLEAN
  BY MoveFacts DEF Move, GoneInv, TypeInv, BoxTypeOK, lifeVars
<1>2. /\ kind = "ownerStart" => row'.parked = 0 /\ ~row'.auto
      /\ kind \notin {"ownerStart", "park", "stuckStop"} => row'.parked = row.parked /\ row'.auto = row.auto
      /\ kind \in {"ownerStart", "wake"} => row'.clock = FreshClock
      /\ kind \notin {"ownerStart", "wake"} => row'.clock = row.clock
  <2>1. FreshClock \in Nat
    BY FreshClockType
  <2>2. CASE kind = "ownerStart"
    BY <1>1, <2>1, <2>2 DEF Columns, InUse, Rows
  <2>3. CASE kind \in {"ownerStop", "wake"}
    BY <1>1, <2>1, <2>3 DEF Columns, Rows
  <2>4. CASE kind \in {"park", "stuckStop", "resizeStop", "resizeStart"}
    BY <1>1, <2>4 DEF Columns, Rows
  <2> QED
    BY <1>1, <2>2, <2>3, <2>4 DEF Kinds, Starts, Stops
<1>3. /\ req[c] # None /\ req'[c] # None /\ req'[c].kind = kind /\ req'[c].seen = req[c].seen
      /\ req'[c].late = (row # req[c].seen) /\ ~InFlight(c)
      /\ \A d \in Callers : d # c => req'[d] = req[d]
      /\ ~row'.claimed
      /\ c # "resize" => job = None
  BY MoveFacts DEF InFlight
<1>4. \A d \in Callers : d # c => (InFlight(d)' <=> InFlight(d))
  BY <1>3 DEF InFlight
<1>5. kind = "ownerStart" => \A d \in Callers : ~InFlight(d)
  <2>1. kind = "ownerStart" => row.status = "stopped"
    BY MoveFacts DEF FitInv, ReadsFit, SeenBy
  <2> QED
    BY <2>1, Quiet DEF CallsAnswered
<1>6. Owned' => kind \notin {"park", "stuckStop"} /\ (kind = "ownerStart" \/ Owned)
  BY <1>1 DEF Owned
<1>7. OwnersClock'
  BY <1>2, <1>3, <1>6 DEF UseInv, OwnersClock
<1>8. OwnersCopies'
  <2> SUFFICES ASSUME Owned', NEW d \in Callers, InFlight(d)', ~req'[d].late, req'[d].kind # "ownerStart"
               PROVE  req'[d].seen.parked = 0 /\ ~req'[d].seen.auto
    BY DEF OwnersCopies
  <2>1. CASE d = c
    BY <1>3, <1>6, <2>1 DEF UseInv, OwnersClock
  <2>2. CASE d # c
    BY <1>3, <1>4, <1>5, <1>6, <2>2 DEF UseInv, OwnersCopies
  <2> QED
    BY <2>1, <2>2
<1>9. StampsFit'
  <2>1. kind = "ownerStart" => settling = None
    BY MoveFacts, Quiet DEF FitInv, ReadsFit, SeenBy
  <2> QED
    BY <1>1, <1>6, <2>1 DEF UseInv, StampsFit
<1>10. EndsParked'
  BY <1>1 DEF UseInv, EndsParked
<1>11. Beaten' => /\ c # "sweep" /\ req["sweep"] # None /\ req'["sweep"] = req["sweep"]
                  /\ kind = "ownerStart" \/ Beaten
  BY <1>1, <1>3 DEF Beaten, ParkRead, Callers
<1>12. kind \in Stops \cup {"resizeStart"} => Rises
  <2>1. kind \in Stops => row.status \in {"ready", "starting"}
    BY MoveFacts DEF FitInv, ReadsFit, SeenBy, Stops
  <2>2. kind = "resizeStart" => job # None /\ job.after
    <3>1. kind = "resizeStart" => c = "resize" /\ job.pc \in {"starting", "backing"}
      BY <1>3 DEF FitInv, ReadsFit, ResizeKinds
    <3> QED
      BY <3>1, MoveFacts DEF FitInv, JobFits
  <2> QED
    BY <2>1, <2>2 DEF Rises
<1>13. ClockBeaten'
  <2> SUFFICES ASSUME Beaten' PROVE row'.clock # req["sweep"].seen.clock
    BY <1>11 DEF ClockBeaten
  <2>1. CASE kind \in {"ownerStart", "wake"}
    BY <1>2, <1>11, <2>1, FreshClockIsNew DEF Callers
  <2>2. CASE kind \notin {"ownerStart", "wake"}
    <3>1. kind \in Stops \cup {"resizeStart"}
      BY <1>1, <2>2 DEF Kinds, Starts
    <3> QED
      BY <1>2, <1>11, <1>12, <2>2, <3>1 DEF UseInv, ClockBeaten
  <2> QED
    BY <2>1, <2>2
<1>14. CopiesBeaten'
  <2> SUFFICES ASSUME Beaten', NEW d \in Callers, InFlight(d)', ~req'[d].late,
                      req'[d].kind \in Stops \cup {"resizeStart"}
               PROVE  req'[d].seen.clock # req["sweep"].seen.clock
    BY <1>11 DEF CopiesBeaten
  <2>1. CASE d = c
    <3>1. kind # "ownerStart"
      BY <1>3, <2>1 DEF Stops
    <3> QED
      BY <1>3, <1>11, <1>12, <2>1, <3>1 DEF UseInv, ClockBeaten
  <2>2. CASE d # c
    BY <1>3, <1>4, <1>5, <1>11, <2>2 DEF UseInv, CopiesBeaten
  <2> QED
    BY <2>1, <2>2
<1> QED
  BY <1>7, <1>8, <1>9, <1>10, <1>13, <1>14 DEF UseInv

\* A request that puts its row back puts back no park its owner has ended and
\* no clock from before a use, but for a row older than it moved.
LEMMA RevertUses ==
  ASSUME LifeInv, UseInv, NEW c \in Callers, Revert(c), UNCHANGED lifeVars
  PROVE  UseInv'
<1> DEFINE kind == req[c].kind
<1> USE DEF LifeInv
<1>1. /\ req[c] # None /\ InFlight(c) /\ kind \in Kinds /\ req[c].seen \in Rows /\ req[c].late \in BOOLEAN
      /\ req[c].seen.status \in SeenBy(kind)
      /\ UNCHANGED <<settling, job>> /\ row'.claimed = row.claimed
  BY RevertFacts
<1>2. /\ ownerUp' = (ownerUp /\ kind # "ownerStart") /\ UNCHANGED <<touched, ending>>
      /\ IF row.status = To(kind) THEN overwrote' = (overwrote \/ req[c].late)
                                  ELSE overwrote' = overwrote /\ row' = row
  BY DEF Revert, PutsBack, lifeVars
<1>3. row.status = To(kind) => /\ row'.status = req[c].seen.status /\ row'.parked = req[c].seen.parked
                               /\ row'.auto = req[c].seen.auto /\ row'.clock = req[c].seen.clock
  BY RevertFacts DEF Rows
<1>4. req'[c] = None /\ \A d \in Callers : d # c => req'[d] = req[d]
  BY <1>1, RevertFacts, AnswerFacts
<1>5. FewerCalls
  BY <1>4 DEF FewerCalls, InFlight
<1>6. Owned' => Owned /\ row'.parked = 0 /\ ~row'.auto /\ ~row'.claimed
  <2> SUFFICES ASSUME Owned' PROVE Owned /\ row'.parked = 0 /\ ~row'.auto /\ ~row'.claimed
    OBVIOUS
  <2>1. Owned /\ kind # "ownerStart" /\ (row.status = To(kind) => ~req[c].late)
    BY <1>2 DEF Owned
  <2> QED
    BY <1>1, <1>2, <1>3, <2>1 DEF UseInv, OwnersClock, OwnersCopies
<1>7. Beaten' => Beaten /\ req'["sweep"] = req["sweep"] /\ c # "sweep"
  <2>1. c = "sweep" => ~ParkRead'
    BY <1>4 DEF ParkRead
  <2> QED
    BY <1>2, <1>4, <2>1 DEF Beaten, ParkRead, Callers
<1>8. Beaten' /\ Rises' => row'.clock # req["sweep"].seen.clock
  <2> SUFFICES ASSUME Beaten', Rises' PROVE row'.clock # req["sweep"].seen.clock
    OBVIOUS
  <2>1. CASE row.status # To(kind)
    BY <1>1, <1>2, <1>7, <2>1 DEF Rises, UseInv, ClockBeaten
  <2>2. CASE row.status = To(kind)
    <3>1. ~req[c].late
      BY <1>2, <2>2 DEF Beaten
    <3>2. kind \in Stops \cup {"resizeStart"}
      <4> SUFFICES ASSUME kind \in {"ownerStart", "wake"} PROVE FALSE
        BY <1>1 DEF Kinds, Starts
      <4>1. row'.status = "stopped"
        BY <1>1, <1>3, <2>2 DEF SeenBy
      <4>2. job = None
        BY <1>1 DEF FitInv, ReadsFit, CallsFit, ResizeKinds
      <4> QED
        BY <1>1, <4>1, <4>2 DEF Rises
    <3> QED
      BY <1>1, <1>3, <1>7, <2>2, <3>1, <3>2 DEF UseInv, CopiesBeaten
  <2> QED
    BY <2>1, <2>2
<1> QED
  BY <1>1, <1>2, <1>5, <1>6, <1>7, <1>8, SameEnding, UseStill

\* Every step of a request.
LEMMA PowerStepUses ==
  ASSUME LifeInv, UseInv, NEW c \in Callers, PowerStep(c), UNCHANGED lifeVars
  PROVE  UseInv'
<1>1. CASE Conflict(c) \/ Accepted(c)
  <2>1. /\ req[c] # None /\ \E answer : Answer(c, answer)
        /\ UNCHANGED <<row, settling, ownerUp, overwrote, ending, job>>
        /\ touched' => touched
        /\ c = "sweep" => req'["sweep"] = None
    BY <1>1 DEF Conflict, Accepted, Answer, historyVars, lifeVars, LifeInv, GoneInv, TypeInv, BoxTypeOK
  <2>2. req'[c] = None /\ \A d \in Callers : d # c => req'[d] = req[d]
    BY <2>1, AnswerFacts DEF LifeInv
  <2>3. FewerCalls
    BY <2>2 DEF FewerCalls, InFlight
  <2>4. Beaten' => Beaten /\ req'["sweep"] = req["sweep"]
    BY <2>1, <2>2 DEF Beaten, ParkRead, Callers
  <2>5. Rises' => Rises
    BY <2>1 DEF Rises
  <2> QED
    BY <2>1, <2>3, <2>4, <2>5, SameEnding, UseCalm
<1>2. CASE Refused(c)
  <2>1. /\ req[c] # None /\ req[c].pc = "sent" /\ req[c] \in Requests
        /\ UNCHANGED <<row, settling, ownerUp, overwrote, touched, ending, job>>
    BY <1>2, RequestType DEF Refused, historyVars, lifeVars, LifeInv, GoneInv, TypeInv
  <2>2. /\ req'[c] = [req[c] EXCEPT !.pc = "reverting"]
        /\ \A d \in Callers : d # c => req'[d] = req[d]
    BY <1>2 DEF Refused, LifeInv, GoneInv, TypeInv, BoxTypeOK
  <2>3. /\ req'[c].pc = "reverting" /\ req'[c].kind = req[c].kind
        /\ req'[c].seen = req[c].seen /\ req'[c].late = req[c].late
    BY <2>1, <2>2 DEF Requests
  <2>4. FewerCalls
    BY <2>1, <2>2, <2>3 DEF FewerCalls, InFlight
  <2>5. Beaten' => Beaten /\ req'["sweep"] = req["sweep"]
    BY <2>1, <2>2, <2>3 DEF Beaten, ParkRead, Callers
  <2>6. Rises' => Rises
    BY <2>1 DEF Rises
  <2> QED
    BY <2>1, <2>4, <2>5, <2>6, SameEnding, UseCalm
<1> QED
  BY <1>1, <1>2, MoveUses, RevertUses DEF PowerStep

\* Steps that leave every request and both histories as they are.
LEMMA QuietUses ==
  ASSUME UseInv, UNCHANGED <<req, ownerUp, touched, overwrote>>,
         row'.parked = row.parked, row'.auto => row.auto, row'.claimed => row.claimed,
         row'.clock = row.clock,
         settling' = settling \/ settling' = None,
         ending' = None \/ (ending # None /\ ending'.parked = ending.parked),
         Rises' => Rises
  PROVE  UseInv'
<1>1. FewerCalls
  BY DEF FewerCalls, InFlight
<1>2. Beaten' => Beaten
  BY DEF Beaten, ParkRead
<1> QED
  BY <1>1, <1>2, UseCalm

\* A use of a ready box: no call is in flight, and its clock is new.
LEMMA UsesOfReady ==
  ASSUME LifeInv, UseInv, row.status = "ready",
         row' = InUse(row) \/ (row' = [row EXCEPT !.clock = FreshClock] /\ UNCHANGED <<ownerUp, overwrote>>),
         UNCHANGED <<req, settling, ending>>
  PROVE  UseInv'
<1>1. row \in Rows /\ FreshClock \in Nat
  BY FreshClockType DEF LifeInv, GoneInv, TypeInv, BoxTypeOK
<1>2. row'.clock = FreshClock
  BY <1>1 DEF InUse, Rows
<1>3. \A c \in Callers : ~InFlight(c)'
  BY Quiet DEF LifeInv, CallsAnswered, InFlight
<1>4. ~row.claimed
  BY DEF LifeInv, FitInv, ClaimFits
<1>5. OwnersClock'
  <2>1. CASE row' = InUse(row)
    BY <1>1, <1>4, <2>1 DEF InUse, Rows, OwnersClock
  <2>2. CASE row' = [row EXCEPT !.clock = FreshClock] /\ UNCHANGED <<ownerUp, overwrote>>
    BY <1>1, <2>2 DEF Rows, UseInv, OwnersClock, Owned
  <2> QED
    BY <2>1, <2>2
<1>6. OwnersCopies' /\ CopiesBeaten'
  BY <1>3 DEF OwnersCopies, CopiesBeaten
<1>7. StampsFit'
  <2>1. settling # None => settling.status # "stopping"
    BY DEF LifeInv, FitInv, SettlesFit
  <2> QED
    BY <2>1 DEF UseInv, StampsFit
<1>8. EndsParked'
  BY DEF UseInv, EndsParked
<1>9. ClockBeaten'
  <2>1. Beaten' => req["sweep"] # None
    BY DEF Beaten, ParkRead
  <2> QED
    BY <1>2, <2>1, FreshClockIsNew DEF ClockBeaten, Callers
<1> QED
  BY <1>5, <1>6, <1>7, <1>8, <1>9 DEF UseInv

\* The sweep's settle, EC2, the agent and the box's users.
LEMMA WorldUses ==
  ASSUME LifeInv, UseInv, UNCHANGED lifeVars,
         SettleSweep \/ Ec2Stops \/ Ec2Glitch \/ AgentOnline \/ Activity \/ KeepRunning
  PROVE  UseInv'
<1> USE DEF LifeInv
<1>1. row \in Rows /\ FreshPark \in Nat /\ UNCHANGED <<ending, job>>
  BY FreshParkType DEF GoneInv, TypeInv, BoxTypeOK, lifeVars
<1>2. CASE Describe
  <2>1. /\ settling'.stamps = StampsPark /\ settling'.status = row.status
        /\ UNCHANGED <<row, req, ownerUp, touched, overwrote>>
    BY <1>2 DEF Describe, historyVars
  <2>2. StampsFit'
    BY <2>1 DEF StampsFit, StampsPark, UseInv, OwnersClock, Owned
  <2>3. /\ \A c \in Callers : InFlight(c)' <=> InFlight(c)
        /\ Owned' <=> Owned
        /\ Beaten' <=> Beaten
        /\ Rises' <=> Rises
    BY <1>1, <2>1 DEF InFlight, Owned, Beaten, ParkRead, Rises
  <2>4. OwnersClock' /\ OwnersCopies' /\ EndsParked'
    BY <1>1, <2>1, <2>3 DEF UseInv, OwnersClock, OwnersCopies, EndsParked
  <2>5. ClockBeaten' /\ CopiesBeaten'
    BY <1>1, <2>1, <2>3 DEF UseInv, ClockBeaten, CopiesBeaten
  <2> QED
    BY <2>2, <2>4, <2>5 DEF UseInv
<1>3. CASE Settle(FreshPark)
  <2>1. settling # None /\ settling' = None /\ UNCHANGED <<req, ownerUp, touched, overwrote>>
    BY <1>3 DEF Settle, historyVars
  <2>2. /\ row'.clock = row.clock /\ row'.claimed = row.claimed /\ (row'.auto => row.auto)
        /\ row'.parked # row.parked => settling.stamps
        /\ row'.status # row.status => row.status = settling.status
    BY <1>1, <1>3 DEF Settle, Rows
  <2>3. FewerCalls /\ (Beaten' => Beaten)
    BY <2>1 DEF FewerCalls, InFlight, Beaten, ParkRead
  <2>4. Owned' => Owned /\ row'.parked = 0 /\ ~row'.auto /\ ~row'.claimed
    BY <2>1, <2>2 DEF Owned, UseInv, OwnersClock, StampsFit
  <2>5. Rises' => Rises
    BY <1>1, <2>1, <2>2 DEF Rises, GoneInv, SettlesPassing
  <2>6. Beaten' /\ Rises' => row'.clock # req["sweep"].seen.clock
    BY <2>2, <2>3, <2>5 DEF UseInv, ClockBeaten
  <2> QED
    BY <1>1, <2>1, <2>3, <2>4, <2>6, SameEnding, UseStill
<1>4. CASE Ec2Stops \/ Ec2Glitch \/ AgentConnects
  <2>1. UNCHANGED <<row, req, settling, ownerUp, touched, overwrote>>
    BY <1>4 DEF Ec2Stops, Ec2Glitch, AgentConnects, historyVars
  <2>2. Rises' => Rises
    BY <1>1, <2>1 DEF Rises
  <2> QED
    BY <1>1, <2>1, <2>2, SameEnding, QuietUses
<1>5. CASE ConnectRecorded
  <2>1. UNCHANGED <<req, settling, ownerUp, touched, overwrote>>
    BY <1>5 DEF ConnectRecorded, historyVars
  <2>2. row'.parked = row.parked /\ (row'.auto => row.auto) /\ row'.clock = row.clock
    BY <1>1, <1>5 DEF ConnectRecorded, Rows
  <2>3. row'.claimed = row.claimed /\ (row'.status # row.status => row.status = "starting")
    BY <1>5, ConnectFacts
  <2>4. Rises' => Rises
    BY <1>1, <2>3 DEF Rises
  <2> QED
    BY <1>1, <2>1, <2>2, <2>3, <2>4, SameEnding, QuietUses
<1>6. CASE Activity \/ KeepRunning
  <2>1. /\ row.status = "ready" /\ UNCHANGED <<req, settling>>
        /\ \/ row' = InUse(row)
           \/ row' = [row EXCEPT !.clock = FreshClock] /\ UNCHANGED <<ownerUp, overwrote>>
    BY <1>6 DEF Activity, KeepRunning
  <2> QED
    BY <1>1, <2>1, UsesOfReady
<1> QED
  BY <1>2, <1>3, <1>4, <1>5, <1>6 DEF SettleSweep, AgentOnline

\* The lifecycle sweep.
LEMMA SweepUses ==
  ASSUME LifeInv, UseInv, Sweep
  PROVE  UseInv'
<1> USE DEF LifeInv
<1>1. row \in Rows /\ "sweep" \in Callers
  BY DEF GoneInv, TypeInv, BoxTypeOK, Callers
<1>2. CASE Park \/ StuckStart
  <2>1. PICK kind \in {"park", "stuckStop"} :
          Ask("sweep", kind) /\ (kind = "park" => touched' = FALSE) /\ (touched' => touched)
    BY <1>2 DEF Park, StuckStart, historyVars
  <2>2. UNCHANGED <<row, settling, ownerUp, overwrote, ending, job>> /\ kind \in Kinds
    BY <1>2 DEF Park, StuckStart, lifeVars, historyVars, Kinds, Stops
  <2>3. Rises' => Rises
    BY <2>2 DEF Rises
  <2> QED
    BY <1>1, <2>1, <2>2, <2>3, AskUses
<1>3. CASE TerminateDue
  <2>1. /\ UNCHANGED <<row, req, settling, ownerUp, touched, overwrote, job>>
        /\ ending'.parked # 0
    BY <1>3 DEF TerminateDue, powerVars, historyVars
  <2>2. /\ \A c \in Callers : InFlight(c)' <=> InFlight(c)
        /\ Owned' <=> Owned
        /\ Beaten' <=> Beaten
        /\ Rises' <=> Rises
    BY <2>1 DEF InFlight, Owned, Beaten, ParkRead, Rises
  <2>3. OwnersClock' /\ OwnersCopies' /\ StampsFit' /\ EndsParked'
    BY <2>1, <2>2 DEF UseInv, OwnersClock, OwnersCopies, StampsFit, EndsParked
  <2>4. ClockBeaten' /\ CopiesBeaten'
    BY <2>1, <2>2 DEF UseInv, ClockBeaten, CopiesBeaten
  <2> QED
    BY <2>3, <2>4 DEF UseInv
<1>4. CASE Claim
  <2>1. UNCHANGED <<req, settling, ownerUp, touched, overwrote, job>> /\ ending # None
    BY <1>4 DEF Claim, historyVars
  <2>2. /\ row'.status = row.status /\ row'.parked = row.parked /\ row'.auto = row.auto
        /\ row'.clock = row.clock
        /\ row'.claimed => row.claimed \/ row.parked = ending.parked
    BY <1>1, <1>4 DEF Claim, StillParked, Rows
  <2>3. ending' = None \/ ending'.parked = ending.parked
    BY <1>4 DEF Claim, GoneInv, TypeInv, BoxTypeOK
  <2>4. FewerCalls /\ (Beaten' => Beaten)
    BY <2>1 DEF FewerCalls, InFlight, Beaten, ParkRead
  <2>5. Owned' => Owned /\ row'.parked = 0 /\ ~row'.auto /\ ~row'.claimed
    BY <2>1, <2>2 DEF Owned, UseInv, OwnersClock, EndsParked
  <2>6. Beaten' /\ Rises' => row'.clock # req["sweep"].seen.clock
    BY <2>1, <2>2, <2>4 DEF UseInv, ClockBeaten, Rises
  <2> QED
    BY <2>1, <2>3, <2>4, <2>5, <2>6, UseStill
<1>5. CASE Terminate \/ TerminateFails \/ Release
  <2>1. /\ UNCHANGED <<req, settling, ownerUp, touched, overwrote, job>>
        /\ ending # None /\ (ending' = None \/ ending'.parked = ending.parked)
    BY <1>5 DEF Terminate, TerminateFails, Release, historyVars, GoneInv, TypeInv, BoxTypeOK
  <2>2. /\ row'.parked = row.parked /\ row'.auto = row.auto /\ row'.clock = row.clock
        /\ row'.claimed => row.claimed
        /\ row'.status # row.status => row'.status = "terminated"
    BY <1>1, <1>5 DEF Terminate, TerminateFails, Release, Released, Rows
  <2>3. Rises' => Rises
    BY <2>1, <2>2 DEF Rises
  <2> QED
    BY <2>1, <2>2, <2>3, QuietUses
<1> QED
  BY <1>2, <1>3, <1>4, <1>5 DEF Sweep

\* A resize begins with its owner's use, when it is its owner's.
LEMMA ResizeUses ==
  ASSUME LifeInv, UseInv, Resize
  PROVE  UseInv'
<1> USE DEF LifeInv
<1>1. CASE StartResize
  <2>1. /\ row.status \in {"ready", "stopped"} /\ job = None
        /\ job' = [pc |-> IF row.status = "ready" THEN "stop" ELSE "modify", after |-> row.status = "ready"]
        /\ UNCHANGED <<req, settling, ending>>
        /\ \/ row.status = "ready" /\ row' = InUse(row)
           \/ UNCHANGED <<row, ownerUp, touched, overwrote>>
    BY <1>1 DEF StartResize, historyVars
  <2>2. CASE row.status = "ready" /\ row' = InUse(row)
    BY <2>1, <2>2, UsesOfReady
  <2>3. CASE UNCHANGED <<row, ownerUp, touched, overwrote>>
    <3>1. Rises' => Rises
      BY <2>1, <2>3 DEF Rises
    <3> QED
      BY <2>1, <2>3, <3>1, SameEnding, QuietUses
  <2> QED
    BY <2>1, <2>2, <2>3
<1>2. ASSUME job # None, NEW step, Goto(step), UNCHANGED row
      PROVE  Rises' => Rises
  <2>1. job'.after = job.after
    BY <1>2 DEF Goto, GoneInv, TypeInv, BoxTypeOK
  <2> QED
    BY <1>2, <2>1 DEF Rises
<1>3. CASE ResizeAsks
  <2>1. PICK kind \in {"resizeStop", "resizeStart"} : Ask("resize", kind)
    BY <1>3 DEF ResizeAsks
  <2>2. UNCHANGED <<row, settling, ownerUp, touched, overwrote, ending>>
    BY <1>3 DEF ResizeAsks, historyVars
  <2>3. job # None /\ \E step : Goto(step)
    BY <1>3 DEF ResizeAsks, At
  <2>4. kind \in Kinds /\ "resize" \in Callers
    BY DEF Kinds, Starts, Stops, Callers
  <2>5. Rises' => Rises
    BY <1>2, <2>2, <2>3
  <2> QED
    BY <2>1, <2>2, <2>4, <2>5, AskUses
<1>4. CASE ResizeRefused \/ ResizeWaits \/ Modify
  <2>1. UNCHANGED <<row, req, settling, ownerUp, touched, overwrote, ending>>
    BY <1>4 DEF ResizeRefused, ResizeWaits, Modify, historyVars
  <2>2. job # None
    <3>1. CASE Modify
      BY <3>1 DEF Modify, At
    <3>2. CASE ResizeRefused \/ ResizeWaits
      BY <3>2, BoxAssumption, LifecycleAssumption
      DEF ResizeRefused, ResizeWaits, GoneInv, TypeInv, AwaitsAnswer, JobSteps
    <3> QED
      BY <1>4, <3>1, <3>2
  <2>3. \E step : Goto(step)
    BY <1>4 DEF ResizeRefused, ResizeWaits, Modify
  <2>4. Rises' => Rises
    BY <1>2, <2>1, <2>2, <2>3
  <2> QED
    BY <2>1, <2>4, SameEnding, QuietUses
<1>5. CASE FinishResize
  <2>1. UNCHANGED <<row, req, settling, ownerUp, touched, overwrote, ending>> /\ job' = None
    BY <1>5 DEF FinishResize, historyVars
  <2>2. Rises' => Rises
    BY <2>1 DEF Rises
  <2> QED
    BY <2>1, <2>2, SameEnding, QuietUses
<1> QED
  BY <1>1, <1>3, <1>4, <1>5 DEF Resize

\* The owner, the other callers and a restart.
LEMMA OthersUse ==
  ASSUME LifeInv, UseInv,
         (\E c \in Clients : ClientAsks(c)) \/ OwnerTerminate \/ Teardown \/ LockGoesStale \/ Restart
  PROVE  UseInv'
<1> USE DEF LifeInv
<1>1. row \in Rows
  BY DEF GoneInv, TypeInv, BoxTypeOK
<1>2. ASSUME NEW c \in Clients, ClientAsks(c) PROVE UseInv'
  <2>1. PICK kind \in {"ownerStart", "ownerStop", "wake"} : Ask(c, kind)
    BY <1>2 DEF ClientAsks
  <2>2. UNCHANGED <<row, settling, ownerUp, touched, overwrote, ending, job>>
    BY <1>2 DEF ClientAsks, historyVars, lifeVars
  <2>3. kind \in Kinds /\ c \in Callers /\ c # "sweep"
    BY BoxAssumption DEF Kinds, Starts, Stops, Callers
  <2>4. Rises' => Rises
    BY <2>2 DEF Rises
  <2> QED
    BY <2>1, <2>2, <2>3, <2>4, AskUses
<1>3. CASE OwnerTerminate \/ Teardown \/ LockGoesStale
  <2>1. UNCHANGED <<req, settling, ownerUp, touched, overwrote, ending, job>>
    BY <1>3 DEF OwnerTerminate, Teardown, LockGoesStale, historyVars, lifeVars
  <2>2. /\ row'.parked = row.parked /\ row'.auto = row.auto /\ row'.clock = row.clock
        /\ row'.claimed = row.claimed
        /\ row'.status # row.status => row'.status = "terminated"
    BY <1>1, <1>3 DEF OwnerTerminate, Teardown, LockGoesStale, Rows
  <2>3. Rises' => Rises
    BY <2>1, <2>2 DEF Rises
  <2> QED
    BY <2>1, <2>2, <2>3, SameEnding, QuietUses
<1>4. CASE Restart
  <2>1. /\ \A c \in Callers : req'[c] = None
        /\ settling' = None /\ ending' = None /\ job' = None
        /\ UNCHANGED <<row, ownerUp, touched, overwrote>>
    BY <1>4 DEF Restart, historyVars
  <2>2. FewerCalls /\ ~Beaten'
    BY <2>1 DEF FewerCalls, Beaten, ParkRead, Callers
  <2>3. Rises' => Rises
    BY <2>1 DEF Rises
  <2> QED
    BY <2>1, <2>2, <2>3, UseCalm
<1> QED
  BY <1>2, <1>3, <1>4

\* Every step.
LEMMA NextUses ==
  ASSUME LifeInv, UseInv, [BoxNext]_boxVars
  PROVE  UseInv'
<1>1. CASE UNCHANGED boxVars
  <2>1. UNCHANGED <<row, req, settling, ownerUp, touched, overwrote, ending, job>>
    BY <1>1 DEF boxVars, powerVars, historyVars
  <2>2. Rises' => Rises
    BY <2>1 DEF Rises
  <2> QED
    BY <2>1, <2>2, SameEnding, QuietUses
<1>2. CASE BoxNext
  BY <1>2, PowerStepUses, WorldUses, SweepUses, ResizeUses, OthersUse DEF BoxNext, Power
<1> QED
  BY <1>1, <1>2

\* The clocks are kept along with the life of the box.
LEMMA UseHolds ==
  ASSUME Timely, ~EndsInResize
  PROVE  BoxSpec => [](LifeInv /\ UseInv)
<1>1. BoxInit => LifeInv /\ UseInv
  BY InitGone, InitFit, InitUse DEF LifeInv
<1>2. LifeInv /\ UseInv /\ [BoxNext]_boxVars => (LifeInv /\ UseInv)'
  BY NextGone, NextFits, NextUses DEF LifeInv
<1> QED
  BY <1>1, <1>2, PTL DEF BoxSpec

\* Its owner's use of a box ends the terminate clock of a park: unless a
\* refused request has put an older row back, no box its owner has up is
\* parked or claimed for terminate.
THEOREM OwnersUseUnparksTheorem ==
  ASSUME Timely, ~EndsInResize
  PROVE  BoxSpec => []OwnersUseUnparks
<1>1. UseInv => OwnersUseUnparks
  BY DEF UseInv, OwnersClock, Owned, OwnersUseUnparks
<1> QED
  BY <1>1, UseHolds, PTL

\* A park that has read its box before a use never stops it: the use moved the
\* clock, and every way back to `ready` leaves it moved.
THEOREM UseBeatsParkTheorem ==
  ASSUME Timely, ~EndsInResize
  PROVE  BoxSpec => UseBeatsPark
<1>1. LifeInv /\ UseInv /\ [BoxNext]_boxVars =>
        [(Moves("sweep") /\ req["sweep"].kind = "park" /\ row' # row) => ~touched \/ overwrote]_boxVars
  <2> SUFFICES ASSUME LifeInv, UseInv, Moves("sweep"), req["sweep"].kind = "park", touched, ~overwrote
               PROVE  FALSE
    BY DEF LifeInv, GoneInv, TypeInv, BoxTypeOK
  <2>1. Beaten
    BY DEF Moves, Beaten, ParkRead
  <2>2. row.status = req["sweep"].seen.status /\ row.clock = req["sweep"].seen.clock
    BY DEF Moves, Unmoved
  <2>3. req["sweep"].seen.status = "ready"
    BY DEF LifeInv, FitInv, ReadsFit, Moves, SeenBy, Callers
  <2> QED
    BY <2>1, <2>2, <2>3 DEF UseInv, ClockBeaten, Rises
<1> QED
  BY <1>1, UseHolds, PTL DEF BoxSpec, UseBeatsPark
=============================================================================
