------------------------- MODULE BoxLifecycle_proofs -------------------------
(***************************************************************************)
(* Theorems about BoxLifecycle, for any number of clients and faults and   *)
(* any timing of EC2: the row and what hangs on it are well-typed, and a   *)
(* terminated box stays terminated as long as its owner does not terminate *)
(* it in the middle of a resize.                                           *)
(*                                                                         *)
(* The second rests on what each writer has read: a settle read a passing  *)
(* status, a connect a living one, a request none that is terminated - but *)
(* a resize's, which reads the row again and asks whatever it says.  While *)
(* one is at work only the lifecycle sweep terminates the box, after its   *)
(* claim, and the claim holds the resize's request off.                    *)
(***************************************************************************)
EXTENDS BoxLifecycle, FiniteSetTheorems, TLAPS

(***************************************************************************)
(* Stamps.                                                                 *)
(***************************************************************************)

\* There is a stamp that none of the copies in use has.
LEMMA FreshIsNew ==
  ASSUME NEW S, IsFiniteSet(S)
  PROVE  Fresh(S) \in Nat /\ Fresh(S) \notin S
<1> DEFINE k == Cardinality(S) + 1
<1>1. Cardinality(S) \in Nat /\ k \in Nat
  BY FS_CardinalityType
<1>2. \E n \in 1..k : n \notin S
  <2> SUFFICES ASSUME 1..k \subseteq S PROVE FALSE
    OBVIOUS
  <2>1. Cardinality(1..k) <= Cardinality(S)
    BY FS_Subset
  <2>2. Cardinality(1..k) = k
    BY <1>1, FS_Interval
  <2> QED
    BY <1>1, <2>1, <2>2
<1>3. Fresh(S) \in 1..k /\ Fresh(S) \notin S
  BY <1>2 DEF Fresh
<1> QED
  BY <1>1, <1>3

\* What a function takes on a finite set is a finite set.
LEMMA ImageFinite ==
  ASSUME NEW S, IsFiniteSet(S), NEW f, f = [x \in S |-> f[x]]
  PROVE  IsFiniteSet({f[x] : x \in S})
<1> DEFINE T == {f[x] : x \in S}
<1>1. f \in Surjection(S, T)
  BY DEF Surjection
<1> HIDE DEF T
<1>2. IsFiniteSet(T)
  BY <1>1, FS_Surjection
<1> QED
  BY <1>2 DEF T

\* The rows that requests have read are finitely many.
LEMMA CopiesFinite == IsFiniteSet(Copies)
<1> DEFINE C == {d \in Callers : req[d] # None}
           f == [c \in C |-> req[c].seen]
<1>1. IsFiniteSet(Callers)
  <2>1. IsFiniteSet({"sweep"}) /\ IsFiniteSet({"resize"})
    BY FS_Singleton
  <2>2. IsFiniteSet({"sweep"} \cup {"resize"})
    BY <2>1, FS_Union
  <2>3. IsFiniteSet(Clients \cup ({"sweep"} \cup {"resize"}))
    BY <2>2, BoxAssumption, FS_Union
  <2>4. Callers = Clients \cup ({"sweep"} \cup {"resize"})
    BY DEF Callers
  <2> QED
    BY <2>3, <2>4
<1>2. IsFiniteSet(C)
  BY <1>1, FS_Subset
<1> DEFINE T == {f[c] : c \in C}
<1>3. f = [c \in C |-> f[c]] /\ Copies = T
  BY DEF Copies
<1> HIDE DEF C, f
<1>4. IsFiniteSet(T)
  BY <1>2, <1>3, ImageFinite
<1> HIDE DEF T
<1> QED
  BY <1>3, <1>4

\* A new clock is a number.
LEMMA FreshClockType == FreshClock \in Nat
<1> DEFINE f == [r \in Copies |-> r.clock]
<1>1. IsFiniteSet({f[r] : r \in Copies})
  BY CopiesFinite, ImageFinite
<1>2. {r.clock : r \in Copies} = {f[r] : r \in Copies}
  OBVIOUS
<1>3. IsFiniteSet({r.clock : r \in Copies})
  BY <1>1, <1>2
<1> QED
  BY <1>3, FreshIsNew DEF FreshClock

\* A new park is a number.
LEMMA FreshParkType == FreshPark \in Nat
<1> DEFINE f == [r \in Copies |-> r.parked]
           E == {ending} \ {None}
           g == [e \in E |-> e.parked]
<1>1. IsFiniteSet({f[r] : r \in Copies})
  BY CopiesFinite, ImageFinite
<1>2. {r.parked : r \in Copies} = {f[r] : r \in Copies}
  OBVIOUS
<1>3. IsFiniteSet(E)
  BY FS_Singleton, FS_Subset
<1>4. IsFiniteSet({g[e] : e \in E})
  BY <1>3, ImageFinite
<1>5. {e.parked : e \in E} = {g[e] : e \in E}
  OBVIOUS
<1>6. IsFiniteSet({r.parked : r \in Copies} \cup {e.parked : e \in E})
  BY <1>1, <1>2, <1>4, <1>5, FS_Union
<1> QED
  BY <1>6, FreshIsNew DEF FreshPark

(***************************************************************************)
(* Types.                                                                  *)
(***************************************************************************)

Kinds == Starts \cup Stops

\* What a request writes is a row, as claimed as before; the status is its own.
LEMMA ColumnsType ==
  ASSUME NEW r \in Rows, NEW kind \in Kinds
  PROVE  /\ Columns(kind, r) \in Rows /\ Columns(kind, r).claimed = r.claimed
         /\ InUse(r) \in Rows /\ InUse(r).claimed = r.claimed /\ InUse(r).status = r.status
         /\ To(kind) \in {"starting", "stopping"}
  BY FreshClockType DEF Kinds, Starts, Stops, Columns, InUse, Rows, To

\* A caller's request, when it has one.
LEMMA RequestType ==
  ASSUME BoxTypeOK, NEW c \in Callers, req[c] # None
  PROVE  /\ req[c] \in Requests /\ req[c].kind \in Kinds /\ req[c].seen \in Rows
         /\ req[c].pc \in {"read", "sent", "reverting"} /\ req[c].late \in BOOLEAN
  BY DEF BoxTypeOK, Requests, Kinds

\* A request begun, answered or gone on with is a request.
LEMMA AskType ==
  ASSUME BoxTypeOK, NEW c \in Callers, NEW kind \in Kinds, Ask(c, kind)
  PROVE  req' \in [Callers -> Requests \cup {None}]
  BY DEF BoxTypeOK, Ask, Requests, Kinds

\* An answer to a request leaves the requests and what the resize was told
\* well-typed.
LEMMA AnswerType ==
  ASSUME BoxTypeOK, NEW c \in Callers, NEW answer \in {"ok", "refused", "conflict"},
         Answer(c, answer)
  PROVE  /\ req' \in [Callers -> Requests \cup {None}]
         /\ told' \in {"ok", "refused", "conflict", None}
  BY DEF BoxTypeOK, Answer

\* Everything that is not the power module's.
LifeType ==
  /\ ending \in [pc : {"due", "claimed", "failed"}, parked : Nat, stuck : BOOLEAN] \cup {None}
  /\ teardown \in BOOLEAN
  /\ job \in [pc : JobSteps, after : BOOLEAN] \cup {None}

\* The steps of a request.
LEMMA PowerStepType ==
  ASSUME BoxTypeOK, NEW c \in Callers, PowerStep(c), UNCHANGED lifeVars
  PROVE  BoxTypeOK'
<1>1. req[c] # None /\ req[c] \in Requests /\ req[c].kind \in Kinds /\ req[c].seen \in Rows
      /\ req[c].late \in BOOLEAN
  BY RequestType DEF PowerStep, Move, Moves, Conflict, Accepted, Refused, Revert
<1>2. LifeType'
  BY DEF BoxTypeOK, LifeType, lifeVars
<1>3. CASE Move(c)
  <2>1. row' \in Rows
    <3>1. Columns(req[c].kind, row) \in Rows /\ To(req[c].kind) \in Statuses
      BY <1>1, ColumnsType DEF BoxTypeOK, Statuses
    <3> HIDE DEF Columns, To
    <3> QED
      BY <1>3, <3>1 DEF Move, Rows
  <2>2. req' \in [Callers -> Requests \cup {None}]
    <3>1. [req[c] EXCEPT !.pc = "sent", !.late = (row # req[c].seen)] \in Requests
      BY <1>1 DEF Requests
    <3>2. req' = [req EXCEPT ![c] = [req[c] EXCEPT !.pc = "sent", !.late = (row # req[c].seen)]]
      BY <1>3 DEF Move, BoxTypeOK
    <3> QED
      BY <3>1, <3>2 DEF BoxTypeOK
  <2>3. ownerUp' \in BOOLEAN /\ touched' \in BOOLEAN /\ overwrote' \in BOOLEAN
    BY <1>3 DEF Move, BoxTypeOK
  <2> QED
    BY <1>2, <1>3, <2>1, <2>2, <2>3 DEF Move, BoxTypeOK, LifeType, agentVars
<1>4. CASE Conflict(c)
  <2>1. req' \in [Callers -> Requests \cup {None}] /\ told' \in {"ok", "refused", "conflict", None}
    BY <1>4, AnswerType DEF Conflict
  <2>2. touched' \in BOOLEAN
    BY <1>4 DEF Conflict, BoxTypeOK
  <2> QED
    BY <1>2, <1>4, <2>1, <2>2 DEF Conflict, BoxTypeOK, LifeType, agentVars
<1>5. CASE Accepted(c)
  <2>1. req' \in [Callers -> Requests \cup {None}] /\ told' \in {"ok", "refused", "conflict", None}
    BY <1>5, AnswerType DEF Accepted
  <2>2. ec2' \in {"running", "stopping", "stopped", "terminated"}
    BY <1>5 DEF Accepted, BoxTypeOK
  <2> QED
    BY <1>2, <1>5, <2>1, <2>2 DEF Accepted, BoxTypeOK, LifeType, agentVars, historyVars
<1>6. CASE Refused(c)
  <2>1. req' \in [Callers -> Requests \cup {None}]
    <3>1. [req[c] EXCEPT !.pc = "reverting"] \in Requests
      BY <1>1 DEF Requests
    <3> QED
      BY <1>6, <3>1 DEF Refused, BoxTypeOK
  <2>2. faults' \in 0..MaxFaults
    BY <1>6, BoxAssumption DEF Refused, BoxTypeOK
  <2> QED
    BY <1>2, <1>6, <2>1, <2>2 DEF Refused, BoxTypeOK, LifeType, agentVars, historyVars
<1>7. CASE Revert(c)
  <2>1. req' \in [Callers -> Requests \cup {None}] /\ told' \in {"ok", "refused", "conflict", None}
    BY <1>7, AnswerType DEF Revert
  <2>2. row' \in Rows
    BY <1>1, <1>7 DEF Revert, Reverted, BoxTypeOK, Rows
  <2>3. overwrote' \in BOOLEAN
    BY <1>1, <1>7 DEF Revert, BoxTypeOK
  <2>4. ownerUp' \in BOOLEAN
    BY <1>7 DEF Revert, BoxTypeOK
  <2> QED
    BY <1>2, <1>7, <2>1, <2>2, <2>3, <2>4 DEF Revert, BoxTypeOK, LifeType, agentVars
<1> QED
  BY <1>3, <1>4, <1>5, <1>6, <1>7 DEF PowerStep

\* The sweep's settle, EC2, the agent and the box's users.
LEMMA WorldType ==
  ASSUME BoxTypeOK, UNCHANGED lifeVars,
         SettleSweep \/ Ec2Stops \/ Ec2Glitch \/ AgentOnline \/ Activity \/ KeepRunning
  PROVE  BoxTypeOK'
<1>1. LifeType'
  BY DEF BoxTypeOK, LifeType, lifeVars
<1>2. CASE MayBegin /\ Describe
  <2>1. Settlement(row.status, ec2) # None => Settlement(row.status, ec2) \in Statuses
    BY DEF Settlement, Statuses
  <2>2. row.status \in Statuses /\ StampsPark \in BOOLEAN
    BY DEF BoxTypeOK, Rows, StampsPark
  <2>3. settling' \in [status : Statuses, to : Statuses, stamps : BOOLEAN]
    <3> HIDE DEF Settlement
    <3> QED
      BY <1>2, <2>1, <2>2 DEF Describe
  <2> QED
    BY <1>1, <1>2, <2>3 DEF Describe, BoxTypeOK, LifeType, agentVars, historyVars
<1>3. CASE Settle(FreshPark)
  <2>1. row' \in Rows
    BY <1>3, FreshParkType DEF Settle, BoxTypeOK, Rows
  <2> QED
    BY <1>1, <1>3, <2>1 DEF Settle, BoxTypeOK, LifeType, agentVars, historyVars
<1>4. CASE Ec2Stops
  BY <1>1, <1>4 DEF Ec2Stops, BoxTypeOK, LifeType, historyVars
<1>5. CASE Ec2Glitch
  <2>1. ec2' \in {"running", "stopping", "stopped", "terminated"} /\ online' \in BOOLEAN
    BY <1>5 DEF Ec2Glitch, BoxTypeOK
  <2>2. faults' \in 0..MaxFaults
    BY <1>5, BoxAssumption DEF Ec2Glitch, BoxTypeOK
  <2> QED
    BY <1>1, <1>5, <2>1, <2>2 DEF Ec2Glitch, BoxTypeOK, LifeType, historyVars
<1>6. CASE MayBegin /\ AgentConnects
  <2>1. connecting' \in [status : Statuses, stuck : BOOLEAN]
    BY <1>6 DEF AgentConnects, BoxTypeOK, Rows
  <2> QED
    BY <1>1, <1>6, <2>1 DEF AgentConnects, BoxTypeOK, LifeType, historyVars
<1>7. CASE ConnectRecorded
  <2>1. NextOnConnect(connecting.status) \in Statuses
    BY <1>7 DEF ConnectRecorded, NextOnConnect, BoxTypeOK, Statuses
  <2>2. row' \in Rows
    <3> HIDE DEF NextOnConnect
    <3> QED
      BY <1>7, <2>1 DEF ConnectRecorded, BoxTypeOK, Rows
  <2> QED
    BY <1>1, <1>7, <2>2 DEF ConnectRecorded, BoxTypeOK, LifeType, historyVars
<1>8. CASE Activity
  <2>1. row' \in Rows
    BY <1>8, FreshClockType DEF Activity, BoxTypeOK, Rows
  <2>2. touched' \in BOOLEAN
    BY <1>8 DEF Activity, BoxTypeOK, ParkRead
  <2> QED
    BY <1>1, <1>8, <2>1, <2>2 DEF Activity, BoxTypeOK, LifeType, agentVars
<1>9. CASE KeepRunning
  <2>1. row' \in Rows
    BY <1>9, FreshClockType DEF KeepRunning, InUse, BoxTypeOK, Rows
  <2>2. touched' \in BOOLEAN
    BY <1>9 DEF KeepRunning, BoxTypeOK, ParkRead
  <2>3. ownerUp' \in BOOLEAN /\ overwrote' \in BOOLEAN
    BY <1>9 DEF KeepRunning
  <2> QED
    BY <1>1, <1>9, <2>1, <2>2, <2>3 DEF KeepRunning, BoxTypeOK, LifeType, agentVars
<1> QED
  BY <1>2, <1>3, <1>4, <1>5, <1>6, <1>7, <1>8, <1>9 DEF SettleSweep, AgentOnline

\* Whoever asks, and the terminates.
LEMMA AskersType ==
  ASSUME BoxTypeOK,
         Sweep \/ (\E c \in Clients : ClientAsks(c)) \/ OwnerTerminate \/ Teardown
  PROVE  BoxTypeOK'
<1>1. ASSUME NEW c \in Clients, ClientAsks(c) PROVE BoxTypeOK'
  <2>1. req' \in [Callers -> Requests \cup {None}]
    BY <1>1, AskType DEF ClientAsks, Callers, Kinds, Starts, Stops
  <2> QED
    BY <1>1, <2>1 DEF ClientAsks, BoxTypeOK, agentVars, historyVars, lifeVars
<1>2. CASE OwnerTerminate
  BY <1>2 DEF OwnerTerminate, BoxTypeOK, Rows, Statuses, agentVars, historyVars
<1>3. CASE Park \/ StuckStart
  <2>1. req' \in [Callers -> Requests \cup {None}]
    BY <1>3, AskType DEF Park, StuckStart, Callers, Kinds, Starts, Stops
  <2>2. touched' \in BOOLEAN
    BY <1>3 DEF Park, StuckStart, BoxTypeOK, historyVars
  <2> QED
    BY <1>3, <2>1, <2>2 DEF Park, StuckStart, BoxTypeOK, agentVars, historyVars, lifeVars
<1>4. CASE TerminateDue
  <2>1. ending' \in [pc : {"due", "claimed", "failed"}, parked : Nat, stuck : BOOLEAN]
    BY <1>4 DEF TerminateDue, BoxTypeOK, Rows
  <2> QED
    BY <1>4, <2>1 DEF TerminateDue, BoxTypeOK, powerVars, agentVars, historyVars
<1>5. CASE Claim
  <2>1. row' \in Rows
    BY <1>5 DEF Claim, BoxTypeOK, Rows
  <2>2. ending' \in [pc : {"due", "claimed", "failed"}, parked : Nat, stuck : BOOLEAN] \cup {None}
    BY <1>5 DEF Claim, BoxTypeOK
  <2> QED
    BY <1>5, <2>1, <2>2 DEF Claim, BoxTypeOK, agentVars, historyVars
<1>6. CASE Terminate
  <2>1. row' \in Rows
    BY <1>6 DEF Terminate, BoxTypeOK, Rows, Statuses
  <2>2. teardown' \in BOOLEAN
    BY <1>6 DEF Terminate, BoxTypeOK
  <2> QED
    BY <1>6, <2>1, <2>2 DEF Terminate, BoxTypeOK, agentVars, historyVars
<1>7. CASE TerminateFails
  <2>1. ending' \in [pc : {"due", "claimed", "failed"}, parked : Nat, stuck : BOOLEAN]
    BY <1>7 DEF TerminateFails, BoxTypeOK
  <2>2. faults' \in 0..MaxFaults
    BY <1>7, BoxAssumption DEF TerminateFails, BoxTypeOK
  <2> QED
    BY <1>7, <2>1, <2>2 DEF TerminateFails, BoxTypeOK, agentVars, historyVars
<1>8. CASE Release
  <2>1. row' \in Rows
    BY <1>8 DEF Release, Released, BoxTypeOK, Rows
  <2> QED
    BY <1>8, <2>1 DEF Release, BoxTypeOK, agentVars, historyVars
<1>9. CASE Teardown
  <2>1. UNCHANGED <<row, req, told, lock, settling, connecting, faults, ownerUp, touched,
                    overwrote, ending, job>>
    BY <1>9 DEF Teardown, historyVars
  <2>2. ec2' = "terminated" /\ online' \in BOOLEAN /\ teardown' \in BOOLEAN
    BY <1>9 DEF Teardown
  <2> QED
    BY <2>1, <2>2 DEF BoxTypeOK
<1> QED
  BY <1>1, <1>2, <1>3, <1>4, <1>5, <1>6, <1>7, <1>8, <1>9 DEF Sweep

\* A resize has one request or its answer, and then it waits for it.
AwaitsAnswer ==
  /\ req["resize"] # None => told = None
  /\ req["resize"] # None \/ told # None =>
       job \in [pc : {"stopping", "starting", "backing"}, after : BOOLEAN]

\* A resize, its lock, and a restart.
LEMMA ResizeType ==
  ASSUME BoxTypeOK, AwaitsAnswer, Resize \/ LockGoesStale \/ Restart
  PROVE  BoxTypeOK'
<1>1. CASE StartResize
  <2>1. row' \in Rows
    <3>1. InUse(row) \in Rows
      BY FreshClockType DEF InUse, BoxTypeOK, Rows
    <3> QED
      BY <1>1, <3>1 DEF StartResize, BoxTypeOK
  <2>2. touched' \in BOOLEAN
    BY <1>1 DEF StartResize, BoxTypeOK, ParkRead, historyVars
  <2>3. ownerUp' \in BOOLEAN /\ overwrote' \in BOOLEAN
    BY <1>1 DEF StartResize, BoxTypeOK, historyVars
  <2>4. job' \in [pc : JobSteps, after : BOOLEAN]
    BY <1>1 DEF StartResize, BoxTypeOK, Rows, JobSteps
  <2> QED
    BY <1>1, <2>1, <2>2, <2>3, <2>4 DEF StartResize, BoxTypeOK, agentVars
<1>2. CASE ResizeAsks
  <2>1. req' \in [Callers -> Requests \cup {None}]
    BY <1>2, AskType DEF ResizeAsks, Callers, Kinds, Starts, Stops
  <2>2. job' \in [pc : JobSteps, after : BOOLEAN]
    BY <1>2 DEF ResizeAsks, At, Goto, BoxTypeOK, JobSteps
  <2> QED
    BY <1>2, <2>1, <2>2 DEF ResizeAsks, BoxTypeOK, agentVars, historyVars
<1>3. CASE ResizeRefused
  <2>1. job \in [pc : JobSteps, after : BOOLEAN] /\ AfterRefusal \subseteq JobSteps
    BY <1>3, BoxAssumption DEF ResizeRefused, BoxTypeOK, AwaitsAnswer, AfterRefusal, JobSteps
  <2>2. PICK step \in AfterRefusal : Goto(step)
    BY <1>3 DEF ResizeRefused
  <2>3. job' \in [pc : JobSteps, after : BOOLEAN]
    BY <2>1, <2>2 DEF Goto, BoxTypeOK
  <2> QED
    BY <1>3, <2>3 DEF ResizeRefused, BoxTypeOK, agentVars, historyVars
<1>4. CASE ResizeWaits
  <2>1. job \in [pc : JobSteps, after : BOOLEAN]
    BY <1>4, BoxAssumption DEF ResizeWaits, AwaitsAnswer, JobSteps
  <2>2. job' \in [pc : JobSteps, after : BOOLEAN]
    BY <1>4, <2>1 DEF ResizeWaits, Goto, JobSteps
  <2> QED
    BY <1>4, <2>2 DEF ResizeWaits, BoxTypeOK, agentVars, historyVars
<1>5. CASE Modify
  <2>1. job' \in [pc : JobSteps, after : BOOLEAN]
    BY <1>5 DEF Modify, At, Goto, BoxTypeOK, JobSteps
  <2>2. faults' \in 0..MaxFaults
    BY <1>5, BoxAssumption DEF Modify, BoxTypeOK
  <2> QED
    BY <1>5, <2>1, <2>2 DEF Modify, BoxTypeOK, agentVars, historyVars
<1>6. CASE FinishResize \/ LockGoesStale
  BY <1>6 DEF FinishResize, ClosedLock, LockGoesStale, BoxTypeOK, agentVars, historyVars, lifeVars
<1>7. CASE Restart
  <2>1. faults' \in 0..MaxFaults
    BY <1>7, BoxAssumption DEF Restart, BoxTypeOK
  <2>2. lock' \in {"free", "held", "orphan"}
    BY <1>7 DEF Restart, BoxTypeOK
  <2> QED
    BY <1>7, <2>1, <2>2 DEF Restart, BoxTypeOK, historyVars
<1> QED
  BY <1>1, <1>2, <1>3, <1>4, <1>5, <1>6, <1>7 DEF Resize

\* Who sets what a resize waits for.
LEMMA NextAwaits ==
  ASSUME BoxTypeOK, AwaitsAnswer, BoxNext
  PROVE  AwaitsAnswer'
<1> DEFINE W == {"stopping", "starting", "backing"}
<1>1. \A c \in Clients : c # "resize"
  BY BoxAssumption
<1>2. ASSUME NEW c \in Callers, PowerStep(c), UNCHANGED lifeVars PROVE AwaitsAnswer'
  <2>1. req[c] # None
    BY <1>2 DEF PowerStep, Move, Moves, Conflict, Accepted, Refused, Revert
  <2>2. CASE c = "resize"
    BY <1>2, <2>1, <2>2 DEF PowerStep, Move, Conflict, Accepted, Refused, Revert, Answer,
                            AwaitsAnswer, lifeVars, BoxTypeOK, Callers
  <2>3. CASE c # "resize"
    <3>1. req'["resize"] = req["resize"] /\ told' = told
      BY <1>2, <2>3 DEF PowerStep, Move, Conflict, Accepted, Refused, Revert, Answer,
                        BoxTypeOK, Callers
    <3> QED
      BY <1>2, <3>1 DEF AwaitsAnswer, lifeVars
  <2> QED
    BY <2>2, <2>3
<1>3. ASSUME SettleSweep \/ Ec2Stops \/ Ec2Glitch \/ AgentOnline \/ Activity \/ KeepRunning,
             UNCHANGED lifeVars
      PROVE  AwaitsAnswer'
  BY <1>3 DEF SettleSweep, Describe, Settle, Ec2Stops, Ec2Glitch, AgentOnline, AgentConnects,
              ConnectRecorded, Activity, KeepRunning, AwaitsAnswer, lifeVars
<1>4. ASSUME NEW c \in Callers, NEW kind, c # "resize", Ask(c, kind), UNCHANGED <<told, lifeVars>>
      PROVE  AwaitsAnswer'
  BY <1>4 DEF Ask, AwaitsAnswer, lifeVars, BoxTypeOK, Callers
<1>5. ASSUME NEW c \in Clients, ClientAsks(c) PROVE AwaitsAnswer'
  BY <1>1, <1>4, <1>5 DEF ClientAsks, Callers
<1>6. CASE Park \/ StuckStart
  BY <1>4, <1>6 DEF Park, StuckStart, Callers
<1>7. CASE TerminateDue \/ Claim \/ Terminate \/ TerminateFails \/ Release \/ OwnerTerminate
           \/ Teardown \/ LockGoesStale
  BY <1>7 DEF TerminateDue, Claim, Terminate, TerminateFails, Release, OwnerTerminate, Teardown,
              LockGoesStale, AwaitsAnswer, lifeVars, powerVars
<1>8. CASE StartResize
  <2>1. None \notin [pc : {"stopping", "starting", "backing"}, after : BOOLEAN]
    BY LifecycleAssumption DEF JobSteps
  <2> QED
    BY <1>8, <2>1 DEF StartResize, AwaitsAnswer
<1>9. CASE ResizeAsks
  <2>1. told = None /\ req["resize"] = None
    BY <1>9 DEF ResizeAsks, Ask, At, AwaitsAnswer
  <2>2. job' \in [pc : {"stopping", "starting", "backing"}, after : BOOLEAN]
    BY <1>9 DEF ResizeAsks, At, Goto, BoxTypeOK
  <2> QED
    BY <1>9, <2>1, <2>2 DEF ResizeAsks, AwaitsAnswer
<1>10. CASE ResizeRefused \/ ResizeWaits
  BY <1>10, BoxAssumption DEF ResizeRefused, ResizeWaits, AwaitsAnswer
<1>11. CASE Modify \/ FinishResize
  BY <1>11 DEF Modify, FinishResize, At, AwaitsAnswer
<1>12. CASE Restart
  BY <1>12 DEF Restart, AwaitsAnswer, Callers
<1> QED
  BY <1>2, <1>3, <1>5, <1>6, <1>7, <1>8, <1>9, <1>10, <1>11, <1>12
  DEF BoxNext, Power, Sweep, Resize

TypeInv == BoxTypeOK /\ AwaitsAnswer

\* The box its owner set up has the types.
LEMMA InitType == BoxInit => TypeInv
<1> SUFFICES ASSUME BoxInit PROVE TypeInv
  OBVIOUS
<1>1. row \in Rows
  BY DEF BoxInit, Rows, Statuses
<1>2. req \in [Callers -> Requests \cup {None}] /\ req["resize"] = None
  BY DEF BoxInit, Callers
<1>3. faults \in 0..MaxFaults
  BY BoxAssumption DEF BoxInit
<1>4. BoxTypeOK
  BY <1>1, <1>2, <1>3 DEF BoxInit, BoxTypeOK
<1> QED
  BY <1>2, <1>4 DEF BoxInit, TypeInv, AwaitsAnswer

\* Every step.
LEMMA NextType ==
  ASSUME TypeInv, [BoxNext]_boxVars
  PROVE  TypeInv'
<1>1. CASE BoxNext
  BY <1>1, PowerStepType, WorldType, AskersType, ResizeType, NextAwaits
  DEF TypeInv, BoxNext, Power, Sweep, Resize
<1>2. CASE UNCHANGED boxVars
  BY <1>2 DEF boxVars, powerVars, lifeVars, agentVars, historyVars, TypeInv, BoxTypeOK, AwaitsAnswer
<1> QED
  BY <1>1, <1>2

\* The types, in every state.
LEMMA TypeHolds == BoxSpec => []TypeInv
  BY InitType, NextType, PTL DEF BoxSpec

\* The row, the requests and everything else the box's parts keep have their types.
THEOREM BoxTypeCorrect == BoxSpec => []BoxTypeOK
  BY TypeHolds, PTL DEF TypeInv

(***************************************************************************)
(* A terminated box stays terminated.                                      *)
(***************************************************************************)

\* What the sweep's claim promises its terminate and its release.
EndingIsClaimed == ending # None /\ ending.pc \in {"claimed", "failed"} => row.claimed

\* Only a resize asks for a box whatever the row says, and it is not answered.
SeenLiving ==
  \A c \in Callers : req[c] # None /\ req[c].seen.status = "terminated" =>
    c = "resize" /\ req[c].pc = "read"

SettlesPassing ==
  settling # None => settling.status \in {"stopping", "starting"} /\ settling.to # "terminated"

ConnectsLiving == connecting # None => connecting.status # "terminated"

\* A box terminated under a resize was terminated by the sweep.
GoneIsClaimed == row.status = "terminated" /\ job # None => row.claimed

GoneInv ==
  TypeInv /\ EndingIsClaimed /\ SeenLiving /\ SettlesPassing /\ ConnectsLiving /\ GoneIsClaimed

\* Most steps neither claim nor release the box, nor end it or bring it back.
KeepsEnd ==
  row'.claimed = row.claimed /\ (row'.status = "terminated" <=> row.status = "terminated")

\* No request moves a terminated box: one that read it terminated is a
\* resize's, and the box is claimed.
LEMMA PowerKeepsEnd ==
  ASSUME GoneInv, NEW c \in Callers, PowerStep(c), UNCHANGED lifeVars
  PROVE  KeepsEnd /\ SeenLiving'
<1> USE DEF GoneInv, TypeInv
<1>1. req[c] # None /\ req[c].kind \in Kinds /\ req[c].seen \in Rows /\ row \in Rows
  BY RequestType DEF PowerStep, Move, Moves, Conflict, Accepted, Refused, Revert, BoxTypeOK
<1>2. CASE Move(c)
  <2>1. Columns(req[c].kind, row) \in Rows /\ Columns(req[c].kind, row).claimed = row.claimed
        /\ To(req[c].kind) \in {"starting", "stopping"}
    BY <1>1, ColumnsType
  <2>2. row'.claimed = row.claimed /\ row'.status # "terminated"
    <3> HIDE DEF Columns, To
    <3> QED
      BY <1>2, <2>1 DEF Move, Rows
  <2>3. ~row.claimed /\ row.status = req[c].seen.status
    BY <1>2 DEF Move, Moves, Unmoved
  <2>4. req[c].seen.status # "terminated"
    <3> SUFFICES ASSUME req[c].seen.status = "terminated" PROVE FALSE
      OBVIOUS
    <3>1. c = "resize"
      BY <1>1 DEF SeenLiving
    <3>2. job # None
      BY <1>1, <3>1, LifecycleAssumption DEF AwaitsAnswer, JobSteps
    <3> QED
      BY <2>3, <3>2 DEF GoneIsClaimed
  <2>5. req' = [req EXCEPT ![c] = [req[c] EXCEPT !.pc = "sent", !.late = (row # req[c].seen)]]
    BY <1>2 DEF Move, BoxTypeOK
  <2>6. req'[c].seen = req[c].seen /\ \A d \in Callers : d # c => req'[d] = req[d]
    BY <2>5, <1>1, RequestType DEF BoxTypeOK, Requests
  <2> QED
    BY <2>2, <2>3, <2>4, <2>6 DEF KeepsEnd, SeenLiving
<1>3. CASE Conflict(c) \/ Accepted(c)
  BY <1>3 DEF Conflict, Accepted, Answer, KeepsEnd, SeenLiving, BoxTypeOK
<1>4. CASE Refused(c)
  <2>1. req'[c].seen = req[c].seen /\ \A d \in Callers : d # c => req'[d] = req[d]
    BY <1>1, <1>4, RequestType DEF Refused, BoxTypeOK, Requests
  <2>2. req[c].seen.status # "terminated"
    BY <1>4 DEF Refused, SeenLiving
  <2> QED
    BY <1>4, <2>1, <2>2 DEF Refused, KeepsEnd, SeenLiving
<1>5. CASE Revert(c)
  <2>1. req[c].seen.status # "terminated"
    BY <1>5 DEF Revert, SeenLiving
  <2>2. KeepsEnd
    BY <1>1, <1>5, <2>1, ColumnsType DEF Revert, Reverted, PutsBack, KeepsEnd, Rows
  <2> QED
    BY <1>5, <2>2 DEF Revert, Answer, SeenLiving, BoxTypeOK
<1> QED
  BY <1>2, <1>3, <1>4, <1>5 DEF PowerStep

\* Nor does a settle, a connect or a use: each has read a living box, and
\* writes only what it has read.
LEMMA WorldKeepsEnd ==
  ASSUME GoneInv, UNCHANGED lifeVars,
         SettleSweep \/ Ec2Stops \/ Ec2Glitch \/ AgentOnline \/ Activity \/ KeepRunning
  PROVE  KeepsEnd /\ UNCHANGED req /\ SettlesPassing' /\ ConnectsLiving'
<1> USE DEF GoneInv, TypeInv
<1>1. row \in Rows
  BY DEF BoxTypeOK
<1>2. CASE MayBegin /\ Describe
  BY <1>2 DEF Describe, Settlement, agentVars, SettlesPassing, ConnectsLiving, KeepsEnd
<1>3. CASE Settle(FreshPark)
  BY <1>1, <1>3 DEF Settle, Rows, agentVars, SettlesPassing, ConnectsLiving, KeepsEnd
<1>4. CASE Ec2Stops \/ Ec2Glitch
  BY <1>4 DEF Ec2Stops, Ec2Glitch, SettlesPassing, ConnectsLiving, KeepsEnd
<1>5. CASE MayBegin /\ AgentConnects
  BY <1>5 DEF AgentConnects, SettlesPassing, ConnectsLiving, KeepsEnd
<1>6. CASE ConnectRecorded
  <2>1. connecting.status # "terminated"
    BY <1>6 DEF ConnectRecorded, ConnectsLiving
  <2>2. NextOnConnect(connecting.status) # "terminated"
    BY <2>1 DEF NextOnConnect
  <2>3. KeepsEnd
    <3> HIDE DEF NextOnConnect
    <3> QED
      BY <1>1, <1>6, <2>1, <2>2 DEF ConnectRecorded, RecordsConnect, Rows, KeepsEnd
  <2> QED
    BY <1>6, <2>3 DEF ConnectRecorded, SettlesPassing, ConnectsLiving
<1>7. CASE Activity \/ KeepRunning
  BY <1>1, <1>7 DEF Activity, KeepRunning, InUse, Rows, agentVars, SettlesPassing, ConnectsLiving, KeepsEnd
<1> QED
  BY <1>2, <1>3, <1>4, <1>5, <1>6, <1>7 DEF SettleSweep, AgentOnline

\* The lifecycle sweep ends a box it has claimed, and brings none back.
LEMMA SweepGone ==
  ASSUME GoneInv, Sweep
  PROVE  GoneInv' /\ (row.status = "terminated" => row'.status = "terminated")
<1> USE DEF GoneInv
<1>1. TypeInv' /\ row \in Rows
  BY NextType DEF BoxNext, TypeInv, BoxTypeOK
<1>2. CASE Park \/ StuckStart
  <2>1. PICK kind \in Kinds : Ask("sweep", kind)
    BY <1>2 DEF Park, StuckStart, Kinds, Starts, Stops
  <2>2. row.status # "terminated" /\ row' = row
    BY <1>2 DEF Park, StuckStart
  <2>3. SeenLiving'
    BY <2>1, <2>2 DEF Ask, SeenLiving, TypeInv, BoxTypeOK
  <2> QED
    BY <1>1, <1>2, <2>2, <2>3 DEF Park, StuckStart, lifeVars, agentVars,
       EndingIsClaimed, SettlesPassing, ConnectsLiving, GoneIsClaimed
<1>3. CASE TerminateDue
  BY <1>1, <1>3 DEF TerminateDue, powerVars, agentVars, EndingIsClaimed, SeenLiving,
     SettlesPassing, ConnectsLiving, GoneIsClaimed
<1>4. CASE Claim
  <2>1. row'.status = row.status /\ (row.claimed => row'.claimed)
    BY <1>1, <1>4 DEF Claim, Rows
  <2>2. EndingIsClaimed'
    BY <1>1, <1>4 DEF Claim, EndingIsClaimed, Rows
  <2> QED
    BY <1>1, <1>4, <2>1, <2>2 DEF Claim, agentVars, SeenLiving, SettlesPassing, ConnectsLiving,
       GoneIsClaimed
<1>5. CASE Terminate
  <2>1. row'.status = "terminated" /\ row'.claimed
    BY <1>1, <1>5 DEF Terminate, EndingIsClaimed, Rows
  <2> QED
    BY <1>1, <1>5, <2>1 DEF Terminate, agentVars, EndingIsClaimed, SeenLiving, SettlesPassing,
       ConnectsLiving, GoneIsClaimed
<1>6. CASE TerminateFails
  BY <1>1, <1>6 DEF TerminateFails, agentVars, EndingIsClaimed, SeenLiving, SettlesPassing,
     ConnectsLiving, GoneIsClaimed
<1>7. CASE Release
  <2>1. row'.status = row.status /\ (row.status = "terminated" => row' = row)
    BY <1>1, <1>7 DEF Release, Released, Rows
  <2> QED
    BY <1>1, <1>7, <2>1 DEF Release, agentVars, EndingIsClaimed, SeenLiving, SettlesPassing,
       ConnectsLiving, GoneIsClaimed
<1> QED
  BY <1>2, <1>3, <1>4, <1>5, <1>6, <1>7 DEF Sweep

\* A resize begins with a living box and writes no status; its requests alone
\* may read a terminated one.
LEMMA ResizeGone ==
  ASSUME GoneInv, Resize
  PROVE  GoneInv' /\ (row.status = "terminated" => row'.status = "terminated")
<1> USE DEF GoneInv
<1>1. TypeInv' /\ row \in Rows
  BY NextType DEF BoxNext, TypeInv, BoxTypeOK
<1>2. CASE StartResize
  <2>1. row'.status = row.status /\ row'.claimed = row.claimed /\ row.status # "terminated"
    <3>1. InUse(row).status = row.status /\ InUse(row).claimed = row.claimed
      BY <1>1 DEF InUse, Rows
    <3> QED
      BY <1>2, <3>1 DEF StartResize
  <2> QED
    BY <1>1, <1>2, <2>1 DEF StartResize, agentVars, EndingIsClaimed, SeenLiving, SettlesPassing,
       ConnectsLiving, GoneIsClaimed
<1>3. CASE ResizeAsks
  <2>1. PICK kind \in Kinds : Ask("resize", kind)
    BY <1>3 DEF ResizeAsks, Kinds, Starts, Stops
  <2>2. job # None /\ UNCHANGED <<row, ending, settling, connecting>>
    BY <1>3 DEF ResizeAsks, At, agentVars
  <2>3. SeenLiving'
    BY <2>1, <2>2 DEF Ask, SeenLiving, TypeInv, BoxTypeOK
  <2> QED
    BY <1>1, <2>2, <2>3 DEF EndingIsClaimed, SettlesPassing, ConnectsLiving, GoneIsClaimed
<1>4. CASE ResizeRefused \/ ResizeWaits \/ Modify
  <2>1. UNCHANGED <<row, ending, settling, connecting, req>>
    BY <1>4 DEF ResizeRefused, ResizeWaits, Modify, agentVars
  <2>2. job # None
    <3>1. CASE Modify
      BY <3>1 DEF Modify, At
    <3>2. CASE told # None
      BY <3>2, LifecycleAssumption DEF TypeInv, AwaitsAnswer, JobSteps
    <3> QED
      BY <1>4, <3>1, <3>2, BoxAssumption DEF ResizeRefused, ResizeWaits
  <2> QED
    BY <1>1, <2>1, <2>2 DEF EndingIsClaimed, SeenLiving, SettlesPassing, ConnectsLiving, GoneIsClaimed
<1>5. CASE FinishResize
  BY <1>1, <1>5 DEF FinishResize, agentVars, EndingIsClaimed, SeenLiving, SettlesPassing,
     ConnectsLiving, GoneIsClaimed
<1> QED
  BY <1>2, <1>3, <1>4, <1>5 DEF Resize

\* The owner and the other callers, a lost teardown and a restart.
LEMMA OthersGone ==
  ASSUME ~EndsInResize, GoneInv,
         (\E c \in Clients : ClientAsks(c)) \/ OwnerTerminate \/ Teardown \/ LockGoesStale \/ Restart
  PROVE  GoneInv' /\ (row.status = "terminated" => row'.status = "terminated")
<1> USE DEF GoneInv
<1>1. TypeInv' /\ row \in Rows
  BY NextType DEF BoxNext, TypeInv, BoxTypeOK
<1>2. ASSUME NEW c \in Clients, ClientAsks(c)
      PROVE  GoneInv' /\ (row.status = "terminated" => row'.status = "terminated")
  <2>1. PICK kind \in {"ownerStart", "ownerStop", "wake"} : MayAsk(kind) /\ Ask(c, kind)
    BY <1>2 DEF ClientAsks
  <2>2. row.status # "terminated" /\ row' = row
    BY <1>2, <2>1 DEF ClientAsks, MayAsk
  <2>3. SeenLiving'
    BY <2>1, <2>2 DEF Ask, SeenLiving, TypeInv, BoxTypeOK, Callers
  <2> QED
    BY <1>1, <1>2, <2>2, <2>3 DEF ClientAsks, lifeVars, agentVars,
       EndingIsClaimed, SettlesPassing, ConnectsLiving, GoneIsClaimed
<1>3. CASE OwnerTerminate
  <2>1. job' = None /\ row'.claimed = row.claimed
    BY <1>1, <1>3 DEF OwnerTerminate, Rows
  <2> QED
    BY <1>1, <1>3, <2>1 DEF OwnerTerminate, agentVars, EndingIsClaimed, SeenLiving, SettlesPassing,
       ConnectsLiving, GoneIsClaimed
<1>4. CASE Teardown \/ LockGoesStale
  <2>1. UNCHANGED <<row, req, settling, connecting, ending, job>>
    BY <1>4 DEF Teardown, LockGoesStale, agentVars, lifeVars
  <2> QED
    BY <1>1, <2>1 DEF EndingIsClaimed, SeenLiving, SettlesPassing, ConnectsLiving, GoneIsClaimed
<1>5. CASE Restart
  BY <1>1, <1>5 DEF Restart, EndingIsClaimed, SeenLiving, SettlesPassing, ConnectsLiving, GoneIsClaimed
<1> QED
  BY <1>2, <1>3, <1>4, <1>5

\* A power request, a settle, a connect or a use.
LEMMA PowerGone ==
  ASSUME GoneInv, Power
  PROVE  GoneInv' /\ (row.status = "terminated" => row'.status = "terminated")
<1>1. TypeInv'
  BY NextType DEF BoxNext, GoneInv
<1>2. UNCHANGED lifeVars
  BY DEF Power
<1>3. CASE \E c \in Callers : PowerStep(c)
  <2>1. PICK c \in Callers : PowerStep(c)
    BY <1>3
  <2>2. KeepsEnd /\ SeenLiving'
    BY <1>2, <2>1, PowerKeepsEnd
  <2>3. UNCHANGED <<settling, connecting>>
    BY <2>1 DEF PowerStep, Move, Conflict, Accepted, Refused, Revert, agentVars
  <2> QED
    BY <1>1, <1>2, <2>2, <2>3 DEF KeepsEnd, GoneInv, lifeVars, EndingIsClaimed, SettlesPassing,
       ConnectsLiving, GoneIsClaimed
<1>4. CASE SettleSweep \/ Ec2Stops \/ Ec2Glitch \/ AgentOnline \/ Activity \/ KeepRunning
  <2>1. KeepsEnd /\ UNCHANGED req /\ SettlesPassing' /\ ConnectsLiving'
    BY <1>2, <1>4, WorldKeepsEnd
  <2> QED
    BY <1>1, <1>2, <2>1 DEF KeepsEnd, GoneInv, lifeVars, EndingIsClaimed, SeenLiving, GoneIsClaimed
<1> QED
  BY <1>3, <1>4 DEF Power

\* Every step.
LEMMA NextGone ==
  ASSUME ~EndsInResize, GoneInv, [BoxNext]_boxVars
  PROVE  GoneInv' /\ (row.status = "terminated" => row'.status = "terminated")
<1>1. CASE BoxNext
  BY <1>1, PowerGone, SweepGone, ResizeGone, OthersGone DEF BoxNext
<1>2. CASE UNCHANGED boxVars
  <2>1. TypeInv'
    BY NextType DEF GoneInv
  <2> QED
    BY <1>2, <2>1 DEF boxVars, powerVars, agentVars, GoneInv, EndingIsClaimed, SeenLiving,
       SettlesPassing, ConnectsLiving, GoneIsClaimed
<1> QED
  BY <1>1, <1>2

\* In the beginning no box is gone and nothing is under way.
LEMMA InitGone == BoxInit => GoneInv
<1> SUFFICES ASSUME BoxInit PROVE GoneInv
  OBVIOUS
<1>1. TypeInv
  BY InitType
<1> QED
  BY <1>1 DEF BoxInit, GoneInv, EndingIsClaimed, SeenLiving, SettlesPassing, ConnectsLiving,
     GoneIsClaimed

\* Nothing brings a terminated box back, as long as its owner does not
\* terminate it in the middle of a resize.
THEOREM TerminatedStaysTheorem ==
  ASSUME ~EndsInResize
  PROVE  BoxSpec => TerminatedStays
<1>1. BoxInit => GoneInv
  BY InitGone
<1>2. GoneInv /\ [BoxNext]_boxVars =>
        GoneInv' /\ (row.status = "terminated" => row'.status = "terminated")
  BY NextGone
<1>3. GoneInv /\ [BoxNext]_boxVars =>
        [row.status = "terminated" => row'.status = "terminated"]_boxVars
  BY <1>2
<1> QED
  BY <1>1, <1>2, <1>3, PTL DEF BoxSpec, TerminatedStays
=============================================================================
