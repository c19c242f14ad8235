---------------------------- MODULE Takeover_proofs ----------------------------
(***************************************************************************)
(* Theorems about Takeover, for any number of processes and any timing:    *)
(* the composition is a lease, its variables are well-typed, a serving     *)
(* process keeps its sockets, and a draining one closes agents before      *)
(* browsers.                                                               *)
(*                                                                         *)
(* The last two need to know which timer can be pending when: a close is   *)
(* pending only while the process drains (serve() cancels it in the step   *)
(* that changes the role), and once the browsers' close is pending no      *)
(* agent is left, since a draining process takes no connection.            *)
(*                                                                         *)
(* The second half is about the margin of the re-read: with the hypothesis *)
(* MarginCovers, the others are gone before the holder re-reads.           *)
(***************************************************************************)
EXTENDS Takeover, OrchestratorLease_proofs

ClosesWhileDraining == \A p \in Process : closing[p] # "none" => role[p] = "draining"
BrowsersLast == \A p \in Process : closing[p] = "browsers" => "agents" \notin open[p]

TInv == TypeOK /\ TakeoverTypeOK /\ ClosesWhileDraining /\ BrowsersLast

(***************************************************************************)
(* The composition is a lease.                                             *)
(***************************************************************************)

\* Every step of the composition is a step of the lease or leaves it alone.
LEMMA StepIsLeaseStep == [TakeoverNext]_takeoverVars => [Next]_vars
<1> SUFFICES ASSUME [TakeoverNext]_takeoverVars PROVE [Next]_vars
  OBVIOUS
<1>1. CASE LeaseStep
  BY <1>1 DEF LeaseStep, LeaseTick, LeaseStatement, Next
<1>2. ASSUME NEW p \in Process, NEW kind \in Kinds, Connect(p, kind) PROVE UNCHANGED vars
  BY <1>2 DEF Connect
<1>3. ASSUME NEW p \in Process, StatusWrite(p) \/ Timers(p) PROVE UNCHANGED vars
  BY <1>3 DEF StatusWrite, Timers, CloseSockets, Reread, Rehydrated
<1>4. CASE TakeoverAdvance
  BY <1>4 DEF TakeoverAdvance, Next
<1>5. CASE UNCHANGED takeoverVars
  BY <1>5 DEF takeoverVars
<1> QED
  BY <1>1, <1>2, <1>3, <1>4, <1>5 DEF TakeoverNext

\* With drain, sockets and status timers around it the lease is still the
\* lease: every behaviour of Takeover is one of OrchestratorLease, and what is
\* proved of that one holds here.
THEOREM ImplementsLease == TakeoverSpec => Spec
<1>1. TakeoverInit => Init
  BY DEF TakeoverInit
<1> QED
  BY <1>1, StepIsLeaseStep, PTL DEF TakeoverSpec, Spec

\* The types of the lease's variables, in the composition.
LEMMA LeaseTypes == TakeoverSpec => []TypeOK
  BY ImplementsLease, TypeCorrect, PTL

(***************************************************************************)
(* The inductive invariant.                                                *)
(***************************************************************************)

\* It holds before any process starts: no timer is pending and no socket open.
LEMMA InitTInv == TakeoverInit => TInv
<1> SUFFICES ASSUME TakeoverInit PROVE TInv
  OBVIOUS
<1>1. TypeOK
  BY InitIInv DEF TakeoverInit, IInv
<1>2. TakeoverTypeOK
  BY LeaseAssumption, TakeoverAssumption
  DEF TakeoverInit, TakeoverTypeOK, RereadDelay, CloseDelay, Kinds
<1>3. ClosesWhileDraining /\ BrowsersLast
  BY DEF TakeoverInit, ClosesWhileDraining, BrowsersLast
<1> QED
  BY <1>1, <1>2, <1>3 DEF TInv

\* A step of the lease, whatever it does to the roles, takes the timers along.
LEMMA RoleFollowsTInv ==
  ASSUME TInv, TypeOK', RoleFollows
  PROVE  TInv'
<1>1. TakeoverTypeOK'
  <2>1. open' \in [Process -> SUBSET Kinds] /\ closing' \in [Process -> Kinds \cup {"none"}]
    BY DEF TInv, TakeoverTypeOK, RoleFollows, DrainFollows, Kinds
  <2>2. ASSUME NEW p \in Process
        PROVE  closeAge'[p] <= IF closing'[p] = "none" THEN 0
                               ELSE CloseDelay(closing'[p]) + MaxLate
    <3>1. CASE Ends(p) \/ StartsServing(p) \/ StopsServing(p)
      BY <3>1, LeaseAssumption, TakeoverAssumption
      DEF RoleFollows, DrainFollows, CloseDelay
    <3>2. CASE ~(Ends(p) \/ StartsServing(p) \/ StopsServing(p))
      BY <3>2 DEF TInv, TakeoverTypeOK, RoleFollows, DrainFollows
    <3> QED
      BY <3>1, <3>2
  <2>3. suspended' \in [Process -> BOOLEAN]
    BY DEF TInv, TakeoverTypeOK, RoleFollows, RereadFollows, StartsServing, StopsServing, Ends
  <2>4. reread' \in [Process -> {"none", "pending", "running"}]
    BY DEF TInv, TakeoverTypeOK, RoleFollows, RereadFollows
  <2>5. rereadAge' \in [Process -> 0..(RereadDelay + MaxLate)]
    BY LeaseAssumption, TakeoverAssumption
    DEF TInv, TakeoverTypeOK, RoleFollows, RereadFollows, RereadDelay
  <2>6. table' \in 0..MaxWrites /\ known' \in [Process -> 0..MaxWrites]
    BY DEF TInv, TakeoverTypeOK, RoleFollows, Hydrated
  <2>7. closeAge' \in [Process -> Nat]
    BY DEF TInv, TakeoverTypeOK, RoleFollows, DrainFollows
  <2> QED
    BY <2>1, <2>2, <2>3, <2>4, <2>5, <2>6, <2>7 DEF TakeoverTypeOK, CloseDelay, RereadDelay
<1>2. ClosesWhileDraining'
  BY DEF TInv, TypeOK, TakeoverTypeOK, ClosesWhileDraining, RoleFollows, DrainFollows,
         StartsServing, StopsServing
<1>3. BrowsersLast'
  BY DEF TInv, TakeoverTypeOK, BrowsersLast, RoleFollows, DrainFollows
<1> QED
  BY <1>1, <1>2, <1>3 DEF TInv

\* Sockets: a connection reaches a process that serves, so no close is pending;
\* the timers close agents first.
LEMMA SocketsTInv ==
  ASSUME TInv, TypeOK', NEW p \in Process,
         (\E kind \in Kinds : Connect(p, kind)) \/ CloseSockets(p)
  PROVE  TInv'
<1>1. CASE \E kind \in Kinds : Connect(p, kind)
  <2>1. PICK kind \in Kinds : Connect(p, kind)
    BY <1>1
  <2>2. TakeoverTypeOK'
    BY <2>1 DEF Connect, statusVars, TInv, TakeoverTypeOK, RereadDelay, CloseDelay
  <2>3. closing[p] = "none"
    BY <2>1 DEF Connect, Serving, TInv, ClosesWhileDraining
  <2>4. ClosesWhileDraining' /\ BrowsersLast'
    BY <2>1, <2>3
    DEF Connect, vars, local, TInv, TakeoverTypeOK, ClosesWhileDraining, BrowsersLast
  <2> QED
    BY <2>2, <2>4 DEF TInv
<1>2. CASE CloseSockets(p)
  <2>1. TakeoverTypeOK'
    BY <1>2, LeaseAssumption, TakeoverAssumption
    DEF CloseSockets, statusVars, TInv, TakeoverTypeOK, RereadDelay, CloseDelay, Kinds
  <2>2. ClosesWhileDraining' /\ BrowsersLast'
    BY <1>2
    DEF CloseSockets, vars, TInv, TakeoverTypeOK, ClosesWhileDraining, BrowsersLast, Kinds
  <2> QED
    BY <2>1, <2>2 DEF TInv
<1> QED
  BY <1>1, <1>2

\* Statuses: neither sockets nor drain timers change.
LEMMA StatusesTInv ==
  ASSUME TInv, TypeOK', NEW p \in Process, StatusWrite(p) \/ Reread(p) \/ Rehydrated(p)
  PROVE  TInv'
<1>1. UNCHANGED <<open, closing, closeAge, role>>
  BY DEF StatusWrite, Reread, Rehydrated, drainVars, vars
<1>2. ClosesWhileDraining' /\ BrowsersLast'
  BY <1>1 DEF TInv, ClosesWhileDraining, BrowsersLast
<1>3. TakeoverTypeOK'
  <2>1. CASE StatusWrite(p)
    BY <2>1, <1>1, TakeoverAssumption
    DEF StatusWrite, TInv, TakeoverTypeOK, RereadDelay, CloseDelay
  <2>2. CASE Reread(p)
    BY <2>2, <1>1, LeaseAssumption, TakeoverAssumption
    DEF Reread, TInv, TakeoverTypeOK, RereadDelay, CloseDelay
  <2>3. CASE Rehydrated(p)
    BY <2>3, <1>1 DEF Rehydrated, TInv, TakeoverTypeOK, RereadDelay, CloseDelay
  <2> QED
    BY <2>1, <2>2, <2>3
<1> QED
  BY <1>2, <1>3 DEF TInv

\* Time: the guards keep every timer within the bound of its lateness.
LEMMA AdvanceTInv ==
  ASSUME TInv, TypeOK', TakeoverAdvance
  PROVE  TInv'
<1>1. role' = role
  BY DEF TakeoverAdvance, Advance, local
<1>2. ClosesWhileDraining' /\ BrowsersLast'
  BY <1>1 DEF TakeoverAdvance, TInv, ClosesWhileDraining, BrowsersLast
<1>3. ASSUME NEW p \in Process
      PROVE  /\ closeAge'[p] \in Nat
             /\ closeAge'[p] <= IF closing'[p] = "none" THEN 0
                                ELSE CloseDelay(closing'[p]) + MaxLate
  BY LeaseAssumption, TakeoverAssumption
  DEF TakeoverAdvance, TInv, TakeoverTypeOK, CloseDelay
<1>4. rereadAge' \in [Process -> 0..(RereadDelay + MaxLate)]
  BY LeaseAssumption, TakeoverAssumption
  DEF TakeoverAdvance, TInv, TakeoverTypeOK, RereadDelay
<1>5. TakeoverTypeOK'
  BY <1>3, <1>4 DEF TakeoverAdvance, TInv, TakeoverTypeOK, CloseDelay, RereadDelay
<1> QED
  BY <1>2, <1>5 DEF TInv

\* Every step keeps the inductive invariant, given the types of the lease.
LEMMA NextTInv == TInv /\ TypeOK' /\ [TakeoverNext]_takeoverVars => TInv'
<1> SUFFICES ASSUME TInv, TypeOK', [TakeoverNext]_takeoverVars PROVE TInv'
  OBVIOUS
<1>1. CASE LeaseStep
  BY <1>1, RoleFollowsTInv DEF LeaseStep, LeaseTick, LeaseStatement
<1>2. ASSUME NEW p \in Process, NEW kind \in Kinds, Connect(p, kind) PROVE TInv'
  BY <1>2, SocketsTInv
<1>3. ASSUME NEW p \in Process, StatusWrite(p) \/ Timers(p) PROVE TInv'
  BY <1>3, SocketsTInv, StatusesTInv DEF Timers
<1>4. CASE TakeoverAdvance
  BY <1>4, AdvanceTInv
<1>5. CASE UNCHANGED takeoverVars
  BY <1>5
  DEF takeoverVars, drainVars, statusVars, vars, TInv, TakeoverTypeOK,
      ClosesWhileDraining, BrowsersLast
<1> QED
  BY <1>1, <1>2, <1>3, <1>4, <1>5 DEF TakeoverNext

\* The inductive invariant holds in every reachable state.
LEMMA TakeoverInvariance == TakeoverSpec => []TInv
  BY InitTInv, NextTInv, LeaseTypes, PTL DEF TakeoverSpec

(***************************************************************************)
(* The theorems.                                                           *)
(***************************************************************************)

\* Sockets, timers and statuses keep their types; a timer that is not pending
\* has no age and none is pending longer than its delay and its lateness.
THEOREM TakeoverTypeCorrect == TakeoverSpec => []TakeoverTypeOK
<1>1. TInv => TakeoverTypeOK
  BY DEF TInv
<1> QED
  BY <1>1, TakeoverInvariance, PTL

\* A serving process keeps its sockets: the close of an earlier drain never
\* reaches the process that took the lease back.
THEOREM KeepsSockets == TakeoverSpec => ServingKeepsSockets
<1> DEFINE Kept == \A p \in Process : Serving(p) /\ ~Ends(p) => open[p] \subseteq open'[p]
<1>1. TInv /\ [TakeoverNext]_takeoverVars => [Kept]_takeoverVars
  <2> SUFFICES ASSUME TInv, TakeoverNext, NEW p \in Process, Serving(p), ~Ends(p)
               PROVE  open[p] \subseteq open'[p]
    OBVIOUS
  <2>1. CASE LeaseStep
    <3>1. DrainFollows
      BY <2>1 DEF LeaseStep, LeaseTick, LeaseStatement, RoleFollows
    <3> QED
      BY <3>1 DEF DrainFollows
  <2>2. ASSUME NEW q \in Process, NEW kind \in Kinds, Connect(q, kind)
        PROVE  open[p] \subseteq open'[p]
    BY <2>2 DEF Connect, TInv, TakeoverTypeOK
  <2>3. ASSUME NEW q \in Process, CloseSockets(q) PROVE open[p] \subseteq open'[p]
    <3>1. role[q] = "draining" /\ role[p] = "serving"
      BY <2>3 DEF CloseSockets, TInv, ClosesWhileDraining, Serving
    <3> QED
      BY <2>3, <3>1 DEF CloseSockets, TInv, TakeoverTypeOK
  <2>4. ASSUME NEW q \in Process, StatusWrite(q) \/ Reread(q) \/ Rehydrated(q)
        PROVE  open[p] \subseteq open'[p]
    BY <2>4 DEF StatusWrite, Reread, Rehydrated, drainVars
  <2>5. CASE TakeoverAdvance
    BY <2>5 DEF TakeoverAdvance
  <2> QED
    BY <2>1, <2>2, <2>3, <2>4, <2>5 DEF TakeoverNext, Timers
<1> QED
  BY <1>1, TakeoverInvariance, PTL DEF TakeoverSpec, ServingKeepsSockets

\* Browsers are closed only once the agents are gone.
THEOREM AgentsFirst == TakeoverSpec => AgentsGoFirst
<1> DEFINE First == \A p \in Process :
                      "browsers" \in open[p] \ open'[p] /\ ~Ends(p) => "agents" \notin open[p]
<1>1. TInv /\ [TakeoverNext]_takeoverVars => [First]_takeoverVars
  <2> SUFFICES ASSUME TInv, TakeoverNext, NEW p \in Process,
                      "browsers" \in open[p] \ open'[p], ~Ends(p)
               PROVE  "agents" \notin open[p]
    OBVIOUS
  <2>1. CASE LeaseStep
    <3>1. DrainFollows
      BY <2>1 DEF LeaseStep, LeaseTick, LeaseStatement, RoleFollows
    <3> QED
      BY <3>1 DEF DrainFollows
  <2>2. ASSUME NEW q \in Process, NEW kind \in Kinds, Connect(q, kind)
        PROVE  "agents" \notin open[p]
    BY <2>2 DEF Connect, TInv, TakeoverTypeOK
  <2>3. ASSUME NEW q \in Process, CloseSockets(q) PROVE "agents" \notin open[p]
    <3>1. closing[p] = "browsers"
      BY <2>3 DEF CloseSockets, TInv, TakeoverTypeOK, Kinds
    <3> QED
      BY <3>1 DEF TInv, BrowsersLast
  <2>4. ASSUME NEW q \in Process, StatusWrite(q) \/ Reread(q) \/ Rehydrated(q)
        PROVE  "agents" \notin open[p]
    BY <2>4 DEF StatusWrite, Reread, Rehydrated, drainVars
  <2>5. CASE TakeoverAdvance
    BY <2>5 DEF TakeoverAdvance
  <2> QED
    BY <2>1, <2>2, <2>3, <2>4, <2>5 DEF TakeoverNext, Timers
<1> QED
  BY <1>1, TakeoverInvariance, PTL DEF TakeoverSpec, AgentsGoFirst

(***************************************************************************)
(* The hand-over.  While no statement fails, the process whose row it is   *)
(* serves and knows it, and nobody else starts to.  A process it has       *)
(* displaced finds out on its next beat and closes its sockets one grace   *)
(* and one browser delay later; the re-read waits for all of that if its   *)
(* margin covers the beat.                                                 *)
(***************************************************************************)

\* No statement fails, and the margin that statusTakeover adds covers the
\* displaced process's next beat: an interval and a store call, and the lateness
\* of the two timers that close its sockets.  The code's margin of 5 s is exactly
\* its default heartbeat, so there is nothing left for the call.
MarginCovers == OnTime /\ MaxErrors = 0 /\ Margin > Gap + MaxLag + 2 * MaxLate

IsHolder(p) == row # NoRow /\ row.holder = p

\* Without errors a process serves only once it has written the row, and a live
\* process whose row it is serves.
Aware ==
  \A p \in Process : /\ Serving(p) => claimed[p]
                     /\ IsHolder(p) /\ Alive(p) => Serving(p)

\* A process that neither serves nor closes has no socket; a re-read belongs to
\* the term of a serving process; nobody serves before its first claim returns.
SocketsFit ==
  \A p \in Process :
    /\ open[p] # {} => Serving(p) \/ closing[p] # "none"
    /\ reread[p] # "none" => Serving(p)
    /\ status[p] \in {"new", "starting"} => role[p] = "draining"

\* How far q has come on its way out, t after another process took the row.
Leaves(q, t) ==
  /\ Serving(q) => t <= wait[q] + (IF pc[q] = "idle" THEN 0 ELSE Gap)
  /\ closing[q] = "agents" => t <= Gap + MaxLag + closeAge[q]
  /\ closing[q] = "browsers" => t <= Gap + MaxLag + Grace + MaxLate + closeAge[q]

Gone(q) == ~Serving(q) /\ open[q] = {}

\* While the holder waits for its re-read the others are on their way out; once it
\* re-reads, or has its timers armed, they are gone.
HandOver ==
  \A p \in Process : Serving(p) /\ IsHolder(p) =>
    \A q \in Process \ {p} :
      /\ reread[p] = "pending" => Leaves(q, rereadAge[p])
      /\ reread[p] = "running" \/ ~suspended[p] => Gone(q)

HInv == Aware /\ SocketsFit /\ HandOver

\* What a step of the lease other than the passing of time may do to who serves.
LeaseMoves ==
  \A p \in Process :
    /\ Serving(p)' /\ IsHolder(p)' => (Serving(p) /\ IsHolder(p)) \/ StartsServing(p)
    /\ StartsServing(p) => IsHolder(p)'
    /\ Serving(p)' /\ ~Serving(p) => StartsServing(p)
    /\ Serving(p) /\ ~Serving(p)' => StopsServing(p) \/ Ends(p)
    /\ StopsServing(p) => Serving(p) /\ pc[p] # "idle"
    /\ Serving(p) /\ Serving(p)' /\ ~IsHolder(p)' =>
         \/ pc'[p] = pc[p] /\ wait'[p] = wait[p]
         \/ pc[p] = "idle" /\ wait[p] <= Gap /\ pc'[p] # "idle" /\ wait'[p] = 0
    /\ wait'[p] >= 0
    /\ status'[p] \in {"new", "starting"} => role'[p] = role[p] /\ status[p] \in {"new", "starting"}

\* A process alone may have changed: role and status of the others are as before.
LEMMA OneMoves ==
  ASSUME IInv, NEW q \in Process, Statement(q) \/ Tick(q) \/ Start(q) \/ Crash(q)
  PROVE  \A p \in Process \ {q} :
           /\ status'[p] = status[p] /\ role'[p] = role[p] /\ claimed'[p] = claimed[p]
           /\ pc'[p] = pc[p] /\ wait'[p] = wait[p]
<1>1. CASE Statement(q)
  <2>1. wait' = wait
    BY <1>1 DEF Statement
  <2>2. CASE WentOn(q)
    BY <2>1, <2>2 DEF WentOn, IInv, TypeOK
  <2>3. CASE Wrote(q) \/ Recognized(q) \/ GaveUp(q)
    BY <2>1, <2>3, AnswerFacts DEF Wrote, Recognized, GaveUp
  <2> QED
    BY <1>1, <2>2, <2>3, StatementWays
<1>2. CASE Tick(q) \/ Start(q) \/ Crash(q)
  BY <1>2 DEF Tick, Start, Crash, Return, IInv, TypeOK
<1> QED
  BY <1>1, <1>2

\* A statement that does not fail: it makes its process the holder and a serving
\* one, takes the role from a serving process that is not the holder, or changes
\* neither row nor role of a process that drains.
LEMMA StatementMoves ==
  ASSUME IInv, TimedInv, Aware, NEW q \in Process, Statement(q)
  PROVE  \/ Wrote(q) /\ Knows(q)' /\ IsHolder(q)' /\ (Serving(q) => IsHolder(q))
         \/ GaveUp(q) /\ ~Knows(q)' /\ ~Serving(q)' /\ row' = row /\ ~IsHolder(q)
         \/ WentOn(q) /\ ~Serving(q) /\ UNCHANGED <<row, status, role, claimed>>
<1>1. FitsFor(q)
  BY TimedFor
<1>2. Serving(q) => Knows(q)
  BY DEF Aware, Knows
<1>3. CASE Wrote(q)
  <2>1. Knows(q)' /\ IsHolder(q)'
    BY <1>3, AnswerFacts, HitsFacts DEF Wrote, IsHolder
  <2>2. Serving(q) => pc[q] = "beat"
    <3>1. pc[q] # "idle"
      BY <1>3 DEF Wrote, Hits
    <3> QED
      BY <1>1, <1>2, <3>1 DEF FitsFor, CallFits
  <2>3. Serving(q) => IsHolder(q)
    BY <1>3, <2>2 DEF Wrote, Hits, IsHolder
  <2> QED
    BY <1>3, <2>1, <2>3
<1>4. CASE Recognized(q)
  <2>1. IsHolder(q) /\ Alive(q) /\ pc[q] = "find"
    BY <1>4, CallerAlive DEF Recognized, IsHolder
  <2>2. Knows(q)
    BY <1>2, <2>1 DEF Aware
  <2> QED
    BY <1>1, <2>1, <2>2 DEF FitsFor, CallFits
<1>5. CASE GaveUp(q)
  <2>1. ~IsHolder(q)
    BY <1>1, <1>5, GaveUpFits DEF IsHolder
  <2>2. ~Knows(q)' /\ role'[q] = "draining"
    BY <1>5, AnswerFacts DEF GaveUp
  <2> QED
    BY <1>5, <2>1, <2>2 DEF GaveUp, Serving
<1>6. CASE WentOn(q)
  <2>1. pc[q] # "idle" /\ pc[q] # "beat"
    BY <1>6 DEF WentOn, Leads, IInv, TypeOK
  <2> QED
    BY <1>1, <1>2, <1>6, <2>1 DEF WentOn, FitsFor, CallFits
<1> QED
  BY <1>3, <1>4, <1>5, <1>6, StatementWays

\* A statement, of whatever outcome, moves roles as LeaseMoves says.
LEMMA StatementRoles ==
  ASSUME IInv, TimedInv, HInv, NEW q \in Process, Statement(q)
  PROVE  Aware' /\ LeaseMoves
<1>1. Aware /\ SocketsFit
  BY DEF HInv
<1>2. \A p \in Process \ {q} :
        /\ status'[p] = status[p] /\ role'[p] = role[p] /\ claimed'[p] = claimed[p]
        /\ pc'[p] = pc[p] /\ wait'[p] = wait[p]
  BY OneMoves
<1>3. \A p \in Process \ {q} :
        /\ Serving(p)' <=> Serving(p)
        /\ Alive(p)' <=> Alive(p)
        /\ ~StartsServing(p) /\ ~StopsServing(p)
  BY <1>2 DEF Serving, Alive, StartsServing, StopsServing
<1>4. \/ Wrote(q) /\ Knows(q)' /\ IsHolder(q)' /\ (Serving(q) => IsHolder(q))
      \/ GaveUp(q) /\ ~Knows(q)' /\ ~Serving(q)' /\ row' = row /\ ~IsHolder(q)
      \/ WentOn(q) /\ ~Serving(q) /\ UNCHANGED <<row, status, role, claimed>>
  BY <1>1, StatementMoves
<1>5. pc[q] # "idle" /\ Alive(q) /\ wait'[q] = wait[q] /\ wait[q] >= 0
  <2>1. pc[q] # "idle"
    BY DEF Statement, UpdateOlder, FindRow, CreateRow, Beat, ReclaimStale, FindAny, CreateAny
  <2> QED
    BY <2>1, CallerAlive, Numbers, MissesFacts DEF Statement
<1>6. \A p \in Process \ {q} : wait'[p] >= 0
  BY <1>2, Numbers, MissesFacts
<1>7. role[q] \in {"serving", "draining"}
  BY DEF IInv, TypeOK
<1>8. CASE Wrote(q) /\ Knows(q)' /\ IsHolder(q)' /\ (Serving(q) => IsHolder(q))
  <2>1. status'[q] = "running" /\ role'[q] = "serving"
    BY <1>8, AnswerFacts DEF Wrote
  <2>2. Serving(q)' /\ ~StopsServing(q) /\ (StartsServing(q) <=> ~Serving(q))
    BY <1>1, <1>5, <1>7, <2>1
    DEF Serving, StartsServing, StopsServing, SocketsFit, Alive
  <2>3. \A p \in Process \ {q} : ~IsHolder(p)'
    BY <1>8 DEF IsHolder
  <2>4. Aware'
    BY <1>1, <1>2, <1>3, <1>8, <2>2, <2>3 DEF Aware, Knows
  <2>5. LeaseMoves
    BY <1>2, <1>3, <1>5, <1>6, <1>8, <2>1, <2>2, <2>3 DEF LeaseMoves
  <2> QED
    BY <2>4, <2>5
<1>9. CASE GaveUp(q) /\ ~Knows(q)' /\ ~Serving(q)' /\ row' = row /\ ~IsHolder(q)
  <2>1. status'[q] = "running" /\ role'[q] = "draining"
    BY <1>9, AnswerFacts DEF GaveUp
  <2>2. ~StartsServing(q) /\ (StopsServing(q) <=> Serving(q))
    BY <1>1, <1>5, <1>7, <2>1
    DEF Serving, StartsServing, StopsServing, SocketsFit, Alive
  <2>3. \A p \in Process : IsHolder(p)' <=> IsHolder(p)
    BY <1>9 DEF IsHolder
  <2>4. Aware'
    BY <1>1, <1>2, <1>3, <1>9, <2>3 DEF Aware
  <2>5. LeaseMoves
    BY <1>2, <1>3, <1>5, <1>6, <1>9, <2>1, <2>2, <2>3 DEF LeaseMoves
  <2> QED
    BY <2>4, <2>5
<1>10. CASE WentOn(q) /\ ~Serving(q) /\ UNCHANGED <<row, status, role, claimed>>
  <2>1. \A p \in Process : /\ Serving(p)' <=> Serving(p)
                           /\ IsHolder(p)' <=> IsHolder(p)
                           /\ Alive(p)' <=> Alive(p)
                           /\ ~StartsServing(p) /\ ~StopsServing(p)
    BY <1>10 DEF Serving, IsHolder, Alive, StartsServing, StopsServing
  <2>2. Aware'
    BY <1>1, <1>10, <2>1 DEF Aware
  <2>3. LeaseMoves
    BY <1>2, <1>5, <1>6, <1>10, <2>1 DEF LeaseMoves
  <2> QED
    BY <2>2, <2>3
<1> QED
  BY <1>4, <1>8, <1>9, <1>10

\* The other steps of the lease start and stop nobody, except a crash.
LEMMA OtherRoles ==
  ASSUME IInv, TimedInv, HInv, OnTime, NEW q \in Process,
         Tick(q) \/ Start(q) \/ Crash(q)
  PROVE  Aware' /\ LeaseMoves
<1>1. Aware /\ SocketsFit
  BY DEF HInv
<1>2. \A p \in Process \ {q} :
        /\ status'[p] = status[p] /\ role'[p] = role[p] /\ claimed'[p] = claimed[p]
        /\ pc'[p] = pc[p] /\ wait'[p] = wait[p]
  BY OneMoves
<1>3. role' = role /\ claimed' = claimed
  BY DEF Tick, Start, Crash
<1>4. \A p \in Process : ~StartsServing(p) /\ ~StopsServing(p)
  BY <1>3 DEF StartsServing, StopsServing
<1>5. \A p \in Process : wait[p] \in 0..Gap
  BY Numbers
<1>6. \A p \in Process \ {q} : /\ Serving(p)' <=> Serving(p)
                               /\ Alive(p)' <=> Alive(p)
  BY <1>2 DEF Serving, Alive
<1>7. CASE Tick(q)
  <2>1. status' = status /\ row' = row /\ wait'[q] = 0 /\ wait[q] >= Heartbeat
    BY <1>7 DEF Tick, IInv, TypeOK
  <2>2. pc[q] = "idle" /\ pc'[q] # "idle"
    <3>1. CallFits(q) /\ status[q] = "running"
      BY <1>7 DEF TimedInv, Tick
    <3>2. pc[q] = "idle"
      BY <3>1, <2>1, Numbers, LeaseAssumption DEF CallFits, OnTime
    <3> QED
      BY <1>7, <3>2 DEF Tick, IInv, TypeOK
  <2>3. \A p \in Process : /\ Serving(p)' <=> Serving(p)
                           /\ IsHolder(p)' <=> IsHolder(p)
                           /\ Alive(p)' <=> Alive(p)
    BY <1>3, <2>1 DEF Serving, Alive, IsHolder
  <2>4. Aware'
    BY <1>1, <1>3, <2>3 DEF Aware
  <2>5. LeaseMoves
    BY <1>2, <1>3, <1>4, <1>5, <2>1, <2>2, <2>3, MissesFacts DEF LeaseMoves
  <2> QED
    BY <2>4, <2>5
<1>8. CASE Start(q)
  <2>1. row' = row /\ wait' = wait /\ status[q] = "new" /\ status'[q] = "starting"
    BY <1>8 DEF Start, IInv, TypeOK
  <2>2. ~IsHolder(q)
    BY <2>1 DEF IsHolder, IInv, CallsAreAlive, RowHolderStarted
  <2>3. ~Serving(q) /\ ~Serving(q)'
    BY <2>1 DEF Serving
  <2>4. \A p \in Process : IsHolder(p)' <=> IsHolder(p)
    BY <2>1 DEF IsHolder
  <2>5. Aware'
    BY <1>1, <1>3, <1>6, <2>2, <2>3, <2>4 DEF Aware
  <2>6. LeaseMoves
    BY <1>2, <1>3, <1>4, <1>5, <1>6, <2>1, <2>3, <2>4, MissesFacts DEF LeaseMoves
  <2> QED
    BY <2>5, <2>6
<1>9. CASE Crash(q)
  <2>1. status'[q] = "dead" /\ wait'[q] = 0
    BY <1>9 DEF Crash, IInv, TypeOK
  <2>2. ~Serving(q)' /\ Ends(q) /\ ~Alive(q)'
    BY <2>1 DEF Serving, Ends, Alive
  <2>3. row' = row \/ (Hits(q) /\ row' = Written(q))
    BY <1>9 DEF Crash, Written
  <2>4. \A p \in Process \ {q} : IsHolder(p)' => IsHolder(p)
    BY <2>3, HitsFacts DEF IsHolder
  <2>5. Aware'
    BY <1>1, <1>3, <1>6, <2>2, <2>4 DEF Aware
  <2>6. LeaseMoves
    BY <1>2, <1>3, <1>4, <1>5, <1>6, <2>1, <2>2, <2>4, MissesFacts DEF LeaseMoves
  <2> QED
    BY <2>5, <2>6
<1> QED
  BY <1>7, <1>8, <1>9

\* Without errors every step of the lease but the passing of time moves roles as
\* LeaseMoves says, and leaves everybody aware.
LEMMA LeaseRoles ==
  ASSUME IInv, TimedInv, HInv, MarginCovers, LeaseStep
  PROVE  Aware' /\ LeaseMoves
<1>1. OnTime /\ MaxErrors = 0
  BY DEF MarginCovers
<1>2. ASSUME NEW q \in Process, Throw(q) PROVE FALSE
  BY <1>1, <1>2 DEF Throw, IInv, TypeOK
<1>3. CASE DeleteRow
  <2>1. row' = NoRow /\ UNCHANGED <<status, role, claimed, pc, wait>>
    BY <1>3 DEF DeleteRow, local, timing
  <2>2. \A p \in Process : /\ Serving(p)' <=> Serving(p)
                           /\ ~IsHolder(p)'
                           /\ ~StartsServing(p) /\ ~StopsServing(p)
    BY <2>1 DEF Serving, IsHolder, StartsServing, StopsServing
  <2>3. \A p \in Process : wait[p] \in 0..Gap
    BY Numbers
  <2>4. Aware'
    BY <2>1, <2>2 DEF HInv, Aware
  <2>5. LeaseMoves
    BY <2>1, <2>2, <2>3, MissesFacts DEF LeaseMoves
  <2> QED
    BY <2>4, <2>5
<1> QED
  BY <1>1, <1>2, <1>3, StatementRoles, OtherRoles DEF LeaseStep, LeaseTick, LeaseStatement

\* A step of the lease keeps the hand-over: it either begins one, with the clock
\* at zero, or leaves the others as far on their way out as they were.
LEMMA LeaseHandOver ==
  ASSUME IInv, TimedInv, TInv, HInv, MarginCovers, LeaseStep
  PROVE  HInv'
<1>1. Aware' /\ LeaseMoves
  BY LeaseRoles
<1>2. RoleFollows
  BY DEF LeaseStep, LeaseTick, LeaseStatement
<1>3. /\ open' = [p \in Process |-> IF Ends(p) THEN {} ELSE open[p]]
      /\ \A p \in Process :
           /\ Ends(p) \/ StartsServing(p) => closing'[p] = "none"
           /\ ~Ends(p) /\ StopsServing(p) => closing'[p] = "agents" /\ closeAge'[p] = 0
           /\ ~Ends(p) /\ ~StartsServing(p) /\ ~StopsServing(p) =>
                closing'[p] = closing[p] /\ closeAge'[p] = closeAge[p]
  BY <1>2 DEF RoleFollows, DrainFollows, StartsServing, StopsServing
<1>4. \A p \in Process :
        /\ StartsServing(p) => reread'[p] = "pending" /\ rereadAge'[p] = 0 /\ suspended'[p] = TRUE
        /\ ~StartsServing(p) /\ (StopsServing(p) \/ Ends(p)) => reread'[p] = "none"
        /\ ~StartsServing(p) /\ ~StopsServing(p) /\ ~Ends(p) =>
             reread'[p] = reread[p] /\ rereadAge'[p] = rereadAge[p] /\ suspended'[p] = suspended[p]
  <2>1. \A p \in Process : suspended[p] \in BOOLEAN
    BY DEF TInv, TakeoverTypeOK
  <2> QED
    BY <1>2, <2>1 DEF RoleFollows, RereadFollows
<1>5. \A p \in Process : closeAge[p] \in Nat /\ wait[p] \in 0..Gap /\ lag[p] \in 0..MaxLag
  BY Numbers DEF TInv, TakeoverTypeOK
<1>6. \A p \in Process : StartsServing(p) => Serving(p)'
  <2> SUFFICES ASSUME NEW p \in Process, StartsServing(p) PROVE Serving(p)'
    OBVIOUS
  <2>1. IsHolder(p)' /\ role'[p] = "serving"
    BY <1>1 DEF LeaseMoves, StartsServing
  <2>2. role[p] = "draining"
    BY DEF StartsServing
  <2>3. PICK q \in Process : Statement(q)
    <3>1. role' # role
      BY <2>1, <2>2
    <3>2. \A q \in Process : ~Throw(q)
      BY DEF Throw, MarginCovers, IInv, TypeOK
    <3> QED
      BY <3>1, <3>2
      DEF LeaseStep, LeaseTick, LeaseStatement, Tick, Start, Crash, DeleteRow, local
  <2>4. p = q
    BY <2>1, <2>2, <2>3, OneMoves
  <2>5. Knows(p)'
    <3>1. Wrote(p) \/ GaveUp(p) \/ WentOn(p)
      BY <2>3, <2>4, StatementMoves DEF HInv
    <3>2. ~WentOn(p) /\ ~GaveUp(p)
      BY <2>1, <2>2, AnswerFacts DEF WentOn, GaveUp
    <3> QED
      BY <3>1, <3>2, AnswerFacts DEF Wrote
  <2> QED
    BY <2>5 DEF Knows
<1>7. SocketsFit'
  <2> SUFFICES ASSUME NEW p \in Process
               PROVE  /\ open'[p] # {} => Serving(p)' \/ closing'[p] # "none"
                      /\ reread'[p] # "none" => Serving(p)'
                      /\ status'[p] \in {"new", "starting"} => role'[p] = "draining"
    BY DEF SocketsFit
  <2>1. /\ open[p] # {} => Serving(p) \/ closing[p] # "none"
        /\ reread[p] # "none" => Serving(p)
        /\ status[p] \in {"new", "starting"} => role[p] = "draining"
    BY DEF HInv, SocketsFit
  <2>2. /\ Serving(p) /\ ~Serving(p)' => StopsServing(p) \/ Ends(p)
        /\ status'[p] \in {"new", "starting"} =>
             role'[p] = role[p] /\ status[p] \in {"new", "starting"}
    BY <1>1 DEF LeaseMoves
  <2>3. open'[p] # {} => open[p] # {} /\ ~Ends(p)
    BY <1>3
  <2>4. StartsServing(p) => Serving(p)'
    BY <1>6
  <2> QED
    BY <1>3, <1>4, <2>1, <2>2, <2>3, <2>4
<1>8. ASSUME NEW p \in Process, Serving(p)', IsHolder(p)', NEW q \in Process \ {p}
      PROVE  /\ reread'[p] = "pending" => Leaves(q, rereadAge[p])'
             /\ reread'[p] = "running" \/ ~suspended'[p] => Gone(q)'
  <2>1. ~IsHolder(q)' /\ ~StartsServing(q)
    <3>1. ~IsHolder(q)'
      BY <1>8 DEF IsHolder
    <3> QED
      BY <1>1, <3>1 DEF LeaseMoves
  <2>2. CASE StartsServing(p)
    <3>1. /\ reread'[p] = "pending" /\ rereadAge'[p] = 0 /\ suspended'[p] = TRUE
      BY <1>4, <2>2
    <3>2. wait'[q] \in Int /\ wait'[q] >= 0
      <4>1. wait'[q] >= 0
        BY <1>1 DEF LeaseMoves
      <4>2. wait'[q] \in {wait[q], 0}
        BY <1>8 DEF LeaseStep, LeaseTick, LeaseStatement, Statement, Tick, Start, Throw, Crash,
                    DeleteRow, timing, IInv, TypeOK
      <4> QED
        BY <4>1, <4>2, <1>5, MissesFacts
    <3>3. closeAge'[q] \in Nat
      BY <1>2, <1>5 DEF RoleFollows, DrainFollows
    <3>4. Leaves(q, rereadAge[p])'
      BY <3>1, <3>2, <3>3, MissesFacts, LeaseAssumption, TakeoverAssumption DEF Leaves
    <3> QED
      BY <3>1, <3>4
  <2>3. CASE ~StartsServing(p)
    <3>1. Serving(p) /\ IsHolder(p)
      BY <1>1, <1>8, <2>3 DEF LeaseMoves
    <3>2. ~StopsServing(p) /\ ~Ends(p)
      BY <1>8 DEF Serving, StopsServing, Ends
    <3>3. reread'[p] = reread[p] /\ rereadAge'[p] = rereadAge[p] /\ suspended'[p] = suspended[p]
      BY <1>4, <2>3, <3>2
    <3>4. /\ reread[p] = "pending" => Leaves(q, rereadAge[p])
          /\ reread[p] = "running" \/ ~suspended[p] => Gone(q)
      BY <3>1 DEF HInv, HandOver
    <3>5. Gone(q) => Gone(q)'
      BY <1>1, <1>3, <2>1 DEF Gone, LeaseMoves
    <3>6. ASSUME Leaves(q, rereadAge[p]) PROVE Leaves(q, rereadAge[p])'
      <4>1. rereadAge[p] \in Nat
        BY DEF TInv, TakeoverTypeOK
      <4>2. CASE Ends(q)
        <5>1. ~Serving(q)' /\ closing'[q] = "none"
          BY <1>3, <4>2 DEF Ends, Serving
        <5> QED
          BY <5>1 DEF Leaves
      <4>3. CASE ~Ends(q) /\ StopsServing(q)
        <5>1. Serving(q) /\ pc[q] # "idle"
          BY <1>1, <4>3 DEF LeaseMoves
        <5>2. wait[q] = lag[q]
          BY <5>1 DEF TimedInv, CallFits, Serving
        <5>3. rereadAge[p] <= Gap + MaxLag
          BY <3>6, <4>1, <5>1, <5>2, <1>5, MissesFacts, LeaseAssumption DEF Leaves
        <5>4. ~Serving(q)' /\ closing'[q] = "agents" /\ closeAge'[q] = 0
          BY <1>3, <4>3 DEF Serving, StopsServing
        <5> QED
          BY <3>3, <4>1, <5>3, <5>4, MissesFacts, LeaseAssumption DEF Leaves
      <4>4. CASE ~Ends(q) /\ ~StopsServing(q)
        <5>1. closing'[q] = closing[q] /\ closeAge'[q] = closeAge[q]
          BY <1>3, <2>1, <4>4
        <5>2. Serving(q)' =>
                /\ Serving(q)
                /\ \/ pc'[q] = pc[q] /\ wait'[q] = wait[q]
                   \/ pc[q] = "idle" /\ wait[q] <= Gap /\ pc'[q] # "idle" /\ wait'[q] = 0
          BY <1>1, <2>1 DEF LeaseMoves
        <5>3. Serving(q)' => rereadAge[p] <= wait'[q] + (IF pc'[q] = "idle" THEN 0 ELSE Gap)
          BY <3>6, <4>1, <5>2, <1>5, MissesFacts DEF Leaves
        <5> QED
          BY <3>3, <3>6, <5>1, <5>3 DEF Leaves
      <4> QED
        BY <4>2, <4>3, <4>4
    <3> QED
      BY <3>3, <3>4, <3>5, <3>6
  <2> QED
    BY <2>2, <2>3
<1>9. HandOver'
  BY <1>8 DEF HandOver
<1> QED
  BY <1>1, <1>7, <1>9 DEF HInv

\* Outside the lease nobody's role, claim or clock changes.
LEMMA OutsideLease ==
  ASSUME UNCHANGED vars
  PROVE  /\ Aware => Aware'
         /\ \A p \in Process : (Serving(p)' <=> Serving(p)) /\ (IsHolder(p)' <=> IsHolder(p))
         /\ UNCHANGED <<status, role, pc, wait>>
  BY DEF vars, Aware, Serving, IsHolder, Alive

\* A connection reaches a serving process, and so nobody who is gone.
LEMMA ConnectHandOver ==
  ASSUME TInv, HInv, NEW r \in Process, NEW kind \in Kinds, Connect(r, kind)
  PROVE  HInv'
<1>1. /\ Serving(r) /\ UNCHANGED vars
      /\ UNCHANGED <<closing, closeAge, suspended, reread, rereadAge>>
      /\ \A q \in Process \ {r} : open'[q] = open[q]
  BY DEF Connect, statusVars, TInv, TakeoverTypeOK
<1>2. /\ Aware' /\ UNCHANGED <<status, role, pc, wait>>
      /\ \A p \in Process : (Serving(p)' <=> Serving(p)) /\ (IsHolder(p)' <=> IsHolder(p))
  BY <1>1, OutsideLease DEF HInv
<1>3. SocketsFit'
  BY <1>1, <1>2 DEF HInv, SocketsFit
<1>4. HandOver'
  BY <1>1, <1>2 DEF HInv, HandOver, Leaves, Gone
<1> QED
  BY <1>2, <1>3, <1>4 DEF HInv

\* A drain timer fires no later than its delay and its lateness, and the last
\* one leaves no socket.
LEMMA CloseHandOver ==
  ASSUME TInv, HInv, MarginCovers, NEW r \in Process, CloseSockets(r)
  PROVE  HInv'
<1>1. /\ UNCHANGED vars
      /\ UNCHANGED <<suspended, reread, rereadAge>>
      /\ \A q \in Process \ {r} :
           open'[q] = open[q] /\ closing'[q] = closing[q] /\ closeAge'[q] = closeAge[q]
  BY DEF CloseSockets, statusVars, TInv, TakeoverTypeOK
<1>2. /\ Aware' /\ UNCHANGED <<status, role, pc, wait>>
      /\ \A p \in Process : (Serving(p)' <=> Serving(p)) /\ (IsHolder(p)' <=> IsHolder(p))
  BY <1>1, OutsideLease DEF HInv
<1>3. /\ open'[r] = open[r] \ {closing[r]} /\ closeAge'[r] = 0
      /\ closing'[r] = (IF closing[r] = "agents" THEN "browsers" ELSE "none")
      /\ closing[r] \in Kinds
  BY DEF CloseSockets, TInv, TakeoverTypeOK
<1>4. closing'[r] = "none" => open'[r] = {}
  <2>1. open[r] \subseteq Kinds
    BY DEF TInv, TakeoverTypeOK
  <2>2. closing[r] = "browsers" => "agents" \notin open[r]
    BY DEF TInv, BrowsersLast
  <2> QED
    BY <1>3, <2>1, <2>2 DEF Kinds
<1>5. SocketsFit'
  BY <1>1, <1>2, <1>4 DEF HInv, SocketsFit
<1>6. ASSUME NEW t \in Nat, Leaves(r, t) PROVE Leaves(r, t)'
  <2>1. closing[r] = "agents" => closeAge[r] \in Nat /\ closeAge[r] <= Grace + MaxLate
    BY DEF TInv, TakeoverTypeOK, CloseDelay
  <2>2. closing[r] = "agents" => t <= Gap + MaxLag + Grace + MaxLate
    BY <1>6, <2>1, MissesFacts, LeaseAssumption, TakeoverAssumption DEF Leaves
  <2> QED
    BY <1>2, <1>3, <1>6, <2>2, MissesFacts, LeaseAssumption, TakeoverAssumption DEF Leaves
<1>7. Gone(r) => Gone(r)'
  BY <1>2, <1>3 DEF Gone
<1>8. \A q \in Process \ {r} : /\ \A t \in Nat : Leaves(q, t) => Leaves(q, t)'
                               /\ Gone(q) => Gone(q)'
  BY <1>1, <1>2 DEF Leaves, Gone
<1>9. HandOver'
  <2> SUFFICES ASSUME NEW p \in Process, Serving(p), IsHolder(p), NEW q \in Process \ {p}
               PROVE  /\ reread[p] = "pending" => Leaves(q, rereadAge[p])'
                      /\ reread[p] = "running" \/ ~suspended[p] => Gone(q)'
    BY <1>1, <1>2 DEF HandOver
  <2>1. /\ reread[p] = "pending" => Leaves(q, rereadAge[p])
        /\ reread[p] = "running" \/ ~suspended[p] => Gone(q)
    BY DEF HInv, HandOver
  <2>2. rereadAge[p] \in Nat /\ rereadAge'[p] = rereadAge[p]
    BY <1>1 DEF TInv, TakeoverTypeOK
  <2>3. Leaves(q, rereadAge[p]) => Leaves(q, rereadAge[p])'
    BY <1>6, <1>8, <2>2 DEF Leaves
  <2> QED
    BY <1>7, <1>8, <2>1, <2>3
<1> QED
  BY <1>2, <1>5, <1>9 DEF HInv

\* The margin at work: when the re-read's delay is over, whoever was displaced has
\* found out, waited its grace and its browser delay, and holds nothing.
LEMMA DelayCovers ==
  ASSUME IInv, TimedInv, TInv, HInv, MarginCovers, NEW p \in Process, NEW q \in Process,
         Leaves(q, rereadAge[p]), rereadAge[p] >= RereadDelay
  PROVE  Gone(q)
<1>1. /\ rereadAge[p] \in Nat /\ wait[q] \in 0..Gap /\ lag[q] \in 0..MaxLag
      /\ closeAge[q] \in Nat /\ closing[q] \in {"agents", "browsers", "none"}
  BY Numbers DEF TInv, TakeoverTypeOK, Kinds
<1>2. /\ Gap \in Nat /\ MaxLag \in Nat /\ MaxLate \in Nat /\ Grace \in Nat
      /\ BrowserDelay \in Nat /\ Margin \in Nat
  BY MissesFacts, LeaseAssumption, TakeoverAssumption
<1>3. rereadAge[p] > Grace + BrowserDelay + Gap + MaxLag + 2 * MaxLate
  BY <1>1, <1>2 DEF RereadDelay, MarginCovers
<1>4. ~Serving(q)
  <2> SUFFICES ASSUME Serving(q) PROVE FALSE
    OBVIOUS
  <2>1. pc[q] # "idle" => wait[q] = lag[q]
    BY DEF TimedInv, CallFits, Serving
  <2>2. rereadAge[p] <= Gap + MaxLag
    BY <1>1, <1>2, <2>1 DEF Leaves
  <2> QED
    BY <1>1, <1>2, <1>3, <2>2
<1>5. closing[q] # "agents"
  <2> SUFFICES ASSUME closing[q] = "agents" PROVE FALSE
    OBVIOUS
  <2>1. closeAge[q] <= Grace + MaxLate
    BY DEF TInv, TakeoverTypeOK, CloseDelay
  <2> QED
    BY <1>1, <1>2, <1>3, <2>1 DEF Leaves
<1>6. closing[q] # "browsers"
  <2> SUFFICES ASSUME closing[q] = "browsers" PROVE FALSE
    OBVIOUS
  <2>1. closeAge[q] <= BrowserDelay + MaxLate
    BY DEF TInv, TakeoverTypeOK, CloseDelay
  <2> QED
    BY <1>1, <1>2, <1>3, <2>1 DEF Leaves
<1> QED
  BY <1>1, <1>4, <1>5, <1>6 DEF Gone, HInv, SocketsFit

\* Statuses: the re-read's timer fires when the others are gone, and its result
\* arms the timers.
LEMMA StatusHandOver ==
  ASSUME IInv, TimedInv, TInv, HInv, MarginCovers, NEW r \in Process,
         StatusWrite(r) \/ Reread(r) \/ Rehydrated(r)
  PROVE  HInv'
<1>1. /\ UNCHANGED vars /\ UNCHANGED drainVars
      /\ \A p \in Process \ {r} :
           /\ reread'[p] = reread[p] /\ rereadAge'[p] = rereadAge[p]
           /\ suspended'[p] = suspended[p]
  BY DEF StatusWrite, Reread, Rehydrated, TInv, TakeoverTypeOK
<1>2. /\ Aware' /\ UNCHANGED <<status, role, pc, wait>>
      /\ \A p \in Process : (Serving(p)' <=> Serving(p)) /\ (IsHolder(p)' <=> IsHolder(p))
  BY <1>1, OutsideLease DEF HInv
<1>3. reread'[r] # "none" => reread[r] # "none"
  BY DEF StatusWrite, Reread, Rehydrated, TInv, TakeoverTypeOK
<1>4. SocketsFit'
  BY <1>1, <1>2, <1>3 DEF HInv, SocketsFit, drainVars
<1>5. \A q \in Process : Gone(q) => Gone(q)'
  BY <1>1, <1>2 DEF Gone, drainVars
<1>6. ASSUME NEW p \in Process, Serving(p), IsHolder(p), NEW q \in Process \ {p}
      PROVE  /\ reread'[p] = "pending" => Leaves(q, rereadAge[p])'
             /\ reread'[p] = "running" \/ ~suspended'[p] => Gone(q)'
  <2>1. /\ reread[p] = "pending" => Leaves(q, rereadAge[p])
        /\ reread[p] = "running" \/ ~suspended[p] => Gone(q)
    BY <1>6 DEF HInv, HandOver
  <2>2. ASSUME reread'[p] = reread[p], rereadAge'[p] = rereadAge[p], suspended'[p] = suspended[p]
        PROVE  /\ reread'[p] = "pending" => Leaves(q, rereadAge[p])'
               /\ reread'[p] = "running" \/ ~suspended'[p] => Gone(q)'
    BY <1>1, <1>2, <1>5, <2>1, <2>2 DEF Leaves, drainVars
  <2>3. CASE p # r \/ StatusWrite(r)
    BY <1>1, <2>2, <2>3 DEF StatusWrite
  <2>4. CASE p = r /\ Reread(r)
    <3>1. reread[p] = "pending" /\ rereadAge[p] >= RereadDelay /\ reread'[p] = "running"
      BY <2>4 DEF Reread, TInv, TakeoverTypeOK
    <3>2. Gone(q)
      BY <2>1, <3>1, DelayCovers
    <3> QED
      BY <1>5, <3>1, <3>2
  <2>5. CASE p = r /\ Rehydrated(r)
    <3>1. reread[p] = "running" /\ reread'[p] = "none"
      BY <2>5 DEF Rehydrated, TInv, TakeoverTypeOK
    <3> QED
      BY <1>5, <2>1, <3>1
  <2> QED
    BY <2>3, <2>4, <2>5
<1>7. HandOver'
  BY <1>2, <1>6 DEF HandOver
<1> QED
  BY <1>2, <1>4, <1>7 DEF HInv

\* Time passes for the re-read as it passes for those on their way out.
LEMMA AdvanceHandOver ==
  ASSUME IInv, TInv, HInv, TakeoverAdvance
  PROVE  HInv'
<1>1. /\ UNCHANGED <<status, role, claimed, pc, open, closing, suspended, reread>>
      /\ \A p \in Process :
           /\ status[p] = "running" => wait'[p] = wait[p] + 1
           /\ closing[p] # "none" => closeAge'[p] = closeAge[p] + 1
           /\ reread[p] = "pending" => rereadAge'[p] = rereadAge[p] + 1
  BY DEF TakeoverAdvance, Advance, local
<1>2. \A p \in Process : /\ Serving(p)' <=> Serving(p)
                         /\ Alive(p)' <=> Alive(p)
                         /\ IsHolder(p)' => IsHolder(p)
  <2>1. row' # NoRow => row # NoRow /\ row'.holder = row.holder
    <3>1. CASE row = NoRow
      BY <3>1 DEF TakeoverAdvance, Advance
    <3>2. CASE row # NoRow
      <4>1. row \in Row /\ row' = [row EXCEPT !.silence = Older(row.silence, MaxSilence)]
        BY <3>2 DEF TakeoverAdvance, Advance, IInv, TypeOK
      <4> QED
        BY <3>2, <4>1 DEF Row
    <3> QED
      BY <3>1, <3>2
  <2> QED
    BY <1>1, <2>1 DEF Serving, Alive, IsHolder
<1>3. Aware' /\ SocketsFit'
  BY <1>1, <1>2 DEF HInv, Aware, SocketsFit
<1>4. ASSUME NEW p \in Process, Serving(p), IsHolder(p), NEW q \in Process \ {p}
      PROVE  /\ reread[p] = "pending" => Leaves(q, rereadAge[p])'
             /\ reread[p] = "running" \/ ~suspended[p] => Gone(q)'
  <2>1. /\ reread[p] = "pending" => Leaves(q, rereadAge[p])
        /\ reread[p] = "running" \/ ~suspended[p] => Gone(q)
    BY <1>4 DEF HInv, HandOver
  <2>2. rereadAge[p] \in Nat /\ closeAge[q] \in Nat /\ wait[q] \in Nat
    BY Numbers, MissesFacts DEF TInv, TakeoverTypeOK
  <2>3. ASSUME reread[p] = "pending", Leaves(q, rereadAge[p]) PROVE Leaves(q, rereadAge[p])'
    <3>1. rereadAge'[p] = rereadAge[p] + 1
      BY <1>1, <2>3
    <3>2. Serving(q)' => rereadAge'[p] <= wait'[q] + (IF pc'[q] = "idle" THEN 0 ELSE Gap)
      BY <1>1, <1>2, <2>2, <2>3, <3>1, MissesFacts DEF Leaves, Serving
    <3>3. /\ closing'[q] = "agents" => rereadAge'[p] <= Gap + MaxLag + closeAge'[q]
          /\ closing'[q] = "browsers" =>
               rereadAge'[p] <= Gap + MaxLag + Grace + MaxLate + closeAge'[q]
      BY <1>1, <2>2, <2>3, <3>1, MissesFacts, LeaseAssumption, TakeoverAssumption DEF Leaves
    <3> QED
      BY <3>2, <3>3 DEF Leaves
  <2>4. Gone(q) => Gone(q)'
    BY <1>1, <1>2 DEF Gone
  <2> QED
    BY <2>1, <2>3, <2>4
<1>5. HandOver'
  BY <1>1, <1>2, <1>4 DEF HandOver
<1> QED
  BY <1>3, <1>5 DEF HInv

\* Before any process starts there is nothing to hand over.
LEMMA InitHInv == TakeoverInit => HInv
  BY DEF TakeoverInit, Init, HInv, Aware, SocketsFit, HandOver, Serving, IsHolder, Alive

\* Every step keeps the hand-over.
LEMMA NextHInv ==
  ASSUME MarginCovers
  PROVE  IInv /\ TimedInv /\ TInv /\ HInv /\ [TakeoverNext]_takeoverVars => HInv'
<1> SUFFICES ASSUME IInv, TimedInv, TInv, HInv, [TakeoverNext]_takeoverVars PROVE HInv'
  OBVIOUS
<1>1. CASE LeaseStep
  BY <1>1, LeaseHandOver
<1>2. ASSUME NEW p \in Process, NEW kind \in Kinds, Connect(p, kind) PROVE HInv'
  BY <1>2, ConnectHandOver
<1>3. ASSUME NEW p \in Process, StatusWrite(p) \/ Timers(p) PROVE HInv'
  BY <1>3, CloseHandOver, StatusHandOver DEF Timers
<1>4. CASE TakeoverAdvance
  BY <1>4, AdvanceHandOver
<1>5. CASE UNCHANGED takeoverVars
  <2>1. UNCHANGED vars /\ UNCHANGED <<open, closing, closeAge, suspended, reread, rereadAge>>
    BY <1>5 DEF takeoverVars, drainVars, statusVars
  <2> QED
    BY <2>1, OutsideLease DEF HInv, SocketsFit, HandOver, Leaves, Gone
<1> QED
  BY <1>1, <1>2, <1>3, <1>4, <1>5 DEF TakeoverNext

\* With a margin that covers the beat the hand-over holds in every reachable
\* state.
LEMMA HandOverInvariance ==
  ASSUME MarginCovers
  PROVE  TakeoverSpec => [](TInv /\ HInv)
<1>1. OnTime
  BY DEF MarginCovers
<1>2. Spec => [](IInv /\ TimedInv)
  BY <1>1, TimedInvariance
<1>3. IInv /\ TimedInv /\ TInv /\ HInv /\ [TakeoverNext]_takeoverVars => HInv'
  BY NextHInv
<1> QED
  BY <1>2, <1>3, InitHInv, TakeoverInvariance, ImplementsLease, PTL DEF TakeoverSpec

\* The holder's status timers are armed only while nobody else can write a
\* status: none of them overwrites a newer row that its map misses.  No statement
\* fails and the margin covers the displaced process's next beat.
THEOREM ArmedTimersKnowTableTheorem ==
  ASSUME MarginCovers
  PROVE  TakeoverSpec => ArmedTimersKnowTable
<1> DEFINE Armed(p) == Serving(p) /\ row # NoRow /\ row.holder = p /\ ~suspended[p]
           Known == \A p \in Process : Armed(p) /\ table' # table => known'[p] = table'
<1>1. TInv /\ HInv /\ [TakeoverNext]_takeoverVars => [Known]_takeoverVars
  <2> SUFFICES ASSUME TInv, HInv, TakeoverNext, NEW p \in Process, Armed(p), table' # table
               PROVE  known'[p] = table'
    OBVIOUS
  <2>1. PICK q \in Process : StatusWrite(q)
    BY DEF TakeoverNext, LeaseStep, LeaseTick, LeaseStatement, RoleFollows, Connect, Timers,
           CloseSockets, Reread, Rehydrated, TakeoverAdvance, statusVars
  <2>2. q = p
    BY <2>1 DEF StatusWrite, HInv, HandOver, Gone, IsHolder
  <2> QED
    BY <2>1, <2>2 DEF StatusWrite, TInv, TakeoverTypeOK
<1> QED
  BY <1>1, HandOverInvariance, PTL DEF TakeoverSpec, ArmedTimersKnowTable

\* "The serving process re-reads the table once they are closed": under the same
\* conditions it does.
THEOREM RereadAfterClosesTheorem ==
  ASSUME MarginCovers
  PROVE  TakeoverSpec => []RereadAfterCloses
<1>1. TInv /\ HInv => RereadAfterCloses
  <2> SUFFICES ASSUME TInv, HInv, NEW p \in Process, NEW q \in Process,
                      reread[p] = "running", row # NoRow, row.holder = p,
                      startedAt[q] < startedAt[p]
               PROVE  open[q] = {}
    BY DEF RereadAfterCloses
  <2> p # q
    BY DEF TInv, TypeOK
  <2>1. Serving(p)
    BY DEF HInv, SocketsFit
  <2> QED
    BY <2>1 DEF HInv, HandOver, Gone, IsHolder
<1> QED
  BY <1>1, HandOverInvariance, PTL

=============================================================================
