------------------------------ MODULE Takeover ------------------------------
(***************************************************************************)
(* What a process does when the lease changes its role: the drain          *)
(* (orchestratorDrain.ts), the re-read of session_statuses                 *)
(* (statusTakeover.ts, status.ts) and index.ts, which wires both to the    *)
(* lease.  OrchestratorLease supplies the roles and the clock; every step  *)
(* of it that changes a role runs onServe or onDrain in the same step, as  *)
(* become() does.                                                          *)
(*                                                                         *)
(* The statuses of all sessions are one version number: `table` counts the *)
(* status writes in session_statuses, known[p] is the newest of them in    *)
(* p's statusMap.                                                          *)
(***************************************************************************)
EXTENDS OrchestratorLease, FiniteSets

CONSTANTS
  Grace,         \* drainGraceMs
  BrowserDelay,  \* drainBrowserDelayMs
  Margin,        \* what statusTakeover adds to both (5_000 in the code)
  ReadsFail,     \* whether a re-read may fail
  MaxWrites      \* bound: status writes

ASSUME TakeoverAssumption ==
  /\ Grace \in Nat /\ BrowserDelay \in Nat /\ Margin \in Nat /\ MaxWrites \in Nat
  /\ ReadsFail \in BOOLEAN

VARIABLES
  open,       \* kinds of sockets the process holds: "agents", "browsers"
  closing,    \* the pending drain timer: "none", "agents" or "browsers"
  closeAge,   \* how long that timer has been pending
  suspended,  \* timersSuspended: no auto-idle or milestone timer is armed
  reread,     \* re-read of the current term: "none", "pending" (timer), "running"
  rereadAge,  \* how long its timer has been pending
  table, known

drainVars == <<open, closing, closeAge>>
statusVars == <<suspended, reread, rereadAge, table, known>>
takeoverVars == <<vars, drainVars, statusVars>>

Kinds == {"agents", "browsers"}
\* Wrong: the re-read does not wait for the agents' grace period.
RereadDelayNoGrace == BrowserDelay + Margin

RereadDelay == Grace + BrowserDelay + Margin
CloseDelay(kind) == IF kind = "agents" THEN Grace ELSE BrowserDelay

TakeoverTypeOK ==
  /\ open \in [Process -> SUBSET Kinds]
  /\ closing \in [Process -> Kinds \cup {"none"}]
  /\ closeAge \in [Process -> Nat]
  /\ \A p \in Process :
       closeAge[p] <= IF closing[p] = "none" THEN 0 ELSE CloseDelay(closing[p]) + MaxLate
  /\ suspended \in [Process -> BOOLEAN]
  /\ reread \in [Process -> {"none", "pending", "running"}]
  /\ rereadAge \in [Process -> 0..(RereadDelay + MaxLate)]
  /\ table \in 0..MaxWrites
  /\ known \in [Process -> 0..MaxWrites]

\* With the lease on, hydrating arms no timers (index.ts).
TakeoverInit ==
  /\ Init
  /\ open = [p \in Process |-> {}]
  /\ closing = [p \in Process |-> "none"]
  /\ closeAge = [p \in Process |-> 0]
  /\ suspended = [p \in Process |-> TRUE]
  /\ reread = [p \in Process |-> "none"]
  /\ rereadAge = [p \in Process |-> 0]
  /\ table = 0
  /\ known = [p \in Process |-> 0]

(***************************************************************************)
(* A step of the lease, with what the changed role sets off.               *)
(***************************************************************************)

Ends(p) == status'[p] = "dead"
StartsServing(p) == role[p] = "draining" /\ role'[p] = "serving"
StopsServing(p) == role[p] = "serving" /\ role'[p] = "draining"

\* Wrong: a close scheduled by an earlier drain stays scheduled.
DrainFollowsKeepsTimer ==
  /\ closing' = [p \in Process |->
                   IF Ends(p) THEN "none" ELSE IF StopsServing(p) THEN "agents" ELSE closing[p]]
  /\ closeAge' = [p \in Process |-> IF Ends(p) \/ StopsServing(p) THEN 0 ELSE closeAge[p]]
  /\ open' = [p \in Process |-> IF Ends(p) THEN {} ELSE open[p]]

\* Wrong: the browsers go first.
DrainFollowsBrowsersFirst ==
  /\ closing' = [p \in Process |->
                   IF Ends(p) \/ StartsServing(p) THEN "none"
                   ELSE IF StopsServing(p) THEN "browsers" ELSE closing[p]]
  /\ closeAge' = [p \in Process |->
                   IF Ends(p) \/ StartsServing(p) \/ StopsServing(p)
                   THEN 0 ELSE closeAge[p]]
  /\ open' = [p \in Process |-> IF Ends(p) THEN {} ELSE open[p]]

\* serve() cancels a pending close; drain() sets the first timer.
DrainFollows ==
  /\ closing' = [p \in Process |->
                   IF Ends(p) \/ StartsServing(p) THEN "none"
                   ELSE IF StopsServing(p) THEN "agents" ELSE closing[p]]
  /\ closeAge' = [p \in Process |->
                   IF Ends(p) \/ StartsServing(p) \/ StopsServing(p)
                   THEN 0 ELSE closeAge[p]]
  /\ open' = [p \in Process |-> IF Ends(p) THEN {} ELSE open[p]]

\* serve() suspends the timers and schedules a re-read of its own term;
\* drain() suspends them and forgets a pending or running one.
RereadFollows ==
  /\ suspended' = [p \in Process |->
                     suspended[p] \/ StartsServing(p) \/ StopsServing(p) \/ Ends(p)]
  /\ reread' = [p \in Process |->
                  IF StartsServing(p) THEN "pending"
                  ELSE IF StopsServing(p) \/ Ends(p) THEN "none" ELSE reread[p]]
  /\ rereadAge' = [p \in Process |->
                  IF StartsServing(p) \/ StopsServing(p) \/ Ends(p)
                  THEN 0 ELSE rereadAge[p]]

\* hydrateStatuses runs before the process listens and starts its lease.
Hydrated ==
  known' = [p \in Process |->
              IF status[p] = "new" /\ status'[p] = "starting" THEN table ELSE known[p]]

RoleFollows == DrainFollows /\ RereadFollows /\ Hydrated /\ UNCHANGED table

LeaseTick(p) == Tick(p) /\ RoleFollows
LeaseStatement(p) == Statement(p) /\ RoleFollows

LeaseStep ==
  \/ \E p \in Process : \/ LeaseTick(p)
                        \/ LeaseStatement(p)
                        \/ (Start(p) \/ Throw(p) \/ Crash(p)) /\ RoleFollows
  \/ DeleteRow /\ RoleFollows

(***************************************************************************)
(* Sockets and the drain's timers.                                         *)
(***************************************************************************)

\* wss.on('connection'): a process that does not serve takes no sockets.
Connect(p, kind) ==
  /\ Serving(p)
  /\ kind \notin open[p]
  /\ open' = [open EXCEPT ![p] = @ \cup {kind}]
  /\ UNCHANGED <<vars, closing, closeAge, statusVars>>

\* Wrong: the browsers' delay counts from the drain, not from the agents' close.
CloseSocketsAtOnce(p) ==
  /\ closing[p] # "none"
  /\ closeAge[p] >= CloseDelay(closing[p])
  /\ open' = [open EXCEPT ![p] = @ \ {closing[p]}]
  /\ closing' = [closing EXCEPT ![p] = IF @ = "agents" THEN "browsers" ELSE "none"]
  /\ closeAge' = closeAge
  /\ UNCHANGED <<vars, statusVars>>

\* Wrong: the agents' close does not schedule the browsers'.
CloseSocketsAgentsOnly(p) ==
  /\ closing[p] # "none"
  /\ closeAge[p] >= CloseDelay(closing[p])
  /\ open' = [open EXCEPT ![p] = @ \ {closing[p]}]
  /\ closing' = [closing EXCEPT ![p] = "none"]
  /\ closeAge' = [closeAge EXCEPT ![p] = 0]
  /\ UNCHANGED <<vars, statusVars>>

\* The pending drain timer fires: closeAgents, then closeBrowsers.
CloseSockets(p) ==
  /\ closing[p] # "none"
  /\ closeAge[p] >= CloseDelay(closing[p])
  /\ open' = [open EXCEPT ![p] = @ \ {closing[p]}]
  /\ closing' = [closing EXCEPT ![p] = IF @ = "agents" THEN "browsers" ELSE "none"]
  /\ closeAge' = [closeAge EXCEPT ![p] = 0]
  /\ UNCHANGED <<vars, statusVars>>

(***************************************************************************)
(* Statuses.                                                               *)
(***************************************************************************)

\* A status arrives over a socket p holds: into its map, and into the table.
StatusWrite(p) ==
  /\ open[p] # {}
  /\ table < MaxWrites
  /\ table' = table + 1
  /\ known' = [known EXCEPT ![p] = table + 1]
  /\ UNCHANGED <<vars, drainVars, suspended, reread, rereadAge>>

\* The re-read's timer fires.
Reread(p) ==
  /\ reread[p] = "pending"
  /\ rereadAge[p] >= RereadDelay
  /\ reread' = [reread EXCEPT ![p] = "running"]
  /\ rereadAge' = [rereadAge EXCEPT ![p] = 0]
  /\ UNCHANGED <<vars, drainVars, suspended, table, known>>

\* Wrong: a failed read leaves the timers suspended.
RehydratedOnSuccess(p) ==
  /\ reread[p] = "running"
  /\ reread' = [reread EXCEPT ![p] = "none"]
  /\ \/ /\ known' = [known EXCEPT ![p] = table]
        /\ suspended' = [suspended EXCEPT ![p] = FALSE]
     \/ ReadsFail /\ UNCHANGED <<known, suspended>>
  /\ UNCHANGED <<vars, drainVars, rereadAge, table>>

\* The rows are in (newer ones replace the map's) or the read failed; either
\* way the timers are armed.
Rehydrated(p) ==
  /\ reread[p] = "running"
  /\ reread' = [reread EXCEPT ![p] = "none"]
  /\ suspended' = [suspended EXCEPT ![p] = FALSE]
  /\ known' = [known EXCEPT ![p] = table] \/ (ReadsFail /\ known' = known)
  /\ UNCHANGED <<vars, drainVars, rereadAge, table>>

(***************************************************************************)
(* Time, which the new timers bound as well.                               *)
(***************************************************************************)

TakeoverAdvance ==
  /\ Advance
  /\ \A p \in Process :
       /\ closing[p] # "none" => closeAge[p] < CloseDelay(closing[p]) + MaxLate
       /\ reread[p] = "pending" => rereadAge[p] < RereadDelay + MaxLate
       /\ reread[p] # "running"
  /\ closeAge' = [p \in Process |-> IF closing[p] = "none" THEN 0 ELSE closeAge[p] + 1]
  /\ rereadAge' = [p \in Process |-> IF reread[p] # "pending" THEN 0 ELSE rereadAge[p] + 1]
  /\ UNCHANGED <<open, closing, suspended, reread, table, known>>

Timers(p) == CloseSockets(p) \/ Reread(p) \/ Rehydrated(p)

TakeoverNext ==
  \/ LeaseStep
  \/ \E p \in Process : \/ \E kind \in Kinds : Connect(p, kind)
                        \/ StatusWrite(p)
                        \/ Timers(p)
  \/ TakeoverAdvance

TakeoverSpec == TakeoverInit /\ [][TakeoverNext]_takeoverVars

\* The interval keeps firing, the database keeps answering, timers fire and time
\* passes. Nothing obliges a process to start or to die, or a statement to throw.
TakeoverFairSpec ==
  /\ TakeoverSpec
  /\ WF_takeoverVars(TakeoverAdvance)
  /\ \A p \in Process :
       /\ WF_takeoverVars(LeaseTick(p))
       /\ WF_takeoverVars(LeaseStatement(p))
       /\ WF_takeoverVars(Timers(p))

-----------------------------------------------------------------------------
\* A serving process keeps its sockets: no close that a past drain scheduled
\* outlives the drain, so a process that takes the lease back within the grace
\* period has lost nobody.
ServingKeepsSockets ==
  [][ \A p \in Process :
        Serving(p) /\ ~Ends(p) => open[p] \subseteq open'[p] ]_takeoverVars

\* Browsers are closed only once the agents are gone: the agents have redialled
\* to the new process before any page is told to.
AgentsGoFirst ==
  [][ \A p \in Process :
        "browsers" \in open[p] \ open'[p] /\ ~Ends(p) => "agents" \notin open[p] ]_takeoverVars

\* "The serving process re-reads the table once they are closed, and runs no
\* auto-idle or milestone timer before that": while the holder of the lease has
\* its status timers armed, no other process writes a status, so no timer of its
\* overwrites a newer row its map misses.
ArmedTimersKnowTable ==
  [][ \A p \in Process :
        Serving(p) /\ row # NoRow /\ row.holder = p /\ ~suspended[p] /\ table' # table
        => known'[p] = table' ]_takeoverVars

\* "So the serving process re-reads the table once they are closed": when the
\* holder of the lease re-reads, the older process it displaced has no socket
\* left.
RereadAfterCloses ==
  \A p, q \in Process :
    /\ reread[p] = "running" /\ row # NoRow /\ row.holder = p
    /\ claimed[q] /\ startedAt[q] < startedAt[p]
    => open[q] = {}

\* A displaced process that is not called back lets go of every socket: in the
\* end only the process that serves holds any.
DisplacedLetsGo == <>[](\A p \in Process : open[p] # {} => Serving(p))

\* A process that serves for good has its status timers armed in the end, also
\* after a re-read that failed or that a drain cut short.
TimersComeBack == <>[](\A p \in Process : Serving(p) => ~suspended[p])

=============================================================================
