-------------------------- MODULE OrchestratorLease --------------------------
(***************************************************************************)
(* The row in `orchestrator_leases` that decides which of several          *)
(* overlapping orchestrator processes does the singleton work              *)
(* (backend/src/services/orchestratorLease.ts and                          *)
(* orchestratorLeasePrisma.ts).                                            *)
(*                                                                         *)
(* Every SQL statement of the store is a step of its own: between two      *)
(* statements of one call another process may write the row, time may      *)
(* pass, the process may die, and somebody may delete the row by hand.  A  *)
(* statement that throws either never ran or ran and lost its reply.  The  *)
(* handling of a statement's reply is part of the statement's step: what   *)
(* it changes is local to the process.                                     *)
(*                                                                         *)
(* Dates are kept as ages.  row.silence is how long ago heartbeatAt is,    *)
(* lag[p] how long ago the call in flight read its `now`, wait[p] how long *)
(* ago the interval last fired.  Only the differences matter to the code,  *)
(* and ages let time go on forever in a finite model.  Start times are     *)
(* only compared with each other: they are ranks, equal when two processes *)
(* start in the same millisecond.  Hosts are assumed to agree on the time. *)
(***************************************************************************)
EXTENDS Integers

CONSTANTS
  Process,     \* holder ids: one per process ever started, never reused
  NoRow,       \* what findUnique returns when there is no row
  Heartbeat,   \* heartbeatMs
  Stale,       \* staleMs
  Rounds,      \* rounds of claimIfOlder (3 in the code)
  MaxStart,    \* bound: number of distinct start instants
  MaxLag,      \* bound: longest time one store call takes
  MaxLate,     \* bound: how late the interval may fire (a stalled process)
  MaxErrors,   \* bound: statements that throw
  MaxDeletes   \* bound: times the row is deleted by hand

ASSUME LeaseAssumption ==
  /\ Heartbeat \in Nat \ {0} /\ Stale \in Nat /\ Stale >= 3 * Heartbeat
  /\ Rounds \in Nat \ {0} /\ MaxStart \in Nat \ {0}
  /\ MaxLag \in Nat /\ MaxLate \in Nat
  /\ MaxErrors \in Nat /\ MaxDeletes \in Nat
  /\ NoRow \notin [holder : Process, claimedAt : Nat, silence : Nat]

VARIABLES
  status,      \* "new", "starting" (start() awaits its claim), "running", "dead"
  role,        \* role
  claimed,     \* claimed: the row has been written, as far as the process knows
  startedAt,   \* startedAt, 0 before start()
  pc,          \* the statement the process awaits, "idle" when it awaits none
  round,       \* loop counter of claimIfOlder
  lag,         \* age of the `now` the call in flight captured
  wait,        \* time since the interval last fired
  row,         \* the row, or NoRow
  errors, deletes   \* counters of the bounds above

local == <<status, role, claimed, pc, round>>
timing == <<lag, wait>>
budget == <<errors, deletes>>
vars == <<status, role, claimed, startedAt, pc, round, lag, wait, row, errors, deletes>>

Statements == {"update", "find", "create", "beat",
               "staleUpdate", "staleFind", "staleCreate"}

MaxSilence == Stale + MaxLag + 1   \* older ages answer every test alike

Row == [holder : Process, claimedAt : 1..MaxStart, silence : 0..MaxSilence]

TypeOK ==
  /\ status \in [Process -> {"new", "starting", "running", "dead"}]
  /\ role \in [Process -> {"serving", "draining"}]
  /\ claimed \in [Process -> BOOLEAN]
  /\ startedAt \in [Process -> 0..MaxStart]
  /\ pc \in [Process -> Statements \cup {"idle"}]
  /\ round \in [Process -> 1..Rounds]
  /\ lag \in [Process -> 0..MaxLag]
  /\ wait \in [Process -> 0..(Heartbeat + MaxLate)]
  /\ row \in Row \cup {NoRow}
  /\ errors \in 0..MaxErrors
  /\ deletes \in 0..MaxDeletes

Init ==
  /\ status = [p \in Process |-> "new"]
  /\ role = [p \in Process |-> "draining"]
  /\ claimed = [p \in Process |-> FALSE]
  /\ startedAt = [p \in Process |-> 0]
  /\ pc = [p \in Process |-> "idle"]
  /\ round = [p \in Process |-> 1]
  /\ lag = [p \in Process |-> 0]
  /\ wait = [p \in Process |-> 0]
  /\ row = NoRow
  /\ errors = 0
  /\ deletes = 0

Alive(p) == status[p] \in {"starting", "running"}
Serving(p) == status[p] = "running" /\ role[p] = "serving"

(***************************************************************************)
(* The statements' effects on the row.                                     *)
(***************************************************************************)

\* Wrong: the row is dated before start() has set startedAt.
OwnRowUndated(p) == [holder |-> p, claimedAt |-> 0, silence |-> lag[p]]

OwnRow(p) == [holder |-> p, claimedAt |-> startedAt[p], silence |-> lag[p]]

\* Wrong: the update takes the row from a process of any age.
HitsAnyAge(p) ==
  \/ pc[p] = "update" /\ row # NoRow
  \/ pc[p] \in {"create", "staleCreate"} /\ row = NoRow
  \/ pc[p] = "beat" /\ row # NoRow /\ row.holder = p
  \/ pc[p] = "staleUpdate" /\ row # NoRow /\ row.silence > lag[p] + Stale

\* Wrong: one missed heartbeat already counts as stale.
HitsOneBeat(p) ==
  \/ pc[p] = "update" /\ row # NoRow /\ row.claimedAt < startedAt[p]
  \/ pc[p] \in {"create", "staleCreate"} /\ row = NoRow
  \/ pc[p] = "beat" /\ row # NoRow /\ row.holder = p
  \/ pc[p] = "staleUpdate" /\ row # NoRow /\ row.silence > lag[p] + Heartbeat

\* count > 0: the statement p awaits changes the row.
Hits(p) ==
  \/ pc[p] = "update" /\ row # NoRow /\ row.claimedAt < startedAt[p]
  \/ pc[p] \in {"create", "staleCreate"} /\ row = NoRow
  \/ pc[p] = "beat" /\ row # NoRow /\ row.holder = p
  \/ pc[p] = "staleUpdate" /\ row # NoRow /\ row.silence > lag[p] + Stale

\* The row once the statement p awaits has run.
Written(p) ==
  IF ~Hits(p) THEN row
  ELSE IF pc[p] = "beat" THEN [row EXCEPT !.silence = lag[p]]
  ELSE OwnRow(p)

(***************************************************************************)
(* How a call goes on.                                                     *)
(***************************************************************************)

Goto(p, statement) ==
  /\ pc' = [pc EXCEPT ![p] = statement]
  /\ UNCHANGED <<status, role, claimed, round, lag>>

\* No call in flight: the locals of one are forgotten.
Return(p) ==
  /\ pc' = [pc EXCEPT ![p] = "idle"]
  /\ round' = [round EXCEPT ![p] = 1]
  /\ lag' = [lag EXCEPT ![p] = 0]

\* The store call returned `held`.  One rule for start(), which arms the
\* interval, for a serving tick and for a draining one.
Answer(p, held) ==
  /\ Return(p)
  /\ status' = [status EXCEPT ![p] = "running"]
  /\ claimed' = [claimed EXCEPT ![p] = @ \/ held]
  /\ role' = [role EXCEPT ![p] = IF held THEN "serving" ELSE "draining"]

\* Wrong: a draining process never looks for a stale row.
RefusedForGood(p) == Answer(p, FALSE)

\* claimIfOlder returned false: a draining tick tries reclaimIfStale next.
Refused(p) ==
  IF status[p] = "running" /\ role[p] = "draining"
  THEN Goto(p, "staleUpdate")
  ELSE Answer(p, FALSE)

NextRound(p) ==
  \/ /\ round[p] < Rounds
     /\ round' = [round EXCEPT ![p] = @ + 1]
     /\ pc' = [pc EXCEPT ![p] = "update"]
     /\ UNCHANGED <<status, role, claimed, lag>>
  \/ round[p] = Rounds /\ Refused(p)

(***************************************************************************)
(* start() and the interval.                                               *)
(***************************************************************************)

\* start(): a process starts no earlier than those started before it.
Start(p) ==
  /\ status[p] = "new"
  /\ \E t \in 1..MaxStart :
       /\ \A q \in Process : startedAt[q] <= t
       /\ startedAt' = [startedAt EXCEPT ![p] = t]
  /\ status' = [status EXCEPT ![p] = "starting"]
  /\ pc' = [pc EXCEPT ![p] = "update"]
  /\ UNCHANGED <<role, claimed, round, lag, wait, row, budget>>

\* tick(): nothing while the previous tick still awaits the store.
Tick(p) ==
  /\ status[p] = "running"
  /\ wait[p] >= Heartbeat
  /\ wait' = [wait EXCEPT ![p] = 0]
  /\ pc' = [pc EXCEPT ![p] =
              IF @ # "idle" THEN @
              ELSE IF role[p] = "serving" /\ claimed[p] THEN "beat" ELSE "update"]
  /\ UNCHANGED <<status, role, claimed, startedAt, round, lag, row, budget>>

(***************************************************************************)
(* The store's statements.                                                 *)
(***************************************************************************)

\* claimIfOlder: updateMany where claimedAt < startedAt.
UpdateOlder(p) ==
  /\ pc[p] = "update"
  /\ row' = Written(p)
  /\ IF Hits(p) THEN Answer(p, TRUE) ELSE Goto(p, "find")

\* Wrong: gives up on any other process's row, older or not.
FindRowGivesUp(p) ==
  /\ pc[p] = "find"
  /\ row' = row
  /\ \/ row = NoRow /\ Goto(p, "create")
     \/ row # NoRow /\ row.holder = p /\ Answer(p, TRUE)
     \/ row # NoRow /\ row.holder # p /\ Refused(p)

\* claimIfOlder: findUnique, and what each outcome leads to.
FindRow(p) ==
  /\ pc[p] = "find"
  /\ row' = row
  /\ \/ row = NoRow /\ Goto(p, "create")
     \/ row # NoRow /\ row.holder = p /\ Answer(p, TRUE)
     \/ /\ row # NoRow /\ row.holder # p
        /\ IF row.claimedAt >= startedAt[p] THEN Refused(p) ELSE NextRound(p)

\* claimIfOlder: createMany with skipDuplicates.
CreateRow(p) ==
  /\ pc[p] = "create"
  /\ row' = Written(p)
  /\ IF Hits(p) THEN Answer(p, TRUE) ELSE NextRound(p)

\* heartbeat: updateMany where holderId.
Beat(p) ==
  /\ pc[p] = "beat"
  /\ row' = Written(p)
  /\ Answer(p, Hits(p))

\* reclaimIfStale: updateMany where heartbeatAt < staleBefore.
ReclaimStale(p) ==
  /\ pc[p] = "staleUpdate"
  /\ row' = Written(p)
  /\ IF Hits(p) THEN Answer(p, TRUE) ELSE Goto(p, "staleFind")

\* reclaimIfStale: is there a row at all?
FindAny(p) ==
  /\ pc[p] = "staleFind"
  /\ row' = row
  /\ IF row = NoRow THEN Goto(p, "staleCreate") ELSE Answer(p, FALSE)

\* reclaimIfStale: createMany with skipDuplicates.
CreateAny(p) ==
  /\ pc[p] = "staleCreate"
  /\ row' = Written(p)
  /\ Answer(p, Hits(p))

Statement(p) ==
  /\ \/ UpdateOlder(p) \/ FindRow(p) \/ CreateRow(p) \/ Beat(p)
     \/ ReclaimStale(p) \/ FindAny(p) \/ CreateAny(p)
  /\ UNCHANGED <<startedAt, wait, budget>>

\* Wrong: a failed statement drains the process.
ThrowDrains(p) ==
  /\ pc[p] # "idle"
  /\ errors < MaxErrors
  /\ errors' = errors + 1
  /\ row' \in {row, Written(p)}
  /\ Return(p)
  /\ status' = [status EXCEPT ![p] = "running"]
  /\ role' = [role EXCEPT ![p] = IF status[p] = "starting" THEN "serving" ELSE "draining"]
  /\ UNCHANGED <<claimed, startedAt, wait, deletes>>

\* The statement throws, before or after it ran.  start() serves anyway; a
\* tick leaves the role as it is.
Throw(p) ==
  /\ pc[p] # "idle"
  /\ errors < MaxErrors
  /\ errors' = errors + 1
  /\ row' \in {row, Written(p)}
  /\ Return(p)
  /\ status' = [status EXCEPT ![p] = "running"]
  /\ role' = [role EXCEPT ![p] = IF status[p] = "starting" THEN "serving" ELSE @]
  /\ UNCHANGED <<claimed, startedAt, wait, deletes>>

(***************************************************************************)
(* The environment.                                                        *)
(***************************************************************************)

\* The process exits or is killed; nothing releases the row.  A statement in
\* flight may still run.
Crash(p) ==
  /\ Alive(p)
  /\ row' \in {row, Written(p)}
  /\ Return(p)
  /\ status' = [status EXCEPT ![p] = "dead"]
  /\ wait' = [wait EXCEPT ![p] = 0]
  /\ UNCHANGED <<role, claimed, startedAt, budget>>

\* "The row was deleted by hand."
DeleteRow ==
  /\ row # NoRow
  /\ deletes < MaxDeletes
  /\ deletes' = deletes + 1
  /\ row' = NoRow
  /\ UNCHANGED <<local, startedAt, timing, errors>>

Older(age, bound) == IF age < bound THEN age + 1 ELSE age

\* One unit of time passes, unless that would break one of the bounds.
Advance ==
  /\ \A p \in Process :
       /\ pc[p] # "idle" => lag[p] < MaxLag
       /\ status[p] = "running" => wait[p] < Heartbeat + MaxLate
  /\ lag' = [p \in Process |-> IF pc[p] # "idle" THEN lag[p] + 1 ELSE lag[p]]
  /\ wait' = [p \in Process |-> IF status[p] = "running" THEN wait[p] + 1 ELSE wait[p]]
  /\ row' = IF row = NoRow THEN NoRow
            ELSE [row EXCEPT !.silence = Older(@, MaxSilence)]
  /\ UNCHANGED <<local, startedAt, budget>>

Next ==
  \/ \E p \in Process : Start(p) \/ Tick(p) \/ Statement(p) \/ Throw(p) \/ Crash(p)
  \/ DeleteRow
  \/ Advance

Spec == Init /\ [][Next]_vars

-----------------------------------------------------------------------------
(***************************************************************************)
(* Properties.                                                             *)
(***************************************************************************)

\* The row's claimedAt is the start time of the process it names, whenever
\* and by whichever statement that process wrote it: ages compare processes.
RowNamesItsStart == row # NoRow => row.claimedAt = startedAt[row.holder]

\* "The newest process wins, and a claim that lands late never takes it from a
\* process that started later": the row passes from one process straight to
\* another only if the new one started later, or the old one has been silent
\* for longer than staleMs.
NewerOrSilent ==
  [][ row # NoRow /\ row' # NoRow /\ row'.holder # row.holder
      => \/ startedAt[row'.holder] > startedAt[row.holder]
         \/ row.silence > Stale ]_vars

\* With timers that fire on time, no store call longer than half a heartbeat and
\* at most one failed statement, a live process never loses the row to one that
\* did not start after it: three heartbeats of staleMs leave room for a missed
\* one and for the calls, that of start() and that of the beat, that date the row.
LiveHolderKept ==
  [][ row # NoRow /\ row' # NoRow /\ row'.holder # row.holder /\ Alive(row.holder)
      => startedAt[row'.holder] > startedAt[row.holder] ]_vars

\* Under the same conditions, and while nobody deletes the row, a process stops
\* serving only when the row names another process that started no earlier:
\* never for an older one.
StepsAsideForNewer ==
  [][ \A p \in Process :
        deletes = 0 /\ Serving(p) /\ role'[p] = "draining"
        => /\ row' # NoRow /\ row'.holder # p
           /\ startedAt[row'.holder] >= startedAt[p] ]_vars

\* A process that serves without ever having written the row (start() could not
\* reach the database) gives way only to one that started no earlier than it,
\* as long as nobody deletes the row: deletions between the statements of one
\* call can use up the rounds of claimIfOlder, and then it gives way to any.
UnclaimedYieldsToNewer ==
  [][ \A p \in Process :
        deletes = 0 /\ Serving(p) /\ ~claimed[p] /\ role'[p] = "draining"
        => row # NoRow /\ startedAt[row.holder] >= startedAt[p] ]_vars

\* Once processes stop dying, statements stop throwing and nobody deletes the
\* row, the running processes agree for good: exactly one serves, it holds the
\* row, and no running process started after it.
Running == {p \in Process : status[p] = "running"}
Settled ==
  /\ row # NoRow
  /\ row.holder \in Running
  /\ \A p \in Running : /\ startedAt[p] <= startedAt[row.holder]
                        /\ Serving(p) <=> p = row.holder
NewestServesForGood == <>[](Running # {} => Settled)

=============================================================================
