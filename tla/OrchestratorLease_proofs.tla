----------------------- MODULE OrchestratorLease_proofs -----------------------
(***************************************************************************)
(* Proofs about the orchestrator lease, for any set of processes, any      *)
(* heartbeat and stale times and any number of errors, deletions and       *)
(* rounds.  The inductive invariant is the type invariant, together with   *)
(* RowNamesItsStart and two facts it rests on: only a process that has     *)
(* started awaits a statement, and a process starts once.  The second half *)
(* is about time: with the hypothesis OnTime, who keeps the row and for    *)
(* whom a process steps aside.                                             *)
(***************************************************************************)
EXTENDS OrchestratorLease, TLAPS

\* A process that awaits a statement is alive; one that never started has
\* start time 0, so it can have written no row.
CallsAreAlive ==
  \A p \in Process : /\ pc[p] # "idle" => Alive(p)
                     /\ status[p] = "new" <=> startedAt[p] = 0

RowHolderStarted == row # NoRow => startedAt[row.holder] # 0

IInv == TypeOK /\ RowNamesItsStart /\ CallsAreAlive /\ RowHolderStarted

\* A row is never NoRow, so a test of one against NoRow is decided by type.
LEMMA RowIsNotNoRow == \A r \in Row : r # NoRow
  BY LeaseAssumption DEF Row, MaxSilence

\* What a process writes as its own row is a row, if it has started.
LEMMA OwnRowType ==
  ASSUME TypeOK, NEW p \in Process, startedAt[p] # 0
  PROVE  /\ OwnRow(p) \in Row
         /\ OwnRow(p).holder = p
         /\ OwnRow(p).claimedAt = startedAt[p]
<1>1. startedAt[p] \in 1..MaxStart
  BY LeaseAssumption DEF TypeOK
<1>2. lag[p] \in 0..MaxSilence
  BY LeaseAssumption DEF TypeOK, MaxSilence
<1> QED
  BY <1>1, <1>2 DEF OwnRow, Row

\* Whatever statement a process awaits, the row afterwards is well-formed and
\* names its holder's start time; its holder changes only to that process, and
\* only from one that started earlier, from nobody, or from a silent holder.
LEMMA WrittenRow ==
  ASSUME IInv, NEW p \in Process
  PROVE  /\ Written(p) \in Row \cup {NoRow}
         /\ Written(p) # NoRow =>
              /\ Written(p).claimedAt = startedAt[Written(p).holder]
              /\ startedAt[Written(p).holder] # 0
         /\ row # NoRow /\ Written(p) # NoRow /\ Written(p).holder # row.holder =>
              \/ startedAt[Written(p).holder] > startedAt[row.holder]
              \/ row.silence > Stale
<1> USE DEF IInv
<1>1. CASE ~Hits(p)
  BY <1>1 DEF Written, TypeOK, RowNamesItsStart, RowHolderStarted
<1>2. CASE Hits(p) /\ pc[p] = "beat"
  <2>1. row # NoRow /\ row \in Row
    BY <1>2 DEF Hits, TypeOK
  <2>2. lag[p] \in 0..MaxSilence
    BY LeaseAssumption DEF TypeOK, MaxSilence
  <2>3. /\ Written(p) = [row EXCEPT !.silence = lag[p]]
        /\ Written(p) \in Row
        /\ Written(p).holder = row.holder
        /\ Written(p).claimedAt = row.claimedAt
    BY <1>2, <2>1, <2>2 DEF Written, Row
  <2> QED
    BY <2>1, <2>3 DEF RowNamesItsStart, RowHolderStarted
<1>3. CASE Hits(p) /\ pc[p] # "beat"
  <2>1. startedAt[p] # 0
    BY <1>3 DEF Hits, CallsAreAlive, Alive
  <2>2. Written(p) = OwnRow(p)
    BY <1>3 DEF Written
  <2>3. row # NoRow => row \in Row
    BY DEF TypeOK
  <2>4. row # NoRow => startedAt[p] > startedAt[row.holder] \/ row.silence > Stale
    <3>1. row # NoRow => row.claimedAt = startedAt[row.holder]
      BY DEF RowNamesItsStart
    <3>2. /\ startedAt[p] \in Nat /\ lag[p] \in Nat
          /\ row # NoRow => row.claimedAt \in Nat /\ row.silence \in Nat
      BY <2>3, LeaseAssumption DEF TypeOK, Row, MaxSilence
    <3> QED
      BY <1>3, <3>1, <3>2, LeaseAssumption DEF Hits
  <2> QED
    BY <2>1, <2>2, <2>4, OwnRowType
<1> QED
  BY <1>1, <1>2, <1>3

\* The ways a call goes on keep the local variables well-typed, and a process
\* that has started stays so.
LEMMA AnswerType ==
  ASSUME TypeOK, NEW p \in Process, NEW held \in BOOLEAN, Alive(p), Answer(p, held)
  PROVE  /\ status' = [status EXCEPT ![p] = "running"]
         /\ role' \in [Process -> {"serving", "draining"}]
         /\ claimed' \in [Process -> BOOLEAN]
         /\ pc' = [pc EXCEPT ![p] = "idle"]
         /\ round' \in [Process -> 1..Rounds]
         /\ lag' \in [Process -> 0..MaxLag]
  BY LeaseAssumption DEF Answer, Return, TypeOK

\* The local part of a step of a started process p: p alone changes status,
\* to "running" at most, and p alone may await another statement.
LocalOK(p) ==
  /\ \/ status' = status
     \/ status' = [status EXCEPT ![p] = "running"]
  /\ role' \in [Process -> {"serving", "draining"}]
  /\ claimed' \in [Process -> BOOLEAN]
  /\ \E s \in Statements \cup {"idle"} : pc' = [pc EXCEPT ![p] = s]
  /\ round' \in [Process -> 1..Rounds]
  /\ lag' \in [Process -> 0..MaxLag]

\* The local state stays sound when the call answers.
LEMMA AnswerOK ==
  ASSUME TypeOK, NEW p \in Process, NEW held \in BOOLEAN, Alive(p), Answer(p, held)
  PROVE  LocalOK(p)
  BY AnswerType DEF LocalOK

\* The local state stays sound when the call goes on to its next statement.
LEMMA GotoOK ==
  ASSUME TypeOK, NEW p \in Process, NEW s \in Statements, Goto(p, s)
  PROVE  LocalOK(p)
  BY DEF Goto, LocalOK, TypeOK

\* ... and when a claim is refused, by whichever branch.
LEMMA RefusedOK ==
  ASSUME TypeOK, NEW p \in Process, Alive(p), Refused(p)
  PROVE  LocalOK(p)
<1>1. "staleUpdate" \in Statements
  BY DEF Statements
<1> QED
  BY <1>1, AnswerOK, GotoOK DEF Refused

\* ... and when the loop of claimIfOlder turns or runs out of rounds.
LEMMA NextRoundOK ==
  ASSUME TypeOK, NEW p \in Process, Alive(p), NextRound(p)
  PROVE  LocalOK(p)
<1>1. CASE Refused(p)
  BY <1>1, RefusedOK
<1>2. CASE /\ round[p] < Rounds
           /\ round' = [round EXCEPT ![p] = @ + 1]
           /\ pc' = [pc EXCEPT ![p] = "update"]
           /\ UNCHANGED <<status, role, claimed, lag>>
  BY <1>2, LeaseAssumption DEF LocalOK, TypeOK, Statements
<1> QED
  BY <1>1, <1>2 DEF NextRound

\* Whether a WHERE clause matches is a Boolean, as role and claimed need it.
LEMMA HitsBoolean == \A p \in Process : Hits(p) \in BOOLEAN
  BY DEF Hits

\* A statement changes the local state as LocalOK says, and the row to what
\* the statement writes, or not at all.
LEMMA StatementOK ==
  ASSUME IInv, NEW p \in Process, Statement(p)
  PROVE  LocalOK(p) /\ row' \in {row, Written(p)}
<1>1. TypeOK /\ Alive(p)
  BY DEF Statement, UpdateOlder, FindRow, CreateRow, Beat, ReclaimStale, FindAny,
         CreateAny, IInv, CallsAreAlive
<1>2. {"find", "create", "staleFind", "staleCreate"} \subseteq Statements
  BY DEF Statements
<1>3. CASE UpdateOlder(p)
  BY <1>1, <1>2, <1>3, AnswerOK, GotoOK DEF UpdateOlder
<1>4. CASE FindRow(p)
  BY <1>1, <1>2, <1>4, AnswerOK, GotoOK, RefusedOK, NextRoundOK DEF FindRow
<1>5. CASE CreateRow(p)
  BY <1>1, <1>2, <1>5, AnswerOK, NextRoundOK DEF CreateRow
<1>6. CASE Beat(p)
  BY <1>1, <1>6, AnswerOK, HitsBoolean DEF Beat
<1>7. CASE ReclaimStale(p)
  BY <1>1, <1>2, <1>7, AnswerOK, GotoOK DEF ReclaimStale
<1>8. CASE FindAny(p)
  BY <1>1, <1>2, <1>8, AnswerOK, GotoOK DEF FindAny
<1>9. CASE CreateAny(p)
  BY <1>1, <1>9, AnswerOK, HitsBoolean DEF CreateAny
<1> QED
  BY <1>3, <1>4, <1>5, <1>6, <1>7, <1>8, <1>9 DEF Statement

(***************************************************************************)
(* The inductive invariant.                                                *)
(***************************************************************************)

\* It holds before any process starts: there is no row.
LEMMA InitIInv == Init => IInv
<1> SUFFICES ASSUME Init PROVE IInv
  OBVIOUS
<1>1. TypeOK
  BY LeaseAssumption DEF Init, TypeOK
<1>2. RowNamesItsStart /\ RowHolderStarted
  BY DEF Init, RowNamesItsStart, RowHolderStarted
<1>3. CallsAreAlive
  BY DEF Init, CallsAreAlive
<1> QED
  BY <1>1, <1>2, <1>3 DEF IInv

\* The three parts about the row survive a step that writes at most what some
\* process's statement writes and leaves every start time alone.
LEMMA RowPartsKept ==
  ASSUME IInv, NEW p \in Process, row' \in {row, Written(p)}, startedAt' = startedAt
  PROVE  row' \in Row \cup {NoRow} /\ RowNamesItsStart' /\ RowHolderStarted'
<1>1. CASE row' = row
  BY <1>1 DEF IInv, TypeOK, RowNamesItsStart, RowHolderStarted
<1>2. CASE row' = Written(p)
  <2>1. /\ Written(p) \in Row \cup {NoRow}
        /\ Written(p) # NoRow =>
             /\ Written(p).claimedAt = startedAt[Written(p).holder]
             /\ startedAt[Written(p).holder] # 0
    BY WrittenRow
  <2> QED
    BY <1>2, <2>1 DEF RowNamesItsStart, RowHolderStarted
<1> QED
  BY <1>1, <1>2

\* A start writes no row: it only takes a start time, which no row names yet.
LEMMA StartIInv ==
  ASSUME IInv, NEW p \in Process, Start(p)
  PROVE  IInv'
<1>1. PICK t \in 1..MaxStart : startedAt' = [startedAt EXCEPT ![p] = t]
  BY DEF Start
<1>2. TypeOK'
  BY <1>1, LeaseAssumption DEF IInv, Start, TypeOK, Statements, budget
<1>3. CallsAreAlive'
  BY <1>1, LeaseAssumption DEF IInv, Start, TypeOK, CallsAreAlive, Alive
<1>4. row # NoRow => row.holder \in Process /\ row.holder # p
  BY RowIsNotNoRow DEF IInv, TypeOK, Row, Start, CallsAreAlive, RowHolderStarted
<1>5. RowNamesItsStart' /\ RowHolderStarted'
  BY <1>1, <1>4 DEF IInv, Start, TypeOK, RowNamesItsStart, RowHolderStarted
<1> QED
  BY <1>2, <1>3, <1>5 DEF IInv

\* The interval puts a call in flight and leaves the row alone.
LEMMA TickIInv ==
  ASSUME IInv, NEW p \in Process, Tick(p)
  PROVE  IInv'
<1>1. PICK s \in Statements : pc' = [pc EXCEPT ![p] = s]
  BY DEF IInv, TypeOK, Tick, Statements
<1>2. TypeOK'
  BY <1>1, LeaseAssumption DEF IInv, Tick, TypeOK, budget
<1>3. CallsAreAlive'
  BY <1>1 DEF IInv, Tick, TypeOK, CallsAreAlive, Alive
<1>4. RowNamesItsStart' /\ RowHolderStarted'
  BY DEF IInv, Tick, RowNamesItsStart, RowHolderStarted
<1> QED
  BY <1>2, <1>3, <1>4 DEF IInv

\* Each statement writes, if it writes, the row of the process that sent it.
LEMMA StatementIInv ==
  ASSUME IInv, NEW p \in Process, Statement(p)
  PROVE  IInv'
<1>1. LocalOK(p) /\ row' \in {row, Written(p)}
  BY StatementOK
<1>2. UNCHANGED <<startedAt, wait, errors, deletes>>
  BY DEF Statement, budget
<1>3. row' \in Row \cup {NoRow} /\ RowNamesItsStart' /\ RowHolderStarted'
  BY <1>1, <1>2, RowPartsKept
<1>4. Alive(p)
  BY DEF Statement, UpdateOlder, FindRow, CreateRow, Beat, ReclaimStale, FindAny,
         CreateAny, IInv, CallsAreAlive
<1>5. TypeOK'
  BY <1>1, <1>2, <1>3 DEF IInv, LocalOK, TypeOK
<1>6. CallsAreAlive'
  BY <1>1, <1>2, <1>4 DEF IInv, LocalOK, TypeOK, CallsAreAlive, Alive
<1> QED
  BY <1>3, <1>5, <1>6 DEF IInv

\* A statement that throws may still have written its row.
LEMMA ThrowIInv ==
  ASSUME IInv, NEW p \in Process, Throw(p)
  PROVE  IInv'
<1>1. row' \in Row \cup {NoRow} /\ RowNamesItsStart' /\ RowHolderStarted'
  BY RowPartsKept DEF Throw
<1>2. Alive(p)
  BY DEF Throw, IInv, CallsAreAlive
<1>3. TypeOK'
  BY <1>1, LeaseAssumption DEF IInv, Throw, Return, TypeOK
<1>4. CallsAreAlive'
  BY <1>2 DEF IInv, Throw, Return, TypeOK, CallsAreAlive, Alive
<1> QED
  BY <1>1, <1>3, <1>4 DEF IInv

\* A dying process may leave a last statement behind; its row names it.
LEMMA CrashIInv ==
  ASSUME IInv, NEW p \in Process, Crash(p)
  PROVE  IInv'
<1>1. row' \in Row \cup {NoRow} /\ RowNamesItsStart' /\ RowHolderStarted'
  BY RowPartsKept DEF Crash
<1>2. TypeOK'
  BY <1>1, LeaseAssumption DEF IInv, Crash, Return, TypeOK, budget
<1>3. CallsAreAlive'
  BY DEF IInv, Crash, Return, TypeOK, CallsAreAlive, Alive
<1> QED
  BY <1>1, <1>2, <1>3 DEF IInv

\* Without a row there is nothing to name.
LEMMA DeleteRowIInv ==
  ASSUME IInv, DeleteRow
  PROVE  IInv'
<1>1. TypeOK'
  BY LeaseAssumption DEF IInv, DeleteRow, TypeOK, local, timing
<1>2. CallsAreAlive' /\ RowNamesItsStart' /\ RowHolderStarted'
  BY DEF IInv, DeleteRow, CallsAreAlive, Alive, RowNamesItsStart, RowHolderStarted, local
<1> QED
  BY <1>1, <1>2 DEF IInv

\* Time changes the silence of the row and nothing it names.
LEMMA AdvanceIInv ==
  ASSUME IInv, Advance
  PROVE  IInv'
<1>1. /\ row' \in Row \cup {NoRow}
      /\ row' # NoRow => /\ row # NoRow
                         /\ row'.holder = row.holder
                         /\ row'.claimedAt = row.claimedAt
  <2>1. CASE row = NoRow
    BY <2>1 DEF Advance
  <2>2. CASE row # NoRow
    <3>1. row \in Row
      BY <2>2 DEF IInv, TypeOK
    <3>2. Older(row.silence, MaxSilence) \in 0..MaxSilence
      BY <3>1, LeaseAssumption DEF Row, Older, MaxSilence
    <3>3. row' = [row EXCEPT !.silence = Older(row.silence, MaxSilence)]
      BY <2>2 DEF Advance
    <3> QED
      BY <2>2, <3>1, <3>2, <3>3 DEF Row
  <2> QED
    BY <2>1, <2>2
<1>2. lag' \in [Process -> 0..MaxLag] /\ wait' \in [Process -> 0..(Heartbeat + MaxLate)]
  BY LeaseAssumption DEF IInv, TypeOK, Advance
<1>3. UNCHANGED <<status, role, claimed, pc, round, startedAt, errors, deletes>>
  BY DEF Advance, local, budget
<1>4. TypeOK'
  BY <1>1, <1>2, <1>3 DEF IInv, TypeOK
<1>5. CallsAreAlive' /\ RowNamesItsStart' /\ RowHolderStarted'
  BY <1>1, <1>3 DEF IInv, CallsAreAlive, Alive, RowNamesItsStart, RowHolderStarted
<1> QED
  BY <1>4, <1>5 DEF IInv

\* Every step keeps the inductive invariant.
LEMMA NextIInv == IInv /\ [Next]_vars => IInv'
<1> SUFFICES ASSUME IInv, [Next]_vars PROVE IInv'
  OBVIOUS
<1>1. ASSUME NEW p \in Process, Start(p) \/ Tick(p) \/ Statement(p) \/ Throw(p) \/ Crash(p)
      PROVE  IInv'
  BY <1>1, StartIInv, TickIInv, StatementIInv, ThrowIInv, CrashIInv
<1>2. CASE DeleteRow
  BY <1>2, DeleteRowIInv
<1>3. CASE Advance
  BY <1>3, AdvanceIInv
<1>4. CASE UNCHANGED vars
  BY <1>4 DEF IInv, TypeOK, RowNamesItsStart, CallsAreAlive, Alive, RowHolderStarted, vars
<1> QED
  BY <1>1, <1>2, <1>3, <1>4 DEF Next

\* The inductive invariant holds in every reachable state.
LEMMA Invariance == Spec => []IInv
  BY InitIInv, NextIInv, PTL DEF Spec

\* The variables of the lease keep their types.
THEOREM TypeCorrect == Spec => []TypeOK
<1>1. IInv => TypeOK
  BY DEF IInv
<1> QED
  BY <1>1, Invariance, PTL

\* The row's claimedAt is always the start time of the process it names.
THEOREM RowNamesItsStartTheorem == Spec => []RowNamesItsStart
<1>1. IInv => RowNamesItsStart
  BY DEF IInv
<1> QED
  BY <1>1, Invariance, PTL

\* A step that passes the row from one process straight to another passes it to
\* one that started later, or from one that was silent.
LEMMA RowPasses ==
  ASSUME IInv, Next, row # NoRow, row' # NoRow, row'.holder # row.holder
  PROVE  startedAt[row'.holder] > startedAt[row.holder] \/ row.silence > Stale
<1> DEFINE Fair == \/ startedAt[row'.holder] > startedAt[row.holder]
                   \/ row.silence > Stale
<1>1. ASSUME NEW p \in Process, row' \in {row, Written(p)} PROVE Fair
  BY <1>1, WrittenRow
<1>2. ASSUME NEW p \in Process, Start(p) \/ Tick(p) PROVE Fair
  BY <1>2 DEF Start, Tick
<1>3. ASSUME NEW p \in Process, Statement(p) \/ Throw(p) \/ Crash(p) PROVE Fair
  BY <1>1, <1>3, StatementOK DEF Throw, Crash
<1>4. CASE DeleteRow
  BY <1>4 DEF DeleteRow
<1>5. CASE Advance
  <2>1. row' = [row EXCEPT !.silence = Older(row.silence, MaxSilence)]
    BY <1>5 DEF Advance
  <2>2. row \in Row
    BY DEF IInv, TypeOK
  <2> QED
    BY <2>1, <2>2 DEF Row
<1> QED
  BY <1>2, <1>3, <1>4, <1>5 DEF Next

\* The newest process wins: no step, in any interleaving, hands the row of a
\* process that has not been silent to one that did not start after it.
THEOREM NewestWins == Spec => NewerOrSilent
<1> DEFINE Passes == row # NoRow /\ row' # NoRow /\ row'.holder # row.holder
           Fair == \/ startedAt[row'.holder] > startedAt[row.holder]
                   \/ row.silence > Stale
<1>1. IInv /\ [Next]_vars => [Passes => Fair]_vars
  BY RowPasses DEF vars
<1> QED
  BY <1>1, Invariance, PTL DEF Spec, NewerOrSilent

(***************************************************************************)
(* How long a process may be silent, for any set of processes and any      *)
(* times that leave room for it.  A process that knows it serves renews    *)
(* the row each time its interval fires, and what it has missed is counted *)
(* in intervals: one for the beat in flight and one for every statement    *)
(* that threw.                                                             *)
(***************************************************************************)

\* The longest time from one firing of the interval to the next.
Gap == Heartbeat + MaxLate

Misses(k) == k * Gap

\* What the code's numbers have to leave room for: a store call shorter than a
\* heartbeat, and in staleMs two calls, the beats that may fail and one that
\* does not.  The default of 5 s and 30 s leaves room for a failed statement,
\* calls of nearly 5 s and timers as late as 5 s; the least staleMs that the
\* configuration allows, 3 heartbeats, for a failed statement, calls of half a
\* heartbeat and punctual timers.
OnTime == MaxLag < Heartbeat /\ 2 * MaxLag + Misses(MaxErrors + 1) <= Stale

\* p renews the row on its next tick.
Knows(p) == Serving(p) /\ claimed[p]

\* The row would go to the wrong process if its age passed staleMs now.
Watches(p) == Knows(p) \/ (row.holder = p /\ Alive(p))

\* The intervals p may have let pass since the row was last written: one more
\* while a call is in flight, one less as long as p is not aware of its row,
\* which takes a failed statement to come about.
Behind(p) ==
  errors + (IF pc[p] = "idle" THEN 0 ELSE 1) - (IF Knows(p) THEN 0 ELSE 1)

\* What the call in flight has to do with the interval and with the role.
CallFits(p) ==
  /\ pc[p] = "idle" => lag[p] = 0 /\ round[p] = 1
  /\ status[p] \in {"new", "starting"} => ~claimed[p]
  /\ status[p] = "new" => pc[p] = "idle"
  /\ status[p] = "running" /\ pc[p] # "idle" => lag[p] = wait[p]
  /\ pc[p] # "idle" /\ Knows(p) => pc[p] = "beat"
  /\ pc[p] = "beat" => Knows(p)
  /\ pc[p] \in {"staleUpdate", "staleFind", "staleCreate"} =>
       status[p] = "running" /\ role[p] = "draining"

\* A live process whose row it is awaits nothing that could find otherwise.
HolderFits(p) ==
  row # NoRow /\ row.holder = p /\ Alive(p) =>
    status[p] = "running" /\ pc[p] \in {"idle", "update", "find", "beat"}

\* The row is no older than what p may have missed.
FreshFor(p) ==
  row # NoRow /\ Watches(p) =>
    Behind(p) >= 0 /\ row.silence <= MaxLag + wait[p] + Misses(Behind(p))

\* In the second round of claimIfOlder there is a row, and one that is not older
\* than p was written after the call began.
RoundFits(p) ==
  /\ pc[p] = "create" =>
       round[p] = 1 /\ (row # NoRow => row.silence <= lag[p] + MaxLag)
  /\ pc[p] = "update" /\ round[p] > 1 =>
       /\ row # NoRow
       /\ row.claimedAt < startedAt[p] \/ row.silence <= lag[p] + MaxLag
  /\ pc[p] = "find" /\ round[p] > 1 =>
       /\ row # NoRow
       /\ row.claimedAt >= startedAt[p] /\ row.silence <= lag[p] + MaxLag

\* The row a process has claimed is there, and while it serves names none older.
ClaimFits(p) ==
  claimed[p] => row # NoRow /\ (Serving(p) => row.claimedAt >= startedAt[p])

TimedInv ==
  \A p \in Process :
    /\ CallFits(p) /\ HolderFits(p) /\ FreshFor(p)
    /\ deletes = 0 => RoundFits(p) /\ ClaimFits(p)

\* Arithmetic: a miss more is an interval more, and staleMs covers them all.
LEMMA MissesFacts ==
  /\ Gap \in Nat
  /\ \A k \in Nat : Misses(k) \in Nat /\ Misses(k + 1) = Misses(k) + Gap
  /\ OnTime => \A k \in Nat : k <= MaxErrors + 1 => 2 * MaxLag + Misses(k) <= Stale
<1>1. Gap \in Nat
  BY LeaseAssumption DEF Gap
<1>2. ASSUME NEW k \in Nat PROVE Misses(k) \in Nat /\ Misses(k + 1) = Misses(k) + Gap
  <2>1. k * Gap \in Nat
    BY <1>1
  <2>2. (k + 1) * Gap = k * Gap + Gap
    BY <1>1
  <2> QED
    BY <2>1, <2>2 DEF Misses
<1>3. ASSUME OnTime, NEW k \in Nat, k <= MaxErrors + 1
      PROVE  2 * MaxLag + Misses(k) <= Stale
  <2>1. MaxErrors + 1 \in Nat
    BY LeaseAssumption
  <2>2. \A j \in Nat : j * Gap \in Nat
    BY <1>1
  <2> DEFINE d == MaxErrors + 1 - k
  <2>3. d \in Nat /\ MaxErrors + 1 = k + d
    BY <1>3, LeaseAssumption
  <2> HIDE DEF d
  <2>4. (k + d) * Gap = k * Gap + d * Gap
    BY <1>1, <2>3
  <2> QED
    BY <1>3, <2>1, <2>2, <2>3, <2>4, LeaseAssumption DEF Misses, OnTime
<1> QED
  BY <1>1, <1>2, <1>3

\* The types the arithmetic needs, in one place.
LEMMA Numbers ==
  ASSUME IInv, NEW p \in Process
  PROVE  /\ lag[p] \in 0..MaxLag /\ wait[p] \in 0..Gap /\ startedAt[p] \in Nat
         /\ round[p] \in 1..Rounds
         /\ errors \in 0..MaxErrors /\ MaxLag \in Nat /\ Stale \in Nat
         /\ row # NoRow => /\ row \in Row /\ row.holder \in Process
                           /\ row.claimedAt \in Nat /\ row.silence \in Nat
                           /\ row.claimedAt = startedAt[row.holder]
  BY LeaseAssumption DEF IInv, TypeOK, Row, MaxSilence, Gap, RowNamesItsStart

\* Nobody's row that is watched grows older than staleMs.
LEMMA WatchedIsFresh ==
  ASSUME IInv, OnTime, NEW p \in Process, CallFits(p), HolderFits(p), FreshFor(p),
         row # NoRow, Watches(p)
  PROVE  row.silence <= Stale
<1>1. /\ Behind(p) \in Nat
      /\ row.silence <= MaxLag + wait[p] + Misses(Behind(p))
  BY Numbers DEF FreshFor, Behind
<1>2. status[p] = "running"
  BY DEF Watches, Knows, Serving, HolderFits
<1>3. CASE pc[p] = "idle"
  <2>1. Behind(p) + 1 <= MaxErrors + 1
    BY <1>3, Numbers, LeaseAssumption DEF Behind
  <2>2. Misses(Behind(p) + 1) = Misses(Behind(p)) + Gap /\ Misses(Behind(p)) \in Nat
    BY <1>1, MissesFacts
  <2>3. 2 * MaxLag + Misses(Behind(p) + 1) <= Stale
    BY <1>1, <2>1, MissesFacts
  <2> QED
    BY <1>1, <2>2, <2>3, Numbers, MissesFacts
<1>4. CASE pc[p] # "idle"
  <2>1. Behind(p) <= MaxErrors + 1
    BY <1>4, Numbers, LeaseAssumption DEF Behind
  <2>2. 2 * MaxLag + Misses(Behind(p)) <= Stale /\ Misses(Behind(p)) \in Nat
    BY <1>1, <2>1, MissesFacts
  <2>3. wait[p] = lag[p]
    BY <1>2, <1>4 DEF CallFits
  <2> QED
    BY <1>1, <2>2, <2>3, Numbers
<1> QED
  BY <1>3, <1>4

FitsFor(p) ==
  /\ CallFits(p) /\ HolderFits(p) /\ FreshFor(p)
  /\ deletes = 0 => RoundFits(p) /\ ClaimFits(p)

\* What TimedInv says of one process.
LEMMA TimedFor == TimedInv <=> \A p \in Process : FitsFor(p)
  BY DEF TimedInv, FitsFor

\* What a statement that changes the row leaves there: the sender's own row, as
\* old as the sender's call, after an older row, a silent one or none.
LEMMA HitsFacts ==
  ASSUME IInv, NEW q \in Process, Hits(q)
  PROVE  /\ Written(q) \in Row /\ Written(q) # NoRow
         /\ Written(q).holder = q /\ Written(q).silence = lag[q]
         /\ Written(q).claimedAt = startedAt[q]
         /\ row # NoRow /\ row.holder # q =>
              startedAt[q] > row.claimedAt \/ row.silence > Stale
         /\ row # NoRow /\ row.holder = q => pc[q] \in {"beat", "staleUpdate"}
         /\ row = NoRow => pc[q] \in {"create", "staleCreate"}
<1>1. CASE pc[q] = "beat"
  <2>1. row # NoRow /\ row.holder = q /\ row \in Row
    BY <1>1, Numbers DEF Hits
  <2>2. Written(q) = [row EXCEPT !.silence = lag[q]]
    BY <1>1 DEF Written
  <2>3. lag[q] \in 0..MaxSilence
    BY Numbers DEF MaxSilence
  <2>4. /\ Written(q) \in Row /\ Written(q).holder = row.holder
        /\ Written(q).silence = lag[q] /\ Written(q).claimedAt = row.claimedAt
    BY <2>1, <2>2, <2>3 DEF Row
  <2>5. row.claimedAt = startedAt[q]
    BY <2>1 DEF IInv, RowNamesItsStart
  <2> QED
    BY <1>1, <2>1, <2>4, <2>5, RowIsNotNoRow
<1>2. CASE pc[q] # "beat"
  <2>1. startedAt[q] # 0
    BY DEF Hits, IInv, CallsAreAlive, Alive
  <2>2. Written(q) = OwnRow(q)
    BY <1>2 DEF Written
  <2>3. Written(q) \in Row /\ Written(q) # NoRow
    BY <2>1, <2>2, OwnRowType, RowIsNotNoRow DEF IInv
  <2>4. /\ Written(q).holder = q /\ Written(q).silence = lag[q]
        /\ Written(q).claimedAt = startedAt[q]
    BY <2>2 DEF OwnRow
  <2>5. row # NoRow => row.claimedAt < startedAt[q] \/ row.silence > lag[q] + Stale
    BY <1>2 DEF Hits
  <2>6. row = NoRow => pc[q] \in {"create", "staleCreate"}
    BY <1>2 DEF Hits
  <2>7. row # NoRow /\ row.holder = q => pc[q] = "staleUpdate"
    BY <1>2, Numbers DEF Hits
  <2> QED
    BY <2>3, <2>4, <2>5, <2>6, <2>7, Numbers
<1> QED
  BY <1>1, <1>2

SameFor(p) ==
  /\ status'[p] = status[p] /\ role'[p] = role[p] /\ claimed'[p] = claimed[p]
  /\ startedAt'[p] = startedAt[p] /\ pc'[p] = pc[p] /\ round'[p] = round[p]
  /\ lag'[p] = lag[p] /\ wait'[p] = wait[p]

\* A process is not put out by what another one does: the row it watches is as it
\* was, or has just been written by a newer process.
LEMMA OthersKept ==
  ASSUME IInv, OnTime, NEW q \in Process, NEW p \in Process, p # q,
         FitsFor(p), SameFor(p),
         row' = row \/ (Hits(q) /\ row' = Written(q)),
         errors' \in {errors, errors + 1}, deletes' = deletes
  PROVE  FitsFor(p)'
<1>1. CallFits(p)'
  BY DEF FitsFor, CallFits, SameFor, Knows, Serving
<1>2. Knows(p)' = Knows(p) /\ Alive(p)' = Alive(p) /\ Serving(p)' = Serving(p)
  BY DEF SameFor, Knows, Serving, Alive
<1>3. row' # row =>
        /\ Hits(q) /\ row' = Written(q) /\ row' # NoRow /\ row'.holder = q
        /\ row'.silence \in 0..MaxLag /\ row'.claimedAt = startedAt[q]
  BY HitsFacts, Numbers
<1>4. HolderFits(p)'
  BY <1>2, <1>3 DEF FitsFor, HolderFits, SameFor
<1>5. Behind(p)' \in {Behind(p), Behind(p) + 1}
  BY <1>2, Numbers DEF Behind, SameFor
<1>6. FreshFor(p)'
  <2> SUFFICES ASSUME row' # NoRow, Watches(p)'
               PROVE  Behind(p)' >= 0 /\ row'.silence <= MaxLag + wait[p] + Misses(Behind(p)')
    BY DEF FreshFor, SameFor
  <2>1. CASE row' = row
    <3>1. /\ Behind(p) \in Nat /\ row.silence \in Nat
          /\ row.silence <= MaxLag + wait[p] + Misses(Behind(p))
      BY <2>1, <1>2, Numbers DEF FitsFor, FreshFor, Watches, Behind
    <3>2. Misses(Behind(p)) \in Nat /\ Misses(Behind(p) + 1) = Misses(Behind(p)) + Gap
      BY <3>1, MissesFacts
    <3> QED
      BY <2>1, <3>1, <3>2, <1>5, MissesFacts, Numbers
  <2>2. CASE row' # row
    <3>1. Knows(p)
      BY <2>2, <1>2, <1>3 DEF Watches
    <3>2. Behind(p) \in Nat
      BY <3>1, Numbers DEF Behind
    <3>3. Behind(p)' \in Nat
      BY <3>2, <1>5
    <3>4. Misses(Behind(p)') \in Nat
      BY <3>3, MissesFacts
    <3> QED
      BY <2>2, <1>3, <3>3, <3>4, Numbers
  <2> QED
    BY <2>1, <2>2
<1>7. ASSUME deletes = 0 PROVE RoundFits(p)' /\ ClaimFits(p)'
  <2>1. CASE row' = row
    BY <1>7, <2>1, <1>2 DEF FitsFor, RoundFits, ClaimFits, SameFor
  <2>2. CASE row' # row
    <3> USE DEF SameFor
    <3>1. /\ row' # NoRow /\ row'.silence \in Nat /\ row'.silence <= lag[p] + MaxLag
          /\ row'.claimedAt = startedAt[q] /\ startedAt[q] \in Nat
      BY <2>2, <1>3, Numbers
    <3>2. row # NoRow => row.claimedAt = startedAt[row.holder]
      BY Numbers
    <3>3. row # NoRow /\ row.silence <= Stale => startedAt[q] >= row.claimedAt
      BY <2>2, <1>3, <3>2, HitsFacts, Numbers
    <3>4. RoundFits(p)'
      <4>1. CASE pc[p] = "find" /\ round[p] > 1
        <5>1. row # NoRow /\ row.claimedAt >= startedAt[p] /\ row.silence <= lag[p] + MaxLag
          BY <1>7, <4>1 DEF FitsFor, RoundFits
        <5>2. row.silence <= Stale
          BY <5>1, MissesFacts, Numbers, LeaseAssumption DEF OnTime
        <5> QED
          BY <4>1, <3>1, <3>3, <5>1, <5>2, Numbers DEF RoundFits
      <4>2. CASE ~(pc[p] = "find" /\ round[p] > 1)
        BY <4>2, <3>1, <1>7 DEF RoundFits, FitsFor
      <4> QED
        BY <4>1, <4>2
    <3>5. ClaimFits(p)'
      <4> SUFFICES ASSUME claimed[p], Serving(p) PROVE startedAt[q] >= startedAt[p]
        BY <3>1, <1>2 DEF ClaimFits
      <4>1. row # NoRow /\ row.claimedAt >= startedAt[p]
        BY <1>7 DEF FitsFor, ClaimFits
      <4>2. row.silence <= Stale
        BY <4>1, WatchedIsFresh DEF FitsFor, Watches, Knows
      <4> QED
        BY <4>1, <4>2, <3>3, Numbers
    <3> QED
      BY <3>4, <3>5
  <2> QED
    BY <2>1, <2>2
<1> QED
  BY <1>1, <1>4, <1>6, <1>7 DEF FitsFor

(***************************************************************************)
(* The four ways a statement's reply goes.                                 *)
(***************************************************************************)

Wrote(q) == Hits(q) /\ row' = Written(q) /\ Answer(q, TRUE)

Recognized(q) ==
  /\ pc[q] = "find" /\ row # NoRow /\ row.holder = q
  /\ row' = row /\ Answer(q, TRUE)

GaveUp(q) ==
  /\ row' = row /\ ~Hits(q) /\ Answer(q, FALSE)
  /\ \/ pc[q] = "beat"
     \/ /\ pc[q] = "find" /\ row # NoRow /\ row.holder # q
        /\ row.claimedAt >= startedAt[q] \/ round[q] = Rounds
     \/ pc[q] = "create" /\ round[q] = Rounds
     \/ pc[q] \in {"staleFind", "staleCreate"}

Leads(q, s) ==
  \/ pc[q] = "update" /\ s = "find" /\ round' = round
  \/ pc[q] = "find" /\ s = "create" /\ row = NoRow /\ round' = round
  \/ /\ pc[q] = "find" /\ row # NoRow /\ row.claimedAt < startedAt[q]
     /\ row.holder # q
     /\ s = "update" /\ round' = [round EXCEPT ![q] = @ + 1]
  \/ /\ pc[q] = "create" /\ row # NoRow
     /\ s = "update" /\ round' = [round EXCEPT ![q] = @ + 1]
  \/ /\ s = "staleUpdate" /\ round' = round
     /\ status[q] = "running" /\ role[q] = "draining"
     /\ \/ pc[q] = "create"
        \/ pc[q] = "find" /\ row # NoRow /\ row.holder # q
  \/ pc[q] = "staleUpdate" /\ s = "staleFind" /\ round' = round
  \/ pc[q] = "staleFind" /\ s = "staleCreate" /\ row = NoRow /\ round' = round

WentOn(q) ==
  /\ row' = row /\ ~Hits(q) /\ UNCHANGED <<status, role, claimed, lag>>
  /\ \E s \in Statements : pc' = [pc EXCEPT ![q] = s] /\ Leads(q, s)

\* There are no others.
LEMMA StatementWays ==
  ASSUME IInv, NEW q \in Process, Statement(q)
  PROVE  Wrote(q) \/ Recognized(q) \/ GaveUp(q) \/ WentOn(q)
<1>1. {"update", "find", "create", "staleUpdate", "staleFind", "staleCreate"} \subseteq Statements
  BY DEF Statements
<1>2. row' \in {row, Written(q)} /\ (~Hits(q) => Written(q) = row)
  BY StatementOK DEF Written
<1>3. CASE UpdateOlder(q)
  <2>1. CASE Hits(q)
    BY <1>3, <2>1 DEF UpdateOlder, Wrote
  <2>2. CASE ~Hits(q)
    BY <1>1, <1>2, <1>3, <2>2 DEF UpdateOlder, WentOn, Leads, Goto
  <2> QED
    BY <2>1, <2>2
<1>4. CASE FindRow(q)
  <2>1. row' = row /\ pc[q] = "find" /\ ~Hits(q)
    BY <1>4 DEF FindRow, Hits
  <2>2. CASE row = NoRow
    BY <1>1, <1>4, <2>1, <2>2 DEF FindRow, WentOn, Leads, Goto
  <2>3. CASE row # NoRow /\ row.holder = q
    BY <1>4, <2>1, <2>3 DEF FindRow, Recognized
  <2>4. CASE row # NoRow /\ row.holder # q
    <3>1. ASSUME Refused(q), row.claimedAt >= startedAt[q] \/ round[q] = Rounds
          PROVE  GaveUp(q) \/ WentOn(q)
      BY <3>1, <1>1, <2>1, <2>4 DEF Refused, GaveUp, WentOn, Leads, Goto
    <3>2. CASE row.claimedAt >= startedAt[q]
      BY <1>4, <2>4, <3>1, <3>2 DEF FindRow
    <3>3. CASE ~(row.claimedAt >= startedAt[q])
      <4>1. row.claimedAt < startedAt[q]
        BY <3>3, <2>4, Numbers
      <4>2. NextRound(q)
        BY <1>4, <2>4, <3>3 DEF FindRow
      <4>3. CASE round[q] = Rounds /\ Refused(q)
        BY <3>1, <4>3
      <4>4. CASE ~(round[q] = Rounds /\ Refused(q))
        BY <4>1, <4>2, <4>4, <1>1, <2>1, <2>4 DEF NextRound, WentOn, Leads
      <4> QED
        BY <4>3, <4>4
    <3> QED
      BY <3>2, <3>3
  <2> QED
    BY <2>2, <2>3, <2>4
<1>5. CASE CreateRow(q)
  <2>1. CASE Hits(q)
    BY <1>5, <2>1 DEF CreateRow, Wrote
  <2>2. CASE ~Hits(q)
    <3>1. row' = row /\ pc[q] = "create" /\ NextRound(q) /\ row # NoRow
      BY <1>2, <1>5, <2>2 DEF CreateRow, Hits
    <3>2. CASE round[q] = Rounds /\ Refused(q)
      BY <3>1, <3>2, <1>1, <2>2 DEF Refused, GaveUp, WentOn, Leads, Goto
    <3>3. CASE ~(round[q] = Rounds /\ Refused(q))
      BY <3>1, <3>3, <1>1, <2>2 DEF NextRound, WentOn, Leads
    <3> QED
      BY <3>2, <3>3
  <2> QED
    BY <2>1, <2>2
<1>6. CASE Beat(q)
  <2>1. CASE Hits(q)
    <3>1. Answer(q, TRUE)
      <4>1. Hits(q) = TRUE
        BY <2>1, HitsBoolean
      <4> QED
        BY <1>6, <4>1 DEF Beat
    <3> QED
      BY <1>6, <2>1, <3>1 DEF Beat, Wrote
  <2>2. CASE ~Hits(q)
    <3>1. Answer(q, FALSE)
      <4>1. Hits(q) = FALSE
        BY <2>2, HitsBoolean
      <4> QED
        BY <1>6, <4>1 DEF Beat
    <3> QED
      BY <1>2, <1>6, <2>2, <3>1 DEF Beat, GaveUp
  <2> QED
    BY <2>1, <2>2
<1>7. CASE ReclaimStale(q)
  <2>1. CASE Hits(q)
    BY <1>7, <2>1 DEF ReclaimStale, Wrote
  <2>2. CASE ~Hits(q)
    BY <1>1, <1>2, <1>7, <2>2 DEF ReclaimStale, WentOn, Leads, Goto
  <2> QED
    BY <2>1, <2>2
<1>8. CASE FindAny(q)
  <2>1. row' = row /\ pc[q] = "staleFind" /\ ~Hits(q)
    BY <1>8 DEF FindAny, Hits
  <2>2. CASE row = NoRow
    BY <1>1, <1>8, <2>1, <2>2 DEF FindAny, WentOn, Leads, Goto
  <2>3. CASE row # NoRow
    BY <1>8, <2>1, <2>3 DEF FindAny, GaveUp
  <2> QED
    BY <2>2, <2>3
<1>9. CASE CreateAny(q)
  <2>1. CASE Hits(q)
    <3>1. Answer(q, TRUE)
      <4>1. Hits(q) = TRUE
        BY <2>1, HitsBoolean
      <4> QED
        BY <1>9, <4>1 DEF CreateAny
    <3> QED
      BY <1>9, <2>1, <3>1 DEF CreateAny, Wrote
  <2>2. CASE ~Hits(q)
    <3>1. Answer(q, FALSE)
      <4>1. Hits(q) = FALSE
        BY <2>2, HitsBoolean
      <4> QED
        BY <1>9, <4>1 DEF CreateAny
    <3> QED
      BY <1>2, <1>9, <2>2, <3>1 DEF CreateAny, GaveUp
  <2> QED
    BY <2>1, <2>2
<1> QED
  BY <1>3, <1>4, <1>5, <1>6, <1>7, <1>8, <1>9 DEF Statement

\* A process that waits for the answer to a call is alive.
LEMMA CallerAlive ==
  ASSUME IInv, NEW q \in Process, pc[q] # "idle"
  PROVE  Alive(q) /\ status[q] # "dead"
  BY DEF IInv, CallsAreAlive, Alive

\* What an answered call leaves behind at the process that made it.
LEMMA AnswerFacts ==
  ASSUME IInv, NEW q \in Process, NEW held \in BOOLEAN, Answer(q, held)
  PROVE  /\ status'[q] = "running" /\ pc'[q] = "idle" /\ round'[q] = 1 /\ lag'[q] = 0
         /\ held => Knows(q)' /\ role'[q] = "serving"
         /\ ~held => ~Knows(q)' /\ role'[q] = "draining" /\ claimed'[q] = claimed[q]
         /\ \A p \in Process \ {q} :
              /\ status'[p] = status[p] /\ role'[p] = role[p] /\ claimed'[p] = claimed[p]
              /\ pc'[p] = pc[p] /\ round'[p] = round[p] /\ lag'[p] = lag[p]
  BY DEF Answer, Return, IInv, TypeOK, Knows, Serving

\* A process that has just written the row, by whatever statement.
LEMMA WroteFits ==
  ASSUME IInv, NEW q \in Process, FitsFor(q), Statement(q), Wrote(q)
  PROVE  FitsFor(q)'
<1>1. /\ row' # NoRow /\ row'.holder = q /\ row'.silence \in 0..MaxLag
      /\ row'.claimedAt = startedAt[q]
  BY HitsFacts, Numbers DEF Wrote
<1>2. /\ status'[q] = "running" /\ pc'[q] = "idle" /\ round'[q] = 1 /\ lag'[q] = 0
      /\ Knows(q)'
  BY AnswerFacts DEF Wrote
<1>3. wait' = wait /\ startedAt' = startedAt /\ errors' = errors
  BY DEF Statement, budget
<1>4. Behind(q)' = errors /\ errors \in Nat /\ Misses(errors) \in Nat
  BY <1>2, <1>3, Numbers, MissesFacts DEF Behind
<1>5. FreshFor(q)'
  BY <1>1, <1>3, <1>4, Numbers DEF FreshFor
<1>6. startedAt[q] \in Nat
  BY Numbers
<1> QED
  BY <1>1, <1>2, <1>3, <1>5, <1>6
     DEF FitsFor, CallFits, HolderFits, RoundFits, ClaimFits, Knows, Serving

\* A process that finds its own name on the row was not aware of it.
LEMMA RecognizedFits ==
  ASSUME IInv, NEW q \in Process, FitsFor(q), Statement(q), Recognized(q)
  PROVE  FitsFor(q)'
<1>1. /\ row' = row /\ row # NoRow /\ row.holder = q /\ pc[q] = "find"
      /\ row.claimedAt = startedAt[q] /\ startedAt[q] \in Nat
  BY Numbers DEF Recognized
<1>2. /\ status'[q] = "running" /\ pc'[q] = "idle" /\ round'[q] = 1 /\ lag'[q] = 0
      /\ Knows(q)'
  BY AnswerFacts DEF Recognized
<1>3. wait' = wait /\ startedAt' = startedAt /\ errors' = errors
  BY DEF Statement, budget
<1>4. Watches(q) /\ ~Knows(q)
  BY <1>1, CallerAlive DEF Watches, FitsFor, CallFits
<1>5. Behind(q)' = errors /\ Behind(q) = errors
  BY <1>1, <1>2, <1>3, <1>4, Numbers DEF Behind
<1>6. FreshFor(q)'
  BY <1>1, <1>3, <1>4, <1>5 DEF FreshFor, FitsFor
<1> QED
  BY <1>1, <1>2, <1>3, <1>6
     DEF FitsFor, CallFits, HolderFits, RoundFits, ClaimFits, Knows, Serving

\* A process that gives up the row is not the one it names.
LEMMA GaveUpFits ==
  ASSUME IInv, NEW q \in Process, FitsFor(q), Statement(q), GaveUp(q)
  PROVE  FitsFor(q)' /\ (row = NoRow \/ row.holder # q)
<1>1. row = NoRow \/ row.holder # q
  BY CallerAlive DEF GaveUp, FitsFor, HolderFits, Hits
<1>2. /\ status'[q] = "running" /\ pc'[q] = "idle" /\ round'[q] = 1 /\ lag'[q] = 0
      /\ ~Knows(q)' /\ role'[q] = "draining" /\ claimed'[q] = claimed[q]
  BY AnswerFacts DEF GaveUp
<1>3. row' = row /\ startedAt' = startedAt /\ deletes' = deletes
  BY DEF Statement, budget, GaveUp
<1> QED
  BY <1>1, <1>2, <1>3
     DEF FitsFor, CallFits, HolderFits, FreshFor, Watches, RoundFits, ClaimFits, Serving

\* A call that goes on leaves its process aware of what it was aware of.
LEMMA WentOnFits ==
  ASSUME IInv, OnTime, NEW q \in Process, FitsFor(q), Statement(q), WentOn(q)
  PROVE  FitsFor(q)'
<1>1. PICK s \in Statements : pc' = [pc EXCEPT ![q] = s] /\ Leads(q, s)
  BY DEF WentOn
<1>2. pc'[q] = s /\ s # "beat" /\ s # "idle" /\ pc[q] # "idle" /\ pc[q] # "beat"
  BY <1>1 DEF Leads, IInv, TypeOK
<1>3. /\ row' = row /\ ~Hits(q) /\ deletes' = deletes /\ errors' = errors
      /\ UNCHANGED <<status, role, claimed, lag, wait, startedAt>>
  BY DEF WentOn, Statement, budget
<1>4. /\ round'[q] \in {round[q], round[q] + 1}
      /\ s # "update" => round'[q] = round[q]
  BY <1>1 DEF Leads, IInv, TypeOK
<1>5. CallFits(q)'
  BY <1>1, <1>2, <1>3 DEF FitsFor, CallFits, Knows, Serving, Leads
<1>6. HolderFits(q)'
  BY <1>1, <1>2, <1>3 DEF FitsFor, HolderFits, Alive, Leads
<1>7. FreshFor(q)'
  <2>1. Watches(q)' <=> Watches(q)
    BY <1>3 DEF Watches, Knows, Serving, Alive
  <2>2. Behind(q)' = Behind(q)
    BY <1>2, <1>3 DEF Behind, Knows, Serving
  <2> QED
    BY <1>3, <2>1, <2>2 DEF FreshFor, FitsFor
<1>8. ASSUME deletes = 0 PROVE RoundFits(q)' /\ ClaimFits(q)'
  <2>1. ClaimFits(q)'
    BY <1>3, <1>8 DEF FitsFor, ClaimFits, Serving
  <2>2. CASE s = "create"
    <3>1. pc[q] = "find" /\ row = NoRow /\ round'[q] = round[q]
      BY <1>1, <2>2 DEF Leads
    <3>2. ~(round[q] > 1)
      BY <1>8, <3>1 DEF FitsFor, RoundFits
    <3>3. round[q] = 1
      BY <3>2, Numbers, LeaseAssumption
    <3> QED
      BY <1>2, <1>3, <2>1, <2>2, <3>1, <3>3 DEF RoundFits
  <2>3. CASE s = "find"
    <3>1. pc[q] = "update" /\ round'[q] = round[q] /\ ~(row # NoRow /\ row.claimedAt < startedAt[q])
      BY <1>1, <1>3, <2>3 DEF Leads, Hits
    <3>2. round[q] > 1 => /\ row # NoRow /\ row.claimedAt >= startedAt[q]
                          /\ row.silence <= lag[q] + MaxLag
      BY <3>1, <1>8, Numbers DEF FitsFor, RoundFits
    <3> QED
      BY <1>2, <1>3, <2>1, <2>3, <3>1, <3>2 DEF RoundFits
  <2>4. CASE s = "update"
    <3>1. row # NoRow /\ (row.claimedAt < startedAt[q] \/ row.silence <= lag[q] + MaxLag)
      BY <1>1, <1>8, <2>4 DEF Leads, FitsFor, RoundFits
    <3> QED
      BY <1>2, <1>3, <2>1, <2>4, <3>1 DEF RoundFits
  <2>5. CASE s \notin {"create", "find", "update"}
    BY <1>2, <2>1, <2>5 DEF RoundFits
  <2> QED
    BY <2>2, <2>3, <2>4, <2>5
<1> QED
  BY <1>3, <1>5, <1>6, <1>7, <1>8 DEF FitsFor

\* A statement leaves every process fit, its sender and the others.
LEMMA StatementTimed ==
  ASSUME IInv, OnTime, TimedInv, NEW q \in Process, Statement(q)
  PROVE  TimedInv'
<1>1. \A p \in Process : FitsFor(p)
  BY TimedFor
<1>2. Wrote(q) \/ Recognized(q) \/ GaveUp(q) \/ WentOn(q)
  BY StatementWays
<1>3. FitsFor(q)'
  BY <1>1, <1>2, WroteFits, RecognizedFits, GaveUpFits, WentOnFits
<1>4. \A p \in Process \ {q} : SameFor(p)
  <2>1. wait' = wait /\ startedAt' = startedAt
    BY DEF Statement
  <2>2. CASE WentOn(q)
    BY <2>1, <2>2 DEF WentOn, Leads, SameFor, IInv, TypeOK
  <2>3. CASE Wrote(q) \/ Recognized(q) \/ GaveUp(q)
    BY <2>1, <2>3, AnswerFacts DEF Wrote, Recognized, GaveUp, SameFor
  <2> QED
    BY <1>2, <2>2, <2>3
<1>5. /\ row' = row \/ (Hits(q) /\ row' = Written(q))
      /\ errors' = errors /\ deletes' = deletes
  BY <1>2 DEF Wrote, Recognized, GaveUp, WentOn, Statement, budget
<1>6. \A p \in Process \ {q} : FitsFor(p)'
  BY <1>1, <1>4, <1>5, OthersKept
<1> QED
  BY <1>3, <1>6, TimedFor DEF TimedInv, FitsFor

\* A start puts a first call in flight; no row names the process yet.
LEMMA StartTimed ==
  ASSUME IInv, OnTime, TimedInv, NEW q \in Process, Start(q)
  PROVE  TimedInv'
<1>1. \A p \in Process : FitsFor(p)
  BY TimedFor
<1>2. /\ status[q] = "new" /\ status'[q] = "starting" /\ pc'[q] = "update" /\ row' = row
      /\ UNCHANGED <<role, claimed, round, lag, wait, errors, deletes>>
  BY DEF Start, IInv, TypeOK, budget
<1>3. \A p \in Process \ {q} : SameFor(p)
  BY DEF Start, IInv, TypeOK, SameFor
<1>4. row # NoRow => row.holder # q
  BY <1>2, Numbers DEF IInv, CallsAreAlive, RowHolderStarted
<1>5. round[q] = 1 /\ ~claimed[q]
  BY <1>1, <1>2 DEF FitsFor, CallFits
<1>6. FitsFor(q)'
  BY <1>2, <1>4, <1>5
     DEF FitsFor, CallFits, HolderFits, FreshFor, RoundFits, ClaimFits, Watches, Knows, Serving
<1>7. \A p \in Process \ {q} : FitsFor(p)'
  BY <1>1, <1>2, <1>3, OthersKept
<1> QED
  BY <1>6, <1>7 DEF TimedInv, FitsFor

\* The interval fires only between calls, since none lasts as long as a
\* heartbeat: what the process has missed is one interval more, in flight.
LEMMA TickTimed ==
  ASSUME IInv, OnTime, TimedInv, NEW q \in Process, Tick(q)
  PROVE  TimedInv'
<1>1. \A p \in Process : FitsFor(p)
  BY TimedFor
<1>2. /\ status[q] = "running" /\ wait[q] >= Heartbeat /\ row' = row
      /\ UNCHANGED <<status, role, claimed, startedAt, round, lag, errors, deletes>>
      /\ wait'[q] = 0
  BY DEF Tick, IInv, TypeOK, budget
<1>3. pc[q] = "idle"
  BY <1>1, <1>2, Numbers, LeaseAssumption DEF FitsFor, CallFits, OnTime
<1>4. /\ Knows(q) => pc'[q] = "beat"
      /\ ~Knows(q) => pc'[q] = "update"
      /\ pc'[q] \in {"beat", "update"}
  BY <1>2, <1>3 DEF Tick, IInv, TypeOK, Knows, Serving
<1>5. \A p \in Process \ {q} : SameFor(p)
  BY DEF Tick, IInv, TypeOK, SameFor
<1>6. /\ Knows(q)' <=> Knows(q)
      /\ Watches(q)' <=> Watches(q)
  BY <1>2 DEF Watches, Knows, Serving, Alive
<1>7. CallFits(q)' /\ HolderFits(q)'
  BY <1>1, <1>2, <1>3, <1>4, <1>6 DEF FitsFor, CallFits, HolderFits
<1>8. FreshFor(q)'
  <2> SUFFICES ASSUME row # NoRow, Watches(q)
               PROVE  Behind(q)' >= 0 /\ row.silence <= MaxLag + 0 + Misses(Behind(q)')
    BY <1>2, <1>6 DEF FreshFor
  <2>1. Behind(q) \in Nat /\ row.silence <= MaxLag + wait[q] + Misses(Behind(q))
    BY <1>1, Numbers DEF FitsFor, FreshFor, Behind
  <2>2. Behind(q)' = Behind(q) + 1
    <3>1. Knows(q)' = Knows(q)
      BY <1>2 DEF Knows, Serving
    <3> QED
      BY <3>1, <1>2, <1>3, <1>4, Numbers DEF Behind
  <2>3. Misses(Behind(q) + 1) = Misses(Behind(q)) + Gap /\ Misses(Behind(q)) \in Nat
    BY <2>1, MissesFacts
  <2> QED
    BY <2>1, <2>2, <2>3, Numbers, MissesFacts
<1>9. ASSUME deletes = 0 PROVE RoundFits(q)' /\ ClaimFits(q)'
  <2>1. round'[q] = 1
    BY <1>1, <1>2, <1>3 DEF FitsFor, CallFits
  <2> QED
    BY <1>1, <1>2, <1>4, <1>9, <2>1 DEF FitsFor, RoundFits, ClaimFits, Serving
<1>10. FitsFor(q)'
  BY <1>2, <1>7, <1>8, <1>9 DEF FitsFor
<1>11. \A p \in Process \ {q} : FitsFor(p)'
  BY <1>1, <1>2, <1>5, OthersKept
<1> QED
  BY <1>10, <1>11 DEF TimedInv, FitsFor

\* A statement that throws costs an interval at most, whether it has run or not:
\* the process serves on as it did, or has a row it does not know of.
LEMMA ThrowTimed ==
  ASSUME IInv, OnTime, TimedInv, NEW q \in Process, Throw(q)
  PROVE  TimedInv'
<1>1. \A p \in Process : FitsFor(p)
  BY TimedFor
<1>2. /\ pc[q] # "idle" /\ pc'[q] = "idle" /\ round'[q] = 1 /\ lag'[q] = 0
      /\ status'[q] = "running" /\ Alive(q)
      /\ role'[q] = (IF status[q] = "starting" THEN "serving" ELSE role[q])
      /\ errors' = errors + 1
      /\ UNCHANGED <<claimed, startedAt, wait, deletes>>
  BY CallerAlive DEF Throw, Return, IInv, TypeOK
<1>3. row' = row \/ (Hits(q) /\ row' = Written(q))
  BY DEF Throw, Written
<1>4. \A p \in Process \ {q} : SameFor(p)
  BY DEF Throw, Return, IInv, TypeOK, SameFor
<1>5. Knows(q)' = Knows(q)
  BY <1>1, <1>2 DEF Knows, Serving, Alive, FitsFor, CallFits
<1>6. row' # row =>
        /\ row' # NoRow /\ row'.holder = q /\ row'.silence \in 0..MaxLag
        /\ row'.claimedAt = startedAt[q] /\ startedAt[q] \in Nat
  BY <1>3, HitsFacts, Numbers
<1>7. CallFits(q)' /\ HolderFits(q)'
  BY <1>2 DEF CallFits, HolderFits
<1>8. Behind(q)' = Behind(q)
  BY <1>2, <1>5, Numbers DEF Behind
<1>9. FreshFor(q)'
  <2>1. CASE row' = row
    <3>1. row # NoRow /\ Watches(q)' => Watches(q)
      BY <1>2, <1>5, <2>1 DEF Watches
    <3> QED
      BY <1>1, <1>2, <1>8, <2>1, <3>1 DEF FitsFor, FreshFor
  <2>2. CASE row' # row
    <3>1. Behind(q)' \in Nat
      BY <1>2, Numbers DEF Behind
    <3>2. Misses(Behind(q)') \in Nat
      BY <3>1, MissesFacts
    <3> QED
      BY <1>2, <1>6, <2>2, <3>1, <3>2, Numbers DEF FreshFor
  <2> QED
    BY <2>1, <2>2
<1>10. ASSUME deletes = 0 PROVE RoundFits(q)' /\ ClaimFits(q)'
  <2>1. RoundFits(q)'
    BY <1>2 DEF RoundFits
  <2>2. CASE row' = row
    <3>1. Serving(q)' /\ claimed[q] => Serving(q)
      BY <1>2, <1>5 DEF Knows
    <3> QED
      BY <1>1, <1>2, <1>10, <2>1, <2>2, <3>1 DEF FitsFor, ClaimFits
  <2>3. CASE row' # row
    BY <1>2, <1>6, <2>1, <2>3 DEF ClaimFits
  <2> QED
    BY <2>2, <2>3
<1>11. FitsFor(q)'
  BY <1>2, <1>7, <1>9, <1>10 DEF FitsFor
<1>12. \A p \in Process \ {q} : FitsFor(p)'
  BY <1>1, <1>2, <1>3, <1>4, OthersKept
<1> QED
  BY <1>11, <1>12 DEF TimedInv, FitsFor

\* The dead watch no row.
LEMMA CrashTimed ==
  ASSUME IInv, OnTime, TimedInv, NEW q \in Process, Crash(q)
  PROVE  TimedInv'
<1>1. \A p \in Process : FitsFor(p)
  BY TimedFor
<1>2. /\ pc'[q] = "idle" /\ round'[q] = 1 /\ lag'[q] = 0 /\ status'[q] = "dead"
      /\ UNCHANGED <<role, claimed, startedAt, errors, deletes>>
  BY DEF Crash, Return, IInv, TypeOK, budget
<1>3. row' = row \/ (Hits(q) /\ row' = Written(q))
  BY DEF Crash, Written
<1>4. \A p \in Process \ {q} : SameFor(p)
  BY DEF Crash, Return, IInv, TypeOK, SameFor
<1>5. row' # row => row' # NoRow
  BY <1>3, HitsFacts
<1>6. FitsFor(q)'
  BY <1>1, <1>2, <1>5
     DEF FitsFor, CallFits, HolderFits, FreshFor, RoundFits, ClaimFits, Watches, Knows,
         Serving, Alive
<1>7. \A p \in Process \ {q} : FitsFor(p)'
  BY <1>1, <1>2, <1>3, <1>4, OthersKept
<1> QED
  BY <1>6, <1>7 DEF TimedInv, FitsFor

\* A deleted row has no age, and the rounds are no longer spoken for.
LEMMA DeleteRowTimed ==
  ASSUME IInv, TimedInv, DeleteRow
  PROVE  TimedInv'
<1>1. /\ row' = NoRow /\ deletes' # 0
      /\ UNCHANGED <<status, role, claimed, pc, round, startedAt, lag, wait, errors>>
  BY DEF DeleteRow, IInv, TypeOK, local, timing
<1> QED
  BY <1>1 DEF TimedInv, CallFits, HolderFits, FreshFor, Knows, Serving

\* A unit more of silence is a unit more on the clock of every process that
\* runs and of every call.
LEMMA AdvanceTimed ==
  ASSUME IInv, TimedInv, Advance
  PROVE  TimedInv'
<1> SUFFICES ASSUME NEW p \in Process PROVE FitsFor(p)'
  BY DEF TimedInv, FitsFor
<1>1. FitsFor(p)
  BY TimedFor
<1>2. /\ lag'[p] = (IF pc[p] # "idle" THEN lag[p] + 1 ELSE lag[p])
      /\ wait'[p] = (IF status[p] = "running" THEN wait[p] + 1 ELSE wait[p])
      /\ UNCHANGED <<status, role, claimed, pc, round, startedAt, errors, deletes>>
  BY DEF Advance, local, budget
<1>3. /\ row' = NoRow <=> row = NoRow
      /\ row # NoRow => /\ row'.holder = row.holder /\ row'.claimedAt = row.claimedAt
                        /\ row'.silence \in {row.silence, row.silence + 1}
  <2>1. CASE row = NoRow
    BY <2>1 DEF Advance
  <2>2. CASE row # NoRow
    <3>1. row' = [row EXCEPT !.silence = Older(row.silence, MaxSilence)] /\ row \in Row
      BY <2>2, Numbers DEF Advance
    <3>2. Older(row.silence, MaxSilence) \in 0..MaxSilence
      BY <3>1, LeaseAssumption DEF Row, Older, MaxSilence
    <3>3. row' \in Row
      BY <3>1, <3>2 DEF Row
    <3> QED
      BY <2>2, <3>1, <3>3, RowIsNotNoRow DEF Row, Older
  <2> QED
    BY <2>1, <2>2
<1>4. CallFits(p)' /\ HolderFits(p)'
  BY <1>1, <1>2, <1>3 DEF FitsFor, CallFits, HolderFits, Knows, Serving, Alive
<1>5. FreshFor(p)'
  <2> SUFFICES ASSUME row # NoRow, Watches(p)'
               PROVE  Behind(p)' >= 0 /\ row'.silence <= MaxLag + wait'[p] + Misses(Behind(p)')
    BY <1>3 DEF FreshFor
  <2>1. Watches(p)
    BY <1>2, <1>3 DEF Watches, Knows, Serving, Alive
  <2>2. status[p] = "running"
    BY <1>1, <2>1 DEF FitsFor, HolderFits, Watches, Knows, Serving
  <2>3. Behind(p)' = Behind(p)
    BY <1>2 DEF Behind, Knows, Serving
  <2>4. Behind(p) \in Nat /\ row.silence <= MaxLag + wait[p] + Misses(Behind(p))
    BY <1>1, <2>1, Numbers DEF FitsFor, FreshFor, Behind
  <2>5. Misses(Behind(p)) \in Nat
    BY <2>4, MissesFacts
  <2> QED
    BY <1>2, <1>3, <2>2, <2>3, <2>4, <2>5, Numbers
<1>6. ASSUME deletes = 0 PROVE RoundFits(p)' /\ ClaimFits(p)'
  <2>1. pc[p] # "idle" => lag'[p] = lag[p] + 1
    BY <1>2
  <2>2. ASSUME row # NoRow, row.silence <= lag[p] + MaxLag, pc[p] # "idle"
        PROVE  row'.silence <= lag'[p] + MaxLag
    BY <1>3, <2>1, <2>2, Numbers
  <2>3. RoundFits(p)'
    BY <1>1, <1>2, <1>3, <1>6, <2>2 DEF FitsFor, RoundFits
  <2>4. ClaimFits(p)'
    BY <1>1, <1>2, <1>3, <1>6 DEF FitsFor, ClaimFits, Serving
  <2> QED
    BY <2>3, <2>4
<1> QED
  BY <1>2, <1>4, <1>5, <1>6 DEF FitsFor

\* Before any process starts there is no call and no row.
LEMMA InitTimed == Init => TimedInv
  BY DEF Init, TimedInv, CallFits, HolderFits, FreshFor, RoundFits, ClaimFits, Knows,
         Serving, Alive

\* With the times in order every step keeps the bound on the silence.
LEMMA NextTimed ==
  ASSUME OnTime
  PROVE  IInv /\ TimedInv /\ [Next]_vars => TimedInv'
<1> SUFFICES ASSUME IInv, TimedInv, [Next]_vars PROVE TimedInv'
  OBVIOUS
<1>1. ASSUME NEW p \in Process, Start(p) \/ Tick(p) \/ Statement(p) \/ Throw(p) \/ Crash(p)
      PROVE  TimedInv'
  BY <1>1, StartTimed, TickTimed, StatementTimed, ThrowTimed, CrashTimed
<1>2. CASE DeleteRow
  BY <1>2, DeleteRowTimed
<1>3. CASE Advance
  BY <1>3, AdvanceTimed
<1>4. CASE UNCHANGED vars
  BY <1>4 DEF TimedInv, CallFits, HolderFits, FreshFor, RoundFits, ClaimFits, Watches,
              Behind, Knows, Serving, Alive, vars
<1> QED
  BY <1>1, <1>2, <1>3, <1>4 DEF Next

\* With the times in order the bound holds in every reachable state.
LEMMA TimedInvariance ==
  ASSUME OnTime
  PROVE  Spec => [](IInv /\ TimedInv)
<1>1. Init => TimedInv
  BY InitTimed
<1>2. IInv /\ TimedInv /\ [Next]_vars => TimedInv'
  BY NextTimed
<1> QED
  BY <1>1, <1>2, InitIInv, NextIInv, PTL DEF Spec

\* With the times in order a live process keeps its row until a process that
\* started later takes it, through any number of deletions and restarts and as
\* many failed statements as staleMs leaves room for.
THEOREM LiveHolderKeptTheorem ==
  ASSUME OnTime
  PROVE  Spec => LiveHolderKept
<1> DEFINE Taken == row # NoRow /\ row' # NoRow /\ row'.holder # row.holder /\ Alive(row.holder)
           Later == startedAt[row'.holder] > startedAt[row.holder]
<1>1. IInv /\ TimedInv /\ [Next]_vars => [Taken => Later]_vars
  <2> SUFFICES ASSUME IInv, TimedInv, Next, Taken PROVE Later
    BY DEF vars
  <2>1. Later \/ row.silence > Stale
    BY RowPasses
  <2>2. row.holder \in Process /\ row.silence \in Nat /\ Stale \in Nat
    BY LeaseAssumption DEF IInv, TypeOK, Row, MaxSilence
  <2>3. FitsFor(row.holder)
    BY <2>2, TimedFor
  <2>4. row.silence <= Stale
    BY <2>2, <2>3, WatchedIsFresh DEF FitsFor, Watches
  <2> QED
    BY <2>1, <2>2, <2>4
<1> QED
  BY <1>1, TimedInvariance, PTL DEF Spec, LiveHolderKept

\* The one way for a serving process to start draining, while nobody deletes
\* the row and a claim has a second round: its call found the row in the name
\* of another process that started no earlier.
LEMMA DrainsFor ==
  ASSUME OnTime, Rounds > 1, IInv, TimedInv, Next, deletes = 0,
         NEW p \in Process, Serving(p), role'[p] = "draining"
  PROVE  /\ row' = row /\ row # NoRow /\ row.holder # p
         /\ startedAt[row.holder] >= startedAt[p]
<1>1. role[p] = "serving" /\ status[p] = "running" /\ role' # role
  BY DEF Serving
<1>2. PICK q \in Process : Statement(q) \/ Throw(q)
  BY <1>1 DEF Next, Start, Tick, Crash, DeleteRow, Advance, local
<1>3. ~Throw(q)
  BY <1>1 DEF Throw, IInv, TypeOK
<1>4. FitsFor(p)
  BY TimedFor
<1>5. q = p /\ GaveUp(p)
  <2>1. Wrote(q) \/ Recognized(q) \/ GaveUp(q) \/ WentOn(q)
    BY <1>2, <1>3, StatementWays
  <2>2. role'[p] # role[p]
    BY <1>1
  <2>3. ~WentOn(q)
    BY <1>1 DEF WentOn
  <2>4. q = p
    BY <2>1, <2>2, <2>3, AnswerFacts DEF Wrote, Recognized, GaveUp
  <2>5. role'[p] # "serving"
    BY <1>1
  <2> QED
    BY <2>1, <2>3, <2>4, <2>5, AnswerFacts DEF Wrote, Recognized
<1>6. row' = row /\ (row = NoRow \/ row.holder # p)
  BY <1>2, <1>3, <1>4, <1>5, GaveUpFits DEF GaveUp
<1>7. RoundFits(p) /\ ClaimFits(p)
  BY <1>4 DEF FitsFor
<1>8. row # NoRow /\ row.claimedAt >= startedAt[p]
  <2>1. CASE pc[p] = "beat"
    BY <1>4, <1>7, <2>1 DEF FitsFor, CallFits, ClaimFits, Knows
  <2>2. CASE pc[p] = "find"
    BY <1>5, <1>7, <2>2 DEF GaveUp, RoundFits
  <2>3. CASE pc[p] = "create"
    BY <1>5, <1>7, <2>3 DEF GaveUp, RoundFits
  <2>4. CASE pc[p] \in {"staleFind", "staleCreate"}
    BY <1>1, <1>4, <2>4 DEF FitsFor, CallFits
  <2> QED
    BY <1>5, <2>1, <2>2, <2>3, <2>4 DEF GaveUp
<1> QED
  BY <1>6, <1>8, Numbers

\* With the times in order, and a row that nobody deletes, a process stops
\* serving only for another one that started no earlier.
THEOREM StepsAsideForNewerTheorem ==
  ASSUME OnTime, Rounds > 1
  PROVE  Spec => StepsAsideForNewer
<1> DEFINE For(p) == /\ row' # NoRow /\ row'.holder # p
                     /\ startedAt[row'.holder] >= startedAt[p]
           Aside == \A p \in Process :
                      deletes = 0 /\ Serving(p) /\ role'[p] = "draining" => For(p)
<1>1. IInv /\ TimedInv /\ [Next]_vars => [Aside]_vars
  BY DrainsFor DEF vars
<1> QED
  BY <1>1, TimedInvariance, PTL DEF Spec, StepsAsideForNewer

\* ... and so does a process that serves without ever having written the row.
THEOREM UnclaimedYieldsToNewerTheorem ==
  ASSUME OnTime, Rounds > 1
  PROVE  Spec => UnclaimedYieldsToNewer
<1> DEFINE Yields == \A p \in Process :
             deletes = 0 /\ Serving(p) /\ ~claimed[p] /\ role'[p] = "draining"
             => row # NoRow /\ startedAt[row.holder] >= startedAt[p]
<1>1. IInv /\ TimedInv /\ [Next]_vars => [Yields]_vars
  BY DrainsFor DEF vars
<1> QED
  BY <1>1, TimedInvariance, PTL DEF Spec, UnclaimedYieldsToNewer

=============================================================================
