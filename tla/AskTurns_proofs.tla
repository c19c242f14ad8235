----------------------------- MODULE AskTurns_proofs -----------------------------
(***************************************************************************)
(* Theorems about the turns of an ask thread, for any number of messages,  *)
(* faults, cancels and retries: the box gets them in order, one active     *)
(* message at a time has a run there, and (while nothing fails) a canceled *)
(* message's run is stopped.                                               *)
(*                                                                         *)
(* A message that has ended never becomes active again, so "no earlier     *)
(* message is active" stays true once it is: what a tick, a POST or a      *)
(* claim read of the thread before an await still holds when the call to   *)
(* the box is made.  The one exception is a message that steers: the turn  *)
(* it joins is still active, and stops being a run of its own.             *)
(***************************************************************************)
EXTENDS AskThread_proofs

\* A message is in the thread's order once, from its POST's transaction on.
OrderIsPosts ==
    /\ \A i \in DOMAIN order : Status(order[i]) # "none"
    /\ \A m \in Msg : Status(m) # "none" => \E i \in DOMAIN order : order[i] = m
    /\ \A i, j \in DOMAIN order : order[i] = order[j] => i = j

\* The box has taken it: past its start, or ended.
Past(m) == Status(m) \notin {"none", "submitted"}

\* Every set of posted messages has a last one.
HasLast ==
    \A S \in SUBSET Msg : (\E m \in S : Status(m) # "none") =>
      \E m \in S : Status(m) # "none" /\ \A o \in S : ~ Before(m, o)

\* An active message that is not on the box any more, and will not be again.
MaySend(m) == start[m].pc \in {"claimed", "rpc"}
GaveWay(m) == Status(m) = "working" /\ ~ Running(m) /\ ~ MaySend(m)
EarlierGaveWay(m) == \A e \in Msg : Before(e, m) /\ Active(e) => GaveWay(e)

\* What a POST read of the busy message.
PostRead(m) ==
    LET busy == ask[m].busy IN
      /\ ask[m].pc = "none" => ask[m] = NoAsk
      /\ ask[m].pc = "status" => busy \in Msg /\ (ask[m].seen = "working" => Past(busy))
      /\ ask[m].pc = "create" /\ ask[m].plan = "free" => busy = None
      /\ ask[m].pc = "create" /\ ask[m].plan = "steer" =>
           busy \in Msg /\ Past(busy) /\ EarlierGaveWay(busy)

\* Whom a start that may still call the box waits for: nobody, or the turn it joins.
StartReady(m) ==
    LET of == start[m].of IN
      MaySend(m) =>
        /\ \A e \in Msg : Before(e, m) /\ Active(e) => e = of \/ (of # None /\ GaveWay(e))
        /\ of # None => of \in Msg /\ Past(of) /\ Before(of, m)

\* What a tick is about to send waits for nobody.
TickReady(m) == Status(m) # "none" /\ ~ WaitsForThread(m)

\* A run works in its own turn or in that of a message before it, and every
\* earlier message that is still active gave way to it.
RunReady(m) == Running(m) => EarlierGaveWay(m) /\ (box[m].turn = m \/ Before(box[m].turn, m))

TurnInv ==
    /\ OrderIsPosts /\ HasLast
    /\ \A m \in Msg : PostRead(m) /\ StartReady(m) /\ RunReady(m)
    /\ \A m \in tick : TickReady(m)

\* The start will stop a run that was canceled.
WillStop(m) == start[m].pc \in {"mark", "reread", "stop"} \/ (start[m].pc = "supersede" /\ start[m].moved)

\* While nothing failed: a start that was answered has its run on the box, a row
\* marked started too, and until it is marked the start that made it will look
\* for a cancel once more.
Marked(m) ==
    /\ start[m].pc \notin {"check", "fail"}
    /\ start[m].pc = "mark" \/ replay[m] = "live" \/ row[m].started = TRUE => box[m].run # "none"
    /\ box[m].run # "none" => start[m].pc \notin {"claimed", "rpc", "hold"} /\ row[m].prompt = FALSE
    /\ start[m].pc \in {"supersede", "reread", "stop"} => Past(m)
    /\ start[m].pc = "supersede" => start[m].moved \/ row[m].started = TRUE
    /\ Status(m) = "working" => row[m].started = TRUE
    /\ Running(m) /\ Status(m) \in {"submitted", "canceled"} /\ row[m].started = FALSE => WillStop(m)
    /\ Running(m) /\ Status(m) = "canceled" => cancel[m].pc \in {"find", "stop"} \/ WillStop(m)
RunsMarked == \A m \in Msg : Marked(m)
StopInv == faults = 0 => RunsMarked

(***************************************************************************)
(* The order of the thread.                                                *)
(***************************************************************************)

\* Positions in the order are numbers.
LEMMA OrderDomain ==
    ASSUME AskTypeOK
    PROVE  /\ DOMAIN order = 1..Len(order) /\ Len(order) \in Nat
           /\ \A i \in DOMAIN order : i \in Nat /\ order[i] \in Msg
  BY DEF AskTypeOK

\* Of two posted messages one comes before the other.
LEMMA OrderIsTotal ==
    ASSUME AskTypeOK, OrderIsPosts, NEW a \in Msg, NEW b \in Msg,
           Status(a) # "none", Status(b) # "none", a # b
    PROVE  Before(a, b) \/ Before(b, a)
<1>1. PICK i \in DOMAIN order, j \in DOMAIN order : order[i] = a /\ order[j] = b
  BY DEF OrderIsPosts
<1>2. i < j \/ j < i
  BY <1>1, OrderDomain
<1> QED
  BY <1>1, <1>2 DEF Before

\* None comes before itself or before a message that comes before it.
LEMMA OrderIsStrict ==
    ASSUME AskTypeOK, OrderIsPosts, NEW a, NEW b, Before(a, b)
    PROVE  ~ Before(b, a) /\ a # b /\ a \in Msg /\ b \in Msg /\ Status(a) # "none" /\ Status(b) # "none"
<1>1. PICK i \in DOMAIN order, j \in DOMAIN order : i < j /\ order[i] = a /\ order[j] = b
  BY DEF Before
<1>2. ASSUME NEW k \in DOMAIN order, NEW l \in DOMAIN order, k < l, order[k] = b, order[l] = a
      PROVE  FALSE
  BY <1>1, <1>2, OrderDomain DEF OrderIsPosts
<1>3. a # b
  BY <1>1, OrderDomain DEF OrderIsPosts
<1> QED
  BY <1>1, <1>2, <1>3, OrderDomain DEF OrderIsPosts, Before

\* The order is transitive.
LEMMA OrderIsTransitive ==
    ASSUME AskTypeOK, OrderIsPosts, NEW a, NEW b, NEW c, Before(a, b), Before(b, c)
    PROVE  Before(a, c)
<1>1. PICK i \in DOMAIN order, j \in DOMAIN order : i < j /\ order[i] = a /\ order[j] = b
  BY DEF Before
<1>2. PICK k \in DOMAIN order, l \in DOMAIN order : k < l /\ order[k] = b /\ order[l] = c
  BY DEF Before
<1>3. i < l
  BY <1>1, <1>2, OrderDomain DEF OrderIsPosts
<1> QED
  BY <1>1, <1>2, <1>3 DEF Before

\* A message is created after all that were.
LEMMA OrderAppends ==
    ASSUME AskTypeOK, NEW m \in Msg, order' = Append(order, m)
    PROVE  /\ \A i : i \in DOMAIN order' <=> i \in DOMAIN order \/ i = Len(order) + 1
           /\ \A i \in DOMAIN order : order'[i] = order[i] /\ i < Len(order) + 1
           /\ order'[Len(order) + 1] = m
           /\ \A e, x : Before(e, x)' <=> Before(e, x) \/ (x = m /\ \E i \in DOMAIN order : order[i] = e)
<1>1. /\ \A i : i \in DOMAIN order' <=> i \in DOMAIN order \/ i = Len(order) + 1
      /\ \A i \in DOMAIN order : order'[i] = order[i] /\ i < Len(order) + 1
      /\ order'[Len(order) + 1] = m
  <2>1. order \in Seq(Msg)
    BY DEF AskTypeOK
  <2>2. Len(order') = Len(order) + 1 /\ DOMAIN order' = 1..Len(order')
    BY <2>1
  <2> QED
    BY <2>1, <2>2, OrderDomain
<1>2. ASSUME NEW e, NEW x
      PROVE  Before(e, x)' <=> Before(e, x) \/ (x = m /\ \E i \in DOMAIN order : order[i] = e)
  <2>1. ASSUME Before(e, x)'
        PROVE  Before(e, x) \/ (x = m /\ \E i \in DOMAIN order : order[i] = e)
    <3>1. PICK i \in DOMAIN order', j \in DOMAIN order' : i < j /\ order'[i] = e /\ order'[j] = x
      BY <2>1 DEF Before
    <3>2. i \in DOMAIN order
      BY <1>1, <3>1, OrderDomain
    <3>3. CASE j \in DOMAIN order
      BY <1>1, <3>1, <3>2, <3>3 DEF Before
    <3>4. CASE j = Len(order) + 1
      BY <1>1, <3>1, <3>2, <3>4
    <3> QED
      BY <1>1, <3>3, <3>4
  <2>2. ASSUME Before(e, x)
        PROVE  Before(e, x)'
    BY <1>1, <2>2 DEF Before
  <2>3. ASSUME x = m, NEW i \in DOMAIN order, order[i] = e
        PROVE  Before(e, x)'
    BY <1>1, <2>3 DEF Before
  <2> QED
    BY <2>1, <2>2, <2>3
<1> QED
  BY <1>1, <1>2

(***************************************************************************)
(* What most actions do to what TurnInv speaks of: the order stays, a row  *)
(* goes on and never becomes active, a run ends or goes on in its turn, a  *)
(* start that may send stays as it is, a POST keeps what it read or begins *)
(* its transaction with nothing read.                                      *)
(***************************************************************************)

RowsGoOn ==
    \A x \in Msg :
      \/ Status(x)' = Status(x)
      \/ /\ Status(x) # "none" /\ Past(x)'
         /\ Active(x)' => Active(x)

RunsGoOn == \A x \in Msg : Running(x)' => Running(x) /\ box'[x].turn = box[x].turn

StartsGoOn == \A x \in Msg : MaySend(x)' => MaySend(x) /\ start'[x] = start[x]

AsksGoOn ==
    \A x \in Msg :
      \/ ask'[x] = ask[x]
      \/ ask'[x] \in {NoAsk, AskDone, [NoAsk EXCEPT !.pc = "create"]}

KeepsTurns ==
    /\ RowsGoOn /\ RunsGoOn /\ StartsGoOn /\ AsksGoOn
    /\ order' = order /\ tick' \subseteq tick

\* What the theorem about the order of turns says of a step.
TurnStarts ==
    \A m \in Msg : ~ Running(m) /\ Running(m)' /\ box'[m].turn = m => ~ WaitsForThread(m)

\* What is past its start stays so, and nobody becomes active or gives up its way.
LEMMA RowsGoOnKeep ==
    ASSUME RowsGoOn, RunsGoOn, StartsGoOn, NEW x \in Msg
    PROVE  /\ Past(x) => Past(x)'
           /\ Active(x)' => Active(x)
           /\ Status(x)' = "none" <=> Status(x) = "none"
           /\ GaveWay(x) /\ Active(x)' => GaveWay(x)'
<1>1. Past(x) => Past(x)'
  BY DEF RowsGoOn, Past
<1>2. Active(x)' => Active(x)
  BY DEF RowsGoOn, Active
<1>3. Status(x)' = "none" <=> Status(x) = "none"
  BY DEF RowsGoOn, Past
<1>4. GaveWay(x) /\ Active(x)' => GaveWay(x)'
  BY DEF RowsGoOn, RunsGoOn, StartsGoOn, GaveWay, Active, Past, ActiveStates
<1> QED
  BY <1>1, <1>2, <1>3, <1>4

\* Such a step keeps the invariant, and starts no turn.
LEMMA TurnsKept ==
    ASSUME AskInv, TurnInv, KeepsTurns
    PROVE  TurnInv' /\ TurnStarts
<1>1. \A e, x : Before(e, x)' <=> Before(e, x)
  BY DEF KeepsTurns, Before
<1>2. \A x \in Msg : /\ Past(x) => Past(x)'
                     /\ Active(x)' => Active(x)
                     /\ Status(x)' = "none" <=> Status(x) = "none"
                     /\ GaveWay(x) /\ Active(x)' => GaveWay(x)'
  BY RowsGoOnKeep DEF KeepsTurns
<1>3. \A x \in Msg : EarlierGaveWay(x) => EarlierGaveWay(x)'
  BY <1>1, <1>2 DEF EarlierGaveWay
<1>4. OrderIsPosts'
  BY <1>2, OrderDomain DEF AskInv, TurnInv, OrderIsPosts, KeepsTurns
<1>5. HasLast'
  BY <1>1, <1>2 DEF TurnInv, HasLast
<1>6. ASSUME NEW x \in Msg
      PROVE  PostRead(x)'
  <2>1. CASE ask'[x] = ask[x]
    BY <1>2, <1>3, <2>1 DEF TurnInv, PostRead
  <2>2. CASE ask'[x] \in {NoAsk, AskDone, [NoAsk EXCEPT !.pc = "create"]}
    BY <2>2 DEF PostRead, NoAsk, AskDone
  <2> QED
    BY <2>1, <2>2 DEF KeepsTurns, AsksGoOn
<1>7. ASSUME NEW x \in Msg
      PROVE  StartReady(x)'
  BY <1>1, <1>2 DEF KeepsTurns, StartsGoOn, TurnInv, StartReady
<1>8. ASSUME NEW x \in Msg
      PROVE  RunReady(x)'
  BY <1>1, <1>3 DEF KeepsTurns, RunsGoOn, TurnInv, RunReady
<1>9. ASSUME NEW x \in tick'
      PROVE  TickReady(x)'
  BY <1>1, <1>2 DEF KeepsTurns, TurnInv, TickReady, WaitsForThread, AskInv, AskTypeOK
<1>10. TurnStarts
  BY DEF KeepsTurns, RunsGoOn, TurnStarts
<1> QED
  BY <1>4, <1>5, <1>6, <1>7, <1>8, <1>9, <1>10 DEF TurnInv

\* A conditional update takes an active row on, or fails or ends one.
LEMMA MoveGoesOn ==
    ASSUME AskTypeOK, NEW x, NEW condition, NEW s \in Statuses \ {"none", "submitted"},
           Move(x, condition, s),
           x \in Msg /\ condition => Status(x) # "none" /\ (s = "working" => Active(x))
    PROVE  RowsGoOn
<1>1. CASE row' = row
  BY <1>1 DEF RowsGoOn, Status
<1>2. CASE x \in Msg /\ condition /\ RowMoves(x, s, row[x].prompt, row[x].result)
  BY <1>2 DEF RowsGoOn, RowMoves, Status, Past, Active, ActiveStates
<1> QED
  BY <1>1, <1>2, MoveUpdate

\* So does one that sets the status of a row of the thread.
LEMMA StatusGoesOn ==
    ASSUME AskTypeOK, NEW x \in Msg, NEW s \in Statuses \ {"none", "submitted"},
           \/ row' = [row EXCEPT ![x].status = s]
           \/ row' = [row EXCEPT ![x].status = s, ![x].prompt = FALSE]
           \/ row' = [row EXCEPT ![x].status = s, ![x].started = TRUE],
           Status(x) # "none", s = "working" => Active(x)
    PROVE  RowsGoOn
<1>1. \E b \in {FALSE, row[x].prompt} : RowMoves(x, s, b, row[x].result)
  BY StatusUpdate
<1> QED
  BY <1>1 DEF RowsGoOn, RowMoves, Status, Past, Active, ActiveStates

\* A row whose status stays is where it was.
LEMMA RowStays ==
    ASSUME NEW x \in Msg, NEW b, NEW r, row' = row \/ RowMoves(x, Status(x), b, r)
    PROVE  RowsGoOn
  BY DEF RowsGoOn, RowMoves, Status

\* A start that goes on to where it sends nothing.
LEMMA StartGoesOn ==
    ASSUME NEW x \in Msg, NEW pc, pc \notin {"claimed", "rpc"}, start' = start \/ StartMoves(x, pc)
    PROVE  StartsGoOn
  BY DEF StartsGoOn, StartMoves, MaySend

\* A run that ends takes those it superseded along; their turns stay theirs.
LEMMA EndRunGoesOn ==
    ASSUME AskTypeOK, NEW m \in Msg, Running(m), NEW how \in {"gone", "reporting"}, EndRun(m, how)
    PROVE  RunsGoOn
<1> box \in [Msg -> Runs]
  BY DEF AskTypeOK
<1>1. ASSUME NEW o \in Msg
      PROVE  Running(o)' => Running(o) /\ box'[o].turn = box[o].turn
  <2>1. CASE o = m
    BY <2>1 DEF EndRun, Running, Runs
  <2>2. CASE o # m /\ o \in Tombstones(m)
    BY <2>2 DEF EndRun, Tombstones, Gone, Running, Runs
  <2>3. CASE o # m /\ o \notin Tombstones(m)
    BY <2>3 DEF EndRun, Running
  <2> QED
    BY <2>1, <2>2, <2>3
<1> QED
  BY <1>1 DEF RunsGoOn

\* stopRun ends runs or fails.
LEMMA StopRunGoesOn ==
    ASSUME AskTypeOK, NEW m \in Msg, StopRun(m)
    PROVE  RunsGoOn
<1>1. box' = box => RunsGoOn
  BY DEF RunsGoOn, Running
<1> QED
  BY <1>1, EndRunGoesOn DEF StopRun

\* What stays as it is goes on.
LEMMA Unchanged ==
    /\ row' = row => RowsGoOn
    /\ box' = box => RunsGoOn
    /\ start' = start => StartsGoOn
    /\ ask' = ask => AsksGoOn
  BY DEF RowsGoOn, RunsGoOn, StartsGoOn, AsksGoOn, Status, Running, MaySend

(***************************************************************************)
(* The steps that leave every turn where it is.                            *)
(***************************************************************************)

\* The start of a run, but for its call to the box.
LEMMA StartStepKeeps ==
    ASSUME AskInv, TurnInv, NEW m \in Msg, StartStep(m), ~ Send(m)
    PROVE  KeepsTurns
<1> AskTypeOK
  BY DEF AskInv
<1>1. Status(m) # "none"
  BY DEF StartStep, Check, FailStart, Refuse, MarkWorking, Supersede, Reread, StopStart, Hold,
         AskInv, PostsCreate
<1>2. {"idle", "check", "fail", "mark", "supersede", "reread", "stop", "hold"} \subseteq StartPcs
  BY DEF StartPcs
<1>3. /\ \A s : (s # None /\ box[s].by = m) \in BOOLEAN
      /\ (Status(m) # "submitted") \in BOOLEAN
      /\ \A pc \in StartPcs : StartAt(m, pc) => StartMoves(m, pc)
      /\ StartEnds(m) => StartMoves(m, "idle")
  BY <1>2, StartUpdate
<1>4. CASE Check(m)
  <2>1. StartsGoOn
    <3>1. \E pc \in {"mark", "hold", "fail"} : StartMoves(m, pc)
      BY <1>2, <1>3, <1>4, StartUpdate DEF Check
    <3> QED
      BY <3>1, StartGoesOn
  <2> QED
    BY <1>4, <2>1, Unchanged DEF Check, StartKeeps, KeepsTurns
<1>5. CASE FailStart(m)
  <2>1. StartsGoOn
    BY <1>2, <1>3, <1>5, StartGoesOn DEF FailStart
  <2>2. RowsGoOn
    BY <1>5, MoveGoesOn DEF FailStart, Statuses, EndStates
  <2> QED
    BY <1>5, <2>1, <2>2, Unchanged DEF FailStart, StartKeeps, KeepsTurns
<1>6. CASE Refuse(m)
  <2>1. StartsGoOn
    BY <1>3, <1>6, StartGoesOn DEF Refuse
  <2>2. RowsGoOn
    BY <1>6, MoveGoesOn DEF Refuse, Statuses, EndStates
  <2> QED
    BY <1>6, <2>1, <2>2, Unchanged DEF Refuse, StartKeeps, KeepsTurns
<1>7. CASE MarkWorking(m)
  <2>1. StartsGoOn
    BY <1>2, <1>7, StartUpdate, StartGoesOn DEF MarkWorking
  <2>2. RowsGoOn
    <3>1. Status(m) = "submitted" => row' = [row EXCEPT ![m].status = "working", ![m].started = TRUE]
      BY <1>7 DEF MarkWorking
    <3>2. Status(m) # "submitted" => row' = row
      BY <1>7 DEF MarkWorking
    <3>3. "working" \in Statuses \ {"none", "submitted"} /\ (Status(m) = "submitted" => Active(m))
      BY DEF Statuses, ActiveStates, Active
    <3> QED
      BY <1>1, <3>1, <3>2, <3>3, StatusGoesOn, Unchanged
  <2> QED
    BY <1>7, <2>1, <2>2, Unchanged DEF MarkWorking, StartKeeps, KeepsTurns
<1>8. CASE Supersede(m)
  <2>1. StartsGoOn
    BY <1>2, <1>8, StartUpdate, StartGoesOn DEF Supersede
  <2>2. RowsGoOn
    BY <1>8, MoveGoesOn DEF Supersede, Supersedes, Supersedable, Statuses, EndStates
  <2> QED
    BY <1>8, <2>1, <2>2, Unchanged DEF Supersede, StartKeeps, KeepsTurns
<1>9. CASE Reread(m)
  <2>1. StartsGoOn
    BY <1>2, <1>9, StartUpdate, StartGoesOn DEF Reread
  <2> QED
    BY <1>9, <2>1, Unchanged DEF Reread, StartKeeps, KeepsTurns
<1>10. CASE StopStart(m)
  <2>1. StartsGoOn
    BY <1>2, <1>10, StartUpdate, StartGoesOn DEF StopStart
  <2> QED
    BY <1>10, <2>1, StopRunGoesOn, Unchanged DEF StopStart, StartKeeps, KeepsTurns
<1>11. CASE Hold(m)
  <2>1. StartsGoOn
    BY <1>2, <1>11, StartUpdate, StartGoesOn DEF Hold
  <2>2. RowsGoOn
    BY <1>11, PromptUpdate, RowStays DEF Hold
  <2> QED
    BY <1>11, <2>1, <2>2, Unchanged DEF Hold, StartKeeps, KeepsTurns
<1> QED
  BY <1>4, <1>5, <1>6, <1>7, <1>8, <1>9, <1>10, <1>11 DEF StartStep

\* The cancel.
LEMMA CancelKeepsTurns ==
    ASSUME AskInv, NEW m \in Msg, CancelRead(m) \/ CancelStep(m)
    PROVE  KeepsTurns
<1> AskTypeOK
  BY DEF AskInv
<1>1. CASE CancelRead(m) \/ CancelFind(m)
  BY <1>1, Unchanged DEF CancelRead, CancelFind, CancelKeeps, KeepsTurns
<1>2. CASE CancelWrite(m)
  <2>1. RowsGoOn
    BY <1>2, StatusGoesOn, Unchanged DEF CancelWrite, Active, ActiveStates, Statuses, EndStates
  <2> QED
    BY <1>2, <2>1, Unchanged DEF CancelWrite, CancelKeeps, KeepsTurns
<1>3. CASE CancelStop(m)
  BY <1>3, StopRunGoesOn, Unchanged DEF CancelStop, CancelKeeps, KeepsTurns
<1> QED
  BY <1>1, <1>2, <1>3 DEF CancelStep

\* The report, the publish, and a run that ends by itself.
LEMMA ResultKeepsTurns ==
    ASSUME AskInv, NEW m \in Msg, PostResult(m) \/ FinishRun(m) \/ Finish(m) \/ Die(m)
    PROVE  KeepsTurns
<1> AskTypeOK
  BY DEF AskInv
<1>1. CASE PostResult(m)
  <2>1. RowsGoOn
    <3>1. row' = row \/ \E r \in Results : RowMoves(m, Status(m), row[m].prompt, r)
      BY <1>1, ResultUpdate DEF PostResult
    <3> QED
      BY <3>1, RowStays
  <2>2. RunsGoOn
    <3>1. box' = box \/ box' = [box EXCEPT ![m] = Gone(box[m])]
      BY <1>1 DEF PostResult
    <3>2. box' = [box EXCEPT ![m] = Gone(box[m])] => RunsGoOn
      BY DEF AskTypeOK, RunsGoOn, Gone, Runs, Running
    <3> QED
      BY <3>1, <3>2, Unchanged
  <2> QED
    BY <1>1, <2>1, <2>2, Unchanged DEF PostResult, KeepsTurns
<1>2. CASE FinishRun(m)
  <2>1. Status(m) # "none" /\ Outcome(m) \in Statuses \ {"none", "submitted", "working"}
    BY <1>2 DEF FinishRun, AskInv, ResultsCount, PostsCreate, Outcome, Statuses, EndStates
  <2>2. RowsGoOn
    BY <1>2, <2>1, StatusGoesOn, Unchanged DEF FinishRun
  <2> QED
    BY <1>2, <2>2, Unchanged DEF FinishRun, KeepsTurns
<1>3. CASE Finish(m) \/ Die(m)
  <2>1. Running(m) /\ \E how \in {"gone", "reporting"} : EndRun(m, how)
    BY <1>3 DEF Finish, Die, Running
  <2> QED
    BY <1>3, <2>1, EndRunGoesOn, Unchanged DEF Finish, Die, coroutines, KeepsTurns
<1> QED
  BY <1>1, <1>2, <1>3

\* The retried POST.
LEMMA ReplayKeepsTurns ==
    ASSUME AskInv, NEW m \in Msg, ReplayRead(m) \/ ReplayStatus(m) \/ ReplaySettle(m)
    PROVE  KeepsTurns
<1> AskTypeOK
  BY DEF AskInv
<1>1. CASE ReplayRead(m) \/ ReplayStatus(m)
  BY <1>1, Unchanged DEF ReplayRead, ReplayStatus, ReplayKeeps, KeepsTurns
<1>2. CASE ReplaySettle(m)
  <2>1. CASE Status(m) # "submitted"
    BY <1>2, <2>1, Unchanged DEF ReplaySettle, ReplayKeeps, KeepsTurns
  <2>2. CASE Status(m) = "submitted"
    <3>1. \/ row' = [row EXCEPT ![m].status = "working", ![m].started = TRUE]
          \/ row' = [row EXCEPT ![m].status = "failed"]
      BY <1>2, <2>2 DEF ReplaySettle
    <3>2. {"working", "failed"} \subseteq Statuses \ {"none", "submitted"} /\ Active(m)
      BY <2>2 DEF Statuses, ActiveStates, EndStates, Active
    <3>3. RowsGoOn
      BY <2>2, <3>1, <3>2, StatusGoesOn
    <3> QED
      BY <1>2, <3>3, Unchanged DEF ReplaySettle, ReplayKeeps, KeepsTurns
  <2> QED
    BY <2>1, <2>2
<1> QED
  BY <1>1, <1>2

\* The sweep.
LEMMA SweepKeepsTurns ==
    ASSUME AskInv, NEW m \in Msg, SweepStep(m)
    PROVE  KeepsTurns
<1> AskTypeOK
  BY DEF AskInv
<1>1. CASE SweepRead(m) \/ SweepStatus(m)
  BY <1>1, Unchanged DEF SweepRead, SweepStatus, SweepKeeps, KeepsTurns
<1>2. CASE SweepSupersede(m)
  <2>1. RowsGoOn
    BY <1>2, MoveGoesOn DEF SweepSupersede, Supersedes, Supersedable, Statuses, EndStates
  <2> QED
    BY <1>2, <2>1, Unchanged DEF SweepSupersede, SweepKeeps, KeepsTurns
<1>3. CASE SweepClose(m)
  <2>1. sweep[m].seen \in ActiveStates
    BY <1>3 DEF SweepClose, AskInv, JudgedActive
  <2>2. RowsGoOn
    BY <1>3, <2>1, MoveGoesOn DEF SweepClose, Statuses, EndStates, ActiveStates
  <2> QED
    BY <1>3, <2>2, Unchanged DEF SweepClose, SweepKeeps, KeepsTurns
<1>4. CASE SweepStuck(m)
  <2>1. Outcome(m) \in Statuses \ {"none", "submitted", "working"}
    BY DEF Outcome, Statuses, EndStates
  <2>2. RowsGoOn
    BY <1>4, <2>1, StatusGoesOn DEF SweepStuck
  <2> QED
    BY <1>4, <2>2, Unchanged DEF SweepStuck, SweepKeeps, KeepsTurns
<1>5. CASE SweepPrompt(m)
  <2>1. RowsGoOn
    BY <1>5, PromptUpdate, RowStays DEF SweepPrompt
  <2> QED
    BY <1>5, <2>1, Unchanged DEF SweepPrompt, SweepKeeps, KeepsTurns
<1> QED
  BY <1>1, <1>2, <1>3, <1>4, <1>5 DEF SweepStep

\* A queued turn that fails, a turn judged lost, a restart.
LEMMA OthersKeepTurns ==
    ASSUME AskInv, (\E m \in Msg : FailQueued(m) \/ AskLost(m)) \/ Restart
    PROVE  KeepsTurns
<1> AskTypeOK
  BY DEF AskInv
<1>1. ASSUME NEW m \in Msg, FailQueued(m)
      PROVE  KeepsTurns
  <2>1. RowsGoOn
    <3>1. "failed" \in Statuses \ {"none", "submitted", "working"} /\ Status(m) # "none"
      BY <1>1 DEF FailQueued, Queued, Statuses, EndStates
    <3> QED
      BY <1>1, <3>1, StatusGoesOn DEF FailQueued
  <2> QED
    BY <1>1, <2>1, Unchanged DEF FailQueued, TickKeeps, KeepsTurns
<1>2. ASSUME NEW m \in Msg, AskLost(m)
      PROVE  KeepsTurns
  <2>1. ask[m].seen \in ActiveStates
    BY <1>2 DEF AskLost, AskInv, JudgedActive
  <2>2. RowsGoOn
    BY <1>2, <2>1, MoveGoesOn DEF AskLost, FinishLost, Statuses, EndStates, ActiveStates
  <2>3. AsksGoOn
    BY <1>2 DEF AskLost, AskTypeOK, AsksGoOn
  <2> QED
    BY <1>2, <2>2, <2>3, Unchanged DEF AskLost, KeepsTurns
<1>3. CASE Restart
  <2>1. AsksGoOn
    <3>1. \A x \in Msg : ask'[x] = NoAsk \/ ask'[x] = AskDone
      BY <1>3 DEF Restart
    <3> QED
      BY <3>1 DEF AsksGoOn
  <2>2. StartsGoOn
    BY <1>3 DEF Restart, StartsGoOn, MaySend, NoStart
  <2> QED
    BY <1>3, <2>1, <2>2, Unchanged DEF Restart, KeepsTurns
<1> QED
  BY <1>1, <1>2, <1>3

(***************************************************************************)
(* The steps that give a message a turn, or read who has one.              *)
(***************************************************************************)

\* The tick reads which prompts wait for nobody.
LEMMA TickReadTurns ==
    ASSUME AskInv, TurnInv, TickRead
    PROVE  TurnInv' /\ TurnStarts
<1>1. UNCHANGED <<row, start, ask, order, box>>
  BY DEF TickRead, TickKeeps
<1>2. /\ OrderIsPosts' /\ HasLast'
      /\ \A m \in Msg : PostRead(m)' /\ StartReady(m)' /\ RunReady(m)'
  BY <1>1
  DEF TurnInv, OrderIsPosts, HasLast, PostRead, StartReady, RunReady, Before, Active, Status,
      Past, GaveWay, EarlierGaveWay, Running, MaySend
<1>3. ASSUME NEW m \in tick'
      PROVE  TickReady(m)'
  <2>1. TickReady(m)
    <3>1. CASE m \in tick
      BY <3>1 DEF TurnInv
    <3>2. CASE m \notin tick
      BY <1>3, <3>2 DEF TickRead, Queued, TickReady
    <3> QED
      BY <3>1, <3>2
  <2> QED
    BY <1>1, <2>1 DEF TickReady, WaitsForThread, Before, Active, Status
<1>4. TurnStarts
  BY <1>1 DEF TurnStarts, Running
<1> QED
  BY <1>2, <1>3, <1>4 DEF TurnInv

\* The claim of a queued prompt: nobody comes before it, as the tick has read.
LEMMA SendQueuedTurns ==
    ASSUME AskInv, TurnInv, NEW m \in Msg, SendQueued(m)
    PROVE  TurnInv' /\ TurnStarts
<1> AskTypeOK
  BY DEF AskInv
<1>1. UNCHANGED <<ask, order, box>> /\ tick' \subseteq tick /\ m \in tick
  BY DEF SendQueued, TickKeeps
<1>2. CASE ~ Queued(m)
  BY <1>1, <1>2, Unchanged, TurnsKept DEF SendQueued, KeepsTurns
<1>3. CASE Queued(m)
  <2>1. RowMoves(m, Status(m), FALSE, row[m].result)
    BY <1>3, PromptUpdate DEF SendQueued
  <2>2. /\ start'[m].pc = "claimed" /\ start'[m].of = None
        /\ \A x \in Msg \ {m} : start'[x] = start[x]
    BY <1>3 DEF SendQueued, NoStart, AskTypeOK
  <2>3. /\ \A x : Running(x)' <=> Running(x)
        /\ \A e, x : Before(e, x)' <=> Before(e, x)
        /\ \A x \in Msg : /\ Status(x)' = Status(x) /\ (Active(x)' <=> Active(x))
                          /\ Past(x)' <=> Past(x)
    BY <1>1, <2>1 DEF Running, Before, RowMoves, Status, Active, Past
  <2>4. \A x \in Msg : GaveWay(x) => GaveWay(x)'
    <3>1. ~ GaveWay(m)
      BY <1>3 DEF Queued, GaveWay
    <3> QED
      BY <2>2, <2>3, <3>1 DEF GaveWay, MaySend
  <2>5. \A x \in Msg : EarlierGaveWay(x) => EarlierGaveWay(x)'
    BY <2>3, <2>4 DEF EarlierGaveWay
  <2>6. OrderIsPosts' /\ HasLast'
    BY <1>1, <2>3, OrderDomain DEF TurnInv, OrderIsPosts, HasLast
  <2>7. \A x \in Msg : PostRead(x)' /\ RunReady(x)'
    BY <1>1, <2>3, <2>5 DEF TurnInv, PostRead, RunReady
  <2>8. \A x \in tick' : TickReady(x)'
    BY <1>1, <2>3 DEF AskTypeOK, TurnInv, TickReady, WaitsForThread
  <2>9. ASSUME NEW x \in Msg
        PROVE  StartReady(x)'
    <3>1. CASE x = m
      <4>1. \A e \in Msg : ~ (Before(e, m) /\ Active(e))
        BY <1>1 DEF TurnInv, TickReady, WaitsForThread
      <4> QED
        BY <2>2, <2>3, <3>1, <4>1 DEF StartReady
    <3>2. CASE x # m
      BY <2>2, <2>3, <2>4, <3>2 DEF TurnInv, StartReady, MaySend
    <3> QED
      BY <3>1, <3>2
  <2>10. TurnStarts
    BY <2>3 DEF TurnStarts
  <2> QED
    BY <2>6, <2>7, <2>8, <2>9, <2>10 DEF TurnInv
<1> QED
  BY <1>2, <1>3

\* The POST's read: it judges a message past its start only if it works.
LEMMA AskReadTurns ==
    ASSUME AskInv, TurnInv, NEW m \in Msg, AskRead(m)
    PROVE  TurnInv' /\ TurnStarts
<1>1. UNCHANGED <<row, start, order, tick, box>> /\ ask[m] = NoAsk
  BY DEF AskRead, TurnInv, PostRead
<1>2. /\ OrderIsPosts' /\ HasLast'
      /\ \A x \in Msg : StartReady(x)' /\ RunReady(x)'
      /\ \A x \in tick' : TickReady(x)'
  BY <1>1
  DEF TurnInv, OrderIsPosts, HasLast, StartReady, RunReady, TickReady, Before, Active, Status,
      Past, GaveWay, EarlierGaveWay, Running, MaySend, WaitsForThread
<1>3. /\ \A x \in Msg \ {m} : ask'[x] = ask[x]
      /\ \/ ask'[m].pc = "create" /\ ask'[m].busy = None /\ ask'[m].plan = "free"
         \/ ask'[m].pc = "create" /\ ask'[m].plan = "queue"
         \/ /\ ask'[m].pc = "status" /\ ask'[m].busy \in Msg
            /\ ask'[m].seen = Status(ask'[m].busy)
  BY <1>1 DEF AskRead, AskInv, AskTypeOK, NoAsk
<1>4. ASSUME NEW x \in Msg
      PROVE  PostRead(x)'
  <2>1. CASE x = m
    BY <1>1, <1>3, <2>1 DEF PostRead, Past, Status
  <2>2. CASE x # m
    BY <1>1, <1>3, <2>2
    DEF TurnInv, PostRead, Past, Status, EarlierGaveWay, Before, Active, GaveWay, Running, MaySend
  <2> QED
    BY <2>1, <2>2
<1>5. TurnStarts
  BY <1>1 DEF TurnStarts, Running
<1> QED
  BY <1>2, <1>4, <1>5 DEF TurnInv

\* The box's answer: a turn to steer into runs, so those before it gave way.
LEMMA AskStatusTurns ==
    ASSUME AskInv, TurnInv, NEW m \in Msg, AskStatus(m)
    PROVE  TurnInv' /\ TurnStarts
<1> DEFINE busy == ask[m].busy
<1>1. UNCHANGED <<row, start, order, tick, box>> /\ ask[m].pc = "status"
  BY DEF AskStatus
<1>2. /\ OrderIsPosts' /\ HasLast'
      /\ \A x \in Msg : StartReady(x)' /\ RunReady(x)'
      /\ \A x \in tick' : TickReady(x)'
  BY <1>1
  DEF TurnInv, OrderIsPosts, HasLast, StartReady, RunReady, TickReady, Before, Active, Status,
      Past, GaveWay, EarlierGaveWay, Running, MaySend, WaitsForThread
<1>3. ask[m] \in AskStates /\ busy \in Msg /\ (ask[m].seen = "working" => Past(busy))
  BY <1>1 DEF AskInv, AskTypeOK, TurnInv, PostRead
<1>4. /\ \A x \in Msg \ {m} : ask'[x] = ask[x]
      /\ \/ ask'[m].pc = "lost"
         \/ ask'[m].pc = "create" /\ ask'[m].plan = "queue"
         \/ /\ ask'[m].pc = "create" /\ ask'[m].plan = "steer" /\ ask'[m].busy = busy
            /\ ask[m].seen = "working" /\ Running(busy)
  <2>1. ASSUME NEW pc \in {"create", "lost"}, NEW plan \in {"free", "queue", "steer"}
        PROVE  /\ [ask[m] EXCEPT !.pc = pc, !.plan = plan].pc = pc
               /\ [ask[m] EXCEPT !.pc = pc, !.plan = plan].plan = plan
               /\ [ask[m] EXCEPT !.pc = pc, !.plan = plan].busy = busy
               /\ [ask[m] EXCEPT !.pc = pc].pc = pc
    BY <1>3 DEF AskStates
  <2>2. \/ ask' = [ask EXCEPT ![m] = [ask[m] EXCEPT !.pc = "lost"]]
        \/ ask' = [ask EXCEPT ![m] = [ask[m] EXCEPT !.pc = "create", !.plan = "queue"]]
        \/ /\ ask' = [ask EXCEPT ![m] = [ask[m] EXCEPT !.pc = "create", !.plan = "steer"]]
           /\ ask[m].seen = "working" /\ Running(busy)
    BY DEF AskStatus, AskInv, AskTypeOK
  <2> QED
    BY <2>1, <2>2 DEF AskInv, AskTypeOK
<1>5. ASSUME NEW x \in Msg
      PROVE  PostRead(x)'
  <2>1. CASE x = m
    <3>1. Running(busy) => EarlierGaveWay(busy)
      BY <1>3 DEF TurnInv, RunReady
    <3>2. \A o \in Msg : (Past(o)' <=> Past(o)) /\ (EarlierGaveWay(o)' <=> EarlierGaveWay(o))
      BY <1>1 DEF Past, Status, EarlierGaveWay, Before, Active, GaveWay, Running, MaySend
    <3>3. CASE ask'[m].pc = "lost"
      BY <2>1, <3>3 DEF PostRead
    <3>4. CASE ask'[m].pc = "create" /\ ask'[m].plan = "queue"
      BY <2>1, <3>4 DEF PostRead
    <3>5. CASE /\ ask'[m].pc = "create" /\ ask'[m].plan = "steer" /\ ask'[m].busy = busy
               /\ ask[m].seen = "working" /\ Running(busy)
      BY <1>3, <2>1, <3>1, <3>2, <3>5 DEF PostRead
    <3> QED
      BY <1>4, <3>3, <3>4, <3>5
  <2>2. CASE x # m
    BY <1>1, <1>4, <2>2
    DEF TurnInv, PostRead, Past, Status, EarlierGaveWay, Before, Active, GaveWay, Running, MaySend
  <2> QED
    BY <2>1, <2>2
<1>6. TurnStarts
  BY <1>1 DEF TurnStarts, Running
<1> QED
  BY <1>2, <1>5, <1>6 DEF TurnInv

\* The POST's transaction: whoever is active then and is not the turn it joins
\* keeps it in the queue, so a start begins behind that turn only.
LEMMA AskCreateTurns ==
    ASSUME AskInv, TurnInv, NEW m \in Msg, AskCreate(m)
    PROVE  TurnInv' /\ TurnStarts
<1> DEFINE busy == ask[m].busy
           overtaken == \E o \in Msg \ {busy} : Newest(o)
           posted(x) == \E i \in DOMAIN order : order[i] = x
<1> AskTypeOK
  BY DEF AskInv
<1>1. /\ UNCHANGED <<tick, box>> /\ ask[m].pc = "create" /\ order' = Append(order, m)
      /\ ask' = [ask EXCEPT ![m] = AskDone] /\ ask[m] \in AskStates
  BY DEF AskCreate, AskTypeOK
<1>2. Status(m) = "none" /\ start[m].pc = "idle" /\ ~ Running(m)
  BY <1>1 DEF AskInv, PostsCreate, Running
<1>3. \E b \in BOOLEAN : RowMoves(m, "submitted", b, row[m].result)
  <2>1. PICK b \in BOOLEAN : row' = [row EXCEPT ![m].status = "submitted", ![m].prompt = b]
    <3>1. \A waits \in BOOLEAN : \A plan : (waits \/ plan = "queue") \in BOOLEAN
      OBVIOUS
    <3> QED
      BY <3>1 DEF AskCreate
  <2>2. "submitted" \in Statuses
    BY DEF Statuses, ActiveStates
  <2> QED
    BY <2>1, <2>2, StatusUpdate
<1>4. \/ start' = start
      \/ /\ \A x \in Msg \ {m} : start'[x] = start[x]
         /\ start'[m].pc = "rpc"
         /\ \/ ask[m].plan = "free" /\ start'[m].of = None /\ ~ overtaken
            \/ ask[m].plan = "steer" /\ start'[m].of = busy /\ ~ overtaken
  <2>1. ask[m].plan \in {"free", "queue", "steer"}
    BY <1>1 DEF AskStates
  <2>2. \/ start' = start
        \/ /\ start' = [start EXCEPT ![m] = [NoStart EXCEPT !.pc = "rpc",
                                !.of = IF ask[m].plan = "steer" THEN busy ELSE None]]
           /\ ask[m].plan # "queue" /\ ~ overtaken
    BY DEF AskCreate
  <2> QED
    BY <2>1, <2>2 DEF AskTypeOK, NoStart
<1>5. \A x \in Msg \ {m} : /\ Status(x)' = Status(x) /\ (Active(x)' <=> Active(x))
                           /\ Past(x)' <=> Past(x)
                           /\ start'[x] = start[x]
                           /\ GaveWay(x)' <=> GaveWay(x)
  BY <1>1, <1>3, <1>4 DEF RowMoves, Status, Active, Past, GaveWay, MaySend, Running
<1>6. Status(m)' = "submitted"
  BY <1>3 DEF RowMoves, Status
<1>7. /\ \A e, x : Before(e, x)' <=> Before(e, x) \/ (x = m /\ posted(e))
      /\ \A e, x : Before(e, x) => e # m /\ x # m /\ e \in Msg /\ x \in Msg
      /\ \A e : posted(e) => e # m /\ e \in Msg
      /\ \A e \in Msg : Status(e) # "none" => posted(e)
  <2>1. \A e : posted(e) => e # m /\ e \in Msg
    BY <1>2, OrderDomain DEF TurnInv, OrderIsPosts
  <2> QED
    BY <1>1, <1>2, <2>1, OrderAppends, OrderIsStrict DEF TurnInv, OrderIsPosts
<1>8. OrderIsPosts'
  <2>1. \A i \in DOMAIN order' : row'[order'[i]].status # "none"
    <3> TAKE i \in DOMAIN order'
    <3>1. CASE i \in DOMAIN order
      <4>1. order'[i] = order[i] /\ order[i] \in Msg \ {m} /\ Status(order[i]) # "none"
        BY <1>1, <1>7, <3>1, OrderAppends DEF TurnInv, OrderIsPosts
      <4> QED
        BY <1>5, <4>1 DEF Status
    <3>2. CASE i = Len(order) + 1
      BY <1>1, <1>6, <3>2, OrderAppends DEF Status
    <3> QED
      BY <1>1, <3>1, <3>2, OrderAppends
  <2>2. \A x \in Msg : Status(x)' # "none" => \E i \in DOMAIN order' : order'[i] = x
    <3> TAKE x \in Msg
    <3>1. CASE x = m
      BY <1>1, <3>1, OrderAppends
    <3>2. CASE x # m
      BY <1>1, <1>5, <1>7, <3>2, OrderAppends
    <3> QED
      BY <3>1, <3>2
  <2>3. \A i, j \in DOMAIN order' : order'[i] = order'[j] => i = j
    <3>1. \A i, j \in DOMAIN order : order'[i] = order'[j] => i = j
      BY <1>1, OrderAppends DEF TurnInv, OrderIsPosts
    <3>2. \A i \in DOMAIN order : order'[i] # m
      BY <1>1, <1>7, OrderAppends
    <3> QED
      BY <1>1, <3>1, <3>2, OrderAppends
  <2> QED
    BY <2>1, <2>2, <2>3 DEF OrderIsPosts, Status
<1>9. HasLast'
  <2> SUFFICES ASSUME NEW S \in SUBSET Msg, \E x \in S : Status(x)' # "none"
               PROVE  \E x \in S : Status(x)' # "none" /\ \A o \in S : ~ Before(x, o)'
    BY DEF HasLast
  <2>1. CASE m \in S
    BY <1>6, <1>7, <2>1
  <2>2. CASE m \notin S
    BY <1>5, <1>7, <2>2 DEF TurnInv, HasLast
  <2> QED
    BY <2>1, <2>2
<1>10. \A x \in Msg \ {m} : EarlierGaveWay(x)' <=> EarlierGaveWay(x)
  BY <1>5, <1>7 DEF EarlierGaveWay
<1>11. ASSUME NEW x \in Msg
       PROVE  PostRead(x)'
  <2>1. CASE x = m
    BY <1>1, <2>1 DEF PostRead, AskDone, AskTypeOK
  <2>2. CASE x # m
    <3>1. ask'[x] = ask[x] /\ PostRead(x) /\ ~ Past(m)
      BY <1>1, <1>2, <2>2 DEF AskTypeOK, TurnInv, Past
    <3>2. ~ Past(m)'
      BY <1>6 DEF Past
    <3> QED
      BY <1>5, <1>10, <3>1, <3>2 DEF PostRead
  <2> QED
    BY <2>1, <2>2
<1>12. ASSUME NEW x \in Msg
       PROVE  StartReady(x)'
  <2>1. CASE x # m
    <3>1. start'[x] = start[x] /\ StartReady(x)
      BY <1>5, <2>1 DEF TurnInv
    <3> QED
      BY <1>2, <1>5, <1>7, <2>1, <3>1 DEF StartReady, MaySend, Past
  <2>2. CASE x = m /\ start' = start
    BY <1>2, <2>2 DEF StartReady, MaySend
  <2>3. CASE /\ x = m /\ ~ overtaken
             /\ ask[m].plan = "free" /\ start'[m].of = None
    <3>1. busy = None
      BY <1>1, <2>3 DEF TurnInv, PostRead
    <3>2. ASSUME NEW e \in Msg, Active(e)
          PROVE  FALSE
      <4> DEFINE S == {o \in Msg : Active(o)}
      <4>1. \E o \in S : Status(o) # "none"
        BY <3>2 DEF Active, ActiveStates
      <4>2. \E o \in S : \A p \in S : ~ Before(o, p)
        BY <4>1 DEF TurnInv, HasLast
      <4>3. \E o \in Msg : Newest(o)
        BY <4>2 DEF Newest
      <4> QED
        BY <2>3, <3>1, <4>3, AskAssumption
    <3> QED
      BY <1>5, <1>7, <2>3, <3>2 DEF StartReady
  <2>4. CASE /\ x = m /\ ~ overtaken
             /\ ask[m].plan = "steer" /\ start'[m].of = busy
    <3>1. busy \in Msg /\ Past(busy) /\ EarlierGaveWay(busy)
      BY <1>1, <2>4 DEF TurnInv, PostRead
    <3>2. busy # m /\ posted(busy) /\ busy # None
      BY <1>2, <1>7, <3>1, AskAssumption DEF Past
    <3>3. ASSUME NEW e \in Msg, Active(e), e # busy
          PROVE  GaveWay(e)
      <4> DEFINE S == {o \in Msg : Active(o)}
      <4>1. \E o \in S : Status(o) # "none"
        BY <3>3 DEF Active, ActiveStates
      <4>2. \E o \in S : \A p \in S : ~ Before(o, p)
        BY <4>1 DEF TurnInv, HasLast
      <4>3. Newest(busy)
        BY <2>4, <4>2 DEF Newest
      <4>4. Status(e) # "none" /\ Status(busy) # "none"
        BY <3>3, <4>3 DEF Newest, Active, ActiveStates
      <4>5. Before(e, busy)
        BY <3>1, <3>3, <4>3, <4>4, OrderIsTotal DEF TurnInv, Newest
      <4> QED
        BY <3>1, <3>3, <4>5 DEF EarlierGaveWay
    <3>4. \A e \in Msg : Before(e, m)' /\ Active(e)' => e = busy \/ GaveWay(e)'
      BY <1>5, <1>7, <3>3
    <3>5. \A o \in Msg : o = busy => Past(o)' /\ Before(o, m)'
      BY <1>5, <1>7, <3>1, <3>2
    <3> QED
      BY <2>4, <3>1, <3>2, <3>4, <3>5 DEF StartReady
  <2> QED
    BY <1>4, <2>1, <2>2, <2>3, <2>4
<1>13. ASSUME NEW x \in Msg
       PROVE  RunReady(x)'
  <2>1. Running(x)' <=> Running(x)
    BY <1>1 DEF Running
  <2> QED
    BY <1>1, <1>2, <1>7, <1>10, <2>1 DEF TurnInv, RunReady
<1>14. ASSUME NEW x \in tick'
       PROVE  TickReady(x)'
  BY <1>1, <1>2, <1>5, <1>7 DEF AskTypeOK, TurnInv, TickReady, WaitsForThread
<1>15. TurnStarts
  BY <1>1 DEF TurnStarts, Running
<1> QED
  BY <1>8, <1>9, <1>11, <1>12, <1>13, <1>14, <1>15 DEF TurnInv

\* The call to the box: a turn of its own begins once nobody comes before it; a
\* follow-up takes over the turn it joins.
LEMMA SendTurns ==
    ASSUME AskInv, TurnInv, NEW m \in Msg, Send(m)
    PROVE  TurnInv' /\ TurnStarts
<1> DEFINE s == start[m].of
<1> AskTypeOK
  BY DEF AskInv
<1>1. /\ UNCHANGED <<row, order, ask, tick>> /\ MaySend(m) /\ ~ Running(m)
      /\ StartReady(m) /\ s \in Ids /\ box \in [Msg -> Runs]
  BY DEF Send, StartKeeps, MaySend, AskInv, AskTypeOK, PromptIsUnsent, TurnInv, StartStates
<1>2. PICK pc \in {"mark", "check", "hold"} : StartMoves(m, pc)
  <2>1. {"mark", "check", "hold"} \subseteq StartPcs
    BY DEF StartPcs
  <2> QED
    BY <2>1, StartUpdate DEF Send
<1>3. StartsGoOn
  BY <1>2, StartGoesOn
<1>4. CASE box' = box
  BY <1>1, <1>3, <1>4, Unchanged, TurnsKept DEF KeepsTurns
<1>5. CASE (s = None /\ Starts(m)) \/ (s # None /\ Joins(m, s))
  <2>1. /\ \A e, x : Before(e, x)' <=> Before(e, x)
        /\ \A x \in Msg : /\ Status(x)' = Status(x) /\ (Active(x)' <=> Active(x))
                          /\ Past(x)' <=> Past(x)
    BY <1>1 DEF Before, Status, Active, Past
  <2>2. s # None => s \in Msg /\ Past(s) /\ Before(s, m) /\ s # m /\ box[s].run = "alive"
    BY <1>1, <1>5, OrderIsStrict DEF StartReady, TurnInv, Joins
  <2>3. /\ Running(m)'
        /\ s = None => box'[m].turn = m
        /\ s # None => box'[m].turn = box[s].turn /\ ~ box'[s].run \in {"alive", "reporting"}
        /\ \A x \in Msg \ {m} : Running(x)' => Running(x) /\ box'[x].turn = box[x].turn
    BY <1>1, <1>5, <2>2 DEF Starts, Joins, Running, Runs
  <2>4. \A x \in Msg : MaySend(x)' => MaySend(x) /\ x # m /\ start'[x] = start[x]
    BY <1>2, <1>3 DEF StartsGoOn, StartMoves, MaySend
  <2>5. \A x \in Msg : GaveWay(x) => GaveWay(x)' /\ x # m
    BY <1>1, <2>1, <2>3, <2>4 DEF GaveWay
  <2>6. \A x \in Msg : EarlierGaveWay(x) => EarlierGaveWay(x)'
    BY <2>1, <2>5 DEF EarlierGaveWay
  <2>7. OrderIsPosts' /\ HasLast'
    BY <1>1, <2>1, OrderDomain DEF TurnInv, OrderIsPosts, HasLast
  <2>8. \A x \in Msg : PostRead(x)'
    BY <1>1, <2>1, <2>6 DEF TurnInv, PostRead
  <2>9. \A x \in Msg : StartReady(x)'
    BY <2>1, <2>4, <2>5 DEF TurnInv, StartReady
  <2>10. \A x \in tick' : TickReady(x)'
    BY <1>1, <2>1 DEF AskTypeOK, TurnInv, TickReady, WaitsForThread
  <2>11. EarlierGaveWay(m)'
    <3>1. ASSUME NEW e \in Msg, Before(e, m), Active(e)
          PROVE  GaveWay(e)'
      <4>1. CASE e = s
        <5>1. s # None /\ Status(e) = "working"
          BY <2>2, <3>1, <4>1, AskAssumption DEF Past, Active, ActiveStates
        <5>2. Running(e) /\ ~ MaySend(e)
          BY <2>2, <4>1, <5>1 DEF Running, MaySend, AskInv, PromptIsUnsent
        <5>3. ~ Running(e)'
          BY <2>3, <4>1, <5>1 DEF Running
        <5> QED
          BY <2>1, <2>4, <5>1, <5>2, <5>3 DEF GaveWay
      <4>2. CASE e # s
        BY <1>1, <2>5, <3>1, <4>2 DEF StartReady
      <4> QED
        BY <4>1, <4>2
    <3> QED
      BY <2>1, <3>1 DEF EarlierGaveWay
  <2>12. box'[m].turn = m \/ Before(box'[m].turn, m)
    <3>1. CASE s # None
      <4>1. box[s].turn = s \/ Before(box[s].turn, s)
        BY <2>2, <3>1 DEF TurnInv, RunReady, Running
      <4> QED
        BY <2>2, <2>3, <3>1, <4>1, OrderIsTransitive DEF TurnInv
    <3> QED
      BY <2>3, <3>1
  <2>13. ASSUME NEW x \in Msg
         PROVE  RunReady(x)'
    <3>1. CASE x = m
      BY <2>1, <2>11, <2>12, <3>1 DEF RunReady
    <3>2. CASE x # m
      BY <2>1, <2>3, <2>6, <3>2 DEF TurnInv, RunReady
    <3> QED
      BY <3>1, <3>2
  <2>14. TurnStarts
    <3> SUFFICES ASSUME NEW x \in Msg, ~ Running(x), Running(x)', box'[x].turn = x
                 PROVE  ~ WaitsForThread(x)
      BY DEF TurnStarts
    <3>1. x = m
      BY <2>3
    <3>2. s = None
      <4> SUFFICES ASSUME s # None PROVE FALSE
        OBVIOUS
      <4>1. box[s].turn = m /\ (box[s].turn = s \/ Before(box[s].turn, s))
        BY <2>2, <2>3, <3>1 DEF TurnInv, RunReady, Running
      <4> QED
        BY <2>2, <4>1, OrderIsStrict DEF TurnInv
    <3> QED
      BY <1>1, <3>1, <3>2, AskAssumption DEF StartReady, WaitsForThread
  <2> QED
    BY <2>7, <2>8, <2>9, <2>10, <2>13, <2>14 DEF TurnInv
<1> QED
  BY <1>4, <1>5 DEF Send

(***************************************************************************)
(* The theorems about turns.                                               *)
(***************************************************************************)

\* The invariant holds before any message is posted.
LEMMA InitTurnInv == AskInit => TurnInv
  BY DEF AskInit, TurnInv, OrderIsPosts, HasLast, PostRead, StartReady, RunReady, MaySend,
         NoAsk, NoStart, Status, Running

\* Every step keeps it, and starts a turn only in order.
LEMMA NextTurnInv == AskInv /\ TurnInv /\ AskNext => TurnInv' /\ TurnStarts
<1> SUFFICES ASSUME AskInv, TurnInv, AskNext PROVE TurnInv' /\ TurnStarts
  OBVIOUS
<1>1. ASSUME NEW m \in Msg, AskRead(m) \/ AskStatus(m) \/ AskCreate(m) \/ SendQueued(m)
      PROVE  TurnInv' /\ TurnStarts
  BY <1>1, AskReadTurns, AskStatusTurns, AskCreateTurns, SendQueuedTurns
<1>2. ASSUME NEW m \in Msg, StartStep(m)
      PROVE  TurnInv' /\ TurnStarts
  BY <1>2, SendTurns, StartStepKeeps, TurnsKept
<1>3. ASSUME NEW m \in Msg, CancelRead(m) \/ CancelStep(m) \/ PostResult(m) \/ FinishRun(m)
      PROVE  TurnInv' /\ TurnStarts
  BY <1>3, CancelKeepsTurns, ResultKeepsTurns, TurnsKept
<1>4. ASSUME NEW m \in Msg, \/ ReplayRead(m) \/ ReplayStatus(m) \/ ReplaySettle(m)
                            \/ SweepStep(m) \/ Finish(m) \/ Die(m)
      PROVE  TurnInv' /\ TurnStarts
  BY <1>4, ReplayKeepsTurns, SweepKeepsTurns, ResultKeepsTurns, TurnsKept
<1>5. ASSUME (\E m \in Msg : FailQueued(m) \/ AskLost(m)) \/ Restart
      PROVE  TurnInv' /\ TurnStarts
  BY <1>5, OthersKeepTurns, TurnsKept
<1> QED
  BY <1>1, <1>2, <1>3, <1>4, <1>5, TickReadTurns DEF AskNext

\* A stuttering step keeps it too.
LEMMA StutterTurnInv == AskInv /\ TurnInv /\ UNCHANGED vars => TurnInv' /\ TurnStarts
<1> SUFFICES ASSUME AskInv, TurnInv, UNCHANGED vars PROVE TurnInv' /\ TurnStarts
  OBVIOUS
<1>1. KeepsTurns
  BY Unchanged DEF vars, coroutines, KeepsTurns
<1> QED
  BY <1>1, TurnsKept

\* It holds in every reachable state.
LEMMA TurnInvariance == AskSpec => []TurnInv
  BY InitTurnInv, NextTurnInv, StutterTurnInv, AskInvariance, PTL DEF AskSpec

\* No two active messages have a run of their own in the clone: the earlier one
\* gave way when the later one's run started (waitsForThread, steerDecision).
THEOREM OneRunAtATimeTheorem == AskSpec => []OneRunAtATime
<1>1. AskInv /\ TurnInv => OneRunAtATime
  <2> SUFFICES ASSUME AskInv, TurnInv, NEW m \in Msg, NEW o \in Msg,
                      Active(m), Active(o), Running(m), Running(o), m # o
               PROVE  FALSE
    BY DEF OneRunAtATime
  <2>1. Before(m, o) \/ Before(o, m)
    BY OrderIsTotal DEF AskInv, TurnInv, Active, ActiveStates
  <2>2. EarlierGaveWay(m) /\ EarlierGaveWay(o)
    BY DEF TurnInv, RunReady
  <2> QED
    BY <2>1, <2>2 DEF EarlierGaveWay, GaveWay
<1> QED
  BY <1>1, AskInvariance, TurnInvariance, PTL

\* The box gets a turn of its own only once every earlier message of the thread
\* has ended, whatever was read before an await and went stale in it.
THEOREM TurnsInOrderTheorem == AskSpec => TurnsInOrder
<1>1. AskInv /\ TurnInv /\ [AskNext]_vars => [TurnStarts]_vars
  BY NextTurnInv
<1>2. [TurnStarts]_vars
      => [\A m \in Msg : ~ Running(m) /\ Running(m)' /\ box'[m].turn = m => ~ WaitsForThread(m)]_vars
  BY DEF TurnStarts
<1> QED
  BY <1>1, <1>2, AskInvariance, TurnInvariance, PTL DEF AskSpec, TurnsInOrder

(***************************************************************************)
(* While nothing fails, a canceled message's run is stopped.               *)
(***************************************************************************)

\* What happens to a message without its starts, its cancels or its start mark.
MarksGoOn(x) ==
    /\ start'[x] = start[x] /\ cancel'[x] = cancel[x]
    /\ box'[x].run = "none" <=> box[x].run = "none"
    /\ Running(x)' => Running(x)
    /\ row'[x].started = row[x].started
    /\ row'[x].prompt = FALSE \/ row'[x].prompt = row[x].prompt
    /\ Status(x)' = Status(x) \/ Status(x)' \in EndStates \ {"canceled"}
    /\ replay'[x] = "live" => replay[x] = "live" \/ Running(x)

\* It leaves the message marked.
LEMMA MarkKept ==
    ASSUME NEW x \in Msg, Marked(x), MarksGoOn(x)
    PROVE  Marked(x)'
  BY DEF MarksGoOn, Marked, WillStop, Past, Running, EndStates

\* Only the mark sets `started`.
LEMMA StartedKept ==
    ASSUME AskTypeOK, NEW m \in Msg, NEW s, NEW b,
           \/ row' = row
           \/ row' = [row EXCEPT ![m].status = s]
           \/ row' = [row EXCEPT ![m].status = s, ![m].prompt = b]
           \/ row' = [row EXCEPT ![m].prompt = b]
           \/ row' = [row EXCEPT ![m].result = s]
    PROVE  /\ \A x \in Msg : row'[x].started = row[x].started
           /\ \A x \in Msg \ {m} : row'[x] = row[x]
<1> row \in [Msg -> MessageRows]
  BY DEF AskTypeOK
<1>1. CASE row' = [row EXCEPT ![m].status = s] \/ row' = [row EXCEPT ![m].prompt = b]
           \/ row' = [row EXCEPT ![m].result = s]
  BY <1>1 DEF MessageRows
<1>2. CASE row' = [row EXCEPT ![m].status = s, ![m].prompt = b]
  <2> DEFINE r == [row[m] EXCEPT !.status = s, !.prompt = b]
  <2>1. r.started = row[m].started
    BY DEF MessageRows
  <2>2. row' = [row EXCEPT ![m] = r]
    BY <1>2
  <2> QED
    BY <2>1, <2>2
<1>3. CASE row' = row
  BY <1>3
<1> QED
  BY <1>1, <1>2, <1>3

\* The mark.
LEMMA MarkSets ==
    ASSUME AskTypeOK, NEW m \in Msg, row' = [row EXCEPT ![m].status = "working", ![m].started = TRUE]
    PROVE  /\ row'[m].started = TRUE /\ row'[m].status = "working" /\ row'[m].prompt = row[m].prompt
           /\ \A x \in Msg \ {m} : row'[x] = row[x]
<1> DEFINE r == [row[m] EXCEPT !.status = "working", !.started = TRUE]
<1>1. row[m] \in MessageRows /\ row \in [Msg -> MessageRows]
  BY DEF AskTypeOK
<1>2. r.started = TRUE /\ r.status = "working" /\ r.prompt = row[m].prompt
  BY <1>1 DEF MessageRows
<1>3. row' = [row EXCEPT ![m] = r]
  OBVIOUS
<1> QED
  BY <1>1, <1>2, <1>3

\* The starts that end before the box has the run: refused, or held.
LEMMA UnsentMarked ==
    ASSUME AskInv, RunsMarked, NEW m \in Msg, Refuse(m) \/ Hold(m)
    PROVE  RunsMarked'
<1> AskTypeOK
  BY DEF AskInv
<1>1. /\ start' = [start EXCEPT ![m] = NoStart] /\ UNCHANGED <<cancel, replay, box>>
      /\ \A x \in Msg : row'[x].started = row[x].started
      /\ \A x \in Msg \ {m} : row'[x] = row[x]
      /\ start[m].pc \in {"claimed", "hold"}
  BY StartedKept DEF Refuse, Hold, Move, StartEnds, StartKeeps
<1>2. Status(m)' = Status(m) \/ Status(m)' = "failed"
  BY DEF Refuse, Hold, Move, Status, AskTypeOK, MessageRows
<1>3. ASSUME NEW x \in Msg \ {m}
      PROVE  Marked(x)'
  <2>1. MarksGoOn(x)
    BY <1>1 DEF AskTypeOK, MarksGoOn, Running, Status
  <2> QED
    BY <2>1, MarkKept DEF RunsMarked
<1>4. Marked(m)'
  <2>1. box[m].run = "none" /\ start'[m].pc = "idle"
    BY <1>1 DEF RunsMarked, Marked, AskTypeOK, NoStart
  <2> QED
    BY <1>2, <1>1, <2>1 DEF RunsMarked, Marked, Running, WillStop
<1> QED
  BY <1>3, <1>4 DEF RunsMarked

\* The call to the box, answered.
LEMMA SendMarked ==
    ASSUME AskInv, RunsMarked, NEW m \in Msg, Send(m), ~ Fault
    PROVE  RunsMarked'
<1> AskTypeOK
  BY DEF AskInv
<1>1. start[m].pc \in {"claimed", "rpc"} /\ box[m].run = "none" /\ UNCHANGED <<row, cancel, replay>>
  BY DEF Send, StartKeeps, RunsMarked, Marked
<1>2. \/ StartMoves(m, "mark") /\ RunStarts(m)
      \/ StartMoves(m, "hold") /\ box' = box
  <2>1. {"mark", "hold"} \subseteq StartPcs
    BY DEF StartPcs
  <2>2. /\ StartAt(m, "mark") => StartMoves(m, "mark")
        /\ StartAt(m, "hold") => StartMoves(m, "hold")
        /\ start' = [start EXCEPT ![m].pc = "mark", ![m].steered = TRUE] => StartMoves(m, "mark")
    BY <2>1, StartUpdate
  <2>3. Starts(m) \/ (start[m].of # None /\ Joins(m, start[m].of)) => RunStarts(m)
    <3>1. start[m].of \in Msg \cup {None}
      BY DEF AskTypeOK, StartStates, Ids
    <3> QED
      BY <3>1, SendStarts
  <2> QED
    BY <2>2, <2>3 DEF Send
<1>3. ASSUME NEW x \in Msg \ {m}
      PROVE  Marked(x)'
  <2>1. MarksGoOn(x)
    BY <1>1, <1>2 DEF MarksGoOn, StartMoves, RunStarts, Running, Status
  <2> QED
    BY <2>1, MarkKept DEF RunsMarked
<1>4. Marked(m)'
  <2>1. row[m].prompt = FALSE
    BY <1>1 DEF AskInv, PromptIsUnsent
  <2>2. CASE StartMoves(m, "mark") /\ RunStarts(m)
    BY <1>1, <2>1, <2>2 DEF RunsMarked, Marked, StartMoves, RunStarts, WillStop, Status
  <2>3. CASE StartMoves(m, "hold") /\ box' = box
    BY <1>1, <2>3 DEF RunsMarked, Marked, StartMoves, Running, WillStop, Status
  <2> QED
    BY <1>2, <2>2, <2>3
<1> QED
  BY <1>3, <1>4 DEF RunsMarked

\* The mark: a message somebody moved on will be read once more.
LEMMA MarkWorkingMarked ==
    ASSUME AskInv, RunsMarked, NEW m \in Msg, MarkWorking(m)
    PROVE  RunsMarked'
<1> AskTypeOK
  BY DEF AskInv
<1>1. /\ start[m].pc = "mark" /\ box[m].run # "none" /\ UNCHANGED <<cancel, replay, box>>
      /\ Status(m) # "none"
  BY DEF MarkWorking, StartKeeps, RunsMarked, Marked, AskInv, PostsCreate
<1>2. /\ \A x \in Msg \ {m} : row'[x] = row[x]
      /\ row'[m].prompt = row[m].prompt
      /\ Status(m) # "submitted" => row'[m] = row[m]
      /\ Status(m) = "submitted" => row'[m].status = "working" /\ row'[m].started = TRUE
  BY MarkSets DEF MarkWorking
<1>3. /\ \A x \in Msg \ {m} : start'[x] = start[x]
      /\ start'[m].pc \in {"supersede", "reread", "idle"}
      /\ start'[m].pc = "supersede" => (start'[m].moved <=> Status(m) # "submitted")
      /\ start'[m].pc = "idle" => Status(m) = "submitted"
  <2> DEFINE moved == Status(m) # "submitted"
  <2>1. \/ start' = [start EXCEPT ![m] = [start[m] EXCEPT !.pc = "supersede", !.moved = moved]]
        \/ moved /\ start' = [start EXCEPT ![m] = [start[m] EXCEPT !.pc = "reread"]]
        \/ ~ moved /\ start' = [start EXCEPT ![m] = NoStart]
    BY DEF MarkWorking, StartAt, StartEnds, AskTypeOK
  <2>2. /\ [start[m] EXCEPT !.pc = "supersede", !.moved = moved].pc = "supersede"
        /\ [start[m] EXCEPT !.pc = "supersede", !.moved = moved].moved = moved
        /\ [start[m] EXCEPT !.pc = "reread"].pc = "reread" /\ NoStart.pc = "idle"
    BY DEF AskTypeOK, StartStates, NoStart
  <2> QED
    BY <2>1, <2>2 DEF AskTypeOK
<1>4. ASSUME NEW x \in Msg \ {m}
      PROVE  Marked(x)'
  <2>1. MarksGoOn(x)
    BY <1>1, <1>2, <1>3 DEF MarksGoOn, Running, Status
  <2> QED
    BY <2>1, MarkKept DEF RunsMarked
<1>5. Marked(m)'
  <2>1. row[m].prompt = FALSE
    BY <1>1 DEF RunsMarked, Marked
  <2>2. CASE Status(m) = "submitted"
    BY <1>1, <1>2, <1>3, <2>1, <2>2 DEF Marked, Past, Status, WillStop
  <2>3. CASE Status(m) # "submitted"
    BY <1>1, <1>2, <1>3, <2>1, <2>3 DEF RunsMarked, Marked, Past, Status, WillStop
  <2> QED
    BY <2>2, <2>3
<1> QED
  BY <1>4, <1>5 DEF RunsMarked

\* The rest of a start whose run is on the box.
LEMMA SentMarked ==
    ASSUME AskInv, RunsMarked, NEW m \in Msg, Supersede(m) \/ Reread(m) \/ StopStart(m), ~ Fault
    PROVE  RunsMarked'
<1> AskTypeOK
  BY DEF AskInv
<1>1. /\ start[m].pc \in {"supersede", "reread", "stop"} /\ UNCHANGED <<cancel, replay>>
      /\ Past(m)
  BY DEF Supersede, Reread, StopStart, StartKeeps, RunsMarked, Marked
<1>2. \A x \in Msg : /\ row'[x].started = row[x].started /\ row'[x].prompt = row[x].prompt
                     /\ Status(x)' = Status(x) \/ Status(x)' = "superseded"
  <2>1. CASE row' = row
    BY <2>1 DEF Status
  <2>2. CASE start[m].of \in Msg /\ row' = [row EXCEPT ![start[m].of].status = "superseded"]
    BY <2>2 DEF AskTypeOK, MessageRows, Status
  <2>3. CASE start[m].of \notin Msg /\ row' = [row EXCEPT ![start[m].of].status = "superseded"]
    BY <2>3 DEF AskTypeOK, Status
  <2> QED
    BY <2>1, <2>2, <2>3 DEF Supersede, Reread, StopStart, Supersedes, Move
<1>3. /\ \A x \in Msg : /\ box'[x].run = "none" <=> box[x].run = "none"
                        /\ Running(x)' => Running(x)
      /\ StopStart(m) => ~ Running(m)'
  <2>1. CASE box' = box /\ (StopStart(m) => ~ Running(m))
    BY <2>1 DEF Running
  <2>2. CASE StopStart(m) /\ Running(m) /\ EndRun(m, "gone")
    <3>1. RunsOnlyEnd
      BY <2>2, EndRunEnds
    <3>2. ~ Running(m)'
      BY <2>2 DEF EndRun, Running, AskTypeOK, Runs
    <3> QED
      BY <3>1, <3>2 DEF RunsOnlyEnd
  <2> QED
    BY <2>1, <2>2 DEF Supersede, Reread, StopStart, StopRun
<1>4. /\ \A x \in Msg \ {m} : start'[x] = start[x]
      /\ start'[m].pc \in {"reread", "stop", "idle"}
      /\ start'[m].pc = "idle" =>
           \/ Supersede(m) /\ ~ start[m].moved
           \/ Reread(m) /\ Status(m) # "canceled"
           \/ StopStart(m)
  <2>1. /\ \A pc \in {"reread", "stop"} : StartAt(m, pc) => StartMoves(m, pc)
        /\ StartEnds(m) => StartMoves(m, "idle")
    <3>1. {"reread", "stop"} \subseteq StartPcs
      BY DEF StartPcs
    <3> QED
      BY <3>1, StartUpdate
  <2> QED
    BY <2>1 DEF Supersede, Reread, StopStart, StartMoves
<1>5. ASSUME NEW x \in Msg \ {m}
      PROVE  Marked(x)'
  <2>1. MarksGoOn(x)
    BY <1>1, <1>2, <1>3, <1>4 DEF MarksGoOn, EndStates
  <2> QED
    BY <2>1, MarkKept DEF RunsMarked
<1>6. Marked(m)'
  <2>1. Past(m)'
    BY <1>1, <1>2 DEF Past
  <2>2. CASE start'[m].pc # "idle"
    BY <1>1, <1>2, <1>3, <1>4, <2>1, <2>2 DEF RunsMarked, Marked, WillStop
  <2>3. CASE start'[m].pc = "idle"
    <3>1. CASE Supersede(m) /\ ~ start[m].moved
      <4>1. start[m].pc = "supersede" /\ start[m].moved = FALSE
        BY <3>1 DEF Supersede, AskTypeOK, StartStates
      <4>2. row[m].started = TRUE /\ ~ WillStop(m)
        BY <4>1 DEF RunsMarked, Marked, WillStop
      <4> QED
        BY <1>1, <1>2, <1>3, <2>1, <2>3, <4>1, <4>2 DEF RunsMarked, Marked
    <3>2. CASE Reread(m) /\ Status(m) # "canceled"
      <4>1. Status(m) \notin {"submitted", "canceled"} /\ start[m].pc = "reread" /\ row' = row
        BY <1>1, <3>2 DEF Reread, Past
      <4>2. Status(m)' \notin {"submitted", "canceled"}
        BY <4>1 DEF Status
      <4> QED
        BY <1>1, <1>2, <1>3, <2>1, <2>3, <4>1, <4>2 DEF RunsMarked, Marked
    <3>3. CASE StopStart(m)
      BY <1>1, <1>2, <1>3, <2>1, <2>3, <3>3 DEF RunsMarked, Marked, WillStop
    <3> QED
      BY <1>4, <2>3, <3>1, <3>2, <3>3
  <2> QED
    BY <2>2, <2>3
<1> QED
  BY <1>5, <1>6 DEF RunsMarked

\* The cancel: what it finds neither working nor started, its start will stop.
LEMMA CancelMarked ==
    ASSUME AskInv, RunsMarked, NEW m \in Msg, CancelRead(m) \/ CancelStep(m), ~ Fault
    PROVE  RunsMarked'
<1> AskTypeOK
  BY DEF AskInv
<1>1. UNCHANGED <<start, replay>> /\ \A x \in Msg \ {m} : cancel'[x] = cancel[x]
  BY DEF CancelStep, CancelRead, CancelWrite, CancelFind, CancelStop, CancelKeeps, AskTypeOK
<1>2. /\ \A x \in Msg : row'[x].started = row[x].started
      /\ \A x \in Msg \ {m} : row'[x] = row[x]
      /\ row'[m].prompt = FALSE \/ row'[m].prompt = row[m].prompt
  <2>1. row' = row \/ row' = [row EXCEPT ![m].status = "canceled", ![m].prompt = FALSE]
    BY DEF CancelStep, CancelRead, CancelWrite, CancelFind, CancelStop
  <2>2. "canceled" \in Statuses
    BY DEF Statuses, EndStates
  <2> QED
    BY <2>1, <2>2, StartedKept, StatusUpdate DEF RowMoves
<1>3. /\ \A x \in Msg : /\ box'[x].run = "none" <=> box[x].run = "none"
                        /\ Running(x)' => Running(x)
      /\ CancelStop(m) => ~ Running(m)'
  <2>1. CASE box' = box /\ (CancelStop(m) => ~ Running(m))
    BY <2>1 DEF Running
  <2>2. CASE Running(m) /\ EndRun(m, "gone")
    <3>1. RunsOnlyEnd
      BY <2>2, EndRunEnds
    <3>2. ~ Running(m)'
      BY <2>2 DEF EndRun, Running, AskTypeOK, Runs
    <3> QED
      BY <3>1, <3>2 DEF RunsOnlyEnd
  <2> QED
    BY <2>1, <2>2 DEF CancelStep, CancelRead, CancelWrite, CancelFind, CancelStop, StopRun
<1>4. ASSUME NEW x \in Msg \ {m}
      PROVE  Marked(x)'
  <2>1. MarksGoOn(x)
    BY <1>1, <1>2, <1>3 DEF MarksGoOn, Status
  <2> QED
    BY <2>1, MarkKept DEF RunsMarked
<1>5. Marked(m)'
  <2>1. WillStop(m)' <=> WillStop(m)
    BY <1>1 DEF WillStop
  <2>2. Marked(m)
    BY DEF RunsMarked
  <2>3. CASE CancelRead(m)
    <3>1. row' = row /\ Status(m) # "canceled"
      BY <2>3 DEF CancelRead, Active, ActiveStates
    <3> QED
      BY <1>1, <1>3, <2>1, <2>2, <3>1 DEF Marked, Past, Status
  <2>4. CASE CancelWrite(m) /\ Active(m) /\ Unanswered(m)
    <3>1. Status(m)' = "canceled" /\ cancel'[m].pc = "find"
      <4>1. "canceled" \in Statuses
        BY DEF Statuses, EndStates
      <4>2. row' = [row EXCEPT ![m].status = "canceled", ![m].prompt = FALSE]
        BY <2>4 DEF CancelWrite
      <4>3. cancel' = [cancel EXCEPT ![m].pc = "find"]
        BY <2>4 DEF CancelWrite
      <4>4. RowMoves(m, "canceled", FALSE, row[m].result)
        BY <4>1, <4>2, StatusUpdate
      <4> QED
        BY <4>3, <4>4 DEF RowMoves, Status, AskTypeOK, CancelStates
    <3>2. Status(m) \in {"submitted", "working"}
      BY <2>4 DEF Active, ActiveStates
    <3> QED
      BY <1>1, <1>2, <1>3, <2>1, <2>2, <3>1, <3>2 DEF Marked, Past
  <2>5. CASE CancelWrite(m) /\ ~ (Active(m) /\ Unanswered(m))
    <3>1. row' = row /\ cancel[m].pc = "write"
      BY <2>5 DEF CancelWrite
    <3> QED
      BY <1>1, <1>3, <2>1, <2>2, <3>1 DEF Marked, Past, Status
  <2>6. CASE CancelFind(m)
    <3>1. /\ row' = row
          /\ cancel'[m].pc = "stop" \/ row[m].started = FALSE
      BY <2>6 DEF CancelFind, AskTypeOK, MessageRows
    <3> QED
      BY <1>1, <1>3, <2>1, <2>2, <3>1 DEF Marked, Past, Status
  <2>7. CASE CancelStop(m)
    <3>1. row' = row
      BY <2>7 DEF CancelStop
    <3> QED
      BY <1>1, <1>3, <2>1, <2>2, <2>7, <3>1 DEF Marked, Past, Status
  <2> QED
    BY <2>3, <2>4, <2>5, <2>6, <2>7 DEF CancelStep
<1> QED
  BY <1>4, <1>5 DEF RunsMarked

\* The retried POST marks a message only if its run is on the box.
LEMMA ReplayMarked ==
    ASSUME AskInv, RunsMarked, NEW m \in Msg, ReplayRead(m) \/ ReplayStatus(m) \/ ReplaySettle(m)
    PROVE  RunsMarked'
<1> AskTypeOK
  BY DEF AskInv
<1>1. UNCHANGED <<start, cancel, box>> /\ \A x \in Msg \ {m} : replay'[x] = replay[x]
  BY DEF ReplayRead, ReplayStatus, ReplaySettle, ReplayKeeps, AskTypeOK
<1>2. \/ ~ (ReplaySettle(m) /\ Status(m) = "submitted" /\ replay[m] = "live") /\ MarksGoOn(m)
      \/ /\ ReplaySettle(m) /\ Status(m) = "submitted" /\ replay[m] = "live"
         /\ row' = [row EXCEPT ![m].status = "working", ![m].started = TRUE]
         /\ replay'[m] = "idle"
  <2>1. CASE ReplayRead(m) \/ ReplayStatus(m)
    BY <1>1, <2>1 DEF ReplayRead, ReplayStatus, MarksGoOn, Running, Status, AskTypeOK, ReplaySettle
  <2>2. CASE ReplaySettle(m)
    <3>1. replay'[m] = "idle"
      BY <2>2 DEF ReplaySettle, AskTypeOK
    <3>2. CASE Status(m) # "submitted"
      BY <1>1, <2>2, <3>1, <3>2 DEF ReplaySettle, MarksGoOn, Running, Status
    <3>3. CASE Status(m) = "submitted" /\ replay[m] = "live"
      BY <2>2, <3>1, <3>3 DEF ReplaySettle
    <3>4. CASE Status(m) = "submitted" /\ replay[m] # "live"
      <4>1. row' = [row EXCEPT ![m].status = "failed"]
        BY <2>2, <3>4 DEF ReplaySettle
      <4>2. Status(m)' = "failed" /\ row'[m].prompt = row[m].prompt /\ row'[m].started = row[m].started
        BY <4>1 DEF Status, AskTypeOK, MessageRows
      <4> QED
        BY <1>1, <3>1, <3>4, <4>2 DEF MarksGoOn, Running, EndStates
    <3> QED
      BY <3>2, <3>3, <3>4
  <2> QED
    BY <2>1, <2>2
<1>3. \A x \in Msg \ {m} : row'[x] = row[x]
  BY StartedKept, MarkSets DEF ReplayRead, ReplayStatus, ReplaySettle
<1>4. ASSUME NEW x \in Msg \ {m}
      PROVE  Marked(x)'
  <2>1. MarksGoOn(x)
    BY <1>1, <1>3 DEF MarksGoOn, Running, Status
  <2> QED
    BY <2>1, MarkKept DEF RunsMarked
<1>5. Marked(m)'
  <2>1. CASE MarksGoOn(m)
    BY <2>1, MarkKept DEF RunsMarked
  <2>2. CASE /\ Status(m) = "submitted" /\ replay[m] = "live" /\ replay'[m] = "idle"
             /\ row' = [row EXCEPT ![m].status = "working", ![m].started = TRUE]
    <3>1. row'[m].started = TRUE /\ row'[m].status = "working" /\ row'[m].prompt = row[m].prompt
      BY <2>2, MarkSets
    <3> QED
      BY <1>1, <2>2, <3>1 DEF RunsMarked, Marked, Past, Status, Running, WillStop
  <2> QED
    BY <1>2, <2>1, <2>2
<1> QED
  BY <1>4, <1>5 DEF RunsMarked

\* A new message has no run, with a start or without.
LEMMA AskCreateMarked ==
    ASSUME AskInv, RunsMarked, NEW m \in Msg, AskCreate(m)
    PROVE  RunsMarked'
<1> AskTypeOK
  BY DEF AskInv
<1>1. /\ UNCHANGED <<cancel, replay, box>>
      /\ start[m].pc = "idle" /\ box[m].run = "none" /\ ~ Running(m)
  BY DEF AskCreate, AskInv, PostsCreate, Running
<1>2. /\ \A x \in Msg : row'[x].started = row[x].started
      /\ \A x \in Msg \ {m} : row'[x] = row[x]
      /\ Status(m)' = "submitted"
  <2>1. PICK b \in BOOLEAN : row' = [row EXCEPT ![m].status = "submitted", ![m].prompt = b]
    <3>1. \A waits \in BOOLEAN : \A plan : (waits \/ plan = "queue") \in BOOLEAN
      OBVIOUS
    <3> QED
      BY <3>1 DEF AskCreate
  <2>2. "submitted" \in Statuses
    BY DEF Statuses, ActiveStates
  <2> QED
    BY <2>1, <2>2, StartedKept, StatusUpdate DEF RowMoves, Status
<1>3. /\ \A x \in Msg \ {m} : start'[x] = start[x]
      /\ start'[m].pc \in {"idle", "rpc"}
  BY <1>1 DEF AskCreate, AskTypeOK, NoStart
<1>4. ASSUME NEW x \in Msg \ {m}
      PROVE  Marked(x)'
  <2>1. MarksGoOn(x)
    BY <1>1, <1>2, <1>3 DEF MarksGoOn, Running, Status
  <2> QED
    BY <2>1, MarkKept DEF RunsMarked
<1>5. Marked(m)'
  BY <1>1, <1>2, <1>3 DEF RunsMarked, Marked, Running
<1> QED
  BY <1>4, <1>5 DEF RunsMarked

\* A claimed prompt has no run, so its start may send it.
LEMMA SendQueuedMarked ==
    ASSUME AskInv, RunsMarked, NEW m \in Msg, SendQueued(m)
    PROVE  RunsMarked'
<1> AskTypeOK
  BY DEF AskInv
<1>1. UNCHANGED <<cancel, replay, box>>
  BY DEF SendQueued, TickKeeps
<1>2. /\ \A x \in Msg : row'[x].started = row[x].started /\ Status(x)' = Status(x)
      /\ \A x \in Msg \ {m} : row'[x] = row[x]
  <2>1. row' = row \/ row' = [row EXCEPT ![m].prompt = FALSE]
    BY DEF SendQueued
  <2>2. \A x \in Msg : Status(x)' = Status(x)
    BY <2>1, PromptUpdate DEF RowMoves, Status
  <2> QED
    BY <2>1, <2>2, StartedKept
<1>3. \/ UNCHANGED <<row, start>>
      \/ /\ box[m].run = "none" /\ start'[m].pc = "claimed"
         /\ \A x \in Msg \ {m} : start'[x] = start[x]
  <2>1. CASE ~ Queued(m)
    BY <2>1 DEF SendQueued
  <2>2. CASE Queued(m)
    <3>1. box[m].run = "none"
      BY <2>2 DEF Queued, RunsMarked, Marked
    <3>2. start' = [start EXCEPT ![m] = [NoStart EXCEPT !.pc = "claimed"]]
      BY <2>2 DEF SendQueued
    <3> QED
      BY <3>1, <3>2 DEF AskTypeOK, NoStart
  <2> QED
    BY <2>1, <2>2
<1>4. ASSUME NEW x \in Msg \ {m}
      PROVE  Marked(x)'
  <2>1. MarksGoOn(x)
    BY <1>1, <1>2, <1>3 DEF MarksGoOn, Running
  <2> QED
    BY <2>1, MarkKept DEF RunsMarked
<1>5. Marked(m)'
  <2>1. CASE UNCHANGED <<row, start>>
    <3>1. MarksGoOn(m)
      BY <1>1, <2>1 DEF MarksGoOn, Running, Status
    <3> QED
      BY <3>1, MarkKept DEF RunsMarked
  <2>2. CASE box[m].run = "none" /\ start'[m].pc = "claimed"
    BY <1>1, <1>2, <2>2 DEF RunsMarked, Marked, Running
  <2> QED
    BY <1>3, <2>1, <2>2
<1> QED
  BY <1>4, <1>5 DEF RunsMarked

\* The steps that touch no start, no cancel and no start mark.
LEMMA OthersMarked ==
    ASSUME AskInv, RunsMarked, ~ Fault,
           \/ TickRead
           \/ \E m \in Msg : \/ AskRead(m) \/ AskStatus(m) \/ AskLost(m) \/ FailQueued(m)
                             \/ PostResult(m) \/ FinishRun(m) \/ SweepStep(m) \/ Finish(m)
    PROVE  RunsMarked'
<1> AskTypeOK
  BY DEF AskInv
<1> DEFINE RowEnds == \A x \in Msg : /\ row'[x].started = row[x].started
                                     /\ row'[x].prompt = FALSE \/ row'[x].prompt = row[x].prompt
                                     /\ Status(x)' = Status(x) \/ Status(x)' \in EndStates \ {"canceled"}
           RunEnds == \A x \in Msg : /\ box'[x].run = "none" <=> box[x].run = "none"
                                     /\ Running(x)' => Running(x)
<1>1. /\ row' = row => RowEnds
      /\ box' = box => RunEnds
  BY DEF Status, Running
<1>2. ASSUME RowEnds, RunEnds, UNCHANGED <<start, cancel, replay>>
      PROVE  RunsMarked'
  BY <1>2, MarkKept DEF RunsMarked, MarksGoOn
<1>3. ASSUME NEW x \in Msg, NEW s \in EndStates \ {"canceled"},
             \/ row' = [row EXCEPT ![x].status = s]
             \/ row' = [row EXCEPT ![x].status = s, ![x].prompt = FALSE]
      PROVE  RowEnds
  <2>1. s \in Statuses
    BY DEF Statuses
  <2>2. \E b \in {FALSE, row[x].prompt} : RowMoves(x, s, b, row[x].result)
    BY <1>3, <2>1, StatusUpdate
  <2>3. \A o \in Msg : row'[o].started = row[o].started
    BY <1>3, StartedKept
  <2> QED
    BY <2>2, <2>3 DEF RowMoves, Status
<1>4. ASSUME NEW x, NEW condition, NEW s \in EndStates \ {"canceled"}, Move(x, condition, s)
      PROVE  RowEnds
  <2>1. row' = row \/ (x \in Msg /\ row' = [row EXCEPT ![x].status = s])
    BY <1>4 DEF Move, AskTypeOK
  <2> QED
    BY <1>1, <1>3, <2>1
<1>5. TickRead => RunsMarked'
  BY <1>1, <1>2 DEF TickRead, TickKeeps
<1>6. ASSUME NEW m \in Msg, AskRead(m) \/ AskStatus(m)
      PROVE  RunsMarked'
  BY <1>1, <1>2, <1>6 DEF AskRead, AskStatus
<1>7. ASSUME NEW m \in Msg, AskLost(m)
      PROVE  RunsMarked'
  <2>1. RowEnds
    BY <1>4, <1>7 DEF AskLost, FinishLost, EndStates
  <2> QED
    BY <1>1, <1>2, <1>7, <2>1 DEF AskLost
<1>8. ASSUME NEW m \in Msg, FailQueued(m)
      PROVE  RunsMarked'
  <2>1. RowEnds
    <3>1. "failed" \in EndStates \ {"canceled"}
      BY DEF EndStates
    <3> QED
      BY <1>3, <1>8, <3>1 DEF FailQueued
  <2> QED
    BY <1>1, <1>2, <1>8, <2>1 DEF FailQueued, TickKeeps
<1>9. ASSUME NEW m \in Msg, PostResult(m)
      PROVE  RunsMarked'
  <2>1. RowEnds
    <3>1. row' = row \/ \E r \in Results : row' = [row EXCEPT ![m].result = r]
      BY <1>9 DEF PostResult
    <3>2. ASSUME NEW r \in Results, row' = [row EXCEPT ![m].result = r]
          PROVE  RowEnds
      BY <3>2, ResultUpdate, StartedKept DEF RowMoves, Status
    <3> QED
      BY <1>1, <3>1, <3>2
  <2>2. RunEnds
    <3>1. box' = [box EXCEPT ![m] = Gone(box[m])] /\ box[m].run = "reporting"
      BY <1>9 DEF PostResult
    <3> QED
      BY <3>1 DEF Gone, Running, AskTypeOK, Runs
  <2> QED
    BY <1>2, <1>9, <2>1, <2>2 DEF PostResult
<1>10. ASSUME NEW m \in Msg, FinishRun(m)
       PROVE  RunsMarked'
  <2>1. Outcome(m) \in EndStates \ {"canceled"}
    BY DEF Outcome, EndStates
  <2>2. RowEnds
    BY <1>3, <1>10, <2>1 DEF FinishRun
  <2> QED
    BY <1>1, <1>2, <1>10, <2>2 DEF FinishRun
<1>11. ASSUME NEW m \in Msg, Finish(m)
       PROVE  RunsMarked'
  <2>1. RunEnds
    BY <1>11, EndRunEnds DEF Finish, Running, RunsOnlyEnd
  <2> QED
    BY <1>1, <1>2, <1>11, <2>1 DEF Finish, coroutines
<1>12. ASSUME NEW m \in Msg, SweepStep(m)
       PROVE  RunsMarked'
  <2>1. UNCHANGED <<start, cancel, replay, box>>
    BY <1>12 DEF SweepStep, SweepRead, SweepStatus, SweepSupersede, SweepClose, SweepStuck,
                 SweepPrompt, SweepKeeps
  <2>2. RowEnds
    <3>1. CASE SweepRead(m) \/ SweepStatus(m)
      BY <1>1, <3>1 DEF SweepRead, SweepStatus
    <3>2. CASE SweepSupersede(m)
      BY <1>4, <3>2 DEF SweepSupersede, Supersedes, EndStates
    <3>3. CASE SweepClose(m)
      BY <1>4, <3>3 DEF SweepClose, EndStates
    <3>4. CASE SweepStuck(m)
      <4>1. Outcome(m) \in EndStates \ {"canceled"}
        BY DEF Outcome, EndStates
      <4> QED
        BY <1>3, <3>4, <4>1 DEF SweepStuck
    <3>5. CASE SweepPrompt(m)
      BY <3>5, PromptUpdate, StartedKept DEF SweepPrompt, RowMoves, Status
    <3> QED
      BY <1>12, <3>1, <3>2, <3>3, <3>4, <3>5 DEF SweepStep
  <2> QED
    BY <1>1, <1>2, <2>1, <2>2
<1> QED
  BY <1>5, <1>6, <1>7, <1>8, <1>9, <1>10, <1>11, <1>12

\* Every step from a state without a fault to another keeps the runs marked.
LEMMA NextMarked ==
    ASSUME AskInv, RunsMarked, AskNext, faults' = 0
    PROVE  RunsMarked'
<1> AskTypeOK
  BY DEF AskInv
<1>1. ~ Fault
  BY DEF Fault, AskTypeOK
<1>2. ASSUME NEW m \in Msg, StartStep(m)
      PROVE  RunsMarked'
  <2>1. ~ Check(m) /\ ~ FailStart(m)
    BY DEF Check, FailStart, RunsMarked, Marked
  <2> QED
    BY <1>1, <1>2, <2>1, SendMarked, UnsentMarked, MarkWorkingMarked, SentMarked DEF StartStep
<1>3. ASSUME NEW m \in Msg, \/ CancelRead(m) \/ CancelStep(m)
                            \/ ReplayRead(m) \/ ReplayStatus(m) \/ ReplaySettle(m)
      PROVE  RunsMarked'
  BY <1>1, <1>3, CancelMarked, ReplayMarked
<1>4. ASSUME NEW m \in Msg, AskCreate(m) \/ SendQueued(m)
      PROVE  RunsMarked'
  BY <1>4, AskCreateMarked, SendQueuedMarked
<1>5. ~ Restart /\ \A m \in Msg : ~ Die(m)
  BY <1>1 DEF Restart, Die
<1> QED
  BY <1>1, <1>2, <1>3, <1>4, <1>5, OthersMarked DEF AskNext

\* The count of faults never falls.
LEMMA FaultsStay ==
    ASSUME AskInv, AskNext \/ UNCHANGED vars, faults' = 0
    PROVE  faults = 0
<1>1. ASSUME NEW m \in Msg, AskRead(m) \/ AskStatus(m) \/ AskLost(m) \/ AskCreate(m)
      PROVE  Fault \/ UNCHANGED faults
  BY <1>1 DEF AskRead, AskStatus, AskLost, AskCreate, budgets
<1>2. ASSUME NEW m \in Msg, StartStep(m)
      PROVE  Fault \/ UNCHANGED faults
  BY <1>2 DEF StartStep, Send, Check, FailStart, Refuse, MarkWorking, Supersede, Reread, StopStart,
              Hold, StopRun
<1>3. ASSUME NEW m \in Msg, SendQueued(m) \/ FailQueued(m) \/ CancelRead(m) \/ CancelStep(m)
      PROVE  Fault \/ UNCHANGED faults
  BY <1>3 DEF SendQueued, FailQueued, TickKeeps, budgets, CancelRead, CancelStep, CancelWrite,
              CancelFind, CancelStop, StopRun
<1>4. ASSUME NEW m \in Msg, \/ PostResult(m) \/ FinishRun(m) \/ Finish(m) \/ Die(m)
                            \/ ReplayRead(m) \/ ReplayStatus(m) \/ ReplaySettle(m)
      PROVE  Fault \/ UNCHANGED faults
  BY <1>4 DEF PostResult, FinishRun, Finish, Die, ReplayRead, ReplayStatus, ReplaySettle, budgets
<1>5. ASSUME NEW m \in Msg, SweepStep(m)
      PROVE  Fault \/ UNCHANGED faults
  BY <1>5 DEF SweepStep, SweepRead, SweepStatus, SweepSupersede, SweepClose, SweepStuck, SweepPrompt
<1>6. TickRead \/ Restart \/ UNCHANGED vars => Fault \/ UNCHANGED faults
  BY DEF TickRead, TickKeeps, Restart, vars, budgets
<1>7. Fault \/ UNCHANGED faults
  BY <1>1, <1>2, <1>3, <1>4, <1>5, <1>6 DEF AskNext
<1> QED
  BY <1>7 DEF Fault, AskInv, AskTypeOK

\* The invariant holds at first, and every step keeps it.
LEMMA StopInvariance == AskSpec => []StopInv
<1>1. AskInit => StopInv
  <2> SUFFICES ASSUME AskInit, NEW m \in Msg PROVE Marked(m)
    BY DEF StopInv, RunsMarked
  <2>1. /\ start[m].pc = "idle" /\ box[m].run = "none" /\ replay[m] = "idle"
        /\ row[m].started = FALSE /\ Status(m) = "none"
    BY DEF AskInit, NoStart, Status
  <2> QED
    BY <2>1 DEF Marked, Running
<1>2. AskInv /\ StopInv /\ AskNext => StopInv'
  BY NextMarked, FaultsStay DEF StopInv
<1>3. StopInv /\ UNCHANGED vars => StopInv'
  BY DEF StopInv, RunsMarked, Marked, vars, coroutines, budgets, Running, Status, Past, WillStop
<1> QED
  BY <1>1, <1>2, <1>3, AskInvariance, PTL DEF AskSpec

\* Every canceled message's run is stopped: while it goes on, the cancel or the
\* start it raced is still to stop it, unless a call was lost or a process
\* stopped (stopRun is best effort).
THEOREM CanceledRunIsStoppedTheorem == AskSpec => []CanceledRunIsStopped
<1>1. StopInv => CanceledRunIsStopped
  BY DEF StopInv, RunsMarked, Marked, WillStop, CanceledRunIsStopped
<1> QED
  BY <1>1, StopInvariance, PTL
=============================================================================
