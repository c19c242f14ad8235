------------------------- MODULE HeldMessages_proofs -------------------------
(***************************************************************************)
(* Theorems about HeldMessages, for any number of messages, processes,     *)
(* concurrent sends and faults: held messages behave as the queue of       *)
(* HeldQueue, the chat takes one twice only after a stale claim, and       *)
(* HELD_MAX is exceeded by the sends in flight but one at most.            *)
(*                                                                         *)
(* The queue rests on InFlightIsOldest: what a process claims or sends has *)
(* no older row waiting, however long ago it was found.  A row created     *)
(* since is younger, and a row that left never waits again.                *)
(***************************************************************************)
EXTENDS HeldMessages, FiniteSetTheorems, TLAPS

\* p is between its claim of m and the statement that ends it.
Holds(p, m) == job[p].msg = m /\ job[p].at \in {"send", "sent", "refused", "not-ready"}

AheadIsAccepted == \A m \in Msg : ahead[m] \subseteq Accepted

InFlightIsOldest ==
  \A p \in Process : job[p] # Idle =>
    /\ job[p].msg \in Accepted
    /\ ahead[job[p].msg] \cap Waiting = {}

SentIsTaken == \A p \in Process : job[p].at = "sent" => taken[job[p].msg] > 0

OrderInv == HeldTypeOK /\ AheadIsAccepted /\ InFlightIsOldest /\ SentIsTaken

(***************************************************************************)
(* Types and order.                                                        *)
(***************************************************************************)

\* No message, no process at work.
LEMMA InitOrder == HeldInit => OrderInv
<1> SUFFICES ASSUME HeldInit PROVE OrderInv
  OBVIOUS
<1>1. HeldTypeOK
  BY HeldAssumption DEF HeldInit, HeldTypeOK, Jobs, Idle
<1>2. AheadIsAccepted /\ InFlightIsOldest /\ SentIsTaken
  BY DEF HeldInit, AheadIsAccepted, InFlightIsOldest, SentIsTaken, Idle
<1> QED
  BY <1>1, <1>2 DEF OrderInv

\* A process at work has a message, and its job is one of the five.
LEMMA JobKinds ==
  ASSUME HeldTypeOK, NEW p \in Process
  PROVE  /\ job[p] = Idle => job[p].at = "idle"
         /\ job[p] # Idle => /\ job[p].msg \in Msg
                             /\ job[p].at \in {"claim", "send", "sent", "refused", "not-ready"}
         /\ job[p].at # "idle" => job[p] # Idle
  BY DEF HeldTypeOK, Jobs, Idle

\* What a step of holdMessage keeps.
LEMMA HoldOrder ==
  ASSUME OrderInv, NEW m \in Msg, Hold(m)
  PROVE  OrderInv'
<1> USE DEF OrderInv
<1>1. HeldTypeOK'
  <2>1. CASE HoldCount(m)
    BY <2>1 DEF HoldCount, HoldKeeps, HeldTypeOK, Waiting
  <2>2. CASE HoldCreate(m)
    BY <2>2 DEF HoldCreate, HoldKeeps, HeldTypeOK, Waiting, Accepted
  <2>3. CASE HoldFails(m)
    BY <2>3, HeldAssumption DEF HoldFails, HoldKeeps, Fault, HeldTypeOK, Waiting
  <2> QED
    BY <2>1, <2>2, <2>3 DEF Hold
<1>2. Accepted \subseteq Accepted' /\ UNCHANGED <<job, taken>>
  BY DEF Hold, HoldCount, HoldCreate, HoldFails, HoldKeeps, Accepted, HeldTypeOK
<1>3. Waiting' \subseteq Waiting \cup {m} /\ (Waiting' # Waiting => m \notin Accepted)
  BY DEF Hold, HoldCount, HoldCreate, HoldFails, Waiting, Accepted, HeldTypeOK
<1>4. m \notin Accepted /\ \A n \in Msg : n # m => ahead'[n] = ahead[n]
  BY DEF Hold, HoldCount, HoldCreate, HoldFails, Accepted, HeldTypeOK
<1>5. AheadIsAccepted'
  <2> SUFFICES ASSUME NEW n \in Msg PROVE ahead'[n] \subseteq Accepted'
    BY DEF AheadIsAccepted
  <2>1. ahead'[n] = ahead[n] \/ ahead'[n] = Accepted
    BY DEF Hold, HoldCount, HoldCreate, HoldFails, HeldTypeOK
  <2> QED
    BY <2>1, <1>2 DEF AheadIsAccepted
<1>6. InFlightIsOldest'
  <2> SUFFICES ASSUME NEW p \in Process, job[p] # Idle
               PROVE  /\ job[p].msg \in Accepted'
                      /\ ahead'[job[p].msg] \cap Waiting' = {}
    BY <1>2 DEF InFlightIsOldest, Idle
  <2>1. job[p].msg \in Accepted /\ ahead[job[p].msg] \cap Waiting = {} /\ job[p].msg \in Msg
    BY JobKinds DEF InFlightIsOldest
  <2>2. ahead'[job[p].msg] = ahead[job[p].msg] /\ m \notin ahead[job[p].msg]
    BY <2>1, <1>4 DEF AheadIsAccepted
  <2> QED
    BY <2>1, <2>2, <1>2, <1>3
<1>7. SentIsTaken'
  BY <1>2 DEF SentIsTaken
<1> QED
  BY <1>1, <1>5, <1>6, <1>7

\* What a step that creates no row and moves one process p keeps: it leaves
\* rows accepted, sets none waiting, and p's message is a fit one.
LEMMA WorkOrder ==
  ASSUME OrderInv, HeldTypeOK', NEW p \in Process,
         UNCHANGED ahead, Accepted' = Accepted, Waiting' \subseteq Waiting,
         \A m \in Msg : taken'[m] >= taken[m],
         \A q \in Process : q # p => job'[q] = job[q],
         job'[p] # Idle => job'[p].msg = job[p].msg /\ job[p] # Idle,
         job'[p].at = "sent" => taken'[job[p].msg] > 0
  PROVE  OrderInv'
<1> USE DEF OrderInv
<1>1. AheadIsAccepted'
  BY DEF AheadIsAccepted
<1>2. InFlightIsOldest'
  <2> SUFFICES ASSUME NEW q \in Process, job'[q] # Idle
               PROVE  job'[q].msg \in Accepted /\ ahead[job'[q].msg] \cap Waiting' = {}
    BY DEF InFlightIsOldest, Idle
  <2>1. job'[q].msg = job[q].msg /\ job[q] # Idle
    OBVIOUS
  <2> QED
    BY <2>1 DEF InFlightIsOldest
<1>3. SentIsTaken'
  <2> SUFFICES ASSUME NEW q \in Process, job'[q].at = "sent"
               PROVE  taken'[job'[q].msg] > 0
    BY DEF SentIsTaken
  <2>1. CASE q = p
    <3>1. job'[p] # Idle
      BY <2>1 DEF Idle
    <3> QED
      BY <2>1, <3>1
  <2>2. CASE q # p
    <3>1. job'[q] = job[q] /\ job[q].msg \in Msg /\ taken[job[q].msg] > 0
      BY <2>2, JobKinds DEF SentIsTaken
    <3>2. taken[job[q].msg] \in Int /\ taken'[job[q].msg] \in Int /\ taken'[job[q].msg] >= taken[job[q].msg]
      BY <3>1 DEF HeldTypeOK
    <3> QED
      BY <3>1, <3>2
  <2> QED
    BY <2>1, <2>2
<1> QED
  BY <1>1, <1>2, <1>3

\* An oldest waiting row is found: nothing older waits.
LEMMA FindOrder ==
  ASSUME OrderInv, NEW p \in Process, Find(p)
  PROVE  OrderInv'
<1> USE DEF OrderInv
<1> PICK m \in Msg : Oldest(m) /\ job' = [job EXCEPT ![p] = [at |-> "claim", msg |-> m]]
  BY DEF Find
<1>1. HeldTypeOK'
  BY DEF Find, HeldTypeOK, Jobs, rows, Waiting
<1>2. job'[p] = [at |-> "claim", msg |-> m] /\ \A q \in Process : q # p => job'[q] = job[q]
  BY DEF HeldTypeOK
<1>3. AheadIsAccepted'
  BY DEF AheadIsAccepted, Find, rows, Accepted
<1>4. InFlightIsOldest'
  <2>1. m \in Accepted /\ ahead[m] \cap Waiting = {}
    BY DEF Oldest, Waiting, Accepted
  <2> QED
    BY <1>2, <2>1 DEF InFlightIsOldest, Find, rows, Accepted, Waiting
<1>5. SentIsTaken'
  BY <1>2 DEF SentIsTaken, Find
<1> QED
  BY <1>1, <1>3, <1>4, <1>5

\* A claim, won or lost.
LEMMA ClaimOrder ==
  ASSUME OrderInv, NEW p \in Process, Claim(p)
  PROVE  OrderInv'
<1> USE DEF OrderInv
<1> DEFINE m == job[p].msg
<1>1. m \in Msg /\ job[p] # Idle
  BY JobKinds DEF Claim
<1>2. job'[p] = Idle \/ job'[p] = [at |-> "send", msg |-> m]
  BY <1>1 DEF Claim, Await, Return, HeldTypeOK, Jobs, Idle
<1>3. \A q \in Process : q # p => job'[q] = job[q]
  BY DEF Claim, Await, Return, HeldTypeOK
<1>4. HeldTypeOK'
  BY <1>1 DEF Claim, Claimable, Await, Return, HeldTypeOK, Jobs, Waiting
<1>5. job'[p].at # "sent"
  BY <1>2 DEF Idle
<1> HIDE DEF m
<1>6. Accepted' = Accepted /\ Waiting' = Waiting /\ UNCHANGED <<ahead, taken>>
  BY DEF Claim, Accepted, Waiting
<1>7. \A n \in Msg : taken'[n] >= taken[n]
  BY <1>6 DEF HeldTypeOK
<1> QED
  BY <1>1, <1>2, <1>3, <1>4, <1>5, <1>6, <1>7, WorkOrder DEF m

\* A send that is answered sent has put its message in.
LEMMA SendOrder ==
  ASSUME OrderInv, NEW p \in Process, Send(p)
  PROVE  OrderInv'
<1> USE DEF OrderInv
<1> DEFINE m == job[p].msg
<1>1. m \in Msg /\ job[p] # Idle
  BY JobKinds DEF Send
<1>2. PICK step \in {"sent", "refused", "not-ready"} :
         job' = [job EXCEPT ![p].at = step] /\ (step = "sent" => Takes(m))
  BY DEF Send, Await
<1>3. job'[p] = [at |-> step, msg |-> m] /\ \A q \in Process : q # p => job'[q] = job[q]
  BY <1>1, <1>2 DEF HeldTypeOK, Jobs, Idle
<1>4. Takes(m) \/ UNCHANGED taken
  BY DEF Send
<1>5. taken' \in [Msg -> 0..2] /\ \A n \in Msg : taken'[n] >= taken[n]
  BY <1>1, <1>4 DEF Takes, More, HeldTypeOK
<1>6. Takes(m) => taken'[m] > 0
  BY <1>1 DEF Takes, More, HeldTypeOK
<1>7. faults' \in 0..MaxFaults
  BY HeldAssumption DEF Send, Fault, HeldTypeOK
<1>8. HeldTypeOK'
  BY <1>1, <1>2, <1>3, <1>5, <1>7 DEF Send, rows, HeldTypeOK, Jobs, Waiting
<1>9. Accepted' = Accepted /\ Waiting' = Waiting /\ UNCHANGED ahead
  BY DEF Send, rows, Accepted, Waiting
<1> HIDE DEF m
<1> QED
  BY <1>1, <1>2, <1>3, <1>5, <1>6, <1>8, <1>9, WorkOrder DEF m

\* The statement after an answer, or none.
LEMMA EndOrder ==
  ASSUME OrderInv, NEW p \in Process, Delete(p) \/ Refuse(p) \/ Release(p) \/ Abandon(p)
  PROVE  OrderInv'
<1> USE DEF OrderInv
<1> DEFINE m == job[p].msg
<1>1. m \in Msg /\ m \in Accepted
  BY JobKinds DEF Delete, Refuse, Release, Abandon, InFlightIsOldest
<1>2. job' = [job EXCEPT ![p] = Idle]
  BY DEF Delete, Refuse, Release, Abandon, Return
<1>3. job'[p] = Idle /\ \A q \in Process : q # p => job'[q] = job[q]
  BY <1>2 DEF HeldTypeOK
<1>4. HeldTypeOK'
  <2>1. CASE Delete(p)
    BY <1>1, <1>2, <2>1 DEF Delete, HeldTypeOK, Waiting, Jobs
  <2>2. CASE Refuse(p)
    BY <1>1, <1>2, <2>2 DEF Refuse, HeldTypeOK, Waiting, Jobs
  <2>3. CASE Release(p)
    BY <1>1, <1>2, <2>3 DEF Release, HeldTypeOK, Waiting, Jobs
  <2>4. CASE Abandon(p)
    BY <1>2, <2>4, HeldAssumption DEF Abandon, Fault, rows, HeldTypeOK, Waiting, Jobs
  <2> QED
    BY <2>1, <2>2, <2>3, <2>4
<1>5. Accepted' = Accepted /\ Waiting' \subseteq Waiting /\ UNCHANGED <<ahead, taken>>
  BY <1>1 DEF Delete, Refuse, Release, Abandon, rows, Accepted, Waiting, HeldTypeOK
<1>6. \A n \in Msg : taken'[n] >= taken[n]
  BY <1>5 DEF HeldTypeOK
<1>7. job'[p].at # "sent"
  BY <1>3 DEF Idle
<1> HIDE DEF m
<1> QED
  BY <1>3, <1>4, <1>5, <1>6, <1>7, WorkOrder

\* Every step.
LEMMA NextOrder ==
  ASSUME OrderInv, [HeldNext]_heldVars
  PROVE  OrderInv'
<1>1. ASSUME NEW m \in Msg, Hold(m) PROVE OrderInv'
  BY <1>1, HoldOrder
<1>2. ASSUME NEW p \in Process, Deliver(p) \/ Abandon(p) PROVE OrderInv'
  BY <1>2, FindOrder, ClaimOrder, SendOrder, EndOrder DEF Deliver
<1>3. ASSUME NEW m \in Msg, ClaimAges(m) PROVE OrderInv'
  BY <1>3 DEF ClaimAges, OrderInv, HeldTypeOK, Waiting, Accepted,
              AheadIsAccepted, InFlightIsOldest, SentIsTaken
<1>4. CASE ChatTurns \/ UNCHANGED heldVars
  <2>1. UNCHANGED <<rows, job, taken, lapsed, faults>>
    BY <1>4 DEF ChatTurns, heldVars, rows
  <2>2. ready' \in BOOLEAN
    BY <1>4 DEF ChatTurns, heldVars, OrderInv, HeldTypeOK
  <2>3. HeldTypeOK'
    BY <2>1, <2>2 DEF OrderInv, rows, HeldTypeOK, Waiting
  <2>4. Waiting' = Waiting /\ Accepted' = Accepted /\ UNCHANGED <<ahead, job, taken>>
    BY <2>1 DEF rows, Waiting, Accepted
  <2> QED
    BY <2>3, <2>4 DEF OrderInv, AheadIsAccepted, InFlightIsOldest, SentIsTaken
<1> QED
  BY <1>1, <1>2, <1>3, <1>4 DEF HeldNext

\* The order's invariant, in every state.
LEMMA OrderHolds == HeldSpec => []OrderInv
  BY InitOrder, NextOrder, PTL DEF HeldSpec

\* Rows, jobs and counters have their types, and a claim is on a waiting row.
THEOREM HeldTypeCorrect == HeldSpec => []HeldTypeOK
  BY OrderHolds, PTL DEF OrderInv

(***************************************************************************)
(* The queue.                                                              *)
(***************************************************************************)

\* A message with a row is in the abstract queue's front when no older waits.
LEMMA FrontOfQueue ==
  ASSUME OrderInv, NEW p \in Process, job[p] # Idle
  PROVE  /\ job[p].msg \in Msg /\ job[p].msg \in Accepted
         /\ job[p].msg \in Waiting => Queue!Front(job[p].msg)
  BY JobKinds DEF OrderInv, InFlightIsOldest, Queue!Front

\* Every step is a step of the queue or leaves it alone.
LEMMA StepIsQueueStep ==
  ASSUME OrderInv, [HeldNext]_heldVars
  PROVE  [Queue!QueueNext]_Queue!queueVars
<1> USE DEF OrderInv
<1> DEFINE Taken == {m \in Msg : taken[m] > 0}
<1>1. ASSUME NEW m \in Msg, HoldCreate(m) PROVE Queue!Accept(m)
  <2>1. m \notin Accepted /\ Accepted' = Accepted \cup {m} /\ Waiting' = Waiting \cup {m}
        /\ Refused' = Refused /\ Taken' = Taken
    BY <1>1 DEF HoldCreate, HoldKeeps, HeldTypeOK, Accepted, Waiting, Refused
  <2> QED
    BY <1>1, <2>1 DEF HoldCreate, Queue!Accept
<1>2. ASSUME NEW m \in Msg, HoldCount(m) \/ HoldFails(m) \/ ClaimAges(m)
      PROVE  UNCHANGED Queue!queueVars
  BY <1>2 DEF HoldCount, HoldFails, HoldKeeps, ClaimAges, HeldTypeOK, Accepted, Waiting,
              Refused, Queue!queueVars
<1>3. ASSUME NEW p \in Process, Find(p) \/ Claim(p) \/ Release(p) \/ Abandon(p)
      PROVE  UNCHANGED Queue!queueVars
  BY <1>3 DEF Find, Claim, Release, Abandon, rows, Accepted, Waiting, Refused, Queue!queueVars
<1>4. ASSUME NEW p \in Process, Send(p)
      PROVE  (\E m \in Msg : Queue!Take(m)) \/ UNCHANGED Queue!queueVars
  <2> DEFINE m == job[p].msg
  <2>1. m \in Msg /\ m \in Accepted /\ (m \in Waiting => Queue!Front(m))
    BY <1>4, FrontOfQueue, JobKinds DEF Send
  <2>2. UNCHANGED ahead /\ Accepted' = Accepted /\ Waiting' = Waiting /\ Refused' = Refused
    BY <1>4 DEF Send, rows, Accepted, Waiting, Refused
  <2>3. CASE Takes(m)
    <3>1. Taken' = Taken \cup {m}
      BY <2>1, <2>3 DEF Takes, More, HeldTypeOK
    <3> QED
      BY <2>1, <2>2, <3>1 DEF Queue!Take
  <2>4. CASE UNCHANGED taken
    BY <2>2, <2>4 DEF Queue!queueVars
  <2> QED
    BY <1>4, <2>3, <2>4 DEF Send
<1>5. ASSUME NEW p \in Process, Delete(p) \/ Refuse(p)
      PROVE  (\E m \in Msg : Queue!Leave(m) \/ Queue!Recall(m)) \/ UNCHANGED Queue!queueVars
  <2> DEFINE m == job[p].msg
  <2>1. m \in Msg /\ m \in Accepted /\ (m \in Waiting => Queue!Front(m))
    BY <1>5, FrontOfQueue, JobKinds DEF Delete, Refuse
  <2>2. UNCHANGED ahead /\ Accepted' = Accepted /\ Taken' = Taken /\ Waiting' = Waiting \ {m}
    BY <1>5, <2>1 DEF Delete, Refuse, Accepted, Waiting, HeldTypeOK
  <2>3. CASE m \in Waiting
    <3>1. (m \in Taken /\ Refused' = Refused) \/ Refused' = Refused \cup {m}
      BY <1>5, <2>1, <2>3 DEF Delete, Refuse, SentIsTaken, Waiting, Refused, HeldTypeOK
    <3> QED
      BY <2>1, <2>2, <2>3, <3>1 DEF Queue!Leave
  <2>4. CASE m \notin Waiting
    <3>1. Waiting' = Waiting
      BY <2>2, <2>4
    <3>2. CASE Delete(p) /\ m \in Refused
      <4>1. m \in Taken /\ Refused' = Refused \ {m}
        BY <2>1, <3>2 DEF Delete, SentIsTaken, Refused, HeldTypeOK
      <4> QED
        BY <2>1, <2>2, <3>1, <3>2, <4>1 DEF Queue!Recall
    <3>3. CASE Refuse(p) \/ m \notin Refused
      <4>1. Refused' = Refused
        BY <1>5, <2>1, <2>4, <3>3 DEF Delete, Refuse, Refused, Waiting, HeldTypeOK
      <4> QED
        BY <2>2, <3>1, <4>1 DEF Queue!queueVars
    <3> QED
      BY <1>5, <3>2, <3>3
  <2> QED
    BY <2>3, <2>4
<1>6. ASSUME ChatTurns \/ UNCHANGED heldVars PROVE UNCHANGED Queue!queueVars
  BY <1>6 DEF ChatTurns, heldVars, rows, Accepted, Waiting, Refused, Queue!queueVars
<1> QED
  BY <1>1, <1>2, <1>3, <1>4, <1>5, <1>6 DEF HeldNext, Hold, Deliver, Queue!QueueNext

\* Held messages are a queue: first takes come oldest first, none is lost, an
\* error stands for a message not delivered or not known to be.
THEOREM ImplementsQueue == HeldSpec => WaitsItsTurn
<1>1. HeldInit => Queue!QueueInit
  BY DEF HeldInit, Queue!QueueInit, Accepted, Waiting, Refused
<1> QED
  BY <1>1, StepIsQueueStep, OrderHolds, PTL DEF HeldSpec, WaitsItsTurn, Queue!QueueSpec

(***************************************************************************)
(* Twice only after a stale claim.                                         *)
(***************************************************************************)

\* While no claim on m has been taken over, one process at most holds m, its
\* claim is on, and the chat has m only if that process, or one that died on
\* its claim, has put it in.
OneHolder ==
  \A m \in Msg \ lapsed :
    /\ \A p, q \in Process : Holds(p, m) /\ Holds(q, m) => p = q
    /\ \A p \in Process : Holds(p, m) =>
         /\ m \in Waiting /\ claim[m] # "free"
         /\ job[p].at \in {"send", "not-ready"} => taken[m] = 0
    /\ m \in Waiting /\ claim[m] = "free" => taken[m] = 0
    /\ m \notin Accepted => taken[m] = 0
    /\ taken[m] <= 1

\* Nobody holds anything at first.
LEMMA InitOneHolder == HeldInit => OneHolder
  BY DEF HeldInit, OneHolder, Holds, Idle, Waiting

\* A step of holdMessage changes no row that a process holds.
LEMMA HoldOneHolder ==
  ASSUME OrderInv, OneHolder, NEW m \in Msg, Hold(m)
  PROVE  OneHolder'
<1>1. UNCHANGED <<job, taken, lapsed, claim>>
  BY DEF Hold, HoldCount, HoldCreate, HoldFails, HoldKeeps
<1>2. m \notin Accepted /\ Waiting \subseteq Waiting' /\ Waiting' \subseteq Waiting \cup {m}
      /\ Accepted \subseteq Accepted'
  BY DEF Hold, HoldCount, HoldCreate, HoldFails, OrderInv, HeldTypeOK, Accepted, Waiting
<1> QED
  BY <1>1, <1>2 DEF OneHolder, Holds

\* A process that finds a message holds none, as one between jobs.
LEMMA FindOneHolder ==
  ASSUME OrderInv, OneHolder, NEW p \in Process, Find(p)
  PROVE  OneHolder'
<1>1. \A q \in Process, m \in Msg : Holds(q, m)' => Holds(q, m) /\ job'[q] = job[q]
  BY DEF Find, Holds, OrderInv, HeldTypeOK
<1>2. UNCHANGED <<claim, taken, lapsed>> /\ Waiting' = Waiting /\ Accepted' = Accepted
  BY DEF Find, rows, Waiting, Accepted
<1> QED
  BY <1>1, <1>2 DEF OneHolder

\* A claim of a free row: nobody holds it, and the chat does not have it.
LEMMA ClaimOneHolder ==
  ASSUME OrderInv, OneHolder, NEW p \in Process, Claim(p)
  PROVE  OneHolder'
<1> DEFINE m == job[p].msg
<1>1. m \in Msg
  BY JobKinds DEF Claim, OrderInv
<1>2. UNCHANGED taken /\ Waiting' = Waiting /\ Accepted' = Accepted
  BY DEF Claim, Waiting, Accepted
<1>3. \A q \in Process : q # p => job'[q] = job[q]
  BY DEF Claim, Await, Return, OrderInv, HeldTypeOK
<1>4. CASE ~Claimable(m)
  <2>1. \A n \in Msg : ~Holds(p, n)'
    BY <1>4 DEF Claim, Return, Holds, Idle, OrderInv, HeldTypeOK
  <2>2. UNCHANGED <<claim, lapsed>>
    BY <1>4 DEF Claim
  <2> QED
    BY <1>2, <1>3, <2>1, <2>2 DEF OneHolder, Holds
<1>5. CASE Claimable(m) /\ claim[m] = "stale"
  <2>1. lapsed' = lapsed \cup {m} /\ \A n \in Msg : n # m => claim'[n] = claim[n]
    BY <1>1, <1>5 DEF Claim, OrderInv, HeldTypeOK
  <2>2. \A n \in Msg : Holds(p, n)' => n = m
    BY <1>5 DEF Claim, Await, Holds, OrderInv, HeldTypeOK, Jobs, Idle
  <2> QED
    BY <1>2, <1>3, <2>1, <2>2 DEF OneHolder, Holds
<1>6. CASE Claimable(m) /\ claim[m] = "free"
  <2>1. lapsed' = lapsed /\ claim'[m] = "fresh" /\ \A n \in Msg : n # m => claim'[n] = claim[n]
    BY <1>1, <1>6 DEF Claim, OrderInv, HeldTypeOK
  <2>2. \A n \in Msg : Holds(p, n)' => n = m
    BY <1>6 DEF Claim, Await, Holds, OrderInv, HeldTypeOK, Jobs, Idle
  <2>3. m \in Waiting
    BY <1>6 DEF Claimable
  <2>4. m \notin lapsed => taken[m] = 0 /\ \A q \in Process : ~Holds(q, m)
    BY <1>1, <1>6, <2>3 DEF OneHolder
  <2> QED
    BY <1>2, <1>3, <2>1, <2>2, <2>3, <2>4 DEF OneHolder, Holds
<1> QED
  BY <1>1, <1>4, <1>5, <1>6 DEF Claimable, OrderInv, HeldTypeOK

\* The one holder sends what the chat does not have.
LEMMA SendOneHolder ==
  ASSUME OrderInv, OneHolder, NEW p \in Process, Send(p)
  PROVE  OneHolder'
<1> PICK m \in Msg : m = job[p].msg
  BY JobKinds DEF Send, OrderInv
<1>1. m \in Msg /\ Holds(p, m) /\ job[p].at = "send"
  BY JobKinds DEF Send, Holds, OrderInv
<1>2. UNCHANGED <<claim, lapsed>> /\ Waiting' = Waiting /\ Accepted' = Accepted
  BY DEF Send, rows, Waiting, Accepted
<1>3. PICK step \in {"sent", "refused", "not-ready"} :
        /\ job' = [job EXCEPT ![p].at = step]
        /\ UNCHANGED taken \/ (step # "not-ready" /\ Takes(m))
  BY DEF Send, Await
<1>4. \A q \in Process, n \in Msg : Holds(q, n)' => Holds(q, n)
  BY <1>1, <1>3 DEF Holds, OrderInv, HeldTypeOK
<1>5. \A q \in Process : job'[q].at = IF q = p THEN step ELSE job[q].at
  BY <1>3 DEF OrderInv, HeldTypeOK, Jobs, Idle
<1>6. \A n \in Msg : n # m => taken'[n] = taken[n]
  BY <1>1, <1>3 DEF Takes, OrderInv, HeldTypeOK
<1>7. CASE UNCHANGED taken
  <2> SUFFICES ASSUME NEW q \in Process, NEW n \in Msg \ lapsed, Holds(q, n)',
                      job'[q].at \in {"send", "not-ready"}
               PROVE  taken[n] = 0
    BY <1>2, <1>4, <1>7 DEF OneHolder
  <2>1. CASE q = p
    BY <1>1, <1>4, <2>1 DEF OneHolder, Holds
  <2>2. CASE q # p
    BY <1>4, <1>5, <2>2 DEF OneHolder
  <2> QED
    BY <2>1, <2>2
<1>8. CASE step # "not-ready" /\ Takes(m)
  <2>1. m \notin lapsed => taken[m] = 0 /\ m \in Waiting /\ claim[m] # "free" /\ m \in Accepted
    BY <1>1 DEF OneHolder, Waiting, Accepted
  <2>2. m \notin lapsed => taken'[m] = 1
    BY <1>1, <1>8, <2>1 DEF Takes, More, OrderInv, HeldTypeOK
  <2>3. \A q \in Process : m \notin lapsed /\ Holds(q, m)' => q = p
    BY <1>1, <1>4 DEF OneHolder
  <2> SUFFICES ASSUME NEW n \in Msg \ lapsed
               PROVE  /\ \A q, r \in Process : Holds(q, n)' /\ Holds(r, n)' => q = r
                      /\ \A q \in Process : Holds(q, n)' =>
                           /\ n \in Waiting /\ claim[n] # "free"
                           /\ job'[q].at \in {"send", "not-ready"} => taken'[n] = 0
                      /\ n \in Waiting /\ claim[n] = "free" => taken'[n] = 0
                      /\ n \notin Accepted => taken'[n] = 0
                      /\ taken'[n] <= 1
    BY <1>2 DEF OneHolder
  <2>4. CASE n = m
    BY <1>1, <1>4, <1>5, <1>8, <2>1, <2>2, <2>3, <2>4 DEF OneHolder
  <2>5. CASE n # m
    <3>1. taken'[n] = taken[n]
      BY <1>6, <2>5
    <3>2. ASSUME NEW q \in Process, Holds(q, n)' PROVE Holds(q, n) /\ job'[q].at = job[q].at
      <4>1. q # p
        BY <1>4, <2>5, <3>2 DEF Holds
      <4> QED
        BY <1>4, <1>5, <3>2, <4>1
    <3> QED
      BY <3>1, <3>2 DEF OneHolder
  <2> QED
    BY <2>4, <2>5
<1> QED
  BY <1>3, <1>7, <1>8

\* The one holder ends its claim: the row is gone, has its error, or is free
\* again and not in the chat.
LEMMA EndOneHolder ==
  ASSUME OrderInv, OneHolder, NEW p \in Process,
         Delete(p) \/ Refuse(p) \/ Release(p) \/ Abandon(p)
  PROVE  OneHolder'
<1> PICK m \in Msg : m = job[p].msg
  BY JobKinds DEF Delete, Refuse, Release, Abandon, OrderInv
<1>1. m \in Msg /\ m \in Accepted
  BY JobKinds DEF Delete, Refuse, Release, Abandon, OrderInv, InFlightIsOldest
<1>2. job' = [job EXCEPT ![p] = Idle]
  BY DEF Delete, Refuse, Release, Abandon, Return
<1>3. \A q \in Process, n \in Msg : Holds(q, n)' => q # p /\ Holds(q, n) /\ job'[q] = job[q]
  BY <1>2 DEF Holds, Idle, OrderInv, HeldTypeOK
<1>4. UNCHANGED <<taken, lapsed>> /\ Accepted' = Accepted
  BY <1>1 DEF Delete, Refuse, Release, Abandon, rows, Accepted, OrderInv, HeldTypeOK
<1>5. CASE Abandon(p)
  BY <1>3, <1>4, <1>5 DEF Abandon, rows, OneHolder, Waiting
<1>6. CASE Delete(p) \/ Refuse(p) \/ Release(p)
  <2>1. Holds(p, m)
    BY <1>6 DEF Holds, Delete, Refuse, Release
  <2>2. claim' = [claim EXCEPT ![m] = "free"] /\ Waiting \ {m} \subseteq Waiting'
        /\ Waiting' \subseteq Waiting
    BY <1>1, <1>6 DEF Delete, Refuse, Release, Waiting, OrderInv, HeldTypeOK
  <2>3. m \in Waiting' => job[p].at = "not-ready"
    BY <1>1, <1>6 DEF Delete, Refuse, Release, Waiting, OrderInv, HeldTypeOK
  <2>4. \A q \in Process : m \notin lapsed => ~Holds(q, m)'
    BY <1>1, <1>3, <2>1 DEF OneHolder
  <2>5. m \notin lapsed /\ m \in Waiting' => taken[m] = 0
    BY <1>1, <2>1, <2>3 DEF OneHolder
  <2>6. \A n \in Msg : n # m => claim'[n] = claim[n] /\ (n \in Waiting' <=> n \in Waiting)
    BY <2>2 DEF OrderInv, HeldTypeOK
  <2> SUFFICES ASSUME NEW n \in Msg \ lapsed
               PROVE  /\ \A q, r \in Process : Holds(q, n)' /\ Holds(r, n)' => q = r
                      /\ \A q \in Process : Holds(q, n)' =>
                           /\ n \in Waiting' /\ claim'[n] # "free"
                           /\ job'[q].at \in {"send", "not-ready"} => taken[n] = 0
                      /\ n \in Waiting' /\ claim'[n] = "free" => taken[n] = 0
                      /\ n \notin Accepted => taken[n] = 0
                      /\ taken[n] <= 1
    BY <1>4 DEF OneHolder
  <2>7. CASE n = m
    BY <1>1, <2>4, <2>5, <2>7 DEF OneHolder
  <2>8. CASE n # m
    BY <1>3, <2>6, <2>8 DEF OneHolder
  <2> QED
    BY <2>7, <2>8
<1> QED
  BY <1>5, <1>6

\* Every step.
LEMMA NextOneHolder ==
  ASSUME OrderInv, OneHolder, [HeldNext]_heldVars
  PROVE  OneHolder'
<1>1. ASSUME NEW m \in Msg, Hold(m) PROVE OneHolder'
  BY <1>1, HoldOneHolder
<1>2. ASSUME NEW p \in Process, Deliver(p) \/ Abandon(p) PROVE OneHolder'
  BY <1>2, FindOneHolder, ClaimOneHolder, SendOneHolder, EndOneHolder DEF Deliver
<1>3. ASSUME NEW m \in Msg, ClaimAges(m) PROVE OneHolder'
  BY <1>3 DEF ClaimAges, OrderInv, HeldTypeOK, OneHolder, Holds, Waiting, Accepted
<1>4. CASE ChatTurns \/ UNCHANGED heldVars
  BY <1>4 DEF ChatTurns, heldVars, rows, OneHolder, Holds, Waiting, Accepted
<1> QED
  BY <1>1, <1>2, <1>3, <1>4 DEF HeldNext

\* The chat takes a message a second time only if a claim on it went stale,
\* whatever the processes do to each other's claims by then.
THEOREM TwiceOnlyAfterStaleTheorem == HeldSpec => []TwiceOnlyAfterStale
<1>1. OrderInv /\ OneHolder => TwiceOnlyAfterStale
  BY DEF OrderInv, HeldTypeOK, OneHolder, TwiceOnlyAfterStale
<1> QED
  BY <1>1, InitOneHolder, NextOneHolder, OrderHolds, PTL DEF HeldSpec

(***************************************************************************)
(* HELD_MAX.                                                               *)
(***************************************************************************)

\* A count below HELD_MAX leaves room for the others in flight only.
Room ==
  /\ Cardinality(Counted) <= MaxSends
  /\ Cardinality(Waiting) + Cardinality(Counted) <= HeldMax + MaxSends - 1

\* The sets counted are finite, and so are their sizes natural.
LEMMA Finite ==
  /\ IsFiniteSet(Waiting) /\ Cardinality(Waiting) \in Nat
  /\ IsFiniteSet(Counted) /\ Cardinality(Counted) \in Nat
<1>1. Waiting \subseteq Msg /\ Counted \subseteq Msg
  BY DEF Waiting, Counted
<1> QED
  BY <1>1, HeldAssumption, FS_Subset, FS_CardinalityType

\* Nothing is counted at first.
LEMMA InitRoom == HeldInit => Room
<1> SUFFICES ASSUME HeldInit PROVE Room
  OBVIOUS
<1>1. Waiting = {} /\ Counted = {}
  BY DEF HeldInit, Waiting, Counted
<1> QED
  BY <1>1, FS_EmptySet, HeldAssumption DEF Room

\* A step that lets nothing more wait, and counts nothing more, keeps the room.
LEMMA FewerKeepsRoom ==
  ASSUME Room, Waiting' \subseteq Waiting, Counted' \subseteq Counted
  PROVE  Room'
<1>1. /\ Cardinality(Waiting') <= Cardinality(Waiting) /\ Cardinality(Waiting') \in Nat
      /\ Cardinality(Counted') <= Cardinality(Counted) /\ Cardinality(Counted') \in Nat
  BY Finite, FS_Subset, FS_CardinalityType
<1> QED
  BY <1>1, Finite, HeldAssumption DEF Room

\* Every step.
LEMMA NextRoom ==
  ASSUME OrderInv, Room, [HeldNext]_heldVars
  PROVE  Room'
<1>1. ASSUME NEW m \in Msg, HoldCount(m) PROVE Room'
  <2>1. CASE Cardinality(Waiting) >= HeldMax
    BY <1>1, <2>1, FewerKeepsRoom DEF HoldCount, Waiting, Counted, OrderInv, HeldTypeOK
  <2>2. CASE ~(Cardinality(Waiting) >= HeldMax)
    <3>1. Waiting' = Waiting /\ Counted' = Counted \cup {m} /\ m \notin Counted
      BY <1>1, <2>2 DEF HoldCount, Waiting, Counted, OrderInv, HeldTypeOK
    <3>2. Cardinality(Counted') = Cardinality(Counted) + 1
      BY <3>1, Finite, FS_AddElement
    <3>3. Cardinality(Counted) < MaxSends
      BY <1>1 DEF HoldCount
    <3> QED
      BY <2>2, <3>1, <3>2, <3>3, Finite, HeldAssumption DEF Room
  <2> QED
    BY <2>1, <2>2
<1>2. ASSUME NEW m \in Msg, HoldCreate(m) PROVE Room'
  <2>1. /\ Waiting' = Waiting \cup {m} /\ m \notin Waiting
        /\ Counted' = Counted \ {m} /\ m \in Counted
    BY <1>2 DEF HoldCreate, Waiting, Counted, OrderInv, HeldTypeOK
  <2>2. Cardinality(Waiting') = Cardinality(Waiting) + 1
    BY <2>1, Finite, FS_AddElement
  <2>3. Cardinality(Counted') = Cardinality(Counted) - 1
    BY <2>1, Finite, FS_RemoveElement
  <2> QED
    BY <2>2, <2>3, Finite, HeldAssumption DEF Room
<1>3. ASSUME NEW m \in Msg, HoldFails(m) \/ ClaimAges(m) PROVE Room'
  BY <1>3, FewerKeepsRoom DEF HoldFails, ClaimAges, Waiting, Counted, OrderInv, HeldTypeOK
<1>4. ASSUME NEW p \in Process, Find(p) \/ Claim(p) \/ Send(p) \/ Release(p) \/ Abandon(p) PROVE Room'
  BY <1>4, FewerKeepsRoom DEF Find, Claim, Send, Release, Abandon, rows, Waiting, Counted
<1>5. ASSUME NEW p \in Process, Delete(p) \/ Refuse(p) PROVE Room'
  <2>1. Waiting' \subseteq Waiting /\ Counted' \subseteq Counted
    BY <1>5 DEF Delete, Refuse, Waiting, Counted, OrderInv, HeldTypeOK
  <2> QED
    BY <2>1, FewerKeepsRoom
<1>6. CASE ChatTurns \/ UNCHANGED heldVars
  BY <1>6, FewerKeepsRoom DEF ChatTurns, heldVars, rows, Waiting, Counted
<1> QED
  BY <1>1, <1>2, <1>3, <1>4, <1>5, <1>6 DEF HeldNext, Hold, Deliver

\* However the counts and the creates of concurrent sends interleave, no more
\* than HELD_MAX and the sends in flight but one ever wait.
THEOREM HeldAtMostTheorem == HeldSpec => []HeldAtMost
<1>1. Room => HeldAtMost
  BY Finite, HeldAssumption DEF Room, HeldAtMost
<1> QED
  BY <1>1, InitRoom, NextRoom, OrderHolds, PTL DEF HeldSpec

=============================================================================
