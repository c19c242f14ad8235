---------------------------- MODULE HeldMessages ----------------------------
(***************************************************************************)
(* Messages held for one chat that cannot take them yet                    *)
(* (backend/src/services/chatHeld.ts), from the send that holds one        *)
(* (routes/chat.ts holdIfContinuing) to the delivery that puts it in       *)
(* (deliverHeldMessage), by several orchestrator processes.                *)
(*                                                                         *)
(* A step is one SQL statement, or the chat's handling of one send: what   *)
(* happens between a send and its answer may take longer than a claim      *)
(* lasts.  Times are kept as what they decide: ahead[m] is the set of rows *)
(* with an older createdAt, and a claim is free, fresh or stale.           *)
(***************************************************************************)
EXTENDS Integers, FiniteSets

CONSTANTS
  Msg,        \* messages sent while the chat's plan is to hold them
  Process,    \* orchestrator processes: each delivers, on every kick and sweep
  None,       \* no message
  HeldMax,    \* HELD_MAX
  MaxSends,   \* bound: sends between holdMessage's two statements at once
  MaxFaults   \* bound: lost calls, failed statements and deaths

ASSUME HeldAssumption ==
  /\ IsFiniteSet(Msg) /\ None \notin Msg
  /\ HeldMax \in Nat \ {0} /\ MaxSends \in Nat \ {0} /\ MaxFaults \in Nat

VARIABLES
  held,      \* "new", "counted" (holdMessage is between its statements), "away"
             \* (answered 429 or 500), then the row: "waiting", "refused"
             \* (its error is set), "gone" (deleted)
  ahead,     \* ahead[m]: the rows created before m's
  claim,     \* claimedAt of m's row: "free" (null), "fresh", "stale"
  job,       \* job[p]: what deliverHeld awaits in p, and for which message
  taken,     \* how often the chat has taken m: 0, 1, or 2 for more
  ready,     \* the chat can take a message
  lapsed,    \* messages claimed a second time because the first claim was stale
  faults     \* counter of the bound above

rows == <<held, ahead, claim>>
heldVars == <<held, ahead, claim, job, taken, ready, lapsed, faults>>

Idle == [at |-> "idle", msg |-> None]
Jobs == {Idle} \cup [at : {"claim", "send", "sent", "refused", "not-ready"}, msg : Msg]

Waiting == {m \in Msg : held[m] = "waiting"}
Refused == {m \in Msg : held[m] = "refused"}
Counted == {m \in Msg : held[m] = "counted"}
Accepted == {m \in Msg : held[m] \in {"waiting", "refused", "gone"}}

\* Types; and only a waiting row carries a claim: a release, an error and a
\* deletion each take it off.
HeldTypeOK ==
  /\ held \in [Msg -> {"new", "counted", "away", "waiting", "refused", "gone"}]
  /\ ahead \in [Msg -> SUBSET Msg]
  /\ claim \in [Msg -> {"free", "fresh", "stale"}]
  /\ job \in [Process -> Jobs]
  /\ taken \in [Msg -> 0..2]
  /\ ready \in BOOLEAN
  /\ lapsed \in SUBSET Msg
  /\ faults \in 0..MaxFaults
  /\ \A m \in Msg : claim[m] # "free" => m \in Waiting

HeldInit ==
  /\ held = [m \in Msg |-> "new"]
  /\ ahead = [m \in Msg |-> {}]
  /\ claim = [m \in Msg |-> "free"]
  /\ job = [p \in Process |-> Idle]
  /\ taken = [m \in Msg |-> 0]
  /\ ready \in BOOLEAN
  /\ lapsed = {}
  /\ faults = 0

Fault == faults < MaxFaults /\ faults' = faults + 1

-----------------------------------------------------------------------------
(* holdMessage. *)

HoldKeeps == <<claim, job, taken, ready, lapsed>>

\* Wrong: nobody counts.
HoldCountsNone(m) ==
  /\ held[m] = "new" /\ Cardinality(Counted) < MaxSends
  /\ held' = [held EXCEPT ![m] = "counted"]
  /\ UNCHANGED <<ahead, faults, HoldKeeps>>

\* Count the chat's waiting rows: HELD_MAX of them turn the send away.
HoldCount(m) ==
  /\ held[m] = "new" /\ Cardinality(Counted) < MaxSends
  /\ held' = [held EXCEPT ![m] =
                IF Cardinality(Waiting) >= HeldMax THEN "away" ELSE "counted"]
  /\ UNCHANGED <<ahead, faults, HoldKeeps>>

\* Create the row, whatever has been created since the count.
HoldCreate(m) ==
  /\ held[m] = "counted"
  /\ held' = [held EXCEPT ![m] = "waiting"]
  /\ ahead' = [ahead EXCEPT ![m] = Accepted]
  /\ UNCHANGED <<faults, HoldKeeps>>

\* The create throws, or its process dies first.
HoldFails(m) ==
  /\ held[m] = "counted"
  /\ Fault
  /\ held' = [held EXCEPT ![m] = "away"]
  /\ UNCHANGED <<ahead, HoldKeeps>>

-----------------------------------------------------------------------------
(* deliverHeld: one loop at a time in a process (`delivering`). *)

\* Wrong: findFirst without its orderBy.
AnyWaiting(m) == m \in Waiting

Oldest(m) == m \in Waiting /\ ahead[m] \cap Waiting = {}

Await(p, step) == job' = [job EXCEPT ![p].at = step]
Return(p) == job' = [job EXCEPT ![p] = Idle]

\* A kick, the sweep, or the loop going round: the oldest row without an error.
Find(p) ==
  /\ job[p] = Idle
  /\ \E m \in Msg : Oldest(m) /\ job' = [job EXCEPT ![p] = [at |-> "claim", msg |-> m]]
  /\ UNCHANGED <<rows, taken, ready, lapsed, faults>>

\* Wrong: the claim does not look at claimedAt.
ClaimsAnything(m) == m \in Waiting

\* Wrong: a claim never goes stale.
ClaimsFreeOnly(m) == m \in Waiting /\ claim[m] = "free"

\* claim()'s WHERE: no error, and claimedAt null or older than HELD_CLAIM_STALE_MS.
Claimable(m) == m \in Waiting /\ claim[m] # "fresh"

Claim(p) ==
  LET m == job[p].msg IN
  /\ job[p].at = "claim"
  /\ IF Claimable(m)
     THEN /\ claim' = [claim EXCEPT ![m] = "fresh"]
          /\ lapsed' = IF claim[m] = "stale" THEN lapsed \cup {m} ELSE lapsed
          /\ Await(p, "send")
     ELSE Return(p) /\ UNCHANGED <<claim, lapsed>>
  /\ UNCHANGED <<held, ahead, taken, ready, faults>>

More(n) == IF n = 2 THEN 2 ELSE n + 1
Takes(m) == taken' = [taken EXCEPT ![m] = More(@)]

\* The send, at the chat.  A chat that is coming up, stopped or busy answers so
\* (503, or a code in NOT_READY_CODES); one that is ready takes the message or
\* refuses it.  A call the box never gets, or whose answer is lost, is a 502,
\* and anything but 202 and not-ready counts as refused.
Send(p) ==
  /\ job[p].at = "send"
  /\ \/ ~ready /\ Await(p, "not-ready") /\ UNCHANGED <<taken, faults>>
     \/ ready /\ Takes(job[p].msg) /\ Await(p, "sent") /\ UNCHANGED faults
     \/ ready /\ Await(p, "refused") /\ UNCHANGED <<taken, faults>>
     \/ /\ Fault /\ Await(p, "refused")
        /\ \/ UNCHANGED taken
           \/ ready /\ Takes(job[p].msg)
  /\ UNCHANGED <<rows, ready, lapsed>>

\* Sent: deleteMany by id, whoever holds the claim by now.
Delete(p) ==
  LET m == job[p].msg IN
  /\ job[p].at = "sent"
  /\ held' = [held EXCEPT ![m] = "gone"]
  /\ claim' = [claim EXCEPT ![m] = "free"]
  /\ Return(p)
  /\ UNCHANGED <<ahead, taken, ready, lapsed, faults>>

\* Wrong: the error leaves the claim on.
RefuseKeepsClaim(p) ==
  LET m == job[p].msg IN
  /\ job[p].at = "refused"
  /\ held' = [held EXCEPT ![m] = IF @ = "waiting" THEN "refused" ELSE @]
  /\ Return(p)
  /\ UNCHANGED <<ahead, claim, taken, ready, lapsed, faults>>

\* Refused: the error is set and the claim taken off, by id, if the row is there.
Refuse(p) ==
  LET m == job[p].msg IN
  /\ job[p].at = "refused"
  /\ held' = [held EXCEPT ![m] = IF @ = "waiting" THEN "refused" ELSE @]
  /\ claim' = [claim EXCEPT ![m] = "free"]
  /\ Return(p)
  /\ UNCHANGED <<ahead, taken, ready, lapsed, faults>>

\* Not ready: the claim is taken off, by id, whoever holds it by now.
Release(p) ==
  LET m == job[p].msg IN
  /\ job[p].at = "not-ready"
  /\ claim' = [claim EXCEPT ![m] = "free"]
  /\ Return(p)
  /\ UNCHANGED <<held, ahead, taken, ready, lapsed, faults>>

\* A statement throws, or the process dies: the loop ends, the claim stays.
Abandon(p) ==
  /\ job[p] # Idle
  /\ Fault
  /\ Return(p)
  /\ UNCHANGED <<rows, taken, ready, lapsed>>

-----------------------------------------------------------------------------
(* Time and the chat. *)

\* HELD_CLAIM_STALE_MS pass, whether or not the holder is still sending.
ClaimAges(m) ==
  /\ claim[m] = "fresh"
  /\ claim' = [claim EXCEPT ![m] = "stale"]
  /\ UNCHANGED <<held, ahead, job, taken, ready, lapsed, faults>>

\* The box and its chat come up and go down.
ChatTurns ==
  /\ ready' = ~ready
  /\ UNCHANGED <<rows, job, taken, lapsed, faults>>

Hold(m) == HoldCount(m) \/ HoldCreate(m) \/ HoldFails(m)
Deliver(p) == Find(p) \/ Claim(p) \/ Send(p) \/ Delete(p) \/ Refuse(p) \/ Release(p)

HeldNext ==
  \/ \E m \in Msg : Hold(m) \/ ClaimAges(m)
  \/ \E p \in Process : Deliver(p) \/ Abandon(p)
  \/ ChatTurns

HeldSpec == HeldInit /\ [][HeldNext]_heldVars

\* The sweep comes round, awaits return, time passes.  Nobody need send, fail
\* or die.
HeldFairSpec ==
  /\ HeldSpec
  /\ \A p \in Process : WF_heldVars(Deliver(p))
  /\ \A m \in Msg : WF_heldVars(ClaimAges(m))

-----------------------------------------------------------------------------
(* Properties. *)

\* HELD_MAX is counted before the row is created: sends that count together all
\* get in.  So many, and no more, wait: HELD_MAX and the sends in flight but one.
HeldAtMost == Cardinality(Waiting) <= HeldMax + MaxSends - 1

\* "One process delivers a message": the chat takes one a second time only if
\* its first claim went stale, under a holder that died or was too slow.
TwiceOnlyAfterStale == \A m \in Msg : taken[m] > 1 => m \in lapsed

\* Oldest first, none lost, an error only in place of a delivery, the ones
\* behind go on: whatever goes stale, fails or dies in between, the rows and the
\* chat behave as a queue.
Queue == INSTANCE HeldQueue WITH
  accepted <- Accepted, queue <- Waiting, refused <- Refused,
  taken <- {m \in Msg : taken[m] > 0}
WaitsItsTurn == Queue!QueueSpec

\* Once the chat stays ready, every waiting message goes in or gets an error.
EveryHeldEnds ==
  <>[]ready => \A m \in Msg : m \in Waiting ~> m \notin Waiting

=============================================================================
