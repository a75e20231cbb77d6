-------------------------- MODULE PushDeliveryProofs --------------------------
(***************************************************************************)
(* Proofs about PushDelivery for every number of invocations and           *)
(* installations and every value of the timing constants:                  *)
(*   TypeCorrect       the type invariant;                                 *)
(*   OneSender         SingleSender, if a lease outlives an execution;     *)
(*   RingRefined       the lease protocol implements RingDelivery;         *)
(*   NothingLost       NoSilentLoss, if a retry waits out the lease;       *)
(*   RepeatsExplained  RepeatOnlyAfterFailure, as OneSender;               *)
(*   FinalUntilPurged  CompletedIsFinal, if every retry is over before the *)
(*                     record may be purged;                               *)
(*   LossVisible       an invocation given up leaves a trace;              *)
(*   NobodyEverForgotten  whoever has no answer is still owed an attempt;  *)
(*   TimelyRings       no ring is delivered after it is too old.           *)
(***************************************************************************)
EXTENDS PushDelivery, TLAPS

USE ConstantsAssumption

-----------------------------------------------------------------------------
(* The sets the variables range over.                                      *)

LEMMA PcStates ==
  /\ {"idle", "queued", "put", "get", "steal", "members", "installations", "sending",
      "settle", "success", "dlq"} = PcState
  /\ Claiming \cap Holding = {}
  /\ Running \subseteq PcState
BY DEF PcState, Running, Claiming, Holding, Settled

LEMMA Answers ==
  /\ SendResult \subseteq Answer /\ "UNTRIED" \in Answer /\ "NOT_TARGET" \in Answer
  /\ NoAnswers \in [Installation -> Answer]
BY DEF SendResult, Answer, NoAnswers

LEMMA Outcomes ==
  /\ {"NONE", "PROCESSED", "NO_RECIPIENTS", "ALL_SUPPRESSED", "NO_INSTALLATIONS"} \subseteq Outcome
  /\ \A t \in Int : TemporalSuppression(t) \in Outcome
  /\ NothingSeen \in Snapshot
BY DEF Outcome, TemporalSuppression, NothingSeen, Snapshot

LEMMA ReadingsInt == clock \in Nat => Readings \subseteq Int
BY DEF Readings

\* The items the writes of claim(), complete() and abandon() leave behind.
LEMMA Items ==
  /\ Absent \in Item
  /\ \A t \in Int : FreshClaim(t) \in Item
  /\ \A r \in Item : \A t \in Int : [r EXCEPT !.lease = t] \in Item
  /\ \A r \in Item : \A o \in Outcome :
       [r EXCEPT !.status = "COMPLETED", !.outcome = o] \in Item
<1> USE DEF Item, Status, Outcome
<1>1. Absent \in Item
  BY DEF Absent
<1>2. \A t \in Int : FreshClaim(t) \in Item
  BY DEF FreshClaim, LeaseFrom
<1>3. \A r \in Item : \A t \in Int : [r EXCEPT !.lease = t] \in Item
  OBVIOUS
<1>4. \A r \in Item : \A o \in Outcome :
        [r EXCEPT !.status = "COMPLETED", !.outcome = o] \in Item
  OBVIOUS
<1>5. QED
  BY <1>1, <1>2, <1>3, <1>4

LEMMA StolenItem == ASSUME TypeOK, NEW d \in Delivery PROVE Stolen(d) \in Item
<1>1. \A r \in Item : \A l \in Int : \A n \in Nat :
        [r EXCEPT !.status = "PROCESSING", !.lease = l, !.attempt = n] \in Item
  BY DEF Item, Status
<1>2. record \in Item /\ LeaseFrom(now[d]) \in Int /\ seen[d].attempt + 1 \in Nat
  BY DEF TypeOK, LeaseFrom, Snapshot
<1>3. QED
  BY <1>1, <1>2 DEF Stolen

-----------------------------------------------------------------------------
(* Type correctness.                                                       *)

LEMMA InitTypeOK == Init => TypeOK
<1> SUFFICES ASSUME Init PROVE TypeOK
  OBVIOUS
<1>1. /\ pc \in [Delivery -> PcState] /\ outcome \in [Delivery -> Outcome]
      /\ seen \in [Delivery -> Snapshot] /\ answer \in [Delivery -> [Installation -> Answer]]
  BY PcStates, Answers, Outcomes DEF Init
<1>2. /\ \A d \in Delivery : pc[d] \in {"idle", "queued"} => tries[d] < MaxTries
      /\ tries \in [Delivery -> 0..MaxTries] /\ timer \in [Delivery -> Nat]
      /\ now \in [Delivery -> Int] /\ attempt \in [Delivery -> Nat]
      /\ accepted \in [Installation -> Nat]
  BY DEF Init
<1>3. /\ clock \in Nat /\ record \in Item /\ holder \in Delivery /\ failures \in Nat
      /\ completed \in BOOLEAN /\ purged \in BOOLEAN
  BY Items DEF Init
<1>4. QED
  BY <1>1, <1>2, <1>3 DEF TypeOK

\* What an execution leaves behind when it ends is well typed.
LEMMA ForgetTypes ==
  ASSUME TypeOK, NEW d \in Delivery, Forget(d)
  PROVE  /\ now' \in [Delivery -> Int] /\ seen' \in [Delivery -> Snapshot]
         /\ attempt' \in [Delivery -> Nat] /\ outcome' \in [Delivery -> Outcome]
         /\ answer' \in [Delivery -> [Installation -> Answer]]
BY Answers, Outcomes DEF TypeOK, Forget

LEMMA FailTypes ==
  ASSUME TypeOK, NEW d \in Delivery, Fail(d), UNCHANGED clock, record' \in Item,
         UNCHANGED <<holder, completed, purged>>
  PROVE  TypeOK'
<1>1. /\ pc' \in [Delivery -> PcState]
      /\ \A e \in Delivery : pc'[e] \in {"idle", "queued"} => tries'[e] < MaxTries
  BY PcStates DEF TypeOK, Fail, AfterFailure, CanRetry
<1>2. timer' \in [Delivery -> Nat] /\ failures' \in Nat
  BY DEF TypeOK, Fail
<1>3. QED
  BY <1>1, <1>2, ForgetTypes DEF TypeOK, Fail

LEMMA SucceedTypes ==
  ASSUME TypeOK, NEW d \in Delivery, Succeed(d), UNCHANGED clock, record' \in Item,
         holder' \in Delivery, completed' \in BOOLEAN, UNCHANGED purged
  PROVE  TypeOK'
BY PcStates, ForgetTypes DEF TypeOK, Succeed, history, queue

LEMMA NextTypeOK == TypeOK /\ [Next]_vars => TypeOK'
<1> SUFFICES ASSUME TypeOK, [Next]_vars PROVE TypeOK'
  OBVIOUS
<1> USE DEF TypeOK, table, history, locals, queue
<1>1. ASSUME NEW d \in Delivery, Invoke(d) PROVE TypeOK'
  BY <1>1, PcStates DEF Invoke
<1>2. ASSUME NEW d \in Delivery, Start(d) PROVE TypeOK'
  <2>1. tries' \in [Delivery -> 0..MaxTries]
    BY <1>2 DEF Start
  <2>2. \A e \in Delivery : pc'[e] \in {"idle", "queued"} => tries'[e] < MaxTries
    BY <1>2 DEF Start
  <2>3. pc' \in [Delivery -> PcState] /\ now' \in [Delivery -> Int] /\ timer' \in [Delivery -> Nat]
    BY <1>2, PcStates, ReadingsInt DEF Start
  <2>4. QED
    BY <1>2, <2>1, <2>2, <2>3 DEF Start
<1>3. ASSUME NEW d \in Delivery, ClaimFresh(d) PROVE TypeOK'
  BY <1>3, PcStates, Items DEF ClaimFresh, Hold
<1>4. ASSUME NEW d \in Delivery, ClaimExists(d) \/ ReadVanished(d) PROVE TypeOK'
  BY <1>4, PcStates DEF ClaimExists, ReadVanished
<1>5. ASSUME NEW d \in Delivery, ReadDuplicate(d) \/ ClaimBeaten(d) PROVE TypeOK'
  BY <1>5, SucceedTypes DEF ReadDuplicate, ClaimBeaten
<1>6. ASSUME NEW d \in Delivery, ReadExpired(d) PROVE TypeOK'
  BY <1>6, PcStates DEF ReadExpired, Snapshot, Item
<1>7. ASSUME NEW d \in Delivery, ClaimResume(d) PROVE TypeOK'
  BY <1>7, PcStates, StolenItem DEF ClaimResume, Hold, Snapshot
<1>8. ASSUME NEW d \in Delivery, DecideRecipients(d) PROVE TypeOK'
  BY <1>8, PcStates, ReadingsInt, Outcomes DEF DecideRecipients
<1>9. ASSUME NEW d \in Delivery, FindInstallations(d) PROVE TypeOK'
  BY <1>9, PcStates, Answers, Outcomes DEF FindInstallations
<1>10. ASSUME NEW d \in Delivery, SendNext(d) PROVE TypeOK'
  BY <1>10, Answers DEF SendNext, Untried
<1>11. ASSUME NEW d \in Delivery, Complete(d) PROVE TypeOK'
  BY <1>11, Items, SucceedTypes DEF Complete
<1>12. ASSUME NEW d \in Delivery, Abandon(d) PROVE TypeOK'
  BY <1>12, Items, ReadingsInt, FailTypes DEF Abandon, Released
<1>13. ASSUME NEW d \in Delivery, FreshAnswerLost(d) \/ ResumeAnswerLost(d) PROVE TypeOK'
  <2>1. CASE FreshAnswerLost(d)
    BY <2>1, PcStates, Items DEF FreshAnswerLost
  <2>2. CASE ResumeAnswerLost(d)
    BY <2>2, StolenItem, SucceedTypes DEF ResumeAnswerLost
  <2>3. QED
    BY <1>13, <2>1, <2>2
<1>14. ASSUME NEW d \in Delivery, CredentialFailure(d) \/ Crash(d) PROVE TypeOK'
  BY <1>14, FailTypes DEF CredentialFailure, Crash
<1>15. CASE Purge
  BY <1>15, Items DEF Purge
<1>16. CASE Tick
  BY <1>16 DEF Tick
<1>17. CASE UNCHANGED vars
  BY <1>17 DEF vars
<1>18. QED
  BY <1>1, <1>2, <1>3, <1>4, <1>5, <1>6, <1>7, <1>8, <1>9, <1>10, <1>11, <1>12, <1>13,
     <1>14, <1>15, <1>16, <1>17 DEF Next, Progress, Claim, FanOut

\* Every variable keeps its type in every reachable state of the push sender.
THEOREM TypeCorrect == Spec => []TypeOK
BY InitTypeOK, NextTypeOK, PTL DEF Spec

-----------------------------------------------------------------------------
(* What the steps have in common.                                          *)

\* What d does leaves the other invocations where they are.
Others(d) ==
  \A e \in Delivery \ {d} :
    /\ pc'[e] = pc[e] /\ timer'[e] = timer[e] /\ now'[e] = now[e]
    /\ seen'[e] = seen[e] /\ attempt'[e] = attempt[e]

\* d's execution ends.
Ends(d) == pc'[d] \in {"queued", "success", "dlq"} /\ Others(d)

LEMMA FailEnds ==
  ASSUME TypeOK, NEW d \in Delivery, Fail(d)
  PROVE  Ends(d) /\ pc'[d] # "success" /\ timer'[d] = clock + RetryDelay
BY DEF TypeOK, Fail, AfterFailure, Forget, Ends, Others

LEMMA SucceedEnds ==
  ASSUME TypeOK, NEW d \in Delivery, Succeed(d) PROVE Ends(d) /\ pc'[d] = "success"
BY DEF TypeOK, Succeed, Forget, Ends, Others, history, queue

\* The execution goes on: it stays within its limits.
Continues(d) ==
  /\ pc[d] \in Running /\ pc'[d] \in Running
  /\ timer' = timer /\ now' = now /\ Others(d)

LEMMA StepKinds ==
  ASSUME TypeOK, NEW d \in Delivery,
         Invoke(d) \/ Progress(d) \/ FreshAnswerLost(d) \/ ResumeAnswerLost(d)
           \/ CredentialFailure(d) \/ Crash(d)
  PROVE  clock' = clock /\ (Invoke(d) \/ Start(d) \/ Ends(d) \/ Continues(d))
<1> USE DEF table, history, locals, queue
<1>1. CASE Invoke(d) \/ Start(d)
  BY <1>1 DEF Invoke, Start
<1>2. CASE ClaimFresh(d) \/ ClaimResume(d)
  BY <1>2 DEF ClaimFresh, ClaimResume, Hold, Continues, Others, Running, Claiming, Holding, TypeOK
<1>3. CASE ClaimExists(d) \/ ReadVanished(d) \/ ReadExpired(d) \/ FreshAnswerLost(d)
  BY <1>3 DEF ClaimExists, ReadVanished, ReadExpired, FreshAnswerLost, Continues, Others, Running,
     Claiming, TypeOK
<1>4. CASE ReadDuplicate(d) \/ ClaimBeaten(d) \/ ResumeAnswerLost(d)
  BY <1>4, SucceedEnds DEF ReadDuplicate, ClaimBeaten, ResumeAnswerLost
<1>5. CASE FanOut(d)
  BY <1>5 DEF FanOut, DecideRecipients, FindInstallations, SendNext, Continues, Others, Running,
     Holding, TypeOK
<1>6. CASE Complete(d)
  BY <1>6, SucceedEnds DEF Complete
<1>7. CASE Abandon(d) \/ CredentialFailure(d) \/ Crash(d)
  BY <1>7, FailEnds DEF Abandon, CredentialFailure, Crash
<1>8. QED
  BY <1>1, <1>2, <1>3, <1>4, <1>5, <1>6, <1>7 DEF Progress, Claim

-----------------------------------------------------------------------------
(* Executions stay within their limits.                                    *)

LEMMA InitTimingInv == Init => TimingInv
BY DEF Init, TimingInv, Running, Claiming, Holding

LEMMA NextTimingInv == TypeOK /\ TypeOK' /\ TimingInv /\ [Next]_vars => TimingInv'
<1> SUFFICES ASSUME TypeOK, TypeOK', TimingInv, [Next]_vars PROVE TimingInv'
  OBVIOUS
<1>1. ASSUME NEW d \in Delivery, Invoke(d) PROVE TimingInv'
  BY <1>1 DEF TypeOK, TimingInv, Invoke, Running, Claiming, Holding, locals
<1>2. ASSUME NEW d \in Delivery, Start(d) PROVE TimingInv'
  BY <1>2 DEF TypeOK, TimingInv, Start, Readings
<1>3. ASSUME NEW d \in Delivery, Ends(d), clock' = clock PROVE TimingInv'
  BY <1>3 DEF TypeOK, TimingInv, Ends, Others, Running, Claiming, Holding
<1>4. ASSUME NEW d \in Delivery, Continues(d), clock' = clock PROVE TimingInv'
  BY <1>4 DEF TypeOK, TimingInv, Continues, Others
<1>5. CASE Purge
  BY <1>5 DEF TimingInv, Purge, locals, queue
<1>6. CASE Tick
  BY <1>6 DEF TypeOK, TimingInv, Tick, locals, queue
<1>7. CASE UNCHANGED vars
  BY <1>7 DEF TimingInv, vars, locals, queue
<1>8. QED
  BY <1>1, <1>2, <1>3, <1>4, <1>5, <1>6, <1>7, StepKinds DEF Next

-----------------------------------------------------------------------------
(* The record and its history agree.                                       *)

LEMMA InitRecordInv == Init => RecordInv
BY DEF Init, RecordInv, Absent

LEMMA NextRecordInv ==
  TypeOK /\ TypeOK' /\ TimingInv /\ RecordInv /\ [Next]_vars => RecordInv'
<1> SUFFICES ASSUME TypeOK, TypeOK', TimingInv, RecordInv, [Next]_vars PROVE RecordInv'
  OBVIOUS
<1> USE DEF table, history, locals, queue
<1>1. ASSUME NEW d \in Delivery, ClaimFresh(d) \/ FreshAnswerLost(d) PROVE RecordInv'
  <2>1. RetentionSeconds - Skew <= now[d] + RetentionSeconds
    BY <1>1 DEF ClaimFresh, FreshAnswerLost, TimingInv, TypeOK, Running, Claiming
  <2>2. record' = FreshClaim(now[d]) /\ record.status = "ABSENT"
        /\ UNCHANGED <<clock, completed, purged>>
    BY <1>1 DEF ClaimFresh, FreshAnswerLost
  <2>3. record'.expires = now[d] + RetentionSeconds /\ record'.status = "PROCESSING"
    BY <2>2 DEF FreshClaim
  <2>4. QED
    BY <2>1, <2>2, <2>3 DEF RecordInv
<1>2. ASSUME NEW d \in Delivery, ClaimResume(d) \/ ResumeAnswerLost(d) PROVE RecordInv'
  <2>1. /\ record' = Stolen(d) /\ record.status = "PROCESSING"
        /\ UNCHANGED <<clock, completed, purged>>
    BY <1>2 DEF ClaimResume, ResumeAnswerLost, StealCondition
  <2>2. record'.expires = record.expires /\ record'.status = "PROCESSING"
    BY <2>1 DEF Stolen, TypeOK, Item
  <2>3. QED
    BY <2>1, <2>2 DEF RecordInv
<1>3. ASSUME NEW d \in Delivery, Complete(d) PROVE RecordInv'
  <2>1. UNCHANGED <<clock, purged>>
    BY <1>3 DEF Complete
  <2>2. CASE StillOwns(d)
    <3>1. /\ record'.expires = record.expires /\ record'.status = "COMPLETED"
          /\ completed' = TRUE /\ record.status # "ABSENT"
      BY <1>3, <2>2 DEF Complete, StillOwns, TypeOK, Item
    <3>2. QED
      BY <2>1, <3>1 DEF RecordInv
  <2>3. CASE ~StillOwns(d)
    <3>1. record' = record /\ completed' = completed
      BY <1>3, <2>3 DEF Complete, TypeOK
    <3>2. QED
      BY <2>1, <3>1 DEF RecordInv
  <2>4. QED
    BY <2>2, <2>3
<1>4. ASSUME NEW d \in Delivery, Abandon(d) PROVE RecordInv'
  <2>1. UNCHANGED <<clock, purged, completed>>
    BY <1>4 DEF Abandon
  <2>2. record'.expires = record.expires /\ record'.status = record.status
    BY <1>4 DEF Abandon, Released, TypeOK, Item
  <2>3. QED
    BY <2>1, <2>2 DEF RecordInv
<1>5. ASSUME NEW d \in Delivery,
             \/ Invoke(d) \/ Start(d) \/ ClaimExists(d) \/ ReadVanished(d) \/ ReadDuplicate(d)
             \/ ReadExpired(d) \/ ClaimBeaten(d) \/ FanOut(d) \/ CredentialFailure(d) \/ Crash(d)
      PROVE RecordInv'
  <2>1. UNCHANGED <<clock, record, completed, purged>>
    BY <1>5 DEF Invoke, Start, ClaimExists, ReadVanished, ReadDuplicate, ReadExpired, ClaimBeaten,
       FanOut, DecideRecipients, FindInstallations, SendNext, CredentialFailure, Crash
  <2>2. QED
    BY <2>1 DEF RecordInv
<1>6. CASE Purge
  <2>1. /\ record' = Absent /\ purged' = TRUE /\ clock' = clock
        /\ RetentionSeconds - Skew <= record.expires /\ record.expires <= clock
    BY <1>6 DEF Purge, RecordInv, TypeOK, Item
  <2>2. record'.status = "ABSENT" /\ record.expires \in Int
    BY <2>1 DEF Absent, TypeOK, Item
  <2>3. QED
    BY <2>1, <2>2 DEF RecordInv, TypeOK
<1>7. CASE Tick
  BY <1>7 DEF Tick, RecordInv, TypeOK
<1>8. CASE UNCHANGED vars
  BY <1>8 DEF RecordInv, vars
<1>9. QED
  BY <1>1, <1>2, <1>3, <1>4, <1>5, <1>6, <1>7, <1>8 DEF Next, Progress, Claim

-----------------------------------------------------------------------------
(* One execution at a time delivers the ring.                              *)

LEMMA InitHolderInv == Init => HolderInv
BY DEF Init, HolderInv, Delivering, Holding

\* While an execution holds the record nobody else's claim succeeds.
LEMMA NoTakeover ==
  ASSUME TypeOK, TimingInv, HolderInv, LeaseOutlivesExecution, ~purged,
         NEW d \in Delivery, NEW e \in Delivery, pc[e] \in Holding
  PROVE  /\ record.status # "ABSENT"
         /\ pc[d] = "steal" => ~StealCondition(d)
<1>1. record.status = "PROCESSING" /\ record.lease = now[e] + LeaseSeconds
  BY DEF HolderInv, LeaseFrom
<1>2. /\ timer[e] - Skew <= now[e] /\ clock <= timer[e] + Timeout
  BY DEF TimingInv, Running
<1>3. SUFFICES ASSUME pc[d] = "steal", StealCondition(d) PROVE FALSE
  BY <1>1
<1>4. now[e] + LeaseSeconds <= now[d]
  BY <1>1, <1>3 DEF HolderInv, StealCondition
<1>5. now[d] <= clock + Skew
  BY <1>3 DEF TimingInv, TypeOK, Running, Claiming
<1>6. QED
  BY <1>2, <1>4, <1>5 DEF LeaseOutlivesExecution, TypeOK

\* The lease has at most one live holder, step by step.
LEMMA NextHolderInv ==
  ASSUME LeaseOutlivesExecution, TypeOK, TypeOK', TimingInv, RecordInv, HolderInv, [Next]_vars
  PROVE  HolderInv'
<1> USE DEF table, history, locals, queue
<1>1. ASSUME NEW d \in Delivery, ClaimFresh(d) \/ ClaimResume(d) PROVE HolderInv'
  <2>1. /\ UNCHANGED <<clock, purged, completed, now, seen, timer>>
        /\ pc' = [pc EXCEPT ![d] = "members"] /\ pc[d] \in Claiming
    BY <1>1 DEF ClaimFresh, ClaimResume, Hold, Claiming
  <2>2. ~purged => \A e \in Delivery : pc[e] \notin Holding
    BY <1>1, NoTakeover DEF ClaimFresh, ClaimResume
  <2>3. record'.status = "PROCESSING" /\ record'.lease = LeaseFrom(now[d])
    <3>1. CASE ClaimFresh(d)
      BY <3>1 DEF ClaimFresh, FreshClaim
    <3>2. CASE ClaimResume(d)
      BY <3>2 DEF ClaimResume, Stolen, TypeOK, Item
    <3>3. QED
      BY <1>1, <3>1, <3>2
  <2>4. \A e \in Delivery : pc'[e] = IF e = d THEN "members" ELSE pc[e]
    BY <2>1 DEF TypeOK
  <2>5. \A e \in Delivery : pc'[e] = "steal" => seen'[e].lease <= now'[e]
    BY <2>1, <2>4 DEF HolderInv
  <2>6. ~purged' => \A e \in Delivery : pc'[e] \in Holding => e = d
    BY <2>1, <2>2, <2>4
  <2>7. \A e \in Delivering' : timer'[e] < OccurredAt + PushMaxAge + Skew
    BY <2>1, <2>4 DEF HolderInv, Delivering
  <2>8. QED
    BY <2>1, <2>3, <2>5, <2>6, <2>7 DEF HolderInv, LeaseFrom
<1>2. ASSUME NEW d \in Delivery, FreshAnswerLost(d) \/ ResumeAnswerLost(d) PROVE HolderInv'
  <2>1. UNCHANGED <<clock, purged>> /\ pc'[d] \in {"get", "success"} /\ Others(d)
    BY <1>2, SucceedEnds DEF FreshAnswerLost, ResumeAnswerLost, Ends, Others, TypeOK
  <2>2. ~purged => \A e \in Delivery : pc[e] \notin Holding
    BY <1>2, NoTakeover DEF FreshAnswerLost, ResumeAnswerLost
  <2>3. QED
    BY <2>1, <2>2 DEF HolderInv, Delivering, Others, Holding
<1>3. ASSUME NEW d \in Delivery, Complete(d) \/ Abandon(d) PROVE HolderInv'
  <2>1. Ends(d) /\ UNCHANGED purged /\ pc[d] \in Holding
    BY <1>3, SucceedEnds, FailEnds DEF Complete, Abandon, Holding
  <2>2. ~purged => \A e \in Delivery : pc'[e] \notin Holding
    BY <2>1 DEF HolderInv, Ends, Others, Holding
  <2>3. QED
    BY <2>1, <2>2 DEF HolderInv, Delivering, Ends, Others, Holding
<1>4. ASSUME NEW d \in Delivery,
             Ends(d) \/ Continues(d), UNCHANGED <<record, purged>>,
             pc'[d] \in Holding => pc[d] \in Holding,
             pc'[d] = "steal" => seen'[d].lease <= now'[d],
             d \in Delivering' => timer[d] < OccurredAt + PushMaxAge + Skew
      PROVE  HolderInv'
  BY <1>4 DEF HolderInv, Delivering, Ends, Continues, Others, Holding, LeaseFrom, TypeOK
<1>5. ASSUME NEW d \in Delivery, Invoke(d) \/ Start(d) PROVE HolderInv'
  <2>1. /\ pc'[d] \in {"queued", "put"} /\ Others(d) /\ UNCHANGED <<record, purged>>
    BY <1>5 DEF Invoke, Start, Others, TypeOK
  <2>2. QED
    BY <2>1 DEF HolderInv, Delivering, Others, Holding, LeaseFrom
<1>6. ASSUME NEW d \in Delivery, ClaimExists(d) \/ ReadVanished(d) \/ ReadExpired(d)
      PROVE  HolderInv'
  <2>1. Continues(d)
    BY <1>6 DEF ClaimExists, ReadVanished, ReadExpired, Continues, Others, Running, Claiming, TypeOK
  <2>2. pc'[d] = "steal" => seen'[d].lease <= now'[d]
    BY <1>6 DEF ClaimExists, ReadVanished, ReadExpired, LeaseExpired, TypeOK, Item
  <2>3. pc'[d] \in {"get", "put", "steal"}
    BY <1>6 DEF ClaimExists, ReadVanished, ReadExpired, TypeOK
  <2>4. QED
    BY <1>4, <1>6, <2>1, <2>2, <2>3 DEF ClaimExists, ReadVanished, ReadExpired, Holding, Delivering
<1>7. ASSUME NEW d \in Delivery, ReadDuplicate(d) \/ ClaimBeaten(d) \/ CredentialFailure(d) \/ Crash(d)
      PROVE  HolderInv'
  <2>1. Ends(d) /\ UNCHANGED <<record, purged>>
    BY <1>7, SucceedEnds, FailEnds DEF ReadDuplicate, ClaimBeaten, CredentialFailure, Crash
  <2>2. QED
    BY <1>4, <2>1 DEF Ends, Holding, Delivering
<1>8. ASSUME NEW d \in Delivery, FanOut(d) PROVE HolderInv'
  <2>1. Continues(d) /\ UNCHANGED <<record, purged>> /\ pc[d] \in Holding /\ pc'[d] # "steal"
    BY <1>8 DEF FanOut, DecideRecipients, FindInstallations, SendNext, Continues, Others, Running,
       Holding, TypeOK
  <2>2. ASSUME d \in Delivering' PROVE timer[d] < OccurredAt + PushMaxAge + Skew
    <3>1. CASE DecideRecipients(d)
      <4>1. PICK t \in Readings : TemporalSuppression(t) = "NONE"
        BY <2>2, <3>1 DEF DecideRecipients, Delivering, TypeOK
      <4>2. t < OccurredAt + PushMaxAge
        BY <4>1, ReadingsInt DEF TemporalSuppression, TypeOK
      <4>3. timer[d] - Skew <= t
        BY <2>1 DEF TimingInv, Running, Readings, TypeOK
      <4>4. QED
        BY <4>2, <4>3, ReadingsInt DEF TypeOK
    <3>2. CASE FindInstallations(d) \/ SendNext(d)
      BY <3>2 DEF FindInstallations, SendNext, HolderInv, Delivering
    <3>3. QED
      BY <1>8, <3>1, <3>2 DEF FanOut
  <2>3. QED
    BY <1>4, <2>1, <2>2
<1>9. CASE Purge
  BY <1>9 DEF Purge, HolderInv, Delivering
<1>10. CASE Tick
  BY <1>10 DEF Tick, HolderInv, Delivering, LeaseFrom
<1>11. CASE UNCHANGED vars
  BY <1>11 DEF vars, HolderInv, Delivering, LeaseFrom
<1>12. QED
  BY <1>1, <1>2, <1>3, <1>5, <1>6, <1>7, <1>8, <1>9, <1>10, <1>11 DEF Next, Progress, Claim

LEMMA SenderInvHolds == ASSUME LeaseOutlivesExecution PROVE Spec => []SenderInv
<1>1. Init => SenderInv
  BY InitTypeOK, InitTimingInv, InitRecordInv, InitHolderInv DEF SenderInv
<1>2. SenderInv /\ [Next]_vars => SenderInv'
  BY NextTypeOK, NextTimingInv, NextRecordInv, NextHolderInv DEF SenderInv
<1>3. QED
  BY <1>1, <1>2, PTL DEF Spec

\* No two executions ever deliver the ring at the same time: before the record
\* can be purged its lease keeps them apart, afterwards the ring is too old.
LEMMA SenderInvImpliesSingle ==
  ASSUME RecordOutlivesRing, SenderInv PROVE SingleSender
<1>1. SUFFICES ASSUME NEW d \in Delivering, NEW e \in Delivering PROVE d = e
  BY DEF SingleSender
<1>2. pc[d] \in Holding /\ pc[e] \in Holding /\ d \in Delivery /\ e \in Delivery
  BY DEF Delivering, Holding
<1>3. clock <= timer[d] + Timeout /\ timer[d] < OccurredAt + PushMaxAge + Skew
  BY <1>2 DEF SenderInv, TimingInv, HolderInv, Running
<1>4. ~purged
  BY <1>2, <1>3 DEF SenderInv, RecordInv, RecordOutlivesRing, TypeOK
<1>5. QED
  BY <1>2, <1>4 DEF SenderInv, HolderInv

\* Whatever the number of invocations, and however their steps interleave, at
\* most one execution delivers the ring at a time.
THEOREM OneSender ==
  ASSUME LeaseOutlivesExecution, RecordOutlivesRing PROVE Spec => []SingleSender
<1>1. SenderInv => SingleSender
  BY SenderInvImpliesSingle
<1>2. QED
  BY <1>1, SenderInvHolds, PTL

-----------------------------------------------------------------------------
(* The lease protocol implements RingDelivery.                             *)

\* Whoever delivers the ring holds a record that is not completed.
LEMMA DeliveringIsOpen ==
  ASSUME RecordOutlivesRing, SenderInv, NEW d \in Delivering PROVE ~purged /\ ~completed
<1>1. pc[d] \in Holding /\ d \in Delivery
  BY DEF Delivering, Holding
<1>2. clock <= timer[d] + Timeout /\ timer[d] < OccurredAt + PushMaxAge + Skew
  BY <1>1 DEF SenderInv, TimingInv, HolderInv, Running
<1>3. ~purged
  BY <1>1, <1>2 DEF SenderInv, RecordInv, RecordOutlivesRing, TypeOK
<1>4. QED
  BY <1>1, <1>3 DEF SenderInv, RecordInv, HolderInv

\* A step of d that does not complete the event, after which d does not
\* deliver, gives the delivery up or leaves it alone.
LEMMA LeavingRefines ==
  ASSUME NEW d \in Delivery, Others(d), completed' = completed, d \notin Delivering'
  PROVE  [Abstract!Next]_(Abstract!abstractVars)
<1>1. Delivering' = Delivering \ {d}
  BY DEF Delivering, Others
<1>2. CASE d \in Delivering
  BY <1>1, <1>2 DEF Abstract!GiveUp, Abstract!Next
<1>3. CASE d \notin Delivering
  BY <1>1, <1>3 DEF Abstract!abstractVars
<1>4. QED
  BY <1>2, <1>3

LEMMA CompleteRefines ==
  ASSUME RecordOutlivesRing, SenderInv, NEW d \in Delivery, Complete(d)
  PROVE  [Abstract!Next]_(Abstract!abstractVars)
<1>1. Others(d) /\ d \notin Delivering' /\ pc[d] \in Holding
  BY SucceedEnds DEF Complete, SenderInv, Ends, Delivering, Holding
<1>2. CASE ~StillOwns(d)
  <2>1. completed' = completed
    BY <1>2 DEF Complete, SenderInv, TypeOK
  <2>2. QED
    BY <1>1, <2>1, LeavingRefines
<1>3. CASE StillOwns(d)
  <2>1. completed' = TRUE
    BY <1>3 DEF Complete
  <2>2. Delivering \subseteq {d}
    <3>1. SUFFICES ASSUME NEW e \in Delivering PROVE e = d
      OBVIOUS
    <3>2. ~purged /\ pc[e] \in Holding /\ e \in Delivery
      BY DeliveringIsOpen DEF Delivering, Holding
    <3>3. QED
      BY <1>1, <3>2 DEF SenderInv, HolderInv
  <2>3. Delivering' = {}
    BY <1>1, <2>2 DEF Delivering, Others
  <2>4. QED
    BY <2>1, <2>2, <2>3 DEF Abstract!Finish, Abstract!Next
<1>4. QED
  BY <1>2, <1>3

LEMMA FanOutRefines ==
  ASSUME RecordOutlivesRing, SenderInv, SenderInv', NEW d \in Delivery, FanOut(d)
  PROVE  [Abstract!Next]_(Abstract!abstractVars)
<1> USE DEF table, history, locals, queue
<1>1. completed' = completed /\ Others(d)
  BY DEF FanOut, DecideRecipients, FindInstallations, SendNext, Others, SenderInv, TypeOK
<1>2. CASE d \notin Delivering'
  BY <1>1, <1>2, LeavingRefines
<1>3. CASE d \in Delivering' /\ d \in Delivering
  <2>1. Delivering' = Delivering
    BY <1>1, <1>3 DEF Delivering, Others
  <2>2. QED
    BY <1>1, <2>1 DEF Abstract!abstractVars
<1>4. CASE d \in Delivering' /\ d \notin Delivering
  <2>1. Delivering' = Delivering \cup {d}
    BY <1>1, <1>4 DEF Delivering, Others
  <2>2. ~purged /\ ~completed /\ pc[d] \in Holding
    <3>1. pc[d] \in Holding /\ timer' = timer
      BY DEF FanOut, DecideRecipients, FindInstallations, SendNext, Holding
    <3>2. timer[d] < OccurredAt + PushMaxAge + Skew
      BY <1>4, <3>1 DEF SenderInv, HolderInv
    <3>3. clock <= timer[d] + Timeout
      BY <3>1 DEF SenderInv, TimingInv, Running
    <3>4. ~purged
      BY <3>2, <3>3 DEF SenderInv, RecordInv, RecordOutlivesRing, TypeOK
    <3>5. QED
      BY <3>1, <3>4 DEF SenderInv, RecordInv, HolderInv
  <2>3. Delivering = {}
    BY <1>4, <2>2 DEF SenderInv, HolderInv, Delivering, Holding
  <2>4. QED
    BY <1>1, <2>1, <2>2, <2>3 DEF Abstract!Begin, Abstract!Next
<1>5. QED
  BY <1>2, <1>3, <1>4

LEMMA NextRefines ==
  ASSUME RecordOutlivesRing, SenderInv, SenderInv', [Next]_vars
  PROVE  [Abstract!Next]_(Abstract!abstractVars)
<1> USE DEF table, history, locals, queue
<1> TypeOK
  BY DEF SenderInv
<1>1. ASSUME NEW d \in Delivery, Invoke(d) \/ Start(d)
      PROVE  [Abstract!Next]_(Abstract!abstractVars)
  <2>1. Others(d) /\ d \notin Delivering' /\ completed' = completed
    BY <1>1 DEF Invoke, Start, Others, Delivering, TypeOK
  <2>2. QED
    BY <2>1, LeavingRefines
<1>2. ASSUME NEW d \in Delivery,
             \/ ClaimFresh(d) \/ ClaimExists(d) \/ ReadVanished(d) \/ ReadExpired(d)
             \/ ClaimResume(d) \/ FreshAnswerLost(d)
      PROVE  [Abstract!Next]_(Abstract!abstractVars)
  <2>1. Others(d) /\ d \notin Delivering' /\ completed' = completed
    BY <1>2 DEF ClaimFresh, ClaimExists, ReadVanished, ReadExpired, ClaimResume,
       FreshAnswerLost, Hold, Others, Delivering, TypeOK
  <2>2. QED
    BY <2>1, LeavingRefines
<1>3. ASSUME NEW d \in Delivery,
             \/ ReadDuplicate(d) \/ ClaimBeaten(d) \/ ResumeAnswerLost(d)
             \/ Abandon(d) \/ CredentialFailure(d) \/ Crash(d)
      PROVE  [Abstract!Next]_(Abstract!abstractVars)
  <2>1. Ends(d) /\ completed' = completed
    BY <1>3, SucceedEnds, FailEnds DEF ReadDuplicate, ClaimBeaten, ResumeAnswerLost, Abandon,
       CredentialFailure, Crash
  <2>2. Others(d) /\ d \notin Delivering'
    BY <2>1 DEF Ends, Delivering
  <2>3. QED
    BY <2>1, <2>2, LeavingRefines
<1>4. CASE Purge \/ Tick \/ UNCHANGED vars
  BY <1>4 DEF Purge, Tick, vars, Delivering, Abstract!abstractVars
<1>5. QED
  BY <1>1, <1>2, <1>3, <1>4, CompleteRefines, FanOutRefines DEF Next, Progress, Claim

\* Every behaviour of the lease protocol is one of RingDelivery: one execution
\* delivers at a time, and none begins once the event is completed.
THEOREM RingRefined ==
  ASSUME LeaseOutlivesExecution, RecordOutlivesRing PROVE Spec => ImplementsRingDelivery
<1>1. Init => Abstract!Init
  BY DEF Init, Abstract!Init, Delivering
<1>2. SenderInv /\ SenderInv' /\ [Next]_vars => [Abstract!Next]_(Abstract!abstractVars)
  BY NextRefines
<1>3. QED
  BY <1>1, <1>2, SenderInvHolds, PTL DEF Spec, Abstract!Spec, ImplementsRingDelivery

-----------------------------------------------------------------------------
(* No ring is lost silently.                                               *)

LEMMA InitAttemptInv == Init => AttemptInv
BY DEF Init, AttemptInv, Holding

LEMMA NextAttemptInv ==
  ASSUME ~LostResponses, TypeOK, TypeOK', RecordInv, PendingInv, AttemptInv, [Next]_vars
  PROVE  AttemptInv'
<1> USE DEF table, history, locals, queue
<1>1. ASSUME NEW d \in Delivery, ClaimFresh(d) PROVE AttemptInv'
  <2>1. ~purged => \A e \in Delivery : pc[e] \notin Holding
    BY <1>1 DEF ClaimFresh, PendingInv, Holding
  <2>2. record'.attempt = 1
    BY <1>1 DEF ClaimFresh, FreshClaim
  <2>3. /\ holder' = d /\ purged' = purged
        /\ \A e \in Delivery : /\ pc'[e] = IF e = d THEN "members" ELSE pc[e]
                               /\ attempt'[e] = IF e = d THEN 1 ELSE attempt[e]
    BY <1>1 DEF ClaimFresh, Hold, TypeOK
  <2>4. QED
    BY <2>1, <2>2, <2>3 DEF AttemptInv
<1>2. ASSUME NEW d \in Delivery, ClaimResume(d) PROVE AttemptInv'
  <2>1. record'.attempt = record.attempt + 1 /\ record.attempt \in Nat
    BY <1>2 DEF ClaimResume, StealCondition, Stolen, TypeOK, Item
  <2>2. /\ holder' = d /\ purged' = purged /\ pc[d] \notin Holding
        /\ \A e \in Delivery : /\ pc'[e] = IF e = d THEN "members" ELSE pc[e]
                               /\ attempt'[e] = IF e = d THEN record.attempt + 1 ELSE attempt[e]
    BY <1>2 DEF ClaimResume, StealCondition, Hold, TypeOK, Holding
  <2>3. ASSUME ~purged', NEW e \in Delivery, pc'[e] \in Holding, e # d
        PROVE  attempt'[e] <= record.attempt /\ attempt'[e] \in Nat
    BY <2>2, <2>3 DEF AttemptInv, TypeOK
  <2>4. QED
    BY <2>1, <2>2, <2>3 DEF AttemptInv
<1>3. ASSUME NEW d \in Delivery, Others(d),
             UNCHANGED <<holder, purged>>, record'.attempt = record.attempt,
             pc'[d] \in Holding => pc[d] \in Holding /\ attempt'[d] = attempt[d]
      PROVE  AttemptInv'
  BY <1>3 DEF AttemptInv, Others
<1>4. ASSUME NEW d \in Delivery, Complete(d) \/ Abandon(d) PROVE AttemptInv'
  <2>1. Ends(d) /\ UNCHANGED <<holder, purged>>
    BY <1>4, SucceedEnds, FailEnds DEF Complete, Abandon
  <2>2. record'.attempt = record.attempt
    BY <1>4 DEF Complete, Abandon, Released, TypeOK, Item
  <2>3. QED
    BY <1>3, <2>1, <2>2 DEF Ends, Holding
<1>5. ASSUME NEW d \in Delivery, ReadDuplicate(d) \/ ClaimBeaten(d) \/ CredentialFailure(d) \/ Crash(d)
      PROVE  AttemptInv'
  <2>1. Ends(d) /\ UNCHANGED <<record, holder, purged>>
    BY <1>5, SucceedEnds, FailEnds DEF ReadDuplicate, ClaimBeaten, CredentialFailure, Crash
  <2>2. QED
    BY <1>3, <2>1 DEF Ends, Holding
<1>6. ASSUME NEW d \in Delivery,
             Invoke(d) \/ Start(d) \/ ClaimExists(d) \/ ReadVanished(d) \/ ReadExpired(d)
      PROVE  AttemptInv'
  <2>1. Others(d) /\ UNCHANGED <<record, holder, purged>> /\ pc'[d] \notin Holding
    BY <1>6 DEF Invoke, Start, ClaimExists, ReadVanished, ReadExpired, Others, Holding, TypeOK
  <2>2. QED
    BY <1>3, <2>1
<1>7. ASSUME NEW d \in Delivery, FanOut(d) PROVE AttemptInv'
  <2>1. Others(d) /\ UNCHANGED <<record, holder, purged, attempt>> /\ pc[d] \in Holding
    BY <1>7 DEF FanOut, DecideRecipients, FindInstallations, SendNext, Others, Holding, TypeOK
  <2>2. QED
    BY <1>3, <2>1
<1>8. CASE Purge
  BY <1>8 DEF Purge, AttemptInv
<1>9. CASE Tick
  BY <1>9 DEF Tick, AttemptInv
<1>10. CASE UNCHANGED vars
  BY <1>10 DEF vars, AttemptInv
<1>11. QED
  BY <1>1, <1>2, <1>4, <1>5, <1>6, <1>7, <1>8, <1>9, <1>10
     DEF Next, Progress, Claim, FreshAnswerLost, ResumeAnswerLost

LEMMA InitPendingInv == Init => PendingInv
BY DEF Init, PendingInv, Absent

\* A step of d that is not the holder's, or that keeps the holder among those
\* who may still deliver the ring.
LEMMA PendingKept ==
  ASSUME TypeOK, PendingInv, NEW d \in Delivery, Others(d), UNCHANGED <<record, holder, purged>>,
         ~purged /\ record.status = "ABSENT" => pc'[d] \in {"queued", "put", "dlq"},
         ~purged /\ record.status = "PROCESSING" /\ d = holder =>
           /\ pc'[d] \notin {"idle", "success"}
           /\ pc'[d] = "queued" => record.lease + Skew <= timer'[d]
           /\ pc'[d] \in Claiming => record.lease <= now'[d]
           /\ pc'[d] = "steal" =>
                seen'[d].attempt = record.attempt /\ seen'[d].lease = record.lease
           /\ pc'[d] \in Holding => record.lease <= LeaseFrom(now'[d])
  PROVE  PendingInv'
BY DEF PendingInv, Others, TypeOK, LeaseFrom

LEMMA NextPendingInv ==
  ASSUME ~LostResponses, RetryOutlivesLease, TypeOK, TypeOK', TimingInv, RecordInv, PendingInv,
         AttemptInv, [Next]_vars
  PROVE  PendingInv'
<1> USE DEF table, history, locals, queue
<1>t. record.lease \in Int /\ clock \in Nat
  BY DEF TypeOK, Item
<1>1. ASSUME NEW d \in Delivery, Invoke(d) \/ Start(d) PROVE PendingInv'
  <2>1. Others(d) /\ UNCHANGED <<record, holder, purged>> /\ pc'[d] \in {"queued", "put"}
    BY <1>1 DEF Invoke, Start, Others, TypeOK
  <2>2. ASSUME ~purged, record.status = "PROCESSING", d = holder
        PROVE  pc'[d] = "put" /\ record.lease <= now'[d]
    <3>1. Start(d)
      BY <1>1, <2>2 DEF Invoke, PendingInv
    <3>2. record.lease + Skew <= timer[d] /\ timer[d] <= clock
      BY <2>2, <3>1 DEF Start, PendingInv
    <3>3. clock - Skew <= now'[d] /\ now'[d] \in Int /\ pc'[d] = "put"
      BY <3>1 DEF Start, Readings, TypeOK
    <3>4. QED
      BY <1>t, <3>2, <3>3 DEF TypeOK
  <2>3. QED
    BY <2>1, <2>2, PendingKept DEF Claiming, Holding
<1>2. ASSUME NEW d \in Delivery, ClaimFresh(d) \/ ClaimResume(d) PROVE PendingInv'
  <2>1. /\ holder' = d /\ UNCHANGED <<purged, now>> /\ pc'[d] = "members"
    BY <1>2 DEF ClaimFresh, ClaimResume, Hold, TypeOK
  <2>2. record'.status = "PROCESSING" /\ record'.lease = LeaseFrom(now[d])
    <3>1. CASE ClaimFresh(d)
      BY <3>1 DEF ClaimFresh, FreshClaim
    <3>2. CASE ClaimResume(d)
      BY <3>2 DEF ClaimResume, Stolen, TypeOK, Item
    <3>3. QED
      BY <1>2, <3>1, <3>2
  <2>3. LeaseFrom(now[d]) \in Int
    BY DEF LeaseFrom, TypeOK
  <2>4. QED
    BY <2>1, <2>2, <2>3 DEF PendingInv, Claiming, Holding, LeaseFrom
<1>3. ASSUME NEW d \in Delivery, ClaimExists(d) \/ ReadVanished(d) \/ ReadExpired(d)
      PROVE  PendingInv'
  <2>1. Others(d) /\ UNCHANGED <<record, holder, purged, now>> /\ pc'[d] \in Claiming /\ pc[d] \in Claiming
    BY <1>3 DEF ClaimExists, ReadVanished, ReadExpired, Others, Claiming, TypeOK
  <2>2. ~purged => record.status # "ABSENT"
    BY <1>3 DEF ClaimExists, ReadVanished, ReadExpired, PendingInv
  <2>3. pc'[d] = "steal" => seen'[d].attempt = record.attempt /\ seen'[d].lease = record.lease
    BY <1>3 DEF ClaimExists, ReadVanished, ReadExpired, TypeOK
  <2>4. ~purged /\ record.status = "PROCESSING" /\ d = holder => record.lease <= now'[d]
    BY <2>1 DEF PendingInv
  <2>5. QED
    BY <2>1, <2>2, <2>3, <2>4, PendingKept DEF Claiming, Holding
<1>4. ASSUME NEW d \in Delivery, ReadDuplicate(d) \/ ClaimBeaten(d) PROVE PendingInv'
  <2>1. Others(d) /\ UNCHANGED <<record, holder, purged>> /\ pc[d] \in {"get", "steal"}
    BY <1>4, SucceedEnds DEF ReadDuplicate, ClaimBeaten, Ends
  <2>2. ~purged => record.status # "ABSENT"
    BY <2>1 DEF PendingInv
  <2>3. ~purged /\ record.status = "PROCESSING" => d # holder
    <3>1. CASE ReadDuplicate(d)
      BY <3>1, <1>t DEF ReadDuplicate, PendingInv, LeaseExpired, Claiming, TypeOK
    <3>2. CASE ClaimBeaten(d)
      BY <3>2 DEF ClaimBeaten, StealCondition, PendingInv
    <3>3. QED
      BY <1>4, <3>1, <3>2
  <2>4. QED
    BY <2>1, <2>2, <2>3, PendingKept
<1>5. ASSUME NEW d \in Delivery, FanOut(d) PROVE PendingInv'
  <2>1. /\ Others(d) /\ UNCHANGED <<record, holder, purged, now>>
        /\ pc[d] \in Holding /\ pc'[d] \in Holding
    BY <1>5 DEF FanOut, DecideRecipients, FindInstallations, SendNext, Others, Holding, TypeOK
  <2>2. ~purged => record.status # "ABSENT"
    BY <2>1 DEF PendingInv, Holding
  <2>3. ~purged /\ record.status = "PROCESSING" /\ d = holder => record.lease <= LeaseFrom(now'[d])
    BY <2>1 DEF PendingInv
  <2>4. QED
    BY <2>1, <2>2, <2>3, PendingKept DEF Holding, Claiming
<1>6. ASSUME NEW d \in Delivery, CredentialFailure(d) \/ Crash(d) PROVE PendingInv'
  <2>1. /\ Others(d) /\ UNCHANGED <<record, holder, purged>> /\ pc[d] \in Running
        /\ pc'[d] \in {"queued", "dlq"} /\ timer'[d] = clock + RetryDelay
    BY <1>6, FailEnds DEF CredentialFailure, Crash, Ends, Running, Holding
  <2>2. /\ now[d] <= clock + Skew /\ now[d] \in Int
    BY <2>1 DEF TimingInv, TypeOK
  <2>3. ~purged /\ record.status = "PROCESSING" /\ d = holder =>
          record.lease <= now[d] \/ record.lease <= now[d] + LeaseSeconds
    BY <2>1 DEF PendingInv, Running, LeaseFrom
  <2>4. ~purged /\ record.status = "PROCESSING" /\ d = holder => record.lease + Skew <= timer'[d]
    BY <1>t, <2>1, <2>2, <2>3 DEF RetryOutlivesLease
  <2>5. QED
    BY <2>1, <2>4, PendingKept DEF Claiming, Holding
<1>7. ASSUME NEW d \in Delivery, pc[d] \in Holding, Others(d), ~StillOwns(d),
             UNCHANGED <<record, holder, purged>>
      PROVE  PendingInv'
  <2>1. ~purged => record.status # "ABSENT"
    BY <1>7 DEF PendingInv, Holding
  <2>2. ~purged /\ record.status = "PROCESSING" => d # holder
    BY <1>7 DEF AttemptInv, StillOwns
  <2>3. QED
    BY <1>7, <2>1, <2>2, PendingKept
<1>8. ASSUME NEW d \in Delivery, Complete(d) PROVE PendingInv'
  <2>1. pc[d] \in Holding /\ Others(d) /\ UNCHANGED <<holder, purged>>
    BY <1>8, SucceedEnds DEF Complete, Ends, Holding
  <2>2. CASE StillOwns(d)
    <3>1. record'.status = "COMPLETED"
      BY <1>8, <2>2 DEF Complete, TypeOK, Item
    <3>2. QED
      BY <3>1 DEF PendingInv
  <2>3. CASE ~StillOwns(d)
    BY <1>7, <1>8, <2>1, <2>3 DEF Complete
  <2>4. QED
    BY <2>2, <2>3
<1>9. ASSUME NEW d \in Delivery, Abandon(d) PROVE PendingInv'
  <2>1. /\ pc[d] \in Holding /\ Others(d) /\ UNCHANGED <<holder, purged>>
        /\ pc'[d] \in {"queued", "dlq"} /\ timer'[d] = clock + RetryDelay
    BY <1>9, FailEnds DEF Abandon, Ends, Holding
  <2>2. CASE StillOwns(d)
    <3>1. PICK t \in Readings : record' = Released(t)
      BY <1>9, <2>2 DEF Abandon
    <3>2. record'.status = record.status /\ record'.lease = t
      BY <3>1 DEF Released, TypeOK, Item
    <3>3. t + Skew <= timer'[d]
      BY <1>t, <2>1, <3>1, ReadingsInt DEF Readings, RetryOutlivesLease
    <3>4. ~purged /\ record.status = "PROCESSING" => d = holder
      BY <2>1, <2>2 DEF AttemptInv, StillOwns
    <3>5. record.status # "ABSENT"
      BY <2>2 DEF StillOwns
    <3>6. QED
      BY <2>1, <3>2, <3>3, <3>4, <3>5 DEF PendingInv, Claiming, Holding
  <2>3. CASE ~StillOwns(d)
    BY <1>7, <1>9, <2>1, <2>3 DEF Abandon
  <2>4. QED
    BY <2>2, <2>3
<1>10. CASE Purge
  BY <1>10 DEF Purge, PendingInv
<1>11. CASE Tick
  BY <1>11 DEF Tick, PendingInv, LeaseFrom
<1>12. CASE UNCHANGED vars
  BY <1>12 DEF vars, PendingInv, LeaseFrom
<1>13. QED
  BY <1>1, <1>2, <1>3, <1>4, <1>5, <1>6, <1>8, <1>9, <1>10, <1>11, <1>12
     DEF Next, Progress, Claim, FreshAnswerLost, ResumeAnswerLost

LEMMA LossInvHolds ==
  ASSUME ~LostResponses, RetryOutlivesLease PROVE Spec => []LossInv
<1>1. Init => LossInv
  BY InitTypeOK, InitTimingInv, InitRecordInv, InitPendingInv, InitAttemptInv DEF LossInv
<1>2. LossInv /\ [Next]_vars => LossInv'
  BY NextTypeOK, NextTimingInv, NextRecordInv, NextPendingInv, NextAttemptInv DEF LossInv
<1>3. QED
  BY <1>1, <1>2, PTL DEF Spec

LEMMA LossInvImpliesNoLoss == LossInv => NoSilentLoss
<1> SUFFICES ASSUME LossInv, ~completed, ~purged,
                    \A d \in Delivery : pc[d] \in Settled \cup {"idle"},
                    NEW e \in Delivery, pc[e] # "idle"
             PROVE  \E d \in Delivery : pc[d] = "dlq"
  BY DEF NoSilentLoss, AllOver
<1>1. record.status \in {"ABSENT", "PROCESSING"}
  BY DEF LossInv, RecordInv, TypeOK, Item, Status
<1>2. CASE record.status = "ABSENT"
  BY <1>2 DEF LossInv, PendingInv, Settled
<1>3. CASE record.status = "PROCESSING"
  BY <1>3 DEF LossInv, PendingInv, TypeOK, Settled
<1>4. QED
  BY <1>1, <1>2, <1>3

\* A ring push_sender was invoked for is completed or ends in the dead letter
\* queue, if the SDK reports every write's answer and a retry starts no sooner
\* than the failed execution's lease ends.
THEOREM NothingLost ==
  ASSUME ~LostResponses, RetryOutlivesLease PROVE Spec => []NoSilentLoss
<1>1. LossInv => NoSilentLoss
  BY LossInvImpliesNoLoss
<1>2. QED
  BY <1>1, LossInvHolds, PTL

-----------------------------------------------------------------------------
(* A ring is repeated only after a failure.                                *)

LEMMA InitRepeatInv == Init => RepeatInv
BY DEF Init, RepeatInv, Holding

\* d's step ends no execution that others rely on, and gives no installation
\* the ring.
LEMMA RepeatKept ==
  ASSUME TypeOK, RepeatInv, NEW d \in Delivery, Others(d),
         UNCHANGED <<purged, accepted, failures>>, completed => completed',
         record'.attempt = record.attempt,
         pc'[d] \in Holding => pc[d] \in Holding /\ attempt'[d] = attempt[d],
         \A e \in Delivery \ {d} : answer'[e] = answer[e],
         pc[d] = "sending" =>
           \/ completed' \/ purged
           \/ pc'[d] = "sending" /\ \A i \in Installation : answer[d][i] = "SENT" => answer'[d][i] = "SENT"
  PROVE  RepeatInv'
<1>1. ~purged' => \A e \in Delivery : pc'[e] \in Holding => attempt'[e] = record'.attempt
  BY DEF RepeatInv, Others
<1>2. ASSUME NEW i \in Installation, ~(accepted'[i] <= failures')
      PROVE  /\ accepted'[i] = 1 + failures'
             /\ \/ completed' \/ purged'
                \/ \E e \in Delivery : pc'[e] = "sending" /\ answer'[e][i] = "SENT"
  <2>1. accepted[i] = 1 + failures
    BY <1>2 DEF RepeatInv
  <2>2. CASE completed \/ purged
    BY <2>1, <2>2
  <2>3. CASE \E e \in Delivery : pc[e] = "sending" /\ answer[e][i] = "SENT"
    <3>1. PICK e \in Delivery : pc[e] = "sending" /\ answer[e][i] = "SENT"
      BY <2>3
    <3>2. completed' \/ purged \/ (pc'[e] = "sending" /\ answer'[e][i] = "SENT")
      BY <3>1 DEF Others
    <3>3. QED
      BY <2>1, <3>2
  <2>4. QED
    BY <1>2, <2>2, <2>3 DEF RepeatInv
<1>3. QED
  BY <1>1, <1>2 DEF RepeatInv

\* A failure of an execution that held an attempt allows for one more send.
LEMMA RepeatFailed ==
  ASSUME TypeOK, RepeatInv, NEW d \in Delivery, Fail(d), UNCHANGED purged, completed' = completed,
         record'.attempt = record.attempt
  PROVE  RepeatInv'
<1>1. Ends(d) /\ accepted' = accepted
  BY FailEnds DEF Fail
<1>2. \A e \in Delivery \ {d} : answer'[e] = answer[e]
  BY DEF Fail, Forget, TypeOK
<1>3. CASE pc[d] \notin Holding
  <2>1. failures' = failures
    BY <1>3 DEF Fail, TypeOK
  <2>2. pc'[d] \notin Holding /\ pc[d] # "sending" /\ Others(d)
    BY <1>1, <1>3 DEF Ends, Holding
  <2>3. QED
    BY <1>1, <1>2, <2>1, <2>2, RepeatKept
<1>4. CASE pc[d] \in Holding
  <2>1. failures' = failures + 1 /\ failures \in Nat
    BY <1>4 DEF Fail, TypeOK
  <2>2. ~purged' => \A e \in Delivery : pc'[e] \in Holding => attempt'[e] = record'.attempt
    BY <1>1 DEF RepeatInv, Ends, Others, Holding
  <2>3. \A i \in Installation : accepted[i] \in Nat /\ accepted[i] <= 1 + failures
    BY <2>1 DEF RepeatInv, TypeOK
  <2>4. \A i \in Installation : accepted'[i] <= failures'
    BY <1>1, <2>1, <2>3
  <2>5. QED
    BY <2>2, <2>4 DEF RepeatInv
<1>5. QED
  BY <1>3, <1>4

LEMMA SendNextRepeats ==
  ASSUME RecordOutlivesRing, SenderInv, RepeatInv, NEW d \in Delivery, SendNext(d)
  PROVE  RepeatInv'
<1>1. PICK i \in Installation, a \in SendResult :
        /\ answer[d][i] = "UNTRIED"
        /\ answer' = [answer EXCEPT ![d][i] = a]
        /\ accepted' = [accepted EXCEPT ![i] = @ + (IF a = "SENT" THEN 1 ELSE 0)]
  BY DEF SendNext, Untried
<1>2. /\ pc[d] = "sending" /\ UNCHANGED <<pc, table, failures, attempt>>
      /\ answer \in [Delivery -> [Installation -> Answer]]
      /\ accepted \in [Installation -> Nat] /\ failures \in Nat
  BY DEF SendNext, SenderInv, TypeOK
<1>3. /\ answer'[d][i] = a
      /\ \A e \in Delivery, j \in Installation : e # d \/ j # i => answer'[e][j] = answer[e][j]
      /\ \A j \in Installation : j # i => accepted'[j] = accepted[j]
      /\ accepted'[i] = accepted[i] + (IF a = "SENT" THEN 1 ELSE 0)
  BY <1>1, <1>2
\* Nobody has sent this installation the ring since the last failure.
<1>4. accepted[i] <= failures
  <2>1. d \in Delivering /\ ~purged /\ ~completed
    BY <1>2, DeliveringIsOpen DEF Delivering
  <2>2. \A e \in Delivery : pc[e] = "sending" => e = d
    BY <2>1, SenderInvImpliesSingle DEF SingleSender, Delivering
  <2>3. ~ \E e \in Delivery : pc[e] = "sending" /\ answer[e][i] = "SENT"
    BY <1>1, <2>2
  <2>4. QED
    BY <2>1, <2>3 DEF RepeatInv
<1>5. ~purged' => \A e \in Delivery : pc'[e] \in Holding => attempt'[e] = record'.attempt
  BY <1>2 DEF RepeatInv, table
<1>6. ASSUME NEW j \in Installation
      PROVE  \/ accepted'[j] <= failures'
             \/ /\ accepted'[j] = 1 + failures'
                /\ \/ completed' \/ purged'
                   \/ \E e \in Delivery : pc'[e] = "sending" /\ answer'[e][j] = "SENT"
  <2>1. CASE j # i
    BY <1>2, <1>3, <2>1 DEF RepeatInv, table
  <2>2. CASE j = i /\ a = "SENT"
    <3>1. accepted'[j] <= 1 + failures
      BY <1>2, <1>3, <1>4, <2>2
    <3>2. accepted'[j] \in Nat
      BY <1>2, <1>3, <2>2
    <3>3. pc'[d] = "sending" /\ answer'[d][j] = "SENT" /\ failures' = failures
      BY <1>2, <1>3, <2>2
    <3>4. accepted'[j] <= failures \/ accepted'[j] = 1 + failures
      BY <1>2, <3>1, <3>2
    <3>5. QED
      BY <3>3, <3>4
  <2>3. CASE j = i /\ a # "SENT"
    BY <1>2, <1>3, <1>4, <2>3
  <2>4. QED
    BY <2>1, <2>2, <2>3
<1>7. QED
  BY <1>5, <1>6 DEF RepeatInv

LEMMA NextRepeatInv ==
  ASSUME LeaseOutlivesExecution, RecordOutlivesRing, SenderInv, RepeatInv, [Next]_vars
  PROVE  RepeatInv'
<1> USE DEF table, history, locals, queue
<1> TypeOK /\ TimingInv /\ HolderInv
  BY DEF SenderInv
<1>1. ASSUME NEW d \in Delivery, ClaimFresh(d) \/ ClaimResume(d) PROVE RepeatInv'
  <2>1. ~purged => \A e \in Delivery : pc[e] \notin Holding
    BY <1>1, NoTakeover DEF ClaimFresh, ClaimResume
  <2>2. record'.attempt = attempt'[d]
    <3>1. CASE ClaimFresh(d)
      BY <3>1 DEF ClaimFresh, FreshClaim, Hold, TypeOK
    <3>2. CASE ClaimResume(d)
      BY <3>2 DEF ClaimResume, Stolen, Hold, TypeOK, Item
    <3>3. QED
      BY <1>1, <3>1, <3>2
  <2>3. /\ UNCHANGED <<purged, completed, accepted, failures, answer>> /\ pc[d] # "sending"
        /\ \A e \in Delivery : pc'[e] = IF e = d THEN "members" ELSE pc[e]
    BY <1>1 DEF ClaimFresh, ClaimResume, Hold, TypeOK
  <2>4. ~purged' => \A e \in Delivery : pc'[e] \in Holding => attempt'[e] = record'.attempt
    BY <2>1, <2>2, <2>3
  <2>5. \A e \in Delivery : pc[e] = "sending" => pc'[e] = "sending"
    BY <2>3
  <2>6. QED
    BY <2>3, <2>4, <2>5 DEF RepeatInv
<1>2. ASSUME NEW d \in Delivery, FreshAnswerLost(d) \/ ResumeAnswerLost(d) PROVE RepeatInv'
  <2>1. ~purged => \A e \in Delivery : pc[e] \notin Holding
    BY <1>2, NoTakeover DEF FreshAnswerLost, ResumeAnswerLost
  <2>2. /\ UNCHANGED <<purged, completed, accepted, failures>> /\ pc[d] # "sending"
        /\ pc'[d] \in {"get", "success"} /\ Others(d)
        /\ \A e \in Delivery \ {d} : answer'[e] = answer[e]
    BY <1>2, SucceedEnds DEF FreshAnswerLost, ResumeAnswerLost, Succeed, Forget, Ends, Others, TypeOK
  <2>3. ~purged' => \A e \in Delivery : pc'[e] \in Holding => attempt'[e] = record'.attempt
    BY <2>1, <2>2 DEF Others, Holding
  <2>4. \A e \in Delivery : pc[e] = "sending" => pc'[e] = "sending" /\ answer'[e] = answer[e]
    BY <2>2 DEF Others
  <2>5. QED
    BY <2>2, <2>3, <2>4 DEF RepeatInv
<1>3. ASSUME NEW d \in Delivery, Invoke(d) \/ Start(d) \/ ClaimExists(d) \/ ReadVanished(d) \/ ReadExpired(d)
      PROVE  RepeatInv'
  <2>1. /\ Others(d) /\ UNCHANGED <<record, purged, completed, accepted, failures, answer>>
        /\ pc'[d] \notin Holding /\ pc[d] # "sending"
    BY <1>3 DEF Invoke, Start, ClaimExists, ReadVanished, ReadExpired, Others, Holding, TypeOK
  <2>2. QED
    BY <2>1, RepeatKept
<1>4. ASSUME NEW d \in Delivery, ReadDuplicate(d) \/ ClaimBeaten(d) PROVE RepeatInv'
  <2>1. /\ Ends(d) /\ UNCHANGED <<record, purged, completed, accepted, failures>> /\ pc[d] # "sending"
        /\ \A e \in Delivery \ {d} : answer'[e] = answer[e]
    BY <1>4, SucceedEnds DEF ReadDuplicate, ClaimBeaten, Succeed, Forget, TypeOK
  <2>2. QED
    BY <2>1, RepeatKept DEF Ends, Holding
<1>5. ASSUME NEW d \in Delivery, CredentialFailure(d) \/ Crash(d) \/ Abandon(d) PROVE RepeatInv'
  <2>1. Fail(d) /\ UNCHANGED <<purged, completed>>
    BY <1>5 DEF CredentialFailure, Crash, Abandon
  <2>2. record'.attempt = record.attempt
    BY <1>5 DEF CredentialFailure, Crash, Abandon, Released, TypeOK, Item
  <2>3. QED
    BY <2>1, <2>2, RepeatFailed
<1>6. ASSUME NEW d \in Delivery, DecideRecipients(d) \/ FindInstallations(d) PROVE RepeatInv'
  <2>1. /\ Others(d) /\ UNCHANGED <<record, purged, completed, accepted, failures, attempt>>
        /\ pc[d] \in Holding /\ pc[d] # "sending"
        /\ \A e \in Delivery \ {d} : answer'[e] = answer[e]
    BY <1>6 DEF DecideRecipients, FindInstallations, Others, Holding, TypeOK
  <2>2. QED
    BY <2>1, RepeatKept
<1>7. ASSUME NEW d \in Delivery, Complete(d) PROVE RepeatInv'
  <2>1. /\ Ends(d) /\ UNCHANGED <<purged, accepted, failures>> /\ pc[d] \in Holding
        /\ \A e \in Delivery \ {d} : answer'[e] = answer[e]
    BY <1>7, SucceedEnds DEF Complete, Succeed, Forget, Holding, TypeOK
  <2>2. record'.attempt = record.attempt
    BY <1>7 DEF Complete, TypeOK, Item
  <2>3. ~purged => completed'
    <3>1. ~purged => record.status = "PROCESSING" /\ attempt[d] = record.attempt
      BY <2>1 DEF HolderInv, RepeatInv
    <3>2. QED
      BY <1>7, <3>1 DEF Complete, StillOwns
  <2>4. completed => completed'
    BY <1>7 DEF Complete
  <2>5. QED
    BY <2>1, <2>2, <2>3, <2>4, RepeatKept DEF Ends, Holding
<1>8. CASE Purge
  BY <1>8 DEF Purge, RepeatInv
<1>9. CASE Tick
  BY <1>9 DEF Tick, RepeatInv
<1>10. CASE UNCHANGED vars
  BY <1>10 DEF vars, RepeatInv
<1>11. QED
  BY <1>1, <1>2, <1>3, <1>4, <1>5, <1>6, <1>7, <1>8, <1>9, <1>10, SendNextRepeats
     DEF Next, Progress, Claim, FanOut

\* FCM accepts the ring for an installation at most once more than executions
\* have failed while they held the event, for any number of invocations.
THEOREM RepeatsExplained ==
  ASSUME LeaseOutlivesExecution, RecordOutlivesRing PROVE Spec => []RepeatOnlyAfterFailure
<1>1. Init => RepeatInv
  BY InitRepeatInv
<1>2. SenderInv /\ RepeatInv /\ [Next]_vars => RepeatInv'
  BY NextRepeatInv
<1>3. SenderInv /\ RepeatInv => RepeatOnlyAfterFailure
  BY DEF SenderInv, TypeOK, RepeatInv, RepeatOnlyAfterFailure
<1>4. QED
  BY <1>1, <1>2, <1>3, SenderInvHolds, PTL DEF Spec

-----------------------------------------------------------------------------
(* Nothing but the purge changes a completed record.                       *)

LEMMA LatestGrows ==
  /\ \A n \in Nat : Latest(n) \in Nat /\ ArrivalHorizon <= Latest(n)
  /\ \A n \in Nat : Latest(n + 1) = Latest(n) + QueueDelay + Timeout + RetryDelay
  /\ \A n \in Nat : n < MaxTries => Latest(n + 1) <= Latest(MaxTries)
  /\ \A n \in 0..MaxTries : Latest(n) <= Latest(MaxTries)
<1> DEFINE R == QueueDelay + Timeout + RetryDelay
<1>1. R \in Nat
  OBVIOUS
<1> HIDE DEF R
<1>2. \A n \in Nat : n * R \in Nat /\ (n + 1) * R = n * R + R
  BY <1>1
<1>3. \A n, m \in Nat : n <= m => n * R <= m * R
  <2> SUFFICES ASSUME NEW n \in Nat, NEW m \in Nat, n <= m PROVE n * R <= m * R
    OBVIOUS
  <2>1. m - n \in Nat /\ m * R = n * R + (m - n) * R
    BY <1>1
  <2>2. (m - n) * R \in Nat /\ n * R \in Nat
    BY <1>2, <2>1
  <2>3. QED
    BY <2>1, <2>2
<1>4. \A n \in Nat : Latest(n) = ArrivalHorizon + n * R
  BY DEF Latest, R
<1>5. \A n \in Nat : Latest(n) \in Nat /\ ArrivalHorizon <= Latest(n)
  BY <1>2, <1>4
<1>6. \A n \in Nat : Latest(n + 1) = Latest(n) + QueueDelay + Timeout + RetryDelay
  <2> SUFFICES ASSUME NEW n \in Nat PROVE Latest(n + 1) = Latest(n) + R
    BY <1>5 DEF R
  <2>1. QED
    BY <1>1, <1>2, <1>4
<1>7. \A n, m \in Nat : n <= m => Latest(n) <= Latest(m)
  BY <1>2, <1>3, <1>4
<1>8. \A n \in Nat : n < MaxTries => Latest(n + 1) <= Latest(MaxTries)
  <2> SUFFICES ASSUME NEW n \in Nat, n < MaxTries PROVE Latest(n + 1) <= Latest(MaxTries)
    OBVIOUS
  <2>1. n + 1 \in Nat /\ n + 1 <= MaxTries /\ MaxTries \in Nat
    OBVIOUS
  <2>2. QED
    BY <1>7, <2>1
<1>9. \A n \in 0..MaxTries : Latest(n) <= Latest(MaxTries)
  BY <1>7
<1>10. QED
  BY <1>5, <1>6, <1>8, <1>9

\* What a step does to the schedule of the invocation that takes it.
LEMMA EndsQueued ==
  ASSUME TypeOK, NEW d \in Delivery,
         Progress(d) \/ FreshAnswerLost(d) \/ ResumeAnswerLost(d) \/ CredentialFailure(d) \/ Crash(d),
         ~Start(d)
  PROVE  /\ tries' = tries /\ clock' = clock
         /\ pc[d] \in Running
         /\ pc'[d] \in Running => timer'[d] = timer[d]
         /\ pc'[d] = "queued" => timer'[d] = clock + RetryDelay
         /\ \A e \in Delivery \ {d} : pc'[e] = pc[e] /\ timer'[e] = timer[e]
<1> USE DEF table, history, locals, queue
<1>1. CASE Claim(d) \/ FanOut(d) \/ FreshAnswerLost(d)
  <2>1. CASE ClaimFresh(d) \/ ClaimResume(d)
    BY <2>1 DEF ClaimFresh, ClaimResume, Hold, Running, Claiming, Holding, TypeOK
  <2>2. CASE ClaimExists(d) \/ ReadVanished(d) \/ ReadExpired(d) \/ FreshAnswerLost(d)
    BY <2>2 DEF ClaimExists, ReadVanished, ReadExpired, FreshAnswerLost, Running, Claiming, TypeOK
  <2>3. CASE ReadDuplicate(d) \/ ClaimBeaten(d)
    BY <2>3 DEF ReadDuplicate, ClaimBeaten, Succeed, Running, Claiming, Holding, TypeOK
  <2>4. CASE FanOut(d)
    BY <2>4 DEF FanOut, DecideRecipients, FindInstallations, SendNext, Running, Holding, TypeOK
  <2>5. QED
    BY <1>1, <2>1, <2>2, <2>3, <2>4 DEF Claim
<1>2. CASE Complete(d) \/ ResumeAnswerLost(d)
  BY <1>2 DEF Complete, ResumeAnswerLost, Succeed, Running, Claiming, Holding, TypeOK
<1>3. CASE Abandon(d) \/ CredentialFailure(d) \/ Crash(d)
  <2>1. Fail(d) /\ pc[d] \in Running /\ clock' = clock
    BY <1>3 DEF Abandon, CredentialFailure, Crash, Running, Holding
  <2>2. pc'[d] \in {"queued", "dlq"} /\ timer'[d] = clock + RetryDelay
    BY <2>1 DEF Fail, AfterFailure, TypeOK
  <2>3. QED
    BY <2>1, <2>2 DEF Fail, Running, Claiming, Holding, TypeOK
<1>4. QED
  BY <1>1, <1>2, <1>3 DEF Progress

LEMMA InitBudgetInv == Init => BudgetInv
BY LatestGrows DEF Init, BudgetInv, Running, Claiming, Holding

LEMMA NextBudgetInv == TypeOK /\ TimingInv /\ BudgetInv /\ [Next]_vars => BudgetInv'
<1> SUFFICES ASSUME TypeOK, TimingInv, BudgetInv, [Next]_vars PROVE BudgetInv'
  OBVIOUS
<1> USE DEF table, history, locals, queue
<1>0. \A e \in Delivery :
        /\ tries[e] \in 0..MaxTries /\ timer[e] \in Nat
        /\ Latest(tries[e]) \in Nat /\ ArrivalHorizon <= Latest(tries[e])
        /\ Latest(tries[e]) <= Latest(MaxTries)
        /\ Latest(tries[e] + 1) = Latest(tries[e]) + QueueDelay + Timeout + RetryDelay
        /\ tries[e] < MaxTries => Latest(tries[e] + 1) <= Latest(MaxTries)
  BY LatestGrows DEF TypeOK
<1>1. ASSUME NEW d \in Delivery, Invoke(d) PROVE BudgetInv'
  <2>1. /\ clock' = clock /\ tries' = tries /\ clock <= ArrivalHorizon /\ pc'[d] = "queued" /\ timer'[d] = clock
        /\ \A e \in Delivery \ {d} : pc'[e] = pc[e] /\ timer'[e] = timer[e]
    BY <1>1 DEF Invoke, TypeOK
  <2>2. /\ timer'[d] <= Latest(tries[d]) /\ clock <= timer'[d] + QueueDelay /\ pc'[d] \notin Running
    BY <1>0, <2>1 DEF TypeOK, Running, Claiming, Holding
  <2>3. QED
    BY <2>1, <2>2 DEF BudgetInv
<1>2. ASSUME NEW d \in Delivery, Start(d) PROVE BudgetInv'
  <2>1. /\ clock' = clock /\ pc[d] = "queued" /\ pc'[d] = "put" /\ timer'[d] = clock
        /\ tries'[d] = tries[d] + 1
        /\ \A e \in Delivery \ {d} : pc'[e] = pc[e] /\ timer'[e] = timer[e] /\ tries'[e] = tries[e]
    BY <1>2 DEF Start, TypeOK
  <2>2. clock <= Latest(tries[d]) + QueueDelay
    BY <1>0, <2>1 DEF BudgetInv, TypeOK
  <2>3. timer'[d] + Timeout + RetryDelay <= Latest(tries'[d])
    BY <1>0, <2>1, <2>2 DEF TypeOK
  <2>4. QED
    BY <2>1, <2>3 DEF BudgetInv
<1>3. ASSUME NEW d \in Delivery, ~Start(d),
             \/ Progress(d) \/ FreshAnswerLost(d) \/ ResumeAnswerLost(d)
             \/ CredentialFailure(d) \/ Crash(d)
      PROVE  BudgetInv'
  <2>1. clock <= timer[d] + Timeout /\ timer[d] + Timeout + RetryDelay <= Latest(tries[d])
    BY <1>3, EndsQueued DEF TimingInv, BudgetInv
  <2>2. clock + RetryDelay <= Latest(tries[d]) /\ clock <= clock + RetryDelay + QueueDelay
    BY <1>0, <2>1 DEF TypeOK
  <2>3. QED
    BY <1>3, EndsQueued, <2>1, <2>2 DEF BudgetInv
<1>4. CASE Purge
  BY <1>4 DEF Purge, BudgetInv
<1>5. CASE Tick
  <2>1. clock' = clock + 1 /\ UNCHANGED <<pc, tries, timer>> /\ clock \in Nat
    BY <1>5 DEF Tick, TypeOK
  <2>2. \A e \in Delivery : pc[e] = "queued" => clock < timer[e] + QueueDelay /\ tries[e] < MaxTries
    BY <1>5 DEF Tick, TypeOK
  <2>3. clock < Latest(MaxTries)
    <3>1. CASE clock < ArrivalHorizon
      BY <3>1, LatestGrows, <2>1
    <3>2. ASSUME NEW e \in Delivery, pc[e] \in Running PROVE clock < Latest(MaxTries)
      <4>1. clock < timer[e] + Timeout /\ timer[e] + Timeout + RetryDelay <= Latest(tries[e])
        BY <1>5, <3>2 DEF Tick, BudgetInv
      <4>2. QED
        BY <4>1, <1>0, <2>1, LatestGrows
    <3>3. ASSUME NEW e \in Delivery, pc[e] = "queued" PROVE clock < Latest(MaxTries)
      <4>1. clock < timer[e] + QueueDelay /\ timer[e] <= Latest(tries[e]) /\ tries[e] < MaxTries
        BY <2>2, <3>3 DEF BudgetInv
      <4>2. QED
        BY <4>1, <1>0, <2>1, LatestGrows
    <3>4. QED
      BY <1>5, <3>1, <3>2, <3>3 DEF Tick
  <2>4. QED
    BY <1>0, <2>1, <2>2, <2>3, LatestGrows DEF BudgetInv
<1>6. CASE UNCHANGED vars
  BY <1>6 DEF vars, BudgetInv
<1>7. QED
  BY <1>1, <1>2, <1>3, <1>4, <1>5, <1>6 DEF Next

\* No time is left for a purge while an invocation may still run.
LEMMA NeverPurged ==
  ASSUME OverBeforePurge, TypeOK, RecordInv, BudgetInv PROVE ~purged
<1>1. Latest(MaxTries) \in Nat /\ clock \in Nat /\ clock <= Latest(MaxTries)
  BY LatestGrows DEF BudgetInv, TypeOK
<1>2. Latest(MaxTries) < RetentionSeconds - Skew
  BY <1>1 DEF OverBeforePurge
<1>3. QED
  BY <1>1, <1>2 DEF RecordInv

LEMMA InitFenceInv == Init => FenceInv
BY DEF Init, FenceInv, Holding

\* Whoever does not begin to hold the record leaves the fence standing while
\* the record keeps its attempt.
LEMMA FenceKept ==
  ASSUME TypeOK, FenceInv, NEW d \in Delivery, Others(d), UNCHANGED purged,
         pc'[d] \in Holding => pc[d] \in Holding /\ attempt'[d] = attempt[d],
         record' = record \/ (record'.attempt = record.attempt /\ record'.status = record.status)
  PROVE  FenceInv'
BY DEF FenceInv, Others

\* A claim whose answer arrives or is lost records an attempt nobody holds yet.
LEMMA FenceClaimed ==
  ASSUME TypeOK, FenceInv, NEW d \in Delivery, Others(d), UNCHANGED purged, pc[d] \notin Holding,
         record'.status = "PROCESSING", record'.attempt \in Nat,
         pc'[d] \in Holding => attempt'[d] = record'.attempt,
         record.status = "ABSENT" \/ record'.attempt = record.attempt + 1
  PROVE  FenceInv'
<1> SUFFICES ASSUME ~purged PROVE FenceInv'
  BY DEF FenceInv
<1>1. \A e \in Delivery \ {d} : pc'[e] = pc[e] /\ attempt'[e] = attempt[e] /\ attempt[e] \in Nat
  BY DEF Others, TypeOK
<1>2. \A e \in Delivery \ {d} : pc'[e] \in Holding => attempt'[e] < record'.attempt
  <2>1. record.attempt \in Nat
    BY DEF TypeOK, Item
  <2>2. QED
    BY <1>1, <2>1 DEF FenceInv
<1>3. \A e, f \in Delivery \ {d} :
        pc'[e] \in Holding /\ pc'[f] \in Holding /\ attempt'[e] = attempt'[f] => e = f
  BY <1>1 DEF FenceInv
<1>4. \A e \in Delivery : pc'[e] \in Holding => attempt'[e] \in Nat /\ attempt'[e] <= record'.attempt
  BY <1>1, <1>2
<1>5. \A e, f \in Delivery :
        pc'[e] \in Holding /\ pc'[f] \in Holding /\ attempt'[e] = attempt'[f] => e = f
  <2> SUFFICES ASSUME NEW e \in Delivery, NEW f \in Delivery, pc'[e] \in Holding, pc'[f] \in Holding,
                      attempt'[e] = attempt'[f]
               PROVE  e = f
    OBVIOUS
  <2>1. CASE e # d /\ f # d
    BY <1>3, <2>1
  <2>2. e = d => f = d
    BY <1>1, <1>2
  <2>3. f = d => e = d
    BY <1>1, <1>2
  <2>4. QED
    BY <2>1, <2>2, <2>3
<1>6. QED
  BY <1>4, <1>5 DEF FenceInv

LEMMA NextFenceInv == TypeOK /\ FenceInv /\ [Next]_vars => FenceInv'
<1> SUFFICES ASSUME TypeOK, FenceInv, [Next]_vars PROVE FenceInv'
  OBVIOUS
<1> USE DEF table, history, locals, queue
<1>1. ASSUME NEW d \in Delivery, ClaimFresh(d) \/ FreshAnswerLost(d) PROVE FenceInv'
  <2>1. record' = FreshClaim(now[d]) /\ record.status = "ABSENT" /\ pc[d] \notin Holding
    BY <1>1 DEF ClaimFresh, FreshAnswerLost, Holding
  <2>2. Others(d) /\ UNCHANGED purged /\ (pc'[d] \in Holding => attempt'[d] = 1)
    BY <1>1 DEF ClaimFresh, FreshAnswerLost, Hold, Others, Holding, TypeOK
  <2>3. QED
    BY <2>1, <2>2, FenceClaimed DEF FreshClaim
<1>2. ASSUME NEW d \in Delivery, ClaimResume(d) \/ ResumeAnswerLost(d) PROVE FenceInv'
  <2>1. /\ record'.status = "PROCESSING" /\ record'.attempt = record.attempt + 1
        /\ record'.attempt = seen[d].attempt + 1 /\ record.attempt \in Nat /\ pc[d] \notin Holding
    BY <1>2 DEF ClaimResume, ResumeAnswerLost, StealCondition, Stolen, TypeOK, Item, Holding
  <2>2. /\ Others(d) /\ UNCHANGED purged
        /\ pc'[d] \in Holding => attempt'[d] = seen[d].attempt + 1
    <3>1. CASE ClaimResume(d)
      BY <3>1 DEF ClaimResume, Hold, Others, TypeOK
    <3>2. CASE ResumeAnswerLost(d)
      BY <3>2, SucceedEnds DEF ResumeAnswerLost, Ends, Holding
    <3>3. QED
      BY <1>2, <3>1, <3>2
  <2>3. QED
    BY <2>1, <2>2, FenceClaimed
<1>3. ASSUME NEW d \in Delivery, Invoke(d) \/ Start(d) \/ ClaimExists(d) \/ ReadVanished(d) \/ ReadExpired(d)
      PROVE  FenceInv'
  <2>1. Others(d) /\ UNCHANGED <<record, purged>> /\ pc'[d] \notin Holding
    BY <1>3 DEF Invoke, Start, ClaimExists, ReadVanished, ReadExpired, Others, Holding, TypeOK
  <2>2. QED
    BY <2>1, FenceKept
<1>4. ASSUME NEW d \in Delivery, ReadDuplicate(d) \/ ClaimBeaten(d) \/ CredentialFailure(d) \/ Crash(d)
      PROVE  FenceInv'
  <2>1. Ends(d) /\ UNCHANGED <<record, purged>>
    BY <1>4, SucceedEnds, FailEnds DEF ReadDuplicate, ClaimBeaten, CredentialFailure, Crash
  <2>2. QED
    BY <2>1, FenceKept DEF Ends, Holding
<1>5. ASSUME NEW d \in Delivery, Abandon(d) PROVE FenceInv'
  <2>1. Ends(d) /\ UNCHANGED purged
    BY <1>5, FailEnds DEF Abandon
  <2>2. record'.attempt = record.attempt /\ record'.status = record.status
    BY <1>5 DEF Abandon, Released, TypeOK, Item
  <2>3. QED
    BY <2>1, <2>2, FenceKept DEF Ends, Holding
<1>6. ASSUME NEW d \in Delivery, FanOut(d) PROVE FenceInv'
  <2>1. Others(d) /\ UNCHANGED <<record, purged, attempt>> /\ pc[d] \in Holding
    BY <1>6 DEF FanOut, DecideRecipients, FindInstallations, SendNext, Others, Holding, TypeOK
  <2>2. QED
    BY <2>1, FenceKept
<1>7. ASSUME NEW d \in Delivery, Complete(d) PROVE FenceInv'
  <2>1. Ends(d) /\ UNCHANGED purged /\ pc[d] \in Holding
    BY <1>7, SucceedEnds DEF Complete, Holding
  <2>2. CASE ~StillOwns(d)
    BY <1>7, <2>1, <2>2, FenceKept DEF Complete, Ends, Holding
  <2>3. CASE StillOwns(d)
    <3>1. /\ record'.status = "COMPLETED" /\ record'.attempt = record.attempt
          /\ record.attempt = attempt[d] /\ record.attempt \in Nat
      BY <1>7, <2>3 DEF Complete, StillOwns, TypeOK, Item
    <3>2. /\ pc'[d] \notin Holding
          /\ \A e \in Delivery \ {d} : pc'[e] = pc[e] /\ attempt'[e] = attempt[e] /\ attempt[e] \in Nat
      BY <2>1 DEF Ends, Others, Holding, TypeOK
    <3>3. ASSUME ~purged, NEW e \in Delivery \ {d}, pc[e] \in Holding PROVE attempt[e] < record.attempt
      <4>1. attempt[e] # attempt[d] /\ attempt[e] <= record.attempt
        BY <2>1, <3>3 DEF FenceInv
      <4>2. QED
        BY <3>1, <3>2, <4>1
    <3>4. QED
      BY <2>1, <3>1, <3>2, <3>3 DEF FenceInv
  <2>4. QED
    BY <2>2, <2>3
<1>8. CASE Purge
  BY <1>8 DEF Purge, FenceInv
<1>9. CASE Tick
  BY <1>9 DEF Tick, FenceInv
<1>10. CASE UNCHANGED vars
  BY <1>10 DEF vars, FenceInv
<1>11. QED
  BY <1>1, <1>2, <1>3, <1>4, <1>5, <1>6, <1>7, <1>8, <1>9, <1>10 DEF Next, Progress, Claim

LEMMA FinalInvHolds == Spec => []FinalInv
<1>1. Init => FinalInv
  BY InitTypeOK, InitTimingInv, InitRecordInv, InitBudgetInv, InitFenceInv DEF FinalInv
<1>2. FinalInv /\ [Next]_vars => FinalInv'
  BY NextTypeOK, NextTimingInv, NextRecordInv, NextBudgetInv, NextFenceInv DEF FinalInv
<1>3. QED
  BY <1>1, <1>2, PTL DEF Spec

\* Once an event is COMPLETED only the purge changes its record, however short
\* the lease, however late an overtaken execution writes and even if the answer
\* to a write is lost, when the last retry is over before the record expires.
THEOREM FinalUntilPurged ==
  ASSUME OverBeforePurge PROVE Spec => CompletedIsFinal
<1>1. ASSUME FinalInv, [Next]_vars, record.status = "COMPLETED"
      PROVE  record' \in {record, Absent}
  <2> USE DEF table, history, locals, queue
  <2>1. ~purged /\ FenceInv /\ TypeOK
    BY <1>1, NeverPurged DEF FinalInv
  <2>2. ASSUME NEW d \in Delivery, Complete(d) \/ Abandon(d) PROVE record' = record
    <3>1. pc[d] \in Holding
      BY <2>2 DEF Complete, Abandon, Holding
    <3>2. attempt[d] < record.attempt
      BY <1>1, <2>1, <3>1 DEF FenceInv
    <3>3. ~StillOwns(d)
      BY <2>1, <3>2 DEF StillOwns, TypeOK, Item
    <3>4. QED
      BY <2>2, <3>3 DEF Complete, Abandon
  <2>3. ASSUME NEW d \in Delivery,
               ClaimFresh(d) \/ FreshAnswerLost(d) \/ ClaimResume(d) \/ ResumeAnswerLost(d)
        PROVE  FALSE
    BY <1>1, <2>3 DEF ClaimFresh, FreshAnswerLost, ClaimResume, ResumeAnswerLost, StealCondition
  <2>4. ASSUME NEW d \in Delivery,
               \/ Invoke(d) \/ Start(d) \/ ClaimExists(d) \/ ReadVanished(d) \/ ReadDuplicate(d)
               \/ ReadExpired(d) \/ ClaimBeaten(d) \/ FanOut(d) \/ CredentialFailure(d) \/ Crash(d)
        PROVE  record' = record
    BY <2>4 DEF Invoke, Start, ClaimExists, ReadVanished, ReadDuplicate, ReadExpired, ClaimBeaten,
       FanOut, DecideRecipients, FindInstallations, SendNext, CredentialFailure, Crash
  <2>5. CASE Purge
    BY <2>5 DEF Purge
  <2>6. CASE Tick \/ UNCHANGED vars
    BY <2>6 DEF Tick, vars
  <2>7. QED
    BY <1>1, <2>2, <2>3, <2>4, <2>5, <2>6 DEF Next, Progress, Claim
<1>2. FinalInv /\ [Next]_vars
        => [record.status = "COMPLETED" => record' \in {record, Absent}]_vars
  BY <1>1
<1>3. QED
  BY <1>2, FinalInvHolds, PTL DEF Spec, CompletedIsFinal

-----------------------------------------------------------------------------
(* What is left of a lost ring.                                            *)

\* NoSilentLoss without the way out for a record that was deleted.
NobodyForgotten == AllOver => completed \/ \E d \in Delivery : pc[d] = "dlq"

\* Nobody is turned away, and nobody holds the event, without a record.
AbsentInv ==
  ~purged /\ record.status = "ABSENT" => \A d \in Delivery : pc[d] \in {"idle", "queued", "put", "dlq"}

\* A record, once written, stays until it is purged.
LEMMA RecordStays ==
  ASSUME TypeOK, [Next]_vars, record.status # "ABSENT", ~purged'
  PROVE  record'.status # "ABSENT"
<1> USE DEF table, history, locals, queue
<1>1. ASSUME NEW d \in Delivery, ClaimFresh(d) \/ FreshAnswerLost(d) PROVE record'.status # "ABSENT"
  BY <1>1 DEF ClaimFresh, FreshAnswerLost
<1>2. ASSUME NEW d \in Delivery, ClaimResume(d) \/ ResumeAnswerLost(d) PROVE record'.status # "ABSENT"
  BY <1>2 DEF ClaimResume, ResumeAnswerLost, Stolen, TypeOK, Item
<1>3. ASSUME NEW d \in Delivery, Complete(d) \/ Abandon(d) PROVE record'.status # "ABSENT"
  BY <1>3 DEF Complete, Abandon, Released, TypeOK, Item
<1>4. CASE UNCHANGED record
  BY <1>4
<1>5. QED
  BY <1>1, <1>2, <1>3, <1>4 DEF Next, Progress, Claim, FanOut, Invoke, Start, ClaimExists, ReadVanished,
     ReadDuplicate, ReadExpired, ClaimBeaten, DecideRecipients, FindInstallations, SendNext,
     CredentialFailure, Crash, Purge, Tick, vars

LEMMA NextAbsentInv ==
  ASSUME TypeOK, AbsentInv, [Next]_vars
  PROVE  AbsentInv'
<1> USE DEF table, history, locals, queue
<1>1. SUFFICES ASSUME ~purged', record'.status = "ABSENT", NEW e \in Delivery
      PROVE  pc'[e] \in {"idle", "queued", "put", "dlq"}
  BY DEF AbsentInv
<1>2. ~purged
  BY <1>1 DEF Next, Progress, Claim, FanOut, Invoke, Start, ClaimFresh, FreshAnswerLost, ClaimResume,
     ResumeAnswerLost, Complete, Abandon, ClaimExists, ReadVanished, ReadDuplicate, ReadExpired,
     ClaimBeaten, DecideRecipients, FindInstallations, SendNext, CredentialFailure, Crash, Purge, Tick, vars
<1>3. record.status = "ABSENT" /\ \A d \in Delivery : pc[d] \in {"idle", "queued", "put", "dlq"}
  BY <1>1, <1>2, RecordStays DEF AbsentInv
<1>4. ASSUME NEW d \in Delivery, Invoke(d) \/ Start(d) \/ Crash(d)
      PROVE  pc'[e] \in {"idle", "queued", "put", "dlq"}
  BY <1>3, <1>4 DEF Invoke, Start, Crash, Fail, AfterFailure, TypeOK
<1>5. ASSUME NEW d \in Delivery, ClaimFresh(d) \/ FreshAnswerLost(d) PROVE FALSE
  BY <1>1, <1>5 DEF ClaimFresh, FreshAnswerLost, FreshClaim
<1>6. ASSUME NEW d \in Delivery,
             \/ ClaimExists(d) \/ ReadVanished(d) \/ ReadDuplicate(d) \/ ReadExpired(d)
             \/ ClaimResume(d) \/ ClaimBeaten(d) \/ FanOut(d) \/ Complete(d) \/ Abandon(d)
             \/ ResumeAnswerLost(d) \/ CredentialFailure(d)
      PROVE  FALSE
  BY <1>3, <1>6 DEF ClaimExists, ReadVanished, ReadDuplicate, ReadExpired, ClaimResume, ClaimBeaten,
     FanOut, DecideRecipients, FindInstallations, SendNext, Complete, Abandon, ResumeAnswerLost,
     CredentialFailure
<1>7. CASE UNCHANGED pc
  BY <1>3, <1>7
<1>8. QED
  BY <1>4, <1>5, <1>6, <1>7 DEF Next, Progress, Claim, Purge, Tick, vars

\* Whatever the timing, and whatever answers are lost, an operator who looks
\* finds the ring completed, in the dead letter queue, or still PROCESSING.
THEOREM LossVisible == Spec => []LossIsVisible
<1>1. Init => TypeOK /\ TimingInv /\ RecordInv /\ AbsentInv
  BY InitTypeOK, InitTimingInv, InitRecordInv DEF Init, AbsentInv
<1>2. TypeOK /\ TimingInv /\ RecordInv /\ AbsentInv /\ [Next]_vars
        => (TypeOK /\ TimingInv /\ RecordInv /\ AbsentInv)'
  BY NextTypeOK, NextTimingInv, NextRecordInv, NextAbsentInv
<1>3. TypeOK /\ RecordInv /\ AbsentInv => LossIsVisible
  BY DEF LossIsVisible, AllOver, AbsentInv, RecordInv, Settled, TypeOK, Item, Status
<1>4. QED
  BY <1>1, <1>2, <1>3, PTL DEF Spec

\* With the deployed times the record outlives every retry, so that no ring is
\* lost at all: the way out of NoSilentLoss is never taken.
THEOREM NobodyEverForgotten ==
  ASSUME ~LostResponses, RetryOutlivesLease, OverBeforePurge PROVE Spec => []NobodyForgotten
<1>1. NoSilentLoss /\ FinalInv => NobodyForgotten
  BY NeverPurged DEF NoSilentLoss, NobodyForgotten, AllOver, FinalInv
<1>2. QED
  BY <1>1, NothingLost, FinalInvHolds, PTL

-----------------------------------------------------------------------------
(* A ring is delivered in its time.                                        *)

\* What the temporal decision of a delivering execution was based on.
TimelyInv ==
  \A d \in Delivering :
    /\ TimestampSource = "device"
    /\ OccurredAt <= clock + Skew + FutureTolerance
    /\ timer[d] < OccurredAt + PushMaxAge + Skew

LEMMA NextTimelyInv ==
  ASSUME TypeOK, TimingInv, TimelyInv, [Next]_vars
  PROVE  TimelyInv'
<1> USE DEF table, history, locals, queue
<1>1. ASSUME NEW d \in Delivery, DecideRecipients(d), d \in Delivering' PROVE TimelyInv!(d)'
  <2>1. PICK t \in Readings : TemporalSuppression(t) = "NONE"
    BY <1>1 DEF DecideRecipients, Delivering, TypeOK
  <2>2. /\ TimestampSource = "device" /\ t \in Int
        /\ OccurredAt <= t + FutureTolerance /\ t < OccurredAt + PushMaxAge
    BY <2>1 DEF TemporalSuppression, Readings, TypeOK
  <2>3. clock - Skew <= t /\ t <= clock + Skew /\ timer[d] <= clock
    BY <1>1 DEF Readings, DecideRecipients, TimingInv, Running, Holding
  <2>4. clock \in Nat /\ timer[d] \in Nat
    BY DEF TypeOK
  <2>5. UNCHANGED <<clock, timer>>
    BY <1>1 DEF DecideRecipients
  <2>6. QED
    BY <2>2, <2>3, <2>4, <2>5
<1>2. ASSUME NEW e \in Delivering, pc'[e] \in {"installations", "sending"}, timer'[e] = timer[e],
             clock' \in {clock, clock + 1}
      PROVE  TimelyInv!(e)'
  <2>1. /\ TimestampSource = "device"
        /\ OccurredAt <= clock + Skew + FutureTolerance
        /\ timer[e] < OccurredAt + PushMaxAge + Skew
    BY DEF TimelyInv
  <2>2. clock \in Nat /\ clock' \in Nat /\ clock <= clock'
    BY <1>2 DEF TypeOK
  <2>3. OccurredAt <= clock' + Skew + FutureTolerance
    <3>1. \A x, y \in Nat : x <= y /\ OccurredAt <= x + Skew + FutureTolerance
                              => OccurredAt <= y + Skew + FutureTolerance
      OBVIOUS
    <3>2. QED
      BY <2>1, <2>2, <3>1
  <2>4. QED
    BY <1>2, <2>1, <2>3
<1>3. ASSUME NEW d \in Delivery, Invoke(d) \/ Start(d) \/ Ends(d)
      PROVE  \A e \in Delivering' : e \in Delivering /\ timer'[e] = timer[e]
  BY <1>3 DEF Invoke, Start, Ends, Others, Delivering, TypeOK
<1>4. ASSUME NEW d \in Delivery, Continues(d), ~DecideRecipients(d), Progress(d) \/ FreshAnswerLost(d)
      PROVE  \A e \in Delivering' : e \in Delivering /\ timer'[e] = timer[e]
  <2>1. \A e \in Delivering' \ {d} : e \in Delivering /\ timer'[e] = timer[e]
    BY <1>4 DEF Continues, Others, Delivering
  <2>2. d \in Delivering' => d \in Delivering
    BY <1>4 DEF Progress, Claim, FanOut, Start, ClaimFresh, ClaimExists, ReadVanished, ReadDuplicate,
       ReadExpired, ClaimResume, ClaimBeaten, FreshAnswerLost, FindInstallations, SendNext, Complete,
       Abandon, Succeed, Fail, AfterFailure, Hold, Delivering, TypeOK
  <2>3. QED
    BY <1>4, <2>1, <2>2 DEF Continues
<1>5. ASSUME \A e \in Delivering' : e \in Delivering /\ timer'[e] = timer[e], clock' \in {clock, clock + 1}
      PROVE  TimelyInv'
  BY <1>2, <1>5 DEF TimelyInv, Delivering
<1>6. ASSUME NEW d \in Delivery, DecideRecipients(d) PROVE TimelyInv'
  <2>1. \A e \in Delivering' \ {d} : e \in Delivering /\ timer'[e] = timer[e]
    BY <1>6 DEF DecideRecipients, Delivering, TypeOK
  <2>2. \A e \in Delivering' \ {d} : TimelyInv!(e)'
    BY <1>2, <1>6, <2>1 DEF Delivering, DecideRecipients
  <2>3. QED
    BY <1>1, <1>6, <2>2 DEF TimelyInv
<1>7. CASE Purge \/ Tick \/ UNCHANGED vars
  BY <1>5, <1>7 DEF Purge, Tick, vars, Delivering
<1>8. ASSUME NEW d \in Delivery,
             Invoke(d) \/ Progress(d) \/ FreshAnswerLost(d) \/ ResumeAnswerLost(d)
               \/ CredentialFailure(d) \/ Crash(d)
      PROVE  TimelyInv'
  <2>1. CASE Invoke(d) \/ Start(d) \/ Ends(d)
    BY <1>3, <1>5, <1>8, <2>1, StepKinds
  <2>2. CASE Continues(d) /\ (Progress(d) \/ FreshAnswerLost(d))
    BY <1>4, <1>5, <1>6, <1>8, <2>2, StepKinds
  <2>3. CASE Continues(d) /\ (ResumeAnswerLost(d) \/ CredentialFailure(d) \/ Crash(d))
    BY <2>3, SucceedEnds, FailEnds
       DEF Continues, Ends, ResumeAnswerLost, CredentialFailure, Crash, Running, Claiming, Holding
  <2>4. QED
    BY <1>8, <2>1, <2>2, <2>3, StepKinds
<1>9. QED
  BY <1>7, <1>8 DEF Next

\* However slow an execution is after it judged the ring's age, nobody's phone
\* rings for a visitor who came longer ago than that plus one execution.
THEOREM TimelyRings == Spec => RingsAreTimely
<1>1. Init => TypeOK /\ TimingInv /\ TimelyInv
  BY InitTypeOK, InitTimingInv DEF Init, TimelyInv, Delivering
<1>2. TypeOK /\ TimingInv /\ TimelyInv /\ [Next]_vars => (TypeOK /\ TimingInv /\ TimelyInv)'
  BY NextTypeOK, NextTimingInv, NextTimelyInv
<1>3. ASSUME TypeOK, TimingInv, TimelyInv, Next, NEW i \in Installation, accepted'[i] # accepted[i]
      PROVE  /\ TimestampSource = "device"
             /\ OccurredAt <= clock + Skew + FutureTolerance
             /\ clock < OccurredAt + PushMaxAge + Skew + Timeout
  <2>1. PICK d \in Delivery : SendNext(d)
    BY <1>3 DEF Next, Progress, Claim, FanOut, Invoke, Start, ClaimFresh, FreshAnswerLost, ClaimResume,
       ResumeAnswerLost, Complete, Abandon, ClaimExists, ReadVanished, ReadDuplicate, ReadExpired,
       ClaimBeaten, DecideRecipients, FindInstallations, CredentialFailure, Crash, Succeed, Fail,
       Purge, Tick, history
  <2>2. d \in Delivering /\ pc[d] \in Running
    BY <2>1 DEF SendNext, Delivering, Running, Holding
  <2>3. QED
    BY <1>3, <2>2 DEF TimelyInv, TimingInv, TypeOK, Delivering
<1>4. TypeOK /\ TimingInv /\ TimelyInv /\ [Next]_vars
        => [\A i \in Installation :
              accepted'[i] # accepted[i] =>
                /\ TimestampSource = "device"
                /\ OccurredAt <= clock + Skew + FutureTolerance
                /\ clock < OccurredAt + PushMaxAge + Skew + Timeout]_vars
  BY <1>3
<1>5. QED
  BY <1>1, <1>2, <1>4, PTL DEF Spec, RingsAreTimely
=============================================================================
