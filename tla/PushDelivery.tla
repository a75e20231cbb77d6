---------------------------- MODULE PushDelivery ----------------------------
(***************************************************************************)
(* The push sender's handling of one ring event (device_id, event_id): the *)
(* lease kept in the PushDeliveries table (lambdas/push_sender/            *)
(* idempotency.py), the handler that claims it, fans out to installations  *)
(* and completes or abandons it (lambdas/push_sender/handler.py), and the  *)
(* asynchronous invocation service that runs, times out and retries the    *)
(* handler.  Every DynamoDB call is one action; between two calls anything *)
(* may happen.                                                             *)
(***************************************************************************)
EXTENDS Integers, FiniteSets

CONSTANTS
  Delivery,            \* asynchronous invocations of push_sender for the event
  Installation,        \* installations a fan-out may reach
  LeaseSeconds,        \* idempotency.LEASE_SECONDS
  RetentionSeconds,    \* idempotency.RETENTION_SECONDS
  Timeout,             \* the Lambda timeout
  MaxTries,            \* executions of one invocation: the first one and its retries
  RetryDelay,          \* least time between a failed execution and its retry
  QueueDelay,          \* bound: how long after that the retry may start
  ArrivalHorizon,      \* bound: invocations are made up to this time
  Skew,                \* how far an execution's clock may be from real time
  OccurredAt,          \* ring_event.occurred_at
  TimestampSource,     \* ring_event.timestamp_source
  PushMaxAge,          \* RING_*_PUSH_MAX_AGE_SECONDS
  FutureTolerance,     \* MAX_FUTURE_CLOCK_SKEW_SECONDS
  LostResponses        \* may the answer to an applied write be lost and the SDK resend it?

ASSUME ConstantsAssumption ==
  /\ LeaseSeconds \in Nat \ {0} /\ RetentionSeconds \in Nat \ {0}
  /\ Timeout \in Nat /\ MaxTries \in Nat \ {0}
  /\ RetryDelay \in Nat /\ QueueDelay \in Nat /\ ArrivalHorizon \in Nat
  /\ Skew \in Nat /\ OccurredAt \in Int
  /\ PushMaxAge \in Nat /\ FutureTolerance \in Nat
  /\ TimestampSource \in {"device", "unknown"}
  /\ LostResponses \in BOOLEAN

VARIABLES
  clock,       \* real time, in seconds; 0 is before the first invocation
  record,      \* the PushDeliveries item of the event
  pc,          \* where each invocation is
  tries,       \* executions of each invocation so far
  timer,       \* queued: the earliest time it may run; running: when it started
  now,         \* int(clock()) as read for claim()
  seen,        \* attempt and lease_expires_at as read by claim()
  attempt,     \* the attempt number claim() returned
  outcome,     \* the outcome complete() will record
  answer,      \* result of this execution's send to each installation
  \* History, for the properties only:
  holder,      \* the invocation that last claimed the record
  completed,   \* the record has been COMPLETED at some time
  purged,      \* the item has been deleted by TTL at some time
  failures,    \* executions that failed while they held an attempt
  accepted     \* sends FCM acknowledged, per installation

table   == <<record, holder, completed, purged>>
history == <<failures, accepted>>
locals  == <<now, seen, attempt, outcome, answer>>
queue   == <<tries, timer>>
vars    == <<clock, pc, table, history, locals, queue>>

-----------------------------------------------------------------------------
Status == {"ABSENT", "PROCESSING", "COMPLETED"}
Claiming   == {"put", "get", "steal"}
Holding    == {"members", "installations", "sending", "settle"}
Running    == Claiming \cup Holding
Settled    == {"success", "dlq"}
Outcome    == {"NONE", "PROCESSED", "NO_RECIPIENTS", "ALL_SUPPRESSED", "NO_INSTALLATIONS",
               "SUPPRESSED_EXPIRED", "SUPPRESSED_UNKNOWN_EVENT_TIME",
               "SUPPRESSED_FUTURE_EVENT_TIME"}
\* send_with_retry's result for an installation.  REFUSED stands for
\* INVALID_TOKEN and PERMANENT_PAYLOAD_ERROR, SKIPPED for an installation that
\* belongs to no recipient by the time it is read, TEMPORARY for an error the
\* local retries did not resolve.
SendResult == {"SENT", "REFUSED", "SKIPPED", "TEMPORARY", "AUTH"}
Answer     == SendResult \cup {"NOT_TARGET", "UNTRIED"}

PcState    == Running \cup Settled \cup {"idle", "queued"}
Item       == [status: Status, attempt: Nat, lease: Int, expires: Int, outcome: Outcome]
Snapshot   == [attempt: Nat, lease: Int]

Absent == [status |-> "ABSENT", attempt |-> 0, lease |-> 0, expires |-> 0, outcome |-> "NONE"]

Readings == (clock - Skew)..(clock + Skew)

TypeOK ==
  /\ clock \in Nat
  /\ record \in Item
  /\ pc \in [Delivery -> PcState]
  /\ tries \in [Delivery -> 0..MaxTries]
  /\ \A d \in Delivery : pc[d] \in {"idle", "queued"} => tries[d] < MaxTries
  /\ timer \in [Delivery -> Nat]
  /\ now \in [Delivery -> Int]
  /\ seen \in [Delivery -> Snapshot]
  /\ attempt \in [Delivery -> Nat]
  /\ outcome \in [Delivery -> Outcome]
  /\ answer \in [Delivery -> [Installation -> Answer]]
  /\ holder \in Delivery
  /\ completed \in BOOLEAN /\ purged \in BOOLEAN
  /\ failures \in Nat
  /\ accepted \in [Installation -> Nat]

NoAnswers == [i \in Installation |-> "NOT_TARGET"]
NothingSeen == [attempt |-> 0, lease |-> 0]

Init ==
  /\ clock = 0
  /\ record = Absent
  /\ pc = [d \in Delivery |-> "idle"]
  /\ tries = [d \in Delivery |-> 0]
  /\ timer = [d \in Delivery |-> 0]
  /\ now = [d \in Delivery |-> 0]
  /\ seen = [d \in Delivery |-> NothingSeen]
  /\ attempt = [d \in Delivery |-> 0]
  /\ outcome = [d \in Delivery |-> "NONE"]
  /\ answer = [d \in Delivery |-> NoAnswers]
  /\ holder \in Delivery
  /\ completed = FALSE /\ purged = FALSE
  /\ failures = 0
  /\ accepted = [i \in Installation |-> 0]

-----------------------------------------------------------------------------
(* The asynchronous invocation service.                                    *)

\* telemetry_ingestion invokes push_sender; it may do so again for a ring the
\* device publishes again.
Invoke(d) ==
  /\ pc[d] = "idle"
  /\ clock <= ArrivalHorizon
  /\ pc' = [pc EXCEPT ![d] = "queued"]
  /\ timer' = [timer EXCEPT ![d] = clock]
  /\ UNCHANGED <<clock, table, history, locals, tries>>

\* An execution starts: the event is parsed and claim() is called with now=int(clock()).
Start(d) ==
  /\ pc[d] = "queued"
  /\ clock >= timer[d]
  /\ pc' = [pc EXCEPT ![d] = "put"]
  /\ tries' = [tries EXCEPT ![d] = @ + 1]
  /\ timer' = [timer EXCEPT ![d] = clock]
  /\ \E t \in Readings : now' = [now EXCEPT ![d] = t]
  /\ UNCHANGED <<clock, table, history, seen, attempt, outcome, answer>>

\* The memory of an execution ends with it.
Forget(d) ==
  /\ now' = [now EXCEPT ![d] = 0]
  /\ seen' = [seen EXCEPT ![d] = NothingSeen]
  /\ attempt' = [attempt EXCEPT ![d] = 0]
  /\ outcome' = [outcome EXCEPT ![d] = "NONE"]
  /\ answer' = [answer EXCEPT ![d] = NoAnswers]

\* The execution of d ends with an error: the service queues it again, or gives
\* it to the dead letter queue after its last retry.
UncappedRetry(d) == TRUE                          \* mutant: retries without end
CanRetry(d) == tries[d] < MaxTries

NoDeadLetterQueue(d) == IF CanRetry(d) THEN "queued" ELSE "success"      \* mutant
AfterFailure(d) == IF CanRetry(d) THEN "queued" ELSE "dlq"

Fail(d) ==
  /\ pc' = [pc EXCEPT ![d] = AfterFailure(d)]
  /\ timer' = [timer EXCEPT ![d] = clock + RetryDelay]
  /\ failures' = failures + (IF pc[d] \in Holding THEN 1 ELSE 0)
  /\ Forget(d)
  /\ UNCHANGED <<tries, accepted>>

\* The execution of d returns a result; the service is done with it.
Succeed(d) ==
  /\ pc' = [pc EXCEPT ![d] = "success"]
  /\ Forget(d)
  /\ UNCHANGED <<queue, history>>

\* A crash, the Lambda timeout, or an exception no abandon() is made for.
Crash(d) ==
  /\ pc[d] \in Running
  /\ Fail(d)
  /\ UNCHANGED <<clock, table>>

-----------------------------------------------------------------------------
(* idempotency.claim                                                       *)

ShortLease(t) == t + Timeout                      \* mutant: no margin over the timeout
LongLease(t) == t + 3 * LeaseSeconds              \* mutant: outlasts the retry delay
LeaseFrom(t) == t + LeaseSeconds

FreshClaim(t) == [status |-> "PROCESSING", attempt |-> 1, lease |-> LeaseFrom(t),
                  expires |-> t + RetentionSeconds, outcome |-> "NONE"]

\* d has won the record with attempt number n.
Hold(d, n) ==
  /\ holder' = d
  /\ attempt' = [attempt EXCEPT ![d] = n]
  /\ pc' = [pc EXCEPT ![d] = "members"]

\* The conditional PutItem succeeds: CLAIMED.
ClaimFresh(d) ==
  /\ pc[d] = "put"
  /\ record.status = "ABSENT"
  /\ record' = FreshClaim(now[d])
  /\ Hold(d, 1)
  /\ UNCHANGED <<clock, completed, purged, history, now, seen, outcome, answer, queue>>

\* The conditional PutItem fails: the item exists.
ClaimExists(d) ==
  /\ pc[d] = "put"
  /\ record.status # "ABSENT"
  /\ pc' = [pc EXCEPT ![d] = "get"]
  /\ UNCHANGED <<clock, table, history, locals, queue>>

\* The consistent GetItem, and what claim() makes of its answer.
LeaseIgnored(t) == t + LeaseSeconds >= record.lease      \* mutant: compares with the claim time
LeaseExpired(t) == t >= record.lease

ReadVanished(d) ==
  /\ pc[d] = "get"
  /\ record.status = "ABSENT"
  /\ pc' = [pc EXCEPT ![d] = "put"]
  /\ UNCHANGED <<clock, table, history, locals, queue>>

ReadDuplicate(d) ==
  /\ pc[d] = "get"
  /\ \/ record.status = "COMPLETED"
     \/ record.status = "PROCESSING" /\ ~LeaseExpired(now[d])
  /\ Succeed(d)
  /\ UNCHANGED <<clock, table>>

ReadExpired(d) ==
  /\ pc[d] = "get"
  /\ record.status = "PROCESSING"
  /\ LeaseExpired(now[d])
  /\ pc' = [pc EXCEPT ![d] = "steal"]
  /\ seen' = [seen EXCEPT ![d] = [attempt |-> record.attempt, lease |-> record.lease]]
  /\ UNCHANGED <<clock, table, history, now, attempt, outcome, answer, queue>>

\* The conditional UpdateItem that takes over an expired lease.
UnpinnedSteal(d) == record.status = "PROCESSING"         \* mutant: snapshot not pinned
StatusBlindSteal(d) == record.lease = seen[d].lease /\ record.attempt = seen[d].attempt  \* mutant
StealCondition(d) ==
  /\ record.status = "PROCESSING"
  /\ record.lease = seen[d].lease
  /\ record.attempt = seen[d].attempt

Stolen(d) == [record EXCEPT !.status = "PROCESSING", !.lease = LeaseFrom(now[d]),
                            !.attempt = seen[d].attempt + 1]

ClaimResume(d) ==
  /\ pc[d] = "steal"
  /\ StealCondition(d)
  /\ record' = Stolen(d)
  /\ Hold(d, seen[d].attempt + 1)
  /\ UNCHANGED <<clock, completed, purged, history, now, seen, outcome, answer, queue>>

\* Another execution was faster: DUPLICATE_IN_FLIGHT.
ClaimBeaten(d) ==
  /\ pc[d] = "steal"
  /\ ~StealCondition(d)
  /\ Succeed(d)
  /\ UNCHANGED <<clock, table>>

\* The write of claim() is applied but its answer is lost, so the SDK sends the
\* same conditional write again and claim() sees the condition fail.
FreshAnswerLost(d) ==
  /\ LostResponses
  /\ pc[d] = "put"
  /\ record.status = "ABSENT"
  /\ record' = FreshClaim(now[d])
  /\ holder' = d
  /\ pc' = [pc EXCEPT ![d] = "get"]
  /\ UNCHANGED <<clock, completed, purged, history, locals, queue>>

ResumeAnswerLost(d) ==
  /\ LostResponses
  /\ pc[d] = "steal"
  /\ StealCondition(d)
  /\ record' = Stolen(d)
  /\ holder' = d
  /\ Succeed(d)
  /\ UNCHANGED <<clock, completed, purged>>

-----------------------------------------------------------------------------
(* The handler, once it holds an attempt.                                  *)

\* mutant: still pushes at the age at which a ring expires
LateSuppression(t) ==
  CASE TimestampSource # "device"            -> "SUPPRESSED_UNKNOWN_EVENT_TIME"
    [] TimestampSource = "device" /\ OccurredAt > t + FutureTolerance
                                             -> "SUPPRESSED_FUTURE_EVENT_TIME"
    [] TimestampSource = "device" /\ OccurredAt <= t + FutureTolerance
         /\ t > OccurredAt + PushMaxAge      -> "SUPPRESSED_EXPIRED"
    [] OTHER                                 -> "NONE"

\* evaluate_temporal_eligibility at the clock reading t.
TemporalSuppression(t) ==
  CASE TimestampSource # "device"            -> "SUPPRESSED_UNKNOWN_EVENT_TIME"
    [] TimestampSource = "device" /\ OccurredAt > t + FutureTolerance
                                             -> "SUPPRESSED_FUTURE_EVENT_TIME"
    [] TimestampSource = "device" /\ OccurredAt <= t + FutureTolerance
         /\ t >= OccurredAt + PushMaxAge     -> "SUPPRESSED_EXPIRED"
    [] OTHER                                 -> "NONE"

\* Memberships are read, a decision is made for each member, and the ring is
\* judged too old or not.  Who the members are and what they prefer is open.
DecideRecipients(d) ==
  /\ pc[d] = "members"
  /\ \E t \in Readings : \E o \in {"NO_RECIPIENTS", "ALL_SUPPRESSED", TemporalSuppression(t)} :
       /\ outcome' = [outcome EXCEPT ![d] = o]
       /\ pc' = [pc EXCEPT ![d] = IF o = "NONE" THEN "installations" ELSE "settle"]
  /\ UNCHANGED <<clock, table, history, now, seen, attempt, answer, queue>>

\* The installations of the recipients are read; which ones there are is open.
FindInstallations(d) ==
  /\ pc[d] = "installations"
  /\ \E S \in SUBSET Installation :
       /\ answer' = [answer EXCEPT ![d] =
                       [i \in Installation |-> IF i \in S THEN "UNTRIED" ELSE "NOT_TARGET"]]
       /\ pc' = [pc EXCEPT ![d] = IF S = {} THEN "settle" ELSE "sending"]
       /\ outcome' = [outcome EXCEPT ![d] = IF S = {} THEN "NO_INSTALLATIONS" ELSE "PROCESSED"]
  /\ UNCHANGED <<clock, table, history, now, seen, attempt, queue>>

\* There are installations, but the Firebase credential cannot be loaded while
\* the FCM client is built: the exception leaves the handler as it is.
CredentialFailure(d) ==
  /\ pc[d] = "installations"
  /\ Installation # {}
  /\ Fail(d)
  /\ UNCHANGED <<clock, table>>

FirebaseBroken(d) == \E i \in Installation : answer[d][i] = "AUTH"
Unresolved(d)     == \E i \in Installation : answer[d][i] = "TEMPORARY"
Untried(d)        == {i \in Installation : answer[d][i] = "UNTRIED"}

\* One turn of the loop of _send_all.
SendNext(d) ==
  /\ pc[d] = "sending"
  /\ ~FirebaseBroken(d)
  /\ \E i \in Untried(d), a \in SendResult :
       /\ answer' = [answer EXCEPT ![d][i] = a]
       /\ accepted' = [accepted EXCEPT ![i] = @ + (IF a = "SENT" THEN 1 ELSE 0)]
  /\ UNCHANGED <<clock, pc, table, failures, now, seen, attempt, outcome, queue>>

FanOutOver(d)   == FirebaseBroken(d) \/ Untried(d) = {}
MustAbandon(d)  == FirebaseBroken(d) \/ Unresolved(d)

\* The condition of complete() and abandon(): attempt = :attempt.
StillOwns(d) == record.status # "ABSENT" /\ record.attempt = attempt[d]

\* idempotency.complete, and the successful end of the execution.
Complete(d) ==
  /\ \/ pc[d] = "settle"
     \/ pc[d] = "sending" /\ FanOutOver(d) /\ ~MustAbandon(d)
  /\ record' = IF StillOwns(d)
               THEN [record EXCEPT !.status = "COMPLETED", !.outcome = outcome[d]]
               ELSE record
  /\ completed' = (completed \/ StillOwns(d))
  /\ Succeed(d)
  /\ UNCHANGED <<clock, holder, purged>>

\* idempotency.abandon, and the exception that makes the service retry.
Released(t) == [record EXCEPT !.lease = t]

Abandon(d) ==
  /\ pc[d] = "sending"
  /\ FanOutOver(d) /\ MustAbandon(d)
  /\ \E t \in Readings : record' = IF StillOwns(d) THEN Released(t) ELSE record
  /\ Fail(d)
  /\ UNCHANGED <<clock, holder, completed, purged>>

-----------------------------------------------------------------------------
(* The environment.                                                        *)

\* DynamoDB deletes the item some time after its TTL.
Purge ==
  /\ record.status # "ABSENT"
  /\ clock >= record.expires
  /\ record' = Absent
  /\ purged' = TRUE
  /\ UNCHANGED <<clock, pc, holder, completed, history, locals, queue>>

\* Time passes, but no execution outlives the Lambda timeout and no retry waits
\* for ever.
Tick ==
  /\ \/ clock < ArrivalHorizon
     \/ \E d \in Delivery : pc[d] \in Running \cup {"queued"}
  /\ \A d \in Delivery : pc[d] \in Running => clock < timer[d] + Timeout
  /\ \A d \in Delivery : pc[d] = "queued" => clock < timer[d] + QueueDelay
  /\ clock' = clock + 1
  /\ UNCHANGED <<pc, table, history, locals, queue>>

Claim(d) == \/ ClaimFresh(d) \/ ClaimExists(d)
            \/ ReadVanished(d) \/ ReadDuplicate(d) \/ ReadExpired(d)
            \/ ClaimResume(d) \/ ClaimBeaten(d)
FanOut(d) == DecideRecipients(d) \/ FindInstallations(d) \/ SendNext(d)

\* What the program and the service do if nothing goes wrong.
Progress(d) == Start(d) \/ Claim(d) \/ FanOut(d) \/ Complete(d) \/ Abandon(d)

Next ==
  \/ \E d \in Delivery :
       \/ Invoke(d)
       \/ Progress(d)
       \/ FreshAnswerLost(d) \/ ResumeAnswerLost(d)
       \/ CredentialFailure(d)
       \/ Crash(d)
  \/ Purge
  \/ Tick

Spec == Init /\ [][Next]_vars

\* Lambda runs what it has started and retries what has failed, and time passes.
Fairness == WF_vars(Tick) /\ \A d \in Delivery : WF_vars(Progress(d))

FairSpec == Spec /\ Fairness

-----------------------------------------------------------------------------
(* Properties.                                                             *)

\* The executions that may be talking to FCM.
Delivering == {d \in Delivery : pc[d] \in {"installations", "sending"}}

\* Two executions never deliver the same ring at the same time: whoever takes
\* an expired lease over finds that its former holder is gone
\* (idempotency.py: LEASE_SECONDS against the Lambda timeout).
SingleSender == \A d, e \in Delivering : d = e

\* All invocations made are over, and there was one.
AllOver == (\A d \in Delivery : pc[d] \in Settled \cup {"idle"}) /\ (\E d \in Delivery : pc[d] # "idle")

\* A ring is not lost: when no invocation is left that could still deliver it,
\* the event has been completed or some invocation is in the dead letter queue
\* (unless its record has outlived RETENTION_SECONDS).
NoSilentLoss == AllOver => completed \/ purged \/ \E d \in Delivery : pc[d] = "dlq"

\* Where an answer to a claiming write is lost NoSilentLoss fails (run
\* delivery_lost_answer); even then the ring does not vanish: its record stays
\* PROCESSING as long as it stays at all (idempotency.py: claim never deletes).
LossIsVisible ==
  AllOver => completed \/ purged \/ record.status = "PROCESSING" \/ \E d \in Delivery : pc[d] = "dlq"

\* FCM accepts a ring for the same installation again only when an execution
\* that held the event failed in between.
RepeatOnlyAfterFailure == \A i \in Installation : accepted[i] <= 1 + failures

\* FCM is handed a ring only if the device dated it, never before it occurred and
\* never later than its maximal age and what one execution may take: its age is
\* judged once, against the execution's own clock, before the installations are
\* read and the sends are made, and a retry judges it again
\* (temporal_eligibility.py, handler.py).
RingsAreTimely ==
  [][\A i \in Installation :
       accepted'[i] # accepted[i] =>
         /\ TimestampSource = "device"
         /\ OccurredAt <= clock + Skew + FutureTolerance
         /\ clock < OccurredAt + PushMaxAge + Skew + Timeout]_vars

\* COMPLETED is terminal: until TTL removes the item nothing changes it.
CompletedIsFinal ==
  [][record.status = "COMPLETED" => record' \in {record, Absent}]_vars

\* After an execution reports a Firebase failure its lease is over: whoever
\* comes next can take over at once (fcm-notification-sender.md, section 3).
FirebaseFailureReleasesLease ==
  [][\A d \in Delivery :
       CredentialFailure(d) /\ StillOwns(d) => record'.lease <= clock + Skew]_vars

\* Every ring push_sender was invoked for is eventually completed, or an
\* operator finds it in the dead letter queue.
RingEventuallyResolved ==
  (\E d \in Delivery : pc[d] # "idle")
    ~> (completed \/ purged \/ \E d \in Delivery : pc[d] = "dlq")

\* The lease protocol implements the abstract delivery of one ring.
Abstract == INSTANCE RingDelivery WITH delivering <- Delivering, done <- completed
ImplementsRingDelivery == Abstract!Spec

-----------------------------------------------------------------------------
(* What the proofs assume and the inductive invariants they use.           *)

\* An execution is over before its lease is, even for the clock of another
\* execution (20 s against 30 s, less the clocks' disagreement).
LeaseOutlivesExecution == Timeout + 2 * Skew < LeaseSeconds

\* No ring is young enough to be delivered once its record may be purged
\* (30 or 60 s, and 20 s, against two hours).
RecordOutlivesRing == OccurredAt + PushMaxAge + Timeout + 2 * Skew <= RetentionSeconds

\* A retry never finds the lease of its own failed execution still running
\* (about 60 s against 30 s).
RetryOutlivesLease == LeaseSeconds + 2 * Skew <= RetryDelay

\* Execution times and clock readings stay within their bounds.
TimingInv ==
  \A d \in Delivery : pc[d] \in Running =>
    /\ timer[d] <= clock /\ clock <= timer[d] + Timeout
    /\ timer[d] - Skew <= now[d] /\ now[d] <= timer[d] + Skew

\* The record and its history agree.
RecordInv ==
  /\ record.status # "ABSENT" => RetentionSeconds - Skew <= record.expires
  /\ purged => RetentionSeconds - Skew <= clock
  /\ ~purged => (completed <=> record.status = "COMPLETED")

\* Until the record is purged the one holder's lease is the record's lease.
HolderInv ==
  /\ \A d \in Delivery : pc[d] = "steal" => seen[d].lease <= now[d]
  /\ ~purged =>
       /\ \A d \in Delivery : pc[d] \in Holding =>
            /\ record.status = "PROCESSING"
            /\ record.lease = LeaseFrom(now[d])
       /\ \A d, e \in Delivery : pc[d] \in Holding /\ pc[e] \in Holding => d = e
  /\ \A d \in Delivering : timer[d] < OccurredAt + PushMaxAge + Skew

SenderInv == TypeOK /\ TimingInv /\ RecordInv /\ HolderInv

\* Who may still deliver the ring: nobody has been turned away while there is
\* no record, and the holder of an unfinished record is never turned away.
PendingInv ==
  ~purged =>
    /\ record.status = "ABSENT" =>
         \A d \in Delivery : pc[d] \in {"idle", "queued", "put", "dlq"}
    /\ record.status = "PROCESSING" =>
         /\ pc[holder] \notin {"idle", "success"}
         /\ pc[holder] = "queued" => record.lease + Skew <= timer[holder]
         /\ pc[holder] \in Claiming => record.lease <= now[holder]
         /\ pc[holder] = "steal" =>
              seen[holder].attempt = record.attempt /\ seen[holder].lease = record.lease
         /\ pc[holder] \in Holding => record.lease <= LeaseFrom(now[holder])

\* An execution owns the record exactly if it is the last that claimed it.
AttemptInv ==
  ~purged =>
    \A d \in Delivery : pc[d] \in Holding =>
      /\ attempt[d] <= record.attempt
      /\ d = holder <=> attempt[d] = record.attempt

\* Whoever holds an unpurged record owns it, and an installation that has the
\* ring once more than there were failures has it from the execution that still
\* delivers, or the event is completed.
RepeatInv ==
  /\ ~purged => \A d \in Delivery : pc[d] \in Holding => attempt[d] = record.attempt
  /\ \A i \in Installation :
       \/ accepted[i] <= failures
       \/ /\ accepted[i] = 1 + failures
          /\ completed \/ purged \/ \E d \in Delivery : pc[d] = "sending" /\ answer[d][i] = "SENT"

\* The latest time an invocation can be queued again after n executions.
Latest(n) == ArrivalHorizon + n * (QueueDelay + Timeout + RetryDelay)

\* Every retry of an event is over before its record may be purged (three
\* executions of 20 s, minutes apart, against two hours).
OverBeforePurge == Latest(MaxTries) + Skew < RetentionSeconds

\* The invocations keep to the schedule of their retries.
BudgetInv ==
  /\ clock <= Latest(MaxTries)
  /\ \A d \in Delivery :
       /\ pc[d] = "queued" => timer[d] <= Latest(tries[d]) /\ clock <= timer[d] + QueueDelay
       /\ pc[d] \in Running => timer[d] + Timeout + RetryDelay <= Latest(tries[d])

\* No attempt is held twice or before it is recorded, and the attempt that
\* completed the record is over.
FenceInv ==
  ~purged =>
    \A d \in Delivery : pc[d] \in Holding =>
      /\ record.status # "ABSENT"
      /\ attempt[d] <= record.attempt
      /\ record.status = "COMPLETED" => attempt[d] < record.attempt
      /\ \A e \in Delivery : pc[e] \in Holding /\ attempt[e] = attempt[d] => e = d

FinalInv == TypeOK /\ TimingInv /\ RecordInv /\ BudgetInv /\ FenceInv

LossInv == TypeOK /\ TimingInv /\ RecordInv /\ PendingInv /\ AttemptInv
=============================================================================
