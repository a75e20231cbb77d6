------------------------- MODULE TelemetryIngestion -------------------------
(***************************************************************************)
(* One device's telemetry (lambdas/telemetry_ingestion, domain/telemetry)  *)
(* and GET command (lambdas/command_api), which reads what it projects.    *)
(* A message is stamped by the IoT rule with the second it is received     *)
(* and given to Lambda, which executes the handler at least once, retries  *)
(* an execution that fails, and keeps no order.  Every DynamoDB, SQS and   *)
(* Lambda call is one action; all keys hold the device, so one is enough.  *)
(***************************************************************************)
EXTENDS Integers, FiniteSets

CONSTANTS
  Delivery,     \* the events Lambda is given
  Message,      \* what the device may publish
  Command,      \* the command_ids of responses
  Polled,       \* the commands whose owner polls
  Unstamped,    \* a device timestamp that is absent
  NoJob,        \* no item
  PushConfigured, \* is PUSH_SENDER_FUNCTION_NAME set?
  DetailLimit,  \* DETAIL_LIMIT, details per hour
  HourLength,   \* seconds in an hour
  Skew,         \* MAX_CLOCK_SKEW
  Expiry,       \* command_expires_at of the commands
  MaxTries,     \* executions of one event, the first included
  Horizon,      \* bound: time goes by up to this second
  MaxResends    \* bound: increments the SDK sends a second time

MessageSpace ==
  [category : {"events", "health", "responses"}, id : STRING, occurred : Nat \cup {Unstamped},
   status : {"NONE", "ACCEPTED", "COMPLETED", "FAILED", "REJECTED"}, ring : BOOLEAN,
   form : {"valid", "invalid", "unknown device"}]

ASSUME ConstantsAssumption ==
  /\ \A m \in Message :
       /\ m \in MessageSpace
       /\ m.category = "responses" => m.id \in Command /\ m.status # "NONE"
       /\ m.ring => m.category = "events"
  /\ Polled \subseteq Command
  /\ PushConfigured \in BOOLEAN
  /\ HourLength \in Nat \ {0} /\ MaxTries \in Nat \ {0} /\ DetailLimit \in Nat \ {0}
  /\ Skew \in Nat /\ Expiry \in Nat /\ Horizon \in Nat /\ MaxResends \in Nat
  /\ Unstamped \notin Nat
  /\ NoJob \notin [body : Message, received : Nat]

VARIABLES
  clock,        \* the IoT rule's clock in seconds
  details,      \* the EVENT# and RESPONSE# items
  metric,       \* the METRIC# items, one per hour
  current,      \* the STATE#CURRENT item
  projection,   \* the COMMAND_RESULT# items
  pc,           \* where each delivery is
  job,          \* what was published, and when it was received
  tries,        \* executions so far
  told,         \* the last state the owner was told of each command: 202 says PENDING
  \* Effects outside of the table:
  pushed,       \* deliveries whose invocation of push_sender was accepted
  swallowed,    \* deliveries whose invocation raised: logged, and nothing else
  quarantined,  \* deliveries whose message was sent to the quarantine queue
  resends       \* bound: increments sent again so far

items   == <<details, metric, current, projection>>
effects == <<pushed, swallowed, quarantined>>
vars    == <<clock, items, pc, job, tries, told, effects, resends>>

-----------------------------------------------------------------------------
Job      == [body : Message, received : 0..Horizon]
Counter  == {"events", "responses", "health", "invalid", "duplicate", "dropped", "detailed"}
Hour(t)  == t \div HourLength
Hours    == {Hour(t) : t \in 0..Horizon}
Counting == {"health", "invalid", "duplicate", "dropped"}
Running  == {"state", "detail", "project", "push", "quarantine", "return"} \cup Counting
PublicStates == {"PENDING", "EXPIRED", "COMPLETED", "REJECTED"}

\* An event keeps the device's time, if it has one; a response its receipt.
Occurred(j) == IF j.body.category = "events" /\ j.body.occurred # Unstamped
               THEN j.body.occurred ELSE j.received

DetailKey(j) == <<j.body.category, Occurred(j), j.body.id>>

Stored(j)  == \E x \in details : DetailKey(x) = DetailKey(j)
DetailsOf(h) == {x \in details : Hour(x.received) = h}
Terminal(j)  == j # NoJob /\ j.body.status # "ACCEPTED"

TypeOK ==
  /\ clock \in Nat
  /\ details \subseteq Job
  /\ metric \in [Hours -> [Counter -> Nat]]
  /\ current \in Job \cup {NoJob}
  /\ projection \in [Command -> Job \cup {NoJob}]
  /\ pc \in [Delivery -> Running \cup {"idle", "queued", "done", "dlq"}]
  /\ job \in [Delivery -> Job \cup {NoJob}]
  /\ \A d \in Delivery : pc[d] # "idle" => job[d] \in Job
  /\ tries \in [Delivery -> 0..MaxTries]
  /\ told \in [Polled -> PublicStates]
  /\ pushed \subseteq Delivery /\ swallowed \subseteq Delivery
  /\ quarantined \subseteq Delivery
  /\ resends \in 0..MaxResends

Init ==
  /\ clock = 0
  /\ details = {}
  /\ metric = [h \in Hours |-> [c \in Counter |-> 0]]
  /\ current = NoJob
  /\ projection = [c \in Command |-> NoJob]
  /\ pc = [d \in Delivery |-> "idle"]
  /\ job = [d \in Delivery |-> NoJob]
  /\ tries = [d \in Delivery |-> 0]
  /\ told = [c \in Polled |-> "PENDING"]
  /\ pushed = {} /\ swallowed = {}
  /\ quarantined = {}
  /\ resends = 0

Goto(d, where) == pc' = [pc EXCEPT ![d] = where]

-----------------------------------------------------------------------------
(* The IoT rule and Lambda's asynchronous invocation.                      *)

\* A message, new or sent again by the device, is stamped with the time.
Publish(d) ==
  /\ pc[d] = "idle"
  /\ clock <= Horizon
  /\ \E m \in Message : job' = [job EXCEPT ![d] = [body |-> m, received |-> clock]]
  /\ Goto(d, "queued")
  /\ UNCHANGED <<clock, items, tries, told, effects, resends>>

\* Lambda may be given, and execute, one event more than once.
Redeliver(d, e) ==
  /\ pc[d] = "idle" /\ pc[e] # "idle"
  /\ job' = [job EXCEPT ![d] = job[e]]
  /\ Goto(d, "queued")
  /\ UNCHANGED <<clock, items, tries, told, effects, resends>>

\* parse_envelope: a device time too far from the receipt is invalid too.
Malformed(j) ==
  \/ j.body.form # "valid"
  \/ Occurred(j) > j.received + Skew
  \/ j.received > Occurred(j) + Skew

FirstCall(j) ==
  CASE ~Malformed(j) /\ j.body.category = "health"  -> "state"
    [] ~Malformed(j) /\ j.body.category # "health"  -> "detail"
    [] Malformed(j) /\ j.body.form # "unknown device" -> "invalid"
    [] Malformed(j) /\ j.body.form = "unknown device" -> "quarantine"

Start(d) ==
  /\ pc[d] = "queued"
  /\ tries' = [tries EXCEPT ![d] = @ + 1]
  /\ Goto(d, FirstCall(job[d]))
  /\ UNCHANGED <<clock, items, job, told, effects, resends>>

\* An infrastructure error leaves the handler, the execution is cut off, or
\* its success is not heard of: it is retried, and in the end given up.  An
\* action followed by Fail is also a call whose answer is lost.
Fail(d) ==
  /\ pc[d] \in Running
  /\ Goto(d, IF tries[d] < MaxTries THEN "queued" ELSE "dlq")
  /\ UNCHANGED <<clock, items, job, tries, told, effects, resends>>

Return(d) ==
  /\ pc[d] = "return"
  /\ Goto(d, "done")
  /\ UNCHANGED <<clock, items, job, tries, told, effects, resends>>

-----------------------------------------------------------------------------
(* TelemetryStore.record: health.                                          *)

AnyHealthWins(j) == TRUE                               \* mutant: written unconditionally
HealthWins(j) == current = NoJob \/ current.received <= j.received

\* A newer health has already won: the condition fails and is passed over.
UpdateState(d) ==
  /\ pc[d] = "state"
  /\ current' = IF HealthWins(job[d]) THEN job[d] ELSE current
  /\ Goto(d, "health")
  /\ UNCHANGED <<clock, details, metric, projection, job, tries, told, effects, resends>>

(* TelemetryStore.record: events and responses.                            *)

\* What follows once an event or a response is recorded.
DroppedAreSilent(d) ==                                 \* mutant: only recorded rings are pushed
  IF job[d].body.category = "responses" THEN "project"
  ELSE IF job[d].body.ring /\ pc[d] = "detail" THEN "push" ELSE "return"
AfterRecord(d) ==
  IF job[d].body.category = "responses" THEN "project"
  ELSE IF job[d].body.ring THEN "push" ELSE "return"

Add(j, counters) ==
  metric' = [metric EXCEPT ![Hour(j.received)] =
              [c \in Counter |-> IF c \in counters THEN @[c] + 1 ELSE @[c]]]

LateByOne(j)  == metric[Hour(j.received)]["detailed"] <= DetailLimit   \* mutant: off by one
MayDetail(j) == metric[Hour(j.received)]["detailed"] < DetailLimit

\* The transaction: the detail, unless there is one, and its place in the hour.
RecordDetail(d) ==
  /\ pc[d] = "detail"
  /\ ~Stored(job[d]) /\ MayDetail(job[d])
  /\ details' = details \cup {job[d]}
  /\ Add(job[d], {job[d].body.category, "detailed"})
  /\ Goto(d, AfterRecord(d))
  /\ UNCHANGED <<clock, current, projection, job, tries, told, effects, resends>>

\* Another execution may have a transaction on the same detail under way.
Contended(d) == \E e \in Delivery \ {d} :
  pc[e] \in Running /\ ~Malformed(job[e]) /\ DetailKey(job[e]) = DetailKey(job[d])

\* The reasons are in the order of the items: a duplicate comes first, unless
\* the reason given for that item is a conflict.
DetailRefused(d) ==
  /\ pc[d] = "detail"
  /\ \/ Stored(job[d]) /\ Goto(d, "duplicate")
     \/ /\ ~MayDetail(job[d])
        /\ Stored(job[d]) => Contended(d)
        /\ Goto(d, "dropped")
  /\ UNCHANGED <<clock, items, job, tries, told, effects, resends>>

-----------------------------------------------------------------------------
(* _increment and _increment_only.                                         *)

OnlyDropped(d) == IF pc[d] = "dropped" THEN {"dropped"} ELSE {pc[d]}   \* mutant: no category
Counters(d) == IF pc[d] = "dropped" THEN {job[d].body.category, "dropped"} ELSE {pc[d]}

NoQuarantine(d) ==                                     \* mutant: counted and forgotten
  IF pc[d] \in {"health", "invalid"} THEN "return" ELSE AfterRecord(d)
AfterCount(d) == CASE pc[d] = "health"  -> "return"
                   [] pc[d] = "invalid" -> "quarantine"
                   [] pc[d] \in {"duplicate", "dropped"} -> AfterRecord(d)

Count(d) ==
  /\ pc[d] \in Counting
  /\ Add(job[d], Counters(d))
  /\ Goto(d, AfterCount(d))
  /\ UNCHANGED <<clock, details, current, projection, job, tries, told, effects, resends>>

\* The answer is lost and the SDK sends the increment again.
CountTwice(d) ==
  /\ pc[d] \in Counting
  /\ resends < MaxResends
  /\ resends' = resends + 1
  /\ Add(job[d], Counters(d))
  /\ UNCHANGED <<clock, details, current, projection, pc, job, tries, told, effects>>

-----------------------------------------------------------------------------
(* _project_response.                                                      *)

LastWins(p, j) == TRUE                                 \* mutant: no condition
NewestWins(p, j) == p = NoJob \/ p.received <= j.received   \* mutant: ACCEPTED after a terminal
Supersedes(p, j) ==
  \/ p = NoJob
  \/ ~Terminal(p) /\ p.received <= j.received
  \/ Terminal(p) /\ Terminal(j) /\ p.received < j.received

Project(d) ==
  /\ pc[d] = "project"
  /\ LET c == job[d].body.id
     IN projection' = [projection EXCEPT ![c] = IF Supersedes(@, job[d]) THEN job[d] ELSE @]
  /\ Goto(d, "return")
  /\ UNCHANGED <<clock, details, metric, current, job, tries, told, effects, resends>>

-----------------------------------------------------------------------------
(* The effects of lambda_handler outside of the table.                     *)

\* push_invoker: the invocation is accepted, or raises, or its answer is lost and
\* it is both; without a function name there is none.  An exception is logged
\* and swallowed: the handler returns as if nothing had happened.
Push(d) ==
  /\ pc[d] = "push"
  /\ \E accepted, raised \in SUBSET {d} :
       /\ PushConfigured <=> accepted \cup raised # {}
       /\ pushed' = pushed \cup accepted
       /\ swallowed' = swallowed \cup raised
  /\ Goto(d, "return")
  /\ UNCHANGED <<clock, items, job, tries, told, quarantined, resends>>

Quarantine(d) ==
  /\ pc[d] = "quarantine"
  /\ quarantined' = quarantined \cup {d}
  /\ Goto(d, "return")
  /\ UNCHANGED <<clock, items, job, tries, told, pushed, swallowed, resends>>

-----------------------------------------------------------------------------
(* get_command, for a command whose intent is there.                       *)

RawState(p, t) == IF p = NoJob THEN "PENDING" ELSE p.body.status   \* mutant: not mapped
CommandState(p, t) ==
  CASE p = NoJob                            -> IF t < Expiry THEN "PENDING" ELSE "EXPIRED"
    [] p # NoJob /\ p.body.status = "ACCEPTED"  -> "PENDING"
    [] p # NoJob /\ p.body.status = "COMPLETED" -> "COMPLETED"
    [] p # NoJob /\ p.body.status \in {"FAILED", "REJECTED"} -> "REJECTED"

\* The clock is read last: it may have moved on since the projection was read.
Poll(c) ==
  /\ \E t \in {clock, clock + 1} : told' = [told EXCEPT ![c] = CommandState(projection[c], t)]
  /\ UNCHANGED <<clock, items, pc, job, tries, effects, resends>>

Tick ==
  /\ clock < Horizon
  /\ clock' = clock + 1
  /\ UNCHANGED <<items, pc, job, tries, told, effects, resends>>

-----------------------------------------------------------------------------
Record(d) == UpdateState(d) \/ RecordDetail(d) \/ DetailRefused(d) \/ Count(d) \/ Project(d)
Execute(d) == Start(d) \/ Record(d) \/ Push(d) \/ Quarantine(d) \/ Return(d)

Next ==
  \/ \E d \in Delivery : Publish(d) \/ Execute(d) \/ CountTwice(d) \/ Fail(d)
  \/ \E d, e \in Delivery : Redeliver(d, e)
  \/ \E c \in Polled : Poll(c)
  \/ Tick

Spec == Init /\ [][Next]_vars

\* Lambda executes the events it holds.
FairSpec == Spec /\ \A d \in Delivery : WF_vars(Execute(d))

-----------------------------------------------------------------------------
(* Properties.                                                             *)

\* An hour holds at most DETAIL_LIMIT details, each with its place in
\* detailed_count and no place without a detail, whatever is retried or lost
\* (data-model.md: no detail without a reservation nor the reverse).
DetailsReserved ==
  \A h \in Hours : /\ Cardinality(DetailsOf(h)) = metric[h]["detailed"]
                   /\ Cardinality(DetailsOf(h)) <= DetailLimit

\* Messages are counted by category once for each detail and once for each
\* drop, also when an increment is applied twice or an execution repeated
\* (record: event_count, response_count, detailed_dropped_count).
CountersAgree ==
  \A h \in Hours :
    metric[h]["events"] + metric[h]["responses"] = metric[h]["detailed"] + metric[h]["dropped"]

\* STATE#CURRENT is at least as new as every health message that has been
\* processed, in whatever order they were (record: last_seen_at <= :seen).
StateIsNewest ==
  \A d \in Delivery :
    pc[d] \in {"health", "return", "done"} /\ job[d].body.category = "health" /\ ~Malformed(job[d])
      => current # NoJob /\ current.received >= job[d].received

\* A response that has been handled is in the projection unless one that goes
\* before it is: for a terminal one, a terminal at least as new, or an
\* ACCEPTED received later; for an ACCEPTED, a terminal or one as new.
ProjectionCoversResponses ==
  \A d \in Delivery :
    pc[d] \in {"return", "done"} /\ job[d].body.category = "responses" /\ ~Malformed(job[d])
      => LET p == projection[job[d].body.id]
         IN /\ p # NoJob
            /\ ~Terminal(p) => p.received >= job[d].received
            /\ Terminal(p) /\ Terminal(job[d]) => p.received >= job[d].received

\* Has a ring been pushed, or the failure to push it been logged?
Attempted(d) == d \in pushed \cup swallowed

\* A ring is pushed only after it is recorded: it has its detail, or one of the
\* drops counted in its hour is its own.  And whichever way it was recorded, as
\* a detail, a duplicate or a drop, and by whichever execution, once it is
\* handled either push_sender has been invoked or the log holds the failure
\* (lambda_handler; fcm-notification-sender.md, section 5).
RingPushedOnceRecorded ==
  /\ \A h \in Hours :
       Cardinality({d \in Delivery : Attempted(d) /\ ~Stored(job[d]) /\ Hour(job[d].received) = h})
         <= metric[h]["dropped"]
  /\ \A d \in Delivery :
       pc[d] = "done" /\ job[d].body.ring /\ ~Malformed(job[d]) /\ PushConfigured => Attempted(d)

\* An owner who has been told that a command is over is never told that it is
\* pending or expired, though responses come in any order (get_command).
ToldOutcomeStands ==
  [][\A c \in Polled : told[c] \in {"COMPLETED", "REJECTED"}
                         => told'[c] \in {"COMPLETED", "REJECTED"}]_told

\* Every message Lambda is given ends handled or in the dead letter queue; one
\* that is malformed and not there has reached the quarantine.
DeliverySettles ==
  []<>(\A d \in Delivery :
         \/ pc[d] \in {"idle", "dlq"}
         \/ pc[d] = "done" /\ (Malformed(job[d]) => d \in quarantined))
=============================================================================
