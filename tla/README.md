# InterBridge backend: formal verification

TLA+ models of the InterBridge backend (AWS Lambda handlers over DynamoDB, FCM
and AWS IoT), the TLC configurations that check them on small instances, and
theorems about them that TLAPS checks for every value of the constants.

To check a run: `tlc -config PushDelivery_lease.cfg MCPushDelivery.tla`.
To check the proofs: `tlapm PushDeliveryProofs.tla`.

## 1. The system

| Part | State | Operations | Depends on |
| --- | --- | --- | --- |
| `lambdas/telemetry_ingestion` | Telemetry table: details, hourly metrics, `STATE#CURRENT`, `COMMAND_RESULT#` | record health, event, response; quarantine; invoke push_sender | IoT Rule (asynchronous invocation, two retries) |
| `lambdas/push_sender` | PushDeliveries item per (device, event): status, attempt, lease | claim, fan out, complete, abandon; remove invalid tokens | asynchronous invocation, memberships, PushInstallations, FCM |
| `lambdas/push_api` | PushInstallations: `INSTALLATION#` and `TOKEN#`/`CLAIM` items | PUT and DELETE installation | API Gateway |
| `lambdas/command_api` | Telemetry table: `COMMAND#`, `IDEMPOTENCY#`, `COOLDOWN#` items | create_command, get_command | API Gateway, IoT data plane; reads `COMMAND_RESULT#` |
| `lambdas/device_api` | memberships: `notification_preferences`; devices: `display_name` | PATCH and GET | API Gateway |
| `lambdas/read_api` | none (encrypted cursor) | three GETs | all tables |
| `domain/push` | none | schedule and mode of an alert, age of a ring, payload, classification of FCM answers | push_sender, device_api |
| `domain/claims`, `devices`, `ownership` | none yet (data classes) | validation | tools |
| `tools/register_dev_device.py`, `tools/dev_iot_device.py` | devices, setup codes; IoT things and certificates | register, provision, clean up | an operator |
| `infrastructure` | none | CDK stacks: timeouts, retries, TTL, queues | constants of the models |

How they interact: a device publishes over MQTT; the IoT rule invokes
telemetry_ingestion asynchronously; that stores the message and, for a ring,
invokes push_sender asynchronously; push_sender claims the ring, reads
memberships and installations, talks to FCM and removes tokens FCM no longer
knows, from the same table push_api writes. command_api writes an intent,
publishes it to the device, and later joins it with the response
telemetry_ingestion has projected. Nothing but DynamoDB items is shared;
between any two calls of a handler any other handler may run, and every
execution may be cut off, repeated, or both.

What is hard, and what makes each part correct:

* **push_sender**: a lease against crashes, an attempt number against late
  writes, retries by the invocation service, TTL deletion. Correct if one
  execution delivers at a time, a ring is never lost silently, repeated only
  after a failure, and late executions are fenced off.
* **push_api and token removal**: two items per installation kept in agreement
  by optimistic transactions. Correct if they are a bijection at all times, a
  request takes effect at one instant, and a live token is never removed.
* **command_api and response projection**: idempotency key, cooldown, publish
  then mark, responses out of order. Correct if one key makes one command, no
  command is published unpersisted or expired, and the public state follows the
  newest terminal response.
* **telemetry_ingestion**: retried and reordered messages. Correct if details
  are unique and bounded, state never goes back, counters agree with details, a
  ring is pushed only once it is recorded and never passed over without a trace,
  and no answer to a command's owner is taken back.
* **the fan-out**: reads of members, index and items while they change. Correct
  if only members are rung, nobody twice, and nobody is left out unreported.
* **preferences**: bounded optimistic update. Correct if no update is lost, a
  conflict is real, and a quiet window silences exactly the minutes it should.
* **tools**: sequences of AWS calls that may stop anywhere, and a registration
  raced by another. Correct if no certificate is usable out of its bounds, there
  is one owner, and no success is reported that is none.

## 2. Modules

| Module | Models |
| --- | --- |
| `RingDelivery` | what push_sender promises about one ring: begin, give up, finish |
| `PushDelivery` | `idempotency.py`, `push_sender/handler.py`, temporal eligibility, and the asynchronous invocation service |
| `RingRecipients` | `memberships.py`, `installations.py` and `_send_all`: to whom one execution sends |
| `PushRegistry` | what the installation API promises: one atomic table |
| `PushInstallations` | `push_api/handler.py` and `push_sender/cleanup.py` on the PushInstallations table |
| `RemoteCommands` | what the command API promises: one command per key, spaced, sent once created |
| `CommandApi` | `create_command` of `command_api/handler.py` |
| `TelemetryIngestion` | `telemetry_ingestion` (handler, store, parser) and `get_command`, which reads what it projects |
| `AlertPreferences` | operators: `combine` of the device API, `evaluate` of `domain/push/preferences.py`, and a reference definition of a quiet window |
| `MemberPreferences` | what the device API promises: one atomic map of preferences |
| `PreferenceUpdates` | `device_api/handler.py` on one membership |
| `DevDevice` | `tools/dev_iot_device.py`: provision and cleanup |
| `DeviceRegistry` | `tools/register_dev_device.py` |
| `DevOperations` | the two tools together: registration looks at what provisioning has left |
| `*Proofs` | theorems about the module of that name |
| `MC*` | the module of that name for TLC: symmetry, and the sets of messages or patches |

`PROJECT.json` maps each definition to the lines it models. Definitions marked
`mutant` are deliberate bugs that no action uses: each property has one in
`PROJECT.json` that must break it.

### PushDelivery

`record` is the PushDeliveries item of one ring. Each invocation `d` is at
`pc[d]`: `idle`, `queued` (waiting in the asynchronous invocation queue), in
`claim()` (`put`, `get`, `steal`), holding an attempt (`members`,
`installations`, `sending`, `settle`), or settled (`success`, `dlq`). One
action is one DynamoDB call or one step of the fan-out; `Crash` may end any
execution in any place, and stands for the timeout and for every exception that
does not go through `abandon()`. The clock is real time in seconds; an
execution reads it with an error of at most `Skew`. `Tick` may not pass an
execution's timeout or the latest start of a retry, so both happen in time.
`Purge` is DynamoDB's TTL. `FreshAnswerLost` and `ResumeAnswerLost`, enabled by
`LostResponses`, are a write of `claim()` whose response is lost and which the
AWS SDK sends again (push_sender uses boto3's default retries).

Abstracted: who the members are, what they prefer and which installations they
have (any set; see RingRecipients), FCM's answer to each send (any), the
counters, logs and metrics. `holder`, `completed`, `purged`, `failures` and
`accepted` are history.

### RingRecipients

One execution from its memberships query to its last send, with no retry (that is
PushDelivery's subject). `wants` is what each user's membership decides now
(`OUT`: not an active member), `owner` the user of each INSTALLATION item and
`old` an older version of it, which the index and an eventually consistent read
may still show. Rows are read one by one, in the order of the key (`user`,
`entry`), since a query returns pages of any size and both tables may change
between two of them. `ids` are the installations discovered, `pending` the keys
of a batch that have no answer yet, `items` what BatchGetItem has returned.
Reaching either cap sets `truncated`, which the code logs. `wanted` and `steady`
are history: what each user wanted meanwhile, and what has not changed.

Abstracted: the token and the payload; the messages differ in mode and addressee.

### PushInstallations

`installation` and `claim` are the two kinds of items, reduced to the attributes
that a condition or a reader looks at (`token` stands for the token and its hash,
which determine each other). A request `r` is a PUT, a DELETE or the removal by
the sender (`req`), with what it has read (`sawInst`, `sawClaim`). The sender
reads through an index and without a consistent read, so `Fetch` may return any
value the item ever had (`versions`). A transaction is one action; `Cancelled` is
a failed condition or a conflict with another transaction on the same key. `503`
may hide an effect: the transaction commits and its answer is lost.

### CommandApi

One user's requests for one device; cooldown and keys are scoped by both, so
others do not interfere. `intent`, `marker` and `available` are the COMMAND,
IDEMPOTENCY and COOLDOWN items. A request reads the clock once (`now`), looks its
key up (`find`, `read`), creates the three items in one transaction (`create`),
publishes (`publish`) and marks the intent (`mark`). A cancelled transaction sends
it back to the lookup or answers 429. `Unavailable` ends it in any place, so each
later call may be missing: the errors a call names as temporary are answered 503,
the others leave the handler and are answered 500 (`Break`). `PublishUncertain` is
a publication that is accepted while the call fails; `LostResponses` an update
that is applied and sent again. `PurgeMarker` and `PurgeCooldown` are TTL.
`published`, `marked` and `broken` (the requests that met such a failure) are
history.

Abstracted: a key is always used with one body (otherwise 409, nothing
written); the topic and payload; hosts' clocks agree (every condition compares
the times requests have read with each other, so skew would add to
`PurgeLag` and `Timeout` only).

### TelemetryIngestion

One device. `details`, `metric`, `current` and `projection` are the EVENT# and
RESPONSE#, METRIC#, STATE#CURRENT and COMMAND_RESULT# items. `Publish` stamps a
message with the second the IoT rule receives it; `Redeliver` gives the same
event to Lambda again; `Fail` ends an execution in any place and puts it back in
the queue or, after the last retry, in the dead letter queue. Together with the
action before it, it also is a call that succeeds and whose answer is lost.
Executions of different deliveries interleave call by call, so messages are
processed in any order. `CountTwice` is an increment the SDK sends again: it is
not part of a transaction, so it counts twice (`resends` bounds how often). `Poll`
is `get_command`: the projection is read first, the clock last; `told` starts
as the `PENDING` of the 202.

`pushed`, `swallowed` and `quarantined` are effects outside the table. The
invocation of push_sender may be accepted, raise, or both when its answer is
lost; what it raises is logged and swallowed (`Push`), so a ring may be recorded
and handled and pushed by nobody. `PushConfigured` says whether there is a
function to invoke at all. `Contended` is a transaction of another execution on
the same detail: the conflict is then the reason given for the detail, and a
message that is stored already is counted as dropped when the hour is full.

Abstracted: the contents of a message beyond its category, id, status, time and
whether it is a ring; TTL of the items, which is far longer than anything modelled.

### PreferenceUpdates and AlertPreferences

One membership. A PATCH of preferences reads (`Read`), validates the patch
together with what is stored, and writes on condition that the map is unchanged
and the membership active (`Write`, `WriteRefused`), `MaxAttempts` times, before
a last read decides between 404 and 409 (`Refused`, `Conflict`). `WriteUnheard`
is a write that is applied and sent again. PATCH of the name and GET share the
item. `Unavailable` is answered 503 for the errors named as temporary and 500 for
every other; `MemberPreferences` allows both at any time, and neither says that
anything changed or did not. An answer ends the execution, and its variables with
it. `Administer` is whoever else writes memberships: revokes, restores,
removes, or stores a map that `combine` refuses (`Damaged`).

The fields of `quiet_schedule` are merged one by one like those above them, so
`Map` is flat. Local time is a weekday and a minute; the conversion to it
(`ZoneInfo`) is left out. `InWindow` defines quiet time without cases: a window
opens at `start_time` on each of its days and lasts `Length` minutes.

### DevDevice, DeviceRegistry, DevOperations

`run` is the sequence of AWS calls and files the running operation has yet to
make; each call is one action and `Interrupt` may end the run after any.
`DeviceRegistry` has several operators at once: `Transact` is the transaction of
both items, `Cancelled` a failed condition and `CancelledByConflict` another
transaction in progress, after either of which both items are read back one by
one and compared. `DevOperations` composes the two: the Thing a registration
validates is the one `DevDevice` provisions. `Mend` (by hand) and the members'
changes are the environment's.

## 3. Runs

Every run is exhaustive within its bounds. `CHECK_DEADLOCK FALSE` because the
system really stops: all invocations are settled, all requests are answered, the
bound of the clock or of changes is reached.

| Run | Shows |
| --- | --- |
| `delivery_lease` | types (and the retry limit), `SingleSender`, `RepeatOnlyAfterFailure`, `LossIsVisible`, `RingsAreTimely`, refinement of `RingDelivery`; clocks that disagree, crashes, retries, purge, lost answers, two installations, a ring stamped in the future |
| `delivery_overrun` | leases shorter than executions, so holders are overtaken: `NoSilentLoss`, `CompletedIsFinal`, and `RingEventuallyResolved` under fairness |
| `installations` | types, `Consistent`, `RemovalSparesLiveTokens`, refinement of `PushRegistry`, `EveryRequestAnswered` under fairness |
| `commands_safety` | types, `OneCommandPerKey`, `PublishedInTime`, `NoRepublishOnceMarked`, refinement of `RemoteCommands` |
| `telemetry` | types, `DetailsReserved`, `CountersAgree`, `RingPushedOnceRecorded`, `StateIsNewest`, `ProjectionCoversResponses`, `ToldOutcomeStands`, and `DeliverySettles` under fairness |
| `preferences` | types, `RingAsPreferred` for every map the API leaves, `ConflictIsContention`, refinement of `MemberPreferences`, `EveryRequestAnswered` under fairness |
| `recipients` | types, `OnlyMembersAreRung`, `OncePerExecution`, `NobodyIsLeftOut` |
| `dev_operations` | types, `UsableIsContained`, `OneOwner`, `AnswersAreTrue` |
| `delivery_credential` | **finding**: a credential that cannot be loaded does not release the lease |
| `delivery_lost_answer` | **finding**: a lost answer to the claiming write loses the ring |
| `commands_retry` | **finding**: a retry that overlaps the first request fails |
| `commands_accepted` | **finding**: 202 without any publication |

**Bounds.** `PushDelivery`: two invocations (a takeover needs two; a third adds
only another contender for the same conditional write), two executions each (first
and retry; the deployed limit is three), times scaled down with their order kept:
`Timeout + 2 * Skew < LeaseSeconds` and `LeaseSeconds + 2 * Skew <= RetryDelay`,
retention beyond, as 20 s, 30 s, about 60 s and 2 h. `ArrivalHorizon` bounds when
invocations are made, `QueueDelay` how late a retry may start. `delivery_overrun`
deliberately reverses `Timeout` and `LeaseSeconds`: the deployed values never do,
and the attempt number is the code's second line of defence should a host stall.
`PushInstallations`: two requests (a snapshot and a write that spoils it) from any
consistent table, so that what earlier requests left is covered without them; two
of everything else, two attempts (the code has three). `CommandApi`: three
requests (one that creates, one that overlaps it, one after the window), one key
or none, and times that keep `Cooldown < Lifetime < KeyWindow` as 2 s, 30 s, 24 h;
requests come until `Horizon`, which is when the window of the first may end;
`PurgeLag` is the least that `OneCommandPerKey` needs (section 4).
`TelemetryIngestion`: two deliveries (each property relates two messages, or two
executions of one), executed up to twice, two hours of one second, one detail an
hour so that the second meets the limit, one increment sent again.
`PreferenceUpdates`: two requests and two attempts (the code has three); of the
four patches two are valid in one order only, one undoes another, and two set
windows, one over midnight and the end of the week that blocks and one in the
afternoon that softens; days of three minutes have every order of start, end and
now, and `AlwaysAsPreferred` covers every other window. `RingRecipients`: three
users with a cap of two, two installations with a cap of two and a batch of two,
so both caps and unprocessed keys occur; one change meanwhile, after any initial
state, stale reads included. `DevOperations`: three certificates (one in use, one
orphaned by a lost answer, one issued after a mending), two registrations, two
users, two versions of the metadata.

Symmetry is used where no liveness is checked.

**Fairness.** `PushDelivery`: weak fairness of `Tick` and of each invocation's
progress. Lambda executes what it has accepted, keeps asynchronous events in its
queue and retries them; nothing is assumed about crashes, purges or lost
answers. `TelemetryIngestion`: weak fairness of each delivery's steps, for the
same reason. `PushInstallations` and `PreferenceUpdates`: weak fairness of each
request's own steps; an execution that has started goes on. Conflicts may go on
for ever; the bounded retries are what ends a request.

## 4. Theorems

All are checked by TLAPS for any number of invocations, deliveries, users,
installations, tokens, keys, requests and certificates, any messages and patches,
and any values of the times and caps that satisfy the assumptions.

| Module | Theorem | Statement | Assumes |
| --- | --- | --- | --- |
| `PushDeliveryProofs` | `TypeCorrect` | `Spec => []TypeOK` | - |
| | `OneSender` | `Spec => []SingleSender` | `LeaseOutlivesExecution`, `RecordOutlivesRing` |
| | `RingRefined` | `Spec => ImplementsRingDelivery` | the same |
| | `RepeatsExplained` | `Spec => []RepeatOnlyAfterFailure` | the same |
| | `NothingLost` | `Spec => []NoSilentLoss` | `~LostResponses`, `RetryOutlivesLease` |
| | `FinalUntilPurged` | `Spec => CompletedIsFinal` | `OverBeforePurge` |
| | `LossVisible` | `Spec => []LossIsVisible` | - |
| | `NobodyEverForgotten` | `Spec => []NobodyForgotten` | `~LostResponses`, `RetryOutlivesLease`, `OverBeforePurge` |
| | `TimelyRings` | `Spec => RingsAreTimely` | - |
| `PushInstallationsProofs` | `TypeCorrect`, `RegistryInvariant` | `Spec => []TypeOK`, `[]RegistryInv` | - |
| | `AlwaysConsistent` | `Spec => []Consistent` | - |
| | `RemovalIsSafe` | `Spec => RemovalSparesLiveTokens` | - |
| | `RegistryRefined` | `Spec => ImplementsPushRegistry` | - |
| | `ConflictsHaveRivals` | `Spec => [][ConflictNeedsRival]_vars` | - |
| | `RequestsTerminate` | `Spec => [][ConflictsRunOut]_vars` | - |
| `CommandApiProofs` | `TypeCorrect`, `CommandInvariant` | `Spec => []TypeOK`, `[]CommandInv` | - |
| | `AlwaysInTime` | `Spec => []PublishedInTime` | - |
| | `NoneRepublished` | `Spec => []NoRepublishOnceMarked` | - |
| | `OneCommand` | `Spec => []OneCommandPerKey` | `PurgeAfterExecution` |
| | `CommandsRefined` | `Spec => ImplementsRemoteCommands` | `PurgeAfterExecution` |
| | `AcceptedWasPublished` | `Spec => []AcceptedUnlessExpired` | - |
| | `ThrottledLeavesNoTrace` | `Spec => []RefusedLeavesNoTrace` | - |
| | `RefusingMarkerIsFound` | `Spec => []FindsItsMarker` | `WindowOutlastsExecution` |
| | `FailureHidesSuccess` | `Spec => []FailureMeansPublished` | `WindowOutlastsExecution` |
| | `CooldownKept` | `Spec => []CommandsSpacedOut` | `PurgeAfterExecution` |
| | `RequestsTerminate` | `Spec => [][OwnStepsRunOut]_vars` | - |
| `TelemetryIngestionProofs` | `TypeCorrect`, `IngestionInvariant` | `Spec => []TypeOK`, `[]IngestionInv` | - |
| | `AlwaysReserved` | `Spec => []DetailsReserved` | - |
| | `AlwaysAgreeing` | `Spec => []CountersAgree` | - |
| | `AlwaysNewest` | `Spec => []StateIsNewest` | - |
| | `AlwaysCovered` | `Spec => []ProjectionCoversResponses` | - |
| | `AlwaysPushed` | `Spec => []RingPushedOnceRecorded` | - |
| | `OutcomesStand` | `Spec => ToldOutcomeStands` | - |
| | `DeliveriesAccounted` | `Spec => []NothingVanishes` | - |
| | `AlwaysCounted` | `Spec => []CountersCover` | - |
| | `DeliveriesTerminate` | `Spec => [][RetriesRunOut]_vars` | - |
| `RingRecipientsProofs` | `TypeCorrect`, `RecipientsInvariant` | `Spec => []TypeOK`, `[]RecipientsInv` | - |
| | `AlwaysMembers` | `Spec => []OnlyMembersAreRung` | - |
| | `AlwaysOnce` | `Spec => []OncePerExecution` | - |
| | `AlwaysEveryone` | `Spec => []NobodyIsLeftOut` | - |
| | `AlwaysBounded` | `Spec => []FanOutIsBounded` | - |
| | `TruncationIsReal` | `Spec => [][CapsAreReal]_vars` | - |
| | `FanOutEnds` | `Spec => [][FanOutRunsOut]_vars` | - |
| `PreferenceUpdatesProofs` | `TypeCorrect`, `UpdatesInvariant` | `Spec => []TypeOK`, `[]UpdatesInv` | - |
| | `AlwaysContention` | `Spec => []ConflictIsContention` | - |
| | `AlwaysAsPreferred` | `Spec => []RingAsPreferred` | - |
| | `UpdatesRefine` | `Spec => ImplementsMemberPreferences` | - |
| | `PatchAgain` | `Combine(m, p) = m` for `m` a map the patch `p` was combined into | - |
| | `AcceptedIsServed` | `Spec => []StoredIsServed` | - |
| | `RequestsTerminate` | `Spec => [][RetriesRunOut]_vars` | - |
| `DevOperationsProofs` | `TypeCorrect`, `OperationsInvariant` | `Spec => []TypeOK`, `[]OperationsInv` | - |
| | `AlwaysContained` | `Spec => []UsableIsContained` | - |
| | `AlwaysOneOwner` | `Spec => []OneOwner` | - |
| | `AlwaysTrueAnswers` | `Spec => []AnswersAreTrue` | - |

Besides the named assumptions below, each proof uses its module's assumption
about the constants (naturals, `None` is no user, and the like), which TLC
evaluates in every run.

The assumptions are the numbers the code states: 20 s and twice the clocks'
disagreement is less than 30 s (`LeaseOutlivesExecution`); a ring's 30 or 60 s,
20 s and the disagreement are less than two hours (`RecordOutlivesRing`); 30 s
is at most the minute before the first retry (`RetryOutlivesLease`; Lambda does
not guarantee that minute, which is why it is an assumption). `OverBeforePurge`:
the three executions of an event, minutes apart, are over before the two hours
for which its record is kept (an invocation that Lambda's queue delays for hours
would break it: after a purge the attempts are counted from 1 again, and an
execution of before the purge could be taken for the one that completed).
`PurgeAfterExecution`: DynamoDB deletes an expired item no sooner than 10 s
after it has expired (it may take days, but documents no least time; without
it, a request that read its clock just before the end of the window can find
its marker deleted and create a second command a few seconds early).
`WindowOutlastsExecution` needs nothing of DynamoDB: twice the 10 s of an
execution are less than the day of a marker's window.

*One sender.* `SingleSender` is not inductive: a holder's claim time, the
lease in the record and the clock must be tied together. `SenderInv` says that
an execution began at most `Timeout` ago and read a clock at most `Skew` off
(`TimingInv`), that until a purge the record's lease is the lease of the one
holder (`HolderInv`), and that a purge happens only long after the ring is too
old to be delivered (`RecordInv`). A take-over reads a clock at or past the
lease, so the former holder's timeout has passed: it no longer runs.

*Repetition.* `RepeatInv` adds to it that an installation which has had the ring
once more than there were failures has it from the execution that still delivers,
or the event is completed: so the next execution to deliver finds it at most as
often served as there were failures.

*Nothing lost.* `LossInv` says who may still deliver: while there is no record
nobody has been turned away, and while the record is `PROCESSING` the
invocation that last claimed it is running, queued with a retry that starts
after the lease, or in the dead letter queue (`PendingInv`). It needs no
assumption about the timeout: an overtaken holder keeps its attempt number, and
`AttemptInv` says that only the last one matches the record. So the theorem also
covers the executions of `delivery_overrun`.

*Completed is final.* `FenceInv`: no attempt number is held twice, none is held
before it is in the record, and none equals the record's once it is `COMPLETED`,
so a late `complete()` or `abandon()` fails its condition. It needs no assumption
about the lease or about lost answers, only that attempts are not counted anew:
`BudgetInv` bounds the time at which an invocation can still be retried, hence the
clock, and with `OverBeforePurge` no record is purged before that.

*What a loss leaves behind.* `NoSilentLoss` allows for a purged record; two more
theorems say what is left then. `LossVisible` needs only that a record stays until
it is purged and that nobody is turned away without one (`AbsentInv`): so even if
the SDK hides an answer (finding `delivery_lost_answer`) a lost ring can be told
from the `PROCESSING` record. `NobodyEverForgotten` combines the invariants of
`NothingLost` and `FinalUntilPurged`: with nothing purged in time, an event whose
invocations are all over is completed or in the dead letter queue. `TimelyRings`
ties the age a ring is judged by to the execution that sends it (`TimelyInv`): the
age is read once, before the fan-out, so a ring may be as much older when FCM
accepts it as one execution lasts, and no more.

*Installations.* `Consistent` alone is not inductive either: a DELETE or a
removal must not delete another's claim. `RequestInv` says what a request that
is about to write has read. The conditions of each transaction then pin the
items it changes, and the bijection is restored by each commit. The refinement
maps the bijection to a set of registrations; each commit is one abstract
step, and a refused request one that changes nothing.

`ConflictsHaveRivals` explains the 409: what a request has just read satisfies
every condition of the transaction it prepares, and only a commit of another
request that writes one of the same items ends that (`PairFits` and `OwnFits` for
the reads; `ConditionsAreAboutKeys`: the conditions speak of no other item). A
transaction is therefore never refused for what the request itself has misread,
which no test could show for every interleaving.

*Commands.* `OneCommandPerKey` needs to know that whoever creates a command sees
the commands before it. `IntentInv` says that each command is covered by the
marker of its key and by the cooldown until its window is over, or was at least
`PurgeLag` ago; a request that has run for less than that has therefore read a
time past the window. `RequestInv` says what a request may answer with and
that its command was in time when it decided to publish.

The answers need three more invariants. `AnswerInv` follows a publication to the
answer: 202 without a publication is given only for an intent that was expired
when the request came, 429 only by a request that has created nothing. `RivalInv`
is about the second lookup of a request whose transaction the marker refused: that
marker was written while the request ran, for a window that outlasts it, so the
request finds it and `_transaction_failure` never ends in 500. A 500 may always
come from a dependency that fails in a way the handler does not name (`broken`)
and then says nothing; every other 500 comes from `MarkRefused` or the lost answer
to a mark and hides a command that was sent (`FailureHidesSuccess`, the general
form of what run `commands_retry` finds). With
a window no longer than an execution TLC finds `FindsItsMarker` violated, and
without a purge lag `CommandsSpacedOut`: the assumptions are needed.

*Ingestion.* The properties hold each other up in `IngestionInv`. `Fitting` says
that what a delivery does fits its message; `Pushing`, that a ring about to be
pushed is stored or counted as dropped and that a handled one was attempted;
`Paced`, that nothing happens for a delivery before it is given to Lambda and that
whoever waits has an execution left;
`Projected`, that whoever was told of an outcome was told what is projected, and
the condition of the projection never replaces a terminal status by `ACCEPTED`.

`AlwaysCounted` compares a counter with the set of the deliveries that have passed
their increment (`Tallied`): each step adds at most the delivery that counts, so
the counter is never behind, however often the SDK repeats an increment.

`AlwaysPushed` bounds `Undetailed`, the deliveries about to be pushed, or
attempted, whose message has no detail, by the drops of their hour (`DropsCover`):
only the increment of a drop brings a delivery there, and each counts one.

*Recipients.* `NobodyIsLeftOut` speaks of the end. `InstallationsRead` follows an
installation that has not changed through the stages (discovered, asked for,
read, rung: `OnItsWay`), `MembersRead` a member likewise, and `Apart` keeps the
stages disjoint, which is also why no installation is rung twice. `Witnessed`
ties each decision to something its member wanted since the execution began.

`AlwaysBounded` counts the installations that were discovered, asked for, read or
rung as one set, `Discovered`, which a step enlarges by one index entry at most and
never past the cap.

*Preferences.* `Disturbed` counts: each write of a request that was refused, or
will be, is matched by a change of the membership under it. `QuietIsWindow`
proves the comparison of `_quiet_active` equal to the reference for every length
of a day: no window reaches over a second midnight (`TwoDaysAtMost`), and the
day it may have opened on is today or yesterday (`DayBefore`). For the refinement
`AtomicInv` says that what a request is about to write is its patch combined with
the map it has read, stamped with a time since: the condition of the write makes
that map the stored one, so the write is one atomic patch, and a write repeated
by the SDK another one.

*Tools.* `ProvisioningRun` and the corresponding facts about cleaning up say what
is there with `n` calls left; between two runs the invariant is what an
interruption after any call leaves. For the registration it says what the run has
read of items that, once written, nobody makes another's.

*Termination.* Liveness is out of TLAPS's reach, but what makes it hold is not:
for each component that retries, `StepsLeft` bounds the steps an actor may still
take, and the action properties say that each step of the actor, a failure
included, lowers it and that no step of another actor raises it
(`OwnStepsRunOut`, `ConflictsRunOut`, `RetriesRunOut`, `FanOutRunsOut`). So no
interleaving makes the retries go on for ever, and the liveness the runs check
needs no more than that an execution that can take a step takes one. A write that
the SDK repeats unheard (`WriteUnheard`) is the one step that lowers nothing. An
execution of `PushDelivery` has no such measure: a purge between its conditional
writes sends it back to the first of them; what bounds it is the time (`BudgetInv`).

Only model-checked: all liveness properties (`RingEventuallyResolved`,
`EveryRequestAnswered`, `DeliverySettles`), since TLAPS does not reason about
`ENABLED`; the theorems on termination are the part of them it can prove. Every
other property of a passing run is a theorem. The theorems that name a definition
of a `*Proofs` module (all but those the runs check) were checked by TLC on the
runs' instances before they were proved.

## 5. Findings

1. `docs/fcm-notification-sender.md` (section 3, item 6) has every Firebase
   authentication failure go through `abandon()`. The failure to load the
   credential is raised while the FCM client is built
   (`push_sender/handler.py:229`), outside the part that is followed by
   `abandon()`: the lease stays. The next automatic retry comes after it is
   over, so nothing is lost; a second invocation in the meantime is turned away.
2. `idempotency.py` prefers a rare duplicate to a lost ring. If the
   answer to the conditional write of `claim()` is lost and the SDK repeats it,
   the claimant meets its own `PROCESSING` record, reports a duplicate, and the
   ring is delivered by nobody.
3. `docs/phase-2-architecture.md` promises the same result for the same key
   within the window. Two overlapping requests with one key both publish, and
   the one that marks the intent second is answered 500
   (`command_api/handler.py:552`), because a failed condition is not expected there.
4. `docs/phase-2d-runbook.md` says that 202 confirms a publication accepted by
   the SDK. A retry of a command that was created, not published, and has
   expired since is answered 202 and nothing is published.

Other places where a document says more than the code does. They have no run of
their own; the properties say what the code guarantees instead:

* `docs/data-model.md:263-264`: a message sent again that has a detail increments
  only `duplicate_count`. The key of a detail has the message's time, which for a
  response, and for an event the device has not stamped, is the time of receipt:
  published again in another second it is a new detail, counted and, for a ring,
  pushed again (`DetailKey`).
* `docs/phase-2d-runbook.md:44`: every `RESPONSE#` is preserved. Past the hour's
  limit a response is projected but has no detail (`DetailRefused`).
* `docs/phase-2-architecture.md:158-160`: `PENDING` means `ACCEPTED` without a
  terminal response. A terminal response that was received before an `ACCEPTED`
  and is processed after it does not replace it
  (`telemetry_ingestion/adapter.py:137-141`): the command stays `PENDING`,
  expired or not, for as long as that projection is kept (the last case of
  `ProjectionCoversResponses`).
* `docs/ring-call-lifecycle.md:37-38`: the time to live of a message is what is
  left of the ring's age. `push_sender/handler.py` reads the clock once, before
  the fan-out, so the last messages live as long as the first.
* `docs/phases.md:200` and `docs/phase-2-architecture.md:190-191`: a registration
  may be repeated. Once the owner has named the device or set preferences, the
  membership is no longer the one the tool wrote and the repetition is refused as
  a conflict (`register_dev_device.py:134-144`, `239-246`).

## 6. Not modelled

* `read_api`: authorised reads with an encrypted cursor. It writes nothing, and
  a page is one query whose only state is in the cursor the client holds.
* Authentication and the validation of bodies: they decide only that a request
  reads and writes nothing. Metrics and logs.
* FCM's local retries, the access token cache and the payload beyond mode and
  addressee: outcomes in `PushDelivery` and `RingRecipients`. The conversion to
  local time.
* The data classes of `domain/claims`, `devices` and `ownership`, whose state no
  operation of the repository changes yet; `mqtt_smoke`, a manual client.
* Two provisioning runs at once: `tools/dev_iot_device.py` takes no lock, and
  `DevDevice` has one run at a time.
* The CDK stacks beyond the timeouts, retries and TTL they set, which are
  constants of the models; `scripts` and `app.py`.

What the properties do not claim. `AnswersAreTrue` speaks of the Devices item; a
membership may have been revoked before the answer. `OnlyMembersAreRung` speaks of
the installation items that were read, not of whose token it is when FCM accepts
the message. `CountersAgree` and `AlwaysCounted` do not say that a message is
counted once: the increments are not idempotent, and an execution that is repeated
repeats them.

## 7. Plan

Done, in this order, each with its runs and proofs: `PushDelivery`,
`PushInstallations`, `CommandApi`, `TelemetryIngestion`, `RingRecipients`,
`PreferenceUpdates`, `DevOperations`; then the theorems beyond the runs'
properties: what a lost ring leaves, why a request is refused or fails, the caps,
the counters, and termination. Left:

1. One abstract fan-out that `RingRecipients` and an execution of `PushDelivery`
   both implement, so that a repetition is counted for the installations an
   execution really finds.
2. The classification of FCM's answers and the time to live of a message as
   operators against reference definitions.
3. Claims and ownership, once an operation of the repository changes them.
