----------------------------- MODULE CommandApi -----------------------------
(***************************************************************************)
(* POST /v1/devices/{device_id}/commands (lambdas/command_api/handler.py): *)
(* one user's requests for one device.  A request looks its idempotency    *)
(* key up, or creates an intent together with the marker of its key and a  *)
(* cooldown, in one transaction; then it publishes the command to the      *)
(* device and marks the intent PUBLISHED.  Every call is one action;       *)
(* between two calls other requests run and time passes.                   *)
(***************************************************************************)
EXTENDS Naturals

CONSTANTS
  Request,      \* the requests; each would name its command by a fresh command_id
  Key,          \* the values of Idempotency-Key
  NoKey,        \* no Idempotency-Key
  NoRequest,    \* no command
  Lifetime,     \* COMMAND_LIFETIME_SECONDS
  KeyWindow,    \* IDEMPOTENCY_SECONDS
  Cooldown,     \* COOLDOWN_SECONDS
  Timeout,      \* the Lambda timeout
  PurgeLag,     \* least time DynamoDB takes to delete an item after its TTL
  Horizon,      \* bound: requests arrive up to this time
  LostResponses \* may the answer to an applied update be lost and the SDK resend it?

ASSUME ConstantsAssumption ==
  /\ NoKey \notin Key /\ NoRequest \notin Request
  /\ NoRequest \notin [key : Key \cup {NoKey}, at : Nat]
  /\ Lifetime \in Nat \ {0} /\ KeyWindow \in Nat /\ Cooldown \in Nat
  /\ Timeout \in Nat /\ PurgeLag \in Nat /\ Horizon \in Nat
  /\ LostResponses \in BOOLEAN

VARIABLES
  clock,       \* real time in seconds; the handlers' clock() agrees with it
  intent,      \* the COMMAND items
  marker,      \* the IDEMPOTENCY items, and when each expires
  available,   \* available_at of the COOLDOWN item, 0 if there is none
  pc,          \* where each request is
  key,         \* its Idempotency-Key
  now,         \* int(clock()), read once
  refused,     \* the conditions its transaction has failed
  target,      \* the command it is about
  answer,      \* its HTTP status
  \* History, for the properties only:
  published,   \* the publications: which command, when
  marked,      \* when each command was marked PUBLISHED
  broken       \* the requests that met a failing dependency or were cut off

items   == <<intent, marker, available>>
history == <<published, marked, broken>>
locals  == <<key, now, refused, target>>
vars    == <<clock, items, pc, locals, answer, history>>

-----------------------------------------------------------------------------
Running == {"find", "read", "create", "publish", "mark"}
PcState == Running \cup {"new", "over"}
Answers == {"NONE", "202", "429", "500", "503"}
Intent  == [state : {"ABSENT", "PUBLISH_PENDING", "PUBLISHED"}, issued : Nat]
Marker  == [command : Request \cup {NoRequest}, expires : Nat]

NoIntent == [state |-> "ABSENT", issued |-> 0]
NoMarker == [command |-> NoRequest, expires |-> 0]

TypeOK ==
  /\ clock \in Nat
  /\ intent \in [Request -> Intent]
  /\ marker \in [Key -> Marker]
  /\ available \in Nat
  /\ pc \in [Request -> PcState]
  /\ key \in [Request -> Key \cup {NoKey}]
  /\ now \in [Request -> Nat]
  /\ refused \in [Request -> SUBSET {"marker", "cooldown"}]
  /\ target \in [Request -> Request \cup {NoRequest}]
  /\ \A r \in Request :
       /\ pc[r] = "find" => key[r] \in Key
       /\ pc[r] \in {"read", "publish", "mark"} => target[r] \in Request
  /\ answer \in [Request -> Answers]
  /\ published \subseteq [command : Request, at : Nat]
  /\ marked \in [Request -> Nat \cup {NoRequest}]
  /\ broken \subseteq Request

Init ==
  /\ clock = 0
  /\ intent = [r \in Request |-> NoIntent]
  /\ marker = [k \in Key |-> NoMarker]
  /\ available = 0
  /\ pc = [r \in Request |-> "new"]
  /\ key = [r \in Request |-> NoKey]
  /\ now = [r \in Request |-> 0]
  /\ refused = [r \in Request |-> {}]
  /\ target = [r \in Request |-> NoRequest]
  /\ answer = [r \in Request |-> "NONE"]
  /\ published = {}
  /\ marked = [r \in Request |-> NoRequest]
  /\ broken = {}

Goto(r, where) == pc' = [pc EXCEPT ![r] = where]

Reply(r, status) ==
  /\ Goto(r, "over")
  /\ answer' = [answer EXCEPT ![r] = status]

-----------------------------------------------------------------------------
\* A valid request of the owner, for a device that is ready, reads the clock.
\* One that is refused before has read and written nothing here.
Arrive(r) ==
  /\ pc[r] = "new"
  /\ clock <= Horizon
  /\ \E k \in Key \cup {NoKey} :
       /\ key' = [key EXCEPT ![r] = k]
       /\ Goto(r, IF k = NoKey THEN "create" ELSE "find")
  /\ now' = [now EXCEPT ![r] = clock]
  /\ UNCHANGED <<clock, items, refused, target, answer, history>>

(* _existing_idempotency: the marker, then the intent it names.            *)

MarkerInForce(k, t) == marker[k].command # NoRequest /\ t < marker[k].expires

FindMarker(r) ==
  /\ pc[r] = "find"
  /\ MarkerInForce(key[r], now[r])
  /\ target' = [target EXCEPT ![r] = marker[key[r]].command]
  /\ Goto(r, "read")
  /\ UNCHANGED <<clock, items, key, now, refused, answer, history>>

\* Without a marker the request creates its command; or, if a marker has just
\* refused its transaction and is gone since, fails (_transaction_failure).
FindNothing(r) ==
  /\ pc[r] = "find"
  /\ ~MarkerInForce(key[r], now[r])
  /\ \/ refused[r] = {} /\ Goto(r, "create") /\ UNCHANGED answer
     \/ "cooldown" \in refused[r] /\ Reply(r, "429")
     \/ refused[r] = {"marker"} /\ Reply(r, "500")
  /\ UNCHANGED <<clock, items, locals, history>>

\* _publish_pending publishes a pending intent that has not expired.  The
\* intent is there: it is kept 30 days, its marker one (IDEMPOTENCY_SECONDS).
IgnoreExpiry(c, t) == intent[c].state = "PUBLISH_PENDING"     \* mutant: expiry not looked at
IgnoreState(c, t) == t < intent[c].issued + Lifetime          \* mutant: publishes again
MayPublish(c, t) == intent[c].state = "PUBLISH_PENDING" /\ t < intent[c].issued + Lifetime

ReadIntent(r) ==
  /\ pc[r] = "read"
  /\ \/ MayPublish(target[r], now[r]) /\ Goto(r, "publish") /\ UNCHANGED answer
     \/ ~MayPublish(target[r], now[r]) /\ Reply(r, "202")
  /\ UNCHANGED <<clock, items, locals, history>>

(* _transaction and _transaction_failure.                                  *)

NoWindow(r) == {}              \* mutant: the marker is written unconditionally
UnlimitedRate(r) == {}         \* mutant: the cooldown is written unconditionally
MarkerRefuses(r) == IF key[r] \in Key /\ MarkerInForce(key[r], now[r]) THEN {"marker"} ELSE {}
CooldownRefuses(r) == IF now[r] < available THEN {"cooldown"} ELSE {}
Refusals(r) == MarkerRefuses(r) \cup CooldownRefuses(r)

PublicState(r) == [state |-> "PENDING", issued |-> now[r]]   \* mutant: the state the API shows
NewIntent(r) == [state |-> "PUBLISH_PENDING", issued |-> now[r]]

Create(r) ==
  /\ pc[r] = "create"
  /\ Refusals(r) = {}
  /\ intent' = [intent EXCEPT ![r] = NewIntent(r)]
  /\ marker' = [k \in Key |-> IF k = key[r] THEN [command |-> r, expires |-> now[r] + KeyWindow]
                              ELSE marker[k]]
  /\ available' = now[r] + Cooldown
  /\ target' = [target EXCEPT ![r] = r]
  /\ Goto(r, "publish")
  /\ UNCHANGED <<clock, key, now, refused, answer, history>>

CreateRefused(r) ==
  /\ pc[r] = "create"
  /\ Refusals(r) # {}
  /\ refused' = [refused EXCEPT ![r] = Refusals(r)]
  /\ \/ "marker" \in Refusals(r) /\ Goto(r, "find") /\ UNCHANGED answer
     \/ "marker" \notin Refusals(r) /\ Reply(r, "429")
  /\ UNCHANGED <<clock, items, key, now, target, history>>

(* _publish and _mark_published.                                           *)

Publication(r) == published' = published \cup {[command |-> target[r], at |-> clock]}

Publish(r) ==
  /\ pc[r] = "publish"
  /\ Publication(r)
  /\ Goto(r, "mark")
  /\ UNCHANGED <<clock, items, locals, answer, marked, broken>>

\* The errors a call names as temporary, and all of publish, are answered 503;
\* what it does not name leaves the handler and _run answers 500.
Break(r) ==
  /\ \E status \in {"500", "503"} : Reply(r, status)
  /\ broken' = broken \cup {r}

\* The publication is accepted, but the call fails or the execution ends.
PublishUncertain(r) ==
  /\ pc[r] = "publish"
  /\ Publication(r)
  /\ Break(r)
  /\ UNCHANGED <<clock, items, locals, marked>>

Mark(r) ==
  /\ pc[r] = "mark"
  /\ intent[target[r]].state = "PUBLISH_PENDING"
  /\ intent' = [intent EXCEPT ![target[r]].state = "PUBLISHED"]
  /\ marked' = [marked EXCEPT ![target[r]] = clock]
  /\ \/ Reply(r, "202")
     \/ LostResponses /\ \E status \in {"500", "503"} : Reply(r, status)
  /\ UNCHANGED <<clock, marker, available, locals, published, broken>>

\* Another request has marked the intent: the condition fails, and the error
\* leaves the handler.
MarkRefused(r) ==
  /\ pc[r] = "mark"
  /\ intent[target[r]].state # "PUBLISH_PENDING"
  /\ Reply(r, "500")
  /\ UNCHANGED <<clock, items, locals, history>>

\* A dependency is unavailable or refuses the call, the transaction meets another
\* one in progress, or the execution is cut off.
Unavailable(r) ==
  /\ pc[r] \in Running
  /\ Break(r)
  /\ UNCHANGED <<clock, items, locals, published, marked>>

-----------------------------------------------------------------------------
\* DynamoDB deletes expired items, some time after they have expired.
PurgeMarker(k) ==
  /\ marker[k].command # NoRequest
  /\ clock >= marker[k].expires + PurgeLag
  /\ marker' = [marker EXCEPT ![k] = NoMarker]
  /\ UNCHANGED <<clock, intent, available, pc, locals, answer, history>>

PurgeCooldown ==
  /\ available # 0
  /\ clock >= available + PurgeLag
  /\ available' = 0
  /\ UNCHANGED <<clock, intent, marker, pc, locals, answer, history>>

\* Time passes, but no execution outlives the Lambda timeout.
Tick ==
  /\ clock <= Horizon \/ \E r \in Request : pc[r] \in Running
  /\ \A r \in Request : pc[r] \in Running => clock < now[r] + Timeout
  /\ clock' = clock + 1
  /\ UNCHANGED <<items, pc, locals, answer, history>>

Handle(r) ==
  \/ FindMarker(r) \/ FindNothing(r) \/ ReadIntent(r)
  \/ Create(r) \/ CreateRefused(r)
  \/ Publish(r) \/ Mark(r) \/ MarkRefused(r)

Next ==
  \/ \E r \in Request : Arrive(r) \/ Handle(r) \/ PublishUncertain(r) \/ Unavailable(r)
  \/ \E k \in Key : PurgeMarker(k)
  \/ PurgeCooldown
  \/ Tick

Spec == Init /\ [][Next]_vars

-----------------------------------------------------------------------------
(* Properties.                                                             *)

\* All requests with the same key that are accepted within the idempotency
\* window are answered with the same command, whatever they race with
\* (phase-2-architecture.md: the same result for the same key).
OneCommandPerKey ==
  \A r, s \in Request :
    answer[r] = "202" /\ answer[s] = "202" /\ key[r] = key[s] /\ key[r] \in Key
      /\ target[r] # target[s]
      => \/ intent[target[r]].issued + KeyWindow <= intent[target[s]].issued
         \/ intent[target[s]].issued + KeyWindow <= intent[target[r]].issued

\* The device is never sent a command that has been expired for longer than
\* an execution lasts, although validity is judged by a clock read before
\* the transaction (_publish_pending).
PublishedInTime ==
  \A p \in published :
    intent[p.command].state # "ABSENT" /\ p.at < intent[p.command].issued + Lifetime + Timeout

\* A request that comes after the command was marked PUBLISHED does not
\* publish it again, though others that came before may still be about to
\* (phase-2-architecture.md: a retry of PUBLISHED does not republish).
NoRepublishOnceMarked ==
  \A r \in Request :
    pc[r] = "publish" => marked[target[r]] = NoRequest \/ now[r] <= marked[target[r]]

\* A request with a key whose every call was answered gets the command of the
\* key or is told to try again; it does not fail (phase-2-architecture.md: the
\* same key, user, device and body within the window return the same result).
RetryNeverFails ==
  \A r \in Request : answer[r] = "500" /\ r \notin broken => key[r] = NoKey

\* 202 means that the intent is stored and the SDK has accepted the
\* publication (phase-2d-runbook.md).
AcceptedMeansPublished ==
  \A r \in Request : answer[r] = "202" => \E p \in published : p.command = target[r]

-----------------------------------------------------------------------------
(* Why they hold: the invariant of the proofs.                             *)

Exists(c) == intent[c].state # "ABSENT"

\* r may answer with c: its own command, or one recent enough of its key.
MayAnswerWith(r, c) ==
  /\ c \in Request
  /\ Exists(c)
  /\ \/ c = r
     \/ key[r] \in Key /\ key[c] = key[r] /\ now[r] < intent[c].issued + KeyWindow

RequestInv ==
  \A r \in Request :
    /\ pc[r] # "new" => now[r] <= clock /\ now[r] <= Horizon
    /\ pc[r] \in Running => clock <= now[r] + Timeout
    /\ pc[r] \in {"new", "find", "create"} => ~Exists(r)
    /\ pc[r] # "over" => answer[r] = "NONE"
    /\ pc[r] \in {"read", "publish", "mark"} \/ answer[r] = "202" => MayAnswerWith(r, target[r])
    /\ pc[r] = "publish" => now[r] < intent[target[r]].issued + Lifetime

\* An existing intent was issued when its request read the clock, and the marker
\* of its key and the cooldown stay until they no longer matter.
IntentInv ==
  \A c \in Request :
    /\ marked[c] # NoRequest => intent[c].state = "PUBLISHED"
    /\ Exists(c) =>
         /\ intent[c].issued = now[c]
         /\ \/ intent[c].issued + Cooldown <= available
            \/ intent[c].issued + Cooldown + PurgeLag <= clock
         /\ key[c] \in Key =>
              \/ intent[c].issued + KeyWindow <= marker[key[c]].expires
              \/ intent[c].issued + KeyWindow + PurgeLag <= clock

MarkerInv ==
  \A k \in Key :
    IF marker[k].command = NoRequest THEN marker[k].expires = 0
    ELSE /\ Exists(marker[k].command)
         /\ key[marker[k].command] = k
         /\ marker[k].expires = intent[marker[k].command].issued + KeyWindow

\* The commands of one key are a window apart.
SpacingInv ==
  \A c, d \in Request :
    Exists(c) /\ Exists(d) /\ c # d /\ key[c] = key[d] /\ key[c] \in Key
      => \/ intent[c].issued + KeyWindow <= intent[d].issued
         \/ intent[d].issued + KeyWindow <= intent[c].issued

CommandInv == /\ TypeOK /\ RequestInv /\ IntentInv /\ MarkerInv
              /\ PublishedInTime /\ NoRepublishOnceMarked

\* Expired items stay at least as long as an execution lasts.
PurgeAfterExecution == Timeout <= PurgeLag

-----------------------------------------------------------------------------
\* The three kinds of items implement the abstract commands.
Asked ==
  [r \in Request |-> IF pc[r] = "new" THEN NoRequest ELSE [key |-> key[r], at |-> now[r]]]
Created ==
  {[id |-> c, key |-> key[c], issued |-> intent[c].issued] :
     c \in {r \in Request : intent[r].state # "ABSENT"}}
Sent     == {p.command : p \in published}
Accepted == [r \in Request |-> IF answer[r] = "202" THEN target[r] ELSE NoRequest]
Abstract == INSTANCE RemoteCommands
              WITH asked <- Asked, commands <- Created, sent <- Sent, reply <- Accepted,
                   Moment <- 0..Horizon
ImplementsRemoteCommands == Abstract!Spec
=============================================================================
