-------------------------- MODULE CommandApiProofs --------------------------
(***************************************************************************)
(* Proofs about CommandApi for every number of requests and keys and every *)
(* length of the times:                                                    *)
(*   TypeCorrect         the type invariant;                               *)
(*   CommandInvariant    the invariant the others follow from;             *)
(*   AlwaysInTime        no command reaches the device long expired;       *)
(*   NoneRepublished     nor again once it was marked;                     *)
(*   OneCommand          one command per idempotency key;                  *)
(*   CommandsRefined     the items implement RemoteCommands;               *)
(*   AcceptedWasPublished   what an ACCEPTED command has behind it;        *)
(*   ThrottledLeavesNoTrace  what a refused request writes;                *)
(*   RefusingMarkerIsFound  whoever lost the marker finds it;              *)
(*   FailureHidesSuccess   what an undisturbed request's failure hides;    *)
(*   CooldownKept        the commands to a device keep their distance;     *)
(*   RequestsTerminate   every step of a request brings its end nearer.    *)
(***************************************************************************)
EXTENDS CommandApi, TLAPS

USE ConstantsAssumption

-----------------------------------------------------------------------------
(* Type correctness.                                                       *)

LEMMA InitTypeOK == Init => TypeOK
BY DEF Init, TypeOK, PcState, Running, Answers, Intent, Marker, NoIntent, NoMarker

LEMMA HandleTypeOK == ASSUME TypeOK, NEW r \in Request, Handle(r) PROVE TypeOK'
<1> USE DEF PcState, Running, Answers, Goto, Reply
<1>1. CASE FindMarker(r)
  <2>1. target'[r] \in Request
    BY <1>1 DEF FindMarker, MarkerInForce, TypeOK, Marker
  <2>2. QED
    BY <1>1, <2>1 DEF FindMarker, TypeOK, items, history
<1>2. CASE FindNothing(r)
  BY <1>2 DEF FindNothing, TypeOK, items, locals, history
<1>3. CASE ReadIntent(r)
  BY <1>3 DEF ReadIntent, TypeOK, items, locals, history
<1>4. CASE Create(r)
  <2>1. intent' \in [Request -> Intent]
    BY <1>4 DEF Create, NewIntent, TypeOK, Intent
  <2>2. marker' \in [Key -> Marker]
    BY <1>4 DEF Create, TypeOK, Marker
  <2>3. QED
    BY <1>4, <2>1, <2>2 DEF Create, TypeOK, history
<1>5. CASE CreateRefused(r)
  BY <1>5 DEF CreateRefused, Refusals, MarkerRefuses, CooldownRefuses, TypeOK, items, history
<1>6. CASE Publish(r)
  <2>1. published' \subseteq [command : Request, at : Nat]
    BY <1>6 DEF Publish, Publication, TypeOK
  <2>2. QED
    BY <1>6, <2>1 DEF Publish, TypeOK, items, locals
<1>7. CASE Mark(r)
  <2>1. intent' \in [Request -> Intent]
    BY <1>7 DEF Mark, TypeOK, Intent
  <2>2. QED
    BY <1>7, <2>1 DEF Mark, TypeOK, locals
<1>8. CASE MarkRefused(r)
  BY <1>8 DEF MarkRefused, TypeOK, items, locals, history
<1>9. QED
  BY <1>1, <1>2, <1>3, <1>4, <1>5, <1>6, <1>7, <1>8 DEF Handle

LEMMA NextTypeOK == TypeOK /\ [Next]_vars => TypeOK'
<1> SUFFICES ASSUME TypeOK, [Next]_vars PROVE TypeOK'
  OBVIOUS
<1> USE DEF PcState, Running, Answers, Goto, Reply
<1>1. ASSUME NEW r \in Request, Arrive(r) PROVE TypeOK'
  BY <1>1 DEF Arrive, TypeOK, items, history
<1>2. ASSUME NEW r \in Request, PublishUncertain(r) PROVE TypeOK'
  <2>1. published' \subseteq [command : Request, at : Nat]
    BY <1>2 DEF PublishUncertain, Publication, TypeOK
  <2>2. QED
    BY <1>2, <2>1 DEF PublishUncertain, Break, TypeOK, items, locals
<1>3. ASSUME NEW r \in Request, Unavailable(r) PROVE TypeOK'
  BY <1>3 DEF Unavailable, Break, TypeOK, items, locals, history
<1>4. ASSUME NEW k \in Key, PurgeMarker(k) PROVE TypeOK'
  BY <1>4 DEF PurgeMarker, NoMarker, Marker, TypeOK, locals, history
<1>5. CASE PurgeCooldown
  BY <1>5 DEF PurgeCooldown, TypeOK, locals, history
<1>6. CASE Tick
  BY <1>6 DEF Tick, TypeOK, items, locals, history
<1>7. CASE UNCHANGED vars
  BY <1>7 DEF vars, items, locals, history, TypeOK
<1>8. QED
  BY <1>1, <1>2, <1>3, <1>4, <1>5, <1>6, <1>7, HandleTypeOK DEF Next

\* The items, the requests' variables and the history keep their types.
THEOREM TypeCorrect == Spec => []TypeOK
BY InitTypeOK, NextTypeOK, PTL DEF Spec

-----------------------------------------------------------------------------
(* The invariant.  What a request may answer with stays so as long as      *)
(* commands, once created, and their requests' keys do not change.         *)

LEMMA InitCommandInv == Init => CommandInv
BY InitTypeOK DEF Init, CommandInv, RequestInv, IntentInv, MarkerInv, PublishedInTime,
   NoRepublishOnceMarked, Exists, Running, NoIntent, NoMarker

LEMMA CreateRequestInv ==
  ASSUME TypeOK, RequestInv, IntentInv, NEW r \in Request, Create(r)
  PROVE  RequestInv'
<1>1. /\ ~Exists(r) /\ Exists(r)' /\ intent'[r].issued = now[r]
      /\ \A c \in Request \ {r} : intent'[c] = intent[c]
  BY DEF Create, NewIntent, RequestInv, Exists, TypeOK
<1>2. \A s \in Request \ {r} : \A c : MayAnswerWith(s, c) => MayAnswerWith(s, c)' /\ c \in Request \ {r}
  BY <1>1 DEF MayAnswerWith, Create, Exists
<1>3. MayAnswerWith(r, r)'
  BY <1>1 DEF MayAnswerWith, Create, TypeOK
<1>4. \A s \in Request \ {r} : pc'[s] = pc[s] /\ target'[s] = target[s]
  BY DEF Create, Goto, TypeOK
<1>5. pc'[r] = "publish" /\ target'[r] = r /\ pc[r] = "create"
  BY DEF Create, Goto, TypeOK
<1>6. now[r] \in Nat /\ now[r] < now[r] + Lifetime
  BY DEF TypeOK
<1>7. UNCHANGED <<clock, now, key, answer>>
  BY DEF Create
<1>8. ASSUME NEW s \in Request \ {r}
      PROVE  \A c : MayAnswerWith(s, c) => MayAnswerWith(s, c)' /\ intent'[c] = intent[c]
  BY <1>1, <1>2
<1>9. ASSUME NEW s \in Request \ {r} PROVE Exists(s)' <=> Exists(s)
  BY <1>1 DEF Exists
<1>10. QED
  BY <1>1, <1>3, <1>4, <1>5, <1>6, <1>7, <1>8, <1>9 DEF RequestInv, Running

LEMMA HandleRequestInv ==
  ASSUME TypeOK, RequestInv, IntentInv, MarkerInv, NEW r \in Request, Handle(r)
  PROVE  RequestInv'
<1> USE DEF Running, Goto, Reply
<1>1. CASE FindMarker(r)
  <2>1. MayAnswerWith(r, marker[key[r]].command)
    BY <1>1 DEF FindMarker, MarkerInForce, MayAnswerWith, MarkerInv, TypeOK, Marker
  <2>2. QED
    BY <1>1, <2>1 DEF FindMarker, RequestInv, MayAnswerWith, Exists, TypeOK, items, history
<1>2. CASE FindNothing(r)
  BY <1>2 DEF FindNothing, RequestInv, MayAnswerWith, Exists, TypeOK, items, locals, history
<1>3. CASE ReadIntent(r)
  BY <1>3 DEF ReadIntent, MayPublish, RequestInv, MayAnswerWith, Exists, TypeOK, items, locals, history
<1>4. CASE Create(r)
  BY <1>4, CreateRequestInv
<1>5. CASE CreateRefused(r)
  BY <1>5 DEF CreateRefused, RequestInv, MayAnswerWith, Exists, TypeOK, items, history
<1>6. CASE Publish(r)
  BY <1>6 DEF Publish, RequestInv, MayAnswerWith, Exists, TypeOK, items, locals
<1>7. CASE Mark(r)
  <2>1. \A c \in Request : (Exists(c)' <=> Exists(c)) /\ intent'[c].issued = intent[c].issued
    BY <1>7 DEF Mark, Exists, TypeOK, Intent
  <2>2. \A s \in Request : MayAnswerWith(s, target[s])
                             => MayAnswerWith(s, target[s])' /\ target[s] \in Request
    BY <1>7, <2>1 DEF Mark, MayAnswerWith, locals
  <2>3. QED
    BY <1>7, <2>1, <2>2 DEF Mark, RequestInv, TypeOK, locals
<1>8. CASE MarkRefused(r)
  BY <1>8 DEF MarkRefused, RequestInv, MayAnswerWith, Exists, TypeOK, items, locals, history
<1>9. QED
  BY <1>1, <1>2, <1>3, <1>4, <1>5, <1>6, <1>7, <1>8 DEF Handle

LEMMA NextRequestInv ==
  ASSUME TypeOK, RequestInv, IntentInv, MarkerInv, [Next]_vars
  PROVE  RequestInv'
<1> USE DEF Running, Goto, Reply
<1>1. ASSUME NEW r \in Request, Arrive(r) PROVE RequestInv'
  <2>1. \A s \in Request \ {r} : \A c : MayAnswerWith(s, c) => MayAnswerWith(s, c)'
    BY <1>1 DEF Arrive, RequestInv, MayAnswerWith, Exists, TypeOK, items
  <2>2. QED
    BY <1>1, <2>1 DEF Arrive, RequestInv, Exists, TypeOK, items, history
<1>2. ASSUME NEW r \in Request, PublishUncertain(r) \/ Unavailable(r) PROVE RequestInv'
  BY <1>2 DEF PublishUncertain, Unavailable, Break, RequestInv, MayAnswerWith, Exists, TypeOK, items,
     locals, history
<1>3. ASSUME UNCHANGED <<intent, pc, locals, answer>>, clock' = clock PROVE RequestInv'
  BY <1>3 DEF RequestInv, MayAnswerWith, Exists, locals
<1>4. CASE Tick
  BY <1>4 DEF Tick, RequestInv, MayAnswerWith, Exists, TypeOK, items, locals
<1>5. QED
  BY <1>1, <1>2, <1>3, <1>4, HandleRequestInv DEF Next, PurgeMarker, PurgeCooldown, vars, items

\* Whatever writes no item leaves the items' invariants alone: an existing
\* command's request keeps its key and its time.
LEMMA QuietIntentInv ==
  ASSUME TypeOK, RequestInv, IntentInv, MarkerInv, clock' = clock, UNCHANGED <<items, marked>>,
         \A c \in Request : Exists(c) => key'[c] = key[c] /\ now'[c] = now[c]
  PROVE  IntentInv' /\ MarkerInv'
BY DEF IntentInv, MarkerInv, Exists, items, TypeOK, Marker

LEMMA Unrefused ==
  ASSUME TypeOK, NEW r \in Request, Refusals(r) = {}
  PROVE  ~(now[r] < available) /\ (key[r] \in Key => ~MarkerInForce(key[r], now[r]))
<1>1. "cooldown" \notin CooldownRefuses(r) /\ "marker" \notin MarkerRefuses(r)
  BY DEF Refusals
<1>2. QED
  BY <1>1 DEF CooldownRefuses, MarkerRefuses

LEMMA CreateIntentInv ==
  ASSUME TypeOK, RequestInv, IntentInv, MarkerInv, NEW r \in Request, Create(r)
  PROVE  IntentInv' /\ MarkerInv'
<1>1. /\ ~Exists(r) /\ Exists(r)' /\ intent'[r] = [state |-> "PUBLISH_PENDING", issued |-> now[r]]
      /\ \A c \in Request \ {r} : intent'[c] = intent[c]
      /\ UNCHANGED <<clock, key, now, marked>>
  BY DEF Create, NewIntent, RequestInv, Exists, TypeOK, history
<1>2. \A c \in Request \ {r} : Exists(c)' <=> Exists(c)
  BY <1>1 DEF Exists
<1>3. available <= now[r] /\ available' = now[r] + Cooldown /\ available \in Nat /\ now[r] \in Nat
  BY Unrefused DEF Create, TypeOK
<1>4. \A k \in Key \ {key[r]} : marker'[k] = marker[k]
  BY DEF Create, TypeOK
<1>5. key[r] \in Key => /\ marker'[key[r]] = [command |-> r, expires |-> now[r] + KeyWindow]
                        /\ marker[key[r]].expires <= now[r]
                        /\ marker[key[r]].expires \in Nat
  BY <1>3, Unrefused DEF Create, MarkerInForce, MarkerInv, TypeOK, Marker
<1>6. marked[r] = NoRequest
  BY <1>1 DEF IntentInv, Exists
<1>7. MarkerInv'
  <2>1. ASSUME NEW k \in Key, k = key[r] PROVE MarkerInv!(k)'
    BY <1>1, <1>5, <2>1
  <2>2. ASSUME NEW k \in Key, k # key[r] PROVE MarkerInv!(k)'
    <3>1. marker[k].command # NoRequest => marker[k].command \in Request \ {r}
      BY <1>1, <2>2 DEF MarkerInv, TypeOK, Marker
    <3>2. QED
      BY <1>1, <1>2, <1>4, <2>2, <3>1 DEF MarkerInv
  <2>3. QED
    BY <2>1, <2>2 DEF MarkerInv
<1>8. IntentInv'
  <2>1. IntentInv!(r)'
    BY <1>1, <1>3, <1>5, <1>6
  <2>2. ASSUME NEW c \in Request \ {r} PROVE IntentInv!(c)'
    <3>1. intent[c].issued \in Nat
      BY DEF TypeOK, Intent
    <3>2. Exists(c) /\ key[c] \in Key /\ key[c] # key[r] =>
            \/ intent[c].issued + KeyWindow <= marker'[key[c]].expires
            \/ intent[c].issued + KeyWindow + PurgeLag <= clock
      BY <1>4 DEF IntentInv
    <3>3. Exists(c) /\ key[c] \in Key /\ key[c] = key[r] =>
            \/ intent[c].issued + KeyWindow <= marker'[key[c]].expires
            \/ intent[c].issued + KeyWindow + PurgeLag <= clock
      BY <1>3, <1>5, <3>1 DEF IntentInv
    <3>4. Exists(c) => \/ intent[c].issued + Cooldown <= available'
                       \/ intent[c].issued + Cooldown + PurgeLag <= clock
      BY <1>3, <3>1 DEF IntentInv
    <3>5. QED
      BY <1>1, <1>2, <3>2, <3>3, <3>4 DEF IntentInv
  <2>3. QED
    BY <2>1, <2>2 DEF IntentInv
<1>9. QED
  BY <1>7, <1>8

LEMMA NextIntentInv ==
  ASSUME TypeOK, RequestInv, IntentInv, MarkerInv, [Next]_vars
  PROVE  IntentInv' /\ MarkerInv'
<1>1. ASSUME NEW r \in Request, Create(r) PROVE IntentInv' /\ MarkerInv'
  BY <1>1, CreateIntentInv
<1>2. ASSUME NEW r \in Request, Mark(r) PROVE IntentInv' /\ MarkerInv'
  <2>1. \A c \in Request : (Exists(c)' <=> Exists(c)) /\ intent'[c].issued = intent[c].issued
    BY <1>2 DEF Mark, Exists, TypeOK, Intent
  <2>2. \A c \in Request : marked'[c] # NoRequest => intent'[c].state = "PUBLISHED"
    BY <1>2 DEF Mark, IntentInv, TypeOK, Intent
  <2>3. IntentInv'
    BY <1>2, <2>1, <2>2 DEF Mark, IntentInv, locals
  <2>4. MarkerInv'
    BY <1>2, <2>1 DEF Mark, MarkerInv, TypeOK, Marker, locals
  <2>5. QED
    BY <2>3, <2>4
<1>3. ASSUME NEW r \in Request, Arrive(r) PROVE IntentInv' /\ MarkerInv'
  BY <1>3, QuietIntentInv DEF Arrive, RequestInv, TypeOK, history
<1>4. ASSUME NEW k \in Key, PurgeMarker(k) PROVE IntentInv' /\ MarkerInv'
  <2>1. MarkerInv'
    BY <1>4 DEF PurgeMarker, NoMarker, MarkerInv, Exists, TypeOK, locals
  <2>2. \A c \in Request : intent[c].issued \in Nat
    BY DEF TypeOK, Intent
  <2>3. marker[k].expires \in Nat
    BY DEF TypeOK, Marker
  <2>4. IntentInv'
    BY <1>4, <2>2, <2>3 DEF PurgeMarker, NoMarker, IntentInv, Exists, TypeOK, locals, history
  <2>5. QED
    BY <2>1, <2>4
<1>5. CASE PurgeCooldown
  <2>1. \A c \in Request : intent[c].issued \in Nat
    BY DEF TypeOK, Intent
  <2>2. IntentInv'
    BY <1>5, <2>1 DEF PurgeCooldown, IntentInv, Exists, TypeOK, locals, history
  <2>3. QED
    BY <1>5, <2>2 DEF PurgeCooldown, MarkerInv, Exists, locals
<1>6. CASE Tick
  <2>1. \A c \in Request : intent[c].issued \in Nat
    BY DEF TypeOK, Intent
  <2>2. IntentInv'
    BY <1>6, <2>1 DEF Tick, IntentInv, Exists, TypeOK, items, locals, history
  <2>3. QED
    BY <1>6, <2>2 DEF Tick, MarkerInv, Exists, items, locals
<1>7. ASSUME NEW r \in Request, FindMarker(r) \/ FindNothing(r) \/ ReadIntent(r) \/ CreateRefused(r)
                                \/ Publish(r) \/ MarkRefused(r)
                                \/ PublishUncertain(r) \/ Unavailable(r)
      PROVE  IntentInv' /\ MarkerInv'
  BY <1>7, QuietIntentInv DEF FindMarker, FindNothing, ReadIntent, CreateRefused, Publish,
     MarkRefused, PublishUncertain, Unavailable, Break, locals, history
<1>8. CASE UNCHANGED vars
  BY <1>8, QuietIntentInv DEF vars, locals, history
<1>9. QED
  BY <1>1, <1>2, <1>3, <1>4, <1>5, <1>6, <1>7, <1>8 DEF Next, Handle

\* A command, once created, keeps the time it was issued.
LEMMA IntentStays ==
  ASSUME TypeOK, RequestInv, [Next]_vars, NEW c \in Request, Exists(c)
  PROVE  Exists(c)' /\ intent'[c].issued = intent[c].issued
<1>1. ASSUME NEW r \in Request, Create(r) PROVE Exists(c)' /\ intent'[c].issued = intent[c].issued
  BY <1>1 DEF Create, RequestInv, Exists, TypeOK
<1>2. ASSUME NEW r \in Request, Mark(r) PROVE Exists(c)' /\ intent'[c].issued = intent[c].issued
  BY <1>2 DEF Mark, Exists, TypeOK, Intent
<1>3. UNCHANGED intent => Exists(c)' /\ intent'[c].issued = intent[c].issued
  BY DEF Exists
<1>4. QED
  BY <1>1, <1>2, <1>3 DEF Next, Handle, Arrive, FindMarker, FindNothing, ReadIntent, CreateRefused,
     Publish, MarkRefused, PublishUncertain, Unavailable, Break, PurgeMarker, PurgeCooldown, Tick, vars, items

LEMMA NextPublishedInTime ==
  ASSUME TypeOK, RequestInv, PublishedInTime, [Next]_vars
  PROVE  PublishedInTime'
<1>1. ASSUME NEW p \in published
      PROVE  intent'[p.command].state # "ABSENT" /\ p.at < intent'[p.command].issued + Lifetime + Timeout
  BY IntentStays DEF PublishedInTime, TypeOK, Exists
<1>2. ASSUME NEW r \in Request, Publish(r) \/ PublishUncertain(r) PROVE PublishedInTime'
  <2>1. pc[r] = "publish" /\ target[r] \in Request /\ Exists(target[r])
        /\ now[r] < intent[target[r]].issued + Lifetime /\ clock <= now[r] + Timeout
    BY <1>2 DEF Publish, PublishUncertain, RequestInv, MayAnswerWith, Running
  <2>2. intent[target[r]].issued \in Nat /\ now[r] \in Nat /\ clock \in Nat
    BY <2>1 DEF TypeOK, Intent
  <2>3. clock < intent[target[r]].issued + Lifetime + Timeout
    BY <2>1, <2>2
  <2>4. published' = published \cup {[command |-> target[r], at |-> clock]} /\ intent' = intent
    BY <1>2 DEF Publish, PublishUncertain, Publication, items
  <2>5. QED
    BY <1>1, <2>1, <2>3, <2>4 DEF PublishedInTime, Exists
<1>3. CASE UNCHANGED published
  BY <1>1, <1>3 DEF PublishedInTime
<1>4. QED
  BY <1>2, <1>3 DEF Next, Handle, Arrive, FindMarker, FindNothing, ReadIntent, Create, CreateRefused,
     Mark, MarkRefused, Unavailable, Break, PurgeMarker, PurgeCooldown, Tick, vars, history

LEMMA NextNoRepublish ==
  ASSUME TypeOK, RequestInv, IntentInv, NoRepublishOnceMarked, [Next]_vars
  PROVE  NoRepublishOnceMarked'
<1>1. ASSUME NEW r \in Request, Create(r) PROVE NoRepublishOnceMarked'
  <2>1. marked[r] = NoRequest
    BY <1>1 DEF Create, RequestInv, IntentInv, Exists
  <2>2. QED
    BY <1>1, <2>1 DEF Create, Goto, NoRepublishOnceMarked, TypeOK, history
<1>2. ASSUME NEW r \in Request, ReadIntent(r) PROVE NoRepublishOnceMarked'
  <2>1. MayPublish(target[r], now[r]) => marked[target[r]] = NoRequest
    BY <1>2 DEF ReadIntent, MayPublish, IntentInv, TypeOK
  <2>2. QED
    BY <1>2, <2>1 DEF ReadIntent, Goto, Reply, NoRepublishOnceMarked, TypeOK, locals, history
<1>3. ASSUME NEW r \in Request, Mark(r) PROVE NoRepublishOnceMarked'
  <2>1. ASSUME NEW s \in Request, pc'[s] = "publish" PROVE pc[s] = "publish" /\ now[s] <= clock
    BY <1>3, <2>1 DEF Mark, Reply, Goto, RequestInv, TypeOK
  <2>2. target[r] \in Request /\ \A c \in Request \ {target[r]} : marked'[c] = marked[c]
    BY <1>3 DEF Mark, TypeOK
  <2>3. marked'[target[r]] = clock
    BY <1>3, <2>2 DEF Mark, TypeOK
  <2>4. \A s \in Request : pc[s] = "publish" => target[s] \in Request
    BY DEF TypeOK
  <2>5. target' = target /\ now' = now
    BY <1>3 DEF Mark, locals
  <2>6. QED
    BY <2>1, <2>2, <2>3, <2>4, <2>5 DEF NoRepublishOnceMarked
<1>4. ASSUME NEW r \in Request, Arrive(r) \/ FindMarker(r) \/ FindNothing(r) \/ CreateRefused(r)
                                \/ Publish(r) \/ MarkRefused(r)
                                \/ PublishUncertain(r) \/ Unavailable(r)
      PROVE  NoRepublishOnceMarked'
  BY <1>4 DEF Arrive, FindMarker, FindNothing, CreateRefused, Publish, MarkRefused, PublishUncertain,
     Unavailable, Break, Goto, Reply, NoRepublishOnceMarked, TypeOK, locals, history
<1>5. CASE UNCHANGED <<pc, locals, history>>
  BY <1>5 DEF NoRepublishOnceMarked, locals, history
<1>6. QED
  BY <1>1, <1>2, <1>3, <1>4, <1>5 DEF Next, Handle, PurgeMarker, PurgeCooldown, Tick, vars

\* What requests, items and publications know of each other.
THEOREM CommandInvariant == Spec => []CommandInv
<1>1. CommandInv /\ [Next]_vars => CommandInv'
  BY NextTypeOK, NextRequestInv, NextIntentInv, NextPublishedInTime, NextNoRepublish DEF CommandInv
<1>2. QED
  BY InitCommandInv, <1>1, PTL DEF Spec

\* However late a request publishes, the command has not been expired for
\* longer than an execution lasts; and it exists.
THEOREM AlwaysInTime == Spec => []PublishedInTime
BY CommandInvariant, PTL DEF CommandInv

\* A request that comes after the mark does not publish again.
THEOREM NoneRepublished == Spec => []NoRepublishOnceMarked
BY CommandInvariant, PTL DEF CommandInv

-----------------------------------------------------------------------------
(* One command per key.                                                    *)

\* A command comes only when those before it are out of its way.
LEMMA CreatedApart ==
  ASSUME PurgeAfterExecution, TypeOK, RequestInv, IntentInv, MarkerInv,
         NEW r \in Request, Create(r), NEW c \in Request, Exists(c)
  PROVE  /\ intent[c].issued + Cooldown <= now[r]
         /\ key[r] \in Key /\ key[c] = key[r] => intent[c].issued + KeyWindow <= now[r]
<1>1. intent[c].issued \in Nat /\ now[r] \in Nat /\ clock \in Nat /\ available \in Nat
  BY DEF TypeOK, Intent
<1>2. clock <= now[r] + Timeout
  BY DEF Create, RequestInv, Running
<1>3. available <= now[r]
  BY <1>1, Unrefused DEF Create
<1>4. intent[c].issued + Cooldown <= now[r]
  BY <1>1, <1>2, <1>3 DEF IntentInv, PurgeAfterExecution
<1>5. ASSUME key[r] \in Key, key[c] = key[r] PROVE intent[c].issued + KeyWindow <= now[r]
  <2>1. marker[key[r]].expires \in Nat /\ ~MarkerInForce(key[r], now[r])
    BY <1>5, Unrefused DEF Create, TypeOK, Marker
  <2>2. CASE marker[key[r]].command = NoRequest
    <3>1. marker[key[c]].expires = 0
      BY <1>5, <2>2 DEF MarkerInv
    <3>2. intent[c].issued + KeyWindow <= 0 \/ intent[c].issued + KeyWindow + PurgeLag <= clock
      BY <1>5, <3>1 DEF IntentInv
    <3>3. QED
      BY <1>1, <1>2, <3>2 DEF PurgeAfterExecution
  <2>3. CASE marker[key[r]].expires <= now[r]
    BY <1>1, <1>2, <1>5, <2>1, <2>3 DEF IntentInv, PurgeAfterExecution
  <2>4. QED
    BY <1>1, <2>1, <2>2, <2>3 DEF MarkerInForce
<1>6. QED
  BY <1>4, <1>5

\* Only Create and Arrive give a request an intent or a key, and Arrive comes first.
LEMMA CommandsStay ==
  ASSUME TypeOK, RequestInv, [Next]_vars, \A r \in Request : ~Create(r), NEW c \in Request
  PROVE  /\ Exists(c)' <=> Exists(c)
         /\ Exists(c) => intent'[c].issued = intent[c].issued /\ key'[c] = key[c]
<1>1. ASSUME NEW r \in Request, Mark(r)
      PROVE  /\ Exists(c)' <=> Exists(c)
             /\ Exists(c) => intent'[c].issued = intent[c].issued /\ key'[c] = key[c]
  BY <1>1 DEF Mark, Exists, TypeOK, Intent, locals
<1>2. ASSUME NEW r \in Request, Arrive(r) PROVE intent' = intent /\ (Exists(c) => key'[c] = key[c])
  BY <1>2 DEF Arrive, RequestInv, TypeOK, items
<1>3. UNCHANGED intent /\ (Exists(c) => key'[c] = key[c]) =>
        /\ Exists(c)' <=> Exists(c)
        /\ Exists(c) => intent'[c].issued = intent[c].issued /\ key'[c] = key[c]
  BY DEF Exists
<1>4. QED
  BY <1>1, <1>2, <1>3 DEF Next, Handle, FindMarker, FindNothing, ReadIntent, CreateRefused, Publish,
     MarkRefused, PublishUncertain, Unavailable, Break, PurgeMarker, PurgeCooldown, Tick, vars, items, locals

LEMMA CreateAdds ==
  ASSUME TypeOK, RequestInv, NEW r \in Request, Create(r)
  PROVE  /\ ~Exists(r) /\ Exists(r)' /\ intent'[r].issued = now[r] /\ key' = key
         /\ \A c \in Request \ {r} : (Exists(c)' <=> Exists(c)) /\ intent'[c] = intent[c]
BY DEF Create, NewIntent, RequestInv, Exists, TypeOK

LEMMA NextSpacingInv ==
  ASSUME PurgeAfterExecution, CommandInv, SpacingInv, [Next]_vars
  PROVE  SpacingInv'
<1>1. ASSUME NEW r \in Request, Create(r) PROVE SpacingInv'
  <2>1. \A c \in Request : Exists(c) /\ key[r] \in Key /\ key[c] = key[r]
                            => intent[c].issued + KeyWindow <= now[r]
    BY <1>1, CreatedApart DEF CommandInv
  <2>2. QED
    BY <1>1, <2>1, CreateAdds DEF SpacingInv, CommandInv
<1>2. CASE \A r \in Request : ~Create(r)
  BY <1>2, CommandsStay DEF SpacingInv, CommandInv
<1>3. QED
  BY <1>1, <1>2

\* Two commands of one key are a window apart.
THEOREM CommandsApart == ASSUME PurgeAfterExecution PROVE Spec => []SpacingInv
<1>1. Init => SpacingInv
  BY DEF Init, SpacingInv, Exists, NoIntent
<1>2. CommandInv /\ SpacingInv /\ [Next]_vars => SpacingInv'
  BY NextSpacingInv
<1>3. QED
  BY <1>1, <1>2, CommandInvariant, PTL DEF Spec

\* Requests with one key that are answered with different commands are a
\* window apart.
THEOREM OneCommand == ASSUME PurgeAfterExecution PROVE Spec => []OneCommandPerKey
<1>1. CommandInv /\ SpacingInv => OneCommandPerKey
  <2> SUFFICES ASSUME CommandInv, SpacingInv, NEW r \in Request, NEW s \in Request,
                      answer[r] = "202", answer[s] = "202", key[r] = key[s], key[r] \in Key,
                      target[r] # target[s]
               PROVE  \/ intent[target[r]].issued + KeyWindow <= intent[target[s]].issued
                      \/ intent[target[s]].issued + KeyWindow <= intent[target[r]].issued
    BY DEF OneCommandPerKey
  <2>1. MayAnswerWith(r, target[r]) /\ MayAnswerWith(s, target[s])
    BY DEF CommandInv, RequestInv
  <2>2. QED
    BY <2>1 DEF MayAnswerWith, SpacingInv
<1>2. QED
  BY <1>1, CommandInvariant, CommandsApart, PTL

-----------------------------------------------------------------------------
(* The items implement the abstract commands.                              *)

LEMMA CreatedAre ==
  \A x : x \in Created <=>
    \E c \in Request : Exists(c) /\ x = [id |-> c, key |-> key[c], issued |-> intent[c].issued]
BY DEF Created, Exists

LEMMA CreatedAreNext ==
  \A x : x \in Created' <=>
    \E c \in Request : Exists(c)' /\ x = [id |-> c, key |-> key'[c], issued |-> intent'[c].issued]
BY DEF Created, Exists

LEMMA AskedStays ==
  ASSUME \A r \in Request :
           /\ pc'[r] = "new" <=> pc[r] = "new"
           /\ pc[r] # "new" => key'[r] = key[r] /\ now'[r] = now[r]
  PROVE  Asked' = Asked
BY DEF Asked

LEMMA AcceptedStays ==
  ASSUME \A r \in Request :
           /\ answer'[r] = "202" <=> answer[r] = "202"
           /\ answer[r] = "202" => target'[r] = target[r]
  PROVE  Accepted' = Accepted
BY DEF Accepted

LEMMA CreatedStays ==
  ASSUME TypeOK, RequestInv, [Next]_vars, \A r \in Request : ~Create(r)
  PROVE  Created' = Created
<1>1. \A c \in Request : /\ Exists(c)' <=> Exists(c)
                         /\ Exists(c) => intent'[c].issued = intent[c].issued /\ key'[c] = key[c]
  BY CommandsStay
<1>2. ASSUME NEW x \in Created PROVE x \in Created'
  <2>1. PICK c \in Request : Exists(c) /\ x = [id |-> c, key |-> key[c], issued |-> intent[c].issued]
    BY CreatedAre
  <2>2. Exists(c)' /\ intent'[c].issued = intent[c].issued /\ key'[c] = key[c]
    BY <1>1, <2>1
  <2>3. QED
    BY <2>1, <2>2, CreatedAreNext
<1>3. ASSUME NEW x \in Created' PROVE x \in Created
  <2>1. PICK c \in Request : Exists(c)' /\ x = [id |-> c, key |-> key'[c], issued |-> intent'[c].issued]
    BY CreatedAreNext
  <2>2. Exists(c) /\ intent'[c].issued = intent[c].issued /\ key'[c] = key[c]
    BY <1>1, <2>1
  <2>3. QED
    BY <2>1, <2>2, CreatedAre
<1>4. QED
  BY <1>2, <1>3

LEMMA ArriveRefines ==
  ASSUME CommandInv, NEW r \in Request, Arrive(r)
  PROVE  Abstract!Next
<1>1. Created' = Created
  <2>1. \A c \in Request : (Exists(c)' <=> Exists(c)) /\ intent'[c] = intent[c]
                           /\ (Exists(c) => key'[c] = key[c])
    BY DEF Arrive, Exists, CommandInv, RequestInv, TypeOK, items
  <2>2. \A x : x \in Created' <=> x \in Created
    BY <2>1, CreatedAre, CreatedAreNext
  <2>3. QED
    BY <2>2
<1>2. PICK k \in Key \cup {NoKey} :
        /\ key' = [key EXCEPT ![r] = k]
        /\ pc' = [pc EXCEPT ![r] = IF k = NoKey THEN "create" ELSE "find"]
  BY DEF Arrive, Goto
<1>3. Asked[r] = NoRequest /\ Asked' = [Asked EXCEPT ![r] = [key |-> k, at |-> clock]]
  BY <1>2 DEF Arrive, Asked, CommandInv, TypeOK
<1>4. clock \in 0..Horizon
  BY DEF Arrive, CommandInv, TypeOK
<1>5. Sent' = Sent /\ Accepted' = Accepted
  BY AcceptedStays DEF Arrive, history, Sent
<1>6. Abstract!Ask(r)
  BY <1>1, <1>3, <1>4, <1>5 DEF Abstract!Ask
<1>7. QED
  BY <1>6 DEF Abstract!Next

LEMMA CreateRefines ==
  ASSUME PurgeAfterExecution, CommandInv, NEW r \in Request, Create(r)
  PROVE  Abstract!Next
<1> DEFINE new == [id |-> r, key |-> key[r], issued |-> now[r]]
<1>1. Asked[r] = [key |-> key[r], at |-> now[r]] /\ Asked[r] # NoRequest
  BY DEF Asked, Create, CommandInv, TypeOK
<1>2. Asked' = Asked
  BY AskedStays DEF Create, Goto, CommandInv, TypeOK
<1>3. Created' = Created \cup {new}
  BY CreateAdds, CreatedAre, CreatedAreNext DEF CommandInv
<1>4. \A c \in Created : /\ c.issued + Cooldown <= new.issued
                         /\ new.key \in Key /\ c.key = new.key => c.issued + KeyWindow <= new.issued
  BY CreatedApart, CreatedAre DEF CommandInv
<1>5. Accepted' = Accepted
  <2>1. answer' = answer /\ answer[r] = "NONE" /\ \A s \in Request \ {r} : target'[s] = target[s]
    BY DEF Create, CommandInv, RequestInv, TypeOK
  <2>2. QED
    BY <2>1, AcceptedStays
<1>6. Sent' = Sent
  BY DEF Create, history, Sent
<1>7. new = [id |-> r, key |-> Asked[r].key, issued |-> Asked[r].at]
  BY <1>1
<1>8. Abstract!Create(r)
  BY <1>1, <1>2, <1>3, <1>4, <1>5, <1>6, <1>7 DEF Abstract!Create
<1>9. QED
  BY <1>8 DEF Abstract!Next

LEMMA PublishRefines ==
  ASSUME CommandInv, NEW r \in Request, Publish(r) \/ PublishUncertain(r)
  PROVE  Abstract!Next
<1> DEFINE c == [id |-> target[r], key |-> key[target[r]], issued |-> intent[target[r]].issued]
<1>1. c \in Created
  BY CreatedAre DEF Publish, PublishUncertain, CommandInv, RequestInv, MayAnswerWith
<1>2. Sent' = Sent \cup {c.id}
  <2>1. published' = published \cup {[command |-> target[r], at |-> clock]}
    BY DEF Publish, PublishUncertain, Publication
  <2>2. /\ \A x : x \in Sent <=> \E p \in published : x = p.command
        /\ \A x : x \in Sent' <=> \E p \in published' : x = p.command
    BY DEF Sent
  <2>3. \A x : x \in Sent' <=> x \in Sent \/ x = target[r]
    <3>1. [command |-> target[r], at |-> clock].command = target[r]
      OBVIOUS
    <3>2. \A p : p \in published' <=> p \in published \/ p = [command |-> target[r], at |-> clock]
      BY <2>1
    <3>3. QED
      BY <2>2, <3>1, <3>2, Zenon
  <2>4. QED
    BY <2>3
<1>3. Created' = Created
  BY DEF Publish, PublishUncertain, items, locals, Created
<1>4. Asked' = Asked
  BY AskedStays DEF Publish, PublishUncertain, Break, Reply, Goto, locals, CommandInv, TypeOK
<1>5. Accepted' = Accepted
  BY AcceptedStays DEF Publish, PublishUncertain, Break, Reply, locals, CommandInv, TypeOK, RequestInv
<1>6. Abstract!Send(c)
  BY <1>1, <1>2, <1>3, <1>4, <1>5 DEF Abstract!Send
<1>7. QED
  BY <1>1, <1>6 DEF Abstract!Next

\* A 202 is the answer with the command the request is about.
LEMMA AnswerRefines ==
  ASSUME CommandInv, [Next]_vars, NEW r \in Request, pc[r] \in {"read", "mark"}, Reply(r, "202"),
         UNCHANGED <<locals, published>>, Created' = Created
  PROVE  Abstract!Next
<1> DEFINE c == [id |-> target[r], key |-> key[target[r]], issued |-> intent[target[r]].issued]
<1>1. MayAnswerWith(r, target[r]) /\ answer[r] = "NONE"
  BY DEF CommandInv, RequestInv
<1>2. c \in Created
  BY <1>1, CreatedAre DEF MayAnswerWith
<1>3. Asked[r] = [key |-> key[r], at |-> now[r]] /\ Asked[r] # NoRequest
  BY DEF Asked, CommandInv, TypeOK
<1>4. Asked' = Asked
  BY AskedStays DEF Reply, Goto, locals, CommandInv, TypeOK
<1>5. Accepted[r] = NoRequest /\ Accepted' = [Accepted EXCEPT ![r] = c.id]
  BY <1>1 DEF Accepted, Reply, locals, CommandInv, TypeOK
<1>6. Sent' = Sent
  BY DEF Sent
<1>7. c.id = r \/ (c.key \in Key /\ c.key = Asked[r].key /\ Asked[r].at < c.issued + KeyWindow)
  BY <1>1, <1>3 DEF MayAnswerWith
<1>8. Abstract!Answer(r, c)
  BY <1>2, <1>3, <1>4, <1>5, <1>6, <1>7 DEF Abstract!Answer
<1>9. QED
  BY <1>2, <1>8 DEF Abstract!Next

\* What is left changes nothing that a client or the device can see.
LEMMA UnseenStep ==
  ASSUME CommandInv, Created' = Created, NEW r \in Request,
         \/ FindMarker(r) \/ FindNothing(r) \/ CreateRefused(r) \/ MarkRefused(r) \/ Unavailable(r)
         \/ (ReadIntent(r) \/ Mark(r)) /\ ~Reply(r, "202")
  PROVE  UNCHANGED Abstract!commandVars
<1>1. pc[r] # "new" /\ answer[r] # "202"
  BY DEF FindMarker, FindNothing, CreateRefused, MarkRefused, Unavailable, Break, ReadIntent, Mark, Running,
     CommandInv, RequestInv
<1>2. /\ UNCHANGED <<key, now, published>>
      /\ UNCHANGED answer \/ \E a \in {"429", "500", "503"} : answer' = [answer EXCEPT ![r] = a]
      /\ \E w \in PcState \ {"new"} : pc' = [pc EXCEPT ![r] = w]
      /\ \A s \in Request \ {r} : target'[s] = target[s]
  BY DEF FindMarker, FindNothing, CreateRefused, MarkRefused, Unavailable, Break, ReadIntent, Mark, Goto,
     Reply, PcState, Running, locals, history, CommandInv, TypeOK
<1>3. Asked' = Asked
  BY <1>1, <1>2, AskedStays DEF CommandInv, TypeOK
<1>4. Accepted' = Accepted
  BY <1>1, <1>2, AcceptedStays DEF CommandInv, TypeOK
<1>5. Sent' = Sent
  BY <1>2 DEF Sent
<1>6. QED
  BY <1>3, <1>4, <1>5 DEF Abstract!commandVars

\* Every step of the handlers creates, sends, answers, asks, or is not seen.
THEOREM CommandsRefined == ASSUME PurgeAfterExecution PROVE Spec => ImplementsRemoteCommands
<1>1. Init => Abstract!Init
  BY DEF Init, Abstract!Init, Asked, Created, Sent, Accepted, NoIntent
<1>2. CommandInv /\ [Next]_vars => [Abstract!Next]_(Abstract!commandVars)
  <2> SUFFICES ASSUME CommandInv, [Next]_vars, \A r \in Request : ~Create(r)
               PROVE  [Abstract!Next]_(Abstract!commandVars)
    BY CreateRefines
  <2>1. Created' = Created
    BY CreatedStays DEF CommandInv
  <2>2. ASSUME NEW r \in Request, ReadIntent(r) \/ Mark(r), Reply(r, "202") PROVE Abstract!Next
    BY <2>1, <2>2, AnswerRefines DEF ReadIntent, Mark, history
  <2>3. ASSUME NEW r \in Request, Handle(r)
        PROVE  [Abstract!Next]_(Abstract!commandVars)
    BY <2>1, <2>2, <2>3, UnseenStep, PublishRefines DEF Handle
  <2>4. ASSUME UNCHANGED <<pc, locals, answer, history>>
        PROVE  UNCHANGED Abstract!commandVars
    BY <2>1, <2>4 DEF Abstract!commandVars, Asked, Sent, Accepted, locals, history
  <2>5. (\E k \in Key : PurgeMarker(k)) \/ PurgeCooldown \/ Tick \/ UNCHANGED vars
          => UNCHANGED <<pc, locals, answer, history>>
    BY DEF PurgeMarker, PurgeCooldown, Tick, vars
  <2>6. QED
    BY <2>1, <2>3, <2>4, <2>5, ArriveRefines, PublishRefines, UnseenStep DEF Next
<1>3. QED
  BY <1>1, <1>2, CommandInvariant, PTL DEF Spec, Abstract!Spec, ImplementsRemoteCommands

-----------------------------------------------------------------------------
(* What an answer says of the command.  A command that is PUBLISHED has    *)
(* been published, and so has one that a request is about to mark.         *)

BeenPublished(c) == \E p \in published : p.command = c

PublicationInv ==
  \A r \in Request :
    /\ intent[r].state = "PUBLISHED" => BeenPublished(r)
    /\ pc[r] = "mark" => BeenPublished(target[r])

\* 202 means that the command was published, or that it had expired when the
\* request came: the only way to accept what never was sent (ReadIntent).
AcceptedUnlessExpired ==
  \A r \in Request :
    answer[r] = "202" =>
      BeenPublished(target[r]) \/ intent[target[r]].issued + Lifetime <= now[r]

\* A request that is told to slow down has created nothing and sent nothing.
RefusedLeavesNoTrace ==
  \A r \in Request : answer[r] = "429" => ~Exists(r) /\ ~BeenPublished(r)

AnswerInv == PublicationInv /\ AcceptedUnlessExpired /\ \A r \in Request : answer[r] = "429" => ~Exists(r)

LEMMA PublishedGrows == [Next]_vars => published \subseteq published'
BY DEF Next, Handle, Arrive, FindMarker, FindNothing, ReadIntent, Create, CreateRefused, Publish,
   Publication, Mark, MarkRefused, PublishUncertain, Unavailable, Break, PurgeMarker, PurgeCooldown, Tick,
   vars, history

LEMMA PublishedStays ==
  ASSUME [Next]_vars, NEW CONSTANT c, BeenPublished(c)
  PROVE  BeenPublished(c)'
BY PublishedGrows DEF BeenPublished

LEMMA NextPublicationInv ==
  ASSUME CommandInv, PublicationInv, [Next]_vars
  PROVE  PublicationInv'
<1>1. ASSUME NEW r \in Request, Create(r) PROVE PublicationInv'
  BY <1>1, CreateAdds, PublishedStays DEF PublicationInv, Create, NewIntent, Goto, CommandInv, TypeOK
<1>2. ASSUME NEW r \in Request, Publish(r) PROVE PublicationInv'
  <2>1. [command |-> target[r], at |-> clock] \in published'
    BY <1>2 DEF Publish, Publication
  <2>2. BeenPublished(target[r])'
    BY <1>2, <2>1 DEF BeenPublished, Publish, locals
  <2>3. QED
    BY <1>2, <2>2, PublishedStays DEF PublicationInv, Publish, Goto, items, locals, CommandInv, TypeOK
<1>3. ASSUME NEW r \in Request, Mark(r) PROVE PublicationInv'
  BY <1>3, PublishedStays DEF PublicationInv, Mark, Reply, Goto, locals, CommandInv, TypeOK, Intent
<1>4. ASSUME NEW r \in Request, Arrive(r) \/ FindMarker(r) \/ FindNothing(r) \/ ReadIntent(r)
                                \/ CreateRefused(r) \/ MarkRefused(r)
                                \/ PublishUncertain(r) \/ Unavailable(r)
      PROVE  PublicationInv'
  BY <1>4, PublishedStays DEF PublicationInv, Arrive, FindMarker, FindNothing, ReadIntent,
     CreateRefused, MarkRefused, PublishUncertain, Unavailable, Break, Reply, Goto, items, locals,
     CommandInv, TypeOK
<1>5. CASE UNCHANGED <<intent, pc, target>>
  BY <1>5, PublishedStays DEF PublicationInv
<1>6. QED
  BY <1>1, <1>2, <1>3, <1>4, <1>5
     DEF Next, Handle, PurgeMarker, PurgeCooldown, Tick, vars, items, locals

LEMMA NextAcceptedUnlessExpired ==
  ASSUME CommandInv, PublicationInv, AcceptedUnlessExpired, [Next]_vars
  PROVE  AcceptedUnlessExpired'
<1>1. ASSUME NEW r \in Request, answer[r] = "202" PROVE target'[r] = target[r] /\ now'[r] = now[r]
  BY <1>1 DEF Next, Handle, Arrive, FindMarker, FindNothing, ReadIntent, Create, CreateRefused, Publish,
     Mark, MarkRefused, PublishUncertain, Unavailable, Break, PurgeMarker, PurgeCooldown, Tick, vars, locals,
     CommandInv, RequestInv, TypeOK
<1>2. ASSUME NEW r \in Request, answer[r] = "202"
      PROVE  BeenPublished(target[r])' \/ intent'[target'[r]].issued + Lifetime <= now'[r]
  <2>1. target[r] \in Request /\ Exists(target[r])
    BY <1>2 DEF CommandInv, RequestInv, MayAnswerWith
  <2>2. BeenPublished(target[r]) \/ intent[target[r]].issued + Lifetime <= now[r]
    BY <1>2 DEF AcceptedUnlessExpired
  <2>3. BeenPublished(target[r]) => \E p \in published' : p.command = target[r]
    BY PublishedGrows DEF BeenPublished
  <2>4. intent'[target[r]].issued = intent[target[r]].issued
    BY <2>1, IntentStays DEF CommandInv
  <2>5. QED
    BY <1>1, <1>2, <2>2, <2>3, <2>4 DEF BeenPublished
<1>3. ASSUME NEW r \in Request, ReadIntent(r) PROVE AcceptedUnlessExpired'
  <2>1. target[r] \in Request /\ Exists(target[r]) /\ intent[target[r]] \in Intent /\ now[r] \in Nat
    BY <1>3 DEF ReadIntent, CommandInv, RequestInv, MayAnswerWith, TypeOK
  <2>2. ~MayPublish(target[r], now[r]) =>
          BeenPublished(target[r]) \/ intent[target[r]].issued + Lifetime <= now[r]
    BY <2>1 DEF MayPublish, PublicationInv, Exists, Intent
  <2>3. QED
    BY <1>2, <1>3, <2>2, PublishedStays
       DEF AcceptedUnlessExpired, ReadIntent, Reply, Goto, items, locals, CommandInv, TypeOK
<1>4. ASSUME NEW r \in Request, Mark(r) PROVE AcceptedUnlessExpired'
  BY <1>2, <1>4, PublishedStays
     DEF AcceptedUnlessExpired, Mark, Reply, PublicationInv, locals, CommandInv, TypeOK
<1>5. CASE \A r \in Request : answer'[r] = "202" => answer[r] = "202"
  BY <1>2, <1>5 DEF AcceptedUnlessExpired
<1>6. QED
  BY <1>3, <1>4, <1>5 DEF Next, Handle, Arrive, FindMarker, FindNothing, Create, CreateRefused, Publish,
     MarkRefused, PublishUncertain, Unavailable, Break, PurgeMarker, PurgeCooldown, Tick, vars, Reply,
     CommandInv, TypeOK

LEMMA NextRefusedLeavesNoTrace ==
  ASSUME CommandInv, \A r \in Request : answer[r] = "429" => ~Exists(r), [Next]_vars,
         NEW s \in Request, answer'[s] = "429"
  PROVE  ~Exists(s)'
<1>1. ASSUME NEW r \in Request, Create(r) PROVE ~Exists(s)'
  BY <1>1, CreateAdds DEF CommandInv, RequestInv, Create
<1>2. ASSUME \A r \in Request : ~Create(r) PROVE ~Exists(s)'
  <2>1. answer[s] = "429" \/ pc[s] \in {"find", "create"}
    <3>1. ASSUME NEW r \in Request, FindNothing(r) \/ CreateRefused(r)
          PROVE  answer[s] = "429" \/ pc[s] \in {"find", "create"}
      BY <3>1 DEF FindNothing, CreateRefused, Reply, CommandInv, TypeOK
    <3>2. ASSUME NEW r \in Request, Arrive(r) \/ FindMarker(r) \/ ReadIntent(r) \/ Publish(r) \/ Mark(r)
                                    \/ MarkRefused(r) \/ PublishUncertain(r) \/ Unavailable(r)
          PROVE  answer[s] = "429"
      BY <3>2 DEF Arrive, FindMarker, ReadIntent, Publish, Mark, MarkRefused, PublishUncertain,
         Unavailable, Break, Reply, CommandInv, TypeOK
    <3>3. QED
      BY <1>2, <3>1, <3>2 DEF Next, Handle, PurgeMarker, PurgeCooldown, Tick, vars
  <2>2. ~Exists(s)
    BY <2>1 DEF CommandInv, RequestInv
  <2>3. QED
    BY <1>2, <2>2, CommandsStay DEF CommandInv
<1>3. QED
  BY <1>1, <1>2

LEMMA AnswersAlways == Spec => []AnswerInv
<1>1. Init => AnswerInv
  BY DEF Init, AnswerInv, PublicationInv, AcceptedUnlessExpired, NoIntent
<1>2. CommandInv /\ AnswerInv /\ [Next]_vars => AnswerInv'
  BY NextPublicationInv, NextAcceptedUnlessExpired, NextRefusedLeavesNoTrace DEF AnswerInv
<1>3. QED
  BY <1>1, <1>2, CommandInvariant, PTL DEF Spec

\* The device has been sent every accepted command that had not expired.
THEOREM AcceptedWasPublished == Spec => []AcceptedUnlessExpired
BY AnswersAlways, PTL DEF AnswerInv

\* A client that is throttled may try again later: the device has nothing of it.
THEOREM ThrottledLeavesNoTrace == Spec => []RefusedLeavesNoTrace
<1>1. CommandInv /\ AnswerInv => RefusedLeavesNoTrace
  BY DEF CommandInv, AnswerInv, PublishedInTime, RefusedLeavesNoTrace, BeenPublished, Exists
<1>2. QED
  BY <1>1, CommandInvariant, AnswersAlways, PTL

-----------------------------------------------------------------------------
(* A marker that refuses a transaction is there when the request looks it  *)
(* up again: it was written while the request ran, for a window that is    *)
(* longer than any execution.                                              *)

\* A day, and 10 s (IDEMPOTENCY_SECONDS, the timeout of the function).
WindowOutlastsExecution == 2 * Timeout < KeyWindow

FindsItsMarker ==
  \A r \in Request :
    /\ pc[r] = "new" => refused[r] = {}
    /\ pc[r] = "create" => refused[r] = {}
    /\ pc[r] = "find" /\ refused[r] # {} => MarkerInForce(key[r], now[r])

\* A request that has met no failing dependency is answered 500 only when the
\* command of its key has been sent and marked by another request (MarkRefused),
\* or by this one, whose answer was lost: never because the marker that refused
\* it has gone (_transaction_failure).
FailureMeansPublished ==
  \A r \in Request :
    answer[r] = "500" /\ r \notin broken => /\ target[r] \in Request
                                            /\ intent[target[r]].state = "PUBLISHED"
                                            /\ BeenPublished(target[r])

\* A marker that comes in the way of a request that has found none is new.
NewSince(r) == now[r] + KeyWindow <= marker[key[r]].expires + Timeout

RivalInv ==
  \A r \in Request :
    /\ pc[r] = "create" /\ key[r] \in Key /\ MarkerInForce(key[r], now[r]) => NewSince(r)
    /\ pc[r] = "find" /\ refused[r] # {} => NewSince(r)

\* So it outlasts the request, unless a newer one takes its place.
LEMMA RivalStays ==
  ASSUME CommandInv, [Next]_vars, NEW r \in Request, pc[r] \in Running, key[r] \in Key,
         UNCHANGED <<key[r], now[r]>>
  PROVE  /\ WindowOutlastsExecution /\ MarkerInForce(key[r], now[r]) /\ NewSince(r)
              => MarkerInForce(key[r], now[r])' /\ NewSince(r)'
         /\ MarkerInForce(key[r], now[r])' => NewSince(r)' \/ UNCHANGED marker[key[r]]
<1> DEFINE k == key[r]
<1>1. /\ marker[k] \in Marker /\ clock \in Nat /\ now[r] \in Nat
      /\ now[r] <= clock /\ clock <= now[r] + Timeout
  <2>1. marker[k] \in Marker /\ clock \in Nat /\ now[r] \in Nat
    BY DEF CommandInv, TypeOK
  <2>2. now[r] <= clock
    BY DEF CommandInv, RequestInv, Running
  <2>3. clock <= now[r] + Timeout
    BY DEF CommandInv, RequestInv
  <2>4. QED
    BY <2>1, <2>2, <2>3
<1>2. ASSUME NEW s \in Request, Create(s), key[s] = k
      PROVE  /\ MarkerInForce(k, now[r]) => MarkerInForce(k, now[r])'
             /\ NewSince(r)'
  <2>1. ~MarkerInForce(k, now[s]) /\ now[s] \in Nat /\ clock <= now[s] + Timeout
    BY <1>2, Unrefused DEF Create, CommandInv, TypeOK, RequestInv, Running
  <2>2. marker'[k] = [command |-> s, expires |-> now[s] + KeyWindow]
    BY <1>2 DEF Create
  <2>3. s # NoRequest
    OBVIOUS
  <2>4. QED
    BY <1>1, <2>1, <2>2, <2>3 DEF MarkerInForce, NewSince, Marker
<1>3. ASSUME PurgeMarker(k), WindowOutlastsExecution, NewSince(r) PROVE FALSE
  BY <1>1, <1>3 DEF PurgeMarker, WindowOutlastsExecution, NewSince, Marker
<1>4. ASSUME PurgeMarker(k) PROVE ~MarkerInForce(k, now[r])'
  BY <1>4 DEF PurgeMarker, MarkerInForce, NoMarker, CommandInv, TypeOK
<1>5. \/ UNCHANGED marker[k]
      \/ PurgeMarker(k)
      \/ \E s \in Request : Create(s) /\ key[s] = k
  <2>1. ASSUME NEW s \in Request, Create(s) PROVE UNCHANGED marker[k] \/ key[s] = k
    BY <2>1 DEF Create, CommandInv, TypeOK
  <2>2. ASSUME NEW j \in Key, PurgeMarker(j) PROVE UNCHANGED marker[k] \/ j = k
    BY <2>2 DEF PurgeMarker, CommandInv, TypeOK
  <2>3. \/ \E s \in Request : Create(s)
        \/ \E j \in Key : PurgeMarker(j)
        \/ UNCHANGED marker
    BY DEF Next, Handle, Arrive, FindMarker, FindNothing, ReadIntent, CreateRefused, Publish, Mark,
       MarkRefused, PublishUncertain, Unavailable, Break, PurgeCooldown, Tick, vars, items
  <2>4. QED
    BY <2>1, <2>2, <2>3
<1>6. ASSUME UNCHANGED marker[k]
      PROVE  /\ MarkerInForce(k, now[r])' = MarkerInForce(k, now[r])
             /\ NewSince(r)' = NewSince(r)
  BY <1>6 DEF MarkerInForce, NewSince
<1>7. QED
  BY <1>2, <1>3, <1>4, <1>5, <1>6

LEMMA NextFindsItsMarker ==
  ASSUME WindowOutlastsExecution, CommandInv, FindsItsMarker, RivalInv, [Next]_vars
  PROVE  FindsItsMarker' /\ RivalInv'
<1>1. ASSUME NEW r \in Request, pc'[r] = pc[r], refused'[r] = refused[r], key'[r] = key[r], now'[r] = now[r]
      PROVE  FindsItsMarker!(r)' /\ RivalInv!(r)'
  <2>1. pc[r] = "find" => key[r] \in Key
    BY DEF CommandInv, TypeOK
  <2>2. pc[r] = "find" /\ refused[r] # {} => MarkerInForce(key[r], now[r])' /\ NewSince(r)'
    BY <1>1, <2>1, RivalStays DEF FindsItsMarker, RivalInv, Running
  <2>3. pc[r] = "create" /\ key[r] \in Key /\ MarkerInForce(key[r], now[r])' => NewSince(r)'
    <3>1. ASSUME UNCHANGED marker[key[r]]
          PROVE  /\ MarkerInForce(key[r], now[r])' = MarkerInForce(key[r], now[r])
                 /\ NewSince(r)' = NewSince(r)
      BY <1>1, <3>1 DEF MarkerInForce, NewSince
    <3>2. QED
      BY <1>1, <3>1, RivalStays DEF RivalInv, Running
  <2>4. QED
    BY <1>1, <2>2, <2>3 DEF FindsItsMarker, RivalInv
<1>2. ASSUME NEW r \in Request, CreateRefused(r) PROVE FindsItsMarker!(r)' /\ RivalInv!(r)'
  <2>1. pc[r] = "create" /\ pc'[r] \in {"find", "over"} /\ UNCHANGED <<marker, key, now>>
    BY <1>2 DEF CreateRefused, Goto, Reply, items, CommandInv, TypeOK
  <2>2. pc'[r] = "find" => key[r] \in Key /\ MarkerInForce(key[r], now[r])
    BY <1>2 DEF CreateRefused, Refusals, MarkerRefuses, CooldownRefuses, Goto, Reply, CommandInv, TypeOK
  <2>3. QED
    BY <2>1, <2>2 DEF MarkerInForce, RivalInv, NewSince
<1>3. ASSUME NEW r \in Request, FindNothing(r) PROVE FindsItsMarker!(r)' /\ RivalInv!(r)'
  <2>1. pc[r] = "find" /\ pc'[r] \in {"create", "over"} /\ UNCHANGED <<marker, key, now, refused>>
        /\ ~MarkerInForce(key[r], now[r]) /\ (pc'[r] = "create" => refused[r] = {})
    BY <1>3 DEF FindNothing, Goto, Reply, items, locals, CommandInv, TypeOK
  <2>2. QED
    BY <2>1 DEF MarkerInForce
<1>4. ASSUME NEW r \in Request, Arrive(r) PROVE FindsItsMarker!(r)' /\ RivalInv!(r)'
  <2>1. /\ pc[r] = "new" /\ pc'[r] \in {"create", "find"} /\ refused' = refused
        /\ pc'[r] = "create" => key'[r] \notin Key
    BY <1>4, ConstantsAssumption DEF Arrive, Goto, CommandInv, TypeOK
  <2>2. refused[r] = {}
    BY <2>1 DEF FindsItsMarker
  <2>3. QED
    BY <2>1, <2>2
<1>5. ASSUME NEW r \in Request, FindMarker(r) \/ ReadIntent(r) \/ Create(r) \/ Publish(r) \/ Mark(r)
                                \/ MarkRefused(r) \/ PublishUncertain(r) \/ Unavailable(r)
      PROVE  FindsItsMarker!(r)' /\ RivalInv!(r)'
  <2>1. pc'[r] \in {"read", "publish", "mark", "over"}
    BY <1>5 DEF FindMarker, ReadIntent, Create, Publish, Mark, MarkRefused, PublishUncertain,
       Unavailable, Break, Goto, Reply, CommandInv, TypeOK
  <2>2. QED
    BY <2>1
<1>6. ASSUME NEW r \in Request, Arrive(r) \/ Handle(r) \/ PublishUncertain(r) \/ Unavailable(r)
      PROVE  \A s \in Request \ {r} : pc'[s] = pc[s] /\ refused'[s] = refused[s] /\ key'[s] = key[s]
                                      /\ now'[s] = now[s]
  BY <1>6 DEF Handle, Arrive, FindMarker, FindNothing, ReadIntent, Create, CreateRefused, Publish, Mark,
     MarkRefused, PublishUncertain, Unavailable, Break, Goto, Reply, locals, CommandInv, TypeOK
<1>7. ASSUME NEW r \in Request, Arrive(r) \/ Handle(r) \/ PublishUncertain(r) \/ Unavailable(r)
      PROVE  FindsItsMarker' /\ RivalInv'
  <2>1. FindsItsMarker!(r)' /\ RivalInv!(r)'
    BY <1>2, <1>3, <1>4, <1>5, <1>7 DEF Handle
  <2>2. \A s \in Request \ {r} : FindsItsMarker!(s)' /\ RivalInv!(s)'
    BY <1>1, <1>6, <1>7
  <2>3. QED
    BY <2>1, <2>2 DEF FindsItsMarker, RivalInv
<1>8. CASE UNCHANGED <<pc, locals>>
  BY <1>1, <1>8 DEF FindsItsMarker, RivalInv, locals
<1>9. QED
  BY <1>7, <1>8 DEF Next, PurgeMarker, PurgeCooldown, Tick, vars

LEMMA NextFailureMeansPublished ==
  ASSUME CommandInv, AnswerInv, FindsItsMarker, FailureMeansPublished, [Next]_vars
  PROVE  FailureMeansPublished'
<1>1. ASSUME NEW c \in Request, intent[c].state = "PUBLISHED" PROVE intent'[c].state = "PUBLISHED"
  BY <1>1 DEF Next, Handle, Arrive, FindMarker, FindNothing, ReadIntent, Create, CreateRefused, Publish,
     Mark, MarkRefused, PublishUncertain, Unavailable, Break, PurgeMarker, PurgeCooldown, Tick, vars, items,
     CommandInv, RequestInv, Exists, TypeOK, Intent
<1>2. ASSUME NEW c \in Request, BeenPublished(c) PROVE \E p \in published' : p.command = c
  BY <1>2, PublishedGrows DEF BeenPublished
<1>3. ASSUME NEW r \in Request, FindNothing(r) PROVE UNCHANGED answer \/ Reply(r, "429")
  BY <1>3 DEF FindNothing, FindsItsMarker
<1>4. ASSUME NEW r \in Request, Mark(r) PROVE FailureMeansPublished'
  <2>1. target[r] \in Request /\ intent'[target[r]].state = "PUBLISHED" /\ BeenPublished(target[r])
    BY <1>4 DEF Mark, AnswerInv, PublicationInv, CommandInv, TypeOK, Intent
  <2>2. QED
    BY <1>1, <1>2, <1>4, <2>1
       DEF Mark, Reply, FailureMeansPublished, BeenPublished, locals, CommandInv, TypeOK
<1>5. ASSUME NEW r \in Request, MarkRefused(r) PROVE FailureMeansPublished'
  <2>1. target[r] \in Request /\ intent[target[r]].state = "PUBLISHED" /\ BeenPublished(target[r])
    BY <1>5 DEF MarkRefused, AnswerInv, PublicationInv, CommandInv, RequestInv, MayAnswerWith, Exists,
       TypeOK, Intent
  <2>2. QED
    BY <1>1, <1>2, <1>5, <2>1
       DEF MarkRefused, Reply, FailureMeansPublished, BeenPublished, locals, history, CommandInv, TypeOK
<1>6. ASSUME \A r \in Request : answer'[r] = "500" /\ r \notin broken'
                                  => answer[r] = "500" /\ r \notin broken /\ target'[r] = target[r]
      PROVE  FailureMeansPublished'
  BY <1>1, <1>2, <1>6 DEF FailureMeansPublished, BeenPublished
<1>7. ASSUME NEW r \in Request, Arrive(r) \/ FindMarker(r) \/ FindNothing(r) \/ ReadIntent(r) \/ Create(r)
                                \/ CreateRefused(r) \/ Publish(r) \/ PublishUncertain(r) \/ Unavailable(r)
      PROVE  \A s \in Request : answer'[s] = "500" /\ s \notin broken'
                                  => answer[s] = "500" /\ s \notin broken /\ target'[s] = target[s]
  BY <1>3, <1>7 DEF Arrive, FindMarker, FindNothing, ReadIntent, Create, CreateRefused, Publish,
     PublishUncertain, Unavailable, Break, Reply, Goto, locals, history, Running, CommandInv, RequestInv, TypeOK
<1>8. QED
  BY <1>4, <1>5, <1>6, <1>7 DEF Next, Handle, PurgeMarker, PurgeCooldown, Tick, vars, locals, history

\* A request whose transaction the marker of its key refuses finds that marker
\* on its second lookup: _transaction_failure never gives up for want of it.
THEOREM RefusingMarkerIsFound == ASSUME WindowOutlastsExecution PROVE Spec => []FindsItsMarker
<1>1. Init => FindsItsMarker /\ RivalInv
  BY DEF Init, FindsItsMarker, RivalInv
<1>2. CommandInv /\ FindsItsMarker /\ RivalInv /\ [Next]_vars => FindsItsMarker' /\ RivalInv'
  BY NextFindsItsMarker
<1>3. QED
  BY <1>1, <1>2, CommandInvariant, PTL DEF Spec

\* The failure of a retry (run commands_retry) hides a command that was sent: the
\* client is wrong to think that the device has not been asked.
THEOREM FailureHidesSuccess == ASSUME WindowOutlastsExecution PROVE Spec => []FailureMeansPublished
<1>1. Init => FailureMeansPublished
  BY DEF Init, FailureMeansPublished
<1>2. CommandInv /\ AnswerInv /\ FindsItsMarker /\ FailureMeansPublished /\ [Next]_vars
        => FailureMeansPublished'
  BY NextFailureMeansPublished
<1>3. QED
  BY <1>1, <1>2, CommandInvariant, AnswersAlways, RefusingMarkerIsFound, PTL DEF Spec

-----------------------------------------------------------------------------
(* The cooldown.                                                           *)

\* Whatever requests race for the cooldown item, whichever keys they carry,
\* the device's commands are issued a cooldown apart.
CommandsSpacedOut ==
  \A c, d \in Request :
    Exists(c) /\ Exists(d) /\ c # d
      => \/ intent[c].issued + Cooldown <= intent[d].issued
         \/ intent[d].issued + Cooldown <= intent[c].issued

\* The deleted cooldown item does not let a slow request in too early.
THEOREM CooldownKept == ASSUME PurgeAfterExecution PROVE Spec => []CommandsSpacedOut
<1>1. Init => CommandsSpacedOut
  BY DEF Init, CommandsSpacedOut, Exists, NoIntent
<1>2. ASSUME CommandInv, CommandsSpacedOut, [Next]_vars PROVE CommandsSpacedOut'
  <2>1. ASSUME NEW r \in Request, Create(r) PROVE CommandsSpacedOut'
    <3>1. \A c \in Request : Exists(c) => intent[c].issued + Cooldown <= now[r]
      BY <1>2, <2>1, CreatedApart DEF CommandInv
    <3>2. QED
      BY <1>2, <2>1, <3>1, CreateAdds DEF CommandsSpacedOut, CommandInv
  <2>2. CASE \A r \in Request : ~Create(r)
    BY <1>2, <2>2, CommandsStay DEF CommandsSpacedOut, CommandInv
  <2>3. QED
    BY <2>1, <2>2
<1>3. QED
  BY <1>1, <1>2, CommandInvariant, PTL DEF Spec

-----------------------------------------------------------------------------
(* Termination: the second lookup never leads to a second transaction, so  *)
(* a request is answered after at most seven steps of its own.             *)

StepsLeft(r) ==
  CASE pc[r] = "new"     -> 7
    [] pc[r] = "find"    -> IF refused[r] = {} THEN 6 ELSE 4
    [] pc[r] = "create"  -> 5
    [] pc[r] = "read"    -> 3
    [] pc[r] = "publish" -> 2
    [] pc[r] = "mark"    -> 1
    [] pc[r] = "over"    -> 0

\* A step of a request leaves it fewer steps; a step of anything else, as many.
OwnStepsRunOut ==
  \A r \in Request :
    \/ StepsLeft(r)' < StepsLeft(r)
    \/ StepsLeft(r)' = StepsLeft(r) /\ pc'[r] = pc[r]

\* What the lookup and the transaction send each other round is no loop:
\* FindNothing starts a transaction only if none has been refused.
THEOREM RequestsTerminate == Spec => [][OwnStepsRunOut]_vars
<1>1. ASSUME TypeOK, [Next]_vars PROVE OwnStepsRunOut
  <2>1. ASSUME NEW r \in Request, Arrive(r) \/ Handle(r) \/ PublishUncertain(r) \/ Unavailable(r)
        PROVE  StepsLeft(r)' < StepsLeft(r)
    <3> USE <1>1 DEF StepsLeft, Goto, Reply, TypeOK, PcState, Running
    <3>1. CASE FindMarker(r) \/ FindNothing(r) \/ ReadIntent(r)
      BY <3>1 DEF FindMarker, FindNothing, ReadIntent, locals
    <3>2. CASE CreateRefused(r)
      BY <3>2 DEF CreateRefused
    <3>3. CASE Create(r) \/ Publish(r) \/ Mark(r) \/ MarkRefused(r)
      BY <3>3 DEF Create, Publish, Mark, MarkRefused
    <3>4. CASE Arrive(r) \/ PublishUncertain(r) \/ Unavailable(r)
      BY <3>4 DEF Arrive, PublishUncertain, Unavailable, Break
    <3>5. QED
      BY <2>1, <3>1, <3>2, <3>3, <3>4 DEF Handle
  <2>2. ASSUME NEW s \in Request, pc'[s] = pc[s], refused'[s] = refused[s]
        PROVE  StepsLeft(s)' = StepsLeft(s)
    BY <2>2 DEF StepsLeft
  <2>3. ASSUME NEW r \in Request, Arrive(r) \/ Handle(r) \/ PublishUncertain(r) \/ Unavailable(r)
        PROVE  \A s \in Request \ {r} : pc'[s] = pc[s] /\ refused'[s] = refused[s]
    BY <1>1, <2>3 DEF Handle, Arrive, FindMarker, FindNothing, ReadIntent, Create, CreateRefused, Publish,
       Mark, MarkRefused, PublishUncertain, Unavailable, Break, Goto, Reply, locals, TypeOK
  <2>4. CASE UNCHANGED <<pc, refused>>
    BY <2>2, <2>4 DEF OwnStepsRunOut
  <2>5. ASSUME NEW r \in Request, Arrive(r) \/ Handle(r) \/ PublishUncertain(r) \/ Unavailable(r)
        PROVE  OwnStepsRunOut
    <3>1. \A s \in Request \ {r} : StepsLeft(s)' = StepsLeft(s) /\ pc'[s] = pc[s]
      BY <2>2, <2>3, <2>5
    <3>2. StepsLeft(r)' < StepsLeft(r)
      BY <2>1, <2>5
    <3>3. QED
      BY <3>1, <3>2 DEF OwnStepsRunOut
  <2>6. QED
    BY <1>1, <2>4, <2>5 DEF Next, PurgeMarker, PurgeCooldown, Tick, vars, locals
<1>2. QED
  BY <1>1, TypeCorrect, PTL DEF Spec
=============================================================================
