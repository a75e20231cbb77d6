----------------------- MODULE PreferenceUpdatesProofs -----------------------
(***************************************************************************)
(* Proofs about PreferenceUpdates and AlertPreferences for any number of   *)
(* requests and attempts, any patches and any length of a day:             *)
(*   TypeCorrect        the type invariant;                                *)
(*   AlwaysContention   who is told of a conflict;                         *)
(*   AlwaysAsPreferred  what the stored preferences make of a ring;        *)
(*   UpdatesRefine      the requests implement MemberPreferences;          *)
(*   PatchAgain         a patch applied twice is the patch applied once;   *)
(*   AcceptedIsServed   what an update has stored can be read and used;    *)
(*   RequestsTerminate  every step of a request brings it nearer its end.  *)
(***************************************************************************)
EXTENDS PreferenceUpdates, TLAPS

-----------------------------------------------------------------------------
(* combine().                                                              *)

LEMMA NormalIsMap ==
  ASSUME NEW v \in Map
  PROVE  /\ Normal(v) \in Map
         /\ Normal(v).alert_mode \in {"NONE", "RING_ONLY", "NOTIFICATION_ONLY"}
         /\ Normal(v).enabled = v.enabled /\ (Complete(v) => Complete(Normal(v)))
<1>1. /\ v = [version |-> v.version, alert_mode |-> v.alert_mode, enabled |-> v.enabled,
              timezone |-> v.timezone, days |-> v.days, start_time |-> v.start_time,
              end_time |-> v.end_time, behavior |-> v.behavior, updated_at |-> v.updated_at]
      /\ v.alert_mode \in AlertModes
  BY DEF Map
<1>2. PICK mode \in {"NONE", "RING_ONLY", "NOTIFICATION_ONLY"} :
        Normal(v) = [v EXCEPT !.alert_mode = mode]
  BY <1>1 DEF Normal, AlertModes
<1>3. Normal(v) \in Map /\ Normal(v).alert_mode = mode
  BY <1>2 DEF Map, AlertModes
<1>4. /\ Normal(v).enabled = v.enabled /\ Normal(v).timezone = v.timezone
      /\ Normal(v).days = v.days /\ Normal(v).start_time = v.start_time
      /\ Normal(v).end_time = v.end_time
  BY <1>2 DEF Map
<1>5. QED
  BY <1>3, <1>4 DEF Complete

LEMMA StampedIsMap ==
  ASSUME NEW v \in Map, NEW t \in Nat PROVE [v EXCEPT !.updated_at = t] \in Map
BY DEF Map

\* What can be combined is a complete, normalised map.
LEMMA Combined ==
  ASSUME NEW s, NEW p, Combine(s, p) # Invalid
  PROVE  /\ Combine(s, p) \in Map
         /\ Combine(s, p).alert_mode \in {"NONE", "RING_ONLY", "NOTIFICATION_ONLY"}
         /\ Combine(s, p).enabled => Complete(Combine(s, p))
<1>1. PICK v : Valid(v) /\ Combine(s, p) = Normal(v)
  BY DEF Combine
<1>2. v \in Map /\ (v.enabled => Complete(v))
  BY <1>1 DEF Valid
<1>3. QED
  BY <1>1, <1>2, NormalIsMap

\* So are the preferences push_sender works with.
LEMMA PreferencesAreSound ==
  ASSUME NEW s
  PROVE  /\ Preferences(s) \in Map
         /\ Preferences(s).alert_mode \in {"NONE", "RING_ONLY", "NOTIFICATION_ONLY"}
         /\ Preferences(s).enabled => Complete(Preferences(s))
<1>1. CASE Combine(s, None) = Invalid
  <2>1. Preferences(s) = Defaults
    BY <1>1 DEF Preferences
  <2>2. Defaults \in Map /\ Defaults.alert_mode = "RING_ONLY" /\ Defaults.enabled = FALSE
    BY DEF Defaults, Map, AlertModes, Behaviors
  <2>3. QED
    BY <2>1, <2>2
<1>2. CASE Combine(s, None) # Invalid
  BY <1>2, Combined DEF Preferences
<1>3. QED
  BY <1>1, <1>2

-----------------------------------------------------------------------------
(* The inductive invariant.                                                *)

\* Each refused write of a request is a change under it: before it reads again
\* it has met as many as it has read, and so has it when its next write will be
\* refused.
Disturbed(r) ==
  /\ pc[r] = "new" => attempt[r] = 0
  /\ pc[r] = "read" => attempt[r] < MaxAttempts /\ attempt[r] <= interfered[r]
  /\ pc[r] = "write" => \/ attempt[r] <= interfered[r]
                        \/ attempt[r] <= interfered[r] + 1 /\ MayWrite(r)
  /\ pc[r] = "final" => interfered[r] = MaxAttempts
  /\ answer[r] = "409" => interfered[r] = MaxAttempts

UpdatesInv == TypeOK /\ \A r \in Request : Disturbed(r)

LEMMA InitInv == Init => UpdatesInv
<1> SUFFICES ASSUME Init PROVE UpdatesInv
  OBVIOUS
<1>1. MaxAttempts \in Nat \ {0} /\ Horizon \in Nat
  BY UpdatesAssumption DEF UpdatesAssumption
<1>2. TypeOK
  BY <1>1 DEF Init, TypeOK, Answers, Running, Reading
<1>3. \A r \in Request : Disturbed(r)
  BY <1>1 DEF Init, Disturbed
<1>4. QED
  BY <1>2, <1>3 DEF UpdatesInv

\* What a request does to itself leaves the others as they were.
Alone(r) ==
  \A q \in Request \ {r} :
    /\ pc'[q] = pc[q] /\ attempt'[q] = attempt[q] /\ answer'[q] = answer[q]
    /\ saw'[q] = saw[q]

LEMMA OthersKeep ==
  ASSUME UpdatesInv, NEW r \in Request, Alone(r), UNCHANGED <<status, stored, interfered>>
  PROVE  \A q \in Request \ {r} : Disturbed(q)'
BY DEF UpdatesInv, Disturbed, Alone, MayWrite

\* A change under the requests counts for every one that is running.
LEMMA InterfereCounts ==
  ASSUME TypeOK, NEW rs, rs \subseteq Request, Interfere(rs)
  PROVE  /\ interfered' \in [Request -> 0..MaxAttempts]
         /\ \A r \in Request : interfered[r] <= interfered'[r]
         /\ \A r \in rs : pc[r] \in Running =>
              interfered'[r] = MaxAttempts \/ interfered'[r] = interfered[r] + 1
<1>1. MaxAttempts \in Nat
  BY UpdatesAssumption DEF UpdatesAssumption
<1>2. interfered \in [Request -> 0..MaxAttempts]
  BY DEF TypeOK
<1>3. \A r \in Request :
        interfered'[r] = IF r \in rs /\ pc[r] \in Running /\ interfered[r] < MaxAttempts
                         THEN interfered[r] + 1 ELSE interfered[r]
  BY DEF Interfere
<1>4. \A r \in Request : interfered'[r] \in 0..MaxAttempts
  BY <1>1, <1>2, <1>3
<1>5. DOMAIN interfered' = Request /\ interfered' = [r \in Request |-> interfered'[r]]
  BY DEF Interfere
<1>6. interfered' \in [Request -> 0..MaxAttempts]
  BY <1>4, <1>5
<1>7. QED
  BY <1>1, <1>2, <1>3, <1>6

-----------------------------------------------------------------------------
(* Every step keeps it.                                                    *)

LEMMA Constants == MaxAttempts \in Nat \ {0} /\ Horizon \in Nat
BY UpdatesAssumption DEF UpdatesAssumption

LEMMA ReplyTypes ==
  ASSUME TypeOK, NEW r \in Request, NEW code \in Answers, Reply(r, code)
  PROVE  /\ pc' \in [Request -> Running \cup {"new", "over"}] /\ answer' \in [Request -> Answers]
         /\ saw' \in [Request -> Map \cup {None} \cup Damaged] /\ desired' \in [Request -> Map \cup {None}]
         /\ attempt' \in [Request -> 0..MaxAttempts] /\ UNCHANGED patch
         /\ pc'[r] = "over" /\ answer'[r] = code
         /\ Alone(r)
BY Constants DEF TypeOK, Reply, Goto, Alone

LEMMA GotoTypes ==
  ASSUME TypeOK, NEW r \in Request, NEW where \in Running, Goto(r, where)
  PROVE  /\ pc' \in [Request -> Running \cup {"new", "over"}] /\ pc'[r] = where
         /\ \A q \in Request \ {r} : pc'[q] = pc[q]
BY DEF TypeOK, Goto

LEMMA ArriveKeeps ==
  ASSUME UpdatesInv, NEW r \in Request, Arrive(r) PROVE UpdatesInv'
<1>1. PICK a \in Asking :
        /\ patch' = [patch EXCEPT ![r] = a]
        /\ Goto(r, CASE a = Show -> "get" [] a = Rename -> "rename" [] OTHER -> "read")
  BY DEF Arrive
<1>2. PICK where \in {"get", "rename", "read"} : Goto(r, where)
  <2>1. (CASE a = Show -> "get" [] a = Rename -> "rename" [] OTHER -> "read") \in {"get", "rename", "read"}
    OBVIOUS
  <2>2. QED
    BY <1>1, <2>1
<1>3. /\ pc[r] = "new" /\ UNCHANGED <<clock, status, stored, name, saw, desired, attempt, answer, applied, interfered>>
  BY DEF Arrive, item, history
<1>4. /\ pc' \in [Request -> Running \cup {"new", "over"}] /\ pc'[r] = where
      /\ \A q \in Request \ {r} : pc'[q] = pc[q]
  BY <1>2, GotoTypes DEF UpdatesInv, Running, Reading
<1>5. TypeOK'
  <2>1. patch' \in [Request -> Asking \cup {None}]
    BY <1>1 DEF UpdatesInv, TypeOK
  <2>2. QED
    BY <1>3, <1>4, <2>1 DEF UpdatesInv, TypeOK
<1>6. Disturbed(r)'
  BY <1>3, <1>4, Constants DEF UpdatesInv, TypeOK, Disturbed
<1>7. \A q \in Request \ {r} : Disturbed(q)'
  BY <1>3, <1>4, OthersKeep DEF Alone
<1>8. QED
  BY <1>5, <1>6, <1>7 DEF UpdatesInv

\* A request that is answered without having written.
LEMMA ReplyKeeps ==
  ASSUME UpdatesInv, NEW r \in Request, NEW code \in Answers, Reply(r, code),
         UNCHANGED <<clock, item, history>>, code = "409" => interfered[r] = MaxAttempts
  PROVE  UpdatesInv'
<1>1. UNCHANGED <<clock, status, stored, name, applied, interfered>>
  BY DEF item, history
<1>2. pc'[r] = "over" /\ answer'[r] = code /\ Alone(r)
  BY ReplyTypes DEF UpdatesInv
<1>3. TypeOK'
  BY <1>1, ReplyTypes DEF UpdatesInv, TypeOK
<1>4. Disturbed(r)'
  BY <1>1, <1>2 DEF Disturbed
<1>5. \A q \in Request \ {r} : Disturbed(q)'
  BY <1>1, <1>2, OthersKeep
<1>6. QED
  BY <1>3, <1>4, <1>5 DEF UpdatesInv

LEMMA AnswersKeep ==
  ASSUME UpdatesInv, NEW r \in Request,
         \/ Refused(r) \/ Unacceptable(r) \/ Conflict(r) \/ NameRefused(r) \/ ReadDevice(r)
         \/ Get(r) \/ Unavailable(r)
  PROVE  UpdatesInv'
<1>1. PICK code \in Answers :
        /\ Reply(r, code) /\ UNCHANGED <<clock, item, history>>
        /\ code = "409" => pc[r] = "final"
  <2>1. CASE Get(r)
    <3>1. (IF Combine(stored, None) # Invalid THEN "200" ELSE "500") \in Answers \ {"409"}
      BY DEF Answers
    <3>2. QED
      BY <2>1, <3>1 DEF Get
  <2>2. CASE ReadDevice(r)
    BY <2>2 DEF ReadDevice, Answers
  <2>3. CASE Refused(r) \/ Unacceptable(r) \/ Conflict(r) \/ NameRefused(r) \/ Unavailable(r)
    BY <2>3 DEF Refused, Unacceptable, Conflict, NameRefused, Unavailable, Answers
  <2>4. QED
    BY <2>1, <2>2, <2>3
<1>2. code = "409" => interfered[r] = MaxAttempts
  BY <1>1 DEF UpdatesInv, Disturbed
<1>3. QED
  BY <1>1, <1>2, ReplyKeeps

LEMMA ReadKeeps ==
  ASSUME UpdatesInv, NEW r \in Request, Read(r) PROVE UpdatesInv'
<1>1. /\ pc[r] = "read" /\ status = "ACTIVE" /\ Combine(stored, patch[r]) # Invalid
      /\ UNCHANGED <<clock, status, stored, name, patch, answer, applied, interfered>>
      /\ Goto(r, "write")
  BY DEF Read, item, history
<1>2. /\ pc' \in [Request -> Running \cup {"new", "over"}] /\ pc'[r] = "write"
      /\ \A q \in Request \ {r} : pc'[q] = pc[q]
  BY <1>1, GotoTypes DEF UpdatesInv, Running
<1>3. /\ attempt' \in [Request -> 0..MaxAttempts] /\ attempt'[r] = attempt[r] + 1
      /\ \A q \in Request \ {r} : attempt'[q] = attempt[q]
  <2>1. attempt \in [Request -> 0..MaxAttempts] /\ attempt[r] < MaxAttempts
    BY <1>1 DEF UpdatesInv, TypeOK, Disturbed
  <2>2. attempt' = [attempt EXCEPT ![r] = attempt[r] + 1]
    BY DEF Read, Attempts
  <2>3. attempt[r] + 1 \in 0..MaxAttempts
    BY <2>1, Constants
  <2>4. QED
    BY <2>1, <2>2, <2>3
<1>4. /\ saw' \in [Request -> Map \cup {None} \cup Damaged] /\ saw'[r] = stored
      /\ \A q \in Request \ {r} : saw'[q] = saw[q]
  BY DEF Read, UpdatesInv, TypeOK
<1>5. desired' \in [Request -> Map \cup {None}]
  <2>1. Combine(stored, patch[r]) \in Map
    BY <1>1, Combined
  <2>2. Desired(r) \in Map
    <3>1. clock \in Nat
      BY Constants DEF UpdatesInv, TypeOK
    <3>2. QED
      BY <2>1, <3>1, StampedIsMap DEF Desired, Stamp
  <2>3. QED
    BY <2>2 DEF Read, UpdatesInv, TypeOK
<1>6. TypeOK'
  BY <1>1, <1>2, <1>3, <1>4, <1>5 DEF UpdatesInv, TypeOK
<1>7. Disturbed(r)'
  <2>1. MayWrite(r)'
    BY <1>1, <1>4 DEF MayWrite
  <2>2. attempt'[r] <= interfered'[r] + 1
    BY <1>1, <1>3 DEF UpdatesInv, TypeOK, Disturbed
  <2>3. answer'[r] = "409" => interfered'[r] = MaxAttempts
    BY <1>1 DEF UpdatesInv, Disturbed
  <2>4. QED
    BY <1>2, <2>1, <2>2, <2>3 DEF Disturbed
<1>8. \A q \in Request \ {r} : Disturbed(q)'
  BY <1>1, <1>2, <1>3, <1>4, OthersKeep DEF Alone
<1>9. QED
  BY <1>6, <1>7, <1>8 DEF UpdatesInv

LEMMA WriteRefusedKeeps ==
  ASSUME UpdatesInv, NEW r \in Request, WriteRefused(r) PROVE UpdatesInv'
<1>1. /\ pc[r] = "write" /\ ~MayWrite(r)
      /\ UNCHANGED <<clock, status, stored, name, patch, saw, desired, attempt, answer, applied, interfered>>
  BY DEF WriteRefused, item, locals, history
<1>2. attempt[r] \in 0..MaxAttempts /\ interfered[r] \in 0..MaxAttempts
  BY DEF UpdatesInv, TypeOK
<1>3. attempt[r] <= interfered[r] /\ (answer[r] = "409" => interfered[r] = MaxAttempts)
  BY <1>1 DEF UpdatesInv, Disturbed
<1>4. PICK where \in {"read", "final"} :
        /\ Goto(r, where)
        /\ IF MayRetry(r) THEN where = "read" ELSE where = "final"
  BY DEF WriteRefused
<1>5. /\ pc' \in [Request -> Running \cup {"new", "over"}] /\ pc'[r] = where
      /\ \A q \in Request \ {r} : pc'[q] = pc[q]
  BY <1>4, GotoTypes DEF UpdatesInv, Running, Reading
<1>6. TypeOK'
  BY <1>1, <1>5 DEF UpdatesInv, TypeOK
<1>7. Disturbed(r)'
  <2>1. where = "read" => attempt[r] < MaxAttempts
    BY <1>4 DEF MayRetry
  <2>2. where = "final" => interfered[r] = MaxAttempts
    BY <1>2, <1>3, <1>4, Constants DEF MayRetry
  <2>3. QED
    BY <1>1, <1>3, <1>4, <1>5, <2>1, <2>2 DEF Disturbed
<1>8. \A q \in Request \ {r} : Disturbed(q)'
  BY <1>1, <1>5, OthersKeep DEF Alone
<1>9. QED
  BY <1>6, <1>7, <1>8 DEF UpdatesInv

\* The map or the membership changes under the requests of rs, and the others
\* are not at work.
LEMMA DisturbedKept ==
  ASSUME UpdatesInv, NEW rs, rs \subseteq Request, Interfere(rs), NEW q \in Request,
         attempt'[q] = attempt[q], saw'[q] = saw[q], pc'[q] = pc[q], answer'[q] = answer[q],
         q \in rs \/ pc[q] \notin Running
  PROVE  Disturbed(q)'
<1>1. /\ attempt[q] \in 0..MaxAttempts /\ interfered[q] \in 0..MaxAttempts
      /\ MaxAttempts \in Nat /\ Disturbed(q)
  BY Constants DEF UpdatesInv, TypeOK
<1>2. /\ interfered'[q] \in 0..MaxAttempts /\ interfered[q] <= interfered'[q]
      /\ pc[q] \in Running => interfered'[q] = MaxAttempts \/ interfered'[q] = interfered[q] + 1
  <2>1. TypeOK
    BY DEF UpdatesInv
  <2>2. QED
    BY <2>1, InterfereCounts
<1>3. pc[q] = "write" => attempt[q] <= interfered'[q]
  BY <1>1, <1>2 DEF Disturbed, Running
<1>4. pc[q] = "read" => attempt[q] < MaxAttempts /\ attempt[q] <= interfered'[q]
  BY <1>1, <1>2 DEF Disturbed
<1>5. pc[q] = "final" \/ answer[q] = "409" => interfered'[q] = MaxAttempts
  BY <1>1, <1>2 DEF Disturbed
<1>6. QED
  BY <1>1, <1>3, <1>4, <1>5 DEF Disturbed

LEMMA WriteKeeps ==
  ASSUME UpdatesInv, NEW r \in Request, Write(r) PROVE UpdatesInv'
<1>1. /\ Interfere(Request \ {r}) /\ Reply(r, "200")
      /\ UNCHANGED <<clock, status, name>>
  BY DEF Write
<1>2. /\ pc' \in [Request -> Running \cup {"new", "over"}] /\ answer' \in [Request -> Answers]
      /\ saw' \in [Request -> Map \cup {None} \cup Damaged] /\ desired' \in [Request -> Map \cup {None}]
      /\ attempt' \in [Request -> 0..MaxAttempts] /\ UNCHANGED patch
      /\ pc'[r] = "over" /\ answer'[r] = "200"
      /\ Alone(r)
  BY <1>1, ReplyTypes DEF UpdatesInv, Answers
<1>3. TypeOK'
  <2>1. stored' \in Map \cup {None} /\ applied' \in [Request -> BOOLEAN]
    BY DEF Write, UpdatesInv, TypeOK
  <2>2. interfered' \in [Request -> 0..MaxAttempts]
    BY <1>1, InterfereCounts DEF UpdatesInv
  <2>3. QED
    BY <1>1, <1>2, <2>1, <2>2 DEF UpdatesInv, TypeOK
<1>4. Disturbed(r)'
  BY <1>2 DEF Disturbed
<1>5. \A q \in Request \ {r} : Disturbed(q)'
  BY <1>1, <1>2, DisturbedKept DEF Alone
<1>6. QED
  BY <1>3, <1>4, <1>5 DEF UpdatesInv

LEMMA WriteUnheardKeeps ==
  ASSUME UpdatesInv, NEW r \in Request, WriteUnheard(r) PROVE UpdatesInv'
<1>1. Interfere(Request) /\ UNCHANGED <<clock, status, name, pc, patch, saw, desired, attempt, answer>>
  BY DEF WriteUnheard, locals
<1>2. TypeOK'
  <2>1. stored' \in Map \cup {None} /\ applied' \in [Request -> BOOLEAN]
    BY DEF WriteUnheard, UpdatesInv, TypeOK
  <2>2. interfered' \in [Request -> 0..MaxAttempts]
    BY <1>1, InterfereCounts DEF UpdatesInv
  <2>3. QED
    BY <1>1, <2>1, <2>2 DEF UpdatesInv, TypeOK
<1>3. \A q \in Request : Disturbed(q)'
  BY <1>1, DisturbedKept
<1>4. QED
  BY <1>2, <1>3 DEF UpdatesInv

LEMMA WriteNameKeeps ==
  ASSUME UpdatesInv, NEW r \in Request, WriteName(r) PROVE UpdatesInv'
<1>1. /\ Goto(r, "device") /\ name' \in Name \cup {None}
      /\ UNCHANGED <<clock, status, stored, patch, saw, desired, attempt, answer, applied, interfered>>
  BY DEF WriteName, locals, history
<1>2. /\ pc' \in [Request -> Running \cup {"new", "over"}] /\ pc'[r] = "device"
      /\ \A q \in Request \ {r} : pc'[q] = pc[q]
  BY <1>1, GotoTypes DEF UpdatesInv, Running, Reading
<1>3. TypeOK'
  BY <1>1, <1>2 DEF UpdatesInv, TypeOK
<1>4. Disturbed(r)'
  BY <1>1, <1>2 DEF UpdatesInv, Disturbed
<1>5. \A q \in Request \ {r} : Disturbed(q)'
  BY <1>1, <1>2, OthersKeep DEF Alone
<1>6. QED
  BY <1>3, <1>4, <1>5 DEF UpdatesInv

LEMMA AdministerKeeps == ASSUME UpdatesInv, Administer PROVE UpdatesInv'
<1>1. Interfere(Request) /\ UNCHANGED <<clock, pc, patch, saw, desired, attempt, answer, applied>>
  BY DEF Administer, locals
<1>2. /\ status' \in {"ACTIVE", "REVOKED", "ABSENT"} /\ name' \in Name \cup {None}
      /\ stored' \in Map \cup {None} \cup Damaged
  BY DEF Administer, UpdatesInv, TypeOK
<1>3. TypeOK'
  <2>1. interfered' \in [Request -> 0..MaxAttempts]
    BY <1>1, InterfereCounts DEF UpdatesInv
  <2>2. QED
    BY <1>1, <1>2, <2>1 DEF UpdatesInv, TypeOK
<1>4. \A q \in Request : Disturbed(q)'
  BY <1>1, DisturbedKept
<1>5. QED
  BY <1>3, <1>4 DEF UpdatesInv

LEMMA NextInv == UpdatesInv /\ [Next]_vars => UpdatesInv'
<1> SUFFICES ASSUME UpdatesInv, [Next]_vars PROVE UpdatesInv'
  OBVIOUS
<1>1. CASE Tick
  <2>1. clock' \in 0..Horizon
    BY <1>1, Constants DEF Tick, UpdatesInv, TypeOK
  <2>2. QED
    BY <1>1, <2>1 DEF Tick, UpdatesInv, TypeOK, Disturbed, MayWrite, item, locals, history
<1>2. CASE UNCHANGED vars
  BY <1>2 DEF vars, UpdatesInv, TypeOK, Disturbed, MayWrite, item, locals, history
<1>3. QED
  BY <1>1, <1>2, ArriveKeeps, AnswersKeep, ReadKeeps, WriteRefusedKeeps, WriteKeeps,
     WriteUnheardKeeps, WriteNameKeeps, AdministerKeeps DEF Next, Handle, Update

\* In every state of a membership and its requests, each request's attempts
\* have been matched by changes under it, whatever the others do.
THEOREM UpdatesInvariant == Spec => []UpdatesInv
BY InitInv, NextInv, PTL DEF Spec

\* What is stored and what is about to be stored are complete maps, except for
\* the damaged ones others have written.
THEOREM TypeCorrect == Spec => []TypeOK
<1>1. UpdatesInv => TypeOK
  BY DEF UpdatesInv
<1>2. QED
  BY <1>1, UpdatesInvariant, PTL

\* A request is told of a conflict only after others have changed the
\* membership at each of its attempts.
THEOREM AlwaysContention == Spec => []ConflictIsContention
<1>1. UpdatesInv => ConflictIsContention
  BY Constants DEF UpdatesInv, TypeOK, Disturbed, ConflictIsContention
<1>2. QED
  BY <1>1, UpdatesInvariant, PTL

-----------------------------------------------------------------------------
(* evaluate() against the windows of a week.                               *)

\* The day a window opened on, for the days a window may reach.
LEMMA DayBefore ==
  ASSUME NEW d \in Weekdays, NEW weekday \in Weekdays
  PROVE  /\ ((d - 1 + 0) % 7) + 1 = weekday <=> d = weekday
         /\ ((d - 1 + 1) % 7) + 1 = weekday <=> d = Yesterday(weekday)
BY DEF Weekdays, Yesterday

\* No window reaches over a second midnight.
LEMMA TwoDaysAtMost ==
  ASSUME NEW ago \in 0..6
  PROVE  /\ ago * DayLength \in Nat
         /\ ago # 0 => DayLength <= ago * DayLength
         /\ ago \notin {0, 1} => DayLength + DayLength <= ago * DayLength
<1>1. DayLength \in Nat
  BY PreferencesAssumption
<1>2. ago = 0 \/ ago = 1 \/ ago = 2 \/ ago = 3 \/ ago = 4 \/ ago = 5 \/ ago = 6
  OBVIOUS
<1>3. /\ 0 * DayLength = 0 /\ 1 * DayLength = DayLength
      /\ 2 * DayLength = DayLength + DayLength
      /\ 3 * DayLength = DayLength + DayLength + DayLength
      /\ 4 * DayLength = DayLength + DayLength + DayLength + DayLength
      /\ 5 * DayLength = DayLength + DayLength + DayLength + DayLength + DayLength
      /\ 6 * DayLength = DayLength + DayLength + DayLength + DayLength + DayLength + DayLength
  BY <1>1
<1>4. QED
  BY <1>1, <1>2, <1>3

\* A quiet time is active exactly while one of its windows is open.
LEMMA QuietIsWindow ==
  ASSUME NEW q, q.days \subseteq Weekdays, q.start_time \in Minutes, q.end_time \in Minutes,
         q.start_time # q.end_time, NEW weekday \in Weekdays, NEW minute \in Minutes
  PROVE  QuietActive(q, weekday, minute) <=> InWindow(q, weekday, minute)
<1> DEFINE Open(ago) == /\ q.start_time <= ago * DayLength + minute
                        /\ ago * DayLength + minute < q.start_time + Length(q)
<1>1. /\ DayLength \in Nat /\ minute \in Nat /\ minute < DayLength
      /\ q.start_time \in Nat /\ q.start_time < DayLength
      /\ q.end_time \in Nat /\ q.end_time < DayLength
  BY PreferencesAssumption DEF Minutes
<1>2. Open(0) <=> q.start_time <= minute /\ (q.start_time < q.end_time => minute < q.end_time)
  <2>1. 0 * DayLength + minute = minute
    BY <1>1
  <2>2. QED
    BY <1>1, <2>1 DEF Length
<1>3. Open(1) <=> ~(q.start_time < q.end_time) /\ minute < q.end_time
  <2>1. 1 * DayLength + minute = DayLength + minute
    BY <1>1
  <2>2. QED
    BY <1>1, <2>1 DEF Length
<1>4. ASSUME NEW ago \in 0..6, ago \notin {0, 1} PROVE ~Open(ago)
  <2>1. ago * DayLength \in Nat /\ DayLength + DayLength <= ago * DayLength
    BY <1>4, TwoDaysAtMost
  <2>2. QED
    BY <1>1, <2>1 DEF Length
<1> HIDE DEF Open
<1>5. InWindow(q, weekday, minute)
        <=> \E d \in q.days, ago \in 0..6 : ((d - 1 + ago) % 7) + 1 = weekday /\ Open(ago)
  BY DEF InWindow, Open
<1>6. (\E d \in q.days, ago \in 0..6 : ((d - 1 + ago) % 7) + 1 = weekday /\ Open(ago))
        <=> (weekday \in q.days /\ Open(0)) \/ (Yesterday(weekday) \in q.days /\ Open(1))
  <2>1. ASSUME NEW d \in q.days, NEW ago \in 0..6, ((d - 1 + ago) % 7) + 1 = weekday, Open(ago)
        PROVE  (weekday \in q.days /\ Open(0)) \/ (Yesterday(weekday) \in q.days /\ Open(1))
    <3>1. ago = 0 \/ ago = 1
      BY <1>4, <2>1
    <3>2. d \in Weekdays
      OBVIOUS
    <3>3. QED
      BY <2>1, <3>1, <3>2, DayBefore
  <2>2. Yesterday(weekday) \in Weekdays
    BY DEF Yesterday, Weekdays
  <2>3. 0 \in 0..6 /\ 1 \in 0..6
    OBVIOUS
  <2>4. QED
    BY <2>1, <2>2, <2>3, DayBefore
<1>7. QED
  BY <1>1, <1>2, <1>3, <1>5, <1>6 DEF QuietActive

LEMMA AsPreferred == RingAsPreferred
<1> SUFFICES ASSUME NEW weekday \in Weekdays, NEW minute \in Minutes
             PROVE  Loudness(Evaluate(Preferences(stored), weekday, minute))
                      = Softer(Loudness(Preferences(stored).alert_mode),
                               Ceiling(Preferences(stored), weekday, minute))
  BY DEF RingAsPreferred
<1> DEFINE p == Preferences(stored)
<1>1. /\ p \in Map /\ p.alert_mode \in {"NONE", "RING_ONLY", "NOTIFICATION_ONLY"}
      /\ p.enabled => Complete(p)
  BY PreferencesAreSound
<1> HIDE DEF p
<1>2. p.behavior \in Behaviors /\ p.enabled \in BOOLEAN
  BY <1>1 DEF Map
<1>3. p.enabled => (QuietActive(p, weekday, minute) <=> InWindow(p, weekday, minute))
  <2> SUFFICES ASSUME p.enabled PROVE QuietActive(p, weekday, minute) <=> InWindow(p, weekday, minute)
    OBVIOUS
  <2>1. /\ p.days \subseteq Weekdays /\ p.start_time \in Minutes \cup {None}
        /\ p.end_time \in Minutes \cup {None}
    BY <1>1 DEF Map
  <2>2. p.start_time \in Minutes /\ p.end_time \in Minutes /\ p.start_time # p.end_time
    BY <1>1, <2>1 DEF Complete
  <2>3. QED
    BY <2>1, <2>2, QuietIsWindow
<1>4. Loudness("NONE") = 0 /\ Loudness("NOTIFICATION_ONLY") = 1 /\ Loudness("RING_ONLY") = 2
  BY DEF Loudness
<1>5. QED
  <2>1. Loudness(Evaluate(p, weekday, minute)) = Softer(Loudness(p.alert_mode), Ceiling(p, weekday, minute))
    BY <1>1, <1>2, <1>3, <1>4 DEF Evaluate, Rings, Softer, Ceiling, Behaviors
  <2>2. QED
    BY <2>1 DEF p

\* For every map that anyone may ever store, a ring at any time of the week is
\* as loud as the member prefers, windows over midnight included.
THEOREM AlwaysAsPreferred == Spec => []RingAsPreferred
BY AsPreferred, PTL

-----------------------------------------------------------------------------
(* The requests implement one atomic map.                                  *)

\* A map of the API was not written after t.
NotAfter(m, t) == m = None \/ m \in Damaged \/ m.updated_at = None \/ m.updated_at \in 0..t

\* A request asks for what its handler does, is answered once, and has been
\* applied before only if an answer was lost; what it will write is its patch
\* combined with the map it has read, at a time since.
Requested(r) ==
  /\ pc[r] # "new" => patch[r] \in Asking
  /\ pc[r] \in {"read", "write", "final"} => patch[r] \in Patch
  /\ pc[r] \in {"rename", "device"} => patch[r] = Rename
  /\ pc[r] = "get" => patch[r] = Show
  /\ pc[r] # "over" => answer[r] = "NONE" /\ (applied[r] => LostResponses)
  /\ pc[r] = "write" =>
       /\ Combine(saw[r], patch[r]) # Invalid
       /\ \E t \in 0..clock :
            NotAfter(saw[r], t) /\ desired[r] = [Combine(saw[r], patch[r]) EXCEPT !.updated_at = t]

AtomicInv == NotAfter(stored, clock) /\ \A r \in Request : Requested(r)

LEMMA Distinct ==
  /\ Rename \notin Patch /\ Show \notin Patch /\ None \notin Asking
  /\ None \notin Nat /\ LostResponses \in BOOLEAN
BY UpdatesAssumption, PreferencesAssumption DEF UpdatesAssumption, PreferencesAssumption, Asking

LEMMA InitAtomicInv == Init => AtomicInv
BY DEF Init, AtomicInv, NotAfter, Requested

\* A request is as it was if only others have taken a step.
LEMMA RequestedKept ==
  ASSUME TypeOK, NEW q \in Request, Requested(q), clock' \in Nat, clock <= clock',
         pc'[q] = pc[q], patch'[q] = patch[q], saw'[q] = saw[q], desired'[q] = desired[q],
         answer'[q] = answer[q], applied'[q] = applied[q]
  PROVE  Requested(q)'
<1>1. clock \in Nat
  BY Constants DEF TypeOK
<1>2. 0..clock \subseteq 0..clock'
  BY <1>1
<1>3. QED
  BY <1>2 DEF Requested, NotAfter

\* So is one that has gone on without reading or writing.
LEMMA RequestedMoves ==
  ASSUME TypeOK, NEW r \in Request, Requested(r), UNCHANGED <<clock, patch, applied>>,
         \/ pc[r] # "new" /\ pc'[r] = "over"
         \/ UNCHANGED <<locals, answer>> /\ pc[r] = "write" /\ pc'[r] \in {"read", "final"}
         \/ UNCHANGED <<locals, answer>> /\ pc[r] = "rename" /\ pc'[r] = "device"
  PROVE  Requested(r)'
<1>1. UNCHANGED patch /\ (UNCHANGED locals => UNCHANGED <<saw, desired>>)
  BY DEF locals
<1>2. CASE pc[r] # "new" /\ pc'[r] = "over"
  BY <1>1, <1>2 DEF Requested
<1>3. CASE UNCHANGED <<locals, answer>> /\ pc[r] = "write" /\ pc'[r] \in {"read", "final"}
  BY <1>1, <1>3 DEF Requested
<1>4. CASE UNCHANGED <<locals, answer>> /\ pc[r] = "rename" /\ pc'[r] = "device"
  BY <1>1, <1>4 DEF Requested
<1>5. QED
  BY <1>2, <1>3, <1>4

\* What is stored stays a map of the past.
LEMMA StoredKept ==
  ASSUME TypeOK, TypeOK', NotAfter(stored, clock), clock <= clock', UNCHANGED stored
  PROVE  NotAfter(stored, clock)'
<1>1. clock \in Nat /\ clock' \in Nat
  BY Constants DEF TypeOK
<1>2. 0..clock \subseteq 0..clock'
  BY <1>1
<1>3. QED
  BY <1>2 DEF NotAfter

LEMMA ReadAtomic ==
  ASSUME UpdatesInv, AtomicInv, NEW r \in Request, Read(r) PROVE Requested(r)'
<1>1. TypeOK /\ clock \in Nat
  BY Constants DEF UpdatesInv, TypeOK
<1>2. /\ pc[r] = "read" /\ pc'[r] = "write" /\ Combine(stored, patch[r]) # Invalid
      /\ patch' = patch /\ clock' = clock /\ answer' = answer /\ applied' = applied
      /\ saw'[r] = stored
      /\ desired'[r] = [Combine(stored, patch[r]) EXCEPT !.updated_at = clock]
  BY <1>1 DEF Read, Goto, TypeOK, history, Desired, Stamp
<1>3. NotAfter(saw'[r], clock) /\ clock \in 0..clock
  BY <1>1, <1>2 DEF AtomicInv
<1>4. patch[r] \in Patch /\ patch[r] \in Asking /\ answer[r] = "NONE" /\ (applied[r] => LostResponses)
  BY <1>2 DEF AtomicInv, Requested
<1>5. \E t \in 0..clock' : /\ NotAfter(saw[r], t)'
                           /\ desired'[r] = [Combine(saw'[r], patch'[r]) EXCEPT !.updated_at = t]
  BY <1>2, <1>3 DEF NotAfter
<1>6. QED
  BY <1>2, <1>4, <1>5 DEF Requested

LEMMA ArriveAtomic ==
  ASSUME UpdatesInv, AtomicInv, NEW r \in Request, Arrive(r) PROVE Requested(r)'
<1>1. PICK a \in Asking :
        /\ patch' = [patch EXCEPT ![r] = a]
        /\ Goto(r, CASE a = Show -> "get" [] a = Rename -> "rename" [] OTHER -> "read")
  BY DEF Arrive
<1>2. /\ patch'[r] = a /\ pc[r] = "new" /\ answer' = answer /\ applied' = applied
      /\ pc'[r] = CASE a = Show -> "get" [] a = Rename -> "rename" [] OTHER -> "read"
  BY <1>1 DEF Arrive, Goto, UpdatesInv, TypeOK, history
<1>3. answer[r] = "NONE" /\ (applied[r] => LostResponses)
  BY <1>2 DEF AtomicInv, Requested
<1>4. \/ a = Show /\ pc'[r] = "get"
      \/ a = Rename /\ pc'[r] = "rename"
      \/ a \in Patch /\ pc'[r] = "read"
  BY <1>2 DEF Asking
<1>5. QED
  BY <1>2, <1>3, <1>4 DEF Requested

\* The write stores what was combined, stamped with a time of the past.
LEMMA WriteStores ==
  ASSUME UpdatesInv, AtomicInv, NEW r \in Request, pc[r] = "write", MayWrite(r), stored' = desired[r]
  PROVE  /\ status = "ACTIVE" /\ patch[r] \in Patch /\ Combine(stored, patch[r]) # Invalid
         /\ \E t \in 0..clock :
              NotAfter(stored, t) /\ stored' = [Combine(stored, patch[r]) EXCEPT !.updated_at = t]
         /\ stored'.updated_at \in 0..clock
<1>1. /\ status = "ACTIVE" /\ stored = saw[r]
      /\ patch[r] \in Patch /\ Combine(saw[r], patch[r]) # Invalid
  BY DEF MayWrite, AtomicInv, Requested
<1>2. PICK t \in 0..clock :
        NotAfter(saw[r], t) /\ desired[r] = [Combine(saw[r], patch[r]) EXCEPT !.updated_at = t]
  BY DEF AtomicInv, Requested
<1>3. Combine(saw[r], patch[r]) \in Map
  BY <1>1, Combined
<1>4. desired[r].updated_at = t
  BY <1>2, <1>3 DEF Map
<1>5. QED
  BY <1>1, <1>2, <1>4

LEMMA NextAtomicInv == UpdatesInv /\ UpdatesInv' /\ AtomicInv /\ [Next]_vars => AtomicInv'
<1> SUFFICES ASSUME UpdatesInv, UpdatesInv', AtomicInv, [Next]_vars PROVE AtomicInv'
  OBVIOUS
<1> USE DEF item, locals, history
<1>0. TypeOK /\ TypeOK' /\ clock \in Nat /\ NotAfter(stored, clock) /\ \A q \in Request : Requested(q)
  BY Constants DEF UpdatesInv, TypeOK, AtomicInv
<1>1. ASSUME NEW r \in Request, clock' = clock, NotAfter(stored, clock)', Requested(r)',
             \A q \in Request \ {r} :
               /\ pc'[q] = pc[q] /\ patch'[q] = patch[q] /\ saw'[q] = saw[q]
               /\ desired'[q] = desired[q] /\ answer'[q] = answer[q] /\ applied'[q] = applied[q]
      PROVE  AtomicInv'
  <2>1. \A q \in Request \ {r} : Requested(q)'
    BY <1>0, <1>1, RequestedKept
  <2>2. QED
    BY <1>1, <2>1 DEF AtomicInv
<1>2. ASSUME NEW r \in Request, Arrive(r) \/ Read(r) PROVE AtomicInv'
  <2>1. NotAfter(stored, clock)' /\ clock' = clock
    BY <1>0, <1>2, StoredKept DEF Arrive, Read
  <2>2. Requested(r)'
    BY <1>2, ArriveAtomic, ReadAtomic
  <2>3. \A q \in Request \ {r} :
          /\ pc'[q] = pc[q] /\ patch'[q] = patch[q] /\ saw'[q] = saw[q]
          /\ desired'[q] = desired[q] /\ answer'[q] = answer[q] /\ applied'[q] = applied[q]
    BY <1>0, <1>2 DEF Arrive, Read, Goto, TypeOK
  <2>4. QED
    BY <1>1, <2>1, <2>2, <2>3
<1>3. ASSUME NEW r \in Request,
             \/ Refused(r) \/ Unacceptable(r) \/ Conflict(r) \/ NameRefused(r) \/ ReadDevice(r)
             \/ Get(r) \/ Unavailable(r)
      PROVE  AtomicInv'
  <2>1. /\ UNCHANGED <<clock, item, patch, history>> /\ pc[r] # "new" /\ pc'[r] = "over"
        /\ \A q \in Request \ {r} :
             /\ pc'[q] = pc[q] /\ answer'[q] = answer[q]
             /\ saw'[q] = saw[q] /\ desired'[q] = desired[q]
    BY <1>0, <1>3 DEF Refused, Unacceptable, Conflict, NameRefused, ReadDevice, Get, Unavailable,
       Reply, Goto, TypeOK, Running, Reading
  <2>2. Requested(r)'
    BY <1>0, <2>1, RequestedMoves
  <2>3. NotAfter(stored, clock)'
    BY <1>0, <2>1, StoredKept
  <2>4. QED
    BY <1>1, <2>1, <2>2, <2>3
<1>4. ASSUME NEW r \in Request, WriteRefused(r) \/ WriteName(r) PROVE AtomicInv'
  <2>1. /\ UNCHANGED <<clock, stored, locals, answer, history>>
        /\ \/ pc[r] = "write" /\ pc'[r] \in {"read", "final"}
           \/ pc[r] = "rename" /\ pc'[r] = "device"
        /\ \A q \in Request \ {r} : pc'[q] = pc[q]
    BY <1>0, <1>4 DEF WriteRefused, WriteName, Goto, TypeOK
  <2>2. Requested(r)'
    BY <1>0, <2>1, RequestedMoves
  <2>3. NotAfter(stored, clock)'
    BY <1>0, <2>1, StoredKept
  <2>4. QED
    BY <1>1, <2>1, <2>2, <2>3
<1>5. ASSUME NEW r \in Request, Write(r) \/ WriteUnheard(r) PROVE AtomicInv'
  <2>1. pc[r] = "write" /\ MayWrite(r) /\ stored' = desired[r] /\ UNCHANGED <<clock, patch>>
    BY <1>5 DEF Write, WriteUnheard, Reply
  <2>2. NotAfter(stored, clock)'
    BY <2>1, WriteStores DEF NotAfter
  <2>3. Requested(r)'
    <3>1. CASE Write(r)
      <4>1. pc'[r] = "over" /\ patch[r] \in Asking
        BY <1>0, <3>1 DEF Write, Reply, Goto, TypeOK, Requested
      <4>2. QED
        BY <2>1, <4>1 DEF Requested
    <3>2. CASE WriteUnheard(r)
      <4>1. UNCHANGED <<clock, pc, locals, answer>> /\ LostResponses
        BY <3>2 DEF WriteUnheard
      <4>2. QED
        BY <1>0, <4>1 DEF Requested, NotAfter
    <3>3. QED
      BY <1>5, <3>1, <3>2
  <2>4. \A q \in Request \ {r} :
          /\ pc'[q] = pc[q] /\ answer'[q] = answer[q] /\ applied'[q] = applied[q]
          /\ saw'[q] = saw[q] /\ desired'[q] = desired[q]
    BY <1>0, <1>5 DEF Write, WriteUnheard, Reply, Goto, TypeOK
  <2>5. QED
    BY <1>1, <2>1, <2>2, <2>3, <2>4
<1>6. CASE Administer
  <2>1. UNCHANGED <<clock, pc, locals, answer, applied>> /\ stored' \in {stored, None} \cup Damaged
    BY <1>6 DEF Administer
  <2>2. NotAfter(stored, clock)'
    BY <1>0, <2>1 DEF NotAfter
  <2>3. \A q \in Request : Requested(q)'
    BY <1>0, <2>1, RequestedKept
  <2>4. QED
    BY <2>2, <2>3 DEF AtomicInv
<1>7. CASE Tick \/ UNCHANGED vars
  <2>1. UNCHANGED <<item, pc, locals, answer, history>> /\ clock <= clock' /\ clock' \in Nat
    BY <1>0, <1>7 DEF Tick, vars
  <2>2. NotAfter(stored, clock)'
    BY <1>0, <2>1, StoredKept
  <2>3. \A q \in Request : Requested(q)'
    BY <1>0, <2>1, RequestedKept
  <2>4. QED
    BY <2>2, <2>3 DEF AtomicInv
<1>8. QED
  BY <1>2, <1>3, <1>4, <1>5, <1>6, <1>7 DEF Next, Handle, Update

LEMMA SameCombine == \A s, p : Abstract!Combine(s, p) = Combine(s, p)
BY DEF Abstract!Combine, Combine, Abstract!Defaults, Defaults, Abstract!Merge, Merge,
   Abstract!StoredFields, StoredFields, Abstract!ClientFields, ClientFields, Abstract!Valid, Valid,
   Abstract!Map, Map, Abstract!Complete, Complete, Abstract!Normal, Normal, Abstract!AlertModes,
   AlertModes, Abstract!Behaviors, Behaviors, Abstract!Weekdays, Weekdays, Abstract!Minutes, Minutes

LEMMA InitRefines == Init => Abstract!Init
BY DEF Init, Abstract!Init, Asked

\* Once a request is made, what it asks for stands.
LEMMA AskedKept ==
  ASSUME TypeOK, UNCHANGED patch, \A r \in Request : pc[r] = "new" <=> pc'[r] = "new"
  PROVE  Asked' = Asked
BY DEF TypeOK, Asked

LEMMA RunningIsOpen ==
  ASSUME AtomicInv, NEW r \in Request, pc[r] \notin {"new", "over"}
  PROVE  Abstract!Open(r) /\ Asked[r] = patch[r] /\ (applied[r] => LostResponses)
<1>1. patch[r] \in Asking /\ answer[r] = "NONE" /\ (applied[r] => LostResponses)
  BY DEF AtomicInv, Requested
<1>2. Asked[r] = patch[r]
  BY DEF Asked
<1>3. QED
  BY <1>1, <1>2, Distinct DEF Abstract!Open

LEMMA ArriveRefines ==
  ASSUME TypeOK, NEW r \in Request, Arrive(r) PROVE Abstract!Ask(r)
<1>1. PICK a \in Asking :
        /\ patch' = [patch EXCEPT ![r] = a]
        /\ Goto(r, CASE a = Show -> "get" [] a = Rename -> "rename" [] OTHER -> "read")
  BY DEF Arrive
<1>2. PICK where \in {"get", "rename", "read"} : Goto(r, where)
  <2>1. (CASE a = Show -> "get" [] a = Rename -> "rename" [] OTHER -> "read") \in {"get", "rename", "read"}
    OBVIOUS
  <2>2. QED
    BY <1>1, <2>1
<1>3. pc[r] = "new" /\ UNCHANGED <<clock, status, stored, answer, applied>>
  BY DEF Arrive, item, history
<1>4. Asked[r] = None /\ Asked' = [Asked EXCEPT ![r] = a]
  BY <1>1, <1>2, <1>3 DEF TypeOK, Asked, Goto
<1>5. QED
  BY <1>3, <1>4 DEF Abstract!Ask, Asking

LEMMA WriteRefines ==
  ASSUME UpdatesInv, AtomicInv, NEW r \in Request, Write(r) \/ WriteUnheard(r)
  PROVE  Abstract!Apply(r)
<1>1. TypeOK /\ pc[r] = "write" /\ MayWrite(r) /\ stored' = desired[r] /\ UNCHANGED <<clock, status, patch>>
  BY DEF UpdatesInv, Write, WriteUnheard, Reply, locals
<1>2. Abstract!Open(r) /\ Asked[r] = patch[r] /\ (applied[r] => LostResponses)
  BY <1>1, RunningIsOpen
<1>3. /\ status = "ACTIVE" /\ patch[r] \in Patch /\ Combine(stored, patch[r]) # Invalid
      /\ \E t \in 0..clock :
           NotAfter(stored, t) /\ stored' = [Combine(stored, patch[r]) EXCEPT !.updated_at = t]
  BY <1>1, WriteStores
<1>4. \E t \in Abstract!Since..clock :
        stored' = [Abstract!Combine(stored, Asked[r]) EXCEPT !.updated_at = t]
  <2>1. PICK t \in 0..clock :
          NotAfter(stored, t) /\ stored' = [Combine(stored, patch[r]) EXCEPT !.updated_at = t]
    BY <1>3
  <2>2. t \in Abstract!Since..clock
    <3>1. clock \in Nat
      BY <1>1, Constants DEF TypeOK
    <3>2. Abstract!Since \in 0..t
      BY <2>1, <3>1 DEF NotAfter, Abstract!Since
    <3>3. QED
      BY <3>1, <3>2
  <2>3. QED
    BY <1>2, <2>1, <2>2, SameCombine
<1>5. applied' = [applied EXCEPT ![r] = TRUE]
  BY DEF Write, WriteUnheard
<1>6. answer' = [answer EXCEPT ![r] = "200"] \/ (LostResponses /\ UNCHANGED answer)
  BY DEF Write, WriteUnheard, Reply
<1>7. Asked' = Asked
  <2>1. \A q \in Request : pc[q] = "new" <=> pc'[q] = "new"
    BY <1>1 DEF Write, WriteUnheard, Reply, Goto, TypeOK
  <2>2. QED
    BY <1>1, <2>1, AskedKept
<1>8. QED
  BY <1>1, <1>2, <1>3, <1>4, <1>5, <1>6, <1>7, SameCombine DEF Abstract!Apply

\* An answer that changes nothing is one the abstract map may give.
LEMMA AnswerRefines ==
  ASSUME UpdatesInv, AtomicInv, NEW r \in Request,
         \/ Refused(r) \/ Unacceptable(r) \/ Conflict(r) \/ NameRefused(r) \/ ReadDevice(r)
         \/ Get(r) \/ Unavailable(r)
  PROVE  Abstract!Answer(r)
<1>1. TypeOK /\ UNCHANGED <<clock, status, stored, patch, applied>> /\ pc[r] \in Running
  BY DEF UpdatesInv, Refused, Unacceptable, Conflict, NameRefused, ReadDevice, Get, Unavailable,
     Reply, item, history, Running, Reading
<1>2. Abstract!Open(r) /\ Asked[r] = patch[r] /\ (applied[r] => LostResponses)
  BY <1>1, RunningIsOpen DEF Running, Reading
<1>3. Requested(r)
  BY DEF AtomicInv
<1>4. PICK code \in {"200", "400", "404", "409", "500", "503"} : Reply(r, code) /\ Abstract!May(r, code)
  <2>1. CASE Refused(r) \/ NameRefused(r)
    BY <2>1 DEF Refused, NameRefused, Abstract!May
  <2>2. CASE Unacceptable(r)
    BY <1>2, <1>3, <2>2, SameCombine DEF Unacceptable, Requested, Abstract!May
  <2>3. CASE Conflict(r)
    BY <1>2, <1>3, <2>3 DEF Conflict, Requested, Abstract!May
  <2>4. CASE ReadDevice(r)
    <3>1. patch[r] = Rename /\ patch[r] \notin Patch
      BY <1>3, <2>4, Distinct DEF ReadDevice, Requested
    <3>2. Abstract!May(r, "200") /\ Abstract!May(r, "500")
      BY <1>2, <3>1 DEF Abstract!May
    <3>3. QED
      BY <2>4, <3>2 DEF ReadDevice
  <2>5. CASE Get(r)
    <3>1. patch[r] = Show /\ patch[r] \notin Patch
      BY <1>3, <2>5, Distinct DEF Get, Requested
    <3>2. /\ status = "ACTIVE" /\ Combine(stored, None) # Invalid => Abstract!May(r, "200")
          /\ Abstract!May(r, "500")
      BY <1>2, <3>1, SameCombine DEF Abstract!May
    <3>3. QED
      BY <2>5, <3>2 DEF Get
  <2>6. CASE Unavailable(r)
    BY <2>6 DEF Unavailable, Abstract!May
  <2>7. QED
    BY <2>1, <2>2, <2>3, <2>4, <2>5, <2>6
<1>5. answer' = [answer EXCEPT ![r] = code] /\ Asked' = Asked
  <2>1. \A q \in Request : pc[q] = "new" <=> pc'[q] = "new"
    BY <1>1, <1>4 DEF Reply, Goto, TypeOK, Running, Reading
  <2>2. QED
    BY <1>1, <1>4, <2>1, AskedKept DEF Reply
<1>6. QED
  BY <1>1, <1>2, <1>4, <1>5 DEF Abstract!Answer

LEMMA NextRefines ==
  ASSUME UpdatesInv, AtomicInv, [Next]_vars PROVE [Abstract!Next]_(Abstract!vars)
<1> USE DEF item, locals, history
<1>0. TypeOK
  BY DEF UpdatesInv
<1>1. ASSUME NEW r \in Request, Read(r) \/ WriteRefused(r) \/ WriteName(r)
      PROVE  UNCHANGED Abstract!vars
  <2>1. /\ UNCHANGED <<clock, status, stored, patch, answer, applied>>
        /\ \A q \in Request : pc[q] = "new" <=> pc'[q] = "new"
    BY <1>0, <1>1 DEF Read, WriteRefused, WriteName, Goto, TypeOK
  <2>2. QED
    BY <1>0, <2>1, AskedKept DEF Abstract!vars
<1>2. CASE Administer
  <2>1. /\ UNCHANGED <<clock, pc, patch, answer, applied>> /\ stored' \in {stored, None} \cup Damaged
    BY <1>2 DEF Administer
  <2>2. QED
    BY <1>0, <2>1, AskedKept DEF Abstract!Next, Abstract!Administer
<1>3. CASE Tick
  BY <1>0, <1>3, AskedKept DEF Tick, Abstract!Next, Abstract!Tick
<1>4. CASE UNCHANGED vars
  BY <1>0, <1>4, AskedKept DEF vars, Abstract!vars
<1>5. ASSUME NEW r \in Request, Arrive(r) PROVE Abstract!Next
  BY <1>0, <1>5, ArriveRefines DEF Abstract!Next
<1>6. ASSUME NEW r \in Request, Write(r) \/ WriteUnheard(r) PROVE Abstract!Next
  BY <1>6, WriteRefines DEF Abstract!Next
<1>7. ASSUME NEW r \in Request,
             \/ Refused(r) \/ Unacceptable(r) \/ Conflict(r) \/ NameRefused(r) \/ ReadDevice(r)
             \/ Get(r) \/ Unavailable(r)
      PROVE  Abstract!Next
  BY <1>7, AnswerRefines DEF Abstract!Next
<1>8. QED
  BY <1>1, <1>2, <1>3, <1>4, <1>5, <1>6, <1>7 DEF Next, Handle, Update

\* The reads and conditional writes of any number of requests, retried and
\* perhaps applied twice, look like one map that is patched atomically: no patch
\* is lost or combined with a map that was no longer stored.
THEOREM UpdatesRefine == Spec => ImplementsMemberPreferences
<1>1. Init => Abstract!Init /\ AtomicInv
  BY InitRefines, InitAtomicInv
<1>2. UpdatesInv /\ UpdatesInv' /\ AtomicInv /\ [Next]_vars => AtomicInv'
  BY NextAtomicInv
<1>3. UpdatesInv /\ AtomicInv /\ [Next]_vars => [Abstract!Next]_(Abstract!vars)
  BY NextRefines
<1>4. QED
  BY <1>1, <1>2, <1>3, UpdatesInvariant, PTL DEF Spec, Abstract!Spec, ImplementsMemberPreferences

-----------------------------------------------------------------------------
(* What combine() has accepted it accepts again, and leaves as it is.      *)

Settled(m) ==
  /\ m \in Map
  /\ m.alert_mode # "RING_AND_NOTIFICATION"
  /\ m.enabled => Complete(m)

LEMMA SettledIsMap ==
  ASSUME NEW m, Settled(m)
  PROVE  /\ m # None /\ DOMAIN m = StoredFields /\ m = [f \in StoredFields |-> m[f]]
         /\ \A values : DOMAIN values = StoredFields => Merge(values, m) = m
<1>1. m # None
  BY MapsAssumption DEF Settled
<1>2. DOMAIN m = StoredFields /\ m = [f \in StoredFields |-> m[f]]
  BY DEF Settled, Map, StoredFields, ClientFields
<1>3. QED
  BY <1>1, <1>2 DEF Merge

LEMMA NormalStays ==
  ASSUME NEW m, Settled(m)
  PROVE  /\ Normal(m) = m
         /\ Normal([m EXCEPT !.alert_mode = "RING_AND_NOTIFICATION"])
              = [m EXCEPT !.alert_mode = "RING_ONLY"]
<1>1. m = [m EXCEPT !.alert_mode = m.alert_mode]
  BY DEF Settled, Map
<1>2. Normal(m) = [m EXCEPT !.alert_mode = m.alert_mode]
  BY DEF Normal, Settled
<1>3. DEFINE v == [m EXCEPT !.alert_mode = "RING_AND_NOTIFICATION"]
<1>4. v.alert_mode = "RING_AND_NOTIFICATION"
  BY DEF Settled, Map
<1>5. Normal(v) = [v EXCEPT !.alert_mode = "RING_ONLY"]
  BY <1>4 DEF Normal
<1>6. [v EXCEPT !.alert_mode = "RING_ONLY"] = [m EXCEPT !.alert_mode = "RING_ONLY"]
  BY DEF Settled, Map
<1>7. QED
  BY <1>1, <1>2, <1>5, <1>6

LEMMA CombineStays ==
  ASSUME NEW m, Settled(m) PROVE Combine(m, None) = m /\ Preferences(m) = m
<1>1. DOMAIN Defaults = StoredFields
  BY DEF Defaults, StoredFields, ClientFields
<1>2. m # None /\ DOMAIN m \subseteq StoredFields /\ Merge(Defaults, m) = m
  BY <1>1, SettledIsMap
<1>3. Valid(m) /\ Normal(m) = m
  BY NormalStays DEF Settled, Valid
<1>4. Combine(m, None) = m
  BY <1>2, <1>3 DEF Combine
<1>5. QED
  BY <1>4, MapsAssumption DEF Preferences, Settled

LEMMA CombinedIsSettled ==
  ASSUME NEW s, NEW p, Combine(s, p) # Invalid, NEW t \in Nat
  PROVE  Settled(Combine(s, p)) /\ Settled([Combine(s, p) EXCEPT !.updated_at = t])
<1>1. Settled(Combine(s, p))
  BY Combined DEF Settled
<1>2. DEFINE m == Combine(s, p)
             n == [m EXCEPT !.updated_at = t]
<1>3. m \in Map /\ m.alert_mode # "RING_AND_NOTIFICATION" /\ (m.enabled => Complete(m))
  BY <1>1 DEF Settled
<1>4. HIDE DEF m
<1>5. n \in Map
  BY <1>3, StampedIsMap
<1>6. n.alert_mode = m.alert_mode /\ n.enabled = m.enabled /\ (Complete(m) => Complete(n))
  BY <1>3 DEF Map, Complete
<1>7. Settled(n)
  BY <1>3, <1>5, <1>6 DEF Settled
<1>8. QED
  BY <1>1, <1>7 DEF m

\* What a patch of the API has left in the map is the patch itself, field by
\* field; only RING_AND_NOTIFICATION has become RING_ONLY.
LEMMA PatchIsThere ==
  ASSUME NEW s, NEW p, p # None, Combine(s, p) # Invalid, NEW f \in DOMAIN p
  PROVE  /\ DOMAIN p \subseteq ClientFields
         /\ f # "alert_mode" => Combine(s, p)[f] = p[f]
         /\ f = "alert_mode" =>
              \/ Combine(s, p)[f] = p[f] /\ p[f] # "RING_AND_NOTIFICATION"
              \/ Combine(s, p)[f] = "RING_ONLY" /\ p[f] = "RING_AND_NOTIFICATION"
<1>1. PICK base : LET v == Merge(base, p) IN
        DOMAIN p \subseteq ClientFields /\ Valid(v) /\ Combine(s, p) = Normal(v)
  BY DEF Combine
<1>2. DEFINE v == Merge(base, p)
<1>3. DOMAIN p \subseteq ClientFields /\ v \in Map /\ Combine(s, p) = Normal(v)
  BY <1>1 DEF Valid
<1>4. v[f] = p[f] /\ f \in StoredFields
  BY <1>3 DEF Merge, StoredFields
<1>5. HIDE DEF v
<1>6. PICK mode : /\ Normal(v) = [v EXCEPT !.alert_mode = mode]
                  /\ mode = IF v.alert_mode = "RING_AND_NOTIFICATION" THEN "RING_ONLY" ELSE v.alert_mode
  BY <1>3 DEF Normal, Map
<1>7. DOMAIN v = StoredFields /\ "alert_mode" \in StoredFields
  BY <1>3 DEF Map, StoredFields, ClientFields
<1>8. QED
  BY <1>3, <1>4, <1>6, <1>7

\* A patch that is applied twice, as by a request whose first write was applied
\* but refused when the SDK sent it again, is applied once: the second time it
\* changes nothing but the time of the update (combine, update_notification_preferences).
THEOREM PatchAgain ==
  ASSUME NEW s, NEW p, p # None, Combine(s, p) # Invalid, NEW t \in Nat
  PROVE  LET m == [Combine(s, p) EXCEPT !.updated_at = t] IN Combine(m, p) = m
<1> DEFINE m == [Combine(s, p) EXCEPT !.updated_at = t]
           v == Merge(m, p)
<1>1. Settled(m) /\ Settled(Combine(s, p))
  BY CombinedIsSettled
<1>2. m # None /\ DOMAIN m = StoredFields /\ m = [f \in StoredFields |-> m[f]]
  BY <1>1, SettledIsMap
<1>3. \A f \in StoredFields \ {"updated_at"} : m[f] = Combine(s, p)[f]
  <2>1. DOMAIN Combine(s, p) = StoredFields
    BY <1>1, SettledIsMap
  <2>2. QED
    BY <2>1
<1>4. DOMAIN p \subseteq ClientFields
  BY DEF Combine
<1>5. \A f \in DOMAIN p : f \in StoredFields \ {"updated_at"}
  BY <1>4 DEF ClientFields, StoredFields
<1>6. Merge(Defaults, m) = m
  BY <1>1, SettledIsMap DEF Defaults, StoredFields, ClientFields
<1>7. /\ v = [f \in StoredFields |-> v[f]]
      /\ \A f \in StoredFields \ {"alert_mode"} : v[f] = m[f]
      /\ \/ v["alert_mode"] = m["alert_mode"]
         \/ v["alert_mode"] = "RING_AND_NOTIFICATION" /\ m["alert_mode"] = "RING_ONLY"
  <2>1. v = [f \in StoredFields |-> IF f \in DOMAIN p THEN p[f] ELSE m[f]]
    BY DEF Merge
  <2>2. "alert_mode" \in StoredFields
    BY DEF StoredFields, ClientFields
  <2>3. QED
    BY <1>3, <1>5, <2>1, <2>2, PatchIsThere
<1>8. HIDE DEF m, v
<1>9. v = m \/ (v = [m EXCEPT !.alert_mode = "RING_AND_NOTIFICATION"] /\ m["alert_mode"] = "RING_ONLY")
  BY <1>2, <1>7
<1>10. Normal(v) = m
  <2>1. m.alert_mode = "RING_ONLY" => m = [m EXCEPT !.alert_mode = "RING_ONLY"]
    BY <1>2
  <2>2. QED
    BY <1>1, <1>9, <2>1, NormalStays
<1>11. Valid(v)
  <2>1. CASE v = m
    BY <1>1, <2>1 DEF Valid, Settled
  <2>2. CASE v = [m EXCEPT !.alert_mode = "RING_AND_NOTIFICATION"]
    <3>1. v \in Map /\ v.enabled = m.enabled /\ (Complete(m) => Complete(v))
      BY <1>1, <2>2 DEF Settled, Map, AlertModes, Complete
    <3>2. QED
      BY <1>1, <3>1 DEF Settled, Valid
  <2>3. QED
    BY <1>9, <2>1, <2>2
<1>12. Combine(m, p) = Normal(v)
  BY <1>2, <1>4, <1>6, <1>11 DEF Combine, v
<1>13. QED
  BY <1>10, <1>12 DEF m

\* What the API has written is what GET shows and push_sender decides by: neither
\* meets a map it must refuse (500) or replace by the defaults.
StoredIsServed ==
  stored \in {None} \cup Damaged \/ (Combine(stored, None) = stored /\ Preferences(stored) = stored)

\* A write of combine()'s result is read back as it was written, however the
\* requests interleave.
THEOREM AcceptedIsServed == Spec => []StoredIsServed
<1>1. Init => UpdatesInv /\ AtomicInv /\ StoredIsServed
  BY InitInv, InitAtomicInv DEF Init, StoredIsServed
<1>2. ASSUME UpdatesInv, AtomicInv, StoredIsServed, [Next]_vars PROVE StoredIsServed'
  <2>1. ASSUME NEW r \in Request, Write(r) \/ WriteUnheard(r) PROVE StoredIsServed'
    <3>1. PICK t \in 0..clock : /\ Combine(stored, patch[r]) # Invalid
                                /\ stored' = [Combine(stored, patch[r]) EXCEPT !.updated_at = t]
      BY <1>2, <2>1, WriteStores DEF Write, WriteUnheard
    <3>2. t \in Nat
      BY <1>2, Constants DEF UpdatesInv, TypeOK
    <3>3. Settled(stored')
      BY <3>1, <3>2, CombinedIsSettled
    <3>4. QED
      BY <3>3, CombineStays DEF StoredIsServed
  <2>2. CASE Administer
    BY <1>2, <2>2 DEF Administer, StoredIsServed
  <2>3. CASE UNCHANGED stored
    BY <1>2, <2>3 DEF StoredIsServed
  <2>4. QED
    BY <1>2, <2>1, <2>2, <2>3 DEF Next, Arrive, Handle, Update, Read, Unacceptable, WriteRefused,
       Conflict, Refused, WriteName, NameRefused, ReadDevice, Get, Unavailable, Tick, vars, item
<1>3. UpdatesInv /\ UpdatesInv' /\ AtomicInv /\ [Next]_vars => AtomicInv'
  BY NextAtomicInv
<1>4. QED
  BY <1>1, <1>2, <1>3, UpdatesInvariant, PTL DEF Spec

-----------------------------------------------------------------------------
(* Termination: a request reads, and writes, at most MAX_PREFERENCE_       *)
(* UPDATE_ATTEMPTS times.                                                  *)

StepsLeft(r) ==
  CASE pc[r] = "new"                 -> 2 * MaxAttempts + 3
    [] pc[r] = "read"                -> 2 * (MaxAttempts - attempt[r]) + 2
    [] pc[r] = "write"               -> 2 * (MaxAttempts - attempt[r]) + 3
    [] pc[r] = "rename"              -> 2
    [] pc[r] \in {"final", "device", "get"} -> 1
    [] pc[r] = "over"                -> 0

\* Every step of a request but an unheard write leaves it fewer steps; nothing
\* another request or the administration does gives it more.
RetriesRunOut ==
  \A r \in Request :
    /\ StepsLeft(r) \in Nat
    /\ \/ StepsLeft(r)' < StepsLeft(r)
       \/ StepsLeft(r)' = StepsLeft(r) /\ pc'[r] = pc[r]

LEMMA StepsLeftIsNat == ASSUME TypeOK, NEW r \in Request PROVE StepsLeft(r) \in Nat
<1>1. pc[r] \in {"new", "read", "write", "rename", "final", "device", "get", "over"}
  BY DEF TypeOK, Running, Reading
<1>2. attempt[r] \in 0..MaxAttempts
  BY DEF TypeOK
<1>3. QED
  BY <1>1, <1>2, Constants DEF StepsLeft

LEMMA OwnStep ==
  ASSUME UpdatesInv, NEW r \in Request, Arrive(r) \/ Handle(r) \/ Unavailable(r)
  PROVE  StepsLeft(r)' < StepsLeft(r)
<1> attempt[r] \in 0..MaxAttempts /\ MaxAttempts \in Nat \ {0} /\ Disturbed(r) /\ TypeOK
  BY Constants DEF UpdatesInv, TypeOK
<1> USE DEF StepsLeft, Goto, Reply
<1>1. CASE Arrive(r)
  <2>1. pc[r] = "new" /\ pc'[r] \in {"get", "rename", "read"} /\ attempt'[r] = attempt[r]
    BY <1>1 DEF Arrive, TypeOK
  <2>2. QED
    BY <2>1 DEF Disturbed
<1>2. CASE Read(r)
  <2>1. pc[r] = "read" /\ pc'[r] = "write" /\ attempt'[r] = attempt[r] + 1
    BY <1>2 DEF Read, Attempts, TypeOK
  <2>2. QED
    BY <2>1
<1>3. CASE WriteRefused(r)
  <2>1. pc[r] = "write" /\ pc'[r] \in {"read", "final"} /\ attempt'[r] = attempt[r]
    BY <1>3 DEF WriteRefused, TypeOK, locals
  <2>2. QED
    BY <2>1
<1>4. CASE WriteName(r)
  BY <1>4 DEF WriteName, TypeOK
<1>5. ASSUME pc[r] \in Running, pc'[r] = "over" PROVE StepsLeft(r)' < StepsLeft(r)
  <2>1. pc[r] \in {"read", "write", "rename", "final", "device", "get"}
    BY <1>5 DEF Running, Reading
  <2>2. QED
    BY <1>5, <2>1
<1>6. CASE Write(r) \/ Unacceptable(r) \/ Conflict(r) \/ Refused(r) \/ NameRefused(r) \/ ReadDevice(r)
           \/ Get(r) \/ Unavailable(r)
  BY <1>5, <1>6 DEF Write, Unacceptable, Conflict, Refused, NameRefused, ReadDevice, Get, Unavailable,
     Running, Reading, TypeOK
<1>7. QED
  BY <1>1, <1>2, <1>3, <1>4, <1>6 DEF Handle, Update

\* The retries of a PATCH end however others keep changing the map: what the
\* fairness of EveryRequestAnswered needs is only that the execution goes on.
THEOREM RequestsTerminate == Spec => [][RetriesRunOut]_vars
<1>1. ASSUME UpdatesInv, [Next]_vars PROVE RetriesRunOut
  <2>1. \A r \in Request : StepsLeft(r) \in Nat
    BY <1>1, StepsLeftIsNat DEF UpdatesInv
  <2>2. ASSUME NEW s \in Request, pc'[s] = pc[s], attempt'[s] = attempt[s]
        PROVE  StepsLeft(s)' = StepsLeft(s)
    BY <2>2 DEF StepsLeft
  <2>3. ASSUME NEW r \in Request, Arrive(r) \/ Handle(r) \/ Unavailable(r)
        PROVE  \A s \in Request \ {r} : pc'[s] = pc[s] /\ attempt'[s] = attempt[s]
    BY <1>1, <2>3 DEF Handle, Update, Arrive, Read, Unacceptable, Write, WriteRefused, Conflict, Refused,
       WriteName, NameRefused, ReadDevice, Get, Unavailable, Goto, Reply, locals, UpdatesInv, TypeOK
  <2>4. CASE UNCHANGED <<pc, attempt>>
    BY <2>1, <2>2, <2>4 DEF RetriesRunOut
  <2>5. ASSUME NEW r \in Request, Arrive(r) \/ Handle(r) \/ Unavailable(r) PROVE RetriesRunOut
    <3>1. StepsLeft(r)' < StepsLeft(r)
      BY <1>1, <2>5, OwnStep
    <3>2. \A s \in Request \ {r} : StepsLeft(s)' = StepsLeft(s) /\ pc'[s] = pc[s]
      BY <2>2, <2>3, <2>5
    <3>3. QED
      BY <2>1, <3>1, <3>2 DEF RetriesRunOut
  <2>6. QED
    BY <1>1, <2>4, <2>5 DEF Next, WriteUnheard, Administer, Tick, vars, locals
<1>2. QED
  BY <1>1, UpdatesInvariant, PTL DEF Spec
=============================================================================
