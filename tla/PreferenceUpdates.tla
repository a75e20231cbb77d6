-------------------------- MODULE PreferenceUpdates --------------------------
(***************************************************************************)
(* One membership and the requests of its user (lambdas/device_api):       *)
(* PATCH notification_preferences, a read and a conditional write that are *)
(* tried a few times; PATCH display_name, one conditional write; and GET.  *)
(* Every DynamoDB call is one action.                                      *)
(***************************************************************************)
EXTENDS AlertPreferences

CONSTANTS
  Request,       \* the requests
  Patch,         \* what PATCH may be asked for
  Rename, Show,  \* PATCH display_name, GET
  Name,          \* the display names
  Damaged,       \* maps written by others that combine() refuses
  MaxAttempts,   \* MAX_PREFERENCE_UPDATE_ATTEMPTS
  Horizon,       \* bound: the last second of the clock
  LostResponses  \* may the answer to an applied write be lost and the SDK resend it?

ASSUME UpdatesAssumption ==
  /\ MaxAttempts \in Nat \ {0} /\ Horizon \in Nat
  /\ LostResponses \in BOOLEAN
  /\ \A d \in Damaged : Combine(d, None) = Invalid
  /\ Rename \notin Patch /\ Show \notin Patch /\ None \notin Patch \cup {Rename, Show}

VARIABLES
  clock,       \* the handlers' clock, in seconds
  status,      \* the status of the membership, ABSENT if there is none
  stored,      \* its notification_preferences
  name,        \* its display_name
  pc,          \* where each request is
  patch,       \* what it asks for
  saw,         \* the map it has read
  desired,     \* the map it will write
  attempt,     \* how often it has read
  answer,      \* its HTTP status
  \* History, for the properties only:
  applied,     \* has its patch been applied?
  interfered   \* how often the map was changed since it began, up to MaxAttempts

item    == <<status, stored, name>>
locals  == <<patch, saw, desired, attempt>>
history == <<applied, interfered>>
vars    == <<clock, item, pc, locals, answer, history>>

-----------------------------------------------------------------------------
Asking   == Patch \cup {Rename, Show}
Reading  == {"read", "final", "device", "get"}
Running  == Reading \cup {"write", "rename"}
Answers  == {"NONE", "200", "400", "404", "409", "500", "503"}

TypeOK ==
  /\ clock \in 0..Horizon
  /\ status \in {"ACTIVE", "REVOKED", "ABSENT"}
  /\ stored \in Map \cup {None} \cup Damaged
  /\ name \in Name \cup {None}
  /\ pc \in [Request -> Running \cup {"new", "over"}]
  /\ patch \in [Request -> Asking \cup {None}]
  /\ saw \in [Request -> Map \cup {None} \cup Damaged]
  /\ desired \in [Request -> Map \cup {None}]
  /\ attempt \in [Request -> 0..MaxAttempts]
  /\ answer \in [Request -> Answers]
  /\ applied \in [Request -> BOOLEAN]
  /\ interfered \in [Request -> 0..MaxAttempts]

Init ==
  /\ clock = 0
  /\ status = "ACTIVE" /\ stored = None /\ name = None
  /\ pc = [r \in Request |-> "new"]
  /\ patch = [r \in Request |-> None]
  /\ saw = [r \in Request |-> None]
  /\ desired = [r \in Request |-> None]
  /\ attempt = [r \in Request |-> 0]
  /\ answer = [r \in Request |-> "NONE"]
  /\ applied = [r \in Request |-> FALSE]
  /\ interfered = [r \in Request |-> 0]

Goto(r, where) == pc' = [pc EXCEPT ![r] = where]

\* The answer ends the execution and its variables; patch stays for the properties.
Reply(r, code) ==
  /\ Goto(r, "over")
  /\ answer' = [answer EXCEPT ![r] = code]
  /\ saw' = [saw EXCEPT ![r] = None]
  /\ desired' = [desired EXCEPT ![r] = None]
  /\ attempt' = [attempt EXCEPT ![r] = 0]
  /\ UNCHANGED patch

\* The map, or the membership, has changed under the requests of rs.
Interfere(rs) ==
  interfered' = [r \in Request |-> IF r \in rs /\ pc[r] \in Running /\ interfered[r] < MaxAttempts
                                  THEN interfered[r] + 1 ELSE interfered[r]]

-----------------------------------------------------------------------------
\* A well-formed request.
Arrive(r) ==
  /\ pc[r] = "new"
  /\ \E a \in Asking :
       /\ patch' = [patch EXCEPT ![r] = a]
       /\ Goto(r, CASE a = Show -> "get" [] a = Rename -> "rename" [] OTHER -> "read")
  /\ UNCHANGED <<clock, item, saw, desired, attempt, answer, history>>

\* _membership: whoever is not an active member learns nothing else.
Refused(r) ==
  /\ pc[r] \in {"read", "final", "get"}
  /\ status # "ACTIVE"
  /\ Reply(r, "404")
  /\ UNCHANGED <<clock, item, history>>

(* update_notification_preferences.                                        *)

Stamp(v) == [v EXCEPT !.updated_at = clock]

Restarted(r) == 1                            \* mutant: the attempts are not added up
Attempts(r) == attempt[r] + 1

Raw(r) == Stamp(Merge(IF stored = None THEN Defaults ELSE stored, patch[r]))   \* mutant
Desired(r) == Stamp(Combine(stored, patch[r]))

Read(r) ==
  /\ pc[r] = "read"
  /\ status = "ACTIVE"
  /\ Combine(stored, patch[r]) # Invalid
  /\ saw' = [saw EXCEPT ![r] = stored]
  /\ desired' = [desired EXCEPT ![r] = Desired(r)]
  /\ attempt' = [attempt EXCEPT ![r] = Attempts(r)]
  /\ Goto(r, "write")
  /\ UNCHANGED <<clock, item, patch, answer, history>>

\* The patch is validated together with what is stored, at each attempt.
Unacceptable(r) ==
  /\ pc[r] = "read"
  /\ status = "ACTIVE"
  /\ Combine(stored, patch[r]) = Invalid
  /\ Reply(r, "400")
  /\ UNCHANGED <<clock, item, history>>

Unconditional(r) == status = "ACTIVE"                     \* mutant: the map is not compared
WholeItem(r) == status = "ACTIVE" /\ stored = saw[r] /\ name = None   \* mutant: the name too
MayWrite(r) == status = "ACTIVE" /\ stored = saw[r]

Write(r) ==
  /\ pc[r] = "write"
  /\ MayWrite(r)
  /\ stored' = desired[r]
  /\ applied' = [applied EXCEPT ![r] = TRUE]
  /\ Interfere(Request \ {r})
  /\ Reply(r, "200")
  /\ UNCHANGED <<clock, status, name>>

\* The write is applied, its answer lost, and the SDK sends it again.
WriteUnheard(r) ==
  /\ LostResponses /\ ~applied[r]      \* bound: once
  /\ pc[r] = "write"
  /\ MayWrite(r)
  /\ stored' = desired[r]
  /\ applied' = [applied EXCEPT ![r] = TRUE]
  /\ Interfere(Request)
  /\ UNCHANGED <<clock, status, name, pc, locals, answer>>

OneMore(r) == attempt[r] <= MaxAttempts                   \* mutant: off by one
MayRetry(r) == attempt[r] < MaxAttempts

WriteRefused(r) ==
  /\ pc[r] = "write"
  /\ ~MayWrite(r)
  /\ Goto(r, IF MayRetry(r) THEN "read" ELSE "final")
  /\ UNCHANGED <<clock, item, locals, answer, history>>

Conflict(r) ==
  /\ pc[r] = "final"
  /\ status = "ACTIVE"
  /\ Reply(r, "409")
  /\ UNCHANGED <<clock, item, history>>

(* update_device_name.                                                     *)

WriteName(r) ==
  /\ pc[r] = "rename"
  /\ status = "ACTIVE"
  /\ \E n \in Name \cup {None} : name' = n
  /\ Goto(r, "device")
  /\ UNCHANGED <<clock, status, stored, locals, answer, history>>

NameRefused(r) ==
  /\ pc[r] = "rename"
  /\ status # "ACTIVE"
  /\ Reply(r, "404")
  /\ UNCHANGED <<clock, item, history>>

\* The Devices item is read for the answer; without it the name is kept.
ReadDevice(r) ==
  /\ pc[r] = "device"
  /\ \E code \in {"200", "500"} : Reply(r, code)
  /\ UNCHANGED <<clock, item, history>>

(* get_notification_preferences.                                           *)

Get(r) ==
  /\ pc[r] = "get"
  /\ status = "ACTIVE"
  /\ Reply(r, IF Combine(stored, None) # Invalid THEN "200" ELSE "500")
  /\ UNCHANGED <<clock, item, history>>

\* A dependency is unavailable or refuses the call, or the execution is cut off;
\* a write may have been applied before (WriteUnheard).  The errors that are
\* named as temporary are answered 503, and _run answers every other one 500.
Unavailable(r) ==
  /\ pc[r] \in Running
  /\ \E code \in {"500", "503"} : Reply(r, code)
  /\ UNCHANGED <<clock, item, locals, history>>

-----------------------------------------------------------------------------
\* The administration of memberships, which is not in the repository; it need
\* not write maps that combine() accepts.
Administer ==
  /\ \/ status = "ACTIVE" /\ status' = "REVOKED" /\ UNCHANGED <<stored, name>>
     \/ status = "REVOKED" /\ status' = "ACTIVE" /\ UNCHANGED <<stored, name>>
     \/ status # "ABSENT" /\ status' = "ABSENT" /\ stored' = None /\ name' = None
     \/ status = "ABSENT" /\ status' = "ACTIVE" /\ UNCHANGED <<stored, name>>
     \/ status = "ACTIVE" /\ stored' \in Damaged /\ UNCHANGED <<status, name>>
  /\ Interfere(Request)
  /\ UNCHANGED <<clock, pc, locals, answer, applied>>

Tick ==
  /\ clock < Horizon
  /\ clock' = clock + 1
  /\ UNCHANGED <<item, pc, locals, answer, history>>

Update(r) == Read(r) \/ Unacceptable(r) \/ Write(r) \/ WriteRefused(r) \/ Conflict(r)
Handle(r) == Update(r) \/ Refused(r) \/ WriteName(r) \/ NameRefused(r) \/ ReadDevice(r) \/ Get(r)

Next ==
  \/ \E r \in Request : Arrive(r) \/ Handle(r) \/ WriteUnheard(r) \/ Unavailable(r)
  \/ Administer
  \/ Tick

Spec == Init /\ [][Next]_vars

\* An execution that has started goes on.
FairSpec == Spec /\ \A r \in Request : WF_vars(Handle(r))

-----------------------------------------------------------------------------
(* Properties.                                                             *)

\* Whatever the patches have made of the preferences, a ring at any time of the
\* member's week is as loud as alert_mode says, but in a quiet window no louder
\* than its behavior allows; a window belongs to the day it opens on, whichever
\* side of midnight the ring is; damaged preferences silence nobody
\* (evaluate, _quiet_active, _decide).
RingAsPreferred ==
  LET p == Preferences(stored)
  IN \A weekday \in Weekdays, minute \in Minutes :
       Loudness(Evaluate(p, weekday, minute))
         = Softer(Loudness(p.alert_mode), Ceiling(p, weekday, minute))

\* A request is told of a conflict only if the membership was changed at each
\* of its attempts, by others or by its own write that the SDK sent again; a new
\* name is not such a change (notification-preferences.md: persistent conflict).
ConflictIsContention == \A r \in Request : answer[r] = "409" => interfered[r] >= MaxAttempts

\* Every request is answered: the retries end.
EveryRequestAnswered == []<>(\A r \in Request : pc[r] \in {"new", "over"})

\* The retried conditional writes implement one atomic map.
Asked == [r \in Request |-> IF pc[r] = "new" THEN None ELSE patch[r]]
Abstract == INSTANCE MemberPreferences WITH prefs <- stored, member <- status = "ACTIVE",
              asked <- Asked, reply <- answer, done <- applied, Again <- LostResponses
ImplementsMemberPreferences == Abstract!Spec
=============================================================================
