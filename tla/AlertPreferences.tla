-------------------------- MODULE AlertPreferences --------------------------
(***************************************************************************)
(* The preferences of a member (lambdas/device_api/                        *)
(* notification_preferences.py) and what they make of a ring               *)
(* (domain/push/preferences.py).  The fields of quiet_schedule are merged  *)
(* one by one, like those above them, so all are fields of one record.     *)
(***************************************************************************)
EXTENDS Integers

CONSTANTS
  None,       \* Python's None: no value, no stored map, no patch
  Invalid,    \* ValueError
  Zone,       \* the time zones ZoneInfo knows, a set
  DayLength   \* minutes of a day

ASSUME PreferencesAssumption ==
  /\ DayLength \in Nat \ {0}
  /\ None \notin Nat /\ None \notin Zone /\ None # Invalid

AlertModes == {"NONE", "RING_ONLY", "NOTIFICATION_ONLY", "RING_AND_NOTIFICATION"}
Behaviors  == {"NOTIFICATION_ONLY", "BLOCK_ALL"}
Weekdays   == 1..7
Minutes    == 0..(DayLength - 1)

ClientFields ==
  {"alert_mode", "enabled", "timezone", "days", "start_time", "end_time", "behavior"}
StoredFields == ClientFields \cup {"version", "updated_at"}

Defaults == [version |-> 1, alert_mode |-> "RING_ONLY", enabled |-> FALSE, timezone |-> None,
             days |-> {}, start_time |-> None, end_time |-> None,
             behavior |-> "NOTIFICATION_ONLY", updated_at |-> None]

-----------------------------------------------------------------------------
(* combine().                                                              *)

Merge(result, values) ==
  [f \in StoredFields |-> IF f \in DOMAIN values THEN values[f] ELSE result[f]]

Complete(v) == /\ v.timezone # None /\ v.days # {}
               /\ v.start_time # None /\ v.end_time # None
               /\ v.start_time # v.end_time

Map == [version: {1}, alert_mode: AlertModes, enabled: BOOLEAN, timezone: Zone \cup {None},
        days: SUBSET Weekdays, start_time: Minutes \cup {None}, end_time: Minutes \cup {None},
        behavior: Behaviors, updated_at: Nat \cup {None}]

\* Neither None nor an error is a dictionary.
ASSUME MapsAssumption == None \notin Map /\ Invalid \notin Map

Valid(v) == v \in Map /\ (v.enabled => Complete(v))

Normal(v) ==
  [v EXCEPT !.alert_mode = IF @ = "RING_AND_NOTIFICATION" THEN "RING_ONLY" ELSE @]

\* The client may not set the version or the time of the update.
Combine(stored, patch) ==
  LET base == IF stored = None THEN Defaults ELSE Merge(Defaults, stored)
      v    == IF patch = None THEN base ELSE Merge(base, patch)
  IN IF /\ stored # None => DOMAIN stored \subseteq StoredFields
        /\ patch # None => DOMAIN patch \subseteq ClientFields
        /\ Valid(v)
     THEN Normal(v)
     ELSE Invalid

-----------------------------------------------------------------------------
(* evaluate(), for a weekday and a minute of the member's local time.      *)

Yesterday(weekday) == IF weekday = 1 THEN 7 ELSE weekday - 1

TodayOnly(q, weekday, minute) ==           \* mutant: the morning counts for its own day
  IF q.start_time < q.end_time
  THEN weekday \in q.days /\ q.start_time <= minute /\ minute < q.end_time
  ELSE weekday \in q.days /\ (minute >= q.start_time \/ minute < q.end_time)

QuietActive(q, weekday, minute) ==
  IF q.start_time < q.end_time
  THEN weekday \in q.days /\ q.start_time <= minute /\ minute < q.end_time
  ELSE \/ weekday \in q.days /\ minute >= q.start_time
       \/ Yesterday(weekday) \in q.days /\ minute < q.end_time

Rings(mode) == mode \in {"RING_ONLY", "RING_AND_NOTIFICATION"}

\* The delivery mode of a ring; NONE is suppressed.
Evaluate(p, weekday, minute) ==
  IF p.alert_mode = "NONE" THEN "NONE"
  ELSE IF ~(p.enabled /\ QuietActive(p, weekday, minute))
       THEN IF Rings(p.alert_mode) THEN "RING_ONLY" ELSE "NOTIFICATION_ONLY"
  ELSE IF p.behavior = "BLOCK_ALL" THEN "NONE"
  ELSE "NOTIFICATION_ONLY"

\* push_sender's _decide: what cannot be combined counts as the defaults.
Preferences(stored) == IF Combine(stored, None) = Invalid THEN Defaults ELSE Combine(stored, None)

-----------------------------------------------------------------------------
(* The reference: a window opens at start_time of each of its days and     *)
(* lasts until the next end_time, and in it a ring is at most as loud as   *)
(* the behavior allows.                                                    *)

Length(q) == IF q.start_time < q.end_time THEN q.end_time - q.start_time
             ELSE q.end_time + DayLength - q.start_time

InWindow(q, weekday, minute) ==
  \E d \in q.days, ago \in 0..6 :
    /\ ((d - 1 + ago) % 7) + 1 = weekday
    /\ q.start_time <= ago * DayLength + minute
    /\ ago * DayLength + minute < q.start_time + Length(q)

Loudness(mode) == CASE mode = "NONE" -> 0
                    [] mode = "NOTIFICATION_ONLY" -> 1
                    [] mode \in {"RING_ONLY", "RING_AND_NOTIFICATION"} -> 2

Ceiling(q, weekday, minute) ==
  IF ~(q.enabled /\ InWindow(q, weekday, minute)) THEN 2
  ELSE IF q.behavior = "BLOCK_ALL" THEN 0 ELSE 1

Softer(a, b) == IF a < b THEN a ELSE b
=============================================================================
