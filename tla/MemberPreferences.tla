-------------------------- MODULE MemberPreferences --------------------------
(***************************************************************************)
(* What the device API promises about one member's preferences: a patch is *)
(* combined with what is stored, validated and stored in one atomic step,  *)
(* whatever the other requests do.                                         *)
(***************************************************************************)
EXTENDS AlertPreferences

CONSTANTS
  Request,
  Patch,
  Rename, Show,   \* what else a request may ask for
  Damaged,        \* maps that are not the API's
  Again           \* may a patch be applied again before it is answered?

VARIABLES
  clock,    \* seconds
  member,   \* is the user an active member?
  prefs,    \* the preferences stored, None before the first patch
  asked,    \* what each request asks for, None before it is made
  done,     \* has its patch been applied?
  reply     \* its HTTP status

vars == <<clock, member, prefs, asked, done, reply>>

Init ==
  /\ clock = 0 /\ member = TRUE /\ prefs = None
  /\ asked = [r \in Request |-> None]
  /\ done = [r \in Request |-> FALSE]
  /\ reply = [r \in Request |-> "NONE"]

Open(r) == asked[r] # None /\ reply[r] = "NONE"

Ask(r) ==
  /\ asked[r] = None
  /\ \E a \in Patch \cup {Rename, Show} : asked' = [asked EXCEPT ![r] = a]
  /\ UNCHANGED <<clock, member, prefs, done, reply>>

\* Its time is not before the last one's, if that is the API's.
Since == IF prefs = None \/ prefs \in Damaged \/ prefs.updated_at = None THEN 0 ELSE prefs.updated_at

Apply(r) ==
  /\ Open(r) /\ asked[r] \in Patch
  /\ member
  /\ done[r] => Again
  /\ done' = [done EXCEPT ![r] = TRUE]
  /\ Combine(prefs, asked[r]) # Invalid
  /\ \E t \in Since..clock : prefs' = [Combine(prefs, asked[r]) EXCEPT !.updated_at = t]
  /\ \/ reply' = [reply EXCEPT ![r] = "200"]
     \/ Again /\ UNCHANGED reply
  /\ UNCHANGED <<clock, member, asked>>

\* The answers that change nothing.
May(r, code) ==
  CASE code = "200" -> asked[r] = Rename \/ (asked[r] = Show /\ member /\ Combine(prefs, None) # Invalid)
    [] code = "400" -> asked[r] \in Patch /\ member /\ Combine(prefs, asked[r]) = Invalid
    [] code = "404" -> ~member
    [] code = "409" -> asked[r] \in Patch /\ member
    [] code \in {"500", "503"} -> TRUE      \* a dependency may fail at any time

Answer(r) ==
  /\ Open(r)
  /\ done[r] => Again
  /\ \E code \in {"200", "400", "404", "409", "500", "503"} :
       May(r, code) /\ reply' = [reply EXCEPT ![r] = code]
  /\ UNCHANGED <<clock, member, prefs, asked, done>>

Administer ==
  /\ member' \in BOOLEAN
  /\ prefs' \in {prefs, None} \cup Damaged
  /\ UNCHANGED <<clock, asked, done, reply>>

Tick ==
  /\ clock' = clock + 1
  /\ UNCHANGED <<member, prefs, asked, done, reply>>

Next ==
  \/ \E r \in Request : Ask(r) \/ Apply(r) \/ Answer(r)
  \/ Administer \/ Tick

Spec == Init /\ [][Next]_vars
=============================================================================
