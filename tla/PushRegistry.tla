---------------------------- MODULE PushRegistry ----------------------------
(***************************************************************************)
(* What the push installation API promises its callers: one table of       *)
(* registrations in which an installation has one token and a token belongs*)
(* to one installation, on which every request takes effect at one instant *)
(* or not at all.  PushInstallations implements it with optimistic         *)
(* transactions on two kinds of DynamoDB items.                            *)
(***************************************************************************)
CONSTANTS Request, User, Installation, Token

VARIABLES registered,   \* the registrations in force
          answer        \* the answer to each request, "NONE" while there is none

registryVars == <<registered, answer>>

Registration == [inst : Installation, user : User, token : Token]

\* Whatever is registered already, an installation has one token and a token one
\* installation.
Init == /\ registered \in SUBSET Registration
        /\ \A x, y \in registered : x.inst = y.inst \/ x.token = y.token => x = y
        /\ answer = [r \in Request |-> "NONE"]

\* A request's effect and its answer; "503" may hide an effect.
Answers(r, effective) ==
  /\ answer[r] = "NONE"
  /\ answer' \in {[answer EXCEPT ![r] = a] : a \in {effective, "503"}}

\* An installation takes a token, from whichever installation had it.
Register(r, reg) ==
  /\ Answers(r, "204")
  /\ registered' = {x \in registered : x.inst # reg.inst /\ x.token # reg.token} \cup {reg}

\* A user drops an installation; it stays if it is another user's by now.
Unregister(r, u, i) ==
  /\ Answers(r, "204")
  /\ registered' = {x \in registered : ~(x.inst = i /\ x.user = u)}

\* The sender drops a registration whose token FCM no longer knows.
Discard(r, reg) ==
  /\ Answers(r, "DISCARDED")
  /\ registered' = registered \ {reg}

\* The request is refused, or skipped, and changes nothing.
Refuse(r) ==
  /\ answer[r] = "NONE"
  /\ \E a \in {"409", "503", "KEPT"} : answer' = [answer EXCEPT ![r] = a]
  /\ UNCHANGED registered

Next == \E r \in Request :
  \/ \E reg \in Registration : Register(r, reg) \/ Discard(r, reg)
  \/ \E u \in User, i \in Installation : Unregister(r, u, i)
  \/ Refuse(r)

Spec == Init /\ [][Next]_registryVars
=============================================================================
