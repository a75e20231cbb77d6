--------------------------- MODULE DeviceRegistry ---------------------------
(***************************************************************************)
(* The registration of one device in the Devices and DeviceMemberships     *)
(* tables (tools/register_dev_device.py): operators who run the tool at    *)
(* the same time or again, for the same or another owner, while the        *)
(* members' API and an administrator change the memberships.               *)
(***************************************************************************)
EXTENDS FiniteSets

CONSTANTS
  Run,       \* runs of the tool
  User,
  Hardware,  \* hardware_version and manufacturing_batch
  None

VARIABLES
  thing,    \* do the Thing and its certificate pass _validate_thing? See DevOperations
  device,   \* the Devices item
  member,   \* the membership item of each user
  pc,       \* where each run is
  asked,    \* its arguments
  found,    \* did the device it read back match?
  result    \* what it printed

items == <<thing, device, member>>
vars  == <<items, pc, asked, found, result>>

-----------------------------------------------------------------------------
Args   == [user: User, hardware: Hardware]
NoArgs == [user |-> None, hardware |-> None]

\* Of a membership: OWNER and ACTIVE as the tool wrote it, the same with a
\* display_name or notification_preferences besides, or no longer active.
Row    == {"ABSENT", "WRITTEN", "EXTENDED", "REVOKED"}
Result == {"NONE", "registered", "already", "conflict", "refused"}

TypeOK ==
  /\ thing \in BOOLEAN
  /\ device \in Args \cup {NoArgs}
  /\ member \in [User -> Row]
  /\ pc \in [Run -> {"new", "validate", "write", "device", "member", "over"}]
  /\ asked \in [Run -> Args \cup {NoArgs}]
  /\ found \in [Run -> BOOLEAN]
  /\ result \in [Run -> Result]

Init ==
  /\ thing \in BOOLEAN
  /\ device = NoArgs
  /\ member = [u \in User |-> "ABSENT"]
  /\ pc = [r \in Run |-> "new"]
  /\ asked = [r \in Run |-> NoArgs]
  /\ found = [r \in Run |-> FALSE]
  /\ result = [r \in Run |-> "NONE"]

Goto(r, where)  == pc' = [pc EXCEPT ![r] = where]
Tell(r, value) == Goto(r, "over") /\ result' = [result EXCEPT ![r] = value]

-----------------------------------------------------------------------------
Begin(r) ==
  /\ pc[r] = "new"
  /\ \E a \in Args : asked' = [asked EXCEPT ![r] = a]
  /\ Goto(r, "validate")
  /\ UNCHANGED <<items, found, result>>

\* The caller, the stacks, the user and the Thing; a dry run ends here too.
Validate(r) ==
  /\ pc[r] = "validate"
  /\ \/ thing /\ Goto(r, "write") /\ UNCHANGED result
     \/ Tell(r, "refused")
  /\ UNCHANGED <<items, asked, found>>

MemberAlone(r) == member[asked[r].user] = "ABSENT"   \* mutant: one condition of the two
MayPut(r) == device = NoArgs /\ member[asked[r].user] = "ABSENT"

\* transact_write_items: both items or none.
Transact(r) ==
  /\ pc[r] = "write"
  /\ MayPut(r)
  /\ device' = asked[r]
  /\ member' = [member EXCEPT ![asked[r].user] = "WRITTEN"]
  /\ Tell(r, "registered")
  /\ UNCHANGED <<thing, asked, found>>

\* The same, but the run ends before it learns of it.
TransactUnheard(r) ==
  /\ pc[r] = "write"
  /\ MayPut(r)
  /\ device' = asked[r]
  /\ member' = [member EXCEPT ![asked[r].user] = "WRITTEN"]
  /\ Goto(r, "over")
  /\ UNCHANGED <<thing, asked, found, result>>

Cancelled(r) ==
  /\ pc[r] = "write"
  /\ ~MayPut(r)
  /\ Goto(r, "device")
  /\ UNCHANGED <<items, asked, found, result>>

\* A conflict with another transaction is reported in the same way.
CancelledByConflict(r) ==
  /\ pc[r] = "write"
  /\ \E s \in Run \ {r} : pc[s] = "write"
  /\ Goto(r, "device")
  /\ UNCHANGED <<items, asked, found, result>>

OwnerAlone(r) == device.user = asked[r].user      \* mutant: the metadata is not compared
\* _semantic_match, without the times.
SameDevice(r) == device = asked[r]
SameMember(r) == member[asked[r].user] = "WRITTEN"

ReadDevice(r) ==
  /\ pc[r] = "device"
  /\ found' = [found EXCEPT ![r] = SameDevice(r)]
  /\ Goto(r, "member")
  /\ UNCHANGED <<items, asked, result>>

ReadMember(r) ==
  /\ pc[r] = "member"
  /\ Tell(r, IF found[r] /\ SameMember(r) THEN "already" ELSE "conflict")
  /\ UNCHANGED <<items, asked, found>>

\* Another error, which is reported without details.
Fail(r) ==
  /\ pc[r] \in {"validate", "write", "device", "member"}
  /\ Goto(r, "over")
  /\ UNCHANGED <<items, asked, found, result>>

-----------------------------------------------------------------------------
\* PATCH display_name or notification_preferences of an active member.
Patch ==
  /\ \E u \in User : member[u] = "WRITTEN" /\ member' = [member EXCEPT ![u] = "EXTENDED"]
  /\ UNCHANGED <<thing, device, pc, asked, found, result>>

\* An administrator revokes the membership.
Revoke ==
  /\ \E u \in User : member[u] \in {"WRITTEN", "EXTENDED"} /\ member' = [member EXCEPT ![u] = "REVOKED"]
  /\ UNCHANGED <<thing, device, pc, asked, found, result>>

Register(r) == \/ Begin(r) \/ Validate(r) \/ Transact(r) \/ TransactUnheard(r) \/ Cancelled(r)
               \/ CancelledByConflict(r) \/ ReadDevice(r) \/ ReadMember(r) \/ Fail(r)

Next == (\E r \in Run : Register(r)) \/ Patch \/ Revoke

-----------------------------------------------------------------------------
(* Properties.                                                             *)

\* The two tables agree: the owner the device names has a membership, and
\* nobody else was ever made its owner, whichever runs overlapped.
OneOwner == {u \in User : member[u] # "ABSENT"} = {device.user} \ {None}

\* Whoever is told that the device is registered, now or already, is told so of
\* exactly the owner and hardware that were asked for.  Of the membership it says
\* nothing: that may be revoked before the answer is printed.
AnswersAreTrue ==
  \A r \in Run : result[r] \in {"registered", "already"} => device = asked[r]
=============================================================================
