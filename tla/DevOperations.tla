---------------------------- MODULE DevOperations ----------------------------
(***************************************************************************)
(* The two tools of a DEV device together: an operator provisions it in    *)
(* AWS IoT and cleans it up (DevDevice) while others register it           *)
(* (DeviceRegistry), for which they look at what provisioning has left.    *)
(***************************************************************************)
EXTENDS Naturals

CONSTANTS Cert, Run, User, Hardware, None

ASSUME OperationsAssumption == None \notin Cert \cup User \cup Hardware

VARIABLES
  thing, grouped, status, bound, policy, files, run, arn,     \* DevDevice
  device, member, pc, asked, found, result                      \* DeviceRegistry

provisioning == <<thing, grouped, status, bound, policy, files, run, arn>>
registration == <<device, member, pc, asked, found, result>>
vars         == <<provisioning, registration>>

D == INSTANCE DevDevice

\* _validate_thing: the Thing with its one certificate, active and with POLICY.
Provisioned == \E c \in Cert : D!Inspect(c)

R == INSTANCE DeviceRegistry WITH thing <- Provisioned

Init == D!Init /\ R!Init

Next ==
  \/ D!Next /\ UNCHANGED registration
  \/ UNCHANGED provisioning /\ R!Next

Spec == Init /\ [][Next]_vars

-----------------------------------------------------------------------------
(* Properties.                                                             *)

\* Both components are well typed, whatever the other does.
TypeOK == D!TypeOK /\ R!TypeOK

\* A usable certificate is bound to the Thing in its group, and whenever no run
\* is in progress the tool can revoke it (dev_iot_device.py: provision, cleanup).
UsableIsContained == D!UsableIsContained

\* The two tables agree: the owner the device names has a membership, and nobody
\* else was ever made its owner, whichever runs overlapped
\* (register_dev_device.py: one transaction for both items).
OneOwner == R!OneOwner

\* Whoever is told that the device is registered, now or already, is told so of
\* exactly the owner and hardware that were asked for (_semantic_match of the
\* Devices item).
AnswersAreTrue == R!AnswersAreTrue
=============================================================================
