------------------------------ MODULE DevDevice ------------------------------
(***************************************************************************)
(* One DEV device in AWS IoT and the tool an operator runs to provision it *)
(* and to clean it up (tools/dev_iot_device.py).  Every call is one action *)
(* and the run may end after any of them; afterwards the operator mends by *)
(* hand what the tool refuses to touch.                                    *)
(***************************************************************************)
EXTENDS Integers, FiniteSets, Sequences

CONSTANTS
  Cert,    \* the certificates AWS will issue
  None

VARIABLES
  thing,    \* does the Thing exist?
  grouped,  \* is it in THING_GROUP?
  status,   \* of each certificate
  bound,    \* the certificates attached to the Thing
  policy,   \* the certificates POLICY is attached to
  files,    \* the output directory: whose files, and how many
  run,      \* the calls the running operation has yet to make
  arn       \* the certificate it is about

iot  == <<thing, grouped, status, bound, policy>>
vars == <<iot, files, run, arn>>

NoFiles == [cert |-> None, count |-> 0]
Status  == {"UNISSUED", "ACTIVE", "INACTIVE", "DELETED"}

Provisioning == <<"create_thing", "add_thing_to_thing_group", "create_keys_and_certificate",
                  "attach_thing_principal", "attach_policy", "inspect", "describe_endpoint",
                  "write", "write", "write", "write">>

PrincipalFirst == <<"detach_thing_principal", "detach_policy", "deactivate",
                    "delete_certificate", "remove_thing_from_thing_group",
                    "delete_thing">>                              \* mutant
CleaningUp == <<"detach_policy", "detach_thing_principal", "deactivate",
                "delete_certificate", "remove_thing_from_thing_group", "delete_thing">>

Calls == {Provisioning[k] : k \in DOMAIN Provisioning} \cup {CleaningUp[k] : k \in DOMAIN CleaningUp}

TypeOK ==
  /\ thing \in BOOLEAN /\ grouped \in BOOLEAN
  /\ status \in [Cert -> Status]
  /\ bound \subseteq Cert /\ policy \subseteq Cert
  /\ files \in [cert: Cert \cup {None}, count: 0..4]
  /\ run \in Seq(Calls)
  /\ arn \in Cert \cup {None}

Init ==
  /\ thing = FALSE /\ grouped = FALSE
  /\ status = [c \in Cert |-> "UNISSUED"]
  /\ bound = {} /\ policy = {}
  /\ files = NoFiles /\ run = <<>> /\ arn = None

Idle == run = <<>>

-----------------------------------------------------------------------------
\* _inspect: the Thing, in its group, has this certificate and no other, which
\* is active and has the policy.
Inspect(c) ==
  thing /\ grouped /\ bound = {c} /\ status[c] = "ACTIVE" /\ c \in policy

AnyDirectory == ~thing    \* mutant: files are replaced
\* The Thing must not exist and the directory must be empty.
MayProvision == ~thing /\ files = NoFiles

Provision ==
  /\ Idle /\ MayProvision
  /\ run' = Provisioning /\ arn' = None
  /\ UNCHANGED <<iot, files>>

Cleanup ==
  /\ Idle
  /\ \E c \in Cert : Inspect(c) /\ arn' = c
  /\ run' = CleaningUp
  /\ UNCHANGED <<iot, files>>

Calling(call) == ~Idle /\ Head(run) = call
Return        == run' = Tail(run)

CreateThing ==
  /\ Calling("create_thing") /\ Return
  /\ thing' = TRUE
  /\ UNCHANGED <<grouped, status, bound, policy, files, arn>>

AddToGroup ==
  /\ Calling("add_thing_to_thing_group") /\ Return
  /\ grouped' = TRUE
  /\ UNCHANGED <<thing, status, bound, policy, files, arn>>

\* The answer may be lost and the call sent again: then one more is issued.
CreateCertificate ==
  /\ Calling("create_keys_and_certificate")
  /\ \E c \in Cert :
       /\ status[c] = "UNISSUED"
       /\ status' = [status EXCEPT ![c] = "ACTIVE"]
       /\ \/ Return /\ arn' = c
          \/ UNCHANGED <<run, arn>>
  /\ UNCHANGED <<thing, grouped, bound, policy, files>>

AttachPrincipal ==
  /\ Calling("attach_thing_principal") /\ Return
  /\ bound' = bound \cup {arn}
  /\ UNCHANGED <<thing, grouped, status, policy, files, arn>>

AttachPolicy ==
  /\ Calling("attach_policy") /\ Return
  /\ policy' = policy \cup {arn}
  /\ UNCHANGED <<thing, grouped, status, bound, files, arn>>

Verify ==
  /\ Calling("inspect")
  /\ IF Inspect(arn) THEN Return ELSE run' = <<>>
  /\ UNCHANGED <<iot, files, arn>>

DescribeEndpoint ==
  /\ Calling("describe_endpoint") /\ Return
  /\ UNCHANGED <<iot, files, arn>>

WriteFile ==
  /\ Calling("write") /\ Return
  /\ files' = [cert |-> arn, count |-> files.count + 1]
  /\ UNCHANGED <<iot, arn>>

DetachPolicy ==
  /\ Calling("detach_policy") /\ Return
  /\ policy' = policy \ {arn}
  /\ UNCHANGED <<thing, grouped, status, bound, files, arn>>

DetachPrincipal ==
  /\ Calling("detach_thing_principal") /\ Return
  /\ bound' = bound \ {arn}
  /\ UNCHANGED <<thing, grouped, status, policy, files, arn>>

Deactivate ==
  /\ Calling("deactivate") /\ Return
  /\ status' = [status EXCEPT ![arn] = "INACTIVE"]
  /\ UNCHANGED <<thing, grouped, bound, policy, files, arn>>

\* AWS IoT refuses unless it is inactive and attached to nothing.
DeleteCertificate ==
  /\ Calling("delete_certificate")
  /\ status[arn] = "INACTIVE" /\ arn \notin bound \cup policy
  /\ Return
  /\ status' = [status EXCEPT ![arn] = "DELETED"]
  /\ UNCHANGED <<thing, grouped, bound, policy, files, arn>>

RemoveFromGroup ==
  /\ Calling("remove_thing_from_thing_group") /\ Return
  /\ grouped' = FALSE
  /\ UNCHANGED <<thing, status, bound, policy, files, arn>>

\* AWS IoT refuses while a certificate is attached.
DeleteThing ==
  /\ Calling("delete_thing")
  /\ bound = {}
  /\ Return
  /\ thing' = FALSE
  /\ UNCHANGED <<grouped, status, bound, policy, files, arn>>

\* A call fails or the run is interrupted.
Interrupt ==
  /\ ~Idle
  /\ run' = <<>>
  /\ UNCHANGED <<iot, files, arn>>

-----------------------------------------------------------------------------
\* By hand, between two runs: take away what is left of a device that has no
\* usable certificate, or the files.
Usable(c) == status[c] = "ACTIVE" /\ c \in policy

Mend ==
  /\ Idle
  /\ \/ /\ \E c \in bound : ~Usable(c) /\ bound' = bound \ {c}
        /\ UNCHANGED <<thing, grouped, status, policy, files>>
     \/ /\ \E c \in Cert \ (bound \cup policy) :
             status[c] \in {"ACTIVE", "INACTIVE"} /\ status' = [status EXCEPT ![c] = "DELETED"]
        /\ UNCHANGED <<thing, grouped, bound, policy, files>>
     \/ /\ thing /\ bound = {} /\ thing' = FALSE /\ grouped' = FALSE
        /\ UNCHANGED <<status, bound, policy, files>>
     \/ /\ files # NoFiles /\ files' = NoFiles
        /\ UNCHANGED iot
  /\ UNCHANGED <<run, arn>>

Next ==
  \/ Provision \/ CreateThing \/ AddToGroup \/ CreateCertificate \/ AttachPrincipal
  \/ AttachPolicy \/ Verify \/ DescribeEndpoint \/ WriteFile
  \/ Cleanup \/ DetachPolicy \/ DetachPrincipal \/ Deactivate \/ DeleteCertificate
  \/ RemoveFromGroup \/ DeleteThing
  \/ Interrupt \/ Mend

Spec == Init /\ [][Next]_vars

-----------------------------------------------------------------------------
(* Properties.                                                             *)

\* A certificate may connect as the device only within its constraints, bound to
\* the Thing in its group ("identity/container constraints precede certificate
\* issuance", dev_iot_device.py:174), and wherever a run was interrupted, one that
\* can be used can be revoked with the tool: _inspect accepts it.
UsableIsContained ==
  \A c \in Cert : Usable(c) => /\ thing /\ grouped /\ c \in bound
                               /\ Idle => Inspect(c)
=============================================================================
