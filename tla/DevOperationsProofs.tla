------------------------- MODULE DevOperationsProofs -------------------------
(***************************************************************************)
(* Proofs about DevOperations for any number of certificates, runs, users  *)
(* and versions of the hardware:                                           *)
(*   OperationsInvariant  the invariant the others follow from;            *)
(*   TypeCorrect          the type invariant of both tools;                *)
(*   AlwaysContained      what a usable certificate is bound to;           *)
(*   AlwaysOneOwner       the Devices and DeviceMemberships items agree;   *)
(*   AlwaysTrueAnswers    what a run prints of the registration.           *)
(***************************************************************************)
EXTENDS DevOperations, SequenceTheorems, TLAPS

-----------------------------------------------------------------------------
(* The inductive invariant of provisioning.                                *)

\* The calls left are the last ones of s.
Rest(s) == /\ run \in Seq(D!Calls) /\ Len(run) \in 1..Len(s)
           /\ \A k \in 1..Len(run) : run[k] = s[Len(s) - Len(run) + k]

NoneUsable == \A c \in Cert : ~D!Usable(c)

\* How far provisioning has come with n calls left.
Progress(n) ==
  /\ thing <=> n <= 10
  /\ n <= 9 => grouped
  /\ n <= 8 => arn \in Cert /\ status[arn] = "ACTIVE"
  /\ n >= 8 => bound = {}
  /\ n <= 7 => bound = {arn}
  /\ n >= 7 => NoneUsable
  /\ n >= 4 => files = D!NoFiles
  /\ n <= 3 => files.count = 4 - n

ProvisioningRun == Rest(D!Provisioning) /\ Progress(Len(run))

\* And cleaning up.
Undone(n) ==
  /\ arn \in Cert
  /\ bound \subseteq {arn}
  /\ n = 6 => D!Inspect(arn)
  /\ n <= 5 => NoneUsable
  /\ n = 1 => ~grouped

CleaningRun == Rest(D!CleaningUp) /\ Undone(Len(run))

\* A usable certificate would always pass _inspect, not only between runs.
DeviceInv ==
  /\ D!TypeOK
  /\ grouped => thing
  /\ bound # {} => thing
  /\ \A c \in Cert : status[c] = "UNISSUED" => c \notin policy
  /\ \A c \in Cert : D!Usable(c) => D!Inspect(c)
  /\ run = <<>> \/ ProvisioningRun \/ CleaningRun

LEMMA Lists ==
  /\ D!Provisioning \in Seq(D!Calls) /\ Len(D!Provisioning) = 11
  /\ D!CleaningUp \in Seq(D!Calls) /\ Len(D!CleaningUp) = 6
BY DEF D!Provisioning, D!CleaningUp, D!Calls

LEMMA OneOrMore == \A n \in Nat : \A k \in 1..n : k = 1 \/ k > 1
OBVIOUS

\* A call that returns leaves the rest of the list, or nothing.
LEMMA RestReturns ==
  ASSUME NEW s, s \in Seq(D!Calls), Rest(s), run' = Tail(run)
  PROVE  \/ run' = <<>> /\ Len(run) = 1
         \/ Rest(s)' /\ Len(run') = Len(run) - 1 /\ Len(run) > 1
<1>1. /\ run \in Seq(D!Calls) /\ Len(run) \in 1..Len(s) /\ Len(s) \in Nat
      /\ \A k \in 1..Len(run) : run[k] = s[Len(s) - Len(run) + k]
  BY LenProperties DEF Rest
<1>2. run # <<>>
  BY <1>1, EmptySeq
<1>3. /\ run' \in Seq(D!Calls) /\ Len(run') = Len(run) - 1
      /\ \A k \in 1..Len(run') : run'[k] = run[k + 1]
  BY <1>1, <1>2, HeadTailProperties
<1>4. CASE Len(run) = 1
  BY <1>3, <1>4, EmptySeq
<1>5. CASE Len(run) > 1
  <2>1. \A k \in 1..Len(run') : run'[k] = s[Len(s) - Len(run') + k]
    BY <1>1, <1>3
  <2>2. Len(run') \in 1..Len(s)
    BY <1>1, <1>3, <1>5
  <2>3. QED
    BY <1>3, <1>5, <2>1, <2>2 DEF Rest
<1>6. Len(run) = 1 \/ Len(run) > 1
  BY <1>1, OneOrMore
<1>7. QED
  BY <1>4, <1>5, <1>6

\* What is called when n calls are left.
ProvisioningPlace(n, call) ==
  /\ call = "create_thing" <=> n = 11
  /\ call = "add_thing_to_thing_group" <=> n = 10
  /\ call = "create_keys_and_certificate" <=> n = 9
  /\ call = "attach_thing_principal" <=> n = 8
  /\ call = "attach_policy" <=> n = 7
  /\ call = "inspect" <=> n = 6
  /\ call = "describe_endpoint" <=> n = 5
  /\ call = "write" <=> n \in {1, 2, 3, 4}
  /\ call \notin {"detach_policy", "detach_thing_principal", "deactivate",
                  "delete_certificate", "remove_thing_from_thing_group", "delete_thing"}

CleaningPlace(n, call) ==
  /\ call = "detach_policy" <=> n = 6
  /\ call = "detach_thing_principal" <=> n = 5
  /\ call = "deactivate" <=> n = 4
  /\ call = "delete_certificate" <=> n = 3
  /\ call = "remove_thing_from_thing_group" <=> n = 2
  /\ call = "delete_thing" <=> n = 1
  /\ call \notin {"create_thing", "add_thing_to_thing_group", "create_keys_and_certificate",
                  "attach_thing_principal", "attach_policy", "inspect", "describe_endpoint", "write"}

LEMMA Places ==
  /\ \A n \in 1..11 : ProvisioningPlace(n, D!Provisioning[11 - n + 1])
  /\ \A n \in 1..6 : CleaningPlace(n, D!CleaningUp[6 - n + 1])
<1>1. ASSUME NEW n \in 1..11 PROVE ProvisioningPlace(n, D!Provisioning[11 - n + 1])
  <2>1. \/ n = 1 \/ n = 2 \/ n = 3 \/ n = 4 \/ n = 5 \/ n = 6
        \/ n = 7 \/ n = 8 \/ n = 9 \/ n = 10 \/ n = 11
    OBVIOUS
  <2>2. QED
    BY <2>1 DEF ProvisioningPlace, D!Provisioning
<1>2. ASSUME NEW n \in 1..6 PROVE CleaningPlace(n, D!CleaningUp[6 - n + 1])
  BY DEF CleaningPlace, D!CleaningUp
<1>3. QED
  BY <1>1, <1>2

LEMMA ProvisioningCall ==
  ASSUME Rest(D!Provisioning)
  PROVE  run # <<>> /\ Len(run) \in 1..11 /\ ProvisioningPlace(Len(run), Head(run))
<1>1. run \in Seq(D!Calls) /\ Len(run) \in 1..11 /\ run[1] = D!Provisioning[11 - Len(run) + 1]
  BY Lists DEF Rest
<1>2. run # <<>>
  BY <1>1, EmptySeq
<1>3. Head(run) = D!Provisioning[11 - Len(run) + 1]
  BY <1>1, <1>2
<1>4. ProvisioningPlace(Len(run), D!Provisioning[11 - Len(run) + 1])
  BY <1>1, Places
<1>5. QED
  BY <1>1, <1>2, <1>3, <1>4

LEMMA CleaningCall ==
  ASSUME Rest(D!CleaningUp)
  PROVE  run # <<>> /\ Len(run) \in 1..6 /\ CleaningPlace(Len(run), Head(run))
<1>1. run \in Seq(D!Calls) /\ Len(run) \in 1..6 /\ run[1] = D!CleaningUp[6 - Len(run) + 1]
  BY Lists DEF Rest
<1>2. run # <<>>
  BY <1>1, EmptySeq
<1>3. Head(run) = D!CleaningUp[6 - Len(run) + 1]
  BY <1>1, <1>2
<1>4. CleaningPlace(Len(run), D!CleaningUp[6 - Len(run) + 1])
  BY <1>1, Places
<1>5. QED
  BY <1>1, <1>2, <1>3, <1>4

LEMMA InitDevice == D!Init => DeviceInv
<1> SUFFICES ASSUME D!Init PROVE DeviceInv
  OBVIOUS
<1>1. <<>> \in Seq(D!Calls)
  BY EmptySeq
<1>2. D!TypeOK
  <2>1. status \in [Cert -> D!Status]
    BY DEF D!Init, D!Status
  <2>2. files \in [cert : Cert \cup {None}, count : 0..4]
    BY DEF D!Init, D!NoFiles
  <2>3. run \in Seq(D!Calls)
    BY <1>1 DEF D!Init
  <2>4. QED
    BY <2>1, <2>2, <2>3 DEF D!Init, D!TypeOK
<1>3. QED
  BY <1>2 DEF D!Init, DeviceInv, D!Usable

ProvisioningCalls == {"create_thing", "add_thing_to_thing_group", "create_keys_and_certificate",
                      "attach_thing_principal", "attach_policy", "inspect", "describe_endpoint",
                      "write"}
CleaningCalls == {"detach_policy", "detach_thing_principal", "deactivate", "delete_certificate",
                  "remove_thing_from_thing_group", "delete_thing"}

\* Which of the two operations is running shows from its call.
LEMMA Provisions ==
  ASSUME DeviceInv, NEW call \in ProvisioningCalls, D!Calling(call)
  PROVE  ProvisioningRun /\ Len(run) \in 1..11 /\ ProvisioningPlace(Len(run), call)
<1>1. run # <<>> /\ Head(run) = call
  BY DEF D!Calling, D!Idle
<1>2. ~CleaningRun
  BY <1>1, CleaningCall DEF CleaningRun, CleaningPlace, ProvisioningCalls
<1>3. QED
  BY <1>1, <1>2, ProvisioningCall DEF DeviceInv, ProvisioningRun

LEMMA Cleans ==
  ASSUME DeviceInv, NEW call \in CleaningCalls, D!Calling(call)
  PROVE  CleaningRun /\ Len(run) \in 1..6 /\ CleaningPlace(Len(run), call)
<1>1. run # <<>> /\ Head(run) = call
  BY DEF D!Calling, D!Idle
<1>2. ~ProvisioningRun
  BY <1>1, ProvisioningCall DEF ProvisioningRun, ProvisioningPlace, CleaningCalls
<1>3. QED
  BY <1>1, <1>2, CleaningCall DEF DeviceInv, CleaningRun

LEMMA ProvisioningReturns ==
  ASSUME ProvisioningRun, D!Return
  PROVE  /\ run' \in Seq(D!Calls)
         /\ \/ run' = <<>> /\ Len(run) = 1
            \/ Rest(D!Provisioning)' /\ Len(run') = Len(run) - 1 /\ Len(run) > 1
<1>1. Rest(D!Provisioning) /\ run' = Tail(run)
  BY DEF ProvisioningRun, D!Return
<1>2. \/ run' = <<>> /\ Len(run) = 1
      \/ Rest(D!Provisioning)' /\ Len(run') = Len(run) - 1 /\ Len(run) > 1
  BY <1>1, Lists, RestReturns
<1>3. run' \in Seq(D!Calls)
  BY <1>2, EmptySeq DEF Rest
<1>4. QED
  BY <1>2, <1>3

LEMMA CleaningReturns ==
  ASSUME CleaningRun, D!Return
  PROVE  /\ run' \in Seq(D!Calls)
         /\ \/ run' = <<>> /\ Len(run) = 1
            \/ Rest(D!CleaningUp)' /\ Len(run') = Len(run) - 1 /\ Len(run) > 1
<1>1. Rest(D!CleaningUp) /\ run' = Tail(run)
  BY DEF CleaningRun, D!Return
<1>2. \/ run' = <<>> /\ Len(run) = 1
      \/ Rest(D!CleaningUp)' /\ Len(run') = Len(run) - 1 /\ Len(run) > 1
  BY <1>1, Lists, RestReturns
<1>3. run' \in Seq(D!Calls)
  BY <1>2, EmptySeq DEF Rest
<1>4. QED
  BY <1>2, <1>3

\* Provisioning goes on from n calls left.
LEMMA ProvisioningGoesOn ==
  ASSUME NEW n \in 2..11, ProvisioningRun, Len(run) = n, D!Return, Progress(n - 1)'
  PROVE  ProvisioningRun'
<1>1. Rest(D!Provisioning)' /\ Len(run') = n - 1
  BY ProvisioningReturns
<1>2. QED
  BY <1>1 DEF ProvisioningRun

LEMMA CreateThingKeeps == DeviceInv /\ D!CreateThing => DeviceInv'
<1> SUFFICES ASSUME DeviceInv, D!CreateThing PROVE DeviceInv'
  OBVIOUS
<1>1. ProvisioningRun /\ Len(run) = 11 /\ D!Return
  BY Provisions DEF D!CreateThing, ProvisioningCalls, ProvisioningPlace
<1>2. run' \in Seq(D!Calls)
  BY <1>1, ProvisioningReturns
<1>3. thing' = TRUE /\ UNCHANGED <<grouped, status, bound, policy, files, arn>>
  BY DEF D!CreateThing
<1>4. NoneUsable /\ bound = {} /\ files = D!NoFiles
  BY <1>1 DEF ProvisioningRun, Progress
<1>5. D!TypeOK'
  BY <1>2, <1>3 DEF DeviceInv, D!TypeOK
<1>6. Progress(10)'
  BY <1>3, <1>4 DEF Progress, NoneUsable, D!Usable, D!NoFiles
<1>7. ProvisioningRun'
  BY <1>1, <1>6, ProvisioningGoesOn
<1>8. QED
  BY <1>3, <1>4, <1>5, <1>7 DEF DeviceInv, NoneUsable, D!Usable

LEMMA AddToGroupKeeps == DeviceInv /\ D!AddToGroup => DeviceInv'
<1> SUFFICES ASSUME DeviceInv, D!AddToGroup PROVE DeviceInv'
  OBVIOUS
<1>1. ProvisioningRun /\ Len(run) = 10 /\ D!Return
  BY Provisions DEF D!AddToGroup, ProvisioningCalls, ProvisioningPlace
<1>2. run' \in Seq(D!Calls)
  BY <1>1, ProvisioningReturns
<1>3. grouped' = TRUE /\ UNCHANGED <<thing, status, bound, policy, files, arn>>
  BY DEF D!AddToGroup
<1>4. thing /\ NoneUsable /\ bound = {} /\ files = D!NoFiles
  BY <1>1 DEF ProvisioningRun, Progress
<1>5. D!TypeOK'
  BY <1>2, <1>3, <1>4 DEF DeviceInv, D!TypeOK
<1>6. Progress(9)'
  BY <1>3, <1>4 DEF DeviceInv, D!TypeOK, Progress, NoneUsable, D!Usable, D!NoFiles
<1>7. ProvisioningRun'
  BY <1>1, <1>6, ProvisioningGoesOn
<1>8. QED
  BY <1>3, <1>4, <1>5, <1>7 DEF DeviceInv, NoneUsable, D!Usable, D!Inspect

LEMMA CreateCertificateKeeps == DeviceInv /\ D!CreateCertificate => DeviceInv'
<1> SUFFICES ASSUME DeviceInv, D!CreateCertificate PROVE DeviceInv'
  OBVIOUS
<1>1. ProvisioningRun /\ Len(run) = 9
  BY Provisions DEF D!CreateCertificate, ProvisioningCalls, ProvisioningPlace
<1>2. thing /\ grouped /\ NoneUsable /\ bound = {} /\ files = D!NoFiles
  BY <1>1 DEF ProvisioningRun, Progress
<1>3. PICK c \in Cert :
        /\ status[c] = "UNISSUED" /\ status' = [status EXCEPT ![c] = "ACTIVE"]
        /\ (D!Return /\ arn' = c) \/ UNCHANGED <<run, arn>>
  BY DEF D!CreateCertificate
<1>4. UNCHANGED <<thing, grouped, bound, policy, files>>
  BY DEF D!CreateCertificate
<1>5. /\ status' \in [Cert -> D!Status] /\ status'[c] = "ACTIVE"
      /\ \A b \in Cert : b # c => status'[b] = status[b]
      /\ c \notin policy
  BY <1>3 DEF DeviceInv, D!TypeOK, D!Status
<1>6. NoneUsable'
  BY <1>2, <1>4, <1>5 DEF NoneUsable, D!Usable
<1>7. D!TypeOK'
  <2>1. run' \in Seq(D!Calls) /\ arn' \in Cert \cup {None}
    BY <1>1, <1>3, ProvisioningReturns DEF DeviceInv, D!TypeOK
  <2>2. QED
    BY <1>4, <1>5, <2>1 DEF DeviceInv, D!TypeOK
<1>8. ProvisioningRun'
  <2>1. CASE D!Return /\ arn' = c
    <3>1. Progress(8)'
      BY <1>2, <1>4, <1>5, <1>6, <2>1 DEF Progress, D!NoFiles
    <3>2. QED
      BY <1>1, <2>1, <3>1, ProvisioningGoesOn
  <2>2. CASE UNCHANGED <<run, arn>>
    <3>1. Progress(9)'
      BY <1>2, <1>4, <1>6 DEF Progress, D!NoFiles
    <3>2. QED
      BY <1>1, <2>2, <3>1 DEF ProvisioningRun, Rest
  <2>3. QED
    BY <1>3, <2>1, <2>2
<1>9. QED
  BY <1>2, <1>4, <1>5, <1>6, <1>7, <1>8 DEF DeviceInv, NoneUsable

LEMMA AttachPrincipalKeeps == DeviceInv /\ D!AttachPrincipal => DeviceInv'
<1> SUFFICES ASSUME DeviceInv, D!AttachPrincipal PROVE DeviceInv'
  OBVIOUS
<1>1. ProvisioningRun /\ Len(run) = 8 /\ D!Return
  BY Provisions DEF D!AttachPrincipal, ProvisioningCalls, ProvisioningPlace
<1>2. run' \in Seq(D!Calls)
  BY <1>1, ProvisioningReturns
<1>3. bound' = bound \cup {arn} /\ UNCHANGED <<thing, grouped, status, policy, files, arn>>
  BY DEF D!AttachPrincipal
<1>4. /\ thing /\ grouped /\ arn \in Cert /\ status[arn] = "ACTIVE"
      /\ NoneUsable /\ bound = {} /\ files = D!NoFiles
  BY <1>1 DEF ProvisioningRun, Progress
<1>5. D!TypeOK'
  BY <1>2, <1>3, <1>4 DEF DeviceInv, D!TypeOK
<1>6. Progress(7)'
  BY <1>3, <1>4 DEF DeviceInv, D!TypeOK, Progress, NoneUsable, D!Usable, D!NoFiles
<1>7. ProvisioningRun'
  BY <1>1, <1>6, ProvisioningGoesOn
<1>8. QED
  BY <1>3, <1>4, <1>5, <1>7 DEF DeviceInv, NoneUsable, D!Usable, D!Inspect

LEMMA AttachPolicyKeeps == DeviceInv /\ D!AttachPolicy => DeviceInv'
<1> SUFFICES ASSUME DeviceInv, D!AttachPolicy PROVE DeviceInv'
  OBVIOUS
<1>1. ProvisioningRun /\ Len(run) = 7 /\ D!Return
  BY Provisions DEF D!AttachPolicy, ProvisioningCalls, ProvisioningPlace
<1>2. run' \in Seq(D!Calls)
  BY <1>1, ProvisioningReturns
<1>3. policy' = policy \cup {arn} /\ UNCHANGED <<thing, grouped, status, bound, files, arn>>
  BY DEF D!AttachPolicy
<1>4. /\ thing /\ grouped /\ arn \in Cert /\ status[arn] = "ACTIVE"
      /\ NoneUsable /\ bound = {arn} /\ files = D!NoFiles
  BY <1>1 DEF ProvisioningRun, Progress
<1>5. D!TypeOK'
  BY <1>2, <1>3, <1>4 DEF DeviceInv, D!TypeOK
<1>6. Progress(6)'
  BY <1>3, <1>4 DEF DeviceInv, D!TypeOK, Progress, NoneUsable, D!Usable, D!NoFiles
<1>7. ProvisioningRun'
  BY <1>1, <1>6, ProvisioningGoesOn
<1>8. QED
  BY <1>3, <1>4, <1>5, <1>7 DEF DeviceInv, NoneUsable, D!Usable, D!Inspect

LEMMA DescribeEndpointKeeps == DeviceInv /\ D!DescribeEndpoint => DeviceInv'
<1> SUFFICES ASSUME DeviceInv, D!DescribeEndpoint PROVE DeviceInv'
  OBVIOUS
<1>1. ProvisioningRun /\ Len(run) = 5 /\ D!Return
  BY Provisions DEF D!DescribeEndpoint, ProvisioningCalls, ProvisioningPlace
<1>2. run' \in Seq(D!Calls)
  BY <1>1, ProvisioningReturns
<1>3. UNCHANGED <<thing, grouped, status, bound, policy, files, arn>>
  BY DEF D!DescribeEndpoint, D!iot
<1>4. /\ thing /\ grouped /\ arn \in Cert /\ status[arn] = "ACTIVE"
      /\ bound = {arn} /\ files = D!NoFiles
  BY <1>1 DEF ProvisioningRun, Progress
<1>5. D!TypeOK'
  BY <1>2, <1>3, <1>4 DEF DeviceInv, D!TypeOK
<1>6. Progress(4)'
  BY <1>3, <1>4 DEF DeviceInv, D!TypeOK, Progress, NoneUsable, D!Usable, D!NoFiles
<1>7. ProvisioningRun'
  BY <1>1, <1>6, ProvisioningGoesOn
<1>8. QED
  BY <1>3, <1>4, <1>5, <1>7 DEF DeviceInv, NoneUsable, D!Usable, D!Inspect

LEMMA VerifyKeeps == DeviceInv /\ D!Verify => DeviceInv'
<1> SUFFICES ASSUME DeviceInv, D!Verify PROVE DeviceInv'
  OBVIOUS
<1>1. ProvisioningRun /\ Len(run) = 6
  BY Provisions DEF D!Verify, ProvisioningCalls, ProvisioningPlace
<1>2. UNCHANGED <<thing, grouped, status, bound, policy, files, arn>>
  BY DEF D!Verify, D!iot
<1>3. /\ thing /\ grouped /\ arn \in Cert /\ status[arn] = "ACTIVE"
      /\ bound = {arn} /\ files = D!NoFiles
  BY <1>1 DEF ProvisioningRun, Progress
<1>4. run' \in Seq(D!Calls) /\ (run' = <<>> \/ ProvisioningRun')
  <2>1. CASE D!Return
    <3>1. Progress(5)'
      BY <1>2, <1>3 DEF Progress, D!NoFiles
    <3>2. QED
      BY <1>1, <2>1, <3>1, ProvisioningGoesOn, ProvisioningReturns
  <2>2. CASE run' = <<>>
    BY <2>2, EmptySeq
  <2>3. QED
    BY <2>1, <2>2 DEF D!Verify
<1>5. QED
  BY <1>2, <1>4 DEF DeviceInv, D!TypeOK, D!Usable, D!Inspect

LEMMA WriteFileKeeps == DeviceInv /\ D!WriteFile => DeviceInv'
<1> SUFFICES ASSUME DeviceInv, D!WriteFile PROVE DeviceInv'
  OBVIOUS
<1>1. PICK n \in 1..4 : ProvisioningRun /\ Len(run) = n /\ D!Return
  BY Provisions DEF D!WriteFile, ProvisioningCalls, ProvisioningPlace
<1>2. run' \in Seq(D!Calls)
  BY <1>1, ProvisioningReturns
<1>3. /\ files' = [cert |-> arn, count |-> files.count + 1]
      /\ UNCHANGED <<thing, grouped, status, bound, policy, arn>>
  BY DEF D!WriteFile, D!iot
<1>4. /\ thing /\ grouped /\ arn \in Cert /\ status[arn] = "ACTIVE"
      /\ bound = {arn} /\ files.count = 4 - n
  BY <1>1 DEF ProvisioningRun, Progress, D!NoFiles
<1>5. files' \in [cert : Cert \cup {None}, count : 0..4]
  BY <1>3, <1>4
<1>6. D!TypeOK'
  BY <1>2, <1>3, <1>5 DEF DeviceInv, D!TypeOK
<1>7. run' = <<>> \/ ProvisioningRun'
  <2>1. CASE n = 1
    BY <1>1, <2>1, ProvisioningReturns
  <2>2. CASE n \in 2..4
    <3>1. Progress(n - 1)'
      BY <1>3, <1>4, <2>2 DEF Progress
    <3>2. QED
      BY <1>1, <2>2, <3>1, ProvisioningGoesOn
  <2>3. QED
    BY <2>1, <2>2
<1>8. QED
  BY <1>3, <1>6, <1>7 DEF DeviceInv, D!Usable, D!Inspect

\* Cleaning up goes on from n calls left.
LEMMA CleaningGoesOn ==
  ASSUME NEW n \in 2..6, CleaningRun, Len(run) = n, D!Return, Undone(n - 1)'
  PROVE  CleaningRun'
<1>1. Rest(D!CleaningUp)' /\ Len(run') = n - 1
  BY CleaningReturns
<1>2. QED
  BY <1>1 DEF CleaningRun

LEMMA DetachPolicyKeeps == DeviceInv /\ D!DetachPolicy => DeviceInv'
<1> SUFFICES ASSUME DeviceInv, D!DetachPolicy PROVE DeviceInv'
  OBVIOUS
<1>1. CleaningRun /\ Len(run) = 6 /\ D!Return
  BY Cleans DEF D!DetachPolicy, CleaningCalls, CleaningPlace
<1>2. run' \in Seq(D!Calls)
  BY <1>1, CleaningReturns
<1>3. policy' = policy \ {arn} /\ UNCHANGED <<thing, grouped, status, bound, files, arn>>
  BY DEF D!DetachPolicy
<1>4. arn \in Cert /\ thing /\ bound = {arn}
  BY <1>1 DEF CleaningRun, Undone, D!Inspect
<1>5. NoneUsable'
  BY <1>3, <1>4 DEF DeviceInv, D!TypeOK, NoneUsable, D!Usable, D!Inspect
<1>6. D!TypeOK'
  BY <1>2, <1>3, <1>4 DEF DeviceInv, D!TypeOK, D!Status
<1>7. CleaningRun'
  <2>1. Undone(5)'
    BY <1>3, <1>4, <1>5 DEF Undone
  <2>2. QED
    BY <1>1, <2>1, CleaningGoesOn
<1>8. QED
  BY <1>3, <1>4, <1>5, <1>6, <1>7 DEF DeviceInv, D!TypeOK, NoneUsable

LEMMA DetachPrincipalKeeps == DeviceInv /\ D!DetachPrincipal => DeviceInv'
<1> SUFFICES ASSUME DeviceInv, D!DetachPrincipal PROVE DeviceInv'
  OBVIOUS
<1>1. CleaningRun /\ Len(run) = 5 /\ D!Return
  BY Cleans DEF D!DetachPrincipal, CleaningCalls, CleaningPlace
<1>2. run' \in Seq(D!Calls)
  BY <1>1, CleaningReturns
<1>3. bound' = bound \ {arn} /\ UNCHANGED <<thing, grouped, status, policy, files, arn>>
  BY DEF D!DetachPrincipal
<1>4. arn \in Cert /\ bound \subseteq {arn} /\ NoneUsable
  BY <1>1 DEF CleaningRun, Undone
<1>5. NoneUsable'
  BY <1>3, <1>4 DEF DeviceInv, D!TypeOK, NoneUsable, D!Usable, D!Inspect
<1>6. D!TypeOK'
  BY <1>2, <1>3, <1>4 DEF DeviceInv, D!TypeOK, D!Status
<1>7. CleaningRun'
  <2>1. Undone(4)'
    BY <1>3, <1>4, <1>5 DEF Undone
  <2>2. QED
    BY <1>1, <2>1, CleaningGoesOn
<1>8. QED
  BY <1>3, <1>4, <1>5, <1>6, <1>7 DEF DeviceInv, D!TypeOK, NoneUsable

LEMMA DeactivateKeeps == DeviceInv /\ D!Deactivate => DeviceInv'
<1> SUFFICES ASSUME DeviceInv, D!Deactivate PROVE DeviceInv'
  OBVIOUS
<1>1. CleaningRun /\ Len(run) = 4 /\ D!Return
  BY Cleans DEF D!Deactivate, CleaningCalls, CleaningPlace
<1>2. run' \in Seq(D!Calls)
  BY <1>1, CleaningReturns
<1>3. status' = [status EXCEPT ![arn] = "INACTIVE"] /\ UNCHANGED <<thing, grouped, bound, policy, files, arn>>
  BY DEF D!Deactivate
<1>4. arn \in Cert /\ bound \subseteq {arn} /\ NoneUsable
  BY <1>1 DEF CleaningRun, Undone
<1>5. NoneUsable'
  BY <1>3, <1>4 DEF DeviceInv, D!TypeOK, NoneUsable, D!Usable, D!Inspect
<1>6. D!TypeOK'
  BY <1>2, <1>3, <1>4 DEF DeviceInv, D!TypeOK, D!Status
<1>7. CleaningRun'
  <2>1. Undone(3)'
    BY <1>3, <1>4, <1>5 DEF Undone
  <2>2. QED
    BY <1>1, <2>1, CleaningGoesOn
<1>8. QED
  BY <1>3, <1>4, <1>5, <1>6, <1>7 DEF DeviceInv, D!TypeOK, NoneUsable

LEMMA DeleteCertificateKeeps == DeviceInv /\ D!DeleteCertificate => DeviceInv'
<1> SUFFICES ASSUME DeviceInv, D!DeleteCertificate PROVE DeviceInv'
  OBVIOUS
<1>1. CleaningRun /\ Len(run) = 3 /\ D!Return
  BY Cleans DEF D!DeleteCertificate, CleaningCalls, CleaningPlace
<1>2. run' \in Seq(D!Calls)
  BY <1>1, CleaningReturns
<1>3. status' = [status EXCEPT ![arn] = "DELETED"] /\ UNCHANGED <<thing, grouped, bound, policy, files, arn>>
  BY DEF D!DeleteCertificate
<1>4. arn \in Cert /\ bound \subseteq {arn} /\ NoneUsable
  BY <1>1 DEF CleaningRun, Undone
<1>5. NoneUsable'
  BY <1>3, <1>4 DEF DeviceInv, D!TypeOK, NoneUsable, D!Usable, D!Inspect
<1>6. D!TypeOK'
  BY <1>2, <1>3, <1>4 DEF DeviceInv, D!TypeOK, D!Status
<1>7. CleaningRun'
  <2>1. Undone(2)'
    BY <1>3, <1>4, <1>5 DEF Undone
  <2>2. QED
    BY <1>1, <2>1, CleaningGoesOn
<1>8. QED
  BY <1>3, <1>4, <1>5, <1>6, <1>7 DEF DeviceInv, D!TypeOK, NoneUsable

LEMMA RemoveFromGroupKeeps == DeviceInv /\ D!RemoveFromGroup => DeviceInv'
<1> SUFFICES ASSUME DeviceInv, D!RemoveFromGroup PROVE DeviceInv'
  OBVIOUS
<1>1. CleaningRun /\ Len(run) = 2 /\ D!Return
  BY Cleans DEF D!RemoveFromGroup, CleaningCalls, CleaningPlace
<1>2. run' \in Seq(D!Calls)
  BY <1>1, CleaningReturns
<1>3. grouped' = FALSE /\ UNCHANGED <<thing, status, bound, policy, files, arn>>
  BY DEF D!RemoveFromGroup
<1>4. arn \in Cert /\ bound \subseteq {arn} /\ NoneUsable
  BY <1>1 DEF CleaningRun, Undone
<1>5. NoneUsable'
  BY <1>3, <1>4 DEF DeviceInv, D!TypeOK, NoneUsable, D!Usable, D!Inspect
<1>6. D!TypeOK'
  BY <1>2, <1>3, <1>4 DEF DeviceInv, D!TypeOK, D!Status
<1>7. CleaningRun'
  <2>1. Undone(1)'
    BY <1>3, <1>4, <1>5 DEF Undone
  <2>2. QED
    BY <1>1, <2>1, CleaningGoesOn
<1>8. QED
  BY <1>3, <1>4, <1>5, <1>6, <1>7 DEF DeviceInv, D!TypeOK, NoneUsable

LEMMA DeleteThingKeeps == DeviceInv /\ D!DeleteThing => DeviceInv'
<1> SUFFICES ASSUME DeviceInv, D!DeleteThing PROVE DeviceInv'
  OBVIOUS
<1>1. CleaningRun /\ Len(run) = 1 /\ D!Return
  BY Cleans DEF D!DeleteThing, CleaningCalls, CleaningPlace
<1>2. run' \in Seq(D!Calls)
  BY <1>1, CleaningReturns
<1>3. thing' = FALSE /\ bound = {} /\ UNCHANGED <<grouped, status, bound, policy, files, arn>>
  BY DEF D!DeleteThing
<1>4. arn \in Cert /\ ~grouped /\ NoneUsable
  BY <1>1 DEF CleaningRun, Undone
<1>5. NoneUsable'
  BY <1>3, <1>4 DEF DeviceInv, D!TypeOK, NoneUsable, D!Usable, D!Inspect
<1>6. D!TypeOK'
  BY <1>2, <1>3, <1>4 DEF DeviceInv, D!TypeOK, D!Status
<1>7. run' = <<>>
  BY <1>1, CleaningReturns
<1>8. QED
  BY <1>3, <1>4, <1>5, <1>6, <1>7 DEF DeviceInv, D!TypeOK, NoneUsable

LEMMA ProvisionKeeps == DeviceInv /\ D!Provision => DeviceInv'
<1> SUFFICES ASSUME DeviceInv, D!Provision PROVE DeviceInv'
  OBVIOUS
<1>1. /\ run' = D!Provisioning /\ arn' = None /\ ~thing /\ files = D!NoFiles
      /\ UNCHANGED <<thing, grouped, status, bound, policy, files>>
  BY DEF D!Provision, D!MayProvision, D!iot
<1>2. NoneUsable /\ bound = {}
  BY <1>1 DEF DeviceInv, NoneUsable, D!Inspect
<1>3. run' \in Seq(D!Calls) /\ Len(run') = 11
  BY <1>1, Lists
<1>4. Rest(D!Provisioning)'
  BY <1>1, <1>3, Lists DEF Rest
<1>5. Progress(11)'
  BY <1>1, <1>2 DEF Progress, NoneUsable, D!Usable, D!NoFiles
<1>6. QED
  BY <1>1, <1>2, <1>3, <1>4, <1>5 DEF DeviceInv, D!TypeOK, ProvisioningRun, NoneUsable, D!Usable

LEMMA CleanupKeeps == DeviceInv /\ D!Cleanup => DeviceInv'
<1> SUFFICES ASSUME DeviceInv, D!Cleanup PROVE DeviceInv'
  OBVIOUS
<1>1. /\ run' = D!CleaningUp /\ arn' \in Cert /\ D!Inspect(arn')
      /\ UNCHANGED <<thing, grouped, status, bound, policy, files>>
  BY DEF D!Cleanup, D!iot
<1>2. run' \in Seq(D!Calls) /\ Len(run') = 6
  BY <1>1, Lists
<1>3. Rest(D!CleaningUp)'
  BY <1>1, <1>2, Lists DEF Rest
<1>4. Undone(6)'
  BY <1>1 DEF Undone, D!Inspect
<1>5. QED
  BY <1>1, <1>2, <1>3, <1>4 DEF DeviceInv, D!TypeOK, CleaningRun, D!Usable, D!Inspect

LEMMA InterruptKeeps == DeviceInv /\ D!Interrupt => DeviceInv'
<1> SUFFICES ASSUME DeviceInv, D!Interrupt PROVE DeviceInv'
  OBVIOUS
<1>1. run' = <<>> /\ run' \in Seq(D!Calls)
  BY EmptySeq DEF D!Interrupt
<1>2. UNCHANGED <<thing, grouped, status, bound, policy, files, arn>>
  BY DEF D!Interrupt, D!iot
<1>3. QED
  BY <1>1, <1>2 DEF DeviceInv, D!TypeOK, D!Usable, D!Inspect

LEMMA MendKeeps == DeviceInv /\ D!Mend => DeviceInv'
<1> SUFFICES ASSUME DeviceInv, D!Mend PROVE DeviceInv'
  OBVIOUS
<1>1. run' = <<>> /\ run' \in Seq(D!Calls) /\ arn' = arn
  BY EmptySeq DEF D!Mend, D!Idle
<1>2. ASSUME NEW c \in bound, ~D!Usable(c), bound' = bound \ {c},
             UNCHANGED <<thing, grouped, status, policy, files>>
      PROVE  DeviceInv'
  BY <1>1, <1>2 DEF DeviceInv, D!TypeOK, D!Usable, D!Inspect
<1>3. ASSUME NEW c \in Cert, c \notin policy, status[c] \in {"ACTIVE", "INACTIVE"},
             status' = [status EXCEPT ![c] = "DELETED"],
             UNCHANGED <<thing, grouped, bound, policy, files>>
      PROVE  DeviceInv'
  <2>1. status' \in [Cert -> D!Status] /\ \A b \in Cert : b # c => status'[b] = status[b]
    BY <1>3 DEF DeviceInv, D!TypeOK, D!Status
  <2>2. status'[c] = "DELETED"
    BY <1>3 DEF DeviceInv, D!TypeOK
  <2>3. QED
    BY <1>1, <1>3, <2>1, <2>2 DEF DeviceInv, D!TypeOK, D!Usable, D!Inspect
<1>4. ASSUME bound = {}, thing' = FALSE, grouped' = FALSE, UNCHANGED <<status, bound, policy, files>>
      PROVE  DeviceInv'
  BY <1>1, <1>4 DEF DeviceInv, D!TypeOK, D!Usable, D!Inspect
<1>5. ASSUME files' = D!NoFiles, UNCHANGED <<thing, grouped, status, bound, policy>>
      PROVE  DeviceInv'
  <2>1. files' \in [cert : Cert \cup {None}, count : 0..4]
    BY <1>5 DEF D!NoFiles
  <2>2. QED
    BY <1>1, <1>5, <2>1 DEF DeviceInv, D!TypeOK, D!Usable, D!Inspect
<1>6. QED
  BY <1>2, <1>3, <1>4, <1>5 DEF D!Mend, D!iot

LEMMA DeviceNext == DeviceInv /\ [D!Next]_provisioning => DeviceInv'
<1>1. DeviceInv /\ UNCHANGED provisioning => DeviceInv'
  BY DEF provisioning, DeviceInv, D!TypeOK, D!Usable, D!Inspect, ProvisioningRun, CleaningRun,
         Rest, Progress, Undone, NoneUsable
<1>2. QED
  BY <1>1, CreateThingKeeps, AddToGroupKeeps, CreateCertificateKeeps, AttachPrincipalKeeps,
     AttachPolicyKeeps, VerifyKeeps, DescribeEndpointKeeps, WriteFileKeeps, DetachPolicyKeeps,
     DetachPrincipalKeeps, DeactivateKeeps, DeleteCertificateKeeps, RemoveFromGroupKeeps,
     DeleteThingKeeps, ProvisionKeeps, CleanupKeeps, InterruptKeeps, MendKeeps DEF D!Next

-----------------------------------------------------------------------------
(* The inductive invariant of the registration.                            *)

\* A run that has begun has its arguments and has printed nothing before it is
\* over; what it found of the device stays so, for the device is written once.
RegistryInv ==
  /\ R!TypeOK
  /\ \A r \in Run : pc[r] # "new" => asked[r] \in R!Args
  /\ \A r \in Run : pc[r] # "over" => result[r] = "NONE"
  /\ \A r \in Run : pc[r] = "member" /\ found[r] => device = asked[r]
  /\ OneOwner
  /\ AnswersAreTrue

LEMMA InitRegistry == R!Init => RegistryInv
BY DEF R!Init, RegistryInv, R!TypeOK, R!Row, R!Result, R!NoArgs, OneOwner, R!OneOwner,
       AnswersAreTrue, R!AnswersAreTrue

LEMMA NobodysArgs == R!NoArgs \notin R!Args
BY OperationsAssumption DEF OperationsAssumption, R!NoArgs, R!Args

\* The run that writes both items.
LEMMA Registering ==
  ASSUME RegistryInv, NEW r \in Run, pc[r] = "write", R!MayPut(r), device' = asked[r],
         member' = [member EXCEPT ![asked[r].user] = "WRITTEN"]
  PROVE  /\ device' \in R!Args /\ member' \in [User -> R!Row]
         /\ OneOwner'
         /\ \A s \in Run : asked[s] \in R!Args => device # asked[s]
<1>1. asked[r] \in R!Args /\ asked[r].user \in User
  BY DEF RegistryInv, R!Args
<1>2. device = R!NoArgs /\ member[asked[r].user] = "ABSENT"
  BY DEF R!MayPut
<1>3. \A u \in User : member[u] = "ABSENT"
  BY <1>2 DEF RegistryInv, OneOwner, R!OneOwner, R!NoArgs
<1>4. member' \in [User -> R!Row] /\ \A u \in User : member'[u] = "ABSENT" <=> u # asked[r].user
  BY <1>1, <1>3 DEF RegistryInv, R!TypeOK, R!Row
<1>5. None # asked[r].user
  BY <1>1, OperationsAssumption DEF OperationsAssumption
<1>6. OneOwner'
  BY <1>1, <1>4, <1>5 DEF OneOwner, R!OneOwner
<1>7. QED
  BY <1>1, <1>2, <1>4, <1>6, NobodysArgs

LEMMA RegistryNext == RegistryInv /\ R!Next => RegistryInv'
<1> SUFFICES ASSUME RegistryInv, R!Next PROVE RegistryInv'
  OBVIOUS
<1> USE DEF R!Goto, R!Tell, R!items, R!Result
<1>1. ASSUME NEW r \in Run, R!Begin(r) PROVE RegistryInv'
  BY <1>1 DEF R!Begin, RegistryInv, R!TypeOK, OneOwner, R!OneOwner, AnswersAreTrue, R!AnswersAreTrue
<1>2. ASSUME NEW r \in Run, R!Validate(r) PROVE RegistryInv'
  BY <1>2 DEF R!Validate, RegistryInv, R!TypeOK, OneOwner, R!OneOwner, AnswersAreTrue, R!AnswersAreTrue
<1>3. ASSUME NEW r \in Run, R!Transact(r) \/ R!TransactUnheard(r) PROVE RegistryInv'
  <2>1. /\ pc[r] = "write" /\ R!MayPut(r) /\ device' = asked[r]
        /\ member' = [member EXCEPT ![asked[r].user] = "WRITTEN"]
        /\ asked' = asked /\ found' = found
        /\ pc' = [pc EXCEPT ![r] = "over"]
        /\ result' \in {result, [result EXCEPT ![r] = "registered"]}
    BY <1>3 DEF R!Transact, R!TransactUnheard
  <2>2. /\ device' \in R!Args /\ member' \in [User -> R!Row] /\ OneOwner'
        /\ \A s \in Run : asked[s] \in R!Args => device # asked[s]
    BY <2>1, Registering
  <2>3. R!TypeOK'
    BY <2>1, <2>2, <1>3 DEF RegistryInv, R!TypeOK, R!Transact, R!TransactUnheard
  <2>4. QED
    BY <2>1, <2>2, <2>3 DEF RegistryInv, R!TypeOK, AnswersAreTrue, R!AnswersAreTrue
<1>4. ASSUME NEW r \in Run, R!Cancelled(r) \/ R!CancelledByConflict(r) \/ R!Fail(r) PROVE RegistryInv'
  BY <1>4 DEF R!Cancelled, R!CancelledByConflict, R!Fail, RegistryInv, R!TypeOK, OneOwner,
       R!OneOwner, AnswersAreTrue, R!AnswersAreTrue
<1>5. ASSUME NEW r \in Run, R!ReadDevice(r) PROVE RegistryInv'
  BY <1>5 DEF R!ReadDevice, R!SameDevice, RegistryInv, R!TypeOK, OneOwner, R!OneOwner,
       AnswersAreTrue, R!AnswersAreTrue
<1>6. ASSUME NEW r \in Run, R!ReadMember(r) PROVE RegistryInv'
  BY <1>6 DEF R!ReadMember, RegistryInv, R!TypeOK, OneOwner, R!OneOwner, AnswersAreTrue, R!AnswersAreTrue
<1>7. CASE R!Patch \/ R!Revoke
  <2>1. UNCHANGED <<device, pc, asked, found, result>>
    BY <1>7 DEF R!Patch, R!Revoke
  <2>2. member' \in [User -> R!Row] /\ \A u \in User : member'[u] = "ABSENT" <=> member[u] = "ABSENT"
    BY <1>7 DEF R!Patch, R!Revoke, RegistryInv, R!TypeOK, R!Row
  <2>3. OneOwner'
    BY <2>1, <2>2 DEF RegistryInv, OneOwner, R!OneOwner
  <2>4. QED
    BY <1>7, <2>1, <2>2, <2>3 DEF RegistryInv, R!TypeOK, AnswersAreTrue, R!AnswersAreTrue, R!Patch, R!Revoke
<1>8. QED
  BY <1>1, <1>2, <1>3, <1>4, <1>5, <1>6, <1>7 DEF R!Next, R!Register

\* Provisioning changes no item, only what the next run will see of the Thing.
LEMMA RegistryKept == RegistryInv /\ UNCHANGED registration => RegistryInv'
BY DEF registration, RegistryInv, R!TypeOK, Provisioned, D!Inspect, OneOwner, R!OneOwner, AnswersAreTrue, R!AnswersAreTrue

-----------------------------------------------------------------------------
(* The theorems.                                                           *)

OperationsInv == DeviceInv /\ RegistryInv

\* In every state of the two tools the invariant the other theorems rest on
\* holds: a run's calls, the state of AWS IoT, the two items and what every
\* registration has read of them fit.
THEOREM OperationsInvariant == Spec => []OperationsInv
<1>1. Init => OperationsInv
  BY InitDevice, InitRegistry DEF Init, OperationsInv
<1>2. OperationsInv /\ [Next]_vars => OperationsInv'
  BY DeviceNext, RegistryNext, RegistryKept DEF OperationsInv, Next, vars
<1>3. QED
  BY <1>1, <1>2, PTL DEF Spec

\* Both tools keep their types wherever a run is interrupted.
THEOREM TypeCorrect == Spec => []TypeOK
<1>1. OperationsInv => TypeOK
  BY DEF OperationsInv, DeviceInv, RegistryInv, TypeOK
<1>2. QED
  BY <1>1, OperationsInvariant, PTL

\* Wherever provisioning or a clean-up is interrupted, a certificate that can
\* be used is bound to the Thing in its group and the tool can revoke it
\* (dev_iot_device.py).
THEOREM AlwaysContained == Spec => []UsableIsContained
<1>1. OperationsInv => UsableIsContained
  BY DEF OperationsInv, DeviceInv, UsableIsContained, D!UsableIsContained, D!Inspect
<1>2. QED
  BY <1>1, OperationsInvariant, PTL

\* The device names one owner and no other user was made one, however many runs
\* of the registration overlap (register_dev_device.py).
THEOREM AlwaysOneOwner == Spec => []OneOwner
<1>1. OperationsInv => OneOwner
  BY DEF OperationsInv, RegistryInv
<1>2. QED
  BY <1>1, OperationsInvariant, PTL

\* No run is told that a device is registered as it was not.
THEOREM AlwaysTrueAnswers == Spec => []AnswersAreTrue
<1>1. OperationsInv => AnswersAreTrue
  BY DEF OperationsInv, RegistryInv
<1>2. QED
  BY <1>1, OperationsInvariant, PTL
=============================================================================
