----------------------- MODULE PushInstallationsProofs -----------------------
(***************************************************************************)
(* Proofs about PushInstallations for every number of requests, users,     *)
(* installations, tokens and attempts:                                     *)
(*   TypeCorrect        the type invariant;                                *)
(*   AlwaysConsistent   installations and claims agree;                    *)
(*   RemovalIsSafe      the sender removes no live registration;           *)
(*   RegistryRefined    the transactions implement PushRegistry;           *)
(*   ConflictsHaveRivals  a transaction fails only by another's commit;    *)
(*   RequestsTerminate  every step of a request brings it nearer its end.  *)
(***************************************************************************)
EXTENDS PushInstallations, TLAPS

USE TableAssumption

-----------------------------------------------------------------------------
(* What is asked, by its kind.                                             *)

LEMMA Asks ==
  /\ \A a \in Ask : a.op = "PUT" <=> a \in PutAsk
  /\ \A a \in Ask : a.op = "DELETE" <=> a \in DeleteAsk
  /\ \A a \in Ask : a.op = "REMOVE" <=> a \in RemoveAsk
  /\ \A a \in Ask : a.inst \in Installation
  /\ \A a \in PutAsk : a.user \in User /\ a.token \in Token
  /\ \A a \in DeleteAsk : a.user \in User
BY DEF Ask, PutAsk, DeleteAsk, RemoveAsk

LEMMA InstallationItems ==
  /\ \A x \in InstallationItem : x # NoItem /\ x.user \in User /\ x.token \in Token
       /\ x = [user |-> x.user, token |-> x.token]
  /\ \A u \in User, t \in Token : [user |-> u, token |-> t] \in InstallationItem
BY DEF InstallationItem

LEMMA ClaimItems ==
  /\ \A x \in ClaimItem : x # NoItem /\ x.user \in User /\ x.inst \in Installation
       /\ x = [inst |-> x.inst, user |-> x.user]
  /\ \A u \in User, i \in Installation : [inst |-> i, user |-> u] \in ClaimItem
BY DEF ClaimItem

-----------------------------------------------------------------------------
(* Type correctness.                                                       *)

LEMMA InitTypeOK == Init => TypeOK
BY DEF Init, TypeOK, PcState, Answer

LEMMA ReplyTypes ==
  ASSUME TypeOK, NEW r \in Request, NEW a \in Answer, Reply(r, a)
  PROVE  /\ pc' \in [Request -> PcState] /\ answer' \in [Request -> Answer]
         /\ sawInst' \in [Request -> InstallationItem \cup {NoItem}]
         /\ sawClaim' \in [Request -> ClaimItem \cup {NoItem}]
         /\ \A s \in Request : pc'[s] # "new" => req'[s] \in Ask \/ s = r
         /\ UNCHANGED <<unregistered, req, attempt>>
BY DEF TypeOK, Reply, PcState

LEMMA GotoTypes ==
  ASSUME TypeOK, NEW r \in Request, pc[r] # "new", NEW w \in PcState, Goto(r, w),
         sawInst' \in [Request -> InstallationItem \cup {NoItem}],
         sawClaim' \in [Request -> ClaimItem \cup {NoItem}]
  PROVE  TypeOK'
BY DEF TypeOK, Goto, tables

LEMMA WritePutTypes ==
  ASSUME TypeOK, NEW r \in Request, req[r] \in PutAsk, WritePut(r)
  PROVE  /\ installation' \in [Installation -> InstallationItem \cup {NoItem}]
         /\ claim' \in [Token -> ClaimItem \cup {NoItem}]
         /\ versions' \in [Installation -> SUBSET InstallationItem]
<1>1. /\ req[r].user \in User /\ req[r].token \in Token /\ req[r].inst \in Installation
  BY Asks DEF Ask
<1>2. /\ [user |-> req[r].user, token |-> req[r].token] \in InstallationItem
      /\ [inst |-> req[r].inst, user |-> req[r].user] \in ClaimItem
  BY <1>1, InstallationItems, ClaimItems
<1>3. QED
  BY <1>1, <1>2 DEF WritePut, TypeOK

LEMMA WriteDeleteTypes ==
  ASSUME TypeOK, NEW r \in Request, WriteDelete(r)
  PROVE  /\ installation' \in [Installation -> InstallationItem \cup {NoItem}]
         /\ claim' \in [Token -> ClaimItem \cup {NoItem}]
         /\ versions' \in [Installation -> SUBSET InstallationItem]
BY DEF TypeOK, WriteDelete

\* A request that ends leaves well typed tables well typed.
LEMMA EndTypes ==
  ASSUME TypeOK, NEW r \in Request, pc[r] # "new", NEW a \in Answer, Reply(r, a),
         installation' \in [Installation -> InstallationItem \cup {NoItem}],
         claim' \in [Token -> ClaimItem \cup {NoItem}],
         versions' \in [Installation -> SUBSET InstallationItem]
  PROVE  TypeOK'
BY ReplyTypes DEF TypeOK

LEMMA HandleTypeOK == ASSUME TypeOK, NEW r \in Request, Handle(r) PROVE TypeOK'
<1> USE DEF PcState, Answer
<1>1. CASE ReadPair(r)
  <2>1. req[r] \in PutAsk
    BY <1>1, Asks DEF ReadPair, TypeOK
  <2>2. /\ sawInst' \in [Request -> InstallationItem \cup {NoItem}]
        /\ sawClaim' \in [Request -> ClaimItem \cup {NoItem}]
    BY <1>1, <2>1, Asks DEF ReadPair, TypeOK, Ask
  <2>3. QED
    BY <1>1, <2>2, GotoTypes DEF ReadPair
<1>2. CASE ReadOwn(r)
  <2>1. /\ sawInst' \in [Request -> InstallationItem \cup {NoItem}]
        /\ sawClaim' \in [Request -> ClaimItem \cup {NoItem}]
    BY <1>2, Asks DEF ReadOwn, TypeOK
  <2>2. QED
    BY <1>2, <2>1, GotoTypes DEF ReadOwn
<1>3. CASE ReadForeign(r) \/ SendOver(r) \/ GiveUp(r) \/ SkipRemoval(r)
  BY <1>3, EndTypes DEF ReadForeign, SendOver, GiveUp, SkipRemoval, Cancelled, tables, TypeOK
<1>4. CASE SendRefused(r)
  BY <1>4, GotoTypes DEF SendRefused, reads, TypeOK
<1>5. CASE CommitPut(r)
  <2>1. req[r] \in PutAsk
    BY <1>5, Asks DEF CommitPut, TypeOK
  <2>2. QED
    BY <1>5, <2>1, WritePutTypes, EndTypes DEF CommitPut
<1>6. CASE CommitDelete(r) \/ CommitRemove(r)
  BY <1>6, WriteDeleteTypes, EndTypes DEF CommitDelete, CommitRemove
<1>7. CASE Retry(r)
  BY <1>7 DEF Retry, Cancelled, MayRetry, NextAttempt, TypeOK, tables, reads
<1>8. QED
  BY <1>1, <1>2, <1>3, <1>4, <1>5, <1>6, <1>7 DEF Handle

LEMMA NextTypeOK == TypeOK /\ [Next]_vars => TypeOK'
<1> SUFFICES ASSUME TypeOK, [Next]_vars PROVE TypeOK'
  OBVIOUS
<1>1. ASSUME NEW r \in Request, Receive(r) PROVE TypeOK'
  BY <1>1 DEF Receive, TypeOK, Ask, PcState, tables, reads
<1>2. ASSUME NEW r \in Request, Fetch(r) PROVE TypeOK'
  <2>1. PICK ask \in RemoveAsk : \E item \in versions[ask.inst] :
          /\ req' = [req EXCEPT ![r] = ask]
          /\ sawInst' = [sawInst EXCEPT ![r] = item]
    BY <1>2 DEF Fetch
  <2>2. ask \in Ask /\ ask.inst \in Installation
    BY Asks DEF Ask
  <2>3. sawInst' \in [Request -> InstallationItem \cup {NoItem}]
    BY <2>1, <2>2 DEF TypeOK
  <2>4. QED
    BY <1>2, <2>1, <2>2, <2>3 DEF Fetch, TypeOK, PcState, tables
<1>3. ASSUME NEW r \in Request, Unavailable(r) PROVE TypeOK'
  BY <1>3, EndTypes DEF Unavailable, Answer, tables, TypeOK
<1>4. ASSUME NEW t \in Token, Expire(t) PROVE TypeOK'
  BY <1>4 DEF Expire, TypeOK, tables, reads
<1>5. CASE UNCHANGED vars
  BY <1>5 DEF vars, tables, reads, TypeOK
<1>6. QED
  BY <1>1, <1>2, <1>3, <1>4, <1>5, HandleTypeOK DEF Next

\* TypeOK of every state of the table and its requests (push_api handler and cleanup).
THEOREM TypeCorrect == Spec => []TypeOK
BY InitTypeOK, NextTypeOK, PTL DEF Spec

-----------------------------------------------------------------------------
(* What requests have read.                                                *)

LEMMA InitRequestInv == Init => RequestInv
BY DEF Init, RequestInv

LEMMA ReplyRequestInv ==
  ASSUME TypeOK, RequestInv, NEW r \in Request, NEW a \in Answer \ {"NONE"}, Reply(r, a)
  PROVE  RequestInv'
BY DEF TypeOK, RequestInv, Reply

LEMMA HandleRequestInv ==
  ASSUME TypeOK, RequestInv, NEW r \in Request, Handle(r) PROVE RequestInv'
<1>1. CASE ReadPair(r) \/ ReadOwn(r)
  BY <1>1, Asks DEF ReadPair, ReadOwn, Owns, Goto, RequestInv, TypeOK
<1>2. CASE ReadForeign(r) \/ SendOver(r) \/ GiveUp(r) \/ SkipRemoval(r)
  BY <1>2, ReplyRequestInv DEF ReadForeign, SendOver, GiveUp, SkipRemoval, Answer
<1>3. CASE SendRefused(r)
  BY <1>3, Asks DEF SendRefused, TokenInvalid, Goto, reads, RequestInv, TypeOK
<1>4. CASE CommitPut(r) \/ CommitDelete(r) \/ CommitRemove(r)
  BY <1>4, ReplyRequestInv DEF CommitPut, CommitDelete, CommitRemove, Answer
<1>5. CASE Retry(r)
  BY <1>5, Asks DEF Retry, Cancelled, reads, RequestInv, TypeOK, Ask
<1>6. QED
  BY <1>1, <1>2, <1>3, <1>4, <1>5 DEF Handle

LEMMA NextRequestInv == TypeOK /\ RequestInv /\ [Next]_vars => RequestInv'
<1> SUFFICES ASSUME TypeOK, RequestInv, [Next]_vars PROVE RequestInv'
  OBVIOUS
<1>1. ASSUME NEW r \in Request, Receive(r) PROVE RequestInv'
  BY <1>1, Asks DEF Receive, Ask, reads, RequestInv, TypeOK
<1>2. ASSUME NEW r \in Request, Fetch(r) PROVE RequestInv'
  <2>1. PICK ask \in RemoveAsk : \E item \in versions[ask.inst] :
          /\ req' = [req EXCEPT ![r] = ask]
          /\ sawInst' = [sawInst EXCEPT ![r] = item]
    BY <1>2 DEF Fetch
  <2>2. ask \in Ask /\ ask.inst \in Installation
    BY Asks DEF Ask
  <2>3. \A item \in versions[ask.inst] : item # NoItem
    BY <2>2, InstallationItems DEF TypeOK
  <2>4. QED
    BY <1>2, <2>1, <2>2, <2>3, Asks DEF Fetch, RequestInv, TypeOK
<1>3. ASSUME NEW r \in Request, Unavailable(r) PROVE RequestInv'
  BY <1>3, ReplyRequestInv DEF Unavailable, Answer
<1>4. ASSUME NEW t \in Token, Expire(t) PROVE RequestInv'
  BY <1>4 DEF Expire, reads, RequestInv
<1>5. CASE UNCHANGED vars
  BY <1>5 DEF vars, reads, RequestInv
<1>6. QED
  BY <1>1, <1>2, <1>3, <1>4, <1>5, HandleRequestInv DEF Next

-----------------------------------------------------------------------------
(* Installations and claims agree.                                         *)

\* The transaction of a PUT keeps them in agreement: an installation that keeps
\* its token keeps its claim, because no other installation claims the old
\* token of r and only the prior owner claims the new one.
LEMMA PutConsistent ==
  ASSUME TypeOK, Consistent, NEW r \in Request, req[r] \in PutAsk,
         PutConditions(r), WritePut(r)
  PROVE  Consistent'
<1> DEFINE i0 == req[r].inst
           t0 == req[r].token
<1>1. i0 \in Installation /\ t0 \in Token /\ req[r].user \in User
  BY Asks DEF Ask
<1>2. ASSUME NEW i \in Installation, installation'[i] # NoItem
      PROVE  claim'[installation'[i].token] = [inst |-> i, user |-> installation'[i].user]
  <2>1. CASE i = i0
    BY <1>1, <2>1 DEF WritePut
  <2>2. CASE i # i0
    <3>1. installation'[i] = installation[i] /\ i \notin PriorInstallations(r)
      BY <1>2, <2>2 DEF WritePut
    <3>2. /\ installation[i].token \in Token
          /\ claim[installation[i].token] = [inst |-> i, user |-> installation[i].user]
      BY <1>2, <3>1, InstallationItems DEF Consistent, TypeOK
    <3>3. installation[i].token # t0
      <4>1. SUFFICES ASSUME installation[i].token = t0 PROVE FALSE
        OBVIOUS
      <4>2. installation[i].user \in User
        BY <1>2, <3>1, InstallationItems DEF TypeOK
      <4>3. sawClaim[r] = [inst |-> i, user |-> installation[i].user]
        BY <3>2, <4>1 DEF PutConditions
      <4>4. sawClaim[r] # NoItem /\ sawClaim[r].inst = i
        BY <4>2, <4>3, ClaimItems
      <4>5. QED
        BY <2>2, <3>1, <4>4 DEF PriorInstallations
    <3>4. installation[i].token \notin OldTokens(r)
      BY <2>2, <3>2 DEF PutConditions
    <3>5. QED
      BY <3>1, <3>2, <3>3, <3>4 DEF WritePut
  <2>3. QED
    BY <2>1, <2>2
<1>3. ASSUME NEW t \in Token, claim'[t] # NoItem
      PROVE  installation'[claim'[t].inst] = [user |-> claim'[t].user, token |-> t]
  <2>1. CASE t = t0
    BY <1>1, <2>1 DEF WritePut
  <2>2. CASE t # t0
    <3>1. claim'[t] = claim[t] /\ t \notin OldTokens(r)
      BY <1>3, <2>2 DEF WritePut
    <3>2. /\ claim[t].inst \in Installation /\ claim[t].user \in User
          /\ installation[claim[t].inst] = [user |-> claim[t].user, token |-> t]
      BY <1>3, <3>1, ClaimItems DEF Consistent, TypeOK
    <3>3. claim[t].inst # i0
      <4>1. SUFFICES ASSUME claim[t].inst = i0 PROVE FALSE
        OBVIOUS
      <4>2. sawInst[r] = [user |-> claim[t].user, token |-> t]
        BY <3>2, <4>1 DEF PutConditions
      <4>3. sawInst[r] # NoItem /\ sawInst[r].token = t
        BY <3>2, <4>2, InstallationItems
      <4>4. QED
        BY <2>2, <3>1, <4>3 DEF OldTokens
    <3>4. claim[t].inst \notin PriorInstallations(r)
      BY <2>2, <3>2 DEF PutConditions
    <3>5. QED
      BY <3>1, <3>2, <3>3, <3>4 DEF WritePut
  <2>3. QED
    BY <2>1, <2>2
<1>4. QED
  BY <1>2, <1>3 DEF Consistent

\* The two Deletes remove an installation and the one claim that names it.
LEMMA DeleteConsistent ==
  ASSUME TypeOK, Consistent, NEW r \in Request, req[r] \in Ask,
         sawInst[r] # NoItem, DeleteConditions(r), WriteDelete(r)
  PROVE  Consistent'
<1>1. req[r].inst \in Installation /\ sawInst[r].token \in Token
  BY Asks, InstallationItems DEF TypeOK
<1>2. ASSUME NEW i \in Installation, installation'[i] # NoItem
      PROVE  claim'[installation'[i].token] = [inst |-> i, user |-> installation'[i].user]
  <2>1. i # req[r].inst /\ installation'[i] = installation[i]
    BY <1>1, <1>2 DEF WriteDelete, TypeOK
  <2>2. claim[installation[i].token] = [inst |-> i, user |-> installation[i].user]
    BY <1>2, <2>1 DEF Consistent
  <2>3. installation[i].token # sawInst[r].token
    BY <2>1, <2>2 DEF DeleteConditions
  <2>4. QED
    BY <2>1, <2>2, <2>3 DEF WriteDelete, TypeOK
<1>3. ASSUME NEW t \in Token, claim'[t] # NoItem
      PROVE  installation'[claim'[t].inst] = [user |-> claim'[t].user, token |-> t]
  <2>1. t # sawInst[r].token /\ claim'[t] = claim[t]
    BY <1>1, <1>3 DEF WriteDelete, TypeOK
  <2>2. installation[claim[t].inst] = [user |-> claim[t].user, token |-> t]
    BY <1>3, <2>1 DEF Consistent
  <2>3. claim[t].inst # req[r].inst
    BY <2>1, <2>2 DEF DeleteConditions
  <2>4. QED
    BY <2>1, <2>2, <2>3 DEF WriteDelete, TypeOK
<1>4. QED
  BY <1>2, <1>3 DEF Consistent

LEMMA NextConsistent == RegistryInv /\ [Next]_vars => Consistent'
<1> SUFFICES ASSUME TypeOK, RequestInv, Consistent, [Next]_vars PROVE Consistent'
  BY DEF RegistryInv
<1>1. ASSUME NEW r \in Request, CommitPut(r) PROVE Consistent'
  BY <1>1, PutConsistent, Asks DEF CommitPut, TypeOK
<1>2. ASSUME NEW r \in Request, CommitDelete(r) \/ CommitRemove(r) PROVE Consistent'
  BY <1>2, DeleteConsistent, Asks DEF CommitDelete, CommitRemove, RequestInv, TypeOK
<1>3. ASSUME UNCHANGED tables PROVE Consistent'
  BY <1>3 DEF tables, Consistent
<1>4. \A r \in Request : Handle(r) =>
        CommitPut(r) \/ CommitDelete(r) \/ CommitRemove(r) \/ UNCHANGED tables
  BY DEF Handle, ReadPair, ReadOwn, ReadForeign, SendRefused, SendOver, Retry, GiveUp,
         SkipRemoval, Goto
<1>5. \A r \in Request : Receive(r) \/ Fetch(r) \/ Unavailable(r) => UNCHANGED tables
  BY DEF Receive, Fetch, Unavailable
<1>6. \A t \in Token : Expire(t) => UNCHANGED tables
  BY DEF Expire
<1>7. QED
  BY <1>1, <1>2, <1>3, <1>4, <1>5, <1>6 DEF Next, vars

THEOREM RegistryInvariant == Spec => []RegistryInv
<1>1. Init => RegistryInv
  BY InitTypeOK, InitRequestInv DEF RegistryInv, Init
<1>2. RegistryInv /\ [Next]_vars => RegistryInv'
  BY NextTypeOK, NextRequestInv, NextConsistent DEF RegistryInv
<1>3. QED
  BY <1>1, <1>2, PTL DEF Spec

\* Every installation's token is claimed by it, and every claim names an
\* installation that has the token (push_api: both items in one commit).
THEOREM AlwaysConsistent == Spec => []Consistent
BY RegistryInvariant, PTL DEF RegistryInv

-----------------------------------------------------------------------------
(* The sender's removals.                                                  *)

\* Only the end of a transaction changes an INSTALLATION item.
LEMMA InstallationChanges ==
  ASSUME [Next]_vars, NEW s \in Request, pc[s] = "write", pc'[s] # "write",
         TypeOK, installation' # installation
  PROVE  CommitPut(s) \/ CommitDelete(s) \/ CommitRemove(s)
<1>1. \A r \in Request : CommitPut(r) \/ CommitDelete(r) \/ CommitRemove(r) =>
        \E a \in Answer : Reply(r, a)
  BY DEF CommitPut, CommitDelete, CommitRemove, Answer
<1>2. \A r \in Request : CommitPut(r) \/ CommitDelete(r) \/ CommitRemove(r) => r = s
  BY <1>1 DEF Reply, TypeOK
<1>3. \E r \in Request : CommitPut(r) \/ CommitDelete(r) \/ CommitRemove(r)
  <2>1. \A r \in Request : Handle(r) =>
          CommitPut(r) \/ CommitDelete(r) \/ CommitRemove(r) \/ UNCHANGED installation
    BY DEF Handle, ReadPair, ReadOwn, ReadForeign, SendRefused, SendOver, Retry, GiveUp,
           SkipRemoval, Goto, tables
  <2>2. \A r \in Request : Receive(r) \/ Fetch(r) \/ Unavailable(r) => UNCHANGED installation
    BY DEF Receive, Fetch, Unavailable, tables
  <2>3. \A t \in Token : Expire(t) => UNCHANGED installation
    BY DEF Expire, tables
  <2>4. UNCHANGED vars => UNCHANGED installation
    BY DEF vars, tables
  <2>5. QED
    BY <2>1, <2>2, <2>3, <2>4 DEF Next
<1>4. QED
  BY <1>2, <1>3

\* A removal deletes the installation whose token FCM has refused, and only while
\* it still has that token (cleanup.py).
THEOREM RemovalIsSafe == Spec => RemovalSparesLiveTokens
<1>1. ASSUME RegistryInv, [Next]_vars, NEW r \in Request, NEW i \in Installation,
             req[r] \in RemoveAsk, pc[r] = "write", pc'[r] # "write",
             installation[i] # NoItem, installation'[i] # installation[i]
      PROVE  installation[i].token \in unregistered
  <2>1. CommitRemove(r)
    <3>1. CommitPut(r) \/ CommitDelete(r) \/ CommitRemove(r)
      BY <1>1, InstallationChanges DEF RegistryInv
    <3>2. req[r].op = "REMOVE"
      BY <1>1 DEF RemoveAsk
    <3>3. QED
      BY <3>1, <3>2 DEF CommitPut, CommitDelete
  <2>2. i = req[r].inst
    BY <1>1, <2>1 DEF CommitRemove, WriteDelete, RegistryInv, TypeOK
  <2>3. installation[i] = sawInst[r]
    BY <2>1, <2>2 DEF CommitRemove, DeleteConditions
  <2>4. QED
    BY <1>1, <2>3 DEF RegistryInv, RequestInv
<1>2. RegistryInv /\ [Next]_vars =>
        [\A r \in Request, i \in Installation :
           req[r] \in RemoveAsk /\ pc[r] = "write" /\ pc'[r] # "write"
             /\ installation[i] # NoItem /\ installation'[i] # installation[i]
             => installation[i].token \in unregistered]_vars
  BY <1>1
<1>3. QED
  BY <1>2, RegistryInvariant, PTL DEF Spec, RemovalSparesLiveTokens

-----------------------------------------------------------------------------
(* The transactions implement PushRegistry.                                *)

\* A registration is an INSTALLATION item.
LEMMA RegistrationsOf ==
  ASSUME NEW f \in [Installation -> InstallationItem \cup {NoItem}]
  PROVE  \A x : x \in {[inst |-> i, user |-> f[i].user, token |-> f[i].token] :
                         i \in {j \in Installation : f[j] # NoItem}}
           <=> /\ x \in Registry!Registration
               /\ f[x.inst] = [user |-> x.user, token |-> x.token]
<1> DEFINE R == {[inst |-> i, user |-> f[i].user, token |-> f[i].token] :
                   i \in {j \in Installation : f[j] # NoItem}}
<1>1. ASSUME NEW i \in Installation, f[i] # NoItem
      PROVE  f[i].user \in User /\ f[i].token \in Token
             /\ f[i] = [user |-> f[i].user, token |-> f[i].token]
  BY <1>1, InstallationItems
<1>2. ASSUME NEW x, x \in R
      PROVE  x \in Registry!Registration /\ f[x.inst] = [user |-> x.user, token |-> x.token]
  BY <1>1, <1>2 DEF Registry!Registration
<1>3. ASSUME NEW x \in Registry!Registration, f[x.inst] = [user |-> x.user, token |-> x.token]
      PROVE  x \in R
  <2>1. /\ x.inst \in Installation /\ x.user \in User /\ x.token \in Token
        /\ x = [inst |-> x.inst, user |-> x.user, token |-> x.token]
    BY DEF Registry!Registration
  <2>2. f[x.inst] # NoItem
    BY <1>3, <2>1, InstallationItems
  <2>3. f[x.inst].user = x.user /\ f[x.inst].token = x.token
    BY <1>3
  <2>4. QED
    BY <2>1, <2>2, <2>3
<1>4. QED
  BY <1>2, <1>3

LEMMA Registrations ==
  ASSUME TypeOK
  PROVE  \A x : x \in Registered <=>
           /\ x \in Registry!Registration
           /\ installation[x.inst] = [user |-> x.user, token |-> x.token]
BY RegistrationsOf DEF TypeOK, Registered

LEMMA RegistrationsNext ==
  ASSUME TypeOK'
  PROVE  \A x : x \in Registered' <=>
           /\ x \in Registry!Registration
           /\ installation'[x.inst] = [user |-> x.user, token |-> x.token]
BY RegistrationsOf DEF TypeOK, Registered

\* The answer a request ends with is one PushRegistry allows.
LEMMA ReplyAnswers ==
  ASSUME TypeOK, RequestInv, NEW r \in Request, pc[r] # "over", NEW a \in Answer, Reply(r, a)
  PROVE  answer[r] = "NONE" /\ answer' = [answer EXCEPT ![r] = a]
BY DEF RequestInv, Reply

LEMMA PutRefines ==
  ASSUME RegistryInv, TypeOK', NEW r \in Request, CommitPut(r)
  PROVE  Registry!Next
<1> DEFINE reg == [inst |-> req[r].inst, user |-> req[r].user, token |-> req[r].token]
<1>1. req[r] \in PutAsk /\ req[r].inst \in Installation /\ req[r].user \in User
        /\ req[r].token \in Token
  BY Asks DEF CommitPut, RegistryInv, TypeOK, Ask
<1>2. reg \in Registry!Registration
  BY <1>1 DEF Registry!Registration
<1>3. ASSUME NEW x \in Registry!Registration
      PROVE  x \in Registered' <=>
               x \in {y \in Registered : y.inst # reg.inst /\ y.token # reg.token} \cup {reg}
  <2>1. x.inst \in Installation /\ x.user \in User /\ x.token \in Token
        /\ x = [inst |-> x.inst, user |-> x.user, token |-> x.token]
    BY DEF Registry!Registration
  <2>2. x \in Registered' <=> installation'[x.inst] = [user |-> x.user, token |-> x.token]
    BY RegistrationsNext
  <2>3. x \in Registered <=> installation[x.inst] = [user |-> x.user, token |-> x.token]
    BY Registrations DEF RegistryInv
  <2>4. CASE x.inst = reg.inst
    <3>1. installation'[x.inst] = [user |-> reg.user, token |-> reg.token]
      BY <1>1, <2>1, <2>4 DEF CommitPut, WritePut
    <3>2. QED
      BY <2>1, <2>2, <2>4, <3>1
  <2>5. CASE x.inst # reg.inst /\ x.inst \in PriorInstallations(r)
    <3>1. installation'[x.inst] = NoItem
      BY <2>1, <2>5 DEF CommitPut, WritePut
    <3>2. x \notin Registered'
      BY <2>1, <2>2, <3>1, InstallationItems
    <3>3. installation[x.inst] = [user |-> sawClaim[r].user, token |-> req[r].token]
      BY <2>5 DEF CommitPut, PutConditions
    <3>4. x \in Registered => x.token = reg.token
      BY <2>3, <3>3
    <3>5. QED
      BY <2>5, <3>2, <3>4
  <2>6. CASE x.inst # reg.inst /\ x.inst \notin PriorInstallations(r)
    <3>1. installation'[x.inst] = installation[x.inst]
      BY <2>1, <2>6 DEF CommitPut, WritePut
    <3>2. ASSUME x \in Registered PROVE x.token # reg.token
      <4>1. SUFFICES ASSUME x.token = reg.token PROVE FALSE
        OBVIOUS
      <4>2. claim[req[r].token] = [inst |-> x.inst, user |-> x.user]
        <5>1. installation[x.inst] = [user |-> x.user, token |-> x.token]
              /\ installation[x.inst] # NoItem
          BY <2>1, <2>3, <3>2, InstallationItems
        <5>2. claim[installation[x.inst].token] =
                [inst |-> x.inst, user |-> installation[x.inst].user]
          BY <2>1, <5>1 DEF RegistryInv, Consistent
        <5>3. QED
          BY <4>1, <5>1, <5>2
      <4>3. sawClaim[r] # NoItem /\ sawClaim[r].inst = x.inst
        BY <2>1, <4>2, ClaimItems DEF CommitPut, PutConditions
      <4>4. QED
        BY <2>6, <4>3 DEF PriorInstallations
    <3>3. QED
      BY <2>2, <2>3, <2>6, <3>1, <3>2
  <2>7. QED
    BY <2>4, <2>5, <2>6
<1>4. Registered' = {y \in Registered : y.inst # reg.inst /\ y.token # reg.token} \cup {reg}
  <2>1. \A x : x \in Registered' => x \in Registry!Registration
    BY RegistrationsNext
  <2>2. \A x : x \in Registered => x \in Registry!Registration
    BY Registrations DEF RegistryInv
  <2>3. QED
    BY <1>2, <1>3, <2>1, <2>2
<1>5. Registry!Answers(r, "204")
  BY ReplyAnswers DEF CommitPut, RegistryInv, Answer, Registry!Answers
<1>6. Registry!Register(r, reg)
  BY <1>4, <1>5 DEF Registry!Register
<1>7. QED
  BY <1>2, <1>6 DEF Registry!Next

\* A DELETE, by the user who owns the installation, and a removal take one
\* registration away.
LEMMA DeleteRefines ==
  ASSUME RegistryInv, TypeOK', NEW r \in Request, CommitDelete(r) \/ CommitRemove(r)
  PROVE  Registry!Next
<1> DEFINE reg == [inst |-> req[r].inst, user |-> sawInst[r].user, token |-> sawInst[r].token]
<1>1. /\ req[r].inst \in Installation /\ sawInst[r] \in InstallationItem
      /\ installation[req[r].inst] = sawInst[r]
      /\ WriteDelete(r) /\ req[r] \in Ask
  BY Asks DEF CommitDelete, CommitRemove, DeleteConditions, RegistryInv, TypeOK, RequestInv
<1>2. /\ reg \in Registry!Registration
      /\ installation[reg.inst] = [user |-> reg.user, token |-> reg.token]
  BY <1>1, InstallationItems DEF Registry!Registration
<1>3. ASSUME NEW x \in Registry!Registration
      PROVE  /\ x \in Registered' <=> x \in Registered /\ x.inst # reg.inst
             /\ x \in Registered /\ x.inst = reg.inst => x = reg
  <2>1. /\ x.inst \in Installation /\ x.user \in User /\ x.token \in Token
        /\ x = [inst |-> x.inst, user |-> x.user, token |-> x.token]
    BY DEF Registry!Registration
  <2>2. x \in Registered' <=> installation'[x.inst] = [user |-> x.user, token |-> x.token]
    BY RegistrationsNext
  <2>3. x \in Registered <=> installation[x.inst] = [user |-> x.user, token |-> x.token]
    BY Registrations DEF RegistryInv
  <2>4. CASE x.inst = reg.inst
    <3>1. installation'[x.inst] = NoItem
      BY <1>1, <2>1, <2>4 DEF WriteDelete, RegistryInv, TypeOK
    <3>2. x \notin Registered'
      BY <2>1, <2>2, <3>1, InstallationItems
    <3>3. x \in Registered => x = reg
      BY <1>2, <2>1, <2>3, <2>4
    <3>4. QED
      BY <2>4, <3>2, <3>3
  <2>5. CASE x.inst # reg.inst
    BY <1>1, <2>1, <2>2, <2>3, <2>5 DEF WriteDelete, RegistryInv, TypeOK
  <2>6. QED
    BY <2>4, <2>5
<1>4. \A x : x \in Registered' \/ x \in Registered => x \in Registry!Registration
  BY Registrations, RegistrationsNext DEF RegistryInv
<1>5. CASE CommitDelete(r)
  <2>1. req[r].user = sawInst[r].user /\ req[r].user \in User
    BY <1>1, <1>5, Asks, InstallationItems DEF CommitDelete, RegistryInv, RequestInv
  <2>2. Registered' = {x \in Registered : ~(x.inst = req[r].inst /\ x.user = req[r].user)}
    BY <1>3, <1>4, <2>1
  <2>3. Registry!Answers(r, "204")
    BY <1>5, ReplyAnswers DEF CommitDelete, RegistryInv, Answer, Registry!Answers
  <2>4. Registry!Unregister(r, req[r].user, req[r].inst)
    BY <2>2, <2>3 DEF Registry!Unregister
  <2>5. QED
    BY <1>1, <2>1, <2>4 DEF Registry!Next
<1>6. CASE CommitRemove(r)
  <2>1. Registered' = Registered \ {reg}
    BY <1>3, <1>4
  <2>2. Registry!Answers(r, "DISCARDED")
    BY <1>6, ReplyAnswers DEF CommitRemove, RegistryInv, Answer, Registry!Answers
  <2>3. Registry!Discard(r, reg)
    BY <2>1, <2>2 DEF Registry!Discard
  <2>4. QED
    BY <1>2, <2>3 DEF Registry!Next
<1>7. QED
  BY <1>5, <1>6

\* A DELETE of an installation that is not the user's is answered as done.
LEMMA ForeignRefines ==
  ASSUME RegistryInv, TypeOK', NEW r \in Request, ReadForeign(r)
  PROVE  Registry!Next
<1>1. req[r] \in DeleteAsk /\ req[r].inst \in Installation /\ req[r].user \in User
  BY Asks DEF ReadForeign, RegistryInv, TypeOK, Ask
<1>2. Registered' = Registered
  BY DEF ReadForeign, tables, Registered
<1>3. ASSUME NEW x \in Registered PROVE ~(x.inst = req[r].inst /\ x.user = req[r].user)
  <2>1. /\ x.inst \in Installation /\ x.user \in User /\ x.token \in Token
        /\ installation[x.inst] = [user |-> x.user, token |-> x.token]
    BY <1>3, Registrations DEF RegistryInv, Registry!Registration
  <2>2. installation[x.inst] # NoItem /\ installation[x.inst].user = x.user
    BY <2>1, InstallationItems
  <2>3. QED
    BY <2>2 DEF ReadForeign, Owns
<1>4. Registry!Answers(r, "204")
  BY ReplyAnswers DEF ReadForeign, RegistryInv, Answer, Registry!Answers
<1>5. Registry!Unregister(r, req[r].user, req[r].inst)
  BY <1>2, <1>3, <1>4 DEF Registry!Unregister
<1>6. QED
  BY <1>1, <1>5 DEF Registry!Next

LEMMA RefusalRefines ==
  ASSUME RegistryInv, NEW r \in Request,
         SendOver(r) \/ GiveUp(r) \/ SkipRemoval(r) \/ Unavailable(r)
  PROVE  Registry!Next
<1>1. Registered' = Registered
  BY DEF SendOver, GiveUp, SkipRemoval, Unavailable, tables, Registered
<1>2. pc[r] # "over" /\ \E a \in {"409", "503", "KEPT"} : Reply(r, a)
  BY DEF SendOver, GiveUp, SkipRemoval, Unavailable, Cancelled
<1>3. answer[r] = "NONE" /\ \E a \in {"409", "503", "KEPT"} : answer' = [answer EXCEPT ![r] = a]
  BY <1>2, ReplyAnswers DEF RegistryInv, Answer
<1>4. QED
  BY <1>1, <1>3 DEF Registry!Refuse, Registry!Next

\* Every request takes effect at one instant, in the step that answers it.
THEOREM RegistryRefined == Spec => ImplementsPushRegistry
<1>1. Init => Registry!Init
  <2> SUFFICES ASSUME Init PROVE Registry!Init
    OBVIOUS
  <2>1. \A i \in Installation : installation[i] # NoItem => installation[i] \in InstallationItem
    BY DEF Init
  <2>2. Registered \in SUBSET Registry!Registration
    BY <2>1 DEF Registered, Registry!Registration, InstallationItem
  <2>3. ASSUME NEW x \in Registered, NEW y \in Registered, x.inst = y.inst \/ x.token = y.token
        PROVE  x = y
    <3>1. x.inst \in Installation /\ installation[x.inst] # NoItem
          /\ x = [inst |-> x.inst, user |-> installation[x.inst].user,
                  token |-> installation[x.inst].token]
      BY DEF Registered
    <3>2. y.inst \in Installation /\ installation[y.inst] # NoItem
          /\ y = [inst |-> y.inst, user |-> installation[y.inst].user,
                  token |-> installation[y.inst].token]
      BY DEF Registered
    <3>0. ASSUME NEW i \in Installation, installation[i] # NoItem
          PROVE  claim[installation[i].token].inst = i
      <4>1. Consistent
        BY DEF Init
      <4>2. claim[installation[i].token] = [inst |-> i, user |-> installation[i].user]
        BY <3>0, <4>1 DEF Consistent
      <4>3. QED
        BY <4>2
    <3>3. claim[x.token].inst = x.inst /\ claim[y.token].inst = y.inst
      BY <3>0, <3>1, <3>2
    <3>4. QED
      BY <2>3, <3>1, <3>2, <3>3
  <2>4. answer = [r \in Request |-> "NONE"]
    BY DEF Init
  <2>5. QED
    BY <2>2, <2>3, <2>4 DEF Registry!Init
<1>2. RegistryInv /\ TypeOK' /\ [Next]_vars => [Registry!Next]_(Registry!registryVars)
  <2> SUFFICES ASSUME RegistryInv, TypeOK', [Next]_vars
               PROVE  [Registry!Next]_(Registry!registryVars)
    OBVIOUS
  <2>1. ASSUME UNCHANGED installation, UNCHANGED answer
        PROVE  UNCHANGED Registry!registryVars
    BY <2>1 DEF Registry!registryVars, Registered
  <2>2. ASSUME NEW r \in Request, Handle(r)
        PROVE  Registry!Next \/ (UNCHANGED installation /\ UNCHANGED answer)
    <3>1. CASE ReadPair(r) \/ ReadOwn(r) \/ SendRefused(r) \/ Retry(r)
      BY <3>1 DEF ReadPair, ReadOwn, SendRefused, Retry, Goto, tables
    <3>2. QED
      BY <2>2, <3>1, PutRefines, DeleteRefines, ForeignRefines, RefusalRefines DEF Handle
  <2>3. ASSUME NEW r \in Request, Receive(r) \/ Fetch(r)
        PROVE  UNCHANGED installation /\ UNCHANGED answer
    BY <2>3 DEF Receive, Fetch, tables
  <2>4. ASSUME NEW t \in Token, Expire(t) PROVE UNCHANGED installation /\ UNCHANGED answer
    BY <2>4 DEF Expire, tables
  <2>5. UNCHANGED vars => UNCHANGED installation /\ UNCHANGED answer
    BY DEF vars, tables
  <2>6. QED
    BY <2>1, <2>2, <2>3, <2>4, <2>5, RefusalRefines DEF Next
<1>3. QED
  BY <1>1, <1>2, RegistryInvariant, TypeCorrect, PTL DEF Spec, Registry!Spec, ImplementsPushRegistry

-----------------------------------------------------------------------------
(* A transaction is refused only because of another request.               *)

\* What a request has just read satisfies the conditions of its transaction,
\* and only a commit of another request on one of the same items ends that.
ConflictNeedsRival ==
  \A r \in Request :
    /\ pc[r] = "read" /\ pc'[r] = "write" => ConditionsHold(r)'
    /\ pc[r] = "write" /\ pc'[r] = "write" /\ ConditionsHold(r)
         => \/ ConditionsHold(r)'
            \/ \E s \in Request \ {r} : /\ pc[s] = "write" /\ pc'[s] = "over"
                                      /\ Keys(r) \cap Keys(s) # {}

LEMMA OthersWait ==
  ASSUME TypeOK, NEW r \in Request, Receive(r) \/ Fetch(r) \/ Handle(r) \/ Unavailable(r),
         NEW s \in Request, s # r
  PROVE  pc'[s] = pc[s] /\ attempt'[s] = attempt[s] /\ req'[s] = req[s]
BY DEF TypeOK, Handle, Receive, Fetch, ReadPair, ReadOwn, ReadForeign, SendRefused, SendOver,
   CommitPut, CommitDelete, CommitRemove, Retry, GiveUp, SkipRemoval, Unavailable, Goto, Reply

LEMMA PairFits == ASSUME RegistryInv, NEW r \in Request, ReadPair(r) PROVE ConditionsHold(r)'
<1>1. /\ req' = req /\ installation' = installation /\ claim' = claim
      /\ sawInst'[r] = installation[req[r].inst] /\ sawClaim'[r] = claim[req[r].token]
      /\ req[r].op = "PUT" /\ req[r].inst \in Installation /\ req[r].token \in Token
  BY Asks DEF ReadPair, Goto, tables, RegistryInv, TypeOK, RequestInv
<1>2. \A t \in OldTokens(r)' : claim[t] = [inst |-> req[r].inst, user |-> sawInst'[r].user]
  BY <1>1 DEF OldTokens, RegistryInv, Consistent
<1>3. \A i \in PriorInstallations(r)' :
        installation[i] = [user |-> sawClaim'[r].user, token |-> req[r].token]
  BY <1>1 DEF PriorInstallations, RegistryInv, Consistent
<1>4. QED
  BY <1>1, <1>2, <1>3 DEF ConditionsHold, PutConditions

LEMMA OwnFits == ASSUME RegistryInv, NEW r \in Request, ReadOwn(r) PROVE ConditionsHold(r)'
<1>1. /\ req' = req /\ installation' = installation /\ claim' = claim
      /\ sawInst'[r] = installation[req[r].inst] /\ req[r].op = "DELETE"
      /\ req[r].inst \in Installation /\ installation[req[r].inst] # NoItem
  BY Asks DEF ReadOwn, Owns, Goto, tables, RegistryInv, TypeOK, RequestInv
<1>2. claim[sawInst'[r].token] = [inst |-> req[r].inst, user |-> sawInst'[r].user]
  BY <1>1 DEF RegistryInv, Consistent
<1>3. QED
  BY <1>1, <1>2 DEF ConditionsHold, DeleteConditions

\* A commit changes nothing but its keys.
LEMMA CommitChangesKeys ==
  ASSUME RegistryInv, NEW s \in Request, CommitPut(s) \/ CommitDelete(s) \/ CommitRemove(s)
  PROVE  /\ \A i \in Installation \ Keys(s) : installation'[i] = installation[i]
         /\ \A t \in Token \ Keys(s) : claim'[t] = claim[t]
<1>1. CASE CommitPut(s)
  BY <1>1 DEF CommitPut, WritePut, Keys, RegistryInv, TypeOK
<1>2. CASE CommitDelete(s) \/ CommitRemove(s)
  <2>1. pc[s] = "write" /\ WriteDelete(s) /\ req[s].op # "PUT"
    BY <1>2 DEF CommitDelete, CommitRemove
  <2>2. QED
    BY <2>1 DEF WriteDelete, Keys, RegistryInv, TypeOK
<1>3. QED
  BY <1>1, <1>2

\* The conditions of a transaction are about its keys only.
LEMMA ConditionsAreAboutKeys ==
  ASSUME RegistryInv, NEW r \in Request, pc[r] = "write", ConditionsHold(r),
         req'[r] = req[r], sawInst'[r] = sawInst[r], sawClaim'[r] = sawClaim[r],
         \A i \in Installation \cap Keys(r) : installation'[i] = installation[i],
         \A t \in Token \cap Keys(r) : claim'[t] = claim[t]
  PROVE  ConditionsHold(r)'
<1>1. req[r] \in Ask /\ req[r].inst \in Installation /\ req[r].inst \in Keys(r)
  BY Asks DEF RegistryInv, TypeOK, Keys
<1>2. CASE req[r].op = "PUT"
  <2>1. req[r].token \in Token \cap Keys(r)
    BY <1>1, <1>2, Asks DEF Keys
  <2>2. OldTokens(r) \subseteq Token \cap Keys(r) /\ OldTokens(r)' = OldTokens(r)
    BY <1>2, InstallationItems DEF OldTokens, Keys, RegistryInv, TypeOK
  <2>3. PriorInstallations(r) \subseteq Installation \cap Keys(r)
        /\ PriorInstallations(r)' = PriorInstallations(r)
    BY <1>2, ClaimItems DEF PriorInstallations, Keys, RegistryInv, TypeOK
  <2>4. PutConditions(r)
    BY <1>2 DEF ConditionsHold
  <2>5. PutConditions(r)'
    BY <1>1, <2>1, <2>2, <2>3, <2>4 DEF PutConditions
  <2>6. QED
    BY <1>2, <2>5 DEF ConditionsHold
<1>3. CASE req[r].op # "PUT"
  <2>1. sawInst[r] # NoItem
    BY <1>1, <1>3, Asks DEF RegistryInv, RequestInv, Ask
  <2>2. sawInst[r].token \in Token \cap Keys(r)
    BY <1>3, <2>1, InstallationItems DEF Keys, RegistryInv, TypeOK
  <2>3. DeleteConditions(r)'
    BY <1>1, <1>3, <2>2 DEF ConditionsHold, DeleteConditions
  <2>4. QED
    BY <1>3, <2>3 DEF ConditionsHold
<1>4. QED
  BY <1>2, <1>3

LEMMA OnlyRivalsDisturb ==
  ASSUME RegistryInv, NEW r \in Request, [Next]_vars,
         pc[r] = "write", pc'[r] = "write", ConditionsHold(r), ~ConditionsHold(r)'
  PROVE  \E s \in Request \ {r} : /\ pc[s] = "write" /\ pc'[s] = "over"
                                /\ Keys(r) \cap Keys(s) # {}
<1>1. ASSUME req'[r] = req[r], sawInst'[r] = sawInst[r], sawClaim'[r] = sawClaim[r],
             UNCHANGED <<installation, claim>>
      PROVE  FALSE
  BY <1>1, ConditionsAreAboutKeys
<1>2. PICK s \in Request : Receive(s) \/ Fetch(s) \/ Handle(s) \/ Unavailable(s)
  BY <1>1 DEF Next, Expire, vars, tables, reads
<1>3. s # r
  BY <1>2 DEF RegistryInv, TypeOK, Handle, Receive, Fetch, ReadPair, ReadOwn, ReadForeign, SendRefused,
     SendOver, CommitPut, CommitDelete, CommitRemove, Retry, GiveUp, SkipRemoval, Unavailable, Reply
<1>4. req'[r] = req[r] /\ sawInst'[r] = sawInst[r] /\ sawClaim'[r] = sawClaim[r]
  BY <1>2, <1>3 DEF RegistryInv, TypeOK, Handle, Receive, Fetch, ReadPair, ReadOwn, ReadForeign, SendRefused,
     SendOver, CommitPut, CommitDelete, CommitRemove, Retry, GiveUp, SkipRemoval, Unavailable, Reply,
     Goto, reads
<1>5. CommitPut(s) \/ CommitDelete(s) \/ CommitRemove(s)
  BY <1>1, <1>2, <1>4 DEF Handle, Receive, Fetch, ReadPair, ReadOwn, ReadForeign, SendRefused,
     SendOver, Retry, GiveUp, SkipRemoval, Unavailable, Goto, tables
<1>6. pc[s] = "write" /\ pc'[s] = "over"
  BY <1>5 DEF CommitPut, CommitDelete, CommitRemove, Reply, RegistryInv, TypeOK
<1>7. Keys(r) \cap Keys(s) # {}
  <2>1. SUFFICES ASSUME Keys(r) \cap Keys(s) = {} PROVE FALSE
    OBVIOUS
  <2>2. /\ \A i \in Installation \cap Keys(r) : installation'[i] = installation[i]
        /\ \A t \in Token \cap Keys(r) : claim'[t] = claim[t]
    BY <1>5, <2>1, CommitChangesKeys
  <2>3. QED
    BY <1>4, <2>2, ConditionsAreAboutKeys
<1>8. QED
  BY <1>3, <1>6, <1>7

\* A 409 of the push API is contention: a request alone with its items would
\* have committed with what it read, whatever earlier requests, removals and
\* lost answers have left in the table (MAX_TRANSACTION_ATTEMPTS).
THEOREM ConflictsHaveRivals == Spec => [][ConflictNeedsRival]_vars
<1>1. ASSUME RegistryInv, [Next]_vars PROVE ConflictNeedsRival
  <2>1. ASSUME NEW r \in Request, pc[r] = "read", pc'[r] = "write" PROVE ConditionsHold(r)'
    <3>1. PICK s \in Request : Receive(s) \/ Fetch(s) \/ Handle(s) \/ Unavailable(s)
      BY <1>1, <2>1 DEF Next, Expire, vars
    <3>2. s = r
      BY <1>1, <2>1, <3>1, OthersWait DEF RegistryInv
    <3>3. pc \in [Request -> PcState]
      BY <1>1 DEF RegistryInv, TypeOK
    <3>4. ReadPair(r) \/ ReadOwn(r)
      BY <2>1, <3>1, <3>2, <3>3 DEF Handle, Receive, Fetch, ReadForeign, SendRefused,
         SendOver, CommitPut, CommitDelete, CommitRemove, Retry, GiveUp, SkipRemoval, Unavailable,
         Cancelled, Reply
    <3>5. QED
      BY <1>1, <3>4, PairFits, OwnFits
  <2>2. QED
    BY <1>1, <2>1, OnlyRivalsDisturb DEF ConflictNeedsRival
<1>2. QED
  BY <1>1, RegistryInvariant, PTL DEF Spec

-----------------------------------------------------------------------------
(* Every request is over after a bounded number of its own steps.           *)

\* The steps a request has left, counted by the transactions it may still lose.
StepsLeft(r) ==
  CASE pc[r] = "new"   -> 2 * MaxAttempts + 1
    [] pc[r] = "read"  -> 2 * (MaxAttempts - attempt[r])
    [] pc[r] = "sent"  -> 2
    [] pc[r] = "write" -> IF req[r].op = "REMOVE" THEN 1 ELSE 2 * (MaxAttempts - attempt[r]) - 1
    [] pc[r] = "over"  -> 0

\* Every step of a request leaves it fewer steps, and no step of another
\* request, which may well take the items it is about to write, gives it more.
ConflictsRunOut ==
  \A r \in Request :
    /\ StepsLeft(r) \in Nat
    /\ \/ StepsLeft(r)' < StepsLeft(r)
       \/ StepsLeft(r)' = StepsLeft(r) /\ pc'[r] = pc[r]

LEMMA StepsLeftIsNat ==
  ASSUME TypeOK, NEW r \in Request
  PROVE  StepsLeft(r) \in Nat /\ (pc[r] # "over" => StepsLeft(r) > 0)
<1>1. pc[r] \in {"new", "read", "sent", "write", "over"} /\ attempt[r] \in 0..(MaxAttempts - 1)
  BY DEF TypeOK, PcState
<1>2. QED
  BY <1>1 DEF StepsLeft

LEMMA OwnStep ==
  ASSUME TypeOK, RequestInv, NEW r \in Request, Receive(r) \/ Fetch(r) \/ Handle(r) \/ Unavailable(r)
  PROVE  StepsLeft(r)' < StepsLeft(r)
<1> attempt[r] \in 0..(MaxAttempts - 1) /\ pc[r] \in PcState
  BY DEF TypeOK
<1>1. ASSUME pc[r] # "over", pc'[r] = "over" PROVE StepsLeft(r)' < StepsLeft(r)
  <2>1. StepsLeft(r)' = 0
    BY <1>1 DEF StepsLeft
  <2>2. QED
    BY <1>1, <2>1, StepsLeftIsNat
<1>2. CASE Receive(r) \/ Fetch(r)
  <2>1. pc[r] = "new" /\ pc'[r] \in {"read", "sent"} /\ attempt'[r] = attempt[r]
    BY <1>2 DEF Receive, Fetch, TypeOK
  <2>2. QED
    BY <2>1 DEF StepsLeft
<1>3. CASE ReadPair(r) \/ ReadOwn(r)
  <2>1. pc[r] = "read" /\ pc'[r] = "write" /\ attempt'[r] = attempt[r] /\ req'[r] = req[r]
        /\ req[r].op # "REMOVE"
    BY <1>3 DEF ReadPair, ReadOwn, Goto, TypeOK
  <2>2. QED
    BY <2>1 DEF StepsLeft
<1>4. CASE SendRefused(r)
  <2>1. pc[r] = "sent" /\ pc'[r] = "write" /\ req'[r].op = "REMOVE"
    BY <1>4, Asks DEF SendRefused, Goto, RequestInv, TypeOK
  <2>2. QED
    BY <2>1 DEF StepsLeft
<1>5. CASE Retry(r)
  <2>1. pc[r] = "write" /\ pc'[r] = "read" /\ attempt'[r] = attempt[r] + 1 /\ req[r].op # "REMOVE"
    BY <1>5 DEF Retry, Cancelled, NextAttempt, TypeOK
  <2>2. QED
    BY <2>1 DEF StepsLeft
<1>6. CASE ReadForeign(r) \/ SendOver(r) \/ CommitPut(r) \/ CommitDelete(r) \/ CommitRemove(r)
           \/ GiveUp(r) \/ SkipRemoval(r) \/ Unavailable(r)
  <2>1. pc[r] # "over" /\ \E a : Reply(r, a)
    BY <1>6 DEF ReadForeign, SendOver, CommitPut, CommitDelete, CommitRemove, GiveUp, SkipRemoval,
       Unavailable, Cancelled
  <2>2. pc'[r] = "over"
    BY <2>1 DEF Reply, TypeOK
  <2>3. QED
    BY <1>1, <2>1, <2>2
<1>7. QED
  BY <1>2, <1>3, <1>4, <1>5, <1>6 DEF Handle

\* A request ends after at most 2 * MaxAttempts + 1 steps of its own, whatever
\* other requests write in between (MAX_TRANSACTION_ATTEMPTS): for an answer
\* nothing is needed but that the execution goes on.
THEOREM RequestsTerminate == Spec => [][ConflictsRunOut]_vars
<1>1. ASSUME RegistryInv, [Next]_vars PROVE ConflictsRunOut
  <2>1. \A r \in Request : StepsLeft(r) \in Nat
    BY <1>1, StepsLeftIsNat DEF RegistryInv
  <2>2. ASSUME NEW s \in Request, pc'[s] = pc[s], attempt'[s] = attempt[s], req'[s] = req[s]
        PROVE  StepsLeft(s)' = StepsLeft(s)
    BY <2>2 DEF StepsLeft
  <2>3. CASE UNCHANGED <<pc, attempt, req>>
    BY <2>1, <2>2, <2>3 DEF ConflictsRunOut
  <2>4. ASSUME NEW r \in Request, Receive(r) \/ Fetch(r) \/ Handle(r) \/ Unavailable(r)
        PROVE  ConflictsRunOut
    <3>1. StepsLeft(r)' < StepsLeft(r)
      BY <1>1, <2>4, OwnStep DEF RegistryInv
    <3>2. \A s \in Request \ {r} : StepsLeft(s)' = StepsLeft(s) /\ pc'[s] = pc[s]
      BY <1>1, <2>2, <2>4, OthersWait DEF RegistryInv
    <3>3. QED
      BY <2>1, <3>1, <3>2 DEF ConflictsRunOut
  <2>5. QED
    BY <1>1, <2>3, <2>4 DEF Next, Expire, vars
<1>2. QED
  BY <1>1, RegistryInvariant, PTL DEF Spec
=============================================================================
