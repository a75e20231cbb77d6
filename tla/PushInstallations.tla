------------------------- MODULE PushInstallations -------------------------
(***************************************************************************)
(* The PushInstallations table: the INSTALLATION#<id> item of each app     *)
(* installation and the TOKEN#<hash> CLAIM item of each FCM token, written *)
(* together by PUT and DELETE of the push API (lambdas/push_api/handler.py)*)
(* and by the push sender's removal of tokens FCM has unregistered         *)
(* (lambdas/push_sender/cleanup.py).  All of them read, then write under   *)
(* conditions on what they read; other requests run in between.            *)
(***************************************************************************)
EXTENDS Naturals

CONSTANTS
  Request,        \* requests made of the table: each is one PUT, DELETE or removal
  User, Installation, Token,
  MaxAttempts,    \* handler.MAX_TRANSACTION_ATTEMPTS
  NoItem          \* the value of a key that holds no item

\* The attributes of the two items that a condition or a reader looks at.
InstallationItem == [user : User, token : Token]
ClaimItem        == [inst : Installation, user : User]

ASSUME TableAssumption ==
  /\ MaxAttempts \in Nat \ {0}
  /\ NoItem \notin InstallationItem \cup ClaimItem

VARIABLES
  installation,   \* the INSTALLATION items
  claim,          \* the CLAIM items
  unregistered,   \* the tokens FCM no longer accepts
  pc,             \* where each request is
  req,            \* what it asks for
  attempt,        \* transactions it has lost to a conflict
  sawInst,        \* the INSTALLATION item it read
  sawClaim,       \* the CLAIM item it read
  answer,         \* its answer
  versions        \* history: every value each INSTALLATION item has had

tables == <<installation, claim, versions>>
reads  == <<sawInst, sawClaim>>
vars   == <<tables, unregistered, pc, req, attempt, reads, answer>>

-----------------------------------------------------------------------------
PutAsk    == [op : {"PUT"}, user : User, inst : Installation, token : Token]
DeleteAsk == [op : {"DELETE"}, user : User, inst : Installation]
RemoveAsk == [op : {"REMOVE"}, inst : Installation]
Ask       == PutAsk \cup DeleteAsk \cup RemoveAsk

PcState == {"new", "read", "sent", "write", "over"}
Answer  == {"NONE", "204", "409", "503", "DISCARDED", "KEPT"}

TypeOK ==
  /\ installation \in [Installation -> InstallationItem \cup {NoItem}]
  /\ claim \in [Token -> ClaimItem \cup {NoItem}]
  /\ unregistered \subseteq Token
  /\ pc \in [Request -> PcState]
  /\ req \in [Request -> Ask \cup {NoItem}]
  /\ \A r \in Request : pc[r] # "new" => req[r] \in Ask
  /\ attempt \in [Request -> 0..(MaxAttempts - 1)]
  /\ sawInst \in [Request -> InstallationItem \cup {NoItem}]
  /\ sawClaim \in [Request -> ClaimItem \cup {NoItem}]
  /\ answer \in [Request -> Answer]
  /\ versions \in [Installation -> SUBSET InstallationItem]

\* The two kinds of items always agree: the token of every installation is
\* claimed by it for its user, and every claim names an installation that has
\* the token.  So a token has one installation and one user (push_api handler:
\* one commit for both items; data-model.md, PushInstallations).
Consistent ==
  /\ \A i \in Installation : installation[i] # NoItem =>
       claim[installation[i].token] = [inst |-> i, user |-> installation[i].user]
  /\ \A t \in Token : claim[t] # NoItem =>
       installation[claim[t].inst] = [user |-> claim[t].user, token |-> t]

\* The table holds what earlier requests have left in it.
Init ==
  /\ installation \in [Installation -> InstallationItem \cup {NoItem}]
  /\ claim \in [Token -> ClaimItem \cup {NoItem}]
  /\ Consistent
  /\ unregistered = {}
  /\ pc = [r \in Request |-> "new"]
  /\ req = [r \in Request |-> NoItem]
  /\ attempt = [r \in Request |-> 0]
  /\ sawInst = [r \in Request |-> NoItem]
  /\ sawClaim = [r \in Request |-> NoItem]
  /\ answer = [r \in Request |-> "NONE"]
  /\ versions = [i \in Installation |-> {installation[i]} \ {NoItem}]

\* r is over, with answer a; what it has read is gone.
Reply(r, a) ==
  /\ answer' = [answer EXCEPT ![r] = a]
  /\ pc' = [pc EXCEPT ![r] = "over"]
  /\ sawInst' = [sawInst EXCEPT ![r] = NoItem]
  /\ sawClaim' = [sawClaim EXCEPT ![r] = NoItem]
  /\ UNCHANGED <<unregistered, req, attempt>>

\* r has taken its snapshot and goes on to write.
Goto(r, where) ==
  /\ pc' = [pc EXCEPT ![r] = where]
  /\ UNCHANGED <<tables, unregistered, req, attempt, answer>>

-----------------------------------------------------------------------------
(* Requests: put_installation, delete_installation, and the send during    *)
(* which delete_invalid_installation may follow.                           *)

\* The API receives a valid request; a request refused as invalid reads and
\* writes nothing.
Receive(r) ==
  /\ pc[r] = "new"
  /\ \E ask \in PutAsk \cup DeleteAsk : req' = [req EXCEPT ![r] = ask]
  /\ pc' = [pc EXCEPT ![r] = "read"]
  /\ UNCHANGED <<tables, unregistered, attempt, reads, answer>>

\* _get_pair, one transaction, for a PUT.
ReadPair(r) ==
  /\ pc[r] = "read" /\ req[r].op = "PUT"
  /\ sawInst' = [sawInst EXCEPT ![r] = installation[req[r].inst]]
  /\ sawClaim' = [sawClaim EXCEPT ![r] = claim[req[r].token]]
  /\ Goto(r, "write")

\* _get_pair for a DELETE, which ends it unless the installation is the user's.
Owns(r) ==
  /\ installation[req[r].inst] # NoItem
  /\ installation[req[r].inst].user = req[r].user

ReadOwn(r) ==
  /\ pc[r] = "read" /\ req[r].op = "DELETE"
  /\ Owns(r)
  /\ sawInst' = [sawInst EXCEPT ![r] = installation[req[r].inst]]
  /\ UNCHANGED sawClaim
  /\ Goto(r, "write")

ReadForeign(r) ==
  /\ pc[r] = "read" /\ req[r].op = "DELETE"
  /\ ~Owns(r)
  /\ Reply(r, "204")
  /\ UNCHANGED tables

\* The sender reads an INSTALLATION item, through an index and without a
\* consistent read, so possibly an earlier one, and sends to its token.
Fetch(r) ==
  /\ pc[r] = "new"
  /\ \E ask \in RemoveAsk : \E item \in versions[ask.inst] :
       /\ req' = [req EXCEPT ![r] = ask]
       /\ sawInst' = [sawInst EXCEPT ![r] = item]
  /\ pc' = [pc EXCEPT ![r] = "sent"]
  /\ UNCHANGED <<tables, unregistered, attempt, sawClaim, answer>>

\* FCM answers.  Only INVALID_TOKEN makes the sender remove the registration;
\* after a success or any other failure it leaves the table alone.
TokenInvalid(r) == sawInst[r].token \in unregistered

SendRefused(r) ==
  /\ pc[r] = "sent"
  /\ TokenInvalid(r)
  /\ Goto(r, "write")
  /\ UNCHANGED reads

SendOver(r) ==
  /\ pc[r] = "sent"
  /\ Reply(r, "KEPT")
  /\ UNCHANGED tables

-----------------------------------------------------------------------------
(* The transactions.                                                       *)

\* The token the installation gives up and the installation the token leaves.
OldTokens(r) == IF sawInst[r] = NoItem THEN {} ELSE {sawInst[r].token} \ {req[r].token}
PriorInstallations(r) ==
  IF sawClaim[r] = NoItem THEN {} ELSE {sawClaim[r].inst} \ {req[r].inst}

\* The conditions of the transaction of put_installation.
UnpinnedClaim(r) ==                  \* mutant: no condition on the claim that is overwritten
  installation[req[r].inst] = sawInst[r]
PutConditions(r) ==
  /\ installation[req[r].inst] = sawInst[r]
  /\ claim[req[r].token] = sawClaim[r]
  /\ \A t \in OldTokens(r) : claim[t] = [inst |-> req[r].inst, user |-> sawInst[r].user]
  /\ \A i \in PriorInstallations(r) :
       installation[i] = [user |-> sawClaim[r].user, token |-> req[r].token]

\* The condition of the two Deletes of delete_installation and of
\* delete_invalid_installation.
UserOnly(r) ==                       \* mutant: token_hash not in the condition
  /\ installation[req[r].inst] # NoItem
  /\ installation[req[r].inst].user = sawInst[r].user
DeleteConditions(r) ==
  /\ installation[req[r].inst] = sawInst[r]
  /\ claim[sawInst[r].token] = [inst |-> req[r].inst, user |-> sawInst[r].user]

ConditionsHold(r) == IF req[r].op = "PUT" THEN PutConditions(r) ELSE DeleteConditions(r)

WritePut(r) ==
  LET new == [user |-> req[r].user, token |-> req[r].token]
  IN /\ installation' = [i \in Installation |->
                           IF i = req[r].inst THEN new
                           ELSE IF i \in PriorInstallations(r) THEN NoItem
                           ELSE installation[i]]
     /\ claim' = [t \in Token |->
                    IF t = req[r].token THEN [inst |-> req[r].inst, user |-> req[r].user]
                    ELSE IF t \in OldTokens(r) THEN NoItem
                    ELSE claim[t]]
     /\ versions' = [versions EXCEPT ![req[r].inst] = @ \cup {new}]

OneDelete(r) ==                      \* mutant: the claim is left behind
  /\ installation' = [installation EXCEPT ![req[r].inst] = NoItem]
  /\ UNCHANGED <<claim, versions>>
WriteDelete(r) ==
  /\ installation' = [installation EXCEPT ![req[r].inst] = NoItem]
  /\ claim' = [claim EXCEPT ![sawInst[r].token] = NoItem]
  /\ UNCHANGED versions

\* The transaction commits.  If its answer is lost, or the call times out, the
\* request fails although it took effect; the SDK's own resend carries the
\* same ClientRequestToken and has no second effect.
CommitPut(r) ==
  /\ pc[r] = "write" /\ req[r].op = "PUT"
  /\ PutConditions(r)
  /\ WritePut(r)
  /\ \E a \in {"204", "503"} : Reply(r, a)

CommitDelete(r) ==
  /\ pc[r] = "write" /\ req[r].op = "DELETE"
  /\ DeleteConditions(r)
  /\ WriteDelete(r)
  /\ \E a \in {"204", "503"} : Reply(r, a)

CommitRemove(r) ==
  /\ pc[r] = "write" /\ req[r].op = "REMOVE"
  /\ DeleteConditions(r)
  /\ WriteDelete(r)
  /\ \E a \in {"DISCARDED", "503"} : Reply(r, a)

\* The keys the transaction of r writes or deletes.
Keys(r) ==
  {req[r].inst} \cup
  (IF req[r].op = "PUT"
   THEN {req[r].token} \cup OldTokens(r) \cup PriorInstallations(r)
   ELSE {sawInst[r].token})

\* The transaction is cancelled: a condition fails, or another transaction on
\* one of its items is in progress.
Cancelled(r) ==
  /\ pc[r] = "write"
  /\ \/ ~ConditionsHold(r)
     \/ \E s \in Request \ {r} : pc[s] = "write" /\ Keys(r) \cap Keys(s) # {}

\* PUT and DELETE start again from a new snapshot, a bounded number of times.
OneTooMany(r) == attempt[r] < MaxAttempts      \* mutant: off by one
MayRetry(r) == attempt[r] + 1 < MaxAttempts

Uncounted(r) == attempt[r]                     \* mutant: retries without end
NextAttempt(r) == attempt[r] + 1

Retry(r) ==
  /\ Cancelled(r)
  /\ req[r].op # "REMOVE"
  /\ MayRetry(r)
  /\ attempt' = [attempt EXCEPT ![r] = NextAttempt(r)]
  /\ pc' = [pc EXCEPT ![r] = "read"]
  /\ UNCHANGED <<tables, unregistered, req, reads, answer>>

GiveUp(r) ==
  /\ Cancelled(r)
  /\ req[r].op # "REMOVE"
  /\ ~MayRetry(r)
  /\ Reply(r, "409")
  /\ UNCHANGED tables

SkipRemoval(r) ==
  /\ Cancelled(r)
  /\ req[r].op = "REMOVE"
  /\ Reply(r, "KEPT")
  /\ UNCHANGED tables

\* DynamoDB is unavailable, a read meets a transaction in progress, or the
\* execution is cut off.
Unavailable(r) ==
  /\ pc[r] \in {"read", "sent", "write"}
  /\ Reply(r, "503")
  /\ UNCHANGED tables

-----------------------------------------------------------------------------
\* FCM unregisters a token: the app was removed or its token was replaced.
Expire(t) ==
  /\ t \notin unregistered
  /\ unregistered' = unregistered \cup {t}
  /\ UNCHANGED <<tables, pc, req, attempt, reads, answer>>

Handle(r) ==
  \/ ReadPair(r) \/ ReadOwn(r) \/ ReadForeign(r)
  \/ SendRefused(r) \/ SendOver(r)
  \/ CommitPut(r) \/ CommitDelete(r) \/ CommitRemove(r)
  \/ Retry(r) \/ GiveUp(r) \/ SkipRemoval(r)

Next ==
  \/ \E r \in Request : Receive(r) \/ Fetch(r) \/ Handle(r) \/ Unavailable(r)
  \/ \E t \in Token : Expire(t)

Spec == Init /\ [][Next]_vars

\* An execution that has started goes on.
Fairness == \A r \in Request : WF_vars(Handle(r))
FairSpec == Spec /\ Fairness

-----------------------------------------------------------------------------
(* Properties.                                                             *)

\* The sender removes an installation only if FCM has unregistered the very
\* token the installation has when it is removed, however long ago the sender
\* read it (cleanup.py: a token rotated or registered again in between stays).
RemovalSparesLiveTokens ==
  [][\A r \in Request, i \in Installation :
       req[r] \in RemoveAsk /\ pc[r] = "write" /\ pc'[r] # "write"
         /\ installation[i] # NoItem /\ installation'[i] # installation[i]
         => installation[i].token \in unregistered]_vars

\* Every request the API receives is answered, whatever it conflicts with: again
\* and again (requests are made once) there is none without an answer.
EveryRequestAnswered == []<>(\A r \in Request : pc[r] \in {"new", "over"})

\* The optimistic transactions implement requests that take effect at one instant.
Registered == {[inst |-> i, user |-> installation[i].user, token |-> installation[i].token] :
                 i \in {j \in Installation : installation[j] # NoItem}}
Registry == INSTANCE PushRegistry WITH registered <- Registered
ImplementsPushRegistry == Registry!Spec

\* What a request that is about to write, or waits for FCM, has read.
RequestInv ==
  \A r \in Request :
    /\ pc[r] = "over" <=> answer[r] # "NONE"
    /\ pc[r] = "sent" => req[r] \in RemoveAsk
    /\ pc[r] = "read" => req[r] \in PutAsk \cup DeleteAsk
    /\ pc[r] = "write" /\ req[r] \in DeleteAsk => sawInst[r] # NoItem /\ sawInst[r].user = req[r].user
    /\ pc[r] \in {"sent", "write"} /\ req[r] \in RemoveAsk => sawInst[r] # NoItem
    /\ pc[r] = "write" /\ req[r] \in RemoveAsk => sawInst[r].token \in unregistered

RegistryInv == TypeOK /\ RequestInv /\ Consistent
=============================================================================
