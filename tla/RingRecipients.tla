--------------------------- MODULE RingRecipients ---------------------------
(***************************************************************************)
(* To whom one execution of push_sender sends a ring event                 *)
(* (lambdas/push_sender: memberships.py, installations.py, _send_all)      *)
(* while members come and go and phones change hands.  A query returns its *)
(* rows in pages of any size, so every row is one action.  The claim, the  *)
(* retries and FCM's answers are in PushDelivery.                          *)
(***************************************************************************)
EXTENDS Integers, FiniteSets, FiniteSetsExt

CONSTANTS
  Users,             \* the users are 1..Users, in the order of the key
  Installations,     \* and their installations 1..Installations
  MaxMembers,        \* MAX_MEMBERSHIPS_PER_DEVICE
  MaxInstallations,  \* MAX_INSTALLATIONS_PER_DEVICE
  BatchGetChunk,
  MaxBatchAttempts,  \* MAX_BATCH_RETRY_ATTEMPTS
  Event,             \* ring_event.event
  Window,            \* max_age_seconds(event); the ring occurred at second 0
  Horizon,           \* bound: the latest second at which the execution begins
  MaxChanges,        \* bound: changes of members and installations
  None

User         == 1..Users
Installation == 1..Installations
Modes        == {"RING_ONLY", "NOTIFICATION_ONLY"}

ASSUME RecipientsAssumption ==
  /\ Users \in Nat \ {0} /\ Installations \in Nat \ {0}
  /\ MaxMembers \in Nat \ {0} /\ MaxInstallations \in Nat \ {0}
  /\ BatchGetChunk \in Nat \ {0} /\ MaxBatchAttempts \in Nat \ {0}
  /\ Event \in {"RING_DETECTED", "RING_ENDED"}
  /\ Window \in Nat /\ Horizon \in Nat /\ MaxChanges \in Nat
  /\ None \notin User

VARIABLES
  wants,      \* what a member's preferences decide now; OUT: no active member
  owner,      \* the user of each INSTALLATION item, None if there is no item
  old,        \* an older version of it, which an eventually consistent read may see
  pc,         \* where the execution is
  began,      \* now_utc, in seconds since the ring
  user,       \* the user whose row or whose index entries are read next
  entry,      \* the index entry that is read next
  decisions,  \* per membership read
  ids,        \* the installation ids discovered and not yet read
  pending,    \* the keys of the current batch without an answer
  attempts,   \* reads of the current batch so far
  items,      \* the INSTALLATION items read
  truncated,  \* a cap was reached, and logged
  \* History, for the properties only:
  sent,       \* the messages handed to FCM
  wanted,     \* what each user wanted at some time during the execution
  steady,     \* users and installations that have not changed during it
  changes

table  == <<wants, owner, old>>
locals == <<began, user, entry, decisions, ids, pending, attempts, items, truncated>>
vars   == <<table, pc, locals, sent, wanted, steady, changes>>

-----------------------------------------------------------------------------
Wish    == Modes \cup {"NONE", "OUT"}
Running == {"members", "index", "batch", "send"}
Item    == [installation: Installation, user: User, attempt: Nat]
Message == [installation: Installation, user: User, attempt: Nat, mode: Modes]

TypeOK ==
  /\ began \in 0..Horizon
  /\ wants \in [User -> Wish]
  /\ owner \in [Installation -> User \cup {None}] /\ old \in [Installation -> User \cup {None}]
  /\ pc \in Running \cup {"start", "done", "failed"}
  /\ user \in 1..(Users + 1) /\ entry \in Installation
  /\ DOMAIN decisions \subseteq User
  /\ \A u \in DOMAIN decisions : decisions[u] \in Modes \cup {"NONE"}
  /\ ids \subseteq Installation /\ pending \subseteq Installation
  /\ attempts \in 0..MaxBatchAttempts
  /\ items \subseteq Item /\ sent \subseteq Message
  /\ truncated \in BOOLEAN
  /\ wanted \in [User -> SUBSET Wish]
  /\ steady \in [users: SUBSET User, installations: SUBSET Installation]
  /\ changes \in 0..MaxChanges

Init ==
  /\ began = 0 /\ changes = 0
  /\ wants \in [User -> Wish]
  /\ owner \in [Installation -> User \cup {None}] /\ old = owner
  /\ pc = "start" /\ user = 1 /\ entry = 1
  /\ decisions = <<>> /\ ids = {} /\ pending = {} /\ attempts = 0 /\ items = {}
  /\ truncated = FALSE
  /\ sent = {} /\ wanted = [u \in User |-> {}]
  /\ steady = [users |-> User, installations |-> Installation]

-----------------------------------------------------------------------------
Start ==
  /\ pc = "start"
  /\ began' \in 0..Horizon
  /\ pc' = "members"
  /\ wanted' = [u \in User |-> {wants[u]}]
  /\ steady' = [users |-> User, installations |-> {i \in Installation : owner[i] = old[i]}]
  /\ UNCHANGED <<table, user, entry, decisions, ids, pending, attempts, items,
                 truncated, sent, changes>>

\* A ring is presented as the member prefers; its end goes to every member.
Decision(wish) == IF Event = "RING_ENDED" THEN "RING_ONLY" ELSE wish

Deliverable(d) == {u \in DOMAIN d : d[u] # "NONE"}

\* When the memberships are read: nobody to ring, too late, or on to the index.
Resolve(d) ==
  IF Deliverable(d) = {} \/ began >= Window
  THEN pc' = "done" /\ UNCHANGED user
  ELSE pc' = "index" /\ user' = Min(Deliverable(d))

Anyone(wish) == TRUE                           \* mutant: the status is not looked at
Active(wish) == wish # "OUT"

Quiet(full) == FALSE                           \* mutant: the cap is not reported
Reported(full) == full

ReadMember ==
  /\ pc = "members" /\ user \in User
  /\ LET found == IF ~Active(wants[user]) THEN decisions
                  ELSE [u \in DOMAIN decisions \cup {user} |->
                          IF u = user THEN Decision(wants[u]) ELSE decisions[u]]
         full  == Active(wants[user]) /\ Cardinality(DOMAIN found) >= MaxMembers
     IN /\ decisions' = found
        /\ truncated' = Reported(full)
        /\ IF full THEN Resolve(found) ELSE pc' = pc /\ user' = user + 1
  /\ UNCHANGED <<table, began, entry, ids, pending, attempts, items, sent, wanted,
                 steady, changes>>

MembersEnd ==
  /\ pc = "members" /\ user \notin User
  /\ Resolve(decisions)
  /\ UNCHANGED <<table, began, entry, decisions, ids, pending, attempts, items,
                 truncated, sent, wanted, steady, changes>>

\* The user's index entries, one by one, then the next user's; the index and
\* the item may be behind the last write.
Versions(i) == {owner[i], old[i]}
Later       == {u \in Deliverable(decisions) : u > user}

ReadEntry ==
  /\ pc = "index"
  /\ \E v \in Versions(entry) :
       LET found == IF v = user THEN ids \cup {entry} ELSE ids
           full  == v = user /\ Cardinality(found) >= MaxInstallations
       IN /\ ids' = found
          /\ truncated' = (truncated \/ Reported(full))
          /\ IF full \/ (entry = Installations /\ Later = {})
             THEN pc' = "batch" /\ UNCHANGED <<user, entry>>
             ELSE /\ pc' = pc
                  /\ entry' = IF entry = Installations THEN 1 ELSE entry + 1
                  /\ user' = IF entry = Installations THEN Min(Later) ELSE user
  /\ UNCHANGED <<table, began, decisions, pending, attempts, items, sent, wanted,
                 steady, changes>>

\* The first ids that make a batch.
Chunk == {i \in ids : Cardinality({j \in ids : j < i}) < BatchGetChunk}

NextBatch ==
  /\ pc = "batch" /\ pending = {} /\ ids # {}
  /\ pending' = Chunk /\ ids' = ids \ Chunk /\ attempts' = 0
  /\ UNCHANGED <<table, pc, began, user, entry, decisions, items, truncated, sent,
                 wanted, steady, changes>>

AskAgain(answered) == IF answered = pending THEN {} ELSE pending   \* mutant: all of them
Dropped(answered) == {}                        \* mutant: none of them
Unprocessed(answered) == pending \ answered

\* BatchGetItem answers some of the keys; a key without an item has no response.
BatchGet ==
  /\ pc = "batch" /\ pending # {} /\ attempts < MaxBatchAttempts
  /\ \E answered \in SUBSET pending :
       /\ \E seen \in [answered -> User \cup {None}] :
            /\ \A i \in answered : seen[i] \in Versions(i)
            /\ items' = items \cup {[installation |-> i, user |-> seen[i], attempt |-> attempts] :
                                      i \in {j \in answered : seen[j] # None}}
       /\ pending' = Unprocessed(answered)
  /\ attempts' = attempts + 1
  /\ UNCHANGED <<table, pc, began, user, entry, decisions, ids, truncated, sent,
                 wanted, steady, changes>>

BatchExhausted ==
  /\ pc = "batch" /\ pending # {} /\ attempts = MaxBatchAttempts
  /\ pc' = "failed"
  /\ UNCHANGED <<table, locals, sent, wanted, steady, changes>>

BatchEnd ==
  /\ pc = "batch" /\ pending = {} /\ ids = {}
  /\ pc' = "send"
  /\ UNCHANGED <<table, locals, sent, wanted, steady, changes>>

ByFinder(item) == decisions[Min(Deliverable(decisions))]   \* mutant: not by the item's user
Mode(item) == decisions[item.user]

\* Who owns the item is who decides; whoever is no recipient is passed over.
Send ==
  /\ pc = "send"
  /\ \E item \in items :
       /\ items' = items \ {item}
       /\ sent' = IF item.user \in Deliverable(decisions)
                  THEN sent \cup {[installation |-> item.installation, user |-> item.user,
                                   attempt |-> item.attempt, mode |-> Mode(item)]}
                  ELSE sent
  /\ UNCHANGED <<table, pc, began, user, entry, decisions, ids, pending, attempts,
                 truncated, wanted, steady, changes>>

SendEnd ==
  /\ pc = "send" /\ items = {}
  /\ pc' = "done"
  /\ UNCHANGED <<table, locals, sent, wanted, steady, changes>>

\* A call fails or the execution times out; PushDelivery decides what follows.
Fail ==
  /\ pc \in Running
  /\ pc' = "failed"
  /\ UNCHANGED <<table, locals, sent, wanted, steady, changes>>

-----------------------------------------------------------------------------
\* A membership is granted, revoked, or its preferences or their schedule change.
ChangeMember ==
  /\ changes < MaxChanges /\ changes' = changes + 1
  /\ \E u \in User, w \in Wish :
       /\ w # wants[u]
       /\ wants' = [wants EXCEPT ![u] = w]
       /\ wanted' = [wanted EXCEPT ![u] = @ \cup {w}]
       /\ steady' = [steady EXCEPT !.users = @ \ {u}]
  /\ UNCHANGED <<owner, old, pc, locals, sent>>

\* PUT or DELETE of an installation: see PushInstallations.
ChangeInstallation ==
  /\ changes < MaxChanges /\ changes' = changes + 1
  /\ \E i \in Installation, u \in User \cup {None} :
       /\ u # owner[i]
       /\ owner' = [owner EXCEPT ![i] = u]
       /\ steady' = [steady EXCEPT !.installations = @ \ {i}]
  /\ UNCHANGED <<wants, old, pc, locals, sent, wanted>>

\* The replicas and the index catch up.
Converge ==
  /\ \E i \in Installation : owner[i] # old[i] /\ old' = [old EXCEPT ![i] = owner[i]]
  /\ UNCHANGED <<wants, owner, pc, locals, sent, wanted, steady, changes>>

FanOut == \/ Start \/ ReadMember \/ MembersEnd \/ ReadEntry
          \/ NextBatch \/ BatchGet \/ BatchExhausted \/ BatchEnd \/ Send \/ SendEnd

Next == FanOut \/ Fail \/ ChangeMember \/ ChangeInstallation \/ Converge

Spec == Init /\ [][Next]_vars

-----------------------------------------------------------------------------
(* Properties.                                                             *)

\* A message goes to a user who, at some time during the execution, was an
\* active member and wanted it in this way, even if the installation was
\* found under another user's name (_send_all takes the item's user).
OnlyMembersAreRung ==
  \A s \in sent : /\ wanted[s.user] \cap (Modes \cup {"NONE"}) # {}
                  /\ Event = "RING_DETECTED" => s.mode \in wanted[s.user]

\* No installation is rung twice by one execution (the ids are a set, and only
\* unprocessed keys are asked for again).
OncePerExecution ==
  \A s, t \in sent : s.installation = t.installation => s = t

\* An execution that finishes has rung every installation that belonged
\* throughout to one user who wanted it throughout, unless it was too late or
\* it has reported that a cap was reached (MAX_MEMBERSHIPS_PER_DEVICE,
\* MAX_INSTALLATIONS_PER_DEVICE).
NobodyIsLeftOut ==
  pc = "done" /\ began < Window /\ ~truncated =>
    \A u \in steady.users, i \in steady.installations :
      owner[i] = u /\ wants[u] \in (IF Event = "RING_ENDED" THEN Modes \cup {"NONE"} ELSE Modes)
        => \E s \in sent : s.installation = i
=============================================================================
