------------------------ MODULE RingRecipientsProofs ------------------------
(***************************************************************************)
(* Proofs about RingRecipients for any number of users and installations,  *)
(* any caps, batches and retries:                                          *)
(*   TypeCorrect           the type invariant;                             *)
(*   RecipientsInvariant   the invariant the others follow from;           *)
(*   AlwaysMembers         who is rung, and how;                           *)
(*   AlwaysOnce            no installation twice;                          *)
(*   AlwaysEveryone        nobody is left out silently;                    *)
(*   AlwaysBounded         the caps and the size of a batch;               *)
(*   TruncationIsReal      a cap is reported only when it was met;         *)
(*   FanOutEnds            every step brings the fan-out nearer its end.   *)
(***************************************************************************)
EXTENDS RingRecipients, FiniteSetTheorems, WellFoundedInduction, TLAPS

-----------------------------------------------------------------------------
\* Every set of numbers that has a member has a first one.
LEMMA FirstNumber ==
  ASSUME NEW S, S \subseteq Nat, S # {}
  PROVE  Min(S) \in S /\ \A u \in S : Min(S) <= u
<1>1. PICK u \in S : \A v \in S : ~ (<<v, u>> \in OpToRel(<, Nat))
  BY NatLessThanWellFounded, WFMin
<1>2. \A v \in S : u <= v
  <2> TAKE v \in S
  <2>1. ~ (<<v, u>> \in {ss \in Nat \X Nat : ss[1] < ss[2]})
    BY <1>1 DEF OpToRel
  <2>2. u \in Nat /\ v \in Nat
    OBVIOUS
  <2>3. ~ (v < u)
    BY <2>1, <2>2
  <2>4. QED
    BY <2>2, <2>3
<1>3. QED
  BY <1>2 DEF Min

LEMMA FirstUser ==
  ASSUME NEW S, S \subseteq User, S # {}
  PROVE  Min(S) \in S /\ \A u \in S : Min(S) <= u
<1>1. S \subseteq Nat
  BY RecipientsAssumption DEF User, RecipientsAssumption
<1>2. QED
  BY <1>1, FirstNumber

-----------------------------------------------------------------------------
(* The inductive invariant.                                                *)

Recipients == Deliverable(decisions)

\* What the execution has not come to is as it was in the beginning.
InTurn ==
  /\ pc = "start" => user = 1
  /\ pc \in {"start", "members"} => entry = 1 /\ ids = {}
  /\ pc \in {"start", "members", "index"} => items = {} /\ pending = {}
  /\ pc \in {"start", "members", "index", "batch"} => sent = {}
  /\ pc = "index" => user \in Recipients
  /\ pc \in {"send", "done"} => ids = {} /\ pending = {}
  /\ pc = "done" => items = {}

\* Every decision is one for what its member has wanted, and every message as
\* its addressee's decision says.
Witnessed ==
  /\ pc = "start" => DOMAIN decisions = {}
  /\ pc # "start" => \A u \in User : wants[u] \in wanted[u]
  /\ \A u \in DOMAIN decisions : \E w \in wanted[u] : w # "OUT" /\ decisions[u] = Decision(w)
  /\ \A s \in sent : s.user \in Recipients /\ s.mode = decisions[s.user]

\* An installation is discovered, asked for, read or rung: one of these.
Apart ==
  /\ ids \cap pending = {}
  /\ \A x \in items : x.installation \notin ids \cup pending
  /\ \A x, y \in items : x.installation = y.installation => x = y
  /\ \A x \in items, s \in sent : x.installation # s.installation
  /\ OncePerExecution

\* A member who has not changed, once past, is decided about.
Settled(u) == wants[u] # "OUT" => u \in DOMAIN decisions /\ decisions[u] = Decision(wants[u])

MembersRead ==
  \A u \in steady.users :
    /\ pc = "members" /\ u < user => Settled(u)
    /\ pc \in {"index", "batch", "send", "done"} /\ ~truncated => Settled(u)

\* An installation that has not changed is on its way.
OnItsWay(i) ==
  /\ pc = "index" /\ (owner[i] < user \/ (owner[i] = user /\ i < entry)) => i \in ids
  /\ pc = "batch" => i \in ids \cup pending \/ \E x \in items : x.installation = i
  /\ pc = "send" => \E x \in items \cup sent : x.installation = i
  /\ pc = "done" /\ began < Window => \E s \in sent : s.installation = i

InstallationsRead ==
  \A i \in steady.installations :
    /\ owner[i] = old[i]
    /\ \A x \in items : x.installation = i => x.user = owner[i]
    /\ owner[i] \in Recipients /\ ~truncated => OnItsWay(i)

RecipientsInv == TypeOK /\ InTurn /\ Witnessed /\ Apart /\ MembersRead /\ InstallationsRead

-----------------------------------------------------------------------------
LEMMA Constants ==
  /\ Users \in Nat \ {0} /\ Installations \in Nat \ {0} /\ MaxBatchAttempts \in Nat \ {0}
  /\ User = 1..Users /\ Installation = 1..Installations
  /\ None \notin User /\ Window \in Nat /\ Horizon \in Nat /\ MaxChanges \in Nat
  /\ 1 \in User /\ 1 \in Installation
BY RecipientsAssumption DEF RecipientsAssumption, User, Installation

LEMMA RecipientsAreUsers == TypeOK => Recipients \subseteq User
BY DEF TypeOK, Recipients, Deliverable

LEMMA InitInv == Init => RecipientsInv
<1> SUFFICES ASSUME Init PROVE RecipientsInv
  OBVIOUS
<1>1. DOMAIN decisions = {}
  BY DEF Init
<1>2. TypeOK
  <2>1. /\ began \in 0..Horizon /\ changes \in 0..MaxChanges /\ attempts \in 0..MaxBatchAttempts
        /\ user \in 1..(Users + 1) /\ entry \in Installation
    BY Constants DEF Init
  <2>2. /\ wanted \in [User -> SUBSET Wish]
        /\ steady \in [users: SUBSET User, installations: SUBSET Installation]
    BY DEF Init
  <2>3. QED
    BY <1>1, <2>1, <2>2 DEF Init, TypeOK
<1>3. InTurn /\ Witnessed /\ Apart /\ MembersRead /\ InstallationsRead
  BY <1>1 DEF Init, InTurn, Witnessed, Apart, OncePerExecution, MembersRead, InstallationsRead, OnItsWay
<1>4. QED
  BY <1>2, <1>3 DEF RecipientsInv

LEMMA Resolves ==
  ASSUME NEW d, Resolve(d), DOMAIN d \subseteq User, user \in 1..(Users + 1)
  PROVE  /\ pc' \in {"done", "index"} /\ user' \in 1..(Users + 1)
         /\ pc' = "done" => Deliverable(d) = {} \/ began >= Window
         /\ pc' = "index" => user' \in Deliverable(d) /\ \A u \in Deliverable(d) : user' <= u
<1>1. Deliverable(d) \subseteq User
  BY DEF Deliverable
<1>2. CASE Deliverable(d) = {} \/ began >= Window
  BY <1>2 DEF Resolve
<1>3. CASE ~(Deliverable(d) = {} \/ began >= Window)
  <2>1. pc' = "index" /\ user' = Min(Deliverable(d)) /\ Deliverable(d) # {}
    BY <1>3 DEF Resolve
  <2>2. user' \in Deliverable(d) /\ \A u \in Deliverable(d) : user' <= u
    BY <1>1, <2>1, FirstUser
  <2>3. QED
    BY <1>1, <2>1, <2>2, Constants
<1>4. QED
  BY <1>2, <1>3

-----------------------------------------------------------------------------
(* The memberships.                                                        *)

LEMMA StartKeeps == RecipientsInv /\ Start => RecipientsInv'
<1> SUFFICES ASSUME RecipientsInv, Start PROVE RecipientsInv'
  OBVIOUS
<1> USE DEF RecipientsInv, Start, table
<1>1. TypeOK'
  <2>1. wanted' \in [User -> SUBSET Wish]
    BY DEF TypeOK
  <2>2. steady'.users \subseteq User /\ steady'.installations \subseteq Installation
    OBVIOUS
  <2>3. QED
    BY <2>1, <2>2 DEF TypeOK, Running
<1>2. InTurn' /\ Apart'
  BY DEF InTurn, Apart, OncePerExecution, Recipients, Deliverable
<1>3. Witnessed'
  BY DEF Witnessed, InTurn, Recipients, Deliverable
<1>4. MembersRead'
  BY Constants DEF MembersRead, InTurn
<1>5. InstallationsRead'
  BY DEF InstallationsRead, OnItsWay, InTurn
<1>6. QED
  BY <1>1, <1>2, <1>3, <1>4, <1>5

\* One row of the membership index.
LEMMA MemberRow ==
  ASSUME RecipientsInv, ReadMember
  PROVE  /\ pc = "members" /\ user \in User
         /\ DOMAIN decisions' \subseteq User
         /\ \A u \in DOMAIN decisions' :
              \/ u \in DOMAIN decisions /\ decisions'[u] = decisions[u]
              \/ u = user /\ wants[u] # "OUT" /\ decisions'[u] = Decision(wants[u])
         /\ \A u \in DOMAIN decisions : u # user => u \in DOMAIN decisions' /\ decisions'[u] = decisions[u]
         /\ wants[user] # "OUT" => user \in DOMAIN decisions' /\ decisions'[user] = Decision(wants[user])
         /\ \/ pc' = "members" /\ user' = user + 1 /\ truncated' = FALSE
            \/ pc' \in {"index", "done"} /\ truncated' = TRUE
         /\ user' \in 1..(Users + 1)
         /\ pc' = "index" => user' \in Deliverable(decisions')
<1> DEFINE found == IF ~Active(wants[user]) THEN decisions
                    ELSE [u \in DOMAIN decisions \cup {user} |->
                            IF u = user THEN Decision(wants[u]) ELSE decisions[u]]
           full  == Active(wants[user]) /\ Cardinality(DOMAIN found) >= MaxMembers
<1>1. /\ pc = "members" /\ user \in User
      /\ decisions' = found /\ truncated' = full
      /\ IF full THEN Resolve(found) ELSE pc' = pc /\ user' = user + 1
  BY DEF ReadMember, Reported
<1>2. DOMAIN decisions \subseteq User /\ user \in 1..(Users + 1)
  BY DEF RecipientsInv, TypeOK
<1>3. DOMAIN found \subseteq User
  BY <1>1, <1>2
<1>4. /\ \A u \in DOMAIN found :
            \/ u \in DOMAIN decisions /\ found[u] = decisions[u]
            \/ u = user /\ wants[u] # "OUT" /\ found[u] = Decision(wants[u])
      /\ \A u \in DOMAIN decisions : u # user => u \in DOMAIN found /\ found[u] = decisions[u]
      /\ wants[user] # "OUT" => user \in DOMAIN found /\ found[user] = Decision(wants[user])
  BY DEF Active
<1> HIDE DEF found
<1>5. CASE full
  <2>1. /\ pc' \in {"done", "index"} /\ user' \in 1..(Users + 1)
        /\ pc' = "index" => user' \in Deliverable(found)
    BY <1>1, <1>2, <1>3, <1>5, Resolves
  <2>2. QED
    BY <1>1, <1>3, <1>4, <1>5, <2>1
<1>6. CASE ~full
  <2>1. user' = user + 1 /\ pc' = "members" /\ truncated' = FALSE
    BY <1>1, <1>6
  <2>2. user' \in 1..(Users + 1)
    <3>1. Users \in Nat /\ user \in 1..Users
      BY <1>1, Constants
    <3>2. QED
      BY <2>1, <3>1
  <2>3. QED
    BY <1>1, <1>3, <1>4, <2>1, <2>2
<1>7. QED
  BY <1>5, <1>6

LEMMA ReadMemberKeeps == RecipientsInv /\ ReadMember => RecipientsInv'
<1> SUFFICES ASSUME RecipientsInv, ReadMember PROVE RecipientsInv'
  OBVIOUS
<1>1. /\ pc = "members" /\ user \in User
      /\ DOMAIN decisions' \subseteq User
      /\ \A u \in DOMAIN decisions' :
           \/ u \in DOMAIN decisions /\ decisions'[u] = decisions[u]
           \/ u = user /\ wants[u] # "OUT" /\ decisions'[u] = Decision(wants[u])
      /\ \A u \in DOMAIN decisions : u # user => u \in DOMAIN decisions' /\ decisions'[u] = decisions[u]
      /\ wants[user] # "OUT" => user \in DOMAIN decisions' /\ decisions'[user] = Decision(wants[user])
      /\ \/ pc' = "members" /\ user' = user + 1 /\ truncated' = FALSE
         \/ pc' \in {"index", "done"} /\ truncated' = TRUE
      /\ user' \in 1..(Users + 1)
      /\ pc' = "index" => user' \in Deliverable(decisions')
  BY MemberRow
<1>2. UNCHANGED <<table, began, entry, ids, pending, attempts, items, sent, wanted, steady, changes>>
  BY DEF ReadMember
<1>3. /\ entry = 1 /\ ids = {} /\ items = {} /\ pending = {} /\ sent = {}
  BY <1>1 DEF RecipientsInv, InTurn
<1>4. TypeOK'
  <2>1. \A u \in DOMAIN decisions' : decisions'[u] \in Modes \cup {"NONE"}
    BY <1>1 DEF RecipientsInv, TypeOK, Decision, Wish, Modes
  <2>2. QED
    BY <1>1, <1>2, <2>1 DEF RecipientsInv, TypeOK, Running, table
<1>5. InTurn'
  BY <1>1, <1>2, <1>3 DEF InTurn, Recipients
<1>6. Witnessed'
  BY <1>1, <1>2, <1>3 DEF RecipientsInv, Witnessed, Recipients, Deliverable, table
<1>7. Apart'
  BY <1>2, <1>3 DEF Apart, OncePerExecution
<1>8. MembersRead'
  <2> SUFFICES ASSUME NEW u \in steady.users, pc' = "members", u < user' PROVE Settled(u)'
    BY <1>1, <1>2 DEF MembersRead
  <2>1. u \in User /\ user' = user + 1
    BY <1>1 DEF RecipientsInv, TypeOK
  <2>2. u = user \/ u < user
    BY <1>1, <2>1, Constants
  <2>3. u < user => Settled(u)
    BY <1>1 DEF RecipientsInv, MembersRead
  <2>4. QED
    BY <1>1, <1>2, <2>2, <2>3 DEF Settled, table
<1>9. InstallationsRead'
  BY <1>1, <1>2, <1>3 DEF RecipientsInv, InstallationsRead, OnItsWay, table
<1>10. QED
  BY <1>4, <1>5, <1>6, <1>7, <1>8, <1>9 DEF RecipientsInv

LEMMA MembersEndKeeps == RecipientsInv /\ MembersEnd => RecipientsInv'
<1> SUFFICES ASSUME RecipientsInv, MembersEnd PROVE RecipientsInv'
  OBVIOUS
<1>1. /\ pc = "members" /\ user \notin User /\ Resolve(decisions)
      /\ UNCHANGED <<table, began, entry, decisions, ids, pending, attempts, items,
                     truncated, sent, wanted, steady, changes>>
  BY DEF MembersEnd
<1>2. /\ pc' \in {"done", "index"} /\ user' \in 1..(Users + 1)
      /\ pc' = "done" => Recipients = {} \/ began >= Window
      /\ pc' = "index" => user' \in Recipients /\ \A u \in Recipients : user' <= u
  BY <1>1, Resolves DEF RecipientsInv, TypeOK, Recipients
<1>3. /\ entry = 1 /\ ids = {} /\ items = {} /\ pending = {} /\ sent = {}
  BY <1>1 DEF RecipientsInv, InTurn
<1>4. TypeOK'
  BY <1>1, <1>2 DEF RecipientsInv, TypeOK, Running, table
<1>5. InTurn'
  BY <1>1, <1>2, <1>3 DEF InTurn, Recipients, Deliverable
<1>6. Witnessed'
  BY <1>1, <1>2, <1>3 DEF RecipientsInv, Witnessed, Recipients, Deliverable, table
<1>7. Apart'
  BY <1>1, <1>3 DEF Apart, OncePerExecution
<1>8. MembersRead'
  <2>1. \A u \in User : u < user
    BY <1>1, Constants DEF RecipientsInv, TypeOK
  <2>2. \A u \in steady.users : Settled(u)
    BY <1>1, <2>1 DEF RecipientsInv, TypeOK, MembersRead
  <2>3. QED
    BY <1>1, <2>2 DEF MembersRead, Settled, table
<1>9. InstallationsRead'
  <2> SUFFICES ASSUME NEW i \in steady.installations, owner[i] \in Recipients PROVE OnItsWay(i)'
    BY <1>1, <1>3 DEF RecipientsInv, InstallationsRead, table, Recipients
  <2>1. i \in Installation /\ owner[i] \in User
    BY RecipientsAreUsers DEF RecipientsInv, TypeOK
  <2>2. ~(i < entry)
    BY <1>3, <2>1, Constants
  <2>3. pc' = "index" => ~(owner[i] < user')
    BY <1>2, <2>1, Constants
  <2>4. pc' = "done" => ~(began < Window)
    BY <1>2, Constants DEF RecipientsInv, TypeOK
  <2>5. QED
    BY <1>1, <1>2, <2>2, <2>3, <2>4 DEF OnItsWay, table
<1>10. QED
  BY <1>4, <1>5, <1>6, <1>7, <1>8, <1>9 DEF RecipientsInv

-----------------------------------------------------------------------------
(* The installations.                                                      *)

\* One entry of the installation index.
LEMMA IndexEntry ==
  ASSUME RecipientsInv, ReadEntry
  PROVE  /\ pc = "index" /\ ids \subseteq ids' /\ ids' \subseteq ids \cup {entry}
         /\ owner[entry] = user /\ old[entry] = user => entry \in ids'
         /\ ~truncated' => ~truncated
         /\ \/ /\ pc' = "batch" /\ UNCHANGED <<user, entry>>
               /\ ~truncated' => entry = Installations /\ Later = {}
            \/ /\ pc' = "index" /\ entry # Installations /\ entry' = entry + 1 /\ user' = user
            \/ /\ pc' = "index" /\ entry = Installations /\ entry' = 1
               /\ user' \in Later /\ \A u \in Later : user' <= u
<1>1. PICK v \in Versions(entry) :
        LET found == IF v = user THEN ids \cup {entry} ELSE ids
            full  == v = user /\ Cardinality(found) >= MaxInstallations
        IN /\ ids' = found
           /\ truncated' = (truncated \/ Reported(full))
           /\ IF full \/ (entry = Installations /\ Later = {})
              THEN pc' = "batch" /\ UNCHANGED <<user, entry>>
              ELSE /\ pc' = pc
                   /\ entry' = IF entry = Installations THEN 1 ELSE entry + 1
                   /\ user' = IF entry = Installations THEN Min(Later) ELSE user
  BY DEF ReadEntry
<1>2. PICK full \in BOOLEAN :
        /\ truncated' = (truncated \/ full)
        /\ IF full \/ (entry = Installations /\ Later = {})
           THEN pc' = "batch" /\ UNCHANGED <<user, entry>>
           ELSE /\ pc' = pc
                /\ entry' = IF entry = Installations THEN 1 ELSE entry + 1
                /\ user' = IF entry = Installations THEN Min(Later) ELSE user
  BY <1>1 DEF Reported
<1>3. pc = "index" /\ truncated \in BOOLEAN
  BY DEF ReadEntry, RecipientsInv, TypeOK
<1>4. /\ ids \subseteq ids' /\ ids' \subseteq ids \cup {entry}
      /\ owner[entry] = user /\ old[entry] = user => entry \in ids'
  BY <1>1 DEF Versions
<1>5. Later # {} => Min(Later) \in Later /\ \A u \in Later : Min(Later) <= u
  BY FirstUser, RecipientsAreUsers DEF Later, RecipientsInv, Recipients
<1>6. QED
  BY <1>2, <1>3, <1>4, <1>5

LEMMA ReadEntryKeeps == RecipientsInv /\ ReadEntry => RecipientsInv'
<1> SUFFICES ASSUME RecipientsInv, ReadEntry PROVE RecipientsInv'
  OBVIOUS
<1>1. /\ pc = "index" /\ ids \subseteq ids' /\ ids' \subseteq ids \cup {entry}
      /\ owner[entry] = user /\ old[entry] = user => entry \in ids'
      /\ ~truncated' => ~truncated
      /\ \/ /\ pc' = "batch" /\ UNCHANGED <<user, entry>>
            /\ ~truncated' => entry = Installations /\ Later = {}
         \/ /\ pc' = "index" /\ entry # Installations /\ entry' = entry + 1 /\ user' = user
         \/ /\ pc' = "index" /\ entry = Installations /\ entry' = 1
            /\ user' \in Later /\ \A u \in Later : user' <= u
  BY IndexEntry
<1>2. UNCHANGED <<table, began, decisions, pending, attempts, items, sent, wanted, steady, changes>>
  BY DEF ReadEntry
<1>3. items = {} /\ pending = {} /\ sent = {} /\ user \in Recipients
  BY <1>1 DEF RecipientsInv, InTurn
<1>4. Later \subseteq Recipients
  BY DEF Later, Recipients
<1>5. TypeOK'
  <2>1. truncated' \in BOOLEAN
    BY DEF ReadEntry, RecipientsInv, TypeOK, Reported
  <2>2. user' \in User /\ entry' \in Installation
    <3>1. user \in User /\ Later \subseteq User
      BY <1>3, <1>4, RecipientsAreUsers DEF RecipientsInv
    <3>2. Installations \in Nat \ {0} /\ Installation = 1..Installations /\ entry \in Installation
      BY Constants DEF RecipientsInv, TypeOK
    <3>3. entry # Installations => entry + 1 \in Installation
      BY <3>2
    <3>4. 1 \in Installation
      BY <3>2
    <3>5. QED
      BY <1>1, <3>1, <3>2, <3>3, <3>4
  <2>3. user' \in 1..(Users + 1)
    BY <2>2, Constants
  <2>4. QED
    BY <1>1, <1>2, <2>1, <2>2, <2>3 DEF RecipientsInv, TypeOK, Running, table
<1>6. InTurn'
  BY <1>1, <1>2, <1>3, <1>4 DEF InTurn, Recipients, Deliverable
<1>7. Witnessed'
  BY <1>1, <1>2, <1>3 DEF RecipientsInv, Witnessed, Recipients, Deliverable, table
<1>8. Apart'
  BY <1>2, <1>3 DEF Apart, OncePerExecution
<1>9. MembersRead'
  BY <1>1, <1>2 DEF RecipientsInv, MembersRead, Settled, table
<1>10. InstallationsRead'
  <2> SUFFICES ASSUME NEW i \in steady.installations, owner[i] \in Recipients, ~truncated'
               PROVE  OnItsWay(i)'
    BY <1>2, <1>3 DEF RecipientsInv, InstallationsRead, table, Recipients
  <2>1. /\ i \in Installation /\ owner[i] \in User /\ user \in User /\ entry \in Installation
        /\ i \in 1..Installations /\ owner[i] \in Nat /\ user \in Nat /\ entry \in 1..Installations
        /\ Installations \in Nat
    <3>1. owner[i] \in User /\ user \in User
      BY <1>3, RecipientsAreUsers DEF RecipientsInv
    <3>2. i \in Installation /\ entry \in Installation
      BY DEF RecipientsInv, TypeOK
    <3>3. /\ Installation = 1..Installations /\ Installations \in Nat
          /\ User = 1..Users /\ Users \in Nat
      BY Constants
    <3>4. owner[i] \in Nat /\ user \in Nat
      BY <3>1, <3>3
    <3>5. QED
      BY <3>1, <3>2, <3>3, <3>4
  <2>2. owner[i] = old[i] /\ (owner[i] < user \/ (owner[i] = user /\ i < entry) => i \in ids)
    BY <1>1 DEF RecipientsInv, InstallationsRead, OnItsWay
  <2>3. owner[i] = user /\ i = entry => i \in ids'
    BY <1>1, <2>2
  <2>4. CASE /\ pc' = "batch" /\ UNCHANGED <<user, entry>>
             /\ entry = Installations /\ Later = {}
    <3>1. ~(owner[i] > user)
      BY <2>4 DEF Later, Recipients
    <3>2. owner[i] < user \/ (owner[i] = user /\ i < entry) \/ (owner[i] = user /\ i = entry)
      BY <2>1, <2>4, <3>1
    <3>3. QED
      BY <1>1, <2>2, <2>3, <2>4, <3>2 DEF OnItsWay
  <2>5. CASE pc' = "index" /\ entry # Installations /\ entry' = entry + 1 /\ user' = user
    <3>1. owner[i] < user' \/ (owner[i] = user' /\ i < entry')
            => owner[i] < user \/ (owner[i] = user /\ i < entry) \/ (owner[i] = user /\ i = entry)
      BY <2>1, <2>5
    <3>2. QED
      BY <1>1, <1>2, <2>2, <2>3, <2>5, <3>1 DEF OnItsWay, table
  <2>6. CASE /\ pc' = "index" /\ entry = Installations /\ entry' = 1
             /\ user' \in Later /\ \A u \in Later : user' <= u
    <3>1. user' \in Nat
      BY <1>4, <2>6, RecipientsAreUsers, Constants DEF RecipientsInv
    <3>2. owner[i] > user => user' <= owner[i]
      BY <2>6 DEF Later, Recipients
    <3>3. owner[i] < user' \/ (owner[i] = user' /\ i < entry')
            => owner[i] < user \/ (owner[i] = user /\ i < entry) \/ (owner[i] = user /\ i = entry)
      BY <2>1, <2>6, <3>1, <3>2
    <3>4. QED
      BY <1>1, <1>2, <2>2, <2>3, <2>6, <3>3 DEF OnItsWay, table
  <2>7. QED
    BY <1>1, <2>4, <2>5, <2>6
<1>11. QED
  BY <1>5, <1>6, <1>7, <1>8, <1>9, <1>10 DEF RecipientsInv

LEMMA NextBatchKeeps == RecipientsInv /\ NextBatch => RecipientsInv'
<1> SUFFICES ASSUME RecipientsInv, NextBatch PROVE RecipientsInv'
  OBVIOUS
<1>1. /\ pc = "batch" /\ pending = {} /\ attempts' = 0
      /\ pending' \subseteq ids /\ ids' = ids \ pending'
      /\ UNCHANGED <<table, pc, began, user, entry, decisions, items, truncated, sent,
                     wanted, steady, changes>>
  BY DEF NextBatch, Chunk
<1>2. TypeOK'
  BY <1>1, Constants DEF RecipientsInv, TypeOK, table
<1>3. InTurn' /\ Witnessed' /\ MembersRead'
  BY <1>1 DEF RecipientsInv, InTurn, Witnessed, MembersRead, Settled, Recipients, Deliverable, table
<1>4. Apart'
  BY <1>1 DEF RecipientsInv, Apart, OncePerExecution
<1>5. InstallationsRead'
  BY <1>1 DEF RecipientsInv, InstallationsRead, OnItsWay, Recipients, Deliverable, table
<1>6. QED
  BY <1>2, <1>3, <1>4, <1>5 DEF RecipientsInv

LEMMA BatchGetKeeps == RecipientsInv /\ BatchGet => RecipientsInv'
<1> SUFFICES ASSUME RecipientsInv, BatchGet PROVE RecipientsInv'
  OBVIOUS
<1>1. PICK answered \in SUBSET pending :
        /\ \E seen \in [answered -> User \cup {None}] :
             /\ \A i \in answered : seen[i] \in Versions(i)
             /\ items' = items \cup {[installation |-> i, user |-> seen[i], attempt |-> attempts] :
                                       i \in {j \in answered : seen[j] # None}}
        /\ pending' = pending \ answered
  BY DEF BatchGet, Unprocessed
<1>2. PICK seen \in [answered -> User \cup {None}] :
        /\ \A i \in answered : seen[i] \in Versions(i)
        /\ items' = items \cup {[installation |-> i, user |-> seen[i], attempt |-> attempts] :
                                  i \in {j \in answered : seen[j] # None}}
  BY <1>1
<1>3. /\ pc = "batch" /\ attempts < MaxBatchAttempts /\ attempts' = attempts + 1
      /\ UNCHANGED <<table, pc, began, user, entry, decisions, ids, truncated, sent,
                     wanted, steady, changes>>
  BY DEF BatchGet
\* An item that was read now.
<1>4. /\ \A x \in items' :
           \/ x \in items
           \/ /\ x.installation \in answered /\ x.user = seen[x.installation] /\ x.user \in User
              /\ x = [installation |-> x.installation, user |-> seen[x.installation], attempt |-> attempts]
      /\ items \subseteq items'
      /\ \A i \in answered : seen[i] # None => \E x \in items' : x.installation = i
  <2> DEFINE Read(i) == [installation |-> i, user |-> seen[i], attempt |-> attempts]
  <2>1. \A x : x \in items' <=> x \in items \/ \E i \in answered : seen[i] # None /\ x = Read(i)
    BY <1>2
  <2>2. \A i : Read(i).installation = i /\ Read(i).user = seen[i]
    OBVIOUS
  <2>3. \A i \in answered : seen[i] # None => seen[i] \in User
    BY <1>2
  <2>4. ASSUME NEW x \in items', x \notin items
        PROVE  /\ x.installation \in answered /\ x.user = seen[x.installation] /\ x.user \in User
               /\ x = [installation |-> x.installation, user |-> seen[x.installation], attempt |-> attempts]
    <3>1. PICK i \in answered : seen[i] # None /\ x = Read(i)
      BY <2>1, <2>4
    <3>2. QED
      BY <2>2, <2>3, <3>1
  <2>5. items \subseteq items' /\ \A i \in answered : seen[i] # None => Read(i) \in items'
    BY <2>1
  <2> HIDE DEF Read
  <2>6. QED
    BY <2>2, <2>4, <2>5
<1>5. attempts \in Nat /\ attempts + 1 \in 0..MaxBatchAttempts
  BY <1>3, Constants DEF RecipientsInv, TypeOK
<1>6. answered \subseteq Installation
  BY DEF RecipientsInv, TypeOK
<1>7. TypeOK'
  <2>1. items' \subseteq Item
    BY <1>4, <1>5, <1>6 DEF RecipientsInv, TypeOK, Item
  <2>2. QED
    BY <1>1, <1>3, <1>5, <2>1 DEF RecipientsInv, TypeOK, table
<1>8. InTurn' /\ Witnessed' /\ MembersRead'
  BY <1>3 DEF RecipientsInv, InTurn, Witnessed, MembersRead, Settled, Recipients, Deliverable, table
<1>9. Apart'
  <2>1. sent = {} /\ sent' = {}
    BY <1>3 DEF RecipientsInv, InTurn
  <2>2. ids' \cap pending' = {}
    BY <1>1, <1>3 DEF RecipientsInv, Apart
  <2>3. ASSUME NEW x \in items' PROVE x.installation \notin ids' \cup pending'
    BY <1>1, <1>3, <1>4 DEF RecipientsInv, Apart
  <2>4. ASSUME NEW x \in items', NEW y \in items', x.installation = y.installation PROVE x = y
    BY <1>4, <2>4 DEF RecipientsInv, Apart
  <2>5. QED
    BY <2>1, <2>2, <2>3, <2>4 DEF Apart, OncePerExecution
<1>10. InstallationsRead'
  <2> SUFFICES ASSUME NEW i \in steady.installations
               PROVE  /\ owner[i] = old[i]
                      /\ \A x \in items' : x.installation = i => x.user = owner[i]
                      /\ owner[i] \in Recipients /\ ~truncated
                           => i \in ids \cup pending' \/ \E x \in items' : x.installation = i
    BY <1>3 DEF InstallationsRead, OnItsWay, Recipients, Deliverable, table
  <2>1. /\ owner[i] = old[i]
        /\ \A x \in items : x.installation = i => x.user = owner[i]
        /\ owner[i] \in Recipients /\ ~truncated
             => i \in ids \cup pending \/ \E x \in items : x.installation = i
    BY <1>3 DEF RecipientsInv, InstallationsRead, OnItsWay
  <2>2. i \in answered => seen[i] = owner[i]
    BY <1>2, <2>1 DEF Versions
  <2>3. owner[i] \in Recipients => owner[i] # None
    BY RecipientsAreUsers, Constants DEF RecipientsInv
  <2>4. QED
    BY <1>1, <1>4, <2>1, <2>2, <2>3
<1>11. QED
  BY <1>7, <1>8, <1>9, <1>10 DEF RecipientsInv

LEMMA BatchEndKeeps == RecipientsInv /\ BatchEnd => RecipientsInv'
<1> SUFFICES ASSUME RecipientsInv, BatchEnd PROVE RecipientsInv'
  OBVIOUS
<1>1. pc = "batch" /\ pending = {} /\ ids = {} /\ pc' = "send" /\ UNCHANGED <<table, locals, sent, wanted, steady, changes>>
  BY DEF BatchEnd
<1>2. TypeOK' /\ InTurn' /\ Witnessed' /\ Apart' /\ MembersRead'
  BY <1>1 DEF RecipientsInv, TypeOK, Running, InTurn, Witnessed, Apart, OncePerExecution,
       MembersRead, Settled, Recipients, Deliverable, table, locals
<1>3. InstallationsRead'
  BY <1>1 DEF RecipientsInv, InstallationsRead, OnItsWay, Recipients, Deliverable, table, locals
<1>4. QED
  BY <1>2, <1>3 DEF RecipientsInv

LEMMA SendKeeps == RecipientsInv /\ Send => RecipientsInv'
<1> SUFFICES ASSUME RecipientsInv, Send PROVE RecipientsInv'
  OBVIOUS
<1>1. PICK item \in items :
        /\ items' = items \ {item}
        /\ sent' = IF item.user \in Recipients
                   THEN sent \cup {[installation |-> item.installation, user |-> item.user,
                                    attempt |-> item.attempt, mode |-> decisions[item.user]]}
                   ELSE sent
  BY DEF Send, Mode, Recipients
<1>2. /\ pc = "send"
      /\ UNCHANGED <<table, pc, began, user, entry, decisions, ids, pending, attempts,
                     truncated, wanted, steady, changes>>
  BY DEF Send
<1>3. item \in Item
  BY DEF RecipientsInv, TypeOK
<1>4. /\ \A s \in sent' :
           \/ s \in sent
           \/ /\ item.user \in Recipients
              /\ s = [installation |-> item.installation, user |-> item.user,
                      attempt |-> item.attempt, mode |-> decisions[item.user]]
              /\ s.installation = item.installation /\ s.user = item.user /\ s.mode = decisions[item.user]
      /\ sent \subseteq sent'
      /\ item.user \in Recipients => \E s \in sent' : s.installation = item.installation
  <2>1. CASE item.user \in Recipients
    <3> DEFINE m == [installation |-> item.installation, user |-> item.user,
                     attempt |-> item.attempt, mode |-> decisions[item.user]]
    <3>1. sent' = sent \cup {m}
      BY <1>1, <2>1
    <3>2. m.installation = item.installation /\ m.user = item.user /\ m.mode = decisions[item.user]
      OBVIOUS
    <3>3. m \in sent' /\ sent \subseteq sent' /\ \A s \in sent' : s \in sent \/ s = m
      BY <3>1
    <3>4. QED
      BY <2>1, <3>2, <3>3
  <2>2. CASE item.user \notin Recipients
    <3>1. sent' = sent
      BY <1>1, <2>2
    <3>2. QED
      BY <2>2, <3>1
  <2>3. QED
    BY <2>1, <2>2
<1>5. TypeOK'
  <2>1. item.user \in Recipients => decisions[item.user] \in Modes
    BY DEF RecipientsInv, TypeOK, Recipients, Deliverable
  <2>2. sent' \subseteq Message
    BY <1>3, <1>4, <2>1 DEF RecipientsInv, TypeOK, Message, Item
  <2>3. QED
    BY <1>1, <1>2, <2>2 DEF RecipientsInv, TypeOK, table
<1>6. InTurn' /\ MembersRead'
  BY <1>2 DEF RecipientsInv, InTurn, MembersRead, Settled, Recipients, Deliverable, table
<1>7. Witnessed'
  BY <1>2, <1>4 DEF RecipientsInv, Witnessed, Recipients, Deliverable, table
<1>8. Apart'
  <2>1. ASSUME NEW x \in items', NEW s \in sent' PROVE x.installation # s.installation
    BY <1>1, <1>4 DEF RecipientsInv, Apart
  <2>2. ASSUME NEW s \in sent', NEW t \in sent', s.installation = t.installation PROVE s = t
    BY <1>4, <2>2 DEF RecipientsInv, Apart, OncePerExecution
  <2>3. QED
    BY <1>1, <1>2, <2>1, <2>2 DEF RecipientsInv, Apart, OncePerExecution
<1>9. InstallationsRead'
  <2> SUFFICES ASSUME NEW i \in steady.installations
               PROVE  /\ owner[i] = old[i]
                      /\ \A x \in items' : x.installation = i => x.user = owner[i]
                      /\ owner[i] \in Recipients /\ ~truncated
                           => \E x \in items' \cup sent' : x.installation = i
    BY <1>2 DEF InstallationsRead, OnItsWay, Recipients, Deliverable, table
  <2>1. /\ owner[i] = old[i]
        /\ \A x \in items : x.installation = i => x.user = owner[i]
        /\ owner[i] \in Recipients /\ ~truncated => \E x \in items \cup sent : x.installation = i
    BY <1>2 DEF RecipientsInv, InstallationsRead, OnItsWay
  <2>2. item.installation = i => item.user = owner[i]
    BY <2>1
  <2>3. QED
    BY <1>1, <1>4, <2>1, <2>2
<1>10. QED
  BY <1>5, <1>6, <1>7, <1>8, <1>9 DEF RecipientsInv

LEMMA SendEndKeeps == RecipientsInv /\ SendEnd => RecipientsInv'
<1> SUFFICES ASSUME RecipientsInv, SendEnd PROVE RecipientsInv'
  OBVIOUS
<1>1. pc = "send" /\ items = {} /\ pc' = "done" /\ UNCHANGED <<table, locals, sent, wanted, steady, changes>>
  BY DEF SendEnd
<1>2. TypeOK' /\ InTurn' /\ Witnessed' /\ Apart' /\ MembersRead'
  BY <1>1 DEF RecipientsInv, TypeOK, Running, InTurn, Witnessed, Apart, OncePerExecution,
       MembersRead, Settled, Recipients, Deliverable, table, locals
<1>3. InstallationsRead'
  BY <1>1 DEF RecipientsInv, InstallationsRead, OnItsWay, Recipients, Deliverable, table, locals
<1>4. QED
  BY <1>2, <1>3 DEF RecipientsInv

LEMMA FailKeeps == RecipientsInv /\ (Fail \/ BatchExhausted) => RecipientsInv'
<1> SUFFICES ASSUME RecipientsInv, Fail \/ BatchExhausted PROVE RecipientsInv'
  OBVIOUS
<1>1. pc # "start" /\ pc' = "failed" /\ UNCHANGED <<table, locals, sent, wanted, steady, changes>>
  BY DEF Fail, BatchExhausted, Running
<1>2. TypeOK' /\ InTurn' /\ Witnessed' /\ Apart' /\ MembersRead'
  BY <1>1 DEF RecipientsInv, TypeOK, Running, InTurn, Witnessed, Apart, OncePerExecution,
       MembersRead, Settled, Recipients, Deliverable, table, locals
<1>3. InstallationsRead'
  BY <1>1 DEF RecipientsInv, InstallationsRead, OnItsWay, Recipients, Deliverable, table, locals
<1>4. QED
  BY <1>2, <1>3 DEF RecipientsInv

-----------------------------------------------------------------------------
(* What changes meanwhile.                                                 *)

LEMMA ChangeMemberKeeps == RecipientsInv /\ ChangeMember => RecipientsInv'
<1> SUFFICES ASSUME RecipientsInv, ChangeMember PROVE RecipientsInv'
  OBVIOUS
<1>1. PICK u \in User, w \in Wish :
        /\ wants' = [wants EXCEPT ![u] = w]
        /\ wanted' = [wanted EXCEPT ![u] = @ \cup {w}]
        /\ steady' = [steady EXCEPT !.users = @ \ {u}]
  BY DEF ChangeMember
<1>2. changes < MaxChanges /\ changes' = changes + 1 /\ UNCHANGED <<owner, old, pc, locals, sent>>
  BY DEF ChangeMember
<1>3. /\ steady'.users = steady.users \ {u} /\ steady'.installations = steady.installations
      /\ wants' \in [User -> Wish] /\ wanted' \in [User -> SUBSET Wish]
      /\ \A v \in User : v # u => wants'[v] = wants[v] /\ wanted'[v] = wanted[v]
      /\ wants'[u] = w /\ wanted'[u] = wanted[u] \cup {w}
  <2>1. wants \in [User -> Wish] /\ wanted \in [User -> SUBSET Wish]
    BY DEF RecipientsInv, TypeOK
  <2>2. steady' = [steady EXCEPT !.users = steady.users \ {u}] /\ steady \in [users: SUBSET User, installations: SUBSET Installation]
    BY <1>1 DEF RecipientsInv, TypeOK
  <2>3. QED
    BY <1>1, <2>1, <2>2
<1>4. TypeOK'
  <2>1. changes' \in 0..MaxChanges
    <3>1. changes \in 0..MaxChanges /\ MaxChanges \in Nat
      BY Constants DEF RecipientsInv, TypeOK
    <3>2. QED
      BY <1>2, <3>1
  <2>2. steady' \in [users: SUBSET User, installations: SUBSET Installation]
    <3>1. steady \in [users: SUBSET User, installations: SUBSET Installation]
      BY DEF RecipientsInv, TypeOK
    <3>2. steady.users \subseteq User /\ steady.installations \subseteq Installation
      BY <3>1
    <3>3. steady' = [users |-> steady.users \ {u}, installations |-> steady.installations]
      BY <1>1, <3>1
    <3>4. QED
      BY <3>2, <3>3
  <2>3. QED
    BY <1>2, <1>3, <2>1, <2>2 DEF RecipientsInv, TypeOK, locals
<1>5. InTurn' /\ Apart'
  BY <1>2 DEF RecipientsInv, InTurn, Apart, OncePerExecution, Recipients, Deliverable, locals
<1>6. Witnessed'
  <2>1. \A v \in User : wanted[v] \subseteq wanted'[v]
    BY <1>3
  <2>2. DOMAIN decisions \subseteq User
    BY DEF RecipientsInv, TypeOK
  <2>3. QED
    BY <1>2, <1>3, <2>1, <2>2 DEF RecipientsInv, Witnessed, Recipients, Deliverable, locals
<1>7. MembersRead'
  BY <1>2, <1>3 DEF RecipientsInv, TypeOK, MembersRead, Settled, locals
<1>8. InstallationsRead'
  BY <1>2, <1>3 DEF RecipientsInv, InstallationsRead, OnItsWay, Recipients, Deliverable, locals
<1>9. QED
  BY <1>4, <1>5, <1>6, <1>7, <1>8 DEF RecipientsInv

LEMMA ChangeInstallationKeeps == RecipientsInv /\ ChangeInstallation => RecipientsInv'
<1> SUFFICES ASSUME RecipientsInv, ChangeInstallation PROVE RecipientsInv'
  OBVIOUS
<1>1. PICK i \in Installation, u \in User \cup {None} :
        /\ owner' = [owner EXCEPT ![i] = u]
        /\ steady' = [steady EXCEPT !.installations = @ \ {i}]
  BY DEF ChangeInstallation
<1>2. changes < MaxChanges /\ changes' = changes + 1 /\ UNCHANGED <<wants, old, pc, locals, sent, wanted>>
  BY DEF ChangeInstallation
<1>3. /\ steady'.users = steady.users /\ steady'.installations = steady.installations \ {i}
      /\ owner' \in [Installation -> User \cup {None}]
      /\ \A j \in Installation : j # i => owner'[j] = owner[j]
  <2>1. owner \in [Installation -> User \cup {None}]
    BY DEF RecipientsInv, TypeOK
  <2>2. steady' = [steady EXCEPT !.installations = steady.installations \ {i}] /\ steady \in [users: SUBSET User, installations: SUBSET Installation]
    BY <1>1 DEF RecipientsInv, TypeOK
  <2>3. QED
    BY <1>1, <2>1, <2>2
<1>4. TypeOK'
  <2>1. changes' \in 0..MaxChanges
    <3>1. changes \in 0..MaxChanges /\ MaxChanges \in Nat
      BY Constants DEF RecipientsInv, TypeOK
    <3>2. QED
      BY <1>2, <3>1
  <2>2. steady' \in [users: SUBSET User, installations: SUBSET Installation]
    <3>1. steady \in [users: SUBSET User, installations: SUBSET Installation]
      BY DEF RecipientsInv, TypeOK
    <3>2. steady.users \subseteq User /\ steady.installations \subseteq Installation
      BY <3>1
    <3>3. steady' = [users |-> steady.users, installations |-> steady.installations \ {i}]
      BY <1>1, <3>1
    <3>4. QED
      BY <3>2, <3>3
  <2>3. QED
    BY <1>2, <1>3, <2>1, <2>2 DEF RecipientsInv, TypeOK, locals
<1>5. InTurn' /\ Apart' /\ Witnessed' /\ MembersRead'
  BY <1>2, <1>3 DEF RecipientsInv, InTurn, Apart, OncePerExecution, Witnessed, MembersRead, Settled,
       Recipients, Deliverable, locals
<1>6. InstallationsRead'
  BY <1>2, <1>3 DEF RecipientsInv, TypeOK, InstallationsRead, OnItsWay, Recipients, Deliverable, locals
<1>7. QED
  BY <1>4, <1>5, <1>6 DEF RecipientsInv

LEMMA ConvergeKeeps == RecipientsInv /\ Converge => RecipientsInv'
<1> SUFFICES ASSUME RecipientsInv, Converge PROVE RecipientsInv'
  OBVIOUS
<1>1. PICK i \in Installation : old' = [old EXCEPT ![i] = owner[i]]
  BY DEF Converge
<1>2. UNCHANGED <<wants, owner, pc, locals, sent, wanted, steady, changes>>
  BY DEF Converge
<1>3. /\ old' \in [Installation -> User \cup {None}]
      /\ \A j \in Installation : owner[j] = old[j] => owner[j] = old'[j]
  BY <1>1 DEF RecipientsInv, TypeOK
<1>4. TypeOK'
  BY <1>2, <1>3 DEF RecipientsInv, TypeOK, locals
<1>5. InTurn' /\ Apart' /\ Witnessed' /\ MembersRead'
  BY <1>2 DEF RecipientsInv, InTurn, Apart, OncePerExecution, Witnessed, MembersRead, Settled,
       Recipients, Deliverable, locals
<1>6. InstallationsRead'
  BY <1>2, <1>3 DEF RecipientsInv, TypeOK, InstallationsRead, OnItsWay, Recipients, Deliverable, locals
<1>7. QED
  BY <1>4, <1>5, <1>6 DEF RecipientsInv

LEMMA NextInv == RecipientsInv /\ [Next]_vars => RecipientsInv'
<1>1. RecipientsInv /\ UNCHANGED vars => RecipientsInv'
  BY DEF vars, table, locals, RecipientsInv, TypeOK, InTurn, Witnessed, Apart, OncePerExecution,
         MembersRead, Settled, InstallationsRead, OnItsWay, Recipients, Deliverable
<1>2. QED
  BY <1>1, StartKeeps, ReadMemberKeeps, MembersEndKeeps, ReadEntryKeeps, NextBatchKeeps, BatchGetKeeps,
     BatchEndKeeps, SendKeeps, SendEndKeeps, FailKeeps, ChangeMemberKeeps, ChangeInstallationKeeps,
     ConvergeKeeps DEF Next, FanOut

-----------------------------------------------------------------------------
(* The theorems.                                                           *)

\* In every state of the fan-out the invariant the other theorems rest on
\* holds: what has been read, of whom and of which installation, fits where
\* the execution is, whatever has changed meanwhile.
THEOREM RecipientsInvariant == Spec => []RecipientsInv
BY InitInv, NextInv, PTL DEF Spec

\* The fan-out keeps its types; no batch is asked for more often than allowed.
THEOREM TypeCorrect == Spec => []TypeOK
<1>1. RecipientsInv => TypeOK
  BY DEF RecipientsInv
<1>2. QED
  BY <1>1, RecipientsInvariant, PTL

\* Only members are rung, as they wanted at some time during the execution.
THEOREM AlwaysMembers == Spec => []OnlyMembersAreRung
<1>1. RecipientsInv => OnlyMembersAreRung
  <2> SUFFICES ASSUME RecipientsInv, NEW s \in sent
               PROVE  /\ wanted[s.user] \cap (Modes \cup {"NONE"}) # {}
                      /\ Event = "RING_DETECTED" => s.mode \in wanted[s.user]
    BY DEF OnlyMembersAreRung
  <2>1. s.user \in Recipients /\ s.mode = decisions[s.user] /\ s.user \in DOMAIN decisions /\ s.user \in User
    BY RecipientsAreUsers DEF RecipientsInv, Witnessed, Recipients, Deliverable
  <2>2. PICK w \in wanted[s.user] : w # "OUT" /\ decisions[s.user] = Decision(w)
    BY <2>1 DEF RecipientsInv, Witnessed
  <2>3. w \in Modes \cup {"NONE"}
    BY <2>1, <2>2 DEF RecipientsInv, TypeOK, Wish
  <2>4. QED
    BY <2>1, <2>2, <2>3 DEF Decision
<1>2. QED
  BY <1>1, RecipientsInvariant, PTL

\* No installation is rung twice by one execution, however many of its keys
\* BatchGetItem leaves for later.
THEOREM AlwaysOnce == Spec => []OncePerExecution
<1>1. RecipientsInv => OncePerExecution
  BY DEF RecipientsInv, Apart
<1>2. QED
  BY <1>1, RecipientsInvariant, PTL

\* Nobody who wants a ring is left out of a fan-out that finishes and reports
\* no cap, for any number of users, installations, pages and batches.
THEOREM AlwaysEveryone == Spec => []NobodyIsLeftOut
<1>1. RecipientsInv => NobodyIsLeftOut
  <2> SUFFICES ASSUME RecipientsInv, pc = "done", began < Window, ~truncated,
                      NEW u \in steady.users, NEW i \in steady.installations, owner[i] = u,
                      wants[u] \in (IF Event = "RING_ENDED" THEN Modes \cup {"NONE"} ELSE Modes)
               PROVE  \E s \in sent : s.installation = i
    BY DEF NobodyIsLeftOut
  <2>1. wants[u] # "OUT" /\ Decision(wants[u]) # "NONE"
    BY DEF Modes, Decision
  <2>2. u \in Recipients
    BY <2>1 DEF RecipientsInv, MembersRead, Settled, Recipients, Deliverable
  <2>3. QED
    BY <2>2 DEF RecipientsInv, InstallationsRead, OnItsWay
<1>2. QED
  BY <1>1, RecipientsInvariant, PTL

-----------------------------------------------------------------------------
(* What an execution holds is bounded, and it is cut short only at a cap.  *)

InstallationsOf(S) == {x.installation : x \in S}
Discovered == ids \cup pending \cup InstallationsOf(items) \cup InstallationsOf(sent)

\* At most MAX_MEMBERSHIPS_PER_DEVICE members are decided about and at most
\* MAX_INSTALLATIONS_PER_DEVICE installations are discovered, asked for, read
\* or rung, and a BatchGetItem asks for no more keys than DynamoDB takes.
FanOutIsBounded ==
  /\ Cardinality(DOMAIN decisions) <= MaxMembers
  /\ Cardinality(Discovered) <= MaxInstallations
  /\ Cardinality(pending) <= BatchGetChunk

BoundInv ==
  /\ FanOutIsBounded
  /\ pc \in {"start", "members"} => Cardinality(DOMAIN decisions) < MaxMembers /\ ~truncated
  /\ pc \in {"start", "members", "index"} => Cardinality(ids) < MaxInstallations

LEMMA Caps == MaxMembers \in Nat \ {0} /\ MaxInstallations \in Nat \ {0} /\ BatchGetChunk \in Nat \ {0}
BY RecipientsAssumption DEF RecipientsAssumption

LEMMA Within ==
  ASSUME NEW T, IsFiniteSet(T), NEW S, S \subseteq T
  PROVE  /\ IsFiniteSet(S) /\ Cardinality(S) \in Nat /\ Cardinality(S) <= Cardinality(T)
         /\ Cardinality(T) \in Nat /\ (S # T => Cardinality(S) < Cardinality(T))
BY FS_Subset, FS_CardinalityType

LEMMA OneMore ==
  ASSUME NEW T, IsFiniteSet(T), NEW x, NEW S, S \subseteq T \cup {x}
  PROVE  IsFiniteSet(S) /\ Cardinality(S) \in Nat /\ Cardinality(S) <= Cardinality(T) + 1
<1>1. IsFiniteSet(T \cup {x}) /\ Cardinality(T \cup {x}) <= Cardinality(T) + 1 /\ Cardinality(T) \in Nat
  BY FS_AddElement, FS_CardinalityType
<1>2. QED
  BY <1>1, Within

LEMMA FiniteSets ==
  ASSUME RecipientsInv
  PROVE  /\ IsFiniteSet(User) /\ IsFiniteSet(Installation)
         /\ DOMAIN decisions \subseteq User /\ Discovered \subseteq Installation
         /\ ids \subseteq Installation /\ pending \subseteq Installation
         /\ IsFiniteSet(DOMAIN decisions) /\ IsFiniteSet(Discovered)
         /\ IsFiniteSet(ids) /\ IsFiniteSet(pending)
<1>1. IsFiniteSet(User) /\ IsFiniteSet(Installation)
  BY Constants, FS_Interval
<1>2. /\ DOMAIN decisions \subseteq User /\ Discovered \subseteq Installation
      /\ ids \subseteq Installation /\ pending \subseteq Installation
  BY DEF RecipientsInv, TypeOK, Discovered, InstallationsOf, Item, Message
<1>3. QED
  BY <1>1, <1>2, Within

\* The first ids make a batch that is not too large, and some of any make one.
LEMMA ChunkFacts ==
  ASSUME ids \subseteq Installation
  PROVE  /\ Chunk \subseteq ids /\ Cardinality(Chunk) <= BatchGetChunk
         /\ ids # {} => Chunk # {}
<1> DEFINE Before(i) == {j \in ids : j < i}
           rank == [i \in Chunk |-> Cardinality(Before(i))]
<1>1. Chunk \subseteq ids /\ ids \subseteq Nat /\ IsFiniteSet(ids)
  <2>1. IsFiniteSet(Installation) /\ Installation \subseteq Nat
    BY Constants, FS_Interval
  <2>2. Chunk \subseteq ids
    BY DEF Chunk
  <2>3. QED
    BY <2>1, <2>2, Within
<1>2. \A i \in ids : IsFiniteSet(Before(i)) /\ Cardinality(Before(i)) \in Nat
  BY <1>1, Within
<1>3. ASSUME NEW i \in ids, NEW k \in ids, i < k PROVE Cardinality(Before(i)) < Cardinality(Before(k))
  <2>1. Before(i) \subseteq Before(k)
    <3> SUFFICES ASSUME NEW j \in ids, j < i PROVE j < k
      OBVIOUS
    <3>1. i \in Nat /\ j \in Nat /\ k \in Nat
      BY <1>1
    <3>2. QED
      BY <1>3, <3>1
  <2>2. i \in Before(k) /\ i \notin Before(i)
    BY <1>1, <1>3
  <2>3. QED
    BY <1>2, <2>1, <2>2, Within
<1>4. rank \in Injection(Chunk, 0..(BatchGetChunk - 1))
  <2>1. \A i \in Chunk : rank[i] \in 0..(BatchGetChunk - 1)
    BY <1>1, <1>2, Caps DEF Chunk
  <2>2. \A i, k \in Chunk : rank[i] = rank[k] => i = k
    <3> SUFFICES ASSUME NEW i \in Chunk, NEW k \in Chunk, rank[i] = rank[k], i # k PROVE FALSE
      OBVIOUS
    <3>1. i \in ids /\ k \in ids /\ i \in Nat /\ k \in Nat
      BY <1>1
    <3>2. i < k \/ k < i
      BY <3>1
    <3>3. Cardinality(Before(i)) = Cardinality(Before(k)) /\ Cardinality(Before(i)) \in Nat
      BY <1>2, <3>1
    <3>4. QED
      BY <1>3, <3>1, <3>2, <3>3
  <2>3. rank \in [Chunk -> 0..(BatchGetChunk - 1)]
    BY <2>1
  <2>4. QED
    <3> HIDE DEF rank
    <3>1. QED
      BY <2>2, <2>3 DEF Injection, IsInjective
<1>5. IsFiniteSet(0..(BatchGetChunk - 1)) /\ Cardinality(0..(BatchGetChunk - 1)) = BatchGetChunk
  BY FS_Interval, Caps
<1>6. Cardinality(Chunk) <= BatchGetChunk
  BY <1>4, <1>5, FS_Injection
<1>7. ids # {} => Chunk # {}
  <2> SUFFICES ASSUME ids # {} PROVE Min(ids) \in Chunk
    OBVIOUS
  <2>1. Min(ids) \in ids /\ \A j \in ids : Min(ids) <= j
    BY <1>1, FirstNumber
  <2>2. Before(Min(ids)) = {}
    <3> SUFFICES ASSUME NEW j \in ids, j < Min(ids) PROVE FALSE
      OBVIOUS
    <3>1. j \in Nat /\ Min(ids) \in Nat /\ Min(ids) <= j
      BY <1>1, <2>1
    <3>2. QED
      BY <3>1
  <2>3. QED
    BY <2>1, <2>2, FS_EmptySet, Caps DEF Chunk
<1>8. QED
  BY <1>1, <1>6, <1>7

\* A step that discovers nothing keeps the bounds.
LEMMA BoundKept ==
  ASSUME RecipientsInv, BoundInv, Discovered' \subseteq Discovered, decisions' = decisions,
         Cardinality(pending') <= BatchGetChunk,
         pc' \notin {"start", "members", "index"} \/ (UNCHANGED <<pc, ids, truncated>>)
  PROVE  BoundInv'
<1>1. Cardinality(Discovered') <= MaxInstallations
  <2>1. /\ IsFiniteSet(Discovered) /\ Cardinality(Discovered) <= MaxInstallations
    BY FiniteSets DEF BoundInv, FanOutIsBounded
  <2>2. /\ Cardinality(Discovered') \in Nat /\ Cardinality(Discovered) \in Nat
        /\ Cardinality(Discovered') <= Cardinality(Discovered)
    BY <2>1, Within
  <2>3. QED
    BY <2>1, <2>2, Caps
<1>2. QED
  BY <1>1 DEF BoundInv, FanOutIsBounded

LEMMA ReadMemberBound == ASSUME RecipientsInv, BoundInv, ReadMember PROVE BoundInv'
<1>1. /\ pc = "members" /\ user \in User
      /\ UNCHANGED <<ids, pending, items, sent>>
      /\ Cardinality(DOMAIN decisions) < MaxMembers
  BY DEF ReadMember, BoundInv
<1>2. PICK found :
        /\ found = IF ~Active(wants[user]) THEN decisions
                   ELSE [u \in DOMAIN decisions \cup {user} |->
                           IF u = user THEN Decision(wants[u]) ELSE decisions[u]]
        /\ decisions' = found
        /\ truncated' = (Active(wants[user]) /\ Cardinality(DOMAIN found) >= MaxMembers)
        /\ IF Active(wants[user]) /\ Cardinality(DOMAIN found) >= MaxMembers
           THEN Resolve(found) ELSE pc' = pc /\ user' = user + 1
  BY DEF ReadMember, Reported
<1>3. /\ DOMAIN found \subseteq DOMAIN decisions \cup {user}
      /\ ~Active(wants[user]) => found = decisions
  BY <1>2
<1>4. /\ IsFiniteSet(DOMAIN decisions) /\ DOMAIN decisions \subseteq User /\ user \in 1..(Users + 1)
  BY FiniteSets DEF RecipientsInv, TypeOK
<1>5. /\ Cardinality(DOMAIN found) \in Nat /\ Cardinality(DOMAIN decisions) \in Nat
      /\ Cardinality(DOMAIN found) <= Cardinality(DOMAIN decisions) + 1
  BY <1>3, <1>4, OneMore, FS_CardinalityType
<1>6. Cardinality(DOMAIN found) <= MaxMembers
  BY <1>1, <1>5, Caps
<1>7. pc' \in {"start", "members"} => Cardinality(DOMAIN found) < MaxMembers /\ ~truncated'
  <2>1. CASE Active(wants[user]) /\ Cardinality(DOMAIN found) >= MaxMembers
    <3>1. Resolve(found) /\ DOMAIN found \subseteq User
      BY <1>1, <1>2, <1>3, <1>4, <2>1
    <3>2. pc' \in {"done", "index"}
      BY <1>4, <3>1, Resolves
    <3>3. QED
      BY <3>2
  <2>2. CASE ~(Active(wants[user]) /\ Cardinality(DOMAIN found) >= MaxMembers)
    <3>1. Cardinality(DOMAIN found) < MaxMembers
      BY <1>1, <1>3, <1>5, <2>2, Caps
    <3>2. ~truncated'
      BY <1>2, <2>2
    <3>3. QED
      BY <3>1, <3>2
  <2>3. QED
    BY <2>1, <2>2
<1>8. Discovered' = Discovered /\ Cardinality(ids) < MaxInstallations
  BY <1>1 DEF Discovered, InstallationsOf, BoundInv
<1>9. QED
  BY <1>1, <1>2, <1>6, <1>7, <1>8 DEF BoundInv, FanOutIsBounded

LEMMA ReadEntryBound ==
  ASSUME RecipientsInv, BoundInv, ReadEntry
  PROVE  BoundInv' /\ (truncated' /\ ~truncated => Cardinality(ids') = MaxInstallations)
<1>1. PICK v, found :
        /\ found = (IF v = user THEN ids \cup {entry} ELSE ids)
        /\ ids' = found
        /\ truncated' /\ ~truncated => Cardinality(found) >= MaxInstallations
        /\ \/ pc' = "index" /\ ~(v = user /\ Cardinality(found) >= MaxInstallations)
           \/ pc' = "batch"
  BY DEF ReadEntry, Reported
<1>2. /\ pc = "index" /\ UNCHANGED <<decisions, pending, items, sent>>
      /\ items = {} /\ pending = {} /\ sent = {}
      /\ Cardinality(ids) < MaxInstallations
  BY DEF ReadEntry, RecipientsInv, InTurn, BoundInv
<1>3. IsFiniteSet(ids) /\ Cardinality(ids) \in Nat
  BY FiniteSets, FS_CardinalityType
<1>4. Cardinality(found) \in Nat /\ Cardinality(found) <= Cardinality(ids) + 1
  BY <1>1, <1>3, OneMore
<1>5. Cardinality(found) <= MaxInstallations
  BY <1>2, <1>3, <1>4, Caps
<1>6. Discovered' = found
  BY <1>1, <1>2 DEF Discovered, InstallationsOf
<1>7. pc' = "index" => Cardinality(found) < MaxInstallations
  <2>1. CASE v = user
    BY <1>1, <1>4, <2>1, Caps
  <2>2. CASE v # user
    BY <1>1, <1>2, <2>2
  <2>3. QED
    BY <2>1, <2>2
<1>8. BoundInv'
  BY <1>1, <1>2, <1>5, <1>6, <1>7 DEF BoundInv, FanOutIsBounded
<1>9. truncated' /\ ~truncated => Cardinality(ids') = MaxInstallations
  BY <1>1, <1>4, <1>5, Caps
<1>10. QED
  BY <1>8, <1>9

LEMMA BatchBound ==
  ASSUME RecipientsInv, BoundInv, NextBatch \/ BatchGet \/ BatchExhausted \/ BatchEnd \/ Send \/ SendEnd \/ Fail
  PROVE  BoundInv' /\ truncated' = truncated
<1>1. /\ ids \subseteq Installation /\ IsFiniteSet(pending) /\ Cardinality(pending) <= BatchGetChunk
      /\ Cardinality(pending) \in Nat
  BY FiniteSets, FS_CardinalityType DEF BoundInv, FanOutIsBounded
<1>2. CASE NextBatch
  <2>1. /\ pending' = Chunk /\ ids' = ids \ Chunk /\ Chunk \subseteq ids /\ pc = "batch"
        /\ UNCHANGED <<pc, decisions, items, sent, truncated>>
    BY <1>1, <1>2, ChunkFacts DEF NextBatch
  <2>2. Discovered' \subseteq Discovered
    BY <2>1 DEF Discovered, InstallationsOf
  <2>3. QED
    BY <1>1, <2>1, <2>2, ChunkFacts, BoundKept
<1>3. CASE BatchGet
  <2>1. PICK answered \in SUBSET pending :
          /\ \E seen \in [answered -> User \cup {None}] :
               items' = items \cup {[installation |-> i, user |-> seen[i], attempt |-> attempts] :
                                      i \in {j \in answered : seen[j] # None}}
          /\ pending' = pending \ answered
    BY <1>3 DEF BatchGet, Unprocessed
  <2>2. pc = "batch" /\ UNCHANGED <<pc, ids, decisions, sent, truncated>>
    BY <1>3 DEF BatchGet
  <2>3. InstallationsOf(items') \subseteq InstallationsOf(items) \cup answered
    BY <2>1 DEF InstallationsOf
  <2>4. Discovered' \subseteq Discovered
    BY <2>1, <2>2, <2>3 DEF Discovered, InstallationsOf
  <2>5. Cardinality(pending') <= BatchGetChunk
    <3>1. Cardinality(pending') \in Nat /\ Cardinality(pending') <= Cardinality(pending)
      BY <1>1, <2>1, Within
    <3>2. QED
      BY <1>1, <3>1, Caps
  <2>6. QED
    BY <2>2, <2>4, <2>5, BoundKept
<1>4. CASE Send
  <2>1. PICK item \in items :
          /\ items' = items \ {item}
          /\ \A s \in sent' : s \in sent \/ s.installation = item.installation
    BY <1>4 DEF Send
  <2>2. pc = "send" /\ UNCHANGED <<pc, ids, pending, decisions, truncated>>
    BY <1>4 DEF Send
  <2>3. Discovered' \subseteq Discovered
    BY <2>1, <2>2 DEF Discovered, InstallationsOf
  <2>4. QED
    BY <1>1, <2>2, <2>3, BoundKept
<1>5. CASE BatchExhausted \/ BatchEnd \/ SendEnd \/ Fail
  <2>1. pc' \in {"failed", "send", "done"} /\ UNCHANGED <<ids, pending, items, sent, decisions, truncated>>
    BY <1>5 DEF BatchExhausted, BatchEnd, SendEnd, Fail, locals
  <2>2. Discovered' = Discovered
    BY <2>1 DEF Discovered, InstallationsOf
  <2>3. QED
    BY <1>1, <2>1, <2>2, BoundKept
<1>6. QED
  BY <1>2, <1>3, <1>4, <1>5

\* A cap is reported in the step that reaches it, and only then: an execution
\* that reports none has looked at every membership and installation it could.
CapsAreReal ==
  ~truncated /\ truncated' =>
    \/ pc = "members" /\ Cardinality(DOMAIN decisions') = MaxMembers
    \/ pc = "index" /\ Cardinality(ids') = MaxInstallations

LEMMA NextBound == RecipientsInv /\ BoundInv /\ [Next]_vars => BoundInv' /\ CapsAreReal
<1> SUFFICES ASSUME RecipientsInv, BoundInv, [Next]_vars PROVE BoundInv' /\ CapsAreReal
  OBVIOUS
<1>1. CASE Start
  <2>1. /\ pc' = "members" /\ pc = "start"
        /\ UNCHANGED <<ids, pending, items, sent, decisions, truncated>>
    BY <1>1 DEF Start
  <2>2. Discovered' = Discovered
    BY <2>1 DEF Discovered, InstallationsOf
  <2>3. QED
    BY <2>1, <2>2 DEF BoundInv, FanOutIsBounded, CapsAreReal
<1>2. CASE ReadMember
  <2>1. BoundInv'
    BY <1>2, ReadMemberBound
  <2>2. truncated' => Cardinality(DOMAIN decisions') >= MaxMembers
    BY <1>2 DEF ReadMember, Reported
  <2>3. truncated' => Cardinality(DOMAIN decisions') = MaxMembers
    <3>1. IsFiniteSet(DOMAIN decisions')
      BY <1>2, MemberRow, FiniteSets, Within
    <3>2. Cardinality(DOMAIN decisions') \in Nat /\ Cardinality(DOMAIN decisions') <= MaxMembers
      BY <2>1, <3>1, FS_CardinalityType DEF BoundInv, FanOutIsBounded
    <3>3. QED
      BY <2>2, <3>2, Caps
  <2>4. QED
    BY <1>2, <2>1, <2>3 DEF CapsAreReal, ReadMember
<1>3. CASE MembersEnd
  <2>1. UNCHANGED <<ids, pending, items, sent, decisions, truncated>> /\ pc' \in {"done", "index"}
    BY <1>3, Resolves DEF MembersEnd, RecipientsInv, TypeOK
  <2>2. Discovered' = Discovered /\ pc = "members"
    BY <1>3, <2>1 DEF Discovered, InstallationsOf, MembersEnd
  <2>3. QED
    BY <2>1, <2>2 DEF BoundInv, FanOutIsBounded, CapsAreReal
<1>4. CASE ReadEntry
  <2>1. pc = "index"
    BY <1>4 DEF ReadEntry
  <2>2. QED
    BY <1>4, <2>1, ReadEntryBound DEF CapsAreReal
<1>5. CASE NextBatch \/ BatchGet \/ BatchExhausted \/ BatchEnd \/ Send \/ SendEnd \/ Fail
  BY <1>5, BatchBound DEF CapsAreReal
<1>6. CASE ChangeMember \/ ChangeInstallation \/ Converge \/ UNCHANGED vars
  <2>1. UNCHANGED <<pc, ids, pending, items, sent, decisions, truncated>>
    BY <1>6 DEF ChangeMember, ChangeInstallation, Converge, vars, locals
  <2>2. Discovered' = Discovered
    BY <2>1 DEF Discovered, InstallationsOf
  <2>3. QED
    BY <2>1, <2>2 DEF BoundInv, FanOutIsBounded, CapsAreReal
<1>7. QED
  BY <1>1, <1>2, <1>3, <1>4, <1>5, <1>6 DEF Next, FanOut

LEMMA BoundInvariant == Spec => [](RecipientsInv /\ BoundInv)
<1>1. Init => BoundInv
  <2> SUFFICES ASSUME Init PROVE BoundInv
    OBVIOUS
  <2>1. DOMAIN decisions = {} /\ Discovered = {} /\ ids = {} /\ pending = {} /\ ~truncated
    BY DEF Init, Discovered, InstallationsOf
  <2>2. QED
    BY <2>1, FS_EmptySet, Caps DEF BoundInv, FanOutIsBounded
<1>2. QED
  BY <1>1, NextBound, RecipientsInvariant, PTL DEF Spec

\* However many members and installations a device has, an execution holds no
\* more of them than the caps, and asks for no more keys than a batch takes.
THEOREM AlwaysBounded == Spec => []FanOutIsBounded
<1>1. BoundInv => FanOutIsBounded
  BY DEF BoundInv
<1>2. QED
  BY <1>1, BoundInvariant, PTL

\* Whoever is left out for a cap is left out for a cap that was reached
\* (memberships.py and installations.py log it in the same turn of the loop).
THEOREM TruncationIsReal == Spec => [][CapsAreReal]_vars
BY NextBound, BoundInvariant, PTL DEF Spec

-----------------------------------------------------------------------------
(* An execution comes to its end.                                          *)

\* The steps it has left: the sends, before them the batches, before them the
\* index entries of the users who are left, before them the memberships.
Sends   == Installations + 2
Batches == (MaxBatchAttempts + 1) * Installations

StepsLeft ==
  CASE pc = "start"   -> Sends + Batches + Users * Installations + Users + 3
    [] pc = "members" -> Sends + Batches + Users * Installations + (Users + 1 - user) + 2
    [] pc = "index"   -> Sends + Batches + (Users - user) * Installations + (Installations - entry) + 1
    [] pc = "batch"   -> Sends + (MaxBatchAttempts + 1) * Cardinality(ids)
                           + (IF pending = {} THEN 0 ELSE MaxBatchAttempts - attempts)
    [] pc = "send"    -> Cardinality(items) + 1
    [] pc \in {"done", "failed"} -> 0

\* Every step of the execution leaves it fewer steps, whatever pages and
\* unprocessed keys the service answers with; changes of members and
\* installations give it no more.
FanOutRunsOut ==
  /\ StepsLeft \in Nat
  /\ \/ StepsLeft' < StepsLeft
     \/ StepsLeft' = StepsLeft /\ pc' = pc

LEMMA Products ==
  /\ \A a, n \in Nat : a * n \in Nat
  /\ \A a, b, n \in Nat : a <= b => a * n <= b * n
  /\ \A a, b, n \in Nat : a < b => a * n + n <= b * n
  /\ \A a, b, n \in Nat : a <= b => n * a <= n * b
  /\ \A a, b, n \in Nat : a < b => n * a + n <= n * b
OBVIOUS

\* An item is one of an installation of its own.
LEMMA FewItems ==
  ASSUME RecipientsInv
  PROVE  /\ IsFiniteSet(items) /\ Cardinality(items) \in Nat /\ Cardinality(items) <= Installations
         /\ Cardinality(ids) \in Nat /\ Cardinality(ids) <= Installations
<1> DEFINE place == [x \in items |-> x.installation]
<1>1. IsFiniteSet(Installation) /\ Cardinality(Installation) = Installations
  BY Constants, FS_Interval
<1>2. \A x \in items : x.installation \in Installation
  BY DEF RecipientsInv, TypeOK, Item
<1>3. \A x, y \in items : x.installation = y.installation => x = y
  BY DEF RecipientsInv, Apart
<1>4. place \in Injection(items, Installation)
  <2>1. place \in [items -> Installation]
    BY <1>2
  <2>2. \A x, y \in items : place[x] = place[y] => x = y
    BY <1>3
  <2> HIDE DEF place
  <2>3. QED
    BY <2>1, <2>2 DEF Injection, IsInjective
<1>5. IsFiniteSet(items) /\ Cardinality(items) <= Installations
  BY <1>1, <1>4, FS_Injection
<1>6. Cardinality(items) \in Nat
  BY <1>5, FS_CardinalityType
<1>7. Cardinality(ids) \in Nat /\ Cardinality(ids) <= Installations
  BY <1>1, FiniteSets, Within
<1>8. QED
  BY <1>5, <1>6, <1>7

\* The measure of each stage, as far as the other stages look at it.
Measured ==
  /\ StepsLeft \in Nat
  /\ pc = "index" => StepsLeft >= Sends + Batches + 1
  /\ pc = "index" => StepsLeft <= Sends + Batches + Users * Installations
  /\ pc = "members" => StepsLeft >= Sends + Batches + Users * Installations + 2
  /\ pc = "members" => StepsLeft <= Sends + Batches + Users * Installations + Users + 2
  /\ pc = "batch" => StepsLeft >= Sends
  /\ pc = "batch" /\ pending = {} => StepsLeft <= Sends + Batches
  /\ pc = "send" => StepsLeft <= Sends - 1 /\ StepsLeft >= 1

LEMMA Measures ==
  ASSUME RecipientsInv
  PROVE  Sends \in Nat /\ Batches \in Nat /\ Sends = Installations + 2 /\ Measured
<1> USE DEF Measured
<1>1. /\ Users \in Nat \ {0} /\ Installations \in Nat \ {0} /\ MaxBatchAttempts \in Nat \ {0}
      /\ user \in 1..(Users + 1) /\ entry \in 1..Installations /\ attempts \in 0..MaxBatchAttempts
      /\ pc \in Running \cup {"start", "done", "failed"}
      /\ pc = "index" => user \in 1..Users
  BY Constants, RecipientsAreUsers DEF RecipientsInv, TypeOK, InTurn
<1>2. Sends \in Nat /\ Batches \in Nat /\ Users * Installations \in Nat
  BY <1>1, Products DEF Sends, Batches
<1>3. CASE pc \in {"start", "done", "failed"}
  BY <1>1, <1>2, <1>3 DEF StepsLeft, Sends
<1>4. CASE pc = "members"
  BY <1>1, <1>2, <1>4 DEF StepsLeft, Sends
<1>5. CASE pc = "index"
  <2>1. /\ (Users - user) * Installations \in Nat
        /\ (Users - user) * Installations + Installations <= Users * Installations
    <3>1. Users - user \in Nat /\ Users - user < Users
      BY <1>1, <1>5
    <3>2. QED
      BY <1>1, <3>1, Products
  <2>2. StepsLeft = Sends + Batches + (Users - user) * Installations + (Installations - entry) + 1
    BY <1>5 DEF StepsLeft
  <2>3. QED
    BY <1>1, <1>2, <1>5, <2>1, <2>2 DEF Sends
<1>6. CASE pc = "batch"
  <2> DEFINE rest == (MaxBatchAttempts + 1) * Cardinality(ids)
  <2>1. rest \in Nat /\ rest <= Batches
    <3>1. MaxBatchAttempts + 1 \in Nat /\ Cardinality(ids) \in Nat /\ Cardinality(ids) <= Installations
      BY <1>1, FewItems
    <3>2. QED
      BY <1>1, <3>1, Products DEF Batches
  <2>2. StepsLeft = Sends + rest + (IF pending = {} THEN 0 ELSE MaxBatchAttempts - attempts)
    BY <1>6 DEF StepsLeft
  <2> HIDE DEF rest
  <2>3. QED
    BY <1>1, <1>2, <1>6, <2>1, <2>2 DEF Sends
<1>7. CASE pc = "send"
  <2>1. StepsLeft = Cardinality(items) + 1
    BY <1>7 DEF StepsLeft
  <2>2. QED
    BY <1>1, <1>2, <1>7, <2>1, FewItems DEF Sends
<1>8. QED
  BY <1>1, <1>3, <1>4, <1>5, <1>6, <1>7 DEF Running

LEMMA AlwaysMeasured == RecipientsInv => Measured
BY Measures

\* The users still to come are fewer after a later one.
LEMMA Remaining ==
  ASSUME NEW n \in Nat, NEW a \in 1..n, NEW b \in 1..n, b > a
  PROVE  /\ n - a \in Nat /\ n - b \in Nat
         /\ n - b < n - a
OBVIOUS

LEMMA OwnStep ==
  ASSUME RecipientsInv, RecipientsInv', FanOut \/ Fail
  PROVE  StepsLeft' < StepsLeft
<1>1. /\ Users \in Nat \ {0} /\ Installations \in Nat \ {0} /\ MaxBatchAttempts \in Nat \ {0}
      /\ user \in 1..(Users + 1) /\ entry \in 1..Installations /\ attempts \in 0..MaxBatchAttempts
      /\ Sends \in Nat /\ Batches \in Nat /\ Users * Installations \in Nat
      /\ Sends = Installations + 2 /\ Measured
  BY Constants, Measures, Products DEF RecipientsInv, TypeOK
<1>2. /\ StepsLeft' \in Nat
      /\ pc' = "index" => StepsLeft' <= Sends + Batches + Users * Installations
      /\ pc' = "members" => StepsLeft' <= Sends + Batches + Users * Installations + Users + 2
      /\ pc' = "batch" /\ pending' = {} => StepsLeft' <= Sends + Batches
      /\ pc' = "send" => StepsLeft' <= Sends - 1
  <2>1. RecipientsInv' => Measured'
    BY AlwaysMeasured, PTL
  <2>2. Measured'
    BY <2>1
  <2>3. Sends' = Sends /\ Batches' = Batches
    BY DEF Sends, Batches
  <2>4. QED
    BY <2>2, <2>3 DEF Measured
<1>3. ASSUME pc \in Running, pc' \in {"done", "failed"} PROVE StepsLeft' < StepsLeft
  <2>1. StepsLeft' = 0
    BY <1>3 DEF StepsLeft
  <2>2. StepsLeft >= 1
    BY <1>1, <1>3 DEF Running, Measured
  <2>3. QED
    BY <1>1, <2>1, <2>2 DEF Measured
<1>4. CASE Start
  <2>1. pc = "start" /\ pc' = "members"
    BY <1>4 DEF Start
  <2>2. StepsLeft = Sends + Batches + Users * Installations + Users + 3
    BY <2>1 DEF StepsLeft
  <2>3. QED
    BY <1>1, <1>2, <2>1, <2>2
<1>5. CASE ReadMember
  <2>1. /\ pc = "members"
        /\ \/ pc' = "members" /\ user' = user + 1
           \/ pc' \in {"index", "done"}
    BY <1>5, MemberRow
  <2>2. CASE pc' = "members"
    <3>1. /\ StepsLeft = Sends + Batches + Users * Installations + (Users + 1 - user) + 2
          /\ StepsLeft' = Sends + Batches + Users * Installations + (Users + 1 - user') + 2
      BY <2>1, <2>2 DEF StepsLeft, Sends, Batches
    <3>2. QED
      BY <1>1, <2>1, <2>2, <3>1
  <2>3. CASE pc' = "index"
    BY <1>1, <1>2, <2>1, <2>3 DEF Measured
  <2>4. CASE pc' = "done"
    BY <1>3, <2>1, <2>4 DEF Running
  <2>5. QED
    BY <2>1, <2>2, <2>3, <2>4
<1>6. CASE MembersEnd
  <2>1. pc = "members" /\ pc' \in {"done", "index"}
    BY <1>6, Resolves DEF MembersEnd, RecipientsInv, TypeOK
  <2>2. CASE pc' = "index"
    BY <1>1, <1>2, <2>1, <2>2 DEF Measured
  <2>3. CASE pc' = "done"
    BY <1>3, <2>1, <2>3 DEF Running
  <2>4. QED
    BY <2>1, <2>2, <2>3
<1>7. CASE ReadEntry
  <2>1. /\ pc = "index" /\ UNCHANGED pending /\ pending = {} /\ user \in User
    BY <1>7, RecipientsAreUsers DEF ReadEntry, RecipientsInv, InTurn
  <2>2. CASE pc' = "batch"
    BY <1>1, <1>2, <2>1, <2>2 DEF Measured
  <2>3. CASE pc' = "index" /\ entry' = entry + 1 /\ user' = user
    <3>1. /\ StepsLeft = Sends + Batches + (Users - user) * Installations + (Installations - entry) + 1
          /\ StepsLeft' = Sends + Batches + (Users - user) * Installations + (Installations - entry') + 1
      BY <2>1, <2>3 DEF StepsLeft, Sends, Batches
    <3>2. (Users - user) * Installations \in Nat
      BY <1>1, <2>1, Products, Constants
    <3>3. QED
      BY <1>1, <2>3, <3>1, <3>2
  <2>4. CASE pc' = "index" /\ entry' = 1 /\ user' \in Later
    <3>1. /\ StepsLeft = Sends + Batches + (Users - user) * Installations + (Installations - entry) + 1
          /\ StepsLeft' = Sends + Batches + (Users - user') * Installations + (Installations - entry') + 1
      BY <2>1, <2>4 DEF StepsLeft, Sends, Batches
    <3>2. user' \in User /\ user' > user
      BY <2>4, RecipientsAreUsers DEF Later, Recipients, RecipientsInv
    <3>3. Users - user \in Nat /\ Users - user' \in Nat /\ Users - user' < Users - user
      <4>1. user \in 1..Users /\ user' \in 1..Users /\ user' > user
        BY <2>1, <3>2, Constants
      <4>2. Users \in Nat
        BY Constants
      <4>3. QED
        BY <4>1, <4>2, Remaining
    <3>4. /\ (Users - user) * Installations \in Nat /\ (Users - user') * Installations \in Nat
          /\ (Users - user') * Installations + Installations <= (Users - user) * Installations
      BY <1>1, <3>3, Products
    <3>5. QED
      BY <1>1, <2>4, <3>1, <3>4
  <2>5. QED
    BY <1>7, <2>2, <2>3, <2>4, IndexEntry
<1>8. CASE NextBatch
  <2>1. /\ pc = "batch" /\ pc' = "batch" /\ pending = {} /\ ids # {} /\ attempts' = 0
        /\ ids' = ids \ Chunk /\ Chunk \subseteq ids /\ Chunk # {}
    BY <1>8, FiniteSets, ChunkFacts DEF NextBatch
  <2>2. /\ Cardinality(ids) \in Nat /\ Cardinality(ids') \in Nat /\ Cardinality(ids') < Cardinality(ids)
    <3>1. ids' \subseteq ids /\ ids' # ids
      BY <2>1
    <3>2. QED
      BY <3>1, FiniteSets, Within
  <2> DEFINE K == MaxBatchAttempts + 1
  <2>3. K * Cardinality(ids') + K <= K * Cardinality(ids)
        /\ K * Cardinality(ids') \in Nat /\ K * Cardinality(ids) \in Nat
    <3>1. K \in Nat
      BY <1>1
    <3> HIDE DEF K
    <3>2. QED
      BY <2>2, <3>1, Products
  <2>4. /\ StepsLeft = Sends + K * Cardinality(ids)
        /\ StepsLeft' <= Sends + K * Cardinality(ids') + MaxBatchAttempts
    <3>1. StepsLeft = Sends + K * Cardinality(ids) + 0
      BY <2>1 DEF StepsLeft
    <3>2. StepsLeft' = Sends + K * Cardinality(ids') + (IF pending' = {} THEN 0 ELSE MaxBatchAttempts - 0)
      BY <2>1 DEF StepsLeft, Sends
    <3> HIDE DEF K
    <3>3. QED
      BY <1>1, <2>3, <3>1, <3>2
  <2>5. K = MaxBatchAttempts + 1
    OBVIOUS
  <2> DEFINE less == K * Cardinality(ids')
             more == K * Cardinality(ids)
  <2>6. /\ less \in Nat /\ more \in Nat /\ less + K <= more
        /\ StepsLeft = Sends + more /\ StepsLeft' <= Sends + less + MaxBatchAttempts
    BY <2>3, <2>4
  <2> HIDE DEF K, less, more
  <2>7. QED
    BY <1>1, <1>2, <2>5, <2>6
<1>9. CASE BatchGet
  <2>1. /\ pc = "batch" /\ pc' = "batch" /\ pending # {} /\ ids' = ids
        /\ attempts < MaxBatchAttempts /\ attempts' = attempts + 1
    BY <1>9 DEF BatchGet
  <2> DEFINE rest == (MaxBatchAttempts + 1) * Cardinality(ids)
  <2>2. rest \in Nat
    BY <1>1, FewItems, Products
  <2>3. /\ StepsLeft = Sends + rest + (MaxBatchAttempts - attempts)
        /\ StepsLeft' = Sends + rest + (IF pending' = {} THEN 0 ELSE MaxBatchAttempts - attempts')
    BY <2>1 DEF StepsLeft, Sends
  <2> HIDE DEF rest
  <2>4. QED
    BY <1>1, <2>1, <2>2, <2>3
<1>10. CASE BatchEnd
  <2>1. pc = "batch" /\ pc' = "send"
    BY <1>10 DEF BatchEnd
  <2>2. QED
    BY <1>1, <1>2, <2>1 DEF Measured
<1>11. CASE Send
  <2>1. PICK item \in items : items' = items \ {item}
    BY <1>11 DEF Send
  <2>2. pc = "send" /\ pc' = "send"
    BY <1>11 DEF Send
  <2>3. Cardinality(items') \in Nat /\ Cardinality(items) \in Nat /\ Cardinality(items') < Cardinality(items)
    <3>1. items' \subseteq items /\ items' # items
      BY <2>1
    <3>2. QED
      BY <3>1, FewItems, Within
  <2>4. QED
    BY <2>2, <2>3 DEF StepsLeft
<1>12. CASE BatchExhausted \/ SendEnd \/ Fail
  BY <1>3, <1>12 DEF BatchExhausted, SendEnd, Fail, Running
<1>13. QED
  BY <1>4, <1>5, <1>6, <1>7, <1>8, <1>9, <1>10, <1>11, <1>12 DEF FanOut

\* A fan-out is over after a bounded number of steps, however many keys are
\* left unprocessed and whatever changes meanwhile (MAX_BATCH_RETRY_ATTEMPTS).
THEOREM FanOutEnds == Spec => [][FanOutRunsOut]_vars
<1>1. ASSUME RecipientsInv, RecipientsInv', [Next]_vars PROVE FanOutRunsOut
  <2>1. StepsLeft \in Nat
    BY <1>1, Measures DEF Measured
  <2>2. CASE FanOut \/ Fail
    BY <1>1, <2>1, <2>2, OwnStep DEF FanOutRunsOut
  <2>3. CASE ChangeMember \/ ChangeInstallation \/ Converge \/ UNCHANGED vars
    <3>1. UNCHANGED <<pc, user, entry, ids, pending, attempts, items>>
      BY <2>3 DEF ChangeMember, ChangeInstallation, Converge, vars, locals
    <3>2. StepsLeft' = StepsLeft
      BY <3>1 DEF StepsLeft, Sends, Batches
    <3>3. QED
      BY <2>1, <3>1, <3>2 DEF FanOutRunsOut
  <2>4. QED
    BY <1>1, <2>2, <2>3 DEF Next
<1>2. QED
  BY <1>1, RecipientsInvariant, PTL DEF Spec
=============================================================================
