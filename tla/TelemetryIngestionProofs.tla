---------------------- MODULE TelemetryIngestionProofs ----------------------
(***************************************************************************)
(* Proofs about TelemetryIngestion for every number of deliveries, commands *)
(* and retries and every message:                                          *)
(*   TypeCorrect           the type invariant;                             *)
(*   IngestionInvariant    the invariant the others follow from;           *)
(*   AlwaysReserved        details and their places in the hour;           *)
(*   AlwaysAgreeing        the counters of an hour;                        *)
(*   AlwaysNewest          STATE#CURRENT;                                  *)
(*   AlwaysCovered         COMMAND_RESULT#;                                *)
(*   AlwaysPushed          what is pushed is recorded, and what is recorded *)
(*                         is pushed or the failure is in the log;         *)
(*   OutcomesStand         what an owner was told about a command;         *)
(*   DeliveriesAccounted   what has become of each delivery;               *)
(*   AlwaysCounted         no handled delivery is left uncounted;          *)
(*   DeliveriesTerminate   a delivery runs out of executions and of steps. *)
(***************************************************************************)
EXTENDS TelemetryIngestion, FiniteSetTheorems, TLAPS

-----------------------------------------------------------------------------
(* The inductive invariant.                                                *)

\* What a delivery does fits its message.
Fitting ==
  \A d \in Delivery :
    /\ pc[d] \in {"state", "health"} => job[d].body.category = "health" /\ ~Malformed(job[d])
    /\ pc[d] \in {"detail", "duplicate", "dropped", "project", "push"}
         => job[d].body.category \in {"events", "responses"} /\ ~Malformed(job[d])
    /\ pc[d] = "project" => job[d].body.category = "responses"
    /\ pc[d] = "push" => job[d].body.ring
    /\ pc[d] \in {"invalid", "quarantine"} => Malformed(job[d])

\* No delivery has an effect before it is given to Lambda, and whoever waits has
\* an execution left.
Paced ==
  \A d \in Delivery :
    /\ pc[d] = "idle" => tries[d] = 0 /\ ~Attempted(d) /\ d \notin quarantined
    /\ pc[d] = "queued" => tries[d] < MaxTries

\* A response that is projected is one, and whoever was told of an outcome
\* was told what is projected.
Projected ==
  /\ \A c \in Command : projection[c] # NoJob => projection[c].body.category = "responses"
  /\ \A c \in Polled : told[c] \in {"COMPLETED", "REJECTED"} => Terminal(projection[c])

\* What has been recorded of a message that is about to be pushed, and of one
\* that was.
RecordOf(j)  == Stored(j) \/ metric[Hour(j.received)]["dropped"] > 0
Recorded(d)  == RecordOf(job[d])

Pushing ==
  \A d \in Delivery :
    /\ pc[d] = "duplicate" => Stored(job[d])
    /\ pc[d] = "push" \/ Attempted(d) => Recorded(d)
    /\ pc[d] \in {"return", "done"} /\ job[d].body.ring /\ ~Malformed(job[d]) /\ PushConfigured
         => Attempted(d)

Reserved == IsFiniteSet(details) /\ DetailsReserved

IngestionInv ==
  /\ TypeOK /\ Fitting /\ Paced /\ Projected /\ Pushing
  /\ Reserved /\ CountersAgree /\ StateIsNewest /\ ProjectionCoversResponses

-----------------------------------------------------------------------------
(* Messages and hours.                                                     *)

LEMMA JobFacts ==
  ASSUME NEW j \in Job
  PROVE  /\ j # NoJob
         /\ j.body \in Message /\ j.received \in 0..Horizon /\ j.received \in Nat
         /\ j.body.category \in {"events", "health", "responses"}
         /\ j.body.status \in {"NONE", "ACCEPTED", "COMPLETED", "FAILED", "REJECTED"}
         /\ j.body.ring \in BOOLEAN
         /\ j.body.form \in {"valid", "invalid", "unknown device"}
         /\ j.body.category = "responses" => j.body.id \in Command /\ j.body.status # "NONE"
         /\ j.body.ring => j.body.category = "events"
<1>1. j.body \in Message /\ j.received \in 0..Horizon /\ j \in [body : Message, received : Nat]
  BY ConstantsAssumption DEF Job, ConstantsAssumption
<1>2. j.body \in MessageSpace
  BY <1>1, ConstantsAssumption DEF ConstantsAssumption
<1>3. QED
  BY <1>1, <1>2, ConstantsAssumption DEF ConstantsAssumption, MessageSpace

LEMMA HourOfJob == ASSUME NEW j \in Job PROVE Hour(j.received) \in Hours
BY JobFacts DEF Hours

-----------------------------------------------------------------------------
(* Type correctness.                                                       *)

LEMMA InitTypeOK == Init => TypeOK
BY ConstantsAssumption DEF Init, TypeOK, ConstantsAssumption, Hours, Running, PublicStates

LEMMA AddTyped ==
  ASSUME TypeOK, NEW j \in Job, NEW cs, Add(j, cs)
  PROVE  metric' \in [Hours -> [Counter -> Nat]]
BY HourOfJob DEF TypeOK, Add

LEMMA NextTypeOK == IngestionInv /\ [Next]_vars => TypeOK'
<1> SUFFICES ASSUME TypeOK, Fitting, Paced, Projected, [Next]_vars PROVE TypeOK'
  BY DEF IngestionInv
<1> USE DEF Running, Counting, Goto
<1> \A d \in Delivery : pc[d] # "idle" => job[d] \in Job
  BY DEF TypeOK
<1>1. ASSUME NEW d \in Delivery, Publish(d) PROVE TypeOK'
  <2>1. PICK m \in Message : job' = [job EXCEPT ![d] = [body |-> m, received |-> clock]]
    BY <1>1 DEF Publish
  <2>2. [body |-> m, received |-> clock] \in Job
    BY <1>1, ConstantsAssumption DEF Publish, TypeOK, Job, ConstantsAssumption
  <2>3. QED
    BY <1>1, <2>1, <2>2 DEF Publish, TypeOK, items, effects
<1>2. ASSUME NEW d \in Delivery, NEW e \in Delivery, Redeliver(d, e) PROVE TypeOK'
  BY <1>2 DEF Redeliver, TypeOK, items, effects
<1>3. ASSUME NEW d \in Delivery, Start(d) PROVE TypeOK'
  <2>1. FirstCall(job[d]) \in {"state", "detail", "invalid", "quarantine"}
    BY DEF FirstCall
  <2>2. tries[d] + 1 \in 0..MaxTries
    BY <1>3, ConstantsAssumption DEF Start, Paced, TypeOK, ConstantsAssumption
  <2>3. QED
    BY <1>3, <2>1, <2>2 DEF Start, TypeOK, items, effects
<1>4. ASSUME NEW d \in Delivery, Fail(d) PROVE TypeOK'
  BY <1>4 DEF Fail, TypeOK, items, effects
<1>5. ASSUME NEW d \in Delivery, Return(d) PROVE TypeOK'
  BY <1>5 DEF Return, TypeOK, items, effects
<1>6. ASSUME NEW d \in Delivery, UpdateState(d) PROVE TypeOK'
  BY <1>6 DEF UpdateState, TypeOK, effects
<1>7. ASSUME NEW d \in Delivery, RecordDetail(d) PROVE TypeOK'
  BY <1>7, AddTyped DEF RecordDetail, AfterRecord, TypeOK, effects
<1>8. ASSUME NEW d \in Delivery, DetailRefused(d) PROVE TypeOK'
  BY <1>8 DEF DetailRefused, TypeOK, items, effects
<1>9. ASSUME NEW d \in Delivery, Count(d) PROVE TypeOK'
  <2>1. metric' \in [Hours -> [Counter -> Nat]]
    BY <1>9, AddTyped DEF Count
  <2>2. AfterCount(d) \in {"return", "quarantine", "project", "push"}
    BY <1>9 DEF Count, AfterCount, AfterRecord
  <2>3. QED
    BY <1>9, <2>1, <2>2 DEF Count, TypeOK, effects
<1>10. ASSUME NEW d \in Delivery, CountTwice(d) PROVE TypeOK'
  BY <1>10, AddTyped, ConstantsAssumption DEF CountTwice, TypeOK, effects, ConstantsAssumption
<1>11. ASSUME NEW d \in Delivery, Project(d) PROVE TypeOK'
  BY <1>11 DEF Project, TypeOK, effects
<1>12. ASSUME NEW d \in Delivery, Push(d) PROVE TypeOK'
  BY <1>12 DEF Push, TypeOK, items
<1>13. ASSUME NEW d \in Delivery, Quarantine(d) PROVE TypeOK'
  BY <1>13 DEF Quarantine, TypeOK, items
<1>14. ASSUME NEW c \in Polled, Poll(c) PROVE TypeOK'
  <2>1. ASSUME NEW t PROVE CommandState(projection[c], t) \in PublicStates
    BY JobFacts, ConstantsAssumption DEF TypeOK, Projected, CommandState, PublicStates, ConstantsAssumption
  <2>2. QED
    BY <1>14, <2>1 DEF Poll, TypeOK, items, effects
<1>15. CASE Tick
  BY <1>15 DEF Tick, TypeOK, items, effects
<1>16. CASE UNCHANGED vars
  BY <1>16 DEF vars, items, effects, TypeOK
<1>17. QED
  BY <1>1, <1>2, <1>3, <1>4, <1>5, <1>6, <1>7, <1>8, <1>9, <1>10, <1>11, <1>12, <1>13, <1>14,
     <1>15, <1>16 DEF Next, Execute, Record

-----------------------------------------------------------------------------
(* What deliveries do fits their messages.                                 *)

\* d goes to w, which fits its message.
LEMMA GotoFits ==
  ASSUME Fitting, TypeOK, NEW d \in Delivery, NEW w, Goto(d, w), job' = job,
         w \in {"state", "health"} => job[d].body.category = "health" /\ ~Malformed(job[d]),
         w \in {"detail", "duplicate", "dropped", "project", "push"}
           => job[d].body.category \in {"events", "responses"} /\ ~Malformed(job[d]),
         w = "project" => job[d].body.category = "responses",
         w = "push" => job[d].body.ring,
         w \in {"invalid", "quarantine"} => Malformed(job[d])
  PROVE  Fitting'
<1> SUFFICES ASSUME NEW e \in Delivery PROVE
       /\ pc'[e] \in {"state", "health"} => job[e].body.category = "health" /\ ~Malformed(job[e])
       /\ pc'[e] \in {"detail", "duplicate", "dropped", "project", "push"}
            => job[e].body.category \in {"events", "responses"} /\ ~Malformed(job[e])
       /\ pc'[e] = "project" => job[e].body.category = "responses"
       /\ pc'[e] = "push" => job[e].body.ring
       /\ pc'[e] \in {"invalid", "quarantine"} => Malformed(job[e])
  BY DEF Fitting
<1>1. CASE e = d
  BY <1>1 DEF Goto, TypeOK
<1>2. CASE e # d
  <2>1. pc'[e] = pc[e]
    BY <1>2 DEF Goto, TypeOK
  <2>2. QED
    BY <2>1 DEF Fitting
<1>3. QED
  BY <1>1, <1>2

\* A delivery that is given its message is queued.
LEMMA QueuedFits ==
  ASSUME Fitting, TypeOK, NEW d \in Delivery, NEW j, Goto(d, "queued"),
         job' = [job EXCEPT ![d] = j]
  PROVE  Fitting'
<1> SUFFICES ASSUME NEW e \in Delivery PROVE
       /\ pc'[e] \in {"state", "health"} => job'[e].body.category = "health" /\ ~Malformed(job'[e])
       /\ pc'[e] \in {"detail", "duplicate", "dropped", "project", "push"}
            => job'[e].body.category \in {"events", "responses"} /\ ~Malformed(job'[e])
       /\ pc'[e] = "project" => job'[e].body.category = "responses"
       /\ pc'[e] = "push" => job'[e].body.ring
       /\ pc'[e] \in {"invalid", "quarantine"} => Malformed(job'[e])
  BY DEF Fitting
<1>1. CASE e = d
  BY <1>1 DEF Goto, TypeOK
<1>2. CASE e # d
  <2>1. pc'[e] = pc[e] /\ job'[e] = job[e]
    BY <1>2 DEF Goto, TypeOK
  <2>2. QED
    BY <2>1 DEF Fitting
<1>3. QED
  BY <1>1, <1>2

LEMMA NextFitting == IngestionInv /\ [Next]_vars => Fitting'
<1> SUFFICES ASSUME TypeOK, Fitting, [Next]_vars PROVE Fitting'
  BY DEF IngestionInv
<1> USE DEF Running, Counting
<1> \A d \in Delivery : pc[d] # "idle" => job[d] \in Job
  BY DEF TypeOK
<1>1. ASSUME NEW d \in Delivery, Publish(d) PROVE Fitting'
  <2>1. PICK m \in Message : job' = [job EXCEPT ![d] = [body |-> m, received |-> clock]]
    BY <1>1 DEF Publish
  <2>2. QED
    BY <1>1, <2>1, QueuedFits DEF Publish
<1>2. ASSUME NEW d \in Delivery, NEW e \in Delivery, Redeliver(d, e) PROVE Fitting'
  BY <1>2, QueuedFits DEF Redeliver
<1>3. ASSUME NEW d \in Delivery, Start(d) PROVE Fitting'
  <2>1. job[d].body.category \in {"events", "health", "responses"}
    BY <1>3, JobFacts DEF Start
  <2>2. \/ FirstCall(job[d]) = "state" /\ ~Malformed(job[d]) /\ job[d].body.category = "health"
        \/ FirstCall(job[d]) = "detail" /\ ~Malformed(job[d]) /\ job[d].body.category # "health"
        \/ FirstCall(job[d]) \in {"invalid", "quarantine"} /\ Malformed(job[d])
    BY DEF FirstCall
  <2>3. QED
    BY <1>3, <2>1, <2>2, GotoFits DEF Start
<1>4. ASSUME NEW d \in Delivery, Fail(d) PROVE Fitting'
  BY <1>4, GotoFits DEF Fail
<1>5. ASSUME NEW d \in Delivery, Return(d) \/ Project(d) \/ Push(d) \/ Quarantine(d) PROVE Fitting'
  BY <1>5, GotoFits DEF Return, Project, Push, Quarantine
<1>6. ASSUME NEW d \in Delivery, UpdateState(d) \/ DetailRefused(d) PROVE Fitting'
  BY <1>6, GotoFits DEF UpdateState, DetailRefused, Fitting
<1>7. ASSUME NEW d \in Delivery, RecordDetail(d) PROVE Fitting'
  BY <1>7, GotoFits DEF RecordDetail, AfterRecord, Fitting
<1>8. ASSUME NEW d \in Delivery, Count(d) PROVE Fitting'
  BY <1>8, GotoFits DEF Count, AfterCount, AfterRecord, Fitting
<1>9. ASSUME NEW d \in Delivery, CountTwice(d) PROVE Fitting'
  BY <1>9 DEF CountTwice, Fitting
<1>10. ASSUME NEW c \in Polled, Poll(c) PROVE Fitting'
  BY <1>10 DEF Poll, Fitting
<1>11. CASE Tick
  BY <1>11 DEF Tick, Fitting
<1>12. CASE UNCHANGED vars
  BY <1>12 DEF vars, Fitting
<1>13. QED
  BY <1>1, <1>2, <1>3, <1>4, <1>5, <1>6, <1>7, <1>8, <1>9, <1>10, <1>11, <1>12
     DEF Next, Execute, Record

-----------------------------------------------------------------------------
(* Nothing happens before a delivery is given to Lambda.                   *)

LEMMA NextPaced == IngestionInv /\ [Next]_vars => Paced'
<1> SUFFICES ASSUME TypeOK, Paced, [Next]_vars PROVE Paced'
  BY DEF IngestionInv
<1> USE DEF Running, Counting, Goto, TypeOK, Paced, Attempted, effects
<1> MaxTries \in Nat \ {0}
  BY ConstantsAssumption DEF ConstantsAssumption
<1>1. ASSUME NEW d \in Delivery, Publish(d) \/ \E e \in Delivery : Redeliver(d, e) PROVE Paced'
  BY <1>1 DEF Publish, Redeliver
<1>2. ASSUME NEW d \in Delivery, Start(d) PROVE Paced'
  <2>1. FirstCall(job[d]) \in {"state", "detail", "invalid", "quarantine"}
    BY DEF FirstCall
  <2>2. QED
    BY <1>2, <2>1 DEF Start
<1>3. ASSUME NEW d \in Delivery, Fail(d) PROVE Paced'
  BY <1>3 DEF Fail
<1>4. ASSUME NEW d \in Delivery, Return(d) \/ Project(d) \/ UpdateState(d) \/ DetailRefused(d) PROVE Paced'
  BY <1>4 DEF Return, Project, UpdateState, DetailRefused
<1>5. ASSUME NEW d \in Delivery, RecordDetail(d) PROVE Paced'
  BY <1>5 DEF RecordDetail, AfterRecord
<1>6. ASSUME NEW d \in Delivery, Count(d) PROVE Paced'
  <2>1. AfterCount(d) \in {"return", "quarantine", "project", "push"}
    BY <1>6 DEF Count, AfterCount, AfterRecord
  <2>2. QED
    BY <1>6, <2>1 DEF Count
<1>7. ASSUME NEW d \in Delivery, CountTwice(d) PROVE Paced'
  BY <1>7 DEF CountTwice
<1>8. ASSUME NEW d \in Delivery, Push(d) \/ Quarantine(d) PROVE Paced'
  BY <1>8 DEF Push, Quarantine
<1>9. ASSUME NEW c \in Polled, Poll(c) PROVE Paced'
  BY <1>9 DEF Poll
<1>10. CASE Tick
  BY <1>10 DEF Tick
<1>11. CASE UNCHANGED vars
  BY <1>11 DEF vars
<1>12. QED
  BY <1>1, <1>2, <1>3, <1>4, <1>5, <1>6, <1>7, <1>8, <1>9, <1>10, <1>11 DEF Next, Execute, Record

-----------------------------------------------------------------------------
(* The projection of responses.                                            *)

Covers(p, j) ==
  /\ p # NoJob
  /\ ~Terminal(p) => p.received >= j.received
  /\ Terminal(p) /\ Terminal(j) => p.received >= j.received

\* The projection, whether or not j supersedes it, covers j and what it did.
LEMMA Superseding ==
  ASSUME NEW p \in Job \cup {NoJob}, NEW j \in Job,
         NEW q, q = IF Supersedes(p, j) THEN j ELSE p
  PROVE  /\ Covers(q, j)
         /\ \A i \in Job : Covers(p, i) => Covers(q, i)
         /\ Terminal(p) => Terminal(q)
<1>1. j # NoJob /\ j.received \in Nat
  BY JobFacts
<1>2. p # NoJob => p \in Job /\ p.received \in Nat
  BY JobFacts
<1>3. \A i \in Job : i.received \in Nat
  BY JobFacts
<1>4. Terminal(p) => p # NoJob
  BY DEF Terminal
<1>5. CASE Supersedes(p, j)
  BY <1>1, <1>2, <1>3, <1>4, <1>5 DEF Supersedes, Covers
<1>6. CASE ~Supersedes(p, j)
  BY <1>1, <1>2, <1>3, <1>4, <1>6 DEF Supersedes, Covers
<1>7. QED
  BY <1>5, <1>6

\* A step that does not project leaves the projections alone.
LEMMA ProjectionKept ==
  ASSUME [Next]_vars, ~\E d \in Delivery : Project(d)
  PROVE  projection' = projection
BY DEF Next, Execute, Record, Publish, Redeliver, Start, Fail, Return, UpdateState, RecordDetail,
       DetailRefused, Count, CountTwice, Push, Quarantine, Poll, Tick, vars, items

\* Only a poll tells an owner anything.
LEMMA ToldKept ==
  ASSUME [Next]_vars, ~\E c \in Polled : Poll(c)
  PROVE  told' = told
BY DEF Next, Execute, Record, Publish, Redeliver, Start, Fail, Return, UpdateState, RecordDetail,
       DetailRefused, Count, CountTwice, Project, Push, Quarantine, Tick, vars

\* Its owner is told of an outcome exactly if there is one.
LEMMA OutcomeTold ==
  ASSUME TypeOK, Projected, NEW c \in Polled, NEW t
  PROVE  CommandState(projection[c], t) \in {"COMPLETED", "REJECTED"} <=> Terminal(projection[c])
<1>1. c \in Command
  BY ConstantsAssumption DEF ConstantsAssumption
<1>2. CASE projection[c] = NoJob
  BY <1>2 DEF CommandState, Terminal
<1>3. CASE projection[c] # NoJob
  <2>1. projection[c] \in Job /\ projection[c].body.category = "responses"
    BY <1>1, <1>3 DEF TypeOK, Projected
  <2> projection[c].body.status \in {"ACCEPTED", "COMPLETED", "FAILED", "REJECTED"}
    BY <2>1, JobFacts
  <2>2. QED
    BY <1>3 DEF CommandState, Terminal
<1>4. QED
  BY <1>2, <1>3

\* The projection of the response that is projected covers it, and those of
\* the others still cover what they did.
LEMMA ProjectStep ==
  ASSUME TypeOK, Fitting, NEW d \in Delivery, Project(d)
  PROVE  /\ job[d] \in Job /\ job[d].body.category = "responses" /\ job[d].body.id \in Command
         /\ projection'[job[d].body.id] \in {projection[job[d].body.id], job[d]}
         /\ Covers(projection'[job[d].body.id], job[d])
         /\ \A c \in Command : c # job[d].body.id => projection'[c] = projection[c]
         /\ \A c \in Command : \A i \in Job : Covers(projection[c], i) => Covers(projection'[c], i)
         /\ \A c \in Command : Terminal(projection[c]) => Terminal(projection'[c])
<1>1. job[d] \in Job /\ job[d].body.category = "responses"
  BY DEF Project, TypeOK, Fitting
<1>2. job[d].body.id \in Command
  BY <1>1, JobFacts
<1>3. projection'[job[d].body.id] = IF Supersedes(projection[job[d].body.id], job[d])
                                    THEN job[d] ELSE projection[job[d].body.id]
  BY <1>2 DEF Project, TypeOK
<1>4. \A c \in Command : c # job[d].body.id => projection'[c] = projection[c]
  BY DEF Project, TypeOK
<1>5. projection[job[d].body.id] \in Job \cup {NoJob}
  BY <1>2 DEF TypeOK
<1>6. QED
  BY <1>1, <1>2, <1>3, <1>4, <1>5, Superseding

LEMMA NextProjected == IngestionInv /\ [Next]_vars => Projected'
<1> SUFFICES ASSUME TypeOK, Fitting, Projected, [Next]_vars PROVE Projected'
  BY DEF IngestionInv
<1>1. Polled \subseteq Command
  BY ConstantsAssumption DEF ConstantsAssumption
<1>2. ASSUME NEW d \in Delivery, Project(d) PROVE Projected'
  <2>1. told' = told
    BY <1>2 DEF Project
  <2>2. QED
    BY <1>1, <1>2, <2>1, ProjectStep DEF Projected
<1>3. ASSUME NEW c \in Polled, Poll(c) PROVE Projected'
  <2>1. projection' = projection
    BY <1>3 DEF Poll, items
  <2>2. told'[c] \in {"COMPLETED", "REJECTED"} => Terminal(projection[c])
    <3>1. PICK t : told' = [told EXCEPT ![c] = CommandState(projection[c], t)]
      BY <1>3 DEF Poll
    <3>2. told'[c] = CommandState(projection[c], t)
      BY <3>1 DEF TypeOK
    <3>3. QED
      BY <3>2, OutcomeTold
  <2>3. \A b \in Polled : b # c => told'[b] = told[b]
    BY <1>3 DEF Poll, TypeOK
  <2>4. QED
    BY <2>1, <2>2, <2>3 DEF Projected
<1>4. CASE (~\E d \in Delivery : Project(d)) /\ (~\E c \in Polled : Poll(c))
  BY <1>4, ProjectionKept, ToldKept DEF Projected
<1>5. QED
  BY <1>2, <1>3, <1>4

LEMMA NextTold ==
  ASSUME IngestionInv, [Next]_vars,
         NEW c \in Polled, told[c] \in {"COMPLETED", "REJECTED"}
  PROVE  told'[c] \in {"COMPLETED", "REJECTED"}
<1> USE DEF IngestionInv
<1>1. ASSUME NEW b \in Polled, Poll(b) PROVE told'[c] \in {"COMPLETED", "REJECTED"}
  <2>1. CASE b = c
    BY <1>1, <2>1, OutcomeTold DEF Poll, Projected, TypeOK
  <2>2. CASE b # c
    BY <1>1, <2>2 DEF Poll, TypeOK
  <2>3. QED
    BY <2>1, <2>2
<1>2. QED
  BY <1>1, ToldKept

\* A delivery comes to "return" or "done" with its response only by
\* projecting it.
Handled(d) == pc[d] \in {"return", "done"}

LEMMA HandledBy ==
  ASSUME TypeOK, Fitting, [Next]_vars, NEW d \in Delivery, Handled(d)', job'[d].body.category = "responses",
         ~Malformed(job'[d])
  PROVE  /\ job'[d] = job[d] /\ job[d] \in Job
         /\ Handled(d) \/ Project(d)
<1> USE DEF Handled, Goto, TypeOK
<1>1. ASSUME NEW e \in Delivery, Publish(e) \/ \E f \in Delivery : Redeliver(e, f)
      PROVE  job'[d] = job[d] /\ Handled(d)
  BY <1>1 DEF Publish, Redeliver
<1>2. ASSUME NEW e \in Delivery, Start(e) PROVE job' = job /\ Handled(d)
  <2>1. FirstCall(job[e]) \in {"state", "detail", "invalid", "quarantine"}
    BY DEF FirstCall
  <2>2. QED
    BY <1>2, <2>1 DEF Start
<1>3. ASSUME NEW e \in Delivery, Fail(e) \/ Return(e) \/ UpdateState(e) \/ DetailRefused(e)
      PROVE job' = job /\ Handled(d)
  BY <1>3 DEF Fail, Return, UpdateState, DetailRefused
<1>4. ASSUME NEW e \in Delivery, RecordDetail(e) PROVE job' = job /\ Handled(d)
  BY <1>4 DEF RecordDetail, AfterRecord
<1>5. ASSUME NEW e \in Delivery, Count(e) PROVE job' = job /\ Handled(d)
  BY <1>5 DEF Count, AfterCount, AfterRecord, Fitting, Counting
<1>6. ASSUME NEW e \in Delivery, CountTwice(e) PROVE job' = job /\ Handled(d)
  BY <1>6 DEF CountTwice
<1>7. ASSUME NEW e \in Delivery, Project(e) PROVE job' = job /\ (Handled(d) \/ Project(d))
  BY <1>7 DEF Project
<1>8. ASSUME NEW e \in Delivery, Push(e) \/ Quarantine(e) PROVE job' = job /\ Handled(d)
  <2>1. job' = job
    BY <1>8 DEF Push, Quarantine
  <2>2. CASE e = d
    <3>1. pc[d] \in {"push", "quarantine"} /\ (pc[d] = "push" => job[d].body.ring)
      BY <1>8, <2>2 DEF Push, Quarantine, Fitting
    <3>2. job[d] \in Job
      BY <3>1
    <3>3. QED
      BY <2>1, <3>1, <3>2, JobFacts DEF Fitting
  <2>3. CASE e # d
    BY <1>8, <2>3, <2>1 DEF Push, Quarantine
  <2>4. QED
    BY <2>1, <2>2, <2>3
<1>9. CASE (\E c \in Polled : Poll(c)) \/ Tick \/ UNCHANGED vars
  BY <1>9 DEF Poll, Tick, vars
<1>10. job'[d] = job[d] /\ (Handled(d) \/ Project(d))
  BY <1>1, <1>2, <1>3, <1>4, <1>5, <1>6, <1>7, <1>8, <1>9 DEF Next, Execute, Record
<1>11. QED
  BY <1>10 DEF Project

LEMMA NextCovered == IngestionInv /\ [Next]_vars => ProjectionCoversResponses'
<1> SUFFICES ASSUME TypeOK, Fitting, ProjectionCoversResponses, [Next]_vars,
                    NEW d \in Delivery, Handled(d)', job'[d].body.category = "responses",
                    ~Malformed(job'[d])
             PROVE  Covers(projection'[job'[d].body.id], job'[d])
  BY DEF IngestionInv, ProjectionCoversResponses, Covers, Handled
<1>1. job'[d] = job[d] /\ job[d] \in Job /\ (Handled(d) \/ Project(d))
  BY HandledBy
<1>2. job[d].body.id \in Command
  BY <1>1, JobFacts
<1>3. Handled(d) => Covers(projection[job[d].body.id], job[d])
  BY <1>1 DEF ProjectionCoversResponses, Covers, Handled
<1>4. ASSUME NEW e \in Delivery, Project(e)
      PROVE  Covers(projection'[job[d].body.id], job[d])
  <2>1. CASE Handled(d)
    BY <1>1, <1>2, <1>3, <1>4, <2>1, ProjectStep
  <2>2. CASE ~Handled(d)
    BY <1>1, <2>2, ProjectStep
  <2>3. QED
    BY <2>1, <2>2
<1>5. QED
  BY <1>1, <1>3, <1>4, ProjectionKept

-----------------------------------------------------------------------------
(* STATE#CURRENT.                                                          *)

LEMMA NextNewest == IngestionInv /\ [Next]_vars => StateIsNewest'
<1> SUFFICES ASSUME TypeOK, Fitting, StateIsNewest, [Next]_vars PROVE StateIsNewest'
  BY DEF IngestionInv
<1> USE DEF Running, Counting, Goto
<1> DEFINE Newest(c, j) == c # NoJob /\ c.received >= j.received
           Passed(p, j) == p \in {"health", "return", "done"} /\ j.body.category = "health" /\ ~Malformed(j)
<1>1. ASSUME NEW d \in Delivery, UpdateState(d) PROVE StateIsNewest'
  <2>1. job[d] \in Job
    BY <1>1 DEF UpdateState, TypeOK
  <2>2. /\ current \in Job \cup {NoJob}
        /\ current' = IF HealthWins(job[d]) THEN job[d] ELSE current
    BY <1>1 DEF UpdateState, TypeOK
  <2> job[d] # NoJob /\ \A j \in Job : j.received \in Nat
    BY <2>1, JobFacts
  <2> Newest(current', job[d])
    BY <2>1, <2>2 DEF HealthWins
  <2>3. \A j \in Job : Newest(current, j) => Newest(current', j)
    BY <2>1, <2>2 DEF HealthWins
  <2>4. ASSUME NEW e \in Delivery, Passed(pc'[e], job[e]) PROVE Newest(current', job[e])
    <3>1. CASE e = d
      BY <2>2, <3>1
    <3>2. CASE e # d
      <4>1. pc'[e] = pc[e]
        BY <1>1, <3>2 DEF UpdateState, TypeOK
      <4>2. job[e] \in Job
        BY <2>4, <4>1 DEF TypeOK
      <4>3. QED
        BY <2>3, <2>4, <4>1, <4>2 DEF StateIsNewest
    <3>3. QED
      BY <3>1, <3>2
  <2>5. job' = job
    BY <1>1 DEF UpdateState
  <2>6. QED
    BY <2>4, <2>5 DEF StateIsNewest
<1>2. CASE ~\E d \in Delivery : UpdateState(d)
  <2>1. current' = current
    BY <1>2 DEF Next, Execute, Record, Publish, Redeliver, Start, Fail, Return, RecordDetail,
         DetailRefused, Count, CountTwice, Project, Push, Quarantine, Poll, Tick, vars, items
  <2>2. ASSUME NEW e \in Delivery, Passed(pc'[e], job'[e])
        PROVE  Passed(pc[e], job[e]) /\ job'[e] = job[e]
    <3>1. ASSUME NEW d \in Delivery, Publish(d) \/ \E f \in Delivery : Redeliver(d, f)
          PROVE  job'[e] = job[e] /\ pc'[e] = pc[e]
      BY <2>2, <3>1 DEF Publish, Redeliver, TypeOK
    <3>2. ASSUME NEW d \in Delivery, Start(d) PROVE job' = job /\ pc'[e] = pc[e]
      <4>1. FirstCall(job[d]) \in {"state", "detail", "invalid", "quarantine"}
        BY DEF FirstCall
      <4>2. QED
        BY <2>2, <3>2, <4>1 DEF Start, TypeOK
    <3>3. ASSUME NEW d \in Delivery, Fail(d) \/ DetailRefused(d) PROVE job' = job /\ pc'[e] = pc[e]
      BY <2>2, <3>3 DEF Fail, DetailRefused, TypeOK
    <3>4. ASSUME NEW d \in Delivery, Return(d) PROVE job' = job /\ Passed(pc[e], job[e])
      BY <2>2, <3>4 DEF Return, TypeOK
    <3>5. ASSUME NEW d \in Delivery, RecordDetail(d) \/ Project(d) \/ Push(d) \/ Quarantine(d) \/ Count(d)
          PROVE  job' = job /\ Passed(pc[e], job[e])
      <4>1. job' = job
        BY <3>5 DEF RecordDetail, Project, Push, Quarantine, Count
      <4>2. CASE e # d
        BY <2>2, <3>5, <4>1, <4>2 DEF RecordDetail, Project, Push, Quarantine, Count, TypeOK
      <4>3. CASE e = d
        <5>1. pc[d] \in {"health", "detail", "project", "push", "quarantine", "invalid", "duplicate", "dropped"}
          BY <3>5 DEF RecordDetail, Project, Push, Quarantine, Count
        <5>2. pc[d] = "health"
          BY <2>2, <4>1, <4>3, <5>1 DEF Fitting
        <5>3. QED
          BY <2>2, <4>1, <4>3, <5>2
      <4>4. QED
        BY <4>1, <4>2, <4>3
    <3>6. ASSUME NEW d \in Delivery, CountTwice(d) PROVE job' = job /\ pc' = pc
      BY <3>6 DEF CountTwice
    <3>7. CASE (\E c \in Polled : Poll(c)) \/ Tick \/ UNCHANGED vars
      BY <3>7, <2>2 DEF Poll, Tick, vars
    <3>8. QED
      BY <1>2, <2>2, <3>1, <3>2, <3>3, <3>4, <3>5, <3>6, <3>7 DEF Next, Execute, Record
  <2>3. QED
    BY <2>1, <2>2 DEF StateIsNewest
<1>3. QED
  BY <1>1, <1>2

-----------------------------------------------------------------------------
(* The counters and details of an hour.                                    *)

\* The counters are added to, each by one.
LEMMA Added ==
  ASSUME TypeOK, NEW j \in Job, NEW cs, Add(j, cs), NEW h \in Hours, NEW c \in Counter
  PROVE  metric'[h][c] = IF h = Hour(j.received) /\ c \in cs THEN metric[h][c] + 1 ELSE metric[h][c]
BY HourOfJob DEF TypeOK, Add

LEMMA MetricKept ==
  ASSUME [Next]_vars, ~\E d \in Delivery : RecordDetail(d) \/ Count(d) \/ CountTwice(d)
  PROVE  metric' = metric /\ details' = details
BY DEF Next, Execute, Record, Publish, Redeliver, Start, Fail, Return, UpdateState,
       DetailRefused, Project, Push, Quarantine, Poll, Tick, vars, items

\* What a delivery that counts adds to.
LEMMA CountersAdded ==
  ASSUME TypeOK, Fitting, NEW d \in Delivery, pc[d] \in Counting
  PROVE  \/ Counters(d) \in {{"health"}, {"invalid"}, {"duplicate"}}
         \/ Counters(d) \in {{"events", "dropped"}, {"responses", "dropped"}}
BY DEF Counters, Counting, Fitting

LEMMA NextAgreeing == IngestionInv /\ [Next]_vars => CountersAgree'
<1> SUFFICES ASSUME TypeOK, Fitting, CountersAgree, [Next]_vars, NEW h \in Hours
             PROVE metric'[h]["events"] + metric'[h]["responses"]
                     = metric'[h]["detailed"] + metric'[h]["dropped"]
  BY DEF IngestionInv, CountersAgree
<1> \A c \in Counter : metric[h][c] \in Nat
  BY DEF TypeOK
<1>1. metric[h]["events"] + metric[h]["responses"] = metric[h]["detailed"] + metric[h]["dropped"]
  BY DEF CountersAgree
<1>2. ASSUME NEW d \in Delivery, RecordDetail(d)
      PROVE  metric'[h]["events"] + metric'[h]["responses"] = metric'[h]["detailed"] + metric'[h]["dropped"]
  <2>1. job[d] \in Job /\ job[d].body.category \in {"events", "responses"}
    BY <1>2 DEF RecordDetail, TypeOK, Fitting
  <2>2. Add(job[d], {job[d].body.category, "detailed"})
    BY <1>2 DEF RecordDetail
  <2>3. QED
    BY <1>1, <2>1, <2>2, Added DEF Counter
<1>3. ASSUME NEW d \in Delivery, Count(d) \/ CountTwice(d)
      PROVE  metric'[h]["events"] + metric'[h]["responses"] = metric'[h]["detailed"] + metric'[h]["dropped"]
  <2>1. job[d] \in Job /\ pc[d] \in Counting
    BY <1>3 DEF Count, CountTwice, TypeOK, Counting
  <2>2. Add(job[d], Counters(d))
    BY <1>3 DEF Count, CountTwice
  <2>3. \A c \in Counter : metric'[h][c] = IF h = Hour(job[d].received) /\ c \in Counters(d)
                                             THEN metric[h][c] + 1 ELSE metric[h][c]
    BY <2>1, <2>2, Added
  <2>4. QED
    BY <1>1, <2>1, <2>3, CountersAdded DEF Counter
<1>4. QED
  BY <1>1, <1>2, <1>3, MetricKept

LEMMA NextReserved == IngestionInv /\ [Next]_vars => Reserved'
<1> SUFFICES ASSUME TypeOK, Fitting, Reserved, [Next]_vars PROVE Reserved'
  BY DEF IngestionInv
<1> USE DEF Reserved
<1>1. ASSUME NEW d \in Delivery, RecordDetail(d) PROVE Reserved'
  <2>1. job[d] \in Job /\ job[d].body.category \in {"events", "responses"}
    BY <1>1 DEF RecordDetail, TypeOK, Fitting
  <2>2. job[d] \notin details /\ details' = details \cup {job[d]}
    BY <1>1 DEF RecordDetail, Stored
  <2>3. IsFiniteSet(details')
    BY <2>2, FS_AddElement
  <2>4. Add(job[d], {job[d].body.category, "detailed"}) /\ MayDetail(job[d])
    BY <1>1 DEF RecordDetail
  <2>5. ASSUME NEW h \in Hours
        PROVE  /\ Cardinality(DetailsOf(h)') = metric'[h]["detailed"]
               /\ Cardinality(DetailsOf(h)') <= DetailLimit
    <3>1. IsFiniteSet(DetailsOf(h)) /\ job[d] \notin DetailsOf(h)
      BY <2>2, FS_Subset DEF DetailsOf
    <3>2. Cardinality(DetailsOf(h)) = metric[h]["detailed"] /\ Cardinality(DetailsOf(h)) <= DetailLimit
      BY DEF DetailsReserved
    <3>3. metric[h]["detailed"] \in Nat
      BY DEF TypeOK, Counter
    <3>4. CASE h = Hour(job[d].received)
      <4>1. DetailsOf(h)' = DetailsOf(h) \cup {job[d]}
        BY <2>2, <3>4 DEF DetailsOf
      <4>2. Cardinality(DetailsOf(h)') = Cardinality(DetailsOf(h)) + 1
        BY <3>1, <4>1, FS_AddElement
      <4>3. metric'[h]["detailed"] = metric[h]["detailed"] + 1
        BY <2>1, <2>4, <3>4, Added DEF Counter
      <4>4. metric[h]["detailed"] < DetailLimit /\ DetailLimit \in Nat
        BY <2>4, <3>4, ConstantsAssumption DEF MayDetail, ConstantsAssumption
      <4>5. QED
        BY <3>2, <3>3, <4>2, <4>3, <4>4
    <3>5. CASE h # Hour(job[d].received)
      <4>1. DetailsOf(h)' = DetailsOf(h)
        BY <2>2, <3>5 DEF DetailsOf
      <4>2. metric'[h]["detailed"] = metric[h]["detailed"]
        BY <2>1, <2>4, <3>5, Added DEF Counter
      <4>3. QED
        BY <3>2, <4>1, <4>2
    <3>6. QED
      BY <3>4, <3>5
  <2>6. QED
    BY <2>3, <2>5 DEF DetailsReserved
<1>2. ASSUME NEW d \in Delivery, Count(d) \/ CountTwice(d) PROVE Reserved'
  <2>1. job[d] \in Job /\ pc[d] \in Counting
    BY <1>2 DEF Count, CountTwice, TypeOK, Counting
  <2>2. Add(job[d], Counters(d)) /\ details' = details
    BY <1>2 DEF Count, CountTwice
  <2>3. "detailed" \notin Counters(d)
    BY <2>1, CountersAdded
  <2>4. \A h \in Hours : metric'[h]["detailed"] = metric[h]["detailed"]
    BY <2>1, <2>2, <2>3, Added DEF Counter
  <2>5. QED
    BY <2>2, <2>4 DEF DetailsReserved, DetailsOf
<1>3. CASE metric' = metric /\ details' = details
  BY <1>3 DEF DetailsReserved, DetailsOf
<1>4. QED
  BY <1>1, <1>2, <1>3, MetricKept

-----------------------------------------------------------------------------
(* What is pushed has been recorded.                                       *)

\* No detail is taken back, nor the count of what was dropped.
LEMMA RecordsStay ==
  ASSUME TypeOK, Fitting, [Next]_vars, NEW j \in Job
  PROVE  (Stored(j) => Stored(j)') /\ (RecordOf(j) => RecordOf(j)')
<1> Hour(j.received) \in Hours
  BY HourOfJob
<1> metric[Hour(j.received)]["dropped"] \in Nat
  BY DEF TypeOK, Counter
<1>1. CASE metric' = metric /\ details' = details
  BY <1>1 DEF Stored, RecordOf
<1>2. ASSUME NEW d \in Delivery, RecordDetail(d)
      PROVE  (Stored(j) => Stored(j)') /\ (RecordOf(j) => RecordOf(j)')
  <2>1. Stored(j) => Stored(j)'
    BY <1>2 DEF RecordDetail, Stored
  <2>2. job[d] \in Job /\ Add(job[d], {job[d].body.category, "detailed"})
    BY <1>2 DEF RecordDetail, TypeOK
  <2>3. metric[Hour(j.received)]["dropped"] > 0 => metric'[Hour(j.received)]["dropped"] > 0
    BY <2>2, Added DEF Counter
  <2>4. QED
    BY <2>1, <2>3 DEF RecordOf
<1>3. ASSUME NEW d \in Delivery, Count(d) \/ CountTwice(d)
      PROVE  (Stored(j) => Stored(j)') /\ (RecordOf(j) => RecordOf(j)')
  <2>1. job[d] \in Job /\ Add(job[d], Counters(d)) /\ details' = details
    BY <1>3 DEF Count, CountTwice, Counting, TypeOK
  <2>2. metric[Hour(j.received)]["dropped"] > 0 => metric'[Hour(j.received)]["dropped"] > 0
    BY <2>1, Added DEF Counter
  <2>3. QED
    BY <2>1, <2>2 DEF Stored, RecordOf
<1>4. QED
  BY <1>1, <1>2, <1>3, MetricKept

Moves(d) == Publish(d) \/ Execute(d) \/ Fail(d) \/ \E e \in Delivery : Redeliver(d, e)

LEMMA OthersStay ==
  ASSUME TypeOK, [Next]_vars, NEW d \in Delivery, ~Moves(d)
  PROVE  pc'[d] = pc[d] /\ job'[d] = job[d] /\ (Attempted(d)' <=> Attempted(d))
<1> USE DEF Moves, Execute, Record, Goto, TypeOK, Attempted
<1>1. ASSUME NEW e \in Delivery, Publish(e) \/ Fail(e) \/ Start(e) \/ \E f \in Delivery : Redeliver(e, f)
      PROVE  pc'[d] = pc[d] /\ job'[d] = job[d] /\ (Attempted(d)' <=> Attempted(d))
  BY <1>1 DEF Publish, Fail, Start, Redeliver, effects
<1>2. ASSUME NEW e \in Delivery, Record(e)
      PROVE  pc'[d] = pc[d] /\ job' = job /\ (Attempted(d)' <=> Attempted(d))
  BY <1>2 DEF UpdateState, RecordDetail, DetailRefused, Count, Project, effects
<1>3. ASSUME NEW e \in Delivery, Push(e) \/ Quarantine(e) \/ Return(e)
      PROVE  pc'[d] = pc[d] /\ job' = job /\ (Attempted(d)' <=> Attempted(d))
  BY <1>3 DEF Push, Quarantine, Return, effects
<1>4. CASE \/ \E e \in Delivery : CountTwice(e)
           \/ (\E c \in Polled : Poll(c)) \/ Tick \/ UNCHANGED vars
  BY <1>4 DEF CountTwice, Poll, Tick, vars, effects
<1>5. QED
  BY <1>1, <1>2, <1>3, <1>4 DEF Next

LEMMA NextPushing == IngestionInv /\ [Next]_vars => Pushing'
<1> SUFFICES ASSUME IngestionInv, [Next]_vars, NEW d \in Delivery
             PROVE  /\ pc'[d] = "duplicate" => Stored(job[d])'
                    /\ pc'[d] = "push" \/ Attempted(d)' => RecordOf(job[d])'
                    /\ pc'[d] \in {"return", "done"} /\ job'[d].body.ring /\ ~Malformed(job'[d]) /\ PushConfigured
                         => Attempted(d)'
  BY DEF Pushing, Recorded, RecordOf, Stored, DetailKey, Occurred
<1> DEFINE Goal == /\ pc'[d] = "duplicate" => Stored(job[d])'
                   /\ pc'[d] = "push" \/ Attempted(d)' => RecordOf(job[d])'
                   /\ pc'[d] \in {"return", "done"} /\ job'[d].body.ring /\ ~Malformed(job'[d]) /\ PushConfigured
                        => Attempted(d)'
<1> USE DEF IngestionInv
<1>1. (pc[d] = "idle" => ~Attempted(d)) /\ (pc[d] # "idle" => job[d] \in Job)
  BY ConstantsAssumption DEF TypeOK, Paced, ConstantsAssumption
<1>2. /\ pc[d] = "duplicate" => Stored(job[d])
      /\ pc[d] = "push" \/ Attempted(d) => RecordOf(job[d])
      /\ pc[d] \in {"return", "done"} /\ job[d].body.ring /\ ~Malformed(job[d]) /\ PushConfigured => Attempted(d)
  BY DEF Pushing, Recorded, RecordOf
<1>3. ASSUME job'[d] = job[d], pc[d] # "idle"
      PROVE  (Stored(job[d]) => Stored(job[d])') /\ (RecordOf(job[d]) => RecordOf(job[d])')
  <2>1. \A j \in Job : (Stored(j) => Stored(j)') /\ (RecordOf(j) => RecordOf(j)')
    BY RecordsStay
  <2>2. QED
    BY <1>1, <1>3, <2>1 DEF Stored, RecordOf
<1>4. CASE ~Moves(d)
  <2>1. pc'[d] = pc[d] /\ job'[d] = job[d] /\ (Attempted(d)' <=> Attempted(d))
    BY <1>4, OthersStay
  <2>2. CASE pc[d] = "idle"
    BY <1>1, <2>1, <2>2
  <2>3. CASE pc[d] # "idle"
    BY <1>2, <1>3, <2>1, <2>3
  <2>4. QED
    BY <2>2, <2>3
<1>5. CASE Publish(d) \/ \E e \in Delivery : Redeliver(d, e)
  <2>1. pc[d] = "idle" /\ pc'[d] = "queued" /\ (Attempted(d)' <=> Attempted(d))
    BY <1>5 DEF Publish, Redeliver, Goto, TypeOK, effects, Attempted
  <2>2. QED
    BY <1>1, <2>1
\* To the end of an execution: what was to be pushed is recorded.
<1>6. CASE Start(d) \/ Fail(d)
  <2>1. pc[d] # "idle" /\ job'[d] = job[d] /\ (Attempted(d)' <=> Attempted(d))
    BY <1>6 DEF Start, Fail, Running, Counting, effects, Attempted
  <2>2. pc'[d] \in {"state", "detail", "invalid", "quarantine", "queued", "dlq"}
    BY <1>6 DEF Start, Fail, FirstCall, Goto, TypeOK
  <2>3. QED
    BY <1>2, <1>3, <2>1, <2>2
<1>7. CASE Return(d) \/ UpdateState(d) \/ Project(d) \/ Quarantine(d)
  <2>1. pc[d] # "idle" /\ job'[d] = job[d] /\ (Attempted(d)' <=> Attempted(d))
    BY <1>7 DEF Return, UpdateState, Project, Quarantine, effects, Attempted
  <2>2. \/ pc[d] = "return" /\ pc'[d] = "done"
        \/ pc[d] = "state" /\ pc'[d] = "health"
        \/ pc[d] \in {"project", "quarantine"} /\ pc'[d] = "return"
    BY <1>7 DEF Return, UpdateState, Project, Quarantine, Goto, TypeOK
  <2>3. pc[d] = "project" => ~job[d].body.ring
    BY <1>1, JobFacts DEF Fitting
  <2>4. pc[d] = "quarantine" => Malformed(job[d])
    BY DEF Fitting
  <2>5. QED
    BY <1>2, <1>3, <2>1, <2>2, <2>3, <2>4
<1>8. CASE RecordDetail(d) \/ DetailRefused(d)
  <2>1. pc[d] = "detail" /\ job'[d] = job[d] /\ (Attempted(d)' <=> Attempted(d))
    BY <1>8 DEF RecordDetail, DetailRefused, effects, Attempted
  <2>2. CASE RecordDetail(d)
    <3>1. RecordOf(job[d])'
      BY <2>1, <2>2 DEF RecordDetail, RecordOf, Stored
    <3>2. pc'[d] = AfterRecord(d)
      BY <2>2 DEF RecordDetail, Goto, TypeOK
    <3>3. pc'[d] \in {"project", "push"} \/ (pc'[d] = "return" /\ ~job[d].body.ring)
      BY <3>2 DEF AfterRecord
    <3>4. QED
      BY <2>1, <3>1, <3>3
  <2>3. CASE DetailRefused(d)
    <3>1. pc'[d] \in {"duplicate", "dropped"} /\ (pc'[d] = "duplicate" => Stored(job[d]))
      BY <2>3 DEF DetailRefused, Goto, TypeOK
    <3>2. QED
      BY <1>2, <1>3, <2>1, <3>1
  <2>4. QED
    BY <1>8, <2>2, <2>3
<1>9. CASE Count(d)
  <2>1. /\ pc[d] \in Counting /\ job'[d] = job[d] /\ (Attempted(d)' <=> Attempted(d))
        /\ pc'[d] = AfterCount(d) /\ Add(job[d], Counters(d))
    BY <1>9 DEF Count, Goto, TypeOK, effects, Attempted
  <2>2. job[d] \in Job
    BY <1>1, <2>1 DEF Counting
  <2>3. CASE pc[d] = "health"
    <3>1. ~job[d].body.ring /\ pc'[d] = "return"
      BY <2>1, <2>2, <2>3, JobFacts DEF Fitting, AfterCount
    <3>2. QED
      BY <1>2, <1>3, <2>1, <2>3, <3>1
  <2>4. CASE pc[d] = "invalid"
    BY <1>2, <1>3, <2>1, <2>4 DEF AfterCount
  <2>5. CASE pc[d] \in {"duplicate", "dropped"}
    <3>1. pc'[d] \in {"project", "push"} \/ (pc'[d] = "return" /\ ~job[d].body.ring)
      BY <2>1, <2>5 DEF AfterCount, AfterRecord
    <3>2. pc[d] = "duplicate" => RecordOf(job[d])
      BY <1>2 DEF RecordOf
    <3>3. pc[d] = "dropped" => RecordOf(job[d])'
      <4>1. SUFFICES ASSUME pc[d] = "dropped"
                     PROVE  metric'[Hour(job[d].received)]["dropped"] > 0
        BY <2>1 DEF RecordOf
      <4>2. Hour(job[d].received) \in Hours
        BY <2>2, HourOfJob
      <4>3. metric[Hour(job[d].received)]["dropped"] \in Nat
        BY <4>2 DEF TypeOK, Counter
      <4>4. QED
        BY <2>1, <2>2, <4>1, <4>2, <4>3, Added DEF Counters, Counter
    <3>4. QED
      BY <1>2, <1>3, <2>1, <2>5, <3>1, <3>2, <3>3
  <2>6. QED
    BY <2>1, <2>3, <2>4, <2>5 DEF Counting
<1>10. CASE Push(d)
  <2>1. pc[d] = "push" /\ pc'[d] = "return" /\ job'[d] = job[d] /\ (PushConfigured => Attempted(d)')
    BY <1>10 DEF Push, Goto, TypeOK, Attempted
  <2>2. QED
    BY <1>1, <1>2, <1>3, <2>1
<1>11. QED
  BY <1>4, <1>5, <1>6, <1>7, <1>8, <1>9, <1>10 DEF Moves, Execute, Record

-----------------------------------------------------------------------------
(* The theorems.                                                           *)

LEMMA InitInv == Init => IngestionInv
<1> SUFFICES ASSUME Init PROVE IngestionInv
  OBVIOUS
<1>1. TypeOK
  BY InitTypeOK
<1>2. Fitting /\ Paced /\ Projected /\ Pushing
  BY ConstantsAssumption DEF Init, Fitting, Paced, Projected, Pushing, Running, Counting, Attempted,
     ConstantsAssumption
<1>3. Reserved
  <2>1. IsFiniteSet({}) /\ Cardinality({}) = 0
    BY FS_EmptySet
  <2>2. \A h \in Hours : DetailsOf(h) = {}
    BY DEF Init, DetailsOf
  <2>3. \A h \in Hours : metric[h]["detailed"] = 0
    BY DEF Init, Counter
  <2>4. DetailLimit \in Nat /\ details = {}
    BY ConstantsAssumption DEF Init, ConstantsAssumption
  <2>5. QED
    BY <2>1, <2>2, <2>3, <2>4 DEF Reserved, DetailsReserved
<1>4. CountersAgree /\ StateIsNewest /\ ProjectionCoversResponses
  BY DEF Init, CountersAgree, StateIsNewest, ProjectionCoversResponses, Counter
<1>5. QED
  BY <1>1, <1>2, <1>3, <1>4 DEF IngestionInv

LEMMA NextInv == IngestionInv /\ [Next]_vars => IngestionInv'
BY NextTypeOK, NextFitting, NextPaced, NextProjected, NextPushing, NextReserved, NextAgreeing,
   NextNewest, NextCovered DEF IngestionInv

\* In every state of the ingestion the invariant the other theorems rest on
\* holds: where each delivery is, what it has done and what the table holds
\* fit (TelemetryStore.record and lambda_handler).
THEOREM IngestionInvariant == Spec => []IngestionInv
BY InitInv, NextInv, PTL DEF Spec

\* The table, the deliveries and the effects keep their types whatever is
\* published, retried or lost.
THEOREM TypeCorrect == Spec => []TypeOK
<1>1. IngestionInv => TypeOK
  BY DEF IngestionInv
<1>2. QED
  BY <1>1, IngestionInvariant, PTL

\* No hour ever holds more than DETAIL_LIMIT details, and each has taken one
\* place (the transaction of TelemetryStore.record).
THEOREM AlwaysReserved == Spec => []DetailsReserved
<1>1. IngestionInv => DetailsReserved
  BY DEF IngestionInv, Reserved
<1>2. QED
  BY <1>1, IngestionInvariant, PTL

\* In every hour the categories count each detail and each drop once.
THEOREM AlwaysAgreeing == Spec => []CountersAgree
<1>1. IngestionInv => CountersAgree
  BY DEF IngestionInv
<1>2. QED
  BY <1>1, IngestionInvariant, PTL

\* No health message that has been processed is newer than STATE#CURRENT.
THEOREM AlwaysNewest == Spec => []StateIsNewest
<1>1. IngestionInv => StateIsNewest
  BY DEF IngestionInv
<1>2. QED
  BY <1>1, IngestionInvariant, PTL

\* Every response that has been handled is projected or superseded, in
\* whatever order and however often they are handled (_project_response).
THEOREM AlwaysCovered == Spec => []ProjectionCoversResponses
<1>1. IngestionInv => ProjectionCoversResponses
  BY DEF IngestionInv
<1>2. QED
  BY <1>1, IngestionInvariant, PTL

\* What an owner is told of a command that is over is never taken back
\* (get_command).
THEOREM OutcomesStand == Spec => ToldOutcomeStands
<1>1. IngestionInv /\ [Next]_vars
        => [\A c \in Polled : told[c] \in {"COMPLETED", "REJECTED"}
                                => told'[c] \in {"COMPLETED", "REJECTED"}]_told
  BY NextTold
<1>2. QED
  BY <1>1, IngestionInvariant, PTL DEF Spec, ToldOutcomeStands

-----------------------------------------------------------------------------
(* How a delivery moves.                                                   *)

Rests(d)  == pc'[d] = pc[d] /\ job'[d] = job[d] /\ tries'[d] = tries[d] /\ (d \in quarantined' <=> d \in quarantined)
Given(d)  == pc[d] = "idle" /\ pc'[d] = "queued" /\ tries'[d] = tries[d]
Begins(d) == /\ pc[d] = "queued" /\ pc'[d] \in {"state", "detail", "invalid", "quarantine"}
             /\ tries'[d] = tries[d] + 1
             /\ pc'[d] = "quarantine" => job[d].body.form = "unknown device"
Falls(d)  == /\ pc[d] \in Running /\ pc'[d] \in {"queued", "dlq"} /\ tries'[d] = tries[d]
             /\ pc'[d] = "dlq" => tries[d] = MaxTries
Goes(d, from, to) == pc[d] \in from /\ pc'[d] \in to /\ tries'[d] = tries[d]

LEMMA Steps ==
  ASSUME IngestionInv, [Next]_vars, NEW d \in Delivery
  PROVE  \/ Rests(d)
         \/ Given(d)
         \/ job'[d] = job[d] /\ (d \in quarantined => d \in quarantined')
              /\ \/ Begins(d)
                 \/ Falls(d)
                 \/ Goes(d, {"state"}, {"health"})
                 \/ RecordDetail(d) /\ Goes(d, {"detail"}, {"project", "push", "return"})
                 \/ DetailRefused(d) /\ Goes(d, {"detail"}, {"duplicate", "dropped"})
                 \/ Count(d) /\ Goes(d, {"health"}, {"return"})
                 \/ Count(d) /\ Goes(d, {"invalid"}, {"quarantine"})
                 \/ Count(d) /\ Goes(d, {"duplicate", "dropped"}, {"project", "push", "return"})
                 \/ Goes(d, {"project", "push"}, {"return"})
                 \/ Goes(d, {"quarantine"}, {"return"}) /\ d \in quarantined'
                 \/ Goes(d, {"return"}, {"done"})
<1> USE DEF Goto, Goes
<1>1. /\ TypeOK /\ tries[d] \in 0..MaxTries /\ MaxTries \in Nat
      /\ pc \in [Delivery -> Running \cup {"idle", "queued", "done", "dlq"}]
      /\ tries \in [Delivery -> 0..MaxTries]
  BY ConstantsAssumption DEF IngestionInv, TypeOK, ConstantsAssumption
<1>2. CASE ~Moves(d)
  <2>1. pc'[d] = pc[d] /\ job'[d] = job[d]
    BY <1>1, <1>2, OthersStay
  <2>2. tries'[d] = tries[d] /\ (d \in quarantined' <=> d \in quarantined)
    <3>1. ASSUME NEW e \in Delivery, Publish(e) \/ Fail(e) \/ Start(e) \/ \E f \in Delivery : Redeliver(e, f)
          PROVE  tries'[d] = tries[d] /\ (d \in quarantined' <=> d \in quarantined)
      BY <1>1, <1>2, <3>1 DEF Publish, Fail, Start, Redeliver, Moves, Execute, effects
    <3>2. ASSUME NEW e \in Delivery, Record(e) \/ CountTwice(e) \/ Push(e) \/ Return(e)
          PROVE  tries' = tries /\ quarantined' = quarantined
      BY <3>2 DEF Record, UpdateState, RecordDetail, DetailRefused, Count, CountTwice, Project, Push, Return,
         effects
    <3>3. ASSUME NEW e \in Delivery, Quarantine(e)
          PROVE  tries' = tries /\ (d \in quarantined' <=> d \in quarantined)
      BY <1>1, <1>2, <3>3 DEF Quarantine, Moves, Execute
    <3>4. CASE (\E c \in Polled : Poll(c)) \/ Tick \/ UNCHANGED vars
      BY <3>4 DEF Poll, Tick, vars, effects
    <3>5. QED
      BY <3>1, <3>2, <3>3, <3>4 DEF Next, Execute
  <2>3. QED
    BY <2>1, <2>2 DEF Rests
<1>3. CASE Publish(d) \/ \E e \in Delivery : Redeliver(d, e)
  BY <1>1, <1>3 DEF Publish, Redeliver, Given
<1>4. CASE Start(d)
  <2>1. /\ FirstCall(job[d]) \in {"state", "detail", "invalid", "quarantine"}
        /\ FirstCall(job[d]) = "quarantine" => job[d].body.form = "unknown device"
    BY DEF FirstCall
  <2>2. /\ pc[d] = "queued" /\ pc'[d] = FirstCall(job[d]) /\ tries'[d] = tries[d] + 1
        /\ job' = job /\ quarantined' = quarantined
    BY <1>1, <1>4 DEF Start, effects
  <2>3. Begins(d)
    <3>1. pc'[d] \in {"state", "detail", "invalid", "quarantine"}
      BY <2>1, <2>2
    <3>2. pc'[d] = "quarantine" => job[d].body.form = "unknown device"
      BY <2>1, <2>2
    <3>3. QED
      BY <2>2, <3>1, <3>2 DEF Begins
  <2>4. QED
    BY <1>1, <2>2, <2>3
<1>5. CASE Fail(d)
  BY <1>1, <1>5 DEF Fail, Falls, effects
<1>6. CASE UpdateState(d) \/ Project(d) \/ Return(d)
  BY <1>1, <1>6 DEF UpdateState, Project, Return, effects
<1>7. CASE RecordDetail(d)
  BY <1>1, <1>7 DEF RecordDetail, AfterRecord, effects
<1>8. CASE DetailRefused(d)
  BY <1>1, <1>8 DEF DetailRefused, effects
<1>9. CASE Count(d)
  <2>1. /\ pc[d] \in {"health", "invalid", "duplicate", "dropped"} /\ pc'[d] = AfterCount(d)
        /\ job' = job /\ tries' = tries /\ quarantined' = quarantined
    BY <1>1, <1>9 DEF Count, Counting, effects
  <2>2. QED
    BY <1>1, <1>9, <2>1 DEF AfterCount, AfterRecord
<1>10. CASE Push(d)
  BY <1>1, <1>10 DEF Push
<1>11. CASE Quarantine(d)
  BY <1>1, <1>11 DEF Quarantine
<1>12. QED
  BY <1>2, <1>3, <1>4, <1>5, <1>6, <1>7, <1>8, <1>9, <1>10, <1>11 DEF Moves, Execute, Record

-----------------------------------------------------------------------------
(* What becomes of every delivery.                                         *)

\* A delivery that is over has been recorded, or sent to the quarantine, or has
\* failed as often as Lambda tries (lambda_handler; the safety that
\* DeliverySettles rests on).
NothingVanishes ==
  \A d \in Delivery :
    /\ pc[d] = "done" =>
         IF Malformed(job[d]) THEN d \in quarantined
         ELSE job[d].body.category # "health" => Recorded(d)
    /\ pc[d] = "dlq" => tries[d] = MaxTries

Accounted ==
  \A d \in Delivery :
    /\ pc[d] \in {"return", "done"} /\ Malformed(job[d]) => d \in quarantined
    /\ pc[d] \in {"project", "push", "return", "done"} /\ ~Malformed(job[d])
         /\ job[d].body.category # "health" => Recorded(d)
    /\ pc[d] = "dlq" => tries[d] = MaxTries

LEMMA NextAccounted == IngestionInv /\ Accounted /\ [Next]_vars => Accounted'
<1> SUFFICES ASSUME IngestionInv, Accounted, [Next]_vars, NEW d \in Delivery
             PROVE  /\ pc'[d] \in {"return", "done"} /\ Malformed(job'[d]) => d \in quarantined'
                    /\ pc'[d] \in {"project", "push", "return", "done"} /\ ~Malformed(job'[d])
                         /\ job'[d].body.category # "health" => RecordOf(job[d])'
                    /\ pc'[d] = "dlq" => tries'[d] = MaxTries
  BY DEF Accounted, Recorded, RecordOf, Stored, DetailKey, Occurred, Malformed
<1> DEFINE Held == /\ pc[d] \in {"return", "done"} /\ Malformed(job[d]) => d \in quarantined
                   /\ pc[d] \in {"project", "push", "return", "done"} /\ ~Malformed(job[d])
                        /\ job[d].body.category # "health" => RecordOf(job[d])
                   /\ pc[d] = "dlq" => tries[d] = MaxTries
<1>1. Held /\ TypeOK /\ Fitting
  <2>1. TypeOK /\ TypeOK' /\ MaxTries \in Nat
    BY NextTypeOK, ConstantsAssumption DEF IngestionInv, ConstantsAssumption
  <2>2. QED
    BY <2>1 DEF Accounted, Recorded, IngestionInv, TypeOK
<1>2. ASSUME job'[d] = job[d], pc[d] # "idle", RecordOf(job[d])
      PROVE  RecordOf(job[d])'
  <2>1. job[d] \in Job
    BY <1>1, <1>2 DEF TypeOK
  <2>2. \A j \in Job : RecordOf(j) => RecordOf(j)'
    BY <1>1, RecordsStay
  <2>3. QED
    BY <1>2, <2>1, <2>2 DEF Stored, RecordOf
<1>3. CASE Rests(d) \/ Given(d)
  BY <1>1, <1>2, <1>3 DEF Rests, Given
<1>4. CASE Begins(d) \/ Falls(d)
  BY <1>4 DEF Begins, Falls
<1>5. CASE job'[d] = job[d] /\ \/ Goes(d, {"state"}, {"health"})
                               \/ Goes(d, {"detail"}, {"duplicate", "dropped"})
                               \/ Goes(d, {"invalid"}, {"quarantine"})
  BY <1>5 DEF Goes
<1>6. CASE RecordDetail(d) /\ job'[d] = job[d] /\ Goes(d, {"detail"}, {"project", "push", "return"})
  <2>1. RecordOf(job[d])'
    BY <1>6 DEF RecordDetail, RecordOf, Stored
  <2>2. ~Malformed(job[d])
    BY <1>1, <1>6 DEF Goes, Fitting
  <2>3. QED
    BY <1>6, <2>1, <2>2 DEF Goes
<1>7. CASE job'[d] = job[d] /\ Goes(d, {"health"}, {"return"})
  BY <1>1, <1>7 DEF Goes, Fitting
<1>8. CASE Count(d) /\ job'[d] = job[d] /\ Goes(d, {"duplicate", "dropped"}, {"project", "push", "return"})
  <2>1. pc[d] \in {"duplicate", "dropped"} /\ ~Malformed(job[d]) /\ job[d] \in Job
    BY <1>1, <1>8 DEF Goes, Fitting, TypeOK
  <2>2. pc[d] = "duplicate" => RecordOf(job[d])'
    <3>1. pc[d] = "duplicate" => RecordOf(job[d])
      BY DEF IngestionInv, Pushing, RecordOf
    <3>2. QED
      BY <1>2, <1>8, <2>1, <3>1
  <2>3. pc[d] = "dropped" => RecordOf(job[d])'
    <3>1. SUFFICES ASSUME pc[d] = "dropped" PROVE metric'[Hour(job[d].received)]["dropped"] > 0
      BY <1>8 DEF RecordOf
    <3>2. Hour(job[d].received) \in Hours
      BY <2>1, HourOfJob
    <3>3. metric[Hour(job[d].received)]["dropped"] \in Nat
      BY <1>1, <3>2 DEF TypeOK, Counter
    <3>4. Add(job[d], Counters(d)) /\ "dropped" \in Counters(d)
      BY <1>8, <3>1 DEF Count, Counters
    <3>5. QED
      BY <1>1, <2>1, <3>2, <3>3, <3>4, Added DEF Counter
  <2>4. QED
    BY <1>8, <2>1, <2>2, <2>3 DEF Goes
<1>9. CASE job'[d] = job[d] /\ (d \in quarantined => d \in quarantined')
           /\ (Goes(d, {"project", "push"}, {"return"}) \/ Goes(d, {"return"}, {"done"}))
  <2>1. pc[d] \in {"project", "push"} => ~Malformed(job[d])
    BY <1>1 DEF Fitting
  <2>2. QED
    BY <1>1, <1>2, <1>9, <2>1 DEF Goes
<1>10. CASE job'[d] = job[d] /\ Goes(d, {"quarantine"}, {"return"}) /\ d \in quarantined'
  BY <1>1, <1>10 DEF Goes, Fitting
<1>11. QED
  BY Steps, <1>3, <1>4, <1>5, <1>6, <1>7, <1>8, <1>9, <1>10

\* A message Lambda is done with is never lost without a trace.
THEOREM DeliveriesAccounted == Spec => []NothingVanishes
<1>1. Init => Accounted
  BY DEF Init, Accounted
<1>2. Spec => []Accounted
  BY <1>1, NextAccounted, IngestionInvariant, PTL DEF Spec
<1>3. Accounted => NothingVanishes
  BY DEF Accounted, NothingVanishes
<1>4. QED
  BY <1>2, <1>3, PTL

-----------------------------------------------------------------------------
(* Health and invalid messages are counted.                                *)

\* What a message is counted as when it leaves no detail, and where a delivery
\* of it is once that is done.
Kind(j)  == IF ~Malformed(j) THEN j.body.category
            ELSE IF j.body.form = "unknown device" THEN "none" ELSE "invalid"
After(c) == {"return", "done"} \cup (IF c = "invalid" THEN {"quarantine"} ELSE {})

Tallied(c, h) == {d \in Delivery : pc[d] \in After(c) /\ Kind(job[d]) = c /\ Hour(job[d].received) = h}

\* An hour counts at least as many health messages, and invalid ones, as
\* deliveries of them have passed their increment: it may be applied again, but
\* it is never skipped or lost to a concurrent one.
CountersCover ==
  \A h \in Hours, c \in {"health", "invalid"} :
    IsFiniteSet(Tallied(c, h)) /\ Cardinality(Tallied(c, h)) <= metric[h][c]

LEMMA TalliedBy ==
  ASSUME IngestionInv, [Next]_vars, NEW h \in Hours, NEW c \in {"health", "invalid"},
         NEW d \in Tallied(c, h)'
  PROVE  \/ d \in Tallied(c, h)
         \/ Count(d) /\ pc[d] = c /\ Hour(job[d].received) = h
<1> USE DEF Tallied
<1>1. d \in Delivery /\ pc'[d] \in After(c) /\ Kind(job'[d]) = c /\ Hour(job'[d].received) = h
  BY DEF After, Kind, Malformed, Occurred
<1>2. Fitting
  BY DEF IngestionInv
<1>3. CASE Rests(d)
  BY <1>1, <1>3 DEF Rests
<1>4. CASE Given(d) \/ Falls(d)
  BY <1>1, <1>4 DEF Given, Falls, After
<1>5. CASE job'[d] = job[d] /\ Begins(d)
  BY <1>1, <1>5 DEF Begins, After, Kind, Malformed
<1>6. CASE job'[d] = job[d] /\ \/ Goes(d, {"state"}, {"health"})
                               \/ Goes(d, {"detail"}, {"project", "push", "return"})
                               \/ Goes(d, {"detail"}, {"duplicate", "dropped"})
                               \/ Goes(d, {"duplicate", "dropped"}, {"project", "push", "return"})
                               \/ Goes(d, {"project", "push"}, {"return"})
  <2>1. pc[d] # "state" => ~Malformed(job[d]) /\ job[d].body.category \in {"events", "responses"}
    BY <1>1, <1>2, <1>6 DEF Goes, Fitting
  <2>2. pc[d] # "state" => Kind(job[d]) \notin {"health", "invalid"}
    BY <2>1 DEF Kind
  <2>3. QED
    BY <1>1, <1>6, <2>2 DEF Goes, After
<1>7. CASE job'[d] = job[d] /\ Count(d) /\ Goes(d, {"health"}, {"return"})
  <2>1. ~Malformed(job[d]) /\ job[d].body.category = "health"
    BY <1>1, <1>2, <1>7 DEF Goes, Fitting
  <2>2. QED
    BY <1>1, <1>7, <2>1 DEF Goes, Kind
<1>8. CASE job'[d] = job[d] /\ Count(d) /\ Goes(d, {"invalid"}, {"quarantine"})
  BY <1>1, <1>8 DEF Goes, After
<1>9. CASE job'[d] = job[d] /\ Goes(d, {"quarantine"}, {"return"})
  <2>1. Malformed(job[d])
    BY <1>1, <1>2, <1>9 DEF Goes, Fitting
  <2>2. c = "invalid"
    BY <1>1, <1>9, <2>1 DEF Kind
  <2>3. QED
    BY <1>1, <1>9, <2>2 DEF Goes, After
<1>10. CASE job'[d] = job[d] /\ Goes(d, {"return"}, {"done"})
  BY <1>1, <1>10 DEF Goes, After
<1>11. QED
  BY <1>1, <1>3, <1>4, <1>5, <1>6, <1>7, <1>8, <1>9, <1>10, Steps

LEMMA MetricGrows ==
  ASSUME IngestionInv, [Next]_vars, NEW h \in Hours, NEW c \in Counter
  PROVE  metric'[h][c] \in Nat /\ metric'[h][c] >= metric[h][c]
<1>1. TypeOK /\ metric[h][c] \in Nat
  BY DEF IngestionInv, TypeOK
<1>2. ASSUME NEW d \in Delivery, RecordDetail(d) \/ Count(d) \/ CountTwice(d)
      PROVE  metric'[h][c] \in Nat /\ metric'[h][c] >= metric[h][c]
  <2>1. job[d] \in Job
    BY <1>1, <1>2 DEF RecordDetail, Count, CountTwice, Counting, TypeOK
  <2>2. \E cs : Add(job[d], cs)
    BY <1>2 DEF RecordDetail, Count, CountTwice
  <2>3. QED
    BY <1>1, <2>1, <2>2, Added
<1>3. QED
  BY <1>1, <1>2, MetricKept

LEMMA NextCover == IngestionInv /\ CountersCover /\ [Next]_vars => CountersCover'
<1> SUFFICES ASSUME IngestionInv, CountersCover, [Next]_vars, NEW h \in Hours, NEW c \in {"health", "invalid"}
             PROVE  IsFiniteSet(Tallied(c, h)') /\ Cardinality(Tallied(c, h)') <= metric'[h][c]
  BY DEF CountersCover
<1> DEFINE S == Tallied(c, h)
           T == Tallied(c, h)'
<1>1. IsFiniteSet(S) /\ Cardinality(S) \in Nat /\ Cardinality(S) <= metric[h][c]
  BY FS_CardinalityType DEF CountersCover
<1>2. /\ TypeOK /\ c \in Counter /\ metric[h][c] \in Nat
      /\ metric'[h][c] \in Nat /\ metric'[h][c] >= metric[h][c]
  BY MetricGrows DEF IngestionInv, TypeOK, Counter
<1>3. CASE T \subseteq S
  <2>1. IsFiniteSet(T) /\ Cardinality(T) <= Cardinality(S) /\ Cardinality(T) \in Nat
    BY <1>1, <1>3, FS_Subset, FS_CardinalityType
  <2>2. QED
    BY <1>1, <1>2, <2>1
<1>4. ASSUME NEW e \in T, e \notin S PROVE IsFiniteSet(T) /\ Cardinality(T) <= metric'[h][c]
  <2>1. e \in Delivery /\ Count(e) /\ pc[e] = c /\ Hour(job[e].received) = h
    BY <1>4, TalliedBy DEF Tallied
  <2>2. T \subseteq S \cup {e}
    <3> SUFFICES ASSUME NEW d \in T, d \notin S, d # e PROVE FALSE
      OBVIOUS
    <3>1. d \in Delivery /\ Count(d)
      BY TalliedBy DEF Tallied
    <3>2. pc'[e] = pc[e]
      BY <1>2, <2>1, <3>1 DEF Count, Goto, TypeOK
    <3>3. pc'[e] = AfterCount(e)
      BY <1>2, <2>1 DEF Count, Goto, TypeOK
    <3>4. QED
      BY <2>1, <3>2, <3>3 DEF AfterCount
  <2>3. IsFiniteSet(S \cup {e}) /\ Cardinality(S \cup {e}) = Cardinality(S) + 1
    BY <1>1, <1>4, FS_AddElement
  <2>4. IsFiniteSet(T) /\ Cardinality(T) <= Cardinality(S) + 1 /\ Cardinality(T) \in Nat
    BY <2>2, <2>3, FS_Subset, FS_CardinalityType
  <2>5. metric'[h][c] = metric[h][c] + 1
    <3>1. job[e] \in Job /\ Add(job[e], Counters(e)) /\ Counters(e) = {c}
      BY <1>2, <2>1 DEF Count, Counting, Counters, TypeOK
    <3>2. QED
      BY <1>2, <2>1, <3>1, Added
  <2>6. QED
    BY <1>1, <1>2, <2>4, <2>5
<1>5. QED
  BY <1>3, <1>4

\* However deliveries interleave, fail and are repeated, no health message and
\* no invalid one escapes the counters of its hour (_increment, _increment_only).
THEOREM AlwaysCounted == Spec => []CountersCover
<1>1. Init => CountersCover
  <2> SUFFICES ASSUME Init, NEW h \in Hours, NEW c \in {"health", "invalid"}
               PROVE  IsFiniteSet(Tallied(c, h)) /\ Cardinality(Tallied(c, h)) <= metric[h][c]
    BY DEF CountersCover
  <2>1. Tallied(c, h) = {}
    BY DEF Init, Tallied, After
  <2>2. metric[h][c] = 0
    BY DEF Init, Counter
  <2>3. QED
    BY <2>1, <2>2, FS_EmptySet
<1>2. QED
  BY <1>1, NextCover, IngestionInvariant, PTL DEF Spec

-----------------------------------------------------------------------------
(* Rings that are pushed without a detail have been counted as drops.      *)

\* Deliveries that have been, or are about to be, pushed and have no detail.
Undetailed(h) ==
  {d \in Delivery : /\ pc[d] = "push" \/ Attempted(d)
                    /\ ~Stored(job[d])
                    /\ Hour(job[d].received) = h}

DropsCover == \A h \in Hours : IsFiniteSet(Undetailed(h)) /\ Cardinality(Undetailed(h)) <= metric[h]["dropped"]

LEMMA UndetailedBy ==
  ASSUME IngestionInv, [Next]_vars, NEW h \in Hours, NEW d \in Undetailed(h)'
  PROVE  \/ d \in Undetailed(h)
         \/ Count(d) /\ pc[d] = "dropped" /\ Hour(job[d].received) = h
<1>1. /\ d \in Delivery /\ (pc'[d] = "push" \/ Attempted(d)')
      /\ ~Stored(job[d])' /\ Hour(job'[d].received) = h
  BY DEF Undetailed, Stored, DetailKey, Occurred
<1>2. TypeOK /\ Fitting /\ Paced /\ Pushing
  BY DEF IngestionInv
<1>3. ASSUME pc[d] # "idle", job'[d] = job[d], pc[d] = "push" \/ Attempted(d)
      PROVE  d \in Undetailed(h)
  <2>1. job[d] \in Job
    BY <1>1, <1>2, <1>3 DEF TypeOK
  <2>2. \A j \in Job : Stored(j) => Stored(j)'
    BY <1>2, RecordsStay
  <2>3. ~Stored(job[d])
    BY <1>1, <1>3, <2>1, <2>2 DEF Stored
  <2>4. QED
    BY <1>1, <1>3, <2>3 DEF Undetailed
<1>4. CASE ~Moves(d)
  <2>1. pc'[d] = pc[d] /\ job'[d] = job[d] /\ (Attempted(d)' <=> Attempted(d))
    BY <1>1, <1>2, <1>4, OthersStay
  <2>2. pc[d] # "idle"
    BY <1>1, <1>2, <2>1 DEF Paced
  <2>3. QED
    BY <1>1, <1>3, <2>1, <2>2
<1>5. CASE Publish(d) \/ \E e \in Delivery : Redeliver(d, e)
  <2>1. pc[d] = "idle" /\ pc'[d] = "queued" /\ (Attempted(d)' <=> Attempted(d))
    BY <1>1, <1>2, <1>5 DEF Publish, Redeliver, Goto, TypeOK, effects, Attempted
  <2>2. QED
    BY <1>1, <1>2, <2>1 DEF Paced
<1>6. CASE Start(d) \/ Fail(d) \/ Return(d) \/ UpdateState(d) \/ Project(d) \/ Quarantine(d) \/ DetailRefused(d)
  <2>1. pc[d] # "idle" /\ job'[d] = job[d] /\ (Attempted(d)' <=> Attempted(d))
    BY <1>6 DEF Start, Fail, Return, UpdateState, Project, Quarantine, DetailRefused, Running, Counting,
       effects, Attempted
  <2>2. pc'[d] # "push"
    BY <1>1, <1>2, <1>6 DEF Start, Fail, Return, UpdateState, Project, Quarantine, DetailRefused, FirstCall,
       Goto, TypeOK
  <2>3. QED
    BY <1>1, <1>3, <2>1, <2>2
<1>7. CASE RecordDetail(d)
  BY <1>1, <1>7 DEF RecordDetail, Stored
<1>8. CASE Count(d)
  <2>1. /\ pc[d] \in Counting /\ job'[d] = job[d] /\ (Attempted(d)' <=> Attempted(d))
        /\ pc'[d] = AfterCount(d)
    BY <1>1, <1>2, <1>8 DEF Count, Goto, TypeOK, effects, Attempted
  <2>2. CASE pc[d] = "dropped"
    BY <1>1, <1>8, <2>1, <2>2
  <2>3. CASE pc[d] = "duplicate"
    <3>1. Stored(job[d]) /\ details' = details
      BY <1>1, <1>2, <1>8, <2>3 DEF Pushing, Count
    <3>2. QED
      BY <1>1, <2>1, <3>1 DEF Stored
  <2>4. CASE pc[d] \in {"health", "invalid"}
    <3>1. pc'[d] # "push"
      BY <2>1, <2>4 DEF AfterCount
    <3>2. QED
      BY <1>1, <1>3, <2>1, <2>4, <3>1
  <2>5. QED
    BY <2>1, <2>2, <2>3, <2>4 DEF Counting
<1>9. CASE Push(d)
  BY <1>3, <1>9 DEF Push
<1>10. QED
  BY <1>4, <1>5, <1>6, <1>7, <1>8, <1>9 DEF Moves, Execute, Record

LEMMA NextDropsCover == IngestionInv /\ DropsCover /\ [Next]_vars => DropsCover'
<1> SUFFICES ASSUME IngestionInv, DropsCover, [Next]_vars, NEW h \in Hours
             PROVE  IsFiniteSet(Undetailed(h)') /\ Cardinality(Undetailed(h)') <= metric'[h]["dropped"]
  BY DEF DropsCover
<1> DEFINE S == Undetailed(h)
           T == Undetailed(h)'
<1>1. IsFiniteSet(S) /\ Cardinality(S) \in Nat /\ Cardinality(S) <= metric[h]["dropped"]
  BY FS_CardinalityType DEF DropsCover
<1>2. /\ TypeOK /\ "dropped" \in Counter /\ metric[h]["dropped"] \in Nat
      /\ metric'[h]["dropped"] \in Nat /\ metric'[h]["dropped"] >= metric[h]["dropped"]
  BY MetricGrows DEF IngestionInv, TypeOK, Counter
<1>3. CASE T \subseteq S
  <2>1. IsFiniteSet(T) /\ Cardinality(T) <= Cardinality(S) /\ Cardinality(T) \in Nat
    BY <1>1, <1>3, FS_Subset, FS_CardinalityType
  <2>2. QED
    BY <1>1, <1>2, <2>1
<1>4. ASSUME NEW e \in T, e \notin S PROVE IsFiniteSet(T) /\ Cardinality(T) <= metric'[h]["dropped"]
  <2>1. e \in Delivery /\ Count(e) /\ pc[e] = "dropped" /\ Hour(job[e].received) = h
    BY <1>4, UndetailedBy DEF Undetailed
  <2>2. T \subseteq S \cup {e}
    <3> SUFFICES ASSUME NEW d \in T, d \notin S, d # e PROVE FALSE
      OBVIOUS
    <3>1. d \in Delivery /\ Count(d)
      BY UndetailedBy DEF Undetailed
    <3>2. pc'[e] = pc[e]
      BY <1>2, <2>1, <3>1 DEF Count, Goto, TypeOK
    <3>3. pc'[e] = AfterCount(e)
      BY <1>2, <2>1 DEF Count, Goto, TypeOK
    <3>4. QED
      BY <2>1, <3>2, <3>3 DEF AfterCount, AfterRecord
  <2>3. IsFiniteSet(S \cup {e}) /\ Cardinality(S \cup {e}) = Cardinality(S) + 1
    BY <1>1, <1>4, FS_AddElement
  <2>4. IsFiniteSet(T) /\ Cardinality(T) <= Cardinality(S) + 1 /\ Cardinality(T) \in Nat
    BY <2>2, <2>3, FS_Subset, FS_CardinalityType
  <2>5. metric'[h]["dropped"] = metric[h]["dropped"] + 1
    <3>1. job[e] \in Job /\ Add(job[e], Counters(e)) /\ "dropped" \in Counters(e)
      BY <1>2, <2>1 DEF Count, Counting, Counters, TypeOK
    <3>2. QED
      BY <1>2, <2>1, <3>1, Added
  <2>6. QED
    BY <1>1, <1>2, <2>4, <2>5
<1>5. QED
  BY <1>3, <1>4

\* No ring is pushed that was not recorded, as a detail or as a drop of its own;
\* and a handled one has been pushed unless the log holds the failure
\* (lambda_handler), whatever is retried, refused or lost.
THEOREM AlwaysPushed == Spec => []RingPushedOnceRecorded
<1>1. Init => DropsCover
  <2> SUFFICES ASSUME Init, NEW h \in Hours
               PROVE  IsFiniteSet(Undetailed(h)) /\ Cardinality(Undetailed(h)) <= metric[h]["dropped"]
    BY DEF DropsCover
  <2>1. Undetailed(h) = {} /\ metric[h]["dropped"] = 0
    BY DEF Init, Undetailed, Attempted, Counter
  <2>2. QED
    BY <2>1, FS_EmptySet
<1>2. TypeOK /\ DropsCover =>
        \A h \in Hours :
          Cardinality({d \in Delivery : Attempted(d) /\ ~Stored(job[d]) /\ Hour(job[d].received) = h})
            <= metric[h]["dropped"]
  <2> SUFFICES ASSUME TypeOK, DropsCover, NEW h \in Hours
               PROVE  Cardinality({d \in Delivery : /\ Attempted(d) /\ ~Stored(job[d])
                                                    /\ Hour(job[d].received) = h})
                        <= metric[h]["dropped"]
    OBVIOUS
  <2> DEFINE U == {d \in Delivery : Attempted(d) /\ ~Stored(job[d]) /\ Hour(job[d].received) = h}
  <2>1. U \subseteq Undetailed(h) /\ IsFiniteSet(Undetailed(h))
        /\ Cardinality(Undetailed(h)) <= metric[h]["dropped"]
    BY DEF Undetailed, DropsCover
  <2>2. Cardinality(U) <= Cardinality(Undetailed(h)) /\ Cardinality(U) \in Nat
        /\ Cardinality(Undetailed(h)) \in Nat
    BY <2>1, FS_Subset, FS_CardinalityType
  <2>3. metric[h]["dropped"] \in Nat
    BY DEF TypeOK, Counter
  <2>4. QED
    BY <2>1, <2>2, <2>3
<1>3. IngestionInv =>
        \A d \in Delivery :
          pc[d] = "done" /\ job[d].body.ring /\ ~Malformed(job[d]) /\ PushConfigured => Attempted(d)
  BY DEF IngestionInv, Pushing
<1>4. IngestionInv /\ DropsCover => RingPushedOnceRecorded
  BY <1>2, <1>3 DEF RingPushedOnceRecorded, IngestionInv
<1>5. QED
  BY <1>1, <1>4, NextDropsCover, IngestionInvariant, PTL DEF Spec

-----------------------------------------------------------------------------
(* Every delivery is over after a bounded number of its own steps.         *)

\* The steps a delivery has left: at most five for each execution.
StepsLeft(d) ==
  LET executions == 5 * (MaxTries - tries[d])
  IN CASE pc[d] = "idle"                               -> executions + 1
       [] pc[d] = "queued"                             -> executions
       [] pc[d] \in {"state", "detail"}                -> executions + 4
       [] pc[d] \in Counting                           -> executions + 3
       [] pc[d] \in {"project", "push", "quarantine"}  -> executions + 2
       [] pc[d] = "return"                             -> executions + 1
       [] pc[d] \in {"done", "dlq"}                    -> 0

\* Every step of a delivery, failures included, leaves it fewer; no step of
\* another delivery gives it more.
RetriesRunOut ==
  \A d \in Delivery :
    /\ StepsLeft(d) \in Nat
    /\ \/ StepsLeft(d)' < StepsLeft(d)
       \/ StepsLeft(d)' = StepsLeft(d) /\ pc'[d] = pc[d]

\* An event is executed to its end or into the dead letter queue, whatever
\* fails: DeliverySettles needs no more than that Lambda goes on.
THEOREM DeliveriesTerminate == Spec => [][RetriesRunOut]_vars
<1>1. ASSUME IngestionInv, [Next]_vars PROVE RetriesRunOut
  <2> SUFFICES ASSUME NEW d \in Delivery
               PROVE  /\ StepsLeft(d) \in Nat
                      /\ \/ StepsLeft(d)' < StepsLeft(d)
                         \/ StepsLeft(d)' = StepsLeft(d) /\ pc'[d] = pc[d]
    BY DEF RetriesRunOut
  <2>1. /\ tries[d] \in 0..MaxTries /\ tries'[d] \in 0..MaxTries /\ MaxTries \in Nat
        /\ pc[d] \in Running \cup {"idle", "queued", "done", "dlq"}
    BY <1>1, NextTypeOK, ConstantsAssumption DEF IngestionInv, TypeOK, ConstantsAssumption
  <2>2. StepsLeft(d) \in Nat
    BY <2>1 DEF StepsLeft, Running, Counting
  <2>3. CASE Rests(d)
    BY <2>2, <2>3 DEF Rests, StepsLeft
  <2>4. CASE Given(d)
    BY <2>1, <2>2, <2>4 DEF Given, StepsLeft, Counting
  <2>5. CASE Begins(d)
    <3>1. tries'[d] = tries[d] + 1 /\ StepsLeft(d) = 5 * (MaxTries - tries[d])
      BY <2>5 DEF Begins, StepsLeft, Counting
    <3>2. pc'[d] \in {"state", "detail", "invalid", "quarantine"}
      BY <2>5 DEF Begins
    <3>3. /\ StepsLeft(d)' <= 5 * (MaxTries - tries'[d]) + 4
          /\ StepsLeft(d)' \in Nat
      BY <2>1, <3>2 DEF StepsLeft, Counting
    <3>4. QED
      BY <2>1, <3>1, <3>3
  <2>6. CASE Falls(d)
    BY <2>1, <2>2, <2>6 DEF Falls, StepsLeft, Running, Counting
  <2>7. CASE \/ Goes(d, {"state"}, {"health"})
             \/ Goes(d, {"detail"}, {"project", "push", "return"})
             \/ Goes(d, {"detail"}, {"duplicate", "dropped"})
    BY <2>1, <2>2, <2>7 DEF Goes, StepsLeft, Counting
  <2>8. CASE \/ Goes(d, {"health"}, {"return"})
             \/ Goes(d, {"invalid"}, {"quarantine"})
             \/ Goes(d, {"duplicate", "dropped"}, {"project", "push", "return"})
    BY <2>1, <2>2, <2>8 DEF Goes, StepsLeft, Counting
  <2>9. CASE \/ Goes(d, {"project", "push"}, {"return"})
             \/ Goes(d, {"quarantine"}, {"return"})
             \/ Goes(d, {"return"}, {"done"})
    BY <2>1, <2>2, <2>9 DEF Goes, StepsLeft, Counting
  <2>10. QED
    BY <1>1, <2>2, <2>3, <2>4, <2>5, <2>6, <2>7, <2>8, <2>9, Steps
<1>2. QED
  BY <1>1, IngestionInvariant, PTL DEF Spec
=============================================================================
