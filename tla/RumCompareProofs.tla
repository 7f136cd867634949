-------------------------- MODULE RumCompareProofs --------------------------
(***************************************************************************)
(* Theorems about the comparator, for any messages, scripts, batch size,   *)
(* receive limit and batch cap, and any set of faults named by them.       *)
(***************************************************************************)
EXTENDS RumCompare, TLAPS

(***************************************************************************)
(* What a step of the comparator is, one name for each action.             *)
(***************************************************************************)
LEMMA Steps ==
  ASSUME [Next]_vars
  PROVE  \/ \E m \in Messages : Enqueue(m) \/ Lapse(m) \/ Redrive(m)
         \/ Start \/ Die
         \/ \E ms \in SUBSET Receivable, o \in Outcomes : Receive(ms, o)
         \/ OutOfBudget
         \/ \E m \in Messages : Leave(m) \/ Suppress(m) \/ Record(m) \/ Propose(m)
         \/ \E m \in Messages, o \in Outcomes : Alert(m, o)
         \/ \E o \in Outcomes : Delete(o) \/ Push(o) \/ OpenPullRequest(o)
         \/ Diff
         \/ \E s \in Scripts : WriteElsewhere(s)
         \/ UNCHANGED vars
BY DEF Next, Work, Deliveries

(***************************************************************************)
(* Type correctness.                                                       *)
(***************************************************************************)
LEMMA DueIsToldType ==
  ASSUME NEW m \in Messages
  PROVE  Due(m) \in Dues /\ Key(m) \in Keys
<1>1. shape[m].pk \in Pks /\ shape[m].lane \in Lanes
  BY ShapeAssumption DEF Shapes
<1>2. Due(m) \in Dues
  BY DEF Due, DueOf, DueOnInventory, DueOnDetection, Dues
<1> QED
  BY <1>1, <1>2 DEF Key, Keys

THEOREM TypeCorrect == Spec => []TypeOK
<1> USE BoundAssumption DEF Places, Phases
<1>1. Init => TypeOK
  <2> SUFFICES ASSUME Init PROVE TypeOK
    OBVIOUS
  <2>1. counts \in [received : Nat, routed : Nat, invalid : Nat, failed : Nat]
    BY DEF Init, NoCounts
  <2>2. told \in [Messages -> SUBSET {"alert", "undelivered", "record", "candidate"}]
    BY DEF Init
  <2>3. branch \in [Scripts -> Nat] /\ draft \in [Scripts -> Nat] /\ alerted \in [Keys -> Nat]
    BY DEF Init
  <2>4. queue \in [Messages -> Places] /\ receives \in [Messages -> 0..MaxReceives]
    BY DEF Init
  <2>5. /\ phase \in Phases /\ batch \subseteq Messages /\ batches \in 0..MaxBatches
        /\ current \in Messages \cup {NoMessage} /\ seen \subseteq Keys
        /\ candidates \subseteq Messages /\ handed \subseteq Messages /\ cut \subseteq Messages
    BY DEF Init
  <2>6. moved \in BOOLEAN
    BY DEF Init
  <2> QED
    BY <2>1, <2>2, <2>3, <2>4, <2>5, <2>6 DEF TypeOK
<1>2. TypeOK /\ [Next]_vars => TypeOK'
  <2> SUFFICES ASSUME TypeOK, [Next]_vars PROVE TypeOK'
    OBVIOUS
  <2> USE DEF TypeOK, queueVars, drainVars, routeVars, branchVars, historyVars
  <2>1. ASSUME NEW m \in Messages, Enqueue(m) PROVE TypeOK'
    BY <2>1 DEF Enqueue
  <2>2. ASSUME NEW m \in Messages, Lapse(m) PROVE TypeOK'
    BY <2>2 DEF Lapse
  <2>3. ASSUME NEW m \in Messages, Redrive(m) PROVE TypeOK'
    BY <2>3 DEF Redrive
  <2>4. CASE Start
    <3>1. /\ counts' \in [received : Nat, routed : Nat, invalid : Nat, failed : Nat]
          /\ alerted' \in [Keys -> Nat]
      BY <2>4 DEF Start, NoCounts
    <3>2. /\ phase' \in Phases /\ batch' \subseteq Messages /\ batches' \in 0..MaxBatches
          /\ current' \in Messages \cup {NoMessage} /\ seen' \subseteq Keys
          /\ candidates' \subseteq Messages /\ draft' \in [Scripts -> Nat]
      BY <2>4 DEF Start
    <3>3. moved' \in BOOLEAN
      BY <2>4 DEF Start
    <3> QED
      BY <2>4, <3>1, <3>2, <3>3 DEF Start
  <2>5. CASE Die
    BY <2>5 DEF Die
  <2>6. ASSUME NEW ms \in SUBSET Receivable, NEW o, Receive(ms, o) PROVE TypeOK'
    BY <2>6 DEF Receive, Receivable
  <2>7. CASE OutOfBudget
    BY <2>7 DEF OutOfBudget
  <2>8. ASSUME NEW m \in Messages, Leave(m) PROVE TypeOK'
    BY <2>8 DEF Leave, Done, Tally, Count
  <2>9. ASSUME NEW m \in Messages, Suppress(m) PROVE TypeOK'
    BY <2>9 DEF Suppress, Release
  <2>10. ASSUME NEW m \in Messages, Record(m) PROVE TypeOK'
    BY <2>10, DueIsToldType DEF Record, Release, Tell
  <2>11. ASSUME NEW m \in Messages, Propose(m) PROVE TypeOK'
    BY <2>11, DueIsToldType DEF Propose, Release, Tell
  <2>12. ASSUME NEW m \in Messages, NEW o, Alert(m, o) PROVE TypeOK'
    BY <2>12, DueIsToldType DEF Alert, Release, Tell
  <2>13. ASSUME NEW o, Delete(o) PROVE TypeOK'
    <3>1. queue' \in [Messages -> Places]
      BY <2>13 DEF Delete
    <3>2. counts' \in [received : Nat, routed : Nat, invalid : Nat, failed : Nat]
      BY <2>13 DEF Delete, Tally, Count
    <3>3. batch' \subseteq Messages /\ phase' \in Phases /\ current' \in Messages \cup {NoMessage}
      BY <2>13 DEF Delete, Done
    <3> QED
      BY <2>13, <3>1, <3>2, <3>3 DEF Delete
  <2>14. ASSUME NEW o, Push(o) PROVE TypeOK'
    BY <2>14 DEF Push
  <2>15. ASSUME NEW o, OpenPullRequest(o) PROVE TypeOK'
    BY <2>15 DEF OpenPullRequest
  <2>16. CASE Diff
    BY <2>16 DEF Diff, Appended
  <2>17. ASSUME NEW s \in Scripts, WriteElsewhere(s) PROVE TypeOK'
    BY <2>17 DEF WriteElsewhere
  <2>18. CASE UNCHANGED vars
    BY <2>18 DEF vars
  <2>19. QED
    BY <2>1, <2>2, <2>3, <2>4, <2>5, <2>6, <2>7, <2>8, <2>9, <2>10, <2>11, <2>12,
       <2>13, <2>14, <2>15, <2>16, <2>17, <2>18, Steps
<1>3. QED
  BY <1>1, <1>2, PTL DEF Spec

(***************************************************************************)
(* OneAlertPerRun.  A key that has alerted in this run is marked seen, so  *)
(* the next message of the key is suppressed.  An alert that is delivered  *)
(* and reported as failed would break it.                                  *)
(***************************************************************************)
AlertedAreSeen == \A k \in Keys : alerted[k] = 0 \/ (alerted[k] = 1 /\ k \in seen)

NoLostAlert == <<"alert", "lost">> \notin Faults

LEMMA AlertedAreSeenStep ==
  ASSUME NoLostAlert, TypeOK, AlertedAreSeen, [Next]_vars
  PROVE  AlertedAreSeen'
<1> USE DEF TypeOK, AlertedAreSeen
<1>1. CASE Start
  BY <1>1 DEF Start
<1>2. ASSUME NEW m \in Messages, NEW o \in Outcomes, Alert(m, o) PROVE AlertedAreSeen'
  <2>1. Key(m) \in Keys /\ Key(m) \notin seen /\ alerted[Key(m)] = 0
    BY <1>2, DueIsToldType DEF Alert
  <2>2. CASE o = "ok"
    <3>1. seen' = seen \cup {Key(m)} /\ alerted' = [alerted EXCEPT ![Key(m)] = @ + 1]
      BY <1>2, <2>2 DEF Alert
    <3> QED
      BY <2>1, <3>1
  <2>3. CASE o = "rejected"
    BY <1>2, <2>3 DEF Alert
  <2>4. o # "lost"
    BY <1>2 DEF Alert, Happens, NoLostAlert
  <2> QED
    BY <2>2, <2>3, <2>4 DEF Outcomes
<1>3. ASSUME NEW m \in Messages, Record(m) \/ Propose(m) PROVE AlertedAreSeen'
  BY <1>3 DEF Record, Propose
<1>4. ASSUME UNCHANGED <<seen, alerted>> PROVE AlertedAreSeen'
  BY <1>4
<1>5. QED
  BY <1>1, <1>2, <1>3, <1>4, Steps
     DEF Enqueue, Lapse, Redrive, Die, Receive, OutOfBudget, Leave, Suppress, Delete, Push,
         OpenPullRequest, Diff, WriteElsewhere, vars, routeVars, historyVars

\* However often SQS delivers a key within one run, it alerts once.
THEOREM OneAlertEachRun ==
  ASSUME NoLostAlert
  PROVE  Spec => []OneAlertPerRun
<1>1. Init => AlertedAreSeen
  BY DEF Init, AlertedAreSeen
<1>2. AlertedAreSeen => OneAlertPerRun
  BY DEF AlertedAreSeen, OneAlertPerRun
<1> QED
  BY <1>1, <1>2, AlertedAreSeenStep, TypeCorrect, PTL DEF Spec

(***************************************************************************)
(* ReleasedWasTold.  What is seen has been told, and the message whose     *)
(* delete comes next is accounted for: the delete is the only way out.     *)
(***************************************************************************)
Told(k) == \E n \in Messages : Key(n) = k /\ Due(n) \in told[n]

SeenWereTold == \A k \in seen : Told(k)

ReleaseInv ==
  /\ SeenWereTold
  /\ phase = "release" => current \in Messages /\ Accounted(current)
  /\ ReleasedWasTold

\* Nothing that has been told is ever untold.
LEMMA ToldGrows ==
  ASSUME TypeOK, [Next]_vars, NEW m \in Messages
  PROVE  told[m] \subseteq told'[m]
<1> USE DEF TypeOK
<1>1. ASSUME NEW n \in Messages, NEW what, Tell(n, what) PROVE told[m] \subseteq told'[m]
  BY <1>1 DEF Tell
<1>2. ASSUME UNCHANGED told PROVE told[m] \subseteq told'[m]
  BY <1>2
<1>3. QED
  BY <1>1, <1>2, Steps
     DEF Enqueue, Lapse, Redrive, Start, Die, Receive, OutOfBudget, Leave, Suppress, Delete, Push,
         OpenPullRequest, Diff, WriteElsewhere, vars, historyVars, Record, Propose, Alert

LEMMA AccountedStays ==
  ASSUME TypeOK, [Next]_vars
  PROVE  /\ \A m \in Messages : Accounted(m) => Accounted(m)'
         /\ \A k : Told(k) => Told(k)'
<1>1. \A m \in Messages : told[m] \subseteq told'[m]
  BY ToldGrows
<1> QED
  BY <1>1 DEF Accounted, Told

\* Routing a message accounts for it.
LEMMA RoutingTells ==
  ASSUME TypeOK, SeenWereTold, NEW m \in Messages,
         Suppress(m) \/ Record(m) \/ Propose(m) \/ \E o \in Outcomes : Alert(m, o)
  PROVE  Accounted(m)' /\ (\A k \in seen' : k \in seen \/ (k = Key(m) /\ Told(k)'))
<1> USE DEF TypeOK
<1>1. CASE Suppress(m)
  <2>1. Told(Key(m))
    BY <1>1 DEF Suppress, SeenWereTold
  <2> QED
    BY <1>1, <2>1 DEF Suppress, Accounted, Told, historyVars, routeVars
<1>2. CASE Record(m) \/ Propose(m)
  <2>1. Due(m) \in told'[m]
    BY <1>2 DEF Record, Propose, Tell
  <2>2. seen' = seen \cup {Key(m)}
    BY <1>2 DEF Record, Propose
  <2> QED
    BY <2>1, <2>2 DEF Accounted, Told
<1>3. ASSUME NEW o \in Outcomes, Alert(m, o)
      PROVE  Accounted(m)' /\ (\A k \in seen' : k \in seen \/ (k = Key(m) /\ Told(k)'))
  <2>1. CASE o = "rejected"
    <3>1. "undelivered" \in told'[m] /\ seen' = seen
      BY <1>3, <2>1 DEF Alert, Tell
    <3> QED
      BY <3>1 DEF Accounted
  <2>2. CASE o # "rejected"
    <3>1. Due(m) \in told'[m] /\ seen' \subseteq seen \cup {Key(m)}
      BY <1>3, <2>2 DEF Alert, Tell
    <3> QED
      BY <3>1 DEF Accounted, Told
  <2> QED
    BY <2>1, <2>2
<1> QED
  BY <1>1, <1>2, <1>3

LEMMA ReleaseInvStep ==
  ASSUME TypeOK, ReleaseInv, [Next]_vars
  PROVE  ReleaseInv'
<1> USE DEF TypeOK, ReleaseInv
<1>0. /\ \A m \in Messages : Accounted(m) => Accounted(m)'
      /\ \A k : Told(k) => Told(k)'
  BY AccountedStays
<1>1. ASSUME NEW m \in Messages,
             Suppress(m) \/ Record(m) \/ Propose(m) \/ \E o \in Outcomes : Alert(m, o)
      PROVE  ReleaseInv'
  <2>1. Accounted(m)' /\ SeenWereTold'
    BY <1>0, <1>1, RoutingTells DEF SeenWereTold
  <2>2. current' = m /\ queue' = queue
    BY <1>1 DEF Suppress, Record, Propose, Alert, Release, queueVars
  <2> QED
    BY <1>0, <2>1, <2>2 DEF ReleasedWasTold
<1>2. ASSUME NEW o \in Outcomes, Delete(o) PROVE ReleaseInv'
  <2>1. current \in Messages /\ Accounted(current) /\ phase' # "release" /\ seen' = seen
    BY <1>2 DEF Delete, Done, routeVars
  <2>2. \A m \in Messages : queue'[m] = "deleted" => queue[m] = "deleted" \/ m = current
    BY <1>2 DEF Delete
  <2> QED
    BY <1>0, <2>1, <2>2 DEF ReleasedWasTold, SeenWereTold
<1>3. ASSUME phase' # "release", seen' \subseteq seen,
             \A m \in Messages : queue'[m] = "deleted" => queue[m] = "deleted"
      PROVE  ReleaseInv'
  BY <1>0, <1>3 DEF ReleasedWasTold, SeenWereTold
<1>4. ASSUME UNCHANGED <<phase, current, seen>>,
             \A m \in Messages : queue'[m] = "deleted" => queue[m] = "deleted"
      PROVE  ReleaseInv'
  BY <1>0, <1>4 DEF ReleasedWasTold, SeenWereTold
<1>5. ASSUME NEW m \in Messages, Enqueue(m) \/ Lapse(m) \/ Redrive(m) PROVE ReleaseInv'
  <2>1. UNCHANGED <<phase, current, seen>>
    BY <1>5 DEF Enqueue, Lapse, Redrive, drainVars, routeVars
  <2>2. \A n \in Messages : queue'[n] = "deleted" => queue[n] = "deleted"
    BY <1>5 DEF Enqueue, Lapse, Redrive
  <2> QED
    BY <1>4, <2>1, <2>2
<1>6. ASSUME NEW ms \in SUBSET Receivable, NEW o \in Outcomes, Receive(ms, o) PROVE ReleaseInv'
  <2>1. phase' # "release" /\ seen' = seen
    BY <1>6 DEF Receive, routeVars
  <2>2. \A n \in Messages : queue'[n] = "deleted" => queue[n] = "deleted"
    BY <1>6 DEF Receive, queueVars
  <2> QED
    BY <1>3, <2>1, <2>2
<1>7. CASE Start \/ Die \/ OutOfBudget \/ Diff
  <2>1. phase' # "release" /\ seen' \subseteq seen /\ queue' = queue
    BY <1>7 DEF Start, Die, OutOfBudget, Diff, queueVars, routeVars
  <2> QED
    BY <1>3, <2>1
<1>8. ASSUME NEW m \in Messages, Leave(m) PROVE ReleaseInv'
  <2>1. phase' # "release" /\ seen' = seen /\ queue' = queue
    BY <1>8 DEF Leave, Done, queueVars, routeVars
  <2> QED
    BY <1>3, <2>1
<1>9. ASSUME NEW o \in Outcomes, Push(o) \/ OpenPullRequest(o) PROVE ReleaseInv'
  <2>1. phase' # "release" /\ seen' = seen /\ queue' = queue
    BY <1>9 DEF Push, OpenPullRequest, queueVars, routeVars
  <2> QED
    BY <1>3, <2>1
<1>10. ASSUME NEW s \in Scripts, WriteElsewhere(s) PROVE ReleaseInv'
  <2>1. UNCHANGED <<phase, current, seen, queue>>
    BY <1>10 DEF WriteElsewhere, drainVars, routeVars, queueVars
  <2> QED
    BY <1>4, <2>1
<1>11. CASE UNCHANGED vars
  <2>1. UNCHANGED <<phase, current, seen, queue>>
    BY <1>11 DEF vars, drainVars, routeVars, queueVars
  <2> QED
    BY <1>4, <2>1
<1>12. QED
  BY <1>1, <1>2, <1>5, <1>6, <1>7, <1>8, <1>9, <1>10, <1>11, Steps

\* A message is deleted only when it is accounted for, under every fault.
THEOREM NothingIsReleasedUntold == Spec => []ReleasedWasTold
<1>1. Init => ReleaseInv
  BY DEF Init, ReleaseInv, SeenWereTold, ReleasedWasTold
<1>2. ReleaseInv => ReleasedWasTold
  BY DEF ReleaseInv
<1> QED
  BY <1>1, <1>2, ReleaseInvStep, TypeCorrect, PTL DEF Spec

(***************************************************************************)
(* CountsAddUp.  The tally of a message is complete at every step.         *)
(***************************************************************************)
Balanced == counts.received = counts.routed + counts.invalid + counts.failed

LEMMA TallyBalances ==
  ASSUME TypeOK, Balanced, NEW as \in {"routed", "invalid", "failed"}, counts' = Tally(as)
  PROVE  Balanced'
<1>1. counts \in [received : Nat, routed : Nat, invalid : Nat, failed : Nat]
  BY DEF TypeOK
<1>2. CASE as = "routed"
  <2>1. counts' = [received |-> counts.received + 1, routed |-> counts.routed + 1,
                   invalid |-> counts.invalid, failed |-> counts.failed]
    BY <1>2 DEF Tally, Count
  <2> QED
    BY <1>1, <2>1 DEF Balanced
<1>3. CASE as = "invalid"
  <2>1. counts' = [received |-> counts.received + 1, routed |-> counts.routed,
                   invalid |-> counts.invalid + 1, failed |-> counts.failed]
    BY <1>3 DEF Tally, Count
  <2> QED
    BY <1>1, <2>1 DEF Balanced
<1>4. CASE as = "failed"
  <2>1. counts' = [received |-> counts.received + 1, routed |-> counts.routed,
                   invalid |-> counts.invalid, failed |-> counts.failed + 1]
    BY <1>4 DEF Tally, Count
  <2> QED
    BY <1>1, <2>1 DEF Balanced
<1> QED
  BY <1>2, <1>3, <1>4

\* When the drain is over each delivery is counted once more than as received.
THEOREM DeliveriesAreCounted == Spec => []CountsAddUp
<1>1. Init => Balanced
  BY DEF Init, Balanced, NoCounts
<1>2. TypeOK /\ Balanced /\ [Next]_vars => Balanced'
  <2> SUFFICES ASSUME TypeOK, Balanced, [Next]_vars PROVE Balanced'
    OBVIOUS
  <2>1. CASE Start
    BY <2>1 DEF Start, Balanced, NoCounts
  <2>2. ASSUME NEW m \in Messages, Leave(m) PROVE Balanced'
    <3>1. counts' = Tally("invalid") \/ counts' = Tally("failed")
      BY <2>2 DEF Leave
    <3> QED
      BY <3>1, TallyBalances
  <2>3. ASSUME NEW o \in Outcomes, Delete(o) PROVE Balanced'
    <3>1. counts' = Tally("routed") \/ counts' = Tally("failed")
      BY <2>3 DEF Delete
    <3> QED
      BY <3>1, TallyBalances
  <2>4. CASE UNCHANGED counts
    BY <2>4 DEF Balanced
  <2> QED
    BY <2>1, <2>2, <2>3, <2>4, Steps
       DEF Enqueue, Lapse, Redrive, Die, Receive, OutOfBudget, Suppress, Record, Propose, Alert,
           Push, OpenPullRequest, Diff, WriteElsewhere, vars, drainVars
<1>3. Balanced => CountsAddUp
  BY DEF Balanced, CountsAddUp
<1> QED
  BY <1>1, <1>2, <1>3, TypeCorrect, PTL DEF Spec

(***************************************************************************)
(* OneEntryPerScript and EntriesKept.  The clone never lacks an entry of   *)
(* the branch it is about to push over: what someone else pushed since the *)
(* pull has moved the branch, and then the push is refused.                *)
(***************************************************************************)
Single == \A s \in Scripts : branch[s] <= 1 /\ draft[s] <= 1

UpToDate == phase # "off" => moved \/ \A s \in Scripts : branch[s] <= draft[s]

LEMMA SingleStep ==
  ASSUME TypeOK, Single, [Next]_vars
  PROVE  Single'
<1> USE DEF TypeOK, Single
<1>1. CASE Start
  BY <1>1 DEF Start
<1>2. CASE Diff
  BY <1>2 DEF Diff, Appended
<1>3. ASSUME NEW o \in Outcomes, Push(o) PROVE Single'
  BY <1>3 DEF Push
<1>4. ASSUME NEW s \in Scripts, WriteElsewhere(s) PROVE Single'
  BY <1>4 DEF WriteElsewhere
<1>5. CASE UNCHANGED <<branch, draft>>
  BY <1>5
<1>6. QED
  BY <1>1, <1>2, <1>3, <1>4, <1>5, Steps
     DEF Enqueue, Lapse, Redrive, Die, Receive, OutOfBudget, Leave, Suppress, Record, Propose,
         Alert, Delete, OpenPullRequest, vars, branchVars

\* Repeats of a script and other writers never leave it with two entries.
THEOREM ScriptsAreEnteredOnce == Spec => []OneEntryPerScript
<1>1. Init => Single
  BY DEF Init, Single
<1>2. TypeOK /\ Single /\ [Next]_vars => Single'
  BY SingleStep
<1>3. TypeOK /\ Single => OneEntryPerScript
  BY DEF Single, OneEntryPerScript
<1> QED
  BY <1>1, <1>2, <1>3, TypeCorrect, PTL DEF Spec

LEMMA UpToDateStep ==
  ASSUME TypeOK, UpToDate, [Next]_vars
  PROVE  UpToDate'
<1> USE DEF TypeOK, UpToDate
<1>1. CASE Start
  BY <1>1 DEF Start
<1>2. CASE Diff
  <2>1. branch' = branch /\ (moved => moved') /\ phase # "off"
    BY <1>2 DEF Diff
  <2>2. CASE moved
    BY <2>1, <2>2
  <2>3. CASE \A s \in Scripts : branch[s] <= draft[s]
    <3>1. \A s \in Scripts : branch[s] <= draft'[s]
      BY <1>2, <2>3 DEF Diff, Appended
    <3> QED
      BY <2>1, <3>1
  <2> QED
    BY <2>1, <2>2, <2>3
<1>3. ASSUME NEW o \in Outcomes, Push(o) PROVE UpToDate'
  <2>1. phase # "off" /\ moved' = moved /\ draft' = draft /\ (branch' = branch \/ branch' = draft)
    BY <1>3 DEF Push
  <2> QED
    BY <2>1
<1>4. ASSUME NEW s \in Scripts, WriteElsewhere(s) PROVE UpToDate'
  BY <1>4 DEF WriteElsewhere
<1>5. ASSUME UNCHANGED branchVars, phase' = "off" \/ phase # "off" PROVE UpToDate'
  BY <1>5 DEF branchVars
<1>6. ASSUME NEW m \in Messages, Enqueue(m) \/ Lapse(m) \/ Redrive(m) PROVE UpToDate'
  <2>1. UNCHANGED branchVars /\ phase' = phase
    BY <1>6 DEF Enqueue, Lapse, Redrive
  <2> QED
    BY <2>1 DEF branchVars
<1>7. CASE UNCHANGED vars
  BY <1>7 DEF vars, branchVars
<1>8. QED
  BY <1>1, <1>2, <1>3, <1>4, <1>5, <1>6, <1>7, Steps
     DEF Die, Receive, OutOfBudget, Leave, Suppress, Record, Propose, Routable, Alert, Delete,
         OpenPullRequest

\* A push never drops an entry someone else put on the branch meanwhile.
THEOREM PushesKeepEntries == Spec => EntriesKept
<1>1. Init => UpToDate
  BY DEF Init, UpToDate
<1>2. TypeOK /\ UpToDate /\ [Next]_vars => UpToDate'
  BY UpToDateStep
<1>3. TypeOK /\ UpToDate /\ [Next]_vars => [\A s \in Scripts : branch'[s] >= branch[s]]_vars
  <2> SUFFICES ASSUME TypeOK, UpToDate, [Next]_vars, NEW s \in Scripts PROVE branch'[s] >= branch[s]
    OBVIOUS
  <2> USE DEF TypeOK
  <2>1. ASSUME NEW o \in Outcomes, Push(o) PROVE branch'[s] >= branch[s]
    BY <2>1 DEF Push, UpToDate
  <2>2. ASSUME NEW t \in Scripts, WriteElsewhere(t) PROVE branch'[s] >= branch[s]
    BY <2>2 DEF WriteElsewhere
  <2>3. CASE UNCHANGED branch
    BY <2>3
  <2> QED
    BY <2>1, <2>2, <2>3, Steps
       DEF Enqueue, Lapse, Redrive, Start, Die, Receive, OutOfBudget, Leave, Suppress, Record,
           Propose, Alert, Delete, OpenPullRequest, Diff, vars, branchVars
<1> QED
  BY <1>1, <1>2, <1>3, TypeCorrect, PTL DEF Spec, EntriesKept

(***************************************************************************)
(* CandidatesAreHanded.  A run takes its candidates from routing to the    *)
(* diff, whatever the drain meets on the way, and reaches the push with    *)
(* all of them handed; one that is cut short leaves them behind.           *)
(***************************************************************************)
Proposed(m) == "candidate" \in told[m]

CandidateInv ==
  /\ \A m \in Messages :
       Proposed(m) => m \in handed \cup cut \/ (phase # "off" /\ m \in candidates)
  /\ phase \in {"push", "pullRequest"} => candidates \subseteq handed

LEMMA CandidateInvStep ==
  ASSUME TypeOK, CandidateInv, [Next]_vars
  PROVE  CandidateInv'
<1> USE DEF TypeOK, CandidateInv
<1>1. ASSUME UNCHANGED <<told, handed, candidates, cut>>,
             phase = "off" \/ phase' # "off", phase' \notin {"push", "pullRequest"} \/ phase' = phase
      PROVE  CandidateInv'
  BY <1>1 DEF Proposed
<1>2. ASSUME UNCHANGED <<told, handed, candidates>>, cut' = cut \cup candidates, phase' = "off"
      PROVE  CandidateInv'
  BY <1>2 DEF Proposed
<1>3. ASSUME NEW m \in Messages, Enqueue(m) \/ Lapse(m) \/ Redrive(m) PROVE CandidateInv'
  BY <1>1, <1>3 DEF Enqueue, Lapse, Redrive, routeVars, historyVars
<1>4. CASE Start
  BY <1>4 DEF Start, Proposed
<1>5. CASE Die
  BY <1>2, <1>5 DEF Die, routeVars
<1>6. ASSUME NEW ms \in SUBSET Receivable, NEW o \in Outcomes, Receive(ms, o) PROVE CandidateInv'
  <2>1. UNCHANGED <<told, handed, candidates>>
    BY <1>6 DEF Receive, routeVars
  <2>2. CASE o = "ok"
    <3>1. phase' \in {"diff", "route"} /\ cut' = cut
      BY <1>6, <2>2 DEF Receive
    <3> QED
      BY <1>1, <2>1, <3>1
  <2>3. CASE o # "ok"
    <3>1. phase' = "off" /\ cut' = cut \cup candidates
      BY <1>6, <2>3 DEF Receive
    <3> QED
      BY <1>2, <2>1, <3>1
  <2> QED
    BY <2>2, <2>3
<1>7. CASE OutOfBudget
  BY <1>1, <1>7 DEF OutOfBudget, routeVars, historyVars
<1>8. ASSUME NEW m \in Messages, Leave(m) \/ Suppress(m) PROVE CandidateInv'
  BY <1>1, <1>8 DEF Leave, Suppress, Done, Release, routeVars, historyVars
<1>9. ASSUME NEW m \in Messages, Record(m) \/ \E o \in Outcomes : Alert(m, o) PROVE CandidateInv'
  <2>1. \A n \in Messages : Proposed(n)' => Proposed(n)
    BY <1>9 DEF Record, Alert, Tell, Proposed
  <2>2. phase # "off" /\ phase' = "release" /\ UNCHANGED <<handed, candidates, cut>>
    BY <1>9 DEF Record, Alert, Routable, Release
  <2> QED
    BY <2>1, <2>2
<1>10. ASSUME NEW m \in Messages, Propose(m) PROVE CandidateInv'
  <2>1. \A n \in Messages : Proposed(n)' => Proposed(n) \/ n = m
    BY <1>10 DEF Propose, Tell, Proposed
  <2>2. /\ phase # "off" /\ phase' = "release"
        /\ candidates' = candidates \cup {m} /\ UNCHANGED <<handed, cut>>
    BY <1>10 DEF Propose, Routable, Release
  <2> QED
    BY <2>1, <2>2
<1>11. ASSUME NEW o \in Outcomes, Delete(o) PROVE CandidateInv'
  BY <1>1, <1>11 DEF Delete, Done, routeVars, historyVars
<1>12. CASE Diff
  <2>1. /\ handed' = handed \cup candidates /\ candidates' = candidates
        /\ UNCHANGED <<told, cut>>
    BY <1>12 DEF Diff, routeVars
  <2> QED
    BY <2>1 DEF Proposed
<1>13. ASSUME NEW o \in Outcomes, Push(o) \/ OpenPullRequest(o) PROVE CandidateInv'
  <2>1. /\ UNCHANGED <<told, handed, candidates, cut>> /\ candidates \subseteq handed
        /\ phase' \in {"off", "pullRequest"}
    BY <1>13 DEF Push, OpenPullRequest, routeVars, historyVars
  <2> QED
    BY <2>1 DEF Proposed
<1>14. ASSUME NEW s \in Scripts, WriteElsewhere(s) PROVE CandidateInv'
  BY <1>1, <1>14 DEF WriteElsewhere, routeVars, historyVars
<1>15. CASE UNCHANGED vars
  BY <1>1, <1>15 DEF vars, routeVars, historyVars
<1>16. QED
  BY <1>3, <1>4, <1>5, <1>6, <1>7, <1>8, <1>9, <1>10, <1>11, <1>12, <1>13, <1>14, <1>15, Steps

\* A candidate whose message is deleted has reached InventoryService, or is in
\* the memory of the running run or of one that was cut short, under every fault.
THEOREM NoCandidateIsDropped == Spec => []CandidatesAreHanded
<1>1. Init => CandidateInv
  BY DEF Init, CandidateInv, Proposed
<1>2. CandidateInv => CandidatesAreHanded
  BY DEF CandidateInv, CandidatesAreHanded, Proposed
<1> QED
  BY <1>1, <1>2, CandidateInvStep, TypeCorrect, PTL DEF Spec

=============================================================================
