----------------------------- MODULE RumCompare -----------------------------
(***************************************************************************)
(* The RUM comparator (src/rum/run.ts, drain.ts, route.ts) and the SQS     *)
(* queue it drains.  Runs follow one another (the workflow's concurrency   *)
(* group excludes overlap).  A run pulls both branches, receives batches,  *)
(* routes each message (alert, candidate or record), deletes the message   *)
(* when it has been routed, and after the drain turns its candidates into  *)
(* pending entries: diff, push, pull request.  A message that is not       *)
(* deleted reappears when its visibility lapses, and is dead-lettered      *)
(* after MaxReceives receives.                                             *)
(***************************************************************************)
EXTENDS Integers, FiniteSets, RumRoute

CONSTANTS
  Messages,     \* queue messages
  Pks,          \* novelty keys
  Scripts,      \* names an inventory entry can identify
  shape,        \* what each message carries
  refOf,        \* the inventory ref of each pass, the same commit perhaps
  NoMessage,
  MaxReceives,  \* redrive_policy.maxReceiveCount
  BatchSize,    \* RECEIVE_BATCH_SIZE
  MaxBatches,   \* MAX_BATCHES
  Faults        \* which of FaultKinds may happen

Outcomes   == {"ok", "rejected", "lost"}
Calls      == {"receive", "alert", "delete", "push", "pullRequest"}
Crash      == <<"run", "crash">>
Overrun    == <<"run", "overrun">>      \* a run outlives the visibility timeout
OtherWrite == <<"branch", "write">>     \* someone else pushes to the inventory branch
FaultKinds == (Calls \X {"rejected", "lost"}) \cup {Crash, Overrun, OtherWrite}

Shapes == [wellFormed : BOOLEAN, known : BOOLEAN, lane : Lanes,
           verdict : Verdicts, pk : Pks, script : Scripts]

ASSUME ShapeAssumption ==
  /\ shape \in [Messages -> Shapes]
  /\ DOMAIN refOf = Lanes
  /\ NoMessage \notin Messages
  /\ Faults \subseteq FaultKinds

ASSUME BoundAssumption ==
  MaxReceives \in Nat \ {0} /\ BatchSize \in Nat \ {0} /\ MaxBatches \in Nat \ {0}

Places == {"absent", "visible", "inflight", "deleted", "dead"}
Phases == {"off", "receive", "route", "release", "diff", "push", "pullRequest"}
Keys   == Pks \X {refOf[lane] : lane \in Lanes}

VARIABLES
  queue,      \* where SQS has each message
  receives,   \* its approximate receive count
  phase,      \* what the run does next; "off" between runs
  batch,      \* entries of the current batch that are not done
  batches,    \* batches received in this run
  current,    \* the routed message whose delete comes next
  seen,       \* this run's dedupe keys
  candidates, \* this run's candidates, in memory until the drain is over
  counts,     \* this run's DrainCounts
  branch,     \* entries per script on the remote inventory branch
  draft,      \* the clone: as pulled, then as diffed
  moved,      \* the remote branch is ahead of the clone
  told,       \* history: what has been done for each message
  alerted,    \* history: alerts delivered per key in this run
  handed,     \* history: messages whose candidate reached the diff
  cut         \* history: candidates in the memory of a run that was cut short

queueVars   == <<queue, receives>>
drainVars   == <<batch, batches, current, counts>>
routeVars   == <<seen, candidates>>
branchVars  == <<branch, draft, moved>>
historyVars == <<told, alerted, handed, cut>>
vars == <<queueVars, phase, drainVars, routeVars, branchVars, historyVars>>

\* rumDedupeKey: the pass a message is judged in contributes its ref only.
Key(m) == <<shape[m].pk, refOf[shape[m].lane]>>
Due(m) == DueOf(shape[m].lane, shape[m].verdict)

Happens(call, outcome) == outcome = "ok" \/ <<call, outcome>> \in Faults

NoCounts == [received |-> 0, routed |-> 0, invalid |-> 0, failed |-> 0]
Count(field, as) == IF field = as THEN counts[field] + 1 ELSE counts[field]
Tally(as) ==
  [received |-> counts.received + 1, routed |-> Count("routed", as),
   invalid |-> Count("invalid", as), failed |-> Count("failed", as)]

Init ==
  /\ queue = [m \in Messages |-> "absent"] /\ receives = [m \in Messages |-> 0]
  /\ phase = "off"
  /\ batch = {} /\ batches = 0 /\ current = NoMessage /\ counts = NoCounts
  /\ seen = {} /\ candidates = {}
  /\ branch = [s \in Scripts |-> 0] /\ draft = branch /\ moved = FALSE
  /\ told = [m \in Messages |-> {}]
  /\ alerted = [k \in Keys |-> 0] /\ handed = {} /\ cut = {}

(***************************************************************************)
(* The queue.                                                              *)
(***************************************************************************)
Enqueue(m) ==
  /\ queue[m] = "absent"
  /\ queue' = [queue EXCEPT ![m] = "visible"]
  /\ UNCHANGED <<receives, phase, drainVars, routeVars, branchVars, historyVars>>

\* 900 seconds exceed a run, unless the run hangs.
Lapse(m) ==
  /\ queue[m] = "inflight"
  /\ phase = "off" \/ Overrun \in Faults
  /\ queue' = [queue EXCEPT ![m] = "visible"]
  /\ UNCHANGED <<receives, phase, drainVars, routeVars, branchVars, historyVars>>

Redrive(m) ==
  /\ queue[m] = "visible" /\ receives[m] >= MaxReceives
  /\ queue' = [queue EXCEPT ![m] = "dead"]
  /\ UNCHANGED <<receives, phase, drainVars, routeVars, branchVars, historyVars>>

Receivable == {m \in Messages : queue[m] = "visible" /\ receives[m] < MaxReceives}

(***************************************************************************)
(* A run: runRumCompare up to the drain.                                   *)
(***************************************************************************)
Start ==
  /\ phase = "off"
  /\ phase' = "receive"
  /\ batch' = {} /\ batches' = 0 /\ current' = NoMessage /\ counts' = NoCounts
  /\ seen' = {} /\ candidates' = {}
  /\ draft' = branch /\ moved' = FALSE
  /\ alerted' = [k \in Keys |-> 0]
  /\ UNCHANGED <<queueVars, branch, told, handed, cut>>

\* The process dies; what the run holds in memory is gone.
Die ==
  /\ Crash \in Faults /\ phase # "off"
  /\ phase' = "off" /\ cut' = cut \cup candidates
  /\ UNCHANGED <<queueVars, drainVars, routeVars, branchVars, told, alerted, handed>>

(***************************************************************************)
(* drainQueue: an empty receive or the batch cap ends the loop; a failed   *)
(* receive is not caught.                                                  *)
(***************************************************************************)
\* Slip: the drain polls on through an empty receive.
ReceivePolling(ms, outcome) ==
  /\ phase = "receive" /\ batches < MaxBatches
  /\ Happens("receive", outcome)
  /\ IF outcome = "rejected" THEN UNCHANGED queueVars
     ELSE /\ queue' = [m \in Messages |-> IF m \in ms THEN "inflight" ELSE queue[m]]
          /\ receives' = [m \in Messages |-> IF m \in ms THEN receives[m] + 1 ELSE receives[m]]
  /\ phase' = IF outcome # "ok" THEN "off" ELSE IF ms = {} THEN "receive" ELSE "route"
  /\ batch' = IF outcome = "ok" THEN ms ELSE {}
  /\ UNCHANGED <<batches, current, counts, routeVars, branchVars, historyVars>>

Receive(ms, outcome) ==
  /\ phase = "receive" /\ batches < MaxBatches
  /\ Happens("receive", outcome)
  /\ IF outcome = "rejected" THEN UNCHANGED queueVars
     ELSE /\ queue' = [m \in Messages |-> IF m \in ms THEN "inflight" ELSE queue[m]]
          /\ receives' = [m \in Messages |-> IF m \in ms THEN receives[m] + 1 ELSE receives[m]]
  /\ phase' = IF outcome # "ok" THEN "off" ELSE IF ms = {} THEN "diff" ELSE "route"
  /\ batch' = IF outcome = "ok" THEN ms ELSE {}
  /\ batches' = batches + 1
  /\ cut' = IF outcome = "ok" THEN cut ELSE cut \cup candidates
  /\ UNCHANGED <<current, counts, routeVars, branchVars, told, alerted, handed>>

\* SQS answers a long poll with some of what is visible, at most a batch.
Deliveries ==
  IF Receivable = {} THEN {{}}
  ELSE {ms \in SUBSET Receivable : ms # {} /\ Cardinality(ms) <= BatchSize}

\* Slip: a drain that reaches the cap returns without its candidates.
OutOfBudgetReturns ==
  /\ phase = "receive" /\ batches >= MaxBatches
  /\ phase' = "off"
  /\ UNCHANGED <<queueVars, drainVars, routeVars, branchVars, historyVars>>

OutOfBudget ==
  /\ phase = "receive" /\ batches >= MaxBatches
  /\ phase' = "diff"
  /\ UNCHANGED <<queueVars, drainVars, routeVars, branchVars, historyVars>>

\* The loop goes on with what is left of the batch.
Done(m) ==
  /\ batch' = batch \ {m}
  /\ phase' = IF batch = {m} THEN "receive" ELSE "route"

\* Malformed body, unknown target, or an evaluation that throws: the message
\* is left for redelivery and, in the end, the dead-letter queue.
Leave(m) ==
  /\ phase = "route" /\ m \in batch
  /\ \/ ~shape[m].wellFormed /\ counts' = Tally("invalid")
     \/ /\ shape[m].wellFormed
        /\ ~shape[m].known \/ (Due(m) = "throw" /\ Key(m) \notin seen)
        /\ counts' = Tally("failed")
  /\ Done(m)
  /\ UNCHANGED <<queueVars, batches, current, routeVars, branchVars, historyVars>>

(***************************************************************************)
(* routeMessage.  A key is marked seen only after its outcome, and not at  *)
(* all when the alert could not be delivered.                              *)
(***************************************************************************)
Routable(m) ==
  phase = "route" /\ m \in batch /\ shape[m].wellFormed /\ shape[m].known

Release(m) == phase' = "release" /\ current' = m

Suppress(m) ==
  /\ Routable(m) /\ Key(m) \in seen
  /\ Release(m)
  /\ UNCHANGED <<queueVars, batch, batches, counts, routeVars, branchVars, historyVars>>

Tell(m, what) == told' = [told EXCEPT ![m] = @ \cup {what}]

Record(m) ==
  /\ Routable(m) /\ Key(m) \notin seen /\ Due(m) = "record"
  /\ Release(m) /\ Tell(m, "record")
  /\ seen' = seen \cup {Key(m)}
  /\ UNCHANGED <<queueVars, batch, batches, counts, candidates, branchVars, alerted, handed, cut>>

Propose(m) ==
  /\ Routable(m) /\ Key(m) \notin seen /\ Due(m) = "candidate"
  /\ Release(m) /\ Tell(m, "candidate")
  /\ seen' = seen \cup {Key(m)}
  /\ candidates' = candidates \cup {m}
  /\ UNCHANGED <<queueVars, batch, batches, counts, branchVars, alerted, handed, cut>>

\* Slip: the summary of the run does not count an alert that failed.
AlertForgotten(m, outcome) ==
  /\ Routable(m) /\ Key(m) \notin seen /\ Due(m) = "alert"
  /\ Happens("alert", outcome)
  /\ Release(m)
  /\ seen' = IF outcome = "ok" THEN seen \cup {Key(m)} ELSE seen
  /\ IF outcome = "rejected" THEN UNCHANGED <<told, alerted>>
     ELSE Tell(m, "alert") /\ alerted' = [alerted EXCEPT ![Key(m)] = @ + 1]
  /\ UNCHANGED <<queueVars, batch, batches, counts, candidates, branchVars, handed, cut>>

\* Slip: a delivered alert does not mark its key.
AlertUnmarked(m, outcome) ==
  /\ Routable(m) /\ Key(m) \notin seen /\ Due(m) = "alert"
  /\ Happens("alert", outcome)
  /\ Release(m)
  /\ Tell(m, IF outcome = "rejected" THEN "undelivered" ELSE "alert")
  /\ alerted' = IF outcome = "rejected" THEN alerted ELSE [alerted EXCEPT ![Key(m)] = @ + 1]
  /\ UNCHANGED <<queueVars, batch, batches, counts, routeVars, branchVars, handed, cut>>

Alert(m, outcome) ==
  /\ Routable(m) /\ Key(m) \notin seen /\ Due(m) = "alert"
  /\ Happens("alert", outcome)
  /\ Release(m)
  /\ seen' = IF outcome = "ok" THEN seen \cup {Key(m)} ELSE seen
  /\ Tell(m, IF outcome = "rejected" THEN "undelivered" ELSE "alert")
  /\ alerted' = IF outcome = "rejected" THEN alerted ELSE [alerted EXCEPT ![Key(m)] = @ + 1]
  /\ UNCHANGED <<queueVars, batch, batches, counts, candidates, branchVars, handed, cut>>

\* The delete of a routed message; it no longer finds one that was redriven.
Delete(outcome) ==
  /\ phase = "release"
  /\ Happens("delete", outcome)
  /\ queue' = IF outcome = "rejected" \/ queue[current] = "dead"
              THEN queue ELSE [queue EXCEPT ![current] = "deleted"]
  /\ counts' = Tally(IF outcome = "ok" THEN "routed" ELSE "failed")
  /\ Done(current) /\ current' = NoMessage
  /\ UNCHANGED <<receives, batches, routeVars, branchVars, historyVars>>

(***************************************************************************)
(* processCandidates, once the drain is over.                              *)
(***************************************************************************)
Named(s) == {m \in candidates : shape[m].script = s}

\* Slip: a pending entry does not cover its script.
AppendedAgain(s) == IF Named(s) # {} THEN draft[s] + 1 ELSE draft[s]

\* diff: a script that an entry covers, pending ones included, is skipped.
Appended(s) == IF draft[s] = 0 /\ Named(s) # {} THEN 1 ELSE draft[s]

Diff ==
  /\ phase = "diff"
  /\ draft' = [s \in Scripts |-> Appended(s)]
  /\ handed' = handed \cup candidates
  /\ phase' = IF draft' = draft THEN "off" ELSE "push"
  /\ UNCHANGED <<queueVars, drainVars, routeVars, branch, moved, told, alerted, cut>>

\* git refuses a push that is not a fast-forward.
Push(outcome) ==
  /\ phase = "push"
  /\ Happens("push", outcome)
  /\ branch' = IF outcome = "rejected" \/ moved THEN branch ELSE draft
  /\ phase' = IF outcome = "ok" /\ ~moved THEN "pullRequest" ELSE "off"
  /\ UNCHANGED <<queueVars, drainVars, routeVars, draft, moved, historyVars>>

OpenPullRequest(outcome) ==
  /\ phase = "pullRequest"
  /\ Happens("pullRequest", outcome)
  /\ phase' = "off"
  /\ UNCHANGED <<queueVars, drainVars, routeVars, branchVars, historyVars>>

\* --mode inventory, or a person, adds an entry the branch does not have.
WriteElsewhere(s) ==
  /\ OtherWrite \in Faults /\ branch[s] = 0
  /\ branch' = [branch EXCEPT ![s] = 1]
  /\ moved' = TRUE
  /\ UNCHANGED <<queueVars, phase, drainVars, routeVars, draft, historyVars>>

\* SQS answers a receive with m.
Deliver(m) == \E ms \in Deliveries : m \in ms /\ Receive(ms, "ok")

Work ==
  \/ \E outcome \in Outcomes :
       \/ \E ms \in Deliveries : Receive(ms, outcome)
       \/ \E m \in Messages : Alert(m, outcome)
       \/ Delete(outcome)
       \/ Push(outcome)
       \/ OpenPullRequest(outcome)
  \/ \E m \in Messages : Leave(m) \/ Suppress(m) \/ Record(m) \/ Propose(m)
  \/ OutOfBudget
  \/ Diff

Next ==
  \/ \E m \in Messages : Enqueue(m) \/ Lapse(m) \/ Redrive(m)
  \/ Start \/ Work \/ Die
  \/ \E s \in Scripts : WriteElsewhere(s)

Spec == Init /\ [][Next]_vars

\* The schedule starts a run every hour; a run that is started goes on until it
\* dies; a visibility timeout, being shorter than the hour, ends between two
\* runs; and of the receives that are made, SQS answers some with each message
\* it may deliver, so that runs that die do not put one off for ever.
Fairness ==
  /\ WF_vars(Start) /\ WF_vars(Work)
  /\ \A m \in Messages : SF_vars(Lapse(m)) /\ SF_vars(Deliver(m)) /\ WF_vars(Redrive(m))

FairSpec == Spec /\ Fairness

(***************************************************************************)
(* Properties.                                                             *)
(***************************************************************************)
TypeOK ==
  /\ queue \in [Messages -> Places]
  /\ receives \in [Messages -> 0..MaxReceives]
  /\ phase \in Phases
  /\ batch \subseteq Messages /\ batches \in 0..MaxBatches
  /\ current \in Messages \cup {NoMessage}
  /\ counts \in [received : Nat, routed : Nat, invalid : Nat, failed : Nat]
  /\ seen \subseteq Keys /\ candidates \subseteq Messages
  /\ branch \in [Scripts -> Nat] /\ draft \in [Scripts -> Nat] /\ moved \in BOOLEAN
  /\ told \in [Messages -> SUBSET {"alert", "undelivered", "record", "candidate"}]
  /\ alerted \in [Keys -> Nat] /\ handed \subseteq Messages /\ cut \subseteq Messages

\* What a message calls for has been done, for it or for one of the same key,
\* or its own alert failed and the summary says so.
Accounted(m) ==
  \/ \E n \in Messages : Key(n) = Key(m) /\ Due(n) \in told[n]
  \/ "undelivered" \in told[m]

\* A message leaves the queue by deletion only when it is accounted for, through
\* every crash, failed call, redelivery and in-run duplicate: one that is
\* suppressed has really been told in this run.
ReleasedWasTold == \A m \in Messages : queue[m] = "deleted" => Accounted(m)

\* The same, with no message standing in for one that calls for something else:
\* "delete only after the outcome is routed (alert delivered to AlertService,
\* candidate handed to InventoryService, or explicitly recorded)".
ReleasedWasRouted ==
  \A m \in Messages : queue[m] = "deleted" =>
    \/ \E n \in Messages : Key(n) = Key(m) /\ Due(m) \in told[n]
    \/ "undelivered" \in told[m]

\* However often SQS delivers a key within one run, it alerts once.
OneAlertPerRun == \A k \in Keys : alerted[k] <= 1

\* When the drain is over each delivery is counted once more than as received.
CountsAddUp ==
  phase \in {"diff", "push", "pullRequest"} =>
    counts.received = counts.routed + counts.invalid + counts.failed

\* Repeats of a script, under other keys and in other runs, and other writers
\* of the branch never leave it with two entries for the script.
OneEntryPerScript == \A s \in Scripts : branch[s] <= 1

\* A candidate whose message is deleted is in the memory of the running run or
\* has been handed to InventoryService: "delete only after the outcome is
\* routed (... candidate handed to InventoryService ...)".  Only a run that dies,
\* or cannot receive, before its diff takes candidates with it.
CandidatesAreHanded ==
  \A m \in Messages :
    queue[m] = "deleted" /\ "candidate" \in told[m]
      => m \in handed \cup cut \/ (phase # "off" /\ m \in candidates)

\* A run's push never drops an entry someone else put on the branch meanwhile.
EntriesKept == [][\A s \in Scripts : branch'[s] >= branch[s]]_vars

\* Every message is in the end deleted or dead-lettered.
Settles ==
  \A m \in Messages : queue[m] = "visible" ~> queue[m] \in {"deleted", "dead"}

=============================================================================
