---------------------------- MODULE RumPipeline ----------------------------
(***************************************************************************)
(* The whole path of a first sighting, collector and comparator together.  *)
(* The collector stamps an observation with the target id and the lane of  *)
(* its origin, and decides novelty on a key made of the target id and the  *)
(* script (collector/src/novelty.ts).  The decision is one atomic step     *)
(* here: Collector shows what it takes to make it one.  What it enqueues   *)
(* is drained by the runs of RumCompare.                                   *)
(***************************************************************************)
EXTENDS Integers, FiniteSets

CONSTANTS
  Origins, Targets, Scripts,
  targetOf,    \* origin_targets: the target id of an origin
  laneOf,      \* origin_targets: its target_type
  verdictOf,   \* what the comparison says of a script, per lane
  MaxSightings,\* bound: first sightings of one script on one origin
  NoMessage, MaxReceives, BatchSize, MaxBatches, Faults

ASSUME OriginAssumption ==
  /\ targetOf \in [Origins -> Targets]
  /\ laneOf \in [Origins -> {"inventory", "detection"}]
  /\ MaxSightings \in Nat \ {0}

Messages == Origins \X Scripts \X (1..MaxSightings)

\* Slip: the novelty key loses the target id.
NoveltyKeyUntargeted(o, s) == <<targetOf[CHOOSE p \in Origins : TRUE], s>>

\* buildNoveltyKey: the origin's lane is not part of it.
NoveltyKey(o, s) == <<targetOf[o], s>>

Pks == {NoveltyKey(o, s) : o \in Origins, s \in Scripts}

Stamped(o, s) ==
  [wellFormed |-> TRUE, known |-> TRUE, lane |-> laneOf[o],
   verdict |-> verdictOf[laneOf[o]][s], pk |-> NoveltyKey(o, s), script |-> s]

shape == [m \in Messages |-> Stamped(m[1], m[2])]

\* The two branches are at commits of their own.
refOf == [lane \in {"inventory", "detection"} |-> lane]

VARIABLES
  window,   \* the keys whose novelty window is open
  sighted,  \* history: the origins and scripts sighted
  queue, receives, phase, batch, batches, current, seen, candidates, counts,
  branch, draft, moved, told, alerted, handed, cut

Comparator == INSTANCE RumCompare

comparatorVars ==
  <<queue, receives, phase, batch, batches, current, seen, candidates, counts,
    branch, draft, moved, told, alerted, handed, cut>>

vars == <<window, sighted, comparatorVars>>

Init == window = {} /\ sighted = {} /\ Comparator!Init

Unsent(o, s) == {n \in 1..MaxSightings : queue[<<o, s, n>>] = "absent"}

\* A session reports script s from origin o.
Sight(o, s) ==
  /\ sighted' = sighted \cup {<<o, s>>}
  /\ IF NoveltyKey(o, s) \in window
     THEN UNCHANGED <<window, comparatorVars>>
     ELSE /\ Unsent(o, s) # {}
          /\ window' = window \cup {NoveltyKey(o, s)}
          /\ Comparator!Enqueue(<<o, s, CHOOSE n \in Unsent(o, s) : \A k \in Unsent(o, s) : n <= k>>)

\* Nobody has loaded the script for the length of the window.
Expire(pk) ==
  /\ pk \in window
  /\ window' = window \ {pk}
  /\ UNCHANGED <<sighted, comparatorVars>>

Compare ==
  /\ \/ Comparator!Start \/ Comparator!Work \/ Comparator!Die
     \/ \E m \in Messages : Comparator!Lapse(m) \/ Comparator!Redrive(m)
  /\ UNCHANGED <<window, sighted>>

Next ==
  \/ \E o \in Origins, s \in Scripts : Sight(o, s)
  \/ \E pk \in Pks : Expire(pk)
  \/ Compare

Run(A) == A /\ UNCHANGED <<window, sighted>>

Fairness ==
  /\ WF_vars(Run(Comparator!Start)) /\ WF_vars(Run(Comparator!Work))
  /\ \A m \in Messages :
       /\ SF_vars(Run(Comparator!Lapse(m)))
       /\ SF_vars(Run(Comparator!Deliver(m)))
       /\ WF_vars(Run(Comparator!Redrive(m)))

Spec == Init /\ [][Next]_vars /\ Fairness

(***************************************************************************)
(* Properties.                                                             *)
(***************************************************************************)
\* A person learns of it: an alert, a failed alert the run's summary reports,
\* or a message in the dead-letter queue, which alarms.
Surfaced(o, s) ==
  \E p \in Origins, n \in 1..MaxSightings :
    /\ targetOf[p] = targetOf[o] /\ laneOf[p] = "detection"
    /\ \/ told[<<p, s, n>>] \cap {"alert", "undelivered"} # {}
       \/ queue[<<p, s, n>>] = "dead"

\* "An unknown script first observed in production real-user traffic produces a
\* security alert" (SC-001): the collector's suppression of repeats and the
\* comparator's routing together never lose the first production sighting.
ProductionSurfaces ==
  \A o \in Origins, s \in Scripts :
    (/\ laneOf[o] = "detection" /\ verdictOf["detection"][s] = "unknown"
     /\ <<o, s>> \in sighted) ~> Surfaced(o, s)

\* The comparator's own promise, over the messages the collector sends.
Settles == Comparator!Settles

=============================================================================
