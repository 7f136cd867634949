-------------------------- MODULE SyntheticRunProofs --------------------------
(***************************************************************************)
(* Theorems about the synthetic run, for any number of workflows, whatever *)
(* their pages serve, any modes, and any number of faults and of writes by *)
(* the comparator and the reviewer.                                        *)
(***************************************************************************)
EXTENDS SyntheticRun, TLAPS

(***************************************************************************)
(* What a step is, one name for each action.                               *)
(***************************************************************************)
LEMMA StepCases ==
  ASSUME [Next]_vars
  PROVE  \/ \E mode \in Modes : Start(mode)
         \/ PullInventory \/ PullForDetection
         \/ TargetCompletes \/ TargetLeavesUnread \/ TargetFails
         \/ NothingToPush \/ VerifyReplacement \/ SendPush \/ FindPr \/ CreatePr
         \/ Flush \/ Finish \/ Kill
         \/ (Others /\ UNCHANGED <<runVars, faults>>)
         \/ UNCHANGED vars
BY DEF Next, RunStep

(***************************************************************************)
(* Type correctness: of the branch, whoever moves it, then of the run.     *)
(***************************************************************************)
Clones == [entries : SUBSET Entries, fetched : SUBSET Entries, lease : BOOLEAN, approved : SUBSET Entries]

LEMMA PullType ==
  ASSUME BranchTypeOK, NEW w \in Writers, NEW reset \in BOOLEAN, Pull(w, reset)
  PROVE  BranchTypeOK'
<1> USE DEF BranchTypeOK
<1>1. SwitchBranch(reset) \in Clones
  BY DEF SwitchBranch, Clone, Clones
<1>2. clone' \in [Writers -> Clones] /\ moved' \in [Writers -> BOOLEAN]
  BY <1>1 DEF Pull, Clones
<1> QED
  BY <1>2 DEF Pull, remoteVars, Clones

LEMMA PullDetectionType ==
  ASSUME BranchTypeOK, NEW w \in Writers, PullDetection(w)
  PROVE  BranchTypeOK'
<1> USE DEF BranchTypeOK
<1>1. [EmptyClone EXCEPT !.entries = base, !.approved = base] \in Clones
  BY DEF EmptyClone, Clones
<1>2. clone' \in [Writers -> Clones]
  BY <1>1 DEF PullDetection, Clones
<1> QED
  BY <1>2 DEF PullDetection, remoteVars, Clones

LEMMA PushType ==
  ASSUME BranchTypeOK, NEW w, NEW entries \in SUBSET Entries, Push(w, entries)
  PROVE  BranchTypeOK'
BY DEF BranchTypeOK, Push, BranchBecomes

LEMMA OthersType ==
  ASSUME BranchTypeOK, Others
  PROVE  BranchTypeOK'
<1> USE DEF BranchTypeOK
<1>1. CASE ComparatorPulls
  BY <1>1, PullType DEF ComparatorPulls, Writers
<1>2. ASSUME NEW e \in Entries, ComparatorPushes(e) PROVE BranchTypeOK'
  <2>1. EmptyClone \in Clones
    BY DEF EmptyClone, Clones
  <2>2. clone' \in [Writers -> Clones]
    BY <1>2, <2>1 DEF ComparatorPushes, Clones
  <2>3. branch' \subseteq Entries
    BY <1>2 DEF ComparatorPushes, BranchBecomes, Writers
  <2> QED
    BY <1>2, <2>2, <2>3 DEF ComparatorPushes, BranchBecomes, Clones
<1>3. CASE OthersOpen
  BY <1>3 DEF OthersOpen
<1>4. CASE Merge
  BY <1>4 DEF Merge, BranchAfterReview
<1>5. CASE Close
  BY <1>5 DEF Close, BranchAfterReview
<1>6. ASSUME NEW e \in Entries, Amend(e) PROVE BranchTypeOK'
  BY <1>6 DEF Amend, BranchBecomes
<1> QED
  BY <1>1, <1>2, <1>3, <1>4, <1>5, <1>6 DEF Others

\* A run that starts is a run, and where it goes next stays one.
Runs == [pc : PCs, mode : {"inventory", "detection", "all"}, at : Steps, thrown : BOOLEAN, linked : BOOLEAN,
         reported : SUBSET Passes, summary : BOOLEAN, exit : Exits]

FactsOK ==
  /\ ledger \in [{"processed", "failed", "unread"} -> SUBSET Targets]
  /\ failures \subseteq Targets
  /\ outcome \in [Targets -> {"none", "completed", "unread", "failed"}]
  /\ found \in [Targets -> SUBSET Entries]
  /\ told \in [Targets -> {"none", "pending", "delivered", "undelivered"}]

LEMMA TypeParts ==
  /\ TypeOK <=> BranchTypeOK /\ run \in Runs /\ FactsOK /\ faults \in Nat
  /\ TypeOK' <=> BranchTypeOK' /\ run' \in Runs /\ FactsOK' /\ faults' \in Nat
BY DEF TypeOK, Runs, FactsOK

LEMMA RunMoves ==
  ASSUME run \in Runs
  PROVE  /\ \A mode \in Modes, pc \in PCs : NewRun(mode, pc) \in Runs
         /\ NewRun("all", "off") \in Runs
         /\ \A pc \in PCs : Goto(pc) => run' \in Runs
         /\ \A pass \in Passes : Abort(pass) => run' \in Runs
         /\ Throw => run' \in Runs
         /\ Reviewable => run' \in Runs
         /\ AfterFlush \in Runs
         /\ run.at < Workflows => [run EXCEPT !.at = @ + 1] \in Runs
<1> USE RunAssumption DEF Runs
<1>1. /\ 1 \in Steps /\ "off" \in PCs /\ "flush" \in PCs /\ "finish" \in PCs /\ "pullDetection" \in PCs
      /\ "none" \in Exits /\ "aborted" \in Exits /\ "inventory" \in Passes
  BY DEF Steps, PCs, Exits, Passes
<1>2. \A mode \in Modes \cup {"all"}, pc \in PCs : NewRun(mode, pc) \in Runs
  BY <1>1 DEF NewRun
<1>3. \A pc \in PCs : Goto(pc) => run' \in Runs
  BY <1>1 DEF Goto
<1>4. ASSUME NEW pass \in Passes, Abort(pass) PROVE run' \in Runs
  <2>1. run.reported \cup {pass} \in SUBSET Passes
    BY Zenon
  <2> QED
    BY <1>1, <1>4, <2>1 DEF Abort
<1>5. (Throw => run' \in Runs) /\ (Reviewable => run' \in Runs)
  BY <1>1 DEF Throw, Reviewable
<1>6. AfterFlush \in Runs
  BY <1>1 DEF AfterFlush
<1>7. run.at < Workflows => [run EXCEPT !.at = @ + 1] \in Runs
  BY DEF Steps
<1> QED
  BY <1>1, <1>2, <1>3, <1>4, <1>5, <1>6, <1>7

LEMMA WalkType ==
  ASSUME TypeOK, run.pc \in Passes, NextWorkflow
  PROVE  Here \in Targets /\ run' \in Runs
<1>1. run \in Runs
  BY TypeParts
<1>2. Here \in Targets
  BY <1>1 DEF Here, Targets, Runs
<1>3. CASE run.at < Workflows
  BY <1>1, <1>2, <1>3, RunMoves DEF NextWorkflow
<1>4. CASE ~(run.at < Workflows)
  <2>1. 1 \in Steps /\ "push" \in PCs /\ "finish" \in PCs
    BY RunAssumption DEF Steps, PCs
  <2>2. run.reported \cup {"detection"} \in SUBSET Passes
    BY <1>1 DEF Runs, Passes
  <2>3. [run EXCEPT !.at = 1, !.pc = "push"] \in Runs
    BY <1>1, <2>1 DEF Runs
  <2>4. [run EXCEPT !.at = 1, !.pc = "finish", !.reported = @ \cup {"detection"}] \in Runs
    BY <1>1, <2>1, <2>2 DEF Runs
  <2> QED
    BY <1>2, <1>4, <2>3, <2>4 DEF NextWorkflow
<1> QED
  BY <1>2, <1>3, <1>4


LEMMA EndsType ==
  ASSUME TypeOK, run.pc \in Passes, NEW lists, NEW how \in {"completed", "unread", "failed"}, Ends(how, lists)
  PROVE  /\ BranchTypeOK' /\ run' \in Runs /\ Here \in Targets
         /\ outcome' \in [Targets -> {"none", "completed", "unread", "failed"}]
         /\ ledger' \in [{"processed", "failed", "unread"} -> SUBSET Targets]
<1>1. Here \in Targets /\ run' \in Runs
  BY WalkType DEF Ends
<1>2. BranchTypeOK'
  BY TypeParts DEF Ends, branchVars, remoteVars, BranchTypeOK
<1>3. outcome' \in [Targets -> {"none", "completed", "unread", "failed"}]
  BY <1>1, TypeParts DEF Ends, FactsOK
<1>4. ledger' \in [{"processed", "failed", "unread"} -> SUBSET Targets]
  BY <1>1, TypeParts DEF Ends, FactsOK
<1> QED
  BY <1>1, <1>2, <1>3, <1>4

LEMMA StartType ==
  ASSUME TypeOK, NEW mode \in Modes, Start(mode)
  PROVE  TypeOK'
<1>1. run' \in Runs
  <2>1. run \in Runs /\ "pull" \in PCs /\ "pullDetection" \in PCs
    BY TypeParts DEF PCs
  <2> QED
    BY <2>1, RunMoves DEF Start
<1>2. FactsOK'
  BY DEF Start, FactsOK, Nothing, NoTargets
<1>3. BranchTypeOK' /\ faults' \in Nat
  BY TypeParts DEF Start, branchVars, remoteVars, BranchTypeOK
<1> QED
  BY <1>1, <1>2, <1>3, TypeParts

LEMMA FindsEntries ==
  ASSUME TypeOK
  PROVE  Added \in SUBSET Entries /\ (run.pc \in Passes => Unauthorised \in SUBSET Entries)
<1> USE TypeParts DEF FactsOK
<1>1. \A w \in Steps : <<"inventory", w>> \in Targets
  BY DEF Targets, Passes
<1>2. Added \in SUBSET Entries
  <2> SUFFICES ASSUME NEW e \in Added PROVE e \in Entries
    OBVIOUS
  <2>1. PICK w \in Steps : e \in found[<<"inventory", w>>]
    BY DEF Added
  <2> QED
    BY <1>1, <2>1
<1>3. run.at \in Steps
  BY DEF Runs
<1>4. Unauthorised \in SUBSET Entries
  BY <1>3, RunAssumption DEF Unauthorised
<1> QED
  BY <1>2, <1>4

LEMMA TypeStep ==
  ASSUME TypeOK, [Next]_vars
  PROVE  TypeOK'
<1>0. BranchTypeOK /\ run \in Runs /\ FactsOK /\ faults \in Nat
  BY TypeParts
<1>1. (Fine \/ Fault) => faults' \in Nat
  BY <1>0 DEF Fine, Fault
<1>2. (UNCHANGED branchVars => BranchTypeOK') /\ (UNCHANGED <<ledger, failures, facts>> => FactsOK')
  BY <1>0 DEF branchVars, remoteVars, BranchTypeOK, facts, FactsOK
<1>3. /\ \A pc \in PCs : Goto(pc) => run' \in Runs
      /\ \A pass \in Passes : Abort(pass) => run' \in Runs
      /\ Throw => run' \in Runs
      /\ Reviewable => run' \in Runs
  BY <1>0, RunMoves
<1>4. /\ "inventory" \in PCs /\ "detection" \in PCs /\ "send" \in PCs /\ "flush" \in PCs
      /\ "createPr" \in PCs /\ "findPr" \in PCs /\ "off" \in PCs
      /\ "inventory" \in Passes /\ "detection" \in Passes
  BY DEF PCs, Passes
<1>5. CASE \E mode \in Modes : Start(mode)
  BY <1>5, StartType
<1>6. CASE PullInventory
  <2>1. BranchTypeOK'
    BY <1>0, <1>2, <1>6, PullType, BranchAssumption DEF PullInventory, StartsOver, Writers, BranchTypeOK
  <2> QED
    BY <2>1, <1>1, <1>2, <1>3, <1>4, <1>6, TypeParts DEF PullInventory
<1>7. CASE PullForDetection
  <2>1. BranchTypeOK'
    BY <1>0, <1>2, <1>7, PullDetectionType DEF PullForDetection, Writers
  <2> QED
    BY <2>1, <1>1, <1>2, <1>3, <1>4, <1>7, TypeParts DEF PullForDetection
<1>8. CASE TargetCompletes
  <2>1. /\ BranchTypeOK' /\ run' \in Runs /\ Here \in Targets
        /\ outcome' \in [Targets -> {"none", "completed", "unread", "failed"}]
        /\ ledger' \in [{"processed", "failed", "unread"} -> SUBSET Targets]
    BY <1>8, EndsType DEF TargetCompletes
  <2>2. found' \in [Targets -> SUBSET Entries]
    BY <1>0, <1>8, <2>1, FindsEntries DEF TargetCompletes, FactsOK
  <2>3. told' \in [Targets -> {"none", "pending", "delivered", "undelivered"}]
    BY <1>0, <1>8, <2>1 DEF TargetCompletes, FactsOK
  <2>4. failures' \subseteq Targets /\ faults' \in Nat
    BY <1>0, <1>1, <1>8, <2>1 DEF TargetCompletes, FactsOK
  <2> QED
    BY <2>1, <2>2, <2>3, <2>4, TypeParts DEF FactsOK
<1>9. CASE TargetLeavesUnread
  <2>1. /\ BranchTypeOK' /\ run' \in Runs
        /\ outcome' \in [Targets -> {"none", "completed", "unread", "failed"}]
        /\ ledger' \in [{"processed", "failed", "unread"} -> SUBSET Targets]
    BY <1>9, EndsType DEF TargetLeavesUnread
  <2> QED
    BY <1>0, <1>1, <1>9, <2>1, TypeParts DEF TargetLeavesUnread, FactsOK
<1>10. CASE TargetFails
  <2>1. /\ BranchTypeOK' /\ run' \in Runs
        /\ outcome' \in [Targets -> {"none", "completed", "unread", "failed"}]
        /\ ledger' \in [{"processed", "failed", "unread"} -> SUBSET Targets]
    BY <1>10, EndsType DEF TargetFails
  <2> QED
    BY <1>0, <1>1, <1>10, <2>1, TypeParts DEF TargetFails, FactsOK
<1>11. CASE NothingToPush
  BY <1>0, <1>2, <1>3, <1>4, <1>11, TypeParts DEF NothingToPush, facts, FactsOK
<1>12. CASE VerifyReplacement
  BY <1>1, <1>2, <1>3, <1>4, <1>12, TypeParts DEF VerifyReplacement
<1>13. CASE SendPush
  <2>1. clone["synthetic"].entries \cup Added \in SUBSET Entries
    BY <1>0, FindsEntries DEF BranchTypeOK, Writers
  <2>2. BranchTypeOK'
    BY <1>0, <1>2, <1>13, <2>1, PushType DEF SendPush
  <2>3. run' \in Runs
    BY <1>3, <1>4, <1>13 DEF SendPush, Pushed
  <2> QED
    BY <1>1, <1>2, <1>13, <2>2, <2>3, TypeParts DEF SendPush
<1>14. CASE FindPr
  BY <1>1, <1>2, <1>3, <1>4, <1>14, TypeParts DEF FindPr
<1>15. CASE CreatePr
  <2>1. BranchTypeOK'
    <3>1. CASE OpenPr
      BY <1>0, <3>1 DEF OpenPr, BranchTypeOK
    <3> QED
      BY <1>2, <1>15, <3>1 DEF CreatePr
  <2> QED
    BY <1>1, <1>2, <1>3, <1>15, <2>1, TypeParts DEF CreatePr
<1>16. CASE Flush
  <2>1. run' \in Runs
    BY <1>0, <1>16, RunMoves DEF Flush
  <2>2. run.at \in Steps /\ <<"inventory", run.at>> \in Targets
    BY <1>0 DEF Runs, Targets, Passes
  <2>3. told' \in [Targets -> {"none", "pending", "delivered", "undelivered"}] /\ failures' \subseteq Targets
    BY <1>0, <1>16, <2>2 DEF Flush, FactsOK
  <2>4. UNCHANGED <<branchVars, ledger, outcome, found>> /\ faults' \in Nat
    BY <1>1, <1>16 DEF Flush
  <2> QED
    BY <1>0, <1>2, <2>1, <2>3, <2>4, TypeParts DEF FactsOK
<1>17. CASE Finish
  <2>1. PICK sent \in BOOLEAN :
          /\ IF sent THEN Fine ELSE Fault
          /\ run' = [run EXCEPT !.pc = "off", !.summary = sent, !.exit = ExitCode(sent)]
    BY <1>17 DEF Finish
  <2>2. ExitCode(sent) \in Exits
    BY DEF ExitCode, Exits
  <2>3. run' \in Runs
    BY <1>0, <1>4, <2>1, <2>2 DEF Runs
  <2>4. faults' \in Nat
    BY <1>1, <2>1
  <2> QED
    BY <1>2, <1>17, <2>3, <2>4, TypeParts DEF Finish
<1>18. CASE Kill
  <2>1. run' \in Runs
    BY <1>0, <1>4, <1>18 DEF Kill, Runs, Exits
  <2> QED
    BY <1>1, <1>2, <1>18, <2>1, TypeParts DEF Kill
<1>19. CASE Others /\ UNCHANGED <<runVars, faults>>
  <2>1. BranchTypeOK'
    BY <1>0, <1>19, OthersType
  <2> QED
    BY <1>0, <1>2, <1>19, <2>1, TypeParts DEF runVars
<1>20. CASE UNCHANGED vars
  BY <1>0, <1>2, <1>20, TypeParts DEF vars, runVars
<1> QED
  BY <1>5, <1>6, <1>7, <1>8, <1>9, <1>10, <1>11, <1>12, <1>13, <1>14, <1>15, <1>16, <1>17, <1>18,
     <1>19, <1>20, StepCases

\* Type correctness: the run, its clone and both branches, in every mode.
THEOREM TypeCorrect == Spec => []TypeOK
<1>1. Init => TypeOK
  <2> SUFFICES ASSUME Init PROVE TypeOK
    OBVIOUS
  <2>1. BranchTypeOK
    BY BranchAssumption DEF Init, BranchInit, BranchTypeOK, EmptyClone, Writers
  <2>2. run \in Runs
    BY RunAssumption DEF Init, NewRun, Runs, PCs, Exits, Steps
  <2>3. FactsOK /\ faults \in Nat
    BY RunAssumption DEF Init, FactsOK, Nothing, NoTargets
  <2> QED
    BY <2>1, <2>2, <2>3, TypeParts
<1>2. TypeOK /\ [Next]_vars => TypeOK'
  BY TypeStep
<1> QED
  BY <1>1, <1>2, PTL DEF Spec

(***************************************************************************)
(* The shape of a run: how far it is, and what that says of its targets.   *)
(***************************************************************************)
BeforeFlush == {"pull", "inventory", "push", "send", "findPr", "createPr"}
InventoryPass == BeforeFlush \cup {"flush"}

\* A run that has exited is off, and a pass that is not walking starts at 1.
RunShape ==
  /\ run.exit # "none" => At("off")
  /\ run.pc \notin Passes \cup {"flush", "off"} => run.at = 1
  /\ run.pc \in InventoryPass => run.mode # "detection"
  /\ run.pc \in {"pullDetection", "detection"} => run.mode # "inventory"

\* The run is past this target.
Past(t) ==
  \/ /\ t[1] = "inventory" /\ run.mode # "detection"
     /\ run.pc \notin {"off", "pull", "inventory"} \/ (At("inventory") /\ t[2] < run.at)
  \/ /\ t[1] = "detection"
     /\ (At("detection") /\ t[2] < run.at) \/ (At("finish") /\ run.mode # "inventory")

\* And has not come to this one.
Ahead(t) ==
  \/ At("pull")
  \/ t[1] = "detection" /\ run.pc \in InventoryPass \cup {"pullDetection"}
  \/ t[1] = "inventory" /\ run.mode = "detection" /\ ~At("off")

Walked ==
  \A t \in Targets :
    /\ Past(t) => outcome[t] # "none"
    /\ Ahead(t) => outcome[t] = "none"

\* The ledger and the alert service know of all that went wrong.
Accounted ==
  \A t \in Targets :
    /\ outcome[t] = "failed" => t \in ledger["failed"]
    /\ outcome[t] = "unread" => t \in ledger["unread"]
    /\ told[t] = "undelivered" => t \in failures

\* What is found is told or to be told, and only of what the run came to.
Voiced ==
  \A t \in Targets :
    /\ told[t] = "none" <=> found[t] = {}
    /\ outcome[t] = "none" => found[t] = {}

\* Alerts are held back only in front of the flush, or for good by a kill.
Held ==
  \A t \in Targets :
    told[t] = "pending" =>
      \/ run.exit = "killed"
      \/ /\ t[1] = "inventory"
         /\ run.pc \in BeforeFlush \/ (At("flush") /\ t[2] >= run.at)

\* A pass that has begun has its report, or is still to emit it.
Reported ==
  \A t \in Targets :
    outcome[t] # "none" =>
      \/ run.exit = "killed"
      \/ t[1] \in run.reported
      \/ t[1] = "inventory" /\ run.pc \in InventoryPass
      \/ t[1] = "detection" /\ At("detection")

RunInv == RunShape /\ Walked /\ Accounted /\ Voiced /\ Held /\ Reported /\ GreenMeansTold

\* How each move of the run changes the fields the invariant reads.
Same == run'.mode = run.mode /\ run'.exit = run.exit /\ run'.reported = run.reported /\ run'.summary = run.summary

LEMMA Moves ==
  ASSUME run \in Runs
  PROVE  /\ \A pc : Goto(pc) => run'.pc = pc /\ run'.at = 1 /\ Same
         /\ Throw => run'.pc = "flush" /\ run'.at = run.at /\ Same
         /\ Reviewable => run'.pc = "flush" /\ run'.at = run.at /\ Same
         /\ \A pass : Abort(pass) =>
              /\ run'.pc = "off" /\ run'.at = run.at /\ run'.mode = run.mode /\ run'.summary = run.summary
              /\ run'.exit = "aborted" /\ run'.reported = run.reported \cup {pass}
BY DEF Runs, Goto, Throw, Reviewable, Abort, Same

\* Nothing is learnt or told while the run moves on within the inventory pass.
LEMMA StayInPass ==
  ASSUME RunInv, run \in Runs, UNCHANGED <<ledger, failures, facts>>, Same,
         run.pc \in {"push", "send", "findPr", "createPr"},
         run'.pc \in {"push", "send", "findPr", "createPr", "flush"}, run'.at = 1
  PROVE  RunInv'
<1> USE DEF RunInv, facts, Same
<1>1. RunShape'
  BY DEF RunShape, At, InventoryPass, BeforeFlush, Passes
<1>2. Walked'
  BY DEF Walked, Past, Ahead, At, InventoryPass, BeforeFlush
<1>3. Accounted' /\ Voiced'
  BY DEF Accounted, Voiced
<1>4. Held'
  BY DEF Held, At, BeforeFlush, Targets, Steps
<1>5. Reported'
  BY DEF Reported, At, InventoryPass, BeforeFlush
<1>6. GreenMeansTold'
  BY DEF RunShape, At, GreenMeansTold
<1> QED
  BY <1>1, <1>2, <1>3, <1>4, <1>5, <1>6

LEMMA StartsClean ==
  ASSUME TypeOK, NEW mode \in Modes, Start(mode)
  PROVE  RunInv'
<1>1. /\ run'.pc = (IF mode = "detection" THEN "pullDetection" ELSE "pull")
      /\ run'.mode = mode /\ run'.at = 1 /\ run'.exit = "none"
  BY DEF Start, NewRun
<1>2. \A t \in Targets : outcome'[t] = "none" /\ found'[t] = {} /\ told'[t] = "none"
  BY DEF Start, Nothing
<1>3. mode \in {"inventory", "detection", "all"}
  BY RunAssumption
<1>4. RunShape'
  BY <1>1, <1>3 DEF RunShape, At, InventoryPass, BeforeFlush, Passes
<1>5. Walked'
  BY <1>1, <1>2, <1>3 DEF Walked, Past, At
<1> QED
  BY <1>1, <1>2, <1>4, <1>5 DEF RunInv, Accounted, Voiced, Held, Reported, GreenMeansTold

LEMMA PullStep ==
  ASSUME TypeOK, RunInv, PullInventory \/ PullForDetection
  PROVE  RunInv'
<1> USE DEF RunInv, facts, Same
<1>0. run \in Runs
  BY TypeParts
<1>1. UNCHANGED <<ledger, failures, facts>>
  BY DEF PullInventory, PullForDetection
<1>2. \/ At("pull") /\ Goto("inventory")
      \/ At("pullDetection") /\ Goto("detection")
      \/ At("pull") /\ Abort("inventory")
      \/ At("pullDetection") /\ Abort("detection")
  BY DEF PullInventory, PullForDetection
<1>3. \/ At("pull") /\ run'.pc = "inventory" /\ run'.at = 1 /\ Same
      \/ At("pullDetection") /\ run'.pc = "detection" /\ run'.at = 1 /\ Same
      \/ /\ run.pc \in {"pull", "pullDetection"} /\ run'.pc = "off" /\ run'.exit = "aborted" /\ run'.mode = run.mode
         /\ run.reported \subseteq run'.reported
  BY <1>0, <1>2, Moves DEF At
<1>4. RunShape'
  BY <1>3 DEF RunShape, At, InventoryPass, BeforeFlush, Passes
<1>5. Walked'
  BY <1>1, <1>3 DEF Walked, Past, Ahead, At, InventoryPass, BeforeFlush, Targets, Steps
<1>6. Accounted' /\ Voiced'
  BY <1>1 DEF Accounted, Voiced
<1>7. Held'
  BY <1>1, <1>3 DEF Held, Voiced, Walked, Ahead, RunShape, At, BeforeFlush
<1>8. Reported'
  BY <1>1, <1>3 DEF Reported, Walked, Ahead, RunShape, At, InventoryPass, BeforeFlush
<1>9. GreenMeansTold'
  BY <1>3 DEF RunShape, At, GreenMeansTold
<1> QED
  BY <1>4, <1>5, <1>6, <1>7, <1>8, <1>9

LEMMA PushAndReviewStep ==
  ASSUME TypeOK, RunInv, NothingToPush \/ VerifyReplacement \/ SendPush \/ FindPr \/ CreatePr
  PROVE  RunInv'
<1>1. UNCHANGED <<ledger, failures, facts>>
  BY DEF NothingToPush, VerifyReplacement, SendPush, FindPr, CreatePr
<1>2. run.pc \in {"push", "send", "findPr", "createPr"} /\ run.at = 1
  BY DEF NothingToPush, VerifyReplacement, SendPush, FindPr, CreatePr, At, RunInv, RunShape, Passes
<1>3. Goto("flush") \/ Goto("send") \/ Goto("findPr") \/ Goto("createPr") \/ Throw \/ Reviewable
  BY DEF NothingToPush, VerifyReplacement, SendPush, FindPr, CreatePr, Pushed
<1>4. run \in Runs
  BY TypeParts
<1>5. run'.pc \in {"push", "send", "findPr", "createPr", "flush"} /\ run'.at = 1 /\ Same
  BY <1>2, <1>3, <1>4, Moves
<1> QED
  BY <1>1, <1>2, <1>4, <1>5, StayInPass

(***************************************************************************)
(* A target of a pass: what becomes of it, and where the run goes next.    *)
(***************************************************************************)
LEMMA NextMoves ==
  ASSUME run \in Runs, run.pc \in Passes, NextWorkflow
  PROVE  /\ run'.mode = run.mode /\ run'.exit = run.exit /\ run.reported \subseteq run'.reported
         /\ \/ run.at < Workflows /\ run'.pc = run.pc /\ run'.at = run.at + 1
            \/ run.at = Workflows /\ run.pc = "inventory" /\ run'.pc = "push" /\ run'.at = 1
            \/ /\ run.at = Workflows /\ run.pc = "detection" /\ run'.pc = "finish" /\ run'.at = 1
               /\ "detection" \in run'.reported
<1>1. run.at \in 1 .. Workflows /\ Workflows \in Nat
  BY RunAssumption DEF Runs, Steps
<1>2. CASE run.at < Workflows
  BY <1>2 DEF NextWorkflow, Runs
<1>3. CASE run.at = Workflows /\ At("inventory")
  BY <1>1, <1>3 DEF NextWorkflow, Runs, At
<1>4. CASE run.at = Workflows /\ run.pc = "detection"
  BY <1>1, <1>4 DEF NextWorkflow, Runs, At
<1> QED
  BY <1>1, <1>2, <1>3, <1>4 DEF Passes, At

LEMMA WalkStep ==
  ASSUME TypeOK, RunInv, TargetCompletes \/ TargetLeavesUnread \/ TargetFails
  PROVE  RunInv'
<1> USE DEF RunInv
<1>0. /\ run \in Runs /\ FactsOK /\ Workflows \in Nat /\ run.at \in 1 .. Workflows
      /\ \A t \in Targets : t = <<t[1], t[2]>> /\ t[1] \in Passes /\ t[2] \in 1 .. Workflows
  BY TypeParts, RunAssumption DEF Runs, Steps, Targets
<1>1. PICK how, lists :
        /\ how \in {"completed", "unread", "failed"} /\ run.pc \in Passes /\ Ends(how, lists)
        /\ how = "unread" => "unread" \in lists
        /\ how = "failed" => "failed" \in lists
  BY DEF TargetCompletes, TargetLeavesUnread, TargetFails
<1>2. Here \in Targets /\ Here[1] = run.pc /\ Here[2] = run.at
  BY <1>0, <1>1 DEF Here, Targets, Steps
<1>3. /\ how \in {"completed", "unread", "failed"}
      /\ outcome' = [outcome EXCEPT ![Here] = how]
      /\ \A list \in {"processed", "failed", "unread"} :
           ledger[list] \subseteq ledger'[list] /\ (list \in lists => Here \in ledger'[list])
  BY <1>0, <1>1 DEF Ends, FactsOK
<1>4. /\ run'.mode = run.mode /\ run'.exit = run.exit /\ run.reported \subseteq run'.reported
      /\ \/ run.at < Workflows /\ run'.pc = run.pc /\ run'.at = run.at + 1
         \/ run.at = Workflows /\ run.pc = "inventory" /\ run'.pc = "push" /\ run'.at = 1
         \/ /\ run.at = Workflows /\ run.pc = "detection" /\ run'.pc = "finish" /\ run'.at = 1
            /\ "detection" \in run'.reported
  BY <1>0, <1>1, NextMoves DEF Ends
<1>5. /\ \A t \in Targets : t # Here => told'[t] = told[t] /\ found'[t] = found[t]
      /\ told'[Here] = "none" <=> found'[Here] = {}
      /\ told'[Here] = "undelivered" => Here \in failures'
      /\ told'[Here] = "pending" => At("inventory")
      /\ failures \subseteq failures'
  <2>1. CASE TargetCompletes
    BY <1>0, <1>2, <2>1 DEF TargetCompletes, FactsOK, At
  <2>2. CASE UNCHANGED <<failures, found, told>>
    <3>1. told[Here] = "pending" => At("inventory")
      BY <1>1, <1>2, <1>0 DEF Held, RunShape, At, Passes, BeforeFlush
    <3> QED
      BY <1>2, <2>2, <3>1 DEF Accounted, Voiced
  <2> QED
    BY <2>1, <2>2 DEF TargetLeavesUnread, TargetFails
<1>6. run.exit = "none" /\ run'.exit = "none"
  BY <1>1, <1>4 DEF RunShape, At, Passes
<1>7. RunShape'
  BY <1>1, <1>4, <1>6 DEF RunShape, At, InventoryPass, BeforeFlush, Passes
<1>8. Walked'
  <2> SUFFICES ASSUME NEW t \in Targets
               PROVE  /\ Past(t)' => outcome'[t] # "none"
                      /\ Ahead(t)' => outcome'[t] = "none"
    BY DEF Walked
  <2>1. t[1] = run.pc /\ t[2] = run.at => t = Here
    BY <1>0 DEF Here
  <2>2. t[1] \in Passes /\ t[2] \in 1 .. Workflows
    BY <1>0
  <2>3. Past(t)' => Past(t) \/ t = Here
    BY <1>0, <1>1, <1>4, <2>1, <2>2 DEF Past, At, Passes, RunShape, InventoryPass, BeforeFlush
  <2>4. Ahead(t)' => Ahead(t) /\ t # Here
    BY <1>0, <1>1, <1>2, <1>4, <2>2 DEF Ahead, At, Passes, RunShape, InventoryPass, BeforeFlush
  <2>5. outcome'[t] = (IF t = Here THEN how ELSE outcome[t])
    BY <1>0, <1>2, <1>3 DEF FactsOK
  <2> QED
    BY <1>3, <2>3, <2>4, <2>5 DEF Walked
<1>9. Accounted'
  BY <1>0, <1>1, <1>2, <1>3, <1>5 DEF Accounted, FactsOK
<1>10. Voiced'
  BY <1>0, <1>2, <1>3, <1>5 DEF Voiced, FactsOK
<1>11. Held'
  BY <1>0, <1>1, <1>2, <1>4, <1>5, <1>6 DEF Held, At, BeforeFlush, Passes
<1>12. Reported'
  BY <1>0, <1>1, <1>2, <1>3, <1>4, <1>6 DEF Reported, At, InventoryPass, BeforeFlush, Passes, FactsOK
<1>13. GreenMeansTold'
  BY <1>6 DEF GreenMeansTold
<1> QED
  BY <1>7, <1>8, <1>9, <1>10, <1>11, <1>12, <1>13

(***************************************************************************)
(* The flush, and the end of the run.                                      *)
(***************************************************************************)
LEMMA FlushMoves ==
  ASSUME run \in Runs, Flush
  PROVE  /\ run'.mode = run.mode /\ run.reported \subseteq run'.reported
         /\ \/ run.at < Workflows /\ run'.pc = run.pc /\ run'.at = run.at + 1 /\ run'.exit = run.exit
            \/ /\ run.at = Workflows /\ "inventory" \in run'.reported
               /\ \/ run'.pc = "off" /\ run'.exit = "aborted"
                  \/ /\ run'.pc = (IF run.mode = "all" THEN "pullDetection" ELSE "finish")
                     /\ run'.at = 1 /\ run'.exit = run.exit
<1>1. run.at \in 1 .. Workflows /\ Workflows \in Nat
  BY RunAssumption DEF Runs, Steps
<1>2. CASE run.at < Workflows
  BY <1>2 DEF Flush, Runs
<1>3. CASE run.at = Workflows /\ run.thrown
  BY <1>1, <1>3 DEF Flush, AfterFlush, Runs
<1>4. CASE run.at = Workflows /\ ~run.thrown
  BY <1>1, <1>4 DEF Flush, AfterFlush, Runs
<1> QED
  BY <1>1, <1>2, <1>3, <1>4

LEMMA FlushStep ==
  ASSUME TypeOK, RunInv, Flush
  PROVE  RunInv'
<1> USE DEF RunInv
<1> DEFINE here == <<"inventory", run.at>>
<1>0. /\ run \in Runs /\ FactsOK /\ Workflows \in Nat /\ run.at \in 1 .. Workflows
      /\ \A t \in Targets : t = <<t[1], t[2]>> /\ t[1] \in Passes /\ t[2] \in 1 .. Workflows
  BY TypeParts, RunAssumption DEF Runs, Steps, Targets
<1>1. here \in Targets
  BY <1>0 DEF Targets, Passes, Steps
<1>2. run.pc = "flush" /\ run.exit = "none"
  BY DEF Flush, At, RunShape
<1>3. /\ run'.mode = run.mode /\ run.reported \subseteq run'.reported
      /\ \/ run.at < Workflows /\ run'.pc = run.pc /\ run'.at = run.at + 1 /\ run'.exit = run.exit
         \/ /\ run.at = Workflows /\ "inventory" \in run'.reported
            /\ \/ run'.pc = "off" /\ run'.exit = "aborted"
               \/ /\ run'.pc = (IF run.mode = "all" THEN "pullDetection" ELSE "finish")
                  /\ run'.at = 1 /\ run'.exit = run.exit
  BY <1>0, FlushMoves
<1>4. outcome' = outcome /\ found' = found /\ ledger' = ledger
  BY DEF Flush
<1>5. /\ \A t \in Targets : t # here => told'[t] = told[t]
      /\ told'[here] # "pending"
      /\ told'[here] = "none" <=> told[here] = "none"
      /\ told'[here] = "undelivered" => here \in failures'
      /\ failures \subseteq failures'
  BY <1>0, <1>1 DEF Flush, FactsOK, Accounted
<1>6. RunShape'
  BY <1>2, <1>3, <1>0 DEF RunShape, At, InventoryPass, BeforeFlush, Passes, Runs
<1>7. Walked'
  BY <1>0, <1>2, <1>3, <1>4 DEF Walked, Past, Ahead, At, InventoryPass, BeforeFlush, RunShape, Runs
<1>8. Accounted' /\ Voiced'
  BY <1>1, <1>4, <1>5 DEF Accounted, Voiced
<1>9. Held'
  BY <1>0, <1>1, <1>2, <1>3, <1>5 DEF Held, At, BeforeFlush
<1>10. Reported'
  BY <1>2, <1>3, <1>4 DEF Reported, At, InventoryPass, BeforeFlush
<1>11. GreenMeansTold'
  BY <1>2, <1>3 DEF GreenMeansTold
<1> QED
  BY <1>6, <1>7, <1>8, <1>9, <1>10, <1>11

LEMMA FinishStep ==
  ASSUME TypeOK, RunInv, Finish
  PROVE  RunInv'
<1> USE DEF RunInv
<1>0. run \in Runs /\ FactsOK
  BY TypeParts
<1>1. PICK sent \in BOOLEAN : run' = [run EXCEPT !.pc = "off", !.summary = sent, !.exit = ExitCode(sent)]
  BY DEF Finish
<1>2. /\ run'.pc = "off" /\ run'.mode = run.mode /\ run'.reported = run.reported
      /\ run'.exit = ExitCode(sent) /\ run'.summary = sent
  BY <1>0, <1>1 DEF Runs
<1>3. UNCHANGED <<ledger, failures, facts>> /\ run.pc = "finish" /\ run.exit = "none"
  BY DEF Finish, At, RunShape
<1>4. RunShape'
  BY <1>2 DEF RunShape, At, InventoryPass, BeforeFlush
<1>5. Walked'
  BY <1>2 DEF Walked, Past, Ahead, At, InventoryPass, BeforeFlush
<1>6. Accounted' /\ Voiced'
  BY <1>3 DEF facts, Accounted, Voiced
<1>7. Held'
  BY <1>3 DEF facts, Held, At, BeforeFlush
<1>8. Reported'
  BY <1>2, <1>3 DEF facts, Reported, At, InventoryPass, BeforeFlush
<1>9. GreenMeansTold'
  <2> SUFFICES ASSUME ExitCode(sent) = "green", NEW t \in PassesOf(run.mode) \X Steps
               PROVE  sent /\ outcome[t] = "completed" /\ told[t] = (IF found[t] = {} THEN "none" ELSE "delivered")
    BY <1>2, <1>3 DEF GreenMeansTold, facts, ExitCode
  <2>1. t \in Targets /\ (t[1] = "inventory" => run.mode # "detection") /\ (t[1] = "detection" => run.mode # "inventory")
    BY <1>0 DEF PassesOf, Targets, Passes, Runs
  <2>2. sent /\ ledger["failed"] = {} /\ ledger["unread"] = {} /\ failures = {}
    BY DEF ExitCode
  <2>3. outcome[t] # "none"
    BY <1>3, <2>1 DEF Walked, Past, At, Targets, Passes
  <2>4. outcome[t] = "completed" /\ told[t] # "undelivered"
    BY <1>0, <2>1, <2>2, <2>3 DEF Accounted, FactsOK
  <2>5. told[t] # "pending"
    BY <1>3, <2>1 DEF Held, At, BeforeFlush
  <2> QED
    BY <1>0, <2>1, <2>2, <2>4, <2>5 DEF Voiced, FactsOK
<1> QED
  BY <1>4, <1>5, <1>6, <1>7, <1>8, <1>9

LEMMA KillStep ==
  ASSUME TypeOK, RunInv, Kill
  PROVE  RunInv'
<1> USE DEF RunInv
<1>1. run'.pc = "off" /\ run'.exit = "killed"
  BY TypeParts DEF Kill, Runs
<1>2. UNCHANGED <<ledger, failures, facts>>
  BY DEF Kill
<1>3. Accounted' /\ Voiced'
  BY <1>2 DEF facts, Accounted, Voiced
<1>4. RunShape' /\ Walked'
  BY <1>1 DEF RunShape, Walked, Past, Ahead, At, InventoryPass, BeforeFlush
<1> QED
  BY <1>1, <1>3, <1>4 DEF Held, Reported, GreenMeansTold

LEMMA RunFrame ==
  ASSUME RunInv, UNCHANGED runVars
  PROVE  RunInv'
BY DEF runVars, facts, RunInv, RunShape, Walked, Past, Ahead, Accounted, Voiced, Held, Reported, GreenMeansTold, At

LEMMA RunInvariant == Spec => []RunInv
<1>1. Init => RunInv
  BY DEF Init, NewRun, Nothing, RunInv, RunShape, Walked, Past, Ahead, Accounted, Voiced, Held, Reported,
         GreenMeansTold, At, InventoryPass, BeforeFlush
<1>2. TypeOK /\ RunInv /\ [Next]_vars => RunInv'
  BY StepCases, StartsClean, PullStep, WalkStep, PushAndReviewStep, FlushStep, FinishStep, KillStep, RunFrame
     DEF vars
<1> QED
  BY <1>1, <1>2, TypeCorrect, PTL DEF Spec

(***************************************************************************)
(* What the exit says.                                                     *)
(***************************************************************************)
\* A green run has walked every target of its mode to the end, told all it
\* found, and sent its summary: the ledger hides no failure from the exit.
THEOREM GreenRunsAreClean == Spec => []GreenMeansTold
<1>1. RunInv => GreenMeansTold
  BY DEF RunInv
<1> QED
  BY <1>1, RunInvariant, PTL

\* Whatever push, pull request or delivery fails, the run sends what it held
\* back and emits the report of each pass it began, unless it is killed.
THEOREM NothingStaysBack == Spec => []NothingHeldBack
<1>1. TypeOK /\ RunInv => NothingHeldBack
  BY DEF RunInv, RunShape, Held, Reported, NothingHeldBack, At, InventoryPass, BeforeFlush
<1> QED
  BY <1>1, RunInvariant, TypeCorrect, PTL

(***************************************************************************)
(* The branch as each writer fetched it, until somebody moves it.          *)
(***************************************************************************)
BranchInv ==
  /\ ~live => branch = {}
  /\ ~clone["comparator"].lease
  /\ clone["comparator"] # EmptyClone /\ ~moved["comparator"]
       => branch \subseteq clone["comparator"].entries
  /\ run.pc \in {"inventory", "push", "send"} /\ ~moved["synthetic"]
       => /\ clone["synthetic"].fetched = branch
          /\ clone["synthetic"].lease \/ branch \subseteq clone["synthetic"].entries

\* Somebody else's write: the synthetic clone and run stay, and if it does not
\* count as moved, the branch is what it was.
LEMMA OthersLeaveTheRun ==
  ASSUME TypeOK, Others
  PROVE  /\ clone'["synthetic"] = clone["synthetic"]
         /\ \/ moved' = moved /\ branch' = branch /\ live' = live
            \/ moved'["synthetic"]
            \/ moved' = [moved EXCEPT !["comparator"] = FALSE] /\ branch' = branch /\ live' = live
<1> USE DEF TypeOK, BranchTypeOK, Writers
<1>1. CASE ComparatorPulls
  BY <1>1 DEF ComparatorPulls, Pull, remoteVars
<1>2. ASSUME NEW e \in Entries, ComparatorPushes(e) \/ Amend(e) PROVE clone'["synthetic"] = clone["synthetic"] /\ moved'["synthetic"]
  BY <1>2 DEF ComparatorPushes, Amend, BranchBecomes
<1>3. CASE OthersOpen \/ Merge \/ Close
  BY <1>3 DEF OthersOpen, Merge, Close, BranchAfterReview
<1> QED
  BY <1>1, <1>2, <1>3 DEF Others

\* A writer of the comparator's kind adds to what it fetched.
LEMMA ComparatorAdds ==
  ASSUME TypeOK, BranchInv, NEW e \in Entries, ComparatorPushes(e)
  PROVE  branch \subseteq branch'
<1>1. ~live \/ ~moved["comparator"]
  BY DEF ComparatorPushes, Accepts, BranchInv
<1>2. branch \subseteq clone["comparator"].entries
  BY <1>1 DEF ComparatorPushes, BranchInv
<1> QED
  BY <1>2 DEF ComparatorPushes, BranchBecomes

LEMMA BranchByOthers ==
  ASSUME TypeOK, BranchInv, Others, UNCHANGED run
  PROVE  BranchInv'
<1> USE DEF TypeOK, BranchTypeOK, Writers, BranchInv
<1>1. /\ run'.pc \in {"inventory", "push", "send"} /\ ~moved'["synthetic"]
           => /\ clone'["synthetic"].fetched = branch'
              /\ clone'["synthetic"].lease \/ branch' \subseteq clone'["synthetic"].entries
  BY OthersLeaveTheRun
<1>2. CASE ComparatorPulls
  <2>1. clone'["comparator"] = Clone(IF live THEN branch ELSE base, FALSE) /\ UNCHANGED remoteVars
    BY <1>2 DEF ComparatorPulls, Pull, SwitchBranch
  <2> QED
    BY <1>1, <2>1 DEF Clone, remoteVars
<1>3. ASSUME NEW e \in Entries, ComparatorPushes(e) PROVE BranchInv'
  <2>1. clone'["comparator"] = EmptyClone /\ live'
    BY <1>3 DEF ComparatorPushes, BranchBecomes
  <2> QED
    BY <1>1, <2>1 DEF EmptyClone
<1>4. CASE OthersOpen \/ Merge \/ Close
  BY <1>1, <1>4 DEF OthersOpen, Merge, Close, BranchAfterReview
<1>5. ASSUME NEW e \in Entries, Amend(e) PROVE BranchInv'
  BY <1>1, <1>5 DEF Amend, BranchBecomes
<1> QED
  BY <1>2, <1>3, <1>4, <1>5 DEF Others

LEMMA BranchByRun ==
  ASSUME TypeOK, BranchInv, RunStep
  PROVE  BranchInv'
<1> USE DEF TypeOK, BranchTypeOK, Writers
<1>0. run \in Runs
  BY TypeParts
<1>1. CASE PullInventory
  <2>1. CASE Pull("synthetic", StartsOver)
    <3>1. /\ clone'["synthetic"] = SwitchBranch(StartsOver) /\ clone'["comparator"] = clone["comparator"]
          /\ moved'["comparator"] = moved["comparator"] /\ UNCHANGED remoteVars
      BY <2>1 DEF Pull
    <3>2. SwitchBranch(StartsOver).fetched = branch
      BY DEF SwitchBranch, Clone
    <3>3. SwitchBranch(StartsOver).lease \/ branch \subseteq SwitchBranch(StartsOver).entries
      BY DEF SwitchBranch, Clone, BranchInv
    <3> QED
      BY <3>1, <3>2, <3>3 DEF BranchInv, remoteVars
  <2>2. CASE UNCHANGED branchVars /\ Abort("inventory")
    <3>1. run'.pc = "off"
      BY <1>0, <2>2, Moves
    <3> QED
      BY <2>2, <3>1 DEF branchVars, remoteVars, BranchInv
  <2> QED
    BY <1>1, <2>1, <2>2 DEF PullInventory
<1>2. CASE PullForDetection
  <2>1. run'.pc \in {"detection", "off"}
    BY <1>0, <1>2, Moves DEF PullForDetection
  <2>2. UNCHANGED <<remoteVars, moved>> /\ clone'["comparator"] = clone["comparator"]
    BY <1>2 DEF PullForDetection, PullDetection, branchVars
  <2> QED
    BY <2>1, <2>2 DEF BranchInv, remoteVars
<1>3. CASE SendPush
  <2>1. run'.pc \in {"findPr", "flush"}
    BY <1>0, <1>3, Moves DEF SendPush, Pushed
  <2>2. CASE UNCHANGED branchVars
    BY <2>1, <2>2 DEF branchVars, remoteVars, BranchInv
  <2>3. CASE Push("synthetic", clone["synthetic"].entries \cup Added)
    BY <2>1, <2>3 DEF Push, BranchBecomes, BranchInv
  <2> QED
    BY <1>3, <2>2, <2>3 DEF SendPush
<1>4. CASE UNCHANGED <<live, branch, clone, moved>> /\ (run.pc \in {"inventory", "push", "send"} \/ run'.pc \notin {"inventory", "push", "send"})
  BY <1>4 DEF BranchInv
<1>5. CASE TargetCompletes \/ TargetLeavesUnread \/ TargetFails
  <2>1. UNCHANGED branchVars /\ NextWorkflow /\ run.pc \in Passes
    BY <1>5 DEF TargetCompletes, TargetLeavesUnread, TargetFails, Ends
  <2>2. run.pc = "inventory" \/ run'.pc \notin {"inventory", "push", "send"}
    BY <1>0, <2>1, NextMoves DEF Passes
  <2> QED
    BY <1>4, <2>1, <2>2 DEF branchVars, remoteVars
<1>6. CASE NothingToPush \/ VerifyReplacement
  <2>1. UNCHANGED branchVars /\ run.pc = "push"
    BY <1>6 DEF NothingToPush, VerifyReplacement, At
  <2> QED
    BY <1>4, <2>1 DEF branchVars, remoteVars
<1>7. CASE FindPr \/ CreatePr
  <2>1. UNCHANGED <<live, branch, clone, moved>> /\ (Reviewable \/ Throw \/ Goto("createPr"))
    BY <1>7 DEF FindPr, CreatePr, OpenPr, branchVars, remoteVars
  <2>2. run'.pc \in {"flush", "createPr"}
    BY <1>0, <2>1, Moves
  <2> QED
    BY <1>4, <2>1, <2>2
<1>8. CASE Flush
  <2>1. run'.pc \in {"flush", "off", "pullDetection", "finish"} /\ UNCHANGED branchVars
    <3>1. run.pc = "flush"
      BY <1>8 DEF Flush, At
    <3> QED
      BY <1>0, <1>8, <3>1, FlushMoves DEF Flush
  <2> QED
    BY <1>4, <2>1 DEF branchVars, remoteVars
<1>9. CASE Finish
  <2>1. run'.pc = "off" /\ UNCHANGED branchVars
    BY <1>0, <1>9 DEF Finish, Runs
  <2> QED
    BY <1>4, <2>1 DEF branchVars, remoteVars
<1> QED
  BY <1>1, <1>2, <1>3, <1>5, <1>6, <1>7, <1>8, <1>9 DEF RunStep

LEMMA BranchInvariant == Spec => []BranchInv
<1>1. Init => BranchInv
  BY DEF Init, BranchInit, BranchInv, EmptyClone, NewRun, Writers
<1>2. TypeOK /\ BranchInv /\ [Next]_vars => BranchInv'
  <2> SUFFICES ASSUME TypeOK, BranchInv, [Next]_vars PROVE BranchInv'
    OBVIOUS
  <2>1. CASE RunStep
    BY <2>1, BranchByRun
  <2>2. CASE Others /\ UNCHANGED <<runVars, faults>>
    BY <2>2, BranchByOthers DEF runVars
  <2>3. ASSUME NEW mode \in Modes, Start(mode) PROVE BranchInv'
    <3>1. run'.pc \in {"pull", "pullDetection"} /\ UNCHANGED branchVars
      BY <2>3 DEF Start, NewRun
    <3> QED
      BY <3>1 DEF BranchInv, branchVars, remoteVars
  <2>4. CASE Kill
    <3>1. run'.pc = "off" /\ UNCHANGED branchVars
      BY <2>4, TypeParts DEF Kill, Runs
    <3> QED
      BY <3>1 DEF BranchInv, branchVars, remoteVars
  <2>5. CASE UNCHANGED vars
    BY <2>5 DEF vars, runVars, branchVars, remoteVars, BranchInv
  <2> QED
    BY <2>1, <2>2, <2>3, <2>4, <2>5 DEF Next
<1> QED
  BY <1>1, <1>2, TypeCorrect, PTL DEF Spec

\* Only a push that starts the branch over can lose an entry, and it replaces
\* no other branch than the one it fetched: the lease, and the fast-forward
\* rule for the rest, at the moment of the push and not of the pull.
LEMMA LossIsLeased ==
  ASSUME TypeOK, BranchInv, [Next]_vars, At("send"), live', ~ branch \subseteq branch'
  PROVE  clone["synthetic"].lease /\ clone["synthetic"].fetched = branch
<1> USE DEF TypeOK, BranchTypeOK, Writers
<1>1. CASE SendPush
  <2>1. Accepts("synthetic") /\ branch' = clone["synthetic"].entries \cup Added
    BY <1>1 DEF SendPush, Push, BranchBecomes, branchVars, remoteVars
  <2>2. ~live \/ ~moved["synthetic"]
    BY <2>1 DEF Accepts, BranchInv
  <2>3. ~ branch \subseteq clone["synthetic"].entries
    BY <2>1
  <2>4. ~moved["synthetic"]
    BY <2>2, <2>3 DEF BranchInv
  <2> QED
    BY <2>3, <2>4 DEF BranchInv, At
<1>2. CASE Others
  <2>1. ASSUME NEW e \in Entries, ComparatorPushes(e) PROVE FALSE
    BY <2>1, ComparatorAdds
  <2>2. CASE \E e \in Entries : Amend(e)
    BY <2>2 DEF Amend, BranchBecomes
  <2>3. CASE ComparatorPulls \/ OthersOpen \/ Merge \/ Close
    BY <2>3 DEF ComparatorPulls, Pull, OthersOpen, Merge, Close, BranchAfterReview, remoteVars
  <2> QED
    BY <1>2, <2>1, <2>2, <2>3 DEF Others
<1>3. CASE Kill \/ \E mode \in Modes : Start(mode)
  BY <1>3 DEF Kill, Start, branchVars, remoteVars
<1>4. CASE UNCHANGED vars
  BY <1>4 DEF vars, branchVars, remoteVars
<1> QED
  BY <1>1, <1>2, <1>3, <1>4, StepCases
     DEF At, PullInventory, PullForDetection, TargetCompletes, TargetLeavesUnread, TargetFails, Passes,
         NothingToPush, VerifyReplacement, FindPr, CreatePr, Flush, Finish

\* The run goes on to a push that would lose an entry only after it has asked
\* for the pull request: without a lease a push that is accepted loses none.
LEMMA LossIsVerified ==
  ASSUME TypeOK, BranchInv, [Next]_vars, At("push"), run'.pc = "send", live, Drops, Accepts("synthetic")
  PROVE  Reviewed /\ ~pr
<1> USE DEF TypeOK, BranchTypeOK, Writers
<1>1. run.pc = "push" /\ run'.pc # "push"
  BY DEF At
<1>2. ~ branch \subseteq clone["synthetic"].entries
  BY DEF Drops
<1>3. CASE VerifyReplacement
  <2>1. CASE ~clone["synthetic"].lease
    <3>1. ~moved["synthetic"]
      BY <2>1 DEF Accepts
    <3> QED
      BY <1>1, <1>2, <2>1, <3>1 DEF BranchInv
  <2>2. CASE clone["synthetic"].lease
    <3>1. ReplacementIsSafe \/ Throw
      BY <1>3, <2>2 DEF VerifyReplacement
    <3>2. Throw => run'.pc = "flush"
      BY DEF Throw
    <3> QED
      BY <3>1, <3>2 DEF ReplacementIsSafe
  <2> QED
    BY <2>1, <2>2
<1>4. CASE NothingToPush
  BY <1>4 DEF NothingToPush, Goto
<1>5. CASE UNCHANGED <<runVars, faults>>
  BY <1>1, <1>5 DEF runVars
<1>6. CASE Kill \/ \E mode \in Modes : Start(mode)
  BY <1>1, <1>6 DEF Kill, Start, At
<1>7. CASE UNCHANGED vars
  BY <1>1, <1>7 DEF vars, runVars
<1> QED
  BY <1>1, <1>3, <1>4, <1>5, <1>6, <1>7, StepCases
     DEF At, PullInventory, PullForDetection, TargetCompletes, TargetLeavesUnread, TargetFails, Passes,
         SendPush, FindPr, CreatePr, Flush, Finish

\* A push loses no entry but those of a branch that is as it was fetched, and
\* that no pull request held when the run went on to it.
THEOREM OnlyStaleEntriesDrop == Spec => DropsOnlyStale
<1>1. TypeOK /\ BranchInv /\ [Next]_vars
        => [/\ At("send") /\ live' /\ ~ branch \subseteq branch'
                 => clone["synthetic"].lease /\ clone["synthetic"].fetched = branch
            /\ At("push") /\ run'.pc = "send" /\ live /\ Drops /\ Accepts("synthetic")
                 => Reviewed /\ ~pr]_vars
  BY LossIsLeased, LossIsVerified
<1> QED
  BY <1>1, BranchInvariant, TypeCorrect, PTL DEF Spec, DropsOnlyStale

=============================================================================
