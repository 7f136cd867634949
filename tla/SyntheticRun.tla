----------------------------- MODULE SyntheticRun -----------------------------
(***************************************************************************)
(* One scheduled run of the synthetic monitor (executeWorkflows of         *)
(* src/main.ts, with RunLedger and the repository and pull-request         *)
(* services it drives), against the inventory repository of                *)
(* InventoryBranch and everybody else who writes to it.                    *)
(*                                                                         *)
(* The inventory pass walks the staging workflows, diffs what they found   *)
(* into the inventory branch, pushes it, opens a pull request and only     *)
(* then sends the alerts it held back; the detection pass walks the        *)
(* production workflows and alerts as it goes.  A run ends with a summary  *)
(* and an exit code, or in the middle: an error that escapes, or a kill.   *)
(***************************************************************************)
EXTENDS InventoryBranch

CONSTANTS
  Workflows,  \* how many, each a staging and a production target
  SeenBy,     \* per workflow: what its page serves that must be authorised
  Modes,      \* the modes the scheduler uses
  MaxFaults   \* bound on what goes wrong, over all runs

Steps   == 1 .. Workflows
Passes  == {"inventory", "detection"}
Targets == Passes \X Steps

ASSUME RunAssumption ==
  /\ Workflows \in Nat \ {0} /\ SeenBy \in [Steps -> SUBSET Entries]
  /\ Modes \subseteq {"inventory", "detection", "all"} /\ MaxFaults \in Nat

VARIABLES
  run,       \* where the run is; thrown is what it will rethrow
  ledger,    \* RunLedger: the targets processed, failed and unread
  failures,  \* the alert service's list of failed deliveries
  outcome,   \* per target: what really came of it,
  found,     \*   what there was to report,
  told,      \*   and where its alerts are
  faults     \* faults left

facts   == <<outcome, found, told>>
runVars == <<run, ledger, failures, facts>>
vars    == <<branchVars, runVars, faults>>

PCs   == {"off", "pull", "pullDetection", "push", "send", "findPr", "createPr", "flush", "finish"} \cup Passes
Exits == {"none", "green", "red", "aborted", "killed"}

PassesOf(mode) == IF mode = "all" THEN Passes ELSE {mode}

NoTargets == [processed |-> {}, failed |-> {}, unread |-> {}]

NewRun(mode, pc) ==
  [pc |-> pc, mode |-> mode, at |-> 1, thrown |-> FALSE, linked |-> FALSE,
   reported |-> {}, summary |-> FALSE, exit |-> "none"]

Nothing == [outcome |-> [t \in Targets |-> "none"], found |-> [t \in Targets |-> {}],
            told |-> [t \in Targets |-> "none"]]

Init ==
  /\ BranchInit
  /\ run = NewRun("all", "off") /\ ledger = NoTargets /\ failures = {}
  /\ outcome = Nothing.outcome /\ found = Nothing.found /\ told = Nothing.told
  /\ faults = MaxFaults

Fault == faults > 0 /\ faults' = faults - 1
Fine  == UNCHANGED faults

Goto(pc) == run' = [run EXCEPT !.pc = pc, !.at = 1]

At(pc) == run.pc = pc

\* An error no catch stops: no summary, but the report of the pass, from a finally.
Abort(pass) ==
  run' = [run EXCEPT !.pc = "off", !.exit = "aborted", !.reported = @ \cup {pass}]

(***************************************************************************)
(* Start and pull.                                                         *)
(***************************************************************************)
Start(mode) ==
  /\ At("off")
  /\ run' = NewRun(mode, IF mode = "detection" THEN "pullDetection" ELSE "pull")
  /\ ledger' = NoTargets /\ failures' = {}
  /\ outcome' = Nothing.outcome /\ found' = Nothing.found /\ told' = Nothing.told
  /\ UNCHANGED <<branchVars, faults>>

\* prepareInventoryBranch, then a clone of what it says.
PullInventory ==
  /\ At("pull")
  /\ \/ Pull("synthetic", StartsOver) /\ Goto("inventory") /\ Fine
     \/ UNCHANGED branchVars /\ Abort("inventory") /\ Fault
  /\ UNCHANGED <<ledger, failures, facts>>

PullForDetection ==
  /\ At("pullDetection")
  /\ \/ PullDetection("synthetic") /\ Goto("detection") /\ Fine
     \/ UNCHANGED branchVars /\ Abort("detection") /\ Fault
  /\ UNCHANGED <<ledger, failures, facts>>

(***************************************************************************)
(* The workflows of a pass, one after the other (mapGroupsSequentially).   *)
(***************************************************************************)
Here == <<run.pc, run.at>>

\* What a target that completes has to report.
Unauthorised == SeenBy[run.at] \ clone["synthetic"].approved

NextWorkflow ==
  run' = IF run.at < Workflows THEN [run EXCEPT !.at = @ + 1]
         ELSE IF At("inventory") THEN [run EXCEPT !.at = 1, !.pc = "push"]
         ELSE [run EXCEPT !.at = 1, !.pc = "finish", !.reported = @ \cup {"detection"}]

Ends(how, lists) ==
  /\ outcome' = [outcome EXCEPT ![Here] = how]
  /\ ledger' = [list \in DOMAIN ledger |-> IF list \in lists THEN ledger[list] \cup {Here} ELSE ledger[list]]
  /\ NextWorkflow /\ UNCHANGED branchVars

\* Staging alerts wait for the pull request, production alerts do not.
TargetCompletes ==
  /\ run.pc \in Passes
  /\ found' = [found EXCEPT ![Here] = Unauthorised]
  /\ \/ /\ At("inventory") \/ Unauthorised = {}
        /\ told' = [told EXCEPT ![Here] = IF Unauthorised = {} THEN "none" ELSE "pending"]
        /\ Fine /\ UNCHANGED failures
     \/ /\ At("detection") /\ Unauthorised # {}
        /\ \/ told' = [told EXCEPT ![Here] = "delivered"] /\ Fine /\ UNCHANGED failures
           \/ told' = [told EXCEPT ![Here] = "undelivered"] /\ Fault /\ failures' = failures \cup {Here}
  /\ Ends("completed", {"processed"})

\* A script of the payment page could not be read: the one to be found, say.
TargetLeavesUnread ==
  /\ run.pc \in Passes /\ Fault
  /\ Ends("unread", {"processed", "unread"}) /\ UNCHANGED <<failures, found, told>>

TargetFails ==
  /\ run.pc \in Passes /\ Fault
  /\ Ends("failed", {"failed"}) /\ UNCHANGED <<failures, found, told>>

(***************************************************************************)
(* Diff, push and pull request.                                            *)
(***************************************************************************)
\* An entry that covers a finding, approved or pending, is not added again.
Added == UNION {found[<<"inventory", w>>] : w \in Steps} \ clone["synthetic"].entries

\* Slip: without the try around the push.
ThrowsAtOnce == run' = [run EXCEPT !.pc = "off", !.exit = "aborted", !.reported = @ \cup {"inventory"}]

\* The flush of the alerts comes first.
Throw == run' = [run EXCEPT !.pc = "flush", !.thrown = TRUE]

\* No commit message, no push and no pull request.
NothingToPush ==
  /\ At("push") /\ Added = {}
  /\ Goto("flush") /\ UNCHANGED <<branchVars, ledger, failures, facts, faults>>

\* A push that will replace the branch first asks if it came under review.
VerifyReplacement ==
  /\ At("push") /\ Added # {}
  /\ \/ (~clone["synthetic"].lease \/ ReplacementIsSafe) /\ Goto("send") /\ Fine
     \/ clone["synthetic"].lease /\ ~ReplacementIsSafe /\ Throw /\ Fine
     \/ clone["synthetic"].lease /\ Throw /\ Fault
  /\ UNCHANGED <<branchVars, ledger, failures, facts>>

\* Without a token or off GitHub ensureInventoryPullRequest has nothing to do.
Pushed == Goto(IF Reviewed THEN "findPr" ELSE "flush")

SendPush ==
  /\ At("send")
  /\ LET send == Push("synthetic", clone["synthetic"].entries \cup Added) IN
     \/ send /\ Pushed /\ Fine
     \/ send /\ Throw /\ Fault                \* pushed, and the answer lost
     \/ ~Accepts("synthetic") /\ UNCHANGED branchVars /\ Throw /\ Fine
     \/ UNCHANGED branchVars /\ Throw /\ Fault
  /\ UNCHANGED <<ledger, failures, facts>>

Reviewable == run' = [run EXCEPT !.pc = "flush", !.linked = TRUE]

FindPr ==
  /\ At("findPr")
  /\ \/ pr /\ Reviewable /\ Fine
     \/ ~pr /\ Goto("createPr") /\ Fine
     \/ Throw /\ Fault
  /\ UNCHANGED <<branchVars, ledger, failures, facts>>

\* Refused because one was opened meanwhile, the query is made again.
CreatePr ==
  /\ At("createPr")
  /\ \/ ~pr /\ OpenPr /\ Reviewable /\ Fine
     \/ ~pr /\ OpenPr /\ Throw /\ Fault
     \/ pr /\ UNCHANGED branchVars /\ Reviewable /\ Fine
     \/ ~live /\ UNCHANGED branchVars /\ Throw /\ Fine
     \/ UNCHANGED branchVars /\ Throw /\ Fault
  /\ UNCHANGED <<ledger, failures, facts>>

(***************************************************************************)
(* The alerts held back, and the end of the run.                           *)
(***************************************************************************)
AfterFlush ==
  IF run.thrown THEN [run EXCEPT !.pc = "off", !.exit = "aborted", !.linked = FALSE, !.reported = @ \cup {"inventory"}]
  ELSE [run EXCEPT !.pc = IF run.mode = "all" THEN "pullDetection" ELSE "finish",
                   !.at = 1, !.linked = FALSE, !.reported = @ \cup {"inventory"}]

\* The alert service lists a delivery that fails and goes on.
Flush ==
  /\ At("flush")
  /\ LET t == <<"inventory", run.at>> IN
     \/ told[t] # "pending" /\ UNCHANGED <<told, failures>> /\ Fine
     \/ told[t] = "pending" /\ told' = [told EXCEPT ![t] = "delivered"] /\ UNCHANGED failures /\ Fine
     \/ told[t] = "pending" /\ told' = [told EXCEPT ![t] = "undelivered"] /\ failures' = failures \cup {t} /\ Fault
  /\ run' = IF run.at < Workflows THEN [run EXCEPT !.at = @ + 1] ELSE AfterFlush
  /\ UNCHANGED <<branchVars, ledger, outcome, found>>

\* Slip: the deliveries are counted before the summary is sent, not after.
CountedBefore(sent) ==
  IF ledger.failed \cup ledger.unread \cup failures = {} THEN "green" ELSE "red"

\* RunLedger.finish: red unless all is well, the summary's own delivery included.
ExitCode(sent) ==
  IF sent /\ ledger.failed \cup ledger.unread \cup failures = {} THEN "green" ELSE "red"

Finish ==
  /\ At("finish")
  /\ \E sent \in BOOLEAN :
       /\ IF sent THEN Fine ELSE Fault
       /\ run' = [run EXCEPT !.pc = "off", !.summary = sent, !.exit = ExitCode(sent)]
  /\ UNCHANGED <<branchVars, ledger, failures, facts>>

\* The job is cancelled, or dies.
Kill ==
  /\ ~At("off") /\ Fault
  /\ run' = [run EXCEPT !.pc = "off", !.exit = "killed"]
  /\ UNCHANGED <<branchVars, ledger, failures, facts>>

RunStep ==
  \/ PullInventory \/ PullForDetection
  \/ TargetCompletes \/ TargetLeavesUnread \/ TargetFails
  \/ NothingToPush \/ VerifyReplacement \/ SendPush \/ FindPr \/ CreatePr
  \/ Flush \/ Finish

Next ==
  \/ \E mode \in Modes : Start(mode)
  \/ RunStep \/ Kill
  \/ Others /\ UNCHANGED <<runVars, faults>>

Spec == Init /\ [][Next]_vars

\* The scheduler starts each of its modes again and again, and a run goes on.
FairSpec ==
  /\ Spec /\ WF_vars(RunStep)
  /\ \A mode \in Modes : SF_vars(Start(mode))

(***************************************************************************)
(* Properties.                                                             *)
(***************************************************************************)
\* The variables stay in their sets: ledgers hold targets, the clone entries.
TypeOK ==
  /\ BranchTypeOK
  /\ run \in [pc : PCs, mode : {"inventory", "detection", "all"}, at : Steps, thrown : BOOLEAN, linked : BOOLEAN,
              reported : SUBSET Passes, summary : BOOLEAN, exit : Exits]
  /\ ledger \in [{"processed", "failed", "unread"} -> SUBSET Targets]
  /\ failures \subseteq Targets
  /\ outcome \in [Targets -> {"none", "completed", "unread", "failed"}]
  /\ found \in [Targets -> SUBSET Entries]
  /\ told \in [Targets -> {"none", "pending", "delivered", "undelivered"}]
  /\ faults \in Nat

\* A run exits green only if every target of its mode completed and was read
\* in full, every finding was delivered, and so was the summary.
GreenMeansTold ==
  run.exit = "green" =>
    /\ run.summary
    /\ \A t \in PassesOf(run.mode) \X Steps :
         outcome[t] = "completed" /\ told[t] = (IF found[t] = {} THEN "none" ELSE "delivered")

\* Whatever push, pull request or delivery does, a run that is not killed has
\* sent what it held back and emitted the report of each pass it began.
NothingHeldBack ==
  run.exit \in {"green", "red", "aborted"} =>
    \A t \in Targets : told[t] # "pending" /\ (outcome[t] # "none" => t[1] \in run.reported)

\* What the push would leave out of the remote branch as it is now.
Drops == ~ branch \subseteq clone["synthetic"].entries \cup Added

\* A push of the run loses no entry but those of a branch that is still what
\* was fetched; and the run goes on to a push that would lose any, and would
\* be accepted, only while no pull request holds the branch.
DropsOnlyStale ==
  [][/\ At("send") /\ live' /\ ~ branch \subseteq branch'
          => clone["synthetic"].lease /\ clone["synthetic"].fetched = branch
     /\ At("push") /\ run'.pc = "send" /\ live /\ Drops /\ Accepts("synthetic")
          => Reviewed /\ ~pr]_vars

\* What a page keeps serving is, again and again, approved or under review:
\* no failed push or pull request and no kill leaves it on a dead branch.
Heals ==
  \A e \in UNION {SeenBy[w] : w \in Steps} :
    []<>(e \in base \/ (e \in branch /\ (Reviewed => pr)))

\* And until it is approved, each pass says so again and again: an entry that
\* is only proposed silences nothing.
KeepsTelling ==
  \A pass \in Passes, e \in UNION {SeenBy[w] : w \in Steps} :
    []<>(e \in base \/ \E w \in Steps : e \in found[<<pass, w>>] /\ told[<<pass, w>>] = "delivered")

=============================================================================
