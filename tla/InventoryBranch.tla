---------------------------- MODULE InventoryBranch ----------------------------
(***************************************************************************)
(* The inventory repository as its writers meet it (src/stores/inventory/  *)
(* git.ts, inventory-branch-coordinator.ts, pull-request.ts): a detection  *)
(* branch of approved entries, an inventory branch of proposed ones and    *)
(* the pull request of the one into the other.                             *)
(*                                                                         *)
(* Two writers work on clones of their own: the synthetic run, which may   *)
(* start the branch over, and the comparator of real-user observations,    *)
(* which only adds.  A reviewer merges and closes pull requests, deletes   *)
(* branches and pushes to them.                                            *)
(***************************************************************************)
EXTENDS Integers, FiniteSets

CONSTANTS
  Entries,    \* what may be proposed
  Reviewed,   \* a GitHub repository and a token: pull requests are used
  MaxWrites   \* bound on what the comparator and the reviewer push

Writers == {"synthetic", "comparator"}

ASSUME BranchAssumption ==
  Reviewed \in BOOLEAN /\ MaxWrites \in Nat

VARIABLES
  base,      \* the entries of the detection branch
  live,      \* the remote has an inventory branch
  branch,    \* its entries
  pr,        \* it has an open pull request
  clone,     \* per writer: the working copy, and how it is to be pushed
  moved,     \* per writer: the remote branch is not what the clone fetched
  writes     \* pushes left to the comparator and the reviewer

remoteVars == <<base, live, branch, pr>>
branchVars == <<remoteVars, clone, moved, writes>>

\* entries: the working copy.  fetched: the remote branch as fetched.
\* lease: pushWithLease.  approved: what the comparison takes as authorised.
\* Slip: what is on the branch counts as approved, pending or not.
PendingCounts(entries, lease) ==
  [entries |-> entries, fetched |-> branch, lease |-> lease, approved |-> entries]

Clone(entries, lease) ==
  [entries |-> entries, fetched |-> branch, lease |-> lease, approved |-> entries \cap base]

EmptyClone == [entries |-> {}, fetched |-> {}, lease |-> FALSE, approved |-> {}]

BranchInit ==
  /\ base = {} /\ live = FALSE /\ branch = {} /\ pr = FALSE
  /\ clone = [w \in Writers |-> EmptyClone]
  /\ moved = [w \in Writers |-> FALSE]
  /\ writes = MaxWrites

(***************************************************************************)
(* pull: a fresh clone, then switchBranch.  Both callers name the          *)
(* detection branch as the base of a branch that does not exist.           *)
(***************************************************************************)
SwitchBranch(resetToBase) ==
  IF resetToBase THEN Clone(base, live)
  ELSE Clone(IF live THEN branch ELSE base, FALSE)

Pull(w, resetToBase) ==
  /\ clone' = [clone EXCEPT ![w] = SwitchBranch(resetToBase)]
  /\ moved' = [moved EXCEPT ![w] = FALSE]
  /\ UNCHANGED <<remoteVars, writes>>

\* The detection branch, read only.
PullDetection(w) ==
  /\ clone' = [clone EXCEPT ![w] = [EmptyClone EXCEPT !.entries = base, !.approved = base]]
  /\ UNCHANGED <<remoteVars, moved, writes>>

(***************************************************************************)
(* prepareInventoryBranch: a branch without an open pull request is stale. *)
(***************************************************************************)
\* Slip: the branch is taken up as it is, whether or not it is under review.
KeptAsItIs == FALSE

StartsOver == Reviewed /\ ~pr

\* Slip: what was found at the pull is taken to hold still.
FoundAtThePull == TRUE

\* assertInventoryBranchReplacementSafe, which a push with lease makes first.
ReplacementIsSafe == Reviewed /\ ~pr

(***************************************************************************)
(* push: commit, then git push.  A plain push must be a fast-forward of    *)
(* the remote branch, or create it; a push with lease replaces the branch  *)
(* if it still is what was fetched.                                        *)
(***************************************************************************)
\* Slip: a forced push without the lease.
AcceptsForced(w) == clone[w].lease \/ ~live \/ ~moved[w]

Accepts(w) ==
  IF clone[w].lease THEN ~moved[w] ELSE ~live \/ ~moved[w]

BranchBecomes(entries, writer) ==
  /\ live' = TRUE /\ branch' = entries
  /\ moved' = [w \in Writers |-> moved[w] \/ w # writer]

Push(w, entries) ==
  /\ Accepts(w)
  /\ BranchBecomes(entries, w)
  /\ UNCHANGED <<base, pr, clone, writes>>

\* GitHub keeps at most one open pull request per branch.
OpenPr ==
  /\ live /\ pr' = TRUE
  /\ UNCHANGED <<base, live, branch, clone, moved, writes>>

(***************************************************************************)
(* The others.                                                             *)
(***************************************************************************)
\* The comparator's run, of which RumCompare has the whole: it clones the
\* branch as it is,
ComparatorPulls ==
  /\ writes > 0
  /\ Pull("comparator", FALSE)

\* pushes a candidate,
ComparatorPushes(e) ==
  /\ writes > 0 /\ e \notin clone["comparator"].entries
  /\ clone["comparator"] # EmptyClone /\ Accepts("comparator")
  /\ BranchBecomes(clone["comparator"].entries \cup {e}, "comparator")
  /\ clone' = [clone EXCEPT !["comparator"] = EmptyClone]
  /\ writes' = writes - 1
  /\ UNCHANGED <<base, pr>>

\* and opens a pull request, or fails to.  So may a person.
OthersOpen ==
  /\ ~pr /\ writes > 0 /\ live
  /\ pr' = TRUE /\ writes' = writes - 1
  /\ UNCHANGED <<base, live, branch, clone, moved>>

\* A branch may outlive its pull request.
BranchAfterReview ==
  \/ UNCHANGED <<live, branch, moved>>
  \/ live' = FALSE /\ branch' = {} /\ moved' = [w \in Writers |-> TRUE]

Merge ==
  /\ pr /\ pr' = FALSE
  /\ base' = base \cup branch
  /\ BranchAfterReview
  /\ UNCHANGED <<clone, writes>>

Close ==
  /\ pr /\ pr' = FALSE
  /\ BranchAfterReview
  /\ UNCHANGED <<base, clone, writes>>

\* A commit of the reviewer's own on the branch under review.
Amend(e) ==
  /\ pr /\ writes > 0 /\ e \notin branch
  /\ BranchBecomes(branch \cup {e}, "reviewer")
  /\ writes' = writes - 1
  /\ UNCHANGED <<base, pr, clone>>

Others ==
  \/ ComparatorPulls \/ OthersOpen \/ Merge \/ Close
  \/ \E e \in Entries : ComparatorPushes(e) \/ Amend(e)

(***************************************************************************)
(* Properties.                                                             *)
(***************************************************************************)
BranchTypeOK ==
  /\ base \subseteq Entries /\ pr \in BOOLEAN
  /\ live \in BOOLEAN /\ branch \subseteq Entries
  /\ pr => live
  /\ clone \in [Writers -> [entries : SUBSET Entries, fetched : SUBSET Entries,
                            lease : BOOLEAN, approved : SUBSET Entries]]
  /\ moved \in [Writers -> BOOLEAN] /\ writes \in Nat

=============================================================================
