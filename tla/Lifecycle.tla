------------------------------- MODULE Lifecycle -------------------------------
(***************************************************************************)
(* The life of an inventory: the page changes, the inventory pass compares *)
(* and records what it found, a reviewer approves or parks it, and the     *)
(* detection pass judges the page by what was merged.                      *)
(***************************************************************************)
EXTENDS InventoryDiff

CONSTANTS
  Workflows,    \* the variations of the checkout, in their order
  Catalogue,    \* workflow |-> what its page may serve, [scripts, headers]:
                \*   in every place the set of variants
  Start,        \* workflow |-> what it serves at first, one in every place
  Curated,      \* the inventory people wrote to begin with
  MaxDeploys,   \* bound on changes of the pages
  MaxEdits      \* bound on a reviewer's edits short of approving everything

Lists == {"scripts", "headers"}

Names == {Workflows[k] : k \in 1 .. Len(Workflows)}

Places == UNION {{<<w, list, k>> : k \in 1 .. Len(Catalogue[w][list])} : w \in Names, list \in Lists}

Everything(list) == UNION {Catalogue[p[1]][p[2]][p[3]] : p \in {q \in Places : q[2] = list}}

(***************************************************************************)
(* An entry as it is loaded: its matcher carries no info of its own, its   *)
(* info is given, and only a list of alternatives nests three deep.        *)
(***************************************************************************)
Authorisers == {m \in NestedMatchers \cup Composites({"or"}, NestedMatchers) : m.info = NoInfo}

Entries ==
  [identify : AllMatchers, authorise : Authorisers, info : {info \in Infos : info.given}, required : SUBSET STRING,
   loads : [maxDepth : Nat, guard : AllMatchers]]

Inventories == [scripts : Seq(Entries), headers : Seq(Entries)]

\* The name of those that are known by what they open with.
KnownByOpening(list) == IF list = "scripts" THEN FallbackName ELSE "set-cookie"

\* What every page may serve at a time.
Pages ==
  {served \in [Names -> [Lists -> Seq(Resources)]] :
     \A w \in Names, list \in Lists :
       /\ Len(served[w][list]) = Len(Catalogue[w][list])
       /\ \A k \in 1 .. Len(Catalogue[w][list]) : served[w][list][k] \in Catalogue[w][list][k]}

ASSUME LifecycleAssumption ==
  /\ MaxDeploys \in Nat /\ MaxEdits \in Nat
  /\ Workflows \in Seq(STRING)
  /\ Catalogue \in [Names -> [Lists -> Seq(SUBSET Resources)]]
  /\ Start \in Pages
  /\ Curated \in Inventories
  /\ \A p \in Places : \A r \in Catalogue[p[1]][p[2]][p[3]] :
       /\ r.workflow = p[1]
       /\ r.name = KnownByOpening(p[2]) => Opening[r.content] \in SUBSET STRING

VARIABLES
  page,     \* per workflow and slot, what is served
  branch,   \* the inventory under review
  base,     \* the inventory merged
  shown,    \* what the inventory pass has been shown
  passes, reviews,  \* parity of the passes and reviews so far
  deploys, edits

vars == <<page, branch, base, shown, passes, reviews, deploys, edits>>

Init ==
  /\ page = Start /\ branch = Curated /\ base = Curated
  /\ shown = {} /\ passes = 0 /\ reviews = 0
  /\ deploys = MaxDeploys /\ edits = MaxEdits

(***************************************************************************)
(* The page, and what the comparison says of it.                           *)
(***************************************************************************)
Deploy ==
  /\ deploys > 0 /\ deploys' = deploys - 1
  /\ \E p \in Places : \E r \in Catalogue[p[1]][p[2]][p[3]] : page' = [page EXCEPT ![p[1]][p[2]][p[3]] = r]
  /\ UNCHANGED <<branch, base, shown, passes, reviews, edits>>

Compare(inventory, list, r) ==
  IF list = "scripts" THEN CompareScript(inventory.scripts, r) ELSE CompareHeader(inventory.headers, r)

\* The results of the workflows, one after the other.
Results(inventory, list) ==
  FlattenSeq(Each(Workflows, LAMBDA w : Each(page[w][list], LAMBDA r : Compare(inventory, list, r))))

Recording(inventory) ==
  Diff(inventory, [scripts |-> Results(inventory, "scripts"), headers |-> Results(inventory, "headers")])

\* An inventory written and read again.
Stored(inventory) == [scripts |-> Each(inventory.scripts, Reload), headers |-> Each(inventory.headers, Reload)]

Served(list) == {page[p[1]][p[2]][p[3]] : p \in {q \in Places : q[2] = list}}

Admitted(inventory, list) == {r \in Everything(list) : Compare(inventory, list, r).verdict = "authorised"}

InventoryPass ==
  /\ \E new \in {Recording(branch)} : branch' = IF HasChanges(branch, new) THEN Stored(new) ELSE branch
  /\ passes' = 1 - passes
  /\ shown' = shown \cup Served("scripts") \cup Served("headers")
  /\ UNCHANGED <<page, base, reviews, deploys, edits>>

(***************************************************************************)
(* The reviewer, who edits the written form.                               *)
(***************************************************************************)
Approve(info) == [info EXCEPT !.authorised = TRUE]

Approved(m) == With(m, Approve(m.info))

\* The alternatives of an orMatcher along with it.
ApproveItem(raw, k) ==
  LET item == Approved(raw.items[k])
  IN IF raw.form = "single" /\ item.kind = "or" THEN [item EXCEPT !.children = Each(item.children, Approved)] ELSE item

ApproveItems(raw, which) ==
  [raw EXCEPT !.items = [k \in 1 .. Len(raw.items) |-> IF k \in which THEN ApproveItem(raw, k) ELSE raw.items[k]]]

ApproveEntry(e) == Load(e, ApproveItems(Written(e), 1 .. Len(Written(e).items)))

\* Everything that awaits a word.
ApproveAll ==
  /\ branch' = [scripts |-> Each(branch.scripts, ApproveEntry), headers |-> Each(branch.headers, ApproveEntry)]
  /\ reviews' = 1 - reviews
  /\ UNCHANGED <<page, base, shown, passes, deploys, edits>>

\* One alternative, and not the others.
ApproveOne ==
  /\ edits > 0 /\ edits' = edits - 1
  /\ \E list \in DOMAIN branch : \E k \in 1 .. Len(branch[list]) :
       LET raw == Written(branch[list][k]) IN
       \E j \in 1 .. Len(raw.items) :
         /\ Declined(raw.items[j].info)
         /\ branch' = [branch EXCEPT ![list][k] = Load(@, ApproveItems(raw, {j}))]
  /\ UNCHANGED <<page, base, shown, passes, reviews, deploys>>

\* An entry taken back, whatever its alternatives say: as an orMatcher.
Park ==
  /\ edits > 0 /\ edits' = edits - 1
  /\ \E list \in DOMAIN branch : \E k \in 1 .. Len(branch[list]) :
       /\ branch[list][k].info.authorised
       /\ branch' = [branch EXCEPT ![list][k] = [@ EXCEPT !.info.authorised = FALSE]]
  /\ UNCHANGED <<page, base, shown, passes, reviews, deploys>>

Merge ==
  /\ base # branch /\ base' = branch
  /\ UNCHANGED <<page, branch, shown, passes, reviews, deploys, edits>>

Next ==
  \/ Deploy \/ InventoryPass \/ ApproveAll \/ ApproveOne \/ Park \/ Merge

Spec == Init /\ [][Next]_vars

\* The pass is scheduled, reviews are made, and what is reviewed is merged.
\* (A pass is always enabled, and so is a review: said of their parities, weak
\* fairness is cheaper to check.)
FairSpec ==
  /\ Spec /\ WF_vars(Merge)
  /\ \A bit \in {0, 1} : []<>(passes = bit) /\ []<>(reviews = bit)

(***************************************************************************)
(* Properties.                                                             *)
(***************************************************************************)
TypeOK ==
  /\ page \in Pages
  /\ branch \in Inventories /\ base \in Inventories
  /\ shown \subseteq Everything("scripts") \cup Everything("headers")
  /\ passes \in {0, 1} /\ reviews \in {0, 1}
  /\ deploys \in 0 .. MaxDeploys /\ edits \in 0 .. MaxEdits

\* A pass that sees what the last one saw has nothing to add: what awaits
\* review does not grow from run to run.
NothingGrows ==
  \A once \in {Stored(Recording(branch))} : \A twice \in {Recording(once)} : ~HasChanges(once, twice)

\* What is approved was shown to the inventory pass in that workflow, or is in
\* the inventory people wrote: approval for one variation reaches no other.
ApprovalStays ==
  \A list \in Lists : Admitted(base, list) \subseteq shown \cup Admitted(Curated, list)

\* Only a reviewer lets in what no approved entry speaks for: a pass, with its
\* writing and reading of entries pending, approved and parked, does not.
OnlyReviewersAdmit ==
  [][passes' # passes => \A new \in {branch'} : \A list \in Lists : \A r \in Everything(list) :
       Compare(branch, list, r).verdict = "unknown" => Compare(new, list, r).verdict # "authorised"]_vars

\* Of two header entries with one identity the second is never reached.
OneIdentity ==
  \A j, k \in 1 .. Len(branch.headers) : branch.headers[j].identify = branch.headers[k].identify => j = k

\* A page that stays as it is comes to be authorised, by passes and by
\* reviews that approve what they propose, through whatever was parked,
\* half approved or proposed twice on the way.
Converges == []<>(\A list \in Lists : Served(list) \subseteq Admitted(base, list))

(***************************************************************************)
(* What the theorems about these suppose of the pages and of the inventory *)
(* people wrote.                                                           *)
(***************************************************************************)
\* A header has a name, and a cookie a value its opening is of.
HeadersAreNamed ==
  \A r \in Everything("headers") :
    /\ r.name # ""
    /\ r.name = "set-cookie" => r.content # "" /\ r.content \in Opening[r.content]

\* Nothing that is served is blank where a proposal would go by it.
Legible ==
  /\ HeadersAreNamed
  /\ \A r \in Everything("headers") : r.content # "" /\ AnyNonce \notin r.policy.sources
  /\ \A r \in Everything("scripts") :
       /\ r.name # ""
       /\ r.content # "" => r.hash # ""
       /\ r.content # "" /\ r.name = FallbackName => r.content \in Opening[r.content]

SameHeader(r1, r2) == IdentifyHeaderBy(r1) = IdentifyHeaderBy(r2)

\* Header entries do not overlap: what is proposed for one header is about the
\* others of its identity and no more, and so is what people wrote.
HeadersApart ==
  \A r1, r2 \in Everything("headers") :
    /\ Identify(IdentifyHeaderBy(r1), r2) <=> SameHeader(r1, r2)
    /\ \A j, k \in 1 .. Len(Curated.headers) :
         /\ SameHeader(r1, r2) /\ Identify(Curated.headers[k].identify, r1) => Identify(Curated.headers[k].identify, r2)
         /\ Identify(Curated.headers[j].identify, r1) /\ Identify(Curated.headers[k].identify, r1) => j = k

\* What an entry could come to accept, whatever its infos say.  As a whole, a
\* headerNameMatcher reads the value.
CouldAdmit(e, r) ==
  /\ Identify(e.identify, r)
  /\ Identify(e.authorise, r) \/ (e.authorise.kind = "header-name" /\ HeaderNameAuthorises(e.authorise, r))

CuratedIsApproved ==
  \A list \in Lists : \A k \in 1 .. Len(Curated[list]) : \A r \in Everything(list) :
    CouldAdmit(Curated[list][k], r) => r \in Admitted(Curated, list)

Proposal(list, r) == IF list = "scripts" THEN NewScript(r) ELSE NewHeader(r)

Confined(m, w) == IF w = "" THEN m ELSE And(<<WorkflowLeaf(w), m>>)

\* A header value that awaits review is not confined to a workflow.
Alternative(list, r) == IF list = "scripts" THEN Confined(Leaf("hash", {r.hash}), r.workflow) ELSE ValueLeaf(r)

Identities(list) ==
  {Curated[list][k].identify : k \in 1 .. Len(Curated[list])} \cup {Proposal(list, r).identify : r \in Everything(list)}

\* What is recorded of one variant speaks for that variant alone.
EvidenceTells ==
  \A list \in Lists : \A r, other \in Everything(list) :
    /\ CouldAdmit(Proposal(list, r), other) => other = r
    /\ \A identity \in Identities(list) :
         Identify(identity, r) /\ Identify(identity, other) /\ Identify(Alternative(list, r), other) => other = r

=============================================================================
