# Page-tampering monitor: verification

TLA+ models of the PCI DSS page-tampering monitor in this repository, the TLC
configurations that check them and the TLAPS proofs about them. Paths such as
`collector/src/ingest.ts` are relative to the repository root (`src/` in
`PROJECT.json`).

    tlc -workers 2 -config MCRumCompare.cfg MCRumCompare   # one run
    tlapm CollectorProofs.tla                             # one proof module

## 1. The system

The product watches the scripts and headers of payment pages. It does so in two
ways that share one inventory (JSON files in a git repository, a *detection*
branch of approved entries and an *inventory* branch of proposed ones):

* **real-user monitoring (RUM)**: an agent in customers' browsers reports what
  it sees to a collector; the collector enqueues first sightings; an hourly
  comparator judges them against the inventory;
* **synthetic runs**: a scheduled job drives a browser through a checkout and
  compares what it met with the inventory.

```
 browser agent --beacon/CSP--> collector --SQS--> comparator --alert--> Slack
  (per tab)                    | Firehose           |  pull / push
  sessionStorage               | DynamoDB           v
  localStorage (device)        |                  git inventory <--- synthetic run
                               v                  (2 branches)         reviewer
                             archive
```

### Components, their state, their operations, what makes them correct

| Component | State | Operations | Hard behaviour | Correct when |
|---|---|---|---|---|
| Browser agent (`agent/src`) | session set, device set, capture queues, hash memo, pending observations | capture by three observers, idle round, awaited digest, flush on hide/pagehide, deferred persist | callbacks between awaits, two tabs on one `localStorage`, refused beacons, page gone in mid-work, a clock that jumps | silence is always backed by a report; what is captured is sent; nothing goes out twice |
| Collector (`collector/src`) | novelty table, archive, queue | gate, archive, conditional upsert, conditional reset, send, compensating delete | concurrent invocations on one key, failing and repeated AWS calls, timeout in mid-request, TTL deletion | one message per key and window, a message behind every record, archive first |
| Novelty queue (`infra/collector-core/queue.tf`) | visibility, receive count | receive, delete, redrive | at-least-once delivery, redrive of what was never handled | every message ends deleted or dead-lettered |
| Comparator (`src/rum`) | dedupe set, candidates, counts of one run | pull, receive, route, alert, delete, diff, push, pull request | crash between outcome and delete, alerts that fail, a batch cap, a branch that moves | deleted means told; one alert per run and key; no candidate dropped; counts add up |
| Inventory branches and pull requests (`src/stores`, `src/repositories`, coordinators) | two branches, a clone per writer, a pull request | pull, start over, push, push with lease, ensure PR | several writers, a reviewer who merges, closes or pushes meanwhile | only a stale branch is replaced; a proposal that is lost is made again |
| Synthetic runs (`src/main.ts`, `run-ledger.ts`) | ledger of outcomes, deferred alerts, the pass under way | inventory pass, detection pass, flush, finish | one target failing among several, a push that fails after detection, a kill | green means all was monitored and told; no alert stays buffered |
| Inventory diff (`src/services/inventory.ts`, `src/utils/inventory.ts`) | the entries and their written form | cover, group, append alternatives, write, read back | what the previous diff has already proposed | nothing is proposed twice; approval is neither widened nor lost |
| Comparison, matchers (`src/services/comparison`, `initiator-chain.ts`, `src/types/matcher`) | none, but a memo within one comparison | identify, authorise, walk chains, inherit | missing evidence, copies judged differently, loops | trust comes from a grant only; a gap removes trust |
| Page detection (`detection.ts`, `handlers/`, `document-ledger.ts`, `payment-scope.ts`) | accounts of requests, the trail of documents, the attempt's state | steps and clicks, browser event handlers, recoveries, partition by scope | events out of order, navigation between two reads, retries | every script in payment scope is compared or recorded unread; no payment is tried twice |
| Alert delivery (`src/services/alert`) | failures to deliver | lay out, send, record | Slack's limits, one message refused among several | what was found is told, or on record as untold |
| RUM normalisation, reports, CLI, workflows, infrastructure | mostly none | I/O and formatting | timeouts | see section 8 |

The components meet at four shared states: the beacon wire format (agent and
collector agree on the novelty identity of an observation), the novelty table
(collector invocations), the queue (collector and comparator) and the inventory
branch (comparator, synthetic inventory pass, reviewer).
`PROJECT.json` lists the hazards of this code, each at the line where it bites
and with the properties that would catch it going wrong.

## 2. Plan

In the order in which it was built: the collector and its abstract window; the
comparator and its queue; the two composed; the browser agent; the inventory
branch and the synthetic run that drives it; matchers, comparison and diff, and
the life of an inventory made of them; initiator chains and inherited trust;
page detection, as the accounts of script requests and as the payment scope;
the delivery of alerts.

Worth doing next:

1. a proof of `GapsOnlyRemoveTrust`, which needs that the walk and the search of
   `Loads` find all there is, and not only, as `InheritanceHasGrounds` shows, nothing
   else;
2. the checks for required scripts and headers that are missing, in
   `Comparison`;
3. the RUM alert in `AlertLayout`;
4. RUM normalisation and URL evidence, in front of `RumRoute`.

A new run takes the place of an older one where both ask the same question, so
that the whole set stays quick to run.

## 3. Modules

| Module | Models | Used by |
|---|---|---|
| `NoveltyWindow` | what the collector promises: one window per key, opened, prolonged, reported once, expired | `CollectorWindow` |
| `Collector` | `ingest.ts`, `novelty.ts`: request gate to compensating delete | `CollectorWindow` |
| `CollectorWindow` | the refinement mapping of `Collector` onto `NoveltyWindow` | `MCCollector`, `CollectorProofs` |
| `RumRoute` | `route.ts`: lane and verdict decide between alert, candidate, record | `RumCompare` |
| `RumCompare` | `run.ts`, `drain.ts`, `route.ts`, the SQS queue, pull/diff/push | `RumPipeline`, `RumCompareProofs` |
| `RumPipeline` | collector decision (one atomic step) composed with `RumCompare` | `MCRumPipeline` |
| `Agent` | `agent.ts`, `capture.ts`, `session.ts` | `MCAgent`, `AgentProofs` |
| `InventoryBranch` | `git.ts`, `repositories/inventory.ts`, `inventory-branch-coordinator.ts`, `pull-request.ts`: the repository, its writers and the reviewer | `SyntheticRun` |
| `SyntheticRun` | `main.ts` (`executeWorkflows`), `run-ledger.ts`, `concurrency.ts` | `MCSyntheticRun`, `SyntheticRunProofs` |
| `Matchers` | `src/types/matcher`: identify and authorise | `Comparison` |
| `Comparison` | `comparison/script.ts`, `comparison/header.ts`: the verdict on one resource | `InventoryDiff`, `Loads` |
| `InventoryDiff` | `services/inventory.ts` (`diff`), `utils/inventory.ts`, `zod.ts`, `commit-message.ts` | `Lifecycle` |
| `Lifecycle` | the inventory over deployments, passes and reviews, composed of the three above | `MCLifecycle`, `MCLifecycleBlank`, `InventoryProofs` |
| `Loads` | `initiator-chain.ts`, `inheritAuthorisation`, the shim's insertions | `MCLoads`, `InventoryProofs` |
| `ScriptReads` | `detection.ts` (attempts, steps, clicks), `handlers/script.ts` (`PendingScriptReads`) | `MCScriptReads`, `PageDetectionProofs` |
| `PaymentScope` | `document-ledger.ts`, `payment-scope.ts`, the reads of the document in `detection.ts` and `handlers/` | `MCPaymentScope`, `PageDetectionProofs` |
| `AlertLayout`, `Alerts` | `alert/slack.ts`, `execution-summary.ts`, `RunLedger.finish` | `MCAlerts`, `AlertsProofs` |
| `MC*` | instances for TLC | |
| `CollectorProofs`, `RumCompareProofs`, `AgentProofs`, `SyntheticRunProofs`, `AlertsProofs` | theorems about the module they are named after | |
| `PageDetectionProofs` | theorems about `ScriptReads` and `PaymentScope` | |
| `InventoryProofs` | theorems about `Lifecycle` and all it is composed of, and about `Loads` | |
| `DataLemmas` | facts about naturals, recursion and sequences | `AgentProofs`, `PageDetectionProofs`, `AlertsProofs`, `InventoryProofs` |

Definitions whose comment begins with *Slip* are not part of a model. Each is a
plausible mistake in the code, written next to the definition it would replace;
`PROJECT.json` names the property that catches it.

### Collector

An invocation `i` works on the keys of its request at once
(`Promise.allSettled`), so the program counter is `stage[i][k]`. The stages are
the awaits of `processEvent` and `processObservation`: archive, upsert, reset,
send, compensate. `Receive` is the synchronous part: edge secret, origin to
target, parsing, key building; a request that is refused changes nothing and is
no action. A beacon is archived in one call for all its keys (`ArchiveBeacon`),
a CSP report in one call per observation (`ArchiveReport`).

Every AWS call has one of four outcomes: `ok`; `rejected`, no effect and an
error; `lost`, an effect and an error; `resent`, an effect, and the SDK repeats
the call. `Faults` says which may happen, and at which stages an invocation may
die. `Die` is a crash or the Lambda timeout; `Reap` is DynamoDB's TTL deletion, at
any time after the expiry; `Tick` keeps an invocation younger than the Lambda
timeout. The one assumption on the
numbers, `2 * LambdaTimeout < TtlWindow`, is 15 s against 90 days in the code.
`WindowAssumption` of `CollectorWindow` says that the mark for "no record" is no
window of the abstract specification either.

`revived` is a history variable: the keys whose expired record has been
prolonged and not yet reset. `NoveltyWindow` sees such a window as already the
owner's. `KeysOf` is a set: two observations of one request with the same key
are one, although the code upserts twice; the second meets the first's record
and is a repeat, as it would be for a second request.

### Comparator

`phase` is the program counter of the one run that may be under way (the
workflow's concurrency group excludes two). `batch` holds what is left of the
received batch; `Leave`, `Suppress`, `Record`, `Propose` and `Alert` are the
ways `routeMessage` and its caller end for a message, `Delete` is the delete
after a routed one. A message is a record of what the code tells apart: whether
it parses, whether its target is known, its lane, the verdict of the comparison,
its novelty key and the script it names. `Overrun` lets the visibility lapse
while the run is still working, as when an alert call hangs. `Diff`, `Push` and
`OpenPullRequest` follow the drain; `moved` says that the remote branch is ahead
of the clone, and then git refuses the push.

`told`, `alerted` and `handed` are history: what was done for a message, the
alerts delivered per key in this run, the candidates given to `InventoryService`.

### Pipeline

`Sight` is the collector as one decision on the novelty key, justified by
`Collector`'s refinement of `NoveltyWindow`; the rest is `RumCompare`, instanced
with the pipeline's variables and with `shape` computed from the origin.

### Agent

A *tab* shows at most one document at a time; a document is what `initAgent`
starts, and its memory is gone after `Leave` (pagehide, after a flush) or
`Discard` (no event at all). `seen` is an ordered list because the code stores
the oldest keys up to a cap. Captures are represented by the observation they
become. An idle round moves all inline captures into `rounds[d]`, where they
wait for their digests one after another; a later round may overlap, which is
why `rounds[d]` is a sequence of sequences. `Digest` is one resumption after the
`await`, memo hits included. A flush is one synchronous step with the number of
beacons the transport accepted as its parameter.

Novelty of an inline script is judged on its hash when there is one, else on
length, head and tail (`windowOf`), which two sources may share.

`Converted` is what a flush makes of the captures that still wait, one after
another: the last of the course `Conversion(d)`, a recursive function.

### Synthetic run and inventory branch

`InventoryBranch` keeps the remote side (the detection branch `base`, the
inventory branch, whether a pull request is open) and a clone for each of the
two writers. `moved[w]` says that the remote branch is no longer what `w`
fetched: a plain push is then no fast-forward, a push with lease is refused.
`Pull` with `resetToBase` is `prepareInventoryBranch`'s answer for a branch
without an open pull request, which the run replaces at the push; the push first
asks again (`VerifyReplacement`). Between that answer and the push a pull request
may still be opened, and as it does not move the branch the lease does not see
it: `git.ts:136` puts the question as close to the push as possible, and so
`DropsOnlyStale` speaks of the moment it is asked. The comparator of real-user observations is
here one atomic writer; `RumCompare` has its insides.

`SyntheticRun` has one program counter, `run.pc`, with a state for each await of
`executeWorkflows` after which something may differ, and `run.at`, the workflow
of the pass. A target completes, leaves scripts unread or fails; what it found,
`found[<<pass, workflow>>]`, is diffed at once and its alerts are held back in
the inventory pass. `Throw` is the `catch` and `finally` around the push and
`Abort` the one around a pass. `told` and `outcome` are history.

### Matchers, comparison, diff, lifecycle

A resource is a record of what the matchers read; a pattern is the set of texts
it accepts, since regular expressions are JavaScript's. `Identify` and
`Authorize` ask the children of a composite and these theirs, down to three
composites in one another (`IdentifyBy`, `AuthorizeBy` and their levels); the
code goes on for ever. `AllMatchers` is the set of matchers that deep, and that
no entry leaves it is part of what `TypeCorrect` proves. `metadataPath` is reduced
to the authorisation info that decided. Content evidence is modelled as head and
tail windows, an opening being the set of contents that begin with it.

`InventoryDiff` is `diff`: the first loop over the results (`UpdateAll`), then
the additions (`Adding`), with the written form of an entry (`Written`, `Load`)
between two passes, because writing and reading back is where a list form may be
chosen and an authorisation may move between the entry and its alternatives.
Each loop is a recursive function of the number of results it has seen
(`Updating`, `Adding`). `Lifecycle` lets the page change, the pass run, and a
reviewer approve an entry or one of its alternatives, park it and merge. The
reviewer edits the written form, as people edit the files; `ApproveItem` speaks
for the alternatives of an `orMatcher` along with it.

Below its properties `Lifecycle` names what its theorems suppose of the pages and
of the first inventory (`Legible`, `HeadersApart` and the like, section 6).

### Loads

A run is a sequence of observations and a set of insertions recorded by the shim;
everything after that is a function. `Paths` is the walk of `initiator-chain.ts`
with its caps on depth and paths, `Inheriting` is `inheritAuthorisation` with its
memo: "deciding" is the entry that cuts a recursion. Both recursions, `extend` and
`inheritFor`, are the steps of a machine that keeps the calls which have not
returned (`Extend`, `Inherit`) and takes as many steps as they can need
(`WalkSteps`, `SearchSteps`): recursive functions over the numbers, which can be
reasoned about.
`Grounded` says the same without a walk, an order or a memo, as a least fixed
point.

### Page detection

`ScriptReads` runs the attempts and steps of one workflow beside the requests of
the page and the reads of their bodies. Every set of `PendingScriptReads` is a
variable of its own name; `cutAt` is `detachedAtStep`. Events of Puppeteer come
in any order that Chrome allows, also after `Settle` has closed the accounts.
A step is `BeginAct`, `Clicked` or `NotClicked`, and `StepDone`; a click whose
step was given up may still land.

`PaymentScope` has the trail of committed documents, which DevTools keeps in
order, and a workflow that reads the current document before and after what it
does; between two reads the page may navigate, route, attach frames and run
scripts. `paid` and `replaced` are history: the documents that were the payment
page when its step acted, and the renders that recoveries really replaced.
`FrameChain` (the parents of a frame) and `Passes` (the rounds of the loop over
replaced renders) are recursive functions.

### Alerts

A text stands for its length. `AlertLayout` has the clips, the fitting of table
rows to Slack's budget, and the packing of lists into sections; `Alerts` sorts
findings into messages, sends each under its own guard and closes the run with
a summary. The numbers are the code's. `Wider` and `Packed` are the folds that
fill lines and sections; `Those` keeps the entries of a list that a condition
names, in their order.

## 4. Runs

| Run | Shows | Distinct states |
|---|---|---|
| `collector` | two invocations, beacons and CSP reports of mapped, unmapped and absent origins, the clock across an expiry, every failure the code answers to: `SingleOwner`, `OneMessagePerWindow`, `RecordsAreQueued`, `WindowRolls`, and with fairness `ImplementsNoveltyWindow` | 80 896 |
| `rum_compare` | any two of a production script, a staging candidate of it under two keys, a malformed and an authorised message, through crashes, overruns, failing calls of every kind and another writer: `OneAlertPerRun`, `ReleasedWasTold`, `OneEntryPerScript`, `CandidatesAreHanded` | 465 328 |
| `rum_pipeline` | staging and production of one script, with failing alerts and deletes and runs that die: `ProductionSurfaces`, `Settles` | 26 776 |
| `agent_page` | one tab over reloads; an external script met by three observers, two inline scripts with one fingerprint, one of them over the hashing ceiling, failing digests, overlapping rounds: `MarkedIsCarried`, `InlineIsJudged`, `ReportedOnce`, `CapturedIsSent` | 262 700 |
| `agent_tabs` | two tabs, a CSP violation, the clock set to any of three times: `SilenceIsEarned`, `OneHeartbeat` | 124 956 |
| `synthetic` | runs in all three modes over two workflows, with two faults, a comparator and a reviewer: `GreenMeansTold`, `NothingHeldBack`, `DropsOnlyStale`, `Heals`, `KeepsTelling` | 158 462 |
| `lifecycle` | a curated vendor script in two builds, an inline script of one workflow in two versions, a policy in two forms: `NothingGrows`, `ApprovalStays`, `OneIdentity`, `OnlyReviewersAdmit`, `Converges` | 64 626 |
| `diff_empty_header` | violation, see section 7 | |
| `loads` | every sequence of up to four of nine observations with up to two insertions: `InheritanceIsGrounded`, `GapsOnlyRemoveTrust` | 29 524 |
| `reads` | two attempts, a script in a frame and a redirected one: `NothingVanishes`, `CountedOnce`, `OnePayment`, `CutsWereSeen`, `Ends` | 490 008 |
| `scope` | three documents over two paths, two scripts, a frame within another: `PaymentIsJudged`, `EarlierPagesLeave`, `RecordedRendersStayIn` | 5.4 million |
| `alerts` | findings of each kind, alone and together, at three sizes, and summaries up to an outage of every target: `NothingUnheard`, `FitsSlack`, `NamesEveryTarget` | 15 368 |

What no run lists: the type invariants, and `SentWasArchived`, `CountsAddUp` and
`EntriesKept`, which are proved.

### Bounds and why they are enough

The theorems of section 6 hold for any values of the constants, so that it is
above all the liveness, and one property of `Loads`, that is tied to these
numbers.

* *Invocations = 2.* Ownership of a key and the reset race are about pairs.
* *TtlWindow = 4, LambdaTimeout = 1, MaxTime = 4.* The clock passes one full
  expiry, where the reset, the reaper and late writers race; two messages of a
  key must be at least two ticks apart, so that the bound of
  `OneMessagePerWindow` says something.
* *Comparator: two of five messages sent (`CONSTRAINT SentAtMost`), MaxReceives
  2, BatchSize 2, MaxBatches 2.* Every pair of kinds meets: two keys of one
  script, an alert beside a candidate, either beside a message that is left. Two
  receives reach the redrive limit (3 in the code), the cap of batches is
  reached, and a batch may hold one message or both.
* *Pipeline: MaxSightings = 1*: one message per origin and script; later
  sightings of an open window change nothing, and expiry is an action.
* *Agent.* A queue of two and beacons of two observations: the queue fills, a
  flush of three observations needs two beacons and the second may be refused.
  `SeenCap` is large enough for all keys of `agent_page`, so that no repeat
  comes from truncation. One of the two inline sources can be hashed, the other
  is over the ceiling: the hash of one and the fingerprint of the other
  compete. `DeviceTtl = 1` with `MaxClock = 2` gives stamps that are live, expired
  and of the future.
* *Synthetic: two workflows, two entries, MaxFaults = 2, MaxWrites = 1.* The
  second workflow has a script of its own, so that a workflow's findings can be
  lost while the other's are kept. Both bounds are over the whole behaviour,
  whatever the number of runs, and nothing renews them. Two faults: one that takes
  a run off its path and one in its clean-up, or one in each of two runs. One
  write of another between a pull and a push is what a lease or a fast-forward
  is about; merging and closing are not bounded. The liveness properties
  therefore ask whether runs recover from any mess that two faults and a write can
  make; of faults that never cease nothing is promised, by the code neither.
* *Lifecycle: two deployments, one edit by hand.* There and back, or through both
  lists; passes and reviews are unbounded. Matchers nest three deep, in the
  theorems too: the inventories of the repository have one or two levels, and the
  diff adds one. `InstanceAssumption` of `MCLifecycle` has TLC confirm that the
  hypotheses of all theorems about `Lifecycle` hold of this instance.
* *Loads: four observations.* A granting script, a script it loads, one loaded in
  turn, and a second copy of one of them with other evidence: the shortest run
  with a chain of three and a disagreement. `InheritanceHasGrounds` has no bounds;
  `GapsOnlyRemoveTrust` supposes that no walk is cut short (`Uncut`), and none is.
* *Reads: three requests, two steps, two attempts.* One request in a frame that
  may go away and one behind a redirect; one step before the payment and a retry.
  Redirects have one hop, in the theorems too.
* *Scope: three documents, a trail of three, one request per run, a frame in
  another.* The owner of a frame is looked for in the frames around it, and one
  around it is where that can differ. Before the
  payment page, the page, and a reload or a return. Longer trails repeat these
  pairs. Left out is what no scope can tell: routes that keep origin and path,
  frames attached after the last request that is followed. `SYMMETRY` over pages
  and over scripts is sound: the invariants name neither, and the run checks no
  liveness.
* *Alerts.* One finding and twenty-five, texts shorter and longer than every cell;
  lists of 60, 30, 21 and 20 entries around the caps of 20 rows and 50 blocks, the
  longest lines that the clips let through.

`CHECK_DEADLOCK` is off where a behaviour really ends: `alerts` (the summary was
sent), `loads` (the page is loaded), `reads` and `scope` (the run is done).

## 5. Fairness

* `Collector!FairSpec`: weak fairness of each invocation's work. An invocation
  that is not killed runs to its end; arrival of requests, crashes, TTL deletion
  and the clock are not fair.
* `RumCompare!FairSpec`: a run is started (the hourly schedule) and goes on
  (weak fairness); a visibility timeout, shorter than the hour between two
  runs, ends between them. `Lapse` needs strong fairness, because a new run may
  disable it before the timeout is over, and so does `Deliver`: a queue that is
  polled again and again hands out each visible message in the end. Redrive is
  SQS's own and weakly fair.
* `Agent!FairSpec`: idle callbacks and digests come, and a page that stays open
  is hidden again and again with a transport that then takes all it sends. The
  last is an assumption about the user and the network: without it the agent
  promises nothing. Weak fairness is spelled out there as "infinitely often not
  enabled, or infinitely often taken"; `ToFlush` and the like are the enabling
  conditions.
* `SyntheticRun!FairSpec`: a run goes on, and each mode is started again and again
  (strong fairness, since other modes start in between). Reviewers, writers and
  faults are not fair; at most `MaxFaults` faults and `MaxWrites` writes happen in
  a behaviour, so that from some point on every run is without a fault.
* `Lifecycle!FairSpec`: the pass is scheduled, reviews that approve what is
  proposed are made, and what was reviewed is merged. The first two are said of
  the parities of counters, because a pass and a review are always possible.
  `Converges` is about what reviewers approve: it promises nothing of an
  inventory that nobody reviews.
* `ScriptReads!FairSpec`: the workflow goes on, since each of its waits has a
  timeout. Nothing is assumed of Chrome: `Ends` holds with reads and requests
  that never return.

## 6. Proofs

The proof modules state their theorems for every value of the constants, under
the named assumptions of the modules, which TLC evaluates in the runs:
`ConfigAssumption`, `TimeAssumption`, `WindowAssumption` (collector),
`ShapeAssumption`, `BoundAssumption` (comparator), `ReadsAssumption`,
`AgentAssumption`, `RunAssumption`, `BranchAssumption` (synthetic run),
`ScopeAssumption`, `AlertsAssumption` and `LifecycleAssumption`. They say that
constants have their types, that marks such as "no record" are no ordinary
values, that the tree of frames is finite, that a resource carries the name of
the workflow that served it, and the one inequality of `TimeAssumption`. Where a theorem
needs more, it says so in an `ASSUME` of its own, named below.

`CollectorProofs`:

* `TypeCorrect`: `TypeOK`.
* `OneOwnerPerKey`: `SingleOwner`, unless a compensating delete is resent. It is
  not inductive. `OwnerInv` adds that a busy invocation is younger than the
  Lambda timeout, and that an owned record exists with an expiry no earlier than
  the owner's receipt plus the window less the timeout. So no other invocation,
  nor the reaper, can find an owned record missing or expired; this is where
  `2 * LambdaTimeout < TtlWindow` is used.
* `WindowsRoll`: from `TtlInv` (no expiry beyond now plus the window) and the
  age of invocations.
* `ArchiveComesFirst`: `SentWasArchived` under all faults; past the archive
  stage an invocation's entry is in the archive.
* `NoKeyIsSilenced`: `RecordsAreQueued` when no fault of `LosingFaults` happens.
  `QueueInv` relates each stage to the record: a resetting owner still holds the
  `first_seen` it read, a sending owner's record is its own, and a revived key
  has an owner.
* `OneMessageEach`: `OneMessagePerWindow` when no fault of `DuplicatingFaults`
  happens. `MessageInv` says that a recent message is protected by a record
  that outlasts it, and that an owner exists only once every earlier message of
  the key has aged.
* `ImplementsTheWindow`: the safety part of `ImplementsNoveltyWindow`, when no
  fault of `LosingFaults` or `DuplicatingFaults` happens: the initial state maps
  to an initial state of `NoveltyWindow`, and `WindowStep` maps every step to one
  of its actions or to a stutter. The mapping reads the window of a revived key
  off its owner, and `ClaimInv` makes the two agree: a record that is being reset is
  a revived one, and one about to be compensated that is not is the owner's.

`RumCompareProofs`:

* `TypeCorrect`: `TypeOK`, the redrive limit included.
* `OneAlertEachRun`: `OneAlertPerRun` if no alert is delivered and reported as
  failed (`NoLostAlert`): a key that has alerted is in the dedupe set.
* `NothingIsReleasedUntold`: `ReleasedWasTold` under all faults. `ReleaseInv`:
  what is seen has been told, and the message about to be deleted is accounted
  for.
* `DeliveriesAreCounted`: `CountsAddUp`; the balance holds after every tally.
* `ScriptsAreEnteredOnce`, `PushesKeepEntries`: `OneEntryPerScript` and
  `EntriesKept`; the draft exceeds the branch by at most one entry per script,
  and only where the pulled branch had none, unless the branch has moved.
* `NoCandidateIsDropped`: `CandidatesAreHanded` under all faults. `CandidateInv`:
  what was proposed is handed over, left behind by a run that was cut short, or in
  the memory of the run that goes on, and a run that pushes has handed all of its
  own.

`PageDetectionProofs`, of `ScriptReads`, for any requests, frames, redirects of
one hop, steps and attempts:

* `OnePaymentOnly`: `OnePayment`. `FlowInv`: a click that can pay is only under
  way once the boundary is marked; after it was dispatched the boundary stays
  marked, no paying click is under way, and the steps left come after it. So
  neither a late click nor a retry can pay again.
* `NothingIsLost`, `EachIsCountedOnce`, `CutsAreSeen`: `NothingVanishes`,
  `CountedOnce` and `CutsWereSeen`. They say something of the end only;
  `ReadInv` says what holds on the way. A request nothing has ended is waited
  for, listed or recorded (`AskedInv`); a complete body is compared, recorded,
  being read, or marked as finished on a request the next settling looks at
  (`ArrivedInv`); a recorded request is no longer waited for, and a hop is
  answered before the id it shares with its target can be marked as finished
  (`GapInv`); a context that is still at work is open (`CutInv`).
* `TypeCorrect`: `TypeOK`, from both.

`AgentProofs`, for any tabs, scripts, violations and inline elements, and any
limits of queues, beacons and stores:

* `TypeCorrect`: `TypeOK`. The rest of `TypeInv` says that session sets hold a key
  once, that memories fit their caps, and that a closed document has none.
* `HeartbeatIsOne`: `OneHeartbeat`; a heartbeat was accepted only where the
  session knows that a beacon has left.
* `SilenceHasCause`: `SilenceIsEarned`. `StampInv` says of every stamp, on the disk
  and in a tab's copy of it, that its key was accepted at that time: two tabs
  may overwrite each other's stamps, and no merge makes one up.
* `MarksAreCarried`: `MarkedIsCarried`. `CarryInv` says of a marked key whose it
  is: inherited from an earlier page, reported by the device, or the key of an
  observation that is queued, pending or shipped.
* `InlinesAreJudged`: `InlineIsJudged`. `JudgeInv` keeps with it that a memoised
  source is one whose hash was judged, which is what lets a later element with
  that source pass in silence.
* `NothingTwice`: `ReportedOnce`. While the session's storage is not full, `Apart`
  holds: no observation is twice among those queued, pending and shipped, what was
  shipped is marked in the session's storage, and what the page holds or has
  shipped is marked in the page (`OnceInv`). `UrlInv` says that what goes out
  under a URL and an initiator has the key of the URL alone as well, so that it
  closes the gate of both.

`SyntheticRunProofs`, for any workflows, modes, faults and writes of others:

* `TypeCorrect`: `TypeOK`.
* `GreenRunsAreClean`, `NothingStaysBack`: `GreenMeansTold` and `NothingHeldBack`.
  Both are about the end of a run. `RunInv` says on the way, for each program
  counter, how far the walk over the workflows is (`Walked`), that the ledger and
  the list of failed alerts know of all that went wrong (`Accounted`), that what
  was found is told or waiting (`Voiced`), that alerts wait only in front of the
  flush (`Held`), and that a pass that has begun has its report or is on the way
  to it (`Reported`).
* `OnlyStaleEntriesDrop`: `DropsOnlyStale`. `BranchInv` relates each clone to the
  remote branch until somebody moves it: the comparator never takes a lease and
  its clone contains the branch; what the run fetched is the branch, and its
  clone contains that or holds a lease on it. So a push that is accepted loses
  nothing without a lease (`LossIsLeased`), and with one the run has asked for the
  pull request just before (`LossIsVerified`). The property has two halves, and
  TLC finds it violated whichever is broken: the recheck before the push
  (`FoundAtThePull`) or the lease itself (`AcceptsForced`).

`PageDetectionProofs`, of `PaymentScope`, for any workflow, tree of frames, and
number of documents, navigations and requests:

* `ScopeTypeCorrect`: `ScopeTypeOK`.
* `PaymentScriptsAreJudged`, `ReplacedRendersStayIn`, `OtherPagesLeave`:
  `PaymentIsJudged`, `RecordedRendersStayIn` and `EarlierPagesLeave`. `ScopeInv` has
  what holds of the trail, the frames, the request under way and the kept copies,
  and, for the reads, `BracketInv`: between two reads of one bracket the page may
  go to a new document but not come back to an old one, so when both reads agree
  what was read between them belongs to the same document. `LoopSettles` shows
  that the loop over replaced renders reaches its fixed point in as many rounds
  as there are documents.

`AlertsProofs`, for findings, lists and texts of any length:

* `TypeCorrect`: `TypeOK`, and with it that the messages of a target contain every
  finding that is alerted on (`EachFindingIsTold`).
* `NothingIsUnheard`: `NothingUnheard`. `LayoutIsSound` says of every message that a
  table which leaves rows out notes it. `HeardInv`: each message was taken, waits, or
  has its failure recorded, and a summary that was taken names every failure
  whose label a line shows.
* `EveryTargetIsNamed`: `NamesEveryTarget`, if `LabelsFit`, that is, if what precedes
  the name of a target leaves room for it on a line. `SummaryFits` shows that
  names left out of the rows are in the lists below them, however long.
* `NothingIsRefusedForItsMaking`: `FitsSlack`, if `FewBlocks`. For every alert and
  every section the limits are proved of the layout as it is (`LayoutIsSound`).
  `FewBlocks` is about the number of sections in a summary alone: the code caps
  neither the list of failures nor that of undelivered alerts, so this one
  limit depends on what the run has to tell (section 8).

`LabelsFit` and `FewBlocks` hold of the instance that the run `alerts` checks: its
longest summary has 45 blocks.

`InventoryProofs`, for any pages, any number of workflows, entries, deployments
and edits, and any inventory people may have written in matchers of three levels:

* `TypeCorrect`: `TypeOK`. An entry stays one that can be written, read and
  extended again; the written forms between are `Forms`.
* `PassesAdmitNothing`: `OnlyReviewersAdmit`, with no hypothesis. What the written
  form offers (`Offers`) is all that reading it back can authorise, and the
  entries that speak for a resource before a pass are those that do after it.
* `ApprovalsReachNoFurther`: `ApprovalStays`. Not inductive: what is pending now
  is approved later. `CouldStays` asks it of what an entry could come to accept
  whatever its infos say (`CouldAdmit`), for both branches; `Grown` says what a
  diff adds to that. Two hypotheses. `EvidenceTells`: what is recorded of one
  variant (its proposal, or a hash or value under the identity of an entry)
  matches no other that the catalogue has, as hashes do and as an opening
  shared by two versions does not unless the identity tells them apart.
  `CuratedIsApproved`: nothing lies parked in the first inventory, since approving it
  would admit what no pass was shown. `EvidenceTells` asks this of header values
  under each identity, since `appendPendingHeaderValue` (`inventory.ts:467`) does not
  confine an alternative to a workflow as `scopeNewAuthorisationAlternative`
  (`inventory.ts:583`) does; identities of headers that name the workflow make up for
  it.
* `HeadersGather`: `OneIdentity`, if it holds of the first inventory and headers
  have names (`HeadersAreNamed`). A proposal matches its own resource, so that the
  next value of that header finds the entry that awaits review (`Distinct`).
* `SecondPassAddsNothing`: `NothingGrows`. What a pass has looked at is
  `Quiet` afterwards: approved and covered, or denied and recorded (`Settled`), or
  awaiting review under some entry (`Awaits`), and nothing later in the same diff
  disturbs that (`QuietKept`); so `Recording(Recording(inv))` is
  `Recording(inv)` (`SecondPass`), and no counter counts a change (`NoChanges`).
  Two hypotheses. `Legible`: nothing that is served is blank where a proposal goes
  by it; without it `diff_empty_header` shows growth. `HeadersApart`: no two header
  entries are about one header (`Gathered` is the part of it that every pass and
  review keeps); where two are, a value is looked for in one and recorded in the
  other.

`InstanceAssumption` of `MCLifecycle` has these hypotheses checked on the instance
that the run `lifecycle` explores.

At its end, about `Loads`, for any observations, insertions, inventory, depth and
number of paths:

* `InheritanceHasGrounds`: `InheritanceIsGrounded`, with no hypothesis. What the walk
  leaves is paths in which each hop is a first hop of some observation of the one
  before (`PathsAreTrails`). Take any set of positions that is closed under the
  rules: the search only ever goes past hops whose copies are authorised or in that
  set (`Crossed`, `InheritCalls`), so that when it finds a grant, the hops up to it
  are a route over trusted scripts, and what inherits is in the set
  (`GrantedIsTrusted`, `SearchIsSound`). The least fixed point is in all such sets.
  The order of the search, its memo and a script under decision take trust away
  and never add any.

`DataLemmas` has what these share: least members and induction on sets of
naturals, the existence of a recursive function's course up to a bound
(`Recursion`), and facts about the operators on sequences the models use. The
library's theorems of induction take an operator as a parameter, which none of the
installed provers instantiates; stated of a set, as here, the same facts are
first-order and follow from the well-foundedness of the naturals.

Only model-checked:

* all liveness (`Settles`, `Heals`, `KeepsTelling`, `Converges`, `Ends`,
  `CapturedIsSent`, and the fairness in `ImplementsNoveltyWindow`) and with it
  `ProductionSurfaces`, which is about what must come: liveness under fairness
  and `ENABLED` are beyond the installed provers;
* `GapsOnlyRemoveTrust`: it compares two runs and needs that the search finds every
  route there is, the converse of what is proved, with enough steps for it; TLC
  checks it on every run of four observations.

## 7. Where the code and its documents differ

One run shows a statement of the repository that the code does not keep;
`PROJECT.json` quotes it.

* `diff_empty_header`: a header without a value is kept by the normalisation and
  recorded in an alternative that matches nothing, because a content matcher
  declines blank content. Every inventory run therefore appends one more
  alternative, against the idempotency that `inventory.ts:430` and `:471` state.

Others have no run in the set, and each is had by a change to an instance:

* *A sighting can be silenced for a window.* Add `<<"send", "crash">>` (or any of
  `LosingFaults`) to `HandledFaults` in `MCCollector` and `RecordsAreQueued`
  fails: an invocation that dies after the novelty write leaves a record with
  nothing enqueued (`collector-ingest.md:28` says that idempotency absorbs it).
* *A candidate can be lost.* Take `cut` out of `CandidatesAreHanded` and
  `rum_compare` fails: the message of a candidate is deleted while the candidate
  is in memory, and a run that dies, or whose next receive is refused, takes it
  along (`queue-message.md:27`).
* *A message can be suppressed by the other lane's.* Map both lanes to one commit
  in `OwnRefs`, give both messages one key and check `ReleasedWasRouted`: the
  dedupe key names the commit and not the pass.
* *Production can be shadowed by staging.* Map both origins to one target in
  `TwoTargets` of `MCRumPipeline`, as the shipped stacks do, and
  `ProductionSurfaces` fails: the novelty key leaves the lane out.
* *A failed render can leave the payment scope.* Check `FailedRendersStayIn` in
  `MCPaymentScope`: a recovery reads the document it is about to replace, the page
  navigates by itself before the reload, and the render that is really replaced
  was not recorded, although `payment-scope.ts:109` says that detection records
  every document it replaces, on every step. `RecordedRendersStayIn` is what holds.
* *A gap in the evidence can add trust, in a loop.* Without its premise `~Loops`,
  `GapsOnlyRemoveTrust` fails: where two scripts insert each other, the memo
  answers "none" for one that is being decided and keeps the answer, and evidence
  that is missing may break the loop before that (`initiator-chain.ts:11`). The
  script that loses by it is one that should inherit: the error is on the side of
  alerting.

* *A gap in the evidence can add trust, at the cap.* Let an approved script of
  `MCLoads` be observed twice, from the document and from one that grants, and load
  a third that the grant takes; keep one path per script (`MaxPaths = 1`). Without
  its premise `Uncut`, `GapsOnlyRemoveTrust` fails: the path that is kept leads to the
  document, and without the evidence of that copy the other is kept. The code keeps sixteen paths
  (`initiator-chain.ts:188`). What inherits then is on a route that the evidence has.

A run's dedupe set dies with the run, so a crash between the alert and the
delete alerts again in the next run. `OneAlertPerRun` is, as its name says,
about one run.

## 8. What is left out

* **Collector**: metrics, log redaction, body size and the schema of
  observations (an observation is well formed or the request is refused);
  health observations, which are never keyed.
* **Comparator**: how the verdict on a script is computed from a beacon (`RumRoute`
  takes it as given), the file-backed queue of the command line, the run's summary.
* **Agent**: byte caps and halving of beacons and the dropping of over-long
  URLs; initiator chains; the check on the key of a pending observation, which
  the session set makes redundant for initiators that fit the cap; the caps of
  the device set, and the gap between its read and its write (a lost stamp
  makes a key report again and silences nothing); failing storage; route
  tracking; the contents of health observations. External and CSP captures share
  one queue in the model, since the code drains both together.
* **Synthetic runs**: reports, the browser's launch, parallel targets within a
  workflow (their results are folded in order), the file-backed store.
* **Comparison**: the checks for required scripts and headers that are missing,
  the wording of reasons and evidence, the order of results. Regular expressions
  are sets of accepted texts.
* **Page detection**: locators, TOTP entry, capture of CSP reports, screenshots,
  and in `ScriptReads` the compared content itself. `Restore` (the back/forward
  cache) leaves out a page that goes and comes back between the two reads of one
  bracket, which the code could not notice and which takes more time than lies
  between them.
* **Alerts**: the RUM alert, the message about a failed pull request and the
  console. The lists of failed targets and undelivered alerts are not capped in
  the code: beyond some forty sections they would pass Slack's fifty blocks, and
  the instance stays below (`FewBlocks`). A line names its target only while what
  precedes the name fits the line's limit; the labels of the instance do
  (`LabelsFit`).
* **RUM normalisation and URL evidence**: conversions of one observation, without
  state; the verdict they lead to is an input of `RumRoute`.
* **Not to be modelled**: reports, parsing of configuration and arguments, the
  shop workflows, and provisioning, which keep no state that several steps share.
