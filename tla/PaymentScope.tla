---------------------------- MODULE PaymentScope ----------------------------
(***************************************************************************)
(* Which observations of a synthetic run are the payment page's: the       *)
(* ledger of top-level documents (src/services/document-ledger.ts), what   *)
(* the workflow reads of it while the page navigates on its own            *)
(* (src/services/detection.ts), and the scope made of both                 *)
(* (src/services/payment-scope.ts).                                        *)
(*                                                                         *)
(* DevTools delivers events and answers in one ordered stream, so the      *)
(* ledger is as Chrome is; between two reads the page may do anything.     *)
(***************************************************************************)
EXTENDS Naturals, Sequences, FiniteSets, SequencesExt

CONSTANTS
  Paths,        \* the origins and paths of pages
  LastStep,     \* the number of steps of the workflow
  Marked,       \* the steps marked paymentPage
  Frames,       \* the frames a page may attach
  ParentOf,     \* frame -> the frame it is in, Main for the page
  Main,
  Scripts,      \* the scripts a page may run
  None,         \* undefined
  MaxDocuments, \* bound: documents loaded
  MaxChain,     \* bound: appearances in the chain, restored ones included
  MaxRoutes,    \* bound: client-side navigations
  MaxRequests   \* bound: script requests followed

ASSUME ScopeAssumption ==
  /\ LastStep \in Nat \ {0} /\ Marked \subseteq 1 .. LastStep /\ Marked # {}
  /\ IsFiniteSet(Frames) /\ Main \notin Frames
  /\ \A f \in Frames : ParentOf[f] \in Frames \cup {Main}
  /\ None \notin Nat
  /\ MaxDocuments \in Nat \ {0} /\ MaxRequests \in Nat

VARIABLES
  trail,     \* the ledger's chain: records [id, url, routes]
  loaded,    \* documents loaded; a document is its number
  home,      \* frame -> the document it was attached in, None before
  owners,    \* frame -> the ledger's owner, None when it never saw it attach
  request,   \* the script request in flight, [document, frame, logged], or None
  requested, \* how many were made
  kept,      \* captured: <<script, document or None>>
  ran,       \* the truth of them: <<script, document>>
  paid,      \* the truth of paymentDocuments: where a marked target was found
  replaced,  \* the truth of recoveryReplaced: <<document, its replacement>>
  pc, reached, before, scanned,
  paymentDocuments, recoveryReplaced, unresolved

page == <<trail, loaded, home, owners>>
seen == <<request, requested, kept, ran>>
mark == <<paid, replaced, paymentDocuments, recoveryReplaced, unresolved>>
scopeVars == <<page, seen, mark, pc, reached, before, scanned>>

Current == Last(trail).id

Documents == 1 .. MaxDocuments

ScopeTypeOK ==
  /\ trail \in Seq([id : Documents, url : Paths, routes : Seq(Paths)]) /\ trail # <<>>
  /\ loaded \in Documents
  /\ home \in [Frames -> Documents \cup {None}] /\ owners \in [Frames -> Documents \cup {None}]
  /\ request \in [document : Documents, frame : Frames \cup {Main}, logged : BOOLEAN] \cup {None}
  /\ requested \in 0 .. MaxRequests
  /\ kept \subseteq Scripts \X (Documents \cup {None}) /\ ran \subseteq Scripts \X Documents
  /\ paid \subseteq Documents /\ replaced \subseteq Documents \X Documents
  /\ pc \in {"locating", "recovering", "checking", "confirming", "acting", "reading", "attributing", "done"}
  /\ reached \in 1 .. LastStep + 1
  /\ before \in Documents \cup {None} /\ scanned \in Documents \cup {None}
  /\ paymentDocuments \subseteq Documents /\ recoveryReplaced \subseteq Documents
  /\ unresolved \in BOOLEAN

(***************************************************************************)
(* The page: it navigates whenever it likes, and DocumentLedger hears.     *)
(***************************************************************************)
Committed(id, url) == Append(trail, [id |-> id, url |-> url, routes |-> <<>>])

\* A document of its own at p: a full page load.
Load(p) ==
  /\ loaded < MaxDocuments /\ Len(trail) < MaxChain
  /\ loaded' = loaded + 1
  /\ trail' = Committed(loaded + 1, p)

Navigate(p) ==
  /\ pc # "done" /\ Load(p)
  /\ UNCHANGED <<home, owners, seen, mark, pc, reached, before, scanned>>

UrlNow(entry) == IF entry.routes = <<>> THEN entry.url ELSE Last(entry.routes)

\* The back/forward cache: an earlier document again, at the URL it was left at.
\* The reads of one bracket are taken too close together for a page to leave
\* and to come back between them.
Restore ==
  /\ pc \in {"locating", "recovering", "acting"} /\ Len(trail) < MaxChain
  /\ \E i \in 1 .. Len(trail) - 1 :
       /\ trail[i].id # Current
       /\ \A j \in i + 1 .. Len(trail) : trail[j].id # trail[i].id
       /\ trail' = Committed(trail[i].id, UrlNow(trail[i]))
  /\ UNCHANGED <<loaded, home, owners, seen, mark, pc, reached, before, scanned>>

\* onNavigatedWithinDocument.  A scope reads origins and paths: a navigation
\* that keeps both is left out.
Route(p) ==
  /\ pc # "done" /\ p # UrlNow(Last(trail))
  /\ FoldLeft(LAMBDA n, entry : n + Len(entry.routes), 0, trail) < MaxRoutes
  /\ trail' = [trail EXCEPT ![Len(trail)].routes = Append(@, p)]
  /\ UNCHANGED <<loaded, home, owners, seen, mark, pc, reached, before, scanned>>

OwnerOfFrame(f) == IF f = Main THEN Current ELSE owners[f]

Lives(f) == f # Main => home[f] = Current

\* onFrameAttached.  The event of a frame inside an out-of-process frame goes
\* to another session.  A frame no followed request can come from is left out.
FrameAttached(f) ==
  /\ pc # "done" /\ home[f] = None /\ Lives(ParentOf[f]) /\ requested < MaxRequests
  /\ home' = [home EXCEPT ![f] = Current]
  /\ \/ owners' = [owners EXCEPT ![f] = OwnerOfFrame(ParentOf[f])]
     \/ UNCHANGED owners
  /\ UNCHANGED <<trail, loaded, seen, mark, pc, reached, before, scanned>>

\* onFrameNavigated of a child frame: it keeps its owner.
ChildNavigated(f) ==
  /\ pc # "done" /\ home[f] = Current /\ owners[f] = None
  /\ owners' = [owners EXCEPT ![f] = OwnerOfFrame(ParentOf[f])]
  /\ owners' # owners
  /\ UNCHANGED <<trail, loaded, home, seen, mark, pc, reached, before, scanned>>

(***************************************************************************)
(* What the run captures of the page.                                      *)
(***************************************************************************)
\* One copy of a script for each document: the handlers' deduplication.
CopyPerDocument(script, document) == kept \cup {<<script, document>>}

\* The frame of a request and the frames it is in, innermost first.
FrameChain(f) ==
  LET chain[n \in 0 .. Cardinality(Frames)] ==
        IF n = 0 THEN f ELSE IF chain[n - 1] = Main THEN Main ELSE ParentOf[chain[n - 1]]
  IN chain

\* The owner of the nearest of them whose owner is known.
OwnerUp(f) ==
  LET known == {n \in DOMAIN FrameChain(f) : FrameChain(f)[n] # Main /\ owners[FrameChain(f)[n]] # None}
      nearest == CHOOSE n \in known : \A m \in known : n <= m
  IN IF known = {} THEN None ELSE owners[FrameChain(f)[nearest]]

\* Slip: a request nothing is known of is the current document's.
GuessesCurrent(r) ==
  IF r.logged /\ r.frame = Main THEN r.document ELSE IF OwnerUp(r.frame) # None THEN OwnerUp(r.frame) ELSE Current

\* documentOfRequest: a request of the main frame carries its loader.
DocumentOfRequest(r) == IF r.logged /\ r.frame = Main THEN r.document ELSE OwnerUp(r.frame)

\* A frame of the current document asks for a script.  An out-of-process
\* frame's request, or one whose id cannot be read, is not in the ledger, and
\* a child frame's is not asked for there.
RequestScript(f) ==
  /\ pc # "done" /\ request = None /\ requested < MaxRequests /\ Lives(f)
  /\ \E logged \in {FALSE, f = Main} : request' = [document |-> Current, frame |-> f, logged |-> logged]
  /\ requested' = requested + 1
  /\ UNCHANGED <<page, kept, ran, mark, pc, reached, before, scanned>>

\* Its response, however late.
ScriptArrives ==
  /\ pc # "done" /\ request # None
  /\ \E script \in Scripts :
       /\ kept' = CopyPerDocument(script, DocumentOfRequest(request))
       /\ ran' = ran \cup {<<script, request.document>>}
  /\ request' = None
  /\ UNCHANGED <<page, requested, mark, pc, reached, before, scanned>>

(***************************************************************************)
(* The workflow.  A document is read from the browser, or cannot be.       *)
(***************************************************************************)
Answers == {Current, None}

\* waitForActionTarget finds the step's target; of a marked step, the first
\* read of resolvePaymentDocument.  One that fails is as one that fails later.
Located ==
  /\ pc = "locating"
  /\ IF reached \in Marked THEN before' = Current /\ pc' = "checking" ELSE pc' = "acting" /\ UNCHANGED before
  /\ UNCHANGED <<page, seen, mark, reached, scanned>>

\* recordRecovery: the target did not render.
RecordRecovery ==
  /\ pc = "locating"
  /\ pc' = "recovering"
  /\ \E answer \in Answers :
       IF answer = None THEN unresolved' = TRUE /\ UNCHANGED recoveryReplaced
       ELSE recoveryReplaced' = recoveryReplaced \cup {answer} /\ UNCHANGED unresolved
  /\ UNCHANGED <<page, seen, paid, replaced, paymentDocuments, reached, before, scanned>>

\* page.goto, which may land anywhere.
Recover ==
  /\ pc = "recovering"
  /\ \E p \in Paths : Load(p)
  /\ replaced' = replaced \cup {<<Current, loaded'>>}
  /\ pc' = "locating"
  /\ UNCHANGED <<home, owners, seen, paid, paymentDocuments, recoveryReplaced, unresolved, reached, before, scanned>>

\* resolvePaymentDocument: the target is still there, or not.
CheckTarget ==
  /\ pc = "checking"
  /\ \/ paid' = paid \cup {Current} /\ pc' = "confirming" /\ UNCHANGED unresolved
     \/ unresolved' = TRUE /\ pc' = "acting" /\ UNCHANGED paid
  /\ UNCHANGED <<page, seen, replaced, paymentDocuments, recoveryReplaced, reached, before, scanned>>

\* A document counts when it is the same before and after.
Bracketed(answer) == IF answer = before THEN before ELSE None

ReadAfter ==
  /\ pc = "confirming"
  /\ \E answer \in Answers :
       LET document == Bracketed(answer)
       IN IF document = None THEN unresolved' = TRUE /\ UNCHANGED paymentDocuments
          ELSE paymentDocuments' = paymentDocuments \cup {document} /\ UNCHANGED unresolved
  /\ pc' = "acting" /\ before' = None
  /\ UNCHANGED <<page, seen, paid, replaced, recoveryReplaced, reached, scanned>>

\* The action is done; detectNewInlineScripts, its three reads.  The last ends
\* the capture.
ScanBefore ==
  /\ pc = "acting"
  /\ before' = Current /\ pc' = "reading"
  /\ UNCHANGED <<page, seen, mark, reached, scanned>>

ReadPage ==
  /\ pc = "reading"
  /\ scanned' = Current /\ pc' = "attributing"
  /\ UNCHANGED <<page, seen, mark, reached, before>>

ScanAfter ==
  /\ pc = "attributing"
  /\ \E answer \in Answers, script \in Scripts :
       /\ kept' = CopyPerDocument(script, Bracketed(answer))
       /\ ran' = ran \cup {<<script, scanned>>}
  /\ request' = IF reached = LastStep THEN None ELSE request
  /\ reached' = reached + 1
  /\ pc' = IF reached = LastStep THEN "done" ELSE "locating"
  /\ before' = None /\ scanned' = None
  /\ UNCHANGED <<page, requested, mark>>

Workflow ==
  \/ Located \/ RecordRecovery \/ Recover \/ CheckTarget \/ ReadAfter
  \/ ScanBefore \/ ReadPage \/ ScanAfter

ScopeInit ==
  /\ \E p \in Paths : trail = <<[id |-> 1, url |-> p, routes |-> <<>>]>>
  /\ loaded = 1 /\ home = [f \in Frames |-> None] /\ owners = home
  /\ request = None /\ requested = 0 /\ kept = {} /\ ran = {}
  /\ paid = {} /\ replaced = {} /\ paymentDocuments = {} /\ recoveryReplaced = {} /\ unresolved = FALSE
  /\ pc = "locating" /\ reached = 1 /\ before = None /\ scanned = None

ScopeNext ==
  \/ Workflow \/ Restore \/ ScriptArrives
  \/ \E p \in Paths : Navigate(p) \/ Route(p)
  \/ \E f \in Frames : FrameAttached(f) \/ ChildNavigated(f)
  \/ \E f \in Frames \cup {Main} : RequestScript(f)

ScopeSpec == ScopeInit /\ [][ScopeNext]_scopeVars

(***************************************************************************)
(* partitionByPaymentScope, outsidePaymentDocuments.                       *)
(***************************************************************************)
PathsOf(id) == UNION {{entry.url} \cup Range(entry.routes) : entry \in {e \in Range(trail) : e.id = id}}

FirstOf(ids) == CHOOSE i \in 1 .. Len(trail) : trail[i].id \in ids /\ \A j \in 1 .. i - 1 : trail[j].id \notin ids

\* Slip: the page just before the payment page is not looked at.
AllButTheLast(ids) == {trail[i].id : i \in 1 .. FirstOf(ids) - 2}

EarlierThan(ids) == {trail[i].id : i \in 1 .. FirstOf(ids) - 1}

Onwards(ids) == {trail[i].id : i \in FirstOf(ids) .. Len(trail)}

\* The document after the last appearance of id.
ReplacementOf(id) ==
  LET last == CHOOSE i \in 1 .. Len(trail) : trail[i].id = id /\ \A j \in i + 1 .. Len(trail) : trail[j].id # id
  IN IF last = Len(trail) THEN None ELSE trail[last + 1].id

Different(ids) ==
  {d \in EarlierThan(ids) \ Onwards(ids) : PathsOf(d) \cap UNION {PathsOf(p) : p \in ids} = {}}

KeepsRecovered(outside) == {d \in outside : d \in recoveryReplaced => ReplacementOf(d) \in outside}

\* Slip: one pass over the documents recovery replaced.
OnePass(outside) == KeepsRecovered(outside)

\* The passes of the loop; a pass that changes something drops a document.
Passes(outside) ==
  LET pass[n \in 0 .. Cardinality(outside)] ==
        IF n = 0 THEN outside ELSE KeepsRecovered(pass[n - 1])
  IN pass

FixedPoint(outside) == Passes(outside)[Cardinality(outside)]

Scoped == ~unresolved /\ paymentDocuments # {} /\ \E e \in Range(trail) : e.id \in paymentDocuments

Outside == IF Scoped THEN FixedPoint(Different(paymentDocuments)) ELSE {}

InScope(document) == document \notin Outside

\* The scripts compared and alerted on, one copy each; and those recorded only.
Judged == {copy[1] : copy \in {c \in kept : InScope(c[2])}}
Recorded == {copy[1] : copy \in {c \in kept : ~InScope(c[2])}}

(***************************************************************************)
(* Properties.                                                             *)
(***************************************************************************)
\* What is the payment page's when ids are its documents: those, what came
\* after them, and any render of their paths.
PaymentsOwn(ids, d) == ids # {} /\ (d \in Onwards(ids) \/ PathsOf(d) \cap UNION {PathsOf(p) : p \in ids} # {})

\* No script that ran on the payment page, after it or in an earlier render
\* of it leaves the comparison, however the page navigates between the reads
\* and whatever could not be attributed.
PaymentIsJudged == pc = "done" => \A run \in ran : PaymentsOwn(paid, run[2]) => run[1] \in Judged

\* A render that recovery replaced is judged whenever what replaced it is,
\* over any number of recoveries: "detection records every document it
\* replaces" (payment-scope.ts).
FailedRendersStayIn ==
  pc = "done" => \A pair \in replaced : pair[2] \notin Outside => pair[1] \notin Outside

\* The same of the renders that were recorded.
RecordedRendersStayIn ==
  pc = "done" =>
    \A d \in recoveryReplaced : ReplacementOf(d) \notin Outside => d \notin Outside

\* The scope means something: of a page that came before the payment page,
\* elsewhere, and was not replaced, what can be attributed is recorded only.
EarlierPagesLeave ==
  pc = "done" /\ Scoped =>
    \A copy \in kept :
      copy[2] \notin recoveryReplaced \cup {None} /\ ~PaymentsOwn(paid \cup paymentDocuments, copy[2])
        => copy[1] \in Recorded

=============================================================================
