----------------------------- MODULE ScriptReads -----------------------------
(***************************************************************************)
(* A synthetic run of one target (src/services/detection.ts) as far as the *)
(* scripts it must account for (src/handlers/script.ts): the attempts and  *)
(* steps of its workflow, the requests the page makes meanwhile, and the   *)
(* reads of their bodies, which Puppeteer runs beside the workflow.        *)
(*                                                                         *)
(* A step is located, then its element clicked, then what the click must   *)
(* bring about awaited; whatever else a step may do counts as such a click.*)
(* The two waits for reads end when nothing is outstanding or when their   *)
(* time is up: at any moment.                                              *)
(***************************************************************************)
EXTENDS Naturals, FiniteSets

CONSTANTS
  Requests,     \* the script requests a page may make
  FrameOf,      \* request -> its frame, MainFrame or another
  MainFrame,
  UrlOf,        \* request -> URL
  Redirect,     \* request -> the hop that redirects to it, itself if none; bound: one hop
  Steps,        \* the number of steps of the workflow
  Boundary,     \* the step that pays: retryBoundary
  MaxAttempts   \* retry.maxAttempts

ASSUME ReadsAssumption ==
  /\ Steps \in Nat \ {0} /\ Boundary \in 1 .. Steps /\ MaxAttempts \in Nat \ {0}
  /\ \A r \in Requests : Redirect[r] \in Requests /\ Redirect[Redirect[r]] = Redirect[r]

Hops == {Redirect[r] : r \in {s \in Requests : Redirect[s] # s}}

\* A hop and its target have one DevTools id.
Id(r) == Redirect[r]

Never == Steps + 1

\* maxSafeAttempts of evalClick.
SafeTries == 3

VARIABLES
  phase,     \* "working", "acting", "settling", "closing", "grace", "thrown", "done", "failed"
  attempt, step,
  crossed,   \* the attempt passed its retry boundary
  retryable, \* what was thrown may be retried
  tries,     \* of evalClick at the step's element, 0 when no click is under way
  sent,      \* the click was dispatched
  payments,  \* how often the paying action was dispatched, over all attempts
  closed,    \* the browser context is known to be closed
  gone,      \* the frames that went away
  \* What Chrome did.
  asked, answered, failed,  \* requests issued; answered by a response; failed
  errors,    \* requests answered with something that is no script
  arrived,   \* scripts whose body is complete: they may have run
  \* PendingScriptReads, and the lists of the attempt.
  inFlight, pending, detached, finished, answeredLate, unanswered,
  cutAt,     \* request -> the step recorded as the one its frame went away in
  sealed, compared,
  unread,    \* records [url, status], status 0 without a response
  gap        \* the requests those records were made for

chrome == <<asked, answered, failed, errors, arrived, gone>>
reads  == <<inFlight, pending, detached, finished, answeredLate, unanswered, cutAt, sealed, compared, unread, gap>>
click  == <<tries, sent>>
flow   == <<phase, attempt, step, crossed, retryable, click, payments, closed>>
vars   == <<flow, chrome, reads>>

TypeOK ==
  /\ phase \in {"working", "acting", "settling", "closing", "grace", "thrown", "done", "failed"}
  /\ tries \in 0 .. SafeTries /\ sent \in BOOLEAN
  /\ attempt \in 1 .. MaxAttempts /\ step \in 0 .. Steps /\ payments \in 0 .. MaxAttempts
  /\ crossed \in BOOLEAN /\ retryable \in BOOLEAN /\ closed \in BOOLEAN /\ sealed \in BOOLEAN
  /\ \A set \in {asked, answered, failed, errors, arrived, inFlight, pending, detached, finished, answeredLate,
                 unanswered, compared, gap} : set \subseteq Requests
  /\ gone \subseteq {FrameOf[r] : r \in Requests}
  /\ cutAt \in [Requests -> 0 .. Never]

Init ==
  /\ phase = "working" /\ attempt = 1 /\ step = 0 /\ crossed = FALSE /\ retryable = FALSE
  /\ tries = 0 /\ sent = FALSE /\ payments = 0 /\ closed = FALSE
  /\ asked = {} /\ answered = {} /\ failed = {} /\ errors = {} /\ arrived = {} /\ gone = {}
  /\ inFlight = {} /\ pending = {} /\ detached = {} /\ finished = {} /\ answeredLate = {} /\ unanswered = {}
  /\ cutAt = [r \in Requests |-> Never] /\ sealed = FALSE /\ compared = {} /\ unread = {} /\ gap = {}

Open == phase \in {"working", "acting", "settling", "closing", "grace"}

(***************************************************************************)
(* Recording.                                                              *)
(***************************************************************************)
Record(r, status) == [url |-> UrlOf[r], status |-> status]

\* recordUnreadScript: a record without a status matches any.
Known(records, new) ==
  \E old \in records : old.url = new.url /\ (old.status = new.status \/ 0 \in {old.status, new.status})

Noted(records, new) == records \cup (IF Known(records, new) THEN {} ELSE {new})

\* recordUnsettled, of what a settling returns: the pending reads come first;
\* among themselves, records of one status are equal or of different URLs.
NotedAll(records, withResponse, without) ==
  LET whole == records \cup {new \in {Record(r, 200) : r \in withResponse} : ~Known(records, new)}
  IN whole \cup {new \in {Record(r, 0) : r \in without} : ~Known(whole, new)}

(***************************************************************************)
(* The page and Chrome, whose events Puppeteer hands on.                   *)
(***************************************************************************)
\* trackRequest.
Issue(r) ==
  /\ Open /\ r \notin asked /\ FrameOf[r] \notin gone
  /\ Redirect[r] # r => Redirect[r] \in answered
  /\ asked' = asked \cup {r} /\ inFlight' = inFlight \cup {r}
  /\ UNCHANGED <<flow, answered, failed, errors, arrived, gone>>
  /\ UNCHANGED <<pending, detached, finished, answeredLate, unanswered, cutAt, sealed, compared, unread, gap>>

Outstanding(r) == Open /\ r \in asked \ (answered \cup failed)

\* requestSettled: nothing was delivered.
RequestFailed(r) ==
  /\ Outstanding(r) /\ r \notin arrived \cup errors
  /\ failed' = failed \cup {r}
  /\ inFlight' = inFlight \ {r} /\ detached' = detached \ {r}
  /\ UNCHANGED <<flow, asked, answered, errors, arrived, gone>>
  /\ UNCHANGED <<pending, finished, answeredLate, unanswered, cutAt, sealed, compared, unread, gap>>

\* bodyFinished: Network.loadingFinished on a session of the monitor.  The
\* body may be that of an error page.
BodyFinished(r) ==
  /\ Outstanding(r) /\ r \notin arrived \cup errors \cup Hops
  /\ finished' = finished \cup {Id(r)}
  /\ \/ arrived' = arrived \cup {r} /\ UNCHANGED errors
     \/ errors' = errors \cup {r} /\ UNCHANGED arrived
  /\ UNCHANGED <<flow, asked, answered, failed, gone>>
  /\ UNCHANGED <<inFlight, pending, detached, answeredLate, unanswered, cutAt, sealed, compared, unread, gap>>

\* requestfinished though no response surfaced: unread, at any time.
RequestFinished(r) ==
  /\ Outstanding(r) /\ r \notin errors \cup Hops
  /\ failed' = failed \cup {r} /\ arrived' = arrived \cup {r}
  /\ inFlight' = inFlight \ {r} /\ detached' = detached \ {r} /\ unanswered' = unanswered \ {r}
  /\ unread' = Noted(unread, Record(r, 0)) /\ gap' = gap \cup {r}
  /\ UNCHANGED <<flow, asked, answered, errors, gone>>
  /\ UNCHANGED <<pending, finished, answeredLate, cutAt, sealed, compared>>

\* frameDetached: its requests are no longer waited for.
FrameDetached(f) ==
  LET cut == {r \in inFlight : FrameOf[r] = f} IN
  /\ Open /\ f # MainFrame /\ f \notin gone
  /\ gone' = gone \cup {f}
  /\ inFlight' = inFlight \ cut /\ detached' = detached \cup cut
  /\ cutAt' = [r \in Requests |-> IF r \in cut THEN step ELSE cutAt[r]]
  /\ UNCHANGED <<flow, asked, answered, failed, errors, arrived>>
  /\ UNCHANGED <<pending, finished, answeredLate, unanswered, sealed, compared, unread, gap>>

\* track, of a script: its read starts, and what was listed stays listed.
Response(r) ==
  /\ Outstanding(r) /\ r \notin errors \cup Hops
  /\ answered' = answered \cup {r}
  /\ inFlight' = inFlight \ {r} /\ detached' = detached \ {r} /\ pending' = pending \cup {r}
  /\ UNCHANGED <<flow, asked, failed, errors, arrived, gone>>
  /\ UNCHANGED <<finished, answeredLate, unanswered, cutAt, sealed, compared, unread, gap>>

\* Slip: a redirect is an answer like another.
KeptHop(r) == unanswered

\* A redirect hop is answered by its redirect.
ListedAfterRedirect(r) == unanswered \ {r}

RedirectResponse(r) ==
  /\ Outstanding(r) /\ r \in Hops
  /\ answered' = answered \cup {r}
  /\ inFlight' = inFlight \ {r} /\ detached' = detached \ {r}
  /\ unanswered' = ListedAfterRedirect(r)
  /\ UNCHANGED <<flow, asked, failed, errors, arrived, gone>>
  /\ UNCHANGED <<pending, finished, answeredLate, cutAt, sealed, compared, unread, gap>>

\* No script: nothing to read.  What was listed stays listed.
ErrorResponse(r) ==
  /\ Outstanding(r) /\ r \notin arrived \cup Hops
  /\ answered' = answered \cup {r} /\ errors' = errors \cup {r}
  /\ inFlight' = inFlight \ {r} /\ detached' = detached \ {r}
  /\ answeredLate' = answeredLate \cup (unanswered \cap {r})
  /\ UNCHANGED <<flow, asked, failed, arrived, gone>>
  /\ UNCHANGED <<pending, finished, unanswered, cutAt, sealed, compared, unread, gap>>

\* scriptResponseHandler after its await, and the read forgotten: a body that
\* was read in time is compared, any other is recorded.
ReadSettles(r) ==
  /\ Open /\ r \in pending
  /\ pending' = pending \ {r} /\ unanswered' = unanswered \ {r}
  /\ \/ /\ ~sealed /\ compared' = compared \cup {r} /\ arrived' = arrived \cup {r}
        /\ UNCHANGED <<unread, gap>>
     \/ /\ sealed /\ arrived' = arrived \cup {r}
        /\ unread' = Noted(unread, Record(r, 200)) /\ gap' = gap \cup {r}
        /\ UNCHANGED compared
     \/ /\ unread' = Noted(unread, Record(r, 200)) /\ gap' = gap \cup {r}
        /\ UNCHANGED <<compared, arrived>>
  /\ UNCHANGED <<flow, asked, answered, failed, errors, gone>>
  /\ UNCHANGED <<inFlight, detached, finished, answeredLate, cutAt, sealed>>

(***************************************************************************)
(* PendingScriptReads.settle, at the end of its wait.                      *)
(***************************************************************************)
\* Slip: a request that is listed already is not looked at again.
OnlyOutstanding == {r \in inFlight \cup detached : Id(r) \in finished}

\* The requests whose body is complete though no response surfaced.
WithoutResponse ==
  {r \in inFlight \cup detached : Id(r) \in finished}
    \cup {r \in unanswered \ (pending \cup answeredLate) : Id(r) \in finished}

\* Slip: the end of the context counts as seen, whether it was or not.
CutAnyway(r) == IF r \in inFlight /\ phase = "grace" THEN step ELSE cutAt[r]

CutBy(r) == IF r \in inFlight /\ phase = "grace" /\ closed THEN step ELSE cutAt[r]

SettleReads ==
  LET bare == WithoutResponse IN
  /\ unread' = NotedAll(unread, pending, bare) /\ gap' = gap \cup pending \cup bare
  /\ unanswered' = (unanswered \cup inFlight \cup detached) \ bare
  /\ cutAt' = [r \in Requests |-> CutBy(r)]
  /\ inFlight' = {} /\ detached' = {}
  /\ UNCHANGED <<pending, finished, answeredLate, compared>>

(***************************************************************************)
(* The workflow.                                                           *)
(***************************************************************************)
\* Slip: the boundary is passed when the action has succeeded.
MarksAfterwards(k) == FALSE

\* The boundary is marked before the action is dispatched.
MarksBefore(k) == k = Boundary

\* The outcomes of a click that are known to come before its dispatch.
SafeToReplay == {"missing"}

Paying == IF step + 1 = Boundary THEN 1 ELSE 0

Throws == phase' = "closing" /\ retryable' \in BOOLEAN

\* The target of the next step does not appear, or the page does not load.
LocateFails ==
  /\ phase = "working" /\ Throws
  /\ UNCHANGED <<attempt, step, crossed, click, payments, closed, chrome, reads>>

\* executeAction, with the waits for what the click must bring about.
BeginAct ==
  /\ phase = "working" /\ step < Steps
  /\ phase' = "acting" /\ tries' = 1 /\ sent' = FALSE
  /\ crossed' = (crossed \/ MarksBefore(step + 1))
  /\ UNCHANGED <<attempt, step, retryable, payments, closed, chrome, reads>>

\* The element is clicked, though its step may have been given up meanwhile.
Clicked ==
  /\ tries > 0 /\ ~sent /\ ~closed
  /\ sent' = TRUE /\ payments' = payments + Paying
  /\ UNCHANGED <<phase, attempt, step, crossed, retryable, tries, closed, chrome, reads>>

\* It is missing, replaced or disabled; or its evaluation throws, dispatched
\* or not.
NotClicked(outcome) ==
  /\ phase = "acting" /\ ~sent
  /\ \/ UNCHANGED payments
     \/ outcome = "thrown" /\ payments' = payments + Paying
  /\ \/ /\ outcome \in SafeToReplay /\ tries < SafeTries
        /\ tries' = tries + 1 /\ UNCHANGED <<phase, retryable>>
     \/ /\ outcome \notin SafeToReplay \/ tries = SafeTries
        /\ tries' = 0 /\ phase' = "closing" /\ retryable' \in (IF outcome = "thrown" THEN BOOLEAN ELSE {FALSE})
  /\ UNCHANGED <<attempt, step, crossed, sent, closed, chrome, reads>>

\* What was awaited does not come in time; the click is not called off.
Unanswered ==
  /\ phase = "acting" /\ Throws
  /\ UNCHANGED <<attempt, step, crossed, click, payments, closed, chrome, reads>>

StepDone ==
  /\ phase = "acting" /\ sent
  /\ phase' = "working" /\ step' = step + 1 /\ tries' = 0
  /\ UNCHANGED <<attempt, crossed, retryable, sent, payments, closed, chrome, reads>>

LastStepDone ==
  /\ phase = "working" /\ step = Steps
  /\ phase' = "settling"
  /\ UNCHANGED <<attempt, step, crossed, retryable, click, payments, closed, chrome, reads>>

\* Slip: a read is waited for until it returns.
AllReturned == pending = {} /\ inFlight = {}

\* The wait ends when nothing is outstanding, or when its time is up.
WaitIsOver == TRUE

\* The run is accounted for from here on.
Settle ==
  /\ phase = "settling" /\ WaitIsOver /\ SettleReads
  /\ sealed' = TRUE /\ phase' = "closing"
  /\ UNCHANGED <<attempt, step, crossed, retryable, click, payments, closed, chrome>>

\* A close that fails is logged.
Close ==
  /\ phase = "closing"
  /\ phase' = "grace" /\ closed' \in BOOLEAN
  /\ UNCHANGED <<attempt, step, crossed, retryable, click, payments, chrome, reads>>

\* The summary is made of what is there after the grace, or nothing is.
SettleAtClose ==
  /\ phase = "grace" /\ SettleReads
  /\ phase' = IF sealed THEN "done" ELSE "thrown"
  /\ UNCHANGED <<sealed, attempt, step, crossed, retryable, click, payments, closed, chrome>>

\* An attempt starts in a browser context of its own.
Retry ==
  /\ phase = "thrown" /\ ~crossed /\ retryable /\ attempt < MaxAttempts
  /\ phase' = "working" /\ attempt' = attempt + 1 /\ step' = 0
  /\ crossed' = FALSE /\ retryable' = FALSE /\ closed' = FALSE /\ tries' = 0 /\ sent' = FALSE
  /\ asked' = {} /\ answered' = {} /\ failed' = {} /\ errors' = {} /\ arrived' = {} /\ gone' = {}
  /\ inFlight' = {} /\ pending' = {} /\ detached' = {} /\ finished' = {} /\ answeredLate' = {}
  /\ unanswered' = {} /\ cutAt' = [r \in Requests |-> Never] /\ sealed' = FALSE
  /\ compared' = {} /\ unread' = {} /\ gap' = {}
  /\ UNCHANGED payments

GiveUp ==
  /\ phase = "thrown" /\ (crossed \/ ~retryable \/ attempt = MaxAttempts)
  /\ phase' = "failed"
  /\ UNCHANGED <<attempt, step, crossed, retryable, click, payments, closed, chrome, reads>>

Act == BeginAct \/ Clicked \/ StepDone \/ Unanswered \/ \E outcome \in {"missing", "thrown"} : NotClicked(outcome)

Work == Act \/ LocateFails \/ LastStepDone \/ Settle \/ Close \/ SettleAtClose \/ Retry \/ GiveUp

Next ==
  \/ Work
  \/ \E r \in Requests :
       \/ Issue(r) \/ RequestFailed(r) \/ BodyFinished(r) \/ RequestFinished(r)
       \/ Response(r) \/ RedirectResponse(r) \/ ErrorResponse(r) \/ ReadSettles(r)
  \/ \E f \in {FrameOf[r] : r \in Requests} : FrameDetached(f)

Spec == Init /\ [][Next]_vars

\* Every wait of the workflow has a timeout; of Chrome nothing is assumed.
FairSpec == Spec /\ WF_vars(Work)

(***************************************************************************)
(* Properties.                                                             *)
(***************************************************************************)
\* unansweredRequests.
Listed == unanswered \ pending

\* No script that may have run is missing from the summary: whatever order
\* responses, reads, failures, frames and the end of the run come in, it was
\* compared or is recorded as unread.
NothingVanishes ==
  phase = "done" => \A r \in arrived : r \in compared \/ \E record \in unread : record.url = UrlOf[r]

\* Everything ends in one place: what is unread is neither listed as
\* unanswered nor compared, and a redirect is never a gap of its own.
CountedOnce ==
  phase = "done" => gap \cap (Listed \cup compared \cup Hops) = {} /\ Listed \cap compared = {}

\* A payment is never tried twice: whether its click was missed, failed after
\* it was dispatched, was answered too late or landed while the attempt was
\* being given up, no further click and no further attempt follows it.
OnePayment == payments <= 1

\* A request recorded as cut off with its frame was: the frame was seen to go
\* away, or the context to close.
CutsWereSeen ==
  phase = "done" => \A r \in Listed : cutAt[r] # Never => FrameOf[r] \in gone \/ closed

\* A run ends, though a read or a request may stay outstanding for good.
Ends == <>(phase \in {"done", "failed"})

=============================================================================
