-------------------------- MODULE PageDetectionProofs --------------------------
(***************************************************************************)
(* Theorems about page detection: the accounts of script requests, for any *)
(* requests, frames, steps and attempts, and the payment scope, for any    *)
(* workflow, any tree of frames and any number of documents, navigations   *)
(* and requests.                                                           *)
(***************************************************************************)
EXTENDS ScriptReads, PaymentScope, DataLemmas

(***************************************************************************)
(* The workflow: where a run may be, and what it may still do.             *)
(***************************************************************************)
Phases == {"working", "acting", "settling", "closing", "grace", "thrown", "done", "failed"}

FlowTypes ==
  /\ phase \in Phases /\ crossed \in BOOLEAN /\ retryable \in BOOLEAN
  /\ sent \in BOOLEAN /\ closed \in BOOLEAN /\ sealed \in BOOLEAN
  /\ step \in 0 .. Steps /\ tries \in 0 .. SafeTries
  /\ attempt \in 1 .. MaxAttempts /\ payments \in {0, 1}

\* Once the paying action was dispatched there is no click of it under way, no
\* step that leads to it and no attempt after this one.
PaidInv ==
  payments = 1 =>
    /\ crossed = TRUE
    /\ phase = "working" => step >= Boundary
    /\ phase = "acting" => step + 1 >= Boundary
    /\ tries > 0 /\ sent = FALSE => step + 1 # Boundary

FlowInv ==
  /\ FlowTypes
  /\ phase = "acting" => step < Steps /\ tries > 0
  /\ phase = "working" => tries = 0
  /\ tries > 0 /\ step + 1 = Boundary => crossed = TRUE
  /\ PaidInv

LEMMA FlowStep ==
  ASSUME FlowInv, [Next]_vars
  PROVE  FlowInv'
<1> USE ReadsAssumption DEF FlowInv, FlowTypes, PaidInv, Phases, SafeTries
<1>1. CASE UNCHANGED flow /\ sealed' = sealed
  BY <1>1 DEF flow, click
<1>2. CASE LocateFails
  BY <1>2 DEF LocateFails, Throws, click, reads
<1>3. CASE BeginAct
  <2>1. /\ phase = "working" /\ step < Steps /\ phase' = "acting" /\ tries' = 1 /\ sent' = FALSE
        /\ attempt' = attempt /\ step' = step /\ retryable' = retryable /\ payments' = payments
        /\ closed' = closed /\ sealed' = sealed
    BY <1>3 DEF BeginAct, reads
  <2>2. /\ crossed' \in BOOLEAN
        /\ crossed = TRUE => crossed' = TRUE
        /\ step + 1 = Boundary => crossed' = TRUE
    <3>1. crossed' = (crossed \/ MarksBefore(step + 1)) /\ crossed \in BOOLEAN
      BY <1>3 DEF BeginAct
    <3> QED
      BY ONLY <3>1, Zenon DEF MarksBefore
  <2>3. sent' \in BOOLEAN
    BY <2>1, Zenon
  <2>4. FlowTypes'
    BY <2>1, <2>2, <2>3
  <2>5. PaidInv'
    <3>1. payments = 0 \/ (crossed = TRUE /\ step >= Boundary)
      BY <2>1
    <3> QED
      BY <2>1, <2>2, <3>1
  <2>6. tries' > 0 /\ step' + 1 = Boundary => crossed' = TRUE
    BY <2>1, <2>2
  <2> QED
    BY <2>1, <2>4, <2>5, <2>6
<1>4. CASE Clicked
  BY <1>4 DEF Clicked, Paying, reads
<1>5. ASSUME NEW outcome, NotClicked(outcome) PROVE FlowInv'
  <2>1. /\ phase = "acting" /\ sent = FALSE /\ sent' = sent /\ step' = step /\ crossed' = crossed
        /\ attempt' = attempt /\ closed' = closed /\ sealed' = sealed
    BY <1>5 DEF NotClicked, reads
  <2>2. \/ tries' = tries + 1 /\ tries < SafeTries /\ phase' = phase /\ retryable' = retryable /\ payments' = payments
        \/ tries' = 0 /\ phase' = "closing" /\ retryable' \in BOOLEAN
           /\ (payments' = payments \/ payments' = payments + Paying)
    BY <1>5 DEF NotClicked, SafeToReplay
  <2> QED
    BY <2>1, <2>2 DEF Paying
<1>6. CASE Unanswered
  BY <1>6 DEF Unanswered, Throws, click, reads
<1>7. CASE StepDone
  BY <1>7 DEF StepDone, reads
<1>8. CASE LastStepDone
  BY <1>8 DEF LastStepDone, click, reads
<1>9. CASE Settle
  BY <1>9 DEF Settle, click
<1>10. CASE Close
  BY <1>10 DEF Close, click, reads
<1>11. CASE SettleAtClose
  BY <1>11 DEF SettleAtClose, click
<1>12. CASE Retry
  <2>1. /\ crossed = FALSE /\ attempt < MaxAttempts /\ phase' = "working" /\ attempt' = attempt + 1
        /\ step' = 0 /\ crossed' = FALSE /\ retryable' = FALSE /\ closed' = FALSE /\ tries' = 0
        /\ sent' = FALSE /\ sealed' = FALSE /\ payments' = payments
    BY <1>12, Zenon DEF Retry
  <2>2. payments = 0 /\ attempt' \in 1 .. MaxAttempts /\ step' \in 0 .. Steps /\ tries' \in 0 .. SafeTries
    BY <2>1
  <2>3. /\ crossed' \in BOOLEAN /\ retryable' \in BOOLEAN /\ closed' \in BOOLEAN
        /\ sent' \in BOOLEAN /\ sealed' \in BOOLEAN
    BY <2>1, Zenon
  <2> QED
    BY <2>1, <2>2, <2>3
<1>13. CASE GiveUp
  BY <1>13 DEF GiveUp, click, reads
<1>14. CASE \E r \in Requests :
              \/ Issue(r) \/ RequestFailed(r) \/ BodyFinished(r) \/ RequestFinished(r)
              \/ Response(r) \/ RedirectResponse(r) \/ ErrorResponse(r) \/ ReadSettles(r)
  BY <1>1, <1>14 DEF Issue, RequestFailed, BodyFinished, RequestFinished, Response,
                     RedirectResponse, ErrorResponse, ReadSettles
<1>15. CASE \E f \in {FrameOf[r] : r \in Requests} : FrameDetached(f)
  BY <1>1, <1>15 DEF FrameDetached
<1>16. CASE UNCHANGED vars
  BY <1>1, <1>16 DEF vars, reads
<1> QED
  BY <1>2, <1>3, <1>4, <1>5, <1>6, <1>7, <1>8, <1>9, <1>10, <1>11, <1>12, <1>13, <1>14, <1>15, <1>16
     DEF Next, Work, Act

LEMMA FlowCorrect == Spec => []FlowInv
<1>1. Init => FlowInv
  <2> SUFFICES ASSUME Init PROVE FlowInv
    OBVIOUS
  <2>1. /\ phase = "working" /\ attempt = 1 /\ step = 0 /\ crossed = FALSE /\ retryable = FALSE
        /\ tries = 0 /\ sent = FALSE /\ payments = 0 /\ closed = FALSE /\ sealed = FALSE
    BY DEF Init
  <2>2. MaxAttempts \in Nat \ {0} /\ Steps \in Nat
    BY ReadsAssumption
  <2>3. /\ crossed \in BOOLEAN /\ retryable \in BOOLEAN /\ closed \in BOOLEAN
        /\ sent \in BOOLEAN /\ sealed \in BOOLEAN
    BY <2>1, Zenon
  <2> QED
    BY <2>1, <2>2, <2>3 DEF FlowInv, FlowTypes, PaidInv, Phases, SafeTries
<1>2. FlowInv /\ [Next]_vars => FlowInv'
  BY FlowStep
<1> QED
  BY <1>1, <1>2, PTL DEF Spec

\* A payment is never tried twice, over clicks that were missed, failed after
\* their dispatch or landed late, and over retries of the whole workflow.
THEOREM OnePaymentOnly == Spec => []OnePayment
<1>1. FlowInv => OnePayment
  BY DEF FlowInv, FlowTypes, OnePayment
<1> QED
  BY <1>1, FlowCorrect, PTL

(***************************************************************************)
(* The reads.                                                              *)
(***************************************************************************)
\* The requests a record speaks of.
Told == {r \in Requests : \E record \in unread : record.url = UrlOf[r]}

Waiting == inFlight \cup detached

ReadTypes ==
  /\ asked \subseteq Requests /\ answered \subseteq asked /\ failed \subseteq asked
  /\ pending \subseteq answered /\ arrived \subseteq Requests /\ unanswered \subseteq asked
  /\ errors \subseteq Requests /\ answeredLate \subseteq errors /\ finished \subseteq Requests
  /\ gap \subseteq asked /\ gone \subseteq {FrameOf[r] : r \in Requests}

\* None is recorded as cut off without its frame or its context being seen to
\* end, and a context is open until it is closed.
CutInv ==
  /\ phase \in {"working", "acting", "settling", "closing"} => closed = FALSE
  /\ cutAt \in [Requests -> 0 .. Never]
  /\ \A r \in Requests : cutAt[r] # Never => FrameOf[r] \in gone \/ closed = TRUE

\* A request that nothing ended is waited for, listed or recorded.
AskedInv ==
  /\ asked \ (answered \cup failed) \subseteq Waiting \cup unanswered \cup Told
  /\ Waiting \subseteq asked \ (answered \cup failed)

\* A complete body is compared, being read, recorded, or found by the next
\* settling.
ArrivedInv ==
  /\ pending \cap (errors \cup Hops) = {} /\ arrived \cap (errors \cup Hops) = {}
  /\ arrived \subseteq compared \cup Told \cup pending
                         \cup {r \in Waiting \cup unanswered : Id(r) \in finished}
  /\ phase = "done" => arrived \subseteq compared \cup Told

\* What is recorded is no longer waited for; a hop is answered by its redirect
\* before the body its target shares an id with can complete.
GapInv ==
  /\ compared \subseteq answered \ (pending \cup unanswered)
  /\ gap \cap (Waiting \cup Hops \cup compared) = {}
  /\ gap \cap unanswered \subseteq pending
  /\ Hops \cap finished \subseteq answered
  /\ Hops \cap answered \cap unanswered = {}
  /\ \A r \in asked : Redirect[r] # r => Redirect[r] \in answered
  /\ Open /\ sealed = FALSE => gap \subseteq (answered \cup failed) \ pending

ReadInv == ReadTypes /\ CutInv /\ AskedInv /\ ArrivedInv /\ GapInv

\* What is added to the records covers it, and nothing is taken out of them.
LEMMA NotedCovers ==
  ASSUME NEW records, NEW new
  PROVE  /\ records \subseteq Noted(records, new)
         /\ \E record \in Noted(records, new) : record.url = new.url
BY DEF Noted, Known

LEMMA NotedAllCovers ==
  ASSUME NEW records, NEW withResponse, NEW without
  PROVE  /\ records \subseteq NotedAll(records, withResponse, without)
         /\ \A r \in withResponse \cup without :
              \E record \in NotedAll(records, withResponse, without) : record.url = UrlOf[r]
<1> DEFINE whole == records \cup {new \in {Record(r, 200) : r \in withResponse} : ~Known(records, new)}
           rest  == {new \in {Record(r, 0) : r \in without} : ~Known(whole, new)}
<1>1. NotedAll(records, withResponse, without) = whole \cup rest
  BY DEF NotedAll
<1>2. \A r : Record(r, 200).url = UrlOf[r] /\ Record(r, 0).url = UrlOf[r]
  BY DEF Record
<1>3. ASSUME NEW r \in withResponse PROVE \E record \in whole : record.url = UrlOf[r]
  <2>1. CASE Known(records, Record(r, 200))
    BY <2>1, <1>2 DEF Known
  <2>2. CASE ~Known(records, Record(r, 200))
    <3>1. Record(r, 200) \in whole
      BY <2>2
    <3> QED
      BY <3>1, <1>2
  <2> QED
    BY <2>1, <2>2
<1>4. ASSUME NEW r \in without PROVE \E record \in whole \cup rest : record.url = UrlOf[r]
  <2>1. CASE Known(whole, Record(r, 0))
    BY <2>1, <1>2 DEF Known
  <2>2. CASE ~Known(whole, Record(r, 0))
    <3>1. Record(r, 0) \in rest
      BY <2>2
    <3> QED
      BY <3>1, <1>2
  <2> QED
    BY <2>1, <2>2
<1> HIDE DEF whole, rest
<1>5. records \subseteq whole
  BY DEF whole
<1> QED
  BY <1>1, <1>3, <1>4, <1>5

\* A hop is redirected to by no other.
LEMMA HopsAreFirst == \A r \in Hops : r \in Requests /\ Id(r) = r
BY ReadsAssumption DEF Hops, Id

\* A settling of the reads, whether it is the run's or that of its end.
LEMMA SettleStep ==
  ASSUME ReadInv, SettleReads, UNCHANGED chrome
  PROVE  /\ ReadTypes' /\ AskedInv'
         /\ pending' \cap (errors' \cup Hops) = {} /\ arrived' \cap (errors' \cup Hops) = {}
         /\ arrived' \subseteq compared' \cup Told'
         /\ compared' \subseteq answered' \ (pending' \cup unanswered')
         /\ gap' \cap (Waiting' \cup Hops \cup compared') = {}
         /\ gap' \cap unanswered' \subseteq pending'
         /\ Hops \cap finished' \subseteq answered'
         /\ Hops \cap answered' \cap unanswered' = {}
         /\ \A r \in asked' : Redirect[r] # r => Redirect[r] \in answered'
<1> USE DEF ReadInv, ReadTypes
<1> DEFINE bare == WithoutResponse
<1>1. /\ unread' = NotedAll(unread, pending, bare) /\ gap' = gap \cup pending \cup bare
      /\ unanswered' = (unanswered \cup Waiting) \ bare /\ Waiting' = {}
      /\ pending' = pending /\ finished' = finished /\ answeredLate' = answeredLate /\ compared' = compared
    BY DEF SettleReads, Waiting
<1>2. /\ asked' = asked /\ answered' = answered /\ failed' = failed /\ errors' = errors
      /\ arrived' = arrived /\ gone' = gone
  BY DEF chrome
<1>3. bare = {r \in Waiting : Id(r) \in finished}
               \cup {r \in unanswered \ (pending \cup answeredLate) : Id(r) \in finished}
  BY DEF WithoutResponse, Waiting
<1>4. Waiting \subseteq asked \ (answered \cup failed)
  BY DEF AskedInv
<1> HIDE DEF bare
<1>5. Told \cup pending \cup bare \subseteq Told'
  <2>1. bare \subseteq Requests /\ pending \subseteq Requests
    BY <1>3, <1>4
  <2>2. unread \subseteq unread' /\ \A r \in pending \cup bare : \E record \in unread' : record.url = UrlOf[r]
    BY <1>1, NotedAllCovers
  <2> QED
    BY <2>1, <2>2 DEF Told
<1>6. bare \cap Hops = {}
  <2> SUFFICES ASSUME NEW r \in bare, r \in Hops PROVE FALSE
    OBVIOUS
  <2>1. r \in finished
    BY <1>3, HopsAreFirst
  <2>2. r \in answered
    BY <2>1 DEF GapInv
  <2> QED
    BY <2>2, <1>3, <1>4 DEF GapInv
<1>7. ReadTypes'
  BY <1>1, <1>2, <1>3, <1>4
<1>8. AskedInv'
  BY <1>1, <1>2, <1>5 DEF AskedInv
<1>9. arrived' \subseteq compared' \cup Told'
  BY <1>1, <1>2, <1>3, <1>5 DEF ArrivedInv
<1>10. gap' \cap (Waiting' \cup Hops \cup compared') = {}
  BY <1>1, <1>3, <1>4, <1>6 DEF GapInv, ArrivedInv
<1>11. gap' \cap unanswered' \subseteq pending'
  BY <1>1, <1>3 DEF GapInv
<1>12. /\ compared' \subseteq answered' \ (pending' \cup unanswered')
       /\ Hops \cap answered' \cap unanswered' = {}
  BY <1>1, <1>2, <1>4 DEF GapInv
<1> QED
  BY <1>1, <1>2, <1>7, <1>8, <1>9, <1>10, <1>11, <1>12 DEF GapInv, ArrivedInv

\* A step of the workflow that leaves the reads alone.
LEMMA WorkStep ==
  ASSUME ReadInv, FlowInv,
         \/ LocateFails \/ BeginAct \/ Clicked \/ Unanswered \/ StepDone \/ LastStepDone \/ Close \/ GiveUp
         \/ \E outcome \in {"missing", "thrown"} : NotClicked(outcome)
  PROVE  ReadInv'
<1>1. UNCHANGED <<chrome, reads>>
  BY DEF LocateFails, BeginAct, Clicked, Unanswered, StepDone, LastStepDone, Close, GiveUp, NotClicked
<1>2. /\ closed' = closed \/ (closed = FALSE /\ phase' = "grace")
      /\ phase' = "done" => phase = "done"
      /\ phase' \in {"working", "acting", "settling", "closing"} =>
           phase \in {"working", "acting", "settling", "closing"}
      /\ phase' \in {"working", "acting", "settling", "closing", "grace"} =>
           phase \in {"working", "acting", "settling", "closing", "grace"}
  BY DEF ReadInv, CutInv, Throws, LocateFails, BeginAct, Clicked, Unanswered, StepDone, LastStepDone, Close, GiveUp,
         NotClicked, flow, click
<1>3. ReadTypes' /\ AskedInv' /\ ArrivedInv'
  BY <1>1, <1>2 DEF ReadInv, ReadTypes, AskedInv, ArrivedInv, chrome, reads, Told, Waiting
<1>4. CutInv'
  BY <1>1, <1>2 DEF ReadInv, CutInv, chrome, reads
<1>5. GapInv'
  BY <1>1, <1>2 DEF ReadInv, GapInv, chrome, reads, Waiting, Open
<1> QED
  BY <1>3, <1>4, <1>5 DEF ReadInv

\* The settling of the run, and that of its end.
LEMMA SettlingStep ==
  ASSUME ReadInv, FlowInv, Settle \/ SettleAtClose
  PROVE  ReadInv'
<1>1. SettleReads /\ UNCHANGED chrome /\ closed' = closed /\ phase \in {"settling", "grace"}
  BY DEF Settle, SettleAtClose
<1>2. \/ phase = "settling" /\ sealed' = TRUE /\ phase' = "closing"
      \/ phase = "grace" /\ phase' \in {"done", "thrown"}
  BY DEF Settle, SettleAtClose
<1>3. CutInv'
  <2>1. gone' = gone /\ cutAt' = [r \in Requests |-> CutBy(r)]
    BY <1>1 DEF chrome, SettleReads
  <2>2. step \in 0 .. Never /\ Never # step
    BY ReadsAssumption DEF FlowInv, FlowTypes, Never
  <2>3. \A r \in Requests : CutBy(r) = cutAt[r] \/ (CutBy(r) = step /\ closed = TRUE)
    BY DEF CutBy, FlowInv, FlowTypes
  <2>4. cutAt' \in [Requests -> 0 .. Never]
    BY <2>1, <2>2, <2>3 DEF ReadInv, CutInv
  <2> QED
    BY <1>1, <1>2, <2>1, <2>3, <2>4 DEF ReadInv, CutInv
<1>4. ArrivedInv'
  BY <1>1, SettleStep DEF ArrivedInv
<1>5. Open' /\ sealed' = FALSE => FALSE
  BY <1>2 DEF Open
<1>6. GapInv'
  BY <1>1, <1>5, SettleStep DEF GapInv
<1> QED
  BY <1>1, <1>3, <1>4, <1>6, SettleStep DEF ReadInv

\* What Chrome reports, one request at a time.
LEMMA EventStep ==
  ASSUME ReadInv, FlowInv, NEW r \in Requests,
         \/ Issue(r) \/ RequestFailed(r) \/ BodyFinished(r) \/ RequestFinished(r)
         \/ Response(r) \/ RedirectResponse(r) \/ ErrorResponse(r)
  PROVE  ReadInv'
<1> USE DEF ReadInv
<1>1. /\ phase' = phase /\ closed' = closed /\ sealed' = sealed /\ gone' = gone /\ cutAt' = cutAt
      /\ pending \subseteq pending' /\ compared' = compared /\ Open' = Open
  BY DEF Issue, RequestFailed, BodyFinished, RequestFinished, Response, RedirectResponse, ErrorResponse, flow, Open
<1>2. CutInv'
  BY <1>1 DEF CutInv
<1>3. Open /\ phase # "done"
  BY DEF Issue, RequestFailed, BodyFinished, RequestFinished, Response, RedirectResponse, ErrorResponse,
         Outstanding, Open
<1> USE DEF Outstanding, ReadTypes, AskedInv, Waiting
<1>4. CASE Issue(r)
  <2>1. Told' = Told
    BY <1>4 DEF Issue, Told
  <2>2. ReadTypes' /\ AskedInv'
    BY <1>4, <2>1 DEF Issue
  <2>3. ArrivedInv'
    BY <1>1, <1>3, <1>4, <2>1 DEF Issue, ArrivedInv
  <2>4. GapInv'
    BY <1>1, <1>4 DEF Issue, GapInv
  <2> QED
    BY <1>2, <2>2, <2>3, <2>4
<1>5. CASE RequestFailed(r)
  <2>1. Told' = Told
    BY <1>5 DEF RequestFailed, Told
  <2>2. ReadTypes' /\ AskedInv'
    BY <1>5, <2>1 DEF RequestFailed
  <2>3. ArrivedInv'
    BY <1>1, <1>3, <1>5, <2>1 DEF RequestFailed, ArrivedInv
  <2>4. GapInv'
    BY <1>1, <1>5 DEF RequestFailed, GapInv
  <2> QED
    BY <1>2, <2>2, <2>3, <2>4
<1>6. CASE BodyFinished(r)
  <2>1. Told' = Told /\ Id(r) \in Requests
    BY <1>6, ReadsAssumption DEF BodyFinished, Told, Id
  <2>2. ReadTypes' /\ AskedInv'
    BY <1>6, <2>1 DEF BodyFinished
  <2>3. r \in Waiting \cup unanswered \cup Told
    BY <1>6 DEF BodyFinished
  <2>4. ArrivedInv'
    BY <1>1, <1>3, <1>6, <2>1, <2>3 DEF BodyFinished, ArrivedInv
  <2>5. Id(r) \in answered \/ Id(r) \notin Hops
    BY <1>6 DEF BodyFinished, GapInv, Id
  <2>6. GapInv'
    BY <1>1, <1>6, <2>5 DEF BodyFinished, GapInv
  <2> QED
    BY <1>2, <2>2, <2>4, <2>6
<1>7. CASE RequestFinished(r)
  <2>1. Told \cup {r} \subseteq Told'
    <3>1. unread' = Noted(unread, Record(r, 0)) /\ Record(r, 0).url = UrlOf[r]
      BY <1>7 DEF RequestFinished, Record
    <3>2. unread \subseteq unread' /\ \E record \in unread' : record.url = UrlOf[r]
      BY <3>1, NotedCovers
    <3> QED
      BY <3>2 DEF Told
  <2>2. ReadTypes' /\ AskedInv'
    BY <1>7, <2>1 DEF RequestFinished
  <2>3. ArrivedInv'
    BY <1>1, <1>3, <1>7, <2>1 DEF RequestFinished, ArrivedInv
  <2>4. GapInv'
    BY <1>1, <1>7 DEF RequestFinished, GapInv
  <2> QED
    BY <1>2, <2>2, <2>3, <2>4
<1>8. CASE Response(r)
  <2>1. Told' = Told
    BY <1>8 DEF Response, Told
  <2>2. ReadTypes' /\ AskedInv'
    BY <1>8, <2>1 DEF Response
  <2>3. ArrivedInv'
    BY <1>1, <1>3, <1>8, <2>1 DEF Response, ArrivedInv
  <2>4. r \notin gap \/ sealed # FALSE
    BY <1>3, <1>8 DEF Response, GapInv
  <2>5. GapInv'
    BY <1>1, <1>8, <2>4 DEF Response, GapInv
  <2> QED
    BY <1>2, <2>2, <2>3, <2>5
<1>9. CASE RedirectResponse(r)
  <2>1. Told' = Told
    BY <1>9 DEF RedirectResponse, Told
  <2>2. unanswered' = unanswered \ {r}
    BY <1>9 DEF RedirectResponse, ListedAfterRedirect
  <2>3. ReadTypes' /\ AskedInv'
    BY <1>9, <2>1, <2>2 DEF RedirectResponse
  <2>4. ArrivedInv'
    BY <1>1, <1>3, <1>9, <2>1, <2>2 DEF RedirectResponse, ArrivedInv
  <2>5. GapInv'
    BY <1>1, <1>9, <2>2 DEF RedirectResponse, GapInv
  <2> QED
    BY <1>2, <2>3, <2>4, <2>5
<1>10. CASE ErrorResponse(r)
  <2>1. Told' = Told
    BY <1>10 DEF ErrorResponse, Told
  <2>2. ReadTypes' /\ AskedInv'
    BY <1>10, <2>1 DEF ErrorResponse
  <2>3. ArrivedInv'
    BY <1>1, <1>3, <1>10, <2>1 DEF ErrorResponse, ArrivedInv
  <2>4. GapInv'
    BY <1>1, <1>10 DEF ErrorResponse, GapInv
  <2> QED
    BY <1>2, <2>2, <2>3, <2>4
<1> QED
  BY <1>4, <1>5, <1>6, <1>7, <1>8, <1>9, <1>10

\* A frame goes away with the requests it waits for.
LEMMA DetachStep ==
  ASSUME ReadInv, FlowInv, NEW f \in {FrameOf[r] : r \in Requests}, FrameDetached(f)
  PROVE  ReadInv'
<1> DEFINE cut == {r \in inFlight : FrameOf[r] = f}
<1>1. /\ phase' = phase /\ closed' = closed /\ sealed' = sealed /\ gone' = gone \cup {f}
      /\ Waiting' = Waiting /\ Told' = Told /\ Open' = Open /\ Open
      /\ cutAt' = [r \in Requests |-> IF r \in cut THEN step ELSE cutAt[r]]
  BY DEF FrameDetached, flow, Waiting, Told, Open
<1>2. /\ UNCHANGED <<asked, answered, failed, errors, arrived>>
      /\ UNCHANGED <<pending, finished, answeredLate, unanswered, compared, gap>>
  BY DEF FrameDetached
<1>3. step \in 0 .. Never
  BY ReadsAssumption DEF FlowInv, FlowTypes, Never
<1>4. ReadTypes' /\ AskedInv' /\ ArrivedInv'
  BY <1>1, <1>2 DEF ReadInv, ReadTypes, AskedInv, ArrivedInv
<1>5. CutInv'
  <2>1. cutAt' \in [Requests -> 0 .. Never]
    BY <1>1, <1>3 DEF ReadInv, CutInv
  <2>2. ASSUME NEW r \in Requests, cutAt'[r] # Never PROVE FrameOf[r] \in gone' \/ closed' = TRUE
    BY <1>1, <2>2 DEF ReadInv, CutInv
  <2> QED
    BY <1>1, <2>1, <2>2 DEF ReadInv, CutInv
<1>6. GapInv'
  BY <1>1, <1>2 DEF ReadInv, GapInv
<1> QED
  BY <1>4, <1>5, <1>6 DEF ReadInv

\* A read returns: its body is compared, or recorded as unread.
LEMMA ReadStep ==
  ASSUME ReadInv, FlowInv, NEW r \in Requests, ReadSettles(r)
  PROVE  ReadInv'
<1> USE DEF ReadInv, ReadTypes, AskedInv, Waiting
<1>1. /\ phase' = phase /\ closed' = closed /\ sealed' = sealed /\ gone' = gone /\ cutAt' = cutAt
      /\ Open' = Open /\ Open /\ phase # "done" /\ r \in pending
      /\ pending' = pending \ {r} /\ unanswered' = unanswered \ {r}
      /\ UNCHANGED <<asked, answered, failed, errors, inFlight, detached, finished, answeredLate>>
  BY DEF ReadSettles, flow, Open
<1>2. CutInv'
  BY <1>1 DEF CutInv
<1>3. CASE sealed = FALSE /\ compared' = compared \cup {r} /\ arrived' = arrived \cup {r} /\ UNCHANGED <<unread, gap>>
  <2>1. Told' = Told
    BY <1>3 DEF Told
  <2>2. ReadTypes' /\ AskedInv' /\ ArrivedInv'
    BY <1>1, <1>3, <2>1 DEF ArrivedInv
  <2>3. GapInv'
    BY <1>1, <1>3 DEF GapInv
  <2> QED
    BY <1>2, <2>2, <2>3
<1>4. CASE /\ unread' = Noted(unread, Record(r, 200)) /\ gap' = gap \cup {r} /\ compared' = compared
           /\ arrived' = arrived \cup {r} \/ arrived' = arrived
  <2>1. Told \cup {r} \subseteq Told'
    <3>1. Record(r, 200).url = UrlOf[r]
      BY DEF Record
    <3>2. unread \subseteq unread' /\ \E record \in unread' : record.url = UrlOf[r]
      BY <1>4, <3>1, NotedCovers
    <3> QED
      BY <3>2 DEF Told
  <2>2. ReadTypes' /\ AskedInv'
    BY <1>1, <1>4, <2>1
  <2>3. ArrivedInv'
    BY <1>1, <1>4, <2>1 DEF ArrivedInv
  <2>4. GapInv'
    BY <1>1, <1>4 DEF GapInv, ArrivedInv
  <2> QED
    BY <1>2, <2>2, <2>3, <2>4
<1> QED
  BY <1>3, <1>4 DEF ReadSettles, FlowInv, FlowTypes

LEMMA ReadsStep ==
  ASSUME ReadInv, FlowInv, [Next]_vars
  PROVE  ReadInv'
<1>1. CASE Act \/ LocateFails \/ LastStepDone \/ Close \/ GiveUp
  BY <1>1, WorkStep DEF Act
<1>2. CASE Settle \/ SettleAtClose
  BY <1>2, SettlingStep
<1>3. CASE Retry
  <2>1. /\ phase' = "working" /\ closed' = FALSE /\ asked' = {} /\ answered' = {} /\ failed' = {} /\ errors' = {}
        /\ arrived' = {} /\ gone' = {} /\ inFlight' = {} /\ pending' = {} /\ detached' = {} /\ finished' = {}
        /\ answeredLate' = {} /\ unanswered' = {} /\ compared' = {} /\ gap' = {}
        /\ cutAt' = [r \in Requests |-> Never]
    BY <1>3 DEF Retry
  <2>2. ReadTypes' /\ AskedInv' /\ ArrivedInv' /\ GapInv'
    BY <2>1 DEF ReadTypes, AskedInv, ArrivedInv, GapInv, Waiting
  <2>3. CutInv'
    BY <2>1, ReadsAssumption DEF CutInv, Never
  <2> QED
    BY <2>2, <2>3 DEF ReadInv
<1>4. CASE \E r \in Requests :
             \/ Issue(r) \/ RequestFailed(r) \/ BodyFinished(r) \/ RequestFinished(r)
             \/ Response(r) \/ RedirectResponse(r) \/ ErrorResponse(r) \/ ReadSettles(r)
  BY <1>4, EventStep, ReadStep
<1>5. CASE \E f \in {FrameOf[r] : r \in Requests} : FrameDetached(f)
  BY <1>5, DetachStep
<1>6. CASE UNCHANGED vars
  BY <1>6 DEF vars, flow, chrome, reads, click, ReadInv, ReadTypes, CutInv, AskedInv, ArrivedInv, GapInv,
              Told, Waiting, Open
<1> QED
  BY <1>1, <1>2, <1>3, <1>4, <1>5, <1>6 DEF Next, Work

LEMMA ReadsCorrect == Spec => []ReadInv
<1>1. Init => ReadInv
  <2> SUFFICES ASSUME Init PROVE ReadInv
    OBVIOUS
  <2>1. ReadTypes /\ AskedInv /\ ArrivedInv /\ GapInv
    BY DEF Init, ReadTypes, AskedInv, ArrivedInv, GapInv, Waiting
  <2>2. CutInv
    BY ReadsAssumption DEF Init, CutInv, Never
  <2> QED
    BY <2>1, <2>2 DEF ReadInv
<1>2. ReadInv /\ FlowInv /\ [Next]_vars => ReadInv'
  BY ReadsStep
<1> QED
  BY <1>1, <1>2, FlowCorrect, PTL DEF Spec

\* Every variable keeps its type: an attempt, a step and a click stay within
\* their limits, and only requests of the page are in the accounts.
THEOREM TypeCorrect == Spec => []TypeOK
<1>1. FlowInv => /\ phase \in Phases
                 /\ tries \in 0 .. SafeTries /\ sent \in BOOLEAN
                 /\ attempt \in 1 .. MaxAttempts /\ step \in 0 .. Steps /\ payments \in 0 .. MaxAttempts
                 /\ crossed \in BOOLEAN /\ retryable \in BOOLEAN /\ closed \in BOOLEAN /\ sealed \in BOOLEAN
  BY ReadsAssumption DEF FlowInv, FlowTypes
<1>2. ReadInv => /\ asked \subseteq Requests /\ answered \subseteq Requests /\ failed \subseteq Requests
                 /\ errors \subseteq Requests /\ arrived \subseteq Requests /\ inFlight \subseteq Requests
                 /\ pending \subseteq Requests /\ detached \subseteq Requests /\ finished \subseteq Requests
                 /\ answeredLate \subseteq Requests /\ unanswered \subseteq Requests
                 /\ compared \subseteq Requests /\ gap \subseteq Requests
                 /\ gone \subseteq {FrameOf[r] : r \in Requests} /\ cutAt \in [Requests -> 0 .. Never]
  BY DEF ReadInv, ReadTypes, CutInv, AskedInv, GapInv, Waiting
<1>3. FlowInv /\ ReadInv => TypeOK
  BY <1>1, <1>2 DEF TypeOK, Phases
<1> QED
  BY <1>3, FlowCorrect, ReadsCorrect, PTL

\* No script that may have run is missing from the summary, in whatever order
\* responses, reads, failures, frames and the end of the run come.
THEOREM NothingIsLost == Spec => []NothingVanishes
<1>1. ReadInv => NothingVanishes
  BY DEF ReadInv, ArrivedInv, Told, NothingVanishes
<1> QED
  BY <1>1, ReadsCorrect, PTL

\* What is unread is neither listed as unanswered nor compared, and a redirect
\* is no gap of its own.
THEOREM EachIsCountedOnce == Spec => []CountedOnce
<1>1. ReadInv => CountedOnce
  BY DEF ReadInv, GapInv, CountedOnce, Listed
<1> QED
  BY <1>1, ReadsCorrect, PTL

\* A request is recorded as cut off only when its frame was seen to go away, or
\* the context to close.
THEOREM CutsAreSeen == Spec => []CutsWereSeen
<1>1. ReadInv => CutsWereSeen
  BY DEF ReadInv, ReadTypes, CutInv, CutsWereSeen, Listed
<1> QED
  BY <1>1, ReadsCorrect, PTL

(***************************************************************************)
(* The payment scope, and what its properties rest on.  The documents of   *)
(* the chain are the ones loaded so far; a frame's owner, where it is      *)
(* known, is the document the frame was attached in; a request comes from  *)
(* the document its frame is in; and what was kept of a run names the      *)
(* document it ran in, or none.                                            *)
(***************************************************************************)
Ids(t) == {t[i].id : i \in DOMAIN t}

TrailInv == Ids(trail) = 1 .. loaded

FrameInv ==
  \A f \in Frames :
    /\ owners[f] \in {home[f], None}
    /\ home[f] # None => home[f] \in 1 .. loaded
    /\ home[f] # None /\ ParentOf[f] # Main => home[ParentOf[f]] = home[f]

RequestInv ==
  request # None =>
    /\ request.document \in 1 .. loaded
    /\ request.frame # Main => home[request.frame] = request.document

CopyInv ==
  /\ \A run \in ran : run[2] \in 1 .. loaded /\ (run \in kept \/ <<run[1], None>> \in kept)
  /\ \A copy \in kept : copy[2] \in (1 .. loaded) \cup {None}

(***************************************************************************)
(* Between the two reads of a bracket the page can leave the document, but *)
(* not come back to it: the one it goes to is new.  So when both reads     *)
(* agree, what was read between them is of the same document.              *)
(***************************************************************************)
Bracket == {"checking", "confirming", "reading", "attributing"}

BracketInv ==
  /\ pc \in Bracket =>
       before \in 1 .. loaded /\ (before # Current => Current = loaded /\ before < loaded)
  /\ pc = "attributing" => scanned \in 1 .. loaded /\ (before = Current => scanned = before)
  /\ pc = "confirming" /\ before = Current /\ ~unresolved => paid = paymentDocuments \cup {before}
  /\ pc # "confirming" /\ ~unresolved => paid = paymentDocuments
  /\ pc # "done" => reached <= LastStep

ScopeInv == ScopeTypeOK /\ TrailInv /\ FrameInv /\ RequestInv /\ CopyInv /\ BracketInv

(***************************************************************************)
(* The frame chain of a request.                                           *)
(***************************************************************************)
Around(f) == IF f = Main THEN Main ELSE ParentOf[f]

LEMMA ChainSteps ==
  ASSUME NEW f \in Frames \cup {Main}
  PROVE  /\ Cardinality(Frames) \in Nat
         /\ FrameChain(f) \in [0 .. Cardinality(Frames) -> Frames \cup {Main}]
         /\ FrameChain(f)[0] = f
         /\ \A n \in 1 .. Cardinality(Frames) : FrameChain(f)[n] = Around(FrameChain(f)[n - 1])
<1> DEFINE c == Cardinality(Frames)
           S == Frames \cup {Main}
           up == [p \in Nat \X S |-> Around(p[2])]
           Through(g) == [n \in 0 .. c |-> IF n = 0 THEN f ELSE IF g[n - 1] = Main THEN Main ELSE ParentOf[g[n - 1]]]
<1>1. c \in Nat
  BY ScopeAssumption, FS_CardinalityType
<1>2. up \in [Nat \X S -> S]
  BY ScopeAssumption DEF Around
<1> HIDE DEF c
<1>3. PICK g \in [0 .. c -> S] : g[0] = f /\ \A n \in 1 .. c : g[n] = up[<<n, g[n - 1]>>]
  <2> HIDE DEF up, S
  <2>1. f \in S
    BY DEF S
  <2>2. Courses(S, f, up, c) # {}
    BY <1>1, <1>2, <2>1, Recursion
  <2> QED
    BY <2>2 DEF Courses
<1>4. ASSUME NEW n \in 1 .. c PROVE g[n] = Around(g[n - 1])
  <2>1. n \in Nat /\ n - 1 \in 0 .. c
    BY <1>1
  <2>2. <<n, g[n - 1]>> \in Nat \X S
    BY <2>1
  <2> QED
    BY <1>3, <2>2
<1>5. g = Through(g)
  <2>1. ASSUME NEW n \in 0 .. c PROVE g[n] = Through(g)[n]
    <3>1. CASE n = 0
      BY <1>3, <3>1
    <3>2. CASE n # 0
      <4>1. n \in 1 .. c
        BY <1>1, <3>2
      <4> QED
        BY <1>4, <3>2, <4>1 DEF Around
    <3> QED
      BY <3>1, <3>2
  <2> QED
    BY <1>3, <2>1
<1>6. \E h : h = Through(h)
  BY <1>5
<1>7. FrameChain(f) = Through(FrameChain(f))
  BY <1>6 DEF FrameChain, c
<1>8. ASSUME NEW n \in 0 .. c PROVE FrameChain(f)[n] = Through(FrameChain(f))[n]
  BY <1>7
<1>9. /\ FrameChain(f)[0] = f
      /\ \A n \in 1 .. c : FrameChain(f)[n] = Around(FrameChain(f)[n - 1])
  <2>1. 0 \in 0 .. c
    BY <1>1
  <2>2. FrameChain(f)[0] = f
    BY <1>8, <2>1
  <2>3. ASSUME NEW n \in 1 .. c PROVE FrameChain(f)[n] = Around(FrameChain(f)[n - 1])
    <3>1. n \in 0 .. c /\ n # 0
      BY <1>1
    <3> QED
      BY <1>8, <3>1 DEF Around
  <2> QED
    BY <2>2, <2>3
<1>10. 0 .. c \subseteq {n \in 0 .. c : FrameChain(f)[n] \in S}
  <2> DEFINE U == {n \in 0 .. c : FrameChain(f)[n] \in S}
  <2>1. 0 \in U
    BY <1>1, <1>9
  <2>2. ASSUME NEW n \in 1 .. c, n - 1 \in U PROVE n \in U
    <3>1. Around(FrameChain(f)[n - 1]) \in S
      BY <2>2, ScopeAssumption DEF Around
    <3>2. n \in 0 .. c
      BY <1>1
    <3> QED
      BY <1>9, <3>1, <3>2
  <2> HIDE DEF U
  <2>3. 0 .. c \subseteq U
    BY <1>1, <2>1, <2>2, SetInductionUpTo
  <2> QED
    BY <2>3 DEF U
<1>11. FrameChain(f) \in [0 .. c -> S]
  <2>1. DOMAIN FrameChain(f) = 0 .. c /\ FrameChain(f) = [n \in DOMAIN FrameChain(f) |-> FrameChain(f)[n]]
    BY <1>7
  <2> QED
    BY <1>10, <2>1
<1> QED
  BY <1>1, <1>9, <1>11 DEF c

\* Whatever frame the ledger knows the owner of, going up the chain, it is in
\* the document the request comes from.
LEMMA OwnerIsHome ==
  ASSUME FrameInv, NEW f \in Frames \cup {Main}, f # Main => home[f] # None
  PROVE  OwnerUp(f) = None \/ (f # Main /\ OwnerUp(f) = home[f])
<1> DEFINE c == Cardinality(Frames)
           chain == FrameChain(f)
           U == {n \in 0 .. c : chain[n] # Main => f # Main /\ chain[n] \in Frames /\ home[chain[n]] = home[f]}
<1>1. /\ c \in Nat /\ chain \in [0 .. c -> Frames \cup {Main}] /\ chain[0] = f
      /\ \A n \in 1 .. c : chain[n] = Around(chain[n - 1])
  BY ChainSteps
<1> HIDE DEF c, chain
<1>2. 0 \in U
  BY <1>1
<1>3. ASSUME NEW n \in 1 .. c, n - 1 \in U PROVE n \in U
  <2>1. n \in 0 .. c /\ chain[n] \in Frames \cup {Main}
    BY <1>1
  <2>2. ASSUME chain[n] # Main PROVE f # Main /\ home[chain[n]] = home[f]
    <3>1. chain[n - 1] # Main /\ chain[n] = ParentOf[chain[n - 1]]
      BY <1>1, <2>2 DEF Around
    <3> QED
      BY <1>3, <2>2, <3>1 DEF FrameInv
  <2> QED
    BY <2>1, <2>2
<1> HIDE DEF U
<1>4. 0 .. c \subseteq U
  BY <1>1, <1>2, <1>3, SetInductionUpTo
<1> USE DEF U
<1> DEFINE known == {n \in DOMAIN chain : chain[n] # Main /\ owners[chain[n]] # None}
           nearest == CHOOSE n \in known : \A m \in known : n <= m
<1>5. known \subseteq Nat /\ DOMAIN chain = 0 .. c
  BY <1>1
<1>6. OwnerUp(f) = IF known = {} THEN None ELSE owners[chain[nearest]]
  BY DEF OwnerUp, chain
<1>7. ASSUME known # {} PROVE f # Main /\ owners[chain[nearest]] = home[f]
  <2>1. \E n \in known : \A m \in known : n <= m
    <3> HIDE DEF known
    <3> QED
      BY <1>5, <1>7, LeastMember
  <2>2. nearest \in known
    <3> HIDE DEF known
    <3> QED
      BY <2>1
  <2> HIDE DEF nearest
  <2>3. chain[nearest] # Main /\ owners[chain[nearest]] # None /\ nearest \in U
    BY <1>4, <1>5, <2>2
  <2> QED
    BY <2>3 DEF FrameInv
<1> QED
  BY <1>6, <1>7

(***************************************************************************)
(* The loop over the documents recovery replaced.  Each pass drops a       *)
(* document or is the last that could, so as many passes as there are      *)
(* documents reach the fixed point.                                        *)
(***************************************************************************)
LEMMA PassSteps ==
  ASSUME NEW S, IsFiniteSet(S)
  PROVE  /\ Cardinality(S) \in Nat
         /\ Passes(S) \in [0 .. Cardinality(S) -> SUBSET S]
         /\ Passes(S)[0] = S
         /\ \A n \in 1 .. Cardinality(S) : Passes(S)[n] = KeepsRecovered(Passes(S)[n - 1])
<1> DEFINE c == Cardinality(S)
           D == SUBSET S
           drop == [p \in Nat \X D |-> KeepsRecovered(p[2])]
           Through(g) == [n \in 0 .. c |-> IF n = 0 THEN S ELSE KeepsRecovered(g[n - 1])]
<1>1. c \in Nat
  BY FS_CardinalityType
<1>2. drop \in [Nat \X D -> D]
  BY DEF KeepsRecovered
<1> HIDE DEF c
<1>3. PICK g \in [0 .. c -> D] : g[0] = S /\ \A n \in 1 .. c : g[n] = drop[<<n, g[n - 1]>>]
  <2> HIDE DEF drop, D
  <2>1. S \in D
    BY DEF D
  <2>2. Courses(D, S, drop, c) # {}
    BY <1>1, <1>2, <2>1, Recursion
  <2> QED
    BY <2>2 DEF Courses
<1>4. ASSUME NEW n \in 1 .. c PROVE g[n] = KeepsRecovered(g[n - 1])
  <2>1. n \in Nat /\ n - 1 \in 0 .. c
    BY <1>1
  <2>2. <<n, g[n - 1]>> \in Nat \X D
    BY <2>1
  <2> QED
    BY <1>3, <2>2
<1>5. g = Through(g)
  <2>1. ASSUME NEW n \in 0 .. c PROVE g[n] = Through(g)[n]
    <3>1. CASE n = 0
      BY <1>3, <3>1
    <3>2. CASE n # 0
      <4>1. n \in 1 .. c
        BY <1>1, <3>2
      <4> QED
        BY <1>4, <3>2, <4>1
    <3> QED
      BY <3>1, <3>2
  <2> QED
    BY <1>3, <2>1
<1>6. \E h : h = Through(h)
  BY <1>5
<1>7. Passes(S) = Through(Passes(S))
  BY <1>6 DEF Passes, c
<1>8. ASSUME NEW n \in 0 .. c PROVE Passes(S)[n] = Through(Passes(S))[n]
  BY <1>7
<1>9. Passes(S)[0] = S /\ \A n \in 1 .. c : Passes(S)[n] = KeepsRecovered(Passes(S)[n - 1])
  <2>1. 0 \in 0 .. c
    BY <1>1
  <2>2. Passes(S)[0] = S
    BY <1>8, <2>1
  <2>3. ASSUME NEW n \in 1 .. c PROVE Passes(S)[n] = KeepsRecovered(Passes(S)[n - 1])
    <3>1. n \in 0 .. c /\ n # 0
      BY <1>1
    <3> QED
      BY <1>8, <3>1
  <2> QED
    BY <2>2, <2>3
<1>10. 0 .. c \subseteq {n \in 0 .. c : Passes(S)[n] \in D}
  <2> DEFINE U == {n \in 0 .. c : Passes(S)[n] \in D}
  <2>1. 0 \in U
    BY <1>1, <1>9
  <2>2. ASSUME NEW n \in 1 .. c, n - 1 \in U PROVE n \in U
    <3>1. KeepsRecovered(Passes(S)[n - 1]) \in D
      BY <2>2 DEF KeepsRecovered
    <3>2. n \in 0 .. c
      BY <1>1
    <3> QED
      BY <1>9, <3>1, <3>2
  <2> HIDE DEF U
  <2>3. 0 .. c \subseteq U
    BY <1>1, <2>1, <2>2, SetInductionUpTo
  <2> QED
    BY <2>3 DEF U
<1>11. Passes(S) \in [0 .. c -> D]
  <2>1. DOMAIN Passes(S) = 0 .. c /\ Passes(S) = [n \in DOMAIN Passes(S) |-> Passes(S)[n]]
    BY <1>7
  <2> QED
    BY <1>10, <2>1
<1> QED
  BY <1>1, <1>9, <1>11 DEF c

LEMMA LoopSettles ==
  ASSUME NEW S, IsFiniteSet(S)
  PROVE  /\ FixedPoint(S) \subseteq S
         /\ KeepsRecovered(FixedPoint(S)) = FixedPoint(S)
         /\ S \ recoveryReplaced \subseteq FixedPoint(S)
<1> DEFINE c == Cardinality(S)
           pass == Passes(S)
<1>1. /\ c \in Nat /\ pass \in [0 .. c -> SUBSET S] /\ pass[0] = S
      /\ \A n \in 1 .. c : pass[n] = KeepsRecovered(pass[n - 1])
      /\ FixedPoint(S) = pass[c]
  BY PassSteps DEF FixedPoint
<1>2. c = Cardinality(S)
  OBVIOUS
<1> HIDE DEF c, pass
<1>3. \A n \in 0 .. c : IsFiniteSet(pass[n]) /\ Cardinality(pass[n]) \in Nat
  <2> SUFFICES ASSUME NEW n \in 0 .. c PROVE IsFiniteSet(pass[n]) /\ Cardinality(pass[n]) \in Nat
    OBVIOUS
  <2>1. IsFiniteSet(pass[n])
    BY <1>1, FS_Subset
  <2> QED
    BY <2>1, FS_CardinalityType
<1> DEFINE U == {n \in 0 .. c : /\ S \ recoveryReplaced \subseteq pass[n]
                               /\ \/ KeepsRecovered(pass[n]) = pass[n]
                                  \/ Cardinality(pass[n]) <= c - n}
<1>4. 0 \in U
  BY <1>1, <1>2
<1>5. ASSUME NEW n \in 1 .. c, n - 1 \in U PROVE n \in U
  <2>0. n \in 0 .. c /\ n - 1 \in 0 .. c /\ n \in Int /\ c \in Int
    BY <1>1
  <2>1. pass[n] = KeepsRecovered(pass[n - 1]) /\ pass[n - 1] \subseteq S
    BY <1>1, <2>0
  <2>2. pass[n] \subseteq pass[n - 1] /\ S \ recoveryReplaced \subseteq pass[n]
    BY <1>5, <2>1 DEF KeepsRecovered
  <2>3. CASE pass[n] = pass[n - 1]
    BY <2>0, <2>1, <2>2, <2>3
  <2>4. CASE pass[n] # pass[n - 1]
    <3>1. Cardinality(pass[n - 1]) <= c - (n - 1)
      BY <1>5, <2>1, <2>4
    <3>2. Cardinality(pass[n]) <= Cardinality(pass[n - 1]) /\ Cardinality(pass[n]) # Cardinality(pass[n - 1])
      BY <1>3, <2>0, <2>2, <2>4, FS_Subset
    <3>3. Cardinality(pass[n]) \in Nat /\ Cardinality(pass[n - 1]) \in Nat
      BY <1>3, <2>0
    <3>4. Cardinality(pass[n]) <= c - n
      BY <2>0, <3>1, <3>2, <3>3
    <3> QED
      BY <2>0, <2>2, <3>4
  <2> QED
    BY <2>3, <2>4
<1>6. c \in U
  <2> HIDE DEF U
  <2>1. 0 .. c \subseteq U
    BY <1>1, <1>4, <1>5, SetInductionUpTo
  <2> QED
    BY <1>1, <2>1
<1>7. KeepsRecovered(pass[c]) = pass[c]
  <2>1. CASE Cardinality(pass[c]) <= c - c
    <3>1. Cardinality(pass[c]) = 0
      BY <1>1, <1>3, <2>1
    <3>2. pass[c] = {}
      BY <1>1, <1>3, <3>1, FS_EmptySet
    <3> QED
      BY <3>2 DEF KeepsRecovered
  <2> QED
    BY <1>6, <2>1
<1>8. pass[c] \subseteq S
  BY <1>1
<1> QED
  BY <1>1, <1>6, <1>7, <1>8

(***************************************************************************)
(* What the steps of the page do to the chain.                             *)
(***************************************************************************)
Entries == [id : Documents, url : Paths, routes : Seq(Paths)]

LEMMA CurrentIsLoaded ==
  ASSUME ScopeTypeOK, TrailInv
  PROVE  /\ Current \in 1 .. loaded /\ loaded \in Nat /\ 1 .. loaded \subseteq Documents
         /\ Len(trail) \in DOMAIN trail
<1>1. Len(trail) \in DOMAIN trail
  BY DEF ScopeTypeOK
<1>2. Current = trail[Len(trail)].id
  BY DEF Current, Last
<1>3. loaded \in 1 .. MaxDocuments /\ MaxDocuments \in Nat
  BY ScopeAssumption DEF ScopeTypeOK, Documents
<1> QED
  BY <1>1, <1>2, <1>3 DEF TrailInv, Ids, Documents

LEMMA CommitOne ==
  ASSUME ScopeTypeOK, NEW id \in Documents, NEW url \in Paths
  PROVE  /\ Committed(id, url) \in Seq(Entries) /\ Committed(id, url) # <<>>
         /\ Last(Committed(id, url)).id = id
         /\ Ids(Committed(id, url)) = Ids(trail) \cup {id}
<1> DEFINE e == [id |-> id, url |-> url, routes |-> <<>>]
           t == Append(trail, e)
<1>1. trail \in Seq(Entries) /\ e \in Entries /\ e.id = id
  BY DEF ScopeTypeOK, Entries
<1> HIDE DEF e
<1>2. /\ t \in Seq(Entries) /\ Len(t) = Len(trail) + 1 /\ DOMAIN t = 1 .. Len(trail) + 1 /\ t[Len(trail) + 1] = e
      /\ \A i \in 1 .. Len(trail) : t[i] = trail[i]
      /\ Len(trail) \in Nat /\ DOMAIN trail = 1 .. Len(trail)
  BY <1>1
<1>3. Committed(id, url) = t
  BY DEF Committed, e
<1> HIDE DEF t
<1>4. Last(t) = e /\ t # <<>>
  BY <1>2 DEF Last
<1>5. Ids(t) = Ids(trail) \cup {id}
  <2>1. ASSUME NEW i \in DOMAIN t PROVE t[i].id \in {trail[j].id : j \in DOMAIN trail} \cup {id}
    <3>1. i \in DOMAIN trail \/ i = Len(trail) + 1
      BY <1>2
    <3> QED
      BY <1>1, <1>2, <3>1
  <2>2. ASSUME NEW i \in DOMAIN trail PROVE trail[i].id \in {t[j].id : j \in DOMAIN t}
    <3>1. i \in DOMAIN t /\ t[i] = trail[i]
      BY <1>2
    <3> QED
      BY <3>1
  <2>3. id \in {t[j].id : j \in DOMAIN t}
    <3>1. Len(trail) + 1 \in DOMAIN t /\ t[Len(trail) + 1].id = id
      BY <1>1, <1>2
    <3> QED
      BY <3>1
  <2> QED
    BY <2>1, <2>2, <2>3 DEF Ids
<1> QED
  BY <1>1, <1>2, <1>3, <1>4, <1>5

\* A page load numbers a document of its own, which is current from then on.
LEMMA LoadStep ==
  ASSUME ScopeTypeOK, TrailInv, NEW p \in Paths, Load(p)
  PROVE  /\ trail' \in Seq(Entries) /\ trail' # <<>> /\ TrailInv'
         /\ loaded' \in Documents /\ loaded' = loaded + 1 /\ Current' = loaded'
<1>1. loaded \in Nat /\ loaded + 1 \in Documents /\ loaded' = loaded + 1 /\ trail' = Committed(loaded + 1, p)
  BY ScopeAssumption DEF Load, ScopeTypeOK, Documents
<1>2. Ids(trail') = (1 .. loaded) \cup {loaded + 1}
  BY <1>1, CommitOne DEF TrailInv
<1>3. (1 .. loaded) \cup {loaded + 1} = 1 .. loaded + 1
  BY <1>1
<1>4. TrailInv'
  BY <1>1, <1>2, <1>3 DEF TrailInv
<1> QED
  BY <1>1, <1>4, CommitOne DEF Current

LEMMA RestoreStep ==
  ASSUME ScopeTypeOK, TrailInv, Restore
  PROVE  trail' \in Seq(Entries) /\ trail' # <<>> /\ TrailInv' /\ loaded' = loaded
<1>1. PICK i \in 1 .. Len(trail) - 1 : trail' = Committed(trail[i].id, UrlNow(trail[i]))
  BY DEF Restore
<1>2. i \in DOMAIN trail /\ trail[i] \in Entries
  <2>1. trail \in Seq(Entries)
    BY DEF ScopeTypeOK, Entries
  <2> HIDE DEF Entries
  <2> QED
    BY <2>1
<1>3. trail[i].id \in Documents /\ UrlNow(trail[i]) \in Paths
  <2>1. trail[i].url \in Paths /\ trail[i].routes \in Seq(Paths)
    BY <1>2 DEF Entries
  <2>2. trail[i].routes # <<>> => Last(trail[i].routes) \in Paths
    BY <2>1 DEF Last
  <2> QED
    BY <1>2, <2>1, <2>2 DEF UrlNow, Entries
<1>4. Ids(trail') = Ids(trail) \cup {trail[i].id}
  BY <1>1, <1>3, CommitOne
<1>5. trail[i].id \in Ids(trail)
  BY <1>2 DEF Ids
<1>6. loaded' = loaded
  BY DEF Restore
<1> QED
  BY <1>1, <1>3, <1>4, <1>5, <1>6, CommitOne DEF TrailInv

LEMMA RouteStep ==
  ASSUME ScopeTypeOK, TrailInv, NEW p \in Paths, Route(p)
  PROVE  trail' \in Seq(Entries) /\ trail' # <<>> /\ TrailInv' /\ Current' = Current /\ loaded' = loaded
<1> DEFINE n == Len(trail)
           e == [trail[n] EXCEPT !.routes = Append(@, p)]
<1>1. trail \in Seq(Entries) /\ n \in DOMAIN trail /\ DOMAIN trail = 1 .. n /\ n \in Nat
  BY CurrentIsLoaded DEF ScopeTypeOK, Entries
<1>2. e \in Entries /\ e.id = trail[n].id
  <2>1. trail[n] \in Entries
    BY <1>1
  <2> QED
    BY <2>1 DEF Entries
<1>3. trail' = [trail EXCEPT ![n] = e] /\ loaded' = loaded
  BY DEF Route
<1> HIDE DEF n, e
<1>4. trail' \in Seq(Entries) /\ DOMAIN trail' = DOMAIN trail /\ Len(trail') = n /\ trail'[n] = e
  BY <1>1, <1>2, <1>3 DEF n
<1>5. \A i \in DOMAIN trail : trail'[i].id = trail[i].id
  BY <1>1, <1>2, <1>3
<1>6. trail' # <<>>
  BY <1>1, <1>4
<1>7. TrailInv'
  BY <1>3, <1>4, <1>5 DEF TrailInv, Ids
<1>8. Current' = Current
  BY <1>1, <1>4, <1>5 DEF Current, Last, n
<1> QED
  BY <1>3, <1>4, <1>6, <1>7, <1>8

(***************************************************************************)
(* Every step keeps the invariant.                                         *)
(***************************************************************************)
\* A step of the run that leaves the page alone.
LEMMA PageFrame ==
  ASSUME ScopeInv, UNCHANGED page
  PROVE  TrailInv' /\ FrameInv' /\ Current' = Current /\ loaded' = loaded
BY DEF ScopeInv, page, TrailInv, FrameInv, Current

\* A step of the page that leaves what was captured alone.
LEMMA CaptureFrame ==
  ASSUME ScopeInv, UNCHANGED seen, loaded' \in Nat, loaded <= loaded',
         \A f \in Frames : home[f] # None => home'[f] = home[f]
  PROVE  RequestInv' /\ CopyInv'
<1>1. loaded \in Nat /\ 1 .. loaded \subseteq 1 .. loaded'
  BY CurrentIsLoaded DEF ScopeInv
<1>2. RequestInv'
  <2> SUFFICES ASSUME request # None
               PROVE  /\ request.document \in 1 .. loaded'
                      /\ request.frame # Main => home'[request.frame] = request.document
    BY DEF seen, RequestInv
  <2>1. request.document \in 1 .. loaded /\ request.frame \in Frames \cup {Main}
    BY DEF ScopeInv, RequestInv, ScopeTypeOK
  <2>2. request.document # None
    BY <1>1, <2>1, ScopeAssumption
  <2> QED
    BY <1>1, <2>1, <2>2 DEF ScopeInv, RequestInv
<1>3. CopyInv'
  BY <1>1 DEF ScopeInv, CopyInv, seen
<1> QED
  BY <1>2, <1>3

\* The page goes to a new document, which is in no bracket.
LEMMA NavigateKeeps ==
  ASSUME ScopeInv, NEW p \in Paths, Navigate(p)
  PROVE  ScopeInv'
<1>1. /\ trail' \in Seq(Entries) /\ trail' # <<>> /\ TrailInv'
      /\ loaded' \in Documents /\ loaded' = loaded + 1 /\ Current' = loaded'
  BY LoadStep DEF ScopeInv, Navigate
<1>2. loaded \in Nat /\ Current \in 1 .. loaded
  BY CurrentIsLoaded DEF ScopeInv
<1>3. ScopeTypeOK'
  BY <1>1 DEF ScopeInv, ScopeTypeOK, Entries, Navigate, seen, mark
<1>4. FrameInv'
  BY <1>1, <1>2 DEF ScopeInv, FrameInv, Navigate
<1>5. RequestInv' /\ CopyInv'
  BY <1>1, <1>2, CaptureFrame DEF Navigate
<1>6. BracketInv'
  BY <1>1, <1>2 DEF ScopeInv, BracketInv, Bracket, Navigate, mark
<1> QED
  BY <1>1, <1>3, <1>4, <1>5, <1>6 DEF ScopeInv

\* Recovery loads a document too, and starts no bracket.
LEMMA RecoverKeeps ==
  ASSUME ScopeInv, Recover
  PROVE  ScopeInv'
<1>0. PICK p \in Paths : Load(p)
  BY DEF Recover
<1>1. /\ trail' \in Seq(Entries) /\ trail' # <<>> /\ TrailInv'
      /\ loaded' \in Documents /\ loaded' = loaded + 1 /\ Current' = loaded'
  BY <1>0, LoadStep DEF ScopeInv
<1>2. loaded \in Nat /\ Current \in 1 .. loaded /\ Current \in Documents
  BY CurrentIsLoaded DEF ScopeInv
<1>3. ScopeTypeOK'
  BY <1>1, <1>2 DEF ScopeInv, ScopeTypeOK, Entries, Recover, seen
<1>4. FrameInv'
  BY <1>1, <1>2 DEF ScopeInv, FrameInv, Recover
<1>5. RequestInv' /\ CopyInv'
  BY <1>1, <1>2, CaptureFrame DEF Recover
<1>6. BracketInv'
  BY DEF ScopeInv, BracketInv, Bracket, Recover
<1> QED
  BY <1>1, <1>3, <1>4, <1>5, <1>6 DEF ScopeInv

LEMMA RestoreKeeps ==
  ASSUME ScopeInv, Restore
  PROVE  ScopeInv'
<1>1. trail' \in Seq(Entries) /\ trail' # <<>> /\ TrailInv' /\ loaded' = loaded
  BY RestoreStep DEF ScopeInv
<1>2. loaded \in Nat
  BY CurrentIsLoaded DEF ScopeInv
<1>3. ScopeTypeOK'
  BY <1>1 DEF ScopeInv, ScopeTypeOK, Entries, Restore, seen, mark
<1>4. FrameInv'
  BY <1>1 DEF ScopeInv, FrameInv, Restore
<1>5. RequestInv' /\ CopyInv'
  BY <1>1, <1>2, CaptureFrame DEF Restore
<1>6. BracketInv'
  BY DEF ScopeInv, BracketInv, Bracket, Restore, mark
<1> QED
  BY <1>1, <1>3, <1>4, <1>5, <1>6 DEF ScopeInv

LEMMA RouteKeeps ==
  ASSUME ScopeInv, NEW p \in Paths, Route(p)
  PROVE  ScopeInv'
<1>1. trail' \in Seq(Entries) /\ trail' # <<>> /\ TrailInv' /\ Current' = Current /\ loaded' = loaded
  BY RouteStep DEF ScopeInv
<1>0. UNCHANGED <<loaded, home, owners, seen, mark, pc, reached, before, scanned>>
  BY DEF Route
<1>2. loaded \in Nat
  BY CurrentIsLoaded DEF ScopeInv
<1>3. ScopeTypeOK'
  BY <1>0, <1>1 DEF ScopeInv, ScopeTypeOK, Entries, seen, mark
<1>4. FrameInv'
  BY <1>0, <1>1 DEF ScopeInv, FrameInv
<1>5. RequestInv' /\ CopyInv'
  BY <1>0, <1>1, <1>2, CaptureFrame
<1>6. BracketInv'
  BY <1>0, <1>1 DEF ScopeInv, BracketInv, Bracket, mark
<1> QED
  BY <1>1, <1>3, <1>4, <1>5, <1>6 DEF ScopeInv

\* A frame is attached in the document its parent is in.
LEMMA FrameKeeps ==
  ASSUME ScopeInv, NEW f \in Frames, FrameAttached(f) \/ ChildNavigated(f)
  PROVE  ScopeInv'
<1>1. /\ Current \in 1 .. loaded /\ Current \in Documents /\ None \notin Documents /\ loaded \in Nat
      /\ ParentOf[f] \in Frames \cup {Main} /\ Main \notin Frames
  BY CurrentIsLoaded, ScopeAssumption DEF ScopeInv, Documents
<1>2. home \in [Frames -> Documents \cup {None}] /\ owners \in [Frames -> Documents \cup {None}]
  BY DEF ScopeInv, ScopeTypeOK
<1>3. /\ home' = [home EXCEPT ![f] = Current]
      /\ home[f] \in {None, Current}
      /\ ParentOf[f] # Main => home[ParentOf[f]] = Current
  BY <1>1, <1>2 DEF FrameAttached, ChildNavigated, Lives, ScopeInv, FrameInv
<1>4. /\ owners' \in [Frames -> Documents \cup {None}]
      /\ owners'[f] \in {Current, None}
      /\ \A g \in Frames : g # f => owners'[g] = owners[g]
  <2>1. OwnerOfFrame(ParentOf[f]) \in {Current, None}
    BY <1>1, <1>3 DEF OwnerOfFrame, ScopeInv, FrameInv
  <2>2. owners[f] \in {Current, None}
    BY <1>3 DEF ScopeInv, FrameInv
  <2> QED
    BY <1>1, <1>2, <2>1, <2>2 DEF FrameAttached, ChildNavigated
<1>5. UNCHANGED <<trail, loaded, seen, mark, pc, reached, before, scanned>>
  BY DEF FrameAttached, ChildNavigated
<1>6. ScopeTypeOK'
  BY <1>1, <1>2, <1>3, <1>4, <1>5 DEF ScopeInv, ScopeTypeOK, seen, mark
<1>7. FrameInv'
  <2> SUFFICES ASSUME NEW g \in Frames
               PROVE  /\ owners'[g] \in {home'[g], None}
                      /\ home'[g] # None => home'[g] \in 1 .. loaded
                      /\ home'[g] # None /\ ParentOf[g] # Main => home'[ParentOf[g]] = home'[g]
    BY <1>5 DEF FrameInv
  <2>0. ParentOf[g] \in Frames \cup {Main}
    BY ScopeAssumption
  <2>1. CASE g = f
    BY <1>1, <1>2, <1>3, <1>4, <2>0, <2>1
  <2>2. CASE g # f
    <3>1. owners'[g] = owners[g] /\ home'[g] = home[g]
      BY <1>2, <1>3, <1>4, <2>2
    <3>2. ASSUME home[g] # None, ParentOf[g] # Main PROVE home'[ParentOf[g]] = home[g]
      <4>1. home[ParentOf[g]] = home[g] /\ ParentOf[g] \in Frames
        BY <2>0, <3>2 DEF ScopeInv, FrameInv
      <4> QED
        BY <1>2, <1>3, <3>2, <4>1
    <3> QED
      BY <3>1, <3>2 DEF ScopeInv, FrameInv
  <2> QED
    BY <2>1, <2>2
<1>8. RequestInv' /\ CopyInv'
  BY <1>1, <1>2, <1>3, <1>5, CaptureFrame
<1>9. TrailInv' /\ BracketInv'
  BY <1>5 DEF ScopeInv, TrailInv, BracketInv, Bracket, Current, mark
<1> QED
  BY <1>6, <1>7, <1>8, <1>9 DEF ScopeInv

\* A request is attributed to the document it was made in, or to none.
LEMMA RequestKeeps ==
  ASSUME ScopeInv, NEW f \in Frames \cup {Main}, RequestScript(f) \/ ScriptArrives
  PROVE  ScopeInv'
<1>1. Current \in 1 .. loaded /\ Current \in Documents /\ None \notin Documents
  BY CurrentIsLoaded, ScopeAssumption DEF ScopeInv, Documents
<1>2. UNCHANGED <<page, mark, pc, reached, before, scanned>>
  BY DEF RequestScript, ScriptArrives
<1>3. TrailInv' /\ FrameInv' /\ Current' = Current /\ loaded' = loaded
  BY <1>2, PageFrame
<1>4. BracketInv'
  BY <1>2, <1>3 DEF ScopeInv, BracketInv, Bracket, mark
<1>5. CASE RequestScript(f)
  <2>1. PICK logged \in BOOLEAN : request' = [document |-> Current, frame |-> f, logged |-> logged]
    BY <1>5 DEF RequestScript
  <2>2. f # Main => home'[f] = Current
    BY <1>2, <1>5 DEF RequestScript, Lives, page
  <2>3. RequestInv'
    BY <1>1, <1>3, <2>1, <2>2 DEF RequestInv
  <2>4. kept' = kept /\ ran' = ran /\ requested' \in 0 .. MaxRequests
    BY <1>5, ScopeAssumption DEF RequestScript, ScopeInv, ScopeTypeOK
  <2>5. CopyInv'
    BY <1>3, <2>4 DEF ScopeInv, CopyInv
  <2>6. ScopeTypeOK'
    BY <1>1, <1>2, <2>1, <2>4 DEF ScopeInv, ScopeTypeOK, page, mark
  <2> QED
    BY <1>3, <1>4, <2>3, <2>5, <2>6 DEF ScopeInv
<1>6. CASE ScriptArrives
  <2>1. PICK script \in Scripts :
          /\ kept' = CopyPerDocument(script, DocumentOfRequest(request))
          /\ ran' = ran \cup {<<script, request.document>>}
    BY <1>6 DEF ScriptArrives
  <2>2. /\ request.document \in 1 .. loaded /\ request.document \in Documents
        /\ request.frame \in Frames \cup {Main}
        /\ request.frame # Main => home[request.frame] = request.document
    BY <1>6, CurrentIsLoaded DEF ScriptArrives, ScopeInv, RequestInv, ScopeTypeOK
  <2>3. DocumentOfRequest(request) \in {request.document, None}
    <3>1. request.frame # Main => home[request.frame] # None
      BY <1>1, <2>2
    <3>2. OwnerUp(request.frame) = None \/ (request.frame # Main /\ OwnerUp(request.frame) = home[request.frame])
      BY <2>2, <3>1, OwnerIsHome DEF ScopeInv
    <3> QED
      BY <2>2, <3>2 DEF DocumentOfRequest
  <2>4. request' = None /\ requested' = requested
    BY <1>6 DEF ScriptArrives
  <2>5. RequestInv'
    BY <2>4 DEF RequestInv
  <2>6. CopyInv'
    BY <1>3, <2>1, <2>2, <2>3 DEF ScopeInv, CopyInv, CopyPerDocument
  <2>7. ScopeTypeOK'
    BY <1>2, <2>1, <2>2, <2>3, <2>4 DEF ScopeInv, ScopeTypeOK, page, mark, CopyPerDocument
  <2> QED
    BY <1>3, <1>4, <2>5, <2>6, <2>7 DEF ScopeInv
<1> QED
  BY <1>5, <1>6

\* The reads of the workflow; a bracket starts at the current document.
LEMMA ReadKeeps ==
  ASSUME ScopeInv, Located \/ RecordRecovery \/ CheckTarget \/ ReadAfter \/ ScanBefore \/ ReadPage
  PROVE  ScopeInv'
<1>1. Current \in 1 .. loaded /\ Current \in Documents /\ None \notin Documents /\ loaded \in Nat
  BY CurrentIsLoaded, ScopeAssumption DEF ScopeInv, Documents
<1>2. UNCHANGED page /\ UNCHANGED seen /\ reached' = reached
  BY DEF Located, RecordRecovery, CheckTarget, ReadAfter, ScanBefore, ReadPage
<1>3. TrailInv' /\ FrameInv' /\ Current' = Current /\ loaded' = loaded
  BY <1>2, PageFrame
<1>4. RequestInv' /\ CopyInv'
  BY <1>1, <1>2, <1>3, CaptureFrame DEF page
<1>5. ScopeTypeOK /\ BracketInv
  BY DEF ScopeInv
<1>6. CASE Located
  <2>1. ScopeTypeOK'
    BY <1>1, <1>2, <1>5, <1>6 DEF Located, ScopeTypeOK, page, seen, mark
  <2>2. BracketInv'
    BY <1>1, <1>3, <1>5, <1>6 DEF Located, BracketInv, Bracket, mark
  <2> QED
    BY <1>3, <1>4, <2>1, <2>2 DEF ScopeInv
<1>7. CASE RecordRecovery
  <2>1. ScopeTypeOK'
    BY <1>1, <1>2, <1>5, <1>7 DEF RecordRecovery, Answers, ScopeTypeOK, page, seen
  <2>2. BracketInv'
    BY <1>1, <1>3, <1>5, <1>7 DEF RecordRecovery, Answers, BracketInv, Bracket, ScopeTypeOK
  <2> QED
    BY <1>3, <1>4, <2>1, <2>2 DEF ScopeInv
<1>8. CASE CheckTarget
  <2>1. ScopeTypeOK'
    BY <1>1, <1>2, <1>5, <1>8 DEF CheckTarget, ScopeTypeOK, page, seen
  <2>2. BracketInv'
    BY <1>1, <1>3, <1>5, <1>8 DEF CheckTarget, BracketInv, Bracket, ScopeTypeOK
  <2> QED
    BY <1>3, <1>4, <2>1, <2>2 DEF ScopeInv
<1>9. CASE ReadAfter
  <2>0. before \in Documents
    BY <1>1, <1>9, CurrentIsLoaded DEF ReadAfter, ScopeInv, BracketInv, Bracket
  <2>1. ScopeTypeOK'
    BY <1>1, <1>2, <1>5, <1>9, <2>0 DEF ReadAfter, Answers, Bracketed, ScopeTypeOK, page, seen
  <2>2. paid' = paid /\ pc' = "acting" /\ pc = "confirming"
    BY <1>9 DEF ReadAfter
  <2>3. ~unresolved' => paid' = paymentDocuments'
    <3> SUFFICES ASSUME ~unresolved' PROVE paid' = paymentDocuments'
      OBVIOUS
    <3>1. PICK answer \in Answers :
            IF Bracketed(answer) = None THEN unresolved' = TRUE
            ELSE paymentDocuments' = paymentDocuments \cup {Bracketed(answer)} /\ UNCHANGED unresolved
      BY <1>9 DEF ReadAfter
    <3>2. Bracketed(answer) = before /\ answer = before /\ answer # None
      BY <2>0, <1>1, <3>1 DEF Bracketed
    <3>3. before = Current
      BY <3>2 DEF Answers
    <3> QED
      BY <1>5, <2>2, <3>1, <3>2, <3>3 DEF BracketInv
  <2>4. BracketInv'
    BY <1>2, <1>5, <2>2, <2>3 DEF BracketInv, Bracket
  <2> QED
    BY <1>3, <1>4, <2>1, <2>4 DEF ScopeInv
<1>10. CASE ScanBefore
  <2>1. ScopeTypeOK'
    BY <1>1, <1>2, <1>5, <1>10 DEF ScanBefore, ScopeTypeOK, page, seen, mark
  <2>2. BracketInv'
    BY <1>1, <1>3, <1>5, <1>10 DEF ScanBefore, BracketInv, Bracket, mark
  <2> QED
    BY <1>3, <1>4, <2>1, <2>2 DEF ScopeInv
<1>11. CASE ReadPage
  <2>1. ScopeTypeOK'
    BY <1>1, <1>2, <1>5, <1>11 DEF ReadPage, ScopeTypeOK, page, seen, mark
  <2>2. BracketInv'
    BY <1>1, <1>3, <1>5, <1>11 DEF ReadPage, BracketInv, Bracket, mark
  <2> QED
    BY <1>3, <1>4, <2>1, <2>2 DEF ScopeInv
<1> QED
  BY <1>6, <1>7, <1>8, <1>9, <1>10, <1>11

\* What the scan kept is of the document it read, or of none.
LEMMA ScanKeeps ==
  ASSUME ScopeInv, ScanAfter
  PROVE  ScopeInv'
<1>1. Current \in 1 .. loaded /\ None \notin Documents /\ loaded \in Nat /\ 1 .. loaded \subseteq Documents
  BY CurrentIsLoaded, ScopeAssumption DEF ScopeInv, Documents
<1>2. UNCHANGED page /\ UNCHANGED mark /\ requested' = requested
  BY DEF ScanAfter
<1>3. TrailInv' /\ FrameInv' /\ Current' = Current /\ loaded' = loaded
  BY <1>2, PageFrame
<1>4. before \in 1 .. loaded /\ scanned \in 1 .. loaded /\ (before = Current => scanned = before) /\ reached <= LastStep
  BY DEF ScanAfter, ScopeInv, BracketInv, Bracket
<1>5. PICK answer \in Answers, script \in Scripts :
        /\ kept' = CopyPerDocument(script, Bracketed(answer))
        /\ ran' = ran \cup {<<script, scanned>>}
  BY DEF ScanAfter
<1>6. Bracketed(answer) \in {scanned, None}
  BY <1>1, <1>4 DEF Bracketed, Answers
<1>7. CopyInv'
  BY <1>3, <1>4, <1>5, <1>6 DEF ScopeInv, CopyInv, CopyPerDocument
<1>8. /\ request' \in {None, request} /\ reached' = reached + 1 /\ before' = None /\ scanned' = None
      /\ reached = LastStep => pc' = "done"
      /\ reached # LastStep => pc' = "locating"
  BY DEF ScanAfter
<1>9. RequestInv'
  BY <1>2, <1>3, <1>8 DEF ScopeInv, RequestInv, page
<1>10. reached' \in 1 .. LastStep + 1 /\ (pc' # "done" => reached' <= LastStep)
  BY <1>4, <1>8, ScopeAssumption DEF ScopeInv, ScopeTypeOK
<1>11. ScopeTypeOK'
  BY <1>1, <1>2, <1>4, <1>5, <1>6, <1>8, <1>10 DEF ScopeInv, ScopeTypeOK, CopyPerDocument, page, mark
<1>12. BracketInv'
  BY <1>2, <1>8, <1>10 DEF ScopeInv, BracketInv, Bracket, ScanAfter, mark
<1> QED
  BY <1>3, <1>7, <1>9, <1>11, <1>12 DEF ScopeInv

LEMMA ScopeInvStep ==
  ASSUME ScopeInv, [ScopeNext]_scopeVars
  PROVE  ScopeInv'
<1>1. CASE UNCHANGED scopeVars
  <2>1. ScopeTypeOK'
    BY <1>1 DEF scopeVars, page, seen, mark, ScopeInv, ScopeTypeOK
  <2>2. TrailInv' /\ FrameInv' /\ RequestInv' /\ CopyInv' /\ BracketInv'
    BY <1>1 DEF scopeVars, page, seen, mark, ScopeInv, TrailInv, FrameInv, RequestInv, CopyInv, BracketInv,
                Current, Bracket
  <2> QED
    BY <2>1, <2>2 DEF ScopeInv
<1>2. CASE Workflow
  BY <1>2, ReadKeeps, RecoverKeeps, ScanKeeps DEF Workflow
<1>3. CASE Restore \/ ScriptArrives
  BY <1>3, RestoreKeeps, RequestKeeps
<1>4. CASE \E p \in Paths : Navigate(p) \/ Route(p)
  BY <1>4, NavigateKeeps, RouteKeeps
<1>5. CASE \E f \in Frames : FrameAttached(f) \/ ChildNavigated(f)
  BY <1>5, FrameKeeps
<1>6. CASE \E f \in Frames \cup {Main} : RequestScript(f)
  BY <1>6, RequestKeeps
<1> QED
  BY <1>1, <1>2, <1>3, <1>4, <1>5, <1>6 DEF ScopeNext

LEMMA ScopeInvStart ==
  ASSUME ScopeInit
  PROVE  ScopeInv
<1>1. PICK p \in Paths : trail = <<[id |-> 1, url |-> p, routes |-> <<>>]>>
  BY DEF ScopeInit
<1>2. 1 \in Documents /\ None \notin Documents
  BY ScopeAssumption DEF Documents
<1>3. trail \in Seq(Entries) /\ trail # <<>> /\ DOMAIN trail = {1} /\ trail[1].id = 1
  BY <1>1, <1>2 DEF Entries
<1>4. TrailInv
  BY <1>3 DEF TrailInv, Ids, ScopeInit
<1>5. ScopeTypeOK
  <2>1. 0 \in 0 .. MaxRequests /\ 1 \in 1 .. LastStep + 1
    BY ScopeAssumption
  <2>2. /\ home \in [Frames -> Documents \cup {None}] /\ owners = home
        /\ request \in [document : Documents, frame : Frames \cup {Main}, logged : BOOLEAN] \cup {None}
    BY DEF ScopeInit
  <2> QED
    BY <1>2, <1>3, <2>1, <2>2 DEF ScopeInit, ScopeTypeOK, Entries
<1> QED
  BY <1>4, <1>5, ScopeAssumption DEF ScopeInv, FrameInv, RequestInv, CopyInv, BracketInv, Bracket, ScopeInit

\* Type correctness: whatever the page and the workflow do, in any order.
THEOREM ScopeTypeCorrect == ScopeSpec => []ScopeTypeOK
<1>1. ScopeInv => ScopeTypeOK
  BY DEF ScopeInv
<1> QED
  BY <1>1, ScopeInvStart, ScopeInvStep, PTL DEF ScopeSpec

(***************************************************************************)
(* The scope of a finished run.                                            *)
(***************************************************************************)
LEMMA FirstIsEarliest ==
  ASSUME ScopeTypeOK, Scoped
  PROVE  /\ FirstOf(paymentDocuments) \in 1 .. Len(trail)
         /\ \A j \in 1 .. FirstOf(paymentDocuments) - 1 : trail[j].id \notin paymentDocuments
<1> DEFINE T == {i \in 1 .. Len(trail) : trail[i].id \in paymentDocuments}
<1>1. DOMAIN trail = 1 .. Len(trail) /\ Len(trail) \in Nat
  BY DEF ScopeTypeOK
<1>2. T # {}
  BY <1>1 DEF Scoped, Range
<1>3. T \subseteq Nat
  OBVIOUS
<1>4. PICK i \in T : \A k \in T : i <= k
  BY <1>2, <1>3, LeastMember
<1>5. i \in 1 .. Len(trail) /\ trail[i].id \in paymentDocuments
  BY <1>4
<1>6. \A j \in 1 .. i - 1 : trail[j].id \notin paymentDocuments
  BY <1>1, <1>4
<1> QED
  BY <1>5, <1>6 DEF FirstOf

LEMMA DifferentIsFinite ==
  ASSUME ScopeInv, Scoped
  PROVE  IsFiniteSet(Different(paymentDocuments)) /\ Different(paymentDocuments) \subseteq Documents
<1>1. Different(paymentDocuments) \subseteq Ids(trail)
  <2>1. FirstOf(paymentDocuments) \in 1 .. Len(trail) /\ DOMAIN trail = 1 .. Len(trail)
    BY FirstIsEarliest DEF ScopeInv, ScopeTypeOK
  <2>2. \A i \in 1 .. FirstOf(paymentDocuments) - 1 : i \in DOMAIN trail
    BY <2>1
  <2> QED
    BY <2>2 DEF Different, EarlierThan, Ids
<1>2. Ids(trail) = 1 .. loaded /\ loaded \in Nat /\ 1 .. loaded \subseteq Documents
  BY CurrentIsLoaded DEF ScopeInv, TrailInv
<1>3. IsFiniteSet(1 .. loaded)
  BY <1>2, FS_Interval
<1> QED
  BY <1>1, <1>2, <1>3, FS_Subset

\* What leaves the scope: documents before the payment page, elsewhere, that
\* recovery did not replace or whose replacement leaves it too.
LEMMA OutsideIs ==
  ASSUME ScopeInv
  PROVE  /\ ~Scoped => Outside = {}
         /\ Scoped => /\ Outside \subseteq Different(paymentDocuments)
                      /\ Different(paymentDocuments) \ recoveryReplaced \subseteq Outside
         /\ KeepsRecovered(Outside) = Outside
         /\ None \notin Outside
<1>1. CASE ~Scoped
  BY <1>1 DEF Outside, KeepsRecovered
<1>2. CASE Scoped
  <2> DEFINE D == Different(paymentDocuments)
  <2>1. IsFiniteSet(D) /\ D \subseteq Documents
    BY <1>2, DifferentIsFinite
  <2>2. Outside = FixedPoint(D)
    BY <1>2 DEF Outside
  <2>3. None \notin Documents
    BY ScopeAssumption DEF Documents
  <2> HIDE DEF D
  <2>4. Outside \subseteq D /\ KeepsRecovered(Outside) = Outside /\ D \ recoveryReplaced \subseteq Outside
    BY <2>1, <2>2, LoopSettles
  <2> QED
    BY <1>2, <2>1, <2>3, <2>4 DEF D
<1> QED
  BY <1>1, <1>2

\* No script that ran on the payment page, after it or in an earlier render of
\* it leaves the comparison, for any number of documents and navigations: what
\* could not be attributed is judged, and what was attributed was so rightly.
THEOREM PaymentScriptsAreJudged == ScopeSpec => []PaymentIsJudged
<1>1. ASSUME ScopeInv PROVE PaymentIsJudged
  <2> SUFFICES ASSUME pc = "done", NEW run \in ran, PaymentsOwn(paid, run[2]) PROVE run[1] \in Judged
    BY DEF PaymentIsJudged
  <2>1. run[2] \notin Outside
    <3>1. CASE ~Scoped
      BY <1>1, <3>1, OutsideIs
    <3>2. CASE Scoped
      <4>1. paid = paymentDocuments
        BY <1>1, <3>2 DEF ScopeInv, BracketInv, Scoped
      <4>2. run[2] \notin Different(paymentDocuments)
        BY <4>1 DEF Different, PaymentsOwn
      <4> QED
        BY <1>1, <3>2, <4>2, OutsideIs
    <3> QED
      BY <3>1, <3>2
  <2>2. run = <<run[1], run[2]>>
    BY <1>1 DEF ScopeInv, ScopeTypeOK
  <2>3. \E copy \in kept : copy[1] = run[1] /\ copy[2] \in {run[2], None}
    BY <1>1, <2>2 DEF ScopeInv, CopyInv
  <2>4. None \notin Outside
    BY <1>1, OutsideIs
  <2> QED
    BY <2>1, <2>3, <2>4 DEF Judged, InScope
<1> QED
  BY <1>1, ScopeInvStart, ScopeInvStep, PTL DEF ScopeSpec

\* A render that recovery replaced takes the scope of what replaced it, over
\* any number of recoveries: the loop reaches its fixed point.
THEOREM ReplacedRendersStayIn == ScopeSpec => []RecordedRendersStayIn
<1>1. ASSUME ScopeInv PROVE RecordedRendersStayIn
  <2>1. KeepsRecovered(Outside) = Outside
    BY <1>1, OutsideIs
  <2> QED
    BY <2>1 DEF RecordedRendersStayIn, KeepsRecovered
<1> QED
  BY <1>1, ScopeInvStart, ScopeInvStep, PTL DEF ScopeSpec

\* What is attributed to a page that came before the payment page, elsewhere,
\* and that recovery did not replace, is recorded only.
THEOREM OtherPagesLeave == ScopeSpec => []EarlierPagesLeave
<1>1. ASSUME ScopeInv PROVE EarlierPagesLeave
  <2> SUFFICES ASSUME pc = "done", Scoped, NEW copy \in kept,
                      copy[2] \notin recoveryReplaced \cup {None},
                      ~PaymentsOwn(paid \cup paymentDocuments, copy[2])
               PROVE  copy[1] \in Recorded
    BY DEF EarlierPagesLeave
  <2>1. paid \cup paymentDocuments = paymentDocuments /\ paymentDocuments # {}
    BY <1>1 DEF ScopeInv, BracketInv, Scoped
  <2>2. copy[2] \notin Onwards(paymentDocuments)
        /\ PathsOf(copy[2]) \cap UNION {PathsOf(p) : p \in paymentDocuments} = {}
    BY <2>1 DEF PaymentsOwn
  <2>3. copy[2] \in Ids(trail)
    BY <1>1 DEF ScopeInv, CopyInv, TrailInv
  <2>4. copy[2] \in EarlierThan(paymentDocuments)
    <3>1. PICK i \in DOMAIN trail : copy[2] = trail[i].id
      BY <2>3 DEF Ids
    <3>2. FirstOf(paymentDocuments) \in 1 .. Len(trail) /\ DOMAIN trail = 1 .. Len(trail) /\ Len(trail) \in Nat
      BY <1>1, FirstIsEarliest DEF ScopeInv, ScopeTypeOK
    <3>3. i \notin FirstOf(paymentDocuments) .. Len(trail)
      BY <2>2, <3>1 DEF Onwards
    <3>4. i \in 1 .. FirstOf(paymentDocuments) - 1
      BY <3>2, <3>3
    <3> QED
      BY <3>1, <3>4 DEF EarlierThan
  <2>5. copy[2] \in Outside
    BY <1>1, <2>2, <2>4, OutsideIs DEF Different
  <2> QED
    BY <2>5 DEF Recorded, InScope
<1> QED
  BY <1>1, ScopeInvStart, ScopeInvStep, PTL DEF ScopeSpec

=============================================================================
