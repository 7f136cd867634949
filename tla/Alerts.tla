-------------------------------- MODULE Alerts --------------------------------
(***************************************************************************)
(* The delivery of one target's alerts and of the run's summary to Slack   *)
(* (SlackAlertService of src/services/alert/slack.ts, RunLedger.finish).   *)
(* The findings of the target are sorted into messages by their kind and,  *)
(* for the staging target, by whether the diff applied them; each message  *)
(* is sent under a guard of its own, and what Slack refuses is listed for  *)
(* the summary.  What a message looks like is AlertLayout's.               *)
(***************************************************************************)
EXTENDS AlertLayout

CONSTANTS
  Targets,       \* whom the ledger and the refused alerts of other targets are about
  Results,       \* what a target may have to report: per kind a sequence of findings
  Ledgers,       \* what the ledger may hold by the end of the run
  Earlier,       \* alerts of other targets that may have been refused before
  Configured     \* the optional detection destinations the inventory sets

\* In the order alertForTypedResults takes them.
Kinds == <<"unknown_script", "unauthorised_script", "unknown_header", "unauthorised_header", "missing_header", "missing_script">>
SplitKinds == {"unauthorised_script", "unauthorised_header"}
Optional   == {"headerMismatch", "missingHeader", "missingScript"}

\* What is said of a kind in the summary, when its alert was refused.
Says     == {"found", "mismatch", "updated", "manual review"}
Subjects == Targets \cup (Range(Kinds) \X Says) \cup {<<"summary", "run">>}

Findings == [url : Nat, body : Nat, reason : Nat, chain : Nat, applied : BOOLEAN]
Entries  == [target : Subjects, name : Nat, before : Nat, chars : Nat]

ASSUME AlertsAssumption ==
  /\ Results \subseteq [Range(Kinds) -> Seq(Findings)]
  /\ \A l \in Ledgers : l.processed \in Nat /\ {l.failed, l.unread, l.outside, l.unanswered} \subseteq Seq(Entries)
  /\ Earlier \subseteq Seq(Entries)
  /\ Configured \subseteq Optional

VARIABLES
  type,       \* of the target: staging is "inventory", production "detection"
  results,    \* the comparison's findings about it
  queue,      \* the messages still to be sent, in order
  told,       \* those Slack took
  failures,   \* deliveryFailures of the alert service: the refused ones
  last,       \* how the last message was laid out
  ledger,     \* the run's ledger, once its last target is through
  summary     \* the run summary, once it is sent

vars == <<type, results, queue, told, failures, last, ledger, summary>>

NoLayout == [blocks |-> 0, table |-> 0, longest |-> 0, shown |-> 0, of |-> 0, noted |-> FALSE, channel |-> "none"]
NoLedger == [processed |-> 0, failed |-> <<>>, unread |-> <<>>, outside |-> <<>>, unanswered |-> <<>>]
NoSummary == [sent |-> "no", headline |-> "none", named |-> {}]

\* The messages a target can lead to, and how they are laid out.
Sendable == [kind : Range(Kinds), says : Says, findings : Seq(Findings)]
Channels == Optional \cup {"none", "newScriptIdentified", "newHeaderIdentified", "newScript", "scriptMismatch", "newHeader", "successNotification"}
Layouts  == [blocks : Nat, table : Nat, longest : Nat, shown : Nat, of : Nat, noted : BOOLEAN, channel : Channels]

TypeOK ==
  /\ type \in {"inventory", "detection"} /\ results \in Results
  /\ queue \in Seq(Sendable) /\ told \subseteq Sendable
  /\ failures \in Seq(Entries) /\ last \in Layouts
  /\ ledger \in Ledgers \cup {NoLedger}
  /\ summary \in [sent : {"no", "skipped", "taken", "refused"},
                  headline : {"none", "success", "partial", "failure"}, named : SUBSET Subjects]

(***************************************************************************)
(* Where an alert goes, and what it is made of.                            *)
(***************************************************************************)
FirstOf(preferred, fallback) == IF preferred \in Configured THEN preferred ELSE fallback

\* The channel of a kind; an optional one that is not set falls back.
Destination(kind) ==
  IF type = "inventory"
  THEN IF kind \in {"unknown_script", "unauthorised_script", "missing_script"} THEN "newScriptIdentified" ELSE "newHeaderIdentified"
  ELSE CASE kind = "unknown_script"      -> "newScript"
         [] kind = "unauthorised_script" -> "scriptMismatch"
         [] kind = "unknown_header"      -> "newHeader"
         [] kind = "unauthorised_header" -> FirstOf("headerMismatch", "newHeader")
         [] kind = "missing_header"      -> FirstOf("missingHeader", FirstOf("headerMismatch", "newHeader"))
         [] kind = "missing_script"      -> FirstOf("missingScript", "scriptMismatch")

Message(kind, says, findings) == [kind |-> kind, says |-> says, findings |-> findings]

\* The findings that the diff took up, and the others.
Applied(findings) == Those(findings, {i \in DOMAIN findings : findings[i].applied})
Skipped(findings) == Those(findings, {i \in DOMAIN findings : ~findings[i].applied})

\* Of what a known entry does not authorise, staging tells apart what the diff took up.
Variants(target, kind, findings) ==
  IF kind \notin SplitKinds THEN <<Message(kind, "found", findings)>>
  ELSE IF target = "detection" THEN <<Message(kind, "mismatch", findings)>>
  ELSE <<Message(kind, "updated", Applied(findings)),
         Message(kind, "manual review", Skipped(findings))>>

\* The messages of a target, in the order they are sent.
Messages(target, found) ==
  LET all == FlattenSeq([i \in DOMAIN Kinds |-> Variants(target, Kinds[i], found[Kinds[i]])])
  IN Those(all, {i \in DOMAIN all : all[i].findings # <<>>})

\* Title, divider and what else precedes the table; the review button follows.
Layout(message) ==
  LET table  == BoundedTable(message.kind, message.findings)
      before == IF message.kind \in {"missing_header", "missing_script"} THEN 2 ELSE 6
      review == IF type = "inventory" /\ before = 6 THEN 2 ELSE 0
  IN [blocks |-> before + 1 + (IF table.noted THEN 1 ELSE 0) + review,
      table |-> table.chars, longest |-> 0,
      shown |-> table.shown, of |-> table.of, noted |-> table.noted,
      channel |-> Destination(message.kind)]

(***************************************************************************)
(* The target's alerts.                                                    *)
(***************************************************************************)
Init ==
  /\ type \in {"inventory", "detection"}
  /\ results \in Results
  /\ queue = Messages(type, results)
  /\ told = {} /\ failures \in Earlier
  /\ last = NoLayout /\ ledger = NoLedger /\ summary = NoSummary

\* Who the failure is about, and how long its line in the summary is.
Failure(message) == [target |-> <<message.kind, message.says>>, name |-> 30, before |-> 40, chars |-> 40 + FieldLimit]

\* What Slack's limits let through; it may refuse any message at all.
SlackTakes(layout) ==
  layout.table <= SlackTable /\ layout.longest <= SlackSection /\ layout.blocks <= SlackBlocks

\* Slip: both variants of a kind under one guard.
SendGuardedTogether ==
  /\ queue # <<>> /\ last' = Layout(Head(queue))
  /\ \/ SlackTakes(last') /\ told' = told \cup {Head(queue)} /\ queue' = Tail(queue) /\ UNCHANGED failures
     \/ /\ failures' = Append(failures, Failure(Head(queue)))
        /\ queue' = SelectSeq(queue, LAMBDA m : m.kind # Head(queue).kind) /\ UNCHANGED told
  /\ UNCHANGED <<type, results, ledger, summary>>

\* sendMessage: Slack answers ok, or the failure is recorded and the next one sent.
Send ==
  /\ queue # <<>> /\ last' = Layout(Head(queue)) /\ queue' = Tail(queue)
  /\ \/ SlackTakes(last') /\ told' = told \cup {Head(queue)} /\ UNCHANGED failures
     \/ failures' = Append(failures, Failure(Head(queue))) /\ UNCHANGED told
  /\ UNCHANGED <<type, results, ledger, summary>>

(***************************************************************************)
(* The summary.                                                            *)
(***************************************************************************)
\* getExecutionOutcome
Outcome(l, undelivered) ==
  IF l.failed = <<>> /\ undelivered = <<>> /\ l.unread = <<>> THEN "success"
  ELSE IF l.failed # <<>> /\ l.processed = 0 THEN "failure" ELSE "partial"

\* createRunCompletionMessagePayload: the lists between four blocks and six.
SummarySections(l, undelivered) ==
  FullList(l.failed) \o NamedList(l.unread) \o NamedList(l.outside) \o NamedList(l.unanswered) \o FullList(undelivered)

SummaryLayout(sections) ==
  [NoLayout EXCEPT !.blocks = 4 + Len(sections) + 6, !.longest = Max({0} \cup {sections[i].chars : i \in DOMAIN sections}),
                   !.channel = "successNotification"]

\* RunLedger.finish, once the last target is through.  A summary that is
\* refused is recorded like any alert, and the run fails for it.
Finish ==
  /\ queue = <<>> /\ summary.sent = "no"
  /\ \E l \in Ledgers : \E sections \in {SummarySections(l, failures)} :
       LET named    == UNION {sections[i].names : i \in DOMAIN sections}
       IN /\ ledger' = l /\ last' = SummaryLayout(sections)
          /\ \/ /\ l.processed = 0 /\ l.failed = <<>>             \* nothing attempted, nothing to tell
                /\ summary' = [NoSummary EXCEPT !.sent = "skipped"] /\ UNCHANGED failures
             \/ /\ l.processed > 0 \/ l.failed # <<>>
                /\ \/ SlackTakes(last') /\ UNCHANGED failures
                      /\ summary' = [sent |-> "taken", headline |-> Outcome(l, failures), named |-> named]
                   \/ /\ failures' = Append(failures, Failure(Message("summary", "run", <<>>)))
                      /\ summary' = [NoSummary EXCEPT !.sent = "refused"]
  /\ UNCHANGED <<type, results, queue, told>>

Next == Send \/ Finish
Spec == Init /\ [][Next]_vars

(***************************************************************************)
(* Properties.                                                             *)
(***************************************************************************)
Listed(message) == \E i \in DOMAIN failures : failures[i].target = <<message.kind, message.says>>

\* However the findings were sorted and whatever Slack refused: of every kind
\* each finding is in a message that was taken or is recorded as refused; the
\* table of every message that was taken has a row for each of its findings or
\* notes that it leaves some out, and a summary that was taken names the refused.
NothingUnheard ==
  queue = <<>> =>
    \A kind \in Range(Kinds) :
      LET about == {m \in Range(Messages(type, results)) : m.kind = kind} IN
      /\ \A f \in Range(results[kind]) : \E m \in about : f \in Range(m.findings)
      /\ \A m \in about : m \in told \/ (Listed(m) /\ (summary.sent = "taken" => <<m.kind, m.says>> \in summary.named))
      /\ \A m \in about \cap told : Layout(m).shown < Layout(m).of => Layout(m).noted

\* No message is refused for its own making: it has a channel, and its table,
\* its sections and its blocks are within what Slack takes.
FitsSlack ==
  last # NoLayout => SlackTakes(last) /\ last.channel \notin Optional \ Configured

\* A summary that was taken names every target it has something to say about,
\* in each of its lists, however many entries there are.
NamesEveryTarget ==
  summary.sent = "taken" =>
    \A list \in {ledger.failed, ledger.unread, ledger.outside, ledger.unanswered} :
      \A i \in DOMAIN list : list[i].target \in summary.named

===============================================================================
