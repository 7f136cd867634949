------------------------------ MODULE Collector ------------------------------
(***************************************************************************)
(* The collector Lambda (collector/src/ingest.ts): many invocations run at *)
(* the same time over one DynamoDB novelty table, one Firehose archive and *)
(* one SQS queue.  An invocation takes one HTTP request, archives it, and  *)
(* then processes each of its observations on its own (Promise.allSettled):*)
(* one UpdateItem decides novel or repeat, a second conditional one resets *)
(* an expired record, a novel observation is sent to the queue, and a      *)
(* failed send is compensated by deleting the record.                      *)
(*                                                                         *)
(* Every call to AWS has an outcome: "ok", "rejected" (no effect, the      *)
(* caller sees an error), "lost" (effect, the caller sees an error) and    *)
(* "resent" (effect, the response is lost and the SDK's default retry      *)
(* sends the same call again).  The constant Faults says which of them the *)
(* environment of an instance may produce.                                 *)
(***************************************************************************)
EXTENDS Integers, FiniteSets

CONSTANTS
  Invocations,      \* concurrent executions of the Lambda
  Origins,          \* values of the Origin header / origins of document URLs
  Targets,          \* target ids of the configuration
  NoTarget,         \* what an unmapped origin maps to
  NoOrigin,         \* the header is absent
  targetOf,         \* config.originTargets
  Identities,       \* novelty identities (URL, inline hash, csp:directive:uri)
  CspIdentities,    \* those a CSP report can carry
  Routes,           \* SPA routes, context only: never part of the key
  EdgeSecretChecked,\* edgeAuthMode = 'shared_secret'
  EdgeSecretSet,    \* config.edgeSharedSecret is not empty
  NoRecord,         \* the table has no item under a key
  TtlWindow,        \* noveltyTtlDays, in ticks
  LambdaTimeout,    \* the platform kills an invocation that is older
  MaxTime,          \* bound of the clock
  Faults            \* which outcomes other than "ok", and deaths, may happen

Calls    == {"archive", "upsert", "reset", "send", "delete"}
Outcomes == {"rejected", "lost", "resent"}
Stages   == {"idle", "archive", "upsert", "reset", "send", "compensate"}

\* An invocation may die while one of its keys is at the stage.
Crashes  == (Stages \ {"idle"}) \X {"crash"}

ASSUME ConfigAssumption ==
  /\ targetOf \in [Origins -> Targets \cup {NoTarget}]
  /\ NoTarget \notin Targets /\ NoOrigin \notin Origins
  /\ CspIdentities \subseteq Identities /\ Routes # {}
  /\ EdgeSecretChecked \in BOOLEAN /\ EdgeSecretSet \in BOOLEAN
  /\ NoRecord \notin [firstSeen : Int, firstRoute : Routes, ttl : Int]
  /\ Faults \subseteq (Calls \X Outcomes) \cup Crashes

(***************************************************************************)
(* The TTL window (90 days) is far longer than an invocation may live      *)
(* (15 seconds): what makes one owner per key possible.                    *)
(***************************************************************************)
ASSUME TimeAssumption ==
  /\ TtlWindow \in Nat /\ LambdaTimeout \in Nat /\ MaxTime \in Nat
  /\ 2 * LambdaTimeout < TtlWindow

Keys         == Targets \X Identities
Observations == [id : Identities, doc : Origins]

Requests ==
  [path : {"beacon", "csp"}, edgeKey : BOOLEAN, origin : Origins \cup {NoOrigin},
   parses : BOOLEAN, route : Routes, obs : SUBSET Observations]

Records  == [firstSeen : Int, firstRoute : Routes, ttl : Int]
Messages == [key : Keys, at : Int, route : Routes]

VARIABLES
  now,       \* the wall clock, in ticks
  table,     \* the novelty table
  archive,   \* what Firehose holds: a set of Messages
  sent,      \* messages SQS accepted, ever
  stage,     \* stage[i][k]: what invocation i does next for key k
  req,       \* req[i]: receipt time, route and path of i's request
  prior,     \* prior[i][k]: the first_seen i's upsert returned
  revived    \* history: records written after they expired and not reset since

vars == <<now, table, archive, sent, stage, req, prior, revived>>

(***************************************************************************)
(* The request gate: edge key, Origin mapping, size / JSON / schema.       *)
(***************************************************************************)
EdgeAuthenticated(r) == EdgeSecretChecked => EdgeSecretSet /\ r.edgeKey

HeaderTarget(r) == IF r.origin = NoOrigin THEN NoTarget ELSE targetOf[r.origin]

\* Only a CSP request with no Origin header falls back to document URLs.
StampOf(r, o) ==
  IF r.path = "csp" /\ r.origin = NoOrigin THEN targetOf[o.doc] ELSE HeaderTarget(r)

KeysOf(r) ==
  {<<StampOf(r, o), o.id>> : o \in {x \in r.obs : StampOf(r, x) # NoTarget}}

\* An observation is in one of the two delivery shapes.
WellKinded(r) == r.path = "csp" => \A o \in r.obs : o.id \in CspIdentities

Happens(call, outcome) == outcome = "ok" \/ <<call, outcome>> \in Faults
Applied(outcome)       == outcome \in {"ok", "lost", "resent"}

Busy(i)        == \E k \in Keys : stage[i][k] # "idle"
To(i, k, next) == stage' = [stage EXCEPT ![i][k] = next]

Entry(i, k) == [key |-> k, at |-> req[i].at, route |-> req[i].route]

Init ==
  /\ now = 0
  /\ table = [k \in Keys |-> NoRecord]
  /\ archive = {}
  /\ sent = {}
  /\ stage = [i \in Invocations |-> [k \in Keys |-> "idle"]]
  /\ req = [i \in Invocations |->
              [at |-> 0, route |-> CHOOSE r \in Routes : TRUE, path |-> "beacon"]]
  /\ prior = [i \in Invocations |-> [k \in Keys |-> 0]]
  /\ revived = {}

(***************************************************************************)
(* processEvent up to the archive: an accepted request captures its        *)
(* receipt time once, for everything that follows.                         *)
(***************************************************************************)
Receive(i, r) ==
  /\ ~Busy(i)
  /\ EdgeAuthenticated(r) /\ r.parses /\ WellKinded(r)
  /\ KeysOf(r) # {}
  /\ req' = [req EXCEPT ![i] = [at |-> now, route |-> r.route, path |-> r.path]]
  /\ stage' = [stage EXCEPT ![i] = [k \in Keys |-> IF k \in KeysOf(r) THEN "archive" ELSE "idle"]]
  /\ UNCHANGED <<now, table, archive, sent, prior, revived>>

(***************************************************************************)
(* A beacon is archived whole, before any of its observations; a CSP       *)
(* report is archived on its own.  A Firehose failure ends what it covers. *)
(***************************************************************************)
Archive(i, ks, outcome) ==
  /\ Happens("archive", outcome)
  /\ archive' = IF Applied(outcome) THEN archive \cup {Entry(i, k) : k \in ks} ELSE archive
  /\ stage' = [stage EXCEPT ![i] = [k \in Keys |->
                 IF k \notin ks THEN stage[i][k]
                 ELSE CASE outcome = "ok"     -> "upsert"
                        [] outcome = "resent" -> "archive"
                        [] OTHER              -> "idle"]]
  /\ UNCHANGED <<now, table, sent, req, prior, revived>>

Awaiting(i) == {k \in Keys : stage[i][k] = "archive"}

ArchiveBeacon(i, outcome) ==
  /\ req[i].path = "beacon" /\ Awaiting(i) # {}
  /\ Archive(i, Awaiting(i), outcome)

ArchiveReport(i, k, outcome) ==
  /\ req[i].path = "csp" /\ k \in Awaiting(i)
  /\ Archive(i, {k}, outcome)

(***************************************************************************)
(* noveltyUpsertInput: first_seen and first_route only if absent, ttl on   *)
(* every write; the decision reads the item as it was before.              *)
(***************************************************************************)
TtlOf(i) == req[i].at + TtlWindow

FirstBy(i, ttl)   == [firstSeen |-> req[i].at, firstRoute |-> req[i].route, ttl |-> ttl]
Prolonged(k, ttl) == [firstSeen |-> table[k].firstSeen, firstRoute |-> table[k].firstRoute, ttl |-> ttl]

\* Slip: ttl anchored to the first sighting, as it was before the window rolled.
UpsertedAnchored(i, k) ==
  IF table[k] = NoRecord
  THEN FirstBy(i, TtlOf(i)) ELSE table[k]

\* Slip: a repeat writes ttlDays as if they were seconds.
UpsertedUnscaled(i, k) ==
  IF table[k] = NoRecord
  THEN FirstBy(i, TtlOf(i)) ELSE Prolonged(k, req[i].at + 1)

Upserted(i, k) ==
  IF table[k] = NoRecord
  THEN FirstBy(i, TtlOf(i)) ELSE Prolonged(k, TtlOf(i))

Expired(i, k) == table[k] # NoRecord /\ table[k].ttl <= req[i].at

\* Slip: an expired record the reaper has not removed yet counts as a repeat.
VerdictNoReset(i, k) == IF table[k] = NoRecord THEN "send" ELSE "idle"

Verdict(i, k) ==
  CASE table[k] = NoRecord -> "send"
    [] Expired(i, k)       -> "reset"
    [] OTHER               -> "idle"

Upsert(i, k, outcome) ==
  /\ stage[i][k] = "upsert"
  /\ Happens("upsert", outcome)
  /\ IF Applied(outcome)
     THEN /\ table' = [table EXCEPT ![k] = Upserted(i, k)]
          /\ revived' = IF Expired(i, k) THEN revived \cup {k} ELSE revived
     ELSE UNCHANGED <<table, revived>>
  /\ To(i, k, CASE outcome = "ok"     -> Verdict(i, k)
                [] outcome = "resent" -> "upsert"
                [] OTHER              -> "idle")
  /\ prior' = IF outcome = "ok" /\ Expired(i, k)
              THEN [prior EXCEPT ![i][k] = table[k].firstSeen] ELSE prior
  /\ UNCHANGED <<now, archive, sent, req>>

(***************************************************************************)
(* noveltyResetInput, sent only after the upsert met an expired record: it *)
(* applies only while first_seen is still the one the upsert returned.     *)
(* Losing that race makes the sighting a repeat; any other failure deletes *)
(* the record, because the upsert has already made it live again.          *)
(***************************************************************************)
ResetHolds(i, k) == table[k] # NoRecord /\ table[k].firstSeen = prior[i][k]

Reset(i, k, outcome) ==
  /\ stage[i][k] = "reset"
  /\ Happens("reset", outcome)
  /\ IF Applied(outcome) /\ ResetHolds(i, k)
     THEN /\ table' = [table EXCEPT ![k] = FirstBy(i, table[k].ttl)]
          /\ revived' = revived \ {k}
     ELSE UNCHANGED <<table, revived>>
  /\ To(i, k, CASE outcome = "ok" /\ ResetHolds(i, k)  -> "send"
                [] outcome = "ok" /\ ~ResetHolds(i, k) -> "idle"
                [] outcome = "resent"                  -> "reset"
                [] OTHER                               -> "compensate")
  /\ prior' = IF outcome = "resent" THEN prior ELSE [prior EXCEPT ![i][k] = 0]
  /\ UNCHANGED <<now, archive, sent, req>>

(***************************************************************************)
(* The enqueue of a first sighting.                                        *)
(***************************************************************************)
Send(i, k, outcome) ==
  /\ stage[i][k] = "send"
  /\ Happens("send", outcome)
  /\ sent' = IF Applied(outcome) THEN sent \cup {Entry(i, k)} ELSE sent
  /\ To(i, k, CASE outcome = "ok"     -> "idle"
                [] outcome = "resent" -> "send"
                [] OTHER              -> "compensate")
  /\ UNCHANGED <<now, table, archive, req, prior, revived>>

(***************************************************************************)
(* The compensating delete after a failed reset or a failed send: one      *)
(* unconditional DeleteItem, its failure logged and nothing else.          *)
(***************************************************************************)
\* Slip: the error of a failed reset or send is rethrown with no delete.
CompensateNothing(i, k, outcome) ==
  /\ stage[i][k] = "compensate"
  /\ Happens("delete", outcome)
  /\ To(i, k, "idle")
  /\ UNCHANGED <<now, table, archive, sent, req, prior, revived>>

Compensate(i, k, outcome) ==
  /\ stage[i][k] = "compensate"
  /\ Happens("delete", outcome)
  /\ IF Applied(outcome)
     THEN table' = [table EXCEPT ![k] = NoRecord] /\ revived' = revived \ {k}
     ELSE UNCHANGED <<table, revived>>
  /\ To(i, k, IF outcome = "resent" THEN "compensate" ELSE "idle")
  /\ UNCHANGED <<now, archive, sent, req, prior>>

\* The runtime dies, or the platform times the invocation out, and every key
\* of its request is left at the stage it had reached.
Die(i) ==
  /\ Busy(i)
  /\ \A k \in Keys : stage[i][k] # "idle" => <<stage[i][k], "crash">> \in Faults
  /\ stage' = [stage EXCEPT ![i] = [k \in Keys |-> "idle"]]
  /\ UNCHANGED <<now, table, archive, sent, req, prior, revived>>

\* DynamoDB deletes an expired item at some time after its ttl.
Reap(k) ==
  /\ table[k] # NoRecord /\ table[k].ttl <= now
  /\ table' = [table EXCEPT ![k] = NoRecord]
  /\ revived' = revived \ {k}
  /\ UNCHANGED <<now, archive, sent, stage, req, prior>>

\* No invocation outlives LambdaTimeout: it has ended, or Die has ended it.
Tick ==
  /\ now < MaxTime
  /\ \A i \in Invocations : Busy(i) => now < req[i].at + LambdaTimeout
  /\ now' = now + 1
  /\ UNCHANGED <<table, archive, sent, stage, req, prior, revived>>

Process(i, outcome) ==
  \/ ArchiveBeacon(i, outcome)
  \/ \E k \in Keys :
       \/ ArchiveReport(i, k, outcome)
       \/ Upsert(i, k, outcome)
       \/ Reset(i, k, outcome)
       \/ Send(i, k, outcome)
       \/ Compensate(i, k, outcome)

Work(i) == \E outcome \in Outcomes \cup {"ok"} : Process(i, outcome)

Next ==
  \/ \E i \in Invocations :
       \/ \E r \in Requests : Receive(i, r)
       \/ Work(i)
       \/ Die(i)
  \/ \E k \in Keys : Reap(k)
  \/ Tick

Spec == Init /\ [][Next]_vars

\* An invocation that is not killed runs to its end.
Fairness == \A i \in Invocations : WF_vars(Work(i))

FairSpec == Spec /\ Fairness

(***************************************************************************)
(* Properties.                                                             *)
(***************************************************************************)
TypeOK ==
  /\ now \in Nat
  /\ table \in [Keys -> Records \cup {NoRecord}]
  /\ archive \subseteq Messages
  /\ sent \subseteq Messages
  /\ stage \in [Invocations -> [Keys -> Stages]]
  /\ req \in [Invocations -> [at : Int, route : Routes, path : {"beacon", "csp"}]]
  /\ prior \in [Invocations -> [Keys -> Int]]
  /\ revived \subseteq Keys

\* i has been told its sighting is the first (or is resetting to make it so).
Owns(i, k) == stage[i][k] \in {"reset", "send", "compensate"}

\* However invocations interleave, one of them at a time acts for a key on a
\* first sighting: "exactly one of several concurrent returns win".
SingleOwner ==
  \A k \in Keys, i, j \in Invocations : Owns(i, k) /\ Owns(j, k) => i = j

\* The record of k describes a sighting whose message SQS has accepted.
Queued(k) ==
  /\ k \notin revived
  /\ [key |-> k, at |-> table[k].firstSeen, route |-> table[k].firstRoute] \in sent

\* A record suppresses its key for the rest of the window, so there must be a
\* message behind it, carrying the same first_seen and route, or an invocation
\* that will still send one or delete the record.
RecordsAreQueued ==
  \A k \in Keys : table[k] # NoRecord => Queued(k) \/ \E i \in Invocations : Owns(i, k)

\* One message per novelty window: two messages of one key are a window apart,
\* less twice the age of an invocation.  A slow one's older receipt can pull
\* ttl back, and a slow one can meet the table after the record is gone.
OneMessagePerWindow ==
  \A m, n \in sent :
    m.key = n.key /\ m # n =>
      \/ m.at >= n.at + TtlWindow - 2 * LambdaTimeout
      \/ n.at >= m.at + TtlWindow - 2 * LambdaTimeout

\* Nothing is enqueued that the archive does not hold with the same receipt
\* time: the archive-before-novelty order of processEvent, over every failure.
SentWasArchived == sent \subseteq archive

\* The window of a record that is kept moves forward only, again less the age
\* an invocation may reach: a continuously present script never expires.
WindowRolls ==
  [][\A k \in Keys :
       table[k] # NoRecord /\ table'[k] # NoRecord /\ now < table[k].ttl
         => table'[k].ttl >= table[k].ttl - LambdaTimeout]_vars

\* Faults after which a key can stay suppressed with nothing enqueued.
LosingFaults ==
  {<<"upsert", "lost">>, <<"upsert", "resent">>, <<"reset", "resent">>,
   <<"delete", "rejected">>, <<"reset", "crash">>, <<"send", "crash">>,
   <<"compensate", "crash">>}

\* Faults after which one window can produce two messages.
DuplicatingFaults == {<<"send", "lost">>, <<"send", "resent">>, <<"delete", "resent">>}

=============================================================================
