--------------------------- MODULE CollectorProofs ---------------------------
(***************************************************************************)
(* Theorems about the collector, for any number of invocations, targets,   *)
(* keys and routes, any clock bound and any set of faults named by them.   *)
(***************************************************************************)
EXTENDS CollectorWindow, TLAPS

(***************************************************************************)
(* The keys of an accepted request are keys of configured targets.         *)
(***************************************************************************)
LEMMA KeysOfRequest ==
  ASSUME NEW r \in Requests
  PROVE  KeysOf(r) \subseteq Keys
BY ConfigAssumption DEF KeysOf, Keys, StampOf, HeaderTarget, Requests, Observations

(***************************************************************************)
(* Type correctness.                                                       *)
(***************************************************************************)
THEOREM TypeCorrect == Spec => []TypeOK
<1> USE DEF Messages, Records, Stages
<1>1. Init => TypeOK
  BY ConfigAssumption DEF Init, TypeOK
<1>2. TypeOK /\ [Next]_vars => TypeOK'
  <2> SUFFICES ASSUME TypeOK, [Next]_vars PROVE TypeOK'
    OBVIOUS
  <2> USE DEF TypeOK
  <2>1. ASSUME NEW i \in Invocations, NEW r \in Requests, Receive(i, r) PROVE TypeOK'
    BY <2>1 DEF Receive, Requests
  <2>2. ASSUME NEW i \in Invocations, NEW ks \in SUBSET Keys, NEW o, Archive(i, ks, o) PROVE TypeOK'
    <3>1. \A k \in Keys : Entry(i, k) \in Messages
      BY DEF Entry
    <3> QED
      BY <2>2, <3>1 DEF Archive
  <2>3. ASSUME NEW i \in Invocations, NEW k \in Keys, NEW o, Upsert(i, k, o) PROVE TypeOK'
    <3>1. Upserted(i, k) \in Records
      BY TimeAssumption DEF Upserted, TtlOf, FirstBy, Prolonged
    <3>2. Verdict(i, k) \in Stages
      BY DEF Verdict
    <3>3. Expired(i, k) => table[k].firstSeen \in Int
      BY DEF Expired
    <3> QED
      BY <2>3, <3>1, <3>2, <3>3 DEF Upsert, To
  <2>4. ASSUME NEW i \in Invocations, NEW k \in Keys, NEW o, Reset(i, k, o) PROVE TypeOK'
    BY <2>4 DEF Reset, To, ResetHolds, FirstBy
  <2>5. ASSUME NEW i \in Invocations, NEW k \in Keys, NEW o, Send(i, k, o) PROVE TypeOK'
    BY <2>5 DEF Send, To, Entry
  <2>6. ASSUME NEW i \in Invocations, NEW k \in Keys, NEW o, Compensate(i, k, o) PROVE TypeOK'
    BY <2>6 DEF Compensate, To
  <2>7. ASSUME NEW i \in Invocations, Die(i) PROVE TypeOK'
    BY <2>7 DEF Die
  <2>8. ASSUME NEW k \in Keys, Reap(k) PROVE TypeOK'
    BY <2>8 DEF Reap
  <2>9. CASE Tick
    BY <2>9 DEF Tick
  <2>10. CASE UNCHANGED vars
    BY <2>10 DEF vars
  <2>11. QED
    BY <2>1, <2>2, <2>3, <2>4, <2>5, <2>6, <2>7, <2>8, <2>9, <2>10
       DEF Next, Work, Process, ArchiveBeacon, ArchiveReport, Awaiting
<1>3. QED
  BY <1>1, <1>2, PTL DEF Spec

(***************************************************************************)
(* SingleOwner.  The inductive invariant says why it holds: an invocation  *)
(* is young while it runs, and the record it owns was made live by its own *)
(* upsert, so nobody else's receipt can find the record expired or gone.   *)
(***************************************************************************)
Young(i) == req[i].at <= now /\ now <= req[i].at + LambdaTimeout

OwnedIsLive ==
  \A i \in Invocations, k \in Keys : Owns(i, k) =>
    /\ table[k] # NoRecord
    /\ table[k].ttl >= req[i].at + TtlWindow - LambdaTimeout

OwnerInv ==
  /\ \A i \in Invocations : Busy(i) => Young(i)
  /\ OwnedIsLive
  /\ SingleOwner

\* A record somebody owns is not expired, for any receipt up to the present.
LEMMA OwnedNeverExpires ==
  ASSUME TypeOK, OwnerInv, NEW i \in Invocations, NEW k \in Keys, Owns(i, k)
  PROVE  table[k] # NoRecord /\ now < table[k].ttl
<1>1. Busy(i)
  BY DEF Busy, Owns
<1>2. table[k].ttl \in Int /\ req[i].at \in Int /\ now \in Int
  BY DEF TypeOK, Records, OwnerInv, OwnedIsLive
<1> QED
  BY <1>1, <1>2, TimeAssumption DEF OwnerInv, OwnedIsLive, Young

\* A receipt that finds a record expired finds it without an owner.
LEMMA ExpiredIsNotOwned ==
  ASSUME TypeOK, OwnerInv, NEW i \in Invocations, NEW k \in Keys, Busy(i), Expired(i, k),
         NEW j \in Invocations
  PROVE  ~Owns(j, k)
<1>1. now \in Int /\ req[i].at \in Int /\ table[k].ttl \in Int
  BY DEF TypeOK, Records, Expired
<1> QED
  BY <1>1, OwnedNeverExpires DEF OwnerInv, Young, Expired

LEMMA OwnerInvStep ==
  ASSUME <<"delete", "resent">> \notin Faults,
         TypeOK, TypeOK', OwnerInv, [Next]_vars
  PROVE  OwnerInv'
<1> USE TimeAssumption DEF OwnerInv
<1>0. /\ now \in Int
      /\ \A i \in Invocations : req[i].at \in Int
      /\ \A k \in Keys : table[k] # NoRecord => table[k].ttl \in Int
      /\ table \in [Keys -> Records \cup {NoRecord}]
      /\ stage \in [Invocations -> [Keys -> Stages]]
  BY DEF TypeOK, Records
<1>1. ASSUME NEW i \in Invocations, NEW r \in Requests, Receive(i, r) PROVE OwnerInv'
  <2>1. \A j \in Invocations, k \in Keys : Owns(j, k)' => Owns(j, k) /\ j # i
    BY <1>0, <1>1 DEF Receive, Owns, Busy
  <2>2. \A j \in Invocations : j # i => req'[j] = req[j] /\ stage'[j] = stage[j]
    BY <1>0, <1>1 DEF Receive, TypeOK
  <2>3. req'[i].at = now
    BY <1>1 DEF Receive, TypeOK
  <2>4. \A j \in Invocations : Busy(j)' => Young(j)'
    BY <1>0, <1>1, <2>2, <2>3 DEF Receive, Busy, Young
  <2>5. OwnedIsLive' /\ SingleOwner'
    BY <1>1, <2>1, <2>2 DEF Receive, OwnedIsLive, SingleOwner
  <2> QED
    BY <2>4, <2>5
<1>2. ASSUME NEW i \in Invocations, NEW ks \in SUBSET Keys, NEW o, ks # {},
             ks \subseteq Awaiting(i), Archive(i, ks, o)
      PROVE OwnerInv'
  <2>1. \A j \in Invocations, k \in Keys : Owns(j, k)' => Owns(j, k)
    BY <1>0, <1>2 DEF Archive, Owns, Awaiting
  <2>2. \A j \in Invocations : Busy(j)' => Busy(j)
    BY <1>0, <1>2 DEF Archive, Busy, Awaiting
  <2> QED
    BY <1>2, <2>1, <2>2 DEF Archive, OwnedIsLive, SingleOwner, Young
<1>3. ASSUME NEW i \in Invocations, NEW k \in Keys, NEW o, Upsert(i, k, o) PROVE OwnerInv'
  <2>1. Young(i)
    BY <1>3 DEF Upsert, Busy
  <2>2. \A j \in Invocations : Busy(j)' => Busy(j)
    BY <1>0, <1>3 DEF Upsert, To, Busy
  <2>3. \A j \in Invocations, l \in Keys : Owns(j, l)' => Owns(j, l) \/ (j = i /\ l = k)
    BY <1>0, <1>3 DEF Upsert, To, Owns
  <2>4. Owns(i, k)' => Applied(o) /\ (table[k] = NoRecord \/ Expired(i, k))
    BY <1>0, <1>3 DEF Upsert, To, Owns, Verdict, Applied
  <2>5. Applied(o) => table'[k] # NoRecord /\ table'[k].ttl = req[i].at + TtlWindow
    <3>1. Upserted(i, k).ttl = TtlOf(i)
      BY DEF Upserted, FirstBy, Prolonged
    <3>2. Upserted(i, k) \in Records
      BY DEF TypeOK, Upserted, FirstBy, Prolonged, TtlOf, Records
    <3> QED
      BY <1>0, <1>3, <3>1, <3>2, ConfigAssumption DEF Upsert, TtlOf, Records
  <2>6. \A l \in Keys : l # k \/ ~Applied(o) => table'[l] = table[l]
    BY <1>0, <1>3 DEF Upsert
  <2>7. OwnedIsLive'
    <3> SUFFICES ASSUME NEW j \in Invocations, NEW l \in Keys, Owns(j, l)'
                 PROVE  table'[l] # NoRecord /\ table'[l].ttl >= req[j].at + TtlWindow - LambdaTimeout
      BY <1>3 DEF Upsert, OwnedIsLive
    <3>1. CASE l = k /\ Applied(o)
      <4>1. j = i \/ Young(j)
        BY <2>3 DEF Owns, Busy
      <4> QED
        BY <1>0, <2>1, <2>5, <3>1, <4>1 DEF Young
    <3>2. CASE l # k \/ ~Applied(o)
      BY <2>3, <2>4, <2>6, <3>2 DEF OwnedIsLive
    <3> QED
      BY <3>1, <3>2
  <2>8. SingleOwner'
    <3> SUFFICES ASSUME NEW j \in Invocations, Owns(j, k), Owns(i, k)' PROVE j = i
      BY <2>3 DEF SingleOwner
    <3> QED
      BY <1>0, <2>1, <2>4, OwnedNeverExpires DEF Expired, Young
  <2> QED
    BY <1>3, <2>2, <2>7, <2>8 DEF Upsert, Young
<1>4. ASSUME NEW i \in Invocations, NEW k \in Keys, NEW o, Reset(i, k, o) PROVE OwnerInv'
  <2>1. \A j \in Invocations, l \in Keys : Owns(j, l)' => Owns(j, l)
    BY <1>0, <1>4 DEF Reset, To, Owns
  <2>2. \A j \in Invocations : Busy(j)' => Busy(j)
    BY <1>0, <1>4 DEF Reset, To, Busy
  <2>3. \A l \in Keys : table[l] # NoRecord => table'[l] # NoRecord /\ table'[l].ttl = table[l].ttl
    <3>1. table[k] # NoRecord => FirstBy(i, table[k].ttl) \in Records
      BY DEF TypeOK, FirstBy, Records
    <3> QED
      BY <1>0, <1>4, <3>1, ConfigAssumption DEF Reset, FirstBy, ResetHolds, Records
  <2> QED
    BY <1>4, <2>1, <2>2, <2>3 DEF Reset, OwnedIsLive, SingleOwner, Young
<1>5. ASSUME NEW i \in Invocations, NEW k \in Keys, NEW o, Send(i, k, o) PROVE OwnerInv'
  <2>1. \A j \in Invocations, l \in Keys : Owns(j, l)' => Owns(j, l)
    BY <1>0, <1>5 DEF Send, To, Owns
  <2>2. \A j \in Invocations : Busy(j)' => Busy(j)
    BY <1>0, <1>5 DEF Send, To, Busy
  <2> QED
    BY <1>5, <2>1, <2>2 DEF Send, OwnedIsLive, SingleOwner, Young
<1>6. ASSUME NEW i \in Invocations, NEW k \in Keys, NEW o, Compensate(i, k, o) PROVE OwnerInv'
  <2>1. o # "resent"
    BY <1>6 DEF Compensate, Happens
  <2>2. \A j \in Invocations, l \in Keys : Owns(j, l)' => Owns(j, l) /\ ~(j = i /\ l = k)
    BY <1>0, <1>6, <2>1 DEF Compensate, To, Owns
  <2>3. \A j \in Invocations : Busy(j)' => Busy(j)
    BY <1>0, <1>6 DEF Compensate, To, Busy
  <2>4. \A j \in Invocations, l \in Keys : Owns(j, l)' => table'[l] = table[l]
    BY <1>0, <1>6, <2>2 DEF Compensate, Owns, SingleOwner
  <2> QED
    BY <1>6, <2>2, <2>3, <2>4 DEF Compensate, OwnedIsLive, SingleOwner, Young
<1>7. ASSUME NEW i \in Invocations, Die(i) PROVE OwnerInv'
  <2>1. \A j \in Invocations, l \in Keys : Owns(j, l)' => Owns(j, l)
    BY <1>0, <1>7 DEF Die, Owns
  <2>2. \A j \in Invocations : Busy(j)' => Busy(j)
    BY <1>0, <1>7 DEF Die, Busy
  <2> QED
    BY <1>7, <2>1, <2>2 DEF Die, OwnedIsLive, SingleOwner, Young
<1>8. ASSUME NEW k \in Keys, Reap(k) PROVE OwnerInv'
  <2>1. \A j \in Invocations : ~Owns(j, k)
    BY <1>0, <1>8, OwnedNeverExpires DEF Reap
  <2> QED
    BY <1>0, <1>8, <2>1 DEF Reap, Owns, Busy, OwnedIsLive, SingleOwner, Young
<1>9. CASE Tick
  BY <1>0, <1>9 DEF Tick, Owns, Busy, OwnedIsLive, SingleOwner, Young
<1>10. CASE UNCHANGED vars
  BY <1>10 DEF vars, Owns, Busy, OwnedIsLive, SingleOwner, Young
<1> QED
  BY <1>1, <1>2, <1>3, <1>4, <1>5, <1>6, <1>7, <1>8, <1>9, <1>10
     DEF Next, Work, Process, ArchiveBeacon, ArchiveReport, Awaiting

\* One invocation at a time acts on a first sighting of a key, whatever else
\* fails, unless the SDK re-sends a delete that was already applied.
THEOREM OneOwnerPerKey ==
  ASSUME <<"delete", "resent">> \notin Faults
  PROVE  Spec => []SingleOwner
<1>1. Init => OwnerInv
  BY DEF Init, OwnerInv, OwnedIsLive, SingleOwner, Owns, Busy
<1>2. TypeOK /\ TypeOK' /\ OwnerInv /\ [Next]_vars => OwnerInv'
  BY OwnerInvStep
<1>3. OwnerInv => SingleOwner
  BY DEF OwnerInv
<1> QED
  BY <1>1, <1>2, <1>3, TypeCorrect, PTL DEF Spec

(***************************************************************************)
(* WindowRolls: a record's ttl is never beyond now + TtlWindow, and a new  *)
(* one is never more than an invocation's age short of it.                 *)
(***************************************************************************)
TtlInv == \A k \in Keys : table[k] # NoRecord => table[k].ttl <= now + TtlWindow

YoungInv == \A i \in Invocations : Busy(i) => Young(i)

LEMMA UpsertWrites ==
  ASSUME TypeOK, NEW i \in Invocations, NEW k \in Keys, NEW o, Upsert(i, k, o)
  PROVE  \/ table' = table
         \/ /\ table' = [table EXCEPT ![k] = Upserted(i, k)]
            /\ Upserted(i, k) \in Records
            /\ Upserted(i, k).ttl = req[i].at + TtlWindow
            /\ table[k] # NoRecord => Upserted(i, k) = Prolonged(k, req[i].at + TtlWindow)
            /\ table[k] = NoRecord => Upserted(i, k) = FirstBy(i, req[i].at + TtlWindow)
<1>1. Upserted(i, k) \in Records
  BY TimeAssumption DEF TypeOK, Upserted, FirstBy, Prolonged, TtlOf, Records
<1> QED
  BY <1>1 DEF Upsert, Upserted, FirstBy, Prolonged, TtlOf

\* A reset leaves ttl as the upsert wrote it.
LEMMA ResetWrites ==
  ASSUME TypeOK, NEW i \in Invocations, NEW k \in Keys, NEW o, Reset(i, k, o)
  PROVE  \/ table' = table
         \/ /\ table[k] # NoRecord
            /\ table' = [table EXCEPT ![k] = FirstBy(i, table[k].ttl)]
            /\ FirstBy(i, table[k].ttl) \in Records
            /\ FirstBy(i, table[k].ttl).ttl = table[k].ttl
<1>1. table[k] # NoRecord => FirstBy(i, table[k].ttl) \in Records
  BY DEF TypeOK, FirstBy, Records
<1> QED
  BY <1>1 DEF Reset, ResetHolds, FirstBy

\* No other step writes a record; it can only delete one.
LEMMA OtherWrites ==
  ASSUME TypeOK, [Next]_vars
  PROVE  \/ table' = table
         \/ \E k \in Keys : table' = [table EXCEPT ![k] = NoRecord]
         \/ \E i \in Invocations, k \in Keys, o \in Outcomes \cup {"ok"} :
              Upsert(i, k, o) \/ Reset(i, k, o)
BY DEF Next, Receive, Work, Process, ArchiveBeacon, ArchiveReport, Archive, Send,
       Compensate, Die, Reap, Tick, vars

LEMMA YoungStep ==
  ASSUME TypeOK, YoungInv, [Next]_vars
  PROVE  YoungInv'
<1> SUFFICES ASSUME NEW j \in Invocations, Busy(j)' PROVE Young(j)'
  BY DEF YoungInv
<1> USE TimeAssumption
<1>0. /\ now \in Int
      /\ \A i \in Invocations : req[i].at \in Int
      /\ stage \in [Invocations -> [Keys -> Stages]]
      /\ req \in [Invocations -> [at : Int, route : Routes, path : {"beacon", "csp"}]]
  BY DEF TypeOK
<1>1. ASSUME NEW i \in Invocations, NEW r \in Requests, Receive(i, r) PROVE Young(j)'
  BY <1>0, <1>1 DEF Receive, Busy, Young, YoungInv
<1>2. ASSUME NEW i \in Invocations, NEW o, Process(i, o) PROVE Young(j)'
  <2>1. req' = req /\ now' = now
    BY <1>2 DEF Process, ArchiveBeacon, ArchiveReport, Archive, Upsert, Reset, Send, Compensate
  <2>2. Busy(j)
    BY <1>0, <1>2 DEF Process, ArchiveBeacon, ArchiveReport, Archive, Upsert, Reset, Send,
                      Compensate, Busy, Awaiting, To
  <2> QED
    BY <2>1, <2>2 DEF YoungInv, Young
<1>3. CASE \E i \in Invocations : Die(i)
  BY <1>0, <1>3 DEF Die, Busy, Young, YoungInv
<1>4. CASE (\E k \in Keys : Reap(k)) \/ Tick \/ UNCHANGED vars
  BY <1>0, <1>4 DEF Reap, Tick, vars, Busy, Young, YoungInv
<1> QED
  BY <1>1, <1>2, <1>3, <1>4 DEF Next, Work

LEMMA TtlStep ==
  ASSUME TypeOK, TypeOK', YoungInv, TtlInv, [Next]_vars
  PROVE  TtlInv'
<1> SUFFICES ASSUME NEW l \in Keys, table'[l] # NoRecord PROVE table'[l].ttl <= now' + TtlWindow
  BY DEF TtlInv
<1> USE TimeAssumption DEF TtlInv
<1>0. /\ now \in Int /\ now' \in Int /\ table'[l].ttl \in Int
      /\ \A i \in Invocations : req[i].at \in Int
      /\ table \in [Keys -> Records \cup {NoRecord}]
  BY DEF TypeOK, Records
<1>1. now <= now'
  BY <1>0 DEF Next, Receive, Work, Process, ArchiveBeacon, ArchiveReport, Archive, Upsert,
              Reset, Send, Compensate, Die, Reap, Tick, vars
<1>2. ASSUME NEW i \in Invocations, NEW k \in Keys, NEW o, Upsert(i, k, o)
      PROVE table'[l].ttl <= now' + TtlWindow
  <2>1. Young(i)
    BY <1>2 DEF Upsert, Busy, YoungInv
  <2> QED
    BY <1>0, <1>1, <1>2, <2>1, UpsertWrites DEF Young
<1>3. ASSUME NEW i \in Invocations, NEW k \in Keys, NEW o, Reset(i, k, o)
      PROVE table'[l].ttl <= now' + TtlWindow
  BY <1>0, <1>1, <1>3, ResetWrites
<1>4. CASE table' = table \/ \E k \in Keys : table' = [table EXCEPT ![k] = NoRecord]
  BY <1>0, <1>1, <1>4
<1> QED
  BY <1>2, <1>3, <1>4, OtherWrites

\* A record that is kept is prolonged: no step, late or repeated, takes more
\* than an invocation's age off the time at which it expires.
THEOREM WindowsRoll == Spec => WindowRolls
<1>1. Init => YoungInv /\ TtlInv
  BY DEF Init, YoungInv, TtlInv, Busy
<1>2. TypeOK /\ TypeOK' /\ YoungInv /\ TtlInv /\ [Next]_vars => YoungInv' /\ TtlInv'
  BY YoungStep, TtlStep
<1>3. TypeOK /\ TypeOK' /\ YoungInv /\ TtlInv /\ [Next]_vars
        => [\A k \in Keys :
              table[k] # NoRecord /\ table'[k] # NoRecord /\ now < table[k].ttl
                => table'[k].ttl >= table[k].ttl - LambdaTimeout]_vars
  <2> SUFFICES ASSUME TypeOK, TypeOK', YoungInv, TtlInv, [Next]_vars, NEW l \in Keys,
                      table[l] # NoRecord, table'[l] # NoRecord, now < table[l].ttl
               PROVE  table'[l].ttl >= table[l].ttl - LambdaTimeout
    OBVIOUS
  <2> USE TimeAssumption
  <2>0. /\ now \in Int /\ table[l].ttl \in Int /\ table'[l].ttl \in Int
        /\ \A i \in Invocations : req[i].at \in Int
        /\ table \in [Keys -> Records \cup {NoRecord}]
    BY DEF TypeOK, Records
  <2>1. ASSUME NEW i \in Invocations, NEW k \in Keys, NEW o, Upsert(i, k, o)
        PROVE table'[l].ttl >= table[l].ttl - LambdaTimeout
    <3>1. Young(i)
      BY <2>1 DEF Upsert, Busy, YoungInv
    <3> QED
      BY <2>0, <2>1, <3>1, UpsertWrites DEF Young, TtlInv
  <2>2. ASSUME NEW i \in Invocations, NEW k \in Keys, NEW o, Reset(i, k, o)
        PROVE table'[l].ttl >= table[l].ttl - LambdaTimeout
    BY <2>0, <2>2, ResetWrites
  <2>3. CASE table' = table \/ \E k \in Keys : table' = [table EXCEPT ![k] = NoRecord]
    BY <2>0, <2>3
  <2> QED
    BY <2>1, <2>2, <2>3, OtherWrites
<1> QED
  BY <1>1, <1>2, <1>3, TypeCorrect, PTL DEF Spec, WindowRolls

(***************************************************************************)
(* SentWasArchived: past the archive stage, the entry is in the archive.   *)
(***************************************************************************)
PastArchive(i, k) == stage[i][k] \notin {"idle", "archive"}

ArchiveInv ==
  /\ SentWasArchived
  /\ \A i \in Invocations, k \in Keys : PastArchive(i, k) => Entry(i, k) \in archive

\* Nothing is enqueued that was not archived first, whatever fails.
THEOREM ArchiveComesFirst == Spec => []SentWasArchived
<1>1. Init => ArchiveInv
  BY DEF Init, ArchiveInv, SentWasArchived, PastArchive
<1>2. TypeOK /\ ArchiveInv /\ [Next]_vars => ArchiveInv'
  <2> SUFFICES ASSUME TypeOK, ArchiveInv, [Next]_vars PROVE ArchiveInv'
    OBVIOUS
  <2> USE DEF ArchiveInv, SentWasArchived, PastArchive, Entry
  <2>0. /\ stage \in [Invocations -> [Keys -> Stages]]
        /\ req \in [Invocations -> [at : Int, route : Routes, path : {"beacon", "csp"}]]
    BY DEF TypeOK
  <2>1. ASSUME NEW i \in Invocations, NEW r \in Requests, Receive(i, r) PROVE ArchiveInv'
    BY <2>0, <2>1 DEF Receive, Busy
  <2>2. ASSUME NEW i \in Invocations, NEW ks \in SUBSET Keys, NEW o, Archive(i, ks, o)
        PROVE ArchiveInv'
    <3>1. \A j \in Invocations, l \in Keys :
            (j # i \/ l \notin ks) => stage'[j][l] = stage[j][l]
      BY <2>0, <2>2 DEF Archive
    <3>2. \A l \in ks : stage'[i][l] \notin {"idle", "archive"} => Entry(i, l) \in archive'
      BY <2>0, <2>2 DEF Archive, Applied
    <3> QED
      BY <2>2, <3>1, <3>2 DEF Archive
  <2>3. ASSUME NEW i \in Invocations, NEW k \in Keys, NEW o, Upsert(i, k, o) PROVE ArchiveInv'
    BY <2>0, <2>3 DEF Upsert, To
  <2>4. ASSUME NEW i \in Invocations, NEW k \in Keys, NEW o, Reset(i, k, o) PROVE ArchiveInv'
    BY <2>0, <2>4 DEF Reset, To
  <2>5. ASSUME NEW i \in Invocations, NEW k \in Keys, NEW o, Send(i, k, o) PROVE ArchiveInv'
    BY <2>0, <2>5 DEF Send, To
  <2>6. ASSUME NEW i \in Invocations, NEW k \in Keys, NEW o, Compensate(i, k, o) PROVE ArchiveInv'
    BY <2>0, <2>6 DEF Compensate, To
  <2>7. ASSUME NEW i \in Invocations, Die(i) PROVE ArchiveInv'
    BY <2>0, <2>7 DEF Die
  <2>8. CASE (\E k \in Keys : Reap(k)) \/ Tick \/ UNCHANGED vars
    BY <2>8 DEF Reap, Tick, vars
  <2> QED
    BY <2>1, <2>2, <2>3, <2>4, <2>5, <2>6, <2>7, <2>8
       DEF Next, Work, Process, ArchiveBeacon, ArchiveReport, Awaiting
<1>3. ArchiveInv => SentWasArchived
  BY DEF ArchiveInv
<1> QED
  BY <1>1, <1>2, <1>3, TypeCorrect, PTL DEF Spec

(***************************************************************************)
(* RecordsAreQueued.  Besides the property itself the invariant says that  *)
(* the owner of a key knows its record: a resetting owner still holds the  *)
(* first_seen its upsert returned, so its condition cannot fail, and a     *)
(* sending owner's record is its own sighting.                             *)
(***************************************************************************)
KeyInv(k) ==
  /\ table[k] # NoRecord => Queued(k) \/ \E i \in Invocations : Owns(i, k)
  /\ k \in revived => table[k] # NoRecord
  /\ \A i \in Invocations : stage[i][k] = "reset" => table[k].firstSeen = prior[i][k]
  /\ \A i \in Invocations : stage[i][k] = "send" =>
       k \notin revived /\ table[k].firstSeen = req[i].at /\ table[k].firstRoute = req[i].route

QueueInv == \A k \in Keys : KeyInv(k)

NothingLoses == Faults \cap LosingFaults = {} /\ <<"delete", "resent">> \notin Faults

\* A key is undisturbed by a step that leaves its record and its owners alone.
LEMMA KeyFrame ==
  ASSUME NEW l \in Keys, KeyInv(l),
         table'[l] = table[l], l \in revived' <=> l \in revived, sent \subseteq sent',
         \A j \in Invocations :
           \/ stage'[j][l] = stage[j][l] /\ prior'[j][l] = prior[j][l] /\ req'[j] = req[j]
           \/ ~Owns(j, l) /\ ~Owns(j, l)'
  PROVE  KeyInv(l)'
<1>1. table'[l] # NoRecord => Queued(l)' \/ \E j \in Invocations : Owns(j, l)'
  <2>1. Queued(l) => Queued(l)'
    BY DEF Queued
  <2>2. \A j \in Invocations : Owns(j, l) => Owns(j, l)'
    BY DEF Owns
  <2> QED
    BY <2>1, <2>2 DEF KeyInv
<1>2. l \in revived' => table'[l] # NoRecord
  BY DEF KeyInv
<1>3. \A j \in Invocations : stage'[j][l] = "reset" => table'[l].firstSeen = prior'[j][l]
  BY DEF KeyInv, Owns
<1>4. \A j \in Invocations : stage'[j][l] = "send" =>
        l \notin revived' /\ table'[l].firstSeen = req'[j].at /\ table'[l].firstRoute = req'[j].route
  BY DEF KeyInv, Owns
<1> QED
  BY <1>1, <1>2, <1>3, <1>4 DEF KeyInv

LEMMA QueueInvStep ==
  ASSUME NothingLoses, TypeOK, OwnerInv, QueueInv, [Next]_vars
  PROVE  QueueInv'
<1> USE DEF NothingLoses, LosingFaults, QueueInv
<1>0. /\ stage \in [Invocations -> [Keys -> Stages]]
      /\ prior \in [Invocations -> [Keys -> Int]]
      /\ req \in [Invocations -> [at : Int, route : Routes, path : {"beacon", "csp"}]]
      /\ table \in [Keys -> Records \cup {NoRecord}]
  BY DEF TypeOK
<1>1. ASSUME NEW i \in Invocations, NEW r \in Requests, Receive(i, r) PROVE QueueInv'
  <2>1. \A j \in Invocations, k \in Keys :
          \/ stage'[j][k] = stage[j][k] /\ req'[j] = req[j]
          \/ ~Owns(j, k) /\ ~Owns(j, k)'
    BY <1>0, <1>1 DEF Receive, Busy, Owns
  <2> QED
    BY <1>1, <2>1, KeyFrame DEF Receive
<1>2. ASSUME NEW i \in Invocations, NEW ks \in SUBSET Keys, NEW o,
             ks \subseteq Awaiting(i), Archive(i, ks, o)
      PROVE QueueInv'
  <2>1. \A j \in Invocations, k \in Keys :
          stage'[j][k] = stage[j][k] \/ (~Owns(j, k) /\ ~Owns(j, k)')
    BY <1>0, <1>2 DEF Archive, Awaiting, Owns
  <2> QED
    BY <1>2, <2>1, KeyFrame DEF Archive
<1>3. ASSUME NEW i \in Invocations, NEW k \in Keys, NEW o, Upsert(i, k, o) PROVE QueueInv'
  <2>1. \A l \in Keys : l # k => KeyInv(l)'
    BY <1>0, <1>3, KeyFrame DEF Upsert, To
  <2>2. \A j \in Invocations : j # i =>
          stage'[j][k] = stage[j][k] /\ prior'[j][k] = prior[j][k] /\ req'[j] = req[j]
    BY <1>0, <1>3 DEF Upsert, To
  <2>3. CASE o # "ok"
    <3>1. table' = table /\ revived' = revived /\ sent' = sent /\ ~Applied(o)
      BY <1>3, <2>3 DEF Upsert, Applied, Happens
    <3>2. ~Owns(i, k) /\ ~Owns(i, k)'
      BY <1>0, <1>3, <3>1 DEF Upsert, To, Applied, Owns
    <3> QED
      BY <2>1, <2>2, <3>1, <3>2, KeyFrame
  <2>4. CASE o = "ok"
    <3>0. /\ stage[i][k] = "upsert" /\ stage'[i][k] = Verdict(i, k)
          /\ table'[k] = Upserted(i, k)
          /\ sent' = sent /\ req' = req
          /\ revived' = IF Expired(i, k) THEN revived \cup {k} ELSE revived
          /\ prior'[i][k] = IF Expired(i, k) THEN table[k].firstSeen ELSE prior[i][k]
      BY <1>0, <1>3, <2>4 DEF Upsert, To, Applied
    <3>1. CASE table[k] = NoRecord
      <4>1. \A j \in Invocations : ~Owns(j, k)
        BY <3>1 DEF OwnerInv, OwnedIsLive
      <4>2. /\ stage'[i][k] = "send" /\ k \notin revived'
            /\ table'[k].firstSeen = req'[i].at /\ table'[k].firstRoute = req'[i].route
        BY <3>0, <3>1 DEF Verdict, Upserted, FirstBy, Expired, KeyInv
      <4>3. \A j \in Invocations : j # i => ~Owns(j, k)'
        BY <2>2, <4>1 DEF Owns
      <4>4. KeyInv(k)'
        BY <4>2, <4>3 DEF KeyInv, Owns
      <4> QED
        BY <2>1, <4>4
    <3>2. CASE Expired(i, k)
      <4>1. \A j \in Invocations : ~Owns(j, k)
        BY <3>0, <3>2, ExpiredIsNotOwned DEF Busy
      <4>2. /\ stage'[i][k] = "reset" /\ table'[k].firstSeen = table[k].firstSeen
            /\ prior'[i][k] = table[k].firstSeen
        BY <3>0, <3>2 DEF Verdict, Upserted, Prolonged, Expired
      <4>3. \A j \in Invocations : j # i => ~Owns(j, k)'
        BY <2>2, <4>1 DEF Owns
      <4>4. table'[k] # NoRecord
        BY <3>0, ConfigAssumption, TimeAssumption, <1>0
           DEF Upserted, FirstBy, Prolonged, TtlOf, Records
      <4>5. KeyInv(k)'
        BY <4>2, <4>3, <4>4 DEF KeyInv, Owns
      <4> QED
        BY <2>1, <4>5
    <3>3. CASE table[k] # NoRecord /\ ~Expired(i, k)
      <4>1. /\ ~Owns(i, k) /\ ~Owns(i, k)' /\ revived' = revived
            /\ table'[k].firstSeen = table[k].firstSeen /\ table'[k].firstRoute = table[k].firstRoute
        BY <3>0, <3>3 DEF Verdict, Upserted, Prolonged, Expired, Owns
      <4>2. table'[k] # NoRecord
        BY <3>0, ConfigAssumption, TimeAssumption, <1>0
           DEF Upserted, FirstBy, Prolonged, TtlOf, Records
      <4>3. \A j \in Invocations : Owns(j, k)' <=> Owns(j, k)
        BY <2>2, <4>1 DEF Owns
      <4>4. Queued(k) => Queued(k)'
        BY <3>0, <4>1 DEF Queued
      <4>5. table'[k] # NoRecord => Queued(k)' \/ \E j \in Invocations : Owns(j, k)'
        BY <3>3, <4>3, <4>4 DEF KeyInv
      <4>6. \A j \in Invocations : stage'[j][k] = "reset" => table'[k].firstSeen = prior'[j][k]
        BY <2>2, <4>1 DEF KeyInv, Owns
      <4>7. \A j \in Invocations : stage'[j][k] = "send" =>
              /\ k \notin revived' /\ table'[k].firstSeen = req'[j].at
              /\ table'[k].firstRoute = req'[j].route
        BY <2>2, <4>1 DEF KeyInv, Owns
      <4> QED
        BY <2>1, <4>2, <4>5, <4>6, <4>7 DEF KeyInv
    <3> QED
      BY <3>1, <3>2, <3>3
  <2> QED
    BY <2>3, <2>4
<1>4. ASSUME NEW i \in Invocations, NEW k \in Keys, NEW o, Reset(i, k, o) PROVE QueueInv'
  <2>1. \A l \in Keys : l # k => KeyInv(l)'
    BY <1>0, <1>4, KeyFrame DEF Reset, To
  <2>2. Owns(i, k) /\ \A j \in Invocations : j # i => ~Owns(j, k) /\ stage'[j][k] = stage[j][k]
    BY <1>0, <1>4 DEF Reset, Owns, OwnerInv, SingleOwner, To
  <2>3. ResetHolds(i, k)
    BY <1>4, <2>2 DEF Reset, ResetHolds, OwnerInv, OwnedIsLive, KeyInv
  <2>4. o # "resent"
    <3>1. <<"reset", "resent">> \notin Faults
      OBVIOUS
    <3> QED
      BY <1>4, <3>1 DEF Reset, Happens
  <2>5. Owns(i, k)' /\ stage'[i][k] # "reset"
    <3>1. stage'[i][k] = IF o = "ok" THEN "send" ELSE "compensate"
      BY <1>0, <1>4, <2>3, <2>4 DEF Reset, To
    <3> QED
      BY <3>1 DEF Owns
  <2>6. stage'[i][k] = "send" =>
          /\ k \notin revived' /\ table'[k].firstSeen = req'[i].at
          /\ table'[k].firstRoute = req'[i].route
    BY <1>0, <1>4, <2>3, <2>4 DEF Reset, To, Applied, FirstBy
  <2>7. table'[k] # NoRecord
    BY <1>0, <1>4, <2>3, ConfigAssumption DEF Reset, FirstBy, ResetHolds, Records
  <2>8. KeyInv(k)'
    BY <2>2, <2>5, <2>6, <2>7 DEF KeyInv, Owns
  <2> QED
    BY <2>1, <2>8
<1>5. ASSUME NEW i \in Invocations, NEW k \in Keys, NEW o, Send(i, k, o) PROVE QueueInv'
  <2>1. \A l \in Keys : l # k => KeyInv(l)'
    BY <1>0, <1>5, KeyFrame DEF Send, To
  <2>2. Owns(i, k) /\ \A j \in Invocations : j # i => ~Owns(j, k) /\ stage'[j][k] = stage[j][k]
    BY <1>0, <1>5 DEF Send, Owns, OwnerInv, SingleOwner, To
  <2>3. stage'[i][k] # "reset"
    BY <1>0, <1>5 DEF Send, To
  <2>4. Owns(i, k)' \/ Queued(k)'
    BY <1>0, <1>5 DEF Send, To, Owns, Queued, Entry, Applied, KeyInv
  <2>5. stage[i][k] = "send" /\ req' = req /\ table' = table /\ revived' = revived
    BY <1>5 DEF Send
  <2>6. KeyInv(k)'
    BY <2>2, <2>3, <2>4, <2>5 DEF KeyInv, Owns
  <2> QED
    BY <2>1, <2>6
<1>6. ASSUME NEW i \in Invocations, NEW k \in Keys, NEW o, Compensate(i, k, o), o \in Outcomes \cup {"ok"}
      PROVE QueueInv'
  <2>1. \A l \in Keys : l # k => KeyInv(l)'
    BY <1>0, <1>6, KeyFrame DEF Compensate, To
  <2>2. Applied(o) /\ o # "resent"
    BY <1>6 DEF Compensate, Happens, Applied, Outcomes
  <2>3. \A j \in Invocations : j # i => ~Owns(j, k) /\ stage'[j][k] = stage[j][k]
    BY <1>0, <1>6 DEF Compensate, Owns, OwnerInv, SingleOwner, To
  <2>4. stage'[i][k] = "idle" /\ table'[k] = NoRecord /\ k \notin revived'
    BY <1>0, <1>6, <2>2 DEF Compensate, To
  <2>5. KeyInv(k)'
    BY <2>3, <2>4 DEF KeyInv, Owns
  <2> QED
    BY <2>1, <2>5
<1>7. ASSUME NEW i \in Invocations, Die(i) PROVE QueueInv'
  <2>1. \A k \in Keys : ~Owns(i, k)
    BY <1>7 DEF Die, Owns
  <2>2. \A k \in Keys : ~Owns(i, k)'
    BY <1>0, <1>7 DEF Die, Owns
  <2>3. \A j \in Invocations : j # i => stage'[j] = stage[j]
    BY <1>0, <1>7 DEF Die
  <2> QED
    BY <1>7, <2>1, <2>2, <2>3, KeyFrame DEF Die
<1>8. ASSUME NEW k \in Keys, Reap(k) PROVE QueueInv'
  <2>1. \A l \in Keys : l # k => KeyInv(l)'
    BY <1>0, <1>8, KeyFrame DEF Reap
  <2>2. \A j \in Invocations : ~Owns(j, k)
    <3>1. now \in Int /\ table[k].ttl \in Int /\ table[k].ttl <= now
      BY <1>8 DEF Reap, TypeOK, Records
    <3> QED
      BY <3>1, OwnedNeverExpires
  <2>3. table'[k] = NoRecord /\ k \notin revived' /\ stage' = stage
    BY <1>0, <1>8 DEF Reap
  <2>4. KeyInv(k)'
    BY <2>2, <2>3 DEF KeyInv, Owns
  <2> QED
    BY <2>1, <2>4
<1>9. CASE Tick \/ UNCHANGED vars
  BY <1>9, KeyFrame DEF Tick, vars
<1> QED
  BY <1>1, <1>2, <1>3, <1>4, <1>5, <1>6, <1>7, <1>8, <1>9
     DEF Next, Work, Process, ArchiveBeacon, ArchiveReport, Awaiting

\* With no lost upsert response, no SDK retry of an applied write, no failed
\* compensation and no death of an invocation that is acting on a first
\* sighting, a record never suppresses a key without a message.
THEOREM NoKeyIsSilenced ==
  ASSUME NothingLoses
  PROVE  Spec => []RecordsAreQueued
<1>1. Init => OwnerInv /\ QueueInv
  BY DEF Init, OwnerInv, OwnedIsLive, SingleOwner, Owns, Busy, QueueInv, KeyInv
<1>2. TypeOK /\ TypeOK' /\ OwnerInv /\ QueueInv /\ [Next]_vars => OwnerInv' /\ QueueInv'
  BY OwnerInvStep, QueueInvStep DEF NothingLoses
<1>3. QueueInv => RecordsAreQueued
  BY DEF QueueInv, KeyInv, RecordsAreQueued
<1> QED
  BY <1>1, <1>2, <1>3, TypeCorrect, PTL DEF Spec

(***************************************************************************)
(* OneMessagePerWindow.  A message protects its key: until a window less   *)
(* an invocation's age has passed, a record that expires no earlier is in  *)
(* the table, and nobody is about to send another.                         *)
(***************************************************************************)
FreshUntil(m) == m.at + TtlWindow - LambdaTimeout

Protected(m) == table[m.key] # NoRecord /\ table[m.key].ttl >= FreshUntil(m)

MessageInv ==
  /\ OneMessagePerWindow
  /\ \A m \in sent : m.at <= now
  /\ \A m \in sent : now >= FreshUntil(m) \/ Protected(m)
  /\ \A i \in Invocations, m \in sent : Owns(i, m.key) => now >= FreshUntil(m)

NothingDuplicates == Faults \cap DuplicatingFaults = {}

LEMMA MessageInvStep ==
  ASSUME NothingDuplicates, TypeOK, TypeOK', OwnerInv, OwnerInv', MessageInv, [Next]_vars
  PROVE  MessageInv'
<1> USE TimeAssumption DEF MessageInv
<1>0. /\ stage \in [Invocations -> [Keys -> Stages]]
      /\ table \in [Keys -> Records \cup {NoRecord}]
      /\ \A i \in Invocations : req[i].at \in Int
      /\ \A k \in Keys : table[k] # NoRecord => table[k].ttl \in Int
      /\ now \in Int /\ now' \in Int
      /\ \A m \in sent : m.key \in Keys /\ m.at \in Int /\ FreshUntil(m) \in Int
  BY DEF TypeOK, Records, Messages, FreshUntil
<1>a. ASSUME sent' = sent, now' = now,
             \A m \in sent : now >= FreshUntil(m) \/ Protected(m)',
             \A i \in Invocations, m \in sent : Owns(i, m.key)' => now >= FreshUntil(m)
      PROVE MessageInv'
  <2>1. OneMessagePerWindow' /\ \A m \in sent' : m.at <= now'
    BY <1>a DEF OneMessagePerWindow
  <2>2. \A m \in sent' : (now >= FreshUntil(m))' \/ Protected(m)'
    BY <1>a DEF FreshUntil
  <2>3. \A i \in Invocations, m \in sent' : Owns(i, m.key)' => (now >= FreshUntil(m))'
    BY <1>a DEF FreshUntil
  <2> QED
    BY <2>1, <2>2, <2>3
<1>1. ASSUME sent' = sent, now' = now,
             \A m \in sent : table'[m.key] = table[m.key],
             \A i \in Invocations, k \in Keys : Owns(i, k)' => Owns(i, k)
      PROVE MessageInv'
  BY <1>0, <1>1, <1>a DEF Protected, FreshUntil
<1>2. ASSUME NEW i \in Invocations, NEW r \in Requests, Receive(i, r) PROVE MessageInv'
  <2>1. \A j \in Invocations, k \in Keys : Owns(j, k)' => Owns(j, k)
    BY <1>0, <1>2 DEF Receive, Owns, Busy
  <2> QED
    BY <1>1, <1>2, <2>1 DEF Receive
<1>3. ASSUME NEW i \in Invocations, NEW ks \in SUBSET Keys, NEW o, Archive(i, ks, o)
      PROVE MessageInv'
  <2>1. \A j \in Invocations, k \in Keys : Owns(j, k)' => Owns(j, k)
    BY <1>0, <1>3 DEF Archive, Owns
  <2> QED
    BY <1>1, <1>3, <2>1 DEF Archive
<1>4. ASSUME NEW i \in Invocations, NEW k \in Keys, NEW o, Upsert(i, k, o) PROVE MessageInv'
  <2>1. Young(i)
    BY <1>4 DEF Upsert, Busy, OwnerInv
  <2>2. now' = now /\ sent' = sent
    BY <1>4 DEF Upsert
  <2>3. \A m \in sent : Protected(m) => Protected(m)'
    <3> SUFFICES ASSUME NEW m \in sent, Protected(m) PROVE Protected(m)'
      OBVIOUS
    <3>1. m.at <= now
      OBVIOUS
    <3>2. Upserted(i, k) # NoRecord
      BY ConfigAssumption DEF TypeOK, Upserted, FirstBy, Prolonged, TtlOf, Records
    <3> QED
      BY <1>0, <1>4, <2>1, <3>1, <3>2, UpsertWrites DEF Protected, FreshUntil, Young
  <2>4. \A j \in Invocations, l \in Keys : Owns(j, l)' => Owns(j, l) \/ (j = i /\ l = k)
    BY <1>0, <1>4 DEF Upsert, To, Owns
  <2>5. Owns(i, k)' => table[k] = NoRecord \/ Expired(i, k)
    BY <1>0, <1>4 DEF Upsert, To, Owns, Verdict
  <2>6. ASSUME NEW m \in sent, m.key = k, Owns(i, k)' PROVE now >= FreshUntil(m)
    <3>1. table[k] # NoRecord => table[k].ttl <= now
      BY <1>0, <2>1, <2>5, <2>6 DEF Expired, Young
    <3>2. now >= FreshUntil(m) \/ Protected(m)
      OBVIOUS
    <3> QED
      BY <1>0, <2>6, <3>1, <3>2 DEF Protected
  <2> QED
    BY <1>0, <1>a, <2>2, <2>3, <2>4, <2>6
<1>5. ASSUME NEW i \in Invocations, NEW k \in Keys, NEW o, Reset(i, k, o) PROVE MessageInv'
  <2>1. \A j \in Invocations, l \in Keys : Owns(j, l)' => Owns(j, l)
    BY <1>0, <1>5 DEF Reset, To, Owns
  <2>2. \A m \in sent : Protected(m) => Protected(m)'
    BY <1>0, <1>5, ResetWrites, ConfigAssumption DEF Protected, FreshUntil, Records
  <2> QED
    BY <1>0, <1>a, <1>5, <2>1, <2>2 DEF Reset
<1>6. ASSUME NEW i \in Invocations, NEW k \in Keys, NEW o, Send(i, k, o) PROVE MessageInv'
  <2>1. Owns(i, k) /\ Young(i) /\ table[k] # NoRecord
        /\ table[k].ttl >= req[i].at + TtlWindow - LambdaTimeout
    BY <1>6 DEF Send, Owns, Busy, OwnerInv, OwnedIsLive
  <2>2. \A j \in Invocations, l \in Keys : Owns(j, l)' => Owns(j, l)
    BY <1>0, <1>6 DEF Send, To, Owns
  <2>3. CASE ~Applied(o)
    BY <1>1, <1>6, <2>2, <2>3 DEF Send
  <2>4. CASE Applied(o)
    <3>1. o = "ok"
      <4>1. <<"send", "lost">> \notin Faults /\ <<"send", "resent">> \notin Faults
        BY DEF NothingDuplicates, DuplicatingFaults
      <4> QED
        BY <1>6, <2>4, <4>1 DEF Send, Happens, Applied
    <3>2. \A j \in Invocations : ~Owns(j, k)'
      BY <1>0, <1>6, <2>1, <2>2, <3>1 DEF Send, To, Owns, OwnerInv, SingleOwner
    <3>3. /\ sent' = sent \cup {Entry(i, k)} /\ now' = now /\ table' = table
          /\ Entry(i, k).key = k /\ Entry(i, k).at = req[i].at
      BY <1>6, <2>4 DEF Send, Entry
    <3>4. \A m \in sent : m.key = k => req[i].at >= m.at + TtlWindow - 2 * LambdaTimeout
      BY <1>0, <2>1 DEF FreshUntil, Young
    <3>5. OneMessagePerWindow'
      BY <3>3, <3>4 DEF OneMessagePerWindow
    <3>6. \A m \in sent' : m.at <= now'
      BY <2>1, <3>3 DEF Young
    <3>7. \A m \in sent' : now' >= FreshUntil(m) \/ Protected(m)'
      BY <1>0, <2>1, <3>3 DEF Protected, FreshUntil
    <3>8. \A j \in Invocations, m \in sent' : Owns(j, m.key)' => now' >= FreshUntil(m)
      BY <1>0, <2>2, <3>2, <3>3
    <3> QED
      BY <3>5, <3>6, <3>7, <3>8 DEF FreshUntil
  <2> QED
    BY <2>3, <2>4
<1>7. ASSUME NEW i \in Invocations, NEW k \in Keys, NEW o, Compensate(i, k, o) PROVE MessageInv'
  <2>1. Owns(i, k)
    BY <1>7 DEF Compensate, Owns
  <2>2. \A j \in Invocations, l \in Keys : Owns(j, l)' => Owns(j, l)
    BY <1>0, <1>7 DEF Compensate, To, Owns
  <2>3. \A m \in sent : now >= FreshUntil(m) \/ Protected(m)'
    BY <1>0, <1>7, <2>1 DEF Compensate, Protected, FreshUntil
  <2> QED
    BY <1>0, <1>a, <1>7, <2>2, <2>3 DEF Compensate
<1>8. ASSUME NEW i \in Invocations, Die(i) PROVE MessageInv'
  <2>1. \A j \in Invocations, k \in Keys : Owns(j, k)' => Owns(j, k)
    BY <1>0, <1>8 DEF Die, Owns
  <2> QED
    BY <1>1, <1>8, <2>1 DEF Die
<1>9. ASSUME NEW k \in Keys, Reap(k) PROVE MessageInv'
  <2>1. \A m \in sent : now >= FreshUntil(m) \/ Protected(m)'
    BY <1>0, <1>9 DEF Reap, Protected, FreshUntil
  <2> QED
    BY <1>0, <1>a, <1>9, <2>1 DEF Reap, Owns
<1>10. CASE Tick
  BY <1>0, <1>10 DEF Tick, OneMessagePerWindow, Protected, FreshUntil, Owns
<1>11. CASE UNCHANGED vars
  BY <1>1, <1>11 DEF vars, Owns
<1> QED
  BY <1>2, <1>3, <1>4, <1>5, <1>6, <1>7, <1>8, <1>9, <1>10, <1>11
     DEF Next, Work, Process, ArchiveBeacon, ArchiveReport, Awaiting

\* A window yields one message, however invocations interleave, crash, fail or
\* meet the reaper, unless a call that succeeded is reported or sent again.
THEOREM OneMessageEach ==
  ASSUME NothingDuplicates
  PROVE  Spec => []OneMessagePerWindow
<1>1. Init => OwnerInv /\ MessageInv
  BY DEF Init, OwnerInv, OwnedIsLive, SingleOwner, Owns, Busy, MessageInv, OneMessagePerWindow
<1>2. TypeOK /\ TypeOK' /\ OwnerInv /\ MessageInv /\ [Next]_vars => OwnerInv' /\ MessageInv'
  <2>1. <<"delete", "resent">> \notin Faults
    BY DEF NothingDuplicates, DuplicatingFaults
  <2> QED
    BY <2>1, OwnerInvStep, MessageInvStep
<1>3. MessageInv => OneMessagePerWindow
  BY DEF MessageInv
<1> QED
  BY <1>1, <1>2, <1>3, TypeCorrect, PTL DEF Spec

(***************************************************************************)
(* The refinement of NoveltyWindow.  The mapping reads the window of a key *)
(* off its owner while the record of that key is revived, so the owner and *)
(* the record have to agree on whose sighting it is.                       *)
(***************************************************************************)
ClaimInv ==
  \A i \in Invocations, k \in Keys :
    /\ stage[i][k] = "reset" => k \in revived
    /\ stage[i][k] = "compensate" /\ k \notin revived =>
         table[k].firstSeen = req[i].at /\ table[k].firstRoute = req[i].route

LEMMA ClaimInvStep ==
  ASSUME NothingLoses, NothingDuplicates, TypeOK, OwnerInv, QueueInv, ClaimInv, [Next]_vars
  PROVE  ClaimInv'
<1> USE DEF ClaimInv
<1>0. /\ stage \in [Invocations -> [Keys -> Stages]]
      /\ req \in [Invocations -> [at : Int, route : Routes, path : {"beacon", "csp"}]]
      /\ table \in [Keys -> Records \cup {NoRecord}]
  BY DEF TypeOK
<1>1. ASSUME NEW i \in Invocations, NEW r \in Requests, Receive(i, r) PROVE ClaimInv'
  <2>1. \A j \in Invocations, k \in Keys :
          \/ stage'[j][k] = stage[j][k] /\ req'[j] = req[j]
          \/ stage'[j][k] \in {"archive", "idle"}
    BY <1>0, <1>1 DEF Receive
  <2> QED
    BY <1>1, <2>1 DEF Receive
<1>2. ASSUME NEW i \in Invocations, NEW ks \in SUBSET Keys, NEW o, Archive(i, ks, o) PROVE ClaimInv'
  <2>1. \A j \in Invocations, k \in Keys : stage'[j][k] = stage[j][k] \/ stage'[j][k] \in {"upsert", "archive", "idle"}
    BY <1>0, <1>2 DEF Archive
  <2> QED
    BY <1>2, <2>1 DEF Archive
<1>3. ASSUME NEW i \in Invocations, NEW k \in Keys, NEW o, Upsert(i, k, o) PROVE ClaimInv'
  <2>1. \A l \in Keys : l # k => table'[l] = table[l]
    BY <1>0, <1>3 DEF Upsert
  <2>2. /\ req' = req /\ revived \subseteq revived' /\ revived' \subseteq revived \cup {k}
        /\ stage'[i][k] # "compensate" /\ (stage'[i][k] = "reset" => k \in revived')
        /\ \A j \in Invocations, l \in Keys : (j # i \/ l # k) => stage'[j][l] = stage[j][l]
    BY <1>0, <1>3 DEF Upsert, To, Applied, Verdict, Expired
  <2>3. table[k] # NoRecord => table'[k].firstSeen = table[k].firstSeen /\ table'[k].firstRoute = table[k].firstRoute
    BY <1>0, <1>3 DEF Upsert, Upserted, Prolonged
  <2>4. \A j \in Invocations : stage[j][k] = "compensate" => table[k] # NoRecord
    BY DEF OwnerInv, OwnedIsLive, Owns
  <2> QED
    BY <2>1, <2>2, <2>3, <2>4
<1>4. ASSUME NEW i \in Invocations, NEW k \in Keys, NEW o, Reset(i, k, o) PROVE ClaimInv'
  <2>1. Owns(i, k) /\ \A j \in Invocations : j # i => ~Owns(j, k) /\ stage'[j][k] = stage[j][k]
    BY <1>0, <1>4 DEF Reset, Owns, OwnerInv, SingleOwner, To
  <2>2. ResetHolds(i, k) /\ k \in revived
    BY <1>4, <2>1 DEF Reset, ResetHolds, OwnerInv, OwnedIsLive, QueueInv, KeyInv
  <2>3. o # "resent"
    <3>1. <<"reset", "resent">> \notin Faults
      BY DEF NothingLoses, LosingFaults
    <3> QED
      BY <1>4, <3>1 DEF Reset, Happens
  <2>4. /\ req' = req /\ stage'[i][k] \in {"send", "compensate"}
        /\ Applied(o) => table'[k].firstSeen = req[i].at /\ table'[k].firstRoute = req[i].route
        /\ ~Applied(o) => revived' = revived
        /\ \A l \in Keys : l # k => table'[l] = table[l] /\ (l \in revived' <=> l \in revived)
        /\ \A j \in Invocations, l \in Keys : l # k => stage'[j][l] = stage[j][l]
    BY <1>0, <1>4, <2>2, <2>3 DEF Reset, To, FirstBy
  <2> QED
    BY <2>1, <2>2, <2>4 DEF Owns
<1>5. ASSUME NEW i \in Invocations, NEW k \in Keys, NEW o, Send(i, k, o) PROVE ClaimInv'
  <2>1. /\ req' = req /\ table' = table /\ revived' = revived /\ stage'[i][k] # "reset"
        /\ \A j \in Invocations, l \in Keys : (j # i \/ l # k) => stage'[j][l] = stage[j][l]
    BY <1>0, <1>5 DEF Send, To
  <2>2. table[k].firstSeen = req[i].at /\ table[k].firstRoute = req[i].route
    BY <1>5 DEF Send, QueueInv, KeyInv
  <2> QED
    BY <2>1, <2>2
<1>6. ASSUME NEW i \in Invocations, NEW k \in Keys, NEW o, Compensate(i, k, o) PROVE ClaimInv'
  <2>1. Owns(i, k) /\ \A j \in Invocations : j # i => ~Owns(j, k) /\ stage'[j][k] = stage[j][k]
    BY <1>0, <1>6 DEF Compensate, Owns, OwnerInv, SingleOwner, To
  <2>2. o # "resent"
    <3>1. <<"delete", "resent">> \notin Faults
      BY DEF NothingLoses
    <3> QED
      BY <1>6, <3>1 DEF Compensate, Happens
  <2>3. /\ req' = req /\ stage'[i][k] = "idle"
        /\ \A l \in Keys : l # k => table'[l] = table[l] /\ (l \in revived' <=> l \in revived)
        /\ \A j \in Invocations, l \in Keys : l # k => stage'[j][l] = stage[j][l]
    BY <1>0, <1>6, <2>2 DEF Compensate, To
  <2> QED
    BY <2>1, <2>3 DEF Owns
<1>7. ASSUME NEW i \in Invocations, Die(i) PROVE ClaimInv'
  <2>1. \A j \in Invocations, k \in Keys : stage'[j][k] = stage[j][k] \/ stage'[j][k] = "idle"
    BY <1>0, <1>7 DEF Die
  <2> QED
    BY <1>7, <2>1 DEF Die
<1>8. ASSUME NEW k \in Keys, Reap(k) PROVE ClaimInv'
  <2>1. \A j \in Invocations : ~Owns(j, k)
    <3>1. now \in Int /\ table[k].ttl \in Int /\ table[k].ttl <= now
      BY <1>8 DEF Reap, TypeOK, Records
    <3> QED
      BY <3>1, OwnedNeverExpires
  <2>2. /\ req' = req /\ stage' = stage
        /\ \A l \in Keys : l # k => table'[l] = table[l] /\ (l \in revived' <=> l \in revived)
    BY <1>0, <1>8 DEF Reap
  <2> QED
    BY <2>1, <2>2 DEF Owns
<1>9. CASE Tick \/ UNCHANGED vars
  BY <1>9 DEF Tick, vars
<1> QED
  BY <1>1, <1>2, <1>3, <1>4, <1>5, <1>6, <1>7, <1>8, <1>9
     DEF Next, Work, Process, ArchiveBeacon, ArchiveReport, Awaiting

\* The window of a key, before and after a step, case by case.
LEMMA WindowNow ==
  ASSUME SingleOwner, NEW k \in Keys, table[k] # NoRecord
  PROVE  /\ \A i \in Invocations : Owns(i, k) /\ k \in revived =>
              AbstractWindow(k) = [start |-> req[i].at, route |-> req[i].route, until |-> table[k].ttl]
         /\ (k \notin revived \/ \A i \in Invocations : ~Owns(i, k)) =>
              AbstractWindow(k) = [start |-> table[k].firstSeen, route |-> table[k].firstRoute,
                                   until |-> table[k].ttl]
<1>1. \A i \in Invocations : Owns(i, k) => OwnerOf(k) = i
  BY DEF OwnerOf, SingleOwner
<1> QED
  BY <1>1 DEF AbstractWindow

LEMMA WindowNext ==
  ASSUME SingleOwner', NEW k \in Keys, table'[k] # NoRecord
  PROVE  /\ \A i \in Invocations : Owns(i, k)' /\ k \in revived' =>
              AbstractWindow(k)' = [start |-> req'[i].at, route |-> req'[i].route, until |-> table'[k].ttl]
         /\ (k \notin revived' \/ \A i \in Invocations : ~Owns(i, k)') =>
              AbstractWindow(k)' = [start |-> table'[k].firstSeen, route |-> table'[k].firstRoute,
                                    until |-> table'[k].ttl]
<1>1. \A i \in Invocations : Owns(i, k)' => OwnerOf(k)' = i
  BY DEF OwnerOf, SingleOwner
<1> QED
  BY <1>1 DEF AbstractWindow

\* A window is open exactly while a record is there, and ends with it.
LEMMA OpenIsRecorded ==
  ASSUME TypeOK, SingleOwner, NEW k \in Keys
  PROVE  /\ Novelty!Open(k) <=> table[k] # NoRecord
         /\ table[k] # NoRecord => AbstractWindow(k).until = table[k].ttl
<1>1. CASE table[k] = NoRecord
  BY <1>1 DEF AbstractWindow, Novelty!Open
<1>2. CASE table[k] # NoRecord
  <2>1. table[k] \in Records /\ \A i \in Invocations : req[i].at \in Int /\ req[i].route \in Routes
    BY <1>2 DEF TypeOK
  <2>2. AbstractWindow(k) \in Novelty!Windows /\ AbstractWindow(k).until = table[k].ttl
    <3>1. CASE k \in revived /\ \E i \in Invocations : Owns(i, k)
      BY <1>2, <2>1, <3>1, WindowNow DEF Novelty!Windows, Records
    <3>2. CASE ~(k \in revived /\ \E i \in Invocations : Owns(i, k))
      BY <1>2, <2>1, <3>2, WindowNow DEF Novelty!Windows, Records
    <3> QED
      BY <3>1, <3>2
  <2> QED
    BY <1>2, <2>2, WindowAssumption DEF Novelty!Open
<1> QED
  BY <1>1, <1>2

\* A step that leaves the record and the owners of a key leaves its window.
LEMMA WindowFrame ==
  ASSUME SingleOwner, SingleOwner', NEW l \in Keys,
         table'[l] = table[l], l \in revived' <=> l \in revived,
         \A j \in Invocations :
           /\ Owns(j, l)' <=> Owns(j, l)
           /\ Owns(j, l) => req'[j] = req[j]
  PROVE  AbstractWindow(l)' = AbstractWindow(l)
<1>1. CASE table[l] = NoRecord
  BY <1>1 DEF AbstractWindow
<1>2. CASE table[l] # NoRecord /\ l \in revived /\ \E j \in Invocations : Owns(j, l)
  BY <1>2, WindowNow, WindowNext
<1>3. CASE table[l] # NoRecord /\ ~(l \in revived /\ \E j \in Invocations : Owns(j, l))
  BY <1>3, WindowNow, WindowNext
<1> QED
  BY <1>1, <1>2, <1>3

\* One window changes: what the actions of NoveltyWindow say of the function.
LEMMA WindowWritten ==
  ASSUME NEW k \in Keys, \A l \in Keys \ {k} : AbstractWindow(l)' = AbstractWindow(l)
  PROVE  [l \in Keys |-> AbstractWindow(l)]' =
           [[l \in Keys |-> AbstractWindow(l)] EXCEPT ![k] = AbstractWindow(k)']
OBVIOUS

\* The sighting an owner reports is not reported yet: the message it would
\* repeat would have protected its key for longer than an invocation lives.
LEMMA OwnerIsUnreported ==
  ASSUME TypeOK, OwnerInv, MessageInv, NEW i \in Invocations, NEW k \in Keys, Owns(i, k)
  PROVE  Entry(i, k) \notin sent
<1>1. Young(i)
  BY DEF Owns, Busy, OwnerInv
<1>2. ASSUME Entry(i, k) \in sent PROVE now >= req[i].at + TtlWindow - LambdaTimeout
  <2>1. Entry(i, k).key = k /\ Entry(i, k).at = req[i].at
    BY DEF Entry
  <2> QED
    BY <1>2, <2>1 DEF MessageInv, FreshUntil
<1>3. now \in Int /\ req[i].at \in Int
  BY DEF TypeOK
<1> QED
  BY <1>1, <1>2, <1>3, TimeAssumption DEF Young

\* Every step of the collector is a step of the window, or leaves it alone.
LEMMA WindowStep ==
  ASSUME NothingLoses, NothingDuplicates, TypeOK, OwnerInv, OwnerInv', QueueInv, ClaimInv, MessageInv,
         [Next]_vars
  PROVE  [Novelty!Next]_Novelty!vars
<1> USE TimeAssumption
<1>0. /\ stage \in [Invocations -> [Keys -> Stages]]
      /\ req \in [Invocations -> [at : Int, route : Routes, path : {"beacon", "csp"}]]
      /\ table \in [Keys -> Records \cup {NoRecord}]
      /\ now \in Int /\ SingleOwner /\ SingleOwner'
  BY DEF TypeOK, OwnerInv
<1>0a. \A k \in Keys : table[k] # NoRecord => table[k].ttl \in Int
  BY <1>0 DEF Records
\* A stutter: no window and no message.
<1>a. ASSUME now' = now, sent' = sent, table' = table, revived' = revived,
             \A j \in Invocations, l \in Keys :
               (Owns(j, l)' <=> Owns(j, l)) /\ (Owns(j, l) => req'[j] = req[j])
      PROVE UNCHANGED Novelty!vars
  <2>1. \A l \in Keys : AbstractWindow(l)' = AbstractWindow(l)
    BY <1>0, <1>a, WindowFrame
  <2> QED
    BY <1>a, <2>1 DEF Novelty!vars
<1>1. ASSUME NEW i \in Invocations, NEW r \in Requests, Receive(i, r) PROVE UNCHANGED Novelty!vars
  <2>1. \A j \in Invocations, l \in Keys :
          (Owns(j, l)' <=> Owns(j, l)) /\ (Owns(j, l) => req'[j] = req[j])
    BY <1>0, <1>1 DEF Receive, Owns, Busy
  <2> QED
    BY <1>a, <1>1, <2>1 DEF Receive
<1>2. ASSUME NEW i \in Invocations, NEW ks \in SUBSET Keys, NEW o, ks \subseteq Awaiting(i),
             Archive(i, ks, o)
      PROVE UNCHANGED Novelty!vars
  <2>1. \A j \in Invocations, l \in Keys : Owns(j, l)' <=> Owns(j, l)
    BY <1>0, <1>2 DEF Archive, Owns, Awaiting
  <2> QED
    BY <1>a, <1>2, <2>1 DEF Archive
<1>3. ASSUME NEW i \in Invocations, NEW k \in Keys, NEW o, Upsert(i, k, o)
      PROVE Novelty!Next \/ UNCHANGED Novelty!vars
  <2>1. Busy(i) /\ Young(i) /\ ~Owns(i, k)
    BY <1>3 DEF Upsert, Busy, Owns, OwnerInv
  <2>2. o = "ok" \/ ~Applied(o)
    <3>1. <<"upsert", "lost">> \notin Faults /\ <<"upsert", "resent">> \notin Faults
      BY DEF NothingLoses, LosingFaults
    <3> QED
      BY <1>3, <3>1 DEF Upsert, Happens, Applied
  <2>3. \A j \in Invocations, l \in Keys : (j # i \/ l # k) => (Owns(j, l)' <=> Owns(j, l))
    BY <1>0, <1>3 DEF Upsert, To, Owns
  <2>4. CASE ~Applied(o)
    <3>1. ~Owns(i, k)' /\ table' = table /\ revived' = revived
      BY <1>0, <1>3, <2>4 DEF Upsert, To, Owns, Applied
    <3> QED
      BY <1>a, <1>3, <2>1, <2>3, <3>1 DEF Upsert
  <2>5. CASE o = "ok"
    <3>0. req[i].at \in (now - LambdaTimeout)..now /\ req[i].route \in Routes
      BY <1>0, <2>1 DEF Young
    <3>1. /\ table' = [table EXCEPT ![k] = Upserted(i, k)]
          /\ Upserted(i, k) \in Records /\ Upserted(i, k) # NoRecord
          /\ now' = now /\ sent' = sent /\ req' = req
      <4>1. Upserted(i, k) \in Records
        BY <1>0 DEF Upserted, FirstBy, Prolonged, TtlOf, Records
      <4> QED
        BY <1>3, <2>5, <4>1, ConfigAssumption DEF Upsert, Applied, Records
    <3>2. table'[k] = Upserted(i, k) /\ \A l \in Keys : l # k => table'[l] = table[l]
      BY <1>0, <3>1
    <3>3. revived' = IF Expired(i, k) THEN revived \cup {k} ELSE revived
      BY <1>3, <2>5 DEF Upsert, Applied
    <3>4. Owns(i, k)' <=> table[k] = NoRecord \/ Expired(i, k)
      BY <1>0, <1>3, <2>5 DEF Upsert, To, Owns, Verdict, Expired
    <3>5. \A l \in Keys \ {k} : AbstractWindow(l)' = AbstractWindow(l)
      BY <1>0, <2>3, <3>1, <3>2, <3>3, WindowFrame
    <3>6. ASSUME table[k] = NoRecord \/ Expired(i, k) PROVE Novelty!Begin(k, req[i].at, req[i].route)
      <4>1. \A j \in Invocations : ~Owns(j, k)
        BY <2>1, <3>6, ExpiredIsNotOwned DEF OwnerInv, OwnedIsLive
      <4>2. AbstractWindow(k)' =
              [start |-> req[i].at, route |-> req[i].route, until |-> req[i].at + TtlWindow]
        <5>1. CASE table[k] = NoRecord
          <6>1. k \notin revived'
            BY <3>3, <5>1 DEF Expired, QueueInv, KeyInv
          <6>2. Upserted(i, k) = FirstBy(i, req[i].at + TtlWindow)
            BY <5>1 DEF Upserted, TtlOf
          <6> QED
            BY <1>0, <3>1, <3>2, <6>1, <6>2, WindowNext DEF FirstBy
        <5>2. CASE Expired(i, k)
          <6>1. k \in revived' /\ Owns(i, k)'
            BY <3>3, <3>4, <5>2
          <6>2. Upserted(i, k).ttl = req[i].at + TtlWindow
            BY DEF Upserted, FirstBy, Prolonged, TtlOf
          <6> QED
            BY <1>0, <3>1, <3>2, <6>1, <6>2, WindowNext
        <5> QED
          BY <3>6, <5>1, <5>2
      <4>3. Novelty!Open(k) => AbstractWindow(k).until <= req[i].at /\ ~Novelty!Unreported(k)
        <5> SUFFICES ASSUME Novelty!Open(k)
                     PROVE  AbstractWindow(k).until <= req[i].at /\ ~Novelty!Unreported(k)
          OBVIOUS
        <5>1. table[k] # NoRecord /\ AbstractWindow(k).until = table[k].ttl
          BY <1>0, OpenIsRecorded
        <5>2. Queued(k)
          BY <4>1, <5>1 DEF QueueInv, KeyInv
        <5>3. AbstractWindow(k) = [start |-> table[k].firstSeen, route |-> table[k].firstRoute,
                                   until |-> table[k].ttl]
          BY <1>0, <4>1, <5>1, WindowNow
        <5> QED
          BY <3>6, <5>1, <5>2, <5>3 DEF Expired, Queued, Novelty!Unreported, Novelty!ReportOf
      <4>4. [l \in Keys |-> AbstractWindow(l)]' =
              [[l \in Keys |-> AbstractWindow(l)] EXCEPT ![k] =
                 [start |-> req[i].at, route |-> req[i].route, until |-> req[i].at + TtlWindow]]
        BY <3>5, <4>2, WindowWritten
      <4> QED
        BY <3>1, <4>3, <4>4 DEF Novelty!Begin
    <3>7. ASSUME table[k] # NoRecord, ~Expired(i, k) PROVE Novelty!Prolong(k, req[i].at)
      <4>1. Upserted(i, k) = Prolonged(k, req[i].at + TtlWindow) /\ revived' = revived
        BY <3>3, <3>7 DEF Upserted, TtlOf
      <4>2. \A j \in Invocations : (Owns(j, k)' <=> Owns(j, k)) /\ req'[j] = req[j]
        BY <2>1, <2>3, <3>1, <3>4, <3>7
      <4>3. AbstractWindow(k)' = [AbstractWindow(k) EXCEPT !.until = req[i].at + TtlWindow]
        <5>1. CASE k \in revived /\ \E j \in Invocations : Owns(j, k)
          <6>1. PICK j \in Invocations : Owns(j, k)
            BY <5>1
          <6>2. AbstractWindow(k) = [start |-> req[j].at, route |-> req[j].route, until |-> table[k].ttl]
            BY <1>0, <3>7, <5>1, <6>1, WindowNow
          <6>3. AbstractWindow(k)' =
                  [start |-> req[j].at, route |-> req[j].route, until |-> req[i].at + TtlWindow]
            BY <1>0, <3>1, <3>2, <4>1, <4>2, <5>1, <6>1, WindowNext DEF Prolonged
          <6> QED
            BY <6>2, <6>3
        <5>2. CASE ~(k \in revived /\ \E j \in Invocations : Owns(j, k))
          <6>1. AbstractWindow(k) = [start |-> table[k].firstSeen, route |-> table[k].firstRoute,
                                     until |-> table[k].ttl]
            BY <1>0, <3>7, <5>2, WindowNow
          <6>2. AbstractWindow(k)' = [start |-> table[k].firstSeen, route |-> table[k].firstRoute,
                                      until |-> req[i].at + TtlWindow]
            BY <1>0, <3>1, <3>2, <4>1, <4>2, <5>2, WindowNext DEF Prolonged
          <6> QED
            BY <6>1, <6>2
        <5> QED
          BY <5>1, <5>2
      <4>4. Novelty!Open(k) /\ AbstractWindow(k).until > req[i].at
        BY <1>0, <1>0a, <3>7, OpenIsRecorded DEF Expired
      <4>5. [l \in Keys |-> AbstractWindow(l)]' =
              [[l \in Keys |-> AbstractWindow(l)] EXCEPT ![k].until = req[i].at + TtlWindow]
        BY <3>5, <4>3, WindowWritten
      <4> QED
        BY <3>1, <4>4, <4>5 DEF Novelty!Prolong
    <3> QED
      BY <3>0, <3>6, <3>7 DEF Novelty!Next
  <2> QED
    BY <2>2, <2>4, <2>5
\* The reset keeps the window: what was the owner's is now the record's.
<1>4. ASSUME NEW i \in Invocations, NEW k \in Keys, NEW o, Reset(i, k, o)
      PROVE UNCHANGED Novelty!vars
  <2>1. Owns(i, k) /\ k \in revived /\ ResetHolds(i, k) /\ table[k] # NoRecord
    BY <1>4 DEF Reset, Owns, ResetHolds, OwnerInv, OwnedIsLive, QueueInv, KeyInv, ClaimInv
  <2>2. o # "resent"
    <3>1. <<"reset", "resent">> \notin Faults
      BY DEF NothingLoses, LosingFaults
    <3> QED
      BY <1>4, <3>1 DEF Reset, Happens
  <2>3. \A j \in Invocations, l \in Keys : (Owns(j, l)' <=> Owns(j, l)) /\ req'[j] = req[j]
    BY <1>0, <1>4, <2>1, <2>2 DEF Reset, To, Owns
  <2>4. CASE ~Applied(o)
    BY <1>a, <1>4, <2>3, <2>4 DEF Reset
  <2>5. CASE Applied(o)
    <3>1. /\ table' = [table EXCEPT ![k] = FirstBy(i, table[k].ttl)] /\ revived' = revived \ {k}
          /\ now' = now /\ sent' = sent
      BY <1>4, <2>1, <2>5 DEF Reset
    <3>2. FirstBy(i, table[k].ttl) # NoRecord
      BY <1>0, <2>1, ConfigAssumption DEF FirstBy, Records
    <3>3. AbstractWindow(k) = [start |-> req[i].at, route |-> req[i].route, until |-> table[k].ttl]
      BY <1>0, <2>1, WindowNow
    <3>4. AbstractWindow(k)' = [start |-> req[i].at, route |-> req[i].route, until |-> table[k].ttl]
      <4>1. table'[k] = FirstBy(i, table[k].ttl) /\ k \notin revived'
        BY <1>0, <3>1
      <4> QED
        BY <1>0, <3>2, <4>1, WindowNext DEF FirstBy
    <3>5. \A l \in Keys \ {k} : AbstractWindow(l)' = AbstractWindow(l)
      BY <1>0, <2>3, <3>1, WindowFrame
    <3>6. \A l \in Keys : AbstractWindow(l)' = AbstractWindow(l)
      BY <3>3, <3>4, <3>5
    <3> QED
      BY <3>1, <3>6 DEF Novelty!vars
  <2> QED
    BY <2>4, <2>5
<1>5. ASSUME NEW i \in Invocations, NEW k \in Keys, NEW o, Send(i, k, o)
      PROVE Novelty!Next \/ UNCHANGED Novelty!vars
  <2>1. Owns(i, k) /\ table[k] # NoRecord /\ k \notin revived
        /\ table[k].firstSeen = req[i].at /\ table[k].firstRoute = req[i].route
    BY <1>5 DEF Send, Owns, OwnerInv, OwnedIsLive, QueueInv, KeyInv
  <2>2. \A j \in Invocations, l \in Keys : (j # i \/ l # k) => (Owns(j, l)' <=> Owns(j, l))
    BY <1>0, <1>5 DEF Send, To, Owns
  <2>3. AbstractWindow(k) = [start |-> req[i].at, route |-> req[i].route, until |-> table[k].ttl]
    BY <1>0, <2>1, WindowNow
  <2>4. AbstractWindow(k)' = AbstractWindow(k)
    <3>1. table' = table /\ revived' = revived
      BY <1>5 DEF Send
    <3> QED
      BY <1>0, <2>1, <2>3, <3>1, WindowNext
  <2>5. \A l \in Keys \ {k} : AbstractWindow(l)' = AbstractWindow(l)
    <3>1. table' = table /\ revived' = revived /\ req' = req
      BY <1>5 DEF Send
    <3> QED
      BY <1>0, <2>2, <3>1, WindowFrame
  <2>6. [l \in Keys |-> AbstractWindow(l)]' = [l \in Keys |-> AbstractWindow(l)] /\ now' = now
    BY <1>5, <2>4, <2>5 DEF Send
  <2>7. CASE ~Applied(o)
    BY <1>5, <2>6, <2>7 DEF Send, Novelty!vars
  <2>8. CASE Applied(o)
    <3>1. Novelty!ReportOf(k) = Entry(i, k)
      BY <2>3 DEF Novelty!ReportOf, Entry
    <3>2. Novelty!Unreported(k)
      BY <1>0, <2>1, <3>1, OpenIsRecorded, OwnerIsUnreported DEF Novelty!Unreported
    <3>3. Novelty!Report(k)
      BY <1>5, <2>6, <2>8, <3>1, <3>2 DEF Send, Novelty!Report
    <3> QED
      BY <3>3 DEF Novelty!Next
  <2> QED
    BY <2>7, <2>8
<1>6. ASSUME NEW i \in Invocations, NEW k \in Keys, NEW o, Compensate(i, k, o)
      PROVE Novelty!Next \/ UNCHANGED Novelty!vars
  <2>1. Owns(i, k) /\ table[k] # NoRecord
    BY <1>6 DEF Compensate, Owns, OwnerInv, OwnedIsLive
  <2>2. \A j \in Invocations, l \in Keys : l # k => (Owns(j, l)' <=> Owns(j, l))
    BY <1>0, <1>6 DEF Compensate, To, Owns
  <2>3. Applied(o)
    <3>1. <<"delete", "rejected">> \notin Faults
      BY DEF NothingLoses, LosingFaults
    <3>2. o \in Outcomes \cup {"ok"}
      BY <1>6, ConfigAssumption DEF Compensate, Happens, Crashes, Calls, Outcomes, Stages
    <3> QED
      BY <1>6, <3>1, <3>2 DEF Compensate, Happens, Outcomes, Applied
  <2>4. /\ table' = [table EXCEPT ![k] = NoRecord] /\ revived' = revived \ {k}
        /\ now' = now /\ sent' = sent /\ req' = req
    BY <1>6, <2>3 DEF Compensate
  <2>5. AbstractWindow(k)' = NoRecord
    BY <1>0, <2>4 DEF AbstractWindow
  <2>6. \A l \in Keys \ {k} : AbstractWindow(l)' = AbstractWindow(l)
    BY <1>0, <2>2, <2>4, WindowFrame
  <2>7. AbstractWindow(k) = [start |-> req[i].at, route |-> req[i].route, until |-> table[k].ttl]
    <3>1. CASE k \in revived
      BY <1>0, <2>1, <3>1, WindowNow
    <3>2. CASE k \notin revived
      BY <1>0, <1>6, <2>1, <3>2, WindowNow DEF ClaimInv, Compensate
    <3> QED
      BY <3>1, <3>2
  <2>8. Novelty!Unreported(k)
    <3>1. Novelty!ReportOf(k) = Entry(i, k)
      BY <2>7 DEF Novelty!ReportOf, Entry
    <3> QED
      BY <1>0, <2>1, <3>1, OpenIsRecorded, OwnerIsUnreported DEF Novelty!Unreported
  <2>9. Novelty!Forget(k)
    BY <2>4, <2>5, <2>6, <2>8, WindowWritten DEF Novelty!Forget
  <2> QED
    BY <2>9 DEF Novelty!Next
<1>7. ASSUME NEW i \in Invocations, Die(i) PROVE UNCHANGED Novelty!vars
  <2>1. \A k \in Keys : ~Owns(i, k)
    <3>1. <<"reset", "crash">> \notin Faults /\ <<"send", "crash">> \notin Faults
          /\ <<"compensate", "crash">> \notin Faults
      BY DEF NothingLoses, LosingFaults
    <3> QED
      BY <1>7, <3>1 DEF Die, Owns
  <2>2. \A j \in Invocations, k \in Keys : Owns(j, k)' <=> Owns(j, k)
    BY <1>0, <1>7, <2>1 DEF Die, Owns
  <2> QED
    BY <1>a, <1>7, <2>2 DEF Die
<1>8. ASSUME NEW k \in Keys, Reap(k) PROVE Novelty!Expire(k)
  <2>1. table[k] # NoRecord /\ table[k].ttl <= now
    BY <1>8 DEF Reap
  <2>2. \A j \in Invocations : ~Owns(j, k)
    BY <1>0, <1>0a, <2>1, OwnedNeverExpires
  <2>3. Queued(k)
    BY <2>1, <2>2 DEF QueueInv, KeyInv
  <2>4. AbstractWindow(k) = [start |-> table[k].firstSeen, route |-> table[k].firstRoute,
                             until |-> table[k].ttl]
    BY <1>0, <2>1, <2>2, WindowNow
  <2>5. AbstractWindow(k)' = NoRecord
    BY <1>0, <1>8 DEF Reap, AbstractWindow
  <2>6. \A l \in Keys \ {k} : AbstractWindow(l)' = AbstractWindow(l)
    <3>1. \A l \in Keys \ {k} : table'[l] = table[l] /\ (l \in revived' <=> l \in revived)
      BY <1>0, <1>8 DEF Reap
    <3>2. \A j \in Invocations, l \in Keys : (Owns(j, l)' <=> Owns(j, l)) /\ req'[j] = req[j]
      BY <1>8 DEF Reap, Owns
    <3> QED
      BY <1>0, <3>1, <3>2, WindowFrame
  <2>7. Novelty!Open(k) /\ ~Novelty!Unreported(k) /\ AbstractWindow(k).until <= now
    BY <1>0, <2>1, <2>3, <2>4, OpenIsRecorded DEF Queued, Novelty!Unreported, Novelty!ReportOf
  <2> QED
    BY <1>8, <2>5, <2>6, <2>7, WindowWritten DEF Reap, Novelty!Expire
<1>9. CASE Tick
  <2>1. \A l \in Keys : AbstractWindow(l)' = AbstractWindow(l)
    <3>1. table' = table /\ revived' = revived /\ stage' = stage /\ req' = req
      BY <1>9 DEF Tick
    <3> QED
      BY <1>0, <3>1, WindowFrame DEF Owns
  <2> QED
    BY <1>9, <2>1 DEF Tick, Novelty!Tick, Novelty!Next
<1>10. CASE UNCHANGED vars
  BY <1>a, <1>10 DEF vars, Owns
<1> QED
  BY <1>1, <1>2, <1>3, <1>4, <1>5, <1>6, <1>7, <1>8, <1>9, <1>10
     DEF Next, Work, Process, ArchiveBeacon, ArchiveReport, Awaiting, Novelty!Next

\* The collector implements the rolling novelty window, for any number of
\* invocations, targets and keys: as long as no fault loses or duplicates a
\* message, each of its steps begins, prolongs, reports, forgets or expires
\* exactly one window, or changes none.
THEOREM ImplementsTheWindow ==
  ASSUME NothingLoses, NothingDuplicates
  PROVE  Spec => Novelty!Init /\ [][Novelty!Next]_Novelty!vars
<1> DEFINE Inv == OwnerInv /\ QueueInv /\ ClaimInv /\ MessageInv
<1>1. Init => Inv
  BY DEF Init, OwnerInv, OwnedIsLive, SingleOwner, Owns, Busy, QueueInv, KeyInv, ClaimInv,
         MessageInv, OneMessagePerWindow
<1>2. Init => Novelty!Init
  BY DEF Init, Novelty!Init, AbstractWindow
<1>3. TypeOK /\ TypeOK' /\ Inv /\ [Next]_vars => Inv'
  BY OwnerInvStep, QueueInvStep, ClaimInvStep, MessageInvStep DEF NothingLoses
<1>4. TypeOK /\ Inv /\ Inv' /\ [Next]_vars => [Novelty!Next]_Novelty!vars
  BY WindowStep
<1> HIDE DEF Inv
<1> QED
  BY <1>1, <1>2, <1>3, <1>4, TypeCorrect, PTL DEF Spec

=============================================================================
