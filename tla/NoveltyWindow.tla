---------------------------- MODULE NoveltyWindow ----------------------------
(***************************************************************************)
(* What the collector promises about novelty, free of tables, queues and   *)
(* invocations.  Every key has at most one open window.  A sighting opens  *)
(* one, or prolongs the one that is open (the window rolls).  A window is  *)
(* reported once, or it is forgotten so that the next sighting opens       *)
(* another; it never closes by age before it has been reported.            *)
(***************************************************************************)
EXTENDS Integers

CONSTANTS
  Keys, Routes,
  Closed,      \* no window is open under a key
  Length,      \* a window lasts this long after its latest sighting
  Slack        \* how old a sighting may be when it is recorded

VARIABLES
  now,
  window,      \* window[k]: Closed, or start, route and end of the open one
  reported     \* the windows reported so far

vars == <<now, window, reported>>

Windows == [start : Int, route : Routes, until : Int]
Reports == [key : Keys, at : Int, route : Routes]

Open(k)       == window[k] # Closed
ReportOf(k)   == [key |-> k, at |-> window[k].start, route |-> window[k].route]
Unreported(k) == Open(k) /\ ReportOf(k) \notin reported

Init == now = 0 /\ window = [k \in Keys |-> Closed] /\ reported = {}

Begin(k, at, r) ==
  /\ Open(k) => window[k].until <= at /\ ~Unreported(k)
  /\ window' = [window EXCEPT ![k] = [start |-> at, route |-> r, until |-> at + Length]]
  /\ UNCHANGED <<now, reported>>

Prolong(k, at) ==
  /\ Open(k) /\ window[k].until > at
  /\ window' = [window EXCEPT ![k].until = at + Length]
  /\ UNCHANGED <<now, reported>>

Report(k) ==
  /\ Unreported(k)
  /\ reported' = reported \cup {ReportOf(k)}
  /\ UNCHANGED <<now, window>>

Forget(k) ==
  /\ Unreported(k)
  /\ window' = [window EXCEPT ![k] = Closed]
  /\ UNCHANGED <<now, reported>>

Expire(k) ==
  /\ Open(k) /\ ~Unreported(k) /\ window[k].until <= now
  /\ window' = [window EXCEPT ![k] = Closed]
  /\ UNCHANGED <<now, reported>>

Tick == now' = now + 1 /\ UNCHANGED <<window, reported>>

Next ==
  \/ \E k \in Keys :
       \/ \E at \in (now - Slack)..now : Prolong(k, at) \/ \E r \in Routes : Begin(k, at, r)
       \/ Report(k) \/ Forget(k) \/ Expire(k)
  \/ Tick

Settle(k) == Report(k) \/ Forget(k)

Spec == Init /\ [][Next]_vars /\ \A k \in Keys : WF_vars(Settle(k))

=============================================================================
