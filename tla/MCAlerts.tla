------------------------------- MODULE MCAlerts -------------------------------
(* Instance of Alerts for TLC: one finding of a kind or more than a table  *)
(* shows, short or longer than any cell; summaries up to an outage of      *)
(* every target, with the longest lines the clips let through.             *)
EXTENDS Alerts, TLC

CONSTANT Many   \* entries of one summary list in the outage

F(length, applied) == [url |-> length, body |-> 4 * length, reason |-> 2 * length, chain |-> length, applied |-> applied]

Batch(n, length) == [i \in 1 .. n |-> F(length, i % 2 = 0)]

Batches == {<<>>, <<F(60, FALSE)>>, Batch(25, 500)}

\* Each kind alone, or each of the two halves at once, or all.
SomeKinds == {{k} : k \in Range(Kinds)} \cup {SplitKinds, Range(Kinds) \ SplitKinds, Range(Kinds), {}}

AllResults == {[k \in Range(Kinds) |-> IF k \in some THEN batch ELSE <<>>] : some \in SomeKinds, batch \in Batches}

\* n entries about so many targets, the first ones about one of them.
List(n, targets, length) ==
  [i \in 1 .. n |-> [target |-> <<"target", IF i < n \div 3 THEN 1 ELSE i % targets>>, name |-> 40, before |-> FieldLimit + 10, chars |-> length]]

Ledger(processed, failed, unread, outside, unanswered) ==
  [processed |-> processed, failed |-> failed, unread |-> unread, outside |-> outside, unanswered |-> unanswered]

AllLedgers ==
  {NoLedger, Ledger(2, <<>>, <<>>, List(1, 1, 200), <<>>), Ledger(2, <<>>, List(3, 2, 200), <<>>, <<>>),
   Ledger(0, List(2, 2, 400), <<>>, <<>>, <<>>),
   Ledger(30, List(8, 8, 400), List(Many, 30, 1500), List(Many, 40, 1500), List(Many, 30, 900)),
   Ledger(30, <<>>, List(30, 30, 1500), List(21, 21, 1300), List(20, 20, 1500))}

AllTargets == {<<"target", i>> : i \in 0 .. 40} \cup {<<"earlier", i>> : i \in 1 .. 6}

AllEarlier == {<<>>, [i \in 1 .. 6 |-> [target |-> <<"earlier", i>>, name |-> 40, before |-> 70, chars |-> 400]]}
===============================================================================
