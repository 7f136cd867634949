----------------------------- MODULE AlertLayout ------------------------------
(***************************************************************************)
(* How an alert and a run summary are laid out for Slack (src/services/    *)
(* alert/slack.ts): which rows of a table are kept, which texts are        *)
(* clipped, how a list is split over sections.  A text stands for its      *)
(* length, the numbers are the code's; a label is as long as it is there.  *)
(***************************************************************************)
EXTENDS Integers, SequencesExt, FiniteSetsExt

SectionLimit == 2900   \* SECTION_CHAR_LIMIT
LineLimit    == 1400   \* LINE_CHAR_LIMIT
FieldLimit   == 300    \* SUMMARY_FIELD_LIMIT, reasonLimit, targetLimit
RowCap       == 20     \* MAX_SUMMARY_LIST_ROWS
TableBudget  == 9500   \* TABLE_CHAR_BUDGET
CellCap      == 1200   \* TABLE_CELL_CHAR_CAP
ReasonLimit  == 400    \* HEADER_REASON_CHAR_LIMIT

\* What Slack refuses, as the comments of slack.ts put it.
SlackTable   == 10000
SlackSection == 3000
SlackBlocks  == 50

Lowest2(m, n) == IF m <= n THEN m ELSE n

\* FoldLeft by index: the lists of an outage are long, and it looks for a maximum.
FoldInOrder(op(_, _), base, seq) ==
  LET fold[i \in 0 .. Len(seq)] == IF i = 0 THEN base ELSE op(fold[i - 1], seq[i]) IN fold[Len(seq)]

\* The indexes in S in their order, and what a sequence has there.
InOrder(S) == [n \in 1 .. Cardinality(S) |-> CHOOSE i \in S : Cardinality({j \in S : j < i}) = n - 1]
Those(seq, S) == LET at == InOrder(S) IN [n \in DOMAIN at |-> seq[at[n]]]

\* clipField, boundLine: the text and an ellipsis.
Clip(n, limit) == IF n > limit THEN limit + 1 ELSE n

\* truncateText, to maxStringLength: four off, three dots on.
Truncated(n) == IF n > 100 THEN 99 ELSE n

\* createContentSnippet: a body, its head and tail, or "(empty)".
Snippet(n) == IF n = 0 THEN 7 ELSE Lowest2(n, 203)

\* loadedByCell: the chain, or "(no initiator evidence)".
LoadedBy(n) == IF n = 0 THEN 23 ELSE Clip(n, FieldLimit)

\* headerFailureReasonText: the pattern only where both fit, else the reason alone.
HeaderReason(reason, pattern) ==
  IF reason + pattern + 13 <= 100 THEN reason + pattern + 13 ELSE Lowest2(reason, ReasonLimit)

(***************************************************************************)
(* The table of an alert.  A finding is [url, body, reason, chain], the    *)
(* lengths of what it shows: body is a script's content or a header's      *)
(* value, url the origin.  The cells, per kind of finding, are those of    *)
(* the payload builders.                                                   *)
(***************************************************************************)
\* No host is longer than a DNS name.
Host(url) == Lowest2(url, 253)

Prompt(f) == 350 + 2 * f.url + f.reason

UnknownScriptCells(f) ==
  <<Truncated(f.url), 64, Snippet(f.body), Host(f.url), LoadedBy(f.chain), Prompt(f)>>

UnauthorisedScriptCells(f) ==
  <<Truncated(f.url), 64, Snippet(f.body), Host(f.url), LoadedBy(f.chain), Truncated(f.reason), Prompt(f)>>

UnknownHeaderCells(f) == <<30, f.body, Host(f.url), Prompt(f) + f.body>>

UnauthorisedHeaderCells(f) ==
  <<30, f.body, Host(f.url), HeaderReason(f.reason, f.body), Prompt(f) + f.body>>

MissingHeaderCells(f) == <<30, Host(f.url), 10, f.url>>

MissingScriptCells(f) == <<Truncated(f.reason), 20, f.reason>>

Cells(kind, f) ==
  CASE kind = "unknown_script"      -> UnknownScriptCells(f)
    [] kind = "unauthorised_script" -> UnauthorisedScriptCells(f)
    [] kind = "unknown_header"      -> UnknownHeaderCells(f)
    [] kind = "unauthorised_header" -> UnauthorisedHeaderCells(f)
    [] kind = "missing_header"      -> MissingHeaderCells(f)
    [] kind = "missing_script"      -> MissingScriptCells(f)

\* The labels of the columns take less than this.
TableHeader == 80

\* A row's size once clipTableCell was over each cell: ellipsis included.
Wider(size, cell) == size + Lowest2(cell, CellCap)
RowSize(cells) == FoldInOrder(Wider, 0, cells)

\* The characters used by the header and the first k rows.
Used(sizes) == LET used[k \in 0 .. Len(sizes)] == IF k = 0 THEN TableHeader ELSE used[k - 1] + sizes[k] IN used

\* Slip: the row that bursts the budget is kept and only then the loop ends.
KeptRowsOver(sizes) == Cardinality({k \in 1 .. Len(sizes) : Used(sizes)[k - 1] <= TableBudget})

\* Rows are kept in order until the budget is spent.
KeptRows(sizes) == Cardinality({k \in 1 .. Len(sizes) : Used(sizes)[k] <= TableBudget})

\* boundedTable; the builders hand it 19 rows at most, and say how many there are.
BoundedTable(kind, findings) ==
  LET rows == [i \in 1 .. Lowest2(Len(findings), 19) |-> RowSize(Cells(kind, findings[i]))]
      kept == KeptRows(rows)
  IN [shown |-> kept, of |-> Len(findings), noted |-> kept < Len(findings), chars |-> Used(rows)[kept]]

(***************************************************************************)
(* The lists of a summary.  A line is [chars, names]: its length and the   *)
(* targets it names.  An entry is [target, name, before, chars]: whom it   *)
(* is about, the length of that name, what its line shows before the name, *)
(* and what the line takes as a whole.                                     *)
(***************************************************************************)
Line(entry) ==
  [chars |-> Clip(entry.chars, LineLimit),
   names |-> IF entry.before + entry.name <= LineLimit THEN {entry.target} ELSE {}]

\* What a list, the continuation of one, and the names in lines begin with.
Heading(chars) == [chars |-> chars, names |-> {}]
NamesHeading == 40

\* A section of a list: as long as what is in it, naming whom that names.
Extended(section, line) == [chars |-> section.chars + 1 + line.chars, names |-> section.names \cup line.names]

\* A line goes into the last section, or opens one that continues the list.
Packed(done, line) ==
  IF Last(done).chars + 1 + line.chars > SectionLimit
  THEN Append(done, Extended(Heading(50), line))
  ELSE [done EXCEPT ![Len(done)] = Extended(@, line)]

\* The lines under their header, one section after the other.
Sections(header, lines) == FoldInOrder(Packed, <<Heading(header)>>, lines)

\* The first n of a set of indexes.
First(n, S) == {i \in S : Cardinality({j \in S : j < i}) < n}

\* The entries that are the first of their target.
Firsts(entries) == {i \in DOMAIN entries : \A j \in 1 .. i - 1 : entries[j].target # entries[i].target}

RowedFirsts(entries) == First(RowCap, Firsts(entries))

\* Rows go to each target's first entry, then to more entries, up to the cap.
Rows(entries) ==
  LET firsts == RowedFirsts(entries)
  IN firsts \cup First(RowCap - Cardinality(firsts), DOMAIN entries \ firsts)

\* A name joins the last line, or begins one, and no line reaches the clip.
Joined(done, entry) ==
  LET name == [chars |-> 3 + Clip(entry.name, FieldLimit), names |-> {entry.target}] IN
  IF Last(done).chars + name.chars > LineLimit
  THEN Append(done, [name EXCEPT !.chars = @ + 26])
  ELSE [done EXCEPT ![Len(done)] = [chars |-> @.chars + name.chars, names |-> @.names \cup name.names]]

\* Names laid out in lines of their own.
NameLines(named) == FoldInOrder(Joined, <<Heading(NamesHeading)>>, named)

\* The entries of the targets left without a row.
Unrowed(entries) == Those(entries, Firsts(entries) \ RowedFirsts(entries))

\* Slip: the line being filled when the names run out is forgotten.
AlsoAffectedCut(entries) == IF Unrowed(entries) = <<>> THEN <<>> ELSE Front(NameLines(Unrowed(entries)))

\* They are still named, by name alone.
AlsoAffected(entries) == IF Unrowed(entries) = <<>> THEN <<>> ELSE NameLines(Unrowed(entries))

\* namedListSections, and with no entries the formatters' early return.
NamedList(entries) ==
  LET rows == Those(entries, Rows(entries))
      more == IF Len(entries) > Len(rows) THEN <<Heading(85)>> ELSE <<>>
  IN IF entries = <<>> THEN <<>>
     ELSE Sections(230, [i \in DOMAIN rows |-> Line(rows[i])] \o AlsoAffected(entries) \o more)

\* formatFailedTargets and formatUndeliveredAlerts: nobody is left out.
FullList(entries) ==
  IF entries = <<>> THEN <<>> ELSE Sections(140, [i \in DOMAIN entries |-> Line(entries[i])])
===============================================================================
