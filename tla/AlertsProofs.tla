----------------------------- MODULE AlertsProofs -----------------------------
(***************************************************************************)
(* Theorems about the alerts of a target and the summary of a run, for     *)
(* findings, lists and texts of any length.                                *)
(***************************************************************************)
EXTENDS Alerts, DataLemmas

(***************************************************************************)
(* Lines and sections, and whom they name.                                 *)
(***************************************************************************)
Lines(limit) == [chars : 0 .. limit, names : SUBSET Subjects]
Stack(limit) == Seq(Lines(limit)) \ {<<>>}
Named(lines) == UNION {lines[i].names : i \in DOMAIN lines}

\* The last of a stack, and a stack longer by one or changed at its end.
LEMMA EndOfStack ==
  ASSUME NEW limit, NEW done \in Stack(limit)
  PROVE  /\ Len(done) \in Nat \ {0} /\ DOMAIN done = 1 .. Len(done) /\ Len(done) \in DOMAIN done
         /\ done \in [1 .. Len(done) -> Lines(limit)]
         /\ Last(done) = done[Len(done)] /\ Last(done) \in Lines(limit)
         /\ Last(done).names \subseteq Named(done)
<1>1. done \in Seq(Lines(limit)) /\ done # <<>>
  BY DEF Stack
<1>2. /\ Len(done) \in Nat /\ Len(done) # 0 /\ DOMAIN done = 1 .. Len(done)
      /\ done \in [1 .. Len(done) -> Lines(limit)]
  BY <1>1
<1>3. Len(done) \in 1 .. Len(done)
  BY <1>2
<1>4. Last(done) = done[Len(done)]
  BY DEF Last
<1> QED
  BY <1>2, <1>3, <1>4 DEF Named

LEMMA LongerStack ==
  ASSUME NEW limit, NEW done \in Stack(limit), NEW line \in Lines(limit)
  PROVE  /\ Append(done, line) \in Stack(limit)
         /\ Named(Append(done, line)) = Named(done) \cup line.names
<1> DEFINE n == Len(done)
           after == Append(done, line)
<1>1. done \in Seq(Lines(limit))
  BY DEF Stack
<1>2. n \in Nat /\ DOMAIN done = 1 .. n
  BY <1>1
<1>3. /\ after \in Seq(Lines(limit)) /\ after # <<>>
      /\ DOMAIN after = 1 .. n + 1 /\ after[n + 1] = line
      /\ \A i \in 1 .. n : after[i] = done[i]
  BY <1>1
<1> HIDE DEF n, after
<1>4. 1 .. n + 1 = 1 .. n \cup {n + 1}
  BY <1>2
<1>5. Named(after) = Named(done) \cup line.names
  BY <1>2, <1>3, <1>4 DEF Named
<1> QED
  BY <1>3, <1>5 DEF Stack, after

Swapped(done, line) == [done EXCEPT ![Len(done)] = line]

LEMMA ChangedStack ==
  ASSUME NEW limit, NEW done \in Stack(limit), NEW line \in Lines(limit), Last(done).names \subseteq line.names
  PROVE  /\ Swapped(done, line) \in Stack(limit)
         /\ Named(Swapped(done, line)) = Named(done) \cup line.names
<1> DEFINE n == Len(done)
           L == Lines(limit)
           after == [done EXCEPT ![n] = line]
<1>1. n \in Nat \ {0} /\ DOMAIN done = 1 .. n /\ n \in 1 .. n /\ done \in [1 .. n -> L] /\ Last(done) = done[n]
  BY EndOfStack
<1>2. done[n].names \subseteq line.names
  BY <1>1
<1> HIDE DEF n, L
<1>3. line \in L
  BY DEF L
<1>4. /\ after \in [1 .. n -> L] /\ DOMAIN after = 1 .. n /\ after[n] = line
      /\ \A i \in 1 .. n : i # n => after[i] = done[i]
  BY <1>1, <1>3
<1> HIDE DEF after
<1>5. after \in Seq(L)
  BY <1>1, <1>4
<1>6. after # <<>>
  BY <1>1, <1>4
<1>7. Named(after) \subseteq Named(done) \cup line.names
  BY <1>1, <1>4 DEF Named
<1>8. Named(done) \cup line.names \subseteq Named(after)
  BY <1>1, <1>2, <1>4 DEF Named
<1> QED
  BY <1>5, <1>6, <1>7, <1>8 DEF Stack, after, L, n, Swapped

\* No section outgrows its limit, and none forgets a name.
LEMMA PackedFits ==
  ASSUME NEW done \in Stack(SectionLimit), NEW line \in Lines(1401)
  PROVE  /\ Packed(done, line) \in Stack(SectionLimit)
         /\ Named(Packed(done, line)) = Named(done) \cup line.names
<1>0. SectionLimit \in Nat /\ SectionLimit = 2900
  BY DEF SectionLimit
<1>1. line.chars \in 0 .. 1401 /\ line.names \in SUBSET Subjects
  BY DEF Lines
<1>2. Last(done) \in Lines(SectionLimit) /\ Last(done) = done[Len(done)] /\ Last(done).names \subseteq Named(done)
  BY EndOfStack
<1>3. CASE Last(done).chars + 1 + line.chars > SectionLimit
  <2> DEFINE fresh == Extended(Heading(50), line)
  <2>1. fresh \in Lines(SectionLimit) /\ fresh.names = line.names
    BY <1>0, <1>1 DEF Extended, Lines, Heading
  <2>2. Packed(done, line) = Append(done, fresh)
    BY <1>3 DEF Packed
  <2> HIDE DEF fresh
  <2> QED
    BY <2>1, <2>2, LongerStack
<1>4. CASE ~(Last(done).chars + 1 + line.chars > SectionLimit)
  <2> DEFINE longer == Extended(Last(done), line)
  <2>1. /\ longer \in Lines(SectionLimit) /\ Last(done).names \subseteq longer.names
        /\ longer.names = Last(done).names \cup line.names
    <3>1. Last(done).chars \in 0 .. SectionLimit /\ Last(done).names \in SUBSET Subjects
      <4>1. Last(done) \in [chars : 0 .. SectionLimit, names : SUBSET Subjects]
        BY <1>2 DEF Lines
      <4> QED
        BY <4>1
    <3> DEFINE top == Last(done)
    <3> HIDE DEF top
    <3>2. top.chars + 1 + line.chars \in 0 .. SectionLimit
      <4> DEFINE m == top.chars
                 k == line.chars
      <4>1. m \in 0 .. 2900 /\ k \in 0 .. 1401 /\ ~(m + 1 + k > 2900)
        BY <1>0, <1>1, <1>4, <3>1 DEF top
      <4> HIDE DEF m, k
      <4>2. m + 1 + k \in 0 .. 2900
        BY <4>1
      <4> QED
        BY <1>0, <4>2 DEF m, k
    <3>3. top.names \cup line.names \in SUBSET Subjects
      BY <1>1, <3>1 DEF top
    <3>4. longer = [chars |-> top.chars + 1 + line.chars, names |-> top.names \cup line.names]
      BY DEF Extended, top
    <3> HIDE DEF longer
    <3>5. longer \in Lines(SectionLimit) /\ longer.names = top.names \cup line.names
      BY <3>2, <3>3, <3>4 DEF Lines
    <3> QED
      BY <3>5 DEF top
  <2>2. Packed(done, line) = [done EXCEPT ![Len(done)] = longer]
    BY <1>2, <1>4 DEF Packed
  <2> HIDE DEF longer
  <2>3. /\ Packed(done, line) \in Stack(SectionLimit)
        /\ Named(Packed(done, line)) = Named(done) \cup longer.names
    <3>1. /\ Swapped(done, longer) \in Stack(SectionLimit)
          /\ Named(Swapped(done, longer)) = Named(done) \cup longer.names
      BY <2>1, ChangedStack
    <3>2. Packed(done, line) = Swapped(done, longer)
      BY <2>2 DEF Swapped
    <3> QED
      BY <3>1, <3>2
  <2> QED
    BY <1>2, <2>1, <2>3
<1> QED
  BY <1>3, <1>4

LEMMA JoinedFits ==
  ASSUME NEW done \in Stack(LineLimit), NEW entry \in Entries
  PROVE  /\ Joined(done, entry) \in Stack(LineLimit)
         /\ Named(Joined(done, entry)) = Named(done) \cup {entry.target}
<1> DEFINE name == [chars |-> 3 + Clip(entry.name, FieldLimit), names |-> {entry.target}]
<1>1. name.chars \in 0 .. 304 /\ name.names = {entry.target} /\ entry.target \in Subjects
  BY DEF Entries, Clip, FieldLimit
<1>2. Last(done) \in Lines(LineLimit) /\ Last(done) = done[Len(done)] /\ Last(done).names \subseteq Named(done)
  BY EndOfStack
<1>3. CASE Last(done).chars + name.chars > LineLimit
  <2> DEFINE fresh == [name EXCEPT !.chars = @ + 26]
  <2>1. fresh \in Lines(LineLimit) /\ fresh.names = {entry.target}
    BY <1>1 DEF Lines, LineLimit
  <2>2. Joined(done, entry) = Append(done, fresh)
    BY <1>3 DEF Joined
  <2> HIDE DEF fresh
  <2> QED
    BY <2>1, <2>2, LongerStack
<1>4. CASE ~(Last(done).chars + name.chars > LineLimit)
  <2> DEFINE longer == [chars |-> Last(done).chars + name.chars, names |-> Last(done).names \cup name.names]
  <2>1. /\ longer \in Lines(LineLimit) /\ Last(done).names \subseteq longer.names
        /\ longer.names = Last(done).names \cup {entry.target}
    <3>1. Last(done).chars \in 0 .. LineLimit /\ Last(done).names \in SUBSET Subjects
      <4>1. Last(done) \in [chars : 0 .. LineLimit, names : SUBSET Subjects]
        BY <1>2 DEF Lines
      <4> QED
        BY <4>1
    <3> DEFINE top == Last(done)
    <3> HIDE DEF top, name
    <3>2. top.chars + name.chars \in 0 .. LineLimit
      <4> DEFINE m == top.chars
                 k == name.chars
      <4>1. m \in 0 .. 1400 /\ k \in 0 .. 304 /\ ~(m + k > 1400)
        BY <1>1, <1>4, <3>1 DEF top, LineLimit
      <4> HIDE DEF m, k
      <4>2. m + k \in 0 .. 1400
        BY <4>1
      <4> QED
        BY <4>2 DEF m, k, LineLimit
    <3>3. top.names \cup name.names \in SUBSET Subjects
      BY <1>1, <3>1 DEF top
    <3>4. longer = [chars |-> top.chars + name.chars, names |-> top.names \cup name.names]
      BY DEF top
    <3> HIDE DEF longer
    <3>5. longer \in Lines(LineLimit) /\ longer.names = top.names \cup {entry.target}
      BY <1>1, <3>2, <3>3, <3>4 DEF Lines
    <3> QED
      BY <3>5 DEF top
  <2>2. Joined(done, entry) = [done EXCEPT ![Len(done)] = longer]
    BY <1>2, <1>4 DEF Joined
  <2> HIDE DEF longer, name
  <2>3. /\ Joined(done, entry) \in Stack(LineLimit)
        /\ Named(Joined(done, entry)) = Named(done) \cup longer.names
    <3>1. /\ Swapped(done, longer) \in Stack(LineLimit)
          /\ Named(Swapped(done, longer)) = Named(done) \cup longer.names
      BY <2>1, ChangedStack
    <3>2. Joined(done, entry) = Swapped(done, longer)
      BY <2>2 DEF Swapped
    <3> QED
      BY <3>1, <3>2
  <2> QED
    BY <1>2, <2>1, <2>3
<1> QED
  BY <1>3, <1>4

\* The size of a row, cell by cell.
LEMMA SizeSteps ==
  ASSUME NEW cells \in Seq(Nat)
  PROVE  \E f : f \in [0 .. Len(cells) -> Nat] /\ RowSize(cells) = f[Len(cells)] /\ f[0] = 0 /\ \A k \in 1 .. Len(cells) : f[k] = Wider(f[k - 1], cells[k])
<1> DEFINE n == Len(cells)
           S == Nat
           step == [p \in Nat \X S |-> IF p[1] \in 1 .. n THEN Wider(p[2], cells[p[1]]) ELSE p[2]]
<1>1. n \in Nat /\ DOMAIN cells = 1 .. n /\ 0 \in S
  OBVIOUS
<1>2. ASSUME NEW s \in S, NEW k \in 1 .. n PROVE Wider(s, cells[k]) \in S
  BY DEF Wider, Lowest2, CellCap
<1>3. step \in [Nat \X S -> S]
  BY <1>2
<1> HIDE DEF n, S
<1>4. PICK g \in [0 .. n -> S] : g[0] = 0 /\ \A k \in 1 .. n : g[k] = step[<<k, g[k - 1]>>]
  <2> HIDE DEF step
  <2>1. Courses(S, 0, step, n) # {}
    BY <1>1, <1>3, Recursion
  <2> QED
    BY <2>1 DEF Courses
<1>5. ASSUME NEW k \in 1 .. n PROVE g[k] = Wider(g[k - 1], cells[k])
  <2>1. k \in Nat /\ k - 1 \in 0 .. n
    BY <1>1
  <2>2. <<k, g[k - 1]>> \in Nat \X S
    BY <2>1
  <2> QED
    BY <1>4, <2>2
<1>6. g = [k \in 0 .. n |-> IF k = 0 THEN 0 ELSE Wider(g[k - 1], cells[k])]
  <2>1. ASSUME NEW k \in 0 .. n PROVE g[k] = IF k = 0 THEN 0 ELSE Wider(g[k - 1], cells[k])
    <3>1. k = 0 \/ k \in 1 .. n
      BY <1>1
    <3> QED
      BY <1>1, <1>4, <1>5, <3>1
  <2> QED
    BY <1>4, <2>1
<1>7. PICK f : /\ f = [k \in 0 .. n |-> IF k = 0 THEN 0 ELSE Wider(f[k - 1], cells[k])]
               /\ RowSize(cells) = f[n]
  BY <1>6 DEF RowSize, FoldInOrder, n
<1>8. /\ DOMAIN f = 0 .. n /\ f[0] = 0
      /\ \A k \in 1 .. n : f[k] = Wider(f[k - 1], cells[k])
  <2>1. 0 \in 0 .. n /\ \A k \in 1 .. n : k \in 0 .. n /\ k # 0
    BY <1>1
  <2> QED
    BY <1>7, <2>1
<1>9. 0 .. n \subseteq {k \in 0 .. n : f[k] \in S}
  <2> DEFINE U == {k \in 0 .. n : f[k] \in S}
  <2>1. 0 \in U
    BY <1>1, <1>8
  <2>2. ASSUME NEW k \in 1 .. n, k - 1 \in U PROVE k \in U
    BY <1>1, <1>2, <1>8, <2>2
  <2> HIDE DEF U
  <2>3. 0 .. n \subseteq U
    BY <1>1, <2>1, <2>2, SetInductionUpTo
  <2> QED
    BY <2>3 DEF U
<1>10. f \in [0 .. n -> S]
  BY <1>7, <1>9
<1>11. f \in [0 .. n -> S] /\ RowSize(cells) = f[n] /\ f[0] = 0 /\ \A k \in 1 .. n : f[k] = Wider(f[k - 1], cells[k])
  <2>1. RowSize(cells) = f[n]
    BY <1>7
  <2> QED
    BY <1>8, <1>10, <2>1
<1> QED
  BY <1>11 DEF n, S

\* The characters of a table, row by row.
LEMMA UsedSteps ==
  ASSUME NEW sizes \in Seq(Nat)
  PROVE  \E f : f \in [0 .. Len(sizes) -> Nat] /\ Used(sizes) = f /\ f[0] = TableHeader /\ \A k \in 1 .. Len(sizes) : f[k] = f[k - 1] + sizes[k]
<1> DEFINE n == Len(sizes)
           S == Nat
           step == [p \in Nat \X S |-> IF p[1] \in 1 .. n THEN p[2] + sizes[p[1]] ELSE p[2]]
<1>1. n \in Nat /\ DOMAIN sizes = 1 .. n /\ TableHeader \in S
  BY DEF TableHeader
<1>2. ASSUME NEW s \in S, NEW k \in 1 .. n PROVE s + sizes[k] \in S
  OBVIOUS
<1>3. step \in [Nat \X S -> S]
  BY <1>2
<1> HIDE DEF n, S
<1>4. PICK g \in [0 .. n -> S] : g[0] = TableHeader /\ \A k \in 1 .. n : g[k] = step[<<k, g[k - 1]>>]
  <2> HIDE DEF step
  <2>1. Courses(S, TableHeader, step, n) # {}
    BY <1>1, <1>3, Recursion
  <2> QED
    BY <2>1 DEF Courses
<1>5. ASSUME NEW k \in 1 .. n PROVE g[k] = g[k - 1] + sizes[k]
  <2>1. k \in Nat /\ k - 1 \in 0 .. n
    BY <1>1
  <2>2. <<k, g[k - 1]>> \in Nat \X S
    BY <2>1
  <2> QED
    BY <1>4, <2>2
<1>6. g = [k \in 0 .. n |-> IF k = 0 THEN TableHeader ELSE g[k - 1] + sizes[k]]
  <2>1. ASSUME NEW k \in 0 .. n PROVE g[k] = IF k = 0 THEN TableHeader ELSE g[k - 1] + sizes[k]
    <3>1. k = 0 \/ k \in 1 .. n
      BY <1>1
    <3> QED
      BY <1>1, <1>4, <1>5, <3>1
  <2> QED
    BY <1>4, <2>1
<1>7. PICK f : /\ f = [k \in 0 .. n |-> IF k = 0 THEN TableHeader ELSE f[k - 1] + sizes[k]]
               /\ Used(sizes) = f
  BY <1>6 DEF Used, n
<1>8. /\ DOMAIN f = 0 .. n /\ f[0] = TableHeader
      /\ \A k \in 1 .. n : f[k] = f[k - 1] + sizes[k]
  <2>1. 0 \in 0 .. n /\ \A k \in 1 .. n : k \in 0 .. n /\ k # 0
    BY <1>1
  <2> QED
    BY <1>7, <2>1
<1>9. 0 .. n \subseteq {k \in 0 .. n : f[k] \in S}
  <2> DEFINE U == {k \in 0 .. n : f[k] \in S}
  <2>1. 0 \in U
    BY <1>1, <1>8
  <2>2. ASSUME NEW k \in 1 .. n, k - 1 \in U PROVE k \in U
    BY <1>1, <1>2, <1>8, <2>2
  <2> HIDE DEF U
  <2>3. 0 .. n \subseteq U
    BY <1>1, <2>1, <2>2, SetInductionUpTo
  <2> QED
    BY <2>3 DEF U
<1>10. f \in [0 .. n -> S]
  BY <1>7, <1>9
<1>11. f \in [0 .. n -> S] /\ Used(sizes) = f /\ f[0] = TableHeader /\ \A k \in 1 .. n : f[k] = f[k - 1] + sizes[k]
  <2>1. Used(sizes) = f
    BY <1>7
  <2> QED
    BY <1>8, <1>10, <2>1
<1> QED
  BY <1>11 DEF n, S

\* A list in sections, line by line.
LEMMA PackSteps ==
  ASSUME NEW header \in 0 .. SectionLimit, NEW lines \in Seq(Lines(1401))
  PROVE  \E f : f \in [0 .. Len(lines) -> Stack(SectionLimit)] /\ Sections(header, lines) = f[Len(lines)] /\ f[0] = <<Heading(header)>> /\ \A k \in 1 .. Len(lines) : f[k] = Packed(f[k - 1], lines[k])
<1> DEFINE base == <<Heading(header)>>
           n == Len(lines)
           S == Stack(SectionLimit)
           step == [p \in Nat \X S |-> IF p[1] \in 1 .. n THEN Packed(p[2], lines[p[1]]) ELSE p[2]]
<1>1. n \in Nat /\ DOMAIN lines = 1 .. n /\ base \in S
  <2>1. Heading(header) \in Lines(SectionLimit)
    BY DEF Lines, Heading
  <2>2. <<Heading(header)>> \in S
    BY <2>1 DEF Stack
  <2>3. n \in Nat /\ DOMAIN lines = 1 .. n
    OBVIOUS
  <2> QED
    BY <2>2, <2>3
<1>2. ASSUME NEW s \in S, NEW k \in 1 .. n PROVE Packed(s, lines[k]) \in S
  BY PackedFits
<1>3. step \in [Nat \X S -> S]
  BY <1>2
<1> HIDE DEF n, S, base
<1>4. PICK g \in [0 .. n -> S] : g[0] = base /\ \A k \in 1 .. n : g[k] = step[<<k, g[k - 1]>>]
  <2> HIDE DEF step
  <2>1. Courses(S, base, step, n) # {}
    BY <1>1, <1>3, Recursion
  <2> QED
    BY <2>1 DEF Courses
<1>5. ASSUME NEW k \in 1 .. n PROVE g[k] = Packed(g[k - 1], lines[k])
  <2>1. k \in Nat /\ k - 1 \in 0 .. n
    BY <1>1
  <2>2. <<k, g[k - 1]>> \in Nat \X S
    BY <2>1
  <2> QED
    BY <1>4, <2>2
<1>6. g = [k \in 0 .. n |-> IF k = 0 THEN base ELSE Packed(g[k - 1], lines[k])]
  <2>1. ASSUME NEW k \in 0 .. n PROVE g[k] = IF k = 0 THEN base ELSE Packed(g[k - 1], lines[k])
    <3>1. k = 0 \/ k \in 1 .. n
      BY <1>1
    <3> QED
      BY <1>1, <1>4, <1>5, <3>1
  <2> QED
    BY <1>4, <2>1
<1>7. PICK f : /\ f = [k \in 0 .. n |-> IF k = 0 THEN base ELSE Packed(f[k - 1], lines[k])]
               /\ Sections(header, lines) = f[n]
  BY <1>6 DEF Sections, FoldInOrder, n, base
<1>8. /\ DOMAIN f = 0 .. n /\ f[0] = base
      /\ \A k \in 1 .. n : f[k] = Packed(f[k - 1], lines[k])
  <2>1. 0 \in 0 .. n /\ \A k \in 1 .. n : k \in 0 .. n /\ k # 0
    BY <1>1
  <2> QED
    BY <1>7, <2>1
<1>9. 0 .. n \subseteq {k \in 0 .. n : f[k] \in S}
  <2> DEFINE U == {k \in 0 .. n : f[k] \in S}
  <2>1. 0 \in U
    BY <1>1, <1>8
  <2>2. ASSUME NEW k \in 1 .. n, k - 1 \in U PROVE k \in U
    BY <1>1, <1>2, <1>8, <2>2
  <2> HIDE DEF U
  <2>3. 0 .. n \subseteq U
    BY <1>1, <2>1, <2>2, SetInductionUpTo
  <2> QED
    BY <2>3 DEF U
<1>10. f \in [0 .. n -> S]
  BY <1>7, <1>9
<1>11. f \in [0 .. n -> S] /\ Sections(header, lines) = f[n] /\ f[0] = base /\ \A k \in 1 .. n : f[k] = Packed(f[k - 1], lines[k])
  <2>1. Sections(header, lines) = f[n]
    BY <1>7
  <2> QED
    BY <1>8, <1>10, <2>1
<1>12. \E h : h \in [0 .. n -> S] /\ Sections(header, lines) = h[n] /\ h[0] = base /\ \A k \in 1 .. n : h[k] = Packed(h[k - 1], lines[k])
  BY <1>11, Zenon
<1> QED
  BY <1>12, Zenon DEF n, S, base

\* Names in lines, name by name.
LEMMA NameSteps ==
  ASSUME NEW named \in Seq(Entries)
  PROVE  \E f : f \in [0 .. Len(named) -> Stack(LineLimit)] /\ NameLines(named) = f[Len(named)] /\ f[0] = <<Heading(NamesHeading)>> /\ \A k \in 1 .. Len(named) : f[k] = Joined(f[k - 1], named[k])
<1> DEFINE base == <<Heading(NamesHeading)>>
           n == Len(named)
           S == Stack(LineLimit)
           step == [p \in Nat \X S |-> IF p[1] \in 1 .. n THEN Joined(p[2], named[p[1]]) ELSE p[2]]
<1>1. n \in Nat /\ DOMAIN named = 1 .. n /\ base \in S
  <2>1. Heading(NamesHeading) \in Lines(LineLimit)
    BY DEF Lines, LineLimit, Heading, NamesHeading
  <2>2. base \in Seq(Lines(LineLimit))
    BY <2>1
  <2>3. base \in S
    BY <2>2 DEF Stack
  <2>4. n \in Nat /\ DOMAIN named = 1 .. n
    OBVIOUS
  <2> QED
    BY <2>3, <2>4
<1>2. ASSUME NEW s \in S, NEW k \in 1 .. n PROVE Joined(s, named[k]) \in S
  BY JoinedFits
<1>3. step \in [Nat \X S -> S]
  BY <1>2
<1> HIDE DEF n, S, base
<1>4. PICK g \in [0 .. n -> S] : g[0] = base /\ \A k \in 1 .. n : g[k] = step[<<k, g[k - 1]>>]
  <2> HIDE DEF step
  <2>1. Courses(S, base, step, n) # {}
    BY <1>1, <1>3, Recursion
  <2> QED
    BY <2>1 DEF Courses
<1>5. ASSUME NEW k \in 1 .. n PROVE g[k] = Joined(g[k - 1], named[k])
  <2>1. k \in Nat /\ k - 1 \in 0 .. n
    BY <1>1
  <2>2. <<k, g[k - 1]>> \in Nat \X S
    BY <2>1
  <2> QED
    BY <1>4, <2>2
<1>6. g = [k \in 0 .. n |-> IF k = 0 THEN base ELSE Joined(g[k - 1], named[k])]
  <2>1. ASSUME NEW k \in 0 .. n PROVE g[k] = IF k = 0 THEN base ELSE Joined(g[k - 1], named[k])
    <3>1. k = 0 \/ k \in 1 .. n
      BY <1>1
    <3> QED
      BY <1>1, <1>4, <1>5, <3>1
  <2> QED
    BY <1>4, <2>1
<1>7. PICK f : /\ f = [k \in 0 .. n |-> IF k = 0 THEN base ELSE Joined(f[k - 1], named[k])]
               /\ NameLines(named) = f[n]
  BY <1>6 DEF NameLines, FoldInOrder, n, base
<1>8. /\ DOMAIN f = 0 .. n /\ f[0] = base
      /\ \A k \in 1 .. n : f[k] = Joined(f[k - 1], named[k])
  <2>1. 0 \in 0 .. n /\ \A k \in 1 .. n : k \in 0 .. n /\ k # 0
    BY <1>1
  <2> QED
    BY <1>7, <2>1
<1>9. 0 .. n \subseteq {k \in 0 .. n : f[k] \in S}
  <2> DEFINE U == {k \in 0 .. n : f[k] \in S}
  <2>1. 0 \in U
    BY <1>1, <1>8
  <2>2. ASSUME NEW k \in 1 .. n, k - 1 \in U PROVE k \in U
    BY <1>1, <1>2, <1>8, <2>2
  <2> HIDE DEF U
  <2>3. 0 .. n \subseteq U
    BY <1>1, <2>1, <2>2, SetInductionUpTo
  <2> QED
    BY <2>3 DEF U
<1>10. f \in [0 .. n -> S]
  BY <1>7, <1>9
<1>11. f \in [0 .. n -> S] /\ NameLines(named) = f[n] /\ f[0] = base /\ \A k \in 1 .. n : f[k] = Joined(f[k - 1], named[k])
  <2>1. NameLines(named) = f[n]
    BY <1>7
  <2> QED
    BY <1>8, <1>10, <2>1
<1> QED
  BY <1>11 DEF n, S, base
\* No section of a list outgrows its limit, and together they name whom the lines name.
LEMMA SectionsFit ==
  ASSUME NEW header \in 0 .. SectionLimit, NEW lines \in Seq(Lines(1401))
  PROVE  Sections(header, lines) \in Stack(SectionLimit) /\ Named(Sections(header, lines)) = Named(lines)
<1> DEFINE n == Len(lines)
           So(k) == UNION {lines[i].names : i \in 1 .. k}
<1>1. n \in Nat /\ DOMAIN lines = 1 .. n /\ \A k \in 1 .. n : lines[k] \in Lines(1401)
  OBVIOUS
<1>2. PICK f : /\ f \in [0 .. n -> Stack(SectionLimit)] /\ Sections(header, lines) = f[n]
               /\ f[0] = <<Heading(header)>> /\ \A k \in 1 .. n : f[k] = Packed(f[k - 1], lines[k])
  BY PackSteps
<1> HIDE DEF n
<1> DEFINE U == {k \in 0 .. n : Named(f[k]) = So(k)}
<1>3. 0 \in U
  <2>1. Named(f[0]) = {}
    BY <1>2 DEF Named, Heading
  <2> QED
    BY <1>1, <2>1
<1>4. ASSUME NEW k \in 1 .. n, k - 1 \in U PROVE k \in U
  <2>1. f[k - 1] \in Stack(SectionLimit) /\ k \in 0 .. n /\ f[k] = Packed(f[k - 1], lines[k])
    BY <1>1, <1>2
  <2>2. Named(f[k]) = Named(f[k - 1]) \cup lines[k].names
    BY <1>1, <2>1, PackedFits
  <2>3. 1 .. k = 1 .. (k - 1) \cup {k}
    BY <1>1
  <2>4. So(k) = So(k - 1) \cup lines[k].names
    BY <2>3
  <2> QED
    BY <1>4, <2>1, <2>2, <2>4
<1> HIDE DEF U
<1>5. n \in U
  <2>1. n \in Nat
    BY <1>1
  <2>2. 0 .. n \subseteq U
    BY <1>3, <1>4, <2>1, SetInductionUpTo
  <2> QED
    BY <2>1, <2>2
<1>6. n \in 0 .. n /\ Named(f[n]) = So(n)
  BY <1>5 DEF U
<1>7. So(n) = Named(lines)
  BY <1>1 DEF Named
<1>8. f[n] \in Stack(SectionLimit)
  BY <1>2, <1>6
<1> QED
  BY <1>2, <1>6, <1>7, <1>8

LEMMA NameLinesFit ==
  ASSUME NEW named \in Seq(Entries)
  PROVE  /\ NameLines(named) \in Stack(LineLimit)
         /\ Named(NameLines(named)) = {named[i].target : i \in DOMAIN named}
<1> DEFINE n == Len(named)
           So(k) == {named[i].target : i \in 1 .. k}
<1>1. n \in Nat /\ DOMAIN named = 1 .. n /\ \A k \in 1 .. n : named[k] \in Entries
  OBVIOUS
<1>2. PICK f : /\ f \in [0 .. n -> Stack(LineLimit)] /\ NameLines(named) = f[n]
               /\ f[0] = <<Heading(NamesHeading)>> /\ \A k \in 1 .. n : f[k] = Joined(f[k - 1], named[k])
  BY NameSteps
<1> HIDE DEF n
<1> DEFINE U == {k \in 0 .. n : Named(f[k]) = So(k)}
<1>3. 0 \in U
  <2>1. Named(f[0]) = {}
    BY <1>2 DEF Named, Heading
  <2> QED
    BY <1>1, <2>1
<1>4. ASSUME NEW k \in 1 .. n, k - 1 \in U PROVE k \in U
  <2>1. f[k - 1] \in Stack(LineLimit) /\ k \in 0 .. n /\ f[k] = Joined(f[k - 1], named[k])
    BY <1>1, <1>2
  <2>2. Named(f[k]) = Named(f[k - 1]) \cup {named[k].target}
    BY <1>1, <2>1, JoinedFits
  <2>3. 1 .. k = 1 .. (k - 1) \cup {k}
    BY <1>1
  <2>4. So(k) = So(k - 1) \cup {named[k].target}
    BY <2>3
  <2> QED
    BY <1>4, <2>1, <2>2, <2>4
<1> HIDE DEF U
<1>5. n \in U
  BY <1>1, <1>3, <1>4, SetInductionUpTo
<1> QED
  BY <1>1, <1>2, <1>5 DEF U

LEMMA RowSizes == \A cells \in Seq(Nat) : RowSize(cells) \in Nat
<1> SUFFICES ASSUME NEW cells \in Seq(Nat) PROVE RowSize(cells) \in Nat
  OBVIOUS
<1>1. PICK f : f \in [0 .. Len(cells) -> Nat] /\ RowSize(cells) = f[Len(cells)]
  BY SizeSteps
<1>2. Len(cells) \in 0 .. Len(cells)
  OBVIOUS
<1> QED
  BY <1>1, <1>2

(***************************************************************************)
(* Parts of lists.                                                         *)
(***************************************************************************)
\* A set of numbers that has, with each, the one before it.
LEMMA BeginsTheList ==
  ASSUME NEW n \in Nat, NEW T \in SUBSET (1 .. n), \A k \in T : k # 1 => k - 1 \in T
  PROVE  Cardinality(T) \in 0 .. n /\ T = 1 .. Cardinality(T)
<1>1. CASE T = 1 .. n
  <2>1. Cardinality(1 .. n) = n
    BY FS_Interval
  <2> QED
    BY <1>1, <2>1
<1>2. CASE T # 1 .. n
  <2> DEFINE Out == {k \in Nat : k \in 1 .. n /\ k \notin T}
  <2>1. Out # {} /\ Out \in SUBSET Nat
    <3>1. PICK k \in 1 .. n : k \notin T
      BY <1>2
    <3>2. k \in Out
      BY <3>1
    <3> QED
      BY <3>2
  <2>2. PICK m \in Out : \A k \in Out : m <= k
    BY <2>1, LeastMember
  <2>3. \A k \in T : k < m
    <3> DEFINE V == {d \in Nat : m + d \notin T}
    <3>1. 0 \in V
      BY <2>2
    <3>2. ASSUME NEW d \in V PROVE d + 1 \in V
      <4>1. m + (d + 1) # 1 /\ (m + (d + 1)) - 1 = m + d
        BY <2>2
      <4> QED
        BY <3>2, <4>1
    <3>3. V = Nat
      <4> HIDE DEF V
      <4>1. V \in SUBSET Nat
        BY DEF V
      <4> QED
        BY <3>1, <3>2, <4>1, SetInduction
    <3> SUFFICES ASSUME NEW k \in T, ~(k < m) PROVE FALSE
      OBVIOUS
    <3>4. k - m \in Nat /\ m + (k - m) = k
      BY <2>2
    <3> QED
      BY <3>3, <3>4
  <2>4. T = 1 .. m - 1
    <3>1. ASSUME NEW k \in 1 .. m - 1 PROVE k \in T
      BY <2>2
    <3>2. ASSUME NEW k \in T PROVE k \in 1 .. m - 1
      <4>1. k \in 1 .. n /\ k < m /\ m \in Nat
        BY <2>2, <2>3
      <4> QED
        BY <4>1
    <3> QED
      BY <3>1, <3>2
  <2>5. m - 1 \in 0 .. n /\ Cardinality(1 .. m - 1) = m - 1
    BY <2>2, FS_Interval
  <2> QED
    BY <2>4, <2>5
<1> QED
  BY <1>1, <1>2

\* The rows that are kept are the first ones, and within the budget.
LEMMA TableFits ==
  ASSUME NEW sizes \in Seq(Nat)
  PROVE  KeptRows(sizes) \in 0 .. Len(sizes) /\ Used(sizes)[KeptRows(sizes)] \in 0 .. TableBudget
<1> DEFINE n == Len(sizes)
           T == {k \in 1 .. n : Used(sizes)[k] <= TableBudget}
<1>1. n \in Nat /\ \A k \in 1 .. n : sizes[k] \in Nat
  OBVIOUS
<1>2. PICK f : /\ f \in [0 .. n -> Nat] /\ Used(sizes) = f
               /\ f[0] = TableHeader /\ \A k \in 1 .. n : f[k] = f[k - 1] + sizes[k]
  BY UsedSteps
<1> HIDE DEF n
<1>3. ASSUME NEW k \in T, k # 1 PROVE k - 1 \in T
  <2>1. k - 1 \in 1 .. n /\ k - 1 \in 0 .. n /\ f[k] <= TableBudget /\ f[k] = f[k - 1] + sizes[k] /\ sizes[k] \in Nat
    BY <1>1, <1>2, <1>3
  <2>2. f[k - 1] \in Nat
    BY <1>2, <2>1
  <2>3. f[k - 1] <= TableBudget
    BY <2>1, <2>2 DEF TableBudget
  <2> QED
    BY <1>2, <2>1, <2>3
<1>4. Cardinality(T) \in 0 .. n /\ T = 1 .. Cardinality(T)
  <2> HIDE DEF T
  <2>1. T \in SUBSET (1 .. n)
    BY DEF T
  <2> QED
    BY <1>1, <1>3, <2>1, BeginsTheList
<1>5. KeptRows(sizes) = Cardinality(T)
  BY DEF KeptRows, n
<1>6. CASE Cardinality(T) = 0
  <2>1. f[0] \in 0 .. TableBudget
    BY <1>2 DEF TableHeader, TableBudget
  <2> QED
    BY <1>2, <1>4, <1>5, <1>6, <2>1 DEF n
<1>7. CASE Cardinality(T) # 0
  <2> DEFINE c == Cardinality(T)
  <2>0. c \in 0 .. n /\ c # 0 /\ T = 1 .. c
    BY <1>4, <1>7
  <2>1. c \in T /\ c \in 0 .. n
    <3> HIDE DEF c, T
    <3> QED
      BY <1>1, <2>0
  <2>2. f[c] \in Nat /\ f[c] <= TableBudget
    BY <1>2, <2>1
  <2>3. f[c] \in 0 .. TableBudget
    <3> DEFINE used == f[c]
    <3>1. used \in Nat /\ used <= TableBudget
      BY <2>2
    <3> HIDE DEF used
    <3>2. used \in 0 .. TableBudget
      BY <3>1 DEF TableBudget
    <3> QED
      BY <3>2 DEF used
  <2> QED
    BY <1>2, <1>5, <2>1, <2>3 DEF n
<1> QED
  BY <1>6, <1>7

\* How many of S come before i, counted from zero.
Rank(S, i) == Cardinality({j \in S : j < i})

\* No two of them have the same rank, so InOrder takes each of S once.
LEMMA InOrderTakesAll ==
  ASSUME NEW n \in Nat, NEW S \in SUBSET (1 .. n)
  PROVE  /\ Cardinality(S) \in 0 .. n
         /\ InOrder(S) \in [1 .. Cardinality(S) -> S]
         /\ \A i \in S : \E k \in 1 .. Cardinality(S) : InOrder(S)[k] = i
<1> DEFINE c == Cardinality(S)
           Before(i) == {j \in S : j < i}
           rank == [i \in S |-> Rank(S, i)]
<1>1. IsFiniteSet(S) /\ c \in 0 .. n
  <2>1. IsFiniteSet(1 .. n) /\ Cardinality(1 .. n) = n
    BY FS_Interval
  <2>2. IsFiniteSet(S) /\ c <= n
    BY <2>1, FS_Subset
  <2>3. c \in Nat
    BY <2>2, FS_CardinalityType
  <2> QED
    BY <2>2, <2>3
<1>2. ASSUME NEW i \in S PROVE Rank(S, i) \in 0 .. c - 1
  <2>1. Before(i) \in SUBSET S /\ i \notin Before(i)
    OBVIOUS
  <2>2. IsFiniteSet(Before(i)) /\ Cardinality(Before(i)) <= c /\ (c = Cardinality(Before(i)) => S = Before(i))
    BY <1>1, <2>1, FS_Subset
  <2>3. Cardinality(Before(i)) \in Nat /\ Cardinality(Before(i)) # c
    BY <2>1, <2>2, FS_CardinalityType
  <2> QED
    BY <1>1, <2>2, <2>3 DEF Rank
<1>3. ASSUME NEW i \in S, NEW j \in S, i < j PROVE Rank(S, i) # Rank(S, j)
  <2>1. Before(i) \in SUBSET Before(j) /\ i \in Before(j) /\ i \notin Before(i)
    <3>1. \A k \in S : k \in Int
      OBVIOUS
    <3>2. \A k \in S : k < i => k < j
      BY <1>3, <3>1
    <3>3. i \in S /\ i < j /\ ~(i < i)
      BY <1>3, <3>1
    <3> QED
      BY <3>2, <3>3
  <2>2. Before(j) \in SUBSET S
    OBVIOUS
  <2>3. IsFiniteSet(Before(j))
    BY <1>1, <2>2, FS_Subset
  <2>4. Cardinality(Before(j)) = Cardinality(Before(i)) => Before(j) = Before(i)
    BY <2>1, <2>3, FS_Subset
  <2> QED
    BY <2>1, <2>4 DEF Rank
<1>4. ASSUME NEW i \in S, NEW j \in S, i # j PROVE Rank(S, i) # Rank(S, j)
  <2>1. i < j \/ j < i
    BY <1>4
  <2> QED
    BY <1>3, <2>1
<1>5. rank \in Surjection(S, 0 .. c - 1)
  <2>1. rank \in [S -> 0 .. c - 1]
    BY <1>2
  <2>2. \A i, j \in S : rank[i] = rank[j] => i = j
    BY <1>4
  <2>3. rank \in Injection(S, 0 .. c - 1)
    BY <2>1, <2>2 DEF Injection, IsInjective
  <2>4. IsFiniteSet(0 .. c - 1) /\ Cardinality(0 .. c - 1) = c
    <3> HIDE DEF c
    <3>1. c - 1 \in Int /\ (IF 0 > c - 1 THEN 0 ELSE (c - 1) - 0 + 1) = c
      BY <1>1
    <3>2. /\ IsFiniteSet(0 .. c - 1)
          /\ Cardinality(0 .. c - 1) = IF 0 > c - 1 THEN 0 ELSE (c - 1) - 0 + 1
      BY <3>1, FS_Interval
    <3> QED
      BY <3>1, <3>2
  <2> QED
    BY <1>1, <2>3, <2>4, FS_Injection
<1>6. \A r \in 0 .. c - 1 : \E i \in S : Rank(S, i) = r
  BY <1>5 DEF Surjection
<1>7. InOrder(S) = [k \in 1 .. c |-> CHOOSE i \in S : Rank(S, i) = k - 1]
  BY DEF InOrder, Rank
<1> HIDE DEF c, rank
<1>8. ASSUME NEW k \in 1 .. c PROVE InOrder(S)[k] \in S /\ Rank(S, InOrder(S)[k]) = k - 1
  <2>1. k - 1 \in 0 .. c - 1
    BY <1>1
  <2>2. \E i \in S : Rank(S, i) = k - 1
    BY <1>6, <2>1
  <2>3. InOrder(S)[k] = CHOOSE i \in S : Rank(S, i) = k - 1
    BY <1>7
  <2> QED
    BY <2>2, <2>3
<1>9. ASSUME NEW i \in S PROVE \E k \in 1 .. c : InOrder(S)[k] = i
  <2>1. Rank(S, i) + 1 \in 1 .. c /\ (Rank(S, i) + 1) - 1 = Rank(S, i)
    BY <1>1, <1>2
  <2>2. InOrder(S)[Rank(S, i) + 1] = i
    BY <1>4, <1>8, <2>1
  <2> QED
    BY <2>1, <2>2
<1>10. InOrder(S) \in [1 .. c -> S]
  BY <1>7, <1>8
<1> QED
  BY <1>1, <1>9, <1>10 DEF c

\* What a sequence has at the indexes of S, and nothing else.
LEMMA ThoseOf ==
  ASSUME NEW E, NEW seq \in Seq(E), NEW S \in SUBSET DOMAIN seq
  PROVE  /\ Those(seq, S) \in Seq(E) /\ Len(Those(seq, S)) = Cardinality(S)
         /\ Cardinality(S) \in 0 .. Len(seq)
         /\ \A k \in DOMAIN Those(seq, S) : \E i \in S : Those(seq, S)[k] = seq[i]
         /\ \A i \in S : \E k \in DOMAIN Those(seq, S) : Those(seq, S)[k] = seq[i]
<1> DEFINE n == Len(seq)
           c == Cardinality(S)
           at == InOrder(S)
<1>1. n \in Nat /\ DOMAIN seq = 1 .. n /\ seq \in [1 .. n -> E]
  OBVIOUS
<1>2. /\ c \in 0 .. n /\ at \in [1 .. c -> S]
      /\ \A i \in S : \E k \in 1 .. c : at[k] = i
  <2> HIDE DEF n
  <2>1. S \in SUBSET (1 .. n)
    BY <1>1
  <2> QED
    BY <1>1, <2>1, InOrderTakesAll
<1> HIDE DEF n, c, at
<1>3. Those(seq, S) = [k \in 1 .. c |-> seq[at[k]]]
  <2>1. DOMAIN at = 1 .. c
    BY <1>2
  <2> QED
    BY <2>1 DEF Those, at
<1>4. c \in Nat
  BY <1>1, <1>2
<1>5. \A k \in 1 .. c : at[k] \in S /\ seq[at[k]] \in E
  BY <1>1, <1>2
<1>6. Those(seq, S) \in Seq(E) /\ Len(Those(seq, S)) = c /\ DOMAIN Those(seq, S) = 1 .. c
  BY <1>3, <1>4, <1>5
<1>7. ASSUME NEW k \in 1 .. c PROVE \E i \in S : Those(seq, S)[k] = seq[i]
  BY <1>3, <1>5
<1>8. ASSUME NEW i \in S PROVE \E k \in 1 .. c : Those(seq, S)[k] = seq[i]
  <2>1. PICK k \in 1 .. c : at[k] = i
    BY <1>2
  <2> QED
    BY <1>3, <2>1
<1>9. c \in 0 .. n
  BY <1>2
<1> QED
  BY <1>6, <1>7, <1>8, <1>9 DEF c, n

(***************************************************************************)
(* The messages of a target.                                               *)
(***************************************************************************)
LEMMA TheKinds ==
  /\ Kinds \in Seq(Range(Kinds)) /\ Len(Kinds) = 6 /\ DOMAIN Kinds = 1 .. 6
  /\ Range(Kinds) = {"unknown_script", "unauthorised_script", "unknown_header", "unauthorised_header", "missing_header", "missing_script"}
  /\ \A kind \in Range(Kinds) : \E i \in 1 .. 6 : Kinds[i] = kind
  /\ \A i \in 1 .. 6 : i \notin {2, 4} => Kinds[i] \notin SplitKinds
BY DEF Kinds, Range, SplitKinds

\* The findings that were taken up and the others are all there are.
LEMMA SplitInTwo ==
  ASSUME NEW findings \in Seq(Findings)
  PROVE  /\ Applied(findings) \in Seq(Findings) /\ Skipped(findings) \in Seq(Findings)
         /\ \A f \in Range(findings) : f \in Range(Applied(findings)) \cup Range(Skipped(findings))
<1> DEFINE A == {i \in DOMAIN findings : findings[i].applied}
           B == {i \in DOMAIN findings : ~findings[i].applied}
<1>1. A \in SUBSET DOMAIN findings /\ B \in SUBSET DOMAIN findings
  OBVIOUS
<1>2. /\ Those(findings, A) \in Seq(Findings)
      /\ \A i \in A : \E k \in DOMAIN Those(findings, A) : Those(findings, A)[k] = findings[i]
  <2> HIDE DEF A
  <2> QED
    BY <1>1, ThoseOf
<1>3. /\ Those(findings, B) \in Seq(Findings)
      /\ \A i \in B : \E k \in DOMAIN Those(findings, B) : Those(findings, B)[k] = findings[i]
  <2> HIDE DEF B
  <2> QED
    BY <1>1, ThoseOf
<1>4. Applied(findings) = Those(findings, A) /\ Skipped(findings) = Those(findings, B)
  BY DEF Applied, Skipped
<1>5. \A i \in DOMAIN findings : i \in A \/ i \in B
  OBVIOUS
<1> HIDE DEF A, B
<1>6. ASSUME NEW f \in Range(findings) PROVE f \in Range(Applied(findings)) \cup Range(Skipped(findings))
  <2>1. PICK i \in DOMAIN findings : findings[i] = f
    BY DEF Range
  <2>2. CASE i \in A
    <3>1. PICK k \in DOMAIN Those(findings, A) : Those(findings, A)[k] = f
      BY <1>2, <2>1, <2>2
    <3> QED
      BY <1>4, <3>1 DEF Range
  <2>3. CASE i \in B
    <3>1. PICK k \in DOMAIN Those(findings, B) : Those(findings, B)[k] = f
      BY <1>3, <2>1, <2>3
    <3> QED
      BY <1>4, <3>1 DEF Range
  <2> QED
    BY <1>5, <2>1, <2>2, <2>3
<1> QED
  BY <1>2, <1>3, <1>4, <1>6

\* However a kind is told, the messages are about it and hold what was found.
LEMMA VariantsHoldAll ==
  ASSUME NEW target, NEW kind \in Range(Kinds), NEW findings \in Seq(Findings)
  PROVE  /\ Variants(target, kind, findings) \in Seq(Sendable)
         /\ Len(Variants(target, kind, findings)) <= IF kind \in SplitKinds THEN 2 ELSE 1
         /\ \A m \in ToSet(Variants(target, kind, findings)) : m.kind = kind
         /\ \A f \in Range(findings) : \E m \in ToSet(Variants(target, kind, findings)) : f \in Range(m.findings)
<1>1. ASSUME NEW says \in Says, NEW fs \in Seq(Findings)
      PROVE  Message(kind, says, fs) \in Sendable /\ Message(kind, says, fs).kind = kind /\ Message(kind, says, fs).findings = fs
  BY DEF Message, Sendable
<1>2. "found" \in Says /\ "mismatch" \in Says /\ "updated" \in Says /\ "manual review" \in Says
  BY DEF Says
<1>3. ASSUME NEW m \in Sendable, NEW k \in Sendable
      PROVE  /\ <<m>> \in Seq(Sendable) /\ Len(<<m>>) = 1 /\ ToSet(<<m>>) = {m}
             /\ <<m, k>> \in Seq(Sendable) /\ Len(<<m, k>>) = 2 /\ ToSet(<<m, k>>) = {m, k}
  BY DEF ToSet
<1>4. CASE kind \notin SplitKinds
  <2>1. Variants(target, kind, findings) = <<Message(kind, "found", findings)>>
    BY <1>4 DEF Variants
  <2> DEFINE m == Message(kind, "found", findings)
  <2>2. m \in Sendable /\ m.kind = kind /\ m.findings = findings
    BY <1>1, <1>2
  <2> HIDE DEF m
  <2>3. <<m>> \in Seq(Sendable) /\ Len(<<m>>) = 1 /\ ToSet(<<m>>) = {m}
    BY <1>3, <2>2
  <2>4. Len(<<m>>) <= IF kind \in SplitKinds THEN 2 ELSE 1
    BY <1>4, <2>3
  <2>5. Variants(target, kind, findings) = <<m>>
    BY <2>1 DEF m
  <2> QED
    BY <2>2, <2>3, <2>4, <2>5
<1>5. CASE kind \in SplitKinds /\ target = "detection"
  <2>1. Variants(target, kind, findings) = <<Message(kind, "mismatch", findings)>>
    BY <1>5 DEF Variants
  <2> DEFINE m == Message(kind, "mismatch", findings)
  <2>2. m \in Sendable /\ m.kind = kind /\ m.findings = findings
    BY <1>1, <1>2
  <2> HIDE DEF m
  <2>3. <<m>> \in Seq(Sendable) /\ Len(<<m>>) = 1 /\ ToSet(<<m>>) = {m}
    BY <1>3, <2>2
  <2>4. Len(<<m>>) <= IF kind \in SplitKinds THEN 2 ELSE 1
    BY <1>5, <2>3
  <2>5. Variants(target, kind, findings) = <<m>>
    BY <2>1 DEF m
  <2> QED
    BY <2>2, <2>3, <2>4, <2>5
<1>6. CASE kind \in SplitKinds /\ target # "detection"
  <2> DEFINE up == Message(kind, "updated", Applied(findings))
             by == Message(kind, "manual review", Skipped(findings))
  <2>1. Variants(target, kind, findings) = <<up, by>>
    BY <1>6, Zenon DEF Variants
  <2>2. /\ Applied(findings) \in Seq(Findings) /\ Skipped(findings) \in Seq(Findings)
        /\ \A f \in Range(findings) : f \in Range(Applied(findings)) \cup Range(Skipped(findings))
    BY SplitInTwo
  <2>3. /\ up \in Sendable /\ up.kind = kind /\ up.findings = Applied(findings)
        /\ by \in Sendable /\ by.kind = kind /\ by.findings = Skipped(findings)
    BY <1>1, <1>2, <2>2
  <2> HIDE DEF up, by
  <2>6. <<up, by>> \in Seq(Sendable) /\ Len(<<up, by>>) = 2 /\ ToSet(<<up, by>>) = {up, by}
    BY <1>3, <2>3
  <2>7. Len(<<up, by>>) <= IF kind \in SplitKinds THEN 2 ELSE 1
    BY <1>6, <2>6
  <2>4. /\ Variants(target, kind, findings) \in Seq(Sendable) /\ Len(Variants(target, kind, findings)) = 2
        /\ ToSet(Variants(target, kind, findings)) = {up, by}
    BY <2>1, <2>6
  <2>5. ASSUME NEW f \in Range(findings) PROVE \E m \in {up, by} : f \in Range(m.findings)
    <3>1. f \in Range(up.findings) \/ f \in Range(by.findings)
      BY <2>2, <2>3
    <3> QED
      BY <3>1
  <2> QED
    BY <2>1, <2>3, <2>4, <2>5, <2>7
<1> QED
  BY <1>4, <1>5, <1>6

\* The messages there are before the empty ones are left out.
AllVariants(target, found) == [i \in DOMAIN Kinds |-> Variants(target, Kinds[i], found[Kinds[i]])]

LEMMA FlattenedVariants ==
  ASSUME NEW target, NEW found \in [Range(Kinds) -> Seq(Findings)]
  PROVE  LET all == FlattenSeq(AllVariants(target, found)) IN
         /\ all \in Seq(Sendable) /\ Len(all) <= 8
         /\ \A i \in 1 .. 6 : ToSet(Variants(target, Kinds[i], found[Kinds[i]])) \subseteq ToSet(all)
<1> DEFINE v == AllVariants(target, found)
           E == Sendable
<1>1. ASSUME NEW i \in 1 .. 6
      PROVE  /\ v[i] = Variants(target, Kinds[i], found[Kinds[i]]) /\ v[i] \in Seq(E)
             /\ Len(v[i]) \in Nat /\ Len(v[i]) <= 2 /\ (i \notin {2, 4} => Len(v[i]) <= 1)
  <2> DEFINE kind == Kinds[i]
             findings == found[Kinds[i]]
             these == Variants(target, kind, findings)
  <2>1. kind \in Range(Kinds) /\ findings \in Seq(Findings) /\ v[i] = these
    <3>1. i \in DOMAIN Kinds /\ Kinds[i] \in Range(Kinds)
      BY TheKinds DEF Range
    <3>2. found[Kinds[i]] \in Seq(Findings)
      BY <3>1
    <3> QED
      BY <3>1, <3>2 DEF AllVariants
  <2>4. i \notin {2, 4} => kind \notin SplitKinds
    BY TheKinds
  <2> HIDE DEF kind, findings
  <2>2. these \in Seq(E) /\ Len(these) <= (IF kind \in SplitKinds THEN 2 ELSE 1)
    BY <2>1, VariantsHoldAll
  <2> HIDE DEF these, v, E
  <2>3. Len(these) \in Nat
    BY <2>2
  <2>5. Len(these) <= 2 /\ (kind \notin SplitKinds => Len(these) <= 1)
    BY <2>2, <2>3
  <2>6. /\ v[i] = these /\ v[i] \in Seq(E)
        /\ Len(v[i]) \in Nat /\ Len(v[i]) <= 2 /\ (i \notin {2, 4} => Len(v[i]) <= 1)
    BY <2>1, <2>2, <2>3, <2>4, <2>5
  <2> QED
    BY <2>6 DEF these, kind, findings
<1>2. v \in Seq(Seq(E)) /\ Len(v) = 6
  <2>1. v = [i \in 1 .. 6 |-> v[i]]
    BY TheKinds DEF AllVariants
  <2> HIDE DEF v, E
  <2>2. \A i \in 1 .. 6 : v[i] \in Seq(E)
    BY <1>1
  <2> DEFINE T == Seq(E)
  <2> HIDE DEF T
  <2>3. v \in [1 .. 6 -> T]
    BY <2>1, <2>2 DEF T
  <2>4. \A n \in Nat : \A w \in [1 .. n -> T] : w \in Seq(T) /\ Len(w) = n
    OBVIOUS
  <2>5. v \in Seq(T) /\ Len(v) = 6
    BY <2>3, <2>4
  <2> QED
    BY <2>5 DEF T
<1> HIDE DEF v, E
<1>3. PICK f : /\ FlattenSeq(v) = f[6] /\ f[1] = v[1]
               /\ \A k \in 2 .. 6 : f[k] = f[k - 1] \o v[k]
  <2>1. Len(v) > 0
    BY <1>2
  <2>2. \E f : /\ FlattenSeq(v) = f[Len(v)] /\ f[1] = v[1]
               /\ \A k \in 2 .. Len(v) : f[k] = f[k - 1] \o v[k]
    BY <1>2, <2>1, FlattenSteps
  <2> QED
    BY <1>2, <2>2
<1> DEFINE Good(k, len) == f[k] \in Seq(E) /\ Len(f[k]) <= len /\ \A i \in 1 .. k : ToSet(v[i]) \subseteq ToSet(f[k])
<1>4. Good(1, 1)
  <2>1. 1 \in 1 .. 6 /\ \A i \in 1 .. 1 : i = 1
    OBVIOUS
  <2>2. 1 \notin {2, 4}
    OBVIOUS
  <2>3. v[1] \in Seq(E) /\ Len(v[1]) <= 1
    BY <1>1, <2>1, <2>2
  <2> QED
    BY <1>3, <2>1, <2>3
<1>5. ASSUME NEW k \in 2 .. 6, NEW len \in Nat, NEW more \in Nat, Good(k - 1, len), Len(v[k]) <= more
      PROVE  Good(k, len + more)
  <2>1. k \in 1 .. 6 /\ v[k] \in Seq(E) /\ f[k - 1] \in Seq(E) /\ f[k] = f[k - 1] \o v[k]
    <3>1. k \in 1 .. 6
      OBVIOUS
    <3> QED
      BY <1>1, <1>3, <1>5, <3>1
  <2>2. f[k] \in Seq(E) /\ ToSet(f[k]) = ToSet(f[k - 1]) \cup ToSet(v[k])
    BY <2>1, ElementsOfConcat
  <2>3. Len(f[k]) = Len(f[k - 1]) + Len(v[k]) /\ Len(f[k - 1]) \in Nat
    BY <2>1
  <2>4. Len(f[k]) <= len + more
    <3>1. Len(v[k]) \in Nat /\ Len(v[k]) <= more /\ Len(f[k - 1]) <= len
      BY <1>1, <1>5, <2>1
    <3> DEFINE a == Len(f[k - 1])
               b == Len(v[k])
               c == Len(f[k])
    <3>2. a \in Nat /\ b \in Nat /\ c = a + b /\ a <= len /\ b <= more
      BY <2>3, <3>1
    <3> HIDE DEF a, b, c
    <3>3. c <= len + more
      BY <3>2
    <3> QED
      BY <3>3 DEF c
  <2>5. \A i \in 1 .. k : i = k \/ i \in 1 .. k - 1
    OBVIOUS
  <2>6. \A i \in 1 .. k : ToSet(v[i]) \subseteq ToSet(f[k])
    BY <1>5, <2>2, <2>5
  <2> QED
    BY <2>2, <2>4, <2>6
<1> HIDE DEF Good
<1>6. Len(v[2]) <= 2 /\ Len(v[3]) <= 1 /\ Len(v[4]) <= 2 /\ Len(v[5]) <= 1 /\ Len(v[6]) <= 1
  <2>1. 2 \in 1 .. 6 /\ 3 \in 1 .. 6 /\ 4 \in 1 .. 6 /\ 5 \in 1 .. 6 /\ 6 \in 1 .. 6
    OBVIOUS
  <2>2. 3 \notin {2, 4} /\ 5 \notin {2, 4} /\ 6 \notin {2, 4}
    OBVIOUS
  <2> QED
    BY <1>1, <2>1, <2>2
<1>7. Good(2, 3)
  <2>1. 2 - 1 = 1 /\ 1 + 2 = 3 /\ 2 \in 2 .. 6 /\ 1 \in Nat /\ 2 \in Nat
    OBVIOUS
  <2>2. Good(2 - 1, 1) /\ Len(v[2]) <= 2
    BY <1>4, <1>6, <2>1
  <2>3. Good(2, 1 + 2)
    BY <1>5, <2>1, <2>2
  <2> QED
    BY <2>1, <2>3
<1>8. Good(3, 4)
  <2>1. 3 - 1 = 2 /\ 3 + 1 = 4 /\ 3 \in 2 .. 6 /\ 3 \in Nat /\ 1 \in Nat
    OBVIOUS
  <2>2. Good(3 - 1, 3) /\ Len(v[3]) <= 1
    BY <1>7, <1>6, <2>1
  <2>3. Good(3, 3 + 1)
    BY <1>5, <2>1, <2>2
  <2> QED
    BY <2>1, <2>3
<1>9. Good(4, 6)
  <2>1. 4 - 1 = 3 /\ 4 + 2 = 6 /\ 4 \in 2 .. 6 /\ 4 \in Nat /\ 2 \in Nat
    OBVIOUS
  <2>2. Good(4 - 1, 4) /\ Len(v[4]) <= 2
    BY <1>8, <1>6, <2>1
  <2>3. Good(4, 4 + 2)
    BY <1>5, <2>1, <2>2
  <2> QED
    BY <2>1, <2>3
<1>10. Good(5, 7)
  <2>1. 5 - 1 = 4 /\ 6 + 1 = 7 /\ 5 \in 2 .. 6 /\ 6 \in Nat /\ 1 \in Nat
    OBVIOUS
  <2>2. Good(5 - 1, 6) /\ Len(v[5]) <= 1
    BY <1>9, <1>6, <2>1
  <2>3. Good(5, 6 + 1)
    BY <1>5, <2>1, <2>2
  <2> QED
    BY <2>1, <2>3
<1>11. Good(6, 8)
  <2>1. 6 - 1 = 5 /\ 7 + 1 = 8 /\ 6 \in 2 .. 6 /\ 7 \in Nat /\ 1 \in Nat
    OBVIOUS
  <2>2. Good(6 - 1, 7) /\ Len(v[6]) <= 1
    BY <1>10, <1>6, <2>1
  <2>3. Good(6, 7 + 1)
    BY <1>5, <2>1, <2>2
  <2> QED
    BY <2>1, <2>3
<1>12. /\ FlattenSeq(v) \in Seq(E) /\ Len(FlattenSeq(v)) <= 8
       /\ \A i \in 1 .. 6 : ToSet(v[i]) \subseteq ToSet(FlattenSeq(v))
  BY <1>3, <1>11 DEF Good
<1> QED
  BY <1>1, <1>12 DEF v, E

\* The messages that are sent.
LEMMA MessagesAreSendable ==
  ASSUME NEW target, NEW found \in [Range(Kinds) -> Seq(Findings)]
  PROVE  Messages(target, found) \in Seq(Sendable) /\ Len(Messages(target, found)) <= 8
<1> DEFINE all == FlattenSeq(AllVariants(target, found))
           S == {i \in DOMAIN all : all[i].findings # <<>>}
<1>1. /\ all \in Seq(Sendable) /\ Len(all) <= 8
      /\ \A i \in 1 .. 6 : ToSet(Variants(target, Kinds[i], found[Kinds[i]])) \subseteq ToSet(all)
  BY FlattenedVariants
<1>2. Messages(target, found) = Those(all, S)
  BY DEF Messages, AllVariants
<1> HIDE DEF all
<1>3. S \in SUBSET DOMAIN all
  OBVIOUS
<1>4. /\ Those(all, S) \in Seq(Sendable) /\ Len(Those(all, S)) = Cardinality(S) /\ Cardinality(S) \in 0 .. Len(all)
      /\ \A i \in S : \E k \in DOMAIN Those(all, S) : Those(all, S)[k] = all[i]
  <2> HIDE DEF S
  <2> QED
    BY <1>1, <1>3, ThoseOf
<1>5. Len(Those(all, S)) <= 8
  <2>1. Len(all) \in Nat
    BY <1>1
  <2> HIDE DEF S
  <2> QED
    BY <1>1, <1>4, <2>1
<1> QED
  BY <1>2, <1>4, <1>5

\* What may be reported, per kind.
Reportable == [Range(Kinds) -> Seq(Findings)]

\* A message of this kind holds the finding.
Carried(messages, kind, f) == \E m \in Range(messages) : m.kind = kind /\ f \in Range(m.findings)

\* No finding is in none of them.
LEMMA EachFindingIsTold ==
  ASSUME NEW target, NEW found \in Reportable,
         NEW kind \in Range(Kinds), NEW f \in Range(found[kind])
  PROVE  Carried(Messages(target, found), kind, f)
<1> DEFINE all == FlattenSeq(AllVariants(target, found))
           S == {i \in DOMAIN all : all[i].findings # <<>>}
<1>1. /\ all \in Seq(Sendable)
      /\ \A i \in 1 .. 6 : ToSet(Variants(target, Kinds[i], found[Kinds[i]])) \subseteq ToSet(all)
  BY FlattenedVariants DEF Reportable
<1>2. Messages(target, found) = Those(all, S)
  BY DEF Messages, AllVariants
<1>3. PICK i \in 1 .. 6 : Kinds[i] = kind
  BY TheKinds
<1>4. found[kind] \in Seq(Findings)
  BY DEF Reportable
<1>5. PICK m \in ToSet(Variants(target, kind, found[kind])) : m.kind = kind /\ f \in Range(m.findings)
  BY <1>4, VariantsHoldAll
<1> HIDE DEF all
<1>6. m \in ToSet(all)
  BY <1>1, <1>3, <1>5
<1>7. PICK j \in DOMAIN all : all[j] = m
  BY <1>6 DEF ToSet
<1>8. m.findings # <<>>
  BY <1>5 DEF Range
<1>9. j \in S /\ S \in SUBSET DOMAIN all
  BY <1>7, <1>8
<1> HIDE DEF S
<1>10. PICK k \in DOMAIN Those(all, S) : Those(all, S)[k] = m
  <2>1. \A i2 \in S : \E k \in DOMAIN Those(all, S) : Those(all, S)[k] = all[i2]
    BY <1>1, <1>9, ThoseOf
  <2> QED
    BY <1>7, <1>9, <2>1
<1>11. m \in Range(Messages(target, found))
  BY <1>2, <1>10 DEF Range
<1> QED
  BY <1>5, <1>11 DEF Carried

(***************************************************************************)
(* The lists of a summary.                                                 *)
(***************************************************************************)
\* An entry whose label is within what a line shows.
Fits(entry) == entry.before + entry.name <= LineLimit

LEMMA LineFits ==
  ASSUME NEW entry \in Entries
  PROVE  /\ Line(entry) \in Lines(1401)
         /\ Fits(entry) => entry.target \in Line(entry).names
<1> DEFINE n == entry.chars
<1>1. n \in Nat /\ entry.target \in Subjects
  BY DEF Entries
<1>2. /\ Line(entry).names \subseteq Subjects
      /\ Fits(entry) => entry.target \in Line(entry).names
  BY <1>1 DEF Line, Fits
<1>3. Line(entry) = [chars |-> Clip(n, LineLimit), names |-> Line(entry).names]
  BY DEF Line
<1> HIDE DEF n
<1>4. Clip(n, LineLimit) \in 0 .. 1401
  BY <1>1 DEF Clip, LineLimit
<1> QED
  BY <1>2, <1>3, <1>4 DEF Lines

LEMMA LinesOf ==
  ASSUME NEW entries \in Seq(Entries)
  PROVE  /\ [i \in DOMAIN entries |-> Line(entries[i])] \in Seq(Lines(1401))
         /\ \A i \in DOMAIN entries : Fits(entries[i]) => entries[i].target \in Named([j \in DOMAIN entries |-> Line(entries[j])])
<1> DEFINE lines == [i \in DOMAIN entries |-> Line(entries[i])]
           T == Lines(1401)
<1>1. ASSUME NEW i \in DOMAIN entries
      PROVE  entries[i] \in Entries /\ Line(entries[i]) \in T /\ (Fits(entries[i]) => entries[i].target \in Line(entries[i]).names)
  <2>1. entries[i] \in Entries
    OBVIOUS
  <2> QED
    BY <2>1, LineFits
<1>2. Len(entries) \in Nat /\ DOMAIN entries = 1 .. Len(entries)
  OBVIOUS
<1> HIDE DEF T
<1>3. lines \in [1 .. Len(entries) -> T]
  BY <1>1, <1>2
<1>4. lines \in Seq(T)
  BY <1>2, <1>3
<1>5. ASSUME NEW i \in DOMAIN entries, Fits(entries[i]) PROVE entries[i].target \in Named(lines)
  <2>1. i \in DOMAIN lines /\ lines[i] = Line(entries[i])
    OBVIOUS
  <2> HIDE DEF lines
  <2> QED
    BY <1>1, <1>5, <2>1 DEF Named
<1> QED
  BY <1>4, <1>5 DEF T

LEMMA NamedTogether ==
  ASSUME NEW T, NEW s \in Seq(T), NEW t \in Seq(T)
  PROVE  s \o t \in Seq(T) /\ Named(s \o t) = Named(s) \cup Named(t)
<1>1. s \o t \in Seq(T) /\ ToSet(s \o t) = ToSet(s) \cup ToSet(t)
  BY ElementsOfConcat
<1>2. ASSUME NEW w PROVE Named(w) = UNION {line.names : line \in ToSet(w)}
  BY DEF Named, ToSet
<1> QED
  BY <1>1, <1>2

\* A list in full: within the sections, naming everyone.
LEMMA FullListFits ==
  ASSUME NEW entries \in Seq(Entries)
  PROVE  /\ FullList(entries) \in Seq(Lines(SectionLimit))
         /\ \A i \in DOMAIN entries : Fits(entries[i]) => entries[i].target \in Named(FullList(entries))
<1>1. CASE entries = <<>>
  BY <1>1 DEF FullList
<1>2. CASE entries # <<>>
  <2> DEFINE lines == [i \in DOMAIN entries |-> Line(entries[i])]
  <2>1. FullList(entries) = Sections(140, lines)
    BY <1>2 DEF FullList
  <2>2. /\ lines \in Seq(Lines(1401))
        /\ \A i \in DOMAIN entries : Fits(entries[i]) => entries[i].target \in Named(lines)
    BY LinesOf
  <2>3. 140 \in 0 .. SectionLimit
    BY DEF SectionLimit
  <2> HIDE DEF lines
  <2>4. Sections(140, lines) \in Stack(SectionLimit) /\ Named(Sections(140, lines)) = Named(lines)
    BY <2>2, <2>3, SectionsFit
  <2> QED
    BY <2>1, <2>2, <2>4 DEF Stack
<1> QED
  BY <1>1, <1>2

\* Every target has a first entry.
LEMMA FirstOfTarget ==
  ASSUME NEW entries \in Seq(Entries), NEW i \in DOMAIN entries
  PROVE  \E j \in Firsts(entries) : entries[j].target = entries[i].target
<1> DEFINE T == {j \in Nat : j \in DOMAIN entries /\ entries[j].target = entries[i].target}
<1>1. Len(entries) \in Nat /\ DOMAIN entries = 1 .. Len(entries)
  OBVIOUS
<1>2. i \in T /\ T \in SUBSET Nat /\ T # {}
  BY <1>1
<1>3. PICK j \in T : \A k \in T : j <= k
  <2> HIDE DEF T
  <2> QED
    BY <1>2, LeastMember
<1>4. j \in Nat /\ j \in 1 .. Len(entries) /\ entries[j].target = entries[i].target
  BY <1>1
<1>5. ASSUME NEW k \in 1 .. j - 1 PROVE entries[k].target # entries[j].target
  <2>1. k \in Nat /\ k \in 1 .. Len(entries) /\ ~(j <= k)
    BY <1>1, <1>4
  <2>2. k \notin T
    BY <1>3, <2>1
  <2> QED
    BY <1>1, <1>4, <2>1, <2>2
<1> QED
  BY <1>1, <1>4, <1>5 DEF Firsts

\* Names alone: the lines are within a line, and name who is left without a row.
LEMMA AlsoAffectedFits ==
  ASSUME NEW entries \in Seq(Entries)
  PROVE  /\ AlsoAffected(entries) \in Seq(Lines(1401))
         /\ \A j \in Firsts(entries) \ RowedFirsts(entries) : entries[j].target \in Named(AlsoAffected(entries))
<1> DEFINE S == Firsts(entries) \ RowedFirsts(entries)
           left == Unrowed(entries)
<1>1. S \in SUBSET DOMAIN entries /\ left = Those(entries, S)
  BY DEF Firsts, Unrowed
<1> HIDE DEF S, left
<1>2. left \in Seq(Entries) /\ \A j \in S : \E k \in DOMAIN left : left[k] = entries[j]
  BY <1>1, ThoseOf
<1>3. CASE left = <<>>
  <2>1. S = {}
    BY <1>2, <1>3
  <2>2. AlsoAffected(entries) = <<>>
    BY <1>3 DEF AlsoAffected, left
  <2>3. <<>> \in Seq(Lines(1401))
    OBVIOUS
  <2> QED
    BY <2>1, <2>2, <2>3 DEF S
<1>4. CASE left # <<>>
  <2>1. AlsoAffected(entries) = NameLines(left)
    BY <1>4 DEF AlsoAffected, left
  <2>2. NameLines(left) \in Stack(LineLimit) /\ Named(NameLines(left)) = {left[k].target : k \in DOMAIN left}
    BY <1>2, NameLinesFit
  <2>3. NameLines(left) \in Seq(Lines(1401))
    <3>1. 0 .. LineLimit \subseteq 0 .. 1401
      BY DEF LineLimit
    <3>2. Lines(LineLimit) \subseteq Lines(1401)
      BY <3>1 DEF Lines
    <3>3. NameLines(left) \in Seq(Lines(LineLimit))
      BY <2>2 DEF Stack
    <3> QED
      BY <3>2, <3>3, SeqMonotonic
  <2>4. ASSUME NEW j \in S PROVE entries[j].target \in Named(NameLines(left))
    <3>1. PICK k \in DOMAIN left : left[k] = entries[j]
      BY <1>2
    <3> QED
      BY <2>2, <3>1
  <2> QED
    BY <2>1, <2>3, <2>4 DEF S
<1> QED
  BY <1>3, <1>4

\* A list of rows up to the cap: everyone is in a row or named alone.
LEMMA NamedListFits ==
  ASSUME NEW entries \in Seq(Entries)
  PROVE  /\ NamedList(entries) \in Seq(Lines(SectionLimit))
         /\ (\A i \in DOMAIN entries : Fits(entries[i])) =>
              \A i \in DOMAIN entries : entries[i].target \in Named(NamedList(entries))
<1>1. CASE entries = <<>>
  BY <1>1 DEF NamedList
<1>2. CASE entries # <<>>
  <2> DEFINE S == Rows(entries)
             rows == Those(entries, S)
             shown == [i \in DOMAIN rows |-> Line(rows[i])]
             also == AlsoAffected(entries)
             more == IF Len(entries) > Len(rows) THEN <<Heading(85)>> ELSE <<>>
             T == Lines(1401)
  <2>1. NamedList(entries) = Sections(230, shown \o also \o more)
    BY <1>2 DEF NamedList
  <2>2. S \in SUBSET DOMAIN entries /\ RowedFirsts(entries) \subseteq S
    BY DEF Rows, RowedFirsts, First, Firsts
  <2> HIDE DEF S
  <2>3. rows \in Seq(Entries) /\ \A j \in S : \E k \in DOMAIN rows : rows[k] = entries[j]
    BY <2>2, ThoseOf
  <2> HIDE DEF rows
  <2>4. /\ shown \in Seq(T)
        /\ \A k \in DOMAIN rows : Fits(rows[k]) => rows[k].target \in Named(shown)
    BY <2>3, LinesOf
  <2>5. /\ also \in Seq(T)
        /\ \A j \in Firsts(entries) \ RowedFirsts(entries) : entries[j].target \in Named(also)
    BY AlsoAffectedFits
  <2>6. more \in Seq(T)
    <3>1. Heading(85) \in T
      <4>1. 85 \in 0 .. 1401
        OBVIOUS
      <4> QED
        BY <4>1 DEF Heading, Lines
    <3> HIDE DEF T
    <3>2. <<Heading(85)>> \in Seq(T) /\ <<>> \in Seq(T)
      BY <3>1
    <3> QED
      BY <3>2
  <2> HIDE DEF shown, also, more, T
  <2>7. /\ shown \o also \o more \in Seq(T)
        /\ Named(shown \o also \o more) = Named(shown) \cup Named(also) \cup Named(more)
    <3>1. shown \o also \in Seq(T) /\ Named(shown \o also) = Named(shown) \cup Named(also)
      BY <2>4, <2>5, NamedTogether
    <3> DEFINE both == shown \o also
    <3>2. both \in Seq(T)
      BY <3>1
    <3> HIDE DEF both
    <3>3. both \o more \in Seq(T) /\ Named(both \o more) = Named(both) \cup Named(more)
      BY <2>6, <3>2, NamedTogether
    <3> QED
      BY <3>1, <3>3 DEF both
  <2> DEFINE lines == shown \o also \o more
  <2>8. lines \in Seq(Lines(1401))
    BY <2>7 DEF T
  <2>9. 230 \in 0 .. SectionLimit
    BY DEF SectionLimit
  <2> HIDE DEF lines
  <2>10. Sections(230, lines) \in Stack(SectionLimit) /\ Named(Sections(230, lines)) = Named(lines)
    BY <2>8, <2>9, SectionsFit
  <2>11. ASSUME \A i \in DOMAIN entries : Fits(entries[i]), NEW i \in DOMAIN entries
         PROVE  entries[i].target \in Named(lines)
    <3>1. PICK j \in Firsts(entries) : entries[j].target = entries[i].target
      BY FirstOfTarget
    <3>2. CASE j \in RowedFirsts(entries)
      <4>1. PICK k \in DOMAIN rows : rows[k] = entries[j]
        BY <2>2, <2>3, <3>2
      <4>2. Fits(entries[j])
        BY <2>2, <2>11, <3>2
      <4> QED
        BY <2>4, <2>7, <3>1, <4>1, <4>2 DEF lines
    <3>3. CASE j \notin RowedFirsts(entries)
      BY <2>5, <2>7, <3>1, <3>3 DEF lines
    <3> QED
      BY <3>2, <3>3
  <2> QED
    BY <2>1, <2>10, <2>11 DEF Stack, lines
<1> QED
  BY <1>1, <1>2

\* What a ledger's lists are.
Lists(l) == {l.failed, l.unread, l.outside, l.unanswered}

\* The whole summary: no section is too long, and who fits a line is named.
LEMMA SummaryFits ==
  ASSUME NEW l, Lists(l) \subseteq Seq(Entries), NEW undelivered \in Seq(Entries)
  PROVE  /\ SummarySections(l, undelivered) \in Seq(Lines(SectionLimit))
         /\ \A i \in DOMAIN undelivered : Fits(undelivered[i]) =>
              undelivered[i].target \in Named(SummarySections(l, undelivered))
         /\ \A list \in Lists(l) : (\A i \in DOMAIN list : Fits(list[i])) =>
              \A i \in DOMAIN list : list[i].target \in Named(SummarySections(l, undelivered))
<1> DEFINE T == Lines(SectionLimit)
           a == FullList(l.failed)
           b == NamedList(l.unread)
           c == NamedList(l.outside)
           d == NamedList(l.unanswered)
           e == FullList(undelivered)
<1>1. l.failed \in Seq(Entries) /\ l.unread \in Seq(Entries) /\ l.outside \in Seq(Entries) /\ l.unanswered \in Seq(Entries)
  BY DEF Lists
<1>2. a \in Seq(T) /\ \A i \in DOMAIN l.failed : Fits(l.failed[i]) => l.failed[i].target \in Named(a)
  BY <1>1, FullListFits
<1>3. /\ b \in Seq(T)
      /\ (\A i \in DOMAIN l.unread : Fits(l.unread[i])) => \A i \in DOMAIN l.unread : l.unread[i].target \in Named(b)
  BY <1>1, NamedListFits
<1>4. /\ c \in Seq(T)
      /\ (\A i \in DOMAIN l.outside : Fits(l.outside[i])) => \A i \in DOMAIN l.outside : l.outside[i].target \in Named(c)
  BY <1>1, NamedListFits
<1>5. /\ d \in Seq(T)
      /\ (\A i \in DOMAIN l.unanswered : Fits(l.unanswered[i])) => \A i \in DOMAIN l.unanswered : l.unanswered[i].target \in Named(d)
  BY <1>1, NamedListFits
<1>6. e \in Seq(T) /\ \A i \in DOMAIN undelivered : Fits(undelivered[i]) => undelivered[i].target \in Named(e)
  BY FullListFits
<1>7. SummarySections(l, undelivered) = a \o b \o c \o d \o e
  BY DEF SummarySections
<1> HIDE DEF T, a, b, c, d, e
<1>8. /\ a \o b \o c \o d \o e \in Seq(T)
      /\ Named(a \o b \o c \o d \o e) = Named(a) \cup Named(b) \cup Named(c) \cup Named(d) \cup Named(e)
  <2> DEFINE ab == a \o b
             abc == ab \o c
             abcd == abc \o d
  <2>1. ab \in Seq(T) /\ Named(ab) = Named(a) \cup Named(b)
    BY <1>2, <1>3, NamedTogether
  <2> HIDE DEF ab
  <2>2. abc \in Seq(T) /\ Named(abc) = Named(ab) \cup Named(c)
    BY <1>4, <2>1, NamedTogether
  <2> HIDE DEF abc
  <2>3. abcd \in Seq(T) /\ Named(abcd) = Named(abc) \cup Named(d)
    BY <1>5, <2>2, NamedTogether
  <2> HIDE DEF abcd
  <2>4. abcd \o e \in Seq(T) /\ Named(abcd \o e) = Named(abcd) \cup Named(e)
    BY <1>6, <2>3, NamedTogether
  <2>5. abcd \o e = a \o b \o c \o d \o e
    BY DEF abcd, abc, ab
  <2> QED
    BY <2>1, <2>2, <2>3, <2>4, <2>5
<1>9. ASSUME NEW list \in Lists(l), \A i \in DOMAIN list : Fits(list[i]), NEW i \in DOMAIN list
      PROVE  list[i].target \in Named(a) \cup Named(b) \cup Named(c) \cup Named(d) \cup Named(e)
  <2>1. CASE list = l.failed
    BY <1>2, <1>9, <2>1
  <2>2. CASE list = l.unread
    BY <1>3, <1>9, <2>2
  <2>3. CASE list = l.outside
    BY <1>4, <1>9, <2>3
  <2>4. CASE list = l.unanswered
    BY <1>5, <1>9, <2>4
  <2> QED
    BY <2>1, <2>2, <2>3, <2>4 DEF Lists
<1> QED
  BY <1>6, <1>7, <1>8, <1>9 DEF T

(***************************************************************************)
(* How a message is laid out.                                              *)
(***************************************************************************)
LEMMA NumbersShown ==
  /\ \A n \in Nat : Truncated(n) \in Nat /\ Snippet(n) \in Nat /\ Host(n) \in Nat /\ LoadedBy(n) \in Nat
  /\ \A n \in Nat : \A p \in Nat : HeaderReason(n, p) \in Nat
BY DEF Truncated, Snippet, Host, LoadedBy, HeaderReason, Clip, Lowest2, FieldLimit, ReasonLimit

LEMMA CellsAreNumbers ==
  ASSUME NEW kind \in Range(Kinds), NEW f \in Findings
  PROVE  Cells(kind, f) \in Seq(Nat)
<1> DEFINE url == f.url
           body == f.body
           reason == f.reason
           chain == f.chain
<1>1. url \in Nat /\ body \in Nat /\ reason \in Nat /\ chain \in Nat
  BY DEF Findings
<1>2. Prompt(f) = 350 + 2 * url + reason
  BY DEF Prompt
<1> DEFINE prompt == Prompt(f)
<1> HIDE DEF url, body, reason, chain
<1>3. prompt \in Nat
  BY <1>1, <1>2
<1> HIDE DEF prompt
<1>4. prompt + body \in Nat /\ 64 \in Nat /\ 30 \in Nat /\ 10 \in Nat /\ 20 \in Nat
  BY <1>1, <1>3
<1>5. /\ Truncated(url) \in Nat /\ Snippet(body) \in Nat /\ Host(url) \in Nat /\ LoadedBy(chain) \in Nat
      /\ Truncated(reason) \in Nat /\ HeaderReason(reason, body) \in Nat
  BY <1>1, NumbersShown
<1>6. ASSUME NEW a \in Nat, NEW b \in Nat, NEW c \in Nat, NEW d \in Nat, NEW e \in Nat, NEW g \in Nat, NEW h \in Nat
      PROVE  /\ <<a, b, c>> \in Seq(Nat) /\ <<a, b, c, d>> \in Seq(Nat) /\ <<a, b, c, d, e>> \in Seq(Nat)
             /\ <<a, b, c, d, e, g>> \in Seq(Nat) /\ <<a, b, c, d, e, g, h>> \in Seq(Nat)
  OBVIOUS
<1>7. UnknownScriptCells(f) \in Seq(Nat)
  <2>1. UnknownScriptCells(f) = <<Truncated(url), 64, Snippet(body), Host(url), LoadedBy(chain), prompt>>
    BY DEF UnknownScriptCells, url, body, chain, prompt
  <2> QED
    BY <1>3, <1>4, <1>5, <1>6, <2>1
<1>8. UnauthorisedScriptCells(f) \in Seq(Nat)
  <2>1. UnauthorisedScriptCells(f) = <<Truncated(url), 64, Snippet(body), Host(url), LoadedBy(chain), Truncated(reason), prompt>>
    BY DEF UnauthorisedScriptCells, url, body, chain, reason, prompt
  <2> QED
    BY <1>3, <1>4, <1>5, <1>6, <2>1
<1>9. UnknownHeaderCells(f) \in Seq(Nat)
  <2>1. UnknownHeaderCells(f) = <<30, body, Host(url), prompt + body>>
    BY DEF UnknownHeaderCells, url, body, prompt
  <2> QED
    BY <1>1, <1>4, <1>5, <1>6, <2>1
<1>10. UnauthorisedHeaderCells(f) \in Seq(Nat)
  <2>1. UnauthorisedHeaderCells(f) = <<30, body, Host(url), HeaderReason(reason, body), prompt + body>>
    BY DEF UnauthorisedHeaderCells, url, body, reason, prompt
  <2> QED
    BY <1>1, <1>4, <1>5, <1>6, <2>1
<1>11. MissingHeaderCells(f) \in Seq(Nat)
  <2>1. MissingHeaderCells(f) = <<30, Host(url), 10, url>>
    BY DEF MissingHeaderCells, url
  <2> QED
    BY <1>1, <1>4, <1>5, <1>6, <2>1
<1>12. MissingScriptCells(f) \in Seq(Nat)
  <2>1. MissingScriptCells(f) = <<Truncated(reason), 20, reason>>
    BY DEF MissingScriptCells, reason
  <2> QED
    BY <1>1, <1>4, <1>5, <1>6, <2>1
<1> QED
  BY <1>7, <1>8, <1>9, <1>10, <1>11, <1>12, TheKinds, Zenon DEF Cells

\* A table is within its budget, and rows it leaves out are noted.
LEMMA BoundedTableFits ==
  ASSUME NEW kind \in Range(Kinds), NEW findings \in Seq(Findings)
  PROVE  LET table == BoundedTable(kind, findings) IN
         /\ table.chars \in 0 .. TableBudget /\ table.shown \in Nat /\ table.of \in Nat
         /\ table.noted \in BOOLEAN /\ (table.shown < table.of => table.noted)
<1> DEFINE n == Lowest2(Len(findings), 19)
           rows == [i \in 1 .. n |-> RowSize(Cells(kind, findings[i]))]
           kept == KeptRows(rows)
<1>1. Len(findings) \in Nat /\ n \in Nat /\ n <= Len(findings)
  BY DEF Lowest2
<1>2. ASSUME NEW i \in 1 .. n PROVE RowSize(Cells(kind, findings[i])) \in Nat
  <2>1. findings[i] \in Findings
    BY <1>1
  <2> QED
    BY <2>1, CellsAreNumbers, RowSizes
<1>3. /\ BoundedTable(kind, findings).chars = Used(rows)[kept] /\ BoundedTable(kind, findings).shown = kept
      /\ BoundedTable(kind, findings).of = Len(findings) /\ BoundedTable(kind, findings).noted = (kept < Len(findings))
  BY DEF BoundedTable
<1>3a. BoundedTable(kind, findings).noted \in BOOLEAN
  BY DEF BoundedTable
<1> HIDE DEF n
<1>4. rows \in Seq(Nat) /\ Len(rows) = n
  BY <1>1, <1>2
<1> HIDE DEF rows
<1>5. kept \in 0 .. Len(rows) /\ Used(rows)[kept] \in 0 .. TableBudget
  BY <1>4, TableFits
<1>6. kept \in Nat
  BY <1>1, <1>4, <1>5
<1> HIDE DEF kept
<1> DEFINE len == Len(findings)
<1>7. kept \in Nat /\ len \in Nat
  BY <1>1, <1>6
<1>8. BoundedTable(kind, findings).shown = kept /\ BoundedTable(kind, findings).of = len /\ BoundedTable(kind, findings).noted = (kept < len)
  BY <1>3
<1> DEFINE table == BoundedTable(kind, findings)
           shown == table.shown
           of == table.of
           noted == table.noted
<1>9. table.chars \in 0 .. TableBudget
  BY <1>3, <1>5
<1>10. shown = kept /\ of = len /\ noted = (kept < len)
  BY <1>8
<1> HIDE DEF len, table, shown, of, noted
<1>11. shown \in Nat /\ of \in Nat /\ noted \in BOOLEAN /\ (shown < of => noted)
  <2>1. noted \in BOOLEAN
    BY <1>3a DEF table, noted
  <2>2. kept < len => noted
    BY <1>10
  <2> QED
    BY <1>7, <1>10, <2>1, <2>2
<1> QED
  BY <1>9, <1>11 DEF table, shown, of, noted

\* What may be said of a layout: Slack takes it, it has a channel, its note is true.
Sound(layout) ==
  /\ layout \in Layouts /\ SlackTakes(layout)
  /\ layout.channel \notin Optional \ Configured
  /\ layout.shown < layout.of => layout.noted

LEMMA LayoutIsSound ==
  ASSUME NEW message \in Sendable, type \in {"inventory", "detection"}
  PROVE  Sound(Layout(message))
<1> DEFINE table == BoundedTable(message.kind, message.findings)
           before == IF message.kind \in {"missing_header", "missing_script"} THEN 2 ELSE 6
           review == IF type = "inventory" /\ before = 6 THEN 2 ELSE 0
           note == IF table.noted THEN 1 ELSE 0
           blocks == before + 1 + note + review
           chars == table.chars
           shown == table.shown
           of == table.of
           noted == table.noted
           channel == Destination(message.kind)
<1>1. message.kind \in Range(Kinds) /\ message.findings \in Seq(Findings)
  BY DEF Sendable
<1>2. /\ chars \in 0 .. TableBudget /\ shown \in Nat /\ of \in Nat
      /\ noted \in BOOLEAN /\ (shown < of => noted)
  BY <1>1, BoundedTableFits
<1>3. channel \in Channels /\ channel \notin Optional \ Configured
  <2>1. /\ FirstOf("missingScript", "scriptMismatch") \in Channels \ (Optional \ Configured)
        /\ FirstOf("headerMismatch", "newHeader") \in Channels \ (Optional \ Configured)
    BY DEF FirstOf, Channels, Optional
  <2>2. FirstOf("missingHeader", FirstOf("headerMismatch", "newHeader")) \in Channels \ (Optional \ Configured)
    BY <2>1 DEF FirstOf, Channels, Optional
  <2>3. {"newScriptIdentified", "newHeaderIdentified", "newScript", "scriptMismatch", "newHeader"} \subseteq Channels \ (Optional \ Configured)
    BY DEF Channels, Optional
  <2> QED
    BY <1>1, <2>1, <2>2, <2>3, TheKinds, Zenon DEF Destination
<1>4. Layout(message) = [blocks |-> blocks, table |-> chars, longest |-> 0, shown |-> shown, of |-> of, noted |-> noted, channel |-> channel]
  BY DEF Layout
<1> HIDE DEF table
<1>5. blocks \in Nat /\ blocks <= 10
  BY <1>2
<1> HIDE DEF blocks, chars, shown, of, noted, channel
<1>6. chars \in Nat /\ chars <= SlackTable /\ blocks <= SlackBlocks /\ 0 <= SlackSection
  BY <1>2, <1>5 DEF TableBudget, SlackTable, SlackBlocks, SlackSection
<1>7. Layout(message) \in Layouts
  BY <1>2, <1>3, <1>4, <1>5, <1>6 DEF Layouts
<1>8. SlackTakes(Layout(message))
  BY <1>4, <1>6 DEF SlackTakes
<1> QED
  BY <1>2, <1>3, <1>4, <1>7, <1>8 DEF Sound

\* The greatest of some numbers up to a bound.
LEMMA GreatestUpTo ==
  ASSUME NEW b \in Nat, NEW T \in SUBSET (0 .. b), T # {}
  PROVE  Max(T) \in T
<1> DEFINE U == {b - t : t \in T}
<1>1. U \in SUBSET Nat /\ U # {}
  <2>1. ASSUME NEW t \in T PROVE b - t \in Nat
    <3>1. t \in 0 .. b
      OBVIOUS
    <3> QED
      BY <3>1
  <2> QED
    BY <2>1
<1>2. PICK u \in U : \A k \in U : u <= k
  <2> HIDE DEF U
  <2> QED
    BY <1>1, LeastMember
<1>3. PICK t \in T : u = b - t
  BY <1>2
<1>4. ASSUME NEW s \in T PROVE t >= s
  <2>1. b - s \in U
    OBVIOUS
  <2>2. b - t <= b - s /\ s \in Int /\ t \in Int
    BY <1>2, <1>3, <2>1
  <2> QED
    BY <2>2
<1>5. \E x \in T : \A y \in T : x >= y
  BY <1>4
<1> QED
  BY <1>5 DEF Max

\* A summary's sections are short enough for Slack.
LEMMA SummaryLayoutIs ==
  ASSUME NEW sections \in Seq(Lines(SectionLimit))
  PROVE  LET layout == SummaryLayout(sections) IN
         /\ layout \in Layouts /\ layout.table = 0 /\ layout.longest <= SlackSection
         /\ layout.blocks = 4 + Len(sections) + 6 /\ layout.channel = "successNotification"
         /\ layout.shown = 0 /\ layout.of = 0
<1> DEFINE T == {0} \cup {sections[i].chars : i \in DOMAIN sections}
           longest == Max(T)
           blocks == 4 + Len(sections) + 6
<1>1. ASSUME NEW i \in DOMAIN sections PROVE sections[i].chars \in 0 .. SectionLimit
  <2>1. sections[i] \in Lines(SectionLimit)
    OBVIOUS
  <2> QED
    BY <2>1 DEF Lines
<1>2. SectionLimit \in Nat /\ 0 \in 0 .. SectionLimit
  BY DEF SectionLimit
<1>3. T \in SUBSET (0 .. SectionLimit) /\ T # {}
  BY <1>1, <1>2
<1>4. longest \in 0 .. SectionLimit
  <2> HIDE DEF T
  <2> QED
    BY <1>2, <1>3, GreatestUpTo
<1>5. blocks \in Nat
  OBVIOUS
<1>6. SummaryLayout(sections) = [blocks |-> blocks, table |-> 0, longest |-> longest, shown |-> 0, of |-> 0, noted |-> FALSE, channel |-> "successNotification"]
  <2> HIDE DEF T, longest, blocks
  <2>1. SummaryLayout(sections) = [NoLayout EXCEPT !.blocks = blocks, !.longest = longest, !.channel = "successNotification"]
    BY DEF SummaryLayout, blocks, longest, T
  <2> QED
    BY <2>1 DEF NoLayout
<1> HIDE DEF longest, T
<1>7. longest \in Nat /\ longest <= SlackSection
  BY <1>4 DEF SectionLimit, SlackSection
<1>8. "successNotification" \in Channels
  BY DEF Channels
<1>9. SummaryLayout(sections) \in Layouts
  <2> HIDE DEF blocks
  <2> QED
    BY <1>5, <1>6, <1>7, <1>8 DEF Layouts
<1> QED
  BY <1>6, <1>7, <1>9

(***************************************************************************)
(* The two steps.                                                          *)
(***************************************************************************)
LEMMA FailuresAreEntries ==
  /\ \A m \in Sendable : Failure(m) \in Entries /\ Fits(Failure(m)) /\ Failure(m).target = <<m.kind, m.says>>
  /\ Failure(Message("summary", "run", <<>>)) \in Entries
<1>1. ASSUME NEW m, <<m.kind, m.says>> \in Subjects
      PROVE  Failure(m) \in Entries /\ Fits(Failure(m)) /\ Failure(m).target = <<m.kind, m.says>>
  <2> DEFINE long == 40 + FieldLimit
  <2>1. long \in Nat
    BY DEF FieldLimit
  <2>2. Failure(m) = [target |-> <<m.kind, m.says>>, name |-> 30, before |-> 40, chars |-> long]
    BY DEF Failure
  <2>3. 40 + 30 <= LineLimit
    BY DEF LineLimit
  <2> HIDE DEF long
  <2>4. Failure(m).name = 30 /\ Failure(m).before = 40 /\ Failure(m).target = <<m.kind, m.says>>
    BY <2>2
  <2>5. Failure(m) \in Entries
    BY <1>1, <2>1, <2>2 DEF Entries
  <2> QED
    BY <2>3, <2>4, <2>5 DEF Fits
<1>2. ASSUME NEW m \in Sendable PROVE <<m.kind, m.says>> \in Subjects
  <2>1. m.kind \in Range(Kinds) /\ m.says \in Says
    BY DEF Sendable
  <2> QED
    BY <2>1 DEF Subjects
<1>3. <<Message("summary", "run", <<>>).kind, Message("summary", "run", <<>>).says>> \in Subjects
  BY DEF Subjects, Message
<1> QED
  BY <1>1, <1>2, <1>3

LEMMA TheLedgers == \A l \in Ledgers : Lists(l) \subseteq Seq(Entries)
BY AlertsAssumption DEF Lists

\* A message was on its way, and is told or recorded.
LEMMA SendTakesTheHead ==
  ASSUME TypeOK, Send
  PROVE  /\ Head(queue) \in Sendable /\ queue' \in Seq(Sendable)
         /\ Range(queue) = {Head(queue)} \cup Range(queue') /\ Len(queue') = Len(queue) - 1
         /\ Sound(last')
         /\ \/ told' = told \cup {Head(queue)} /\ failures' = failures
            \/ told' = told /\ failures' = Append(failures, Failure(Head(queue)))
<1>1. queue \in Seq(Sendable) /\ queue # <<>> /\ queue' = Tail(queue) /\ last' = Layout(Head(queue))
  BY DEF TypeOK, Send
<1>2. /\ Head(queue) \in Sendable /\ Tail(queue) \in Seq(Sendable) /\ Len(Tail(queue)) = Len(queue) - 1
      /\ ToSet(queue) = {Head(queue)} \cup ToSet(Tail(queue))
  BY <1>1, ElementsOfTail
<1>3. \A q : ToSet(q) = Range(q)
  BY DEF ToSet, Range
<1>4. Sound(Layout(Head(queue)))
  BY <1>2, LayoutIsSound DEF TypeOK
<1> QED
  BY <1>1, <1>2, <1>3, <1>4 DEF Send

\* The summary that may be sent, and what becomes of it.
LEMMA FinishTellsTheLedger ==
  ASSUME TypeOK, Finish
  PROVE  /\ queue = <<>> /\ summary.sent = "no" /\ ledger' \in Ledgers
         /\ last' = SummaryLayout(SummarySections(ledger', failures))
         /\ SummarySections(ledger', failures) \in Seq(Lines(SectionLimit))
         /\ \/ summary' = [NoSummary EXCEPT !.sent = "skipped"] /\ failures' = failures
            \/ /\ summary' = [sent |-> "taken", headline |-> Outcome(ledger', failures),
                              named |-> Named(SummarySections(ledger', failures))]
               /\ failures' = failures
            \/ summary' = [NoSummary EXCEPT !.sent = "refused"] /\ failures' = Append(failures, Failure(Message("summary", "run", <<>>)))
<1>1. PICK l \in Ledgers :
        /\ ledger' = l /\ last' = SummaryLayout(SummarySections(l, failures))
        /\ \/ summary' = [NoSummary EXCEPT !.sent = "skipped"] /\ failures' = failures
           \/ summary' = [sent |-> "taken", headline |-> Outcome(l, failures), named |-> Named(SummarySections(l, failures))] /\ failures' = failures
           \/ summary' = [NoSummary EXCEPT !.sent = "refused"] /\ failures' = Append(failures, Failure(Message("summary", "run", <<>>)))
  BY DEF Finish, Named
<1>2. SummarySections(l, failures) \in Seq(Lines(SectionLimit))
  BY TheLedgers, SummaryFits DEF TypeOK
<1> QED
  BY <1>1, <1>2 DEF Finish

(***************************************************************************)
(* Types.                                                                  *)
(***************************************************************************)
LEMMA TheStart ==
  ASSUME Init
  PROVE  /\ TypeOK /\ results \in [Range(Kinds) -> Seq(Findings)]
         /\ queue \in Seq(Sendable) /\ Len(queue) <= 8
<1>1. results \in [Range(Kinds) -> Seq(Findings)]
  BY AlertsAssumption DEF Init
<1>2. Messages(type, results) \in Seq(Sendable) /\ Len(Messages(type, results)) <= 8
  BY <1>1, MessagesAreSendable
<1>3. NoLayout \in Layouts
  <2>1. "none" \in Channels
    BY DEF Channels
  <2> QED
    BY <2>1 DEF NoLayout, Layouts
<1>4. NoSummary.sent = "no" /\ NoSummary \in [sent : {"no", "skipped", "taken", "refused"}, headline : {"none", "success", "partial", "failure"}, named : SUBSET Subjects]
  BY DEF NoSummary
<1>5. failures \in Seq(Entries)
  BY AlertsAssumption DEF Init
<1>6. TypeOK
  BY <1>2, <1>3, <1>4, <1>5 DEF Init, TypeOK
<1> QED
  BY <1>1, <1>2, <1>6 DEF Init

LEMMA TypesAreKept ==
  ASSUME TypeOK, [Next]_vars
  PROVE  TypeOK'
<1>1. CASE Send
  <2>1. last' \in Layouts /\ queue' \in Seq(Sendable) /\ Head(queue) \in Sendable
    BY <1>1, SendTakesTheHead DEF Sound
  <2>2. told' \subseteq Sendable /\ failures' \in Seq(Entries)
    <3>1. Failure(Head(queue)) \in Entries
      BY <2>1, FailuresAreEntries
    <3>2. Append(failures, Failure(Head(queue))) \in Seq(Entries)
      BY <3>1, ElementsOfAppend DEF TypeOK
    <3> QED
      BY <1>1, <2>1, <3>2, SendTakesTheHead DEF TypeOK
  <2> QED
    BY <1>1, <2>1, <2>2 DEF TypeOK, Send
<1>2. CASE Finish
  <2> DEFINE sections == SummarySections(ledger', failures)
             Summaries == [sent : {"no", "skipped", "taken", "refused"},
                           headline : {"none", "success", "partial", "failure"}, named : SUBSET Subjects]
  <2>1. /\ ledger' \in Ledgers /\ last' = SummaryLayout(sections) /\ sections \in Seq(Lines(SectionLimit))
        /\ \/ summary' = [NoSummary EXCEPT !.sent = "skipped"] /\ failures' = failures
           \/ summary' = [sent |-> "taken", headline |-> Outcome(ledger', failures), named |-> Named(sections)] /\ failures' = failures
           \/ summary' = [NoSummary EXCEPT !.sent = "refused"] /\ failures' = Append(failures, Failure(Message("summary", "run", <<>>)))
    BY <1>2, FinishTellsTheLedger
  <2> HIDE DEF sections
  <2>2. last' \in Layouts
    BY <2>1, SummaryLayoutIs
  <2>3. Named(sections) \subseteq Subjects
    <3>1. ASSUME NEW i \in DOMAIN sections PROVE sections[i].names \subseteq Subjects
      <4>1. sections[i] \in Lines(SectionLimit)
        BY <2>1
      <4> QED
        BY <4>1 DEF Lines
    <3> QED
      BY <3>1 DEF Named
  <2>4. Outcome(ledger', failures) \in {"none", "success", "partial", "failure"}
    BY DEF Outcome
  <2>5. /\ [NoSummary EXCEPT !.sent = "skipped"] \in Summaries
        /\ [NoSummary EXCEPT !.sent = "refused"] \in Summaries
        /\ [sent |-> "taken", headline |-> Outcome(ledger', failures), named |-> Named(sections)] \in Summaries
    BY <2>3, <2>4 DEF NoSummary
  <2>6. failures' \in Seq(Entries)
    <3>1. Append(failures, Failure(Message("summary", "run", <<>>))) \in Seq(Entries)
      BY FailuresAreEntries, ElementsOfAppend DEF TypeOK
    <3> QED
      BY <2>1, <3>1 DEF TypeOK
  <2>7. summary' \in Summaries
    BY <2>1, <2>5
  <2> QED
    BY <1>2, <2>1, <2>2, <2>6, <2>7 DEF TypeOK, Finish
<1>3. CASE UNCHANGED vars
  BY <1>3 DEF TypeOK, vars
<1> QED
  BY <1>1, <1>2, <1>3 DEF Next

\* Alerts have their types: what is sent is about findings the comparison
\* reported, what is refused becomes an entry, and a summary names whom it may.
THEOREM TypeCorrect == Spec => []TypeOK
<1>1. Init => TypeOK
  BY TheStart
<1>2. TypeOK /\ [Next]_vars => TypeOK'
  BY TypesAreKept
<1> QED
  BY <1>1, <1>2, PTL DEF Spec

(***************************************************************************)
(* Nothing is lost between the comparison and Slack.                       *)
(***************************************************************************)
\* Where a message is: Slack has it, or it waits, or its failure is recorded.
Somewhere(m) == m \in told \/ m \in Range(queue) \/ \E i \in DOMAIN failures : failures[i] = Failure(m)

\* Every message is somewhere, none waits once the summary is sent, and a
\* summary that was taken names the failures whose label a line shows.
HeardInv ==
  /\ \A m \in Range(Messages(type, results)) : Somewhere(m)
  /\ summary.sent # "no" => queue = <<>>
  /\ summary.sent = "taken" => \A i \in DOMAIN failures : Fits(failures[i]) => failures[i].target \in summary.named

LEMMA HeardAtFirst ==
  ASSUME Init
  PROVE  HeardInv
<1>1. NoSummary.sent = "no" /\ "no" # "taken"
  BY DEF NoSummary
<1> QED
  BY <1>1 DEF Init, HeardInv, Somewhere

LEMMA HeardIsKept ==
  ASSUME TypeOK, HeardInv, [Next]_vars
  PROVE  HeardInv'
<1>1. CASE Send
  <2>1. type' = type /\ results' = results /\ summary' = summary /\ queue # <<>>
    BY <1>1 DEF Send
  <2>2. /\ Range(queue) = {Head(queue)} \cup Range(queue') /\ Sound(last') /\ Head(queue) \in Sendable
        /\ \/ told' = told \cup {Head(queue)} /\ failures' = failures
           \/ told' = told /\ failures' = Append(failures, Failure(Head(queue)))
    BY <1>1, SendTakesTheHead
  <2>3. \A i \in DOMAIN failures : i \in DOMAIN failures' /\ failures'[i] = failures[i]
    BY <2>2 DEF TypeOK
  <2>4. ASSUME NEW m \in Range(Messages(type, results)) PROVE Somewhere(m)'
    <3>1. Somewhere(m)
      BY DEF HeardInv
    <3>2. CASE m = Head(queue)
      <4>1. CASE told' = told \cup {Head(queue)}
        BY <3>2, <4>1 DEF Somewhere
      <4>2. CASE failures' = Append(failures, Failure(Head(queue)))
        <5>1. Len(failures) + 1 \in DOMAIN failures' /\ failures'[Len(failures) + 1] = Failure(m)
          BY <3>2, <4>2 DEF TypeOK
        <5>2. \E i \in DOMAIN failures' : failures'[i] = Failure(m)
          BY <5>1
        <5>3. Failure(m) = Failure(m)'
          BY DEF Failure
        <5> QED
          BY <5>2, <5>3 DEF Somewhere
      <4> QED
        BY <2>2, <4>1, <4>2
    <3>3. CASE m # Head(queue)
      <4>1. m \in told => m \in told'
        BY <2>2
      <4>2. m \in Range(queue) => m \in Range(queue')
        BY <2>2, <3>3
      <4>3. (\E i \in DOMAIN failures : failures[i] = Failure(m)) => \E i \in DOMAIN failures' : failures'[i] = Failure(m)
        BY <2>3
      <4> QED
        BY <3>1, <4>1, <4>2, <4>3 DEF Somewhere
    <3> QED
      BY <3>2, <3>3
  <2>5. summary.sent = "no"
    BY <2>1 DEF HeardInv
  <2>6. "no" # "taken"
    OBVIOUS
  <2>7. Messages(type, results)' = Messages(type, results)
    BY <2>1
  <2> QED
    BY <2>1, <2>4, <2>5, <2>6, <2>7 DEF HeardInv
<1>2. CASE Finish
  <2> DEFINE sections == SummarySections(ledger', failures)
  <2>1. /\ queue = <<>> /\ ledger' \in Ledgers /\ last' = SummaryLayout(sections)
        /\ sections \in Seq(Lines(SectionLimit))
        /\ \/ summary' = [NoSummary EXCEPT !.sent = "skipped"] /\ failures' = failures
           \/ summary' = [sent |-> "taken", headline |-> Outcome(ledger', failures), named |-> Named(sections)] /\ failures' = failures
           \/ summary' = [NoSummary EXCEPT !.sent = "refused"] /\ failures' = Append(failures, Failure(Message("summary", "run", <<>>)))
    BY <1>2, FinishTellsTheLedger
  <2>2. type' = type /\ results' = results /\ queue' = queue /\ told' = told
    BY <1>2 DEF Finish
  <2>3. failures \in Seq(Entries) /\ Lists(ledger') \subseteq Seq(Entries)
    BY <2>1, TheLedgers DEF TypeOK
  <2>4. \A i \in DOMAIN failures : Fits(failures[i]) => failures[i].target \in Named(sections)
    BY <2>3, SummaryFits
  <2> HIDE DEF sections
  <2>5. \A i \in DOMAIN failures : i \in DOMAIN failures' /\ failures'[i] = failures[i]
    BY <2>1, <2>3
  <2>6. ASSUME NEW m \in Range(Messages(type, results)) PROVE Somewhere(m)'
    <3>1. Somewhere(m)
      BY DEF HeardInv
    <3>2. (\E i \in DOMAIN failures : failures[i] = Failure(m)) => \E i \in DOMAIN failures' : failures'[i] = Failure(m)
      BY <2>5
    <3> QED
      BY <2>2, <3>1, <3>2 DEF Somewhere
  <2>7. summary'.sent = "taken" => \A i \in DOMAIN failures' : Fits(failures'[i]) => failures'[i].target \in summary'.named
    <3>1. [NoSummary EXCEPT !.sent = "skipped"].sent # "taken" /\ [NoSummary EXCEPT !.sent = "refused"].sent # "taken"
      BY DEF NoSummary
    <3> SUFFICES ASSUME summary'.sent = "taken"
                 PROVE  \A i \in DOMAIN failures' : Fits(failures'[i]) => failures'[i].target \in summary'.named
      OBVIOUS
    <3>2. summary' = [sent |-> "taken", headline |-> Outcome(ledger', failures), named |-> Named(sections)] /\ failures' = failures
      BY <2>1, <3>1, Zenon
    <3>3. summary'.named = Named(sections)
      BY <3>2
    <3> QED
      BY <2>4, <3>2, <3>3
  <2>8. Messages(type, results)' = Messages(type, results)
    BY <2>2
  <2> QED
    BY <2>1, <2>2, <2>6, <2>7, <2>8 DEF HeardInv, Fits
<1>3. CASE UNCHANGED vars
  <2>1. Messages(type, results)' = Messages(type, results)
    BY <1>3 DEF vars
  <2> QED
    BY <1>3, <2>1 DEF HeardInv, Somewhere, Fits, Failure, vars
<1> QED
  BY <1>1, <1>2, <1>3 DEF Next

\* No finding is lost between the comparison and Slack, for any findings, any
\* answers of Slack's and any ledger: each is in a message that was taken, or
\* one whose refusal is recorded and named by a summary that was taken.
THEOREM NothingIsUnheard == Spec => []NothingUnheard
<1>1. Init => TypeOK /\ HeardInv
  BY TheStart, HeardAtFirst
<1>2. (TypeOK /\ HeardInv) /\ [Next]_vars => (TypeOK /\ HeardInv)'
  BY TypesAreKept, HeardIsKept
<1>3. TypeOK /\ HeardInv => NothingUnheard
  <2> SUFFICES ASSUME TypeOK, HeardInv, queue = <<>>, NEW kind \in Range(Kinds)
               PROVE  LET about == {m \in Range(Messages(type, results)) : m.kind = kind} IN
                      /\ \A f \in Range(results[kind]) : \E m \in about : f \in Range(m.findings)
                      /\ \A m \in about : m \in told \/ (Listed(m) /\ (summary.sent = "taken" => <<m.kind, m.says>> \in summary.named))
                      /\ \A m \in about \cap told : Layout(m).shown < Layout(m).of => Layout(m).noted
    BY DEF NothingUnheard
  <2>1. results \in [Range(Kinds) -> Seq(Findings)]
    BY AlertsAssumption DEF TypeOK
  <2>2. Messages(type, results) \in Seq(Sendable)
    BY <2>1, MessagesAreSendable
  <2>5. ASSUME NEW f \in Range(results[kind])
        PROVE  \E m \in Range(Messages(type, results)) : m.kind = kind /\ f \in Range(m.findings)
    <3>1. results \in Reportable
      BY <2>1 DEF Reportable
    <3>2. Carried(Messages(type, results), kind, f)
      BY <3>1, EachFindingIsTold
    <3> QED
      BY <3>2 DEF Carried
  <2>3. ASSUME NEW m \in Range(Messages(type, results)), m \notin told
        PROVE  Listed(m) /\ (summary.sent = "taken" => <<m.kind, m.says>> \in summary.named)
    <3>1. m \notin Range(queue)
      BY DEF Range
    <3>2. PICK i \in DOMAIN failures : failures[i] = Failure(m)
      BY <2>3, <3>1 DEF HeardInv, Somewhere
    <3>3. m \in Sendable
      BY <2>2 DEF Range
    <3>4. Fits(failures[i]) /\ failures[i].target = <<m.kind, m.says>>
      BY <3>2, <3>3, FailuresAreEntries
    <3> QED
      BY <3>4 DEF Listed, HeardInv
  <2>4. ASSUME NEW m \in Range(Messages(type, results))
        PROVE  Layout(m).shown < Layout(m).of => Layout(m).noted
    <3>1. m \in Sendable
      BY <2>2 DEF Range
    <3>2. Sound(Layout(m))
      BY <3>1, LayoutIsSound DEF TypeOK
    <3> QED
      BY <3>2 DEF Sound
  <2> QED
    BY <2>3, <2>4, <2>5
<1> QED
  BY <1>1, <1>2, <1>3, PTL DEF Spec

(***************************************************************************)
(* A summary that was taken names whom it is about.                        *)
(***************************************************************************)
\* The label of an entry is within what a line shows of it.
LabelsFit == \A l \in Ledgers : \A list \in Lists(l) : \A i \in DOMAIN list : Fits(list[i])

NamesInv ==
  /\ summary.sent # "no" => queue = <<>>
  /\ summary.sent = "taken" => \A list \in Lists(ledger) : \A i \in DOMAIN list : list[i].target \in summary.named

\* However many entries a list has, and whoever is cut from its rows: as long
\* as labels fit a line, a summary that was taken names every target of the
\* failed, the unread, the outside and the unanswered.
THEOREM EveryTargetIsNamed ==
  ASSUME LabelsFit
  PROVE  Spec => []NamesEveryTarget
<1>1. Init => TypeOK /\ NamesInv
  <2>1. NoSummary.sent = "no" /\ "no" # "taken"
    BY DEF NoSummary
  <2> QED
    BY <2>1, TheStart DEF Init, NamesInv
<1>2. (TypeOK /\ NamesInv) /\ [Next]_vars => (TypeOK /\ NamesInv)'
  <2> SUFFICES ASSUME TypeOK, NamesInv, [Next]_vars PROVE NamesInv'
    BY TypesAreKept
  <2>1. CASE Send
    <3>1. summary.sent = "no" /\ summary' = summary /\ "no" # "taken"
      BY <2>1 DEF Send, NamesInv
    <3> QED
      BY <3>1 DEF NamesInv
  <2>2. CASE Finish
    <3> DEFINE sections == SummarySections(ledger', failures)
    <3>1. /\ queue = <<>> /\ ledger' \in Ledgers
          /\ \/ summary' = [NoSummary EXCEPT !.sent = "skipped"]
             \/ summary' = [sent |-> "taken", headline |-> Outcome(ledger', failures), named |-> Named(sections)]
             \/ summary' = [NoSummary EXCEPT !.sent = "refused"]
      BY <2>2, FinishTellsTheLedger
    <3>2. queue' = queue
      BY <2>2 DEF Finish
    <3>3. \A list \in Lists(ledger') : \A i \in DOMAIN list : list[i].target \in Named(sections)
      <4>1. Lists(ledger') \subseteq Seq(Entries) /\ failures \in Seq(Entries)
        BY <3>1, TheLedgers DEF TypeOK
      <4>2. \A list \in Lists(ledger') : \A i \in DOMAIN list : Fits(list[i])
        BY <3>1 DEF LabelsFit
      <4> QED
        BY <4>1, <4>2, SummaryFits
    <3> HIDE DEF sections
    <3>4. summary'.sent = "taken" => summary'.named = Named(sections)
      <4>1. /\ [NoSummary EXCEPT !.sent = "skipped"].sent # "taken" /\ [NoSummary EXCEPT !.sent = "refused"].sent # "taken"
            /\ [sent |-> "taken", headline |-> Outcome(ledger', failures), named |-> Named(sections)].named = Named(sections)
        BY DEF NoSummary
      <4> QED
        BY <3>1, <4>1, Zenon
    <3>5. \A l : Lists(l) = Lists(l)'
      BY DEF Lists
    <3> QED
      BY <3>1, <3>2, <3>3, <3>4 DEF NamesInv, Lists
  <2>3. CASE UNCHANGED vars
    BY <2>3 DEF NamesInv, Lists, vars
  <2> QED
    BY <2>1, <2>2, <2>3 DEF Next
<1>3. NamesInv => NamesEveryTarget
  BY DEF NamesInv, NamesEveryTarget, Lists
<1> QED
  BY <1>1, <1>2, <1>3, PTL DEF Spec

(***************************************************************************)
(* Nothing is refused for its own making.                                  *)
(***************************************************************************)
\* The entries of this target's refused messages.
Refusals == {Failure(m) : m \in Sendable}

\* The sections of a summary are few enough for one message, whatever was
\* refused: the failed and the undelivered are listed in full, so that what
\* the run may have to tell decides it.
FewBlocks ==
  \A l \in Ledgers : \A e \in Earlier : \A r \in Seq(Refusals) :
    Len(r) <= 8 => 4 + Len(SummarySections(l, e \o r)) + 6 <= SlackBlocks

\* What failed was refused before, or is a message that no longer waits.
RoomInv ==
  /\ last = NoLayout \/ (SlackTakes(last) /\ last.channel \notin Optional \ Configured)
  /\ summary.sent = "no" =>
       \E e \in Earlier : \E r \in Seq(Refusals) : failures = e \o r /\ Len(r) + Len(queue) <= 8

LEMMA AppendToBoth ==
  ASSUME NEW S, NEW s \in Seq(S), NEW T, NEW t \in Seq(T), NEW x
  PROVE  Append(s \o t, x) = s \o Append(t, x)
OBVIOUS

LEMMA RoomIsKept ==
  ASSUME FewBlocks, TypeOK, RoomInv, [Next]_vars
  PROVE  RoomInv'
<1>1. CASE Send
  <2>1. /\ Head(queue) \in Sendable /\ Len(queue') = Len(queue) - 1 /\ Sound(last')
        /\ \/ failures' = failures
           \/ failures' = Append(failures, Failure(Head(queue)))
    BY <1>1, SendTakesTheHead
  <2>2. SlackTakes(last') /\ last'.channel \notin Optional \ Configured
    BY <2>1 DEF Sound
  <2>3. ASSUME summary'.sent = "no"
        PROVE  \E e \in Earlier : \E r \in Seq(Refusals) : failures' = e \o r /\ Len(r) + Len(queue') <= 8
    <3>1. summary.sent = "no"
      BY <1>1, <2>3 DEF Send
    <3>2. PICK e \in Earlier : \E r \in Seq(Refusals) : failures = e \o r /\ Len(r) + Len(queue) <= 8
      BY <3>1 DEF RoomInv
    <3>3. PICK r \in Seq(Refusals) : failures = e \o r /\ Len(r) + Len(queue) <= 8
      BY <3>2
    <3>4. Len(r) \in Nat /\ Len(queue) \in Nat /\ Len(queue') = Len(queue) - 1
      BY <2>1 DEF TypeOK
    <3>5. CASE failures' = failures
      <4>1. Len(r) + Len(queue') <= 8
        BY <3>3, <3>4
      <4> QED
        BY <3>3, <3>5, <4>1
    <3>6. CASE failures' = Append(failures, Failure(Head(queue)))
      <4> DEFINE x == Failure(Head(queue))
                 R == Refusals
                 longer == Append(r, x)
      <4>1. x \in R
        BY <2>1 DEF Refusals
      <4>2. e \in Seq(Entries)
        BY AlertsAssumption
      <4> HIDE DEF x, R
      <4>3. longer \in Seq(R) /\ Len(longer) = Len(r) + 1
        BY <3>3, <4>1 DEF R
      <4>4. Append(e \o r, x) = e \o longer
        BY <3>3, <4>2, AppendToBoth
      <4>5. failures' = e \o longer
        BY <3>3, <3>6, <4>4 DEF x
      <4> HIDE DEF longer
      <4>6. Len(longer) + Len(queue') <= 8
        BY <3>3, <3>4, <4>3
      <4> QED
        BY <4>3, <4>5, <4>6 DEF R
    <3> QED
      BY <2>1, <3>5, <3>6
  <2> QED
    BY <2>2, <2>3 DEF RoomInv, SlackTakes
<1>2. CASE Finish
  <2> DEFINE sections == SummarySections(ledger', failures)
  <2>1. /\ summary.sent = "no" /\ ledger' \in Ledgers /\ last' = SummaryLayout(sections)
        /\ sections \in Seq(Lines(SectionLimit))
        /\ \/ summary' = [NoSummary EXCEPT !.sent = "skipped"]
           \/ summary' = [sent |-> "taken", headline |-> Outcome(ledger', failures), named |-> Named(sections)]
           \/ summary' = [NoSummary EXCEPT !.sent = "refused"]
    BY <1>2, FinishTellsTheLedger
  <2>2. 4 + Len(sections) + 6 <= SlackBlocks
    <3>1. PICK e \in Earlier : \E r \in Seq(Refusals) : failures = e \o r /\ Len(r) + Len(queue) <= 8
      BY <2>1 DEF RoomInv
    <3>2. PICK r \in Seq(Refusals) : failures = e \o r /\ Len(r) + Len(queue) <= 8
      BY <3>1
    <3>3. Len(r) <= 8
      <4>1. Len(r) \in Nat /\ Len(queue) \in Nat
        BY DEF TypeOK
      <4> QED
        BY <3>2, <4>1
    <3> QED
      BY <2>1, <3>2, <3>3 DEF FewBlocks
  <2>3. summary'.sent # "no"
    <3>1. /\ [NoSummary EXCEPT !.sent = "skipped"].sent # "no" /\ [NoSummary EXCEPT !.sent = "refused"].sent # "no"
          /\ [sent |-> "taken", headline |-> Outcome(ledger', failures), named |-> Named(sections)].sent # "no"
      BY DEF NoSummary
    <3> QED
      BY <2>1, <3>1, Zenon
  <2> HIDE DEF sections
  <2> DEFINE layout == SummaryLayout(sections)
  <2>4. /\ layout.table = 0 /\ layout.longest <= SlackSection /\ layout.blocks = 4 + Len(sections) + 6
        /\ layout.channel = "successNotification"
    BY <2>1, SummaryLayoutIs
  <2>5. layout.blocks <= SlackBlocks /\ layout.table <= SlackTable
    <3>1. 0 <= SlackTable
      BY DEF SlackTable
    <3> QED
      BY <2>2, <2>4, <3>1
  <2>6. layout.channel \notin Optional
    BY <2>4 DEF Optional
  <2> HIDE DEF layout
  <2>7. last' = layout
    BY <2>1 DEF layout
  <2>8. SlackTakes(last') /\ last'.channel \notin Optional \ Configured
    BY <2>4, <2>5, <2>6, <2>7 DEF SlackTakes
  <2> QED
    BY <2>3, <2>8 DEF RoomInv, SlackTakes
<1>3. CASE UNCHANGED vars
  BY <1>3 DEF RoomInv, SlackTakes, vars
<1> QED
  BY <1>1, <1>2, <1>3 DEF Next

\* Whatever the lengths of findings, labels and lists: no alert has a table or
\* blocks beyond what Slack takes, no section of a summary is too long, and each
\* goes to a channel the inventory sets.  Only how many blocks a summary has is
\* up to what the run may have to tell.
THEOREM NothingIsRefusedForItsMaking ==
  ASSUME FewBlocks
  PROVE  Spec => []FitsSlack
<1>1. Init => TypeOK /\ RoomInv
  <2> SUFFICES ASSUME Init PROVE TypeOK /\ RoomInv
    OBVIOUS
  <2>1. TypeOK /\ Len(queue) <= 8 /\ queue \in Seq(Sendable)
    BY TheStart
  <2>2. failures \in Earlier /\ last = NoLayout
    BY DEF Init
  <2>3. failures \in Seq(Entries) /\ <<>> \in Seq(Refusals) /\ Len(<<>>) = 0
    BY <2>1 DEF TypeOK
  <2>4. failures = failures \o <<>>
    BY <2>3, EmptyAndLength
  <2>5. Len(<<>>) + Len(queue) <= 8
    BY <2>1, <2>3
  <2> QED
    BY <2>1, <2>2, <2>3, <2>4, <2>5 DEF RoomInv
<1>2. (TypeOK /\ RoomInv) /\ [Next]_vars => (TypeOK /\ RoomInv)'
  BY TypesAreKept, RoomIsKept
<1>3. RoomInv => FitsSlack
  BY DEF RoomInv, FitsSlack
<1> QED
  BY <1>1, <1>2, <1>3, PTL DEF Spec

===============================================================================
