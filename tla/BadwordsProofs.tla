---------------------------- MODULE BadwordsProofs ----------------------------
(***************************************************************************)
(* Proofs about Badwords.  What the database brings back is computed row by*)
(* row, so the proofs need induction: it is had from the least-number      *)
(* principle, which the library gives for sets (WFMin), by taking the set  *)
(* of the numbers for which a statement holds.                             *)
(***************************************************************************)
EXTENDS Badwords, FiniteSetTheorems, SequenceTheorems, TLAPS

(***************************************************************************)
(* Induction and recursion.                                                *)
(***************************************************************************)
\* Every set of natural numbers that has an element has a least one.
LEMMA LeastNumber ==
    ASSUME NEW T \in SUBSET Nat, T # {}
    PROVE  \E m \in T : \A n \in T : m <= n
<1> DEFINE Less == {ss \in Nat \X Nat : ss[1] < ss[2]}
<1>1. IsWellFoundedOn(Less, Nat)
  BY NatLessThanWellFounded DEF OpToRel
<1> HIDE DEF Less
<1>2. PICK m \in T : \A n \in T : ~(<<n, m>> \in Less)
  BY <1>1, WFMin
<1>3. \A n \in T : ~(n < m)
  BY <1>2 DEF Less
<1> QED BY <1>3

\* A set with 0, and with the successor of each of its numbers, has them all.
LEMMA Induction ==
    ASSUME NEW T \in SUBSET Nat, 0 \in T, \A n \in T : n + 1 \in T
    PROVE  T = Nat
<1> SUFFICES ASSUME Nat \ T # {} PROVE FALSE
  OBVIOUS
<1>1. PICK m \in Nat \ T : \A n \in Nat \ T : m <= n
  BY LeastNumber
<1>2. m - 1 \in Nat /\ m - 1 \in T
  BY <1>1
<1>3. (m - 1) + 1 \in T
  BY <1>2
<1> QED BY <1>1, <1>3

Follows(f, N, first, step) ==
    f[0] = first /\ \A n \in 1 .. N : f[n] = step[n][f[n - 1]]

\* A function on 0 .. N may be given by its first value and the step from each
\* value to the next.
LEMMA Recursion ==
    ASSUME NEW S, NEW N \in Nat, NEW first \in S, NEW step \in [1 .. N -> [S -> S]]
    PROVE  \E f \in [0 .. N -> S] : Follows(f, N, first, step)
<1> DEFINE Upto(k) ==
              \E f \in [0 .. k -> S] :
                 f[0] = first /\ \A n \in 1 .. k : f[n] = step[n][f[n - 1]]
           T == {k \in Nat : k <= N => Upto(k)}
<1>1. 0 \in T
  <2> DEFINE g == [i \in 0 .. 0 |-> first]
  <2>1. g \in [0 .. 0 -> S] /\ g[0] = first
    OBVIOUS
  <2> HIDE DEF g
  <2>2. Upto(0)
    BY <2>1
  <2> QED BY <2>2
<1>2. ASSUME NEW k \in T PROVE k + 1 \in T
  <2> SUFFICES ASSUME k + 1 <= N PROVE Upto(k + 1)
    OBVIOUS
  <2>1. k \in Nat /\ Upto(k)
    OBVIOUS
  <2>2. PICK f \in [0 .. k -> S] :
           f[0] = first /\ \A n \in 1 .. k : f[n] = step[n][f[n - 1]]
    BY <2>1
  <2> DEFINE g == [i \in 0 .. k + 1 |-> IF i = k + 1 THEN step[k + 1][f[k]] ELSE f[i]]
  <2>3. k + 1 \in 1 .. N /\ f[k] \in S
    BY <2>1
  <2>4. step[k + 1][f[k]] \in S
    BY <2>3
  <2>5. g \in [0 .. k + 1 -> S]
    BY <2>1, <2>4
  <2>6. g[0] = first
    BY <2>1, <2>2
  <2>7. ASSUME NEW n \in 1 .. k + 1 PROVE g[n] = step[n][g[n - 1]]
    <3>1. n - 1 \in 0 .. k /\ g[n - 1] = f[n - 1]
      BY <2>1
    <3>2. CASE n = k + 1
      BY <3>1, <3>2, <2>1
    <3>3. CASE n # k + 1
      <4>1. n \in 1 .. k /\ g[n] = f[n]
        BY <3>3, <2>1
      <4> QED BY <4>1, <3>1, <2>2
    <3> QED BY <3>2, <3>3
  <2> HIDE DEF g
  <2> QED BY <2>5, <2>6, <2>7
<1> HIDE DEF Upto
<1>3. T = Nat
  <2>1. T \in SUBSET Nat
    OBVIOUS
  <2> HIDE DEF T
  <2> QED BY <1>1, <1>2, <2>1, Induction
<1>4. Upto(N)
  BY <1>3
<1> QED BY <1>4 DEF Upto, Follows

(***************************************************************************)
(* The rows: what a creator with a space does to them.                     *)
(***************************************************************************)
\* A row that db_h_bw reads to its end
Row == {row \in Seq(Fields) : Len(row) >= 4 /\ row[1] \in Words}

\* A row that begins with a word and its creator
Begins(row, w, spaced, rest) ==
    /\ row \in Seq(Fields) /\ row[1] = w
    /\ spaced => Len(row) = Len(rest) + 3 /\ row[3] = "(account)"
    /\ ~spaced => Len(row) = Len(rest) + 2 /\ row[3] = rest[1]
    /\ ~spaced => (Len(rest) >= 2 => row[4] = rest[2])

LEMMA ByFacts ==
    ASSUME NEW w \in Words, NEW spaced \in BOOLEAN, NEW rest \in Seq(Fields), rest # <<>>
    PROVE  Begins(By(w, spaced) \o rest, w, spaced, rest)
<1> DEFINE row == By(w, spaced) \o rest
<1>1. Len(rest) \in Nat /\ Len(rest) >= 1
  OBVIOUS
<1>2. w \in Fields /\ "nick" \in Fields /\ "(account)" \in Fields
  BY DEF Fields
<1>3. CASE spaced
  <2> DEFINE b == <<w, "nick", "(account)">>
  <2>1. b \in Seq(Fields) /\ Len(b) = 3 /\ b[1] = w /\ b[3] = "(account)"
    BY <1>2
  <2>2. row = b \o rest
    BY <1>3 DEF By
  <2> HIDE DEF b, row
  <2>3. /\ row \in Seq(Fields) /\ Len(row) = Len(b) + Len(rest)
        /\ \A i \in 1 .. Len(b) + Len(rest) : row[i] = IF i <= Len(b) THEN b[i] ELSE rest[i - Len(b)]
    BY <2>1, <2>2, ConcatProperties
  <2>4. 1 \in 1 .. Len(b) + Len(rest) /\ 3 \in 1 .. Len(b) + Len(rest) /\ 1 <= Len(b) /\ 3 <= Len(b)
    BY <1>1, <2>1
  <2>5. row[1] = w /\ row[3] = "(account)"
    BY <2>1, <2>3, <2>4
  <2>6. Len(row) = Len(rest) + 3
    BY <1>1, <2>1, <2>3
  <2> QED BY <1>3, <2>3, <2>5, <2>6 DEF row, Begins
<1>4. CASE ~spaced
  <2> DEFINE b == <<w, "nick">>
  <2>1. b \in Seq(Fields) /\ Len(b) = 2 /\ b[1] = w
    BY <1>2
  <2>2. row = b \o rest
    BY <1>4 DEF By
  <2> HIDE DEF b, row
  <2>3. /\ row \in Seq(Fields) /\ Len(row) = Len(b) + Len(rest)
        /\ \A i \in 1 .. Len(b) + Len(rest) : row[i] = IF i <= Len(b) THEN b[i] ELSE rest[i - Len(b)]
    BY <2>1, <2>2, ConcatProperties
  <2>4. /\ 1 \in 1 .. Len(b) + Len(rest) /\ 3 \in 1 .. Len(b) + Len(rest)
        /\ 1 <= Len(b) /\ ~(3 <= Len(b)) /\ 3 - Len(b) = 1 /\ ~(4 <= Len(b)) /\ 4 - Len(b) = 2
    BY <1>1, <2>1
  <2>5. row[1] = w /\ row[3] = rest[1]
    BY <2>1, <2>3, <2>4
  <2>6. ASSUME Len(rest) >= 2 PROVE row[4] = rest[2]
    <3>1. 4 \in 1 .. Len(b) + Len(rest)
      BY <1>1, <2>1, <2>6
    <3> QED BY <2>3, <2>4, <3>1
  <2>7. Len(row) = Len(rest) + 2
    BY <1>1, <2>1, <2>3
  <2> QED BY <1>4, <2>3, <2>5, <2>6, <2>7 DEF row, Begins
<1> QED BY <1>3, <1>4

LEMMA WordRowFacts ==
    ASSUME NEW e \in Entry, NEW c \in Channels
    PROVE  /\ WordRow(e, c) \in Row
           /\ \A d \in Channels : Belongs(WordRow(e, c), d) <=> ~e.spaced /\ c = d
           /\ ~e.spaced => EntryOf(WordRow(e, c)) = e
<1> DEFINE rest == <<c, e.action>>
           row == WordRow(e, c)
<1>1. e.badword \in Words /\ e.spaced \in BOOLEAN /\ e.action \in Fields /\ c \in Fields
  BY DEF Entry, Fields
<1>2. rest \in Seq(Fields) /\ rest # <<>> /\ Len(rest) = 2 /\ rest[1] = c /\ rest[2] = e.action
  BY <1>1
<1>3. row = By(e.badword, e.spaced) \o rest
  BY DEF WordRow
<1> HIDE DEF rest, row
<1>4. Begins(row, e.badword, e.spaced, rest)
  BY <1>1, <1>2, <1>3, ByFacts
<1>5. CASE e.spaced
  <2>1. row \in Seq(Fields) /\ row[1] = e.badword /\ Len(row) = Len(rest) + 3 /\ row[3] = "(account)"
    BY <1>4, <1>5 DEF Begins
  <2>2. row \in Row
    <3>1. Len(row) >= 4
      BY <1>2, <2>1
    <3>2. row[1] \in Words
      BY <1>1, <2>1
    <3> QED BY <2>1, <3>1, <3>2 DEF Row
  <2>3. \A d \in Channels : ~Belongs(row, d)
    BY <2>1, BadwordsAssumption DEF Belongs
  <2> QED BY <1>5, <2>2, <2>3 DEF row
<1>6. CASE ~e.spaced
  <2>1. row \in Seq(Fields) /\ row[1] = e.badword /\ Len(row) = Len(rest) + 2 /\ row[3] = rest[1]
    BY <1>4, <1>6 DEF Begins
  <2>2. row[4] = rest[2]
    BY <1>2, <1>4, <1>6 DEF Begins
  <2>3. row \in Row
    <3>1. Len(row) >= 4
      BY <1>2, <2>1
    <3>2. row[1] \in Words
      BY <1>1, <2>1
    <3> QED BY <2>1, <3>1, <3>2 DEF Row
  <2>4. \A d \in Channels : Belongs(row, d) <=> c = d
    BY <1>2, <2>1 DEF Belongs
  <2>5. EntryOf(row) = e
    <3>1. e.spaced = FALSE
      BY <1>1, <1>6
    <3> QED BY <1>2, <2>1, <2>2, <3>1 DEF EntryOf, Entry
  <2> QED BY <1>6, <2>3, <2>4, <2>5 DEF row
<1> QED BY <1>5, <1>6

LEMMA WordRowStart ==
    ASSUME NEW e \in Entry, NEW c \in Channels
    PROVE  WordRow(e, c)[1] = e.badword
<1> DEFINE rest == <<c, e.action>>
<1>1. e.badword \in Words /\ e.spaced \in BOOLEAN /\ e.action \in Fields /\ c \in Fields
  BY DEF Entry, Fields
<1>2. rest \in Seq(Fields) /\ rest # <<>>
  BY <1>1
<1>3. WordRow(e, c) = By(e.badword, e.spaced) \o rest
  BY DEF WordRow
<1> HIDE DEF rest
<1>4. Begins(WordRow(e, c), e.badword, e.spaced, rest)
  BY <1>1, <1>2, <1>3, ByFacts
<1> QED BY <1>4 DEF Begins

LEMMA ExemptRowFacts ==
    ASSUME NEW de \in Exemption
    PROVE  LET row == ExemptRow(de)
           IN  /\ row \in Seq(Fields) /\ row[1] = de.ip
               /\ ~(Len(row) >= 4) => ~de.spaced /\ Len(de.reason) = 1
               /\ Len(row) >= 4 =>
                     /\ row \in Row
                     /\ \A c \in Channels :
                           Belongs(row, c) =>
                              /\ ~de.spaced /\ Len(de.reason) >= 2 /\ de.reason[1] = c
                              /\ row[4] = de.reason[2]
<1> DEFINE row == ExemptRow(de)
           rest == de.reason
<1>1. de.ip \in Words /\ de.spaced \in BOOLEAN /\ rest \in Seq(Fields) /\ rest # <<>>
  BY DEF Exemption
<1>2. row = By(de.ip, de.spaced) \o rest
  BY DEF ExemptRow
<1> HIDE DEF row, rest
<1>3. Begins(row, de.ip, de.spaced, rest)
  BY <1>1, <1>2, ByFacts
<1>4. Len(rest) \in Nat /\ Len(rest) >= 1
  BY <1>1
<1>5. row \in Seq(Fields) /\ row[1] = de.ip
  BY <1>3 DEF Begins
<1>6. Len(row) >= 4 => row \in Row
  BY <1>1, <1>5 DEF Row
<1>7. CASE de.spaced
  <2>1. Len(row) = Len(rest) + 3 /\ row[3] = "(account)"
    BY <1>3, <1>7 DEF Begins
  <2>2. Len(row) >= 4
    BY <1>4, <2>1
  <2>3. \A c \in Channels : ~Belongs(row, c)
    BY <2>1, BadwordsAssumption DEF Belongs
  <2> QED BY <1>5, <1>6, <2>2, <2>3 DEF row
<1>8. CASE ~de.spaced
  <2>1. Len(row) = Len(rest) + 2 /\ row[3] = rest[1]
    BY <1>3, <1>8 DEF Begins
  <2>2. ~(Len(row) >= 4) => Len(rest) = 1
    BY <1>4, <2>1
  <2>3. Len(row) >= 4 => Len(rest) >= 2 /\ row[4] = rest[2]
    <3>1. Len(row) >= 4 => Len(rest) >= 2
      BY <1>4, <2>1
    <3> QED BY <1>3, <1>8, <3>1 DEF Begins
  <2>4. \A c \in Channels : Belongs(row, c) => rest[1] = c
    BY <2>1 DEF Belongs
  <2> QED BY <1>5, <1>6, <1>8, <2>2, <2>3, <2>4 DEF row, rest
<1> QED BY <1>7, <1>8

(***************************************************************************)
(* What the rows of a database bring back.                                 *)
(***************************************************************************)
ReadRow(list, row, c) == IF Belongs(row, c) THEN AddRow(list, row) ELSE list

Reading(rows, c) ==
    CHOOSE f : f = [n \in 0 .. Len(rows) |->
                       IF n = 0 THEN <<>>
                       ELSE IF Belongs(rows[n], c) THEN AddRow(f[n - 1], rows[n])
                       ELSE f[n - 1]]

LEMMA RowEntry ==
    ASSUME NEW row \in Row PROVE EntryOf(row) \in Entry
<1>1. row \in Seq(Fields) /\ Len(row) >= 4 /\ row[1] \in Words
  BY DEF Row
<1>2. row[4] \in Fields
  BY <1>1
<1> QED BY <1>1, <1>2 DEF EntryOf, Entry

LEMMA ReadRowType ==
    ASSUME NEW list \in Seq(Entry), NEW row \in Row, NEW c
    PROVE  ReadRow(list, row, c) \in Seq(Entry)
<1>1. EntryOf(row) \in Entry
  BY RowEntry
<1> QED BY <1>1, AppendProperties DEF ReadRow, AddRow

\* Row after row: the list of a channel grows by its own rows, in their order.
LEMMA ReadingFacts ==
    ASSUME NEW rows \in Seq(Row), NEW c
    PROVE  /\ Reading(rows, c) \in [0 .. Len(rows) -> Seq(Entry)]
           /\ Reading(rows, c)[0] = <<>>
           /\ \A n \in 1 .. Len(rows) :
                 Reading(rows, c)[n] = ReadRow(Reading(rows, c)[n - 1], rows[n], c)
<1> DEFINE N == Len(rows)
           step == [n \in 1 .. N |-> [list \in Seq(Entry) |-> ReadRow(list, rows[n], c)]]
<1>1. N \in Nat /\ \A n \in 1 .. N : rows[n] \in Row
  OBVIOUS
<1>2. step \in [1 .. N -> [Seq(Entry) -> Seq(Entry)]]
  BY <1>1, ReadRowType
<1>3. PICK f \in [0 .. N -> Seq(Entry)] :
         f[0] = <<>> /\ \A n \in 1 .. N : f[n] = step[n][f[n - 1]]
  <2> DEFINE S == Seq(Entry)
             first == <<>>
  <2>1. first \in S /\ N \in Nat
    BY <1>1
  <2>2. step \in [1 .. N -> [S -> S]]
    BY <1>2
  <2> HIDE DEF N, step, S, first
  <2>3. \E f \in [0 .. N -> S] : Follows(f, N, first, step)
    BY <2>1, <2>2, Recursion
  <2> QED BY <2>3 DEF S, first, Follows
<1>4. \A n \in 1 .. N : n - 1 \in 0 .. N /\ f[n] = ReadRow(f[n - 1], rows[n], c)
  <2> TAKE n \in 1 .. N
  <2> HIDE DEF N
  <2>1. n - 1 \in 0 .. N /\ f[n - 1] \in Seq(Entry)
    BY <1>1
  <2> QED BY <1>3, <2>1
<1> DEFINE Solves(g) == g = [n \in 0 .. N |->
                               IF n = 0 THEN <<>>
                               ELSE IF Belongs(rows[n], c) THEN AddRow(g[n - 1], rows[n])
                               ELSE g[n - 1]]
<1>5. Solves(f)
  <2>1. \A n \in 0 .. N : f[n] = IF n = 0 THEN <<>>
                                 ELSE IF Belongs(rows[n], c) THEN AddRow(f[n - 1], rows[n])
                                 ELSE f[n - 1]
    <3> TAKE n \in 0 .. N
    <3>1. CASE n = 0
      BY <3>1, <1>3
    <3>2. CASE n # 0
      <4>1. n \in 1 .. N
        BY <3>2, <1>1
      <4> QED BY <4>1, <3>2, <1>4 DEF ReadRow
    <3> QED BY <3>1, <3>2
  <2> QED BY <2>1
<1> DEFINE r == Reading(rows, c)
<1>6. Solves(r)
  BY <1>5 DEF Reading
<1>7. /\ r = [n \in 0 .. N |-> r[n]] /\ r[0] = <<>>
      /\ \A n \in 1 .. N : r[n] = ReadRow(r[n - 1], rows[n], c)
  <2> HIDE DEF r
  <2>1. DOMAIN r = 0 .. N /\ r = [n \in 0 .. N |-> r[n]]
    BY <1>6
  <2>2. 0 \in 0 .. N /\ \A n \in 1 .. N : n \in 0 .. N /\ n # 0
    BY <1>1
  <2> QED BY <2>1, <2>2, <1>6 DEF ReadRow
<1> HIDE DEF r, Solves, N
<1>8. \A n \in 0 .. N : r[n] = f[n]
  <2> DEFINE T == {n \in Nat : n <= N => r[n] = f[n]}
  <2>1. 0 \in T
    BY <1>7, <1>3, <1>1
  <2>2. ASSUME NEW n \in T PROVE n + 1 \in T
    <3> SUFFICES ASSUME n + 1 <= N PROVE r[n + 1] = f[n + 1]
      OBVIOUS
    <3>1. n \in Nat /\ r[n] = f[n] /\ n + 1 \in 1 .. N /\ (n + 1) - 1 = n
      BY <1>1
    <3> QED BY <3>1, <1>7, <1>4
  <2>3. T = Nat
    <3>1. T \in SUBSET Nat
      OBVIOUS
    <3> HIDE DEF T
    <3> QED BY <2>1, <2>2, <3>1, Induction
  <2>4. \A n \in 0 .. N : n \in Nat /\ n <= N
    BY <1>1
  <2> QED BY <2>3, <2>4
<1>9. r \in [0 .. N -> Seq(Entry)]
  BY <1>7, <1>8, <1>3
<1> QED BY <1>7, <1>9 DEF r, N

LEMMA RestoredIsReading ==
    ASSUME NEW rows, NEW c
    PROVE  Restored(rows, c) = Reading(rows, c)[Len(rows)]
BY DEF Restored, Reading

LEMMA RestoredType ==
    ASSUME NEW rows \in Seq(Row), NEW c
    PROVE  Restored(rows, c) \in Seq(Entry)
<1>1. Len(rows) \in 0 .. Len(rows)
  OBVIOUS
<1> QED BY <1>1, ReadingFacts, RestoredIsReading

LEMMA RestoredEmpty == \A c : Restored(<<>>, c) = <<>>
<1> TAKE c
<1>1. <<>> \in Seq(Row) /\ Len(<<>>) = 0
  OBVIOUS
<1> QED BY <1>1, ReadingFacts, RestoredIsReading

\* One row more is read after all the others.
LEMMA RestoredAppend ==
    ASSUME NEW rows \in Seq(Row), NEW row \in Row, NEW c
    PROVE  Restored(Append(rows, row), c) = ReadRow(Restored(rows, c), row, c)
<1> DEFINE N == Len(rows)
           more == Append(rows, row)
           f == Reading(rows, c)
           g == Reading(more, c)
<1>1. /\ N \in Nat /\ more \in Seq(Row) /\ Len(more) = N + 1
      /\ \A n \in 1 .. N : more[n] = rows[n]
      /\ more[N + 1] = row
  OBVIOUS
<1>2. f[0] = <<>> /\ \A n \in 1 .. N : f[n] = ReadRow(f[n - 1], rows[n], c)
  BY ReadingFacts
<1>3. g[0] = <<>> /\ \A n \in 1 .. N + 1 : g[n] = ReadRow(g[n - 1], more[n], c)
  BY <1>1, ReadingFacts
<1>4. Restored(rows, c) = f[N] /\ Restored(more, c) = g[N + 1]
  BY <1>1, RestoredIsReading
<1> HIDE DEF f, g, N, more
<1>5. \A n \in 0 .. N : f[n] = g[n]
  <2> DEFINE T == {n \in Nat : n <= N => f[n] = g[n]}
  <2>1. 0 \in T
    BY <1>2, <1>3
  <2>2. ASSUME NEW n \in T PROVE n + 1 \in T
    <3> SUFFICES ASSUME n + 1 <= N PROVE f[n + 1] = g[n + 1]
      OBVIOUS
    <3>1. n \in Nat /\ f[n] = g[n] /\ n + 1 \in 1 .. N /\ n + 1 \in 1 .. N + 1 /\ (n + 1) - 1 = n
      BY <1>1
    <3>2. more[n + 1] = rows[n + 1]
      BY <3>1, <1>1
    <3> QED BY <3>1, <3>2, <1>2, <1>3
  <2>3. T = Nat
    <3>1. T \in SUBSET Nat
      OBVIOUS
    <3> HIDE DEF T
    <3> QED BY <2>1, <2>2, <3>1, Induction
  <2>4. \A n \in 0 .. N : n \in Nat /\ n <= N
    BY <1>1
  <2> QED BY <2>3, <2>4
<1>6. N \in 0 .. N /\ N + 1 \in 1 .. N + 1 /\ (N + 1) - 1 = N
  BY <1>1
<1>7. g[N + 1] = ReadRow(f[N], row, c)
  BY <1>1, <1>3, <1>5, <1>6
<1> QED BY <1>4, <1>7 DEF more

\* Rows in two parts are read one part after the other.
LEMMA RestoredConcat ==
    ASSUME NEW c
    PROVE  \A more \in Seq(Row), rows \in Seq(Row) :
              Restored(rows \o more, c) = Restored(rows, c) \o Restored(more, c)
<1> DEFINE Holds(more) ==
              \A rows \in Seq(Row) :
                 Restored(rows \o more, c) = Restored(rows, c) \o Restored(more, c)
           T == {n \in Nat : \A more \in Seq(Row) : Len(more) = n => Holds(more)}
<1>1. 0 \in T
  <2> SUFFICES ASSUME NEW more \in Seq(Row), Len(more) = 0, NEW rows \in Seq(Row)
               PROVE  Restored(rows \o more, c) = Restored(rows, c) \o Restored(more, c)
    OBVIOUS
  <2>1. more = <<>>
    OBVIOUS
  <2>2. rows \o more = rows /\ Restored(more, c) = <<>>
    BY <2>1, RestoredEmpty, ConcatEmptySeq
  <2>3. Restored(rows, c) \o <<>> = Restored(rows, c)
    BY RestoredType, ConcatEmptySeq
  <2> QED BY <2>2, <2>3
<1>2. ASSUME NEW n \in T PROVE n + 1 \in T
  <2> SUFFICES ASSUME NEW more \in Seq(Row), Len(more) = n + 1, NEW rows \in Seq(Row)
               PROVE  Restored(rows \o more, c) = Restored(rows, c) \o Restored(more, c)
    OBVIOUS
  <2>1. n \in Nat /\ more # <<>>
    OBVIOUS
  <2>2. PICK front \in Seq(Row), row \in Row : more = Append(front, row)
    BY <2>1, SequenceEmptyOrAppend
  <2>3. Len(front) = n
    BY <2>1, <2>2
  <2> DEFINE old == Restored(rows, c)
             part == Restored(front, c)
             all == rows \o front
  <2>4. Restored(all, c) = old \o part
    BY <2>3
  <2>5. old \in Seq(Entry) /\ part \in Seq(Entry) /\ all \in Seq(Row)
    BY RestoredType, ConcatProperties
  <2>6. Restored(more, c) = ReadRow(part, row, c)
    BY <2>2, RestoredAppend
  <2>7. rows \o more = Append(all, row)
    <3>1. Append(front, row) = front \o <<row>> /\ <<row>> \in Seq(Row)
      BY AppendIsConcat
    <3>2. Append(all, row) = all \o <<row>>
      BY <2>5, AppendIsConcat
    <3>3. (rows \o front) \o <<row>> = rows \o (front \o <<row>>)
      BY <3>1, ConcatAssociative
    <3> QED BY <2>2, <3>1, <3>2, <3>3
  <2> HIDE DEF old, part, all
  <2>8. Restored(rows \o more, c) = ReadRow(old \o part, row, c)
    <3>1. Restored(Append(all, row), c) = ReadRow(Restored(all, c), row, c)
      BY <2>5, RestoredAppend
    <3> QED BY <2>4, <2>7, <3>1
  <2>9. CASE Belongs(row, c)
    <3> DEFINE e == EntryOf(row)
    <3>1. e \in Entry
      BY RowEntry
    <3> HIDE DEF e
    <3>2. /\ Restored(rows \o more, c) = Append(old \o part, e)
          /\ Restored(more, c) = Append(part, e)
      BY <2>6, <2>8, <2>9 DEF ReadRow, AddRow, e
    <3>3. Append(part, e) = part \o <<e>> /\ <<e>> \in Seq(Entry)
      BY <2>5, <3>1, AppendIsConcat
    <3>4. Append(old \o part, e) = (old \o part) \o <<e>>
      BY <2>5, <3>1, ConcatProperties, AppendIsConcat
    <3>5. (old \o part) \o <<e>> = old \o (part \o <<e>>)
      BY <2>5, <3>3, ConcatAssociative
    <3> QED BY <3>2, <3>3, <3>4, <3>5 DEF old
  <2>10. CASE ~Belongs(row, c)
    BY <2>6, <2>8, <2>10 DEF ReadRow, old
  <2> QED BY <2>9, <2>10
<1>3. T = Nat
  <2>1. T \in SUBSET Nat
    OBVIOUS
  <2> HIDE DEF T
  <2> QED BY <1>1, <1>2, <2>1, Induction
<1> HIDE DEF Holds
<1>4. \A more \in Seq(Row) : Holds(more)
  <2> TAKE more \in Seq(Row)
  <2>1. Len(more) \in T
    BY <1>3
  <2> QED BY <2>1
<1> QED BY <1>4 DEF Holds

\* Whatever is read, some row of the channel was read for it.
LEMMA RestoredFrom ==
    ASSUME NEW c
    PROVE  \A rows \in Seq(Row) : \A i \in DOMAIN Restored(rows, c) :
              \E k \in DOMAIN rows :
                 Belongs(rows[k], c) /\ Restored(rows, c)[i] = EntryOf(rows[k])
<1> DEFINE Holds(rows) ==
              \A i \in DOMAIN Restored(rows, c) :
                 \E k \in DOMAIN rows :
                    Belongs(rows[k], c) /\ Restored(rows, c)[i] = EntryOf(rows[k])
           T == {n \in Nat : \A rows \in Seq(Row) : Len(rows) = n => Holds(rows)}
<1>1. 0 \in T
  <2> SUFFICES ASSUME NEW rows \in Seq(Row), Len(rows) = 0 PROVE Holds(rows)
    OBVIOUS
  <2>1. rows = <<>>
    OBVIOUS
  <2>2. Restored(rows, c) = <<>>
    BY <2>1, RestoredEmpty
  <2> QED BY <2>2
<1>2. ASSUME NEW n \in T PROVE n + 1 \in T
  <2> SUFFICES ASSUME NEW rows \in Seq(Row), Len(rows) = n + 1,
                      NEW i \in DOMAIN Restored(rows, c)
               PROVE  \E k \in DOMAIN rows :
                         Belongs(rows[k], c) /\ Restored(rows, c)[i] = EntryOf(rows[k])
    OBVIOUS
  <2>1. n \in Nat /\ rows # <<>>
    OBVIOUS
  <2>2. PICK front \in Seq(Row), row \in Row : rows = Append(front, row)
    BY <2>1, SequenceEmptyOrAppend
  <2> DEFINE part == Restored(front, c)
  <2>3. Len(front) = n /\ part \in Seq(Entry)
    BY <2>1, <2>2, RestoredType
  <2>4. Restored(rows, c) = ReadRow(part, row, c)
    BY <2>2, RestoredAppend
  <2>5. \A j \in DOMAIN part : \E k \in DOMAIN front :
           Belongs(front[k], c) /\ part[j] = EntryOf(front[k])
    BY <2>3
  <2>6. /\ DOMAIN rows = 1 .. n + 1 /\ DOMAIN front = 1 .. n /\ rows[n + 1] = row
        /\ \A k \in 1 .. n : rows[k] = front[k]
    BY <2>2, <2>3
  <2> HIDE DEF part
  <2>7. \A j \in DOMAIN part : \E k \in DOMAIN rows :
           Belongs(rows[k], c) /\ part[j] = EntryOf(rows[k])
    <3> TAKE j \in DOMAIN part
    <3>1. PICK k \in DOMAIN front : Belongs(front[k], c) /\ part[j] = EntryOf(front[k])
      BY <2>5
    <3>2. k \in DOMAIN rows /\ rows[k] = front[k]
      BY <2>1, <2>6
    <3> QED BY <3>1, <3>2
  <2>8. CASE ~Belongs(row, c)
    BY <2>4, <2>7, <2>8 DEF ReadRow
  <2>9. CASE Belongs(row, c)
    <3>1. Restored(rows, c) = Append(part, EntryOf(row))
      BY <2>4, <2>9 DEF ReadRow, AddRow
    <3>2. i \in DOMAIN part \/ i = Len(part) + 1
      BY <2>3, <3>1
    <3>3. CASE i \in DOMAIN part
      <4>1. Restored(rows, c)[i] = part[i]
        BY <2>3, <3>1, <3>3
      <4> QED BY <2>7, <3>3, <4>1
    <3>4. CASE i = Len(part) + 1
      <4>1. Restored(rows, c)[i] = EntryOf(row)
        BY <2>3, <3>1, <3>4
      <4>2. n + 1 \in DOMAIN rows /\ rows[n + 1] = row
        BY <2>1, <2>6
      <4> QED BY <2>9, <4>1, <4>2
    <3> QED BY <3>2, <3>3, <3>4
  <2> QED BY <2>8, <2>9
<1>3. T = Nat
  <2>1. T \in SUBSET Nat
    OBVIOUS
  <2> HIDE DEF T
  <2> QED BY <1>1, <1>2, <2>1, Induction
<1> HIDE DEF Holds
<1>4. \A rows \in Seq(Row) : Holds(rows)
  <2> TAKE rows \in Seq(Row)
  <2>1. Len(rows) \in T
    BY <1>3
  <2> QED BY <2>1
<1> QED BY <1>4 DEF Holds

LEMMA RestoredNone ==
    ASSUME NEW rows \in Seq(Row), NEW c, \A k \in DOMAIN rows : ~Belongs(rows[k], c)
    PROVE  Restored(rows, c) = <<>>
<1> DEFINE r == Restored(rows, c)
<1>1. r \in Seq(Entry) /\ \A i \in DOMAIN r : FALSE
  BY RestoredType, RestoredFrom
<1> HIDE DEF r
<1>2. Len(r) = 0
  <2>1. Len(r) \in Nat /\ DOMAIN r = 1 .. Len(r)
    BY <1>1
  <2>2. 1 \notin DOMAIN r
    BY <1>1
  <2> QED BY <2>1, <2>2
<1>3. r = <<>>
  BY <1>1, <1>2
<1> QED BY <1>3 DEF r

(***************************************************************************)
(* The lists of all channels, one after the other.                         *)
(***************************************************************************)
Joining(seqs) ==
    CHOOSE f : f = [i \in 1 .. Len(seqs) |-> IF i = 1 THEN seqs[i] ELSE f[i - 1] \o seqs[i]]

\* FlattenSeq joins the sequences from the left.
LEMMA FlattenFacts ==
    ASSUME NEW S, NEW seqs \in Seq(Seq(S))
    PROVE  \E f \in [0 .. Len(seqs) -> Seq(S)] :
              /\ f[0] = <<>>
              /\ \A i \in 1 .. Len(seqs) : f[i] = f[i - 1] \o seqs[i]
              /\ FlattenSeq(seqs) = f[Len(seqs)]
<1> DEFINE N == Len(seqs)
           step == [i \in 1 .. N |-> [s \in Seq(S) |-> s \o seqs[i]]]
           first == <<>>
           Q == Seq(S)
<1>1. N \in Nat /\ first \in Q /\ \A i \in 1 .. N : seqs[i] \in Seq(S)
  OBVIOUS
<1>2. step \in [1 .. N -> [Q -> Q]]
  <2>1. ASSUME NEW i \in 1 .. N, NEW s \in Seq(S) PROVE s \o seqs[i] \in Seq(S)
    BY <1>1, ConcatProperties
  <2> QED BY <2>1
<1>3. PICK f \in [0 .. N -> Q] : Follows(f, N, first, step)
  <2> HIDE DEF N, step, first, Q
  <2> QED BY <1>1, <1>2, Recursion
<1>4. f \in [0 .. N -> Seq(S)] /\ f[0] = <<>>
  BY <1>3 DEF Follows
<1> HIDE DEF N
<1>5. \A i \in 1 .. N : i - 1 \in 0 .. N /\ i \in 0 .. N /\ f[i] = f[i - 1] \o seqs[i]
  <2> TAKE i \in 1 .. N
  <2>1. i - 1 \in 0 .. N /\ i \in 0 .. N
    BY <1>1
  <2>2. f[i - 1] \in Seq(S)
    BY <1>4, <2>1
  <2>3. f[i] = step[i][f[i - 1]]
    BY <1>3 DEF Follows
  <2> QED BY <2>1, <2>2, <2>3
<1> HIDE DEF step, first, Q
<1>6. CASE N = 0
  <2>1. seqs = <<>> /\ FlattenSeq(seqs) = seqs
    BY <1>6 DEF N, FlattenSeq
  <2> QED BY <2>1, <1>4, <1>5, <1>6 DEF N
<1>7. CASE N # 0
  <2> DEFINE Solves(g) == g = [i \in 1 .. N |-> IF i = 1 THEN seqs[i] ELSE g[i - 1] \o seqs[i]]
             h == [i \in 1 .. N |-> f[i]]
             r == Joining(seqs)
  <2>1. f[1] = seqs[1]
    <3>1. 1 \in 1 .. N /\ 1 - 1 = 0
      BY <1>1, <1>7
    <3>2. f[1] = <<>> \o seqs[1]
      BY <3>1, <1>4, <1>5
    <3>3. <<>> \o seqs[1] = seqs[1]
      BY <3>1, <1>1, ConcatEmptySeq
    <3> QED BY <3>2, <3>3
  <2>2. Solves(h)
    <3>1. ASSUME NEW i \in 1 .. N, i # 1 PROVE h[i] = h[i - 1] \o seqs[i]
      <4>1. i - 1 \in 1 .. N
        BY <1>1, <3>1
      <4> QED BY <4>1, <1>5
    <3>2. \A i \in 1 .. N : h[i] = IF i = 1 THEN seqs[i] ELSE h[i - 1] \o seqs[i]
      BY <2>1, <3>1
    <3>3. h = [i \in 1 .. N |-> h[i]]
      OBVIOUS
    <3> HIDE DEF h
    <3> QED BY <3>2, <3>3
  <2>3. Solves(r)
    BY <2>2 DEF Joining, N
  <2>4. r[1] = seqs[1] /\ \A i \in 1 .. N : i # 1 => r[i] = r[i - 1] \o seqs[i]
    <3> HIDE DEF r
    <3>1. 1 \in 1 .. N
      BY <1>1, <1>7
    <3> QED BY <2>3, <3>1
  <2>5. FlattenSeq(seqs) = r[N]
    BY <1>7 DEF FlattenSeq, Joining, N
  <2> HIDE DEF r, Solves, h
  <2>6. \A i \in 1 .. N : r[i] = f[i]
    <3> DEFINE T == {n \in Nat : n + 1 <= N => r[n + 1] = f[n + 1]}
    <3>1. 0 \in T
      BY <2>1, <2>4
    <3>2. ASSUME NEW n \in T PROVE n + 1 \in T
      <4> SUFFICES ASSUME (n + 1) + 1 <= N PROVE r[(n + 1) + 1] = f[(n + 1) + 1]
        OBVIOUS
      <4>1. n \in Nat /\ r[n + 1] = f[n + 1] /\ (n + 1) + 1 \in 1 .. N /\ (n + 1) + 1 # 1
            /\ ((n + 1) + 1) - 1 = n + 1
        BY <1>1
      <4> QED BY <4>1, <1>5, <2>4
    <3>3. T = Nat
      <4>1. T \in SUBSET Nat
        OBVIOUS
      <4> HIDE DEF T
      <4> QED BY <3>1, <3>2, <4>1, Induction
    <3>4. \A i \in 1 .. N : i - 1 \in Nat /\ (i - 1) + 1 <= N /\ (i - 1) + 1 = i
      BY <1>1
    <3>5. \A i \in 1 .. N : i - 1 \in T
      BY <3>3, <3>4
    <3> QED BY <3>4, <3>5
  <2>7. N \in 1 .. N
    BY <1>1, <1>7
  <2> QED BY <1>4, <1>5, <2>5, <2>6, <2>7 DEF N
<1> QED BY <1>6, <1>7

\* SetToSeq names every element of a finite set once.
LEMMA SetToSeqFacts ==
    ASSUME NEW D, IsFiniteSet(D)
    PROVE  /\ SetToSeq(D) \in Seq(D)
           /\ \A c \in D : \E i \in 1 .. Len(SetToSeq(D)) : SetToSeq(D)[i] = c
           /\ \A i, j \in 1 .. Len(SetToSeq(D)) : SetToSeq(D)[i] = SetToSeq(D)[j] => i = j
<1> DEFINE n == Cardinality(D)
           I == 1 .. n
           order == SetToSeq(D)
<1>1. n \in Nat /\ ExistsBijection(I, D)
  BY FS_CardinalityType
<1>2. PICK b \in [I -> D] : IsInjective(b)
  BY <1>1 DEF ExistsBijection, Bijection, Injection
<1>3. order \in [I -> D] /\ IsInjective(order)
  BY <1>2 DEF SetToSeq
<1> HIDE DEF order
<1>4. IsFiniteSet(I) /\ Cardinality(I) = n
  BY <1>1, FS_Interval
<1>5. order \in Injection(I, D)
  BY <1>3 DEF Injection
<1>6. order \in Surjection(I, D)
  BY <1>4, <1>5, FS_Injection
<1>7. \A c \in D : \E i \in I : order[i] = c
  BY <1>6 DEF Surjection
<1>8. order \in Seq(D) /\ Len(order) = n
  BY <1>1, <1>3
<1> QED BY <1>3, <1>7, <1>8 DEF IsInjective, order

LEMMA RowsOfFacts ==
    ASSUME NEW list \in Seq(Entry), NEW c \in Channels
    PROVE  /\ RowsOf(list, c) \in Seq(Row) /\ Len(RowsOf(list, c)) = Len(list)
           /\ \A d \in Channels : d # c =>
                 \A k \in DOMAIN RowsOf(list, c) : ~Belongs(RowsOf(list, c)[k], d)
<1>1. Len(list) \in Nat /\ DOMAIN list = 1 .. Len(list) /\ \A i \in 1 .. Len(list) : list[i] \in Entry
  OBVIOUS
<1> DEFINE rows == RowsOf(list, c)
<1>2. rows = [i \in 1 .. Len(list) |-> WordRow(list[i], c)]
  BY <1>1 DEF RowsOf
<1> HIDE DEF rows
<1>3. \A i \in 1 .. Len(list) : rows[i] = WordRow(list[i], c) /\ rows[i] \in Row
  BY <1>1, <1>2, WordRowFacts
<1>4. rows \in Seq(Row) /\ Len(rows) = Len(list)
  BY <1>1, <1>2, <1>3
<1>5. ASSUME NEW d \in Channels, d # c, NEW k \in DOMAIN rows PROVE ~Belongs(rows[k], d)
  <2>1. k \in 1 .. Len(list)
    BY <1>4, <1>5
  <2> QED BY <1>1, <1>3, <1>5, <2>1, WordRowFacts
<1> QED BY <1>4, <1>5 DEF rows

\* What write_badword_db writes, db_h_bw reads channel by channel.
LEMMA RoundTrip ==
    ASSUME NEW lists, IsFiniteSet(DOMAIN lists), DOMAIN lists \subseteq Channels,
           \A c \in DOMAIN lists : lists[c] \in Seq(Entry)
    PROVE  /\ WordRows(lists) \in Seq(Row)
           /\ \A c \in Channels :
                 Restored(WordRows(lists), c) =
                    IF c \in DOMAIN lists THEN Restored(RowsOf(lists[c], c), c) ELSE <<>>
<1> DEFINE D == DOMAIN lists
           order == SetToSeq(D)
           N == Len(order)
           seqs == [i \in DOMAIN order |-> RowsOf(lists[order[i]], order[i])]
<1>1. /\ order \in Seq(D)
      /\ \A c \in D : \E i \in 1 .. N : order[i] = c
      /\ \A i, j \in 1 .. N : order[i] = order[j] => i = j
  BY SetToSeqFacts
<1>2. WordRows(lists) = FlattenSeq(seqs)
  BY DEF WordRows
<1> HIDE DEF order
<1>3. N \in Nat /\ DOMAIN order = 1 .. N /\ \A i \in 1 .. N : order[i] \in D
  BY <1>1
<1> DEFINE own(c) == RowsOf(lists[c], c)
<1>4. \A c \in D : own(c) \in Seq(Row) /\ 
      \A d \in Channels : d # c => \A k \in DOMAIN own(c) : ~Belongs(own(c)[k], d)
  BY RowsOfFacts
<1>5. seqs \in Seq(Seq(Row)) /\ Len(seqs) = N /\ \A i \in 1 .. N : seqs[i] = own(order[i])
  BY <1>3, <1>4
<1> HIDE DEF seqs, N, own, D
<1>6. PICK f \in [0 .. N -> Seq(Row)] :
         /\ f[0] = <<>>
         /\ \A i \in 1 .. N : f[i] = f[i - 1] \o seqs[i]
         /\ FlattenSeq(seqs) = f[N]
  BY <1>5, FlattenFacts
<1>7. ASSUME NEW c \in Channels
      PROVE  Restored(WordRows(lists), c) = IF c \in D THEN Restored(own(c), c) ELSE <<>>
  <2> DEFINE Read(n) == Restored(f[n], c) = IF \E i \in 1 .. n : order[i] = c
                                           THEN Restored(own(c), c) ELSE <<>>
             T == {n \in Nat : n <= N => Read(n)}
  <2>1. 0 \in T
    BY <1>6, RestoredEmpty
  <2>2. ASSUME NEW n \in T PROVE n + 1 \in T
    <3> SUFFICES ASSUME n + 1 <= N PROVE Read(n + 1)
      OBVIOUS
    <3>1. n \in Nat /\ Read(n) /\ n + 1 \in 1 .. N /\ n \in 0 .. N /\ (n + 1) - 1 = n
      BY <1>3
    <3> DEFINE d == order[n + 1]
               rows == f[n]
    <3>2. d \in D /\ own(d) \in Seq(Row) /\ rows \in Seq(Row)
      BY <1>3, <1>4, <1>6, <3>1
    <3>3. f[n + 1] = rows \o own(d)
      BY <1>5, <1>6, <3>1
    <3> HIDE DEF d, rows
    <3>4. Restored(f[n + 1], c) = Restored(rows, c) \o Restored(own(d), c)
      BY <3>2, <3>3, RestoredConcat
    <3>5. \A i \in 1 .. n + 1 : i \in 1 .. n \/ i = n + 1
      BY <3>1
    <3>6. \A i \in 1 .. n : i \in 1 .. n + 1 /\ i \in 1 .. N /\ i # n + 1
      BY <3>1, <1>3
    <3>7. CASE c = d
      <4>1. \A i \in 1 .. n : order[i] # c
        BY <1>1, <3>1, <3>6, <3>7 DEF d
      <4>2. Restored(rows, c) = <<>>
        BY <3>1, <4>1 DEF rows
      <4>3. Restored(own(d), c) \in Seq(Entry)
        BY <3>2, RestoredType
      <4>4. Restored(f[n + 1], c) = Restored(own(d), c)
        BY <3>4, <4>2, <4>3, ConcatEmptySeq
      <4>5. n + 1 \in 1 .. n + 1 /\ order[n + 1] = c
        BY <3>1, <3>7 DEF d
      <4> QED BY <3>7, <4>4, <4>5
    <3>8. CASE c # d
      <4>1. (\E i \in 1 .. n + 1 : order[i] = c) <=> (\E i \in 1 .. n : order[i] = c)
        BY <3>5, <3>6, <3>8 DEF d
      <4>2. Restored(own(d), c) = <<>>
        <5>1. \A k \in DOMAIN own(d) : ~Belongs(own(d)[k], c)
          BY <1>4, <3>2, <3>8
        <5> QED BY <5>1, <3>2, RestoredNone
      <4>3. Restored(f[n + 1], c) = Restored(rows, c)
        BY <3>2, <3>4, <4>2, RestoredType, ConcatEmptySeq
      <4> QED BY <3>1, <4>1, <4>3 DEF rows
    <3> QED BY <3>7, <3>8
  <2>3. T = Nat
    <3>1. T \in SUBSET Nat
      OBVIOUS
    <3> HIDE DEF T
    <3> QED BY <2>1, <2>2, <3>1, Induction
  <2>4. Read(N)
    BY <2>3, <1>3
  <2>5. (\E i \in 1 .. N : order[i] = c) <=> c \in D
    BY <1>1, <1>3
  <2> QED BY <2>4, <2>5, <1>2, <1>6
<1>8. WordRows(lists) \in Seq(Row)
  <2>1. N \in 0 .. N
    BY <1>3
  <2> QED BY <2>1, <1>2, <1>6
<1> QED BY <1>7, <1>8 DEF own, D

(***************************************************************************)
(* Which word answers a line.                                              *)
(***************************************************************************)
\* The first of a set of places
LEMMA FirstPlace ==
    ASSUME NEW H \in SUBSET Nat, H # {}
    PROVE  Min(H) \in H /\ \A n \in H : Min(H) <= n
<1>1. \E m \in H : \A n \in H : m <= n
  BY LeastNumber
<1> QED BY <1>1 DEF Min

LEMMA FirstPlaceIs ==
    ASSUME NEW H \in SUBSET Nat, NEW m \in H, \A n \in H : m <= n
    PROVE  Min(H) = m
<1>1. Min(H) \in H /\ \A n \in H : Min(H) <= n
  BY FirstPlace
<1>2. Min(H) <= m /\ m <= Min(H) /\ m \in Nat /\ Min(H) \in Nat
  BY <1>1
<1> QED BY <1>2

LEMMA HitsFacts ==
    ASSUME NEW list \in Seq(Entry), NEW m
    PROVE  Hits(list, m) \in SUBSET Nat /\ Hits(list, m) \subseteq 1 .. Len(list)
BY DEF Hits

\* What matches nothing does not change the answer, before the list or after it.
LEMMA AnswerAfter ==
    ASSUME NEW a \in Seq(Entry), NEW b \in Seq(Entry), NEW m, Hits(b, m) = {}
    PROVE  Answer(a \o b, m) = Answer(a, m)
<1> DEFINE ab == a \o b
<1>1. /\ Len(a) \in Nat /\ Len(b) \in Nat /\ ab \in Seq(Entry)
      /\ Len(ab) = Len(a) + Len(b) /\ DOMAIN ab = 1 .. Len(a) + Len(b)
      /\ DOMAIN a = 1 .. Len(a) /\ DOMAIN b = 1 .. Len(b)
  BY ConcatProperties
<1>2. \A i \in 1 .. Len(a) + Len(b) : ab[i] = IF i <= Len(a) THEN a[i] ELSE b[i - Len(a)]
  BY ConcatProperties
<1> HIDE DEF ab
<1>3. \A i \in 1 .. Len(a) : i \in DOMAIN ab /\ ab[i] = a[i]
  BY <1>1, <1>2
<1>4. ASSUME NEW i \in DOMAIN ab, i \notin 1 .. Len(a)
      PROVE  i - Len(a) \in DOMAIN b /\ ab[i] = b[i - Len(a)]
  BY <1>1, <1>2, <1>4
<1>5. Hits(ab, m) = Hits(a, m)
  BY <1>1, <1>3, <1>4 DEF Hits
<1>6. Hits(a, m) # {} => Min(Hits(a, m)) \in 1 .. Len(a)
  BY HitsFacts, FirstPlace
<1> QED BY <1>3, <1>5, <1>6 DEF Answer, ab

LEMMA AnswerBefore ==
    ASSUME NEW a \in Seq(Entry), NEW b \in Seq(Entry), NEW m, Hits(b, m) = {}
    PROVE  Answer(b \o a, m) = Answer(a, m)
<1> DEFINE ba == b \o a
           N == Len(b)
<1>1. /\ Len(a) \in Nat /\ N \in Nat /\ ba \in Seq(Entry)
      /\ Len(ba) = N + Len(a) /\ DOMAIN ba = 1 .. N + Len(a)
      /\ DOMAIN a = 1 .. Len(a) /\ DOMAIN b = 1 .. N
  BY ConcatProperties
<1>2. \A i \in 1 .. N + Len(a) : ba[i] = IF i <= N THEN b[i] ELSE a[i - N]
  BY ConcatProperties
<1> HIDE DEF ba, N
<1>3. ASSUME NEW i \in 1 .. Len(a) PROVE i + N \in DOMAIN ba /\ ba[i + N] = a[i]
  <2>1. i + N \in 1 .. N + Len(a) /\ ~(i + N <= N) /\ (i + N) - N = i
    BY <1>1
  <2> QED BY <1>1, <1>2, <2>1
<1>4. ASSUME NEW i \in DOMAIN ba
      PROVE  \/ i \in DOMAIN b /\ ba[i] = b[i]
             \/ i - N \in DOMAIN a /\ ba[i] = a[i - N] /\ i = (i - N) + N
  BY <1>1, <1>2
<1>5. Hits(ba, m) = {i + N : i \in Hits(a, m)}
  <2>1. ASSUME NEW i \in Hits(a, m) PROVE i + N \in Hits(ba, m)
    <3>1. i \in 1 .. Len(a)
      BY HitsFacts
    <3> QED BY <1>3, <3>1 DEF Hits
  <2>2. ASSUME NEW j \in Hits(ba, m) PROVE \E i \in Hits(a, m) : j = i + N
    <3>1. j \in DOMAIN ba
      BY DEF Hits
    <3>2. ~(j \in DOMAIN b /\ ba[j] = b[j])
      BY DEF Hits
    <3>3. j - N \in DOMAIN a /\ ba[j] = a[j - N] /\ j = (j - N) + N
      BY <1>4, <3>1, <3>2
    <3>4. j - N \in Hits(a, m)
      BY <3>3 DEF Hits
    <3> QED BY <3>3, <3>4
  <2> QED BY <2>1, <2>2
<1>6. CASE Hits(a, m) = {}
  BY <1>5, <1>6 DEF Answer, ba
<1>7. CASE Hits(a, m) # {}
  <2> DEFINE H == Hits(a, m)
             k == Min(H)
             shifted == {i + N : i \in H}
  <2>1. H \in SUBSET Nat /\ k \in H /\ \A n \in H : k <= n
    BY <1>7, HitsFacts, FirstPlace
  <2>2. k \in 1 .. Len(a)
    BY <2>1, HitsFacts
  <2> HIDE DEF H, k
  <2>3. shifted \in SUBSET Nat /\ k + N \in shifted /\ \A n \in shifted : k + N <= n
    BY <1>1, <2>1
  <2> HIDE DEF shifted
  <2>4. Min(shifted) = k + N
    BY <2>3, FirstPlaceIs
  <2>5. Hits(ba, m) = shifted /\ shifted # {}
    BY <1>5, <2>3 DEF shifted, H
  <2>6. ba[k + N] = a[k]
    BY <1>3, <2>2
  <2>7. Answer(ba, m) = Effects[ba[k + N].action]
    BY <2>4, <2>5 DEF Answer
  <2>8. Answer(a, m) = Effects[a[k].action]
    BY <1>7 DEF Answer, H, k
  <2> QED BY <2>6, <2>7, <2>8 DEF ba
<1> QED BY <1>6, <1>7

\* One more word answers only if no other does.
LEMMA AnswerAppend ==
    ASSUME NEW list \in Seq(Entry), NEW e \in Entry, NEW m
    PROVE  /\ Hits(Append(list, e), m) = {} <=>
                 Hits(list, m) = {} /\ ~(e.badword \in m /\ e.action \in DOMAIN Effects)
           /\ Answer(Append(list, e), m) =
                 IF Hits(list, m) # {} THEN Answer(list, m)
                 ELSE IF e.badword \in m /\ e.action \in DOMAIN Effects
                 THEN Effects[e.action] ELSE {}
<1> DEFINE longer == Append(list, e)
           N == Len(list)
           H == Hits(list, m)
           hit == e.badword \in m /\ e.action \in DOMAIN Effects
<1>1. /\ N \in Nat /\ DOMAIN list = 1 .. N /\ DOMAIN longer = 1 .. N + 1
      /\ \A i \in 1 .. N : longer[i] = list[i]
      /\ longer[N + 1] = e
  OBVIOUS
<1> HIDE DEF longer, N
<1>2. H \in SUBSET Nat /\ H \subseteq 1 .. N
  BY HitsFacts DEF N
<1>3. Hits(longer, m) = H \cup (IF hit THEN {N + 1} ELSE {})
  <2>1. \A i \in 1 .. N + 1 : i \in 1 .. N \/ i = N + 1
    BY <1>1
  <2>2. N + 1 \in 1 .. N + 1 /\ 1 .. N \subseteq 1 .. N + 1
    BY <1>1
  <2> QED BY <1>1, <2>1, <2>2 DEF Hits
<1> HIDE DEF H, hit
<1>4. CASE H # {}
  <2> DEFINE k == Min(H)
             more == H \cup (IF hit THEN {N + 1} ELSE {})
  <2>1. k \in H /\ \A n \in H : k <= n
    BY <1>2, <1>4, FirstPlace
  <2> HIDE DEF k
  <2>2. k \in 1 .. N /\ k <= N + 1
    BY <1>1, <1>2, <2>1
  <2>3. more \in SUBSET Nat /\ k \in more /\ \A n \in more : k <= n
    BY <1>1, <1>2, <2>1, <2>2
  <2> HIDE DEF more
  <2>4. Min(more) = k
    BY <2>3, FirstPlaceIs
  <2>5. Hits(longer, m) = more /\ more # {}
    BY <1>3, <2>3 DEF more
  <2>6. Answer(longer, m) = Effects[longer[k].action]
    BY <2>4, <2>5 DEF Answer
  <2>7. Answer(list, m) = Effects[list[k].action]
    BY <1>4 DEF Answer, H, k
  <2>8. longer[k] = list[k]
    BY <1>1, <2>2
  <2> QED BY <1>4, <2>5, <2>6, <2>7, <2>8 DEF longer, H
<1>5. CASE H = {} /\ hit
  <2>1. Hits(longer, m) = {N + 1}
    BY <1>3, <1>5
  <2>2. Min({N + 1}) = N + 1
    <3> DEFINE one == {N + 1}
    <3>1. one \in SUBSET Nat /\ N + 1 \in one /\ \A n \in one : N + 1 <= n
      BY <1>1
    <3> HIDE DEF one
    <3>2. Min(one) = N + 1
      BY <3>1, FirstPlaceIs
    <3> QED BY <3>2 DEF one
  <2>3. Answer(longer, m) = Effects[e.action]
    BY <1>1, <2>1, <2>2 DEF Answer
  <2> QED BY <1>5, <2>1, <2>3 DEF longer, H, hit
<1>6. CASE H = {} /\ ~hit
  <2>1. Hits(longer, m) = {}
    BY <1>3, <1>6
  <2>2. Answer(longer, m) = {}
    BY <2>1 DEF Answer
  <2> QED BY <1>6, <2>1, <2>2 DEF longer, H, hit
<1> QED BY <1>4, <1>5, <1>6

(***************************************************************************)
(* What a list is like when its rows have been read again.                 *)
(***************************************************************************)
\* A word twice in a list is one of a set.
Double(list, ex) ==
    \A i, j \in DOMAIN list :
        list[i].badword = list[j].badword => i = j \/ list[i].badword \in ex

GoodList(list, ex) == list \in Seq(Entry) /\ Double(list, ex)

LEMMA AddedWord ==
    ASSUME NEW ex, NEW list, GoodList(list, ex), NEW e \in Entry,
           \A i \in DOMAIN list : list[i].badword = e.badword => e.badword \in ex
    PROVE  GoodList(Append(list, e), ex)
<1> DEFINE longer == Append(list, e)
           N == Len(list)
<1>1. list \in Seq(Entry) /\ Double(list, ex)
  BY DEF GoodList
<1>2. N \in Nat /\ DOMAIN list = 1 .. N
  BY <1>1
<1>3. /\ longer \in Seq(Entry) /\ DOMAIN longer = 1 .. N + 1
      /\ \A i \in 1 .. N : longer[i] = list[i]
      /\ longer[N + 1] = e
  BY <1>1
<1> HIDE DEF longer, N
<1>4. \A i \in 1 .. N + 1 : i \in 1 .. N \/ i = N + 1
  BY <1>2
<1>5. Double(longer, ex)
  BY <1>1, <1>2, <1>3, <1>4 DEF Double
<1> QED BY <1>3, <1>5 DEF GoodList, longer

LEMMA ShorterList ==
    ASSUME NEW ex, NEW list \in Seq(Entry), NEW e \in Entry, GoodList(Append(list, e), ex)
    PROVE  /\ GoodList(list, ex)
           /\ \A i \in DOMAIN list : list[i].badword = e.badword => e.badword \in ex
<1> DEFINE longer == Append(list, e)
           N == Len(list)
<1>1. /\ N \in Nat /\ DOMAIN list = 1 .. N /\ DOMAIN longer = 1 .. N + 1
      /\ \A i \in 1 .. N : longer[i] = list[i]
      /\ longer[N + 1] = e
  OBVIOUS
<1>2. Double(longer, ex)
  BY DEF GoodList
<1> HIDE DEF longer, N
<1>3. N + 1 \in DOMAIN longer /\ \A i \in DOMAIN list : i \in DOMAIN longer /\ i # N + 1
  BY <1>1
<1>4. Double(list, ex)
  BY <1>1, <1>2, <1>3 DEF Double
<1>5. \A i \in DOMAIN list : list[i].badword = e.badword => e.badword \in ex
  BY <1>1, <1>2, <1>3 DEF Double
<1> QED BY <1>4, <1>5 DEF GoodList

\* Words of the set may be put before or after.
LEMMA JoinedLists ==
    ASSUME NEW ex, NEW a, NEW b, GoodList(a, ex), b \in Seq(Entry),
           \A i \in DOMAIN b : b[i].badword \in ex
    PROVE  GoodList(a \o b, ex) /\ GoodList(b \o a, ex)
<1>1. a \in Seq(Entry) /\ Double(a, ex)
  BY DEF GoodList
<1>2. /\ Len(a) \in Nat /\ DOMAIN a = 1 .. Len(a)
      /\ Len(b) \in Nat /\ DOMAIN b = 1 .. Len(b)
  BY <1>1
<1>3. GoodList(a \o b, ex)
  <2> DEFINE ab == a \o b
  <2>1. ab \in Seq(Entry) /\ DOMAIN ab = 1 .. Len(a) + Len(b)
    BY <1>1, ConcatProperties
  <2>2. \A i \in 1 .. Len(a) + Len(b) : ab[i] = IF i <= Len(a) THEN a[i] ELSE b[i - Len(a)]
    BY <1>1, ConcatProperties
  <2> HIDE DEF ab
  <2>3. \A i \in DOMAIN ab : \/ i \in DOMAIN a /\ ab[i] = a[i]
                             \/ i - Len(a) \in DOMAIN b /\ ab[i] = b[i - Len(a)]
    BY <1>2, <2>1, <2>2
  <2>4. \A i \in DOMAIN ab : (i \in DOMAIN a /\ ab[i] = a[i]) \/ ab[i].badword \in ex
    BY <2>3
  <2>5. Double(ab, ex)
    BY <1>1, <2>4 DEF Double
  <2> QED BY <2>1, <2>5 DEF GoodList, ab
<1>4. GoodList(b \o a, ex)
  <2> DEFINE ba == b \o a
             N == Len(b)
  <2>1. ba \in Seq(Entry) /\ DOMAIN ba = 1 .. N + Len(a) /\ N \in Nat
    BY <1>1, ConcatProperties
  <2>2. \A i \in 1 .. N + Len(a) : ba[i] = IF i <= N THEN b[i] ELSE a[i - N]
    BY <1>1, ConcatProperties
  <2>3. DOMAIN b = 1 .. N
    BY <1>2
  <2> HIDE DEF ba, N
  <2>4. \A i \in DOMAIN ba : \/ i - N \in DOMAIN a /\ ba[i] = a[i - N]
                             \/ i \in DOMAIN b /\ ba[i] = b[i]
    BY <1>2, <2>1, <2>2, <2>3
  <2>5. \A i \in DOMAIN ba : (i - N \in DOMAIN a /\ ba[i] = a[i - N]) \/ ba[i].badword \in ex
    BY <2>4
  <2>6. \A i, j \in DOMAIN ba : i - N = j - N => i = j
    BY <2>1
  <2>7. Double(ba, ex)
    BY <1>1, <2>5, <2>6 DEF Double
  <2> QED BY <2>1, <2>7 DEF GoodList, ba
<1> QED BY <1>3, <1>4

LEMMA RowsOfAppend ==
    ASSUME NEW d \in Channels, NEW list \in Seq(Entry), NEW e \in Entry
    PROVE  RowsOf(Append(list, e), d) = Append(RowsOf(list, d), WordRow(e, d))
<1> DEFINE longer == Append(list, e)
           u == RowsOf(list, d)
           s == RowsOf(longer, d)
           t == Append(u, WordRow(e, d))
           N == Len(list)
<1>1. N \in Nat /\ longer \in Seq(Entry) /\ Len(longer) = N + 1
  OBVIOUS
<1>2. \A i \in 1 .. N : longer[i] = list[i]
  OBVIOUS
<1>3. longer[N + 1] = e
  OBVIOUS
<1>4. DOMAIN list = 1 .. N /\ DOMAIN longer = 1 .. N + 1
  BY <1>1
<1> HIDE DEF longer
<1>5. s \in Seq(Row) /\ Len(s) = N + 1 /\ u \in Seq(Row) /\ Len(u) = N
  BY <1>1, RowsOfFacts
<1>6. \A i \in 1 .. N + 1 : s[i] = WordRow(longer[i], d)
  BY <1>4 DEF RowsOf
<1>7. \A i \in 1 .. N : u[i] = WordRow(list[i], d)
  BY <1>4 DEF RowsOf
<1>8. WordRow(e, d) \in Row
  BY WordRowFacts
<1> HIDE DEF s, u, N
<1>9. /\ t \in Seq(Row) /\ Len(t) = N + 1 /\ t[N + 1] = WordRow(e, d)
      /\ \A i \in 1 .. N : t[i] = u[i]
  BY <1>1, <1>5, <1>8
<1> HIDE DEF t
<1>10. \A i \in 1 .. N + 1 : s[i] = t[i]
  BY <1>1, <1>2, <1>3, <1>6, <1>7, <1>9
<1>11. s = t
  BY <1>5, <1>9, <1>10, SeqEqual
<1> QED BY <1>11 DEF s, t, u, longer

\* The rows of a list bring back the words of those who have no space in their
\* names: no other word comes in, and lines that match none of the others are
\* answered as before.
LEMMA OwnRows ==
    ASSUME NEW c \in Channels, NEW ex, NEW m
    PROVE  \A list \in Seq(Entry) :
              /\ GoodList(list, ex) => GoodList(Restored(RowsOf(list, c), c), ex)
              /\ (\A i \in DOMAIN list : list[i].spaced => list[i].badword \notin m) =>
                    /\ Hits(Restored(RowsOf(list, c), c), m) = {} <=> Hits(list, m) = {}
                    /\ Answer(Restored(RowsOf(list, c), c), m) = Answer(list, m)
<1> DEFINE back(list) == Restored(RowsOf(list, c), c)
           Unspaced(list) == \A i \in DOMAIN list : list[i].spaced => list[i].badword \notin m
           Good(list) == GoodList(list, ex) => GoodList(back(list), ex)
           Same(list) == Unspaced(list) => /\ Hits(back(list), m) = {} <=> Hits(list, m) = {}
                                           /\ Answer(back(list), m) = Answer(list, m)
           T == {n \in Nat : \A list \in Seq(Entry) : Len(list) = n => Good(list) /\ Same(list)}
<1>1. 0 \in T
  <2> SUFFICES ASSUME NEW list \in Seq(Entry), Len(list) = 0 PROVE Good(list) /\ Same(list)
    OBVIOUS
  <2>1. list = <<>>
    OBVIOUS
  <2>2. RowsOf(list, c) = <<>>
    BY <2>1 DEF RowsOf
  <2>3. back(list) = list
    BY <2>1, <2>2, RestoredEmpty
  <2> HIDE DEF back
  <2> QED BY <2>3
<1>2. ASSUME NEW n \in T PROVE n + 1 \in T
  <2> SUFFICES ASSUME NEW list \in Seq(Entry), Len(list) = n + 1 PROVE Good(list) /\ Same(list)
    OBVIOUS
  <2>1. n \in Nat /\ list # <<>>
    OBVIOUS
  <2>2. PICK front \in Seq(Entry), e \in Entry : list = Append(front, e)
    BY <2>1, SequenceEmptyOrAppend
  <2>3. Len(front) = n
    BY <2>1, <2>2
  <2>4. Good(front) /\ Same(front)
    BY <2>3
  <2> DEFINE part == back(front)
             row == WordRow(e, c)
  <2>5. RowsOf(front, c) \in Seq(Row) /\ row \in Row
    BY RowsOfFacts, WordRowFacts
  <2>6. part \in Seq(Entry) /\ back(list) = ReadRow(part, row, c)
    BY <2>2, <2>5, RowsOfAppend, RestoredAppend, RestoredType
  <2>7. back(list) = IF e.spaced THEN part ELSE Append(part, e)
    BY <2>6, WordRowFacts DEF ReadRow, AddRow
  <2>8. ASSUME NEW i \in DOMAIN part
        PROVE  \E k \in DOMAIN front : part[i].badword = front[k].badword
    <3>1. PICK k \in DOMAIN RowsOf(front, c) :
             part[i] = EntryOf(RowsOf(front, c)[k])
      BY <2>5, RestoredFrom
    <3>2. k \in DOMAIN front /\ RowsOf(front, c)[k] = WordRow(front[k], c)
      BY <3>1 DEF RowsOf
    <3>3. front[k] \in Entry
      BY <3>2
    <3>4. part[i].badword = WordRow(front[k], c)[1]
      BY <3>1, <3>2 DEF EntryOf
    <3>5. WordRow(front[k], c)[1] = front[k].badword
      BY <3>3, WordRowStart
    <3> QED BY <3>2, <3>4, <3>5
  <2>9. ASSUME GoodList(list, ex) PROVE GoodList(back(list), ex)
    <3>1. /\ GoodList(front, ex)
          /\ \A k \in DOMAIN front : front[k].badword = e.badword => e.badword \in ex
      BY <2>2, <2>9, ShorterList
    <3>2. GoodList(part, ex)
      BY <2>4, <3>1
    <3> HIDE DEF part, back
    <3>3. \A i \in DOMAIN part : part[i].badword = e.badword => e.badword \in ex
      BY <2>8, <3>1
    <3>4. GoodList(Append(part, e), ex)
      BY <3>2, <3>3, AddedWord
    <3> QED BY <2>7, <3>2, <3>4
  <2>10. ASSUME Unspaced(list)
         PROVE  /\ Hits(back(list), m) = {} <=> Hits(list, m) = {}
                /\ Answer(back(list), m) = Answer(list, m)
    <3>1. /\ DOMAIN list = 1 .. n + 1 /\ DOMAIN front = 1 .. n /\ list[n + 1] = e
          /\ \A i \in 1 .. n : list[i] = front[i] /\ i \in 1 .. n + 1
          /\ n + 1 \in 1 .. n + 1
      BY <2>1, <2>2, <2>3
    <3>2. Unspaced(front) /\ (e.spaced => e.badword \notin m)
      BY <2>10, <3>1
    <3>3. (Hits(part, m) = {} <=> Hits(front, m) = {}) /\ Answer(part, m) = Answer(front, m)
      BY <2>4, <3>2
    <3> HIDE DEF part, back, Unspaced
    <3>4. CASE e.spaced
      <4>1. back(list) = part /\ e.badword \notin m
        BY <2>7, <3>2, <3>4
      <4>2. /\ Hits(list, m) = {} <=> Hits(front, m) = {}
            /\ Hits(front, m) # {} => Answer(list, m) = Answer(front, m)
            /\ Hits(front, m) = {} => Answer(list, m) = {} /\ Answer(front, m) = {}
        BY <2>2, <4>1, AnswerAppend DEF Answer
      <4> QED BY <3>3, <4>1, <4>2
    <3>5. CASE ~e.spaced
      <4>1. back(list) = Append(part, e)
        BY <2>7, <3>5
      <4> DEFINE hit == e.badword \in m /\ e.action \in DOMAIN Effects
      <4>2. /\ Hits(list, m) = {} <=> Hits(front, m) = {} /\ ~hit
            /\ Answer(list, m) = IF Hits(front, m) # {} THEN Answer(front, m)
                                 ELSE IF hit THEN Effects[e.action] ELSE {}
        BY <2>2, AnswerAppend
      <4>3. /\ Hits(Append(part, e), m) = {} <=> Hits(part, m) = {} /\ ~hit
            /\ Answer(Append(part, e), m) = IF Hits(part, m) # {} THEN Answer(part, m)
                                            ELSE IF hit THEN Effects[e.action] ELSE {}
        BY <2>6, AnswerAppend
      <4> HIDE DEF hit
      <4> QED BY <3>3, <4>1, <4>2, <4>3
    <3> QED BY <3>4, <3>5
  <2> QED BY <2>9, <2>10
<1>3. T = Nat
  <2>1. T \in SUBSET Nat
    OBVIOUS
  <2> HIDE DEF T
  <2> QED BY <1>1, <1>2, <2>1, Induction
<1> HIDE DEF Good, Same
<1>4. \A list \in Seq(Entry) : Good(list) /\ Same(list)
  <2> TAKE list \in Seq(Entry)
  <2>1. Len(list) \in T
    BY <1>3
  <2> QED BY <2>1
<1> QED BY <1>4 DEF Good, Same

\* The rows of exempts, when all of them are long enough, bring back addresses,
\* and such with the name of the channel and an action only can answer a line.
LEMMA ExemptsBack ==
    ASSUME NEW list \in Seq(Exemption), Readable(ExemptRows(list)), NEW c \in Channels
    PROVE  LET back == Restored(ExemptRows(list), c)
           IN  /\ ExemptRows(list) \in Seq(Row) /\ back \in Seq(Entry)
               /\ \A i \in DOMAIN back : \E k \in DOMAIN list :
                     /\ back[i].badword = list[k].ip
                     /\ ~list[k].spaced /\ Len(list[k].reason) >= 2 /\ list[k].reason[1] = c
                     /\ back[i].action = list[k].reason[2]
<1> DEFINE rows == ExemptRows(list)
           back == Restored(rows, c)
<1>1. Len(list) \in Nat /\ DOMAIN list = 1 .. Len(list) /\ \A k \in 1 .. Len(list) : list[k] \in Exemption
  OBVIOUS
<1>2. rows = [k \in 1 .. Len(list) |-> ExemptRow(list[k])]
  BY <1>1 DEF ExemptRows
<1>3. Readable(rows)
  OBVIOUS
<1> HIDE DEF rows
<1>4. \A k \in 1 .. Len(list) : Len(rows[k]) >= 4 /\ rows[k] = ExemptRow(list[k])
  BY <1>2, <1>3 DEF Readable
<1>5. \A k \in 1 .. Len(list) : rows[k] \in Row
  BY <1>1, <1>4, ExemptRowFacts
<1>6. rows \in Seq(Row) /\ DOMAIN rows = 1 .. Len(list)
  BY <1>1, <1>2, <1>5
<1>7. ASSUME NEW i \in DOMAIN back
      PROVE  \E k \in DOMAIN list :
                /\ back[i].badword = list[k].ip
                /\ ~list[k].spaced /\ Len(list[k].reason) >= 2 /\ list[k].reason[1] = c
                /\ back[i].action = list[k].reason[2]
  <2>1. PICK k \in DOMAIN rows : Belongs(rows[k], c) /\ back[i] = EntryOf(rows[k])
    BY <1>6, RestoredFrom
  <2>2. k \in 1 .. Len(list) /\ list[k] \in Exemption
    BY <1>1, <1>6, <2>1
  <2> DEFINE de == list[k]
             row == ExemptRow(de)
  <2>3. de \in Exemption /\ rows[k] = row /\ Len(row) >= 4 /\ Belongs(row, c)
    BY <1>4, <2>1, <2>2
  <2>4. back[i].badword = row[1] /\ back[i].action = row[4]
    BY <2>1, <2>3 DEF EntryOf
  <2> HIDE DEF de
  <2>5. /\ row[1] = de.ip /\ ~de.spaced /\ Len(de.reason) >= 2 /\ de.reason[1] = c
        /\ row[4] = de.reason[2]
    BY <2>3, ExemptRowFacts
  <2> QED BY <1>1, <2>2, <2>4, <2>5 DEF de
<1>8. back \in Seq(Entry)
  BY <1>6, RestoredType
<1> QED BY <1>6, <1>7, <1>8 DEF rows

(***************************************************************************)
(* The invariant: the lists and exempts of the last save were as good as   *)
(* those in memory are, and the database has their rows.                   *)
(***************************************************************************)
FlagsOk(f) ==
    /\ IsFiniteSet(DOMAIN f) /\ DOMAIN f \subseteq Channels
    /\ \A c \in DOMAIN f : f[c] \subseteq Flags

ListsOk(lists) ==
    /\ IsFiniteSet(DOMAIN lists) /\ DOMAIN lists \subseteq Channels
    /\ \A c \in DOMAIN lists : GoodList(lists[c], exempted)

ExemptsOk(list) ==
    list \in Seq(Exemption) /\ \A i \in DOMAIN list : list[i].ip \in exempted

MemoryOk ==
    /\ modules \subseteq {"cs_badwords", "dnsbl"} /\ exempted \subseteq Words
    /\ FlagsOk(flags) /\ ListsOk(words) /\ DOMAIN words = DOMAIN flags
    /\ ExemptsOk(exempts)

KeptOk ==
    /\ ListsOk(kept.words) /\ ExemptsOk(kept.exempts)
    /\ kept.loaded => kept.flags = db.flags /\ DOMAIN kept.words = DOMAIN db.flags

DatabaseOk ==
    /\ FlagsOk(db.flags)
    /\ \/ db.rows = WordRows(kept.words) \o ExemptRows(kept.exempts)
       \/ db.rows = ExemptRows(kept.exempts) \o WordRows(kept.words)

IInv ==
    /\ MemoryOk
    /\ KeptOk
    /\ DatabaseOk
    /\ OnlyExemptsKeepServicesDown

\* What RemoveAt leaves: the elements at the other places
old(k, i) == IF i < k THEN i ELSE i + 1

LEMMA Removed ==
    ASSUME NEW S, NEW list \in Seq(S), NEW k \in DOMAIN list
    PROVE  /\ RemoveAt(list, k) \in Seq(S)
           /\ \A i \in DOMAIN RemoveAt(list, k) :
                 old(k, i) \in DOMAIN list /\ RemoveAt(list, k)[i] = list[old(k, i)]
           /\ \A i, j \in DOMAIN RemoveAt(list, k) : old(k, i) = old(k, j) => i = j
<1> DEFINE front == SubSeq(list, 1, k - 1)
           back == SubSeq(list, k + 1, Len(list))
           shorter == front \o back
           N == Len(list)
<1>2. N \in Nat /\ DOMAIN list = 1 .. N /\ k \in 1 .. N
  OBVIOUS
<1>3. front \in Seq(S) /\ Len(front) = k - 1 /\ \A i \in 1 .. k - 1 : front[i] = list[i]
  BY <1>2
<1>4. back \in Seq(S) /\ Len(back) = N - k /\ \A i \in 1 .. N - k : back[i] = list[i + k]
  BY <1>2
<1>5. RemoveAt(list, k) = shorter
  BY DEF RemoveAt
<1> HIDE DEF front, back, N
<1>6. /\ shorter \in Seq(S) /\ Len(shorter) = (k - 1) + (N - k)
      /\ \A i \in 1 .. (k - 1) + (N - k) :
            shorter[i] = IF i <= k - 1 THEN front[i] ELSE back[i - (k - 1)]
  <2>1. front \in Seq(S) /\ back \in Seq(S)
    BY <1>3, <1>4
  <2>2. /\ shorter \in Seq(S) /\ Len(shorter) = Len(front) + Len(back)
        /\ \A i \in 1 .. Len(front) + Len(back) :
              shorter[i] = IF i <= Len(front) THEN front[i] ELSE back[i - Len(front)]
    BY <2>1, ConcatProperties
  <2>3. Len(front) = k - 1 /\ Len(back) = N - k
    BY <1>3, <1>4
  <2> HIDE DEF shorter
  <2> QED BY <2>2, <2>3
<1>7. (k - 1) + (N - k) = N - 1 /\ DOMAIN shorter = 1 .. N - 1
  BY <1>2, <1>6
<1> HIDE DEF shorter
<1>8. ASSUME NEW i \in 1 .. N - 1 PROVE old(k, i) \in 1 .. N /\ shorter[i] = list[old(k, i)]
  <2>1. CASE i < k
    <3>1. i \in 1 .. k - 1 /\ i <= k - 1 /\ i \in 1 .. N
      BY <1>2, <2>1
    <3> QED BY <2>1, <3>1, <1>3, <1>6, <1>7 DEF old
  <2>2. CASE ~(i < k)
    <3>1. /\ ~(i <= k - 1) /\ i - (k - 1) \in 1 .. N - k /\ i + 1 \in 1 .. N
          /\ (i - (k - 1)) + k = i + 1
      BY <1>2, <2>2
    <3>2. shorter[i] = back[i - (k - 1)]
      BY <3>1, <1>6, <1>7
    <3> QED BY <2>2, <3>1, <3>2, <1>4 DEF old
  <2> QED BY <2>1, <2>2
<1>9. \A i, j \in 1 .. N - 1 : old(k, i) = old(k, j) => i = j
  BY <1>2 DEF old
<1> QED BY <1>2, <1>5, <1>6, <1>7, <1>8, <1>9


LEMMA RemovedWord ==
    ASSUME NEW ex, NEW list, GoodList(list, ex), NEW k \in DOMAIN list
    PROVE  GoodList(RemoveAt(list, k), ex)
<1>1. list \in Seq(Entry) /\ Double(list, ex)
  BY DEF GoodList
<1> DEFINE shorter == RemoveAt(list, k)
<1>2. /\ shorter \in Seq(Entry)
      /\ \A i \in DOMAIN shorter : old(k, i) \in DOMAIN list /\ shorter[i] = list[old(k, i)]
      /\ \A i, j \in DOMAIN shorter : old(k, i) = old(k, j) => i = j
  BY <1>1, Removed
<1> HIDE DEF shorter
<1>3. Double(shorter, ex)
  BY <1>1, <1>2 DEF Double
<1> QED BY <1>2, <1>3 DEF GoodList, shorter

LEMMA NoWords == \A ex : GoodList(<<>>, ex)
BY DEF GoodList, Double

\* There are ever more addresses that have been exempt.
LEMMA MoreExempted ==
    ASSUME NEW list, NEW ex, NEW ex2, GoodList(list, ex), ex \subseteq ex2
    PROVE  GoodList(list, ex2)
BY DEF GoodList, Double

LEMMA ExemptRowsType ==
    ASSUME NEW list \in Seq(Exemption)
    PROVE  ExemptRows(list) \in Seq(Seq(Fields)) /\ Len(ExemptRows(list)) = Len(list)
<1> DEFINE rows == ExemptRows(list)
<1>1. Len(list) \in Nat /\ DOMAIN list = 1 .. Len(list) /\ \A k \in 1 .. Len(list) : list[k] \in Exemption
  OBVIOUS
<1>2. rows = [k \in 1 .. Len(list) |-> ExemptRow(list[k])]
  BY <1>1 DEF ExemptRows
<1> HIDE DEF rows
<1>3. \A k \in 1 .. Len(list) : rows[k] \in Seq(Fields)
  BY <1>1, <1>2, ExemptRowFacts
<1> QED BY <1>1, <1>2, <1>3 DEF rows

LEMMA InitIInv == Init => IInv
<1> SUFFICES ASSUME Init PROVE IInv
  OBVIOUS
<1>1. DOMAIN EmptyMap = {} /\ IsFiniteSet({})
  BY FS_EmptySet DEF EmptyMap
<1>2. ExemptsOk(<<>>) /\ ListsOk(EmptyMap)
  BY <1>1 DEF ExemptsOk, ListsOk
<1>3. IsFiniteSet(Channels \ Founders)
  BY BadwordsAssumption, FS_Subset
<1>4. MemoryOk
  <2>1. FlagsOk(flags)
    BY <1>3 DEF Init, FlagsOk, Flags
  <2>2. ListsOk(words)
    BY <1>3, NoWords DEF Init, ListsOk
  <2> QED BY <1>2, <2>1, <2>2 DEF Init, MemoryOk
<1>5. KeptOk
  BY <1>2 DEF Init, KeptOk
<1>6. DatabaseOk
  <2>1. FlagsOk(db.flags)
    BY <1>4 DEF Init, MemoryOk
  <2>2. kept.words = EmptyMap /\ kept.exempts = <<>> /\ db.rows = <<>>
    BY DEF Init
  <2>3. WordRows(EmptyMap) = <<>>
    <3>1. WordRows(EmptyMap) \in Seq(Row)
      BY <1>1, RoundTrip
    <3>2. SetToSeq({}) = <<>>
      <4>1. SetToSeq({}) \in Seq({})
        BY <1>1, SetToSeqFacts
      <4> QED BY <4>1
    <3>3. WordRows(EmptyMap) = FlattenSeq(<<>>)
      BY <1>1, <3>2 DEF WordRows
    <3> QED BY <3>3 DEF FlattenSeq
  <2>4. ExemptRows(<<>>) = <<>>
    BY DEF ExemptRows
  <2>5. <<>> \o <<>> = <<>>
    OBVIOUS
  <2> QED BY <2>1, <2>2, <2>3, <2>4, <2>5 DEF DatabaseOk
<1>7. OnlyExemptsKeepServicesDown
  BY DEF Init, OnlyExemptsKeepServicesDown
<1> QED BY <1>4, <1>5, <1>6, <1>7 DEF IInv

\* A step that leaves the database alone keeps what the invariant says of it.
LEMMA SameDatabase ==
    ASSUME IInv, UNCHANGED <<db, kept, up>>, exempted \subseteq exempted'
    PROVE  KeptOk' /\ DatabaseOk' /\ OnlyExemptsKeepServicesDown'
<1>1. KeptOk'
  <2>1. ListsOk(kept.words)'
    BY MoreExempted DEF IInv, KeptOk, ListsOk
  <2>2. ExemptsOk(kept.exempts)'
    BY DEF IInv, KeptOk, ExemptsOk
  <2> QED BY <2>1, <2>2 DEF IInv, KeptOk
<1> QED BY <1>1 DEF IInv, DatabaseOk, OnlyExemptsKeepServicesDown

\* What the invariant says of the memory holds with one list replaced by a good one.
LEMMA OneListReplaced ==
    ASSUME MemoryOk, NEW c \in DOMAIN flags, NEW list, GoodList(list, exempted),
           words' = [words EXCEPT ![c] = list], UNCHANGED <<modules, flags, exempts, exempted>>
    PROVE  MemoryOk'
<1>1. DOMAIN words' = DOMAIN words /\ \A d \in DOMAIN words : words'[d] = IF d = c THEN list ELSE words[d]
  OBVIOUS
<1>2. \A d \in DOMAIN words : GoodList(words[d], exempted)
  BY DEF MemoryOk, ListsOk
<1>3. \A d \in DOMAIN words' : GoodList(words'[d], exempted')
  BY <1>1, <1>2
<1>4. ListsOk(words)'
  BY <1>1, <1>3 DEF MemoryOk, ListsOk
<1>5. FlagsOk(flags)' /\ ExemptsOk(exempts)'
  BY DEF MemoryOk, FlagsOk, ExemptsOk
<1> QED BY <1>1, <1>4, <1>5 DEF MemoryOk

\* The same with other channels.
LEMMA OtherChannels ==
    ASSUME MemoryOk, FlagsOk(flags)', DOMAIN words' = DOMAIN flags',
           \A d \in DOMAIN words' : GoodList(words'[d], exempted),
           UNCHANGED <<modules, exempts, exempted>>
    PROVE  MemoryOk'
<1>1. IsFiniteSet(DOMAIN words') /\ DOMAIN words' \subseteq Channels
  BY DEF FlagsOk
<1>2. ListsOk(words)'
  BY <1>1 DEF ListsOk
<1>3. ExemptsOk(exempts)'
  BY DEF MemoryOk, ExemptsOk
<1> QED BY <1>2, <1>3 DEF MemoryOk

\* ADD, DEL, SET, and what becomes of the channels.
LEMMA WordSteps ==
    ASSUME IInv, NEW c \in Channels,
           \/ \E w \in Words : Delete(c, w) \/ \E g \in Givers : Add(c, w, g[1], g[2])
           \/ \E f \in Flags : SetFlag(c, f)
           \/ Register(c)
           \/ Drop(c)
    PROVE  IInv'
<1> USE DEF Registered
<1>1. MemoryOk
  BY DEF IInv
<1>2. MemoryOk'
  <2>1. ASSUME NEW w \in Words, NEW g \in Givers, Add(c, w, g[1], g[2]) PROVE MemoryOk'
    <3> DEFINE e == [badword |-> w, spaced |-> g[1], action |-> g[2]]
    <3>1. /\ c \in DOMAIN flags /\ words' = [words EXCEPT ![c] = Append(words[c], e)]
          /\ UNCHANGED <<modules, flags, exempts, exempted>>
      BY <2>1 DEF Add
    <3>2. e \in Entry /\ \A i \in DOMAIN words[c] : words[c][i].badword # e.badword
      <4>1. g[1] \in BOOLEAN /\ g[2] \in Fields
        BY BadwordsAssumption DEF Fields
      <4> QED BY <2>1, <4>1 DEF Add, NewWord, Entry
    <3> HIDE DEF e
    <3>3. GoodList(Append(words[c], e), exempted)
      BY <1>1, <3>1, <3>2, AddedWord DEF MemoryOk, ListsOk, ExemptsOk
    <3> DEFINE longer == Append(words[c], e)
    <3>4. words' = [words EXCEPT ![c] = longer] /\ GoodList(longer, exempted)
      BY <3>1, <3>3
    <3> HIDE DEF longer
    <3> QED BY <1>1, <3>1, <3>4, OneListReplaced
  <2>2. ASSUME NEW w \in Words, Delete(c, w) PROVE MemoryOk'
    <3>1. PICK i \in DOMAIN words[c] : words' = [words EXCEPT ![c] = RemoveAt(words[c], i)]
      BY <2>2 DEF Delete
    <3>2. c \in DOMAIN flags /\ UNCHANGED <<modules, flags, exempts, exempted>>
      BY <2>2 DEF Delete
    <3> DEFINE shorter == RemoveAt(words[c], i)
    <3>3. GoodList(shorter, exempted)
      BY <1>1, <3>2, RemovedWord DEF MemoryOk, ListsOk, ExemptsOk
    <3>4. words' = [words EXCEPT ![c] = shorter]
      BY <3>1
    <3> HIDE DEF shorter
    <3> QED BY <1>1, <3>2, <3>3, <3>4, OneListReplaced
  <2>3. ASSUME NEW f \in Flags, SetFlag(c, f) PROVE MemoryOk'
    <3>1. /\ c \in DOMAIN flags /\ UNCHANGED <<modules, words, exempts, exempted>>
          /\ DOMAIN flags' = DOMAIN flags
          /\ \A d \in DOMAIN flags : flags[d] \subseteq Flags => flags'[d] \subseteq Flags
      BY <2>3 DEF SetFlag
    <3> QED BY <1>1, <3>1 DEF MemoryOk, FlagsOk, ListsOk, ExemptsOk
  <2>4. CASE Register(c)
    <3>1. /\ flags' = Put(flags, c, {}) /\ words' = Put(words, c, <<>>)
          /\ UNCHANGED <<modules, exempts, exempted>>
      BY <2>4 DEF Register
    <3>2. DOMAIN flags' = DOMAIN flags \cup {c} /\ DOMAIN words' = DOMAIN words \cup {c}
      BY <3>1 DEF Put
    <3>3. FlagsOk(flags')
      <4>1. IsFiniteSet(DOMAIN flags \cup {c})
        BY <1>1, FS_AddElement DEF MemoryOk, FlagsOk, ListsOk, ExemptsOk
      <4>2. \A d \in DOMAIN flags' : flags'[d] \subseteq Flags
        BY <1>1, <3>1 DEF Put, MemoryOk, FlagsOk
      <4> QED BY <1>1, <3>2, <4>1, <4>2 DEF MemoryOk, FlagsOk, ListsOk, ExemptsOk
    <3>4. \A d \in DOMAIN words' : GoodList(words'[d], exempted)
      <4>1. \A d \in DOMAIN words' : words'[d] = <<>> \/ (d \in DOMAIN words /\ words'[d] = words[d])
        BY <3>1 DEF Put
      <4> QED BY <1>1, <4>1, NoWords DEF MemoryOk, ListsOk, ExemptsOk
    <3>5. FlagsOk(flags)' /\ DOMAIN words' = DOMAIN flags'
      BY <1>1, <3>2, <3>3 DEF MemoryOk, FlagsOk
    <3> QED BY <1>1, <3>1, <3>4, <3>5, OtherChannels
  <2>5. CASE Drop(c)
    <3>1. /\ flags' = Del(flags, c) /\ words' = Del(words, c)
          /\ UNCHANGED <<modules, exempts, exempted>>
      BY <2>5 DEF Drop
    <3>2. DOMAIN flags' = DOMAIN flags \ {c} /\ DOMAIN words' = DOMAIN words \ {c}
      BY <3>1 DEF Del
    <3>3. FlagsOk(flags')
      <4>1. IsFiniteSet(DOMAIN flags \ {c})
        BY <1>1, FS_RemoveElement DEF MemoryOk, FlagsOk, ListsOk, ExemptsOk
      <4>2. \A d \in DOMAIN flags' : flags'[d] \subseteq Flags
        BY <1>1, <3>1 DEF Del, MemoryOk, FlagsOk
      <4> QED BY <1>1, <3>2, <4>1, <4>2 DEF MemoryOk, FlagsOk, ListsOk, ExemptsOk
    <3>4. \A d \in DOMAIN words' : GoodList(words'[d], exempted)
      <4>1. \A d \in DOMAIN words' : d \in DOMAIN words /\ words'[d] = words[d]
        BY <3>1 DEF Del
      <4> QED BY <1>1, <4>1 DEF MemoryOk, ListsOk, ExemptsOk
    <3>5. FlagsOk(flags)' /\ DOMAIN words' = DOMAIN flags'
      BY <1>1, <3>2, <3>3 DEF MemoryOk, FlagsOk
    <3> QED BY <1>1, <3>1, <3>4, <3>5, OtherChannels
  <2> QED BY <2>1, <2>2, <2>3, <2>4, <2>5
<1>3. UNCHANGED <<db, kept, up, exempted>>
  BY DEF Delete, Add, SetFlag, Register, Drop
<1> QED BY <1>2, <1>3, SameDatabase DEF IInv

\* The database is written, with cs_badwords or without it.
LEMMA SaveStep ==
    ASSUME IInv, Save PROVE IInv'
<1>1. MemoryOk /\ up /\ UNCHANGED <<up, modules, flags, words, exempts, exempted>>
  BY DEF IInv, Save
<1>2. MemoryOk'
  BY <1>1 DEF MemoryOk, FlagsOk, ListsOk, ExemptsOk
<1>3. /\ kept'.loaded = Loaded /\ kept'.flags = flags
      /\ kept'.words = IF Loaded THEN words ELSE EmptyMap
      /\ kept'.exempts = IF "dnsbl" \in modules THEN exempts ELSE <<>>
  BY DEF Save
<1>4. db'.flags = flags
  BY DEF Save
<1>5. ListsOk(kept.words)'
  <2>1. DOMAIN EmptyMap = {} /\ IsFiniteSet({})
    BY FS_EmptySet DEF EmptyMap
  <2> QED BY <1>1, <1>3, <2>1 DEF MemoryOk, ListsOk
<1>6. ExemptsOk(kept.exempts)'
  <2>1. <<>> \in Seq(Exemption) /\ DOMAIN <<>> = {}
    OBVIOUS
  <2> QED BY <1>1, <1>3, <2>1 DEF MemoryOk, ExemptsOk
<1>7. KeptOk'
  BY <1>1, <1>3, <1>4, <1>5, <1>6 DEF KeptOk, MemoryOk
<1>8. DatabaseOk'
  <2>1. \/ db'.rows = WordRows(kept'.words) \o ExemptRows(kept'.exempts)
        \/ db'.rows = ExemptRows(kept'.exempts) \o WordRows(kept'.words)
    BY DEF Save
  <2>2. FlagsOk(db'.flags)
    BY <1>1, <1>4 DEF MemoryOk
  <2> QED BY <2>1, <2>2 DEF DatabaseOk
<1> QED BY <1>1, <1>2, <1>7, <1>8 DEF IInv, OnlyExemptsKeepServicesDown

\* The rows of the database: those of lists, which are long enough, and those of
\* exempts, before or after them.
LEMMA RowsInDatabase ==
    ASSUME IInv
    PROVE  /\ WordRows(kept.words) \in Seq(Row)
           /\ ExemptRows(kept.exempts) \in Seq(Seq(Fields))
           /\ db.rows \in Seq(Seq(Fields))
           /\ Readable(db.rows) <=> Readable(ExemptRows(kept.exempts))
<1> DEFINE W == WordRows(kept.words)
           E == ExemptRows(kept.exempts)
<1>1. W \in Seq(Row)
  BY RoundTrip DEF IInv, KeptOk, ListsOk, GoodList
<1>2. E \in Seq(Seq(Fields))
  BY ExemptRowsType DEF IInv, KeptOk, ExemptsOk
<1>3. db.rows = W \o E \/ db.rows = E \o W
  BY DEF IInv, DatabaseOk
<1> HIDE DEF W, E
<1>4. W \in Seq(Seq(Fields)) /\ \A i \in DOMAIN W : Len(W[i]) >= 4
  BY <1>1 DEF Row
<1>5. /\ Len(W) \in Nat /\ DOMAIN W = 1 .. Len(W)
      /\ Len(E) \in Nat /\ DOMAIN E = 1 .. Len(E)
  BY <1>2, <1>4
<1>6. ASSUME NEW a \in Seq(Seq(Fields)), NEW b \in Seq(Seq(Fields))
      PROVE  /\ a \o b \in Seq(Seq(Fields))
             /\ Readable(a \o b) <=> Readable(a) /\ Readable(b)
  <2> DEFINE ab == a \o b
  <2>1. /\ Len(a) \in Nat /\ Len(b) \in Nat /\ ab \in Seq(Seq(Fields))
        /\ DOMAIN ab = 1 .. Len(a) + Len(b) /\ DOMAIN a = 1 .. Len(a) /\ DOMAIN b = 1 .. Len(b)
    BY ConcatProperties
  <2>2. \A i \in 1 .. Len(a) + Len(b) : ab[i] = IF i <= Len(a) THEN a[i] ELSE b[i - Len(a)]
    BY ConcatProperties
  <2> HIDE DEF ab
  <2>3. \A i \in DOMAIN a : i \in DOMAIN ab /\ ab[i] = a[i]
    BY <2>1, <2>2
  <2>4. ASSUME NEW i \in DOMAIN b PROVE i + Len(a) \in DOMAIN ab /\ ab[i + Len(a)] = b[i]
    <3>1. /\ i + Len(a) \in 1 .. Len(a) + Len(b) /\ ~(i + Len(a) <= Len(a))
          /\ (i + Len(a)) - Len(a) = i
      BY <2>1
    <3> QED BY <2>1, <2>2, <3>1
  <2>5. \A i \in DOMAIN ab : \/ i \in DOMAIN a /\ ab[i] = a[i]
                             \/ i - Len(a) \in DOMAIN b /\ ab[i] = b[i - Len(a)]
    BY <2>1, <2>2
  <2>6. Readable(a) /\ Readable(b) => Readable(ab)
    BY <2>5 DEF Readable
  <2>7. Readable(ab) => Readable(a)
    BY <2>3 DEF Readable
  <2>8. Readable(ab) => Readable(b)
    BY <2>4 DEF Readable
  <2> QED BY <2>1, <2>6, <2>7, <2>8 DEF ab
<1>7. Readable(W)
  BY <1>4 DEF Readable
<1> QED BY <1>1, <1>2, <1>3, <1>4, <1>6, <1>7 DEF W, E

\* What is read back of a channel: the rows of its list, and what exempts add.
LEMMA ReadBack ==
    ASSUME IInv, Readable(db.rows), NEW c \in Channels, NEW m \in SUBSET Words
    PROVE  /\ GoodList(Restored(db.rows, c), exempted)
           /\ c \in DOMAIN kept.words /\ m \cap (Lost(c) \cup Gained(c)) = {} =>
                 Answer(Restored(db.rows, c), m) = Answer(kept.words[c], m)
<1> DEFINE W == WordRows(kept.words)
           E == ExemptRows(kept.exempts)
           own == Restored(W, c)
           ex == Restored(E, c)
           back == Restored(db.rows, c)
<1>1. W \in Seq(Row) /\ Readable(E)
  BY RowsInDatabase
<1>2. kept.exempts \in Seq(Exemption) /\ \A k \in DOMAIN kept.exempts : kept.exempts[k].ip \in exempted
  BY DEF IInv, KeptOk, ExemptsOk
<1>3. /\ E \in Seq(Row) /\ ex \in Seq(Entry)
      /\ \A i \in DOMAIN ex : \E k \in DOMAIN kept.exempts :
            /\ ex[i].badword = kept.exempts[k].ip
            /\ ~kept.exempts[k].spaced /\ Len(kept.exempts[k].reason) >= 2
            /\ kept.exempts[k].reason[1] = c
            /\ ex[i].action = kept.exempts[k].reason[2]
  <2> DEFINE list == kept.exempts
  <2>1. list \in Seq(Exemption) /\ Readable(ExemptRows(list))
    BY <1>1, <1>2
  <2> HIDE DEF list
  <2>2. LET b == Restored(ExemptRows(list), c)
        IN  /\ ExemptRows(list) \in Seq(Row) /\ b \in Seq(Entry)
            /\ \A i \in DOMAIN b : \E k \in DOMAIN list :
                  /\ b[i].badword = list[k].ip
                  /\ ~list[k].spaced /\ Len(list[k].reason) >= 2 /\ list[k].reason[1] = c
                  /\ b[i].action = list[k].reason[2]
    BY <2>1, ExemptsBack
  <2> QED BY <2>2 DEF list
<1>4. own = IF c \in DOMAIN kept.words THEN Restored(RowsOf(kept.words[c], c), c) ELSE <<>>
  BY RoundTrip DEF IInv, KeptOk, ListsOk, GoodList
<1>5. db.rows = W \o E \/ db.rows = E \o W
  BY DEF IInv, DatabaseOk
<1>6. own \in Seq(Entry)
  BY <1>1, RestoredType
<1> HIDE DEF W, E
<1>7. back = own \o ex \/ back = ex \o own
  BY <1>1, <1>3, <1>5, RestoredConcat
<1> HIDE DEF own, ex, back
<1>8. GoodList(back, exempted)
  <2>1. GoodList(own, exempted)
    <3>1. CASE c \in DOMAIN kept.words
      <4>1. GoodList(kept.words[c], exempted) /\ kept.words[c] \in Seq(Entry)
        BY <3>1 DEF IInv, KeptOk, ListsOk, GoodList
      <4> QED BY <1>4, <3>1, <4>1, OwnRows
    <3>2. CASE c \notin DOMAIN kept.words
      BY <1>4, <3>2, NoWords
    <3> QED BY <3>1, <3>2
  <2>2. \A i \in DOMAIN ex : ex[i].badword \in exempted
    BY <1>2, <1>3
  <2> QED BY <1>3, <1>7, <2>1, <2>2, JoinedLists
<1>9. ASSUME c \in DOMAIN kept.words, m \cap (Lost(c) \cup Gained(c)) = {}
      PROVE  Answer(back, m) = Answer(kept.words[c], m)
  <2>1. kept.words[c] \in Seq(Entry)
    BY <1>9 DEF IInv, KeptOk, ListsOk, GoodList
  <2>2. \A i \in DOMAIN kept.words[c] :
           kept.words[c][i].spaced => kept.words[c][i].badword \notin m
    BY <1>9 DEF Lost
  <2>3. Answer(own, m) = Answer(kept.words[c], m)
    BY <1>4, <1>9, <2>1, <2>2, OwnRows
  <2>4. Hits(ex, m) = {}
    <3> SUFFICES ASSUME NEW i \in Hits(ex, m) PROVE FALSE
      OBVIOUS
    <3>1. i \in DOMAIN ex /\ ex[i].badword \in m /\ ex[i].action \in DOMAIN Effects
      BY DEF Hits
    <3>2. ex[i].badword \in Gained(c)
      BY <1>3, <3>1 DEF Gained
    <3> QED BY <1>9, <3>1, <3>2
  <2>5. Answer(own \o ex, m) = Answer(own, m)
    BY <1>3, <1>6, <2>4, AnswerAfter
  <2>6. Answer(ex \o own, m) = Answer(own, m)
    BY <1>3, <1>6, <2>4, AnswerBefore
  <2> QED BY <1>7, <2>3, <2>5, <2>6
<1> QED BY <1>8, <1>9 DEF back

\* A start reads what the last save has written; without cs_badwords the lists
\* are empty.
LEMMA RestartStep ==
    ASSUME IInv, NEW mods \in SUBSET {"cs_badwords", "dnsbl"}, Restart(mods)
    PROVE  IInv'
<1>1. KeptOk /\ DatabaseOk /\ UNCHANGED <<db, kept, exempted>>
  BY DEF IInv, Restart
<1>2. KeptOk' /\ DatabaseOk'
  BY <1>1 DEF KeptOk, DatabaseOk, ListsOk, ExemptsOk
<1>3. FlagsOk(flags') /\ (up' => flags' = db.flags) /\ (~up' => DOMAIN flags' = {})
  <2>1. DOMAIN EmptyMap = {} /\ IsFiniteSet({})
    BY FS_EmptySet DEF EmptyMap
  <2>2. FlagsOk(EmptyMap)
    BY <2>1 DEF FlagsOk
  <2> QED BY <1>1, <2>1, <2>2 DEF Restart, DatabaseOk
<1>4. ASSUME NEW c \in DOMAIN flags' PROVE GoodList(words'[c], exempted)
  <2>1. up' /\ c \in Channels
    BY <1>3 DEF FlagsOk
  <2>2. CASE "cs_badwords" \in mods
    <3>1. words'[c] = Restored(db.rows, c) /\ Readable(db.rows)
      BY <2>1, <2>2 DEF Restart
    <3>2. {} \in SUBSET Words
      OBVIOUS
    <3>3. GoodList(Restored(db.rows, c), exempted)
      BY <2>1, <3>1, <3>2, ReadBack
    <3> QED BY <3>1, <3>3
  <2>3. CASE "cs_badwords" \notin mods
    <3>1. words'[c] = <<>>
      BY <2>3 DEF Restart
    <3> QED BY <3>1, NoWords
  <2> QED BY <2>2, <2>3
<1>5. MemoryOk'
  <2>1. DOMAIN words' = DOMAIN flags'
    BY DEF Restart
  <2>2. ListsOk(words)'
    BY <1>1, <1>3, <1>4, <2>1 DEF ListsOk, FlagsOk
  <2>3. ExemptsOk(exempts)'
    BY DEF Restart, ExemptsOk
  <2>4. modules' \subseteq {"cs_badwords", "dnsbl"} /\ exempted' \subseteq Words
    BY DEF Restart, IInv, MemoryOk
  <2> QED BY <1>3, <2>1, <2>2, <2>3, <2>4 DEF MemoryOk
<1>6. OnlyExemptsKeepServicesDown'
  <2> SUFFICES ASSUME ~up'
               PROVE  \E i \in DOMAIN kept.exempts :
                         ~kept.exempts[i].spaced /\ Len(kept.exempts[i].reason) = 1
    BY <1>1 DEF OnlyExemptsKeepServicesDown
  <2> DEFINE E == ExemptRows(kept.exempts)
  <2>1. ~Readable(E)
    BY RowsInDatabase DEF Restart
  <2>2. PICK i \in DOMAIN E : ~(Len(E[i]) >= 4)
    BY <2>1 DEF Readable
  <2>3. i \in DOMAIN kept.exempts /\ E[i] = ExemptRow(kept.exempts[i])
    BY DEF ExemptRows
  <2>4. kept.exempts[i] \in Exemption
    BY <1>1, <2>3 DEF KeptOk, ExemptsOk
  <2> QED BY <2>2, <2>3, <2>4, ExemptRowFacts
<1> QED BY <1>2, <1>5, <1>6 DEF IInv

\* DNSBLEXEMPT ADD and DEL
LEMMA ExemptSteps ==
    ASSUME IInv, NEW w \in Words,
           \/ \E g \in Reasons : Exempt(w, g[1], g[2])
           \/ Unexempt(w)
    PROVE  IInv'
<1>1. MemoryOk /\ UNCHANGED <<up, modules, flags, words, db, kept>>
  BY DEF IInv, Exempt, Unexempt
<1>2. CASE Unexempt(w)
  <2>1. PICK i \in DOMAIN exempts : exempts' = RemoveAt(exempts, i)
    BY <1>2 DEF Unexempt
  <2> DEFINE shorter == RemoveAt(exempts, i)
  <2>2. exempted' = exempted
    BY <1>2 DEF Unexempt
  <2>3. /\ shorter \in Seq(Exemption)
        /\ \A j \in DOMAIN shorter : old(i, j) \in DOMAIN exempts /\ shorter[j] = exempts[old(i, j)]
    BY <1>1, Removed DEF MemoryOk, ExemptsOk
  <2> HIDE DEF shorter
  <2>4. ExemptsOk(shorter)
    BY <1>1, <2>3 DEF MemoryOk, ExemptsOk
  <2>5. ExemptsOk(exempts)'
    BY <2>1, <2>2, <2>4 DEF shorter, ExemptsOk
  <2>6. MemoryOk'
    BY <1>1, <2>2, <2>5 DEF MemoryOk, FlagsOk, ListsOk
  <2> QED BY <1>1, <2>2, <2>6, SameDatabase DEF IInv
<1>3. ASSUME NEW g \in Reasons, Exempt(w, g[1], g[2]) PROVE IInv'
  <2> DEFINE de == [ip |-> w, spaced |-> g[1], reason |-> g[2]]
             longer == Append(exempts, de)
             N == Len(exempts)
  <2>1. exempts' = longer /\ exempted' = exempted \cup {w}
    BY <1>3 DEF Exempt
  <2>2. de \in Exemption /\ de.ip = w
    BY BadwordsAssumption DEF Exemption
  <2> HIDE DEF de
  <2>3. exempts \in Seq(Exemption) /\ \A i \in DOMAIN exempts : exempts[i].ip \in exempted
    BY <1>1 DEF MemoryOk, ExemptsOk
  <2>4. /\ longer \in Seq(Exemption) /\ N \in Nat /\ DOMAIN longer = 1 .. N + 1
        /\ \A i \in 1 .. N : longer[i] = exempts[i] /\ i \in DOMAIN exempts
        /\ longer[N + 1] = de
    BY <2>2, <2>3
  <2> HIDE DEF longer, N
  <2>5. \A i \in 1 .. N + 1 : i \in 1 .. N \/ i = N + 1
    BY <2>4
  <2>6. ExemptsOk(exempts)'
    BY <2>1, <2>2, <2>3, <2>4, <2>5 DEF ExemptsOk
  <2>7. ListsOk(words)'
    BY <1>1, <2>1, MoreExempted DEF MemoryOk, ListsOk
  <2>8. MemoryOk'
    BY <1>1, <2>1, <2>6, <2>7 DEF MemoryOk, FlagsOk
  <2> QED BY <1>1, <2>1, <2>8, SameDatabase DEF IInv
<1> QED BY <1>2, <1>3

LEMMA NextKeepsIInv == IInv /\ [Next]_vars => IInv'
<1> SUFFICES ASSUME IInv, [Next]_vars PROVE IInv'
  OBVIOUS
<1>1. ASSUME NEW x \in {"cs_badwords", "dnsbl"}, Unload(x) \/ Load(x) PROVE IInv'
  <2>1. /\ UNCHANGED <<up, flags, words, db, kept, exempted>>
        /\ modules' \subseteq {"cs_badwords", "dnsbl"}
        /\ exempts' = exempts \/ exempts' = <<>>
    BY <1>1 DEF IInv, MemoryOk, Unload, Load
  <2>2. MemoryOk'
    <3>1. ExemptsOk(exempts)'
      <4>1. <<>> \in Seq(Exemption) /\ DOMAIN <<>> = {}
        OBVIOUS
      <4> QED BY <2>1, <4>1 DEF IInv, MemoryOk, ExemptsOk
    <3> QED BY <2>1, <3>1 DEF IInv, MemoryOk, FlagsOk, ListsOk
  <2> QED BY <2>1, <2>2, SameDatabase DEF IInv
<1>2. CASE UNCHANGED vars
  <2>1. MemoryOk'
    BY <1>2 DEF IInv, MemoryOk, FlagsOk, ListsOk, ExemptsOk, vars
  <2>2. UNCHANGED <<db, kept, up, exempted>>
    BY <1>2 DEF vars
  <2> QED BY <2>1, <2>2, SameDatabase DEF IInv
<1> QED BY <1>1, <1>2, WordSteps, ExemptSteps, SaveStep, RestartStep DEF Next

LEMMA Invariance == Spec => []IInv
BY InitIInv, NextKeepsIInv, PTL DEF Spec

\* A word twice in a list is the address of an exempt.
THEOREM TypeCorrect == Spec => []TypeOK
<1>1. IInv => TypeOK
  BY RowsInDatabase
  DEF IInv, MemoryOk, FlagsOk, ListsOk, ExemptsOk, GoodList, Double, TypeOK, Registered
<1> QED BY <1>1, Invariance, PTL

\* When services cannot start, an exempt with a reason of one word was saved.
THEOREM OnlyExemptsStopTheStart == Spec => []OnlyExemptsKeepServicesDown
<1>1. IInv => OnlyExemptsKeepServicesDown
  BY DEF IInv
<1> QED BY <1>1, Invariance, PTL

VerdictsOfTheSave ==
    \A mods \in SUBSET {"cs_badwords", "dnsbl"} :
        kept.loaded /\ "cs_badwords" \in mods /\ up' /\ Restart(mods) =>
            /\ DOMAIN words' = DOMAIN kept.words
            /\ \A c \in DOMAIN kept.words, op \in BOOLEAN, m \in SUBSET Words :
                  m \cap (Lost(c) \cup Gained(c)) = {} =>
                     OnChannelMessage(flags'[c], words'[c], op, m) =
                     OnChannelMessage(kept.flags[c], kept.words[c], op, m)

\* Whatever the channels, the words and the length of the lists: after a restart
\* each line has the effect that it had at the save, unless a word matches it whose
\* giver's name has a space or which was the address of an exempt that names the
\* channel and an action.
THEOREM RestartKeepsVerdicts == Spec => VerdictsSurviveRestart
<1>1. IInv /\ [Next]_vars => VerdictsOfTheSave
  <2> SUFFICES ASSUME IInv, NEW mods \in SUBSET {"cs_badwords", "dnsbl"}, kept.loaded,
                      "cs_badwords" \in mods, up', Restart(mods)
               PROVE  /\ DOMAIN words' = DOMAIN kept.words
                      /\ \A c \in DOMAIN kept.words, op \in BOOLEAN, m \in SUBSET Words :
                            m \cap (Lost(c) \cup Gained(c)) = {} =>
                               OnChannelMessage(flags'[c], words'[c], op, m) =
                               OnChannelMessage(kept.flags[c], kept.words[c], op, m)
    BY DEF VerdictsOfTheSave
  <2>1. /\ flags' = db.flags /\ Readable(db.rows)
        /\ words' = [c \in DOMAIN db.flags |-> Restored(db.rows, c)]
    BY DEF Restart
  <2>2. /\ kept.flags = db.flags /\ DOMAIN kept.words = DOMAIN db.flags
        /\ DOMAIN kept.words \subseteq Channels
    BY DEF IInv, KeptOk, ListsOk
  <2>3. ASSUME NEW c \in DOMAIN kept.words, NEW op \in BOOLEAN, NEW m \in SUBSET Words,
               m \cap (Lost(c) \cup Gained(c)) = {}
        PROVE  OnChannelMessage(flags'[c], words'[c], op, m) =
               OnChannelMessage(kept.flags[c], kept.words[c], op, m)
    <3>1. Answer(Restored(db.rows, c), m) = Answer(kept.words[c], m)
      BY <2>1, <2>2, <2>3, ReadBack
    <3>2. flags'[c] = kept.flags[c] /\ words'[c] = Restored(db.rows, c)
      BY <2>1, <2>2
    <3> QED BY <3>1, <3>2 DEF OnChannelMessage
  <2> QED BY <2>1, <2>2, <2>3
<1>2. [][VerdictsOfTheSave]_vars <=> VerdictsSurviveRestart
  BY PTL DEF VerdictsOfTheSave, VerdictsSurviveRestart
<1> QED BY <1>1, <1>2, Invariance, PTL DEF Spec
===============================================================================
