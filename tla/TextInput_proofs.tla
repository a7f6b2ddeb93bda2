--------------------------- MODULE TextInput_proofs ---------------------------
(***************************************************************************)
(* No key makes an input index out of its lines or characters, the cursor  *)
(* of the area stays in sight, and the area implements TextBuffer, for any *)
(* characters, viewport, bounds and opening texts.                         *)
(***************************************************************************)
EXTENDS TextInput, SequenceLemmas

Line == Seq(Char)
Text == Seq(Line) \ {<<>>}

-----------------------------------------------------------------------------
(***************************************************************************)
(* What the edits of sequences return                                      *)
(***************************************************************************)
LEMMA InsertFacts ==
    ASSUME NEW S, NEW s \in Seq(S), NEW i \in 1 .. Len(s) + 1, NEW e \in S
    PROVE  /\ InsertAt(s, i, e) \in Seq(S)
           /\ Len(InsertAt(s, i, e)) = Len(s) + 1
           /\ InsertAt(s, i, e)[i] = e
<1> DEFINE l == SubSeq(s, 1, i - 1)
           m == <<e>>
           r == SubSeq(s, i, Len(s))
<1>1. l \in Seq(S) /\ Len(l) = i - 1
  OBVIOUS
<1>2. r \in Seq(S) /\ Len(r) = Len(s) + 1 - i
  OBVIOUS
<1>3. m \in Seq(S) /\ Len(m) = 1 /\ m[1] = e
  OBVIOUS
<1>4. InsertAt(s, i, e) = l \o m \o r
  BY DEF InsertAt
<1> HIDE DEF l, m, r
<1>a. i \in Nat \ {0} /\ Len(s) \in Nat
  OBVIOUS
<1>e. l \in Seq(S) /\ m \in Seq(S)
  BY <1>1, <1>3
<1>d. l \o m \in Seq(S) /\ Len(l \o m) = Len(l) + Len(m)
  BY <1>e
<1>b. Len(l \o m) = i /\ i \in 1 .. Len(l) + Len(m)
  BY <1>1, <1>3, <1>a, <1>d
<1>c. (l \o m)[i] = m[i - Len(l)]
  BY <1>1, <1>3, <1>a, <1>b
<1>5. l \o m \in Seq(S) /\ Len(l \o m) = i /\ (l \o m)[i] = e
  BY <1>1, <1>3, <1>a, <1>b, <1>c
<1>6. l \o m \o r \in Seq(S) /\ Len(l \o m \o r) = Len(s) + 1 /\ (l \o m \o r)[i] = e
  <2> DEFINE f == l \o m
  <2>1. f \in Seq(S) /\ Len(f) = i /\ f[i] = e
    BY <1>5
  <2> HIDE DEF f
  <2>2. f \o r \in Seq(S) /\ Len(f \o r) = Len(f) + Len(r)
    BY <1>2, <2>1
  <2>3. i \in 1 .. Len(f) + Len(r) /\ i <= Len(f)
    BY <1>2, <1>a, <2>1
  <2>4. (f \o r)[i] = f[i]
    BY <1>2, <2>1, <2>3
  <2>5. Len(f) + Len(r) = Len(s) + 1
    BY <1>2, <1>a, <2>1
  <2> QED
    BY <2>1, <2>2, <2>4, <2>5 DEF f
<1> QED
  BY <1>4, <1>6

\* A character typed into a line at column c.
LEMMA TypedFacts ==
    ASSUME NEW l \in Line, NEW c \in 0 .. Len(l), NEW k \in Char
    PROVE  /\ InsertAt(l, c + 1, k) \in Line
           /\ Len(InsertAt(l, c + 1, k)) = Len(l) + 1
<1> DEFINE i == c + 1
<1>1. l \in Seq(Char) /\ i \in 1 .. Len(l) + 1
  BY DEF Line
<1> HIDE DEF i
<1>2. InsertAt(l, i, k) \in Seq(Char) /\ Len(InsertAt(l, i, k)) = Len(l) + 1
      /\ InsertAt(l, i, k)[i] = k
  BY <1>1, InsertFacts
<1> QED
  BY <1>2 DEF i, Line

LEMMA RemoveFacts ==
    ASSUME NEW S, NEW s \in Seq(S), NEW i \in 1 .. Len(s)
    PROVE  RemoveAt(s, i) \in Seq(S) /\ Len(RemoveAt(s, i)) = Len(s) - 1
<1> DEFINE l == SubSeq(s, 1, i - 1)
           r == SubSeq(s, i + 1, Len(s))
<1>1. l \in Seq(S) /\ Len(l) = i - 1
  OBVIOUS
<1>2. r \in Seq(S) /\ Len(r) = Len(s) - i
  OBVIOUS
<1>3. RemoveAt(s, i) = l \o r
  BY DEF RemoveAt
<1> HIDE DEF l, r
<1> QED
  BY <1>1, <1>2, <1>3

\* What follows the place of the removed element comes one place earlier.
LEMMA RemoveBefore ==
    ASSUME NEW S, NEW s \in Seq(S), NEW i \in 2 .. Len(s)
    PROVE  RemoveAt(s, i)[i - 1] = s[i - 1]
<1> DEFINE l == SubSeq(s, 1, i - 1)
           r == SubSeq(s, i + 1, Len(s))
<1>1. l \in Seq(S) /\ Len(l) = i - 1 /\ l[i - 1] = s[i - 1]
  OBVIOUS
<1>2. r \in Seq(S)
  OBVIOUS
<1>3. RemoveAt(s, i) = l \o r
  BY DEF RemoveAt
<1> HIDE DEF l, r
<1> QED
  BY <1>1, <1>2, <1>3

LEMMA ReplaceFacts ==
    ASSUME NEW S, NEW s \in Seq(S), NEW i \in 1 .. Len(s), NEW e \in S
    PROVE  /\ ReplaceAt(s, i, e) \in Seq(S)
           /\ Len(ReplaceAt(s, i, e)) = Len(s)
           /\ ReplaceAt(s, i, e)[i] = e
BY DEF ReplaceAt

-----------------------------------------------------------------------------
(***************************************************************************)
(* The text area                                                           *)
(***************************************************************************)
AreaOK(ls, r, c) == ls \in Text /\ r \in 1 .. Len(ls) /\ c \in 0 .. Len(ls[r])

\* Wherever a key puts the cursor within the text, the types hold and the
\* cursor is shown.
LEMMA PutFacts ==
    ASSUME TypeOK, UNCHANGED input, NEW ls, NEW r, NEW c, AreaOK(ls, r, c), Put(ls, r, c)
    PROVE  TypeOK' /\ CursorShown' /\ UNCHANGED field
BY TextAssumption DEF TypeOK, AreaOK, Put, Scrolled, CursorShown, Text, Line, field

\* A line and the next one made one.
LEMMA JoinedFacts ==
    ASSUME TypeOK, NEW r \in 1 .. Len(lines) - 1
    PROVE  /\ Joined(r) \in Text /\ r \in 1 .. Len(Joined(r))
           /\ Joined(r)[r] = lines[r] \o lines[r + 1]
<1> DEFINE one == lines[r] \o lines[r + 1]
           both == ReplaceAt(lines, r, one)
<1>1. one \in Line
  BY DEF TypeOK, Line
<1>2. lines \in Seq(Line) /\ r \in 1 .. Len(lines) /\ r + 1 \in 1 .. Len(lines)
  BY DEF TypeOK, Line
<1>a. one \in Line => both \in Seq(Line) /\ Len(both) = Len(lines) /\ both[r] = one
  <2> HIDE DEF one
  <2> QED
    BY <1>2, ReplaceFacts
<1> HIDE DEF both, one
<1>b. both \in Seq(Line) /\ Len(both) = Len(lines) /\ both[r] = one
  BY <1>1, <1>a
<1>c. r + 1 \in 1 .. Len(both) /\ r + 1 \in 2 .. Len(both) /\ r + 1 - 1 = r
  BY <1>2, <1>b
<1>3. RemoveAt(both, r + 1) \in Seq(Line) /\ Len(RemoveAt(both, r + 1)) = Len(both) - 1
  BY <1>b, <1>c, RemoveFacts
<1>4. RemoveAt(both, r + 1)[r + 1 - 1] = both[r + 1 - 1]
  BY <1>b, <1>c, RemoveBefore
<1>5. Joined(r) = RemoveAt(both, r + 1)
  BY DEF Joined, both, one
<1>6. one = lines[r] \o lines[r + 1]
  BY DEF one
<1>7. Joined(r) \in Seq(Line) /\ Len(Joined(r)) = Len(lines) - 1 /\ Joined(r)[r] = one
  BY <1>b, <1>c, <1>3, <1>4, <1>5
<1>8. Joined(r) # <<>> /\ r \in 1 .. Len(Joined(r))
  BY <1>2, <1>7
<1> QED
  BY <1>6, <1>7, <1>8 DEF Text

LEMMA BreakFacts ==
    ASSUME TypeOK, Enter
    PROVE  \E ls : AreaOK(ls, row + 1, 0) /\ Put(ls, row + 1, 0)
<1> DEFINE before == SubSeq(lines[row], 1, col)
           after == SubSeq(lines[row], col + 1, Len(lines[row]))
           cut == ReplaceAt(lines, row, before)
           ls == InsertAt(cut, row + 1, after)
<1>1. before \in Line /\ after \in Line
  BY DEF TypeOK, Line
<1> HIDE DEF before, after
<1>a. lines \in Seq(Line) /\ row \in 1 .. Len(lines)
  BY DEF TypeOK, Line
<1>2. cut \in Seq(Line) /\ Len(cut) = Len(lines)
  BY <1>1, <1>a, ReplaceFacts
<1> HIDE DEF cut
<1>b. row + 1 \in 1 .. Len(cut) + 1
  BY <1>2, <1>a
<1>3. ls \in Seq(Line) /\ Len(ls) = Len(cut) + 1 /\ ls[row + 1] = after
  BY <1>1, <1>2, <1>b, InsertFacts
<1>4. Put(ls, row + 1, 0)
  BY DEF Enter, cut, before, after
<1> HIDE DEF ls
<1>5. AreaOK(ls, row + 1, 0)
  BY <1>1, <1>2, <1>a, <1>3 DEF AreaOK, Text, Line
<1> QED
  BY <1>4, <1>5

\* A line whose cursor is at a place c of what it becomes.
LEMMA LineFacts ==
    ASSUME TypeOK, NEW l \in Line, NEW c \in 0 .. Len(l)
    PROVE  AreaOK(ReplaceAt(lines, row, l), row, c)
<1>1. ReplaceAt(lines, row, l) \in Seq(Line) /\ Len(ReplaceAt(lines, row, l)) = Len(lines)
      /\ ReplaceAt(lines, row, l)[row] = l
  BY ReplaceFacts DEF TypeOK, Line
<1> QED
  BY <1>1 DEF AreaOK, Text, TypeOK

LEMMA AreaStep ==
    ASSUME TypeOK, AreaKey
    PROVE  \E ls, r, c : AreaOK(ls, r, c) /\ Put(ls, r, c)
<1> lines \in Text /\ row \in 1 .. Len(lines) /\ col \in 0 .. Len(lines[row])
    /\ \A r \in 1 .. Len(lines) : lines[r] \in Line /\ Len(lines[r]) \in Nat
  BY DEF TypeOK, Text, Line
<1>1. CASE Vertical
  <2>1. PICK r \in {row - 1, row + 1} \cap DOMAIN lines : Put(lines, r, Clamp(col, r))
    BY <1>1 DEF Vertical
  <2> QED
    BY <2>1 DEF AreaOK, Clamp, Text
<1>2. CASE Left
  BY <1>2 DEF Left, AreaOK
<1>3. CASE Right
  BY <1>3 DEF Right, AreaOK
<1>4. CASE HomeEnd
  BY <1>4 DEF HomeEnd, AreaOK
<1>5. CASE Enter
  BY <1>5, BreakFacts
<1>6. CASE TypeChar
  <2>1. PICK k \in Char : Put(ReplaceAt(lines, row, InsertAt(lines[row], col + 1, k)), row, col + 1)
    BY <1>6 DEF TypeChar
  <2>2. InsertAt(lines[row], col + 1, k) \in Line
        /\ Len(InsertAt(lines[row], col + 1, k)) = Len(lines[row]) + 1
    BY TypedFacts
  <2>3. AreaOK(ReplaceAt(lines, row, InsertAt(lines[row], col + 1, k)), row, col + 1)
    BY <2>2, LineFacts
  <2> QED
    BY <2>1, <2>3
<1>7. CASE Backspace
  <2>1. CASE col > 0 /\ Put(ReplaceAt(lines, row, RemoveAt(lines[row], col)), row, col - 1)
    <3>a. lines[row] \in Seq(Char) /\ col \in 1 .. Len(lines[row])
      BY <2>1 DEF Line
    <3>1. RemoveAt(lines[row], col) \in Line /\ Len(RemoveAt(lines[row], col)) = Len(lines[row]) - 1
      BY <3>a, RemoveFacts DEF Line
    <3>2. AreaOK(ReplaceAt(lines, row, RemoveAt(lines[row], col)), row, col - 1)
      BY <2>1, <3>1, LineFacts
    <3> QED
      BY <2>1, <3>2
  <2>2. CASE col = 0 /\ row > 1 /\ Put(Joined(row - 1), row - 1, Len(lines[row - 1]))
    <3> DEFINE r == row - 1
    <3>a. r \in 1 .. Len(lines) - 1 /\ r + 1 = row /\ r \in 1 .. Len(lines)
      BY <2>2
    <3> HIDE DEF r
    <3>1. /\ Joined(r) \in Text /\ r \in 1 .. Len(Joined(r))
          /\ Joined(r)[r] = lines[r] \o lines[r + 1]
      BY <3>a, JoinedFacts
    <3>2. Len(lines[r] \o lines[row]) = Len(lines[r]) + Len(lines[row])
          /\ Len(lines[r]) \in Nat /\ Len(lines[row]) \in Nat
      BY <3>a DEF Line
    <3>d. Len(Joined(r)[r]) = Len(lines[r]) + Len(lines[row])
      BY <3>a, <3>1, <3>2
    <3> DEFINE n == Len(lines[r])
               k == Len(lines[row])
    <3>e. n \in Nat /\ k \in Nat /\ Len(Joined(r)[r]) = n + k
      BY <3>2, <3>d
    <3> HIDE DEF n, k
    <3>f. n \in 0 .. Len(Joined(r)[r])
      BY <3>e
    <3>c. Len(lines[r]) \in 0 .. Len(Joined(r)[r])
      BY <3>f DEF n
    <3>b. AreaOK(Joined(r), r, Len(lines[r]))
      BY <3>1, <3>c DEF AreaOK
    <3>3. AreaOK(Joined(row - 1), row - 1, Len(lines[row - 1]))
      BY <3>b DEF r
    <3> QED
      BY <2>2, <3>3
  <2>3. CASE col = 0 /\ row = 1 /\ Put(lines, row, col)
    BY <2>3 DEF AreaOK
  <2> QED
    BY <1>7, <2>1, <2>2, <2>3 DEF Backspace
<1>8. CASE Delete
  <2>1. CASE /\ col < Len(lines[row])
             /\ Put(ReplaceAt(lines, row, RemoveAt(lines[row], col + 1)), row, col)
    <3>a. lines[row] \in Seq(Char) /\ col + 1 \in 1 .. Len(lines[row])
      BY <2>1 DEF Line
    <3>1. RemoveAt(lines[row], col + 1) \in Line
          /\ Len(RemoveAt(lines[row], col + 1)) = Len(lines[row]) - 1
      BY <3>a, RemoveFacts DEF Line
    <3>2. AreaOK(ReplaceAt(lines, row, RemoveAt(lines[row], col + 1)), row, col)
      BY <2>1, <3>1, LineFacts
    <3> QED
      BY <2>1, <3>2
  <2>2. CASE col = Len(lines[row]) /\ row < Len(lines) /\ Put(Joined(row), row, col)
    <3>a. row \in 1 .. Len(lines) - 1 /\ row + 1 \in 1 .. Len(lines)
      BY <2>2
    <3>1. /\ Joined(row) \in Text /\ row \in 1 .. Len(Joined(row))
          /\ Joined(row)[row] = lines[row] \o lines[row + 1]
      BY <3>a, JoinedFacts
    <3>2. Len(lines[row] \o lines[row + 1]) = Len(lines[row]) + Len(lines[row + 1])
          /\ Len(lines[row]) \in Nat /\ Len(lines[row + 1]) \in Nat
      BY <3>a DEF Line
    <3>d. Len(Joined(row)[row]) = col + Len(lines[row + 1]) /\ col \in Nat
      BY <2>2, <3>1, <3>2
    <3>c. col \in 0 .. Len(Joined(row)[row])
      BY <3>2, <3>d
    <3>3. AreaOK(Joined(row), row, col)
      BY <3>1, <3>c DEF AreaOK
    <3> QED
      BY <2>2, <3>3
  <2>3. CASE col = Len(lines[row]) /\ row = Len(lines) /\ Put(lines, row, col)
    BY <2>3 DEF AreaOK
  <2> QED
    BY <1>8, <2>1, <2>2, <2>3 DEF Delete
<1> QED
  BY <1>1, <1>2, <1>3, <1>4, <1>5, <1>6, <1>7, <1>8 DEF AreaKey

LEMMA ClearAreaFacts ==
    ASSUME TypeOK, ClearArea, UNCHANGED input
    PROVE  TypeOK' /\ CursorShown' /\ UNCHANGED field
<1>1. << <<>> >> \in Seq(Seq(Char)) \ {<<>>} /\ Len(<< <<>> >>) = 1 /\ Len(<<>>) = 0
  OBVIOUS
<1> QED
  BY <1>1, TextAssumption DEF ClearArea, TypeOK, CursorShown, field

-----------------------------------------------------------------------------
(***************************************************************************)
(* The field                                                               *)
(***************************************************************************)
LEMMA FieldStep ==
    ASSUME TypeOK, FieldKey \/ ClearField, UNCHANGED input
    PROVE  TypeOK' /\ UNCHANGED area
<1> value \in Seq(Char) /\ Len(value) \in Nat /\ cursor \in 0 .. Len(value)
  BY DEF TypeOK
<1>1. CASE FieldMove
  BY <1>1 DEF FieldMove, Edit, TypeOK, area
<1>2. CASE FieldChar
  <2>1. PICK c \in Char : Edit(InsertAt(value, cursor + 1, c), cursor + 1)
    BY <1>2 DEF FieldChar
  <2>2. InsertAt(value, cursor + 1, c) \in Seq(Char)
        /\ Len(InsertAt(value, cursor + 1, c)) = Len(value) + 1
    BY TypedFacts DEF Line
  <2> QED
    BY <2>1, <2>2 DEF Edit, TypeOK, area
<1>3. CASE FieldBackspace
  <2>a. cursor \in 1 .. Len(value)
    BY <1>3 DEF FieldBackspace
  <2>1. RemoveAt(value, cursor) \in Seq(Char) /\ Len(RemoveAt(value, cursor)) = Len(value) - 1
    BY <2>a, RemoveFacts
  <2> QED
    BY <1>3, <2>a, <2>1 DEF FieldBackspace, Edit, TypeOK, area
<1>4. CASE FieldDelete
  <2>a. cursor + 1 \in 1 .. Len(value)
    BY <1>4 DEF FieldDelete
  <2>1. RemoveAt(value, cursor + 1) \in Seq(Char)
        /\ Len(RemoveAt(value, cursor + 1)) = Len(value) - 1
    BY <2>a, RemoveFacts
  <2> QED
    BY <1>4, <2>a, <2>1 DEF FieldDelete, Edit, TypeOK, area
<1>5. CASE ClearField
  BY <1>5 DEF ClearField, Edit, TypeOK, area
<1>6. CASE InsertTag
  <2>1. PICK t \in Tag, end \in 0 .. Len(value) :
            Edit(Completed(end, t), Len(Completed(end, t)))
    BY <1>6 DEF InsertTag
  <2>2. t \in Seq(Char) /\ <<Comma, Space>> \in Seq(Char) /\ SubSeq(value, 1, end) \in Seq(Char)
    BY TextAssumption
  <2>3. Completed(end, t) \in Seq(Char)
    BY <2>2 DEF Completed
  <2> QED
    BY <2>1, <2>3 DEF Edit, TypeOK, area
<1> QED
  BY <1>1, <1>2, <1>3, <1>4, <1>5, <1>6 DEF FieldKey

-----------------------------------------------------------------------------
LEMMA TextInit ==
    ASSUME Init
    PROVE  TypeOK
<1>1. PICK ls \in Opening : value = ls[1]
  BY DEF Init
<1>2. ls \in Seq(Seq(Char)) \ {<<>>} /\ lines \in Seq(Seq(Char)) \ {<<>>}
  BY TextAssumption DEF Init
<1>3. ls[1] \in Seq(Char) /\ lines[Len(lines)] \in Seq(Char) /\ Len(lines) \in Nat \ {0}
  BY <1>2
<1> QED
  BY <1>1, <1>2, <1>3 DEF Init, TypeOK

\* A step of the area or of the field, with the other as it was.
LEMMA TextStep ==
    ASSUME TypeOK, [Next]_vars
    PROVE  /\ TypeOK'
           /\ CursorShown' \/ UNCHANGED <<lines, row, col>>
<1>1. CASE AreaKey /\ UNCHANGED input
  BY <1>1, AreaStep, PutFacts
<1>2. CASE ClearArea /\ UNCHANGED input
  BY <1>2, ClearAreaFacts
<1>3. CASE (FieldKey \/ ClearField) /\ UNCHANGED input
  BY <1>3, FieldStep DEF area
<1>4. CASE UNCHANGED vars
  BY <1>4 DEF vars, TypeOK, field
<1> QED
  BY <1>1, <1>2, <1>3, <1>4 DEF Next

\* No key leaves a row, column or cursor outside of its text: the code indexes
\* lines and characters without a check (textarea.rs:72-129).
THEOREM TextTypes == Spec => []TypeOK
<1>1. Init => TypeOK
  BY TextInit
<1>2. TypeOK /\ [Next]_vars => TypeOK'
  BY TextStep
<1> QED
  BY <1>1, <1>2, PTL DEF Spec

\* Every step that changes the text or moves the cursor of the text area ends
\* with the cursor on a line within the scroll height (textarea.rs:195-202), for
\* every such height; a key that returns early is no such step.
THEOREM CursorInSight == Spec => CursorVisible
<1>1. TypeOK /\ [Next]_vars
      => [<<lines, row, col>>' # <<lines, row, col>> => CursorShown']_vars
  BY TextStep
<1> QED
  BY <1>1, TextTypes, PTL DEF Spec, CursorVisible

--------------------------------------------------------------------------------
(***************************************************************************)
(* The list of lines is one text: the lines above the cursor with their    *)
(* line breaks and what is before the cursor in its line, X, and what is   *)
(* behind it, V.  Every key appends to X, takes the last symbol of X or    *)
(* the first of V, or cuts X \o V elsewhere.                               *)
(***************************************************************************)
Sym == Char \cup {NL}

\* The lines, each with its line break.
Ended(ls) == [i \in DOMAIN ls |-> Append(ls[i], NL)]

\* Each line gets a line break.
LEMMA EndedFacts ==
    ASSUME NEW ls \in Seq(Line)
    PROVE  /\ Ended(ls) \in Seq(Seq(Sym)) /\ Len(Ended(ls)) = Len(ls)
           /\ \A i \in 1 .. Len(ls) : Ended(ls)[i] = Append(ls[i], NL)
<1>1. \A i \in 1 .. Len(ls) : Append(ls[i], NL) \in Seq(Sym)
  <2> SUFFICES ASSUME NEW i \in 1 .. Len(ls)
               PROVE  Append(ls[i], NL) \in Seq(Sym)
    OBVIOUS
  <2>1. ls[i] \in Seq(Char)
    BY DEF Line
  <2>2. ls[i] \in Seq(Sym) /\ NL \in Sym
    BY <2>1 DEF Sym
  <2> QED
    BY <2>2
<1>2. DOMAIN ls = 1 .. Len(ls) /\ Len(ls) \in Nat
  BY LenProperties
<1>3. Ended(ls) = [i \in 1 .. Len(ls) |-> Append(ls[i], NL)]
  BY <1>2 DEF Ended
<1>4. Ended(ls) \in [1 .. Len(ls) -> Seq(Sym)]
  BY <1>1, <1>3
<1>5. Ended(ls) \in Seq(Seq(Sym)) /\ Len(Ended(ls)) = Len(ls)
  <2> DEFINE e == Ended(ls)
             n == Len(ls)
  <2>1. e \in [1 .. n -> Seq(Sym)] /\ n \in Nat
    BY <1>2, <1>4
  <2> HIDE DEF e, n
  <2>2. e \in Seq(Seq(Sym)) /\ Len(e) = n
    BY <2>1
  <2> QED
    BY <2>2 DEF e, n
<1> QED
  BY <1>3, <1>5

\* And so do the lines of two lists.
LEMMA EndedConcat ==
    ASSUME NEW a \in Seq(Line), NEW b \in Seq(Line)
    PROVE  Ended(a \o b) = Ended(a) \o Ended(b)
<1> DEFINE c == a \o b
           ea == Ended(a)
           eb == Ended(b)
           ec == Ended(c)
<1>1. /\ c \in Seq(Line) /\ Len(c) = Len(a) + Len(b)
      /\ Len(a) \in Nat /\ Len(b) \in Nat
      /\ \A i \in 1 .. Len(c) : c[i] = IF i <= Len(a) THEN a[i] ELSE b[i - Len(a)]
  BY ConcatProperties, LenProperties
<1> HIDE DEF c
<1>2. /\ ea \in Seq(Seq(Sym)) /\ Len(ea) = Len(a)
      /\ \A i \in 1 .. Len(a) : ea[i] = Append(a[i], NL)
  BY EndedFacts
<1>3. /\ eb \in Seq(Seq(Sym)) /\ Len(eb) = Len(b)
      /\ \A i \in 1 .. Len(b) : eb[i] = Append(b[i], NL)
  BY EndedFacts
<1>4. /\ ec \in Seq(Seq(Sym)) /\ Len(ec) = Len(c)
      /\ \A i \in 1 .. Len(c) : ec[i] = Append(c[i], NL)
  BY <1>1, EndedFacts
<1> HIDE DEF ea, eb, ec
<1> DEFINE ed == ea \o eb
<1>5. /\ ed \in Seq(Seq(Sym)) /\ Len(ed) = Len(a) + Len(b)
      /\ \A i \in 1 .. Len(a) + Len(b) : ed[i] = IF i <= Len(a) THEN ea[i] ELSE eb[i - Len(a)]
  <2>1. /\ ed \in Seq(Seq(Sym)) /\ Len(ed) = Len(ea) + Len(eb)
        /\ \A i \in 1 .. Len(ea) + Len(eb) :
              ed[i] = IF i <= Len(ea) THEN ea[i] ELSE eb[i - Len(ea)]
    <3> DEFINE T == Seq(Sym)
    <3>1. ea \in Seq(T) /\ eb \in Seq(T)
      BY <1>2, <1>3
    <3> HIDE DEF T
    <3>2. /\ ea \o eb \in Seq(T) /\ Len(ea \o eb) = Len(ea) + Len(eb)
          /\ \A i \in 1 .. Len(ea) + Len(eb) :
                (ea \o eb)[i] = IF i <= Len(ea) THEN ea[i] ELSE eb[i - Len(ea)]
      BY <3>1, ConcatProperties
    <3> QED
      BY <3>2 DEF T
  <2> HIDE DEF ed
  <2> QED
    BY <1>2, <1>3, <2>1
<1> HIDE DEF ed
<1>6. \A i \in 1 .. Len(ec) : ec[i] = ed[i]
  <2> SUFFICES ASSUME NEW i \in 1 .. Len(ec)
               PROVE  ec[i] = ed[i]
    OBVIOUS
  <2>1. i \in 1 .. Len(c) /\ i \in 1 .. Len(a) + Len(b)
    BY <1>1, <1>4
  <2>2. CASE i <= Len(a)
    <3>1. i \in 1 .. Len(a)
      BY <2>1, <2>2, <1>1
    <3> QED
      BY <1>1, <1>2, <1>4, <1>5, <2>1, <2>2, <3>1
  <2>3. CASE ~ (i <= Len(a))
    <3>1. i - Len(a) \in 1 .. Len(b)
      BY <2>1, <2>3, <1>1
    <3> QED
      BY <1>1, <1>3, <1>4, <1>5, <2>1, <2>3, <3>1
  <2> QED
    BY <2>2, <2>3
<1>7. ec = ed
  BY <1>1, <1>4, <1>5, <1>6, SeqEqual
<1> QED
  BY <1>7 DEF ea, eb, ec, ed, c

\* The text of a list of lines is a sequence of symbols,
LEMMA BrokenFacts ==
    ASSUME NEW a \in Seq(Line)
    PROVE  Broken(a) \in Seq(Sym)
<1> DEFINE e == Ended(a)
<1>1. e \in Seq(Seq(Sym)) /\ <<>> \in Seq(Sym) /\ Broken(a) = FlattenSeq(e)
  BY EndedFacts DEF Broken, Ended
<1> HIDE DEF e
<1> QED
  BY <1>1, FlattenAppend

\* the text of two lists is that of the one and of the other,
LEMMA BrokenConcat ==
    ASSUME NEW a \in Seq(Line), NEW b \in Seq(Line)
    PROVE  Broken(a \o b) = Broken(a) \o Broken(b)
<1>1. \A ls : Broken(ls) = FlattenSeq(Ended(ls))
  BY DEF Broken, Ended
<1>2. Ended(a) \in Seq(Seq(Sym)) /\ Ended(b) \in Seq(Seq(Sym))
  BY EndedFacts
<1>3. FlattenSeq(Ended(a) \o Ended(b)) = FlattenSeq(Ended(a)) \o FlattenSeq(Ended(b))
  BY <1>2, FlattenConcat
<1>4. Ended(a \o b) = Ended(a) \o Ended(b)
  BY EndedConcat
<1> QED
  BY <1>1, <1>3, <1>4

\* of one line it is the line and a line break,
LEMMA BrokenLine ==
    ASSUME NEW l \in Line
    PROVE  /\ Broken(<<l>>) = l \o <<NL>>
           /\ l \in Seq(Sym) /\ <<NL>> \in Seq(Sym) /\ NL \in Sym /\ l \o <<NL>> \in Seq(Sym)
<1>1. l \in Seq(Sym) /\ NL \in Sym /\ <<NL>> \in Seq(Sym)
  BY DEF Line, Sym
<1>2. Append(l, NL) = l \o <<NL>> /\ Append(l, NL) \in Seq(Sym)
  BY <1>1, AppendIsConcat, AppendProperties
<1> DEFINE x == Append(l, NL)
<1>3. Ended(<<l>>) = <<x>>
  BY DEF Ended
<1> HIDE DEF x
<1>4. x \in Seq(Sym) /\ <<x>> = Append(<<>>, x)
  BY <1>2 DEF x
<1>5. FlattenSeq(<<>>) = <<>> /\ <<>> \in Seq(Seq(Sym)) /\ <<>> \o x = x
  BY <1>4 DEF FlattenSeq
<1>6. FlattenSeq(Append(<<>>, x)) = FlattenSeq(<<>>) \o x
  BY <1>4, <1>5, FlattenAppend
<1>7. Broken(<<l>>) = x
  <2>1. Broken(<<l>>) = FlattenSeq(Ended(<<l>>))
    BY DEF Broken, Ended
  <2> QED
    BY <1>3, <1>4, <1>5, <1>6, <2>1
<1> QED
  BY <1>1, <1>2, <1>7 DEF x

\* and of no line nothing.
LEMMA BrokenEmpty == Broken(<<>>) = <<>>
BY DEF Broken, FlattenSeq


\* A text around its cursor: the lines above, the two parts of the cursor's
\* line, the lines below.
Around(ls, r, c, A, p, q, Z) ==
    /\ A \in Seq(Line) /\ Z \in Seq(Line) /\ p \in Line /\ q \in Line
    /\ ls = (A \o <<p \o q>>) \o Z
    /\ r = Len(A) + 1 /\ c = Len(p)

Behind(A, p) == Broken(A) \o p
Ahead(q, Z) == Front((q \o <<NL>>) \o Broken(Z))
OffsetOf(ls, r, c) == Len(Broken(SubSeq(ls, 1, r - 1))) + c

\* The one text X \o V with the cursor behind X.
At(ls, r, c, X, V) ==
    /\ X \in Seq(Sym) /\ V \in Seq(Sym)
    /\ Join(ls) = X \o V /\ OffsetOf(ls, r, c) = Len(X)

\* Behind a cursor there is always the line break that Join drops.
LEMMA AheadTyped ==
    ASSUME NEW q \in Line, NEW Z \in Seq(Line)
    PROVE  /\ (q \o <<NL>>) \o Broken(Z) \in Seq(Sym)
           /\ (q \o <<NL>>) \o Broken(Z) # <<>>
           /\ Ahead(q, Z) \in Seq(Sym)
<1> DEFINE a == q \o <<NL>>
           b == Broken(Z)
<1>1. a \in Seq(Sym) /\ b \in Seq(Sym) /\ q \in Seq(Sym) /\ NL \in Sym
  BY BrokenLine, BrokenFacts
<1>2. Len(a) = Len(q) + 1 /\ Len(q) \in Nat /\ Len(b) \in Nat
  BY <1>1, MiddleFacts, LenProperties
<1> HIDE DEF a, b
<1>3. a \o b \in Seq(Sym) /\ Len(a \o b) = Len(a) + Len(b)
  BY <1>1, ConcatProperties
<1>4. a \o b # <<>>
  BY <1>2, <1>3
<1>5. Front(a \o b) \in Seq(Sym)
  BY <1>1, <1>3, <1>4, FrontFacts
<1> QED
  BY <1>3, <1>4, <1>5 DEF Ahead, a, b

\* The one text of a list of lines, and the offset of its cursor.
LEMMA AroundAt ==
    ASSUME NEW ls, NEW r, NEW c, NEW A, NEW p, NEW q, NEW Z, Around(ls, r, c, A, p, q, Z)
    PROVE  At(ls, r, c, Behind(A, p), Ahead(q, Z))
<1> DEFINE l == p \o q
           f == A \o <<l>>
           k == q \o <<NL>>
           BA == Broken(A)
           BZ == Broken(Z)
<1>0. /\ A \in Seq(Line) /\ Z \in Seq(Line) /\ p \in Line /\ q \in Line
      /\ ls = f \o Z /\ r = Len(A) + 1 /\ c = Len(p)
  BY DEF Around
<1>1. l \in Line
  BY <1>0, ConcatProperties DEF Line
<1>2. /\ p \in Seq(Sym) /\ q \in Seq(Sym) /\ k \in Seq(Sym) /\ <<NL>> \in Seq(Sym)
      /\ BA \in Seq(Sym) /\ BZ \in Seq(Sym)
  BY <1>0, BrokenLine, BrokenFacts
<1>3. Broken(<<l>>) = p \o k
  <2>1. Broken(<<l>>) = l \o <<NL>>
    BY <1>1, BrokenLine
  <2>2. (p \o q) \o <<NL>> = p \o (q \o <<NL>>)
    BY <1>2, ConcatAssociative
  <2> QED
    BY <2>1, <2>2
<1>4. f \in Seq(Line) /\ <<l>> \in Seq(Line) /\ ls = A \o (<<l>> \o Z) /\ <<l>> \o Z \in Seq(Line)
  BY <1>0, <1>1, MiddleFacts
<1>5. Broken(f) = BA \o (p \o k)
  <2>1. Broken(f) = Broken(A) \o Broken(<<l>>)
    BY <1>0, <1>4, BrokenConcat
  <2> QED
    BY <2>1, <1>3
<1>6. Broken(ls) = Broken(f) \o BZ
  <2> HIDE DEF f
  <2> QED
    BY <1>0, <1>4, BrokenConcat
<1>7. (BA \o (p \o k)) \o BZ = (BA \o p) \o (k \o BZ) /\ BA \o p \in Seq(Sym)
  <2> HIDE DEF BA, BZ, k
  <2>1. BA \o p \in Seq(Sym)
    BY <1>2, ConcatProperties
  <2>2. (BA \o (p \o k)) \o BZ = (BA \o p) \o (k \o BZ)
    BY <1>2
  <2> QED
    BY <2>1, <2>2
<1>8. k \o BZ \in Seq(Sym) /\ k \o BZ # <<>> /\ Ahead(q, Z) \in Seq(Sym)
  BY <1>0, AheadTyped
<1>9. Front((BA \o p) \o (k \o BZ)) = (BA \o p) \o Front(k \o BZ)
  <2> DEFINE x == BA \o p
             y == k \o BZ
  <2>1. x \in Seq(Sym) /\ y \in Seq(Sym) /\ y # <<>>
    BY <1>7, <1>8
  <2> HIDE DEF x, y
  <2>2. Front(x \o y) = x \o Front(y)
    BY <2>1, FrontFacts
  <2> QED
    BY <2>2 DEF x, y
<1>10. Join(ls) = Behind(A, p) \o Ahead(q, Z)
  BY <1>5, <1>6, <1>7, <1>9 DEF Join, Behind, Ahead
<1>11. OffsetOf(ls, r, c) = Len(Behind(A, p))
  <2> DEFINE g == <<l>> \o Z
  <2>1. g \in Seq(Line) /\ ls = A \o g
    BY <1>4
  <2> HIDE DEF g
  <2>2. SubSeq(ls, 1, Len(A)) = A
    BY <1>0, <2>1, CutFacts
  <2>3. r - 1 = Len(A)
    BY <1>0, LenProperties
  <2>4. Len(BA \o p) = Len(BA) + Len(p)
    BY <1>2, ConcatProperties
  <2>5. Broken(SubSeq(ls, 1, r - 1)) = BA
    BY <2>2, <2>3
  <2>6. OffsetOf(ls, r, c) = Len(Broken(SubSeq(ls, 1, r - 1))) + c
    BY DEF OffsetOf
  <2> QED
    BY <1>0, <2>4, <2>5, <2>6 DEF Behind
<1> QED
  BY <1>7, <1>8, <1>10, <1>11 DEF At, Behind

\* Every cursor within a text has a text around it.
LEMMA AroundExists ==
    ASSUME NEW ls, NEW r, NEW c, AreaOK(ls, r, c)
    PROVE  \E A, Z \in Seq(Line), p, q \in Line : Around(ls, r, c, A, p, q, Z)
<1> DEFINE A == SubSeq(ls, 1, r - 1)
           l == ls[r]
           T == SubSeq(ls, r - 1 + 1, Len(ls))
           p == SubSeq(l, 1, c)
           q == SubSeq(l, c + 1, Len(l))
<1>1. /\ ls \in Seq(Line) /\ l \in Line /\ r \in 1 .. Len(ls) /\ c \in 0 .. Len(l)
      /\ r - 1 \in 0 .. Len(ls) /\ Len(ls) \in Nat
  BY LenProperties, ElementOfSeq DEF AreaOK, Text
<1>2. p \in Line /\ Len(p) = c /\ q \in Line /\ l = p \o q
  <2> HIDE DEF l
  <2>1. l \in Seq(Char) /\ c \in 0 .. Len(l)
    BY <1>1 DEF Line
  <2> QED
    BY <2>1, CutAt DEF Line
<1>3. /\ A \in Seq(Line) /\ Len(A) = r - 1 /\ T \in Seq(Line) /\ Len(T) = Len(ls) - (r - 1)
      /\ ls = A \o T
  <2> DEFINE i == r - 1
  <2>1. i \in 0 .. Len(ls) /\ ls \in Seq(Line)
    BY <1>1
  <2> HIDE DEF i
  <2>2. /\ SubSeq(ls, 1, i) \in Seq(Line) /\ Len(SubSeq(ls, 1, i)) = i
        /\ SubSeq(ls, i + 1, Len(ls)) \in Seq(Line)
        /\ Len(SubSeq(ls, i + 1, Len(ls))) = Len(ls) - i
        /\ ls = SubSeq(ls, 1, i) \o SubSeq(ls, i + 1, Len(ls))
    BY <2>1, CutAt
  <2> QED
    BY <2>2 DEF i
<1> HIDE DEF A, T, p, q
<1>4. PICK e \in Line, Z \in Seq(Line) : T = <<e>> \o Z
  <2>1. T # <<>>
    BY <1>1, <1>3
  <2> QED
    BY <1>3, <2>1, SplitHead
<1>5. ls = (A \o <<e>>) \o Z /\ ls[Len(A) + 1] = e
  <2>1. (A \o <<e>>) \o Z = A \o (<<e>> \o Z) /\ ((A \o <<e>>) \o Z)[Len(A) + 1] = e
    BY <1>3, MiddleFacts
  <2> QED
    BY <1>3, <1>4, <2>1
<1>6. r = Len(A) + 1 /\ e = l
  <2>1. r = Len(A) + 1
    BY <1>1, <1>3
  <2> QED
    BY <2>1, <1>5
<1>7. Around(ls, r, c, A, p, q, Z)
  BY <1>2, <1>3, <1>5, <1>6 DEF Around
<1> QED
  BY <1>2, <1>3, <1>7

\* A character or a line break before the cursor is the last symbol there.
LEMMA BehindFacts ==
    ASSUME NEW A \in Seq(Line), NEW p \in Line
    PROVE  /\ \A x \in Char : Behind(A, p \o <<x>>) = Behind(A, p) \o <<x>>
           /\ Behind(A \o <<p>>, <<>>) = Behind(A, p) \o <<NL>>
           /\ Behind(A, p) \in Seq(Sym)
<1> DEFINE BA == Broken(A)
           n == <<NL>>
<1>1. /\ BA \in Seq(Sym) /\ p \in Seq(Sym) /\ n \in Seq(Sym)
      /\ <<p>> \in Seq(Line) /\ p \o n \in Seq(Sym) /\ Broken(<<p>>) = p \o n
  <2>1. <<p>> \in Seq(Line)
    OBVIOUS
  <2>2. BA \in Seq(Sym)
    BY BrokenFacts
  <2>3. p \in Seq(Sym) /\ n \in Seq(Sym) /\ p \o n \in Seq(Sym) /\ Broken(<<p>>) = p \o n
    BY BrokenLine
  <2> QED
    BY <2>1, <2>2, <2>3
<1>2. Broken(A \o <<p>>) = BA \o (p \o n)
  <2>1. Broken(A \o <<p>>) = Broken(A) \o Broken(<<p>>)
    BY <1>1, BrokenConcat
  <2> QED
    BY <1>1, <2>1
<1> HIDE DEF BA, n
<1>3. \A x \in Char : BA \o (p \o <<x>>) = (BA \o p) \o <<x>>
  <2>1. ASSUME NEW k \in Seq(Sym)
        PROVE  BA \o (p \o k) = (BA \o p) \o k
    BY <1>1
  <2>2. \A x \in Char : <<x>> \in Seq(Sym)
    BY DEF Sym
  <2> QED
    BY <2>1, <2>2
<1>4. (BA \o (p \o n)) \o <<>> = (BA \o p) \o n
  BY <1>1
<1>5. BA \o p \in Seq(Sym)
  BY <1>1, ConcatProperties
<1> QED
  BY <1>2, <1>3, <1>4, <1>5 DEF Behind, BA, n

\* A character or a line break behind the cursor is the first symbol there.
LEMMA AheadFacts ==
    ASSUME NEW m \in Line, NEW Z \in Seq(Line)
    PROVE  /\ \A x \in Char : Ahead(<<x>> \o m, Z) = <<x>> \o Ahead(m, Z)
           /\ Ahead(<<>>, <<m>> \o Z) = <<NL>> \o Ahead(m, Z)
<1> DEFINE BZ == Broken(Z)
           n == <<NL>>
           b == (m \o n) \o BZ
<1>1. /\ BZ \in Seq(Sym) /\ m \in Seq(Sym) /\ n \in Seq(Sym)
      /\ <<m>> \in Seq(Line) /\ Broken(<<m>>) = m \o n
  <2>1. <<m>> \in Seq(Line)
    OBVIOUS
  <2>2. BZ \in Seq(Sym)
    BY BrokenFacts
  <2>3. m \in Seq(Sym) /\ n \in Seq(Sym) /\ Broken(<<m>>) = m \o n
    BY BrokenLine
  <2> QED
    BY <2>1, <2>2, <2>3
<1>2. b \in Seq(Sym) /\ b # <<>>
  BY AheadTyped
<1>3. Broken(<<m>> \o Z) = b
  <2>1. Broken(<<m>> \o Z) = Broken(<<m>>) \o Broken(Z)
    BY <1>1, BrokenConcat
  <2> QED
    BY <1>1, <2>1
<1>4. \A x \in Char : Ahead(<<x>> \o m, Z) = <<x>> \o Front(b)
  <2> TAKE x \in Char
  <2> DEFINE k == <<x>>
             y == m \o n
  <2>1. k \in Seq(Sym)
    BY DEF Sym
  <2> HIDE DEF k, BZ, n
  <2>2. (k \o m) \o n = k \o y
    BY <1>1, <2>1
  <2>3. y \in Seq(Sym)
    BY <1>1
  <2> HIDE DEF y
  <2>4. (k \o y) \o BZ = k \o (y \o BZ)
    BY <1>1, <2>1, <2>3
  <2>5. ((k \o m) \o n) \o BZ = k \o b
    BY <2>2, <2>4 DEF y
  <2> HIDE DEF b
  <2>6. Front(k \o b) = k \o Front(b)
    BY <1>2, <2>1, FrontFacts
  <2> QED
    BY <2>5, <2>6 DEF Ahead, k, BZ, n
<1>5. Ahead(<<>>, <<m>> \o Z) = n \o Front(b)
  <2> HIDE DEF BZ, n, b
  <2>1. (<<>> \o n) \o b = n \o b
    BY <1>1, <1>2
  <2>2. Front(n \o b) = n \o Front(b)
    BY <1>1, <1>2, FrontFacts
  <2> QED
    BY <1>3, <2>1, <2>2 DEF Ahead, n
<1> QED
  BY <1>4, <1>5 DEF Ahead, n, b, BZ

-----------------------------------------------------------------------------
\* One more symbol before the cursor: typed.
LEMMA TypeAt ==
    ASSUME NEW X, NEW V, NEW e \in Sym,
           At(lines, row, col, X, V), At(lines', row', col', X \o <<e>>, V)
    PROVE  Area!Type
<1>1. X \in Seq(Sym) /\ V \in Seq(Sym)
  BY DEF At
<1>2. InsertAt(X \o V, Len(X) + 1, e) = (X \o <<e>>) \o V
  BY <1>1, InsertBetween
<1>3. Len(X \o <<e>>) = Len(X) + 1
  BY <1>1, MiddleFacts
<1>4. Join(lines) = X \o V /\ Offset = Len(X)
      /\ Join(lines') = (X \o <<e>>) \o V /\ Offset' = Len(X \o <<e>>)
  BY DEF At, Offset, OffsetOf
<1>5. Area!InsertAt(X \o V, Len(X) + 1, e) = InsertAt(X \o V, Len(X) + 1, e)
  BY DEF InsertAt, Area!InsertAt
<1>6. Join(lines)' = Area!InsertAt(Join(lines), Offset + 1, e) /\ Offset' = Offset + 1
  BY <1>2, <1>3, <1>4, <1>5
<1> QED
  BY <1>6 DEF Area!Type, Sym

\* One less before the cursor: removed by Backspace.
LEMMA BackspaceAt ==
    ASSUME NEW X \in Seq(Sym), NEW V, NEW e \in Sym,
           At(lines, row, col, X \o <<e>>, V), At(lines', row', col', X, V)
    PROVE  Area!Backspace
<1>1. V \in Seq(Sym)
  BY DEF At
<1>2. RemoveAt((X \o <<e>>) \o V, Len(X) + 1) = X \o V
  BY <1>1, RemoveMiddle
<1>3. Len(X \o <<e>>) = Len(X) + 1 /\ Len(X) \in Nat
  BY <1>1, MiddleFacts, LenProperties
<1>4. Join(lines) = (X \o <<e>>) \o V /\ Offset = Len(X \o <<e>>)
      /\ Join(lines') = X \o V /\ Offset' = Len(X)
  BY DEF At, Offset, OffsetOf
<1>5. Area!RemoveAt((X \o <<e>>) \o V, Len(X) + 1) = RemoveAt((X \o <<e>>) \o V, Len(X) + 1)
  BY DEF RemoveAt, Area!RemoveAt
<1>6. Offset = Len(X) + 1 /\ Offset' = Len(X)
  BY <1>3, <1>4
<1>7. Join(lines)' = Area!RemoveAt(Join(lines), Offset)
  BY <1>2, <1>4, <1>5, <1>6
<1>8. Offset' = Offset - 1 /\ Offset > 0
  BY <1>3, <1>6
<1> QED
  BY <1>7, <1>8 DEF Area!Backspace

\* One less behind the cursor: removed by Delete.
LEMMA DeleteAt ==
    ASSUME NEW X, NEW V \in Seq(Sym), NEW e \in Sym,
           At(lines, row, col, X, <<e>> \o V), At(lines', row', col', X, V)
    PROVE  Area!Delete
<1>1. X \in Seq(Sym)
  BY DEF At
<1>2. RemoveAt((X \o <<e>>) \o V, Len(X) + 1) = X \o V
  BY <1>1, RemoveMiddle
<1>3. (X \o <<e>>) \o V = X \o (<<e>> \o V)
      /\ Len((X \o <<e>>) \o V) = Len(X) + 1 + Len(V) /\ Len(X) \in Nat /\ Len(V) \in Nat
  BY <1>1, MiddleFacts, LenProperties
<1>4. Join(lines) = (X \o <<e>>) \o V /\ Offset = Len(X)
      /\ Join(lines') = X \o V /\ Offset' = Len(X)
  BY <1>3 DEF At, Offset, OffsetOf
<1>5. Area!RemoveAt((X \o <<e>>) \o V, Len(X) + 1) = RemoveAt((X \o <<e>>) \o V, Len(X) + 1)
  BY DEF RemoveAt, Area!RemoveAt
<1>6. Join(lines)' = Area!RemoveAt(Join(lines), Offset + 1) /\ Offset' = Offset
  BY <1>2, <1>4, <1>5
<1>7. Offset < Len(Join(lines))
  <2>1. Len(Join(lines)) = Len(X) + 1 + Len(V) /\ Offset = Len(X)
    BY <1>3, <1>4
  <2> QED
    BY <1>3, <2>1
<1> QED
  BY <1>6, <1>7 DEF Area!Delete

\* The same lines with the cursor anywhere in them.
LEMMA MoveAt ==
    ASSUME lines' = lines, AreaOK(lines', row', col')
    PROVE  Area!Move
<1>1. PICK A \in Seq(Line), Z \in Seq(Line), p \in Line, q \in Line :
          Around(lines', row', col', A, p, q, Z)
  BY AroundExists
<1> DEFINE X == Behind(A, p)
           V == Ahead(q, Z)
<1>2. At(lines', row', col', X, V)
  BY <1>1, AroundAt
<1> HIDE DEF X, V
<1>3. X \in Seq(Sym) /\ V \in Seq(Sym) /\ Join(lines') = X \o V /\ Offset' = Len(X)
  BY <1>2 DEF At, Offset, OffsetOf
<1>4. Len(X \o V) = Len(X) + Len(V) /\ Len(X) \in Nat /\ Len(V) \in Nat
  BY <1>3, ConcatProperties, LenProperties
<1>5. Join(lines)' = Join(lines) /\ Offset' \in 0 .. Len(Join(lines))
  BY <1>3, <1>4
<1> QED
  BY <1>5 DEF Area!Move

-----------------------------------------------------------------------------
\* The cursor's line and the two parts the keys cut it into.
LineAround(A, p, q, Z) ==
    /\ lines = (A \o <<p \o q>>) \o Z /\ row = Len(A) + 1 /\ col = Len(p)
    /\ A \in Seq(Line) /\ Z \in Seq(Line) /\ p \in Line /\ q \in Line /\ p \o q \in Line
    /\ lines[row] = p \o q
    /\ SubSeq(lines[row], 1, col) = p
    /\ SubSeq(lines[row], col + 1, Len(lines[row])) = q
    /\ Len(lines[row]) = Len(p) + Len(q) /\ Len(p) \in Nat /\ Len(q) \in Nat
    /\ Len(lines) = Len(A) + 1 + Len(Z) /\ Len(A) \in Nat /\ Len(Z) \in Nat
    /\ \A l \in Line : ReplaceAt(lines, row, l) = (A \o <<l>>) \o Z

LEMMA AroundLine ==
    ASSUME NEW A, NEW p, NEW q, NEW Z, Around(lines, row, col, A, p, q, Z)
    PROVE  LineAround(A, p, q, Z)
<1>1. /\ lines = (A \o <<p \o q>>) \o Z /\ row = Len(A) + 1 /\ col = Len(p)
      /\ A \in Seq(Line) /\ Z \in Seq(Line) /\ p \in Line /\ q \in Line
  BY DEF Around
<1>2. p \o q \in Line /\ Len(p \o q) = Len(p) + Len(q) /\ Len(p) \in Nat /\ Len(q) \in Nat
  BY <1>1, ConcatProperties, LenProperties DEF Line
<1>3. lines[row] = p \o q /\ Len(lines) = Len(A) + 1 + Len(Z)
      /\ Len(A) \in Nat /\ Len(Z) \in Nat
  <2> DEFINE l == p \o q
             t == (A \o <<l>>) \o Z
  <2>1. l \in Line
    BY <1>2
  <2> HIDE DEF l
  <2>2. t[Len(A) + 1] = l /\ Len(t) = Len(A) + 1 + Len(Z)
    BY <1>1, <2>1, MiddleFacts
  <2>3. lines = t
    BY <1>1 DEF l
  <2> HIDE DEF t
  <2> QED
    BY <1>1, <2>2, <2>3, LenProperties DEF l
<1>4. SubSeq(p \o q, 1, Len(p)) = p /\ SubSeq(p \o q, Len(p) + 1, Len(p \o q)) = q
  BY <1>1, CutFacts DEF Line
<1>5. \A l \in Line : ReplaceAt(lines, row, l) = (A \o <<l>>) \o Z
  <2> TAKE l \in Line
  <2> DEFINE k == p \o q
  <2>1. k \in Line
    BY <1>2
  <2> HIDE DEF k
  <2>a. A \in Seq(Line) /\ Z \in Seq(Line)
    BY <1>1
  <2>2. Replaced((A \o <<k>>) \o Z, Len(A) + 1, l, (A \o <<l>>) \o Z)
    BY <2>a, <2>1, ReplaceMiddle
  <2> QED
    BY <1>1, <2>2 DEF k, Replaced
<1> QED
  BY <1>1, <1>2, <1>3, <1>4, <1>5 DEF LineAround

\* Two lines made one.
LEMMA JoinedLines ==
    ASSUME NEW B \in Seq(Line), NEW Z \in Seq(Line), NEW m \in Line, NEW n \in Line,
           lines = ((B \o <<m>>) \o <<n>>) \o Z
    PROVE  /\ Joined(Len(B) + 1) = (B \o <<m \o n>>) \o Z
           /\ lines[Len(B) + 1] = m
<1> DEFINE r == Len(B) + 1
           f == B \o <<m>>
           g == <<n>> \o Z
           h == B \o <<m \o n>>
<1>1. m \o n \in Line
  BY ConcatProperties DEF Line
<1>2. f \in Seq(Line) /\ Len(f) = r /\ h \in Seq(Line) /\ Len(h) = r
  BY <1>1, MiddleFacts
<1>3. lines = f \o g /\ g \in Seq(Line)
  <2> HIDE DEF f
  <2>1. (f \o <<n>>) \o Z = f \o (<<n>> \o Z) /\ <<n>> \o Z \in Seq(Line)
    BY <1>2, MiddleFacts
  <2> QED
    BY <2>1 DEF f
<1>4. lines[r] = m
  <2> HIDE DEF g
  <2> QED
    BY <1>3, MiddleFacts
<1>5. lines[r + 1] = n
  <2> HIDE DEF f
  <2>1. ((f \o <<n>>) \o Z)[Len(f) + 1] = n
    BY <1>2, MiddleFacts
  <2> QED
    BY <1>2, <2>1 DEF f
<1>6. ReplaceAt(lines, r, m \o n) = h \o g
  <2> DEFINE l == m \o n
  <2>1. l \in Line
    BY <1>1
  <2> HIDE DEF l, g
  <2>2. Replaced((B \o <<m>>) \o g, Len(B) + 1, l, (B \o <<l>>) \o g)
    BY <1>3, <2>1, ReplaceMiddle
  <2> QED
    BY <1>3, <2>2 DEF Replaced, l
<1>7. RemoveAt(h \o g, r + 1) = h \o Z
  <2> HIDE DEF h
  <2>1. RemoveAt((h \o <<n>>) \o Z, Len(h) + 1) = h \o Z
    BY <1>2, RemoveMiddle
  <2>2. (h \o <<n>>) \o Z = h \o (<<n>> \o Z)
    BY <1>2, MiddleFacts
  <2> QED
    BY <1>2, <2>1, <2>2
<1>8. Joined(r) = RemoveAt(ReplaceAt(lines, r, lines[r] \o lines[r + 1]), r + 1)
  BY DEF Joined
<1> QED
  BY <1>4, <1>5, <1>6, <1>7, <1>8

--------------------------------------------------------------------------------
(***************************************************************************)
(* The keys                                                                *)
(***************************************************************************)
\* The text around the cursor.
LEMMA CursorAround ==
    ASSUME TypeOK
    PROVE  \E A, Z \in Seq(Line), p, q \in Line :
               Around(lines, row, col, A, p, q, Z) /\ LineAround(A, p, q, Z)
<1>1. AreaOK(lines, row, col)
  BY DEF TypeOK, AreaOK, Text, Line
<1> QED
  BY <1>1, AroundExists, AroundLine

\* Enter and a character are both typed at the cursor.
LEMMA EnterTypes ==
    ASSUME TypeOK, Enter
    PROVE  Area!Type
<1>1. PICK A \in Seq(Line), Z \in Seq(Line), p \in Line, q \in Line :
          Around(lines, row, col, A, p, q, Z) /\ LineAround(A, p, q, Z)
  BY CursorAround
<1> DEFINE f == A \o <<p>>
<1>2. /\ SubSeq(lines[row], 1, col) = p
      /\ SubSeq(lines[row], col + 1, Len(lines[row])) = q
      /\ row = Len(A) + 1 /\ ReplaceAt(lines, row, p) = f \o Z
  BY <1>1 DEF LineAround
<1>3. f \in Seq(Line) /\ Len(f) = Len(A) + 1
  BY MiddleFacts
<1>4. lines' = InsertAt(f \o Z, row + 1, q) /\ row' = row + 1 /\ col' = 0
  BY <1>2 DEF Enter, Put
<1> HIDE DEF f
<1>5. InsertAt(f \o Z, Len(f) + 1, q) = (f \o <<q>>) \o Z
  BY <1>3, InsertBetween
<1>6. <<>> \in Line /\ <<>> \o q = q /\ Len(<<>>) = 0
  BY DEF Line
<1>7. Around(lines', row', col', f, <<>>, q, Z)
  BY <1>2, <1>3, <1>4, <1>5, <1>6 DEF Around
<1>8. At(lines, row, col, Behind(A, p), Ahead(q, Z))
  BY <1>1, AroundAt
<1>9. At(lines', row', col', Behind(f, <<>>), Ahead(q, Z))
  BY <1>7, AroundAt
<1>10. NL \in Sym /\ Behind(f, <<>>) = Behind(A, p) \o <<NL>>
  BY BehindFacts DEF Sym, f
<1> QED
  BY <1>8, <1>9, <1>10, TypeAt

LEMMA CharTypes ==
    ASSUME TypeOK, TypeChar
    PROVE  Area!Type
<1>1. PICK A \in Seq(Line), Z \in Seq(Line), p \in Line, q \in Line :
          Around(lines, row, col, A, p, q, Z) /\ LineAround(A, p, q, Z)
  BY CursorAround
<1>2. PICK e \in Char :
          Put(ReplaceAt(lines, row, InsertAt(lines[row], col + 1, e)), row, col + 1)
  BY DEF TypeChar
<1>3. /\ lines[row] = p \o q /\ col = Len(p) /\ row = Len(A) + 1
      /\ \A l \in Line : ReplaceAt(lines, row, l) = (A \o <<l>>) \o Z
  BY <1>1 DEF LineAround
<1> DEFINE k == p \o <<e>>
<1>4. InsertAt(p \o q, Len(p) + 1, e) = k \o q
  BY InsertBetween DEF Line
<1>5. k \in Line /\ Len(k) = Len(p) + 1
  BY MiddleFacts DEF Line
<1>6. k \o q \in Line
  BY <1>5, ConcatProperties DEF Line
<1> HIDE DEF k
<1>7. InsertAt(lines[row], col + 1, e) = k \o q
  BY <1>3, <1>4
<1>8. lines' = (A \o <<k \o q>>) \o Z /\ row' = row /\ col' = col + 1
  BY <1>2, <1>3, <1>6, <1>7 DEF Put
<1>9. Around(lines', row', col', A, k, q, Z)
  BY <1>3, <1>5, <1>8 DEF Around
<1>10. At(lines, row, col, Behind(A, p), Ahead(q, Z))
  BY <1>1, AroundAt
<1>11. At(lines', row', col', Behind(A, k), Ahead(q, Z))
  BY <1>9, AroundAt
<1>12. e \in Sym /\ Behind(A, k) = Behind(A, p) \o <<e>>
  BY BehindFacts DEF Sym, k
<1> QED
  BY <1>10, <1>11, <1>12, TypeAt

\* Backspace takes the symbol before the cursor, a line break at the start of a line.
LEMMA BackspaceTakes ==
    ASSUME TypeOK, Backspace, AreaOK(lines', row', col')
    PROVE  Area!Backspace \/ Area!Move
<1>1. PICK A \in Seq(Line), Z \in Seq(Line), p \in Line, q \in Line :
          Around(lines, row, col, A, p, q, Z) /\ LineAround(A, p, q, Z)
  BY CursorAround
<1>2. /\ lines = (A \o <<p \o q>>) \o Z
      /\ lines[row] = p \o q /\ col = Len(p) /\ row = Len(A) + 1
      /\ \A l \in Line : ReplaceAt(lines, row, l) = (A \o <<l>>) \o Z
  BY <1>1 DEF LineAround
<1>3. At(lines, row, col, Behind(A, p), Ahead(q, Z))
  BY <1>1, AroundAt
<1>4. CASE col > 0 /\ Put(ReplaceAt(lines, row, RemoveAt(lines[row], col)), row, col - 1)
  <2>1. PICK k \in Line, e \in Char : p = k \o <<e>>
    <3>1. p \in Seq(Char) /\ p # <<>>
      BY <1>2, <1>4 DEF Line
    <3>2. PICK k \in Seq(Char), e \in Char : p = Append(k, e)
      BY <3>1, SequenceEmptyOrAppend
    <3> QED
      BY <3>2, AppendIsConcat DEF Line
  <2>2. RemoveAt((k \o <<e>>) \o q, Len(k) + 1) = k \o q
    BY RemoveMiddle DEF Line
  <2>3. Len(p) = Len(k) + 1 /\ Len(k) \in Nat
    BY <2>1, MiddleFacts, LenProperties DEF Line
  <2>4. k \o q \in Line
    BY ConcatProperties DEF Line
  <2>5. RemoveAt(lines[row], col) = k \o q
    BY <1>2, <2>1, <2>2, <2>3
  <2>6. lines' = (A \o <<k \o q>>) \o Z /\ row' = row /\ col' = col - 1
    BY <1>2, <1>4, <2>4, <2>5 DEF Put
  <2>7. Around(lines', row', col', A, k, q, Z)
    BY <1>2, <2>3, <2>6 DEF Around
  <2>8. At(lines', row', col', Behind(A, k), Ahead(q, Z))
    BY <2>7, AroundAt
  <2>9. e \in Sym /\ Behind(A, p) = Behind(A, k) \o <<e>> /\ Behind(A, k) \in Seq(Sym)
    BY <2>1, BehindFacts DEF Sym
  <2> QED
    BY <1>3, <2>8, <2>9, BackspaceAt
<1>5. CASE col = 0 /\ row > 1 /\ Put(Joined(row - 1), row - 1, Len(lines[row - 1]))
  <2>1. PICK B \in Seq(Line), m \in Line : A = B \o <<m>>
    <3>1. A # <<>>
      BY <1>2, <1>5
    <3>2. PICK B \in Seq(Line), m \in Line : A = Append(B, m)
      BY <3>1, SequenceEmptyOrAppend
    <3> QED
      BY <3>2, AppendIsConcat
  <2>2. p = <<>> /\ p \o q = q
    <3>1. p \in Seq(Char) /\ q \in Seq(Char) /\ Len(p) = 0
      BY <1>2, <1>5 DEF Line
    <3>2. p = <<>>
      BY <3>1
    <3>3. <<>> \o q = q
      BY <3>1
    <3> QED
      BY <3>2, <3>3
  <2>3. Len(A) = Len(B) + 1 /\ Len(B) \in Nat
    BY <2>1, MiddleFacts, LenProperties
  <2>4. lines = ((B \o <<m>>) \o <<q>>) \o Z
    BY <1>2, <2>1, <2>2
  <2>5. Joined(Len(B) + 1) = (B \o <<m \o q>>) \o Z /\ lines[Len(B) + 1] = m
    BY <2>4, JoinedLines
  <2>6. row - 1 = Len(B) + 1
    BY <1>2, <2>3
  <2>7. lines' = (B \o <<m \o q>>) \o Z /\ row' = Len(B) + 1 /\ col' = Len(m)
    BY <1>5, <2>5, <2>6 DEF Put
  <2>8. Around(lines', row', col', B, m, q, Z)
    BY <2>7 DEF Around
  <2>9. At(lines', row', col', Behind(B, m), Ahead(q, Z))
    BY <2>8, AroundAt
  <2>10. Behind(A, p) = Behind(B, m) \o <<NL>> /\ NL \in Sym /\ Behind(B, m) \in Seq(Sym)
    BY <2>1, <2>2, BehindFacts DEF Sym
  <2> QED
    BY <1>3, <2>9, <2>10, BackspaceAt
<1>6. CASE col = 0 /\ row = 1 /\ Put(lines, row, col)
  <2>1. lines' = lines
    BY <1>6 DEF Put
  <2> QED
    BY <2>1, MoveAt
<1> QED
  BY <1>4, <1>5, <1>6 DEF Backspace

\* Delete takes the symbol behind it, a line break at the end of a line.
LEMMA DeleteTakes ==
    ASSUME TypeOK, Delete, AreaOK(lines', row', col')
    PROVE  Area!Delete \/ Area!Move
<1>1. PICK A \in Seq(Line), Z \in Seq(Line), p \in Line, q \in Line :
          Around(lines, row, col, A, p, q, Z) /\ LineAround(A, p, q, Z)
  BY CursorAround
<1>2. /\ lines = (A \o <<p \o q>>) \o Z
      /\ lines[row] = p \o q /\ col = Len(p) /\ row = Len(A) + 1
      /\ Len(lines[row]) = Len(p) + Len(q) /\ Len(p) \in Nat /\ Len(q) \in Nat
      /\ Len(lines) = Len(A) + 1 + Len(Z) /\ Len(A) \in Nat /\ Len(Z) \in Nat
      /\ \A l \in Line : ReplaceAt(lines, row, l) = (A \o <<l>>) \o Z
  BY <1>1 DEF LineAround
<1>3. At(lines, row, col, Behind(A, p), Ahead(q, Z))
  BY <1>1, AroundAt
<1>4. CASE /\ col < Len(lines[row])
           /\ Put(ReplaceAt(lines, row, RemoveAt(lines[row], col + 1)), row, col)
  <2>1. PICK e \in Char, k \in Line : q = <<e>> \o k
    <3>1. q \in Seq(Char) /\ q # <<>>
      BY <1>2, <1>4 DEF Line
    <3> QED
      BY <3>1, SplitHead DEF Line
  <2>2. RemoveAt((p \o <<e>>) \o k, Len(p) + 1) = p \o k
    BY RemoveMiddle DEF Line
  <2>3. (p \o <<e>>) \o k = p \o (<<e>> \o k)
    BY MiddleFacts DEF Line
  <2>4. p \o k \in Line
    BY ConcatProperties DEF Line
  <2>5. RemoveAt(lines[row], col + 1) = p \o k
    BY <1>2, <2>1, <2>2, <2>3
  <2>6. lines' = (A \o <<p \o k>>) \o Z /\ row' = row /\ col' = col
    BY <1>2, <1>4, <2>4, <2>5 DEF Put
  <2>7. Around(lines', row', col', A, p, k, Z)
    BY <1>2, <2>6 DEF Around
  <2>8. At(lines', row', col', Behind(A, p), Ahead(k, Z)) /\ Ahead(k, Z) \in Seq(Sym)
    BY <2>7, AroundAt, AheadTyped
  <2>9. e \in Sym /\ Ahead(q, Z) = <<e>> \o Ahead(k, Z)
    BY <2>1, AheadFacts DEF Sym
  <2> QED
    BY <1>3, <2>8, <2>9, DeleteAt
<1>5. CASE col = Len(lines[row]) /\ row < Len(lines) /\ Put(Joined(row), row, col)
  <2>1. PICK m \in Line, Y \in Seq(Line) : Z = <<m>> \o Y
    <3>1. Z # <<>>
      BY <1>2, <1>5
    <3> QED
      BY <3>1, SplitHead
  <2>2. q = <<>> /\ p \o q = p
    <3>1. p \in Seq(Char) /\ q \in Seq(Char) /\ Len(q) = 0
      BY <1>2, <1>5 DEF Line
    <3>2. q = <<>>
      BY <3>1
    <3>3. p \o <<>> = p
      BY <3>1
    <3> QED
      BY <3>2, <3>3
  <2>3. lines = ((A \o <<p>>) \o <<m>>) \o Y
    <3> DEFINE f == A \o <<p>>
    <3>1. f \in Seq(Line)
      BY MiddleFacts
    <3> HIDE DEF f
    <3>2. (f \o <<m>>) \o Y = f \o (<<m>> \o Y)
      BY <3>1, MiddleFacts
    <3> QED
      BY <1>2, <2>1, <2>2, <3>2 DEF f
  <2>4. Joined(Len(A) + 1) = (A \o <<p \o m>>) \o Y /\ lines[Len(A) + 1] = p
    BY <2>3, JoinedLines
  <2>5. lines' = (A \o <<p \o m>>) \o Y /\ row' = row /\ col' = col
    BY <1>2, <1>5, <2>4 DEF Put
  <2>6. Around(lines', row', col', A, p, m, Y)
    BY <1>2, <2>5 DEF Around
  <2>7. At(lines', row', col', Behind(A, p), Ahead(m, Y)) /\ Ahead(m, Y) \in Seq(Sym)
    BY <2>6, AroundAt, AheadTyped
  <2>8. Ahead(q, Z) = <<NL>> \o Ahead(m, Y) /\ NL \in Sym
    BY <2>1, <2>2, AheadFacts DEF Sym
  <2> QED
    BY <1>3, <2>7, <2>8, DeleteAt
<1>6. CASE col = Len(lines[row]) /\ row = Len(lines) /\ Put(lines, row, col)
  <2>1. lines' = lines
    BY <1>6 DEF Put
  <2> QED
    BY <2>1, MoveAt
<1> QED
  BY <1>4, <1>5, <1>6 DEF Delete

\* Nothing is left of a cleared text.
LEMMA ClearsArea ==
    ASSUME ClearArea
    PROVE  Area!Clear
<1> DEFINE l == <<>>
<1>1. l \in Line /\ l \o <<NL>> = <<NL>>
  BY DEF Line
<1>2. Broken(<<l>>) = <<NL>>
  <2>1. Broken(<<l>>) = l \o <<NL>>
    BY <1>1, BrokenLine
  <2> QED
    BY <1>1, <2>1
<1>3. Join(<<l>>) = <<>>
  <2>1. Front(<<NL>>) = <<>>
    BY DEF Front
  <2> QED
    BY <1>2, <2>1 DEF Join
<1>4. lines' = <<l>> /\ row' = 1 /\ col' = 0
  BY DEF ClearArea
<1>5. SubSeq(<<l>>, 1, 1 - 1) = <<>>
  OBVIOUS
<1>6. Offset' = 0
  <2>1. Broken(SubSeq(lines', 1, row' - 1)) = <<>>
    BY <1>4, <1>5, BrokenEmpty
  <2> QED
    BY <1>4, <2>1 DEF Offset
<1> QED
  BY <1>3, <1>4, <1>6 DEF Area!Clear

\* Every key of the area is one of the five operations.
LEMMA AreaKeyStep ==
    ASSUME TypeOK, TypeOK', AreaKey
    PROVE  Area!Next
<1>1. AreaOK(lines', row', col')
  BY DEF TypeOK, AreaOK, Text, Line
<1>2. CASE Vertical \/ Left \/ Right \/ HomeEnd
  <2>1. lines' = lines
    BY <1>2 DEF Vertical, Left, Right, HomeEnd, Put
  <2> QED
    BY <1>1, <2>1, MoveAt DEF Area!Next
<1>3. CASE Enter
  BY <1>3, EnterTypes DEF Area!Next
<1>4. CASE TypeChar
  BY <1>4, CharTypes DEF Area!Next
<1>5. CASE Backspace
  BY <1>1, <1>5, BackspaceTakes DEF Area!Next
<1>6. CASE Delete
  BY <1>1, <1>6, DeleteTakes DEF Area!Next
<1> QED
  BY <1>2, <1>3, <1>4, <1>5, <1>6 DEF AreaKey

\* A text is opened with the cursor behind it.
LEMMA AreaInit ==
    ASSUME Init
    PROVE  Area!Init
<1>1. TypeOK
  BY TextInit
<1>2. PICK A \in Seq(Line), Z \in Seq(Line), p \in Line, q \in Line :
          Around(lines, row, col, A, p, q, Z) /\ LineAround(A, p, q, Z)
  BY <1>1, CursorAround
<1>3. /\ Len(lines[row]) = Len(p) + Len(q) /\ Len(lines) = Len(A) + 1 + Len(Z)
      /\ row = Len(A) + 1 /\ col = Len(p)
      /\ Len(p) \in Nat /\ Len(q) \in Nat /\ Len(A) \in Nat /\ Len(Z) \in Nat
  BY <1>2 DEF LineAround
<1>4. q = <<>> /\ Z = <<>>
  <2>1. Len(q) = 0 /\ Len(Z) = 0
    BY <1>3 DEF Init
  <2> QED
    BY <2>1 DEF Line
<1>5. Ahead(q, Z) = <<>>
  <2>1. (<<>> \o <<NL>>) \o <<>> = <<NL>>
    OBVIOUS
  <2> QED
    BY <1>4, <2>1, BrokenEmpty DEF Ahead, Front
<1> DEFINE X == Behind(A, p)
<1>6. At(lines, row, col, X, Ahead(q, Z))
  BY <1>2, AroundAt
<1> HIDE DEF X
<1>7. X \in Seq(Sym) /\ Join(lines) = X \o <<>> /\ Offset = Len(X)
  BY <1>5, <1>6 DEF At, Offset, OffsetOf
<1>8. X \o <<>> = X
  BY <1>7
<1> QED
  BY <1>7, <1>8 DEF Area!Init, Sym

\* So is every step, or it leaves the area alone.
LEMMA AreaSteps ==
    ASSUME TypeOK, TypeOK', [Next]_vars
    PROVE  [Area!Next]_(Area!vars)
<1>1. CASE AreaKey
  BY <1>1, AreaKeyStep
<1>2. CASE ClearArea
  BY <1>2, ClearsArea DEF Area!Next
<1>3. CASE UNCHANGED area
  BY <1>3 DEF area, Area!vars, Join, Offset, Broken
<1> QED
  BY <1>1, <1>2, <1>3, FieldStep DEF Next, vars, area

\* The text area implements TextBuffer: for any characters, opening texts and
\* bounds, the list of lines with its row and column is one text with one
\* cursor (textarea.rs:48-134).
THEOREM AreaImplements == Spec => AreaIsBuffer
<1>1. Init => Area!Init
  BY AreaInit
<1>2. TypeOK /\ TypeOK' /\ [Next]_vars => [Area!Next]_(Area!vars)
  BY AreaSteps
<1> QED
  BY <1>1, <1>2, TextTypes, PTL DEF Spec, AreaIsBuffer, Area!Spec
================================================================================
