------------------------------- MODULE TextInput -------------------------------
(***************************************************************************)
(* The two inputs of the forms (cli/src/tui): the text area of a secret's  *)
(* value (components/textarea.rs), which keeps a list of lines, a cursor   *)
(* by row and column and a scroll position, and the single-line field of   *)
(* names, descriptions and tags (pages/secret_form.rs, pages/tag_form.rs). *)
(*                                                                         *)
(* The code indexes lines and characters without a check, so an index out  *)
(* of range is a panic with the terminal left in raw mode.  Rows count     *)
(* from 1 here, from 0 in the code; columns are the same.                  *)
(***************************************************************************)
EXTENDS Naturals, Sequences, SequencesExt

CONSTANTS
    Char,     \* characters that can be typed
    NL,       \* what Enter puts between two lines
    Comma, Space, \* characters that separate tags
    Tag,      \* tags the tags field may be completed with; no comma in them
    Opening,  \* the texts an input is opened with, as lists of lines
    Viewport, \* lines of the text area that are shown
    MaxText,  \* bound: characters and line breaks in the text area
    MaxField  \* bound: characters in the field

ASSUME TextAssumption ==
    /\ NL \notin Char /\ {Comma, Space} \subseteq Char
    /\ Tag \subseteq Seq(Char \ {Comma})
    /\ Opening \subseteq Seq(Seq(Char)) \ {<<>>}
    /\ Viewport \in Nat \ {0} /\ MaxText \in Nat /\ MaxField \in Nat

VARIABLES
    lines, row, col, scroll,   \* TextAreaComponent
    value, cursor,             \* values[i], cursors[i]; field_input, cursor
    input                      \* the input that takes the keys of this behaviour

area == <<lines, row, col, scroll>>
field == <<value, cursor>>
vars == <<lines, row, col, scroll, value, cursor, input>>

TypeOK ==
    /\ lines \in Seq(Seq(Char)) \ {<<>>}
    /\ row \in 1 .. Len(lines)
    /\ col \in 0 .. Len(lines[row])
    /\ scroll \in 0 .. Len(lines) - 1
    /\ value \in Seq(Char)
    /\ cursor \in 0 .. Len(value)
    /\ input \in {"area", "field"}

\* The text the lines stand for, and how much of it is before the cursor.
Broken(ls) == FlattenSeq([i \in DOMAIN ls |-> Append(ls[i], NL)])
Join(ls) == Front(Broken(ls))
Offset == Len(Broken(SubSeq(lines, 1, row - 1))) + col

-----------------------------------------------------------------------------
(***************************************************************************)
(* The text area                                                           *)
(***************************************************************************)
\* Mutant: the last visible line is one too low.
Scrolled_Late(r) ==
    IF r <= scroll THEN r - 1 ELSE IF r > scroll + Viewport + 1 THEN r - Viewport ELSE scroll

\* update_scroll
Scrolled(r) ==
    IF r <= scroll THEN r - 1 ELSE IF r > scroll + Viewport THEN r - Viewport ELSE scroll

Put(ls, r, c) ==
    /\ lines' = ls
    /\ row' = r
    /\ col' = c
    /\ scroll' = Scrolled(r)
    /\ UNCHANGED field

Clamp(c, r) == IF c < Len(lines[r]) THEN c ELSE Len(lines[r])

\* Mutant: the column is kept, however short the line is.
Vertical_Unclamped == \E r \in {row - 1, row + 1} \cap DOMAIN lines : Put(lines, r, col)

\* On the first and last row these keys leave the area; the form ignores that.
Vertical == \E r \in {row - 1, row + 1} \cap DOMAIN lines : Put(lines, r, Clamp(col, r))

Left ==
    \/ col > 0 /\ Put(lines, row, col - 1)
    \/ col = 0 /\ row > 1 /\ Put(lines, row - 1, Len(lines[row - 1]))
    \/ col = 0 /\ row = 1 /\ Put(lines, row, col)

Right ==
    \/ col < Len(lines[row]) /\ Put(lines, row, col + 1)
    \/ col = Len(lines[row]) /\ row < Len(lines) /\ Put(lines, row + 1, 0)
    \/ col = Len(lines[row]) /\ row = Len(lines) /\ Put(lines, row, col)

HomeEnd == \E c \in {0, Len(lines[row])} : Put(lines, row, c)

Enter ==
    /\ Len(Join(lines)) < MaxText
    /\ Put(InsertAt(ReplaceAt(lines, row, SubSeq(lines[row], 1, col)), row + 1,
                    SubSeq(lines[row], col + 1, Len(lines[row]))),
           row + 1, 0)

TypeChar == \E c \in Char :
    /\ Len(Join(lines)) < MaxText
    /\ Put(ReplaceAt(lines, row, InsertAt(lines[row], col + 1, c)), row, col + 1)

\* Line r and the next become one.
Joined(r) == RemoveAt(ReplaceAt(lines, r, lines[r] \o lines[r + 1]), r + 1)

\* Mutant: the cursor goes to the end of the joined line.
Backspace_End ==
    \/ col > 0 /\ Put(ReplaceAt(lines, row, RemoveAt(lines[row], col)), row, col - 1)
    \/ /\ col = 0 /\ row > 1
       /\ Put(Joined(row - 1), row - 1, Len(lines[row - 1]) + Len(lines[row]))
    \/ col = 0 /\ row = 1 /\ Put(lines, row, col)

Backspace ==
    \/ col > 0 /\ Put(ReplaceAt(lines, row, RemoveAt(lines[row], col)), row, col - 1)
    \/ col = 0 /\ row > 1 /\ Put(Joined(row - 1), row - 1, Len(lines[row - 1]))
    \/ col = 0 /\ row = 1 /\ Put(lines, row, col)

Delete ==
    \/ /\ col < Len(lines[row])
       /\ Put(ReplaceAt(lines, row, RemoveAt(lines[row], col + 1)), row, col)
    \/ col = Len(lines[row]) /\ row < Len(lines) /\ Put(Joined(row), row, col)
    \/ col = Len(lines[row]) /\ row = Len(lines) /\ Put(lines, row, col)

\* [d] on the form: set_value("")
ClearArea ==
    /\ lines' = << <<>> >>
    /\ row' = 1
    /\ col' = 0
    /\ scroll' = 0
    /\ UNCHANGED field

-----------------------------------------------------------------------------
(***************************************************************************)
(* The single-line field                                                   *)
(***************************************************************************)
Edit(v, c) == value' = v /\ cursor' = c /\ UNCHANGED area

FieldMove == \E c \in {0, cursor - 1, cursor + 1, Len(value)} \cap 0 .. Len(value) :
    Edit(value, c)

FieldChar == \E c \in Char :
    Len(value) < MaxField /\ Edit(InsertAt(value, cursor + 1, c), cursor + 1)

FieldBackspace == cursor > 0 /\ Edit(RemoveAt(value, cursor), cursor - 1)

FieldDelete == cursor < Len(value) /\ Edit(RemoveAt(value, cursor + 1), cursor)

ClearField == Edit(<<>>, 0)

IsLast(n, S) == n \in S \cup {0} /\ \A i \in S : i <= n
Commas(v) == {i \in DOMAIN v : v[i] = Comma}
Solid(v, i, j) == {n \in i .. j : v[n] # Space}

\* split_tags: what is between two commas or ends, trimmed, if anything is left.
SplitTags(v) ==
    LET words == {w \in ({0} \cup Commas(v)) \X (Commas(v) \cup {Len(v) + 1}) :
                      Commas(v) \cap (w[1] + 1) .. (w[2] - 1) = {} /\ w[1] < w[2]
                      /\ Solid(v, w[1] + 1, w[2] - 1) # {}}
    IN  {SubSeq(v, Min(Solid(v, w[1] + 1, w[2] - 1)), Max(Solid(v, w[1] + 1, w[2] - 1))) :
            w \in words}

\* The text up to end, and a tag behind it.
Completed(end, t) ==
    SubSeq(value, 1, end) \o (IF end = 0 THEN <<>> ELSE <<Comma, Space>>)
        \o t \o <<Comma, Space>>

\* Mutant: the tag takes the place of the word at the cursor and what is behind it.
InsertTag_AtCursor == \E t \in Tag, comma, end \in 0 .. Len(value) :
    /\ IsLast(comma, Commas(value) \cap 1 .. cursor)
    /\ IsLast(end, Solid(value, 1, comma - 1))
    /\ t \notin SplitTags(value) /\ Len(Completed(end, t)) <= MaxField
    /\ Edit(Completed(end, t), Len(Completed(end, t)))

\* insert_ac_tag, [Enter] on a completion of the tags field: what is behind the
\* last comma makes room for a tag that is not there yet, wherever the cursor is.
InsertTag == \E t \in Tag, comma, end \in 0 .. Len(value) :
    /\ IsLast(comma, Commas(value)) /\ IsLast(end, Solid(value, 1, comma - 1))
    /\ t \notin SplitTags(value) /\ Len(Completed(end, t)) <= MaxField
    /\ Edit(Completed(end, t), Len(Completed(end, t)))

-----------------------------------------------------------------------------
\* new_edit: set_value of the stored value, and cursors behind the texts.
Init ==
    /\ lines \in Opening
    /\ row = Len(lines)
    /\ col = Len(lines[row])
    /\ scroll = 0
    /\ value \in {ls[1] : ls \in Opening}
    /\ cursor = Len(value)
    /\ input \in {"area", "field"}

AreaKey == Vertical \/ Left \/ Right \/ HomeEnd \/ Enter \/ TypeChar \/ Backspace \/ Delete
FieldKey == FieldMove \/ FieldChar \/ FieldBackspace \/ FieldDelete \/ InsertTag

\* The two share no state, so that each behaviour can be of one of them.
Next ==
    /\ UNCHANGED input
    /\ \/ input = "area" /\ (AreaKey \/ ClearArea)
       \/ input = "field" /\ (FieldKey \/ ClearField)

Spec == Init /\ [][Next]_vars

-----------------------------------------------------------------------------
(***************************************************************************)
(* Properties                                                              *)
(***************************************************************************)
Area == INSTANCE TextBuffer WITH Symbol <- Char \cup {NL}, text <- Join(lines), cursor <- Offset

\* The list of lines with its row and column behaves as one text with one
\* cursor: splitting, joining, wrapping around line ends and clamping columns
\* (textarea.rs:48-134) never lose, double or move a character.
AreaIsBuffer == Area!Spec

\* A completion rewrites the text by its last comma, whatever the cursor is at:
\* as split_tags will read the text (secret_form.rs:643), the tags in front of
\* that comma stay, only what was being typed goes, and one tag is new.
CompletionKeepsTags == [][InsertTag => \A comma \in 0 .. Len(value) :
    IsLast(comma, Commas(value)) => \E t \in Tag :
        SplitTags(value') = SplitTags(SubSeq(value, 1, comma)) \cup {t}]_vars

CursorShown == scroll < row /\ row <= scroll + Viewport

\* A key that changes the text or moves the cursor leaves the cursor among the
\* lines that are shown (update_scroll and the box height of the form agree).
\* Nothing is claimed of a key that changes neither, as [Up] on the first row,
\* which returns early: a text is opened with the cursor behind its last line and
\* scroll 0, and may stay out of sight until the first key that does.  Viewport
\* is the height the code scrolls by, 4 whatever the terminal has room for.
CursorVisible == [][<<lines, row, col>>' # <<lines, row, col>> => CursorShown']_vars
===============================================================================
