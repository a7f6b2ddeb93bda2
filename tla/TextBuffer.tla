------------------------------ MODULE TextBuffer ------------------------------
(***************************************************************************)
(* What a text input promises its user: one text with one cursor in it.    *)
(* Every key inserts a character at the cursor, removes one next to it,    *)
(* moves the cursor or clears the text; nothing else ever changes.         *)
(***************************************************************************)
EXTENDS Naturals, Sequences, SequencesExt

CONSTANT Symbol   \* what a text consists of

VARIABLES
    text,
    cursor   \* how many symbols are before the cursor

vars == <<text, cursor>>

Init == text \in Seq(Symbol) /\ cursor = Len(text)

Type == \E c \in Symbol :
    /\ text' = InsertAt(text, cursor + 1, c)
    /\ cursor' = cursor + 1

Backspace ==
    /\ cursor > 0
    /\ text' = RemoveAt(text, cursor)
    /\ cursor' = cursor - 1

Delete ==
    /\ cursor < Len(text)
    /\ text' = RemoveAt(text, cursor + 1)
    /\ UNCHANGED cursor

Move == cursor' \in 0 .. Len(text) /\ UNCHANGED text

Clear == text' = <<>> /\ cursor' = 0

Next == Type \/ Backspace \/ Delete \/ Move \/ Clear

Spec == Init /\ [][Next]_vars
===============================================================================
