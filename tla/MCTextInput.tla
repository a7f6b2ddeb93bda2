------------------------------ MODULE MCTextInput ------------------------------
(* A small instance of TextInput: no text, and one that does not fit the area. *)
EXTENDS TextInput

CONSTANTS a, b

Texts == {<< <<>> >>, << <<a>>, <<>>, <<a>>, <<>> >>}
TwoTags == {<<a>>, <<b>>}
===============================================================================
