------------------------------ MODULE MCTuiPages ------------------------------
(* A small instance of TuiPages: words 1 = "a", 2 = "ab", the tag "a, ab". *)
EXTENDS TuiPages

TwoSecrets == <<1, 2>>
ThreeTags == << <<1>>, <<1, 2>>, <<2>> >>
TwoMembers == <<1, 2>>
Starts(t, w) == w = 1 \/ t = <<w>>
Row(ts) == [text |-> "", tags |-> ts]
OneVault == {<<Row(<< <<1>> >>), Row(<< <<1, 2>> >>)>>}
Elsewhere == {Row(<< <<1>>, <<2>> >>)}
===============================================================================
