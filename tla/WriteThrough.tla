---------------------------- MODULE WriteThrough ----------------------------
(***************************************************************************)
(* What persisting promises, with nothing of how documents are made.       *)
(*                                                                         *)
(* Each member has a saved file, its cache, and a published file that      *)
(* others read.  A file is saved first; writes of saved files are then     *)
(* under way and reach the published file in any order, or never.  The     *)
(* saved file only moves ahead, unless the member is out: it is no longer  *)
(* named in its file, or two of its own writes came in the wrong order.    *)
(***************************************************************************)
CONSTANTS
    Member,
    Empty,          \* no file
    Ahead(_, _)     \* the second file has all of the first

VARIABLES saved, published, underway, out

vars == <<saved, published, underway, out>>

Init ==
    /\ saved = [m \in Member |-> Empty]
    /\ published = [m \in Member |-> Empty]
    /\ underway = {}
    /\ out = {}

Save(m) ==
    /\ saved' = [saved EXCEPT ![m] = saved'[m]]
    /\ m \notin out' => Ahead(saved[m], saved'[m])
    /\ underway' = underway \cup {[to |-> m, file |-> saved'[m]]}
    /\ out' \in {out, out \cup {m}}
    /\ UNCHANGED published

\* The same write may be under way twice.
Arrive == \E w \in underway :
    /\ published' = [published EXCEPT ![w.to] = w.file]
    /\ underway' \in {underway, underway \ {w}}
    /\ UNCHANGED <<saved, out>>

GiveUp ==
    /\ underway' \subseteq underway
    /\ UNCHANGED <<saved, published, out>>

Next == Arrive \/ GiveUp \/ \E m \in Member : Save(m)

Spec == Init /\ [][Next]_vars
=============================================================================
