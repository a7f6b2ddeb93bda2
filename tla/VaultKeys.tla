------------------------------ MODULE VaultKeys ------------------------------
(***************************************************************************)
(* Who can unlock the vault and read its secrets (lib/src/members.rs,      *)
(* secrets.rs, unlock_document of crypto.rs, and the terminal UI's         *)
(* apply_set_state that calls them).                                       *)
(*                                                                         *)
(* One symmetric key, the DEK, encrypts every secret.  The document holds  *)
(* it wrapped for each active member, beside a MAC under it of the         *)
(* member's keys; a member without a wrapped key is pending.  A rotation   *)
(* makes a new DEK, encrypts all secrets again and wraps it for the active *)
(* members.  Each member edits a replica of the document of its own; the   *)
(* replicas are merged register by register.                               *)
(*                                                                         *)
(* A register is the wrapped key and MAC of one member, or the fields of   *)
(* one secret: the fields of a register are written next to each other, so *)
(* of two concurrent writes the same one wins all of them.  Which one wins *)
(* differs between registers, because a save writes them in the order of a *)
(* hash map.  Compaction, lost writes and the cache are left to VaultRepo. *)
(***************************************************************************)
EXTENDS Naturals, Sequences, FiniteSets

CONSTANTS
    Member,     \* member ids (a member who joins again gets a new one)
    Secret,     \* secret ids
    Founding,   \* members that are active to begin with
    Waiting,    \* members that may be pending to begin with, for anyone to activate
    Kept,       \* secrets that exist to begin with
    Luck,       \* sets of registers of which the last concurrent write may win
    MaxEvents   \* bound: saves in a behaviour

ASSUME KeysAssumption ==
    /\ Founding \subseteq Member /\ Founding # {}
    /\ Waiting \subseteq Member \ Founding
    /\ Kept \subseteq Secret
    /\ Member \cap Secret = {}    \* two maps of the document
    /\ Luck \subseteq SUBSET (Member \cup Secret)
    /\ MaxEvents \in Nat \ {0}    \* the vault has been saved once

VARIABLES
    log,    \* every save made so far, in order of time
    doc,    \* member -> the saves in its replica
    file,   \* member -> the saves in its file in the storage
    dek,    \* member -> the DEK of its open session, 0 before the first
    luck    \* the registers of which the last of concurrent writes wins

vars == <<log, doc, file, dek, luck>>

(***************************************************************************)
(* A save: what it had seen, the DEK it used (a DEK is named after the     *)
(* save that made it, 0 is none), who joined with whom allowed to activate *)
(* them, whose register it wrote, and which entries it removed.            *)
(***************************************************************************)
Save == [past : SUBSET (1 .. MaxEvents), key : 0 .. MaxEvents,
         joins : SUBSET Member, sponsors : SUBSET Member,
         writes : SUBSET (Member \cup Secret), drops : SUBSET (Member \cup Secret)]

TypeOK ==
    /\ log \in Seq(Save) /\ Len(log) <= MaxEvents
    /\ doc \in [Member -> SUBSET (DOMAIN log)]
    /\ file \in [Member -> SUBSET (DOMAIN log)]
    /\ dek \in [Member -> 0 .. Len(log)]
    /\ luck \in Luck

-----------------------------------------------------------------------------
(***************************************************************************)
(* What a document d, a set of saves, shows                                *)
(***************************************************************************)
Dropped(d) == UNION {log[i].drops : i \in d}
MembersOf(d) == (UNION {log[i].joins : i \in d}) \ Dropped(d)

Writers(d, r) == {i \in d : r \in log[i].writes}

\* Of the writes to a register no other write had seen, one wins.
Latest(d, r) ==
    LET open == {i \in Writers(d, r) : \A j \in Writers(d, r) : i \notin log[j].past}
    IN  CHOOSE i \in open : \A j \in open : IF r \in luck THEN j <= i ELSE i <= j

KeyOf(d, r) == log[Latest(d, r)].key

ActiveIn(d) == {x \in MembersOf(d) : Writers(d, x) # {}}
SecretsOf(d) == {s \in Secret \ Dropped(d) : Writers(d, s) # {}}

Joining(d, x) == {i \in d : x \in log[i].joins}

\* Who can activate x: the inviter whose key the invite MAC needs, or anyone.
Sponsors(d, x) == UNION {log[i].sponsors : i \in Joining(d, x)}

\* unlock_document: the own key is unwrapped and verifies the MAC of everyone.
Unlocks(d, x) == x \in ActiveIn(d) /\ \A y \in ActiveIn(d) : KeyOf(d, y) = KeyOf(d, x)

\* list_secrets, as derive_state calls it: one failure makes the list empty.
Listed(d, k) ==
    {s \in SecretsOf(d) : \A t \in SecretsOf(d) : KeyOf(d, t) = k}

-----------------------------------------------------------------------------
\* The saves made on a document d: m registers, for the members of by to
\* activate; the registers of w are written under the DEK k, those of gone removed.
\* A secret is one register: that a save writes only the fields that changed
\* (doc.rs:132-144), so that a save beside a rotation may leave the fields of one
\* secret under two DEKs, is left out.  That pair does not take turns.
Registered(d, m, by) ==
    [past |-> d, key |-> 0, joins |-> {m}, sponsors |-> by, writes |-> {}, drops |-> {}]
Written(d, k, w, gone) ==
    [past |-> d, key |-> k, joins |-> {}, sponsors |-> {}, writes |-> w, drops |-> gone]

\* A vault that the members it has have all synced.
Init ==
    /\ \E old \in {Founding, Founding \cup Waiting} :
        /\ log = << [past |-> {}, key |-> 1, joins |-> old, sponsors |-> Member,
                     writes |-> Founding \cup Kept, drops |-> {}] >>
        /\ doc = [m \in Member |-> IF m \in old THEN {1} ELSE {}]
    /\ file = doc
    /\ dek = [m \in Member |-> 0]
    /\ luck \in Luck

\* Make the save e on top of the document it was made for, and persist the result.
Commit(m, e) ==
    /\ Len(log) < MaxEvents
    /\ log' = Append(log, e)
    /\ doc' = [doc EXCEPT ![m] = e.past \cup {Len(log) + 1}]
    /\ file' = [file EXCEPT ![m] = e.past \cup {Len(log) + 1}]
    /\ UNCHANGED luck

\* A file counts when its owner is a member of the document in it.
Usable(n) == n \in MembersOf(file[n])

\* [s] in the UI, or the pull of envi ui: nothing is written, the session
\* keeps the DEK it was opened with.
Pull(m, n) ==
    /\ Usable(n) /\ doc[m] # {}
    /\ ~ file[n] \subseteq doc[m]
    /\ doc' = [doc EXCEPT ![m] = @ \cup file[n]]
    /\ UNCHANGED <<log, file, dek, luck>>

\* envi ui, also after leaving it: unlock the document that was pulled.
Open(m) ==
    /\ Unlocks(doc[m], m) /\ dek[m] # KeyOf(doc[m], m)
    /\ dek' = [dek EXCEPT ![m] = KeyOf(doc[m], m)]
    /\ UNCHANGED <<log, doc, file, luck>>

\* Mutant: the inviter is not looked up in the pulled document.
JoinWith_NoAnchor(m, d, x) ==
    Commit(m, Registered(d, m, {x}))

\* Join with an invite of x, who must be a member of the pulled document.
JoinWith(m, d, x) ==
    /\ x \in MembersOf(d)
    /\ Commit(m, Registered(d, m, {x}))

\* setup: pull some of the files, register as a pending member, with the
\* invite of a member who could open the UI, or with storage credentials.
Join(m) ==
    /\ doc[m] = {}
    /\ \E S \in SUBSET {n \in Member : Usable(n)} :
        LET d == UNION {file[n] : n \in S} IN
        /\ d # {}
        /\ \/ \E x \in Member : Writers(doc[x], x) # {} /\ JoinWith(m, d, x)
           \/ Commit(m, Registered(d, m, Member))
    /\ UNCHANGED dek

\* Saves of the UI drop the secrets of the document that are not listed.
Unlisted(m) == SecretsOf(doc[m]) \ Listed(doc[m], dek[m])

\* [g]: wrap the DEK of the session for a pending member.
GrantMember(m) ==
    /\ dek[m] # 0
    /\ \E x \in MembersOf(doc[m]) \ ActiveIn(doc[m]) :
        /\ m \in Sponsors(doc[m], x)
        /\ Commit(m, Written(doc[m], dek[m], {x}, Unlisted(m)))
    /\ UNCHANGED dek

\* The secret form: add a secret or edit one that is listed.
SaveSecret(m) ==
    /\ dek[m] # 0
    /\ \E s \in Listed(doc[m], dek[m]) \cup (Secret \ UNION {log[i].writes : i \in DOMAIN log}) :
        Commit(m, Written(doc[m], dek[m], {s}, Unlisted(m)))
    /\ UNCHANGED dek

\* Mutants of a rotation: secrets are not encrypted again, the removed member
\* is given the new DEK, a pending member ends the loop over the members.
Rewritten_MembersOnly(d, gone) == ActiveIn(d) \ gone
Rewritten_Removed(d, gone) == ActiveIn(d) \cup SecretsOf(d)
Rewritten_Break(d, gone) ==
    SecretsOf(d) \cup IF MembersOf(d) = ActiveIn(d) THEN ActiveIn(d) \ gone
                      ELSE {CHOOSE x \in ActiveIn(d) \ gone : TRUE}

\* The registers a rotation writes: of the active members who stay and of all
\* secrets; a pending member stays pending.
Rewritten(d, gone) == (ActiveIn(d) \ gone) \cup SecretsOf(d)

\* Mutant: the session is given a DEK of its own.
RotateWithout_TwoDeks(m, gone) ==
    /\ dek[m] # 0
    /\ Unlisted(m) = {}
    /\ Commit(m, Written(doc[m], Len(log) + 1, Rewritten(doc[m], gone), gone))
    /\ dek' = [dek EXCEPT ![m] = Len(log) + 2]

\* rotate_dek_in_state: a new DEK; fails when a secret cannot be decrypted.
RotateWithout(m, gone) ==
    /\ dek[m] # 0
    /\ Unlisted(m) = {}
    /\ Commit(m, Written(doc[m], Len(log) + 1, Rewritten(doc[m], gone), gone))
    /\ dek' = [dek EXCEPT ![m] = Len(log) + 1]

RotateDek(m) == RotateWithout(m, {})
RemoveMember(m) == \E x \in MembersOf(doc[m]) \ {m} : RotateWithout(m, {x})

Next == \E m \in Member :
    \/ \E n \in Member \ {m} : Pull(m, n)
    \/ Open(m) \/ Join(m)
    \/ GrantMember(m) \/ SaveSecret(m) \/ RotateDek(m) \/ RemoveMember(m)

Spec == Init /\ [][Next]_vars

-----------------------------------------------------------------------------
(***************************************************************************)
(* Properties                                                              *)
(***************************************************************************)
Rotations == {i \in DOMAIN log : log[i].key = i}

(***************************************************************************)
(* No save in E, and no rotation, was made beside a rotation: the rotation *)
(* had seen it, or it was made with the DEK of that rotation or a later    *)
(* one.  A session that pulled a rotation of someone else and goes on with *)
(* its old DEK is beside that rotation too.  The code neither prevents nor *)
(* detects this, so the properties below say what holds as long as members *)
(* keep to it.                                                             *)
(***************************************************************************)
InTurn(E) ==
    \A r \in Rotations : \A i \in E \cup Rotations :
        \/ i = r \/ i \in log[r].past
        \/ r \in log[i].past /\ r <= log[i].key

Grants == {i \in DOMAIN log : log[i].writes \cap Member # {}}
Edits == {i \in DOMAIN log : log[i].writes # {}}

\* Nobody is locked out: while grants and rotations take turns, every active
\* member of every replica can unlock it, whatever was pulled from whom and
\* which secrets were edited meanwhile.  unlock_document refuses the whole
\* vault when one MAC is under another DEK.
NobodyLockedOut ==
    InTurn(Grants) =>
        \A m \in Member : \A x \in ActiveIn(doc[m]) : Unlocks(doc[m], x)

\* While secrets are edited in turn as well, who unlocks a replica can list
\* all its secrets.
AllReadable ==
    InTurn(Edits) =>
        \A m \in Member : \A x \in ActiveIn(doc[m]) :
            Listed(doc[m], KeyOf(doc[m], x)) = SecretsOf(doc[m])

\* "Remove a member and rotate the DEK so they can no longer decrypt secrets":
\* no secret of a replica that has the removal is under a DEK that was ever
\* wrapped for the removed member.
RemovedCannotRead ==
    InTurn(Edits) =>
        \A m \in Member : \A x \in Dropped(doc[m]) \cap Member, s \in SecretsOf(doc[m]) :
            \A i \in Writers(DOMAIN log, x) : log[i].key # KeyOf(doc[m], s)

\* A rotation repairs: whatever concurrent saves had done to the registers,
\* right after it every active member unlocks the vault and reads everything.
RotationRepairs ==
    \A r \in Rotations :
        LET d == log[r].past \cup {r} IN
        /\ \A x \in ActiveIn(d) : Unlocks(d, x)
        /\ Listed(d, r) = SecretsOf(d)

\* A pending member always has someone in the document who can activate it,
\* unless that member was removed after, or beside, the join: an invite that
\* its maker can no longer honour is not taken.
PendingHasSponsor ==
    \A m \in Member : \A x \in MembersOf(doc[m]) \ ActiveIn(doc[m]) :
        LET d == doc[m]
            since == {i \in d : \A j \in Joining(d, x) : i \notin log[j].past}
        IN  Sponsors(d, x) \cap (MembersOf(d) \cup Dropped(since)) # {}
=============================================================================
