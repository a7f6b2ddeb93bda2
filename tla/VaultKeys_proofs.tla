--------------------------- MODULE VaultKeys_proofs ---------------------------
(***************************************************************************)
(* While grants and rotations take turns nobody is locked out and a        *)
(* removed member reads nothing that was written later; a rotation repairs *)
(* whatever came before; a pending member has a sponsor.  For any members, *)
(* secrets, saves and choices between concurrent writes.                   *)
(*                                                                         *)
(* What makes this true is a fact about the log alone: each save was made  *)
(* on a document that is closed under what its saves had seen, with a key  *)
(* that a rotation in that document made, for members who were in it.      *)
(***************************************************************************)
EXTENDS VaultKeys, WellFoundedInduction, TLAPS

\* What the saves in d of the log l joined, dropped and wrote.
Joined(l, d) == UNION {l[i].joins : i \in d}
Drops(l, d) == UNION {l[i].drops : i \in d}
Wrote(l, d) == UNION {l[i].writes : i \in d}

Present(l, d) == Joined(l, d) \ Drops(l, d)

\* With a save, everything it had seen is there, the first save included.
ClosedIn(l, d) ==
    /\ d \subseteq DOMAIN l
    /\ d # {} => 1 \in d
    /\ \A i \in d : l[i].past \subseteq d

IsRotation(l, i) == l[i].key = i

\* What a rotation on p that drops the members gone must write.
MustWrite(l, p, gone) ==
    ((Wrote(l, p) \cap Present(l, p)) \ gone) \cup ((Wrote(l, p) \cap Secret) \ Drops(l, p))

\* The save i of the log l was made on a closed document, for what was in it.
GoodSave(l, i) ==
    LET e == l[i] IN
    /\ e.past \subseteq 1 .. i - 1 /\ ClosedIn(l, e.past)
    /\ IF i = 1 THEN IsRotation(l, i) ELSE e.past # {}
    /\ e.writes # {} => e.key \in e.past \cup {i} /\ IsRotation(l, e.key)
    /\ \A x \in e.writes \cap Member :
          x \in Joined(l, e.past) \cup e.joins /\ x \notin Drops(l, e.past)
    /\ e.drops \cap Member # {} => IsRotation(l, i)
    /\ IsRotation(l, i) => /\ e.drops \cap e.writes = {}
                           /\ MustWrite(l, e.past, e.drops) \subseteq e.writes
                           /\ i # 1 => e.joins = {}
    /\ e.joins # {} => \/ e.sponsors = Member
                       \/ \E y \in Present(l, e.past) : e.sponsors = {y}

GoodLog(l) == \A i \in DOMAIN l : GoodSave(l, i)

\* Replicas and files are closed, sessions have the key of a rotation that is
\* in their replica, and a member joins once.
ReplicaInv ==
    \A m \in Member :
        /\ ClosedIn(log, doc[m]) /\ ClosedIn(log, file[m])
        /\ dek[m] # 0 => dek[m] \in doc[m] /\ IsRotation(log, dek[m])

JoinInv ==
    \A i \in DOMAIN log : \A x \in log[i].joins :
        /\ doc[x] # {}
        /\ \A j \in DOMAIN log : x \in log[j].joins => i = j

KeysInv == TypeOK /\ GoodLog(log) /\ ReplicaInv /\ JoinInv

-----------------------------------------------------------------------------
(***************************************************************************)
(* Which write wins                                                        *)
(***************************************************************************)

\* A set of naturals that is not empty has a least element.
LEMMA LeastIndex ==
    ASSUME NEW T \in SUBSET Nat, T # {}
    PROVE  \E x \in T : \A y \in T : x <= y
<1>1. \E x \in T : \A y \in T : ~ (<<y, x>> \in OpToRel(<, Nat))
  BY NatLessThanWellFounded, WFMin, Zenon
<1>2. ASSUME NEW x \in T, NEW y \in T, ~ (<<y, x>> \in OpToRel(<, Nat))
      PROVE  x <= y
  <2>1. x \in Nat /\ y \in Nat
    OBVIOUS
  <2>2. ~ (y < x)
    BY <1>2, <2>1 DEF OpToRel
  <2> QED
    BY <2>1, <2>2
<1> QED
  BY <1>1, <1>2

\* A set of indexes of a log that is not empty has a greatest element.
LEMMA GreatestIndex ==
    ASSUME NEW n \in Nat, NEW T \in SUBSET (1 .. n), T # {}
    PROVE  \E x \in T : \A y \in T : y <= x
<1> DEFINE U == {k \in 0 .. n : n - k \in T}
<1>1. U \in SUBSET Nat
  OBVIOUS
<1>2. PICK t \in T : TRUE
  OBVIOUS
<1>3. n - t \in U
  <2>1. t \in 1 .. n
    OBVIOUS
  <2>2. n - t \in 0 .. n /\ n - (n - t) = t
    BY <2>1
  <2> QED
    BY <2>2
<1>4. PICK u \in U : \A v \in U : u <= v
  <2> HIDE DEF U
  <2> QED
    BY <1>1, <1>3, LeastIndex
<1>5. n - u \in T
  OBVIOUS
<1>6. ASSUME NEW y \in T
      PROVE  y <= n - u
  <2>1. y \in 1 .. n
    OBVIOUS
  <2>2. n - y \in 0 .. n /\ n - (n - y) = y
    BY <2>1
  <2>3. n - y \in U
    BY <2>2
  <2>4. u <= n - y /\ u \in 0 .. n
    BY <1>4, <2>3
  <2> QED
    BY <2>1, <2>4
<1> QED
  BY <1>5, <1>6

\* Of the writes of a register in a document one is Latest, and no other write
\* in the document had seen it.
LEMMA LatestFacts ==
    ASSUME TypeOK, GoodLog(log), NEW d \in SUBSET DOMAIN log, NEW r, Writers(d, r) # {}
    PROVE  /\ Latest(d, r) \in d
           /\ r \in log[Latest(d, r)].writes
           /\ \A j \in d : r \in log[j].writes => Latest(d, r) \notin log[j].past
<1> DEFINE W == Writers(d, r)
           open == {i \in W : \A j \in W : i \notin log[j].past}
<1>1. Len(log) \in Nat /\ DOMAIN log = 1 .. Len(log)
  BY DEF TypeOK
<1>2. W \in SUBSET (1 .. Len(log)) /\ W # {}
  BY <1>1 DEF Writers
<1>3. open # {}
  <2>1. PICK x \in W : \A y \in W : y <= x
    <3> HIDE DEF W
    <3> QED
      BY <1>1, <1>2, GreatestIndex
  <2>2. ASSUME NEW j \in W
        PROVE  x \notin log[j].past
    <3>1. log[j].past \subseteq 1 .. j - 1
      BY <1>1, <1>2 DEF GoodLog, GoodSave
    <3>2. x <= Len(log) /\ x \in Nat /\ j \in Nat /\ j <= x
      BY <1>1, <1>2, <2>1
    <3> QED
      BY <3>1, <3>2
  <2> QED
    BY <2>1, <2>2
<1>4. open \in SUBSET (1 .. Len(log)) /\ open \in SUBSET Nat
  BY <1>1, <1>2
<1>5. \E i \in open : \A j \in open : IF r \in luck THEN j <= i ELSE i <= j
  <2> HIDE DEF open
  <2>1. CASE r \in luck
    BY <1>1, <1>3, <1>4, <2>1, GreatestIndex
  <2>2. CASE r \notin luck
    BY <1>3, <1>4, <2>2, LeastIndex
  <2> QED
    BY <2>1, <2>2
<1>6. Latest(d, r) = CHOOSE i \in open : \A j \in open : IF r \in luck THEN j <= i ELSE i <= j
  BY DEF Latest
<1>7. Latest(d, r) \in open
  <2> HIDE DEF open
  <2> QED
    BY <1>5, <1>6
<1> QED
  BY <1>7 DEF Writers

-----------------------------------------------------------------------------
(***************************************************************************)
(* What a closed document shows                                            *)
(***************************************************************************)
LEMMA Shown ==
    ASSUME NEW d
    PROVE  /\ Dropped(d) = Drops(log, d)
           /\ MembersOf(d) = Present(log, d)
           /\ \A x : Writers(d, x) # {} <=> x \in Wrote(log, d)
           /\ ActiveIn(d) = Present(log, d) \cap Wrote(log, d)
           /\ SecretsOf(d) = (Secret \ Drops(log, d)) \cap Wrote(log, d)
<1>1. Dropped(d) = Drops(log, d)
  BY DEF Dropped, Drops
<1>2. MembersOf(d) = Present(log, d)
  BY <1>1 DEF MembersOf, Present, Joined
<1>3. \A x : Writers(d, x) # {} <=> x \in Wrote(log, d)
  BY DEF Writers, Wrote
<1> QED
  BY <1>1, <1>2, <1>3 DEF ActiveIn, SecretsOf

\* Members are in the document, so a register shown is a member's or a secret's.
LEMMA PresentMembers ==
    ASSUME TypeOK, NEW d \in SUBSET DOMAIN log
    PROVE  Present(log, d) \subseteq Member
<1>1. \A i \in d : log[i] \in Save
  BY DEF TypeOK
<1>2. \A i \in d : log[i].joins \subseteq Member
  BY <1>1 DEF Save
<1> QED
  BY <1>2 DEF Present, Joined

\* Who or what is shown was so before, if it had been written there.
LEMMA ShownBefore ==
    ASSUME TypeOK, GoodLog(log), NEW d \in SUBSET DOMAIN log, ClosedIn(log, d),
           NEW r \in d, NEW i \in log[r].past,
           NEW x \in ActiveIn(d) \cup SecretsOf(d), x \in log[i].writes
    PROVE  x \in (Wrote(log, log[r].past) \cap Present(log, log[r].past))
                   \cup ((Wrote(log, log[r].past) \cap Secret) \ Drops(log, log[r].past))
<1> DEFINE p == log[r].past
<1>1. p \subseteq d /\ ClosedIn(log, p) /\ p \subseteq DOMAIN log
  BY DEF ClosedIn, GoodLog, GoodSave
<1>2. x \in Wrote(log, p)
  BY DEF Wrote
<1>3. x \notin Drops(log, p)
  <2>1. x \notin Drops(log, d)
    BY Shown DEF Present
  <2> QED
    BY <1>1, <2>1 DEF Drops
<1>4. CASE x \in Secret
  BY <1>2, <1>3, <1>4
<1>5. CASE x \notin Secret
  <2>1. x \in Member
    BY <1>5, Shown, PresentMembers
  <2>2. x \in Joined(log, log[i].past) \cup log[i].joins
    BY <1>1, <2>1 DEF GoodLog, GoodSave
  <2>3. log[i].past \subseteq p
    BY <1>1 DEF ClosedIn
  <2>4. x \in Joined(log, p)
    BY <2>2, <2>3 DEF Joined
  <2> QED
    BY <1>2, <1>3, <2>4 DEF Present
<1> QED
  BY <1>4, <1>5

\* The winning write is not one that a rotation in the document had seen.
LEMMA RotationCovers ==
    ASSUME TypeOK, GoodLog(log), NEW d \in SUBSET DOMAIN log, ClosedIn(log, d),
           NEW r \in d, IsRotation(log, r),
           NEW x \in ActiveIn(d) \cup SecretsOf(d)
    PROVE  Latest(d, x) \notin log[r].past
<1> SUFFICES ASSUME Latest(d, x) \in log[r].past
             PROVE  FALSE
  OBVIOUS
<1>1. Writers(d, x) # {}
  BY Shown
<1>2. /\ Latest(d, x) \in d
      /\ x \in log[Latest(d, x)].writes
      /\ \A j \in d : x \in log[j].writes => Latest(d, x) \notin log[j].past
  BY <1>1, LatestFacts
<1>3. x \in (Wrote(log, log[r].past) \cap Present(log, log[r].past))
                   \cup ((Wrote(log, log[r].past) \cap Secret) \ Drops(log, log[r].past))
  BY <1>2, ShownBefore
<1>4. x \notin log[r].drops
  BY Shown DEF Present, Drops
<1>5. x \in MustWrite(log, log[r].past, log[r].drops)
  BY <1>3, <1>4 DEF MustWrite
<1>6. x \in log[r].writes
  BY <1>5 DEF GoodLog, GoodSave
<1> QED
  BY <1>2, <1>6

\* The key of a register that is shown is the one of a rotation in the document.
LEMMA KeyFacts ==
    ASSUME TypeOK, GoodLog(log), NEW d \in SUBSET DOMAIN log, ClosedIn(log, d),
           NEW x, Writers(d, x) # {}
    PROVE  KeyOf(d, x) \in d /\ IsRotation(log, KeyOf(d, x)) /\ KeyOf(d, x) <= Latest(d, x)
<1> DEFINE i == Latest(d, x)
<1>1. i \in d /\ x \in log[i].writes
  BY LatestFacts
<1>2. i \in DOMAIN log /\ i \in Nat
  BY <1>1 DEF TypeOK
<1>3. log[i].key \in log[i].past \cup {i} /\ IsRotation(log, log[i].key)
  BY <1>1, <1>2 DEF GoodLog, GoodSave
<1>4. log[i].past \subseteq d /\ log[i].past \subseteq 1 .. i - 1
  BY <1>1, <1>2 DEF ClosedIn, GoodLog, GoodSave
<1> QED
  BY <1>1, <1>2, <1>3, <1>4 DEF KeyOf

\* While the saves of E take turns with rotations, what is shown of them is
\* under the DEK of the last rotation in the document.
LEMMA LastRotation ==
    ASSUME TypeOK, GoodLog(log), NEW E \in SUBSET DOMAIN log, InTurn(E),
           NEW d \in SUBSET DOMAIN log, ClosedIn(log, d), d # {}
    PROVE  \E r \in d : /\ IsRotation(log, r)
                        /\ \A j \in d : IsRotation(log, j) => j <= r
                        /\ \A x \in ActiveIn(d) \cup SecretsOf(d) :
                              Latest(d, x) \in E => KeyOf(d, x) = r
<1> DEFINE R == {j \in d : IsRotation(log, j)}
<1>1. Len(log) \in Nat /\ DOMAIN log = 1 .. Len(log)
  BY DEF TypeOK
<1>2. R \in SUBSET (1 .. Len(log)) /\ R # {}
  BY <1>1 DEF ClosedIn, GoodLog, GoodSave
<1>3. PICK r \in R : \A j \in R : j <= r
  <2> HIDE DEF R
  <2> QED
    BY <1>1, <1>2, GreatestIndex
<1>4. ASSUME NEW x \in ActiveIn(d) \cup SecretsOf(d), Latest(d, x) \in E
      PROVE  KeyOf(d, x) = r
  <2> DEFINE i == Latest(d, x)
  <2>1. Writers(d, x) # {}
    BY Shown
  <2>2. KeyOf(d, x) \in R
    BY <2>1, KeyFacts
  <2>3. i \notin log[r].past
    BY RotationCovers
  <2>4. r \in Rotations
    BY DEF Rotations, IsRotation
  <2>5. i = r \/ (r \in log[i].past /\ r <= log[i].key)
    BY <1>4, <2>3, <2>4 DEF InTurn
  <2>6. r <= KeyOf(d, x)
    BY <1>1, <1>2, <2>5 DEF KeyOf, IsRotation
  <2>7. KeyOf(d, x) <= r
    BY <1>3, <2>2
  <2> QED
    BY <1>1, <1>2, <2>2, <2>6, <2>7
<1> QED
  BY <1>3, <1>4

-----------------------------------------------------------------------------
(***************************************************************************)
(* The invariant implies the properties                                    *)
(***************************************************************************)
LEMMA NobodyIsLockedOut == KeysInv => NobodyLockedOut
<1> SUFFICES ASSUME KeysInv, InTurn(Grants), NEW m \in Member, NEW x \in ActiveIn(doc[m])
             PROVE  Unlocks(doc[m], x)
  BY DEF NobodyLockedOut
<1> DEFINE d == doc[m]
<1>1. TypeOK /\ GoodLog(log) /\ d \in SUBSET DOMAIN log /\ ClosedIn(log, d)
  BY DEF KeysInv, ReplicaInv, ClosedIn
<1> HIDE DEF d
<1>2. d # {}
  BY DEF d, ActiveIn, Writers
<1>3. PICK r \in d : \A y \in ActiveIn(d) \cup SecretsOf(d) :
                        Latest(d, y) \in Grants => KeyOf(d, y) = r
  <2>1. Grants \in SUBSET DOMAIN log
    BY DEF Grants
  <2> QED
    BY <1>1, <1>2, <2>1, LastRotation
<1>4. ASSUME NEW y \in ActiveIn(d)
      PROVE  KeyOf(d, y) = r
  <2>1. y \in Member
    BY <1>1, Shown, PresentMembers
  <2>2. Writers(d, y) # {}
    BY DEF ActiveIn
  <2>3. Latest(d, y) \in d /\ y \in log[Latest(d, y)].writes
    BY <1>1, <2>2, LatestFacts
  <2>4. Latest(d, y) \in Grants
    BY <1>1, <2>1, <2>3 DEF Grants
  <2> QED
    BY <1>3, <2>4
<1> QED
  BY <1>4 DEF d, Unlocks

LEMMA AllAreReadable == KeysInv => AllReadable
<1> SUFFICES ASSUME KeysInv, InTurn(Edits), NEW m \in Member, NEW x \in ActiveIn(doc[m])
             PROVE  Listed(doc[m], KeyOf(doc[m], x)) = SecretsOf(doc[m])
  BY DEF AllReadable
<1> DEFINE d == doc[m]
<1>1. TypeOK /\ GoodLog(log) /\ d \in SUBSET DOMAIN log /\ ClosedIn(log, d)
  BY DEF KeysInv, ReplicaInv, ClosedIn
<1> HIDE DEF d
<1>2. d # {}
  BY DEF d, ActiveIn, Writers
<1>3. PICK r \in d : \A y \in ActiveIn(d) \cup SecretsOf(d) :
                        Latest(d, y) \in Edits => KeyOf(d, y) = r
  <2>1. Edits \in SUBSET DOMAIN log
    BY DEF Edits
  <2> QED
    BY <1>1, <1>2, <2>1, LastRotation
<1>4. ASSUME NEW y \in ActiveIn(d) \cup SecretsOf(d)
      PROVE  KeyOf(d, y) = r
  <2>1. Writers(d, y) # {}
    BY DEF ActiveIn, SecretsOf
  <2>2. Latest(d, y) \in d /\ y \in log[Latest(d, y)].writes
    BY <1>1, <2>1, LatestFacts
  <2>3. Latest(d, y) \in Edits
    BY <1>1, <2>2 DEF Edits
  <2> QED
    BY <1>3, <2>3
<1> QED
  BY <1>4 DEF d, Listed

\* The removal is a rotation; a write for the member came before it, under an
\* older DEK, or was made without it, which turns exclude.
LEMMA RemovedMemberCannotRead == KeysInv => RemovedCannotRead
<1> SUFFICES ASSUME KeysInv, InTurn(Edits), NEW m \in Member,
                    NEW x \in Dropped(doc[m]) \cap Member, NEW s \in SecretsOf(doc[m]),
                    NEW i \in Writers(DOMAIN log, x)
             PROVE  log[i].key # KeyOf(doc[m], s)
  BY DEF RemovedCannotRead
<1> DEFINE d == doc[m]
<1>1. TypeOK /\ GoodLog(log) /\ d \in SUBSET DOMAIN log /\ ClosedIn(log, d)
  BY DEF KeysInv, ReplicaInv, ClosedIn
<1>i. i \in DOMAIN log /\ x \in log[i].writes /\ x \in Member
  BY DEF Writers
<1>d. DOMAIN log \subseteq Nat
  BY <1>1 DEF TypeOK
<1> HIDE DEF d
<1>2. PICK j \in d : x \in log[j].drops
  BY DEF d, Dropped
<1>3. j \in DOMAIN log /\ IsRotation(log, j)
  BY <1>1, <1>2 DEF GoodLog, GoodSave
<1>4. PICK r \in d : /\ \A k \in d : IsRotation(log, k) => k <= r
                     /\ \A y \in ActiveIn(d) \cup SecretsOf(d) :
                           Latest(d, y) \in Edits => KeyOf(d, y) = r
  <2>1. Edits \in SUBSET DOMAIN log
    BY DEF Edits
  <2> QED
    BY <1>1, <1>2, <2>1, LastRotation
<1>5. KeyOf(d, s) = r
  <2>1. s \in SecretsOf(d) /\ Writers(d, s) # {}
    BY DEF d, SecretsOf
  <2>2. Latest(d, s) \in d /\ s \in log[Latest(d, s)].writes
    BY <1>1, <2>1, LatestFacts
  <2>3. Latest(d, s) \in Edits
    BY <1>1, <2>2 DEF Edits
  <2> QED
    BY <1>4, <2>1, <2>3
<1>6. j <= r
  BY <1>2, <1>3, <1>4
<1>7. i # j
  BY <1>i, <1>2, <1>3 DEF GoodLog, GoodSave, KeysInv
<1>8. j \notin log[i].past
  <2>1. x \notin Drops(log, log[i].past)
    BY <1>1, <1>i DEF GoodLog, GoodSave
  <2> QED
    BY <1>2, <2>1 DEF Drops
<1>9. i \in log[j].past
  <2>1. j \in Rotations /\ i \in Edits
    BY <1>i, <1>3 DEF Rotations, IsRotation, Edits
  <2> QED
    BY <1>7, <1>8, <2>1 DEF InTurn
<1>10. i < j
  <2>1. log[j].past \subseteq 1 .. j - 1
    BY <1>1, <1>3 DEF GoodLog, GoodSave
  <2> QED
    BY <1>9, <1>3, <1>d, <2>1
<1>11. log[i].key <= i /\ log[i].key \in Nat
  <2>1. log[i].key \in log[i].past \cup {i} /\ log[i].past \subseteq 1 .. i - 1
    BY <1>1, <1>i DEF GoodLog, GoodSave
  <2> QED
    BY <1>i, <1>d, <2>1
<1>12. i \in Nat /\ j \in Nat /\ r \in Nat
  BY <1>1, <1>i, <1>3, <1>4, <1>d
<1> QED
  BY <1>5, <1>6, <1>10, <1>11, <1>12 DEF d

LEMMA RotationsRepair == KeysInv => RotationRepairs
<1> SUFFICES ASSUME KeysInv, NEW r \in Rotations
             PROVE  LET d == log[r].past \cup {r} IN
                    /\ \A x \in ActiveIn(d) : Unlocks(d, x)
                    /\ Listed(d, r) = SecretsOf(d)
  BY DEF RotationRepairs
<1> DEFINE d == log[r].past \cup {r}
<1>1. TypeOK /\ GoodLog(log) /\ r \in DOMAIN log /\ IsRotation(log, r)
  BY DEF KeysInv, Rotations, IsRotation
<1>2. d \in SUBSET DOMAIN log /\ ClosedIn(log, d) /\ r \in d
  <2>1. ClosedIn(log, log[r].past) /\ (r # 1 => log[r].past # {})
    BY <1>1 DEF GoodLog, GoodSave
  <2> QED
    BY <1>1, <2>1 DEF ClosedIn
<1>3. ASSUME NEW x \in ActiveIn(d) \cup SecretsOf(d)
      PROVE  KeyOf(d, x) = r
  <2> HIDE DEF d
  <2>1. Writers(d, x) # {}
    BY DEF ActiveIn, SecretsOf
  <2>2. Latest(d, x) \in d
    BY <1>1, <1>2, <2>1, LatestFacts
  <2>3. Latest(d, x) \notin log[r].past
    BY <1>1, <1>2, RotationCovers
  <2>4. Latest(d, x) = r
    BY <2>2, <2>3 DEF d
  <2> QED
    BY <1>1, <2>4 DEF KeyOf, IsRotation
<1> QED
  BY <1>3 DEF Unlocks, Listed

LEMMA PendingHaveSponsors == KeysInv => PendingHasSponsor
<1> SUFFICES ASSUME KeysInv, NEW m \in Member, NEW x \in MembersOf(doc[m]) \ ActiveIn(doc[m])
             PROVE  LET d == doc[m]
                        since == {i \in d : \A j \in Joining(d, x) : i \notin log[j].past}
                    IN  Sponsors(d, x) \cap (MembersOf(d) \cup Dropped(since)) # {}
  BY DEF PendingHasSponsor
<1> DEFINE d == doc[m]
           since == {i \in d : \A j \in Joining(d, x) : i \notin log[j].past}
<1>1. TypeOK /\ GoodLog(log) /\ d \in SUBSET DOMAIN log /\ ClosedIn(log, d)
  BY DEF KeysInv, ReplicaInv, ClosedIn
<1> HIDE DEF d
<1>2. x \in Present(log, d) /\ x \in MembersOf(d)
  BY Shown DEF d
<1>3. PICK j \in d : x \in log[j].joins
  BY <1>2 DEF Present, Joined
<1>4. \A k \in Joining(d, x) : k = j
  BY <1>1, <1>3 DEF KeysInv, JoinInv, Joining
<1>5. log[j].sponsors \subseteq Sponsors(d, x)
  BY <1>3 DEF Sponsors, Joining
<1>6. log[j].sponsors = Member \/ \E y \in Present(log, log[j].past) : log[j].sponsors = {y}
  BY <1>1, <1>3 DEF GoodLog, GoodSave
<1>7. CASE log[j].sponsors = Member
  <2>1. x \in Member
    BY <1>1, <1>2, PresentMembers
  <2> QED
    BY <1>2, <1>5, <1>7, <2>1 DEF d
<1>8. CASE \E y \in Present(log, log[j].past) : log[j].sponsors = {y}
  <2>1. PICK y \in Present(log, log[j].past) : log[j].sponsors = {y}
    BY <1>8
  <2>2. y \in Joined(log, d)
    BY <1>1, <1>3 DEF ClosedIn, Present, Joined
  <2>3. CASE y \notin Drops(log, d)
    <3>1. y \in MembersOf(d)
      BY <2>2, <2>3, Shown DEF Present
    <3> QED
      BY <1>5, <2>1, <3>1 DEF d
  <2>4. CASE y \in Drops(log, d)
    <3>1. PICK k \in d : y \in log[k].drops
      BY <2>4 DEF Drops
    <3>2. k \notin log[j].past
      BY <3>1 DEF Present, Drops
    <3>3. k \in since
      BY <1>4, <3>1, <3>2
    <3>4. y \in Dropped(since)
      BY <3>1, <3>3 DEF Dropped
    <3> QED
      BY <1>5, <2>1, <3>4 DEF d
  <2> QED
    BY <2>3, <2>4
<1> QED
  BY <1>6, <1>7, <1>8

-----------------------------------------------------------------------------
(***************************************************************************)
(* Appending a save                                                        *)
(***************************************************************************)

\* e can be appended to l.
NextSave(l, e) ==
    /\ e \in Save
    /\ ClosedIn(l, e.past) /\ e.past # {}
    /\ e.writes # {} => \/ e.key \in e.past /\ IsRotation(l, e.key)
                        \/ e.key = Len(l) + 1
    /\ e.writes \cap Member \subseteq Present(l, e.past)
    /\ e.drops \cap Member # {} => e.key = Len(l) + 1
    /\ e.key = Len(l) + 1 => /\ e.drops \cap e.writes = {}
                             /\ MustWrite(l, e.past, e.drops) \subseteq e.writes
                             /\ e.joins = {}
    /\ e.joins # {} => \/ e.sponsors = Member
                       \/ \E y \in Present(l, e.past) : e.sponsors = {y}

\* What the older saves show does not change.
LEMMA AppendShows ==
    ASSUME NEW l \in Seq(Save), NEW e \in Save, NEW d \in SUBSET DOMAIN l
    PROVE  /\ d \subseteq DOMAIN Append(l, e)
           /\ Joined(Append(l, e), d) = Joined(l, d)
           /\ Drops(Append(l, e), d) = Drops(l, d)
           /\ Wrote(Append(l, e), d) = Wrote(l, d)
           /\ Present(Append(l, e), d) = Present(l, d)
           /\ \A gone : MustWrite(Append(l, e), d, gone) = MustWrite(l, d, gone)
           /\ ClosedIn(l, d) => ClosedIn(Append(l, e), d)
<1> DEFINE k == Append(l, e)
<1>1. DOMAIN l = 1 .. Len(l) /\ DOMAIN k = 1 .. Len(l) + 1 /\ Len(l) \in Nat
  OBVIOUS
<1>2. \A i \in d : k[i] = l[i]
  OBVIOUS
<1>3. d \subseteq DOMAIN k
  BY <1>1
<1> HIDE DEF k
<1>4. Joined(k, d) = Joined(l, d)
  BY <1>2 DEF Joined
<1>5. Drops(k, d) = Drops(l, d)
  BY <1>2 DEF Drops
<1>6. Wrote(k, d) = Wrote(l, d)
  BY <1>2 DEF Wrote
<1>7. Present(k, d) = Present(l, d)
  BY <1>4, <1>5 DEF Present
<1>8. \A gone : MustWrite(k, d, gone) = MustWrite(l, d, gone)
  BY <1>5, <1>6, <1>7 DEF MustWrite
<1>9. ClosedIn(l, d) => ClosedIn(k, d)
  BY <1>2, <1>3 DEF ClosedIn
<1> QED
  BY <1>3, <1>4, <1>5, <1>6, <1>7, <1>8, <1>9 DEF k

LEMMA AppendGood ==
    ASSUME NEW l \in Seq(Save), GoodLog(l), NEW e, NextSave(l, e)
    PROVE  GoodLog(Append(l, e))
<1> DEFINE k == Append(l, e)
           n == Len(l) + 1
<1>1. e \in Save
  BY DEF NextSave
<1>2. DOMAIN l = 1 .. Len(l) /\ DOMAIN k = (DOMAIN l) \cup {n} /\ Len(l) \in Nat
  OBVIOUS
<1>3. k[n] = e /\ \A i \in DOMAIN l : k[i] = l[i]
  OBVIOUS
<1>4. ASSUME NEW d \in SUBSET DOMAIN l
      PROVE  /\ Joined(k, d) = Joined(l, d)
             /\ Drops(k, d) = Drops(l, d)
             /\ Present(k, d) = Present(l, d)
             /\ \A gone : MustWrite(k, d, gone) = MustWrite(l, d, gone)
             /\ ClosedIn(l, d) => ClosedIn(k, d)
  BY <1>1, AppendShows
<1> HIDE DEF k
<1>5. ASSUME NEW i \in DOMAIN l
      PROVE  GoodSave(k, i)
  <2> DEFINE p == l[i].past
  <2>1. GoodSave(l, i)
    BY DEF GoodLog
  <2>2. p \in SUBSET DOMAIN l /\ k[i] = l[i]
    BY <1>3, <2>1 DEF GoodSave, ClosedIn
  <2>3. \A j \in p \cup {i} : IsRotation(l, j) <=> IsRotation(k, j)
    BY <1>3, <2>2 DEF IsRotation
  <2>4. /\ Joined(k, p) = Joined(l, p)
        /\ Drops(k, p) = Drops(l, p)
        /\ Present(k, p) = Present(l, p)
        /\ \A gone : MustWrite(k, p, gone) = MustWrite(l, p, gone)
        /\ ClosedIn(l, p) => ClosedIn(k, p)
    BY <1>4, <2>2
  <2> HIDE DEF p
  <2>5. k[i].past = p /\ l[i].past = p
    BY <2>2 DEF p
  <2>6. k[i].past \subseteq 1 .. i - 1 /\ ClosedIn(k, k[i].past)
    BY <2>1, <2>4, <2>5 DEF GoodSave
  <2>7. IF i = 1 THEN IsRotation(k, i) ELSE k[i].past # {}
    BY <2>1, <2>3, <2>5 DEF GoodSave
  <2>8. k[i].writes # {} => k[i].key \in k[i].past \cup {i} /\ IsRotation(k, k[i].key)
    BY <2>1, <2>2, <2>3, <2>5 DEF GoodSave
  <2>9. \A x \in k[i].writes \cap Member :
           x \in Joined(k, k[i].past) \cup k[i].joins /\ x \notin Drops(k, k[i].past)
    BY <2>1, <2>2, <2>4, <2>5 DEF GoodSave
  <2>10. k[i].drops \cap Member # {} => IsRotation(k, i)
    BY <2>1, <2>2, <2>3 DEF GoodSave
  <2>11. IsRotation(k, i) => /\ k[i].drops \cap k[i].writes = {}
                             /\ MustWrite(k, k[i].past, k[i].drops) \subseteq k[i].writes
                             /\ i # 1 => k[i].joins = {}
    BY <2>1, <2>2, <2>3, <2>4, <2>5 DEF GoodSave
  <2>12. k[i].joins # {} => \/ k[i].sponsors = Member
                            \/ \E y \in Present(k, k[i].past) : k[i].sponsors = {y}
    BY <2>1, <2>2, <2>4, <2>5 DEF GoodSave
  <2> QED
    BY <2>6, <2>7, <2>8, <2>9, <2>10, <2>11, <2>12 DEF GoodSave
<1>6. GoodSave(k, n)
  <2> DEFINE p == e.past
  <2>1. p \in SUBSET DOMAIN l /\ p # {}
    BY DEF NextSave, ClosedIn
  <2>2. /\ Joined(k, p) = Joined(l, p)
        /\ Drops(k, p) = Drops(l, p)
        /\ Present(k, p) = Present(l, p)
        /\ \A gone : MustWrite(k, p, gone) = MustWrite(l, p, gone)
        /\ ClosedIn(l, p) => ClosedIn(k, p)
    BY <1>4, <2>1
  <2>3. IsRotation(k, n) <=> e.key = n
    BY <1>3 DEF IsRotation
  <2>4. p \subseteq 1 .. n - 1 /\ ClosedIn(k, p)
    BY <1>2, <2>1, <2>2 DEF NextSave
  <2>5. n # 1
    BY <1>2, <2>1
  <2>6. e.writes # {} => e.key \in p \cup {n} /\ IsRotation(k, e.key)
    BY <1>3, <2>1, <2>3 DEF NextSave, IsRotation
  <2>7. \A x \in e.writes \cap Member : x \in Joined(k, p) /\ x \notin Drops(k, p)
    BY <2>2 DEF NextSave, Present
  <2>8. /\ e.drops \cap Member # {} => IsRotation(k, n)
        /\ IsRotation(k, n) => /\ e.drops \cap e.writes = {}
                               /\ MustWrite(k, p, e.drops) \subseteq e.writes
                               /\ e.joins = {}
        /\ e.joins # {} => \/ e.sponsors = Member
                           \/ \E y \in Present(k, p) : e.sponsors = {y}
    BY <2>2, <2>3 DEF NextSave
  <2> HIDE DEF n
  <2> QED
    BY <1>3, <2>1, <2>4, <2>5, <2>6, <2>7, <2>8 DEF GoodSave
<1> QED
  BY <1>2, <1>5, <1>6 DEF GoodLog, k

-----------------------------------------------------------------------------
(***************************************************************************)
(* The invariant is inductive                                              *)
(***************************************************************************)

LEMMA SaveType ==
    ASSUME NEW p \in SUBSET (1 .. MaxEvents), NEW k \in 0 .. MaxEvents,
           NEW j \in SUBSET Member, NEW s \in SUBSET Member,
           NEW w \in SUBSET (Member \cup Secret), NEW d \in SUBSET (Member \cup Secret)
    PROVE  [past |-> p, key |-> k, joins |-> j, sponsors |-> s, writes |-> w, drops |-> d]
             \in Save
BY DEF Save

LEMMA KeysInit == Init => KeysInv
<1> SUFFICES ASSUME Init
             PROVE  KeysInv
  OBVIOUS
<1> DEFINE e(old) == [past |-> {}, key |-> 1, joins |-> old, sponsors |-> Member,
                      writes |-> Founding \cup Kept, drops |-> {}]
<1>1. PICK old \in {Founding, Founding \cup Waiting} :
         /\ log = << e(old) >>
         /\ doc = [m \in Member |-> IF m \in old THEN {1} ELSE {}]
  BY DEF Init
<1>3. old \subseteq Member /\ Founding \subseteq old /\ Kept \subseteq Secret
  BY <1>1, KeysAssumption
<1>4. e(old) \in Save
  BY <1>3, KeysAssumption, SaveType
<1>5. Len(log) = 1 /\ DOMAIN log = {1} /\ log[1] = e(old)
  BY <1>1
<1>6. TypeOK
  <2>1. log \in Seq(Save) /\ Len(log) <= MaxEvents
    BY <1>1, <1>4, KeysAssumption
  <2> QED
    BY <1>1, <1>5, <2>1 DEF Init, TypeOK
<1>7. GoodLog(log)
  <2>1. /\ log[1].past = {} /\ log[1].key = 1 /\ log[1].joins = old
        /\ log[1].sponsors = Member /\ log[1].writes = Founding \cup Kept
        /\ log[1].drops = {}
    BY <1>5
  <2>2. Drops(log, {}) = {} /\ Joined(log, {}) = {} /\ Wrote(log, {}) = {}
    BY DEF Drops, Joined, Wrote
  <2>3. MustWrite(log, {}, {}) = {}
    BY <2>2 DEF MustWrite
  <2>4. (Founding \cup Kept) \cap Member \subseteq old
    BY <1>3, KeysAssumption
  <2>5. GoodSave(log, 1)
    BY <2>1, <2>2, <2>3, <2>4 DEF GoodSave, ClosedIn, IsRotation
  <2> QED
    BY <1>5, <2>5 DEF GoodLog
<1>8. ReplicaInv
  <2>1. ClosedIn(log, {}) /\ ClosedIn(log, {1})
    BY <1>5 DEF ClosedIn
  <2>2. \A m \in Member : doc[m] \in {{}, {1}} /\ file[m] \in {{}, {1}} /\ dek[m] = 0
    BY <1>1 DEF Init
  <2> QED
    BY <2>1, <2>2 DEF ReplicaInv
<1>9. JoinInv
  BY <1>1, <1>3, <1>5 DEF JoinInv
<1> QED
  BY <1>6, <1>7, <1>8, <1>9 DEF KeysInv

\* A member saves e on the document d: what it needs to know is in d.
LEMMA SaveKeeps ==
    ASSUME KeysInv, NEW m \in Member, NEW e, NextSave(log, e), Len(log) < MaxEvents,
           log' = Append(log, e),
           doc' = [doc EXCEPT ![m] = e.past \cup {Len(log) + 1}],
           file' = [file EXCEPT ![m] = e.past \cup {Len(log) + 1}],
           luck' = luck,
           e.joins = {} \/ (e.joins = {m} /\ doc[m] = {}),
           \/ dek' = dek /\ doc[m] \subseteq e.past
           \/ dek' = [dek EXCEPT ![m] = Len(log) + 1] /\ e.key = Len(log) + 1
    PROVE  KeysInv'
<1> DEFINE n == Len(log) + 1
           d == e.past
<1> USE DEF KeysInv
<1>1. /\ log \in Seq(Save) /\ DOMAIN log = 1 .. Len(log) /\ Len(log) \in Nat
      /\ doc \in [Member -> SUBSET (DOMAIN log)]
      /\ file \in [Member -> SUBSET (DOMAIN log)]
      /\ dek \in [Member -> 0 .. Len(log)]
  BY DEF TypeOK
<1>2. e \in Save /\ d \subseteq DOMAIN log /\ ClosedIn(log, d) /\ d # {}
  BY DEF NextSave, ClosedIn
<1>3. /\ log' \in Seq(Save) /\ Len(log') = n
      /\ DOMAIN log' = (DOMAIN log) \cup {n} /\ DOMAIN log' = 1 .. n
      /\ log'[n] = e /\ \A i \in DOMAIN log : log'[i] = log[i]
  BY <1>1, <1>2
<1>4. /\ doc' \in [Member -> SUBSET (DOMAIN log')]
      /\ file' \in [Member -> SUBSET (DOMAIN log')]
      /\ dek' \in [Member -> 0 .. n]
  BY <1>1, <1>2, <1>3
<1>5. TypeOK'
  BY <1>1, <1>3, <1>4, KeysAssumption DEF TypeOK
<1>6. GoodLog(log')
  BY <1>1, AppendGood
<1>7. ASSUME NEW c \in SUBSET DOMAIN log, ClosedIn(log, c)
      PROVE  ClosedIn(log', c)
  BY <1>1, <1>2, <1>7, AppendShows
<1>8. ClosedIn(log', d \cup {n})
  <2>1. ClosedIn(log', d)
    BY <1>2, <1>7
  <2> HIDE DEF n
  <2> QED
    BY <1>2, <1>3, <2>1 DEF ClosedIn
<1>9. ASSUME NEW x \in Member
      PROVE  /\ ClosedIn(log', doc'[x]) /\ ClosedIn(log', file'[x])
             /\ dek'[x] # 0 => dek'[x] \in doc'[x] /\ IsRotation(log', dek'[x])
  <2>1. ClosedIn(log', doc[x]) /\ ClosedIn(log', file[x])
    BY <1>1, <1>7 DEF ReplicaInv
  <2>2. dek[x] # 0 => dek[x] \in doc[x] /\ IsRotation(log', dek[x])
    BY <1>1, <1>3 DEF ReplicaInv, IsRotation
  <2>3. CASE x # m
    BY <1>1, <2>1, <2>2, <2>3
  <2>4. CASE x = m
    <3>1. doc'[x] = d \cup {n} /\ file'[x] = d \cup {n}
      BY <1>1, <2>4
    <3>2. \/ dek'[x] = dek[x] /\ doc[x] \subseteq d
          \/ dek'[x] = n /\ IsRotation(log', n)
      BY <1>1, <1>3, <2>4 DEF IsRotation
    <3> QED
      BY <1>8, <2>2, <3>1, <3>2
  <2> QED
    BY <2>3, <2>4
<1>10. ReplicaInv'
  BY <1>9 DEF ReplicaInv
<1>11. ASSUME NEW i \in DOMAIN log', NEW x \in log'[i].joins
       PROVE  /\ doc'[x] # {}
              /\ \A j \in DOMAIN log' : x \in log'[j].joins => i = j
  <2>1. \A j \in DOMAIN log : log[j].joins \subseteq Member
    <3>1. \A j \in DOMAIN log : log[j] \in Save
      BY <1>1
    <3> QED
      BY <3>1 DEF Save
  <2>2. doc'[m] # {} /\ \A y \in Member \ {m} : doc'[y] = doc[y]
    BY <1>1
  <2>3. \A j \in DOMAIN log : \A y \in log[j].joins : doc[y] # {}
    BY DEF JoinInv
  <2>4. CASE i \in DOMAIN log
    <3>1. x \in log[i].joins
      BY <1>3, <2>4
    <3>2. doc[x] # {} /\ x \in Member
      BY <2>1, <2>3, <2>4, <3>1
    <3>3. x \notin e.joins
      BY <3>2
    <3> QED
      BY <1>3, <2>2, <2>4, <3>1, <3>2, <3>3 DEF JoinInv
  <2>5. CASE i = n
    <3>1. x = m /\ doc[m] = {}
      BY <1>3, <2>5
    <3> QED
      BY <1>3, <2>2, <2>3, <2>5, <3>1
  <2> HIDE DEF n
  <2> QED
    BY <1>3, <2>4, <2>5
<1>12. JoinInv'
  BY <1>11 DEF JoinInv
<1> QED
  BY <1>5, <1>6, <1>10, <1>12

\* Pulling makes a replica of two closed documents.
LEMMA PullKeeps ==
    ASSUME KeysInv, NEW m \in Member, NEW n \in Member, Pull(m, n)
    PROVE  KeysInv'
<1> USE DEF KeysInv
<1>1. /\ doc' = [doc EXCEPT ![m] = doc[m] \cup file[n]]
      /\ UNCHANGED <<log, file, dek, luck>>
  BY DEF Pull
<1>2. doc'[m] = doc[m] \cup file[n] /\ \A x \in Member \ {m} : doc'[x] = doc[x]
  BY <1>1 DEF TypeOK
<1>3. TypeOK'
  BY <1>1 DEF TypeOK
<1>4. ClosedIn(log, doc[m] \cup file[n])
  <2>1. ClosedIn(log, doc[m]) /\ ClosedIn(log, file[n])
    BY DEF ReplicaInv
  <2> QED
    BY <2>1 DEF ClosedIn
<1>5. ReplicaInv'
  BY <1>1, <1>2, <1>4 DEF ReplicaInv
<1>6. JoinInv'
  <2>1. \A x \in Member : doc[x] # {} => doc'[x] # {}
    BY <1>2
  <2>2. \A i \in DOMAIN log : log[i].joins \subseteq Member
    <3>1. \A i \in DOMAIN log : log[i] \in Save
      BY DEF TypeOK
    <3> QED
      BY <3>1 DEF Save
  <2> QED
    BY <1>1, <2>1, <2>2 DEF JoinInv
<1> QED
  BY <1>1, <1>3, <1>5, <1>6

\* A session is opened with a key that the replica has.
LEMMA OpenKeeps ==
    ASSUME KeysInv, NEW m \in Member, Open(m)
    PROVE  KeysInv'
<1> USE DEF KeysInv
<1> DEFINE k == KeyOf(doc[m], m)
<1>1. dek' = [dek EXCEPT ![m] = k] /\ UNCHANGED <<log, doc, file, luck>>
  BY DEF Open
<1>2. k \in doc[m] /\ IsRotation(log, k)
  <2>1. Writers(doc[m], m) # {}
    BY DEF Open, Unlocks, ActiveIn
  <2>2. doc[m] \in SUBSET DOMAIN log /\ ClosedIn(log, doc[m])
    BY DEF ReplicaInv, ClosedIn
  <2> QED
    BY <2>1, <2>2, KeyFacts
<1> HIDE DEF k
<1>3. k \in 0 .. Len(log)
  BY <1>2 DEF TypeOK
<1>4. TypeOK'
  BY <1>1, <1>3 DEF TypeOK
<1>5. dek'[m] = k /\ \A x \in Member \ {m} : dek'[x] = dek[x]
  BY <1>1 DEF TypeOK
<1>6. ReplicaInv'
  BY <1>1, <1>2, <1>5 DEF ReplicaInv
<1> QED
  BY <1>1, <1>4, <1>6 DEF JoinInv

\* A save with the key of the session, of registers that are in the replica or
\* of secrets; it drops secrets only.
LEMMA SessionSaves ==
    ASSUME KeysInv, NEW m \in Member, dek[m] # 0, dek' = dek,
           NEW w \in SUBSET (Member \cup Secret), w \cap Member \subseteq MembersOf(doc[m]),
           Commit(m, Written(doc[m], dek[m], w, Unlisted(m)))
    PROVE  KeysInv'
<1> USE DEF KeysInv
<1> DEFINE e == Written(doc[m], dek[m], w, Unlisted(m))
<1>1. /\ e.past = doc[m] /\ e.key = dek[m] /\ e.joins = {}
      /\ e.writes = w /\ e.drops = Unlisted(m)
  BY DEF Written
<1>2. /\ Len(log) < MaxEvents
      /\ log' = Append(log, e)
      /\ doc' = [doc EXCEPT ![m] = doc[m] \cup {Len(log) + 1}]
      /\ file' = [file EXCEPT ![m] = doc[m] \cup {Len(log) + 1}]
      /\ luck' = luck
  BY <1>1 DEF Commit
<1>3. /\ doc[m] \in SUBSET DOMAIN log /\ ClosedIn(log, doc[m])
      /\ dek[m] \in doc[m] /\ IsRotation(log, dek[m])
  BY DEF ReplicaInv, ClosedIn
<1>4. DOMAIN log \subseteq 1 .. MaxEvents /\ dek[m] \in 1 .. Len(log)
  BY <1>3, KeysAssumption DEF TypeOK
<1>5. Unlisted(m) \subseteq Secret
  BY DEF Unlisted, SecretsOf
<1>6. e \in Save
  <2>1. /\ doc[m] \in SUBSET (1 .. MaxEvents) /\ dek[m] \in 0 .. MaxEvents
        /\ Unlisted(m) \in SUBSET (Member \cup Secret) /\ {} \in SUBSET Member
    BY <1>3, <1>4, <1>5
  <2> QED
    BY <2>1, SaveType DEF Written
<1>8. w \cap Member \subseteq Present(log, doc[m])
  BY Shown
<1>9. e.drops \cap Member = {} /\ e.key # Len(log) + 1
  BY <1>4, <1>5, <1>1, KeysAssumption DEF TypeOK
<1> HIDE DEF e
<1>10. NextSave(log, e)
  BY <1>3, <1>6, <1>1, <1>8, <1>9 DEF NextSave
<1> QED
  BY <1>2, <1>1, <1>10, SaveKeeps

LEMMA GrantKeeps ==
    ASSUME KeysInv, NEW m \in Member, GrantMember(m)
    PROVE  KeysInv'
<1>1. PICK x \in MembersOf(doc[m]) :
         Commit(m, Written(doc[m], dek[m], {x}, Unlisted(m)))
  BY DEF GrantMember
<1>2. x \in Member
  <2>1. doc[m] \in SUBSET DOMAIN log
    BY DEF KeysInv, ReplicaInv, ClosedIn
  <2> QED
    BY <1>1, <2>1, Shown, PresentMembers DEF KeysInv
<1>3. dek[m] # 0 /\ dek' = dek
  BY DEF GrantMember
<1> QED
  BY <1>1, <1>2, <1>3, SessionSaves

LEMMA SecretKeeps ==
    ASSUME KeysInv, NEW m \in Member, SaveSecret(m)
    PROVE  KeysInv'
<1>1. PICK s \in Secret :
         Commit(m, Written(doc[m], dek[m], {s}, Unlisted(m)))
  BY DEF SaveSecret, Listed, SecretsOf
<1>2. {s} \cap Member = {}
  BY KeysAssumption
<1>3. dek[m] # 0 /\ dek' = dek
  BY DEF SaveSecret
<1> QED
  BY <1>1, <1>2, <1>3, SessionSaves

\* A rotation writes what is in the replica for whom is in it.
LEMMA RotationKeeps ==
    ASSUME KeysInv, NEW m \in Member, NEW gone \in SUBSET Member, RotateWithout(m, gone)
    PROVE  KeysInv'
<1> USE DEF KeysInv
<1> DEFINE d == doc[m]
           n == Len(log) + 1
           w == Rewritten(d, gone)
           e == Written(d, n, w, gone)
<1>1. e.past = d /\ e.key = n /\ e.joins = {} /\ e.writes = w /\ e.drops = gone
  BY DEF Written
<1>2. /\ Len(log) < MaxEvents
      /\ log' = Append(log, e)
      /\ doc' = [doc EXCEPT ![m] = e.past \cup {n}]
      /\ file' = [file EXCEPT ![m] = e.past \cup {n}]
      /\ luck' = luck
      /\ dek' = [dek EXCEPT ![m] = n]
      /\ dek[m] # 0
  BY DEF RotateWithout, Commit
<1>3. d \in SUBSET DOMAIN log /\ ClosedIn(log, d) /\ d # {}
  BY <1>2 DEF ReplicaInv, ClosedIn
<1>4. w = ((Present(log, d) \cap Wrote(log, d)) \ gone)
            \cup ((Secret \ Drops(log, d)) \cap Wrote(log, d))
  <2> HIDE DEF d
  <2> QED
    BY Shown DEF Rewritten, w
<1>5. Present(log, d) \subseteq Member
  BY <1>3, PresentMembers
<1> HIDE DEF w
<1>6. w \subseteq Member \cup Secret
  BY <1>4, <1>5
<1>7. e \in Save
  <2>1. d \in SUBSET (1 .. MaxEvents) /\ n \in 0 .. MaxEvents
    BY <1>2, <1>3, KeysAssumption DEF TypeOK
  <2>2. {} \in SUBSET Member /\ w \in SUBSET (Member \cup Secret)
        /\ gone \in SUBSET (Member \cup Secret)
    BY <1>6
  <2> HIDE DEF d, n
  <2> QED
    BY <2>1, <2>2, SaveType DEF Written
<1>8. w \cap Member \subseteq Present(log, d)
  BY <1>4, KeysAssumption
<1>9. gone \cap w = {} /\ MustWrite(log, d, gone) \subseteq w
  BY <1>4, KeysAssumption DEF MustWrite
<1> HIDE DEF e, d
<1>10. NextSave(log, e)
  BY <1>1, <1>3, <1>7, <1>8, <1>9 DEF NextSave
<1> QED
  BY <1>1, <1>2, <1>10, SaveKeeps

\* Who registers does so in a document made of files, once, with a sponsor.
LEMMA JoinKeeps ==
    ASSUME KeysInv, NEW m \in Member, Join(m)
    PROVE  KeysInv'
<1> USE DEF KeysInv
<1>1. PICK S \in SUBSET {n \in Member : Usable(n)} :
         LET d == UNION {file[n] : n \in S} IN
         /\ d # {}
         /\ \/ \E x \in Member : Writers(doc[x], x) # {} /\ JoinWith(m, d, x)
            \/ Commit(m, Registered(d, m, Member))
  BY DEF Join
<1> DEFINE d == UNION {file[n] : n \in S}
<1>2. doc[m] = {} /\ dek' = dek
  BY DEF Join
<1>3. d \in SUBSET DOMAIN log /\ ClosedIn(log, d) /\ d # {}
  <2>1. \A n \in S : ClosedIn(log, file[n])
    BY DEF ReplicaInv
  <2> QED
    BY <1>1, <2>1 DEF ClosedIn
<1>4. PICK by \in SUBSET Member :
         /\ by = Member \/ \E x \in MembersOf(d) : by = {x}
         /\ Commit(m, Registered(d, m, by))
  BY <1>1 DEF JoinWith
<1> HIDE DEF d
<1> DEFINE e == Registered(d, m, by)
<1>5. /\ e.past = d /\ e.key = 0 /\ e.joins = {m} /\ e.sponsors = by
      /\ e.writes = {} /\ e.drops = {}
  BY DEF Registered
<1>6. /\ Len(log) < MaxEvents
      /\ log' = Append(log, e)
      /\ doc' = [doc EXCEPT ![m] = e.past \cup {Len(log) + 1}]
      /\ file' = [file EXCEPT ![m] = e.past \cup {Len(log) + 1}]
      /\ luck' = luck
  BY <1>4 DEF Commit
<1>7. e \in Save
  <2>1. d \in SUBSET (1 .. MaxEvents) /\ 0 \in 0 .. MaxEvents
    BY <1>3, KeysAssumption DEF TypeOK
  <2>2. {m} \in SUBSET Member /\ {} \in SUBSET (Member \cup Secret)
    OBVIOUS
  <2> QED
    BY <2>1, <2>2, SaveType DEF Registered
<1>8. by = Member \/ \E x \in Present(log, d) : by = {x}
  BY <1>4, Shown
<1>9. 0 # Len(log) + 1
  BY DEF TypeOK
<1> HIDE DEF e
<1>10. NextSave(log, e)
  BY <1>3, <1>5, <1>7, <1>8, <1>9 DEF NextSave
<1> QED
  BY <1>2, <1>5, <1>6, <1>10, SaveKeeps

LEMMA KeysStep == KeysInv /\ [Next]_vars => KeysInv'
<1> SUFFICES ASSUME KeysInv, [Next]_vars
             PROVE  KeysInv'
  OBVIOUS
<1>1. ASSUME NEW m \in Member, NEW n \in Member \ {m}, Pull(m, n)
      PROVE  KeysInv'
  BY <1>1, PullKeeps
<1>2. ASSUME NEW m \in Member, Open(m)
      PROVE  KeysInv'
  BY <1>2, OpenKeeps
<1>3. ASSUME NEW m \in Member, Join(m)
      PROVE  KeysInv'
  BY <1>3, JoinKeeps
<1>4. ASSUME NEW m \in Member, GrantMember(m)
      PROVE  KeysInv'
  BY <1>4, GrantKeeps
<1>5. ASSUME NEW m \in Member, SaveSecret(m)
      PROVE  KeysInv'
  BY <1>5, SecretKeeps
<1>6. ASSUME NEW m \in Member, RotateDek(m)
      PROVE  KeysInv'
  BY <1>6, RotationKeeps DEF RotateDek
<1>7. ASSUME NEW m \in Member, RemoveMember(m)
      PROVE  KeysInv'
  <2>1. PICK x \in MembersOf(doc[m]) \ {m} : RotateWithout(m, {x})
    BY <1>7 DEF RemoveMember
  <2>2. doc[m] \in SUBSET DOMAIN log
    BY DEF KeysInv, ReplicaInv, ClosedIn
  <2>3. {x} \in SUBSET Member
    BY <2>2, Shown, PresentMembers DEF KeysInv
  <2> QED
    BY <2>1, <2>3, RotationKeeps
<1>8. CASE UNCHANGED vars
  <2>1. log' = log /\ doc' = doc /\ file' = file /\ dek' = dek /\ luck' = luck
    BY <1>8 DEF vars
  <2> QED
    BY <2>1 DEF KeysInv, TypeOK, ReplicaInv, JoinInv
<1> QED
  BY <1>1, <1>2, <1>3, <1>4, <1>5, <1>6, <1>7, <1>8 DEF Next

LEMMA KeysInvariant == Spec => []KeysInv
BY KeysInit, KeysStep, PTL DEF Spec

-----------------------------------------------------------------------------
(***************************************************************************)
(* Theorems                                                                *)
(***************************************************************************)

\* Replicas, files and sessions stay well formed, and a DEK is one of the log.
THEOREM KeysTypes == Spec => []TypeOK
<1>1. KeysInv => TypeOK
  BY DEF KeysInv
<1> QED
  BY <1>1, KeysInvariant, PTL

\* While grants and rotations take turns, unlock_document lets every active
\* member of every replica in.
THEOREM KeysLockNobodyOut == Spec => []NobodyLockedOut
BY NobodyIsLockedOut, KeysInvariant, PTL

\* While all edits take turns with rotations, list_secrets decrypts everything
\* for everyone who can unlock the vault.
THEOREM KeysAllReadable == Spec => []AllReadable
BY AllAreReadable, KeysInvariant, PTL

\* Under the same condition, no secret of a document with the removal of a member
\* is under a DEK that was ever wrapped for that member.
THEOREM KeysRemovedCannotRead == Spec => []RemovedCannotRead
BY RemovedMemberCannotRead, KeysInvariant, PTL

\* A rotation repairs the registers, in whatever state concurrent saves left them.
THEOREM KeysRotationRepairs == Spec => []RotationRepairs
BY RotationsRepair, KeysInvariant, PTL

\* Whoever waits in a document can be activated by somebody who is in it, or was
\* removed after or beside the join.
THEOREM KeysPendingHasSponsor == Spec => []PendingHasSponsor
BY PendingHaveSponsors, KeysInvariant, PTL
=============================================================================
