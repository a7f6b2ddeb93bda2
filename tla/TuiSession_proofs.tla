--------------------------- MODULE TuiSession_proofs ---------------------------
(***************************************************************************)
(* Theorems on a session of the terminal UI, for any members, secrets,     *)
(* rotations, pulls and late States.  First types, then the invariant that *)
(* ties the State shown to the document, and what follows from it.         *)
(***************************************************************************)
EXTENDS TuiSession, FiniteSetTheorems, SequenceTheorems, TLAPS

-----------------------------------------------------------------------------
(***************************************************************************)
(* Partial functions                                                       *)
(***************************************************************************)
LEMMA PartialElim ==
    ASSUME NEW D, NEW R, NEW f \in Partial(D, R)
    PROVE  DOMAIN f \subseteq D /\ f \in [DOMAIN f -> R]
BY DEF Partial

LEMMA PartialIntro ==
    ASSUME NEW D, NEW R, NEW S \in SUBSET D, NEW f \in [S -> R]
    PROVE  f \in Partial(D, R)
BY DEF Partial

LEMMA WithoutType ==
    ASSUME NEW D, NEW R, NEW f \in Partial(D, R), NEW S
    PROVE  /\ Without(f, S) \in Partial(D, R)
           /\ DOMAIN Without(f, S) = DOMAIN f \ S
           /\ \A x \in DOMAIN f \ S : Without(f, S)[x] = f[x]
<1>1. DOMAIN f \subseteq D /\ f \in [DOMAIN f -> R]
  BY PartialElim
<1>2. Without(f, S) \in [DOMAIN f \ S -> R]
  BY <1>1 DEF Without
<1>3. Without(f, S) \in Partial(D, R)
  BY <1>1, <1>2, PartialIntro
<1>4. QED
  BY <1>3 DEF Without

LEMMA WithType ==
    ASSUME NEW D, NEW R, NEW f \in Partial(D, R), NEW x \in D, NEW y \in R
    PROVE  /\ With(f, x, y) \in Partial(D, R)
           /\ DOMAIN With(f, x, y) = DOMAIN f \cup {x}
           /\ With(f, x, y)[x] = y
           /\ \A z \in DOMAIN f : z # x => With(f, x, y)[z] = f[z]
<1>1. DOMAIN f \subseteq D /\ f \in [DOMAIN f -> R]
  BY PartialElim
<1>2. With(f, x, y) \in [DOMAIN f \cup {x} -> R]
  BY <1>1 DEF With
<1>3. With(f, x, y) \in Partial(D, R)
  BY <1>1, <1>2, PartialIntro
<1>4. QED
  BY <1>3 DEF With

\* The wraps of a document or State when others are removed, added or granted.
LEMMA WrapsElim ==
    ASSUME NEW w \in Wraps
    PROVE  /\ w \in Partial(Member, 0 .. MaxDek)
           /\ DOMAIN w \subseteq Member /\ w \in [DOMAIN w -> 0 .. MaxDek]
<1>1. w \in Partial(Member, 0 .. MaxDek)
  BY DEF Wraps
<1>2. QED
  BY <1>1, PartialElim

LEMMA WrapsIntro ==
    ASSUME NEW S \in SUBSET Member, NEW w \in [S -> 0 .. MaxDek]
    PROVE  w \in Wraps
<1>1. w \in Partial(Member, 0 .. MaxDek)
  BY PartialIntro
<1>2. QED
  BY <1>1 DEF Wraps

LEMMA WrapsWithout ==
    ASSUME NEW w \in Wraps, NEW S
    PROVE  /\ Without(w, S) \in Wraps
           /\ DOMAIN Without(w, S) = DOMAIN w \ S
           /\ \A m \in DOMAIN w \ S : Without(w, S)[m] = w[m]
<1>1. w \in Partial(Member, 0 .. MaxDek)
  BY WrapsElim
<1> DEFINE R == 0 .. MaxDek
<1>2. /\ Without(w, S) \in Partial(Member, R)
      /\ DOMAIN Without(w, S) = DOMAIN w \ S
      /\ \A m \in DOMAIN w \ S : Without(w, S)[m] = w[m]
  <2>1. w \in Partial(Member, R)
    BY <1>1
  <2> HIDE DEF R
  <2>2. QED
    BY <2>1, WithoutType
<1>3. QED
  BY <1>1, <1>2 DEF Wraps

-----------------------------------------------------------------------------
(***************************************************************************)
(* The operators on documents and States                                   *)
(***************************************************************************)
LEMMA DocElim ==
    ASSUME NEW d \in Doc
    PROVE  /\ d = [secrets |-> d.secrets, wraps |-> d.wraps]
           /\ d.secrets \in Partial(Secret, Entry) /\ d.wraps \in Wraps
           /\ DOMAIN d.secrets \subseteq Secret
           /\ d.secrets \in [DOMAIN d.secrets -> Entry]
<1>1. d.secrets \in Partial(Secret, Entry) /\ d.wraps \in Wraps
  BY DEF Doc
<1>2. DOMAIN d.secrets \subseteq Secret /\ d.secrets \in [DOMAIN d.secrets -> Entry]
  BY <1>1, PartialElim
<1>3. QED
  BY <1>1, <1>2 DEF Doc

LEMMA StateElim ==
    ASSUME NEW s \in State
    PROVE  /\ s = [secrets |-> s.secrets, wraps |-> s.wraps,
                   grants |-> s.grants, rotate |-> s.rotate]
           /\ s.secrets \in Partial(Secret, Value) /\ s.wraps \in Wraps
           /\ s.grants \subseteq Member /\ s.rotate \in BOOLEAN
           /\ DOMAIN s.secrets \subseteq Secret
           /\ s.secrets \in [DOMAIN s.secrets -> Value]
<1>1. /\ s.secrets \in Partial(Secret, Value) /\ s.wraps \in Wraps
      /\ s.grants \subseteq Member /\ s.rotate \in BOOLEAN
  BY DEF State
<1>2. DOMAIN s.secrets \subseteq Secret /\ s.secrets \in [DOMAIN s.secrets -> Value]
  BY <1>1, PartialElim
<1>3. QED
  BY <1>1, <1>2 DEF State

LEMMA DeriveType ==
    ASSUME NEW d \in Doc, NEW k
    PROVE  Derive(d, k) \in State
<1> DEFINE S == {x \in DOMAIN d.secrets : Readable(d, k)}
           f == [s \in S |-> d.secrets[s].value]
<1>1. /\ DOMAIN d.secrets \subseteq Secret /\ d.wraps \in Wraps
      /\ d.secrets \in [DOMAIN d.secrets -> Entry]
  BY DocElim
<1>2. S \in SUBSET Secret
  BY <1>1
<1>3. f \in [S -> Value]
  BY <1>1 DEF Entry
<1>4. f \in Partial(Secret, Value)
  BY <1>2, <1>3, PartialIntro
<1>5. Derive(d, k) = [secrets |-> f, wraps |-> d.wraps, grants |-> {}, rotate |-> FALSE]
  BY DEF Derive
<1>6. QED
  BY <1>1, <1>4, <1>5 DEF State

\* A readable document is shown as it is.
LEMMA DeriveShows ==
    ASSUME NEW d \in Doc, NEW k, Readable(d, k)
    PROVE  /\ DOMAIN Derive(d, k).secrets = DOMAIN d.secrets
           /\ \A s \in DOMAIN d.secrets : Derive(d, k).secrets[s] = d.secrets[s].value
BY DEF Derive

\* A rotation puts everything under the new DEK and changes nothing else.
LEMMA RotatedType ==
    ASSUME NEW d \in Doc, NEW k \in 1 .. MaxDek
    PROVE  /\ Rotated(d, k) \in Doc
           /\ Uniform(Rotated(d, k), k)
           /\ DOMAIN Rotated(d, k).secrets = DOMAIN d.secrets
           /\ DOMAIN Rotated(d, k).wraps = DOMAIN d.wraps
           /\ \A s \in DOMAIN d.secrets :
                 Rotated(d, k).secrets[s] = [dek |-> k, value |-> d.secrets[s].value]
<1> DEFINE f == [s \in DOMAIN d.secrets |-> [d.secrets[s] EXCEPT !.dek = k]]
           w == [m \in DOMAIN d.wraps |-> IF d.wraps[m] = 0 THEN 0 ELSE k]
<1>0. MaxDek \in Nat
  BY TuiAssumption
<1>1. /\ DOMAIN d.secrets \subseteq Secret /\ d.wraps \in Wraps
      /\ d.secrets \in [DOMAIN d.secrets -> Entry]
  BY DocElim
<1>2. DOMAIN d.wraps \subseteq Member
  BY <1>1, WrapsElim
<1>3. \A s \in DOMAIN d.secrets :
          /\ [d.secrets[s] EXCEPT !.dek = k] = [dek |-> k, value |-> d.secrets[s].value]
          /\ [d.secrets[s] EXCEPT !.dek = k] \in Entry
  BY <1>0, <1>1 DEF Entry
<1>4. f \in [DOMAIN d.secrets -> Entry]
  BY <1>3
<1>5. f \in Partial(Secret, Entry)
  BY <1>1, <1>4, PartialIntro
<1>6. w \in [DOMAIN d.wraps -> 0 .. MaxDek]
  BY <1>0, <1>2
<1>7. w \in Wraps
  BY <1>2, <1>6, WrapsIntro
<1>8. Rotated(d, k) = [secrets |-> f, wraps |-> w]
  BY DEF Rotated
<1>9. Rotated(d, k) \in Doc
  BY <1>5, <1>7, <1>8 DEF Doc
<1>10. Uniform(Rotated(d, k), k)
  BY <1>3, <1>8 DEF Uniform, Readable
<1>11. /\ DOMAIN Rotated(d, k).secrets = DOMAIN d.secrets
       /\ DOMAIN Rotated(d, k).wraps = DOMAIN d.wraps
  BY <1>8
<1>12. \A s \in DOMAIN d.secrets :
          Rotated(d, k).secrets[s] = [dek |-> k, value |-> d.secrets[s].value]
  <2>1. Rotated(d, k).secrets = f
    BY <1>8
  <2>2. \A s \in DOMAIN d.secrets : f[s] = [d.secrets[s] EXCEPT !.dek = k]
    OBVIOUS
  <2> HIDE DEF f
  <2>3. QED
    BY <1>3, <2>1, <2>2
<1>13. QED
  BY <1>9, <1>10, <1>11, <1>12

LEMMA GrantedType ==
    ASSUME NEW n \in State, NEW k \in 1 .. MaxDek
    PROVE  /\ Granted(n, k) \in State
           /\ Granted(n, k).secrets = n.secrets
           /\ DOMAIN Granted(n, k).wraps = DOMAIN n.wraps
           /\ \A m \in DOMAIN n.wraps :
                 Granted(n, k).wraps[m] = IF m \in n.grants THEN k ELSE n.wraps[m]
<1> DEFINE w == [m \in DOMAIN n.wraps |-> IF m \in n.grants THEN k ELSE n.wraps[m]]
<1>0. MaxDek \in Nat
  BY TuiAssumption
<1>1. /\ n.secrets \in Partial(Secret, Value) /\ n.wraps \in Wraps /\ n.rotate \in BOOLEAN
  BY StateElim
<1>2. /\ DOMAIN n.wraps \subseteq Member /\ n.wraps \in [DOMAIN n.wraps -> 0 .. MaxDek]
  BY <1>1, WrapsElim
<1>3. w \in [DOMAIN n.wraps -> 0 .. MaxDek]
  BY <1>0, <1>2
<1>4. w \in Wraps
  BY <1>2, <1>3, WrapsIntro
<1>5. Granted(n, k) = [secrets |-> n.secrets, wraps |-> w, grants |-> {}, rotate |-> n.rotate]
  <2>1. n = [secrets |-> n.secrets, wraps |-> n.wraps,
             grants |-> n.grants, rotate |-> n.rotate]
    BY StateElim
  <2>2. Granted(n, k) = [n EXCEPT !.wraps = w, !.grants = {}]
    BY DEF Granted
  <2>3. QED
    BY <2>1, <2>2
<1>6. Granted(n, k) \in State
  BY <1>1, <1>4, <1>5 DEF State
<1>7. QED
  BY <1>5, <1>6

LEMMA ReconciledType ==
    ASSUME NEW d \in Doc, NEW old \in State, NEW n \in State, NEW k \in 1 .. MaxDek
    PROVE  /\ Reconciled(d, old, n, k) \in Doc
           /\ DOMAIN Reconciled(d, old, n, k).secrets = DOMAIN n.secrets
           /\ Reconciled(d, old, n, k).wraps = n.wraps
<1> DEFINE e(s) ==
        LET v == n.secrets[s]
            whole == s \in DOMAIN d.secrets /\ d.secrets[s].dek = k
        IN CASE s \notin DOMAIN old.secrets -> [dek |-> k, value |-> v]
             [] s \in DOMAIN old.secrets /\ old.secrets[s] # v ->
                  [dek |-> IF whole THEN k ELSE 0, value |-> v]
             [] OTHER -> IF s \in DOMAIN d.secrets THEN d.secrets[s]
                         ELSE [dek |-> 0, value |-> v]
           f == [s \in DOMAIN n.secrets |-> e(s)]
<1>0. MaxDek \in Nat
  BY TuiAssumption
<1>1. /\ DOMAIN n.secrets \subseteq Secret /\ n.wraps \in Wraps
      /\ n.secrets \in [DOMAIN n.secrets -> Value]
  BY StateElim
<1>2. d.secrets \in [DOMAIN d.secrets -> Entry]
  BY DocElim
<1>3. \A s \in DOMAIN n.secrets : e(s) \in Entry
  <2> TAKE s \in DOMAIN n.secrets
  <2>1. CASE s \notin DOMAIN old.secrets
    BY <1>0, <1>1, <2>1 DEF Entry
  <2>2. CASE s \in DOMAIN old.secrets /\ old.secrets[s] # n.secrets[s]
    BY <1>0, <1>1, <2>2 DEF Entry
  <2>3. CASE s \in DOMAIN old.secrets /\ old.secrets[s] = n.secrets[s]
    BY <1>0, <1>1, <1>2, <2>3 DEF Entry
  <2>4. QED
    BY <2>1, <2>2, <2>3
<1>4. f \in [DOMAIN n.secrets -> Entry]
  BY <1>3
<1>5. f \in Partial(Secret, Entry)
  BY <1>1, <1>4, PartialIntro
<1>6. Reconciled(d, old, n, k) = [secrets |-> f, wraps |-> n.wraps]
  BY DEF Reconciled
<1>7. QED
  BY <1>1, <1>5, <1>6 DEF Doc

-----------------------------------------------------------------------------
(***************************************************************************)
(* Types                                                                   *)
(***************************************************************************)
\* What of TypeOK an apply of a State touches.
CoreTypes == doc \in Doc /\ dek \in 1 .. MaxDek /\ deks \in 1 .. MaxDek /\ state \in State

LEMMA NewDek ==
    ASSUME NEW n \in 1 .. MaxDek, n < MaxDek
    PROVE  n + 1 \in 1 .. MaxDek
BY TuiAssumption

LEMMA ApplyTypes ==
    ASSUME NEW d \in Doc, NEW k \in 1 .. MaxDek, Apply(d, k), deks' \in 1 .. MaxDek
    PROVE  CoreTypes'
BY DeriveType DEF Apply, CoreTypes

LEMMA RotateDekTypes ==
    ASSUME CoreTypes, NEW new \in State, RotateDek(new)
    PROVE  CoreTypes'
<1>1. CASE Readable(doc, dek)
  <2>1. deks + 1 \in 1 .. MaxDek
    BY <1>1, NewDek DEF RotateDek, CoreTypes
  <2>2. Rotated(doc, deks + 1) \in Doc
    BY <2>1, RotatedType DEF CoreTypes
  <2>3. Apply(Rotated(doc, deks + 1), deks + 1) /\ deks' = deks + 1
    BY <1>1 DEF RotateDek
  <2>4. QED
    BY <2>1, <2>2, <2>3, ApplyTypes
<1>2. CASE ~Readable(doc, dek)
  BY <1>2 DEF RotateDek, Fail, CoreTypes
<1>3. QED
  BY <1>1, <1>2

\* What removing members, the user included, leaves of the document.
LEMMA RemovedOthers ==
    ASSUME CoreTypes, NEW new \in State
    PROVE  \A gone \in SUBSET (Removed(state, new) \cap DOMAIN doc.wraps) :
                 /\ [doc EXCEPT !.wraps = Without(@, gone)]
                       = [secrets |-> doc.secrets, wraps |-> Without(doc.wraps, gone)]
                 /\ [doc EXCEPT !.wraps = Without(@, gone)] \in Doc
                 /\ DOMAIN Without(doc.wraps, gone) = DOMAIN doc.wraps \ gone
                 /\ Cardinality(gone) \in Nat
                 /\ Cardinality(gone) = 0 <=> gone = {}
<1>1. /\ doc = [secrets |-> doc.secrets, wraps |-> doc.wraps]
      /\ doc.secrets \in Partial(Secret, Entry) /\ doc.wraps \in Wraps
  BY DocElim DEF CoreTypes
<1>4. ASSUME NEW gone \in SUBSET (Removed(state, new) \cap DOMAIN doc.wraps)
      PROVE  /\ [doc EXCEPT !.wraps = Without(@, gone)]
                   = [secrets |-> doc.secrets, wraps |-> Without(doc.wraps, gone)]
             /\ [doc EXCEPT !.wraps = Without(@, gone)] \in Doc
             /\ DOMAIN Without(doc.wraps, gone) = DOMAIN doc.wraps \ gone
             /\ Cardinality(gone) \in Nat
             /\ Cardinality(gone) = 0 <=> gone = {}
  <2>1. Without(doc.wraps, gone) \in Wraps /\ DOMAIN Without(doc.wraps, gone) = DOMAIN doc.wraps \ gone
    BY <1>1, WrapsWithout
  <2>2. [doc EXCEPT !.wraps = Without(@, gone)]
           = [secrets |-> doc.secrets, wraps |-> Without(doc.wraps, gone)]
    BY <1>1
  <2>3. [doc EXCEPT !.wraps = Without(@, gone)] \in Doc
    BY <1>1, <2>1, <2>2 DEF Doc
  <2>4. IsFiniteSet(gone)
    <3>1. gone \subseteq Member
      BY <1>1, WrapsElim
    <3>2. QED
      BY <3>1, TuiAssumption, FS_Subset
  <2>5. Cardinality(gone) \in Nat /\ (Cardinality(gone) = 0 <=> gone = {})
    BY <2>4, FS_CardinalityType, FS_EmptySet
  <2>6. QED
    BY <2>1, <2>2, <2>3, <2>5
<1>5. QED
  BY <1>4

LEMMA RemoveMembersTypes ==
    ASSUME CoreTypes, NEW new \in State, RemoveMembers(new)
    PROVE  CoreTypes'
<1> DEFINE removed == Removed(state, new)
           n(gone) == Cardinality(gone)
           d(gone) == [doc EXCEPT !.wraps = Without(@, gone)]
<1>1. PICK gone \in SUBSET (removed \cap DOMAIN doc.wraps) :
          /\ gone = {} \/ Readable(doc, dek)
          /\ deks + n(gone) <= MaxDek
          /\ IF gone = removed
             THEN /\ deks' = deks + n(gone)
                  /\ Apply(Rotated(d(gone), deks + n(gone)), deks + n(gone))
             ELSE /\ ~Readable(doc, dek) \/ ~(removed \subseteq gone \cup DOMAIN doc.wraps)
                  /\ state' = new
                  /\ deks' = deks + n(gone)
                  /\ doc' = IF n(gone) = 0 THEN doc ELSE Rotated(d(gone), deks + n(gone))
                  /\ dek' = IF n(gone) = 0 THEN dek ELSE deks + n(gone)
  BY DEF RemoveMembers
<1>2. d(gone) \in Doc /\ n(gone) \in Nat
  BY RemovedOthers
<1>3. deks + n(gone) \in 1 .. MaxDek
  BY <1>1, <1>2, TuiAssumption DEF CoreTypes
<1>4. Rotated(d(gone), deks + n(gone)) \in Doc
  BY <1>2, <1>3, RotatedType
<1>5. CASE gone = removed
  BY <1>1, <1>3, <1>4, <1>5, ApplyTypes
<1>6. CASE gone # removed
  BY <1>1, <1>3, <1>4, <1>6 DEF CoreTypes
<1>7. QED
  BY <1>5, <1>6

LEMMA SaveTypes ==
    ASSUME CoreTypes, NEW new \in State, Save(new)
    PROVE  CoreTypes'
<1>1. CASE new.grants \cap DOMAIN new.wraps \cap foreign # {}
  BY <1>1 DEF Save, Fail, CoreTypes
<1>2. CASE new.grants \cap DOMAIN new.wraps \cap foreign = {}
  <2>1. Granted(new, dek) \in State
    BY GrantedType DEF CoreTypes
  <2>2. Reconciled(doc, state, Granted(new, dek), dek) \in Doc
    BY <2>1, ReconciledType DEF CoreTypes
  <2>3. /\ Apply(Reconciled(doc, state, Granted(new, dek), dek), dek)
        /\ deks' = deks
    BY <1>2 DEF Save
  <2>4. QED
    BY <2>2, <2>3, ApplyTypes DEF CoreTypes
<1>3. QED
  BY <1>1, <1>2

LEMMA SetStateTypes ==
    ASSUME TypeOK, SetState
    PROVE  TypeOK'
<1>1. /\ queue # <<>> /\ queue \in Seq(Item) /\ CoreTypes
  BY DEF SetState, TypeOK, CoreTypes
<1>2. Head(queue) \in Item /\ Tail(queue) \in Seq(Item)
  BY <1>1
<1>3. Head(queue).state \in State
  BY <1>2 DEF Item
<1>4. CoreTypes'
  <2>1. CASE FooterOnly(Head(queue).state)
    BY <1>1, <1>3, <2>1 DEF FooterOnly, CoreTypes
  <2>2. CASE RotateDek(Head(queue).state)
    BY <1>1, <1>3, <2>2, RotateDekTypes
  <2>3. CASE RemoveMembers(Head(queue).state)
    BY <1>1, <1>3, <2>3, RemoveMembersTypes
  <2>4. CASE Save(Head(queue).state)
    BY <1>1, <1>3, <2>4, SaveTypes
  <2>5. QED
    BY <2>1, <2>2, <2>3, <2>4 DEF SetState
<1>5. QED
  BY <1>2, <1>4 DEF SetState, TypeOK, CoreTypes

LEMMA SetItem ==
    ASSUME NEW why \in Edits \cup Footers \cup Controls, NEW old \in State, NEW new \in State
    PROVE  Set(why, old, new) \in Item
BY DEF Set, Item

LEMMA ControlItem ==
    ASSUME TypeOK, NEW why \in Controls
    PROVE  Control(why) \in Item
BY DEF Control, Item, TypeOK

LEMMA SendTypes ==
    ASSUME TypeOK, NEW q \in Seq(Item), Send(q),
           timers' \subseteq State, minted' \subseteq Secret, copies' \in 0 .. MaxCopies
    PROVE  TypeOK'
BY DEF Send, TypeOK

LEMMA PageTypes ==
    ASSUME TypeOK, NEW why \in Edits \cup Footers, NEW new \in State, Page(why, new)
    PROVE  TypeOK'
<1>1. Append(queue, Set(why, state, new)) \in Seq(Item)
  BY SetItem DEF TypeOK
<1>2. QED
  BY <1>1, SendTypes DEF Page, TypeOK

LEMMA FormTypes ==
    ASSUME TypeOK, NEW why \in Edits, NEW new \in State, Form(why, new),
           timers' = timers, minted' \subseteq Secret, copies' = copies
    PROVE  TypeOK'
<1>1. Set(why, state, new) \in Item /\ Control("navigate") \in Item
  BY SetItem, ControlItem DEF TypeOK, Controls
<1>2. Append(Append(queue, Set(why, state, new)), Control("navigate")) \in Seq(Item)
  BY <1>1 DEF TypeOK
<1>3. QED
  BY <1>2, SendTypes DEF Form, TypeOK

\* The States that pages make.
LEMMA StateChanges ==
    ASSUME NEW t \in State
    PROVE  /\ \A f \in Partial(Secret, Value) :
                 /\ [t EXCEPT !.secrets = f] \in State
                 /\ [t EXCEPT !.secrets = f] = [secrets |-> f, wraps |-> t.wraps,
                                                grants |-> t.grants, rotate |-> t.rotate]
           /\ \A w \in Wraps :
                 /\ [t EXCEPT !.wraps = w] \in State
                 /\ [t EXCEPT !.wraps = w] = [secrets |-> t.secrets, wraps |-> w,
                                              grants |-> t.grants, rotate |-> t.rotate]
           /\ \A g \in SUBSET Member :
                 /\ [t EXCEPT !.grants = g] \in State
                 /\ [t EXCEPT !.grants = g] = [secrets |-> t.secrets, wraps |-> t.wraps,
                                               grants |-> g, rotate |-> t.rotate]
           /\ [t EXCEPT !.rotate = TRUE] \in State
           /\ [t EXCEPT !.rotate = TRUE] = [secrets |-> t.secrets, wraps |-> t.wraps,
                                            grants |-> t.grants, rotate |-> TRUE]
<1>1. /\ t = [secrets |-> t.secrets, wraps |-> t.wraps,
              grants |-> t.grants, rotate |-> t.rotate]
      /\ t.secrets \in Partial(Secret, Value) /\ t.wraps \in Wraps
      /\ t.grants \subseteq Member /\ t.rotate \in BOOLEAN
  BY StateElim
<1>2. ASSUME NEW f \in Partial(Secret, Value)
      PROVE  /\ [t EXCEPT !.secrets = f] \in State
             /\ [t EXCEPT !.secrets = f] = [secrets |-> f, wraps |-> t.wraps, grants |-> t.grants, rotate |-> t.rotate]
  <2>1. [t EXCEPT !.secrets = f] = [secrets |-> f, wraps |-> t.wraps, grants |-> t.grants, rotate |-> t.rotate]
    BY <1>1
  <2>2. [secrets |-> f, wraps |-> t.wraps, grants |-> t.grants, rotate |-> t.rotate] \in State
    BY <1>1 DEF State
  <2>3. QED
    BY <2>1, <2>2
<1>3. ASSUME NEW w \in Wraps
      PROVE  /\ [t EXCEPT !.wraps = w] \in State
             /\ [t EXCEPT !.wraps = w] = [secrets |-> t.secrets, wraps |-> w, grants |-> t.grants, rotate |-> t.rotate]
  <2>1. [t EXCEPT !.wraps = w] = [secrets |-> t.secrets, wraps |-> w, grants |-> t.grants, rotate |-> t.rotate]
    BY <1>1
  <2>2. [secrets |-> t.secrets, wraps |-> w, grants |-> t.grants, rotate |-> t.rotate] \in State
    BY <1>1 DEF State
  <2>3. QED
    BY <2>1, <2>2
<1>4. ASSUME NEW g \in SUBSET Member
      PROVE  /\ [t EXCEPT !.grants = g] \in State
             /\ [t EXCEPT !.grants = g] = [secrets |-> t.secrets, wraps |-> t.wraps, grants |-> g, rotate |-> t.rotate]
  <2>1. [t EXCEPT !.grants = g] = [secrets |-> t.secrets, wraps |-> t.wraps, grants |-> g, rotate |-> t.rotate]
    BY <1>1
  <2>2. [secrets |-> t.secrets, wraps |-> t.wraps, grants |-> g, rotate |-> t.rotate] \in State
    BY <1>1 DEF State
  <2>3. QED
    BY <2>1, <2>2
<1>5. [t EXCEPT !.rotate = TRUE] = [secrets |-> t.secrets, wraps |-> t.wraps, grants |-> t.grants, rotate |-> TRUE]
  <2>1. ASSUME NEW b PROVE [t EXCEPT !.rotate = b] = [secrets |-> t.secrets, wraps |-> t.wraps, grants |-> t.grants, rotate |-> b]
    <3>1. t = [secrets |-> t.secrets, wraps |-> t.wraps,
               grants |-> t.grants, rotate |-> t.rotate]
      BY <1>1
    <3>2. QED
      BY <3>1
  <2>2. QED
    BY <2>1, Zenon
<1>6. [secrets |-> t.secrets, wraps |-> t.wraps, grants |-> t.grants, rotate |-> TRUE] \in State
  BY <1>1 DEF State
<1>7. QED
  BY <1>2, <1>3, <1>4, <1>5, <1>6

LEMMA EventTypes ==
    ASSUME TypeOK, Event
    PROVE  TypeOK'
<1>1. /\ state \in State /\ queue \in Seq(Item) /\ minted \subseteq Secret
      /\ timers \subseteq State
  BY DEF TypeOK
<1>2. /\ state.secrets \in Partial(Secret, Value) /\ state.wraps \in Wraps
      /\ state.grants \subseteq Member
      /\ DOMAIN state.secrets \subseteq Secret
      /\ state.secrets \in [DOMAIN state.secrets -> Value]
  BY <1>1, StateElim
<1>3. ASSUME AddSecret PROVE TypeOK'
  <2>1. PICK s \in Secret \ minted, v \in Value :
          /\ Form("add", [state EXCEPT !.secrets = With(@, s, v)])
          /\ minted' = minted \cup {s}
          /\ UNCHANGED <<timers, copies>>
    BY <1>3 DEF AddSecret
  <2>2. With(state.secrets, s, v) \in Partial(Secret, Value)
    BY <1>2, WithType
  <2>3. [state EXCEPT !.secrets = With(@, s, v)] \in State
    BY <1>1, <2>2, StateChanges
  <2>4. QED
    BY <1>1, <2>1, <2>3, FormTypes DEF Edits
<1>4. ASSUME EditSecret PROVE TypeOK'
  <2>1. PICK s \in DOMAIN state.secrets, v \in Value :
          /\ Form("edit", [state EXCEPT !.secrets[s] = v])
          /\ UNCHANGED <<timers, minted, copies>>
    BY <1>4 DEF EditSecret
  <2>2. [state.secrets EXCEPT ![s] = v] \in Partial(Secret, Value)
    BY <1>2, PartialIntro
  <2>3. [state EXCEPT !.secrets[s] = v] \in State
    BY <1>1, <2>2, StateChanges
  <2>4. QED
    BY <1>1, <2>1, <2>3, FormTypes DEF Edits
<1>5. ASSUME DeleteSecret PROVE TypeOK'
  <2>1. PICK s \in DOMAIN state.secrets :
          Page("delete", [state EXCEPT !.secrets = Without(@, {s})])
    BY <1>5 DEF DeleteSecret
  <2>2. Without(state.secrets, {s}) \in Partial(Secret, Value)
    BY <1>2, WithoutType
  <2>3. [state EXCEPT !.secrets = Without(@, {s})] \in State
    BY <1>1, <2>2, StateChanges
  <2>4. QED
    BY <2>1, <2>3, PageTypes DEF Edits
<1>6. ASSUME RemoveMember PROVE TypeOK'
  <2>1. PICK m \in DOMAIN state.wraps \ {Me} :
          Page("remove", [state EXCEPT !.wraps = Without(@, {m})])
    BY <1>6 DEF RemoveMember
  <2>2. Without(state.wraps, {m}) \in Wraps
    BY <1>2, WrapsWithout
  <2>3. [state EXCEPT !.wraps = Without(@, {m})] \in State
    BY <1>1, <2>2, StateChanges
  <2>4. QED
    BY <2>1, <2>3, PageTypes DEF Edits
<1>7. ASSUME GrantMember PROVE TypeOK'
  <2>1. PICK m \in DOMAIN state.wraps :
          Page("grant", [state EXCEPT !.grants = @ \cup {m}])
    BY <1>7 DEF GrantMember
  <2>2. state.grants \cup {m} \in SUBSET Member
    BY <1>2, WrapsElim
  <2>3. [state EXCEPT !.grants = @ \cup {m}] \in State
    BY <1>1, <2>2, StateChanges
  <2>4. QED
    BY <2>1, <2>3, PageTypes DEF Edits
<1>8. ASSUME AskRotation PROVE TypeOK'
  <2>1. [state EXCEPT !.rotate = TRUE] \in State
    BY <1>1, StateChanges
  <2>2. QED
    BY <1>8, <2>1, PageTypes DEF AskRotation, Edits
<1>9. ASSUME Hint PROVE TypeOK'
  BY <1>1, <1>9, PageTypes DEF Hint, Footers
<1>10. ASSUME PressSync \/ PressCompact PROVE TypeOK'
  <2>1. Control("sync") \in Item /\ Control("compact") \in Item
    BY ControlItem DEF Controls
  <2>2. Append(queue, Control("sync")) \in Seq(Item) /\ Append(queue, Control("compact")) \in Seq(Item)
    BY <1>1, <2>1
  <2>3. QED
    BY <1>1, <1>10, <2>2, SendTypes DEF PressSync, PressCompact, TypeOK
<1>11. ASSUME CopyToken PROVE TypeOK'
  <2>1. Set("hint", state, state) \in Item
    BY <1>1, SetItem DEF Footers
  <2>2. Append(queue, Set("hint", state, state)) \in Seq(Item)
    BY <1>1, <2>1
  <2>3. copies + 1 \in 0 .. MaxCopies
    BY <1>11, TuiAssumption DEF CopyToken, TypeOK
  <2>4. timers' \subseteq State /\ minted' \subseteq Secret
    BY <1>1, <1>11 DEF CopyToken
  <2>5. QED
    BY <1>11, <2>2, <2>3, <2>4, SendTypes DEF CopyToken
<1>12. QED
  BY <1>3, <1>4, <1>5, <1>6, <1>7, <1>8, <1>9, <1>10, <1>11 DEF Event

\* A document with other secrets, or other wraps.
LEMMA DocSecrets ==
    ASSUME NEW d \in Doc, NEW f \in Partial(Secret, Entry)
    PROVE  /\ [d EXCEPT !.secrets = f] \in Doc
           /\ [d EXCEPT !.secrets = f] = [secrets |-> f, wraps |-> d.wraps]
<1>1. d = [secrets |-> d.secrets, wraps |-> d.wraps] /\ d.wraps \in Wraps
  BY DocElim
<1>2. [d EXCEPT !.secrets = f] = [secrets |-> f, wraps |-> d.wraps]
  BY <1>1
<1>3. QED
  BY <1>1, <1>2 DEF Doc

LEMMA DocWraps ==
    ASSUME NEW d \in Doc, NEW w \in Wraps
    PROVE  /\ [d EXCEPT !.wraps = w] \in Doc
           /\ [d EXCEPT !.wraps = w] = [secrets |-> d.secrets, wraps |-> w]
<1>1. /\ d = [secrets |-> d.secrets, wraps |-> d.wraps]
      /\ d.secrets \in Partial(Secret, Entry)
  BY DocElim
<1>2. [d EXCEPT !.wraps = w] = [secrets |-> d.secrets, wraps |-> w]
  BY <1>1
<1>3. QED
  BY <1>1, <1>2 DEF Doc

\* What others do to a document: set a secret, drop one, set a wrap.
LEMMA SecretSet ==
    ASSUME NEW d \in Doc, NEW s \in Secret, NEW e \in Entry
    PROVE  /\ [d EXCEPT !.secrets = With(@, s, e)] \in Doc
           /\ DOMAIN [d EXCEPT !.secrets = With(@, s, e)].secrets = DOMAIN d.secrets \cup {s}
<1> DEFINE f == With(d.secrets, s, e)
<1>1. d.secrets \in Partial(Secret, Entry)
  BY DocElim
<1>2. f \in Partial(Secret, Entry)
  BY <1>1, WithType
<1>3. DOMAIN f = DOMAIN d.secrets \cup {s}
  BY DEF With
<1> HIDE DEF f
<1>4. [d EXCEPT !.secrets = f] \in Doc
  BY <1>2, DocSecrets
<1>5. [d EXCEPT !.secrets = f] = [secrets |-> f, wraps |-> d.wraps]
  BY <1>2, DocSecrets
<1>6. DOMAIN [d EXCEPT !.secrets = f].secrets = DOMAIN d.secrets \cup {s}
  BY <1>3, <1>5
<1>7. QED
  BY <1>4, <1>6 DEF f

LEMMA SecretEdited ==
    ASSUME NEW d \in Doc, NEW s \in DOMAIN d.secrets, NEW e \in Entry
    PROVE  /\ [d EXCEPT !.secrets[s] = e] \in Doc
           /\ DOMAIN [d EXCEPT !.secrets[s] = e].secrets = DOMAIN d.secrets
<1> DEFINE f == [d.secrets EXCEPT ![s] = e]
<1>1. DOMAIN d.secrets \subseteq Secret /\ d.secrets \in [DOMAIN d.secrets -> Entry]
  BY DocElim
<1>2. f \in [DOMAIN d.secrets -> Entry] /\ DOMAIN f = DOMAIN d.secrets
  BY <1>1
<1>3. f \in Partial(Secret, Entry)
  BY <1>1, <1>2, PartialIntro
<1>4. [d EXCEPT !.secrets[s] = e] = [d EXCEPT !.secrets = f]
  OBVIOUS
<1> HIDE DEF f
<1>5. [d EXCEPT !.secrets = f] \in Doc
  BY <1>3, DocSecrets
<1>6. [d EXCEPT !.secrets = f] = [secrets |-> f, wraps |-> d.wraps]
  BY <1>3, DocSecrets
<1>7. DOMAIN [d EXCEPT !.secrets = f].secrets = DOMAIN d.secrets
  BY <1>2, <1>6
<1>8. QED
  BY <1>4, <1>5, <1>7

LEMMA SecretDropped ==
    ASSUME NEW d \in Doc, NEW S
    PROVE  /\ [d EXCEPT !.secrets = Without(@, S)] \in Doc
           /\ DOMAIN [d EXCEPT !.secrets = Without(@, S)].secrets \subseteq DOMAIN d.secrets
<1> DEFINE f == Without(d.secrets, S)
<1>1. d.secrets \in Partial(Secret, Entry)
  BY DocElim
<1>2. f \in Partial(Secret, Entry)
  BY <1>1, WithoutType
<1>3. DOMAIN f \subseteq DOMAIN d.secrets
  BY DEF Without
<1> HIDE DEF f
<1>4. [d EXCEPT !.secrets = f] \in Doc
  BY <1>2, DocSecrets
<1>5. [d EXCEPT !.secrets = f] = [secrets |-> f, wraps |-> d.wraps]
  BY <1>2, DocSecrets
<1>6. DOMAIN [d EXCEPT !.secrets = f].secrets \subseteq DOMAIN d.secrets
  BY <1>3, <1>5
<1>7. QED
  BY <1>4, <1>6 DEF f

LEMMA MemberJoined ==
    ASSUME NEW d \in Doc, NEW m \in Member
    PROVE  /\ [d EXCEPT !.wraps = With(@, m, 0)] \in Doc
           /\ [d EXCEPT !.wraps = With(@, m, 0)].secrets = d.secrets
<1> DEFINE w == With(d.wraps, m, 0)
<1>0. 0 \in 0 .. MaxDek
  BY TuiAssumption
<1>1. d.wraps \in Wraps
  BY DocElim
<1>2. /\ DOMAIN d.wraps \subseteq Member /\ d.wraps \in [DOMAIN d.wraps -> 0 .. MaxDek]
  BY <1>1, WrapsElim
<1>3. w \in [DOMAIN d.wraps \cup {m} -> 0 .. MaxDek]
  BY <1>0, <1>2 DEF With
<1>4. w \in Wraps
  BY <1>2, <1>3, WrapsIntro
<1> HIDE DEF w
<1>5. [d EXCEPT !.wraps = w] \in Doc
  BY <1>4, DocWraps
<1>6. [d EXCEPT !.wraps = w] = [secrets |-> d.secrets, wraps |-> w]
  BY <1>4, DocWraps
<1>7. QED
  BY <1>5, <1>6 DEF w

LEMMA MemberWrapped ==
    ASSUME NEW d \in Doc, NEW m \in DOMAIN d.wraps, NEW k \in 1 .. MaxDek
    PROVE  /\ [d EXCEPT !.wraps[m] = k] \in Doc
           /\ [d EXCEPT !.wraps[m] = k].secrets = d.secrets
<1> DEFINE w == [d.wraps EXCEPT ![m] = k]
<1>0. k \in 0 .. MaxDek /\ k # 0
  BY TuiAssumption
<1>1. d.wraps \in Wraps
  BY DocElim
<1>2. /\ DOMAIN d.wraps \subseteq Member /\ d.wraps \in [DOMAIN d.wraps -> 0 .. MaxDek]
  BY <1>1, WrapsElim
<1>3. w \in [DOMAIN d.wraps -> 0 .. MaxDek]
  BY <1>0, <1>2
<1>4. w \in Wraps
  BY <1>2, <1>3, WrapsIntro
<1>5. [d EXCEPT !.wraps[m] = k] = [d EXCEPT !.wraps = w]
  OBVIOUS
<1> HIDE DEF w
<1>6. [d EXCEPT !.wraps = w] \in Doc
  BY <1>4, DocWraps
<1>7. [d EXCEPT !.wraps = w] = [secrets |-> d.secrets, wraps |-> w]
  BY <1>4, DocWraps
<1>8. QED
  BY <1>5, <1>6, <1>7

LEMMA SecretsElsewhereTypes ==
    ASSUME TypeOK, SecretsChangedElsewhere
    PROVE  /\ doc' \in Doc /\ deks' = deks
           /\ minted \subseteq minted' /\ minted' \subseteq Secret
           /\ DOMAIN doc.secrets \subseteq minted => DOMAIN doc'.secrets \subseteq minted'
<1>0. /\ MaxDek \in Nat /\ deks \in 1 .. MaxDek
      /\ minted \subseteq Secret /\ doc \in Doc /\ deks' = deks
  BY TuiAssumption DEF TypeOK, SecretsChangedElsewhere
<1>1. \A k \in 1 .. deks, v \in Value :
          [dek |-> k, value |-> v] \in Entry /\ [dek |-> 0, value |-> v] \in Entry
  BY <1>0 DEF Entry
<1>2. CASE \E s \in Secret \ minted, v \in Value, k \in 1 .. deks :
            /\ doc' = [doc EXCEPT !.secrets = With(@, s, [dek |-> k, value |-> v])]
            /\ minted' = minted \cup {s}
  <2>1. PICK s \in Secret \ minted, v \in Value, k \in 1 .. deks :
            /\ doc' = [doc EXCEPT !.secrets = With(@, s, [dek |-> k, value |-> v])]
            /\ minted' = minted \cup {s}
    BY <1>2
  <2> DEFINE e == [dek |-> k, value |-> v]
  <2>2. e \in Entry /\ doc' = [doc EXCEPT !.secrets = With(@, s, e)]
    BY <1>1, <2>1
  <2> HIDE DEF e
  <2>3. doc' \in Doc /\ DOMAIN doc'.secrets = DOMAIN doc.secrets \cup {s}
    BY <1>0, <2>2, SecretSet
  <2>4. QED
    BY <1>0, <2>1, <2>3
<1>3. CASE \E s \in DOMAIN doc.secrets, v \in Value, k \in 1 .. deks :
            /\ doc' = [doc EXCEPT !.secrets[s] =
                          [dek |-> IF k = @.dek THEN k ELSE 0, value |-> v]]
            /\ UNCHANGED minted
  <2>1. PICK s \in DOMAIN doc.secrets, v \in Value, k \in 1 .. deks :
            /\ doc' = [doc EXCEPT !.secrets[s] =
                          [dek |-> IF k = @.dek THEN k ELSE 0, value |-> v]]
            /\ UNCHANGED minted
    BY <1>3
  <2> DEFINE e == [dek |-> IF k = doc.secrets[s].dek THEN k ELSE 0, value |-> v]
  <2>2. e \in Entry /\ doc' = [doc EXCEPT !.secrets[s] = e]
    BY <1>1, <2>1
  <2> HIDE DEF e
  <2>3. doc' \in Doc /\ DOMAIN doc'.secrets = DOMAIN doc.secrets
    BY <1>0, <2>2, SecretEdited
  <2>4. QED
    BY <1>0, <2>1, <2>3
<1>4. CASE \E s \in DOMAIN doc.secrets :
            /\ doc' = [doc EXCEPT !.secrets = Without(@, {s})]
            /\ UNCHANGED minted
  <2>1. PICK s \in DOMAIN doc.secrets :
            /\ doc' = [doc EXCEPT !.secrets = Without(@, {s})]
            /\ UNCHANGED minted
    BY <1>4
  <2>2. doc' \in Doc /\ DOMAIN doc'.secrets \subseteq DOMAIN doc.secrets
    BY <1>0, <2>1, SecretDropped
  <2>3. QED
    BY <1>0, <2>1, <2>2
<1>5. QED
  BY <1>2, <1>3, <1>4 DEF SecretsChangedElsewhere

LEMMA MembersElsewhereTypes ==
    ASSUME TypeOK, MembersChangedElsewhere
    PROVE  /\ doc' \in Doc /\ deks' = deks /\ minted' = minted
           /\ doc'.secrets = doc.secrets
<1>0. /\ MaxDek \in Nat /\ deks \in 1 .. MaxDek /\ doc \in Doc
      /\ deks' = deks /\ minted' = minted
  BY TuiAssumption DEF TypeOK, MembersChangedElsewhere
<1>1. CASE \E m \in Member :
              doc' = [doc EXCEPT !.wraps = With(@, m, 0)]
  BY <1>0, <1>1, MemberJoined
<1>2. CASE \E m \in DOMAIN doc.wraps, k \in 1 .. deks :
              doc.wraps[m] = 0 /\ doc' = [doc EXCEPT !.wraps[m] = k]
  <2>1. PICK m \in DOMAIN doc.wraps, k \in 1 .. deks : doc' = [doc EXCEPT !.wraps[m] = k]
    BY <1>2
  <2>2. k \in 1 .. MaxDek
    BY <1>0
  <2>3. QED
    BY <1>0, <2>1, <2>2, MemberWrapped
<1>3. QED
  BY <1>1, <1>2 DEF MembersChangedElsewhere

LEMMA DekElsewhereTypes ==
    ASSUME TypeOK, DekRotatedElsewhere
    PROVE  /\ doc' \in Doc /\ deks' \in 1 .. MaxDek /\ deks' = deks + 1 /\ minted' = minted
           /\ DOMAIN doc'.secrets = DOMAIN doc.secrets
<1>0. MaxDek \in Nat /\ deks \in 1 .. MaxDek /\ doc \in Doc
  BY TuiAssumption DEF TypeOK
<1>1. PICK out \in SUBSET DOMAIN doc.wraps, seen \in SUBSET DOMAIN doc.secrets :
        /\ deks < MaxDek /\ deks' = deks + 1
        /\ doc' = [secrets |-> [s \in DOMAIN doc.secrets |->
                                   IF s \in seen THEN Rotated(doc, deks').secrets[s]
                                   ELSE doc.secrets[s]],
                   wraps |-> Without(Rotated(doc, deks').wraps, out)]
        /\ UNCHANGED minted
  BY DEF DekRotatedElsewhere
<1> DEFINE r == Rotated(doc, deks')
           f == [s \in DOMAIN doc.secrets |->
                    IF s \in seen THEN r.secrets[s] ELSE doc.secrets[s]]
<1>2. deks' \in 1 .. MaxDek
  BY <1>0, <1>1
<1>3. /\ r \in Doc /\ DOMAIN r.secrets = DOMAIN doc.secrets
      /\ DOMAIN r.wraps = DOMAIN doc.wraps
  BY <1>0, <1>2, RotatedType
<1>4. doc' = [secrets |-> f, wraps |-> Without(r.wraps, out)]
  BY <1>1
<1> HIDE DEF r
<1>5. /\ r.wraps \in Wraps /\ r.secrets \in [DOMAIN doc.secrets -> Entry]
      /\ DOMAIN doc.secrets \subseteq Secret
      /\ doc.secrets \in [DOMAIN doc.secrets -> Entry]
  BY <1>0, <1>3, DocElim
<1>6. f \in [DOMAIN doc.secrets -> Entry]
  BY <1>5
<1>7. f \in Partial(Secret, Entry)
  BY <1>5, <1>6, PartialIntro
<1>8. Without(r.wraps, out) \in Wraps
  BY <1>5, WrapsWithout
<1>9. doc' \in Doc
  BY <1>4, <1>7, <1>8 DEF Doc
<1>10. DOMAIN doc'.secrets = DOMAIN doc.secrets
  BY <1>4
<1>11. QED
  BY <1>1, <1>2, <1>9, <1>10

LEMMA SyncDoneTypes ==
    ASSUME TypeOK, SyncDone
    PROVE  TypeOK'
<1>1. doc' \in Doc /\ deks' \in 1 .. MaxDek /\ minted' \subseteq Secret
  BY SecretsElsewhereTypes, MembersElsewhereTypes, DekElsewhereTypes DEF SyncDone, TypeOK
<1>2. state' \in State
  BY <1>1, DeriveType DEF SyncDone
<1>3. syncs' \in 0 .. MaxSyncs
  BY TuiAssumption DEF SyncDone, TypeOK
<1>4. QED
  BY <1>1, <1>2, <1>3 DEF SyncDone, TypeOK

LEMMA OtherDrainTypes ==
    ASSUME TypeOK, NavigateTo \/ StartSync \/ Compact
    PROVE  TypeOK'
<1>1. queue # <<>> /\ queue \in Seq(Item) /\ state \in State /\ doc \in Doc
  BY DEF TypeOK, NavigateTo, StartSync, Compact, Taken
<1>2. Tail(queue) \in Seq(Item) /\ Set("hint", state, state) \in Item
  <2>1. Tail(queue) \in Seq(Item)
    BY <1>1
  <2>2. Set("hint", state, state) \in Item
    BY <1>1, SetItem DEF Footers
  <2>3. QED
    BY <2>1, <2>2
<1>3. Append(Tail(queue), Set("hint", state, state)) \in Seq(Item)
  BY <1>2
<1>4. Derive(doc, dek) \in State
  BY <1>1, DeriveType
<1>5. CASE NavigateTo
  BY <1>3, <1>5 DEF NavigateTo, TypeOK, history
<1>6. CASE StartSync
  BY <1>2, <1>6 DEF StartSync, TypeOK, history
<1>7. CASE Compact
  BY <1>2, <1>4, <1>7 DEF Compact, TypeOK, history
<1>8. QED
  BY <1>5, <1>6, <1>7

LEMMA OtherTypes ==
    ASSUME TypeOK, TimerFires \/ SyncIdle \/ SyncFailed \/ Reopen
    PROVE  TypeOK'
<1>1. CASE TimerFires
  <2>1. PICK t \in timers : queue' = Append(queue, Set("reset", t, t)) /\ timers' = timers \ {t}
    BY <1>1 DEF TimerFires
  <2>2. Set("reset", t, t) \in Item /\ queue \in Seq(Item)
    BY <2>1, SetItem DEF Footers, TypeOK
  <2>3. queue' \in Seq(Item)
    BY <2>1, <2>2
  <2>4. QED
    BY <1>1, <2>1, <2>3 DEF TimerFires, TypeOK, history
<1>2. CASE SyncIdle
  BY <1>2, DeriveType DEF SyncIdle, TypeOK, history
<1>3. CASE SyncFailed
  BY <1>3 DEF SyncFailed, TypeOK, history
<1>4. CASE Reopen
  <2>1. doc \in Doc /\ MaxDek \in Nat
    BY TuiAssumption DEF TypeOK
  <2>2. doc.wraps \in Wraps
    BY <2>1, DocElim
  <2>3. doc.wraps[Me] \in 1 .. MaxDek
    BY <1>4, <2>1, <2>2, WrapsElim DEF Reopen
  <2>4. Derive(doc, dek') \in State
    BY <2>1, DeriveType
  <2>5. QED
    BY <1>4, <2>3, <2>4 DEF Reopen, TypeOK
<1>5. QED
  BY <1>1, <1>2, <1>3, <1>4

LEMMA InitTypes == Init => TypeOK
<1> SUFFICES ASSUME Init PROVE TypeOK
  OBVIOUS
<1>0. MaxDek \in Nat /\ 1 \in 1 .. MaxDek /\ Me \in Member
  BY TuiAssumption
<1>1. PICK S \in SUBSET Secret, M \in SUBSET (Member \ {Me}) :
       \E wraps \in [M -> {0, 1}], v \in Value :
          doc = [secrets |-> [s \in S |-> [dek |-> 1, value |-> v]],
                 wraps |-> With(wraps, Me, 1)]
  BY DEF Init
<1>2. PICK wraps \in [M -> {0, 1}], v \in Value :
          doc = [secrets |-> [s \in S |-> [dek |-> 1, value |-> v]],
                 wraps |-> With(wraps, Me, 1)]
  BY <1>1
<1>3. [dek |-> 1, value |-> v] \in Entry
  BY <1>0 DEF Entry
<1>4. [s \in S |-> [dek |-> 1, value |-> v]] \in Partial(Secret, Entry)
  <2> DEFINE f == [s \in S |-> [dek |-> 1, value |-> v]]
  <2>1. f \in [S -> Entry]
    BY <1>3
  <2>2. QED
    BY <2>1, PartialIntro
<1>5. With(wraps, Me, 1) \in [M \cup {Me} -> 0 .. MaxDek] /\ With(wraps, Me, 1)[Me] = 1
  BY <1>0 DEF With
<1>6. With(wraps, Me, 1) \in Wraps
  BY <1>0, <1>5, WrapsIntro
<1>7. doc \in Doc
  BY <1>2, <1>4, <1>6 DEF Doc
<1>8. Derive(doc, dek) \in State /\ DOMAIN doc.secrets \subseteq Secret
  BY <1>7, DeriveType, DocElim
<1>9. queue \in Seq(Item) /\ timers \subseteq State
  BY DEF Init
<1>10. /\ foreign \subseteq Member
       /\ dek \in 1 .. MaxDek /\ deks \in 1 .. MaxDek
       /\ copies \in 0 .. MaxCopies /\ syncs \in 0 .. MaxSyncs
  BY <1>0, TuiAssumption DEF Init
<1>11. QED
  BY <1>7, <1>8, <1>9, <1>10 DEF Init, TypeOK

LEMMA NextTypes == TypeOK /\ [Next]_vars => TypeOK'
<1>1. ASSUME TypeOK, Next PROVE TypeOK'
  BY <1>1, SetStateTypes, OtherDrainTypes, EventTypes, SyncDoneTypes, OtherTypes
     DEF Next, Drain
<1>2. ASSUME TypeOK, UNCHANGED vars PROVE TypeOK'
  BY <1>2 DEF vars, TypeOK
<1>3. QED
  BY <1>1, <1>2

\* TuiSession: whatever the user, the others and the late States do, also when
\* a pull brings the user's own removal, the document and every State on its way
\* stay well formed, and the session has a DEK.
THEOREM SessionTypes == Spec => []TypeOK
<1>1. QED
  BY InitTypes, NextTypes, PTL DEF Spec

-----------------------------------------------------------------------------
(***************************************************************************)
(* What keeps the State shown and the document together.  While no State   *)
(* was applied late and nothing came in under another DEK, each State in   *)
(* the queue differs from the one it was made from as its key event asked, *)
(* and the State of the loop is the document's, but for edits that wait    *)
(* behind a grant that cannot be verified.                                 *)
(***************************************************************************)
Dropped(b, n) == DOMAIN b.secrets \ DOMAIN n.secrets
Touched(b, n) ==
    {s \in DOMAIN b.secrets \cap DOMAIN n.secrets : b.secrets[s] # n.secrets[s]}

\* How State n, sent for the reason why, may differ from b it was made from.
Asked(why, b, n) ==
    /\ b.grants \subseteq n.grants
    /\ \/ n.wraps = b.wraps
       \/ why = "remove" /\ \E m \in DOMAIN b.wraps : n.wraps = Without(b.wraps, {m})
    /\ Dropped(b, n) = {} \/ (why = "delete" /\ \E s \in Secret : Dropped(b, n) = {s})
    /\ Touched(b, n) = {} \/ (why = "edit" /\ \E s \in Secret : Touched(b, n) = {s})

Good(ids) == {i \in Item : Asked(i.why, i.base, i.state) /\ DOMAIN i.state.secrets \subseteq ids}

\* An id is never minted again, not even the one of a secret that only a late
\* State still has.
MintedInv ==
    /\ DOMAIN doc.secrets \subseteq minted
    /\ \A t \in timers \cup {state} : DOMAIN t.secrets \subseteq minted
    /\ queue \in Seq(Good(minted))

Quiet ==
    /\ Uniform(doc, dek)
    /\ state.wraps = doc.wraps /\ ~state.rotate
    /\ state.grants = {} => state.secrets = Derive(doc, dek).secrets
    /\ state.grants # {} => state.grants \cap DOMAIN state.wraps \cap foreign # {}

SessionInv == TypeOK /\ MintedInv /\ (stale \/ mixed \/ Quiet)

-----------------------------------------------------------------------------
(***************************************************************************)
(* Key events                                                              *)
(***************************************************************************)
LEMMA GoodGrows ==
    ASSUME NEW A, NEW B, A \subseteq B, NEW q \in Seq(Good(A))
    PROVE  q \in Seq(Good(B))
<1>1. Good(A) \subseteq Good(B)
  BY DEF Good
<1>2. QED
  BY <1>1, SeqDef

LEMMA SetGood ==
    ASSUME NEW why \in Edits \cup Footers \cup Controls,
           NEW b \in State, NEW n \in State, NEW ids,
           Asked(why, b, n), DOMAIN n.secrets \subseteq ids
    PROVE  Set(why, b, n) \in Good(ids)
BY SetItem DEF Good, Set

LEMMA SameAsked ==
    ASSUME NEW why, NEW b
    PROVE  Asked(why, b, b)
BY DEF Asked, Dropped, Touched

LEMMA SendInv ==
    ASSUME SessionInv, TypeOK', NEW q, Send(q), q \in Seq(Good(minted')),
           minted \subseteq minted', timers' \subseteq timers \cup {state}
    PROVE  SessionInv'
<1>1. MintedInv'
  BY DEF SessionInv, MintedInv, Send
<1>2. (stale \/ mixed \/ Quiet)'
  BY DEF SessionInv, Quiet, Send
<1>3. QED
  BY <1>1, <1>2 DEF SessionInv

LEMMA PageInv ==
    ASSUME SessionInv, NEW why \in Edits \cup Footers, NEW new \in State, Page(why, new),
           Asked(why, state, new), DOMAIN new.secrets \subseteq minted
    PROVE  SessionInv'
<1>1. TypeOK'
  BY PageTypes DEF SessionInv
<1>2. Set(why, state, new) \in Good(minted)
  BY SetGood DEF SessionInv, TypeOK
<1>3. Append(queue, Set(why, state, new)) \in Seq(Good(minted))
  BY <1>2 DEF SessionInv, MintedInv
<1>4. QED
  BY <1>1, <1>3, SendInv DEF Page

LEMMA FormInv ==
    ASSUME SessionInv, NEW why \in Edits, NEW new \in State, Form(why, new),
           timers' = timers, minted \subseteq minted', minted' \subseteq Secret, copies' = copies,
           Asked(why, state, new), DOMAIN new.secrets \subseteq minted'
    PROVE  SessionInv'
<1>1. TypeOK'
  BY FormTypes DEF SessionInv
<1>2. Set(why, state, new) \in Good(minted')
  BY SetGood DEF SessionInv, TypeOK
<1>3. Control("navigate") \in Good(minted')
  <2>1. Control("navigate") = Set("navigate", state, state)
    BY DEF Control, Set
  <2>2. QED
    BY <2>1, SetGood, SameAsked DEF SessionInv, TypeOK, MintedInv, Controls
<1>4. queue \in Seq(Good(minted'))
  BY GoodGrows DEF SessionInv, MintedInv
<1>5. Append(Append(queue, Set(why, state, new)), Control("navigate")) \in Seq(Good(minted'))
  BY <1>2, <1>3, <1>4
<1>6. QED
  BY <1>1, <1>5, SendInv DEF Form

\* The States that pages make differ from their own as asked.
LEMMA AddAsked ==
    ASSUME NEW b \in State, NEW s \in Secret \ DOMAIN b.secrets, NEW v \in Value, NEW n \in State,
           n = [b EXCEPT !.secrets = With(@, s, v)]
    PROVE  Asked("add", b, n) /\ DOMAIN n.secrets = DOMAIN b.secrets \cup {s}
<1> DEFINE f == With(b.secrets, s, v)
<1>1. n.secrets = f /\ n.wraps = b.wraps /\ n.grants = b.grants
  BY StateElim
<1>2. /\ DOMAIN f = DOMAIN b.secrets \cup {s}
      /\ \A x \in DOMAIN b.secrets : f[x] = b.secrets[x]
  BY DEF With
<1> HIDE DEF f
<1>3. Dropped(b, n) = {} /\ Touched(b, n) = {}
  BY <1>1, <1>2 DEF Dropped, Touched
<1>4. QED
  BY <1>1, <1>2, <1>3 DEF Asked

LEMMA EditAsked ==
    ASSUME NEW b \in State, NEW s \in DOMAIN b.secrets, NEW v \in Value, NEW n \in State,
           n = [b EXCEPT !.secrets[s] = v]
    PROVE  Asked("edit", b, n) /\ DOMAIN n.secrets = DOMAIN b.secrets
<1> DEFINE f == [b.secrets EXCEPT ![s] = v]
<1>1. n.secrets = f /\ n.wraps = b.wraps /\ n.grants = b.grants
  BY StateElim
<1>2. DOMAIN b.secrets \subseteq Secret /\ b.secrets \in [DOMAIN b.secrets -> Value]
  BY StateElim
<1>3. /\ DOMAIN f = DOMAIN b.secrets
      /\ \A x \in DOMAIN b.secrets : x # s => f[x] = b.secrets[x]
  BY <1>2
<1> HIDE DEF f
<1>4. Dropped(b, n) = {} /\ Touched(b, n) \subseteq {s}
  BY <1>1, <1>3 DEF Dropped, Touched
<1>5. Touched(b, n) = {} \/ Touched(b, n) = {s}
  BY <1>4
<1>6. s \in Secret
  BY <1>2
<1>7. QED
  BY <1>1, <1>3, <1>4, <1>5, <1>6 DEF Asked

LEMMA DeleteAsked ==
    ASSUME NEW b \in State, NEW s \in DOMAIN b.secrets, NEW n \in State,
           n = [b EXCEPT !.secrets = Without(@, {s})]
    PROVE  Asked("delete", b, n) /\ DOMAIN n.secrets = DOMAIN b.secrets \ {s}
<1> DEFINE f == Without(b.secrets, {s})
<1>1. n.secrets = f /\ n.wraps = b.wraps /\ n.grants = b.grants
  BY StateElim
<1>2. /\ DOMAIN f = DOMAIN b.secrets \ {s}
      /\ \A x \in DOMAIN b.secrets \ {s} : f[x] = b.secrets[x]
  BY DEF Without
<1> HIDE DEF f
<1>3. Dropped(b, n) = {s} /\ Touched(b, n) = {}
  BY <1>1, <1>2 DEF Dropped, Touched
<1>4. s \in Secret
  BY StateElim
<1>5. QED
  BY <1>1, <1>2, <1>3, <1>4 DEF Asked

LEMMA RemoveAsked ==
    ASSUME NEW b \in State, NEW m \in DOMAIN b.wraps, NEW n \in State,
           n = [b EXCEPT !.wraps = Without(@, {m})]
    PROVE  Asked("remove", b, n) /\ n.secrets = b.secrets
<1>1. n.secrets = b.secrets /\ n.wraps = Without(b.wraps, {m}) /\ n.grants = b.grants
  BY StateElim
<1>2. Dropped(b, n) = {} /\ Touched(b, n) = {}
  BY <1>1 DEF Dropped, Touched
<1>3. QED
  BY <1>1, <1>2 DEF Asked

LEMMA SignalAsked ==
    ASSUME NEW b \in State, NEW n \in State, NEW g, NEW r, NEW why, b.grants \subseteq g,
           n = [secrets |-> b.secrets, wraps |-> b.wraps, grants |-> g, rotate |-> r]
    PROVE  Asked(why, b, n) /\ n.secrets = b.secrets
BY DEF Asked, Dropped, Touched

LEMMA EventInv ==
    ASSUME SessionInv, Event
    PROVE  SessionInv'
<1>0. state \in State /\ DOMAIN state.secrets \subseteq minted /\ minted \subseteq Secret
  BY DEF SessionInv, TypeOK, MintedInv
<1>1. /\ state.secrets \in Partial(Secret, Value) /\ state.wraps \in Wraps
      /\ state.grants \subseteq Member
      /\ state.secrets \in [DOMAIN state.secrets -> Value]
  BY <1>0, StateElim
<1>2. TypeOK'
  BY EventTypes DEF SessionInv
<1>3. ASSUME AddSecret PROVE SessionInv'
  <2>1. PICK s \in Secret \ minted, v \in Value :
          /\ Form("add", [state EXCEPT !.secrets = With(@, s, v)])
          /\ minted' = minted \cup {s}
          /\ UNCHANGED <<timers, copies>>
    BY <1>3 DEF AddSecret
  <2> DEFINE n == [state EXCEPT !.secrets = With(@, s, v)]
  <2>2. With(state.secrets, s, v) \in Partial(Secret, Value)
    BY <1>1, WithType
  <2>3. n \in State
    BY <1>0, <2>2, StateChanges
  <2>4. Asked("add", state, n) /\ DOMAIN n.secrets = DOMAIN state.secrets \cup {s}
    BY <1>0, <2>3, AddAsked
  <2>5. Form("add", n)
    BY <2>1
  <2> HIDE DEF n
  <2>6. QED
    BY <1>0, <2>1, <2>3, <2>4, <2>5, FormInv DEF Edits
<1>4. ASSUME EditSecret PROVE SessionInv'
  <2>1. PICK s \in DOMAIN state.secrets, v \in Value :
          /\ Form("edit", [state EXCEPT !.secrets[s] = v])
          /\ UNCHANGED <<timers, minted, copies>>
    BY <1>4 DEF EditSecret
  <2> DEFINE n == [state EXCEPT !.secrets[s] = v]
  <2>2. [state.secrets EXCEPT ![s] = v] \in Partial(Secret, Value)
    <3>1. [state.secrets EXCEPT ![s] = v] \in [DOMAIN state.secrets -> Value]
      BY <1>1
    <3>2. QED
      BY <1>0, <3>1, PartialIntro
  <2>3. n \in State
    BY <1>0, <2>2, StateChanges
  <2>4. Asked("edit", state, n) /\ DOMAIN n.secrets = DOMAIN state.secrets
    BY <1>0, <2>3, EditAsked
  <2>5. Form("edit", n)
    BY <2>1
  <2> HIDE DEF n
  <2>6. QED
    BY <1>0, <2>1, <2>3, <2>4, <2>5, FormInv DEF Edits
<1>5. ASSUME DeleteSecret PROVE SessionInv'
  <2>1. PICK s \in DOMAIN state.secrets :
          Page("delete", [state EXCEPT !.secrets = Without(@, {s})])
    BY <1>5 DEF DeleteSecret
  <2> DEFINE n == [state EXCEPT !.secrets = Without(@, {s})]
  <2>2. Without(state.secrets, {s}) \in Partial(Secret, Value)
    BY <1>1, WithoutType
  <2>3. n \in State
    BY <1>0, <2>2, StateChanges
  <2>4. Asked("delete", state, n) /\ DOMAIN n.secrets = DOMAIN state.secrets \ {s}
    BY <1>0, <2>3, DeleteAsked
  <2>5. Page("delete", n)
    BY <2>1
  <2> HIDE DEF n
  <2>6. QED
    BY <1>0, <2>3, <2>4, <2>5, PageInv DEF Edits
<1>6. ASSUME RemoveMember PROVE SessionInv'
  <2>1. PICK m \in DOMAIN state.wraps \ {Me} :
          Page("remove", [state EXCEPT !.wraps = Without(@, {m})])
    BY <1>6 DEF RemoveMember
  <2> DEFINE n == [state EXCEPT !.wraps = Without(@, {m})]
  <2>2. Without(state.wraps, {m}) \in Wraps
    BY <1>1, WrapsWithout
  <2>3. n \in State
    BY <1>0, <2>2, StateChanges
  <2>4. Asked("remove", state, n) /\ n.secrets = state.secrets
    BY <1>0, <2>3, RemoveAsked
  <2>5. Page("remove", n)
    BY <2>1
  <2> HIDE DEF n
  <2>6. QED
    BY <1>0, <2>3, <2>4, <2>5, PageInv DEF Edits
<1>7. ASSUME GrantMember PROVE SessionInv'
  <2>1. PICK m \in DOMAIN state.wraps :
          Page("grant", [state EXCEPT !.grants = @ \cup {m}])
    BY <1>7 DEF GrantMember
  <2> DEFINE g == state.grants \cup {m}
             n == [state EXCEPT !.grants = g]
  <2>2. g \in SUBSET Member
    BY <1>1, WrapsElim
  <2>3. n \in State
    BY <1>0, <2>2, StateChanges
  <2>4. n = [secrets |-> state.secrets, wraps |-> state.wraps,
             grants |-> g, rotate |-> state.rotate]
    BY <1>0, <2>2, StateChanges
  <2>5. Page("grant", n) /\ state.grants \subseteq g
    BY <2>1
  <2> HIDE DEF n, g
  <2>6. Asked("grant", state, n) /\ n.secrets = state.secrets
    BY <1>0, <2>3, <2>4, <2>5, SignalAsked
  <2>7. QED
    BY <1>0, <2>3, <2>5, <2>6, PageInv DEF Edits
<1>8. ASSUME AskRotation PROVE SessionInv'
  <2> DEFINE n == [state EXCEPT !.rotate = TRUE]
  <2>1. n \in State
    BY <1>0, StateChanges
  <2>2. n = [secrets |-> state.secrets, wraps |-> state.wraps,
             grants |-> state.grants, rotate |-> TRUE]
    BY <1>0, StateChanges
  <2>3. Page("rotate", n)
    BY <1>8 DEF AskRotation
  <2> HIDE DEF n
  <2>4. Asked("rotate", state, n) /\ n.secrets = state.secrets
    BY <1>0, <2>1, <2>2, SignalAsked
  <2>5. QED
    BY <1>0, <2>1, <2>3, <2>4, PageInv DEF Edits
<1>9. ASSUME Hint PROVE SessionInv'
  BY <1>0, <1>9, SameAsked, PageInv DEF Hint, Footers
<1>10. ASSUME PressSync \/ PressCompact PROVE SessionInv'
  <2>1. /\ Control("sync") = Set("sync", state, state)
        /\ Control("compact") = Set("compact", state, state)
    BY DEF Control, Set
  <2>2. Control("sync") \in Good(minted) /\ Control("compact") \in Good(minted)
    BY <1>0, <2>1, SetGood, SameAsked DEF Controls
  <2>3. /\ Append(queue, Control("sync")) \in Seq(Good(minted))
        /\ Append(queue, Control("compact")) \in Seq(Good(minted))
    BY <2>2 DEF SessionInv, MintedInv
  <2>4. QED
    BY <1>2, <1>10, <2>3, SendInv DEF PressSync, PressCompact
<1>11. ASSUME CopyToken PROVE SessionInv'
  <2>1. Set("hint", state, state) \in Good(minted)
    BY <1>0, SetGood, SameAsked DEF Footers
  <2>2. Append(queue, Set("hint", state, state)) \in Seq(Good(minted))
    BY <2>1 DEF SessionInv, MintedInv
  <2>3. QED
    BY <1>2, <1>11, <2>2, SendInv DEF CopyToken
<1>12. QED
  BY <1>3, <1>4, <1>5, <1>6, <1>7, <1>8, <1>9, <1>10, <1>11 DEF Event

-----------------------------------------------------------------------------
(***************************************************************************)
(* The end of a pull, late States, another page, opening the UI again      *)
(***************************************************************************)
LEMMA DeriveIds ==
    ASSUME NEW d \in Doc, NEW k
    PROVE  /\ DOMAIN Derive(d, k).secrets \subseteq DOMAIN d.secrets
           /\ Derive(d, k).wraps = d.wraps
           /\ Derive(d, k).grants = {} /\ Derive(d, k).rotate = FALSE
BY DEF Derive

\* The State of the loop has just been derived.
LEMMA Derived ==
    ASSUME TypeOK', state' = Derive(doc', dek'), Uniform(doc', dek')
    PROVE  Quiet'
BY DeriveIds DEF Quiet, TypeOK

LEMMA DrainInv ==
    ASSUME SessionInv, NavigateTo \/ StartSync \/ Compact
    PROVE  SessionInv'
<1>1. TypeOK'
  BY OtherDrainTypes DEF SessionInv
<1>2. /\ queue # <<>> /\ queue \in Seq(Good(minted)) /\ minted' = minted /\ timers' = timers
      /\ state \in State /\ doc \in Doc /\ doc' = doc /\ dek' = dek /\ foreign' = foreign
      /\ stale' = stale /\ mixed' = mixed
      /\ DOMAIN doc.secrets \subseteq minted
      /\ \A t \in timers \cup {state} : DOMAIN t.secrets \subseteq minted
  BY DEF SessionInv, TypeOK, MintedInv, NavigateTo, StartSync, Compact, Taken, history
<1>3. Tail(queue) \in Seq(Good(minted))
  BY <1>2
<1>4. Set("hint", state, state) \in Good(minted)
  BY <1>2, SetGood, SameAsked DEF Footers
<1>5. queue' \in Seq(Good(minted))
  BY <1>3, <1>4 DEF NavigateTo, StartSync, Compact
<1>6. CASE state' = state
  BY <1>1, <1>2, <1>5, <1>6 DEF SessionInv, MintedInv, Quiet
<1>7. CASE state' = Derive(doc', dek')
  <2>1. DOMAIN state'.secrets \subseteq minted
    BY <1>2, <1>7, DeriveIds
  <2>2. MintedInv'
    BY <1>2, <1>5, <2>1 DEF MintedInv
  <2>3. Quiet => Quiet'
    BY <1>1, <1>2, <1>7, Derived DEF Quiet
  <2>4. QED
    BY <1>1, <1>2, <2>2, <2>3 DEF SessionInv
<1>8. state' = state \/ state' = Derive(doc', dek')
  BY <1>2 DEF NavigateTo, StartSync, Compact
<1>9. QED
  BY <1>6, <1>7, <1>8

LEMMA SyncDoneInv ==
    ASSUME SessionInv, SyncDone
    PROVE  SessionInv'
<1>1. TypeOK'
  BY SyncDoneTypes DEF SessionInv
<1>2. minted \subseteq minted' /\ DOMAIN doc'.secrets \subseteq minted'
  <2>1. CASE SecretsChangedElsewhere
    BY <2>1, SecretsElsewhereTypes DEF SessionInv, MintedInv
  <2>2. CASE MembersChangedElsewhere
    BY <2>2, MembersElsewhereTypes DEF SessionInv, MintedInv
  <2>3. CASE DekRotatedElsewhere
    BY <2>3, DekElsewhereTypes DEF SessionInv, MintedInv
  <2>4. QED
    BY <2>1, <2>2, <2>3 DEF SyncDone
<1>3. /\ state' = Derive(doc', dek') /\ timers' = timers /\ queue' = queue
      /\ stale' = stale /\ mixed' = (mixed \/ ~Uniform(doc', dek'))
  BY DEF SyncDone
<1>4. DOMAIN state'.secrets \subseteq minted'
  BY <1>1, <1>2, <1>3, DeriveIds DEF TypeOK
<1>5. queue' \in Seq(Good(minted'))
  BY <1>2, <1>3, GoodGrows DEF SessionInv, MintedInv
<1>6. MintedInv'
  BY <1>2, <1>3, <1>4, <1>5 DEF SessionInv, MintedInv
<1>7. Uniform(doc', dek') => Quiet'
  BY <1>1, <1>3, Derived
<1>8. QED
  BY <1>1, <1>3, <1>6, <1>7 DEF SessionInv

\* A document under one DEK is unlocked with that DEK again.
LEMMA ReopenInv ==
    ASSUME SessionInv, Reopen
    PROVE  SessionInv'
<1>1. TypeOK'
  BY OtherTypes DEF SessionInv
<1>2. /\ state' = Derive(doc', dek') /\ timers' = {} /\ queue' = queue /\ doc' = doc
      /\ dek' = doc.wraps[Me] /\ minted' = minted
      /\ stale' = (stale /\ ~Uniform(doc', dek')) /\ mixed' = (mixed /\ ~Uniform(doc', dek'))
  BY DEF Reopen
<1>3. DOMAIN state'.secrets \subseteq minted
  BY <1>1, <1>2, DeriveIds DEF TypeOK, SessionInv, MintedInv
<1>4. MintedInv'
  BY <1>2, <1>3 DEF SessionInv, MintedInv
<1>5. Uniform(doc', dek') => Quiet'
  BY <1>1, <1>2, Derived
<1>6. Quiet => Uniform(doc', dek')
  <2>1. Me \in DOMAIN doc.wraps /\ doc.wraps[Me] # 0
    BY DEF Reopen
  <2>2. Quiet => dek' = dek
    BY <1>2, <2>1 DEF Quiet, Uniform
  <2>3. QED
    BY <1>2, <2>2 DEF Quiet
<1>7. QED
  BY <1>1, <1>2, <1>4, <1>5, <1>6 DEF SessionInv

LEMMA OtherInv ==
    ASSUME SessionInv, TimerFires \/ SyncIdle \/ SyncFailed
    PROVE  SessionInv'
<1>1. TypeOK'
  BY OtherTypes DEF SessionInv
<1>2. CASE TimerFires
  <2>1. PICK t \in timers : queue' = Append(queue, Set("reset", t, t)) /\ timers' = timers \ {t}
    BY <1>2 DEF TimerFires
  <2>2. t \in State /\ DOMAIN t.secrets \subseteq minted
    BY <2>1 DEF SessionInv, TypeOK, MintedInv
  <2>3. Set("reset", t, t) \in Good(minted)
    BY <2>2, SetGood, SameAsked DEF Footers
  <2>4. queue' \in Seq(Good(minted))
    BY <2>1, <2>3 DEF SessionInv, MintedInv
  <2>5. MintedInv'
    BY <1>2, <2>1, <2>4 DEF TimerFires, history, SessionInv, MintedInv
  <2>6. QED
    BY <1>1, <1>2, <2>5 DEF TimerFires, history, SessionInv, Quiet
<1>3. CASE SyncIdle
  <2>1. /\ state' = Derive(doc', dek') /\ timers' = timers /\ queue' = queue /\ doc' = doc
        /\ dek' = dek /\ minted' = minted /\ stale' = stale /\ mixed' = mixed
    BY <1>3 DEF SyncIdle, history
  <2>2. DOMAIN state'.secrets \subseteq minted
    BY <1>1, <2>1, DeriveIds DEF TypeOK, SessionInv, MintedInv
  <2>3. MintedInv'
    BY <2>1, <2>2 DEF SessionInv, MintedInv
  <2>4. Quiet => Quiet'
    BY <1>1, <2>1, Derived DEF Quiet
  <2>5. QED
    BY <1>1, <2>1, <2>3, <2>4 DEF SessionInv
<1>4. CASE SyncFailed
  BY <1>1, <1>4 DEF SyncFailed, history, SessionInv, MintedInv, Quiet
<1>5. QED
  BY <1>2, <1>3, <1>4

-----------------------------------------------------------------------------
(***************************************************************************)
(* The loop applies a State                                                *)
(***************************************************************************)
\* The ids that an applied State may bring.
LEMMA SetStateIds ==
    ASSUME TypeOK, TypeOK', MintedInv, NEW new \in State, DOMAIN new.secrets \subseteq minted,
           FooterOnly(new) \/ RotateDek(new) \/ RemoveMembers(new) \/ Save(new)
    PROVE  DOMAIN doc'.secrets \subseteq minted /\ DOMAIN state'.secrets \subseteq minted
<1>1. doc \in Doc /\ state \in State /\ doc' \in Doc /\ dek \in 1 .. MaxDek /\ CoreTypes
  BY DEF TypeOK, CoreTypes
<1>2. DOMAIN doc'.secrets \subseteq minted
  <2>0. DOMAIN doc.secrets \subseteq minted
    BY DEF MintedInv
  <2>1. CASE FooterOnly(new)
    BY <2>0, <2>1 DEF FooterOnly
  <2>2. CASE RotateDek(new)
    <3>1. doc' = doc \/ doc' = Rotated(doc, deks + 1)
      BY <2>2 DEF RotateDek, Apply, Fail
    <3>2. DOMAIN Rotated(doc, deks + 1).secrets = DOMAIN doc.secrets
      BY DEF Rotated
    <3>3. QED
      BY <2>0, <3>1, <3>2
  <2>3. CASE RemoveMembers(new)
    <3>1. PICK gone \in SUBSET (Removed(state, new) \cap DOMAIN doc.wraps) : \E k :
            doc' = doc \/ doc' = Rotated([doc EXCEPT !.wraps = Without(@, gone)], k)
      BY <2>3 DEF RemoveMembers, Apply
    <3>2. PICK k : doc' = doc \/ doc' = Rotated([doc EXCEPT !.wraps = Without(@, gone)], k)
      BY <3>1
    <3>3. [doc EXCEPT !.wraps = Without(@, gone)].secrets = doc.secrets
      BY <1>1, DocElim
    <3>4. DOMAIN Rotated([doc EXCEPT !.wraps = Without(@, gone)], k).secrets = DOMAIN doc.secrets
      BY <3>3 DEF Rotated
    <3>5. QED
      BY <2>0, <3>2, <3>4
  <2>4. CASE Save(new)
    <3>1. doc' = doc \/ doc' = Reconciled(doc, state, Granted(new, dek), dek)
      BY <2>4 DEF Save, Apply, Fail
    <3>2. Granted(new, dek) \in State /\ Granted(new, dek).secrets = new.secrets
      BY <1>1, GrantedType
    <3>3. DOMAIN Reconciled(doc, state, Granted(new, dek), dek).secrets = DOMAIN new.secrets
      BY <1>1, <3>2, ReconciledType
    <3>4. QED
      BY <2>0, <3>1, <3>3
  <2>5. QED
    BY <2>1, <2>2, <2>3, <2>4
<1>3. state' = new \/ state' = Derive(doc', dek')
  BY DEF FooterOnly, RotateDek, RemoveMembers, Save, Apply, Fail
<1>4. QED
  BY <1>1, <1>2, <1>3, DeriveIds

\* Saving over a document that is shown as it is: the State that was saved is
\* what the document holds, all of it under the DEK of the session.
LEMMA ReconciledShows ==
    ASSUME NEW d \in Doc, NEW old \in State, NEW n \in State, NEW k \in 1 .. MaxDek,
           Readable(d, k), DOMAIN old.secrets = DOMAIN d.secrets,
           \A s \in DOMAIN d.secrets : old.secrets[s] = d.secrets[s].value
    PROVE  \A s \in DOMAIN n.secrets :
              Reconciled(d, old, n, k).secrets[s] = [dek |-> k, value |-> n.secrets[s]]
<1> TAKE s \in DOMAIN n.secrets
<1> DEFINE v == n.secrets[s]
           r == Reconciled(d, old, n, k).secrets[s]
<1>1. d.secrets \in [DOMAIN d.secrets -> Entry]
  BY DocElim
<1>2. CASE s \notin DOMAIN old.secrets
  BY <1>2 DEF Reconciled
<1>3. CASE s \in DOMAIN old.secrets /\ old.secrets[s] # v
  <2>1. s \in DOMAIN d.secrets /\ d.secrets[s].dek = k
    BY <1>3 DEF Readable
  <2>2. QED
    BY <1>3, <2>1 DEF Reconciled
<1>4. CASE s \in DOMAIN old.secrets /\ old.secrets[s] = v
  <2>1. s \in DOMAIN d.secrets /\ d.secrets[s].dek = k /\ d.secrets[s].value = v
    BY <1>4 DEF Readable
  <2>2. d.secrets[s] = [dek |-> k, value |-> v]
    BY <1>1, <2>1 DEF Entry
  <2>3. r = d.secrets[s]
    BY <1>4, <2>1 DEF Reconciled
  <2>4. QED
    BY <2>2, <2>3
<1>5. QED
  BY <1>2, <1>3, <1>4

LEMMA QuietShows ==
    ASSUME TypeOK, Quiet, state.grants = {}
    PROVE  /\ DOMAIN state.secrets = DOMAIN doc.secrets
           /\ \A s \in DOMAIN doc.secrets : state.secrets[s] = doc.secrets[s].value
BY DeriveShows DEF TypeOK, Quiet, Uniform

\* What the loop infers from two States is what was asked.
LEMMA RemovedAsked ==
    ASSUME NEW why, NEW new, Asked(why, state, new)
    PROVE  \/ Removed(state, new) = {} /\ new.wraps = state.wraps
           \/ /\ why = "remove"
              /\ \E m \in DOMAIN state.wraps : Removed(state, new) = {m}
<1>1. CASE new.wraps = state.wraps
  BY <1>1 DEF Removed
<1>2. CASE why = "remove" /\ \E m \in DOMAIN state.wraps : new.wraps = Without(state.wraps, {m})
  <2>1. PICK m \in DOMAIN state.wraps : new.wraps = Without(state.wraps, {m})
    BY <1>2
  <2>2. DOMAIN new.wraps = DOMAIN state.wraps \ {m}
    BY <2>1 DEF Without
  <2>3. Removed(state, new) = {m}
    BY <2>2 DEF Removed
  <2>4. QED
    BY <1>2, <2>3
<1>3. QED
  BY <1>1, <1>2 DEF Asked

LEMMA FooterOnlyQuiet ==
    ASSUME Quiet, NEW why, NEW new \in State, Asked(why, state, new), FooterOnly(new),
           foreign' = foreign
    PROVE  Quiet'
<1>1. /\ new.grants = {} /\ ~new.rotate /\ new.secrets = state.secrets
      /\ Removed(state, new) = {}
  BY DEF FooterOnly, IsDocChange, Removed
<1>2. new.wraps = state.wraps
  BY <1>1, RemovedAsked
<1>3. state.grants = {}
  BY <1>1 DEF Asked
<1>4. state' = new /\ doc' = doc /\ dek' = dek
  BY DEF FooterOnly
<1>5. QED
  BY <1>1, <1>2, <1>3, <1>4 DEF Quiet

LEMMA RotateDekQuiet ==
    ASSUME TypeOK, TypeOK', Quiet, NEW new \in State, RotateDek(new)
    PROVE  Quiet' /\ DOMAIN doc'.secrets = DOMAIN doc.secrets
           /\ DOMAIN doc'.wraps = DOMAIN doc.wraps
           /\ \A s \in DOMAIN doc.secrets : doc'.secrets[s].value = doc.secrets[s].value
<1>1. Readable(doc, dek)
  BY DEF Quiet, Uniform
<1>2. /\ doc' = Rotated(doc, dek') /\ dek' = deks' /\ state' = Derive(doc', dek')
  BY <1>1 DEF RotateDek, Apply
<1>3. doc \in Doc /\ dek' \in 1 .. MaxDek
  BY DEF TypeOK
<1>4. Uniform(doc', dek')
  BY <1>2, <1>3, RotatedType
<1>5. Quiet'
  BY <1>2, <1>4, Derived
<1>6. /\ DOMAIN doc'.secrets = DOMAIN doc.secrets
      /\ DOMAIN doc'.wraps = DOMAIN doc.wraps
      /\ \A s \in DOMAIN doc.secrets : doc'.secrets[s].value = doc.secrets[s].value
  BY <1>2 DEF Rotated
<1>7. QED
  BY <1>5, <1>6

\* Whoever is gone after members were removed, the rest is under a new DEK.
LEMMA RemoveMembersRotates ==
    ASSUME TypeOK, TypeOK', NEW new \in State, RemoveMembers(new)
    PROVE  \E gone \in SUBSET (Removed(state, new) \cap DOMAIN doc.wraps) :
              /\ DOMAIN doc'.secrets = DOMAIN doc.secrets
              /\ DOMAIN doc'.wraps = DOMAIN doc.wraps \ gone
              /\ \A s \in DOMAIN doc.secrets : doc'.secrets[s].value = doc.secrets[s].value
              /\ gone # {} => deks < dek' /\ Uniform(doc', dek')
              /\ IF gone = Removed(state, new) THEN gone # {} /\ state' = Derive(doc', dek')
                 ELSE ~Readable(doc, dek)
                      \/ ~(Removed(state, new) \subseteq gone \cup DOMAIN doc.wraps)
<1> DEFINE removed == Removed(state, new)
           n(gone) == Cardinality(gone)
           d(gone) == [doc EXCEPT !.wraps = Without(@, gone)]
<1>0. CoreTypes /\ deks \in 1 .. MaxDek /\ dek' \in 1 .. MaxDek
  BY DEF TypeOK, CoreTypes
<1>1. PICK gone \in SUBSET (removed \cap DOMAIN doc.wraps) :
          /\ gone = {} \/ Readable(doc, dek)
          /\ deks + n(gone) <= MaxDek
          /\ IF gone = removed
             THEN /\ deks' = deks + n(gone)
                  /\ Apply(Rotated(d(gone), deks + n(gone)), deks + n(gone))
             ELSE /\ ~Readable(doc, dek) \/ ~(removed \subseteq gone \cup DOMAIN doc.wraps)
                  /\ state' = new
                  /\ deks' = deks + n(gone)
                  /\ doc' = IF n(gone) = 0 THEN doc ELSE Rotated(d(gone), deks + n(gone))
                  /\ dek' = IF n(gone) = 0 THEN dek ELSE deks + n(gone)
  BY DEF RemoveMembers
<1>2. removed # {}
  BY DEF RemoveMembers
<1>3. /\ d(gone) = [secrets |-> doc.secrets, wraps |-> Without(doc.wraps, gone)]
      /\ d(gone) \in Doc /\ DOMAIN Without(doc.wraps, gone) = DOMAIN doc.wraps \ gone
      /\ n(gone) \in Nat /\ (n(gone) = 0 <=> gone = {})
  BY <1>0, RemovedOthers
<1>4. CASE gone = {}
  <2>1. doc' = doc /\ gone # removed
    BY <1>1, <1>2, <1>3, <1>4
  <2>2. QED
    BY <1>1, <1>4, <2>1
<1>5. CASE gone # {}
  <2>1. /\ dek' = deks + n(gone) /\ n(gone) > 0 /\ doc' = Rotated(d(gone), dek')
        /\ gone = removed => state' = Derive(doc', dek')
    BY <1>1, <1>3, <1>5 DEF Apply
  <2>2. deks < dek'
    BY <1>0, <1>3, <2>1
  <2> HIDE DEF d
  <2>3. /\ Uniform(doc', dek')
        /\ DOMAIN doc'.secrets = DOMAIN d(gone).secrets
        /\ DOMAIN doc'.wraps = DOMAIN d(gone).wraps
    BY <1>0, <1>3, <2>1, RotatedType
  <2>4. /\ DOMAIN d(gone).secrets = DOMAIN doc.secrets
        /\ DOMAIN d(gone).wraps = DOMAIN doc.wraps \ gone
        /\ \A s \in DOMAIN doc.secrets : d(gone).secrets[s].value = doc.secrets[s].value
    BY <1>3
  <2>5. \A s \in DOMAIN doc.secrets : doc'.secrets[s].value = d(gone).secrets[s].value
    BY <2>1, <2>4 DEF Rotated
  <2>6. QED
    BY <1>1, <1>5, <2>1, <2>2, <2>3, <2>4, <2>5
<1>6. QED
  BY <1>4, <1>5

LEMMA RemoveMembersQuiet ==
    ASSUME TypeOK, TypeOK', Quiet, NEW why, NEW new \in State, Asked(why, state, new),
           RemoveMembers(new)
    PROVE  Quiet' /\ why = "remove" /\ DOMAIN doc'.secrets = DOMAIN doc.secrets
           /\ \A s \in DOMAIN doc.secrets : doc'.secrets[s].value = doc.secrets[s].value
<1>1. Removed(state, new) # {}
  BY DEF RemoveMembers
<1>2. PICK m \in DOMAIN state.wraps : Removed(state, new) = {m}
  BY <1>1, RemovedAsked
<1>3. why = "remove"
  BY <1>1, RemovedAsked
<1>4. m \in DOMAIN doc.wraps /\ Readable(doc, dek)
  BY DEF Quiet, Uniform
<1>5. PICK gone \in SUBSET (Removed(state, new) \cap DOMAIN doc.wraps) :
              /\ DOMAIN doc'.secrets = DOMAIN doc.secrets
              /\ DOMAIN doc'.wraps = DOMAIN doc.wraps \ gone
              /\ \A s \in DOMAIN doc.secrets : doc'.secrets[s].value = doc.secrets[s].value
              /\ gone # {} => deks < dek' /\ Uniform(doc', dek')
              /\ IF gone = Removed(state, new) THEN gone # {} /\ state' = Derive(doc', dek')
                 ELSE ~Readable(doc, dek)
                      \/ ~(Removed(state, new) \subseteq gone \cup DOMAIN doc.wraps)
  BY RemoveMembersRotates
<1>6. gone = {m}
  BY <1>2, <1>4, <1>5
<1>7. Uniform(doc', dek') /\ state' = Derive(doc', dek')
  BY <1>2, <1>5, <1>6
<1>8. Quiet'
  BY <1>7, Derived
<1>9. QED
  BY <1>3, <1>5, <1>8

LEMMA SaveQuiet ==
    ASSUME TypeOK, TypeOK', Quiet, NEW why, NEW new \in State, Asked(why, state, new), Save(new),
           foreign' = foreign
    PROVE  /\ Quiet' /\ DOMAIN doc'.wraps = DOMAIN doc.wraps
           /\ \/ doc' = doc
              \/ /\ DOMAIN doc'.secrets = DOMAIN new.secrets
                 /\ DOMAIN state.secrets = DOMAIN doc.secrets
                 /\ \A s \in DOMAIN doc.secrets : state.secrets[s] = doc.secrets[s].value
                 /\ \A s \in DOMAIN new.secrets : doc'.secrets[s].value = new.secrets[s]
<1>0. doc \in Doc /\ state \in State /\ dek \in 1 .. MaxDek
  BY DEF TypeOK
<1>1. ~new.rotate /\ Removed(state, new) = {}
  BY DEF Save
<1>2. new.wraps = state.wraps /\ new.wraps = doc.wraps /\ state.grants \subseteq new.grants
  BY <1>1, RemovedAsked DEF Asked, Quiet
<1>3. CASE new.grants \cap DOMAIN new.wraps \cap foreign # {}
  <2>1. state' = new /\ doc' = doc /\ dek' = dek
    BY <1>3 DEF Save, Fail
  <2>2. Quiet'
    BY <1>1, <1>2, <1>3, <2>1 DEF Quiet
  <2>3. QED
    BY <2>1, <2>2
<1>4. CASE new.grants \cap DOMAIN new.wraps \cap foreign = {}
  <2>1. state.grants = {}
    BY <1>2, <1>4 DEF Quiet
  <2>2. /\ DOMAIN state.secrets = DOMAIN doc.secrets
        /\ \A s \in DOMAIN doc.secrets : state.secrets[s] = doc.secrets[s].value
    BY <2>1, QuietShows
  <2> DEFINE g == Granted(new, dek)
  <2>3. doc' = Reconciled(doc, state, g, dek) /\ dek' = dek /\ state' = Derive(doc', dek')
    BY <1>4 DEF Save, Apply
  <2>4. /\ g \in State /\ g.secrets = new.secrets /\ DOMAIN g.wraps = DOMAIN new.wraps
        /\ \A m \in DOMAIN new.wraps :
              g.wraps[m] = IF m \in new.grants THEN dek ELSE new.wraps[m]
    BY <1>0, GrantedType
  <2> HIDE DEF g
  <2>5. DOMAIN doc'.secrets = DOMAIN new.secrets /\ doc'.wraps = g.wraps
    BY <1>0, <2>3, <2>4, ReconciledType
  <2>6. Readable(doc, dek)
    BY DEF Quiet, Uniform
  <2>7. \A s \in DOMAIN g.secrets :
           Reconciled(doc, state, g, dek).secrets[s] = [dek |-> dek, value |-> g.secrets[s]]
    BY <1>0, <2>2, <2>4, <2>6, ReconciledShows
  <2>8. \A s \in DOMAIN new.secrets : doc'.secrets[s] = [dek |-> dek, value |-> new.secrets[s]]
    BY <2>3, <2>4, <2>7
  <2>9. Uniform(doc', dek')
    <3>1. \A s \in DOMAIN doc'.secrets : doc'.secrets[s].dek = dek
      <4> TAKE s \in DOMAIN doc'.secrets
      <4>1. doc'.secrets[s] = [dek |-> dek, value |-> new.secrets[s]]
        BY <2>5, <2>8
      <4>2. QED
        BY <4>1
    <3>2. \A m \in DOMAIN new.wraps : new.wraps[m] \in {0, dek}
      BY <1>2 DEF Quiet, Uniform
    <3>3. \A m \in DOMAIN doc'.wraps : doc'.wraps[m] \in {0, dek}
      BY <2>4, <2>5, <3>2
    <3>4. QED
      BY <2>3, <3>1, <3>3 DEF Uniform, Readable
  <2>10. Quiet'
    BY <2>3, <2>9, Derived
  <2>11. DOMAIN doc'.wraps = DOMAIN doc.wraps
    BY <1>2, <2>4, <2>5
  <2>12. \A s \in DOMAIN new.secrets : doc'.secrets[s].value = new.secrets[s]
    <3> TAKE s \in DOMAIN new.secrets
    <3>1. doc'.secrets[s] = [dek |-> dek, value |-> new.secrets[s]]
      BY <2>8
    <3>2. QED
      BY <3>1
  <2>13. QED
    BY <2>2, <2>5, <2>10, <2>11, <2>12
<1>5. QED
  BY <1>3, <1>4

LEMMA SetStateInv ==
    ASSUME SessionInv, SetState
    PROVE  SessionInv'
<1> DEFINE i == Head(queue)
           new == i.state
<1>1. TypeOK'
  BY SetStateTypes DEF SessionInv
<1>2. queue # <<>> /\ queue \in Seq(Good(minted)) /\ minted' = minted /\ timers' = timers
      /\ queue' = Tail(queue) /\ foreign' = foreign
      /\ mixed' = mixed /\ stale' = (stale \/ i.base # state)
  BY DEF SetState, SessionInv, MintedInv
<1>3. i \in Good(minted) /\ Tail(queue) \in Seq(Good(minted))
  BY <1>2
<1>4. /\ new \in State /\ Asked(i.why, i.base, new) /\ DOMAIN new.secrets \subseteq minted
  BY <1>3 DEF Good, Item
<1>5. FooterOnly(new) \/ RotateDek(new) \/ RemoveMembers(new) \/ Save(new)
  BY DEF SetState
<1> HIDE DEF i
<1>6. DOMAIN doc'.secrets \subseteq minted /\ DOMAIN state'.secrets \subseteq minted
  BY <1>1, <1>4, <1>5, SetStateIds DEF SessionInv
<1>7. MintedInv'
  BY <1>2, <1>3, <1>6 DEF SessionInv, MintedInv
<1>8. ASSUME ~stale', ~mixed' PROVE Quiet'
  <2>1. Quiet /\ TypeOK /\ Asked(i.why, state, new)
    BY <1>2, <1>4, <1>8 DEF SessionInv
  <2>2. QED
    BY <1>1, <1>2, <1>4, <1>5, <2>1,
       FooterOnlyQuiet, RotateDekQuiet, RemoveMembersQuiet, SaveQuiet
<1>9. QED
  BY <1>1, <1>7, <1>8 DEF SessionInv

LEMMA InitInv == Init => SessionInv
<1> SUFFICES ASSUME Init PROVE SessionInv
  OBVIOUS
<1>1. TypeOK
  BY InitTypes
<1>2. doc \in Doc /\ state = Derive(doc, dek) /\ minted = DOMAIN doc.secrets
      /\ queue = <<>> /\ timers = {}
  BY <1>1 DEF Init, TypeOK
<1>3. MintedInv
  <2>1. DOMAIN state.secrets \subseteq minted
    BY <1>2, DeriveIds
  <2>2. queue \in Seq(Good(minted))
    BY <1>2
  <2>3. QED
    BY <1>2, <2>1, <2>2 DEF MintedInv
<1>4. Uniform(doc, dek)
  <2>1. PICK S \in SUBSET Secret, M \in SUBSET (Member \ {Me}) :
          \E wraps \in [M -> {0, 1}], v \in Value :
             doc = [secrets |-> [s \in S |-> [dek |-> 1, value |-> v]],
                    wraps |-> With(wraps, Me, 1)]
    BY DEF Init
  <2>2. PICK wraps \in [M -> {0, 1}], v \in Value :
             doc = [secrets |-> [s \in S |-> [dek |-> 1, value |-> v]],
                    wraps |-> With(wraps, Me, 1)]
    BY <2>1
  <2>3. dek = 1
    BY DEF Init
  <2>4. QED
    BY <2>2, <2>3 DEF Uniform, Readable, With
<1>5. Quiet
  BY <1>2, <1>4, DeriveIds DEF Quiet
<1>6. QED
  BY <1>1, <1>3, <1>5 DEF SessionInv

LEMMA NextInv == SessionInv /\ [Next]_vars => SessionInv'
<1>1. ASSUME SessionInv, Next PROVE SessionInv'
  BY <1>1, SetStateInv, DrainInv, EventInv, SyncDoneInv, ReopenInv, OtherInv DEF Next, Drain
<1>2. ASSUME SessionInv, UNCHANGED vars PROVE SessionInv'
  BY <1>2 DEF vars, SessionInv, TypeOK, MintedInv, Quiet
<1>3. QED
  BY <1>1, <1>2

LEMMA Invariant == Spec => []SessionInv
BY InitInv, NextInv, PTL DEF Spec

-----------------------------------------------------------------------------
(***************************************************************************)
(* What follows                                                            *)
(***************************************************************************)
\* OneDek: whatever order edits, grants, rotations, removals and pulls come in,
\* no secret and no member is left behind under an older DEK.
THEOREM SessionOneDek == Spec => []OneDek
<1>1. SessionInv => OneDek
  BY DEF SessionInv, OneDek, Quiet
<1>2. QED
  BY <1>1, Invariant, PTL

\* ShownIsStored: the page shows what the document holds.
THEOREM SessionShown == Spec => []ShownIsStored
<1>1. SessionInv => ShownIsStored
  <2> SUFFICES ASSUME TypeOK, Quiet, state.grants = {}
               PROVE  state = Derive(doc, dek)
    BY DEF SessionInv, ShownIsStored
  <2>1. /\ state = [secrets |-> state.secrets, wraps |-> state.wraps,
                    grants |-> state.grants, rotate |-> state.rotate]
        /\ state.rotate \in BOOLEAN
    BY StateElim DEF TypeOK
  <2>2. state.rotate = FALSE
    BY <2>1 DEF Quiet
  <2>3. /\ state.secrets = Derive(doc, dek).secrets /\ state.wraps = doc.wraps
    BY DEF Quiet
  <2>4. state = [secrets |-> Derive(doc, dek).secrets, wraps |-> doc.wraps,
                 grants |-> {}, rotate |-> FALSE]
    BY <2>1, <2>2, <2>3, Zenon
  <2>5. Derive(doc, dek) = [secrets |-> Derive(doc, dek).secrets, wraps |-> doc.wraps,
                            grants |-> {}, rotate |-> FALSE]
    BY DEF Derive
  <2>6. QED
    BY <2>4, <2>5, Zenon
<1>2. QED
  BY <1>1, Invariant, PTL

\* Only SetState takes something off the queue and changes the document.
LEMMA AppliesIsSetState ==
    ASSUME SessionInv, [Next]_vars, Applies, doc' # doc
    PROVE  SetState
<1>1. Next
  BY DEF vars
<1>2. ~(NavigateTo \/ StartSync \/ Compact \/ TimerFires \/ SyncIdle \/ SyncFailed \/ Reopen)
  BY DEF NavigateTo, StartSync, Compact, TimerFires, SyncIdle, SyncFailed, Reopen
<1>3. ~Event
  BY DEF Event, AddSecret, EditSecret, DeleteSecret, RemoveMember, GrantMember, AskRotation,
         Hint, PressSync, PressCompact, CopyToken, Page, Form, Send
<1>4. ~SyncDone
  <2>1. queue \in Seq(Item) /\ queue # <<>> /\ queue' = Tail(queue)
    BY DEF SessionInv, TypeOK, Applies
  <2>2. Len(Tail(queue)) # Len(queue)
    BY <2>1
  <2>3. QED
    BY <2>1, <2>2 DEF SyncDone
<1>5. QED
  BY <1>1, <1>2, <1>3, <1>4 DEF Next, Drain

\* RemovalRotates: a step that takes an active member out of the document leaves
\* the rest under a DEK that did not exist before.
THEOREM SessionRemovalRotates == Spec => RemovalRotates
<1>1. ASSUME SessionInv, TypeOK', [Next]_vars, Applies, ~stale, ~mixed,
             \E m \in Gone : doc.wraps[m] # 0
      PROVE  deks < dek' /\ Uniform(doc', dek')
  <2> DEFINE new == Head(queue).state
  <2>1. Gone # {}
    BY <1>1
  <2>2. doc' # doc
    BY <2>1 DEF Gone
  <2>3. SetState /\ Quiet /\ TypeOK
    BY <1>1, <2>2, AppliesIsSetState DEF SessionInv
  <2>4. new \in State
    <3>1. queue \in Seq(Item) /\ queue # <<>>
      BY <2>3 DEF SetState, TypeOK
    <3>2. Head(queue) \in Item
      BY <3>1
    <3>3. QED
      BY <3>2 DEF Item
  <2>5. FooterOnly(new) \/ RotateDek(new) \/ RemoveMembers(new) \/ Save(new)
    BY <2>3 DEF SetState
  <2> HIDE DEF new
  <2>6. ~FooterOnly(new)
    BY <2>2 DEF FooterOnly
  <2>7. ~RotateDek(new)
    BY <1>1, <2>1, <2>3, <2>4, RotateDekQuiet DEF Gone
  <2>8. ~Save(new)
    <3> SUFFICES ASSUME Save(new) PROVE FALSE
      OBVIOUS
    <3>1. DOMAIN doc.wraps \subseteq DOMAIN new.wraps
      BY <2>3 DEF Save, Removed, Quiet
    <3>2. doc' = Reconciled(doc, state, Granted(new, dek), dek)
      BY <2>2 DEF Save, Fail, Apply
    <3>3. DOMAIN doc'.wraps = DOMAIN new.wraps
      BY <3>2 DEF Reconciled, Granted, State
    <3>4. QED
      BY <2>1, <3>1, <3>3 DEF Gone
  <2>9. CASE RemoveMembers(new)
    <3>1. PICK gone \in SUBSET (Removed(state, new) \cap DOMAIN doc.wraps) :
              /\ DOMAIN doc'.wraps = DOMAIN doc.wraps \ gone
              /\ gone # {} => deks < dek' /\ Uniform(doc', dek')
      BY <1>1, <2>3, <2>4, <2>9, RemoveMembersRotates
    <3>2. gone # {}
      BY <2>1, <3>1 DEF Gone
    <3>3. QED
      BY <3>1, <3>2
  <2>10. QED
    BY <2>5, <2>6, <2>7, <2>8, <2>9
<1>2. SessionInv /\ SessionInv' /\ [Next]_vars
      => [Applies /\ ~stale /\ ~mixed /\ (\E m \in Gone : doc.wraps[m] # 0)
            => deks < dek' /\ Uniform(doc', dek')]_vars
  BY <1>1 DEF SessionInv
<1>3. QED
  BY <1>2, Invariant, PTL DEF Spec, RemovalRotates

LEMMA CountOne ==
    ASSUME NEW S, NEW P \in BOOLEAN, S = {} \/ (P /\ \E s : S = {s})
    PROVE  Cardinality(S) <= IF P THEN 1 ELSE 0
<1>1. CASE S = {}
  BY <1>1, FS_EmptySet
<1>2. CASE P /\ \E s : S = {s}
  BY <1>2, FS_Singleton
<1>3. QED
  BY <1>1, <1>2

\* OnlyAsked: the loop deletes, changes and removes what the user asked for, and
\* brings nobody back.
THEOREM SessionOnlyAsked == Spec => OnlyAsked
<1> DEFINE why == Head(queue).why
<1>1. ASSUME SessionInv, TypeOK', [Next]_vars, Applies, ~stale', ~mixed
      PROVE  /\ Lost = {} \/ (why = "delete" /\ \E s : Lost = {s})
             /\ Changed = {} \/ (why = "edit" /\ \E s : Changed = {s})
             /\ Gone = {} \/ (why = "remove" /\ \E m : Gone = {m})
             /\ Back = {}
  <2> DEFINE new == Head(queue).state
  <2>1. CASE doc' = doc
    BY <2>1 DEF Lost, Changed, Gone, Back
  <2>2. CASE doc' # doc
    <3>1. SetState
      BY <1>1, <2>2, AppliesIsSetState
    <3>2. /\ ~stale /\ Head(queue).base = state /\ foreign' = foreign
          /\ FooterOnly(new) \/ RotateDek(new) \/ RemoveMembers(new) \/ Save(new)
      BY <1>1, <3>1 DEF SetState
    <3>3. Quiet /\ TypeOK
      BY <1>1, <3>2 DEF SessionInv
    <3>4. Head(queue) \in Good(minted)
      <4>1. queue \in Seq(Good(minted)) /\ queue # <<>>
        BY <1>1, <3>1 DEF SetState, SessionInv, MintedInv
      <4>2. QED
        BY <4>1
    <3>5. new \in State /\ Asked(why, state, new)
      BY <3>2, <3>4 DEF Good, Item
    <3> HIDE DEF new, why
    <3>6. ~FooterOnly(new)
      BY <2>2 DEF FooterOnly
    <3>7. CASE RotateDek(new)
      BY <1>1, <3>3, <3>5, <3>7, RotateDekQuiet DEF Lost, Changed, Gone, Back
    <3>8. CASE RemoveMembers(new)
      <4>1. /\ why = "remove" /\ DOMAIN doc'.secrets = DOMAIN doc.secrets
            /\ \A s \in DOMAIN doc.secrets : doc'.secrets[s].value = doc.secrets[s].value
        BY <1>1, <3>3, <3>5, <3>8, RemoveMembersQuiet
      <4>2. Lost = {} /\ Changed = {}
        BY <4>1 DEF Lost, Changed
      <4>3. PICK gone \in SUBSET (Removed(state, new) \cap DOMAIN doc.wraps) :
                DOMAIN doc'.wraps = DOMAIN doc.wraps \ gone
        BY <1>1, <3>3, <3>5, <3>8, RemoveMembersRotates
      <4>4. \E m \in DOMAIN state.wraps : Removed(state, new) = {m}
        BY <3>5, <3>8, RemovedAsked DEF RemoveMembers
      <4>5. Gone = {} \/ \E m : Gone = {m}
        BY <4>3, <4>4 DEF Gone
      <4>6. Back = {}
        BY <4>3 DEF Back
      <4>7. QED
        BY <4>1, <4>2, <4>5, <4>6
    <3>9. CASE Save(new)
      <4>1. /\ DOMAIN doc'.wraps = DOMAIN doc.wraps
            /\ DOMAIN doc'.secrets = DOMAIN new.secrets
            /\ DOMAIN state.secrets = DOMAIN doc.secrets
            /\ \A s \in DOMAIN doc.secrets : state.secrets[s] = doc.secrets[s].value
            /\ \A s \in DOMAIN new.secrets : doc'.secrets[s].value = new.secrets[s]
        BY <1>1, <2>2, <3>2, <3>3, <3>5, <3>9, SaveQuiet
      <4>2. Gone = {} /\ Back = {} /\ Lost = Dropped(state, new)
        BY <4>1 DEF Gone, Back, Lost, Dropped
      <4>3. Changed = Touched(state, new)
        BY <4>1 DEF Changed, Touched
      <4>4. QED
        BY <3>5, <4>2, <4>3 DEF Asked
    <3>10. QED
      BY <3>2, <3>6, <3>7, <3>8, <3>9
  <2>3. QED
    BY <2>1, <2>2
<1>2. ASSUME SessionInv, TypeOK', [Next]_vars, Applies, ~stale', ~mixed
      PROVE  /\ Cardinality(Lost) <= IF why = "delete" THEN 1 ELSE 0
             /\ Cardinality(Changed) <= IF why = "edit" THEN 1 ELSE 0
             /\ Cardinality(Gone) <= IF why = "remove" THEN 1 ELSE 0
             /\ Back = {}
  <2> HIDE DEF why
  <2>1. (why = "delete") \in BOOLEAN /\ (why = "edit") \in BOOLEAN /\ (why = "remove") \in BOOLEAN
    OBVIOUS
  <2>2. QED
    BY <1>1, <1>2, <2>1, CountOne
<1>3. SessionInv /\ SessionInv' /\ [Next]_vars
      => [Applies /\ ~stale' /\ ~mixed => LET w == Head(queue).why IN
             /\ Cardinality(Lost) <= IF w = "delete" THEN 1 ELSE 0
             /\ Cardinality(Changed) <= IF w = "edit" THEN 1 ELSE 0
             /\ Cardinality(Gone) <= IF w = "remove" THEN 1 ELSE 0
             /\ Back = {}]_vars
  BY <1>2 DEF SessionInv
<1>4. QED
  BY <1>3, Invariant, PTL DEF Spec, OnlyAsked
=============================================================================
