-------------------------- MODULE VaultRepo_proofs --------------------------
(***************************************************************************)
(* Theorems about VaultRepo, for any members, terminals, ids and bounds,   *)
(* and the lemmas about documents they rest on: which root each key shows, *)
(* and what editing, compacting and merging do to types and generations;   *)
(* last, why a cache only moves up and stays ahead of the remote file.     *)
(***************************************************************************)
EXTENDS VaultRepo, FiniteSetTheorems, WellFoundedInduction, TLAPS

-----------------------------------------------------------------------------
(***************************************************************************)
(* Documents                                                               *)
(***************************************************************************)
\* A set of naturals that is not empty has a least element.
LEMMA LeastNatural ==
    ASSUME NEW T \in SUBSET Nat, T # {}
    PROVE  \E x \in T : \A y \in T : x <= y
<1>1. \E x \in T : \A y \in T : ~ (<<y, x>> \in OpToRel(<, Nat))
  BY NatLessThanWellFounded, WFMin, Zenon
<1>2. ASSUME NEW x \in T, NEW y \in T, ~ (<<y, x>> \in OpToRel(<, Nat))
      PROVE  x <= y
  <2>1. x \in Nat /\ y \in Nat
    OBVIOUS
  <2>2. ~ (y < x)
    BY <1>2, <2>1 DEF OpToRel
  <2> QED
    BY <2>1, <2>2
<1> QED
  BY <1>1, <1>2

\* A set of naturals with a bound has a greatest element.
LEMMA GreatestNatural ==
    ASSUME NEW B \in Nat, NEW T \in SUBSET (0 .. B), T # {}
    PROVE  \E x \in T : \A y \in T : y <= x
<1> DEFINE U == {n \in 0 .. B : B - n \in T}
<1>1. U \in SUBSET Nat
  OBVIOUS
<1>2. PICK t \in T : TRUE
  OBVIOUS
<1>3. B - t \in U
  <2>1. t \in 0 .. B
    OBVIOUS
  <2>2. B - t \in 0 .. B /\ B - (B - t) = t
    BY <2>1
  <2> QED
    BY <2>2
<1>4. PICK u \in U : \A v \in U : u <= v
  <2> HIDE DEF U
  <2> QED
    BY <1>1, <1>3, LeastNatural
<1>5. B - u \in T
  OBVIOUS
<1>6. ASSUME NEW y \in T
      PROVE  y <= B - u
  <2>1. y \in 0 .. B
    OBVIOUS
  <2>2. B - y \in 0 .. B /\ B - (B - y) = y
    BY <2>1
  <2>3. B - y \in U
    BY <2>2
  <2>4. u <= B - y /\ u \in 0 .. B
    BY <1>4, <2>3
  <2> QED
    BY <2>1, <2>4
<1> QED
  BY <1>5, <1>6

\* Among the roots of a document one comes first: the largest counter, then the
\* smallest id.  f gives the counters of one key.
LEMMA FirstRoot ==
    ASSUME NEW R \in SUBSET Root, R # {}, NEW B \in Nat, NEW f \in [Root -> 0 .. B]
    PROVE  \E r \in R : \A q \in R : f[r] > f[q] \/ (f[r] = f[q] /\ r.id <= q.id)
<1>1. PICK n \in {f[r] : r \in R} : \A k \in {f[r] : r \in R} : k <= n
  <2>1. {f[r] : r \in R} \in SUBSET (0 .. B)
    OBVIOUS
  <2>2. {f[r] : r \in R} # {}
    OBVIOUS
  <2> QED
    BY <2>1, <2>2, GreatestNatural
<1> DEFINE I == {r.id : r \in {q \in R : f[q] = n}}
<1>2. PICK i \in I : \A k \in I : i <= k
  <2>1. I \in SUBSET Nat
    BY DocumentAssumption DEF Root
  <2>2. I # {}
    OBVIOUS
  <2> HIDE DEF I
  <2> QED
    BY <2>1, <2>2, LeastNatural
<1>3. PICK r \in R : f[r] = n /\ r.id = i
  OBVIOUS
<1>4. ASSUME NEW q \in R
      PROVE  f[r] > f[q] \/ (f[r] = f[q] /\ r.id <= q.id)
  <2>1. f[q] <= n /\ f[q] \in Nat /\ n \in Nat
    BY <1>1
  <2>2. CASE f[q] = n
    <3>1. q.id \in I
      BY <2>2
    <3> QED
      BY <1>2, <1>3, <2>2, <3>1
  <2>3. CASE f[q] # n
    BY <1>3, <2>1, <2>3
  <2> QED
    BY <2>2, <2>3
<1> QED
  BY <1>4

-----------------------------------------------------------------------------
SizesBound == 9 * Cardinality(Member) + 6 * Cardinality(Secret)

LEMMA Sizes ==
    /\ Cardinality(Member) \in Nat /\ Cardinality(Secret) \in Nat
    /\ SizesBound \in Nat
    /\ \A r \in Root : /\ MembersAt(r) \in 0 .. SizesBound
                       /\ SecretsAt(r) \in 0 .. SizesBound
                       /\ DateAt(r) \in 0 .. SizesBound
<1>1. Cardinality(Member) \in Nat /\ Cardinality(Secret) \in Nat
  BY DocumentAssumption, FS_CardinalityType
<1>2. SizesBound \in Nat
  BY <1>1 DEF SizesBound
<1>3. ASSUME NEW r \in Root
      PROVE  /\ MembersAt(r) \in 0 .. SizesBound
             /\ SecretsAt(r) \in 0 .. SizesBound
             /\ DateAt(r) \in 0 .. SizesBound
  <2>1. r.members \in 0 .. Cardinality(Member) /\ r.secrets \in 0 .. Cardinality(Secret)
    BY DEF Root
  <2> QED
    BY <1>1, <2>1 DEF SizesBound, MembersAt, SecretsAt, DateAt
<1> QED
  BY <1>1, <1>2, <1>3

LEMMA RootsType ==
    ASSUME NEW ops \in SUBSET Op
    PROVE  /\ Roots(ops) \in SUBSET Root
           /\ ops # {} => Roots(ops) # {}
BY DEF Roots, Op

\* Every key of a document that has operations shows the map of one of its roots.
LEMMA MembersRootType ==
    ASSUME NEW ops \in SUBSET Op, ops # {}
    PROVE  /\ MembersRoot(ops) \in Roots(ops)
           /\ \A q \in Roots(ops) :
                 \/ MembersAt(MembersRoot(ops)) > MembersAt(q)
                 \/ MembersAt(MembersRoot(ops)) = MembersAt(q) /\ MembersRoot(ops).id <= q.id
<1> DEFINE f == [r \in Root |-> MembersAt(r)]
<1>1. f \in [Root -> 0 .. SizesBound]
  BY Sizes
<1>2. PICK r \in Roots(ops) : \A q \in Roots(ops) :
         f[r] > f[q] \/ (f[r] = f[q] /\ r.id <= q.id)
  <2> HIDE DEF f
  <2> QED
    BY <1>1, RootsType, Sizes, FirstRoot
<1>3. \A q \in Roots(ops) : \/ MembersAt(r) > MembersAt(q)
                            \/ MembersAt(r) = MembersAt(q) /\ r.id <= q.id
  BY <1>2, RootsType
<1>4. LET w == MembersRoot(ops) IN
      w \in Roots(ops) /\ \A q \in Roots(ops) \ {w} : \/ MembersAt(w) > MembersAt(q)
                                                      \/ MembersAt(w) = MembersAt(q) /\ w.id <= q.id
  BY <1>3 DEF MembersRoot, Winner
<1>5. MembersRoot(ops).id <= MembersRoot(ops).id
  <2>1. MembersRoot(ops) \in Root
    BY <1>4, RootsType
  <2>2. MembersRoot(ops).id \in Nat
    BY <2>1, DocumentAssumption DEF Root
  <2> QED
    BY <2>2
<1> QED
  BY <1>4, <1>5

LEMMA SecretsRootType ==
    ASSUME NEW ops \in SUBSET Op, ops # {}
    PROVE  /\ SecretsRoot(ops) \in Roots(ops)
           /\ \A q \in Roots(ops) :
                 \/ SecretsAt(SecretsRoot(ops)) > SecretsAt(q)
                 \/ SecretsAt(SecretsRoot(ops)) = SecretsAt(q) /\ SecretsRoot(ops).id <= q.id
<1> DEFINE f == [r \in Root |-> SecretsAt(r)]
<1>1. f \in [Root -> 0 .. SizesBound]
  BY Sizes
<1>2. PICK r \in Roots(ops) : \A q \in Roots(ops) :
         f[r] > f[q] \/ (f[r] = f[q] /\ r.id <= q.id)
  <2> HIDE DEF f
  <2> QED
    BY <1>1, RootsType, Sizes, FirstRoot
<1>3. \A q \in Roots(ops) : \/ SecretsAt(r) > SecretsAt(q)
                            \/ SecretsAt(r) = SecretsAt(q) /\ r.id <= q.id
  BY <1>2, RootsType
<1>4. LET w == SecretsRoot(ops) IN
      w \in Roots(ops) /\ \A q \in Roots(ops) \ {w} : \/ SecretsAt(w) > SecretsAt(q)
                                                      \/ SecretsAt(w) = SecretsAt(q) /\ w.id <= q.id
  BY <1>3 DEF SecretsRoot, Winner
<1>5. SecretsRoot(ops).id <= SecretsRoot(ops).id
  <2>1. SecretsRoot(ops) \in Root
    BY <1>4, RootsType
  <2>2. SecretsRoot(ops).id \in Nat
    BY <2>1, DocumentAssumption DEF Root
  <2> QED
    BY <2>2
<1> QED
  BY <1>4, <1>5

\* The compaction date of a document is that of one of its roots.
LEMMA CompactionDateType ==
    ASSUME NEW ops \in SUBSET Op, ops # {}
    PROVE  /\ CompactionDate(ops) \in 0 .. MaxDate
           /\ \E o \in ops : CompactionDate(ops) = o.root.date
<1> DEFINE f == [r \in Root |-> DateAt(r)]
           P(r) == \A q \in Roots(ops) : \/ DateAt(r) > DateAt(q)
                                         \/ DateAt(r) = DateAt(q) /\ r.id <= q.id
<1>1. f \in [Root -> 0 .. SizesBound]
  BY Sizes
<1>2. PICK r \in Roots(ops) : \A q \in Roots(ops) :
         f[r] > f[q] \/ (f[r] = f[q] /\ r.id <= q.id)
  <2> HIDE DEF f
  <2> QED
    BY <1>1, RootsType, Sizes, FirstRoot
<1>3. P(r)
  BY <1>2, RootsType
<1>4. Winner(ops, DateAt) \in Roots(ops)
  BY <1>3 DEF Winner
<1>5. \E o \in ops : CompactionDate(ops) = o.root.date
  BY <1>4 DEF CompactionDate, Roots
<1> QED
  BY <1>5 DEF Op, Root

-----------------------------------------------------------------------------
LEMMA OpTypes ==
    ASSUME NEW r \in Root
    PROVE  /\ Creation(r) \in Op
           /\ \A k \in Member \cup Secret, x \in Member \cup {NoKey} : Put(r, k, x) \in Op
           /\ \A m \in Member : Grant(r, m) \in Op
           /\ \A k \in Member \cup Secret : Del(r, k) \in Op
BY DEF Op, Creation, Put, Grant, Del

LEMMA OpRoots ==
    ASSUME NEW r
    PROVE  /\ Creation(r).root = r
           /\ \A k, x : Put(r, k, x).root = r
           /\ \A k : Grant(r, k).root = r /\ Del(r, k).root = r
BY DEF Creation, Put, Grant, Del

LEMMA EmptyVaultType ==
    ASSUME NEW r \in RootId
    PROVE  /\ EmptyRoot(r) \in Root
           /\ EmptyVault(r) \in SUBSET Op
           /\ EmptyVault(r) # {}
           /\ \A o \in EmptyVault(r) : o.root = EmptyRoot(r)
<1>1. EmptyRoot(r) \in Root
  BY Sizes, DocumentAssumption DEF EmptyRoot, Root
<1> QED
  BY <1>1, OpTypes, OpRoots DEF EmptyVault

LEMMA CompactedType ==
    ASSUME NEW ops \in SUBSET Op, NEW r \in RootId, NEW d \in 0 .. MaxDate
    PROVE  LET root == CompactedRoot(ops, r, d)
           IN  /\ root \in Root /\ root.date = d
               /\ Compacted(ops, root) \in SUBSET Op
               /\ Compacted(ops, root) # {}
               /\ \A o \in Compacted(ops, root) : o.root = root
<1> DEFINE root == CompactedRoot(ops, r, d)
<1>1. MembersOf(ops) \in SUBSET Member /\ SecretsOf(ops) \in SUBSET Secret
  BY DEF MembersOf, SecretsOf, Entries
<1>2. /\ Cardinality(MembersOf(ops)) \in 0 .. Cardinality(Member)
      /\ Cardinality(SecretsOf(ops)) \in 0 .. Cardinality(Secret)
  BY <1>1, DocumentAssumption, FS_Subset, FS_CardinalityType
<1>3. root \in Root /\ root.date = d
  BY <1>2 DEF CompactedRoot, Root
<1>4. ActiveMembers(ops) \in SUBSET Member
  BY <1>1 DEF ActiveMembers
<1> HIDE DEF root
<1> DEFINE P == {p \in ops : /\ p.root = MembersRoot(ops) /\ p.kind = "put"
                             /\ p.key \in MembersOf(ops)}
<1>5. \A o \in P : o.key \in Member /\ o.by \in Member \cup {NoKey}
  BY <1>1 DEF Op
<1>6. Compacted(ops, root) = {Creation(root)} \cup {Put(root, o.key, o.by) : o \in P}
                               \cup {Grant(root, m) : m \in ActiveMembers(ops)}
                               \cup {Put(root, s, NoKey) : s \in SecretsOf(ops)}
  BY DEF Compacted
<1> HIDE DEF P
<1>7. \A o \in Compacted(ops, root) : o \in Op /\ o.root = root
  BY <1>1, <1>3, <1>4, <1>5, <1>6, OpTypes, OpRoots
<1>8. Compacted(ops, root) # {}
  BY <1>6
<1> QED
  BY <1>3, <1>7, <1>8 DEF root

-----------------------------------------------------------------------------
\* A document of one generation has the date of any of its operations.
LEMMA PureDate ==
    ASSUME NEW ops \in SUBSET Op, Pure(ops), NEW o \in ops
    PROVE  CompactionDate(ops) = o.root.date
BY CompactionDateType DEF Pure, Roots

\* An edit of a map of the document stays above the document.
LEMMA EditAbove ==
    ASSUME NEW ops \in SUBSET Op, ops # {}, NEW o \in Op, o.root \in Roots(ops)
    PROVE  /\ Below(ops, ops \cup {o})
           /\ Pure(ops) => Pure(ops \cup {o})
<1>1. Roots(ops \cup {o}) = Roots(ops)
  BY DEF Roots
<1>2. CompactionDate(ops \cup {o}) = CompactionDate(ops)
  BY <1>1 DEF CompactionDate, Winner
<1>3. Below(ops, ops \cup {o})
  BY <1>2 DEF Below
<1>4. ASSUME Pure(ops)
      PROVE  Pure(ops \cup {o})
  <2>1. PICK e \in ops : e.root = o.root
    BY DEF Roots
  <2> QED
    BY <1>4, <2>1 DEF Pure, Roots
<1> QED
  BY <1>3, <1>4

LEMMA BelowReflexive ==
    ASSUME NEW ops
    PROVE  Below(ops, ops)
BY DEF Below

LEMMA BelowTransitive ==
    ASSUME NEW a \in SUBSET Op, NEW b \in SUBSET Op, NEW c \in SUBSET Op,
           Below(a, b), Below(b, c)
    PROVE  Below(a, c)
<1>1. CASE a = {}
  BY <1>1 DEF Below
<1>2. CASE a # {}
  <2>1. b # {} /\ c # {}
    BY <1>2 DEF Below
  <2>2. /\ CompactionDate(a) \in Int /\ CompactionDate(b) \in Int
        /\ CompactionDate(c) \in Int
    BY <1>2, <2>1, CompactionDateType
  <2> QED
    BY <1>2, <2>1, <2>2 DEF Below
<1> QED
  BY <1>1, <1>2

-----------------------------------------------------------------------------
(***************************************************************************)
(* Candidates, pulls and files                                             *)
(***************************************************************************)
\* A file that passes verify_documents has operations.
LEMMA UsableHasOps ==
    ASSUME NEW m, NEW f, Usable(m, f)
    PROVE  f.ops # {}
BY DEF Usable, MembersOf, Entries

LEMMA CandidatesType ==
    ASSUME TypeOK, NEW m \in Member, NEW S \in SUBSET Member
    PROVE  \A d \in Candidates(m, S) : d \in SUBSET Op /\ d # {}
<1>1. \A x \in Member : local[x].ops \in SUBSET Op /\ remote[x].ops \in SUBSET Op
  BY DEF TypeOK, File
<1> QED
  BY <1>1, UsableHasOps DEF Candidates

\* Some candidate has the newest compaction date.
LEMMA NewestExists ==
    ASSUME TypeOK, NEW m \in Member, NEW S \in SUBSET Member, Candidates(m, S) # {}
    PROVE  Newest(Candidates(m, S)) # {}
<1> DEFINE C == Candidates(m, S)
           D == {CompactionDate(d) : d \in C}
<1>1. \A d \in C : CompactionDate(d) \in 0 .. MaxDate
  BY CandidatesType, CompactionDateType
<1>2. D \in SUBSET (0 .. MaxDate) /\ D # {}
  BY <1>1
<1>3. PICK n \in D : \A k \in D : k <= n
  <2> HIDE DEF D
  <2> QED
    BY <1>2, DocumentAssumption, GreatestNatural
<1>4. PICK d \in C : CompactionDate(d) = n
  OBVIOUS
<1>5. d \in Newest(C)
  BY <1>3, <1>4 DEF Newest
<1> QED
  BY <1>5

\* What a pull returns is a document with operations.
LEMMA PullType ==
    ASSUME TypeOK, NEW m \in Member, NEW S \in SUBSET Member,
           NEW o \in PullOutcome(m, S)
    PROVE  /\ o.doc \in SUBSET Op
           /\ o.doc # {}
           /\ o.new \in SUBSET RootId
<1>1. CASE Candidates(m, S) # {}
  <2>1. o = [doc |-> Pulled(m, S), new |-> {}]
    BY <1>1 DEF PullOutcome
  <2>2. PICK d \in Newest(Candidates(m, S)) : TRUE
    BY <1>1, NewestExists
  <2>3. \A e \in Newest(Candidates(m, S)) : e \in SUBSET Op /\ e # {}
    BY CandidatesType DEF Newest
  <2>4. Pulled(m, S) \in SUBSET Op /\ Pulled(m, S) # {}
    BY <2>2, <2>3 DEF Pulled
  <2> QED
    BY <2>1, <2>4
<1>2. CASE Candidates(m, S) = {}
  <2>1. PICK r \in RootId \ roots : o = [doc |-> EmptyVault(r), new |-> {r}]
    BY <1>2 DEF PullOutcome
  <2> QED
    BY <2>1, EmptyVaultType
<1> QED
  BY <1>1, <1>2

-----------------------------------------------------------------------------
(***************************************************************************)
(* What the local write of one task leaves of the tasks beside it.         *)
(***************************************************************************)
LEMMA AfterWriteFacts ==
    ASSUME NEW j \in Job, NEW k \in Job
    PROVE  /\ AfterWrite(k, j) \in Job
           /\ AfterWrite(k, j).file = k.file
           /\ k = j => AfterWrite(k, j).stage = "remote"
           /\ k # j => AfterWrite(k, j).stage = k.stage
           /\ k # j /\ k.stage = "local" /\ ~AfterWrite(k, j).passed =>
                 ~k.passed /\ ~Below(k.file.ops, j.file.ops)
<1>1. CASE k = j
  <2>1. AfterWrite(k, j) = [k EXCEPT !.stage = "remote", !.passed = FALSE]
    BY <1>1 DEF AfterWrite
  <2> QED
    BY <1>1, <2>1 DEF Job
<1>2. CASE k # j
  <2> DEFINE o == k.stage = "local" /\ Below(k.file.ops, j.file.ops)
  <2>1. AfterWrite(k, j) = [k EXCEPT !.passed = @ \/ o]
    BY <1>2 DEF AfterWrite
  <2>2. (k.passed \/ o) \in BOOLEAN
    OBVIOUS
  <2> HIDE DEF o
  <2>3. /\ AfterWrite(k, j) \in Job
        /\ AfterWrite(k, j).file = k.file /\ AfterWrite(k, j).stage = k.stage
        /\ AfterWrite(k, j).passed = (k.passed \/ o)
    BY <2>1, <2>2 DEF Job
  <2>4. ~AfterWrite(k, j).passed => ~k.passed /\ ~o
    BY <2>3
  <2> QED
    BY <1>2, <2>3, <2>4 DEF o
<1> QED
  BY <1>1, <1>2

\* The local write of one task: the tasks keep their files, and only the one
\* that wrote goes on to the storage.
LocalWrote(p, j) ==
    /\ j.stage = "local"
    /\ local' = [local EXCEPT ![Owner[p]] = j.file]
    /\ evicted' = evicted \cup ({Owner[p]} \ MembersOf(j.file.ops))
    /\ setback' = setback \cup {m \in {Owner[p]} : j.passed}
    /\ jobs' \in [Proc -> SUBSET Job]
    /\ \A q \in Proc \ {p} : jobs'[q] = jobs[q]
    /\ \A k \in jobs'[p] : \E i \in jobs[p] : k = AfterWrite(i, j)
    /\ \A i \in jobs[p] : AfterWrite(i, j) \in jobs'[p]
    /\ \A q \in Proc : \A k \in jobs'[q] : \E i \in jobs[q] :
          k.file = i.file /\ (k.stage = i.stage \/ (q = p /\ i = j))

LEMMA LocalWrite ==
    ASSUME TypeOK, NEW p \in Proc, LocalPush(p)
    PROVE  /\ \E j \in jobs[p] : LocalWrote(p, j)
           /\ UNCHANGED <<remote, late, status, doc, sync, clock, roots, minted, deleted, faults>>
<1>1. \A q \in Proc : jobs[q] \in SUBSET Job
  BY DEF TypeOK
<1>2. PICK j \in jobs[p] :
        /\ j.stage = "local"
        /\ local' = [local EXCEPT ![Owner[p]] = j.file]
        /\ jobs' = [jobs EXCEPT ![p] = Wrote(jobs[p], j)]
        /\ evicted' = evicted \cup ({Owner[p]} \ MembersOf(j.file.ops))
        /\ setback' = setback \cup {m \in {Owner[p]} : j.passed}
  BY DEF LocalPush
<1> DEFINE J == Wrote(jobs[p], j)
<1>3. /\ J \in SUBSET Job
      /\ \A k \in J : \E i \in jobs[p] :
            k = AfterWrite(i, j) /\ k.file = i.file /\ (k.stage = i.stage \/ i = j)
      /\ \A i \in jobs[p] : AfterWrite(i, j) \in J
  BY <1>1, AfterWriteFacts DEF Wrote
<1>4. jobs' = [jobs EXCEPT ![p] = J]
  BY <1>2
<1> HIDE DEF J
<1>5. jobs'[p] = J /\ \A q \in Proc \ {p} : jobs'[q] = jobs[q]
  BY <1>4 DEF TypeOK
<1>6. jobs' \in [Proc -> SUBSET Job]
  BY <1>3, <1>4 DEF TypeOK
<1>7. ASSUME NEW q \in Proc, NEW k \in jobs'[q]
      PROVE  \E i \in jobs[q] : k.file = i.file /\ (k.stage = i.stage \/ (q = p /\ i = j))
  <2>1. CASE q = p
    BY <1>3, <1>5, <1>7, <2>1
  <2>2. CASE q # p
    BY <1>5, <1>7, <2>2
  <2> QED
    BY <2>1, <2>2
<1>8. /\ \A k \in jobs'[p] : \E i \in jobs[p] : k = AfterWrite(i, j)
      /\ \A i \in jobs[p] : AfterWrite(i, j) \in jobs'[p]
  BY <1>3, <1>5
<1>9. LocalWrote(p, j)
  BY <1>2, <1>5, <1>6, <1>7, <1>8 DEF LocalWrote
<1> QED
  BY <1>9 DEF LocalPush

LEMMA StartedFacts ==
    ASSUME NEW d \in SUBSET Op, NEW good \in BOOLEAN
    PROVE  /\ Started(d, good) \in Job
           /\ Started(d, good).file = [ops |-> d, good |-> good]
           /\ Started(d, good).stage = "local" /\ ~Started(d, good).passed
BY DEF Started, Job, File

-----------------------------------------------------------------------------
(***************************************************************************)
(* Type correctness, one step per action.                                  *)
(***************************************************************************)
LEMMA TypeStep == TypeOK /\ [Next]_vars => TypeOK'
<1> SUFFICES ASSUME TypeOK, [Next]_vars
             PROVE  TypeOK'
  OBVIOUS
<1> USE RepoAssumption
<1>1. ASSUME NEW p \in Proc, NEW d \in SUBSET Op, NEW good \in BOOLEAN,
             Command(p, d, good), status' \in [Member -> {"new", "setup", "opened"}],
             roots' \in SUBSET RootId
      PROVE  TypeOK'
  <2> DEFINE j == Started(d, good)
  <2>1. j \in Job
    BY StartedFacts
  <2>2. jobs' = [jobs EXCEPT ![p] = {j}]
    BY <1>1 DEF Command
  <2> HIDE DEF j
  <2>3. jobs' \in [Proc -> SUBSET Job]
    BY <2>1, <2>2 DEF TypeOK
  <2> QED
    BY <1>1, <2>3 DEF TypeOK, Command
<1>2. ASSUME NEW p \in Proc, NEW d \in SUBSET Op, Persist(p, d),
             clock' \in 0 .. MaxDate, roots' \in SUBSET RootId,
             minted' \in SUBSET Secret, deleted' \in SUBSET Secret,
             UNCHANGED <<evicted, setback, faults>>
      PROVE  TypeOK'
  <2> DEFINE j == Started(d, TRUE)
  <2>1. j \in Job
    BY StartedFacts
  <2>2. jobs' = [jobs EXCEPT ![p] = @ \cup {j}]
    BY <1>2 DEF Persist
  <2> HIDE DEF j
  <2>3. jobs' \in [Proc -> SUBSET Job] /\ doc' \in [Proc -> SUBSET Op]
    BY <1>2, <2>1, <2>2 DEF TypeOK, Persist
  <2> QED
    BY <1>2, <2>3 DEF TypeOK, Persist, durable
<1>3. ASSUME NEW p \in Proc, Create(p)
      PROVE  TypeOK'
  <2>1. Owner[p] \in Member
    OBVIOUS
  <2>2. PICK r \in RootId :
          /\ Command(p, EmptyVault(r) \cup {Put(EmptyRoot(r), Owner[p], NoKey),
                                            Grant(EmptyRoot(r), Owner[p])}, TRUE)
          /\ status' = [status EXCEPT ![Owner[p]] = "setup"]
          /\ roots' = {r}
    BY <1>3 DEF Create
  <2>3. EmptyVault(r) \cup {Put(EmptyRoot(r), Owner[p], NoKey),
                            Grant(EmptyRoot(r), Owner[p])} \in SUBSET Op
    BY <2>1, EmptyVaultType, OpTypes
  <2>4. status' \in [Member -> {"new", "setup", "opened"}]
    BY <2>2 DEF TypeOK
  <2> QED
    BY <1>1, <2>2, <2>3, <2>4
<1>4. ASSUME NEW p \in Proc, NEW S \in SUBSET Member, NEW x \in Member \cup {NoKey},
             Join(p, S, x)
      PROVE  TypeOK'
  <2>1. Owner[p] \in Member
    OBVIOUS
  <2>2. PICK o \in PullOutcome(Owner[p], S) :
          /\ Command(p, o.doc \cup {Put(MembersRoot(o.doc), Owner[p], x)}, TRUE)
          /\ roots' = roots \cup o.new
    BY <1>4 DEF Join
  <2>3. o.doc \in SUBSET Op /\ o.doc # {} /\ o.new \in SUBSET RootId
    BY <2>1, PullType
  <2>4. MembersRoot(o.doc) \in Root
    BY <2>3, MembersRootType, RootsType
  <2>5. o.doc \cup {Put(MembersRoot(o.doc), Owner[p], x)} \in SUBSET Op
    BY <2>1, <2>3, <2>4, OpTypes
  <2>6. status' \in [Member -> {"new", "setup", "opened"}]
    BY <1>4 DEF TypeOK, Join
  <2>7. roots' \in SUBSET RootId
    BY <2>2, <2>3 DEF TypeOK
  <2> QED
    BY <1>1, <2>2, <2>5, <2>6, <2>7
<1>5. ASSUME NEW p \in Proc, NEW S \in SUBSET Member, NEW good \in BOOLEAN,
             ForceSync(p, S, good)
      PROVE  TypeOK'
  <2>1. PICK o \in PullOutcome(Owner[p], S) :
          Command(p, o.doc, good) /\ roots' = roots \cup o.new
    BY <1>5 DEF ForceSync
  <2>2. o.doc \in SUBSET Op /\ o.new \in SUBSET RootId
    BY PullType
  <2>3. status' \in [Member -> {"new", "setup", "opened"}] /\ roots' \in SUBSET RootId
    BY <1>5, <2>1, <2>2 DEF TypeOK, ForceSync
  <2> QED
    BY <1>1, <2>1, <2>2, <2>3
<1>6. ASSUME NEW p \in Proc, OpenUi(p)
      PROVE  TypeOK'
  <2>1. PICK S \in SUBSET Member : \E o \in PullOutcome(Owner[p], S) :
          doc' = [doc EXCEPT ![p] = o.doc] /\ roots' = roots \cup o.new
    BY <1>6 DEF OpenUi
  <2>2. PICK o \in PullOutcome(Owner[p], S) :
          doc' = [doc EXCEPT ![p] = o.doc] /\ roots' = roots \cup o.new
    BY <2>1
  <2>3. o.doc \in SUBSET Op /\ o.new \in SUBSET RootId
    BY PullType
  <2> QED
    BY <1>6, <2>2, <2>3 DEF OpenUi, TypeOK
<1>7. ASSUME NEW p \in Proc, NEW d
      PROVE  Persist(p, d) => doc[p] \in SUBSET Op /\ doc[p] # {}
  BY DEF Persist, TypeOK
<1>8. ASSUME NEW p \in Proc, AddSecret(p)
      PROVE  TypeOK'
  <2>1. PICK s \in Secret \ minted :
          /\ Persist(p, doc[p] \cup {Put(SecretsRoot(doc[p]), s, NoKey)})
          /\ minted' = minted \cup {s}
    BY <1>8 DEF AddSecret
  <2>2. SecretsRoot(doc[p]) \in Root
    BY <1>7, <2>1, SecretsRootType, RootsType
  <2>3. doc[p] \cup {Put(SecretsRoot(doc[p]), s, NoKey)} \in SUBSET Op
    BY <1>7, <2>1, <2>2, OpTypes
  <2> QED
    BY <1>2, <1>8, <2>1, <2>3 DEF AddSecret, TypeOK
<1>9. ASSUME NEW p \in Proc, DeleteSecret(p)
      PROVE  TypeOK'
  <2>1. PICK s \in SecretsOf(doc[p]) :
          /\ Persist(p, doc[p] \cup {Del(SecretsRoot(doc[p]), s)})
          /\ deleted' = deleted \cup {s}
    BY <1>9 DEF DeleteSecret
  <2>2. SecretsRoot(doc[p]) \in Root
    BY <1>7, <2>1, SecretsRootType, RootsType
  <2>3. s \in Secret
    BY DEF SecretsOf, Entries
  <2>4. doc[p] \cup {Del(SecretsRoot(doc[p]), s)} \in SUBSET Op
    BY <1>7, <2>1, <2>2, <2>3, OpTypes
  <2> QED
    BY <1>2, <1>9, <2>1, <2>3, <2>4 DEF DeleteSecret, TypeOK
<1>10. ASSUME NEW p \in Proc, GrantMember(p)
       PROVE  TypeOK'
  <2>1. PICK x \in Grantable(doc[p], Owner[p]) :
          Persist(p, doc[p] \cup {Grant(MembersRoot(doc[p]), x)})
    BY <1>10 DEF GrantMember
  <2>2. MembersRoot(doc[p]) \in Root
    BY <1>7, <2>1, MembersRootType, RootsType
  <2>3. x \in Member
    BY DEF Grantable, MembersOf, Entries
  <2>4. doc[p] \cup {Grant(MembersRoot(doc[p]), x)} \in SUBSET Op
    BY <1>7, <2>1, <2>2, <2>3, OpTypes
  <2> QED
    BY <1>2, <1>10, <2>1, <2>4 DEF GrantMember, TypeOK, history
<1>11. ASSUME NEW p \in Proc, RemoveMember(p)
       PROVE  TypeOK'
  <2>1. PICK x \in MembersOf(doc[p]) \ {Owner[p]} :
          Persist(p, doc[p] \cup {Del(MembersRoot(doc[p]), x)})
    BY <1>11 DEF RemoveMember
  <2>2. MembersRoot(doc[p]) \in Root
    BY <1>7, <2>1, MembersRootType, RootsType
  <2>3. x \in Member
    BY DEF MembersOf, Entries
  <2>4. doc[p] \cup {Del(MembersRoot(doc[p]), x)} \in SUBSET Op
    BY <1>7, <2>1, <2>2, <2>3, OpTypes
  <2> QED
    BY <1>2, <1>11, <2>1, <2>4 DEF RemoveMember, TypeOK, history
<1>12. ASSUME NEW p \in Proc, Compact(p)
       PROVE  TypeOK'
  <2>1. PICK r \in RootId, d \in 1 .. MaxDate :
          /\ Persist(p, Compacted(doc[p], CompactedRoot(doc[p], r, d)))
          /\ clock' = (IF d > clock THEN d ELSE clock)
          /\ roots' = roots \cup {r}
    BY <1>12 DEF Compact
  <2>2. d \in 0 .. MaxDate
    BY DocumentAssumption
  <2>3. Compacted(doc[p], CompactedRoot(doc[p], r, d)) \in SUBSET Op
    BY <1>7, <2>1, <2>2, CompactedType
  <2>4. clock' \in 0 .. MaxDate /\ roots' \in SUBSET RootId
    BY <2>1, <2>2 DEF TypeOK
  <2> QED
    BY <1>2, <1>12, <2>1, <2>3, <2>4 DEF Compact, TypeOK
<1>13. ASSUME NEW p \in Proc, SyncStart(p)
       PROVE  TypeOK'
  <2>1. PICK S \in SUBSET Member : \E o \in PullOutcome(Owner[p], S) :
          sync' = [sync EXCEPT ![p] = {o.doc}] /\ roots' = roots \cup o.new
    BY <1>13 DEF SyncStart
  <2>2. PICK o \in PullOutcome(Owner[p], S) :
          sync' = [sync EXCEPT ![p] = {o.doc}] /\ roots' = roots \cup o.new
    BY <2>1
  <2>3. o.doc \in SUBSET Op /\ o.new \in SUBSET RootId
    BY PullType
  <2> QED
    BY <1>13, <2>2, <2>3 DEF SyncStart, TypeOK, durable
<1>14. ASSUME NEW p \in Proc, SyncDone(p)
       PROVE  TypeOK'
  <2>1. PICK d \in sync[p] : /\ doc' = [doc EXCEPT ![p] = @ \cup d]
                            /\ sync' = [sync EXCEPT ![p] = {}]
    BY <1>14 DEF SyncDone
  <2>2. d \in SUBSET Op
    BY DEF TypeOK
  <2>3. doc' \in [Proc -> SUBSET Op]
    BY <2>1, <2>2 DEF TypeOK
  <2> QED
    BY <1>14, <2>1, <2>3 DEF SyncDone, TypeOK, durable, history
<1>15. ASSUME NEW p \in Proc, NEW j \in jobs[p]
       PROVE  /\ j.file \in File
              /\ Drop(p, j) => jobs' \in [Proc -> SUBSET Job]
  BY DEF TypeOK, Job, Drop
<1>16. Fault => /\ faults' \in 0 .. MaxFaults
                /\ UNCHANGED <<clock, roots, minted, deleted, evicted, setback>>
  BY DEF Fault, TypeOK
<1>17. ASSUME NEW p \in Proc, LocalPush(p)
       PROVE  TypeOK'
  <2>1. PICK j \in jobs[p] : LocalWrote(p, j)
    BY <1>17, LocalWrite
  <2>2. local' \in [Member -> File]
    BY <1>15, <2>1 DEF LocalWrote, TypeOK
  <2>3. evicted' \in SUBSET Member /\ setback' \in SUBSET Member
    BY <2>1 DEF LocalWrote, TypeOK
  <2> QED
    BY <1>17, <2>1, <2>2, <2>3, LocalWrite DEF LocalWrote, TypeOK
<1>18. ASSUME NEW p \in Proc, PushFail(p)
       PROVE  TypeOK'
  <2>1. jobs' \in [Proc -> SUBSET Job]
    BY <1>15, <1>18 DEF PushFail
  <2> QED
    BY <1>16, <1>18, <2>1 DEF PushFail, TypeOK, durable
<1>19. ASSUME NEW p \in Proc, RemotePush(p)
       PROVE  TypeOK'
  <2>1. PICK j \in jobs[p] : Drop(p, j) /\ remote' = [remote EXCEPT ![Owner[p]] = j.file]
    BY <1>19 DEF RemotePush
  <2>2. remote' \in [Member -> File] /\ jobs' \in [Proc -> SUBSET Job]
    BY <1>15, <2>1 DEF TypeOK
  <2> QED
    BY <1>19, <2>2 DEF RemotePush, TypeOK, history
<1>20. ASSUME NEW p \in Proc, RemoteTimeout(p)
       PROVE  TypeOK'
  <2>1. PICK j \in jobs[p] :
          Drop(p, j) /\ late' = late \cup {[to |-> Owner[p], file |-> j.file]}
    BY <1>20 DEF RemoteTimeout
  <2>2. Owner[p] \in Member /\ j.file \in File
    BY <1>15
  <2>3. [to |-> Owner[p], file |-> j.file] \in [to : Member, file : File]
    BY <2>2
  <2>4. late' \in SUBSET [to : Member, file : File]
    BY <2>1, <2>3 DEF TypeOK
  <2>5. jobs' \in [Proc -> SUBSET Job]
    BY <1>15, <2>1
  <2> QED
    BY <1>16, <1>20, <2>4, <2>5 DEF RemoteTimeout, TypeOK
<1>21. ASSUME Land
       PROVE  TypeOK'
  BY <1>21 DEF Land, TypeOK, session, history
<1>22. ASSUME NEW p \in Proc, End(p)
       PROVE  /\ doc' \in [Proc -> SUBSET Op] /\ jobs' \in [Proc -> SUBSET Job]
              /\ sync' \in [Proc -> SUBSET (SUBSET Op)]
  BY <1>22 DEF End, TypeOK
<1>23. ASSUME NEW p \in Proc, Exit(p) \/ Abandon(p)
       PROVE  TypeOK'
  BY <1>16, <1>22, <1>23 DEF Exit, Abandon, End, TypeOK, durable, history
<1>24. ASSUME NEW p \in Proc, CommandStep(p)
       PROVE  TypeOK'
  <2>1. CASE Create(p)
    BY <1>3, <2>1
  <2>2. CASE JoinInvite(p)
    BY <1>4, <2>2 DEF JoinInvite
  <2>3. CASE JoinManual(p)
    BY <1>4, <2>3 DEF JoinManual
  <2>4. CASE \E S \in SUBSET Member, good \in {TRUE, ~Typo} : ForceSync(p, S, good)
    BY <1>5, <2>4
  <2> QED
    BY <1>24, <2>1, <2>2, <2>3, <2>4 DEF CommandStep
<1>25. ASSUME NEW p \in Proc, UiStep(p)
       PROVE  TypeOK'
  BY <1>6, <1>8, <1>9, <1>10, <1>11, <1>12, <1>25 DEF UiStep
<1>26. ASSUME NEW p \in Proc, FileStep(p)
       PROVE  TypeOK'
  BY <1>17, <1>18, <1>19, <1>20, <1>26 DEF FileStep
<1>27. CASE UNCHANGED vars
  BY <1>27 DEF TypeOK, vars
<1> QED
  BY <1>13, <1>14, <1>21, <1>23, <1>24, <1>25, <1>26, <1>27 DEF Next, CoreNext

LEMMA TypeInit == Init => TypeOK
BY DocumentAssumption, RepoAssumption DEF Init, TypeOK, NoFile, File

\* Every variable keeps its type in every execution, background pulls included.
THEOREM TypeCorrect == Spec => []TypeOK
<1>1. Init => TypeOK
  BY TypeInit
<1>2. TypeOK /\ [Next]_vars => TypeOK'
  BY TypeStep
<1> QED
  BY <1>1, <1>2, PTL DEF Spec

-----------------------------------------------------------------------------
(***************************************************************************)
(* Generations: a pull merges candidates of one compaction date only.      *)
(***************************************************************************)

\* The documents that Newest keeps have one date, and so has their union.
LEMMA NewestMerge ==
    ASSUME NEW C, \A d \in C : d \in SUBSET Op /\ d # {} /\ Pure(d),
           NEW e \in Newest(C)
    PROVE  /\ Pure(UNION Newest(C))
           /\ CompactionDate(UNION Newest(C)) = CompactionDate(e)
<1>1. \A d \in Newest(C) : d \in SUBSET Op /\ d # {} /\ Pure(d)
  BY DEF Newest
<1>2. \A d \in C : CompactionDate(d) \in Int
  BY CompactionDateType
<1>3. \A d \in Newest(C) : CompactionDate(d) = CompactionDate(e)
  BY <1>2 DEF Newest
<1>4. \A d \in Newest(C) : \A o \in d : o.root.date = CompactionDate(e)
  BY <1>1, <1>3, PureDate
<1> DEFINE U == UNION Newest(C)
<1>5. \A o \in U : o.root.date = CompactionDate(e)
  BY <1>4
<1>6. U \in SUBSET Op /\ U # {}
  BY <1>1
<1> HIDE DEF U
<1>7. Pure(U)
  BY <1>5 DEF Pure, Roots
<1>8. CompactionDate(U) = CompactionDate(e)
  BY <1>5, <1>6, CompactionDateType
<1> QED
  BY <1>7, <1>8 DEF U

LEMMA CandidatesPure ==
    ASSUME TypeOK, GenerationPure, NEW m \in Member, NEW S \in SUBSET Member
    PROVE  \A d \in Candidates(m, S) : d \in SUBSET Op /\ d # {} /\ Pure(d)
BY CandidatesType DEF Candidates, GenerationPure

LEMMA PullPure ==
    ASSUME TypeOK, GenerationPure, NEW m \in Member, NEW S \in SUBSET Member,
           NEW o \in PullOutcome(m, S)
    PROVE  Pure(o.doc)
<1>1. CASE Candidates(m, S) # {}
  <2>1. o = [doc |-> Pulled(m, S), new |-> {}]
    BY <1>1 DEF PullOutcome
  <2>2. PICK e \in Newest(Candidates(m, S)) : TRUE
    BY <1>1, NewestExists
  <2> DEFINE C == Candidates(m, S)
  <2>3. \A d \in C : d \in SUBSET Op /\ d # {} /\ Pure(d)
    BY CandidatesPure
  <2>4. Pure(UNION Newest(C))
    <3> HIDE DEF C
    <3>1. e \in Newest(C)
      BY <2>2 DEF C
    <3> QED
      BY <2>3, <3>1, NewestMerge
  <2> QED
    BY <2>1, <2>4 DEF Pulled
<1>2. CASE Candidates(m, S) = {}
  <2>1. PICK r \in RootId \ roots : o = [doc |-> EmptyVault(r), new |-> {r}]
    BY <1>2 DEF PullOutcome
  <2> QED
    BY <2>1, EmptyVaultType DEF Pure, Roots
<1> QED
  BY <1>1, <1>2

LEMMA PureStep == TypeOK /\ GenerationPure /\ [CoreNext]_vars => GenerationPure'
<1> SUFFICES ASSUME TypeOK, GenerationPure, [CoreNext]_vars
             PROVE  GenerationPure'
  OBVIOUS
<1> USE RepoAssumption
<1>1. ASSUME NEW p \in Proc, NEW d, NEW good, Command(p, d, good), Pure(d)
      PROVE  GenerationPure'
  BY <1>1 DEF Command, Started, GenerationPure, TypeOK
<1>2. ASSUME NEW p \in Proc, NEW d, Persist(p, d), Pure(d)
      PROVE  GenerationPure'
  BY <1>2 DEF Persist, Started, GenerationPure, TypeOK, durable
<1>3. ASSUME NEW p \in Proc, Create(p)
      PROVE  GenerationPure'
  <2>1. PICK r \in RootId :
          Command(p, EmptyVault(r) \cup {Put(EmptyRoot(r), Owner[p], NoKey),
                                         Grant(EmptyRoot(r), Owner[p])}, TRUE)
    BY <1>3 DEF Create
  <2>2. Pure(EmptyVault(r) \cup {Put(EmptyRoot(r), Owner[p], NoKey),
                                 Grant(EmptyRoot(r), Owner[p])})
    BY EmptyVaultType, OpRoots DEF Pure, Roots
  <2> QED
    BY <1>1, <2>1, <2>2
<1>4. ASSUME NEW p \in Proc, NEW S \in SUBSET Member, NEW x \in Member \cup {NoKey},
             Join(p, S, x)
      PROVE  GenerationPure'
  <2>1. Owner[p] \in Member
    OBVIOUS
  <2>2. PICK o \in PullOutcome(Owner[p], S) :
          Command(p, o.doc \cup {Put(MembersRoot(o.doc), Owner[p], x)}, TRUE)
    BY <1>4 DEF Join
  <2>3. o.doc \in SUBSET Op /\ o.doc # {} /\ Pure(o.doc)
    BY <2>1, PullType, PullPure
  <2>4. MembersRoot(o.doc) \in Roots(o.doc) /\ MembersRoot(o.doc) \in Root
    BY <2>3, MembersRootType, RootsType
  <2>5. Put(MembersRoot(o.doc), Owner[p], x) \in Op
    BY <2>1, <2>4, OpTypes
  <2>6. Pure(o.doc \cup {Put(MembersRoot(o.doc), Owner[p], x)})
    BY <2>3, <2>4, <2>5, EditAbove, OpRoots
  <2> QED
    BY <1>1, <2>2, <2>6
<1>5. ASSUME NEW p \in Proc, NEW S \in SUBSET Member, NEW good, ForceSync(p, S, good)
      PROVE  GenerationPure'
  <2>1. PICK o \in PullOutcome(Owner[p], S) : Command(p, o.doc, good)
    BY <1>5 DEF ForceSync
  <2>2. Pure(o.doc)
    BY PullPure
  <2> QED
    BY <1>1, <2>1, <2>2
<1>6. ASSUME NEW p \in Proc, OpenUi(p)
      PROVE  GenerationPure'
  <2>1. PICK S \in SUBSET Member : \E o \in PullOutcome(Owner[p], S) :
          doc' = [doc EXCEPT ![p] = o.doc]
    BY <1>6 DEF OpenUi
  <2>2. PICK o \in PullOutcome(Owner[p], S) : doc' = [doc EXCEPT ![p] = o.doc]
    BY <2>1
  <2>3. Pure(o.doc)
    BY PullPure
  <2> QED
    BY <1>6, <2>2, <2>3 DEF OpenUi, GenerationPure, TypeOK
<1>7. ASSUME NEW p \in Proc, NEW o \in Op, o.root \in Roots(doc[p]),
             Persist(p, doc[p] \cup {o})
      PROVE  GenerationPure'
  <2>1. doc[p] \in SUBSET Op /\ doc[p] # {} /\ Pure(doc[p])
    BY <1>7 DEF Persist, TypeOK, GenerationPure
  <2>2. Pure(doc[p] \cup {o})
    BY <1>7, <2>1, EditAbove
  <2> QED
    BY <1>2, <1>7, <2>2
<1>8. ASSUME NEW p \in Proc, NEW d, Persist(p, d)
      PROVE  /\ SecretsRoot(doc[p]) \in Roots(doc[p]) /\ SecretsRoot(doc[p]) \in Root
             /\ MembersRoot(doc[p]) \in Roots(doc[p]) /\ MembersRoot(doc[p]) \in Root
  <2>1. doc[p] \in SUBSET Op /\ doc[p] # {}
    BY <1>8 DEF Persist, TypeOK
  <2> QED
    BY <2>1, SecretsRootType, MembersRootType, RootsType
<1>9. ASSUME NEW p \in Proc, AddSecret(p)
      PROVE  GenerationPure'
  <2>1. PICK s \in Secret \ minted :
          Persist(p, doc[p] \cup {Put(SecretsRoot(doc[p]), s, NoKey)})
    BY <1>9 DEF AddSecret
  <2> DEFINE o == Put(SecretsRoot(doc[p]), s, NoKey)
  <2>2. o \in Op /\ o.root \in Roots(doc[p])
    BY <1>8, <2>1, OpTypes, OpRoots
  <2> QED
    BY <1>7, <2>1, <2>2
<1>10. ASSUME NEW p \in Proc, DeleteSecret(p)
       PROVE  GenerationPure'
  <2>1. PICK s \in SecretsOf(doc[p]) :
          Persist(p, doc[p] \cup {Del(SecretsRoot(doc[p]), s)})
    BY <1>10 DEF DeleteSecret
  <2>2. s \in Secret
    BY DEF SecretsOf, Entries
  <2> DEFINE o == Del(SecretsRoot(doc[p]), s)
  <2>3. o \in Op /\ o.root \in Roots(doc[p])
    BY <1>8, <2>1, <2>2, OpTypes, OpRoots
  <2> QED
    BY <1>7, <2>1, <2>3
<1>11. ASSUME NEW p \in Proc, GrantMember(p)
       PROVE  GenerationPure'
  <2>1. PICK x \in Grantable(doc[p], Owner[p]) :
          Persist(p, doc[p] \cup {Grant(MembersRoot(doc[p]), x)})
    BY <1>11 DEF GrantMember
  <2>2. x \in Member
    BY DEF Grantable, MembersOf, Entries
  <2> DEFINE o == Grant(MembersRoot(doc[p]), x)
  <2>3. o \in Op /\ o.root \in Roots(doc[p])
    BY <1>8, <2>1, <2>2, OpTypes, OpRoots
  <2> QED
    BY <1>7, <2>1, <2>3
<1>12. ASSUME NEW p \in Proc, RemoveMember(p)
       PROVE  GenerationPure'
  <2>1. PICK x \in MembersOf(doc[p]) \ {Owner[p]} :
          Persist(p, doc[p] \cup {Del(MembersRoot(doc[p]), x)})
    BY <1>12 DEF RemoveMember
  <2>2. x \in Member
    BY DEF MembersOf, Entries
  <2> DEFINE o == Del(MembersRoot(doc[p]), x)
  <2>3. o \in Op /\ o.root \in Roots(doc[p])
    BY <1>8, <2>1, <2>2, OpTypes, OpRoots
  <2> QED
    BY <1>7, <2>1, <2>3
<1>13. ASSUME NEW p \in Proc, Compact(p)
       PROVE  GenerationPure'
  <2>1. PICK r \in RootId, d \in 1 .. MaxDate :
          Persist(p, Compacted(doc[p], CompactedRoot(doc[p], r, d)))
    BY <1>13 DEF Compact
  <2>2. d \in 0 .. MaxDate
    BY DocumentAssumption
  <2>3. doc[p] \in SUBSET Op /\ doc[p] # {}
    BY <2>1 DEF Persist, TypeOK
  <2>4. Pure(Compacted(doc[p], CompactedRoot(doc[p], r, d)))
    BY <2>2, <2>3, CompactedType DEF Pure, Roots
  <2> QED
    BY <1>2, <2>1, <2>4
<1>14. ASSUME NEW p \in Proc, NEW j \in jobs[p]
       PROVE  Pure(j.file.ops)
  BY DEF GenerationPure
<1>15. ASSUME NEW p \in Proc, LocalPush(p)
       PROVE  GenerationPure'
  <2>1. PICK j \in jobs[p] : LocalWrote(p, j)
    BY <1>15, LocalWrite
  <2>2. UNCHANGED <<remote, late, doc, sync>>
    BY <1>15 DEF LocalPush
  <2>3. \A q \in Proc : \A k \in jobs'[q] : Pure(k.file.ops)
    BY <2>1 DEF LocalWrote, GenerationPure
  <2>4. \A m \in Member : Pure(local'[m].ops)
    BY <1>14, <2>1 DEF LocalWrote, TypeOK, GenerationPure
  <2> QED
    BY <2>2, <2>3, <2>4 DEF GenerationPure
<1>16. ASSUME NEW p \in Proc, NEW j \in jobs[p], Drop(p, j)
       PROVE  \A q \in Proc : \A k \in jobs'[q] : Pure(k.file.ops)
  BY <1>14, <1>16 DEF Drop, TypeOK
<1>17. ASSUME NEW p \in Proc, PushFail(p)
       PROVE  GenerationPure'
  BY <1>16, <1>17 DEF PushFail, durable, GenerationPure
<1>18. ASSUME NEW p \in Proc, RemotePush(p)
       PROVE  GenerationPure'
  <2>1. PICK j \in jobs[p] : Drop(p, j) /\ remote' = [remote EXCEPT ![Owner[p]] = j.file]
    BY <1>18 DEF RemotePush
  <2>2. \A m \in Member : Pure(remote'[m].ops)
    BY <1>14, <2>1 DEF TypeOK, GenerationPure
  <2> QED
    BY <1>16, <1>18, <2>1, <2>2 DEF RemotePush, GenerationPure
<1>19. ASSUME NEW p \in Proc, RemoteTimeout(p)
       PROVE  GenerationPure'
  <2>1. PICK j \in jobs[p] :
          Drop(p, j) /\ late' = late \cup {[to |-> Owner[p], file |-> j.file]}
    BY <1>19 DEF RemoteTimeout
  <2>2. \A w \in late' : Pure(w.file.ops)
    BY <1>14, <2>1 DEF GenerationPure
  <2> QED
    BY <1>16, <1>19, <2>1, <2>2 DEF RemoteTimeout, GenerationPure
<1>20. ASSUME Land
       PROVE  GenerationPure'
  BY <1>20 DEF Land, session, GenerationPure, TypeOK
<1>21. ASSUME NEW p \in Proc, Exit(p) \/ Abandon(p)
       PROVE  GenerationPure'
  <2>1. Pure({})
    BY DEF Pure, Roots
  <2> QED
    BY <1>21, <2>1 DEF Exit, Abandon, End, durable, GenerationPure, TypeOK
<1>22. ASSUME NEW p \in Proc, CommandStep(p)
       PROVE  GenerationPure'
  <2>1. CASE Create(p)
    BY <1>3, <2>1
  <2>2. CASE JoinInvite(p)
    BY <1>4, <2>2 DEF JoinInvite
  <2>3. CASE JoinManual(p)
    BY <1>4, <2>3 DEF JoinManual
  <2>4. CASE \E S \in SUBSET Member, good \in {TRUE, ~Typo} : ForceSync(p, S, good)
    BY <1>5, <2>4
  <2> QED
    BY <1>22, <2>1, <2>2, <2>3, <2>4 DEF CommandStep
<1>23. ASSUME NEW p \in Proc, UiStep(p)
       PROVE  GenerationPure'
  BY <1>6, <1>9, <1>10, <1>11, <1>12, <1>13, <1>23 DEF UiStep
<1>24. ASSUME NEW p \in Proc, FileStep(p)
       PROVE  GenerationPure'
  BY <1>15, <1>17, <1>18, <1>19, <1>24 DEF FileStep
<1>25. CASE UNCHANGED vars
  BY <1>25 DEF GenerationPure, vars
<1> QED
  BY <1>20, <1>21, <1>22, <1>23, <1>24, <1>25 DEF CoreNext

LEMMA PureInit == Init => GenerationPure
BY RepoAssumption DEF Init, GenerationPure, NoFile, Pure, Roots

\* As long as nobody presses [s] in the UI, no document anywhere ever mixes two
\* compaction generations, with any number of members, terminals and faults and
\* whatever the clocks and the passphrases are.
THEOREM GenerationPurity == CoreSpec => []GenerationPure
<1>1. Init => TypeOK /\ GenerationPure
  BY TypeInit, PureInit
<1>2. [CoreNext]_vars => [Next]_vars
  BY DEF Next
<1>3. TypeOK /\ GenerationPure /\ [CoreNext]_vars => (TypeOK /\ GenerationPure)'
  BY <1>2, TypeStep, PureStep
<1> QED
  BY <1>1, <1>3, PTL DEF CoreSpec

-----------------------------------------------------------------------------
(***************************************************************************)
(* A pull never opens less than the cache: the cache is a candidate, and   *)
(* either it is among the newest ones or a later compaction replaces it.   *)
(***************************************************************************)
LEMMA PullBelow ==
    ASSUME TypeOK, GenerationPure, NEW m \in Member, NEW S \in SUBSET Member,
           Usable(m, local[m])
    PROVE  Candidates(m, S) # {} /\ Below(local[m].ops, Pulled(m, S))
<1> DEFINE C == Candidates(m, S)
           own == local[m].ops
<1>1. own \in C
  BY DEF Candidates
<1>2. PICK e \in Newest(C) : TRUE
  BY <1>1, NewestExists
<1>3. \A d \in C : d \in SUBSET Op /\ d # {} /\ Pure(d)
  BY CandidatesPure
<1>4. CompactionDate(UNION Newest(C)) = CompactionDate(e)
  <2> HIDE DEF C
  <2> QED
    BY <1>2, <1>3, NewestMerge
<1>5. e \in C /\ CompactionDate(own) <= CompactionDate(e)
  <2>1. e \in C /\ (own # e => CompactionDate(own) <= CompactionDate(e))
    BY <1>1, <1>2 DEF Newest
  <2>2. CompactionDate(e) \in Int
    BY <1>3, <2>1, CompactionDateType
  <2> QED
    BY <2>1, <2>2
<1>6. CompactionDate(own) \in Int /\ CompactionDate(e) \in Int
  BY <1>1, <1>3, <1>5, CompactionDateType
<1>7. own # {} /\ e # {} /\ e \subseteq UNION Newest(C)
  BY <1>1, <1>2, <1>3, <1>5
<1>8. CASE CompactionDate(own) = CompactionDate(e)
  <2>1. own \in Newest(C)
    BY <1>1, <1>2, <1>8 DEF Newest
  <2> QED
    BY <1>1, <1>4, <1>7, <1>8, <2>1 DEF Below, Pulled
<1>9. CASE CompactionDate(own) < CompactionDate(e)
  BY <1>1, <1>4, <1>7, <1>9 DEF Below, Pulled
<1> QED
  BY <1>5, <1>6, <1>8, <1>9

\* However few of the remote files a pull can read, it opens no document older
\* than the member's verified cache, whatever was compacted by whom and with
\* which clock.
THEOREM PullKeepsCacheAlways == CoreSpec => []PullKeepsCache
<1>1. Init => TypeOK /\ GenerationPure
  BY TypeInit, PureInit
<1>2. [CoreNext]_vars => [Next]_vars
  BY DEF Next
<1>3. TypeOK /\ GenerationPure /\ [CoreNext]_vars => (TypeOK /\ GenerationPure)'
  BY <1>2, TypeStep, PureStep
<1>4. TypeOK /\ GenerationPure => PullKeepsCache
  BY PullBelow DEF PullKeepsCache
<1> QED
  BY <1>1, <1>3, <1>4, PTL DEF CoreSpec
-----------------------------------------------------------------------------
(***************************************************************************)
(* One creation.  Every document is genuine, that is, its part that is not *)
(* compacted descends from the creation c, or it is blank: a pull made it  *)
(* up.  A blank document names no member, so no UI opens it, no invite     *)
(* joins it, and the cache it is saved to is of an evicted member before   *)
(* it reaches the storage.                                                 *)
(***************************************************************************)
Genuine(d, c) == \A o \in d : o.root.date = 0 => o.root = EmptyRoot(c)

Blank(d) == \E r \in RootId : d = EmptyVault(r)

\* A file is genuine, or blank where a blank one may be.
Traced(f, c, out) == Genuine(f.ops, c) \/ (out /\ Blank(f.ops))

CreationOf(c) ==
    /\ \A p \in Proc : /\ Genuine(doc[p], c)
                       /\ \A d \in sync[p] : Genuine(d, c)
                       /\ \A j \in jobs[p] :
                             Traced(j.file, c,
                                    j.stage = "remote" => Owner[p] \in evicted)
    /\ \A m \in Member : /\ Traced(local[m], c, m \in evicted)
                         /\ Traced(remote[m], c, m \in evicted)
    /\ \A w \in late : Traced(w.file, c, w.to \in evicted)

NoVault ==
    /\ \A p \in Proc : doc[p] = {} /\ sync[p] = {} /\ jobs[p] = {}
    /\ \A m \in Member : local[m] = NoFile /\ remote[m] = NoFile
    /\ late = {}

CreationInv ==
    /\ roots = {} => NoVault
    /\ \E c \in RootId \cup {0} : CreationOf(c)

LEMMA BlankNamesNobody ==
    ASSUME NEW d, Blank(d)
    PROVE  MembersOf(d) = {}
<1>1. PICK r \in RootId : d = EmptyVault(r)
  BY DEF Blank
<1>2. \A o \in d : o.kind = "init"
  BY <1>1 DEF EmptyVault, Creation
<1> QED
  BY <1>2 DEF MembersOf, Entries

\* A usable file names its owner: it is not blank.
LEMMA UsableGenuine ==
    ASSUME NEW m, NEW f, NEW c, NEW out,
           Usable(m, f), Traced(f, c, out)
    PROVE  Genuine(f.ops, c)
BY BlankNamesNobody DEF Usable, Traced

LEMMA CandidatesGenuine ==
    ASSUME NEW c, CreationOf(c), NEW m \in Member, NEW S \in SUBSET Member
    PROVE  \A d \in Candidates(m, S) : Genuine(d, c)
BY UsableGenuine DEF Candidates, CreationOf

\* A pull returns a genuine document, or makes up one with a new root.
LEMMA PullGenuine ==
    ASSUME CreationInv, NEW c, CreationOf(c), NEW m \in Member, NEW S \in SUBSET Member,
           NEW o \in PullOutcome(m, S)
    PROVE  \/ Genuine(o.doc, c) /\ o.new = {} /\ roots # {}
           \/ /\ Blank(o.doc) /\ MembersOf(o.doc) = {}
              /\ \E r \in RootId \ roots : o.new = {r}
<1>1. CASE Candidates(m, S) # {}
  <2>1. o = [doc |-> Pulled(m, S), new |-> {}]
    BY <1>1 DEF PullOutcome
  <2>2. Genuine(Pulled(m, S), c)
    <3>1. \A d \in Newest(Candidates(m, S)) : Genuine(d, c)
      BY CandidatesGenuine DEF Newest
    <3> QED
      BY <3>1 DEF Pulled, Genuine
  <2>3. ~ NoVault
    BY <1>1 DEF Candidates, Usable, NoVault, NoFile
  <2> QED
    BY <2>1, <2>2, <2>3 DEF CreationInv
<1>2. CASE Candidates(m, S) = {}
  <2>1. PICK r \in RootId \ roots : o = [doc |-> EmptyVault(r), new |-> {r}]
    BY <1>2 DEF PullOutcome
  <2>2. Blank(o.doc)
    BY <2>1 DEF Blank
  <2> QED
    BY <2>1, <2>2, BlankNamesNobody
<1> QED
  BY <1>1, <1>2

\* An operation on a root of the document keeps it genuine.
LEMMA EditGenuine ==
    ASSUME NEW d, NEW c, NEW o, Genuine(d, c), o.root \in Roots(d)
    PROVE  Genuine(d \cup {o}, c)
BY DEF Genuine, Roots

LEMMA CreationStep ==
    ASSUME TypeOK, CreationInv, ColdJoin = FALSE, [CoreNext]_vars
    PROVE  CreationInv'
<1> USE RepoAssumption
<1>0. PICK c \in RootId \cup {0} : CreationOf(c)
  BY DEF CreationInv
<1>1. ASSUME NEW p \in Proc, NEW d, NEW good, Command(p, d, good),
             Genuine(d, c) \/ Blank(d), roots' # {}
      PROVE  CreationInv'
  <2>1. jobs' = [jobs EXCEPT ![p] = {Started(d, good)}]
    BY <1>1 DEF Command
  <2>2. UNCHANGED <<local, remote, late, doc, sync, evicted>>
    BY <1>1 DEF Command
  <2> DEFINE f == [ops |-> d, good |-> good]
             j0 == Started(d, good)
  <2>3. Traced(f, c, j0.stage = "remote" => Owner[p] \in evicted)
    BY <1>1 DEF Traced, Started
  <2>4. \A q \in Proc : \A j \in jobs'[q] :
           Traced(j.file, c, j.stage = "remote" => Owner[q] \in evicted)
    <3>1. j0.file = f /\ jobs' = [jobs EXCEPT ![p] = {j0}]
      BY <2>1 DEF Started
    <3> HIDE DEF j0
    <3> QED
      BY <1>0, <2>3, <3>1 DEF CreationOf, TypeOK
  <2>5. CreationOf(c)'
    BY <1>0, <2>2, <2>4 DEF CreationOf
  <2>6. c \in (RootId \cup {0})'
    OBVIOUS
  <2> QED
    BY <1>1, <2>5, <2>6 DEF CreationInv
<1>2. ASSUME NEW p \in Proc, NEW d, Persist(p, d), Genuine(d, c),
             evicted' = evicted, roots \subseteq roots'
      PROVE  CreationInv'
  <2>1. jobs' = [jobs EXCEPT ![p] = @ \cup {Started(d, TRUE)}]
    BY <1>2 DEF Persist
  <2>2. UNCHANGED <<local, remote, late, sync>> /\ doc' = [doc EXCEPT ![p] = d]
    BY <1>2 DEF Persist, durable
  <2> DEFINE f == [ops |-> d, good |-> TRUE]
             j0 == Started(d, TRUE)
  <2>3. Traced(f, c, j0.stage = "remote" => Owner[p] \in evicted)
    BY <1>2 DEF Traced, Started
  <2>4. \A q \in Proc : \A j \in jobs'[q] :
           Traced(j.file, c, j.stage = "remote" => Owner[q] \in evicted)
    <3>1. j0.file = f /\ jobs' = [jobs EXCEPT ![p] = @ \cup {j0}]
      BY <2>1 DEF Started
    <3>2. \A q \in Proc : \A j \in jobs[q] :
             Traced(j.file, c, j.stage = "remote" => Owner[q] \in evicted)
      BY <1>0 DEF CreationOf
    <3> HIDE DEF j0
    <3> QED
      BY <2>3, <3>1, <3>2 DEF TypeOK
  <2>5. \A q \in Proc : Genuine(doc'[q], c)
    BY <1>0, <1>2, <2>2 DEF CreationOf, TypeOK
  <2>6. CreationOf(c)'
    BY <1>0, <1>2, <2>2, <2>4, <2>5 DEF CreationOf
  <2>7. roots' # {}
    BY <1>2 DEF Persist, CreationInv, NoVault
  <2> QED
    BY <2>6, <2>7 DEF CreationInv
<1>3. ASSUME NEW p \in Proc, Create(p)
      PROVE  CreationInv'
  <2>1. PICK r \in RootId :
          /\ Command(p, EmptyVault(r) \cup {Put(EmptyRoot(r), Owner[p], NoKey),
                                            Grant(EmptyRoot(r), Owner[p])}, TRUE)
          /\ roots = {} /\ roots' = {r}
    BY <1>3 DEF Create
  <2> DEFINE d == EmptyVault(r) \cup {Put(EmptyRoot(r), Owner[p], NoKey),
                                      Grant(EmptyRoot(r), Owner[p])}
             f == [ops |-> d, good |-> TRUE]
             j0 == Started(d, TRUE)
  <2>2. Genuine(d, r)
    BY DEF Genuine, EmptyVault, Creation, Put, Grant
  <2>3. NoVault
    BY <2>1 DEF CreationInv
  <2>4. UNCHANGED <<local, remote, late, doc, sync, evicted>>
    BY <2>1 DEF Command
  <2>5. Genuine({}, r) /\ Traced(NoFile, r, FALSE)
    BY DEF Genuine, Traced, NoFile
  <2>6. Traced(f, r, j0.stage = "remote" => Owner[p] \in evicted)
    BY <2>2 DEF Traced, Started
  <2>7. \A q \in Proc : \A j \in jobs'[q] :
           Traced(j.file, r, j.stage = "remote" => Owner[q] \in evicted)
    <3>1. j0.file = f /\ jobs' = [jobs EXCEPT ![p] = {j0}]
      BY <2>1 DEF Command, Started
    <3> HIDE DEF j0
    <3> QED
      BY <2>3, <2>6, <3>1 DEF NoVault, TypeOK
  <2>8. \A m \in Member : /\ Traced(local[m], r, m \in evicted)
                          /\ Traced(remote[m], r, m \in evicted)
    BY <2>3, <2>5 DEF NoVault, Traced
  <2>9. CreationOf(r)'
    BY <2>3, <2>4, <2>5, <2>7, <2>8 DEF CreationOf, NoVault
  <2> QED
    BY <2>1, <2>9 DEF CreationInv
<1>4. ASSUME NEW p \in Proc, NEW S \in SUBSET Member, NEW x \in Member \cup {NoKey},
             Join(p, S, x), x # NoKey \/ roots' = roots
      PROVE  CreationInv'
  <2>1. Owner[p] \in Member
    OBVIOUS
  <2>2. PICK o \in PullOutcome(Owner[p], S) :
          /\ x # NoKey => x \in MembersOf(o.doc)
          /\ Command(p, o.doc \cup {Put(MembersRoot(o.doc), Owner[p], x)}, TRUE)
          /\ roots' = roots \cup o.new
    BY <1>4 DEF Join
  <2>3. Genuine(o.doc, c) /\ o.new = {} /\ roots # {}
    BY <1>0, <1>4, <2>1, <2>2, PullGenuine
  <2>4. o.doc \in SUBSET Op /\ o.doc # {}
    BY <2>1, PullType
  <2> DEFINE e == Put(MembersRoot(o.doc), Owner[p], x)
  <2>5. e.root \in Roots(o.doc) /\ e.kind = "put"
    BY <2>4, MembersRootType DEF Put
  <2>6. Genuine(o.doc \cup {e}, c)
    BY <2>3, <2>5, EditGenuine
  <2> QED
    BY <1>1, <2>2, <2>3, <2>6
<1>5. ASSUME NEW p \in Proc, NEW S \in SUBSET Member, NEW good, ForceSync(p, S, good)
      PROVE  CreationInv'
  <2>1. PICK o \in PullOutcome(Owner[p], S) :
          Command(p, o.doc, good) /\ roots' = roots \cup o.new
    BY <1>5 DEF ForceSync
  <2>2. \/ Genuine(o.doc, c) /\ o.new = {} /\ roots # {}
        \/ Blank(o.doc) /\ \E r \in RootId \ roots : o.new = {r}
    BY <1>0, PullGenuine
  <2>3. roots' # {}
    BY <2>1, <2>2
  <2> QED
    BY <1>1, <2>1, <2>2, <2>3
<1>6. ASSUME NEW p \in Proc, OpenUi(p)
      PROVE  CreationInv'
  <2>1. PICK S \in SUBSET Member : \E o \in PullOutcome(Owner[p], S) :
          /\ Owner[p] \in ActiveMembers(o.doc)
          /\ doc' = [doc EXCEPT ![p] = o.doc] /\ roots' = roots \cup o.new
    BY <1>6 DEF OpenUi
  <2>2. PICK o \in PullOutcome(Owner[p], S) :
          /\ Owner[p] \in ActiveMembers(o.doc)
          /\ doc' = [doc EXCEPT ![p] = o.doc] /\ roots' = roots \cup o.new
    BY <2>1
  <2>3. MembersOf(o.doc) # {}
    BY <2>2 DEF ActiveMembers
  <2>4. Genuine(o.doc, c) /\ o.new = {} /\ roots # {}
    BY <1>0, <2>3, PullGenuine
  <2>5. \A q \in Proc : Genuine(doc'[q], c)
    BY <1>0, <2>2, <2>4 DEF CreationOf, TypeOK
  <2>6. UNCHANGED <<local, remote, late, jobs, sync, evicted>>
    BY <1>6 DEF OpenUi
  <2>7. CreationOf(c)'
    BY <1>0, <2>5, <2>6 DEF CreationOf
  <2> QED
    BY <2>2, <2>4, <2>7 DEF CreationInv
<1>7. ASSUME NEW p \in Proc, NEW o \in Op, o.root \in Roots(doc[p]),
             Persist(p, doc[p] \cup {o}),
             evicted' = evicted, roots' = roots
      PROVE  CreationInv'
  <2>1. Genuine(doc[p], c)
    BY <1>0 DEF CreationOf
  <2>2. Genuine(doc[p] \cup {o}, c)
    BY <1>7, <2>1, EditGenuine
  <2> QED
    BY <1>2, <1>7, <2>2
<1>8. ASSUME NEW p \in Proc, NEW d, Persist(p, d)
      PROVE  /\ SecretsRoot(doc[p]) \in Roots(doc[p]) /\ SecretsRoot(doc[p]) \in Root
             /\ MembersRoot(doc[p]) \in Roots(doc[p]) /\ MembersRoot(doc[p]) \in Root
  <2>1. doc[p] \in SUBSET Op /\ doc[p] # {}
    BY <1>8 DEF Persist, TypeOK
  <2> QED
    BY <2>1, SecretsRootType, MembersRootType, RootsType
<1>9. ASSUME NEW p \in Proc, AddSecret(p)
      PROVE  CreationInv'
  <2>1. PICK s \in Secret \ minted :
          Persist(p, doc[p] \cup {Put(SecretsRoot(doc[p]), s, NoKey)})
    BY <1>9 DEF AddSecret
  <2> DEFINE o == Put(SecretsRoot(doc[p]), s, NoKey)
  <2>2. o \in Op /\ o.root \in Roots(doc[p]) /\ o.kind = "put"
    BY <1>8, <2>1, OpTypes DEF Put
  <2> QED
    BY <1>7, <1>9, <2>1, <2>2 DEF AddSecret
<1>10. ASSUME NEW p \in Proc, DeleteSecret(p)
       PROVE  CreationInv'
  <2>1. PICK s \in SecretsOf(doc[p]) :
          Persist(p, doc[p] \cup {Del(SecretsRoot(doc[p]), s)})
    BY <1>10 DEF DeleteSecret
  <2>2. s \in Secret
    BY DEF SecretsOf, Entries
  <2> DEFINE o == Del(SecretsRoot(doc[p]), s)
  <2>3. o \in Op /\ o.root \in Roots(doc[p])
    BY <1>8, <2>1, <2>2, OpTypes DEF Del
  <2> QED
    BY <1>7, <1>10, <2>1, <2>3 DEF DeleteSecret
<1>11. ASSUME NEW p \in Proc, GrantMember(p)
       PROVE  CreationInv'
  <2>1. PICK x \in Grantable(doc[p], Owner[p]) :
          Persist(p, doc[p] \cup {Grant(MembersRoot(doc[p]), x)})
    BY <1>11 DEF GrantMember
  <2>2. x \in Member
    BY DEF Grantable, MembersOf, Entries
  <2> DEFINE o == Grant(MembersRoot(doc[p]), x)
  <2>3. o \in Op /\ o.root \in Roots(doc[p]) /\ o.kind = "grant"
    BY <1>8, <2>1, <2>2, OpTypes DEF Grant
  <2> QED
    BY <1>7, <1>11, <2>1, <2>3 DEF GrantMember, history
<1>12. ASSUME NEW p \in Proc, RemoveMember(p)
       PROVE  CreationInv'
  <2>1. PICK x \in MembersOf(doc[p]) \ {Owner[p]} :
          Persist(p, doc[p] \cup {Del(MembersRoot(doc[p]), x)})
    BY <1>12 DEF RemoveMember
  <2>2. x \in Member
    BY DEF MembersOf, Entries
  <2> DEFINE o == Del(MembersRoot(doc[p]), x)
  <2>3. o \in Op /\ o.root \in Roots(doc[p])
    BY <1>8, <2>1, <2>2, OpTypes DEF Del
  <2> QED
    BY <1>7, <1>12, <2>1, <2>3 DEF RemoveMember, history
<1>13. ASSUME NEW p \in Proc, Compact(p)
       PROVE  CreationInv'
  <2>1. PICK r \in RootId, d \in 1 .. MaxDate :
          /\ Persist(p, Compacted(doc[p], CompactedRoot(doc[p], r, d)))
          /\ roots' = roots \cup {r}
    BY <1>13 DEF Compact
  <2> DEFINE root == CompactedRoot(doc[p], r, d)
  <2>2. d \in 0 .. MaxDate /\ d # 0
    BY DocumentAssumption
  <2>3. doc[p] \in SUBSET Op
    BY DEF TypeOK
  <2>4. \A o \in Compacted(doc[p], root) : o.root.date # 0
    BY <2>2, <2>3, CompactedType
  <2>5. Genuine(Compacted(doc[p], root), c)
    BY <2>4 DEF Genuine
  <2>6. UNCHANGED evicted
    BY <1>13 DEF Compact
  <2> QED
    BY <1>2, <2>1, <2>5, <2>6
<1>14. ASSUME NEW p \in Proc, NEW j \in jobs[p]
       PROVE  /\ roots # {}
              /\ Traced(j.file, c, j.stage = "remote" => Owner[p] \in evicted)
  BY <1>0 DEF CreationOf, CreationInv, NoVault
<1>15. ASSUME NEW p \in Proc, LocalPush(p)
       PROVE  CreationInv'
  <2>1. PICK j \in jobs[p] : LocalWrote(p, j)
    BY <1>15, LocalWrite
  <2>2. UNCHANGED <<remote, late, doc, sync, roots>>
    BY <1>15 DEF LocalPush
  <2> DEFINE f == j.file
  <2>3. Traced(f, c, Owner[p] \in evicted')
    <3>1. Genuine(f.ops, c) \/ Blank(f.ops)
      BY <1>14 DEF Traced
    <3>2. Blank(f.ops) => Owner[p] \in evicted'
      BY <2>1, BlankNamesNobody DEF LocalWrote
    <3> QED
      BY <3>1, <3>2 DEF Traced
  <2>4. evicted \subseteq evicted'
    BY <2>1 DEF LocalWrote
  <2>5. \A m \in Member : /\ Traced(local'[m], c, m \in evicted')
                          /\ Traced(remote[m], c, m \in evicted')
    <3>1. \A m \in Member : /\ Traced(local[m], c, m \in evicted')
                            /\ Traced(remote[m], c, m \in evicted')
      BY <1>0, <2>4 DEF CreationOf, Traced
    <3> QED
      BY <2>1, <2>3, <3>1 DEF LocalWrote, TypeOK
  <2>6. \A q \in Proc : \A k \in jobs'[q] :
           Traced(k.file, c, k.stage = "remote" => Owner[q] \in evicted')
    <3>1. \A q \in Proc : \A k \in jobs[q] :
             Traced(k.file, c, k.stage = "remote" => Owner[q] \in evicted')
      BY <1>0, <2>4 DEF CreationOf, Traced
    <3> SUFFICES ASSUME NEW q \in Proc, NEW k \in jobs'[q]
                 PROVE  Traced(k.file, c, k.stage = "remote" => Owner[q] \in evicted')
      OBVIOUS
    <3>2. PICK i \in jobs[q] : k.file = i.file /\ (k.stage = i.stage \/ (q = p /\ i = j))
      BY <2>1 DEF LocalWrote
    <3> QED
      BY <2>3, <3>1, <3>2 DEF Traced
  <2>7. \A w \in late : Traced(w.file, c, w.to \in evicted')
    BY <1>0, <2>4 DEF CreationOf, Traced
  <2>8. CreationOf(c)'
    BY <1>0, <2>2, <2>5, <2>6, <2>7 DEF CreationOf
  <2> QED
    BY <1>14, <2>2, <2>8 DEF CreationInv
<1>16. ASSUME NEW p \in Proc, NEW j \in jobs[p], Drop(p, j), UNCHANGED evicted
       PROVE  \A q \in Proc : \A k \in jobs'[q] :
                 Traced(k.file, c, k.stage = "remote" => Owner[q] \in evicted)
  BY <1>0, <1>16 DEF Drop, TypeOK, CreationOf
<1>17. Fault => UNCHANGED <<roots, evicted>>
  BY DEF Fault
<1>18. ASSUME NEW p \in Proc, PushFail(p)
       PROVE  CreationInv'
  <2>1. PICK j \in jobs[p] : Drop(p, j)
    BY <1>18 DEF PushFail
  <2>2. UNCHANGED <<local, remote, late, doc, sync, roots, evicted>>
    BY <1>17, <1>18 DEF PushFail, durable
  <2>3. CreationOf(c)'
    BY <1>0, <1>16, <2>1, <2>2 DEF CreationOf
  <2> QED
    BY <1>14, <2>1, <2>2, <2>3 DEF CreationInv
<1>19. ASSUME NEW p \in Proc, RemotePush(p)
       PROVE  CreationInv'
  <2>1. PICK j \in jobs[p] : /\ j.stage = "remote" /\ Drop(p, j)
                            /\ remote' = [remote EXCEPT ![Owner[p]] = j.file]
    BY <1>19 DEF RemotePush
  <2>2. UNCHANGED <<local, late, doc, sync, roots, evicted>>
    BY <1>19 DEF RemotePush, history
  <2>3. Traced(j.file, c, Owner[p] \in evicted)
    BY <1>14, <2>1 DEF Traced
  <2>4. \A m \in Member : Traced(remote'[m], c, m \in evicted)
    BY <1>0, <2>1, <2>3 DEF CreationOf, TypeOK
  <2>5. CreationOf(c)'
    BY <1>0, <1>16, <2>1, <2>2, <2>4 DEF CreationOf
  <2> QED
    BY <1>14, <2>2, <2>5 DEF CreationInv
<1>20. ASSUME NEW p \in Proc, RemoteTimeout(p)
       PROVE  CreationInv'
  <2>1. PICK j \in jobs[p] : /\ j.stage = "remote" /\ Drop(p, j)
                            /\ late' = late \cup {[to |-> Owner[p], file |-> j.file]}
    BY <1>20 DEF RemoteTimeout
  <2>2. UNCHANGED <<local, remote, doc, sync, roots, evicted>>
    BY <1>17, <1>20 DEF RemoteTimeout
  <2>3. Traced(j.file, c, Owner[p] \in evicted)
    BY <1>14, <2>1 DEF Traced
  <2>4. \A w \in late' : Traced(w.file, c, w.to \in evicted)
    BY <1>0, <2>1, <2>3 DEF CreationOf
  <2>5. CreationOf(c)'
    BY <1>0, <1>16, <2>1, <2>2, <2>4 DEF CreationOf
  <2> QED
    BY <1>14, <2>2, <2>5 DEF CreationInv
<1>21. ASSUME Land
       PROVE  CreationInv'
  <2>1. PICK w \in late : /\ remote' = [remote EXCEPT ![w.to] = w.file]
                          /\ late' = late \ {w}
    BY <1>21 DEF Land
  <2>2. UNCHANGED <<local, doc, jobs, sync, roots, evicted>>
    BY <1>21 DEF Land, session, history
  <2>3. w.to \in Member /\ Traced(w.file, c, w.to \in evicted)
    BY <1>0 DEF CreationOf, TypeOK
  <2>4. \A m \in Member : Traced(remote'[m], c, m \in evicted)
    BY <1>0, <2>1, <2>3 DEF CreationOf, TypeOK
  <2>5. CreationOf(c)'
    BY <1>0, <2>1, <2>2, <2>4 DEF CreationOf
  <2>6. roots # {}
    BY DEF CreationInv, NoVault
  <2> QED
    BY <2>2, <2>5, <2>6 DEF CreationInv
<1>22. ASSUME NEW p \in Proc, Exit(p) \/ Abandon(p)
       PROVE  CreationInv'
  <2>1. End(p) /\ UNCHANGED <<roots, evicted>>
    BY <1>17, <1>22 DEF Exit, Abandon, history
  <2>2. Genuine({}, c)
    BY DEF Genuine
  <2>3. CreationOf(c)'
    BY <1>0, <2>1, <2>2 DEF End, durable, CreationOf, TypeOK
  <2>4. roots # {}
    BY <1>22 DEF Exit, Abandon, CreationInv, NoVault
  <2> QED
    BY <2>1, <2>3, <2>4 DEF CreationInv
<1>23. ASSUME NEW p \in Proc, CommandStep(p)
       PROVE  CreationInv'
  <2>1. CASE Create(p)
    BY <1>3, <2>1
  <2>2. CASE JoinInvite(p)
    BY <1>4, <2>2, DocumentAssumption DEF JoinInvite
  <2>3. CASE JoinManual(p)
    BY <1>4, <2>3 DEF JoinManual
  <2>4. CASE \E S \in SUBSET Member, good \in {TRUE, ~Typo} : ForceSync(p, S, good)
    BY <1>5, <2>4
  <2> QED
    BY <1>23, <2>1, <2>2, <2>3, <2>4 DEF CommandStep
<1>24. ASSUME NEW p \in Proc, UiStep(p)
       PROVE  CreationInv'
  BY <1>6, <1>9, <1>10, <1>11, <1>12, <1>13, <1>24 DEF UiStep
<1>25. ASSUME NEW p \in Proc, FileStep(p)
       PROVE  CreationInv'
  BY <1>15, <1>18, <1>19, <1>20, <1>25 DEF FileStep
<1>26. CASE UNCHANGED vars
  BY <1>26 DEF CreationInv, CreationOf, NoVault, vars
<1> QED
  BY <1>21, <1>22, <1>23, <1>24, <1>25, <1>26 DEF CoreNext

LEMMA CreationInit == Init => CreationInv
<1> SUFFICES ASSUME Init
             PROVE  CreationInv
  OBVIOUS
<1>1. Genuine({}, 0)
  BY DEF Genuine
<1>2. CreationOf(0)
  BY <1>1, RepoAssumption DEF Init, CreationOf, Traced, NoFile
<1> QED
  BY <1>2 DEF Init, CreationInv, NoVault

\* Whatever fails, times out or is killed and however little a pull can read,
\* all members go on in the vault that was created: an empty vault that a
\* force-sync made up is saved to nobody's file but of a member who is out.
\* ColdJoin = FALSE leaves out one thing, a manual join that ends in a made-up
\* vault: because the storage went away after it was listed, or because what it
\* listed does not verify, as after a sync with a mistyped passphrase.
THEOREM OneCreationAlways ==
    ASSUME ColdJoin = FALSE
    PROVE  CoreSpec => []OneCreation
<1>1. Init => TypeOK /\ CreationInv
  BY TypeInit, CreationInit
<1>2. [CoreNext]_vars => [Next]_vars
  BY DEF Next
<1>3. TypeOK /\ CreationInv /\ [CoreNext]_vars => (TypeOK /\ CreationInv)'
  BY <1>2, TypeStep, CreationStep
<1>4. CreationInv => OneCreation
  <2> SUFFICES ASSUME CreationInv
               PROVE  OneCreation
    OBVIOUS
  <2>1. PICK c : CreationOf(c)
    BY DEF CreationInv
  <2> DEFINE known == UNION {Roots(local[m].ops \cup remote[m].ops) : m \in Member \ evicted}
  <2>2. \A m \in Member \ evicted : /\ Genuine(local[m].ops, c)
                                    /\ Genuine(remote[m].ops, c)
    BY <2>1 DEF CreationOf, Traced
  <2>3. \A m \in Member \ evicted : \A r \in Roots(local[m].ops \cup remote[m].ops) :
           r.date = 0 => r = EmptyRoot(c)
    BY <2>2 DEF Genuine, Roots
  <2>4. \A r \in known : r.date = 0 => r = EmptyRoot(c)
    BY <2>3
  <2> QED
    BY <2>4 DEF OneCreation
<1> QED
  BY <1>1, <1>3, <1>4, PTL DEF CoreSpec

-----------------------------------------------------------------------------
(***************************************************************************)
(* Edits.  While nobody compacts, a document may still mix roots: a sync   *)
(* of the UI that can read nothing merges a made-up vault into the open    *)
(* document.  But members are only in the vault that was created, at the   *)
(* root c, so a file that names its owner shows the maps of c; of the      *)
(* roots beside it, which come after c, nothing was ever deleted.          *)
(***************************************************************************)
Settled(d, c, gone) ==
    \A o \in d :
        /\ o.root = EmptyRoot(o.root.id)
        /\ o.kind = "put" /\ o.key \in Member => o.root.id = c
        /\ o.kind = "del" => IF o.root.id = c THEN o.key \in Secret => o.key \in gone
                             ELSE o.root.id < c

SettledOf(c) ==
    /\ \A p \in Proc : /\ Settled(doc[p], c, deleted)
                       /\ doc[p] # {} \/ sync[p] # {} => EmptyRoot(c) \in Roots(doc[p])
                       /\ \A d \in sync[p] : Settled(d, c, deleted)
                       /\ \A j \in jobs[p] : Settled(j.file.ops, c, deleted)
    /\ \A m \in Member : /\ Settled(local[m].ops, c, deleted)
                         /\ Settled(remote[m].ops, c, deleted)
    /\ \A w \in late : Settled(w.file.ops, c, deleted)

EditsInv ==
    /\ roots = {} => NoVault
    /\ \E c \in RootId \cup {0} : SettledOf(c)

\* Without compaction every key shows the root with the smallest id, and that
\* of a document which names a member is the creation.
LEMMA SettledShows ==
    ASSUME NEW c, NEW gone, NEW d \in SUBSET Op, d # {}, Settled(d, c, gone)
    PROVE  /\ MembersRoot(d) \in Roots(d) /\ MembersRoot(d) = EmptyRoot(MembersRoot(d).id)
           /\ SecretsRoot(d) = MembersRoot(d)
           /\ \A r \in Roots(d) : r \in Root /\ MembersRoot(d).id <= r.id
           /\ CompactionDate(d) = 0
           /\ MembersOf(d) # {} => MembersRoot(d) = EmptyRoot(c)
<1>1. \A r \in Roots(d) : r \in Root /\ r = EmptyRoot(r.id)
  BY RootsType DEF Settled, Roots
<1>2. \A r \in Roots(d) : /\ r.id \in Nat /\ r.date = 0
                          /\ MembersAt(r) = 0 /\ SecretsAt(r) = 0
  <2>1. \A r \in Roots(d) : r.id \in Nat
    BY <1>1, DocumentAssumption DEF Root
  <2>2. \A r \in Roots(d) : r.date = 0 /\ r.secrets = 0 /\ r.members = 0
    BY <1>1 DEF EmptyRoot
  <2> QED
    BY <2>1, <2>2 DEF MembersAt, SecretsAt
<1>3. MembersRoot(d) \in Roots(d) /\ SecretsRoot(d) \in Roots(d)
  BY MembersRootType, SecretsRootType
<1>4. \A r \in Roots(d) : MembersRoot(d).id <= r.id /\ SecretsRoot(d).id <= r.id
  BY <1>2, <1>3, MembersRootType, SecretsRootType
<1>5. SecretsRoot(d) = MembersRoot(d)
  <2>1. SecretsRoot(d).id = MembersRoot(d).id
    BY <1>2, <1>3, <1>4
  <2> QED
    BY <1>1, <1>3, <2>1
<1>6. CompactionDate(d) = 0
  BY <1>2, CompactionDateType DEF Roots
<1>7. ASSUME MembersOf(d) # {}
      PROVE  MembersRoot(d) = EmptyRoot(c)
  <2>1. PICK o \in d : o.root = MembersRoot(d) /\ o.kind = "put" /\ o.key \in Member
    BY <1>7 DEF MembersOf, Entries
  <2> QED
    BY <2>1 DEF Settled
<1> QED
  BY <1>1, <1>3, <1>4, <1>5, <1>6, <1>7

\* What a pull collects is settled and shows the creation, and so does the union.
LEMMA CandidatesSettled ==
    ASSUME TypeOK, NEW c, SettledOf(c), NEW m \in Member, NEW S \in SUBSET Member,
           NEW d \in Candidates(m, S)
    PROVE  /\ d \in SUBSET Op /\ d # {} /\ Settled(d, c, deleted)
           /\ MembersRoot(d) = EmptyRoot(c) /\ CompactionDate(d) = 0
<1>1. d \in SUBSET Op /\ d # {}
  BY CandidatesType
<1>2. Settled(d, c, deleted) /\ MembersOf(d) # {}
  BY DEF Candidates, Usable, SettledOf
<1> QED
  BY <1>1, <1>2, SettledShows

LEMMA PulledSettled ==
    ASSUME TypeOK, NEW c, SettledOf(c), NEW m \in Member, NEW S \in SUBSET Member,
           Candidates(m, S) # {}
    PROVE  /\ Pulled(m, S) = UNION Candidates(m, S)
           /\ Pulled(m, S) \in SUBSET Op /\ Pulled(m, S) # {}
           /\ Settled(Pulled(m, S), c, deleted)
           /\ MembersRoot(Pulled(m, S)) = EmptyRoot(c)
<1> DEFINE C == Candidates(m, S)
           view == Pulled(m, S)
<1>1. \A d \in C : /\ d \in SUBSET Op /\ d # {} /\ Settled(d, c, deleted)
                   /\ MembersRoot(d) = EmptyRoot(c) /\ CompactionDate(d) = 0
  BY CandidatesSettled
<1>2. PICK e \in C : TRUE
  OBVIOUS
<1>3. Newest(C) = C
  <2> HIDE DEF C
  <2> QED
    BY <1>1 DEF Newest
<1>4. view = UNION C
  BY <1>3 DEF Pulled
<1> HIDE DEF C, view
<1>5. view \in SUBSET Op /\ view # {} /\ Settled(view, c, deleted)
  BY <1>1, <1>2, <1>4 DEF Settled
<1>6. MembersRoot(view) = EmptyRoot(c)
  <2> DEFINE w == MembersRoot(view)
  <2>1. /\ w \in Roots(view) /\ w = EmptyRoot(w.id)
        /\ \A r \in Roots(view) : r \in Root /\ w.id <= r.id
    BY <1>5, SettledShows
  <2>2. PICK d \in C : w \in Roots(d)
    BY <1>4, <2>1 DEF Roots
  <2>3. EmptyRoot(c) \in Roots(d) /\ \A r \in Roots(d) : EmptyRoot(c).id <= r.id
    BY <1>1, <2>2, SettledShows
  <2>4. EmptyRoot(c) \in Roots(view)
    BY <1>4, <2>2, <2>3 DEF Roots
  <2>5. w.id \in Nat /\ EmptyRoot(c).id \in Nat
    BY <2>1, <2>4, DocumentAssumption DEF Root
  <2>6. w.id = EmptyRoot(c).id
    BY <2>1, <2>2, <2>3, <2>4, <2>5
  <2>7. w.id = c
    BY <2>6 DEF EmptyRoot
  <2> QED
    BY <2>1, <2>7
<1> QED
  BY <1>4, <1>5, <1>6 DEF C, view

\* A pull returns a document that shows the creation, or a blank one.
LEMMA PullSettled ==
    ASSUME TypeOK, EditsInv, NEW c, SettledOf(c), NEW m \in Member, NEW S \in SUBSET Member,
           NEW o \in PullOutcome(m, S)
    PROVE  /\ Settled(o.doc, c, deleted) /\ roots \cup o.new # {}
           /\ o.new = {} \/ MembersOf(o.doc) # {} =>
                 MembersRoot(o.doc) = EmptyRoot(c) /\ roots # {}
<1>1. CASE Candidates(m, S) # {}
  <2>1. o = [doc |-> Pulled(m, S), new |-> {}]
    BY <1>1 DEF PullOutcome
  <2>2. ~ NoVault
    BY <1>1 DEF Candidates, Usable, NoVault, NoFile
  <2> QED
    BY <1>1, <2>1, <2>2, PulledSettled DEF EditsInv
<1>2. CASE Candidates(m, S) = {}
  <2>1. PICK r \in RootId \ roots : o = [doc |-> EmptyVault(r), new |-> {r}]
    BY <1>2 DEF PullOutcome
  <2>2. Settled(o.doc, c, deleted)
    BY <2>1 DEF Settled, EmptyVault, Creation, EmptyRoot
  <2>3. MembersOf(o.doc) = {}
    BY <2>1, BlankNamesNobody DEF Blank
  <2> QED
    BY <2>1, <2>2, <2>3
<1> QED
  BY <1>1, <1>2

\* More deleted secrets leave everything settled.
LEMMA MoreDeleted ==
    ASSUME NEW c, NEW gone, NEW more, gone \subseteq more, NEW d, Settled(d, c, gone)
    PROVE  Settled(d, c, more)
BY DEF Settled

LEMMA EditSettled ==
    ASSUME NEW d, NEW c, NEW gone, NEW more, NEW o,
           Settled(d, c, gone), gone \subseteq more, o.root \in Roots(d),
           o.kind = "put" => o.key \notin Member \/ o.root.id = c,
           o.kind = "del" => IF o.root.id = c THEN o.key \in Secret => o.key \in more
                             ELSE o.root.id < c
    PROVE  Settled(d \cup {o}, c, more)
BY DEF Settled, Roots

LEMMA EditsStep ==
    ASSUME TypeOK, EditsInv, MaxDate = 0, ColdJoin = FALSE, [Next]_vars
    PROVE  EditsInv'
<1> USE RepoAssumption
<1>0. PICK c \in RootId \cup {0} : SettledOf(c)
  BY DEF EditsInv
<1>1. ASSUME NEW p \in Proc, NEW d, NEW good, Command(p, d, good),
             Settled(d, c, deleted), roots' # {}
      PROVE  EditsInv'
  <2> DEFINE j0 == Started(d, good)
  <2>1. j0.file.ops = d /\ jobs' = [jobs EXCEPT ![p] = {j0}]
    BY <1>1 DEF Command, Started
  <2>2. UNCHANGED <<local, remote, late, doc, sync, deleted>>
    BY <1>1 DEF Command
  <2> HIDE DEF j0
  <2>3. \A q \in Proc : \A j \in jobs'[q] : Settled(j.file.ops, c, deleted)
    BY <1>0, <1>1, <2>1 DEF SettledOf, TypeOK
  <2>4. SettledOf(c)'
    BY <1>0, <2>2, <2>3 DEF SettledOf
  <2> QED
    BY <1>1, <2>4 DEF EditsInv
<1>2. ASSUME NEW p \in Proc, NEW o \in Op, o.root \in Roots(doc[p]),
             Persist(p, doc[p] \cup {o}), deleted \subseteq deleted', roots' = roots,
             o.kind = "put" => o.key \notin Member \/ o.root.id = c,
             o.kind = "del" => IF o.root.id = c THEN o.key \in Secret => o.key \in deleted'
                               ELSE o.root.id < c
      PROVE  EditsInv'
  <2> DEFINE d == doc[p] \cup {o}
             j0 == Started(d, TRUE)
  <2>1. /\ j0.file.ops = d /\ jobs' = [jobs EXCEPT ![p] = @ \cup {j0}]
        /\ doc' = [doc EXCEPT ![p] = d] /\ doc[p] # {}
        /\ UNCHANGED <<local, remote, late, sync>>
    BY <1>2 DEF Persist, Started, durable
  <2>2. Settled(d, c, deleted') /\ EmptyRoot(c) \in Roots(d)
    <3>1. Settled(doc[p], c, deleted) /\ EmptyRoot(c) \in Roots(doc[p])
      BY <1>0, <2>1 DEF SettledOf
    <3> QED
      BY <1>2, <3>1, EditSettled DEF Roots
  <2> HIDE DEF d, j0
  <2>3. \A q \in Proc : \A j \in jobs'[q] : Settled(j.file.ops, c, deleted')
    <3>1. \A q \in Proc : \A j \in jobs[q] : Settled(j.file.ops, c, deleted')
      BY <1>0, <1>2, MoreDeleted DEF SettledOf
    <3> QED
      BY <2>1, <2>2, <3>1 DEF TypeOK
  <2>4. \A q \in Proc : /\ Settled(doc'[q], c, deleted')
                        /\ doc'[q] # {} \/ sync'[q] # {} => EmptyRoot(c) \in Roots(doc'[q])
    <3>1. \A q \in Proc : /\ Settled(doc[q], c, deleted')
                          /\ doc[q] # {} \/ sync[q] # {} => EmptyRoot(c) \in Roots(doc[q])
      BY <1>0, <1>2, MoreDeleted DEF SettledOf
    <3> QED
      BY <2>1, <2>2, <3>1 DEF TypeOK
  <2>5. \A q \in Proc : \A e \in sync[q] : Settled(e, c, deleted')
    BY <1>0, <1>2, MoreDeleted DEF SettledOf
  <2>6. /\ \A m \in Member : /\ Settled(local[m].ops, c, deleted')
                             /\ Settled(remote[m].ops, c, deleted')
        /\ \A w \in late : Settled(w.file.ops, c, deleted')
    BY <1>0, <1>2, MoreDeleted DEF SettledOf
  <2>7. SettledOf(c)'
    BY <2>1, <2>3, <2>4, <2>5, <2>6 DEF SettledOf
  <2>8. roots # {}
    BY <2>1 DEF EditsInv, NoVault
  <2> QED
    BY <1>2, <2>7, <2>8 DEF EditsInv
<1>3. ASSUME NEW p \in Proc, Create(p)
      PROVE  EditsInv'
  <2>1. PICK r \in RootId :
          /\ Command(p, EmptyVault(r) \cup {Put(EmptyRoot(r), Owner[p], NoKey),
                                            Grant(EmptyRoot(r), Owner[p])}, TRUE)
          /\ roots = {} /\ roots' = {r}
    BY <1>3 DEF Create
  <2> DEFINE d == EmptyVault(r) \cup {Put(EmptyRoot(r), Owner[p], NoKey),
                                      Grant(EmptyRoot(r), Owner[p])}
             j0 == Started(d, TRUE)
  <2>2. Settled(d, r, deleted) /\ Settled({}, r, deleted)
    BY DEF Settled, EmptyVault, Creation, Put, Grant, EmptyRoot
  <2>3. NoVault
    BY <2>1 DEF EditsInv
  <2>4. /\ UNCHANGED <<local, remote, late, doc, sync, deleted>>
        /\ j0.file.ops = d /\ jobs' = [jobs EXCEPT ![p] = {j0}]
    BY <2>1 DEF Command, Started
  <2> HIDE DEF d, j0
  <2>5. \A q \in Proc : \A j \in jobs'[q] : Settled(j.file.ops, r, deleted)
    BY <2>2, <2>3, <2>4 DEF NoVault, TypeOK
  <2>6. \A m \in Member : local[m].ops = {} /\ remote[m].ops = {}
    BY <2>3 DEF NoVault, NoFile
  <2>7. SettledOf(r)'
    BY <2>2, <2>3, <2>4, <2>5, <2>6 DEF SettledOf, NoVault
  <2> QED
    BY <2>1, <2>7 DEF EditsInv
<1>4. ASSUME NEW p \in Proc, NEW S \in SUBSET Member, NEW x \in Member \cup {NoKey},
             Join(p, S, x), x # NoKey \/ roots' = roots
      PROVE  EditsInv'
  <2>1. Owner[p] \in Member
    OBVIOUS
  <2>2. PICK o \in PullOutcome(Owner[p], S) :
          /\ x # NoKey => x \in MembersOf(o.doc)
          /\ Command(p, o.doc \cup {Put(MembersRoot(o.doc), Owner[p], x)}, TRUE)
          /\ roots' = roots \cup o.new
    BY <1>4 DEF Join
  <2>3. o.new = {} \/ MembersOf(o.doc) # {}
    <3>1. CASE x # NoKey
      BY <2>2, <3>1
    <3>2. CASE roots' = roots
      <4>1. o.new \subseteq roots
        BY <2>2, <3>2
      <4>2. o.new = {} \/ \E r \in RootId \ roots : o.new = {r}
        BY <2>2 DEF PullOutcome
      <4> QED
        BY <4>1, <4>2
    <3> QED
      BY <1>4, <3>1, <3>2
  <2>4. /\ Settled(o.doc, c, deleted) /\ roots # {}
        /\ MembersRoot(o.doc) = EmptyRoot(c)
    BY <1>0, <2>1, <2>2, <2>3, PullSettled
  <2>5. o.doc \in SUBSET Op /\ o.doc # {}
    BY <2>1, PullType
  <2> DEFINE e == Put(MembersRoot(o.doc), Owner[p], x)
  <2>6. e.root \in Roots(o.doc) /\ e.kind = "put" /\ e.root.id = c
    BY <2>4, <2>5, MembersRootType DEF Put, EmptyRoot
  <2>7. Settled(o.doc \cup {e}, c, deleted)
    BY <2>4, <2>6, EditSettled
  <2> QED
    BY <1>1, <2>2, <2>4, <2>7
<1>5. ASSUME NEW p \in Proc, NEW S \in SUBSET Member, NEW good, ForceSync(p, S, good)
      PROVE  EditsInv'
  <2>1. PICK o \in PullOutcome(Owner[p], S) :
          Command(p, o.doc, good) /\ roots' = roots \cup o.new
    BY <1>5 DEF ForceSync
  <2>2. Settled(o.doc, c, deleted) /\ roots' # {}
    BY <1>0, <2>1, PullSettled
  <2> QED
    BY <1>1, <2>1, <2>2
<1>6. ASSUME NEW p \in Proc, OpenUi(p)
      PROVE  EditsInv'
  <2>1. PICK S \in SUBSET Member : \E o \in PullOutcome(Owner[p], S) :
          /\ Owner[p] \in ActiveMembers(o.doc)
          /\ doc' = [doc EXCEPT ![p] = o.doc] /\ roots' = roots \cup o.new
    BY <1>6 DEF OpenUi
  <2>2. PICK o \in PullOutcome(Owner[p], S) :
          /\ Owner[p] \in ActiveMembers(o.doc)
          /\ doc' = [doc EXCEPT ![p] = o.doc] /\ roots' = roots \cup o.new
    BY <2>1
  <2>3. MembersOf(o.doc) # {}
    BY <2>2 DEF ActiveMembers
  <2>4. /\ Settled(o.doc, c, deleted) /\ roots # {}
        /\ MembersRoot(o.doc) = EmptyRoot(c)
    BY <1>0, <2>3, PullSettled
  <2>5. o.doc \in SUBSET Op /\ o.doc # {}
    BY PullType
  <2>6. EmptyRoot(c) \in Roots(o.doc)
    BY <2>4, <2>5, MembersRootType
  <2>7. UNCHANGED <<local, remote, late, jobs, sync, deleted>>
    BY <1>6 DEF OpenUi
  <2>8. \A q \in Proc : /\ Settled(doc'[q], c, deleted)
                        /\ doc'[q] # {} \/ sync'[q] # {} => EmptyRoot(c) \in Roots(doc'[q])
    BY <1>0, <2>2, <2>4, <2>6, <2>7 DEF SettledOf, TypeOK
  <2>9. SettledOf(c)'
    BY <1>0, <2>7, <2>8 DEF SettledOf
  <2> QED
    BY <2>2, <2>4, <2>9 DEF EditsInv
<1>7. ASSUME NEW p \in Proc, doc[p] # {}
      PROVE  /\ SecretsRoot(doc[p]) \in Roots(doc[p]) /\ SecretsRoot(doc[p]) \in Root
             /\ MembersRoot(doc[p]) \in Roots(doc[p]) /\ MembersRoot(doc[p]) \in Root
             /\ SecretsRoot(doc[p]).id = c \/ SecretsRoot(doc[p]).id < c
             /\ MembersOf(doc[p]) # {} => MembersRoot(doc[p]).id = c
  <2>1. doc[p] \in SUBSET Op
    BY DEF TypeOK
  <2>2. Settled(doc[p], c, deleted) /\ EmptyRoot(c) \in Roots(doc[p])
    BY <1>0, <1>7 DEF SettledOf
  <2> DEFINE w == MembersRoot(doc[p])
  <2>3. /\ w \in Roots(doc[p]) /\ SecretsRoot(doc[p]) = w
        /\ \A r \in Roots(doc[p]) : r \in Root /\ w.id <= r.id
        /\ MembersOf(doc[p]) # {} => w = EmptyRoot(c)
    BY <1>7, <2>1, <2>2, SettledShows
  <2>4. w \in Root /\ EmptyRoot(c) \in Root /\ w.id <= EmptyRoot(c).id
    BY <2>2, <2>3
  <2>5. EmptyRoot(c).id = c
    BY DEF EmptyRoot
  <2>6. w.id \in Nat /\ c \in Nat
    BY <2>4, <2>5, DocumentAssumption DEF Root
  <2> HIDE DEF w
  <2>7. w.id = c \/ w.id < c
    BY <2>4, <2>5, <2>6
  <2> QED
    BY <2>3, <2>4, <2>5, <2>7 DEF w
<1>8. ASSUME NEW p \in Proc, AddSecret(p)
      PROVE  EditsInv'
  <2>1. PICK s \in Secret \ minted :
          Persist(p, doc[p] \cup {Put(SecretsRoot(doc[p]), s, NoKey)})
    BY <1>8 DEF AddSecret
  <2> DEFINE o == Put(SecretsRoot(doc[p]), s, NoKey)
  <2>2. /\ o \in Op /\ o.root \in Roots(doc[p]) /\ o.kind = "put" /\ o.key \notin Member
    BY <1>7, <2>1, OpTypes, DocumentAssumption DEF Put, Persist
  <2> QED
    BY <1>2, <1>8, <2>1, <2>2 DEF AddSecret
<1>9. ASSUME NEW p \in Proc, DeleteSecret(p)
      PROVE  EditsInv'
  <2>1. PICK s \in SecretsOf(doc[p]) :
          /\ Persist(p, doc[p] \cup {Del(SecretsRoot(doc[p]), s)})
          /\ deleted' = deleted \cup {s}
    BY <1>9 DEF DeleteSecret
  <2>2. s \in Secret
    BY DEF SecretsOf, Entries
  <2> DEFINE o == Del(SecretsRoot(doc[p]), s)
  <2>3. /\ o \in Op /\ o.root \in Roots(doc[p]) /\ o.kind = "del" /\ o.key \in deleted'
        /\ o.root.id = c \/ o.root.id < c
    BY <1>7, <2>1, <2>2, OpTypes DEF Del, Persist
  <2> QED
    BY <1>2, <1>9, <2>1, <2>3 DEF DeleteSecret
<1>10. ASSUME NEW p \in Proc, GrantMember(p)
       PROVE  EditsInv'
  <2>1. PICK x \in Grantable(doc[p], Owner[p]) :
          Persist(p, doc[p] \cup {Grant(MembersRoot(doc[p]), x)})
    BY <1>10 DEF GrantMember
  <2>2. x \in Member
    BY DEF Grantable, MembersOf, Entries
  <2> DEFINE o == Grant(MembersRoot(doc[p]), x)
  <2>3. o \in Op /\ o.root \in Roots(doc[p]) /\ o.kind = "grant"
    BY <1>7, <2>1, <2>2, OpTypes DEF Grant, Persist
  <2> QED
    BY <1>2, <1>10, <2>1, <2>3 DEF GrantMember, history
<1>11. ASSUME NEW p \in Proc, RemoveMember(p)
       PROVE  EditsInv'
  <2>1. PICK x \in MembersOf(doc[p]) \ {Owner[p]} :
          Persist(p, doc[p] \cup {Del(MembersRoot(doc[p]), x)})
    BY <1>11 DEF RemoveMember
  <2>2. x \in Member /\ x \notin Secret
    BY DocumentAssumption DEF MembersOf, Entries
  <2> DEFINE o == Del(MembersRoot(doc[p]), x)
  <2>3. /\ o \in Op /\ o.root \in Roots(doc[p]) /\ o.kind = "del"
        /\ o.root.id = c /\ o.key \notin Secret
    BY <1>7, <2>1, <2>2, OpTypes DEF Del, Persist
  <2> QED
    BY <1>2, <1>11, <2>1, <2>3 DEF RemoveMember, history
<1>12. ASSUME NEW p \in Proc, Compact(p)
       PROVE  EditsInv'
  BY <1>12 DEF Compact
<1>13. ASSUME NEW p \in Proc, SyncStart(p)
       PROVE  EditsInv'
  <2>1. PICK S \in SUBSET Member : \E o \in PullOutcome(Owner[p], S) :
          sync' = [sync EXCEPT ![p] = {o.doc}] /\ roots' = roots \cup o.new
    BY <1>13 DEF SyncStart
  <2>2. PICK o \in PullOutcome(Owner[p], S) :
          sync' = [sync EXCEPT ![p] = {o.doc}] /\ roots' = roots \cup o.new
    BY <2>1
  <2>3. Settled(o.doc, c, deleted) /\ roots' # {}
    BY <1>0, <2>2, PullSettled
  <2>4. UNCHANGED <<local, remote, late, doc, jobs, deleted>>
    BY <1>13 DEF SyncStart, durable
  <2>5. \A q \in Proc : \A d \in sync'[q] : Settled(d, c, deleted)
    BY <1>0, <2>2, <2>3 DEF SettledOf, TypeOK
  <2>6. \A q \in Proc : doc[q] # {} \/ sync'[q] # {} => EmptyRoot(c) \in Roots(doc[q])
    BY <1>0, <1>13, <2>2 DEF SyncStart, SettledOf, TypeOK
  <2>7. SettledOf(c)'
    BY <1>0, <2>4, <2>5, <2>6 DEF SettledOf
  <2> QED
    BY <2>3, <2>7 DEF EditsInv
<1>14. ASSUME NEW p \in Proc, SyncDone(p)
       PROVE  EditsInv'
  <2>1. PICK d \in sync[p] : /\ doc' = [doc EXCEPT ![p] = @ \cup d]
                            /\ sync' = [sync EXCEPT ![p] = {}]
    BY <1>14 DEF SyncDone
  <2>2. UNCHANGED <<local, remote, late, jobs, roots, deleted>>
    BY <1>14 DEF SyncDone, durable, history
  <2>3. Settled(doc[p] \cup d, c, deleted)
    BY <1>0 DEF SettledOf, Settled
  <2>4. EmptyRoot(c) \in Roots(doc[p] \cup d)
    BY <1>0, <2>1 DEF SettledOf, Roots
  <2>5. \A q \in Proc : /\ Settled(doc'[q], c, deleted)
                        /\ doc'[q] # {} \/ sync'[q] # {} => EmptyRoot(c) \in Roots(doc'[q])
    BY <1>0, <2>1, <2>3, <2>4 DEF SettledOf, TypeOK
  <2>6. \A q \in Proc : \A e \in sync'[q] : Settled(e, c, deleted)
    BY <1>0, <2>1 DEF SettledOf, TypeOK
  <2>7. SettledOf(c)'
    BY <1>0, <2>2, <2>5, <2>6 DEF SettledOf
  <2>8. roots # {}
    BY <2>1 DEF EditsInv, NoVault
  <2> QED
    BY <2>2, <2>7, <2>8 DEF EditsInv
<1>15. ASSUME NEW p \in Proc, NEW j \in jobs[p]
       PROVE  roots # {} /\ Settled(j.file.ops, c, deleted)
  BY <1>0 DEF SettledOf, EditsInv, NoVault
<1>16. ASSUME NEW p \in Proc, NEW j \in jobs[p], LocalWrote(p, j)
       PROVE  \A q \in Proc : \A k \in jobs'[q] : Settled(k.file.ops, c, deleted)
  BY <1>0, <1>16 DEF LocalWrote, SettledOf
<1>17. ASSUME NEW p \in Proc, NEW j \in jobs[p], Drop(p, j), deleted' = deleted
       PROVE  \A q \in Proc : \A k \in jobs'[q] : Settled(k.file.ops, c, deleted)
  BY <1>0, <1>17 DEF Drop, SettledOf, TypeOK
<1>18. Fault => UNCHANGED <<roots, deleted>>
  BY DEF Fault
<1>19. ASSUME NEW p \in Proc, LocalPush(p)
       PROVE  EditsInv'
  <2>1. PICK j \in jobs[p] : LocalWrote(p, j)
    BY <1>19, LocalWrite
  <2>2. UNCHANGED <<remote, late, doc, sync, roots, deleted>>
    BY <1>19 DEF LocalPush
  <2>3. \A q \in Proc : \A k \in jobs'[q] : Settled(k.file.ops, c, deleted)
    BY <1>16, <2>1
  <2>4. \A m \in Member : Settled(local'[m].ops, c, deleted)
    BY <1>0, <1>15, <2>1 DEF LocalWrote, SettledOf, TypeOK
  <2>5. SettledOf(c)'
    BY <1>0, <2>2, <2>3, <2>4 DEF SettledOf
  <2> QED
    BY <1>15, <2>1, <2>2, <2>5 DEF EditsInv
<1>20. ASSUME NEW p \in Proc, PushFail(p)
       PROVE  EditsInv'
  <2>1. PICK j \in jobs[p] : Drop(p, j)
    BY <1>20 DEF PushFail
  <2>2. UNCHANGED <<local, remote, late, doc, sync, roots, deleted>>
    BY <1>18, <1>20 DEF PushFail, durable
  <2>3. SettledOf(c)'
    BY <1>0, <1>17, <2>1, <2>2 DEF SettledOf
  <2> QED
    BY <1>15, <2>1, <2>2, <2>3 DEF EditsInv
<1>21. ASSUME NEW p \in Proc, RemotePush(p)
       PROVE  EditsInv'
  <2>1. PICK j \in jobs[p] : Drop(p, j) /\ remote' = [remote EXCEPT ![Owner[p]] = j.file]
    BY <1>21 DEF RemotePush
  <2>2. UNCHANGED <<local, late, doc, sync, roots, deleted>>
    BY <1>21 DEF RemotePush, history
  <2>3. \A m \in Member : Settled(remote'[m].ops, c, deleted)
    BY <1>0, <1>15, <2>1 DEF SettledOf, TypeOK
  <2>4. SettledOf(c)'
    BY <1>0, <1>17, <2>1, <2>2, <2>3 DEF SettledOf
  <2> QED
    BY <1>15, <2>1, <2>2, <2>4 DEF EditsInv
<1>22. ASSUME NEW p \in Proc, RemoteTimeout(p)
       PROVE  EditsInv'
  <2>1. PICK j \in jobs[p] : /\ Drop(p, j)
                             /\ late' = late \cup {[to |-> Owner[p], file |-> j.file]}
    BY <1>22 DEF RemoteTimeout
  <2>2. UNCHANGED <<local, remote, doc, sync, roots, deleted>>
    BY <1>18, <1>22 DEF RemoteTimeout
  <2>3. \A w \in late' : Settled(w.file.ops, c, deleted)
    BY <1>0, <1>15, <2>1 DEF SettledOf
  <2>4. SettledOf(c)'
    BY <1>0, <1>17, <2>1, <2>2, <2>3 DEF SettledOf
  <2> QED
    BY <1>15, <2>1, <2>2, <2>4 DEF EditsInv
<1>23. ASSUME Land
       PROVE  EditsInv'
  <2>1. PICK w \in late : /\ remote' = [remote EXCEPT ![w.to] = w.file]
                          /\ late' = late \ {w}
    BY <1>23 DEF Land
  <2>2. UNCHANGED <<local, doc, jobs, sync, roots, deleted>>
    BY <1>23 DEF Land, session, history
  <2>3. w.to \in Member /\ Settled(w.file.ops, c, deleted)
    BY <1>0 DEF SettledOf, TypeOK
  <2>4. \A m \in Member : Settled(remote'[m].ops, c, deleted)
    BY <1>0, <2>1, <2>3 DEF SettledOf, TypeOK
  <2>5. SettledOf(c)'
    BY <1>0, <2>1, <2>2, <2>4 DEF SettledOf
  <2>6. roots # {}
    BY DEF EditsInv, NoVault
  <2> QED
    BY <2>2, <2>5, <2>6 DEF EditsInv
<1>24. ASSUME NEW p \in Proc, Exit(p) \/ Abandon(p)
       PROVE  EditsInv'
  <2>1. End(p) /\ UNCHANGED <<roots, deleted>>
    BY <1>18, <1>24 DEF Exit, Abandon, history
  <2>2. Settled({}, c, deleted)
    BY DEF Settled
  <2>3. SettledOf(c)'
    BY <1>0, <2>1, <2>2 DEF End, durable, SettledOf, TypeOK
  <2>4. roots # {}
    BY <1>24 DEF Exit, Abandon, EditsInv, NoVault
  <2> QED
    BY <2>1, <2>3, <2>4 DEF EditsInv
<1>25. ASSUME NEW p \in Proc, CommandStep(p)
       PROVE  EditsInv'
  <2>1. CASE Create(p)
    BY <1>3, <2>1
  <2>2. CASE JoinInvite(p)
    BY <1>4, <2>2, DocumentAssumption DEF JoinInvite
  <2>3. CASE JoinManual(p)
    BY <1>4, <2>3 DEF JoinManual
  <2>4. CASE \E S \in SUBSET Member, good \in {TRUE, ~Typo} : ForceSync(p, S, good)
    BY <1>5, <2>4
  <2> QED
    BY <1>25, <2>1, <2>2, <2>3, <2>4 DEF CommandStep
<1>26. ASSUME NEW p \in Proc, UiStep(p)
       PROVE  EditsInv'
  BY <1>6, <1>8, <1>9, <1>10, <1>11, <1>12, <1>26 DEF UiStep
<1>27. ASSUME NEW p \in Proc, FileStep(p)
       PROVE  EditsInv'
  BY <1>19, <1>20, <1>21, <1>22, <1>27 DEF FileStep
<1>28. CASE UNCHANGED vars
  BY <1>28 DEF EditsInv, SettledOf, NoVault, vars
<1> QED
  BY <1>13, <1>14, <1>23, <1>24, <1>25, <1>26, <1>27, <1>28 DEF Next, CoreNext

LEMMA EditsInit == Init => EditsInv
<1> SUFFICES ASSUME Init
             PROVE  EditsInv
  OBVIOUS
<1>1. Settled({}, 0, {})
  BY DEF Settled
<1>2. SettledOf(0)
  BY <1>1, RepoAssumption DEF Init, SettledOf, NoFile
<1> QED
  BY <1>2 DEF Init, EditsInv, NoVault

LEMMA MergeShowsEdits ==
    ASSUME TypeOK, EditsInv
    PROVE  EditsMerged
<1> SUFFICES ASSUME NEW m \in Member, NEW x \in Member, Usable(x, remote[x])
             PROVE  LET view == Pulled(m, Member)
                        seen == SecretsOf(view) \cup MembersOf(view) IN
                    /\ SecretsOf(remote[x].ops) \ deleted \subseteq seen
                    /\ \A r \in Roots(remote[x].ops), k \in seen :
                          Del(r, k) \notin remote[x].ops
  BY DEF EditsMerged
<1> DEFINE mine == remote[x].ops
           view == Pulled(m, Member)
<1>1. PICK c \in RootId \cup {0} : SettledOf(c)
  BY DEF EditsInv
<1> DEFINE root == EmptyRoot(c)
<1>2. mine \in Candidates(m, Member)
  BY DEF Candidates
<1>3. /\ mine \in SUBSET Op /\ mine # {} /\ Settled(mine, c, deleted)
      /\ MembersRoot(mine) = root
  BY <1>1, <1>2, CandidatesSettled
<1>4. /\ view \in SUBSET Op /\ view # {} /\ Settled(view, c, deleted)
      /\ MembersRoot(view) = root /\ mine \subseteq view
  BY <1>1, <1>2, PulledSettled
<1> HIDE DEF view, mine
<1>5. SecretsRoot(mine) = root /\ SecretsRoot(view) = root
  BY <1>3, <1>4, SettledShows
<1>6. SecretsOf(mine) \ deleted \subseteq SecretsOf(view)
  <2> SUFFICES ASSUME NEW s \in SecretsOf(mine), s \notin deleted
               PROVE  s \in SecretsOf(view)
    OBVIOUS
  <2>1. s \in Secret /\ \E o \in mine : o.root = root /\ o.kind = "put" /\ o.key = s
    BY <1>5 DEF SecretsOf, Entries
  <2>2. Del(root, s) \notin view
    <3>1. Del(root, s).root.id = c /\ Del(root, s).kind = "del" /\ Del(root, s).key = s
      BY DEF Del, EmptyRoot
    <3> QED
      BY <1>4, <2>1, <3>1 DEF Settled
  <2> QED
    BY <1>4, <1>5, <2>1, <2>2 DEF SecretsOf, Entries
<1>7. ASSUME NEW r \in Roots(mine), NEW k \in SecretsOf(view) \cup MembersOf(view)
      PROVE  Del(r, k) \notin mine
  <2>1. CASE r.id = c
    <3>1. r = root
      BY <1>3, <2>1 DEF Settled, Roots
    <3>2. Del(root, k) \notin view
      BY <1>4, <1>5 DEF SecretsOf, MembersOf, Entries
    <3> QED
      BY <1>4, <3>1, <3>2
  <2>2. CASE r.id # c
    <3>1. root \in Roots(mine) /\ root.id <= r.id
      BY <1>3, SettledShows
    <3>2. root.id = c
      BY DEF EmptyRoot
    <3>3. r.id \in Nat /\ c \in Nat
      BY <1>3, <3>1, <3>2, RootsType, DocumentAssumption DEF Root
    <3>4. ~ (r.id < c)
      BY <3>1, <3>2, <3>3
    <3>5. Del(r, k).root = r /\ Del(r, k).kind = "del"
      BY DEF Del
    <3> QED
      BY <1>3, <2>2, <3>4, <3>5 DEF Settled
  <2> QED
    BY <2>1, <2>2
<1> QED
  BY <1>6, <1>7 DEF mine, view

\* While nobody compacts, every pull that reads all files shows what any member
\* added and none of what any member deleted or removed, whatever was done
\* concurrently, failed, timed out or was killed, with background pulls of the UI
\* that read everything, a part or nothing.  MaxDate = 0 is that nobody compacts;
\* ColdJoin = FALSE that no manual join makes up a second vault.
THEOREM EditsAreMerged ==
    ASSUME MaxDate = 0, ColdJoin = FALSE
    PROVE  Spec => []EditsMerged
<1>1. Init => TypeOK /\ EditsInv
  BY TypeInit, EditsInit
<1>2. TypeOK /\ EditsInv /\ [Next]_vars => (TypeOK /\ EditsInv)'
  BY TypeStep, EditsStep
<1>3. TypeOK /\ EditsInv => EditsMerged
  BY MergeShowsEdits
<1> QED
  BY <1>1, <1>2, <1>3, PTL DEF Spec

(***************************************************************************)
(* Why a member's cache moves up and stays ahead of the remote file.       *)
(*                                                                         *)
(* A member has one terminal, compaction dates grow and passphrases are    *)
(* right; the persist tasks of the terminal are as many as one likes, and  *)
(* write in any order.  No property is inductive: the proof says what the  *)
(* tasks and the open UI know of the cache and of each other, and that the *)
(* versions of a member's remote file, those under way included, form a    *)
(* chain below the cache.                                                  *)
(***************************************************************************)
SoleTerminal ==
    /\ Skew = 0
    /\ Typo = FALSE
    /\ \A p, q \in Proc : Owner[p] = Owner[q] => p = q

Comparable(f, g) == Below(f.ops, g.ops) \/ Below(g.ops, f.ops)

\* No operation is dated later than the latest compaction.
DatedBy(ops, t) == \A o \in ops : o.root.date <= t

DatesInv ==
    /\ \A p \in Proc : /\ DatedBy(doc[p], clock)
                       /\ \A j \in jobs[p] : DatedBy(j.file.ops, clock)
    /\ \A m \in Member : DatedBy(local[m].ops, clock) /\ DatedBy(remote[m].ops, clock)
    /\ \A w \in late : DatedBy(w.file.ops, clock)

\* A member starts without a cache.
NewInv ==
    \A p \in Proc : status[Owner[p]] = "new" =>
        local[Owner[p]] = NoFile /\ jobs[p] = {} /\ doc[p] = {}

\* The tasks of a terminal descend from one document, the open one if there is
\* one; those that no newer task has passed are not behind the cache.
TasksOf(p) ==
    /\ \A j \in jobs[p] :
          /\ j.file.good /\ j.file.ops # {}
          /\ IF doc[p] # {} THEN Below(j.file.ops, doc[p])
             ELSE ~j.passed /\ \A k \in jobs[p] : j = k
          /\ j.stage = "local" /\ ~j.passed /\ Usable(Owner[p], local[Owner[p]]) =>
                Below(local[Owner[p]].ops, j.file.ops)
    /\ \A j, k \in jobs[p] : Comparable(j.file, k.file)
    /\ doc[p] # {} /\ Usable(Owner[p], local[Owner[p]]) =>
          Below(local[Owner[p]].ops, doc[p])

TaskInv == \A p \in Proc : TasksOf(p)

\* The remote file of a member and what may still come in its place.
Versions(m) == {remote[m]} \cup {w.file : w \in {x \in Writing : x.to = m}}

Ahead(m) ==
    /\ local[m] = NoFile \/ Usable(m, local[m])
    /\ \A f \in Versions(m) : Below(f.ops, local[m].ops)
    /\ \A f, g \in Versions(m) : Comparable(f, g)

AheadInv == \A m \in Member \ (evicted \cup setback) : Ahead(m)

CacheInv == TypeOK /\ GenerationPure /\ DatesInv /\ NewInv /\ TaskInv /\ AheadInv

-----------------------------------------------------------------------------
(***************************************************************************)
(* Writes under way                                                        *)
(***************************************************************************)
LEMMA WritingIs ==
    \A w : w \in Writing <=>
        \/ w \in late
        \/ \E p \in Proc : \E k \in jobs[p] :
              k.stage = "remote" /\ w = [to |-> Owner[p], file |-> k.file]
BY DEF Writing

LEMMA WritingNext ==
    \A w : w \in Writing' <=>
        \/ w \in late'
        \/ \E p \in Proc : \E k \in jobs'[p] :
              k.stage = "remote" /\ w = [to |-> Owner[p], file |-> k.file]
BY DEF Writing

LEMMA WritingType == TypeOK => Writing \subseteq [to : Member, file : File]
<1> SUFFICES ASSUME TypeOK, NEW w \in Writing
             PROVE  w \in [to : Member, file : File]
  OBVIOUS
<1>1. CASE w \in late
  BY <1>1 DEF TypeOK
<1>2. CASE w \notin late
  <2>1. PICK p \in Proc : \E k \in jobs[p] :
          w = [to |-> Owner[p], file |-> k.file]
    BY <1>2, WritingIs
  <2>1a. PICK k \in jobs[p] :
          w = [to |-> Owner[p], file |-> k.file]
    BY <2>1
  <2>2. Owner[p] \in Member /\ k.file \in File
    BY RepoAssumption DEF TypeOK, Job
  <2> QED
    BY <2>1a, <2>2
<1> QED
  BY <1>1, <1>2

LEMMA VersionsIs ==
    \A m, f : f \in Versions(m) <=>
        f = remote[m] \/ \E w \in Writing : w.to = m /\ f = w.file
BY DEF Versions

\* A step that starts no task in the storage.
LEMMA WritingShrinks ==
    ASSUME \A q \in Proc : \A k \in jobs'[q] : k.stage = "local" \/ k \in jobs[q],
           late' \subseteq Writing
    PROVE  Writing' \subseteq Writing
<1> SUFFICES ASSUME NEW w \in Writing'
             PROVE  w \in Writing
  OBVIOUS
<1>1. CASE w \in late'
  BY <1>1
<1>2. CASE w \notin late'
  <2>1. PICK q \in Proc : \E k \in jobs'[q] :
          k.stage = "remote" /\ w = [to |-> Owner[q], file |-> k.file]
    BY <1>2, WritingNext
  <2>1a. PICK k \in jobs'[q] :
          k.stage = "remote" /\ w = [to |-> Owner[q], file |-> k.file]
    BY <2>1
  <2> QED
    BY <2>1a, WritingIs
<1> QED
  BY <1>1, <1>2

\* A step that ends none of them either.
LEMMA WritingStays ==
    ASSUME \A q \in Proc : /\ \A k \in jobs'[q] : k.stage = "local" \/ k \in jobs[q]
                           /\ \A k \in jobs[q] : k.stage = "remote" => k \in jobs'[q],
           late' = late
    PROVE  Writing' = Writing
<1>1. Writing' \subseteq Writing
  BY WritingShrinks, WritingIs
<1>2. ASSUME NEW w \in Writing
      PROVE  w \in Writing'
  <2>1. CASE w \in late
    BY <2>1, WritingNext
  <2>2. CASE w \notin late
    <3>1. PICK q \in Proc : \E k \in jobs[q] :
            k.stage = "remote" /\ w = [to |-> Owner[q], file |-> k.file]
      BY <2>2, WritingIs
    <3>1a. PICK k \in jobs[q] :
            k.stage = "remote" /\ w = [to |-> Owner[q], file |-> k.file]
      BY <3>1
    <3> QED
      BY <3>1a, WritingNext
  <2> QED
    BY <2>1, <2>2
<1> QED
  BY <1>1, <1>2

\* The local write of a task brings its file under way.
LEMMA WritingGrows ==
    ASSUME TypeOK, NEW p \in Proc, NEW j \in jobs[p], LocalWrote(p, j), late' = late
    PROVE  Writing' = Writing \cup {[to |-> Owner[p], file |-> j.file]}
<1> DEFINE new == [to |-> Owner[p], file |-> j.file]
<1>1. \A q \in Proc : jobs[q] \subseteq Job
  BY DEF TypeOK
<1>2. ASSUME NEW w \in Writing'
      PROVE  w \in Writing \/ w = new
  <2>1. CASE w \in late
    BY <2>1, WritingIs
  <2>2. CASE w \notin late
    <3>1. PICK q \in Proc : \E k \in jobs'[q] :
            k.stage = "remote" /\ w = [to |-> Owner[q], file |-> k.file]
      BY <2>2, WritingNext
    <3>1a. PICK k \in jobs'[q] :
            k.stage = "remote" /\ w = [to |-> Owner[q], file |-> k.file]
      BY <3>1
    <3>2. PICK i \in jobs[q] : k.file = i.file /\ (k.stage = i.stage \/ (q = p /\ i = j))
      BY DEF LocalWrote
    <3> QED
      BY <3>1a, <3>2, WritingIs
  <2> QED
    BY <2>1, <2>2
<1>3. ASSUME NEW w \in Writing
      PROVE  w \in Writing'
  <2>1. CASE w \in late
    BY <2>1, WritingNext
  <2>2. CASE w \notin late
    <3>1. PICK q \in Proc : \E k \in jobs[q] :
            k.stage = "remote" /\ w = [to |-> Owner[q], file |-> k.file]
      BY <2>2, WritingIs
    <3>1a. PICK k \in jobs[q] :
            k.stage = "remote" /\ w = [to |-> Owner[q], file |-> k.file]
      BY <3>1
    <3>2. CASE q = p
      <4>1. k # j
        BY <3>1a DEF LocalWrote
      <4>2. AfterWrite(k, j) \in jobs'[p] /\ AfterWrite(k, j).file = k.file
            /\ AfterWrite(k, j).stage = "remote"
        BY <1>1, <3>1a, <3>2, <4>1, AfterWriteFacts DEF LocalWrote
      <4> QED
        BY <3>1a, <3>2, <4>2, WritingNext
    <3>3. CASE q # p
      <4>1. k \in jobs'[q]
        BY <3>3 DEF LocalWrote
      <4> QED
        BY <3>1a, <4>1, WritingNext
    <3> QED
      BY <3>2, <3>3
  <2> QED
    BY <2>1, <2>2
<1>4. new \in Writing'
  <2>1. AfterWrite(j, j) \in jobs'[p] /\ AfterWrite(j, j).file = j.file
        /\ AfterWrite(j, j).stage = "remote"
    BY <1>1, AfterWriteFacts DEF LocalWrote
  <2> QED
    BY <2>1, WritingNext
<1> QED
  BY <1>2, <1>3, <1>4

\* A task that ends, or a write that lands, takes one write away, or none when
\* the same one is under way twice.
LEMMA WritingDrops ==
    ASSUME TypeOK, NEW p \in Proc, NEW j \in jobs[p], Drop(p, j), late' = late
    PROVE  /\ Writing' \subseteq Writing
           /\ Writing \ {[to |-> Owner[p], file |-> j.file]} \subseteq Writing'
<1>1. /\ jobs'[p] = jobs[p] \ {j}
      /\ \A q \in Proc \ {p} : jobs'[q] = jobs[q]
  BY DEF Drop, TypeOK
<1>2. Writing' \subseteq Writing
  BY <1>1, WritingShrinks, WritingIs
<1>3. ASSUME NEW w \in Writing, w # [to |-> Owner[p], file |-> j.file]
      PROVE  w \in Writing'
  <2>1. CASE w \in late
    BY <2>1, WritingNext
  <2>2. CASE w \notin late
    <3>1. PICK q \in Proc : \E k \in jobs[q] :
            k.stage = "remote" /\ w = [to |-> Owner[q], file |-> k.file]
      BY <2>2, WritingIs
    <3>1a. PICK k \in jobs[q] :
            k.stage = "remote" /\ w = [to |-> Owner[q], file |-> k.file]
      BY <3>1
    <3>2. k \in jobs'[q]
      BY <1>1, <1>3, <3>1a
    <3> QED
      BY <3>1a, <3>2, WritingNext
  <2> QED
    BY <2>1, <2>2
<1> QED
  BY <1>2, <1>3

LEMMA WritingLands ==
    ASSUME NEW w \in late, late' = late \ {w}, jobs' = jobs
    PROVE  Writing' \subseteq Writing /\ Writing \ {w} \subseteq Writing'
<1>1. Writing' \subseteq Writing
  BY WritingShrinks, WritingIs
<1>2. ASSUME NEW x \in Writing, x # w
      PROVE  x \in Writing'
  BY <1>2, WritingIs, WritingNext
<1> QED
  BY <1>1, <1>2

\* The members that stay in keep a chain below their cache when nothing starts.
LEMMA AheadKeeps ==
    ASSUME AheadInv, Writing' \subseteq Writing, UNCHANGED <<local, evicted, setback>>,
           \A m \in Member : remote'[m] \in Versions(m)
    PROVE  AheadInv'
<1> SUFFICES ASSUME NEW m \in Member \ (evicted \cup setback)
             PROVE  Ahead(m)'
  BY DEF AheadInv
<1>1. \A f : f \in Versions(m)' => f \in Versions(m)
  <2> SUFFICES ASSUME NEW f, f \in Versions(m)'
               PROVE  f \in Versions(m)
    OBVIOUS
  <2>1. f = remote'[m] \/ \E w \in Writing' : w.to = m /\ f = w.file
    BY DEF Versions
  <2> QED
    BY <2>1, VersionsIs
<1>2. Ahead(m)
  BY DEF AheadInv
<1> QED
  BY <1>1, <1>2 DEF Ahead, Usable

-----------------------------------------------------------------------------
\* What a pull knows: its document is dated and not below the cache.
LEMMA PullKnows ==
    ASSUME CacheInv, NEW m \in Member, NEW S \in SUBSET Member,
           NEW o \in PullOutcome(m, S)
    PROVE  /\ o.doc \in SUBSET Op /\ o.doc # {} /\ DatedBy(o.doc, clock)
           /\ Usable(m, local[m]) => Below(local[m].ops, o.doc)
<1> USE DEF CacheInv
<1>1. o.doc \in SUBSET Op /\ o.doc # {}
  BY PullType
<1>2. CASE Candidates(m, S) # {}
  <2>1. o.doc = Pulled(m, S)
    BY <1>2 DEF PullOutcome
  <2>2. \A d \in Candidates(m, S) : DatedBy(d, clock)
    BY DEF Candidates, DatesInv
  <2>3. DatedBy(o.doc, clock)
    BY <2>1, <2>2 DEF Pulled, Newest, DatedBy
  <2> QED
    BY <1>1, <2>1, <2>3, PullBelow
<1>3. CASE Candidates(m, S) = {}
  <2>1. PICK r \in RootId \ roots : o.doc = EmptyVault(r)
    BY <1>3 DEF PullOutcome
  <2>2. \A e \in o.doc : e.root.date = 0
    <3>1. EmptyRoot(r).date = 0
      BY DEF EmptyRoot
    <3>2. \A e \in o.doc : e.root = EmptyRoot(r)
      BY <2>1, EmptyVaultType
    <3> QED
      BY <3>1, <3>2
  <2>3. clock \in Nat
    BY DocumentAssumption DEF TypeOK
  <2>4. DatedBy(o.doc, clock)
    BY <2>2, <2>3 DEF DatedBy
  <2> QED
    BY <1>1, <1>3, <2>4, PullBelow
<1> QED
  BY <1>2, <1>3

\* A command that starts to persist a document that is not below the cache.
LEMMA CommandKeeps ==
    ASSUME SoleTerminal, CacheInv, TypeOK', GenerationPure',
           NEW p \in Proc, NEW d \in SUBSET Op, d # {}, Idle(p),
           Command(p, d, TRUE), DatedBy(d, clock),
           Usable(Owner[p], local[Owner[p]]) => Below(local[Owner[p]].ops, d),
           status'[Owner[p]] # "new",
           \A m \in Member \ {Owner[p]} : status'[m] = status[m]
    PROVE  CacheInv'
<1> DEFINE j == Started(d, TRUE)
<1>1. jobs' = [jobs EXCEPT ![p] = {j}]
  BY DEF Command
<1>2. UNCHANGED <<local, remote, late, doc, clock, evicted, setback>>
  BY DEF Command
<1>3. j.file.ops = d /\ j.file.good = TRUE /\ j.stage = "local" /\ ~j.passed
  BY DEF Started
<1> HIDE DEF j
<1>4. jobs'[p] = {j} /\ \A q \in Proc \ {p} : jobs'[q] = jobs[q]
  BY <1>1 DEF CacheInv, TypeOK
<1>5. doc[p] = {} /\ jobs[p] = {}
  BY DEF Idle
<1>6. DatesInv'
  BY <1>2, <1>3, <1>4 DEF CacheInv, DatesInv
<1>7. NewInv'
  BY <1>2, <1>4, RepoAssumption DEF CacheInv, NewInv, SoleTerminal
<1>8. TasksOf(p)'
  BY <1>2, <1>3, <1>4, <1>5, BelowReflexive DEF TasksOf, Usable, Comparable
<1>9. \A q \in Proc \ {p} : TasksOf(q)'
  BY <1>2, <1>4 DEF CacheInv, TaskInv, TasksOf, Usable
<1>10. TaskInv'
  BY <1>8, <1>9 DEF TaskInv
<1>11. AheadInv'
  <2>1. Writing' = Writing
    BY <1>2, <1>3, <1>4, <1>5, WritingStays
  <2>2. \A m \in Member : remote'[m] \in Versions(m)
    BY <1>2, VersionsIs
  <2> QED
    BY <1>2, <2>1, <2>2, AheadKeeps DEF CacheInv
<1> QED
  BY <1>6, <1>7, <1>10, <1>11 DEF CacheInv

\* A UI that replaces its document by one above it and starts to persist it.
LEMMA PersistKeeps ==
    ASSUME SoleTerminal, CacheInv, TypeOK', GenerationPure',
           NEW p \in Proc, NEW d \in SUBSET Op, d # {}, Persist(p, d),
           Below(doc[p], d), DatedBy(d, clock'), clock <= clock',
           UNCHANGED <<evicted, setback>>
    PROVE  CacheInv'
<1> DEFINE j == Started(d, TRUE)
           m == Owner[p]
<1>1. jobs' = [jobs EXCEPT ![p] = @ \cup {j}] /\ doc' = [doc EXCEPT ![p] = d]
  BY DEF Persist
<1>2. UNCHANGED <<local, remote, late, status>> /\ doc[p] # {}
  BY DEF Persist, durable
<1>3. j.file.ops = d /\ j.file.good = TRUE /\ j.stage = "local" /\ ~j.passed
  BY DEF Started
<1> HIDE DEF j
<1>4. jobs'[p] = jobs[p] \cup {j} /\ \A q \in Proc \ {p} : jobs'[q] = jobs[q]
  BY <1>1 DEF CacheInv, TypeOK
<1>5. doc'[p] = d /\ \A q \in Proc \ {p} : doc'[q] = doc[q]
  BY <1>1 DEF CacheInv, TypeOK
<1>6. m \in Member /\ status[m] # "new"
  BY <1>2, RepoAssumption DEF CacheInv, NewInv
<1>7. /\ local[m].ops \in SUBSET Op /\ doc[p] \in SUBSET Op
      /\ \A k \in jobs[p] : k.file.ops \in SUBSET Op
  BY <1>6 DEF CacheInv, TypeOK, Job, File
<1>8. Usable(m, local[m]) => Below(local[m].ops, d)
  BY <1>2, <1>7, BelowTransitive DEF CacheInv, TaskInv, TasksOf
<1>9. \A k \in jobs[p] : Below(k.file.ops, d)
  BY <1>2, <1>7, BelowTransitive DEF CacheInv, TaskInv, TasksOf
<1>10. ASSUME NEW ops \in SUBSET Op, DatedBy(ops, clock)
       PROVE  DatedBy(ops, clock')
  <2>1. clock \in Int /\ clock' \in Int
    BY DocumentAssumption DEF CacheInv, TypeOK
  <2>2. \A o \in ops : o.root.date \in Int
    BY DocumentAssumption DEF Op, Root
  <2> QED
    BY <1>10, <2>1, <2>2 DEF DatedBy
<1>11. DatesInv'
  <2>1. \A q \in Proc : DatedBy(doc[q], clock') /\ \A k \in jobs[q] : DatedBy(k.file.ops, clock')
    BY <1>10 DEF CacheInv, TypeOK, DatesInv, Job, File
  <2>2. \A x \in Member : DatedBy(local[x].ops, clock') /\ DatedBy(remote[x].ops, clock')
    BY <1>10 DEF CacheInv, TypeOK, DatesInv, File
  <2>3. \A w \in late : DatedBy(w.file.ops, clock')
    BY <1>10 DEF CacheInv, TypeOK, DatesInv, File
  <2> QED
    BY <1>2, <1>3, <1>4, <1>5, <2>1, <2>2, <2>3 DEF DatesInv
<1>12. NewInv'
  BY <1>2, <1>4, <1>5, <1>6 DEF CacheInv, NewInv
<1>13. TasksOf(p)'
  <2>1. TasksOf(p)
    BY DEF CacheInv, TaskInv
  <2>2. \A k \in jobs'[p] :
          /\ k.file.good /\ k.file.ops # {} /\ Below(k.file.ops, doc'[p])
          /\ k.stage = "local" /\ ~k.passed /\ Usable(m, local[m]) =>
                Below(local[m].ops, k.file.ops)
    BY <1>3, <1>4, <1>5, <1>8, <1>9, <2>1, BelowReflexive DEF TasksOf
  <2>3. \A h, k \in jobs'[p] : Comparable(h.file, k.file)
    BY <1>3, <1>4, <1>9, <2>1, BelowReflexive DEF TasksOf, Comparable
  <2> QED
    BY <1>2, <1>5, <1>8, <2>2, <2>3 DEF TasksOf, Usable, Comparable
<1>14. \A q \in Proc \ {p} : TasksOf(q)'
  BY <1>2, <1>4, <1>5 DEF CacheInv, TaskInv, TasksOf, Usable
<1>15. TaskInv'
  BY <1>13, <1>14 DEF TaskInv
<1>16. AheadInv'
  <2>1. Writing' = Writing
    BY <1>2, <1>3, <1>4, WritingStays
  <2>2. \A x \in Member : remote'[x] \in Versions(x)
    BY <1>2, VersionsIs
  <2> QED
    BY <1>2, <2>1, <2>2, AheadKeeps DEF CacheInv
<1> QED
  BY <1>11, <1>12, <1>15, <1>16 DEF CacheInv

-----------------------------------------------------------------------------
\* The task that writes the cache: it goes up, or the task was passed.
LEMMA CacheUp ==
    ASSUME CacheInv, NEW p \in Proc, NEW j \in jobs[p], LocalWrote(p, j)
    PROVE  LET m == Owner[p] IN
           /\ local'[m] = j.file /\ \A x \in Member \ {m} : local'[x] = local[x]
           /\ ~j.passed /\ Usable(m, local[m]) => Below(local[m].ops, j.file.ops)
           /\ j.passed /\ Usable(m, local[m]) => Below(local[m].ops, doc[p])
           /\ j.passed => m \in setback'
<1>1. Owner[p] \in Member
  BY RepoAssumption
<1>2. TasksOf(p)
  BY DEF CacheInv, TaskInv
<1> QED
  BY <1>1, <1>2 DEF LocalWrote, TasksOf, CacheInv, TypeOK

\* The tasks of a terminal after one of them wrote the cache.
LEMMA LocalTasks ==
    ASSUME CacheInv, NEW p \in Proc, NEW j \in jobs[p], LocalWrote(p, j), doc' = doc
    PROVE  TasksOf(p)'
<1> DEFINE m == Owner[p]
<1>1. TasksOf(p) /\ jobs[p] \subseteq Job
  BY DEF CacheInv, TaskInv, TypeOK
<1>2. local'[m] = j.file
  BY CacheUp
<1>3. ASSUME NEW k \in jobs'[p]
      PROVE  \E i \in jobs[p] : /\ k = AfterWrite(i, j) /\ k.file = i.file
                                /\ k.stage = "local" => i # j /\ i.stage = "local"
                                /\ k.stage = "local" /\ ~k.passed =>
                                      ~i.passed /\ ~Below(i.file.ops, j.file.ops)
  <2>1. PICK i \in jobs[p] : k = AfterWrite(i, j)
    BY <1>3 DEF LocalWrote
  <2> QED
    BY <1>1, <2>1, AfterWriteFacts
<1>4. ASSUME NEW k \in jobs'[p]
      PROVE  k.file.good /\ k.file.ops # {}
  BY <1>1, <1>3, <1>4 DEF TasksOf
<1>5. ASSUME NEW k \in jobs'[p], doc[p] # {}
      PROVE  Below(k.file.ops, doc[p])
  BY <1>1, <1>3, <1>5 DEF TasksOf
<1>6. ASSUME NEW k \in jobs'[p], doc[p] = {}
      PROVE  ~k.passed /\ \A h \in jobs'[p] : k = h
  <2>1. \A i \in jobs[p] : i = j
    BY <1>1, <1>6 DEF TasksOf
  <2>2. \A h \in jobs'[p] : h = AfterWrite(j, j)
    BY <2>1 DEF LocalWrote
  <2>3. AfterWrite(j, j) = [j EXCEPT !.stage = "remote", !.passed = FALSE]
    BY DEF AfterWrite
  <2>4. ~AfterWrite(j, j).passed
    BY <1>1, <2>3 DEF Job
  <2> QED
    BY <2>2, <2>4
<1>7. ASSUME NEW k \in jobs'[p], k.stage = "local", ~k.passed
      PROVE  Below(j.file.ops, k.file.ops)
  <2>1. PICK i \in jobs[p] : k.file = i.file /\ ~Below(i.file.ops, j.file.ops)
    BY <1>3, <1>7
  <2> QED
    BY <1>1, <2>1 DEF TasksOf, Comparable
<1>8. \A h, k \in jobs'[p] : Comparable(h.file, k.file)
  <2> SUFFICES ASSUME NEW h \in jobs'[p], NEW k \in jobs'[p]
               PROVE  Comparable(h.file, k.file)
    OBVIOUS
  <2>1. PICK i \in jobs[p] : h.file = i.file
    BY <1>3
  <2>2. PICK l \in jobs[p] : k.file = l.file
    BY <1>3
  <2> QED
    BY <1>1, <2>1, <2>2 DEF TasksOf
<1>9. doc[p] # {} => Below(j.file.ops, doc[p])
  BY <1>1 DEF TasksOf
<1> QED
  BY <1>2, <1>4, <1>5, <1>6, <1>7, <1>8, <1>9 DEF TasksOf, Comparable

\* The versions of the owner's remote file after its cache was written.
LEMMA LocalAhead ==
    ASSUME CacheInv, TypeOK', NEW p \in Proc, NEW j \in jobs[p], LocalWrote(p, j),
           UNCHANGED <<remote, late>>, Owner[p] \notin evicted' \cup setback'
    PROVE  Ahead(Owner[p])'
<1> DEFINE m == Owner[p]
<1>1. m \in Member /\ m \in MembersOf(j.file.ops) /\ ~j.passed
  BY RepoAssumption DEF LocalWrote
<1>2. m \notin evicted \cup setback
  BY DEF LocalWrote
<1>3. Ahead(m) /\ TasksOf(p)
  BY <1>1, <1>2 DEF CacheInv, AheadInv, TaskInv
<1>4. local'[m] = j.file /\ Usable(m, local'[m])
  BY <1>1, <1>3, CacheUp DEF Usable, TasksOf
<1>5. Below(local[m].ops, j.file.ops)
  <2>1. CASE Usable(m, local[m])
    BY <1>1, <2>1, CacheUp
  <2>2. CASE local[m] = NoFile
    BY <2>2 DEF NoFile, Below
  <2> QED
    BY <1>3, <2>1, <2>2 DEF Ahead
<1>6. \A f : f \in Versions(m)' => f \in Versions(m) \/ f = j.file
  <2>1. Writing' = Writing \cup {[to |-> m, file |-> j.file]}
    BY WritingGrows DEF CacheInv
  <2> SUFFICES ASSUME NEW f, f \in Versions(m)'
               PROVE  f \in Versions(m) \/ f = j.file
    OBVIOUS
  <2>2. f = remote'[m] \/ \E w \in Writing' : w.to = m /\ f = w.file
    BY DEF Versions
  <2> QED
    BY <2>1, <2>2, VersionsIs
<1>7. \A f \in Versions(m) : f.ops \in SUBSET Op
  <2>1. \A w \in Writing : w.file \in File
    BY WritingType DEF CacheInv
  <2> QED
    BY <1>1, <2>1, VersionsIs DEF CacheInv, TypeOK, File
<1>8. local[m].ops \in SUBSET Op /\ j.file.ops \in SUBSET Op
  BY <1>1 DEF CacheInv, TypeOK, Job, File
<1>9. \A f \in Versions(m) : Below(f.ops, j.file.ops)
  BY <1>3, <1>5, <1>7, <1>8, BelowTransitive DEF Ahead
<1>10. \A f \in Versions(m)' : Below(f.ops, local'[m].ops)
  BY <1>4, <1>6, <1>9, BelowReflexive
<1>11. \A f, g \in Versions(m)' : Comparable(f, g)
  BY <1>3, <1>6, <1>9, BelowReflexive DEF Ahead, Comparable
<1> QED
  BY <1>4, <1>10, <1>11 DEF Ahead, Usable, Comparable

\* The two writes of a task, and what becomes of it when one of them fails.
LEMMA FilesKeep ==
    ASSUME SoleTerminal, CacheInv, TypeOK', GenerationPure',
           NEW p \in Proc, FileStep(p)
    PROVE  CacheInv'
<1> DEFINE m == Owner[p]
<1>1. m \in Member /\ \A q \in Proc \ {p} : Owner[q] # m
  BY RepoAssumption DEF SoleTerminal
<1>2. ASSUME NEW j \in jobs[p]
      PROVE  DatedBy(j.file.ops, clock) /\ status[m] # "new"
  BY DEF CacheInv, DatesInv, NewInv
<1>3. CASE LocalPush(p)
  <2>1. PICK j \in jobs[p] : LocalWrote(p, j)
    BY <1>3, LocalWrite DEF CacheInv
  <2>2. UNCHANGED <<remote, late, status, doc, clock>>
    BY <1>3 DEF LocalPush
  <2>3. local'[m] = j.file /\ \A x \in Member \ {m} : local'[x] = local[x]
    BY <2>1, CacheUp
  <2>4. \A q \in Proc \ {p} : jobs'[q] = jobs[q] /\ local'[Owner[q]] = local[Owner[q]]
    BY <1>1, <2>1, <2>3, RepoAssumption DEF LocalWrote
  <2>5. DatesInv'
    <3>1. \A k \in jobs'[p] : \E i \in jobs[p] : k.file = i.file
      BY <2>1 DEF LocalWrote
    <3>2. \A k \in jobs'[p] : DatedBy(k.file.ops, clock)
      BY <1>2, <3>1
    <3> QED
      BY <1>2, <2>2, <2>3, <2>4, <3>2 DEF CacheInv, DatesInv
  <2>6. NewInv'
    BY <1>2, <2>2, <2>4 DEF CacheInv, NewInv
  <2>7. TaskInv'
    <3>1. TasksOf(p)'
      BY <2>1, <2>2, LocalTasks
    <3>2. \A q \in Proc \ {p} : TasksOf(q)'
      BY <2>2, <2>4 DEF CacheInv, TaskInv, TasksOf, Usable, Comparable
    <3> QED
      BY <3>1, <3>2 DEF TaskInv
  <2>8. ASSUME NEW x \in Member \ (evicted' \cup setback')
        PROVE  Ahead(x)'
    <3>1. CASE x = m
      BY <2>1, <2>2, <2>8, <3>1, LocalAhead
    <3>2. CASE x # m
      <4>1. Ahead(x) /\ local'[x] = local[x]
        BY <2>1, <2>3, <3>2 DEF CacheInv, AheadInv, LocalWrote
      <4>2. Writing' = Writing \cup {[to |-> m, file |-> j.file]}
        BY <2>1, <2>2, WritingGrows DEF CacheInv
      <4>3. \A f : f \in Versions(x)' => f \in Versions(x)
        <5> SUFFICES ASSUME NEW f, f \in Versions(x)'
                     PROVE  f \in Versions(x)
          OBVIOUS
        <5>1. f = remote'[x] \/ \E w \in Writing' : w.to = x /\ f = w.file
          BY DEF Versions
        <5> QED
          BY <2>2, <3>2, <4>2, <5>1, VersionsIs
      <4> QED
        BY <4>1, <4>3 DEF Ahead, Usable
    <3> QED
      BY <3>1, <3>2
  <2>9. AheadInv'
    BY <2>8 DEF AheadInv
  <2> QED
    BY <2>5, <2>6, <2>7, <2>9 DEF CacheInv
<1>4. ASSUME NEW j \in jobs[p], Drop(p, j), late' \subseteq Writing,
             UNCHANGED <<local, status, doc, clock, evicted, setback>>,
             \A x \in Member : remote'[x] \in Versions(x),
             DatesInv'
      PROVE  CacheInv'
  <2>1. jobs'[p] = jobs[p] \ {j} /\ \A q \in Proc \ {p} : jobs'[q] = jobs[q]
    BY <1>4 DEF Drop, CacheInv, TypeOK
  <2>2. NewInv'
    BY <1>4, <2>1 DEF CacheInv, NewInv
  <2>3. TaskInv'
    <3>1. TasksOf(p)'
      BY <1>4, <2>1 DEF CacheInv, TaskInv, TasksOf, Usable, Comparable
    <3>2. \A q \in Proc \ {p} : TasksOf(q)'
      BY <1>4, <2>1 DEF CacheInv, TaskInv, TasksOf, Usable, Comparable
    <3> QED
      BY <3>1, <3>2 DEF TaskInv
  <2>4. Writing' \subseteq Writing
    BY <1>4, <2>1, WritingShrinks
  <2> QED
    BY <1>4, <2>2, <2>3, <2>4, AheadKeeps DEF CacheInv
<1>5. ASSUME NEW j \in jobs[p], Drop(p, j)
      PROVE  \A q \in Proc : \A k \in jobs'[q] : DatedBy(k.file.ops, clock)
  BY <1>5 DEF Drop, CacheInv, DatesInv, TypeOK
<1>6. CASE PushFail(p)
  <2>1. PICK j \in jobs[p] : Drop(p, j)
    BY <1>6 DEF PushFail
  <2>2. UNCHANGED <<local, remote, late, status, doc, clock, evicted, setback>>
    BY <1>6 DEF PushFail, durable, Fault
  <2>3. DatesInv'
    BY <1>5, <2>1, <2>2 DEF CacheInv, DatesInv
  <2> QED
    BY <1>4, <2>1, <2>2, <2>3, VersionsIs, WritingIs
<1>7. CASE RemotePush(p)
  <2>1. PICK j \in jobs[p] : /\ j.stage = "remote" /\ Drop(p, j)
                            /\ remote' = [remote EXCEPT ![m] = j.file]
    BY <1>7 DEF RemotePush
  <2>2. UNCHANGED <<local, late, status, doc, clock, evicted, setback>>
    BY <1>7 DEF RemotePush, history
  <2>3. remote'[m] = j.file /\ \A x \in Member \ {m} : remote'[x] = remote[x]
    BY <1>1, <2>1 DEF CacheInv, TypeOK
  <2>4. DatesInv'
    BY <1>2, <1>5, <2>1, <2>2, <2>3 DEF CacheInv, DatesInv
  <2>5. \A x \in Member : remote'[x] \in Versions(x)
    <3>1. [to |-> m, file |-> j.file] \in Writing
      BY <2>1, WritingIs
    <3>2. j.file \in Versions(m)
      BY <3>1, VersionsIs
    <3> QED
      BY <2>3, <3>2, VersionsIs
  <2> QED
    BY <1>4, <2>1, <2>2, <2>4, <2>5, WritingIs
<1>8. CASE RemoteTimeout(p)
  <2>1. PICK j \in jobs[p] : /\ j.stage = "remote" /\ Drop(p, j)
                            /\ late' = late \cup {[to |-> m, file |-> j.file]}
    BY <1>8 DEF RemoteTimeout
  <2>2. UNCHANGED <<local, remote, status, doc, clock, evicted, setback>>
    BY <1>8 DEF RemoteTimeout, Fault
  <2>3. \A w \in late' : w \in late \/ w = [to |-> m, file |-> j.file]
    BY <2>1
  <2>4. DatesInv'
    BY <1>2, <1>5, <2>1, <2>2, <2>3 DEF CacheInv, DatesInv
  <2>5. late' \subseteq Writing
    BY <2>1, <2>3, WritingIs
  <2> QED
    BY <1>4, <2>1, <2>2, <2>4, <2>5, VersionsIs
<1> QED
  BY <1>3, <1>6, <1>7, <1>8 DEF FileStep

-----------------------------------------------------------------------------
LEMMA CacheInit == Init => CacheInv
<1> SUFFICES ASSUME Init
             PROVE  CacheInv
  OBVIOUS
<1>1. TypeOK /\ GenerationPure
  BY TypeInit, PureInit
<1>2. DatesInv /\ NewInv /\ TaskInv
  BY RepoAssumption DEF Init, DatesInv, DatedBy, NewInv, TaskInv, TasksOf, NoFile
<1>3. Writing = {}
  BY WritingIs DEF Init
<1>4. \A m \in Member : \A f : f \in Versions(m) => f = NoFile
  BY <1>3, VersionsIs DEF Init
<1>5. AheadInv
  BY <1>4, BelowReflexive DEF Init, AheadInv, Ahead, Comparable
<1> QED
  BY <1>1, <1>2, <1>5 DEF CacheInv

LEMMA CacheStep ==
    ASSUME SoleTerminal, CacheInv, [CoreNext]_vars
    PROVE  CacheInv'
<1> USE RepoAssumption
<1>1. TypeOK' /\ GenerationPure'
  BY TypeStep, PureStep DEF CacheInv, Next
<1>2. ASSUME NEW p \in Proc, Create(p)
      PROVE  CacheInv'
  <2>1. PICK r \in RootId :
          Command(p, EmptyVault(r) \cup {Put(EmptyRoot(r), Owner[p], NoKey),
                                         Grant(EmptyRoot(r), Owner[p])}, TRUE)
    BY <1>2 DEF Create
  <2> DEFINE d == EmptyVault(r) \cup {Put(EmptyRoot(r), Owner[p], NoKey),
                                      Grant(EmptyRoot(r), Owner[p])}
  <2>2. d \in SUBSET Op /\ d # {}
    BY EmptyVaultType, OpTypes
  <2>3. DatedBy(d, clock)
    <3>1. \A o \in d : o.root = EmptyRoot(r)
      BY EmptyVaultType, OpRoots
    <3>2. EmptyRoot(r).date = 0 /\ clock \in Nat
      BY DocumentAssumption DEF EmptyRoot, CacheInv, TypeOK
    <3> HIDE DEF d
    <3> QED
      BY <3>1, <3>2 DEF DatedBy
  <2>4. Idle(p) /\ status[Owner[p]] = "new" /\ status' = [status EXCEPT ![Owner[p]] = "setup"]
    BY <1>2 DEF Create
  <2>5. status'[Owner[p]] # "new" /\ \A m \in Member \ {Owner[p]} : status'[m] = status[m]
    BY <2>4 DEF CacheInv, TypeOK
  <2>6. ~ Usable(Owner[p], local[Owner[p]])
    BY <2>4 DEF CacheInv, NewInv, NoFile, Usable
  <2> HIDE DEF d
  <2> QED
    BY <1>1, <2>1, <2>2, <2>3, <2>4, <2>5, <2>6, CommandKeeps DEF d
<1>3. ASSUME NEW p \in Proc, NEW S \in SUBSET Member, NEW x \in Member \cup {NoKey},
             Join(p, S, x)
      PROVE  CacheInv'
  <2>1. PICK o \in PullOutcome(Owner[p], S) :
          Command(p, o.doc \cup {Put(MembersRoot(o.doc), Owner[p], x)}, TRUE)
    BY <1>3 DEF Join
  <2> DEFINE e == Put(MembersRoot(o.doc), Owner[p], x)
  <2>2. /\ o.doc \in SUBSET Op /\ o.doc # {} /\ DatedBy(o.doc, clock)
        /\ Usable(Owner[p], local[Owner[p]]) => Below(local[Owner[p]].ops, o.doc)
    BY PullKnows
  <2>3. MembersRoot(o.doc) \in Roots(o.doc) /\ MembersRoot(o.doc) \in Root
    BY <2>2, MembersRootType, RootsType
  <2>4. e \in Op /\ e.root \in Roots(o.doc)
    BY <2>3, OpTypes, OpRoots
  <2>5. Idle(p) /\ status' = [status EXCEPT ![Owner[p]] = "setup"]
    BY <1>3 DEF Join
  <2>6. status'[Owner[p]] # "new" /\ \A m \in Member \ {Owner[p]} : status'[m] = status[m]
    BY <2>5 DEF CacheInv, TypeOK
  <2> HIDE DEF e
  <2>7. DatedBy(o.doc \cup {e}, clock)
    BY <2>2, <2>4 DEF DatedBy, Roots
  <2>8. Usable(Owner[p], local[Owner[p]]) => Below(local[Owner[p]].ops, o.doc \cup {e})
    <3>1. local[Owner[p]].ops \in SUBSET Op
      BY DEF CacheInv, TypeOK, File
    <3> QED
      BY <2>2, <2>4, <3>1, EditAbove, BelowTransitive
  <2> QED
    BY <1>1, <2>1, <2>2, <2>4, <2>5, <2>6, <2>7, <2>8, CommandKeeps DEF e
<1>4. ASSUME NEW p \in Proc, NEW S \in SUBSET Member, ForceSync(p, S, TRUE)
      PROVE  CacheInv'
  <2>1. PICK o \in PullOutcome(Owner[p], S) : Command(p, o.doc, TRUE)
    BY <1>4 DEF ForceSync
  <2>2. Idle(p) /\ status[Owner[p]] # "new" /\ UNCHANGED status
    BY <1>4 DEF ForceSync
  <2> QED
    BY <1>1, <2>1, <2>2, PullKnows, CommandKeeps
<1>5. ASSUME NEW p \in Proc, OpenUi(p)
      PROVE  CacheInv'
  <2>1. PICK S \in SUBSET Member : \E o \in PullOutcome(Owner[p], S) :
          doc' = [doc EXCEPT ![p] = o.doc]
    BY <1>5 DEF OpenUi
  <2>2. PICK o \in PullOutcome(Owner[p], S) : doc' = [doc EXCEPT ![p] = o.doc]
    BY <2>1
  <2>3. /\ DatedBy(o.doc, clock)
        /\ Usable(Owner[p], local[Owner[p]]) => Below(local[Owner[p]].ops, o.doc)
    BY PullKnows
  <2>4. /\ UNCHANGED <<local, remote, late, jobs, clock, evicted, setback>>
        /\ jobs[p] = {} /\ status[Owner[p]] # "new"
        /\ status' = [status EXCEPT ![Owner[p]] = "opened"]
    BY <1>5 DEF OpenUi, Idle
  <2>5. doc'[p] = o.doc /\ \A q \in Proc \ {p} : doc'[q] = doc[q]
    BY <2>2 DEF CacheInv, TypeOK
  <2>6. DatesInv'
    BY <2>3, <2>4, <2>5 DEF CacheInv, DatesInv
  <2>7. NewInv'
    BY <2>4, <2>5 DEF CacheInv, NewInv, TypeOK
  <2>8. TaskInv'
    <3>1. TasksOf(p)'
      BY <2>3, <2>4, <2>5 DEF TasksOf, Usable
    <3>2. \A q \in Proc \ {p} : TasksOf(q)'
      BY <2>4, <2>5 DEF CacheInv, TaskInv, TasksOf, Usable, Comparable
    <3> QED
      BY <3>1, <3>2 DEF TaskInv
  <2>9. AheadInv'
    <3>1. Writing' = Writing
      BY <2>4, WritingStays
    <3>2. \A m \in Member : remote'[m] \in Versions(m)
      BY <2>4, VersionsIs
    <3> QED
      BY <2>4, <3>1, <3>2, AheadKeeps DEF CacheInv
  <2> QED
    BY <1>1, <2>6, <2>7, <2>8, <2>9 DEF CacheInv
<1>6. ASSUME NEW p \in Proc, NEW o \in Op, o.root \in Roots(doc[p]),
             Persist(p, doc[p] \cup {o}), UNCHANGED <<clock, evicted, setback>>
      PROVE  CacheInv'
  <2>1. doc[p] \in SUBSET Op /\ doc[p] # {}
    BY <1>6 DEF Persist, CacheInv, TypeOK
  <2>2. Below(doc[p], doc[p] \cup {o}) /\ doc[p] \cup {o} \in SUBSET Op
    BY <1>6, <2>1, EditAbove
  <2>3. DatedBy(doc[p] \cup {o}, clock')
    BY <1>6 DEF CacheInv, DatesInv, DatedBy, Roots
  <2>4. clock <= clock'
    BY <1>6, DocumentAssumption DEF CacheInv, TypeOK
  <2> QED
    BY <1>1, <1>6, <2>1, <2>2, <2>3, <2>4, PersistKeeps
<1>7. ASSUME NEW p \in Proc, NEW d, Persist(p, d)
      PROVE  /\ SecretsRoot(doc[p]) \in Roots(doc[p]) /\ SecretsRoot(doc[p]) \in Root
             /\ MembersRoot(doc[p]) \in Roots(doc[p]) /\ MembersRoot(doc[p]) \in Root
  <2>1. doc[p] \in SUBSET Op /\ doc[p] # {}
    BY <1>7 DEF Persist, CacheInv, TypeOK
  <2> QED
    BY <2>1, SecretsRootType, MembersRootType, RootsType
<1>8. ASSUME NEW p \in Proc, AddSecret(p)
      PROVE  CacheInv'
  <2>1. PICK s \in Secret \ minted :
          Persist(p, doc[p] \cup {Put(SecretsRoot(doc[p]), s, NoKey)})
    BY <1>8 DEF AddSecret
  <2> DEFINE o == Put(SecretsRoot(doc[p]), s, NoKey)
  <2>2. o \in Op /\ o.root \in Roots(doc[p])
    BY <1>7, <2>1, OpTypes, OpRoots
  <2> QED
    BY <1>6, <1>8, <2>1, <2>2 DEF AddSecret
<1>9. ASSUME NEW p \in Proc, DeleteSecret(p)
      PROVE  CacheInv'
  <2>1. PICK s \in SecretsOf(doc[p]) :
          Persist(p, doc[p] \cup {Del(SecretsRoot(doc[p]), s)})
    BY <1>9 DEF DeleteSecret
  <2>2. s \in Secret
    BY DEF SecretsOf, Entries
  <2> DEFINE o == Del(SecretsRoot(doc[p]), s)
  <2>3. o \in Op /\ o.root \in Roots(doc[p])
    BY <1>7, <2>1, <2>2, OpTypes, OpRoots
  <2> QED
    BY <1>6, <1>9, <2>1, <2>3 DEF DeleteSecret
<1>10. ASSUME NEW p \in Proc, GrantMember(p)
       PROVE  CacheInv'
  <2>1. PICK x \in Grantable(doc[p], Owner[p]) :
          Persist(p, doc[p] \cup {Grant(MembersRoot(doc[p]), x)})
    BY <1>10 DEF GrantMember
  <2>2. x \in Member
    BY DEF Grantable, MembersOf, Entries
  <2> DEFINE o == Grant(MembersRoot(doc[p]), x)
  <2>3. o \in Op /\ o.root \in Roots(doc[p])
    BY <1>7, <2>1, <2>2, OpTypes, OpRoots
  <2> QED
    BY <1>6, <1>10, <2>1, <2>3 DEF GrantMember, history
<1>11. ASSUME NEW p \in Proc, RemoveMember(p)
       PROVE  CacheInv'
  <2>1. PICK x \in MembersOf(doc[p]) \ {Owner[p]} :
          Persist(p, doc[p] \cup {Del(MembersRoot(doc[p]), x)})
    BY <1>11 DEF RemoveMember
  <2>2. x \in Member
    BY DEF MembersOf, Entries
  <2> DEFINE o == Del(MembersRoot(doc[p]), x)
  <2>3. o \in Op /\ o.root \in Roots(doc[p])
    BY <1>7, <2>1, <2>2, OpTypes, OpRoots
  <2> QED
    BY <1>6, <1>11, <2>1, <2>3 DEF RemoveMember, history
<1>12. ASSUME NEW p \in Proc, Compact(p)
       PROVE  CacheInv'
  <2>1. PICK r \in RootId, t \in 1 .. MaxDate :
          /\ clock < t + Skew
          /\ Persist(p, Compacted(doc[p], CompactedRoot(doc[p], r, t)))
          /\ clock' = (IF t > clock THEN t ELSE clock)
          /\ UNCHANGED <<evicted, setback>>
    BY <1>12 DEF Compact
  <2> DEFINE root == CompactedRoot(doc[p], r, t)
             d == Compacted(doc[p], root)
  <2>2. t \in 0 .. MaxDate /\ clock \in 0 .. MaxDate
    BY DocumentAssumption DEF CacheInv, TypeOK
  <2>3. clock < t /\ clock' = t
    BY <2>1, <2>2 DEF SoleTerminal
  <2>4. doc[p] \in SUBSET Op /\ doc[p] # {}
    BY <2>1 DEF Persist, CacheInv, TypeOK
  <2>5. /\ root \in Root /\ root.date = t /\ d \in SUBSET Op /\ d # {}
        /\ \A o \in d : o.root = root
    BY <2>2, <2>4, CompactedType
  <2> HIDE DEF root, d
  <2>6. DatedBy(d, clock')
    BY <2>2, <2>3, <2>5 DEF DatedBy
  <2>7. CompactionDate(d) = t
    BY <2>5, CompactionDateType
  <2>8. CompactionDate(doc[p]) \in Nat /\ CompactionDate(doc[p]) <= clock
    BY <2>4, CompactionDateType DEF CacheInv, DatesInv, DatedBy
  <2>9. Below(doc[p], d)
    BY <2>2, <2>3, <2>5, <2>7, <2>8 DEF Below
  <2> QED
    BY <1>1, <2>1, <2>2, <2>3, <2>5, <2>6, <2>9, PersistKeeps DEF d, root
<1>13. ASSUME Land
       PROVE  CacheInv'
  <2>1. PICK w \in late : remote' = [remote EXCEPT ![w.to] = w.file] /\ late' = late \ {w}
    BY <1>13 DEF Land
  <2>2. UNCHANGED <<local, status, doc, jobs, clock, evicted, setback>>
    BY <1>13 DEF Land, session, history
  <2>3. w.to \in Member
    BY DEF CacheInv, TypeOK
  <2>4. DatesInv'
    BY <2>1, <2>2, <2>3 DEF CacheInv, DatesInv, TypeOK
  <2>5. NewInv' /\ TaskInv'
    BY <2>2 DEF CacheInv, NewInv, TaskInv, TasksOf, Usable, Comparable
  <2>6. Writing' \subseteq Writing
    BY <2>1, <2>2, WritingLands
  <2>7. \A m \in Member : remote'[m] \in Versions(m)
    BY <2>1, <2>3, VersionsIs, WritingIs DEF CacheInv, TypeOK
  <2> QED
    BY <1>1, <2>2, <2>4, <2>5, <2>6, <2>7, AheadKeeps DEF CacheInv
<1>14. ASSUME NEW p \in Proc, Exit(p) \/ Abandon(p)
       PROVE  CacheInv'
  <2>1. UNCHANGED <<local, remote, late, status, clock, evicted, setback>>
    BY <1>14 DEF Exit, Abandon, End, durable, history, Fault
  <2>2. /\ doc'[p] = {} /\ jobs'[p] = {}
        /\ \A q \in Proc \ {p} : doc'[q] = doc[q] /\ jobs'[q] = jobs[q]
    BY <1>14 DEF Exit, Abandon, End, CacheInv, TypeOK
  <2>3. DatesInv' /\ NewInv'
    BY <2>1, <2>2 DEF CacheInv, DatesInv, DatedBy, NewInv
  <2>4. TaskInv'
    <3>1. TasksOf(p)'
      BY <2>2 DEF TasksOf
    <3>2. \A q \in Proc \ {p} : TasksOf(q)'
      BY <2>1, <2>2 DEF CacheInv, TaskInv, TasksOf, Usable, Comparable
    <3> QED
      BY <3>1, <3>2 DEF TaskInv
  <2>5. Writing' \subseteq Writing
    BY <2>1, <2>2, WritingShrinks, WritingIs
  <2>6. \A m \in Member : remote'[m] \in Versions(m)
    BY <2>1, VersionsIs
  <2> QED
    BY <1>1, <2>1, <2>3, <2>4, <2>5, <2>6, AheadKeeps DEF CacheInv
<1>15. CASE UNCHANGED vars
  <2>1. DatesInv' /\ NewInv'
    BY <1>15 DEF vars, CacheInv, DatesInv, NewInv
  <2>2. TaskInv'
    BY <1>15 DEF vars, CacheInv, TaskInv, TasksOf, Usable, Comparable
  <2>3. Writing' = Writing
    BY <1>15, WritingStays DEF vars
  <2>4. \A m \in Member : remote'[m] \in Versions(m)
    BY <1>15, VersionsIs DEF vars
  <2>5. AheadInv'
    BY <1>15, <2>3, <2>4, AheadKeeps DEF vars, CacheInv
  <2> QED
    BY <1>1, <2>1, <2>2, <2>5 DEF CacheInv
<1>16. ASSUME NEW p \in Proc, CommandStep(p)
       PROVE  CacheInv'
  <2>1. CASE Create(p)
    BY <1>2, <2>1
  <2>2. CASE JoinInvite(p)
    BY <1>3, <2>2 DEF JoinInvite
  <2>3. CASE JoinManual(p)
    BY <1>3, <2>3 DEF JoinManual
  <2>4. CASE \E S \in SUBSET Member, good \in {TRUE, ~Typo} : ForceSync(p, S, good)
    BY <1>4, <2>4 DEF SoleTerminal
  <2> QED
    BY <1>16, <2>1, <2>2, <2>3, <2>4 DEF CommandStep
<1>17. ASSUME NEW p \in Proc, UiStep(p)
       PROVE  CacheInv'
  BY <1>5, <1>8, <1>9, <1>10, <1>11, <1>12, <1>17 DEF UiStep
<1>18. ASSUME NEW p \in Proc, FileStep(p)
       PROVE  CacheInv'
  BY <1>1, <1>18, FilesKeep
<1> QED
  BY <1>13, <1>14, <1>15, <1>16, <1>17, <1>18 DEF CoreNext

-----------------------------------------------------------------------------
\* Which steps write a cache, and which one a remote file.
LEMMA WhoWrites ==
    ASSUME [CoreNext]_vars
    PROVE  /\ UNCHANGED local \/ \E p \in Proc : LocalPush(p)
           /\ UNCHANGED remote \/ (UNCHANGED local /\ (Land \/ \E p \in Proc : RemotePush(p)))
<1> DEFINE Files == <<local, remote>>
<1>1. ASSUME NEW p \in Proc, CommandStep(p)
      PROVE  UNCHANGED Files
  BY <1>1 DEF CommandStep, Create, JoinInvite, JoinManual, Join, ForceSync, Command
<1>2. ASSUME NEW p \in Proc, UiStep(p)
      PROVE  UNCHANGED Files
  BY <1>2 DEF UiStep, OpenUi, AddSecret, DeleteSecret, GrantMember, RemoveMember,
              Compact, Persist, durable
<1>3. ASSUME NEW p \in Proc, PushFail(p) \/ RemoteTimeout(p) \/ Exit(p) \/ Abandon(p)
      PROVE  UNCHANGED Files
  BY <1>3 DEF PushFail, RemoteTimeout, Exit, Abandon, End, durable
<1>4. ASSUME NEW p \in Proc, LocalPush(p)
      PROVE  UNCHANGED remote
  BY <1>4 DEF LocalPush
<1>5. ASSUME NEW p \in Proc, RemotePush(p)
      PROVE  UNCHANGED local
  BY <1>5 DEF RemotePush
<1>6. Land => UNCHANGED local
  BY DEF Land
<1> QED
  BY <1>1, <1>2, <1>3, <1>4, <1>5, <1>6 DEF CoreNext, FileStep, vars

LEMMA CacheMoves ==
    ASSUME CacheInv, [CoreNext]_vars, NEW m \in Member, Usable(m, local[m])
    PROVE  \/ Below(local[m].ops, local'[m].ops)
           \/ /\ m \in setback'
              /\ \E p \in Proc : Owner[p] = m /\ Below(local[m].ops, doc[p])
<1>1. CASE UNCHANGED local
  BY <1>1, BelowReflexive
<1>2. ASSUME NEW p \in Proc, LocalPush(p)
      PROVE  \/ Below(local[m].ops, local'[m].ops)
             \/ m \in setback' /\ Owner[p] = m /\ Below(local[m].ops, doc[p])
  <2>1. PICK j \in jobs[p] : LocalWrote(p, j)
    BY <1>2, LocalWrite DEF CacheInv
  <2>2. CASE Owner[p] = m
    BY <2>1, <2>2, CacheUp
  <2>3. CASE Owner[p] # m
    BY <2>1, <2>3, CacheUp, BelowReflexive
  <2> QED
    BY <2>2, <2>3
<1> QED
  BY <1>1, <1>2, WhoWrites

LEMMA RemoteMoves ==
    ASSUME CacheInv, [CoreNext]_vars, NEW m \in Member \ (evicted \cup setback)
    PROVE  \/ Below(remote[m].ops, remote'[m].ops)
           \/ /\ Below(remote'[m].ops, remote[m].ops)
              /\ Below(remote[m].ops, local'[m].ops)
<1>1. CASE UNCHANGED remote
  BY <1>1, BelowReflexive
<1>2. ASSUME Land \/ \E p \in Proc : RemotePush(p)
      PROVE  remote'[m] \in Versions(m)
  <2>1. CASE Land
    <3>1. PICK w \in late : remote' = [remote EXCEPT ![w.to] = w.file]
      BY <2>1 DEF Land
    <3> QED
      BY <3>1, VersionsIs, WritingIs DEF CacheInv, TypeOK
  <2>2. ASSUME NEW p \in Proc, RemotePush(p)
        PROVE  remote'[m] \in Versions(m)
    <3>1. PICK j \in jobs[p] : /\ j.stage = "remote"
                              /\ remote' = [remote EXCEPT ![Owner[p]] = j.file]
      BY <2>2 DEF RemotePush
    <3>2. [to |-> Owner[p], file |-> j.file] \in Writing
      BY <3>1, WritingIs
    <3> QED
      BY <3>1, <3>2, VersionsIs DEF CacheInv, TypeOK
  <2> QED
    BY <1>2, <2>1, <2>2
<1>3. CASE UNCHANGED local /\ (Land \/ \E p \in Proc : RemotePush(p))
  <2>1. Ahead(m) /\ remote[m] \in Versions(m) /\ remote'[m] \in Versions(m)
    BY <1>2, <1>3, VersionsIs DEF CacheInv, AheadInv
  <2> QED
    BY <1>3, <2>1 DEF Ahead, Comparable
<1> QED
  BY <1>1, <1>3, WhoWrites

-----------------------------------------------------------------------------
\* With one terminal per member the verified cache of every member moves up
\* through everything that fails, times out or is abandoned; only a persist task
\* that a newer one of the same open UI has overtaken sets it back.
THEOREM CacheMonotonicity ==
    ASSUME SoleTerminal
    PROVE  CoreSpec => CacheMonotone
<1>1. Init => CacheInv
  BY CacheInit
<1>2. CacheInv /\ [CoreNext]_vars => CacheInv'
  BY CacheStep
<1>3. CacheInv /\ [CoreNext]_vars =>
        [\A m \in Member : Usable(m, local[m]) =>
            \/ Below(local[m].ops, local'[m].ops)
            \/ /\ m \in setback'
               /\ \E p \in Proc : Owner[p] = m /\ Below(local[m].ops, doc[p])]_vars
  BY CacheMoves
<1> QED
  BY <1>1, <1>2, <1>3, PTL DEF CoreSpec, CacheMonotone

\* With one terminal per member no remote file has more than its owner's cache,
\* however many tasks persist at once, until one of them sets the cache back.
THEOREM CacheIsAhead ==
    ASSUME SoleTerminal
    PROVE  CoreSpec => []CacheAhead
<1>1. Init => CacheInv
  BY CacheInit
<1>2. CacheInv /\ [CoreNext]_vars => CacheInv'
  BY CacheStep
<1>3. CacheInv => CacheAhead
  BY VersionsIs DEF CacheInv, AheadInv, Ahead, CacheAhead
<1> QED
  BY <1>1, <1>2, <1>3, PTL DEF CoreSpec

\* With one terminal per member a remote file moves up, or back to an earlier
\* version that still is below the cache, in whatever order writes arrive.
THEOREM RemoteMonotonicity ==
    ASSUME SoleTerminal
    PROVE  CoreSpec => RemoteMonotone
<1>1. Init => CacheInv
  BY CacheInit
<1>2. CacheInv /\ [CoreNext]_vars => CacheInv'
  BY CacheStep
<1>3. CacheInv /\ [CoreNext]_vars =>
        [\A m \in Member \ (evicted \cup setback) : Usable(m, remote[m]) =>
            \/ Below(remote[m].ops, remote'[m].ops)
            \/ /\ Below(remote'[m].ops, remote[m].ops)
               /\ Below(remote[m].ops, local'[m].ops)]_vars
  BY RemoteMoves
<1> QED
  BY <1>1, <1>2, <1>3, PTL DEF CoreSpec, RemoteMonotone

-----------------------------------------------------------------------------
(***************************************************************************)
(* The files are a write-through cache.  A local write is a Save, a remote *)
(* write that comes is an Arrive, and a task that fails, a UI that ends    *)
(* and every command and edit are a GiveUp or a stutter.                   *)
(***************************************************************************)
LEMMA WriteThroughInit == Init => Persisted!Init
<1> SUFFICES ASSUME Init
             PROVE  Persisted!Init
  OBVIOUS
<1>1. Writing = {}
  BY WritingIs DEF Init
<1> QED
  BY <1>1 DEF Init, Persisted!Init

LEMMA WriteThroughStep ==
    ASSUME SoleTerminal, CacheInv, [CoreNext]_vars
    PROVE  [Persisted!Next]_(Persisted!vars)
<1> USE RepoAssumption
<1> DEFINE Rest == <<local, remote, evicted, setback>>
<1>1. ASSUME Writing' \subseteq Writing, UNCHANGED Rest
      PROVE  Persisted!Next
  BY <1>1 DEF Persisted!GiveUp, Persisted!Next
<1>2. ASSUME NEW p \in Proc, LocalPush(p)
      PROVE  Persisted!Next
  <2> DEFINE m == Owner[p]
  <2>1. PICK j \in jobs[p] : LocalWrote(p, j)
    BY <1>2, LocalWrite DEF CacheInv
  <2>2. UNCHANGED <<remote, late, doc>>
    BY <1>2 DEF LocalPush
  <2>3. m \in Member /\ local'[m] = j.file /\ local' = [local EXCEPT ![m] = local'[m]]
    <3>1. m \in Member /\ local'[m] = j.file
      BY <2>1, CacheUp
    <3>2. local' = [local EXCEPT ![m] = j.file]
      BY <2>1 DEF LocalWrote
    <3> QED
      BY <3>1, <3>2
  <2>4. ASSUME m \notin evicted' \cup setback'
        PROVE  Keeps(local[m], local'[m])
    <3>1. m \notin evicted \cup setback /\ ~j.passed
      BY <2>1, <2>4 DEF LocalWrote
    <3>2. CASE Usable(m, local[m])
      BY <2>1, <2>3, <3>1, <3>2, CacheUp DEF Keeps
    <3>3. CASE local[m] = NoFile
      BY <3>3 DEF NoFile, Keeps, Below
    <3> QED
      BY <2>3, <3>1, <3>2, <3>3 DEF CacheInv, AheadInv, Ahead
  <2>5. Writing' = Writing \cup {[to |-> m, file |-> local'[m]]}
    BY <2>1, <2>2, <2>3, WritingGrows DEF CacheInv
  <2>6. (evicted \cup setback)' \in {evicted \cup setback, (evicted \cup setback) \cup {m}}
    BY <2>1 DEF LocalWrote
  <2>7. Persisted!Save(m)
    BY <2>2, <2>3, <2>4, <2>5, <2>6 DEF Persisted!Save
  <2> QED
    BY <2>3, <2>7 DEF Persisted!Next
<1>3. ASSUME NEW w \in Writing, remote' = [remote EXCEPT ![w.to] = w.file],
             Writing' \subseteq Writing, Writing \ {w} \subseteq Writing',
             UNCHANGED <<local, evicted, setback>>
      PROVE  Persisted!Next
  <2>1. Writing' \in {Writing, Writing \ {w}}
    BY <1>3
  <2> QED
    BY <1>3, <2>1 DEF Persisted!Arrive, Persisted!Next
<1>4. ASSUME NEW p \in Proc, RemotePush(p)
      PROVE  Persisted!Next
  <2>1. PICK j \in jobs[p] : /\ j.stage = "remote" /\ Drop(p, j)
                            /\ remote' = [remote EXCEPT ![Owner[p]] = j.file]
    BY <1>4 DEF RemotePush
  <2>2. UNCHANGED <<local, late, evicted, setback>>
    BY <1>4 DEF RemotePush, history
  <2> DEFINE w == [to |-> Owner[p], file |-> j.file]
  <2>3. w \in Writing /\ w.to = Owner[p] /\ w.file = j.file
    BY <2>1, WritingIs
  <2>4. Writing' \subseteq Writing /\ Writing \ {w} \subseteq Writing'
    BY <2>1, <2>2, WritingDrops DEF CacheInv
  <2> HIDE DEF w
  <2> QED
    BY <1>3, <2>1, <2>2, <2>3, <2>4
<1>5. ASSUME Land
      PROVE  Persisted!Next
  <2>1. PICK w \in late : remote' = [remote EXCEPT ![w.to] = w.file] /\ late' = late \ {w}
    BY <1>5 DEF Land
  <2>2. UNCHANGED <<local, jobs, evicted, setback>>
    BY <1>5 DEF Land, session, history
  <2> QED
    BY <1>3, <2>1, <2>2, WritingLands, WritingIs
<1>6. ASSUME NEW p \in Proc, PushFail(p)
      PROVE  Persisted!Next
  <2>1. PICK j \in jobs[p] : Drop(p, j)
    BY <1>6 DEF PushFail
  <2>2. UNCHANGED Rest /\ UNCHANGED late
    BY <1>6 DEF PushFail, Fault, durable
  <2> QED
    BY <1>1, <2>1, <2>2, WritingDrops DEF CacheInv
<1>7. ASSUME NEW p \in Proc, RemoteTimeout(p)
      PROVE  Persisted!Next
  <2>1. PICK j \in jobs[p] : /\ j.stage = "remote" /\ Drop(p, j)
                            /\ late' = late \cup {[to |-> Owner[p], file |-> j.file]}
    BY <1>7 DEF RemoteTimeout
  <2>2. UNCHANGED Rest
    BY <1>7 DEF RemoteTimeout, Fault
  <2>3. jobs'[p] = jobs[p] \ {j} /\ \A q \in Proc \ {p} : jobs'[q] = jobs[q]
    BY <2>1 DEF Drop, CacheInv, TypeOK
  <2>4. Writing' \subseteq Writing
    BY <2>1, <2>3, WritingShrinks, WritingIs
  <2> QED
    BY <1>1, <2>2, <2>4
<1>8. ASSUME NEW p \in Proc, Exit(p) \/ Abandon(p)
      PROVE  Persisted!Next
  <2>1. UNCHANGED Rest /\ UNCHANGED late
    BY <1>8 DEF Exit, Abandon, End, Fault, durable, history
  <2>2. jobs'[p] = {} /\ \A q \in Proc \ {p} : jobs'[q] = jobs[q]
    BY <1>8 DEF Exit, Abandon, End, CacheInv, TypeOK
  <2>3. Writing' \subseteq Writing
    BY <2>1, <2>2, WritingShrinks, WritingIs
  <2> QED
    BY <1>1, <2>1, <2>3
<1>9. ASSUME NEW p \in Proc, CommandStep(p)
      PROVE  Persisted!Next
  <2>1. ASSUME NEW d, NEW good, Command(p, d, good)
        PROVE  Persisted!Next
    <3> DEFINE j == Started(d, good)
    <3>1. jobs' = [jobs EXCEPT ![p] = {j}] /\ UNCHANGED Rest /\ UNCHANGED late
      BY <2>1 DEF Command
    <3>2. j.stage = "local"
      BY DEF Started
    <3> HIDE DEF j
    <3>3. jobs'[p] = {j} /\ \A q \in Proc \ {p} : jobs'[q] = jobs[q]
      BY <3>1 DEF CacheInv, TypeOK
    <3>4. Writing' \subseteq Writing
      BY <3>1, <3>2, <3>3, WritingShrinks, WritingIs
    <3> QED
      BY <1>1, <3>1, <3>4
  <2>2. ASSUME NEW S, NEW x, Join(p, S, x)
        PROVE  Persisted!Next
    BY <2>1, <2>2 DEF Join
  <2>3. ASSUME NEW S, NEW good, ForceSync(p, S, good)
        PROVE  Persisted!Next
    BY <2>1, <2>3 DEF ForceSync
  <2> QED
    BY <1>9, <2>1, <2>2, <2>3 DEF CommandStep, Create, JoinInvite, JoinManual
<1>10. ASSUME NEW p \in Proc, UiStep(p)
       PROVE  Persisted!Next
  <2>1. ASSUME NEW d, Persist(p, d), UNCHANGED <<evicted, setback>>
        PROVE  Persisted!Next
    <3> DEFINE j == Started(d, TRUE)
    <3>1. jobs' = [jobs EXCEPT ![p] = @ \cup {j}] /\ UNCHANGED Rest /\ UNCHANGED late
      BY <2>1 DEF Persist, durable
    <3>2. j.stage = "local"
      BY DEF Started
    <3> HIDE DEF j
    <3>3. jobs'[p] = jobs[p] \cup {j} /\ \A q \in Proc \ {p} : jobs'[q] = jobs[q]
      BY <3>1 DEF CacheInv, TypeOK
    <3>4. Writing' \subseteq Writing
      BY <3>1, <3>2, <3>3, WritingShrinks, WritingIs
    <3> QED
      BY <1>1, <3>1, <3>4
  <2>2. CASE OpenUi(p)
    <3>1. UNCHANGED Rest /\ UNCHANGED <<jobs, late>>
      BY <2>2 DEF OpenUi
    <3>2. Writing' \subseteq Writing
      BY <3>1, WritingShrinks, WritingIs
    <3> QED
      BY <1>1, <3>1, <3>2
  <2>3. CASE ~ OpenUi(p)
    BY <1>10, <2>1, <2>3
       DEF UiStep, AddSecret, DeleteSecret, GrantMember, RemoveMember, Compact, history
  <2> QED
    BY <2>2, <2>3
<1>11. ASSUME UNCHANGED vars
       PROVE  UNCHANGED Persisted!vars
  <2>1. Writing' = Writing
    BY <1>11, WritingStays DEF vars
  <2> QED
    BY <1>11, <2>1 DEF vars, Persisted!vars
<1> HIDE DEF Rest
<1> QED
  BY <1>2, <1>4, <1>5, <1>6, <1>7, <1>8, <1>9, <1>10, <1>11 DEF CoreNext, FileStep

\* With one terminal per member the detailed files implement WriteThrough, for
\* every number of overlapping persist tasks, faults and late writes.
THEOREM FilesRefine ==
    ASSUME SoleTerminal
    PROVE  CoreSpec => FilesWriteThrough
<1>1. Init => CacheInv
  BY CacheInit
<1>2. CacheInv /\ [CoreNext]_vars => CacheInv'
  BY CacheStep
<1>3. Init => Persisted!Init
  BY WriteThroughInit
<1>4. CacheInv /\ [CoreNext]_vars => [Persisted!Next]_(Persisted!vars)
  BY WriteThroughStep
<1> QED
  BY <1>1, <1>2, <1>3, <1>4, PTL DEF CoreSpec, FilesWriteThrough, Persisted!Spec
=============================================================================
