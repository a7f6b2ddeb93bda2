---------------------------- MODULE VaultDocument ----------------------------
(***************************************************************************)
(* The vault document (lib/src/vault_document.rs) as a replicated value.   *)
(*                                                                         *)
(* A document is a finite set of operations and merging is set union,      *)
(* which is what Automerge guarantees to the code of this repository.      *)
(* Every document descends from one creation, its root: init_vault makes   *)
(* one (compaction date None, which peers read as 0) and a compaction      *)
(* makes another.  A root owns the two map objects "members" and           *)
(* "secrets", and an operation edits the maps of one root.  Documents of   *)
(* different roots share no map object: after a merge each key of the      *)
(* document shows the map of one root only and hides the others.           *)
(*                                                                         *)
(* Field contents (ciphertexts, keys, names) are left out; a member entry  *)
(* keeps who invited it, because only that member can check its MAC.       *)
(***************************************************************************)
EXTENDS Naturals, FiniteSets

CONSTANTS
    Member,     \* member ids
    Secret,     \* secret ids (UUIDs: never minted twice)
    RootId,     \* one number per AutoCommit::new(), in actor-id order
    MaxDate,    \* bound: largest compaction date, in seconds
    NoKey       \* the key of a creation, the inviter of nobody

ASSUME DocumentAssumption ==
    /\ IsFiniteSet(Member)
    /\ IsFiniteSet(Secret)
    /\ RootId \subseteq Nat
    /\ MaxDate \in Nat
    /\ NoKey \notin Member
    /\ Member \cap Secret = {}

(***************************************************************************)
(* A root: its id, its compaction date (0 for None) and how many members   *)
(* and secrets it was written with.  The two sizes matter because entries  *)
(* are written inside their map, before the keys that follow it.           *)
(***************************************************************************)
Root == [id : RootId, date : 0 .. MaxDate,
         members : 0 .. Cardinality(Member), secrets : 0 .. Cardinality(Secret)]

Op == [root : Root,
       kind : {"init", "put", "grant", "del"},
       key  : Member \cup Secret \cup {NoKey},
       by   : Member \cup {NoKey}]

Creation(r) == [root |-> r, kind |-> "init", key |-> NoKey, by |-> NoKey]
Put(r, k, by) == [root |-> r, kind |-> "put", key |-> k, by |-> by]
Grant(r, m) == [root |-> r, kind |-> "grant", key |-> m, by |-> NoKey]
Del(r, k) == [root |-> r, kind |-> "del", key |-> k, by |-> NoKey]

Roots(ops) == {o.root : o \in ops}

(***************************************************************************)
(* Conflicting values of one key: the write with the larger operation      *)
(* counter wins, equal counters are settled by the random actor id, here   *)
(* the smaller root id.  The members map is the fourth write of every      *)
(* root; the secrets map comes after the member entries (9 operations      *)
(* each) and the compaction date after the secret entries (6 each).        *)
(***************************************************************************)
MembersAt(r) == 0
SecretsAt(r) == 9 * r.members
DateAt(r) == 9 * r.members + 6 * r.secrets

Winner(ops, At(_)) ==
    LET R == Roots(ops) IN
    CHOOSE r \in R : \A q \in R \ {r} :
        \/ At(r) > At(q)
        \/ At(r) = At(q) /\ r.id <= q.id

MembersRoot(ops) == Winner(ops, MembersAt)
SecretsRoot(ops) == Winner(ops, SecretsAt)

\* compaction_date, with peers treating None as 0.
CompactionDate(ops) == Winner(ops, DateAt).date

\* A deleted entry stays deleted: entries are inserted once per root.
Entries(ops, r, K) ==
    {k \in K : /\ \E o \in ops : o.root = r /\ o.kind = "put" /\ o.key = k
               /\ Del(r, k) \notin ops}

MembersOf(ops) == Entries(ops, MembersRoot(ops), Member)
SecretsOf(ops) == Entries(ops, SecretsRoot(ops), Secret)

\* Members whose wrapped DEK is not empty; the others are pending.
ActiveMembers(ops) ==
    {m \in MembersOf(ops) : Grant(MembersRoot(ops), m) \in ops}

\* Pending members that x can activate: without an invite MAC, or invited by x.
Grantable(ops, x) ==
    {m \in MembersOf(ops) \ ActiveMembers(ops) :
        \E i \in {NoKey, x} : Put(MembersRoot(ops), m, i) \in ops}

(***************************************************************************)
(* The document a compaction writes: hydrate the visible state, reconcile  *)
(* it into a fresh AutoCommit.  History and tombstones are gone.           *)
(***************************************************************************)
CompactedRoot(ops, id, date) ==
    [id |-> id, date |-> date,
     members |-> Cardinality(MembersOf(ops)),
     secrets |-> Cardinality(SecretsOf(ops))]

Compacted(ops, r) ==
    {Creation(r)}
      \cup {Put(r, o.key, o.by) : o \in {p \in ops : /\ p.root = MembersRoot(ops)
                                                   /\ p.kind = "put"
                                                   /\ p.key \in MembersOf(ops)}}
      \cup {Grant(r, m) : m \in ActiveMembers(ops)}
      \cup {Put(r, s, NoKey) : s \in SecretsOf(ops)}

\* Mutant: init_vault stamps its document as if it were a compaction.
EmptyRoot_Dated(id) == [id |-> id, date |-> MaxDate + 1, members |-> 0, secrets |-> 0]

\* init_vault: the empty document, not compacted.
EmptyRoot(id) == [id |-> id, date |-> 0, members |-> 0, secrets |-> 0]
EmptyVault(id) == {Creation(EmptyRoot(id))}

\* Every operation of the document descends from a root of one date.
Pure(ops) == \A q, r \in Roots(ops) : q.date = r.date

\* The order in which a replica may move: a later compaction, or a superset.
Below(old, new) ==
    \/ old = {}
    \/ /\ new # {}
       /\ LET was == CompactionDate(old) now == CompactionDate(new) IN
          \/ was < now
          \/ was = now /\ old \subseteq new
=============================================================================
