------------------------------ MODULE VaultRepo ------------------------------
(***************************************************************************)
(* Members of one vault and the files they keep (lib/src/vault_repo.rs     *)
(* and the commands that call it).                                         *)
(*                                                                         *)
(* Each member owns one file in the remote storage and a copy of it in a   *)
(* local cache.  A process of a member pulls (verify every file, keep the  *)
(* newest compaction, merge), edits the merged document and persists it    *)
(* (sign, write the local cache, write the remote with a timeout).  The    *)
(* terminal UI keeps its document across many edits and persists in        *)
(* background tasks; setup and force-sync persist once and end.            *)
(*                                                                         *)
(* Any remote file may be missing from a pull: the remote is unreachable,  *)
(* the listing is old or the read of the file fails, in which case         *)
(* StorageBackend::pull drops it without an error.                         *)
(***************************************************************************)
EXTENDS VaultDocument

CONSTANTS
    Proc,      \* processes: terminals in which a member runs envi
    Owner,     \* the member each process runs as
    MaxJobs,   \* bound: persist tasks of one process that are not finished
    MaxFaults, \* bound: writes that fail or time out, processes that are killed
    Skew,      \* how far a clock may be behind: 0 strictly later, 1 same second
    Typo,      \* TRUE: force-sync may be given a mistyped passphrase
    ColdJoin   \* FALSE: no manual join ends in a made-up vault, i.e. what it has
               \* listed can be read, and verifies, by the time it pulls

ASSUME RepoAssumption ==
    /\ Owner \in [Proc -> Member]
    /\ MaxJobs \in Nat /\ MaxFaults \in Nat /\ Skew \in Nat
    /\ Typo \in BOOLEAN /\ ColdJoin \in BOOLEAN

VARIABLES
    local,     \* member -> its file in the local cache
    remote,    \* member -> its file in the remote storage
    late,      \* remote writes that timed out and may still land
    status,    \* member -> "new", "setup" (config written), "opened" (ran the UI)
    doc,       \* process -> the document of the terminal UI, {} when it is closed
    jobs,      \* process -> persists not finished: a command's, or tasks of the UI
    sync,      \* process -> the document the background pull brings, if any
    clock,     \* the latest compaction date given so far
    roots,     \* root ids given so far
    minted,    \* secrets added so far
    deleted,   \* history: secrets some user deleted
    evicted,   \* history: members whose cache has held a file without them
    setback,   \* history: members whose cache a persist task wrote too late
    faults     \* failed writes, timeouts and kills so far

durable == <<local, remote, late, status>>
session == <<doc, jobs, sync>>
history == <<clock, roots, minted, deleted, evicted, setback, faults>>
vars == <<local, remote, late, status, doc, jobs, sync,
          clock, roots, minted, deleted, evicted, setback, faults>>

\* good: the signature is by the key registered for the owner of the file.
File == [ops : SUBSET Op, good : BOOLEAN]
NoFile == [ops |-> {}, good |-> FALSE]
\* passed: a task of the same terminal with a newer document wrote the cache first.
Job == [file : File, stage : {"local", "remote"}, passed : BOOLEAN]
Started(d, good) ==
    [file |-> [ops |-> d, good |-> good], stage |-> "local", passed |-> FALSE]

TypeOK ==
    /\ local \in [Member -> File]
    /\ remote \in [Member -> File]
    /\ late \subseteq [to : Member, file : File]
    /\ status \in [Member -> {"new", "setup", "opened"}]
    /\ doc \in [Proc -> SUBSET Op]
    /\ jobs \in [Proc -> SUBSET Job]
    /\ sync \in [Proc -> SUBSET (SUBSET Op)]
    /\ clock \in 0 .. MaxDate
    /\ roots \subseteq RootId
    /\ minted \subseteq Secret
    /\ deleted \subseteq Secret
    /\ evicted \subseteq Member
    /\ setback \subseteq Member
    /\ faults \in 0 .. MaxFaults

Init ==
    /\ local = [m \in Member |-> NoFile]
    /\ remote = [m \in Member |-> NoFile]
    /\ late = {}
    /\ status = [m \in Member |-> "new"]
    /\ doc = [p \in Proc |-> {}]
    /\ jobs = [p \in Proc |-> {}]
    /\ sync = [p \in Proc |-> {}]
    /\ clock = 0
    /\ roots = {}
    /\ minted = {}
    /\ deleted = {}
    /\ evicted = {}
    /\ setback = {}
    /\ faults = 0

-----------------------------------------------------------------------------
(***************************************************************************)
(* pull                                                                    *)
(***************************************************************************)

\* verify_documents: the signer must be a member of the same document.
Usable(m, f) == f.good /\ m \in MembersOf(f.ops)

\* Mutants of a pull: the cache is ignored, or it is preferred to the storage.
Candidates_RemoteOnly(m, S) ==
    {remote[x].ops : x \in {y \in S : Usable(y, remote[y])}}
Candidates_CacheFirst(m, S) ==
    IF Usable(m, local[m]) THEN {local[m].ops} ELSE Candidates_RemoteOnly(m, S)

\* Documents a pull by m collects: its cache, and the files of S it can read.
Candidates(m, S) ==
    {local[x].ops : x \in {y \in {m} : Usable(y, local[y])}}
      \cup {remote[x].ops : x \in {y \in S : Usable(y, remote[y])}}

\* Mutants: compaction dates are not compared, or one newest document is kept.
Newest_All(C) == C
Newest_One(C) ==
    {d \in C : d = CHOOSE e \in C : \A f \in C : CompactionDate(f) <= CompactionDate(e)}

\* The candidates of the newest compaction date; the others are discarded.
Newest(C) == {d \in C : \A e \in C \ {d} : CompactionDate(e) <= CompactionDate(d)}

Pulled(m, S) == UNION Newest(Candidates(m, S))

\* The document a pull by m returns and the root ids it used up: init_vault
\* invents a document when no usable one was found.
PullOutcome(m, S) ==
    IF Candidates(m, S) # {}
    THEN {[doc |-> Pulled(m, S), new |-> {}]}
    ELSE {[doc |-> EmptyVault(r), new |-> {r}] : r \in RootId \ roots}

-----------------------------------------------------------------------------
(***************************************************************************)
(* Commands that persist once: setup and force-sync                        *)
(***************************************************************************)

\* Nothing runs in the terminal p.
Idle(p) == doc[p] = {} /\ jobs[p] = {}

\* Run a command that persists the document d and ends with that.
Command(p, d, good) ==
    /\ jobs' = [jobs EXCEPT ![p] = {Started(d, good)}]
    /\ UNCHANGED <<local, remote, late, doc, sync>>
    /\ UNCHANGED <<clock, minted, deleted, evicted, setback, faults>>

\* setup, create a vault: register oneself as an active member.
Create(p) == LET m == Owner[p] IN
    \E r \in RootId :
        /\ Idle(p) /\ status[m] = "new" /\ roots = {}
        /\ Command(p, EmptyVault(r) \cup {Put(EmptyRoot(r), m, NoKey),
                                         Grant(EmptyRoot(r), m)}, TRUE)
        /\ status' = [status EXCEPT ![m] = "setup"]
        /\ roots' = {r}

\* Mutant: the inviter is not looked up in the pulled document.
Join_NoAnchor(p, S, x) == LET m == Owner[p] IN
    /\ Idle(p) /\ status[m] = "new"
    /\ \E o \in PullOutcome(m, S) :
        /\ Command(p, o.doc \cup {Put(MembersRoot(o.doc), m, x)}, TRUE)
        /\ roots' = roots \cup o.new
    /\ status' = [status EXCEPT ![m] = "setup"]

\* setup, join: register oneself as a pending member, invited by x.
Join(p, S, x) == LET m == Owner[p] IN
    /\ Idle(p) /\ status[m] = "new"
    /\ \E o \in PullOutcome(m, S) :
        /\ x # NoKey => x \in MembersOf(o.doc)
        /\ Command(p, o.doc \cup {Put(MembersRoot(o.doc), m, x)}, TRUE)
        /\ roots' = roots \cup o.new
    /\ status' = [status EXCEPT ![m] = "setup"]

\* With an invite that x made in the UI; x must be in the pulled document.
JoinInvite(p) == \E S \in SUBSET Member, x \in Member :
    status[x] = "opened" /\ Join(p, S, x)

\* With storage credentials; the vault's directory must be listed.
JoinManual(p) ==
    /\ \E x \in Member : remote[x] # NoFile
    /\ \E S \in SUBSET Member :
        /\ Join(p, S, NoKey)
        /\ ColdJoin \/ roots' = roots

\* Mutant: force-sync writes nothing when the cache is up to date.
ForceSync_SkipUnchanged(p, S, good) ==
    /\ Idle(p) /\ status[Owner[p]] # "new"
    /\ \E o \in PullOutcome(Owner[p], S) :
        /\ o.doc # local[Owner[p]].ops
        /\ Command(p, o.doc, good)
        /\ roots' = roots \cup o.new
    /\ UNCHANGED status

\* force-sync: pull and persist; nothing verifies the passphrase.
ForceSync(p, S, good) ==
    /\ Idle(p) /\ status[Owner[p]] # "new"
    /\ \E o \in PullOutcome(Owner[p], S) :
        /\ Command(p, o.doc, good)
        /\ roots' = roots \cup o.new
    /\ UNCHANGED status

-----------------------------------------------------------------------------
(***************************************************************************)
(* The terminal UI                                                         *)
(***************************************************************************)

\* envi ui: pull, then unlock the document as an active member.
OpenUi(p) == LET m == Owner[p] IN
    /\ Idle(p) /\ status[m] # "new"
    /\ \E S \in SUBSET Member : \E o \in PullOutcome(m, S) :
        /\ m \in ActiveMembers(o.doc)
        /\ doc' = [doc EXCEPT ![p] = o.doc]
        /\ roots' = roots \cup o.new
    /\ status' = [status EXCEPT ![m] = "opened"]
    /\ UNCHANGED <<local, remote, late, jobs, sync>>
    /\ UNCHANGED <<clock, minted, deleted, evicted, setback, faults>>

\* Replace the document and spawn a task that persists a copy of it, whatever
\* became of the tasks before it (MaxJobs bounds how many of them there are).
Persist(p, d) ==
    /\ doc[p] # {}
    /\ Cardinality(jobs[p]) < MaxJobs
    /\ doc' = [doc EXCEPT ![p] = d]
    /\ jobs' = [jobs EXCEPT ![p] = @ \cup {Started(d, TRUE)}]
    /\ UNCHANGED durable /\ UNCHANGED sync

AddSecret(p) == \E s \in Secret \ minted :
    /\ Persist(p, doc[p] \cup {Put(SecretsRoot(doc[p]), s, NoKey)})
    /\ minted' = minted \cup {s}
    /\ UNCHANGED <<clock, roots, deleted, evicted, setback, faults>>

DeleteSecret(p) == \E s \in SecretsOf(doc[p]) :
    /\ Persist(p, doc[p] \cup {Del(SecretsRoot(doc[p]), s)})
    /\ deleted' = deleted \cup {s}
    /\ UNCHANGED <<clock, roots, minted, evicted, setback, faults>>

GrantMember(p) == \E x \in Grantable(doc[p], Owner[p]) :
    /\ Persist(p, doc[p] \cup {Grant(MembersRoot(doc[p]), x)})
    /\ UNCHANGED history

RemoveMember(p) == \E x \in MembersOf(doc[p]) \ {Owner[p]} :
    /\ Persist(p, doc[p] \cup {Del(MembersRoot(doc[p]), x)})
    /\ UNCHANGED history

\* [X]: replace the document by a fresh one that holds what is visible.  The
\* date is read from the clock of the machine, which Skew lets be behind.
Compact(p) == \E r \in RootId, d \in 1 .. MaxDate :
    /\ r \notin roots
    /\ d <= clock + 1 /\ clock < d + Skew
    /\ Persist(p, Compacted(doc[p], CompactedRoot(doc[p], r, d)))
    /\ clock' = IF d > clock THEN d ELSE clock
    /\ roots' = roots \cup {r}
    /\ UNCHANGED <<minted, deleted, evicted, setback, faults>>

\* [s]: pull in the background, unless a pull is under way.
SyncStart(p) ==
    /\ doc[p] # {} /\ sync[p] = {}
    /\ \E S \in SUBSET Member : \E o \in PullOutcome(Owner[p], S) :
        /\ sync' = [sync EXCEPT ![p] = {o.doc}]
        /\ roots' = roots \cup o.new
    /\ UNCHANGED durable /\ UNCHANGED <<doc, jobs>>
    /\ UNCHANGED <<clock, minted, deleted, evicted, setback, faults>>

\* The pull has ended: merge what it brought, whatever its compaction date.
SyncDone(p) == \E d \in sync[p] :
    /\ doc' = [doc EXCEPT ![p] = @ \cup d]
    /\ sync' = [sync EXCEPT ![p] = {}]
    /\ UNCHANGED durable /\ UNCHANGED jobs /\ UNCHANGED history

-----------------------------------------------------------------------------
(***************************************************************************)
(* persist, step by step: the local write is awaited before the remote one *)
(***************************************************************************)

Drop(p, j) == jobs' = [jobs EXCEPT ![p] = @ \ {j}]

Fault ==
    /\ faults < MaxFaults
    /\ faults' = faults + 1
    /\ UNCHANGED <<clock, roots, minted, deleted, evicted, setback>>

\* The task k after the local write of j: overtaken if j has a newer document.
AfterWrite(k, j) ==
    IF k = j THEN [k EXCEPT !.stage = "remote", !.passed = FALSE]
    ELSE [k EXCEPT !.passed =
             @ \/ (k.stage = "local" /\ Below(k.file.ops, j.file.ops))]
Wrote(J, j) == {AfterWrite(k, j) : k \in J}

LocalPush(p) == \E j \in jobs[p] :
    /\ j.stage = "local"
    /\ local' = [local EXCEPT ![Owner[p]] = j.file]
    /\ jobs' = [jobs EXCEPT ![p] = Wrote(@, j)]
    /\ evicted' = evicted \cup ({Owner[p]} \ MembersOf(j.file.ops))
    /\ setback' = setback \cup {m \in {Owner[p]} : j.passed}
    /\ UNCHANGED <<remote, late, status, doc, sync, clock, roots, minted, deleted, faults>>

\* Mutant: an error of the local write does not keep the task from going on.
PushFail_GoOn(p) == \E j \in jobs[p] :
    /\ jobs' = [jobs EXCEPT ![p] = (@ \ {j}) \cup
                  {[j EXCEPT !.stage = "remote"] : k \in {i \in {j} : i.stage = "local"}}]
    /\ Fault
    /\ UNCHANGED durable /\ UNCHANGED <<doc, sync>>

\* A local write that fails ends the task, a remote one is only reported.
PushFail(p) == \E j \in jobs[p] :
    /\ Drop(p, j)
    /\ Fault
    /\ UNCHANGED durable /\ UNCHANGED <<doc, sync>>

\* Mutant: the storage is written before the cache.
RemotePush_First(p) == \E j \in jobs[p] :
    /\ remote' = [remote EXCEPT ![Owner[p]] = j.file]
    /\ Drop(p, j)
    /\ UNCHANGED <<local, late, status, doc, sync>> /\ UNCHANGED history

RemotePush(p) == \E j \in jobs[p] :
    /\ j.stage = "remote"
    /\ remote' = [remote EXCEPT ![Owner[p]] = j.file]
    /\ Drop(p, j)
    /\ UNCHANGED <<local, late, status, doc, sync>> /\ UNCHANGED history

\* The task gives up after 5 s; the storage may still apply the write.
RemoteTimeout(p) == \E j \in jobs[p] :
    /\ j.stage = "remote"
    /\ late' = late \cup {[to |-> Owner[p], file |-> j.file]}
    /\ Drop(p, j)
    /\ Fault
    /\ UNCHANGED <<local, remote, status, doc, sync>>

Land == \E w \in late :
    /\ remote' = [remote EXCEPT ![w.to] = w.file]
    /\ late' = late \ {w}
    /\ UNCHANGED <<local, status>> /\ UNCHANGED session /\ UNCHANGED history

-----------------------------------------------------------------------------
End(p) ==
    /\ doc' = [doc EXCEPT ![p] = {}]
    /\ jobs' = [jobs EXCEPT ![p] = {}]
    /\ sync' = [sync EXCEPT ![p] = {}]
    /\ UNCHANGED durable

\* Leaving the UI when no task runs; a background pull is dropped.
Exit(p) == doc[p] # {} /\ jobs[p] = {} /\ End(p) /\ UNCHANGED history

\* Crash, Ctrl-C, or [q] while tasks run: leaving the UI does not await them.
Abandon(p) == jobs[p] # {} /\ End(p) /\ Fault

FileStep(p) ==
    \/ LocalPush(p) \/ PushFail(p) \/ RemotePush(p) \/ RemoteTimeout(p)

CommandStep(p) ==
    \/ Create(p) \/ JoinInvite(p) \/ JoinManual(p)
    \/ \E S \in SUBSET Member, good \in {TRUE, ~Typo} : ForceSync(p, S, good)

UiStep(p) ==
    \/ OpenUi(p) \/ AddSecret(p) \/ DeleteSecret(p) \/ GrantMember(p)
    \/ RemoveMember(p) \/ Compact(p)

CoreNext ==
    \/ \E p \in Proc : CommandStep(p) \/ UiStep(p) \/ FileStep(p) \/ Exit(p) \/ Abandon(p)
    \/ Land

Next ==
    \/ CoreNext
    \/ \E p \in Proc : SyncStart(p) \/ SyncDone(p)

\* CoreSpec: nobody presses [s] in the terminal UI.
CoreSpec == Init /\ [][CoreNext]_vars
Spec == Init /\ [][Next]_vars

-----------------------------------------------------------------------------
(***************************************************************************)
(* Properties                                                              *)
(***************************************************************************)

\* No document in memory, in a cache, in the storage or on its way there mixes
\* compaction generations: pull drops every candidate but the newest ones.
GenerationPure ==
    /\ \A p \in Proc : /\ Pure(doc[p])
                       /\ \A d \in sync[p] : Pure(d)
                       /\ \A j \in jobs[p] : Pure(j.file.ops)
    /\ \A m \in Member : Pure(local[m].ops) /\ Pure(remote[m].ops)
    /\ \A w \in late : Pure(w.file.ops)

\* "local cache is ahead of remote until the next successful sync": whatever
\* failed, timed out or was abandoned, and in whatever order the tasks of a
\* terminal reach the storage, the remote file of a member never has more than
\* the member's own cache.  Nothing is claimed once an overtaken task has set
\* the cache back, or the cache no longer names its owner and is not read again.
CacheAhead ==
    \A m \in Member \ (evicted \cup setback) : Below(remote[m].ops, local[m].ops)

\* A pull never opens a document older than the cache of the member, however
\* few of the remote files it can read: offline work is not lost to a restart.
PullKeepsCache ==
    \A m \in Member, S \in SUBSET Member :
        Usable(m, local[m]) => Below(local[m].ops, Pulled(m, S))

\* Through edits, force-syncs, compactions, failures and restarts the verified
\* cache of a member moves up.  Only a persist task of an open UI that a newer
\* one has overtaken sets it back, and then that UI still has all it held, so
\* that the next edit restores it.
CacheMonotone ==
    [][\A m \in Member : Usable(m, local[m]) =>
          \/ Below(local[m].ops, local'[m].ops)
          \/ /\ m \in setback'
             /\ \E p \in Proc : Owner[p] = m /\ Below(local[m].ops, doc[p])]_vars

\* Edits that are in the storage are in every full pull: what one member added
\* is there unless some user deleted it, what one member deleted or whom one
\* member removed is gone.  "The next sync for any member will merge both."
EditsMerged ==
    \A m \in Member :
        LET view == Pulled(m, Member)
            seen == SecretsOf(view) \cup MembersOf(view) IN
        \A x \in Member : Usable(x, remote[x]) =>
            /\ SecretsOf(remote[x].ops) \ deleted \subseteq seen
            /\ \A r \in Roots(remote[x].ops), k \in seen : Del(r, k) \notin remote[x].ops

\* Persist tasks of a terminal, and writes that timed out, reach the storage in
\* any order.  Each moves the member's file up or back to an earlier version of
\* it, never aside, and what it takes back the member's cache still has.
RemoteMonotone ==
    [][\A m \in Member \ (evicted \cup setback) : Usable(m, remote[m]) =>
          \/ Below(remote[m].ops, remote'[m].ops)
          \/ /\ Below(remote'[m].ops, remote[m].ops)
             /\ Below(remote[m].ops, local'[m].ops)]_vars

\* Remote writes under way, the abandoned ones that may still land included.
Writing == late \cup UNION {{[to |-> Owner[p], file |-> j.file] :
                               j \in {k \in jobs[p] : k.stage = "remote"}} : p \in Proc}
Keeps(f, g) == Below(f.ops, g.ops)
Persisted == INSTANCE WriteThrough WITH
    Empty <- NoFile, Ahead <- Keeps,
    saved <- local, published <- remote, underway <- Writing,
    out <- evicted \cup setback

\* The files are a write-through cache: through every command, edit, failure,
\* crash, overlap of persist tasks and late write, a member's cache moves only
\* ahead until an overtaken task sets it back, and what gets into the storage
\* has been the cache before.
FilesWriteThrough == Persisted!Spec

\* Every file that is not compacted and names its owner descends from the one
\* creation of the vault: nobody goes on in an empty vault that a pull made up
\* because it could read nothing, beside the vault that exists.  (A manual join
\* can: ColdJoin.  Its pull finds nothing when the storage goes away after it
\* was listed, or when the only file listed is signed with a mistyped passphrase.)
OneCreation ==
    LET known == UNION {Roots(local[m].ops \cup remote[m].ops) : m \in Member \ evicted}
    IN  \A q, r \in known : q.date = 0 /\ r.date = 0 => q = r

\* All members who take part see one view in the storage, and those who are
\* members of it have it in their cache.
Converged ==
    \A m, n \in {x \in Member : status[x] # "new"} :
        LET view == Pulled(m, Member) IN
        /\ view = Pulled(n, Member)
        /\ view # {} /\ m \in MembersOf(view) => local[m].ops = view

\* Members who force-sync again and again end in one view, whatever order their
\* pulls, writes, time-outs and other commands came in.  Liveness: only for the
\* bounds of a run, and without the UI's [s].
Convergence == <>[]Converged

-----------------------------------------------------------------------------
(***************************************************************************)
(* Fairness: writes and tasks that are not made to fail end, a user leaves *)
(* the UI some time, and every member runs force-sync again and again,     *)
(* infinitely often with a storage that answers.  Nothing is assumed of    *)
(* edits, of partial pulls or of writes that timed out.                    *)
(***************************************************************************)
Fairness ==
    \A p \in Proc :
        /\ WF_vars(LocalPush(p)) /\ WF_vars(RemotePush(p))
        /\ WF_vars(Exit(p))
        /\ SF_vars(ForceSync(p, Member, TRUE))

FairSpec == CoreSpec /\ Fairness
=============================================================================
