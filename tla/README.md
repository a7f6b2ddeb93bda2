# envi: specifications, model checking and proofs

envi keeps the secrets of a team in one encrypted vault without a server.
Every member owns one file in a shared storage (S3, WebDAV, a directory, ...);
a file holds the member's signed Automerge replica of the vault. Reading the
vault means reading all files and merging them. This directory holds TLA+
specifications of the parts whose correctness depends on the order of events,
their TLC configurations, and TLAPS proofs.

## 1. The system

| Component | State | Operations | Talks to |
|---|---|---|---|
| Vault document (`lib/src/vault_document.rs`) | Automerge map: name, members, secrets, compaction date, signature | hydrate, reconcile, merge, compaction into a fresh document | everything below |
| Vault repository (`lib/src/vault_repo.rs`) | none of its own: the remote files and the local cache file | pull, persist, sign, verify | storage backends |
| Storage (`lib/src/storage.rs`) | one file per member, remote and local | list, pull, push | network, disk |
| Setup, force-sync, open (`cli/src/commands`) | configuration entry in the keychain | create, join by invite, join by hand, sync, ui | repository, agent |
| Terminal UI main loop (`cli/src/tui/mod.rs`, `doc.rs`) | document, session (DEK), `State`, action queue, persist and sync task | apply a `SetState`, compact, sync | repository, pages |
| TUI pages and components (`cli/src/tui/pages`, `components`) | a copy of `State`, form fields, cursors | key events that send actions | main loop |
| Key hierarchy (`lib/src/crypto.rs`, `members.rs`, `secrets.rs`) | DEK wrapped per member, key MACs, fields encrypted under the DEK | unlock, grant, rotate, remove | document |
| Invites (`lib/src/invite.rs`, `tui/pages/invite.rs`) | token with nonce and genesis fingerprint | create, parse, verify | setup, grant |
| Key agent (`cli/src/agent.rs`) | keys per terminal session in RAM, `agent.json` | ping, get, store, kill, expiry | every command |
| exec (`cli/src/commands/exec.rs`) | environment of the child, temporary files | filter by tag, substitute, run | repository, agent |
| Configuration, passphrase prompts | one keychain entry | load, save | keychain |
| Legacy export, logging, errors | none | format | |

**What is hard here.**

- *No coordination.* Nothing locks the storage. A pull sees any subset of the
  files (an unreadable file is skipped without an error), and a write that
  timed out may be applied later. What a reader merges is therefore arbitrary,
  and correctness is a matter of which replicas can be merged at all.
- *Compaction* replaces a replica by a fresh Automerge document that shares no
  history with the others. Two generations in one document hide each other's
  map objects, so a pull must drop all but the newest generation.
- *Background tasks.* The UI pulls in a task and persists each edit in one of its
  own. Results arrive between two user actions; tasks overlap, write in any order,
  and nobody awaits them on leaving. Pages send whole copies of `State` that may be
  older than the document.
- *Crashes* between the cache write and the remote write.
- *The agent* is found through a file that several agents may write, and is
  stopped by requests that may be lost.

**What makes each component correct.**

- Document and repository: generations never mix; what reached the cache of a
  member is not undone, but for a task that a newer one overtook; the cache is ahead
  of the remote file; merged views hold every edit; members who keep syncing end with
  one view.
- UI loop: what is shown is what is stored; a save changes what the user asked
  for and nothing else; every secret opens with the DEK of the session; a
  removed member loses the DEK.
- Key agent: after a logout no key of the session is given out; an agent that
  nobody can find does not keep keys for ever.
- Keys: nobody is locked out and every secret can be read while rotations take
  turns; a removed member reads nothing written later; a rotation repairs what
  others had spoilt; a pending member has somebody who can activate it.
- Pages: a save changes the fields that were touched; renaming or deleting a tag
  leaves it nowhere; cursors stay on rows that exist; a question that awaits an
  answer is shown; completions fit the text.
- Inputs: a text area is one text with one cursor, and what changes it brings the
  cursor in sight; a completion replaces what was being typed only; no index is out
  of range.
- exec: the program and its arguments are those typed, with templates replaced
  once; a template and the environment agree; no secret's file stays behind.

## 2. Modules

| Module | Models |
|---|---|
| `VaultDocument` | The document as a set of operations; merge, conflict winners between generations, compaction, the order `Below` |
| `VaultRepo` | Members, terminals, cache and remote files: setup, force-sync, the UI's document, background sync and persist tasks, faults; its properties and fairness |
| `MCVaultRepo` | Finite instances of `VaultRepo` |
| `TuiSession` | One session of the terminal UI: document, DEK, `State`, action queue, late `State`s, changes that syncs bring |
| `MCTuiSession` | Finite instances of `TuiSession` |
| `WriteThrough` | What persisting promises, with nothing of how documents are made: the abstract specification of the files of `VaultRepo` |
| `VaultKeys` | The DEK on the replicas of several members: grants, saves, rotations, removals, merged register by register |
| `MCVaultKeys` | Finite instances of `VaultKeys` |
| `TuiPages` | The pages: home with its panes, confirmations, tag assignment and filter, the forms, the invite page, the router, the operations of `State` |
| `MCTuiPages` | Finite instances of `TuiPages` |
| `TextInput` | The text area, the one-line field and the insertion of a completed tag into it |
| `TextBuffer` | One text with one cursor: the abstract specification of the text area |
| `MCTextInput` | Finite instances of `TextInput` |
| `ExecRun` | `envi exec`: templates, files, assignments, environment, dry run, ends |
| `MCExecRun` | Command lines and vaults for `ExecRun` |
| `KeyAgent` | Agent processes, `agent.json`, and the commands that use them |
| `VaultRepo_proofs` | Lemmas on documents (the order, pure documents, edits, compactions, merges); theorems on `VaultRepo` for all constants, then those with one terminal per member, and the refinement of `WriteThrough` |
| `VaultKeys_proofs` | Theorems on `VaultKeys`: facts about the log, which write wins, what a rotation covers |
| `KeyAgent_proofs` | Theorems on `KeyAgent` |
| `TuiSession_proofs` | Theorems on `TuiSession`: types, then the State shown, the queue and the document |
| `TuiPages_proofs` | Theorems on `TuiPages`: what a page remembers, what it sends, where its cursors are |
| `SequenceLemmas` | Lemmas on sequences cut, joined and flattened, and the induction over lengths they rest on |
| `TextInput_proofs` | Theorems on `TextInput`, and the refinement of `TextBuffer` by the area |
| `ExecRun_proofs` | Theorems on `ExecRun`: files, types, the program, the environment, and the order of replacements |

### VaultDocument

A document is a finite set of operations, and merging is union: this is the
guarantee Automerge gives, and all that the code relies on. Each operation
belongs to the *root* (one `AutoCommit::new()`) whose maps it edits. `init_vault`
makes a root of date 0 (`compaction_date` is `None`, which `pull` reads as 0),
`Actions::Compact` one with a date. After a merge of several roots Automerge
shows, for each key of the document, the value written with the largest
operation counter, ties broken by actor id; `Winner` computes it for the
`members` map, the `secrets` map and the compaction date from the order in
which `reconcile` writes the keys. Entry contents are left out, except who
invited a member, on which granting depends, and whether the member's wrapped
DEK is empty (pending).

### VaultRepo

State: `local` and `remote` (the two files of each member), `late` (remote
writes whose caller gave up), `doc`, `jobs`, `sync` (per terminal: the UI's
document, its unfinished persists and the result of the background pull). An edit or a
compaction starts a persist task with a copy of the document, whatever became of the
tasks before it (`MaxJobs` only bounds their number), and tasks write in any order. A
task is `passed` when a newer one of its terminal has written the cache first; a member
whose cache such a task writes all the same is `setback`, one whose cache names it no
more `evicted`. Both are history variables: they say where the code's promises end. A
file records whether its signature is by the registered key, because
`verify_documents` drops it otherwise.

| Action | Code |
|---|---|
| `Create`, `JoinInvite`, `JoinManual` | `setup.rs`: register in the pulled (or new) document and persist |
| `ForceSync` | `sync.rs`: pull, persist; the passphrase is not verified (`Typo`) |
| `OpenUi` | `ui.rs`: pull and unlock as an active member |
| `AddSecret`, `DeleteSecret`, `GrantMember`, `RemoveMember` | a `SetState` that changes the document and spawns a persist |
| `Compact` | `Actions::Compact`; the date comes from a clock that may be behind (`Skew`) |
| `SyncStart`, `SyncDone` | `Actions::Sync` and the merge of its result |
| `LocalPush`, `PushFail`, `RemotePush`, `RemoteTimeout`, `Land` | the awaits of `persist`: cache, then remote with a time limit; a late write |
| `Exit`, `Abandon` | leaving the UI with no task running; with one, or being killed |

`pull` is the operator `Pulled`: the candidates are the member's cache and any
subset of the remote files, those that verify are kept, those of the newest
compaction are merged; with none, `init_vault` invents a document.

`FilesWriteThrough` instantiates `WriteThrough` with the caches as what is saved and
the remote files as what is published; under way (`Writing`) are the files of the tasks
that have written the cache, and the writes that timed out. Everything between (who
edits what, compactions, pulls, members joining) maps to a stutter; `LocalPush` maps to
`Save`, `RemotePush` and `Land` to `Arrive`, a failure or a kill to `GiveUp`, and a
time-out, after which the write may still come, to a stutter. The order `Ahead` between
two saved files is `Below`, and a member is `out` when it is evicted or was set back.

### TuiSession

The main loop owns the document, the session's DEK and the `State` derived from
both. A page sends a whole `State`, made from its copy, through the queue; the
loop compares it with its own and applies the difference. `VaultRepo` treats
each such edit as one step on the document; this module looks inside.

A pass of the loop is: see whether the background pull has ended (`SyncDone`,
`SyncIdle`, `SyncFailed`), drain the queue (`SetState`, `NavigateTo`, `StartSync`,
`Compact`), handle at most one key (the actions of `Event`). `draining` keeps the
pull from ending in the middle of a drain; `TimerFires` may happen anywhere.

| Operator or action | Code |
|---|---|
| `IsDocChange`, `Removed`, `Granted`, `Reconciled`, `Derive` | `is_doc_change`, `apply_set_state`, `state_to_envi_doc`, `derive_state` |
| `Rotated` | `rotate_dek_in_state` |
| `FooterOnly`, `RotateDek`, `RemoveMembers`, `Save` | the ways a `SetState` is handled, `Fail` the error path: the `State` is shown, the document is not changed |
| `Form`, `Page` | a form sends `SetState` and `NavigateTo`; the home page sends `SetState` |
| `CopyToken`, `TimerFires` | the invite page's second `State`, sent two seconds late |
| `SecretsChangedElsewhere`, `MembersChangedElsewhere`, `DekRotatedElsewhere` | one change by another member, who may not have seen the last rotation or the last secrets, and who may remove the user of this session or register anyone anew |
| `Reopen` | leaving, and `unlock_document` with one's own wrap and the MAC check |

Each secret carries the DEK its fields are encrypted under (0 when they differ or
one is blank, which decryption refuses), each member the DEK that is wrapped for
it (0 when pending). Two history variables say when nothing can be promised:
`stale` (a `State` was applied that was not made from the current one) and `mixed`
(something under another DEK came in).

### KeyAgent

State: the life of each agent process, the sessions whose keys it keeps,
whether it has been idle for its time to live (`quiet`), the agent `agent.json`
names, the place of each session's foreground command, and requests that the
client stopped waiting for (`stray`). Starting an agent, the truncation and the
filling of `agent.json`, each request and answer, the time-outs, the look-ups
after a spawn, the prompt, and the removal of the file are separate actions, so
two commands and two agents interleave everywhere the code lets them.

### VaultKeys

`log` holds every save with what it had seen; a replica (`doc`) and a file are
sets of saves, so that merging is union, as in `VaultDocument`. A register is the
wrapped key and MAC of a member or the fields of a secret; `Latest` gives the
write that a merged document shows, and which of two concurrent writes that is
depends on `luck` per register, because a save writes its registers in the order
of a hash map. A secret is one register, although an edit writes only the fields that
changed (`doc.rs:132-144`): where an edit and a rotation do not take turns the fields of
one secret may end under two DEKs. `Written` leaves that out; every property speaks of
documents in which they take turns, or ends with a rotation, which writes all fields. A DEK is named after the save that made it.

| Operator or action | Code |
|---|---|
| `Unlocks`, `Listed` | `unlock_document` with the MACs; `list_secrets`, where one failure empties the list |
| `Open`, `Pull` | `envi ui`; `[s]`, after which the session keeps its DEK |
| `Join` | setup with an invite (`verify_genesis_anchor`) or with storage credentials |
| `GrantMember`, `Sponsors` | a grant wraps the DEK of the session; an invite MAC can be verified by the inviter only |
| `SaveSecret`, `Unlisted` | a save writes one secret and drops those the session does not list |
| `RotateDek`, `RemoveMember`, `Rewritten` | `rotate_dek_in_state`: fails when a secret cannot be decrypted, else rewrites all secrets and active members |

### TuiPages, TextInput, ExecRun

`TuiPages` looks inside the events that `TuiSession` takes as given: which State
a page sends. Its `state` is the loop's and the page's at once, since every change
of the one is followed by `update` of the other; `queue`, `draining` and `SyncDone`
are as in `TuiSession`, with the document left out: an applied State is taken over
as it is. Fields are reduced to a text and a list of tags, a text of tags to its
words between commas. A queued State carries, for the properties, what the user
asked to change and what the page had read.

A key is taken when the queue is empty but for late States, which a sleeping task may
send at any time. Such a State (`Late`, `timers`, `TimerFires`) is the one the invite
page had, with an idle footer; when it is applied while a question is pending on the
home page, `masked` records that its warning is gone. The same variable records a
question left behind by assignment mode.

`TextInput` has the text area with lines, row, column and scroll position, and a
field with its cursor. `AreaIsBuffer` says that the lines joined by line breaks, with the
offset of the cursor, behave as `TextBuffer`. `InsertTag` is [Enter] on a completion in
the tags field (`insert_ac_tag`): it cuts the text at its last comma wherever the cursor
is, appends the tag and sets the cursor behind it. A behaviour is about one of the two
inputs (`input`), since they share no state. `CompletionKeepsTags` reads the text
before and after as `split_tags` would. Which completions are offered is in `TuiPages`.

`ExecRun` is a state machine over one command: `Unlocked`, one `WriteFile` for each
file template (or `WriteFails`), `LookedUp`, one `Replace` for each name in any
order (a hash map), then `Show` or `Start`, and `ChildExits`; `Killed` may happen
anywhere. Arguments and values are sequences of symbols, so that a value may hold
braces or an equals sign. `Rewrite` puts the values of a set of templates into one
argument at once: every position at which a template stands (`Met`) and none reaches
over (`Over`) gives the value, the other positions of a template nothing. `Replace` uses it
with one template, which is `str::replace`; `OneScan` compares with all of them.

## 3. Runs

The runs of `text` and `pages` check for deadlock: an input or a page always takes
another key. The others have `CHECK_DEADLOCK FALSE`: users may stop, a command
ends, and the bounded supplies (root ids, secrets, saves, compactions, agents) run
out.

| Run | Instance | Shows |
|---|---|---|
| `core` | `FairSpec`; 2 members, one terminal each; 2 roots, 1 compaction; 1 unfinished task per terminal, no fault, no secrets; 23k states | types, `GenerationPure`, `PullKeepsCache`, `OneCreation`; `Convergence` across a compaction and pulls that read nothing |
| `files` | `FairSpec`; 2 members, one terminal each; 2 unfinished tasks per terminal, 1 fault, no compaction, no secrets; 190k states | `CacheAhead`, `CacheMonotone`, `RemoteMonotone`, the refinement `FilesWriteThrough`; `Convergence` with overlapping tasks and a failed, late or abandoned write |
| `edits` | `Spec` with background sync; 2 roots, so that a pull that reads nothing makes up a vault; 1 secret, no compaction, no fault; 520k states | `EditsMerged`: every full pull shows the merged edits of all files |
| `agent` | `FairSpec` of `KeyAgent`; 1 session, 2 agents, 2 look-ups, 2 time-outs; 288k states | types, `LogoutForgets`, `OrphansExpire` |
| `tui` | `TuiSession`: the user and one other member, who joined by anybody's invite (`Guests`; the user by none made by somebody else), 2 secrets with 2 values, 2 DEKs, 1 copied token, 1 pull with a change, the user's removal included; 2.9M states | types, `OneDek`, `ShownIsStored`, `OnlyAsked`, `RemovalRotates` |
| `keys` | `VaultKeys`; 2 active members and one who joins or waits, 1 secret, 3 saves, at most one register with other luck; 261k states | types, `NobodyLockedOut`, `AllReadable`, `RemovedCannotRead`, `RotationRepairs`, `PendingHasSponsor` |
| `pages` | `TuiPages`; 2 secrets, 3 tags, one of them with a comma, 2 members, 2 values, texts to which 1 word is typed, 1 save, 1 pull of a secret with two tags or of the removal of a secret or member, 1 late State of the invite page; 1.9M states | types, `OnlyTouched`, `TagOpsComplete`, `MatchesFitText`, `NoDeadCursor`, `QuestionShown`, no deadlock |
| `text` | `TextInput`; 4 characters, 5 symbols in the area, 2 visible lines; 6 symbols in the field, 2 tags to complete; 133k states | types, the refinement `AreaIsBuffer`, `CursorVisible`, `CompletionKeepsTags`, no deadlock |
| `exec` | `ExecRun`; the command lines and vaults of `MCExecRun`, two tags; 9k states | types, `OneScan`, `FilesGone`, `ProgramAsTyped`, `TemplateIsEnv` |

Runs that end with a counterexample. Each checks what a document or comment of
the repository says:

| Run | Statement | What the code does |
|---|---|---|
| `v_sync_generations` | documents before and after a compaction are never merged (`docs/reports/LOGIN_FAILURE_REPORT.md:64`) | `[s]` merges whatever the pull brought into the open document: here a member compacts while its own pull runs, and then merges what that pull had read before |
| `v_cold_join` | the vault is not treated as empty when the storage is unreachable (`README.md:31`) | a manual join that lists the vault and then cannot read it registers in a new, empty one |
| `v_rotated_elsewhere` | a save overwrites only what changed (`cli/src/tui/doc.rs:103`) | after another member rotated the DEK a sync shows an empty list; the next saved secret deletes all others |

**Bounds.** Two members are enough for the storage properties: every pull
merges a set of files, a property speaks of one member and of what one other
did meanwhile, and the theorems below remove the bound where it matters. Two
roots and one compaction give one generation change with replicas on both
sides; a third generation adds no new kind of pair. One fault (a failed write, a
time-out, a crash) at every possible step covers each window of `persist`; two
overlapping tasks give one that overtakes and one overtaken, in every order of their four
writes. `core` and `files` have no secrets: members are
entries like secrets, and in addition decide which files are usable. Compactions and
overlapping tasks are in no run together, nor are compactions and faults; the theorems
on the safety properties have them all, in any number. `Convergence` is liveness and
rests on its two instances alone: one has a compaction and made-up vaults, the other
faults and overlapping tasks. Two terminals of one
member are in no run: they overwrite each other's file, and `CacheMonotone` fails. In `agent`
one session suffices for what a logout promises, because another session can only
start agents or stop them, which two agents and lost requests give already. In `tui` two DEKs are one rotation,
here or elsewhere, before or after everything else; one change by a pull meets
every place of the loop, and a second pull adds the order of two changes, which
the history flags give up on anyway when they are of different DEKs.
In `keys` three members are the fewest with which two rotate while a third is
active, pending or removed; three saves after the first are a rotation, what is
done beside it, and what follows the merge; `MaxEvents` bounds them. In `pages`
`MaxSaves`, `MaxSyncs`, `MaxTokens`, `MaxFilter` and `MaxTimers` bound changes, pulls,
words typed, tags in the filter and late States; keys that begin a change are not taken after the last one.
Every state of a page meets every pull and every save once, with a late State sent or
asleep anywhere between. `MaxText` of `text` lets
the area have more lines than are shown, above and below.

**Symmetry** permutes members (and their terminals) in `edits`,
members in `keys`, and secret ids and values in `tui`; never in a run that checks liveness.

**Fairness.** In `VaultRepo`: writes that are not made to fail end (`WF` of
`LocalPush`, `RemotePush`: the tasks are driven by the runtime), a user leaves
the UI some time (`WF` of `Exit`), and each member runs force-sync with a
readable storage again and again (`SF` of `ForceSync` on all files: the retry the
README tells users to do). Nothing is assumed of edits, partial pulls or late
writes. In `KeyAgent`: processes run (`WF` of `ClientStep`, `RunStep`) and time
passes for an agent that nobody talks to (`WF` of `Age`); no command need be
started and no passphrase typed.

## 4. Proofs

TLAPS proves the following for every value of the constants: any number of members,
terminals, tasks, roots and faults (where `Assumes` does not say less); in `TuiSession` any number of secrets, queued
`State`s, rotations, pulls and timers; in `VaultKeys` any number of saves and any winner of
two concurrent writes; any secrets, tags and texts in the pages and inputs; any command line
and vault in `ExecRun`. Every invariant, action property and refinement that a passing
run checks is stated by a theorem, but for `CompletionKeepsTags`; `Assumes` names what is needed besides the
assumptions of the module.

| Theorem | States | Assumes |
|---|---|---|
| `TypeCorrect` | `VaultRepo!Spec => []TypeOK` | |
| `GenerationPurity` | `CoreSpec => []GenerationPure` | (`CoreSpec` has no `[s]`, which `v_sync_generations` shows to be needed) |
| `PullKeepsCacheAlways` | `CoreSpec => []PullKeepsCache` | |
| `OneCreationAlways` | `CoreSpec => []OneCreation` | `ColdJoin = FALSE`: no manual join ends in a made-up vault, which `v_cold_join` shows to be needed |
| `EditsAreMerged` | `Spec => []EditsMerged`, with background sync | no compaction (`MaxDate = 0`), `ColdJoin = FALSE` |
| `CacheMonotonicity` | `CoreSpec => CacheMonotone` | `SoleTerminal` |
| `CacheIsAhead` | `CoreSpec => []CacheAhead` | `SoleTerminal` |
| `RemoteMonotonicity` | `CoreSpec => RemoteMonotone` | `SoleTerminal` |
| `FilesRefine` | `CoreSpec => FilesWriteThrough`: the files of `VaultRepo` implement `WriteThrough` | `SoleTerminal` |
| `KeysTypes` | `VaultKeys!Spec => []TypeOK` | |
| `KeysLockNobodyOut`, `KeysAllReadable`, `KeysRemovedCannotRead` | `Spec => []NobodyLockedOut`, `[]AllReadable`, `[]RemovedCannotRead` | (the properties name what must take turns) |
| `KeysRotationRepairs`, `KeysPendingHasSponsor` | `Spec => []RotationRepairs`, `[]PendingHasSponsor` | |
| `AgentTypes`, `NoKeyAfterLogout` | `KeyAgent!Spec => []TypeOK`, `[]LogoutForgets` | |
| `SessionTypes` | `TuiSession!Spec => []TypeOK` | |
| `SessionOneDek`, `SessionShown` | `Spec => []OneDek`, `[]ShownIsStored` | |
| `SessionRemovalRotates`, `SessionOnlyAsked` | `Spec => RemovalRotates`, `Spec => OnlyAsked` | |
| `PagesTypes`, `CursorsAlive` | `TuiPages!Spec => []TypeOK`, `[]NoDeadCursor` | |
| `CompletionsFit`, `QuestionsShown` | `Spec => []MatchesFitText`, `[]QuestionShown` | |
| `SavesTouchNoMore`, `TagOperationsWhole` | `Spec => OnlyTouched`, `Spec => TagOpsComplete` | |
| `TextTypes`, `CursorInSight` | `TextInput!Spec => []TypeOK`, `Spec => CursorVisible` | |
| `AreaImplements` | `Spec => AreaIsBuffer`: the text area implements `TextBuffer` | |
| `ExecTypes`, `NoFilesLeft` | `ExecRun!Spec => []TypeOK`, `[]FilesGone` | |
| `ProgramKept`, `TemplatesAgreeWithEnv` | `Spec => []ProgramAsTyped`, `[]TemplateIsEnv` | |
| `AnyOrderIsOneScan` | `Spec => []OneScan` | |

`SoleTerminal` says that each member has one terminal, that the clock of a compaction is
strictly later than every compaction before (`Skew = 0`) and that passphrases are typed
correctly (`Typo = FALSE`). It bounds neither the persist tasks of a terminal nor their
order. Each part is needed: two terminals of one member overwrite each other's file, a
compaction with an older date is discarded by the next pull, and a cache that is wrongly
signed is skipped by the next pull, which may then save less than the storage has. `ColdJoin = FALSE` rules two cases out: that the storage stops
answering between the listing and the pull of a manual join, and that the only file it
lists is wrongly signed, after a mistyped passphrase.

*The repository.* Documents are ordered by `Below`: a later compaction, or more
operations of the same one. `VaultRepo_proofs` shows that this is an order on pure
documents and that each edit and each compaction moves up in it. `GenerationPure` is
inductive with `TypeOK`: a pull merges documents of one date, which are pure by
induction, so the union is. For the cache, `CacheInv` adds that every date is at most
the clock (`DatesInv`), that a member who has not set up has nothing in flight (`NewInv`),
and two facts about overlapping tasks. `TaskInv`: the documents of the tasks of a terminal
are ordered, all are below the open document, and those that no newer task has passed are
not behind the cache; nor is the open document. `AheadInv`: until a member is evicted or
set back, its remote file and every write under way to it (`Versions`) are ordered among
each other and below its cache. A pull starts from the cache when the cache is usable, and
an edit from the open document, hence every new task is above what was there; a local
write moves the cache to that task's document unless the task was overtaken, in which
case the open document, which has everything, is what `CacheMonotone` falls back to; and a
remote write moves the file within the chain. None of the properties is inductive without the
others: that a late write takes back nothing the cache has not needs the whole chain.

`FilesRefine` follows from the same invariant: a `LocalPush` writes a document above the
cache unless the member is out, what is under way has been saved, and no other step
touches the files.

`OneCreation` needs `CreationInv`: every document is *genuine*, that is, what it has of
date 0 descends from the one vault that was created, or it is *blank*, made up by a pull
that read nothing. A blank document names no member, so no UI opens it and no invite
joins it. Force-sync may save it, but to the cache first, and a member whose cache does
not name it counts as evicted.

`EditsMerged` is proved with background sync, under which documents may mix roots: a
sync that can read nothing merges a made-up vault into the open document. `EditsInv`
says why no edit is lost by that. All members are put into the vault that was created,
so a document that names a member shows the maps of the creation, which then has the
smallest id of its roots; every file that passes verification is such a document, and so
is the union of several. A deletion is of a deleted secret at the creation, or it is at
a root with a smaller id, which no usable file has. So a pull of all files shows what
its parts show. `EditsInv` was model-checked on the instance of `edits` before it was
proved.

*Keys.* What makes the properties of `VaultKeys` true is a fact about the log alone
(`GoodLog`): each save was made on a document that is closed under what its saves had
seen, with a key that a rotation in that document made, wrapped only for members who
were in it; and a rotation writes every register it does not drop. `KeysInv` adds that
replicas and files are closed and that a session's key is one that its replica has. Take
the last rotation of a closed document. A register's write that it had seen is not the
one shown, because the rotation wrote that register itself (`RotationCovers`); a write
that it had not seen comes after it and has its key, or stands beside it, which the
condition of the property excludes (`LastRotation`). `RotationRepairs` needs no such
condition: in a document that ends with a rotation nothing else can be shown. That a
register has a latest write at all is well-founded induction over the log.

*The agent.* `NoKeyAfterLogout` uses `ForgetInv`: a session that logged out and typed no
passphrase is nowhere between prompt and store (`ForgotInv`), and a command at a request
names the agent it talks to (`NamedInv`).

*The UI session.* The theorems on `TuiSession` follow from `SessionInv`, which adds
three facts to the types. Every `State` in the queue differs from the one it was made
from as its key event asked (`Asked`): without it nothing could be said of a `State`
that waits behind others. No id in the document, in a `State` or in the queue is minted
again (`MintedInv`): an added secret could otherwise be taken for an edit. And unless
the history flags are set, the `State` of the loop is the document's, all under the DEK
of the session (`Quiet`), with one exception that the invariant must name: after a grant
that cannot be verified the loop shows the `State` it could not apply, edits that follow
stay in it and out of the document, and only because each of them still carries that
grant does none of them slip through. `RemovalRotates` needs no more than `Quiet` and
holds for late `State`s too, because the loop's own comparison finds the member missing.

*The pages.* `PagesInv` says what a page remembers and what it has sent. Every change in
the queue is *explained* by the `State` it was made from: it differs in a field only
where the user touched it, where a pull came after the page had read it, or where a tag
with a comma was taken apart; and it is *complete*: tags it retired are on no secret and
in no filter. For this a form must hold, in every field not yet touched, what it read
when it was opened, and assignment mode must have marked, but for the toggled secrets,
those that carried the tag. Cursors are on rows of the lists as filtered, completions
are those of the text. A pending question has its warning in the footer, or the only
change in the queue brings it, or it was masked by assignment mode or by the invite
page's late State; the middle case is why the question alone is not inductive. A late
State may stand anywhere in the queue, also behind another change, so the invariant says
of each queue which changes it can hold.

*The inputs.* `TextTypes` is inductive as it stands, action by action, with lemmas on
what inserting into and removing from a sequence return. `CursorInSight` needs only that
whatever changes the lines or the cursor ends in `Scrolled`, or in an empty area.
`AreaImplements` writes the joined text as `X \o V`, before and behind the cursor: X
is the lines above with their line breaks and the head of the cursor's line. Every key
appends to X, takes the last symbol of X or the first of V, or cuts `X \o V` elsewhere.
That the fold which joins the lines does so is an induction over their number, made by
`SequenceLemmas` through the set of the numbers for which the fact holds (`NatSet`), as
the library's induction rules take an operator.

*exec.* `NoFilesLeft` uses `FilesInv`: files are only in a directory, a dry run has
none, and until the child ends the files are those of the templates found. `ProgramKept`
and `TemplatesAgreeWithEnv` use `SubstInv`: templates begin and end with a brace, the
keys of the leading assignments hold none, so no replacement reaches into a key or moves
the first equals sign; a text without a token has no place where a template stands.
`AnyOrderIsOneScan` uses `ScanInv`: the arguments are always those of one scan for the
replacements made so far. The step is that scanning for a set and then for one more
template is scanning for both, by induction on the length of the argument, which is cut
after a symbol, after a template, or at a brace that nothing closes: no template crosses
such a cut, so `Rewrite` works on both parts alone. It rests on names that hold no
brace, where arguments nest no templates: two templates then never overlap, and a value
without braces makes no new one.

*Only model-checked:* the liveness properties `Convergence` and `OrphansExpire`;
liveness under fairness and `ENABLED` are beyond the prover; and `CompletionKeepsTags`.
The violation runs are counterexamples and prove nothing else.

## 5. What the models show of the code's limits

These are consequences of the code that the properties name as exceptions or the
runs were bounded by. Besides the statements that the violation runs above refute,
three more that we know of do not hold of the code:

- *README.md:29*, "there are no write conflicts and no need for locking or coordination".
  A member's own terminal writes its file in concurrent tasks that nothing orders
  (`tui/mod.rs:188, 248`): after two edits in a row, with no write failed or under way, the
  storage may keep the first edit alone. `FilesWriteThrough`, `RemoteMonotone` and
  `CacheMonotone` say what is left: a file goes back to an earlier version of itself,
  never to something else; what the storage lost is in the cache, what the cache lost is
  in the open document, and what that held is lost if the UI is left before the next
  persist.
- *README.md:25*, the result of a sync "is then saved to a local cache". What a UI pulls
  stays in memory (`tui/mod.rs:141`); the cache has it after the next edit, compaction or
  force-sync. `PullKeepsCache` is what holds instead.
- *README.md:149*, "logging out in one terminal only affects that terminal". The request
  stops the one agent, and with it the keys of every other terminal (`agent.rs:406`).

The limits:

- *Compaction loses edits.* A file of an older compaction is dropped as a whole,
  with edits that the compacting member had not seen. `EditsMerged` is checked
  without compactions.
- *A sync that reads nothing* gives an empty vault of its own. In the session of a member
  whose cache names it no more, or does not verify, `[s]` merges that vault into the open
  document. Whether the document then still shows the vault or appears empty depends on the random actor ids;
  in the second case what this session saves is dropped by everybody. `OneCreation` holds
  without `[s]` only; `EditsMerged` holds with it.
- *Late State.* The State that the invite page sends two seconds late carries old
  secrets and members; a secret deleted meanwhile comes back. `OnlyAsked` excludes
  it by the history variable `stale`. On the home page it takes the warning of a
  pending question from the footer, which `QuestionShown` names.
- *Equal dates.* Two compactions in one second have one date, and a pull merges them;
  the properties compare dates and do not see it.
- *A removed user* who syncs sees the vault without itself; the session goes on with the
  DEK it has, and what it saves is skipped by everybody.
- *Rotations must take turns.* Two concurrent rotations, a grant beside a rotation,
  or a grant by a session that synced a rotation of another member leave wrapped
  keys and MACs of different DEKs in one document, and nobody unlocks it any more.
  `InTurn` of `VaultKeys` says what members must keep to; the code neither prevents
  nor detects the rest. A session that is still open can repair it by a rotation.
- *exec leaves files behind* when a later file cannot be written, when no command
  is left after the assignments, when the program cannot be started, and when a
  signal ends envi (`FilesGone` lists the ends at which they are gone). README.md:135
  speaks of the exit of the command only.
- *Two secrets of one name*: templates take the first, the environment the last.
- *Assignment mode and confirmations.* [Enter] and [Esc] in assignment mode come
  before a pending confirmation: the warning goes and the question stays. After a
  confirmed compaction it is the other way round: the warning stays.
- *Tags with a comma* can be made with the tag form; the secret form takes them
  apart. A form overwrites the fields it did not touch with what it had read, and an
  edit of a secret deleted elsewhere vanishes.
- The comment at `pages/home.rs:389` says that the tags pane has the focus only
  while there are secrets; deleting the last one from another pane or by a sync
  reaches the case it excludes, which is handled.

## 6. What is not modelled

- Ciphers, key derivation, signatures and Automerge itself: external, used by
  their guarantees. A signature is either by the registered key or not.
- Clients from before the MACs and invite nonces, for which the code skips checks.
- Field contents and updates of secrets in `VaultRepo`; the cache directory
  removed by `wipe` (the member then behaves like a new terminal with an empty
  cache, which `init_vault` and pulls already cover); a second run of setup.
- Compaction, the cache and lost writes in `VaultKeys`: a file there is what its
  owner saved last. `VaultRepo` has them, without DEKs.
- One vault per agent and one foreground command per session in `KeyAgent`;
  `remove_file` and the exit of the agent are one step.
- Two terminals of one member, beyond the theorems that hold for any number of them.
- In `TuiSession`: the channel's capacity of 64, which pages cannot reach. Tags, filters,
  cursors and the values a form was opened with are in `TuiPages`, which in turn leaves
  out the order by name, letter case, showing values, the clipboard, and what a grant or a
  rotation does to the document: an applied State is taken over as it is.
- In `ExecRun`: the choice among vaults, names with a slash, and a directory that
  cannot be removed.
- Building a storage operator (configuration), prompts and the keychain (one entry
  read and written), the encoding of tokens, rendering, header and footer layout,
  logging, the legacy export, installation: pure I/O or formatting, with no state
  whose order of changes matters.

## 7. Plan

1. `VaultDocument`, `VaultRepo`, `KeyAgent`, `TuiSession` with their runs and
   theorems (done).
2. `VaultKeys`, `TuiPages`, `TextInput`, `ExecRun` with their runs (done); the
   abstract specifications `WriteThrough` and `TextBuffer` with their refinements
   (done).
3. Proofs of every safety property that the runs check (done, but for
   `CompletionKeepsTags`).
4. Two terminals of one member: which part of `CacheMonotone` survives when only one of
   them writes at a time, and a theorem about it.
