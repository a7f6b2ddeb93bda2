------------------------------ MODULE TuiSession ------------------------------
(***************************************************************************)
(* One session of the terminal UI (cli/src/tui/mod.rs, doc.rs and the      *)
(* pages that send actions).                                               *)
(*                                                                         *)
(* The main loop owns the document, the DEK of the session and the State   *)
(* it derives from both.  Pages never touch the document: they send a      *)
(* whole State, made from the copy they hold, through a queue, and the     *)
(* loop finds out what changed and applies it.  A pass of the loop looks   *)
(* whether a background pull has ended, drains the queue, and handles one  *)
(* key.  The invite page sends one State two seconds late.                 *)
(*                                                                         *)
(* Persisting is the business of VaultRepo; here the document matters with *)
(* the DEK each secret is encrypted and each member is wrapped under.      *)
(***************************************************************************)
EXTENDS Naturals, Sequences, FiniteSets

CONSTANTS
    Me,        \* the member who runs the UI
    Member,    \* member ids
    Guests,    \* those who may have registered with an invite of somebody else
    Secret,    \* secret ids (UUIDs: never minted twice)
    Value,     \* what the fields of a secret may hold
    MaxDek,    \* bound: DEKs generated
    MaxCopies, \* bound: invite tokens copied
    MaxSyncs   \* bound: pulls that bring a change

ASSUME TuiAssumption ==
    /\ Me \in Member /\ Guests \subseteq Member
    /\ IsFiniteSet(Member) /\ IsFiniteSet(Secret)
    /\ MaxDek \in Nat \ {0} /\ MaxCopies \in Nat /\ MaxSyncs \in Nat

VARIABLES
    foreign,   \* members who register with an invite of somebody else
    doc,       \* the document: secrets with their DEK, members with their wrap
    dek,       \* session.dek
    deks,      \* DEKs generated so far, by anybody: 1 .. deks
    state,     \* the State of the loop and of the page it shows
    queue,     \* the actions channel
    timers,    \* States that a sleeping task of the invite page will send
    pulling,   \* sync_task is running
    draining,  \* the loop is within the drain of the queue
    minted,    \* secret ids used so far
    copies,    \* invite tokens copied so far
    syncs,     \* pulls that brought a change so far
    stale,     \* history: a State was applied that was not made from the current one
    mixed      \* history: something under another DEK than the session's came in

vars == <<foreign, doc, dek, deks, state, queue, timers, pulling, draining,
          minted, copies, syncs, stale, mixed>>
history == <<foreign, minted, copies, syncs, stale, mixed>>

Partial(D, R) == UNION {[S -> R] : S \in SUBSET D}

\* DEK 0: a secret with a field that is blank or under another DEK than the
\* others; a member who is pending (no wrapped DEK).  A pull may bring documents
\* in which the user is pending or missing.
Entry == [dek : 0 .. MaxDek, value : Value]
Wraps == Partial(Member, 0 .. MaxDek)
Doc == [secrets : Partial(Secret, Entry), wraps : Wraps]
State == [secrets : Partial(Secret, Value), wraps : Wraps,
          grants : SUBSET Member, rotate : BOOLEAN]

\* base: the State that the page had when it made the new one.
Edits == {"add", "edit", "delete", "remove", "grant", "rotate"}
Footers == {"hint", "reset"}
Controls == {"navigate", "sync", "compact"}
Item == [why : Edits \cup Footers \cup Controls, base : State, state : State]
Set(why, old, new) == [why |-> why, base |-> old, state |-> new]
Control(why) == [why |-> why, base |-> state, state |-> state]

Without(f, S) == [x \in DOMAIN f \ S |-> f[x]]
With(f, x, y) == [z \in DOMAIN f \cup {x} |-> IF z = x THEN y ELSE f[z]]

-----------------------------------------------------------------------------
(***************************************************************************)
(* The document and the State derived from it                              *)
(***************************************************************************)
Readable(d, k) == \A s \in DOMAIN d.secrets : d.secrets[s].dek = k

\* derive_state: when one secret cannot be decrypted, none is shown.
Derive(d, k) ==
    [secrets |-> [s \in {x \in DOMAIN d.secrets : Readable(d, k)} |-> d.secrets[s].value],
     wraps |-> d.wraps, grants |-> {}, rotate |-> FALSE]

\* Mutant: changes of secrets go unnoticed.
IsDocChange_NoSecrets(old, new) ==
    new.rotate \/ new.grants # {} \/ DOMAIN old.wraps # DOMAIN new.wraps

IsDocChange(old, new) ==
    \/ new.rotate \/ new.grants # {}
    \/ old.secrets # new.secrets
    \/ DOMAIN old.wraps # DOMAIN new.wraps

\* Mutant: the new DEK is wrapped for oneself only.
Rotated_Own(d, k) ==
    [secrets |-> [s \in DOMAIN d.secrets |-> [d.secrets[s] EXCEPT !.dek = k]],
     wraps |-> [d.wraps EXCEPT ![Me] = k]]

\* rotate_dek_in_state: re-encrypt every secret, re-wrap for active members.
Rotated(d, k) ==
    [secrets |-> [s \in DOMAIN d.secrets |-> [d.secrets[s] EXCEPT !.dek = k]],
     wraps |-> [m \in DOMAIN d.wraps |-> IF d.wraps[m] = 0 THEN 0 ELSE k]]

Removed_None(old, new) == {}   \* Mutant: removals are left to the edit path.
Removed(old, new) == DOMAIN old.wraps \ DOMAIN new.wraps

\* state_to_envi_doc: secrets and members that new does not have are dropped,
\* new secrets are encrypted, known ones only in the fields that changed.
Reconciled(d, old, new, k) ==
    [secrets |-> [s \in DOMAIN new.secrets |->
        LET v == new.secrets[s]
            whole == s \in DOMAIN d.secrets /\ d.secrets[s].dek = k
        IN CASE s \notin DOMAIN old.secrets -> [dek |-> k, value |-> v]
             [] s \in DOMAIN old.secrets /\ old.secrets[s] # v ->
                  [dek |-> IF whole THEN k ELSE 0, value |-> v]
             [] OTHER -> IF s \in DOMAIN d.secrets THEN d.secrets[s]
                         ELSE [dek |-> 0, value |-> v]],
     wraps |-> new.wraps]

\* The grants are wrapped, and the signal is cleared.
Granted(new, k) ==
    [new EXCEPT !.wraps = [m \in DOMAIN @ |-> IF m \in new.grants THEN k ELSE @[m]],
                !.grants = {}]

-----------------------------------------------------------------------------
(***************************************************************************)
(* The drain: SetState                                                     *)
(***************************************************************************)
Apply(d, k) ==
    /\ doc' = d
    /\ dek' = k
    /\ state' = Derive(d, k)

\* An error is shown over the State that could not be applied.
Fail(new) == state' = new /\ UNCHANGED <<doc, dek, deks>>

FooterOnly(new) ==
    /\ ~IsDocChange(state, new)
    /\ state' = new
    /\ UNCHANGED <<doc, dek, deks>>

RotateDek(new) ==
    /\ new.rotate
    /\ IF Readable(doc, dek)
       THEN /\ deks < MaxDek /\ deks' = deks + 1
            /\ Apply(Rotated(doc, deks + 1), deks + 1)
       ELSE Fail(new)

\* One member after another is removed, each with a new DEK; a member the
\* document does not have ends it, with those before it (gone) removed.
RemoveMembers(new) == LET removed == Removed(state, new) IN
    /\ IsDocChange(state, new) /\ ~new.rotate /\ removed # {}
    /\ \E gone \in SUBSET (removed \cap DOMAIN doc.wraps) :
        LET n == Cardinality(gone)
            d == [doc EXCEPT !.wraps = Without(@, gone)]
        IN /\ gone = {} \/ Readable(doc, dek)
           /\ deks + n <= MaxDek
           /\ IF gone = removed
              THEN deks' = deks + n /\ Apply(Rotated(d, deks + n), deks + n)
              ELSE /\ ~Readable(doc, dek) \/ ~(removed \subseteq gone \cup DOMAIN doc.wraps)
                   /\ state' = new
                   /\ deks' = deks + n
                   /\ doc' = IF n = 0 THEN doc ELSE Rotated(d, deks + n)
                   /\ dek' = IF n = 0 THEN dek ELSE deks + n

\* Grants first: one that cannot be verified fails the whole change.
Save(new) ==
    /\ IsDocChange(state, new) /\ ~new.rotate /\ Removed(state, new) = {}
    /\ IF new.grants \cap DOMAIN new.wraps \cap foreign # {}
       THEN Fail(new)
       ELSE Apply(Reconciled(doc, state, Granted(new, dek), dek), dek) /\ UNCHANGED deks

SetState ==
    /\ queue # <<>> /\ Head(queue).why \notin Controls
    /\ LET new == Head(queue).state IN
         FooterOnly(new) \/ RotateDek(new) \/ RemoveMembers(new) \/ Save(new)
    /\ queue' = Tail(queue)
    /\ draining' = (Len(queue) > 1)
    /\ stale' = (stale \/ Head(queue).base # state)
    /\ UNCHANGED <<timers, pulling, foreign, minted, copies, syncs, mixed>>

-----------------------------------------------------------------------------
(***************************************************************************)
(* The drain: NavigateTo, Sync, Compact                                    *)
(***************************************************************************)
Taken(why) == queue # <<>> /\ Head(queue).why = why

\* Router::navigate sends the footer hint of the new page.
NavigateTo ==
    /\ Taken("navigate")
    /\ queue' = Append(Tail(queue), Set("hint", state, state))
    /\ draining' = TRUE
    /\ UNCHANGED <<doc, dek, deks, state, timers, pulling>> /\ UNCHANGED history

StartSync ==
    /\ Taken("sync")
    /\ pulling' = TRUE
    /\ queue' = Tail(queue)
    /\ draining' = (Len(queue) > 1)
    /\ UNCHANGED <<doc, dek, deks, state, timers>> /\ UNCHANGED history

\* The fresh document holds what is visible in the old one.
Compact ==
    /\ Taken("compact")
    /\ state' = Derive(doc, dek)
    /\ queue' = Tail(queue)
    /\ draining' = (Len(queue) > 1)
    /\ UNCHANGED <<doc, dek, deks, timers, pulling>> /\ UNCHANGED history

-----------------------------------------------------------------------------
(***************************************************************************)
(* Key events, at most one in a pass; late States of the invite page       *)
(***************************************************************************)
Send(q) ==
    /\ ~draining /\ \A i \in DOMAIN queue : queue[i].why = "reset"
    /\ queue' = q
    /\ UNCHANGED <<foreign, doc, dek, deks, state, pulling, draining, syncs, stale, mixed>>

Page(why, new) ==
    Send(Append(queue, Set(why, state, new))) /\ UNCHANGED <<timers, minted, copies>>

Form(why, new) ==
    Send(Append(Append(queue, Set(why, state, new)), Control("navigate")))

AddSecret == \E s \in Secret \ minted, v \in Value :
    /\ Form("add", [state EXCEPT !.secrets = With(@, s, v)])
    /\ minted' = minted \cup {s}
    /\ UNCHANGED <<timers, copies>>

EditSecret == \E s \in DOMAIN state.secrets, v \in Value :
    /\ Form("edit", [state EXCEPT !.secrets[s] = v])
    /\ UNCHANGED <<timers, minted, copies>>

DeleteSecret == \E s \in DOMAIN state.secrets :
    Page("delete", [state EXCEPT !.secrets = Without(@, {s})])

RemoveMember == \E m \in DOMAIN state.wraps \ {Me} :
    deks < MaxDek /\ Page("remove", [state EXCEPT !.wraps = Without(@, {m})])

GrantMember == \E m \in DOMAIN state.wraps :
    state.wraps[m] = 0 /\ Page("grant", [state EXCEPT !.grants = @ \cup {m}])

AskRotation == deks < MaxDek /\ Page("rotate", [state EXCEPT !.rotate = TRUE])

Hint == Page("hint", state)

PressSync ==
    /\ ~pulling /\ syncs < MaxSyncs
    /\ Send(Append(queue, Control("sync"))) /\ UNCHANGED <<timers, minted, copies>>

PressCompact == Send(Append(queue, Control("compact"))) /\ UNCHANGED <<timers, minted, copies>>

\* [c] on the invite page: "copied" now, and a State to undo it in 2 s.
CopyToken ==
    /\ copies < MaxCopies
    /\ Send(Append(queue, Set("hint", state, state)))
    /\ timers' = timers \cup {state}
    /\ copies' = copies + 1
    /\ UNCHANGED minted

TimerFires == \E t \in timers :
    /\ queue' = Append(queue, Set("reset", t, t))
    /\ timers' = timers \ {t}
    /\ UNCHANGED <<doc, dek, deks, state, pulling, draining>> /\ UNCHANGED history

-----------------------------------------------------------------------------
(***************************************************************************)
(* What a pull may bring: one change that another member made meanwhile,   *)
(* who may not have seen the last rotation (k) or the last secrets (seen). *)
(***************************************************************************)
SecretsChangedElsewhere ==
    /\ UNCHANGED deks
    /\ \/ \E s \in Secret \ minted, v \in Value, k \in 1 .. deks :
            /\ doc' = [doc EXCEPT !.secrets = With(@, s, [dek |-> k, value |-> v])]
            /\ minted' = minted \cup {s}
       \/ \E s \in DOMAIN doc.secrets, v \in Value, k \in 1 .. deks :
            /\ doc' = [doc EXCEPT !.secrets[s] =
                          [dek |-> IF k = @.dek THEN k ELSE 0, value |-> v]]
            /\ UNCHANGED minted
       \/ \E s \in DOMAIN doc.secrets :
            /\ doc' = [doc EXCEPT !.secrets = Without(@, {s})]
            /\ UNCHANGED minted

\* Somebody registers, also anew after having been a member, or is granted access.
MembersChangedElsewhere ==
    /\ UNCHANGED <<deks, minted>>
    /\ \/ \E m \in Member : doc' = [doc EXCEPT !.wraps = With(@, m, 0)]
       \/ \E m \in DOMAIN doc.wraps, k \in 1 .. deks :
            doc.wraps[m] = 0 /\ doc' = [doc EXCEPT !.wraps[m] = k]

\* Elsewhere somebody rotates the DEK, alone or by removing a member (out), which
\* may be the user of this session.
DekRotatedElsewhere ==
    \E out \in SUBSET DOMAIN doc.wraps, seen \in SUBSET DOMAIN doc.secrets :
        /\ Cardinality(out) <= 1
        /\ deks < MaxDek /\ deks' = deks + 1
        /\ doc' = [secrets |-> [s \in DOMAIN doc.secrets |->
                                   IF s \in seen THEN Rotated(doc, deks').secrets[s]
                                   ELSE doc.secrets[s]],
                   wraps |-> Without(Rotated(doc, deks').wraps, out)]
        /\ UNCHANGED minted

Uniform(d, k) ==
    Readable(d, k) /\ \A m \in DOMAIN d.wraps : d.wraps[m] \in {0, k}

\* Mutant: the State is left as it was.
SyncDone_OldState ==
    /\ pulling /\ ~draining
    /\ pulling' = FALSE
    /\ syncs < MaxSyncs /\ syncs' = syncs + 1
    /\ SecretsChangedElsewhere \/ MembersChangedElsewhere \/ DekRotatedElsewhere
    /\ mixed' = (mixed \/ ~Uniform(doc', dek))
    /\ UNCHANGED <<foreign, dek, state, queue, timers, draining, copies, stale>>

\* The pull has ended: merge, and derive the State with the DEK as it was.
SyncDone ==
    /\ pulling /\ ~draining
    /\ pulling' = FALSE
    /\ syncs < MaxSyncs /\ syncs' = syncs + 1
    /\ SecretsChangedElsewhere \/ MembersChangedElsewhere \/ DekRotatedElsewhere
    /\ state' = Derive(doc', dek)
    /\ mixed' = (mixed \/ ~Uniform(doc', dek))
    /\ UNCHANGED <<foreign, dek, queue, timers, draining, copies, stale>>

\* The pull brought nothing new.
SyncIdle ==
    /\ pulling /\ ~draining
    /\ pulling' = FALSE
    /\ state' = Derive(doc, dek)
    /\ UNCHANGED <<doc, dek, deks, queue, timers, draining>> /\ UNCHANGED history

\* The pull failed: only the footer says so.
SyncFailed ==
    /\ pulling /\ ~draining
    /\ pulling' = FALSE
    /\ UNCHANGED <<doc, dek, deks, state, queue, timers, draining>> /\ UNCHANGED history

\* Mutant: whether one is active is left for others to check.
Reopen_Pending ==
    /\ ~draining /\ queue = <<>>
    /\ Me \in DOMAIN doc.wraps
    /\ dek' = doc.wraps[Me]
    /\ state' = Derive(doc, dek')
    /\ timers' = {}
    /\ pulling' = FALSE
    /\ stale' = (stale /\ ~Uniform(doc, dek'))
    /\ mixed' = (mixed /\ ~Uniform(doc, dek'))
    /\ UNCHANGED <<foreign, doc, deks, queue, draining, minted, copies, syncs>>

\* Leave the UI and open it again: unlock_document takes the DEK of one's own
\* wrap and checks the key MAC of every active member with it.
Reopen ==
    /\ ~draining /\ queue = <<>>
    /\ Me \in DOMAIN doc.wraps /\ doc.wraps[Me] # 0
    /\ \A m \in DOMAIN doc.wraps : doc.wraps[m] \in {0, doc.wraps[Me]}
    /\ dek' = doc.wraps[Me]
    /\ state' = Derive(doc, dek')
    /\ timers' = {}
    /\ pulling' = FALSE
    /\ stale' = (stale /\ ~Uniform(doc, dek'))
    /\ mixed' = (mixed /\ ~Uniform(doc, dek'))
    /\ UNCHANGED <<foreign, doc, deks, queue, draining, minted, copies, syncs>>

-----------------------------------------------------------------------------
\* The UI has just unlocked a document whose members may be pending or active.
Init ==
    /\ foreign \in SUBSET Guests
    /\ \E S \in SUBSET Secret, M \in SUBSET (Member \ {Me}) :
       \E wraps \in [M -> {0, 1}], v \in Value :
          doc = [secrets |-> [s \in S |-> [dek |-> 1, value |-> v]],
                 wraps |-> With(wraps, Me, 1)]
    /\ dek = 1 /\ deks = 1
    /\ state = Derive(doc, dek)
    /\ queue = <<>> /\ timers = {}
    /\ pulling = FALSE /\ draining = FALSE
    /\ minted = DOMAIN doc.secrets
    /\ copies = 0 /\ syncs = 0
    /\ stale = FALSE /\ mixed = FALSE

Drain == SetState \/ NavigateTo \/ StartSync \/ Compact

Event ==
    \/ AddSecret \/ EditSecret \/ DeleteSecret
    \/ RemoveMember \/ GrantMember \/ AskRotation
    \/ Hint \/ PressSync \/ PressCompact \/ CopyToken

Next ==
    \/ Drain \/ Event \/ TimerFires
    \/ SyncDone \/ SyncIdle \/ SyncFailed \/ Reopen

Spec == Init /\ [][Next]_vars

-----------------------------------------------------------------------------
(***************************************************************************)
(* Properties                                                              *)
(***************************************************************************)

\* Types; the session always has a DEK, never the empty wrap of a pending user.
TypeOK ==
    /\ foreign \subseteq Member
    /\ doc \in Doc
    /\ dek \in 1 .. MaxDek /\ deks \in 1 .. MaxDek
    /\ state \in State
    /\ queue \in Seq(Item)
    /\ timers \subseteq State
    /\ pulling \in BOOLEAN /\ draining \in BOOLEAN
    /\ minted \subseteq Secret
    /\ copies \in 0 .. MaxCopies /\ syncs \in 0 .. MaxSyncs
    /\ stale \in BOOLEAN /\ mixed \in BOOLEAN

\* As long as no State was applied late and nothing came in under another DEK,
\* all that is encrypted in the document is under the DEK of the session: no
\* order of edits, grants, rotations, removals and syncs leaves a secret or a
\* member behind under an old one.
OneDek == stale \/ mixed \/ Uniform(doc, dek)

\* Under the same conditions the page shows what the document holds, unless
\* an error is shown: no change is displayed and then not in the document.
ShownIsStored ==
    stale \/ mixed \/ state.grants # {} \/ state.rotate \/ state = Derive(doc, dek)

\* A step that applies a State of the queue: TimerFires only appends.
Applies == queue # <<>> /\ queue' = Tail(queue)

Lost == DOMAIN doc.secrets \ DOMAIN doc'.secrets
Changed == {s \in DOMAIN doc.secrets \cap DOMAIN doc'.secrets :
               doc'.secrets[s].value # doc.secrets[s].value}
Gone == DOMAIN doc.wraps \ DOMAIN doc'.wraps
Back == DOMAIN doc'.wraps \ DOMAIN doc.wraps

\* Under the same conditions the loop infers from two States exactly what the
\* user did: a step deletes, changes or removes no more than was asked, and it
\* brings back nobody who was removed elsewhere, the user included.
OnlyAsked ==
    [][Applies /\ ~stale' /\ ~mixed => LET why == Head(queue).why IN
          /\ Cardinality(Lost) <= IF why = "delete" THEN 1 ELSE 0
          /\ Cardinality(Changed) <= IF why = "edit" THEN 1 ELSE 0
          /\ Cardinality(Gone) <= IF why = "remove" THEN 1 ELSE 0
          /\ Back = {}]_vars

\* "Remove a member and rotate the DEK so they can no longer decrypt secrets":
\* whenever a State takes an active member out of the document, be it the wrong
\* one or a late one, what is left is under a DEK that did not exist before: no
\* change of members slips through as a save.
RemovalRotates ==
    [][Applies /\ ~stale /\ ~mixed /\ (\E m \in Gone : doc.wraps[m] # 0) =>
          deks < dek' /\ Uniform(doc', dek')]_vars

\* Saving a secret "overwrites secrets and members but only those that
\* changed": the other secrets stay in the document, at least when the State
\* saved was made from the current one.
SaveKeepsOthers ==
    [][Applies /\ Head(queue).why \in {"add", "edit"} /\ Head(queue).base = state =>
          Lost = {}]_vars
=============================================================================
