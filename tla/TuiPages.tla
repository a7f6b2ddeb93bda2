------------------------------- MODULE TuiPages -------------------------------
(***************************************************************************)
(* The pages of the terminal UI between two keys (cli/src/tui: router.rs,  *)
(* pages, components, state.rs): the home page with its three panes,       *)
(* confirmations and tag-assignment mode, the form of a secret with the    *)
(* completion of tags, the form of a tag, and the page with an invite.     *)
(*                                                                         *)
(* A page changes nothing itself.  It sends the whole State it wants, made *)
(* from the one it was last given, and the loop (TuiSession) makes it the  *)
(* document's; a pull that ends meanwhile gives every page a new State,    *)
(* but what a page has read into its own fields stays as it was.  The      *)
(* invite page also leaves a task behind that sends its State, footer and  *)
(* all, two seconds later, whatever page and State there are by then.      *)
(*                                                                         *)
(* The text of tags is taken apart at commas into words, blank ones too;   *)
(* nothing keeps commas out of the name given to a tag on its own form, so *)
(* a tag is a sequence of words.  A secret has two fields, one for name,   *)
(* value and description, which are treated alike, and its tags.           *)
(***************************************************************************)
EXTENDS Naturals, Sequences, FiniteSets, SequencesExt

CONSTANTS
    Secrets,    \* secret ids, in the order they are listed in
    Tags,       \* tags, in their order; each a sequence of words
    Word,       \* words: what is between two commas
    Blank,      \* nothing between two commas
    StartsWith(_, _), \* tag t starts with the text of word w
    Value,      \* what the text of a field may be
    Members,    \* member ids, in the order they are listed in
    Me,         \* the member who runs the UI
    Opening,    \* what the secrets may be at first
    Pulled,     \* what a secret may be after a change made elsewhere
    MaxTokens,  \* bound: words typed into the tags field
    MaxSaves,   \* bound: changes of the document sent by pages
    MaxFilter,  \* bound: tags in the filter
    MaxSyncs,   \* bound: pulls that bring a change
    MaxTimers   \* bound: tasks of the invite page asleep at once

NoTag == <<>>
NoId == 0
Tag == ToSet(Tags)
Field == {"text", "tags"}
Entry == [text : Value, tags : Seq(Tag)]

ASSUME PagesAssumption ==
    /\ \A list \in {Secrets, Members} : list \in Seq(ToSet(list))
    /\ Tags \in Seq(Tag) /\ Tag \subseteq Seq(Word) \ {<<>>} /\ \A w \in Word : <<w>> \in Tag
    /\ Blank \notin Word /\ NoId \notin ToSet(Secrets) /\ Me \in ToSet(Members)
    /\ "" \in Value /\ "none" \notin Value
    /\ \A o \in Opening : DOMAIN o \subseteq ToSet(Secrets) /\ o \in [DOMAIN o -> Entry]
    /\ Pulled \subseteq Entry
    /\ MaxTokens \in Nat \ {0} /\ MaxSaves \in Nat /\ MaxFilter \in Nat
    /\ MaxSyncs \in Nat /\ MaxTimers \in Nat

VARIABLES
    state,     \* the State of the loop and of the page
    page,      \* current_page
    queue,     \* the actions channel
    draining,  \* the loop is within the drain of the queue
    timers,    \* what the sleeping tasks of the invite page will send
    saves, syncs,
    masked     \* history: the footer was replaced with a confirmation pending

vars == <<state, page, queue, draining, timers, saves, syncs, masked>>

-----------------------------------------------------------------------------
(***************************************************************************)
(* State (state.rs)                                                        *)
(***************************************************************************)
\* The elements of s that are in T, in their order.
Only(s, T) == FlattenSeq([i \in DOMAIN s |-> IF s[i] \in T THEN <<s[i]>> ELSE <<>>])

TagsOf(s) == ToSet(s.tags)
UsedTags(st) == UNION {TagsOf(st.secrets[s]) : s \in DOMAIN st.secrets}
tags(st) == Only(Tags, UsedTags(st))
members(st) == Only(Members, st.members)

Passes(st, s) == st.filter = {} \/ TagsOf(st.secrets[s]) \cap st.filter # {}
filtered_secrets(st) == Only(Secrets, {s \in DOMAIN st.secrets : Passes(st, s)})

Hinted(st) == [st EXCEPT !.warning = FALSE]
Warned(st) == [st EXCEPT !.warning = TRUE]

WithSecret(st, s, e) ==
    [st EXCEPT !.secrets = [x \in DOMAIN @ \cup {s} |-> IF x = s THEN e ELSE @[x]]]

\* with_secret_updated: nothing, when the secret is gone.
WithUpdated(st, s, e) == IF s \in DOMAIN st.secrets THEN WithSecret(st, s, e) ELSE st

WithDeleted(st, S) ==
    [st EXCEPT !.secrets = [x \in DOMAIN @ \ S |-> @[x]]]

WithTags(st, ts) ==
    [st EXCEPT !.secrets = [s \in DOMAIN @ |-> [@[s] EXCEPT !.tags = ts[s]]]]

Renamed(st, old, new) ==
    WithTags(st, [s \in DOMAIN st.secrets |-> ReplaceAll(st.secrets[s].tags, old, new)])
Dropped(ts, t) == Only(ts, ToSet(ts) \ {t})

\* Mutant: the filter keeps the old name.
WithRenamed_OldFilter(st, old, new) == Renamed(st, old, new)

WithRenamed(st, old, new) ==
    [Renamed(st, old, new) EXCEPT
        !.filter = IF old \in @ THEN (@ \ {old}) \cup {new} ELSE @]

WithTagDeleted(st, t) ==
    [WithTags(st, [s \in DOMAIN st.secrets |-> Dropped(st.secrets[s].tags, t)]) EXCEPT
        !.filter = @ \ {t}]

\* with_tag_assignments
WithAssigned(st, t, chosen) ==
    WithTags(st, [s \in DOMAIN st.secrets |-> LET ts == st.secrets[s].tags IN
        CASE s \in chosen /\ t \notin ToSet(ts) -> Append(ts, t)
          [] s \notin chosen -> Dropped(ts, t)
          [] OTHER -> ts])

-----------------------------------------------------------------------------
(***************************************************************************)
(* Pages                                                                   *)
(***************************************************************************)
NoConfirm == <<"none">>

Home == [kind |-> "home", focus |-> "secrets", sec_idx |-> 0, tag_idx |-> 0,
         member_idx |-> 0, confirm |-> NoConfirm, editing_tag |-> NoTag,
         chosen |-> {}, toggled |-> {}, seen |-> <<>>]

Carrying(st, t) == {s \in DOMAIN st.secrets : t \in TagsOf(st.secrets[s])}

\* Mutant: only the secrets on the screen are looked at.
Assigning_Shown(p, st, t) ==
    [p EXCEPT !.editing_tag = t, !.chosen = Carrying(st, t) \cap ToSet(filtered_secrets(st)),
              !.toggled = {}, !.seen = st.secrets, !.focus = "secrets"]

\* Tag-assignment mode; chosen is ts_selected_ids.
Assigning(p, st, t) ==
    [p EXCEPT !.editing_tag = t, !.chosen = Carrying(st, t),
              !.toggled = {}, !.seen = st.secrets, !.focus = "secrets"]

Form(id, e, st) ==
    [kind |-> "secret", id |-> id, mode |-> "normal", focused |-> "text", text |-> e.text,
     tokens |-> IF e.tags = <<>> THEN <<Blank>> ELSE FlattenSeq(e.tags),
     matches |-> <<>>, idx |-> 0, touched |-> {}, seen |-> st.secrets]

TagForm(old, name) == [kind |-> "tag", old |-> old, name |-> name]

Invite == [kind |-> "invite"]

NoSecret == [text |-> "", tags |-> <<>>]

\* Router::navigate
Opened(route, st) ==
    CASE route[1] = "Home" -> Home
      [] route[1] = "HomeWithTagAssignment" -> Assigning(Home, st, route[2])
      [] route[1] = "NewSecret" -> Form(NoId, NoSecret, st)
      [] route[1] = "EditSecret" -> Form(route[2],
             IF route[2] \in DOMAIN st.secrets THEN st.secrets[route[2]] ELSE NoSecret, st)
      [] route[1] = "NewTag" -> TagForm(NoTag, <<>>)
      [] route[1] = "EditTag" -> TagForm(route[2], route[2])
      [] route[1] = "Invite" -> Invite

AtMost(i, n) == IF i < n THEN i ELSE n
Last0(n) == IF n = 0 THEN 0 ELSE n - 1

\* Where update leaves the cursors of the lists; row 0 of the tags is "All".
SecIdx(i, st) == AtMost(i, Last0(Len(filtered_secrets(st))))
TagIdx(i, st) == AtMost(i, Len(tags(st)))
MemberIdx(i, st) == AtMost(i, Last0(Len(members(st))))

\* Mutant: the cursor of the tags is left where it was.
Updated_NoTags(p, st) ==
    IF p.kind # "home" THEN p
    ELSE [p EXCEPT !.sec_idx = SecIdx(@, st), !.member_idx = MemberIdx(@, st)]

\* Component::update
Updated(p, st) ==
    IF p.kind # "home" THEN p
    ELSE [p EXCEPT !.sec_idx = SecIdx(@, st), !.tag_idx = TagIdx(@, st),
                   !.member_idx = MemberIdx(@, st)]

-----------------------------------------------------------------------------
(***************************************************************************)
(* What keys send.  A State to apply comes with the State it was made      *)
(* from (base), the secrets as the page had read them (seen), the fields    *)
(* the user asked to change (touched) and the tags to go (retired).        *)
(***************************************************************************)
Retire(why, touched, retired, new) ==
    [why |-> why, base |-> state, touched |-> touched, seen |-> state.secrets,
     retired |-> retired, state |-> new]
Send(why, touched, seen, new) == [Retire(why, touched, {}, new) EXCEPT !.seen = seen]
Hint(new) == Retire("hint", {}, {}, new)
Go(route) == [why |-> "go", route |-> route]

\* The invite page's State without its message, to be sent late.
Late == Retire("late", {}, {}, state)

\* Keys are read after the drain; only a task that woke up since may have sent.
Pressed(p, items) ==
    /\ ~draining /\ \A i \in DOMAIN queue : queue[i].why = "late"
    /\ page' = p
    /\ queue' = queue \o items
    /\ UNCHANGED <<state, draining, syncs>>

Key(p, items) == Pressed(p, items) /\ UNCHANGED timers

Free == UNCHANGED <<saves, masked>>
Saving == saves < MaxSaves /\ saves' = saves + 1
ToSave == saves < MaxSaves /\ Free   \* of a key that begins a change

TypeOK ==
    /\ \A s \in DOMAIN state.secrets : s \in ToSet(Secrets) /\ state.secrets[s] \in Entry
    /\ state.filter \subseteq Tag /\ state.members \subseteq ToSet(Members)
    /\ page.kind = "home" =>
        /\ page.focus \in {"secrets", "tags", "members"}
        /\ page.editing_tag \in Tag \cup {NoTag}
        /\ page.chosen \subseteq ToSet(Secrets)
    /\ page.kind = "secret" =>
        /\ page.mode \in {"normal", "edit", "confirm"}
        /\ page.text \in Value /\ page.tokens \in Seq(Word \cup {Blank})
        /\ page.idx \in 0 .. Len(page.matches)
    /\ draining => queue # <<>>

-----------------------------------------------------------------------------
(***************************************************************************)
(* The home page: assignment mode and confirmations come first             *)
(***************************************************************************)
AtHome == page.kind = "home"
InAssignment == AtHome /\ page.editing_tag # NoTag /\ page.focus = "secrets"
Asked(what) == AtHome /\ page.confirm[1] = what
Idle == AtHome /\ page.confirm = NoConfirm

LeftAssignment ==
    [page EXCEPT !.editing_tag = NoTag, !.chosen = {}, !.toggled = {}, !.seen = <<>>,
                 !.focus = "tags"]

\* [Enter]
SaveAssignment ==
    /\ InAssignment /\ Saving
    /\ Key(LeftAssignment,
           <<Send("assign", page.toggled \X {"tags"}, page.seen,
                  Hinted(WithAssigned(state, page.editing_tag, page.chosen)))>>)
    /\ masked' = (page.confirm # NoConfirm)

\* [Esc]
CancelAssignment ==
    /\ InAssignment
    /\ Key(LeftAssignment, <<Hint(Hinted(state))>>)
    /\ masked' = (page.confirm # NoConfirm)
    /\ UNCHANGED saves

Answered == [page EXCEPT !.confirm = NoConfirm]
Back(i) == IF i > 0 THEN i - 1 ELSE 0

ConfirmTagDelete ==
    /\ Asked("tag") /\ Saving /\ masked' = FALSE
    /\ Key([Answered EXCEPT !.tag_idx = Back(@)],
           <<Retire("untag", Carrying(state, page.confirm[2]) \X {"tags"}, {page.confirm[2]},
                    Hinted(WithTagDeleted(state, page.confirm[2])))>>)

ConfirmSecretDelete ==
    /\ Asked("secret") /\ Saving /\ masked' = FALSE
    /\ Key([Answered EXCEPT !.sec_idx = Back(@)],
           <<Send("delete", {page.confirm[2]} \X Field, state.secrets,
                  Hinted(WithDeleted(state, {page.confirm[2]})))>>)

ConfirmMemberDelete ==
    /\ Asked("member") /\ Saving /\ masked' = FALSE
    /\ Key([Answered EXCEPT !.member_idx = Back(@)],
           <<Send("remove", {}, state.secrets,
                  Hinted([state EXCEPT !.members = @ \ {page.confirm[2]}]))>>)

\* A rotation or a grant leaves the State as it is here, and so does a
\* compaction, after which the question stays in the footer.
ConfirmCompact ==
    /\ Asked("compact") /\ masked' = FALSE /\ UNCHANGED saves
    /\ Key(Answered, <<>>)

ConfirmOther ==
    /\ Asked("other") /\ masked' = FALSE /\ UNCHANGED saves
    /\ Key(Answered, <<Hint(Hinted(state))>>)

Decline ==
    /\ AtHome /\ ~Idle /\ masked' = FALSE /\ UNCHANGED saves
    /\ Key(Answered, <<Hint(Hinted(state))>>)

-----------------------------------------------------------------------------
(***************************************************************************)
(* The home page: panes                                                    *)
(***************************************************************************)
Steps(i, last) == {i - 1, i + 1} \cap 0 .. last

\* [Up], [Down]
MoveCursor ==
    /\ Idle /\ Free
    /\ \/ /\ page.focus = "secrets"
          /\ \E i \in Steps(page.sec_idx, Last0(Len(filtered_secrets(state)))) :
                Key([page EXCEPT !.sec_idx = i], <<>>)
       \/ /\ page.focus = "tags"
          /\ \E i \in Steps(page.tag_idx, Len(tags(state))) :
                Key([page EXCEPT !.tag_idx = i], <<>>)
       \/ /\ page.focus = "members"
          /\ \E i \in Steps(page.member_idx, Last0(Len(members(state)))) :
                Key([page EXCEPT !.member_idx = i], <<>>)

\* The thing under a cursor, as a set.
CurrentSecret ==
    {filtered_secrets(state)[i] : i \in {page.sec_idx + 1} \cap DOMAIN filtered_secrets(state)}
CurrentTag == {tags(state)[i] : i \in {page.tag_idx} \cap DOMAIN tags(state)}
CurrentMember ==
    {members(state)[i] : i \in {page.member_idx + 1} \cap DOMAIN members(state)}

Flip(S, x) == IF x \in S THEN S \ {x} ELSE S \cup {x}

\* [Space]
ToggleAssignment ==
    /\ Idle /\ InAssignment /\ Free
    /\ \E s \in CurrentSecret :
        Key([page EXCEPT !.chosen = Flip(@, s), !.toggled = @ \cup {s}], <<>>)

\* [Tab]
SwitchPane ==
    /\ Idle /\ page.editing_tag = NoTag /\ Free
    /\ Key([page EXCEPT !.focus =
               CASE @ = "members" -> "secrets"
                 [] @ = "secrets" /\ DOMAIN state.secrets # {} -> "tags"
                 [] OTHER -> "members"],
           <<Hint(Hinted(state))>>)

\* [n], [e], [i]
Leave ==
    /\ Idle /\ ToSave
    /\ \/ page.focus = "secrets" /\ Key(page, <<Go(<<"NewSecret">>)>>)
       \/ page.focus = "tags" /\ Key(page, <<Go(<<"NewTag">>)>>)
       \/ page.focus = "secrets" /\ \E s \in CurrentSecret : Key(page, <<Go(<<"EditSecret", s>>)>>)
       \/ page.focus = "tags" /\ \E t \in CurrentTag : Key(page, <<Go(<<"EditTag", t>>)>>)
       \/ page.focus = "members" /\ Key(page, <<Go(<<"Invite">>)>>)

Ask(confirm) == Key([page EXCEPT !.confirm = confirm], <<Hint(Warned(state))>>)

\* [d], [X], [r], [g]
AskConfirmation ==
    /\ Idle /\ ToSave
    /\ \/ page.focus = "secrets" /\ \E s \in CurrentSecret : Ask(<<"secret", s>>)
       \/ page.focus = "tags" /\ \E t \in CurrentTag : Ask(<<"tag", t>>)
       \/ page.focus = "members" /\ \E m \in CurrentMember \ {Me} : Ask(<<"member", m>>)
       \/ page.focus = "members" /\ Ask(<<"other">>)
       \/ Ask(<<"compact">>)

\* [a]
StartAssignment ==
    /\ Idle /\ page.focus = "tags" /\ ToSave
    /\ \E t \in CurrentTag : Key(Assigning(page, state, t), <<Hint(Hinted(state))>>)

\* [f]: on "All" every filter goes.
ToggleFilter ==
    /\ Idle /\ page.focus = "tags" /\ Free
    /\ \E f \in IF page.tag_idx = 0 THEN {{}} ELSE {Flip(state.filter, t) : t \in CurrentTag} :
        /\ Cardinality(f) <= MaxFilter
        /\ Key([page EXCEPT !.focus = "secrets"],
               <<Hint(Hinted(state)), Send("filter", {}, state.secrets, [state EXCEPT !.filter = f])>>)

-----------------------------------------------------------------------------
(***************************************************************************)
(* The form of a secret                                                    *)
(***************************************************************************)
InForm(mode) == page.kind = "secret" /\ page.mode = mode
OnTags == page.focused = "tags"

\* What update_tag_ac offers for a text.
Matches(tokens, st) ==
    Only(tags(st), {t \in Tag :
        /\ t \notin {<<w>> : w \in ToSet(tokens)}
        /\ Last(tokens) = Blank \/ StartsWith(t, Last(tokens))})

Completing(p) ==
    IF p.focused = "tags" /\ p.mode = "edit"
    THEN LET m == Matches(p.tokens, state)
         IN [p EXCEPT !.matches = m, !.idx = AtMost(@, Len(m))]
    ELSE [p EXCEPT !.matches = <<>>, !.idx = 0]

Typed(p, field) == [p EXCEPT !.touched = @ \cup {field}]

SwitchField ==
    /\ InForm("normal") /\ Free
    /\ \E f \in Field \ {page.focused} : Key(Completing([page EXCEPT !.focused = f]), <<>>)

StartEditing ==
    /\ InForm("normal") /\ Free
    /\ Key([page EXCEPT !.mode = "edit"], <<Hint(Hinted(state))>>)

\* [d]
ClearField ==
    /\ InForm("normal") /\ Free
    /\ Key(Completing(IF OnTags THEN Typed([page EXCEPT !.tokens = <<Blank>>], "tags")
                                ELSE Typed([page EXCEPT !.text = ""], "text")), <<>>)

AskSave == InForm("normal") /\ Free /\ Key([page EXCEPT !.mode = "confirm"], <<>>)

\* [Esc], and [Enter] in a field of one line.
StopEditing ==
    /\ InForm("edit") /\ Free
    /\ Key([page EXCEPT !.mode = "normal", !.idx = 0], <<Hint(Hinted(state))>>)

TypeText == \E v \in Value :
    /\ InForm("edit") /\ ~OnTags /\ Free
    /\ Key(Typed([page EXCEPT !.text = v], "text"), <<>>)

Texts == UNION {[1 .. n -> Word \cup {Blank}] : n \in 1 .. MaxTokens}

TypeTags ==
    /\ InForm("edit") /\ OnTags /\ Free
    /\ \E t \in Texts \cup {page.tokens} : Key(Completing(IF t = page.tokens THEN [page EXCEPT !.idx = 0]
                      ELSE Typed([page EXCEPT !.tokens = t, !.idx = 0], "tags")), <<>>)

\* Mutant: [Down] goes past the end of the list.
Browse_Over ==
    /\ InForm("edit") /\ OnTags /\ Free
    /\ \/ page.matches # <<>> /\ Key([page EXCEPT !.idx = @ + 1], <<>>)
       \/ page.idx > 0 /\ Key([page EXCEPT !.idx = @ - 1], <<>>)

\* [Down], [Up] in the list of completions.
Browse ==
    /\ InForm("edit") /\ OnTags /\ Free
    /\ \/ page.matches # <<>> /\ Key([page EXCEPT !.idx = AtMost(@ + 1, Len(page.matches))], <<>>)
       \/ page.idx > 0 /\ Key([page EXCEPT !.idx = @ - 1], <<>>)

\* insert_ac_tag: the selected tag takes the place of the last word.
Inserted(tokens, t) ==
    (IF Front(tokens) = <<Blank>> THEN <<>> ELSE Front(tokens)) \o Append(t, Blank)

Accepted == [page EXCEPT !.tokens = Inserted(@, page.matches[page.idx]), !.idx = 0]

\* Mutant: the list of completions is kept.
Accept_Keep ==
    /\ InForm("edit") /\ OnTags /\ page.idx > 0 /\ Free
    /\ Len(Accepted.tokens) <= MaxTokens + 1
    /\ Key(Typed(Accepted, "tags"), <<>>)

\* [Enter] on a completion.
Accept ==
    /\ InForm("edit") /\ OnTags /\ page.idx > 0 /\ Free
    /\ Len(Accepted.tokens) <= MaxTokens + 1
    /\ Key(Completing(Typed(Accepted, "tags")), <<>>)

\* split_tags
Split(tokens) == LET ws == Only(tokens, Word) IN [i \in DOMAIN ws |-> <<ws[i]>>]

Submit == LET e == [text |-> page.text, tags |-> Split(page.tokens)] IN
    /\ InForm("confirm") /\ Saving /\ UNCHANGED masked
    /\ IF page.id # NoId
       THEN Key(page, <<Send("edit", {page.id} \X page.touched, page.seen,
                             WithUpdated(state, page.id, e)), Go(<<"Home">>)>>)
       ELSE \E s \in ToSet(Secrets) \ (DOMAIN state.secrets \cup DOMAIN page.seen) :
            Key(page, <<Send("add", {s} \X Field, page.seen, WithSecret(state, s, e)),
                        Go(<<"Home">>)>>)

Discard == InForm("confirm") /\ Free /\ Key(page, <<Go(<<"Home">>)>>)
KeepEditing == InForm("confirm") /\ Free /\ Key([page EXCEPT !.mode = "normal"], <<>>)

-----------------------------------------------------------------------------
(***************************************************************************)
(* The form of a tag                                                       *)
(***************************************************************************)
TypeName == \E n \in Tag \cup {<<>>} :
    page.kind = "tag" /\ Free /\ Key([page EXCEPT !.name = n], <<>>)

\* [Esc]; [Enter] with no name, or with the old one.
CloseTagForm == page.kind = "tag" /\ Free /\ Key(page, <<Go(<<"Home">>)>>)

RenameTag ==
    /\ page.kind = "tag" /\ page.old # NoTag /\ page.name \notin {<<>>, page.old}
    /\ Saving /\ UNCHANGED masked
    /\ Key(page, <<Retire("rename", Carrying(state, page.old) \X {"tags"}, {page.old},
                          WithRenamed(state, page.old, page.name)), Go(<<"Home">>)>>)

NewTag ==
    /\ page.kind = "tag" /\ page.old = NoTag /\ page.name # <<>> /\ Free
    /\ Key(page, <<Go(<<"HomeWithTagAssignment", page.name>>)>>)

-----------------------------------------------------------------------------
(***************************************************************************)
(* The page with an invite                                                 *)
(***************************************************************************)
\* [c]: "copied" now, and a task that takes it back.
CopyToken ==
    /\ page.kind = "invite" /\ Cardinality(timers) < MaxTimers /\ Free
    /\ Pressed(page, <<Hint(state)>>)
    /\ timers' = timers \cup {Late}

CloseInvite == page.kind = "invite" /\ Free /\ Key(page, <<Go(<<"Home">>)>>)

TimerFires == \E i \in timers :
    /\ queue' = Append(queue, i)
    /\ timers' = timers \ {i}
    /\ UNCHANGED <<state, page, draining, syncs>> /\ Free

-----------------------------------------------------------------------------
(***************************************************************************)
(* The loop                                                                *)
(***************************************************************************)
\* The document takes over every difference: the State becomes the new one.
SetState ==
    /\ queue # <<>> /\ Head(queue).why # "go"
    /\ state' = Head(queue).state
    /\ page' = Updated(page, state')
    /\ queue' = Tail(queue)
    /\ draining' = (Len(queue) > 1)
    /\ masked' = (masked \/ (Head(queue).why = "late" /\ AtHome /\ ~Idle))
    /\ UNCHANGED <<timers, saves, syncs>>

NavigateTo ==
    /\ queue # <<>> /\ Head(queue).why = "go"
    /\ page' = Opened(Head(queue).route, state)
    /\ queue' = Append(Tail(queue), Hint(Hinted(state)))
    /\ draining' = TRUE
    /\ masked' = FALSE
    /\ UNCHANGED <<state, timers, saves, syncs>>

Received(st) ==
    {WithDeleted(st, {s}) : s \in DOMAIN st.secrets}
    \cup {WithSecret(st, s, e) : s \in ToSet(Secrets), e \in Pulled}
    \cup {[st EXCEPT !.members = {Me}]}

\* Mutant: the derived State starts with a footer of its own.
SyncDone_NewFooter ==
    /\ ~draining /\ syncs < MaxSyncs /\ syncs' = syncs + 1
    /\ state' \in Received(Hinted(state))
    /\ page' = Updated(page, state')
    /\ UNCHANGED <<queue, draining, timers, saves, masked>>

\* A pull has ended and brought a change.
SyncDone ==
    /\ ~draining /\ syncs < MaxSyncs /\ syncs' = syncs + 1
    /\ state' \in Received(state)
    /\ page' = Updated(page, state')
    /\ UNCHANGED <<queue, draining, timers, saves, masked>>

Init ==
    /\ state \in [secrets : Opening, filter : {{}}, members : {ToSet(Members)},
                  warning : {FALSE}]
    /\ page = Home
    /\ queue = <<>> /\ draining = FALSE
    /\ timers = {} /\ saves = 0 /\ syncs = 0 /\ masked = FALSE

HomeKey ==
    \/ SaveAssignment \/ CancelAssignment
    \/ ConfirmTagDelete \/ ConfirmSecretDelete \/ ConfirmMemberDelete
    \/ ConfirmCompact \/ ConfirmOther \/ Decline
    \/ MoveCursor \/ ToggleAssignment \/ SwitchPane \/ Leave \/ AskConfirmation
    \/ StartAssignment \/ ToggleFilter

SecretFormKey ==
    \/ SwitchField \/ StartEditing \/ ClearField \/ AskSave
    \/ StopEditing \/ TypeText \/ TypeTags \/ Browse \/ Accept
    \/ Submit \/ Discard \/ KeepEditing

TagFormKey == TypeName \/ CloseTagForm \/ RenameTag \/ NewTag

InviteKey == CopyToken \/ CloseInvite

Next ==
    \/ HomeKey \/ SecretFormKey \/ TagFormKey \/ InviteKey
    \/ TimerFires \/ SetState \/ NavigateTo \/ SyncDone

Spec == Init /\ [][Next]_vars

-----------------------------------------------------------------------------
(***************************************************************************)
(* Properties                                                              *)
(***************************************************************************)
Content(st, s) ==
    IF s \in DOMAIN st.secrets THEN st.secrets[s] ELSE [text |-> "none", tags |-> <<>>]

\* A State applied to the one it was made from; the invite page's late one may
\* undo what was done meanwhile (TuiSession).
Applies == queue # <<>> /\ Head(queue).why # "go" /\ Head(queue).base = state /\ SetState

\* A page sends whole secrets, yet a save changes no field but those the user
\* asked to change and those that a pull changed after the page had read them.
\* Tags with a comma in their name are the exception: the form takes them apart
\* (secret_form.rs:142 with router.rs:63, state.rs:159-234).
OnlyTouched == [][Applies =>
    \A s \in ToSet(Secrets), f \in Field :
        \/ Content(state', s)[f] = Content(state, s)[f]
        \/ <<s, f>> \in Head(queue).touched
        \/ Content(state, s)[f] # Content([secrets |-> Head(queue).seen], s)[f]
        \/ f = "tags" /\ \E t \in TagsOf(Content(state, s)) : Len(t) > 1]_vars

\* Renaming or deleting a tag leaves it on no secret and in no filter, and
\* renaming hides no secret that the filter showed (state.rs:184-206).
TagOpsComplete == [][Applies =>
    /\ Head(queue).retired \cap (UsedTags(state') \cup state'.filter) = {}
    /\ Head(queue).why = "rename" =>
        ToSet(filtered_secrets(state)) \subseteq ToSet(filtered_secrets(state'))]_vars

\* Completions always belong to the text beside them: none is there already and
\* each continues the last word, also after a pull, a cleared field or a return
\* to the field (update_tag_ac is called by some keys and not by others).
MatchesFitText == page.kind = "secret" =>
    \A i \in DOMAIN page.matches :
        /\ page.matches[i] \notin {<<w>> : w \in ToSet(page.tokens)}
        /\ Last(page.tokens) = Blank \/ StartsWith(page.matches[i], Last(page.tokens))

\* However lists shrink by deletions, filters and pulls, each cursor is on a row
\* that exists (the components' update, home.rs:235-292).
NoDeadCursor == page.kind = "home" =>
    /\ page.sec_idx <= Last0(Len(filtered_secrets(state)))
    /\ page.tag_idx <= Len(tags(state))
    /\ page.member_idx <= Last0(Len(members(state)))

\* The footer shows the question while a confirmation waits for its answer,
\* whatever hints and pulls come in between: the keys that would be commands do
\* nothing then.  Twice the warning goes and the question stays: when assignment
\* mode is left meanwhile, whose [Enter] and [Esc] come first (home.rs:206-228),
\* and when the late State of the invite page brings back its footer (invite.rs:
\* 118-124, mod.rs:171-174).
QuestionShown == queue = <<>> /\ ~masked /\ page.kind = "home" =>
    page.confirm = NoConfirm \/ state.warning
===============================================================================
