---------------------------- MODULE TuiPages_proofs ----------------------------
(***************************************************************************)
(* What a page of the terminal UI sends changes no more than was asked     *)
(* for; renaming or deleting a tag is complete; completions fit the text,  *)
(* cursors are on rows that exist, and a question stays in the footer.     *)
(* For any secrets, tags, members, texts and pulls.                        *)
(*                                                                         *)
(* The invariant says of every change in the queue what it may differ in   *)
(* from the State it was made from.  That rests on what a page remembers:  *)
(* a form holds, in the fields not yet touched, what it read when it was   *)
(* opened, and assignment mode has marked, but for the toggled secrets,    *)
(* those that carried the tag then.                                        *)
(***************************************************************************)
EXTENDS TuiPages, SequenceLemmas

-----------------------------------------------------------------------------
(***************************************************************************)
(* The elements of a sequence that are in a set, and the text of tags      *)
(***************************************************************************)

\* The elements of a sequence with one more behind it.
LEMMA ToSetAppend ==
    ASSUME NEW S, NEW s \in Seq(S), NEW x \in S
    PROVE  ToSet(Append(s, x)) = ToSet(s) \cup {x}
<1> DEFINE n == Len(s)
           t == Append(s, x)
<1>1. n \in Nat /\ DOMAIN s = 1 .. n /\ DOMAIN t = 1 .. n + 1
  BY LenProperties, AppendProperties
<1>2. \A i \in 1 .. n : t[i] = s[i]
  BY AppendProperties
<1>3. t[n + 1] = x
  BY AppendProperties
<1> HIDE DEF n, t
<1>4. ToSet(t) \subseteq ToSet(s) \cup {x}
  <2> SUFFICES ASSUME NEW i \in 1 .. n + 1
               PROVE  t[i] \in ToSet(s) \cup {x}
    BY <1>1 DEF ToSet
  <2>1. CASE i = n + 1
    BY <1>3, <2>1
  <2>2. CASE i \in 1 .. n
    BY <1>1, <1>2, <2>2 DEF ToSet
  <2> QED
    BY <1>1, <2>1, <2>2
<1>5. ToSet(s) \cup {x} \subseteq ToSet(t)
  <2>1. \A i \in 1 .. n : i \in 1 .. n + 1
    BY <1>1
  <2>2. \A i \in 1 .. n : s[i] \in ToSet(t)
    BY <1>1, <1>2, <2>1 DEF ToSet
  <2>3. n + 1 \in 1 .. n + 1
    BY <1>1
  <2>4. x \in ToSet(t)
    BY <1>1, <1>3, <2>3 DEF ToSet
  <2> QED
    BY <1>1, <2>2, <2>4 DEF ToSet
<1> QED
  BY <1>4, <1>5 DEF t

\* An element more is kept or left out.
LEMMA OnlyAppend ==
    ASSUME NEW S, NEW s \in Seq(S), NEW x \in S, NEW T
    PROVE  /\ Only(s, T) \in Seq(S)
           /\ Only(Append(s, x), T) = IF x \in T THEN Append(Only(s, T), x) ELSE Only(s, T)
<1> DEFINE One(y) == IF y \in T THEN <<y>> ELSE <<>>
           n == Len(s)
           t == Append(s, x)
           a == [i \in 1 .. n |-> One(s[i])]
           b == [i \in 1 .. n + 1 |-> One(t[i])]
           c == Append(a, One(x))
<1>1. n \in Nat /\ DOMAIN s = 1 .. n /\ DOMAIN t = 1 .. n + 1
  BY LenProperties, AppendProperties
<1>2. (\A i \in 1 .. n : s[i] \in S /\ t[i] = s[i]) /\ t[n + 1] = x
  BY ElementOfSeq, AppendProperties
<1>3. Only(s, T) = FlattenSeq(a) /\ Only(t, T) = FlattenSeq(b)
  BY <1>1 DEF Only
<1>4. \A y \in S : One(y) \in Seq(S)
  OBVIOUS
<1> HIDE DEF One, n, t
<1>5. a \in Seq(Seq(S)) /\ Len(a) = n /\ b \in Seq(Seq(S)) /\ Len(b) = n + 1
  <2>1. \A i \in 1 .. n : One(s[i]) \in Seq(S)
    BY <1>2, <1>4
  <2>2. \A i \in 1 .. n + 1 : One(t[i]) \in Seq(S)
    <3> SUFFICES ASSUME NEW i \in 1 .. n + 1
                 PROVE  One(t[i]) \in Seq(S)
      OBVIOUS
    <3>1. i = n + 1 \/ i \in 1 .. n
      BY <1>1
    <3> QED
      BY <1>2, <1>4, <3>1
  <2> QED
    BY <1>1, <2>1, <2>2
<1>6. c \in Seq(Seq(S)) /\ Len(c) = n + 1 /\ c[n + 1] = One(x) /\ \A i \in 1 .. n : c[i] = a[i]
  <2>1. One(x) \in Seq(S)
    BY <1>4
  <2> HIDE DEF a
  <2> QED
    BY <1>5, <2>1, AppendProperties
<1>7. b = c
  <2>1. \A i \in 1 .. n + 1 : b[i] = c[i]
    <3> SUFFICES ASSUME NEW i \in 1 .. n + 1
                 PROVE  b[i] = c[i]
      OBVIOUS
    <3>1. CASE i = n + 1
      BY <1>1, <1>2, <1>6, <3>1
    <3>2. CASE i \in 1 .. n
      <4>1. b[i] = One(t[i]) /\ a[i] = One(s[i])
        BY <3>2
      <4> HIDE DEF a, b, c
      <4> QED
        BY <1>2, <1>6, <3>2, <4>1
    <3> QED
      BY <1>1, <3>1, <3>2
  <2> HIDE DEF a, b, c
  <2> QED
    BY <1>1, <1>5, <1>6, <2>1
<1>8. FlattenSeq(a) \in Seq(S) /\ FlattenSeq(c) = FlattenSeq(a) \o One(x)
  <2>1. One(x) \in Seq(S)
    BY <1>4
  <2> HIDE DEF a
  <2> QED
    BY <1>5, <2>1, FlattenAppend
<1> HIDE DEF a, b, c
<1> DEFINE u == FlattenSeq(a)
<1>9. u \o One(x) = IF x \in T THEN Append(u, x) ELSE u
  <2>1. u \in Seq(S)
    BY <1>8
  <2> HIDE DEF u
  <2>2. u \o <<x>> = Append(u, x) /\ u \o <<>> = u
    BY <2>1
  <2> QED
    BY <2>2 DEF One
<1> QED
  BY <1>3, <1>7, <1>8, <1>9 DEF t

LEMMA OnlyEmpty == \A T : Only(<<>>, T) = <<>>
BY DEF Only, FlattenSeq

\* Only(s, T) has the elements of s that are in T, and no other; it is s when
\* that is all of them.
OnlyIs(S, s, T) ==
    /\ Only(s, T) \in Seq(S)
    /\ ToSet(Only(s, T)) = ToSet(s) \cap T
    /\ ToSet(s) \subseteq T => Only(s, T) = s

LEMMA OnlyFacts ==
    ASSUME NEW S, NEW s \in Seq(S), NEW T
    PROVE  OnlyIs(S, s, T)
<1> DEFINE K == {n \in Nat : \A u \in Seq(S) : Len(u) = n => OnlyIs(S, u, T)}
<1>1. 0 \in K
  <2>1. OnlyIs(S, <<>>, T)
    <3>1. ToSet(<<>>) = {} /\ <<>> \in Seq(S)
      BY DEF ToSet
    <3> QED
      BY <3>1, OnlyEmpty DEF OnlyIs
  <2>2. \A u \in Seq(S) : Len(u) = 0 => u = <<>>
    OBVIOUS
  <2> QED
    BY <2>1, <2>2
<1>2. ASSUME NEW n \in K
      PROVE  n + 1 \in K
  <2>1. ASSUME NEW u \in Seq(S), Len(u) = n + 1
        PROVE  OnlyIs(S, u, T)
    <3>1. PICK v \in Seq(S), x \in S : u = Append(v, x)
      <4>1. u # <<>>
        BY <2>1
      <4> QED
        BY <4>1, SequenceEmptyOrAppend
    <3>2. Len(v) = n
      BY <2>1, <3>1, AppendProperties, LenProperties
    <3>3. OnlyIs(S, v, T)
      BY <3>2
    <3>4. Only(u, T) = IF x \in T THEN Append(Only(v, T), x) ELSE Only(v, T)
      BY <3>1, OnlyAppend
    <3>5. ToSet(u) = ToSet(v) \cup {x}
      BY <3>1, ToSetAppend
    <3> DEFINE o == Only(v, T)
    <3>6. o \in Seq(S) /\ ToSet(o) = ToSet(v) \cap T /\ (ToSet(v) \subseteq T => o = v)
      BY <3>3 DEF OnlyIs
    <3> HIDE DEF o
    <3>7. ToSet(Append(o, x)) = ToSet(o) \cup {x} /\ Append(o, x) \in Seq(S)
      BY <3>6, ToSetAppend, AppendProperties
    <3>8. Only(u, T) = IF x \in T THEN Append(o, x) ELSE o
      BY <3>4 DEF o
    <3> QED
      BY <3>1, <3>5, <3>6, <3>7, <3>8 DEF OnlyIs
  <2> QED
    BY <2>1
<1>3. K = Nat
  <2> HIDE DEF K
  <2>1. K \in SUBSET Nat
    BY DEF K
  <2> QED
    BY <1>1, <1>2, <2>1, NatSet
<1>4. Len(s) \in Nat
  OBVIOUS
<1> QED
  BY <1>3, <1>4

\* What a form reads from tags of one word each is what it writes back.
LEMMA SplitWords ==
    ASSUME NEW ts \in Seq(Tag), \A t \in ToSet(ts) : ~ (Len(t) > 1)
    PROVE  Split(FlattenSeq(ts)) = ts
<1> DEFINE n == Len(ts)
           ws == [i \in 1 .. n |-> ts[i][1]]
<1>1. n \in Nat /\ DOMAIN ts = 1 .. n
  BY LenProperties
<1>2. \A i \in 1 .. n : ts[i] = <<ts[i][1]>> /\ ts[i][1] \in Word
  <2> SUFFICES ASSUME NEW i \in 1 .. n
               PROVE  ts[i] = <<ts[i][1]>> /\ ts[i][1] \in Word
    OBVIOUS
  <2>1. ts[i] \in Tag /\ ts[i] \in ToSet(ts)
    BY <1>1 DEF ToSet
  <2>2. ts[i] \in Seq(Word) /\ ts[i] # <<>> /\ ~ (Len(ts[i]) > 1)
    BY <2>1, PagesAssumption
  <2> DEFINE t == ts[i]
  <2>3. t \in Seq(Word) /\ t # <<>> /\ ~ (Len(t) > 1)
    BY <2>2
  <2> HIDE DEF t
  <2>4. Len(t) = 1
    <3> DEFINE k == Len(t)
    <3>1. k \in Nat \ {0}
      BY <2>3, EmptySeq
    <3>2. ~ (k > 1)
      BY <2>3
    <3> HIDE DEF k
    <3>3. k = 1
      BY <3>1, <3>2
    <3> QED
      BY <3>3 DEF k
  <2>5. t = <<t[1]>> /\ t[1] \in Word
    BY <2>3, <2>4
  <2> QED
    BY <2>5 DEF t
<1>3. ws \in Seq(Word) /\ DOMAIN ws = 1 .. n
  BY <1>1, <1>2
<1>4. ts = [i \in 1 .. n |-> IF ws[i] \in Word THEN <<ws[i]>> ELSE <<>>]
  <2>1. \A i \in 1 .. n : ts[i] = IF ws[i] \in Word THEN <<ws[i]>> ELSE <<>>
    BY <1>2
  <2>2. ts = [i \in 1 .. n |-> ts[i]]
    BY <1>1
  <2> QED
    BY <2>1, <2>2
<1>5. FlattenSeq(ts) = Only(ws, Word)
  <2> HIDE DEF ws
  <2> QED
    BY <1>3, <1>4 DEF Only
<1>6. ToSet(ws) \subseteq Word
  BY <1>2 DEF ToSet
<1> DEFINE all == [i \in 1 .. n |-> <<ws[i]>>]
<1>7. ts = all
  <2>1. \A i \in 1 .. n : ts[i] = <<ws[i]>>
    BY <1>2
  <2>2. ts = [i \in 1 .. n |-> ts[i]]
    BY <1>1
  <2> QED
    BY <2>1, <2>2
<1> HIDE DEF ws
<1>8. Only(ws, Word) = ws
  BY <1>3, <1>6, OnlyFacts DEF OnlyIs
<1>9. Split(ws) = all
  BY <1>3, <1>8 DEF Split
<1> QED
  BY <1>5, <1>7, <1>8, <1>9

LEMMA SplitBlank == Split(<<Blank>>) = <<>>
<1>1. <<Blank>> = Append(<<>>, Blank) /\ <<>> \in Seq({Blank})
  OBVIOUS
<1>2. Only(<<Blank>>, Word) = <<>>
  <2> DEFINE e == <<>>
  <2>1. e \in Seq({Blank}) /\ Blank \in {Blank}
    BY <1>1
  <2> HIDE DEF e
  <2>2. Only(Append(e, Blank), Word)
        = IF Blank \in Word THEN Append(Only(e, Word), Blank) ELSE Only(e, Word)
    BY <2>1, OnlyAppend
  <2> QED
    BY <1>1, <2>2, OnlyEmpty, PagesAssumption DEF e
<1> QED
  BY <1>2 DEF Split

-----------------------------------------------------------------------------
(***************************************************************************)
(* States, and the vaults in them                                          *)
(***************************************************************************)

Secret == ToSet(Secrets)
Member == ToSet(Members)
Vault == UNION {[D -> Entry] : D \in SUBSET Secret}
States == [secrets : Vault, filter : SUBSET Tag, members : SUBSET Member, warning : BOOLEAN]
Read(v, s) == Content([secrets |-> v], s)

\* Why a State n sent for b may differ from it in a field of a secret.
Explained(b, n, touched, seen) ==
    \A s \in Secret, f \in Field :
        \/ Content(n, s)[f] = Content(b, s)[f]
        \/ <<s, f>> \in touched
        \/ Content(b, s)[f] # Read(seen, s)[f]
        \/ f = "tags" /\ \E t \in TagsOf(Content(b, s)) : Len(t) > 1

LEMMA VaultIs ==
    ASSUME NEW v
    PROVE  v \in Vault <=> DOMAIN v \subseteq Secret /\ v \in [DOMAIN v -> Entry]
BY DEF Vault

LEMMA StateIs ==
    ASSUME NEW st \in States
    PROVE  /\ st.secrets \in Vault /\ st.filter \in SUBSET Tag
           /\ st.members \in SUBSET Member /\ st.warning \in BOOLEAN
           /\ DOMAIN st.secrets \subseteq Secret
           /\ st.secrets \in [DOMAIN st.secrets -> Entry]
           /\ \A s \in DOMAIN st.secrets : /\ st.secrets[s] \in Entry
                                           /\ st.secrets[s].text \in Value
                                           /\ st.secrets[s].tags \in Seq(Tag)
<1>1. /\ st.secrets \in Vault /\ st.filter \in SUBSET Tag
      /\ st.members \in SUBSET Member /\ st.warning \in BOOLEAN
  BY DEF States
<1>2. DOMAIN st.secrets \subseteq Secret /\ st.secrets \in [DOMAIN st.secrets -> Entry]
  BY <1>1, VaultIs
<1> QED
  BY <1>1, <1>2 DEF Entry

\* Another vault, filter, footer or list of members makes a State again.
LEMMA WithFields ==
    ASSUME NEW st \in States, NEW v \in Vault, NEW f \in SUBSET Tag, NEW w \in BOOLEAN,
           NEW m \in SUBSET Member
    PROVE  /\ [st EXCEPT !.secrets = v] \in States
           /\ [st EXCEPT !.secrets = v].secrets = v
           /\ [st EXCEPT !.secrets = v].filter = st.filter
           /\ [st EXCEPT !.secrets = v].members = st.members
           /\ [st EXCEPT !.secrets = v].warning = st.warning
           /\ [st EXCEPT !.filter = f] \in States
           /\ [st EXCEPT !.filter = f].secrets = st.secrets
           /\ [st EXCEPT !.filter = f].filter = f
           /\ [st EXCEPT !.filter = f].warning = st.warning
           /\ [st EXCEPT !.members = m] \in States
           /\ [st EXCEPT !.members = m].secrets = st.secrets
           /\ [st EXCEPT !.members = m].filter = st.filter
           /\ [st EXCEPT !.members = m].warning = st.warning
           /\ [st EXCEPT !.warning = w] \in States
           /\ [st EXCEPT !.warning = w].secrets = st.secrets
           /\ [st EXCEPT !.warning = w].filter = st.filter
           /\ [st EXCEPT !.warning = w].warning = w
BY DEF States

LEMMA HintFacts ==
    ASSUME NEW st \in States
    PROVE  /\ Hinted(st) \in States /\ Hinted(st).secrets = st.secrets
           /\ Hinted(st).filter = st.filter
           /\ Warned(st) \in States /\ Warned(st).secrets = st.secrets
           /\ Warned(st).filter = st.filter /\ Warned(st).warning
<1>1. FALSE \in BOOLEAN /\ TRUE \in BOOLEAN
  OBVIOUS
<1>2. st.secrets \in Vault /\ st.filter \in SUBSET Tag /\ st.members \in SUBSET Member
  BY StateIs
<1> QED
  BY <1>1, <1>2, WithFields DEF Hinted, Warned

LEMMA ContentIs ==
    ASSUME NEW st \in States, NEW s
    PROVE  /\ s \in DOMAIN st.secrets => /\ Content(st, s) = st.secrets[s]
                                         /\ Content(st, s).text \in Value
                                         /\ Content(st, s).tags \in Seq(Tag)
           /\ s \notin DOMAIN st.secrets => /\ Content(st, s).text = "none"
                                            /\ Content(st, s).tags = <<>>
           /\ TagsOf(Content(st, s)) = IF s \in DOMAIN st.secrets
                                       THEN TagsOf(st.secrets[s]) ELSE {}
           /\ Content(st, s) = Read(st.secrets, s)
<1>1. s \in DOMAIN st.secrets => Content(st, s) = st.secrets[s]
                                 /\ st.secrets[s].text \in Value
                                 /\ st.secrets[s].tags \in Seq(Tag)
  BY StateIs DEF Content
<1>2. s \notin DOMAIN st.secrets => Content(st, s) = [text |-> "none", tags |-> <<>>]
  BY DEF Content
<1>3. ToSet(<<>>) = {}
  BY DEF ToSet
<1>4. Content(st, s) = Read(st.secrets, s)
  BY DEF Read, Content
<1>5. TagsOf(Content(st, s)) = IF s \in DOMAIN st.secrets THEN TagsOf(st.secrets[s]) ELSE {}
  BY <1>1, <1>2, <1>3 DEF TagsOf
<1>6. s \notin DOMAIN st.secrets => Content(st, s).text = "none" /\ Content(st, s).tags = <<>>
  BY <1>2
<1> QED
  BY <1>1, <1>4, <1>5, <1>6

LEMMA WithSecretFacts ==
    ASSUME NEW st \in States, NEW s \in Secret, NEW e \in Entry
    PROVE  /\ WithSecret(st, s, e) \in States
           /\ WithSecret(st, s, e).warning = st.warning
           /\ Content(WithSecret(st, s, e), s) = e
           /\ \A x : x # s => Content(WithSecret(st, s, e), x) = Content(st, x)
<1> DEFINE D == DOMAIN st.secrets \cup {s}
           v == [x \in D |-> IF x = s THEN e ELSE st.secrets[x]]
           n == WithSecret(st, s, e)
<1>1. D \subseteq Secret /\ \A x \in D : (IF x = s THEN e ELSE st.secrets[x]) \in Entry
  BY StateIs
<1>2. v \in Vault /\ DOMAIN v = D
  BY <1>1, VaultIs
<1>3. n = [st EXCEPT !.secrets = v]
  BY DEF WithSecret
<1>4. st.filter \in SUBSET Tag /\ st.members \in SUBSET Member /\ st.warning \in BOOLEAN
  BY StateIs
<1>5. n \in States /\ n.secrets = v /\ n.warning = st.warning
  <2> HIDE DEF v, n
  <2> QED
    BY <1>2, <1>3 DEF States
<1>6. v[s] = e /\ \A x \in D : x # s => v[x] = st.secrets[x]
  OBVIOUS
<1> HIDE DEF v
<1> QED
  BY <1>2, <1>5, <1>6 DEF Content

LEMMA WithDeletedFacts ==
    ASSUME NEW st \in States, NEW S
    PROVE  /\ WithDeleted(st, S) \in States
           /\ WithDeleted(st, S).warning = st.warning
           /\ \A x : x \notin S => Content(WithDeleted(st, S), x) = Content(st, x)
<1> DEFINE D == DOMAIN st.secrets \ S
           v == [x \in D |-> st.secrets[x]]
           n == WithDeleted(st, S)
<1>1. D \subseteq Secret /\ \A x \in D : st.secrets[x] \in Entry
  BY StateIs
<1>2. v \in Vault /\ DOMAIN v = D
  BY <1>1, VaultIs
<1>3. n = [st EXCEPT !.secrets = v]
  BY DEF WithDeleted
<1>4. st.filter \in SUBSET Tag /\ st.members \in SUBSET Member /\ st.warning \in BOOLEAN
  BY StateIs
<1>5. n \in States /\ n.secrets = v /\ n.warning = st.warning
  <2> HIDE DEF v, n
  <2> QED
    BY <1>2, <1>3 DEF States
<1>6. \A x \in D : v[x] = st.secrets[x]
  OBVIOUS
<1> HIDE DEF v
<1> QED
  BY <1>2, <1>5, <1>6 DEF Content

\* Other tags leave the texts as they are.
LEMMA WithTagsFacts ==
    ASSUME NEW st \in States, NEW ts, \A s \in DOMAIN st.secrets : ts[s] \in Seq(Tag)
    PROVE  /\ WithTags(st, ts) \in States
           /\ WithTags(st, ts).filter = st.filter
           /\ DOMAIN WithTags(st, ts).secrets = DOMAIN st.secrets
           /\ \A s \in DOMAIN st.secrets : WithTags(st, ts).secrets[s].tags = ts[s]
           /\ \A s : Content(WithTags(st, ts), s).text = Content(st, s).text
           /\ \A s : Content(WithTags(st, ts), s).tags
                     = IF s \in DOMAIN st.secrets THEN ts[s] ELSE Content(st, s).tags
<1> DEFINE D == DOMAIN st.secrets
           v == [s \in D |-> [st.secrets[s] EXCEPT !.tags = ts[s]]]
           n == WithTags(st, ts)
<1>1. \A e \in Entry, t \in Seq(Tag) : /\ [e EXCEPT !.tags = t] \in Entry
                                       /\ [e EXCEPT !.tags = t].tags = t
                                       /\ [e EXCEPT !.tags = t].text = e.text
  BY DEF Entry
<1>2. D \subseteq Secret /\ \A s \in D : st.secrets[s] \in Entry
  BY StateIs
<1>3. \A s \in D : v[s] \in Entry /\ v[s].tags = ts[s] /\ v[s].text = st.secrets[s].text
  BY <1>1, <1>2
<1>4. v \in Vault /\ DOMAIN v = D
  BY <1>2, <1>3, VaultIs
<1>5. n = [st EXCEPT !.secrets = v]
  BY DEF WithTags
<1>6. st.filter \in SUBSET Tag /\ st.members \in SUBSET Member /\ st.warning \in BOOLEAN
  BY StateIs
<1>7. n \in States /\ n.secrets = v /\ n.filter = st.filter
  <2> HIDE DEF v, n
  <2> QED
    BY <1>4, <1>5 DEF States
<1> HIDE DEF v, n
<1>8. \A s \in D : Content(n, s) = v[s] /\ Content(st, s) = st.secrets[s]
  BY <1>4, <1>7 DEF Content
<1>9. \A s : s \notin D => Content(n, s) = Content(st, s)
  BY <1>4, <1>7 DEF Content
<1> QED
  BY <1>3, <1>4, <1>7, <1>8, <1>9 DEF n

-----------------------------------------------------------------------------
(***************************************************************************)
(* Lists, and changes of one secret or of its tags                         *)
(***************************************************************************)

\* The tags of all secrets, and who passes the filter.
LEMMA UsedIs ==
    ASSUME NEW st \in States
    PROVE  /\ \A t : t \in UsedTags(st) <=> \E s \in DOMAIN st.secrets : t \in TagsOf(st.secrets[s])
           /\ UsedTags(st) \subseteq Tag
<1>1. \A t : t \in UsedTags(st) <=> \E s \in DOMAIN st.secrets : t \in TagsOf(st.secrets[s])
  BY DEF UsedTags
<1>2. \A s \in DOMAIN st.secrets : TagsOf(st.secrets[s]) \subseteq Tag
  <2> SUFFICES ASSUME NEW s \in DOMAIN st.secrets
               PROVE  TagsOf(st.secrets[s]) \subseteq Tag
    OBVIOUS
  <2>1. st.secrets[s].tags \in Seq(Tag)
    BY StateIs
  <2> QED
    BY <2>1 DEF TagsOf, ToSet
<1> QED
  BY <1>1, <1>2

LEMMA Filtered ==
    ASSUME NEW st \in States
    PROVE  /\ filtered_secrets(st) \in Seq(Secret)
           /\ ToSet(filtered_secrets(st)) = {s \in DOMAIN st.secrets : Passes(st, s)}
<1>1. Secrets \in Seq(Secret)
  BY PagesAssumption DEF Secret
<1> DEFINE P == {s \in DOMAIN st.secrets : Passes(st, s)}
<1>2. P \subseteq Secret
  BY StateIs
<1>3. OnlyIs(Secret, Secrets, P)
  BY <1>1, OnlyFacts
<1> HIDE DEF P
<1>4. Only(Secrets, P) \in Seq(Secret) /\ ToSet(Only(Secrets, P)) = ToSet(Secrets) \cap P
  BY <1>3 DEF OnlyIs
<1>5. filtered_secrets(st) = Only(Secrets, P)
  BY DEF filtered_secrets, P
<1>6. ToSet(Secrets) \cap P = P
  BY <1>2 DEF Secret
<1> QED
  BY <1>4, <1>5, <1>6 DEF P

LEMMA TagsList ==
    ASSUME NEW st \in States
    PROVE  tags(st) \in Seq(Tag) /\ ToSet(tags(st)) = UsedTags(st)
<1>1. Tags \in Seq(Tag)
  BY PagesAssumption
<1>2. OnlyIs(Tag, Tags, UsedTags(st))
  BY <1>1, OnlyFacts
<1>3. UsedTags(st) \subseteq Tag
  BY UsedIs
<1>4. Only(Tags, UsedTags(st)) \in Seq(Tag) /\ ToSet(Only(Tags, UsedTags(st))) = ToSet(Tags) \cap UsedTags(st)
  BY <1>2 DEF OnlyIs
<1>5. ToSet(Tags) \cap UsedTags(st) = UsedTags(st)
  BY <1>3 DEF Tag
<1> QED
  BY <1>4, <1>5 DEF tags

LEMMA MembersList ==
    ASSUME NEW st \in States
    PROVE  members(st) \in Seq(Member)
<1>1. Members \in Seq(Member)
  BY PagesAssumption DEF Member
<1>2. OnlyIs(Member, Members, st.members)
  BY <1>1, OnlyFacts
<1> QED
  BY <1>2 DEF OnlyIs, members

LEMMA DroppedFacts ==
    ASSUME NEW ts \in Seq(Tag), NEW t
    PROVE  /\ Dropped(ts, t) \in Seq(Tag)
           /\ t \notin ToSet(Dropped(ts, t))
           /\ t \notin ToSet(ts) => Dropped(ts, t) = ts
<1> DEFINE T == ToSet(ts) \ {t}
<1>1. OnlyIs(Tag, ts, T)
  BY OnlyFacts
<1>2. t \notin T /\ (t \notin ToSet(ts) => ToSet(ts) \subseteq T)
  OBVIOUS
<1> HIDE DEF T
<1>3. Only(ts, T) \in Seq(Tag) /\ ToSet(Only(ts, T)) = ToSet(ts) \cap T /\ (ToSet(ts) \subseteq T => Only(ts, T) = ts)
  BY <1>1 DEF OnlyIs
<1>4. Dropped(ts, t) = Only(ts, T)
  BY DEF Dropped, T
<1> QED
  BY <1>2, <1>3, <1>4

LEMMA ReplacedFacts ==
    ASSUME NEW ts \in Seq(Tag), NEW old, NEW new \in Tag, old # new
    PROVE  /\ ReplaceAll(ts, old, new) \in Seq(Tag)
           /\ old \notin ToSet(ReplaceAll(ts, old, new))
           /\ old \notin ToSet(ts) => ReplaceAll(ts, old, new) = ts
           /\ old \in ToSet(ts) => new \in ToSet(ReplaceAll(ts, old, new))
           /\ \A t \in ToSet(ts) \ {old} : t \in ToSet(ReplaceAll(ts, old, new))
<1> DEFINE n == Len(ts)
           r == [i \in 1 .. n |-> IF ts[i] = old THEN new ELSE ts[i]]
<1>1. n \in Nat /\ DOMAIN ts = 1 .. n /\ \A i \in 1 .. n : ts[i] \in Tag
  BY LenProperties, ElementOfSeq
<1>2. ReplaceAll(ts, old, new) = r
  BY DEF ReplaceAll
<1>3. r \in Seq(Tag) /\ DOMAIN r = 1 .. n
  BY <1>1
<1>4. \A i \in 1 .. n : r[i] = IF ts[i] = old THEN new ELSE ts[i]
  OBVIOUS
<1> HIDE DEF r, n
<1>5. old \notin ToSet(r)
  BY <1>3, <1>4 DEF ToSet
<1>6. ASSUME old \notin ToSet(ts)
      PROVE  r = ts
  <2>1. \A i \in 1 .. n : r[i] = ts[i]
    BY <1>1, <1>4, <1>6 DEF ToSet
  <2> QED
    BY <1>1, <1>3, <2>1
<1>7. \A t \in ToSet(ts) : IF t = old THEN new \in ToSet(r) ELSE t \in ToSet(r)
  BY <1>1, <1>3, <1>4 DEF ToSet
<1> QED
  BY <1>2, <1>3, <1>5, <1>6, <1>7

-----------------------------------------------------------------------------
\* The same vault.
LEMMA SameExplained ==
    ASSUME NEW b, NEW n, NEW touched, NEW seen, n.secrets = b.secrets
    PROVE  Explained(b, n, touched, seen)
BY DEF Explained, Content

\* Only secret s is another one, and all of it was asked for.
LEMMA OneExplained ==
    ASSUME NEW b, NEW n, NEW s, NEW seen, \A x : x # s => Content(n, x) = Content(b, x)
    PROVE  Explained(b, n, {s} \X Field, seen)
<1> SUFFICES ASSUME NEW x \in Secret, NEW f \in Field
             PROVE  Content(n, x)[f] = Content(b, x)[f] \/ <<x, f>> \in {s} \X Field
  BY DEF Explained
<1>1. CASE x = s
  BY <1>1
<1>2. CASE x # s
  <2>1. Content(n, x) = Content(b, x)
    BY <1>2
  <2> QED
    BY <2>1
<1> QED
  BY <1>1, <1>2

\* Only tags are others, and those of secrets whose tags were asked for.
LEMMA TagsExplained ==
    ASSUME NEW b, NEW n, NEW S, NEW seen,
           \A s \in Secret : Content(n, s).text = Content(b, s).text,
           \A s \in Secret \ S : \/ Content(n, s).tags = Content(b, s).tags
                                 \/ Content(b, s).tags # Read(seen, s).tags
    PROVE  Explained(b, n, S \X {"tags"}, seen)
<1> SUFFICES ASSUME NEW x \in Secret, NEW f \in Field
             PROVE  \/ Content(n, x)[f] = Content(b, x)[f]
                    \/ <<x, f>> \in S \X {"tags"}
                    \/ Content(b, x)[f] # Read(seen, x)[f]
  BY DEF Explained
<1>1. CASE f = "text"
  BY <1>1
<1>2. CASE f = "tags"
  <2>1. CASE x \in S
    BY <1>2, <2>1
  <2>2. CASE x \notin S
    BY <1>2, <2>2
  <2> QED
    BY <2>1, <2>2
<1> QED
  BY <1>1, <1>2 DEF Field

\* What Hinted leaves as it was.
LEMMA HintedContent ==
    ASSUME NEW st \in States
    PROVE  /\ \A s : Content(Hinted(st), s) = Content(st, s)
           /\ UsedTags(Hinted(st)) = UsedTags(st)
<1>1. Hinted(st).secrets = st.secrets
  BY HintFacts
<1> QED
  BY <1>1 DEF Content, UsedTags

LEMMA UntagGood ==
    ASSUME NEW b \in States, NEW t \in Tag
    PROVE  /\ WithTagDeleted(b, t) \in States
           /\ t \notin UsedTags(WithTagDeleted(b, t)) \cup WithTagDeleted(b, t).filter
           /\ Explained(b, WithTagDeleted(b, t), Carrying(b, t) \X {"tags"}, b.secrets)
<1> DEFINE ts == [s \in DOMAIN b.secrets |-> Dropped(b.secrets[s].tags, t)]
           w == WithTags(b, ts)
           n == WithTagDeleted(b, t)
<1>1. \A s \in DOMAIN b.secrets : b.secrets[s].tags \in Seq(Tag)
  BY StateIs
<1>2. \A s \in DOMAIN b.secrets : /\ ts[s] \in Seq(Tag) /\ t \notin ToSet(ts[s])
                                  /\ t \notin ToSet(b.secrets[s].tags) => ts[s] = b.secrets[s].tags
  BY <1>1, DroppedFacts
<1> HIDE DEF ts
<1>3. /\ w \in States /\ w.filter = b.filter /\ DOMAIN w.secrets = DOMAIN b.secrets
      /\ \A s \in DOMAIN b.secrets : w.secrets[s].tags = ts[s]
      /\ \A s : Content(w, s).text = Content(b, s).text
      /\ \A s : Content(w, s).tags = IF s \in DOMAIN b.secrets THEN ts[s] ELSE Content(b, s).tags
  BY <1>2, WithTagsFacts
<1> HIDE DEF w
<1>4. n = [w EXCEPT !.filter = @ \ {t}]
  BY DEF WithTagDeleted, w, ts
<1>5. n \in States /\ n.secrets = w.secrets /\ n.filter = w.filter \ {t}
  BY <1>3, <1>4 DEF States
<1> HIDE DEF n
<1>6. t \notin UsedTags(n)
  <2>1. \A s \in DOMAIN n.secrets : t \notin TagsOf(n.secrets[s])
    BY <1>2, <1>3, <1>5 DEF TagsOf
  <2> QED
    BY <1>5, <2>1, UsedIs
<1>7. \A s : Content(n, s) = Content(w, s)
  BY <1>5 DEF Content
<1>8. \A s \in Secret \ Carrying(b, t) : Content(n, s).tags = Content(b, s).tags
  <2> SUFFICES ASSUME NEW s \in Secret \ Carrying(b, t)
               PROVE  Content(n, s).tags = Content(b, s).tags
    OBVIOUS
  <2>1. CASE s \in DOMAIN b.secrets
    <3>1. t \notin ToSet(b.secrets[s].tags)
      BY <2>1 DEF Carrying, TagsOf
    <3>2. Content(b, s) = b.secrets[s]
      BY <2>1 DEF Content
    <3> QED
      BY <1>2, <1>3, <1>7, <2>1, <3>1, <3>2
  <2>2. CASE s \notin DOMAIN b.secrets
    BY <1>3, <1>7, <2>2
  <2> QED
    BY <2>1, <2>2
<1>9. \A s \in Secret : Content(n, s).text = Content(b, s).text
  BY <1>3, <1>7
<1>10. Explained(b, n, Carrying(b, t) \X {"tags"}, b.secrets)
  BY <1>8, <1>9, TagsExplained
<1> QED
  BY <1>5, <1>6, <1>10 DEF n

-----------------------------------------------------------------------------
(***************************************************************************)
(* Renaming a tag, assigning it, and saving a form                         *)
(***************************************************************************)

LEMMA RenameGood ==
    ASSUME NEW b \in States, NEW old \in Tag, NEW new \in Tag, old # new
    PROVE  /\ WithRenamed(b, old, new) \in States
           /\ old \notin UsedTags(WithRenamed(b, old, new)) \cup WithRenamed(b, old, new).filter
           /\ Explained(b, WithRenamed(b, old, new), Carrying(b, old) \X {"tags"}, b.secrets)
           /\ ToSet(filtered_secrets(b)) \subseteq ToSet(filtered_secrets(WithRenamed(b, old, new)))
<1> DEFINE ts == [s \in DOMAIN b.secrets |-> ReplaceAll(b.secrets[s].tags, old, new)]
           w == WithTags(b, ts)
           n == WithRenamed(b, old, new)
<1>1. \A s \in DOMAIN b.secrets : b.secrets[s].tags \in Seq(Tag)
  BY StateIs
<1>2. \A s \in DOMAIN b.secrets :
        /\ ts[s] \in Seq(Tag) /\ old \notin ToSet(ts[s])
        /\ old \notin ToSet(b.secrets[s].tags) => ts[s] = b.secrets[s].tags
        /\ old \in ToSet(b.secrets[s].tags) => new \in ToSet(ts[s])
        /\ \A t \in ToSet(b.secrets[s].tags) \ {old} : t \in ToSet(ts[s])
  <2> SUFFICES ASSUME NEW s \in DOMAIN b.secrets
               PROVE  /\ ts[s] \in Seq(Tag) /\ old \notin ToSet(ts[s])
                      /\ old \notin ToSet(b.secrets[s].tags) => ts[s] = b.secrets[s].tags
                      /\ old \in ToSet(b.secrets[s].tags) => new \in ToSet(ts[s])
                      /\ \A t \in ToSet(b.secrets[s].tags) \ {old} : t \in ToSet(ts[s])
    OBVIOUS
  <2>1. ts[s] = ReplaceAll(b.secrets[s].tags, old, new)
    OBVIOUS
  <2> HIDE DEF ts
  <2>2. b.secrets[s].tags \in Seq(Tag)
    BY <1>1
  <2> QED
    BY <2>1, <2>2, ReplacedFacts
<1> HIDE DEF ts
<1>3. /\ w \in States /\ w.filter = b.filter /\ DOMAIN w.secrets = DOMAIN b.secrets
      /\ \A s \in DOMAIN b.secrets : w.secrets[s].tags = ts[s]
      /\ \A s : Content(w, s).text = Content(b, s).text
      /\ \A s : Content(w, s).tags = IF s \in DOMAIN b.secrets THEN ts[s] ELSE Content(b, s).tags
  BY <1>2, WithTagsFacts
<1> HIDE DEF w
<1> DEFINE f == IF old \in w.filter THEN (w.filter \ {old}) \cup {new} ELSE w.filter
<1>4. n = [w EXCEPT !.filter = f]
  BY DEF WithRenamed, Renamed, w, ts
<1>5. n \in States /\ n.secrets = w.secrets /\ n.filter = f
  <2>1. f \in SUBSET Tag
    BY <1>3 DEF States
  <2> HIDE DEF n, f
  <2> QED
    BY <1>3, <1>4, <2>1 DEF States
<1> HIDE DEF n
<1>6. old \notin UsedTags(n)
  <2>1. \A s \in DOMAIN n.secrets : old \notin TagsOf(n.secrets[s])
    BY <1>2, <1>3, <1>5 DEF TagsOf
  <2> QED
    BY <1>5, <2>1, UsedIs
<1>7. \A s : Content(n, s) = Content(w, s)
  BY <1>5 DEF Content
<1>8. \A s \in Secret \ Carrying(b, old) : Content(n, s).tags = Content(b, s).tags
  <2> SUFFICES ASSUME NEW s \in Secret \ Carrying(b, old)
               PROVE  Content(n, s).tags = Content(b, s).tags
    OBVIOUS
  <2>1. CASE s \in DOMAIN b.secrets
    <3>1. old \notin ToSet(b.secrets[s].tags)
      BY <2>1 DEF Carrying, TagsOf
    <3>2. Content(b, s) = b.secrets[s]
      BY <2>1 DEF Content
    <3> QED
      BY <1>2, <1>3, <1>7, <2>1, <3>1, <3>2
  <2>2. CASE s \notin DOMAIN b.secrets
    BY <1>3, <1>7, <2>2
  <2> QED
    BY <2>1, <2>2
<1>9. \A s \in Secret : Content(n, s).text = Content(b, s).text
  BY <1>3, <1>7
<1>10. Explained(b, n, Carrying(b, old) \X {"tags"}, b.secrets)
  BY <1>8, <1>9, TagsExplained
<1>11. old \notin n.filter
  BY <1>5
<1>12. \A s \in DOMAIN b.secrets : Passes(b, s) => Passes(n, s)
  <2> SUFFICES ASSUME NEW s \in DOMAIN b.secrets, Passes(b, s)
               PROVE  Passes(n, s)
    OBVIOUS
  <2>1. TagsOf(n.secrets[s]) = ToSet(ts[s]) /\ TagsOf(b.secrets[s]) = ToSet(b.secrets[s].tags)
    BY <1>3, <1>5 DEF TagsOf
  <2>2. CASE b.filter = {}
    BY <1>3, <1>5, <2>2 DEF Passes
  <2>3. CASE b.filter # {}
    <3>1. PICK t \in TagsOf(b.secrets[s]) : t \in b.filter
      BY <2>3 DEF Passes
    <3>2. CASE t = old
      <4>1. new \in TagsOf(n.secrets[s]) /\ new \in n.filter
        BY <1>2, <1>3, <1>5, <2>1, <3>1, <3>2
      <4> QED
        BY <4>1 DEF Passes
    <3>3. CASE t # old
      <4>1. t \in TagsOf(n.secrets[s]) /\ t \in n.filter
        BY <1>2, <1>3, <1>5, <2>1, <3>1, <3>3
      <4> QED
        BY <4>1 DEF Passes
    <3> QED
      BY <3>2, <3>3
  <2> QED
    BY <2>2, <2>3
<1>13. ToSet(filtered_secrets(b)) \subseteq ToSet(filtered_secrets(n))
  <2>1. ToSet(filtered_secrets(b)) = {s \in DOMAIN b.secrets : Passes(b, s)}
    BY Filtered
  <2>2. ToSet(filtered_secrets(n)) = {s \in DOMAIN n.secrets : Passes(n, s)}
    BY <1>5, Filtered
  <2> QED
    BY <1>3, <1>5, <1>12, <2>1, <2>2
<1> QED
  BY <1>5, <1>6, <1>10, <1>11, <1>13 DEF n

LEMMA AssignGood ==
    ASSUME NEW b \in States, NEW t \in Tag, NEW chosen, NEW toggled, NEW seen,
           \A s \in Secret \ toggled : s \in chosen <=> t \in TagsOf(Read(seen, s))
    PROVE  /\ WithAssigned(b, t, chosen) \in States
           /\ Explained(b, WithAssigned(b, t, chosen), toggled \X {"tags"}, seen)
<1> DEFINE One(x, s) == CASE s \in chosen /\ t \notin ToSet(x) -> Append(x, t)
                           [] s \notin chosen -> Dropped(x, t)
                           [] OTHER -> x
           ts == [s \in DOMAIN b.secrets |-> One(b.secrets[s].tags, s)]
           n == WithAssigned(b, t, chosen)
<1>1. \A s \in DOMAIN b.secrets : b.secrets[s].tags \in Seq(Tag)
  BY StateIs
<1>2. \A x \in Seq(Tag) : \A s : /\ One(x, s) \in Seq(Tag)
                                 /\ (s \in chosen <=> t \in ToSet(x)) => One(x, s) = x
  <2> TAKE x \in Seq(Tag)
  <2> TAKE s
  <2>1. Dropped(x, t) \in Seq(Tag) /\ (t \notin ToSet(x) => Dropped(x, t) = x)
    BY DroppedFacts
  <2>2. Append(x, t) \in Seq(Tag)
    BY AppendProperties
  <2> QED
    BY <2>1, <2>2
<1>3. n = WithTags(b, ts)
  BY DEF WithAssigned
<1> HIDE DEF One
<1>4. \A s \in DOMAIN b.secrets : ts[s] = One(b.secrets[s].tags, s) /\ ts[s] \in Seq(Tag)
  <2> TAKE s \in DOMAIN b.secrets
  <2>1. ts[s] = One(b.secrets[s].tags, s)
    OBVIOUS
  <2>2. One(b.secrets[s].tags, s) \in Seq(Tag)
    BY <1>1, <1>2
  <2> QED
    BY <2>1, <2>2
<1> HIDE DEF ts, n
<1>5. /\ n \in States
      /\ \A s : Content(n, s).text = Content(b, s).text
      /\ \A s : Content(n, s).tags = IF s \in DOMAIN b.secrets THEN ts[s] ELSE Content(b, s).tags
  BY <1>3, <1>4, WithTagsFacts
<1>6. \A s \in Secret \ toggled : \/ Content(n, s).tags = Content(b, s).tags
                                  \/ Content(b, s).tags # Read(seen, s).tags
  <2> SUFFICES ASSUME NEW s \in Secret \ toggled, Content(b, s).tags = Read(seen, s).tags
               PROVE  Content(n, s).tags = Content(b, s).tags
    OBVIOUS
  <2>1. CASE s \notin DOMAIN b.secrets
    BY <1>5, <2>1
  <2>2. CASE s \in DOMAIN b.secrets
    <3>1. Content(b, s).tags = b.secrets[s].tags
      BY <2>2 DEF Content
    <3>2. s \in chosen <=> t \in ToSet(b.secrets[s].tags)
      BY <3>1 DEF TagsOf
    <3>3. ts[s] = b.secrets[s].tags
      BY <1>1, <1>2, <1>4, <2>2, <3>2
    <3> QED
      BY <1>5, <2>2, <3>1, <3>3
  <2> QED
    BY <2>1, <2>2
<1>7. Explained(b, n, toggled \X {"tags"}, seen)
  BY <1>5, <1>6, TagsExplained
<1> QED
  BY <1>5, <1>7 DEF n

\* What a form has read of the secret it was opened on, and not changed since.
Untouched(p) ==
    /\ "text" \in p.touched \/ p.id \notin DOMAIN p.seen \/ p.text = p.seen[p.id].text
    /\ \/ "tags" \in p.touched
       \/ Split(p.tokens) = Read(p.seen, p.id).tags
       \/ \E t \in TagsOf(Read(p.seen, p.id)) : Len(t) > 1

LEMMA EditGood ==
    ASSUME NEW b \in States, NEW p, Untouched(p), p.id \in Secret, p.text \in Value,
           Split(p.tokens) \in Seq(Tag)
    PROVE  LET n == WithUpdated(b, p.id, [text |-> p.text, tags |-> Split(p.tokens)])
           IN  n \in States /\ Explained(b, n, {p.id} \X p.touched, p.seen)
<1> DEFINE e == [text |-> p.text, tags |-> Split(p.tokens)]
           id == p.id
           n == WithUpdated(b, id, e)
<1>1. CASE id \notin DOMAIN b.secrets
  <2>1. n = b
    BY <1>1 DEF WithUpdated
  <2> QED
    BY <2>1, SameExplained
<1>2. CASE id \in DOMAIN b.secrets
  <2>1. e \in Entry /\ e.text = p.text /\ e.tags = Split(p.tokens)
    BY DEF Entry
  <2>2. n = WithSecret(b, id, e) /\ id \in Secret
    BY <1>2 DEF WithUpdated
  <2> HIDE DEF e, id, n
  <2>3. n \in States /\ Content(n, id) = e /\ \A x : x # id => Content(n, x) = Content(b, x)
    BY <2>1, <2>2, WithSecretFacts
  <2>4. Content(b, id) = b.secrets[id] /\ Content(b, id).text \in Value
    BY <1>2, ContentIs
  <2>5. \/ "text" \in p.touched \/ Content(n, id).text = Content(b, id).text
        \/ Content(b, id).text # Read(p.seen, id).text
    <3>1. CASE "text" \in p.touched
      BY <3>1
    <3>2. CASE id \notin DOMAIN p.seen
      <4>1. Read(p.seen, id).text = "none"
        BY <3>2 DEF Read, Content
      <4> QED
        BY <2>4, <4>1, PagesAssumption
    <3>3. CASE id \in DOMAIN p.seen /\ p.text = p.seen[id].text
      <4>1. Read(p.seen, id).text = p.text
        BY <3>3 DEF Read, Content
      <4> QED
        BY <2>1, <2>3, <4>1
    <3> QED
      BY <3>1, <3>2, <3>3 DEF Untouched, id
  <2>6. \/ "tags" \in p.touched \/ Content(n, id).tags = Content(b, id).tags
        \/ Content(b, id).tags # Read(p.seen, id).tags
        \/ \E t \in TagsOf(Content(b, id)) : Len(t) > 1
    <3>1. CASE "tags" \in p.touched
      BY <3>1
    <3>2. CASE Split(p.tokens) = Read(p.seen, id).tags
      BY <2>1, <2>3, <3>2
    <3>3. CASE \E t \in TagsOf(Read(p.seen, id)) : Len(t) > 1
      BY <3>3 DEF TagsOf
    <3> QED
      BY <3>1, <3>2, <3>3 DEF Untouched, id
  <2>7. Explained(b, n, {id} \X p.touched, p.seen)
    <3> SUFFICES ASSUME NEW x \in Secret, NEW f \in Field
                 PROVE  \/ Content(n, x)[f] = Content(b, x)[f]
                        \/ <<x, f>> \in {id} \X p.touched
                        \/ Content(b, x)[f] # Read(p.seen, x)[f]
                        \/ f = "tags" /\ \E t \in TagsOf(Content(b, x)) : Len(t) > 1
      BY DEF Explained
    <3>1. CASE x # id
      <4>1. Content(n, x) = Content(b, x)
        BY <2>3, <3>1
      <4> QED
        BY <4>1
    <3>2. CASE x = id /\ f = "text"
      BY <2>5, <3>2
    <3>3. CASE x = id /\ f = "tags"
      BY <2>6, <3>3
    <3> QED
      BY <3>1, <3>2, <3>3 DEF Field
  <2> QED
    BY <2>3, <2>7 DEF n, e, id
<1> QED
  BY <1>1, <1>2

-----------------------------------------------------------------------------
(***************************************************************************)
(* What a page may be: of the home page, each cursor is on a row and what is *)
(* marked agrees with what was read; of a form, the completions fit and what *)
(* was not touched is what was read.                                       *)
(***************************************************************************)

Confirms == {NoConfirm, <<"other">>, <<"compact">>} \cup ({"secret"} \X Secret)
            \cup ({"tag"} \X Tag) \cup ({"member"} \X Member)
HomePages ==
    [kind : {"home"}, focus : {"secrets", "tags", "members"},
     sec_idx : Nat, tag_idx : Nat, member_idx : Nat, confirm : Confirms,
     editing_tag : Tag \cup {NoTag}, chosen : SUBSET Secret, toggled : SUBSET Secret,
     seen : Vault]
FormPages ==
    [kind : {"secret"}, id : Secret \cup {NoId}, mode : {"normal", "edit", "confirm"},
     focused : Field, text : Value, tokens : Seq(Word \cup {Blank}), matches : Seq(Tag),
     idx : Nat, touched : SUBSET Field, seen : Vault]
TagPages == [kind : {"tag"}, old : Tag \cup {NoTag}, name : Tag \cup {NoTag}]
InvitePages == [kind : {"invite"}]
Routes == {<<"Home">>, <<"NewSecret">>, <<"NewTag">>, <<"Invite">>} \cup ({"EditSecret"} \X Secret)
          \cup ({"EditTag"} \X Tag) \cup ({"HomeWithTagAssignment"} \X Tag)

\* What assignment mode has marked, and not by a key, is what it has read.
HomeOK(p) ==
    p.editing_tag # NoTag =>
        \A s \in Secret \ p.toggled : s \in p.chosen <=> p.editing_tag \in TagsOf(Read(p.seen, s))

CursorsIn(p, st) ==
    /\ p.sec_idx <= Last0(Len(filtered_secrets(st)))
    /\ p.tag_idx <= Len(tags(st))
    /\ p.member_idx <= Last0(Len(members(st)))

Fits(t, tokens) ==
    /\ t \notin {<<w>> : w \in ToSet(tokens)}
    /\ Last(tokens) = Blank \/ StartsWith(t, Last(tokens))

FormOK(p) ==
    /\ p.idx <= Len(p.matches)
    /\ \A i \in DOMAIN p.matches : Fits(p.matches[i], p.tokens)
    /\ Untouched(p)

LEMMA EmptyVault == <<>> \in Vault
<1>1. DOMAIN <<>> = {}
  OBVIOUS
<1>2. <<>> \in [{} -> Entry]
  OBVIOUS
<1> QED
  BY <1>1, <1>2, VaultIs

LEMMA ListLengths ==
    ASSUME NEW st \in States
    PROVE  /\ Len(filtered_secrets(st)) \in Nat /\ Last0(Len(filtered_secrets(st))) \in Nat
           /\ Len(tags(st)) \in Nat
           /\ Len(members(st)) \in Nat /\ Last0(Len(members(st))) \in Nat
<1>1. \A n \in Nat : Last0(n) \in Nat
  BY DEF Last0
<1>2. Len(filtered_secrets(st)) \in Nat
  BY Filtered, LenProperties
<1>3. Len(tags(st)) \in Nat
  BY TagsList, LenProperties
<1>4. Len(members(st)) \in Nat
  BY MembersList, LenProperties
<1> QED
  BY <1>1, <1>2, <1>3, <1>4

LEMMA HomeIs ==
    ASSUME NEW st \in States
    PROVE  Home \in HomePages /\ HomeOK(Home) /\ CursorsIn(Home, st) /\ Home.confirm = NoConfirm
<1>1. Home \in HomePages
  BY EmptyVault DEF Home, HomePages, Confirms
<1>2. Home.editing_tag = NoTag /\ Home.confirm = NoConfirm
      /\ Home.sec_idx = 0 /\ Home.tag_idx = 0 /\ Home.member_idx = 0
  BY DEF Home
<1>3. CursorsIn(Home, st)
  BY <1>2, ListLengths DEF CursorsIn
<1> QED
  BY <1>1, <1>2, <1>3 DEF HomeOK

LEMMA AssigningIs ==
    ASSUME NEW st \in States, NEW p \in HomePages, NEW t \in Tag, CursorsIn(p, st)
    PROVE  /\ Assigning(p, st, t) \in HomePages /\ HomeOK(Assigning(p, st, t))
           /\ CursorsIn(Assigning(p, st, t), st) /\ Assigning(p, st, t).confirm = p.confirm
<1> DEFINE n == Assigning(p, st, t)
<1>1. st.secrets \in Vault /\ Carrying(st, t) \subseteq Secret
  BY StateIs DEF Carrying
<1>2. n \in HomePages
  BY <1>1 DEF HomePages, Assigning
<1>3. /\ n.confirm = p.confirm /\ n.sec_idx = p.sec_idx /\ n.tag_idx = p.tag_idx
      /\ n.member_idx = p.member_idx /\ n.editing_tag = t /\ n.chosen = Carrying(st, t)
      /\ n.toggled = {} /\ n.seen = st.secrets
  BY DEF HomePages, Assigning
<1> HIDE DEF n
<1>4. CursorsIn(n, st)
  BY <1>3 DEF CursorsIn
<1>5. \A s \in Secret : s \in Carrying(st, t) <=> t \in TagsOf(Read(st.secrets, s))
  <2> TAKE s \in Secret
  <2>1. TagsOf(Content(st, s)) = IF s \in DOMAIN st.secrets THEN TagsOf(st.secrets[s]) ELSE {}
    BY ContentIs
  <2>2. Content(st, s) = Read(st.secrets, s)
    BY ContentIs
  <2> QED
    BY <2>1, <2>2 DEF Carrying
<1>6. HomeOK(n)
  BY <1>3, <1>5 DEF HomeOK
<1> QED
  BY <1>2, <1>3, <1>4, <1>6 DEF n

LEMMA FlatType ==
    ASSUME NEW ts \in Seq(Tag)
    PROVE  FlattenSeq(ts) \in Seq(Word \cup {Blank})
<1> DEFINE W == Word \cup {Blank}
<1>1. Tag \subseteq Seq(W)
  <2>1. Tag \subseteq Seq(Word)
    BY PagesAssumption
  <2>2. \A s \in Seq(Word) : s \in Seq(W)
    OBVIOUS
  <2> QED
    BY <2>1, <2>2
<1>2. ts \in Seq(Seq(W))
  <2> HIDE DEF W
  <2> QED
    BY <1>1
<1>3. <<>> \in Seq(W)
  OBVIOUS
<1> HIDE DEF W
<1>4. FlattenSeq(ts) \in Seq(W)
  BY <1>2, <1>3, FlattenAppend
<1> QED
  BY <1>4 DEF W

LEMMA NoSecretIs == NoSecret.text \in Value /\ NoSecret.tags \in Seq(Tag)
<1>1. "" \in Value
  BY PagesAssumption, Zenon
<1>2. <<>> \in Seq(Tag)
  OBVIOUS
<1> QED
  BY <1>1, <1>2 DEF NoSecret

LEMMA FormIs ==
    ASSUME NEW st \in States, NEW id \in Secret \cup {NoId}
    PROVE  LET p == Form(id, IF id \in DOMAIN st.secrets THEN st.secrets[id] ELSE NoSecret, st)
           IN  p \in FormPages /\ FormOK(p)
<1> DEFINE e == IF id \in DOMAIN st.secrets THEN st.secrets[id] ELSE NoSecret
           tokens == IF e.tags = <<>> THEN <<Blank>> ELSE FlattenSeq(e.tags)
           p == Form(id, e, st)
<1>1. e.text \in Value /\ e.tags \in Seq(Tag)
  <2>1. CASE id \in DOMAIN st.secrets
    BY <2>1, StateIs
  <2>2. CASE id \notin DOMAIN st.secrets
    <3>1. NoSecret.text \in Value /\ NoSecret.tags \in Seq(Tag)
      BY NoSecretIs
    <3>2. e = NoSecret
      BY <2>2
    <3> HIDE DEF e
    <3> QED
      BY <3>1, <3>2
  <2> QED
    BY <2>1, <2>2
<1>2. id \in DOMAIN st.secrets => e.text = st.secrets[id].text
  OBVIOUS
<1>3. e.tags = Read(st.secrets, id).tags
  BY DEF Read, Content, NoSecret
<1> HIDE DEF e
<1>4. tokens \in Seq(Word \cup {Blank})
  <2>1. FlattenSeq(e.tags) \in Seq(Word \cup {Blank})
    BY <1>1, FlatType
  <2>2. <<Blank>> \in Seq(Word \cup {Blank})
    OBVIOUS
  <2> QED
    BY <2>1, <2>2
<1>5. Split(tokens) = e.tags \/ \E t \in TagsOf(Read(st.secrets, id)) : Len(t) > 1
  <2>1. CASE e.tags = <<>>
    BY <2>1, SplitBlank
  <2>2. CASE e.tags # <<>> /\ \A t \in ToSet(e.tags) : ~ (Len(t) > 1)
    BY <1>1, <2>2, SplitWords
  <2>3. CASE \E t \in ToSet(e.tags) : Len(t) > 1
    BY <1>3, <2>3 DEF TagsOf
  <2> QED
    BY <2>1, <2>2, <2>3
<1> HIDE DEF tokens
<1>6. st.secrets \in Vault
  BY StateIs
<1>7. p = [kind |-> "secret", id |-> id, mode |-> "normal", focused |-> "text", text |-> e.text,
           tokens |-> tokens, matches |-> <<>>, idx |-> 0, touched |-> {}, seen |-> st.secrets]
  BY DEF Form, tokens
<1> HIDE DEF p
<1>8. p \in FormPages
  BY <1>1, <1>4, <1>6, <1>7 DEF FormPages, Field
<1>9. /\ p.id = id /\ p.text = e.text /\ p.tokens = tokens /\ p.matches = <<>> /\ p.idx = 0
      /\ p.seen = st.secrets
  BY <1>7
<1>10. Untouched(p)
  BY <1>2, <1>3, <1>5, <1>9 DEF Untouched
<1>11. p.idx <= Len(p.matches) /\ DOMAIN p.matches = {}
  BY <1>9
<1> QED
  BY <1>8, <1>10, <1>11 DEF FormOK, p, e

LEMMA TagFormIs ==
    ASSUME NEW old \in Tag \cup {NoTag}
    PROVE  TagForm(old, old) \in TagPages
BY DEF TagForm, TagPages

\* A page that any route leads to asks nothing.
LEMMA OpenedIs ==
    ASSUME NEW st \in States, NEW r \in Routes
    PROVE  LET p == Opened(r, st) IN
           \/ p \in HomePages /\ HomeOK(p) /\ CursorsIn(p, st) /\ p.confirm = NoConfirm
           \/ p \in FormPages /\ FormOK(p)
           \/ p \in TagPages
           \/ p \in InvitePages
<1>1. CASE r = <<"Home">>
  <2>1. Opened(r, st) = Home
    BY <1>1 DEF Opened
  <2> QED
    BY <2>1, HomeIs
<1>2. CASE r = <<"NewSecret">>
  <2>1. Opened(r, st) = Form(NoId, NoSecret, st)
    BY <1>2 DEF Opened
  <2>2. NoId \notin DOMAIN st.secrets
    BY StateIs, PagesAssumption DEF Secret
  <2>3. Opened(r, st) = Form(NoId, IF NoId \in DOMAIN st.secrets THEN st.secrets[NoId] ELSE NoSecret, st)
    BY <2>1, <2>2
  <2> QED
    BY <2>3, FormIs
<1>3. CASE r = <<"NewTag">>
  <2>1. Opened(r, st) = TagForm(NoTag, NoTag)
    BY <1>3 DEF Opened, NoTag
  <2> QED
    BY <2>1, TagFormIs
<1>4. CASE r \in {"EditSecret"} \X Secret
  <2>1. PICK s \in Secret : r = <<"EditSecret", s>>
    BY <1>4
  <2>2. Opened(r, st) = Form(s, IF s \in DOMAIN st.secrets THEN st.secrets[s] ELSE NoSecret, st)
    BY <2>1 DEF Opened
  <2> QED
    BY <2>2, FormIs
<1>5. CASE r \in {"EditTag"} \X Tag
  <2>1. PICK t \in Tag : r = <<"EditTag", t>>
    BY <1>5
  <2>2. Opened(r, st) = TagForm(t, t)
    BY <2>1 DEF Opened
  <2> QED
    BY <2>2, TagFormIs
<1>6. CASE r \in {"HomeWithTagAssignment"} \X Tag
  <2>1. PICK t \in Tag : r = <<"HomeWithTagAssignment", t>>
    BY <1>6
  <2>2. Opened(r, st) = Assigning(Home, st, t)
    BY <2>1 DEF Opened
  <2> QED
    BY <2>2, HomeIs, AssigningIs
<1>7. CASE r = <<"Invite">>
  <2>1. Opened(r, st) = Invite
    BY <1>7 DEF Opened
  <2> QED
    BY <2>1 DEF Invite, InvitePages
<1> QED
  BY <1>1, <1>2, <1>3, <1>4, <1>5, <1>6, <1>7 DEF Routes

LEMMA UpdatedIs ==
    ASSUME NEW st \in States, NEW p \in HomePages
    PROVE  /\ Updated(p, st) \in HomePages /\ CursorsIn(Updated(p, st), st)
           /\ Updated(p, st).confirm = p.confirm
           /\ HomeOK(p) => HomeOK(Updated(p, st))
<1> DEFINE i == SecIdx(p.sec_idx, st)
           j == TagIdx(p.tag_idx, st)
           k == MemberIdx(p.member_idx, st)
           n == Updated(p, st)
<1>1. p.sec_idx \in Nat /\ p.tag_idx \in Nat /\ p.member_idx \in Nat /\ p.kind = "home"
  BY DEF HomePages
<1>2. \A x, y \in Nat : AtMost(x, y) \in Nat /\ AtMost(x, y) <= y
  BY DEF AtMost
<1>3. /\ i \in Nat /\ i <= Last0(Len(filtered_secrets(st)))
      /\ j \in Nat /\ j <= Len(tags(st))
      /\ k \in Nat /\ k <= Last0(Len(members(st)))
  BY <1>1, <1>2, ListLengths DEF SecIdx, TagIdx, MemberIdx
<1>4. n = [p EXCEPT !.sec_idx = i, !.tag_idx = j, !.member_idx = k]
  BY <1>1 DEF Updated
<1> HIDE DEF i, j, k, n
<1>5. n \in HomePages
  BY <1>3, <1>4 DEF HomePages
<1>6. /\ n.sec_idx = i /\ n.tag_idx = j /\ n.member_idx = k /\ n.confirm = p.confirm
      /\ n.editing_tag = p.editing_tag /\ n.chosen = p.chosen /\ n.toggled = p.toggled
      /\ n.seen = p.seen
  BY <1>4 DEF HomePages
<1>7. CursorsIn(n, st)
  BY <1>3, <1>6 DEF CursorsIn
<1>8. HomeOK(p) => HomeOK(n)
  BY <1>6 DEF HomeOK
<1> QED
  BY <1>5, <1>6, <1>7, <1>8 DEF n

LEMMA MatchesIs ==
    ASSUME NEW st \in States, NEW tokens
    PROVE  /\ Matches(tokens, st) \in Seq(Tag)
           /\ \A i \in DOMAIN Matches(tokens, st) : Fits(Matches(tokens, st)[i], tokens)
<1> DEFINE T == {t \in Tag : Fits(t, tokens)}
           m == Matches(tokens, st)
<1>1. m = Only(tags(st), T)
  BY DEF Matches, Fits
<1>2. tags(st) \in Seq(Tag)
  BY TagsList
<1>3. OnlyIs(Tag, tags(st), T)
  BY <1>2, OnlyFacts
<1> HIDE DEF T, m
<1>4. m \in Seq(Tag) /\ ToSet(m) \subseteq T
  BY <1>1, <1>3 DEF OnlyIs
<1>5. \A i \in DOMAIN m : m[i] \in T
  BY <1>4 DEF ToSet
<1> QED
  BY <1>4, <1>5 DEF m, T

LEMMA CompletingIs ==
    ASSUME state \in States, NEW p \in FormPages, Untouched(p)
    PROVE  Completing(p) \in FormPages /\ FormOK(Completing(p))
<1> DEFINE n == Completing(p)
           m == Matches(p.tokens, state)
           i == AtMost(p.idx, Len(m))
<1>1. m \in Seq(Tag) /\ \A j \in DOMAIN m : Fits(m[j], p.tokens)
  BY MatchesIs
<1> HIDE DEF m
<1>2. i \in Nat /\ i <= Len(m)
  <2>1. Len(m) \in Nat /\ p.idx \in Nat
    BY <1>1, LenProperties DEF FormPages
  <2> QED
    BY <2>1 DEF AtMost
<1> HIDE DEF i
<1>3. CASE p.focused = "tags" /\ p.mode = "edit"
  <2>1. n = [p EXCEPT !.matches = m, !.idx = i]
    BY <1>3 DEF Completing, m, i
  <2> HIDE DEF n
  <2>2. n \in FormPages
    BY <1>1, <1>2, <2>1 DEF FormPages
  <2>3. /\ n.idx = i /\ n.matches = m /\ n.tokens = p.tokens /\ n.text = p.text /\ n.id = p.id
        /\ n.touched = p.touched /\ n.seen = p.seen
    BY <2>1 DEF FormPages
  <2>4. Untouched(n)
    BY <2>3 DEF Untouched
  <2>5. FormOK(n)
    BY <1>1, <1>2, <2>3, <2>4 DEF FormOK
  <2> QED
    BY <2>2, <2>5 DEF n
<1>4. CASE ~ (p.focused = "tags" /\ p.mode = "edit")
  <2> DEFINE none == <<>>
  <2>0. none \in Seq(Tag) /\ 0 \in Nat
    OBVIOUS
  <2>1. n = [p EXCEPT !.matches = <<>>, !.idx = 0]
    BY <1>4 DEF Completing
  <2>a. n = [p EXCEPT !.matches = none, !.idx = 0]
    BY <2>1
  <2> HIDE DEF n, none
  <2>2. n \in FormPages
    BY <2>0, <2>a DEF FormPages
  <2>3. /\ n.idx = 0 /\ n.matches = <<>> /\ n.tokens = p.tokens /\ n.text = p.text /\ n.id = p.id
        /\ n.touched = p.touched /\ n.seen = p.seen
    BY <2>1 DEF FormPages
  <2>4. Untouched(n)
    BY <2>3 DEF Untouched
  <2>5. n.idx <= Len(n.matches) /\ DOMAIN n.matches = {}
    BY <2>3
  <2>6. FormOK(n)
    BY <2>4, <2>5 DEF FormOK
  <2> QED
    BY <2>2, <2>6 DEF n
<1> QED
  BY <1>3, <1>4

-----------------------------------------------------------------------------
(***************************************************************************)
(* What may be in the queue, and the inductive invariant                   *)
(***************************************************************************)

\* A change that a page has sent is the whole of what was meant.
Complete(i) ==
    /\ i.retired \cap (UsedTags(i.state) \cup i.state.filter) = {}
    /\ i.why = "rename" =>
        ToSet(filtered_secrets(i.base)) \subseteq ToSet(filtered_secrets(i.state))

Why == {"hint", "assign", "untag", "delete", "remove", "filter", "edit", "add", "rename",
        "late"}
Sent == [why : Why, base : States, touched : SUBSET (Secret \X Field),
         seen : Vault, retired : SUBSET Tag, state : States]
Going == [why : {"go"}, route : Routes]
Good == {i \in Sent : Explained(i.base, i.state, i.touched, i.seen) /\ Complete(i)}
Items == Good \cup Going

\* Nothing but late States of the invite page follows in the queue.
LateAfter(q, n) == \A k \in DOMAIN q : k > n => q[k].why = "late"

\* The warning is in the footer, or on its way there.
Pending(q, st) ==
    \/ st.warning /\ LateAfter(q, 0)
    \/ \E k \in DOMAIN q : q[k] \in Good /\ q[k].state.warning /\ LateAfter(q, k)

HomeInv(p, st, q, m) ==
    /\ p \in HomePages /\ HomeOK(p) /\ CursorsIn(p, st)
    /\ p.confirm = NoConfirm \/ m \/ Pending(q, st)

PageInv(p, st, q, m) ==
    \/ HomeInv(p, st, q, m)
    \/ p \in FormPages /\ FormOK(p)
    \/ p \in TagPages
    \/ p \in InvitePages

PagesInv ==
    /\ state \in States
    /\ queue \in Seq(Items)
    /\ draining \in BOOLEAN /\ (draining => queue # <<>>)
    /\ timers \subseteq {i \in Good : i.why = "late"}
    /\ masked \in BOOLEAN
    /\ PageInv(page, state, queue, masked)

LEMMA ItemKinds ==
    ASSUME NEW i \in Items
    PROVE  IF i.why = "go" THEN i \in Going ELSE i \in Good /\ i.state \in States
BY DEF Items, Going, Good, Sent, Why

LEMMA RetireGood ==
    ASSUME state \in States, NEW why \in Why, NEW touched \in SUBSET (Secret \X Field),
           NEW retired \in SUBSET Tag, NEW n \in States,
           Explained(state, n, touched, state.secrets),
           retired \cap (UsedTags(n) \cup n.filter) = {},
           why = "rename" => ToSet(filtered_secrets(state)) \subseteq ToSet(filtered_secrets(n))
    PROVE  Retire(why, touched, retired, n) \in Good /\ Retire(why, touched, retired, n).state = n
<1> DEFINE i == Retire(why, touched, retired, n)
<1>1. state.secrets \in Vault
  BY StateIs
<1>2. i = [why |-> why, base |-> state, touched |-> touched, seen |-> state.secrets,
           retired |-> retired, state |-> n]
  BY DEF Retire
<1> HIDE DEF i
<1>3. i \in Sent
  BY <1>1, <1>2 DEF Sent
<1>4. /\ i.why = why /\ i.base = state /\ i.touched = touched /\ i.seen = state.secrets
      /\ i.retired = retired /\ i.state = n
  BY <1>2
<1>5. Complete(i)
  BY <1>4 DEF Complete
<1> QED
  BY <1>3, <1>4, <1>5 DEF Good, i

LEMMA SendGood ==
    ASSUME state \in States, NEW why \in Why \ {"rename"},
           NEW touched \in SUBSET (Secret \X Field), NEW seen \in Vault, NEW n \in States,
           Explained(state, n, touched, seen)
    PROVE  Send(why, touched, seen, n) \in Good /\ Send(why, touched, seen, n).state = n
<1> DEFINE i == Send(why, touched, seen, n)
<1>2. i = [why |-> why, base |-> state, touched |-> touched, seen |-> seen,
           retired |-> {}, state |-> n]
  BY DEF Send, Retire
<1> HIDE DEF i
<1>3. i \in Sent
  BY <1>2 DEF Sent
<1>4. /\ i.why = why /\ i.base = state /\ i.touched = touched /\ i.seen = seen
      /\ i.retired = {} /\ i.state = n
  BY <1>2
<1>5. Complete(i)
  BY <1>4 DEF Complete
<1> QED
  BY <1>3, <1>4, <1>5 DEF Good, i

\* A new footer.
LEMMA HintGood ==
    ASSUME state \in States, NEW n \in {Hinted(state), Warned(state)}
    PROVE  Hint(n) \in Good /\ Hint(n).state = n
<1>1. n \in States /\ n.secrets = state.secrets
  BY HintFacts
<1>2. Explained(state, n, {}, state.secrets)
  BY <1>1, SameExplained
<1>3. "hint" \in Why /\ "hint" # "rename"
  BY DEF Why
<1> DEFINE why == "hint"
           none == {}
<1>4. why \in Why /\ why # "rename" /\ none \in SUBSET (Secret \X Field)
      /\ none \in SUBSET Tag /\ none \cap (UsedTags(n) \cup n.filter) = {}
      /\ Explained(state, n, none, state.secrets)
  BY <1>2, <1>3
<1> HIDE DEF why, none
<1>5. Retire(why, none, none, n) \in Good /\ Retire(why, none, none, n).state = n
  BY <1>1, <1>4, RetireGood
<1> QED
  BY <1>5 DEF Hint, why, none

LEMMA GoIs ==
    ASSUME NEW r \in Routes
    PROVE  Go(r) \in Going /\ Go(r) \in Items /\ Go(r).why = "go" /\ Go(r).route = r
BY DEF Go, Going, Items

\* A step of a key keeps the invariant if the page and what it sends are right.
LEMMA PressedStep ==
    ASSUME PagesInv, NEW p, NEW items, Pressed(p, items), items \in Seq(Items), masked' \in BOOLEAN,
           PageInv(p, state, queue \o items, masked'),
           timers' \subseteq {i \in Good : i.why = "late"}
    PROVE  PagesInv'
<1>1. /\ page' = p /\ queue' = queue \o items /\ state' = state /\ draining' = draining
      /\ ~ draining
  BY DEF Pressed
<1>2. draining \in BOOLEAN /\ queue \in Seq(Items) /\ state \in States
  BY DEF PagesInv
<1>3. PageInv(page', state', queue', masked')
  BY <1>1
<1>4. queue' \in Seq(Items)
  BY <1>1, <1>2, ConcatProperties
<1> QED
  BY <1>1, <1>2, <1>3, <1>4 DEF PagesInv

LEMMA KeyStep ==
    ASSUME PagesInv, NEW p, NEW items, Key(p, items), items \in Seq(Items), masked' \in BOOLEAN,
           PageInv(p, state, queue \o items, masked')
    PROVE  PagesInv'
<1>1. Pressed(p, items) /\ timers' \subseteq {i \in Good : i.why = "late"}
  BY DEF Key, PagesInv
<1> QED
  BY <1>1, PressedStep

LEMMA NoItems == <<>> \in Seq(Items)
OBVIOUS

LEMMA OneItem ==
    ASSUME NEW i \in Items
    PROVE  <<i>> \in Seq(Items)
OBVIOUS

LEMMA TwoItems ==
    ASSUME NEW i \in Items, NEW j \in Items
    PROVE  <<i, j>> \in Seq(Items)
OBVIOUS

\* A page of a form is right whatever was sent.
LEMMA FormStep ==
    ASSUME PagesInv, NEW p \in FormPages, FormOK(p), NEW items \in Seq(Items), Key(p, items), Free
    PROVE  PagesInv'
<1>1. masked' \in BOOLEAN
  BY DEF Free, PagesInv
<1>2. PageInv(p, state, queue \o items, masked')
  BY DEF PageInv
<1> QED
  BY <1>1, <1>2, KeyStep

\* A home page that asks nothing is right whatever was sent.
LEMMA QuietStep ==
    ASSUME PagesInv, NEW p \in HomePages, HomeOK(p), CursorsIn(p, state), p.confirm = NoConfirm,
           NEW items \in Seq(Items), Key(p, items), masked' \in BOOLEAN
    PROVE  PagesInv'
<1>1. PageInv(p, state, queue \o items, masked')
  BY DEF PageInv, HomeInv
<1> QED
  BY <1>1, KeyStep

-----------------------------------------------------------------------------
(***************************************************************************)
(* The home page: assignment mode and confirmations                        *)
(***************************************************************************)

LEMMA AtHomeIs ==
    ASSUME PagesInv, AtHome
    PROVE  state \in States /\ page \in HomePages /\ HomeOK(page) /\ CursorsIn(page, state)
BY DEF PagesInv, AtHome, PageInv, HomeInv, FormPages, TagPages, InvitePages

LEMMA MaskedIs ==
    ASSUME PagesInv, Free
    PROVE  masked' \in BOOLEAN
BY DEF PagesInv, Free

\* The things under the cursors.
LEMMA CurrentIs ==
    ASSUME PagesInv, AtHome
    PROVE  CurrentSecret \subseteq Secret /\ CurrentTag \subseteq Tag /\ CurrentMember \subseteq Member
<1>1. state \in States
  BY AtHomeIs
<1>2. filtered_secrets(state) \in Seq(Secret) /\ tags(state) \in Seq(Tag) /\ members(state) \in Seq(Member)
  BY <1>1, Filtered, TagsList, MembersList
<1> QED
  BY <1>2, ElementOfSeq DEF CurrentSecret, CurrentTag, CurrentMember

LEMMA LeftIs ==
    ASSUME PagesInv, AtHome
    PROVE  /\ LeftAssignment \in HomePages /\ HomeOK(LeftAssignment) /\ CursorsIn(LeftAssignment, state)
           /\ LeftAssignment.confirm = page.confirm
<1> DEFINE p == LeftAssignment
           empty == <<>>
<1>1. empty \in Vault /\ NoTag \in Tag \cup {NoTag} /\ page \in HomePages /\ CursorsIn(page, state)
  BY EmptyVault, AtHomeIs
<1>2. p = [page EXCEPT !.editing_tag = NoTag, !.chosen = {}, !.toggled = {}, !.seen = empty,
                       !.focus = "tags"]
  BY DEF LeftAssignment
<1> HIDE DEF p, empty
<1>3. p \in HomePages
  BY <1>1, <1>2 DEF HomePages
<1>4. /\ p.editing_tag = NoTag /\ p.confirm = page.confirm /\ p.sec_idx = page.sec_idx
      /\ p.tag_idx = page.tag_idx /\ p.member_idx = page.member_idx
  BY <1>1, <1>2 DEF HomePages
<1>5. HomeOK(p) /\ CursorsIn(p, state)
  BY <1>1, <1>4 DEF HomeOK, CursorsIn
<1> QED
  BY <1>3, <1>4, <1>5 DEF p

LEMMA LeaveStep ==
    ASSUME PagesInv, AtHome, NEW i \in Items, Key(LeftAssignment, <<i>>),
           masked' = (page.confirm # NoConfirm)
    PROVE  PagesInv'
<1>1. /\ LeftAssignment \in HomePages /\ HomeOK(LeftAssignment) /\ CursorsIn(LeftAssignment, state)
      /\ LeftAssignment.confirm = page.confirm
  BY LeftIs
<1>2. masked' \in BOOLEAN /\ (LeftAssignment.confirm = NoConfirm \/ masked')
  BY <1>1
<1>3. PageInv(LeftAssignment, state, queue \o <<i>>, masked')
  BY <1>1, <1>2 DEF PageInv, HomeInv
<1> QED
  BY <1>2, <1>3, OneItem, KeyStep

LEMMA SaveAssignmentStep == PagesInv /\ SaveAssignment => PagesInv'
<1> SUFFICES ASSUME PagesInv, SaveAssignment
             PROVE  PagesInv'
  OBVIOUS
<1> DEFINE n == WithAssigned(state, page.editing_tag, page.chosen)
<1>1. AtHome /\ page.editing_tag # NoTag
  BY DEF SaveAssignment, InAssignment
<1>2. state \in States /\ page \in HomePages /\ HomeOK(page)
  BY <1>1, AtHomeIs
<1>3. page.editing_tag \in Tag /\ page.toggled \in SUBSET Secret /\ page.seen \in Vault
  BY <1>1, <1>2 DEF HomePages
<1>4. \A s \in Secret \ page.toggled : s \in page.chosen <=> page.editing_tag \in TagsOf(Read(page.seen, s))
  BY <1>1, <1>2 DEF HomeOK
<1>5. n \in States /\ Explained(state, n, page.toggled \X {"tags"}, page.seen)
  BY <1>2, <1>3, <1>4, AssignGood
<1> DEFINE h == Hinted(n)
           touched == page.toggled \X {"tags"}
           why == "assign"
<1>6. h \in States /\ Explained(state, h, touched, page.seen)
  <2>1. h \in States /\ h.secrets = n.secrets
    BY <1>5, HintFacts
  <2> QED
    BY <1>5, <2>1 DEF Explained, Content
<1>7. why \in Why \ {"rename"} /\ touched \in SUBSET (Secret \X Field)
  BY <1>3 DEF Why, Field
<1> DEFINE i == Send(why, touched, page.seen, h)
<1>8. Key(LeftAssignment, <<i>>) /\ masked' = (page.confirm # NoConfirm)
  BY DEF SaveAssignment
<1> HIDE DEF n, h, why, touched
<1>9. i \in Items
  BY <1>2, <1>3, <1>6, <1>7, SendGood DEF Items
<1> HIDE DEF i
<1> QED
  BY <1>1, <1>8, <1>9, LeaveStep

LEMMA CancelAssignmentStep == PagesInv /\ CancelAssignment => PagesInv'
<1> SUFFICES ASSUME PagesInv, CancelAssignment
             PROVE  PagesInv'
  OBVIOUS
<1> DEFINE i == Hint(Hinted(state))
<1>1. AtHome /\ Key(LeftAssignment, <<i>>) /\ masked' = (page.confirm # NoConfirm)
  BY DEF CancelAssignment, InAssignment
<1>2. i \in Items
  BY <1>1, AtHomeIs, HintGood DEF Items
<1> HIDE DEF i
<1> QED
  BY <1>1, <1>2, LeaveStep

-----------------------------------------------------------------------------
\* An answered question leaves a page that asks nothing.
LEMMA AnsweredIs ==
    ASSUME PagesInv, AtHome
    PROVE  Answered \in HomePages /\ HomeOK(Answered) /\ CursorsIn(Answered, state)
           /\ Answered.confirm = NoConfirm
<1> DEFINE p == Answered
<1>1. page \in HomePages /\ CursorsIn(page, state) /\ HomeOK(page) /\ NoConfirm \in Confirms
  BY AtHomeIs DEF Confirms
<1>2. p = [page EXCEPT !.confirm = NoConfirm]
  BY DEF Answered
<1> HIDE DEF p
<1>3. p \in HomePages
  BY <1>1, <1>2 DEF HomePages
<1>4. /\ p.editing_tag = page.editing_tag /\ p.confirm = NoConfirm /\ p.sec_idx = page.sec_idx
      /\ p.tag_idx = page.tag_idx /\ p.member_idx = page.member_idx /\ p.chosen = page.chosen
      /\ p.toggled = page.toggled /\ p.seen = page.seen
  BY <1>1, <1>2 DEF HomePages
<1>5. HomeOK(p) /\ CursorsIn(p, state)
  BY <1>1, <1>4 DEF HomeOK, CursorsIn
<1> QED
  BY <1>3, <1>4, <1>5 DEF p

LEMMA BackIs ==
    ASSUME NEW p \in HomePages, NEW st \in States, HomeOK(p), CursorsIn(p, st), p.confirm = NoConfirm,
           NEW n \in {[p EXCEPT !.sec_idx = Back(@)], [p EXCEPT !.tag_idx = Back(@)],
                      [p EXCEPT !.member_idx = Back(@)]}
    PROVE  n \in HomePages /\ HomeOK(n) /\ CursorsIn(n, st) /\ n.confirm = NoConfirm
<1>1. \A i \in Nat : Back(i) \in Nat /\ Back(i) <= i
  BY DEF Back
<1>2. p.sec_idx \in Nat /\ p.tag_idx \in Nat /\ p.member_idx \in Nat
  BY DEF HomePages
<1> DEFINE a == Back(p.sec_idx)
           b == Back(p.tag_idx)
           c == Back(p.member_idx)
<1>3. /\ a \in Nat /\ a <= p.sec_idx /\ b \in Nat /\ b <= p.tag_idx
      /\ c \in Nat /\ c <= p.member_idx
  BY <1>1, <1>2
<1>4. n \in {[p EXCEPT !.sec_idx = a], [p EXCEPT !.tag_idx = b], [p EXCEPT !.member_idx = c]}
  OBVIOUS
<1> HIDE DEF a, b, c
<1>5. n \in HomePages
  BY <1>3, <1>4 DEF HomePages
<1>6. /\ n.editing_tag = p.editing_tag /\ n.confirm = p.confirm /\ n.chosen = p.chosen
      /\ n.toggled = p.toggled /\ n.seen = p.seen
      /\ n.sec_idx \in {a, p.sec_idx} /\ n.tag_idx \in {b, p.tag_idx}
      /\ n.member_idx \in {c, p.member_idx}
  BY <1>4 DEF HomePages
<1>7. HomeOK(n)
  BY <1>6 DEF HomeOK
<1>8. CursorsIn(n, st)
  <2>1. /\ n.sec_idx \in Nat /\ n.sec_idx <= p.sec_idx /\ n.tag_idx \in Nat /\ n.tag_idx <= p.tag_idx
        /\ n.member_idx \in Nat /\ n.member_idx <= p.member_idx
    BY <1>2, <1>3, <1>6
  <2> QED
    BY <1>2, <2>1, ListLengths DEF CursorsIn
<1> QED
  BY <1>5, <1>6, <1>7, <1>8

LEMMA AskedIs ==
    ASSUME PagesInv, AtHome
    PROVE  /\ page.confirm[1] = "tag" => page.confirm[2] \in Tag
           /\ page.confirm[1] = "secret" => page.confirm[2] \in Secret
           /\ page.confirm[1] = "member" => page.confirm[2] \in Member
<1>1. page.confirm \in Confirms
  BY AtHomeIs DEF HomePages
<1> DEFINE c == page.confirm
<1> HIDE DEF c
<1>2. c \in Confirms => /\ c[1] = "tag" => c[2] \in Tag
                        /\ c[1] = "secret" => c[2] \in Secret
                        /\ c[1] = "member" => c[2] \in Member
  BY DEF Confirms, NoConfirm
<1> QED
  BY <1>1, <1>2 DEF c

LEMMA ConfirmTagDeleteStep == PagesInv /\ ConfirmTagDelete => PagesInv'
<1> SUFFICES ASSUME PagesInv, ConfirmTagDelete
             PROVE  PagesInv'
  OBVIOUS
<1> DEFINE t == page.confirm[2]
           n == WithTagDeleted(state, t)
           h == Hinted(n)
           touched == Carrying(state, t) \X {"tags"}
           retired == {t}
           why == "untag"
           i == Retire(why, touched, retired, h)
           p == [Answered EXCEPT !.tag_idx = Back(@)]
<1>1. AtHome /\ page.confirm[1] = "tag" /\ masked' = FALSE /\ Key(p, <<i>>)
  BY DEF ConfirmTagDelete, Asked
<1>2. t \in Tag /\ state \in States
  BY <1>1, AskedIs, AtHomeIs
<1>3. /\ n \in States /\ t \notin UsedTags(n) \cup n.filter
      /\ Explained(state, n, touched, state.secrets)
  BY <1>2, UntagGood
<1>4. h \in States /\ h.secrets = n.secrets /\ h.filter = n.filter
  BY <1>3, HintFacts
<1>5. Explained(state, h, touched, state.secrets) /\ retired \cap (UsedTags(h) \cup h.filter) = {}
  BY <1>3, <1>4 DEF Explained, Content, UsedTags
<1>6. why \in Why /\ why # "rename" /\ touched \in SUBSET (Secret \X Field) /\ retired \in SUBSET Tag
  BY <1>2, StateIs DEF Why, Field, Carrying
<1>7. p \in HomePages /\ HomeOK(p) /\ CursorsIn(p, state) /\ p.confirm = NoConfirm
  BY <1>1, <1>2, AnsweredIs, BackIs
<1> HIDE DEF n, h, touched, retired, why, p
<1>8. i \in Items
  BY <1>2, <1>4, <1>5, <1>6, RetireGood DEF Items
<1> HIDE DEF i
<1> QED
  BY <1>1, <1>7, <1>8, OneItem, QuietStep

LEMMA ConfirmSecretDeleteStep == PagesInv /\ ConfirmSecretDelete => PagesInv'
<1> SUFFICES ASSUME PagesInv, ConfirmSecretDelete
             PROVE  PagesInv'
  OBVIOUS
<1> DEFINE s == page.confirm[2]
           n == WithDeleted(state, {s})
           h == Hinted(n)
           touched == {s} \X Field
           why == "delete"
           i == Send(why, touched, state.secrets, h)
           p == [Answered EXCEPT !.sec_idx = Back(@)]
<1>1. AtHome /\ page.confirm[1] = "secret" /\ masked' = FALSE /\ Key(p, <<i>>)
  BY DEF ConfirmSecretDelete, Asked
<1>2. s \in Secret /\ state \in States /\ state.secrets \in Vault
  BY <1>1, AskedIs, AtHomeIs, StateIs
<1>3. n \in States /\ \A x : x # s => Content(n, x) = Content(state, x)
  BY <1>2, WithDeletedFacts
<1>4. h \in States /\ h.secrets = n.secrets
  BY <1>3, HintFacts
<1>5. \A x : x # s => Content(h, x) = Content(state, x)
  BY <1>3, <1>4 DEF Content
<1> HIDE DEF n, h
<1>a. Explained(state, h, touched, state.secrets)
  BY <1>5, OneExplained
<1>6. why \in Why \ {"rename"} /\ touched \in SUBSET (Secret \X Field)
  BY <1>2 DEF Why
<1>7. p \in HomePages /\ HomeOK(p) /\ CursorsIn(p, state) /\ p.confirm = NoConfirm
  BY <1>1, <1>2, AnsweredIs, BackIs
<1> HIDE DEF touched, why, p
<1>8. i \in Items
  BY <1>2, <1>4, <1>a, <1>6, SendGood DEF Items
<1> HIDE DEF i
<1> QED
  BY <1>1, <1>7, <1>8, OneItem, QuietStep

LEMMA ConfirmMemberDeleteStep == PagesInv /\ ConfirmMemberDelete => PagesInv'
<1> SUFFICES ASSUME PagesInv, ConfirmMemberDelete
             PROVE  PagesInv'
  OBVIOUS
<1> DEFINE m == page.confirm[2]
           n == [state EXCEPT !.members = @ \ {m}]
           h == Hinted(n)
           touched == {}
           why == "remove"
           i == Send(why, touched, state.secrets, h)
           p == [Answered EXCEPT !.member_idx = Back(@)]
<1>1. AtHome /\ masked' = FALSE /\ Key(p, <<i>>)
  BY DEF ConfirmMemberDelete, Asked
<1>2. state \in States /\ state.secrets \in Vault
  BY <1>1, AtHomeIs, StateIs
<1>3. n \in States /\ n.secrets = state.secrets
  BY <1>2 DEF States
<1>4. h \in States /\ h.secrets = state.secrets
  BY <1>3, HintFacts
<1> HIDE DEF n, h
<1>5. Explained(state, h, touched, state.secrets)
  BY <1>4, SameExplained
<1>6. why \in Why \ {"rename"} /\ touched \in SUBSET (Secret \X Field)
  BY DEF Why
<1>7. p \in HomePages /\ HomeOK(p) /\ CursorsIn(p, state) /\ p.confirm = NoConfirm
  BY <1>1, <1>2, AnsweredIs, BackIs
<1> HIDE DEF touched, why, p
<1>8. i \in Items
  BY <1>2, <1>4, <1>5, <1>6, SendGood DEF Items
<1> HIDE DEF i
<1> QED
  BY <1>1, <1>7, <1>8, OneItem, QuietStep

LEMMA OtherAnswerStep == PagesInv /\ (ConfirmCompact \/ ConfirmOther \/ Decline) => PagesInv'
<1> SUFFICES ASSUME PagesInv, ConfirmCompact \/ ConfirmOther \/ Decline
             PROVE  PagesInv'
  OBVIOUS
<1> DEFINE i == Hint(Hinted(state))
<1>1. AtHome /\ masked' = FALSE /\ (Key(Answered, <<>>) \/ Key(Answered, <<i>>))
  BY DEF ConfirmCompact, ConfirmOther, Decline, Asked
<1>2. i \in Items
  BY <1>1, AtHomeIs, HintGood DEF Items
<1>3. Answered \in HomePages /\ HomeOK(Answered) /\ CursorsIn(Answered, state)
      /\ Answered.confirm = NoConfirm
  BY <1>1, AnsweredIs
<1> DEFINE none == <<>>
<1>4. none \in Seq(Items) /\ <<i>> \in Seq(Items) /\ (Key(Answered, none) \/ Key(Answered, <<i>>))
  BY <1>1, <1>2, NoItems, OneItem
<1> HIDE DEF i, none
<1>5. masked' \in BOOLEAN
  BY <1>1
<1> QED
  BY <1>3, <1>4, <1>5, QuietStep

-----------------------------------------------------------------------------
(***************************************************************************)
(* The home page: panes                                                    *)
(***************************************************************************)

\* A home page with nothing asked, and what an idle key may rely on.
LEMMA IdleIs ==
    ASSUME PagesInv, Idle
    PROVE  /\ AtHome /\ state \in States /\ page \in HomePages /\ HomeOK(page)
           /\ CursorsIn(page, state) /\ page.confirm = NoConfirm
BY AtHomeIs DEF Idle

\* Another focus, or another cursor on a row that exists.
LEMMA FocusIs ==
    ASSUME PagesInv, Idle, NEW f \in {"secrets", "tags", "members"}
    PROVE  LET p == [page EXCEPT !.focus = f] IN
           p \in HomePages /\ HomeOK(p) /\ CursorsIn(p, state) /\ p.confirm = NoConfirm
<1> DEFINE p == [page EXCEPT !.focus = f]
<1>1. page \in HomePages /\ CursorsIn(page, state) /\ HomeOK(page) /\ page.confirm = NoConfirm
  BY IdleIs
<1>2. p \in HomePages
  BY <1>1 DEF HomePages
<1>3. /\ p.editing_tag = page.editing_tag /\ p.confirm = NoConfirm /\ p.sec_idx = page.sec_idx
      /\ p.tag_idx = page.tag_idx /\ p.member_idx = page.member_idx /\ p.chosen = page.chosen
      /\ p.toggled = page.toggled /\ p.seen = page.seen
  BY <1>1 DEF HomePages
<1> HIDE DEF p
<1>4. HomeOK(p) /\ CursorsIn(p, state)
  BY <1>1, <1>3 DEF HomeOK, CursorsIn
<1> QED
  BY <1>2, <1>3, <1>4 DEF p

LEMMA StepsIs ==
    ASSUME NEW i, NEW last \in Nat, NEW j \in Steps(i, last)
    PROVE  j \in Nat /\ j <= last
BY DEF Steps

LEMMA MoveCursorStep == PagesInv /\ MoveCursor => PagesInv'
<1> SUFFICES ASSUME PagesInv, MoveCursor
             PROVE  PagesInv'
  OBVIOUS
<1>1. Idle /\ masked' \in BOOLEAN
  BY MaskedIs DEF MoveCursor
<1>2. page \in HomePages /\ CursorsIn(page, state) /\ HomeOK(page) /\ page.confirm = NoConfirm
      /\ state \in States
  BY <1>1, IdleIs
<1> DEFINE none == <<>>
           right(p) == p \in HomePages /\ HomeOK(p) /\ CursorsIn(p, state) /\ p.confirm = NoConfirm
<1>3. none \in Seq(Items)
  BY NoItems
<1>4. ASSUME NEW p, right(p), Key(p, <<>>)
      PROVE  PagesInv'
  <2>1. Key(p, none)
    BY <1>4
  <2> HIDE DEF none
  <2> QED
    BY <1>1, <1>3, <1>4, <2>1, QuietStep
<1>5. /\ Last0(Len(filtered_secrets(state))) \in Nat /\ Len(tags(state)) \in Nat
      /\ Last0(Len(members(state))) \in Nat
  BY <1>2, ListLengths
<1>6. ASSUME NEW i \in Nat, i <= Last0(Len(filtered_secrets(state)))
      PROVE  right([page EXCEPT !.sec_idx = i])
  <2> DEFINE p == [page EXCEPT !.sec_idx = i]
  <2>1. p \in HomePages
    BY <1>2 DEF HomePages
  <2>2. /\ p.editing_tag = page.editing_tag /\ p.confirm = NoConfirm /\ p.sec_idx = i
        /\ p.tag_idx = page.tag_idx /\ p.member_idx = page.member_idx /\ p.chosen = page.chosen
        /\ p.toggled = page.toggled /\ p.seen = page.seen
    BY <1>2 DEF HomePages
  <2> HIDE DEF p
  <2>3. HomeOK(p) /\ CursorsIn(p, state)
    BY <1>2, <1>6, <2>2 DEF HomeOK, CursorsIn
  <2> QED
    BY <2>1, <2>2, <2>3 DEF p
<1>7. ASSUME NEW i \in Nat, i <= Len(tags(state))
      PROVE  right([page EXCEPT !.tag_idx = i])
  <2> DEFINE p == [page EXCEPT !.tag_idx = i]
  <2>1. p \in HomePages
    BY <1>2 DEF HomePages
  <2>2. /\ p.editing_tag = page.editing_tag /\ p.confirm = NoConfirm /\ p.sec_idx = page.sec_idx
        /\ p.tag_idx = i /\ p.member_idx = page.member_idx /\ p.chosen = page.chosen
        /\ p.toggled = page.toggled /\ p.seen = page.seen
    BY <1>2 DEF HomePages
  <2> HIDE DEF p
  <2>3. HomeOK(p) /\ CursorsIn(p, state)
    BY <1>2, <1>7, <2>2 DEF HomeOK, CursorsIn
  <2> QED
    BY <2>1, <2>2, <2>3 DEF p
<1>8. ASSUME NEW i \in Nat, i <= Last0(Len(members(state)))
      PROVE  right([page EXCEPT !.member_idx = i])
  <2> DEFINE p == [page EXCEPT !.member_idx = i]
  <2>1. p \in HomePages
    BY <1>2 DEF HomePages
  <2>2. /\ p.editing_tag = page.editing_tag /\ p.confirm = NoConfirm /\ p.sec_idx = page.sec_idx
        /\ p.tag_idx = page.tag_idx /\ p.member_idx = i /\ p.chosen = page.chosen
        /\ p.toggled = page.toggled /\ p.seen = page.seen
    BY <1>2 DEF HomePages
  <2> HIDE DEF p
  <2>3. HomeOK(p) /\ CursorsIn(p, state)
    BY <1>2, <1>8, <2>2 DEF HomeOK, CursorsIn
  <2> QED
    BY <2>1, <2>2, <2>3 DEF p
<1> HIDE DEF right
<1>9. CASE \E i \in Steps(page.sec_idx, Last0(Len(filtered_secrets(state)))) :
              Key([page EXCEPT !.sec_idx = i], <<>>)
  BY <1>4, <1>5, <1>6, <1>9, StepsIs
<1>10. CASE \E i \in Steps(page.tag_idx, Len(tags(state))) : Key([page EXCEPT !.tag_idx = i], <<>>)
  BY <1>4, <1>5, <1>7, <1>10, StepsIs
<1>11. CASE \E i \in Steps(page.member_idx, Last0(Len(members(state)))) :
              Key([page EXCEPT !.member_idx = i], <<>>)
  BY <1>4, <1>5, <1>8, <1>11, StepsIs
<1> QED
  BY <1>9, <1>10, <1>11 DEF MoveCursor

LEMMA ToggleAssignmentStep == PagesInv /\ ToggleAssignment => PagesInv'
<1> SUFFICES ASSUME PagesInv, ToggleAssignment
             PROVE  PagesInv'
  OBVIOUS
<1>1. Idle /\ masked' \in BOOLEAN
  BY MaskedIs DEF ToggleAssignment
<1>2. page \in HomePages /\ CursorsIn(page, state) /\ HomeOK(page) /\ page.confirm = NoConfirm
  BY <1>1, IdleIs
<1>3. PICK s \in CurrentSecret :
        Key([page EXCEPT !.chosen = Flip(@, s), !.toggled = @ \cup {s}], <<>>)
  BY DEF ToggleAssignment
<1>4. s \in Secret
  BY <1>1, <1>3, CurrentIs, IdleIs
<1> DEFINE chosen == Flip(page.chosen, s)
           toggled == page.toggled \cup {s}
           p == [page EXCEPT !.chosen = chosen, !.toggled = toggled]
           none == <<>>
<1>5. chosen \in SUBSET Secret /\ toggled \in SUBSET Secret
  BY <1>2, <1>4 DEF HomePages, Flip
<1>6. \A x : x # s => (x \in chosen <=> x \in page.chosen)
  BY DEF Flip
<1>a. toggled = page.toggled \cup {s}
  OBVIOUS
<1>7. Key(p, none) /\ none \in Seq(Items)
  BY <1>3, NoItems
<1> HIDE DEF chosen, toggled, none
<1>8. p \in HomePages
  BY <1>2, <1>5 DEF HomePages
<1>9. /\ p.editing_tag = page.editing_tag /\ p.confirm = NoConfirm /\ p.sec_idx = page.sec_idx
      /\ p.tag_idx = page.tag_idx /\ p.member_idx = page.member_idx /\ p.chosen = chosen
      /\ p.toggled = toggled /\ p.seen = page.seen
  BY <1>2 DEF HomePages
<1> HIDE DEF p
<1>10. HomeOK(p)
  BY <1>2, <1>6, <1>9, <1>a DEF HomeOK
<1>11. CursorsIn(p, state)
  BY <1>2, <1>9 DEF CursorsIn
<1> QED
  BY <1>1, <1>7, <1>8, <1>9, <1>10, <1>11, QuietStep

LEMMA SwitchPaneStep == PagesInv /\ SwitchPane => PagesInv'
<1> SUFFICES ASSUME PagesInv, SwitchPane
             PROVE  PagesInv'
  OBVIOUS
<1>1. Idle /\ masked' \in BOOLEAN
  BY MaskedIs DEF SwitchPane
<1> DEFINE i == Hint(Hinted(state))
           f == CASE page.focus = "members" -> "secrets"
                  [] page.focus = "secrets" /\ DOMAIN state.secrets # {} -> "tags"
                  [] OTHER -> "members"
           p == [page EXCEPT !.focus = f]
<1>2. Key(p, <<i>>)
  BY DEF SwitchPane
<1>3. f \in {"secrets", "tags", "members"}
  OBVIOUS
<1> HIDE DEF f
<1>4. p \in HomePages /\ HomeOK(p) /\ CursorsIn(p, state) /\ p.confirm = NoConfirm
  BY <1>1, <1>3, FocusIs
<1>5. i \in Items
  BY <1>1, IdleIs, HintGood DEF Items
<1> HIDE DEF i, p
<1> QED
  BY <1>1, <1>2, <1>4, <1>5, OneItem, QuietStep

LEMMA LeaveHomeStep == PagesInv /\ Leave => PagesInv'
<1> SUFFICES ASSUME PagesInv, Leave
             PROVE  PagesInv'
  OBVIOUS
<1>1. Idle /\ masked' \in BOOLEAN
  BY MaskedIs DEF Leave, ToSave
<1>2. page \in HomePages /\ CursorsIn(page, state) /\ HomeOK(page) /\ page.confirm = NoConfirm
      /\ CurrentSecret \subseteq Secret /\ CurrentTag \subseteq Tag
  BY <1>1, IdleIs, CurrentIs
<1>3. \E r \in Routes : Key(page, <<Go(r)>>)
  <2>1. \/ Key(page, <<Go(<<"NewSecret">>)>>)
        \/ Key(page, <<Go(<<"NewTag">>)>>)
        \/ \E s \in CurrentSecret : Key(page, <<Go(<<"EditSecret", s>>)>>)
        \/ \E t \in CurrentTag : Key(page, <<Go(<<"EditTag", t>>)>>)
        \/ Key(page, <<Go(<<"Invite">>)>>)
    BY DEF Leave
  <2>2. /\ <<"NewSecret">> \in Routes /\ <<"NewTag">> \in Routes /\ <<"Invite">> \in Routes
        /\ \A s \in CurrentSecret : <<"EditSecret", s>> \in Routes
        /\ \A t \in CurrentTag : <<"EditTag", t>> \in Routes
    BY <1>2 DEF Routes
  <2> QED
    BY <2>1, <2>2
<1>4. PICK r \in Routes : Key(page, <<Go(r)>>)
  BY <1>3
<1>5. <<Go(r)>> \in Seq(Items)
  BY GoIs, OneItem
<1> QED
  BY <1>1, <1>2, <1>4, <1>5, QuietStep

LEMMA AskStep ==
    ASSUME PagesInv, Idle, NEW c \in Confirms, Ask(c), masked' \in BOOLEAN
    PROVE  PagesInv'
<1> DEFINE p == [page EXCEPT !.confirm = c]
           i == Hint(Warned(state))
<1>1. Key(p, <<i>>)
  BY DEF Ask
<1>2. page \in HomePages /\ CursorsIn(page, state) /\ HomeOK(page) /\ state \in States
  BY IdleIs
<1>3. i \in Good /\ i.state.warning
  BY <1>2, HintGood, HintFacts
<1>4. p \in HomePages
  BY <1>2 DEF HomePages
<1>5. /\ p.editing_tag = page.editing_tag /\ p.sec_idx = page.sec_idx
      /\ p.tag_idx = page.tag_idx /\ p.member_idx = page.member_idx /\ p.chosen = page.chosen
      /\ p.toggled = page.toggled /\ p.seen = page.seen
  BY <1>2 DEF HomePages
<1> HIDE DEF p, i
<1>6. HomeOK(p) /\ CursorsIn(p, state)
  BY <1>2, <1>5 DEF HomeOK, CursorsIn
<1>7. <<i>> \in Seq(Items)
  BY <1>3, OneItem DEF Items
<1>8. Pending(queue \o <<i>>, state)
  <2> DEFINE q == queue \o <<i>>
             k == Len(queue) + 1
  <2>1. queue \in Seq(Items)
    BY DEF PagesInv
  <2>2. Len(q) = k /\ DOMAIN q = 1 .. k /\ q[k] = i /\ Len(queue) \in Nat
    BY <1>7, <2>1, ConcatProperties, LenProperties
  <2>3. k \in DOMAIN q /\ LateAfter(q, k)
    BY <2>2 DEF LateAfter
  <2> HIDE DEF q, k
  <2> QED
    BY <1>3, <2>2, <2>3 DEF Pending, q
<1>9. PageInv(p, state, queue \o <<i>>, masked')
  BY <1>4, <1>6, <1>8 DEF PageInv, HomeInv
<1> QED
  BY <1>1, <1>7, <1>9, KeyStep

LEMMA AskConfirmationStep == PagesInv /\ AskConfirmation => PagesInv'
<1> SUFFICES ASSUME PagesInv, AskConfirmation
             PROVE  PagesInv'
  OBVIOUS
<1>1. Idle /\ masked' \in BOOLEAN
  BY MaskedIs DEF AskConfirmation, ToSave
<1>2. CurrentSecret \subseteq Secret /\ CurrentTag \subseteq Tag /\ CurrentMember \subseteq Member
  BY <1>1, IdleIs, CurrentIs
<1>3. \E c \in Confirms : Ask(c)
  <2>1. \/ \E s \in CurrentSecret : Ask(<<"secret", s>>)
        \/ \E t \in CurrentTag : Ask(<<"tag", t>>)
        \/ \E m \in CurrentMember : Ask(<<"member", m>>)
        \/ Ask(<<"other">>)
        \/ Ask(<<"compact">>)
    BY DEF AskConfirmation
  <2>2. /\ \A s \in CurrentSecret : <<"secret", s>> \in Confirms
        /\ \A t \in CurrentTag : <<"tag", t>> \in Confirms
        /\ \A m \in CurrentMember : <<"member", m>> \in Confirms
        /\ <<"other">> \in Confirms /\ <<"compact">> \in Confirms
    BY <1>2 DEF Confirms
  <2> QED
    BY <2>1, <2>2
<1> QED
  BY <1>1, <1>3, AskStep

LEMMA StartAssignmentStep == PagesInv /\ StartAssignment => PagesInv'
<1> SUFFICES ASSUME PagesInv, StartAssignment
             PROVE  PagesInv'
  OBVIOUS
<1>1. Idle /\ masked' \in BOOLEAN
  BY MaskedIs DEF StartAssignment, ToSave
<1>2. page \in HomePages /\ CursorsIn(page, state) /\ page.confirm = NoConfirm /\ state \in States
      /\ CurrentTag \subseteq Tag
  BY <1>1, IdleIs, CurrentIs
<1> DEFINE i == Hint(Hinted(state))
<1>3. PICK t \in CurrentTag : Key(Assigning(page, state, t), <<i>>)
  BY DEF StartAssignment
<1> DEFINE p == Assigning(page, state, t)
<1>4. p \in HomePages /\ HomeOK(p) /\ CursorsIn(p, state) /\ p.confirm = NoConfirm
  BY <1>2, AssigningIs
<1>5. i \in Items
  BY <1>2, HintGood DEF Items
<1>6. Key(p, <<i>>)
  BY <1>3
<1> HIDE DEF i, p
<1> QED
  BY <1>1, <1>4, <1>5, <1>6, OneItem, QuietStep

LEMMA ToggleFilterStep == PagesInv /\ ToggleFilter => PagesInv'
<1> SUFFICES ASSUME PagesInv, ToggleFilter
             PROVE  PagesInv'
  OBVIOUS
<1>1. Idle /\ masked' \in BOOLEAN
  BY MaskedIs DEF ToggleFilter
<1>2. state \in States /\ state.secrets \in Vault /\ state.filter \in SUBSET Tag /\ CurrentTag \subseteq Tag
  BY <1>1, IdleIs, CurrentIs, StateIs
<1> DEFINE i == Hint(Hinted(state))
           new(f) == [state EXCEPT !.filter = f]
           p == [page EXCEPT !.focus = "secrets"]
<1>3. PICK f \in IF page.tag_idx = 0 THEN {{}} ELSE {Flip(state.filter, t) : t \in CurrentTag} :
        Key(p, <<i, Send("filter", {}, state.secrets, new(f))>>)
  BY DEF ToggleFilter
<1>4. f \in SUBSET Tag
  BY <1>2, <1>3 DEF Flip
<1> DEFINE n == new(f)
           why == "filter"
           touched == {}
           j == Send(why, touched, state.secrets, n)
<1>5. n \in States /\ n.secrets = state.secrets
  BY <1>2, <1>4 DEF States
<1>6. Explained(state, n, touched, state.secrets)
  BY <1>5, SameExplained
<1>7. why \in Why \ {"rename"} /\ touched \in SUBSET (Secret \X Field)
  BY DEF Why
<1>8. Key(p, <<i, j>>)
  BY <1>3
<1>9. p \in HomePages /\ HomeOK(p) /\ CursorsIn(p, state) /\ p.confirm = NoConfirm
  BY <1>1, FocusIs
<1>10. i \in Items
  BY <1>2, HintGood DEF Items
<1> HIDE DEF i, n, why, touched, p
<1>11. j \in Items
  BY <1>2, <1>5, <1>6, <1>7, SendGood DEF Items
<1> HIDE DEF j
<1> QED
  BY <1>1, <1>8, <1>9, <1>10, <1>11, TwoItems, QuietStep

-----------------------------------------------------------------------------
(***************************************************************************)
(* The forms                                                               *)
(***************************************************************************)

LEMMA InFormIs ==
    ASSUME PagesInv, page.kind = "secret"
    PROVE  state \in States /\ page \in FormPages /\ FormOK(page) /\ Untouched(page)
BY DEF PagesInv, PageInv, HomeInv, HomePages, TagPages, InvitePages, FormOK

LEMMA InTagFormIs ==
    ASSUME PagesInv, page.kind = "tag"
    PROVE  state \in States /\ page \in TagPages
BY DEF PagesInv, PageInv, HomeInv, HomePages, FormPages, InvitePages

\* The same form but for where the user is in it.
SameForm(p, q) ==
    /\ p.id = q.id /\ p.text = q.text /\ p.tokens = q.tokens /\ p.touched = q.touched
    /\ p.seen = q.seen

LEMMA SameUntouched ==
    ASSUME NEW p, NEW q, SameForm(p, q), Untouched(q)
    PROVE  Untouched(p)
BY DEF SameForm, Untouched

LEMMA SwitchFieldStep == PagesInv /\ SwitchField => PagesInv'
<1> SUFFICES ASSUME PagesInv, SwitchField
             PROVE  PagesInv'
  OBVIOUS
<1>1. state \in States /\ page \in FormPages /\ Untouched(page) /\ Free
  BY InFormIs DEF SwitchField, InForm
<1>2. PICK f \in Field : Key(Completing([page EXCEPT !.focused = f]), <<>>)
  BY DEF SwitchField
<1> DEFINE p == [page EXCEPT !.focused = f]
           none == <<>>
<1>3. p \in FormPages /\ SameForm(p, page)
  BY <1>1 DEF FormPages, SameForm
<1>4. Key(Completing(p), none) /\ none \in Seq(Items)
  BY <1>2, NoItems
<1> HIDE DEF p, none
<1>5. Completing(p) \in FormPages /\ FormOK(Completing(p))
  BY <1>1, <1>3, SameUntouched, CompletingIs
<1> QED
  BY <1>1, <1>4, <1>5, FormStep

\* A key that changes only the mode of the form, or its row.
LEMMA ModeStep ==
    ASSUME PagesInv, page.kind = "secret", Free, NEW p \in FormPages, SameForm(p, page),
           p.matches = page.matches, p.idx <= Len(p.matches), NEW items \in Seq(Items),
           Key(p, items)
    PROVE  PagesInv'
<1>1. FormOK(page)
  BY InFormIs
<1>2. FormOK(p)
  <2>1. Untouched(p)
    BY <1>1, SameUntouched DEF FormOK
  <2>2. p.tokens = page.tokens
    BY DEF SameForm
  <2> QED
    BY <1>1, <2>1, <2>2 DEF FormOK
<1> QED
  BY <1>2, FormStep

LEMMA ModeIs ==
    ASSUME NEW q \in FormPages, NEW m \in {"normal", "edit", "confirm"}, NEW i \in Nat
    PROVE  /\ LET p == [q EXCEPT !.mode = m] IN
              p \in FormPages /\ SameForm(p, q) /\ p.matches = q.matches /\ p.idx = q.idx
           /\ LET p == [q EXCEPT !.idx = i] IN
              p \in FormPages /\ SameForm(p, q) /\ p.matches = q.matches /\ p.idx = i
BY DEF FormPages, SameForm

LEMMA ModeSteps == PagesInv /\ (StartEditing \/ AskSave \/ StopEditing \/ KeepEditing) => PagesInv'
<1> SUFFICES ASSUME PagesInv, StartEditing \/ AskSave \/ StopEditing \/ KeepEditing
             PROVE  PagesInv'
  OBVIOUS
<1> DEFINE i == Hint(Hinted(state))
           none == <<>>
           zero == 0
<1>1. page.kind = "secret" /\ Free
  BY DEF StartEditing, AskSave, StopEditing, KeepEditing, InForm
<1>2. page \in FormPages /\ FormOK(page) /\ state \in States
  BY <1>1, InFormIs
<1>3. i \in Items /\ none \in Seq(Items) /\ zero \in Nat
  BY <1>2, HintGood, NoItems DEF Items
<1>4. <<i>> \in Seq(Items)
  BY <1>3, OneItem
<1>5. page.idx <= Len(page.matches) /\ zero <= Len(page.matches)
  BY <1>2, LenProperties DEF FormOK, FormPages
<1>6. \/ \E m \in {"normal", "edit", "confirm"}, items \in Seq(Items) :
             Key([page EXCEPT !.mode = m], items)
      \/ \E m \in {"normal", "edit", "confirm"}, items \in Seq(Items) :
             Key([page EXCEPT !.mode = m, !.idx = zero], items)
  <2>1. CASE StartEditing
    BY <1>4, <2>1 DEF StartEditing
  <2>2. CASE AskSave
    BY <1>3, <2>2 DEF AskSave
  <2>3. CASE StopEditing
    BY <1>4, <2>3 DEF StopEditing
  <2>4. CASE KeepEditing
    BY <1>3, <2>4 DEF KeepEditing
  <2> QED
    BY <2>1, <2>2, <2>3, <2>4
<1> HIDE DEF zero
<1>7. CASE \E m \in {"normal", "edit", "confirm"}, items \in Seq(Items) :
             Key([page EXCEPT !.mode = m], items)
  <2>1. PICK m \in {"normal", "edit", "confirm"}, items \in Seq(Items) :
             Key([page EXCEPT !.mode = m], items)
    BY <1>7
  <2> DEFINE p == [page EXCEPT !.mode = m]
  <2>2. p \in FormPages /\ SameForm(p, page) /\ p.matches = page.matches /\ p.idx = page.idx
    BY <1>2, <1>3, ModeIs
  <2>3. Key(p, items)
    BY <2>1
  <2> HIDE DEF p
  <2>4. p.idx <= Len(p.matches)
    BY <1>5, <2>2
  <2> QED
    BY <1>1, <2>2, <2>3, <2>4, ModeStep
<1>8. CASE \E m \in {"normal", "edit", "confirm"}, items \in Seq(Items) :
             Key([page EXCEPT !.mode = m, !.idx = zero], items)
  <2>1. PICK m \in {"normal", "edit", "confirm"}, items \in Seq(Items) :
             Key([page EXCEPT !.mode = m, !.idx = zero], items)
    BY <1>8
  <2> DEFINE p == [page EXCEPT !.mode = m, !.idx = zero]
  <2>2. p \in FormPages /\ SameForm(p, page) /\ p.matches = page.matches /\ p.idx = zero
    BY <1>2, <1>3 DEF FormPages, SameForm
  <2>3. Key(p, items)
    BY <2>1
  <2> HIDE DEF p
  <2>4. p.idx <= Len(p.matches)
    BY <1>5, <2>2
  <2> QED
    BY <1>1, <2>2, <2>3, <2>4, ModeStep
<1> QED
  BY <1>6, <1>7, <1>8

LEMMA BrowseStep == PagesInv /\ Browse => PagesInv'
<1> SUFFICES ASSUME PagesInv, Browse
             PROVE  PagesInv'
  OBVIOUS
<1>1. page.kind = "secret" /\ Free
  BY DEF Browse, InForm
<1>2. page \in FormPages /\ FormOK(page)
  BY <1>1, InFormIs
<1> DEFINE n == Len(page.matches)
<1>3. page.idx \in Nat /\ page.idx <= n /\ n \in Nat
  BY <1>2, LenProperties DEF FormOK, FormPages
<1>4. \E i \in Nat : i <= n /\ Key([page EXCEPT !.idx = i], <<>>)
  <2>1. CASE Key([page EXCEPT !.idx = AtMost(page.idx + 1, n)], <<>>)
    <3>1. AtMost(page.idx + 1, n) \in Nat /\ AtMost(page.idx + 1, n) <= n
      BY <1>3 DEF AtMost
    <3> QED
      BY <2>1, <3>1
  <2>2. CASE page.idx > 0 /\ Key([page EXCEPT !.idx = page.idx - 1], <<>>)
    <3>1. page.idx - 1 \in Nat /\ page.idx - 1 <= n
      BY <1>3, <2>2
    <3> QED
      BY <2>2, <3>1
  <2> QED
    BY <2>1, <2>2 DEF Browse
<1>5. PICK i \in Nat : i <= n /\ Key([page EXCEPT !.idx = i], <<>>)
  BY <1>4
<1> DEFINE p == [page EXCEPT !.idx = i]
           none == <<>>
           normal == "normal"
<1>6. normal \in {"normal", "edit", "confirm"} /\ none \in Seq(Items) /\ Key(p, none)
  BY <1>5, NoItems
<1>7. p \in FormPages /\ SameForm(p, page) /\ p.matches = page.matches /\ p.idx = i
  BY <1>2, <1>6, ModeIs
<1> HIDE DEF p, none
<1>8. p.idx <= Len(p.matches)
  BY <1>5, <1>7
<1> QED
  BY <1>1, <1>6, <1>7, <1>8, ModeStep

\* A field that was typed in may hold anything.
LEMMA TypedIs ==
    ASSUME NEW q \in FormPages, Untouched(q)
    PROVE  /\ \A v \in Value : LET p == Typed([q EXCEPT !.text = v], "text") IN
                  p \in FormPages /\ Untouched(p) /\ p.tokens = q.tokens /\ p.matches = q.matches
                  /\ p.idx = q.idx
           /\ \A t \in Seq(Word \cup {Blank}), i \in Nat :
                  LET p == Typed([q EXCEPT !.tokens = t, !.idx = i], "tags") IN
                  p \in FormPages /\ Untouched(p)
           /\ \A t \in Seq(Word \cup {Blank}) :
                  LET p == Typed([q EXCEPT !.tokens = t], "tags") IN
                  p \in FormPages /\ Untouched(p)
<1>1. "text" \in Field /\ "tags" \in Field
  BY DEF Field
<1>2. ASSUME NEW v \in Value
      PROVE  LET p == Typed([q EXCEPT !.text = v], "text") IN
                  p \in FormPages /\ Untouched(p) /\ p.tokens = q.tokens /\ p.matches = q.matches
                  /\ p.idx = q.idx
  <2> DEFINE r == [q EXCEPT !.text = v]
             p == Typed(r, "text")
  <2>1. r \in FormPages
    BY DEF FormPages
  <2>2. /\ r.tokens = q.tokens /\ r.matches = q.matches /\ r.idx = q.idx /\ r.id = q.id
        /\ r.seen = q.seen /\ r.touched = q.touched
    BY DEF FormPages
  <2> HIDE DEF r
  <2>3. p \in FormPages
    BY <1>1, <2>1 DEF Typed, FormPages
  <2>4. /\ p.tokens = r.tokens /\ p.matches = r.matches /\ p.idx = r.idx /\ p.id = r.id
        /\ p.seen = r.seen /\ p.touched = r.touched \cup {"text"}
    BY <2>1 DEF Typed, FormPages
  <2> HIDE DEF p
  <2>5. Untouched(p)
    BY <2>2, <2>4 DEF Untouched
  <2> QED
    BY <2>2, <2>3, <2>4, <2>5 DEF p, r
<1>3. ASSUME NEW r \in FormPages, r.text = q.text, r.id = q.id, r.seen = q.seen, r.touched = q.touched
      PROVE  Typed(r, "tags") \in FormPages /\ Untouched(Typed(r, "tags"))
  <2> DEFINE p == Typed(r, "tags")
  <2>3. p \in FormPages
    BY <1>1 DEF Typed, FormPages
  <2>4. /\ p.text = r.text /\ p.id = r.id
        /\ p.seen = r.seen /\ p.touched = r.touched \cup {"tags"}
    BY DEF Typed, FormPages
  <2> HIDE DEF p
  <2>5. Untouched(p)
    BY <1>3, <2>4 DEF Untouched
  <2> QED
    BY <2>3, <2>5 DEF p
<1>4. ASSUME NEW t \in Seq(Word \cup {Blank}), NEW i \in Nat
      PROVE  LET p == Typed([q EXCEPT !.tokens = t, !.idx = i], "tags") IN
             p \in FormPages /\ Untouched(p)
  <2> DEFINE r == [q EXCEPT !.tokens = t, !.idx = i]
  <2>1. r \in FormPages
    BY DEF FormPages
  <2>2. r.text = q.text /\ r.id = q.id /\ r.seen = q.seen /\ r.touched = q.touched
    BY DEF FormPages
  <2> HIDE DEF r
  <2>3. Typed(r, "tags") \in FormPages /\ Untouched(Typed(r, "tags"))
    BY <1>3, <2>1, <2>2
  <2> QED
    BY <2>3 DEF r
<1>5. ASSUME NEW t \in Seq(Word \cup {Blank})
      PROVE  LET p == Typed([q EXCEPT !.tokens = t], "tags") IN
             p \in FormPages /\ Untouched(p)
  <2> DEFINE r == [q EXCEPT !.tokens = t]
  <2>1. r \in FormPages
    BY DEF FormPages
  <2>2. r.text = q.text /\ r.id = q.id /\ r.seen = q.seen /\ r.touched = q.touched
    BY DEF FormPages
  <2> HIDE DEF r
  <2>3. Typed(r, "tags") \in FormPages /\ Untouched(Typed(r, "tags"))
    BY <1>3, <2>1, <2>2
  <2> QED
    BY <2>3 DEF r
<1> QED
  BY <1>2, <1>4, <1>5

\* A key in a form after which completions are looked for again.
LEMMA CompleteStep ==
    ASSUME PagesInv, page.kind = "secret", Free, NEW p \in FormPages, Untouched(p),
           Key(Completing(p), <<>>)
    PROVE  PagesInv'
<1> DEFINE none == <<>>
<1>1. none \in Seq(Items) /\ Key(Completing(p), none)
  BY NoItems
<1>2. Completing(p) \in FormPages /\ FormOK(Completing(p))
  BY InFormIs, CompletingIs
<1> HIDE DEF none
<1> QED
  BY <1>1, <1>2, FormStep

LEMMA ClearFieldStep == PagesInv /\ ClearField => PagesInv'
<1> SUFFICES ASSUME PagesInv, ClearField
             PROVE  PagesInv'
  OBVIOUS
<1>1. page.kind = "secret" /\ Free
  BY DEF ClearField, InForm
<1>2. page \in FormPages /\ Untouched(page)
  BY <1>1, InFormIs
<1> DEFINE blank == <<Blank>>
           empty == ""
           p == Typed([page EXCEPT !.tokens = blank], "tags")
           q == Typed([page EXCEPT !.text = empty], "text")
<1>3. blank \in Seq(Word \cup {Blank})
  OBVIOUS
<1>4. empty \in Value
  BY NoSecretIs DEF NoSecret
<1>5. Key(Completing(p), <<>>) \/ Key(Completing(q), <<>>)
  BY DEF ClearField
<1> HIDE DEF blank, empty
<1>6. p \in FormPages /\ Untouched(p) /\ q \in FormPages /\ Untouched(q)
  BY <1>2, <1>3, <1>4, TypedIs
<1> HIDE DEF p, q
<1> QED
  BY <1>1, <1>5, <1>6, CompleteStep

LEMMA TypeTextStep == PagesInv /\ TypeText => PagesInv'
<1> SUFFICES ASSUME PagesInv, TypeText
             PROVE  PagesInv'
  OBVIOUS
<1>1. page.kind = "secret" /\ Free
  BY DEF TypeText, InForm
<1>2. page \in FormPages /\ Untouched(page) /\ FormOK(page)
  BY <1>1, InFormIs
<1>3. PICK v \in Value : Key(Typed([page EXCEPT !.text = v], "text"), <<>>)
  BY DEF TypeText
<1> DEFINE p == Typed([page EXCEPT !.text = v], "text")
           none == <<>>
<1>4. none \in Seq(Items) /\ Key(p, none)
  BY <1>3, NoItems
<1>5. p \in FormPages /\ Untouched(p) /\ p.tokens = page.tokens /\ p.matches = page.matches
      /\ p.idx = page.idx
  BY <1>2, TypedIs
<1> HIDE DEF p, none
<1>6. FormOK(p)
  BY <1>2, <1>5 DEF FormOK
<1> QED
  BY <1>1, <1>4, <1>5, <1>6, FormStep

LEMMA TypeTagsStep == PagesInv /\ TypeTags => PagesInv'
<1> SUFFICES ASSUME PagesInv, TypeTags
             PROVE  PagesInv'
  OBVIOUS
<1>1. page.kind = "secret" /\ Free
  BY DEF TypeTags, InForm
<1>2. page \in FormPages /\ Untouched(page)
  BY <1>1, InFormIs
<1> DEFINE zero == 0
<1>3. PICK t \in Texts \cup {page.tokens} :
        Key(Completing(IF t = page.tokens THEN [page EXCEPT !.idx = zero]
                       ELSE Typed([page EXCEPT !.tokens = t, !.idx = zero], "tags")), <<>>)
  BY DEF TypeTags
<1>4. t \in Seq(Word \cup {Blank})
  <2>1. \A n \in 1 .. MaxTokens : [1 .. n -> Word \cup {Blank}] \subseteq Seq(Word \cup {Blank})
    OBVIOUS
  <2>2. page.tokens \in Seq(Word \cup {Blank})
    BY <1>2 DEF FormPages
  <2> QED
    BY <1>3, <2>1, <2>2 DEF Texts
<1> DEFINE p == [page EXCEPT !.idx = zero]
           q == Typed([page EXCEPT !.tokens = t, !.idx = zero], "tags")
           normal == "normal"
<1>5. zero \in Nat /\ normal \in {"normal", "edit", "confirm"}
  OBVIOUS
<1>6. Key(Completing(p), <<>>) \/ Key(Completing(q), <<>>)
  BY <1>3
<1> HIDE DEF zero
<1>7. p \in FormPages /\ SameForm(p, page)
  BY <1>2, <1>5, ModeIs
<1>8. q \in FormPages /\ Untouched(q)
  BY <1>2, <1>4, <1>5, TypedIs
<1> HIDE DEF p, q
<1>9. Untouched(p)
  BY <1>2, <1>7, SameUntouched
<1> QED
  BY <1>1, <1>6, <1>7, <1>8, <1>9, CompleteStep

LEMMA FrontType ==
    ASSUME NEW S, NEW s \in Seq(S)
    PROVE  Front(s) \in Seq(S)
<1>1. CASE s = <<>>
  <2>1. Front(s) = <<>>
    BY <1>1 DEF Front
  <2> QED
    BY <2>1
<1>2. CASE s # <<>>
  BY <1>2, FrontFacts
<1> QED
  BY <1>1, <1>2

LEMMA AcceptStep == PagesInv /\ Accept => PagesInv'
<1> SUFFICES ASSUME PagesInv, Accept
             PROVE  PagesInv'
  OBVIOUS
<1>1. page.kind = "secret" /\ Free /\ page.idx > 0
  BY DEF Accept, InForm
<1>2. page \in FormPages /\ Untouched(page) /\ FormOK(page)
  BY <1>1, InFormIs
<1> DEFINE t == page.matches[page.idx]
           tokens == Inserted(page.tokens, t)
           zero == 0
           p == Typed([page EXCEPT !.tokens = tokens, !.idx = zero], "tags")
<1>3. t \in Tag
  <2>1. page.matches \in Seq(Tag) /\ page.idx \in Nat /\ page.idx <= Len(page.matches)
    BY <1>2 DEF FormOK, FormPages
  <2>2. page.idx \in 1 .. Len(page.matches)
    BY <1>1, <2>1, LenProperties
  <2> QED
    BY <2>1, <2>2, ElementOfSeq
<1> HIDE DEF t
<1>4. tokens \in Seq(Word \cup {Blank})
  <2> DEFINE W == Word \cup {Blank}
             f == Front(page.tokens)
             e == <<>>
             a == Append(t, Blank)
             h == IF f = <<Blank>> THEN e ELSE f
  <2>1. page.tokens \in Seq(W)
    BY <1>2 DEF FormPages
  <2>2. f \in Seq(W) /\ e \in Seq(W)
    BY <2>1, FrontType
  <2>3. t \in Seq(W)
    <3>1. t \in Seq(Word)
      BY <1>3, PagesAssumption
    <3>2. \A s \in Seq(Word) : s \in Seq(W)
      OBVIOUS
    <3> QED
      BY <3>1, <3>2
  <2>4. a \in Seq(W)
    BY <2>3, AppendProperties
  <2>5. tokens = h \o a
    BY DEF Inserted
  <2> HIDE DEF W, f, e, a
  <2>6. h \in Seq(W)
    BY <2>2
  <2> HIDE DEF h, tokens
  <2>7. tokens \in Seq(W)
    BY <2>4, <2>5, <2>6, ConcatProperties
  <2> QED
    BY <2>7 DEF W
<1>5. Key(Completing(p), <<>>) /\ zero \in Nat
  BY DEF Accept, Accepted, t
<1> HIDE DEF tokens, zero
<1>6. p \in FormPages /\ Untouched(p)
  BY <1>2, <1>4, <1>5, TypedIs
<1> HIDE DEF p
<1> QED
  BY <1>1, <1>5, <1>6, CompleteStep

LEMMA SplitType ==
    ASSUME NEW tokens \in Seq(Word \cup {Blank})
    PROVE  Split(tokens) \in Seq(Tag)
<1> DEFINE ws == Only(tokens, Word)
<1>1. OnlyIs(Word \cup {Blank}, tokens, Word)
  BY OnlyFacts
<1>2. Split(tokens) = [i \in DOMAIN ws |-> <<ws[i]>>]
  BY DEF Split
<1>3. \A w \in Word : <<w>> \in Tag
  BY PagesAssumption
<1> HIDE DEF ws
<1>4. ws \in Seq(Word \cup {Blank}) /\ ToSet(ws) \subseteq Word
  BY <1>1 DEF OnlyIs, ws
<1>5. DOMAIN ws = 1 .. Len(ws) /\ Len(ws) \in Nat /\ \A i \in DOMAIN ws : ws[i] \in Word
  BY <1>4, LenProperties DEF ToSet
<1>6. \A i \in 1 .. Len(ws) : <<ws[i]>> \in Tag
  BY <1>3, <1>5
<1> QED
  BY <1>2, <1>5, <1>6

LEMMA SubmitStep == PagesInv /\ Submit => PagesInv'
<1> SUFFICES ASSUME PagesInv, Submit
             PROVE  PagesInv'
  OBVIOUS
<1> DEFINE e == [text |-> page.text, tags |-> Split(page.tokens)]
           home == <<"Home">>
           go == Go(home)
<1>1. page.kind = "secret" /\ masked' = masked
  BY DEF Submit, InForm
<1>2. page \in FormPages /\ Untouched(page) /\ FormOK(page) /\ state \in States
  BY <1>1, InFormIs
<1>3. Split(page.tokens) \in Seq(Tag) /\ page.text \in Value /\ page.seen \in Vault
      /\ page.touched \in SUBSET Field /\ page.id \in Secret \cup {NoId}
  BY <1>2, SplitType DEF FormPages
<1>4. e \in Entry
  BY <1>3 DEF Entry
<1>5. go \in Items
  BY GoIs DEF Routes
<1>6. masked' \in BOOLEAN
  BY <1>1 DEF PagesInv
<1>7. ASSUME NEW i \in Items, Key(page, <<i, go>>)
      PROVE  PagesInv'
  <2> HIDE DEF go
  <2>1. <<i, go>> \in Seq(Items)
    BY <1>5, TwoItems
  <2>2. PageInv(page, state, queue \o <<i, go>>, masked')
    BY <1>2 DEF PageInv
  <2> QED
    BY <1>6, <1>7, <2>1, <2>2, KeyStep
<1>8. CASE page.id # NoId
  <2> DEFINE why == "edit"
             touched == {page.id} \X page.touched
             n == WithUpdated(state, page.id, e)
             i == Send(why, touched, page.seen, n)
  <2>1. Key(page, <<i, go>>)
    BY <1>8 DEF Submit
  <2>2. page.id \in Secret
    BY <1>3, <1>8
  <2>3. n \in States /\ Explained(state, n, touched, page.seen)
    BY <1>2, <1>3, <2>2, EditGood
  <2>4. why \in Why \ {"rename"} /\ touched \in SUBSET (Secret \X Field)
    BY <1>3, <2>2 DEF Why
  <2> HIDE DEF why, touched, n, e, go
  <2>5. i \in Items
    BY <1>2, <1>3, <2>3, <2>4, SendGood DEF Items
  <2> HIDE DEF i
  <2> QED
    BY <1>7, <2>1, <2>5
<1>9. CASE page.id = NoId
  <2>1. PICK s \in Secret :
          Key(page, <<Send("add", {s} \X Field, page.seen, WithSecret(state, s, e)), go>>)
    BY <1>9 DEF Submit, Secret
  <2> DEFINE why == "add"
             touched == {s} \X Field
             n == WithSecret(state, s, e)
             i == Send(why, touched, page.seen, n)
  <2>2. Key(page, <<i, go>>)
    BY <2>1
  <2> HIDE DEF e, go
  <2>3. n \in States /\ \A x : x # s => Content(n, x) = Content(state, x)
    BY <1>2, <1>4, WithSecretFacts
  <2> HIDE DEF n
  <2>4. Explained(state, n, touched, page.seen)
    BY <2>3, OneExplained
  <2>5. why \in Why \ {"rename"} /\ touched \in SUBSET (Secret \X Field)
    BY DEF Why
  <2> HIDE DEF why, touched
  <2>6. i \in Items
    BY <1>2, <1>3, <2>3, <2>4, <2>5, SendGood DEF Items
  <2> HIDE DEF i
  <2> QED
    BY <1>7, <2>2, <2>6
<1> QED
  BY <1>8, <1>9

LEMMA DiscardStep == PagesInv /\ Discard => PagesInv'
<1> SUFFICES ASSUME PagesInv, Discard
             PROVE  PagesInv'
  OBVIOUS
<1> DEFINE home == <<"Home">>
<1>1. page.kind = "secret" /\ Free /\ Key(page, <<Go(home)>>)
  BY DEF Discard, InForm
<1>2. page \in FormPages /\ FormOK(page)
  BY <1>1, InFormIs
<1>3. <<Go(home)>> \in Seq(Items)
  BY GoIs, OneItem DEF Routes
<1> QED
  BY <1>1, <1>2, <1>3, FormStep

-----------------------------------------------------------------------------
\* A form of a tag is right whatever was sent.
LEMMA TagStep ==
    ASSUME PagesInv, NEW p \in TagPages, NEW items \in Seq(Items), Key(p, items), masked' = masked
    PROVE  PagesInv'
<1>1. masked' \in BOOLEAN
  BY DEF PagesInv
<1>2. PageInv(p, state, queue \o items, masked')
  BY DEF PageInv
<1> QED
  BY <1>1, <1>2, KeyStep

LEMMA TypeNameStep == PagesInv /\ TypeName => PagesInv'
<1> SUFFICES ASSUME PagesInv, TypeName
             PROVE  PagesInv'
  OBVIOUS
<1>1. page.kind = "tag" /\ masked' = masked
  BY DEF TypeName, Free
<1>2. page \in TagPages
  BY <1>1, InTagFormIs
<1>3. PICK n \in Tag \cup {NoTag} : Key([page EXCEPT !.name = n], <<>>)
  BY DEF TypeName, NoTag
<1> DEFINE p == [page EXCEPT !.name = n]
           none == <<>>
<1>4. p \in TagPages
  BY <1>2 DEF TagPages
<1>5. none \in Seq(Items) /\ Key(p, none)
  BY <1>3, NoItems
<1> HIDE DEF p, none
<1> QED
  BY <1>1, <1>4, <1>5, TagStep

LEMMA CloseTagFormStep == PagesInv /\ (CloseTagForm \/ NewTag) => PagesInv'
<1> SUFFICES ASSUME PagesInv, CloseTagForm \/ NewTag
             PROVE  PagesInv'
  OBVIOUS
<1>1. page.kind = "tag" /\ masked' = masked
  BY DEF CloseTagForm, NewTag, Free
<1>2. page \in TagPages
  BY <1>1, InTagFormIs
<1>3. \E r \in Routes : Key(page, <<Go(r)>>)
  <2>1. CASE CloseTagForm
    BY <2>1 DEF CloseTagForm, Routes
  <2>2. CASE NewTag
    <3>1. page.name \in Tag
      BY <1>2, <2>2 DEF NewTag, TagPages, NoTag
    <3>2. <<"HomeWithTagAssignment", page.name>> \in Routes
      BY <3>1 DEF Routes
    <3> QED
      BY <2>2, <3>2 DEF NewTag
  <2> QED
    BY <2>1, <2>2
<1>4. PICK r \in Routes : Key(page, <<Go(r)>>)
  BY <1>3
<1>5. <<Go(r)>> \in Seq(Items)
  BY GoIs, OneItem
<1> QED
  BY <1>1, <1>2, <1>4, <1>5, TagStep

LEMMA RenameTagStep == PagesInv /\ RenameTag => PagesInv'
<1> SUFFICES ASSUME PagesInv, RenameTag
             PROVE  PagesInv'
  OBVIOUS
<1> DEFINE old == page.old
           new == page.name
           n == WithRenamed(state, old, new)
           touched == Carrying(state, old) \X {"tags"}
           retired == {old}
           why == "rename"
           i == Retire(why, touched, retired, n)
           home == <<"Home">>
           go == Go(home)
<1>1. page.kind = "tag" /\ masked' = masked /\ old # NoTag /\ new \notin {<<>>, old}
      /\ Key(page, <<i, go>>)
  BY DEF RenameTag
<1>2. page \in TagPages /\ state \in States
  BY <1>1, InTagFormIs
<1>3. old \in Tag /\ new \in Tag /\ old # new
  BY <1>1, <1>2 DEF TagPages, NoTag
<1>4. /\ n \in States /\ old \notin UsedTags(n) \cup n.filter
      /\ Explained(state, n, touched, state.secrets)
      /\ ToSet(filtered_secrets(state)) \subseteq ToSet(filtered_secrets(n))
  BY <1>2, <1>3, RenameGood
<1>5. touched \in SUBSET (Secret \X Field) /\ retired \in SUBSET Tag /\ why \in Why
  BY <1>2, <1>3, StateIs DEF Why, Field, Carrying
<1>6. go \in Items
  BY GoIs DEF Routes
<1> HIDE DEF n, go
<1>7. retired \cap (UsedTags(n) \cup n.filter) = {}
  BY <1>4
<1> HIDE DEF touched, retired, why
<1>8. i \in Items
  BY <1>2, <1>4, <1>5, <1>7, RetireGood DEF Items
<1> HIDE DEF i
<1> QED
  BY <1>1, <1>2, <1>6, <1>8, TwoItems, TagStep

-----------------------------------------------------------------------------
(***************************************************************************)
(* The loop, and the theorems                                              *)
(***************************************************************************)

\* The page is given a new State.
LEMMA UpdateStep ==
    ASSUME PagesInv, NEW st \in States, NEW q, NEW m \in BOOLEAN,
           AtHome => page.confirm = NoConfirm \/ m \/ Pending(q, st)
    PROVE  PageInv(Updated(page, st), st, q, m)
<1>1. CASE HomeInv(page, state, queue, masked)
  <2>1. page \in HomePages /\ HomeOK(page) /\ page.kind = "home"
    BY <1>1 DEF HomeInv, HomePages
  <2>2. page.confirm = NoConfirm \/ m \/ Pending(q, st)
    BY <2>1 DEF AtHome
  <2>3. /\ Updated(page, st) \in HomePages /\ CursorsIn(Updated(page, st), st)
        /\ Updated(page, st).confirm = page.confirm /\ HomeOK(Updated(page, st))
    BY <2>1, UpdatedIs
  <2> QED
    BY <2>2, <2>3 DEF PageInv, HomeInv
<1>2. CASE page \in FormPages /\ FormOK(page)
  <2>1. Updated(page, st) = page
    BY <1>2 DEF Updated, FormPages
  <2> QED
    BY <1>2, <2>1 DEF PageInv
<1>3. CASE page \in TagPages \cup InvitePages
  <2>1. Updated(page, st) = page
    BY <1>3 DEF Updated, TagPages, InvitePages
  <2> QED
    BY <1>3, <2>1 DEF PageInv
<1> QED
  BY <1>1, <1>2, <1>3 DEF PagesInv, PageInv

\* A question that waits has its warning in the footer or in the queue.
LEMMA WarnedIs ==
    ASSUME PagesInv, AtHome
    PROVE  page.confirm = NoConfirm \/ masked \/ Pending(queue, state)
BY DEF PagesInv, AtHome, PageInv, HomeInv, FormPages, TagPages, InvitePages

LEMMA QueueHead ==
    ASSUME PagesInv, queue # <<>>
    PROVE  Head(queue) \in Items /\ Tail(queue) \in Seq(Items) /\ (Len(queue) > 1 <=> Tail(queue) # <<>>)
<1>1. queue \in Seq(Items)
  BY DEF PagesInv
<1>2. Head(queue) \in Items /\ Tail(queue) \in Seq(Items) /\ Len(Tail(queue)) = Len(queue) - 1
  BY <1>1, HeadTailProperties
<1>3. Len(queue) \in Nat
  BY <1>1, LenProperties
<1>4. Tail(queue) # <<>> <=> Len(Tail(queue)) # 0
  BY <1>2, EmptySeq
<1>5. Len(queue) # 0
  BY <1>1, EmptySeq
<1> QED
  BY <1>2, <1>3, <1>4, <1>5

LEMMA SetStateStep == PagesInv /\ SetState => PagesInv'
<1> SUFFICES ASSUME PagesInv, SetState
             PROVE  PagesInv'
  OBVIOUS
<1> DEFINE more == Len(queue) > 1
           lost == masked \/ (Head(queue).why = "late" /\ AtHome /\ ~Idle)
<1>1. queue # <<>> /\ Head(queue).why # "go" /\ state' = Head(queue).state
      /\ page' = Updated(page, state') /\ queue' = Tail(queue) /\ draining' = more
      /\ masked' = lost /\ timers' = timers
  BY DEF SetState
<1>2. Head(queue) \in Items /\ Tail(queue) \in Seq(Items) /\ (more <=> Tail(queue) # <<>>)
  BY <1>1, QueueHead
<1>3. Head(queue).state \in States /\ masked \in BOOLEAN /\ queue \in Seq(Items)
  BY <1>1, <1>2, ItemKinds DEF PagesInv
<1>4. lost \in BOOLEAN /\ more \in BOOLEAN
  BY <1>3
<1> DEFINE st == Head(queue).state
           q == Tail(queue)
<1>5. ASSUME AtHome
      PROVE  page.confirm = NoConfirm \/ lost \/ Pending(q, st)
  <2>1. CASE page.confirm = NoConfirm \/ masked \/ Head(queue).why = "late"
    BY <1>5, <2>1 DEF Idle
  <2>2. CASE page.confirm # NoConfirm /\ ~masked /\ Head(queue).why # "late"
    <3>1. Pending(queue, state)
      BY <1>5, <2>2, WarnedIs
    <3>2. /\ Len(queue) \in Nat /\ Len(queue) # 0 /\ DOMAIN queue = 1 .. Len(queue)
          /\ Head(queue) = queue[1] /\ DOMAIN q = 1 .. Len(queue) - 1
          /\ \A n \in DOMAIN q : q[n] = queue[n + 1]
      BY <1>1, <1>2, <1>3, EmptySeq, LenProperties, HeadTailProperties
    <3>3. PICK k \in DOMAIN queue : queue[k] \in Good /\ queue[k].state.warning /\ LateAfter(queue, k)
      BY <2>2, <3>1, <3>2 DEF Pending, LateAfter
    <3> HIDE DEF q
    <3>4. LateAfter(q, k - 1)
      BY <3>2, <3>3 DEF LateAfter
    <3>5. CASE k = 1
      BY <3>2, <3>3, <3>4, <3>5 DEF Pending
    <3>6. CASE k # 1
      <4>1. k - 1 \in DOMAIN q /\ q[k - 1] = queue[k]
        BY <3>2, <3>3, <3>6
      <4> QED
        BY <3>3, <3>4, <4>1 DEF Pending
    <3> QED
      BY <3>5, <3>6
  <2> QED
    BY <1>3, <2>1, <2>2
<1> HIDE DEF st, q, more, lost
<1>6. PageInv(Updated(page, st), st, q, lost)
  BY <1>3, <1>4, <1>5, UpdateStep DEF st
<1>7. PageInv(page', state', queue', masked')
  BY <1>1, <1>6 DEF st, q
<1>8. queue' \in Seq(Items) /\ draining' \in BOOLEAN /\ (draining' => queue' # <<>>)
  BY <1>1, <1>2, <1>4
<1>9. state' \in States /\ masked' \in BOOLEAN /\ timers' \subseteq {i \in Good : i.why = "late"}
  BY <1>1, <1>3, <1>4 DEF PagesInv
<1> QED
  BY <1>7, <1>8, <1>9 DEF PagesInv

LEMMA NavigateStep == PagesInv /\ NavigateTo => PagesInv'
<1> SUFFICES ASSUME PagesInv, NavigateTo
             PROVE  PagesInv'
  OBVIOUS
<1> DEFINE i == Hint(Hinted(state))
           r == Head(queue).route
<1>1. queue # <<>> /\ Head(queue).why = "go" /\ page' = Opened(r, state)
      /\ queue' = Append(Tail(queue), i) /\ draining' = TRUE /\ masked' = FALSE /\ state' = state
      /\ timers' = timers
  BY DEF NavigateTo
<1>2. Head(queue) \in Items /\ Tail(queue) \in Seq(Items) /\ state \in States
  BY <1>1, QueueHead DEF PagesInv
<1>3. r \in Routes
  BY <1>1, <1>2, ItemKinds DEF Going
<1>4. i \in Items
  BY <1>2, HintGood DEF Items
<1> HIDE DEF i, r
<1>5. queue' \in Seq(Items) /\ queue' # <<>>
  BY <1>1, <1>2, <1>4, AppendProperties
<1>6. \/ page' \in HomePages /\ HomeOK(page') /\ CursorsIn(page', state) /\ page'.confirm = NoConfirm
      \/ page' \in FormPages /\ FormOK(page')
      \/ page' \in TagPages
      \/ page' \in InvitePages
  BY <1>1, <1>2, <1>3, OpenedIs
<1>7. PageInv(page', state', queue', masked')
  BY <1>1, <1>6 DEF PageInv, HomeInv
<1> QED
  BY <1>1, <1>2, <1>5, <1>7 DEF PagesInv

LEMMA ReceivedIs ==
    ASSUME NEW st \in States, NEW n \in Received(st)
    PROVE  n \in States /\ n.warning = st.warning
<1>1. CASE \E s \in DOMAIN st.secrets : n = WithDeleted(st, {s})
  BY <1>1, WithDeletedFacts
<1>2. CASE \E s \in Secret, e \in Pulled : n = WithSecret(st, s, e)
  <2>1. Pulled \subseteq Entry
    BY PagesAssumption
  <2> QED
    BY <1>2, <2>1, WithSecretFacts
<1>3. CASE n = [st EXCEPT !.members = {Me}]
  <2>1. {Me} \in SUBSET Member
    BY PagesAssumption DEF Member
  <2> QED
    BY <1>3, <2>1 DEF States
<1> QED
  BY <1>1, <1>2, <1>3 DEF Received, Secret

LEMMA SyncDoneStep == PagesInv /\ SyncDone => PagesInv'
<1> SUFFICES ASSUME PagesInv, SyncDone
             PROVE  PagesInv'
  OBVIOUS
<1>1. state' \in Received(state) /\ page' = Updated(page, state') /\ queue' = queue
      /\ draining' = draining /\ masked' = masked /\ timers' = timers
  BY DEF SyncDone
<1>2. state \in States /\ masked \in BOOLEAN
  BY DEF PagesInv
<1> DEFINE st == state'
<1>3. st \in States /\ st.warning = state.warning
  BY <1>1, <1>2, ReceivedIs
<1> HIDE DEF st
<1>4. AtHome => page.confirm = NoConfirm \/ masked \/ Pending(queue, st)
  BY <1>3, WarnedIs DEF Pending
<1>5. PageInv(Updated(page, st), st, queue, masked)
  BY <1>2, <1>3, <1>4, UpdateStep
<1>6. PageInv(page', state', queue', masked')
  BY <1>1, <1>5 DEF st
<1> QED
  BY <1>1, <1>3, <1>6 DEF PagesInv, st

-----------------------------------------------------------------------------
(***************************************************************************)
(* The page with an invite                                                 *)
(***************************************************************************)

LEMMA InvitePageIs ==
    ASSUME PagesInv, page.kind = "invite"
    PROVE  state \in States /\ page \in InvitePages
BY DEF PagesInv, PageInv, HomeInv, HomePages, FormPages, TagPages

\* A State sent as it is.
LEMMA LateIs ==
    ASSUME state \in States
    PROVE  Hint(state) \in Good /\ Late \in Good /\ Late.why = "late"
<1>1. Explained(state, state, {}, state.secrets)
  BY SameExplained
<1> DEFINE none == {}
           why(w) == w
<1>2. /\ none \in SUBSET (Secret \X Field) /\ none \in SUBSET Tag
      /\ none \cap (UsedTags(state) \cup state.filter) = {}
      /\ Explained(state, state, none, state.secrets)
  BY <1>1
<1> HIDE DEF none
<1>3. \A w \in Why \ {"rename"} : Retire(w, none, none, state) \in Good
  BY <1>2, RetireGood
<1>4. Retire("hint", none, none, state) \in Good /\ Retire("late", none, none, state) \in Good
  BY <1>3 DEF Why
<1>5. Late.why = "late"
  BY DEF Late, Retire
<1> QED
  BY <1>4, <1>5 DEF Hint, Late, none

LEMMA InviteStep == PagesInv /\ InviteKey => PagesInv'
<1> SUFFICES ASSUME PagesInv, InviteKey
             PROVE  PagesInv'
  OBVIOUS
<1>1. page.kind = "invite" /\ masked' \in BOOLEAN
  BY MaskedIs DEF InviteKey, CopyToken, CloseInvite
<1>2. state \in States /\ page \in InvitePages
  BY <1>1, InvitePageIs
<1>3. \A items : PageInv(page, state, queue \o items, masked')
  BY <1>2 DEF PageInv
<1>4. CASE CopyToken
  <2> DEFINE i == Hint(state)
  <2>1. Pressed(page, <<i>>) /\ timers' = timers \cup {Late}
    BY <1>4 DEF CopyToken
  <2>2. i \in Items /\ timers' \subseteq {x \in Good : x.why = "late"}
    BY <1>2, <2>1, LateIs DEF Items, PagesInv
  <2> HIDE DEF i
  <2> QED
    BY <1>1, <1>3, <2>1, <2>2, OneItem, PressedStep
<1>5. CASE CloseInvite
  <2> DEFINE home == <<"Home">>
             go == Go(home)
  <2>1. Key(page, <<go>>)
    BY <1>5 DEF CloseInvite
  <2>2. go \in Items
    BY GoIs DEF Routes
  <2> HIDE DEF go
  <2> QED
    BY <1>1, <1>3, <2>1, <2>2, OneItem, KeyStep
<1> QED
  BY <1>4, <1>5 DEF InviteKey

\* A late State behind the others changes nothing before it is applied.
LEMMA PendingLate ==
    ASSUME NEW q \in Seq(Items), NEW i \in Items, i.why = "late", NEW st, Pending(q, st)
    PROVE  Pending(Append(q, i), st)
<1> DEFINE n == Len(q) + 1
           r == Append(q, i)
<1>1. /\ Len(q) \in Nat /\ DOMAIN q = 1 .. Len(q) /\ DOMAIN r = 1 .. n /\ r[n] = i
      /\ \A k \in DOMAIN q : r[k] = q[k]
  BY AppendProperties, LenProperties
<1> HIDE DEF r
<1>2. \A k \in Nat : LateAfter(q, k) => LateAfter(r, k)
  BY <1>1 DEF LateAfter
<1>3. CASE st.warning /\ LateAfter(q, 0)
  BY <1>2, <1>3 DEF Pending, r
<1>4. CASE \E k \in DOMAIN q : q[k] \in Good /\ q[k].state.warning /\ LateAfter(q, k)
  <2>1. PICK k \in DOMAIN q : q[k] \in Good /\ q[k].state.warning /\ LateAfter(q, k)
    BY <1>4
  <2>2. k \in DOMAIN r /\ r[k] = q[k] /\ LateAfter(r, k)
    BY <1>1, <1>2, <2>1
  <2> QED
    BY <2>1, <2>2 DEF Pending, r
<1> QED
  BY <1>3, <1>4 DEF Pending

LEMMA TimerStep == PagesInv /\ TimerFires => PagesInv'
<1> SUFFICES ASSUME PagesInv, TimerFires
             PROVE  PagesInv'
  OBVIOUS
<1>1. PICK i \in timers : queue' = Append(queue, i) /\ timers' = timers \ {i}
  BY DEF TimerFires
<1>2. /\ state' = state /\ page' = page /\ draining' = draining /\ masked' = masked
  BY DEF TimerFires, Free
<1>3. i \in Items /\ i.why = "late" /\ queue \in Seq(Items)
  BY DEF PagesInv, Items
<1>4. queue' \in Seq(Items) /\ queue' # <<>>
  BY <1>1, <1>3, AppendProperties
<1>5. Pending(queue, state) => Pending(queue', state)
  BY <1>1, <1>3, PendingLate
<1>6. PageInv(page', state', queue', masked')
  BY <1>2, <1>5 DEF PagesInv, PageInv, HomeInv
<1> QED
  BY <1>1, <1>2, <1>4, <1>6 DEF PagesInv

LEMMA PagesInit == Init => PagesInv
<1> SUFFICES ASSUME Init
             PROVE  PagesInv
  OBVIOUS
<1>1. PICK o \in Opening : state = [secrets |-> o, filter |-> {}, members |-> ToSet(Members),
                                    warning |-> FALSE]
  BY DEF Init
<1>2. o \in Vault
  BY PagesAssumption, VaultIs DEF Secret
<1>3. state \in States
  BY <1>1, <1>2 DEF States, Member
<1>4. page = Home /\ queue = <<>> /\ draining = FALSE /\ masked = FALSE /\ timers = {}
  BY DEF Init
<1>5. PageInv(page, state, queue, masked)
  BY <1>3, <1>4, HomeIs DEF PageInv, HomeInv
<1>6. queue \in Seq(Items)
  BY <1>4, NoItems
<1> QED
  BY <1>3, <1>4, <1>5, <1>6 DEF PagesInv

LEMMA PagesNext == PagesInv /\ [Next]_vars => PagesInv'
<1> SUFFICES ASSUME PagesInv, [Next]_vars
             PROVE  PagesInv'
  OBVIOUS
<1>1. CASE HomeKey
  BY <1>1, SaveAssignmentStep, CancelAssignmentStep, ConfirmTagDeleteStep, ConfirmSecretDeleteStep,
     ConfirmMemberDeleteStep, OtherAnswerStep, MoveCursorStep, ToggleAssignmentStep, SwitchPaneStep,
     LeaveHomeStep, AskConfirmationStep, StartAssignmentStep, ToggleFilterStep DEF HomeKey
<1>2. CASE SecretFormKey
  BY <1>2, SwitchFieldStep, ModeSteps, ClearFieldStep, TypeTextStep, TypeTagsStep, BrowseStep,
     AcceptStep, SubmitStep, DiscardStep DEF SecretFormKey
<1>3. CASE TagFormKey
  BY <1>3, TypeNameStep, CloseTagFormStep, RenameTagStep DEF TagFormKey
<1>4. CASE UNCHANGED vars
  BY <1>4 DEF vars, PagesInv
<1> QED
  BY <1>1, <1>2, <1>3, <1>4, InviteStep, TimerStep, SetStateStep, NavigateStep, SyncDoneStep DEF Next

\* The inductive invariant holds whatever keys are hit and pulls end.
THEOREM PagesSafe == Spec => []PagesInv
BY PagesInit, PagesNext, PTL DEF Spec

LEMMA PagesTypeOK == PagesInv => TypeOK
<1> SUFFICES ASSUME PagesInv
             PROVE  TypeOK
  OBVIOUS
<1>1. state \in States
  BY DEF PagesInv
<1>2. \A s \in DOMAIN state.secrets : s \in ToSet(Secrets) /\ state.secrets[s] \in Entry
  BY <1>1, StateIs DEF Secret
<1>3. state.filter \subseteq Tag /\ state.members \subseteq ToSet(Members)
  BY <1>1, StateIs DEF Member
<1>4. ASSUME page.kind = "home"
      PROVE  /\ page.focus \in {"secrets", "tags", "members"}
             /\ page.editing_tag \in Tag \cup {NoTag}
             /\ page.chosen \subseteq ToSet(Secrets)
  BY <1>4, AtHomeIs DEF AtHome, HomePages, Secret
<1>5. ASSUME page.kind = "secret"
      PROVE  /\ page.mode \in {"normal", "edit", "confirm"}
             /\ page.text \in Value /\ page.tokens \in Seq(Word \cup {Blank})
             /\ page.idx \in 0 .. Len(page.matches)
  <2>1. page \in FormPages /\ page.idx <= Len(page.matches)
    BY <1>5, InFormIs DEF FormOK
  <2>2. page.idx \in Nat /\ Len(page.matches) \in Nat
    BY <2>1, LenProperties DEF FormPages
  <2> QED
    BY <2>1, <2>2 DEF FormPages
<1>6. draining => queue # <<>>
  BY DEF PagesInv
<1> QED
  BY <1>2, <1>3, <1>4, <1>5, <1>6 DEF TypeOK

\* State, page and drain stay of their kinds (router.rs, state.rs); the row of
\* the completions is one of theirs.
THEOREM PagesTypes == Spec => []TypeOK
BY PagesSafe, PagesTypeOK, PTL

LEMMA PagesNoDeadCursor == PagesInv => NoDeadCursor
BY AtHomeIs DEF AtHome, NoDeadCursor, CursorsIn

\* However lists shrink, each cursor of the home page is on a row that exists
\* (the components' update, home.rs).
THEOREM CursorsAlive == Spec => []NoDeadCursor
BY PagesSafe, PagesNoDeadCursor, PTL

LEMMA PagesMatchesFit == PagesInv => MatchesFitText
BY InFormIs DEF MatchesFitText, FormOK, Fits

\* Completions always belong to the text beside them (update_tag_ac in
\* secret_form.rs, called by some keys and not by others).
THEOREM CompletionsFit == Spec => []MatchesFitText
BY PagesSafe, PagesMatchesFit, PTL

LEMMA PagesQuestion == PagesInv => QuestionShown
<1> SUFFICES ASSUME PagesInv, queue = <<>>, ~masked, page.kind = "home"
             PROVE  page.confirm = NoConfirm \/ state.warning
  BY DEF QuestionShown
<1>1. page.confirm = NoConfirm \/ Pending(queue, state)
  BY WarnedIs DEF AtHome
<1>2. DOMAIN queue = {}
  OBVIOUS
<1> QED
  BY <1>1, <1>2 DEF Pending

\* A question that waits for its answer is in the footer, unless assignment mode
\* was left or the late State of the invite page came meanwhile (home.rs,
\* invite.rs:118-124, mod.rs:171-174).
THEOREM QuestionsShown == Spec => []QuestionShown
BY PagesSafe, PagesQuestion, PTL

LEMMA AppliedGood ==
    ASSUME PagesInv, Applies
    PROVE  /\ Explained(state, state', Head(queue).touched, Head(queue).seen)
           /\ Head(queue).retired \cap (UsedTags(state') \cup state'.filter) = {}
           /\ Head(queue).why = "rename" =>
                ToSet(filtered_secrets(state)) \subseteq ToSet(filtered_secrets(state'))
<1> DEFINE i == Head(queue)
<1>1. queue # <<>> /\ i.why # "go" /\ i.base = state /\ state' = i.state
  BY DEF Applies, SetState
<1>2. i \in Good
  BY <1>1, QueueHead, ItemKinds
<1> HIDE DEF i
<1>3. Explained(i.base, i.state, i.touched, i.seen) /\ Complete(i)
  BY <1>2 DEF Good
<1> QED
  BY <1>1, <1>3 DEF i, Complete

\* A page sends whole secrets, yet a save changes no field but those the user
\* asked to change and those a pull changed after the page had read them
\* (secret_form.rs, home.rs, state.rs).
THEOREM SavesTouchNoMore == Spec => OnlyTouched
<1>1. PagesInv /\ [Next]_vars =>
        [Applies => \A s \in ToSet(Secrets), f \in Field :
            \/ Content(state', s)[f] = Content(state, s)[f]
            \/ <<s, f>> \in Head(queue).touched
            \/ Content(state, s)[f] # Content([secrets |-> Head(queue).seen], s)[f]
            \/ f = "tags" /\ \E t \in TagsOf(Content(state, s)) : Len(t) > 1]_vars
  BY AppliedGood DEF Explained, Read, Secret
<1> QED
  BY <1>1, PagesSafe, PTL DEF Spec, OnlyTouched

\* Renaming or deleting a tag leaves it nowhere, and renaming hides no secret
\* that the filter showed (with_tag_renamed, with_tag_deleted in state.rs).
THEOREM TagOperationsWhole == Spec => TagOpsComplete
<1>1. PagesInv /\ [Next]_vars =>
        [Applies =>
            /\ Head(queue).retired \cap (UsedTags(state') \cup state'.filter) = {}
            /\ Head(queue).why = "rename" =>
                ToSet(filtered_secrets(state)) \subseteq ToSet(filtered_secrets(state'))]_vars
  BY AppliedGood
<1> QED
  BY <1>1, PagesSafe, PTL DEF Spec, TagOpsComplete
===============================================================================
