---------------------------- MODULE ExecRun_proofs ----------------------------
(***************************************************************************)
(* Proofs about ExecRun: what is left of the files, what the rewriting of  *)
(* arguments keeps, and what the child is started with.                    *)
(***************************************************************************)
EXTENDS ExecRun, SequenceLemmas

(***************************************************************************)
(* Files                                                                   *)
(***************************************************************************)

\* Files are made in a directory, a directory is made unless this is a dry
\* run, and until the child runs the files are those of the templates found.
FilesInv ==
    /\ outcome \in {"exit", "shown", "refused"} => ~dir /\ files = {}
    /\ pc = "start" => ~dir /\ files = {} /\ paths = {}
    /\ pc # "ended" => outcome = "none"
    /\ given.dryRun => ~dir
    /\ ~dir => files = {}
    /\ pc = "files" /\ ~given.dryRun /\ todo # <<>> => dir
    /\ pc \in {"files", "subst", "child"} /\ ~given.dryRun => files = paths
    /\ pc = "child" => ~given.dryRun

LEMMA InitFiles == Init => FilesInv
BY DEF Init, FilesInv

LEMMA FilesInvStep == FilesInv /\ [Next]_vars => FilesInv'
<1> SUFFICES ASSUME FilesInv, [Next]_vars
             PROVE  FilesInv'
  OBVIOUS
<1>1. CASE Refuse
  BY <1>1 DEF FilesInv, Refuse, Stop, End, temp, command
<1>2. CASE Unlocked
  BY <1>2 DEF FilesInv, Unlocked, command
<1>3. CASE WriteFile
  BY <1>3 DEF FilesInv, WriteFile, command
<1>4. CASE WriteFails
  BY <1>4 DEF FilesInv, WriteFails, End, command
<1>5. CASE LookedUp
  BY <1>5 DEF FilesInv, LookedUp, Stop, End, temp, command
<1>6. CASE Replace
  BY <1>6 DEF FilesInv, Replace, temp
<1>7. CASE Show
  BY <1>7 DEF FilesInv, Show, Stop, End, temp, command
<1>8. CASE Start
  BY <1>8 DEF FilesInv, Start, Stop, End, temp, command
<1>9. CASE ChildExits
  BY <1>9 DEF FilesInv, ChildExits, End, command
<1>10. CASE Killed
  BY <1>10 DEF FilesInv, Killed, Stop, End, temp, command
<1>11. CASE UNCHANGED vars
  BY <1>11 DEF FilesInv, vars, temp, command
<1> QED
  BY <1>1, <1>2, <1>3, <1>4, <1>5, <1>6, <1>7, <1>8, <1>9, <1>10, <1>11 DEF Next

\* No file is left of a command that ran to its end, was refused or was only
\* shown, and the child finds the files of all templates that have a secret
\* (the temporary directory of exec).
THEOREM NoFilesLeft == Spec => []FilesGone
<1>1. Init => FilesInv
  BY InitFiles
<1>2. FilesInv => FilesGone
  BY DEF FilesInv, FilesGone
<1> QED
  BY <1>1, <1>2, FilesInvStep, PTL DEF Spec

(***************************************************************************)
(* Types                                                                   *)
(***************************************************************************)
LEMMA SymbolsIn == Open \in Symbol /\ Close \in Symbol /\ AsFile \in Symbol /\ Slash \in Symbol
BY DEF Symbol

\* What stands in the place of each symbol.
Part(s, R, i) ==
    IF Over(s, i, R) THEN <<>>
    ELSE IF Met(s, i, R) = {} THEN <<s[i]>> ELSE (CHOOSE r \in Met(s, i, R) : TRUE).to
Parts(s, R) == [i \in DOMAIN s |-> Part(s, R, i)]

LEMMA RewriteParts ==
    ASSUME NEW s \in Text, NEW R, \A r \in R : r.to \in Text
    PROVE  /\ Parts(s, R) \in Seq(Text) /\ Len(Parts(s, R)) = Len(s)
           /\ \A i \in 1 .. Len(s) : Parts(s, R)[i] = Part(s, R, i)
           /\ Rewrite(s, R) = FlattenSeq(Parts(s, R))
<1>1. Len(s) \in Nat /\ DOMAIN s = 1 .. Len(s) /\ \A i \in DOMAIN s : s[i] \in Symbol
  BY DEF Text
<1>2. ASSUME NEW i \in DOMAIN s
      PROVE  Part(s, R, i) \in Text
  <2>1. <<>> \in Seq(Symbol)
    OBVIOUS
  <2>2. <<s[i]>> \in Seq(Symbol)
    BY <1>1
  <2>3. Met(s, i, R) # {} => (CHOOSE r \in Met(s, i, R) : TRUE).to \in Seq(Symbol)
    <3>1. Met(s, i, R) \subseteq R
      BY DEF Met
    <3>2. Met(s, i, R) # {} => (CHOOSE r \in Met(s, i, R) : TRUE) \in R
      BY <3>1
    <3> QED
      BY <3>2 DEF Text
  <2> QED
    BY <2>1, <2>2, <2>3 DEF Part, Text
<1>3. Parts(s, R) \in [1 .. Len(s) -> Text]
  BY <1>1, <1>2 DEF Parts
<1>4. Parts(s, R) \in Seq(Text) /\ Len(Parts(s, R)) = Len(s)
  BY <1>1, <1>3, FunctionIsSeq
<1> QED
  BY <1>1, <1>4 DEF Parts, Part, Rewrite

LEMMA RewriteType ==
    ASSUME NEW s \in Text, NEW R, \A r \in R : r.to \in Text
    PROVE  Rewrite(s, R) \in Text
BY RewriteParts, FlattenIn DEF Text

LEMMA TokenText ==
    ASSUME NEW s \in Text, NEW i \in DOMAIN s, Ends(s, i) # {}
    PROVE  SubSeq(s, i + 1, Min(Ends(s, i)) - 1) \in Text
<1> DEFINE m == Min(Ends(s, i))
<1>1. Len(s) \in Nat /\ DOMAIN s = 1 .. Len(s) /\ s \in Seq(Symbol)
  BY DEF Text
<1>2. Ends(s, i) \in SUBSET Nat /\ Ends(s, i) \subseteq 1 .. Len(s)
  BY <1>1 DEF Ends
<1>3. m \in 1 .. Len(s)
  BY <1>2, MinFacts
<1> HIDE DEF m
<1>4. \A k \in i + 1 .. m - 1 : s[k] \in Symbol
  BY <1>1, <1>3
<1>5. i + 1 \in 1 .. Len(s) + 1 /\ m - 1 \in 0 .. Len(s)
  BY <1>1, <1>3
<1>6. SubSeq(s, i + 1, m - 1) \in Seq(Symbol)
  BY <1>1, <1>4, <1>5, SubSeqProperties
<1> QED
  BY <1>6 DEF m, Text

LEMMA TokensParts ==
    ASSUME NEW S, NEW s \in Text,
           \A i \in DOMAIN s : IsStart(s, i) /\ Ends(s, i) # {} =>
               SubSeq(s, i + 1, Min(Ends(s, i)) - 1) \in S
    PROVE  LET P == [i \in DOMAIN s |->
                       IF IsStart(s, i) /\ Ends(s, i) # {}
                       THEN <<SubSeq(s, i + 1, Min(Ends(s, i)) - 1)>> ELSE <<>>]
           IN  P \in Seq(Seq(S)) /\ Len(P) = Len(s)
<1> DEFINE P == [i \in DOMAIN s |->
                   IF IsStart(s, i) /\ Ends(s, i) # {}
                   THEN <<SubSeq(s, i + 1, Min(Ends(s, i)) - 1)>> ELSE <<>>]
<1>1. Len(s) \in Nat /\ DOMAIN s = 1 .. Len(s)
  BY DEF Text
<1>2. ASSUME NEW i \in DOMAIN s
      PROVE  P[i] \in Seq(S)
  <2>1. <<>> \in Seq(S)
    OBVIOUS
  <2>2. \A x \in S : <<x>> \in Seq(S)
    OBVIOUS
  <2> QED
    BY <2>1, <2>2
<1>3. P \in [1 .. Len(s) -> Seq(S)]
  <2>1. P = [i \in DOMAIN s |-> P[i]]
    OBVIOUS
  <2> HIDE DEF P
  <2> QED
    BY <1>1, <1>2, <2>1
<1>4. P \in Seq(Seq(S)) /\ Len(P) = Len(s)
  <2> HIDE DEF P
  <2> QED
    BY <1>1, <1>3, FunctionIsSeq
<1> QED
  BY <1>4

LEMMA TokensIn ==
    ASSUME NEW S, NEW s \in Text,
           \A i \in DOMAIN s : IsStart(s, i) /\ Ends(s, i) # {} =>
               SubSeq(s, i + 1, Min(Ends(s, i)) - 1) \in S
    PROVE  Tokens(s) \in Seq(S)
BY TokensParts, FlattenIn DEF Tokens

LEMMA TokensPartsType ==
    ASSUME NEW s \in Text
    PROVE  LET P == [i \in DOMAIN s |->
                       IF IsStart(s, i) /\ Ends(s, i) # {}
                       THEN <<SubSeq(s, i + 1, Min(Ends(s, i)) - 1)>> ELSE <<>>]
           IN  P \in Seq(Seq(Text)) /\ Len(P) = Len(s)
BY TokenText, TokensParts

LEMMA TokensType ==
    ASSUME NEW s \in Text
    PROVE  Tokens(s) \in Seq(Text)
BY TokenText, TokensIn

LEMMA AllTokensIn ==
    ASSUME NEW S, NEW args \in Seq(Text), \A i \in DOMAIN args : Tokens(args[i]) \in Seq(S)
    PROVE  AllTokens(args) \in Seq(S)
<1> DEFINE P == [i \in DOMAIN args |-> Tokens(args[i])]
<1>1. P \in [1 .. Len(args) -> Seq(S)] /\ Len(args) \in Nat
  OBVIOUS
<1>2. P \in Seq(Seq(S))
  <2> HIDE DEF P
  <2> QED
    BY <1>1, FunctionIsSeq
<1>3. FlattenSeq(P) \in Seq(S)
  <2> HIDE DEF P
  <2> QED
    BY <1>2, FlattenIn
<1> QED
  BY <1>3 DEF AllTokens

LEMMA AllTokensType ==
    ASSUME NEW args \in Seq(Text)
    PROVE  AllTokens(args) \in Seq(Text)
BY TokensType, AllTokensIn

LEMMA OnlyOnceType ==
    ASSUME NEW S, NEW s \in Seq(S)
    PROVE  OnlyOnce(s) \in Seq(S)
<1> DEFINE P == [i \in DOMAIN s |-> IF \E j \in 1 .. i - 1 : s[j] = s[i] THEN <<>> ELSE <<s[i]>>]
<1>1. P \in [1 .. Len(s) -> Seq(S)] /\ Len(s) \in Nat
  <2>1. ASSUME NEW i \in DOMAIN s
        PROVE  P[i] \in Seq(S)
    OBVIOUS
  <2>2. P = [i \in DOMAIN s |-> P[i]] /\ DOMAIN s = 1 .. Len(s) /\ Len(s) \in Nat
    OBVIOUS
  <2> HIDE DEF P
  <2> QED
    BY <2>1, <2>2
<1>2. P \in Seq(Seq(S))
  <2> HIDE DEF P
  <2> QED
    BY <1>1, FunctionIsSeq
<1>3. FlattenSeq(P) \in Seq(S)
  <2> HIDE DEF P
  <2> QED
    BY <1>2, FlattenIn
<1> QED
  BY <1>3 DEF OnlyOnce

LEMMA FileNamesIn ==
    ASSUME NEW S, NEW args, AllTokens(args) \in Seq(S),
           \A t \in S : Len(t) > 1 => Front(t) \in S
    PROVE  FileNames(args) \in Seq(S)
<1> DEFINE ts == AllTokens(args)
           name(t) == IF IsFileToken(t) /\ Len(t) > 1 THEN <<Front(t)>> ELSE <<>>
           P == [i \in DOMAIN ts |-> name(ts[i])]
<1>1. ts \in Seq(S)
  OBVIOUS
<1> HIDE DEF ts
<1>2. ASSUME NEW t \in S
      PROVE  name(t) \in Seq(S)
  <2>1. Len(t) > 1 => <<Front(t)>> \in Seq(S)
    OBVIOUS
  <2> QED
    BY <2>1
<1> HIDE DEF name
<1>3. P \in [1 .. Len(ts) -> Seq(S)] /\ Len(ts) \in Nat
  BY <1>1, <1>2
<1>4. P \in Seq(Seq(S))
  <2> HIDE DEF P
  <2> QED
    BY <1>3, FunctionIsSeq
<1>5. FlattenSeq(P) \in Seq(S)
  <2> HIDE DEF P
  <2> QED
    BY <1>4, FlattenIn
<1>6. OnlyOnce(FlattenSeq(P)) \in Seq(S)
  <2> HIDE DEF P
  <2> QED
    BY <1>5, OnlyOnceType
<1>7. FileNames(args) = OnlyOnce(FlattenSeq(P))
  BY DEF FileNames, ts, name
<1> QED
  BY <1>6, <1>7

LEMMA FrontText ==
    ASSUME NEW t \in Text, Len(t) > 1
    PROVE  Front(t) \in Text
<1>1. t \in Seq(Symbol) /\ Len(t) \in Nat /\ Len(t) - 1 \in 0 .. Len(t)
  BY DEF Text
<1>2. \A k \in 1 .. Len(t) - 1 : t[k] \in Symbol
  BY <1>1
<1> QED
  BY <1>1, <1>2, SubSeqProperties DEF Front, Text

LEMMA FileNamesType ==
    ASSUME NEW args \in Seq(Text)
    PROVE  FileNames(args) \in Seq(Text)
BY AllTokensType, FrontText, FileNamesIn

LEMMA ValueNamesType ==
    ASSUME NEW args \in Seq(Text)
    PROVE  ValueNames(args) \subseteq Text
BY AllTokensType DEF ValueNames, Range

LEMMA TemplateTypes ==
    ASSUME NEW n \in Text
    PROVE  FileToken(n) \in Text /\ ValueToken(n) \in Text /\ PathOf(n) \in Text
BY SymbolsIn DEF FileToken, ValueToken, PathOf, Text

\* The request is one of those tried.
Request == given.cmd \in Seq(Text) /\ given.vault \in Seq(Secret)

LEMMA RequestTyped == TypeOK => Request
BY ExecAssumption DEF TypeOK, Request

LEMMA LookupFacts ==
    ASSUME Request, NEW n
    PROVE  /\ Lookup(n) \subseteq Text
           /\ \A v \in Lookup(n) : \E i \in Filtered :
                 given.vault[i].name = n /\ given.vault[i].value = v
<1> DEFINE at == {i \in Filtered : given.vault[i].name = n}
<1>1. at \in SUBSET Nat /\ at \subseteq DOMAIN given.vault
  <2>1. DOMAIN given.vault \subseteq Nat
    BY DEF Request
  <2> QED
    BY <2>1 DEF Filtered
<1>2. at # {} => Min(at) \in at
  <2> HIDE DEF at
  <2> QED
    BY <1>1, MinFacts
<1>3. Lookup(n) = IF at = {} THEN {} ELSE {given.vault[Min(at)].value}
  BY DEF Lookup
<1>4. \A i \in DOMAIN given.vault : given.vault[i].value \in Text
  <2>1. \A x \in Secret : x.value \in Text
    BY DEF Secret
  <2> DEFINE V == given.vault
  <2>2. V \in Seq(Secret)
    BY DEF Request
  <2> HIDE DEF V
  <2>3. \A i \in DOMAIN V : V[i] \in Secret
    BY <2>2
  <2>4. \A i \in DOMAIN V : V[i].value \in Text
    BY <2>1, <2>3
  <2> QED
    BY <2>4 DEF V
<1>5. \A i \in at : i \in Filtered /\ given.vault[i].name = n
  OBVIOUS
<1> HIDE DEF at
<1>6. CASE at = {}
  BY <1>3, <1>6
<1>7. CASE at # {}
  <2> DEFINE m == Min(at)
  <2> HIDE DEF m
  <2>1. m \in at
    BY <1>2, <1>7 DEF m
  <2>2. Lookup(n) = {given.vault[m].value}
    BY <1>3, <1>7 DEF m
  <2>3. m \in Filtered /\ given.vault[m].name = n /\ given.vault[m].value \in Text
    BY <1>1, <1>4, <1>5, <2>1
  <2> QED
    BY <2>2, <2>3
<1> QED
  BY <1>6, <1>7

\* Every replacement is of a text between braces.
Braced(t) == t \in Text /\ Len(t) > 1 /\ t[1] = Open /\ t[Len(t)] = Close

LEMMA TemplatesBraced ==
    ASSUME NEW n \in Text
    PROVE  Braced(FileToken(n)) /\ Braced(ValueToken(n))
<1>1. FileToken(n) \in Text /\ ValueToken(n) \in Text /\ n \in Seq(Symbol)
  BY TemplateTypes DEF Text
<1>2. <<AsFile, Close>> \in Seq(Symbol) /\ <<Close>> \in Seq(Symbol) /\ <<Open>> \in Seq(Symbol)
  BY SymbolsIn
<1>3. /\ Len(FileToken(n)) = Len(n) + 3 /\ FileToken(n)[1] = Open
      /\ FileToken(n)[Len(n) + 3] = Close
  BY <1>1, <1>2 DEF FileToken
<1>4. /\ Len(ValueToken(n)) = Len(n) + 2 /\ ValueToken(n)[1] = Open
      /\ ValueToken(n)[Len(n) + 2] = Close
  BY <1>1, <1>2 DEF ValueToken
<1>5. Len(n) \in Nat
  BY <1>1
<1> QED
  BY <1>1, <1>3, <1>4, <1>5 DEF Braced

LEMMA ReplacementsTyped ==
    ASSUME Request, paths \subseteq Text
    PROVE  \A r \in Replacements : Braced(r.from) /\ r.to \in Text
<1>1. \A n \in paths : Braced(FileToken(n)) /\ PathOf(n) \in Text
  BY TemplatesBraced, TemplateTypes
<1>2. \A n \in ValueNames(given.cmd) : Braced(ValueToken(n)) /\ Lookup(n) \subseteq Text
  BY ValueNamesType, TemplatesBraced, LookupFacts DEF Request
<1> SUFFICES ASSUME NEW r \in Replacements
             PROVE  Braced(r.from) /\ r.to \in Text
  OBVIOUS
<1>3. CASE r \in {[from |-> FileToken(n), to |-> PathOf(n)] : n \in paths}
  BY <1>1, <1>3
<1>4. CASE \E n \in ValueNames(given.cmd) : \E v \in Lookup(n) :
              r = [from |-> ValueToken(n), to |-> v]
  BY <1>2, <1>4
<1> QED
  BY <1>3, <1>4 DEF Replacements

LEMMA RewriteAllType ==
    ASSUME NEW c \in Seq(Text), NEW R, \A r \in R : r.to \in Text
    PROVE  [i \in DOMAIN c |-> Rewrite(c[i], R)] \in Seq(Text)
<1>1. \A i \in DOMAIN c : Rewrite(c[i], R) \in Text
  BY RewriteType
<1> QED
  BY <1>1

LEMMA SplitAtFacts ==
    ASSUME NEW s \in Text
    PROVE  /\ SplitAt(s) \in 0 .. Len(s)
           /\ SplitAt(s) > 0 => s[SplitAt(s)] = Equals
           /\ SplitAt(s) > 0 => \A i \in 1 .. SplitAt(s) - 1 : s[i] # Equals
           /\ SplitAt(s) = 0 => \A i \in DOMAIN s : s[i] # Equals
<1> DEFINE at == {i \in DOMAIN s : s[i] = Equals}
<1>1. DOMAIN s = 1 .. Len(s) /\ Len(s) \in Nat
  BY DEF Text
<1>2. at \in SUBSET Nat
  BY <1>1
<1>3. at # {} => Min(at) \in at /\ \A y \in at : Min(at) <= y
  <2> HIDE DEF at
  <2> QED
    BY <1>2, MinFacts
<1>4. SplitAt(s) = IF at = {} THEN 0 ELSE Min(at)
  BY DEF SplitAt
<1>5. CASE at = {}
  BY <1>1, <1>4, <1>5
<1>6. CASE at # {}
  <2>1. SplitAt(s) \in at /\ \A y \in at : SplitAt(s) <= y
    BY <1>3, <1>4, <1>6
  <2>2. SplitAt(s) \in 1 .. Len(s) /\ s[SplitAt(s)] = Equals
    BY <1>1, <2>1
  <2>3. ASSUME NEW i \in 1 .. SplitAt(s) - 1
        PROVE  s[i] # Equals
    BY <1>1, <2>1, <2>2
  <2> QED
    BY <1>1, <2>2, <2>3
<1> QED
  BY <1>5, <1>6

\* Both parts of an assignment are texts.
LEMMA AssignmentType ==
    ASSUME NEW s \in Text, IsAssignment(s)
    PROVE  Assignment(s) \in Text \X Text
<1>1. SplitAt(s) \in 1 .. Len(s) /\ s \in Seq(Symbol) /\ Len(s) \in Nat
  BY SplitAtFacts DEF Text, IsAssignment
<1> DEFINE p == SplitAt(s)
<1> HIDE DEF p
<1>2. p \in 1 .. Len(s)
  BY <1>1 DEF p
<1>3. SubSeq(s, 1, p - 1) \in Seq(Symbol)
  <2>1. p - 1 \in 0 .. Len(s) /\ \A k \in 1 .. p - 1 : s[k] \in Symbol
    BY <1>1, <1>2
  <2> QED
    BY <1>1, <2>1, SubSeqProperties
<1>4. SubSeq(s, p + 1, Len(s)) \in Seq(Symbol)
  <2>1. p + 1 \in 1 .. Len(s) + 1 /\ Len(s) \in 0 .. Len(s) /\ \A k \in p + 1 .. Len(s) : s[k] \in Symbol
    BY <1>1, <1>2
  <2> QED
    BY <1>1, <2>1, SubSeqProperties
<1> QED
  BY <1>3, <1>4 DEF Assignment, Text, p

LEMMA LeadingFacts ==
    ASSUME NEW c \in Seq(Text)
    PROVE  /\ Leading(c) \in 0 .. Len(c)
           /\ Leading(c) < Len(c) => ~IsAssignment(c[Leading(c) + 1])
           /\ \A i \in 1 .. Leading(c) : IsAssignment(c[i])
<1> DEFINE N == {n \in 0 .. Len(c) : n < Len(c) => ~IsAssignment(c[n + 1])}
<1>1. Len(c) \in N /\ N \in SUBSET Nat /\ N # {} /\ Len(c) \in Nat
  OBVIOUS
<1>2. Leading(c) \in N /\ \A y \in N : Leading(c) <= y
  <2> HIDE DEF N
  <2>1. Min(N) \in N /\ \A y \in N : Min(N) <= y
    BY <1>1, MinFacts
  <2>2. Leading(c) = Min(N)
    BY DEF Leading, N
  <2> QED
    BY <2>1, <2>2
<1>3. ASSUME NEW i \in 1 .. Leading(c)
      PROVE  IsAssignment(c[i])
  <2>1. i - 1 \in 0 .. Len(c) /\ i - 1 < Len(c) /\ (i - 1) + 1 = i
    BY <1>1, <1>2
  <2>2. i - 1 \notin N
    <3> HIDE DEF N
    <3>1. Leading(c) \in Nat
      BY <1>1, <1>2
    <3>2. ~(Leading(c) <= i - 1)
      BY <3>1
    <3> QED
      BY <1>2, <3>2
  <2> QED
    BY <2>1, <2>2
<1> QED
  BY <1>2, <1>3

\* The environment that a list gives is made of the pairs of the list.
LEMMA AsEnvType ==
    ASSUME NEW S, NEW f, \A i \in DOMAIN f : f[i] \in S
    PROVE  AsEnv(f) \subseteq S
BY DEF AsEnv

LEMMA InitTyped == Init => TypeOK
<1> SUFFICES ASSUME Init
             PROVE  TypeOK
  OBVIOUS
<1>1. given.cmd \in Commands /\ given.vault \in Vaults
  BY DEF Init
<1>2. cmd \in Seq(Text)
  BY <1>1, ExecAssumption DEF Init
<1>3. todo \in Seq(Seq(Symbol)) /\ \A r \in left : r.from \in Text /\ r.to \in Text
  BY DEF Init
<1> QED
  BY <1>1, <1>2, <1>3 DEF Init, TypeOK

LEMMA StopTyped ==
    ASSUME TypeOK, UNCHANGED <<temp, command>>, pc' \in {"ended"},
           outcome' \in {"refused", "shown", "failed", "killed", "exit"}
    PROVE  TypeOK'
BY DEF TypeOK, temp, command

\* FilesInv says where files are; what is left is what each step writes.
LEMMA UnlockedTyped == TypeOK /\ FilesInv' /\ Unlocked => TypeOK'
<1> SUFFICES ASSUME TypeOK, FilesInv', Unlocked
             PROVE  TypeOK'
  OBVIOUS
<1>1. todo' \in Seq(Seq(Symbol))
  <2>1. FileNames(given.cmd) \in Seq(Seq(Symbol))
    BY RequestTyped, FileNamesType DEF Request, Text
  <2> QED
    BY <2>1 DEF Unlocked
<1>2. /\ given' = given /\ left' = left /\ cmd' = cmd /\ env' = env
      /\ outcome' = outcome /\ files' = files /\ paths' = paths /\ pc' = "files"
  BY DEF Unlocked, command
<1>3. dir' \in BOOLEAN
  BY DEF Unlocked
<1>4. files' # {} => dir'
  BY <1>3 DEF FilesInv
<1> QED
  BY <1>1, <1>2, <1>3, <1>4 DEF TypeOK

LEMMA WriteFileTyped == TypeOK /\ FilesInv' /\ WriteFile => TypeOK'
<1> SUFFICES ASSUME TypeOK, FilesInv', WriteFile
             PROVE  TypeOK'
  OBVIOUS
<1> DEFINE found == {n \in {Head(todo)} : Lookup(n) # {}}
<1>1. todo \in Seq(Seq(Symbol)) /\ todo # <<>>
  BY DEF TypeOK, WriteFile
<1>2. Head(todo) \in Seq(Symbol) /\ Tail(todo) \in Seq(Seq(Symbol))
  BY <1>1
<1>3. /\ paths' = paths \cup found
      /\ files' = IF dir THEN files \cup found ELSE files
      /\ todo' = Tail(todo)
      /\ pc' = pc /\ outcome' = outcome /\ dir' = dir
      /\ given' = given /\ left' = left /\ cmd' = cmd /\ env' = env
  BY DEF WriteFile, command
<1>4. found \subseteq Text
  BY <1>2 DEF Text
<1> HIDE DEF found
<1>5. files' # {} => dir'
  BY <1>3 DEF FilesInv, TypeOK
<1> QED
  BY <1>2, <1>3, <1>4, <1>5 DEF TypeOK

LEMMA WriteFailsTyped == TypeOK /\ WriteFails => TypeOK'
<1> SUFFICES ASSUME TypeOK, WriteFails
             PROVE  TypeOK'
  OBVIOUS
<1>1. todo \in Seq(Seq(Symbol)) /\ todo # <<>>
  BY DEF TypeOK, WriteFails
<1>2. Head(todo) \in Text
  BY <1>1 DEF Text
<1>3. /\ files' \in {files, files \cup {Head(todo)}} /\ dir
      /\ paths' = paths /\ todo' = todo
      /\ pc' = "ended" /\ outcome' = "failed" /\ dir' = dir
      /\ given' = given /\ left' = left /\ cmd' = cmd /\ env' = env
  BY DEF WriteFails, End, command
<1> QED
  BY <1>2, <1>3 DEF TypeOK

LEMMA LookedUpTyped == TypeOK /\ LookedUp => TypeOK'
<1> SUFFICES ASSUME TypeOK, LookedUp
             PROVE  TypeOK'
  OBVIOUS
<1>1. CASE Stop("failed")
  BY <1>1, StopTyped DEF Stop, End
<1>2. CASE /\ pc' = "subst" /\ left' = Replacements
           /\ UNCHANGED <<outcome, cmd, env, given>> /\ UNCHANGED temp
  <2>1. \A r \in Replacements : r.from \in Text /\ r.to \in Text
    BY RequestTyped, ReplacementsTyped DEF TypeOK, Braced
  <2>2. \A r \in left' : r.from \in Text /\ r.to \in Text
    BY <1>2, <2>1
  <2> QED
    BY <1>2, <2>2 DEF TypeOK, temp
<1> QED
  BY <1>1, <1>2 DEF LookedUp

LEMMA ReplaceTyped == TypeOK /\ Replace => TypeOK'
<1> SUFFICES ASSUME TypeOK, Replace
             PROVE  TypeOK'
  OBVIOUS
<1>1. PICK r \in left : /\ cmd' = [i \in DOMAIN cmd |-> Rewrite(cmd[i], {r})]
                        /\ left' = left \ {r}
                        /\ UNCHANGED <<pc, outcome, env, given>> /\ UNCHANGED temp
  BY DEF Replace
<1>2. r.to \in Text /\ cmd \in Seq(Text)
  BY DEF TypeOK
<1>3. cmd' \in Seq(Text)
  BY <1>1, <1>2, RewriteAllType
<1> QED
  BY <1>1, <1>3 DEF TypeOK, temp

LEMMA StartTyped == TypeOK /\ Start => TypeOK'
<1> SUFFICES ASSUME TypeOK, Start
             PROVE  TypeOK'
  OBVIOUS
<1> DEFINE n == Leading(cmd)
           listed == [i \in Filtered |-> <<given.vault[i].name, given.vault[i].value>>]
           assigned == [i \in 1 .. n |-> Assignment(cmd[i])]
<1>1. CASE Stop("failed")
  BY <1>1, StopTyped DEF Stop, End
<1>2. CASE /\ n < Len(cmd) /\ pc' = "child"
           /\ cmd' = SubSeq(cmd, n + 1, Len(cmd))
           /\ env' = Overriding(Overriding(Outer, AsEnv(listed)), AsEnv(assigned))
           /\ UNCHANGED <<outcome, left, given>> /\ UNCHANGED temp
  <2>1. cmd \in Seq(Text)
    BY DEF TypeOK
  <2>2. n \in 0 .. Len(cmd) /\ \A i \in 1 .. n : IsAssignment(cmd[i])
    BY <2>1, LeadingFacts
  <2>3. \A i \in 1 .. n : Assignment(cmd[i]) \in Text \X Text
    BY <2>1, <2>2, AssignmentType
  <2>4. AsEnv(assigned) \subseteq Text \X Text
    <3> DEFINE P == Text \X Text
    <3>1. \A i \in DOMAIN assigned : assigned[i] \in P
      BY <2>3
    <3> HIDE DEF assigned, P
    <3>2. AsEnv(assigned) \subseteq P
      BY <3>1, AsEnvType
    <3> QED
      BY <3>2 DEF P
  <2>5. AsEnv(listed) \subseteq Text \X Text
    <3> DEFINE P == Text \X Text
    <3>1. \A i \in DOMAIN listed : listed[i] \in P
      <4>1. \A x \in Secret : x.name \in Text /\ x.value \in Text
        BY DEF Secret
      <4> DEFINE V == given.vault
      <4>2. V \in Seq(Secret)
        BY RequestTyped DEF Request
      <4> HIDE DEF V
      <4>3. \A i \in DOMAIN V : V[i] \in Secret
        BY <4>2
      <4>4. \A i \in DOMAIN V : V[i].name \in Text /\ V[i].value \in Text
        BY <4>1, <4>3
      <4>5. \A i \in Filtered : i \in DOMAIN V
        BY DEF Filtered, V
      <4> QED
        BY <4>4, <4>5 DEF V
    <3> HIDE DEF listed, P
    <3>2. AsEnv(listed) \subseteq P
      BY <3>1, AsEnvType
    <3> QED
      BY <3>2 DEF P
  <2>6. Outer \subseteq Text \X Text
    BY ExecAssumption
  <2>7. env' \subseteq Text \X Text
    <3> HIDE DEF listed, assigned
    <3> QED
      BY <1>2, <2>4, <2>5, <2>6 DEF Overriding
  <2>8. cmd' \in Seq(Text)
    <3> HIDE DEF n
    <3>1. n + 1 \in 1 .. Len(cmd) + 1 /\ Len(cmd) \in 0 .. Len(cmd)
          /\ \A i \in n + 1 .. Len(cmd) : cmd[i] \in Text
      BY <2>1, <2>2
    <3> QED
      BY <1>2, <2>1, <3>1, SubSeqProperties
  <2> QED
    BY <1>2, <2>7, <2>8 DEF TypeOK, temp
<1> QED
  BY <1>1, <1>2 DEF Start

LEMMA TypedStep == TypeOK /\ FilesInv /\ [Next]_vars => TypeOK'
<1> SUFFICES ASSUME TypeOK, FilesInv, [Next]_vars
             PROVE  TypeOK'
  OBVIOUS
<1>0. FilesInv'
  BY FilesInvStep
<1>1. CASE Refuse
  BY <1>1, StopTyped DEF Refuse, Stop, End
<1>2. CASE Unlocked
  BY <1>0, <1>2, UnlockedTyped
<1>3. CASE WriteFile
  BY <1>0, <1>3, WriteFileTyped
<1>4. CASE WriteFails
  BY <1>4, WriteFailsTyped
<1>5. CASE LookedUp
  BY <1>5, LookedUpTyped
<1>6. CASE Replace
  BY <1>6, ReplaceTyped
<1>7. CASE Show
  BY <1>7, StopTyped DEF Show, Stop, End
<1>8. CASE Start
  BY <1>8, StartTyped
<1>9. CASE ChildExits
  BY <1>9 DEF ChildExits, End, command, TypeOK
<1>10. CASE Killed
  BY <1>10, StopTyped DEF Killed, Stop, End
<1>11. CASE UNCHANGED vars
  BY <1>11 DEF TypeOK, vars, temp, command
<1> QED
  BY <1>1, <1>2, <1>3, <1>4, <1>5, <1>6, <1>7, <1>8, <1>9, <1>10, <1>11 DEF Next

\* What exec keeps while it runs has its type: names of templates, values
\* and arguments stay texts through every replacement.
THEOREM ExecTypes == Spec => []TypeOK
<1>1. TypeOK /\ FilesInv /\ [Next]_vars => (TypeOK /\ FilesInv)'
  BY TypedStep, FilesInvStep
<1>2. Init => TypeOK /\ FilesInv
  BY InitTyped, InitFiles
<1> QED
  BY <1>1, <1>2, PTL DEF Spec

(***************************************************************************)
(* What one rewriting leaves as it is                                      *)
(***************************************************************************)
\* Symbols before the first match are copied.
LEMMA RewriteCopies ==
    ASSUME NEW s \in Text, NEW R, \A r \in R : r.to \in Text,
           NEW n \in 0 .. Len(s), \A i \in 1 .. n : Met(s, i, R) = {}
    PROVE  /\ n <= Len(Rewrite(s, R)) /\ \A k \in 1 .. n : Rewrite(s, R)[k] = s[k]
           /\ n = Len(s) => Rewrite(s, R) = s
<1> DEFINE p == Parts(s, R)
           a == SubSeq(p, 1, n)
           b == SubSeq(p, n + 1, Len(p))
           t == SubSeq(s, 1, n)
<1>1. p \in Seq(Seq(Symbol)) /\ Len(p) = Len(s) /\ Rewrite(s, R) = FlattenSeq(p)
  BY RewriteParts DEF Text
<1>2. ASSUME NEW i \in 1 .. n
      PROVE  p[i] = <<s[i]>>
  <2>1. Met(s, i, R) = {} /\ ~Over(s, i, R)
    BY DEF Over
  <2>2. i \in 1 .. Len(s)
    BY DEF Text
  <2> QED
    BY <2>1, <2>2, RewriteParts DEF Part
<1> HIDE DEF p
<1>3. n \in 0 .. Len(p) /\ s \in Seq(Symbol)
  BY <1>1 DEF Text
<1>4. /\ a \in Seq(Seq(Symbol)) /\ Len(a) = n /\ b \in Seq(Seq(Symbol)) /\ p = a \o b
      /\ t \in Seq(Symbol) /\ Len(t) = n
  BY <1>1, <1>3, CutAt
<1>5. \A i \in 1 .. n : a[i] = <<t[i]>>
  <2>1. \A i \in 1 .. n : a[i] = p[i] /\ t[i] = s[i]
    <3>1. n \in Nat
      OBVIOUS
    <3> QED
      BY <1>1, <1>3, <3>1
  <2> QED
    BY <1>2, <2>1
<1> HIDE DEF a, b, t
<1>6. FlattenSeq(a) = t
  BY <1>4, <1>5, FlattenSingles
<1>7. FlattenSeq(p) = t \o FlattenSeq(b) /\ FlattenSeq(b) \in Seq(Symbol)
  BY <1>4, <1>6, FlattenConcat, FlattenIn
<1>8. n <= Len(Rewrite(s, R)) /\ \A k \in 1 .. n : Rewrite(s, R)[k] = s[k]
  <2> DEFINE v == FlattenSeq(b)
  <2>1. Rewrite(s, R) = t \o v /\ v \in Seq(Symbol)
    BY <1>1, <1>7
  <2>2. \A k \in 1 .. n : t[k] = s[k]
    BY <1>3, CutAt DEF t
  <2> HIDE DEF v
  <2> QED
    BY <1>4, <2>1, <2>2
<1>9. ASSUME n = Len(s)
      PROVE  Rewrite(s, R) = s
  <2>1. t = s
    BY <1>3, <1>9 DEF t
  <2>2. b = <<>>
    BY <1>1, <1>3, <1>9 DEF b
  <2>3. FlattenSeq(b) = <<>>
    BY <2>2 DEF FlattenSeq
  <2> QED
    BY <1>1, <1>3, <1>7, <2>1, <2>3
<1> QED
  BY <1>8, <1>9 DEF t

\* A replacement begins at an opening brace and ends at a closing one.
LEMMA MetFacts ==
    ASSUME NEW s \in Text, NEW R, \A r \in R : Braced(r.from),
           NEW i \in 1 .. Len(s), NEW r \in Met(s, i, R)
    PROVE  /\ s[i] = Open
           /\ i + Len(r.from) - 1 \in i + 1 .. Len(s)
           /\ s[i + Len(r.from) - 1] = Close
<1> DEFINE f == r.from
           n == Len(f)
<1>1. f \in Seq(Symbol) /\ n \in Nat /\ n > 1 /\ f[1] = Open /\ f[n] = Close
  BY DEF Met, Braced, Text
<1>2. i + n <= Len(s) + 1 /\ \A k \in DOMAIN f : s[i + k - 1] = f[k]
  BY DEF Met, Stands
<1> HIDE DEF f
<1>3. Len(s) \in Nat /\ 1 \in DOMAIN f /\ n \in DOMAIN f
  BY <1>1 DEF Text
<1>4. i + 1 - 1 = i /\ i + n - 1 \in i + 1 .. Len(s)
  BY <1>1, <1>2, <1>3
<1>5. s[i] = Open /\ s[i + n - 1] = Close
  BY <1>1, <1>2, <1>3, <1>4
<1> QED
  BY <1>4, <1>5 DEF f

\* A text without a token is not rewritten.
LEMMA NoTokens ==
    ASSUME NEW s \in Text, Tokens(s) = <<>>,
           NEW i \in 1 .. Len(s), NEW j \in 1 .. Len(s), i < j, s[i] = Open
    PROVE  s[j] # Close
<1> SUFFICES ASSUME s[j] = Close
             PROVE  FALSE
  OBVIOUS
<1> DEFINE O == {k \in 1 .. Len(s) : s[k] = Open}
           P == [k \in DOMAIN s |->
                   IF IsStart(s, k) /\ Ends(s, k) # {}
                   THEN <<SubSeq(s, k + 1, Min(Ends(s, k)) - 1)>> ELSE <<>>]
<1>1. Len(s) \in Nat /\ DOMAIN s = 1 .. Len(s) /\ s \in Seq(Symbol)
  BY DEF Text
<1>2. PICK k \in O : \A y \in O : k <= y
  <2>1. O \in SUBSET Nat /\ O # {}
    OBVIOUS
  <2> HIDE DEF O
  <2> QED
    BY <2>1, MinFacts
<1>3. IsStart(s, k)
  BY <1>2 DEF IsStart
<1>4. j \in Ends(s, k)
  BY <1>1, <1>2 DEF Ends
<1>5. P[k] # <<>>
  BY <1>1, <1>2, <1>3, <1>4
<1>6. P \in Seq(Seq(Text)) /\ Len(P) = Len(s) /\ FlattenSeq(P) = Tokens(s)
  BY TokensPartsType DEF Tokens
<1>7. P[k] = <<>>
  <2> HIDE DEF P
  <2>1. k \in 1 .. Len(P)
    BY <1>2, <1>6
  <2> QED
    BY <1>6, <2>1, FlattenNothing
<1> QED
  BY <1>5, <1>7

LEMMA NoTokensKept ==
    ASSUME NEW s \in Text, Tokens(s) = <<>>,
           NEW R, \A r \in R : Braced(r.from) /\ r.to \in Text
    PROVE  Rewrite(s, R) = s
<1>1. ASSUME NEW i \in 1 .. Len(s)
      PROVE  Met(s, i, R) = {}
  <2>1. ASSUME NEW r \in Met(s, i, R)
        PROVE  FALSE
    <3> DEFINE j == i + Len(r.from) - 1
    <3>1. s[i] = Open /\ j \in i + 1 .. Len(s) /\ s[j] = Close
      BY MetFacts
    <3> HIDE DEF j
    <3>2. j \in 1 .. Len(s) /\ i < j
      BY <3>1 DEF Text
    <3> QED
      BY <3>1, <3>2, NoTokens
  <2> QED
    BY <2>1
<1>2. Len(s) \in 0 .. Len(s)
  BY DEF Text
<1> QED
  BY <1>1, <1>2, RewriteCopies

(***************************************************************************)
(* Assignments and the program                                             *)
(***************************************************************************)

\* The key of an assignment and the equals sign stand where they stood.
SameKey(s, t) ==
    /\ IsAssignment(s) /\ SplitAt(s) = SplitAt(t)
    /\ \A k \in 1 .. SplitAt(t) : s[k] = t[k]

LEMMA SameKeyFacts ==
    ASSUME NEW s \in Text, NEW t \in Text, SameKey(s, t)
    PROVE  Assignment(s)[1] = Assignment(t)[1]
<1> DEFINE p == SplitAt(t)
<1>1. p \in 0 .. Len(t) /\ p \in 0 .. Len(s) /\ \A k \in 1 .. p : s[k] = t[k]
  BY SplitAtFacts DEF SameKey
<1>2. s \in Seq(Symbol) /\ t \in Seq(Symbol) /\ p > 0
  <2>1. SplitAt(s) = p /\ SplitAt(s) > 1
    BY DEF SameKey, IsAssignment
  <2> HIDE DEF p
  <2>2. p \in Nat /\ p > 1
    BY <1>1, <2>1
  <2> QED
    BY <2>2 DEF Text
<1>3. Assignment(s)[1] = SubSeq(s, 1, p - 1) /\ Assignment(t)[1] = SubSeq(t, 1, p - 1)
  BY DEF Assignment, SameKey
<1> HIDE DEF p
<1>4. SubSeq(s, 1, p - 1) = SubSeq(t, 1, p - 1)
  <2>1. p - 1 \in Nat /\ p - 1 <= Len(s) /\ p - 1 <= Len(t)
    BY <1>1, <1>2
  <2> QED
    BY <1>1, <1>2, <2>1
<1> QED
  BY <1>3, <1>4

LEMMA SymbolsDiffer == Open # Equals /\ Open # AsFile /\ Open # Close /\ Equals # AsFile
BY DEF Open, Equals, AsFile, Close

\* A key holds no brace, so that no template reaches into it.
LEMMA KeyKept ==
    ASSUME NEW s \in Text, NEW t \in Text, SameKey(s, t),
           NEW R, \A r \in R : Braced(r.from) /\ r.to \in Text
    PROVE  SameKey(Rewrite(s, R), t)
<1> DEFINE p == SplitAt(s)
           w == Rewrite(s, R)
<1>1. /\ p \in 1 .. Len(s) /\ p > 1 /\ s[p] = Equals
      /\ \A i \in 1 .. p - 1 : s[i] \in Letter \cup {AsFile} /\ s[i] # Equals
  BY SplitAtFacts DEF SameKey, IsAssignment
<1>2. p = SplitAt(t) /\ \A k \in 1 .. p : s[k] = t[k]
  BY DEF SameKey
<1>3. s \in Seq(Symbol) /\ w \in Seq(Symbol) /\ w \in Text
  BY RewriteType DEF Text
<1> DEFINE q == SplitAt(w)
<1>4. /\ q \in 0 .. Len(w)
      /\ q > 0 => w[q] = Equals
      /\ q > 0 => \A i \in 1 .. q - 1 : w[i] # Equals
      /\ q = 0 => \A i \in DOMAIN w : w[i] # Equals
  BY <1>3, SplitAtFacts
<1> HIDE DEF p
<1>5. ASSUME NEW i \in 1 .. p
      PROVE  s[i] # Open
  <2>1. Open \notin Letter
    BY ExecAssumption
  <2>2. p \in Nat /\ (i = p \/ i \in 1 .. p - 1)
    BY <1>1
  <2> QED
    BY <1>1, <2>1, <2>2, SymbolsDiffer
<1>6. \A i \in 1 .. p : Met(s, i, R) = {}
  <2>1. ASSUME NEW i \in 1 .. p, NEW r \in Met(s, i, R)
        PROVE  FALSE
    <3>1. i \in 1 .. Len(s)
      BY <1>1, <1>3
    <3> QED
      BY <1>5, <3>1, MetFacts
  <2> QED
    BY <2>1
<1>7. p \in 0 .. Len(s)
  BY <1>1, <1>3
<1>9. p <= Len(w) /\ \A k \in 1 .. p : w[k] = s[k]
  <2>1. \A r \in R : r.to \in Text
    OBVIOUS
  <2>2. p <= Len(Rewrite(s, R)) /\ \A k \in 1 .. p : Rewrite(s, R)[k] = s[k]
    BY <1>6, <1>7, <2>1, RewriteCopies
  <2> QED
    BY <2>2
<1> HIDE DEF w, q
<1>10. q = p
  <2>0. Len(w) \in Nat /\ DOMAIN w = 1 .. Len(w) /\ p \in Nat /\ p > 0
    BY <1>1, <1>3
  <2>1. p \in 1 .. Len(w) /\ w[p] = Equals /\ p \in DOMAIN w /\ q \in Nat
    <3>1. p \in 1 .. Len(w) /\ p \in 1 .. p
      BY <1>9, <2>0
    <3>2. w[p] = s[p]
      BY <1>9, <3>1
    <3> QED
      BY <1>1, <1>4, <2>0, <3>1, <3>2
  <2>2. q # 0 /\ ~(p < q)
    BY <1>4, <2>1
  <2>3. ~(q < p)
    <3> SUFFICES ASSUME q < p
                 PROVE  FALSE
      OBVIOUS
    <3>1. q \in 1 .. p - 1 /\ q \in 1 .. p /\ q > 0
      BY <2>0, <2>1, <2>2
    <3>2. w[q] = Equals /\ w[q] = s[q] /\ s[q] # Equals
      BY <1>1, <1>4, <1>9, <3>1
    <3> QED
      BY <3>2
  <2> QED
    BY <2>1, <2>2, <2>3
<1>11. \A i \in 1 .. p - 1 : w[i] \in Letter \cup {AsFile}
  <2>1. \A i \in 1 .. p - 1 : w[i] = s[i]
    BY <1>1, <1>9
  <2> QED
    BY <1>1, <2>1
<1>12. IsAssignment(w)
  BY <1>1, <1>10, <1>11 DEF IsAssignment, q
<1>13. SplitAt(w) = p
  BY <1>10 DEF q
<1> QED
  BY <1>2, <1>9, <1>12, <1>13 DEF SameKey, w

LEMMA LeadingIs ==
    ASSUME NEW c \in Seq(Text), NEW n \in 0 .. Len(c),
           \A i \in 1 .. n : IsAssignment(c[i]), n < Len(c) => ~IsAssignment(c[n + 1])
    PROVE  Leading(c) = n
<1> DEFINE m == Leading(c)
<1>1. m \in 0 .. Len(c) /\ (m < Len(c) => ~IsAssignment(c[m + 1]))
      /\ \A i \in 1 .. m : IsAssignment(c[i])
  BY LeadingFacts
<1> HIDE DEF m
<1>2. Len(c) \in Nat /\ m \in Nat /\ n \in Nat /\ n <= Len(c) /\ m <= Len(c)
  BY <1>1
<1>3. ~(m < n)
  <2> SUFFICES ASSUME m < n
               PROVE  FALSE
    OBVIOUS
  <2>1. m + 1 \in 1 .. n /\ m < Len(c)
    BY <1>2
  <2> QED
    BY <1>1, <2>1
<1>4. ~(n < m)
  <2> SUFFICES ASSUME n < m
               PROVE  FALSE
    OBVIOUS
  <2>1. n + 1 \in 1 .. m /\ n < Len(c)
    BY <1>2
  <2> QED
    BY <1>1, <2>1
<1> QED
  BY <1>2, <1>3, <1>4 DEF m

\* Every name of a list is in the environment it gives.
LEMMA AsEnvNames ==
    ASSUME NEW n \in Nat, NEW f, DOMAIN f = 1 .. n, NEW i \in 1 .. n
    PROVE  \E v \in AsEnv(f) : v[1] = f[i][1]
<1> DEFINE S == {k \in 1 .. n : f[k][1] = f[i][1]}
<1>1. PICK k \in S : \A y \in S : y <= k
  <2>1. S \in SUBSET (1 .. n) /\ S # {}
    OBVIOUS
  <2> HIDE DEF S
  <2> QED
    BY <2>1, MaxExists
<1>2. \A j \in 1 .. n : j > k => f[j][1] # f[k][1]
  BY <1>1
<1>3. f[k] \in AsEnv(f)
  BY <1>1, <1>2 DEF AsEnv
<1> QED
  BY <1>1, <1>3

\* Arguments up to the program, while templates are replaced.
SubstInv ==
    /\ pc \in {"start", "files"} => cmd = given.cmd
    /\ \A r \in left : Braced(r.from) /\ r.to \in Text
    /\ pc = "subst" =>
         /\ Len(cmd) = Len(given.cmd)
         /\ \A i \in 1 .. Leading(given.cmd) : SameKey(cmd[i], given.cmd[i])
         /\ ProgramPlain => cmd[Leading(given.cmd) + 1] = given.cmd[Leading(given.cmd) + 1]

ExecInv == TypeOK /\ FilesInv /\ SubstInv /\ ProgramAsTyped /\ TemplateIsEnv

LEMMA InitSubst == Init => SubstInv /\ ProgramAsTyped /\ TemplateIsEnv
BY DEF Init, SubstInv, ProgramAsTyped, TemplateIsEnv

LEMMA SubstLookedUp == ExecInv /\ LookedUp => SubstInv'
<1> SUFFICES ASSUME ExecInv, LookedUp
             PROVE  SubstInv'
  OBVIOUS
<1> USE DEF ExecInv
<1>1. CASE Stop("failed")
  BY <1>1 DEF Stop, End, SubstInv, command
<1>2. CASE /\ pc' = "subst" /\ left' = Replacements
           /\ UNCHANGED <<outcome, cmd, env, given>> /\ UNCHANGED temp
  <2>1. pc = "files" /\ cmd = given.cmd
    BY DEF LookedUp, SubstInv
  <2>2. given' = given /\ cmd' = given.cmd
    BY <1>2, <2>1
  <2>3. Request /\ paths \subseteq Text
    BY RequestTyped DEF TypeOK
  <2>4. \A r \in left' : Braced(r.from) /\ r.to \in Text
    BY <1>2, <2>3, ReplacementsTyped
  <2>5. \A i \in 1 .. Leading(given.cmd) : SameKey(given.cmd[i], given.cmd[i])
    BY <2>3, LeadingFacts DEF SameKey, Request
  <2> QED
    BY <1>2, <2>2, <2>4, <2>5 DEF SubstInv, ProgramPlain
<1> QED
  BY <1>1, <1>2 DEF LookedUp

LEMMA SubstReplace == ExecInv /\ Replace => SubstInv'
<1> SUFFICES ASSUME ExecInv, Replace
             PROVE  SubstInv'
  OBVIOUS
<1> USE DEF ExecInv
<1>1. PICK r \in left : /\ cmd' = [i \in DOMAIN cmd |-> Rewrite(cmd[i], {r})]
                        /\ left' = left \ {r}
                        /\ UNCHANGED <<pc, outcome, env, given>> /\ UNCHANGED temp
  BY DEF Replace
<1> DEFINE L == Leading(given.cmd)
           R == {r}
<1>2. pc = "subst" /\ pc' = "subst" /\ given' = given
  BY <1>1 DEF Replace
<1>3. \A x \in R : Braced(x.from) /\ x.to \in Text
  BY DEF SubstInv
<1>4. cmd \in Seq(Text) /\ given.cmd \in Seq(Text) /\ Len(cmd) = Len(given.cmd)
  BY <1>2, RequestTyped DEF TypeOK, Request, SubstInv
<1>5. L \in 0 .. Len(given.cmd)
  BY <1>4, LeadingFacts
<1> HIDE DEF R
<1>6. cmd' \in Seq(Text) /\ Len(cmd') = Len(given.cmd)
      /\ \A i \in 1 .. Len(cmd) : cmd'[i] = Rewrite(cmd[i], R)
  <2>1. cmd' = [i \in DOMAIN cmd |-> Rewrite(cmd[i], R)]
    BY <1>1 DEF R
  <2>2. cmd' \in Seq(Text)
    BY <1>3, <1>4, <2>1, RewriteAllType
  <2> QED
    BY <1>4, <2>1, <2>2
<1>7. ASSUME NEW i \in 1 .. L
      PROVE  SameKey(cmd'[i], given.cmd[i])
  <2>1. i \in 1 .. Len(cmd) /\ cmd[i] \in Text /\ given.cmd[i] \in Text
    BY <1>4, <1>5
  <2>2. SameKey(cmd[i], given.cmd[i])
    BY <1>2 DEF SubstInv
  <2>3. SameKey(Rewrite(cmd[i], R), given.cmd[i])
    BY <1>3, <2>1, <2>2, KeyKept
  <2> QED
    BY <1>6, <2>1, <2>3
<1>8. ASSUME ProgramPlain
      PROVE  cmd'[L + 1] = given.cmd[L + 1]
  <2>1. L < Len(given.cmd) /\ Tokens(given.cmd[L + 1]) = <<>>
    BY <1>8 DEF ProgramPlain
  <2>2. cmd[L + 1] = given.cmd[L + 1]
    BY <1>2, <1>8 DEF SubstInv
  <2>3. L + 1 \in 1 .. Len(cmd) /\ given.cmd[L + 1] \in Text
    BY <1>4, <1>5, <2>1
  <2>4. Rewrite(given.cmd[L + 1], R) = given.cmd[L + 1]
    BY <1>3, <2>1, <2>3, NoTokensKept
  <2> QED
    BY <1>6, <2>2, <2>3, <2>4
<1>9. \A x \in left' : Braced(x.from) /\ x.to \in Text
  BY <1>1 DEF SubstInv
<1> HIDE DEF L
<1>10. ProgramPlain' = ProgramPlain /\ Leading(given.cmd)' = L
  BY <1>2 DEF ProgramPlain, L
<1> QED
  BY <1>2, <1>6, <1>7, <1>8, <1>9, <1>10 DEF SubstInv, L

\* What the child is started with.
LEMMA ChildStarted ==
    ASSUME ExecInv, Start, pc' = "child"
    PROVE  (ProgramAsTyped /\ TemplateIsEnv)'
<1> USE DEF ExecInv
<1> DEFINE L == Leading(given.cmd)
           n == Leading(cmd)
           listed == [i \in Filtered |-> <<given.vault[i].name, given.vault[i].value>>]
           assigned == [i \in 1 .. n |-> Assignment(cmd[i])]
<1>1. /\ n < Len(cmd)
      /\ cmd' = SubSeq(cmd, n + 1, Len(cmd))
      /\ env' = Overriding(Overriding(Outer, AsEnv(listed)), AsEnv(assigned))
      /\ given' = given /\ pc = "subst"
  BY DEF Start, Stop, End
<1>2. cmd \in Seq(Text) /\ given.cmd \in Seq(Text) /\ Len(cmd) = Len(given.cmd) /\ Request
  BY <1>1, RequestTyped DEF TypeOK, Request, SubstInv
<1>3. L \in 0 .. Len(cmd)
      /\ (L < Len(cmd) => ~IsAssignment(given.cmd[L + 1]))
  BY <1>2, LeadingFacts
<1>4. \A i \in 1 .. L : SameKey(cmd[i], given.cmd[i])
  BY <1>1 DEF SubstInv
<1> SUFFICES ASSUME ProgramPlain
             PROVE  (ProgramAsTyped /\ TemplateIsEnv)'
  BY <1>1 DEF ProgramAsTyped, TemplateIsEnv, ProgramPlain
<1>5. L < Len(cmd) /\ cmd[L + 1] = given.cmd[L + 1]
  BY <1>1, <1>2 DEF SubstInv, ProgramPlain
<1>6. n = L
  <2>1. \A i \in 1 .. L : IsAssignment(cmd[i])
    BY <1>4 DEF SameKey
  <2>2. ~IsAssignment(cmd[L + 1])
    BY <1>3, <1>5
  <2> HIDE DEF L
  <2> QED
    BY <1>2, <1>3, <2>1, <2>2, LeadingIs
<1>7. cmd'[1] = given.cmd[L + 1]
  <2> HIDE DEF L, n
  <2>1. L + 1 \in 1 .. Len(cmd)
    BY <1>2, <1>3, <1>5
  <2> QED
    BY <1>1, <1>2, <1>5, <1>6, <2>1
<1>8. \A i \in 1 .. L : Assignment(cmd[i])[1] = Assignment(given.cmd[i])[1]
  <2>1. \A i \in 1 .. L : cmd[i] \in Text /\ given.cmd[i] \in Text
    BY <1>2, <1>3
  <2> QED
    BY <1>4, <2>1, SameKeyFacts
<1>9. Inline = {Assignment(given.cmd[i])[1] : i \in 1 .. L}
  BY DEF Inline
<1>10. DOMAIN assigned = 1 .. L /\ \A i \in 1 .. L : assigned[i] = Assignment(cmd[i])
  BY <1>6
<1>11. DOMAIN listed = Filtered
       /\ \A i \in Filtered : listed[i] = <<given.vault[i].name, given.vault[i].value>>
  OBVIOUS
<1> HIDE DEF n, L, assigned, listed
<1>12. ASSUME NEW k \in Inline
       PROVE  k \in {v[1] : v \in env'}
  <2>1. PICK i \in 1 .. L : k = assigned[i][1]
    BY <1>8, <1>9, <1>10
  <2>2. L \in Nat
    BY <1>3
  <2>3. PICK v \in AsEnv(assigned) : v[1] = assigned[i][1]
    BY <1>10, <2>2, AsEnvNames
  <2>4. v \in env'
    BY <1>1 DEF Overriding
  <2> QED
    BY <2>1, <2>3, <2>4
<1>13. ASSUME NEW w \in AsEnv(assigned)
       PROVE  w[1] \in Inline
  <2>1. PICK i \in 1 .. L : w = assigned[i]
    BY <1>10 DEF AsEnv
  <2> QED
    BY <1>8, <1>9, <1>10, <2>1
<1>14. ASSUME NEW k \in ValueNames(given.cmd) \ Inline, NEW v \in Lookup(k)
       PROVE  \/ <<k, v>> \in env'
              \/ \E i, j \in Filtered :
                     i # j /\ given.vault[i].name = k /\ given.vault[j].name = k
  <2>1. PICK i \in Filtered : given.vault[i].name = k /\ given.vault[i].value = v
    BY <1>2, LookupFacts
  <2>2. CASE \A j \in Filtered : j # i => given.vault[j].name # k
    <3>1. listed[i] = <<k, v>>
      BY <1>11, <2>1
    <3>2. \A j \in Filtered : j # i => listed[j][1] # listed[i][1]
      BY <1>11, <2>1, <2>2
    <3>3. DOMAIN listed \subseteq Nat
      BY <1>2, <1>11 DEF Filtered, Request
    <3>4. \A j \in DOMAIN listed : j > i => listed[j][1] # listed[i][1]
      BY <1>11, <3>2, <3>3
    <3>5. <<k, v>> \in AsEnv(listed)
      BY <1>11, <3>1, <3>4 DEF AsEnv
    <3>6. <<k, v>>[1] \notin {w[1] : w \in AsEnv(assigned)}
      BY <1>13
    <3> QED
      BY <1>1, <3>5, <3>6 DEF Overriding
  <2>3. CASE \E j \in Filtered : j # i /\ given.vault[j].name = k
    BY <2>1, <2>3
  <2> QED
    BY <2>2, <2>3
<1>15. ProgramAsTyped'
  <2>1. Inline' = Inline /\ Leading(given.cmd)' = L
    BY <1>1 DEF Inline, L
  <2> QED
    BY <1>1, <1>7, <1>12, <2>1 DEF ProgramAsTyped
<1>16. TemplateIsEnv'
  <2>1. Inline' = Inline /\ Filtered' = Filtered /\ ValueNames(given.cmd)' = ValueNames(given.cmd)
    BY <1>1 DEF Inline, Filtered, Filter
  <2> SUFFICES ASSUME NEW k \in (ValueNames(given.cmd) \ Inline)', NEW v \in Lookup(k)'
               PROVE  (\/ <<k, v>> \in env
                       \/ \E i, j \in Filtered :
                            i # j /\ given.vault[i].name = k /\ given.vault[j].name = k)'
    BY DEF TemplateIsEnv
  <2>2. Lookup(k)' = Lookup(k)
    BY <1>1, <2>1 DEF Lookup
  <2> QED
    BY <1>1, <1>14, <2>1, <2>2
<1> QED
  BY <1>15, <1>16

LEMMA ChildGone ==
    ASSUME ProgramAsTyped, TemplateIsEnv, pc' # "child"
    PROVE  (ProgramAsTyped /\ TemplateIsEnv)'
BY DEF ProgramAsTyped, TemplateIsEnv

LEMMA StopSubst ==
    ASSUME SubstInv, UNCHANGED <<given, left>>, pc' \in {"child", "ended"}
    PROVE  SubstInv'
BY DEF SubstInv

LEMMA ExecInvStep == ExecInv /\ [Next]_vars => ExecInv'
<1> SUFFICES ASSUME ExecInv, [Next]_vars
             PROVE  ExecInv'
  OBVIOUS
<1>0. (TypeOK /\ FilesInv)'
  BY TypedStep, FilesInvStep DEF ExecInv
<1> SUFFICES (SubstInv /\ ProgramAsTyped /\ TemplateIsEnv)'
  BY <1>0 DEF ExecInv
<1>1. CASE Refuse
  BY <1>1, StopSubst, ChildGone DEF Refuse, Stop, End, command, ExecInv
<1>2. CASE Unlocked
  <2>1. SubstInv'
    BY <1>2 DEF Unlocked, command, ExecInv, SubstInv
  <2> QED
    BY <1>2, <2>1, ChildGone DEF Unlocked, ExecInv
<1>3. CASE WriteFile
  <2>1. SubstInv'
    BY <1>3 DEF WriteFile, command, ExecInv, SubstInv
  <2> QED
    BY <1>3, <2>1, ChildGone DEF WriteFile, ExecInv
<1>4. CASE WriteFails
  BY <1>4, StopSubst, ChildGone DEF WriteFails, End, command, ExecInv
<1>5. CASE LookedUp
  BY <1>5, SubstLookedUp, ChildGone DEF LookedUp, Stop, End, ExecInv
<1>6. CASE Replace
  BY <1>6, SubstReplace, ChildGone DEF Replace, ExecInv
<1>7. CASE Show
  BY <1>7, StopSubst, ChildGone DEF Show, Stop, End, command, ExecInv
<1>8. CASE Start
  <2>1. pc' \in {"child", "ended"} /\ UNCHANGED <<given, left>>
    BY <1>8 DEF Start, Stop, End, command
  <2>2. SubstInv'
    BY <2>1, StopSubst DEF ExecInv
  <2>3. (ProgramAsTyped /\ TemplateIsEnv)'
    BY <1>8, ChildStarted, ChildGone DEF ExecInv
  <2> QED
    BY <2>2, <2>3
<1>9. CASE ChildExits
  BY <1>9, StopSubst, ChildGone DEF ChildExits, End, command, ExecInv
<1>10. CASE Killed
  BY <1>10, StopSubst, ChildGone DEF Killed, Stop, End, command, ExecInv
<1>11. CASE UNCHANGED vars
  <2>1. given' = given /\ pc' = pc /\ cmd' = cmd /\ env' = env /\ left' = left
    BY <1>11 DEF vars, command
  <2>2. SubstInv' /\ ProgramAsTyped'
    BY <2>1 DEF ExecInv, SubstInv, ProgramAsTyped, ProgramPlain, Inline
  <2>3. TemplateIsEnv'
    <3>1. Inline' = Inline /\ Filtered' = Filtered /\ ProgramPlain' = ProgramPlain
      BY <2>1 DEF Inline, Filtered, Filter, ProgramPlain
    <3> SUFFICES ASSUME pc' = "child", ProgramPlain',
                        NEW k \in (ValueNames(given.cmd) \ Inline)', NEW v \in Lookup(k)'
                 PROVE  (\/ <<k, v>> \in env
                         \/ \E i, j \in Filtered :
                              i # j /\ given.vault[i].name = k /\ given.vault[j].name = k)'
      BY DEF TemplateIsEnv
    <3>2. Lookup(k)' = Lookup(k)
      BY <2>1, <3>1 DEF Lookup
    <3> QED
      BY <2>1, <3>1, <3>2 DEF ExecInv, TemplateIsEnv
  <2> QED
    BY <2>2, <2>3
<1> QED
  BY <1>1, <1>2, <1>3, <1>4, <1>5, <1>6, <1>7, <1>8, <1>9, <1>10, <1>11 DEF Next

LEMMA ExecSafe == Spec => []ExecInv
<1>1. Init => ExecInv
  BY InitTyped, InitFiles, InitSubst DEF ExecInv
<1> QED
  BY <1>1, ExecInvStep, PTL DEF Spec

\* The program that was typed is run, whatever the values hold, and every
\* variable that was assigned in front of it is assigned
\* (substitute_templates before split_inline_env).
THEOREM ProgramKept == Spec => []ProgramAsTyped
<1>1. ExecInv => ProgramAsTyped
  BY DEF ExecInv
<1> QED
  BY <1>1, ExecSafe, PTL

\* A template is replaced by what the child has under that name in its
\* environment: both go by the same filter (filter_by_tag).
THEOREM TemplatesAgreeWithEnv == Spec => []TemplateIsEnv
<1>1. ExecInv => TemplateIsEnv
  BY DEF ExecInv
<1> QED
  BY <1>1, ExecSafe, PTL

(***************************************************************************)
(* Replacements one after another and all at once.  A rewritten text is    *)
(* put together from the rewritten parts of it, wherever no template goes  *)
(* over the place where it is cut.                                         *)
(***************************************************************************)

\* No template of R that begins in a reaches into b.
NoCross(a, b, R) ==
    \A k \in 1 .. Len(a) : \A x \in R :
        Stands(x.from, a \o b, k) => k + Len(x.from) <= Len(a) + 1

LEMMA StandsLeft ==
    ASSUME NEW a \in Text, NEW b \in Text, NEW f \in Text, NEW i \in 1 .. Len(a)
    PROVE  Stands(f, a, i) <=> Stands(f, a \o b, i) /\ i + Len(f) <= Len(a) + 1
<1>1. a \in Seq(Symbol) /\ b \in Seq(Symbol) /\ f \in Seq(Symbol)
  BY DEF Text
<1>2. Len(a) \in Nat /\ Len(b) \in Nat /\ Len(f) \in Nat /\ DOMAIN f = 1 .. Len(f)
      /\ Len(a \o b) = Len(a) + Len(b)
  BY <1>1
<1>3. \A k \in 1 .. Len(a) : (a \o b)[k] = a[k]
  BY <1>1
<1>4. ASSUME i + Len(f) <= Len(a) + 1
      PROVE  \A k \in DOMAIN f : i + k - 1 \in 1 .. Len(a)
  BY <1>2, <1>4
<1> QED
  BY <1>2, <1>3, <1>4 DEF Stands

LEMMA StandsRight ==
    ASSUME NEW a \in Text, NEW b \in Text, NEW f \in Text, NEW j \in 1 .. Len(b)
    PROVE  Stands(f, b, j) <=> Stands(f, a \o b, Len(a) + j)
<1>1. a \in Seq(Symbol) /\ b \in Seq(Symbol) /\ f \in Seq(Symbol)
  BY DEF Text
<1>2. Len(a) \in Nat /\ Len(b) \in Nat /\ Len(f) \in Nat /\ DOMAIN f = 1 .. Len(f)
      /\ Len(a \o b) = Len(a) + Len(b)
  BY <1>1
<1>3. \A k \in 1 .. Len(b) : (a \o b)[Len(a) + k] = b[k]
  BY <1>1
<1>4. ASSUME j + Len(f) <= Len(b) + 1
      PROVE  \A k \in DOMAIN f : /\ j + k - 1 \in 1 .. Len(b)
                                 /\ Len(a) + j + k - 1 = Len(a) + (j + k - 1)
  BY <1>2, <1>4
<1>5. Len(a) + j + Len(f) <= Len(a) + Len(b) + 1 <=> j + Len(f) <= Len(b) + 1
  BY <1>2
<1> QED
  BY <1>2, <1>3, <1>4, <1>5 DEF Stands

LEMMA SamePart ==
    ASSUME NEW s, NEW t, NEW R, NEW i, NEW j,
           s[i] = t[j], Met(s, i, R) = Met(t, j, R), Over(s, i, R) <=> Over(t, j, R)
    PROVE  Part(s, R, i) = Part(t, R, j)
<1>1. CASE Over(s, i, R)
  BY <1>1 DEF Part
<1>2. CASE ~Over(s, i, R)
  BY <1>2 DEF Part
<1> QED
  BY <1>1, <1>2

\* The parts of a text cut where no template is.
LEMMA PartsConcat ==
    ASSUME NEW a \in Text, NEW b \in Text, NEW R, NoCross(a, b, R),
           \A x \in R : x.from \in Text
    PROVE  /\ \A i \in 1 .. Len(a) : Part(a \o b, R, i) = Part(a, R, i)
           /\ \A j \in 1 .. Len(b) : Part(a \o b, R, Len(a) + j) = Part(b, R, j)
<1> DEFINE s == a \o b
<1>1. a \in Seq(Symbol) /\ b \in Seq(Symbol) /\ s \in Seq(Symbol)
  BY DEF Text
<1>2. Len(a) \in Nat /\ Len(b) \in Nat /\ Len(s) = Len(a) + Len(b)
      /\ (\A i \in 1 .. Len(a) : s[i] = a[i])
      /\ (\A j \in 1 .. Len(b) : s[Len(a) + j] = b[j])
  BY <1>1
<1>3. ASSUME NEW i \in 1 .. Len(a)
      PROVE  Met(s, i, R) = Met(a, i, R)
  <2>1. \A x \in R : Stands(x.from, s, i) <=> Stands(x.from, a, i)
    <3>1. ASSUME NEW x \in R
          PROVE  Stands(x.from, s, i) <=> Stands(x.from, a, i)
      <4>1. Stands(x.from, s, i) => i + Len(x.from) <= Len(a) + 1
        BY DEF NoCross
      <4> QED
        BY <4>1, StandsLeft
    <3> QED
      BY <3>1
  <2> QED
    BY <2>1 DEF Met
<1>4. ASSUME NEW j \in 1 .. Len(b)
      PROVE  Met(s, Len(a) + j, R) = Met(b, j, R)
  <2>1. \A x \in R : Stands(x.from, s, Len(a) + j) <=> Stands(x.from, b, j)
    BY StandsRight
  <2> QED
    BY <2>1 DEF Met
<1>5. \A x \in R : Len(x.from) \in Nat
  BY DEF Text
<1>6. ASSUME NEW i \in 1 .. Len(a)
      PROVE  Over(s, i, R) <=> Over(a, i, R)
  <2>1. \A k \in 1 .. i - 1 : k \in 1 .. Len(a)
    BY <1>2
  <2>2. \A k \in 1 .. i - 1 : Met(s, k, R) = Met(a, k, R)
    BY <1>3, <2>1
  <2> HIDE DEF s
  <2> QED
    BY <2>2 DEF Over
<1>7. ASSUME NEW j \in 1 .. Len(b)
      PROVE  Over(s, Len(a) + j, R) <=> Over(b, j, R)
  <2>1. ASSUME NEW k \in 1 .. j - 1, NEW x \in Met(b, k, R), j < k + Len(x.from)
        PROVE  Over(s, Len(a) + j, R)
    <3>1. k \in 1 .. Len(b) /\ x \in R
      BY <1>2, <2>1 DEF Met
    <3>2. x \in Met(s, Len(a) + k, R)
      BY <1>4, <3>1
    <3> DEFINE h == Len(a) + k
               m == Len(a) + j
    <3>3. h \in 1 .. m - 1 /\ m < h + Len(x.from)
      <4> DEFINE n == Len(x.from)
                 u == Len(a)
      <4>1. n \in Nat /\ u \in Nat /\ j < k + n
        BY <1>2, <1>5, <2>1, <3>1
      <4> HIDE DEF n, u, s
      <4>2. j \in Int /\ k \in Int /\ 1 <= k /\ k <= j - 1
        OBVIOUS
      <4>3. u + k \in 1 .. u + j - 1 /\ u + j < u + k + n
        BY <4>1, <4>2
      <4>4. h = u + k /\ m = u + j /\ Len(x.from) = n
        BY DEF n, u
      <4> HIDE DEF h, m
      <4>5. h \in 1 .. m - 1
        BY <4>1, <4>2, <4>3, <4>4
      <4>6. m < h + n
        BY <4>1, <4>2, <4>3, <4>4
      <4> QED
        BY <4>4, <4>5, <4>6
    <3>4. x \in Met(s, h, R)
      BY <3>2
    <3> HIDE DEF s, h, m
    <3>5. Over(s, m, R)
      BY <3>3, <3>4 DEF Over
    <3> QED
      BY <3>5 DEF m
  <2>2. ASSUME NEW k \in 1 .. Len(a) + j - 1, NEW x \in Met(s, k, R), Len(a) + j < k + Len(x.from)
        PROVE  Over(b, j, R)
    <3>1. x \in R /\ Stands(x.from, s, k)
      BY DEF Met
    <3>2. ~(k \in 1 .. Len(a))
      <4>1. k \in 1 .. Len(a) => k + Len(x.from) <= Len(a) + 1
        BY <3>1 DEF NoCross
      <4>2. k \in Nat /\ Len(x.from) \in Nat /\ j \in Nat /\ j > 0
        BY <1>2, <1>5, <3>1
      <4> QED
        BY <1>2, <2>2, <4>1, <4>2
    <3> DEFINE h == k - Len(a)
    <3>3. h \in 1 .. j - 1 /\ h \in 1 .. Len(b) /\ k = Len(a) + h
      BY <1>2, <3>2
    <3>4. x \in Met(b, h, R)
      <4> HIDE DEF h
      <4> QED
        BY <1>4, <3>3
    <3>5. j < h + Len(x.from)
      BY <1>2, <1>5, <2>2, <3>1, <3>3
    <3> HIDE DEF h
    <3> QED
      BY <3>3, <3>4, <3>5 DEF Over
  <2> HIDE DEF s
  <2> QED
    BY <2>1, <2>2 DEF Over
<1> HIDE DEF s
<1>8. ASSUME NEW i \in 1 .. Len(a)
      PROVE  Part(s, R, i) = Part(a, R, i)
  <2>1. s[i] = a[i] /\ Met(s, i, R) = Met(a, i, R) /\ (Over(s, i, R) <=> Over(a, i, R))
    BY <1>2, <1>3, <1>6
  <2> QED
    BY <2>1, SamePart
<1>9. ASSUME NEW j \in 1 .. Len(b)
      PROVE  Part(s, R, Len(a) + j) = Part(b, R, j)
  <2> DEFINE m == Len(a) + j
  <2>1. s[m] = b[j] /\ Met(s, m, R) = Met(b, j, R) /\ (Over(s, m, R) <=> Over(b, j, R))
    BY <1>2, <1>4, <1>7
  <2> HIDE DEF m
  <2>2. Part(s, R, m) = Part(b, R, j)
    BY <2>1, SamePart
  <2> QED
    BY <2>2 DEF m
<1> QED
  BY <1>8, <1>9 DEF s

LEMMA RewriteConcat ==
    ASSUME NEW a \in Text, NEW b \in Text, NEW R, NoCross(a, b, R),
           \A x \in R : x.from \in Text /\ x.to \in Text
    PROVE  Rewrite(a \o b, R) = Rewrite(a, R) \o Rewrite(b, R)
<1> DEFINE p == Parts(a, R)
           q == Parts(b, R)
           c == Parts(a \o b, R)
<1>1. a \o b \in Text /\ Len(a \o b) = Len(a) + Len(b) /\ Len(a) \in Nat /\ Len(b) \in Nat
  BY DEF Text
<1>2. /\ p \in Seq(Text) /\ q \in Seq(Text) /\ c \in Seq(Text)
      /\ Len(p) = Len(a) /\ Len(q) = Len(b) /\ Len(c) = Len(a) + Len(b)
      /\ Rewrite(a, R) = FlattenSeq(p) /\ Rewrite(b, R) = FlattenSeq(q)
      /\ Rewrite(a \o b, R) = FlattenSeq(c)
  BY <1>1, RewriteParts
<1>3. \A i \in 1 .. Len(a) : c[i] = p[i]
  <2>1. ASSUME NEW i \in 1 .. Len(a)
        PROVE  c[i] = p[i]
    <3>1. c[i] = Part(a \o b, R, i)
      <4>1. i \in 1 .. Len(a \o b)
        BY <1>1
      <4> QED
        BY <1>1, <4>1, RewriteParts
    <3>2. p[i] = Part(a, R, i)
      BY RewriteParts
    <3> QED
      BY <3>1, <3>2, PartsConcat
  <2> QED
    BY <2>1
<1>4. \A j \in 1 .. Len(b) : c[Len(a) + j] = q[j]
  <2>1. ASSUME NEW j \in 1 .. Len(b)
        PROVE  c[Len(a) + j] = q[j]
    <3>1. c[Len(a) + j] = Part(a \o b, R, Len(a) + j)
      <4>1. Len(a) + j \in 1 .. Len(a \o b)
        BY <1>1
      <4> QED
        BY <1>1, <4>1, RewriteParts
    <3>2. q[j] = Part(b, R, j)
      BY RewriteParts
    <3> QED
      BY <3>1, <3>2, PartsConcat
  <2> QED
    BY <2>1
<1> HIDE DEF p, q, c
<1>5. c = p \o q
  <2>1. \A k \in 1 .. Len(c) : c[k] = (p \o q)[k]
    <3>1. ASSUME NEW k \in 1 .. Len(c)
          PROVE  c[k] = (p \o q)[k]
      <4>1. CASE k \in 1 .. Len(a)
        BY <1>1, <1>2, <1>3, <4>1
      <4>2. CASE k - Len(a) \in 1 .. Len(b)
        <5>1. k = Len(a) + (k - Len(a))
          BY <1>1, <1>2
        <5>2. c[k] = q[k - Len(a)]
          BY <1>4, <4>2, <5>1
        <5> QED
          BY <1>1, <1>2, <4>2, <5>2
      <4> QED
        BY <1>1, <1>2, <4>1, <4>2
    <3> QED
      BY <3>1
  <2>2. p \o q \in Seq(Text) /\ Len(p \o q) = Len(c)
    BY <1>1, <1>2
  <2> DEFINE d == p \o q
  <2>3. d \in Seq(Text) /\ Len(d) = Len(c) /\ c \in Seq(Text) /\ \A k \in 1 .. Len(c) : c[k] = d[k]
    BY <1>2, <2>1, <2>2
  <2> HIDE DEF d
  <2>4. c = d
    BY <2>3
  <2> QED
    BY <2>4 DEF d
<1>6. FlattenSeq(p \o q) = FlattenSeq(p) \o FlattenSeq(q)
  BY <1>2, FlattenConcat DEF Text
<1> QED
  BY <1>2, <1>5, <1>6

(***************************************************************************)
(* Templates with no brace inside                                          *)
(***************************************************************************)
NoBrace(t) == \A k \in DOMAIN t : t[k] # Open /\ t[k] # Close

IsTok(f) == Braced(f) /\ \A k \in 2 .. Len(f) - 1 : f[k] # Open /\ f[k] # Close

\* Different templates, none with a brace inside or in its value.
GoodSet(R) ==
    /\ \A x \in R : IsTok(x.from) /\ x.to \in Text /\ NoBrace(x.to)
    /\ \A x, y \in R : x.from = y.from => x = y

\* A template that begins a text begins it only as far as its closing brace.
LEMMA OneTemplate ==
    ASSUME NEW a \in Text, NEW b \in Text, IsTok(a), NEW f, IsTok(f), Stands(f, a \o b, 1)
    PROVE  f = a
<1>1. a \in Seq(Symbol) /\ b \in Seq(Symbol) /\ f \in Seq(Symbol)
  BY DEF Text, IsTok, Braced
<1> DEFINE m == Len(a)
           n == Len(f)
<1>2. m \in Nat /\ n \in Nat /\ m > 1 /\ n > 1 /\ DOMAIN f = 1 .. n
  BY <1>1 DEF IsTok, Braced
<1>3. \A k \in 1 .. n : (a \o b)[k] = f[k]
  <2>1. \A k \in 1 .. n : 1 + k - 1 = k
    BY <1>2
  <2> QED
    BY <1>2, <2>1 DEF Stands
<1>4. n <= m + Len(b) /\ Len(b) \in Nat
  <2>1. 1 + n <= Len(a \o b) + 1 /\ Len(a \o b) = m + Len(b) /\ Len(b) \in Nat
    BY <1>1 DEF Stands
  <2> QED
    BY <1>2, <2>1
<1>5. \A k \in 1 .. m : (a \o b)[k] = a[k]
  BY <1>1
<1>6. a[m] = Close /\ f[n] = Close
  BY DEF IsTok, Braced
<1>7. \A k \in 2 .. m - 1 : a[k] # Close
  BY DEF IsTok
<1>8. \A k \in 2 .. n - 1 : f[k] # Close
  BY DEF IsTok
<1> HIDE DEF m, n
<1>9. ~(m < n)
  <2> SUFFICES ASSUME m < n
               PROVE  FALSE
    OBVIOUS
  <2>1. m \in 2 .. n - 1 /\ m \in 1 .. n /\ m \in 1 .. m
    BY <1>2
  <2> QED
    BY <1>3, <1>5, <1>6, <1>8, <2>1
<1>10. ~(n < m)
  <2> SUFFICES ASSUME n < m
               PROVE  FALSE
    OBVIOUS
  <2>1. n \in 2 .. m - 1 /\ n \in 1 .. n /\ n \in 1 .. m
    BY <1>2
  <2> QED
    BY <1>3, <1>5, <1>6, <1>7, <2>1
<1>11. n = m
  BY <1>2, <1>9, <1>10
<1>12. \A k \in 1 .. m : f[k] = a[k]
  BY <1>3, <1>5, <1>11
<1> QED
  BY <1>1, <1>11, <1>12 DEF m, n

LEMMA MetOpen ==
    ASSUME NEW s \in Text, NEW R, GoodSet(R), NEW i \in 1 .. Len(s), s[i] # Open
    PROVE  Met(s, i, R) = {}
<1>1. \A x \in R : Braced(x.from)
  BY DEF GoodSet, IsTok
<1>2. ASSUME NEW r \in Met(s, i, R)
      PROVE  FALSE
  BY <1>1, MetFacts
<1> QED
  BY <1>2

\* No template begins where there is no opening brace.
LEMMA NoCrossPlain ==
    ASSUME NEW a \in Text, NEW b \in Text, NEW R, GoodSet(R),
           \A k \in 1 .. Len(a) : a[k] # Open
    PROVE  NoCross(a, b, R)
<1>1. a \in Seq(Symbol) /\ b \in Seq(Symbol) /\ a \o b \in Text
  BY DEF Text
<1>2. ASSUME NEW k \in 1 .. Len(a), NEW x \in R, Stands(x.from, a \o b, k)
      PROVE  FALSE
  <2>1. (a \o b)[k] # Open /\ k \in 1 .. Len(a \o b)
    BY <1>1
  <2>2. x \in Met(a \o b, k, R)
    BY <1>2 DEF Met
  <2> QED
    BY <1>1, <2>1, <2>2, MetOpen
<1> QED
  BY <1>2 DEF NoCross

LEMMA NoCrossTok ==
    ASSUME NEW a \in Text, NEW b \in Text, NEW R, GoodSet(R), IsTok(a)
    PROVE  NoCross(a, b, R)
<1>1. a \in Seq(Symbol) /\ b \in Seq(Symbol) /\ a \o b \in Text /\ Len(a) \in Nat /\ Len(a) > 1
  BY DEF Text, IsTok, Braced
<1>2. ASSUME NEW k \in 1 .. Len(a), NEW x \in R, Stands(x.from, a \o b, k)
      PROVE  k + Len(x.from) <= Len(a) + 1
  <2>1. CASE k = 1
    <3>1. x.from = a
      BY <1>2, <2>1, OneTemplate DEF GoodSet
    <3> QED
      BY <1>1, <2>1, <3>1
  <2>2. CASE k # 1
    <3>1. k \in 2 .. Len(a) - 1 \/ k = Len(a)
      BY <1>1, <2>2
    <3>2. a[k] # Open
      BY <3>1, SymbolsDiffer DEF IsTok, Braced
    <3>3. (a \o b)[k] # Open /\ k \in 1 .. Len(a \o b)
      BY <1>1, <3>2
    <3>4. x \in Met(a \o b, k, R)
      BY <1>2 DEF Met
    <3> QED
      BY <1>1, <3>3, <3>4, MetOpen
  <2> QED
    BY <2>1, <2>2
<1> QED
  BY <1>2 DEF NoCross

LEMMA RewritePlain ==
    ASSUME NEW s \in Text, NEW R, GoodSet(R), \A k \in 1 .. Len(s) : s[k] # Open
    PROVE  Rewrite(s, R) = s
<1>1. \A i \in 1 .. Len(s) : Met(s, i, R) = {}
  BY MetOpen
<1>2. Len(s) \in 0 .. Len(s) /\ \A r \in R : r.to \in Text
  BY DEF Text, GoodSet
<1> QED
  BY <1>1, <1>2, RewriteCopies

\* A template is replaced by its value, or left if it is none of R.
LEMMA RewriteTok ==
    ASSUME NEW a \in Text, IsTok(a), NEW R, GoodSet(R)
    PROVE  /\ \A x \in R : x.from = a => Rewrite(a, R) = x.to
           /\ (\A x \in R : x.from # a) => Rewrite(a, R) = a
<1>0. a \in Seq(Symbol) /\ Len(a) \in Nat /\ Len(a) > 1 /\ \A r \in R : r.to \in Text
  BY DEF Text, IsTok, Braced, GoodSet
<1>1. ASSUME NEW y \in Met(a, 1, R)
      PROVE  y.from = a
  <2>1. y \in R /\ Stands(y.from, a, 1)
    BY DEF Met
  <2>2. <<>> \in Text /\ a \o <<>> = a
    BY <1>0 DEF Text
  <2> QED
    BY <2>1, <2>2, OneTemplate DEF GoodSet
<1>2. \A i \in 2 .. Len(a) : Met(a, i, R) = {}
  <2>1. ASSUME NEW i \in 2 .. Len(a)
        PROVE  Met(a, i, R) = {}
    <3>1. i \in 1 .. Len(a) /\ (i \in 2 .. Len(a) - 1 \/ i = Len(a))
      BY <1>0
    <3>2. a[i] # Open
      BY <3>1, SymbolsDiffer DEF IsTok, Braced
    <3> QED
      BY <3>1, <3>2, MetOpen
  <2> QED
    BY <2>1
<1>3. ASSUME \A x \in R : x.from # a
      PROVE  Rewrite(a, R) = a
  <2>1. Met(a, 1, R) = {}
    BY <1>1, <1>3 DEF Met
  <2>2. \A i \in 1 .. Len(a) : Met(a, i, R) = {}
    <3>1. \A i \in 1 .. Len(a) : i = 1 \/ i \in 2 .. Len(a)
      BY <1>0
    <3> QED
      BY <1>2, <2>1, <3>1
  <2>3. Len(a) \in 0 .. Len(a)
    BY <1>0
  <2> QED
    BY <1>0, <2>2, <2>3, RewriteCopies
<1>4. ASSUME NEW x \in R, x.from = a
      PROVE  Rewrite(a, R) = x.to
  <2>1. Stands(a, a, 1)
    <3>1. \A k \in DOMAIN a : 1 + k - 1 = k
      BY <1>0
    <3> QED
      BY <1>0, <3>1 DEF Stands
  <2>2. x \in Met(a, 1, R)
    BY <1>4, <2>1 DEF Met
  <2>3. Met(a, 1, R) = {x}
    <3>1. \A y \in Met(a, 1, R) : y = x
      BY <1>1, <1>4 DEF Met, GoodSet
    <3> QED
      BY <2>2, <3>1
  <2> DEFINE p == Parts(a, R)
  <2>4. p \in Seq(Text) /\ Len(p) = Len(a) /\ Rewrite(a, R) = FlattenSeq(p)
    BY <1>0, RewriteParts
  <2>5. p[1] = x.to
    <3>1. ~Over(a, 1, R)
      BY DEF Over
    <3>2. Part(a, R, 1) = x.to
      BY <2>3, <3>1 DEF Part
    <3>3. 1 \in 1 .. Len(a)
      BY <1>0
    <3> QED
      BY <1>0, <3>2, <3>3, RewriteParts
  <2>6. ASSUME NEW i \in 2 .. Len(a)
        PROVE  p[i] = <<>>
    <3>1. 1 \in 1 .. i - 1 /\ i < 1 + Len(a) /\ i \in 1 .. Len(a)
      BY <1>0
    <3>2. Over(a, i, R)
      BY <1>4, <2>2, <3>1 DEF Over
    <3>3. Part(a, R, i) = <<>>
      BY <3>2 DEF Part
    <3> QED
      BY <1>0, <3>1, <3>3, RewriteParts
  <2> HIDE DEF p
  <2> DEFINE b == SubSeq(p, 1, 1)
             c == SubSeq(p, 2, Len(p))
  <2>7. p \in Seq(Seq(Symbol)) /\ 1 \in 0 .. Len(p)
    BY <1>0, <2>4 DEF Text
  <2>8. /\ b \in Seq(Seq(Symbol)) /\ Len(b) = 1 /\ c \in Seq(Seq(Symbol))
        /\ Len(c) = Len(p) - 1 /\ p = b \o c
    <3>1. 1 + 1 = 2
      OBVIOUS
    <3> QED
      BY <2>7, <3>1, CutAt
  <2>9. b = <<x.to>>
    <3>1. b[1] = p[1]
      BY <2>7
    <3> HIDE DEF b
    <3> QED
      BY <2>5, <2>8, <3>1
  <2>10. \A i \in 1 .. Len(c) : c[i] = <<>>
    <3>1. ASSUME NEW i \in 1 .. Len(c)
          PROVE  c[i] = <<>>
      <4>1. i + 1 \in 2 .. Len(a)
        BY <1>0, <2>4, <2>8
      <4>2. c[i] = p[i + 1]
        BY <2>4, <2>7, <4>1
      <4> QED
        BY <2>6, <4>1, <4>2
    <3> QED
      BY <3>1
  <2> HIDE DEF b, c
  <2>11. FlattenSeq(c) = <<>>
    BY <2>8, <2>10, FlattenEmpties
  <2>12. x.to \in Seq(Symbol)
    BY <1>0 DEF Text
  <2>13. FlattenSeq(b) = x.to
    BY <2>9, <2>12, FlattenOne
  <2>14. FlattenSeq(b \o c) = FlattenSeq(b) \o FlattenSeq(c)
    BY <2>8, FlattenConcat
  <2> DEFINE v == x.to
  <2>15. v \in Seq(Symbol)
    BY <2>12
  <2>16. FlattenSeq(b \o c) = v \o <<>>
    BY <2>11, <2>13, <2>14
  <2> HIDE DEF v
  <2>17. v \o <<>> = v
    BY <2>15
  <2>18. Rewrite(a, R) = v
    BY <2>4, <2>8, <2>16, <2>17
  <2> QED
    BY <2>18 DEF v
<1> QED
  BY <1>3, <1>4

(***************************************************************************)
(* One replacement after the others, or with them                          *)
(***************************************************************************)
OneByOne(s, A, r) == Rewrite(Rewrite(s, A), {r}) = Rewrite(s, A \cup {r})

\* What holds of two parts holds of the text, where it is cut well.
LEMMA OneByOneConcat ==
    ASSUME NEW a \in Text, NEW b \in Text, NEW A, NEW r, GoodSet(A \cup {r}),
           NoCross(a, b, A), NoCross(a, b, A \cup {r}),
           NoCross(Rewrite(a, A), Rewrite(b, A), {r}),
           OneByOne(a, A, r), OneByOne(b, A, r)
    PROVE  OneByOne(a \o b, A, r)
<1>1. \A x \in A \cup {r} : x.from \in Text /\ x.to \in Text
  BY DEF GoodSet, IsTok, Braced
<1> DEFINE c == Rewrite(a, A)
           d == Rewrite(b, A)
           All == A \cup {r}
           One == {r}
<1>2. c \in Text /\ d \in Text
  BY <1>1, RewriteType
<1>3. Rewrite(a \o b, A) = c \o d
  BY <1>1, RewriteConcat
<1>4. \A x \in All : x.from \in Text /\ x.to \in Text
  BY <1>1
<1>5. \A x \in One : x.from \in Text /\ x.to \in Text
  BY <1>1
<1>6. NoCross(a, b, All) /\ NoCross(c, d, One)
  OBVIOUS
<1>7. /\ Rewrite(c, One) = Rewrite(a, All)
      /\ Rewrite(d, One) = Rewrite(b, All)
  BY DEF OneByOne
<1> HIDE DEF c, d, All, One
<1>8. Rewrite(a \o b, All) = Rewrite(a, All) \o Rewrite(b, All)
  BY <1>4, <1>6, RewriteConcat
<1>9. Rewrite(c \o d, One) = Rewrite(c, One) \o Rewrite(d, One)
  BY <1>2, <1>5, <1>6, RewriteConcat
<1>10. Rewrite(Rewrite(a \o b, A), One) = Rewrite(a \o b, All)
  BY <1>3, <1>7, <1>8, <1>9
<1> QED
  BY <1>10 DEF OneByOne, One, All

LEMMA GoodPart ==
    ASSUME NEW A, NEW r, GoodSet(A \cup {r})
    PROVE  GoodSet(A) /\ GoodSet({r})
BY DEF GoodSet

\* A text without opening braces in front.
LEMMA OneByOnePlain ==
    ASSUME NEW a \in Text, NEW b \in Text, NEW A, NEW r, GoodSet(A \cup {r}),
           \A k \in 1 .. Len(a) : a[k] # Open, OneByOne(b, A, r)
    PROVE  OneByOne(a \o b, A, r)
<1> DEFINE All == A \cup {r}
           One == {r}
<1>1. GoodSet(A) /\ GoodSet(One) /\ GoodSet(All)
  BY GoodPart
<1> HIDE DEF All, One
<1>2. Rewrite(a, A) = a /\ Rewrite(a, One) = a /\ Rewrite(a, All) = a
  BY <1>1, RewritePlain
<1>3. Rewrite(b, A) \in Text
  BY <1>1, RewriteType DEF GoodSet
<1>4. NoCross(a, b, A) /\ NoCross(a, b, All) /\ NoCross(Rewrite(a, A), Rewrite(b, A), One)
  BY <1>1, <1>2, <1>3, NoCrossPlain
<1>5. OneByOne(a, A, r)
  BY <1>2 DEF OneByOne, One, All
<1>6. NoCross(a, b, A) /\ NoCross(a, b, A \cup {r}) /\ NoCross(Rewrite(a, A), Rewrite(b, A), {r})
  BY <1>4 DEF All, One
<1> QED
  BY <1>5, <1>6, OneByOneConcat

\* A template in front.
LEMMA OneByOneTok ==
    ASSUME NEW a \in Text, NEW b \in Text, NEW A, NEW r, GoodSet(A \cup {r}),
           IsTok(a), OneByOne(b, A, r)
    PROVE  OneByOne(a \o b, A, r)
<1> DEFINE All == A \cup {r}
           One == {r}
<1>1. GoodSet(A) /\ GoodSet(One) /\ GoodSet(All)
  BY GoodPart
<1> HIDE DEF All, One
<1>2. Rewrite(b, A) \in Text
  BY <1>1, RewriteType DEF GoodSet
<1>3. NoCross(a, b, A) /\ NoCross(a, b, All)
  BY <1>1, NoCrossTok
<1>4. NoCross(Rewrite(a, A), Rewrite(b, A), One) /\ OneByOne(a, A, r)
  <2>1. CASE \E x \in A : x.from = a
    <3>1. PICK x \in A : x.from = a
      BY <2>1
    <3> DEFINE v == x.to
    <3>2. v \in Text /\ NoBrace(v)
      BY <1>1, <3>1 DEF GoodSet
    <3>3. Rewrite(a, A) = v
      BY <1>1, <3>1, RewriteTok
    <3>4. Rewrite(a, All) = v
      <4>1. x \in All
        BY <3>1 DEF All
      <4> QED
        BY <1>1, <3>1, <4>1, RewriteTok
    <3> HIDE DEF v
    <3>5. \A k \in 1 .. Len(v) : v[k] # Open
      BY <3>2 DEF NoBrace, Text
    <3>6. Rewrite(v, One) = v /\ NoCross(v, Rewrite(b, A), One)
      BY <1>1, <1>2, <3>2, <3>5, RewritePlain, NoCrossPlain
    <3> QED
      BY <3>3, <3>4, <3>6 DEF OneByOne, One, All
  <2>2. CASE \A x \in A : x.from # a
    <3>1. Rewrite(a, A) = a
      BY <1>1, <2>2, RewriteTok
    <3>2. NoCross(a, Rewrite(b, A), One)
      BY <1>1, <1>2, NoCrossTok
    <3>3. Rewrite(a, One) = Rewrite(a, All)
      <4>1. CASE r.from = a
        <5>1. r \in One /\ r \in All
          BY DEF One, All
        <5>2. Rewrite(a, One) = r.to
          BY <1>1, <4>1, <5>1, RewriteTok
        <5>3. Rewrite(a, All) = r.to
          BY <1>1, <4>1, <5>1, RewriteTok
        <5> QED
          BY <5>2, <5>3
      <4>2. CASE r.from # a
        <5>1. (\A x \in One : x.from # a) /\ (\A x \in All : x.from # a)
          BY <2>2, <4>2 DEF One, All
        <5> QED
          BY <1>1, <5>1, RewriteTok
      <4> QED
        BY <4>1, <4>2
    <3> QED
      BY <3>1, <3>2, <3>3 DEF OneByOne, One, All
  <2> QED
    BY <2>1, <2>2
<1>5. NoCross(a, b, A) /\ NoCross(a, b, A \cup {r}) /\ NoCross(Rewrite(a, A), Rewrite(b, A), {r})
  BY <1>3, <1>4 DEF All, One
<1> QED
  BY <1>4, <1>5, OneByOneConcat

\* A text without closing braces holds no template at all.
LEMMA OneByOneOpen ==
    ASSUME NEW s \in Text, NEW A, NEW r, GoodSet(A \cup {r}),
           \A k \in 1 .. Len(s) : s[k] # Close
    PROVE  OneByOne(s, A, r)
<1>1. ASSUME NEW R, GoodSet(R)
      PROVE  Rewrite(s, R) = s
  <2>1. \A x \in R : Braced(x.from) /\ x.to \in Text
    BY <1>1 DEF GoodSet, IsTok
  <2>2. ASSUME NEW i \in 1 .. Len(s), NEW x \in Met(s, i, R)
        PROVE  FALSE
    <3> DEFINE j == i + Len(x.from) - 1
    <3>1. j \in i + 1 .. Len(s) /\ s[j] = Close
      BY <2>1, MetFacts
    <3> HIDE DEF j
    <3>2. j \in 1 .. Len(s)
      BY <3>1 DEF Text
    <3> QED
      BY <3>1, <3>2
  <2>3. Len(s) \in 0 .. Len(s)
    BY DEF Text
  <2>4. \A i \in 1 .. Len(s) : Met(s, i, R) = {}
    BY <2>2
  <2> QED
    BY <2>1, <2>3, <2>4, RewriteCopies
<1>2. Rewrite(s, A) = s /\ Rewrite(s, {r}) = s /\ Rewrite(s, A \cup {r}) = s
  BY <1>1, GoodPart
<1> QED
  BY <1>2 DEF OneByOne

\* A plain text is nothing, or goes on behind a symbol or a template, or
\* opens a brace that is not closed.
LEMMA PlainCases ==
    ASSUME NEW s \in Text, Plain(s), s # <<>>
    PROVE  \/ \A k \in 1 .. Len(s) : s[k] # Close
           \/ \E n \in 1 .. Len(s) :
                 /\ Plain(SubSeq(s, n + 1, Len(s)))
                 /\ \/ IsTok(SubSeq(s, 1, n))
                    \/ n = 1 /\ s[1] # Open
<1>1. s \in Seq(Symbol) /\ Len(s) \in Nat /\ Len(s) > 0 /\ DOMAIN s = 1 .. Len(s)
  BY DEF Text
<1>2. ASSUME NEW n \in 1 .. Len(s)
      PROVE  Plain(SubSeq(s, n + 1, Len(s)))
  <2> DEFINE t == SubSeq(s, n + 1, Len(s))
  <2>1. /\ t \in Seq(Symbol) /\ Len(t) = Len(s) - n /\ DOMAIN t = 1 .. Len(s) - n
        /\ \A k \in 1 .. Len(s) - n : t[k] = s[k + n]
    <3>1. n \in 0 .. Len(s)
      BY <1>1
    <3>2. t \in Seq(Symbol) /\ Len(t) = Len(s) - n
      BY <1>1, <3>1, CutAt
    <3>3. \A k \in 1 .. Len(s) - n : t[k] = s[k + n]
      BY <1>1
    <3> HIDE DEF t
    <3> QED
      BY <3>2, <3>3
  <2> HIDE DEF t
  <2>2. ASSUME NEW i \in DOMAIN t, NEW j \in DOMAIN t, i < j, t[i] = Open, t[j] = Open
        PROVE  \E k \in i .. j : t[k] = Close
    <3>1. i + n \in DOMAIN s /\ j + n \in DOMAIN s /\ i + n < j + n
          /\ s[i + n] = Open /\ s[j + n] = Open
      BY <1>1, <2>1, <2>2
    <3>2. PICK h \in i + n .. j + n : s[h] = Close
      BY <3>1 DEF Plain
    <3>3. h - n \in i .. j /\ h - n \in 1 .. Len(s) - n /\ (h - n) + n = h
      BY <1>1, <2>1, <3>1
    <3>4. t[h - n] = Close
      BY <2>1, <3>2, <3>3
    <3> QED
      BY <3>3, <3>4
  <2>3. Plain(t)
    BY <2>2 DEF Plain
  <2> QED
    BY <2>3 DEF t
<1>3. CASE s[1] # Open
  <2>1. 1 \in 1 .. Len(s)
    BY <1>1
  <2> QED
    BY <1>2, <1>3, <2>1
<1>4. CASE s[1] = Open /\ \E k \in 1 .. Len(s) : s[k] = Close
  <2> DEFINE E == {k \in 1 .. Len(s) : s[k] = Close}
             n == Min(E)
  <2>1. E \in SUBSET Nat /\ E # {}
    BY <1>4
  <2>2. n \in E /\ \A y \in E : n <= y
    <3> HIDE DEF E
    <3> QED
      BY <2>1, MinFacts
  <2> HIDE DEF n
  <2>3. n \in 1 .. Len(s) /\ s[n] = Close /\ \A k \in 1 .. n - 1 : s[k] # Close
    BY <1>1, <2>2
  <2>4. n > 1
    BY <1>4, <2>3, SymbolsDiffer
  <2> DEFINE a == SubSeq(s, 1, n)
  <2>5. a \in Seq(Symbol) /\ Len(a) = n /\ \A k \in 1 .. n : a[k] = s[k]
    BY <1>1, <2>3, CutAt
  <2> HIDE DEF a
  <2>6. ASSUME NEW k \in 2 .. n - 1
        PROVE  a[k] # Open /\ a[k] # Close
    <3>1. k \in 1 .. n - 1 /\ k \in 1 .. n /\ k \in DOMAIN s /\ 1 \in DOMAIN s /\ 1 < k
      BY <1>1, <2>3
    <3>2. ASSUME s[k] = Open
          PROVE  FALSE
      <4>1. PICK j \in 1 .. k : s[j] = Close
        BY <1>4, <3>1, <3>2 DEF Plain
      <4>2. j \in 1 .. n - 1
        BY <2>3, <3>1
      <4> QED
        BY <2>3, <4>1, <4>2
    <3> QED
      BY <2>3, <2>5, <3>1, <3>2
  <2>7. Braced(a)
    BY <1>4, <2>3, <2>4, <2>5 DEF Braced, Text
  <2>8. IsTok(a)
    BY <2>5, <2>6, <2>7 DEF IsTok
  <2> QED
    BY <1>2, <2>3, <2>8 DEF a
<1>5. CASE \A k \in 1 .. Len(s) : s[k] # Close
  BY <1>5
<1> QED
  BY <1>3, <1>4, <1>5

\* In a plain text one replacement after the others is all of them at once.
LEMMA OneAfterTheOthers ==
    ASSUME NEW s \in Text, Plain(s), NEW A, NEW r, GoodSet(A \cup {r})
    PROVE  OneByOne(s, A, r)
<1> DEFINE T == {n \in Nat : \A u \in Text : Len(u) <= n /\ Plain(u) => OneByOne(u, A, r)}
<1>1. 0 \in T
  <2>1. ASSUME NEW u \in Text, Len(u) <= 0
        PROVE  OneByOne(u, A, r)
    <3>1. \A k \in 1 .. Len(u) : u[k] # Close
      BY <2>1 DEF Text
    <3> QED
      BY <3>1, OneByOneOpen
  <2> QED
    BY <2>1
<1>2. ASSUME NEW n \in T
      PROVE  n + 1 \in T
  <2>0. n \in Nat
    OBVIOUS
  <2>1. ASSUME NEW u \in Text, Len(u) <= n + 1, Plain(u)
        PROVE  OneByOne(u, A, r)
    <3>1. CASE u = <<>>
      <4>1. \A k \in 1 .. Len(u) : u[k] # Close
        BY <3>1
      <4> QED
        BY <4>1, OneByOneOpen
    <3>2. CASE \A k \in 1 .. Len(u) : u[k] # Close
      BY <3>2, OneByOneOpen
    <3>3. ASSUME NEW m \in 1 .. Len(u), Plain(SubSeq(u, m + 1, Len(u))),
                 IsTok(SubSeq(u, 1, m)) \/ (m = 1 /\ u[1] # Open)
          PROVE  OneByOne(u, A, r)
      <4> DEFINE a == SubSeq(u, 1, m)
                 b == SubSeq(u, m + 1, Len(u))
      <4>1. u \in Seq(Symbol) /\ Len(u) \in Nat /\ m \in 0 .. Len(u) /\ m > 0
        BY DEF Text
      <4>2. a \in Text /\ b \in Text /\ u = a \o b /\ Len(b) = Len(u) - m /\ Len(a) = m
        BY <4>1, CutAt DEF Text
      <4>3. m = 1 => a[1] = u[1]
        BY <4>1
      <4>4. Plain(b) /\ (IsTok(a) \/ (m = 1 /\ u[1] # Open))
        BY <3>3
      <4> HIDE DEF a, b
      <4>5. Len(b) <= n
        BY <2>0, <2>1, <4>1, <4>2
      <4>6. OneByOne(b, A, r)
        BY <4>2, <4>4, <4>5
      <4>7. CASE IsTok(a)
        BY <4>2, <4>6, <4>7, OneByOneTok
      <4>8. CASE m = 1 /\ u[1] # Open
        <5>1. \A k \in 1 .. Len(a) : a[k] # Open
          BY <4>2, <4>3, <4>8
        <5> QED
          BY <4>2, <4>6, <5>1, OneByOnePlain
      <4> QED
        BY <4>4, <4>7, <4>8
    <3> QED
      BY <2>1, <3>1, <3>2, <3>3, PlainCases
  <2> QED
    BY <2>0, <2>1
<1>3. T = Nat
  <2> HIDE DEF T
  <2>1. T \in SUBSET Nat
    BY DEF T
  <2> QED
    BY <1>1, <1>2, <2>1, NatSet
<1>4. Len(s) \in Nat
  BY DEF Text
<1> QED
  BY <1>3, <1>4

(***************************************************************************)
(* The templates of plain arguments                                        *)
(***************************************************************************)
Names == {t \in Text : NoBrace(t)}

LEMMA PlainTokens ==
    ASSUME NEW s \in Text, Plain(s)
    PROVE  Tokens(s) \in Seq(Names)
<1>1. Len(s) \in Nat /\ DOMAIN s = 1 .. Len(s) /\ s \in Seq(Symbol)
  BY DEF Text
<1>2. ASSUME NEW i \in DOMAIN s, IsStart(s, i), Ends(s, i) # {}
      PROVE  SubSeq(s, i + 1, Min(Ends(s, i)) - 1) \in Names
  <2> DEFINE m == Min(Ends(s, i))
             t == SubSeq(s, i + 1, m - 1)
  <2>1. t \in Text
    BY <1>2, TokenText
  <2>2. Ends(s, i) \in SUBSET Nat
    BY <1>1 DEF Ends
  <2>3. m \in Ends(s, i) /\ \A y \in Ends(s, i) : m <= y
    BY <1>2, <2>2, MinFacts
  <2> HIDE DEF m
  <2>4. m \in 1 .. Len(s) /\ i < m /\ \A y \in i + 1 .. m - 1 : s[y] # Close
    BY <1>1, <2>3 DEF Ends
  <2>5. \A y \in i + 1 .. m - 1 : s[y] # Open
    <3>1. ASSUME NEW y \in i + 1 .. m - 1, s[y] = Open
          PROVE  FALSE
      <4>1. y \in DOMAIN s /\ i < y /\ s[i] = Open
        BY <1>1, <1>2, <2>4 DEF IsStart
      <4>2. PICK k \in i .. y : s[k] = Close
        BY <3>1, <4>1 DEF Plain
      <4>3. k # i
        BY <4>1, <4>2, SymbolsDiffer
      <4>4. k \in i + 1 .. m - 1
        BY <1>1, <2>4, <4>3
      <4> QED
        BY <2>4, <4>2, <4>4
    <3> QED
      BY <3>1
  <2>6. \A k \in DOMAIN t : i + k \in i + 1 .. m - 1 /\ t[k] = s[i + k]
    <3>1. DOMAIN t = 1 .. m - 1 - i /\ \A k \in 1 .. m - 1 - i : t[k] = s[i + k]
      BY <1>1, <2>4
    <3>2. \A k \in 1 .. m - 1 - i : i + k \in i + 1 .. m - 1
      BY <1>1, <2>4
    <3> HIDE DEF t
    <3> QED
      BY <3>1, <3>2
  <2> HIDE DEF t
  <2>7. NoBrace(t)
    BY <2>4, <2>5, <2>6 DEF NoBrace
  <2> QED
    BY <2>1, <2>7 DEF Names, t, m
<1>3. Tokens(s) \in Seq(Names)
  <2> HIDE DEF Names
  <2> QED
    BY <1>2, TokensIn
<1> QED
  BY <1>3

PlainArgs == \A i \in DOMAIN given.cmd : Plain(given.cmd[i])

LEMMA NamesFront ==
    ASSUME NEW t \in Names, Len(t) > 1
    PROVE  Front(t) \in Names
<1>1. t \in Seq(Symbol) /\ Len(t) \in Nat /\ NoBrace(t)
  BY DEF Names, Text
<1>2. Front(t) \in Seq(Symbol) /\ Len(Front(t)) = Len(t) - 1
      /\ \A k \in 1 .. Len(t) - 1 : Front(t)[k] = t[k]
  <2>1. Len(t) - 1 \in 0 .. Len(t) /\ \A k \in 1 .. Len(t) - 1 : t[k] \in Symbol
    BY <1>1
  <2> QED
    BY <1>1, <2>1, CutAt DEF Front
<1>3. \A k \in DOMAIN Front(t) : k \in 1 .. Len(t) - 1 /\ k \in DOMAIN t
  BY <1>1, <1>2
<1>4. NoBrace(Front(t))
  BY <1>1, <1>2, <1>3 DEF NoBrace
<1> QED
  BY <1>2, <1>4 DEF Names, Text

LEMMA PlainNames ==
    ASSUME given.cmd \in Seq(Text), PlainArgs
    PROVE  FileNames(given.cmd) \in Seq(Names) /\ ValueNames(given.cmd) \subseteq Names
<1>1. \A i \in DOMAIN given.cmd : Tokens(given.cmd[i]) \in Seq(Names)
  BY PlainTokens DEF PlainArgs
<1>2. AllTokens(given.cmd) \in Seq(Names)
  <2> HIDE DEF Names
  <2> QED
    BY <1>1, AllTokensIn
<1>3. FileNames(given.cmd) \in Seq(Names)
  BY <1>2, NamesFront, FileNamesIn
<1>4. ValueNames(given.cmd) \subseteq Names
  BY <1>2 DEF ValueNames, Range
<1> QED
  BY <1>3, <1>4

LEMMA FileTokenFacts ==
    ASSUME NEW n \in Text
    PROVE  /\ Len(FileToken(n)) = Len(n) + 3
           /\ \A k \in 1 .. Len(n) : FileToken(n)[k + 1] = n[k]
           /\ FileToken(n)[Len(n) + 2] = AsFile
<1>1. n \in Seq(Symbol)
  BY DEF Text
<1>2. <<AsFile, Close>> \in Seq(Symbol) /\ <<Open>> \in Seq(Symbol)
  BY SymbolsIn
<1> QED
  BY <1>1, <1>2 DEF FileToken

LEMMA ValueTokenFacts ==
    ASSUME NEW n \in Text
    PROVE  /\ Len(ValueToken(n)) = Len(n) + 2
           /\ \A k \in 1 .. Len(n) : ValueToken(n)[k + 1] = n[k]
<1>1. n \in Seq(Symbol)
  BY DEF Text
<1>2. <<Close>> \in Seq(Symbol) /\ <<Open>> \in Seq(Symbol)
  BY SymbolsIn
<1> QED
  BY <1>1, <1>2 DEF ValueToken

LEMMA TemplatesAreToks ==
    ASSUME NEW n \in Names
    PROVE  IsTok(FileToken(n)) /\ IsTok(ValueToken(n)) /\ PathOf(n) \in Text /\ NoBrace(PathOf(n))
<1>1. n \in Text /\ n \in Seq(Symbol) /\ Len(n) \in Nat /\ \A k \in 1 .. Len(n) : n[k] # Open /\ n[k] # Close
  BY DEF Names, NoBrace, Text
<1>2. Braced(FileToken(n)) /\ Braced(ValueToken(n)) /\ PathOf(n) \in Text
  BY <1>1, TemplatesBraced, TemplateTypes
<1>3. ASSUME NEW k \in 2 .. Len(FileToken(n)) - 1
      PROVE  FileToken(n)[k] # Open /\ FileToken(n)[k] # Close
  <2>1. k - 1 \in 1 .. Len(n) \/ k = Len(n) + 2
    BY <1>1, FileTokenFacts
  <2>2. CASE k = Len(n) + 2
    <3>1. AsFile # Open /\ AsFile # Close
      BY DEF AsFile, Open, Close
    <3> QED
      BY <1>1, <2>2, <3>1, FileTokenFacts
  <2>3. CASE k - 1 \in 1 .. Len(n)
    <3>1. FileToken(n)[(k - 1) + 1] = n[k - 1] /\ (k - 1) + 1 = k
      BY <1>1, <2>3, FileTokenFacts
    <3> QED
      BY <1>1, <2>3, <3>1
  <2> QED
    BY <2>1, <2>2, <2>3
<1>4. ASSUME NEW k \in 2 .. Len(ValueToken(n)) - 1
      PROVE  ValueToken(n)[k] # Open /\ ValueToken(n)[k] # Close
  <2>1. k - 1 \in 1 .. Len(n)
    BY <1>1, ValueTokenFacts
  <2>2. ValueToken(n)[(k - 1) + 1] = n[k - 1] /\ (k - 1) + 1 = k
    BY <1>1, <2>1, ValueTokenFacts
  <2> QED
    BY <1>1, <2>1, <2>2
<1>5. NoBrace(PathOf(n))
  <2>1. Slash # Open /\ Slash # Close
    BY DEF Slash, Open, Close
  <2>2. <<Slash>> \in Seq(Symbol)
    BY SymbolsIn
  <2>3. DOMAIN PathOf(n) = 1 .. Len(n) + 1 /\ PathOf(n)[1] = Slash
        /\ \A k \in 2 .. Len(n) + 1 : k - 1 \in 1 .. Len(n) /\ PathOf(n)[k] = n[k - 1]
    BY <1>1, <2>2 DEF PathOf
  <2>4. \A k \in 1 .. Len(n) + 1 : k = 1 \/ k \in 2 .. Len(n) + 1
    BY <1>1
  <2> QED
    BY <1>1, <2>1, <2>3, <2>4 DEF NoBrace
<1> QED
  BY <1>2, <1>3, <1>4, <1>5 DEF IsTok

\* Different names have different templates, of one kind or of both.
LEMMA TemplatesDiffer ==
    ASSUME NEW n \in Text, NEW m \in Text
    PROVE  /\ FileToken(n) = FileToken(m) => n = m
           /\ ValueToken(n) = ValueToken(m) => n = m
           /\ FileToken(n) = ValueToken(m) => m # <<>> /\ IsFileToken(m)
<1>1. n \in Seq(Symbol) /\ m \in Seq(Symbol) /\ Len(n) \in Nat /\ Len(m) \in Nat
  BY DEF Text
<1>2. ASSUME FileToken(n) = FileToken(m)
      PROVE  n = m
  <2>1. Len(n) = Len(m)
    BY <1>1, <1>2, FileTokenFacts
  <2>2. \A k \in 1 .. Len(n) : n[k] = m[k]
    <3>1. ASSUME NEW k \in 1 .. Len(n)
          PROVE  n[k] = m[k]
      <4>1. n[k] = FileToken(n)[k + 1]
        BY FileTokenFacts
      <4>2. m[k] = FileToken(m)[k + 1]
        BY <2>1, FileTokenFacts
      <4> QED
        BY <1>2, <4>1, <4>2
    <3> QED
      BY <3>1
  <2> QED
    BY <1>1, <2>1, <2>2
<1>3. ASSUME ValueToken(n) = ValueToken(m)
      PROVE  n = m
  <2>1. Len(n) = Len(m)
    BY <1>1, <1>3, ValueTokenFacts
  <2>2. \A k \in 1 .. Len(n) : n[k] = m[k]
    <3>1. ASSUME NEW k \in 1 .. Len(n)
          PROVE  n[k] = m[k]
      <4>1. n[k] = ValueToken(n)[k + 1]
        BY ValueTokenFacts
      <4>2. m[k] = ValueToken(m)[k + 1]
        BY <2>1, ValueTokenFacts
      <4> QED
        BY <1>3, <4>1, <4>2
    <3> QED
      BY <3>1
  <2> QED
    BY <1>1, <2>1, <2>2
<1>4. ASSUME FileToken(n) = ValueToken(m)
      PROVE  m # <<>> /\ IsFileToken(m)
  <2>1. Len(m) = Len(n) + 1
    <3>1. Len(n) + 3 = Len(m) + 2
      BY <1>4, FileTokenFacts, ValueTokenFacts
    <3> QED
      BY <1>1, <3>1
  <2>2. Len(m) \in 1 .. Len(m) /\ Len(m) + 1 = Len(n) + 2
    BY <1>1, <2>1
  <2>3. m[Len(m)] = ValueToken(m)[Len(m) + 1]
    BY <2>2, ValueTokenFacts
  <2>4. m[Len(m)] = AsFile
    BY <1>4, <2>2, <2>3, FileTokenFacts
  <2>5. m # <<>>
    BY <1>1, <2>1
  <2> QED
    BY <2>4, <2>5 DEF IsFileToken, Last
<1> QED
  BY <1>2, <1>3, <1>4

LEMMA LookupOne ==
    ASSUME NEW n, NEW v \in Lookup(n), NEW w \in Lookup(n)
    PROVE  v = w
BY DEF Lookup

\* What is replaced where arguments and values are simple.
LEMMA ReplacementsGood ==
    ASSUME Request, Simple, paths \subseteq Names
    PROVE  GoodSet(Replacements)
<1>1. PlainArgs /\ given.cmd \in Seq(Text)
  BY DEF Simple, PlainArgs, Request
<1>2. ValueNames(given.cmd) \subseteq Names
  BY <1>1, PlainNames
<1>3. ASSUME NEW n, NEW v \in Lookup(n)
      PROVE  v \in Text /\ NoBrace(v)
  <2>1. PICK i \in Filtered : given.vault[i].value = v
    BY LookupFacts
  <2>2. BraceFree(v)
    BY <2>1 DEF Simple, Filtered
  <2>3. NoBrace(v)
    BY <2>2 DEF BraceFree, NoBrace, Range, Braces
  <2> QED
    BY <2>3, LookupFacts
<1> DEFINE IsFile(x) == \E n \in paths : x = [from |-> FileToken(n), to |-> PathOf(n)]
           IsValue(x) == \E n \in ValueNames(given.cmd) : \E v \in Lookup(n) :
                            x = [from |-> ValueToken(n), to |-> v]
<1>4. \A x \in Replacements : IsFile(x) \/ IsValue(x)
  BY DEF Replacements
<1>5. ASSUME NEW x \in Replacements
      PROVE  IsTok(x.from) /\ x.to \in Text /\ NoBrace(x.to)
  <2>1. CASE IsFile(x)
    BY <2>1, TemplatesAreToks
  <2>2. CASE IsValue(x)
    BY <1>2, <1>3, <2>2, TemplatesAreToks
  <2> QED
    BY <1>4, <2>1, <2>2
<1>6. ASSUME NEW x \in Replacements, NEW y \in Replacements, x.from = y.from
      PROVE  x = y
  <2>0. \A n \in Names : n \in Text
    BY DEF Names
  <2>1. CASE IsFile(x) /\ IsFile(y)
    BY <1>6, <2>0, <2>1, TemplatesDiffer
  <2>2. CASE IsValue(x) /\ IsValue(y)
    <3>1. PICK n \in ValueNames(given.cmd) : \E v \in Lookup(n) : x = [from |-> ValueToken(n), to |-> v]
      BY <2>2
    <3>2. PICK v \in Lookup(n) : x = [from |-> ValueToken(n), to |-> v]
      BY <3>1
    <3>3. PICK m \in ValueNames(given.cmd) : \E w \in Lookup(m) : y = [from |-> ValueToken(m), to |-> w]
      BY <2>2
    <3>4. PICK w \in Lookup(m) : y = [from |-> ValueToken(m), to |-> w]
      BY <3>3
    <3>5. n = m
      BY <1>2, <1>6, <2>0, <3>2, <3>4, TemplatesDiffer
    <3>6. v = w
      BY <3>5, LookupOne
    <3> QED
      BY <3>2, <3>4, <3>5, <3>6
  <2>3. ASSUME NEW z, NEW u, IsFile(z), IsValue(u), z.from = u.from
        PROVE  FALSE
    <3>1. PICK n \in paths : z = [from |-> FileToken(n), to |-> PathOf(n)]
      BY <2>3
    <3>2. PICK m \in ValueNames(given.cmd) : \E w \in Lookup(m) : u = [from |-> ValueToken(m), to |-> w]
      BY <2>3
    <3>3. FileToken(n) = ValueToken(m)
      BY <2>3, <3>1, <3>2
    <3>4. IsFileToken(m)
      BY <1>2, <2>0, <3>3, TemplatesDiffer
    <3> QED
      BY <3>4 DEF ValueNames
  <2> QED
    BY <1>4, <1>6, <2>1, <2>2, <2>3
<1> QED
  BY <1>5, <1>6 DEF GoodSet

(***************************************************************************)
(* The scan                                                                *)
(***************************************************************************)
NamesInv == PlainArgs => paths \subseteq Names /\ todo \in Seq(Names)

\* The arguments are those of one scan for the templates replaced so far.
ScanInv ==
    pc = "subst" /\ Simple =>
        /\ left \subseteq Replacements /\ Len(cmd) = Len(given.cmd)
        /\ \A i \in 1 .. Len(cmd) : cmd[i] = Rewrite(given.cmd[i], Replacements \ left)

LEMMA ReplacementsSame ==
    ASSUME UNCHANGED <<given, paths>>
    PROVE  Replacements' = Replacements
<1>1. Filtered' = Filtered
  BY DEF Filtered, Filter
<1> QED
  BY <1>1 DEF Replacements, Lookup

LEMMA NamesStep == TypeOK /\ NamesInv /\ [Next]_vars => NamesInv'
<1> SUFFICES ASSUME TypeOK, NamesInv, [Next]_vars
             PROVE  NamesInv'
  OBVIOUS
<1>0. given' = given => (PlainArgs <=> PlainArgs')
  BY DEF PlainArgs
<1>1. CASE Unlocked
  <2>1. given' = given /\ paths' = paths
    BY <1>1 DEF Unlocked, command
  <2>2. PlainArgs => FileNames(given.cmd) \in Seq(Names)
    BY RequestTyped, PlainNames DEF Request
  <2>3. <<>> \in Seq(Names)
    OBVIOUS
  <2>4. PlainArgs => todo' \in Seq(Names)
    BY <1>1, <2>2, <2>3 DEF Unlocked
  <2> QED
    BY <1>0, <2>1, <2>4 DEF NamesInv
<1>2. CASE WriteFile
  <2>1. given' = given /\ todo # <<>> /\ todo' = Tail(todo) /\ paths' \subseteq paths \cup {Head(todo)}
    BY <1>2 DEF WriteFile, command
  <2>2. todo \in Seq(Names) /\ todo # <<>> => Head(todo) \in Names /\ Tail(todo) \in Seq(Names)
    OBVIOUS
  <2> HIDE DEF Names
  <2> QED
    BY <1>0, <2>1, <2>2 DEF NamesInv
<1>3. CASE given' = given /\ paths' = paths /\ todo' = todo
  BY <1>0, <1>3 DEF NamesInv
<1>4. Unlocked \/ WriteFile \/ (given' = given /\ paths' = paths /\ todo' = todo)
  <2>1. CASE Refuse \/ Show \/ Killed
    BY <2>1 DEF Refuse, Show, Killed, Stop, temp, command
  <2>2. CASE WriteFails \/ ChildExits
    BY <2>2 DEF WriteFails, ChildExits, command
  <2>3. CASE LookedUp
    BY <2>3 DEF LookedUp, Stop, temp, command
  <2>4. CASE Replace
    BY <2>4 DEF Replace, temp
  <2>5. CASE Start
    BY <2>5 DEF Start, Stop, temp, command
  <2>6. CASE UNCHANGED vars
    BY <2>6 DEF vars, temp, command
  <2> QED
    BY <2>1, <2>2, <2>3, <2>4, <2>5, <2>6 DEF Next
<1> QED
  BY <1>1, <1>2, <1>3, <1>4

LEMMA RewriteNothing ==
    ASSUME NEW s \in Text
    PROVE  Rewrite(s, {}) = s
<1>1. \A i \in 1 .. Len(s) : Met(s, i, {}) = {}
  BY DEF Met
<1>2. Len(s) \in 0 .. Len(s)
  BY DEF Text
<1> QED
  BY <1>1, <1>2, RewriteCopies

LEMMA ScanLookedUp == ExecInv /\ LookedUp => ScanInv'
<1> SUFFICES ASSUME ExecInv, LookedUp
             PROVE  ScanInv'
  OBVIOUS
<1>1. CASE Stop("failed")
  BY <1>1 DEF Stop, End, ScanInv
<1>2. CASE /\ pc' = "subst" /\ left' = Replacements
           /\ UNCHANGED <<outcome, cmd, env, given>> /\ UNCHANGED temp
  <2>1. cmd = given.cmd /\ cmd \in Seq(Text)
    BY DEF LookedUp, ExecInv, SubstInv, TypeOK
  <2>2. Replacements' = Replacements /\ given' = given /\ cmd' = cmd
    BY <1>2, ReplacementsSame DEF temp
  <2>3. (Replacements \ left)' = {}
    BY <1>2, <2>2
  <2>4. \A i \in 1 .. Len(cmd) : given.cmd[i] = Rewrite(given.cmd[i], {})
    BY <2>1, RewriteNothing
  <2>5. left' \subseteq Replacements'
    BY <1>2, <2>2
  <2>6. \A i \in 1 .. Len(cmd') : cmd'[i] = Rewrite(given'.cmd[i], (Replacements \ left)')
    BY <2>1, <2>2, <2>3, <2>4
  <2> QED
    BY <2>1, <2>2, <2>5, <2>6 DEF ScanInv
<1> QED
  BY <1>1, <1>2 DEF LookedUp

LEMMA ScanReplace == ExecInv /\ NamesInv /\ ScanInv /\ Replace => ScanInv'
<1> SUFFICES ASSUME ExecInv, NamesInv, ScanInv, Replace, Simple
             PROVE  ScanInv'
  <2>1. Replace => (Simple' => Simple)
    BY DEF Replace, Simple
  <2> QED
    BY <2>1 DEF ScanInv
<1>1. PICK r \in left : /\ cmd' = [i \in DOMAIN cmd |-> Rewrite(cmd[i], {r})]
                        /\ left' = left \ {r}
                        /\ UNCHANGED <<pc, outcome, env, given>> /\ UNCHANGED temp
  BY DEF Replace
<1>2. pc = "subst" /\ cmd \in Seq(Text) /\ Request
  BY RequestTyped DEF Replace, ExecInv, TypeOK
<1>3. Replacements' = Replacements /\ given' = given
  BY <1>1, ReplacementsSame DEF temp
<1> DEFINE A == Replacements \ left
<1>4. left \subseteq Replacements /\ Len(cmd) = Len(given.cmd)
      /\ \A i \in 1 .. Len(cmd) : cmd[i] = Rewrite(given.cmd[i], A)
  BY <1>2 DEF ScanInv
<1>5. A \cup {r} = Replacements \ left'
  BY <1>1, <1>4
<1>6. GoodSet(A \cup {r})
  <2>1. GoodSet(Replacements)
    BY <1>2, ReplacementsGood DEF NamesInv, Simple, PlainArgs
  <2>2. A \cup {r} \subseteq Replacements
    BY <1>4
  <2> HIDE DEF A
  <2> QED
    BY <2>1, <2>2 DEF GoodSet
<1> HIDE DEF A
<1>7. Len(cmd') = Len(cmd) /\ \A i \in 1 .. Len(cmd) : cmd'[i] = Rewrite(cmd[i], {r})
  BY <1>1, <1>2
<1>8. ASSUME NEW i \in 1 .. Len(cmd)
      PROVE  cmd'[i] = Rewrite(given.cmd[i], A \cup {r})
  <2>1. given.cmd[i] \in Text /\ Plain(given.cmd[i])
    BY <1>2, <1>4 DEF Request, Simple
  <2>2. OneByOne(given.cmd[i], A, r)
    BY <1>6, <2>1, OneAfterTheOthers
  <2> QED
    BY <1>4, <1>7, <2>2 DEF OneByOne
<1>9. \A i \in 1 .. Len(cmd') : cmd'[i] = Rewrite(given'.cmd[i], (Replacements \ left)')
  BY <1>3, <1>5, <1>7, <1>8
<1>10. (left \subseteq Replacements)' /\ Len(cmd') = Len(given'.cmd)
  BY <1>1, <1>3, <1>4, <1>7
<1> QED
  BY <1>9, <1>10 DEF ScanInv

LEMMA ScanStep == ExecInv /\ NamesInv /\ ScanInv /\ [Next]_vars => ScanInv'
<1> SUFFICES ASSUME ExecInv, NamesInv, ScanInv, [Next]_vars
             PROVE  ScanInv'
  OBVIOUS
<1>1. CASE LookedUp
  BY <1>1, ScanLookedUp
<1>2. CASE Replace
  BY <1>2, ScanReplace
<1>3. CASE pc' # "subst"
  BY <1>3 DEF ScanInv
<1>4. CASE UNCHANGED vars
  <2>1. Replacements' = Replacements
    BY <1>4, ReplacementsSame DEF vars, temp, command
  <2>2. given' = given /\ pc' = pc /\ cmd' = cmd /\ left' = left
    BY <1>4 DEF vars, command
  <2>3. Simple' <=> Simple
    BY <2>2 DEF Simple
  <2> QED
    BY <2>1, <2>2, <2>3 DEF ScanInv
<1>5. CASE Refuse \/ Show \/ Killed
  BY <1>3, <1>5 DEF Refuse, Show, Killed, Stop, End
<1>6. CASE Unlocked
  BY <1>3, <1>6 DEF Unlocked
<1>7. CASE WriteFile
  BY <1>3, <1>7 DEF WriteFile
<1>8. CASE WriteFails \/ ChildExits
  BY <1>3, <1>8 DEF WriteFails, ChildExits, End
<1>9. CASE Start
  BY <1>3, <1>9 DEF Start, Stop, End
<1> QED
  BY <1>1, <1>2, <1>4, <1>5, <1>6, <1>7, <1>8, <1>9 DEF Next

\* Whatever the order in which the replacements are walked, the arguments end
\* as one scan makes them (the loops over hash maps in substitute_templates).
THEOREM AnyOrderIsOneScan == Spec => []OneScan
<1> DEFINE I == ExecInv /\ NamesInv /\ ScanInv
<1>1. Init => NamesInv /\ ScanInv
  <2>1. <<>> \in Seq(Names)
    OBVIOUS
  <2> HIDE DEF Names
  <2> QED
    BY <2>1 DEF Init, NamesInv, ScanInv
<1>2. Init => ExecInv
  BY InitTyped, InitFiles, InitSubst DEF ExecInv
<1>3. I /\ [Next]_vars => I'
  BY ExecInvStep, NamesStep, ScanStep DEF ExecInv
<1>4. I => OneScan
  <2> SUFFICES ASSUME I, Simple, pc = "subst", left = {}
               PROVE  cmd = [i \in DOMAIN given.cmd |-> Rewrite(given.cmd[i], Replacements)]
    BY DEF OneScan
  <2>1. Len(cmd) = Len(given.cmd) /\ \A i \in 1 .. Len(cmd) : cmd[i] = Rewrite(given.cmd[i], Replacements)
    <3>1. Replacements \ left = Replacements
      OBVIOUS
    <3> QED
      BY <3>1 DEF ScanInv
  <2>2. cmd \in Seq(Text) /\ given.cmd \in Seq(Text)
    BY RequestTyped DEF ExecInv, TypeOK, Request
  <2> QED
    BY <2>1, <2>2
<1> QED
  BY <1>1, <1>2, <1>3, <1>4, PTL DEF Spec

=============================================================================
