------------------------------- MODULE ExecRun -------------------------------
(***************************************************************************)
(* envi exec (cli/src/commands/exec.rs): run a command with the secrets of *)
(* a vault in its environment, after replacing {NAME} in its arguments by  *)
(* the value of a secret and {NAME_AS_FILE_PATH} by the path of a file     *)
(* that holds it.                                                          *)
(*                                                                         *)
(* Texts are sequences of symbols: the three that the code looks for, the  *)
(* suffix as one symbol, and letters.  A replacement map is a hash map, so *)
(* its entries are applied in any order, each to the result of the others. *)
(* The vault is opened as in VaultRepo and KeyAgent; here that either      *)
(* gives the list of secrets or ends the command.                          *)
(***************************************************************************)
EXTENDS Naturals, Sequences, SequencesExt, FiniteSets

CONSTANTS
    Letter,     \* symbols an environment variable may be named with
    Tag,        \* tags
    NoTag,      \* no tag filter given
    Commands,   \* command lines tried: sequences of texts
    Vaults,     \* lists of secrets tried, in the order of the hash map
    Outer       \* environment of envi: a set of <<name, value>>

Open == "{"
Close == "}"
Equals == "="
AsFile == "_AS_FILE_PATH"
Slash == "/"       \* a path is this symbol and the name of its file

Symbol == Letter \cup {Open, Close, Equals, AsFile, Slash}
Text == Seq(Symbol)
Secret == [name : Text, value : Text, tags : SUBSET Tag]

ASSUME ExecAssumption ==
    /\ Letter \cap {Open, Close, Equals, AsFile, Slash} = {}
    /\ Commands \subseteq Seq(Text) /\ Vaults \subseteq Seq(Secret)
    /\ Outer \subseteq Text \X Text

VARIABLES
    given,      \* the request: command, flags, tag filters, secrets of the vault
    pc,         \* where exec is
    outcome,    \* how it ended
    todo,       \* names of file templates not looked up yet
    files,      \* names of the files in the temporary directory
    dir,        \* whether the directory exists
    paths,      \* file templates with a secret: names
    left,       \* replacements not applied yet
    cmd,        \* the command with the replacements so far
    env         \* environment of the child: a set of <<name, value>>

temp == <<todo, files, dir, paths>>
command == <<given, left, cmd, env>>
vars == <<pc, outcome, temp, command>>

TypeOK ==
    /\ given.cmd \in Commands /\ given.vault \in Vaults
    /\ pc \in {"start", "files", "subst", "child", "ended"}
    /\ outcome \in {"none", "refused", "shown", "failed", "killed", "exit"}
    /\ todo \in Seq(Seq(Symbol))
    /\ files \in SUBSET Text /\ paths \in SUBSET Text
    /\ dir \in BOOLEAN /\ (files # {} => dir)
    /\ \A r \in left : r.from \in Text /\ r.to \in Text
    /\ cmd \in Seq(Text)
    /\ \A v \in env : v \in Text \X Text

-----------------------------------------------------------------------------
(***************************************************************************)
(* Texts                                                                   *)
(***************************************************************************)

\* Text from is in s from position i on.
Stands(from, s, i) ==
    i + Len(from) <= Len(s) + 1 /\ \A k \in DOMAIN from : s[i + k - 1] = from[k]

\* The replacements for what is at i; what is before i and reaches over it.
Met(s, i, R) == {r \in R : Stands(r.from, s, i)}
Over(s, i, R) == \E k \in 1 .. i - 1 : \E r \in Met(s, k, R) : i < k + Len(r.from)

\* One scan that puts r.to for every r.from in R that is met.  Templates that
\* overlap end at the same brace, and the first of them is the one replaced.
Rewrite(s, R) == FlattenSeq([i \in DOMAIN s |->
    IF Over(s, i, R) THEN <<>>
    ELSE IF Met(s, i, R) = {} THEN <<s[i]>> ELSE (CHOOSE r \in Met(s, i, R) : TRUE).to])

\* An opening brace starts a token if every one before it was closed by then;
\* the token ends before the next closing one.
IsStart(s, i) == s[i] = Open /\ \A k \in 1 .. i - 1 : s[k] = Open => \E j \in k .. i : s[j] = Close
Ends(s, i) == {j \in DOMAIN s : j > i /\ s[j] = Close}

\* The tokens of one argument.
Tokens(s) == FlattenSeq([i \in DOMAIN s |->
    IF IsStart(s, i) /\ Ends(s, i) # {} THEN <<SubSeq(s, i + 1, Min(Ends(s, i)) - 1)>> ELSE <<>>])

AllTokens(args) == FlattenSeq([i \in DOMAIN args |-> Tokens(args[i])])

OnlyOnce(s) ==
    FlattenSeq([i \in DOMAIN s |-> IF \E j \in 1 .. i - 1 : s[j] = s[i] THEN <<>> ELSE <<s[i]>>])

IsFileToken(t) == t # <<>> /\ Last(t) = AsFile

\* collect_templates: the names of both kinds, in order of appearance.
FileNames(args) ==
    LET ts == AllTokens(args)
        name(t) == IF IsFileToken(t) /\ Len(t) > 1 THEN <<Front(t)>> ELSE <<>>
    IN  OnlyOnce(FlattenSeq([i \in DOMAIN ts |-> name(ts[i])]))
ValueNames(args) == {t \in Range(AllTokens(args)) : t # <<>> /\ ~IsFileToken(t)}

FileToken(n) == <<Open>> \o n \o <<AsFile, Close>>
ValueToken(n) == <<Open>> \o n \o <<Close>>
PathOf(n) == <<Slash>> \o n

\* Mutant: an argument is split at its last equals sign.
SplitAt_Last(arg) ==
    LET at == {i \in DOMAIN arg : arg[i] = Equals} IN IF at = {} THEN 0 ELSE Max(at)

SplitAt(arg) ==
    LET at == {i \in DOMAIN arg : arg[i] = Equals} IN IF at = {} THEN 0 ELSE Min(at)

\* KEY=VALUE, with a key that the shell would take.
IsAssignment(arg) ==
    /\ SplitAt(arg) > 1
    /\ \A i \in 1 .. SplitAt(arg) - 1 : arg[i] \in Letter \cup {AsFile}

Assignment(arg) == <<SubSeq(arg, 1, SplitAt(arg) - 1),
                     SubSeq(arg, SplitAt(arg) + 1, Len(arg))>>

\* split_inline_env: how many leading arguments are assignments.
Leading(args) ==
    Min({n \in 0 .. Len(args) : n < Len(args) => ~IsAssignment(args[n + 1])})

-----------------------------------------------------------------------------
(***************************************************************************)
(* Secrets                                                                 *)
(***************************************************************************)

\* The flag, else the tag of the .envi file.
Filter == IF given.tagArg # NoTag THEN given.tagArg ELSE given.tagFile

\* filter_by_tag: the places of the secrets with one of the tags, or of all.
Filtered == {i \in DOMAIN given.vault : Filter = NoTag \/ given.vault[i].tags \cap Filter # {}}

\* Mutant: the tag filter is not applied to templates.
Lookup_AnyTag(n) ==
    LET at == {i \in DOMAIN given.vault : given.vault[i].name = n}
    IN  IF at = {} THEN {} ELSE {given.vault[Min(at)].value}

\* The value of the first secret of that name, if there is one.
Lookup(n) ==
    LET at == {i \in Filtered : given.vault[i].name = n}
    IN  IF at = {} THEN {} ELSE {given.vault[Min(at)].value}

\* Command::envs: the value given last for a name is the one it has.
Overriding(old, new) ==
    LET names == {v[1] : v \in new} IN {v \in old : v[1] \notin names} \cup new

AsEnv(s) == {s[i] : i \in {k \in DOMAIN s : \A j \in DOMAIN s : j > k => s[j][1] # s[k][1]}}

-----------------------------------------------------------------------------
Init ==
    /\ given \in [cmd : Commands, vault : Vaults, template : BOOLEAN, dryRun : BOOLEAN,
                  tagArg : {NoTag, Tag}, tagFile : {NoTag} \cup {{t} : t \in Tag}]
    /\ pc = "start" /\ outcome = "none"
    /\ todo = <<>> /\ files = {} /\ dir = FALSE /\ paths = {} /\ left = {}
    /\ cmd = given.cmd
    /\ env = {}

End(how) == pc' = "ended" /\ outcome' = how
Stop(how) == End(how) /\ UNCHANGED temp /\ UNCHANGED command

\* No such vault, no key, a vault that cannot be read, no directory for files.
Refuse == pc = "start" /\ Stop("refused")

\* A signal, such as Ctrl-C, ends envi at any time.
Killed == pc # "ended" /\ Stop("killed")

\* The vault is open: make a directory if files are needed.
Unlocked ==
    /\ pc = "start" /\ pc' = "files"
    /\ todo' = IF given.template THEN FileNames(given.cmd) ELSE <<>>
    /\ dir' = (todo' # <<>> /\ ~given.dryRun)
    /\ UNCHANGED <<outcome, files, paths>> /\ UNCHANGED command

\* Mutant: a dry run writes the files as well.
WriteFile_Dry ==
    /\ pc = "files" /\ todo # <<>> /\ todo' = Tail(todo)
    /\ LET found == {n \in {Head(todo)} : Lookup(n) # {}} IN
        /\ paths' = paths \cup found
        /\ files' = files \cup found
    /\ UNCHANGED <<pc, outcome, dir>> /\ UNCHANGED command

\* Look up the next file template and write its file, unless this is a dry
\* run; a template without a secret is left alone.
WriteFile ==
    /\ pc = "files" /\ todo # <<>> /\ todo' = Tail(todo)
    /\ LET found == {n \in {Head(todo)} : Lookup(n) # {}} IN
        /\ paths' = paths \cup found
        /\ files' = IF dir THEN files \cup found ELSE files
    /\ UNCHANGED <<pc, outcome, dir>> /\ UNCHANGED command

\* A file that cannot be made, or not written, ends the command as it is.
WriteFails ==
    /\ pc = "files" /\ todo # <<>> /\ dir /\ Lookup(Head(todo)) # {}
    /\ End("failed")
    /\ files' \in {files, files \cup {Head(todo)}}
    /\ UNCHANGED <<todo, dir, paths>> /\ UNCHANGED command

Replacements ==
    {[from |-> FileToken(n), to |-> PathOf(n)] : n \in paths}
      \cup UNION {{[from |-> ValueToken(n), to |-> v] : v \in Lookup(n)} :
                     n \in IF given.template THEN ValueNames(given.cmd) ELSE {}}

\* All templates are looked up; without a command there is nothing to run.
LookedUp ==
    /\ pc = "files" /\ todo = <<>>
    /\ IF given.cmd = <<>> /\ ~given.dryRun
       THEN Stop("failed")
       ELSE /\ pc' = "subst" /\ left' = Replacements
            /\ UNCHANGED <<outcome, cmd, env, given>> /\ UNCHANGED temp

\* Mutant: the name of the program is not rewritten.
Replace_Args == \E r \in left :
    /\ pc = "subst"
    /\ cmd' = [i \in DOMAIN cmd |-> IF i = 1 THEN cmd[1] ELSE Rewrite(cmd[i], {r})]
    /\ left' = left \ {r}
    /\ UNCHANGED <<pc, outcome, env, given>> /\ UNCHANGED temp

\* substitute_templates: one entry, in every argument; files before values.
Replace == \E r \in left :
    /\ pc = "subst"
    /\ LET ofFiles == {q \in left : q.from \in {FileToken(n) : n \in paths}}
       IN  ofFiles # {} => r \in ofFiles
    /\ cmd' = [i \in DOMAIN cmd |-> Rewrite(cmd[i], {r})]
    /\ left' = left \ {r}
    /\ UNCHANGED <<pc, outcome, env, given>> /\ UNCHANGED temp

\* A dry run ends by showing the command and the secrets.
Show == pc = "subst" /\ left = {} /\ given.dryRun /\ Stop("shown")

\* Split the assignments off and start what is left, if that is not empty and
\* can be started; the child has the environment of envi, overridden by the
\* secrets, overridden by the assignments.
Start ==
    /\ pc = "subst" /\ left = {} /\ ~given.dryRun
    /\ LET n == Leading(cmd)
           secrets == AsEnv([i \in Filtered |-> <<given.vault[i].name, given.vault[i].value>>])
           inline == AsEnv([i \in 1 .. n |-> Assignment(cmd[i])])
       IN  \/ Stop("failed")
           \/ /\ n < Len(cmd) /\ pc' = "child"
              /\ cmd' = SubSeq(cmd, n + 1, Len(cmd))
              /\ env' = Overriding(Overriding(Outer, secrets), inline)
              /\ UNCHANGED <<outcome, left, given>> /\ UNCHANGED temp

\* Mutant: the directory is left when no file was written into it.
ChildExits_KeepDir ==
    /\ pc = "child" /\ End("exit")
    /\ files' = {} /\ dir' = (dir /\ files = {})
    /\ UNCHANGED <<todo, paths>> /\ UNCHANGED command

\* The child ends: remove the directory, exit with its code.
ChildExits ==
    /\ pc = "child" /\ End("exit")
    /\ files' = {} /\ dir' = FALSE
    /\ UNCHANGED <<todo, paths>> /\ UNCHANGED command

Next ==
    \/ Refuse \/ Unlocked \/ WriteFile \/ WriteFails \/ LookedUp \/ Replace
    \/ Show \/ Start \/ ChildExits \/ Killed

Spec == Init /\ [][Next]_vars

-----------------------------------------------------------------------------
(***************************************************************************)
(* Properties                                                              *)
(***************************************************************************)
Braces == {Open, Close}
BraceFree(s) == Range(s) \cap Braces = {}

\* No brace inside the braces of a template.
Plain(s) == \A i, j \in DOMAIN s :
    i < j /\ s[i] = Open /\ s[j] = Open => \E k \in i .. j : s[k] = Close

\* The values put into arguments hold no template, the arguments nest none.
Simple ==
    /\ \A i \in DOMAIN given.vault : BraceFree(given.vault[i].value)
    /\ \A i \in DOMAIN given.cmd : Plain(given.cmd[i])

\* In whatever order the hash maps are walked, the arguments are those of one
\* scan that replaces every template at once, unless a value holds a template
\* itself; a dry run shows the same.
OneScan ==
    /\ Simple /\ pc = "subst" /\ left = {}
    => cmd = [i \in DOMAIN given.cmd |-> Rewrite(given.cmd[i], Replacements)]

\* "Deleted automatically when the command exits": files of secrets are left
\* behind only where no command has run to its end, and a dry run makes none.
FilesGone ==
    /\ outcome \in {"exit", "shown", "refused"} => ~dir /\ files = {}
    /\ pc = "child" => files = paths

\* The first argument that was typed as no assignment holds no template.
ProgramPlain ==
    LET n == Leading(given.cmd)
    IN  n < Len(given.cmd) /\ Tokens(given.cmd[n + 1]) = <<>>

Inline == {Assignment(given.cmd[i])[1] : i \in 1 .. Leading(given.cmd)}

\* A value that holds an equals sign changes neither which program is run nor
\* which variables are assigned, as long as the program is no template.
ProgramAsTyped ==
    pc = "child" /\ ProgramPlain =>
        /\ cmd[1] = given.cmd[Leading(given.cmd) + 1]
        /\ Inline \subseteq {v[1] : v \in env}

\* "The --tag filter applies to template lookups the same way it does to
\* environment variable injection": what a template is replaced by is what the
\* child has in its environment under that name, unless the name is assigned
\* inline or two of the secrets share it.
TemplateIsEnv ==
    pc = "child" /\ ProgramPlain =>
        \A n \in ValueNames(given.cmd) \ Inline : \A v \in Lookup(n) :
            \/ <<n, v>> \in env
            \/ \E i, j \in Filtered :
                   i # j /\ given.vault[i].name = n /\ given.vault[j].name = n
=============================================================================
