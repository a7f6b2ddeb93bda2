------------------------------- MODULE KeyAgent -------------------------------
(***************************************************************************)
(* The key agent (cli/src/agent.rs) and the commands that talk to it.      *)
(*                                                                         *)
(* An agent is a background process that keeps the derived key of each     *)
(* terminal session in RAM.  The file agent.json says where the agent      *)
(* listens and the token it wants: nothing locks it, every agent writes    *)
(* it once when it starts, and whoever stops an agent removes it.  A       *)
(* command reads the file, pings the agent and starts one if none answers. *)
(*                                                                         *)
(* One vault; one command at a time in a session.  A request that times    *)
(* out is still handled by the agent some time later.                      *)
(***************************************************************************)
EXTENDS Naturals, FiniteSets

CONSTANTS
    Session,     \* terminal sessions (session leader pid and start time)
    Agent,       \* agent processes, started once each
    NoAgent,     \* agent.json is missing or incomplete, or no agent is meant
    MaxTries,    \* bound: how often a command looks for the agent it started
    MaxTimeouts  \* bound: requests that time out

ASSUME KeyAgentAssumption ==
    /\ NoAgent \notin Agent
    /\ MaxTries \in Nat \ {0} /\ MaxTimeouts \in Nat

VARIABLES
    agent,     \* agent -> "off", "bound", "writing", "serving", "dying", "dead"
    keys,      \* agent -> sessions whose key it keeps
    quiet,     \* agents without an authorised request for DEFAULT_TTL_SECS
    file,      \* the agent that agent.json names
    client,    \* session -> the command it runs, where that is, its agent, and
               \* how often it may still look for the agent it started
    stray,     \* requests whose client stopped waiting, not handled yet
    timeouts,  \* requests that timed out so far
    forgot     \* history: sessions that logged out and typed no passphrase since

vars == <<agent, keys, quiet, file, client, stray, timeouts, forgot>>
servers == <<agent, keys, quiet, file>>

Commands == {"open", "start", "logout", "wipe"}
Requests == {"ping", "get", "store", "kill"}   \* as a place: waiting for the answer
Client == [at : {"idle", "read", "none", "prompt", "remove"} \cup Requests,
           command : Commands, agent : Agent \cup {NoAgent}, tries : 0 .. MaxTries + 1]
Place(l, c, n) == [at |-> l, command |-> c, agent |-> NoAgent, tries |-> n]
Idle == Place("idle", "start", 0)

TypeOK ==
    /\ agent \in [Agent -> {"off", "bound", "writing", "serving", "dying", "dead"}]
    /\ keys \in [Agent -> SUBSET Session]
    /\ quiet \subseteq Agent
    /\ file \in Agent \cup {NoAgent}
    /\ client \in [Session -> Client]
    /\ stray \subseteq [agent : Agent, request : Requests, session : Session]
    /\ timeouts \in 0 .. MaxTimeouts
    /\ forgot \subseteq Session

Init ==
    /\ agent = [s \in Agent |-> "off"]
    /\ keys = [s \in Agent |-> {}]
    /\ quiet = {}
    /\ file = NoAgent
    /\ client = [t \in Session |-> Idle]
    /\ stray = {}
    /\ timeouts = 0
    /\ forgot = {}

Alive(s) == agent[s] \in {"serving", "dying"}
At(t, l) == client[t].at = l
Goto(t, l) ==
    client' = [client EXCEPT ![t] = IF l = "idle" THEN Idle ELSE [@ EXCEPT !.at = l]]

-----------------------------------------------------------------------------
(***************************************************************************)
(* The agent process: bind, write agent.json (truncate, then fill), serve. *)
(***************************************************************************)
Truncate(s) ==
    /\ agent[s] = "bound"
    /\ agent' = [agent EXCEPT ![s] = "writing"]
    /\ file' = NoAgent
    /\ UNCHANGED <<keys, quiet, client, stray, timeouts, forgot>>

Publish(s) ==
    /\ agent[s] = "writing"
    /\ agent' = [agent EXCEPT ![s] = "serving"]
    /\ file' = s
    /\ UNCHANGED <<keys, quiet, client, stray, timeouts, forgot>>

\* Half an hour has passed since the last request.  No request is on its way
\* to the agent: a command waits two seconds at most, except at the prompt.
Age(s) ==
    /\ agent[s] = "serving" /\ s \notin quiet
    /\ \A t \in Session : client[t].at \in Requests => client[t].agent # s
    /\ quiet' = quiet \cup {s}
    /\ UNCHANGED <<agent, keys, file, client, stray, timeouts, forgot>>

\* Mutant: an agent whose file is gone is left running.
Expire_OwnFile(s) ==
    /\ agent[s] = "serving" /\ s \in quiet /\ file = s
    /\ agent' = [agent EXCEPT ![s] = "dying"]
    /\ UNCHANGED <<keys, quiet, file, client, stray, timeouts, forgot>>

\* The watchdog has seen that the agent is idle for longer than its TTL.
Expire(s) ==
    /\ agent[s] = "serving" /\ s \in quiet
    /\ agent' = [agent EXCEPT ![s] = "dying"]
    /\ UNCHANGED <<keys, quiet, file, client, stray, timeouts, forgot>>

\* Remove agent.json, whatever it names, and exit.
Die(s) ==
    /\ agent[s] = "dying"
    /\ agent' = [agent EXCEPT ![s] = "dead"]
    /\ keys' = [keys EXCEPT ![s] = {}]
    /\ file' = NoAgent
    /\ quiet' = quiet \ {s}
    /\ stray' = {r \in stray : r.agent # s}
    /\ UNCHANGED <<client, timeouts, forgot>>

\* handle_connection, once the token is found to be right.
Handle(s, request, t) ==
    /\ Alive(s)
    /\ quiet' = quiet \ {s}
    /\ keys' = IF request = "store" THEN [keys EXCEPT ![s] = @ \cup {t}] ELSE keys
    /\ agent' = IF request = "kill" THEN [agent EXCEPT ![s] = "dying"] ELSE agent
    /\ UNCHANGED file

HandleStray == \E r \in stray :
    /\ Handle(r.agent, r.request, r.session)
    /\ stray' = stray \ {r}
    /\ UNCHANGED <<client, timeouts, forgot>>

-----------------------------------------------------------------------------
(***************************************************************************)
(* Commands: "open" is ui or exec, "start" is agent, "logout" is           *)
(* agent --kill, "wipe" also removes the cache directory and agent.json.   *)
(***************************************************************************)
Start(t) == \E c \in Commands :
    /\ At(t, "idle")
    /\ client' = [client EXCEPT ![t] = Place("read", c, MaxTries + 1)]
    /\ UNCHANGED <<stray, timeouts, forgot>> /\ UNCHANGED servers

\* read_agent_info, then the ping.
Read(t) ==
    /\ At(t, "read")
    /\ client' = [client EXCEPT ![t] =
                     [@ EXCEPT !.at = IF file = NoAgent THEN "none" ELSE "ping",
                               !.agent = file]]
    /\ UNCHANGED <<stray, timeouts, forgot>> /\ UNCHANGED servers

\* No agent answered: "open" and "start" spawn one, the first time.
Spawn(t) ==
    /\ At(t, "none") /\ client[t].command \in {"open", "start"}
    /\ client[t].tries = MaxTries + 1
    /\ \E s \in Agent : /\ agent[s] = "off"
                        /\ agent' = [agent EXCEPT ![s] = "bound"]
    /\ client' = [client EXCEPT ![t] = Place("read", @.command, MaxTries)]
    /\ UNCHANGED <<keys, quiet, file, stray, timeouts, forgot>>

\* Mutant: nothing counts how often the command has looked.
LookAgain_Always(t) ==
    /\ At(t, "none") /\ client[t].tries \leq MaxTries
    /\ client' = [client EXCEPT ![t] = Place("read", @.command, @.tries - 1)]
    /\ UNCHANGED <<stray, timeouts, forgot>> /\ UNCHANGED servers

\* They look again every 100 ms; in the end "open" goes on without an agent.
LookAgain(t) ==
    /\ At(t, "none") /\ client[t].tries \in 2 .. MaxTries
    /\ client' = [client EXCEPT ![t] = Place("read", @.command, @.tries - 1)]
    /\ UNCHANGED <<stray, timeouts, forgot>> /\ UNCHANGED servers

GiveUp(t) ==
    /\ At(t, "none") /\ client[t].tries = 1
    /\ client' = [client EXCEPT ![t] =
                     IF @.command = "open" THEN Place("prompt", "open", 0) ELSE Idle]
    /\ UNCHANGED <<stray, timeouts, forgot>> /\ UNCHANGED servers

NothingToStop(t) ==
    /\ At(t, "none") /\ client[t].command \in {"logout", "wipe"}
    /\ Goto(t, IF client[t].command = "wipe" THEN "remove" ELSE "idle")
    /\ UNCHANGED <<stray, timeouts, forgot>> /\ UNCHANGED servers

\* Where a command goes when the agent answers a request, and when it does not.
Answered(t) == LET c == client[t] IN
    CASE c.at = "ping" -> (CASE c.command = "open" -> "get"
                             [] c.command = "start" -> "idle"
                             [] OTHER -> "kill")
      [] c.at = "get" -> IF t \in keys[c.agent] THEN "store" ELSE "prompt"
      [] c.at = "store" -> "idle"
      [] c.at = "kill" -> "remove"

Unanswered(t) == LET c == client[t] IN
    CASE c.at = "ping" -> "none"
      [] c.at = "get" -> "prompt"
      [] c.at = "store" -> "idle"
      [] c.at = "kill" -> "remove"

Answer(t) ==
    /\ client[t].at \in Requests
    /\ Handle(client[t].agent, client[t].at, t)
    /\ Goto(t, Answered(t))
    /\ UNCHANGED <<stray, timeouts, forgot>>

\* The connection is refused: the agent of an old agent.json is gone.
Refused(t) ==
    /\ client[t].at \in Requests /\ ~Alive(client[t].agent)
    /\ Goto(t, Unanswered(t))
    /\ UNCHANGED <<stray, timeouts, forgot>> /\ UNCHANGED servers

\* The client stops waiting after two seconds.
TimeOut(t) ==
    /\ client[t].at \in Requests /\ Alive(client[t].agent) /\ timeouts < MaxTimeouts
    /\ timeouts' = timeouts + 1
    /\ stray' = stray \cup
          {[agent |-> client[t].agent, request |-> client[t].at, session |-> t]}
    /\ Goto(t, Unanswered(t))
    /\ UNCHANGED forgot /\ UNCHANGED servers

\* The passphrase is typed; a wrong one ends the command, nothing is stored.
Prompt(t) == \E right \in BOOLEAN :
    /\ At(t, "prompt")
    /\ Goto(t, IF right /\ client[t].agent # NoAgent THEN "store" ELSE "idle")
    /\ forgot' = IF right THEN forgot \ {t} ELSE forgot
    /\ UNCHANGED <<stray, timeouts>> /\ UNCHANGED servers

\* The user stops the command, or the key does not unlock the vault: an agent
\* may keep a key that is no longer good, and the prompt is not a way out.
Interrupt(t) ==
    /\ ~At(t, "idle")
    /\ Goto(t, "idle")
    /\ UNCHANGED <<stray, timeouts, forgot>> /\ UNCHANGED servers

\* Mutant: the command leaves the removal of agent.json to the agent.
Remove_LeaveFile(t) ==
    /\ At(t, "remove")
    /\ Goto(t, "idle")
    /\ forgot' = forgot \cup {t}
    /\ UNCHANGED <<agent, keys, quiet, file, stray, timeouts>>

\* logout and wipe remove agent.json whether or not the agent took the request.
Remove(t) ==
    /\ At(t, "remove")
    /\ file' = NoAgent
    /\ Goto(t, "idle")
    /\ forgot' = forgot \cup {t}
    /\ UNCHANGED <<agent, keys, quiet, stray, timeouts>>

ClientStep(t) ==
    \/ Read(t) \/ Spawn(t) \/ LookAgain(t) \/ GiveUp(t) \/ NothingToStop(t)
    \/ Answer(t) \/ Refused(t) \/ Remove(t)

RunStep(s) == Truncate(s) \/ Publish(s) \/ Expire(s) \/ Die(s)

Next ==
    \/ \E t \in Session : ClientStep(t) \/ Start(t) \/ Prompt(t) \/ TimeOut(t) \/ Interrupt(t)
    \/ \E s \in Agent : RunStep(s) \/ Age(s)
    \/ HandleStray

Spec == Init /\ [][Next]_vars

-----------------------------------------------------------------------------
(***************************************************************************)
(* Properties                                                              *)
(***************************************************************************)

\* "The next command will prompt for the passphrase again": once a logout said
\* that the agent stopped, no command of that session gets a key back from any
\* agent before the passphrase is typed: not from an agent that missed the
\* request to exit, not from another one that was started at the same time.
LogoutForgets ==
    \A t \in forgot : ~At(t, "store")

\* An agent that agent.json no longer names (two were started at once, or the
\* file was removed under it) does not keep keys for ever: it exits some time.
OrphansExpire ==
    \A s \in Agent :
        (agent[s] = "serving" /\ file # s) ~> agent[s] = "dead"

(***************************************************************************)
(* Fairness: processes run, time passes for an agent nobody talks to, and  *)
(* the watchdog looks every minute.  No passphrase need ever be typed and  *)
(* no command need ever be started.                                        *)
(***************************************************************************)
FairSpec ==
    /\ Spec
    /\ \A t \in Session : WF_vars(ClientStep(t))
    /\ \A s \in Agent : WF_vars(RunStep(s)) /\ WF_vars(Age(s))
=============================================================================
