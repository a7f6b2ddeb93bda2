--------------------------- MODULE KeyAgent_proofs ---------------------------
(***************************************************************************)
(* After a logout no key comes back, for any sessions, agents and bounds.  *)
(*                                                                         *)
(* The property speaks of the places of a command; what makes it true is   *)
(* that an agent which still has the key, or may still take it, has been   *)
(* named by agent.json before, is not named now, and can never be again.   *)
(***************************************************************************)
EXTENDS KeyAgent, TLAPS

\* The agent has written agent.json, its one time.
Published(s) == agent[s] \in {"serving", "dying", "dead"}

\* Only agents that have been published are named, talked to or trusted.
NamedInv ==
    /\ file # NoAgent => Published(file)
    /\ \A t \in Session : client[t].agent # NoAgent => Published(client[t].agent)
    /\ \A t \in Session : client[t].at \in Requests => client[t].agent # NoAgent
    /\ \A s \in Agent : keys[s] # {} => Published(s)
    /\ \A r \in stray : Published(r.agent)

\* The agent s has the key of t, or a request under way will give it the key.
Holds(s, t) ==
    t \in keys[s] \/ [agent |-> s, request |-> "store", session |-> t] \in stray

\* No command of a session that logged out can come to an agent with its key.
ForgotInv ==
    \A t \in forgot :
        /\ ~At(t, "store")
        /\ \A s \in Agent : Holds(s, t) => file # s /\ client[t].agent # s

ForgetInv == TypeOK /\ NamedInv /\ ForgotInv

Places == {"idle", "read", "none", "prompt", "remove"} \cup Requests
States == {"off", "bound", "writing", "serving", "dying", "dead"}

-----------------------------------------------------------------------------
\* Where a command goes, it keeps its agent or drops it.
LEMMA GotoFacts ==
    ASSUME TypeOK, NEW t \in Session, NEW l \in Places, Goto(t, l)
    PROVE  /\ client' \in [Session -> Client]
           /\ \A u \in Session \ {t} : client'[u] = client[u]
           /\ client'[t].at = l
           /\ client'[t].agent = IF l = "idle" THEN NoAgent ELSE client[t].agent
<1>1. Idle \in Client /\ Idle.at = "idle" /\ Idle.agent = NoAgent
  BY KeyAgentAssumption DEF Idle, Place, Client, Commands
<1> QED
  BY <1>1 DEF Goto, TypeOK, Client, Places

\* What handling a request does to the agents.
LEMMA HandleFacts ==
    ASSUME TypeOK, NEW s \in Agent, NEW request \in Requests, NEW t \in Session,
           Handle(s, request, t)
    PROVE  /\ agent' \in [Agent -> States] /\ keys' \in [Agent -> SUBSET Session]
           /\ quiet' \in SUBSET Agent /\ file' = file /\ Published(s)
           /\ \A a \in Agent : Published(a) => Published(a)'
           /\ \A a \in Agent, u \in Session :
                 u \in keys'[a] => u \in keys[a] \/ (request = "store" /\ a = s /\ u = t)
BY DEF Handle, TypeOK, Alive, Published, States

LEMMA PlacesOfAnswers ==
    ASSUME NEW t \in Session, client[t].at \in Requests
    PROVE  /\ Answered(t) \in Places /\ Unanswered(t) \in Places
           /\ Unanswered(t) # "store"
           /\ Answered(t) \in Requests => client[t].at \in Requests
           /\ Answered(t) = "store" => client[t].at = "get" /\ t \in keys[client[t].agent]
           /\ Unanswered(t) \notin Requests
BY DEF Answered, Unanswered, Requests, Places

LEMMA ForgetInit == Init => ForgetInv
BY KeyAgentAssumption DEF Init, ForgetInv, TypeOK, NamedInv, ForgotInv, Idle, Place, Client,
   Commands, Requests

\* The agents' own steps: an agent is published once, from "writing".
LEMMA AgentKeeps ==
    ASSUME ForgetInv, NEW s \in Agent, RunStep(s) \/ Age(s)
    PROVE  ForgetInv'
<1> USE DEF ForgetInv
<1>1. TypeOK'
  BY DEF RunStep, Truncate, Publish, Age, Expire, Die, TypeOK
<1>2. UNCHANGED <<client, forgot>> /\ stray' \subseteq stray
  BY DEF RunStep, Truncate, Publish, Age, Expire, Die
<1>3. \A a \in Agent : (Published(a) => Published(a)') /\ keys'[a] \subseteq keys[a]
  BY DEF RunStep, Truncate, Publish, Age, Expire, Die, TypeOK, Published
<1>4. \/ file' = file \/ file' = NoAgent
      \/ file' = s /\ agent[s] = "writing" /\ Published(s)'
  BY DEF RunStep, Truncate, Publish, Age, Expire, Die, TypeOK, Published
<1>5. NamedInv'
  BY <1>1, <1>2, <1>3, <1>4 DEF NamedInv, TypeOK, Client
<1>6. ASSUME NEW t \in forgot, NEW a \in Agent, Holds(a, t)'
      PROVE  Holds(a, t) /\ Published(a) /\ file' # a
  <2>1. Holds(a, t)
    BY <1>2, <1>3, <1>6 DEF Holds
  <2>2. Published(a)
    BY <2>1 DEF Holds, NamedInv, TypeOK
  <2> QED
    BY <1>4, <2>1, <2>2, KeyAgentAssumption DEF ForgotInv, Published
<1>7. ForgotInv'
  BY <1>2, <1>6 DEF ForgotInv, At
<1> QED
  BY <1>1, <1>5, <1>7

LEMMA StrayKeeps ==
    ASSUME ForgetInv, HandleStray
    PROVE  ForgetInv'
<1> USE DEF ForgetInv
<1>1. PICK r \in stray : /\ Handle(r.agent, r.request, r.session)
                        /\ stray' = stray \ {r}
                        /\ UNCHANGED <<client, timeouts, forgot>>
  BY DEF HandleStray
<1>2. r \in [agent : Agent, request : Requests, session : Session]
  BY DEF TypeOK
<1>3. /\ agent' \in [Agent -> States] /\ keys' \in [Agent -> SUBSET Session]
      /\ quiet' \in SUBSET Agent /\ file' = file /\ Published(r.agent)
      /\ \A a \in Agent : Published(a) => Published(a)'
      /\ \A a \in Agent, u \in Session :
            u \in keys'[a] =>
               u \in keys[a] \/ (r.request = "store" /\ a = r.agent /\ u = r.session)
  BY <1>1, <1>2, HandleFacts
<1>4. TypeOK'
  BY <1>1, <1>3 DEF TypeOK, States
<1>5. NamedInv'
  BY <1>1, <1>2, <1>3 DEF NamedInv, TypeOK, Client
<1>6. \A a \in Agent, u \in Session : Holds(a, u)' => Holds(a, u)
  BY <1>1, <1>2, <1>3 DEF Holds
<1>7. ForgotInv'
  BY <1>1, <1>3, <1>6 DEF ForgotInv, At, TypeOK
<1> QED
  BY <1>4, <1>5, <1>7

\* A step of a command that is not a request: it may read agent.json.
LEMMA MoveKeeps ==
    ASSUME ForgetInv, TypeOK', UNCHANGED <<keys, stray>>, NEW t \in Session,
           \A a \in Agent : Published(a) => Published(a)',
           file' \in {file, NoAgent},
           \A u \in Session \ {t} : client'[u] = client[u],
           client'[t].agent \in {client[t].agent, NoAgent, file},
           client'[t].at \in Requests => client'[t].agent # NoAgent,
           client'[t].at # "store" \/ t \notin forgot',
           forgot' \subseteq forgot \/ (/\ forgot' \subseteq forgot \cup {t}
                                        /\ file' = NoAgent /\ client'[t].agent = NoAgent)
    PROVE  ForgetInv'
<1> USE DEF ForgetInv
<1>1. NamedInv'
  BY DEF NamedInv, TypeOK, Client
<1>2. \A a \in Agent, u \in Session : Holds(a, u)' <=> Holds(a, u)
  BY DEF Holds
<1>3. ASSUME NEW u \in forgot'
      PROVE  /\ ~At(u, "store")'
             /\ \A a \in Agent : Holds(a, u)' => file' # a /\ client'[u].agent # a
  <2>1. u \in Session
    BY DEF TypeOK
  <2>2. CASE u \in forgot
    BY <1>2, <1>3, <2>1, <2>2, KeyAgentAssumption DEF ForgotInv, At
  <2>3. CASE u \notin forgot
    BY <1>3, <2>1, <2>3, KeyAgentAssumption DEF ForgotInv, At
  <2> QED
    BY <2>2, <2>3
<1>4. ForgotInv'
  BY <1>3 DEF ForgotInv
<1> QED
  BY <1>1, <1>4

\* The same, for a command that is given another record.
LEMMA UpdateKeeps ==
    ASSUME ForgetInv, NEW t \in Session, NEW d \in Client,
           client' = [client EXCEPT ![t] = d],
           agent' \in [Agent -> States], \A a \in Agent : Published(a) => Published(a)',
           UNCHANGED <<keys, quiet, file, stray, timeouts, forgot>>,
           d.agent \in {NoAgent, file}, d.at \in Requests => d.agent # NoAgent,
           d.at # "store"
    PROVE  ForgetInv'
<1>1. client' \in [Session -> Client]
  BY DEF ForgetInv, TypeOK
<1>2. client'[t] = d /\ \A u \in Session \ {t} : client'[u] = client[u]
  BY DEF ForgetInv, TypeOK
<1>3. TypeOK'
  BY <1>1 DEF ForgetInv, TypeOK, States
<1> QED
  BY <1>2, <1>3, MoveKeeps

LEMMA CommandKeeps ==
    ASSUME ForgetInv, NEW t \in Session,
           Start(t) \/ Read(t) \/ Spawn(t) \/ LookAgain(t) \/ GiveUp(t)
             \/ NothingToStop(t) \/ Refused(t) \/ Prompt(t) \/ Interrupt(t) \/ Remove(t)
    PROVE  ForgetInv'
<1> USE KeyAgentAssumption
<1>1. TypeOK
  BY DEF ForgetInv
<1>2. Idle \in Client /\ Idle.at = "idle" /\ Idle.agent = NoAgent
  BY DEF Idle, Place, Client, Commands
<1>3. ASSUME NEW l \in {"idle", "read", "prompt"}, NEW c \in Commands,
             NEW n \in 0 .. MaxTries + 1,
             client' = [client EXCEPT ![t] = Place(l, c, n)],
             agent' \in [Agent -> States], \A a \in Agent : Published(a) => Published(a)',
             UNCHANGED <<keys, quiet, file, stray, timeouts, forgot>>
      PROVE  ForgetInv'
  <2>1. /\ Place(l, c, n) \in Client /\ Place(l, c, n).agent = NoAgent
        /\ Place(l, c, n).at = l
    BY DEF Place, Client
  <2> QED
    BY <1>3, <2>1, UpdateKeeps DEF Requests
<1>4. UNCHANGED agent =>
        /\ agent' \in [Agent -> States]
        /\ \A a \in Agent : Published(a) => Published(a)'
  BY <1>1 DEF TypeOK, States, Published
<1>5. client[t].command \in Commands
  BY <1>1 DEF TypeOK, Client
<1>6. MaxTries \in 0 .. MaxTries + 1 /\ MaxTries + 1 \in 0 .. MaxTries + 1 /\ 0 \in 0 .. MaxTries + 1
  OBVIOUS
<1>7. CASE Start(t)
  BY <1>3, <1>4, <1>6, <1>7 DEF Start, servers
<1>13. CASE Read(t)
  <2> DEFINE d == [client[t] EXCEPT !.at = IF file = NoAgent THEN "none" ELSE "ping",
                                    !.agent = file]
  <2>1. /\ d \in Client /\ d.agent = file
        /\ d.at = (IF file = NoAgent THEN "none" ELSE "ping")
    BY <1>1 DEF TypeOK, Client, Requests
  <2>2. client' = [client EXCEPT ![t] = d]
    BY <1>13 DEF Read
  <2> HIDE DEF d
  <2>3. UNCHANGED <<agent, keys, quiet, file, stray, timeouts, forgot>>
    BY <1>13 DEF Read, servers
  <2> QED
    BY <1>4, <2>1, <2>2, <2>3, UpdateKeeps DEF Requests
<1>14. CASE Spawn(t)
  <2>1. PICK s \in Agent : agent[s] = "off" /\ agent' = [agent EXCEPT ![s] = "bound"]
    BY <1>14 DEF Spawn
  <2>2. /\ agent' \in [Agent -> States]
        /\ \A a \in Agent : Published(a) => Published(a)'
    BY <1>1, <2>1 DEF TypeOK, Published, States
  <2> QED
    BY <1>3, <1>5, <1>6, <1>14, <2>2 DEF Spawn
<1>15. CASE LookAgain(t)
  <2>1. client[t].tries - 1 \in 0 .. MaxTries + 1
    BY <1>15 DEF LookAgain
  <2> QED
    BY <1>3, <1>4, <1>5, <1>15, <2>1 DEF LookAgain, servers
<1>16. CASE GiveUp(t)
  <2>1. client' = [client EXCEPT ![t] =
                     IF client[t].command = "open" THEN Place("prompt", "open", 0) ELSE Idle]
    BY <1>16 DEF GiveUp
  <2>2. UNCHANGED <<agent, keys, quiet, file, stray, timeouts, forgot>>
    BY <1>16 DEF GiveUp, servers
  <2>3. CASE client[t].command = "open"
    BY <1>3, <1>4, <1>6, <2>1, <2>2, <2>3 DEF Commands
  <2>4. CASE client[t].command # "open"
    BY <1>3, <1>4, <1>6, <2>1, <2>2, <2>4 DEF Commands, Idle
  <2> QED
    BY <2>3, <2>4
<1>8. ASSUME NEW l \in Places \ Requests, Goto(t, l), UNCHANGED <<agent, keys, quiet>>,
             file' \in {file, NoAgent}, UNCHANGED <<stray, timeouts>>,
             forgot' \subseteq forgot
               \/ (l = "idle" /\ file' = NoAgent /\ forgot' = forgot \cup {t})
      PROVE  ForgetInv'
  <2>1. /\ client' \in [Session -> Client] /\ client'[t].at = l
        /\ client'[t].agent = (IF l = "idle" THEN NoAgent ELSE client[t].agent)
        /\ \A u \in Session \ {t} : client'[u] = client[u]
    BY <1>1, <1>8, GotoFacts
  <2>2. TypeOK'
    BY <1>1, <1>8, <2>1 DEF TypeOK
  <2> QED
    BY <1>8, <2>1, <2>2, MoveKeeps DEF Requests, Published
<1>9. CASE NothingToStop(t)
  BY <1>8, <1>9 DEF NothingToStop, servers, Places, Requests
<1>10. CASE Refused(t)
  BY <1>8, <1>10, PlacesOfAnswers DEF Refused, servers
<1>11. CASE Prompt(t)
  <2>1. PICK right \in BOOLEAN :
          /\ Goto(t, IF right /\ client[t].agent # NoAgent THEN "store" ELSE "idle")
          /\ forgot' = IF right THEN forgot \ {t} ELSE forgot
    BY <1>11 DEF Prompt
  <2>2. UNCHANGED <<agent, keys, quiet, file, stray, timeouts>>
    BY <1>11 DEF Prompt, servers
  <2>3. CASE right /\ client[t].agent # NoAgent
    <3>1. /\ client' \in [Session -> Client] /\ client'[t].at = "store"
          /\ client'[t].agent = client[t].agent
          /\ \A u \in Session \ {t} : client'[u] = client[u]
      BY <1>1, <2>1, <2>3, GotoFacts DEF Places, Requests
    <3>2. TypeOK'
      BY <1>1, <2>1, <2>2, <3>1 DEF TypeOK
    <3> QED
      BY <2>1, <2>2, <2>3, <3>1, <3>2, MoveKeeps DEF Published
  <2>4. CASE ~ (right /\ client[t].agent # NoAgent)
    BY <1>8, <2>1, <2>2, <2>4 DEF Places, Requests
  <2> QED
    BY <2>3, <2>4
<1>12. CASE Remove(t)
  BY <1>8, <1>12 DEF Remove, Places, Requests
<1>17. CASE Interrupt(t)
  BY <1>8, <1>17 DEF Interrupt, servers, Places, Requests
<1> QED
  BY <1>7, <1>9, <1>10, <1>11, <1>12, <1>17, <1>13, <1>14, <1>15, <1>16

\* A request that is answered, or that times out: only the session that is at
\* "store" can give its key, and that session has typed its passphrase.
LEMMA RequestKeeps ==
    ASSUME ForgetInv, NEW t \in Session, Answer(t) \/ TimeOut(t)
    PROVE  ForgetInv'
<1> USE DEF ForgetInv
<1> DEFINE s == client[t].agent
<1>1. client[t].at \in Requests /\ s \in Agent /\ Published(s)
  BY DEF Answer, TimeOut, NamedInv, TypeOK, Client
<1>2. CASE Answer(t)
  <2>1. /\ Handle(s, client[t].at, t) /\ Goto(t, Answered(t))
        /\ UNCHANGED <<stray, timeouts, forgot>>
    BY <1>2 DEF Answer
  <2>2. /\ agent' \in [Agent -> States] /\ keys' \in [Agent -> SUBSET Session]
        /\ quiet' \in SUBSET Agent /\ file' = file
        /\ \A a \in Agent : Published(a) => Published(a)'
        /\ \A a \in Agent, u \in Session :
              u \in keys'[a] => u \in keys[a] \/ (At(t, "store") /\ a = s /\ u = t)
    BY <1>1, <2>1, HandleFacts DEF At
  <2>3. /\ client' \in [Session -> Client] /\ client'[t].at = Answered(t)
        /\ client'[t].agent = (IF Answered(t) = "idle" THEN NoAgent ELSE s)
        /\ \A u \in Session \ {t} : client'[u] = client[u]
    BY <1>1, <2>1, GotoFacts, PlacesOfAnswers
  <2>4. TypeOK'
    BY <2>1, <2>2, <2>3 DEF TypeOK, States
  <2>5. NamedInv'
    <3>1. /\ file # NoAgent => Published(file)
          /\ \A u \in Session : client[u].agent # NoAgent => Published(client[u].agent)
      BY DEF NamedInv
    <3>5. \A u \in Session : client'[u].agent = client[u].agent \/ client'[u].agent = NoAgent
      BY <2>3
    <3>6. /\ (file # NoAgent => Published(file))'
          /\ (\A u \in Session : client[u].agent # NoAgent => Published(client[u].agent))'
      BY <3>1, <3>5, <1>1, <2>2, <2>3 DEF TypeOK, Client
    <3>2. \A u \in Session : client'[u].at \in Requests => client'[u].agent # NoAgent
      BY <1>1, <2>3, KeyAgentAssumption DEF NamedInv, Requests
    <3>3. \A a \in Agent : keys'[a] # {} => Published(a)'
      BY <1>1, <2>2 DEF NamedInv
    <3>4. \A r \in stray' : Published(r.agent)'
      BY <2>1, <2>2 DEF NamedInv, TypeOK
    <3> QED
      BY <3>2, <3>3, <3>4, <3>6 DEF NamedInv
  <2>6. ASSUME NEW u \in forgot
        PROVE  /\ ~At(u, "store")'
               /\ \A a \in Agent : Holds(a, u)' => file' # a /\ client'[u].agent # a
    <3>1. u \in Session /\ ~At(u, "store")
      BY DEF TypeOK, ForgotInv
    <3>2. \A a \in Agent : Holds(a, u)' => Holds(a, u)
      BY <2>1, <2>2, <3>1 DEF Holds
    <3>3. \A a \in Agent : Holds(a, u)' => file' # a /\ client'[u].agent # a
      BY <2>2, <2>3, <3>1, <3>2, KeyAgentAssumption DEF ForgotInv
    <3>4. u = t => Answered(t) # "store"
      BY <1>1, PlacesOfAnswers DEF ForgotInv, Holds
    <3> QED
      BY <2>3, <3>1, <3>3, <3>4 DEF At
  <2>7. ForgotInv'
    BY <2>1, <2>6 DEF ForgotInv
  <2> QED
    BY <2>4, <2>5, <2>7
<1>3. CASE TimeOut(t)
  <2> DEFINE r == [agent |-> s, request |-> client[t].at, session |-> t]
  <2>1. /\ UNCHANGED <<agent, keys, quiet, file, forgot>> /\ Goto(t, Unanswered(t))
        /\ timeouts' = timeouts + 1 /\ timeouts < MaxTimeouts
        /\ stray' = stray \cup {r}
    BY <1>3 DEF TimeOut, servers
  <2>2. r \in [agent : Agent, request : Requests, session : Session]
    BY <1>1
  <2>3. /\ client' \in [Session -> Client] /\ client'[t].at = Unanswered(t)
        /\ client'[t].agent = (IF Unanswered(t) = "idle" THEN NoAgent ELSE s)
        /\ \A u \in Session \ {t} : client'[u] = client[u]
    BY <1>1, <2>1, GotoFacts, PlacesOfAnswers
  <2>4. timeouts' \in 0 .. MaxTimeouts
    BY <2>1, KeyAgentAssumption DEF TypeOK
  <2>5. r.agent = s /\ r.request = client[t].at /\ r.session = t
    OBVIOUS
  <2> HIDE DEF r
  <2>6. TypeOK'
    BY <2>1, <2>2, <2>3, <2>4 DEF TypeOK
  <2>7. NamedInv'
    BY <1>1, <2>1, <2>3, <2>5, PlacesOfAnswers DEF NamedInv, Published
  <2>8. ASSUME NEW u \in forgot
        PROVE  /\ ~At(u, "store")'
               /\ \A a \in Agent : Holds(a, u)' => file' # a /\ client'[u].agent # a
    <3>1. u \in Session /\ ~At(u, "store")
      BY DEF TypeOK, ForgotInv
    <3>2. \A a \in Agent : Holds(a, u)' => Holds(a, u)
      BY <2>1, <2>5, <3>1 DEF Holds, At
    <3> QED
      BY <1>1, <2>1, <2>3, <3>1, <3>2, PlacesOfAnswers, KeyAgentAssumption
         DEF ForgotInv, At
  <2>9. ForgotInv'
    BY <2>1, <2>8 DEF ForgotInv
  <2> QED
    BY <2>6, <2>7, <2>9
<1> QED
  BY <1>2, <1>3

LEMMA ForgetStep == ForgetInv /\ [Next]_vars => ForgetInv'
<1>1. CASE UNCHANGED vars
  BY <1>1 DEF vars, ForgetInv, TypeOK, NamedInv, ForgotInv, Holds, Published, At
<1> QED
  BY <1>1, AgentKeeps, StrayKeeps, CommandKeeps, RequestKeeps DEF Next, ClientStep

\* Once a logout has said that the agent stopped, no command of that session is
\* given a key before its passphrase is typed again, however many agents were
\* started at once and whichever of the requests timed out.
THEOREM NoKeyAfterLogout == Spec => []LogoutForgets
<1>1. ForgetInv => LogoutForgets
  BY DEF ForgetInv, ForgotInv, LogoutForgets
<1> QED
  BY <1>1, ForgetInit, ForgetStep, PTL DEF Spec

\* The agents, what they hold and what commands wait for keep their types.
THEOREM AgentTypes == Spec => []TypeOK
<1>1. Init => ForgetInv
  BY ForgetInit
<1>2. ForgetInv /\ [Next]_vars => ForgetInv'
  BY ForgetStep
<1>3. ForgetInv => TypeOK
  BY DEF ForgetInv
<1> QED
  BY <1>1, <1>2, <1>3, PTL DEF Spec
=============================================================================
