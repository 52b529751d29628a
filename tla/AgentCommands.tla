---------------------------- MODULE AgentCommands ----------------------------
(***************************************************************************)
(* How a command reaches an agent: the durable queue and the sessions of   *)
(* the API (apps/api/src/realtimeManager.ts, the /realtime handler of      *)
(* apps/api/src/server.ts) and the session of the agent                    *)
(* (apps/agent/internal/transport/client.go).  One agent, one API process, *)
(* the pending list of the agent in Redis.                                 *)
(*                                                                         *)
(* A command is its commandId.  Every Redis call of sendCommand and of     *)
(* registerAgent is a step of its own; so are the goroutines of the agent: *)
(* the session loop, the read loop, and one execution per command.         *)
(***************************************************************************)
EXTENDS Integers, Sequences, FiniteSets, SequencesExt

CONSTANTS
  Cmd,          \* commands
  MaxPending,   \* maxPendingPerAgent
  MaxCalls,     \* bound: calls of sendCommand
  MaxConns,     \* bound: connections the agent dials
  MaxFaults     \* bound: broken connections and restarts

ASSUME CommandBounds ==
  /\ MaxPending \in Nat \ {0} /\ MaxConns \in Nat \ {0}
  /\ MaxCalls \in Nat /\ MaxFaults \in Nat

VARIABLES
  pending,   \* the Redis list of commands not yet acknowledged
  session,   \* the connection in RealtimeManager.sessions, 0 if none
  conns,     \* the connections dialled so far, in order
  calls,     \* calls of sendCommand so far
  sending,   \* calls of sendCommand in progress
  agent,     \* the agent's process: its session, and its read loop
  seen,      \* seenCmds of the process
  running,   \* executeAndAck goroutines
  accepted,  \* history: commands some call of sendCommand accepted
  ran,       \* history: commands whose handler returned, in any process
  faults     \* faults so far

api == <<pending, session, calls, sending, accepted>>
proc == <<agent, seen, running, ran>>
vars == <<pending, session, conns, calls, sending, agent, seen, running, accepted, ran, faults>>

Conn == 1..MaxConns

\* open: neither end closed it and the network carries it.  A connection
\* that is not open may take long to look closed to the API.
\* replay: the command list registerAgent read, <<>> before and after.
\* sent: history, the commands given to the socket.
Connection ==
  [open : BOOLEAN, server : {"accepting", "serving", "closed"},
   registered : BOOLEAN, replay : {"none", "reading", "sending"}, list : Seq(Cmd),
   up : Seq(Cmd \cup {"heartbeat"}), down : Seq(Cmd), sent : SUBSET Cmd]

Call == [call : 1..MaxCalls, cmd : Cmd, at : {"lrange", "llen", "rpush", "socket"}]

\* conn: activeConn, 0 for nil.  dialled: the connection of this session.
\* errCh has room for one error.
Agent ==
  [loop : {"dial", "beat", "select", "cleanup", "wait"}, conn : 0..MaxConns,
   dialled : 0..MaxConns, reader : {"reading", "blocked", "done"}, errCh : 0..1]

TypeOK ==
  /\ pending \in Seq(Cmd)
  /\ session \in 0..Len(conns)
  /\ conns \in Seq(Connection) /\ Len(conns) <= MaxConns
  /\ calls \in 0..MaxCalls
  /\ sending \subseteq Call
  /\ agent \in Agent
  /\ seen \subseteq Cmd
  /\ running \subseteq [cmd : Cmd, dialled : Conn]
  /\ accepted \subseteq Cmd /\ ran \subseteq Cmd
  /\ faults \in 0..MaxFaults

Fault == faults < MaxFaults /\ faults' = faults + 1

\* socket.send: nothing, when the socket is closed already.
Sent(n, cmds) ==
  [conns[n] EXCEPT !.down = IF conns[n].open THEN @ \o cmds ELSE @,
                   !.sent = @ \cup ToSet(cmds)]

-----------------------------------------------------------------------------
(***************************************************************************)
(* sendCommand: is it pending already, is there room, push, and last the   *)
(* socket of whatever session the agent has by then.                       *)
(***************************************************************************)
SendCommand(c) ==
  /\ calls < MaxCalls
  /\ calls' = calls + 1
  /\ sending' = sending \cup {[call |-> calls + 1, cmd |-> c, at |-> "lrange"]}
  /\ UNCHANGED <<pending, session, accepted, conns, proc, faults>>

Continue(s, at) == sending' = (sending \ {s}) \cup {[s EXCEPT !.at = at]}

Lrange(s) ==
  /\ s.at = "lrange"
  /\ Continue(s, IF s.cmd \in ToSet(pending) THEN "socket" ELSE "llen")
  /\ UNCHANGED <<pending, session, calls, accepted, conns, proc, faults>>

\* Backpressure: the call throws.
Llen(s) ==
  /\ s.at = "llen"
  /\ IF Len(pending) >= MaxPending THEN sending' = sending \ {s} ELSE Continue(s, "rpush")
  /\ UNCHANGED <<pending, session, calls, accepted, conns, proc, faults>>

Rpush(s) ==
  /\ s.at = "rpush"
  /\ pending' = Append(pending, s.cmd)
  /\ Continue(s, "socket")
  /\ UNCHANGED <<session, calls, accepted, conns, proc, faults>>

\* Mutant: a session that is being replayed to gets the command from there.
SessionAfterReplay == IF session = 0 \/ conns[session].replay # "none" THEN 0 ELSE session

\* The session sendCommand finds.
LiveSession == session

ToSocket(s) ==
  /\ s.at = "socket"
  /\ sending' = sending \ {s}
  /\ accepted' = accepted \cup {s.cmd}
  /\ conns' = IF LiveSession = 0 THEN conns
              ELSE [conns EXCEPT ![LiveSession] = Sent(LiveSession, <<s.cmd>>)]
  /\ UNCHANGED <<pending, session, calls, proc, faults>>

-----------------------------------------------------------------------------
(***************************************************************************)
(* The /realtime handler of connection n.                                  *)
(***************************************************************************)
Server(n, state) == conns[n].server = state

\* Token and settings are read before the listeners are attached ...
Attach(n) ==
  /\ Server(n, "accepting")
  /\ conns' = [conns EXCEPT ![n].server = "serving"]
  /\ UNCHANGED <<api, proc, faults>>

\* ... and a frame that comes before that has no listener.
DropFrame(n) ==
  /\ Server(n, "accepting") /\ conns[n].up # <<>>
  /\ conns' = [conns EXCEPT ![n].up = Tail(@)]
  /\ UNCHANGED <<api, proc, faults>>

\* The first heartbeat registers the agent; registerAgent sets the session
\* and asks Redis for the list.
Heartbeat(n) ==
  /\ Server(n, "serving") /\ conns[n].up # <<>> /\ Head(conns[n].up) = "heartbeat"
  /\ IF conns[n].registered
     THEN conns' = [conns EXCEPT ![n].up = Tail(@)] /\ UNCHANGED session
     ELSE /\ conns' = [conns EXCEPT ![n] =
                         [conns[n] EXCEPT !.up = Tail(@), !.registered = TRUE, !.replay = "reading"]]
          /\ session' = n
  /\ UNCHANGED <<pending, calls, sending, accepted, proc, faults>>

\* The list as Redis reads it ...
ReadPending(n) ==
  /\ conns[n].replay = "reading"
  /\ conns' = [conns EXCEPT ![n] = [@ EXCEPT !.replay = "sending", !.list = pending]]
  /\ UNCHANGED <<api, proc, faults>>

\* Mutant: what is replayed is not pending any more.
ReplayAndForget(n) ==
  /\ conns[n].replay = "sending"
  /\ conns' = [conns EXCEPT ![n] = [Sent(n, conns[n].list) EXCEPT !.replay = "none", !.list = <<>>]]
  /\ pending' = SelectSeq(pending, LAMBDA c : c \notin ToSet(conns[n].list))
  /\ UNCHANGED <<session, calls, sending, accepted, proc, faults>>

\* ... is sent when the answer is there.
ReplayPending(n) ==
  /\ conns[n].replay = "sending"
  /\ conns' = [conns EXCEPT ![n] = [Sent(n, conns[n].list) EXCEPT !.replay = "none", !.list = <<>>]]
  /\ UNCHANGED <<api, proc, faults>>

\* removePendingByCommandId takes out one entry; what lrange found is there
\* when lrem runs, but for another ack that took it out.  An ack on a
\* connection that has not registered is ignored.
AcknowledgeCommand(n) ==
  /\ Server(n, "serving") /\ conns[n].up # <<>> /\ Head(conns[n].up) # "heartbeat"
  /\ conns' = [conns EXCEPT ![n].up = Tail(@)]
  /\ pending' = IF conns[n].registered THEN RemoveFirst(pending, Head(conns[n].up)) ELSE pending
  /\ UNCHANGED <<session, calls, sending, accepted, proc, faults>>

\* The close event, however late; frames still on their way are lost.  It
\* unregisters the agent, not the connection.
Close(n) ==
  /\ ~ conns[n].open /\ ~ Server(n, "closed")
  /\ conns' = [conns EXCEPT ![n] = [@ EXCEPT !.server = "closed", !.up = <<>>]]
  /\ session' = IF conns[n].registered THEN 0 ELSE session
  /\ UNCHANGED <<pending, calls, sending, accepted, proc, faults>>

\* The API process ends and starts again: Redis stays.
ApiRestart ==
  /\ Fault
  /\ session' = 0 /\ sending' = {}
  /\ conns' = [n \in DOMAIN conns |->
                 [conns[n] EXCEPT !.open = FALSE, !.server = "closed", !.up = <<>>,
                                  !.registered = FALSE, !.replay = "none", !.list = <<>>]]
  /\ UNCHANGED <<pending, calls, accepted, proc>>

\* The network, a proxy or CloseActiveForReconnect ends a connection.
Break(n) ==
  /\ conns[n].open
  /\ Fault
  /\ conns' = [conns EXCEPT ![n].open = FALSE]
  /\ UNCHANGED <<api, proc>>

-----------------------------------------------------------------------------
(***************************************************************************)
(* The session of the agent: runSession.                                   *)
(***************************************************************************)
Goto(l) == agent' = [agent EXCEPT !.loop = l]

\* RunContext dials, runSession starts the read loop.
Dial ==
  /\ agent.loop = "dial"
  /\ Len(conns) < MaxConns
  /\ conns' = Append(conns, [open |-> TRUE, server |-> "accepting", registered |-> FALSE,
                             replay |-> "none", list |-> <<>>, up |-> <<>>, down |-> <<>>,
                             sent |-> {}])
  /\ agent' = [loop |-> "beat", conn |-> Len(conns'), dialled |-> Len(conns'),
               reader |-> "reading", errCh |-> 0]
  /\ UNCHANGED <<api, seen, running, ran, faults>>

\* A write to activeConn.  To a connection that broke it fails, or the bytes
\* are gone.  (A second heartbeat on its way changes nothing.)
Written(m) ==
  conns' = IF conns[agent.conn].open
              /\ ~ (m = "heartbeat" /\ "heartbeat" \in ToSet(conns[agent.conn].up))
           THEN [conns EXCEPT ![agent.conn].up = Append(@, m)]
           ELSE conns

\* sendHeartbeat; an error ends the session.
SendHeartbeat ==
  /\ agent.loop = "beat"
  /\ \/ Written("heartbeat") /\ Goto("select")
     \/ ~ conns[agent.conn].open /\ Goto("cleanup") /\ UNCHANGED conns
  /\ UNCHANGED <<api, seen, running, ran, faults>>

\* select: the ticker, or an error of the read loop or of an ack.
Select ==
  /\ agent.loop = "select"
  /\ \/ Goto("beat")
     \/ agent.errCh = 1 /\ agent' = [agent EXCEPT !.errCh = 0, !.loop = "cleanup"]
  /\ UNCHANGED <<api, conns, seen, running, ran, faults>>

\* The deferred function: forget the connection, close it ...
Cleanup ==
  /\ agent.loop = "cleanup"
  /\ conns' = [conns EXCEPT ![agent.dialled].open = FALSE]
  /\ agent' = [agent EXCEPT !.conn = 0, !.loop = "wait"]
  /\ UNCHANGED <<api, seen, running, ran, faults>>

\* ... and wait for the read loop; RunContext backs off and dials again.
Wait ==
  /\ agent.loop = "wait" /\ agent.reader = "done"
  /\ Goto("dial")
  /\ UNCHANGED <<api, conns, seen, running, ran, faults>>

\* handleIncoming: a command that was not seen starts.
HandleIncoming ==
  LET n == agent.dialled IN
  /\ agent.reader = "reading" /\ n # 0 /\ conns[n].down # <<>>
  /\ conns' = [conns EXCEPT ![n].down = Tail(@)]
  /\ LET c == Head(conns[n].down) IN
       /\ seen' = seen \cup {c}
       /\ running' = IF c \in seen THEN running
                     ELSE running \cup {[cmd |-> c, dialled |-> n]}
  /\ UNCHANGED <<api, agent, ran, faults>>

\* Mutant: the channel has room for every error.
ReadFailsUnbounded ==
  /\ agent.reader = "reading" /\ agent.dialled # 0 /\ ~ conns[agent.dialled].open
  /\ agent' = [agent EXCEPT !.errCh = @ + 1, !.reader = "done"]
  /\ UNCHANGED <<api, conns, seen, running, ran, faults>>

\* ReadMessage fails: errCh <- err, which blocks while the channel is full.
\* What was still to read is gone.
ReadFails ==
  /\ agent.reader = "reading" /\ agent.dialled # 0 /\ ~ conns[agent.dialled].open
  /\ agent' = IF agent.errCh = 0 THEN [agent EXCEPT !.errCh = 1, !.reader = "done"]
              ELSE [agent EXCEPT !.reader = "blocked"]
  /\ UNCHANGED <<api, conns, seen, running, ran, faults>>

\* The channel has room again, or the context was cancelled between reads.
ReadLoopEnds ==
  /\ \/ /\ agent.reader = "blocked" /\ agent.errCh = 0
        /\ agent' = [agent EXCEPT !.errCh = 1, !.reader = "done"]
     \/ /\ agent.reader = "reading" /\ agent.loop = "wait"
        /\ agent' = [agent EXCEPT !.reader = "done"]
  /\ UNCHANGED <<api, conns, seen, running, ran, faults>>

\* The handler returns, and the ack is written to the connection the agent
\* has by then: dropped if there is none, and an error of the write goes to
\* errCh of the session that read the command, if that has room.
ExecuteAndAck(e) ==
  /\ running' = running \ {e}
  /\ ran' = ran \cup {e.cmd}
  /\ \/ agent.conn = 0 /\ UNCHANGED <<conns, agent>>
     \/ agent.conn # 0 /\ Written(e.cmd) /\ UNCHANGED agent
     \/ /\ agent.conn # 0 /\ ~ conns[agent.conn].open
        /\ agent' = IF e.dialled = agent.dialled THEN [agent EXCEPT !.errCh = 1] ELSE agent
        /\ UNCHANGED conns
  /\ UNCHANGED <<api, seen, faults>>

\* Mutant: the process remembers what it saw before it died.
RememberedSeen == seen

\* seenCmds of a new process.
FreshSeen == {}

\* The process ends and is started again.
AgentRestart ==
  /\ Fault
  /\ agent' = [loop |-> "dial", conn |-> 0, dialled |-> 0, reader |-> "done", errCh |-> 0]
  /\ conns' = [n \in DOMAIN conns |-> [conns[n] EXCEPT !.open = FALSE, !.down = <<>>]]
  /\ seen' = FreshSeen /\ running' = {}
  /\ UNCHANGED <<api, ran>>

-----------------------------------------------------------------------------
Init ==
  /\ pending = <<>> /\ session = 0 /\ conns = <<>>
  /\ calls = 0 /\ sending = {} /\ accepted = {}
  /\ agent = [loop |-> "dial", conn |-> 0, dialled |-> 0, reader |-> "done", errCh |-> 0]
  /\ seen = {} /\ running = {} /\ ran = {}
  /\ faults = 0

CallStep(s) == Lrange(s) \/ Llen(s) \/ Rpush(s) \/ ToSocket(s)

Handler(n) ==
  \/ Attach(n) \/ DropFrame(n) \/ Heartbeat(n) \/ AcknowledgeCommand(n) \/ Close(n)

Replay(n) == ReadPending(n) \/ ReplayPending(n)

Loop == Dial \/ SendHeartbeat \/ Select \/ Cleanup \/ Wait

Reader == HandleIncoming \/ ReadFails \/ ReadLoopEnds

Next ==
  \/ \E c \in Cmd : SendCommand(c)
  \/ \E s \in sending : CallStep(s)
  \/ \E n \in DOMAIN conns : Handler(n) \/ Replay(n) \/ Break(n)
  \/ Loop \/ Reader
  \/ \E e \in running : ExecuteAndAck(e)
  \/ ApiRestart \/ AgentRestart

Spec == Init /\ [][Next]_vars

(***************************************************************************)
(* Redis answers, the event loop of the API serves every socket, a closed  *)
(* connection is noticed, the goroutines of the agent are scheduled and    *)
(* its handlers return.  Calls, breaks and restarts are not fair.          *)
(***************************************************************************)
Fairness ==
  /\ WF_vars(\E s \in sending : CallStep(s))
  /\ \A n \in Conn :
       /\ WF_vars(n \in DOMAIN conns /\ Handler(n))
       /\ WF_vars(n \in DOMAIN conns /\ Replay(n))
  /\ WF_vars(Loop) /\ WF_vars(Reader)
  /\ WF_vars(\E e \in running : ExecuteAndAck(e))

FairSpec == Spec /\ Fairness

-----------------------------------------------------------------------------
\* "queued actions not yet ack'd": a command that was accepted stays pending
\* until an agent has run it, through lost connections and restarts of both
\* ends.
NothingIsLost == accepted \subseteq ToSet(pending) \cup ran

\* registerAgent and sendCommand race for the commands queued around a
\* reconnect: one of the two gives every pending command to the socket of
\* the session, whatever the order of their Redis calls.
NoCommandBetweenTheTwo ==
  session # 0 /\ conns[session].replay = "none" =>
    \A c \in ToSet(pending) :
      \/ c \in conns[session].sent
      \/ \E s \in sending : s.cmd = c /\ s.at = "socket"

\* Once the agent stays connected under its session, every pending command
\* gets run, though connections broke and processes died before.
Connected == session # 0 /\ session = agent.conn /\ conns[session].open

DeliveredWhenConnected ==
  <>[]Connected => \A c \in Cmd : c \in ToSet(pending) ~> c \in ran

\* apps/agent/ARCHITECTURE.md, Reconnect: "On dial failure or session end,
\* the client sleeps using exponential backoff with jitter ..., then
\* redials."
RedialsAfterSession == agent.loop = "cleanup" ~> agent.loop = "dial"

=============================================================================
