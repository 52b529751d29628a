----------------------------- MODULE AgentProofs -----------------------------
(***************************************************************************)
(* Proofs about what an agent is sent.  An accepted command is never lost, *)
(* for any set of commands and any number of calls, connections and        *)
(* faults; the tags of the registry serve the images of their commits and  *)
(* a save that deploys builds the text it saved, for any services, texts,  *)
(* builds and failures.                                                    *)
(***************************************************************************)
EXTENDS AgentCommands, BuildRun, DataLemmas

-----------------------------------------------------------------------------
(* Commands                                                                *)

\* A call that got to the socket has its command in the list, or the command
\* was run in the meantime.
CallsAtSocket ==
  \A s \in sending : s.at = "socket" => s.cmd \in ToSet(pending) \cup ran

\* An ack on its way is of a command that ran.
AcksOfRun ==
  \A n \in DOMAIN conns : \A m \in ToSet(conns[n].up) : m = "heartbeat" \/ m \in ran

\* The agent only knows connections that were dialled.
Dialled == agent.conn <= Len(conns) /\ agent.dialled <= Len(conns)

\* The inductive invariant.
DeliveryInv ==
  /\ TypeOK
  /\ Dialled
  /\ NothingIsLost
  /\ CallsAtSocket
  /\ AcksOfRun

\* What a step keeps of the connections and of the acks on them.
ConnsKept ==
  /\ conns' \in Seq(Connection) /\ Len(conns') = Len(conns)
  /\ AcksOfRun'

-----------------------------------------------------------------------------
\* Connections are rewritten, and nothing but acks of commands that ran is
\* put on their way.
LEMMA ConnsMapped ==
  ASSUME TypeOK, AcksOfRun, ran \subseteq ran', NEW f,
         conns' = [n \in DOMAIN conns |-> f[n]],
         \A n \in DOMAIN conns :
            /\ f[n] \in Connection
            /\ \A m \in ToSet(f[n].up) :
                  m = "heartbeat" \/ m \in ran' \/ m \in ToSet(conns[n].up)
  PROVE  ConnsKept
<1>1. conns \in Seq(Connection) /\ Len(conns) \in Nat /\ DOMAIN conns = 1..Len(conns)
  BY LenProperties DEF TypeOK
<1>2. conns' \in [1..Len(conns) -> Connection]
  BY <1>1
<1>3. conns' \in Seq(Connection)
  BY <1>1, <1>2, SeqDef
<1>4. Len(conns') = Len(conns) /\ DOMAIN conns' = DOMAIN conns
  BY <1>1, <1>2, <1>3, LenProperties
<1>5. AcksOfRun'
  BY <1>4 DEF AcksOfRun
<1> QED
  BY <1>3, <1>4, <1>5 DEF ConnsKept

\* One connection is rewritten.
LEMMA ConnWritten ==
  ASSUME TypeOK, AcksOfRun, ran \subseteq ran', NEW n \in DOMAIN conns, NEW c \in Connection,
         conns' = [conns EXCEPT ![n] = c],
         \A m \in ToSet(c.up) : m = "heartbeat" \/ m \in ran' \/ m \in ToSet(conns[n].up)
  PROVE  ConnsKept
<1> DEFINE f == [k \in DOMAIN conns |-> IF k = n THEN c ELSE conns[k]]
<1>1. \A k \in DOMAIN conns : conns[k] \in Connection
  BY LenProperties, ElementOfSeq DEF TypeOK
<1>2. conns' = [k \in DOMAIN conns |-> f[k]]
  BY LenProperties DEF TypeOK
<1>3. \A k \in DOMAIN conns :
            /\ f[k] \in Connection
            /\ \A m \in ToSet(f[k].up) :
                  m = "heartbeat" \/ m \in ran' \/ m \in ToSet(conns[k].up)
  BY <1>1
<1> HIDE DEF f
<1> QED
  BY <1>2, <1>3, ConnsMapped

\* A socket takes commands without an effect on what comes from the agent.
LEMMA SentType ==
  ASSUME TypeOK, NEW n \in DOMAIN conns, NEW cmds \in Seq(Cmd)
  PROVE  Sent(n, cmds) \in Connection /\ Sent(n, cmds).up = conns[n].up
<1>1. conns[n] \in Connection
  BY LenProperties, ElementOfSeq DEF TypeOK
<1>2. conns[n].down \o cmds \in Seq(Cmd)
  BY <1>1, ConcatProperties DEF Connection
<1>3. ToSet(cmds) \subseteq Cmd
  BY LenProperties, ElementOfSeq DEF ToSet
<1> QED
  BY <1>1, <1>2, <1>3 DEF Sent, Connection

\* No connection is rewritten.
LEMMA ConnsSame ==
  ASSUME TypeOK, AcksOfRun, ran \subseteq ran', conns' = conns
  PROVE  ConnsKept
BY DEF ConnsKept, AcksOfRun, TypeOK

\* A step of one end that takes nothing from the list.
LEMMA NoneTaken ==
  ASSUME DeliveryInv, TypeOK', AcksOfRun', Dialled', pending' = pending,
         ran \subseteq ran', sending' \subseteq sending, accepted' = accepted
  PROVE  DeliveryInv'
BY DEF DeliveryInv, NothingIsLost, CallsAtSocket

-----------------------------------------------------------------------------
\* The steps of sendCommand.
LEMMA CallInv ==
  ASSUME DeliveryInv, NEW s \in sending, CallStep(s)
  PROVE  DeliveryInv'
<1> USE DEF DeliveryInv
<1>1. s \in Call /\ pending \in Seq(Cmd) /\ s.cmd \in Cmd
  BY DEF TypeOK, Call
<1>2. CASE Lrange(s)
  <2>1. TypeOK' /\ AcksOfRun' /\ Dialled'
    BY <1>1, <1>2 DEF Lrange, Continue, TypeOK, Call, AcksOfRun, Dialled, proc
  <2>2. CallsAtSocket'
    BY <1>1, <1>2 DEF Lrange, Continue, CallsAtSocket, proc, Call
  <2> QED
    BY <1>2, <2>1, <2>2 DEF Lrange, NothingIsLost, proc
<1>3. CASE Llen(s)
  <2>1. TypeOK' /\ AcksOfRun' /\ Dialled'
    BY <1>1, <1>3 DEF Llen, Continue, TypeOK, Call, AcksOfRun, Dialled, proc
  <2>2. CallsAtSocket'
    BY <1>1, <1>3 DEF Llen, Continue, CallsAtSocket, proc, Call
  <2> QED
    BY <1>3, <2>1, <2>2 DEF Llen, NothingIsLost, proc
<1>4. CASE Rpush(s)
  <2>0. pending' \in Seq(Cmd) /\ ToSet(pending') = ToSet(pending) \cup {s.cmd}
    BY <1>1, <1>4, AppendSet DEF Rpush
  <2>1. TypeOK' /\ AcksOfRun' /\ Dialled'
    BY <1>1, <1>4, <2>0 DEF Rpush, Continue, TypeOK, Call, AcksOfRun, Dialled, proc
  <2>2. CallsAtSocket'
    BY <1>1, <1>4, <2>0 DEF Rpush, Continue, CallsAtSocket, proc, Call
  <2> QED
    BY <1>4, <2>0, <2>1, <2>2 DEF Rpush, NothingIsLost, proc
<1>5. CASE ToSocket(s)
  <2>1. ConnsKept
    <3>1. CASE LiveSession = 0
      BY <1>5, <3>1, ConnsSame DEF ToSocket, proc
    <3>2. CASE LiveSession # 0
      <4>1. LiveSession \in DOMAIN conns /\ <<s.cmd>> \in Seq(Cmd)
        BY <1>1, <3>2, LenProperties DEF TypeOK, LiveSession
      <4>2. conns' = [conns EXCEPT ![LiveSession] = Sent(LiveSession, <<s.cmd>>)] /\ ran' = ran
        BY <1>5, <3>2 DEF ToSocket, proc
      <4> QED
        BY <4>1, <4>2, SentType, ConnWritten
    <3> QED
      BY <3>1, <3>2
  <2>2. TypeOK' /\ Dialled'
    BY <1>1, <1>5, <2>1 DEF ToSocket, ConnsKept, TypeOK, Call, Dialled, proc
  <2>3. CallsAtSocket' /\ NothingIsLost'
    BY <1>1, <1>5 DEF ToSocket, CallsAtSocket, NothingIsLost, proc
  <2> QED
    BY <2>1, <2>2, <2>3 DEF ConnsKept
<1> QED
  BY <1>2, <1>3, <1>4, <1>5 DEF CallStep

\* A new call.
LEMMA SendCommandInv ==
  ASSUME DeliveryInv, NEW c \in Cmd, SendCommand(c)
  PROVE  DeliveryInv'
<1> USE DEF DeliveryInv
<1>1. calls + 1 \in 1..MaxCalls
  BY CommandBounds DEF SendCommand, TypeOK
<1>2. TypeOK' /\ AcksOfRun' /\ Dialled'
  BY <1>1 DEF SendCommand, TypeOK, Call, AcksOfRun, Dialled, proc
<1>3. CallsAtSocket' /\ NothingIsLost'
  BY DEF SendCommand, CallsAtSocket, NothingIsLost, proc
<1> QED
  BY <1>2, <1>3

-----------------------------------------------------------------------------
\* The steps of the API on one connection.
LEMMA HandlerInv ==
  ASSUME DeliveryInv, NEW n \in DOMAIN conns, Handler(n) \/ Replay(n) \/ Break(n)
  PROVE  DeliveryInv'
<1> USE DEF DeliveryInv
<1>1. /\ conns[n] \in Connection /\ n \in 1..Len(conns) /\ Len(conns) \in Nat
      /\ pending \in Seq(Cmd)
  BY LenProperties, ElementOfSeq DEF TypeOK
<1>2. conns[n].up # <<>> =>
        /\ Tail(conns[n].up) \in Seq(Cmd \cup {"heartbeat"})
        /\ ToSet(Tail(conns[n].up)) \subseteq ToSet(conns[n].up)
        /\ Head(conns[n].up) \in ToSet(conns[n].up)
  BY <1>1, HeadTailSet DEF Connection
<1>3. ASSUME NEW c \in Connection, conns' = [conns EXCEPT ![n] = c],
             ToSet(c.up) \subseteq ToSet(conns[n].up),
             session' \in {session, n, 0}, faults' \in 0..MaxFaults,
             UNCHANGED <<pending, calls, sending, accepted, proc>>
      PROVE  DeliveryInv'
  <2>1. ConnsKept
    BY <1>3, ConnWritten DEF proc
  <2>2. TypeOK' /\ Dialled'
    BY <1>1, <1>3, <2>1 DEF TypeOK, Dialled, ConnsKept, proc
  <2> QED
    BY <1>3, <2>1, <2>2, NoneTaken DEF ConnsKept, proc
<1>4. CASE Attach(n)
  <2> DEFINE c == [conns[n] EXCEPT !.server = "serving"]
  <2>1. c \in Connection /\ c.up = conns[n].up
    BY <1>1 DEF Connection
  <2> HIDE DEF c
  <2> QED
    BY <1>3, <1>4, <2>1 DEF Attach, api, TypeOK, c
<1>5. CASE DropFrame(n)
  <2> DEFINE c == [conns[n] EXCEPT !.up = Tail(@)]
  <2>1. c \in Connection /\ c.up = Tail(conns[n].up)
    BY <1>1, <1>2, <1>5 DEF Connection, DropFrame
  <2> HIDE DEF c
  <2> QED
    BY <1>2, <1>3, <1>5, <2>1 DEF DropFrame, api, TypeOK, c
<1>6. CASE Heartbeat(n)
  <2> DEFINE c == [conns[n] EXCEPT !.up = Tail(@)]
             d == [conns[n] EXCEPT !.up = Tail(@), !.registered = TRUE, !.replay = "reading"]
  <2>1. /\ c \in Connection /\ c.up = Tail(conns[n].up)
        /\ d \in Connection /\ d.up = Tail(conns[n].up)
    BY <1>1, <1>2, <1>6 DEF Connection, Heartbeat
  <2>2. \/ conns' = [conns EXCEPT ![n] = c] /\ session' = session
        \/ conns' = [conns EXCEPT ![n] = d] /\ session' = n
    BY <1>6 DEF Heartbeat
  <2> HIDE DEF c, d
  <2> QED
    BY <1>2, <1>3, <1>6, <2>1, <2>2 DEF Heartbeat, TypeOK
<1>7. CASE ReadPending(n)
  <2> DEFINE c == [conns[n] EXCEPT !.replay = "sending", !.list = pending]
  <2>1. c \in Connection /\ c.up = conns[n].up
    BY <1>1 DEF Connection
  <2> HIDE DEF c
  <2> QED
    BY <1>3, <1>7, <2>1 DEF ReadPending, api, TypeOK, c
<1>8. CASE ReplayPending(n)
  <2> DEFINE c == [Sent(n, conns[n].list) EXCEPT !.replay = "none", !.list = <<>>]
  <2>1. conns[n].list \in Seq(Cmd)
    BY <1>1 DEF Connection
  <2>2. Sent(n, conns[n].list) \in Connection /\ Sent(n, conns[n].list).up = conns[n].up
    BY <2>1, SentType
  <2>3. c \in Connection /\ c.up = conns[n].up
    <3> DEFINE x == Sent(n, conns[n].list)
    <3>1. c = [x EXCEPT !.replay = "none", !.list = <<>>] /\ <<>> \in Seq(Cmd)
      BY EmptySeq
    <3> HIDE DEF x, c
    <3>2. x \in Connection /\ x.up = conns[n].up
      BY <2>2 DEF x
    <3> QED
      BY <3>1, <3>2 DEF Connection
  <2> HIDE DEF c
  <2> QED
    BY <1>3, <1>8, <2>3 DEF ReplayPending, api, TypeOK, c
<1>9. CASE Close(n)
  <2> DEFINE c == [conns[n] EXCEPT !.server = "closed", !.up = <<>>]
  <2>1. c \in Connection /\ c.up = <<>>
    <3>1. <<>> \in Seq(Cmd \cup {"heartbeat"})
      BY EmptySeq
    <3> QED
      BY <1>1, <3>1 DEF Connection
  <2>2. ToSet(c.up) = {}
    BY <2>1 DEF ToSet
  <2> HIDE DEF c
  <2> QED
    BY <1>3, <1>9, <2>1, <2>2 DEF Close, TypeOK, c
<1>10. CASE Break(n)
  <2> DEFINE c == [conns[n] EXCEPT !.open = FALSE]
  <2>1. c \in Connection /\ c.up = conns[n].up
    BY <1>1 DEF Connection
  <2>2. faults' \in 0..MaxFaults
    BY <1>10, CommandBounds DEF Break, Fault, TypeOK
  <2> HIDE DEF c
  <2> QED
    BY <1>3, <1>10, <2>1, <2>2 DEF Break, api, TypeOK, c
<1>11. CASE AcknowledgeCommand(n)
  <2> DEFINE c == [conns[n] EXCEPT !.up = Tail(@)]
             e == Head(conns[n].up)
  <2>1. c \in Connection /\ c.up = Tail(conns[n].up) /\ e \in ran
    BY <1>1, <1>2, <1>11 DEF Connection, AcknowledgeCommand, AcksOfRun
  <2>2. conns' = [conns EXCEPT ![n] = c]
    BY <1>11 DEF AcknowledgeCommand
  <2>3. /\ pending' \in Seq(Cmd)
        /\ \A x \in ToSet(pending) : x # e => x \in ToSet(pending')
    BY <1>1, <1>11, RemoveFirstKeeps DEF AcknowledgeCommand
  <2> HIDE DEF c, e
  <2>4. ConnsKept
    BY <1>2, <1>11, <2>1, <2>2, ConnWritten DEF AcknowledgeCommand, proc
  <2>5. TypeOK' /\ Dialled'
    BY <1>1, <1>11, <2>3, <2>4 DEF AcknowledgeCommand, TypeOK, Dialled, ConnsKept, proc
  <2>6. ToSet(pending) \subseteq ToSet(pending') \cup ran'
    BY <1>11, <2>1, <2>3 DEF AcknowledgeCommand, proc
  <2>7. NothingIsLost' /\ CallsAtSocket'
    BY <1>11, <2>6 DEF AcknowledgeCommand, NothingIsLost, CallsAtSocket, proc
  <2> QED
    BY <2>4, <2>5, <2>7 DEF ConnsKept
<1> QED
  BY <1>4, <1>5, <1>6, <1>7, <1>8, <1>9, <1>10, <1>11 DEF Handler, Replay

\* The API process ends: the list stays.
LEMMA ApiRestartInv ==
  ASSUME DeliveryInv, ApiRestart
  PROVE  DeliveryInv'
<1> USE DEF DeliveryInv
<1> DEFINE f == [n \in DOMAIN conns |->
                 [conns[n] EXCEPT !.open = FALSE, !.server = "closed", !.up = <<>>,
                                  !.registered = FALSE, !.replay = "none", !.list = <<>>]]
<1>1. ASSUME NEW n \in DOMAIN conns PROVE f[n] \in Connection /\ ToSet(f[n].up) = {}
  <2>1. conns[n] \in Connection /\ <<>> \in Seq(Cmd) /\ <<>> \in Seq(Cmd \cup {"heartbeat"})
    BY LenProperties, ElementOfSeq, EmptySeq DEF TypeOK
  <2>2. f[n] \in Connection /\ f[n].up = <<>>
    BY <2>1 DEF Connection
  <2> HIDE DEF f
  <2> QED
    BY <2>2 DEF ToSet
<1>2. conns' = [n \in DOMAIN conns |-> f[n]]
  BY DEF ApiRestart
<1> HIDE DEF f
<1>3. ConnsKept
  BY <1>1, <1>2, ConnsMapped DEF ApiRestart, proc
<1>4. faults' \in 0..MaxFaults /\ Len(conns) \in Nat
  <2>1. Fault
    BY DEF ApiRestart
  <2> QED
    BY <2>1, CommandBounds, LenProperties DEF Fault, TypeOK
<1>5. session' = 0 /\ sending' = {} /\ UNCHANGED <<pending, calls, accepted, proc>>
  BY DEF ApiRestart
<1>6. TypeOK' /\ Dialled'
  BY <1>3, <1>4, <1>5 DEF TypeOK, Dialled, ConnsKept, proc
<1> QED
  BY <1>3, <1>5, <1>6, NoneTaken DEF ConnsKept, proc

-----------------------------------------------------------------------------
\* A write of the agent puts a heartbeat, or an ack of a command that ran,
\* on the way.
LEMMA WrittenKept ==
  ASSUME TypeOK, AcksOfRun, ran \subseteq ran', agent.conn <= Len(conns),
         NEW m \in Cmd \cup {"heartbeat"}, m = "heartbeat" \/ m \in ran',
         Written(m)
  PROVE  ConnsKept
<1> DEFINE n == agent.conn
           c == [conns[n] EXCEPT !.up = Append(@, m)]
<1>1. CASE conns' = conns
  BY <1>1, ConnsSame
<1>2. CASE conns' = [conns EXCEPT ![n] = c] /\ n \in DOMAIN conns
  <2>1. conns[n] \in Connection
    BY <1>2, LenProperties, ElementOfSeq DEF TypeOK
  <2>2. /\ Append(conns[n].up, m) \in Seq(Cmd \cup {"heartbeat"})
        /\ ToSet(Append(conns[n].up, m)) = ToSet(conns[n].up) \cup {m}
    <3>1. conns[n].up \in Seq(Cmd \cup {"heartbeat"})
      BY <2>1 DEF Connection
    <3> HIDE DEF n
    <3> QED
      BY <3>1, AppendSet
  <2>3. c \in Connection /\ c.up = Append(conns[n].up, m)
    BY <2>1, <2>2 DEF Connection
  <2> HIDE DEF c, n
  <2> QED
    BY <1>2, <2>2, <2>3, ConnWritten
<1>3. CASE conns' = [conns EXCEPT ![n] = c] /\ n \notin DOMAIN conns
  <2>1. conns' = conns
    BY <1>3, LenProperties DEF TypeOK
  <2> QED
    BY <2>1, ConnsSame
<1> QED
  BY <1>1, <1>2, <1>3 DEF Written

\* What the goroutines write in the state of the agent.
LEMMA AgentWritten ==
  ASSUME agent \in Agent,
         NEW l \in {"dial", "beat", "select", "cleanup", "wait"},
         NEW r \in {"reading", "blocked", "done"}, NEW e \in {0, 1}
  PROVE  /\ [agent EXCEPT !.loop = l] \in Agent
         /\ [agent EXCEPT !.errCh = e, !.loop = l] \in Agent
         /\ [agent EXCEPT !.conn = 0, !.loop = l] \in Agent
         /\ [agent EXCEPT !.errCh = e, !.reader = r] \in Agent
         /\ [agent EXCEPT !.reader = r] \in Agent
         /\ [agent EXCEPT !.errCh = e] \in Agent
<1>1. e \in 0..1 /\ 0 \in 0..MaxConns
  BY CommandBounds
<1> QED
  BY <1>1 DEF Agent

\* The steps of the session loop but for the dial, and of the read loop.
LEMMA SessionInv ==
  ASSUME DeliveryInv, SendHeartbeat \/ Select \/ Cleanup \/ Wait \/ Reader
  PROVE  DeliveryInv'
<1> USE DEF DeliveryInv
<1>1. agent \in Agent /\ Len(conns) \in Nat /\ DOMAIN conns = 1..Len(conns)
  BY LenProperties DEF TypeOK
<1>2. ASSUME ConnsKept, agent' \in Agent, agent'.conn <= Len(conns),
             agent'.dialled <= Len(conns), seen' \subseteq Cmd,
             running' \subseteq [cmd : Cmd, dialled : Conn],
             UNCHANGED <<api, ran, faults>>
      PROVE  DeliveryInv'
  <2>1. TypeOK' /\ Dialled'
    BY <1>1, <1>2 DEF TypeOK, Dialled, ConnsKept, api
  <2> QED
    BY <1>2, <2>1, NoneTaken DEF ConnsKept, api
<1>3. ASSUME conns' = conns, agent' \in Agent, agent'.conn = agent.conn,
             agent'.dialled = agent.dialled, UNCHANGED <<api, seen, running, ran, faults>>
      PROVE  DeliveryInv'
  <2>1. ConnsKept
    BY <1>3, ConnsSame
  <2> QED
    BY <1>2, <1>3, <2>1 DEF TypeOK, Dialled
<1>4. CASE SendHeartbeat
  <2>1. /\ agent' \in Agent /\ agent'.conn = agent.conn /\ agent'.dialled = agent.dialled
    BY <1>1, <1>4 DEF SendHeartbeat, Goto, Agent
  <2>2. CASE Written("heartbeat")
    <3>1. ConnsKept
      BY <1>4, <2>2, WrittenKept DEF SendHeartbeat, Dialled
    <3> QED
      BY <1>2, <1>4, <2>1, <3>1 DEF SendHeartbeat, TypeOK, Dialled
  <2>3. CASE conns' = conns
    BY <1>3, <1>4, <2>1, <2>3 DEF SendHeartbeat
  <2> QED
    BY <1>4, <2>2, <2>3 DEF SendHeartbeat
<1>5. CASE Select
  <2>1. agent' \in Agent
    BY <1>1, <1>5, AgentWritten DEF Select, Goto
  <2>2. agent'.conn = agent.conn /\ agent'.dialled = agent.dialled
    BY <1>1, <1>5 DEF Select, Goto, Agent
  <2> QED
    BY <1>3, <1>5, <2>1, <2>2 DEF Select
<1>6. CASE Wait
  BY <1>1, <1>3, <1>6 DEF Wait, Goto, Agent
<1>7. CASE Cleanup
  <2> DEFINE n == agent.dialled
             c == [conns[n] EXCEPT !.open = FALSE]
  <2>1. ConnsKept
    <3>1. CASE n \in DOMAIN conns
      <4>1. conns[n] \in Connection
        BY <3>1, LenProperties, ElementOfSeq DEF TypeOK
      <4>2. c \in Connection /\ c.up = conns[n].up
        BY <4>1 DEF Connection
      <4>3. conns' = [conns EXCEPT ![n] = c] /\ ran' = ran
        BY <1>7 DEF Cleanup
      <4> HIDE DEF c, n
      <4> QED
        BY <3>1, <4>2, <4>3, ConnWritten
    <3>2. CASE n \notin DOMAIN conns
      <4>1. conns' = conns /\ ran' = ran
        BY <1>7, <3>2, LenProperties DEF Cleanup, TypeOK
      <4> QED
        BY <4>1, ConnsSame
    <3> QED
      BY <3>1, <3>2
  <2>2. agent' \in Agent /\ agent'.conn = 0 /\ agent'.dialled = agent.dialled
    <3>1. agent' = [agent EXCEPT !.conn = 0, !.loop = "wait"]
      BY <1>7 DEF Cleanup
    <3> QED
      BY <1>1, <3>1, AgentWritten DEF Agent
  <2> QED
    BY <1>1, <1>2, <1>7, <2>1, <2>2 DEF Cleanup, TypeOK, Dialled
<1>8. CASE HandleIncoming
  <2> DEFINE n == agent.dialled
             c == [conns[n] EXCEPT !.down = Tail(@)]
  <2>1. n \in DOMAIN conns /\ n \in Conn
    BY <1>1, <1>8 DEF HandleIncoming, Dialled, Agent, Conn
  <2>2. conns[n] \in Connection /\ conns[n].down # <<>>
    BY <1>8, <2>1, LenProperties, ElementOfSeq DEF TypeOK, HandleIncoming
  <2>3. Head(conns[n].down) \in Cmd /\ Tail(conns[n].down) \in Seq(Cmd)
    BY <2>2, HeadTailSet DEF Connection
  <2>4. c \in Connection /\ c.up = conns[n].up
    BY <2>2, <2>3 DEF Connection
  <2>5. /\ conns' = [conns EXCEPT ![n] = c] /\ ran' = ran /\ agent' = agent
        /\ seen' \subseteq Cmd /\ running' \subseteq [cmd : Cmd, dialled : Conn]
    BY <1>8, <2>1, <2>3 DEF HandleIncoming, TypeOK
  <2> HIDE DEF c, n
  <2>6. ConnsKept
    BY <2>1, <2>4, <2>5, ConnWritten
  <2> QED
    BY <1>2, <1>8, <2>5, <2>6 DEF HandleIncoming, TypeOK, Dialled
<1>9. CASE ReadFails \/ ReadLoopEnds
  <2>1. agent' \in Agent
    BY <1>1, <1>9, AgentWritten DEF ReadFails, ReadLoopEnds
  <2>2. agent'.conn = agent.conn /\ agent'.dialled = agent.dialled
    BY <1>1, <1>9 DEF ReadFails, ReadLoopEnds, Agent
  <2> QED
    BY <1>3, <1>9, <2>1, <2>2 DEF ReadFails, ReadLoopEnds
<1> QED
  BY <1>4, <1>5, <1>6, <1>7, <1>8, <1>9 DEF Reader

\* A new connection carries nothing yet.
LEMMA DialInv ==
  ASSUME DeliveryInv, Dial
  PROVE  DeliveryInv'
<1> USE DEF DeliveryInv
<1> DEFINE c == [open |-> TRUE, server |-> "accepting", registered |-> FALSE,
                 replay |-> "none", list |-> <<>>, up |-> <<>>, down |-> <<>>, sent |-> {}]
<1>1. conns \in Seq(Connection) /\ Len(conns) \in Nat /\ DOMAIN conns = 1..Len(conns)
  BY LenProperties DEF TypeOK
<1>2. c \in Connection /\ ToSet(c.up) = {}
  <2>1. <<>> \in Seq(Cmd) /\ <<>> \in Seq(Cmd \cup {"heartbeat"})
    BY EmptySeq
  <2>2. c \in Connection /\ c.up = <<>>
    BY <2>1 DEF Connection
  <2> HIDE DEF c
  <2> QED
    BY <2>2 DEF ToSet
<1>3. conns' = Append(conns, c)
  BY DEF Dial
<1> HIDE DEF c
<1>4. /\ conns' \in Seq(Connection) /\ Len(conns') = Len(conns) + 1
      /\ \A k \in 1..Len(conns) : conns'[k] = conns[k]
      /\ conns'[Len(conns) + 1] = c
      /\ DOMAIN conns' = 1..(Len(conns) + 1)
  BY <1>1, <1>2, <1>3, AppendProperties, LenProperties
<1>5. AcksOfRun'
  <2>1. ran' = ran
    BY DEF Dial
  <2>2. ASSUME NEW n \in DOMAIN conns', NEW m \in ToSet(conns'[n].up)
        PROVE  m = "heartbeat" \/ m \in ran
    <3>1. n \in DOMAIN conns \/ n = Len(conns) + 1
      BY <1>1, <1>4
    <3> QED
      BY <1>1, <1>2, <1>4, <2>2, <3>1 DEF AcksOfRun
  <2> QED
    BY <2>1, <2>2 DEF AcksOfRun
<1>6. agent' \in Agent /\ agent'.conn = Len(conns') /\ agent'.dialled = Len(conns')
  BY <1>1, <1>4, CommandBounds DEF Dial, Agent
<1>7. Len(conns') <= MaxConns
  BY <1>1, <1>4, CommandBounds DEF Dial
<1>8. TypeOK'
  BY <1>1, <1>4, <1>6, <1>7 DEF Dial, TypeOK, api
<1>9. Dialled'
  BY <1>1, <1>4, <1>6 DEF Dialled
<1> QED
  BY <1>5, <1>8, <1>9, NoneTaken DEF Dial, api

\* A handler returns: its command ran, before its ack is written.
LEMMA ExecuteInv ==
  ASSUME DeliveryInv, NEW e \in running, ExecuteAndAck(e)
  PROVE  DeliveryInv'
<1> USE DEF DeliveryInv
<1>1. /\ e \in [cmd : Cmd, dialled : Conn] /\ e.cmd \in Cmd
      /\ agent \in Agent /\ Len(conns) \in Nat
  BY LenProperties DEF TypeOK
<1>2. ran' = ran \cup {e.cmd}
  BY DEF ExecuteAndAck
<1>3. ConnsKept
  BY <1>1, <1>2, WrittenKept, ConnsSame DEF ExecuteAndAck, Dialled
<1>4. /\ agent' \in Agent /\ agent'.conn = agent.conn /\ agent'.dialled = agent.dialled
  BY <1>1 DEF ExecuteAndAck, Agent
<1>5. TypeOK' /\ Dialled'
  BY <1>1, <1>2, <1>3, <1>4 DEF ExecuteAndAck, TypeOK, Dialled, ConnsKept, api
<1> QED
  BY <1>2, <1>3, <1>5, NoneTaken DEF ExecuteAndAck, ConnsKept, api

\* The process of the agent ends: what ran, ran.
LEMMA AgentRestartInv ==
  ASSUME DeliveryInv, AgentRestart
  PROVE  DeliveryInv'
<1> USE DEF DeliveryInv
<1> DEFINE f == [n \in DOMAIN conns |-> [conns[n] EXCEPT !.open = FALSE, !.down = <<>>]]
<1>1. ASSUME NEW n \in DOMAIN conns PROVE f[n] \in Connection /\ f[n].up = conns[n].up
  <2>1. conns[n] \in Connection /\ <<>> \in Seq(Cmd)
    BY LenProperties, ElementOfSeq, EmptySeq DEF TypeOK
  <2> QED
    BY <2>1 DEF Connection
<1>2. conns' = [n \in DOMAIN conns |-> f[n]]
  BY DEF AgentRestart
<1> HIDE DEF f
<1>3. ConnsKept
  BY <1>1, <1>2, ConnsMapped DEF AgentRestart
<1>4. faults' \in 0..MaxFaults /\ Len(conns) \in Nat
  <2>1. Fault
    BY DEF AgentRestart
  <2> QED
    BY <2>1, CommandBounds, LenProperties DEF Fault, TypeOK
<1>5. agent' \in Agent /\ agent'.conn = 0 /\ agent'.dialled = 0
  <2>1. agent' = [loop |-> "dial", conn |-> 0, dialled |-> 0, reader |-> "done", errCh |-> 0]
    BY DEF AgentRestart
  <2> QED
    BY <2>1, CommandBounds DEF Agent
<1>6. seen' = {} /\ running' = {} /\ UNCHANGED <<api, ran>>
  BY DEF AgentRestart, FreshSeen
<1>7. TypeOK' /\ Dialled'
  BY <1>3, <1>4, <1>5, <1>6 DEF TypeOK, Dialled, ConnsKept, api
<1> QED
  BY <1>3, <1>6, <1>7, NoneTaken DEF ConnsKept, api

-----------------------------------------------------------------------------
\* At first there is no command, no connection and no call.
LEMMA DeliveryInvInit == Init => DeliveryInv
<1> SUFFICES ASSUME Init PROVE DeliveryInv
  OBVIOUS
<1>1. /\ <<>> \in Seq(Cmd) /\ <<>> \in Seq(Connection)
      /\ Len(conns) = 0 /\ DOMAIN conns = {}
  BY EmptySeq DEF Init
<1>2. agent \in Agent
  BY CommandBounds DEF Init, Agent
<1>3. TypeOK
  BY <1>1, <1>2, CommandBounds DEF Init, TypeOK
<1> QED
  BY <1>1, <1>3 DEF Init, DeliveryInv, Dialled, NothingIsLost, CallsAtSocket, AcksOfRun

\* Every step keeps the invariant.
LEMMA DeliveryInvStep == DeliveryInv /\ [Next]_vars => DeliveryInv'
<1> SUFFICES ASSUME DeliveryInv, [Next]_vars PROVE DeliveryInv'
  OBVIOUS
<1>1. CASE UNCHANGED vars
  BY <1>1 DEF vars, DeliveryInv, TypeOK, Dialled, NothingIsLost, CallsAtSocket, AcksOfRun
<1> QED
  BY <1>1, SendCommandInv, CallInv, HandlerInv, ApiRestartInv, SessionInv, DialInv,
     ExecuteInv, AgentRestartInv DEF Next, Loop

\* The state of the delivery is well typed in every reachable state.
THEOREM DeliveryTypeCorrect == Spec => []TypeOK
<1>1. DeliveryInv => TypeOK
  BY DEF DeliveryInv
<1> QED
  BY <1>1, DeliveryInvInit, DeliveryInvStep, PTL DEF Spec

\* However many calls, reconnects and restarts there are, a command that
\* sendCommand accepted is in the list of the agent until some process of
\* the agent ran it: nothing but an ack takes it out, and an ack on its way
\* is of a command that ran.
THEOREM NeverLost == Spec => []NothingIsLost
<1>1. DeliveryInv => NothingIsLost
  BY DEF DeliveryInv
<1> QED
  BY <1>1, DeliveryInvInit, DeliveryInvStep, PTL DEF Spec

-----------------------------------------------------------------------------
(***************************************************************************)
(* The race of registerAgent and sendCommand.                              *)
(***************************************************************************)
AtSocket == {c \in Cmd : \E s \in sending : s.cmd = c /\ s.at = "socket"}

\* What connection n was given, or will be by the replay under way.
Reached(n) ==
  conns[n].sent \cup (IF conns[n].replay = "sending" THEN ToSet(conns[n].list) ELSE {})

\* From the moment the list was read, every pending command is on the
\* connection of the session, or a call is about to put it there.
ReplayCovers ==
  session # 0 /\ conns[session].replay # "reading" =>
    ToSet(pending) \subseteq Reached(session) \cup AtSocket

\* A step that does not touch the replay, nor the list.
LEMMA CoversKept ==
  ASSUME ReplayCovers, session' \in {session, 0}, ToSet(pending') \subseteq ToSet(pending),
         AtSocket \subseteq AtSocket',
         session # 0 => /\ conns'[session].replay = conns[session].replay
                        /\ conns'[session].list = conns[session].list
                        /\ conns[session].sent \subseteq conns'[session].sent
  PROVE  ReplayCovers'
BY DEF ReplayCovers, Reached

\* One connection is rewritten.
LEMMA CoversWritten ==
  ASSUME TypeOK, ReplayCovers, session' \in {session, 0},
         ToSet(pending') \subseteq ToSet(pending), AtSocket \subseteq AtSocket',
         NEW n, NEW c, conns' = [conns EXCEPT ![n] = c],
         n \in DOMAIN conns => /\ c.replay = conns[n].replay /\ c.list = conns[n].list
                               /\ conns[n].sent \subseteq c.sent
  PROVE  ReplayCovers'
<1>1. session # 0 => session \in DOMAIN conns
  BY LenProperties DEF TypeOK
<1>2. \A k \in DOMAIN conns : conns'[k] = IF k = n THEN c ELSE conns[k]
  BY LenProperties DEF TypeOK
<1> QED
  BY <1>1, <1>2, CoversKept

\* The steps of sendCommand.
LEMMA CallCovers ==
  ASSUME TypeOK, ReplayCovers, NEW s \in sending, CallStep(s)
  PROVE  ReplayCovers'
<1>1. s \in Call /\ s.cmd \in Cmd /\ pending \in Seq(Cmd)
  BY DEF TypeOK, Call
<1>2. CASE Lrange(s) \/ Llen(s)
  <2>1. AtSocket \subseteq AtSocket'
    BY <1>2 DEF Lrange, Llen, Continue, AtSocket
  <2> QED
    BY <1>2, <2>1, CoversKept DEF Lrange, Llen
<1>3. CASE Rpush(s)
  <2>1. ToSet(pending') = ToSet(pending) \cup {s.cmd}
    BY <1>1, <1>3, AppendSet DEF Rpush
  <2>2. AtSocket \cup {s.cmd} \subseteq AtSocket'
    <3>1. [s EXCEPT !.at = "socket"].at = "socket" /\ [s EXCEPT !.at = "socket"].cmd = s.cmd
      BY <1>1 DEF Call
    <3>2. sending' = (sending \ {s}) \cup {[s EXCEPT !.at = "socket"]} /\ s.at = "rpush"
      BY <1>3 DEF Rpush, Continue
    <3> QED
      BY <1>1, <3>1, <3>2 DEF AtSocket
  <2>3. session' = session /\ conns' = conns
    BY <1>3 DEF Rpush
  <2> QED
    BY <2>1, <2>2, <2>3 DEF ReplayCovers, Reached
<1>4. CASE ToSocket(s)
  <2>1. /\ session' = session /\ pending' = pending /\ sending' = sending \ {s}
        /\ session # 0 => conns' = [conns EXCEPT ![session] = Sent(session, <<s.cmd>>)]
    BY <1>4 DEF ToSocket, LiveSession
  <2>2. AtSocket \subseteq AtSocket' \cup {s.cmd}
    BY <2>1 DEF AtSocket
  <2>3. CASE session = 0
    BY <2>1, <2>3 DEF ReplayCovers
  <2>4. CASE session # 0
    <3>1. session \in DOMAIN conns
      BY <2>4, LenProperties DEF TypeOK
    <3>2. conns[session] \in Connection
      BY <3>1, LenProperties, ElementOfSeq DEF TypeOK
    <3>3. s.cmd \in ToSet(<<s.cmd>>)
      BY DEF ToSet
    <3> DEFINE c == Sent(session, <<s.cmd>>)
    <3>4. /\ c.replay = conns[session].replay /\ c.list = conns[session].list
          /\ conns[session].sent \cup {s.cmd} \subseteq c.sent
      BY <3>2, <3>3 DEF Sent, Connection
    <3>5. conns'[session] = c
      BY <2>1, <2>4, <3>1, LenProperties DEF TypeOK
    <3> HIDE DEF c
    <3> QED
      BY <2>1, <2>2, <2>4, <3>4, <3>5 DEF ReplayCovers, Reached
  <2> QED
    BY <2>3, <2>4
<1> QED
  BY <1>2, <1>3, <1>4 DEF CallStep

\* The steps of the API on one connection: the replay itself, and the rest.
LEMMA HandlerCovers ==
  ASSUME TypeOK, ReplayCovers, NEW n \in DOMAIN conns, Handler(n) \/ Replay(n) \/ Break(n)
  PROVE  ReplayCovers'
<1>1. /\ conns[n] \in Connection /\ n \in 1..Len(conns) /\ n # 0
      /\ pending \in Seq(Cmd) /\ conns[n].list \in Seq(Cmd)
      /\ \A c : [conns EXCEPT ![n] = c][n] = c
  <2>1. /\ Len(conns) \in Nat /\ DOMAIN conns = 1..Len(conns)
        /\ conns[n] \in Connection /\ pending \in Seq(Cmd)
    BY LenProperties, ElementOfSeq DEF TypeOK
  <2>2. conns[n].list \in Seq(Cmd)
    BY <2>1 DEF Connection
  <2>3. \A c : [conns EXCEPT ![n] = c][n] = c
    OBVIOUS
  <2> QED
    BY <2>1, <2>2, <2>3
<1>2. CASE Attach(n) \/ DropFrame(n) \/ Close(n) \/ Break(n)
  <2>1. PICK c : /\ conns' = [conns EXCEPT ![n] = c]
                 /\ c.replay = conns[n].replay /\ c.list = conns[n].list
                 /\ c.sent = conns[n].sent
    <3>1. ASSUME NEW c \in {[conns[n] EXCEPT !.server = "serving"],
                            [conns[n] EXCEPT !.up = Tail(conns[n].up)],
                            [conns[n] EXCEPT !.server = "closed", !.up = <<>>],
                            [conns[n] EXCEPT !.open = FALSE]}
          PROVE  c.replay = conns[n].replay /\ c.list = conns[n].list /\ c.sent = conns[n].sent
      BY <1>1 DEF Connection
    <3>2. CASE Attach(n)
      BY <3>1, <3>2 DEF Attach
    <3>3. CASE DropFrame(n)
      BY <3>1, <3>3 DEF DropFrame
    <3>4. CASE Close(n)
      BY <3>1, <3>4 DEF Close
    <3>5. CASE Break(n)
      BY <3>1, <3>5 DEF Break
    <3> QED
      BY <1>2, <3>2, <3>3, <3>4, <3>5
  <2>2. session' \in {session, 0} /\ UNCHANGED <<pending, sending>>
    BY <1>2 DEF Attach, DropFrame, Close, Break, api
  <2>3. AtSocket' = AtSocket
    BY <2>2 DEF AtSocket
  <2> QED
    BY <2>1, <2>2, <2>3, CoversWritten
<1>3. CASE Heartbeat(n)
  <2>1. CASE conns[n].registered
    <3> DEFINE c == [conns[n] EXCEPT !.up = Tail(conns[n].up)]
    <3>1. /\ c.replay = conns[n].replay /\ c.list = conns[n].list /\ c.sent = conns[n].sent
      BY <1>1 DEF Connection
    <3>2. conns' = [conns EXCEPT ![n] = c] /\ session' = session /\ UNCHANGED <<pending, sending>>
      BY <1>3, <2>1 DEF Heartbeat
    <3>3. AtSocket' = AtSocket
      BY <3>2 DEF AtSocket
    <3> HIDE DEF c
    <3> QED
      BY <3>1, <3>2, <3>3, CoversWritten
  <2>2. CASE ~ conns[n].registered
    <3>1. session' = n /\ conns'[n].replay = "reading"
      BY <1>1, <1>3, <2>2 DEF Heartbeat, Connection
    <3> QED
      BY <3>1 DEF ReplayCovers
  <2> QED
    BY <2>1, <2>2
<1>4. CASE ReadPending(n)
  <2> DEFINE c == [conns[n] EXCEPT !.replay = "sending", !.list = pending]
  <2>1. c.replay = "sending" /\ c.list = pending
    BY <1>1 DEF Connection
  <2>2. conns' = [conns EXCEPT ![n] = c] /\ UNCHANGED <<pending, session, sending>>
    BY <1>4 DEF ReadPending, api
  <2>3. CASE session = n
    <3>1. conns'[n] = c
      BY <1>1, <2>2
    <3> HIDE DEF c
    <3> QED
      BY <2>1, <2>2, <2>3, <3>1 DEF ReplayCovers, Reached
  <2>4. CASE session # n
    <3>1. session # 0 => conns'[session] = conns[session]
      BY <2>2, <2>4, LenProperties DEF TypeOK
    <3>2. AtSocket' = AtSocket
      BY <2>2 DEF AtSocket
    <3> HIDE DEF c
    <3> QED
      BY <2>2, <3>1, <3>2, CoversKept
  <2> QED
    BY <2>3, <2>4
<1>5. CASE ReplayPending(n)
  <2> DEFINE c == [Sent(n, conns[n].list) EXCEPT !.replay = "none", !.list = <<>>]
  <2>1. /\ c.replay = "none"
        /\ conns[n].sent \cup ToSet(conns[n].list) \subseteq c.sent
    <3> DEFINE x == Sent(n, conns[n].list)
    <3>1. x \in Connection
      BY <1>1, SentType
    <3>2. conns[n].sent \cup ToSet(conns[n].list) \subseteq x.sent
      BY <1>1 DEF Sent, Connection
    <3>3. c = [x EXCEPT !.replay = "none", !.list = <<>>]
      OBVIOUS
    <3> HIDE DEF x, c
    <3> QED
      BY <3>1, <3>2, <3>3 DEF Connection
  <2>2. /\ conns' = [conns EXCEPT ![n] = c] /\ UNCHANGED <<pending, session, sending>>
        /\ conns[n].replay = "sending"
    BY <1>5 DEF ReplayPending, api
  <2>3. AtSocket' = AtSocket
    BY <2>2 DEF AtSocket
  <2> HIDE DEF c
  <2>4. CASE session = n
    <3>1. conns'[n] = c
      BY <1>1, <2>2
    <3> QED
      BY <1>1, <2>1, <2>2, <2>3, <2>4, <3>1 DEF ReplayCovers, Reached
  <2>5. CASE session # n
    <3>1. session # 0 => conns'[session] = conns[session]
      BY <2>2, <2>5, LenProperties DEF TypeOK
    <3> QED
      BY <2>2, <2>3, <3>1, CoversKept
  <2> QED
    BY <2>4, <2>5
<1>6. CASE AcknowledgeCommand(n)
  <2> DEFINE c == [conns[n] EXCEPT !.up = Tail(conns[n].up)]
  <2>1. c.replay = conns[n].replay /\ c.list = conns[n].list /\ c.sent = conns[n].sent
    BY <1>1 DEF Connection
  <2>2. conns' = [conns EXCEPT ![n] = c] /\ UNCHANGED <<session, sending>>
    BY <1>6 DEF AcknowledgeCommand
  <2>3. ToSet(pending') \subseteq ToSet(pending) /\ AtSocket' = AtSocket
    BY <1>1, <1>6, <2>2, RemoveFirstKeeps DEF AcknowledgeCommand, AtSocket
  <2> HIDE DEF c
  <2> QED
    BY <2>1, <2>2, <2>3, CoversWritten
<1> QED
  BY <1>2, <1>3, <1>4, <1>5, <1>6 DEF Handler, Replay

\* The agent and the restarts do not touch what the connections were given.
LEMMA AgentCovers ==
  ASSUME TypeOK, ReplayCovers,
         Loop \/ Reader \/ ApiRestart \/ AgentRestart \/ \E e \in running : ExecuteAndAck(e)
  PROVE  ReplayCovers'
<1>1. CASE ApiRestart
  BY <1>1 DEF ApiRestart, ReplayCovers
<1> DEFINE Given(c, d) == c.replay = d.replay /\ c.list = d.list /\ c.sent = d.sent
<1>2. ASSUME UNCHANGED api, \A k \in DOMAIN conns : Given(conns'[k], conns[k])
      PROVE  ReplayCovers'
  <2>1. session # 0 => session \in DOMAIN conns
    BY LenProperties DEF TypeOK
  <2>2. AtSocket' = AtSocket
    BY <1>2 DEF AtSocket, api
  <2> QED
    BY <1>2, <2>1, <2>2, CoversKept DEF api
<1>3. \A k \in DOMAIN conns : conns[k] \in Connection
  BY LenProperties, ElementOfSeq DEF TypeOK
<1>4. CASE AgentRestart
  <2>1. ASSUME NEW k \in DOMAIN conns
        PROVE  Given([conns[k] EXCEPT !.open = FALSE, !.down = <<>>], conns[k])
    BY <1>3 DEF Connection
  <2>2. UNCHANGED api /\ \A k \in DOMAIN conns :
           conns'[k] = [conns[k] EXCEPT !.open = FALSE, !.down = <<>>]
    BY <1>4 DEF AgentRestart
  <2> QED
    BY <1>2, <2>1, <2>2
<1>5. CASE Dial
  <2>1. UNCHANGED api /\ \A k \in DOMAIN conns : conns'[k] = conns[k]
    BY <1>5, LenProperties DEF Dial, TypeOK
  <2> QED
    BY <1>2, <2>1
<1>6. ASSUME NEW n, NEW c, conns' = [conns EXCEPT ![n] = c], UNCHANGED api,
             n \in DOMAIN conns => Given(c, conns[n])
      PROVE  ReplayCovers'
  <2>1. \A k \in DOMAIN conns : conns'[k] = IF k = n THEN c ELSE conns[k]
    BY <1>6, LenProperties DEF TypeOK
  <2> QED
    BY <1>2, <1>6, <2>1
<1>7. ASSUME conns' = conns, UNCHANGED api PROVE ReplayCovers'
  BY <1>2, <1>7
<1>8. ASSUME NEW m, Written(m), UNCHANGED api PROVE ReplayCovers'
  <2> DEFINE n == agent.conn
             c == [conns[n] EXCEPT !.up = Append(conns[n].up, m)]
  <2>1. n \in DOMAIN conns => Given(c, conns[n])
    BY <1>3 DEF Connection
  <2>2. conns' = conns \/ conns' = [conns EXCEPT ![n] = c]
    BY <1>8 DEF Written
  <2> HIDE DEF c, n
  <2> QED
    BY <1>6, <1>7, <1>8, <2>1, <2>2
<1>9. CASE SendHeartbeat \/ Select \/ Wait \/ ReadFails \/ ReadLoopEnds
  BY <1>7, <1>8, <1>9 DEF SendHeartbeat, Select, Wait, ReadFails, ReadLoopEnds
<1>10. CASE \E e \in running : ExecuteAndAck(e)
  BY <1>7, <1>8, <1>10 DEF ExecuteAndAck
<1>11. CASE Cleanup
  <2> DEFINE n == agent.dialled
             c == [conns[n] EXCEPT !.open = FALSE]
  <2>1. n \in DOMAIN conns => Given(c, conns[n])
    BY <1>3 DEF Connection
  <2>2. conns' = [conns EXCEPT ![n] = c] /\ UNCHANGED api
    BY <1>11 DEF Cleanup
  <2> HIDE DEF c, n
  <2> QED
    BY <1>6, <2>1, <2>2
<1>12. CASE HandleIncoming
  <2> DEFINE n == agent.dialled
             c == [conns[n] EXCEPT !.down = Tail(conns[n].down)]
  <2>1. n \in DOMAIN conns => Given(c, conns[n])
    BY <1>3 DEF Connection
  <2>2. conns' = [conns EXCEPT ![n] = c] /\ UNCHANGED api
    BY <1>12 DEF HandleIncoming
  <2> HIDE DEF c, n
  <2> QED
    BY <1>6, <2>1, <2>2
<1> QED
  BY <1>1, <1>4, <1>5, <1>9, <1>10, <1>11, <1>12 DEF Loop, Reader

\* However the Redis calls of registerAgent and of sendCommand interleave,
\* and whatever connections were there before: once the replay is over, the
\* connection of the session was given every command that is pending, but
\* for those a call is just about to send.
THEOREM NoneBetweenTheTwo == Spec => []NoCommandBetweenTheTwo
<1>1. Init => ReplayCovers
  BY DEF Init, ReplayCovers
<1>2. TypeOK /\ ReplayCovers /\ [Next]_vars => ReplayCovers'
  <2> SUFFICES ASSUME TypeOK, ReplayCovers, [Next]_vars PROVE ReplayCovers'
    OBVIOUS
  <2>1. CASE UNCHANGED vars
    BY <2>1 DEF vars, ReplayCovers, Reached, AtSocket
  <2>2. CASE \E c \in Cmd : SendCommand(c)
    <3>1. AtSocket \subseteq AtSocket'
      BY <2>2 DEF SendCommand, AtSocket
    <3> QED
      BY <2>2, <3>1, CoversKept DEF SendCommand
  <2> QED
    BY <2>1, <2>2, CallCovers, HandlerCovers, AgentCovers DEF Next
<1>3. ReplayCovers => NoCommandBetweenTheTwo
  BY DEF ReplayCovers, Reached, AtSocket, NoCommandBetweenTheTwo
<1> QED
  BY <1>1, <1>2, <1>3, DeliveryTypeCorrect, PTL DEF Spec

-----------------------------------------------------------------------------
(* Builds: their rows and the tags                                         *)

RowFields ==
  {"service", "sha", "status", "pc", "yaml", "own", "image", "on", "expects"}

\* A row of service_builds: it has its commit once its run has left the start.
IsRow(r) ==
  /\ DOMAIN r = RowFields
  /\ r.service \in Service
  /\ r.sha \in Commit \cup {AtHead}
  /\ (r.status = "running" /\ r.pc # "start") \/ r.status = "success" => r.sha \in Commit

RowsOK ==
  /\ Len(builds) \in Nat
  /\ builds = [i \in 1..Len(builds) |-> builds[i]]
  /\ \A i \in DOMAIN builds : IsRow(builds[i])

\* A service has one build in progress.
OneRuns ==
  \A i, j \in DOMAIN builds :
    /\ builds[i].service = builds[j].service
    /\ builds[i].status = "running" /\ builds[j].status = "running"
    => i = j

\* The pipeline of a row.
Def(r) == Picked(r.yaml, PipelineName[r.service])

\* What a row relies on in the registry: the images of its dependencies before
\* it reads them, its own image from its push on.
Relies(r, tg) ==
  /\ r.status = "running" =>
       /\ r.pc \in {"docker", "container", "capture", "assemble"} =>
            \A d \in Def(r).uses : d \in Service /\ tg[d][r.sha] # NoImage
       /\ r.pc \in {"container", "capture"} => ~ Def(r).dockerfile
       /\ r.pc = "push" => \A b \in r.on : b.sha = r.sha
       /\ r.pc \in {"mutate", "latest"} => tg[r.service][r.sha] # NoImage
       /\ r.pc = "latest" => tg[r.service][r.sha].done
       /\ r.pc = "finish" /\ (Def(r).dockerfile \/ Def(r).runtime) =>
            tg[r.service][r.sha] # NoImage
  /\ r.status = "success" /\ r.image => tg[r.service][r.sha] # NoImage

RowsRely == \A i \in DOMAIN builds : Relies(builds[i], tags)

\* Its image may lack its configuration.
Unfinished(r) == r.status = "failed" \/ (r.status = "running" /\ r.pc = "mutate")

\* What a tag holds: an image of the commit it is named after, by a build of
\* the service and on images of that commit, and unfinished only while its build
\* is or when it failed.
Holds(s, t, g, rows) ==
  /\ DOMAIN g = {"sha", "by", "done", "on"}
  /\ \A b \in g.on : b.sha = g.sha
  /\ g # NoImage =>
       /\ g.by \in DOMAIN rows /\ rows[g.by].service = s
       /\ t # Latest => g.sha = t /\ rows[g.by].sha = t
       /\ g.done \/ (t # Latest /\ Unfinished(rows[g.by]))

TagsShaped == DOMAIN tags = Service /\ \A s \in Service : DOMAIN tags[s] = Commit \cup {Latest}
TagsHold == \A s \in Service : \A t \in Commit \cup {Latest} : Holds(s, t, tags[s][t], builds)

TagsInv ==
  /\ head \in Commit
  /\ RowsOK /\ OneRuns /\ RowsRely
  /\ TagsShaped /\ TagsHold

-----------------------------------------------------------------------------
\* A new row.
LEMMA NewRow ==
  ASSUME RowsOK, NEW r, builds' = Append(builds, r)
  PROVE  /\ Len(builds') \in Nat
         /\ builds' = [i \in 1..Len(builds') |-> builds'[i]]
         /\ DOMAIN builds' = DOMAIN builds \cup {Len(builds) + 1}
         /\ Len(builds) + 1 \notin DOMAIN builds
         /\ \A i \in DOMAIN builds : builds'[i] = builds[i]
         /\ builds'[Len(builds) + 1] = r
<1> DEFINE S == {builds[i] : i \in 1..Len(builds)} \cup {r}
<1>1. Len(builds) \in Nat /\ builds = [i \in 1..Len(builds) |-> builds[i]]
  BY DEF RowsOK
<1>2. DOMAIN builds = 1..Len(builds)
  BY <1>1
<1>3. builds \in [1..Len(builds) -> S] /\ r \in S
  BY <1>1
<1> HIDE DEF S
<1>4. builds \in Seq(S)
  BY <1>1, <1>3, SeqDef
<1>5. /\ Append(builds, r) \in Seq(S) /\ Len(Append(builds, r)) = Len(builds) + 1
      /\ \A i \in 1..Len(builds) : Append(builds, r)[i] = builds[i]
      /\ Append(builds, r)[Len(builds) + 1] = r
  BY <1>3, <1>4, AppendProperties
<1>6. Append(builds, r) \in [1..(Len(builds) + 1) -> S]
  BY <1>5, LenProperties
<1>7. DOMAIN builds' = 1..(Len(builds) + 1) /\ Len(builds') = Len(builds) + 1
  BY <1>5, <1>6
<1>8. builds' = [i \in 1..(Len(builds) + 1) |-> builds'[i]]
  BY <1>6
<1>9. Len(builds) + 1 \in Nat /\ Len(builds) + 1 \notin 1..Len(builds)
      /\ 1..(Len(builds) + 1) = 1..Len(builds) \cup {Len(builds) + 1}
  BY <1>1
<1> QED
  BY <1>2, <1>5, <1>7, <1>8, <1>9

\* A row is written.
LEMMA RowWritten ==
  ASSUME RowsOK, NEW i \in DOMAIN builds, NEW r, builds' = [builds EXCEPT ![i] = r]
  PROVE  /\ Len(builds') = Len(builds)
         /\ builds' = [j \in 1..Len(builds') |-> builds'[j]]
         /\ DOMAIN builds' = DOMAIN builds
         /\ builds'[i] = r
         /\ \A j \in DOMAIN builds \ {i} : builds'[j] = builds[j]
<1> DEFINE S == {builds[j] : j \in 1..Len(builds)} \cup {r}
<1>1. Len(builds) \in Nat /\ builds = [j \in 1..Len(builds) |-> builds[j]]
  BY DEF RowsOK
<1>2. DOMAIN builds = 1..Len(builds)
  BY <1>1
<1>3. builds \in [1..Len(builds) -> S] /\ r \in S
  BY <1>1
<1> HIDE DEF S
<1>4. builds' \in [1..Len(builds) -> S]
  BY <1>3
<1>5. builds' \in Seq(S)
  <2>1. Seq(S) = UNION {[1..n -> S] : n \in Nat}
    BY SeqDef
  <2>2. [1..Len(builds) -> S] \in {[1..n -> S] : n \in Nat}
    BY <1>1
  <2> QED
    BY <1>4, <2>1, <2>2
<1>6. Len(builds') \in Nat /\ DOMAIN builds' = 1..Len(builds')
  BY <1>5, LenProperties
<1>7. Len(builds') = Len(builds)
  BY <1>1, <1>4, <1>5, LenProperties
<1>8. builds' = [j \in 1..Len(builds) |-> builds'[j]]
  BY <1>4
<1> QED
  BY <1>2, <1>7, <1>8

-----------------------------------------------------------------------------
(* TagsServe                                                               *)

\* Rows are there as they were but for what they expect, and new ones wait; the
\* tags are as they were.
LEMMA RowsGrow ==
  ASSUME TagsInv, head' \in Commit, tags' = tags,
         Len(builds') \in Nat,
         builds' = [i \in 1..Len(builds') |-> builds'[i]],
         DOMAIN builds \subseteq DOMAIN builds',
         \A i \in DOMAIN builds :
           /\ DOMAIN builds'[i] = RowFields
           /\ \A f \in RowFields \ {"expects"} : builds'[i][f] = builds[i][f],
         \A i \in DOMAIN builds' \ DOMAIN builds :
           IsRow(builds'[i]) /\ builds'[i].status = "queued"
  PROVE  TagsInv'
<1>1. ASSUME NEW i \in DOMAIN builds
      PROVE  /\ DOMAIN builds'[i] = RowFields
             /\ builds'[i].service = builds[i].service /\ builds'[i].sha = builds[i].sha
             /\ builds'[i].status = builds[i].status /\ builds'[i].pc = builds[i].pc
             /\ builds'[i].yaml = builds[i].yaml /\ builds'[i].image = builds[i].image
             /\ builds'[i].on = builds[i].on
  BY DEF RowFields
<1>2. ASSUME NEW i \in DOMAIN builds' \ DOMAIN builds
      PROVE  IsRow(builds'[i]) /\ builds'[i].status = "queued"
  OBVIOUS
<1>3. RowsOK'
  <2>1. ASSUME NEW i \in DOMAIN builds' PROVE IsRow(builds'[i])
    <3>1. CASE i \in DOMAIN builds
      BY <1>1, <3>1 DEF TagsInv, RowsOK, IsRow
    <3> QED
      BY <1>2, <3>1
  <2> QED
    BY <2>1 DEF RowsOK, IsRow
<1>4. OneRuns'
  BY <1>1, <1>2 DEF TagsInv, OneRuns
<1>5. RowsRely'
  <2>1. ASSUME NEW i \in DOMAIN builds' PROVE Relies(builds'[i], tags)
    <3>1. CASE i \in DOMAIN builds
      BY <1>1, <3>1 DEF TagsInv, RowsRely, Relies, Def
    <3>2. CASE i \notin DOMAIN builds
      BY <1>2, <3>2 DEF Relies
    <3> QED
      BY <3>1, <3>2
  <2> QED
    BY <2>1 DEF RowsRely, Relies, Def
<1>6. TagsHold'
  <2>1. ASSUME NEW s \in Service, NEW t \in Commit \cup {Latest}
        PROVE  Holds(s, t, tags[s][t], builds')
    <3>1. Holds(s, t, tags[s][t], builds)
      BY DEF TagsInv, TagsHold
    <3> QED
      BY <1>1, <3>1 DEF Holds, Unfinished
  <2> QED
    BY <2>1 DEF TagsHold, Holds, Unfinished
<1> QED
  BY <1>3, <1>4, <1>5, <1>6 DEF TagsInv, TagsShaped

\* What a step of the build i must keep: its service, its commit when it has one,
\* and that its service has one build in progress.
Steps(i, r) ==
  /\ IsRow(r)
  /\ r.service = builds[i].service
  /\ r.sha = builds[i].sha \/ builds[i].sha = AtHead
  /\ r.status = "running" =>
       \A j \in DOMAIN builds \ {i} :
         builds[j].service = r.service => builds[j].status # "running"

\* A step of the build i that leaves the tags alone.
LEMMA RowSteps ==
  ASSUME TagsInv, head' \in Commit, tags' = tags,
         NEW i \in DOMAIN builds, NEW r, builds' = [builds EXCEPT ![i] = r],
         Steps(i, r), Unfinished(builds[i]) => Unfinished(r),
         Relies(r, tags)
  PROVE  TagsInv'
<1>1. RowsOK /\ OneRuns /\ RowsRely /\ TagsShaped /\ TagsHold
  BY DEF TagsInv
<1>2. /\ Len(builds') = Len(builds)
      /\ builds' = [j \in 1..Len(builds') |-> builds'[j]]
      /\ DOMAIN builds' = DOMAIN builds
      /\ builds'[i] = r
      /\ \A j \in DOMAIN builds \ {i} : builds'[j] = builds[j]
  BY <1>1, RowWritten
<1>3. RowsOK'
  <2>1. ASSUME NEW j \in DOMAIN builds PROVE IsRow(builds'[j])
    BY <1>1, <1>2 DEF RowsOK, Steps
  <2> QED
    BY <1>1, <1>2, <2>1 DEF RowsOK, IsRow
<1>4. OneRuns'
  BY <1>1, <1>2 DEF OneRuns, Steps
<1>5. RowsRely'
  <2>1. ASSUME NEW j \in DOMAIN builds PROVE Relies(builds'[j], tags)
    BY <1>1, <1>2 DEF RowsRely
  <2> QED
    BY <1>2, <2>1 DEF RowsRely, Relies, Def
<1>6. TagsHold'
  <2>1. ASSUME NEW s \in Service, NEW t \in Commit \cup {Latest}
        PROVE  Holds(s, t, tags[s][t], builds')
    <3>0. PICK g : g = tags[s][t]
      OBVIOUS
    <3>1. Holds(s, t, g, builds)
      BY <1>1, <3>0 DEF TagsHold
    <3>2. ASSUME g.by # i PROVE Holds(s, t, g, builds')
      <4>1. g.by \in DOMAIN builds => builds'[g.by] = builds[g.by]
        BY <1>2, <3>2
      <4>2. DOMAIN builds' = DOMAIN builds
        BY <1>2
      <4> QED
        BY <3>1, <4>1, <4>2 DEF Holds, Unfinished
    <3>3. ASSUME g.by = i PROVE Holds(s, t, g, builds')
      <4>1. t # Latest => t # AtHead
        BY BuildRunAssumption DEF Latest, AtHead
      <4>2. /\ g # NoImage /\ t # Latest => r.sha = t
            /\ g # NoImage => r.service = s /\ (g.done \/ (t # Latest /\ Unfinished(r)))
        BY <3>1, <3>3, <4>1 DEF Holds, Steps
      <4>3. DOMAIN builds' = DOMAIN builds /\ builds'[i] = r
        BY <1>2
      <4> QED
        BY <3>1, <3>3, <4>2, <4>3 DEF Holds, Unfinished
    <3> QED
      BY <3>0, <3>2, <3>3
  <2> QED
    BY <2>1 DEF TagsHold, Holds, Unfinished
<1> QED
  BY <1>1, <1>3, <1>4, <1>5, <1>6 DEF TagsInv, TagsShaped

\* A step of the build i in progress that tags an image in the repository of its
\* service.
LEMMA TagSteps ==
  ASSUME TagsInv, head' = head,
         NEW i \in DOMAIN builds, NEW r, builds' = [builds EXCEPT ![i] = r],
         builds[i].status = "running", Steps(i, r), r.status = "running",
         NEW t \in Commit \cup {Latest}, NEW g, g # NoImage,
         tags' = [tags EXCEPT ![builds[i].service][t] = g],
         Holds(builds[i].service, t, g, builds'),
         Unfinished(builds[i]) => t = builds[i].sha /\ r.sha = t,
         Relies(r, tags')
  PROVE  TagsInv'
<1>1. RowsOK /\ OneRuns /\ RowsRely /\ TagsShaped /\ TagsHold
  BY DEF TagsInv
<1>2. /\ Len(builds') = Len(builds)
      /\ builds' = [j \in 1..Len(builds') |-> builds'[j]]
      /\ DOMAIN builds' = DOMAIN builds
      /\ builds'[i] = r
      /\ \A j \in DOMAIN builds \ {i} : builds'[j] = builds[j]
  BY <1>1, RowWritten
<1> DEFINE s == builds[i].service
<1>3. s \in Service
  BY <1>1 DEF RowsOK, IsRow
<1>4. /\ TagsShaped'
      /\ tags'[s][t] = g
      /\ \A d \in Service, x \in Commit \cup {Latest} :
           d # s \/ x # t => tags'[d][x] = tags[d][x]
      /\ \A d \in Service : d # s => tags'[d] = tags[d]
  BY <1>1, <1>3 DEF TagsShaped
<1>5. \A d \in Service, x \in Commit \cup {Latest} :
        tags[d][x] # NoImage => tags'[d][x] # NoImage
  BY <1>4
<1>6. RowsOK'
  <2>1. ASSUME NEW j \in DOMAIN builds PROVE IsRow(builds'[j])
    BY <1>1, <1>2 DEF RowsOK, Steps
  <2> QED
    BY <1>1, <1>2, <2>1 DEF RowsOK, IsRow
<1>7. OneRuns'
  BY <1>1, <1>2 DEF OneRuns, Steps
<1> HIDE DEF s
<1>8. RowsRely'
  <2>1. ASSUME NEW j \in DOMAIN builds, j # i PROVE Relies(builds[j], tags')
    <3>1. Relies(builds[j], tags) /\ IsRow(builds[j])
      BY <1>1 DEF RowsRely, RowsOK
    <3>2. CASE builds[j].status = "running"
      <4>1. builds[j].service \in Service /\ builds[j].service # s
        BY <1>1, <2>1, <3>1, <3>2 DEF OneRuns, IsRow, s
      <4>2. tags'[builds[j].service] = tags[builds[j].service]
        BY <1>4, <4>1
      <4>3. builds[j].pc # "start" => builds[j].sha \in Commit
        BY <3>1, <3>2 DEF IsRow
      <4> QED
        BY <1>5, <3>1, <3>2, <4>2, <4>3 DEF Relies
    <3>3. CASE builds[j].status # "running"
      <4>1. builds[j].status = "success" =>
              builds[j].sha \in Commit /\ builds[j].service \in Service
        BY <3>1 DEF IsRow
      <4> QED
        BY <1>5, <3>1, <3>3, <4>1 DEF Relies
    <3> QED
      BY <3>2, <3>3
  <2> QED
    BY <1>2, <2>1 DEF RowsRely, Relies, Def
<1>9. TagsHold'
  <2>1. ASSUME NEW d \in Service, NEW x \in Commit \cup {Latest}, d # s \/ x # t
        PROVE  Holds(d, x, tags[d][x], builds')
    <3>0. PICK h : h = tags[d][x]
      OBVIOUS
    <3>1. Holds(d, x, h, builds)
      BY <1>1, <3>0 DEF TagsHold
    <3>2. ASSUME h.by # i PROVE Holds(d, x, h, builds')
      <4>1. h.by \in DOMAIN builds => builds'[h.by] = builds[h.by]
        BY <1>2, <3>2
      <4>2. DOMAIN builds' = DOMAIN builds
        BY <1>2
      <4> QED
        BY <3>1, <4>1, <4>2 DEF Holds, Unfinished
    <3>3. ASSUME h.by = i PROVE Holds(d, x, h, builds')
      <4>1. x # Latest => x # AtHead
        BY BuildRunAssumption DEF Latest, AtHead
      <4>2. h # NoImage => d = s /\ (x # Latest => builds[i].sha = x /\ r.sha = x)
        BY <3>1, <3>3, <4>1 DEF Holds, Steps, s
      <4>3. h # NoImage => h.done
        BY <2>1, <3>1, <3>3, <4>2 DEF Holds
      <4>4. r.service = s
        BY DEF Steps, s
      <4>5. DOMAIN builds' = DOMAIN builds /\ builds'[i] = r
        BY <1>2
      <4> QED
        BY <3>1, <3>3, <4>2, <4>3, <4>4, <4>5 DEF Holds
    <3> QED
      BY <3>0, <3>2, <3>3
  <2>2. ASSUME NEW d \in Service, NEW x \in Commit \cup {Latest}
        PROVE  Holds(d, x, tags'[d][x], builds')
    <3>1. CASE d # s \/ x # t
      BY <1>4, <2>1, <3>1
    <3>2. CASE d = s /\ x = t
      BY <1>4, <3>2 DEF s
    <3> QED
      BY <3>1, <3>2
  <2> QED
    BY <2>2 DEF TagsHold, Holds, Unfinished
<1> QED
  BY <1>4, <1>6, <1>7, <1>8, <1>9 DEF TagsInv

\* The build i in progress goes on to a place behind its start.
LEMMA GoesTo ==
  ASSUME TagsInv, NEW i \in DOMAIN builds, NEW p, p # "start",
         builds[i].status = "running", builds[i].pc # "start"
  PROVE  \E r : /\ [builds EXCEPT ![i].pc = p] = [builds EXCEPT ![i] = r]
                /\ r = [builds[i] EXCEPT !.pc = p]
                /\ DOMAIN r = RowFields /\ r.pc = p
                /\ \A f \in RowFields \ {"pc"} : r[f] = builds[i][f]
                /\ Steps(i, r)
<1> DEFINE r == [builds[i] EXCEPT !.pc = p]
<1>1. IsRow(builds[i]) /\ OneRuns
  BY DEF TagsInv, RowsOK
<1>2. [builds EXCEPT ![i].pc = p] = [builds EXCEPT ![i] = r]
  OBVIOUS
<1>3. DOMAIN r = RowFields /\ r.pc = p
      /\ \A f \in RowFields \ {"pc"} : r[f] = builds[i][f]
  BY <1>1 DEF IsRow, RowFields
<1>4. r = [builds[i] EXCEPT !.pc = p]
  OBVIOUS
<1> HIDE DEF r
<1>5. r.service = builds[i].service /\ r.sha = builds[i].sha /\ r.status = "running"
  BY <1>3 DEF RowFields
<1>6. Steps(i, r)
  BY <1>1, <1>3, <1>5 DEF Steps, IsRow, OneRuns
<1> QED
  BY <1>2, <1>3, <1>4, <1>6

\* The build i ends without success.
LEMMA EndsOK ==
  ASSUME TagsInv, head' = head, tags' = tags, NEW i \in DOMAIN builds, NEW status,
         EndsAs(i, status), status \notin {"running", "success"},
         builds[i].status = "running",
         builds[i].pc = "mutate" => status = "failed"
  PROVE  TagsInv'
<1>1. IsRow(builds[i]) /\ head \in Commit
  BY DEF TagsInv, RowsOK
<1>2. PICK r : r = [builds[i] EXCEPT !.status = status, !.pc = "ended"]
  OBVIOUS
<1>3. builds' = [builds EXCEPT ![i] = r]
  BY <1>2 DEF EndsAs
<1>4. DOMAIN r = RowFields /\ r.service = builds[i].service /\ r.sha = builds[i].sha
      /\ r.status = status
  BY <1>1, <1>2 DEF IsRow, RowFields
<1>5. Steps(i, r) /\ Relies(r, tags)
  BY <1>1, <1>4 DEF Steps, IsRow, Relies
<1>6. Unfinished(builds[i]) => Unfinished(r)
  BY <1>4 DEF Unfinished
<1> QED
  BY <1>1, <1>3, <1>5, <1>6, RowSteps

\* The build i goes on and leaves the tags alone.
LEMMA GoesOn ==
  ASSUME TagsInv, head' = head, tags' = tags, NEW i \in DOMAIN builds, NEW p, p # "start",
         builds' = [builds EXCEPT ![i].pc = p],
         builds[i].status = "running", builds[i].pc \notin {"start", "mutate"},
         Relies([builds[i] EXCEPT !.pc = p], tags)
  PROVE  TagsInv'
<1>1. PICK r : /\ builds' = [builds EXCEPT ![i] = r]
               /\ r = [builds[i] EXCEPT !.pc = p]
               /\ Steps(i, r)
  BY GoesTo
<1>2. ~ Unfinished(builds[i])
  BY DEF Unfinished
<1>3. head' \in Commit
  BY DEF TagsInv
<1> QED
  BY <1>1, <1>2, <1>3, RowSteps

-----------------------------------------------------------------------------
LEMMA ClaimOK ==
  ASSUME TagsInv, NEW i \in DOMAIN builds, Claim(i)
  PROVE  TagsInv'
<1>1. IsRow(builds[i]) /\ head' \in Commit /\ tags' = tags /\ builds[i].status = "queued"
  BY DEF TagsInv, RowsOK, Claim, outside
<1>2. PICK r : r = [builds[i] EXCEPT !.status = "running", !.pc = "start",
                                     !.own = serviceOverride[builds[i].service]]
  OBVIOUS
<1>3. builds' = [builds EXCEPT ![i] = r]
  BY <1>2 DEF Claim
<1>4. DOMAIN r = RowFields /\ r.service = builds[i].service /\ r.sha = builds[i].sha
      /\ r.status = "running" /\ r.pc = "start"
  BY <1>1, <1>2 DEF IsRow, RowFields
<1>5. \A j \in DOMAIN builds : builds[j].service = builds[i].service => builds[j].status # "running"
  BY DEF Claim, Row
<1>6. Steps(i, r) /\ Relies(r, tags)
  BY <1>1, <1>4, <1>5 DEF Steps, IsRow, Relies
<1>7. ~ Unfinished(builds[i])
  BY <1>1 DEF Unfinished
<1> QED
  BY <1>1, <1>3, <1>6, <1>7, RowSteps

LEMMA ResolveHeadOK ==
  ASSUME TagsInv, NEW i \in DOMAIN builds, ResolveHead(i)
  PROVE  TagsInv'
<1>1. IsRow(builds[i]) /\ head \in Commit /\ head' = head /\ tags' = tags /\ OneRuns
      /\ builds[i].status = "running" /\ builds[i].pc = "start"
  BY DEF TagsInv, RowsOK, ResolveHead, At, outside, Rest
<1>2. PICK r : r = [builds[i] EXCEPT !.pc = "clone", !.sha = IF @ = AtHead THEN head ELSE @]
  OBVIOUS
<1>3. builds' = [builds EXCEPT ![i] = r]
  BY <1>2 DEF ResolveHead
<1>4. DOMAIN r = RowFields /\ r.service = builds[i].service
      /\ r.sha = (IF builds[i].sha = AtHead THEN head ELSE builds[i].sha)
      /\ r.status = "running" /\ r.pc = "clone"
  BY <1>1, <1>2 DEF IsRow, RowFields
<1>5. Steps(i, r) /\ Relies(r, tags)
  BY <1>1, <1>4 DEF Steps, IsRow, Relies, OneRuns
<1>6. ~ Unfinished(builds[i])
  BY <1>1 DEF Unfinished
<1> QED
  BY <1>1, <1>3, <1>5, <1>6, RowSteps

\* The places of a run between its start and its first image.
LEMMA EarlyOK ==
  ASSUME TagsInv, NEW i \in DOMAIN builds,
         CloneAtSha(i) \/ SelectPipeline(i)
  PROVE  TagsInv'
<1>1. IsRow(builds[i]) /\ head' = head /\ tags' = tags /\ builds[i].status = "running"
      /\ builds[i].pc \in {"clone", "parse"}
  BY DEF TagsInv, RowsOK, CloneAtSha, SelectPipeline, At, outside, Rest
<1>2. ASSUME NEW p \in {"yaml", "deps"} PROVE Relies([builds[i] EXCEPT !.pc = p], tags)
  <2>1. PICK r : r = [builds[i] EXCEPT !.pc = p]
    OBVIOUS
  <2>2. r.status = "running" /\ r.pc = p
    BY <1>1, <2>1 DEF IsRow, RowFields
  <2> QED
    BY <2>1, <2>2 DEF Relies
<1>3. ASSUME NEW p \in {"yaml", "deps"}, To(i, p) PROVE TagsInv'
  BY <1>1, <1>2, <1>3, GoesOn DEF To
<1>4. ASSUME Fails(i) PROVE TagsInv'
  <2>1. EndsAs(i, "failed")
    BY <1>4 DEF Fails
  <2> QED
    BY <1>1, <2>1, EndsOK
<1> QED
  BY <1>3, <1>4 DEF CloneAtSha, SelectPipeline

LEMMA ReadPipelineOK ==
  ASSUME TagsInv, NEW i \in DOMAIN builds, ReadPipeline(i)
  PROVE  TagsInv'
<1>1. IsRow(builds[i]) /\ head \in Commit /\ head' = head /\ tags' = tags /\ OneRuns
      /\ builds[i].status = "running" /\ builds[i].pc = "yaml"
  BY DEF TagsInv, RowsOK, ReadPipeline, At, outside, Rest
<1>2. CASE ChosenYaml(i) = NoText
  <2>1. EndsAs(i, "no_pipeline")
    BY <1>2 DEF ReadPipeline
  <2> QED
    BY <1>1, <2>1, EndsOK
<1>3. CASE ChosenYaml(i) # NoText
  <2>1. PICK r : r = [builds[i] EXCEPT !.yaml = ChosenYaml(i), !.pc = "parse"]
    OBVIOUS
  <2>2. builds' = [builds EXCEPT ![i] = r]
    BY <1>3, <2>1 DEF ReadPipeline
  <2>3. DOMAIN r = RowFields /\ r.service = builds[i].service /\ r.sha = builds[i].sha
        /\ r.status = "running" /\ r.pc = "parse"
    BY <1>1, <2>1 DEF IsRow, RowFields
  <2>4. Steps(i, r) /\ Relies(r, tags)
    BY <1>1, <2>3 DEF Steps, IsRow, Relies, OneRuns
  <2>5. ~ Unfinished(builds[i])
    BY <1>1 DEF Unfinished
  <2> QED
    BY <1>1, <2>2, <2>4, <2>5, RowSteps
<1> QED
  BY <1>2, <1>3

\* A build is blocked unless each image it is built on was tagged for its commit.
LEMMA ResolveDependenciesOK ==
  ASSUME TagsInv, NEW i \in DOMAIN builds, ResolveDependencies(i)
  PROVE  TagsInv'
<1>1. IsRow(builds[i]) /\ head' = head /\ tags' = tags
      /\ builds[i].status = "running" /\ builds[i].pc = "deps"
  BY DEF TagsInv, RowsOK, ResolveDependencies, At, outside, Rest
<1>2. CASE ~ Resolves(i)
  <2>1. EndsAs(i, "failed")
    BY <1>2 DEF ResolveDependencies, Fails
  <2> QED
    BY <1>1, <2>1, EndsOK
<1>3. CASE Resolves(i)
  <2>1. Pipeline(i) = Def(builds[i])
    BY DEF Pipeline, Def
  <2>2. ASSUME NEW d \in Def(builds[i]).uses
        PROVE  d \in Service /\ tags[d][builds[i].sha] # NoImage
    <3>1. PICK j \in DOMAIN builds :
            /\ builds[j].service = d /\ builds[j].status = "success"
            /\ builds[j].image /\ builds[j].sha = builds[i].sha
      BY <1>3, <2>1, <2>2 DEF Resolves, BuiltAt, WithImage, Succeeded, Row
    <3>2. IsRow(builds[j]) /\ Relies(builds[j], tags)
      BY DEF TagsInv, RowsOK, RowsRely
    <3> QED
      BY <3>1, <3>2 DEF IsRow, Relies
  <2>3. PICK p : p = IF Def(builds[i]).dockerfile THEN "docker" ELSE "container"
    OBVIOUS
  <2>4. builds' = [builds EXCEPT ![i].pc = p]
    BY <1>3, <2>1, <2>3 DEF ResolveDependencies, To
  <2>5. Relies([builds[i] EXCEPT !.pc = p], tags)
    <3>1. PICK r : r = [builds[i] EXCEPT !.pc = p]
      OBVIOUS
    <3>2. r.status = "running" /\ r.pc = p /\ r.yaml = builds[i].yaml
          /\ r.service = builds[i].service /\ r.sha = builds[i].sha
      BY <1>1, <3>1 DEF IsRow, RowFields
    <3>3. Def(r) = Def(builds[i])
      BY <3>2 DEF Def
    <3>4. p \in {"container", "capture"} => ~ Def(r).dockerfile
      BY <2>3, <3>3
    <3>5. p \in {"docker", "container"}
      BY <2>3
    <3> QED
      BY <2>2, <3>1, <3>2, <3>3, <3>4, <3>5 DEF Relies
  <2>6. p # "start"
    BY <2>3
  <2> QED
    BY <1>1, <2>4, <2>5, <2>6, GoesOn
<1> QED
  BY <1>2, <1>3

LEMMA RunBuildContainerOK ==
  ASSUME TagsInv, NEW i \in DOMAIN builds, RunBuildContainer(i)
  PROVE  TagsInv'
<1>1. IsRow(builds[i]) /\ Relies(builds[i], tags) /\ head' = head /\ tags' = tags
      /\ builds[i].status = "running" /\ builds[i].pc = "container"
  BY DEF TagsInv, RowsOK, RowsRely, RunBuildContainer, At, outside, Rest
<1>2. Relies([builds[i] EXCEPT !.pc = "capture"], tags)
  <2>1. PICK r : r = [builds[i] EXCEPT !.pc = "capture"]
    OBVIOUS
  <2>2. r.status = "running" /\ r.pc = "capture" /\ r.yaml = builds[i].yaml
        /\ r.service = builds[i].service /\ r.sha = builds[i].sha
    BY <1>1, <2>1 DEF IsRow, RowFields
  <2>3. Def(r) = Def(builds[i])
    BY <2>2 DEF Def
  <2> QED
    BY <1>1, <2>1, <2>2, <2>3 DEF Relies
<1> QED
  BY <1>1, <1>2, GoesOn DEF RunBuildContainer, To

LEMMA CaptureArtifactsOK ==
  ASSUME TagsInv, NEW i \in DOMAIN builds, CaptureArtifacts(i)
  PROVE  TagsInv'
<1>1. IsRow(builds[i]) /\ Relies(builds[i], tags) /\ head' = head /\ tags' = tags
      /\ builds[i].status = "running" /\ builds[i].pc = "capture"
  BY DEF TagsInv, RowsOK, RowsRely, CaptureArtifacts, At, outside
<1>2. Pipeline(i) = Def(builds[i])
  BY DEF Pipeline, Def
<1>3. PICK p : p = IF Def(builds[i]).runtime THEN "assemble" ELSE "finish"
  OBVIOUS
<1>4. builds' = [builds EXCEPT ![i].pc = p] /\ p # "start"
  BY <1>2, <1>3 DEF CaptureArtifacts, To
<1>5. Relies([builds[i] EXCEPT !.pc = p], tags)
  <2>1. PICK r : r = [builds[i] EXCEPT !.pc = p]
    OBVIOUS
  <2>2. r.status = "running" /\ r.pc = p /\ r.yaml = builds[i].yaml
        /\ r.service = builds[i].service /\ r.sha = builds[i].sha
    BY <1>1, <2>1 DEF IsRow, RowFields
  <2>3. Def(r) = Def(builds[i])
    BY <2>2 DEF Def
  <2>4. p = "finish" => ~ (Def(r).dockerfile \/ Def(r).runtime)
    BY <1>1, <1>3, <2>3 DEF Relies
  <2>5. p \in {"assemble", "finish"}
    BY <1>3
  <2> QED
    BY <1>1, <2>1, <2>2, <2>3, <2>4, <2>5 DEF Relies
<1> QED
  BY <1>1, <1>4, <1>5, GoesOn

\* docker build and crane append read the images of the commit of their build.
LEMMA ReadsBasesOK ==
  ASSUME TagsInv, NEW i \in DOMAIN builds, BuildViaDockerfile(i) \/ Assemble(i)
  PROVE  TagsInv'
<1>1. IsRow(builds[i]) /\ Relies(builds[i], tags) /\ OneRuns /\ head' \in Commit /\ tags' = tags
      /\ builds[i].status = "running" /\ builds[i].pc \in {"docker", "assemble"}
  BY DEF TagsInv, RowsOK, RowsRely, BuildViaDockerfile, Assemble, At, outside, Rest
<1>2. PICK r : r = [builds[i] EXCEPT !.pc = "push", !.on = ReadBases(i)]
  OBVIOUS
<1>3. builds' = [builds EXCEPT ![i] = r]
  BY <1>2 DEF BuildViaDockerfile, Assemble
<1>4. DOMAIN r = RowFields /\ r.service = builds[i].service /\ r.sha = builds[i].sha
      /\ r.status = "running" /\ r.pc = "push" /\ r.on = ReadBases(i)
  BY <1>1, <1>2 DEF IsRow, RowFields
<1>5. builds[i].sha \in Commit
  BY <1>1 DEF IsRow
<1>6. ASSUME NEW b \in ReadBases(i) PROVE b.sha = builds[i].sha
  <2>1. PICK d \in Def(builds[i]).uses : b.sha = tags[d][builds[i].sha].sha
    BY DEF ReadBases, Bases, ImageRef, Pipeline, Def
  <2>2. d \in Service /\ tags[d][builds[i].sha] # NoImage
    BY <1>1 DEF Relies
  <2>3. Holds(d, builds[i].sha, tags[d][builds[i].sha], builds)
    BY <1>5, <2>2 DEF TagsInv, TagsHold
  <2>4. builds[i].sha # Latest
    BY <1>5, BuildRunAssumption DEF Latest, AtHead
  <2> QED
    BY <2>1, <2>2, <2>3, <2>4 DEF Holds
<1>7. Steps(i, r) /\ Relies(r, tags)
  BY <1>1, <1>4, <1>5, <1>6 DEF Steps, IsRow, Relies, OneRuns
<1>8. ~ Unfinished(builds[i])
  BY <1>1 DEF Unfinished
<1> QED
  BY <1>1, <1>3, <1>7, <1>8, RowSteps

\* finishBuild
LEMMA FinishOK ==
  ASSUME TagsInv, NEW i \in DOMAIN builds, Finish(i)
  PROVE  TagsInv'
<1>1. IsRow(builds[i]) /\ Relies(builds[i], tags) /\ OneRuns /\ head' \in Commit /\ tags' = tags
      /\ builds[i].status = "running" /\ builds[i].pc = "finish"
  BY DEF TagsInv, RowsOK, RowsRely, Finish, At, outside, Rest
<1>2. PICK r : r = [builds[i] EXCEPT !.status = "success",
                      !.image = Pipeline(i).dockerfile \/ Pipeline(i).runtime, !.pc = "dispatch"]
  OBVIOUS
<1>3. builds' = [builds EXCEPT ![i] = r]
  BY <1>2 DEF Finish
<1>4. DOMAIN r = RowFields /\ r.service = builds[i].service /\ r.sha = builds[i].sha
      /\ r.status = "success"
  BY <1>1, <1>2 DEF IsRow, RowFields
<1>5. r.image => Def(builds[i]).dockerfile \/ Def(builds[i]).runtime
  BY <1>1, <1>2 DEF Def, Pipeline, IsRow, RowFields
<1>6. Steps(i, r) /\ Relies(r, tags)
  BY <1>1, <1>4, <1>5 DEF Steps, IsRow, Relies
<1>7. ~ Unfinished(builds[i])
  BY <1>1 DEF Unfinished
<1> QED
  BY <1>1, <1>3, <1>6, <1>7, RowSteps

LEMMA DispatchOK ==
  ASSUME TagsInv, NEW i \in DOMAIN builds, Dispatch(i)
  PROVE  TagsInv'
<1>1. IsRow(builds[i]) /\ Relies(builds[i], tags) /\ head' \in Commit /\ tags' = tags
      /\ builds[i].status = "success"
  BY DEF TagsInv, RowsOK, RowsRely, Dispatch, outside
<1>2. PICK r : r = [builds[i] EXCEPT !.pc = "ended"]
  OBVIOUS
<1>3. builds' = [builds EXCEPT ![i] = r]
  BY <1>2 DEF Dispatch, To
<1>4. DOMAIN r = RowFields /\ r.service = builds[i].service /\ r.sha = builds[i].sha
      /\ r.status = "success" /\ r.image = builds[i].image
  BY <1>1, <1>2 DEF IsRow, RowFields
<1>5. Steps(i, r) /\ Relies(r, tags)
  BY <1>1, <1>4 DEF Steps, IsRow, Relies
<1>6. ~ Unfinished(builds[i])
  BY <1>1 DEF Unfinished
<1> QED
  BY <1>1, <1>3, <1>5, <1>6, RowSteps

\* A worker that ends leaves a row behind, in progress or done.
LEMMA WorkerEndsOK ==
  ASSUME TagsInv, NEW i \in DOMAIN builds, WorkerEnds(i)
  PROVE  TagsInv'
<1>1. IsRow(builds[i]) /\ Relies(builds[i], tags) /\ head' \in Commit /\ tags' = tags
  BY DEF TagsInv, RowsOK, RowsRely, WorkerEnds, outside
<1>2. PICK r : r = [builds[i] EXCEPT !.status = IF @ = "running" THEN "failed" ELSE @,
                                         !.pc = "ended"]
  OBVIOUS
<1>3. builds' = [builds EXCEPT ![i] = r]
  BY <1>2 DEF WorkerEnds
<1>4. DOMAIN r = RowFields /\ r.service = builds[i].service /\ r.sha = builds[i].sha
      /\ r.status = (IF builds[i].status = "running" THEN "failed" ELSE builds[i].status)
      /\ r.image = builds[i].image
  BY <1>1, <1>2 DEF IsRow, RowFields
<1>5. Steps(i, r) /\ Relies(r, tags)
  BY <1>1, <1>4 DEF Steps, IsRow, Relies
<1>6. Unfinished(builds[i]) => Unfinished(r)
  BY <1>4 DEF Unfinished
<1> QED
  BY <1>1, <1>3, <1>5, <1>6, RowSteps

\* A failing crane tag is passed over, any other failure ends the build.
LEMMA StepFailsOK ==
  ASSUME TagsInv, NEW i \in DOMAIN builds, StepFails(i)
  PROVE  TagsInv'
<1>1. IsRow(builds[i]) /\ Relies(builds[i], tags) /\ head' = head /\ tags' = tags
      /\ builds[i].status = "running"
  BY DEF TagsInv, RowsOK, RowsRely, StepFails, outside
<1>2. CASE builds[i].pc # "latest"
  <2>1. EndsAs(i, "failed")
    BY <1>2 DEF StepFails, Fails
  <2> QED
    BY <1>1, <2>1, EndsOK
<1>3. CASE builds[i].pc = "latest"
  <2>1. Relies([builds[i] EXCEPT !.pc = "finish"], tags)
    <3>1. PICK r : r = [builds[i] EXCEPT !.pc = "finish"]
      OBVIOUS
    <3>2. r.status = "running" /\ r.pc = "finish"
          /\ r.service = builds[i].service /\ r.sha = builds[i].sha
      BY <1>1, <3>1 DEF IsRow, RowFields
    <3> QED
      BY <1>1, <1>3, <3>1, <3>2 DEF Relies
  <2>2. builds' = [builds EXCEPT ![i].pc = "finish"]
    BY <1>3 DEF StepFails, To
  <2> QED
    BY <1>1, <1>3, <2>1, <2>2, GoesOn
<1> QED
  BY <1>2, <1>3

-----------------------------------------------------------------------------
\* crane push: the image of a Dockerfile is finished, an assembled one is not.
LEMMA PushImageOK ==
  ASSUME TagsInv, NEW i \in DOMAIN builds, PushImage(i)
  PROVE  TagsInv'
<1>1. IsRow(builds[i]) /\ Relies(builds[i], tags) /\ head' = head /\ RowsOK /\ TagsShaped
      /\ builds[i].status = "running" /\ builds[i].pc = "push" /\ builds[i].sha \in Commit
  BY DEF TagsInv, RowsOK, RowsRely, PushImage, At, outside, Tagging, IsRow
<1>2. PICK p : p = IF Pipeline(i).dockerfile THEN "latest" ELSE "mutate"
  OBVIOUS
<1>3. PICK r : /\ [builds EXCEPT ![i].pc = p] = [builds EXCEPT ![i] = r]
               /\ DOMAIN r = RowFields /\ r.pc = p
               /\ \A f \in RowFields \ {"pc"} : r[f] = builds[i][f]
               /\ Steps(i, r)
  BY <1>1, <1>2, GoesTo
<1>4. r.status = "running" /\ r.service = builds[i].service /\ r.sha = builds[i].sha
  BY <1>1, <1>3 DEF RowFields
<1>5. PICK g : g = [sha |-> builds[i].sha, by |-> i, done |-> Pipeline(i).dockerfile,
                    on |-> builds[i].on]
  OBVIOUS
<1>6. DOMAIN g = {"sha", "by", "done", "on"} /\ g.sha = builds[i].sha /\ g.by = i
      /\ g.done = Pipeline(i).dockerfile /\ g.on = builds[i].on
  BY <1>5
<1>7. g # NoImage
  <2>1. i # 0
    BY <1>1 DEF RowsOK
  <2> QED
    BY <1>6, <2>1 DEF NoImage
<1>8. /\ builds' = [builds EXCEPT ![i] = r]
      /\ tags' = [tags EXCEPT ![builds[i].service][builds[i].sha] = g]
  BY <1>2, <1>3, <1>5 DEF PushImage, Tagging, To
<1>9. DOMAIN builds' = DOMAIN builds /\ builds'[i] = r
  BY <1>1, <1>8, RowWritten
<1>10. builds[i].sha # Latest
  BY <1>1, BuildRunAssumption DEF Latest, AtHead
<1>11. g.done \/ p = "mutate"
  BY <1>2, <1>6
<1>12. Holds(builds[i].service, builds[i].sha, g, builds')
  BY <1>1, <1>3, <1>4, <1>6, <1>9, <1>10, <1>11 DEF Holds, Unfinished, Relies
<1>13. tags'[r.service][r.sha] = g
  BY <1>1, <1>4, <1>8 DEF TagsShaped, IsRow
<1>14. p = "latest" => g.done
  BY <1>2, <1>6
<1>15. Relies(r, tags')
  BY <1>2, <1>3, <1>4, <1>7, <1>13, <1>14 DEF Relies
<1>16. ~ Unfinished(builds[i])
  BY <1>1 DEF Unfinished
<1> QED
  BY <1>1, <1>3, <1>4, <1>7, <1>8, <1>12, <1>15, <1>16, TagSteps

\* crane mutate finishes what the tag holds.
LEMMA MutateOK ==
  ASSUME TagsInv, NEW i \in DOMAIN builds, Mutate(i)
  PROVE  TagsInv'
<1>1. IsRow(builds[i]) /\ Relies(builds[i], tags) /\ head' = head /\ RowsOK /\ TagsShaped
      /\ builds[i].status = "running" /\ builds[i].pc = "mutate" /\ builds[i].sha \in Commit
  BY DEF TagsInv, RowsOK, RowsRely, Mutate, At, outside, Tagging, IsRow
<1>2. PICK r : /\ [builds EXCEPT ![i].pc = "latest"] = [builds EXCEPT ![i] = r]
               /\ DOMAIN r = RowFields /\ r.pc = "latest"
               /\ \A f \in RowFields \ {"pc"} : r[f] = builds[i][f]
               /\ Steps(i, r)
  BY <1>1, GoesTo
<1>3. r.status = "running" /\ r.service = builds[i].service /\ r.sha = builds[i].sha
  BY <1>1, <1>2 DEF RowFields
<1>4. PICK h : h = tags[builds[i].service][builds[i].sha]
  OBVIOUS
<1>5. Holds(builds[i].service, builds[i].sha, h, builds) /\ h # NoImage
  BY <1>1, <1>4 DEF TagsInv, TagsHold, IsRow, Relies
<1>6. PICK g : g = [h EXCEPT !.done = TRUE]
  OBVIOUS
<1>7. DOMAIN g = {"sha", "by", "done", "on"} /\ g.sha = h.sha /\ g.by = h.by
      /\ g.done /\ g.on = h.on
  BY <1>5, <1>6 DEF Holds
<1>8. /\ builds' = [builds EXCEPT ![i] = r]
      /\ tags' = [tags EXCEPT ![builds[i].service][builds[i].sha] = g]
  BY <1>2, <1>4, <1>6 DEF Mutate, Tagging, To
<1>9. /\ DOMAIN builds' = DOMAIN builds /\ builds'[i] = r
      /\ \A j \in DOMAIN builds \ {i} : builds'[j] = builds[j]
  BY <1>1, <1>8, RowWritten
<1>10. g # NoImage
  <2>1. h.by # 0
    BY <1>1, <1>5 DEF Holds, RowsOK
  <2> QED
    BY <1>7, <2>1 DEF NoImage
<1>11. Holds(builds[i].service, builds[i].sha, g, builds')
  <2>1. /\ builds'[h.by].service = builds[h.by].service
        /\ builds'[h.by].sha = builds[h.by].sha
    BY <1>3, <1>5, <1>9 DEF Holds
  <2> QED
    BY <1>5, <1>7, <1>9, <1>10, <2>1 DEF Holds
<1>12. tags'[r.service][r.sha] = g
  BY <1>1, <1>3, <1>8 DEF TagsShaped, IsRow
<1>13. Relies(r, tags')
  BY <1>2, <1>3, <1>7, <1>10, <1>12 DEF Relies
<1> QED
  BY <1>1, <1>2, <1>3, <1>8, <1>10, <1>11, <1>13, TagSteps

\* crane tag takes what the tag of the commit holds, and that is finished.
LEMMA TagLatestOK ==
  ASSUME TagsInv, NEW i \in DOMAIN builds, TagLatest(i)
  PROVE  TagsInv'
<1>1. IsRow(builds[i]) /\ Relies(builds[i], tags) /\ head' = head /\ RowsOK /\ TagsShaped
      /\ builds[i].status = "running" /\ builds[i].pc = "latest" /\ builds[i].sha \in Commit
  BY DEF TagsInv, RowsOK, RowsRely, TagLatest, At, outside, Tagging, IsRow
<1>2. PICK r : /\ [builds EXCEPT ![i].pc = "finish"] = [builds EXCEPT ![i] = r]
               /\ DOMAIN r = RowFields /\ r.pc = "finish"
               /\ \A f \in RowFields \ {"pc"} : r[f] = builds[i][f]
               /\ Steps(i, r)
  BY <1>1, GoesTo
<1>3. r.status = "running" /\ r.service = builds[i].service /\ r.sha = builds[i].sha
  BY <1>1, <1>2 DEF RowFields
<1>4. PICK g : g = tags[builds[i].service][builds[i].sha]
  OBVIOUS
<1>5. Holds(builds[i].service, builds[i].sha, g, builds) /\ g # NoImage /\ g.done
  BY <1>1, <1>4 DEF TagsInv, TagsHold, IsRow, Relies
<1>6. /\ builds' = [builds EXCEPT ![i] = r]
      /\ tags' = [tags EXCEPT ![builds[i].service][Latest] = g]
  BY <1>2, <1>4 DEF TagLatest, Tagging, To
<1>7. /\ DOMAIN builds' = DOMAIN builds /\ builds'[i] = r
      /\ \A j \in DOMAIN builds \ {i} : builds'[j] = builds[j]
  BY <1>1, <1>6, RowWritten
<1>8. Holds(builds[i].service, Latest, g, builds')
  <2>1. builds'[g.by].service = builds[g.by].service
    BY <1>3, <1>5, <1>7 DEF Holds
  <2> QED
    BY <1>5, <1>7, <2>1 DEF Holds
<1>9. builds[i].sha # Latest
  BY <1>1, BuildRunAssumption DEF Latest, AtHead
<1>10. tags'[r.service][r.sha] = g
  BY <1>1, <1>3, <1>4, <1>6, <1>9 DEF TagsShaped, IsRow
<1>11. Relies(r, tags')
  BY <1>2, <1>3, <1>5, <1>10 DEF Relies
<1>12. ~ Unfinished(builds[i])
  BY <1>1 DEF Unfinished
<1>13. Latest \in Commit \cup {Latest}
  OBVIOUS
<1> QED
  BY <1>1, <1>2, <1>3, <1>5, <1>6, <1>8, <1>11, <1>12, <1>13, TagSteps

-----------------------------------------------------------------------------
\* A build is queued: of a commit, or of the head.
LEMMA NewBuildOK ==
  ASSUME TagsInv, head' = head, tags' = tags,
         NEW s \in Service, NEW sha \in Commit \cup {AtHead}, NEW text,
         builds' = Append(builds, NewBuild(s, sha, text))
  PROVE  TagsInv'
<1>1. RowsOK /\ head' \in Commit
  BY DEF TagsInv
<1>2. PICK r : r = NewBuild(s, sha, text)
  OBVIOUS
<1>3. IsRow(r) /\ r.status = "queued"
  BY <1>2 DEF NewBuild, IsRow, RowFields
<1>4. /\ Len(builds') \in Nat
      /\ builds' = [i \in 1..Len(builds') |-> builds'[i]]
      /\ DOMAIN builds' = DOMAIN builds \cup {Len(builds) + 1}
      /\ \A i \in DOMAIN builds : builds'[i] = builds[i]
      /\ builds'[Len(builds) + 1] = r
  BY <1>1, <1>2, NewRow
<1>5. \A i \in DOMAIN builds :
        /\ DOMAIN builds'[i] = RowFields
        /\ \A f \in RowFields \ {"expects"} : builds'[i][f] = builds[i][f]
  BY <1>1, <1>4 DEF RowsOK, IsRow
<1>6. \A i \in DOMAIN builds' \ DOMAIN builds : IsRow(builds'[i]) /\ builds'[i].status = "queued"
  BY <1>3, <1>4
<1>7. DOMAIN builds \subseteq DOMAIN builds'
  BY <1>4
<1> QED
  BY <1>1, <1>4, <1>5, <1>6, <1>7, RowsGrow

\* The rows after a write of an override: what they are but for what they expect.
LEMMA Forgotten ==
  ASSUME RowsOK, builds' = Forget(builds)
  PROVE  /\ Len(builds') \in Nat
         /\ builds' = [i \in 1..Len(builds') |-> builds'[i]]
         /\ DOMAIN builds' = DOMAIN builds
         /\ \A i \in DOMAIN builds :
              /\ DOMAIN builds'[i] = RowFields
              /\ \A f \in RowFields \ {"expects"} : builds'[i][f] = builds[i][f]
              /\ builds[i].yaml # NoText => builds'[i] = builds[i]
              /\ builds[i].yaml = NoText => builds'[i].expects = NoText
<1> DEFINE S == {builds'[i] : i \in 1..Len(builds)}
<1>1. Len(builds) \in Nat /\ DOMAIN builds = 1..Len(builds)
  BY DEF RowsOK
<1>2. /\ DOMAIN builds' = 1..Len(builds)
      /\ builds' = [i \in 1..Len(builds) |-> builds'[i]]
      /\ \A i \in DOMAIN builds :
           builds'[i] = IF builds[i].yaml = NoText THEN [builds[i] EXCEPT !.expects = NoText]
                        ELSE builds[i]
  BY <1>1 DEF Forget
<1>3. builds' \in [1..Len(builds) -> S]
  BY <1>2
<1> HIDE DEF S
<1>4. builds' \in Seq(S)
  <2>1. Seq(S) = UNION {[1..n -> S] : n \in Nat}
    BY SeqDef
  <2>2. [1..Len(builds) -> S] \in {[1..n -> S] : n \in Nat}
    BY <1>1
  <2> QED
    BY <1>3, <2>1, <2>2
<1>5. Len(builds') = Len(builds)
  <2>1. Len(builds') \in Nat /\ DOMAIN builds' = 1..Len(builds')
    BY <1>4, LenProperties
  <2> QED
    BY <1>1, <1>2, <2>1
<1>6. ASSUME NEW i \in DOMAIN builds
      PROVE  /\ DOMAIN builds'[i] = RowFields
             /\ \A f \in RowFields \ {"expects"} : builds'[i][f] = builds[i][f]
             /\ builds[i].yaml # NoText => builds'[i] = builds[i]
             /\ builds[i].yaml = NoText => builds'[i].expects = NoText
  <2>1. DOMAIN builds[i] = RowFields
    BY DEF RowsOK, IsRow
  <2> QED
    BY <1>2, <2>1 DEF RowFields
<1> QED
  BY <1>1, <1>2, <1>5, <1>6

\* What the page does to the rows: nothing, a new one, or it takes a promise.
LEMMA EditorOnRows ==
  ASSUME NEW e \in Editor, EditorSteps(e)
  PROVE  \/ builds' = builds
         \/ builds' = Forget(builds)
         \/ \E s \in Service : \E text : builds' = Append(builds, NewBuild(s, AtHead, text))
<1>1. ASSUME NEW s \in Service, Mount(e, s) \/ QueueBuild(e, s)
      PROVE  \/ builds' = builds
             \/ \E text : builds' = Append(builds, NewBuild(s, AtHead, text))
  BY <1>1 DEF Mount, QueueBuild
<1>2. ASSUME NEW t, TypeRaw(e, t) \/ SelectTab(e, t) \/ SetScope(e, t) PROVE builds' = builds
  BY <1>2 DEF TypeRaw, SelectTab, SetScope, Editing
<1>3. ASSUME NEW n, NEW d, RemoveService(e, n) \/ SetImageMode(e, n, d) PROVE builds' = builds
  BY <1>3 DEF RemoveService, SetImageMode, Editing
<1>4. ASSUME AddMulti(e) \/ Answer(e) PROVE builds' = builds
  BY <1>4 DEF AddMulti, Answer, Editing
<1>5. ASSUME NEW then, Save(e, then) \/ Clear(e)
      PROVE  builds' = builds \/ builds' = Forget(builds)
  BY <1>5 DEF Save, Clear
<1> QED
  BY <1>1, <1>2, <1>3, <1>4, <1>5 DEF EditorSteps

LEMMA EditorOK ==
  ASSUME TagsInv, NEW e \in Editor, EditorSteps(e), head' = head, tags' = tags
  PROVE  TagsInv'
<1>1. RowsOK /\ head' \in Commit
  BY DEF TagsInv
<1>2. CASE builds' = builds
  BY <1>2 DEF TagsInv, RowsOK, IsRow, OneRuns, RowsRely, Relies, Def, TagsShaped, TagsHold, Holds,
     Unfinished
<1>3. CASE builds' = Forget(builds)
  BY <1>1, <1>3, Forgotten, RowsGrow
<1>4. ASSUME NEW s \in Service, NEW text, builds' = Append(builds, NewBuild(s, AtHead, text))
      PROVE  TagsInv'
  BY <1>4, NewBuildOK
<1> QED
  BY <1>2, <1>3, <1>4, EditorOnRows

\* No other operation touches a row or a tag.
LEMMA OthersOK ==
  ASSUME TagsInv, builds' = builds, tags' = tags, head' \in Commit
  PROVE  TagsInv'
BY DEF TagsInv, RowsOK, IsRow, OneRuns, RowsRely, Relies, Def, TagsShaped, TagsHold, Holds,
   Unfinished

LEMMA TagsInvInit == BuildsInit => TagsInv
<1> SUFFICES ASSUME BuildsInit PROVE TagsInv
  OBVIOUS
<1>1. builds = <<>> /\ head \in Commit
  BY DEF BuildsInit, EditorInit
<1>2. Len(builds) = 0 /\ DOMAIN builds = {}
  BY <1>1
<1>3. RowsOK
  BY <1>1, <1>2 DEF RowsOK
<1>4. OneRuns /\ RowsRely
  BY <1>2 DEF OneRuns, RowsRely
<1>5. tags = [s \in Service |-> [t \in Commit \cup {Latest} |-> NoImage]]
  BY DEF BuildsInit
<1>6. DOMAIN NoImage = {"sha", "by", "done", "on"} /\ NoImage.on = {}
  BY DEF NoImage
<1>7. TagsShaped /\ TagsHold
  BY <1>5, <1>6 DEF TagsShaped, TagsHold, Holds
<1> QED
  BY <1>1, <1>3, <1>4, <1>7 DEF TagsInv

LEMMA TagsInvNext ==
  ASSUME TagsInv, [BuildsNext]_buildsVars
  PROVE  TagsInv'
<1>1. head \in Commit
  BY DEF TagsInv
<1>2. CASE EditorNext /\ UNCHANGED <<head, tags, dirs, artifacts, sent, deployed, failures>>
  BY <1>2, EditorOK DEF EditorNext
<1>3. ASSUME NEW c \in Commit, Push(c) PROVE TagsInv'
  BY <1>3, OthersOK DEF Push, editorVars
<1>4. ASSUME NEW s \in Service, NEW sha \in {c \in Commit : c <= head} \cup {AtHead}, Queue(s, sha)
      PROVE  TagsInv'
  <2>1. sha \in Commit \cup {AtHead} /\ head' = head /\ tags' = tags
        /\ builds' = Append(builds, NewBuild(s, sha, NoText))
    BY <1>4 DEF Queue, outside
  <2> QED
    BY <2>1, NewBuildOK
<1>5. ASSUME NEW i \in DOMAIN builds, Run(i) PROVE TagsInv'
  BY <1>5, ClaimOK, ResolveHeadOK, EarlyOK, ReadPipelineOK, ResolveDependenciesOK, ReadsBasesOK,
     RunBuildContainerOK, CaptureArtifactsOK, PushImageOK, MutateOK, TagLatestOK, FinishOK,
     DispatchOK
     DEF Run
<1>6. ASSUME NEW i \in DOMAIN builds, StepFails(i) \/ WorkerEnds(i) PROVE TagsInv'
  BY <1>6, StepFailsOK, WorkerEndsOK
<1>7. ASSUME NEW i \in DOMAIN builds, Deploy(i) PROVE TagsInv'
  BY <1>1, <1>7, OthersOK DEF Deploy, outside
<1>8. CASE Connect
  BY <1>1, <1>8, OthersOK DEF Connect, outside
<1>9. ASSUME NEW m, Report(m) PROVE TagsInv'
  BY <1>1, <1>9, OthersOK DEF Report, outside
<1>10. CASE UNCHANGED buildsVars
  BY <1>1, <1>10, OthersOK DEF buildsVars, editorVars
<1> QED
  BY <1>2, <1>3, <1>4, <1>5, <1>6, <1>7, <1>8, <1>9, <1>10 DEF BuildsNext

LEMMA TagsInvServes ==
  ASSUME TagsInv PROVE TagsServe
<1>1. ASSUME NEW s \in Service, NEW i \in WithImage(s)
      PROVE  /\ tags[s][builds[i].sha].sha = builds[i].sha
             /\ \/ tags[s][builds[i].sha].done
                \/ builds[tags[s][builds[i].sha].by].status # "success"
  <2>1. i \in DOMAIN builds /\ builds[i].service = s /\ builds[i].status = "success"
        /\ builds[i].image
    BY <1>1 DEF WithImage, Succeeded, Row
  <2>2. tags[s][builds[i].sha] # NoImage /\ builds[i].sha \in Commit
    BY <2>1 DEF TagsInv, RowsOK, IsRow, RowsRely, Relies
  <2>3. Holds(s, builds[i].sha, tags[s][builds[i].sha], builds)
    BY <2>2 DEF TagsInv, TagsHold
  <2>4. builds[i].sha # Latest
    BY <2>2, BuildRunAssumption DEF Latest, AtHead
  <2> QED
    BY <2>2, <2>3, <2>4 DEF Holds, Unfinished
<1>2. ASSUME NEW s \in Service, NEW t \in Commit \cup {Latest}
      PROVE  /\ \A b \in tags[s][t].on : b.sha = tags[s][t].sha
             /\ t = Latest /\ tags[s][t] # NoImage => tags[s][t].done
  BY DEF TagsInv, TagsHold, Holds
<1>3. Latest \in Commit \cup {Latest}
  OBVIOUS
<1> QED
  BY <1>1, <1>2, <1>3 DEF TagsServe

\* The tag a successful build names holds an image of its commit, finished unless
\* a rebuild of the commit is between push and mutate or failed there; latest only
\* holds finished images; and an image is built on images of its own commit, with
\* any number of services, commits, builds and failures, and whatever the panel
\* writes to the pipelines.
THEOREM TagsAlwaysServe == BuildsSpec => []TagsServe
<1>1. BuildsInit => TagsInv
  BY TagsInvInit
<1>2. TagsInv /\ [BuildsNext]_buildsVars => TagsInv'
  BY TagsInvNext
<1>3. TagsInv => TagsServe
  BY TagsInvServes
<1> QED
  BY <1>1, <1>2, <1>3, PTL DEF BuildsSpec

-----------------------------------------------------------------------------
(* DeploysWhatWasSaved                                                     *)

EditorFields == {"on", "text", "doc", "tab", "scope", "had", "pc", "todo", "sure"}

\* The text counts for the service: its own override, or the repository's.
Counts(s, text) ==
  \/ serviceOverride[s] = text
  \/ serviceOverride[s] = NoText /\ repoOverride = text

\* A page whose save nobody has written over has its text where it put it, and it
\* counts for the services it has still to queue.
SavedBy(ed) ==
  /\ DOMAIN ed = EditorFields
  /\ ed.on # None => ed.on \in Service
  /\ ed.pc \in {"saved", "deploy"} /\ ed.sure =>
       /\ ed.text # NoText
       /\ ed.on \in Service
       /\ ed.scope = "service" => serviceOverride[ed.on] = ed.text
       /\ ed.scope # "service" => repoOverride = ed.text
  /\ ed.pc = "queue" /\ ed.sure =>
       /\ ed.text # NoText
       /\ \A s \in ed.todo \cap Service : Counts(s, ed.text)

EditorsOK == DOMAIN editor = Editor /\ \A e \in Editor : SavedBy(editor[e])

\* A build before it reads its pipeline.
Reading(r) == r.status = "running" /\ r.pc \in {"start", "clone", "yaml"}

\* A build finds the text it was promised: among the overrides until its claim,
\* then in its row or as the repository's until it has read its pipeline.
Expects(r) ==
  /\ r.status = "queued" \/ Reading(r) => r.yaml = NoText
  /\ r.expects # NoText =>
       /\ r.yaml # NoText => r.yaml = r.expects
       /\ r.status = "queued" => Counts(r.service, r.expects)
       /\ Reading(r) => r.own = r.expects \/ (r.own = NoText /\ repoOverride = r.expects)

RowsExpect == \A i \in DOMAIN builds : Expects(builds[i])

SavedInv ==
  /\ TagsInv
  /\ DOMAIN serviceOverride = Service
  /\ EditorsOK /\ RowsExpect

-----------------------------------------------------------------------------
\* A row is written, and the text it reads or expects is the one it was promised.
LEMMA RowExpects ==
  ASSUME SavedInv, UNCHANGED <<overrides, editor>>, TagsInv',
         NEW i \in DOMAIN builds, NEW r, builds' = [builds EXCEPT ![i] = r], Expects(r)
  PROVE  SavedInv'
<1>1. RowsOK /\ RowsExpect /\ EditorsOK
  BY DEF SavedInv, TagsInv
<1>2. /\ DOMAIN builds' = DOMAIN builds
      /\ builds'[i] = r
      /\ \A j \in DOMAIN builds \ {i} : builds'[j] = builds[j]
  BY <1>1, RowWritten
<1>3. RowsExpect'
  <2>1. ASSUME NEW j \in DOMAIN builds PROVE Expects(builds'[j])
    BY <1>1, <1>2 DEF RowsExpect
  <2> QED
    BY <1>2, <2>1 DEF RowsExpect, Expects, Reading, Counts, overrides
<1> QED
  BY <1>3 DEF SavedInv, EditorsOK, SavedBy, Counts, overrides

\* The rows stay, and the overrides and editors too.
LEMMA NothingSaved ==
  ASSUME SavedInv, UNCHANGED <<overrides, editor>>, TagsInv', builds' = builds
  PROVE  SavedInv'
BY DEF SavedInv, RowsExpect, Expects, Reading, EditorsOK, SavedBy, Counts, overrides

\* A step of a run that does not read the pipeline keeps the text of the build and
\* what it expects.
LEMMA TextKept ==
  ASSUME SavedInv, UNCHANGED <<overrides, editor>>, TagsInv',
         NEW i \in DOMAIN builds, NEW r, builds' = [builds EXCEPT ![i] = r],
         r.yaml = builds[i].yaml, r.own = builds[i].own, r.expects = builds[i].expects,
         r.status = "queued" => builds[i].status = "queued" /\ r.service = builds[i].service,
         Reading(r) => Reading(builds[i])
  PROVE  SavedInv'
<1>1. Expects(builds[i])
  BY DEF SavedInv, RowsExpect
<1>2. Expects(r)
  BY <1>1 DEF Expects
<1> QED
  BY <1>2, RowExpects

LEMMA ClaimExpects ==
  ASSUME SavedInv, UNCHANGED <<overrides, editor>>, TagsInv', NEW i \in DOMAIN builds, Claim(i)
  PROVE  SavedInv'
<1>1. IsRow(builds[i]) /\ Expects(builds[i])
  BY DEF SavedInv, TagsInv, RowsOK, RowsExpect
<1>2. PICK r : r = [builds[i] EXCEPT !.status = "running", !.pc = "start",
                                     !.own = serviceOverride[builds[i].service]]
  OBVIOUS
<1>3. builds' = [builds EXCEPT ![i] = r] /\ builds[i].status = "queued"
  BY <1>2 DEF Claim
<1>4. r.status = "running" /\ r.yaml = builds[i].yaml /\ r.expects = builds[i].expects
      /\ r.own = serviceOverride[builds[i].service]
  BY <1>1, <1>2 DEF IsRow, RowFields
<1>5. Expects(r)
  BY <1>1, <1>3, <1>4 DEF Expects, Counts
<1> QED
  BY <1>3, <1>5, RowExpects

LEMMA ReadPipelineExpects ==
  ASSUME SavedInv, UNCHANGED <<overrides, editor>>, TagsInv', NEW i \in DOMAIN builds,
         ReadPipeline(i), ChosenYaml(i) # NoText
  PROVE  SavedInv'
<1>1. IsRow(builds[i]) /\ Expects(builds[i])
  BY DEF SavedInv, TagsInv, RowsOK, RowsExpect
<1>2. PICK r : r = [builds[i] EXCEPT !.yaml = ChosenYaml(i), !.pc = "parse"]
  OBVIOUS
<1>3. builds' = [builds EXCEPT ![i] = r] /\ builds[i].status = "running" /\ builds[i].pc = "yaml"
  BY <1>2 DEF ReadPipeline, At
<1>4. r.yaml = ChosenYaml(i) /\ r.expects = builds[i].expects
      /\ r.status = "running" /\ r.pc = "parse"
  BY <1>1, <1>2, <1>3 DEF IsRow, RowFields
<1>5. builds[i].expects # NoText => ChosenYaml(i) = builds[i].expects
  BY <1>1, <1>3 DEF Expects, Reading, ChosenYaml
<1>6. Expects(r)
  BY <1>4, <1>5 DEF Expects, Reading
<1> QED
  BY <1>3, <1>6, RowExpects

LEMMA RunExpects ==
  ASSUME SavedInv, TagsInv', NEW i \in DOMAIN builds,
         Run(i) \/ StepFails(i) \/ WorkerEnds(i)
  PROVE  SavedInv'
<1>1. UNCHANGED <<overrides, editor>>
  <2>1. UNCHANGED outside
    BY DEF Run, StepFails, WorkerEnds, Claim, ResolveHead, CloneAtSha, ReadPipeline, SelectPipeline,
       ResolveDependencies, BuildViaDockerfile, RunBuildContainer, CaptureArtifacts, Assemble,
       PushImage, Mutate, TagLatest, Tagging, Finish, Dispatch
  <2> QED
    BY <2>1 DEF outside, overrides
<1>2. IsRow(builds[i])
  BY DEF SavedInv, TagsInv, RowsOK
<1>3. ASSUME NEW p, builds' = [builds EXCEPT ![i].pc = p], builds[i].status # "queued",
             p \in {"start", "clone", "yaml"} => builds[i].pc \in {"start", "clone", "yaml"}
      PROVE  SavedInv'
  <2>1. PICK r : r = [builds[i] EXCEPT !.pc = p]
    OBVIOUS
  <2>2. builds' = [builds EXCEPT ![i] = r]
    BY <1>3, <2>1
  <2>3. r.yaml = builds[i].yaml /\ r.own = builds[i].own /\ r.expects = builds[i].expects
        /\ r.status = builds[i].status /\ r.pc = p
    BY <1>2, <2>1 DEF IsRow, RowFields
  <2>4. Reading(r) => Reading(builds[i])
    BY <1>3, <2>3 DEF Reading
  <2> QED
    BY <1>1, <1>3, <2>2, <2>3, <2>4, TextKept
<1>4. ASSUME NEW status, EndsAs(i, status), status \notin {"queued", "running"}
      PROVE  SavedInv'
  <2>1. PICK r : r = [builds[i] EXCEPT !.status = status, !.pc = "ended"]
    OBVIOUS
  <2>2. builds' = [builds EXCEPT ![i] = r]
    BY <1>4, <2>1 DEF EndsAs
  <2>3. r.yaml = builds[i].yaml /\ r.own = builds[i].own /\ r.expects = builds[i].expects
        /\ r.status = status
    BY <1>2, <2>1 DEF IsRow, RowFields
  <2>4. ~ Reading(r) /\ r.status # "queued"
    BY <1>4, <2>3 DEF Reading
  <2> QED
    BY <1>1, <2>2, <2>3, <2>4, TextKept
<1>5. ASSUME Claim(i) PROVE SavedInv'
  BY <1>1, <1>5, ClaimExpects
<1>6. ASSUME ResolveHead(i) PROVE SavedInv'
  <2>1. PICK r : r = [builds[i] EXCEPT !.pc = "clone", !.sha = IF @ = AtHead THEN head ELSE @]
    OBVIOUS
  <2>2. builds' = [builds EXCEPT ![i] = r] /\ builds[i].status = "running" /\ builds[i].pc = "start"
    BY <1>6, <2>1 DEF ResolveHead, At
  <2>3. r.yaml = builds[i].yaml /\ r.own = builds[i].own /\ r.expects = builds[i].expects
        /\ r.status = "running"
    BY <1>2, <2>1, <2>2 DEF IsRow, RowFields
  <2>4. Reading(builds[i])
    BY <2>2 DEF Reading
  <2> QED
    BY <1>1, <2>2, <2>3, <2>4, TextKept
<1>7. ASSUME ReadPipeline(i) PROVE SavedInv'
  <2>1. CASE ChosenYaml(i) # NoText
    BY <1>1, <1>7, <2>1, ReadPipelineExpects
  <2>2. CASE ChosenYaml(i) = NoText
    <3>1. EndsAs(i, "no_pipeline")
      BY <1>7, <2>2 DEF ReadPipeline
    <3> QED
      BY <1>4, <3>1
  <2> QED
    BY <2>1, <2>2
<1>8. ASSUME Fails(i) PROVE SavedInv'
  BY <1>4, <1>8 DEF Fails
<1>9. ASSUME CloneAtSha(i) PROVE SavedInv'
  BY <1>3, <1>9 DEF CloneAtSha, At, To
<1>10. ASSUME NEW p, To(i, p), p \notin {"start", "clone", "yaml"}, builds[i].status # "queued"
       PROVE  SavedInv'
  BY <1>3, <1>10 DEF To
<1>11. ASSUME SelectPipeline(i) \/ ResolveDependencies(i) \/ RunBuildContainer(i)
               \/ CaptureArtifacts(i) \/ PushImage(i) \/ Mutate(i) \/ TagLatest(i) \/ Dispatch(i)
               \/ StepFails(i)
       PROVE  SavedInv'
  <2>1. \/ Fails(i)
        \/ /\ builds[i].status # "queued"
           /\ \E p \in {"deps", "docker", "container", "capture", "assemble", "finish", "mutate",
                        "latest", "ended"} : To(i, p)
    BY <1>11 DEF SelectPipeline, ResolveDependencies, RunBuildContainer, CaptureArtifacts,
       PushImage, Mutate, TagLatest, Dispatch, StepFails, At
  <2> QED
    BY <1>8, <1>10, <2>1
<1>12. ASSUME BuildViaDockerfile(i) \/ Assemble(i) PROVE SavedInv'
  <2>1. PICK r : r = [builds[i] EXCEPT !.pc = "push", !.on = ReadBases(i)]
    OBVIOUS
  <2>2. builds' = [builds EXCEPT ![i] = r] /\ builds[i].status = "running"
    BY <1>12, <2>1 DEF BuildViaDockerfile, Assemble, At
  <2>3. r.yaml = builds[i].yaml /\ r.own = builds[i].own /\ r.expects = builds[i].expects
        /\ r.status = "running" /\ r.pc = "push"
    BY <1>2, <2>1, <2>2 DEF IsRow, RowFields
  <2>4. ~ Reading(r)
    BY <2>3 DEF Reading
  <2> QED
    BY <1>1, <2>2, <2>3, <2>4, TextKept
<1>13. ASSUME Finish(i) PROVE SavedInv'
  <2>1. PICK r : r = [builds[i] EXCEPT !.status = "success",
                        !.image = Pipeline(i).dockerfile \/ Pipeline(i).runtime, !.pc = "dispatch"]
    OBVIOUS
  <2>2. builds' = [builds EXCEPT ![i] = r]
    BY <1>13, <2>1 DEF Finish
  <2>3. r.yaml = builds[i].yaml /\ r.own = builds[i].own /\ r.expects = builds[i].expects
        /\ r.status = "success"
    BY <1>2, <2>1, <2>2 DEF IsRow, RowFields
  <2>4. ~ Reading(r)
    BY <2>3 DEF Reading
  <2> QED
    BY <1>1, <2>2, <2>3, <2>4, TextKept
<1>14. ASSUME WorkerEnds(i) PROVE SavedInv'
  <2>1. PICK r : r = [builds[i] EXCEPT !.status = IF @ = "running" THEN "failed" ELSE @,
                                         !.pc = "ended"]
    OBVIOUS
  <2>2. builds' = [builds EXCEPT ![i] = r] /\ builds[i].pc # "queued"
    BY <1>14, <2>1 DEF WorkerEnds
  <2>3. r.yaml = builds[i].yaml /\ r.own = builds[i].own /\ r.expects = builds[i].expects
        /\ r.status # "running" /\ r.status \in {"failed", builds[i].status}
        /\ r.service = builds[i].service
    BY <1>2, <2>1, <2>2 DEF IsRow, RowFields
  <2>4. ~ Reading(r)
    BY <2>3 DEF Reading
  <2> QED
    BY <1>1, <2>2, <2>3, <2>4, TextKept
<1> QED
  BY <1>5, <1>6, <1>7, <1>9, <1>11, <1>12, <1>13, <1>14 DEF Run

-----------------------------------------------------------------------------
\* The page of e changes, while the overrides and the rows stay.
LEMMA PageSteps ==
  ASSUME SavedInv, UNCHANGED <<overrides, builds>>, TagsInv', NEW e \in Editor, NEW ed,
         editor' = [editor EXCEPT ![e] = ed], SavedBy(ed)
  PROVE  SavedInv'
<1>1. EditorsOK /\ RowsExpect
  BY DEF SavedInv
<1>2. DOMAIN editor' = Editor
  BY <1>1 DEF EditorsOK
<1>3. ASSUME NEW f \in Editor PROVE SavedBy(editor'[f])
  BY <1>1 DEF EditorsOK
<1>4. EditorsOK'
  BY <1>2, <1>3 DEF EditorsOK, SavedBy, Counts, overrides
<1> QED
  BY <1>1, <1>4 DEF SavedInv, RowsExpect, Expects, Reading, Counts, overrides

\* A page that is idle has nothing to keep, but that it shows a service.
LEMMA Idle ==
  ASSUME NEW ed, DOMAIN ed = EditorFields, ed.pc = "idle", ed.on # None => ed.on \in Service
  PROVE  SavedBy(ed)
BY DEF SavedBy

LEMMA MountSaved ==
  ASSUME SavedInv, TagsInv', NEW e \in Editor, NEW s \in Service, Mount(e, s)
  PROVE  SavedInv'
<1>1. UNCHANGED <<overrides, builds>>
  BY DEF Mount
<1>2. PICK ed : /\ editor' = [editor EXCEPT ![e] = ed]
                /\ DOMAIN ed = EditorFields /\ ed.pc = "idle" /\ ed.on = s
  <2>1. PICK l : l = Loaded(s)
    OBVIOUS
  <2>2. PICK ed : ed = [Closed EXCEPT !.on = s, !.text = l.text, !.doc = FormOf(l.text, NoText),
                          !.scope = l.scope,
                          !.had = serviceOverride[s] # NoText \/ repoOverride # NoText]
    OBVIOUS
  <2>3. editor' = [editor EXCEPT ![e] = ed]
    BY <2>1, <2>2 DEF Mount
  <2>4. DOMAIN ed = EditorFields /\ ed.pc = "idle" /\ ed.on = s
    BY <2>2 DEF Closed, EditorFields
  <2> QED
    BY <2>3, <2>4
<1> QED
  BY <1>1, <1>2, Idle, PageSteps

\* What a user does in the two tabs: the page stays idle and shows its service.
LEMMA EditingSaved ==
  ASSUME SavedInv, TagsInv', NEW e \in Editor,
         \/ \E t : TypeRaw(e, t) \/ SelectTab(e, t) \/ SetScope(e, t)
         \/ \E n, d : RemoveService(e, n) \/ SetImageMode(e, n, d)
         \/ AddMulti(e)
  PROVE  SavedInv'
<1>1. editor[e].pc = "idle" /\ UNCHANGED <<overrides, builds>>
  BY DEF TypeRaw, SelectTab, SetScope, RemoveService, SetImageMode, AddMulti, Editing, Shows
<1>2. DOMAIN editor[e] = EditorFields /\ (editor[e].on # None => editor[e].on \in Service)
  BY DEF SavedInv, EditorsOK, SavedBy
<1>3. ASSUME NEW t, TypeRaw(e, t) PROVE SavedInv'
  <2>1. PICK ed : ed = [editor[e] EXCEPT !.text = t]
    OBVIOUS
  <2>2. editor' = [editor EXCEPT ![e] = ed]
    BY <1>3, <2>1 DEF TypeRaw
  <2>3. DOMAIN ed = EditorFields /\ ed.pc = "idle" /\ ed.on = editor[e].on
    BY <1>1, <1>2, <2>1 DEF EditorFields
  <2> QED
    BY <1>1, <1>2, <2>2, <2>3, Idle, PageSteps
<1>4. ASSUME NEW t, SetScope(e, t) PROVE SavedInv'
  <2>1. PICK ed : ed = [editor[e] EXCEPT !.scope = t]
    OBVIOUS
  <2>2. editor' = [editor EXCEPT ![e] = ed]
    BY <1>4, <2>1 DEF SetScope
  <2>3. DOMAIN ed = EditorFields /\ ed.pc = "idle" /\ ed.on = editor[e].on
    BY <1>1, <1>2, <2>1 DEF EditorFields
  <2> QED
    BY <1>1, <1>2, <2>2, <2>3, Idle, PageSteps
<1>5. ASSUME NEW t, SelectTab(e, t) PROVE SavedInv'
  <2>1. PICK ed : ed = [editor[e] EXCEPT
                          !.tab = t, !.doc = IF t = "form" THEN FormOf(editor[e].text, @) ELSE @]
    OBVIOUS
  <2>2. editor' = [editor EXCEPT ![e] = ed]
    BY <1>5, <2>1 DEF SelectTab
  <2>3. DOMAIN ed = EditorFields /\ ed.pc = "idle" /\ ed.on = editor[e].on
    BY <1>1, <1>2, <2>1 DEF EditorFields
  <2> QED
    BY <1>1, <1>2, <2>2, <2>3, Idle, PageSteps
<1>6. ASSUME NEW doc, Sync(e, doc) PROVE SavedInv'
  <2>1. PICK ed : ed = [editor[e] EXCEPT !.doc = doc, !.text = doc]
    OBVIOUS
  <2>2. editor' = [editor EXCEPT ![e] = ed]
    BY <1>6, <2>1 DEF Sync
  <2>3. DOMAIN ed = EditorFields /\ ed.pc = "idle" /\ ed.on = editor[e].on
    BY <1>1, <1>2, <2>1 DEF EditorFields
  <2> QED
    BY <1>1, <1>2, <2>2, <2>3, Idle, PageSteps
<1>7. ASSUME NEW n, NEW d, RemoveService(e, n) \/ SetImageMode(e, n, d) PROVE SavedInv'
  <2>1. \E doc : Sync(e, doc)
    BY <1>7 DEF RemoveService, SetImageMode
  <2> QED
    BY <1>6, <2>1
<1>8. ASSUME AddMulti(e) PROVE SavedInv'
  <2>1. \E doc : Sync(e, doc)
    BY <1>8 DEF AddMulti
  <2> QED
    BY <1>6, <2>1
<1> QED
  BY <1>3, <1>4, <1>5, <1>7, <1>8

\* The answer to a save names the services for which the saved text counts.
LEMMA AnswerSaved ==
  ASSUME SavedInv, TagsInv', NEW e \in Editor, Answer(e)
  PROVE  SavedInv'
<1>1. UNCHANGED <<overrides, builds>> /\ editor[e].pc \in {"saved", "deploy"}
  BY DEF Answer
<1>2. SavedBy(editor[e]) /\ DOMAIN editor[e] = EditorFields
  BY DEF SavedInv, EditorsOK, SavedBy
<1>3. PICK all : all = AffectedServices(e)
  OBVIOUS
<1>4. PICK ed : ed = [editor[e] EXCEPT
                        !.had = TRUE,
                        !.todo = IF editor[e].pc = "saved" THEN {}
                                 ELSE IF all = {} THEN {editor[e].on} ELSE all,
                        !.pc = IF editor[e].pc = "saved" THEN "idle" ELSE "queue",
                        !.sure = @ /\ (all # {})]
  OBVIOUS
<1>5. editor' = [editor EXCEPT ![e] = ed]
  BY <1>3, <1>4 DEF Answer
<1>6. /\ DOMAIN ed = EditorFields /\ ed.on = editor[e].on /\ ed.text = editor[e].text
      /\ ed.pc = (IF editor[e].pc = "saved" THEN "idle" ELSE "queue")
      /\ ed.todo = (IF editor[e].pc = "saved" THEN {}
                    ELSE IF all = {} THEN {editor[e].on} ELSE all)
  BY <1>2, <1>4 DEF EditorFields
<1>7. ed.sure => editor[e].sure /\ all # {}
  BY <1>2, <1>4 DEF EditorFields
<1>8. ASSUME ed.sure, ed.pc = "queue"
      PROVE  ed.text # NoText /\ \A s \in ed.todo \cap Service : Counts(s, ed.text)
  <2>1. ed.text # NoText /\ ed.todo = all
    BY <1>1, <1>2, <1>6, <1>7, <1>8 DEF SavedBy
  <2>2. CASE editor[e].scope = "service"
    BY <1>1, <1>2, <1>3, <1>6, <1>7, <1>8, <2>1, <2>2 DEF SavedBy, AffectedServices, Counts
  <2>3. CASE editor[e].scope # "service"
    BY <1>1, <1>2, <1>3, <1>6, <1>7, <1>8, <2>1, <2>3 DEF SavedBy, AffectedServices, Counts
  <2> QED
    BY <2>1, <2>2, <2>3
<1>9. ed.pc \in {"idle", "queue"}
  BY <1>6
<1>10. SavedBy(ed)
  BY <1>2, <1>6, <1>8, <1>9 DEF SavedBy
<1> QED
  BY <1>1, <1>5, <1>10, PageSteps

\* The build of a service that save-and-deploy named is promised the saved text.
LEMMA QueueBuildSaved ==
  ASSUME SavedInv, TagsInv', NEW e \in Editor, NEW s \in Service, QueueBuild(e, s)
  PROVE  SavedInv'
<1>1. UNCHANGED overrides /\ editor[e].pc = "queue" /\ s \in editor[e].todo
  BY DEF QueueBuild
<1>2. SavedBy(editor[e]) /\ DOMAIN editor[e] = EditorFields /\ RowsOK /\ RowsExpect /\ EditorsOK
  BY DEF SavedInv, EditorsOK, SavedBy, TagsInv
<1>3. PICK ed : ed = [editor[e] EXCEPT !.todo = @ \ {s},
                                       !.pc = IF editor[e].todo = {s} THEN "idle" ELSE @]
  OBVIOUS
<1>4. editor' = [editor EXCEPT ![e] = ed]
  BY <1>3 DEF QueueBuild
<1>5. /\ DOMAIN ed = EditorFields /\ ed.on = editor[e].on /\ ed.text = editor[e].text
      /\ ed.sure = editor[e].sure /\ ed.pc \in {"idle", "queue"}
      /\ ed.todo = editor[e].todo \ {s}
  BY <1>1, <1>2, <1>3 DEF EditorFields
<1>6. SavedBy(ed)
  BY <1>1, <1>2, <1>5 DEF SavedBy
<1>7. EditorsOK'
  <2>1. DOMAIN editor' = Editor
    BY <1>2, <1>4 DEF EditorsOK
  <2>2. ASSUME NEW f \in Editor PROVE SavedBy(editor'[f])
    BY <1>2, <1>4, <1>6 DEF EditorsOK
  <2> QED
    BY <1>1, <2>1, <2>2 DEF EditorsOK, SavedBy, Counts, overrides
<1>8. RowsExpect'
  <2>1. CASE builds' = builds
    BY <1>1, <1>2, <2>1 DEF RowsExpect, Expects, Reading, Counts, overrides
  <2>2. CASE builds' # builds
    <3>1. PICK text : text = IF editor[e].sure THEN editor[e].text ELSE NoText
      OBVIOUS
    <3>2. PICK r : r = NewBuild(s, AtHead, text)
      OBVIOUS
    <3>3. builds' = Append(builds, r)
      BY <2>2, <3>1, <3>2 DEF QueueBuild
    <3>4. /\ DOMAIN builds' = DOMAIN builds \cup {Len(builds) + 1}
          /\ \A i \in DOMAIN builds : builds'[i] = builds[i]
          /\ builds'[Len(builds) + 1] = r
      BY <1>2, <3>3, NewRow
    <3>5. r.service = s /\ r.status = "queued" /\ r.yaml = NoText /\ r.expects = text
      BY <3>2 DEF NewBuild
    <3>6. text # NoText => Counts(s, text)
      BY <1>1, <1>2, <3>1 DEF SavedBy
    <3>7. Expects(r)
      BY <3>5, <3>6 DEF Expects, Reading
    <3>8. ASSUME NEW i \in DOMAIN builds' PROVE Expects(builds'[i])
      BY <1>2, <3>4, <3>7 DEF RowsExpect
    <3> QED
      BY <1>1, <3>8 DEF RowsExpect, Expects, Reading, Counts, overrides
  <2> QED
    BY <2>1, <2>2
<1> QED
  BY <1>1, <1>7, <1>8 DEF SavedInv, overrides

-----------------------------------------------------------------------------
\* Whoever writes an override takes the promise from the builds that have not read
\* their pipeline.
LEMMA ForgetExpects ==
  ASSUME SavedInv, builds' = Forget(builds) PROVE RowsExpect'
<1>1. RowsOK /\ RowsExpect
  BY DEF SavedInv, TagsInv
<1>2. /\ DOMAIN builds' = DOMAIN builds
      /\ \A i \in DOMAIN builds :
           /\ \A f \in RowFields \ {"expects"} : builds'[i][f] = builds[i][f]
           /\ builds[i].yaml # NoText => builds'[i] = builds[i]
           /\ builds[i].yaml = NoText => builds'[i].expects = NoText
  BY <1>1, Forgotten
<1>3. ASSUME NEW i \in DOMAIN builds PROVE Expects(builds[i])'
  <2>1. Expects(builds[i])
    BY <1>1 DEF RowsExpect
  <2>2. CASE builds[i].yaml # NoText
    <3>1. builds'[i] = builds[i]
      BY <1>2, <2>2
    <3> QED
      BY <2>1, <2>2, <3>1 DEF Expects, Reading
  <2>3. CASE builds[i].yaml = NoText
    <3>1. builds'[i].yaml = NoText /\ builds'[i].expects = NoText
      BY <1>2, <2>3 DEF RowFields
    <3> QED
      BY <3>1 DEF Expects
  <2> QED
    BY <2>2, <2>3
<1> QED
  BY <1>2, <1>3 DEF RowsExpect

\* The page of e writes an override: the pages of the others are sure no more.
LEMMA Disturbed ==
  ASSUME EditorsOK, NEW e \in Editor, NEW ed, DOMAIN ed = EditorFields,
         ed.on # None => ed.on \in Service,
         editor' = Disturb(e, [editor EXCEPT ![e] = ed])
  PROVE  /\ DOMAIN editor' = Editor
         /\ \A f \in Editor \ {e} : SavedBy(editor[f])'
         /\ DOMAIN editor'[e] = EditorFields
         /\ \A x \in EditorFields \ {"sure"} : editor'[e][x] = ed[x]
<1>1. DOMAIN editor' = Editor
  BY DEF Disturb
<1>2. ASSUME NEW f \in Editor \ {e} PROVE SavedBy(editor[f])'
  <2>1. SavedBy(editor[f])
    BY DEF EditorsOK
  <2>2. editor'[f] = [editor[f] EXCEPT !.sure = @ /\ f = e]
    BY DEF Disturb, EditorsOK
  <2>3. DOMAIN editor'[f] = EditorFields /\ editor'[f].on = editor[f].on
    BY <2>1, <2>2 DEF SavedBy, EditorFields
  <2>4. ~ editor'[f].sure
    BY <2>1, <2>2 DEF SavedBy, EditorFields
  <2> QED
    BY <2>1, <2>3, <2>4 DEF SavedBy
<1>3. /\ DOMAIN editor'[e] = EditorFields
      /\ \A x \in EditorFields \ {"sure"} : editor'[e][x] = ed[x]
  <2>1. editor'[e] = [ed EXCEPT !.sure = @ /\ e = e]
    BY DEF Disturb, EditorsOK
  <2> QED
    BY <2>1 DEF EditorFields
<1> QED
  BY <1>1, <1>2, <1>3

LEMMA SaveSaved ==
  ASSUME SavedInv, TagsInv', NEW e \in Editor, NEW then, then \in {"saved", "deploy"}, Save(e, then)
  PROVE  SavedInv'
<1>1. CASE ~ Selects(editor[e].text, PipelineName[editor[e].on])
  BY <1>1, NothingSaved DEF Save
<1>2. CASE Selects(editor[e].text, PipelineName[editor[e].on])
  <2>1. EditorsOK /\ SavedBy(editor[e]) /\ DOMAIN editor[e] = EditorFields
        /\ DOMAIN serviceOverride = Service
    BY DEF SavedInv, EditorsOK, SavedBy
  <2>2. editor[e].on # None /\ editor[e].on \in Service
    BY <2>1 DEF Save, Shows, SavedBy
  <2>3. editor[e].text # NoText
    BY DEF Save, Parses, NoText
  <2>4. PICK ed : ed = [editor[e] EXCEPT !.pc = then, !.sure = TRUE]
    OBVIOUS
  <2>5. /\ DOMAIN ed = EditorFields /\ ed.on = editor[e].on /\ ed.text = editor[e].text
        /\ ed.scope = editor[e].scope /\ ed.pc = then
    BY <2>1, <2>4 DEF EditorFields
  <2>6. editor' = Disturb(e, [editor EXCEPT ![e] = ed]) /\ builds' = Forget(builds)
        /\ Write(e, editor[e].scope, editor[e].text)
    BY <1>2, <2>4 DEF Save
  <2>7. /\ DOMAIN editor' = Editor
        /\ \A f \in Editor \ {e} : SavedBy(editor[f])'
        /\ DOMAIN editor'[e] = EditorFields
        /\ \A x \in EditorFields \ {"sure"} : editor'[e][x] = ed[x]
    BY <2>1, <2>2, <2>5, <2>6, Disturbed
  <2>8. /\ DOMAIN serviceOverride' = Service
        /\ editor[e].scope = "service" => serviceOverride'[editor[e].on] = editor[e].text
        /\ editor[e].scope # "service" => repoOverride' = editor[e].text
    BY <2>1, <2>2, <2>6 DEF Write
  <2>9. /\ editor'[e].on = ed.on /\ editor'[e].text = ed.text /\ editor'[e].scope = ed.scope
        /\ editor'[e].pc = then
    BY <2>5, <2>7 DEF EditorFields
  <2>10. SavedBy(editor[e])'
    BY <2>2, <2>3, <2>5, <2>7, <2>8, <2>9 DEF SavedBy
  <2>11. EditorsOK'
    BY <2>7, <2>10 DEF EditorsOK
  <2>12. RowsExpect'
    BY <2>6, ForgetExpects
  <2> QED
    BY <2>8, <2>11, <2>12 DEF SavedInv
<1> QED
  BY <1>1, <1>2

LEMMA ClearSaved ==
  ASSUME SavedInv, TagsInv', NEW e \in Editor, Clear(e)
  PROVE  SavedInv'
<1>1. EditorsOK /\ SavedBy(editor[e]) /\ DOMAIN editor[e] = EditorFields
        /\ DOMAIN serviceOverride = Service
  BY DEF SavedInv, EditorsOK, SavedBy
<1>2. editor[e].on # None /\ editor[e].on \in Service /\ editor[e].pc = "idle"
  BY <1>1 DEF Clear, Shows, SavedBy
<1>3. PICK ed : ed = [editor[e] EXCEPT !.had = FALSE]
  OBVIOUS
<1>4. DOMAIN ed = EditorFields /\ ed.on = editor[e].on /\ ed.pc = "idle"
  BY <1>1, <1>2, <1>3 DEF EditorFields
<1>5. editor' = Disturb(e, [editor EXCEPT ![e] = ed]) /\ builds' = Forget(builds)
      /\ Write(e, editor[e].scope, NoText)
  BY <1>3 DEF Clear
<1>6. /\ DOMAIN editor' = Editor
      /\ \A f \in Editor \ {e} : SavedBy(editor[f])'
      /\ DOMAIN editor'[e] = EditorFields
      /\ \A x \in EditorFields \ {"sure"} : editor'[e][x] = ed[x]
  BY <1>1, <1>2, <1>4, <1>5, Disturbed
<1>7. DOMAIN serviceOverride' = Service
  BY <1>1, <1>5 DEF Write
<1>8. editor'[e].on = ed.on /\ editor'[e].pc = "idle"
  BY <1>4, <1>6 DEF EditorFields
<1>9. SavedBy(editor[e])'
  BY <1>2, <1>4, <1>6, <1>8 DEF SavedBy
<1>10. EditorsOK'
  BY <1>6, <1>9 DEF EditorsOK
<1>11. RowsExpect'
  BY <1>5, ForgetExpects
<1> QED
  BY <1>7, <1>10, <1>11 DEF SavedInv

-----------------------------------------------------------------------------
LEMMA EditorSaved ==
  ASSUME SavedInv, TagsInv', NEW e \in Editor, EditorSteps(e)
  PROVE  SavedInv'
<1>1. ASSUME NEW s \in Service, Mount(e, s) \/ QueueBuild(e, s) PROVE SavedInv'
  BY <1>1, MountSaved, QueueBuildSaved
<1>2. ASSUME NEW t, TypeRaw(e, t) \/ SelectTab(e, t) \/ SetScope(e, t) PROVE SavedInv'
  BY <1>2, EditingSaved
<1>3. ASSUME NEW n, NEW d, RemoveService(e, n) \/ SetImageMode(e, n, d) PROVE SavedInv'
  BY <1>3, EditingSaved
<1>4. ASSUME NEW then \in {"saved", "deploy"}, Save(e, then) PROVE SavedInv'
  BY <1>4, SaveSaved
<1>5. ASSUME AddMulti(e) \/ Answer(e) \/ Clear(e) PROVE SavedInv'
  BY <1>5, EditingSaved, AnswerSaved, ClearSaved
<1> QED
  BY <1>1, <1>2, <1>3, <1>4, <1>5 DEF EditorSteps

LEMMA SavedInvInit == BuildsInit => SavedInv
<1> SUFFICES ASSUME BuildsInit PROVE SavedInv
  OBVIOUS
<1>1. TagsInv
  BY TagsInvInit
<1>2. DOMAIN serviceOverride = Service
  BY DEF BuildsInit, EditorInit
<1>3. DOMAIN builds = {}
  BY DEF BuildsInit, EditorInit
<1>4. editor = [e \in Editor |-> Closed]
  BY DEF BuildsInit, EditorInit
<1>5. DOMAIN Closed = EditorFields /\ Closed.pc = "idle" /\ Closed.on = None
  BY DEF Closed, EditorFields
<1>6. EditorsOK
  BY <1>4, <1>5, Idle DEF EditorsOK
<1> QED
  BY <1>1, <1>2, <1>3, <1>6 DEF SavedInv, RowsExpect

LEMMA SavedInvNext ==
  ASSUME SavedInv, [BuildsNext]_buildsVars
  PROVE  SavedInv'
<1>1. TagsInv'
  BY TagsInvNext DEF SavedInv
<1>2. CASE EditorNext /\ UNCHANGED <<head, tags, dirs, artifacts, sent, deployed, failures>>
  BY <1>1, <1>2, EditorSaved DEF EditorNext
<1>3. ASSUME NEW c, Push(c) PROVE SavedInv'
  BY <1>1, <1>3, NothingSaved DEF Push, editorVars
<1>4. ASSUME NEW s \in Service, NEW sha, Queue(s, sha) PROVE SavedInv'
  <2>1. UNCHANGED <<overrides, editor>>
    BY <1>4 DEF Queue, outside, overrides
  <2>2. RowsOK /\ RowsExpect /\ EditorsOK
    BY DEF SavedInv, TagsInv
  <2>3. PICK r : r = NewBuild(s, sha, NoText)
    OBVIOUS
  <2>4. /\ DOMAIN builds' = DOMAIN builds \cup {Len(builds) + 1}
        /\ \A i \in DOMAIN builds : builds'[i] = builds[i]
        /\ builds'[Len(builds) + 1] = r
    BY <1>4, <2>2, <2>3, NewRow DEF Queue
  <2>5. Expects(r)
    BY <2>3 DEF NewBuild, Expects
  <2>6. ASSUME NEW i \in DOMAIN builds' PROVE Expects(builds'[i])
    BY <2>2, <2>4, <2>5 DEF RowsExpect
  <2>7. RowsExpect'
    BY <2>1, <2>6 DEF RowsExpect, Expects, Reading, Counts, overrides
  <2> QED
    BY <1>1, <2>1, <2>7 DEF SavedInv, EditorsOK, SavedBy, Counts, overrides
<1>5. ASSUME NEW i \in DOMAIN builds, Run(i) \/ StepFails(i) \/ WorkerEnds(i) PROVE SavedInv'
  BY <1>1, <1>5, RunExpects
<1>6. ASSUME NEW i, NEW m, Deploy(i) \/ Connect \/ Report(m) PROVE SavedInv'
  <2>1. UNCHANGED <<overrides, editor>> /\ builds' = builds
    BY <1>6 DEF Deploy, Connect, Report, outside, overrides
  <2> QED
    BY <1>1, <2>1, NothingSaved
<1>7. CASE UNCHANGED buildsVars
  BY <1>1, <1>7, NothingSaved DEF buildsVars, editorVars
<1> QED
  BY <1>2, <1>3, <1>4, <1>5, <1>6, <1>7 DEF BuildsNext

\* A build that save-and-deploy queued runs with the text that was saved unless
\* another save or clear came in between, with any number of pages, services,
\* texts, edits and builds in any order.
THEOREM BuildsRunWhatWasSaved == BuildsSpec => []DeploysWhatWasSaved
<1>1. BuildsInit => SavedInv
  BY SavedInvInit
<1>2. SavedInv /\ [BuildsNext]_buildsVars => SavedInv'
  BY SavedInvNext
<1>3. SavedInv => DeploysWhatWasSaved
  BY DEF SavedInv, RowsExpect, Expects, DeploysWhatWasSaved
<1> QED
  BY <1>1, <1>2, <1>3, PTL DEF BuildsSpec
=============================================================================
