------------------------------ MODULE LogShip ------------------------------
(***************************************************************************)
(* How an error in the log of a service leaves its host: the container     *)
(* that prints it, the stream the agent reads (k8slog on Kubernetes,       *)
(* StreamContainerLogs on Docker), the sender that folds the lines of one  *)
(* failure into one app_log_error frame (logship), the connection, and     *)
(* the buffer with the agent's own log (selflog).  One agent, one          *)
(* container of one service.                                               *)
(***************************************************************************)
EXTENDS Naturals, Sequences, SequencesExt, FiniteSets

CONSTANTS
  Runtime,   \* backends the agent may resolve
  History,   \* lines a pull of the history returns, 200 in the code
  MaxStream, \* bound on lines printed and not read yet
  Varied,    \* no two failures print the same last line
  Alike,     \* a failure has one fingerprint, whether its cause came in time or not
  MaxFrames, \* bound on frames sent and not handled
  MaxOwn,    \* bound on the agent's own lines
  MaxBatch,  \* own lines of one frame, 200 in the code
  MaxBuffer  \* own lines that wait, 2000 in the code

ASSUME LogShipAssumption ==
  /\ Runtime \subseteq {"docker", "kubernetes"} /\ {Varied, Alike} \subseteq BOOLEAN
  /\ {History, MaxStream, MaxFrames, MaxBatch, MaxBuffer} \subseteq Nat \ {0}
  /\ MaxOwn \in Nat

VARIABLES
  runtime,   \* the backend
  app,       \* the container: absent, runs, fails (half of a failure is printed), down
  log,       \* the last lines of its log, oldest first
  same,      \* the history has the signature of the one shipped last
  pulled,    \* the history was pulled since the container ended
  tail,      \* the goroutine that reads the log, and the lines it has in hand
  burst,     \* what the open burst collected, {} for none
  quiet,     \* incidentWindow since the last frame is not over
  connected, \* the client has a connection and the platform knows it
  net,       \* app_log_error frames in transit, by fingerprint
  own,       \* Shipper: lines written, waiting, detached, given to the connection
  faults

stream == <<log, same, pulled, tail>>
sender == <<burst, quiet>>
logship == <<runtime, app, stream, sender, connected, net, own>>

\* A failure prints an error line, then its cause.
Line == {"error", "cause"}
LastOf(s, n) == IF Len(s) <= n THEN s ELSE SubSeq(s, Len(s) - n + 1, Len(s))

ShipInit ==
  /\ runtime \in Runtime
  /\ app \in {"absent", "runs"}
  /\ log = <<>> /\ same = FALSE /\ pulled = FALSE
  /\ tail = [pc |-> "none", lines |-> <<>>]
  /\ burst = {} /\ quiet = FALSE
  /\ connected = FALSE /\ net = <<>>
  /\ \E n \in {0, MaxOwn} :
       own = [written |-> n, buf |-> <<>>, batch |-> <<>>, sent |-> 1..n]

-----------------------------------------------------------------------------
(* The container                                                           *)

Prints(line) ==
  /\ Len(tail.lines) < MaxStream
  /\ log' = LastOf(Append(log, line), History)
  /\ same' \in IF Varied THEN {FALSE} ELSE BOOLEAN
  /\ tail' = IF tail.pc = "follow" THEN [tail EXCEPT !.lines = Append(@, line)] ELSE tail
  /\ UNCHANGED <<runtime, pulled, sender, connected, net, own>>

PrintsError == app = "runs" /\ app' = "fails" /\ Prints("error")
PrintsCause == app = "fails" /\ app' = "runs" /\ Prints("cause")

Ends ==
  /\ app \in {"runs", "fails"} /\ app' = "down"
  /\ UNCHANGED <<runtime, log, same, pulled, tail, sender, connected, net, own>>

\* A pod shows the log of its newest container, and its back-off is longer than a
\* cycle of tailPod.  Docker goes on with the same log.
Starts ==
  /\ app = "down" /\ app' = "runs" /\ pulled' = FALSE
  /\ runtime = "kubernetes" => pulled \/ tail.pc = "none"
  /\ IF runtime = "kubernetes" THEN log' = <<>> /\ same' = FALSE ELSE UNCHANGED <<log, same>>
  /\ UNCHANGED <<runtime, tail, sender, connected, net, own>>

-----------------------------------------------------------------------------
(* Streams                                                                 *)

ReadsOn(pc, lines) == tail' = [pc |-> pc, lines |-> lines]

\* hello: the first one starts the streams, logStreamOnce does nothing later.
\* Docker: the containers that run now are read from their start; no later one is.
Hello ==
  /\ ~connected /\ connected' = TRUE
  /\ \/ tail.pc # "none" /\ UNCHANGED tail
     \/ /\ tail.pc = "none" /\ runtime = "kubernetes"
        /\ ReadsOn(IF app = "absent" THEN "none" ELSE "history", <<>>)
     \/ /\ tail.pc = "none" /\ runtime = "docker"
        /\ IF app \in {"absent", "down"} THEN ReadsOn("ended", <<>>) ELSE ReadsOn("follow", log)
  /\ UNCHANGED <<runtime, app, log, same, pulled, sender, net, own>>

\* SendLogEvent of logship: an error opens a burst unless the window is open, and
\* whatever follows belongs to it.
Collect(line) ==
  burst' = IF burst # {} \/ (line = "error" /\ ~quiet) THEN burst \cup {line} ELSE burst

\* tailPod, phase 1: what kubectl logs returns is shipped if it is new.
PullHistory ==
  /\ runtime = "kubernetes" /\ tail.pc = "history" /\ pulled' = (app = "down")
  /\ IF log # <<>> /\ ~same
     THEN same' = TRUE /\ ReadsOn("ship", log)
     ELSE same' = same /\ ReadsOn("attach", <<>>)
  /\ UNCHANGED <<runtime, app, log, sender, connected, net, own>>

ShipLine ==
  /\ tail.pc = "ship"
  /\ IF tail.lines = <<>>
     THEN ReadsOn("attach", <<>>) /\ UNCHANGED burst
     ELSE ReadsOn("ship", Tail(tail.lines)) /\ Collect(Head(tail.lines))
  /\ UNCHANGED <<runtime, app, log, same, pulled, quiet, connected, net, own>>

\* Phase 2: kubectl logs -f, with the lines of the last second.
Follow ==
  /\ tail.pc = "attach"
  /\ \E n \in 0..Len(log) : ReadsOn("follow", LastOf(log, n))
  /\ UNCHANGED <<runtime, app, log, same, pulled, sender, connected, net, own>>

\* A line of a follow goes to the sender, and to the platform as a log_event.
\* StreamContainerLogs returns when that fails, followKubectl ignores it.
FollowLine ==
  /\ tail.pc = "follow" /\ tail.lines # <<>>
  /\ Collect(Head(tail.lines))
  /\ IF runtime = "docker" /\ ~connected THEN ReadsOn("ended", <<>>) ELSE ReadsOn("follow", Tail(tail.lines))
  /\ UNCHANGED <<runtime, app, log, same, pulled, quiet, connected, net, own>>

AfterFollow == IF runtime = "kubernetes" THEN "history" ELSE "ended"

\* The container ended: tailPod starts over after some seconds.
FollowEnds ==
  /\ tail.pc = "follow" /\ tail.lines = <<>> /\ app = "down"
  /\ ReadsOn(AfterFollow, <<>>)
  /\ UNCHANGED <<runtime, app, log, same, pulled, sender, connected, net, own>>

\* kubectl or the Docker API fails.
StreamFails ==
  /\ CASE tail.pc = "history" -> ReadsOn("attach", <<>>)
       [] tail.pc \in {"attach", "follow"} -> ReadsOn(AfterFollow, <<>>)
       [] OTHER -> FALSE
  /\ UNCHANGED <<runtime, app, log, same, pulled, sender, connected, net, own>>

-----------------------------------------------------------------------------
(* The sender                                                              *)

\* pickRepresentative, normalizeErrorMessage, fingerprintError: the cause if the
\* burst has it.
Fingerprint(b) == IF "cause" \in b /\ ~Alike THEN "cause" ELSE "error"

\* collectAged, burstWindow after the burst opened, and SendAppLogError: the frame
\* is lost if there is no connection.
Flush(inFlight) ==
  /\ burst # {} /\ inFlight < MaxFrames
  /\ burst' = {} /\ quiet' = TRUE
  /\ net' = IF connected THEN Append(net, Fingerprint(burst)) ELSE net
  /\ UNCHANGED <<runtime, app, stream, connected, own>>

QuietEnds ==
  /\ quiet /\ quiet' = FALSE
  /\ UNCHANGED <<runtime, app, stream, burst, connected, net, own>>

-----------------------------------------------------------------------------
(* The agent's own log                                                     *)

Write ==
  /\ own.written < MaxOwn
  /\ own' = [own EXCEPT !.written = @ + 1,
                        !.buf = LastOf(Append(@, own.written + 1), MaxBuffer)]
  /\ UNCHANGED <<runtime, app, stream, sender, connected, net>>

\* flush: the batch leaves the buffer before it is sent.
DetachBatch ==
  /\ own.batch = <<>> /\ own.buf # <<>>
  /\ LET n == IF Len(own.buf) > MaxBatch THEN MaxBatch ELSE Len(own.buf)
     IN own' = [own EXCEPT !.batch = SubSeq(own.buf, 1, n),
                           !.buf = SubSeq(own.buf, n + 1, Len(own.buf))]
  /\ UNCHANGED <<runtime, app, stream, sender, connected, net>>

\* Mutant: a batch that failed goes to the end.
RequeueLast(batch, buf) == LastOf(buf \o batch, MaxBuffer)
Requeue(batch, buf) == LastOf(batch \o buf, MaxBuffer)

SendAgentLog ==
  /\ own.batch # <<>>
  /\ own' = IF connected
            THEN [own EXCEPT !.batch = <<>>, !.sent = @ \cup ToSet(own.batch)]
            ELSE [own EXCEPT !.batch = <<>>, !.buf = Requeue(own.batch, @)]
  /\ UNCHANGED <<runtime, app, stream, sender, connected, net>>

-----------------------------------------------------------------------------
(* Faults                                                                  *)

\* The platform reads what was sent before the break, or less.
Break ==
  /\ connected /\ connected' = FALSE
  /\ \E n \in 0..Len(net) : net' = SubSeq(net, 1, n)
  /\ UNCHANGED <<runtime, app, stream, sender, own>>

AgentRestart ==
  /\ tail.pc # "none" /\ ReadsOn("none", <<>>)
  /\ same' = FALSE /\ burst' = {} /\ quiet' = FALSE /\ connected' = FALSE
  /\ own' = [own EXCEPT !.buf = <<>>, !.batch = <<>>]
  /\ UNCHANGED <<runtime, app, log, pulled, net>>

\* What time, the runtime and the goroutines do.
ShipStep == Hello \/ PullHistory \/ ShipLine \/ Follow \/ FollowLine \/ FollowEnds \/ QuietEnds
OwnStep == DetachBatch \/ SendAgentLog
AppStep == PrintsError \/ PrintsCause \/ Ends \/ Starts
ShipFault == StreamFails \/ Break \/ AgentRestart
=============================================================================
