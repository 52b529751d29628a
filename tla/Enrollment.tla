----------------------------- MODULE Enrollment -----------------------------
(***************************************************************************)
(* How an agent in a cluster gets in: the rows of its enrollment tokens    *)
(* (enrollmentStore.ts), the Secret an administrator puts a token into,    *)
(* the container of the agent, which reads the Secret once when it starts, *)
(* its session with the platform, and the status of its row in agents.     *)
(***************************************************************************)
EXTENDS Naturals

CONSTANTS
  Token,   \* plaintexts the platform can mint
  NoToken, \* the Secret is missing or empty
  Version, \* versions of the agent image, 0 for a tag that is no version
  NoImage  \* no Deployment, no pod

ASSUME EnrollmentAssumption ==
  /\ NoToken \notin Token /\ Version \subseteq Nat
  /\ NoImage \notin Version

VARIABLES
  minted,  \* tokens created so far
  rows,    \* those whose row is there
  marks,   \* what happened to a token: expired, used, revoked
  secret,  \* the token in the enrollment Secret
  pod,     \* the container: its image, the token it started with, whether it runs
  session, \* the agent has a connection the platform accepted
  status   \* agents.status is 'online'

tokens == <<minted, rows, marks>>
agent == <<pod, session, status>>

-----------------------------------------------------------------------------
(* Tokens                                                                  *)

\* Mutant: the expiry ends a token that was used, too.
ExpiresAlways(t) == t \in rows /\ marks[t] \cap {"revoked", "expired"} = {}
\* isTokenLive, and its twin LIVE_TOKEN_SQL
Live(t) ==
  /\ t \in rows /\ "revoked" \notin marks[t]
  /\ "used" \in marks[t] \/ "expired" \notin marks[t]

Mark(t, what) == marks' = [marks EXCEPT ![t] = @ \cup {what}]

Create(t) ==
  /\ t \notin minted /\ minted' = minted \cup {t}
  /\ rows' = rows \cup {t}
  /\ UNCHANGED marks

Deactivate(t) == Live(t) /\ Mark(t, "revoked") /\ UNCHANGED <<minted, rows>>

\* The handler does not ask whether the token is active.
Delete(t) == t \in rows /\ rows' = rows \ {t} /\ UNCHANGED <<minted, marks>>

Expire(t) ==
  /\ t \in rows /\ "expired" \notin marks[t] /\ Mark(t, "expired")
  /\ UNCHANGED <<minted, rows>>

\* Mutant: the token is looked up as for a pull of the registry.
Peek(t) == UNCHANGED marks
\* consume: the first use marks the token.
Consume(t) == Mark(t, "used")

\* The administrator provides the Secret, or takes it away.
PutSecret(t) == t \in minted /\ t # secret /\ secret' = t
DropSecret == secret # NoToken /\ secret' = NoToken

-----------------------------------------------------------------------------
(* The container and its session                                           *)

NoPod == [image |-> NoImage, token |-> NoToken, up |-> FALSE]

\* The session of the agent ends. The platform marks the agent offline, unless it
\* ended itself and had no time to.
Closes == session' = FALSE /\ status' = FALSE
Lost == session' = FALSE /\ UNCHANGED status

\* The Deployment names another image: a new pod, and the old one ends.
Rollout(image) ==
  /\ image # NoImage /\ pod.image # image
  /\ pod' = [image |-> image, token |-> secret, up |-> TRUE]
  /\ IF session THEN Closes ELSE UNCHANGED <<session, status>>

\* The kubelet starts a container that ended; its environment is read anew.
Restart ==
  /\ pod.image # NoImage /\ ~pod.up
  /\ pod' = [pod EXCEPT !.token = secret, !.up = TRUE]
  /\ UNCHANGED <<session, status>>

\* Mutant: the agent dials again with the token it has.
KeepsDialing == UNCHANGED pod
\* The process exits: no token in production, or ErrPermanentRejection.
Exits == pod' = [pod EXCEPT !.up = FALSE]

Dials == pod.up /\ ~session

\* The platform answers an accepted connection; the heartbeat that follows records
\* the agent and marks it online.
Accepted ==
  /\ Dials /\ pod.token # NoToken /\ Live(pod.token)
  /\ Consume(pod.token) /\ session' = TRUE /\ status' = TRUE
  /\ UNCHANGED <<minted, rows, pod>>

Rejected ==
  /\ Dials /\ (pod.token # NoToken => ~Live(pod.token))
  /\ Exits
  /\ UNCHANGED <<tokens, session, status>>

\* A connection breaks, or the platform ends and starts again.
Disconnect ==
  /\ session /\ (Closes \/ Lost)
  /\ UNCHANGED pod

\* The container ends for a reason of its own.
ContainerEnds ==
  /\ pod.up /\ Exits
  /\ IF session THEN Closes ELSE UNCHANGED <<session, status>>

\* The platform has a row of the agent.
Known == \E t \in Token : "used" \in marks[t]
=============================================================================
