----------------------------- MODULE Incidents -----------------------------
(***************************************************************************)
(* How an app_log_error frame (LogShip) becomes an incident: the handler   *)
(* of /realtime, which looks for an incident of the fingerprint and then   *)
(* updates or inserts in a second statement, the sweep that resolves what  *)
(* was not seen for a while, and the users, who change the status and      *)
(* delete.                                                                 *)
(***************************************************************************)
EXTENDS LogShip

CONSTANTS
  MaxEvents, \* edits by users and incidents that get old
  MaxFaults  \* breaks, restarts and failing calls

ASSUME IncidentsAssumption == MaxEvents \in Nat /\ MaxFaults \in Nat

VARIABLES
  incidents, \* the rows in the order of their insertion
  handlers,  \* calls of the handler in progress
  events

incidentsVars == <<logship, incidents, handlers, events, faults>>
platform == <<incidents, handlers, events>>

Status == {"open", "acknowledged", "resolved", "closed"}
Active == {"open", "acknowledged"}

\* Mutant: an incident somebody has acknowledged is not found.
OnlyOpen(fp) == {n \in DOMAIN incidents : incidents[n].fp = fp /\ incidents[n].status = "open"}
\* Mutant: a closed one is found, too.
AnyStatus(fp) == {n \in DOMAIN incidents : incidents[n].fp = fp /\ incidents[n].status \in Status}
\* The SELECT of upsertIncident.
Existing(fp) == {n \in DOMAIN incidents : incidents[n].fp = fp /\ incidents[n].status \in Active}

InFlight == Len(net) + Len(handlers)

IncidentsInit ==
  /\ ShipInit
  /\ incidents = <<>> /\ handlers = <<>>
  /\ events = 0 /\ faults = 0

-----------------------------------------------------------------------------
(* The handler                                                             *)

Receive ==
  /\ net # <<>> /\ net' = Tail(net)
  /\ handlers' = Append(handlers, [fp |-> Head(net), pc |-> "select", row |-> 0, seen |-> 0])
  /\ UNCHANGED <<runtime, app, stream, sender, connected, own, incidents, events, faults>>

\* seen remembers, for OneActive, the rows a handler that found none looked at.
Select(h) ==
  /\ handlers[h].pc = "select"
  /\ LET found == Existing(handlers[h].fp)
     IN \E row \in IF found = {} THEN {0} ELSE found :
          handlers' = [handlers EXCEPT ![h].pc = "write", ![h].row = row,
                                       ![h].seen = IF row = 0 THEN Len(incidents) ELSE 0]
  /\ UNCHANGED <<logship, incidents, events, faults>>

Bump(rows, n) == [rows EXCEPT ![n].stale = FALSE]
NewIncident(fp, met) ==
  [fp |-> fp, status |-> "open", stale |-> FALSE, reopened |-> FALSE, met |-> met]

\* Another handler inserted a row of the failure since this one looked.
Met(h) == \E n \in DOMAIN incidents :
            n > handlers[h].seen /\ incidents[n].fp = handlers[h].fp

\* UPDATE by id, whatever became of the row; it may be gone.  INSERT if there was none.
UpdateOrInsert(h) ==
  /\ handlers[h].pc = "write"
  /\ LET row == handlers[h].row
     IN incidents' = CASE row = 0 -> Append(incidents, NewIncident(handlers[h].fp, Met(h)))
                       [] row # 0 /\ incidents[row].status = "deleted" -> incidents
                       [] OTHER -> Bump(incidents, row)
  /\ handlers' = RemoveAt(handlers, h)
  /\ UNCHANGED <<logship, events, faults>>

\* The error is caught and logged.
HandlerFails(h) ==
  /\ handlers' = RemoveAt(handlers, h)
  /\ UNCHANGED <<logship, incidents, events>>

-----------------------------------------------------------------------------
(* The sweep and the users                                                 *)

Swept(row) == row.status \in Active /\ row.stale

ResolveStaleIncidents ==
  /\ \E n \in DOMAIN incidents : Swept(incidents[n])
  /\ incidents' = [n \in DOMAIN incidents |->
                     IF Swept(incidents[n]) THEN [incidents[n] EXCEPT !.status = "resolved"]
                     ELSE incidents[n]]
  /\ UNCHANGED <<logship, handlers, events, faults>>

Edited == events < MaxEvents /\ events' = events + 1 /\ UNCHANGED <<logship, handlers, faults>>

\* SM_INCIDENT_AUTORESOLVE_MS since last_seen_at.
GetsOld(n) ==
  /\ ~incidents[n].stale /\ incidents' = [incidents EXCEPT ![n].stale = TRUE]
  /\ Edited

\* Any status may follow any; reopened remembers that a user brought a row back.
UpdateStatus(n, s) ==
  /\ incidents[n].status \in Status \ {s}
  /\ incidents' = [incidents EXCEPT ![n].status = s,
       ![n].reopened = @ \/ (s \in Active /\ incidents[n].status \notin Active)]
  /\ Edited

Delete(n) ==
  /\ incidents[n].status \in Status
  /\ incidents' = [incidents EXCEPT ![n].status = "deleted"]
  /\ Edited

\* Calls in progress are gone, and so is the connection.
ApiRestart ==
  /\ connected' = FALSE /\ net' = <<>> /\ handlers' = <<>>
  /\ UNCHANGED <<runtime, app, stream, sender, own, incidents, events>>

-----------------------------------------------------------------------------

Fault ==
  /\ faults < MaxFaults /\ faults' = faults + 1
  /\ \/ ShipFault /\ UNCHANGED platform
     \/ ApiRestart
     \/ \E h \in DOMAIN handlers : HandlerFails(h)

Apart == UNCHANGED <<platform, faults>>
Agent == ShipStep \/ Flush(InFlight) \/ OwnStep \/ AppStep \/ Write
Handle == Receive \/ \E h \in DOMAIN handlers : Select(h) \/ UpdateOrInsert(h)

IncidentsNext ==
  \/ Agent /\ Apart
  \/ Handle
  \/ ResolveStaleIncidents
  \/ \E n \in DOMAIN incidents :
       GetsOld(n) \/ Delete(n) \/ \E s \in Status : UpdateStatus(n, s)
  \/ Fault

IncidentsSpec == IncidentsInit /\ [][IncidentsNext]_incidentsVars

\* Goroutines, timers and the event loop go on.  The container prints, ends and
\* starts as it likes.
IncidentsFairness ==
  /\ WF_incidentsVars(Hello /\ Apart) /\ WF_incidentsVars(PullHistory /\ Apart)
  /\ WF_incidentsVars(ShipLine /\ Apart) /\ WF_incidentsVars(Follow /\ Apart)
  /\ WF_incidentsVars(FollowLine /\ Apart) /\ WF_incidentsVars(FollowEnds /\ Apart)
  /\ WF_incidentsVars(Flush(InFlight) /\ Apart) /\ WF_incidentsVars(QuietEnds /\ Apart)
  /\ WF_incidentsVars(OwnStep /\ Apart)
  /\ WF_incidentsVars(Handle) /\ WF_incidentsVars(ResolveStaleIncidents)

-----------------------------------------------------------------------------
(* Properties                                                              *)

IncidentsTypeOK ==
  /\ runtime \in Runtime /\ app \in {"absent", "runs", "fails", "down"}
  /\ log \in Seq(Line) /\ Len(log) <= History
  /\ same \in BOOLEAN /\ pulled \in BOOLEAN
  /\ tail.pc \in {"none", "history", "ship", "attach", "follow", "ended"}
  /\ tail.lines \in Seq(Line) /\ (tail.pc \notin {"ship", "follow"} => tail.lines = <<>>)
  /\ (runtime = "docker" => tail.pc \in {"none", "follow", "ended"})
  /\ burst \subseteq Line /\ (burst # {} => "error" \in burst)
  /\ quiet \in BOOLEAN /\ connected \in BOOLEAN
  /\ net \in Seq(Line) /\ Len(net) <= MaxFrames
  /\ own.written \in 0..MaxOwn /\ own.sent \subseteq 1..own.written
  /\ Len(own.buf) <= MaxBuffer /\ Len(own.batch) <= MaxBatch
  /\ incidents \in Seq([fp : Line, status : Status \cup {"deleted"}, stale : BOOLEAN,
                       reopened : BOOLEAN, met : BOOLEAN])
  /\ handlers \in Seq([fp : Line, pc : {"select", "write"}, row : 0..Len(incidents),
                      seen : 0..Len(incidents)])
  /\ events \in 0..MaxEvents /\ faults \in 0..MaxFaults

\* The agent's own lines leave in the order they were written, and those the
\* bound drops are the oldest, also when a batch comes back that was detached
\* before newer lines were dropped.
DropsOldest ==
  /\ \A i \in DOMAIN own.buf : own.buf[i] = own.written - Len(own.buf) + i
  /\ \A i \in DOMAIN own.batch, j \in DOMAIN own.buf : own.batch[i] < own.buf[j]
  /\ \A n \in own.sent : \A i \in DOMAIN own.batch : n < own.batch[i]
  /\ \A n \in own.sent : \A j \in DOMAIN own.buf : n < own.buf[j]

\* One failure is one incident, through closings, sweeps, breaks and restarts: of two
\* active rows of a fingerprint, a user brought one back, or the handler that inserted
\* the newer one had looked before the older one was there.  (The SELECT and the INSERT
\* of upsertIncident are two statements, and nothing makes the row unique.)
OneActive ==
  \A m, n \in DOMAIN incidents :
    /\ m < n /\ incidents[m].fp = incidents[n].fp
    /\ {incidents[m].status, incidents[n].status} \subseteq Active
    => incidents[n].met \/ incidents[m].reopened \/ incidents[n].reopened

\* A service that keeps printing errors while the stream of its log is not ended has an
\* active incident again and again, whatever frames were lost and whoever closed it in
\* between.  (A container that dies of the same few lines again and again reports
\* nothing new, and an ended stream nothing at all: README, section 3.)
Reported ==
  []<><<PrintsError>>_incidentsVars /\ <>[](tail.pc # "ended")
    => []<>(\E n \in DOMAIN incidents : incidents[n].status \in Active)
=============================================================================
