----------------------------- MODULE BuildTable -----------------------------
(***************************************************************************)
(* What the table of builds promises who asks for one: it waits until no   *)
(* other build of its service runs and none waits that is older, runs      *)
(* once, and is over once.  A build that got lost is asked for again,      *)
(* unless a newer one of its service was.  Workers, limits, commits and    *)
(* clocks do not show.                                                     *)
(***************************************************************************)
EXTENDS Naturals, Sequences, FiniteSets, Functions

CONSTANT Service

VARIABLE rows \* the service of every build ever asked for, and where it is

vars == <<rows>>

Waits(s) == [service |-> s, at |-> "queued"]
Same(b, c) == rows[b].service = rows[c].service
Over(row) == [row EXCEPT !.at = "ended"]

Init == rows = <<>>

Ask(s) == rows' = Append(rows, Waits(s))

Start(b) ==
  /\ rows[b].at = "queued"
  /\ \A c \in DOMAIN rows : Same(b, c) => /\ rows[c].at # "running"
                                          /\ c < b => rows[c].at = "ended"
  /\ rows' = [rows EXCEPT ![b].at = "running"]

End(b) ==
  /\ rows[b].at = "running"
  /\ rows' = [rows EXCEPT ![b] = Over(@)]

\* The lost rows are over, and every new one up to n asks for what an old one was.
Recovered(lost, of, n) ==
  [b \in 1..n |-> IF b \notin DOMAIN rows THEN Waits(rows[of[b]].service)
                  ELSE IF b \in lost THEN Over(rows[b]) ELSE rows[b]]

\* Some running builds are lost, and those again are asked for once more.
Recover(lost, again) ==
  /\ \A b \in lost : rows[b].at = "running"
  /\ \A b \in again, c \in DOMAIN rows : b < c => ~ Same(b, c)
  /\ LET n == Len(rows) + Cardinality(again)
     IN \E of \in Bijection((Len(rows) + 1)..n, again) : rows' = Recovered(lost, of, n)

Next ==
  \/ \E s \in Service : Ask(s)
  \/ \E b \in DOMAIN rows : Start(b) \/ End(b)
  \/ \E lost \in SUBSET DOMAIN rows : \E again \in SUBSET lost : Recover(lost, again)

Spec == Init /\ [][Next]_vars
=============================================================================
