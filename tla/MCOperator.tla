----------------------------- MODULE MCOperator -----------------------------
(* Instances of Operator.                                                  *)
EXTENDS Operator

CONSTANTS read, write, secrets, managed, t1, t2

Everywhere(p) == [policy |-> p, selector |-> NoLabel]
Where(p, l) == [policy |-> p, selector |-> l]

\* A rule for the cluster and one for the selected namespaces, another for the
\* namespaces only, and one that is not allowed.
ThreeSpecs ==
  {{Everywhere(read), Where(read, managed)},
   {Where(write, managed)},
   {Everywhere(secrets)}}

\* The image is the older one; the Secret holds a token, is missing, or holds one
\* that expired while another one is there.
FewStarts ==
  /\ Init
  /\ cr.image = 1
  /\ \/ minted = {t1} /\ marks[t1] = {}
     \/ minted = {t1, t2} /\ secret = t1 /\ marks[t1] = {"expired"} /\ marks[t2] = {}

FewSpec == FewStarts /\ [][Next]_vars /\ Fairness
=============================================================================
