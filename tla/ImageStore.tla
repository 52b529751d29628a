----------------------------- MODULE ImageStore -----------------------------
(***************************************************************************)
(* What the registry promises who pushes and pulls: a tag points at an     *)
(* image that is stored whole, and an image is forgotten only when no tag  *)
(* points at it. Uploads, blobs and collections do not show.               *)
(***************************************************************************)
CONSTANTS Manifest, Tag, None

VARIABLES
  stored, \* the manifests that are there with all their blobs
  image   \* the manifest a tag points at

vars == <<stored, image>>

Init == stored = {} /\ image = [t \in Tag |-> None]

Store(m) == stored' = stored \cup {m} /\ UNCHANGED image

Point(t, m) ==
  /\ m \in stored
  /\ image' = [image EXCEPT ![t] = m]
  /\ UNCHANGED stored

Untag(t) == image' = [image EXCEPT ![t] = None] /\ UNCHANGED stored

Forget(m) ==
  /\ \A t \in Tag : image[t] # m
  /\ stored' = stored \ {m}
  /\ UNCHANGED image

Next ==
  \/ \E m \in Manifest : Store(m) \/ Forget(m)
  \/ \E t \in Tag : Untag(t) \/ \E m \in Manifest : Point(t, m)

Spec == Init /\ [][Next]_vars
=============================================================================
