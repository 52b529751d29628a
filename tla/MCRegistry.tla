----------------------------- MODULE MCRegistry -----------------------------
(* One blob of one chunk, an image of it and an index of the image. The    *)
(* image is pushed under a tag, the index by its digest.                   *)
EXTENDS Registry, TLC

CONSTANTS a, x, image, index, t1

OneBlob == [d \in Blob |-> <<x>>]
ImageAndIndex == [m \in Manifest |-> IF m = image THEN <<a>> ELSE <<image>>]
TwoRepos == [t \in Tag |-> t]
IndexByDigest == {<<image, t1>>, <<index, None>>}
Symmetric == Permutations(Request)

\* After a fault, requests beside a collection come one at a time.
Bound == faults' = 0 \/ gc'.pc = "idle" \/ \E r \in Request : req'[r] = Idle
=============================================================================
