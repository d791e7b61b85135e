--------------------------- MODULE MCSessionTools ---------------------------
(***************************************************************************)
(* SessionTools for TLC: channel "dev" at a local and a remote location,   *)
(* and a blank name.                                                       *)
(***************************************************************************)
EXTENDS SessionTools, TLC

MCNormalizeName == [n \in RawNames |-> IF n = " " THEN NoName ELSE n]

MCRefs == [name : {MCNormalizeName[n] : n \in RawNames} \ {NoName}, location : Locations]

\* Bound: two calls overlap while the remote transport is ready; without a
\* session, or disabled, only one call at a time is followed.
AloneUnlessReady == standing["acme"] # "ready" => Cardinality(DOMAIN calls) <= 1

SymmetryOfIds == Permutations(TopicIds) \cup Permutations(Slots)
=============================================================================
