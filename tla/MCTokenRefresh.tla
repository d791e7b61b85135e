--------------------------- MODULE MCTokenRefresh ---------------------------
(***************************************************************************)
(* TokenRefresh for TLC: every process has a fetcher for every location,   *)
(* or nearly.                                                              *)
(***************************************************************************)
EXTENDS TokenRefresh, TLC

MCCallers == [proc : Procs, loc : Locations]

\* all but one: the first process has both locations, the others the first
MCFewCallers ==
    LET p == CHOOSE q \in Procs : TRUE
        l == CHOOSE k \in Locations : TRUE
    IN  {c \in MCCallers : c.proc = p \/ c.loc = l}

MCProcOf == [c \in Callers |-> c.proc]

MCLocOf == [c \in Callers |-> c.loc]

SymmetryOfNames == Permutations(Procs) \cup Permutations(Locations)
=============================================================================
