--------------------------- MODULE MCHttpTransfer ---------------------------
(* Values of the constants of HttpTransfer for TLC. *)
EXTENDS HttpTransfer

CONSTANTS v1, v2

MCVersions == {v1, v2}

\* Two representations of one length, and of two lengths.
MCEqualSizes     == [v \in MCVersions |-> 2]
MCDifferentSizes == [v \in MCVersions |-> IF v = v1 THEN 2 ELSE 1]

\* The interface offers Pause for a row it shows as queued or running; a stale
\* view may still do so for a row that has ended meanwhile.
MCPausable      == {"queued", "running"}
MCPausableStale == {"queued", "running", "failed", "completed"}
=============================================================================
