--------------------------- MODULE MCTransparencyLog ---------------------------
(* The transparency log for TLC: one client that appends enough entries    *)
(* for trees of every shape up to four levels above the leaves, one that   *)
(* meets a monitor with faults and an anchor loop, or two that interleave. *)
EXTENDS TransparencyLog

CONSTANTS h1, h2, SerialEntries, FaultyEntries, RacingEntries

MCHandlers == {h1, h2}
MCLoads ==
  {[handlers |-> {h1}, entries |-> SerialEntries,
    restarts |-> 1, faults |-> 0, anchors |-> 0],
   [handlers |-> {h1}, entries |-> FaultyEntries,
    restarts |-> 1, faults |-> 2, anchors |-> 2],
   [handlers |-> {h1, h2}, entries |-> RacingEntries,
    restarts |-> 1, faults |-> 0, anchors |-> 1]}
================================================================================
