-------------------------- MODULE MCInspectionSweep --------------------------
EXTENDS InspectionSweep
CONSTANTS d1, d2, d3, cron, user
\* The cron sees every deal, the user has one of them.
MCScope == [s \in Sweeps |-> IF s = cron THEN Deals ELSE {d2}]
=============================================================================
