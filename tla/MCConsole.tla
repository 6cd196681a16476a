----------------------------- MODULE MCConsole ------------------------------
(***************************************************************************)
(* The records that the server keeps, and the pages that show them.  A     *)
(* behaviour is of one part, chosen at its start; the other stands still.  *)
(***************************************************************************)
EXTENDS Telemetry, Dashboard, TLC

VARIABLE part

ConsoleInit ==
    /\ TelemetryInit /\ DashboardInit
    /\ \/ part = "records" /\ area = "runs" /\ total = 0
       \/ part = "pages" /\ backend = "sqlite" /\ scene = "traces"

ConsoleNext ==
    \/ part = "records" /\ TelemetryNext /\ UNCHANGED <<dashboardVars, part>>
    \/ part = "pages" /\ DashboardNext /\ UNCHANGED <<telemetryVars, part>>

ConsoleSpec == ConsoleInit /\ [][ConsoleNext]_<<telemetryVars, dashboardVars, part>>

\* More symmetry than this costs more time than it saves.
Symmetry == Permutations(RowIds)
=============================================================================
