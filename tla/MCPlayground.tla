---------------------------- MODULE MCPlayground ----------------------------
(***************************************************************************)
(* The playground's server and the panel in the browser.  A behaviour is   *)
(* of one part, chosen at its start; the other stands still.               *)
(***************************************************************************)
EXTENDS Playground, Streams

VARIABLE part

PartsInit ==
    /\ Init /\ StreamsInit
    /\ \/ part = "server" /\ provider = "sdk"
       \/ part = "panel" /\ kind = [r \in Requests |-> "stream"]

PartsNext ==
    \/ part = "server" /\ Next /\ UNCHANGED <<streamVars, part>>
    \/ part = "panel" /\ StreamsNext /\ UNCHANGED <<vars, part>>

\* The timers and the database, as FairSpec and FairStreams have them; in the part that
\* stands still none of these steps is enabled.
PartsSpec ==
    /\ PartsInit /\ [][PartsNext]_<<vars, streamVars, part>>
    /\ WF_vars(ResetTimeout)
    /\ \A r \in Requests : WF_vars(Fire(r)) /\ WF_vars(TimesOut(r)) /\ WF_vars(Log(r))
    /\ WF_streamVars(StreamTimesOut)
=============================================================================
