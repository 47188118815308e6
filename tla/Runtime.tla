-------------------------------- MODULE Runtime --------------------------------
(* Three parts that run as long as the process and share no state here: the *)
(* program's own course, the log hub and the settings.  A behaviour of      *)
(* Runtime is a behaviour of one of them.                                   *)
EXTENDS Lifecycle, LogHub, Settings

VARIABLE runs   \* the part this behaviour is of

vars == <<runs, lcVars, hubVars, stVars>>

Init == LcInit /\ HubInit /\ StInit /\ runs \in {"lifecycle", "hub", "settings"}

Next == \/ runs = "lifecycle" /\ LcNext /\ UNCHANGED <<runs, hubVars, stVars>>
        \/ runs = "hub" /\ HubNext /\ UNCHANGED <<runs, lcVars, stVars>>
        \/ runs = "settings" /\ StNext /\ UNCHANGED <<runs, lcVars, hubVars>>

\* In the behaviours of one part no fair action of another is enabled.
Spec == Init /\ [][Next]_vars /\ LcFairness /\ HubFairness
=============================================================================
