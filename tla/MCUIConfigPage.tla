--------------------------- MODULE MCUIConfigPage ---------------------------
(* UIConfigPage with two rooms that share the name of a display, one of them *)
(* with a microphone, a template with a panel and one without (Custom).      *)
EXTENDS UIConfigPage, TLC

CONSTANTS r1, r2, hdmi, d1, mic, old, cp1, cp2, template, custom, o1, o2, o3

MCInputsOf     == (r1 :> {hdmi}) @@ (r2 :> {})
MCDisplaysOf   == (r1 :> {d1}) @@ (r2 :> {d1})
MCMicsOf       == (r1 :> {}) @@ (r2 :> {mic})
MCProcessorsOf == (r1 :> {cp1}) @@ (r2 :> {cp2})
MCPanelsIn     == (template :> 1) @@ (custom :> 0)

(* The first room has a configuration, which lists a device that has left    *)
(* it; the second may have one.                                              *)
OldConfig == [panels |-> 1, inputs |-> Listed({}), outputs |-> Listed({old})]
MCInit == Init /\ stored[r1] = OldConfig /\ stored[r2] \in {None, OldConfig}
MCSpec == MCInit /\ [][Next]_vars
=============================================================================
