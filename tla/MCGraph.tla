------------------------------ MODULE MCGraph ------------------------------
(***************************************************************************)
(* The graphs that TLC checks: several sinks without ports and with        *)
(* several interrupters, or a chain source -> filter -> sink, whose filter *)
(* may also be connected to itself, with the default interrupter.          *)
(***************************************************************************)
EXTENDS Graph

CONSTANTS src, flt, snk

\* One port on each side of a component of the chain.
ChainPorts == {[comp |-> src, dir |-> "out"], [comp |-> flt, dir |-> "in"],
               [comp |-> flt, dir |-> "out"], [comp |-> snk, dir |-> "in"]}

\* What the user did so far decides which of the two the graph becomes.
IsChain == ports # {} \/ Range(components) \cap {src, flt} # {}
IsSinks ==
    \/ Range(components) \cap (Sinks \ {snk}) # {}
    \/ \E i \in Interrupters \ {DefaultInterrupter} : isSet[i] \/ i \in interrupters

MCNext ==
    \/ Configure(IF IsSinks THEN Sinks ELSE IF IsChain THEN {src, flt, snk} ELSE Comps,
                 IF IsSinks THEN {} ELSE Ports)
    \/ Run
    \/ Interrupt(IF IsChain THEN {DefaultInterrupter} ELSE Interrupters)

MCSpec == Init /\ [][MCNext]_vars /\ WF_vars(RunStep)
=============================================================================
