------------------------- MODULE MCBackgroundRegistry -------------------------
(* Finite instances of BackgroundRegistry for TLC. *)
EXTENDS BackgroundRegistryProps, TLC

CONSTANTS c1, c2, c3

Mixed == (c1 :> "child") @@ (c2 :> "terminal") @@ (c3 :> "team")

(* A child Agent and a terminal command together, or a Team alone: the     *)
(* calls share nothing but the executions of the Task, and all three at    *)
(* once are too many for TLC. The pair has one Run, the Team two.          *)
Used == {c \in Calls : tool[c] # "off" \/ c \in marked}
FewAtOnce == (Used \subseteq {c1, c2} /\ run < MaxRun) \/ Used \subseteq {c3}
=============================================================================
