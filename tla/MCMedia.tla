-------------------------------- MODULE MCMedia --------------------------------
(* TLC instance of MediaRuntime with the widget on top of it: two players and  *)
(* an APNG compete for the gate and the audio device, or, while no player runs *)
(* and nobody else has the APNG, a widget and its slave use it.                *)
EXTENDS ApngWidget
WidgetsUsed ==
  \/ \E w \in Widget : b[w].life # "none"
  \/ \E x \in Slave : s[x].life # "none"
OneAtATime == WidgetsUsed => \A c \in Unbound : at[c] = "none"
MCSpec == WidgetInit /\ [][WidgetNext /\ OneAtATime']_allVars /\ WidgetFairness
===============================================================================
