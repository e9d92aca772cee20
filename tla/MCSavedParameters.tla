--------------------------- MODULE MCSavedParameters ---------------------------
(* Two loads, two entities, two readers: i2 is a piece without an id that is  *)
(* folded into i1, so its panel is i1's; i3 is an element of its own.          *)
EXTENDS SavedParameters

CONSTANTS i2, i3, e1, e2

MCIdOf(i) == IF i = i3 THEN e2 ELSE None
MCPanelId(i) == IF i = i3 THEN e2 ELSE e1
================================================================================
