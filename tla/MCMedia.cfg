CONSTANTS
  Player = {p1, p2}
  Apng = {a1}
  Nobody = Nobody
  Widget = {w1}
  Slave = {s1}
  Snapshot = {1, 2}
SPECIFICATION MCSpec
INVARIANTS RuntimeInv WidgetInv
PROPERTIES WorkersFinish WidgetsSettle
