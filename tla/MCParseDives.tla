---------------------------- MODULE MCParseDives ----------------------------
(* Profiles of up to three bytes, and longer ones for the records that     *)
(* take four bytes, for ParseDives.                                        *)
EXTENDS ParseDives

MCModels == {"smart_pro", "galileo_sol", "smart_tec"}

Bytes == {1, 194, 253, 255}

Short == UNION {[1 .. n -> Bytes] : n \in 0 .. 3}

Long ==
  {<<253, 0, 9, 1, 193>>,          \* Smart Pro: depth, depth, time
   <<254, 0, 5, 253, 1, 0, 226>>,  \* Smart Pro: temperature, depth, alarms
   <<241, 0, 9, 2, 245, 0, 5, 1>>, \* Galileo: depth, depth, pressure, depth
   <<1, 250, 1>>,                  \* Galileo: one code too large
   <<243, 0, 5, 233, 194, 249, 3, 1>>, \* Galileo: temperature, alarms, time
   <<255, 0, 0, 9, 1, 1>>,         \* Smart Tec: depth, pressure and depth
   <<255, 240, 1, 0, 254, 2>>,     \* Smart Tec: pressure of tank 3, time
   <<255, 255, 127, 1>>}           \* Smart Tec: no such code

MCData == Short \cup Long

MCHeaders ==
  {[o2 |-> <<210, 400, 0>>, rep |-> 1], [o2 |-> <<400, 500, 320>>, rep |-> 2],
   [o2 |-> <<500, 0, 400>>, rep |-> 1]}

(* Alignment leaves zeros behind a table; or another table follows.        *)
MCStrays == {DTI("pressure_depth", 0, 0, 0, 0, 0), smart_pro_table[1]}
=============================================================================
