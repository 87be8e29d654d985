---------------------------- MODULE MCRangeWalk ----------------------------
(* Small instances of RangeWalk for TLC. *)
EXTENDS RangeWalk

RequestsOver(starts, ends, limits) ==
  [start_date : starts, end_date : ends, cursor : {FALSE}, limit : limits]

(* Ranges from nothing up to one that needs a window too many. *)
SmallRequests ==
  RequestsOver({Some(1)}, {None} \union {Some(t) : t \in {0, 1, 2, 5, 6, 7, 8}},
               {None, Some(1), Some(2)})
  \union RequestsOver({None}, {None}, {None})
  \union [start_date : {Some(1)}, end_date : {None}, cursor : {TRUE}, limit : {None}]

(* Three items; their ids only tell them apart, so ordering the times loses *)
(* nothing.                                                                *)
ThreeItems ==
  {{[id |-> i, at |-> f[i]] : i \in 1..3} :
     f \in {g \in [1..3 -> 1..6] : g[1] <= g[2] /\ g[2] <= g[3]}}

(* The extremes of the integers a date can be given as. *)
ExtremeRequests ==
  RequestsOver({Some(t) : t \in {-8, -1, 0}}, {Some(t) : t \in {-8, 0, 7}}, {None})

NoItems == {{}}
=============================================================================
