---------------------------- MODULE MCPrimitives ----------------------------
(***************************************************************************)
(* Three runnables and threads for the pool, four callers of each mutex,   *)
(* three users of a pool that may lease three descriptors, three files     *)
(* that share three of four descriptors, and a top of two or of none out   *)
(* of four keys.  The grid has three buckets, its boxes graphs that fall   *)
(* late, at once, never, or that begin late; in mode "app" the ids of the  *)
(* boxes make the array of bits long enough, too short, or the limit of a  *)
(* walk larger than the number of boxes.  Up to four relation boxes share  *)
(* the tables.                                                             *)
(***************************************************************************)
EXTENDS Primitives

ThreeDescriptors == 3..5
FourNumbers == 3..6
SomeLimits == {<<0, 1>>, <<0, 2>>, <<2, 3>>}
FourKeys == 1..4
ThreeValues == 1..3

Point(x, y) == [x |-> x, y |-> y]
Steep    == <<Point(0, 4), Point(3, 4), Point(9, 0)>>
Late     == <<Point(0, 3), Point(5, 2), Point(8, 0)>>
Short    == <<Point(0, 1), Point(1, 0)>>
Useless  == <<Point(0, 0), Point(4, 0)>>
Starting == <<Point(2, 1), Point(6, 0)>>

\* apps: the applications of each box; cost: from the box to the root.
GridCase(mode, qos, apps, cost) == [mode |-> mode, qos |-> qos, apps |-> apps, cost |-> cost]

SomeGrids ==
  {GridCase("box", <<Steep, Late>>, [b \in 1..3 |-> IF b = 3 THEN {1, 2} ELSE {b}], [b \in 1..3 |-> b - 1]),
   GridCase("box", <<Steep, Short>>, [b \in 1..2 |-> {b}], [b \in 1..2 |-> b]),
   GridCase("box", <<Useless>>, [b \in 1..2 |-> {1}], [b \in 1..2 |-> 0]),
   GridCase("box", <<Starting>>, [b \in 1..2 |-> {1}], [b \in 1..2 |-> b]),
   GridCase("app", <<Steep, Late>>, [b \in 1..3 |-> IF b = 3 THEN {2} ELSE {b}], [b \in 1..3 |-> b - 1]),
   GridCase("app", <<Steep, Late>>, [b \in 0..2 |-> IF b = 0 THEN {1} ELSE {2}], [b \in 0..2 |-> b]),
   GridCase("app", <<Steep, Late>>, [b \in 7..8 |-> IF b = 7 THEN {1} ELSE {1, 2}], [b \in 7..8 |-> b - 7]),
   GridCase("app", <<Steep, Short>>, [b \in 1..2 |-> {b}], [b \in 1..2 |-> b]),
   GridCase("app", <<Steep, Late>>, [b \in {1, 2, 9} |-> IF b = 9 THEN {2} ELSE {b}], [b \in {1, 2, 9} |-> b % 3])}
SomeLatencies == 0..10

(* Relation boxes: what they are given, and which run side by side.        *)

RelInput(kind, input) == [kind |-> kind, input |-> input]
Behind(kind, from) == [kind |-> kind, from |-> from]
Segment(s, dir) == <<1, s, dir>>
Charging(car, seg, dir, ltoll, toll, time) ==
  [car |-> car, time |-> time, lpos |-> Segment(seg, dir), ltoll |-> ltoll, pos |-> Segment(seg, dir), lane |-> 1, toll |-> toll]
ReportAt(car, time, seg, lane) == [car |-> car, time |-> time, exp |-> 1, lane |-> lane, dir |-> 0, x |-> 5280 * seg + 7]
Statistic(time, seg, toll) == [time |-> time, pos |-> Segment(seg, 0), toll |-> toll]
Accident(seg, dir) == [time |-> 5, pos |-> Segment(seg, dir), acc |-> 1]
Row(key, v) == [key |-> key, v |-> v]

SomeRelations == {
  \* charges of three cars by two boxes, and an accident ahead of some
  <<RelInput("updateAccts", <<Charging(1, 1, 0, 2, 3, 0), Charging(2, 0, 0, 1, 1, 0), Charging(1, 5, 0, 3, 4, 0)>>),
    RelInput("updateAccts", <<Charging(3, 5, 0, 2, 2, 0), Charging(1, 5, 0, 4, 2, 0)>>),
    RelInput("updateAcc", <<Accident(5, 0)>>)>>,
  <<RelInput("updateAccts", <<Charging(1, 2, 1, 2, 3, 0), Charging(2, 6, 1, 1, 1, 0), Charging(3, 7, 1, 1, 2, 0), Charging(1, 3, 1, 5, 5, 0)>>),
    RelInput("updateAcc", <<Accident(2, 1), [Accident(2, 1) EXCEPT !.acc = 0]>>)>>,
  \* daily balances by two boxes
  <<RelInput("updateDaily", <<Charging(1, 1, 0, 2, 0, 0), Charging(1, 1, 0, 3, 0, 86400)>>),
    RelInput("updateDaily", <<Charging(1, 1, 0, 4, 0, 86399), Charging(2, 1, 0, 1, 0, 0)>>)>>,
  \* reports become tolls and charges, behind statistics
  <<RelInput("readPos", <<ReportAt(1, 60, 0, 1), ReportAt(1, 90, 0, 0), ReportAt(1, 150, 1, 1)>>),
    Behind("calcToll", 1), Behind("updateAccts", 2),
    RelInput("updateStats", <<Statistic(60, 0, 2), Statistic(90, 0, 3), Statistic(60, 1, 5)>>)>>,
  \* alerts beside charges
  <<RelInput("accAlert", <<Accident(4, 0), Accident(9, 0)>>),
    RelInput("updateAccts", <<Charging(1, 1, 0, 0, 1, 0), Charging(2, 1, 0, 0, 1, 0), Charging(1, 6, 0, 0, 1, 0)>>)>>,
  <<RelInput("update", <<Row(1, 1), Row(2, 1), Row(1, 2)>>),
    RelInput("read", <<Row(1, 0), Row(3, 0), Row(1, 0), Row(2, 0)>>),
    RelInput("segStat", <<[time |-> 5, pos |-> Segment(1, 0), cnt |-> 4]>>)>>}

\* For the promises that the code does not keep: a statistic of one place and a
\* later one, then a report there; a charge, and an accident ahead of the car.
TollRelations == {
  <<RelInput("updateStats", <<Statistic(60, 0, 2), Statistic(90, 0, 3)>>),
    RelInput("readPos", <<ReportAt(1, 90, 0, 1)>>), Behind("calcToll", 2)>>}
AccidentRelations == {
  <<RelInput("updateAccts", <<Charging(1, 1, 0, 2, 3, 0)>>), RelInput("updateAcc", <<Accident(5, 0)>>)>>}
OneGrid == {GridCase("box", <<Short>>, [b \in 1..1 |-> {1}], [b \in 1..1 |-> 0])}
OneDescriptor == 3..3
OneLimit == {<<0, 1>>}
=============================================================================
