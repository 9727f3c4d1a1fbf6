----------------------------- MODULE MCSuperbox -----------------------------
(***************************************************************************)
(* A network of three applications, to run superboxes on.  The first is a  *)
(* chain with a second input, of which a stream may stay silent; the other *)
(* two share all their boxes, a merge among them:                          *)
(*     inA -> 1 -> m,   m, sideA -> 2 -> outA                              *)
(*     inB -> 3 -> n,   n, sideB -> 4 -> { outB, outC }                    *)
(***************************************************************************)
EXTENDS SuperboxProperties, ApplicationTrees, TLC

Symmetry == Permutations(Workers)

ThreeBoxes  == 1..4
ThreeIns    == {"inA", "sideA", "inB", "sideB"}
ThreeArcs   == ThreeIns \cup {"m", "outA", "n", "outB", "outC"}
ThreeSrcId  == [a \in ThreeArcs |->
  CASE a = "m" -> 1 [] a = "outA" -> 2 [] a = "n" -> 3 [] a \in {"outB", "outC"} -> 4
    [] OTHER -> NoBox]
ThreeDestId == [a \in ThreeArcs |->
  CASE a = "inA" -> 1 [] a \in {"m", "sideA"} -> 2
    [] a = "inB" -> 3 [] a \in {"n", "sideB"} -> 4
    [] OTHER -> NoBox]
ThreeInputs  == <<<<"inA">>, <<"m", "sideA">>, <<"inB">>, <<"n", "sideB">>>>
ThreeOutputs == <<<<"m">>, <<"outA">>, <<"n">>, <<"outB", "outC">>>>

ThreeMessages == [a \in ThreeIns |-> 3]
ThreeWinSize  == [b \in ThreeBoxes |-> 1]
ThreeApps     == <<"outA", "outB", "outC">>
ThreePlans    == {<<"APP_RR_TYPE", "MIN_COST">>, <<"APP_SLOPE_SLACK_TYPE", "MIN_MEMORY">>,
                  <<"APP_RANDOM_TYPE", "MIN_LATENCY">>, <<"APP_LQF_TYPE", "MIN_LATENCY">>}
ThreeCost     == [b \in ThreeBoxes |-> 1]

\* NULL, where an element is expected.
NoElement == [app |-> 0]

\* Which streams speak, and how much.
Silent == [a \in ThreeIns |-> 0]
ThreeProfiles ==
  {[Silent EXCEPT !["inA"] = 2],
   [Silent EXCEPT !["inA"] = 1, !["sideA"] = 1],
   [Silent EXCEPT !["inB"] = 1, !["sideB"] = 2]}
=============================================================================
