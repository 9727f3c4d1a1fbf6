----------------------------- MODULE MCRuntime -----------------------------
(***************************************************************************)
(* Small query networks to run the runtime on.                             *)
(***************************************************************************)
EXTENDS RuntimeProperties, TLC

Symmetry == Permutations(Workers)

(***************************************************************************)
(* Chain with a split: in -> box 1 -> { mid, out1 }, mid -> box 2 -> out2. *)
(***************************************************************************)
SplitBoxes   == {1, 2}
SplitArcs    == {"in", "mid", "out1", "out2"}
SplitSrcId   == ("in" :> NoBox) @@ ("mid" :> 1) @@ ("out1" :> 1) @@ ("out2" :> 2)
SplitDestId  == ("in" :> 1) @@ ("mid" :> 2) @@ ("out1" :> NoBox)
                @@ ("out2" :> NoBox)
SplitInputs  == <<<<"in">>, <<"mid">>>>
SplitOutputs == <<<<"mid", "out1">>, <<"out2">>>>
SplitMessages == "in" :> 3
SplitWinSize == <<1, 1>>

(***************************************************************************)
(* Chain: in -> box 1 -> mid -> box 2 -> out.                              *)
(***************************************************************************)
ChainBoxes   == {1, 2}
ChainArcs    == {"in", "mid", "out"}
ChainSrcId   == ("in" :> NoBox) @@ ("mid" :> 1) @@ ("out" :> 2)
ChainDestId  == ("in" :> 1) @@ ("mid" :> 2) @@ ("out" :> NoBox)
ChainInputs  == <<<<"in">>, <<"mid">>>>
ChainOutputs == <<<<"mid">>, <<"out">>>>
ChainMessages == "in" :> 2
ChainWinSize == <<1, 1>>

(***************************************************************************)
(* Union: inA, inB -> box 1 -> out.                                        *)
(***************************************************************************)
UnionBoxes   == {1}
UnionArcs    == {"inA", "inB", "out"}
UnionSrcId   == ("inA" :> NoBox) @@ ("inB" :> NoBox) @@ ("out" :> 1)
UnionDestId  == ("inA" :> 1) @@ ("inB" :> 1) @@ ("out" :> NoBox)
UnionInputs  == <<<<"inA", "inB">>>>
UnionOutputs == <<<<"out">>>>
UnionMessages == ("inA" :> 1) @@ ("inB" :> 1)
UnionWinSize == <<1>>
=============================================================================
