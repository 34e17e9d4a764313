------------------------------ MODULE MCUpload ------------------------------
(* Two parts; four versions of a file: b changes a part of a only, d changes *)
(* both and keeps the shape, c has another shape.                            *)
EXTENDS Upload

MCParts == 1..2
MCPlans == {"a", "b", "c", "d"}
MCContent == [v \in MCPlans |->
                CASE v = "a" -> <<"x", "y">> [] v = "b" -> <<"x", "z">>
                  [] v = "c" -> <<"u", "v">> [] v = "d" -> <<"u", "w">>]
MCShape == [v \in MCPlans |-> IF v = "c" THEN 2 ELSE 1]
=============================================================================
