---- MODULE MCMergeStack ----
(* Four operators: with no optional method, with one, with the other and with both. *)
EXTENDS MergeStack

AllOperators ==
    {{}, {"PartialMerge"}, {"PartialMergeMulti", "Destroy"},
     {"PartialMerge", "PartialMergeMulti", "Destroy"}}

(* The operator of merge_operator_test.go: PartialMergeMulti and no Destroy. *)
TestOperator == {{"PartialMergeMulti"}}
====
