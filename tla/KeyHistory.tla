----------------------------- MODULE KeyHistory -----------------------------
(***************************************************************************)
(* What a client sees of one key of a database with a merge operator: a    *)
(* value, which each write changes at once, and for each snapshot the      *)
(* value there was when it was made.  There are no entries, no operands    *)
(* that wait to be merged, and no compactions.                             *)
(*                                                                         *)
(* As in MergeStack a value is the sequence of the numbers of the writes   *)
(* that made it, with FromNothing before what was merged onto a missing    *)
(* key.                                                                    *)
(***************************************************************************)
EXTENDS Integers, Sequences

CONSTANT
    Nothing  \* the value of a missing key

VARIABLES
    count,   \* the number of writes so far
    value,   \* the value of the key
    frozen   \* frozen[s]: its value in the snapshot made after s writes

vars == <<count, value, frozen>>

FromNothing == 0

Init ==
    /\ count = 0
    /\ value = Nothing
    /\ frozen = [s \in {} |-> Nothing]

Becomes(v) ==
    /\ count' = count + 1
    /\ value' = v
    /\ UNCHANGED frozen

Own == <<count + 1>>

Put    == \E v \in {<<>>, Own} : Becomes(v)
Delete == Becomes(Nothing)
Merge  == Becomes((IF value = Nothing THEN <<FromNothing>> ELSE value) \o Own)

NewSnapshot ==
    /\ frozen' = [s \in DOMAIN frozen \cup {count} |-> IF s = count THEN value ELSE frozen[s]]
    /\ UNCHANGED <<count, value>>

ReleaseSnapshot(s) ==
    /\ frozen' = [t \in DOMAIN frozen \ {s} |-> frozen[t]]
    /\ UNCHANGED <<count, value>>

Next ==
    \/ Put \/ Delete \/ Merge
    \/ NewSnapshot
    \/ \E s \in DOMAIN frozen : ReleaseSnapshot(s)

Spec == Init /\ [][Next]_vars
=============================================================================
