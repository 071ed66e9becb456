----------------------------- MODULE MCIterators -----------------------------
(***************************************************************************)
(* One ReadOptions with a bound and a timestamp, over two arrays; three    *)
(* iterators, of which one can be the base of another.                     *)
(***************************************************************************)
EXTENDS Iterators

MCTimestamps == {"timestamp"}
MCSlots == {"iterUpperBound", "timestamp"}
=============================================================================
