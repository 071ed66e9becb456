-------------------------- MODULE MCRangeTombstones --------------------------
(***************************************************************************)
(* Three versions: a compaction replaces f1 and f2 by f3, a flush then     *)
(* adds f4.  A file without tombstones, one with two; two calls that list, *)
(* two goroutines that iterate.                                            *)
(***************************************************************************)
EXTENDS RangeTombstones

MCFiles == {"f1", "f2", "f3", "f4"}

MCTombstonesOf ==
  [f \in MCFiles |-> CASE f = "f1" -> << <<f, 1>>, <<f, 2>> >>
                       [] f = "f2" -> <<>>
                       [] f = "f3" -> << <<f, 1>> >>
                       [] f = "f4" -> << <<f, 1>> >>]

MCTombstones == UNION {Range(MCTombstonesOf[f]) : f \in MCFiles}

MCHistory == << <<"f1", "f2">>, <<"f3">>, <<"f4", "f3">> >>
=============================================================================
