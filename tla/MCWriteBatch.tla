----------------------------- MODULE MCWriteBatch ----------------------------
(* Every operation once, with keys whose length takes one and two digits. *)
EXTENDS WriteBatch

LongKey == [i \in 1..17 |-> i]

O(op, cf, key, value) == [op |-> op, cf |-> cf, key |-> key, value |-> value]

MCOps ==
  { O("put", 0, <<>>, <<5>>), O("put", 20, <<3>>, LongKey), O("merge", 0, <<2, 17>>, <<>>),
    O("merge", 1, <<7>>, <<0>>), O("delete", 0, <<15>>, <<>>), O("delete", 20, <<1>>, <<>>),
    O("single", 0, <<4>>, <<>>), O("single", 2, <<>>, <<>>), O("range", 0, <<1>>, <<2>>),
    O("range", 16, <<14>>, <<14>>), O("blob", 0, <<6>>, <<31>>), O("blob", 3, <<6>>, <<>>),
    O("log", 0, <<>>, <<1, 2>>), O("end", 0, <<>>, <<8>>), O("commit", 0, <<>>, <<8>>),
    O("rollback", 0, <<>>, <<9>>), O("begin", 0, <<>>, <<>>), O("persisted", 0, <<>>, <<>>),
    O("noop", 0, <<>>, <<>>) }

(* A short batch damaged in the two bytes after its first record type, where
   lengths and family ids are. *)
MCDamage(s) ==
  IF Len(s) \in (HeaderLen + 3)..(HeaderLen + 5)
    THEN { [s EXCEPT ![HeaderLen + 2] = x, ![HeaderLen + 3] = y] :
             x \in {0, 2, 16, 21, 31}, y \in {0, 1, 15, 16, 31} }
    ELSE {}
=============================================================================
