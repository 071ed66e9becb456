---------------------------- MODULE TombstoneFeed ----------------------------
(***************************************************************************)
(* What an iterator over range tombstones promises to the goroutines that  *)
(* share it: one list, handed out front to back, every tombstone to one    *)
(* call of Next, and after the last of them every call is told the end.    *)
(***************************************************************************)
EXTENDS Sequences

CONSTANTS
  Readers,  \* the goroutines that call Next
  Tombstones,
  Idle,     \* answer of a goroutine outside Next
  Asked,    \* answer of a call of Next that has none yet
  End       \* answer of a call that found the list exhausted

VARIABLES
  left,     \* the tombstones nobody was given yet, in order
  answer    \* answer[r]: what the call of Next of r is going to return

vars == <<left, answer>>

Init ==
  /\ left = <<>>
  /\ answer = [r \in Readers |-> Idle]

\* The iterator is made for a list.
Open ==
  /\ left = <<>>
  /\ left' \in Seq(Tombstones)
  /\ UNCHANGED answer

Ask(r) ==
  /\ answer[r] = Idle
  /\ answer' = [answer EXCEPT ![r] = Asked]
  /\ UNCHANGED left

Take(r) ==
  /\ answer[r] = Asked
  /\ left # <<>>
  /\ answer' = [answer EXCEPT ![r] = Head(left)]
  /\ left' = Tail(left)

Refuse(r) ==
  /\ answer[r] = Asked
  /\ left = <<>>
  /\ answer' = [answer EXCEPT ![r] = End]
  /\ UNCHANGED left

Return(r) ==
  /\ answer[r] \notin {Idle, Asked}
  /\ answer' = [answer EXCEPT ![r] = Idle]
  /\ UNCHANGED left

\* Closing the iterator drops what nobody took.
Close ==
  /\ answer = [r \in Readers |-> Idle]
  /\ left' = <<>>
  /\ UNCHANGED answer

Next ==
  \/ Open
  \/ \E r \in Readers : Ask(r) \/ Take(r) \/ Refuse(r) \/ Return(r)
  \/ Close

Spec == Init /\ [][Next]_vars
=============================================================================
