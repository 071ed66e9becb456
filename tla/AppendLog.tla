------------------------------ MODULE AppendLog ------------------------------
(***************************************************************************)
(* What a callback registry promises to the rest of the binding: an        *)
(* append-only log.  An entry enters the log in one atomic step, its owner *)
(* is told the position it got, and a lookup at a position somebody was    *)
(* told returns the entry that was put there.                              *)
(***************************************************************************)
EXTENDS Integers, Sequences

CONSTANTS
  Calls,    \* the calls of Append; each call appends one entry, named like it
  Readers,  \* the threads that call Get
  Nil       \* "no entry"

VARIABLES
  log,      \* the entries, in the order in which they took effect
  index,    \* index[c]: the position call c was answered, -1 before that
  got       \* got[r]: the last lookup of r, <<position, entry>>

vars == <<log, index, got>>

Init ==
  /\ log = <<>>
  /\ index = [c \in Calls |-> -1]
  /\ got = [r \in Readers |-> <<-1, Nil>>]

\* The append of c takes effect.
Add(c) ==
  /\ \A i \in 1..Len(log) : log[i] # c
  /\ log' = Append(log, c)
  /\ UNCHANGED <<index, got>>

\* The call of c returns the position of its entry.
Answer(c) ==
  /\ index[c] = -1
  /\ \E i \in 1..Len(log) :
       /\ log[i] = c
       /\ index' = [index EXCEPT ![c] = i - 1]
  /\ UNCHANGED <<log, got>>

\* A lookup at the position that some call was answered.
Lookup(r, c) ==
  /\ index[c] # -1
  /\ got' = [got EXCEPT ![r] = <<index[c], log[index[c] + 1]>>]
  /\ UNCHANGED <<log, index>>

Next ==
  \/ \E c \in Calls : Add(c) \/ Answer(c)
  \/ \E r \in Readers, c \in Calls : Lookup(r, c)

Spec == Init /\ [][Next]_vars
=============================================================================
