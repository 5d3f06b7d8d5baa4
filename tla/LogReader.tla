------------------------------ MODULE LogReader ------------------------------
(***************************************************************************)
(* What a change stream promises: it reads a log that others extend, from  *)
(* the place where it was opened, and yields every matching entry once, in *)
(* the order of the log.                                                   *)
(***************************************************************************)
EXTENDS Integers, Sequences

CONSTANT Unopened

VARIABLES
  now,      \* The length of the log.
  matches,  \* The entries of the log that the pipeline selects.
  last,     \* The entry yielded last, or the place where reading starts.
  yielded   \* The entries yielded so far.

vars == <<now, matches, last, yielded>>

Init == now = 0 /\ matches = {} /\ last = Unopened /\ yielded = <<>>

Extend ==
  /\ now' = now + 1
  /\ matches' \in {matches, matches \cup {now + 1}}
  /\ UNCHANGED <<last, yielded>>

Open ==
  /\ last = Unopened
  /\ last' \in 0..now
  /\ UNCHANGED <<now, matches, yielded>>

\* The next matching entry: none twice, and none left out.
Yield ==
  /\ last # Unopened
  /\ last' \in matches
  /\ last' > last
  /\ \A e \in matches : e <= last \/ e >= last'
  /\ yielded' = Append(yielded, last')
  /\ UNCHANGED <<now, matches>>

Next == Extend \/ Open \/ Yield

Spec == Init /\ [][Next]_vars
=============================================================================
