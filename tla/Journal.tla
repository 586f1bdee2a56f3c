------------------------------- MODULE Journal -------------------------------
(***************************************************************************)
(* What the log on the card promises whoever reads it, however the writer  *)
(* queues, rotates and flushes (components/logger/log_file.cpp): a journal *)
(* that only grows at its end, in the order of the entries, and that loses,*)
(* when the power or a write fails, no more than a tail of those that were *)
(* not yet safe.                                                           *)
(***************************************************************************)
EXTENDS Naturals, Sequences

CONSTANT Entries    \* a set of numbers

VARIABLES journal, safe

Init == journal = <<>> /\ safe = 0

Add(e) ==
    /\ \A i \in DOMAIN journal : journal[i] < e
    /\ journal' = Append(journal, e)
    /\ UNCHANGED safe

MakeSafe == safe' = Len(journal) /\ UNCHANGED journal

\* The power, or a write, fails.
Lose ==
    \E n \in safe..Len(journal) :
        journal' = SubSeq(journal, 1, n) /\ safe' \in safe..n

Next == (\E e \in Entries : Add(e)) \/ MakeSafe \/ Lose

Spec == Init /\ [][Next]_<<journal, safe>>
=============================================================================
