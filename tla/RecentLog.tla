------------------------------ MODULE RecentLog ------------------------------
(***************************************************************************)
(* A log of bounded capacity that keeps the most recent records.  The log  *)
(* is a text, in which each record is followed by an end mark.  A new      *)
(* record pushes out as many of the oldest ones as it needs room for, and  *)
(* no more.  The log may be lost as a whole.                               *)
(***************************************************************************)
EXTENDS Integers, Sequences

CONSTANTS Capacity, Records, End

VARIABLE log

\* The places after whole records, where the log can be cut.
Cuts == {0} \cup {k \in 1 .. Len(log) : log[k] = End}
Rest(k) == SubSeq(log, k + 1, Len(log))
Fits(k, r) == (Len(log) - k) + Len(r) + 1 <= Capacity

Init == log = << >>

\* Nothing more is cut off than the record needs.
Needed(k, r) == k \in Cuts /\ Fits(k, r) /\ \A j \in Cuts : j < k => ~Fits(j, r)

Add(r) ==
  \E k \in 0 .. Len(log) :
    /\ Needed(k, r)
    /\ log' = Rest(k) \o r \o <<End>>

Lose == log' = << >>

Next == Lose \/ \E r \in Records : Add(r)

Spec == Init /\ [][Next]_log
==============================================================================
