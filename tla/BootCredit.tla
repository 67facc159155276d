----------------------------- MODULE BootCredit -----------------------------
(***************************************************************************)
(* What the A/B flow promises about starting kernels, whatever fails in    *)
(* between.  Every slot has a credit of kernel starts.  A slot the OS has  *)
(* confirmed may be started at any time; any other slot pays one credit    *)
(* for each start, and pays it durably before the start.  Credits are only *)
(* refilled by the running OS, for one slot at a time, or for both slots   *)
(* when the record that holds them is lost.                                *)
(***************************************************************************)
EXTENDS Naturals

CONSTANTS Slots, MaxTries, NoSlot

VARIABLES
  credit,     \* kernel starts each slot has left
  confirmed,  \* whether the OS confirmed that the slot works
  running     \* the slot whose OS runs, or NoSlot

vars == <<credit, confirmed, running>>

Init ==
  /\ credit \in [Slots -> 0 .. MaxTries]
  /\ confirmed \in [Slots -> BOOLEAN]
  /\ running = NoSlot

Start(s) ==
  /\ running = NoSlot
  /\ confirmed[s] \/ credit[s] > 0
  /\ credit' = IF confirmed[s] THEN credit ELSE [credit EXCEPT ![s] = @ - 1]
  /\ running' = s
  /\ UNCHANGED confirmed

Stop ==
  /\ running # NoSlot
  /\ running' = NoSlot
  /\ UNCHANGED <<credit, confirmed>>

(* The firmware may spend credits and withdraw confirmations. *)
Shrink ==
  /\ running = NoSlot
  /\ credit' \in [Slots -> 0 .. MaxTries]
  /\ confirmed' \in [Slots -> BOOLEAN]
  /\ \A s \in Slots : credit'[s] <= credit[s] /\ (confirmed'[s] => confirmed[s])
  /\ UNCHANGED running

(* The OS refills, retires or confirms one slot. *)
Manage(s) ==
  /\ running # NoSlot
  /\ \/ /\ credit' = [credit EXCEPT ![s] = MaxTries]
        /\ confirmed' = [confirmed EXCEPT ![s] = FALSE]
     \/ /\ credit' = [credit EXCEPT ![s] = 0]
        /\ confirmed' = [confirmed EXCEPT ![s] = FALSE]
     \/ /\ confirmed[s] \/ credit[s] > 0
        /\ credit' = [credit EXCEPT ![s] = 0]
        /\ confirmed' = [confirmed EXCEPT ![s] = TRUE]
  /\ UNCHANGED running

LoseRecord ==
  /\ credit' = [s \in Slots |-> MaxTries]
  /\ confirmed' = [s \in Slots |-> FALSE]
  /\ UNCHANGED running

Next ==
  \/ \E s \in Slots : Start(s) \/ Manage(s)
  \/ Stop \/ Shrink \/ LoseRecord

Spec == Init /\ [][Next]_vars
============================================================================
