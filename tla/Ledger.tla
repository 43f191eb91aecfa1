------------------------------- MODULE Ledger -------------------------------
(***************************************************************************)
(* What an audit trail promises: entries are added at the end, an entry    *)
(* whose append has returned stays, and only what has not may be lost, until *)
(* somebody breaks it.                                                     *)
(***************************************************************************)
EXTENDS Naturals, Sequences

CONSTANT Entries

VARIABLES
    log,     \* the entries
    stable,  \* how many of them are there to stay
    broken   \* somebody changed it, and nothing is promised any more

Init == log = <<>> /\ stable = 0 /\ broken = FALSE

Add == \E e \in Entries : log' = Append(log, e) /\ UNCHANGED stable
Settle == stable' \in stable..Len(log) /\ UNCHANGED log
Lose == \E n \in stable..Len(log) : log' = SubSeq(log, 1, n) /\ stable' = n

Break == broken' = TRUE

Next ==
    \/ ~broken /\ (Add \/ Settle \/ Lose) /\ UNCHANGED broken
    \/ Break
Spec == Init /\ [][Next]_<<log, stable, broken>>
=============================================================================
