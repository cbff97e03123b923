--------------------------- MODULE EventCollection ---------------------------
(***************************************************************************)
(* What shipping local events to a workspace promises, whatever fails on   *)
(* the way: the service holds a gapless prefix of the machine's log, in    *)
(* log order and without repetition, and the machine counts as shipped     *)
(* nothing the service does not hold.  The mark of what is shipped may     *)
(* fall back, after which events are sent again.                           *)
(***************************************************************************)
EXTENDS Naturals, Sequences

CONSTANT Events

VARIABLES
  recorded,    \* events of the local log, oldest first
  collected,   \* events held by the service, in the order they were stored
  confirmed    \* how many events of the log the machine considers shipped

vars == <<recorded, collected, confirmed>>

Init == recorded = << >> /\ collected = << >> /\ confirmed = 0

Record(e) ==
  /\ \A i \in DOMAIN recorded : recorded[i] # e
  /\ recorded' = Append(recorded, e)
  /\ UNCHANGED <<collected, confirmed>>

Collect ==
  /\ Len(collected) < Len(recorded)
  /\ collected' = Append(collected, recorded[Len(collected) + 1])
  /\ UNCHANGED <<recorded, confirmed>>

Confirm ==
  /\ confirmed' \in 0 .. Len(collected)
  /\ UNCHANGED <<recorded, collected>>

Next == (\E e \in Events : Record(e)) \/ Collect \/ Confirm

Spec == Init /\ [][Next]_vars

=============================================================================
