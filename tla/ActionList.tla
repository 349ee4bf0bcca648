----------------------------- MODULE ActionList -----------------------------
(***************************************************************************)
(* What fin.d/filesystems promises to the session that started it: the     *)
(* marked partitions are worked on one after the other, only the           *)
(* destination of the current one is ever written, the next one is begun   *)
(* only when the current one is complete, and the script says that it      *)
(* succeeded only after the last one.                                      *)
(***************************************************************************)
EXTENDS Integers

CONSTANTS NParts,  \* partitions, in order
          Size     \* what a complete destination holds

VARIABLES marked,  \* does the partition have something to be done?
          dest,    \* what the destination of each partition holds
          pos,     \* the current partition
          fin      \* "run", "ok" or "failed"

avars == <<marked, dest, pos, fin>>

AInit ==
    /\ marked \in [1..NParts -> BOOLEAN]
    /\ dest \in [1..NParts -> 0..Size]
    /\ pos = 1 /\ fin = "run"

\* Something is written at the current destination.
Work ==
    /\ fin = "run" /\ pos <= NParts /\ marked[pos]
    /\ \E n \in 0..Size : dest' = [dest EXCEPT ![pos] = n]
    /\ UNCHANGED <<marked, pos, fin>>

\* The current partition is complete, or has nothing to be done.
Advance ==
    /\ fin = "run" /\ pos <= NParts
    /\ \/ ~marked[pos] /\ UNCHANGED dest
       \/ marked[pos] /\ dest' = [dest EXCEPT ![pos] = Size]
    /\ pos' = pos + 1
    /\ UNCHANGED <<marked, fin>>

\* The work on the current partition is given up; what its destination holds
\* then is not said.
GiveUp ==
    /\ fin = "run" /\ pos <= NParts /\ marked[pos]
    /\ fin' = "failed"
    /\ \E n \in 0..Size : dest' = [dest EXCEPT ![pos] = n]
    /\ UNCHANGED <<marked, pos>>

Finish ==
    /\ fin = "run" /\ pos = NParts + 1
    /\ fin' = "ok"
    /\ UNCHANGED <<marked, dest, pos>>

ANext == Work \/ Advance \/ GiveUp \/ Finish

ASpec == AInit /\ [][ANext]_avars
=============================================================================
