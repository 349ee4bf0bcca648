----------------------------- MODULE Multicast ------------------------------
(***************************************************************************)
(* What udpcast promises: every member is given the slices in their order; *)
(* the sender leaves a slice behind when all who are still members have    *)
(* it, one slice at a time, and ends when it has left all behind or has    *)
(* no member left.  Nothing is promised to one that is no longer a member, *)
(* except that what it is given is in order too.                           *)
(***************************************************************************)
EXTENDS Naturals

CONSTANTS
    Receivers,
    NrSlices   \* the slices of the stream, the empty one at its end included

VARIABLES
    members,
    acked,     \* slices the sender has left behind
    given,     \* for each receiver, the slices it has passed on
    over       \* the sender has ended

multicastVars == <<members, acked, given, over>>

Init ==
    /\ members = Receivers /\ acked = 0
    /\ given = [r \in Receivers |-> 0] /\ over = FALSE

\* At most the slice in hand and the one after it, which is sent ahead.
Give(r) ==
    /\ \E n \in given[r] + 1 .. NrSlices :
           n <= acked + 2 /\ given' = [given EXCEPT ![r] = n]
    /\ UNCHANGED <<members, acked, over>>

Ack ==
    /\ ~over /\ members # {} /\ acked < NrSlices
    /\ \A r \in members : given[r] > acked
    /\ acked' = acked + 1
    /\ UNCHANGED <<members, given, over>>

Leave ==
    /\ ~over /\ \E gone \in SUBSET members : gone # {} /\ members' = members \ gone
    /\ over' = (members' = {})
    /\ UNCHANGED <<acked, given>>

Finish ==
    /\ ~over /\ acked = NrSlices /\ over' = TRUE
    /\ UNCHANGED <<members, acked, given>>

Next == Ack \/ Leave \/ Finish \/ \E r \in Receivers : Give(r)

Spec == Init /\ [][Next]_multicastVars
=============================================================================
