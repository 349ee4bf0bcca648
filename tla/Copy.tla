-------------------------------- MODULE Copy --------------------------------
(***************************************************************************)
(* What a copying program promises to whoever looks at its exit status: it *)
(* goes through the input once, from the front to the back, and as long as *)
(* it has not counted an error everything behind it is in the output.  It  *)
(* answers for what it writes, not for an output that drops it afterwards. *)
(***************************************************************************)
EXTENDS Integers

CONSTANT Max   \* units to copy

VARIABLES
    pos,       \* units behind it
    got,       \* units of the input that are in the output
    dropped,   \* units that the output takes and does not keep
    failed,    \* it has counted an error
    ended

copyVars == <<pos, got, dropped, failed, ended>>

Init == pos = 0 /\ got = {} /\ dropped \subseteq Nat /\ ~failed /\ ~ended

\* Some units are passed; what is not in the output then is an error.
Pass ==
    /\ ~ended /\ ended' = FALSE
    /\ pos' \in pos + 1 .. Max
    /\ got \subseteq got'
    /\ (failed => failed')
    /\ ~failed' => got' = (0 .. pos' - 1) \ dropped
    /\ dropped' = dropped

\* An error by which nothing is passed.
Trouble == ~ended /\ failed' /\ UNCHANGED <<pos, got, dropped, ended>>

End == ~ended /\ ended' /\ UNCHANGED <<pos, got, dropped>> /\ (failed => failed')

Next == Pass \/ Trouble \/ End

Spec == Init /\ [][Next]_copyVars
=============================================================================
