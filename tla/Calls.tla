------------------------------- MODULE Calls --------------------------------
(***************************************************************************)
(* What a dialog with parted_server promises: calls are made one at a      *)
(* time; each is executed at most once, while it is the one being made;    *)
(* the caller goes on with the answer to its own call, or without any.     *)
(***************************************************************************)
EXTENDS Naturals, Sequences

VARIABLES
    made,      \* calls made so far, which is the number of the last one
    pending,   \* the last one has not returned
    executed,  \* the calls that have been executed, in order
    answered   \* the last call the caller has the answer of

callVars == <<made, pending, executed, answered>>

Init == made = 0 /\ pending = FALSE /\ executed = <<>> /\ answered = 0

Executed(n) == \E i \in DOMAIN executed : executed[i] = n

Ask ==
    /\ ~pending /\ pending' = TRUE /\ made' = made + 1
    /\ UNCHANGED <<executed, answered>>

Execute ==
    /\ pending /\ ~Executed(made) /\ executed' = Append(executed, made)
    /\ UNCHANGED <<made, pending, answered>>

Answer ==
    /\ pending /\ Executed(made) /\ answered < made /\ answered' = made
    /\ UNCHANGED <<made, pending, executed>>

Return ==
    /\ pending /\ pending' = FALSE
    /\ UNCHANGED <<made, executed, answered>>

Next == Ask \/ Execute \/ Answer \/ Return
Spec == Init /\ [][Next]_callVars
=============================================================================
