------------------------------- MODULE Gateway -------------------------------
(***************************************************************************)
(* What the program promises to one client that asks for a destination,    *)
(* however many hops are between: nothing is contacted for a client that   *)
(* has not shown the token, what is contacted is what was asked for, and   *)
(* success is told once, after the destination was reached -- unless the   *)
(* way there is optimistic (OwOSS), where the far end reaches it later.    *)
(***************************************************************************)
CONSTANTS None, Dests

VARIABLES
    guarded,     \* a token is required
    optimistic,  \* success may be told before the destination is reached
    shown,       \* the client has shown the token
    asked,       \* the destination accepted from the client
    reached,     \* the destination contacted
    told         \* "nothing", "success" or "failure"

vars == <<guarded, optimistic, shown, asked, reached, told>>

Init ==
    /\ guarded \in BOOLEAN
    /\ optimistic = FALSE /\ shown = FALSE
    /\ asked = None /\ reached = None
    /\ told = "nothing"

Show ==
    /\ shown' = TRUE
    /\ UNCHANGED <<guarded, optimistic, asked, reached, told>>

Ask ==
    /\ asked = None /\ told = "nothing"
    /\ guarded => shown
    /\ asked' \in Dests /\ optimistic' \in BOOLEAN
    /\ UNCHANGED <<guarded, shown, reached, told>>

Reach ==
    /\ asked # None /\ reached = None
    /\ reached' = asked
    /\ UNCHANGED <<guarded, optimistic, shown, asked, told>>

Accept ==
    /\ told = "nothing" /\ asked # None
    /\ reached = asked \/ optimistic
    /\ told' = "success"
    /\ UNCHANGED <<guarded, optimistic, shown, asked, reached>>

Refuse ==
    /\ told = "nothing"
    /\ told' = "failure"
    /\ UNCHANGED <<guarded, optimistic, shown, asked, reached>>

Next == Show \/ Ask \/ Reach \/ Accept \/ Refuse

Spec == Init /\ [][Next]_vars
=============================================================================
