--------------------------- MODULE CheckoutLeases ---------------------------
(***************************************************************************)
(* What the run manager promises about checkouts, without its queue, its   *)
(* provisional ids and the awaits between its steps: a run takes its       *)
(* checkout only when nobody has it, keeps it as long as it is admitted,   *)
(* and gives it back in the step in which it leaves.                       *)
(***************************************************************************)
CONSTANTS Runs, NoRun, Checkouts, CheckoutOf

VARIABLES
    working,    \* admitted runs that work in a checkout
    holder      \* the run each checkout is leased to

Init ==
    /\ working = {}
    /\ holder = [k \in Checkouts |-> NoRun]

\* A run is admitted together with its checkout.
Enter(r) ==
    /\ CheckoutOf[r] \in Checkouts
    /\ r \notin working
    /\ holder[CheckoutOf[r]] = NoRun
    /\ working' = working \cup {r}
    /\ holder' = [holder EXCEPT ![CheckoutOf[r]] = r]

\* A run leaves together with its lease.
Leave(r) ==
    /\ r \in working
    /\ holder[CheckoutOf[r]] = r
    /\ working' = working \ {r}
    /\ holder' = [holder EXCEPT ![CheckoutOf[r]] = NoRun]

\* The host process ends; nothing of this is stored.
Restart ==
    /\ working' = {}
    /\ holder' = [k \in Checkouts |-> NoRun]

Next ==
    \/ \E r \in Runs : Enter(r) \/ Leave(r)
    \/ Restart

Spec == Init /\ [][Next]_<<working, holder>>

\* Two runs never work in the same checkout.
Exclusive == \A r, s \in working : CheckoutOf[r] = CheckoutOf[s] => r = s
=============================================================================
