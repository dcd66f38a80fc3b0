--------------------------- MODULE PhoneRegistry ----------------------------
(***************************************************************************)
(* What registration promises, without calls, statements or a clock: a     *)
(* phone number has one holder at a time, an id is given out once, and     *)
(* tokens are granted to ids that have held a number, and to no other.     *)
(***************************************************************************)
CONSTANTS Number, Account, Nobody

VARIABLES
    holder,    \* who holds a number now
    claimed,   \* accounts that have ever held one
    granted    \* accounts a token has been granted to

rvars == <<holder, claimed, granted>>

Init ==
    /\ holder = [n \in Number |-> Nobody]
    /\ claimed = {}
    /\ granted = {}

Claim(n, a) ==
    /\ holder[n] = Nobody
    /\ a \notin claimed
    /\ holder' = [holder EXCEPT ![n] = a]
    /\ claimed' = claimed \cup {a}
    /\ UNCHANGED granted

Release(n) ==
    /\ holder[n] # Nobody
    /\ holder' = [holder EXCEPT ![n] = Nobody]
    /\ UNCHANGED <<claimed, granted>>

Grant(a) ==
    /\ a \in claimed
    /\ granted' = granted \cup {a}
    /\ UNCHANGED <<holder, claimed>>

Next ==
    \/ \E n \in Number, a \in Account : Claim(n, a)
    \/ \E n \in Number : Release(n)
    \/ \E a \in Account : Grant(a)

Spec == Init /\ [][Next]_rvars
=============================================================================
