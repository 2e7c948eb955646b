------------------------------ MODULE WriteGate ------------------------------
(***************************************************************************)
(* What governed write-back promises (governance.py: "a pending write      *)
(* never executes until approved"; decide_write_back: "the maker cannot be *)
(* the checker"), with nothing of handlers, snapshots or stores: a write   *)
(* is filed by its maker, authorised by others, and only an authorised     *)
(* write takes effect.                                                     *)
(***************************************************************************)
EXTENDS Naturals

CONSTANTS Requests, Users, NoUser

VARIABLES
    maker,          \* who filed the request; NoUser before it is filed
    authorisers,    \* the governors who have authorised it
    effects         \* how often it has taken effect

vars == <<maker, authorisers, effects>>

Init ==
    /\ maker = [r \in Requests |-> NoUser]
    /\ authorisers = [r \in Requests |-> {}]
    /\ effects = [r \in Requests |-> 0]

File(r, u) ==
    /\ maker[r] = NoUser
    /\ maker' = [maker EXCEPT ![r] = u]
    /\ UNCHANGED <<authorisers, effects>>

Authorise(r, u) ==
    /\ maker[r] \in Users \ {u}
    /\ authorisers' = [authorisers EXCEPT ![r] = @ \cup {u}]
    /\ UNCHANGED <<maker, effects>>

TakeEffect(r) ==
    /\ authorisers[r] # {}
    /\ effects' = [effects EXCEPT ![r] = @ + 1]
    /\ UNCHANGED <<maker, authorisers>>

Next == \E r \in Requests : \/ TakeEffect(r)
                            \/ \E u \in Users : File(r, u) \/ Authorise(r, u)

Spec == Init /\ [][Next]_vars
=============================================================================
