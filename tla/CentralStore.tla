----------------------------- MODULE CentralStore -----------------------------
(***************************************************************************)
(* What the central server promises the regions while nobody else uses its *)
(* database: a measurement that is submitted is stored once at most, and   *)
(* confirmed once at most and only after it was stored.  Anything that is  *)
(* under way may be forgotten (a region or the server dies); what is       *)
(* stored or confirmed stays so.                                           *)
(***************************************************************************)
EXTENDS Integers

CONSTANT Regions

VARIABLES
    pending,      \* per region: measurements submitted and not stored
    unconfirmed,  \* stored and not confirmed
    stored,       \* all that were stored
    confirmed     \* all that were confirmed

vars == <<pending, unconfirmed, stored, confirmed>>

Submit(r) ==
    /\ pending' = [pending EXCEPT ![r] = @ + 1]
    /\ UNCHANGED <<unconfirmed, stored, confirmed>>

Store(r) ==
    /\ pending[r] > 0
    /\ pending' = [pending EXCEPT ![r] = @ - 1]
    /\ unconfirmed' = [unconfirmed EXCEPT ![r] = @ + 1]
    /\ stored' = [stored EXCEPT ![r] = @ + 1]
    /\ UNCHANGED confirmed

Confirm(r) ==
    /\ unconfirmed[r] > 0
    /\ unconfirmed' = [unconfirmed EXCEPT ![r] = @ - 1]
    /\ confirmed' = [confirmed EXCEPT ![r] = @ + 1]
    /\ UNCHANGED <<pending, stored>>

\* How many measurements of a region may still be under way.
Fewer(n) == 0 .. n

Forget ==
    /\ \A r \in Regions : pending'[r] \in Fewer(pending[r])
    /\ \A r \in Regions : unconfirmed'[r] \in Fewer(unconfirmed[r])
    /\ UNCHANGED <<stored, confirmed>>

Init ==
    /\ pending     = [r \in Regions |-> 0]
    /\ unconfirmed = [r \in Regions |-> 0]
    /\ stored      = [r \in Regions |-> 0]
    /\ confirmed   = [r \in Regions |-> 0]

Next == Forget \/ \E r \in Regions : Submit(r) \/ Store(r) \/ Confirm(r)

Spec == Init /\ [][Next]_vars
=============================================================================
