------------------------------ MODULE OncePerKey ------------------------------
(***************************************************************************)
(* What an idempotency key promises the client (backend/prisma/            *)
(* schema.prisma:1445-1448): an operation is decided once, it is carried   *)
(* out or refused for good, and every definite answer is that decision.    *)
(* A request may also remain without a definite answer.                    *)
(***************************************************************************)
CONSTANTS Keys, Undecided, Refusal, Results

VARIABLES
    decision,  \* [Keys -> Results \cup {Undecided, Refusal}]
    told       \* the definite answers that were given under each key

vars == <<decision, told>>

Init ==
    /\ decision = [k \in Keys |-> Undecided]
    /\ told = [k \in Keys |-> {}]

\* The operation is carried out, or the refusal is stored.
Decide(k, d) ==
    /\ decision[k] = Undecided
    /\ decision' = [decision EXCEPT ![k] = d]
    /\ UNCHANGED told

Tell(k) ==
    /\ decision[k] # Undecided
    /\ told' = [told EXCEPT ![k] = @ \cup {decision[k]}]
    /\ UNCHANGED decision

\* A refusal that is not stored is decided by being told.
TellRefusal(k) ==
    /\ decision[k] = Undecided
    /\ decision' = [decision EXCEPT ![k] = Refusal]
    /\ told' = [told EXCEPT ![k] = @ \cup {Refusal}]

Next == \E k \in Keys :
    \/ \E d \in Results \cup {Refusal} : Decide(k, d)
    \/ Tell(k)
    \/ TellRefusal(k)

Spec == Init /\ [][Next]_vars
===============================================================================
