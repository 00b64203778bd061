---------------------------- MODULE Entitlement ----------------------------
(***************************************************************************)
(* What billing promises, whatever the gateways, sessions and rows are:    *)
(* a user places orders, pays them, and each paid order raises the user to *)
(* the tier it bought at most once; access may lapse to free at any time.  *)
(* (The docstring of apply_successful_charge in app/services/payments.py.) *)
(***************************************************************************)
CONSTANTS Users, Orders, PaidTiers, Null

VARIABLES placed,  \* Null, or who ordered which tier
          paid,    \* orders the gateway was paid for
          spent,   \* orders that have been applied
          tier     \* what each user may use

vars == <<placed, paid, spent, tier>>

Order == [owner : Users, tier : PaidTiers]

Init ==
    /\ placed = [o \in Orders |-> Null]
    /\ paid = {}
    /\ spent = {}
    /\ tier = [u \in Users |-> "free"]

Place(o, u, t) ==
    /\ placed[o] = Null
    /\ placed' = [placed EXCEPT ![o] = [owner |-> u, tier |-> t]]
    /\ UNCHANGED <<paid, spent, tier>>

Pay(o) ==
    /\ placed[o] # Null
    /\ o \notin paid
    /\ paid' = paid \cup {o}
    /\ UNCHANGED <<placed, spent, tier>>

Grant(o) ==
    /\ o \in paid \ spent
    /\ spent' = spent \cup {o}
    /\ tier' = [tier EXCEPT ![placed[o].owner] = placed[o].tier]
    /\ UNCHANGED <<placed, paid>>

Lapse(u) ==
    /\ tier' = [tier EXCEPT ![u] = "free"]
    /\ UNCHANGED <<placed, paid, spent>>

Next ==
    \/ \E o \in Orders, u \in Users, t \in PaidTiers : Place(o, u, t)
    \/ \E o \in Orders : Pay(o) \/ Grant(o)
    \/ \E u \in Users : Lapse(u)

Spec == Init /\ [][Next]_vars
=============================================================================
