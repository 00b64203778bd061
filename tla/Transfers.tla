----------------------------- MODULE Transfers ------------------------------
(***************************************************************************)
(* What a scan for transfers between own accounts may find: the result of  *)
(* the two loops of app/services/bank_account_integrity.py, without the    *)
(* order they go in.                                                       *)
(***************************************************************************)

\* The rows that some pair names
Ends(pairs) == {p[1] : p \in pairs} \cup {p[2] : p \in pairs}

\* No debit and no credit is in two pairs.
OneToOne(pairs) ==
    \A p, q \in pairs : p[1] = q[1] \/ p[2] = q[2] => p = q

\* The compatible pairs among the rows R
Within(compatible, R) == {p \in compatible : p[1] \in R /\ p[2] \in R}

\* Pairs among R that leave no compatible debit and credit unpaired.
Scans(compatible, R) ==
    {pairs \in SUBSET Within(compatible, R) :
        /\ OneToOne(pairs)
        /\ \A p \in Within(compatible, R) :
              p[1] \in Ends(pairs) \/ p[2] \in Ends(pairs)}
=============================================================================
