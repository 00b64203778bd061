------------------------------ MODULE Pairing -------------------------------
(***************************************************************************)
(* The two loops of detect_own_account_transfers                           *)
(* (app/services/bank_account_integrity.py): for each debit, the first     *)
(* credit that agrees with it and is not used yet.  The query has no       *)
(* ORDER BY, so both lists come in any order; which debits and credits     *)
(* agree (other account, amount and date within tolerance) is any relation.*)
(***************************************************************************)
EXTENDS Transfers, Integers, Sequences, FiniteSets

CONSTANTS Debits, Credits

VARIABLES
    compatible,   \* the input: pairs whose account, amount and date agree
    debits,       \* the input: the order of the debits
    credits,      \* the input: the order of the credits
    next,         \* position of the next debit of the outer loop
    pairs         \* what has been flagged together; used_credit_ids

pairingVars == <<compatible, debits, credits, next, pairs>>

ASSUME PairingAssumption ==
    /\ IsFiniteSet(Debits) /\ IsFiniteSet(Credits)
    /\ Debits \cap Credits = {}

\* The ways to list a set
Orders(S) ==
    LET n == Cardinality(S)
    IN  {o \in [1 .. n -> S] :
            \A x \in S : \E i \in 1 .. n : \A j \in 1 .. n : o[j] = x <=> j = i}

PairingInit ==
    /\ compatible \in SUBSET (Debits \X Credits)
    /\ debits \in Orders(Debits)
    /\ credits \in Orders(Credits)
    /\ next = 1
    /\ pairs = {}

\* The inner loop does not `continue` past this credit.
BugFits(d, j) == <<d, credits[j]>> \in compatible   \* a bug: used is not tested
Fits(d, j) ==
    /\ credits[j] \notin {p[2] : p \in pairs}
    /\ <<d, credits[j]>> \in compatible

\* One turn of the outer loop.
Turn ==
    LET d == debits[next]
    IN  /\ next <= Cardinality(Debits)
        /\ \/ \E j \in 1 .. Cardinality(Credits) :
                 /\ Fits(d, j)
                 /\ \A k \in 1 .. j - 1 : ~Fits(d, k)
                 /\ pairs' = pairs \cup {<<d, credits[j]>>}
           \/ /\ \A j \in 1 .. Cardinality(Credits) : ~Fits(d, j)
              /\ UNCHANGED pairs
        /\ next' = next + 1
        /\ UNCHANGED <<compatible, debits, credits>>

PairingSpec == PairingInit /\ [][Turn]_pairingVars

\* The loops pair no row twice and leave no debit and credit that agree: what
\* they find is one of the results module TransferScan takes a scan to have
\* (bank_account_integrity.py:125).
LoopsFindScan ==
    next > Cardinality(Debits) =>
        pairs \in Scans(compatible, Debits \cup Credits)
=============================================================================
