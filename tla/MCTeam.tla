------------------------------- MODULE MCTeam -------------------------------
(***************************************************************************)
(* Team in four settings: requests that interleave freely, with one        *)
(* invitation; and with two invitations, to the owner's role only,         *)
(* requests that interleave as one of Team's three conditions allows.      *)
(***************************************************************************)
EXTENDS Team, TLC

VARIABLE apart   \* the setting: which requests do not overlap

mcVars == <<vars, apart>>

Symmetry == Permutations(Users) \cup Permutations(Invites)
              \cup Permutations(Sessions)

InSetting ==
    /\ apart = "creations" => OneCreation
    /\ apart = "decisions" => OneDecision
    /\ apart = "entrances" => OneEntrance
    /\ apart # "none" => \A s \in Sessions : session[s].role \in {Null, "owner"}
    /\ apart = "none" => Cardinality({i \in Invites : invite[i] # Null}) <= 1

MCInit == Init /\ apart \in {"none", "creations", "decisions", "entrances"}
MCNext == UNCHANGED apart /\ Next /\ InSetting'

MCSpec == MCInit /\ [][MCNext]_mcVars

\* As long as no two requests create one invitation, an address has one pending
\* invitation to a vertical (team_management.py:171-186).
OnePendingApart == apart = "creations" => OnePending

\* As long as no two requests decide one invitation, no role is granted without
\* a pending one (team_management.py:271).
GrantsArePendingApart == [][apart = "decisions" => GrantIsPending]_mcVars

\* As long as nobody is provisioned while joining, joining a team leaves the
\* home alone (merchant_provisioning.py:88).
HomeStaysApart == [][apart = "entrances" => HomeIsKept]_mcVars
=============================================================================
