----------------------------- MODULE TeamProofs -----------------------------
(***************************************************************************)
(* Proofs about Team, for any number of users, verticals, invitations and  *)
(* concurrent requests:                                                    *)
(*                                                                         *)
(*   TypeCorrect     every reachable state is well typed                   *)
(*   InvitedOnly     a role in somebody else's merchant was invited        *)
(*   OwnersKept      no step changes or removes an owner's own roles       *)
(*                                                                         *)
(* and, as long as the requests each names do not overlap:                 *)
(*                                                                         *)
(*   OnePendingKept  an address has one pending invitation to a vertical   *)
(*   GrantsPending   only a pending invitation grants a role               *)
(*   HomeKept        who works in their own merchant goes on doing so      *)
(*                                                                         *)
(* The argument: a request that backfills does so in its caller's own      *)
(* merchant.  When it read the caller's roles, either there were none, or  *)
(* the first was in the caller's merchant, or it was in somebody else's -- *)
(* and then, by the invariant itself, it was invited and nothing is        *)
(* missing.  What was read may be stale when it is committed, but a user's *)
(* own merchant is theirs for ever, so the conclusion is not.  Requests    *)
(* that manage a team carry a target other than the caller; requests that  *)
(* accept carry an invitation whose merchant, address and vertical no      *)
(* later write to the row changes.                                         *)
(*                                                                         *)
(* The last three hold because what one kind of request has read can be    *)
(* made stale only by another of its kind: nothing but a creation makes an *)
(* invitation pending (CreationOK), nothing but a decision takes it from   *)
(* who accepts it (DecisionOK), and nothing but a backfill puts a row of   *)
(* the user's own after the one a join is about to add (EntranceOK).       *)
(***************************************************************************)
EXTENDS MCTeam, TLAPS, WellFoundedInduction, FiniteSetTheorems

\* The facts of an invitation that no request changes.
Same(i, j) == /\ i.merchant = j.merchant /\ i.email = j.email
              /\ i.vertical = j.vertical

\* An invitation is for somebody else than its owner.
InvitesOK == \A i \in Invites : invite[i] # Null =>
                invite[i].email # invite[i].merchant

\* A row is its user's own, with the owner's role, or was invited.
RolesOK ==
    /\ \A r \in roles : r.merchant = r.user => r.role = "owner" /\ ~r.invited
    /\ ForeignRolesInvited

\* What a request has read and decided still holds at its commit.
SessionOK(s) ==
    LET c == session[s]
    IN  /\ c.pc = "backfill" => c.user \in Users /\ c.home = c.user
        /\ c.pc = "act" => c.home \in Users
        /\ c.pc \in {"backfill", "act"} => c.invite = Null
        /\ c.pc = "create" =>
              /\ c.home \in Users /\ c.target \in Users /\ c.target # c.home
              /\ c.vertical \in Verticals /\ c.role \in AnyRole
        /\ c.pc = "create" /\ c.invite # Null => invite[c.invite] # Null
        /\ c.pc \in {"resend", "revoke", "expire", "user", "join"} =>
              c.invite \in Invites /\ invite[c.invite] # Null
        /\ c.pc \in {"revoke", "expire", "user", "join"} =>
              c.read \in Invite /\ Same(invite[c.invite], c.read)
        /\ c.pc = "update" =>
              /\ c.row \in RoleRow /\ c.role \in AnyRole
              /\ c.row.user # c.row.merchant

Inv == TypeOK /\ InvitesOK /\ RolesOK /\ \A s \in Sessions : SessionOK(s)

-----------------------------------------------------------------------------

LEMMA Least ==
  ASSUME NEW T \in SUBSET Nat, T # {}
  PROVE  \E m \in T : \A n \in T : m <= n
  <1> DEFINE R == {p \in Nat \X Nat : p[1] < p[2]}
  <1>1. IsWellFoundedOn(R, Nat)
    BY NatLessThanWellFounded DEF OpToRel
  <1> HIDE DEF R
  <1>2. PICK m \in T : \A n \in T : <<n, m>> \notin R
    BY <1>1, WFMin
  <1>3. \A n \in T : ~(n < m)
    BY <1>2 DEF R
  <1> QED BY <1>3

\* A set of rows that is not empty has an oldest one.
LEMMA OldestRow ==
  ASSUME NEW R \in SUBSET RoleRow, R # {}
  PROVE  \E r \in R : \A o \in R : r.at <= o.at
  <1> DEFINE T == {n \in Nat : \E r \in R : r.at = n}
  <1>1. \A r \in R : r.at \in T
    BY DEF RoleRow
  <1>2. T \in SUBSET Nat /\ T # {}
    BY <1>1
  <1>3. PICK n \in T : \A k \in T : n <= k
    <2> HIDE DEF T
    <2> QED BY <1>2, Least
  <1>4. PICK r \in R : r.at = n
    BY <1>3
  <1> QED BY <1>1, <1>3, <1>4

\* The merchant a user works in is one they have a role in.
LEMMA HomeIsOfARole ==
  ASSUME TypeOK, NEW u \in Users, RolesOf(u) # {}
  PROVE  \E r \in RolesOf(u) : Home(u) = r.merchant
  <1>1. RolesOf(u) \in SUBSET RoleRow
    BY DEF TypeOK, RolesOf
  <1>2. \E r \in RolesOf(u) : \A o \in RolesOf(u) : r.at <= o.at
    BY <1>1, OldestRow
  <1> QED BY <1>2 DEF Home

\* Provisioning returns a merchant, and grants roles only in the user's own.
LEMMA BackfillIsOwn ==
  ASSUME TypeOK, RolesOK, NEW u \in Users
  PROVE  Home(u) \in Users /\ (Missing(u) # {} => Home(u) = u)
  <1>1. CASE RolesOf(u) = {}
    BY <1>1 DEF Home
  <1>2. CASE RolesOf(u) # {}
    <2>1. PICK r \in RolesOf(u) : Home(u) = r.merchant
      BY <1>2, HomeIsOfARole
    <2>2. r \in roles /\ r.user = u /\ r.merchant \in Users
      BY DEF RolesOf, TypeOK, RoleRow
    <2>3. Home(u) # u => r.invited
      BY <2>1, <2>2 DEF RolesOK, ForeignRolesInvited
    <2>4. Home(u) # u => Missing(u) = {}
      BY <2>1, <2>3 DEF Missing
    <2> QED BY <2>1, <2>2, <2>4
  <1> QED BY <1>1, <1>2

-----------------------------------------------------------------------------

\* No write to an invitation changes its merchant, address or vertical.
Kept == \A i \in Invites : invite[i] # Null =>
           invite'[i] # Null /\ Same(invite'[i], invite[i])

\* Only request s moves.
Moves(s) == \A o \in Sessions \ {s} : session'[o] = session[o]

LEMMA OthersKept ==
  ASSUME Inv, NEW s \in Sessions, Kept, Moves(s), SessionOK(s)'
  PROVE  \A o \in Sessions : SessionOK(o)'
  <1> SUFFICES ASSUME NEW o \in Sessions, o # s PROVE SessionOK(o)'
    OBVIOUS
  <1>1. session'[o] = session[o] /\ SessionOK(o)
    BY DEF Moves, Inv
  <1>2. session[o].invite \in Invites \cup {Null} /\ Null \notin Invites
    BY TeamAssumption DEF Inv, TypeOK, Session
  <1> QED BY <1>1, <1>2 DEF SessionOK, Kept, Same

LEMMA RolesKept ==
  ASSUME Inv, Kept, roles' \subseteq roles
  PROVE  RolesOK'
  BY DEF Inv, RolesOK, ForeignRolesInvited, Kept, Same

LEMMA Unwritten == ASSUME UNCHANGED invite PROVE Kept
  BY DEF Kept, Same

LEMMA MoveIsOK ==
  ASSUME Inv, NEW s \in Sessions, NEW c \in Session,
         session' = [session EXCEPT ![s] = c]
  PROVE  session'[s] = c /\ Moves(s) /\ session' \in [Sessions -> Session]
  <1>1. session \in [Sessions -> Session]
    BY DEF Inv, TypeOK
  <1> QED BY <1>1 DEF Moves

LEMMA IdleIsOK ==
  ASSUME Inv, NEW s \in Sessions, Reply(s)
  PROVE  Moves(s) /\ SessionOK(s)' /\ session' \in [Sessions -> Session]
  <1>1. NoSession \in Session
    BY DEF NoSession, Session
  <1>2. session' = [session EXCEPT ![s] = NoSession]
    BY DEF Reply
  <1>3. session'[s] = NoSession /\ Moves(s) /\ session' \in [Sessions -> Session]
    BY <1>1, <1>2, MoveIsOK
  <1> QED BY <1>3 DEF SessionOK, NoSession

\* A request that has begun.
LEMMA BegunIsSession ==
  ASSUME TypeOK, NEW u \in Users \cup {Null}
  PROVE  /\ Begun(u) \in Session /\ Begun(u).user = u
         /\ Begun(u).invite = Null /\ Begun(u).at = clock + 1
  <1>1. NoSession \in Session /\ NoSession.invite = Null
    BY DEF NoSession, Session
  <1>2. clock + 1 \in Nat
    BY DEF TypeOK
  <1> DEFINE a == [NoSession EXCEPT !.user = u]
             b == [a EXCEPT !.at = clock + 1]
  <1>3. a \in Session /\ a.user = u /\ a.invite = Null
    BY <1>1 DEF Session
  <1>4. Begun(u) = b
    BY DEF Begun
  <1> HIDE DEF a
  <1>5. b \in Session /\ b.user = u /\ b.invite = Null /\ b.at = clock + 1
    BY <1>2, <1>3 DEF Session
  <1> QED BY <1>4, <1>5

\* A request whose provisioning has been read.
LEMMA StartedIsSession ==
  ASSUME TypeOK, NEW u \in Users, NEW h \in Users, NEW V \in SUBSET Verticals
  PROVE  /\ Started(u, h, V) \in Session
         /\ Started(u, h, V).pc = IF V = {} THEN "act" ELSE "backfill"
         /\ Started(u, h, V).user = u
         /\ Started(u, h, V).home = h
         /\ Started(u, h, V).invite = Null
  <1> DEFINE pc == IF V = {} THEN "act" ELSE "backfill"
             b == Begun(u)
             c == [b EXCEPT !.pc = pc, !.home = h]
             d == [c EXCEPT !.verticals = V]
  <1>1. b \in Session /\ b.user = u /\ b.invite = Null
    BY BegunIsSession
  <1>2. pc \in {"act", "backfill"}
    OBVIOUS
  <1>3. Started(u, h, V) = d
    BY DEF Started
  <1> HIDE DEF pc, b
  <1>4. /\ c \in Session /\ c.pc = pc /\ c.user = u
        /\ c.home = h /\ c.invite = Null
    <2> DEFINE e == [b EXCEPT !.pc = pc]
    <2>1. /\ e \in Session /\ e.pc = pc /\ e.user = u
          /\ e.invite = Null
      BY <1>1, <1>2 DEF Session
    <2>2. c = [e EXCEPT !.home = h]
      OBVIOUS
    <2> HIDE DEF c, e
    <2> QED BY <2>1, <2>2 DEF Session
  <1> HIDE DEF c
  <1>5. /\ d \in Session /\ d.pc = pc /\ d.user = u
        /\ d.home = h /\ d.invite = Null
    BY <1>4 DEF Session
  <1> HIDE DEF d
  <1>6. pc = IF V = {} THEN "act" ELSE "backfill"
    BY DEF pc
  <1> QED BY <1>3, <1>5, <1>6

LEMMA StartIsOK ==
  ASSUME Inv, NEW s \in Sessions, Arrives(s),
         UNCHANGED <<roles, invite>>, account' \subseteq Users,
         NEW u \in Users, NEW h \in Users, NEW V \in SUBSET Verticals,
         V # {} => h = u,
         session' = [session EXCEPT ![s] = Started(u, h, V)]
  PROVE  Inv'
  <1> DEFINE c == Started(u, h, V)
  <1>1. TypeOK /\ clock' \in Nat
    BY DEF Arrives, Inv, TypeOK
  <1>2. /\ c \in Session /\ c.user = u /\ c.home = h /\ c.invite = Null
        /\ c.pc \in {"act", "backfill"} /\ (c.pc = "backfill" => V # {})
    BY <1>1, StartedIsSession
  <1> HIDE DEF c
  <1>3. session' = [session EXCEPT ![s] = c]
    BY DEF c
  <1>4. session'[s] = c /\ Moves(s) /\ session' \in [Sessions -> Session]
    BY <1>2, <1>3, MoveIsOK
  <1>5. TypeOK'
    BY <1>1, <1>4 DEF TypeOK
  <1>6. SessionOK(s)'
    BY <1>2, <1>4 DEF SessionOK
  <1>7. Kept
    BY Unwritten
  <1>8. \A o \in Sessions : SessionOK(o)'
    BY <1>4, <1>6, <1>7, OthersKept
  <1>9. RolesOK' /\ InvitesOK'
    BY <1>7, RolesKept DEF Inv, InvitesOK
  <1> QED BY <1>5, <1>8, <1>9 DEF Inv

LEMMA RegisterOK ==
  ASSUME Inv, NEW s \in Sessions, NEW u \in Users, Register(s, u)
  PROVE  Inv'
  <1>1. account' \subseteq Users
    BY DEF Register, Inv, TypeOK
  <1>2. session' = [session EXCEPT ![s] = Started(u, u, Verticals)]
    BY DEF Register
  <1> QED BY <1>1, <1>2, StartIsOK DEF Register

LEMMA CallOK ==
  ASSUME Inv, NEW s \in Sessions, NEW u \in Users, Call(s, u)
  PROVE  Inv'
  <1>1. account' \subseteq Users
    BY DEF Call, Inv, TypeOK
  <1>2. Home(u) \in Users /\ (Missing(u) # {} => Home(u) = u)
    BY BackfillIsOwn DEF Inv
  <1>3. Missing(u) \in SUBSET Verticals
    BY DEF Missing
  <1> QED BY <1>1, <1>2, <1>3, StartIsOK DEF Call

LEMMA BackfillOK ==
  ASSUME Inv, NEW s \in Sessions, Backfill(s)
  PROVE  Inv'
  <1> DEFINE c == session[s]
  <1>1. /\ TypeOK /\ c \in Session /\ c.user \in Users
        /\ c.home = c.user /\ c.invite = Null
    BY DEF Backfill, At, Inv, TypeOK, SessionOK
  <1>2. Kept
    BY Unwritten DEF Backfill
  <1>3. CASE GoTo(s, "act") /\ roles' = roles \cup
                    {[user |-> c.user, merchant |-> c.home, vertical |-> v,
                      role |-> "owner", invited |-> FALSE, at |-> c.at] :
                        v \in c.verticals}
    <2> DEFINE d == [c EXCEPT !.pc = "act"]
    <2>1. d \in Session /\ d.pc = "act" /\ d.home = c.home /\ d.invite = Null
      BY <1>1 DEF Session
    <2>2. session' = [session EXCEPT ![s] = d]
      BY <1>3 DEF GoTo
    <2> HIDE DEF d
    <2>3. session'[s] = d /\ Moves(s) /\ session' \in [Sessions -> Session]
      BY <2>1, <2>2, MoveIsOK
    <2>4. SessionOK(s)'
      BY <1>1, <2>1, <2>3 DEF SessionOK
    <2>5. \A r \in roles' \ roles :
             /\ r \in RoleRow /\ r.merchant = r.user
             /\ r.role = "owner" /\ ~r.invited
      <3>1. c.verticals \in SUBSET Verticals /\ c.at \in Nat
        BY <1>1 DEF Session
      <3> SUFFICES ASSUME NEW v \in c.verticals
            PROVE  LET r == [user |-> c.user, merchant |-> c.home,
                             vertical |-> v, role |-> "owner",
                             invited |-> FALSE, at |-> c.at]
                   IN  /\ r \in RoleRow /\ r.merchant = r.user
                       /\ r.role = "owner" /\ ~r.invited
        BY <1>3
      <3> QED BY <1>1, <3>1 DEF RoleRow, AnyRole
    <2>6. RolesOK'
      BY <1>2, <2>5 DEF Inv, RolesOK, ForeignRolesInvited, Kept, Same
    <2>7. TypeOK'
      BY <1>1, <2>3, <2>5 DEF TypeOK, Backfill
    <2>8. \A o \in Sessions : SessionOK(o)'
      BY <1>2, <2>3, <2>4, OthersKept
    <2> QED BY <2>6, <2>7, <2>8 DEF Inv, InvitesOK, Backfill
  <1>4. CASE /\ session' = [session EXCEPT ![s].pc = "act",
                                            ![s].home = Home(c.user)]
             /\ UNCHANGED roles
    <2> DEFINE d == [c EXCEPT !.pc = "act", !.home = Home(c.user)]
    <2>1. Home(c.user) \in Users
      BY <1>1, BackfillIsOwn DEF Inv
    <2>2. d \in Session /\ d.pc = "act" /\ d.home \in Users /\ d.invite = Null
      <3> DEFINE a == [c EXCEPT !.pc = "act"]
                 h == Home(c.user)
      <3>1. a \in Session /\ a.invite = Null /\ a.pc = "act"
        BY <1>1 DEF Session
      <3>2. d = [a EXCEPT !.home = h] /\ h \in Users
        BY <2>1
      <3> HIDE DEF a, h, d
      <3> QED BY <3>1, <3>2 DEF Session
    <2>3. session' = [session EXCEPT ![s] = d]
      BY <1>4
    <2> HIDE DEF d
    <2>4. session'[s] = d /\ Moves(s) /\ session' \in [Sessions -> Session]
      BY <2>2, <2>3, MoveIsOK
    <2>5. SessionOK(s)'
      BY <2>2, <2>4 DEF SessionOK
    <2>6. \A o \in Sessions : SessionOK(o)'
      BY <1>2, <2>4, <2>5, OthersKept
    <2>7. RolesOK'
      BY <1>2, <1>4, RolesKept
    <2>8. TypeOK'
      BY <1>1, <1>4, <2>4 DEF TypeOK, Backfill
    <2> QED BY <2>6, <2>7, <2>8 DEF Inv, InvitesOK, Backfill
  <1> QED BY <1>3, <1>4 DEF Backfill

-----------------------------------------------------------------------------

\* A step of a request that writes neither roles nor invitations.
LEMMA QuietIsOK ==
  ASSUME Inv, NEW s \in Sessions, NEW c \in Session,
         session' = [session EXCEPT ![s] = c],
         UNCHANGED <<roles, invite>>,
         account' \subseteq Users, clock' \in Nat,
         session'[s] = c => SessionOK(s)'
  PROVE  Inv'
  <1>1. session'[s] = c /\ Moves(s) /\ session' \in [Sessions -> Session]
    BY MoveIsOK
  <1>2. Kept
    BY Unwritten
  <1>3. \A o \in Sessions : SessionOK(o)'
    BY <1>1, <1>2, OthersKept
  <1>4. TypeOK'
    BY <1>1 DEF Inv, TypeOK
  <1>5. RolesOK' /\ InvitesOK'
    BY <1>2, RolesKept DEF Inv, InvitesOK
  <1> QED BY <1>3, <1>4, <1>5 DEF Inv

\* The commit of a request that ends.
LEMMA CommitIsOK ==
  ASSUME Inv, NEW s \in Sessions, Reply(s), UNCHANGED <<account, clock>>,
         Kept, InvitesOK', invite' \in [Invites -> Invite \cup {Null}],
         RolesOK', roles' \subseteq RoleRow
  PROVE  Inv'
  <1>1. Moves(s) /\ SessionOK(s)' /\ session' \in [Sessions -> Session]
    BY IdleIsOK
  <1>2. \A o \in Sessions : SessionOK(o)'
    BY <1>1, OthersKept
  <1>3. TypeOK'
    BY <1>1 DEF Inv, TypeOK
  <1> QED BY <1>2, <1>3 DEF Inv

\* One row of team_invites is written.
LEMMA WriteIsKept ==
  ASSUME Inv, NEW i \in Invites, NEW x \in Invite, x.email # x.merchant,
         invite[i] # Null => Same(x, invite[i]),
         invite' = [invite EXCEPT ![i] = x]
  PROVE  Kept /\ InvitesOK' /\ invite' \in [Invites -> Invite \cup {Null}]
  <1>1. invite \in [Invites -> Invite \cup {Null}]
    BY DEF Inv, TypeOK
  <1>2. x # Null
    BY TeamAssumption
  <1>3. invite'[i] = x /\ \A j \in Invites \ {i} : invite'[j] = invite[j]
    BY <1>1
  <1>4. Kept
    BY <1>2, <1>3 DEF Kept, Same
  <1>5. InvitesOK'
    BY <1>3 DEF Inv, InvitesOK
  <1>6. invite' \in [Invites -> Invite \cup {Null}]
    BY <1>1
  <1> QED BY <1>4, <1>5, <1>6

\* A row that exists is an invitation for somebody else than its owner.
LEMMA InviteIsOK ==
  ASSUME Inv, NEW i \in Invites, invite[i] # Null
  PROVE  /\ invite[i] \in Invite /\ invite[i].email # invite[i].merchant
         /\ Renewed(i) \in Invite /\ Same(Renewed(i), invite[i])
         /\ \A st \in {"pending", "accepted", "revoked", "expired"} :
               LET x == [invite[i] EXCEPT !.status = st]
               IN  x \in Invite /\ Same(x, invite[i])
  <1>1. invite[i] \in Invite /\ invite[i].email # invite[i].merchant
    BY DEF Inv, TypeOK, InvitesOK
  <1> DEFINE j == invite[i]
             k == [j EXCEPT !.token = @ + 1]
             l == [k EXCEPT !.lapsed = FALSE]
  <1>2. k \in Invite /\ Same(k, j)
    <2>1. j \in Invite
      BY <1>1
    <2> HIDE DEF j
    <2> QED BY <2>1 DEF Invite, Same
  <1>3. Renewed(i) = l
    BY DEF Renewed
  <1>4. l \in Invite /\ Same(l, k)
    <2> HIDE DEF k
    <2> QED BY <1>2 DEF Invite, Same
  <1>5. Renewed(i) \in Invite /\ Same(Renewed(i), j)
    <2> HIDE DEF l, k, j
    <2> QED BY <1>2, <1>3, <1>4 DEF Same
  <1>6. ASSUME NEW st \in {"pending", "accepted", "revoked", "expired"}
        PROVE  LET x == [j EXCEPT !.status = st]
               IN  x \in Invite /\ Same(x, j)
    <2>1. j \in Invite
      BY <1>1
    <2> HIDE DEF j
    <2> QED BY <2>1 DEF Invite, Same
  <1> QED BY <1>1, <1>5, <1>6

LEMMA StatusIsKept ==
  ASSUME Inv, NEW s \in Sessions, session[s].invite \in Invites,
         invite[session[s].invite] # Null,
         NEW st \in {"accepted", "revoked", "expired"}, SetStatus(s, st)
  PROVE  Kept /\ InvitesOK' /\ invite' \in [Invites -> Invite \cup {Null}]
  <1> DEFINE i == session[s].invite
  <1>1. CASE invite' = invite
    BY <1>1, Unwritten DEF Inv, TypeOK, InvitesOK
  <1>2. CASE invite' = [invite EXCEPT ![i].status = st]
    <2> DEFINE x == [invite[i] EXCEPT !.status = st]
    <2>1. i \in Invites /\ invite[i] # Null
      OBVIOUS
    <2>2. invite' = [invite EXCEPT ![i] = x]
      BY <1>2
    <2> HIDE DEF i
    <2>3. x \in Invite /\ Same(x, invite[i]) /\ x.email # x.merchant
      <3>1. x \in Invite /\ Same(x, invite[i])
        BY <2>1, InviteIsOK
      <3>2. invite[i].email # invite[i].merchant
        BY <2>1, InviteIsOK
      <3> HIDE DEF x
      <3> QED BY <3>1, <3>2 DEF Same
    <2> HIDE DEF x
    <2> QED BY <2>1, <2>2, <2>3, WriteIsKept
  <1> QED BY <1>1, <1>2 DEF SetStatus

LEMMA LeaveOK ==
  ASSUME Inv, NEW s \in Sessions, Leave(s)
  PROVE  Inv'
  BY CommitIsOK, Unwritten, RolesKept DEF Leave, Inv, TypeOK, InvitesOK

-----------------------------------------------------------------------------

\* What the caller of a team operation is.
LEMMA CallerIsOwner ==
  ASSUME Inv, NEW s \in Sessions, At(s, "act"), PrimaryOwner(s)
  PROVE  /\ session[s] \in Session /\ session[s].user \in Users
         /\ session[s].home = session[s].user /\ session[s].invite = Null
  BY DEF Inv, TypeOK, SessionOK, At, PrimaryOwner

\* One field of a request is set.
LEMMA SetTarget ==
  ASSUME NEW c \in Session, NEW x \in Users \cup {Null}
  PROVE  LET d == [c EXCEPT !.target = x]
         IN  /\ d \in Session /\ d.target = x
             /\ d.pc = c.pc /\ d.home = c.home /\ d.invite = c.invite
  BY DEF Session

LEMMA SetVertical ==
  ASSUME NEW c \in Session, NEW x \in Verticals
  PROVE  LET d == [c EXCEPT !.vertical = x]
         IN  /\ d \in Session /\ d.vertical = x
             /\ d.pc = c.pc /\ d.home = c.home /\ d.invite = c.invite
             /\ d.target = c.target
  BY DEF Session

LEMMA SetRole ==
  ASSUME NEW c \in Session, NEW x \in AnyRole
  PROVE  LET d == [c EXCEPT !.role = x]
         IN  /\ d \in Session /\ d.role = x
             /\ d.pc = c.pc /\ d.home = c.home /\ d.invite = c.invite
             /\ d.target = c.target /\ d.vertical = c.vertical /\ d.row = c.row
  BY DEF Session

LEMMA SetInvite ==
  ASSUME NEW c \in Session, NEW x \in Invites
  PROVE  LET d == [c EXCEPT !.invite = x]
         IN  /\ d \in Session /\ d.invite = x
             /\ d.pc = c.pc /\ d.home = c.home /\ d.target = c.target
             /\ d.vertical = c.vertical /\ d.role = c.role
  BY DEF Session

LEMMA SetRead ==
  ASSUME NEW c \in Session, NEW x \in Invite
  PROVE  LET d == [c EXCEPT !.read = x]
         IN  /\ d \in Session /\ d.read = x
             /\ d.pc = c.pc /\ d.home = c.home /\ d.invite = c.invite
             /\ d.target = c.target /\ d.vertical = c.vertical /\ d.role = c.role
  BY DEF Session

LEMMA SetRow ==
  ASSUME NEW c \in Session, NEW x \in RoleRow
  PROVE  LET d == [c EXCEPT !.row = x]
         IN  /\ d \in Session /\ d.row = x
             /\ d.pc = c.pc
  BY DEF Session

LEMMA SetPc ==
  ASSUME NEW c \in Session, NEW x \in {"create", "resend", "revoke", "update",
                             "expire", "user", "join"}
  PROVE  LET d == [c EXCEPT !.pc = x]
         IN  /\ d \in Session /\ d.pc = x
             /\ d.home = c.home /\ d.invite = c.invite /\ d.read = c.read
  BY DEF Session

LEMMA SetAt ==
  ASSUME NEW c \in Session, NEW x \in Nat
  PROVE  LET d == [c EXCEPT !.at = x]
         IN  /\ d \in Session /\ d.at = x
             /\ d.pc = c.pc /\ d.invite = c.invite /\ d.read = c.read
  BY DEF Session

LEMMA BeginInviteOK ==
  ASSUME Inv, NEW s \in Sessions, NEW u \in Users, NEW v \in Verticals,
         NEW r \in AnyRole, BeginInvite(s, u, v, r)
  PROVE  Inv'
  <1> DEFINE c == session[s]
             d == [c EXCEPT !.pc = "create"]
             e == [d EXCEPT !.target = u]
             f == [e EXCEPT !.vertical = v]
             g == [f EXCEPT !.role = r]
  <1>1. /\ c \in Session /\ c.home \in Users /\ c.home # u
        /\ c.invite = Null
    BY CallerIsOwner DEF BeginInvite, Other
  <1>2. /\ account' \subseteq Users /\ clock' \in Nat
        /\ UNCHANGED <<roles, invite>>
    BY DEF BeginInvite, Inv, TypeOK
  <1>3. \/ session' = [session EXCEPT ![s] = g]
        \/ \E i \in Invites :
              /\ invite[i] # Null
              /\ session' = [session EXCEPT ![s] =
                    [g EXCEPT !.invite = i, !.read = invite[i]]]
    BY DEF BeginInvite, Existing, Pending
  <1> HIDE DEF c
  <1>4. d \in Session /\ d.pc = "create" /\ d.home = c.home /\ d.invite = Null
    BY <1>1, SetPc
  <1> HIDE DEF d
  <1>5. /\ e \in Session /\ e.pc = "create" /\ e.home = c.home
        /\ e.invite = Null /\ e.target = u
    BY <1>4, SetTarget
  <1> HIDE DEF e
  <1>6. /\ f \in Session /\ f.pc = "create" /\ f.home = c.home
        /\ f.invite = Null /\ f.target = u /\ f.vertical = v
    BY <1>5, SetVertical
  <1> HIDE DEF f
  <1>7. /\ g \in Session /\ g.pc = "create" /\ g.home = c.home
        /\ g.invite = Null /\ g.target = u /\ g.vertical = v /\ g.role = r
    BY <1>6, SetRole
  <1> HIDE DEF g
  <1>8. CASE session' = [session EXCEPT ![s] = g]
    BY <1>1, <1>2, <1>7, <1>8, QuietIsOK DEF SessionOK
  <1>9. ASSUME NEW i \in Invites, invite[i] # Null,
               session' = [session EXCEPT ![s] =
                  [g EXCEPT !.invite = i, !.read = invite[i]]]
        PROVE  Inv'
    <2> DEFINE h == [g EXCEPT !.invite = i]
               k == [h EXCEPT !.read = invite[i]]
    <2>1. session' = [session EXCEPT ![s] = k]
      BY <1>9
    <2>2. invite[i] \in Invite
      BY <1>9, InviteIsOK
    <2>3. /\ h \in Session /\ h.pc = "create" /\ h.home = c.home
          /\ h.invite = i /\ h.target = u /\ h.vertical = v /\ h.role = r
      BY <1>7, SetInvite
    <2> HIDE DEF h
    <2>4. /\ k \in Session /\ k.pc = "create" /\ k.home = c.home
          /\ k.invite = i /\ k.target = u /\ k.vertical = v /\ k.role = r
      BY <2>2, <2>3, SetRead
    <2> HIDE DEF k
    <2>5. session'[s] = k => SessionOK(s)'
      BY <1>1, <1>2, <1>9, <2>4 DEF SessionOK
    <2> QED BY <1>2, <2>1, <2>4, <2>5, QuietIsOK
  <1> QED BY <1>3, <1>8, <1>9

LEMMA CreateInviteOK ==
  ASSUME Inv, NEW s \in Sessions, CreateInvite(s)
  PROVE  Inv'
  <1> DEFINE c == session[s]
  <1>1. /\ c \in Session /\ c.home \in Users /\ c.target \in Users
        /\ c.target # c.home /\ c.vertical \in Verticals
        /\ c.role \in AnyRole
        /\ c.invite # Null => c.invite \in Invites /\ invite[c.invite] # Null
    BY DEF CreateInvite, At, Inv, TypeOK, Session, SessionOK
  <1>2. Reply(s) /\ UNCHANGED <<account, roles, clock>>
    BY DEF CreateInvite
  <1>3. Kept /\ InvitesOK' /\ invite' \in [Invites -> Invite \cup {Null}]
    <2>1. ASSUME NEW i \in Invites, invite[i] = Null,
                 invite' = [invite EXCEPT ![i] =
                    [merchant |-> c.home, email |-> c.target,
                     vertical |-> c.vertical, role |-> c.role,
                     token |-> 1, lapsed |-> FALSE, status |-> "pending"]]
          PROVE  Kept /\ InvitesOK' /\ invite' \in [Invites -> Invite \cup {Null}]
      <3> DEFINE x == [merchant |-> c.home, email |-> c.target,
                       vertical |-> c.vertical, role |-> c.role,
                       token |-> 1, lapsed |-> FALSE, status |-> "pending"]
      <3>1. x \in Invite /\ x.email # x.merchant
        BY <1>1 DEF Invite
      <3>2. invite' = [invite EXCEPT ![i] = x]
        BY <2>1
      <3> HIDE DEF x
      <3> QED BY <2>1, <3>1, <3>2, WriteIsKept
    <2>2. ASSUME c.invite # Null,
                 invite' = [invite EXCEPT ![c.invite] =
                    [Renewed(c.invite) EXCEPT
                        !.role = IF c.read.role = c.role THEN @ ELSE c.role]]
          PROVE  Kept /\ InvitesOK' /\ invite' \in [Invites -> Invite \cup {Null}]
      <3> DEFINE i == c.invite
                 y == Renewed(i)
                 q == IF c.read.role = c.role THEN y.role ELSE c.role
                 x == [y EXCEPT !.role = q]
      <3>1. i \in Invites /\ invite[i] # Null
        BY <1>1, <2>2
      <3>2. invite' = [invite EXCEPT ![i] = x]
        BY <2>2
      <3> HIDE DEF i
      <3>3. y \in Invite /\ Same(y, invite[i]) /\ invite[i].email # invite[i].merchant
        BY <3>1, InviteIsOK
      <3> HIDE DEF y
      <3>4. q \in AnyRole
        BY <1>1, <3>3 DEF Invite
      <3> HIDE DEF q
      <3>5. x \in Invite /\ Same(x, y)
        BY <3>3, <3>4 DEF Invite, Same
      <3> HIDE DEF x
      <3>6. Same(x, invite[i]) /\ x.email # x.merchant
        BY <3>3, <3>5 DEF Same
      <3> QED BY <3>1, <3>2, <3>5, <3>6, WriteIsKept
    <2> QED BY <2>1, <2>2 DEF CreateInvite
  <1> QED BY <1>2, <1>3, CommitIsOK, RolesKept DEF Inv, TypeOK

LEMMA BeginResendOK ==
  ASSUME Inv, NEW s \in Sessions, NEW i \in Invites, BeginResend(s, i)
  PROVE  Inv'
  <1> DEFINE c == session[s]
             d == [c EXCEPT !.pc = "resend"]
             e == [d EXCEPT !.invite = i]
  <1>1. c \in Session
    BY DEF Inv, TypeOK
  <1>2. /\ account' \subseteq Users /\ clock' \in Nat /\ invite[i] # Null
        /\ UNCHANGED <<roles, invite>>
    BY DEF BeginResend, Inv, TypeOK
  <1>3. session' = [session EXCEPT ![s] = e]
    BY DEF BeginResend
  <1> HIDE DEF c
  <1>4. d \in Session /\ d.pc = "resend"
    BY <1>1, SetPc
  <1> HIDE DEF d
  <1>5. e \in Session /\ e.pc = "resend" /\ e.invite = i
    BY <1>4, SetInvite
  <1> HIDE DEF e
  <1>6. session'[s] = e => SessionOK(s)'
    BY <1>2, <1>5 DEF SessionOK
  <1> QED BY <1>2, <1>3, <1>5, <1>6, QuietIsOK

LEMMA BeginRevokeOK ==
  ASSUME Inv, NEW s \in Sessions, NEW i \in Invites, BeginRevoke(s, i)
  PROVE  Inv'
  <1> DEFINE c == session[s]
             d == [c EXCEPT !.pc = "revoke"]
             e == [d EXCEPT !.invite = i]
             f == [e EXCEPT !.read = invite[i]]
  <1>1. c \in Session
    BY DEF Inv, TypeOK
  <1>2. /\ account' \subseteq Users /\ clock' \in Nat /\ invite[i] # Null
        /\ UNCHANGED <<roles, invite>>
    BY DEF BeginRevoke, Inv, TypeOK
  <1>3. session' = [session EXCEPT ![s] = f]
    BY DEF BeginRevoke
  <1>4. invite[i] \in Invite
    BY <1>2, InviteIsOK
  <1> HIDE DEF c
  <1>5. d \in Session /\ d.pc = "revoke"
    BY <1>1, SetPc
  <1> HIDE DEF d
  <1>6. e \in Session /\ e.pc = "revoke" /\ e.invite = i
    BY <1>5, SetInvite
  <1> HIDE DEF e
  <1>7. /\ f \in Session /\ f.pc = "revoke" /\ f.invite = i
        /\ f.read = invite[i]
    BY <1>4, <1>6, SetRead
  <1> HIDE DEF f
  <1>8. session'[s] = f => SessionOK(s)'
    BY <1>2, <1>4, <1>7 DEF SessionOK, Same
  <1> QED BY <1>2, <1>3, <1>7, <1>8, QuietIsOK

LEMMA ResendInviteOK ==
  ASSUME Inv, NEW s \in Sessions, ResendInvite(s)
  PROVE  Inv'
  <1> DEFINE i == session[s].invite
             x == Renewed(i)
  <1>1. i \in Invites /\ invite[i] # Null
    BY DEF ResendInvite, At, Inv, SessionOK
  <1>2. invite' = [invite EXCEPT ![i] = x]
    BY DEF ResendInvite
  <1>3. Reply(s) /\ UNCHANGED <<account, roles, clock>>
    BY DEF ResendInvite
  <1> HIDE DEF i
  <1>4. x \in Invite /\ Same(x, invite[i]) /\ invite[i].email # invite[i].merchant
    BY <1>1, InviteIsOK
  <1> HIDE DEF x
  <1>5. Kept /\ InvitesOK' /\ invite' \in [Invites -> Invite \cup {Null}]
    BY <1>1, <1>2, <1>4, WriteIsKept DEF Same
  <1> QED BY <1>3, <1>5, CommitIsOK, RolesKept DEF Inv, TypeOK

LEMMA RevokeInviteOK ==
  ASSUME Inv, NEW s \in Sessions, RevokeInvite(s)
  PROVE  Inv'
  <1>1. session[s].invite \in Invites /\ invite[session[s].invite] # Null
    BY DEF RevokeInvite, At, Inv, SessionOK
  <1>2. Kept /\ InvitesOK' /\ invite' \in [Invites -> Invite \cup {Null}]
    BY <1>1, StatusIsKept DEF RevokeInvite
  <1> QED BY <1>2, CommitIsOK, RolesKept DEF RevokeInvite, Inv, TypeOK

LEMMA ExpireInviteOK ==
  ASSUME Inv, NEW s \in Sessions, ExpireInvite(s)
  PROVE  Inv'
  <1>1. session[s].invite \in Invites /\ invite[session[s].invite] # Null
    BY DEF ExpireInvite, At, Inv, SessionOK
  <1>2. Kept /\ InvitesOK' /\ invite' \in [Invites -> Invite \cup {Null}]
    BY <1>1, StatusIsKept DEF ExpireInvite
  <1> QED BY <1>2, CommitIsOK, RolesKept DEF ExpireInvite, Inv, TypeOK

LEMMA BeginUpdateOK ==
  ASSUME Inv, NEW s \in Sessions, NEW x \in roles, NEW r \in AnyRole,
         BeginUpdate(s, x, r)
  PROVE  Inv'
  <1> DEFINE c == session[s]
             d == [c EXCEPT !.pc = "update"]
             e == [d EXCEPT !.row = x]
             f == [e EXCEPT !.role = r]
  <1>1. c \in Session /\ x \in RoleRow /\ x.user # x.merchant
    BY CallerIsOwner DEF BeginUpdate, Other, Inv, TypeOK
  <1>2. /\ account' \subseteq Users /\ clock' \in Nat
        /\ UNCHANGED <<roles, invite>>
    BY DEF BeginUpdate, Inv, TypeOK
  <1>3. session' = [session EXCEPT ![s] = f]
    BY DEF BeginUpdate
  <1> HIDE DEF c
  <1>4. d \in Session /\ d.pc = "update"
    BY <1>1, SetPc
  <1> HIDE DEF d
  <1>5. e \in Session /\ e.pc = "update" /\ e.row = x
    BY <1>1, <1>4, SetRow
  <1> HIDE DEF e
  <1>6. f \in Session /\ f.pc = "update" /\ f.row = x /\ f.role = r
    BY <1>5, SetRole
  <1> HIDE DEF f
  <1>7. session'[s] = f => SessionOK(s)'
    BY <1>1, <1>6 DEF SessionOK
  <1> QED BY <1>2, <1>3, <1>6, <1>7, QuietIsOK

\* A row of user_merchant_roles with another role.
LEMMA SetRowRole ==
  ASSUME NEW x \in RoleRow, NEW r \in AnyRole
  PROVE  LET y == [x EXCEPT !.role = r]
         IN  /\ y \in RoleRow /\ y.user = x.user /\ y.merchant = x.merchant
             /\ y.vertical = x.vertical /\ y.invited = x.invited
  BY DEF RoleRow

\* The row an UPDATE finds is in somebody else's merchant.
LEMMA LoadedIsForeign ==
  ASSUME Inv, NEW s \in Sessions, At(s, "update"), NEW x \in roles,
         Loaded(s, x)
  PROVE  x.user # x.merchant
  BY DEF Inv, SessionOK, At, Loaded

LEMMA UpdateMemberRoleOK ==
  ASSUME Inv, NEW s \in Sessions, UpdateMemberRole(s)
  PROVE  Inv'
  <1> DEFINE R == session[s].role
  <1>1. At(s, "update") /\ R \in AnyRole /\ roles \subseteq RoleRow
    BY DEF UpdateMemberRole, At, Inv, TypeOK, SessionOK
  <1>2. Kept
    BY Unwritten DEF UpdateMemberRole
  <1>3. roles' = {IF Loaded(s, x) THEN [x EXCEPT !.role = R] ELSE x : x \in roles}
    BY DEF UpdateMemberRole
  <1> HIDE DEF R
  <1>4. \A y \in roles' :
           \/ y \in roles
           \/ /\ y \in RoleRow /\ y.user # y.merchant
              /\ \E x \in roles : /\ y.user = x.user /\ y.merchant = x.merchant
                                  /\ y.vertical = x.vertical
                                  /\ y.invited = x.invited
    <2> SUFFICES ASSUME NEW y \in roles', y \notin roles
          PROVE  /\ y \in RoleRow /\ y.user # y.merchant
                 /\ \E x \in roles : /\ y.user = x.user /\ y.merchant = x.merchant
                                     /\ y.vertical = x.vertical
                                     /\ y.invited = x.invited
      OBVIOUS
    <2>1. PICK x \in roles : Loaded(s, x) /\ y = [x EXCEPT !.role = R]
      BY <1>3
    <2>2. x.user # x.merchant /\ x \in RoleRow
      BY <1>1, <2>1, LoadedIsForeign
    <2>3. /\ y \in RoleRow
          /\ y.user = x.user /\ y.merchant = x.merchant
          /\ y.vertical = x.vertical /\ y.invited = x.invited
      BY <1>1, <2>1, <2>2, SetRowRole
    <2> QED BY <2>2, <2>3
  <1>5. roles' \subseteq RoleRow
    BY <1>1, <1>4
  <1>6. RolesOK'
    <2>1. \A y \in roles' : y.merchant = y.user => y.role = "owner" /\ ~y.invited
      BY <1>4 DEF Inv, RolesOK
    <2>2. ForeignRolesInvited'
      BY <1>2, <1>4 DEF Inv, RolesOK, ForeignRolesInvited, Kept, Same
    <2> QED BY <2>1, <2>2 DEF RolesOK
  <1> QED BY <1>2, <1>5, <1>6, CommitIsOK
       DEF UpdateMemberRole, Inv, TypeOK, InvitesOK

LEMMA RemoveMemberOK ==
  ASSUME Inv, NEW s \in Sessions, NEW u \in Users, RemoveMember(s, u)
  PROVE  Inv'
  <1>1. Kept
    BY Unwritten DEF RemoveMember
  <1>2. RolesOK'
    BY <1>1, RolesKept DEF RemoveMember
  <1> QED BY <1>1, <1>2, CommitIsOK DEF RemoveMember, Inv, TypeOK, InvitesOK

LEMMA BeginAcceptOK ==
  ASSUME Inv, NEW s \in Sessions, NEW i \in Invites,
         NEW u \in account \cup {Null}, BeginAccept(s, i, u)
  PROVE  Inv'
  <1> DEFINE b == Begun(u)
             pc == IF invite[i].lapsed THEN "expire" ELSE "user"
             d == [b EXCEPT !.pc = pc]
             e == [d EXCEPT !.invite = i]
             f == [e EXCEPT !.read = invite[i]]
  <1>1. /\ account' \subseteq Users /\ clock' \in Nat /\ invite[i] # Null
        /\ UNCHANGED <<roles, invite>> /\ u \in Users \cup {Null} /\ TypeOK
    BY DEF BeginAccept, Arrives, Inv, TypeOK
  <1>2. session' = [session EXCEPT ![s] = f]
    BY DEF BeginAccept
  <1>3. invite[i] \in Invite
    BY <1>1, InviteIsOK
  <1>4. b \in Session
    BY <1>1, BegunIsSession
  <1>5. pc \in {"expire", "user"}
    OBVIOUS
  <1> HIDE DEF b, pc
  <1>6. d \in Session /\ d.pc = pc
    BY <1>4, <1>5 DEF Session
  <1> HIDE DEF d
  <1>7. e \in Session /\ e.pc = pc /\ e.invite = i
    BY <1>6, SetInvite
  <1> HIDE DEF e
  <1>8. f \in Session /\ f.pc = pc /\ f.invite = i /\ f.read = invite[i]
    BY <1>3, <1>7, SetRead
  <1> HIDE DEF f
  <1>9. session'[s] = f => SessionOK(s)'
    BY <1>1, <1>3, <1>5, <1>8 DEF SessionOK, Same
  <1> QED BY <1>1, <1>2, <1>8, <1>9, QuietIsOK

LEMMA FindUserOK ==
  ASSUME Inv, NEW s \in Sessions, FindUser(s)
  PROVE  Inv'
  <1> DEFINE c == session[s]
             d == [c EXCEPT !.pc = "join"]
             e == [d EXCEPT !.at = clock + 1]
  <1>1. /\ c \in Session /\ c.invite \in Invites /\ invite[c.invite] # Null
        /\ c.read \in Invite /\ Same(invite[c.invite], c.read)
    BY DEF FindUser, At, Inv, TypeOK, SessionOK
  <1>2. c.read.email \in Users
    BY <1>1 DEF Invite
  <1>3. /\ account' \subseteq Users /\ clock' \in Nat /\ clock + 1 \in Nat
        /\ UNCHANGED <<roles, invite>>
    BY <1>2 DEF FindUser, Inv, TypeOK
  <1>4. \/ session' = [session EXCEPT ![s] = d]
        \/ session' = [session EXCEPT ![s] = e]
    BY DEF FindUser, GoTo
  <1> HIDE DEF c
  <1>5. /\ d \in Session /\ d.pc = "join" /\ d.invite = c.invite
        /\ d.read = c.read
    BY <1>1, SetPc
  <1> HIDE DEF d
  <1>6. /\ e \in Session /\ e.pc = "join" /\ e.invite = c.invite
        /\ e.read = c.read
    BY <1>3, <1>5, SetAt
  <1> HIDE DEF e
  <1>7. CASE session' = [session EXCEPT ![s] = d]
    <2>1. session'[s] = d => SessionOK(s)'
      BY <1>1, <1>3, <1>5 DEF SessionOK
    <2> QED BY <1>3, <1>5, <1>7, <2>1, QuietIsOK
  <1>8. CASE session' = [session EXCEPT ![s] = e]
    <2>1. session'[s] = e => SessionOK(s)'
      BY <1>1, <1>3, <1>6 DEF SessionOK
    <2> QED BY <1>3, <1>6, <1>8, <2>1, QuietIsOK
  <1> QED BY <1>4, <1>7, <1>8

LEMMA JoinOK ==
  ASSUME Inv, NEW s \in Sessions, Join(s)
  PROVE  Inv'
  <1> DEFINE c == session[s]
             i == c.read
             r == [user |-> Invitee(s), merchant |-> i.merchant,
                   vertical |-> i.vertical, role |-> i.role, invited |-> TRUE,
                   at |-> c.at]
  <1>1. /\ c \in Session /\ c.invite \in Invites /\ invite[c.invite] # Null
        /\ i \in Invite /\ Same(invite[c.invite], i)
    BY DEF Join, At, Inv, TypeOK, SessionOK
  <1>2. i.email # i.merchant
    BY <1>1, InviteIsOK DEF Same
  <1>3. Kept /\ InvitesOK' /\ invite' \in [Invites -> Invite \cup {Null}]
    BY <1>1, StatusIsKept DEF Join
  <1>4. r \in RoleRow
    BY <1>1 DEF RoleRow, Invite, Session, Invitee, AnyRole
  <1>5. /\ r.user = i.email /\ r.merchant = i.merchant
        /\ r.vertical = i.vertical /\ r.invited
    BY DEF Invitee
  <1>6. roles' = roles \cup {r}
    BY DEF Join
  <1>7. \E j \in Invites : /\ invite'[j] # Null
                           /\ invite'[j].merchant = r.merchant
                           /\ invite'[j].email = r.user
                           /\ invite'[j].vertical = r.vertical
    BY <1>1, <1>3, <1>5 DEF Kept, Same
  <1> HIDE DEF r
  <1>8. RolesOK'
    <2>1. \A x \in roles' : x.merchant = x.user => x.role = "owner" /\ ~x.invited
      BY <1>2, <1>5, <1>6 DEF Inv, RolesOK
    <2>2. ForeignRolesInvited'
      BY <1>3, <1>5, <1>6, <1>7
         DEF Inv, RolesOK, ForeignRolesInvited, Kept, Same
    <2> QED BY <2>1, <2>2 DEF RolesOK
  <1>9. roles' \subseteq RoleRow
    BY <1>4, <1>6 DEF Inv, TypeOK
  <1> QED BY <1>3, <1>8, <1>9, CommitIsOK DEF Join

LEMMA LapseOK ==
  ASSUME Inv, NEW i \in Invites, Lapse(i)
  PROVE  Inv'
  <1> DEFINE x == [invite[i] EXCEPT !.lapsed = TRUE]
  <1>1. invite[i] \in Invite /\ invite[i].email # invite[i].merchant
    BY InviteIsOK DEF Lapse
  <1>2. x \in Invite /\ Same(x, invite[i])
    BY <1>1 DEF Invite, Same
  <1>3. invite' = [invite EXCEPT ![i] = x] /\ UNCHANGED <<account, roles, session, clock>>
    BY DEF Lapse
  <1> HIDE DEF x
  <1>4. Kept /\ InvitesOK' /\ invite' \in [Invites -> Invite \cup {Null}]
    BY <1>1, <1>2, <1>3, WriteIsKept DEF Same
  <1>5. RolesOK' /\ TypeOK'
    BY <1>3, <1>4, RolesKept DEF Inv, TypeOK
  <1>6. ASSUME NEW s \in Sessions PROVE SessionOK(s)'
    <2>1. Moves(s) /\ session[s] \in Session /\ session'[s] = session[s]
      BY <1>3 DEF Moves, Inv, TypeOK
    <2>2. session[s].invite \in Invites \cup {Null} /\ Null \notin Invites
      BY <2>1, TeamAssumption DEF Session
    <2>3. SessionOK(s)
      BY DEF Inv
    <2> QED BY <1>4, <2>1, <2>2, <2>3 DEF SessionOK, Kept, Same
  <1> QED BY <1>4, <1>5, <1>6 DEF Inv

-----------------------------------------------------------------------------

LEMMA InitOK == Init => Inv
  <1>1. NoSession \in Session
    BY DEF NoSession, Session
  <1>2. NoSession.pc = "idle"
    BY DEF NoSession
  <1> SUFFICES ASSUME Init PROVE Inv
    OBVIOUS
  <1>3. TypeOK
    BY <1>1 DEF Init, TypeOK
  <1>4. InvitesOK /\ RolesOK
    BY DEF Init, InvitesOK, RolesOK, ForeignRolesInvited
  <1>5. \A s \in Sessions : SessionOK(s)
    BY <1>2 DEF Init, SessionOK
  <1> QED BY <1>3, <1>4, <1>5 DEF Inv

LEMMA NextOK ==
  ASSUME Inv, Next
  PROVE  Inv'
  <1>1. ASSUME NEW s \in Sessions, Manage(s) PROVE Inv'
    BY <1>1, BeginInviteOK, BeginUpdateOK, BeginResendOK, BeginRevokeOK,
       RemoveMemberOK, CreateInviteOK, ResendInviteOK, RevokeInviteOK,
       UpdateMemberRoleOK DEF Manage
  <1>2. ASSUME NEW s \in Sessions, Accept(s) PROVE Inv'
    BY <1>2, BeginAcceptOK, ExpireInviteOK, FindUserOK, JoinOK DEF Accept
  <1> QED BY <1>1, <1>2, RegisterOK, CallOK, BackfillOK, LeaveOK, LapseOK
       DEF Next

LEMMA StutterOK ==
  ASSUME Inv, UNCHANGED vars
  PROVE  Inv'
  BY DEF Inv, TypeOK, InvitesOK, RolesOK, ForeignRolesInvited, SessionOK, vars

LEMMA InvHolds == Spec => []Inv
  <1>1. Inv /\ [Next]_vars => Inv'
    BY NextOK, StutterOK
  <1> QED BY InitOK, <1>1, PTL DEF Spec

\* Every reachable state is well typed.
THEOREM TypeCorrect == Spec => []TypeOK
  <1>1. Inv => TypeOK
    BY DEF Inv
  <1> QED BY <1>1, InvHolds, PTL

\* A role in somebody else's merchant is one its owner invited the user to,
\* whatever requests interleave: the backfill that runs on every login
\* never grants the owner's role there (merchant_provisioning.py:45-54).
THEOREM InvitedOnly == Spec => []ForeignRolesInvited
  <1>1. Inv => ForeignRolesInvited
    BY DEF Inv, RolesOK
  <1> QED BY <1>1, InvHolds, PTL

-----------------------------------------------------------------------------

\* The body of OwnersStay
OwnersUntouched ==
    \A r \in roles : r.merchant = r.user =>
        r.role = "owner" /\ ~r.invited /\ r \in roles'

LEMMA UpdateLeavesOwners ==
  ASSUME Inv, NEW s \in Sessions, UpdateMemberRole(s),
         NEW r \in roles, r.merchant = r.user
  PROVE  r \in roles'
  <1>1. ~Loaded(s, r)
    BY LoadedIsForeign DEF UpdateMemberRole
  <1> QED BY <1>1 DEF UpdateMemberRole

LEMMA RemovalLeavesOwners ==
  ASSUME Inv, NEW s \in Sessions, NEW u \in Users, RemoveMember(s, u),
         NEW r \in roles, r.merchant = r.user
  PROVE  r \in roles'
  BY DEF RemoveMember, PrimaryOwner, Other

LEMMA OwnersStep ==
  ASSUME Inv, Next
  PROVE  OwnersUntouched
  <1> SUFFICES ASSUME NEW r \in roles, r.merchant = r.user
        PROVE  r \in roles'
    BY DEF OwnersUntouched, Inv, RolesOK
  <1>1. ASSUME NEW s \in Sessions, Manage(s) PROVE r \in roles'
    BY <1>1, UpdateLeavesOwners, RemovalLeavesOwners
       DEF Manage, BeginInvite, BeginUpdate, BeginResend, BeginRevoke,
           CreateInvite, ResendInvite, RevokeInvite
  <1>2. ASSUME NEW s \in Sessions, Accept(s) PROVE r \in roles'
    BY <1>2 DEF Accept, BeginAccept, ExpireInvite, FindUser, Join
  <1> QED BY <1>1, <1>2
       DEF Next, Register, Call, Backfill, Leave, Lapse

\* No request of anybody takes or changes the owner's role a user has on
\* their own merchant (team_management.py:105, :129, :166).
THEOREM OwnersKept == Spec => OwnersStay
  <1>1. Inv /\ [Next]_vars => [OwnersUntouched]_vars
    BY OwnersStep
  <1>2. Spec => [][OwnersUntouched]_vars
    BY InvHolds, <1>1, PTL DEF Spec
  <1> QED BY <1>2 DEF OwnersStay, OwnersUntouched

-----------------------------------------------------------------------------
(* What holds as long as certain requests do not overlap.  First, what a    *)
(* step does: to the request that takes it, and to the invitations.        *)

\* The request ends.
Ends(s) == Moves(s) /\ session'[s] = NoSession

\* A new request has its caller's merchant, or provisions it.
Enters(s) ==
    /\ Moves(s) /\ session'[s].pc \in {"act", "backfill"}
    /\ session'[s].at = clock + 1 /\ clock' = clock + 1

\* The request goes on, in the same transaction, with something else than
\* creating or accepting an invitation.
Manages(s) ==
    /\ Moves(s) /\ session'[s].pc \in {"act", "resend", "revoke", "update"}
    /\ session'[s].at = session[s].at /\ session[s].pc # "idle"

\* It goes on to create an invitation.
Creates(s) ==
    LET c == session'[s]
    IN  /\ Moves(s) /\ c.pc = "create"
        /\ c.at = session[s].at /\ session[s].pc # "idle"
        /\ c.invite = Null => Pending(c.home, c.target, c.vertical) = {}

\* A new request opens the link of a pending invitation.
Opens(s) ==
    LET c == session'[s]
    IN  /\ Moves(s) /\ c.pc \in {"expire", "user"}
        /\ c.at = clock + 1 /\ clock' = clock + 1
        /\ c.invite \in Invites /\ invite[c.invite] # Null
        /\ invite[c.invite].status = "pending"

\* It goes on to join, in its transaction or a new one.
Finds(s) ==
    LET c == session'[s]
    IN  /\ Moves(s) /\ At(s, "user") /\ c.pc = "join"
        /\ c.invite = session[s].invite /\ c.read = session[s].read
        /\ \/ c.at = session[s].at /\ clock' = clock
           \/ c.at = clock + 1 /\ clock' = clock + 1

LEMMA EndsEffect ==
  ASSUME Inv, NEW s \in Sessions, Reply(s)
  PROVE  Ends(s)
  <1>1. NoSession \in Session
    BY DEF NoSession, Session
  <1>2. session' = [session EXCEPT ![s] = NoSession]
    BY DEF Reply
  <1> QED BY <1>1, <1>2, MoveIsOK DEF Ends

LEMMA StartedAt ==
  ASSUME TypeOK, NEW u \in Users, NEW h \in Users, NEW V \in SUBSET Verticals
  PROVE  Started(u, h, V).at = clock + 1
  <1> DEFINE b == Begun(u)
             c == [b EXCEPT !.pc = IF V = {} THEN "act" ELSE "backfill",
                            !.home = h, !.verticals = V]
  <1>1. Started(u, h, V) = c
    BY DEF Started
  <1>2. b \in Session /\ b.at = clock + 1
    BY BegunIsSession
  <1> HIDE DEF b
  <1>3. c.at = b.at
    BY <1>2 DEF Session
  <1> QED BY <1>1, <1>2, <1>3

LEMMA StartEffect ==
  ASSUME Inv, NEW s \in Sessions, Arrives(s),
         NEW u \in Users, NEW h \in Users, NEW V \in SUBSET Verticals,
         session' = [session EXCEPT ![s] = Started(u, h, V)]
  PROVE  Enters(s)
  <1> DEFINE c == Started(u, h, V)
  <1>1. TypeOK
    BY DEF Inv
  <1>2. c \in Session /\ c.pc \in {"act", "backfill"} /\ c.at = clock + 1
    BY <1>1, StartedIsSession, StartedAt
  <1> HIDE DEF c
  <1>3. session' = [session EXCEPT ![s] = c]
    BY DEF c
  <1> QED BY <1>2, <1>3, MoveIsOK DEF Enters, Arrives

LEMMA EnterEffect ==
  ASSUME Inv, NEW s \in Sessions, NEW u \in Users, Register(s, u) \/ Call(s, u)
  PROVE  Enters(s) /\ UNCHANGED <<roles, invite>>
  <1>1. CASE Register(s, u)
    BY <1>1, StartEffect DEF Register
  <1>2. CASE Call(s, u)
    <2>1. Home(u) \in Users /\ Missing(u) \in SUBSET Verticals
      BY BackfillIsOwn DEF Inv, Missing
    <2>2. session' = [session EXCEPT ![s] = Started(u, Home(u), Missing(u))]
      BY <1>2 DEF Call
    <2> QED BY <1>2, <2>1, <2>2, StartEffect DEF Call
  <1> QED BY <1>1, <1>2

\* A request that goes on has what the step sets and keeps its transaction.
LEMMA ManageEffect ==
  ASSUME Inv, NEW s \in Sessions, NEW c \in Session,
         session' = [session EXCEPT ![s] = c],
         ~At(s, "idle"), c.at = session[s].at,
         c.pc \in {"act", "resend", "revoke", "update"}
  PROVE  Manages(s)
  BY MoveIsOK DEF Manages, At

LEMMA BackfillEffect ==
  ASSUME Inv, NEW s \in Sessions, Backfill(s)
  PROVE  Manages(s)
  <1> DEFINE c == session[s]
             d == [c EXCEPT !.pc = "act"]
             e == [d EXCEPT !.home = Home(c.user)]
  <1>1. c \in Session /\ c.user \in Users /\ ~At(s, "idle")
    BY DEF Backfill, At, Inv, TypeOK, SessionOK
  <1>2. Home(c.user) \in Users
    BY <1>1, BackfillIsOwn DEF Inv
  <1>3. \/ session' = [session EXCEPT ![s] = d]
        \/ session' = [session EXCEPT ![s] = e]
    BY DEF Backfill, GoTo
  <1> DEFINE h == Home(c.user)
  <1>4. e = [d EXCEPT !.home = h] /\ h \in Users
    BY <1>2
  <1> HIDE DEF h, e
  <1>5. d \in Session /\ d.pc = "act" /\ d.at = c.at
    <2> HIDE DEF c
    <2> QED BY <1>1 DEF Session
  <1> HIDE DEF d
  <1>6. e \in Session /\ e.pc = "act" /\ e.at = c.at
    BY <1>4, <1>5 DEF Session
  <1> QED BY <1>1, <1>3, <1>5, <1>6, ManageEffect

LEMMA BeginEffect ==
  ASSUME Inv, NEW s \in Sessions,
         \/ \E i \in Invites : BeginResend(s, i) \/ BeginRevoke(s, i)
         \/ \E x \in roles, r \in AnyRole : BeginUpdate(s, x, r)
  PROVE  Manages(s)
  <1> DEFINE c == session[s]
  <1>1. c \in Session /\ ~At(s, "idle")
    BY DEF BeginResend, BeginRevoke, BeginUpdate, At, Inv, TypeOK
  <1>2. ASSUME NEW i \in Invites, BeginResend(s, i)
        PROVE  Manages(s)
    <2> DEFINE d == [c EXCEPT !.pc = "resend", !.invite = i]
    <2>1. session' = [session EXCEPT ![s] = d]
      BY <1>2 DEF BeginResend
    <2>2. d \in Session /\ d.pc = "resend" /\ d.at = c.at
      <3> HIDE DEF c
      <3> QED BY <1>1 DEF Session
    <2> HIDE DEF d
    <2> QED BY <1>1, <2>1, <2>2, ManageEffect
  <1>3. ASSUME NEW i \in Invites, BeginRevoke(s, i)
        PROVE  Manages(s)
    <2> DEFINE j == invite[i]
               d == [c EXCEPT !.pc = "revoke", !.invite = i]
               e == [d EXCEPT !.read = j]
    <2>1. session' = [session EXCEPT ![s] = e] /\ j \in Invite
      BY <1>3, InviteIsOK DEF BeginRevoke
    <2> HIDE DEF j
    <2>2. d \in Session /\ d.pc = "revoke" /\ d.at = c.at
      <3> HIDE DEF c
      <3> QED BY <1>1 DEF Session
    <2> HIDE DEF d
    <2>3. e \in Session /\ e.pc = "revoke" /\ e.at = c.at
      BY <2>1, <2>2 DEF Session
    <2> HIDE DEF e
    <2> QED BY <1>1, <2>1, <2>3, ManageEffect
  <1>4. ASSUME NEW x \in roles, NEW r \in AnyRole, BeginUpdate(s, x, r)
        PROVE  Manages(s)
    <2> DEFINE d == [c EXCEPT !.pc = "update", !.row = x]
               e == [d EXCEPT !.role = r]
    <2>1. session' = [session EXCEPT ![s] = e] /\ x \in RoleRow
      BY <1>4 DEF BeginUpdate, Inv, TypeOK
    <2>2. d \in Session /\ d.pc = "update" /\ d.at = c.at
      <3> HIDE DEF c
      <3> QED BY <1>1, <2>1 DEF Session
    <2> HIDE DEF d
    <2>3. e \in Session /\ e.pc = "update" /\ e.at = c.at
      BY <2>1, <2>2 DEF Session
    <2> HIDE DEF e
    <2> QED BY <1>1, <2>1, <2>3, ManageEffect
  <1> QED BY <1>2, <1>3, <1>4

LEMMA BeginInviteEffect ==
  ASSUME Inv, NEW s \in Sessions, NEW u \in Users, NEW v \in Verticals,
         NEW r \in AnyRole, BeginInvite(s, u, v, r)
  PROVE  Creates(s)
  <1> DEFINE c == session[s]
             d == [c EXCEPT !.pc = "create", !.target = u]
             e == [d EXCEPT !.vertical = v, !.role = r]
  <1>1. c \in Session /\ c.pc = "act"
    BY CallerIsOwner DEF BeginInvite, At
  <1>2. \/ /\ Pending(c.home, u, v) = {}
           /\ session' = [session EXCEPT ![s] = e]
        \/ \E i \in Invites :
              /\ invite[i] # Null
              /\ session' = [session EXCEPT ![s] =
                    [e EXCEPT !.invite = i, !.read = invite[i]]]
    BY DEF BeginInvite, Existing, Pending
  <1> HIDE DEF c
  <1>3. /\ d \in Session /\ d.pc = "create" /\ d.at = c.at
        /\ d.home = c.home /\ d.target = u
    BY <1>1 DEF Session
  <1> HIDE DEF d
  <1>4. /\ e \in Session /\ e.pc = "create" /\ e.at = c.at
        /\ e.home = c.home /\ e.target = u /\ e.vertical = v
    BY <1>3 DEF Session
  <1> HIDE DEF e
  <1>5. CASE /\ Pending(c.home, u, v) = {}
             /\ session' = [session EXCEPT ![s] = e]
    BY <1>1, <1>4, <1>5, MoveIsOK DEF Creates, c
  <1>6. ASSUME NEW i \in Invites, invite[i] # Null,
               session' = [session EXCEPT ![s] =
                  [e EXCEPT !.invite = i, !.read = invite[i]]]
        PROVE  Creates(s)
    <2> DEFINE j == invite[i]
               f == [e EXCEPT !.invite = i, !.read = j]
    <2>1. j \in Invite /\ session' = [session EXCEPT ![s] = f]
      BY <1>6, InviteIsOK
    <2> HIDE DEF j
    <2>2. /\ f \in Session /\ f.pc = "create" /\ f.at = c.at /\ f.invite = i
      BY <1>4, <2>1 DEF Session
    <2> HIDE DEF f
    <2>3. i # Null
      BY TeamAssumption
    <2> QED BY <1>1, <2>1, <2>2, <2>3, MoveIsOK DEF Creates, c
  <1> QED BY <1>2, <1>5, <1>6

LEMMA BeginAcceptEffect ==
  ASSUME Inv, NEW s \in Sessions, NEW i \in Invites,
         NEW u \in account \cup {Null}, BeginAccept(s, i, u)
  PROVE  Opens(s)
  <1> DEFINE b == Begun(u)
             pc == IF invite[i].lapsed THEN "expire" ELSE "user"
             j == invite[i]
             d == [b EXCEPT !.pc = pc, !.invite = i]
             e == [d EXCEPT !.read = j]
  <1>1. invite[i] # Null /\ invite[i].status = "pending" /\ clock' = clock + 1
    BY DEF BeginAccept, Open, Arrives
  <1>2. session' = [session EXCEPT ![s] = e] /\ j \in Invite
    BY <1>1, InviteIsOK DEF BeginAccept
  <1>3. pc \in {"expire", "user"}
    OBVIOUS
  <1>4. TypeOK /\ u \in Users \cup {Null}
    BY DEF Inv, TypeOK
  <1>5. b \in Session /\ b.at = clock + 1
    BY <1>4, BegunIsSession
  <1> HIDE DEF b, pc, j
  <1>6. d \in Session /\ d.at = clock + 1 /\ d.pc = pc /\ d.invite = i
    BY <1>3, <1>5 DEF Session
  <1> HIDE DEF d
  <1>7. e \in Session /\ e.at = clock + 1 /\ e.pc = pc /\ e.invite = i
    BY <1>2, <1>6 DEF Session
  <1> HIDE DEF e
  <1> QED BY <1>1, <1>2, <1>3, <1>7, MoveIsOK DEF Opens

LEMMA FindUserEffect ==
  ASSUME Inv, NEW s \in Sessions, FindUser(s)
  PROVE  Finds(s) /\ UNCHANGED <<roles, invite>>
  <1> DEFINE c == session[s]
             d == [c EXCEPT !.pc = "join"]
             e == [d EXCEPT !.at = clock + 1]
  <1>1. c \in Session /\ At(s, "user") /\ clock + 1 \in Nat
    BY DEF FindUser, Inv, TypeOK
  <1>2. \/ session' = [session EXCEPT ![s] = d] /\ clock' = clock
        \/ session' = [session EXCEPT ![s] = e] /\ clock' = clock + 1
    BY DEF FindUser, GoTo
  <1>3. UNCHANGED <<roles, invite>>
    BY DEF FindUser
  <1> HIDE DEF c
  <1>4. /\ d \in Session /\ d.pc = "join" /\ d.at = c.at
        /\ d.invite = c.invite /\ d.read = c.read
    BY <1>1 DEF Session
  <1> HIDE DEF d
  <1>5. /\ e \in Session /\ e.pc = "join" /\ e.at = clock + 1
        /\ e.invite = c.invite /\ e.read = c.read
    BY <1>1, <1>4 DEF Session
  <1> HIDE DEF e
  <1> QED BY <1>1, <1>2, <1>3, <1>4, <1>5, MoveIsOK DEF Finds, c

-----------------------------------------------------------------------------
(* One pending invitation for an address                                   *)

Live(i) == invite[i] # Null /\ invite[i].status = "pending"

\* No two pending invitations are of one address to one team and vertical.
OneLive == \A i, j \in Invites :
              Live(i) /\ Live(j) /\ Same(invite[i], invite[j]) => i = j

\* A request about to create one has found none, and none has come since.
NoneYet == \A s \in Sessions : At(s, "create") /\ session[s].invite = Null =>
              Pending(session[s].home, session[s].target, session[s].vertical) = {}

CreationOK == OneLive /\ NoneYet

\* What was pending is what is pending.
NoneOpens == \A i \in Invites :
    Live(i)' => Live(i) /\ Same(invite'[i], invite[i])

\* Only the invitation request s decides changes its status.
StatusesStay(s) == \A i \in Invites :
    invite[i] # Null /\ (Decides(s) => i # session[s].invite) =>
        invite'[i].status = invite[i].status

\* One row is refreshed: its status stays.
LEMMA RefreshEffect ==
  ASSUME Inv, NEW i \in Invites, invite[i] # Null, NEW x \in Invite,
         Same(x, invite[i]), x.status = invite[i].status,
         invite' = [invite EXCEPT ![i] = x]
  PROVE  NoneOpens /\ \A s \in Sessions : StatusesStay(s)
  <1>1. /\ invite'[i] = x
        /\ \A j \in Invites \ {i} : invite'[j] = invite[j]
    BY DEF Inv, TypeOK
  <1> QED BY <1>1 DEF NoneOpens, Live, StatusesStay, Same

LEMMA StatusEffect ==
  ASSUME Inv, NEW s \in Sessions, session[s].invite \in Invites, Decides(s),
         invite[session[s].invite] # Null,
         NEW st \in {"accepted", "revoked", "expired"}, SetStatus(s, st)
  PROVE  NoneOpens /\ StatusesStay(s)
  <1> DEFINE i == session[s].invite
             x == [invite[i] EXCEPT !.status = st]
  <1>1. CASE invite' = invite
    BY <1>1 DEF NoneOpens, Live, StatusesStay, Same
  <1>2. CASE invite' = [invite EXCEPT ![i].status = st]
    <2>1. invite[i] \in Invite /\ invite \in [Invites -> Invite \cup {Null}]
      BY DEF Inv, TypeOK
    <2>2. invite' = [invite EXCEPT ![i] = x] /\ x.status = st
      BY <1>2, <2>1 DEF Invite
    <2> HIDE DEF x
    <2>3. /\ invite'[i].status # "pending"
          /\ \A j \in Invites \ {i} : invite'[j] = invite[j]
      BY <2>1, <2>2
    <2> QED BY <2>3 DEF NoneOpens, Live, StatusesStay, Same
  <1> QED BY <1>1, <1>2 DEF SetStatus

LEMMA RenewalEffect ==
  ASSUME Inv, NEW i \in Invites, invite[i] # Null
  PROVE  Renewed(i).status = invite[i].status
  <1>1. invite[i] \in Invite
    BY InviteIsOK
  <1> QED BY <1>1 DEF Renewed, Invite

LEMMA ResendEffect ==
  ASSUME Inv, NEW s \in Sessions, ResendInvite(s)
  PROVE  NoneOpens /\ \A o \in Sessions : StatusesStay(o)
  <1> DEFINE i == session[s].invite
             x == Renewed(i)
  <1>1. i \in Invites /\ invite[i] # Null
    BY DEF ResendInvite, At, Inv, SessionOK
  <1>2. invite' = [invite EXCEPT ![i] = x]
    BY DEF ResendInvite
  <1> HIDE DEF i
  <1>3. x \in Invite /\ Same(x, invite[i]) /\ x.status = invite[i].status
    BY <1>1, InviteIsOK, RenewalEffect
  <1> HIDE DEF x
  <1> QED BY <1>1, <1>2, <1>3, RefreshEffect

LEMMA LapseEffect ==
  ASSUME Inv, NEW i \in Invites, Lapse(i)
  PROVE  NoneOpens /\ \A o \in Sessions : StatusesStay(o)
  <1> DEFINE x == [invite[i] EXCEPT !.lapsed = TRUE]
  <1>1. invite[i] \in Invite /\ invite[i] # Null
    BY InviteIsOK DEF Lapse
  <1>2. x \in Invite /\ Same(x, invite[i]) /\ x.status = invite[i].status
    BY <1>1 DEF Invite, Same
  <1>3. invite' = [invite EXCEPT ![i] = x]
    BY DEF Lapse
  <1> HIDE DEF x
  <1> QED BY <1>1, <1>2, <1>3, RefreshEffect

\* The row a commit of create_invite adds
NewRow(c) == [merchant |-> c.home, email |-> c.target,
              vertical |-> c.vertical, role |-> c.role,
              token |-> 1, lapsed |-> FALSE, status |-> "pending"]

LEMMA CreateEffect ==
  ASSUME Inv, NEW s \in Sessions, CreateInvite(s)
  PROVE  LET c == session[s]
         IN  /\ StatusesStay(s)
             /\ \/ NoneOpens
                \/ /\ c.invite = Null
                   /\ \E i \in Invites :
                         /\ invite[i] = Null /\ invite'[i] = NewRow(c)
                         /\ \A j \in Invites \ {i} : invite'[j] = invite[j]
  <1> DEFINE c == session[s]
  <1>1. /\ c \in Session /\ c.role \in AnyRole
        /\ c.invite # Null => c.invite \in Invites /\ invite[c.invite] # Null
        /\ invite \in [Invites -> Invite \cup {Null}]
    BY DEF CreateInvite, At, Inv, TypeOK, Session, SessionOK
  <1>2. ASSUME NEW i \in Invites, c.invite = Null, invite[i] = Null,
               invite' = [invite EXCEPT ![i] = NewRow(c)]
        PROVE  /\ invite'[i] = NewRow(c)
               /\ \A j \in Invites \ {i} : invite'[j] = invite[j]
               /\ StatusesStay(s)
    BY <1>1, <1>2 DEF StatusesStay
  <1>3. ASSUME c.invite # Null,
               invite' = [invite EXCEPT ![c.invite] =
                  [Renewed(c.invite) EXCEPT
                      !.role = IF c.read.role = c.role THEN @ ELSE c.role]]
        PROVE  NoneOpens /\ \A o \in Sessions : StatusesStay(o)
    <2> DEFINE i == c.invite
               y == Renewed(i)
               q == IF c.read.role = c.role THEN y.role ELSE c.role
               x == [y EXCEPT !.role = q]
    <2>1. i \in Invites /\ invite[i] # Null
      BY <1>1, <1>3
    <2>2. invite' = [invite EXCEPT ![i] = x]
      BY <1>3
    <2> HIDE DEF i
    <2>3. y \in Invite /\ Same(y, invite[i]) /\ y.status = invite[i].status
      BY <2>1, InviteIsOK, RenewalEffect
    <2> HIDE DEF y
    <2>4. q \in AnyRole
      BY <1>1, <2>3 DEF Invite
    <2> HIDE DEF q
    <2>5. x \in Invite /\ Same(x, y) /\ x.status = y.status
      BY <2>3, <2>4 DEF Invite, Same
    <2> HIDE DEF x
    <2> QED BY <2>1, <2>2, <2>3, <2>5, RefreshEffect DEF Same
  <1>4. \/ \E i \in Invites : /\ c.invite = Null /\ invite[i] = Null
                              /\ invite' = [invite EXCEPT ![i] = NewRow(c)]
        \/ /\ c.invite # Null
           /\ invite' = [invite EXCEPT ![c.invite] =
                  [Renewed(c.invite) EXCEPT
                      !.role = IF c.read.role = c.role THEN @ ELSE c.role]]
    BY DEF CreateInvite, NewRow
  <1> HIDE DEF c
  <1> QED BY <1>2, <1>3, <1>4 DEF c

\* Who writes no new row keeps it, if nobody starts creating without looking.
LEMMA CreationIsKept ==
  ASSUME Inv, Inv', CreationOK, NoneOpens,
         \A o \in Sessions :
            session'[o].pc = "create" /\ session'[o].invite = Null =>
               Pending(session'[o].home, session'[o].target,
                       session'[o].vertical) = {}
  PROVE  CreationOK'
  <1>1. OneLive'
    BY DEF CreationOK, OneLive, NoneOpens, Live, Same
  <1>2. NoneYet'
    BY DEF NoneYet, At, Pending, NoneOpens, Live, Same
  <1> QED BY <1>1, <1>2 DEF CreationOK

\* What the requests that do not move have found is what it was.
LEMMA FoundNone ==
  ASSUME CreationOK, NEW s \in Sessions, Moves(s), NEW o \in Sessions, o # s,
         session'[o].pc = "create", session'[o].invite = Null
  PROVE  Pending(session'[o].home, session'[o].target,
                 session'[o].vertical) = {}
  BY DEF CreationOK, NoneYet, At, Moves

LEMMA NewRowOK ==
  ASSUME Inv, Inv', CreationOK, OneCreation, NEW s \in Sessions,
         At(s, "create"), session[s].invite = Null, Ends(s),
         NEW i \in Invites, invite[i] = Null, invite'[i] = NewRow(session[s]),
         \A j \in Invites \ {i} : invite'[j] = invite[j]
  PROVE  CreationOK'
  <1> DEFINE c == session[s]
  <1>1. /\ invite'[i].merchant = c.home /\ invite'[i].email = c.target
        /\ invite'[i].vertical = c.vertical
    BY DEF NewRow
  <1>2. \A j \in Invites \ {i} : ~(Live(j) /\ Same(invite[j], invite'[i]))
    BY <1>1 DEF CreationOK, NoneYet, Pending, Live, Same
  <1>3. OneLive'
    BY <1>2 DEF CreationOK, OneLive, Live, Same
  <1>4. NoneYet'
    <2> SUFFICES ASSUME NEW o \in Sessions, At(o, "create")',
                        session'[o].invite = Null
          PROVE  Pending(session[o].home, session[o].target,
                         session[o].vertical)' = {}
      BY DEF NoneYet, At
    <2>1. o # s /\ session'[o] = session[o] /\ At(o, "create")
      BY DEF Ends, Moves, At, NoSession
    <2>2. Pending(session[o].home, session[o].target, session[o].vertical) = {}
      BY <2>1 DEF CreationOK, NoneYet
    <2>3. \/ c.home # session[o].home \/ c.target # session[o].target
          \/ c.vertical # session[o].vertical
      BY <2>1 DEF OneCreation
    <2> QED BY <1>1, <2>1, <2>2, <2>3 DEF Pending
  <1> QED BY <1>3, <1>4 DEF CreationOK

\* A request that ends, and the others as they were.
LEMMA EndsKeepCreation ==
  ASSUME Inv, Inv', CreationOK, NEW s \in Sessions, Reply(s), NoneOpens
  PROVE  CreationOK'
  <1>1. Ends(s)
    BY EndsEffect
  <1>2. session'[s].pc # "create"
    BY <1>1 DEF Ends, NoSession
  <1> QED BY <1>1, <1>2, CreationIsKept, FoundNone DEF Ends

LEMMA StillKeepCreation ==
  ASSUME Inv, Inv', CreationOK, NEW s \in Sessions, UNCHANGED invite,
         Enters(s) \/ Manages(s) \/ Creates(s) \/ Opens(s) \/ Finds(s)
  PROVE  CreationOK'
  <1>1. NoneOpens
    BY DEF NoneOpens, Live, Same
  <1>2. /\ Moves(s)
        /\ session'[s].pc = "create" /\ session'[s].invite = Null =>
              Pending(session'[s].home, session'[s].target,
                      session'[s].vertical) = {}
    BY DEF Enters, Manages, Creates, Opens, Finds
  <1> QED BY <1>1, <1>2, CreationIsKept, FoundNone

LEMMA CreationStep ==
  ASSUME Inv, Inv', CreationOK, OneCreation, Next
  PROVE  CreationOK'
  <1>1. ASSUME NEW s \in Sessions, Manage(s) PROVE CreationOK'
    <2>1. ASSUME NEW u \in Users, NEW v \in Verticals, NEW r \in AnyRole,
                 BeginInvite(s, u, v, r)
          PROVE  CreationOK'
      BY <2>1, BeginInviteEffect, StillKeepCreation DEF BeginInvite
    <2>2. CASE \/ \E i \in Invites : BeginResend(s, i) \/ BeginRevoke(s, i)
               \/ \E x \in roles, r \in AnyRole : BeginUpdate(s, x, r)
      <3>1. Manages(s) /\ UNCHANGED invite
        BY <2>2, BeginEffect DEF BeginResend, BeginRevoke, BeginUpdate
      <3> QED BY <3>1, StillKeepCreation
    <2>3. CASE UpdateMemberRole(s) \/ \E u \in Users : RemoveMember(s, u)
      <3>1. Reply(s) /\ NoneOpens
        BY <2>3 DEF UpdateMemberRole, RemoveMember, NoneOpens, Live, Same
      <3> QED BY <3>1, EndsKeepCreation
    <2>4. CASE CreateInvite(s)
      <3>1. Reply(s) /\ At(s, "create")
        BY <2>4 DEF CreateInvite
      <3>2. CASE NoneOpens
        BY <3>1, <3>2, EndsKeepCreation
      <3>3. ASSUME session[s].invite = Null, NEW i \in Invites,
                   invite[i] = Null, invite'[i] = NewRow(session[s]),
                   \A j \in Invites \ {i} : invite'[j] = invite[j]
            PROVE  CreationOK'
        BY <3>1, <3>3, EndsEffect, NewRowOK
      <3> QED BY <2>4, <3>2, <3>3, CreateEffect
    <2>5. CASE ResendInvite(s)
      BY <2>5, ResendEffect, EndsKeepCreation DEF ResendInvite
    <2>6. CASE RevokeInvite(s)
      <3>1. /\ Decides(s) /\ session[s].invite \in Invites
            /\ invite[session[s].invite] # Null
        BY <2>6 DEF RevokeInvite, At, Decides, Inv, SessionOK
      <3> QED BY <2>6, <3>1, StatusEffect, EndsKeepCreation DEF RevokeInvite
    <2> QED BY <1>1, <2>1, <2>2, <2>3, <2>4, <2>5, <2>6 DEF Manage
  <1>2. ASSUME NEW s \in Sessions, Accept(s) PROVE CreationOK'
    <2>1. ASSUME NEW i \in Invites, NEW u \in account \cup {Null},
                 BeginAccept(s, i, u)
          PROVE  CreationOK'
      BY <2>1, BeginAcceptEffect, StillKeepCreation DEF BeginAccept
    <2>2. CASE FindUser(s)
      BY <2>2, FindUserEffect, StillKeepCreation
    <2>3. CASE ExpireInvite(s) \/ Join(s)
      <3>1. /\ Decides(s) /\ session[s].invite \in Invites
            /\ invite[session[s].invite] # Null
        BY <2>3 DEF ExpireInvite, Join, At, Decides, Inv, SessionOK
      <3> QED BY <2>3, <3>1, StatusEffect, EndsKeepCreation
              DEF ExpireInvite, Join
    <2> QED BY <1>2, <2>1, <2>2, <2>3 DEF Accept
  <1>3. ASSUME NEW s \in Sessions,
               \/ \E u \in Users : Register(s, u) \/ Call(s, u)
               \/ Backfill(s)
        PROVE  CreationOK'
    <2>1. UNCHANGED invite /\ (Enters(s) \/ Manages(s))
      BY <1>3, EnterEffect, BackfillEffect DEF Backfill
    <2> QED BY <2>1, StillKeepCreation
  <1>4. ASSUME NEW s \in Sessions, Leave(s) PROVE CreationOK'
    <2>1. Reply(s) /\ NoneOpens
      BY <1>4 DEF Leave, NoneOpens, Live, Same
    <2> QED BY <2>1, EndsKeepCreation
  <1>5. ASSUME NEW i \in Invites, Lapse(i) PROVE CreationOK'
    <2>1. NoneOpens /\ UNCHANGED session
      BY <1>5, LapseEffect DEF Lapse
    <2> QED BY <2>1, CreationIsKept DEF CreationOK, NoneYet, At
  <1> QED BY <1>1, <1>2, <1>3, <1>4, <1>5 DEF Next

\* An address has at most one pending invitation to a team and vertical.
LEMMA CreationGivesOne ==
  ASSUME Inv, CreationOK
  PROVE  OnePending
  <1> SUFFICES ASSUME NEW m \in Users, NEW u \in Users, NEW v \in Verticals
        PROVE  Cardinality(Pending(m, u, v)) <= 1
    BY DEF OnePending
  <1> DEFINE P == Pending(m, u, v)
  <1>1. \A i, j \in P : i = j
    BY DEF CreationOK, OneLive, Live, Same, Pending
  <1>2. CASE P = {}
    BY <1>2, FS_EmptySet
  <1>3. CASE P # {}
    <2>1. PICK i \in P : TRUE
      BY <1>3
    <2>2. P = {i}
      BY <1>1, <2>1
    <2>3. Cardinality({i}) = 1
      BY FS_Singleton
    <2> QED BY <2>2, <2>3
  <1> QED BY <1>2, <1>3

\* As long as no two requests create one invitation, an address has one
\* pending invitation to a vertical: re-inviting refreshes it, whatever is
\* resent, revoked, expired and accepted meanwhile (team_management.py:171-186).
THEOREM OnePendingKept == Spec /\ []OneCreation => []OnePending
  <1>1. Init => CreationOK
    <2> SUFFICES ASSUME Init PROVE CreationOK
      OBVIOUS
    <2>1. OneLive
      BY DEF Init, OneLive, Live
    <2>2. NoneYet
      BY DEF Init, NoneYet, At, NoSession
    <2> QED BY <2>1, <2>2 DEF CreationOK
  <1>2. Inv /\ Inv' /\ CreationOK /\ OneCreation /\ [Next]_vars => CreationOK'
    <2>1. ASSUME CreationOK, UNCHANGED vars PROVE CreationOK'
      BY <2>1 DEF CreationOK, OneLive, NoneYet, Live, At, Pending, vars
    <2> QED BY <2>1, CreationStep
  <1>3. Inv /\ CreationOK => OnePending
    BY CreationGivesOne
  <1> QED BY <1>1, <1>2, <1>3, InvHolds, PTL DEF Spec

-----------------------------------------------------------------------------
(* The runs TLC makes are behaviours of Team, and each is in one setting.  *)

LEMMA RunsAreBehaviours == MCSpec => Spec
  <1>1. MCInit => Init
    BY DEF MCInit
  <1>2. [MCNext]_mcVars => [Next]_vars
    BY DEF MCNext, mcVars
  <1> QED BY <1>1, <1>2, PTL DEF MCSpec, Spec

LEMMA IdleIsApart == MCInit => OneCreation /\ OneDecision /\ OneEntrance
  BY DEF MCInit, Init, OneCreation, OneDecision, OneEntrance, At, Decides,
         Joins, NoSession

\* A run in a setting has its condition throughout.
LEMMA RunsOfCreations ==
    MCSpec => []OneCreation \/ [](apart # "creations")
  <1>1. MCInit => OneCreation
    BY IdleIsApart
  <1>2. /\ [MCNext]_mcVars /\ apart = "creations" /\ OneCreation
        => (apart = "creations" /\ OneCreation)'
    BY DEF MCNext, InSetting, mcVars, vars, OneCreation, At
  <1>3. [MCNext]_mcVars /\ apart # "creations" => (apart # "creations")'
    BY DEF MCNext, mcVars
  <1>4. apart = "creations" \/ apart # "creations"
    OBVIOUS
  <1> QED BY <1>1, <1>2, <1>3, <1>4, PTL DEF MCSpec

LEMMA RunsOfDecisions ==
    MCSpec => []OneDecision \/ [](apart # "decisions")
  <1>1. MCInit => OneDecision
    BY IdleIsApart
  <1>2. /\ [MCNext]_mcVars /\ apart = "decisions" /\ OneDecision
        => (apart = "decisions" /\ OneDecision)'
    BY DEF MCNext, InSetting, mcVars, vars, OneDecision, Decides
  <1>3. [MCNext]_mcVars /\ apart # "decisions" => (apart # "decisions")'
    BY DEF MCNext, mcVars
  <1>4. apart = "decisions" \/ apart # "decisions"
    OBVIOUS
  <1> QED BY <1>1, <1>2, <1>3, <1>4, PTL DEF MCSpec

LEMMA RunsOfEntrances ==
    MCSpec => []OneEntrance \/ [](apart # "entrances")
  <1>1. MCInit => OneEntrance
    BY IdleIsApart
  <1>2. /\ [MCNext]_mcVars /\ apart = "entrances" /\ OneEntrance
        => (apart = "entrances" /\ OneEntrance)'
    BY DEF MCNext, InSetting, mcVars, vars, OneEntrance, Joins, At
  <1>3. [MCNext]_mcVars /\ apart # "entrances" => (apart # "entrances")'
    BY DEF MCNext, mcVars
  <1>4. apart = "entrances" \/ apart # "entrances"
    OBVIOUS
  <1> QED BY <1>1, <1>2, <1>3, <1>4, PTL DEF MCSpec

\* As long as no two requests create one invitation, an address has one
\* pending invitation to a vertical, in the runs TLC makes with any bounds.
THEOREM OnePendingInRuns == MCSpec => []OnePendingApart
  <1>1. OnePending => OnePendingApart
    BY DEF OnePendingApart
  <1>2. apart # "creations" => OnePendingApart
    BY DEF OnePendingApart
  <1> QED BY <1>1, <1>2, RunsAreBehaviours, RunsOfCreations, OnePendingKept, PTL

-----------------------------------------------------------------------------
(* Only a pending invitation grants a role                                 *)

\* What a step does to the request that takes it and to other invitations.
LEMMA StepEffect ==
  ASSUME Inv, Next
  PROVE  \/ UNCHANGED <<session, roles, clock>> /\ \E i \in Invites : Lapse(i)
         \/ \E s \in Sessions : Ends(s) /\ clock' = clock /\ StatusesStay(s)
         \/ \E s \in Sessions :
               /\ UNCHANGED invite
               /\ \/ Enters(s) \/ Opens(s) \/ Finds(s)
                  \/ (Manages(s) \/ Creates(s)) /\ clock' = clock
  <1> DEFINE Goal ==
         \/ UNCHANGED <<session, roles, clock>> /\ \E i \in Invites : Lapse(i)
         \/ \E s \in Sessions : Ends(s) /\ clock' = clock /\ StatusesStay(s)
         \/ \E s \in Sessions :
               /\ UNCHANGED invite
               /\ \/ Enters(s) \/ Opens(s) \/ Finds(s)
                  \/ (Manages(s) \/ Creates(s)) /\ clock' = clock
  <1>1. ASSUME NEW s \in Sessions, Manage(s) PROVE Goal
    <2>1. ASSUME NEW u \in Users, NEW v \in Verticals, NEW r \in AnyRole,
                 BeginInvite(s, u, v, r)
          PROVE  Goal
      BY <2>1, BeginInviteEffect DEF BeginInvite
    <2>2. CASE \/ \E i \in Invites : BeginResend(s, i) \/ BeginRevoke(s, i)
               \/ \E x \in roles, r \in AnyRole : BeginUpdate(s, x, r)
      BY <2>2, BeginEffect DEF BeginResend, BeginRevoke, BeginUpdate
    <2>3. CASE UpdateMemberRole(s) \/ \E u \in Users : RemoveMember(s, u)
      <3>1. Reply(s) /\ clock' = clock /\ StatusesStay(s)
        BY <2>3 DEF UpdateMemberRole, RemoveMember, StatusesStay
      <3> QED BY <3>1, EndsEffect
    <2>4. CASE CreateInvite(s) \/ ResendInvite(s)
      <3>1. Reply(s) /\ clock' = clock /\ StatusesStay(s)
        BY <2>4, CreateEffect, ResendEffect DEF CreateInvite, ResendInvite
      <3> QED BY <3>1, EndsEffect
    <2>5. CASE RevokeInvite(s)
      <3>1. /\ Decides(s) /\ session[s].invite \in Invites
            /\ invite[session[s].invite] # Null
        BY <2>5 DEF RevokeInvite, At, Decides, Inv, SessionOK
      <3>2. Reply(s) /\ clock' = clock /\ StatusesStay(s)
        BY <2>5, <3>1, StatusEffect DEF RevokeInvite
      <3> QED BY <3>2, EndsEffect
    <2> QED BY <1>1, <2>1, <2>2, <2>3, <2>4, <2>5 DEF Manage
  <1>2. ASSUME NEW s \in Sessions, Accept(s) PROVE Goal
    <2>1. ASSUME NEW i \in Invites, NEW u \in account \cup {Null},
                 BeginAccept(s, i, u)
          PROVE  Goal
      BY <2>1, BeginAcceptEffect DEF BeginAccept
    <2>2. CASE FindUser(s)
      BY <2>2, FindUserEffect
    <2>3. CASE ExpireInvite(s) \/ Join(s)
      <3>1. /\ Decides(s) /\ session[s].invite \in Invites
            /\ invite[session[s].invite] # Null
        BY <2>3 DEF ExpireInvite, Join, At, Decides, Inv, SessionOK
      <3>2. Reply(s) /\ clock' = clock /\ StatusesStay(s)
        BY <2>3, <3>1, StatusEffect DEF ExpireInvite, Join
      <3> QED BY <3>2, EndsEffect
    <2> QED BY <1>2, <2>1, <2>2, <2>3 DEF Accept
  <1>3. ASSUME NEW s \in Sessions, NEW u \in Users,
               Register(s, u) \/ Call(s, u)
        PROVE  Goal
    BY <1>3, EnterEffect
  <1>4. ASSUME NEW s \in Sessions, Backfill(s) PROVE Goal
    BY <1>4, BackfillEffect DEF Backfill
  <1>5. ASSUME NEW s \in Sessions, Leave(s) PROVE Goal
    <2>1. Reply(s) /\ clock' = clock /\ StatusesStay(s)
      BY <1>5 DEF Leave, StatusesStay
    <2> QED BY <2>1, EndsEffect
  <1>6. ASSUME NEW i \in Invites, Lapse(i) PROVE Goal
    BY <1>6 DEF Lapse
  <1> HIDE DEF Goal
  <1>7. Goal
    BY <1>1, <1>2, <1>3, <1>4, <1>5, <1>6 DEF Next
  <1> QED BY <1>7 DEF Goal

\* Who accepts has an invitation that is pending still.
DecisionOK == \A s \in Sessions :
    Joins(s) => invite[session[s].invite].status = "pending"

LEMMA DecisionIsKept ==
  ASSUME Inv, DecisionOK, OneDecision, NEW s \in Sessions,
         Moves(s), StatusesStay(s),
         Joins(s)' => invite'[session'[s].invite].status = "pending"
  PROVE  DecisionOK'
  <1> SUFFICES ASSUME NEW o \in Sessions, o # s, Joins(o)'
        PROVE  invite'[session'[o].invite].status = "pending"
    BY DEF DecisionOK
  <1>1. session'[o] = session[o] /\ Joins(o) /\ Decides(o)
    BY DEF Moves, Joins, Decides
  <1>2. session[o].invite \in Invites /\ invite[session[o].invite] # Null
    BY <1>1 DEF Joins, Inv, SessionOK
  <1>3. Decides(s) => session[o].invite # session[s].invite
    BY <1>1 DEF OneDecision
  <1> QED BY <1>1, <1>2, <1>3 DEF StatusesStay, DecisionOK

LEMMA DecisionStep ==
  ASSUME Inv, DecisionOK, OneDecision, Next
  PROVE  DecisionOK'
  <1>1. ASSUME NEW i \in Invites, UNCHANGED session, Lapse(i)
        PROVE  DecisionOK'
    <2>1. \A s \in Sessions : StatusesStay(s)
      BY <1>1, LapseEffect
    <2> SUFFICES ASSUME NEW s \in Sessions, Joins(s)'
          PROVE  invite'[session'[s].invite].status = "pending"
      BY DEF DecisionOK
    <2>2. Joins(s) /\ session'[s] = session[s]
      BY <1>1 DEF Joins
    <2>3. session[s].invite \in Invites /\ invite[session[s].invite] # Null
      BY <2>2 DEF Joins, Inv, SessionOK
    <2>4. \A j \in Invites : invite[j] # Null => invite'[j].status = invite[j].status
      <3>1. invite'= [invite EXCEPT ![i].lapsed = TRUE]
        BY <1>1 DEF Lapse
      <3>2. invite[i] # Null => invite[i] \in Invite
        BY DEF Inv, TypeOK
      <3> QED BY <3>1, <3>2 DEF Inv, TypeOK, Invite
    <2> QED BY <2>2, <2>3, <2>4 DEF DecisionOK
  <1>2. ASSUME NEW s \in Sessions, Ends(s), StatusesStay(s)
        PROVE  DecisionOK'
    BY <1>2, DecisionIsKept DEF Ends, Joins, NoSession
  <1>3. ASSUME NEW s \in Sessions, UNCHANGED invite,
               \/ Enters(s) \/ Opens(s) \/ Finds(s) \/ Manages(s) \/ Creates(s)
        PROVE  DecisionOK'
    <2>1. Moves(s) /\ StatusesStay(s)
      BY <1>3 DEF Enters, Opens, Finds, Manages, Creates, StatusesStay
    <2>2. CASE Opens(s)
      BY <1>3, <2>1, <2>2, DecisionIsKept DEF Opens
    <2>3. CASE Finds(s)
      BY <1>3, <2>1, <2>3, DecisionIsKept DEF Finds, DecisionOK, Joins, At
    <2>4. CASE Enters(s) \/ Manages(s) \/ Creates(s)
      BY <2>1, <2>4, DecisionIsKept DEF Enters, Manages, Creates, Joins
    <2> QED BY <1>3, <2>2, <2>3, <2>4
  <1> QED BY <1>1, <1>2, <1>3, StepEffect

\* A new row is its user's own, replaces one, or is by a pending invitation.
LEMMA GrantStep ==
  ASSUME Inv, DecisionOK, Next
  PROVE  GrantIsPending
  <1> SUFFICES ASSUME NEW r \in roles' \ roles, r.merchant # r.user
        PROVE  \/ Taken(r.user, r.merchant, r.vertical)
               \/ Pending(r.merchant, r.user, r.vertical) # {}
    BY DEF GrantIsPending
  <1>1. \/ \E s \in Sessions : UpdateMemberRole(s) \/ Join(s)
        \/ \E s \in Sessions : Backfill(s)
    <2>1. ASSUME NEW s \in Sessions, Manage(s) PROVE UpdateMemberRole(s)
      BY <2>1 DEF Manage, BeginInvite, BeginUpdate, BeginResend,
          BeginRevoke, RemoveMember, CreateInvite, ResendInvite,
          RevokeInvite
    <2>2. ASSUME NEW s \in Sessions, Accept(s) PROVE Join(s)
      BY <2>2 DEF Accept, BeginAccept, ExpireInvite, FindUser
    <2> QED BY <2>1, <2>2 DEF Next, Register, Call, Leave, Lapse
  <1>2. ASSUME NEW s \in Sessions, Backfill(s) PROVE FALSE
    BY <1>2 DEF Backfill, At, Inv, SessionOK
  <1>3. ASSUME NEW s \in Sessions, UpdateMemberRole(s)
        PROVE  Taken(r.user, r.merchant, r.vertical)
    <2>1. PICK x \in roles : r = [x EXCEPT !.role = session[s].role]
      BY <1>3 DEF UpdateMemberRole
    <2>2. x \in RoleRow /\ session[s].role \in AnyRole
      BY <1>3 DEF UpdateMemberRole, At, Inv, TypeOK, SessionOK
    <2>3. /\ r.user = x.user /\ r.merchant = x.merchant
          /\ r.vertical = x.vertical
      BY <2>1, <2>2, SetRowRole
    <2> QED BY <2>3 DEF Taken
  <1>4. ASSUME NEW s \in Sessions, Join(s)
        PROVE  Pending(r.merchant, r.user, r.vertical) # {}
    <2> DEFINE i == session[s].invite
               j == session[s].read
    <2>1. /\ i \in Invites /\ invite[i] # Null /\ Same(invite[i], j)
          /\ invite[i].status = "pending"
      BY <1>4 DEF Join, At, Joins, Inv, SessionOK, DecisionOK
    <2>2. r.user = j.email /\ r.merchant = j.merchant /\ r.vertical = j.vertical
      BY <1>4 DEF Join, Invitee
    <2> QED BY <2>1, <2>2 DEF Pending, Same
  <1> QED BY <1>1, <1>2, <1>3, <1>4

\* As long as no two requests decide one invitation, a role in somebody
\* else's merchant appears only by an invitation pending at that moment: a
\* revoked, used or expired link grants nothing (team_management.py:271).
THEOREM GrantsPending ==
    Spec /\ []OneDecision => [][GrantIsPending]_vars
  <1>1. Init => DecisionOK
    BY DEF Init, DecisionOK, Joins, NoSession
  <1>2. Inv /\ DecisionOK /\ OneDecision /\ [Next]_vars => DecisionOK'
    <2>1. ASSUME DecisionOK, UNCHANGED vars PROVE DecisionOK'
      BY <2>1 DEF DecisionOK, Joins, vars
    <2> QED BY <2>1, DecisionStep
  <1>3. Inv /\ DecisionOK /\ [Next]_vars => [GrantIsPending]_vars
    BY GrantStep
  <1> QED BY <1>1, <1>2, <1>3, InvHolds, PTL DEF Spec

\* The same, in the runs TLC makes with any bounds.
THEOREM GrantsPendingInRuns == MCSpec => GrantsArePendingApart
  <1>1. [GrantIsPending]_vars =>
           [apart = "decisions" => GrantIsPending]_mcVars
    BY DEF mcVars, vars, GrantIsPending
  <1>2. apart # "decisions" => [apart = "decisions" => GrantIsPending]_mcVars
    OBVIOUS
  <1>3. MCSpec => [][apart = "decisions" => GrantIsPending]_mcVars
    BY <1>1, <1>2, RunsAreBehaviours, RunsOfDecisions, GrantsPending, PTL
  <1> QED BY <1>3 DEF GrantsArePendingApart

-----------------------------------------------------------------------------
(* Who works in their own merchant goes on doing so                        *)

Own(r) == r.merchant = r.user

\* Rows and requests are of distinct transactions that have begun.
TimesOK ==
    /\ \A r \in roles : r.at <= clock
    /\ \A s \in Sessions : session[s].at <= clock
    /\ \A s, o \in Sessions :
          s # o /\ ~At(s, "idle") /\ ~At(o, "idle") =>
             session[s].at # session[o].at
    /\ \A s \in Sessions, r \in roles :
          ~At(s, "idle") /\ ~Own(r) => r.at # session[s].at

\* A user's own rows are never of one transaction with an invited one, and
\* are older than the one they are about to join a team in.
OwnApart == \A r, q \in roles :
    r.user = q.user /\ Own(r) /\ ~Own(q) => r.at # q.at

JoinsLast == \A s \in Sessions, r \in roles :
    Joins(s) /\ Own(r) /\ r.user = session[s].read.email =>
        r.at < session[s].at

EntranceOK == TimesOK /\ OwnApart /\ JoinsLast

\* The rows a step leaves: the old ones, with what a backfill or a join adds.
Like(r, x) == r.user = x.user /\ r.merchant = x.merchant /\ r.at = x.at
Old(r) == \E x \in roles : Like(r, x)
Granted(s, r) == Own(r) /\ r.user = session[s].user /\ r.at = session[s].at
Joined(s, r) ==
    ~Own(r) /\ r.user = session[s].read.email /\ r.at = session[s].at

LEMMA RowsEffect ==
  ASSUME Inv, Next
  PROVE  \/ \A r \in roles' : Old(r)
         \/ \E s \in Sessions : Backfill(s) /\ \A r \in roles' : Old(r) \/ Granted(s, r)
         \/ \E s \in Sessions : Join(s) /\ \A r \in roles' : Old(r) \/ Joined(s, r)
  <1>1. roles' \subseteq roles => \A r \in roles' : Old(r)
    BY DEF Old, Like
  <1>2. ASSUME NEW s \in Sessions, Manage(s) PROVE \A r \in roles' : Old(r)
    <2>1. CASE UpdateMemberRole(s)
      <3> SUFFICES ASSUME NEW r \in roles', r \notin roles PROVE Old(r)
        BY DEF Old, Like
      <3>1. PICK x \in roles : r = [x EXCEPT !.role = session[s].role]
        BY <2>1 DEF UpdateMemberRole
      <3>2. x \in RoleRow
        BY DEF Inv, TypeOK
      <3>3. Like(r, x)
        BY <3>1, <3>2 DEF RoleRow, Like
      <3> QED BY <3>3 DEF Old
    <2>2. CASE ~UpdateMemberRole(s)
      <3>1. roles' \subseteq roles
        BY <1>2, <2>2
           DEF Manage, BeginInvite, BeginUpdate, BeginResend, BeginRevoke,
               RemoveMember, CreateInvite, ResendInvite, RevokeInvite
      <3> QED BY <1>1, <3>1
    <2> QED BY <2>1, <2>2
  <1>3. ASSUME NEW s \in Sessions, Accept(s), ~Join(s)
        PROVE  \A r \in roles' : Old(r)
    <2>1. roles' \subseteq roles
      BY <1>3 DEF Accept, BeginAccept, ExpireInvite, FindUser
    <2> QED BY <1>1, <2>1
  <1>4. ASSUME NEW s \in Sessions, Join(s)
        PROVE  \A r \in roles' : Old(r) \/ Joined(s, r)
    <2> DEFINE i == session[s].read
    <2> DEFINE j == session[s].invite
    <2>1. /\ j \in Invites /\ invite[j] # Null /\ Same(invite[j], i)
          /\ roles \subseteq RoleRow
      BY <1>4 DEF Join, At, Inv, TypeOK, SessionOK
    <2>2. i.email # i.merchant
      BY <2>1, InviteIsOK DEF Same
    <2>3. \A r \in roles' \ roles :
             r.user = i.email /\ r.merchant = i.merchant /\ r.at = session[s].at
      BY <1>4 DEF Join, Invitee
    <2> QED BY <2>2, <2>3 DEF Old, Like, Joined, Own
  <1>5. ASSUME NEW s \in Sessions, Backfill(s)
        PROVE  \A r \in roles' : Old(r) \/ Granted(s, r)
    <2>1. session[s].home = session[s].user
      BY <1>5 DEF Backfill, At, Inv, SessionOK
    <2>2. \A r \in roles' \ roles :
             /\ r.user = session[s].user /\ r.merchant = session[s].user
             /\ r.at = session[s].at
      BY <1>5, <2>1 DEF Backfill
    <2> QED BY <2>2 DEF Old, Like, Granted, Own
  <1>6. ASSUME NEW s \in Sessions,
               Leave(s) \/ \E u \in Users : Register(s, u) \/ Call(s, u)
        PROVE  \A r \in roles' : Old(r)
    BY <1>1, <1>6 DEF Leave, Register, Call
  <1>7. ASSUME NEW i \in Invites, Lapse(i) PROVE \A r \in roles' : Old(r)
    BY <1>1, <1>7 DEF Lapse
  <1> QED BY <1>2, <1>3, <1>4, <1>5, <1>6, <1>7 DEF Next

LEMMA TimesTyped ==
  ASSUME Inv
  PROVE  /\ clock \in Nat /\ \A r \in roles : r.at \in Nat
         /\ \A s \in Sessions : session[s].at \in Nat
  BY DEF Inv, TypeOK, RoleRow, Session

\* A request that ends, with the row it may have added
LEMMA TimesAtEnd ==
  ASSUME Inv, TimesOK, NEW s \in Sessions, Ends(s), clock' = clock,
         \A r \in roles' : Old(r) \/ (~At(s, "idle") /\ r.at = session[s].at)
  PROVE  TimesOK'
  <1>1. session'[s].pc = "idle" /\ session'[s].at = 0
    BY DEF Ends, NoSession
  <1>2. \A o \in Sessions \ {s} : session'[o] = session[o]
    BY DEF Ends, Moves
  <1>3. /\ \A r \in roles' : r.at <= clock
        /\ \A o \in Sessions : session'[o].at <= clock
    BY <1>1, <1>2, TimesTyped DEF TimesOK, Old, Like
  <1>4. \A o \in Sessions, r \in roles' :
           session'[o].pc # "idle" /\ ~Own(r) => r.at # session'[o].at
    BY <1>1, <1>2 DEF TimesOK, Old, Like, Own, At
  <1>5. \A o, p \in Sessions :
           o # p /\ session'[o].pc # "idle" /\ session'[p].pc # "idle" =>
              session'[o].at # session'[p].at
    BY <1>1, <1>2 DEF TimesOK, At
  <1> QED BY <1>3, <1>4, <1>5 DEF TimesOK, At

\* A request that goes on in its transaction, with the rows it may have added
LEMMA TimesInside ==
  ASSUME Inv, TimesOK, NEW s \in Sessions, clock' = clock, Moves(s),
         ~At(s, "idle"), session'[s].at = session[s].at,
         \A r \in roles' : Old(r) \/ (Own(r) /\ r.at = session[s].at)
  PROVE  TimesOK'
  <1>1. \A o \in Sessions : session'[o].at = session[o].at
    BY DEF Moves
  <1>2. \A o \in Sessions : ~At(o, "idle")' => ~At(o, "idle")
    BY DEF Moves, At
  <1>3. \A r \in roles' : r.at <= clock
    BY DEF TimesOK, Old, Like
  <1>4. \A o \in Sessions, r \in roles' :
           ~At(o, "idle") /\ ~Own(r) => r.at # session[o].at
    BY DEF TimesOK, Old, Like, Own
  <1> QED BY <1>1, <1>2, <1>3, <1>4 DEF TimesOK

\* A request that begins a transaction
LEMMA TimesAtStart ==
  ASSUME Inv, TimesOK, NEW s \in Sessions, Moves(s),
         session'[s].at = clock + 1, clock' = clock + 1,
         \A r \in roles' : Old(r)
  PROVE  TimesOK'
  <1>1. \A o \in Sessions \ {s} : session'[o] = session[o]
    BY DEF Moves
  <1>2. /\ \A r \in roles' : r.at <= clock'
        /\ \A o \in Sessions : session'[o].at <= clock'
    BY <1>1, TimesTyped DEF TimesOK, Old, Like
  <1>3. \A o, p \in Sessions :
           o # p /\ session'[o].pc # "idle" /\ session'[p].pc # "idle" =>
              session'[o].at # session'[p].at
    BY <1>1, TimesTyped DEF TimesOK, At
  <1>4. \A o \in Sessions, r \in roles' :
           session'[o].pc # "idle" /\ ~Own(r) => r.at # session'[o].at
    BY <1>1, TimesTyped DEF TimesOK, At, Old, Like, Own
  <1> QED BY <1>2, <1>3, <1>4 DEF TimesOK, At

\* No row of another transaction is added; who may join after the step was
\* joining, or has just begun.
LEMMA EntranceQuiet ==
  ASSUME Inv, EntranceOK, TimesOK', NEW s \in Sessions, Moves(s),
         \A r \in roles' : Old(r),
         \/ ~Joins(s)'
         \/ session'[s].at = clock + 1
         \/ /\ Joins(s) /\ session'[s].read = session[s].read
            /\ session'[s].at = session[s].at
  PROVE  EntranceOK'
  <1>1. OwnApart'
    BY DEF EntranceOK, OwnApart, Old, Like, Own
  <1>2. ASSUME NEW o \in Sessions, NEW r \in roles', Joins(o)', Own(r),
               r.user = session'[o].read.email
        PROVE  r.at < session'[o].at
    <2>1. PICK x \in roles : Like(r, x)
      BY DEF Old
    <2>2. Own(x) /\ x.user = session'[o].read.email /\ r.at = x.at
      BY <1>2, <2>1 DEF Like, Own
    <2>3. CASE Joins(o) /\ session'[o].read = session[o].read
               /\ session'[o].at = session[o].at
      BY <2>2, <2>3 DEF EntranceOK, JoinsLast
    <2>4. CASE session'[o].at = clock + 1
      BY <2>2, <2>4, TimesTyped DEF EntranceOK, TimesOK
    <2>5. o # s => session'[o] = session[o]
      BY DEF Moves
    <2> QED BY <1>2, <2>3, <2>4, <2>5 DEF Joins
  <1>3. JoinsLast'
    BY <1>2 DEF JoinsLast
  <1> QED BY <1>1, <1>3 DEF EntranceOK

LEMMA EntranceBackfill ==
  ASSUME Inv, EntranceOK, OneEntrance, NEW s \in Sessions, Backfill(s),
         \A r \in roles' : Old(r) \/ Granted(s, r)
  PROVE  EntranceOK'
  <1>1. Manages(s) /\ clock' = clock /\ At(s, "backfill")
    BY BackfillEffect DEF Backfill
  <1>2. ~At(s, "idle") /\ \A r \in roles' : Old(r) \/ (Own(r) /\ r.at = session[s].at)
    BY <1>1 DEF Granted, At
  <1>3. TimesOK'
    BY <1>1, <1>2, TimesInside DEF Manages, EntranceOK
  <1>4. OwnApart'
    <2> SUFFICES ASSUME NEW r \in roles', NEW q \in roles', r.user = q.user,
                        Own(r), ~Own(q)
          PROVE  r.at # q.at
      BY DEF OwnApart
    <2>1. PICK y \in roles : Like(q, y)
      BY DEF Old, Granted
    <2>2. y.user = q.user /\ ~Own(y) /\ q.at = y.at
      BY <2>1 DEF Like, Own
    <2>3. CASE Old(r)
      BY <2>2, <2>3 DEF EntranceOK, OwnApart, Old, Like, Own
    <2>4. CASE Granted(s, r)
      BY <1>2, <2>2, <2>4 DEF EntranceOK, TimesOK, Granted
    <2> QED BY <2>3, <2>4
  <1>5. JoinsLast'
    <2> SUFFICES ASSUME NEW o \in Sessions, NEW r \in roles', Joins(o)', Own(r),
                        r.user = session'[o].read.email
          PROVE  r.at < session'[o].at
      BY DEF JoinsLast
    <2>1. session'[o] = session[o] /\ Joins(o)
      BY <1>1 DEF Manages, Moves, Joins
    <2>2. ~Granted(s, r)
      BY <1>1, <2>1 DEF OneEntrance, Granted
    <2>3. PICK x \in roles : Like(r, x)
      BY <2>2 DEF Old
    <2> QED BY <2>1, <2>3 DEF Like, Own, EntranceOK, JoinsLast
  <1> QED BY <1>3, <1>4, <1>5 DEF EntranceOK

LEMMA EntranceJoin ==
  ASSUME Inv, EntranceOK, NEW s \in Sessions, Join(s),
         \A r \in roles' : Old(r) \/ Joined(s, r)
  PROVE  EntranceOK'
  <1>1. Ends(s) /\ clock' = clock /\ At(s, "join")
    BY EndsEffect DEF Join
  <1>2. ~At(s, "idle") /\ Joins(s)
    BY <1>1 DEF At, Joins
  <1>3. \A r \in roles' : Old(r) \/ (~At(s, "idle") /\ r.at = session[s].at)
    BY <1>2 DEF Joined
  <1>4. TimesOK'
    BY <1>1, <1>3, TimesAtEnd DEF EntranceOK
  <1>5. OwnApart'
    <2> SUFFICES ASSUME NEW r \in roles', NEW q \in roles', r.user = q.user,
                        Own(r), ~Own(q)
          PROVE  r.at # q.at
      BY DEF OwnApart
    <2>1. PICK x \in roles : Like(r, x)
      BY DEF Old, Joined
    <2>2. x.user = r.user /\ Own(x) /\ r.at = x.at
      BY <2>1 DEF Like, Own
    <2>3. CASE Old(q)
      BY <2>2, <2>3 DEF EntranceOK, OwnApart, Old, Like, Own
    <2>4. CASE Joined(s, q)
      <3>1. x.at < session[s].at
        BY <1>2, <2>2, <2>4 DEF EntranceOK, JoinsLast, Joined
      <3> QED BY <2>2, <2>4, <3>1, TimesTyped DEF Joined
    <2> QED BY <2>3, <2>4
  <1>6. JoinsLast'
    <2> SUFFICES ASSUME NEW o \in Sessions, NEW r \in roles', Joins(o)', Own(r),
                        r.user = session'[o].read.email
          PROVE  r.at < session'[o].at
      BY DEF JoinsLast
    <2>1. session'[o] = session[o] /\ Joins(o)
      BY <1>1 DEF Ends, Moves, Joins, NoSession
    <2>2. PICK x \in roles : Like(r, x)
      BY DEF Old, Joined
    <2> QED BY <2>1, <2>2 DEF Like, Own, EntranceOK, JoinsLast
  <1> QED BY <1>4, <1>5, <1>6 DEF EntranceOK

LEMMA EntranceStep ==
  ASSUME Inv, EntranceOK, OneEntrance, Next
  PROVE  EntranceOK'
  <1>1. CASE \A r \in roles' : Old(r)
    <2>1. ASSUME UNCHANGED <<session, roles, clock>> PROVE EntranceOK'
      BY <2>1 DEF EntranceOK, TimesOK, OwnApart, JoinsLast, At, Joins
    <2>2. ASSUME NEW s \in Sessions, Ends(s), clock' = clock
          PROVE  EntranceOK'
      <3>1. TimesOK'
        BY <1>1, <2>2, TimesAtEnd DEF EntranceOK
      <3> QED BY <1>1, <2>2, <3>1, EntranceQuiet DEF Ends, Joins, NoSession
    <2>3. ASSUME NEW s \in Sessions, Manages(s) \/ Creates(s), clock' = clock
          PROVE  EntranceOK'
      <3>1. /\ Moves(s) /\ ~At(s, "idle") /\ session'[s].at = session[s].at
            /\ ~Joins(s)'
        BY <2>3 DEF Manages, Creates, At, Joins
      <3>2. TimesOK'
        BY <1>1, <2>3, <3>1, TimesInside DEF EntranceOK
      <3> QED BY <1>1, <3>1, <3>2, EntranceQuiet
    <2>4. ASSUME NEW s \in Sessions, Finds(s), clock' = clock
          PROVE  EntranceOK'
      <3>1. /\ Moves(s) /\ ~At(s, "idle") /\ Joins(s)
            /\ session'[s].read = session[s].read
            /\ session'[s].at \in {session[s].at, clock + 1}
        BY <2>4 DEF Finds, At, Joins
      <3>2. session'[s].at = session[s].at
        BY <2>4, TimesTyped DEF Finds
      <3>3. TimesOK'
        BY <1>1, <2>4, <3>1, <3>2, TimesInside DEF EntranceOK
      <3> QED BY <1>1, <3>1, <3>2, <3>3, EntranceQuiet
    <2>5. ASSUME NEW s \in Sessions, Moves(s),
                 session'[s].at = clock + 1, clock' = clock + 1
          PROVE  EntranceOK'
      <3>1. TimesOK'
        BY <1>1, <2>5, TimesAtStart DEF EntranceOK
      <3> QED BY <1>1, <2>5, <3>1, EntranceQuiet
    <2>6. ASSUME NEW s \in Sessions, Enters(s) \/ Opens(s) \/ Finds(s)
          PROVE  EntranceOK'
      BY <2>4, <2>5, <2>6 DEF Enters, Opens, Finds
    <2> QED BY <2>1, <2>2, <2>3, <2>6, StepEffect
  <1>2. ASSUME NEW s \in Sessions, Backfill(s),
               \A r \in roles' : Old(r) \/ Granted(s, r)
        PROVE  EntranceOK'
    BY <1>2, EntranceBackfill
  <1>3. ASSUME NEW s \in Sessions, Join(s),
               \A r \in roles' : Old(r) \/ Joined(s, r)
        PROVE  EntranceOK'
    BY <1>3, EntranceJoin
  <1> QED BY <1>1, <1>2, <1>3, RowsEffect

\* If the home is the user's own, so is the first row, and no invited row
\* comes before it, in the next state either.
LEMMA HomeStep ==
  ASSUME Inv, Inv', EntranceOK, Next
  PROVE  HomeIsKept
  <1> SUFFICES ASSUME NEW u \in Users, RolesOf(u) # {}, Home(u) = u
        PROVE  Home(u)' = u
    BY DEF HomeIsKept
  <1> DEFINE R == RolesOf(u)
             S == {r \in roles' : r.user = u}
  <1>1. R \in SUBSET RoleRow /\ S \in SUBSET RoleRow
    BY DEF RolesOf, Inv, TypeOK
  <1>2. PICK r \in R : Own(r) /\ \A o \in R : r.at <= o.at
    <2>1. \E r \in R : \A o \in R : r.at <= o.at
      BY <1>1, OldestRow
    <2> DEFINE first == CHOOSE r \in R : \A o \in R : r.at <= o.at
    <2>2. first \in R /\ \A o \in R : first.at <= o.at
      BY <2>1
    <2>3. first.merchant = u
      BY DEF Home
    <2> QED BY <2>2, <2>3 DEF Own, RolesOf
  <1>3. r \in S
    BY <1>2, OwnersStep DEF OwnersUntouched, Own, RolesOf
  <1>4. ASSUME NEW q \in S, ~Own(q) PROVE r.at < q.at
    <2>1. CASE Old(q)
      <3>1. PICK x \in roles : Like(q, x)
        BY <2>1 DEF Old
      <3>2. x \in R /\ ~Own(x) /\ q.at = x.at
        BY <1>4, <3>1 DEF Like, Own, RolesOf
      <3>3. r.at # x.at /\ r.at <= x.at
        BY <1>2, <3>2 DEF EntranceOK, OwnApart, RolesOf
      <3> QED BY <3>2, <3>3, <1>1 DEF RoleRow
    <2>2. ASSUME NEW s \in Sessions, Join(s), Joined(s, q)
          PROVE  r.at < q.at
      <3>1. Joins(s) /\ u = session[s].read.email /\ q.at = session[s].at
        BY <2>2 DEF Join, Joins, At, Joined
      <3> QED BY <1>2, <3>1 DEF EntranceOK, JoinsLast, RolesOf
    <2>3. ASSUME NEW s \in Sessions, Granted(s, q) PROVE FALSE
      BY <1>4, <2>3 DEF Granted
    <2> QED BY <2>1, <2>2, <2>3, RowsEffect
  <1>5. PICK f \in S : /\ \A o \in S : f.at <= o.at
                       /\ Home(u)' = f.merchant
    <2> DEFINE first == CHOOSE f \in S : \A o \in S : f.at <= o.at
    <2>1. \E f \in S : \A o \in S : f.at <= o.at
      BY <1>1, <1>3, OldestRow
    <2>2. first \in S /\ \A o \in S : first.at <= o.at
      BY <2>1
    <2>3. Home(u)' = first.merchant
      BY <1>3 DEF Home, RolesOf
    <2> QED BY <2>2, <2>3
  <1>6. Own(f)
    <2>1. f.at <= r.at /\ f.at \in Nat /\ r.at \in Nat
      BY <1>1, <1>3, <1>5 DEF RoleRow
    <2> QED BY <1>4, <2>1
  <1> QED BY <1>5, <1>6 DEF Own

\* As long as nobody is provisioned in one request while another joins them
\* to a team, who works in their own merchant goes on doing so, whatever
\* teams they join (merchant_provisioning.py:88).
THEOREM HomeKept == Spec /\ []OneEntrance => [][HomeIsKept]_vars
  <1>1. Init => EntranceOK
    <2> SUFFICES ASSUME Init PROVE EntranceOK
      OBVIOUS
    <2>1. \A s \in Sessions : session[s] = NoSession
      BY DEF Init
    <2>2. NoSession.pc = "idle" /\ NoSession.at = 0
      BY DEF NoSession
    <2> QED BY <2>1, <2>2
            DEF Init, EntranceOK, TimesOK, OwnApart, JoinsLast, At, Joins
  <1>2. Inv /\ EntranceOK /\ OneEntrance /\ [Next]_vars => EntranceOK'
    <2>1. ASSUME EntranceOK, UNCHANGED vars PROVE EntranceOK'
      BY <2>1 DEF EntranceOK, TimesOK, OwnApart, JoinsLast, At, Joins, vars
    <2> QED BY <2>1, EntranceStep
  <1>3. Inv /\ Inv' /\ EntranceOK /\ [Next]_vars => [HomeIsKept]_vars
    BY HomeStep
  <1> QED BY <1>1, <1>2, <1>3, InvHolds, PTL DEF Spec

\* The same, in the runs TLC makes with any bounds.
THEOREM HomeKeptInRuns == MCSpec => HomeStaysApart
  <1>1. [HomeIsKept]_vars => [apart = "entrances" => HomeIsKept]_mcVars
    BY DEF mcVars, vars, HomeIsKept, Home, RolesOf
  <1>2. apart # "entrances" => [apart = "entrances" => HomeIsKept]_mcVars
    OBVIOUS
  <1>3. MCSpec => [][apart = "entrances" => HomeIsKept]_mcVars
    BY <1>1, <1>2, RunsAreBehaviours, RunsOfEntrances, HomeKept, PTL
  <1> QED BY <1>3 DEF HomeStaysApart
=============================================================================
