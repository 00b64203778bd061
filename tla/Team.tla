-------------------------------- MODULE Team --------------------------------
(***************************************************************************)
(* Merchants, roles and team invitations:                                  *)
(* app/services/merchant_provisioning.py, team_management.py and           *)
(* routes/team.py.                                                         *)
(*                                                                         *)
(* Every user has one merchant of their own, whose id is derived from the  *)
(* user's id, so a merchant is written as its owner.  A request provisions *)
(* the caller's merchant, then acts on the team.  Requests are database    *)
(* sessions: each reads in one step and commits in a later one, and a      *)
(* commit writes the columns the session changed.                          *)
(*                                                                         *)
(* A user is identified with their e-mail address.                         *)
(***************************************************************************)
EXTENDS Integers, FiniteSets

CONSTANTS Users,
          Verticals,  \* ecommerce and bank
          Roles,      \* roles a vertical has besides the owner's
          Invites,    \* ids of rows of team_invites
          Sessions,   \* requests in flight at once
          MaxCalls,   \* bound: how many requests are made
          Null

VARIABLES
    account,   \* users that exist (and are verified)
    roles,     \* user_merchant_roles
    invite,    \* team_invites, Null without a row
    session,   \* the requests in flight
    clock      \* transactions begun so far: what created_at orders rows by

vars == <<account, roles, invite, session, clock>>

AnyRole == Roles \cup {"owner"}

\* A row of user_merchant_roles; `invited` is granted_via_invite.
RoleRow == [user : Users, merchant : Users, vertical : Verticals,
            role : AnyRole, invited : BOOLEAN, at : Nat]

\* A row of team_invites; `token` counts the tokens it has had, `lapsed`
\* says that expires_at has passed.
Invite == [merchant : Users, email : Users, vertical : Verticals,
           role : AnyRole, token : Nat, lapsed : BOOLEAN,
           status : {"pending", "accepted", "revoked", "expired"}]

ASSUME TeamAssumption ==
    /\ MaxCalls \in Nat
    /\ Null \notin Users \cup Invites \cup Invite

\* A request: the caller, when its transaction began, and what it has read
\* and wants: `home` the merchant provisioning returned, `invite` an id,
\* `read` the invitation and `row` the role as loaded, `verticals` those to
\* backfill.
Session == [pc : {"idle", "backfill", "act", "create", "resend", "revoke",
                  "update", "expire", "user", "join"},
            user : Users \cup {Null}, at : Nat, home : Users \cup {Null},
            invite : Invites \cup {Null}, read : Invite \cup {Null},
            row : RoleRow \cup {Null},
            target : Users \cup {Null}, vertical : Verticals \cup {Null},
            role : AnyRole \cup {Null}, verticals : SUBSET Verticals]

NoSession == [pc |-> "idle", user |-> Null, at |-> 0, home |-> Null,
              invite |-> Null, read |-> Null, row |-> Null, target |-> Null,
              vertical |-> Null, role |-> Null, verticals |-> {}]

TypeOK ==
    /\ account \subseteq Users
    /\ roles \subseteq RoleRow
    /\ invite \in [Invites -> Invite \cup {Null}]
    /\ session \in [Sessions -> Session]
    /\ clock \in Nat

Init ==
    /\ account = {}
    /\ roles = {}
    /\ invite = [i \in Invites |-> Null]
    /\ session = [s \in Sessions |-> NoSession]
    /\ clock = 0

At(s, pc) == session[s].pc = pc
Reply(s) == session' = [session EXCEPT ![s] = NoSession]
GoTo(s, pc) == session' = [session EXCEPT ![s].pc = pc]

\* A request arrives: its transaction begins.
Arrives(s) ==
    /\ At(s, "idle")
    /\ clock < MaxCalls
    /\ clock' = clock + 1

\* The request of user u, before it has read anything
Begun(u) == [NoSession EXCEPT !.user = u, !.at = clock + 1]

\* The unique constraint uq_user_merchant_vertical
Taken(u, m, v) ==
    \E r \in roles : r.user = u /\ r.merchant = m /\ r.vertical = v

-----------------------------------------------------------------------------
(* Provisioning *)

\* _fetch_user_roles
RolesOf(u) == {r \in roles : r.user = u}

\* existing_roles[0].merchant_id, or the user's own merchant
BugHome(u) ==                      \* a bug: the newest role comes first
    IF RolesOf(u) = {} THEN u
    ELSE (CHOOSE r \in RolesOf(u) : \A o \in RolesOf(u) : r.at >= o.at).merchant
Home(u) ==
    IF RolesOf(u) = {} THEN u
    ELSE (CHOOSE r \in RolesOf(u) : \A o \in RolesOf(u) : r.at <= o.at).merchant

\* The verticals ensure_merchant_provisioned grants the owner's role on.
BugMissing(u) ==                   \* a bug: an invited role is backfilled
    {v \in Verticals : ~\E r \in RolesOf(u) : /\ r.merchant = Home(u)
                                            /\ r.vertical = v}
Missing(u) ==
    LET here == {r \in RolesOf(u) : r.merchant = Home(u)}
    IN  IF \E r \in here : r.invited THEN {}
        ELSE {v \in Verticals : ~\E r \in here : r.vertical = v}

\* The caller's roles have been read: is there anything to grant?
Started(u, home, missing) ==
    [Begun(u) EXCEPT !.pc = IF missing = {} THEN "act" ELSE "backfill",
                     !.home = home, !.verticals = missing]

\* Verification of a registration, or a first Google login: the user is
\* committed, then provisioned.
Register(s, u) ==
    /\ Arrives(s)
    /\ u \notin account
    /\ account' = account \cup {u}
    /\ session' = [session EXCEPT ![s] = Started(u, u, Verticals)]
    /\ UNCHANGED <<roles, invite>>

\* Any authenticated request that provisions: /me and the team routes.
Call(s, u) ==
    /\ Arrives(s)
    /\ u \in account
    /\ session' = [session EXCEPT ![s] = Started(u, Home(u), Missing(u))]
    /\ UNCHANGED <<account, roles, invite>>

\* The commit of the owner's roles; the loser of a race takes what it finds.
Backfill(s) ==
    LET c == session[s]
    IN  /\ At(s, "backfill")
        /\ \/ /\ \A v \in c.verticals : ~Taken(c.user, c.home, v)
              /\ roles' = roles \cup
                    {[user |-> c.user, merchant |-> c.home, vertical |-> v,
                      role |-> "owner", invited |-> FALSE, at |-> c.at] :
                        v \in c.verticals}
              /\ GoTo(s, "act")
           \/ /\ \E v \in c.verticals : Taken(c.user, c.home, v)
              /\ session' = [session EXCEPT ![s].pc = "act",
                                            ![s].home = Home(c.user)]
              /\ UNCHANGED roles
        /\ UNCHANGED <<account, invite, clock>>

\* The request only asked for that (or was refused, or the process died).
Leave(s) ==
    /\ ~At(s, "idle")
    /\ Reply(s)
    /\ UNCHANGED <<account, roles, invite, clock>>

-----------------------------------------------------------------------------
(* The primary owner's team *)

\* is_primary_owner
PrimaryOwner(s) == session[s].home = session[s].user

\* "You can't invite yourself", "You can't change your own role", "You can't
\* remove yourself".
BugOther(s, u) == TRUE             \* a bug: these tests are dropped
Other(s, u) == u # session[s].user

Pending(m, u, v) ==
    {i \in Invites : /\ invite[i] # Null
                     /\ invite[i].merchant = m /\ invite[i].email = u
                     /\ invite[i].vertical = v
                     /\ invite[i].status = "pending"}

\* The pending invitation create_invite refreshes.
BugExisting(m, u, v) == {}         \* a bug: it is not looked for
Existing(m, u, v) == Pending(m, u, v)

\* create_invite up to its commit: scalar_one_or_none raises on two.
BeginInvite(s, u, v, r) ==
    LET found == Existing(session[s].home, u, v)
        want == [session[s] EXCEPT !.pc = "create", !.target = u,
                                   !.vertical = v, !.role = r]
    IN  /\ At(s, "act") /\ PrimaryOwner(s) /\ Other(s, u)
        /\ \/ /\ found = {}
              /\ session' = [session EXCEPT ![s] = want]
           \/ \E i \in found :
                 /\ found = {i}
                 /\ session' = [session EXCEPT ![s] =
                       [want EXCEPT !.invite = i, !.read = invite[i]]]
        /\ UNCHANGED <<account, roles, invite, clock>>

\* A fresh token and expiry for the row.
Renewed(i) == [invite[i] EXCEPT !.token = @ + 1, !.lapsed = FALSE]

\* Its commit: a new row; or token, expiry and, if changed, the role of the
\* one it read.
CreateInvite(s) ==
    LET c == session[s]
    IN  /\ At(s, "create")
        /\ \/ /\ c.invite = Null
              /\ \E i \in Invites :
                    /\ invite[i] = Null
                    /\ invite' = [invite EXCEPT ![i] =
                          [merchant |-> c.home, email |-> c.target,
                           vertical |-> c.vertical, role |-> c.role,
                           token |-> 1, lapsed |-> FALSE,
                           status |-> "pending"]]
           \/ /\ c.invite # Null
              /\ invite' = [invite EXCEPT ![c.invite] =
                    [Renewed(c.invite) EXCEPT
                        !.role = IF c.read.role = c.role THEN @ ELSE c.role]]
        /\ Reply(s)
        /\ UNCHANGED <<account, roles, clock>>

\* resend_invite, revoke_invite: the row by its id and merchant.
BeginResend(s, i) ==
    /\ At(s, "act") /\ PrimaryOwner(s)
    /\ invite[i] # Null /\ invite[i].merchant = session[s].home
    /\ invite[i].status = "pending"
    /\ session' = [session EXCEPT ![s].pc = "resend", ![s].invite = i]
    /\ UNCHANGED <<account, roles, invite, clock>>

ResendInvite(s) ==
    /\ At(s, "resend")
    /\ invite' = [invite EXCEPT ![session[s].invite] =
          Renewed(session[s].invite)]
    /\ Reply(s)
    /\ UNCHANGED <<account, roles, clock>>

BeginRevoke(s, i) ==
    /\ At(s, "act") /\ PrimaryOwner(s)
    /\ invite[i] # Null /\ invite[i].merchant = session[s].home
    /\ session' = [session EXCEPT ![s].pc = "revoke", ![s].invite = i,
                                  ![s].read = invite[i]]
    /\ UNCHANGED <<account, roles, invite, clock>>

\* Setting a status the loaded row already has writes nothing.
SetStatus(s, status) ==
    LET c == session[s]
    IN  invite' = IF c.read.status = status THEN invite
                  ELSE [invite EXCEPT ![c.invite].status = status]

RevokeInvite(s) ==
    /\ At(s, "revoke")
    /\ SetStatus(s, "revoked")
    /\ Reply(s)
    /\ UNCHANGED <<account, roles, clock>>

\* update_member_role; nothing is written if the role is the one loaded.
BeginUpdate(s, x, r) ==
    /\ At(s, "act") /\ PrimaryOwner(s) /\ Other(s, x.user)
    /\ x.merchant = session[s].home /\ x.role # r
    /\ session' = [session EXCEPT ![s].pc = "update", ![s].row = x,
                                  ![s].role = r]
    /\ UNCHANGED <<account, roles, invite, clock>>

\* Is x the row this request loaded?  (Its primary key.)
Loaded(s, x) ==
    LET y == session[s].row
    IN  /\ x.user = y.user /\ x.merchant = y.merchant
        /\ x.vertical = y.vertical /\ x.at = y.at

\* The UPDATE; it raises if the row is gone.
UpdateMemberRole(s) ==
    /\ At(s, "update")
    /\ roles' = {IF Loaded(s, x) THEN [x EXCEPT !.role = session[s].role]
                 ELSE x : x \in roles}
    /\ Reply(s)
    /\ UNCHANGED <<account, invite, clock>>

RemoveMember(s, u) ==
    /\ At(s, "act") /\ PrimaryOwner(s) /\ Other(s, u)
    /\ roles' = {x \in roles : ~(x.user = u /\ x.merchant = session[s].home)}
    /\ Reply(s)
    /\ UNCHANGED <<account, invite, clock>>

-----------------------------------------------------------------------------
(* Accepting an invitation *)

\* The link of an invitation is opened: `caller` is who is logged in.
BugOpen(i) == TRUE                 \* a bug: the status is not tested
Open(i) == invite[i].status = "pending"

BeginAccept(s, i, caller) ==
    /\ Arrives(s)
    /\ invite[i] # Null /\ Open(i)
    /\ session' = [session EXCEPT ![s] =
          [Begun(caller) EXCEPT !.pc = IF invite[i].lapsed THEN "expire"
                                       ELSE "user",
                                !.invite = i, !.read = invite[i]]]
    /\ UNCHANGED <<account, roles, invite>>

ExpireInvite(s) ==
    /\ At(s, "expire")
    /\ SetStatus(s, "expired")
    /\ Reply(s)
    /\ UNCHANGED <<account, roles, clock>>

\* The user of the invited address: logged in, or created, committed with
\* their tokens.  The role is then of a new transaction.
FindUser(s) ==
    LET u == session[s].read.email
    IN  /\ At(s, "user")
        /\ \/ /\ u \in account /\ session[s].user = u
              /\ GoTo(s, "join")
              /\ UNCHANGED <<account, clock>>
           \/ /\ u \notin account
              /\ clock < MaxCalls
              /\ account' = account \cup {u}
              /\ clock' = clock + 1
              /\ session' = [session EXCEPT ![s].pc = "join",
                                            ![s].at = clock + 1]
        /\ UNCHANGED <<roles, invite>>

\* The last commit; a role the user already has fails it as a whole.
BugInvitee(s) == session[s].user   \* a bug: who is logged in gets the role
Invitee(s) == session[s].read.email

Join(s) ==
    LET i == session[s].read
    IN  /\ At(s, "join")
        /\ ~Taken(Invitee(s), i.merchant, i.vertical)
        /\ roles' = roles \cup
              {[user |-> Invitee(s), merchant |-> i.merchant,
                vertical |-> i.vertical, role |-> i.role, invited |-> TRUE,
                at |-> session[s].at]}
        /\ SetStatus(s, "accepted")
        /\ Reply(s)
        /\ UNCHANGED <<account, clock>>

\* Seven days pass.
Lapse(i) ==
    /\ invite[i] # Null /\ ~invite[i].lapsed
    /\ invite' = [invite EXCEPT ![i].lapsed = TRUE]
    /\ UNCHANGED <<account, roles, session, clock>>

-----------------------------------------------------------------------------

Manage(s) ==
    \/ \E u \in Users, v \in Verticals, r \in AnyRole : BeginInvite(s, u, v, r)
    \/ \E x \in roles, r \in AnyRole : BeginUpdate(s, x, r)
    \/ \E i \in Invites : BeginResend(s, i) \/ BeginRevoke(s, i)
    \/ \E u \in Users : RemoveMember(s, u)
    \/ CreateInvite(s) \/ ResendInvite(s) \/ RevokeInvite(s)
    \/ UpdateMemberRole(s)

Accept(s) ==
    \/ \E i \in Invites, u \in account \cup {Null} : BeginAccept(s, i, u)
    \/ ExpireInvite(s) \/ FindUser(s) \/ Join(s)

Next ==
    \/ \E s \in Sessions :
          \/ \E u \in Users : Register(s, u) \/ Call(s, u)
          \/ Backfill(s) \/ Leave(s) \/ Manage(s) \/ Accept(s)
    \/ \E i \in Invites : Lapse(i)

Spec == Init /\ [][Next]_vars

-----------------------------------------------------------------------------
(* Properties *)

\* A role in somebody else's merchant is one its owner invited the user to:
\* provisioning, which runs on every login and fetch and grants the owner's
\* role on whatever vertical is missing, never extends an invited role
\* (merchant_provisioning.py:45-54), in whatever order invitations are
\* created, accepted and revoked and members removed.
ForeignRolesInvited ==
    \A r \in roles : r.merchant # r.user =>
        /\ r.invited
        /\ \E i \in Invites : /\ invite[i] # Null
                             /\ invite[i].merchant = r.merchant
                             /\ invite[i].email = r.user
                             /\ invite[i].vertical = r.vertical

\* A primary owner holds the owner's role on their own merchant and neither
\* they nor anybody else can take or change it: no merchant is left without
\* one (team_management.py:105, :129, :166).
OwnersStay ==
    [][\A r \in roles : r.merchant = r.user =>
          r.role = "owner" /\ ~r.invited /\ r \in roles']_vars

-----------------------------------------------------------------------------
(* What the code does not lock.  Three things hold only if certain requests *)
(* do not overlap; each condition names them.                              *)

\* No two requests are creating an invitation of one address to one team.
OneCreation ==
    \A s, o \in Sessions :
        (s # o /\ At(s, "create") /\ At(o, "create")) =>
            \/ session[s].home # session[o].home
            \/ session[s].target # session[o].target
            \/ session[s].vertical # session[o].vertical

\* Re-inviting an address to a vertical refreshes its pending invitation;
\* with two, every later invitation of that address fails
\* (team_management.py:171-186).
OnePending ==
    \A m, u \in Users, v \in Verticals : Cardinality(Pending(m, u, v)) <= 1

\* No two requests are deciding what becomes of one invitation.
Decides(s) == session[s].pc \in {"revoke", "expire", "user", "join"}
OneDecision ==
    \A s, o \in Sessions :
        (s # o /\ Decides(s) /\ Decides(o))
            => session[s].invite # session[o].invite

\* A role in somebody else's merchant appears only by an invitation that is
\* pending at that moment, or by the owner changing an existing one: a
\* revoked, used or expired link grants nothing (team_management.py:271).
GrantIsPending ==
    \A r \in roles' \ roles : r.merchant # r.user =>
        \/ Taken(r.user, r.merchant, r.vertical)
        \/ Pending(r.merchant, r.user, r.vertical) # {}

\* Nobody is provisioned in one request while joining a team in another.
Joins(s) == session[s].pc \in {"user", "join"}
OneEntrance ==
    \A s, o \in Sessions :
        (Joins(s) /\ At(o, "backfill"))
            => session[s].read.email # session[o].user

\* Who works in their own merchant goes on doing so when they join another
\* team: the first row by created_at stays first.
HomeIsKept == \A u \in Users : RolesOf(u) # {} /\ Home(u) = u => Home(u)' = u
=============================================================================
