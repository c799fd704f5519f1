--------------------------- MODULE TeamMembership ---------------------------
(***************************************************************************)
(* The members and invites of one organization: TeamService, UserService   *)
(* and the role rules of core/permissions.py.                              *)
(*                                                                         *)
(* A handler checks what it has read and then writes without a guard.      *)
(***************************************************************************)
EXTENDS Naturals, FiniteSets

CONSTANTS
    People,         \* e-mail addresses: each is a user, an invitee, or neither
    FirstOwner,     \* who registered the organization
    Admins,         \* requests that may be in flight
    MaxTeamCalls    \* bound of the model: requests that change something

ASSUME TeamAssumption == FirstOwner \in People /\ MaxTeamCalls \in Nat

VARIABLES
    person,         \* person[p]: the committed users row of p
    invite,         \* invite[p]: the newest invite sent to p
    teamCall,       \* teamCall[a]: the request a has in flight
    teamCalls

teamVars == <<person, invite, teamCall, teamCalls>>

\* ROLE_LEVELS; members and sales agents share a level
Roles == {"viewer", "member", "manager", "admin", "owner"}
RoleLevel(r) ==
    CASE r = "viewer" -> 0 [] r = "member" -> 1 [] r = "manager" -> 2
      [] r = "admin" -> 3 [] r = "owner" -> 4

\* an owner manages anybody, the others what is strictly below them
RoleCanManage(actor, target) == actor = "owner" \/ RoleLevel(actor) > RoleLevel(target)
RoleCanInvite(actor, role) == role # "owner" /\ RoleCanManage(actor, role)

\* TEAM_MANAGE and INVITE_MANAGE
ManagesTeam(p) == person[p].active /\ person[p].role \in {"owner", "admin"}

NoPerson == [role |-> "viewer", active |-> FALSE, joined |-> FALSE]
PersonRow == [role : Roles, active : BOOLEAN, joined : BOOLEAN]

InviteRow == [status : {"none", "pending", "accepted", "revoked", "expired"},
              role : Roles, late : BOOLEAN]

\* kind: what will be written, decided by what was read
TeamCallOf ==
    [kind : {"idle"}] \cup
    [kind : {"role"}, on : People, role : Roles] \cup
    [kind : {"status"}, on : People, active : BOOLEAN] \cup
    [kind : {"invite"}, on : People, role : Roles] \cup
    [kind : {"revoke"}, on : People] \cup
    [kind : {"create", "accept"}, on : People, role : Roles]

TeamTypeOK ==
    /\ person \in [People -> PersonRow]
    /\ \A p \in People : person[p].joined \/ person[p] = NoPerson
    /\ invite \in [People -> InviteRow]
    /\ teamCall \in [Admins -> TeamCallOf]
    /\ teamCalls \in 0..MaxTeamCalls

\* register(): the organization starts with one owner
TeamInit ==
    /\ person = [p \in People |-> IF p = FirstOwner
                    THEN [role |-> "owner", active |-> TRUE, joined |-> TRUE] ELSE NoPerson]
    /\ invite = [p \in People |-> [status |-> "none", role |-> "viewer", late |-> FALSE]]
    /\ teamCall = [a \in Admins |-> [kind |-> "idle"]]
    /\ teamCalls = 0

ActiveOwners == {p \in People : person[p].role = "owner" /\ person[p].active}

TeamBegins(a, call) ==
    /\ teamCall[a].kind = "idle" /\ teamCalls < MaxTeamCalls
    /\ teamCalls' = teamCalls + 1
    /\ teamCall' = [teamCall EXCEPT ![a] = call]
    /\ UNCHANGED <<person, invite>>

TeamEnds(a) == teamCall' = [teamCall EXCEPT ![a] = [kind |-> "idle"]]

\* _ensure_owner_safety(): also refuses to demote an inactive owner while one
\* active owner is left
OwnerSafe(p, stays) ==
    person[p].role = "owner" /\ ~stays => Cardinality(ActiveOwners) >= 2

-----------------------------------------------------------------------------
\* update() with a role: by somebody else, who manages the old role and the new
ChangeRole(a, actor, p, role) ==
    /\ ManagesTeam(actor) /\ actor # p /\ person[p].joined
    /\ RoleCanManage(person[actor].role, role)
    /\ RoleCanManage(person[actor].role, person[p].role)
    /\ role # person[p].role /\ OwnerSafe(p, role = "owner")
    /\ TeamBegins(a, [kind |-> "role", on |-> p, role |-> role])

\* update() with is_active
ChangeStatus(a, actor, p) ==
    /\ ManagesTeam(actor) /\ actor # p /\ person[p].joined
    /\ RoleCanManage(person[actor].role, person[p].role)
    /\ OwnerSafe(p, ~person[p].active)
    /\ TeamBegins(a, [kind |-> "status", on |-> p, active |-> ~person[p].active])

\* create(), and create_invite(): no user and no pending invite of the address
CreateUser(a, actor, p, role) ==
    /\ ManagesTeam(actor) /\ ~person[p].joined
    /\ RoleCanManage(person[actor].role, role)
    /\ TeamBegins(a, [kind |-> "create", on |-> p, role |-> role])

CreateInvite(a, actor, p, role) ==
    /\ ManagesTeam(actor) /\ RoleCanInvite(person[actor].role, role)
    /\ ~person[p].joined /\ invite[p].status # "pending"
    /\ TeamBegins(a, [kind |-> "invite", on |-> p, role |-> role])

RevokeInvite(a, actor, p) ==
    /\ ManagesTeam(actor) /\ invite[p].status = "pending"
    /\ TeamBegins(a, [kind |-> "revoke", on |-> p])

\* lookup_invite(): pending and in time
LookupInvite(a, p) ==
    /\ invite[p].status = "pending" /\ ~invite[p].late /\ ~person[p].joined
    /\ TeamBegins(a, [kind |-> "accept", on |-> p, role |-> invite[p].role])

\* expires_at passes; whoever lists or looks up then writes EXPIRED.  An
\* address that has become a user has its invite REVOKED on acceptance.
InviteLapses(p) ==
    /\ invite[p].status = "pending"
    /\ \/ ~invite[p].late /\ invite' = [invite EXCEPT ![p].late = TRUE]
       \/ invite[p].late /\ invite' = [invite EXCEPT ![p].status = "expired"]
       \/ person[p].joined /\ invite' = [invite EXCEPT ![p].status = "revoked"]
    /\ UNCHANGED <<person, teamCall, teamCalls>>

-----------------------------------------------------------------------------
(* The writes.  uq_users_org_email lets one insert of an address through.  *)

WriteMember(a) ==
    /\ teamCall[a].kind \in {"role", "status"}
    /\ person' = [person EXCEPT ![teamCall[a].on] =
          IF teamCall[a].kind = "role" THEN [@ EXCEPT !.role = teamCall[a].role]
                                       ELSE [@ EXCEPT !.active = teamCall[a].active]]
    /\ TeamEnds(a)
    /\ UNCHANGED <<invite, teamCalls>>

WriteInvite(a) ==
    /\ teamCall[a].kind \in {"invite", "revoke"}
    /\ invite' = [invite EXCEPT ![teamCall[a].on] =
          IF teamCall[a].kind = "revoke" THEN [@ EXCEPT !.status = "revoked"]
          ELSE [status |-> "pending", role |-> teamCall[a].role, late |-> FALSE]]
    /\ TeamEnds(a)
    /\ UNCHANGED <<person, teamCalls>>

\* accept_invite() commits the user and ACCEPTED together; create() touches
\* no invite
WriteUser(a) ==
    /\ teamCall[a].kind \in {"create", "accept"}
    /\ LET p == teamCall[a].on
       IN  IF person[p].joined THEN UNCHANGED <<person, invite>>
           ELSE /\ person' = [person EXCEPT ![p] =
                      [role |-> teamCall[a].role, active |-> TRUE, joined |-> TRUE]]
                /\ invite' = IF teamCall[a].kind = "create" THEN invite
                             ELSE [invite EXCEPT ![p].status = "accepted"]
    /\ TeamEnds(a)
    /\ UNCHANGED teamCalls

TeamNext ==
    \/ \E a \in Admins :
          \/ \E actor, p \in People :
                \/ \E role \in Roles :
                      \/ ChangeRole(a, actor, p, role)
                      \/ CreateUser(a, actor, p, role)
                      \/ CreateInvite(a, actor, p, role)
                \/ ChangeStatus(a, actor, p)
                \/ RevokeInvite(a, actor, p)
          \/ \E p \in People : LookupInvite(a, p)
          \/ WriteMember(a) \/ WriteInvite(a) \/ WriteUser(a)
    \/ \E p \in People : InviteLapses(p)

TeamSpec == TeamInit /\ [][TeamNext]_teamVars

-----------------------------------------------------------------------------
\* _ensure_owner_safety(): "The last active owner cannot be demoted or
\* deactivated", and so an organization has somebody who can manage it.
OwnerRemains == ActiveOwners # {}
=============================================================================
