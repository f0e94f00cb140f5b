------------------------------- MODULE Access -------------------------------
(***************************************************************************)
(* Who may do what in which salon: users, their memberships in the         *)
(* organizations, the permissions a membership really has, the scope of    *)
(* its agenda, and the requests by which one member administers another.   *)
(*                                                                         *)
(* Source: services/user_management.py, services/agenda_access.py,         *)
(* services/auth.py (compute_effective_permissions, accept_invite),        *)
(* services/signup.py, services/agenda.py, api/deps.py, api/v1/users.py,   *)
(* the row level security of alembic 0003, 0006, 0008 and 0019.            *)
(*                                                                         *)
(* A request is two transactions: get_current_actor reads the membership   *)
(* and computes its permissions, and commits; the handler then runs in a   *)
(* session of its own (get_db).  Between the two anything may happen to    *)
(* that membership.  Inside each transaction nothing is locked; here each  *)
(* is one step.                                                            *)
(***************************************************************************)
EXTENDS Permissions, Functions

CONSTANTS
  Users, Organizations,
  Memberships,       \* the pairs <<user, organization>> that may ever exist
  Professionals,
  ProfessionalOrg,   \* the organization of a professional
  NoUser, NoOrganization, NoMembership,
  RoleInputs, OverrideInputs, AccessInputs   \* what a request may carry

Status == {"invited", "active", "suspended", "removed"}
Effect == {"grant", "deny"}
Scope == {"all", "selected"}

\* The payload of set_agenda_access.
AccessInput ==
  [view_scope : Scope, edit_scope : Scope,
   viewable : SUBSET Professionals, editable : SUBSET Professionals]

\* A row of organization_memberships, with the rows that hang on it.
Membership ==
  [status : Status, role : Roles, overrides : OverrideInputs \union {<<>>},
   agenda_view_scope : Scope, agenda_edit_scope : Scope,
   can_view : SUBSET Professionals, can_edit : SUBSET Professionals]

ASSUME AccessAssumption ==
  /\ Memberships \subseteq Users \X Organizations
  /\ ProfessionalOrg \in [Professionals -> Organizations]
  /\ NoUser \notin Users /\ NoOrganization \notin Organizations
  /\ NoMembership \notin Membership
  /\ RoleInputs \subseteq Roles
  /\ \A o \in OverrideInputs :
       DOMAIN o \subseteq Catalogue /\ \A k \in DOMAIN o : o[k] \in Effect
  /\ AccessInputs \subseteq AccessInput

VARIABLES
  users,             \* the users that have a row
  password,          \* user -> password_hash is not None
  membership,        \* organization_memberships and the rows that hang on it
  professional_user, \* Professional.user_id
  request            \* user -> the organization of its admitted request

vars == <<users, password, membership, professional_user, request>>

UserOf(m) == m[1]
OrgOf(m) == m[2]

Exists(m) == membership[m] # NoMembership
Active(m) == Exists(m) /\ membership[m].status = "active"

NewMembership(role, status) ==
  [status |-> status, role |-> role, overrides |-> <<>>,
   agenda_view_scope |-> "all", agenda_edit_scope |-> "all",
   can_view |-> {}, can_edit |-> {}]

(***************************************************************************)
(* Effective permissions and agenda scope.                                 *)
(***************************************************************************)
Overridden(m, effect) ==
  {k \in DOMAIN membership[m].overrides : membership[m].overrides[k] = effect}

Granted(m) ==
  (RolePermissions[membership[m].role] \union Overridden(m, "grant"))
    \ Overridden(m, "deny")

\* mutant: the normalisation at the end is left out
PlainPermissions(m) == Granted(m)
\* mutant: the overrides are applied before the role
RoleAfterOverrides(m) == Granted(m) \union RolePermissions[membership[m].role]

compute_effective_permissions(m) ==
  Granted(m) \union
    (IF /\ Granted(m) \intersect {"agenda.create", "agenda.edit"} # {}
        /\ Granted(m) \intersect ViewAgenda = {}
     THEN {"agenda.view_own"} ELSE {})

Accepts(route, permissions) ==
  route.anyOf = {} \/ route.anyOf \intersect permissions # {}

Admitted(m, route) == Active(m) /\ Accepts(route, compute_effective_permissions(m))

Own(m) ==
  {p \in Professionals : /\ ProfessionalOrg[p] = OrgOf(m)
                         /\ professional_user[p] = UserOf(m)}

can_view_professional(m, p) ==
  IF membership[m].agenda_view_scope = "selected"
  THEN p \in membership[m].can_view
  ELSE \/ "agenda.view_all" \in compute_effective_permissions(m)
       \/ "agenda.view_own" \in compute_effective_permissions(m) /\ p \in Own(m)

\* mutant: the scope narrows the own agenda instead of replacing it
NarrowedAgenda(m) ==
  LET all == {p \in Professionals : ProfessionalOrg[p] = OrgOf(m)}
      base == IF "agenda.view_all" \in compute_effective_permissions(m)
              THEN all ELSE Own(m)
  IN  IF membership[m].agenda_view_scope = "selected"
      THEN base \intersect membership[m].can_view ELSE base

\* The professionals whose items list_agenda returns.
list_agenda(m) ==
  IF membership[m].agenda_view_scope = "selected"
  THEN membership[m].can_view
  ELSE IF "agenda.view_all" \in compute_effective_permissions(m)
       THEN {p \in Professionals : ProfessionalOrg[p] = OrgOf(m)}
       ELSE IF "agenda.view_own" \in compute_effective_permissions(m)
            THEN Own(m) ELSE {}

(***************************************************************************)
(* Row level security: what a session of user u in organization o sees.    *)
(***************************************************************************)
Visible(m, u, o) == Exists(m) /\ (OrgOf(m) = o \/ UserOf(m) = u)

\* mutant: the row level security is trusted to be enough
VisibleMembership(m, u) == Visible(m, u, request[u])

GetMembershipInOrg(m, u) ==
  /\ Visible(m, u, request[u])
  /\ OrgOf(m) = request[u]

(***************************************************************************)
(* The organization and its people.                                        *)
(***************************************************************************)
Init ==
  /\ users = {}
  /\ password = [u \in Users |-> FALSE]
  /\ membership = [m \in Memberships |-> NoMembership]
  /\ professional_user = [p \in Professionals |-> NoUser]
  /\ request = [u \in Users |-> NoOrganization]

CreateAccount(u, o) ==
  /\ u \notin users
  /\ <<u, o>> \in Memberships
  /\ \A m \in Memberships : OrgOf(m) = o => ~Exists(m)
  /\ users' = users \union {u}
  /\ password' = [password EXCEPT ![u] = TRUE]
  /\ membership' =
       [membership EXCEPT ![<<u, o>>] = NewMembership("OWNER", "active")]
  /\ UNCHANGED <<professional_user, request>>

AcceptInvite(m) ==
  /\ Exists(m) /\ membership[m].status = "invited"
  /\ password' = [password EXCEPT ![UserOf(m)] = TRUE]
  /\ membership' = [membership EXCEPT ![m].status = "active"]
  /\ UNCHANGED <<users, professional_user, request>>

\* get_current_actor and require_permission("users.manage").
Admit(m) ==
  /\ request[UserOf(m)] = NoOrganization
  /\ \A route \in UserRoutes : Admitted(m, route)
  /\ request' = [request EXCEPT ![UserOf(m)] = OrgOf(m)]
  /\ UNCHANGED <<users, password, membership, professional_user>>

InRequest(u) == request[u] # NoOrganization
Respond(u) == request' = [request EXCEPT ![u] = NoOrganization]

\* Any refusal of a handler: its transaction is rolled back.
Refuse(u) ==
  /\ InRequest(u)
  /\ Respond(u)
  /\ UNCHANGED <<users, password, membership, professional_user>>

AddOrInviteEmployee(u, employee, role, withPassword) ==
  LET m == <<employee, request[u]>>
      status == IF password[employee] \/ withPassword THEN "active" ELSE "invited"
  IN  /\ InRequest(u)
      /\ m \in Memberships /\ ~Exists(m)
      /\ users' = users \union {employee}
      /\ password' = [password EXCEPT ![employee] = @ \/ withPassword]
      /\ membership' = [membership EXCEPT ![m] = NewMembership(role, status)]
      /\ Respond(u)
      /\ UNCHANGED professional_user

MASTER_PERMISSION == "organization.manage"
Master(m) == MASTER_PERMISSION \in compute_effective_permissions(m)

\* mutant: the other masters are looked for among all memberships
AnyOtherMaster(m) ==
  Master(m) => \E x \in Memberships \ {m} :
                 Exists(x) /\ OrgOf(x) = OrgOf(m) /\ Master(x)

NotLastActiveMaster(m) ==
  Master(m) => \E x \in Memberships \ {m} :
                 Active(x) /\ OrgOf(x) = OrgOf(m) /\ Master(x)

SetMembershipStatus(u, m, status) ==
  /\ InRequest(u) /\ GetMembershipInOrg(m, u)
  /\ (Active(m) /\ status # "active") => NotLastActiveMaster(m)
  /\ membership' = [membership EXCEPT ![m].status = status]
  /\ Respond(u)
  /\ UNCHANGED <<users, password, professional_user>>

AssignRole(u, m, role) ==
  /\ InRequest(u) /\ GetMembershipInOrg(m, u)
  /\ membership' = [membership EXCEPT ![m].role = role]
  /\ Respond(u)
  /\ UNCHANGED <<users, password, professional_user>>

SetPermissionOverrides(u, m, overrides) ==
  /\ InRequest(u) /\ GetMembershipInOrg(m, u)
  /\ membership' = [membership EXCEPT ![m].overrides = overrides]
  /\ Respond(u)
  /\ UNCHANGED <<users, password, professional_user>>

AdminSetPassword(u, m) ==
  /\ InRequest(u) /\ GetMembershipInOrg(m, u)
  /\ membership[m].status # "removed"
  /\ password' = [password EXCEPT ![UserOf(m)] = TRUE]
  /\ membership' =
       [membership EXCEPT ![m].status = IF @ = "invited" THEN "active" ELSE @]
  /\ Respond(u)
  /\ UNCHANGED <<users, professional_user>>

\* The unique index allows a user one professional per organization.
LinkProfessional(u, m, p) ==
  /\ InRequest(u) /\ GetMembershipInOrg(m, u)
  /\ ProfessionalOrg[p] = request[u]
  /\ professional_user[p] \in {NoUser, UserOf(m)}
  /\ Own(m) \subseteq {p}
  /\ professional_user' = [professional_user EXCEPT ![p] = UserOf(m)]
  /\ Respond(u)
  /\ UNCHANGED <<users, password, membership>>

\* The rows written have can_edit only with can_view: a check of the table
\* refuses the others, and the whole request with them.
SetAgendaAccess(u, m, input) ==
  LET selected == "selected" \in {input.view_scope, input.edit_scope}
  IN  /\ InRequest(u) /\ GetMembershipInOrg(m, u)
      /\ input.edit_scope = "all" => input.view_scope = "all"
      /\ selected => input.editable \subseteq input.viewable
      /\ \A p \in input.viewable \union input.editable :
           ProfessionalOrg[p] = request[u]
      /\ membership' =
           [membership EXCEPT
              ![m].agenda_view_scope = input.view_scope,
              ![m].agenda_edit_scope = input.edit_scope,
              ![m].can_view = IF selected THEN input.viewable ELSE {},
              ![m].can_edit = IF selected THEN input.editable ELSE {}]
      /\ Respond(u)
      /\ UNCHANGED <<users, password, professional_user>>

Administer(u, m) ==
  \/ \E status \in {"active", "suspended", "removed"} :
       SetMembershipStatus(u, m, status)
  \/ \E role \in RoleInputs : AssignRole(u, m, role)
  \/ \E overrides \in OverrideInputs : SetPermissionOverrides(u, m, overrides)
  \/ AdminSetPassword(u, m)
  \/ \E p \in Professionals : LinkProfessional(u, m, p)
  \/ \E input \in AccessInputs : SetAgendaAccess(u, m, input)

Next ==
  \/ \E u \in Users, o \in Organizations : CreateAccount(u, o)
  \/ \E m \in Memberships : AcceptInvite(m) \/ Admit(m)
  \/ \E u \in Users : Refuse(u)
  \/ \E u \in Users, employee \in Users, role \in RoleInputs,
        withPassword \in BOOLEAN :
       AddOrInviteEmployee(u, employee, role, withPassword)
  \/ \E u \in Users, m \in Memberships : Administer(u, m)

Spec == Init /\ [][Next]_vars

(***************************************************************************)
(* Properties.                                                             *)
(***************************************************************************)
\* The routes and the seeds of the migrations fit: an owner nobody has
\* restricted is admitted to every route of the staff.
OwnerIsAdmittedEverywhere ==
  \A m \in Memberships :
    (Active(m) /\ membership[m].role = "OWNER" /\ Overridden(m, "deny") = {})
      => LET permissions == compute_effective_permissions(m)
         IN  \A route \in StaffRoutes : Accepts(route, permissions)

\* A route whose every key was denied to a member refuses it, whatever its
\* role; the one exception is the own agenda of a member who may still create
\* or edit appointments, which compute_effective_permissions gives back.
DenialsHold ==
  \A m \in Memberships : (Exists(m) /\ Overridden(m, "deny") # {}) =>
    LET permissions == compute_effective_permissions(m)
        writes == Granted(m) \intersect {"agenda.create", "agenda.edit"} # {}
    IN  \A route \in StaffRoutes :
          (route.anyOf # {} /\ route.anyOf \subseteq Overridden(m, "deny"))
            => \/ ~Accepts(route, permissions)
               \/ "agenda.view_own" \in route.anyOf /\ writes

\* Whoever is admitted to a route that writes appointments is admitted to the
\* routes that read the agenda (the normalisation at the end of
\* compute_effective_permissions), except by agenda.cancel alone.
WritersReadTheAgenda ==
  \A m \in Memberships : Exists(m) =>
    LET permissions == compute_effective_permissions(m)
    IN  (\E write \in AppointmentWriteRoutes :
           write.anyOf # {"agenda.cancel"} /\ Accepts(write, permissions))
          => \A read \in AppointmentViewRoutes \union AgendaRoutes :
               Accepts(read, permissions)

\* The agenda and the detail of an appointment agree on whom a member sees:
\* two functions, kept equal by hand.
ListAgreesWithDetail ==
  \A m \in Memberships :
    (Active(m) /\ \A read \in AppointmentViewRoutes : Admitted(m, read))
      => \A p \in Professionals : ProfessionalOrg[p] = OrgOf(m) =>
           (p \in list_agenda(m) <=> can_view_professional(m, p))

ActiveMasters(o) == {m \in Memberships : Active(m) /\ OrgOf(m) = o /\ Master(m)}

OnlyStatusChanges ==
  \E m \in Memberships :
    Exists(m) /\ membership' = [membership EXCEPT ![m].status = membership'[m].status]

\* A change of status never takes the last active master of an organization,
\* with the overrides and the statuses of all the members counted.
MasterSurvivesStatusChange ==
  [][\A o \in Organizations :
       OnlyStatusChanges /\ ActiveMasters(o) # {} => ActiveMasters(o)' # {}]_vars

\* A membership is changed by a request of its own organization, by its own
\* signup or by its own invitation; a user who belongs to two organizations
\* does not change one while in the other, though the policy of alembic 0006
\* shows it both.
TenantIsolation ==
  [][\A m \in Memberships : membership'[m] # membership[m] =>
       \/ \E u \in Users : request[u] = OrgOf(m) /\ request'[u] = NoOrganization
       \/ ~Exists(m) /\ UserOf(m) \notin users
       \/ Exists(m) /\ membership[m].status = "invited"]_vars
=============================================================================
