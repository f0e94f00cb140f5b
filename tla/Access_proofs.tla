---------------------------- MODULE Access_proofs ----------------------------
(***************************************************************************)
(* For any number of users, organizations and memberships: what the        *)
(* permissions promise, and what administering one another may not do.     *)
(***************************************************************************)
EXTENDS Access, TLAPS

(***************************************************************************)
(* Types.                                                                  *)
(***************************************************************************)
Rows ==
  /\ users \subseteq Users
  /\ membership \in [Memberships -> Membership \union {NoMembership}]
  /\ request \in [Users -> Organizations \union {NoOrganization}]

\* A new row, and a row of which one column is written, are rows.
LEMMA NewIsMembership ==
  ASSUME NEW role \in Roles, NEW s \in Status
  PROVE  NewMembership(role, s) \in Membership
BY DEF NewMembership, Membership, Scope

LEMMA WrittenIsMembership ==
  ASSUME NEW r \in Membership
  PROVE  /\ \A s \in Status : [r EXCEPT !.status = s] \in Membership
         /\ \A x \in Roles : [r EXCEPT !.role = x] \in Membership
         /\ \A o \in OverrideInputs : [r EXCEPT !.overrides = o] \in Membership
BY DEF Membership

\* A row that a member administers exists.
LEMMA VisibleExists ==
  ASSUME Rows, NEW m \in Memberships, NEW u, GetMembershipInOrg(m, u)
  PROVE  membership[m] \in Membership /\ OrgOf(m) = request[u]
BY DEF Rows, GetMembershipInOrg, Visible, Exists

LEMMA RowsInitially == Init => Rows
BY AccessAssumption DEF Init, Rows

LEMMA RowsKept ==
  ASSUME Rows, [Next]_vars
  PROVE  Rows'
<1> USE AccessAssumption DEF Rows
<1>1. ASSUME NEW u \in Users, NEW o \in Organizations, CreateAccount(u, o)
      PROVE  Rows'
  <2>1. NewMembership("OWNER", "active") \in Membership
    BY NewIsMembership DEF Roles, Status
  <2>. QED
    BY <1>1, <2>1 DEF CreateAccount
<1>2. ASSUME NEW m \in Memberships, AcceptInvite(m) \/ Admit(m)
      PROVE  Rows'
  <2>1. CASE AcceptInvite(m)
    <3>1. [membership[m] EXCEPT !.status = "active"] \in Membership
      BY <2>1, WrittenIsMembership DEF AcceptInvite, Exists, Status
    <3>. QED
      BY <2>1, <3>1 DEF AcceptInvite
  <2>2. CASE Admit(m)
    BY <2>2 DEF Admit, UserOf, OrgOf
  <2>. QED
    BY <1>2, <2>1, <2>2
<1>3. ASSUME NEW u \in Users, Refuse(u)
      PROVE  Rows'
  BY <1>3 DEF Refuse, Respond
<1>4. ASSUME NEW u \in Users, NEW employee \in Users, NEW role \in RoleInputs,
             NEW withPassword \in BOOLEAN,
             AddOrInviteEmployee(u, employee, role, withPassword)
      PROVE  Rows'
  <2> DEFINE s == IF password[employee] \/ withPassword THEN "active" ELSE "invited"
  <2>1. NewMembership(role, s) \in Membership
    BY NewIsMembership DEF Status
  <2>. QED
    BY <1>4, <2>1 DEF AddOrInviteEmployee, Respond
<1>5. ASSUME NEW u \in Users, NEW m \in Memberships, Administer(u, m)
      PROVE  Rows'
  <2>1. ASSUME NEW s \in {"active", "suspended", "removed"}, SetMembershipStatus(u, m, s)
        PROVE  Rows'
    <3>1. [membership[m] EXCEPT !.status = s] \in Membership
      BY <2>1, VisibleExists, WrittenIsMembership DEF SetMembershipStatus, Status
    <3>. QED
      BY <2>1, <3>1 DEF SetMembershipStatus, Respond
  <2>2. ASSUME NEW role \in RoleInputs, AssignRole(u, m, role)
        PROVE  Rows'
    <3>1. [membership[m] EXCEPT !.role = role] \in Membership
      BY <2>2, VisibleExists, WrittenIsMembership DEF AssignRole
    <3>. QED
      BY <2>2, <3>1 DEF AssignRole, Respond
  <2>3. ASSUME NEW o \in OverrideInputs, SetPermissionOverrides(u, m, o)
        PROVE  Rows'
    <3>1. [membership[m] EXCEPT !.overrides = o] \in Membership
      BY <2>3, VisibleExists, WrittenIsMembership DEF SetPermissionOverrides
    <3>. QED
      BY <2>3, <3>1 DEF SetPermissionOverrides, Respond
  <2>4. CASE AdminSetPassword(u, m)
    <3> DEFINE row == membership[m]
    <3>1. row \in Membership
      BY <2>4, VisibleExists DEF AdminSetPassword
    <3>2. [row EXCEPT !.status = IF @ = "invited" THEN "active" ELSE @] \in Membership
      BY <3>1 DEF Membership, Status
    <3>. QED
      BY <2>4, <3>2 DEF AdminSetPassword, Respond
  <2>5. ASSUME NEW p \in Professionals, LinkProfessional(u, m, p)
        PROVE  Rows'
    BY <2>5 DEF LinkProfessional, Respond
  <2>6. ASSUME NEW input \in AccessInputs, SetAgendaAccess(u, m, input)
        PROVE  Rows'
    <3> DEFINE selected == "selected" \in {input.view_scope, input.edit_scope}
               row == [membership[m] EXCEPT
                         !.agenda_view_scope = input.view_scope,
                         !.agenda_edit_scope = input.edit_scope,
                         !.can_view = IF selected THEN input.viewable ELSE {},
                         !.can_edit = IF selected THEN input.editable ELSE {}]
    <3>1. membership[m] \in Membership
      BY <2>6, VisibleExists DEF SetAgendaAccess
    <3>2. row \in Membership
      BY <3>1 DEF Membership, AccessInput
    <3>3. membership' = [membership EXCEPT ![m] = row]
      BY <2>6, <3>1 DEF SetAgendaAccess, Membership
    <3>4. request' \in [Users -> Organizations \union {NoOrganization}] /\ users' = users
      BY <2>6 DEF SetAgendaAccess, Respond
    <3> HIDE DEF row
    <3>. QED
      BY <3>2, <3>3, <3>4
  <2>. QED
    BY <1>5, <2>1, <2>2, <2>3, <2>4, <2>5, <2>6 DEF Administer
<1>6. CASE UNCHANGED vars
  BY <1>6 DEF vars
<1>. QED
  BY <1>1, <1>2, <1>3, <1>4, <1>5, <1>6 DEF Next

\* The tables keep their types, whoever administers whom.
THEOREM RowsCorrect == Spec => []Rows
<1>1. Init => Rows
  BY RowsInitially
<1>2. Rows /\ [Next]_vars => Rows'
  BY RowsKept
<1>. QED
  BY <1>1, <1>2, PTL DEF Spec

(***************************************************************************)
(* Permissions.                                                            *)
(***************************************************************************)
\* compute_effective_permissions gives no more than was granted, apart from
\* the own agenda of whoever writes appointments.
LEMMA PermissionsAreGranted ==
  ASSUME NEW m
  PROVE  /\ Granted(m) \subseteq compute_effective_permissions(m)
         /\ \A k \in compute_effective_permissions(m) :
              \/ k \in Granted(m)
              \/ /\ k = "agenda.view_own"
                 /\ Granted(m) \intersect {"agenda.create", "agenda.edit"} # {}
BY DEF compute_effective_permissions

\* A denied key is not granted.
LEMMA DeniedIsNotGranted ==
  ASSUME NEW m
  PROVE  Granted(m) \intersect Overridden(m, "deny") = {}
BY DEF Granted

\* services/auth.py, compute_effective_permissions: what an override denies
\* stays denied, whatever the role, but for the exception of the own agenda.
THEOREM DenialsCorrect == Spec => []DenialsHold
<1>1. DenialsHold
  <2>. SUFFICES ASSUME NEW m \in Memberships,
                       NEW route \in StaffRoutes,
                       route.anyOf # {},
                       route.anyOf \subseteq Overridden(m, "deny"),
                       Accepts(route, compute_effective_permissions(m))
                PROVE  /\ "agenda.view_own" \in route.anyOf
                       /\ Granted(m) \intersect {"agenda.create", "agenda.edit"} # {}
    BY DEF DenialsHold
  <2>1. PICK k \in route.anyOf : k \in compute_effective_permissions(m)
    BY DEF Accepts
  <2>2. k \notin Granted(m)
    BY DeniedIsNotGranted
  <2>. QED
    BY <2>1, <2>2, PermissionsAreGranted
<1>. QED
  BY <1>1, PTL

\* services/auth.py, the normalisation: whoever may write an appointment may
\* read the agenda.
THEOREM WritersCorrect == Spec => []WritersReadTheAgenda
<1>1. WritersReadTheAgenda
  <2>. SUFFICES ASSUME NEW m \in Memberships,
                       NEW write \in AppointmentWriteRoutes,
                       write.anyOf # {"agenda.cancel"},
                       Accepts(write, compute_effective_permissions(m)),
                       NEW read \in AppointmentViewRoutes \union AgendaRoutes
                PROVE  Accepts(read, compute_effective_permissions(m))
    BY DEF WritersReadTheAgenda
  <2>1. write.anyOf = {"agenda.create"} \/ write.anyOf = {"agenda.edit"}
    BY DEF AppointmentWriteRoutes, Route
  <2>2. compute_effective_permissions(m) \intersect {"agenda.create", "agenda.edit"} # {}
    BY <2>1 DEF Accepts
  <2>3. Granted(m) \intersect {"agenda.create", "agenda.edit"} # {}
    BY <2>2, PermissionsAreGranted
  <2>4. compute_effective_permissions(m) \intersect ViewAgenda # {}
    BY <2>3 DEF compute_effective_permissions, ViewAgenda
  <2>5. ViewAgenda \subseteq read.anyOf
    BY DEF AppointmentViewRoutes, AgendaRoutes, Route
  <2>. QED
    BY <2>4, <2>5 DEF Accepts
<1>. QED
  BY <1>1, PTL

\* services/agenda.py and services/agenda_access.py: the list of the agenda
\* and the detail of an appointment show a member the same professionals.
THEOREM ListsCorrect == Spec => []ListAgreesWithDetail
<1>1. ListAgreesWithDetail
  BY DEF ListAgreesWithDetail, list_agenda, can_view_professional, Own
<1>. QED
  BY <1>1, PTL

\* The keys the routes ask for, and that an owner needs.
OwnerKeys ==
  {"organization.manage", "users.manage", "branches.view", "branches.manage",
   "professionals.view", "professionals.manage", "services.view",
   "services.manage", "clients.view", "clients.manage", "agenda.view_own",
   "agenda.view_all", "agenda.create", "agenda.edit", "agenda.cancel",
   "agenda.manage_blocks", "finance.view", "finance.manage", "settings.manage",
   "orders.view", "orders.manage", "orders.edit_price", "orders.cancel",
   "orders.reopen", "payments.register", "inventory.view", "inventory.manage",
   "dashboard.view", "commissions.view_all", "commissions.manage"}

LEMMA OwnerKeysAreSeeded == OwnerKeys \subseteq RolePermissions["OWNER"]
<1>1. \A seed \in Seeds : seed["OWNER"] \subseteq RolePermissions["OWNER"]
  BY DEF RolePermissions, Roles
<1>2. PERMISSIONS \subseteq RolePermissions["OWNER"]
  BY <1>1 DEF Seeds, ROLES
<1>3. {"agenda.manage_blocks"} \subseteq RolePermissions["OWNER"]
  BY <1>1 DEF Seeds, ManageBlocksSeed, Grant, Roles
<1>4. {"orders.view", "orders.manage", "payments.register", "orders.edit_price"}
        \subseteq RolePermissions["OWNER"]
  BY <1>1 DEF Seeds, OrdersSeed, Grant, Roles
<1>5. {"inventory.view", "inventory.manage"} \subseteq RolePermissions["OWNER"]
  BY <1>1 DEF Seeds, InventorySeed, Grant, Roles
<1>6. {"orders.cancel", "dashboard.view", "orders.reopen"} \subseteq RolePermissions["OWNER"]
  BY <1>1 DEF Seeds, OrdersCancelSeed, DashboardSeed, OrdersReopenSeed, Grant, Roles
<1>7. {"commissions.view_all", "commissions.manage"} \subseteq RolePermissions["OWNER"]
  BY <1>1 DEF Seeds, CommissionsSeed, Grant, Roles
<1>. QED
  BY <1>2, <1>3, <1>4, <1>5, <1>6, <1>7 DEF OwnerKeys, PERMISSIONS

\* Every guard accepts one of these keys.
OpenTo(routes) ==
  \A route \in routes : route.anyOf = {} \/ route.anyOf \intersect OwnerKeys # {}

LEMMA StaffRoutesOpen == OpenTo(StaffRoutes)
<1> USE DEF OpenTo, Route, OwnerKeys
<1>1. OpenTo(UNION {AgendaRoutes, AppointmentViewRoutes, AppointmentWriteRoutes})
  BY DEF AgendaRoutes, AppointmentViewRoutes, AppointmentWriteRoutes, ViewAgenda
<1>2. OpenTo(UNION {CustomStatusRoutes, StatusStyleRoutes, ScheduleBlockRoutes, BranchRoutes})
  BY DEF CustomStatusRoutes, StatusStyleRoutes, ScheduleBlockRoutes, BranchRoutes, ViewAgenda
<1>3. OpenTo(UNION {OrganizationRoutes, CashRegisterConfigRoutes, CashRegisterRoutes})
  BY DEF OrganizationRoutes, CashRegisterConfigRoutes, CashRegisterRoutes
<1>4. OpenTo(UNION {ClientRoutes, CommissionRoutes, DashboardRoutes, ExtractRoutes})
  BY DEF ClientRoutes, CommissionRoutes, DashboardRoutes, ExtractRoutes
<1>5. OpenTo(UNION {FinancialCategoryRoutes, FixedExpenseRoutes, InventoryCountRoutes})
  BY DEF FinancialCategoryRoutes, FixedExpenseRoutes, InventoryCountRoutes
<1>6. OpenTo(UNION {OrderViewRoutes, OrderEditRoutes, OrderSettleRoutes})
  BY DEF OrderViewRoutes, OrderEditRoutes, OrderSettleRoutes
<1>7. OpenTo(UNION {PaymentFeeRoutes, TaxRateRoutes, ProductRoutes, StockRoutes})
  BY DEF PaymentFeeRoutes, TaxRateRoutes, ProductRoutes, StockRoutes
<1>8. OpenTo(UNION {ProfessionalRoutes, ServiceCategoryRoutes, ServiceRoutes, UserRoutes})
  BY DEF ProfessionalRoutes, ServiceCategoryRoutes, ServiceRoutes, UserRoutes
<1>9. StaffRoutes =
        UNION {UNION {AgendaRoutes, AppointmentViewRoutes, AppointmentWriteRoutes},
               UNION {CustomStatusRoutes, StatusStyleRoutes, ScheduleBlockRoutes, BranchRoutes},
               UNION {OrganizationRoutes, CashRegisterConfigRoutes, CashRegisterRoutes},
               UNION {ClientRoutes, CommissionRoutes, DashboardRoutes, ExtractRoutes},
               UNION {FinancialCategoryRoutes, FixedExpenseRoutes, InventoryCountRoutes},
               UNION {OrderViewRoutes, OrderEditRoutes, OrderSettleRoutes},
               UNION {PaymentFeeRoutes, TaxRateRoutes, ProductRoutes, StockRoutes},
               UNION {ProfessionalRoutes, ServiceCategoryRoutes, ServiceRoutes, UserRoutes}}
  BY DEF StaffRoutes
<1> HIDE DEF Route, OwnerKeys
<1>. QED
  BY <1>1, <1>2, <1>3, <1>4, <1>5, <1>6, <1>7, <1>8, <1>9

\* The seeds of alembic and the guards of api/v1 fit: an owner nobody has
\* restricted is admitted everywhere.
THEOREM OwnerCorrect == Spec => []OwnerIsAdmittedEverywhere
<1>1. OwnerIsAdmittedEverywhere
  <2>. SUFFICES ASSUME NEW m \in Memberships,
                       membership[m].role = "OWNER",
                       Overridden(m, "deny") = {},
                       NEW route \in StaffRoutes
                PROVE  Accepts(route, compute_effective_permissions(m))
    BY DEF OwnerIsAdmittedEverywhere
  <2>1. OwnerKeys \subseteq compute_effective_permissions(m)
    BY OwnerKeysAreSeeded, PermissionsAreGranted DEF Granted
  <2>2. route.anyOf = {} \/ route.anyOf \intersect OwnerKeys # {}
    BY StaffRoutesOpen DEF OpenTo
  <2>. QED
    BY <2>1, <2>2 DEF Accepts
<1>. QED
  BY <1>1, PTL

(***************************************************************************)
(* What administering one another may not do.                              *)
(***************************************************************************)
\* A handler of an admitted request, whatever it does to a membership, does
\* it to one of the organization the request was made in.
LEMMA AdministersOwn ==
  ASSUME Rows, NEW u \in Users, NEW m \in Memberships, Administer(u, m)
  PROVE  /\ request[u] = OrgOf(m)
         /\ request'[u] = NoOrganization
         /\ \A x \in Memberships \ {m} : membership'[x] = membership[x]
<1>1. Administer(u, m) => GetMembershipInOrg(m, u)
  BY DEF Administer, SetMembershipStatus, AssignRole, SetPermissionOverrides,
         AdminSetPassword, LinkProfessional, SetAgendaAccess
<1>2. Administer(u, m) => Respond(u)
  BY DEF Administer, SetMembershipStatus, AssignRole, SetPermissionOverrides,
         AdminSetPassword, LinkProfessional, SetAgendaAccess
<1>3. request[u] = OrgOf(m) /\ request'[u] = NoOrganization
  BY <1>1, <1>2 DEF GetMembershipInOrg, Respond, Rows
<1>4. \A x \in Memberships \ {m} : membership'[x] = membership[x]
  BY DEF Administer, SetMembershipStatus, AssignRole, SetPermissionOverrides,
         AdminSetPassword, LinkProfessional, SetAgendaAccess, Rows
<1>. QED
  BY <1>3, <1>4

TenantStep ==
  \A m \in Memberships : membership'[m] # membership[m] =>
    \/ \E u \in Users : request[u] = OrgOf(m) /\ request'[u] = NoOrganization
    \/ ~Exists(m) /\ UserOf(m) \notin users
    \/ Exists(m) /\ membership[m].status = "invited"

LEMMA TenantKept ==
  ASSUME Rows, [Next]_vars
  PROVE  TenantStep
<1>. SUFFICES ASSUME NEW x \in Memberships, membership'[x] # membership[x]
              PROVE  \/ \E u \in Users : request[u] = OrgOf(x) /\ request'[u] = NoOrganization
                     \/ ~Exists(x) /\ UserOf(x) \notin users
                     \/ Exists(x) /\ membership[x].status = "invited"
  BY DEF TenantStep
<1>1. ASSUME NEW u \in Users, NEW o \in Organizations, CreateAccount(u, o)
      PROVE  ~Exists(x) /\ UserOf(x) \notin users
  <2>1. x = <<u, o>>
    BY <1>1 DEF CreateAccount, Rows
  <2>. QED
    BY <1>1, <2>1 DEF CreateAccount, OrgOf, UserOf
<1>2. ASSUME NEW m \in Memberships, AcceptInvite(m) \/ Admit(m)
      PROVE  Exists(x) /\ membership[x].status = "invited"
  BY <1>2 DEF AcceptInvite, Admit, Rows
<1>3. ASSUME NEW u \in Users, Refuse(u)
      PROVE  FALSE
  BY <1>3 DEF Refuse
<1>4. ASSUME NEW u \in Users, NEW employee \in Users, NEW role \in RoleInputs,
             NEW withPassword \in BOOLEAN,
             AddOrInviteEmployee(u, employee, role, withPassword)
      PROVE  request[u] = OrgOf(x) /\ request'[u] = NoOrganization
  <2>1. x = <<employee, request[u]>>
    BY <1>4 DEF AddOrInviteEmployee, Rows
  <2>. QED
    BY <1>4, <2>1 DEF AddOrInviteEmployee, Respond, Rows, OrgOf
<1>5. ASSUME NEW u \in Users, NEW m \in Memberships, Administer(u, m)
      PROVE  request[u] = OrgOf(x) /\ request'[u] = NoOrganization
  BY <1>5, AdministersOwn
<1>6. CASE UNCHANGED vars
  BY <1>6 DEF vars
<1>. QED
  BY <1>1, <1>2, <1>3, <1>4, <1>5, <1>6 DEF Next

\* alembic 0006 shows a user the memberships of two organizations;
\* _get_membership_in_org keeps a request inside the one it was made in.
THEOREM TenantCorrect == Spec => TenantIsolation
<1>1. Rows /\ [Next]_vars => [TenantStep]_vars
  BY TenantKept
<1>2. Spec => []Rows
  BY RowsCorrect
<1>. QED
  BY <1>1, <1>2, PTL DEF Spec, TenantIsolation, TenantStep

(***************************************************************************)
(* The last active master.                                                 *)
(***************************************************************************)
\* What a membership may do does not depend on its status, or on another one.
LEMMA MasterDependsOn ==
  ASSUME NEW m, membership'[m].role = membership[m].role,
         membership'[m].overrides = membership[m].overrides
  PROVE  Master(m)' <=> Master(m)
BY DEF Master, compute_effective_permissions, Granted, Overridden

\* Only SetMembershipStatus takes an active membership out of active without
\* touching its role or its overrides, and it looks for another master first.
LEMMA LeavesActive ==
  ASSUME Rows, [Next]_vars, NEW m \in Memberships, Active(m),
         membership' = [membership EXCEPT ![m].status = membership'[m].status],
         membership'[m].status # "active"
  PROVE  NotLastActiveMaster(m)
<1>0. membership[m] \in Membership /\ membership'[m] # membership[m]
  BY DEF Active, Exists, Rows
<1>1. ASSUME NEW u \in Users, NEW o \in Organizations, CreateAccount(u, o)
      PROVE  FALSE
  <2>1. m = <<u, o>>
    BY <1>0, <1>1 DEF CreateAccount, Rows
  <2>. QED
    BY <1>1, <2>1 DEF CreateAccount, OrgOf, Active
<1>2. ASSUME NEW x \in Memberships, AcceptInvite(x) \/ Admit(x)
      PROVE  FALSE
  BY <1>0, <1>2 DEF AcceptInvite, Admit, Active, Rows
<1>3. ASSUME NEW u \in Users, Refuse(u)
      PROVE  FALSE
  BY <1>0, <1>3 DEF Refuse
<1>4. ASSUME NEW u \in Users, NEW employee \in Users, NEW role \in RoleInputs,
             NEW withPassword \in BOOLEAN,
             AddOrInviteEmployee(u, employee, role, withPassword)
      PROVE  FALSE
  BY <1>0, <1>4 DEF AddOrInviteEmployee, Rows, Active
<1>5. ASSUME NEW u \in Users, NEW x \in Memberships, Administer(u, x)
      PROVE  NotLastActiveMaster(m)
  <2>1. x = m
    BY <1>0, <1>5, AdministersOwn
  <2>2. ASSUME NEW s \in {"active", "suspended", "removed"}, SetMembershipStatus(u, m, s)
        PROVE  NotLastActiveMaster(m)
    <3>1. membership'[m].status = s
      BY <1>0, <2>2 DEF SetMembershipStatus, Rows, Membership
    <3>. QED
      BY <2>2, <3>1 DEF SetMembershipStatus
  <2>3. ASSUME NEW role \in RoleInputs, AssignRole(u, m, role)
        PROVE  FALSE
    BY <1>0, <2>3 DEF AssignRole, Rows, Membership, Active
  <2>4. ASSUME NEW o \in OverrideInputs, SetPermissionOverrides(u, m, o)
        PROVE  FALSE
    BY <1>0, <2>4 DEF SetPermissionOverrides, Rows, Membership, Active
  <2>5. CASE AdminSetPassword(u, m)
    BY <1>0, <2>5 DEF AdminSetPassword, Rows, Membership, Active
  <2>6. ASSUME NEW p \in Professionals, LinkProfessional(u, m, p)
        PROVE  FALSE
    BY <1>0, <2>6 DEF LinkProfessional
  <2>7. ASSUME NEW input \in AccessInputs, SetAgendaAccess(u, m, input)
        PROVE  FALSE
    BY <1>0, <2>7 DEF SetAgendaAccess, Rows, Membership, Active
  <2>. QED
    BY <1>5, <2>1, <2>2, <2>3, <2>4, <2>5, <2>6, <2>7 DEF Administer
<1>6. CASE UNCHANGED vars
  BY <1>0, <1>6 DEF vars
<1>. QED
  BY <1>1, <1>2, <1>3, <1>4, <1>5, <1>6 DEF Next

MasterStep ==
  \A o \in Organizations :
    OnlyStatusChanges /\ ActiveMasters(o) # {} => ActiveMasters(o)' # {}

LEMMA MasterKept ==
  ASSUME Rows, [Next]_vars
  PROVE  MasterStep
<1>. SUFFICES ASSUME NEW o \in Organizations, OnlyStatusChanges,
                     NEW x \in ActiveMasters(o)
              PROVE  \E y \in Memberships : y \in ActiveMasters(o)'
  BY DEF MasterStep, ActiveMasters
<1>1. PICK m \in Memberships :
        Exists(m) /\ membership' = [membership EXCEPT ![m].status = membership'[m].status]
  BY DEF OnlyStatusChanges
<1>2. membership[m] \in Membership
  BY <1>1 DEF Exists, Rows
<1>3. \A y \in Memberships \ {m} : membership'[y] = membership[y]
  BY <1>1 DEF Rows
<1>4. /\ membership'[m] = [membership[m] EXCEPT !.status = membership'[m].status]
      /\ membership'[m].role = membership[m].role
      /\ membership'[m].overrides = membership[m].overrides
  <2>1. membership'[m] = [membership[m] EXCEPT !.status = membership'[m].status]
    BY <1>1 DEF Rows
  <2>. QED
    BY <2>1, <1>2 DEF Membership
<1>5. \A y \in Memberships : Master(y)' <=> Master(y)
  <2>. SUFFICES ASSUME NEW y \in Memberships
                PROVE  Master(y)' <=> Master(y)
    OBVIOUS
  <2>. QED
    BY <1>3, <1>4, MasterDependsOn
<1>6. \A y \in Memberships \ {m} : y \in ActiveMasters(o) => y \in ActiveMasters(o)'
  BY <1>3, <1>5 DEF ActiveMasters, Active, Exists
<1>7. CASE x # m
  BY <1>6, <1>7 DEF ActiveMasters
<1>8. CASE x = m /\ membership'[m].status = "active"
  <2>1. membership'[m] \in Membership
    BY <1>2, <1>4, <1>8, WrittenIsMembership DEF Status
  <2>2. Active(m)'
    BY <1>8, <2>1, AccessAssumption DEF Active, Exists
  <2>. QED
    BY <1>5, <1>8, <2>2 DEF ActiveMasters
<1>9. CASE x = m /\ membership'[m].status # "active"
  <2>1. Active(m) /\ Master(m) /\ OrgOf(m) = o
    BY <1>9 DEF ActiveMasters
  <2>2. NotLastActiveMaster(m)
    BY <1>1, <1>9, <2>1, LeavesActive
  <2>3. PICK y \in Memberships \ {m} : y \in ActiveMasters(o)
    BY <2>1, <2>2 DEF NotLastActiveMaster, ActiveMasters
  <2>. QED
    BY <1>6, <2>3
<1>. QED
  BY <1>7, <1>8, <1>9

\* services/user_management.py, _assert_not_last_active_master: suspending or
\* removing one member leaves the organization with someone to manage it.
THEOREM MasterCorrect == Spec => MasterSurvivesStatusChange
<1>1. Rows /\ [Next]_vars => [MasterStep]_vars
  BY MasterKept
<1>2. Spec => []Rows
  BY RowsCorrect
<1>. QED
  BY <1>1, <1>2, PTL DEF Spec, MasterSurvivesStatusChange, MasterStep
=============================================================================
