---------------------------- MODULE Permissions ----------------------------
(***************************************************************************)
(* The permission catalogue of the salon: which keys the migrations seed,  *)
(* which of them every system role holds, and which keys each HTTP route   *)
(* accepts.  The migrations and the routes are written years and files     *)
(* apart; Access checks that they fit.                                     *)
(*                                                                         *)
(* Source: alembic/versions (the seeds, in the order they run) and         *)
(* api/v1 (the routes, with the dependency that guards each).              *)
(***************************************************************************)
EXTENDS FiniteSets

Roles == {"OWNER", "ADMIN", "RECEPTIONIST", "PROFESSIONAL"}

(***************************************************************************)
(* The seeds.  A seed is a function from roles to the keys it grants them. *)
(***************************************************************************)
Grant(roles, keys) == [r \in Roles |-> IF r \in roles THEN keys ELSE {}]

PERMISSIONS ==
  {"organization.manage", "users.manage", "branches.view", "branches.manage",
   "professionals.view", "professionals.manage", "services.view",
   "services.manage", "clients.view", "clients.manage", "agenda.view_own",
   "agenda.view_all", "agenda.create", "agenda.edit", "agenda.cancel",
   "agenda.force_overlap", "finance.view", "finance.manage", "reports.view",
   "settings.manage"}

ROLES ==
  [OWNER |-> PERMISSIONS,
   ADMIN |-> PERMISSIONS \ {"organization.manage"},
   RECEPTIONIST |->
     {"clients.view", "clients.manage", "agenda.view_all", "agenda.create",
      "agenda.edit", "agenda.cancel", "professionals.view", "services.view"},
   PROFESSIONAL |->
     {"agenda.view_own", "agenda.edit", "clients.view", "professionals.view",
      "services.view"}]

ManageBlocksSeed ==
  Grant({"OWNER", "ADMIN", "RECEPTIONIST"}, {"agenda.manage_blocks"})

OrdersSeed ==
  [r \in Roles |->
     Grant({"OWNER", "ADMIN", "RECEPTIONIST"},
           {"orders.view", "orders.manage", "payments.register"})[r]
       \union Grant({"OWNER", "ADMIN"}, {"orders.edit_price"})[r]]

FinanceViewSeed == Grant({"RECEPTIONIST"}, {"finance.view"})

InventorySeed ==
  [r \in Roles |->
     Grant({"OWNER", "ADMIN", "RECEPTIONIST"}, {"inventory.view"})[r]
       \union Grant({"OWNER", "ADMIN"},
                    {"inventory.view_cost", "inventory.manage"})[r]]

OrdersCancelSeed == Grant({"OWNER", "ADMIN", "RECEPTIONIST"}, {"orders.cancel"})

DashboardSeed == Grant({"OWNER", "ADMIN"}, {"dashboard.view"})

ReceptionistFinanceSeed ==
  Grant({"RECEPTIONIST"}, {"finance.view", "finance.manage"})

LookupSeed ==
  Grant({"OWNER", "ADMIN"},
        {"clients.lookup", "clients.create", "services.lookup"})

CommissionsSeed ==
  [r \in Roles |->
     Grant({"OWNER", "ADMIN"}, {"commissions.view_all", "commissions.manage"})[r]
       \union Grant({"PROFESSIONAL"}, {"commissions.view_own"})[r]]

EditPriceSeed == Grant({"RECEPTIONIST"}, {"orders.edit_price"})

ContactDataSeed ==
  Grant({"OWNER", "ADMIN", "RECEPTIONIST"}, {"clients.view_contact_data"})

\* mutant: the migration forgets the two roles that administer the salon
OrdersReopenSeedUngranted == Grant({"RECEPTIONIST"}, {"orders.reopen"})
OrdersReopenSeed == Grant({"OWNER", "ADMIN"}, {"orders.reopen"})

Seeds ==
  {ROLES, ManageBlocksSeed, OrdersSeed, FinanceViewSeed, InventorySeed,
   OrdersCancelSeed, DashboardSeed, ReceptionistFinanceSeed, LookupSeed,
   CommissionsSeed, EditPriceSeed, ContactDataSeed, OrdersReopenSeed}

RolePermissions == [r \in Roles |-> UNION {seed[r] : seed \in Seeds}]

Catalogue == UNION {RolePermissions[r] : r \in Roles}

(***************************************************************************)
(* The routes of the staff.  anyOf is what the guard accepts:              *)
(* require_permission one key, require_any_permission any of several, and  *)
(* nothing when the route only asks for an authenticated member.           *)
(***************************************************************************)
Route(router, operations, anyOf) ==
  [router |-> router, operations |-> operations, anyOf |-> anyOf]

ViewAgenda == {"agenda.view_own", "agenda.view_all"}

AgendaRoutes ==
  {Route("agenda", {"get_agenda", "get_schedule_columns",
                    "get_schedule_columns_working_hours"}, ViewAgenda),
   Route("agenda", {"get_availability", "get_availability_check"},
         ViewAgenda \union {"agenda.create"})}

AppointmentViewRoutes ==
  {Route("appointments", {"get_appointment", "get_related_appointments"},
         ViewAgenda)}

AppointmentWriteRoutes ==
  {Route("appointments", {"create_appointment"}, {"agenda.create"}),
   Route("appointments",
         {"replace_appointment", "update_appointment_item",
          "add_appointment_item", "update_appointment_notes", "update_status",
          "set_appointment_custom_status"}, {"agenda.edit"}),
   Route("appointments", {"cancel_appointment"}, {"agenda.cancel"})}

CustomStatusRoutes ==
  {Route("appointment-custom-statuses", {"list"}, {}),
   Route("appointment-custom-statuses",
         {"create", "update", "activate", "deactivate"}, {"settings.manage"})}

StatusStyleRoutes ==
  {Route("appointment-status-styles", {"list"}, {}),
   Route("appointment-status-styles", {"set", "reset"}, {"settings.manage"})}

ScheduleBlockRoutes ==
  {Route("schedule-blocks", {"list"}, ViewAgenda),
   Route("schedule-blocks", {"create", "delete"}, {"agenda.manage_blocks"})}

BranchRoutes ==
  {Route("branches", {"list", "get"}, ViewAgenda \union {"branches.view"}),
   Route("branches", {"create", "update", "activate", "deactivate"},
         {"branches.manage"})}

OrganizationRoutes ==
  {Route("organization", {"get_current", "list_business_hours"}, {}),
   Route("organization", {"update_current", "replace_business_hours"},
         {"organization.manage"})}

CashRegisterConfigRoutes ==
  {Route("cash-register-config", {"get", "update"}, {"settings.manage"})}

CashRegisterRoutes ==
  {Route("cash-registers", {"get"}, {"finance.view"}),
   Route("cash-registers", {"list"}, {"finance.view", "payments.register"}),
   Route("cash-registers", {"open", "register_movement", "close"},
         {"finance.manage"})}

ClientRoutes ==
  {Route("clients", {"list", "get", "get_history", "get_profile"},
         {"clients.view"}),
   Route("clients", {"lookup"}, {"clients.view", "clients.lookup"}),
   Route("clients", {"create"}, {"clients.manage", "clients.create"}),
   Route("clients", {"update", "activate", "deactivate"}, {"clients.manage"})}

CommissionRoutes ==
  {Route("commissions", {"get_overview", "get_detail", "get_pending_adjustments",
                         "list_settlements", "get_settlement_detail"},
         {"commissions.view_all", "commissions.view_own", "commissions.manage"}),
   Route("commissions", {"create_adjustment", "create_settlement"},
         {"commissions.manage"})}

DashboardRoutes ==
  {Route("dashboard", {"get_overview", "get_kpi_detail", "get_services",
                       "get_service_detail", "get_payment_method_detail",
                       "get_professionals", "get_professional_detail"},
         {"dashboard.view"})}

ExtractRoutes ==
  {Route("extract", {"get_extract", "export_extract"}, {"finance.view"})}

FinancialCategoryRoutes ==
  {Route("financial-categories", {"list", "get"}, {"finance.view"}),
   Route("financial-categories",
         {"create", "update", "activate", "deactivate", "delete"},
         {"organization.manage"})}

FixedExpenseRoutes ==
  {Route("fixed-expenses", {"list", "summary"}, {"finance.view"}),
   Route("fixed-expenses", {"create", "update", "update_status"},
         {"finance.manage"})}

InventoryCountRoutes ==
  {Route("inventory-counts", {"list", "get"}, {"inventory.view"}),
   Route("inventory-counts", {"open", "set_item", "close"},
         {"inventory.manage"})}

OrderViewRoutes ==
  {Route("orders", {"list", "get_by_appointment", "get", "get_related",
                    "get_receipt"}, {"orders.view"})}

OrderEditRoutes ==
  {Route("orders", {"update_item", "update_item_benefit",
                    "update_product_item"}, {"orders.edit_price"}),
   Route("orders", {"create", "update_observation", "add_product_item",
                    "remove_product_item", "correct_consumption"},
         {"orders.manage"})}

OrderSettleRoutes ==
  {Route("orders", {"close", "close_consolidated"}, {"payments.register"}),
   Route("orders", {"cancel"}, {"orders.cancel"}),
   Route("orders", {"reopen"}, {"orders.reopen"})}

PaymentFeeRoutes ==
  {Route("payment-fee-rules",
         {"list", "create", "update", "activate", "deactivate"},
         {"organization.manage"})}

TaxRateRoutes ==
  {Route("tax-rates", {"list", "get_effective", "get_history", "set"},
         {"organization.manage"})}

ProductRoutes ==
  {Route("products", {"list", "list_all_stock_levels", "get",
                      "list_stock_levels"}, {"inventory.view"}),
   Route("products", {"create", "update", "activate", "deactivate",
                      "set_minimum_quantity"}, {"inventory.manage"})}

StockRoutes ==
  {Route("stock", {"list_movements", "list_transfers", "get_transfer",
                   "get_overview"}, {"inventory.view"}),
   Route("stock", {"create_movement", "create_transfer"}, {"inventory.manage"})}

ProfessionalRoutes ==
  {Route("professionals", {"list", "get", "list_working_hours"},
         {"professionals.view"}),
   Route("professionals", {"list_services"},
         {"professionals.view", "agenda.create", "agenda.edit"}),
   Route("professionals", {"create", "update", "activate", "deactivate",
                           "replace_working_hours", "replace_services"},
         {"professionals.manage"})}

ServiceCategoryRoutes ==
  {Route("service-categories", {"list", "get"}, {"services.view"}),
   Route("service-categories",
         {"create", "update", "activate", "deactivate", "delete"},
         {"services.manage"})}

ServiceRoutes ==
  {Route("services", {"list", "get", "list_professionals"}, {"services.view"}),
   Route("services", {"lookup"}, {"services.view", "services.lookup"}),
   Route("services", {"create", "update", "activate", "deactivate"},
         {"services.manage"})}

UserRoutes ==
  {Route("users",
         {"list_employees", "add_employee", "resend_invite", "activate",
          "deactivate", "remove_access", "assign_role", "link_professional",
          "reset_password", "set_password", "permission_overrides",
          "agenda_access"}, {"users.manage"}),
   Route("roles", {"list_roles", "list_permissions"}, {"users.manage"})}

StaffRoutes ==
  UNION {AgendaRoutes, AppointmentViewRoutes, AppointmentWriteRoutes,
         CustomStatusRoutes, StatusStyleRoutes, ScheduleBlockRoutes,
         BranchRoutes, OrganizationRoutes, CashRegisterConfigRoutes,
         CashRegisterRoutes, ClientRoutes, CommissionRoutes, DashboardRoutes,
         ExtractRoutes, FinancialCategoryRoutes, FixedExpenseRoutes,
         InventoryCountRoutes, OrderViewRoutes, OrderEditRoutes,
         OrderSettleRoutes, PaymentFeeRoutes, TaxRateRoutes, ProductRoutes,
         StockRoutes, ProfessionalRoutes, ServiceCategoryRoutes, ServiceRoutes,
         UserRoutes}
=============================================================================
