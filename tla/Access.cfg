SPECIFICATION Spec
CONSTANTS
  ana = ana
  bia = bia
  salon = salon
  spa = spa
  p1 = p1
  Users = {ana, bia}
  Organizations = {salon, spa}
  Memberships <- MCMemberships
  Professionals = {p1}
  ProfessionalOrg <- MCProfessionalOrg
  NoUser = NoUser
  NoOrganization = NoOrganization
  NoMembership = NoMembership
  RoleInputs = {"OWNER", "PROFESSIONAL"}
  OverrideInputs <- MCOverrides
  AccessInputs <- MCSelected
INVARIANTS
  OwnerIsAdmittedEverywhere
  DenialsHold
  WritersReadTheAgenda
  ListAgreesWithDetail
PROPERTIES
  MasterSurvivesStatusChange
  TenantIsolation
CHECK_DEADLOCK FALSE
