------------------------------ MODULE MCAccess ------------------------------
(***************************************************************************)
(* Two users, two organizations, one of the users in both.                 *)
(***************************************************************************)
EXTENDS Access, TLC

CONSTANTS ana, bia, salon, spa, p1

MCMemberships == {<<ana, salon>>, <<bia, salon>>, <<ana, spa>>}
MCProfessionalOrg == p1 :> salon
NoOverride == <<>>
MCOverrides ==
  {NoOverride,
   "organization.manage" :> "grant",
   ("organization.manage" :> "deny") @@ ("agenda.view_own" :> "deny")
      @@ ("agenda.view_all" :> "deny")}
MCSelected ==
  {[view_scope |-> "selected", edit_scope |-> "selected",
    viewable |-> {p1}, editable |-> {p1}]}
=============================================================================
