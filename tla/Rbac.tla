--------------------------------- MODULE Rbac ---------------------------------
(***************************************************************************)
(* Who may do what inside an organization (lib/tenancy/rbac.ts): the       *)
(* permissions of each role, and the roles each role may hand on.          *)
(***************************************************************************)

OrgRole == {"OWNER", "ADMIN", "MANAGER", "FINANCE", "WORKER", "VIEWER"}
AdministrativeRoles == {"OWNER", "ADMIN"}

Viewing == {"org:read", "member:read", "project:read", "worker:read", "payroll:read",
            "payment:read", "escrow:read", "treasury:read", "audit:read", "reconciliation:read"}
Managing ==
  Viewing \union
  {"worker:create", "worker:update", "payroll:create", "payroll:update",
   "payment:approve:manager", "payment:reject", "payment:cancel", "payment:submit",
   "payment:retry", "escrow:create", "oracle:attest:request"}
Financing ==
  Viewing \union
  {"payment:approve:finance", "payment:reject", "payment:cancel", "payment:submit",
   "payment:retry"}
Administering ==
  Managing \union Financing \union
  {"org:update", "member:invite", "member:role:assign", "member:suspend", "member:remove",
   "project:create", "project:update", "project:archive", "worker:archive",
   "payroll:delete", "escrow:cancel", "reconciliation:resolve"}

Grants ==
  [OWNER |-> Administering \union {"org:delete"}, ADMIN |-> Administering,
   MANAGER |-> Managing, FINANCE |-> Financing, WORKER |-> {}, VIEWER |-> Viewing]
Can(role, permission) == permission \in Grants[role]

\* The roles a role may grant: at or below its own, and only administrators
\* grant at all.
\* Mutant: an ADMIN may make an OWNER.
DelegatesUp == [r \in OrgRole |-> IF r \in AdministrativeRoles THEN OrgRole ELSE {}]
Delegatable ==
  [r \in OrgRole |-> CASE r = "OWNER" -> OrgRole
                       [] r = "ADMIN" -> OrgRole \ {"OWNER"}
                       [] OTHER -> {}]
CanAssignRole(actor, target) == target \in Delegatable[actor]
==============================================================================
