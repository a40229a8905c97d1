------------------------------- MODULE Roles -------------------------------
(***************************************************************************)
(* The permission catalog of one domain app and the roles of one tenant:   *)
(* how a permissions.json merges with the generated CRUD permissions, what *)
(* the catalog check reports, how new tenants are seeded, what a role may  *)
(* be given and what a role then allows (apps/sys_permissions, iam_roles,  *)
(* tenants/signals.py).                                                    *)
(*                                                                         *)
(* Codenames are prefixed with the app's label, so apps do not interfere.  *)
(* The catalog is read from disk on every call.                            *)
(***************************************************************************)
EXTENDS FiniteSets, Functions, TLC

CONSTANTS
    OwnResource,  \* the resource every domain app has: its label
    Files,        \* bound: the permissions.json that are deployed one after the other
    GrantSets,    \* bound: the permissions a request may send
    Editors,      \* requests on roles
    CustomRole,   \* a role besides the seeded ones
    Edited        \* bound: the roles that requests work on

DefaultRoles == {"owner", "admin", "member", "viewer"}
RoleKinds    == DefaultRoles \cup {"custom"}

VARIABLES
    file,     \* the deployed permissions.json
    role,     \* the tenant's roles by name, those that exist
    edit      \* per request: where it is, the role, the instance it has loaded

roleVars == <<file, role, edit>>

-----------------------------------------------------------------------------
(* catalog.py.  An action is [readonly, roles]: roles are those granted it by
   default.  A file is [access, accessAction, off, resources]: "access" is
   missing, false or an action; "resources" is false or names resources, which
   are false or list the actions they remove (false) and define. *)

AccessAction == [readonly |-> TRUE, roles |-> DefaultRoles]

DefaultCrudActions ==
    [a \in {"view", "create", "update", "delete"} |->
        IF a = "view" THEN AccessAction
                      ELSE [readonly |-> FALSE, roles |-> {"owner", "admin"}]]

NoFile == [access |-> "missing", accessAction |-> AccessAction, off |-> FALSE, resources |-> <<>>]

\* Explicit actions override or remove those of the base.
MergeActions(resource) ==
    resource.defined @@ Restrict(DefaultCrudActions, DOMAIN DefaultCrudActions \ resource.removed)

\* _merge_catalog: the resources with their actions.  A resource of the file that
\* ends up without actions is dropped, the app's own one is not.
MergeResources(f) ==
    LET given   == DOMAIN f.resources
        kept    == IF f.off THEN {} ELSE {r \in given \cup {OwnResource} : r \in given => ~f.resources[r].off}
        merged  == [r \in kept |-> IF r \in given THEN MergeActions(f.resources[r]) ELSE DefaultCrudActions]
    IN Restrict(merged, {r \in kept : r = OwnResource \/ DOMAIN merged[r] # {}})

Access == <<"access">>

\* get_merged_catalog: codenames to actions.
MergedCatalog(f) ==
    LET resources == MergeResources(f)
        codes     == UNION {{<<r, a>> : a \in DOMAIN resources[r]} : r \in DOMAIN resources}
    IN [c \in codes |-> resources[c[1]][c[2]]]
         @@ CASE f.access = "off"     -> <<>>
              [] f.access = "missing" -> (Access :> AccessAction)
              [] OTHER                -> (Access :> f.accessAction)

Writes(f) == LET catalog == MergedCatalog(f) IN {c \in DOMAIN catalog : ~catalog[c].readonly}

\* validate_business_rules: what viewers may not be granted by default.  It looks at
\* resources only.
CatalogErrors(f) == {c \in Writes(f) \ {Access} : "viewer" \in MergedCatalog(f)[c].roles}

\* get_default_role_permissions
DefaultPermissions(f, r) ==
    LET catalog == MergedCatalog(f) IN {c \in DOMAIN catalog : r \in catalog[c].roles}

-----------------------------------------------------------------------------
(* Roles.  A role is [kind, permissions, seen, seeded]: permissions are the
   codenames with the value 1; seen (history) is the file its permissions were
   checked against or, if seeded, taken from. *)

RoleInit ==
    /\ file \in Files
    /\ role = <<>>
    /\ edit = [q \in Editors |-> [pc |-> "new"]]

Deploy(f) == f # file /\ file' = f /\ UNCHANGED <<role, edit>>

\* The tenant is created: seed_default_roles.
SeedDefaultRoles ==
    /\ role = <<>>
    /\ role' = [r \in DefaultRoles |-> [kind |-> r, permissions |-> DefaultPermissions(file, r),
                                        seen |-> file, seeded |-> TRUE]]
    /\ UNCHANGED <<file, edit>>

\* do_validate: codenames that are not in the catalog pass.
Accepted(kind, permissions) == kind = "viewer" => permissions \cap Writes(file) = {}

EditTo(q, pc, name, copy) == edit' = [edit EXCEPT ![q] = [pc |-> pc, name |-> name, copy |-> copy]]

Given(kind, permissions) == [kind |-> kind, permissions |-> permissions, seen |-> file, seeded |-> FALSE]

\* A create, or a PUT or PATCH with permissions, is validated ...
ValidateNew(q, kind, permissions) ==
    /\ edit[q].pc = "new" /\ role # <<>> /\ CustomRole \notin DOMAIN role
    /\ Accepted(kind, permissions)
    /\ EditTo(q, "insert", CustomRole, Given(kind, permissions))
    /\ UNCHANGED <<file, role>>

Load(q, name) ==
    /\ edit[q].pc = "new" /\ name \in DOMAIN role
    /\ EditTo(q, "loaded", name, role[name])
    /\ UNCHANGED <<file, role>>

ValidatePermissionsByAttrs(q, permissions) ==
    /\ edit[q].pc = "loaded"
    /\ EditTo(q, "save", edit[q].name, Given(edit[q].copy.kind, permissions))
    /\ UNCHANGED <<file, role>>

\* The kind is that of the instance.
ValidatePermissions(q, permissions) ==
    /\ edit[q].pc = "loaded"
    /\ Accepted(edit[q].copy.kind, permissions)
    /\ EditTo(q, "save", edit[q].name, Given(edit[q].copy.kind, permissions))
    /\ UNCHANGED <<file, role>>

\* A PATCH without permissions is not checked, nor is a DELETE: a save too, after which
\* members keep the role.  A kind is refused, and so is what is not Accepted.
ValidateOther(q) ==
    /\ edit[q].pc = "loaded"
    /\ \E to \in {"save", "done"} : EditTo(q, to, edit[q].name, edit[q].copy)
    /\ UNCHANGED <<file, role>>

Store(name, copy) == role' = [n \in DOMAIN role \cup {name} |-> IF n = name THEN copy ELSE role[n]]

\* ... and saved with all its fields; the name of a new one is unique.
InsertRole(q) ==
    /\ edit[q].pc = "insert"
    /\ IF edit[q].name \in DOMAIN role THEN UNCHANGED role ELSE Store(edit[q].name, edit[q].copy)
    /\ EditTo(q, "done", edit[q].name, edit[q].copy)
    /\ UNCHANGED file

SaveRole(q) ==
    /\ edit[q].pc = "save"
    /\ Store(edit[q].name, edit[q].copy)
    /\ EditTo(q, "done", edit[q].name, edit[q].copy)
    /\ UNCHANGED file

RoleNext ==
    \/ \E f \in Files : Deploy(f)
    \/ SeedDefaultRoles
    \/ \E q \in Editors :
         \/ \E kind \in RoleKinds, permissions \in GrantSets : ValidateNew(q, kind, permissions)
         \/ \E name \in Edited : Load(q, name)
         \/ \E permissions \in GrantSets : ValidatePermissions(q, permissions)
         \/ ValidateOther(q)
         \/ InsertRole(q) \/ SaveRole(q)

\* HasTenantPermission for an active membership with this role: an admin may do
\* everything, others need the app's access and the codename.
Allowed(name, isAdmin, c) == isAdmin \/ {Access, c} \subseteq role[name].permissions

-----------------------------------------------------------------------------
(* Properties *)

\* A member with a viewer role can do nothing that wrote under the catalog its
\* permissions come from, however requests and deployments overlap; only seeding may
\* grant more, what the catalog check reports or a writable access (iam_roles/
\* serializers.py:49-83, tenants/signals.py:18-27, catalog.py:265-294).
ViewersRead ==
    \A name \in DOMAIN role :
        LET r == role[name] IN
        r.kind = "viewer" =>
            \A c \in Writes(r.seen) :
                Allowed(name, FALSE, c) => r.seeded /\ c \in CatalogErrors(r.seen) \cup {Access}

=============================================================================
