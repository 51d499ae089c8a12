---------------------------- MODULE TenantScope ----------------------------
(***************************************************************************)
(* The tenant callbacks (core/internal/tenant/tenant.go): what they make   *)
(* of one statement under one context, as operators.                       *)
(*                                                                         *)
(* A context is [tenant, bypass]; Unset is the tenant of a context without *)
(* one.  A statement is                                                    *)
(*    op        "query", "update", "delete", "create" or "raw"             *)
(*    model     the type of Statement.Model, or "none"                     *)
(*    dest      [kind, type]: "struct", "slice" or "map" of a type         *)
(*    assigns   the columns it sets: keys of a map, fields of a struct     *)
(*              that are not zero, and those of a SET clause               *)
(*    conflict  the columns ON CONFLICT updates; all of them for UpdateAll *)
(* Types are "tenant", whose values are TenantAware, and "other".  What a  *)
(* callback decides is [error, where, owner]: the tenant in the WHERE it   *)
(* adds, and the tenant it writes into the new rows, or Unset.             *)
(***************************************************************************)
EXTENDS FiniteSets

Unset == ""

NoTenant == [tenant |-> Unset, bypass |-> FALSE]

\* WithTenant and Bypass; neither undoes the other.
WithTenant(ctx, tenant) == [ctx EXCEPT !.tenant = tenant]
Bypass(ctx) == [ctx EXCEPT !.bypass = TRUE]

\* The decisions.
Refuse(err) == [error |-> err, where |-> Unset, owner |-> Unset]
Pass == Refuse("none")
Filter(tenant) == [Pass EXCEPT !.where = tenant]
Own(tenant) == [Pass EXCEPT !.owner = tenant]

-----------------------------------------------------------------------------
\* Statement.Model decides, or else what Dest is of; a map is of nothing.
isTenantAwareType(stmt) ==
    \/ stmt.model = "tenant"
    \/ stmt.dest.kind # "map" /\ stmt.dest.type = "tenant"

\* Seeded fault: the mark comes first.
applyTenantFilterBypassFirst(ctx) ==
    CASE ctx.bypass -> Pass
      [] ~ctx.bypass /\ ctx.tenant # Unset -> Filter(ctx.tenant)
      [] OTHER -> Refuse("tenant_required")

\* The tenant of the context before its mark: a bypass is of no use to a
\* context that has a tenant.
applyTenantFilter(ctx) ==
    CASE ctx.tenant # Unset -> Filter(ctx.tenant)
      [] ctx.tenant = Unset /\ ctx.bypass -> Pass
      [] OTHER -> Refuse("tenant_required")

\* New rows, whatever form they come in, get the tenant of the context.
applyCreateTenantFilter(ctx) ==
    CASE ctx.tenant # Unset -> Own(ctx.tenant)
      [] ctx.tenant = Unset /\ ctx.bypass -> Pass
      [] OTHER -> Refuse("tenant_required")

applyRawTenantFilter(ctx) == IF ctx.bypass THEN Pass ELSE Refuse("raw_requires_bypass")

\* detectTenantIDMutation.  The fields of a struct that has been read are
\* not zero: a row cannot be written back in that form.
setsTenantID(stmt) == "tenant_id" \in stmt.assigns

\* rejectOnConflictTenantIDMutation.
upsertsTenantID(stmt) == "tenant_id" \in stmt.conflict

\* One callback for each kind of statement.  An update is first looked at for
\* tenant_id, an upsert only once the context is accepted.
CreateScope(ctx, stmt) ==
    IF applyCreateTenantFilter(ctx).error = "none" /\ upsertsTenantID(stmt)
    THEN Refuse("tenant_id_immutable") ELSE applyCreateTenantFilter(ctx)

UpdateScope(ctx, stmt) ==
    IF setsTenantID(stmt) THEN Refuse("tenant_id_immutable") ELSE applyTenantFilter(ctx)

RegisterCallback(ctx, stmt) ==
    CASE ~isTenantAwareType(stmt) -> Pass
      [] OTHER -> CASE stmt.op = "create" -> CreateScope(ctx, stmt)
                    [] stmt.op = "update" -> UpdateScope(ctx, stmt)
                    [] stmt.op = "raw" -> applyRawTenantFilter(ctx)
                    [] stmt.op \in {"query", "delete"} -> applyTenantFilter(ctx)

\* SafeRawScan looks at the destination, which Raw().Scan() shows to the
\* callback too late.
SafeRawScan(ctx, dest) ==
    IF dest.kind # "map" /\ dest.type = "tenant" /\ ~ctx.bypass
    THEN Refuse("raw_requires_bypass") ELSE Pass

-----------------------------------------------------------------------------
\* The statement forms the repositories use.
Stmt(op, kind, assigns, conflict) ==
    [op |-> op, model |-> "tenant", dest |-> [kind |-> kind, type |-> "tenant"],
     assigns |-> assigns, conflict |-> conflict]

First == Stmt("query", "struct", {}, {})
Find == Stmt("query", "slice", {}, {})
Updates(kind, cols) == Stmt("update", kind, cols, {})
Delete == Stmt("delete", "struct", {}, {})
Create(kind, conflict) == Stmt("create", kind, {}, conflict)

=============================================================================
