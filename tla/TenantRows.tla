----------------------------- MODULE TenantRows -----------------------------
(***************************************************************************)
(* Two tables under the tenant callbacks, and the services that read a row *)
(* and write it back in a second statement: webhook configurations         *)
(* (service/webhook.go on repository/webhook.go) and the signature         *)
(* counters of WebAuthn credentials (repository/webauthn.go).              *)
(*                                                                         *)
(* A statement is one step.  `wired` says whether RegisterCallback was     *)
(* called on the database.                                                 *)
(***************************************************************************)
EXTENDS Integers, TenantScope

CONSTANTS
    Callers,      \* concurrent requests
    ConfigIds,    \* ids of webhook configurations
    CredIds,      \* ids of WebAuthn credentials
    Tenants,
    Secrets,
    Contexts,     \* contexts the services are called with
    MaxCount      \* bound on the counters of authenticators

ASSUME RowsAssumption ==
    /\ MaxCount \in Nat
    /\ Unset \notin Tenants
    /\ Contexts \subseteq [tenant : Tenants \union {Unset}, bypass : BOOLEAN]

VARIABLES
    wired,        \* the callbacks are registered
    configs,      \* table webhook_configs
    creds,        \* table webauthn_credentials
    logged,       \* configurations with an entry in webhook_delivery_logs
    calls         \* what each caller is doing

rowsVars == <<wired, configs, creds, logged, calls>>

\* An id that is not yet in use, and one that was: ids are random, and none
\* comes a second time.
NoRow == [tenant |-> "no row"]
Gone == [tenant |-> "gone"]

Config == [tenant : Tenants, secret : Secrets, active : {"on", "off"}]
Cred == [tenant : Tenants, count : 0..MaxCount]

\* A field of UpdateWebhookRequest that is nil.
Nil == "nil"
Change == [secret : Secrets \union {Nil}, active : {"on", "off", Nil}]

Idle == [pc |-> "idle"]

\* A call between its two statements: the row it has read, and whether
\* another statement has written that row since (`overlapped`, a ghost).
Updating(kind, ctx, id, req, row) ==
    [pc |-> kind, ctx |-> ctx, id |-> id, req |-> req, row |-> row, overlapped |-> FALSE]

RowsInit ==
    /\ wired \in BOOLEAN
    /\ configs = [id \in ConfigIds |-> NoRow]
    /\ creds = [id \in CredIds |-> NoRow]
    /\ logged = {}
    /\ calls = [c \in Callers |-> Idle]

-----------------------------------------------------------------------------
(* Statements                                                              *)

Decide(ctx, stmt) == IF wired THEN RegisterCallback(ctx, stmt) ELSE Pass

\* The statement on the row `id` of `table` affects it.
Affects(table, ctx, stmt, id) ==
    LET d == Decide(ctx, stmt)
    IN /\ d.error = "none" /\ table[id] \notin {NoRow, Gone}
       /\ d.where # Unset => table[id].tenant = d.where

\* The owner a new row gets when the request names `tenant`.
Owner(ctx, stmt, tenant) ==
    LET d == Decide(ctx, stmt) IN IF d.owner # Unset THEN d.owner ELSE tenant

\* The other calls that have read the row are now out of date.
Overlap(c, kinds, id) ==
    [o \in Callers |->
        IF o = c THEN Idle
        ELSE IF calls[o].pc \in kinds /\ calls[o].id = id
             THEN [calls[o] EXCEPT !.overlapped = TRUE] ELSE calls[o]]

\* The two calls that write configurations back.
ConfigCalls == {"update", "rotate"}

-----------------------------------------------------------------------------
(* Webhook configurations                                                  *)

CreateConfig(ctx, id, tenant) ==
    /\ configs[id] = NoRow
    /\ Decide(ctx, Create("struct", {})).error = "none"
    /\ \E secret \in Secrets :
          configs' = [configs EXCEPT ![id] =
              [tenant |-> Owner(ctx, Create("struct", {}), tenant), secret |-> secret,
               active |-> "on"]]
    /\ UNCHANGED <<wired, creds, logged, calls>>

\* Update and RotateSecret: FindByID, then what changes is decided on the copy.
FindConfig(c, kind, ctx, id, req) ==
    /\ calls[c] = Idle
    /\ Affects(configs, ctx, First, id)
    /\ calls' = [calls EXCEPT ![c] = Updating(kind, ctx, id, req, configs[id])]
    /\ UNCHANGED <<wired, configs, creds, logged>>

Update(c, ctx, id) == \E req \in Change : FindConfig(c, "update", ctx, id, req)

\* The new secret is random: it is not the one that was read.
RotateSecret(c, ctx, id) ==
    \E secret \in Secrets :
        /\ configs[id] \in Config => secret # configs[id].secret
        /\ FindConfig(c, "rotate", ctx, id, [secret |-> secret, active |-> Nil])

\* The fields of the request that are not nil, on the row that was read.
Merge(row, req) ==
    [row EXCEPT !.secret = IF req.secret = Nil THEN @ ELSE req.secret,
                !.active = IF req.active = Nil THEN @ ELSE req.active]

\* repository.Update writes every column but tenant_id.  The row may be gone.
WriteConfig(c) ==
    LET call == calls[c]
        stmt == Updates("map", {"name", "url", "secret", "events", "active",
                                "retry_count", "timeout_seconds"})
        row == Merge(call.row, call.req)
    IN /\ call.pc \in ConfigCalls
       /\ \/ /\ Affects(configs, call.ctx, stmt, call.id)
             /\ configs' = [configs EXCEPT ![call.id] =
                                [row EXCEPT !.tenant = configs[call.id].tenant]]
             /\ calls' = Overlap(c, ConfigCalls, call.id)
          \/ /\ ~Affects(configs, call.ctx, stmt, call.id)
             /\ calls' = [calls EXCEPT ![c] = Idle]
             /\ UNCHANGED configs
       /\ UNCHANGED <<wired, creds, logged>>

DeleteConfig(ctx, id) ==
    /\ Affects(configs, ctx, Delete, id)
    /\ configs' = [configs EXCEPT ![id] = Gone]
    /\ UNCHANGED <<wired, creds, logged, calls>>

\* handleEvent looks for configurations under the background context, and
\* writes the delivery log, a table of no tenant.
HandleEvent ==
    /\ Decide(NoTenant, Find).error = "none"
    /\ \E id \in ConfigIds :
          /\ configs[id] \in Config /\ configs[id].active = "on"
          /\ logged' = logged \union {id}
    /\ UNCHANGED <<wired, configs, creds, calls>>

-----------------------------------------------------------------------------
(* Signature counters                                                      *)

CreateCred(ctx, id, tenant) ==
    /\ creds[id] = NoRow
    /\ Decide(ctx, Create("struct", {})).error = "none"
    /\ creds' = [creds EXCEPT ![id] =
            [tenant |-> Owner(ctx, Create("struct", {}), tenant), count |-> 0]]
    /\ UNCHANGED <<wired, configs, logged, calls>>

\* Seeded fault: a smaller counter is only a warning.
CloneRejectedNever(stored, new) == FALSE

\* A counter below the stored one: a clone.
CloneRejected(stored, new) == new < stored

\* VerifyAndIncrementSignCount reads and compares.
FindCred(c, ctx, id, new) ==
    /\ calls[c] = Idle
    /\ Affects(creds, ctx, First, id)
    /\ ~CloneRejected(creds[id].count, new)
    /\ calls' = [calls EXCEPT ![c] = Updating("login", ctx, id, new, creds[id])]
    /\ UNCHANGED <<wired, configs, creds, logged>>

\* And writes the struct back: every field that is not zero, tenant_id included.
WriteCred(c) ==
    LET call == calls[c]
        stmt == Updates("struct", {"tenant_id", "sign_count"})
    IN /\ call.pc = "login"
       /\ \/ /\ Affects(creds, call.ctx, stmt, call.id)
             /\ creds' = IF call.req = 0 THEN creds
                          ELSE [creds EXCEPT ![call.id].count = call.req]
             /\ calls' = Overlap(c, {"login"}, call.id)
          \/ /\ ~Affects(creds, call.ctx, stmt, call.id)
             /\ calls' = [calls EXCEPT ![c] = Idle]
             /\ UNCHANGED creds
       /\ UNCHANGED <<wired, configs, logged>>

DeleteCred(ctx, id) ==
    /\ Affects(creds, ctx, Delete, id)
    /\ creds' = [creds EXCEPT ![id] = Gone]
    /\ UNCHANGED <<wired, configs, logged, calls>>

-----------------------------------------------------------------------------

ConfigStep(c, ctx, id) ==
    \/ \E tenant \in Tenants : CreateConfig(ctx, id, tenant)
    \/ Update(c, ctx, id)
    \/ RotateSecret(c, ctx, id)
    \/ DeleteConfig(ctx, id)

CredStep(c, ctx, id) ==
    \/ \E tenant \in Tenants : CreateCred(ctx, id, tenant)
    \/ \E new \in 0..MaxCount : FindCred(c, ctx, id, new)
    \/ DeleteCred(ctx, id)

RowsNext ==
    \/ \E c \in Callers, ctx \in Contexts :
          \/ \E id \in ConfigIds : ConfigStep(c, ctx, id)
          \/ \E id \in CredIds : CredStep(c, ctx, id)
    \/ \E c \in Callers : WriteConfig(c) \/ WriteCred(c)
    \/ HandleEvent

RowsSpec == RowsInit /\ [][RowsNext]_rowsVars

-----------------------------------------------------------------------------
(* Properties                                                              *)

\* The contexts that name a tenant, marked or not.
OwnContexts == {ctx \in Contexts : ctx.tenant # Unset}

\* With the callbacks registered a context that names a tenant reads, writes,
\* creates and deletes rows of that tenant only, whatever its mark and
\* whatever tenant the request names; no row changes its tenant, and what a
\* call writes in its second statement it has read as its own.
TenantIsolation ==
    [][wired =>
        /\ \A ctx \in OwnContexts, id \in ConfigIds :
              /\ DeleteConfig(ctx, id) => configs[id].tenant = ctx.tenant
              /\ \A tenant \in Tenants :
                    CreateConfig(ctx, id, tenant) => configs'[id].tenant = ctx.tenant
        /\ \A c \in Callers :
              calls'[c] # Idle /\ calls'[c].ctx \in OwnContexts
                  => calls'[c].row.tenant = calls'[c].ctx.tenant
        /\ \A id \in ConfigIds :
              configs[id] \in Config /\ configs'[id] \in Config
                  => configs'[id].tenant = configs[id].tenant
        /\ \A id \in CredIds :
              creds[id] \in Cred /\ creds'[id] \in Cred
                  => creds'[id].tenant = creds[id].tenant]_rowsVars

\* A change is lost only to an overlap.  A call whose row nobody else has
\* written since it read it changes no column of a configuration that its
\* request leaves out, and sets no signature counter back.
OnlyOverlapsLose ==
    [][\A c \in Callers :
          LET call == calls[c]
          IN call # Idle /\ calls'[c] = Idle /\ ~call.overlapped =>
                IF call.pc = "login"
                THEN creds'[call.id] \in Cred => creds'[call.id].count >= creds[call.id].count
                ELSE \A col \in {"secret", "active"} :
                        configs'[call.id] \in Config /\ configs'[call.id][col] # configs[call.id][col]
                            => call.req[col] # Nil]_rowsVars
=============================================================================
