----------------------------- MODULE AuditTrail -----------------------------
(***************************************************************************)
(* The audit log (util/audit/audit.go, repository/audit.go): an entry is   *)
(* cleaned and signed by NewEntry, stored by Create or BatchCreate through *)
(* the tenant callbacks, which have the last word on its tenant, and       *)
(* verified whenever it is listed.                                         *)
(*                                                                         *)
(* An input's result may be any text ("else"), its texts are of one line   *)
(* ("line", "other") or several ("lines").  A signature is ideal, and is   *)
(* the key and the fields it covers.                                       *)
(* `message` stands for the signed texts and identifiers, `detail` for     *)
(* severity, address, agent and snapshots, which the signature leaves out. *)
(* The creation time is signed as text, with the zone of the server.       *)
(***************************************************************************)
EXTENDS TenantScope

CONSTANTS
    EntryIds,
    AuditTenants,
    AuditContexts,   \* contexts of the callers
    Inputs,          \* what callers give NewEntry
    Servers          \* [key, zone]: configurations of the program over time

ASSUME AuditAssumption ==
    /\ Unset \notin AuditTenants
    /\ Inputs \subseteq [tenant : AuditTenants \union {Unset},
                         result : {"success", "failure", "denied", "else"},
                         message : {"line", "other", "lines"}, detail : {"line", "other"}]
    /\ AuditContexts \subseteq [tenant : AuditTenants \union {Unset}, bypass : BOOLEAN]
    /\ \A s \in Servers : s = [key |-> s.key, zone |-> s.zone]

VARIABLES
    server,   \* the configuration that is running
    trail,    \* table audit_logs
    born      \* ghost: what the caller asked for, and of which server

auditVars == <<server, trail, born>>

NoEntry == [fields |-> "none"]

Results == {"success", "failure", "denied"}
AuditInit ==
    /\ server \in Servers
    /\ trail = [id \in EntryIds |-> NoEntry]
    /\ born = [id \in EntryIds |-> NoEntry]

-----------------------------------------------------------------------------
(* Entries                                                                 *)

sanitizeTenantID(tenant) == IF tenant = Unset THEN "unknown" ELSE tenant
sanitizeResult(result) == IF result \in Results THEN result ELSE "unknown"

\* sanitizeMessage and sanitizeDetail: line breaks become blanks.
sanitizeText(text) == IF text = "lines" THEN "line" ELSE text

SanitizeAuditLog(in) ==
    [tenant |-> sanitizeTenantID(in.tenant), result |-> sanitizeResult(in.result),
     message |-> sanitizeText(in.message), detail |-> sanitizeText(in.detail)]

\* ComputeSignature: detail is not covered.
ComputeSignature(srv, entry) ==
    [key |-> srv.key, zone |-> srv.zone, tenant |-> entry.tenant, result |-> entry.result,
     message |-> entry.message]

\* Seeded fault: what is signed is what came in.
NewEntryRawSignature(in) ==
    [fields |-> SanitizeAuditLog(in), signature |-> ComputeSignature(server, in)]

\* What is signed is what is stored.
NewEntry(in) ==
    LET s == SanitizeAuditLog(in)
    IN [fields |-> s, signature |-> ComputeSignature(server, s)]

verifyLogSignature(entry) == entry.signature = ComputeSignature(server, entry.fields)

\* The tenant an entry is stored with.
Stored(ctx, entry) ==
    LET d == RegisterCallback(ctx, Create("struct", {}))
    IN IF d.owner = Unset THEN entry ELSE [entry EXCEPT !.fields.tenant = d.owner]

-----------------------------------------------------------------------------
(* Operations                                                              *)

\* Entries made by NewEntry are stored together or not at all.  Create is a
\* batch of one.
BatchCreate(ctx, ids) ==
    /\ ids # {} /\ \A id \in ids : trail[id] = NoEntry
    /\ RegisterCallback(ctx, Create("slice", {})).error = "none"
    /\ \E in \in [ids -> Inputs] :
          LET entries == [id \in ids |-> Stored(ctx, NewEntry(in[id]))]
          IN /\ trail' = [id \in EntryIds |-> IF id \in ids THEN entries[id] ELSE trail[id]]
             /\ born' = [id \in EntryIds |->
                    IF id \in ids
                    THEN [server |-> server, asked |-> SanitizeAuditLog(in[id])] ELSE born[id]]
    /\ UNCHANGED server

\* What verification is for: a column of a stored row changes in place.
Corrupt(id, column, value) ==
    /\ trail[id] # NoEntry
    /\ trail' = [trail EXCEPT ![id].fields[column] = value]
    /\ UNCHANGED <<server, born>>

CorruptSome(id) ==
    \/ \E tenant \in AuditTenants : Corrupt(id, "tenant", tenant)
    \/ \E result \in Results : Corrupt(id, "result", result)
    \/ \E text \in {"line", "other"} : Corrupt(id, "message", text) \/ Corrupt(id, "detail", text)

\* The program comes back with another key or in another zone.
Reconfigure ==
    /\ server' \in Servers \ {server}
    /\ UNCHANGED <<trail, born>>

AuditNext ==
    \/ \E ctx \in AuditContexts, ids \in SUBSET EntryIds : BatchCreate(ctx, ids)
    \/ \E id \in EntryIds : CorruptSome(id)
    \/ Reconfigure

AuditSpec == AuditInit /\ [][AuditNext]_auditVars

\* ListByFilter: the rows of the tenant asked for, as the callback allows,
\* chosen by the stored result; one that does not verify is shown as unknown.
ListByFilter(ctx, tenant, results) ==
    LET d == RegisterCallback(ctx, Find)
        ids == {id \in EntryIds :
                   /\ trail[id] # NoEntry /\ d.error = "none"
                   /\ trail[id].fields.tenant = tenant
                   /\ d.where # Unset => trail[id].fields.tenant = d.where
                   /\ trail[id].fields.result \in results}
    IN {[id |-> id,
         result |-> IF verifyLogSignature(trail[id]) THEN trail[id].fields.result
                    ELSE "unknown"] : id \in ids}

-----------------------------------------------------------------------------
(* Properties                                                              *)

\* The signed columns hold what the caller asked for, cleaned.
AsAsked(id) ==
    \A column \in {"tenant", "result", "message"} :
        trail[id].fields[column] = born[id].asked[column]

\* A listing shows the result of an entry exactly when its signed columns hold
\* what the caller of NewEntry asked for, and key and zone are those it was
\* made with.  In particular a change of any of them is seen; but an entry
\* stored under the context of another tenant, which the callback puts in the
\* place of its own, reads as altered from the start.
ListedAsAsked ==
    \A ctx \in AuditContexts, tenant \in AuditTenants :
        \A e \in ListByFilter(ctx, tenant, Results) :
            (e.result # "unknown") <=> (AsAsked(e.id) /\ server = born[e.id].server)
=============================================================================
