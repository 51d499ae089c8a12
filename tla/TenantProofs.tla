----------------------------- MODULE TenantProofs -----------------------------
(***************************************************************************)
(* Proofs about what goes through the tenant callbacks: the services that  *)
(* read a row and write it back, and the audit log with its entries.       *)
(***************************************************************************)
EXTENDS TenantRows, AuditTrail, TLAPS

-----------------------------------------------------------------------------
(* Services that read and write back                                         *)

ConfigCall == [pc : ConfigCalls, ctx : Contexts, id : ConfigIds, req : Change, row : Config,
               overlapped : BOOLEAN]
CredCall == [pc : {"login"}, ctx : Contexts, id : CredIds, req : 0..MaxCount, row : Cred,
             overlapped : BOOLEAN]

RowsType ==
    /\ configs \in [ConfigIds -> Config \union {NoRow, Gone}]
    /\ creds \in [CredIds -> Cred \union {NoRow, Gone}]
    /\ calls \in [Callers -> {Idle} \union ConfigCall \union CredCall]

\* What a call with a tenant of its own has read belongs to that tenant.
ReadsOwn(c) ==
    wired /\ calls[c] # Idle /\ calls[c].ctx \in OwnContexts
        => calls[c].row.tenant = calls[c].ctx.tenant

\* Unless it was overlapped, the row is still as the call has read it, or gone.
ReadsFresh(c) ==
    /\ calls[c] \in ConfigCall /\ ~calls[c].overlapped
          => configs[calls[c].id] \in {calls[c].row, Gone}
    /\ calls[c] \in CredCall /\ ~calls[c].overlapped
          => creds[calls[c].id] \in {calls[c].row, Gone}

\* The counter a login writes is not below the one it has read.
NoClone(c) == calls[c] \in CredCall => calls[c].req >= calls[c].row.count

RowsInv ==
    /\ RowsType
    /\ \A c \in Callers : ReadsOwn(c) /\ ReadsFresh(c) /\ NoClone(c)

LEMMA Kinds ==
  /\ Idle \notin ConfigCall /\ Idle \notin CredCall
  /\ \A call \in ConfigCall : call \notin CredCall /\ call.pc \in ConfigCalls
  /\ \A call \in CredCall : call \notin ConfigCall /\ call.pc \notin ConfigCalls
BY DEF Idle, ConfigCall, CredCall, ConfigCalls

LEMMA Rows ==
  /\ NoRow \notin Config /\ Gone \notin Config /\ NoRow \notin Cred /\ Gone \notin Cred
  /\ NoRow # Gone
  <1>1. DOMAIN NoRow = {"tenant"} /\ DOMAIN Gone = {"tenant"} /\ NoRow # Gone
    BY DEF NoRow, Gone
  <1>2. \A row \in Config : DOMAIN row = {"tenant", "secret", "active"}
    BY DEF Config
  <1>3. \A row \in Cred : DOMAIN row = {"tenant", "count"}
    BY DEF Cred
  <1>4. {"tenant"} # {"tenant", "secret", "active"} /\ {"tenant"} # {"tenant", "count"}
    OBVIOUS
  <1> QED BY <1>1, <1>2, <1>3, <1>4

\* What the callbacks make of the statements of a context with a tenant.
LEMMA OwnDecisions ==
  ASSUME wired, NEW ctx \in OwnContexts
  PROVE  /\ Decide(ctx, First).where = ctx.tenant /\ Decide(ctx, Delete).where = ctx.tenant
         /\ Decide(ctx, Create("struct", {})).owner = ctx.tenant
         /\ ctx.tenant # Unset
  <1>1. ctx.tenant # Unset
    BY DEF OwnContexts
  <1>2. Decide(ctx, First) = Filter(ctx.tenant) /\ Decide(ctx, Delete) = Filter(ctx.tenant)
    BY <1>1 DEF Decide, RegisterCallback, isTenantAwareType, First, Delete, Stmt, applyTenantFilter
  <1>3. Decide(ctx, Create("struct", {})) = Own(ctx.tenant)
    <2>1. ~upsertsTenantID(Create("struct", {}))
      BY DEF upsertsTenantID, Create, Stmt
    <2>2. applyCreateTenantFilter(ctx) = Own(ctx.tenant) /\ Own(ctx.tenant).error = "none"
      BY <1>1 DEF applyCreateTenantFilter, Own, Pass, Refuse
    <2> QED BY <2>1, <2>2 DEF Decide, RegisterCallback, CreateScope, isTenantAwareType, Create, Stmt
  <1> QED BY <1>1, <1>2, <1>3 DEF Filter, Own, Pass, Refuse

\* A new row is of some tenant.
LEMMA OwnerIsTenant ==
  ASSUME NEW ctx \in Contexts, NEW tenant \in Tenants
  PROVE  Owner(ctx, Create("struct", {}), tenant) \in Tenants
  <1>1. Decide(ctx, Create("struct", {})).owner \in {Unset, ctx.tenant}
    BY DEF Decide, RegisterCallback, CreateScope, applyCreateTenantFilter, Own, Pass, Refuse,
           isTenantAwareType, Create, Stmt
  <1>2. ctx.tenant \in Tenants \union {Unset}
    BY RowsAssumption
  <1> QED BY <1>1, <1>2 DEF Owner

LEMMA RowsInitially == RowsInit => RowsInv
  <1> SUFFICES ASSUME RowsInit PROVE RowsInv
    OBVIOUS
  <1>1. RowsType
    BY DEF RowsInit, RowsType
  <1> QED BY <1>1, Kinds DEF RowsInit, RowsInv, ReadsOwn, ReadsFresh, NoClone

-----------------------------------------------------------------------------
(* Statements that change no call: a row is created, deleted or not touched. *)

\* It is enough that rows which are there stay as they are, or go.
LEMMA RowsKeep ==
  ASSUME RowsInv, RowsType', UNCHANGED <<wired, calls>>,
         \A id \in ConfigIds : configs[id] \in Config \union {Gone} => configs'[id] \in {configs[id], Gone},
         \A id \in CredIds : creds[id] \in Cred \union {Gone} => creds'[id] \in {creds[id], Gone}
  PROVE  RowsInv'
  <1> SUFFICES ASSUME NEW c \in Callers PROVE ReadsOwn(c)' /\ ReadsFresh(c)' /\ NoClone(c)'
    BY DEF RowsInv
  <1>1. ReadsOwn(c)' /\ NoClone(c)'
    BY DEF RowsInv, ReadsOwn, NoClone
  <1>2. calls'[c] = calls[c] /\ ReadsFresh(c)
    BY DEF RowsInv
  <1>3. ASSUME calls[c] \in ConfigCall, ~calls[c].overlapped
        PROVE  configs'[calls[c].id] \in {calls[c].row, Gone}
    <2>1. calls[c].id \in ConfigIds /\ calls[c].row \in Config
      BY <1>3 DEF ConfigCall
    <2>2. configs[calls[c].id] \in {calls[c].row, Gone}
      BY <1>2, <1>3 DEF ReadsFresh
    <2> QED BY <2>1, <2>2
  <1>4. ASSUME calls[c] \in CredCall, ~calls[c].overlapped
        PROVE  creds'[calls[c].id] \in {calls[c].row, Gone}
    <2>1. calls[c].id \in CredIds /\ calls[c].row \in Cred
      BY <1>4 DEF CredCall
    <2>2. creds[calls[c].id] \in {calls[c].row, Gone}
      BY <1>2, <1>4 DEF ReadsFresh
    <2> QED BY <2>1, <2>2
  <1>5. ReadsFresh(c)'
    BY <1>2, <1>3, <1>4 DEF ReadsFresh
  <1> QED BY <1>1, <1>5

LEMMA CreateKeeps ==
  ASSUME RowsInv, NEW ctx \in Contexts, NEW tenant \in Tenants,
         \/ \E id \in ConfigIds : CreateConfig(ctx, id, tenant)
         \/ \E id \in CredIds : CreateCred(ctx, id, tenant)
  PROVE  RowsInv'
  <1> DEFINE owner == Owner(ctx, Create("struct", {}), tenant)
  <1>1. owner \in Tenants
    BY OwnerIsTenant
  <1> HIDE DEF owner
  <1>2. ASSUME NEW id \in ConfigIds, CreateConfig(ctx, id, tenant) PROVE RowsInv'
    <2>1. PICK secret \in Secrets :
            configs' = [configs EXCEPT ![id] =
              [tenant |-> owner, secret |-> secret, active |-> "on"]]
      BY <1>2 DEF CreateConfig, owner
    <2>2. configs[id] = NoRow /\ UNCHANGED <<wired, creds, logged, calls>>
      BY <1>2 DEF CreateConfig
    <2>3. [tenant |-> owner, secret |-> secret, active |-> "on"] \in Config
      BY <1>1 DEF Config
    <2>4. RowsType'
      BY <2>1, <2>2, <2>3 DEF RowsInv, RowsType
    <2>5. \A other \in ConfigIds : configs[other] \in Config \union {Gone} => configs'[other] = configs[other]
      BY <2>1, <2>2, Rows DEF RowsInv, RowsType
    <2> QED BY <2>2, <2>4, <2>5, RowsKeep
  <1>3. ASSUME NEW id \in CredIds, CreateCred(ctx, id, tenant) PROVE RowsInv'
    <2>1. creds' = [creds EXCEPT ![id] = [tenant |-> owner, count |-> 0]]
      BY <1>3 DEF CreateCred, owner
    <2>2. creds[id] = NoRow /\ UNCHANGED <<wired, configs, logged, calls>>
      BY <1>3 DEF CreateCred
    <2>3. [tenant |-> owner, count |-> 0] \in Cred
      BY <1>1, RowsAssumption DEF Cred
    <2>4. RowsType'
      BY <2>1, <2>2, <2>3 DEF RowsInv, RowsType
    <2>5. \A other \in CredIds : creds[other] \in Cred \union {Gone} => creds'[other] = creds[other]
      BY <2>1, <2>2, Rows DEF RowsInv, RowsType
    <2> QED BY <2>2, <2>4, <2>5, RowsKeep
  <1> QED BY <1>2, <1>3

LEMMA DeleteKeeps ==
  ASSUME RowsInv, NEW ctx \in Contexts,
         \/ \E id \in ConfigIds : DeleteConfig(ctx, id)
         \/ \E id \in CredIds : DeleteCred(ctx, id)
         \/ HandleEvent
  PROVE  RowsInv'
  <1>1. ASSUME NEW id \in ConfigIds, DeleteConfig(ctx, id) PROVE RowsInv'
    <2>1. configs' = [configs EXCEPT ![id] = Gone] /\ UNCHANGED <<wired, creds, logged, calls>>
      BY <1>1 DEF DeleteConfig
    <2>2. RowsType'
      BY <2>1 DEF RowsInv, RowsType
    <2>3. \A other \in ConfigIds : configs'[other] \in {configs[other], Gone}
      BY <2>1 DEF RowsInv, RowsType
    <2> QED BY <2>1, <2>2, <2>3, RowsKeep
  <1>2. ASSUME NEW id \in CredIds, DeleteCred(ctx, id) PROVE RowsInv'
    <2>1. creds' = [creds EXCEPT ![id] = Gone] /\ UNCHANGED <<wired, configs, logged, calls>>
      BY <1>2 DEF DeleteCred
    <2>2. RowsType'
      BY <2>1 DEF RowsInv, RowsType
    <2>3. \A other \in CredIds : creds'[other] \in {creds[other], Gone}
      BY <2>1 DEF RowsInv, RowsType
    <2> QED BY <2>1, <2>2, <2>3, RowsKeep
  <1>3. CASE HandleEvent
    BY <1>3, RowsKeep DEF HandleEvent, RowsInv, RowsType
  <1> QED BY <1>1, <1>2, <1>3

-----------------------------------------------------------------------------
(* Calls: what is read is the row itself, of the tenant of the context.      *)

LEMMA ReadIsOwn ==
  ASSUME NEW table, NEW ctx \in Contexts, NEW id, Affects(table, ctx, First, id),
         wired, ctx \in OwnContexts
  PROVE  table[id].tenant = ctx.tenant
BY OwnDecisions DEF Affects

\* One call begins; the others stay.
LEMMA BeginKeeps ==
  ASSUME RowsInv, NEW c \in Callers, NEW call, calls' = [calls EXCEPT ![c] = call],
         UNCHANGED <<wired, configs, creds>>,
         call \in ConfigCall \union CredCall,
         wired /\ call.ctx \in OwnContexts => call.row.tenant = call.ctx.tenant,
         call \in ConfigCall => configs[call.id] = call.row,
         call \in CredCall => creds[call.id] = call.row /\ call.req >= call.row.count
  PROVE  RowsInv'
  <1>1. RowsType'
    BY DEF RowsInv, RowsType
  <1>2. ReadsOwn(c)' /\ ReadsFresh(c)' /\ NoClone(c)'
    <2>1. calls'[c] = call
      BY DEF RowsInv, RowsType
    <2> QED BY <2>1 DEF ReadsOwn, ReadsFresh, NoClone
  <1>3. ASSUME NEW o \in Callers, o # c PROVE ReadsOwn(o)' /\ ReadsFresh(o)' /\ NoClone(o)'
    <2>1. calls'[o] = calls[o]
      BY <1>3 DEF RowsInv, RowsType
    <2> QED BY <2>1 DEF RowsInv, ReadsOwn, ReadsFresh, NoClone
  <1> QED BY <1>1, <1>2, <1>3 DEF RowsInv

LEMMA FindConfigKeeps ==
  ASSUME RowsInv, NEW c \in Callers, NEW kind \in ConfigCalls, NEW ctx \in Contexts,
         NEW id \in ConfigIds, NEW req \in Change, FindConfig(c, kind, ctx, id, req)
  PROVE  RowsInv'
  <1> DEFINE call == Updating(kind, ctx, id, req, configs[id])
  <1>1. calls' = [calls EXCEPT ![c] = call] /\ UNCHANGED <<wired, configs, creds>>
        /\ Affects(configs, ctx, First, id)
    BY DEF FindConfig
  <1>2. configs[id] \in Config
    BY <1>1 DEF Affects, RowsInv, RowsType
  <1>3. call \in ConfigCall /\ call.ctx = ctx /\ call.row = configs[id] /\ call.id = id
    BY <1>2 DEF Updating, ConfigCall
  <1>4. wired /\ ctx \in OwnContexts => configs[id].tenant = ctx.tenant
    BY <1>1, ReadIsOwn
  <1> HIDE DEF call
  <1> QED BY <1>1, <1>3, <1>4, Kinds, BeginKeeps

LEMMA FindCredKeeps ==
  ASSUME RowsInv, NEW c \in Callers, NEW ctx \in Contexts, NEW id \in CredIds,
         NEW new \in 0..MaxCount, FindCred(c, ctx, id, new)
  PROVE  RowsInv'
  <1> DEFINE call == Updating("login", ctx, id, new, creds[id])
  <1>1. calls' = [calls EXCEPT ![c] = call] /\ UNCHANGED <<wired, configs, creds>>
        /\ Affects(creds, ctx, First, id) /\ ~(new < creds[id].count)
    BY DEF FindCred, CloneRejected
  <1>2. creds[id] \in Cred
    BY <1>1 DEF Affects, RowsInv, RowsType
  <1>3. new >= creds[id].count
    BY <1>1, <1>2, RowsAssumption DEF Cred
  <1>4. call \in CredCall /\ call.ctx = ctx /\ call.row = creds[id] /\ call.id = id
        /\ call.req = new
    BY <1>2 DEF Updating, CredCall
  <1>5. wired /\ ctx \in OwnContexts => creds[id].tenant = ctx.tenant
    BY <1>1, ReadIsOwn
  <1> HIDE DEF call
  <1> QED BY <1>1, <1>3, <1>4, <1>5, Kinds, BeginKeeps

\* What Overlap makes of the calls.
LEMMA OverlapKinds ==
  ASSUME RowsType, NEW c \in Callers, NEW kinds, NEW id, NEW o \in Callers
  PROVE  LET new == Overlap(c, kinds, id)[o]
         IN /\ o = c => new = Idle
            /\ o # c /\ calls[o].pc \in kinds /\ calls[o].id = id
                  => new = [calls[o] EXCEPT !.overlapped = TRUE]
            /\ o # c /\ ~(calls[o].pc \in kinds /\ calls[o].id = id) => new = calls[o]
BY DEF Overlap

LEMMA OverlappedCall ==
  ASSUME NEW call \in ConfigCall \union CredCall
  PROVE  LET new == [call EXCEPT !.overlapped = TRUE]
         IN /\ new \in ConfigCall <=> call \in ConfigCall
            /\ new \in CredCall <=> call \in CredCall
            /\ new.ctx = call.ctx /\ new.row = call.row /\ new.req = call.req
            /\ new.id = call.id /\ new.overlapped = TRUE /\ new # Idle
BY DEF ConfigCall, CredCall, ConfigCalls, Idle

\* A call ends; it has written the row `id` of its kind or nothing, and the
\* others that have read the row know.
LEMMA EndKeeps ==
  ASSUME RowsInv, RowsType', NEW c \in Callers, NEW kinds \in {ConfigCalls, {"login"}}, NEW id,
         calls' = Overlap(c, kinds, id), UNCHANGED wired,
         \A other \in ConfigIds : configs'[other] = configs[other] \/ (kinds = ConfigCalls /\ other = id),
         \A other \in CredIds : creds'[other] = creds[other] \/ (kinds = {"login"} /\ other = id)
  PROVE  RowsInv'
  <1> SUFFICES ASSUME NEW o \in Callers PROVE ReadsOwn(o)' /\ ReadsFresh(o)' /\ NoClone(o)'
    BY DEF RowsInv
  <1>1. CASE calls'[o] = Idle
    BY <1>1, Kinds DEF ReadsOwn, ReadsFresh, NoClone
  <1>2. CASE calls'[o] = calls[o] /\ calls[o] # Idle /\ ~(calls[o].pc \in kinds /\ calls[o].id = id)
    <2>1. calls[o] \in ConfigCall => calls[o].id \in ConfigIds /\ calls[o].pc \in ConfigCalls
      BY DEF ConfigCall
    <2>2. calls[o] \in CredCall => calls[o].id \in CredIds /\ calls[o].pc \in {"login"}
      BY DEF CredCall
    <2>3. calls[o] \in ConfigCall => configs'[calls[o].id] = configs[calls[o].id]
      BY <1>2, <2>1
    <2>4. calls[o] \in CredCall => creds'[calls[o].id] = creds[calls[o].id]
      BY <1>2, <2>2
    <2> QED BY <1>2, <2>3, <2>4 DEF RowsInv, ReadsOwn, ReadsFresh, NoClone
  <1>3. CASE calls[o] # Idle /\ calls'[o] = [calls[o] EXCEPT !.overlapped = TRUE]
    <2>1. calls[o] \in ConfigCall \union CredCall
      BY <1>3 DEF RowsInv, RowsType
    <2>2. /\ calls'[o] \in CredCall <=> calls[o] \in CredCall
          /\ calls'[o].ctx = calls[o].ctx /\ calls'[o].row = calls[o].row
          /\ calls'[o].req = calls[o].req /\ calls'[o].overlapped = TRUE
      BY <1>3, <2>1, OverlappedCall
    <2> QED BY <1>3, <2>2 DEF RowsInv, ReadsOwn, ReadsFresh, NoClone
  <1>4. \/ calls'[o] = Idle
        \/ calls[o] # Idle /\ calls'[o] = [calls[o] EXCEPT !.overlapped = TRUE]
        \/ calls'[o] = calls[o] /\ calls[o] # Idle /\ ~(calls[o].pc \in kinds /\ calls[o].id = id)
    <2>1. Idle.pc \notin kinds
      BY DEF Idle, ConfigCalls
    <2> QED BY <2>1, OverlapKinds DEF RowsInv
  <1> QED BY <1>1, <1>2, <1>3, <1>4

\* A call that affects nothing ends as well.
LEMMA GiveUpKeeps ==
  ASSUME RowsInv, NEW c \in Callers, calls' = [calls EXCEPT ![c] = Idle],
         UNCHANGED <<wired, configs, creds>>
  PROVE  RowsInv'
  <1>1. RowsType'
    BY DEF RowsInv, RowsType
  <1>2. \A o \in Callers : calls'[o] = Idle \/ calls'[o] = calls[o]
    BY DEF RowsInv, RowsType
  <1> QED BY <1>1, <1>2, Kinds DEF RowsInv, ReadsOwn, ReadsFresh, NoClone

LEMMA OverlapType ==
  ASSUME RowsType, NEW c \in Callers, NEW kinds, NEW id
  PROVE  Overlap(c, kinds, id) \in [Callers -> {Idle} \union ConfigCall \union CredCall]
  <1> SUFFICES ASSUME NEW o \in Callers
               PROVE  Overlap(c, kinds, id)[o] \in {Idle} \union ConfigCall \union CredCall
    BY DEF Overlap
  <1>1. calls[o] \in {Idle} \union ConfigCall \union CredCall
    BY DEF RowsType
  <1>2. [Idle EXCEPT !.overlapped = TRUE] = Idle
    BY DEF Idle
  <1>3. [calls[o] EXCEPT !.overlapped = TRUE] \in {Idle} \union ConfigCall \union CredCall
    BY <1>1, <1>2, OverlappedCall
  <1>4. Overlap(c, kinds, id)[o] \in {Idle, calls[o], [calls[o] EXCEPT !.overlapped = TRUE]}
    BY DEF Overlap
  <1> QED BY <1>1, <1>3, <1>4

LEMMA MergeIsConfig ==
  ASSUME NEW row \in Config, NEW req \in Change, NEW tenant \in Tenants,
         NEW merged, merged = [Merge(row, req) EXCEPT !.tenant = tenant]
  PROVE  /\ merged \in Config /\ merged.tenant = tenant
         /\ req.secret = Nil => merged.secret = row.secret
         /\ req.active = Nil => merged.active = row.active
BY DEF Merge, Config, Change

LEMMA ConfigWritten ==
  ASSUME RowsInv, NEW c \in Callers, WriteConfig(c)
  PROVE  /\ calls[c] \in ConfigCall /\ UNCHANGED <<wired, creds, logged>>
         /\ \/ calls' = [calls EXCEPT ![c] = Idle] /\ UNCHANGED configs
            \/ LET id == calls[c].id
               IN /\ calls' = Overlap(c, ConfigCalls, id)
                  /\ configs[id] \in Config
                  /\ configs' = [configs EXCEPT ![id] =
                       [Merge(calls[c].row, calls[c].req) EXCEPT !.tenant = configs[id].tenant]]
  <1>1. calls[c].pc \in ConfigCalls
    BY DEF WriteConfig
  <1>2. calls[c] \in ConfigCall
    BY <1>1, Kinds DEF RowsInv, RowsType, Idle, ConfigCalls
  <1>3. calls[c].id \in ConfigIds
    BY <1>2 DEF ConfigCall
  <1> QED BY <1>2, <1>3 DEF WriteConfig, Affects, RowsInv, RowsType

LEMMA CredWritten ==
  ASSUME RowsInv, NEW c \in Callers, WriteCred(c)
  PROVE  /\ calls[c] \in CredCall /\ UNCHANGED <<wired, configs, logged>>
         /\ \/ calls' = [calls EXCEPT ![c] = Idle] /\ UNCHANGED creds
            \/ LET id == calls[c].id
               IN /\ calls' = Overlap(c, {"login"}, id)
                  /\ creds[id] \in Cred
                  /\ creds' = IF calls[c].req = 0 THEN creds
                              ELSE [creds EXCEPT ![id].count = calls[c].req]
  <1>1. calls[c].pc = "login"
    BY DEF WriteCred
  <1>2. calls[c] \in CredCall
    BY <1>1, Kinds DEF RowsInv, RowsType, Idle, ConfigCalls
  <1>3. calls[c].id \in CredIds
    BY <1>2 DEF CredCall
  <1> QED BY <1>2, <1>3 DEF WriteCred, Affects, RowsInv, RowsType

LEMMA WriteConfigKeeps ==
  ASSUME RowsInv, NEW c \in Callers, WriteConfig(c)
  PROVE  RowsInv'
  <1> DEFINE id == calls[c].id
  <1>1. CASE calls' = [calls EXCEPT ![c] = Idle] /\ UNCHANGED configs
    BY <1>1, ConfigWritten, GiveUpKeeps
  <1>2. CASE /\ calls' = Overlap(c, ConfigCalls, id)
             /\ configs[id] \in Config
             /\ configs' = [configs EXCEPT ![id] =
                  [Merge(calls[c].row, calls[c].req) EXCEPT !.tenant = configs[id].tenant]]
    <2>1. calls[c].row \in Config /\ calls[c].req \in Change /\ configs[id].tenant \in Tenants
          /\ id \in ConfigIds
      BY <1>2, ConfigWritten DEF ConfigCall, Config
    <2>2. [Merge(calls[c].row, calls[c].req) EXCEPT !.tenant = configs[id].tenant] \in Config
      BY <2>1, MergeIsConfig
    <2>3. RowsType'
      BY <1>2, <2>2, ConfigWritten, OverlapType DEF RowsInv, RowsType
    <2>4. \A other \in ConfigIds : configs'[other] = configs[other] \/ other = id
      BY <1>2 DEF RowsInv, RowsType
    <2> HIDE DEF id
    <2> QED BY <1>2, <2>3, <2>4, ConfigWritten, EndKeeps
  <1> QED BY <1>1, <1>2, ConfigWritten

LEMMA WriteCredKeeps ==
  ASSUME RowsInv, NEW c \in Callers, WriteCred(c)
  PROVE  RowsInv'
  <1> DEFINE id == calls[c].id
  <1>1. CASE calls' = [calls EXCEPT ![c] = Idle] /\ UNCHANGED creds
    BY <1>1, CredWritten, GiveUpKeeps
  <1>2. CASE /\ calls' = Overlap(c, {"login"}, id)
             /\ creds[id] \in Cred
             /\ creds' = IF calls[c].req = 0 THEN creds
                         ELSE [creds EXCEPT ![id].count = calls[c].req]
    <2>1. calls[c].req \in 0..MaxCount
      BY CredWritten DEF CredCall
    <2>2. [creds[id] EXCEPT !.count = calls[c].req] \in Cred
      BY <1>2, <2>1 DEF Cred
    <2>3. RowsType'
      BY <1>2, <2>2, CredWritten, OverlapType DEF RowsInv, RowsType
    <2>4. \A other \in CredIds : creds'[other] = creds[other] \/ other = id
      BY <1>2 DEF RowsInv, RowsType
    <2> HIDE DEF id
    <2> QED BY <1>2, <2>3, <2>4, CredWritten, EndKeeps
  <1> QED BY <1>1, <1>2, CredWritten

LEMMA RowsStep == RowsInv /\ [RowsNext]_rowsVars => RowsInv'
  <1> SUFFICES ASSUME RowsInv, [RowsNext]_rowsVars PROVE RowsInv'
    OBVIOUS
  <1>1. CASE UNCHANGED rowsVars
    BY <1>1, RowsKeep DEF rowsVars, RowsInv, RowsType
  <1>2. ASSUME NEW c \in Callers, NEW ctx \in Contexts, NEW id \in ConfigIds,
               ConfigStep(c, ctx, id)
        PROVE  RowsInv'
    <2>1. CASE Update(c, ctx, id)
      BY <2>1, FindConfigKeeps DEF Update, ConfigCalls
    <2>2. CASE RotateSecret(c, ctx, id)
      BY <2>2, FindConfigKeeps DEF RotateSecret, ConfigCalls, Change
    <2> QED BY <1>2, <2>1, <2>2, CreateKeeps, DeleteKeeps DEF ConfigStep
  <1>3. ASSUME NEW c \in Callers, NEW ctx \in Contexts, NEW id \in CredIds, CredStep(c, ctx, id)
        PROVE  RowsInv'
    BY <1>3, CreateKeeps, DeleteKeeps, FindCredKeeps DEF CredStep
  <1>4. CASE HandleEvent
    BY <1>4, RowsKeep DEF HandleEvent, RowsInv, RowsType
  <1> QED BY <1>1, <1>2, <1>3, <1>4, WriteConfigKeeps, WriteCredKeeps DEF RowsNext

-----------------------------------------------------------------------------
(* The two properties.                                                       *)

\* A row that is there stays as it is, or one of the two writes changes it.
LEMMA OnlyWritesChangeRows ==
  ASSUME RowsInv, RowsNext
  PROVE  /\ \A id \in ConfigIds :
              configs[id] \in Config /\ configs'[id] \in Config /\ configs'[id] # configs[id]
                  => \E c \in Callers : WriteConfig(c) /\ calls[c].id = id
         /\ \A id \in CredIds :
              creds[id] \in Cred /\ creds'[id] \in Cred /\ creds'[id] # creds[id]
                  => \E c \in Callers : WriteCred(c) /\ calls[c].id = id
  <1>1. ASSUME NEW c \in Callers, NEW ctx \in Contexts, NEW id \in ConfigIds, ConfigStep(c, ctx, id)
        PROVE  UNCHANGED creds /\ \A o \in ConfigIds :
                  configs[o] \in Config /\ configs'[o] \in Config => configs'[o] = configs[o]
    BY <1>1, Rows DEF ConfigStep, CreateConfig, Update, RotateSecret, FindConfig, DeleteConfig,
                      RowsInv, RowsType
  <1>2. ASSUME NEW c \in Callers, NEW ctx \in Contexts, NEW id \in CredIds, CredStep(c, ctx, id)
        PROVE  UNCHANGED configs /\ \A o \in CredIds :
                  creds[o] \in Cred /\ creds'[o] \in Cred => creds'[o] = creds[o]
    BY <1>2, Rows DEF CredStep, CreateCred, FindCred, DeleteCred, RowsInv, RowsType
  <1>3. ASSUME NEW c \in Callers, WriteConfig(c)
        PROVE  UNCHANGED creds /\ \A o \in ConfigIds : configs'[o] # configs[o] => calls[c].id = o
    BY <1>3, ConfigWritten DEF RowsInv, RowsType
  <1>4. ASSUME NEW c \in Callers, WriteCred(c)
        PROVE  UNCHANGED configs /\ \A o \in CredIds : creds'[o] # creds[o] => calls[c].id = o
    BY <1>4, CredWritten DEF RowsInv, RowsType
  <1>5. HandleEvent => UNCHANGED <<configs, creds>>
    BY DEF HandleEvent
  <1> QED BY <1>1, <1>2, <1>3, <1>4, <1>5 DEF RowsNext

LEMMA TenantsStay ==
  ASSUME RowsInv, RowsNext
  PROVE  /\ \A id \in ConfigIds : configs[id] \in Config /\ configs'[id] \in Config
                => configs'[id].tenant = configs[id].tenant
         /\ \A id \in CredIds : creds[id] \in Cred /\ creds'[id] \in Cred
                => creds'[id].tenant = creds[id].tenant
  <1>1. ASSUME NEW c \in Callers, WriteConfig(c), calls[c].id \in ConfigIds, configs[calls[c].id] \in Config
        PROVE  configs'[calls[c].id].tenant = configs[calls[c].id].tenant
    <2>1. calls[c].row \in Config /\ calls[c].req \in Change /\ configs[calls[c].id].tenant \in Tenants
      BY <1>1, ConfigWritten DEF ConfigCall, Config
    <2>2. CASE UNCHANGED configs
      BY <2>2
    <2>3. CASE configs' = [configs EXCEPT ![calls[c].id] =
                 [Merge(calls[c].row, calls[c].req) EXCEPT !.tenant = configs[calls[c].id].tenant]]
      <3>1. configs'[calls[c].id] =
              [Merge(calls[c].row, calls[c].req) EXCEPT !.tenant = configs[calls[c].id].tenant]
        BY <1>1, <2>3 DEF RowsInv, RowsType
      <3> QED BY <2>1, <3>1, MergeIsConfig
    <2> QED BY <1>1, <2>2, <2>3, ConfigWritten
  <1>2. ASSUME NEW c \in Callers, WriteCred(c), calls[c].id \in CredIds, creds[calls[c].id] \in Cred
        PROVE  creds'[calls[c].id].tenant = creds[calls[c].id].tenant
    <2>1. \A count : [creds[calls[c].id] EXCEPT !.count = count].tenant = creds[calls[c].id].tenant
      BY <1>2 DEF Cred
    <2>2. CASE UNCHANGED creds
      BY <2>2
    <2>3. CASE creds' = [creds EXCEPT ![calls[c].id].count = calls[c].req]
      <3>1. creds'[calls[c].id] = [creds[calls[c].id] EXCEPT !.count = calls[c].req]
        BY <1>2, <2>3 DEF RowsInv, RowsType
      <3> QED BY <2>1, <3>1
    <2> QED BY <1>2, <2>2, <2>3, CredWritten
  <1> QED BY <1>1, <1>2, OnlyWritesChangeRows

\* For any callers, rows, tenants and contexts, with the callbacks registered
\* each tenant keeps to its rows.
THEOREM TenantsKeepApart == RowsSpec => TenantIsolation
  <1>1. ASSUME RowsInv, RowsInv', [RowsNext]_rowsVars, wired
        PROVE  /\ \A ctx \in OwnContexts, id \in ConfigIds :
                     /\ DeleteConfig(ctx, id) => configs[id].tenant = ctx.tenant
                     /\ \A tenant \in Tenants :
                           CreateConfig(ctx, id, tenant) => configs'[id].tenant = ctx.tenant
               /\ \A c \in Callers :
                     calls'[c] # Idle /\ calls'[c].ctx \in OwnContexts
                         => calls'[c].row.tenant = calls'[c].ctx.tenant
               /\ \A id \in ConfigIds :
                     configs[id] \in Config /\ configs'[id] \in Config
                         => configs'[id].tenant = configs[id].tenant
               /\ \A id \in CredIds :
                     creds[id] \in Cred /\ creds'[id] \in Cred
                         => creds'[id].tenant = creds[id].tenant
    <2>1. ASSUME NEW ctx \in OwnContexts, NEW id \in ConfigIds, DeleteConfig(ctx, id)
          PROVE  configs[id].tenant = ctx.tenant
      BY <1>1, <2>1, OwnDecisions DEF DeleteConfig, Affects
    <2>2. ASSUME NEW ctx \in OwnContexts, NEW id \in ConfigIds, NEW tenant \in Tenants,
                 CreateConfig(ctx, id, tenant)
          PROVE  configs'[id].tenant = ctx.tenant
      <3>1. Owner(ctx, Create("struct", {}), tenant) = ctx.tenant
        BY <1>1, OwnDecisions DEF Owner
      <3> QED BY <1>1, <2>2, <3>1 DEF CreateConfig, RowsInv, RowsType
    <2>3. wired' = wired
      BY <1>1, ConfigWritten, CredWritten
         DEF rowsVars, RowsNext, ConfigStep, CredStep, HandleEvent, CreateConfig, Update, RotateSecret,
             FindConfig, DeleteConfig, CreateCred, FindCred, DeleteCred
    <2>4. ASSUME NEW c \in Callers, calls'[c] # Idle, calls'[c].ctx \in OwnContexts
          PROVE  calls'[c].row.tenant = calls'[c].ctx.tenant
      BY <1>1, <2>3, <2>4 DEF RowsInv, ReadsOwn
    <2>5. CASE RowsNext
      BY <1>1, <2>1, <2>2, <2>4, <2>5, TenantsStay
    <2>6. CASE UNCHANGED rowsVars
      BY <2>1, <2>2, <2>4, <2>6 DEF rowsVars
    <2> QED BY <1>1, <2>5, <2>6
  <1> QED BY <1>1, RowsInitially, RowsStep, PTL DEF RowsSpec, TenantIsolation

LEMMA EndsByWriting ==
  ASSUME RowsInv, RowsNext, NEW c \in Callers, calls[c] # Idle, calls'[c] = Idle
  PROVE  WriteConfig(c) \/ WriteCred(c)
  <1>0. calls[c] \in ConfigCall \union CredCall
    BY DEF RowsInv, RowsType
  <1>1. ASSUME NEW o \in Callers, NEW ctx \in Contexts, NEW id \in ConfigIds, ConfigStep(o, ctx, id)
        PROVE  calls'[c] = calls[c]
    BY <1>1, <1>0 DEF ConfigStep, CreateConfig, Update, RotateSecret, FindConfig, DeleteConfig, RowsInv, RowsType
  <1>2. ASSUME NEW o \in Callers, NEW ctx \in Contexts, NEW id \in CredIds, CredStep(o, ctx, id)
        PROVE  calls'[c] = calls[c]
    BY <1>2, <1>0 DEF CredStep, CreateCred, FindCred, DeleteCred, RowsInv, RowsType
  <1>3. ASSUME NEW o \in Callers, o # c, NEW kinds, NEW id, calls' = Overlap(o, kinds, id)
        PROVE  FALSE
    <2>1. calls'[c] \in {calls[c], [calls[c] EXCEPT !.overlapped = TRUE]}
      BY <1>3 DEF Overlap
    <2> QED BY <1>0, <2>1, OverlappedCall
  <1>4. ASSUME NEW o \in Callers, o # c, WriteConfig(o) \/ WriteCred(o) PROVE FALSE
    <2>1. calls' # [calls EXCEPT ![o] = Idle]
      BY <1>4 DEF RowsInv, RowsType
    <2>2. CASE WriteConfig(o)
      BY <1>3, <1>4, <2>1, <2>2, ConfigWritten
    <2>3. CASE WriteCred(o)
      <3>1. calls' = Overlap(o, {"login"}, calls[o].id)
        BY <2>1, <2>3, CredWritten
      <3> QED BY <1>3, <1>4, <3>1
    <2> QED BY <1>4, <2>2, <2>3
  <1>5. HandleEvent => calls'[c] = calls[c]
    BY DEF HandleEvent
  <1> QED BY <1>1, <1>2, <1>4, <1>5 DEF RowsNext

\* For any callers, rows and counters, only an overlap loses a change.
THEOREM OverlapsAloneLose == RowsSpec => OnlyOverlapsLose
  <1>1. ASSUME RowsInv, [RowsNext]_rowsVars, NEW c \in Callers,
               calls[c] # Idle, calls'[c] = Idle, ~calls[c].overlapped
        PROVE  IF calls[c].pc = "login"
               THEN creds'[calls[c].id] \in Cred
                        => creds'[calls[c].id].count >= creds[calls[c].id].count
               ELSE \A col \in {"secret", "active"} :
                       configs'[calls[c].id] \in Config
                         /\ configs'[calls[c].id][col] # configs[calls[c].id][col]
                           => calls[c].req[col] # Nil
    <2> DEFINE id == calls[c].id
    <2>1. RowsNext
      BY <1>1 DEF rowsVars
    <2>2. CASE WriteConfig(c)
      <3>1. calls[c] \in ConfigCall /\ calls[c].pc # "login" /\ id \in ConfigIds
            /\ calls[c].row \in Config /\ calls[c].req \in Change
        BY <1>1, <2>2, ConfigWritten DEF ConfigCall, ConfigCalls
      <3>2. configs[id] \in {calls[c].row, Gone}
        BY <1>1, <3>1 DEF RowsInv, ReadsFresh
      <3>3. CASE UNCHANGED configs
        BY <3>1, <3>3
      <3>4. CASE /\ configs[id] \in Config
                 /\ configs' = [configs EXCEPT ![id] =
                      [Merge(calls[c].row, calls[c].req) EXCEPT !.tenant = configs[id].tenant]]
        <4>1. configs[id] = calls[c].row /\ configs[id].tenant \in Tenants
          BY <3>2, <3>4, Rows DEF Config
        <4>2. configs'[id] = [Merge(calls[c].row, calls[c].req) EXCEPT !.tenant = configs[id].tenant]
          BY <1>1, <3>1, <3>4 DEF RowsInv, RowsType
        <4>3. /\ calls[c].req.secret = Nil => configs'[id].secret = calls[c].row.secret
              /\ calls[c].req.active = Nil => configs'[id].active = calls[c].row.active
          BY <3>1, <4>1, <4>2 DEF Merge, Config, Change
        <4> QED BY <3>1, <4>1, <4>3
      <3> QED BY <1>1, <2>2, <3>3, <3>4, ConfigWritten
    <2>3. CASE WriteCred(c)
      <3>1. calls[c] \in CredCall /\ calls[c].pc = "login" /\ id \in CredIds
            /\ calls[c].row \in Cred /\ calls[c].req \in 0..MaxCount
        BY <1>1, <2>3, CredWritten DEF CredCall
      <3>2. creds[id] \in {calls[c].row, Gone} /\ calls[c].req >= calls[c].row.count
        BY <1>1, <3>1 DEF RowsInv, ReadsFresh, NoClone
      <3>3. CASE UNCHANGED creds
        BY <3>1, <3>3, RowsAssumption DEF Cred
      <3>4. CASE creds[id] \in Cred /\ creds' = [creds EXCEPT ![id].count = calls[c].req]
        <4>1. creds[id] = calls[c].row
          BY <3>2, <3>4, Rows
        <4>2. creds'[id].count = calls[c].req
          BY <1>1, <3>1, <3>4 DEF RowsInv, RowsType, Cred
        <4> QED BY <3>1, <3>2, <4>1, <4>2
      <3> QED BY <1>1, <2>3, <3>3, <3>4, CredWritten
    <2> QED BY <1>1, <2>1, <2>2, <2>3, EndsByWriting
  <1>2. RowsInv /\ [RowsNext]_rowsVars =>
          \A c \in Callers :
              LET call == calls[c]
              IN call # Idle /\ calls'[c] = Idle /\ ~call.overlapped =>
                    IF call.pc = "login"
                    THEN creds'[call.id] \in Cred => creds'[call.id].count >= creds[call.id].count
                    ELSE \A col \in {"secret", "active"} :
                            configs'[call.id] \in Config /\ configs'[call.id][col] # configs[call.id][col]
                                => call.req[col] # Nil
    BY <1>1
  <1> QED BY <1>2, RowsInitially, RowsStep, PTL DEF RowsSpec, OnlyOverlapsLose

-----------------------------------------------------------------------------
(* The audit log                                                             *)

\* An entry has a born record once it is there, and the signature of what its
\* caller asked for by the server of that moment.
Signed(id) ==
    trail[id] # NoEntry =>
        /\ born[id].server \in Servers
        /\ trail[id] = [fields |-> trail[id].fields,
                        signature |-> ComputeSignature(born[id].server, born[id].asked)]

TrailInv ==
    /\ server \in Servers
    /\ trail = [id \in EntryIds |-> trail[id]] /\ born = [id \in EntryIds |-> born[id]]
    /\ \A id \in EntryIds : Signed(id)

LEMMA TrailInitially == AuditInit => TrailInv
BY DEF AuditInit, TrailInv, Signed

\* Whatever the callback makes of the tenant, the signature stays.
LEMMA StoredKeepsSignature ==
  ASSUME NEW ctx, NEW fields, NEW signature, NEW row,
         row = Stored(ctx, [fields |-> fields, signature |-> signature])
  PROVE  row = [fields |-> row.fields, signature |-> signature]
BY DEF Stored

LEMMA BatchKeeps ==
  ASSUME TrailInv, NEW ctx, NEW ids \in SUBSET EntryIds, BatchCreate(ctx, ids)
  PROVE  TrailInv'
  <1>1. PICK in \in [ids -> Inputs] :
          /\ trail' = [id \in EntryIds |-> IF id \in ids THEN Stored(ctx, NewEntry(in[id])) ELSE trail[id]]
          /\ born' = [id \in EntryIds |->
                    IF id \in ids
                    THEN [server |-> server, asked |-> SanitizeAuditLog(in[id])] ELSE born[id]]
    BY DEF BatchCreate
  <1>2. server' = server /\ server \in Servers
    BY DEF BatchCreate, TrailInv
  <1>3. ASSUME NEW id \in EntryIds PROVE Signed(id)'
    <2>1. CASE id \in ids
      <3>1. /\ trail'[id] = Stored(ctx, NewEntry(in[id]))
            /\ born'[id] = [server |-> server, asked |-> SanitizeAuditLog(in[id])]
        BY <1>1, <2>1
      <3>2. NewEntry(in[id]) =
              [fields |-> SanitizeAuditLog(in[id]),
               signature |-> ComputeSignature(server, SanitizeAuditLog(in[id]))]
        BY DEF NewEntry
      <3>3. trail'[id] = [fields |-> trail'[id].fields,
                          signature |-> ComputeSignature(server, SanitizeAuditLog(in[id]))]
        BY <3>1, <3>2, StoredKeepsSignature
      <3> QED BY <3>1, <3>3, <1>2 DEF Signed, ComputeSignature
    <2>2. CASE id \notin ids
      BY <1>1, <2>2 DEF TrailInv, Signed, ComputeSignature
    <2> QED BY <2>1, <2>2
  <1> QED BY <1>1, <1>2, <1>3 DEF TrailInv

LEMMA CorruptKeeps ==
  ASSUME TrailInv, NEW id \in EntryIds, NEW column, NEW value, Corrupt(id, column, value)
  PROVE  TrailInv'
  <1> DEFINE fields == trail[id].fields
  <1>1. trail[id] = [fields |-> fields,
                     signature |-> ComputeSignature(born[id].server, born[id].asked)]
    BY DEF Corrupt, TrailInv, Signed
  <1>2. trail' = [trail EXCEPT ![id].fields[column] = value] /\ UNCHANGED <<server, born>>
    BY DEF Corrupt
  <1>3. trail'[id] = [fields |-> [fields EXCEPT ![column] = value],
                      signature |-> ComputeSignature(born[id].server, born[id].asked)]
    BY <1>1, <1>2 DEF TrailInv
  <1>4. \A other \in EntryIds \ {id} : trail'[other] = trail[other]
    BY <1>2 DEF TrailInv
  <1>5. Signed(id)'
    BY <1>2, <1>3 DEF Corrupt, TrailInv, Signed, ComputeSignature
  <1>6. \A other \in EntryIds \ {id} : Signed(other)'
    BY <1>2, <1>4 DEF TrailInv, Signed, ComputeSignature
  <1> QED BY <1>2, <1>5, <1>6 DEF TrailInv

LEMMA TrailStep == TrailInv /\ [AuditNext]_auditVars => TrailInv'
  <1> SUFFICES ASSUME TrailInv, [AuditNext]_auditVars PROVE TrailInv'
    OBVIOUS
  <1>1. CASE UNCHANGED auditVars
    BY <1>1 DEF auditVars, TrailInv, Signed, ComputeSignature
  <1>2. CASE Reconfigure
    BY <1>2 DEF Reconfigure, TrailInv, Signed, ComputeSignature
  <1>3. ASSUME NEW id \in EntryIds, CorruptSome(id) PROVE TrailInv'
    BY <1>3, CorruptKeeps DEF CorruptSome
  <1> QED BY <1>1, <1>2, <1>3, BatchKeeps DEF AuditNext

\* ListByFilter tells altered entries from others, for any entries, servers
\* and contexts: the signature NewEntry made stays with the row.
THEOREM ListingIsHonest == AuditSpec => []ListedAsAsked
  <1>1. ASSUME TrailInv PROVE ListedAsAsked
    <2> SUFFICES ASSUME NEW ctx \in AuditContexts, NEW tenant \in AuditTenants,
                        NEW e \in ListByFilter(ctx, tenant, Results)
                 PROVE  (e.result # "unknown") <=> (AsAsked(e.id) /\ server = born[e.id].server)
      BY DEF ListedAsAsked
    <2>1. PICK id \in EntryIds :
            /\ trail[id] # NoEntry /\ trail[id].fields.result \in Results
            /\ e = [id |-> id, result |-> IF verifyLogSignature(trail[id])
                                          THEN trail[id].fields.result ELSE "unknown"]
      BY DEF ListByFilter
    <2>2. born[id].server \in Servers /\ server \in Servers
          /\ trail[id].signature = ComputeSignature(born[id].server, born[id].asked)
      BY <1>1, <2>1 DEF TrailInv, Signed
    <2>3. server = born[id].server <=>
            server.key = born[id].server.key /\ server.zone = born[id].server.zone
      BY <2>2, AuditAssumption
    <2>4. verifyLogSignature(trail[id]) <=> (AsAsked(id) /\ server = born[id].server)
      BY <2>2, <2>3 DEF verifyLogSignature, ComputeSignature, AsAsked
    <2>5. (e.result # "unknown") <=> verifyLogSignature(trail[id])
      BY <2>1 DEF Results
    <2> QED BY <2>1, <2>4, <2>5
  <1> QED BY <1>1, TrailInitially, TrailStep, PTL DEF AuditSpec
=============================================================================
