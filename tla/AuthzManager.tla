---------------------------- MODULE AuthzManager ----------------------------
(***************************************************************************)
(* The authorization manager of one server instance:                       *)
(* core/internal/authz/authz.go with boot/authz.go, its enforcer, its      *)
(* cached inputs, its tables and the goroutines that call it: service      *)
(* calls, the three event subscriptions and the start of the process.      *)
(*                                                                         *)
(* Other instances appear as commits to the database and as the events     *)
(* they publish, in any order of publication; each topic is delivered in   *)
(* order, and the bus may lose an event.  Instances share nothing else, so *)
(* what holds here holds for each of them.                                 *)
(*                                                                         *)
(* A grant is a user-role assignment (user, role, tenant).  An operation   *)
(* of the enforcer is atomic; whether it also writes the policy table is   *)
(* decided by the enforcer's switch for saving at that moment.             *)
(***************************************************************************)
EXTENDS RoleRegistry, Sequences, SequencesExt

CONSTANTS
    Grants,           \* user-role assignments
    storedGrants,     \* those in the database at first
    DefSets,          \* sets of role definitions the table may hold
    Policies,         \* permission rules (p)
    defaultPolicies,  \* those seeded into an empty table
    Callers,          \* goroutines of service calls
    None,             \* nobody
    QueueLimit,       \* events a subscription's channel holds
    MaxCommits        \* bound: commits to the role tables

Topics == {"role.assign", "role.revoke", "role.changed"}
Boot == "boot"
Threads == Callers \union Topics \union {Boot}

ASSUME AuthzAssumption ==
    /\ \A defs \in DefSets : defs \subseteq Definition
    /\ storedGrants \subseteq Grants /\ IsFiniteSet(storedGrants)
    /\ Grants \intersect (Roles \X Roles \X Domains) = {}  \* users are not named like roles
    /\ defaultPolicies \subseteq Policies /\ defaultPolicies # {}
    /\ Callers \intersect (Topics \union {Boot}) = {}
    /\ None \notin Threads /\ None \notin 0..MaxCommits
    /\ QueueLimit \in Nat \ {0} /\ MaxCommits \in Nat

VARIABLES
    db,        \* role tables of the database: [grants, defs, commits]
    unsent,    \* events other instances have yet to publish
    queue,     \* [Topics -> Seq(Event)], events on their way to this instance
    subs,      \* topics this instance is subscribed to
    p,         \* permission rules in the enforcer
    g,         \* grouping rules in the enforcer: inheritance and grants
    pTable,    \* casbin_rule: rows of permission rules
    gTable,    \* casbin_rule: rows of grouping rules
    autoSave,  \* Enforcer.autoSave
    mu,        \* owner of AuthzManager.mu
    lastDefs,  \* AuthzManager.lastDefs; roleRegistry holds its rules
    cache,     \* AuthzManager.lastAssignments
    call,      \* [Threads -> Call]
    raced,     \* grants whose calls overlapped a conflicting one or a failing rebuild,
               \* or that a list made by such calls names twice
    unsaved,   \* policies changed while saving was switched off
    cut,       \* the last rebuild stopped half way
    clean      \* rebuilt from the database with nothing going on, no commit since

tables == <<pTable, gTable>>
cached == <<lastDefs, cache>>
bus == <<queue, subs>>
world == <<db, unsent>>
ghosts == <<raced, unsaved, cut, clean>>
vars == <<world, bus, p, g, tables, autoSave, mu, cached, call, ghosts>>

Rule == (Roles \X Roles \X Domains) \union Grants

Event == [topic : Topics, grant : Grants \union {None}, local : BOOLEAN]

\* One call in progress.  list is the slice of assignments it was given, and
\* shared tells that its array is the one of lastAssignments; asOf is the commit
\* it has seen if nothing else was going on then.
Call == [pc : {"idle", "save", "rule", "cache", "restore", "publish", "roles",
               "assignments", "load", "read", "lock", "clear", "add", "unlock",
               "policies", "subscribe", "down"},
         op : {"none", "assign", "revoke", "rebuild", "registry", "policy"},
         grant : Grants \union {None}, defs : DefSets \union {{}}, list : Seq(Grants),
         todo : SUBSET Rule, shared : BOOLEAN, asOf : (0..MaxCommits) \union {None},
         failed : BOOLEAN]

Idle == [pc |-> "idle", op |-> "none", grant |-> None, defs |-> {}, list |-> <<>>,
         todo |-> {}, shared |-> FALSE, asOf |-> None, failed |-> FALSE]

At(t, pc) == call[t].pc = pc

InFlight == {t \in Threads : ~At(t, "idle")}

Up == At(Boot, "idle")

\* The process serves calls and nothing is in progress.
Quiet == InFlight = {}

\* Some slice with the rows of a table, in the order the database likes.
Listings(grants) == {s \in [1..Cardinality(grants) -> grants] :
                        {s[i] : i \in DOMAIN s} = grants}

GrantsIn(list) == {list[i] : i \in DOMAIN list}

Init ==
    /\ \E defs \in DefSets :
          ~LoadFails(defs) /\ db = [grants |-> storedGrants, defs |-> defs, commits |-> 0]
    /\ unsent = {} /\ queue = [topic \in Topics |-> <<>>] /\ subs = {}
    /\ p = {} /\ g = {} /\ pTable = {} /\ gTable = {}
    /\ autoSave = TRUE /\ mu = None
    /\ lastDefs = {} /\ cache = <<>>
    /\ call = [t \in Threads |-> IF t = Boot THEN [Idle EXCEPT !.pc = "load"] ELSE Idle]
    /\ raced = {} /\ unsaved = {} /\ cut = FALSE /\ clean = FALSE

-----------------------------------------------------------------------------
(* The bus and the other instances *)

\* What a publication on a topic does to the queue: the channel is full, the
\* bus loses it, or it arrives.
Arrives(event) ==
    \/ UNCHANGED queue
    \/ /\ event.topic \in subs /\ Len(queue[event.topic]) < QueueLimit
       /\ queue' = [queue EXCEPT ![event.topic] = Append(@, event)]

\* Every commit ends the claim that this instance agrees with the database.
Commit(grants, defs) ==
    /\ db.commits < MaxCommits
    /\ db' = [grants |-> grants, defs |-> defs, commits |-> db.commits + 1]
    /\ clean' = FALSE

Remote(topic, u) == [topic |-> topic, grant |-> u, n |-> db.commits]

\* A changed definition need not change the inheritance.
RemoteCommit ==
    /\ \/ \E u \in Grants \ db.grants :
            /\ Commit(db.grants \union {u}, db.defs)
            /\ unsent' = unsent \union {Remote("role.assign", u)}
       \/ \E u \in db.grants :
            /\ Commit(db.grants \ {u}, db.defs)
            /\ unsent' = unsent \union {Remote("role.revoke", u)}
       \/ \E defs \in DefSets :
            /\ Commit(db.grants, defs)
            /\ unsent' = unsent \union {Remote("role.changed", None)}
    /\ UNCHANGED <<bus, p, g, tables, autoSave, mu, cached, call, raced, unsaved, cut>>

RemotePublish ==
    \E event \in unsent :
        /\ unsent' = unsent \ {event}
        /\ Arrives([topic |-> event.topic, grant |-> event.grant, local |-> FALSE])
        /\ UNCHANGED <<db, subs, p, g, tables, autoSave, mu, cached, call, ghosts>>

-----------------------------------------------------------------------------
(* AssignUserRole and RevokeUserRole *)

Step(t, pc) == call' = [call EXCEPT ![t].pc = pc]

\* A service call commits the assignment and then calls the manager.
CallAssign(c, u) ==
    /\ Up /\ At(c, "idle") /\ u \notin db.grants
    /\ Commit(db.grants \union {u}, db.defs)
    /\ call' = [call EXCEPT ![c] = [Idle EXCEPT !.pc = "save", !.op = "assign", !.grant = u]]
    /\ UNCHANGED <<unsent, bus, p, g, tables, autoSave, mu, cached, raced, unsaved, cut>>

CallRevoke(c, u) ==
    /\ Up /\ At(c, "idle") /\ u \in db.grants
    /\ Commit(db.grants \ {u}, db.defs)
    /\ call' = [call EXCEPT ![c] = [Idle EXCEPT !.pc = "save", !.op = "revoke", !.grant = u]]
    /\ UNCHANGED <<unsent, bus, p, g, tables, autoSave, mu, cached, raced, unsaved, cut>>

\* handleRoleAssign and handleRoleRevoke; isLocalEvent drops the own events.
handleRoleEvent(topic) ==
    LET event == Head(queue[topic])
    IN  /\ topic \in {"role.assign", "role.revoke"}
        /\ At(topic, "idle") /\ queue[topic] # <<>>
        /\ queue' = [queue EXCEPT ![topic] = Tail(@)]
        /\ call' = IF event.local
                     THEN call
                     ELSE [call EXCEPT ![topic] =
                             [Idle EXCEPT !.pc = "save", !.grant = event.grant,
                                          !.op = IF topic = "role.assign" THEN "assign" ELSE "revoke"]]
        /\ UNCHANGED <<world, subs, p, g, tables, autoSave, mu, cached, ghosts>>

DisableAutoSave(t) ==
    /\ At(t, "save")
    /\ autoSave' = FALSE
    /\ Step(t, "rule")
    /\ UNCHANGED <<world, bus, p, g, tables, mu, cached, ghosts>>

\* Another call has u in hand or is replacing all grouping rules.
Contended(t, u) ==
    \E s \in Threads \ {t} :
        \/ At(s, "cache") /\ call[s].grant = u
        \/ call[s].pc \in {"clear", "add", "unlock", "read"}
        \/ At(s, "lock") /\ call[s].shared

\* AddGroupingPolicy or RemoveGroupingPolicy: nothing to do, the adapter
\* reports an error, or the rule changes, in the table too while saving is on.
ChangeRule(t) ==
    LET u == call[t].grant
        rules == IF call[t].op = "assign" THEN g \union {u} ELSE g \ {u}
        rows == IF call[t].op = "assign" THEN gTable \union {u} ELSE gTable \ {u}
    IN  /\ At(t, "rule")
        /\ \/ /\ rules = g \/ autoSave
              /\ Step(t, "restore")
              /\ UNCHANGED <<g, gTable, raced>>
           \/ /\ rules # g
              /\ g' = rules
              /\ gTable' = IF autoSave THEN rows ELSE gTable
              /\ raced' = IF Contended(t, u) THEN raced \union {u} ELSE raced
              /\ Step(t, "cache")
        /\ UNCHANGED <<world, bus, p, pTable, autoSave, mu, cached, unsaved, cut, clean>>

\* Seeded fault: no assignment is found.
FilterNothing(list, u) == list

\* filterAssignment: the first match goes, the rest moves up in the same array.
filterAssignment(list, u) == RemoveFirst(list, u)

\* What a slice of the same array, taken before, shows after the removal of the
\* first u, and after an append in place.
Shifted(old, list, u) ==
    LET first == CHOOSE i \in DOMAIN list :
                    list[i] = u /\ \A j \in 1..(i-1) : list[j] # u
    IN  [i \in DOMAIN old |-> IF first <= i /\ i < Len(list) THEN list[i+1] ELSE old[i]]

Overwritten(old, list, u) ==
    [i \in DOMAIN old |-> IF i = Len(list) + 1 THEN u ELSE old[i]]

Sharing == {t \in Threads : call[t].shared}

\* Under mu.  append grows the array or moves to a new one.
UpdateCache(t) ==
    LET u == call[t].grant
        moved(old) == IF call[t].op = "assign" THEN Overwritten(old, cache, u)
                      ELSE Shifted(old, cache, u)
    IN  /\ At(t, "cache") /\ mu = None
        /\ cache' = IF call[t].op = "assign" THEN Append(cache, u) ELSE filterAssignment(cache, u)
        /\ IF call[t].op = "revoke" /\ u \notin GrantsIn(cache)
             THEN Step(t, "restore") /\ UNCHANGED raced
             ELSE /\ \E inPlace \in BOOLEAN :
                       /\ call[t].op = "revoke" => inPlace
                       /\ call' = [s \in Threads |->
                             IF s = t THEN [call[s] EXCEPT !.pc = "restore"]
                             ELSE IF s \in Sharing
                               THEN [call[s] EXCEPT !.list = IF inPlace THEN moved(@) ELSE @,
                                                    !.shared = inPlace]
                             ELSE call[s]]
                  /\ raced' = IF Sharing = {} THEN raced ELSE Grants
        /\ UNCHANGED <<world, bus, p, g, tables, autoSave, mu, lastDefs, unsaved, cut, clean>>

\* Seeded fault: saving stays off.
ReturnUnsaving(t) ==
    /\ At(t, "restore")
    /\ call' = [call EXCEPT ![t] = IF t \in Callers THEN [@ EXCEPT !.pc = "publish"] ELSE Idle]
    /\ UNCHANGED <<world, bus, p, g, tables, autoSave, mu, cached, ghosts>>

\* The deferred EnableAutoSave(true), whoever else needs it off.
RestoreAutoSave(t) ==
    /\ At(t, "restore")
    /\ autoSave' = TRUE
    /\ call' = [call EXCEPT ![t] = IF t \in Callers THEN [@ EXCEPT !.pc = "publish"] ELSE Idle]
    /\ UNCHANGED <<world, bus, p, g, tables, mu, cached, ghosts>>

\* PublishRoleAssign, PublishRoleRevoke and PublishRoleChanged: the own event
\* comes back to this instance like everybody else's.
PublishOwn(c) ==
    LET topic == CASE call[c].op = "assign" -> "role.assign"
                   [] call[c].op = "revoke" -> "role.revoke"
                   [] OTHER -> "role.changed"
    IN  /\ At(c, "publish")
        /\ Arrives([topic |-> topic, grant |-> call[c].grant, local |-> TRUE])
        /\ call' = [call EXCEPT ![c] = Idle]
        /\ UNCHANGED <<world, subs, p, g, tables, autoSave, mu, cached, ghosts>>

-----------------------------------------------------------------------------
(* Loading roles and assignments, and rebuilding the grouping rules *)

\* A service call changes role definitions and reloads the registry with them.
CallReloadRegistry(c) ==
    /\ Up /\ At(c, "idle")
    /\ \E defs \in DefSets : Commit(db.grants, defs)
    /\ call' = [call EXCEPT ![c] = [Idle EXCEPT !.pc = "roles", !.op = "registry"]]
    /\ UNCHANGED <<unsent, bus, p, g, tables, autoSave, mu, cached, raced, unsaved, cut>>

handleRoleChanged ==
    LET topic == "role.changed"
        event == Head(queue[topic])
    IN  /\ At(topic, "idle") /\ queue[topic] # <<>>
        /\ queue' = [queue EXCEPT ![topic] = Tail(@)]
        /\ call' = IF event.local
                     THEN call
                     ELSE [call EXCEPT ![topic] = [Idle EXCEPT !.pc = "roles", !.op = "rebuild"]]
        /\ UNCHANGED <<world, subs, p, g, tables, autoSave, mu, cached, ghosts>>

\* Nothing but t is going on, and no event of another instance is on its way.
Undisturbed(t) ==
    /\ InFlight = {t} /\ unsent = {}
    /\ \A topic \in Topics : \A i \in DOMAIN queue[topic] : queue[topic][i].local

\* ListRoles; without an answer a handler gives up and so does the process.
ListRoles(t) ==
    /\ At(t, "roles")
    /\ \/ call' = [call EXCEPT ![t].pc = IF call[t].op = "registry" THEN "lock" ELSE "assignments",
                               ![t].defs = db.defs,
                               ![t].asOf = IF Undisturbed(t) THEN db.commits ELSE None]
       \/ call' = [call EXCEPT ![t] = IF t = Boot THEN [Idle EXCEPT !.pc = "down"] ELSE Idle]
    /\ UNCHANGED <<world, bus, p, g, tables, autoSave, mu, cached, ghosts>>

ListAllAssignments(t) ==
    /\ At(t, "assignments")
    /\ \/ \E list \in Listings(db.grants) :
            call' = [call EXCEPT ![t].pc = "lock", ![t].list = list]
       \/ call' = [call EXCEPT ![t] = IF t = Boot THEN [Idle EXCEPT !.pc = "down"] ELSE Idle]
    /\ UNCHANGED <<world, bus, p, g, tables, autoSave, mu, cached, ghosts>>

\* Where a rebuild returns to.
Return(t) == CASE t = Boot -> [Idle EXCEPT !.pc = "subscribe"]
               [] call[t].op = "registry" -> [Idle EXCEPT !.pc = "publish", !.op = "registry"]
               [] OTHER -> Idle

\* Grants whose cached entry is about to change.
Unfinished == {call[t].grant : t \in {s \in Threads : At(s, "cache")}}

\* Grants a list names twice: ReloadPolicy may bring back a list from before a
\* rebuild that healed it.
Repeated(list) == {list[i] : i \in {k \in DOMAIN list : \E j \in 1..(k-1) : list[j] = list[k]}}

\* A registry that refuses the definitions leaves everything as it is; the
\* process does not start with it.
LoadRefused(t) ==
    /\ At(t, "lock") /\ mu = None
    /\ LoadFails(call[t].defs)
    /\ call' = [call EXCEPT ![t] = IF t = Boot THEN [Idle EXCEPT !.pc = "down"] ELSE Return(t)]
    /\ UNCHANGED <<world, bus, p, g, tables, autoSave, mu, cached, ghosts>>

\* rebuildGroupingRelations and ReloadRoleRegistry up to EnableAutoSave(false).
LockAndLoad(t) ==
    LET list == IF call[t].op = "registry" THEN cache ELSE call[t].list
    IN  /\ At(t, "lock") /\ mu = None
        /\ ~LoadFails(call[t].defs)
        /\ mu' = t
        /\ lastDefs' = call[t].defs
        /\ cache' = list
        /\ autoSave' = FALSE
        /\ raced' = Unfinished \union Repeated(list)
                       \union (IF call[t].op = "rebuild" THEN {} ELSE raced)
        /\ call' = [s \in Threads |->
                       IF s = t THEN [call[s] EXCEPT !.pc = "clear", !.list = list, !.shared = FALSE]
                       ELSE IF call[t].op = "registry" \/ call[t].shared THEN call[s]
                       ELSE [call[s] EXCEPT !.shared = FALSE]]
        /\ UNCHANGED <<world, bus, p, g, tables, unsaved, cut, clean>>

\* Seeded fault: an error returns with the lock held.
FailsLocked(t) == call' = [call EXCEPT ![t] = Idle]

Fails(t) == call' = [call EXCEPT ![t].pc = "unlock", ![t].failed = TRUE]

\* Seeded fault: the old rules stay.
KeepRules(t) ==
    /\ At(t, "clear")
    /\ call' = [call EXCEPT ![t].pc = "add",
                            ![t].todo = InheritanceRules(lastDefs) \union GrantsIn(call[t].list)]
    /\ UNCHANGED <<world, bus, p, g, tables, autoSave, mu, cached, ghosts>>

\* RemoveFilteredGroupingPolicy with nothing to filter by; the adapter, if it
\* is asked, deletes all grouping rows or refuses.
ClearRules(t) ==
    /\ At(t, "clear")
    /\ \/ /\ autoSave
          /\ Fails(t)
          /\ UNCHANGED <<g, gTable>>
       \/ /\ g' = {}
          /\ gTable' = IF autoSave THEN {} ELSE gTable
          /\ call' = [call EXCEPT ![t].pc = "add",
                                  ![t].todo = InheritanceRules(lastDefs) \union GrantsIn(call[t].list)]
    /\ UNCHANGED <<world, bus, p, pTable, autoSave, mu, cached, ghosts>>

\* Inheritance rules come first.  Their order, that of a map, is fixed here:
\* nothing tells them apart before the last one is in.
AddRule(t) ==
    LET rest == call[t].todo
        first == IF rest \subseteq Grants THEN rest ELSE {CHOOSE rule \in rest \ Grants : TRUE}
    IN  /\ At(t, "add") /\ rest # {}
        /\ \E rule \in first :
             \/ /\ autoSave /\ rule \notin g
                /\ Fails(t)
                /\ UNCHANGED <<g, gTable>>
             \/ /\ g' = g \union {rule}
                /\ gTable' = IF autoSave /\ rule \notin g THEN gTable \union {rule} ELSE gTable
                /\ call' = [call EXCEPT ![t].todo = rest \ {rule}]
        /\ UNCHANGED <<world, bus, p, pTable, autoSave, mu, cached, ghosts>>

\* A rebuild from the database that nothing has disturbed since it began.
Current(t) == call[t].op = "rebuild" /\ call[t].asOf = db.commits /\ InFlight = {t}

\* The deferred EnableAutoSave(true) and Unlock.
Unlock(t) ==
    /\ \/ At(t, "unlock")
       \/ At(t, "add") /\ call[t].todo = {}
    /\ autoSave' = TRUE
    /\ mu' = None
    /\ cut' = call[t].failed
    /\ clean' = (~call[t].failed /\ (clean \/ Current(t)))
    /\ call' = [call EXCEPT ![t] = IF t = Boot /\ call[t].failed
                                     THEN [Idle EXCEPT !.pc = "down"] ELSE Return(t)]
    /\ raced' = IF call[t].failed THEN Grants ELSE raced
    /\ UNCHANGED <<world, bus, p, g, tables, cached, unsaved>>

-----------------------------------------------------------------------------
(* Permission rules, ReloadPolicy, and the life of the process *)

\* AddPolicy and RemovePolicy, one operation of the enforcer each.  An error
\* of the adapter changes nothing.
AddPolicy(x) ==
    /\ Up /\ x \notin p
    /\ p' = p \union {x}
    /\ pTable' = IF autoSave THEN pTable \union {x} ELSE pTable
    /\ unsaved' = IF autoSave THEN unsaved ELSE unsaved \union {x}
    /\ UNCHANGED <<world, bus, g, gTable, autoSave, mu, cached, call, raced, cut, clean>>

RemovePolicy(x) ==
    /\ Up /\ x \in p
    /\ p' = p \ {x}
    /\ pTable' = IF autoSave THEN pTable \ {x} ELSE pTable
    /\ unsaved' = IF autoSave THEN unsaved ELSE unsaved \union {x}
    /\ UNCHANGED <<world, bus, g, gTable, autoSave, mu, cached, call, raced, cut, clean>>

CallReloadPolicy(c) ==
    /\ Up /\ At(c, "idle")
    /\ call' = [call EXCEPT ![c] = [Idle EXCEPT !.pc = "load", !.op = "policy"]]
    /\ UNCHANGED <<world, bus, p, g, tables, autoSave, mu, cached, ghosts>>

\* Enforcer.LoadPolicy: all rules are replaced by those of the table.
LoadPolicy(t) ==
    /\ At(t, "load")
    /\ \/ /\ call' = [call EXCEPT ![t] = IF t = Boot THEN [Idle EXCEPT !.pc = "down"] ELSE Idle]
          /\ UNCHANGED <<p, g, unsaved>>
       \/ /\ p' = pTable /\ g' = gTable /\ unsaved' = {}
          /\ Step(t, IF t = Boot THEN "policies" ELSE "read")
    /\ UNCHANGED <<world, bus, tables, autoSave, mu, cached, raced, cut, clean>>

\* ReloadPolicy reads the cached inputs without the lock.
ReadCached(t) ==
    /\ At(t, "read")
    /\ call' = [call EXCEPT ![t].pc = "lock", ![t].defs = lastDefs, ![t].list = cache,
                            ![t].shared = TRUE]
    /\ UNCHANGED <<world, bus, p, g, tables, autoSave, mu, cached, ghosts>>

\* InitDefaultPolicies
InitDefaultPolicies ==
    /\ At(Boot, "policies")
    /\ \/ /\ p # {}
          /\ UNCHANGED <<p, pTable>>
          /\ call' = [call EXCEPT ![Boot] = [Idle EXCEPT !.pc = "roles", !.op = "rebuild"]]
       \/ /\ p = {}
          /\ p' = defaultPolicies /\ pTable' = pTable \union defaultPolicies
          /\ call' = [call EXCEPT ![Boot] = [Idle EXCEPT !.pc = "roles", !.op = "rebuild"]]
       \/ /\ p = {}
          /\ UNCHANGED <<p, pTable>>
          /\ Step(Boot, "down")
    /\ UNCHANGED <<world, bus, g, gTable, autoSave, mu, cached, ghosts>>

\* SubscribeToEvents, in this order; Init is complete with the last one.
SubscribeTo(topic) ==
    /\ At(Boot, "subscribe") /\ topic \notin subs
    /\ topic = "role.revoke" => "role.assign" \in subs
    /\ topic = "role.changed" => "role.revoke" \in subs
    /\ subs' = subs \union {topic}
    /\ call' = IF topic = "role.changed" THEN [call EXCEPT ![Boot] = Idle] ELSE call
    /\ UNCHANGED <<world, queue, p, g, tables, autoSave, mu, cached, ghosts>>

\* Close cancels the subscriptions; the process is about to end.
Close ==
    /\ Up
    /\ subs' = {}
    /\ Step(Boot, "down")
    /\ UNCHANGED <<world, queue, p, g, tables, autoSave, mu, cached, ghosts>>

\* The process dies, at any point, and starts anew.
Restart ==
    /\ call' = [t \in Threads |-> IF t = Boot THEN [Idle EXCEPT !.pc = "load"] ELSE Idle]
    /\ queue' = [topic \in Topics |-> <<>>] /\ subs' = {}
    /\ p' = {} /\ g' = {} /\ autoSave' = TRUE /\ mu' = None
    /\ lastDefs' = {} /\ cache' = <<>>
    /\ raced' = {} /\ unsaved' = {} /\ cut' = FALSE /\ clean' = FALSE
    /\ UNCHANGED <<world, tables>>

-----------------------------------------------------------------------------

Updating(t) == \/ DisableAutoSave(t) \/ ChangeRule(t) \/ UpdateCache(t) \/ RestoreAutoSave(t)

Rebuilding(t) == \/ LoadPolicy(t) \/ ReadCached(t)
                 \/ ListRoles(t) \/ ListAllAssignments(t)
                 \/ LoadRefused(t) \/ LockAndLoad(t)
                 \/ ClearRules(t) \/ AddRule(t) \/ Unlock(t)

Calling(c) == \/ \E u \in Grants : CallAssign(c, u) \/ CallRevoke(c, u)
              \/ CallReloadRegistry(c) \/ CallReloadPolicy(c)

Handling == handleRoleChanged \/ \E topic \in Topics : handleRoleEvent(topic)

Starting == InitDefaultPolicies \/ \E topic \in Topics : SubscribeTo(topic)

Next ==
    \/ RemoteCommit \/ RemotePublish
    \/ \E c \in Callers : Calling(c) \/ PublishOwn(c)
    \/ \E t \in Threads : Updating(t) \/ Rebuilding(t)
    \/ Handling \/ Starting \/ Close \/ Restart
    \/ \E x \in Policies : AddPolicy(x) \/ RemovePolicy(x)

Spec == Init /\ [][Next]_vars

-----------------------------------------------------------------------------
(* Properties *)

\* Type correctness of the manager, its tables, the bus and the calls.
TypeOK ==
    /\ db \in [grants : SUBSET Grants, defs : DefSets, commits : 0..MaxCommits]
    /\ unsent \subseteq [topic : Topics, grant : Grants \union {None}, n : 0..MaxCommits]
    /\ queue \in [Topics -> Seq(Event)] /\ subs \subseteq Topics
    /\ p \subseteq Policies /\ pTable \subseteq Policies
    /\ g \subseteq Rule /\ gTable \subseteq Rule
    /\ autoSave \in BOOLEAN /\ mu \in Threads \union {None}
    /\ lastDefs \in DefSets \union {{}} /\ cache \in Seq(Grants)
    /\ call \in [Threads -> Call]
    /\ raced \subseteq Grants /\ unsaved \subseteq Policies
    /\ cut \in BOOLEAN /\ clean \in BOOLEAN

\* What the definitions mean: one rule for every pair of roles connected by
\* direct inheritance; cyclic ones mean nothing.
Reachable == [defs \in {d \in DefSets \union {{}} : Acyclic(d)} |-> ReachableRules(defs)]

\* When nothing is in progress, the inheritance rules in the enforcer are those
\* of the definitions loaded last, which have no cycle.  Only a rebuild that the
\* adapter cut short leaves anything else.
InheritanceIsReachability ==
    Quiet /\ ~cut => /\ lastDefs \in DOMAIN Reachable
                     /\ g \ Grants = Reachable[lastDefs]

\* "keeps the cached assignment list in sync", as far as it is true: enforcer
\* and cached list name the same grants except for those whose calls overlapped
\* a conflicting one, or a rebuild that failed, since they were last loaded,
\* and those of a list with two entries for one grant that such calls left.
InSyncUnlessRaced ==
    Quiet => \A u \in Grants \ raced : u \in g <=> u \in GrantsIn(cache)

\* A rebuild from the database heals whatever went wrong before: once one was
\* made with no other call or event on its way, the instance decides by the
\* committed roles and grants until somebody commits again.
RebuildHeals ==
    Quiet /\ clean => /\ g = InheritanceRules(db.defs) \union db.grants
                      /\ GrantsIn(cache) = db.grants
                      /\ lastDefs = db.defs

\* When nothing is in progress saving is on, and the table holds the permission
\* rules of the enforcer except for those that were changed while a role call
\* had saving switched off.
PoliciesAreStored ==
    Quiet => /\ autoSave
             /\ \A x \in Policies \ unsaved : x \in p <=> x \in pTable

\* One call at a time replaces the rules, and it is the one that has the lock.
RebuildsExclude ==
    \A t \in Threads : call[t].pc \in {"clear", "add", "unlock"} <=> mu = t

\* AssignUserRole and RevokeUserRole: each "keeps the cached assignment list in
\* sync" with the enforcer (authz.go:251, 274).
InSync == Quiet /\ ~cut => g \intersect Grants = GrantsIn(cache)
=============================================================================
