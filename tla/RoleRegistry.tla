---------------------------- MODULE RoleRegistry ----------------------------
(***************************************************************************)
(* The role inheritance rules that core/internal/authz/rolegistry.go       *)
(* derives from role definitions.  A definition is a record of the role's  *)
(* name, the domain it belongs to and the roles it inherits directly; "" in *)
(* TenantID and the domain "*" are the same member of Domains.  Empty names *)
(* are left out, and a role is defined once per domain.                     *)
(***************************************************************************)
EXTENDS Integers, FiniteSets

CONSTANTS Roles, Domains, Loop

ASSUME RegistryAssumption == IsFiniteSet(Roles) /\ Loop \notin Roles

Definition == [name : Roles, domain : Domains, inherits : SUBSET Roles]

\* A map of direct parents per domain; a role nobody defines has none.
Graph(defs, d) ==
    [r \in Roles |-> UNION {def.inherits : def \in {e \in defs : e.name = r /\ e.domain = d}}]

\* Seeded fault: parents' parents are not followed.
OnlyParents(graph, role) == graph[role] \ {role}

\* expandInheritedRoles.  path is its map "visiting"; meeting a role of the
\* path again is the error, here the member Loop of the result.  The memo only
\* holds complete expansions and is not modelled.
expandInheritedRoles(graph, role) ==
    LET expand[path \in SUBSET Roles] ==
            [r \in Roles |->
                IF r \in path
                  THEN {Loop}
                  ELSE LET parents == graph[r] \ {r}
                       IN  parents \union UNION {expand[path \union {r}][q] : q \in parents}]
    IN  expand[{}][role]

\* Load returns an error: some defined role has a cycle above it.
LoadFails(defs) ==
    \E def \in defs : Loop \in expandInheritedRoles(Graph(defs, def.domain), def.name)

\* The rules <<child, parent, domain>> of a Load that succeeds.
InheritanceRules(defs) ==
    UNION {{<<def.name, q, def.domain>> :
                q \in expandInheritedRoles(Graph(defs, def.domain), def.name)} : def \in defs}

-----------------------------------------------------------------------------
(* Reference: reachability along paths of direct inheritance. *)

Reaches(graph, a, b) ==
    \E n \in 1..Cardinality(Roles) : \E path \in [0..n -> Roles] :
        /\ path[0] = a /\ path[n] = b
        /\ \A k \in 1..n : path[k] \in graph[path[k-1]] \ {path[k-1]}

ReachableRules(defs) ==
    {rule \in Roles \X Roles \X Domains :
        /\ \E def \in defs : def.name = rule[1] /\ def.domain = rule[3]
        /\ Reaches(Graph(defs, rule[3]), rule[1], rule[2])}

Acyclic(defs) ==
    \A def \in defs : \A r \in Roles :
        (r = def.name \/ Reaches(Graph(defs, def.domain), def.name, r)) =>
            ~Reaches(Graph(defs, def.domain), r, r)
=============================================================================
