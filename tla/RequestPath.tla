---------------------------- MODULE RequestPath ----------------------------
(***************************************************************************)
(* A request on its way to a handler: BearerAuth (middleware/auth.go) and  *)
(* Authz (middleware/authz.go), while the user's roles change in the       *)
(* database, the enforcer follows (AuthzManager.tla), and tokens that name *)
(* older roles are still about (Tokens.tla).                               *)
(*                                                                         *)
(* One user and one route.  Each look at the database or the enforcer is a *)
(* step; a role granted in the enforcer stands for the grouping rules the  *)
(* RBAC matcher sees.                                                      *)
(***************************************************************************)
EXTENDS FiniteSets

CONSTANTS
    Roles,
    RBACRoles,   \* roles with a policy for the route
    ABACRoles,   \* roles an ABAC rule of the route accepts
    Setups       \* how the middleware may be put together

\* `resolver`: a RoleResolver is wired; `mode`: the DBFailureMode; `rule`: what
\* the RuleTypeResolver says of the route, "none" without one; `abac`: the
\* manager has an ABAC enforcer.
ASSUME PathAssumption ==
    /\ RBACRoles \subseteq Roles /\ ABACRoles \subseteq Roles
    /\ Setups \subseteq [resolver : BOOLEAN, abac : BOOLEAN,
                         mode : {"unavailable", "deny", "trust_token"},
                         rule : {"none", "rbac", "abac", "rebac", "other"}]

VARIABLES
    setup,     \* how this process is put together
    dbRoles,   \* the user's roles in the database
    granted,   \* the user's roles in the enforcer
    held,      \* the token the user holds
    request,   \* the request under way
    since      \* ghost: whether, at a moment since it came, the database had the roles of
               \* its token, and the enforcer one for the route

pathVars == <<setup, dbRoles, granted, held, request, since>>

Token == [roles : SUBSET Roles, expired : BOOLEAN]
NoRequest == [pc |-> "none"]

PathInit ==
    /\ setup \in Setups
    /\ dbRoles = {} /\ granted = {}
    /\ held = [roles |-> {}, expired |-> TRUE]
    /\ request = NoRequest
    /\ since = [matched |-> FALSE, entitled |-> FALSE]

-----------------------------------------------------------------------------
(* Around the request                                                      *)

\* The user has a role with a policy for the route.
Entitles(roles) == roles \intersect RBACRoles # {}

\* The roles are those the token of the request names.
Matches(roles) == request.pc \notin {"none", "answered"} /\ roles = request.token.roles

\* An administrator changes the user's roles, and the transaction commits.
ChangeRoles ==
    /\ dbRoles' \in SUBSET Roles \ {dbRoles}
    /\ since' = [since EXCEPT !.matched = @ \/ Matches(dbRoles')]
    /\ UNCHANGED <<setup, granted, held, request>>

\* The enforcer catches up.
SyncEnforcer ==
    /\ granted # dbRoles
    /\ granted' = dbRoles
    /\ since' = [since EXCEPT !.entitled = @ \/ Entitles(dbRoles)]
    /\ UNCHANGED <<setup, dbRoles, held, request>>

\* A token names the roles of the moment.
IssueToken ==
    /\ held' = [roles |-> dbRoles, expired |-> FALSE]
    /\ UNCHANGED <<setup, dbRoles, granted, request, since>>

ExpireToken ==
    /\ ~held.expired
    /\ held' = [held EXCEPT !.expired = TRUE]
    /\ UNCHANGED <<setup, dbRoles, granted, request, since>>

-----------------------------------------------------------------------------
(* The request                                                             *)

\* A request comes in with the token, or with nothing BearerAuth can use, on
\* a path with or without "..".
Arrive ==
    /\ request.pc \in {"none", "answered", "served"}
    /\ \E form \in {"proper", "no token", "dots"} :
          request' = [pc |-> "auth", form |-> form, token |-> held, trusted |-> FALSE]
    /\ since' = [matched |-> dbRoles = held.roles, entitled |-> Entitles(granted)]
    /\ UNCHANGED <<setup, dbRoles, granted, held>>

Goto(pc) == request' = [request EXCEPT !.pc = pc]
Abort(status) == request' = [pc |-> "answered", status |-> status]
Serve == request' = [request EXCEPT !.pc = "served"]
OnlyRequest == UNCHANGED <<setup, dbRoles, granted, held, since>>

\* ParseToken of Tokens.tla decides; here a token is good until it expires.
BearerAuth ==
    /\ request.pc = "auth"
    /\ IF request.form = "no token" \/ request.token.expired THEN Abort(401) ELSE Goto("path")
    /\ OnlyRequest

sanitizePath ==
    /\ request.pc = "path"
    /\ IF request.form = "dots" THEN Abort(403)
       ELSE Goto(IF setup.resolver THEN "resolve" ELSE "rbac")
    /\ OnlyRequest

\* Seeded fault: roles the user still has are enough.
RolesMatchSubset(db, token) == token \subseteq db

\* roleSetsEqual.
RolesMatch(db, token) == token = db

\* rolesMatchDB reads the database, which may fail.
Resolve ==
    /\ request.pc = "resolve"
    /\ IF RolesMatch(dbRoles, request.token.roles) THEN Goto("rbac") ELSE Abort(403)
    /\ OnlyRequest

ResolveFails ==
    /\ request.pc = "resolve"
    /\ CASE setup.mode = "unavailable" -> Abort(503)
         [] setup.mode = "deny" -> Abort(403)
         [] setup.mode = "trust_token" ->
                request' = [request EXCEPT !.pc = "rbac", !.trusted = TRUE]
    /\ OnlyRequest

\* EnforceRBAC asks the enforcer about the user; the roles of the token are
\* not used.
EnforceRBAC ==
    /\ request.pc = "rbac"
    /\ \/ Entitles(granted) /\ Goto("rule")
       \/ ~Entitles(granted) /\ Abort(403)
       \/ Abort(500)
    /\ OnlyRequest

\* The ABAC subject carries the roles of the token.
EnforceABAC == setup.abac /\ request.token.roles \intersect ABACRoles # {}

\* The second check, by the rule type of the route; an error of the ABAC
\* enforcer is a refusal.
CheckRuleType ==
    /\ request.pc = "rule"
    /\ \/ setup.rule \in {"none", "rbac", "rebac"} /\ Serve
       \/ setup.rule = "abac" /\ EnforceABAC /\ Serve
       \/ setup.rule \in {"abac", "other"} /\ Abort(403)
    /\ OnlyRequest

PathNext ==
    \/ ChangeRoles \/ SyncEnforcer \/ IssueToken \/ ExpireToken \/ Arrive
    \/ BearerAuth \/ sanitizePath \/ Resolve \/ ResolveFails \/ EnforceRBAC \/ CheckRuleType

PathSpec == PathInit /\ [][PathNext]_pathVars

-----------------------------------------------------------------------------
(* Properties                                                              *)

\* A request that gets through had, at one moment while it was under way, a
\* role for the route in the enforcer; and, when a resolver is wired, its
\* token named exactly the roles the database had at one such moment, unless
\* the resolver failed and the operator chose to trust tokens.  A revocation
\* that was committed before the request came is therefore never overlooked
\* with a resolver, and without one no longer than the enforcer lags.
ServedIsEntitled ==
    request.pc = "served" =>
        /\ since.entitled
        /\ setup.resolver =>
             \/ since.matched
             \/ request.trusted /\ setup.mode = "trust_token"
        /\ setup.rule = "abac" => request.token.roles \intersect ABACRoles # {}
        /\ setup.rule # "other" /\ request.form = "proper" /\ ~request.token.expired
=============================================================================
