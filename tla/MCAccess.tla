------------------------------ MODULE MCAccess ------------------------------
(***************************************************************************)
(* The parts of the program that decide who gets at what, side by side:    *)
(* they share no state, and `part` says which of them moves.  Tenant rows  *)
(* come as two parts, since configurations and credentials only meet in    *)
(* the callers.                                                            *)
(***************************************************************************)
EXTENDS Tokens, RequestPath, TenantRows, AuditTrail, SignIn, AbacRules, TLC

VARIABLE part

Parts == {"tokens", "path", "configs", "creds", "audit", "signin", "rules"}

MCInit ==
    /\ TokensInit /\ PathInit /\ RowsInit /\ AuditInit /\ SignInInit /\ RulesInit
    /\ part \in Parts
    /\ part \notin {"configs", "creds"} => ~wired
    /\ part # "audit" => server = CHOOSE s \in Servers : TRUE
    /\ part # "path" => setup = CHOOSE s \in Setups : TRUE

MCNext ==
    /\ UNCHANGED part
    /\ \/ part = "tokens" /\ TokensNext
       \/ part # "tokens" /\ UNCHANGED tokenVars
    /\ \/ part = "path" /\ PathNext
       \/ part # "path" /\ UNCHANGED pathVars
    /\ \/ part = "configs" /\ RowsNext /\ UNCHANGED creds
       \/ part = "creds" /\ RowsNext /\ UNCHANGED configs
       \/ part \notin {"configs", "creds"} /\ UNCHANGED rowsVars
    /\ \/ part = "audit" /\ AuditNext
       \/ part # "audit" /\ UNCHANGED auditVars
    /\ \/ part = "signin" /\ SignInNext
       \/ part # "signin" /\ UNCHANGED signInVars
    /\ \/ part = "rules" /\ RulesNext
       \/ part # "rules" /\ UNCHANGED ruleVars

MCSpec ==
    MCInit /\ [][MCNext]_<<part, tokenVars, pathVars, rowsVars, auditVars, signInVars, ruleVars>>

MCSymmetry == Permutations(Callers) \union Permutations(Logins)

-----------------------------------------------------------------------------
Key(kind) == [kind |-> kind, id |-> 1]

Signed == [mode |-> "jws", alg |-> "HS256", enc |-> "A256GCM", signKey |-> Key("text"),
           encKey |-> [size |-> 32, id |-> 1], issuer |-> "us", audience |-> AnyName]

\* A key that does not fit comes with each mode; SM2 and SM4 under two names.
MCConfigs ==
    {Signed, [Signed EXCEPT !.issuer = AnyName], [Signed EXCEPT !.audience = "them"],
     [Signed EXCEPT !.alg = "RS256"], [Signed EXCEPT !.alg = "SM2", !.signKey = Key("sm2")],
     [Signed EXCEPT !.mode = "jwe"], [Signed EXCEPT !.mode = "jwe", !.enc = "A128GCM"],
     [Signed EXCEPT !.mode = "jwe", !.encKey.id = 2],
     [Signed EXCEPT !.mode = "jwe", !.alg = "SM2-SM3", !.signKey = Key("sm2"),
                    !.enc = "SM4", !.encKey.size = 16],
     [Signed EXCEPT !.mode = "jwe", !.alg = "SGD_SM3_SM2", !.signKey = Key("sm2"),
                    !.enc = "SGD_SM4_GCM", !.encKey.size = 16]}

\* Every failure mode and every kind of rule, with and without resolver.
MCSetups ==
    {[resolver |-> TRUE, abac |-> TRUE, mode |-> "unavailable", rule |-> "none"],
     [resolver |-> TRUE, abac |-> TRUE, mode |-> "trust_token", rule |-> "abac"],
     [resolver |-> TRUE, abac |-> FALSE, mode |-> "deny", rule |-> "abac"],
     [resolver |-> FALSE, abac |-> TRUE, mode |-> "deny", rule |-> "abac"],
     [resolver |-> FALSE, abac |-> TRUE, mode |-> "deny", rule |-> "other"]}

MCContexts ==
    {WithTenant(NoTenant, "t1"), Bypass(WithTenant(NoTenant, "t1")), Bypass(NoTenant), NoTenant}
MCAuditContexts ==
    {WithTenant(NoTenant, "t1"), WithTenant(NoTenant, "t2"), Bypass(NoTenant), NoTenant}

MCInputs ==
    {[tenant |-> "t1", result |-> "denied", message |-> "lines", detail |-> "line"],
     [tenant |-> "", result |-> "else", message |-> "other", detail |-> "other"]}

MCServers ==
    {[key |-> "k1", zone |-> "z1"], [key |-> "k1", zone |-> "z2"], [key |-> "k2", zone |-> "z1"]}

MCTokenClaims == {[sub |-> "u"], [sub |-> "u", email |-> "a", email_verified |-> "yes"]}
MCInfoClaims ==
    {[sub |-> "u", email |-> "b"], [email |-> "a", email_verified |-> "no"],
     [sub |-> "v", email |-> "b", email_verified |-> "yes"]}

Mail(email, primary, verified) == [email |-> email, primary |-> primary, verified |-> verified]
MCEmailLists ==
    {<<Mail("a", TRUE, FALSE), Mail("b", FALSE, TRUE)>>,
     <<Mail("a", FALSE, TRUE), Mail("b", TRUE, TRUE)>>, <<Mail("a", TRUE, FALSE)>>}

\* Whole attributes and comparisons as well as single tokens.
MCChunks ==
    {<<"r", ".", "sub", ".", "ID">>, <<"r", ".", "obj", ".", "Attrs">>, <<".", "id">>,
     <<"1", "==", "1">>}
    \union {<<t>> : t \in {"(", ")", "[", "]", "comma", "op", "lit"}}
=============================================================================
