----------------------------- MODULE AccessProofs -----------------------------
(***************************************************************************)
(* Proofs about who gets at what: ParseToken accepts exactly the tokens of *)
(* its own keys, names and time; a request which the middleware lets       *)
(* through was entitled to it; what a sign-in reports, the provider has    *)
(* said, in time; and the rules that are stored are those that the parser's*)
(* grammar derives, which is the documented one on plain rules, but for    *)
(* the listed constant truth.                                              *)
(***************************************************************************)
EXTENDS Tokens, RequestPath, SignIn, AbacRules, WellFoundedInduction, NaturalsInduction, TLAPS

-----------------------------------------------------------------------------
(* Tokens                                                                    *)

TokensType ==
    /\ config \in [Managers -> Configs \union {NotRunning}]
    /\ clock \in [Managers -> Nat \ {0}]
    /\ \A m \in Managers : config[m] # NotRunning => NewManager(config[m])

\* The token that is about is the one its maker's configuration yields.
MadeBySomebody ==
    issued # NoToken =>
        /\ made.config \in Configs /\ NewManager(made.config)
        /\ made.at \in Nat \ {0} /\ made.type \in {"access", "refresh"}
        /\ issued = GenerateToken(made.config, made.at, made.type, "claims")

TokensInv == TokensType /\ MadeBySomebody

LEMMA TokensInitially == TokensInit => TokensInv
BY DEF TokensInit, TokensInv, TokensType, MadeBySomebody

LEMMA TokensStep == TokensInv /\ [TokensNext]_tokenVars => TokensInv'
  <1> SUFFICES ASSUME TokensInv, [TokensNext]_tokenVars PROVE TokensInv'
    OBVIOUS
  <1>1. ASSUME NEW m \in Managers, StartManager(m) PROVE TokensInv'
    BY <1>1 DEF StartManager, TokensInv, TokensType, MadeBySomebody
  <1>2. ASSUME NEW m \in Managers, Generate(m) PROVE TokensInv'
    BY <1>2 DEF Generate, TokensInv, TokensType, MadeBySomebody
  <1>3. ASSUME NEW m \in Managers, Tick(m) PROVE TokensInv'
    BY <1>3 DEF Tick, TokensInv, TokensType, MadeBySomebody
  <1>4. CASE UNCHANGED tokenVars
    BY <1>4 DEF tokenVars, TokensInv, TokensType, MadeBySomebody
  <1> QED BY <1>1, <1>2, <1>3, <1>4 DEF TokensNext

\* Signatures are the same when algorithm, up to the names of SM2, and key are.
LEMMA SameSignature ==
  ASSUME NEW c, NEW d
  PROVE  Signature(c) = Signature(d) <=>
            /\ c.signKey = d.signKey
            /\ c.alg = d.alg \/ (isSM2Algorithm(c.alg) /\ isSM2Algorithm(d.alg))
BY DEF Signature, isSM2Algorithm

\* Envelopes are the same when mode and, if there is one, encryption are.
LEMMA SameEnvelope ==
  ASSUME NEW c \in Configs, NEW d \in Configs, NewManager(c), NewManager(d)
  PROVE  Envelope(c) = Envelope(d) <=>
            /\ c.mode = d.mode
            /\ c.mode = "jwe" =>
                 /\ c.encKey = d.encKey
                 /\ c.enc = d.enc \/ (isSM4Encryption(c.enc) /\ isSM4Encryption(d.enc))
  <1>1. c.mode \in {"jws", "jwe"} /\ d.mode \in {"jws", "jwe"}
    BY TokenAssumption
  <1>2. \A e \in Configs : e.mode = "jwe" /\ NewManager(e) => Envelope(e).enc # "none"
    BY DEF Envelope, NewManager, EncKeyFits, isSM4Encryption
  <1>3. \A e \in Configs : e.mode = "jws" => Envelope(e).enc = "none"
    BY DEF Envelope
  <1>4. CASE c.mode # d.mode
    BY <1>1, <1>2, <1>3, <1>4
  <1>5. CASE c.mode = "jws" /\ d.mode = "jws"
    BY <1>5 DEF Envelope
  <1>6. CASE c.mode = "jwe" /\ d.mode = "jwe"
    BY <1>6 DEF Envelope, isSM4Encryption
  <1> QED BY <1>1, <1>4, <1>5, <1>6

\* ParseToken of a token that somebody made.
LEMMA ParseMade ==
  ASSUME NEW c \in Configs, NEW d \in Configs, NewManager(c), NewManager(d),
         NEW at \in Nat \ {0}, NEW type \in {"access", "refresh"}, NEW moment \in Nat \ {0}
  PROVE  ParseToken(c, GenerateToken(d, at, type, "claims"), moment) = "ok" <=>
            /\ SameKeys(c, d)
            /\ c.issuer \in {AnyName, d.issuer}
            /\ c.audience \in {AnyName, d.audience}
            /\ moment \in at..(at + Expiry(type))
  <1> DEFINE t == GenerateToken(d, at, type, "claims")
  <1>1. Expiry(type) \in Nat
    BY TokenAssumption DEF Expiry
  <1>2. isValid(t, moment) <=> moment \in at..(at + Expiry(type))
    BY <1>1 DEF isValid, GenerateToken
  <1>3. (t.env = Envelope(c) /\ t.sig = Signature(c)) <=> SameKeys(c, d)
    <2>1. t.env = Envelope(d) /\ t.sig = Signature(d)
      BY DEF GenerateToken
    <2> QED BY <2>1, SameSignature, SameEnvelope DEF SameKeys
  <1>4. t.iss = d.issuer /\ t.aud = d.audience
    BY DEF GenerateToken
  <1> HIDE DEF t
  <1>5. ParseToken(c, t, moment) = "ok" <=>
            /\ SameKeys(c, d) /\ isValid(t, moment)
            /\ c.issuer = AnyName \/ t.iss = c.issuer
            /\ c.audience = AnyName \/ t.aud = c.audience
    BY <1>3 DEF ParseToken
  <1>6. ParseToken(c, t, moment) = "ok" <=>
            /\ SameKeys(c, d)
            /\ c.issuer \in {AnyName, d.issuer}
            /\ c.audience \in {AnyName, d.audience}
            /\ moment \in at..(at + Expiry(type))
    BY <1>2, <1>4, <1>5
  <1> QED BY <1>6 DEF t

\* ParseToken accepts exactly the tokens of its own keys, names and time, for
\* any configurations, clocks, restarts and lifetimes.
THEOREM TokensAreOurs == TokensSpec => []AcceptedIffOurs
  <1>1. TokensInv => AcceptedIffOurs
    <2> SUFFICES ASSUME TokensInv PROVE AcceptedIffOurs
      OBVIOUS
    <2>1. ASSUME NEW m \in Managers, config[m] # NotRunning
          PROVE  /\ SignKeyFits(config[m].alg, config[m].signKey)
                 /\ config[m].mode = "jwe" => config[m].encKey.size \in {16, 24, 32}
      BY <2>1 DEF TokensInv, TokensType, NewManager, EncKeyFits
    <2>2. ASSUME issued # NoToken, NEW m \in Managers, config[m] # NotRunning
          PROVE  ParseToken(config[m], issued, clock[m]) = "ok"
                    <=> /\ SameKeys(config[m], made.config)
                        /\ config[m].issuer \in {AnyName, made.config.issuer}
                        /\ config[m].audience \in {AnyName, made.config.audience}
                        /\ clock[m] \in made.at..(made.at + Expiry(made.type))
      BY <2>2, ParseMade DEF TokensInv, TokensType, MadeBySomebody
    <2> QED BY <2>1, <2>2 DEF AcceptedIffOurs
  <1> QED BY <1>1, TokensInitially, TokensStep, PTL DEF TokensSpec

-----------------------------------------------------------------------------
(* The middleware                                                            *)

Answered == {"none", "answered"}
Stages == {"auth", "path", "resolve", "rbac", "rule", "served"}
Forms == {"proper", "no token", "dots"}

Active == [pc : Stages, form : Forms, token : Token, trusted : BOOLEAN]

PathType ==
    /\ setup \in Setups /\ dbRoles \in SUBSET Roles
    /\ held \in Token
    /\ since \in [matched : BOOLEAN, entitled : BOOLEAN]
    /\ request \in Active \/ request.pc \in Answered

\* What a request has passed at each stage, and what the ghosts have seen.
Passed ==
    request.pc \in Stages =>
        /\ dbRoles = request.token.roles => since.matched
        /\ Entitles(granted) => since.entitled
        /\ request.pc # "auth" => request.form # "no token" /\ ~request.token.expired
        /\ request.pc \notin {"auth", "path"} => request.form = "proper"
        /\ request.pc \in {"rbac", "rule", "served"} /\ setup.resolver =>
              since.matched \/ (request.trusted /\ setup.mode = "trust_token")
        /\ request.pc \in {"rule", "served"} => since.entitled
        /\ request.pc = "served" =>
              /\ setup.rule # "other"
              /\ setup.rule = "abac" => request.token.roles \intersect ABACRoles # {}

PathInv == PathType /\ Passed

LEMMA PathInitially == PathInit => PathInv
BY DEF PathInit, PathInv, PathType, Passed, NoRequest, Token, Answered, Stages

\* The world around the request.
LEMMA AroundKeeps ==
  ASSUME PathInv, ChangeRoles \/ SyncEnforcer \/ IssueToken \/ ExpireToken
  PROVE  PathInv'
  <1>1. CASE ChangeRoles
    BY <1>1 DEF ChangeRoles, Matches, PathInv, PathType, Passed, Answered, Stages
  <1>2. CASE SyncEnforcer
    BY <1>2 DEF SyncEnforcer, Entitles, PathInv, PathType, Passed, Answered, Stages
  <1>3. CASE IssueToken
    BY <1>3 DEF IssueToken, Token, PathInv, PathType, Passed, Answered, Stages
  <1>4. CASE ExpireToken
    BY <1>4 DEF ExpireToken, Token, PathInv, PathType, Passed, Answered, Stages
  <1> QED BY <1>1, <1>2, <1>3, <1>4

\* A step of the request itself leaves the world and the ghosts alone, and is
\* harmless when the request is answered or knows more than before.
LEMMA AnswerKeeps ==
  ASSUME PathInv, OnlyRequest, NEW status, Abort(status)
  PROVE  PathInv'
  BY DEF OnlyRequest, Abort, PathInv, PathType, Passed, Answered, Stages, Entitles

LEMMA ArriveKeeps ==
  ASSUME PathInv, Arrive
  PROVE  PathInv'
  <1>1. PICK form \in Forms :
           request' = [pc |-> "auth", form |-> form, token |-> held, trusted |-> FALSE]
    BY DEF Arrive, Forms
  <1>2. request' \in Active /\ request'.pc = "auth" /\ request'.token = held
    BY <1>1 DEF Active, Stages, PathInv, PathType
  <1>3. since' = [matched |-> dbRoles = held.roles, entitled |-> Entitles(granted)]
    BY DEF Arrive
  <1>4. UNCHANGED <<setup, dbRoles, granted, held>>
    BY DEF Arrive
  <1>5. PathType'
    BY <1>2, <1>3, <1>4 DEF PathInv, PathType, Entitles
  <1>6. Passed'
    BY <1>2, <1>3, <1>4 DEF Passed, Entitles
  <1> QED BY <1>5, <1>6 DEF PathInv

\* The request goes on to `pc`, where it fulfils what it must.
LEMMA MoveKeeps ==
  ASSUME PathInv, OnlyRequest, request \in Active, NEW pc \in Stages \ {"auth"}, Goto(pc),
         request.form # "no token" /\ ~request.token.expired,
         pc # "path" => request.form = "proper",
         pc \in {"rbac", "rule", "served"} /\ setup.resolver =>
             since.matched \/ (request.trusted /\ setup.mode = "trust_token"),
         pc \in {"rule", "served"} => since.entitled,
         pc = "served" => /\ setup.rule # "other"
                          /\ setup.rule = "abac" => request.token.roles \intersect ABACRoles # {}
  PROVE  PathInv'
  <1>1. request' \in Active /\ request'.pc = pc
    BY DEF Goto, Active
  <1>2. request'.token = request.token /\ request'.form = request.form
        /\ request'.trusted = request.trusted
    BY DEF Goto, Active
  <1>3. PathType'
    BY <1>1 DEF OnlyRequest, PathInv, PathType
  <1>4. dbRoles' = dbRoles /\ granted' = granted /\ since' = since /\ setup' = setup
    BY DEF OnlyRequest
  <1>5. /\ dbRoles = request.token.roles => since.matched
        /\ Entitles(granted) => since.entitled
    BY DEF PathInv, Passed, Active
  <1>6. Entitles(granted)' <=> Entitles(granted)
    BY <1>4 DEF Entitles
  <1>7. Passed'
    BY <1>1, <1>2, <1>4, <1>5, <1>6 DEF Passed
  <1> QED BY <1>3, <1>7 DEF PathInv

LEMMA RequestKeeps ==
  ASSUME PathInv,
         BearerAuth \/ sanitizePath \/ Resolve \/ ResolveFails \/ EnforceRBAC \/ CheckRuleType
  PROVE  PathInv'
  <1> USE DEF Stages
  <1>1. CASE BearerAuth
    BY <1>1, AnswerKeeps, MoveKeeps DEF BearerAuth, PathInv, PathType, Passed, Active, Answered, Forms
  <1>2. CASE sanitizePath
    BY <1>2, AnswerKeeps, MoveKeeps DEF sanitizePath, PathInv, PathType, Passed, Active, Answered, Forms
  <1>3. CASE Resolve
    BY <1>3, AnswerKeeps, MoveKeeps DEF Resolve, RolesMatch, PathInv, PathType, Passed, Answered
  <1>4. CASE ResolveFails
    <2>1. CASE setup.mode = "trust_token"
      <3>1. request \in Active /\ request.pc = "resolve" /\ OnlyRequest
            /\ request' = [request EXCEPT !.pc = "rbac", !.trusted = TRUE]
        BY <1>4, <2>1 DEF ResolveFails, PathInv, PathType, Answered
      <3>2. /\ request' \in Active /\ request'.pc = "rbac" /\ request'.trusted = TRUE
            /\ request'.token = request.token /\ request'.form = request.form
        BY <3>1 DEF Active
      <3>3. PathType'
        BY <3>1, <3>2 DEF OnlyRequest, PathInv, PathType
      <3>4. Passed'
        BY <3>1, <3>2, <2>1 DEF OnlyRequest, PathInv, Passed, Entitles
      <3> QED BY <3>3, <3>4 DEF PathInv
    <2>2. CASE setup.mode \in {"unavailable", "deny"}
      BY <1>4, <2>2, AnswerKeeps DEF ResolveFails
    <2> QED BY <2>1, <2>2, PathAssumption DEF PathInv, PathType
  <1>5. CASE EnforceRBAC
    BY <1>5, AnswerKeeps, MoveKeeps DEF EnforceRBAC, PathInv, PathType, Passed, Answered
  <1>6. CASE CheckRuleType
    BY <1>6, AnswerKeeps, MoveKeeps DEF CheckRuleType, EnforceABAC, Serve, Goto, PathInv, PathType, Passed, Answered
  <1> QED BY <1>1, <1>2, <1>3, <1>4, <1>5, <1>6

LEMMA PathStep == PathInv /\ [PathNext]_pathVars => PathInv'
  <1> SUFFICES ASSUME PathInv, [PathNext]_pathVars PROVE PathInv'
    OBVIOUS
  <1>1. CASE UNCHANGED pathVars
    BY <1>1 DEF pathVars, PathInv, PathType, Passed, Entitles
  <1>2. CASE PathNext
    BY <1>2, AroundKeeps, ArriveKeeps, RequestKeeps DEF PathNext
  <1> QED BY <1>1, <1>2

\* Authz lets a request through to the handler: for any roles and policies it
\* had, while it was under way, a role for the route in the enforcer, and with
\* a resolver the roles its token names, up to trust the operator has chosen.
THEOREM ServedWasEntitled == PathSpec => []ServedIsEntitled
  <1>1. PathInv => ServedIsEntitled
    BY DEF PathInv, PathType, Passed, ServedIsEntitled, Stages, Answered
  <1> QED BY <1>1, PathInitially, PathStep, PTL DEF PathSpec
-----------------------------------------------------------------------------
(* Sign-ins                                                                  *)

\* What a sign-in in state r has to show for itself at time t, with documents
\* replaced at rep and keys published.
Sound(r, t, rep, keys) ==
    /\ r.pc \in {"fetch", "store"} => r.began \in Nat /\ r.began <= t /\ t <= r.began + FetchTimeout
    /\ r.pc = "store" => r.doc \in 1..MaxDoc /\ r.began <= rep[r.doc]
    /\ r.pc \in {"begun", "exchange"} =>
          /\ r.doc \in 0..MaxDoc /\ r.usedAt \in Nat /\ r.usedAt <= t
          /\ r.usedAt <= rep[r.doc] + TTL + FetchTimeout
    /\ r.pc = "jwks" => r.key \in keys /\ r.claims \in TokenClaims
    /\ r.pc = "userinfo" => r.claims \in TokenClaims \union {NoClaims}
    /\ r.pc = "failed" => r.error # "unverified"

\* The provider's latest document has not been replaced, its earlier ones have,
\* and its signing key is published.
ProviderInv ==
    /\ now \in 0..MaxTime
    /\ provider \in [doc : 1..MaxDoc, signing : Nat, published : SUBSET Nat]
    /\ provider.signing \in provider.published
    /\ replaced \in [0..MaxDoc -> 0..Never]
    /\ \A d \in 0..MaxDoc : d = Explicit \/ d >= provider.doc => replaced[d] = Never

\* A cached document lives no longer than from its fetch allowed.
CacheInv ==
    discCache # Uncached =>
        /\ discCache.doc \in 1..MaxDoc /\ discCache.exp \in Nat
        /\ discCache.exp <= now + TTL
        /\ discCache.exp <= replaced[discCache.doc] + TTL + FetchTimeout

LoginsInv ==
    /\ login = [l \in Logins |-> login[l]]
    /\ \A l \in Logins : Sound(login[l], now, replaced, provider.published)

SignInInv ==
    /\ ProviderInv /\ CacheInv /\ LoginsInv
    /\ \A l \in Logins : VerifiedIsVouched(l)

\* Nobody has signed in yet.
LEMMA SignInInitially == SignInInit => SignInInv
  BY SignInAssumption DEF SignInInit, SignInInv, ProviderInv, CacheInv, LoginsInv, Sound,
     VerifiedIsVouched, NewLogin, Never, Explicit, Uncached

\* A step of one sign-in that keeps the cache is right if its new state is.
LEMMA OneSignIn ==
    ASSUME SignInInv, NEW l \in Logins, NEW r, Set(l, r), OnlyLogin,
           Sound(r, now, replaced, provider.published),
           r.pc = "done" /\ r.verified =>
             IF r.from = "github"
             THEN \E list \in EmailLists : \E i \in DOMAIN list :
                      list[i].email = r.email /\ list[i].verified
             ELSE \E c \in TokenClaims \union InfoClaims :
                      "email_verified" \in DOMAIN c /\ c["email_verified"] = "yes"
    PROVE  SignInInv'
  <1>1. login'[l] = r /\ \A k \in Logins \ {l} : login'[k] = login[k]
    BY DEF Set, SignInInv, LoginsInv
  <1>2. ProviderInv' /\ CacheInv'
    BY DEF OnlyLogin, SignInInv, ProviderInv, CacheInv
  <1>3. LoginsInv'
    <2>1. login' = [k \in Logins |-> login'[k]]
      BY DEF Set, SignInInv, LoginsInv
    <2>2. ASSUME NEW k \in Logins
          PROVE  Sound(login'[k], now', replaced', provider'.published)
      BY <1>1, k = l \/ k # l DEF OnlyLogin, SignInInv, LoginsInv
    <2> QED
      BY <2>1, <2>2 DEF LoginsInv
  <1>4. ASSUME NEW k \in Logins PROVE VerifiedIsVouched(k)'
    <2>1. CASE k = l
      BY <1>1, <2>1 DEF VerifiedIsVouched
    <2>2. CASE k # l
      <3>1. VerifiedIsVouched(k)
        BY DEF SignInInv
      <3> QED
        BY <1>1, <2>2, <3>1 DEF VerifiedIsVouched
    <2> QED
      BY <2>1, <2>2
  <1> QED
    BY <1>2, <1>3, <1>4 DEF SignInInv

\* A failure with any other error is a sound end.
LEMMA FailureIsSound ==
    ASSUME SignInInv, NEW l \in Logins, NEW err, err # "unverified", Fail(l, err), OnlyLogin
    PROVE  SignInInv'
  <1> DEFINE r == [pc |-> "failed", error |-> err]
  <1>1. Set(l, r)
    BY DEF Fail
  <1>2. r.pc = "failed" /\ r.error = err
    OBVIOUS
  <1>3. Sound(r, now, replaced, provider.published)
    BY <1>2 DEF Sound
  <1> HIDE DEF r
  <1> QED
    BY <1>1, <1>2, <1>3, OneSignIn

\* The document is not older than its cached life or the moment of its fetch.
LEMMA DocumentIsFresh ==
    ASSUME SignInInv, NEW l \in Logins, NEW goal \in {"begin", "complete"}, NEW doc \in 0..MaxDoc,
           now <= replaced[doc] + TTL + FetchTimeout, Set(l, WithDocument(goal, doc)), OnlyLogin
    PROVE  SignInInv'
  <1> DEFINE r == WithDocument(goal, doc)
  <1>1. r.pc \in {"begun", "exchange"} /\ r.doc = doc /\ r.usedAt = now
    BY DEF WithDocument
  <1>2. Sound(r, now, replaced, provider.published)
    BY <1>1, SignInAssumption DEF Sound, SignInInv, ProviderInv
  <1>3. Set(l, r)
    OBVIOUS
  <1> HIDE DEF r
  <1> QED
    BY <1>1, <1>2, <1>3, OneSignIn

\* BeginAuth and CompleteAuth find their endpoints, in the cache or elsewhere.
LEMMA ResolvingIsSound ==
    ASSUME SignInInv, NEW l \in Logins, resolveEndpoints(l)
    PROVE  SignInInv'
  <1>1. PICK goal \in {"begin", "complete"} :
          \/ Set(l, WithDocument(goal, Explicit))
          \/ CacheHit /\ Set(l, WithDocument(goal, discCache.doc))
          \/ ~CacheHit /\ Set(l, [pc |-> "fetch", goal |-> goal, began |-> now])
    BY DEF resolveEndpoints
  <1>2. OnlyLogin
    BY DEF resolveEndpoints
  <1>3. ProviderInv /\ CacheInv
    BY DEF SignInInv
  <1>4. CASE Set(l, WithDocument(goal, Explicit))
    <2>1. Explicit \in 0..MaxDoc /\ now <= replaced[Explicit] + TTL + FetchTimeout
      BY <1>3, SignInAssumption DEF ProviderInv, Explicit, Never
    <2> QED
      BY <1>2, <1>4, <2>1, DocumentIsFresh
  <1>5. CASE CacheHit /\ Set(l, WithDocument(goal, discCache.doc))
    <2>1. /\ discCache.doc \in 1..MaxDoc /\ discCache.exp \in Nat /\ now < discCache.exp
          /\ discCache.exp <= replaced[discCache.doc] + TTL + FetchTimeout
      BY <1>3, <1>5 DEF CacheInv, CacheHit
    <2>2. /\ discCache.doc \in 0..MaxDoc /\ now \in Nat
          /\ TTL \in Nat /\ FetchTimeout \in Nat
      BY <1>3, <2>1, SignInAssumption DEF ProviderInv
    <2>3. replaced[discCache.doc] \in Nat
      BY <1>3, <2>2, SignInAssumption DEF ProviderInv, Never
    <2>4. now <= replaced[discCache.doc] + TTL + FetchTimeout
      BY <2>1, <2>2, <2>3
    <2> QED
      BY <1>2, <1>5, <2>2, <2>4, DocumentIsFresh
  <1>6. CASE Set(l, [pc |-> "fetch", goal |-> goal, began |-> now])
    <2> DEFINE r == [pc |-> "fetch", goal |-> goal, began |-> now]
    <2>1. r.pc = "fetch" /\ r.began = now
      OBVIOUS
    <2>2. Sound(r, now, replaced, provider.published)
      BY <1>3, <2>1, SignInAssumption DEF Sound, ProviderInv
    <2>3. Set(l, r)
      BY <1>6
    <2> HIDE DEF r
    <2> QED
      BY <1>2, <2>1, <2>2, <2>3, OneSignIn
  <1> QED
    BY <1>1, <1>4, <1>5, <1>6

\* The document that comes is the latest: nothing had replaced it before the fetch.
LEMMA FetchingIsSound ==
    ASSUME SignInInv, NEW l \in Logins, FetchDocument(l)
    PROVE  SignInInv'
  <1>1. OnlyLogin /\ login[l].pc = "fetch"
    BY DEF FetchDocument
  <1>2. CASE Fail(l, "unavailable")
    BY <1>1, <1>2, FailureIsSound
  <1> DEFINE r == [pc |-> "store", goal |-> login[l].goal, began |-> login[l].began,
                   doc |-> provider.doc]
  <1>3. CASE Set(l, r)
    <2>1. r.pc = "store" /\ r.began = login[l].began /\ r.doc = provider.doc
      OBVIOUS
    <2>2. Sound(login[l], now, replaced, provider.published)
      BY DEF SignInInv, LoginsInv
    <2>3. /\ provider.doc \in 1..MaxDoc /\ replaced[provider.doc] = Never
          /\ now <= Never
      BY SignInAssumption DEF SignInInv, ProviderInv, Never
    <2>4. /\ login[l].began \in Nat /\ login[l].began <= now
          /\ now <= login[l].began + FetchTimeout
      BY <1>1, <2>2 DEF Sound
    <2>5. now \in Nat /\ Never \in Nat
      BY SignInAssumption DEF SignInInv, ProviderInv, Never
    <2> HIDE DEF r
    <2>6. Sound(r, now, replaced, provider.published)
      BY <2>1, <2>3, <2>4, <2>5 DEF Sound
    <2> QED
      BY <1>1, <1>3, <2>1, <2>6, OneSignIn
  <1> QED
    BY <1>2, <1>3 DEF FetchDocument

\* What is stored is used at once, and lives as long as the fetch began early.
LEMMA StoringIsSound ==
    ASSUME SignInInv, NEW l \in Logins, StoreDocument(l)
    PROVE  SignInInv'
  <1> DEFINE r == WithDocument(login[l].goal, login[l].doc)
  <1>1. /\ r.pc \in {"begun", "exchange"} /\ r.doc = login[l].doc /\ r.usedAt = now
        /\ Set(l, r) /\ UNCHANGED <<now, provider, replaced>>
    BY DEF StoreDocument, WithDocument
  <1>2. Sound(login[l], now, replaced, provider.published) /\ login[l].pc = "store"
    BY DEF StoreDocument, SignInInv, LoginsInv
  <1>3. /\ login[l].began \in Nat /\ login[l].began <= now
        /\ now <= login[l].began + FetchTimeout
        /\ login[l].doc \in 1..MaxDoc /\ login[l].began <= replaced[login[l].doc]
    BY <1>2 DEF Sound
  <1>4. /\ now \in Nat /\ replaced[login[l].doc] \in Nat
        /\ TTL \in Nat /\ FetchTimeout \in Nat /\ MaxDoc \in Nat
    BY <1>3, SignInAssumption DEF SignInInv, ProviderInv, Never
  <1>5. discCache'.doc = login[l].doc /\ discCache'.exp = now + TTL
    BY DEF StoreDocument
  <1> HIDE DEF r
  <1>6. ProviderInv'
    BY <1>1 DEF SignInInv, ProviderInv
  <1>7. CacheInv'
    BY <1>1, <1>3, <1>4, <1>5 DEF CacheInv
  <1>8. Sound(r, now, replaced, provider.published)
    BY <1>1, <1>3, <1>4 DEF Sound
  <1>9. login'[l] = r /\ \A k \in Logins \ {l} : login'[k] = login[k]
    BY <1>1 DEF Set, SignInInv, LoginsInv
  <1>10. login' = [k \in Logins |-> login'[k]]
    BY <1>1 DEF Set, SignInInv, LoginsInv
  <1>11. ASSUME NEW k \in Logins
         PROVE  Sound(login'[k], now', replaced', provider'.published) /\ VerifiedIsVouched(k)'
    <2>1. Sound(login[k], now, replaced, provider.published) /\ VerifiedIsVouched(k)
      BY DEF SignInInv, LoginsInv
    <2>2. CASE k = l
      BY <1>1, <1>8, <1>9, <2>2 DEF VerifiedIsVouched
    <2>3. CASE k # l
      BY <1>1, <1>9, <2>1, <2>3 DEF VerifiedIsVouched
    <2> QED
      BY <2>2, <2>3
  <1> QED
    BY <1>6, <1>7, <1>10, <1>11 DEF SignInInv, LoginsInv

\* The key that signs is published.
LEMMA ExchangingIsSound ==
    ASSUME SignInInv, NEW l \in Logins, Exchange(l)
    PROVE  SignInInv'
  <1>1. OnlyLogin
    BY DEF Exchange
  <1>2. ASSUME NEW claims \in TokenClaims,
               Set(l, [pc |-> "jwks", key |-> provider.signing, claims |-> claims])
        PROVE  SignInInv'
    <2> DEFINE r == [pc |-> "jwks", key |-> provider.signing, claims |-> claims]
    <2>1. r.pc = "jwks" /\ r.key = provider.signing /\ r.claims = claims /\ Set(l, r)
      BY <1>2
    <2> HIDE DEF r
    <2>2. Sound(r, now, replaced, provider.published)
      BY <2>1 DEF Sound, SignInInv, ProviderInv
    <2> QED
      BY <1>1, <2>1, <2>2, OneSignIn
  <1>3. CASE Set(l, [pc |-> "userinfo", claims |-> NoClaims])
    <2> DEFINE r == [pc |-> "userinfo", claims |-> NoClaims]
    <2>1. r.pc = "userinfo" /\ r.claims = NoClaims /\ Set(l, r)
      BY <1>3
    <2> HIDE DEF r
    <2>2. Sound(r, now, replaced, provider.published)
      BY <2>1 DEF Sound
    <2> QED
      BY <1>1, <2>1, <2>2, OneSignIn
  <1>4. CASE Fail(l, "exchange")
    BY <1>1, <1>4, FailureIsSound
  <1> QED
    BY <1>2, <1>3, <1>4 DEF Exchange

\* A key of a waiting token is still published.
LEMMA VerifyingIsSound ==
    ASSUME SignInInv, NEW l \in Logins, VerifyIDToken(l)
    PROVE  SignInInv'
  <1>1. OnlyLogin /\ login[l].pc = "jwks"
    BY DEF VerifyIDToken
  <1>2. login[l].key \in provider.published /\ login[l].claims \in TokenClaims
    BY <1>1 DEF SignInInv, LoginsInv, Sound
  <1>3. CASE Set(l, [pc |-> "userinfo", claims |-> login[l].claims])
    <2> DEFINE r == [pc |-> "userinfo", claims |-> login[l].claims]
    <2>1. r.pc = "userinfo" /\ r.claims = login[l].claims /\ Set(l, r)
      BY <1>3
    <2> HIDE DEF r
    <2>2. Sound(r, now, replaced, provider.published)
      BY <1>2, <2>1 DEF Sound
    <2> QED
      BY <1>1, <2>1, <2>2, OneSignIn
  <1>4. CASE Fail(l, "unavailable")
    BY <1>1, <1>4, FailureIsSound
  <1> QED
    BY <1>2, <1>3, <1>4 DEF VerifyIDToken, Verifies

\* Whoever says verified, the id_token or UserInfo, the provider has said it.
LEMMA UserInfoIsSound ==
    ASSUME SignInInv, NEW l \in Logins, UserInfo(l)
    PROVE  SignInInv'
  <1>1. OnlyLogin /\ login[l].pc = "userinfo"
    BY DEF UserInfo
  <1>2. login[l].claims \in TokenClaims \union {NoClaims}
    BY <1>1 DEF SignInInv, LoginsInv, Sound
  <1>3. PICK ui \in InfoClaims \union {NoClaims} :
          \/ Set(l, Assertion(login[l].claims, ui))
          \/ Fail(l, "no subject")
    BY DEF UserInfo
  <1>4. CASE Fail(l, "no subject")
    BY <1>1, <1>4, FailureIsSound
  <1>5. CASE Set(l, Assertion(login[l].claims, ui))
    <2> DEFINE idClaims == login[l].claims
               claims == Overlaid(ui, idClaims)
               r == Assertion(idClaims, ui)
    <2>1. r.pc = "done" /\ r.from = "openid" /\ Set(l, r)
      BY <1>5 DEF Assertion
    <2>2. r.verified => "email_verified" \in DOMAIN claims /\ claims["email_verified"] = "yes"
      BY DEF Assertion
    <2>3. Sound(r, now, replaced, provider.published)
      BY <2>1 DEF Sound
    <2>4. ASSUME r.verified
          PROVE  \E c \in TokenClaims \union InfoClaims :
                    "email_verified" \in DOMAIN c /\ c["email_verified"] = "yes"
      <3>1. "email_verified" \notin DOMAIN NoClaims
        BY DEF NoClaims
      <3>2. \/ "email_verified" \in DOMAIN ui /\ ui["email_verified"] = "yes"
            \/ "email_verified" \in DOMAIN idClaims /\ idClaims["email_verified"] = "yes"
        BY <2>2, <2>4 DEF Overlaid
      <3> HIDE DEF idClaims, claims, r
      <3>3. idClaims \in TokenClaims \union {NoClaims}
        BY <1>2 DEF idClaims
      <3> QED
        BY <3>1, <3>2, <3>3
    <2> HIDE DEF r
    <2> QED
      BY <1>1, <2>1, <2>3, <2>4, OneSignIn
  <1> QED
    BY <1>3, <1>4, <1>5

\* A set of naturals that is not empty has an earliest member.
LEMMA EarliestIsMember ==
    ASSUME NEW S \in SUBSET Nat, S # {}
    PROVE  Earliest(S) \in S
  <1> DEFINE Less == OpToRel(<, Nat)
  <1>1. IsWellFoundedOn(Less, Nat)
    BY NatLessThanWellFounded
  <1>2. \A i, j \in Nat : <<i, j>> \in Less <=> i < j
    BY DEF OpToRel
  <1> HIDE DEF Less
  <1>3. PICK i \in S : \A j \in S : ~ (<<j, i>> \in Less)
    BY <1>1, WFMin
  <1>4. ASSUME NEW j \in S PROVE i <= j
    <2>1. i \in Nat /\ j \in Nat /\ ~ (j < i)
      BY <1>2, <1>3
    <2> QED
      BY <2>1
  <1> QED
    BY <1>4 DEF Earliest

\* GitHub called the address verified that fetchPrimaryEmail does.
LEMMA GitHubVouches ==
    ASSUME NEW list \in Seq([email : STRING, primary : BOOLEAN, verified : BOOLEAN]),
           fetchPrimaryEmail(list).verified
    PROVE  \E i \in DOMAIN list :
              list[i].email = fetchPrimaryEmail(list).email /\ list[i].verified
  <1> DEFINE verified == {i \in DOMAIN list : list[i].verified}
             primary == {i \in DOMAIN list : list[i].primary}
             both == verified \intersect primary
             S == IF both # {} THEN both ELSE verified
  <1>1. verified # {} /\ fetchPrimaryEmail(list).email = list[Earliest(S)].email
    BY DEF fetchPrimaryEmail
  <1>2. S \subseteq verified /\ S # {} /\ S \subseteq Nat
    BY <1>1
  <1> HIDE DEF S
  <1>3. Earliest(S) \in verified
    BY <1>2, EarliestIsMember
  <1> QED
    BY <1>1, <1>3

\* Signing in with GitHub.
LEMMA GitHubIsSound ==
    ASSUME SignInInv, NEW l \in Logins, GitHub(l)
    PROVE  SignInInv'
  <1>1. OnlyLogin
    BY DEF GitHub
  <1>2. CASE Fail(l, "exchange")
    BY <1>1, <1>2, FailureIsSound
  <1>3. ASSUME NEW list \in EmailLists \union {<<>>},
               Set(l, [pc |-> "done", from |-> "github", email |-> fetchPrimaryEmail(list).email,
                       verified |-> fetchPrimaryEmail(list).verified])
        PROVE  SignInInv'
    <2> DEFINE e == fetchPrimaryEmail(list)
               r == [pc |-> "done", from |-> "github", email |-> e.email, verified |-> e.verified]
    <2>1. /\ r.pc = "done" /\ r.from = "github" /\ r.email = e.email /\ r.verified = e.verified
          /\ Set(l, r)
      BY <1>3
    <2> HIDE DEF r
    <2>2. Sound(r, now, replaced, provider.published)
      BY <2>1 DEF Sound
    <2>3. ASSUME r.verified
          PROVE  \E k \in EmailLists : \E i \in DOMAIN k : k[i].email = r.email /\ k[i].verified
      <3>1. list \in Seq([email : STRING, primary : BOOLEAN, verified : BOOLEAN])
        <4>1. CASE list \in EmailLists
          BY <4>1, SignInAssumption
        <4>2. CASE list = <<>>
          BY <4>2
        <4> QED
          BY <4>1, <4>2
      <3>2. fetchPrimaryEmail(list).verified
        BY <2>1, <2>3
      <3>3. PICK i \in DOMAIN list : list[i].email = e.email /\ list[i].verified
        BY <3>1, <3>2, GitHubVouches
      <3>4. list # <<>>
        BY <3>3
      <3> QED
        BY <2>1, <3>3, <3>4
    <2> QED
      BY <1>1, <2>1, <2>2, <2>3, OneSignIn
  <1>4. CASE Set(l, [pc |-> "done", from |-> "github", email |-> "profile", verified |-> FALSE])
    <2> DEFINE r == [pc |-> "done", from |-> "github", email |-> "profile", verified |-> FALSE]
    <2>1. r.pc = "done" /\ r.verified = FALSE /\ Set(l, r)
      BY <1>4
    <2> HIDE DEF r
    <2>2. Sound(r, now, replaced, provider.published)
      BY <2>1 DEF Sound
    <2> QED
      BY <1>1, <2>1, <2>2, OneSignIn
  <1> QED
    BY <1>2, <1>3, <1>4 DEF GitHub

\* What is used has been used before its replacement, if that is now.
LEMMA PublishingIsSound ==
    ASSUME SignInInv, PublishDocument
    PROVE  SignInInv'
  <1>1. /\ provider \in [doc : 1..MaxDoc, signing : Nat, published : SUBSET Nat]
        /\ provider.doc < MaxDoc /\ provider.signing \in provider.published
        /\ now \in 0..MaxTime /\ replaced \in [0..MaxDoc -> 0..Never]
        /\ replaced' = [replaced EXCEPT ![provider.doc] = now]
        /\ UNCHANGED <<now, discCache, login>>
    BY DEF PublishDocument, SignInInv, ProviderInv
  <1>2. /\ provider' \in [doc : 1..MaxDoc, signing : Nat, published : SUBSET Nat]
        /\ provider'.doc = provider.doc + 1
        /\ provider'.signing = provider.signing /\ provider'.published = provider.published
    BY <1>1, SignInAssumption DEF PublishDocument
  <1>3. /\ replaced' \in [0..MaxDoc -> 0..Never]
        /\ \A d \in 0..MaxDoc : \/ d = provider.doc /\ replaced'[d] = now
                                \/ d # provider.doc /\ replaced'[d] = replaced[d]
    BY <1>1, SignInAssumption DEF Never
  <1>4. ProviderInv'
    BY <1>1, <1>2, <1>3, SignInAssumption DEF SignInInv, ProviderInv, Explicit, Never
  <1>5. CacheInv'
    <2>1. SUFFICES ASSUME discCache # Uncached PROVE CacheInv'
      BY <1>1 DEF CacheInv
    <2>2. /\ discCache.doc \in 1..MaxDoc /\ discCache.exp \in Nat
          /\ discCache.exp <= now + TTL
          /\ discCache.exp <= replaced[discCache.doc] + TTL + FetchTimeout
      BY <2>1 DEF SignInInv, CacheInv
    <2>3. replaced'[discCache.doc] \in {now, replaced[discCache.doc]}
      BY <1>3, <2>2, SignInAssumption
    <2>4. /\ now \in Nat /\ replaced[discCache.doc] \in Nat
          /\ TTL \in Nat /\ FetchTimeout \in Nat
      BY <1>1, <2>2, SignInAssumption DEF Never
    <2>5. discCache.exp <= replaced'[discCache.doc] + TTL + FetchTimeout
      BY <2>2, <2>3, <2>4
    <2> QED
      BY <1>1, <2>2, <2>5 DEF CacheInv
  <1>6. ASSUME NEW l \in Logins
        PROVE  Sound(login'[l], now', replaced', provider'.published) /\ VerifiedIsVouched(l)'
    <2> DEFINE r == login[l]
    <2>1. Sound(r, now, replaced, provider.published) /\ VerifiedIsVouched(l)
      BY DEF SignInInv, LoginsInv
    <2> HIDE DEF r
    <2>2. \A d \in 0..MaxDoc : replaced'[d] \in {now, replaced[d]}
      BY <1>3
    <2>3. Sound(r, now, replaced', provider.published)
      BY <1>1, <2>1, <2>2, SignInAssumption DEF Sound
    <2> QED
      BY <1>1, <1>2, <2>1, <2>3 DEF r, VerifiedIsVouched
  <1>7. login' = [l \in Logins |-> login'[l]]
    BY <1>1 DEF SignInInv, LoginsInv
  <1> QED
    BY <1>4, <1>5, <1>6, <1>7 DEF SignInInv, LoginsInv

\* A new key is published beside the others; one goes only when no token waits for it.
LEMMA KeysStaySound ==
    ASSUME SignInInv, RotateKey \/ WithdrawKey
    PROVE  SignInInv'
  <1>1. UNCHANGED <<now, replaced, discCache, login>> /\ ProviderInv
    BY DEF RotateKey, WithdrawKey, SignInInv
  <1>2. /\ provider' \in [doc : 1..MaxDoc, signing : Nat, published : SUBSET Nat]
        /\ provider'.doc = provider.doc /\ provider'.signing \in provider'.published
        /\ \A l \in Logins : login[l].pc = "jwks" /\ login[l].key \in provider.published =>
              login[l].key \in provider'.published
    <2>1. CASE RotateKey
      <3> DEFINE next == provider.signing + 1
      <3>1. /\ provider.doc \in 1..MaxDoc /\ provider.signing \in Nat
            /\ provider.published \in SUBSET Nat
        BY <1>1 DEF ProviderInv
      <3>2. provider' = [provider EXCEPT !.signing = next,
                                         !.published = provider.published \union {next}]
        BY <1>1, <2>1 DEF RotateKey, ProviderInv
      <3>3. next \in Nat /\ provider.published \union {next} \in SUBSET Nat
        BY <3>1
      <3> HIDE DEF next
      <3> QED
        BY <1>1, <3>2, <3>3 DEF ProviderInv
    <2>2. CASE WithdrawKey
      BY <1>1, <2>2 DEF WithdrawKey, ProviderInv
    <2> QED
      BY <2>1, <2>2
  <1>3. ProviderInv' /\ CacheInv'
    BY <1>1, <1>2 DEF SignInInv, ProviderInv, CacheInv
  <1>4. ASSUME NEW l \in Logins
        PROVE  Sound(login'[l], now', replaced', provider'.published) /\ VerifiedIsVouched(l)'
    <2>1. Sound(login[l], now, replaced, provider.published) /\ VerifiedIsVouched(l)
      BY DEF SignInInv, LoginsInv
    <2> QED
      BY <1>1, <1>2, <2>1 DEF Sound, VerifiedIsVouched
  <1>5. login' = [l \in Logins |-> login'[l]]
    BY <1>1 DEF SignInInv, LoginsInv
  <1> QED
    BY <1>3, <1>4, <1>5 DEF SignInInv, LoginsInv

\* Time does not pass a fetch that would time out.
LEMMA PassingIsSound ==
    ASSUME SignInInv, TimePasses
    PROVE  SignInInv'
  <1>1. /\ UNCHANGED <<provider, replaced, discCache, login>>
        /\ now \in 0..MaxTime /\ now < MaxTime /\ now' = now + 1
        /\ \A l \in Logins : login[l].pc \in {"fetch", "store"} => now < login[l].began + FetchTimeout
    BY DEF TimePasses, SignInInv, ProviderInv
  <1>2. ProviderInv'
    BY <1>1, SignInAssumption DEF SignInInv, ProviderInv
  <1>3. CacheInv'
    BY <1>1, SignInAssumption DEF SignInInv, CacheInv
  <1>4. ASSUME NEW l \in Logins
        PROVE  Sound(login'[l], now', replaced', provider'.published) /\ VerifiedIsVouched(l)'
    <2>1. Sound(login[l], now, replaced, provider.published) /\ VerifiedIsVouched(l)
      BY DEF SignInInv, LoginsInv
    <2>2. login[l].pc \in {"fetch", "store"} => now < login[l].began + FetchTimeout
      BY <1>1
    <2> QED
      BY <1>1, <2>1, <2>2, SignInAssumption DEF Sound, VerifiedIsVouched
  <1>5. login' = [l \in Logins |-> login'[l]]
    BY <1>1 DEF SignInInv, LoginsInv
  <1> QED
    BY <1>2, <1>3, <1>4, <1>5 DEF SignInInv, LoginsInv

\* No step of a sign-in or of the provider makes an answer unsound.
LEMMA SignInStepIsSound == SignInInv /\ [SignInNext]_signInVars => SignInInv'
  <1> SUFFICES ASSUME SignInInv, [SignInNext]_signInVars PROVE SignInInv'
    OBVIOUS
  <1>1. ASSUME NEW l \in Logins, SignInStep(l) PROVE SignInInv'
    BY <1>1, ResolvingIsSound, FetchingIsSound, StoringIsSound, ExchangingIsSound,
       VerifyingIsSound, UserInfoIsSound, GitHubIsSound DEF SignInStep
  <1>2. CASE UNCHANGED signInVars
    BY <1>2 DEF signInVars, SignInInv, ProviderInv, CacheInv, LoginsInv, VerifiedIsVouched
  <1> QED
    BY <1>1, <1>2, PublishingIsSound, KeysStaySound, PassingIsSound DEF SignInNext

\* For any number of sign-ins, whatever the provider publishes, rotates and
\* withdraws between their steps, endpoints are no older than one life of the
\* cache and one fetch, a token the provider signed verifies, and an address is
\* called verified only when the provider has said so.
THEOREM SignInsStaySound == SignInSpec => []SignInsAreSound
  <1>1. SignInInv => SignInsAreSound
    BY DEF SignInInv, LoginsInv, SignInsAreSound, FreshDocument, HonestTokenVerifies, Sound
  <1> QED
    BY <1>1, SignInInitially, SignInStepIsSound, PTL DEF SignInSpec

-----------------------------------------------------------------------------
(* Rules: the parser recognises the grammar                                  *)

\* Every set of natural numbers with 0 and the successors of its members has all.
LEMMA AllNaturals ==
    ASSUME NEW S, 0 \in S, \A n \in Nat : n \in S => n + 1 \in S
    PROVE  Nat \subseteq S
  <1> DEFINE Less == OpToRel(<, Nat)
             T == Nat \ S
  <1> SUFFICES ASSUME T # {} PROVE FALSE
    OBVIOUS
  <1>1. IsWellFoundedOn(Less, Nat)
    BY NatLessThanWellFounded
  <1>2. T \subseteq Nat
    OBVIOUS
  <1>3. \A i, j \in Nat : <<i, j>> \in Less <=> i < j
    BY DEF OpToRel
  <1> HIDE DEF Less
  <1>4. PICK n \in T : \A m \in T : ~ (<<m, n>> \in Less)
    BY <1>1, <1>2, WFMin
  <1>5. n # 0 /\ n \in Nat /\ n - 1 \in Nat /\ n - 1 < n
    OBVIOUS
  <1>6. n - 1 \in S
    BY <1>3, <1>4, <1>5
  <1> QED
    BY <1>4, <1>5, <1>6

\* The places of a rule where something may begin, and where it may end.
Places(rule) == 1..(Len(rule) + 1)
Ends(rule, i) == {Err} \union ((i + 1)..(Len(rule) + 1))

\* expect moves over a token of the kinds, and there is none at the end.
LEMMA Expecting ==
    ASSUME NEW rule \in Seq(RuleTokens), NEW i \in 0..(Len(rule) + 1), NEW kinds \in SUBSET RuleTokens
    PROVE  /\ i \in 1..Len(rule) /\ rule[i] \in kinds => expect(rule, i, kinds) = i + 1
           /\ ~ (i \in 1..Len(rule) /\ rule[i] \in kinds) => expect(rule, i, kinds) = Err
  <1>1. Eof \notin kinds
    BY DEF RuleTokens, Eof
  <1>2. DOMAIN rule = 1..Len(rule) /\ Len(rule) \in Nat
    OBVIOUS
  <1> QED
    BY <1>1, <1>2 DEF expect, Cur, Err

\* What one token is.
LEMMA CurrentToken ==
    ASSUME NEW rule \in Seq(RuleTokens), NEW i \in Places(rule), NEW token \in RuleTokens
    PROVE  Cur(rule, i) = token <=> i \in 1..Len(rule) /\ rule[i] = token
  <1>1. token # Eof
    BY DEF RuleTokens, Eof
  <1>2. DOMAIN rule = 1..Len(rule)
    OBVIOUS
  <1> QED
    BY <1>1, <1>2 DEF Cur

\* A field of the subject or the object, and one of its free attributes.
Field(rule, i) ==
    /\ i + 4 <= Len(rule)
    /\ rule[i] = "r" /\ rule[i + 1] = "." /\ rule[i + 3] = "."
    /\ rule[i + 2] \in {"sub", "obj"} /\ rule[i + 4] \in allowedFields

Attribute(rule, i) ==
    /\ i + 6 <= Len(rule)
    /\ rule[i] = "r" /\ rule[i + 1] = "." /\ rule[i + 3] = "."
    /\ rule[i + 2] \in {"sub", "obj"} /\ rule[i + 4] = "Attrs"
    /\ rule[i + 5] = "." /\ rule[i + 6] \in idents

\* parseAttr reads one of the two or fails.
LEMMA ReadingAttributes ==
    ASSUME NEW rule \in Seq(RuleTokens), NEW i \in Places(rule)
    PROVE  /\ Field(rule, i) => parseAttr(rule, i) = i + 5
           /\ Attribute(rule, i) => parseAttr(rule, i) = i + 7
           /\ ~Field(rule, i) /\ ~Attribute(rule, i) => parseAttr(rule, i) = Err
  <1> DEFINE n == Len(rule)
             one == expect(rule, i, {"r"})
             two == expect(rule, one, {"."})
             target == expect(rule, two, {"sub", "obj"})
             dot == expect(rule, target, {"."})
  <1>1. n \in Nat /\ i \in 1..(n + 1)
    BY DEF Places
  <1>2. /\ {"r"} \subseteq RuleTokens /\ {"."} \subseteq RuleTokens
        /\ {"sub", "obj"} \subseteq RuleTokens
        /\ allowedFields \subseteq RuleTokens /\ idents \subseteq RuleTokens
        /\ "Attrs" \in RuleTokens /\ "Attrs" \notin allowedFields
    BY DEF RuleTokens, allowedFields, idents
  <1>3. one = IF i \in 1..n /\ rule[i] = "r" THEN i + 1 ELSE Err
    BY <1>1, <1>2, Expecting
  <1>4. one \in 0..(n + 1)
    BY <1>1, <1>3 DEF Err
  <1>5. two = IF one \in 1..n /\ rule[one] = "." THEN one + 1 ELSE Err
    BY <1>2, <1>4, Expecting
  <1>6. two \in 0..(n + 1)
    BY <1>1, <1>4, <1>5 DEF Err
  <1>7. target = IF two \in 1..n /\ rule[two] \in {"sub", "obj"} THEN two + 1 ELSE Err
    BY <1>2, <1>6, Expecting
  <1>8. target \in 0..(n + 1)
    BY <1>1, <1>6, <1>7 DEF Err
  <1>9. dot = IF target \in 1..n /\ rule[target] = "." THEN target + 1 ELSE Err
    BY <1>2, <1>8, Expecting
  <1>10. dot \in 0..(n + 1)
    BY <1>1, <1>8, <1>9 DEF Err
  <1> DEFINE begun == /\ i + 3 <= n
                      /\ rule[i] = "r" /\ rule[i + 1] = "." /\ rule[i + 3] = "."
                      /\ rule[i + 2] \in {"sub", "obj"}
  <1> DEFINE free == dot # Err /\ Cur(rule, dot) = "Attrs"
  <1>11. parseAttr(rule, i) = IF free THEN expect(rule, expect(rule, dot + 1, {"."}), idents)
                                      ELSE expect(rule, dot, allowedFields)
    BY DEF parseAttr
  <1> HIDE DEF n, one, two, target, dot
  <1>12. dot = IF begun THEN i + 4 ELSE Err
    BY <1>1, <1>3, <1>5, <1>7, <1>9 DEF Err
  <1>13. Len(rule) = n
    BY DEF n
  <1>14. CASE free
    <2>1. dot \in 1..n /\ rule[dot] = "Attrs"
      BY <1>2, <1>10, <1>13, <1>14, CurrentToken DEF Places, Err
    <2>2. begun /\ dot = i + 4
      BY <1>12, <1>14
    <2> DEFINE last == expect(rule, dot + 1, {"."})
    <2>3. dot + 1 \in 0..(n + 1)
      BY <1>1, <2>1
    <2>4. last = IF dot + 1 \in 1..n /\ rule[dot + 1] = "." THEN dot + 2 ELSE Err
      BY <1>2, <1>13, <2>1, <2>3, Expecting
    <2>5. last \in 0..(n + 1)
      BY <1>1, <2>1, <2>4 DEF Err
    <2>6. expect(rule, last, idents) =
              IF last \in 1..n /\ rule[last] \in idents THEN last + 1 ELSE Err
      BY <1>2, <1>13, <2>5, Expecting
    <2>7. parseAttr(rule, i) = expect(rule, last, idents)
      BY <1>11, <1>14
    <2> HIDE DEF last
    <2>8. ~Field(rule, i)
      BY <1>2, <2>1, <2>2 DEF Field
    <2>9. dot = i + 4 /\ dot + 1 = i + 5 /\ dot + 2 = i + 6
      BY <1>1, <2>2
    <2>10. CASE Attribute(rule, i)
      <3>1. i + 6 <= n /\ rule[i + 5] = "." /\ rule[i + 6] \in idents
        BY <1>13, <2>10 DEF Attribute
      <3>2. dot + 1 \in 1..n /\ rule[dot + 1] = "."
        BY <1>1, <2>9, <3>1
      <3>3. last = i + 6 /\ last \in 1..n
        BY <1>1, <2>4, <2>9, <3>1, <3>2
      <3>4. expect(rule, last, idents) = i + 7
        BY <1>1, <2>6, <3>1, <3>3
      <3> QED
        BY <2>7, <2>8, <2>10, <3>4
    <2>11. CASE ~Attribute(rule, i)
      <3>1. ~ (i + 6 <= n /\ rule[i + 5] = "." /\ rule[i + 6] \in idents)
        BY <1>13, <2>1, <2>2, <2>9, <2>11 DEF Attribute
      <3>2. ASSUME last \in 1..n, rule[last] \in idents PROVE FALSE
        <4>1. last = dot + 2 /\ dot + 1 \in 1..n /\ rule[dot + 1] = "."
          BY <1>1, <2>4, <3>2 DEF Err
        <4>2. last = i + 6 /\ rule[i + 5] = "." /\ rule[i + 6] \in idents /\ i + 6 <= n
          BY <1>1, <2>9, <3>2, <4>1
        <4> QED
          BY <3>1, <4>2
      <3> QED
        BY <2>6, <2>7, <2>8, <2>11, <3>2
    <2> QED
      BY <2>10, <2>11
  <1>15. CASE ~free
    <2>1. expect(rule, dot, allowedFields) =
              IF dot \in 1..n /\ rule[dot] \in allowedFields THEN dot + 1 ELSE Err
      BY <1>2, <1>10, <1>13, Expecting
    <2>2. parseAttr(rule, i) = expect(rule, dot, allowedFields)
      BY <1>11, <1>15
    <2>3. ~Attribute(rule, i)
      <3> SUFFICES ASSUME Attribute(rule, i) PROVE FALSE
        OBVIOUS
      <3>1. begun /\ i + 6 <= n /\ rule[i + 4] = "Attrs"
        BY <1>1, <1>13 DEF Attribute
      <3>2. dot = i + 4 /\ dot \in 1..n /\ dot # Err
        BY <1>1, <1>12, <3>1 DEF Err
      <3>3. dot \in Places(rule) /\ Len(rule) = n
        BY <1>13, <3>2 DEF Places
      <3>4. Cur(rule, dot) = "Attrs"
        BY <1>2, <3>1, <3>2, <3>3, CurrentToken
      <3> QED
        BY <1>15, <3>2, <3>4
    <2>4. Field(rule, i) <=> dot \in 1..n /\ rule[dot] \in allowedFields
      BY <1>1, <1>12, <1>13 DEF Field, Err
    <2>5. Field(rule, i) => dot + 1 = i + 5
      BY <1>1, <1>12, <2>4 DEF Err
    <2> QED
      BY <2>1, <2>2, <2>3, <2>4, <2>5
  <1> QED
    BY <1>14, <1>15

\* What the equations of parse say of at, and those of Derives of d.
Reading(rule, at) ==
    /\ \A proc \in Procedures : at[Err][proc] = Err
    /\ \A i \in Places(rule) :
          /\ at[i]["expr"] = parseExpr(rule, at, i)
          /\ at[i]["primary"] = parsePrimary(rule, at, i)
          /\ at[i]["array"] = parseArray(rule, at, i)
          /\ at[i]["more"] = parseMore(rule, at, i)

Grammar(rule, by, d) ==
    \A i, j \in Places(rule) :
        /\ d[<<i, j>>]["expr"] <=> Expression(rule, by, d, i, j)
        /\ d[<<i, j>>]["operand"] <=> Operand(rule, by, d, i, j)
        /\ d[<<i, j>>]["list"] <=> List(rule, by, d, i, j)

\* What is read from place i goes on, and the grammar derives it.
ReadRight(rule, at, d, i) ==
    /\ \A proc \in Procedures : at[i][proc] \in Ends(rule, i)
    /\ at[i]["expr"] # Err => d[<<i, at[i]["expr"]>>]["expr"]
    /\ at[i]["primary"] # Err => d[<<i, at[i]["primary"]>>]["operand"]
    /\ at[i]["array"] # Err =>
          /\ rule[at[i]["array"] - 1] = "]"
          /\ at[i]["array"] = i + 1 \/ d[<<i, at[i]["array"] - 1>>]["list"]
    /\ at[i]["more"] # Err =>
          /\ rule[at[i]["more"] - 1] = "]"
          /\ \/ at[i]["more"] = i + 1
             \/ /\ rule[i] = "comma" /\ i + 3 <= at[i]["more"]
                /\ d[<<i + 1, at[i]["more"] - 1>>]["list"]

\* An operand, if what is read further on is right.
LEMMA PrimaryIsRight ==
    ASSUME NEW rule \in Seq(RuleTokens), NEW at, NEW d, Reading(rule, at), Grammar(rule, "parser", d),
           NEW i \in Places(rule),
           \A k \in Places(rule) : k > i => ReadRight(rule, at, d, k)
    PROVE  /\ at[i]["primary"] \in Ends(rule, i)
           /\ at[i]["primary"] # Err => d[<<i, at[i]["primary"]>>]["operand"]
  <1> DEFINE n == Len(rule)
             j == at[i]["primary"]
  <1>1. n \in Nat /\ Places(rule) = 1..(n + 1) /\ i \in 1..(n + 1) /\ Err = 0
    BY DEF Places, Err
  <1>2. j = parsePrimary(rule, at, i)
    BY DEF Reading
  <1>3. {"r", "[", "(", ")"} \union Literals \subseteq RuleTokens
    BY DEF RuleTokens, Literals, Operators
  <1>4. ASSUME Operand(rule, "parser", d, i, j), j \in Places(rule)
        PROVE  d[<<i, j>>]["operand"]
    BY <1>4 DEF Grammar
  <1>5. Ends(rule, i) = {0} \union ((i + 1)..(n + 1))
    BY <1>1 DEF Ends
  <1>6. Procedures = {"expr", "primary", "array", "more"}
    BY DEF Procedures
  <1>7. CASE Cur(rule, i) = "r"
    <2>1. j = parseAttr(rule, i)
      BY <1>2, <1>7 DEF parsePrimary, Literals
    <2>2. CASE Field(rule, i)
      <3>1. j = i + 5 /\ i + 4 <= n
        BY <2>1, <2>2, ReadingAttributes DEF Field
      <3>2. Operand(rule, "parser", d, i, j)
        BY <2>2, <3>1 DEF Field, Operand
      <3> QED
        BY <1>1, <1>4, <1>5, <3>1, <3>2
    <2>3. CASE Attribute(rule, i)
      <3>1. j = i + 7 /\ i + 6 <= n
        BY <2>1, <2>3, ReadingAttributes DEF Attribute
      <3>2. Operand(rule, "parser", d, i, j)
        BY <2>3, <3>1 DEF Attribute, Operand
      <3> QED
        BY <1>1, <1>4, <1>5, <3>1, <3>2
    <2>4. CASE ~Field(rule, i) /\ ~Attribute(rule, i)
      BY <1>1, <1>5, <2>1, <2>4, ReadingAttributes
    <2> QED
      BY <2>2, <2>3, <2>4
  <1>8. CASE Cur(rule, i) \in Literals
    <2>1. j = i + 1 /\ i \in 1..n /\ rule[i] \in Literals
      BY <1>2, <1>3, <1>8, CurrentToken DEF parsePrimary, Literals
    <2>2. Operand(rule, "parser", d, i, j)
      BY <2>1 DEF Operand
    <2> QED
      BY <1>1, <1>4, <1>5, <2>1, <2>2
  <1>9. CASE Cur(rule, i) = "["
    <2>1. j = at[i + 1]["array"] /\ i \in 1..n /\ rule[i] = "["
      BY <1>2, <1>3, <1>9, CurrentToken DEF parsePrimary, Literals
    <2>2. i + 1 \in Places(rule) /\ i + 1 > i
      BY <1>1, <2>1
    <2>3. ReadRight(rule, at, d, i + 1)
      BY <2>2
    <2>4. j \in {0} \union ((i + 2)..(n + 1))
      <3>1. at[i + 1]["array"] \in Ends(rule, i + 1)
        BY <1>6, <2>3 DEF ReadRight
      <3> QED
        BY <1>1, <2>1, <3>1 DEF Ends
    <2>5. ASSUME j # Err PROVE Operand(rule, "parser", d, i, j)
      <3>1. rule[j - 1] = "]" /\ (j = i + 2 \/ d[<<i + 1, j - 1>>]["list"])
        <4>1. /\ rule[at[i + 1]["array"] - 1] = "]"
              /\ \/ at[i + 1]["array"] = (i + 1) + 1
                 \/ d[<<i + 1, at[i + 1]["array"] - 1>>]["list"]
          BY <2>1, <2>3, <2>5 DEF ReadRight
        <4> QED
          BY <1>1, <2>1, <4>1
      <3>2. j - i >= 2
        BY <1>1, <2>4, <2>5
      <3> QED
        BY <2>1, <3>1, <3>2 DEF Operand
    <2> QED
      BY <1>1, <1>4, <1>5, <2>4, <2>5
  <1>10. CASE Cur(rule, i) = "("
    <2> DEFINE m == at[i + 1]["expr"]
    <2>1. j = expect(rule, m, {")"}) /\ i \in 1..n /\ rule[i] = "("
      BY <1>2, <1>3, <1>10, CurrentToken DEF parsePrimary, Literals
    <2>2. i + 1 \in Places(rule) /\ i + 1 > i
      BY <1>1, <2>1
    <2>3. ReadRight(rule, at, d, i + 1)
      BY <2>2
    <2>4. m \in {0} \union ((i + 2)..(n + 1))
      <3>1. m \in Ends(rule, i + 1)
        BY <1>6, <2>3 DEF ReadRight
      <3> QED
        BY <1>1, <2>1, <3>1 DEF Ends
    <2>5. m # Err => d[<<i + 1, m>>]["expr"]
      BY <2>3 DEF ReadRight
    <2> HIDE DEF m
    <2>6. j = IF m \in 1..n /\ rule[m] = ")" THEN m + 1 ELSE Err
      <3>1. m \in 0..(n + 1) /\ {")"} \in SUBSET RuleTokens
        BY <1>1, <1>3, <2>4
      <3> QED
        BY <2>1, <3>1, Expecting
    <2>7. ASSUME j # Err PROVE Operand(rule, "parser", d, i, j)
      <3>1. j = m + 1 /\ m # Err /\ rule[m] = ")" /\ m = j - 1 /\ j - i >= 2
        BY <1>1, <2>4, <2>6, <2>7
      <3>2. InParens(rule, d, i, j)
        BY <2>1, <2>5, <3>1 DEF InParens
      <3> QED
        BY <3>2 DEF Operand
    <2>8. j \in {0} \union ((i + 1)..(n + 1))
      BY <1>1, <2>4, <2>6
    <2> QED
      BY <1>1, <1>4, <1>5, <2>7, <2>8
  <1>11. CASE Cur(rule, i) \notin {"r", "[", "("} \union Literals
    <2>1. j = Err
      BY <1>2, <1>11 DEF parsePrimary, Literals
    <2> QED
      BY <1>1, <1>5, <2>1
  <1> QED
    BY <1>7, <1>8, <1>9, <1>10, <1>11

\* An operand and what follows it inside brackets make a list.
LEMMA RestIsRight ==
    ASSUME NEW rule \in Seq(RuleTokens), NEW at, NEW d, Reading(rule, at), Grammar(rule, "parser", d),
           NEW i \in Places(rule), NEW k \in Places(rule), i < k,
           ReadRight(rule, at, d, k), d[<<i, k>>]["operand"], at[k]["more"] # Err
    PROVE  /\ at[k]["more"] \in Ends(rule, k)
           /\ rule[at[k]["more"] - 1] = "]"
           /\ d[<<i, at[k]["more"] - 1>>]["list"]
  <1> DEFINE n == Len(rule)
             j == at[k]["more"]
  <1>1. n \in Nat /\ Places(rule) = 1..(n + 1) /\ Err = 0
    BY DEF Places, Err
  <1>2. j \in Ends(rule, k)
    BY DEF ReadRight, Procedures
  <1>3. j \in (k + 1)..(n + 1)
    BY <1>1, <1>2 DEF Ends
  <1>4. /\ rule[j - 1] = "]"
        /\ j = k + 1 \/ (rule[k] = "comma" /\ k + 3 <= j /\ d[<<k + 1, j - 1>>]["list"])
    BY DEF ReadRight
  <1> HIDE DEF j
  <1>5. j - 1 \in Places(rule) /\ i \in Nat /\ k \in Nat /\ j \in Nat /\ i < k
    BY <1>1, <1>3
  <1>6. List(rule, "parser", d, i, j - 1)
    <2>1. CASE j = k + 1
      <3>1. j - 1 = k
        BY <1>1, <2>1
      <3>2. Operand(rule, "parser", d, i, k)
        BY DEF Grammar
      <3> QED
        BY <3>1, <3>2 DEF List
    <2>2. CASE rule[k] = "comma" /\ k + 3 <= j /\ d[<<k + 1, j - 1>>]["list"]
      <3>1. k \in i + 1 .. (j - 1) - 2
        <4>1. k + 3 <= j /\ i + 1 <= k /\ k <= (j - 1) - 2
          BY <1>5, <2>2
        <4> QED
          BY <1>5, <4>1
      <3> QED
        BY <2>2, <3>1 DEF List
    <2> QED
      BY <1>4, <2>1, <2>2
  <1>7. d[<<i, j - 1>>]["list"]
    BY <1>5, <1>6 DEF Grammar
  <1> QED
    BY <1>2, <1>4, <1>7 DEF j

\* An expression, if what is read further on is right.
LEMMA ExprIsRight ==
    ASSUME NEW rule \in Seq(RuleTokens), NEW at, NEW d, Reading(rule, at), Grammar(rule, "parser", d),
           NEW i \in Places(rule),
           \A k \in Places(rule) : k > i => ReadRight(rule, at, d, k)
    PROVE  /\ at[i]["expr"] \in Ends(rule, i)
           /\ at[i]["expr"] # Err => d[<<i, at[i]["expr"]>>]["expr"]
  <1> DEFINE n == Len(rule)
             j == at[i]["expr"]
  <1>1. n \in Nat /\ Places(rule) = 1..(n + 1) /\ i \in 1..(n + 1) /\ Err = 0
    BY DEF Places, Err
  <1>2. j = parseExpr(rule, at, i)
    BY DEF Reading
  <1>3. {"(", ")"} \union Operators \subseteq RuleTokens
    BY DEF RuleTokens, Literals, Operators
  <1>4. ASSUME Expression(rule, "parser", d, i, j), j \in Places(rule)
        PROVE  d[<<i, j>>]["expr"]
    BY <1>4 DEF Grammar
  <1>5. Ends(rule, i) = {0} \union ((i + 1)..(n + 1))
    BY <1>1 DEF Ends
  <1>6. Procedures = {"expr", "primary", "array", "more"}
    BY DEF Procedures
  <1>7. CASE Cur(rule, i) = "("
    <2> DEFINE m == at[i + 1]["expr"]
    <2>1. j = expect(rule, m, {")"}) /\ i \in 1..n /\ rule[i] = "("
      BY <1>2, <1>3, <1>7, CurrentToken DEF parseExpr
    <2>2. i + 1 \in Places(rule) /\ i + 1 > i
      BY <1>1, <2>1
    <2>3. ReadRight(rule, at, d, i + 1)
      BY <2>2
    <2>4. m \in {0} \union ((i + 2)..(n + 1))
      <3>1. m \in Ends(rule, i + 1)
        BY <1>6, <2>3 DEF ReadRight
      <3> QED
        BY <1>1, <2>1, <3>1 DEF Ends
    <2>5. m # Err => d[<<i + 1, m>>]["expr"]
      BY <2>3 DEF ReadRight
    <2> HIDE DEF m
    <2>6. j = IF m \in 1..n /\ rule[m] = ")" THEN m + 1 ELSE Err
      <3>1. m \in 0..(n + 1) /\ {")"} \in SUBSET RuleTokens
        BY <1>1, <1>3, <2>4
      <3> QED
        BY <2>1, <3>1, Expecting
    <2>7. ASSUME j # Err PROVE Expression(rule, "parser", d, i, j)
      <3>1. j = m + 1 /\ m # Err /\ rule[m] = ")" /\ m = j - 1 /\ j - i >= 2
        BY <1>1, <2>4, <2>6, <2>7
      <3>2. InParens(rule, d, i, j)
        BY <2>1, <2>5, <3>1 DEF InParens
      <3> QED
        BY <3>2 DEF Expression
    <2>8. j \in {0} \union ((i + 1)..(n + 1))
      BY <1>1, <2>4, <2>6
    <2> QED
      BY <1>1, <1>4, <1>5, <2>7, <2>8
  <1>8. CASE Cur(rule, i) # "("
    <2> DEFINE p == at[i]["primary"]
               op == expect(rule, p, Operators)
    <2>1. j = at[op]["primary"]
      <3>1. p = parsePrimary(rule, at, i)
        BY DEF Reading
      <3> QED
        BY <1>2, <1>8, <3>1 DEF parseExpr
    <2>2. p \in Ends(rule, i) /\ (p # Err => d[<<i, p>>]["operand"])
      BY PrimaryIsRight
    <2> HIDE DEF p
    <2>3. p \in {0} \union ((i + 1)..(n + 1))
      BY <1>5, <2>2
    <2>4. op = IF p \in 1..n /\ rule[p] \in Operators THEN p + 1 ELSE Err
      <3>1. p \in 0..(n + 1) /\ Operators \in SUBSET RuleTokens
        BY <1>1, <1>3, <2>3
      <3> QED
        BY <3>1, Expecting
    <2> HIDE DEF op
    <2>5. CASE op = Err
      <3>1. j = Err
        BY <1>6, <2>1, <2>5 DEF Reading
      <3> QED
        BY <1>1, <1>5, <3>1
    <2>6. CASE op # Err
      <3>1. /\ p \in 1..n /\ rule[p] \in Operators /\ op = p + 1
            /\ op \in Places(rule) /\ op > i /\ op \in Nat
        BY <1>1, <2>3, <2>4, <2>6
      <3>2. ReadRight(rule, at, d, op)
        BY <3>1
      <3>3. j \in Ends(rule, op) /\ (j # Err => d[<<op, j>>]["operand"])
        BY <1>6, <2>1, <3>2 DEF ReadRight
      <3>4. j \in {0} \union ((op + 1)..(n + 1))
        BY <1>1, <3>1, <3>3 DEF Ends
      <3>5. ASSUME j # Err PROVE Expression(rule, "parser", d, i, j)
        <4>1. p \in i + 1 .. j - 2
          BY <1>1, <2>3, <3>1, <3>4, <3>5
        <4>2. rule[i] # "("
          BY <1>1, <1>3, <1>8, <3>1, <4>1, CurrentToken
        <4>3. d[<<i, p>>]["operand"] /\ d[<<p + 1, j>>]["operand"]
          BY <1>1, <2>2, <3>1, <3>3, <3>5
        <4> QED
          BY <3>1, <4>1, <4>2, <4>3 DEF Expression
      <3>6. j \in {0} \union ((i + 1)..(n + 1))
        BY <1>1, <3>1, <3>4
      <3> QED
        BY <1>1, <1>4, <1>5, <3>5, <3>6
    <2> QED
      BY <2>5, <2>6
  <1> QED
    BY <1>7, <1>8

\* What stands inside brackets, and what stands after an operand of theirs.
LEMMA ArrayIsRight ==
    ASSUME NEW rule \in Seq(RuleTokens), NEW at, NEW d, Reading(rule, at), Grammar(rule, "parser", d),
           NEW i \in Places(rule),
           \A k \in Places(rule) : k > i => ReadRight(rule, at, d, k)
    PROVE  /\ at[i]["array"] \in Ends(rule, i)
           /\ at[i]["array"] # Err =>
                 /\ rule[at[i]["array"] - 1] = "]"
                 /\ at[i]["array"] = i + 1 \/ d[<<i, at[i]["array"] - 1>>]["list"]
  <1> DEFINE n == Len(rule)
             j == at[i]["array"]
  <1>1. n \in Nat /\ Places(rule) = 1..(n + 1) /\ i \in 1..(n + 1) /\ Err = 0
    BY DEF Places, Err
  <1>2. j = parseArray(rule, at, i)
    BY DEF Reading
  <1>3. "]" \in RuleTokens
    BY DEF RuleTokens, Literals, Operators
  <1>5. Ends(rule, i) = {0} \union ((i + 1)..(n + 1))
    BY <1>1 DEF Ends
  <1>6. Procedures = {"expr", "primary", "array", "more"}
    BY DEF Procedures
  <1>7. CASE Cur(rule, i) = "]"
    <2>1. j = i + 1 /\ i \in 1..n /\ rule[i] = "]"
      BY <1>2, <1>3, <1>7, CurrentToken DEF parseArray
    <2>2. j - 1 = i
      BY <1>1, <2>1
    <2> QED
      BY <1>1, <1>5, <2>1, <2>2
  <1>8. CASE Cur(rule, i) # "]"
    <2> DEFINE k == at[i]["primary"]
    <2>1. j = at[k]["more"]
      <3>1. k = parsePrimary(rule, at, i)
        BY DEF Reading
      <3> QED
        BY <1>2, <1>8, <3>1 DEF parseArray
    <2>2. k \in Ends(rule, i) /\ (k # Err => d[<<i, k>>]["operand"])
      BY PrimaryIsRight
    <2> HIDE DEF k
    <2>3. CASE k = Err
      <3>1. j = Err
        BY <1>6, <2>1, <2>3 DEF Reading
      <3> QED
        BY <1>1, <1>5, <3>1
    <2>4. CASE k # Err
      <3>1. k \in Places(rule) /\ i < k /\ k \in Nat
        BY <1>1, <1>5, <2>2, <2>4
      <3>2. ReadRight(rule, at, d, k)
        BY <3>1
      <3>3. j \in Ends(rule, k)
        BY <1>6, <2>1, <3>2 DEF ReadRight
      <3>4. j \in {0} \union ((i + 1)..(n + 1))
        BY <1>1, <3>1, <3>3 DEF Ends
      <3>5. j # Err => rule[j - 1] = "]" /\ d[<<i, j - 1>>]["list"]
        <4>1. d[<<i, k>>]["operand"] /\ j = at[k]["more"]
          BY <2>1, <2>2, <2>4
        <4> HIDE DEF j
        <4> SUFFICES ASSUME j # Err PROVE rule[j - 1] = "]" /\ d[<<i, j - 1>>]["list"]
          OBVIOUS
        <4>2. at[k]["more"] # Err /\ k \in Places(rule) /\ i < k
          BY <3>1, <4>1
        <4>3. /\ rule[at[k]["more"] - 1] = "]"
              /\ d[<<i, at[k]["more"] - 1>>]["list"]
          BY <3>2, <4>1, <4>2, RestIsRight
        <4> QED
          BY <4>1, <4>3
      <3> QED
        BY <1>5, <3>4, <3>5
    <2> QED
      BY <2>3, <2>4
  <1> QED
    BY <1>7, <1>8

LEMMA MoreIsRight ==
    ASSUME NEW rule \in Seq(RuleTokens), NEW at, NEW d, Reading(rule, at), Grammar(rule, "parser", d),
           NEW i \in Places(rule),
           \A k \in Places(rule) : k > i => ReadRight(rule, at, d, k)
    PROVE  /\ at[i]["more"] \in Ends(rule, i)
           /\ at[i]["more"] # Err =>
                 /\ rule[at[i]["more"] - 1] = "]"
                 /\ \/ at[i]["more"] = i + 1
                    \/ /\ rule[i] = "comma" /\ i + 3 <= at[i]["more"]
                       /\ d[<<i + 1, at[i]["more"] - 1>>]["list"]
  <1> DEFINE n == Len(rule)
             j == at[i]["more"]
             c == expect(rule, i, {"comma"})
             k == at[c]["primary"]
  <1>1. n \in Nat /\ Places(rule) = 1..(n + 1) /\ i \in 1..(n + 1) /\ Err = 0
    BY DEF Places, Err
  <1>2. j = parseMore(rule, at, i)
    BY DEF Reading
  <1>4. SUFFICES /\ j \in Ends(rule, i)
                 /\ j # Err =>
                       /\ rule[j - 1] = "]"
                       /\ \/ j = i + 1
                          \/ /\ rule[i] = "comma" /\ i + 3 <= j
                             /\ d[<<i + 1, j - 1>>]["list"]
    OBVIOUS
  <1> HIDE DEF j
  <1>3. "]" \in RuleTokens /\ {"comma"} \in SUBSET RuleTokens
    BY DEF RuleTokens, Literals, Operators
  <1>5. Ends(rule, i) = {0} \union ((i + 1)..(n + 1))
    BY <1>1 DEF Ends
  <1>6. Procedures = {"expr", "primary", "array", "more"}
    BY DEF Procedures
  <1>7. CASE Cur(rule, i) = "]"
    <2>1. j = i + 1 /\ i \in 1..n /\ rule[i] = "]"
      BY <1>2, <1>3, <1>7, CurrentToken DEF parseMore
    <2>2. j - 1 = i
      BY <1>1, <2>1
    <2> QED
      BY <1>1, <1>5, <2>1, <2>2
  <1>8. CASE Cur(rule, i) # "]"
    <2>1. j = at[k]["more"]
      BY <1>2, <1>8 DEF parseMore
    <2>2. c = IF i \in 1..n /\ rule[i] = "comma" THEN i + 1 ELSE Err
      <3>1. i \in 0..(n + 1)
        BY <1>1
      <3> QED
        BY <1>3, <3>1, Expecting
    <2> HIDE DEF c, k
    <2>3. CASE c = Err
      <3>1. k = Err
        BY <1>6, <2>3 DEF k, Reading
      <3>2. j = Err
        BY <1>6, <2>1, <3>1 DEF Reading
      <3> QED
        BY <1>1, <1>5, <3>2
    <2>4. CASE c # Err
      <3>1. c = i + 1 /\ rule[i] = "comma" /\ c \in Places(rule) /\ c > i /\ c \in Nat
        <4>1. i \in 1..n /\ rule[i] = "comma" /\ c = i + 1
          BY <2>2, <2>4
        <4> QED
          BY <1>1, <4>1
      <3>2. ReadRight(rule, at, d, c)
        BY <3>1
      <3>3. k \in Ends(rule, c) /\ (k # Err => d[<<c, k>>]["operand"])
        BY <1>6, <3>2 DEF k, ReadRight
      <3>4. CASE k = Err
        <4>1. j = Err
          BY <1>6, <2>1, <3>4 DEF Reading
        <4> QED
          BY <1>1, <1>5, <4>1
      <3>5. CASE k # Err
        <4>1. k \in Places(rule) /\ c < k /\ k > i /\ k \in Nat
          <5>1. k \in {0} \union ((c + 1)..(n + 1))
            BY <1>1, <3>3 DEF Ends
          <5>2. c = i + 1 /\ c \in Nat /\ i \in Nat
            BY <1>1, <3>1
          <5> QED
            BY <1>1, <3>5, <5>1, <5>2
        <4>2. ReadRight(rule, at, d, k)
          BY <4>1
        <4>3. j \in Ends(rule, k)
          BY <1>6, <2>1, <4>2 DEF ReadRight
        <4>4. j \in {0} \union ((i + 3)..(n + 1))
          <5>1. j \in {0} \union ((k + 1)..(n + 1))
            BY <1>1, <4>3 DEF Ends
          <5>2. c = i + 1 /\ c \in Nat /\ i \in Nat
            BY <1>1, <3>1
          <5> QED
            BY <1>1, <4>1, <5>1, <5>2
        <4>5. j # Err => rule[j - 1] = "]" /\ d[<<c, j - 1>>]["list"]
          BY <2>1, <3>1, <3>3, <3>5, <4>1, <4>2, RestIsRight
        <4>6. j \in {0} \union ((i + 1)..(n + 1)) /\ (j # Err => i + 3 <= j)
          BY <1>1, <4>4
        <4> QED
          BY <1>5, <3>1, <4>5, <4>6
      <3> QED
        BY <3>4, <3>5
    <2> QED
      BY <2>3, <2>4
  <1> QED
    BY <1>7, <1>8

\* So all that the parser reads is right: from the end of the rule backwards.
LEMMA AllIsRight ==
    ASSUME NEW rule \in Seq(RuleTokens), NEW at, NEW d, Reading(rule, at), Grammar(rule, "parser", d),
           NEW i \in Places(rule)
    PROVE  ReadRight(rule, at, d, i)
  <1> DEFINE n == Len(rule)
             T == {m \in Nat : \A k \in Places(rule) : k > n + 1 - m => ReadRight(rule, at, d, k)}
  <1>1. n \in Nat /\ Places(rule) = 1..(n + 1)
    BY DEF Places
  <1>2. 0 \in T
    BY <1>1
  <1>3. ASSUME NEW m \in Nat, m \in T PROVE m + 1 \in T
    <2>1. \A k \in Places(rule) : k > n + 1 - m => ReadRight(rule, at, d, k)
      BY <1>3
    <2>2. ASSUME NEW k \in Places(rule), k > n + 1 - (m + 1) PROVE ReadRight(rule, at, d, k)
      <3>1. \A l \in Places(rule) : l > k => ReadRight(rule, at, d, l)
        BY <1>1, <2>1, <2>2
      <3>2. \A proc \in Procedures : at[k][proc] \in Ends(rule, k)
        BY <3>1, PrimaryIsRight, ExprIsRight, ArrayIsRight, MoreIsRight DEF Procedures
      <3>3. /\ at[k]["expr"] # Err => d[<<k, at[k]["expr"]>>]["expr"]
            /\ at[k]["primary"] # Err => d[<<k, at[k]["primary"]>>]["operand"]
        BY <3>1, PrimaryIsRight, ExprIsRight
      <3>4. at[k]["array"] # Err =>
              /\ rule[at[k]["array"] - 1] = "]"
              /\ at[k]["array"] = k + 1 \/ d[<<k, at[k]["array"] - 1>>]["list"]
        BY <3>1, ArrayIsRight
      <3>5. at[k]["more"] # Err =>
              /\ rule[at[k]["more"] - 1] = "]"
              /\ \/ at[k]["more"] = k + 1
                 \/ /\ rule[k] = "comma" /\ k + 3 <= at[k]["more"]
                    /\ d[<<k + 1, at[k]["more"] - 1>>]["list"]
        BY <3>1, MoreIsRight
      <3> QED
        BY <3>2, <3>3, <3>4, <3>5 DEF ReadRight
    <2> QED
      BY <2>2
  <1> HIDE DEF T
  <1>4. Nat \subseteq T
    BY <1>2, <1>3, AllNaturals
  <1>5. n + 1 \in T
    BY <1>1, <1>4
  <1> QED
    BY <1>1, <1>5 DEF T

\* What the grammar derives from the tokens i..j-1, the parser reads.
Complete(rule, at, d, i, j) ==
    /\ d[<<i, j>>]["expr"] => at[i]["expr"] = j
    /\ d[<<i, j>>]["operand"] => at[i]["primary"] = j /\ i < j /\ rule[i] # "]"
    /\ d[<<i, j>>]["list"] /\ j <= Len(rule) /\ rule[j] = "]" =>
          at[at[i]["primary"]]["more"] = j + 1 /\ i < j /\ rule[i] # "]"

LEMMA ParensAreRead ==
    ASSUME NEW rule \in Seq(RuleTokens), NEW at, NEW d, Reading(rule, at), Grammar(rule, "parser", d),
           NEW i \in Places(rule), NEW j \in Places(rule),
           \A k, l \in Places(rule) : l - k < j - i => Complete(rule, at, d, k, l),
           InParens(rule, d, i, j)
    PROVE  i \in 1..Len(rule) /\ i < j /\ expect(rule, at[i + 1]["expr"], {")"}) = j
  <1> DEFINE n == Len(rule)
             m == j - 1
  <1>1. n \in Nat /\ Places(rule) = 1..(n + 1) /\ i \in 1..(n + 1) /\ j \in 1..(n + 1)
    BY DEF Places
  <1>2. j - i >= 2 /\ rule[m] = ")" /\ d[<<i + 1, m>>]["expr"]
    BY DEF InParens
  <1> HIDE DEF m
  <1>3. m = j - 1
    BY DEF m
  <1>4. /\ i + 1 \in Places(rule) /\ m \in Places(rule) /\ m - (i + 1) < j - i
        /\ m \in 1..n /\ m + 1 = j /\ m \in 0..(n + 1)
    BY <1>1, <1>2, <1>3
  <1>5. at[i + 1]["expr"] = m
    BY <1>2, <1>4 DEF Complete
  <1>6. {")"} \in SUBSET RuleTokens
    BY DEF RuleTokens, Literals, Operators
  <1>7. expect(rule, m, {")"}) = m + 1
    BY <1>2, <1>4, <1>6, Expecting
  <1> QED
    BY <1>1, <1>2, <1>4, <1>5, <1>7

LEMMA OperandsAreRead ==
    ASSUME NEW rule \in Seq(RuleTokens), NEW at, NEW d, Reading(rule, at), Grammar(rule, "parser", d),
           NEW i \in Places(rule), NEW j \in Places(rule),
           \A k, l \in Places(rule) : l - k < j - i => Complete(rule, at, d, k, l),
           Operand(rule, "parser", d, i, j)
    PROVE  at[i]["primary"] = j /\ i < j /\ rule[i] # "]"
  <1> DEFINE n == Len(rule)
             p == at[i]["primary"]
  <1>1. n \in Nat /\ Places(rule) = 1..(n + 1) /\ i \in 1..(n + 1) /\ j \in 1..(n + 1)
    BY DEF Places
  <1>2. p = parsePrimary(rule, at, i)
    BY DEF Reading
  <1>3. {"r", "[", "]", "(", ")"} \union Literals \subseteq RuleTokens
    BY DEF RuleTokens, Literals, Operators
  <1> HIDE DEF p
  <1> SUFFICES p = j /\ i < j /\ rule[i] # "]"
    BY DEF p
  <1>4. CASE j = i + 1 /\ rule[i] \in Literals
    <2>1. i \in 1..n
      BY <1>1, <1>4
    <2>2. Cur(rule, i) \in Literals
      BY <1>3, <1>4, <2>1, CurrentToken
    <2>3. p = i + 1
      BY <1>2, <2>2 DEF parsePrimary, Literals
    <2> QED
      BY <1>1, <1>4, <2>3 DEF Literals
  <1>5. CASE InParens(rule, d, i, j)
    <2>1. i \in 1..Len(rule) /\ i < j /\ expect(rule, at[i + 1]["expr"], {")"}) = j
      BY <1>5, ParensAreRead
    <2>2. rule[i] = "("
      BY <1>5 DEF InParens
    <2>3. Cur(rule, i) = "("
      BY <1>3, <2>1, <2>2, CurrentToken
    <2>4. p = expect(rule, at[i + 1]["expr"], {")"})
      BY <1>2, <2>3 DEF parsePrimary, Literals
    <2> QED
      BY <2>1, <2>2, <2>4
  <1>6. ASSUME Field(rule, i), j = i + 5 PROVE p = j /\ i < j /\ rule[i] # "]"
    <2>1. rule[i] = "r" /\ i + 4 <= n
      BY <1>6 DEF Field
    <2>2. i \in 1..n /\ i < j
      BY <1>1, <1>6, <2>1
    <2>3. Cur(rule, i) = "r"
      BY <1>3, <2>1, <2>2, CurrentToken
    <2>4. p = parseAttr(rule, i)
      BY <1>2, <2>3 DEF parsePrimary, Literals
    <2>5. p = i + 5
      BY <1>6, <2>4, ReadingAttributes
    <2> QED
      BY <1>6, <2>1, <2>2, <2>5
  <1>7. ASSUME Attribute(rule, i), j = i + 7 PROVE p = j /\ i < j /\ rule[i] # "]"
    <2>1. rule[i] = "r" /\ i + 6 <= n
      BY <1>7 DEF Attribute
    <2>2. i \in 1..n /\ i < j
      BY <1>1, <1>7, <2>1
    <2>3. Cur(rule, i) = "r"
      BY <1>3, <2>1, <2>2, CurrentToken
    <2>4. p = parseAttr(rule, i)
      BY <1>2, <2>3 DEF parsePrimary, Literals
    <2>5. p = i + 7
      BY <1>7, <2>4, ReadingAttributes
    <2> QED
      BY <1>7, <2>1, <2>2, <2>5
  <1>8. CASE j = i + 5 /\ rule[i] = "r" /\ rule[i + 1] = "." /\ rule[i + 3] = "."
             /\ rule[i + 2] \in {"sub", "obj"} /\ rule[i + 4] \in allowedFields
    <2>1. i + 4 <= Len(rule)
      BY <1>1, <1>8
    <2>2. Field(rule, i)
      BY <1>8, <2>1 DEF Field
    <2> QED
      BY <1>6, <1>8, <2>2
  <1>9. CASE j = i + 7 /\ rule[i] = "r" /\ rule[i + 1] = "." /\ rule[i + 3] = "."
             /\ rule[i + 2] \in {"sub", "obj"} /\ rule[i + 4] = "Attrs"
             /\ rule[i + 5] = "." /\ rule[i + 6] \in idents
    <2>1. i + 6 <= Len(rule)
      BY <1>1, <1>9
    <2>2. Attribute(rule, i)
      BY <1>9, <2>1 DEF Attribute
    <2> QED
      BY <1>7, <1>9, <2>2
  <1>10. CASE /\ j - i >= 2 /\ rule[i] = "[" /\ rule[j - 1] = "]"
              /\ j = i + 2 \/ d[<<i + 1, j - 1>>]["list"]
    <2> DEFINE a == i + 1
               m == j - 1
    <2>1. /\ a \in Places(rule) /\ m \in Places(rule) /\ m - a < j - i
          /\ m \in 1..n /\ m + 1 = j /\ i \in 1..n /\ i < j /\ a \in 1..n
      BY <1>1, <1>10
    <2>2. p = at[a]["array"]
      <3>1. Cur(rule, i) = "["
        BY <1>3, <1>10, <2>1, CurrentToken
      <3> QED
        BY <1>2, <3>1 DEF parsePrimary, Literals
    <2>3. at[a]["array"] = parseArray(rule, at, a) /\ at[a]["primary"] = parsePrimary(rule, at, a)
      BY <2>1 DEF Reading
    <2>4. rule[m] = "]" /\ (j = i + 2 \/ d[<<a, m>>]["list"])
      BY <1>10
    <2>5. j = i + 2 => m = a /\ a + 1 = j
      BY <1>1
    <2> HIDE DEF a, m
    <2>6. CASE j = i + 2
      <3>1. Cur(rule, a) = "]"
        BY <1>3, <2>1, <2>4, <2>5, <2>6, CurrentToken
      <3>2. parseArray(rule, at, a) = a + 1
        BY <3>1 DEF parseArray
      <3> QED
        BY <1>10, <2>1, <2>2, <2>3, <2>5, <2>6, <3>2
    <2>7. CASE d[<<a, m>>]["list"]
      <3>1. Complete(rule, at, d, a, m)
        BY <2>1
      <3>2. m <= Len(rule)
        BY <1>1, <2>1
      <3>3. at[at[a]["primary"]]["more"] = m + 1 /\ rule[a] # "]"
        BY <2>4, <2>7, <3>1, <3>2 DEF Complete
      <3>4. Cur(rule, a) # "]"
        BY <1>3, <2>1, <3>3, CurrentToken
      <3>5. parseArray(rule, at, a) = at[at[a]["primary"]]["more"]
        BY <2>3, <3>4 DEF parseArray
      <3> QED
        BY <1>10, <2>1, <2>2, <2>3, <3>3, <3>5
    <2> QED
      BY <2>4, <2>6, <2>7
  <1> QED
    BY <1>4, <1>5, <1>8, <1>9, <1>10 DEF Operand

LEMMA ExpressionsAreRead ==
    ASSUME NEW rule \in Seq(RuleTokens), NEW at, NEW d, Reading(rule, at), Grammar(rule, "parser", d),
           NEW i \in Places(rule), NEW j \in Places(rule),
           \A k, l \in Places(rule) : l - k < j - i => Complete(rule, at, d, k, l),
           Expression(rule, "parser", d, i, j)
    PROVE  at[i]["expr"] = j
  <1> DEFINE n == Len(rule)
             p == at[i]["expr"]
  <1>1. n \in Nat /\ Places(rule) = 1..(n + 1) /\ i \in 1..(n + 1) /\ j \in 1..(n + 1)
    BY DEF Places
  <1>2. p = parseExpr(rule, at, i)
    BY DEF Reading
  <1>3. {"(", ")"} \union Operators \subseteq RuleTokens
    BY DEF RuleTokens, Literals, Operators
  <1> HIDE DEF p
  <1> SUFFICES p = j
    BY DEF p
  <1>4. CASE InParens(rule, d, i, j)
    <2>1. i \in 1..Len(rule) /\ i < j /\ expect(rule, at[i + 1]["expr"], {")"}) = j
      BY <1>4, ParensAreRead
    <2>2. rule[i] = "("
      BY <1>4 DEF InParens
    <2>3. Cur(rule, i) = "("
      BY <1>3, <2>1, <2>2, CurrentToken
    <2> QED
      BY <1>2, <2>1, <2>3 DEF parseExpr
  <1>5. ASSUME NEW k \in i + 1 .. j - 2, rule[k] \in Operators, rule[i] # "(",
               d[<<i, k>>]["operand"], d[<<k + 1, j>>]["operand"]
        PROVE  p = j
    <2>1. /\ k \in Places(rule) /\ k + 1 \in Places(rule) /\ k \in 1..n /\ k \in 0..(n + 1)
          /\ k - i < j - i /\ j - (k + 1) < j - i
      BY <1>1, <1>5
    <2>2. at[i]["primary"] = k /\ at[k + 1]["primary"] = j
      <3>1. Complete(rule, at, d, i, k) /\ Complete(rule, at, d, k + 1, j)
        BY <2>1
      <3> QED
        BY <1>5, <3>1 DEF Complete
    <2>3. Cur(rule, i) # "("
      BY <1>3, <1>5, CurrentToken
    <2>4. parsePrimary(rule, at, i) = k
      BY <2>2 DEF Reading
    <2>5. expect(rule, k, Operators) = k + 1
      <3>1. Operators \in SUBSET RuleTokens
        BY <1>3
      <3> QED
        BY <1>5, <2>1, <3>1, Expecting
    <2> QED
      BY <1>2, <2>2, <2>3, <2>4, <2>5 DEF parseExpr
  <1> QED
    BY <1>4, <1>5 DEF Expression

LEMMA ListsAreRead ==
    ASSUME NEW rule \in Seq(RuleTokens), NEW at, NEW d, Reading(rule, at), Grammar(rule, "parser", d),
           NEW i \in Places(rule), NEW j \in Places(rule),
           \A k, l \in Places(rule) : l - k < j - i => Complete(rule, at, d, k, l),
           List(rule, "parser", d, i, j), j <= Len(rule), rule[j] = "]"
    PROVE  at[at[i]["primary"]]["more"] = j + 1 /\ i < j /\ rule[i] # "]"
  <1> DEFINE n == Len(rule)
  <1>1. n \in Nat /\ Places(rule) = 1..(n + 1) /\ i \in 1..(n + 1) /\ j \in 1..n
    BY DEF Places
  <1>3. {"]", "comma"} \subseteq RuleTokens
    BY DEF RuleTokens, Literals, Operators
  <1>4. CASE Operand(rule, "parser", d, i, j)
    <2>1. at[i]["primary"] = j /\ i < j /\ rule[i] # "]"
      BY <1>4, OperandsAreRead, Z3T(60)
    <2>2. Cur(rule, j) = "]"
      BY <1>1, <1>3, CurrentToken
    <2>3. at[j]["more"] = parseMore(rule, at, j)
      BY DEF Reading
    <2> QED
      BY <2>1, <2>2, <2>3 DEF parseMore
  <1>5. ASSUME NEW k \in i + 1 .. j - 2, rule[k] = "comma",
               d[<<i, k>>]["operand"], d[<<k + 1, j>>]["list"]
        PROVE  at[at[i]["primary"]]["more"] = j + 1 /\ i < j /\ rule[i] # "]"
    <2>1. /\ k \in Places(rule) /\ k + 1 \in Places(rule) /\ k \in 1..n /\ k \in 0..(n + 1)
          /\ k - i < j - i /\ j - (k + 1) < j - i /\ i < j
      <3>1. k \in i + 1 .. j - 2 /\ i \in 1..(n + 1) /\ j \in 1..n
        BY <1>1
      <3>2. /\ k \in 1..n /\ k \in 1..(n + 1) /\ k + 1 \in 1..(n + 1) /\ k \in 0..(n + 1)
            /\ k - i < j - i /\ j - (k + 1) < j - i /\ i < j
        BY <1>1, <3>1
      <3> QED
        BY <1>1, <3>2
    <2>2. Complete(rule, at, d, i, k) /\ Complete(rule, at, d, k + 1, j)
      BY <2>1
    <2>3. at[i]["primary"] = k /\ rule[i] # "]"
      BY <1>5, <2>2 DEF Complete
    <2>4. at[at[k + 1]["primary"]]["more"] = j + 1
      BY <1>5, <2>2 DEF Complete
    <2>5. Cur(rule, k) # "]"
      BY <1>3, <1>5, <2>1, CurrentToken
    <2>6. expect(rule, k, {"comma"}) = k + 1
      <3>1. {"comma"} \in SUBSET RuleTokens
        BY <1>3
      <3> QED
        BY <1>5, <2>1, <3>1, Expecting
    <2>7. at[k]["more"] = parseMore(rule, at, k)
      BY <2>1 DEF Reading
    <2>8. parseMore(rule, at, k) = at[at[k + 1]["primary"]]["more"]
      BY <2>5, <2>6 DEF parseMore
    <2> QED
      BY <2>1, <2>3, <2>4, <2>7, <2>8
  <1> QED
    BY <1>4, <1>5 DEF List

\* From the shortest pieces of the rule to the whole of it.
LEMMA AllIsRead ==
    ASSUME NEW rule \in Seq(RuleTokens), NEW at, NEW d, Reading(rule, at), Grammar(rule, "parser", d),
           NEW i \in Places(rule), NEW j \in Places(rule)
    PROVE  Complete(rule, at, d, i, j)
  <1> DEFINE n == Len(rule)
             T == {m \in Nat : \A k, l \in Places(rule) :
                                  l - k < m - (n + 1) => Complete(rule, at, d, k, l)}
  <1>1. n \in Nat /\ Places(rule) = 1..(n + 1)
    BY DEF Places
  <1>2. 0 \in T
    BY <1>1
  <1>3. ASSUME NEW m \in Nat, m \in T PROVE m + 1 \in T
    <2>1. \A k, l \in Places(rule) : l - k < m - (n + 1) => Complete(rule, at, d, k, l)
      BY <1>3
    <2>2. ASSUME NEW k \in Places(rule), NEW l \in Places(rule), l - k < (m + 1) - (n + 1)
          PROVE  Complete(rule, at, d, k, l)
      <3>1. ASSUME NEW x \in Places(rule), NEW y \in Places(rule), y - x < l - k
            PROVE  Complete(rule, at, d, x, y)
        <4>1. y - x < m - (n + 1)
          BY <1>1, <2>2, <3>1
        <4> QED
          BY <2>1, <4>1
      <3>2. d[<<k, l>>]["expr"] => at[k]["expr"] = l
        BY <3>1, ExpressionsAreRead DEF Grammar
      <3>3. d[<<k, l>>]["operand"] => at[k]["primary"] = l /\ k < l /\ rule[k] # "]"
        <4>1. d[<<k, l>>]["operand"] => Operand(rule, "parser", d, k, l)
          BY DEF Grammar
        <4> QED
          BY <3>1, <4>1, OperandsAreRead, Zenon
      <3>4. d[<<k, l>>]["list"] /\ l <= Len(rule) /\ rule[l] = "]" =>
                at[at[k]["primary"]]["more"] = l + 1 /\ k < l /\ rule[k] # "]"
        BY <3>1, ListsAreRead DEF Grammar
      <3> QED
        BY <3>2, <3>3, <3>4 DEF Complete
    <2> QED
      BY <2>2
  <1> HIDE DEF T
  <1>4. Nat \subseteq T
    BY <1>2, <1>3, AllNaturals
  <1>5. (n + 1) + (n + 1) \in T
    BY <1>1, <1>4
  <1>6. j - i < ((n + 1) + (n + 1)) - (n + 1)
    BY <1>1
  <1> QED
    BY <1>5, <1>6 DEF T

\* The parser reads to the end exactly what the grammar derives.
LEMMA ReadIffDerived ==
    ASSUME NEW rule \in Seq(RuleTokens), NEW at, NEW d, Reading(rule, at), Grammar(rule, "parser", d)
    PROVE  at[1]["expr"] = Len(rule) + 1 <=> d[<<1, Len(rule) + 1>>]["expr"]
  <1>1. 1 \in Places(rule) /\ Len(rule) + 1 \in Places(rule) /\ Len(rule) + 1 # Err
    BY DEF Places, Err
  <1>2. at[1]["expr"] # Err => d[<<1, at[1]["expr"]>>]["expr"]
    BY <1>1, AllIsRight DEF ReadRight
  <1>3. d[<<1, Len(rule) + 1>>]["expr"] => at[1]["expr"] = Len(rule) + 1
    BY <1>1, AllIsRead DEF Complete
  <1> QED
    BY <1>1, <1>2, <1>3

-----------------------------------------------------------------------------
(* Rules: the equations of the parser and of the grammar have solutions      *)

\* The bodies of parse and of Derives.
Row(rule, at, i) == [proc \in Procedures |-> Answer(rule, at, i, proc)]

Reads(rule, at) == [i \in 0..Len(rule) + 1 |-> Row(rule, at, i)]

Line(rule, by, d, span) == [what \in Symbols |-> Derived(rule, by, d, span, what)]

Reduces(rule, by, d) ==
    [span \in (1..Len(rule) + 1) \X (1..Len(rule) + 1) |-> Line(rule, by, d, span)]

LEMMA RowFields ==
    ASSUME NEW rule, NEW at, NEW i
    PROVE  /\ Row(rule, at, i) = [proc \in Procedures |-> Row(rule, at, i)[proc]]
           /\ i = Err => \A proc \in Procedures : Row(rule, at, i)[proc] = Err
           /\ i # Err => /\ Row(rule, at, i)["expr"] = parseExpr(rule, at, i)
                         /\ Row(rule, at, i)["primary"] = parsePrimary(rule, at, i)
                         /\ Row(rule, at, i)["array"] = parseArray(rule, at, i)
                         /\ Row(rule, at, i)["more"] = parseMore(rule, at, i)
  <1>1. Row(rule, at, i) = [proc \in Procedures |-> Row(rule, at, i)[proc]]
    BY DEF Row
  <1>2. i = Err => \A proc \in Procedures : Row(rule, at, i)[proc] = Err
    BY DEF Row, Answer
  <1>3. ASSUME i # Err
        PROVE  /\ Row(rule, at, i)["expr"] = parseExpr(rule, at, i)
               /\ Row(rule, at, i)["primary"] = parsePrimary(rule, at, i)
               /\ Row(rule, at, i)["array"] = parseArray(rule, at, i)
               /\ Row(rule, at, i)["more"] = parseMore(rule, at, i)
    BY <1>3 DEF Row, Answer, Procedures
  <1> QED
    BY <1>1, <1>2, <1>3

\* A table of what is read from each place goes on, or says Err.
Forward(rule, at) ==
    /\ at \in [0..Len(rule) + 1 -> [Procedures -> 0..Len(rule) + 1]]
    /\ \A proc \in Procedures : at[Err][proc] = Err
    /\ \A i \in Places(rule), proc \in Procedures : at[i][proc] \in Ends(rule, i)

\* What it says of the places before depends on nothing else.
SameAfter(rule, at, bt, i) ==
    \A k \in 0..Len(rule) + 1, proc \in Procedures :
        k = Err \/ k > i => at[k][proc] = bt[k][proc]

LEMMA AttributesGoOn ==
    ASSUME NEW rule \in Seq(RuleTokens), NEW i \in Places(rule)
    PROVE  parseAttr(rule, i) \in Ends(rule, i)
  <1>1. Len(rule) \in Nat /\ i \in 1..(Len(rule) + 1) /\ Err = 0
    BY DEF Places, Err
  <1>2. Ends(rule, i) = {0} \union ((i + 1)..(Len(rule) + 1))
    BY <1>1 DEF Ends
  <1>3. CASE Field(rule, i)
    <2>1. parseAttr(rule, i) = i + 5 /\ i + 4 <= Len(rule)
      BY <1>3, ReadingAttributes DEF Field
    <2> QED
      BY <1>1, <1>2, <2>1
  <1>4. CASE Attribute(rule, i)
    <2>1. parseAttr(rule, i) = i + 7 /\ i + 6 <= Len(rule)
      BY <1>4, ReadingAttributes DEF Attribute
    <2> QED
      BY <1>1, <1>2, <2>1
  <1>5. CASE ~Field(rule, i) /\ ~Attribute(rule, i)
    BY <1>1, <1>2, <1>5, ReadingAttributes
  <1> QED
    BY <1>3, <1>4, <1>5

\* What an answer and an expected token after it lead to.
LEMMA ExpectingAfter ==
    ASSUME NEW rule \in Seq(RuleTokens), NEW i \in Places(rule), NEW k \in Ends(rule, i),
           NEW kinds \in SUBSET RuleTokens
    PROVE  expect(rule, k, kinds) \in Ends(rule, i)
  <1>1. Len(rule) \in Nat /\ i \in 1..(Len(rule) + 1) /\ Err = 0
    BY DEF Places, Err
  <1>2. k \in {0} \union ((i + 1)..(Len(rule) + 1))
    BY <1>1 DEF Ends
  <1>3. k \in 0..(Len(rule) + 1)
    BY <1>1, <1>2
  <1>4. expect(rule, k, kinds) = IF k \in 1..Len(rule) /\ rule[k] \in kinds THEN k + 1 ELSE Err
    BY <1>3, Expecting
  <1>5. expect(rule, k, kinds) \in {0} \union ((i + 1)..(Len(rule) + 1))
    BY <1>1, <1>2, <1>4
  <1> QED
    BY <1>1, <1>5 DEF Ends

\* A token before the end leaves a place after it.
LEMMA NextPlace ==
    ASSUME NEW rule \in Seq(RuleTokens), NEW i \in Places(rule), NEW token \in RuleTokens,
           Cur(rule, i) = token
    PROVE  /\ i + 1 \in Places(rule) /\ i + 1 \in Ends(rule, i) /\ i + 1 > i
           /\ i + 1 # Err /\ i + 1 \in 0..Len(rule) + 1
  <1>1. Len(rule) \in Nat /\ i \in 1..(Len(rule) + 1) /\ Err = 0
    BY DEF Places, Err
  <1>2. i \in 1..Len(rule)
    BY CurrentToken
  <1> QED
    BY <1>1, <1>2 DEF Ends, Places

\* An answer of a later place goes on from an earlier one, and tables that
\* agree after the earlier place give the same.
LEMMA Onward ==
    ASSUME NEW rule \in Seq(RuleTokens), NEW at, NEW bt, Forward(rule, at),
           NEW i \in Places(rule), SameAfter(rule, at, bt, i),
           NEW k \in Ends(rule, i), NEW proc \in Procedures
    PROVE  at[k][proc] \in Ends(rule, i) /\ at[k][proc] = bt[k][proc]
  <1>1. Len(rule) \in Nat /\ i \in 1..(Len(rule) + 1) /\ Err = 0
    BY DEF Places, Err
  <1>2. k \in {0} \union ((i + 1)..(Len(rule) + 1))
    BY <1>1 DEF Ends
  <1>3. k \in 0..Len(rule) + 1 /\ (k = Err \/ k > i)
    BY <1>1, <1>2
  <1>4. at[k][proc] = bt[k][proc]
    BY <1>3 DEF SameAfter
  <1>5. CASE k = Err
    BY <1>1, <1>4, <1>5 DEF Forward, Ends
  <1>6. CASE k # Err
    <2>1. k \in Places(rule) /\ k > i /\ k \in Nat
      BY <1>1, <1>2, <1>6 DEF Places
    <2>2. at[k][proc] \in Ends(rule, k)
      BY <2>1 DEF Forward
    <2>3. at[k][proc] \in {0} \union ((k + 1)..(Len(rule) + 1))
      BY <1>1, <2>2 DEF Ends
    <2>4. at[k][proc] \in {0} \union ((i + 1)..(Len(rule) + 1))
      BY <1>1, <2>1, <2>3
    <2> QED
      BY <1>1, <1>4, <2>4 DEF Ends
  <1> QED
    BY <1>5, <1>6

LEMMA PrimaryGoesOn ==
    ASSUME NEW rule \in Seq(RuleTokens), NEW at, NEW bt, Forward(rule, at),
           NEW i \in Places(rule), SameAfter(rule, at, bt, i)
    PROVE  /\ parsePrimary(rule, at, i) \in Ends(rule, i)
           /\ parsePrimary(rule, at, i) = parsePrimary(rule, bt, i)
  <1>1. {"r", "[", "(", ")"} \union Literals \subseteq RuleTokens /\ {")"} \in SUBSET RuleTokens
    BY DEF RuleTokens, Literals, Operators
  <1>2. "array" \in Procedures /\ "expr" \in Procedures
    BY DEF Procedures
  <1>3. CASE Cur(rule, i) = "r"
    <2>1. parsePrimary(rule, at, i) = parseAttr(rule, i) /\ parsePrimary(rule, bt, i) = parseAttr(rule, i)
      BY <1>3 DEF parsePrimary, Literals
    <2> QED
      BY <2>1, AttributesGoOn
  <1>4. CASE Cur(rule, i) \in Literals
    <2>1. parsePrimary(rule, at, i) = i + 1 /\ parsePrimary(rule, bt, i) = i + 1
      BY <1>4 DEF parsePrimary, Literals
    <2>2. i + 1 \in Ends(rule, i)
      BY <1>1, <1>4, NextPlace
    <2> QED
      BY <2>1, <2>2
  <1>5. CASE Cur(rule, i) = "["
    <2>1. /\ parsePrimary(rule, at, i) = at[i + 1]["array"]
          /\ parsePrimary(rule, bt, i) = bt[i + 1]["array"]
      BY <1>5 DEF parsePrimary, Literals
    <2>2. i + 1 \in Ends(rule, i)
      BY <1>1, <1>5, NextPlace
    <2> QED
      BY <1>2, <2>1, <2>2, Onward
  <1>6. CASE Cur(rule, i) = "("
    <2>1. /\ parsePrimary(rule, at, i) = expect(rule, at[i + 1]["expr"], {")"})
          /\ parsePrimary(rule, bt, i) = expect(rule, bt[i + 1]["expr"], {")"})
      BY <1>6 DEF parsePrimary, Literals
    <2>2. i + 1 \in Ends(rule, i)
      BY <1>1, <1>6, NextPlace
    <2>3. at[i + 1]["expr"] \in Ends(rule, i) /\ at[i + 1]["expr"] = bt[i + 1]["expr"]
      BY <1>2, <2>2, Onward
    <2> QED
      BY <1>1, <2>1, <2>3, ExpectingAfter
  <1>7. CASE Cur(rule, i) \notin {"r", "[", "("} \union Literals
    <2>1. parsePrimary(rule, at, i) = Err /\ parsePrimary(rule, bt, i) = Err
      BY <1>7 DEF parsePrimary, Literals
    <2> QED
      BY <2>1 DEF Ends
  <1> QED
    BY <1>3, <1>4, <1>5, <1>6, <1>7

LEMMA OthersGoOn ==
    ASSUME NEW rule \in Seq(RuleTokens), NEW at, NEW bt, Forward(rule, at),
           NEW i \in Places(rule), SameAfter(rule, at, bt, i)
    PROVE  /\ parseExpr(rule, at, i) \in Ends(rule, i)
           /\ parseExpr(rule, at, i) = parseExpr(rule, bt, i)
           /\ parseArray(rule, at, i) \in Ends(rule, i)
           /\ parseArray(rule, at, i) = parseArray(rule, bt, i)
           /\ parseMore(rule, at, i) \in Ends(rule, i)
           /\ parseMore(rule, at, i) = parseMore(rule, bt, i)
  <1> DEFINE p == parsePrimary(rule, at, i)
             op == expect(rule, p, Operators)
             c == expect(rule, i, {"comma"})
             k == at[c]["primary"]
  <1>1. /\ {"(", ")", "]", "comma"} \union Operators \subseteq RuleTokens /\ {")"} \in SUBSET RuleTokens
        /\ Operators \in SUBSET RuleTokens /\ {"comma"} \in SUBSET RuleTokens
    BY DEF RuleTokens, Literals, Operators
  <1>2. "primary" \in Procedures /\ "expr" \in Procedures /\ "more" \in Procedures
    BY DEF Procedures
  <1>3. p \in Ends(rule, i) /\ parsePrimary(rule, bt, i) = p
    BY PrimaryGoesOn
  <1>4. op \in Ends(rule, i)
    <2> HIDE DEF p
    <2> QED
      BY <1>1, <1>3, ExpectingAfter
  <1>5. parseExpr(rule, at, i) \in Ends(rule, i) /\ parseExpr(rule, at, i) = parseExpr(rule, bt, i)
    <2>1. CASE Cur(rule, i) = "("
      <3>1. /\ parseExpr(rule, at, i) = expect(rule, at[i + 1]["expr"], {")"})
            /\ parseExpr(rule, bt, i) = expect(rule, bt[i + 1]["expr"], {")"})
        BY <2>1 DEF parseExpr
      <3>2. i + 1 \in Ends(rule, i)
        BY <1>1, <2>1, NextPlace
      <3>3. at[i + 1]["expr"] \in Ends(rule, i) /\ at[i + 1]["expr"] = bt[i + 1]["expr"]
        BY <1>2, <3>2, Onward
      <3> QED
        BY <1>1, <3>1, <3>3, ExpectingAfter
    <2>2. CASE Cur(rule, i) # "("
      <3>1. parseExpr(rule, at, i) = at[op]["primary"] /\ parseExpr(rule, bt, i) = bt[op]["primary"]
        BY <1>3, <2>2 DEF parseExpr
      <3> HIDE DEF op
      <3> QED
        BY <1>2, <1>4, <3>1, Onward
    <2> QED
      BY <2>1, <2>2
  <1>6. CASE Cur(rule, i) = "]"
    <2>1. i + 1 \in Ends(rule, i)
      BY <1>1, <1>6, NextPlace
    <2>2. /\ parseArray(rule, at, i) = i + 1 /\ parseArray(rule, bt, i) = i + 1
          /\ parseMore(rule, at, i) = i + 1 /\ parseMore(rule, bt, i) = i + 1
      BY <1>6 DEF parseArray, parseMore
    <2> QED
      BY <1>5, <2>1, <2>2
  <1>7. CASE Cur(rule, i) # "]"
    <2>1. parseArray(rule, at, i) = at[p]["more"] /\ parseArray(rule, bt, i) = bt[p]["more"]
      BY <1>3, <1>7 DEF parseArray
    <2>2. parseArray(rule, at, i) \in Ends(rule, i) /\ parseArray(rule, at, i) = parseArray(rule, bt, i)
      <3> HIDE DEF p
      <3> QED
        BY <1>2, <1>3, <2>1, Onward
    <2>3. c \in Ends(rule, i)
      <3>1. Len(rule) \in Nat /\ i \in 1..(Len(rule) + 1) /\ Err = 0
        BY DEF Places, Err
      <3>2. i \in 0..(Len(rule) + 1)
        BY <3>1
      <3>3. c = IF i \in 1..Len(rule) /\ rule[i] \in {"comma"} THEN i + 1 ELSE Err
        BY <1>1, <3>2, Expecting
      <3> HIDE DEF c
      <3> QED
        BY <3>1, <3>3 DEF Ends
    <2>4. k \in Ends(rule, i) /\ k = bt[c]["primary"]
      <3> HIDE DEF c
      <3> QED
        BY <1>2, <2>3, Onward
    <2>5. parseMore(rule, at, i) = at[k]["more"] /\ parseMore(rule, bt, i) = bt[k]["more"]
      BY <1>7, <2>4 DEF parseMore
    <2>6. parseMore(rule, at, i) \in Ends(rule, i) /\ parseMore(rule, at, i) = parseMore(rule, bt, i)
      <3> HIDE DEF k
      <3> QED
        BY <1>2, <2>4, <2>5, Onward
    <2> QED
      BY <1>5, <2>2, <2>6
  <1> QED
    BY <1>6, <1>7

\* A further row by row reading is a table of the same kind, and agrees.
LEMMA ReadsGoOn ==
    ASSUME NEW rule \in Seq(RuleTokens), NEW at, Forward(rule, at)
    PROVE  Forward(rule, Reads(rule, at))
  <1> DEFINE bt == Reads(rule, at)
  <1>1. Len(rule) \in Nat /\ Places(rule) = 1..(Len(rule) + 1) /\ Err = 0
    BY DEF Places, Err
  <1>2. bt = [i \in 0..Len(rule) + 1 |-> Row(rule, at, i)]
    BY DEF Reads
  <1> HIDE DEF bt
  <1>3. \A proc \in Procedures : bt[Err][proc] = Err
    <2>1. Err \in 0..Len(rule) + 1
      BY <1>1
    <2>2. bt[Err] = Row(rule, at, Err)
      BY <1>2, <2>1
    <2> QED
      BY <2>2, RowFields
  <1>4. ASSUME NEW i \in Places(rule), NEW proc \in Procedures PROVE bt[i][proc] \in Ends(rule, i)
    <2>1. i \in 0..Len(rule) + 1 /\ i # Err
      BY <1>1
    <2>2. bt[i] = Row(rule, at, i)
      BY <1>2, <2>1
    <2>3. SameAfter(rule, at, at, i)
      BY DEF SameAfter
    <2>4. /\ parsePrimary(rule, at, i) \in Ends(rule, i) /\ parseExpr(rule, at, i) \in Ends(rule, i)
          /\ parseArray(rule, at, i) \in Ends(rule, i) /\ parseMore(rule, at, i) \in Ends(rule, i)
      BY <2>3, PrimaryGoesOn, OthersGoOn
    <2>5. proc \in {"expr", "primary", "array", "more"}
      BY DEF Procedures
    <2> QED
      BY <2>1, <2>2, <2>4, <2>5, RowFields
  <1>5. bt \in [0..Len(rule) + 1 -> [Procedures -> 0..Len(rule) + 1]]
    <2>1. ASSUME NEW i \in 0..Len(rule) + 1
          PROVE  Row(rule, at, i) \in [Procedures -> 0..Len(rule) + 1]
      <3>1. bt[i] = Row(rule, at, i)
        BY <1>2
      <3>2. ASSUME NEW proc \in Procedures PROVE Row(rule, at, i)[proc] \in 0..Len(rule) + 1
        <4>1. CASE i = Err
          BY <1>1, <1>3, <3>1, <4>1
        <4>2. CASE i # Err
          <5>1. i \in Places(rule)
            BY <1>1, <4>2
          <5>2. bt[i][proc] \in Ends(rule, i)
            BY <1>4, <5>1
          <5>3. Ends(rule, i) \subseteq 0..Len(rule) + 1
            BY <1>1, <5>1 DEF Ends
          <5> QED
            BY <3>1, <5>2, <5>3
        <4> QED
          BY <4>1, <4>2
      <3>3. Row(rule, at, i) = [proc \in Procedures |-> Row(rule, at, i)[proc]]
        BY RowFields
      <3> QED
        BY <3>2, <3>3
    <2> QED
      BY <1>2, <2>1
  <1> QED
    BY <1>3, <1>4, <1>5 DEF Forward, bt

\* The parser answers: its equations can be solved from the end of the rule.
LEMMA ReadingExists ==
    ASSUME NEW rule \in Seq(RuleTokens)
    PROVE  \E at : at = Reads(rule, at)
  <1> DEFINE n == Len(rule)
             Settled(at, m) == \A i \in Places(rule) : i > n + 1 - m => at[i] = Row(rule, at, i)
             T == {m \in Nat : \E at : Forward(rule, at) /\ Settled(at, m)}
  <1>1. n \in Nat /\ Places(rule) = 1..(n + 1) /\ Err = 0
    BY DEF Places, Err
  <1>2. 0 \in T
    <2> DEFINE none == [i \in 0..Len(rule) + 1 |-> [proc \in Procedures |-> Err]]
    <2>1. Err \in 0..Len(rule) + 1 /\ Places(rule) \subseteq 0..Len(rule) + 1
      BY <1>1
    <2>2. none \in [0..Len(rule) + 1 -> [Procedures -> 0..Len(rule) + 1]]
      BY <2>1
    <2>3. \A i \in 0..Len(rule) + 1, proc \in Procedures : none[i][proc] = Err
      OBVIOUS
    <2> HIDE DEF none
    <2>4. Forward(rule, none)
      BY <2>1, <2>2, <2>3 DEF Forward, Ends
    <2>5. Settled(none, 0)
      BY <1>1
    <2> QED
      BY <2>4, <2>5
  <1>3. ASSUME NEW m \in Nat, m \in T PROVE m + 1 \in T
    <2>1. PICK at : Forward(rule, at) /\ Settled(at, m)
      BY <1>3
    <2> DEFINE bt == Reads(rule, at)
    <2>2. Forward(rule, bt)
      BY <2>1, ReadsGoOn
    <2>3. \A i \in 0..Len(rule) + 1 : bt[i] = Row(rule, at, i)
      BY DEF Reads
    <2> HIDE DEF bt
    <2>4. ASSUME NEW i \in Places(rule), i > n + 1 - (m + 1) PROVE bt[i] = Row(rule, bt, i)
      <3>1. ASSUME NEW k \in 0..Len(rule) + 1, NEW proc \in Procedures, k = Err \/ k > i
            PROVE  at[k][proc] = bt[k][proc]
        <4>1. CASE k = Err
          BY <2>1, <2>2, <4>1 DEF Forward
        <4>2. CASE k # Err
          <5>1. k \in Places(rule) /\ k > n + 1 - m
            BY <1>1, <2>4, <3>1, <4>2
          <5>2. at[k] = Row(rule, at, k)
            BY <2>1, <5>1
          <5> QED
            BY <2>3, <5>2
        <4> QED
          BY <4>1, <4>2
      <3>2. SameAfter(rule, at, bt, i)
        BY <3>1 DEF SameAfter
      <3>3. /\ parsePrimary(rule, at, i) = parsePrimary(rule, bt, i)
            /\ parseExpr(rule, at, i) = parseExpr(rule, bt, i)
            /\ parseArray(rule, at, i) = parseArray(rule, bt, i)
            /\ parseMore(rule, at, i) = parseMore(rule, bt, i)
        BY <2>1, <3>2, PrimaryGoesOn, OthersGoOn
      <3>4. Row(rule, at, i) = Row(rule, bt, i)
        BY <3>3 DEF Row, Answer
      <3>5. i \in 0..Len(rule) + 1
        BY <1>1
      <3> QED
        BY <2>3, <3>4, <3>5
    <2>5. Settled(bt, m + 1)
      BY <2>4
    <2> QED
      BY <2>2, <2>5
  <1>4. n + 1 \in T
    <2> HIDE DEF T
    <2>1. Nat \subseteq T
      BY <1>2, <1>3, AllNaturals
    <2> QED
      BY <1>1, <2>1
  <1>5. PICK at : Forward(rule, at) /\ Settled(at, n + 1)
    BY <1>4
  <1>6. ASSUME NEW i \in 0..Len(rule) + 1 PROVE at[i] = Row(rule, at, i)
    <2>1. CASE i = Err
      <3>1. at[i] \in [Procedures -> 0..Len(rule) + 1]
        BY <1>5 DEF Forward
      <3>2. at[i] = [proc \in Procedures |-> at[i][proc]]
        BY <3>1
      <3>3. Row(rule, at, i) = [proc \in Procedures |-> Row(rule, at, i)[proc]]
        BY RowFields
      <3>4. \A proc \in Procedures : at[i][proc] = Row(rule, at, i)[proc]
        <4>1. \A proc \in Procedures : Row(rule, at, i)[proc] = Err
          BY <2>1, RowFields
        <4>2. \A proc \in Procedures : at[i][proc] = Err
          BY <1>5, <2>1 DEF Forward
        <4> QED
          BY <4>1, <4>2
      <3> QED
        BY <3>2, <3>3, <3>4
    <2>2. CASE i # Err
      <3>1. i \in Places(rule) /\ i > n + 1 - (n + 1)
        BY <1>1, <2>2
      <3> QED
        BY <1>5, <3>1
    <2> QED
      BY <2>1, <2>2
  <1>7. at = [i \in 0..Len(rule) + 1 |-> at[i]]
    BY <1>5 DEF Forward
  <1>8. Reads(rule, at) = [i \in 0..Len(rule) + 1 |-> Row(rule, at, i)]
    BY DEF Reads
  <1>9. at = Reads(rule, at)
    BY <1>6, <1>7, <1>8
  <1> QED
    BY <1>9

LEMMA ParserReads ==
    ASSUME NEW rule \in Seq(RuleTokens)
    PROVE  Reading(rule, parse(rule))
  <1> DEFINE at == parse(rule)
  <1>1. at = CHOOSE f : f = Reads(rule, f)
    BY DEF parse, Reads, Row
  <1> HIDE DEF at
  <1>2. at = Reads(rule, at)
    BY <1>1, ReadingExists
  <1>3. \A i \in 0..Len(rule) + 1 : at[i] = Row(rule, at, i)
    <2>1. ASSUME NEW i \in 0..Len(rule) + 1 PROVE Reads(rule, at)[i] = Row(rule, at, i)
      BY DEF Reads
    <2> QED
      BY <1>2, <2>1
  <1>4. Len(rule) \in Nat /\ Places(rule) = 1..(Len(rule) + 1) /\ Err = 0
    BY DEF Places, Err
  <1>5. \A proc \in Procedures : at[Err][proc] = Err
    <2>1. at[Err] = Row(rule, at, Err)
      BY <1>3, <1>4
    <2> QED
      BY <2>1, RowFields
  <1>6. ASSUME NEW i \in Places(rule)
        PROVE  /\ at[i]["expr"] = parseExpr(rule, at, i)
               /\ at[i]["primary"] = parsePrimary(rule, at, i)
               /\ at[i]["array"] = parseArray(rule, at, i)
               /\ at[i]["more"] = parseMore(rule, at, i)
    <2>1. i \in 0..Len(rule) + 1 /\ i # Err
      BY <1>4
    <2>2. at[i] = Row(rule, at, i)
      BY <1>3, <2>1
    <2> QED
      BY <2>1, <2>2, RowFields
  <1> QED
    BY <1>5, <1>6 DEF Reading, at

\* The grammar looks only at shorter pieces of the rule.
SameWithin(rule, d, e, i, j) ==
    \A k, l \in Places(rule) : l - k < j - i => d[<<k, l>>] = e[<<k, l>>]

LEMMA GrammarLooksWithin ==
    ASSUME NEW rule \in Seq(RuleTokens), NEW by, NEW d, NEW e,
           NEW i \in Places(rule), NEW j \in Places(rule), SameWithin(rule, d, e, i, j)
    PROVE  /\ Expression(rule, by, d, i, j) <=> Expression(rule, by, e, i, j)
           /\ Operand(rule, by, d, i, j) <=> Operand(rule, by, e, i, j)
           /\ List(rule, by, d, i, j) <=> List(rule, by, e, i, j)
  <1>1. Len(rule) \in Nat /\ Places(rule) = 1..(Len(rule) + 1)
    BY DEF Places
  <1>2. ASSUME j - i >= 2 PROVE d[<<i + 1, j - 1>>] = e[<<i + 1, j - 1>>]
    <2>1. i + 1 \in Places(rule) /\ j - 1 \in Places(rule) /\ (j - 1) - (i + 1) < j - i
      BY <1>1, <1>2
    <2> QED
      BY <2>1 DEF SameWithin
  <1>3. ASSUME NEW k \in i + 1 .. j - 2
        PROVE  d[<<i, k>>] = e[<<i, k>>] /\ d[<<k + 1, j>>] = e[<<k + 1, j>>]
    <2>1. k \in Places(rule) /\ k + 1 \in Places(rule) /\ k - i < j - i /\ j - (k + 1) < j - i
      BY <1>1
    <2> QED
      BY <2>1 DEF SameWithin
  <1>4. InParens(rule, d, i, j) <=> InParens(rule, e, i, j)
    BY <1>2 DEF InParens
  <1>5. Operand(rule, by, d, i, j) <=> Operand(rule, by, e, i, j)
    BY <1>2, <1>4 DEF Operand
  <1>6. Expression(rule, by, d, i, j) <=> Expression(rule, by, e, i, j)
    BY <1>3, <1>4 DEF Expression
  <1>7. List(rule, by, d, i, j) <=> List(rule, by, e, i, j)
    BY <1>3, <1>5 DEF List
  <1> QED
    BY <1>5, <1>6, <1>7

LEMMA LineFields ==
    ASSUME NEW rule, NEW by, NEW d, NEW i, NEW j
    PROVE  /\ Line(rule, by, d, <<i, j>>) = [what \in Symbols |-> Line(rule, by, d, <<i, j>>)[what]]
           /\ \A what \in Symbols : Line(rule, by, d, <<i, j>>)[what] \in BOOLEAN
           /\ Line(rule, by, d, <<i, j>>)["expr"] <=> Expression(rule, by, d, i, j)
           /\ Line(rule, by, d, <<i, j>>)["operand"] <=> Operand(rule, by, d, i, j)
           /\ Line(rule, by, d, <<i, j>>)["list"] <=> List(rule, by, d, i, j)
  <1>1. Line(rule, by, d, <<i, j>>) = [what \in Symbols |-> Line(rule, by, d, <<i, j>>)[what]]
    BY DEF Line
  <1>2. \A what \in Symbols : Line(rule, by, d, <<i, j>>)[what] = Derived(rule, by, d, <<i, j>>, what)
    BY DEF Line
  <1>3. /\ Derived(rule, by, d, <<i, j>>, "expr") = Expression(rule, by, d, i, j)
        /\ Derived(rule, by, d, <<i, j>>, "operand") = Operand(rule, by, d, i, j)
        /\ Derived(rule, by, d, <<i, j>>, "list") = List(rule, by, d, i, j)
    BY DEF Derived
  <1>4. /\ Expression(rule, by, d, i, j) \in BOOLEAN
        /\ Operand(rule, by, d, i, j) \in BOOLEAN
        /\ List(rule, by, d, i, j) \in BOOLEAN
    BY DEF Expression, Operand, List
  <1>5. Symbols = {"expr", "operand", "list"}
    BY DEF Symbols
  <1> QED
    BY <1>1, <1>2, <1>3, <1>4, <1>5

LEMMA SameLines ==
    ASSUME NEW rule \in Seq(RuleTokens), NEW by, NEW d, NEW e,
           NEW i \in Places(rule), NEW j \in Places(rule), SameWithin(rule, d, e, i, j)
    PROVE  Line(rule, by, d, <<i, j>>) = Line(rule, by, e, <<i, j>>)
  <1> DEFINE c == Line(rule, by, d, <<i, j>>)
             f == Line(rule, by, e, <<i, j>>)
  <1>1. /\ Expression(rule, by, d, i, j) <=> Expression(rule, by, e, i, j)
        /\ Operand(rule, by, d, i, j) <=> Operand(rule, by, e, i, j)
        /\ List(rule, by, d, i, j) <=> List(rule, by, e, i, j)
    BY GrammarLooksWithin
  <1>2. /\ c = [what \in Symbols |-> c[what]] /\ f = [what \in Symbols |-> f[what]]
        /\ \A what \in Symbols : c[what] \in BOOLEAN /\ f[what] \in BOOLEAN
    <2>1. c = [what \in Symbols |-> c[what]] /\ \A what \in Symbols : c[what] \in BOOLEAN
      BY LineFields
    <2>2. f = [what \in Symbols |-> f[what]] /\ \A what \in Symbols : f[what] \in BOOLEAN
      BY LineFields
    <2> HIDE DEF c, f
    <2> QED
      BY <2>1, <2>2
  <1>3. /\ c["expr"] <=> f["expr"]
        /\ c["operand"] <=> f["operand"]
        /\ c["list"] <=> f["list"]
    BY <1>1, LineFields
  <1> HIDE DEF c, f
  <1>4. \A what \in Symbols : c[what] = f[what]
    BY <1>2, <1>3 DEF Symbols
  <1> QED
    BY <1>2, <1>4 DEF c, f

\* The grammar means something: its equations can be solved from the shortest
\* pieces on.
LEMMA GrammarExists ==
    ASSUME NEW rule \in Seq(RuleTokens), NEW by
    PROVE  \E d : d = Reduces(rule, by, d)
  <1> DEFINE n == Len(rule)
             Spans == (1..Len(rule) + 1) \X (1..Len(rule) + 1)
             Settled(d, m) == \A i, j \in Places(rule) :
                                 j - i < m - (n + 1) => d[<<i, j>>] = Line(rule, by, d, <<i, j>>)
             T == {m \in Nat : \E d : d = [span \in Spans |-> d[span]] /\ Settled(d, m)}
  <1>1. n \in Nat /\ Places(rule) = 1..(n + 1) /\ Spans = Places(rule) \X Places(rule)
    BY DEF Places
  <1>2. 0 \in T
    <2> DEFINE none == [span \in Spans |-> {}]
    <2>1. none = [span \in Spans |-> none[span]]
      OBVIOUS
    <2>2. Settled(none, 0)
      BY <1>1
    <2> QED
      BY <2>1, <2>2
  <1>3. ASSUME NEW m \in Nat, m \in T PROVE m + 1 \in T
    <2>1. PICK d : Settled(d, m)
      BY <1>3
    <2> DEFINE e == Reduces(rule, by, d)
    <2>2. e = [span \in Spans |-> Line(rule, by, d, span)]
      BY DEF Reduces
    <2> HIDE DEF e
    <2>3. e = [span \in Spans |-> e[span]]
      BY <2>2
    <2>4. \A i, j \in Places(rule) : e[<<i, j>>] = Line(rule, by, d, <<i, j>>)
      BY <1>1, <2>2
    <2>5. ASSUME NEW i \in Places(rule), NEW j \in Places(rule), j - i < (m + 1) - (n + 1)
          PROVE  e[<<i, j>>] = Line(rule, by, e, <<i, j>>)
      <3>1. ASSUME NEW k \in Places(rule), NEW l \in Places(rule), l - k < j - i
            PROVE  d[<<k, l>>] = e[<<k, l>>]
        <4>1. l - k < m - (n + 1)
          BY <1>1, <2>5, <3>1
        <4>2. d[<<k, l>>] = Line(rule, by, d, <<k, l>>)
          BY <2>1, <4>1
        <4> QED
          BY <2>4, <4>2
      <3>2. SameWithin(rule, d, e, i, j)
        BY <3>1 DEF SameWithin
      <3>3. Line(rule, by, d, <<i, j>>) = Line(rule, by, e, <<i, j>>)
        BY <3>2, SameLines
      <3> QED
        BY <2>4, <3>3
    <2>6. Settled(e, m + 1)
      BY <2>5
    <2>7. m + 1 \in Nat
      OBVIOUS
    <2> HIDE DEF Settled, Spans
    <2> QED
      BY <2>3, <2>6, <2>7
  <1>4. (n + 1) + (n + 1) \in T
    <2> HIDE DEF T
    <2>1. Nat \subseteq T
      BY <1>2, <1>3, AllNaturals
    <2> QED
      BY <1>1, <2>1
  <1>5. PICK d : d = [span \in Spans |-> d[span]] /\ Settled(d, (n + 1) + (n + 1))
    BY <1>4
  <1>6. ASSUME NEW span \in Spans PROVE d[span] = Line(rule, by, d, span)
    <2>1. PICK i \in Places(rule), j \in Places(rule) : span = <<i, j>>
      BY <1>1
    <2>2. j - i < ((n + 1) + (n + 1)) - (n + 1)
      BY <1>1
    <2>3. d[<<i, j>>] = Line(rule, by, d, <<i, j>>)
      BY <1>5, <2>2
    <2> QED
      BY <2>1, <2>3
  <1>7. Reduces(rule, by, d) = [span \in Spans |-> Line(rule, by, d, span)]
    BY DEF Reduces
  <1>8. d = Reduces(rule, by, d)
    BY <1>5, <1>6, <1>7
  <1> QED
    BY <1>8

LEMMA GrammarDerives ==
    ASSUME NEW rule \in Seq(RuleTokens), NEW by
    PROVE  Grammar(rule, by, Derives(rule, by))
  <1> DEFINE d == Derives(rule, by)
  <1>1. d = CHOOSE f : f = Reduces(rule, by, f)
    BY DEF Derives, Reduces, Line
  <1> HIDE DEF d
  <1>2. d = Reduces(rule, by, d)
    BY <1>1, GrammarExists
  <1>3. ASSUME NEW i \in Places(rule), NEW j \in Places(rule)
        PROVE  d[<<i, j>>] = Line(rule, by, d, <<i, j>>)
    <2>1. Reduces(rule, by, d)[<<i, j>>] = Line(rule, by, d, <<i, j>>)
      BY DEF Reduces, Places
    <2> QED
      BY <1>2, <2>1
  <1>4. ASSUME NEW i \in Places(rule), NEW j \in Places(rule)
        PROVE  /\ d[<<i, j>>]["expr"] <=> Expression(rule, by, d, i, j)
               /\ d[<<i, j>>]["operand"] <=> Operand(rule, by, d, i, j)
               /\ d[<<i, j>>]["list"] <=> List(rule, by, d, i, j)
    <2>1. d[<<i, j>>] = Line(rule, by, d, <<i, j>>)
      BY <1>3
    <2> DEFINE line == Line(rule, by, d, <<i, j>>)
    <2>2. /\ line["expr"] <=> Expression(rule, by, d, i, j)
          /\ line["operand"] <=> Operand(rule, by, d, i, j)
          /\ line["list"] <=> List(rule, by, d, i, j)
      BY LineFields
    <2> HIDE DEF line
    <2>3. d[<<i, j>>] = line
      BY <2>1 DEF line
    <2> QED
      BY <2>2, <2>3
  <1> QED
    BY <1>4 DEF Grammar, d

-----------------------------------------------------------------------------
(* Rules: what is stored, and what is documented                             *)

\* On a piece of a plain rule the parser's grammar and the documented one agree.
Agree(rule, d, e, i, j) ==
    /\ d[<<i, j>>]["operand"] <=> e[<<i, j>>]["operand"]
    /\ (i \in DOMAIN rule => rule[i] # "(") => (d[<<i, j>>]["expr"] <=> e[<<i, j>>]["expr"])
    /\ i \in DOMAIN rule /\ rule[i] \in Literals => (d[<<i, j>>]["list"] <=> e[<<i, j>>]["list"])

LEMMA PieceAgrees ==
    ASSUME NEW rule \in Seq(RuleTokens), Plain(rule), NEW d, NEW e,
           Grammar(rule, "parser", d), Grammar(rule, "comment", e),
           NEW i \in Places(rule), NEW j \in Places(rule),
           \A k, l \in Places(rule) : l - k < j - i => Agree(rule, d, e, k, l)
    PROVE  Agree(rule, d, e, i, j)
  <1> DEFINE n == Len(rule)
  <1>1. n \in Nat /\ DOMAIN rule = 1..n /\ Places(rule) = 1..(n + 1) /\ i \in 1..(n + 1) /\ j \in 1..(n + 1)
    BY DEF Places
  <1>2. "(" \notin Literals /\ "[" \notin Literals /\ "]" \notin Literals /\ "r" \notin Literals
    BY DEF Literals
  <1>3. ASSUME j - i >= 2
        PROVE  /\ i \in DOMAIN rule /\ i + 1 \in DOMAIN rule
               /\ Agree(rule, d, e, i + 1, j - 1)
    <2>1. i + 1 \in Places(rule) /\ j - 1 \in Places(rule) /\ (j - 1) - (i + 1) < j - i
      BY <1>1, <1>3
    <2>2. i \in 1..n /\ i + 1 \in 1..n
      BY <1>1, <1>3
    <2> QED
      BY <1>1, <2>1, <2>2
  <1>4. ASSUME NEW k \in i + 1 .. j - 2
        PROVE  /\ k \in DOMAIN rule /\ i \in DOMAIN rule
               /\ Agree(rule, d, e, i, k) /\ Agree(rule, d, e, k + 1, j)
    <2>1. k \in Places(rule) /\ k + 1 \in Places(rule) /\ k - i < j - i /\ j - (k + 1) < j - i
      BY <1>1
    <2>2. k \in 1..n /\ i \in 1..n
      BY <1>1
    <2> QED
      BY <1>1, <2>1, <2>2
  <1>5. Operand(rule, "parser", d, i, j) <=> Operand(rule, "comment", e, i, j)
    <2>1. InParens(rule, d, i, j) <=> InParens(rule, e, i, j)
      <3> SUFFICES ASSUME j - i >= 2, rule[i] = "("
                   PROVE  d[<<i + 1, j - 1>>]["expr"] <=> e[<<i + 1, j - 1>>]["expr"]
        BY DEF InParens
      <3>1. i + 1 \in DOMAIN rule /\ (i + 1) - 1 = i
        BY <1>1, <1>3
      <3>2. rule[i + 1] # "("
        BY <3>1 DEF Plain
      <3> QED
        BY <1>3, <3>2 DEF Agree
    <2>2. ASSUME j - i >= 2, rule[i] = "[", rule[j - 1] = "]"
          PROVE  /\ j # i + 2
                 /\ d[<<i + 1, j - 1>>]["list"] <=> e[<<i + 1, j - 1>>]["list"]
      <3>1. rule[i + 1] \in Literals
        BY <1>3, <2>2 DEF Plain
      <3>2. j # i + 2
        <4> SUFFICES ASSUME j = i + 2 PROVE FALSE
          OBVIOUS
        <4>1. j - 1 = i + 1
          BY <1>1
        <4> QED
          BY <1>2, <2>2, <3>1, <4>1
      <3> QED
        BY <1>3, <2>2, <3>1, <3>2 DEF Agree
    <2> QED
      BY <2>1, <2>2 DEF Operand
  <1>6. ASSUME i \in DOMAIN rule => rule[i] # "("
        PROVE  Expression(rule, "parser", d, i, j) <=> Expression(rule, "comment", e, i, j)
    <2>1. ~InParens(rule, d, i, j)
      BY <1>3, <1>6 DEF InParens
    <2>2. \A k \in i + 1 .. j - 2 :
            /\ rule[i] # "("
            /\ d[<<i, k>>]["operand"] <=> e[<<i, k>>]["operand"]
            /\ d[<<k + 1, j>>]["operand"] <=> e[<<k + 1, j>>]["operand"]
      BY <1>4, <1>6 DEF Agree
    <2> QED
      BY <2>1, <2>2 DEF Expression
  <1>7. ASSUME i \in DOMAIN rule, rule[i] \in Literals
        PROVE  List(rule, "parser", d, i, j) <=> List(rule, "comment", e, i, j)
    <2>1. \A k \in i + 1 .. j - 2 : rule[k] = "comma" =>
            /\ d[<<i, k>>]["operand"] <=> e[<<i, k>>]["operand"]
            /\ d[<<k + 1, j>>]["list"] <=> e[<<k + 1, j>>]["list"]
      <3> SUFFICES ASSUME NEW k \in i + 1 .. j - 2, rule[k] = "comma"
                   PROVE  /\ d[<<i, k>>]["operand"] <=> e[<<i, k>>]["operand"]
                          /\ d[<<k + 1, j>>]["list"] <=> e[<<k + 1, j>>]["list"]
        OBVIOUS
      <3>1. k + 1 \in DOMAIN rule /\ rule[k + 1] \in Literals
        BY <1>4 DEF Plain
      <3> QED
        BY <1>4, <3>1 DEF Agree
    <2> QED
      BY <1>5, <1>7, <2>1 DEF List
  <1> QED
    BY <1>5, <1>6, <1>7 DEF Agree, Grammar

\* On plain rules of any length the parser's grammar is the documented one.
THEOREM PlainRulesAreDocumented ==
    ASSUME NEW rule \in Seq(RuleTokens), Plain(rule)
    PROVE  Readable(rule) <=> Documented(rule)
  <1> DEFINE n == Len(rule)
             d == Derives(rule, "parser")
             e == Derives(rule, "comment")
             T == {m \in Nat : \A i, j \in Places(rule) : j - i < m - (n + 1) => Agree(rule, d, e, i, j)}
  <1>1. n \in Nat /\ DOMAIN rule = 1..n /\ Places(rule) = 1..(n + 1)
    BY DEF Places
  <1>2. Grammar(rule, "parser", d) /\ Grammar(rule, "comment", e)
    BY GrammarDerives
  <1>3. Readable(rule) = d[<<1, n + 1>>]["expr"] /\ Documented(rule) = e[<<1, n + 1>>]["expr"]
    BY DEF Readable, Documented
  <1> HIDE DEF d, e, n
  <1>4. 0 \in T
    BY <1>1
  <1>5. ASSUME NEW m \in Nat, m \in T PROVE m + 1 \in T
    <2>1. ASSUME NEW i \in Places(rule), NEW j \in Places(rule), j - i < (m + 1) - (n + 1)
          PROVE  Agree(rule, d, e, i, j)
      <3>1. ASSUME NEW k \in Places(rule), NEW l \in Places(rule), l - k < j - i
            PROVE  Agree(rule, d, e, k, l)
        <4>1. l - k < m - (n + 1)
          BY <1>1, <2>1, <3>1
        <4> QED
          BY <1>5, <4>1
      <3> QED
        BY <1>2, <3>1, PieceAgrees
    <2> QED
      BY <2>1
  <1>6. (n + 1) + (n + 1) \in T
    <2>1. Nat \subseteq T
      <3> HIDE DEF T
      <3> QED
        BY <1>4, <1>5, AllNaturals
    <2>2. (n + 1) + (n + 1) \in Nat
      BY <1>1
    <2> HIDE DEF T
    <2> QED
      BY <2>1, <2>2
  <1>7. Agree(rule, d, e, 1, n + 1)
    <2>1. 1 \in Places(rule) /\ n + 1 \in Places(rule) /\ (n + 1) - 1 < ((n + 1) + (n + 1)) - (n + 1)
      BY <1>1
    <2> QED
      BY <1>6, <2>1
  <1>8. 1 \in DOMAIN rule => rule[1] # "("
    BY DEF Plain
  <1> QED
    BY <1>3, <1>7, <1>8 DEF Agree

\* The one listed truth that the parser would read.
Listed(rule, usualBlanks) == usualBlanks /\ rule = <<"1", "==", "1">>

\* ValidateABACSubRule and ValidateABACObjRule accept the empty rule and those
\* the parser's grammar derives as a whole, but for 1 == 1 as it is listed, and
\* no others, whatever their length and nesting.
THEOREM ParserRecognisesGrammar ==
    ASSUME NEW rule \in Seq(RuleTokens), NEW usualBlanks \in BOOLEAN, NEW prefix \in {"sub", "obj"}
    PROVE  validateABACRule(rule, usualBlanks, prefix) <=>
               rule = <<>> \/ (Readable(rule) /\ ~Listed(rule, usualBlanks))
  <1> DEFINE at == parse(rule)
  <1>1. Reading(rule, at)
    BY ParserReads
  <1>2. at[1]["expr"] = Len(rule) + 1 <=> Readable(rule)
    <2>2. Grammar(rule, "parser", Derives(rule, "parser"))
      BY GrammarDerives
    <2> QED
      BY <1>1, <2>2, ReadIffDerived DEF Readable
  <1>3. validateABACRule(rule, usualBlanks, prefix) <=>
            \/ rule = <<>>
            \/ ~isConstantTruth(rule, usualBlanks, prefix) /\ at[1]["expr"] = Len(rule) + 1
    BY DEF validateABACRule
  <1> HIDE DEF at
  <1>4. 1 \in Places(rule)
    BY DEF Places
  <1>5. ASSUME Cur(rule, 1) # "(", parsePrimary(rule, at, 1) \in {Err, Len(rule) + 1}
        PROVE  at[1]["expr"] # Len(rule) + 1
    <2> DEFINE p == parsePrimary(rule, at, 1)
               op == expect(rule, p, Operators)
    <2>1. at[1]["expr"] = at[op]["primary"]
      BY <1>1, <1>4, <1>5 DEF Reading, parseExpr
    <2>2. op = Err
      <3>1. p \in 0..(Len(rule) + 1) /\ ~(p \in 1..Len(rule)) /\ Operators \in SUBSET RuleTokens
        BY <1>5 DEF Err, Operators, RuleTokens
      <3> HIDE DEF p
      <3> QED
        BY <3>1, Expecting
    <2> HIDE DEF op
    <2> QED
      BY <1>1, <2>1, <2>2 DEF Reading, Procedures, Err
  <1>6. ASSUME rule = <<"true">> PROVE at[1]["expr"] # Len(rule) + 1
    <2>1. Len(rule) = 1 /\ rule[1] = "true" /\ 1 \in DOMAIN rule
      BY <1>6
    <2>2. Cur(rule, 1) = "true"
      BY <2>1 DEF Cur
    <2>3. parsePrimary(rule, at, 1) = Len(rule) + 1
      BY <2>1, <2>2 DEF parsePrimary, Literals
    <2> QED
      BY <1>5, <2>2, <2>3
  <1>7. ASSUME rule = <<"r", ".", prefix, "==", "r", ".", prefix>>
        PROVE  at[1]["expr"] # Len(rule) + 1
    <2>1. rule[1] = "r" /\ rule[4] = "==" /\ 1 \in DOMAIN rule
      BY <1>7
    <2>2. Cur(rule, 1) = "r"
      BY <2>1 DEF Cur
    <2>3. ~Field(rule, 1) /\ ~Attribute(rule, 1)
      BY <2>1 DEF Field, Attribute
    <2>4. parsePrimary(rule, at, 1) = parseAttr(rule, 1)
      BY <2>2 DEF parsePrimary, Literals
    <2>5. parsePrimary(rule, at, 1) = Err
      BY <1>4, <2>3, <2>4, ReadingAttributes
    <2> QED
      BY <1>5, <2>2, <2>5
  <1>8. Listed(rule, usualBlanks) => isConstantTruth(rule, usualBlanks, prefix)
    BY DEF Listed, isConstantTruth
  <1>9. isConstantTruth(rule, usualBlanks, prefix) =>
            \/ Listed(rule, usualBlanks) \/ rule = <<"true">>
            \/ rule = <<"r", ".", prefix, "==", "r", ".", prefix>>
    BY DEF Listed, isConstantTruth
  <1> QED
    BY <1>2, <1>3, <1>6, <1>7, <1>8, <1>9

\* The verdict is that of the validator on the rule as it stands.
RulesInv ==
    /\ draft \in Seq(RuleTokens) /\ usual \in BOOLEAN
    /\ verdict # "none" =>
          ((verdict = "stored") <=> (draft = <<>> \/ (Readable(draft) /\ ~Listed(draft, usual))))

\* A policy is stored when its rule is empty, or readable and not the listed
\* truth, and else refused: AddABACPolicy lets nothing else into the enforcer,
\* and of the documented grammar it turns away only the listed truth and rules
\* with a parenthesis where an expression begins.
THEOREM StoredRulesDerive == RulesSpec => []StoredAsDocumented
  <1>1. RulesInit => RulesInv
    BY DEF RulesInit, RulesInv
  <1>2. RulesInv /\ [RulesNext]_ruleVars => RulesInv'
    <2> SUFFICES ASSUME RulesInv, [RulesNext]_ruleVars PROVE RulesInv'
      OBVIOUS
    <2>1. CASE Type
      <3>1. PICK chunk \in Chunks : draft' = draft \o chunk
        BY <2>1 DEF Type
      <3>2. chunk \in Seq(RuleTokens) /\ draft \in Seq(RuleTokens)
        BY RulesAssumption DEF RulesInv
      <3>3. draft' \in Seq(RuleTokens)
        BY <3>1, <3>2
      <3>4. usual' \in BOOLEAN /\ verdict' = "none"
        BY <2>1 DEF Type
      <3> QED
        BY <3>3, <3>4 DEF RulesInv
    <2>2. CASE AddABACPolicy
      <3>1. draft' = draft /\ usual' = usual
        BY <2>2 DEF AddABACPolicy
      <3>2. PICK prefix \in {"sub", "obj"} :
               verdict' = IF validateABACRule(draft, usual, prefix) THEN "stored" ELSE "refused"
        BY <2>2 DEF AddABACPolicy
      <3>3. validateABACRule(draft, usual, prefix) <=>
               draft = <<>> \/ (Readable(draft) /\ ~Listed(draft, usual))
        BY ParserRecognisesGrammar DEF RulesInv
      <3>4. (verdict' = "stored") <=> (draft = <<>> \/ (Readable(draft) /\ ~Listed(draft, usual)))
        BY <3>2, <3>3
      <3> QED
        BY <3>1, <3>4 DEF RulesInv
    <2>3. CASE RemoveABACPolicy
      <3>1. draft' = <<>> /\ verdict' = "none" /\ usual' = TRUE
        BY <2>3 DEF RemoveABACPolicy
      <3> QED
        BY <3>1 DEF RulesInv
    <2>4. CASE UNCHANGED ruleVars
      BY <2>4 DEF ruleVars, RulesInv
    <2> QED
      BY <2>1, <2>2, <2>3, <2>4 DEF RulesNext
  <1>3. RulesInv => StoredAsDocumented
    <2> SUFFICES ASSUME RulesInv, verdict # "none" PROVE StoredAsDocumented
      BY DEF StoredAsDocumented
    <2>1. Plain(draft) => (Readable(draft) <=> Documented(draft))
      BY PlainRulesAreDocumented DEF RulesInv
    <2> QED
      BY <2>1 DEF RulesInv, StoredAsDocumented, Listed
  <1> QED
    BY <1>1, <1>2, <1>3, PTL DEF RulesSpec
=============================================================================
