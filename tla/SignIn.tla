------------------------------- MODULE SignIn -------------------------------
(***************************************************************************)
(* Signing in with an OpenID provider (plugin/sso/standard/oidc.go) or     *)
(* with GitHub (plugin/sso/standard/github.go): concurrent sign-ins share  *)
(* the cache of discovery documents, and the provider publishes new        *)
(* documents and rotates its keys meanwhile.                               *)
(*                                                                         *)
(* Documents and keys are numbered in the order in which the provider      *)
(* makes them.  Claims are functions; texts, the life of an id_token and   *)
(* its audience are left out.                                              *)
(***************************************************************************)
EXTENDS Integers, Sequences

CONSTANTS
    Logins,        \* sign-ins
    TTL,           \* discoveryCacheTTL
    FetchTimeout,  \* of SharedHTTPClient
    MaxTime, MaxDoc, MaxKey,   \* bounds on the clock and on what the provider makes
    TokenClaims,   \* claims an id_token may have
    InfoClaims,    \* claims UserInfo may return
    EmailLists     \* what GitHub may return for /user/emails

ASSUME SignInAssumption ==
    /\ TTL \in Nat /\ FetchTimeout \in Nat
    /\ MaxTime \in Nat /\ MaxDoc \in Nat \ {0} /\ MaxKey \in Nat
    /\ EmailLists \subseteq Seq([email : STRING, primary : BOOLEAN, verified : BOOLEAN])

VARIABLES
    now,
    provider,   \* its current document, signing key and published keys
    replaced,   \* ghost: when each document was replaced
    discCache,  \* the cached document and its expiry
    login       \* what each sign-in is doing

signInVars == <<now, provider, replaced, discCache, login>>

Never == MaxTime + 1
NoClaims == <<>>
NewLogin == [pc |-> "new"]
Uncached == [doc |-> 0, exp |-> 0]
Explicit == 0   \* the number of the endpoints that need no document

SignInInit ==
    /\ now = 0
    /\ provider = [doc |-> 1, signing |-> 1, published |-> {1}]
    /\ replaced = [d \in 0..MaxDoc |-> Never]
    /\ discCache = Uncached
    /\ login = [l \in Logins |-> NewLogin]

-----------------------------------------------------------------------------
(* The provider                                                            *)

PublishDocument ==
    /\ provider.doc < MaxDoc
    /\ provider' = [provider EXCEPT !.doc = @ + 1]
    /\ replaced' = [replaced EXCEPT ![provider.doc] = now]
    /\ UNCHANGED <<now, discCache, login>>

\* A new key is published alongside the retired ones.
RotateKey ==
    /\ provider.signing < MaxKey
    /\ provider' = [provider EXCEPT !.signing = @ + 1, !.published = @ \union {provider.signing + 1}]
    /\ UNCHANGED <<now, replaced, discCache, login>>

\* A retired key goes once no token it signed is waiting to be verified.
WithdrawKey ==
    /\ \E k \in provider.published \ {provider.signing} :
          /\ \A l \in Logins : login[l].pc = "jwks" => login[l].key # k
          /\ provider' = [provider EXCEPT !.published = @ \ {k}]
    /\ UNCHANGED <<now, replaced, discCache, login>>

\* The client gives up on a request after FetchTimeout.
TimePasses ==
    /\ now < MaxTime
    /\ \A l \in Logins : login[l].pc \in {"fetch", "store"} => now < login[l].began + FetchTimeout
    /\ now' = now + 1
    /\ UNCHANGED <<provider, replaced, discCache, login>>

-----------------------------------------------------------------------------
(* Endpoints                                                               *)

Set(l, rec) == login' = [login EXCEPT ![l] = rec]
OnlyLogin == UNCHANGED <<now, provider, replaced, discCache>>
Fail(l, err) == Set(l, [pc |-> "failed", error |-> err])

\* The endpoints are known: BeginAuth answers with the URL, CompleteAuth goes
\* on to exchange the code.
WithDocument(goal, doc) ==
    [pc |-> IF goal = "begin" THEN "begun" ELSE "exchange", doc |-> doc, usedAt |-> now]

\* Seeded fault: the expiry is not looked at.
CacheHitAlways == discCache # Uncached

CacheHit == discCache # Uncached /\ now < discCache.exp

\* resolveEndpoints: explicit endpoints need no document; otherwise the cached
\* one is used while it is valid, and the lock is released before the fetch.
resolveEndpoints(l) ==
    /\ login[l] = NewLogin
    /\ \E goal \in {"begin", "complete"} :
          \/ Set(l, WithDocument(goal, Explicit))
          \/ CacheHit /\ Set(l, WithDocument(goal, discCache.doc))
          \/ ~CacheHit /\ Set(l, [pc |-> "fetch", goal |-> goal, began |-> now])
    /\ OnlyLogin

\* The provider answers with its document of the moment; the answer takes its
\* time.  Or the fetch fails, as it does for an issuer that does not match.
FetchDocument(l) ==
    /\ login[l].pc = "fetch"
    /\ \/ Set(l, [pc |-> "store", goal |-> login[l].goal, began |-> login[l].began,
                  doc |-> provider.doc])
       \/ Fail(l, "unavailable")
    /\ OnlyLogin

\* The document is cached, even over a newer one another sign-in has stored.
StoreDocument(l) ==
    /\ login[l].pc = "store"
    /\ discCache' = [doc |-> login[l].doc, exp |-> now + TTL]
    /\ Set(l, WithDocument(login[l].goal, login[l].doc))
    /\ UNCHANGED <<now, provider, replaced>>

-----------------------------------------------------------------------------
(* CompleteAuth of OpenID                                                  *)

\* The token answer need not hold an id_token; then nothing is verified.
Exchange(l) ==
    /\ login[l].pc = "exchange"
    /\ \/ \E claims \in TokenClaims :
              Set(l, [pc |-> "jwks", key |-> provider.signing, claims |-> claims])
       \/ Set(l, [pc |-> "userinfo", claims |-> NoClaims])
       \/ Fail(l, "exchange")
    /\ OnlyLogin

\* verifyIDToken tries the key the token names, then every published key.
Verifies(key) == key \in provider.published

\* loadJWKS and verifyIDToken.
VerifyIDToken(l) ==
    /\ login[l].pc = "jwks"
    /\ \/ IF Verifies(login[l].key) THEN Set(l, [pc |-> "userinfo", claims |-> login[l].claims])
          ELSE Fail(l, "unverified")
       \/ Fail(l, "unavailable")
    /\ OnlyLogin

Overlaid(new, old) ==
    [c \in DOMAIN new \union DOMAIN old |-> IF c \in DOMAIN new THEN new[c] ELSE old[c]]

\* UserInfo overlays the id_token claim by claim, `sub` included; an email
\* that is flagged as not verified is dropped.
Assertion(idClaims, uiClaims) ==
    LET claims == Overlaid(uiClaims, idClaims)
        flag == IF "email_verified" \in DOMAIN claims THEN claims["email_verified"] ELSE "absent"
        email == IF "email" \in DOMAIN claims THEN claims["email"] ELSE ""
    IN [pc |-> "done", from |-> "openid", subject |-> claims["sub"],
        verified |-> flag = "yes", email |-> IF flag = "no" THEN "" ELSE email]

\* fetchUserInfo; its failure is not the sign-in's.
UserInfo(l) ==
    /\ login[l].pc = "userinfo"
    /\ \E ui \in InfoClaims \union {NoClaims} :
          IF "sub" \in DOMAIN Overlaid(ui, login[l].claims)
          THEN Set(l, Assertion(login[l].claims, ui)) ELSE Fail(l, "no subject")
    /\ OnlyLogin

-----------------------------------------------------------------------------
(* CompleteAuth of GitHub                                                  *)

Earliest(S) == CHOOSE i \in S : \A j \in S : i <= j

\* fetchPrimaryEmail: the first that is primary and verified, else the first
\* that is verified, else the first primary one.
fetchPrimaryEmail(emails) ==
    LET verified == {i \in DOMAIN emails : emails[i].verified}
        primary == {i \in DOMAIN emails : emails[i].primary}
        both == verified \intersect primary
    IN  IF verified # {}
          THEN [email |-> emails[Earliest(IF both # {} THEN both ELSE verified)].email,
                verified |-> TRUE]
          ELSE [email |-> IF primary # {} THEN emails[Earliest(primary)].email ELSE "",
                verified |-> FALSE]

\* Exchange and /user may fail, /user/emails may too without harm; it is asked
\* only when the profile shows no address.
GitHub(l) ==
    /\ login[l] = NewLogin
    /\ \/ Fail(l, "exchange")
       \/ \E list \in EmailLists \union {<<>>} :
             LET e == fetchPrimaryEmail(list)
             IN Set(l, [pc |-> "done", from |-> "github", email |-> e.email,
                        verified |-> e.verified])
       \/ Set(l, [pc |-> "done", from |-> "github", email |-> "profile", verified |-> FALSE])
    /\ OnlyLogin

-----------------------------------------------------------------------------

SignInStep(l) ==
    \/ resolveEndpoints(l) \/ FetchDocument(l) \/ StoreDocument(l)
    \/ Exchange(l) \/ VerifyIDToken(l) \/ UserInfo(l) \/ GitHub(l)

SignInNext ==
    \/ \E l \in Logins : SignInStep(l)
    \/ PublishDocument \/ RotateKey \/ WithdrawKey \/ TimePasses

SignInSpec == SignInInit /\ [][SignInNext]_signInVars

-----------------------------------------------------------------------------
(* Properties                                                              *)

\* Whatever the fetches of concurrent sign-ins overwrite in the cache, the
\* endpoints a sign-in uses were those the provider published at most the
\* cache's life and one fetch before.
FreshDocument(l) ==
    login[l].pc \in {"begun", "exchange"} =>
        login[l].usedAt <= replaced[login[l].doc] + TTL + FetchTimeout

\* A token the provider signed verifies, however its keys rotate under way, as
\* long as a key stays published while a token it signed is waiting.
HonestTokenVerifies(l) == login[l].pc = "failed" => login[l].error # "unverified"

\* An address is called verified only when the provider called one verified,
\* and GitHub's only when it called that address verified.
VerifiedIsVouched(l) ==
    login[l].pc = "done" /\ login[l].verified =>
        IF login[l].from = "github"
        THEN \E list \in EmailLists : \E i \in DOMAIN list :
                 list[i].email = login[l].email /\ list[i].verified
        ELSE \E c \in TokenClaims \union InfoClaims :
                 "email_verified" \in DOMAIN c /\ c["email_verified"] = "yes"

SignInsAreSound ==
    \A l \in Logins : FreshDocument(l) /\ HonestTokenVerifies(l) /\ VerifiedIsVouched(l)
=============================================================================
