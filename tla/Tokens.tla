------------------------------- MODULE Tokens -------------------------------
(***************************************************************************)
(* JSON Web Tokens (kex-utils/pkg/jwt/jwt.go): what NewManager accepts,    *)
(* what GenerateAccessToken and GenerateRefreshToken put into a token, and *)
(* what ParseToken makes of one.  Two managers stand for the instances of  *)
(* a deployment, or for one before and after a restart with another        *)
(* configuration; each reads its own clock.                                *)
(*                                                                         *)
(* Signatures and encryption are ideal: only the key that made one undoes  *)
(* it.  The text of a token is left out.                                   *)
(***************************************************************************)
EXTENDS Integers

CONSTANTS
    Managers,      \* instances of the program
    Configs,       \* configurations somebody may start one with
    AccessExpiry,  \* life of an access token
    RefreshExpiry, \* life of a refresh token
    MaxClock        \* bound on the clocks

\* An unset issuer or audience.
AnyName == ""

\* mode is "jws" or "jwe"; the key of a signature has a kind ("rsa", "ecdsa",
\* "sm2" or "text") and an id, that of an encryption a size in bytes, which is
\* 0 for what is not base64url.
ASSUME TokenAssumption ==
    /\ AccessExpiry \in Nat /\ RefreshExpiry \in Nat /\ MaxClock \in Nat
    /\ \A c \in Configs : c.mode \in {"jws", "jwe"} /\ c.encKey.size \in Nat

VARIABLES
    config,   \* of each instance, or NotRunning
    clock,    \* what each instance reads, in whole seconds
    issued,   \* the token that is about, or NoToken
    made      \* ghost: when and by which configuration it was made

tokenVars == <<config, clock, issued, made>>

NotRunning == [mode |-> "none"]
NoToken == [type |-> "none"]

TokensInit ==
    /\ config = [m \in Managers |-> NotRunning]
    /\ clock = [m \in Managers |-> 1]
    /\ issued = NoToken
    /\ made = NotRunning

-----------------------------------------------------------------------------
(* Algorithms                                                              *)

isHMACAlgorithm(alg) == alg \in {"HS256", "HS384", "HS512"}
isRSAAlgorithm(alg) == alg \in {"RS256", "RS384", "RS512", "PS256", "PS384", "PS512"}
isECDSAAlgorithm(alg) == alg \in {"ES256", "ES384", "ES512"}
isSM2Algorithm(alg) == alg \in {"SGD_SM3_SM2", "SM2", "sm2", "SM2-SM3"}
isSM4Encryption(enc) == enc \in {"SGD_SM4_GCM", "SM4-GCM", "SM4", "sm4"}

\* initSignKey: the key must be one of the algorithm; HMAC takes any text.
SignKeyFits(alg, key) ==
    \/ isHMACAlgorithm(alg)
    \/ isRSAAlgorithm(alg) /\ key.kind = "rsa"
    \/ isECDSAAlgorithm(alg) /\ key.kind = "ecdsa"
    \/ isSM2Algorithm(alg) /\ key.kind = "sm2"

\* initEncKey: the key's size must be that of the content encryption.
EncKeyFits(enc, key) ==
    \/ isSM4Encryption(enc) /\ key.size = 16
    \/ enc = "A128GCM" /\ key.size = 16
    \/ enc = "A192GCM" /\ key.size = 24
    \/ enc = "A256GCM" /\ key.size = 32

\* NewManager succeeds.
NewManager(cfg) ==
    /\ SignKeyFits(cfg.alg, cfg.signKey)
    /\ cfg.mode = "jwe" => EncKeyFits(cfg.enc, cfg.encKey)

-----------------------------------------------------------------------------
(* Tokens                                                                  *)

\* How a signature is made: the SM2 names are one algorithm, and the path of
\* that algorithm does not look at the header.
Signature(cfg) == [alg |-> IF isSM2Algorithm(cfg.alg) THEN "SGD_SM3_SM2" ELSE cfg.alg,
                   key |-> cfg.signKey]

\* The envelope; a signed token has none.
Envelope(cfg) ==
    IF cfg.mode = "jws" THEN [enc |-> "none"]
    ELSE [enc |-> IF isSM4Encryption(cfg.enc) THEN "SGD_SM4_GCM" ELSE cfg.enc, key |-> cfg.encKey]

Expiry(type) == IF type = "access" THEN AccessExpiry ELSE RefreshExpiry

\* generateToken, signed and, in the other mode, encrypted.
GenerateToken(cfg, now, type, claims) ==
    [sig |-> Signature(cfg), env |-> Envelope(cfg), iss |-> cfg.issuer, aud |-> cfg.audience,
     exp |-> now + Expiry(type), nbf |-> now, type |-> type, claims |-> claims]

\* Seeded fault: a token is refused in the second in which it expires.
isValidExclusive(token, now) == now < token.exp /\ now >= token.nbf

\* In whole seconds, and without any leeway for clocks that differ.  A
\* token of second 0 has no beginning.
isValid(token, now) ==
    /\ now <= token.exp
    /\ token.nbf > 0 => now >= token.nbf

\* ParseToken: decryption, signature, lifetime, issuer and audience, in this
\* order; the type of the token is not looked at.
ParseToken(cfg, token, now) ==
    CASE token.env # Envelope(cfg) \/ token.sig # Signature(cfg) -> "invalid"
      [] OTHER -> IF ~isValid(token, now) THEN "expired"
                  ELSE IF cfg.issuer # AnyName /\ token.iss # cfg.issuer THEN "issuer"
                  ELSE IF cfg.audience # AnyName /\ token.aud # cfg.audience THEN "audience"
                  ELSE "ok"

-----------------------------------------------------------------------------
(* Instances                                                               *)

\* An instance starts, or starts again with another configuration.
StartManager(m) ==
    \E c \in Configs :
        /\ NewManager(c) /\ c # config[m]
        /\ config' = [config EXCEPT ![m] = c]
        /\ UNCHANGED <<clock, issued, made>>

Generate(m) ==
    /\ config[m] # NotRunning
    /\ \E type \in {"access", "refresh"} :
          /\ issued' = GenerateToken(config[m], clock[m], type, "claims")
          /\ made' = [config |-> config[m], at |-> clock[m], type |-> type]
    /\ UNCHANGED <<config, clock>>

\* The clocks run on, each at its own pace.
Tick(m) ==
    /\ clock[m] < MaxClock
    /\ clock' = [clock EXCEPT ![m] = @ + 1]
    /\ UNCHANGED <<config, issued, made>>

TokensNext == \E m \in Managers : StartManager(m) \/ Generate(m) \/ Tick(m)

TokensSpec == TokensInit /\ [][TokensNext]_tokenVars

-----------------------------------------------------------------------------
(* Properties                                                              *)

\* Two configurations that sign and encrypt alike: the aliases of the SM2
\* algorithms count as one, and a key that its mode leaves unused as none.
SameKeys(c, d) ==
    /\ c.mode = d.mode /\ c.signKey = d.signKey
    /\ c.alg = d.alg \/ (isSM2Algorithm(c.alg) /\ isSM2Algorithm(d.alg))
    /\ c.mode = "jwe" =>
         /\ c.encKey = d.encKey
         /\ c.enc = d.enc \/ (isSM4Encryption(c.enc) /\ isSM4Encryption(d.enc))

\* An instance takes a token exactly when one with its keys made it, for the
\* issuer and the audience it insists on, and its own clock is within the
\* life the maker's clock gave the token, both ends included.  Which instance
\* made it, and what was restarted since, makes no difference; a running
\* instance never has a key its algorithm cannot use.
AcceptedIffOurs ==
    /\ \A m \in Managers :
          config[m] # NotRunning =>
             /\ SignKeyFits(config[m].alg, config[m].signKey)
             /\ config[m].mode = "jwe" => config[m].encKey.size \in {16, 24, 32}
    /\ issued # NoToken =>
         \A m \in Managers : config[m] # NotRunning =>
            ((ParseToken(config[m], issued, clock[m]) = "ok")
                <=> /\ SameKeys(config[m], made.config)
                    /\ config[m].issuer \in {AnyName, made.config.issuer}
                    /\ config[m].audience \in {AnyName, made.config.audience}
                    /\ clock[m] \in made.at..(made.at + Expiry(made.type)))
=============================================================================
