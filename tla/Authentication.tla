---- MODULE Authentication ----
\* Who a client is: bearer tokens, and the flows that log a browser in.
EXTENDS Integers, FiniteSets

----
\* jwt_auth and jwt::sign (JwtAuth.cpp): tokens are checked against a secret,
\* a fixed public key or the keys an issuer publishes, which change under way
\* and reach the server through a cache. A signature is the key that made it.

CONSTANTS JwKeys,         \* the private keys of the world
          JwAlg,          \* algorithm_for: what each can sign, "" when unsuitable
          JwSecret,       \* the HS256 secret
          JwKids,         \* names of keys
          JwFirst, JwPublishes,  \* the key of each name at first, and what the issuer may change it into
          JwConfigs,      \* JwtOptions: which of secret, public_key_pem and jwks_url are set
          JwSigners, JwSignKids,  \* what sign() is called with
          JwTokens,       \* tokens clients may bring from elsewhere
          JwRefresh, JwMinRefetch, JwTimeout, JwLeeway, JwExpiresIn,
          JwMaxTime       \* bound: how long the clock runs

NoKid == ""
NoKey == "none"
NoClaim == -1

VARIABLES jwOptions,    \* JwtOptions
          jwNow,        \* the clock, in seconds
          jwIssuer,     \* the key the issuer publishes under every kid, NoKey for none
          jwKeys,       \* keys_
          jwFetched, jwAttempted,  \* fetched_ and attempted_ with their times; a time in the past for "never"
          jwFetch,      \* the request in fetch_locked, which holds mutex_
          jwSince,      \* history: when the issuer last changed what a kid names
          jwUntil,      \* history: when the issuer last published a key that it withdrew
          jwFailing,    \* history: the last fetch that ended did not succeed
          jwVerdict     \* the middleware's last answer

jwVars == <<jwOptions, jwNow, jwIssuer, jwKeys, jwFetched, jwAttempted, jwFetch, jwSince, jwUntil, jwFailing, jwVerdict>>

NoFetch == [for |-> "nobody"]
NoVerdict == [ok |-> "none"]
Never == 0

\* The tokens from elsewhere are those of iat 0. An interval of 0 would mean
\* that nothing is cached.
ASSUME JwAssumption ==
  /\ JwAlg \in [JwKeys -> {"RS256", "ES256", ""}] /\ NoKey \notin JwKeys /\ JwSecret \notin JwKeys \cup {NoKey}
  /\ NoKid \notin JwKids /\ JwFirst \in [JwKids -> JwKeys \cup {NoKey}]
  /\ JwPublishes \in [JwKids -> SUBSET (JwKeys \cup {NoKey})]
  /\ JwSigners \subseteq JwKeys \cup {JwSecret}
  /\ JwConfigs \subseteq [secret : BOOLEAN, static : JwKeys \cup {NoKey}, jwks : BOOLEAN, require_exp : BOOLEAN]
  /\ \A t \in JwTokens : t.signer # NoKey /\ t.iat = 0
  /\ JwRefresh \in Nat \ {0} /\ {JwMinRefetch, JwTimeout, JwLeeway, JwExpiresIn} \subseteq Nat

\* jwt_auth(): some source of keys must be configured, and a fixed key must
\* suit.
JwInit ==
  /\ jwOptions \in {o \in JwConfigs : o.static = NoKey \/ JwAlg[o.static] # ""}
  /\ jwOptions.secret \/ jwOptions.static # NoKey \/ jwOptions.jwks
  /\ jwNow = 1
  /\ jwIssuer = JwFirst
  /\ jwKeys = [k \in {} |-> NoKey]
  /\ jwFetched = Never /\ jwAttempted = Never /\ jwFetch = NoFetch
  /\ jwSince = [k \in JwKids |-> 0] /\ jwUntil = [k \in JwKeys |-> 0] /\ jwFailing = FALSE
  /\ jwVerdict = NoVerdict

\* key_from_jwk: unsupported and unusable keys are skipped.
key_from_jwk(k) == k # NoKey /\ JwAlg[k] # ""
key_set(published) == [kid \in {i \in JwKids : key_from_jwk(published[i])} |-> published[kid]]

lookup_locked(kid) ==
  CASE kid = NoKid /\ Cardinality(DOMAIN jwKeys) = 1 -> jwKeys[CHOOSE i \in DOMAIN jwKeys : TRUE]
    [] kid \in DOMAIN jwKeys -> jwKeys[kid]
    [] OTHER -> NoKey

\* Mutant: only an unknown kid fetches.
refetches_OnlyUnknown(kid) ==
  /\ jwFetched = Never \/ lookup_locked(kid) = NoKey
  /\ jwAttempted = Never \/ jwNow - jwAttempted >= JwMinRefetch

\* Whether find() goes to the issuer first: the keys are old or the kid is
\* unknown, and the last attempt is not too recent.
refetches(kid) ==
  /\ jwFetched = Never \/ jwNow - jwFetched >= JwRefresh \/ lookup_locked(kid) = NoKey
  /\ jwAttempted = Never \/ jwNow - jwAttempted >= JwMinRefetch

\* The key for a token with a public-key algorithm.
\* A token without kid does not ask the issuer when there is a fixed key.
UsesJwks(t) == jwOptions.jwks /\ (t.kid # NoKid \/ jwOptions.static = NoKey)
KeyFor(t) ==
  LET found == IF UsesJwks(t) THEN lookup_locked(t.kid) ELSE NoKey
  IN IF found = NoKey THEN jwOptions.static ELSE found

\* verify_jwt_signature, verify_with_key: the key decides the algorithm, the
\* token only has to agree with it.
verified(t) ==
  CASE t.alg = "HS256" -> jwOptions.secret /\ t.signer = JwSecret
    [] t.alg \in {"RS256", "ES256"} -> LET key == KeyFor(t) IN key # NoKey /\ JwAlg[key] = t.alg /\ t.signer = key
    [] OTHER -> FALSE

\* exp and nbf, with the leeway; iss and aud, which audience_matches takes as a
\* string or a list, as the set of those the token is meant for.
valid_claims(t) ==
  /\ IF t.exp = NoClaim THEN ~jwOptions.require_exp ELSE jwNow <= t.exp + JwLeeway
  /\ t.nbf = NoClaim \/ jwNow + JwLeeway >= t.nbf
  /\ "us" \in t.aud

NeedsFetch(t) == t.alg \in {"RS256", "ES256"} /\ UsesJwks(t) /\ refetches(t.kid)

\* The middleware, when the cache answers by itself. Nobody gets in while a
\* fetch holds the mutex, unless he does not need the cache.
Authorize(t) ==
  /\ jwVerdict = NoVerdict /\ ~NeedsFetch(t) /\ (jwFetch = NoFetch \/ t.alg = "HS256" \/ ~UsesJwks(t))
  /\ jwVerdict' = [ok |-> verified(t) /\ valid_claims(t), token |-> t, verified |-> verified(t)]
  /\ UNCHANGED <<jwOptions, jwNow, jwIssuer, jwKeys, jwFetched, jwAttempted, jwFetch, jwSince, jwUntil, jwFailing>>

\* fetch_locked: the attempt is noted, the issuer answers with what it publishes
\* at some moment, and the keys are stored when the answer is here.
fetch_locked(t) ==
  /\ jwFetch = NoFetch /\ NeedsFetch(t)
  /\ jwAttempted' = jwNow
  /\ jwFetch' = [for |-> t, answer |-> NoFetch]
  /\ UNCHANGED <<jwOptions, jwNow, jwIssuer, jwKeys, jwFetched, jwSince, jwUntil, jwFailing>> /\ jwVerdict' = NoVerdict

Answer ==
  /\ jwFetch # NoFetch /\ jwFetch.answer = NoFetch
  /\ jwFetch' = [jwFetch EXCEPT !.answer = [keys |-> key_set(jwIssuer)]]
  /\ UNCHANGED <<jwOptions, jwNow, jwIssuer, jwKeys, jwFetched, jwAttempted, jwSince, jwUntil, jwFailing>> /\ jwVerdict' = NoVerdict

\* The end of fetch_locked and of the middleware that called it. A failure, or
\* an answer that is no key set, leaves the keys as they were.
Fetched(ok) ==
  LET t == jwFetch.for
      keys == IF ok THEN jwFetch.answer.keys ELSE jwKeys
      found == CASE t.kid = NoKid /\ Cardinality(DOMAIN keys) = 1 -> keys[CHOOSE i \in DOMAIN keys : TRUE]
                 [] t.kid \in DOMAIN keys -> keys[t.kid]
                 [] OTHER -> jwOptions.static
      good == found # NoKey /\ JwAlg[found] = t.alg /\ t.signer = found
  IN /\ jwFetch # NoFetch /\ (ok => jwFetch.answer # NoFetch)
     /\ jwKeys' = keys
     /\ jwFetched' = IF ok THEN jwNow ELSE jwFetched
     /\ jwFailing' = ~ok
     /\ jwFetch' = NoFetch
     /\ jwVerdict' = [ok |-> good /\ valid_claims(t), token |-> t, verified |-> good]
     /\ UNCHANGED <<jwOptions, jwNow, jwIssuer, jwAttempted, jwSince, jwUntil>>

\* jwt::sign: the claims that are not given are filled in.
sign(key, kid, not_before, now) ==
  [alg |-> IF key = JwSecret THEN "HS256" ELSE JwAlg[key], kid |-> kid, signer |-> key, aud |-> {"us"}, iat |-> now,
   exp |-> now + JwExpiresIn, nbf |-> IF not_before > 0 THEN now + not_before ELSE NoClaim]

\* The tokens that sign() made at the start, with keys that suit it.
JwSuiting == {k \in JwSigners : k = JwSecret \/ JwAlg[k] # ""}
JwDelays == {0, 1 + JwLeeway}
Issued == {sign(key, kid, later, 1) : key \in JwSuiting, kid \in JwSignKids, later \in JwDelays}

\* The issuer changes a key, at most once a second; time passes, but not beyond
\* the timeout of a fetch.
Rotate(kid, key) ==
  /\ jwIssuer[kid] # key /\ jwSince[kid] < jwNow
  /\ jwIssuer' = [jwIssuer EXCEPT ![kid] = key] /\ jwSince' = [jwSince EXCEPT ![kid] = jwNow]
  /\ jwUntil' = [k \in JwKeys |-> IF k = jwIssuer[kid] THEN jwNow ELSE jwUntil[k]]
  /\ jwVerdict' = NoVerdict
  /\ UNCHANGED <<jwOptions, jwNow, jwKeys, jwFetched, jwAttempted, jwFetch, jwFailing>>

JwTick ==
  /\ jwNow < JwMaxTime /\ (jwFetch # NoFetch => jwNow < jwAttempted + JwTimeout)
  /\ jwNow' = jwNow + 1 /\ jwVerdict' = NoVerdict
  /\ UNCHANGED <<jwOptions, jwIssuer, jwKeys, jwFetched, jwAttempted, jwFetch, jwSince, jwUntil, jwFailing>>

JwNext ==
  \/ \E t \in JwTokens \cup Issued : Authorize(t) \/ fetch_locked(t)
  \/ Answer \/ \E ok \in BOOLEAN : Fetched(ok)
  \/ \E kid \in JwKids : \E key \in JwPublishes[kid] : Rotate(kid, key)
  \/ JwTick

JwSpec == JwInit /\ [][JwNext]_jwVars

JwTypeOK == jwNow \in Nat /\ DOMAIN jwKeys \subseteq JwKids

\* How long a key set may be used after it was fetched.
JwHeld == IF JwRefresh > JwMinRefetch THEN JwRefresh ELSE JwMinRefetch

\* A token that is accepted carries the mark of the secret, of the fixed key,
\* or of a key that the issuer still published at most one refresh (or least
\* gap between fetches, where that is longer) and one round trip ago, however
\* keys rotate and answers are late; only while the issuer cannot be reached
\* are old keys used for longer. A token of a key that the issuer does publish
\* under the token's kid is turned away only when the fetch failed, or the key
\* is newer than the last one and either the next fetch is not due yet or
\* another key went by that name before; and sign() and jwt_auth agree about
\* the lifetime of a token (JwtAuth.cpp:241-245, 367-387, 403-426).
TokensSound ==
  LET t == jwVerdict.token
      recent(key) == (\E kid \in JwKids : jwIssuer[kid] = key) \/ jwNow < jwUntil[key] + JwHeld + JwTimeout
      published == t.kid \in JwKids /\ jwIssuer[t.kid] = t.signer /\ t.alg = JwAlg[t.signer]
  IN jwVerdict # NoVerdict =>
       /\ jwVerdict.ok =>
            /\ t.alg = "HS256" <=> t.signer = JwSecret
            /\ t.signer \in {JwSecret, jwOptions.static} \/ recent(t.signer) \/ jwFailing
       /\ jwOptions.jwks /\ published /\ t.alg # "" /\ ~jwVerdict.verified =>
            \/ jwFailing
            \/ /\ jwSince[t.kid] + JwTimeout >= jwFetched
               /\ \/ t.kid \in DOMAIN jwKeys /\ jwNow < jwFetched + JwHeld
                  \/ t.kid \notin DOMAIN jwKeys /\ (jwFetched = jwNow \/ jwNow < jwAttempted + JwMinRefetch)
       /\ t.iat # 0 /\ jwVerdict.verified =>
            (jwVerdict.ok <=> jwNow <= t.exp + JwLeeway /\ (t.nbf = NoClaim \/ jwNow >= t.nbf - JwLeeway))

----
\* What OAuth2.cpp and Csrf.cpp leave in a browser's cookies, and how requests
\* that overlap meet it there: logins in several tabs, a callback that is sent
\* twice or by another browser, the first pages of a visit loaded in parallel.
\* The provider is external: it issues a code for the challenge it was given,
\* and redeems it once, for the matching verifier.

CONSTANTS BfBrowsers, Tabs,       \* browsers, and their tabs: pairs of a browser and a number
          BfTokens,               \* what random_token() and generate_random_token() may return
          BfNone

VARIABLES bfPkce,     \* config.use_pkce
          bfJar,      \* the cookies of every browser: state, verifier and csrf
          bfReq,      \* what is in flight in every tab
          bfLinks,    \* callback URLs the provider has sent browsers to: state and code
          bfRedeemed, \* codes the provider has given a token for
          bfFlows,    \* history: the flows, with the browser that started each
          bfLogins,   \* history: flows for which on_success was called, and in which browser
          bfPages,    \* pages that carry a csrf token, and whether it was sent with the cookie
          bfUsed,     \* tokens handed out
          bfPassed    \* history: the last check of a csrf token

ASSUME BfAssumption == BfNone \notin BfTokens /\ Tabs \subseteq BfBrowsers \X Nat

bfVars == <<bfPkce, bfJar, bfReq, bfLinks, bfRedeemed, bfFlows, bfLogins, bfPages, bfUsed, bfPassed>>

Idle == [kind |-> "idle"]
EmptyJar == [state |-> BfNone, verifier |-> BfNone, csrf |-> BfNone]
NoCheck == [ok |-> "none"]

BfInit ==
  /\ bfPkce \in BOOLEAN
  /\ bfJar = [b \in BfBrowsers |-> EmptyJar]
  /\ bfReq = [t \in Tabs |-> Idle]
  /\ bfLinks = {} /\ bfRedeemed = {} /\ bfFlows = {} /\ bfLogins = {} /\ bfPages = {} /\ bfUsed = {} /\ bfPassed = NoCheck

Fresh == CHOOSE x \in BfTokens \ bfUsed : TRUE
Spare == bfUsed # BfTokens

\* login_handler: a flow has a new state and, with PKCE, a new verifier (named
\* after the state here); both go into cookies, the challenge to the provider.
\* The Set-Cookie headers arrive later.
Login(t) ==
  /\ bfReq[t] = Idle /\ Spare
  /\ bfReq' = [bfReq EXCEPT ![t] = [kind |-> "login", flow |-> Fresh]]
  /\ bfFlows' = bfFlows \cup {[flow |-> Fresh, browser |-> t[1]]}
  /\ bfUsed' = bfUsed \cup {Fresh}
  /\ UNCHANGED <<bfPkce, bfJar, bfLinks, bfRedeemed, bfLogins, bfPages>> /\ bfPassed' = NoCheck

\* The redirect arrives: the cookies are set, over those of an earlier login,
\* and the provider sends the browser back with the state and a code.
Redirected(t) ==
  /\ bfReq[t].kind = "login"
  /\ LET f == bfReq[t].flow
         jar == bfJar[t[1]]
     IN /\ bfJar' = [bfJar EXCEPT ![t[1]] = [jar EXCEPT !.state = f, !.verifier = IF bfPkce THEN f ELSE jar.verifier]]
        /\ bfLinks' = bfLinks \cup {[state |-> f, code |-> f]}
  /\ bfReq' = [bfReq EXCEPT ![t] = Idle]
  /\ UNCHANGED <<bfPkce, bfRedeemed, bfFlows, bfLogins, bfPages, bfUsed>> /\ bfPassed' = NoCheck

\* Mutant: any state will do.
state_matches_Any(link, jar) == link.state # BfNone /\ jar.state # BfNone

\* callback_handler up to the request for the token: the state in the URL and
\* the one in the cookie must be there and agree, and the verifier be there.
state_matches(link, jar) == link.state # BfNone /\ link.state = jar.state
CallbackOpens(t, link) ==
  LET jar == bfJar[t[1]]
      ok == state_matches(link, jar) /\ link.code # BfNone /\ (bfPkce => jar.verifier # BfNone)
  IN /\ bfReq[t] = Idle
     /\ bfReq' = [bfReq EXCEPT ![t] = [kind |-> IF ok THEN "exchange" ELSE "refused", flow |-> link.state,
           code |-> link.code, verifier |-> jar.verifier]]
     /\ UNCHANGED <<bfPkce, bfJar, bfLinks, bfRedeemed, bfFlows, bfLogins, bfPages, bfUsed>> /\ bfPassed' = NoCheck

\* fetch() of the token, then of the user: either may fail, and then on_error is
\* called. The provider knows the code, has not redeemed it yet and, with PKCE,
\* knows its challenge.
Exchange(t, fails) ==
  LET r == bfReq[t]
      ok == ~fails /\ r.code \notin bfRedeemed /\ (bfPkce => r.verifier = r.code)
  IN /\ r.kind = "exchange"
     /\ bfRedeemed' = IF r.code \notin bfRedeemed /\ (bfPkce => r.verifier = r.code) THEN bfRedeemed \cup {r.code} ELSE bfRedeemed
     /\ bfLogins' = IF ok THEN bfLogins \cup {[flow |-> r.flow, code |-> r.code, browser |-> t[1], tab |-> t[2]]} ELSE bfLogins
     /\ bfReq' = [bfReq EXCEPT ![t].kind = "refused"]
     /\ UNCHANGED <<bfPkce, bfJar, bfLinks, bfFlows, bfPages, bfUsed>> /\ bfPassed' = NoCheck

\* The answer, whatever it is: the interceptor clears the cookies of the flow.
CallbackEnds(t) ==
  /\ bfReq[t].kind = "refused"
  /\ LET jar == bfJar[t[1]]
     IN bfJar' = [bfJar EXCEPT ![t[1]] = [jar EXCEPT !.state = BfNone, !.verifier = IF bfPkce THEN BfNone ELSE jar.verifier]]
  /\ bfReq' = [bfReq EXCEPT ![t] = Idle]
  /\ UNCHANGED <<bfPkce, bfLinks, bfRedeemed, bfFlows, bfLogins, bfPages, bfUsed>> /\ bfPassed' = NoCheck

\* Csrf::operator() for GET, HEAD and OPTIONS: a page carries the token of the
\* cookie, or a new one that becomes the cookie when the response arrives.
Get(t) ==
  LET known == bfJar[t[1]].csrf
      token == IF known # BfNone THEN known ELSE Fresh
  IN /\ bfReq[t] = Idle /\ (known = BfNone => Spare)
     /\ bfReq' = [bfReq EXCEPT ![t] = [kind |-> "page", token |-> token, first |-> known = BfNone]]
     /\ bfUsed' = bfUsed \cup {token}
     /\ UNCHANGED <<bfPkce, bfJar, bfLinks, bfRedeemed, bfFlows, bfLogins, bfPages>> /\ bfPassed' = NoCheck

Page(t) ==
  LET r == bfReq[t]
  IN /\ r.kind = "page"
     /\ bfJar' = [bfJar EXCEPT ![t[1]].csrf = IF r.first THEN r.token ELSE @]
     /\ bfPages' = bfPages \cup {[browser |-> t[1], token |-> r.token, first |-> r.first]}
     /\ bfReq' = [bfReq EXCEPT ![t] = Idle]
     /\ UNCHANGED <<bfPkce, bfLinks, bfRedeemed, bfFlows, bfLogins, bfUsed>> /\ bfPassed' = NoCheck

\* A mutating request: the header or the field _csrf must equal the cookie.
Post(b, page) ==
  LET cookie == bfJar[b].csrf
  IN /\ bfPassed = NoCheck
     /\ bfPassed' = [ok |-> cookie # BfNone /\ page.token = cookie, browser |-> b, page |-> page]
     /\ UNCHANGED <<bfPkce, bfJar, bfReq, bfLinks, bfRedeemed, bfFlows, bfLogins, bfPages, bfUsed>>

BfNext ==
  \/ \E t \in Tabs : \/ Login(t) \/ Redirected(t) \/ CallbackEnds(t) \/ Get(t) \/ Page(t)
                     \/ \E link \in bfLinks \cup {[state |-> BfNone, code |-> BfNone]} : CallbackOpens(t, link)
                     \/ \E fails \in BOOLEAN : Exchange(t, fails)
  \/ \E b \in BfBrowsers : \E page \in bfPages : Post(b, page)

BfSpec == BfInit /\ [][BfNext]_bfVars

BfTypeOK == bfUsed \subseteq BfTokens /\ bfLinks \subseteq [state : BfTokens, code : BfTokens]

\* A login succeeds only in the browser that started it, once, and with the
\* code of that very flow, whatever other tabs of the browser begin meanwhile
\* and whoever opens a callback URL; a changing request passes only with a
\* token of a page of the same browser; and the token of a page that came with
\* the cookie it was checked against is not refused until another first page
\* of the browser, asked for at the same time, has set another cookie
\* (OAuth2.cpp:186, 198-208; Csrf.cpp:24-40, 69).
FlowsOwned ==
  /\ \A l \in bfLogins : [flow |-> l.flow, browser |-> l.browser] \in bfFlows /\ l.code = l.flow
  /\ \A l, k \in bfLogins : l.flow = k.flow => l = k
  /\ bfPassed # NoCheck =>
       /\ bfPassed.ok => bfPassed.page.browser = bfPassed.browser
       /\ bfPassed.page.browser = bfPassed.browser /\ ~bfPassed.ok =>
            \E p \in bfPages : p.browser = bfPassed.browser /\ p.first /\ p.token # bfPassed.page.token

\* Nobody is taken for somebody else: by a token, or in the course of logging in
\* (jwt_auth, OAuth2, csrf).
CredentialsSound == JwTypeOK /\ TokensSound /\ BfTypeOK /\ FlowsOwned
====
