------------------------------ MODULE TokenCache ------------------------------
(***************************************************************************)
(* HubSpotAuthClient of app/clients/hubspot_auth.py: one client with one   *)
(* set of credentials, its cache of the OAuth token and the refresh, an    *)
(* HTTP request during which time passes.  Token 0 is the one supplied     *)
(* with the credentials, about whose life the client knows nothing; the    *)
(* others are granted by HubSpot, which counts their life from its own     *)
(* answer and not from its arrival.                                        *)
(***************************************************************************)
EXTENDS Naturals

CONSTANTS
    Margin,        \* the cache is used until so long before the expiry (60 s)
    Assumed,       \* life assumed of a token of unknown life (1800 s)
    Latency,       \* HUBSPOT_REQUEST_TIMEOUT: the longest a request takes
    Grants,        \* values of expires_in
    MaxTokens,     \* bound of the refreshes
    MaxClock,      \* bound of the clock
    Unknown,       \* no expires_in in the answer
    NoToken

ASSUME MarginAssumption == Margin \in Nat /\ Assumed \in Nat /\ Latency \in Nat
ASSUME GrantsAssumption == Grants \subseteq Nat
ASSUME TokenBounds == MaxTokens \in Nat /\ MaxClock \in Nat
ASSUME UnknownAssumption == Unknown \notin Nat
ASSUME NoTokenIsNone == NoToken \notin Nat \cup [token : Nat, expires_at : Nat]

VARIABLES
    creds,       \* the credentials: [oauth, access, refresh : BOOLEAN]
    clock,       \* time.time()
    cached,      \* _token_cache's entry, or NoToken
    sent,        \* when the refresh in progress was sent, or NoToken
    purpose,     \* what the present call is for: "scan" or "validate"
    handed,      \* the latest token handed out, with the time and where it came from
    report,      \* the outcome of the latest call
    life,        \* history: when each granted token really expires, or Unknown
    firstUse     \* history: when token 0 was first used since the cache was empty

tokenVars == << creds, clock, cached, sent, purpose, handed, report, life, firstUse >>

-------------------------------------------------------------------------------
Token == 0..MaxTokens

Granted == DOMAIN life

TokenInit ==
    /\ creds \in [oauth : BOOLEAN, access : BOOLEAN, refresh : BOOLEAN]
    /\ clock = 0
    /\ cached = NoToken
    /\ sent = NoToken
    /\ purpose = "scan"
    /\ handed = NoToken
    /\ report = "none"
    /\ life = [k \in {} |-> 0]
    /\ firstUse = NoToken

Asked(p) ==
    /\ sent = NoToken
    /\ report # "token"
    /\ purpose' = p
    /\ UNCHANGED << creds, clock, sent, life >>

\* A scan has what it wanted; a validation goes on to ask HubSpot about the account.
Hand(p, token, from) ==
    /\ handed' = [token |-> token, at |-> clock, from |-> from]
    /\ report' = IF p = "validate" THEN "token" ELSE "handed"

Raise(p) ==
    /\ report' = IF p = "validate" THEN "not_valid" ELSE "raised"
    /\ UNCHANGED handed

PrivateApp(p) ==
    /\ Asked(p)
    /\ ~creds.oauth
    /\ IF creds.access THEN Hand(p, 0, "credentials") ELSE Raise(p)
    /\ UNCHANGED << cached, firstUse >>

\* Bug: no margin.
UntilExpiry == cached # NoToken /\ cached.expires_at > clock

Fresh == cached # NoToken /\ cached.expires_at > clock + Margin

FromCache(p) ==
    /\ Asked(p)
    /\ creds.oauth
    /\ Fresh
    /\ Hand(p, cached.token, "cache")
    /\ UNCHANGED << cached, firstUse >>

\* Bug: the supplied token is taken whenever the cache is of no use.
WheneverSupplied == creds.access

\* First use of the supplied token: access_token and not cached.
Untried == creds.access /\ cached = NoToken

FirstUse(p) ==
    /\ Asked(p)
    /\ creds.oauth
    /\ ~Fresh
    /\ Untried
    /\ cached' = [token |-> 0, expires_at |-> clock + Assumed]
    /\ firstUse' = IF firstUse = NoToken THEN clock ELSE firstUse
    /\ Hand(p, 0, "credentials")

\* There is nothing to refresh with: the old token is handed out, if there is one.
WithoutRefresh(p) ==
    /\ Asked(p)
    /\ creds.oauth
    /\ ~Fresh /\ ~Untried
    /\ ~creds.refresh
    /\ IF creds.access THEN Hand(p, 0, "credentials") ELSE Raise(p)
    /\ UNCHANGED << cached, firstUse >>

BeginRefresh(p) ==
    /\ creds.oauth
    /\ report # "token" /\ sent = NoToken
    /\ ~Fresh /\ ~Untried
    /\ creds.refresh
    /\ sent' = clock
    /\ purpose' = p
    /\ UNCHANGED << creds, clock, cached, handed, report, life, firstUse >>

\* The answer, to a grant made since the request was sent.  Without an expires_in the
\* client assumes a life, which need not be the token's.
Refreshed(granted, expires_in) ==
    /\ sent # NoToken
    /\ granted \in sent..clock
    /\ Granted # 1..MaxTokens
    /\ LET k == CHOOSE k \in 1..MaxTokens : Granted = 1..(k - 1) IN
         /\ life' = [i \in Granted \cup {k} |->
                       IF i # k THEN life[i]
                       ELSE IF expires_in = Unknown THEN Unknown ELSE granted + expires_in]
         /\ cached' = [token |-> k,
                       expires_at |-> clock + (IF expires_in = Unknown THEN Assumed ELSE expires_in)]
         /\ Hand(purpose, k, "refresh")
    /\ sent' = NoToken
    /\ UNCHANGED << creds, clock, purpose, firstUse >>

\* A connection error, a refusal, an answer without a token, or credentials without
\* what a refresh needs: the cache stays as it is.
RefreshFails ==
    /\ sent # NoToken
    /\ sent' = NoToken
    /\ Raise(purpose)
    /\ UNCHANGED << creds, clock, cached, purpose, life, firstUse >>

\* validate_credentials asks for the account's details.
Validate(answer) ==
    /\ report = "token"
    /\ report' = IF answer = 200 THEN "valid" ELSE "not_valid"
    /\ UNCHANGED << creds, clock, cached, sent, purpose, handed, life, firstUse >>

ClearCache ==
    /\ sent = NoToken
    /\ cached' = NoToken
    /\ firstUse' = NoToken
    /\ UNCHANGED << creds, clock, sent, purpose, handed, report, life >>

TokenTick ==
    /\ clock < MaxClock
    /\ sent # NoToken => clock < sent + Latency
    /\ clock' = clock + 1
    /\ UNCHANGED << creds, cached, sent, purpose, handed, report, life, firstUse >>

TokenNext ==
    \/ \E p \in { "scan", "validate" } :
         PrivateApp(p) \/ FromCache(p) \/ FirstUse(p) \/ WithoutRefresh(p) \/ BeginRefresh(p)
    \/ \E granted \in 0..MaxClock, expires_in \in Grants \cup {Unknown} :
         Refreshed(granted, expires_in)
    \/ RefreshFails
    \/ \E answer \in { 200, 401, 500 } : Validate(answer)
    \/ ClearCache
    \/ TokenTick

TokenSpec == TokenInit /\ [][TokenNext]_tokenVars

-------------------------------------------------------------------------------
TokenTypeOK ==
    /\ creds \in [oauth : BOOLEAN, access : BOOLEAN, refresh : BOOLEAN]
    /\ clock \in 0..MaxClock
    /\ cached \in [token : Token, expires_at : Nat] \cup {NoToken}
    /\ sent \in 0..MaxClock \cup {NoToken}
    /\ handed \in [token : Token, at : 0..MaxClock, from : { "credentials", "cache", "refresh" }]
                    \cup {NoToken}
    /\ report \in { "none", "handed", "raised", "token", "valid", "not_valid" }
    /\ Granted \subseteq 1..MaxTokens
    /\ firstUse \in 0..MaxClock \cup {NoToken}

\* A granted token taken from the cache has life left although the client dates its
\* expiry from the arrival of the answer: more than the margin less the longest
\* request, whatever was refreshed, refused or cleared before.  Excepted is one of which
\* HubSpot did not say how long it lives.
CachedTokenHasLife ==
    handed # NoToken /\ handed.from = "cache" /\ handed.token > 0 =>
        life[handed.token] = Unknown \/ life[handed.token] + Latency > handed.at + Margin

\* With a refresh token the supplied one is not trusted for ever: its last use comes no
\* later than the assumed life after the first, less the margin, and a failing refresh
\* does not bring it back.
SuppliedIsRetired ==
    handed # NoToken /\ handed.token = 0 /\ creds.oauth /\ creds.refresh /\ firstUse # NoToken =>
        \/ handed.at = firstUse
        \/ handed.at + Margin < firstUse + Assumed
===============================================================================
