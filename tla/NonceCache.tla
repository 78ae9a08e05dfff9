------------------------------ MODULE NonceCache ------------------------------
(***************************************************************************)
(* Verification of signed requests in app/auth/hmac.py, with the cache of  *)
(* nonces, which is bounded both by age and by size.  _verify_request runs *)
(* on the event loop without an await: one request is one step.  Whose key *)
(* a signature was made with is a part of the request.  HMAC_ENABLED is    *)
(* taken to be set, and time.time not to go back.                          *)
(***************************************************************************)
EXTENDS Naturals, Sequences

CONSTANTS
    Nonces,
    MaxAge,          \* HMAC_SIGNATURE_MAX_AGE
    MaxCache,        \* _MAX_NONCE_CACHE_SIZE
    HasEngineerKey,  \* whether HMAC_SECRET_KEY_ENGINEER is set
    MaxNow,          \* bound of the clock
    NotANumber,      \* the stamp that float("nan") reads
    Never

ASSUME AgeAssumption == MaxAge \in Nat
ASSUME CacheAssumption == MaxCache \in Nat \ {0}
ASSUME EngineerAssumption == HasEngineerKey \in BOOLEAN
ASSUME NowAssumption == MaxNow \in Nat /\ Never \notin Nat
ASSUME NanAssumption == NotANumber \notin Nat

VARIABLES
    now,       \* time.time()
    cache,     \* _nonce_cache: the nonces with their times, oldest first
    verdict,   \* the latest verdict
    acted,     \* history: the latest request with each nonce that was let through
    since      \* history: how many nonces were stored after each one (at most MaxCache)

nonceVars == << now, cache, verdict, acted, since >>

-------------------------------------------------------------------------------
Entry == [nonce : Nonces, at : 0..MaxNow]

\* A request with all four headers and a readable time stamp, by the holder of the core
\* key, by that of the engineer key to GET or to do more, or by neither.  Clients' clocks
\* differ.
Stamp == 0..MaxNow \cup {NotANumber}

SignedRequest ==
    [nonce : Nonces, stamp : Stamp, by : { "coordinator", "reader", "writer", "nobody" }]

NonceInit ==
    /\ now = 0
    /\ cache = << >>
    /\ verdict = "none"
    /\ acted = [n \in Nonces |-> Never]
    /\ since = [n \in Nonces |-> Never]

\* Bug: an entry goes at the very age at which a request still passes.
ExpiredEarly(e) == now - e.at >= MaxAge

ExpiredEntry(e) == now - e.at > MaxAge

\* The entries left once the expired ones at the front are gone.
Unexpired ==
    LET kept == { i \in DOMAIN cache : ~ExpiredEntry(cache[i]) }
        first == CHOOSE i \in kept : \A j \in kept : i <= j
    IN IF kept = {} THEN << >> ELSE SubSeq(cache, first, Len(cache))

\* Bug: room is made only by age.
Unbounded(entries) == entries

\* Room for one more, made before it is known whether it is needed.
Capped(entries) ==
    IF Len(entries) < MaxCache THEN entries
    ELSE SubSeq(entries, Len(entries) - MaxCache + 2, Len(entries))

Holds(entries, n) == \E i \in DOMAIN entries : entries[i].nonce = n

\* abs(now - stamp) > MaxAge, which no comparison with NaN is.
OutOfDate(req) ==
    req.stamp # NotANumber /\ (req.stamp > now + MaxAge \/ now > req.stamp + MaxAge)

\* The signature is compared with that of each key in turn.  An engineer may only read.
Judge(req) ==
    CASE req.by = "coordinator" -> "coordinator"
      [] req.by = "reader" /\ HasEngineerKey -> "engineer"
      [] req.by = "writer" /\ HasEngineerKey -> "forbidden"
      [] OTHER -> "invalid"

LetThrough == { "coordinator", "engineer" }

\* A header is missing or the stamp cannot be read.
RejectMalformed ==
    /\ verdict' = "malformed"
    /\ UNCHANGED << now, cache, acted, since >>

RejectOutOfDate(req) ==
    /\ OutOfDate(req)
    /\ verdict' = "out_of_date"
    /\ UNCHANGED << now, cache, acted, since >>

RejectReplay(req) ==
    /\ ~OutOfDate(req)
    /\ Holds(Capped(Unexpired), req.nonce)
    /\ cache' = Capped(Unexpired)
    /\ verdict' = "replay"
    /\ UNCHANGED << now, acted, since >>

\* The nonce is stored before the signature is looked at.
VerifySignature(req) ==
    /\ ~OutOfDate(req)
    /\ ~Holds(Capped(Unexpired), req.nonce)
    /\ cache' = Append(Capped(Unexpired), [nonce |-> req.nonce, at |-> now])
    /\ verdict' = Judge(req)
    /\ acted' = IF Judge(req) \in LetThrough
                  THEN [acted EXCEPT ![req.nonce] = [stamp |-> req.stamp, at |-> now]] ELSE acted
    /\ since' = [n \in Nonces |->
                   IF n = req.nonce THEN 0
                   ELSE IF since[n] = Never \/ since[n] = MaxCache THEN since[n]
                   ELSE since[n] + 1]
    /\ UNCHANGED now

Tick ==
    /\ now < MaxNow
    /\ now' = now + 1
    /\ UNCHANGED << cache, verdict, acted, since >>

\* The cache is in memory: a new process knows no nonce.
Restart ==
    /\ cache' = << >>
    /\ acted' = [n \in Nonces |-> Never]
    /\ since' = [n \in Nonces |-> Never]
    /\ UNCHANGED << now, verdict >>

NonceNext ==
    \/ RejectMalformed
    \/ \E req \in SignedRequest : RejectOutOfDate(req) \/ RejectReplay(req) \/ VerifySignature(req)
    \/ Tick
    \/ Restart

NonceSpec == NonceInit /\ [][NonceNext]_nonceVars

-------------------------------------------------------------------------------
NonceTypeOK ==
    /\ now \in 0..MaxNow
    /\ cache \in Seq(Entry)
    /\ verdict \in { "none", "malformed", "out_of_date", "replay", "invalid", "forbidden" }
                     \cup LetThrough
    /\ acted \in [Nonces -> [stamp : Stamp, at : 0..MaxNow] \cup {Never}]
    /\ since \in [Nonces -> 0..MaxCache \cup {Never}]

\* The shape that evicting from the front relies on, kept by every mixture of the two
\* evictions: the cache is in order of time, holds a nonce once and never overflows.
CacheInOrder ==
    /\ Len(cache) <= MaxCache
    /\ \A i, j \in DOMAIN cache : i < j =>
         cache[i].at <= cache[j].at /\ cache[i].nonce # cache[j].nonce

\* One signed request is acted on once: its nonce is kept for as long as its stamp is
\* accepted.  Excepted are a restart, a nonce pushed out by MaxCache - 1 later ones (not
\* MaxCache: room is made before the look-up), a stamp ahead of the server's clock, which
\* is accepted for longer than the nonce is kept, and one that is no number, for ever.
SignedRequestOnce ==
    [][\A req \in SignedRequest :
         /\ acted[req.nonce] # Never
         /\ acted[req.nonce].stamp = req.stamp
         /\ req.stamp # NotANumber
         /\ req.stamp <= acted[req.nonce].at
         /\ since[req.nonce] < MaxCache - 1
         => ~(VerifySignature(req) /\ Judge(req) \in LetThrough)]_nonceVars
===============================================================================
