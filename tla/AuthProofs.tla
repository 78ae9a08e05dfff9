------------------------------- MODULE AuthProofs -------------------------------
(***************************************************************************)
(* Theorems about the two caches of authentication.  NonceCache, for every *)
(* set of nonces, age, size of the cache and bound of the clock: the shape *)
(* of the cache, and that a signed request is acted on once.  TokenCache,  *)
(* for every margin, assumed life, latency, set of grants and bounds.      *)
(***************************************************************************)
EXTENDS NonceCache, TokenCache, WellFoundedInduction, TLAPS

\* What is left of s once something was dropped from its front.
Suffix(t, s) ==
    /\ t \in Seq(Entry)
    /\ Len(t) <= Len(s)
    /\ \A i \in 1..Len(t) : t[i] = s[i + (Len(s) - Len(t))]

\* The entries are in order of time, none is of the future and no nonce is there twice.
InOrder(s) ==
    /\ \A i \in 1..Len(s) : s[i].at <= now
    /\ \A i, j \in 1..Len(s) : i < j => s[i].at <= s[j].at /\ s[i].nonce # s[j].nonce

\* The inductive invariant of the cache.
CacheInv == NonceTypeOK /\ Len(cache) <= MaxCache /\ InOrder(cache)

-------------------------------------------------------------------------------
\* A set of numbers that is not empty has a least one.
LEMMA Least ==
    ASSUME NEW T \in SUBSET Nat, T # {}
    PROVE  \E m \in T : \A k \in T : m <= k
<1> DEFINE Less == { ss \in Nat \X Nat : ss[1] < ss[2] }
<1>1. IsWellFoundedOn(Less, Nat)
  BY NatLessThanWellFounded DEF OpToRel
<1>2. PICK m \in T : \A k \in T : ~ (<< k, m >> \in Less)
  BY <1>1, WFMin
<1>3. ASSUME NEW k \in T PROVE m <= k
  <2>1. m \in Nat /\ k \in Nat /\ << k, m >> \notin Less
    BY <1>2
  <2>2. k < m => << k, m >> \in Less
    BY <2>1
  <2> QED
    BY <2>1, <2>2
<1> QED
  BY <1>3

\* A subsequence up to the end.
LEMMA FromLemma ==
    ASSUME NEW s \in Seq(Entry), NEW k \in Nat \ {0}, k <= Len(s) + 1
    PROVE  /\ Suffix(SubSeq(s, k, Len(s)), s)
           /\ Len(SubSeq(s, k, Len(s))) = Len(s) + 1 - k
<1> DEFINE t == SubSeq(s, k, Len(s))
<1>1. t \in Seq(Entry) /\ Len(t) = Len(s) + 1 - k
  OBVIOUS
<1>2. \A i \in 1..Len(t) : t[i] = s[i + (k - 1)]
  BY <1>1
<1>3. k - 1 = Len(s) - Len(t)
  BY <1>1
<1> QED
  BY <1>1, <1>2, <1>3 DEF Suffix

\* Eviction by age: what is left is the end of the cache, and every entry that is not
\* expired is among it.
LEMMA UnexpiredLemma ==
    ASSUME cache \in Seq(Entry)
    PROVE  /\ Suffix(Unexpired, cache)
           /\ \A i \in 1..Len(cache) :
                ~ExpiredEntry(cache[i]) => i > Len(cache) - Len(Unexpired)
<1> DEFINE kept == { i \in DOMAIN cache : ~ExpiredEntry(cache[i]) }
           first == CHOOSE i \in kept : \A j \in kept : i <= j
<1>d. DOMAIN cache = 1..Len(cache) /\ Len(cache) \in Nat
  OBVIOUS
<1>1. CASE kept = {}
  <2>1. Unexpired = << >>
    BY <1>1 DEF Unexpired
  <2>2. Suffix(<< >>, cache)
    BY <1>d DEF Suffix
  <2> QED
    BY <1>1, <1>d, <2>1, <2>2
<1>2. CASE kept # {}
  <2>1. Unexpired = SubSeq(cache, first, Len(cache))
    BY <1>2 DEF Unexpired
  <2>2. kept \in SUBSET Nat
    BY <1>d
  <2>3. first \in kept /\ \A j \in kept : first <= j
    <3> HIDE DEF kept
    <3> QED
      BY <1>2, <2>2, Least
  <2>4. first \in Nat \ {0} /\ first <= Len(cache)
    BY <1>d, <2>3
  <2> HIDE DEF first
  <2>5. Suffix(Unexpired, cache) /\ Len(Unexpired) = Len(cache) + 1 - first
    BY <2>1, <2>4, FromLemma
  <2>6. ASSUME NEW i \in 1..Len(cache), ~ExpiredEntry(cache[i])
        PROVE  i > Len(cache) - Len(Unexpired)
    <3>1. i \in kept
      BY <1>d, <2>6
    <3> QED
      BY <1>d, <2>3, <2>4, <2>5, <3>1
  <2> QED
    BY <2>5, <2>6
<1> QED
  BY <1>1, <1>2

\* Eviction by size: what is left is the end of s, with room for one more; as many as
\* leave that room stay.
LEMMA CappedLemma ==
    ASSUME NEW s \in Seq(Entry)
    PROVE  /\ Suffix(Capped(s), s)
           /\ Len(Capped(s)) < MaxCache
           /\ \A i \in 1..Len(s) : Len(s) - i + 1 < MaxCache => i > Len(s) - Len(Capped(s))
<1>1. MaxCache \in Nat \ {0} /\ Len(s) \in Nat
  BY CacheAssumption
<1>2. CASE Len(s) < MaxCache
  BY <1>1, <1>2 DEF Capped, Suffix
<1>3. CASE Len(s) >= MaxCache
  <2> DEFINE k == Len(s) - MaxCache + 2
  <2>1. k \in Nat \ {0} /\ k <= Len(s) + 1 /\ Capped(s) = SubSeq(s, k, Len(s))
    BY <1>1, <1>3 DEF Capped
  <2>2. Suffix(Capped(s), s) /\ Len(Capped(s)) = MaxCache - 1
    BY <1>1, <2>1, FromLemma
  <2> QED
    BY <1>1, <2>2
<1> QED
  BY <1>1, <1>2, <1>3

\* The end of an ordered sequence is ordered, and so is the end of its end.
LEMMA SuffixLemma ==
    ASSUME NEW s \in Seq(Entry), NEW t, Suffix(t, s)
    PROVE  /\ InOrder(s) => InOrder(t)
           /\ \A u : Suffix(u, t) => Suffix(u, s)
<1>1. t \in Seq(Entry) /\ Len(t) \in Nat /\ Len(s) \in Nat /\ Len(t) <= Len(s)
  BY DEF Suffix
<1>2. \A i \in 1..Len(t) : i + (Len(s) - Len(t)) \in 1..Len(s)
  BY <1>1
<1>3. InOrder(s) => InOrder(t)
  <2> DEFINE d == Len(s) - Len(t)
  <2>1. \A i \in 1..Len(t) : i + d \in 1..Len(s) /\ t[i] = s[i + d]
    BY <1>2 DEF Suffix
  <2>2. \A i, j \in 1..Len(t) : i < j => i + d < j + d
    BY <1>1
  <2> HIDE DEF d
  <2> SUFFICES ASSUME InOrder(s) PROVE InOrder(t)
    OBVIOUS
  <2>3. ASSUME NEW i \in 1..Len(t) PROVE t[i].at <= now
    BY <2>1 DEF InOrder
  <2>4. ASSUME NEW i \in 1..Len(t), NEW j \in 1..Len(t), i < j
        PROVE  t[i].at <= t[j].at /\ t[i].nonce # t[j].nonce
    <3>1. i + d \in 1..Len(s) /\ j + d \in 1..Len(s) /\ i + d < j + d
      BY <2>1, <2>2, <2>4
    <3>2. s[i + d].at <= s[j + d].at /\ s[i + d].nonce # s[j + d].nonce
      BY <3>1 DEF InOrder
    <3> QED
      BY <2>1, <3>2
  <2> QED
    BY <2>3, <2>4 DEF InOrder
<1>4. ASSUME NEW u, Suffix(u, t) PROVE Suffix(u, s)
  <2>1. u \in Seq(Entry) /\ Len(u) \in Nat /\ Len(u) <= Len(t)
    BY <1>4 DEF Suffix
  <2>2. ASSUME NEW i \in 1..Len(u) PROVE u[i] = s[i + (Len(s) - Len(u))]
    <3>1. i + (Len(t) - Len(u)) \in 1..Len(t) /\ u[i] = t[i + (Len(t) - Len(u))]
      BY <1>1, <1>4, <2>1 DEF Suffix
    <3>2. (i + (Len(t) - Len(u))) + (Len(s) - Len(t)) = i + (Len(s) - Len(u))
      BY <1>1, <2>1
    <3> QED
      BY <3>1, <3>2 DEF Suffix
  <2> QED
    BY <1>1, <2>1, <2>2 DEF Suffix
<1> QED
  BY <1>3, <1>4

\* What a request leaves of the cache before it looks for its nonce.
LEMMA EvictedLemma ==
    ASSUME CacheInv
    PROVE  /\ Suffix(Capped(Unexpired), cache)
           /\ Len(Capped(Unexpired)) < MaxCache
           /\ InOrder(Capped(Unexpired))
           /\ \A i \in 1..Len(cache) :
                /\ ~ExpiredEntry(cache[i])
                /\ Len(cache) - i + 1 < MaxCache
                => i > Len(cache) - Len(Capped(Unexpired))
<1> DEFINE U == Unexpired
           C == Capped(Unexpired)
<1>1. cache \in Seq(Entry) /\ InOrder(cache) /\ MaxCache \in Nat
  BY CacheAssumption DEF CacheInv, NonceTypeOK
<1>2. /\ Suffix(U, cache)
      /\ \A i \in 1..Len(cache) : ~ExpiredEntry(cache[i]) => i > Len(cache) - Len(U)
  BY <1>1, UnexpiredLemma
<1>3. U \in Seq(Entry) /\ Len(U) <= Len(cache)
  BY <1>2 DEF Suffix
<1>4. /\ Suffix(C, U) /\ Len(C) < MaxCache
      /\ \A i \in 1..Len(U) : Len(U) - i + 1 < MaxCache => i > Len(U) - Len(C)
  BY <1>3, CappedLemma
<1>5. Suffix(C, cache) /\ InOrder(C)
  BY <1>1, <1>2, <1>3, <1>4, SuffixLemma
<1> HIDE DEF U, C
<1>6. ASSUME NEW i \in 1..Len(cache), ~ExpiredEntry(cache[i]), Len(cache) - i + 1 < MaxCache
      PROVE  i > Len(cache) - Len(C)
  <2>1. /\ Len(cache) \in Nat /\ Len(U) \in Nat /\ Len(C) \in Nat
        /\ i > Len(cache) - Len(U)
    BY <1>1, <1>2, <1>3, <1>4, <1>6 DEF Suffix
  <2> DEFINE j == i - (Len(cache) - Len(U))
  <2>2. j \in 1..Len(U) /\ Len(U) - j + 1 < MaxCache
    BY <1>3, <1>6, <2>1
  <2>3. j > Len(U) - Len(C)
    BY <1>4, <2>2
  <2> QED
    BY <2>1, <2>3
<1> QED
  BY <1>4, <1>5, <1>6 DEF C

\* Every verdict is one of those listed.
LEMMA JudgeLemma ==
    ASSUME NEW req \in SignedRequest
    PROVE  Judge(req) \in { "invalid", "forbidden" } \cup LetThrough
  BY DEF SignedRequest, Judge, LetThrough

\* The cache after a request that stores its nonce.
LEMMA StoredLemma ==
    ASSUME CacheInv, NEW req \in SignedRequest, VerifySignature(req)
    PROVE  /\ cache' \in Seq(Entry)
           /\ Len(cache') = Len(Capped(Unexpired)) + 1
           /\ \A i \in 1..Len(Capped(Unexpired)) : cache'[i] = Capped(Unexpired)[i]
           /\ cache'[Len(cache')] = [nonce |-> req.nonce, at |-> now]
           /\ Len(cache') <= MaxCache
           /\ InOrder(cache)'
<1> DEFINE C == Capped(Unexpired)
           e == [nonce |-> req.nonce, at |-> now]
<1>1. /\ C \in Seq(Entry) /\ Len(C) < MaxCache /\ InOrder(C)
      /\ ~Holds(C, req.nonce) /\ cache' = Append(C, e) /\ now' = now
  BY EvictedLemma DEF VerifySignature, Suffix
<1>2. e \in Entry /\ e.at = now /\ e.nonce = req.nonce /\ now \in Nat
  BY DEF Entry, CacheInv, NonceTypeOK, SignedRequest
<1>n. \A i \in 1..Len(C) : C[i].nonce # req.nonce
  BY <1>1 DEF Holds
<1>m. MaxCache \in Nat
  BY CacheAssumption
<1> HIDE DEF C, e
<1>3. /\ cache' \in Seq(Entry) /\ Len(cache') = Len(C) + 1 /\ Len(C) \in Nat
      /\ \A i \in 1..Len(C) : cache'[i] = C[i]
      /\ cache'[Len(C) + 1] = e
  BY <1>1, <1>2
<1>4. ASSUME NEW i \in 1..Len(cache') PROVE cache'[i].at <= now
  BY <1>1, <1>2, <1>3, <1>4 DEF InOrder
<1>5. ASSUME NEW i \in 1..Len(cache'), NEW j \in 1..Len(cache'), i < j
      PROVE  cache'[i].at <= cache'[j].at /\ cache'[i].nonce # cache'[j].nonce
  <2>1. i \in 1..Len(C)
    BY <1>3, <1>5
  <2>2. CASE j \in 1..Len(C)
    BY <1>1, <1>3, <1>5, <2>1, <2>2 DEF InOrder
  <2>3. CASE j = Len(C) + 1
    BY <1>1, <1>2, <1>3, <1>n, <2>1, <2>3 DEF InOrder
  <2> QED
    BY <1>3, <2>2, <2>3
<1>6. InOrder(cache)'
  BY <1>1, <1>4, <1>5 DEF InOrder
<1> QED
  BY <1>1, <1>3, <1>6, <1>m DEF C, e

\* Every request, tick and restart keeps the invariant of the cache.
LEMMA CacheStep == CacheInv /\ [NonceNext]_nonceVars => CacheInv'
<1> SUFFICES ASSUME CacheInv, [NonceNext]_nonceVars PROVE CacheInv'
  OBVIOUS
<1>t. NonceTypeOK /\ Len(cache) <= MaxCache /\ InOrder(cache) /\ MaxCache \in Nat \ {0}
  BY CacheAssumption DEF CacheInv
<1>v. ASSUME NEW verd \in { "none", "malformed", "out_of_date", "replay", "invalid", "forbidden" }
                           \cup LetThrough,
             verdict' = verd, UNCHANGED << now, acted, since >>,
             cache' \in Seq(Entry), Len(cache') <= MaxCache, InOrder(cache')
      PROVE  CacheInv'
  BY <1>t, <1>v DEF CacheInv, NonceTypeOK, InOrder
<1>1. CASE RejectMalformed
  BY <1>1, <1>t, <1>v DEF RejectMalformed, NonceTypeOK
<1>2. ASSUME NEW req \in SignedRequest, RejectOutOfDate(req) PROVE CacheInv'
  BY <1>2, <1>t, <1>v DEF RejectOutOfDate, NonceTypeOK
<1>3. ASSUME NEW req \in SignedRequest, RejectReplay(req) PROVE CacheInv'
  <2>1. /\ Capped(Unexpired) \in Seq(Entry) /\ Len(Capped(Unexpired)) < MaxCache
        /\ InOrder(Capped(Unexpired))
    BY EvictedLemma DEF Suffix
  <2>2. cache' = Capped(Unexpired) /\ verdict' = "replay" /\ UNCHANGED << now, acted, since >>
    BY <1>3 DEF RejectReplay
  <2>3. Len(cache') <= MaxCache
    BY <1>t, <2>1, <2>2
  <2> QED
    BY <1>v, <2>1, <2>2, <2>3
<1>4. ASSUME NEW req \in SignedRequest, VerifySignature(req) PROVE CacheInv'
  <2>1. cache' \in Seq(Entry) /\ Len(cache') <= MaxCache /\ InOrder(cache)'
    BY <1>4, StoredLemma
  <2>2. /\ now' = now /\ verdict' = Judge(req)
        /\ acted' = acted \/ acted' = [acted EXCEPT ![req.nonce] = [stamp |-> req.stamp, at |-> now]]
        /\ since' = [n \in Nonces |->
                       IF n = req.nonce THEN 0
                       ELSE IF since[n] = Never \/ since[n] = MaxCache THEN since[n]
                       ELSE since[n] + 1]
    BY <1>4 DEF VerifySignature
  <2>3. verdict' \in { "invalid", "forbidden" } \cup LetThrough
    BY <2>2, JudgeLemma
  <2>4. acted' \in [Nonces -> [stamp : Stamp, at : 0..MaxNow] \cup {Never}]
    <3>1. [stamp |-> req.stamp, at |-> now] \in [stamp : Stamp, at : 0..MaxNow]
      BY <1>t DEF SignedRequest, NonceTypeOK
    <3> QED
      BY <1>t, <2>2, <3>1 DEF NonceTypeOK
  <2>5. since' \in [Nonces -> 0..MaxCache \cup {Never}]
    BY <1>t, <2>2 DEF NonceTypeOK
  <2> QED
    BY <1>t, <2>1, <2>2, <2>3, <2>4, <2>5 DEF CacheInv, NonceTypeOK
<1>5. CASE Tick
  <2>1. now' = now + 1 /\ now \in Nat /\ now' \in 0..MaxNow
    BY <1>5, <1>t, NowAssumption DEF Tick, NonceTypeOK
  <2>2. ASSUME NEW i \in 1..Len(cache) PROVE cache[i].at <= now'
    <3>1. cache[i].at <= now /\ cache[i].at \in Nat
      <4>1. cache[i] \in Entry
        BY <1>t DEF NonceTypeOK
      <4> QED
        BY <1>t, <4>1, NowAssumption DEF InOrder, Entry
    <3> QED
      BY <2>1, <3>1
  <2>3. InOrder(cache)'
    BY <1>5, <1>t, <2>2 DEF Tick, InOrder
  <2> QED
    BY <1>5, <1>t, <2>1, <2>3 DEF Tick, CacheInv, NonceTypeOK
<1>6. CASE Restart
  <2>1. cache' = << >> /\ UNCHANGED << now, verdict >>
    BY <1>6 DEF Restart
  <2>2. InOrder(cache)'
    BY <2>1 DEF InOrder
  <2>3. /\ cache' \in Seq(Entry) /\ Len(cache') <= MaxCache
        /\ acted' \in [Nonces -> [stamp : Stamp, at : 0..MaxNow] \cup {Never}]
        /\ since' \in [Nonces -> 0..MaxCache \cup {Never}]
    BY <1>6, <1>t DEF Restart
  <2> QED
    BY <1>t, <2>1, <2>2, <2>3 DEF CacheInv, NonceTypeOK
<1>7. CASE UNCHANGED nonceVars
  BY <1>7, <1>t DEF nonceVars, CacheInv, NonceTypeOK, InOrder
<1> QED
  BY <1>1, <1>2, <1>3, <1>4, <1>5, <1>6, <1>7 DEF NonceNext

\* The invariant of the cache, in every state.
LEMMA CacheInvariance == NonceSpec => []CacheInv
<1>1. NonceInit => CacheInv
  BY CacheAssumption, NowAssumption
  DEF NonceInit, CacheInv, NonceTypeOK, InOrder
<1> QED
  BY <1>1, CacheStep, PTL DEF NonceSpec

\* The cache and the histories have their types.
THEOREM NonceTypes == NonceSpec => []NonceTypeOK
<1>1. CacheInv => NonceTypeOK
  BY DEF CacheInv
<1> QED
  BY <1>1, CacheInvariance, PTL

\* However the two evictions mix, _nonce_cache is in order of time, holds a nonce once and
\* never has more than _MAX_NONCE_CACHE_SIZE entries.
THEOREM CacheStaysInOrder == NonceSpec => []CacheInOrder
<1>1. CacheInv => CacheInOrder
  <2> SUFFICES ASSUME CacheInv PROVE CacheInOrder
    OBVIOUS
  <2>1. DOMAIN cache = 1..Len(cache)
    BY DEF CacheInv, NonceTypeOK
  <2> QED
    BY <2>1 DEF CacheInv, CacheInOrder, InOrder
<1> QED
  BY <1>1, CacheInvariance, PTL

-------------------------------------------------------------------------------
\* The nonce of the latest request that was let through is still in the cache, with no
\* more entries after it than were stored since, as long as its age allows and it was
\* not pushed out.
Kept(n) ==
    acted[n] # Never =>
        /\ since[n] # Never
        /\ acted[n].at <= now
        /\ since[n] < MaxCache - 1 /\ now <= acted[n].at + MaxAge =>
             \E i \in 1..Len(cache) :
               /\ cache[i].nonce = n
               /\ cache[i].at >= acted[n].at
               /\ Len(cache) - i <= since[n]

\* The inductive invariant of the nonces.
KeptInv == \A n \in Nonces : Kept(n)

\* An entry that Kept speaks of is there after both evictions.
LEMMA SurvivesLemma ==
    ASSUME CacheInv, NEW n \in Nonces, Kept(n), acted[n] # Never,
           since[n] < MaxCache - 1, now <= acted[n].at + MaxAge
    PROVE  \E i \in 1..Len(Capped(Unexpired)) :
             /\ Capped(Unexpired)[i].nonce = n
             /\ Capped(Unexpired)[i].at >= acted[n].at
             /\ Len(Capped(Unexpired)) - i <= since[n]
<1> DEFINE C == Capped(Unexpired)
<1>1. /\ cache \in Seq(Entry) /\ InOrder(cache) /\ now \in Nat
      /\ MaxCache \in Nat /\ MaxAge \in Nat
      /\ acted[n].at \in Nat /\ since[n] \in Nat
  <2>1. acted[n] \in [stamp : Stamp, at : 0..MaxNow]
    BY DEF CacheInv, NonceTypeOK
  <2>2. since[n] \in 0..MaxCache
    BY DEF CacheInv, NonceTypeOK, Kept
  <2> QED
    BY <2>1, <2>2, CacheAssumption, AgeAssumption, NowAssumption DEF CacheInv, NonceTypeOK
<1>2. PICK i \in 1..Len(cache) : /\ cache[i].nonce = n
                                 /\ cache[i].at >= acted[n].at
                                 /\ Len(cache) - i <= since[n]
  BY DEF Kept
<1>3. cache[i].at \in Nat /\ cache[i].at <= now
  <2>1. cache[i] \in Entry
    BY <1>1
  <2> QED
    BY <1>1, <2>1, NowAssumption DEF InOrder, Entry
<1>4. ~ExpiredEntry(cache[i])
  BY <1>1, <1>2, <1>3 DEF ExpiredEntry
<1>5. Suffix(C, cache) /\ i > Len(cache) - Len(C)
  BY <1>1, <1>2, <1>4, EvictedLemma
<1> HIDE DEF C
<1>6. /\ Len(C) \in Nat /\ Len(cache) \in Nat /\ Len(C) <= Len(cache)
      /\ \A k \in 1..Len(C) : C[k] = cache[k + (Len(cache) - Len(C))]
  BY <1>1, <1>5 DEF Suffix
<1> DEFINE j == i - (Len(cache) - Len(C))
<1>7. j \in 1..Len(C) /\ j + (Len(cache) - Len(C)) = i /\ Len(C) - j = Len(cache) - i
  BY <1>5, <1>6
<1>8. C[j] = cache[i]
  BY <1>6, <1>7
<1> QED
  BY <1>2, <1>7, <1>8 DEF C

\* Every request, tick and restart keeps the nonces.
LEMMA KeptStep == CacheInv /\ KeptInv /\ [NonceNext]_nonceVars => KeptInv'
<1> SUFFICES ASSUME CacheInv, KeptInv, [NonceNext]_nonceVars, NEW n \in Nonces
             PROVE  Kept(n)'
  BY DEF KeptInv
<1>k. Kept(n)
  BY DEF KeptInv
<1>t. /\ now \in Nat /\ cache \in Seq(Entry) /\ MaxCache \in Nat \ {0} /\ MaxAge \in Nat
      /\ acted \in [Nonces -> [stamp : Stamp, at : 0..MaxNow] \cup {Never}]
      /\ since \in [Nonces -> 0..MaxCache \cup {Never}]
  BY CacheAssumption, AgeAssumption, NowAssumption DEF CacheInv, NonceTypeOK
<1>a. acted[n] # Never => acted[n].at \in Nat
  <2>1. acted[n] # Never => acted[n] \in [stamp : Stamp, at : 0..MaxNow]
    BY <1>t
  <2> QED
    BY <2>1, NowAssumption
<1>1. CASE RejectMalformed \/ UNCHANGED nonceVars
  BY <1>1, <1>k DEF RejectMalformed, nonceVars, Kept
<1>2. ASSUME NEW req \in SignedRequest, RejectOutOfDate(req) PROVE Kept(n)'
  BY <1>2, <1>k DEF RejectOutOfDate, Kept
<1>3. ASSUME NEW req \in SignedRequest, RejectReplay(req) PROVE Kept(n)'
  BY <1>3, <1>k, SurvivesLemma DEF RejectReplay, Kept
<1>4. ASSUME NEW req \in SignedRequest, VerifySignature(req) PROVE Kept(n)'
  <2> DEFINE C == Capped(Unexpired)
  <2>1. /\ Len(cache') = Len(C) + 1
        /\ \A i \in 1..Len(C) : cache'[i] = C[i]
        /\ cache'[Len(cache')] = [nonce |-> req.nonce, at |-> now]
    BY <1>4, StoredLemma
  <2>2. /\ now' = now
        /\ acted' = IF Judge(req) \in LetThrough
                      THEN [acted EXCEPT ![req.nonce] = [stamp |-> req.stamp, at |-> now]] ELSE acted
        /\ since' = [m \in Nonces |->
                       IF m = req.nonce THEN 0
                       ELSE IF since[m] = Never \/ since[m] = MaxCache THEN since[m]
                       ELSE since[m] + 1]
    BY <1>4 DEF VerifySignature
  <2>3. Len(C) \in Nat /\ Never \notin Nat
    BY EvictedLemma, NowAssumption DEF Suffix
  <2> HIDE DEF C
  <2>4. CASE n = req.nonce
    <3>1. since'[n] = 0 /\ 0 # Never
      BY <2>2, <2>3, <2>4
    <3>2. acted'[n] # Never => now >= acted'[n].at
      <4>1. acted[n] # Never => now >= acted[n].at
        BY <1>a, <1>k, <1>t DEF Kept
      <4> QED
        BY <1>t, <2>2, <2>4, <4>1
    <3>3. /\ Len(cache') \in 1..Len(cache') /\ Len(cache') - Len(cache') <= 0
          /\ cache'[Len(cache')].nonce = n /\ cache'[Len(cache')].at = now
      BY <2>1, <2>3, <2>4
    <3> QED
      BY <2>2, <3>1, <3>2, <3>3 DEF Kept
  <2>5. CASE n # req.nonce
    <3>1. acted'[n] = acted[n]
      BY <1>t, <2>2, <2>5
    <3> SUFFICES ASSUME acted[n] # Never PROVE Kept(n)'
      BY <3>1 DEF Kept
    <3>2. since[n] \in 0..MaxCache /\ since'[n] = IF since[n] = MaxCache THEN since[n] ELSE since[n] + 1
      BY <1>k, <1>t, <2>2, <2>5 DEF Kept
    <3>3. since'[n] # Never /\ since'[n] \in Nat
      BY <1>t, <2>3, <3>2
    <3>4. ASSUME since'[n] < MaxCache - 1, now <= acted[n].at + MaxAge
          PROVE  \E i \in 1..Len(cache') : /\ cache'[i].nonce = n
                                            /\ cache'[i].at >= acted[n].at
                                            /\ Len(cache') - i <= since'[n]
      <4>1. since[n] < MaxCache - 1 /\ since'[n] = since[n] + 1
        BY <1>t, <3>2, <3>4
      <4>2. PICK i \in 1..Len(C) : /\ C[i].nonce = n
                                   /\ C[i].at >= acted[n].at
                                   /\ Len(C) - i <= since[n]
        BY <1>k, <3>4, <4>1, SurvivesLemma DEF C
      <4>3. i \in 1..Len(cache') /\ cache'[i] = C[i] /\ Len(cache') - i <= since'[n]
        BY <2>1, <2>3, <3>2, <4>1, <4>2
      <4> QED
        BY <4>2, <4>3
    <3>5. acted[n].at <= now
      BY <1>k DEF Kept
    <3> QED
      BY <2>2, <3>1, <3>3, <3>4, <3>5 DEF Kept
  <2> QED
    BY <2>4, <2>5
<1>5. CASE Tick
  BY <1>5, <1>k, <1>t, <1>a DEF Tick, Kept
<1>6. CASE Restart
  BY <1>6 DEF Restart, Kept
<1> QED
  BY <1>1, <1>2, <1>3, <1>4, <1>5, <1>6 DEF NonceNext

\* One signed request is acted on once, for as long as its nonce has not been pushed out
\* by as many later ones as the cache holds but one.
THEOREM SignedRequestsActOnce == NonceSpec => SignedRequestOnce
<1>1. NonceInit => KeptInv
  BY DEF NonceInit, KeptInv, Kept
<1>2. CacheInv /\ KeptInv /\ [NonceNext]_nonceVars =>
        [\A req \in SignedRequest :
           /\ acted[req.nonce] # Never
           /\ acted[req.nonce].stamp = req.stamp
           /\ req.stamp # NotANumber
           /\ req.stamp <= acted[req.nonce].at
           /\ since[req.nonce] < MaxCache - 1
           => ~(VerifySignature(req) /\ Judge(req) \in LetThrough)]_nonceVars
  <2> SUFFICES ASSUME CacheInv, KeptInv, NEW req \in SignedRequest,
                      acted[req.nonce] # Never,
                      req.stamp # NotANumber,
                      req.stamp <= acted[req.nonce].at,
                      since[req.nonce] < MaxCache - 1,
                      VerifySignature(req)
               PROVE  FALSE
    OBVIOUS
  <2>1. req.nonce \in Nonces /\ req.stamp \in Nat /\ now \in Nat /\ MaxAge \in Nat
    BY AgeAssumption, NowAssumption DEF SignedRequest, Stamp, CacheInv, NonceTypeOK
  <2>2. acted[req.nonce].at \in Nat
    <3>1. acted[req.nonce] \in [stamp : Stamp, at : 0..MaxNow]
      BY <2>1 DEF CacheInv, NonceTypeOK
    <3> QED
      BY <3>1, NowAssumption
  <2>3. now <= acted[req.nonce].at + MaxAge
    BY <2>1, <2>2 DEF VerifySignature, OutOfDate
  <2>4. Holds(Capped(Unexpired), req.nonce)
    <3>1. Kept(req.nonce)
      BY <2>1 DEF KeptInv
    <3>2. \E i \in 1..Len(Capped(Unexpired)) : Capped(Unexpired)[i].nonce = req.nonce
      BY <2>1, <2>3, <3>1, SurvivesLemma
    <3>3. DOMAIN Capped(Unexpired) = 1..Len(Capped(Unexpired))
      BY EvictedLemma DEF Suffix
    <3> QED
      BY <3>2, <3>3 DEF Holds
  <2> QED
    BY <2>4 DEF VerifySignature
<1> QED
  BY <1>1, <1>2, CacheInvariance, KeptStep, PTL DEF NonceSpec, SignedRequestOnce

-------------------------------------------------------------------------------
\* Tokens are granted in turn, and each has a life.
GrantedInv ==
    /\ \E g \in 0..MaxTokens : Granted = 1..g
    /\ \A k \in Granted : life[k] \in Nat \cup {Unknown}

\* A refresh under way is not yet timed out.
SentInv == sent # NoToken => sent <= clock /\ clock <= sent + Latency

\* What the entry of the cache says of its token: a granted one lives as long, but for the
\* time its answer took, and the supplied one was assumed to from its first use on.
EntryInv ==
    /\ cached = NoToken => firstUse = NoToken
    /\ cached # NoToken /\ cached.token > 0 =>
         /\ cached.token \in Granted
         /\ life[cached.token] = Unknown \/ life[cached.token] + Latency >= cached.expires_at
    /\ cached # NoToken /\ cached.token = 0 =>
         /\ firstUse # NoToken
         /\ cached.expires_at = firstUse + Assumed

\* A token that was handed out was granted or is the supplied one.
HandedInv == handed # NoToken => handed.token = 0 \/ handed.token \in Granted

\* The inductive invariant.
TokenInv ==
    /\ TokenTypeOK
    /\ GrantedInv
    /\ SentInv
    /\ EntryInv
    /\ HandedInv
    /\ CachedTokenHasLife
    /\ SuppliedIsRetired

-------------------------------------------------------------------------------
\* The parameters and the columns, as numbers.
LEMMA NumbersLemma ==
    ASSUME TokenInv
    PROVE  /\ Margin \in Nat /\ Assumed \in Nat /\ Latency \in Nat
           /\ MaxTokens \in Nat /\ MaxClock \in Nat /\ NoToken \notin Nat
           /\ clock \in 0..MaxClock /\ clock \in Nat
           /\ sent # NoToken => sent \in 0..MaxClock /\ sent \in Nat
           /\ firstUse # NoToken => firstUse \in Nat
           /\ cached # NoToken => cached.token \in Token /\ cached.expires_at \in Nat
           /\ handed # NoToken => handed.token \in Token /\ handed.at \in Nat
  BY MarginAssumption, TokenBounds, NoTokenIsNone DEF TokenInv, TokenTypeOK

\* A token is handed out: its record has its type.
LEMMA HandLemma ==
    ASSUME TokenInv, NEW p, NEW token \in Token,
           NEW from \in { "credentials", "cache", "refresh" }, Hand(p, token, from)
    PROVE  /\ handed' = [token |-> token, at |-> clock, from |-> from]
           /\ handed' \in [token : Token, at : 0..MaxClock,
                           from : { "credentials", "cache", "refresh" }]
           /\ handed'.token = token /\ handed'.at = clock /\ handed'.from = from
           /\ report' \in { "none", "handed", "raised", "token", "valid", "not_valid" }
  BY NumbersLemma DEF Hand

\* Token 0 is a token.
LEMMA SuppliedIsToken == 0 \in Token
  BY TokenBounds DEF Token

\* An entry with the times of the present has its type and is one.
LEMMA EntryLemma ==
    ASSUME TokenInv, NEW k \in Token, NEW l \in Nat
    PROVE  /\ [token |-> k, expires_at |-> clock + l] \in [token : Token, expires_at : Nat]
           /\ [token |-> k, expires_at |-> clock + l] # NoToken
<1>1. clock + l \in Nat /\ k \in Nat
  BY NumbersLemma DEF Token
<1> QED
  BY <1>1, NoTokenIsNone

\* Calls answered from the credentials or from the cache, which is left as it is.
LEMMA CallStep ==
    ASSUME TokenInv, NEW p, PrivateApp(p) \/ FromCache(p) \/ WithoutRefresh(p),
           p \in { "scan", "validate" }
    PROVE  TokenInv'
<1>n. /\ Margin \in Nat /\ Assumed \in Nat /\ Latency \in Nat
      /\ clock \in 0..MaxClock /\ clock \in Nat /\ sent = NoToken
      /\ cached # NoToken => cached.token \in Token /\ cached.expires_at \in Nat
      /\ firstUse # NoToken => firstUse \in Nat
  BY NumbersLemma DEF PrivateApp, FromCache, WithoutRefresh, Asked
<1>u. UNCHANGED << creds, clock, sent, life, cached, firstUse >>
  BY DEF PrivateApp, FromCache, WithoutRefresh, Asked
<1>o. GrantedInv' /\ SentInv' /\ EntryInv'
  BY <1>u DEF TokenInv, GrantedInv, SentInv, EntryInv, Granted
<1>t. ASSUME \/ handed' = handed
             \/ handed' \in [token : Token, at : 0..MaxClock,
                             from : { "credentials", "cache", "refresh" }],
             report' \in { "none", "handed", "raised", "token", "valid", "not_valid" }
      PROVE  TokenTypeOK'
  BY <1>u, <1>t DEF TokenInv, TokenTypeOK, Granted
<1>1. ASSUME UNCHANGED handed PROVE HandedInv' /\ CachedTokenHasLife' /\ SuppliedIsRetired'
  BY <1>u, <1>1 DEF TokenInv, HandedInv, CachedTokenHasLife, SuppliedIsRetired, Granted
<1>2. ASSUME Hand(p, 0, "credentials"), ~(creds.oauth /\ creds.refresh) PROVE TokenInv'
  <2>1. /\ handed'.token = 0 /\ handed'.from = "credentials"
        /\ handed' \in [token : Token, at : 0..MaxClock,
                        from : { "credentials", "cache", "refresh" }]
        /\ report' \in { "none", "handed", "raised", "token", "valid", "not_valid" }
    BY <1>2, HandLemma, SuppliedIsToken
  <2>2. HandedInv' /\ CachedTokenHasLife' /\ SuppliedIsRetired'
    BY <1>2, <1>u, <2>1 DEF HandedInv, CachedTokenHasLife, SuppliedIsRetired
  <2> QED
    BY <1>o, <1>t, <2>1, <2>2 DEF TokenInv
<1>3. ASSUME Raise(p) PROVE TokenInv'
  BY <1>3, <1>o, <1>t, <1>1 DEF Raise, TokenInv
<1>4. CASE FromCache(p)
  <2>1. /\ Hand(p, cached.token, "cache") /\ cached # NoToken
        /\ cached.expires_at > clock + Margin
    BY <1>4 DEF FromCache, Fresh
  <2>2. /\ handed'.token = cached.token /\ handed'.from = "cache" /\ handed'.at = clock
        /\ handed' \in [token : Token, at : 0..MaxClock,
                        from : { "credentials", "cache", "refresh" }]
        /\ report' \in { "none", "handed", "raised", "token", "valid", "not_valid" }
    BY <1>n, <2>1, HandLemma
  <2>3. cached.token = 0 \/ cached.token > 0
    BY <1>n, <2>1, TokenBounds DEF Token
  <2>4. cached.token > 0 =>
          /\ cached.token \in Granted
          /\ life[cached.token] \in Nat \cup {Unknown}
          /\ life[cached.token] = Unknown \/ life[cached.token] + Latency >= cached.expires_at
    BY <2>1 DEF TokenInv, EntryInv, GrantedInv
  <2>5. cached.token = 0 => /\ firstUse # NoToken
                            /\ cached.expires_at = firstUse + Assumed
    BY <2>1 DEF TokenInv, EntryInv
  <2>6. HandedInv'
    BY <1>u, <2>2, <2>3, <2>4 DEF HandedInv, Granted
  <2>7. CachedTokenHasLife'
    BY <1>n, <1>u, <2>1, <2>2, <2>4 DEF CachedTokenHasLife
  <2>8. SuppliedIsRetired'
    BY <1>n, <1>u, <2>1, <2>2, <2>5 DEF SuppliedIsRetired
  <2> QED
    BY <1>o, <1>t, <2>2, <2>6, <2>7, <2>8 DEF TokenInv
<1> QED
  BY <1>2, <1>3, <1>4 DEF PrivateApp, WithoutRefresh

\* The supplied token is used for the first time since the cache was empty.
LEMMA FirstUseStep ==
    ASSUME TokenInv, NEW p, FirstUse(p)
    PROVE  TokenInv'
<1>1. /\ cached = NoToken /\ firstUse = NoToken
      /\ Hand(p, 0, "credentials")
      /\ cached' = [token |-> 0, expires_at |-> clock + Assumed] /\ firstUse' = clock
      /\ UNCHANGED << creds, clock, sent, life >>
  BY DEF FirstUse, Untried, Asked, TokenInv, EntryInv
<1>2. /\ handed'.token = 0 /\ handed'.from = "credentials" /\ handed'.at = clock
      /\ handed' \in [token : Token, at : 0..MaxClock,
                      from : { "credentials", "cache", "refresh" }]
      /\ report' \in { "none", "handed", "raised", "token", "valid", "not_valid" }
  BY <1>1, HandLemma, SuppliedIsToken
<1>3. Assumed \in Nat /\ clock \in 0..MaxClock /\ clock \in Nat /\ NoToken \notin Nat
  BY NumbersLemma
<1>4. cached' \in [token : Token, expires_at : Nat] /\ cached' # NoToken
      /\ cached'.token = 0 /\ cached'.expires_at = clock + Assumed
  BY <1>1, <1>3, EntryLemma, SuppliedIsToken
<1>5. TokenTypeOK'
  BY <1>1, <1>2, <1>3, <1>4 DEF TokenInv, TokenTypeOK, Granted
<1>6. GrantedInv' /\ SentInv'
  BY <1>1 DEF TokenInv, GrantedInv, SentInv, Granted
<1>7. EntryInv'
  BY <1>1, <1>3, <1>4 DEF EntryInv
<1>8. HandedInv' /\ CachedTokenHasLife' /\ SuppliedIsRetired'
  BY <1>1, <1>2 DEF HandedInv, CachedTokenHasLife, SuppliedIsRetired
<1> QED
  BY <1>5, <1>6, <1>7, <1>8 DEF TokenInv

\* A refresh is answered: HubSpot's clock started no earlier than the request and the
\* client's entry is dated from the answer, no more than Latency later.
LEMMA RefreshedStep ==
    ASSUME TokenInv, NEW granted \in 0..MaxClock, NEW expires_in \in Grants \cup {Unknown},
           Refreshed(granted, expires_in)
    PROVE  TokenInv'
<1> DEFINE k == CHOOSE k \in 1..MaxTokens : Granted = 1..(k - 1)
           lasts == IF expires_in = Unknown THEN Unknown ELSE granted + expires_in
           trusted == IF expires_in = Unknown THEN Assumed ELSE expires_in
<1>1. /\ sent # NoToken /\ granted \in sent..clock /\ Granted # 1..MaxTokens
      /\ life' = [i \in Granted \cup {k} |-> IF i = k THEN lasts ELSE life[i]]
      /\ cached' = [token |-> k, expires_at |-> clock + trusted]
      /\ Hand(purpose, k, "refresh")
      /\ sent' = NoToken
      /\ UNCHANGED << creds, clock, purpose, firstUse >>
  BY DEF Refreshed
<1>2. /\ Margin \in Nat /\ Assumed \in Nat /\ Latency \in Nat /\ MaxTokens \in Nat
      /\ clock \in 0..MaxClock /\ clock \in Nat /\ sent \in Nat /\ granted \in Nat
      /\ lasts \in Nat \cup {Unknown} /\ trusted \in Nat /\ NoToken \notin Nat
      /\ lasts = Unknown \/ lasts = granted + trusted
  BY <1>1, NumbersLemma, GrantsAssumption
<1>3. k \in 1..MaxTokens /\ Granted = 1..(k - 1)
  <2>1. PICK g \in 0..MaxTokens : Granted = 1..g
    BY DEF TokenInv, GrantedInv
  <2>2. g # MaxTokens
    BY <1>1, <2>1
  <2>3. g + 1 \in 1..MaxTokens /\ Granted = 1..((g + 1) - 1)
    BY <1>2, <2>1, <2>2
  <2> QED
    BY <2>3
<1> HIDE DEF k, lasts, trusted
<1>4. k \in Token /\ k \in Nat /\ k > 0 /\ k \notin Granted /\ Granted' = 1..k
  BY <1>1, <1>2, <1>3 DEF Token, Granted
<1>5. /\ \A i \in Granted : life'[i] = life[i]
      /\ life'[k] = lasts
      /\ \A i \in Granted' : life'[i] \in Nat \cup {Unknown}
  BY <1>1, <1>2, <1>3, <1>4 DEF TokenInv, GrantedInv
<1>6. /\ handed'.token = k /\ handed'.from = "refresh" /\ handed'.at = clock
      /\ handed' \in [token : Token, at : 0..MaxClock,
                      from : { "credentials", "cache", "refresh" }]
      /\ report' \in { "none", "handed", "raised", "token", "valid", "not_valid" }
  BY <1>1, <1>4, HandLemma
<1>7. /\ cached' \in [token : Token, expires_at : Nat] /\ cached' # NoToken
      /\ cached'.token = k /\ cached'.expires_at = clock + trusted
  BY <1>1, <1>2, <1>4, EntryLemma
<1>8. TokenTypeOK'
  BY <1>1, <1>2, <1>3, <1>4, <1>6, <1>7 DEF TokenInv, TokenTypeOK
<1>9. GrantedInv' /\ SentInv' /\ HandedInv' /\ CachedTokenHasLife' /\ SuppliedIsRetired'
  <2>1. GrantedInv'
    <3>1. k \in 0..MaxTokens
      BY <1>2, <1>3
    <3> QED
      BY <1>4, <1>5, <3>1 DEF GrantedInv
  <2>2. SentInv'
    BY <1>1 DEF SentInv
  <2>3. handed'.token > 0 /\ handed'.token \in Granted' /\ handed'.from # "cache"
    BY <1>4, <1>6
  <2>4. HandedInv' /\ CachedTokenHasLife'
    BY <2>3 DEF HandedInv, CachedTokenHasLife
  <2>5. SuppliedIsRetired'
    BY <1>4, <1>6 DEF SuppliedIsRetired
  <2> QED
    BY <2>1, <2>2, <2>4, <2>5
<1>10. EntryInv'
  <2>1. sent <= granted /\ clock <= sent + Latency
    BY <1>1, <1>2 DEF TokenInv, SentInv
  <2>2. life'[k] = Unknown \/ life'[k] + Latency >= clock + trusted
    BY <1>2, <1>5, <2>1
  <2> QED
    BY <1>3, <1>4, <1>7, <2>2 DEF EntryInv
<1> QED
  BY <1>8, <1>9, <1>10 DEF TokenInv

\* Every other step leaves tokens and entries alone or empties the cache.
LEMMA OtherSteps ==
    ASSUME TokenInv,
           \/ \E p \in { "scan", "validate" } : BeginRefresh(p)
           \/ RefreshFails \/ (\E answer \in { 200, 401, 500 } : Validate(answer))
           \/ ClearCache \/ TokenTick \/ UNCHANGED tokenVars
    PROVE  TokenInv'
<1>n. /\ Latency \in Nat /\ MaxClock \in Nat /\ clock \in 0..MaxClock /\ clock \in Nat
      /\ sent # NoToken => sent \in 0..MaxClock /\ sent \in Nat
  BY NumbersLemma
<1>u. UNCHANGED << creds, handed, life >>
  BY DEF BeginRefresh, RefreshFails, Raise, Validate, ClearCache, TokenTick, tokenVars
<1>1. GrantedInv' /\ HandedInv' /\ CachedTokenHasLife'
  BY <1>u DEF TokenInv, GrantedInv, HandedInv, CachedTokenHasLife, Granted
<1>2. ASSUME UNCHANGED << cached, firstUse >> PROVE EntryInv' /\ SuppliedIsRetired'
  BY <1>u, <1>2 DEF TokenInv, EntryInv, SuppliedIsRetired, Granted
<1>3. CASE \E p \in { "scan", "validate" } : BeginRefresh(p)
  <2>1. sent' = clock /\ UNCHANGED << clock, cached, report, firstUse >>
    BY <1>3 DEF BeginRefresh
  <2> QED
    BY <1>n, <1>u, <1>1, <1>2, <2>1 DEF TokenInv, TokenTypeOK, SentInv, Granted
<1>4. CASE RefreshFails \/ \E answer \in { 200, 401, 500 } : Validate(answer)
  <2>1. /\ sent' = NoToken \/ UNCHANGED sent
        /\ report' \in { "none", "handed", "raised", "token", "valid", "not_valid" }
        /\ UNCHANGED << clock, cached, firstUse >>
    BY <1>4 DEF RefreshFails, Raise, Validate
  <2> QED
    BY <1>n, <1>u, <1>1, <1>2, <2>1 DEF TokenInv, TokenTypeOK, SentInv, Granted
<1>5. CASE ClearCache
  <2>1. cached' = NoToken /\ firstUse' = NoToken /\ UNCHANGED << clock, sent, report >>
    BY <1>5 DEF ClearCache
  <2> QED
    BY <1>u, <1>1, <2>1
    DEF TokenInv, TokenTypeOK, SentInv, EntryInv, SuppliedIsRetired, Granted
<1>6. CASE TokenTick
  <2>1. /\ clock' = clock + 1 /\ clock' \in 0..MaxClock
        /\ sent # NoToken => clock < sent + Latency
        /\ UNCHANGED << cached, sent, report, firstUse >>
    BY <1>n, <1>6 DEF TokenTick
  <2>2. SentInv'
    BY <1>n, <2>1 DEF TokenInv, SentInv
  <2> QED
    BY <1>u, <1>1, <1>2, <2>1, <2>2 DEF TokenInv, TokenTypeOK, Granted
<1>7. CASE UNCHANGED tokenVars
  BY <1>1, <1>2, <1>7 DEF tokenVars, TokenInv, TokenTypeOK, SentInv, Granted
<1> QED
  BY <1>3, <1>4, <1>5, <1>6, <1>7

\* The invariant, in every state.
LEMMA TokenInvariance == TokenSpec => []TokenInv
<1>1. TokenInit => TokenInv
  <2> SUFFICES ASSUME TokenInit PROVE TokenInv
    OBVIOUS
  <2>1. DOMAIN life = {} /\ 1..0 = {} /\ 0 \in 0..MaxTokens /\ 0 \in 0..MaxClock
    BY TokenBounds DEF TokenInit
  <2> QED
    BY <2>1
    DEF TokenInit, TokenInv, TokenTypeOK, GrantedInv, SentInv, EntryInv, HandedInv,
        CachedTokenHasLife, SuppliedIsRetired, Granted
<1>2. TokenInv /\ [TokenNext]_tokenVars => TokenInv'
  BY CallStep, FirstUseStep, RefreshedStep, OtherSteps DEF TokenNext
<1> QED
  BY <1>1, <1>2, PTL DEF TokenSpec

\* The client's columns and the histories have their types.
THEOREM TokenTypes == TokenSpec => []TokenTypeOK
<1>1. TokenInv => TokenTypeOK
  BY DEF TokenInv
<1> QED
  BY <1>1, TokenInvariance, PTL

\* A granted token that comes from the cache has at least the margin less the longest
\* request left to live, if HubSpot has said how long it lives.
THEOREM CachedTokensHaveLife == TokenSpec => []CachedTokenHasLife
<1>1. TokenInv => CachedTokenHasLife
  BY DEF TokenInv
<1> QED
  BY <1>1, TokenInvariance, PTL

\* With a refresh token at hand the supplied access token is given up before the life
\* assumed of it is over, whatever becomes of the refreshes.
THEOREM SuppliedTokenIsRetired == TokenSpec => []SuppliedIsRetired
<1>1. TokenInv => SuppliedIsRetired
  BY DEF TokenInv
<1> QED
  BY <1>1, TokenInvariance, PTL
===============================================================================
