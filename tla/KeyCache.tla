------------------------------ MODULE KeyCache ------------------------------
(***************************************************************************)
(* The cache of the identity provider's public keys that checks Google     *)
(* sign-in tokens: auth/jwks_verifier.cpp.  verify() runs under the mutex  *)
(* up to the signature, the download included; the download takes time,    *)
(* and the keys are stamped when it has ended.                             *)
(***************************************************************************)
EXTENDS Integers, FiniteSets

CONSTANTS Kids,            \* key ids
          CacheTtl,        \* five minutes
          Cooldown,        \* thirty seconds between downloads
          FetchTime,       \* longest download
          MaxCacheTime     \* bound: seconds

ASSUME CacheAssumption == {CacheTtl, Cooldown, FetchTime} \subseteq Nat

VARIABLES cacheClock,
          published,      \* keys the provider publishes now (external)
          lastPublished,  \* history: when each key was last published
          keys_, expires_, attempted_,   \* attempted_ = -1: attempted_once_ is false
          fetch,          \* the download under way: [keys, until], or NoFetch
          accepted,       \* history: key of the last token that passed, and when
          downloads       \* history: when each download began

cacheVars == <<cacheClock, published, lastPublished, keys_, expires_, attempted_,
               fetch, accepted, downloads>>

NoFetch == [kid |-> "none"]
ASSUME KidAssumption == {"none", "any"} \cap Kids = {}

CacheInit ==
    /\ cacheClock = 0 /\ published = Kids /\ lastPublished = [k \in Kids |-> 0]
    /\ keys_ = {} /\ expires_ = 0 /\ attempted_ = -1 /\ fetch = NoFetch
    /\ accepted = [kid |-> "none"] /\ downloads = {}

Cool == attempted_ = -1 \/ cacheClock - attempted_ >= Cooldown

Accept(kid) == accepted' = [kid |-> kid, age |-> cacheClock - lastPublished[kid]]

(* verify() that needs no download: the cache is fresh and knows the key,  *)
(* or it may not download now and answers from what it has.                *)
Verify(kid) ==
    /\ fetch = NoFetch
    /\ \/ cacheClock < expires_ /\ kid \in keys_ /\ Accept(kid)
       \/ /\ cacheClock >= expires_ \/ kid \notin keys_
          /\ ~Cool /\ UNCHANGED accepted
    /\ UNCHANGED <<cacheClock, published, lastPublished, keys_, expires_, attempted_,
                   fetch, downloads>>

(* verify() that downloads first; kid = "any" is an explicit refresh().    *)
StartFetch(kid) ==
    /\ fetch = NoFetch /\ Cool
    /\ kid = "any" \/ cacheClock >= expires_ \/ kid \notin keys_
    /\ attempted_' = cacheClock
    /\ downloads' = downloads \cup {cacheClock}
    /\ fetch' = [kid |-> kid, keys |-> published, began |-> cacheClock]
    /\ UNCHANGED <<cacheClock, published, lastPublished, keys_, expires_, accepted>>

(* The answer replaces the cache as a whole; one that is malformed or late *)
(* changes nothing, and then expired keys are no fallback.                 *)
NoFallbackMutant(kid) == kid \in keys_
NoFallback(kid) == kid \in keys_ /\ cacheClock < expires_

EndFetch ==
    /\ fetch # NoFetch
    /\ keys_' = fetch.keys /\ expires_' = cacheClock + CacheTtl
    /\ IF fetch.kid \in fetch.keys THEN Accept(fetch.kid) ELSE UNCHANGED accepted
    /\ fetch' = NoFetch
    /\ UNCHANGED <<cacheClock, published, lastPublished, attempted_, downloads>>

FailFetch ==
    /\ fetch # NoFetch
    /\ IF NoFallback(fetch.kid) THEN Accept(fetch.kid) ELSE UNCHANGED accepted
    /\ fetch' = NoFetch
    /\ UNCHANGED <<cacheClock, published, lastPublished, keys_, expires_, attempted_, downloads>>

(* The provider rotates its keys. *)
Publish(ks) ==
    /\ published # ks /\ published' = ks
    /\ lastPublished' = [k \in Kids |-> IF k \in published \cup ks THEN cacheClock
                                        ELSE lastPublished[k]]
    /\ UNCHANGED <<cacheClock, keys_, expires_, attempted_, fetch,
                   accepted, downloads>>

CacheSecondPasses ==
    /\ cacheClock < MaxCacheTime /\ cacheClock' = cacheClock + 1
    /\ fetch # NoFetch => cacheClock - fetch.began < FetchTime
    /\ lastPublished' = [k \in Kids |-> IF k \in published THEN cacheClock + 1
                                        ELSE lastPublished[k]]
    /\ UNCHANGED <<published, keys_, expires_, attempted_, fetch, accepted, downloads>>

CacheNext ==
    \/ CacheSecondPasses \/ EndFetch \/ FailFetch
    \/ \E kid \in Kids : Verify(kid)
    \/ \E kid \in Kids \cup {"any"} : StartFetch(kid)
    \/ \E ks \in SUBSET Kids : Publish(ks)

CacheSpec == CacheInit /\ [][CacheNext]_cacheVars

-----------------------------------------------------------------------------
(* A withdrawn key is refused once the cache has aged out, however often   *)
(* downloads fail: it is accepted at most CacheTtl after the download that *)
(* still had it.                                                           *)
WithdrawnKeysDie ==
    accepted.kid \in Kids => accepted.age <= CacheTtl + FetchTime

(* Tokens with unknown keys cannot make the server download faster than    *)
(* once per cooldown.                                                      *)
DownloadsSpaced ==
    \A s, t \in downloads : s < t => t - s >= Cooldown

(* Keys the provider has withdrawn are trusted for the cache's time and no *)
(* longer, without a download for every request.                           *)
ProviderKeysAreCurrent == WithdrawnKeysDie /\ DownloadsSpaced

=============================================================================
