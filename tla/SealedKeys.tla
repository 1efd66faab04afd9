----------------------------- MODULE SealedKeys -----------------------------
(***************************************************************************)
(* One-time sealing keys: crypto/sealed_key_store.cpp, the registry that   *)
(* opens envelopes with them (crypto/sealed_registry.cpp) and the handler  *)
(* of seal_request (auth/auth_handler.cpp).                                *)
(*                                                                         *)
(* issue() decides under the mutex, mints unlocked and stores under the    *)
(* mutex again; inspect() takes the key under the mutex and opens the      *)
(* envelope after.  Between the two halves other workers run.  A key id is *)
(* a number; an envelope is the key it names, whether its tag verifies and *)
(* the type inside it.                                                     *)
(***************************************************************************)
EXTENDS Integers, FiniteSets

CONSTANTS Ips, KeyWorkers,
          KeyTtl,        \* DEFAULT_TTL_SECONDS
          MaxPerIp,      \* DEFAULT_MAX_PER_IP
          MaxTotal,      \* DEFAULT_MAX_TOTAL
          SealedTypes,   \* types require_sealed() was called for
          PlainTypes,    \* other types
          MaxKeys,       \* bound: keys minted
          MaxKeyTime     \* bound: seconds

ASSUME CapAssumption == {KeyTtl, MaxPerIp, MaxTotal} \subseteq Nat \ {0}

Keys == 1..MaxKeys

VARIABLES
    keyClock,
    entries,     \* key id -> [ip, expires_at]
    per_ip,      \* outstanding keys per address; absent means none
    nextKey,     \* next key id
    keyJob,      \* each worker's half-done request
    sentKeys,    \* keys offered to clients
    dispatched   \* history: <<key, type>> of every envelope that was opened

sealVars == <<keyClock, entries, per_ip, nextKey, keyJob, sentKeys, dispatched>>

KeyIdle == [step |-> "idle"]

SealInit ==
    /\ keyClock = 0 /\ entries = << >> /\ per_ip = << >> /\ nextKey = 1
    /\ keyJob = [w \in KeyWorkers |-> KeyIdle] /\ sentKeys = {} /\ dispatched = {}

-----------------------------------------------------------------------------
Outdated == {k \in DOMAIN entries : keyClock >= entries[k].expires_at}

(* Counts after the entries ks are erased: a count that reaches zero is    *)
(* removed from the map.                                                   *)
Of(ks, ip) == {k \in ks : entries[k].ip = ip}
CountsWithout(ks) ==
    LET left(ip) == per_ip[ip] - Cardinality(Of(ks, ip))
    IN [ip \in {i \in DOMAIN per_ip : left(i) > 0} |-> left(ip)]
EntriesWithout(ks) == [k \in DOMAIN entries \ ks |-> entries[k]]

(* sweep_locked, erase_locked *)
Erase(ks) == /\ entries' = EntriesWithout(ks)
             /\ per_ip' = CountsWithout(ks)

Room(es, counts, ip) ==
    /\ Cardinality(DOMAIN es) < MaxTotal
    /\ ip \in DOMAIN counts => counts[ip] < MaxPerIp

(* The first critical section of issue(): sweep, then admit or refuse. *)
Admit(w, ip) ==
    /\ keyJob[w] = KeyIdle
    /\ Erase(Outdated)
    /\ Room(entries', per_ip', ip)
    /\ nextKey \in Keys
    /\ nextKey' = nextKey + 1
    /\ keyJob' = [keyJob EXCEPT ![w] = [step |-> "store", key |-> nextKey, ip |-> ip]]
    /\ UNCHANGED <<keyClock, sentKeys, dispatched>>

(* Over a cap the sweep still happens and the reply is rate_limited. *)
Refuse(w, ip) ==
    /\ keyJob[w] = KeyIdle /\ Outdated # {}
    /\ Erase(Outdated)
    /\ ~Room(entries', per_ip', ip)
    /\ UNCHANGED <<keyClock, nextKey, keyJob, sentKeys, dispatched>>

(* The caps are checked again: they were read before the unlocked mint. *)
StillRoomMutant(ip) == TRUE
StillRoom(ip) == Room(entries, per_ip, ip)

Store(w) ==
    /\ keyJob[w].step = "store"
    /\ LET k == keyJob[w].key ip == keyJob[w].ip
       IN \/ /\ StillRoom(ip)
             /\ entries' = [i \in DOMAIN entries \cup {k} |->
                              IF i = k THEN [ip |-> ip, expires_at |-> keyClock + KeyTtl]
                              ELSE entries[i]]
             /\ per_ip' = [i \in DOMAIN per_ip \cup {ip} |->
                              (IF i \in DOMAIN per_ip THEN per_ip[i] ELSE 0)
                              + (IF i = ip THEN 1 ELSE 0)]
             /\ sentKeys' = sentKeys \cup {k}
          \/ ~StillRoom(ip) /\ UNCHANGED <<entries, per_ip, sentKeys>>
    /\ keyJob' = [keyJob EXCEPT ![w] = KeyIdle]
    /\ UNCHANGED <<keyClock, nextKey, dispatched>>

-----------------------------------------------------------------------------
(* inspect(): types that need no seal pass as they are; a sealed type must *)
(* carry a well-formed envelope, whose key is consumed before it is opened.*)

NotSealed(w, type) ==
    /\ keyJob[w] = KeyIdle /\ type \in PlainTypes
    /\ dispatched' = dispatched \cup {<<0, type>>}
    /\ UNCHANGED <<keyClock, entries, per_ip, nextKey, keyJob, sentKeys>>

(* consume(): gone whether or not it was still valid. *)
Consume(w, k, type, intact, inner) ==
    /\ keyJob[w] = KeyIdle /\ k \in DOMAIN entries /\ k \in sentKeys
    /\ Erase({k})
    /\ keyJob' = IF keyClock >= entries[k].expires_at THEN keyJob
                 ELSE [keyJob EXCEPT ![w] = [step |-> "open", key |-> k, type |-> type,
                                             intact |-> intact, inner |-> inner]]
    /\ UNCHANGED <<keyClock, nextKey, sentKeys, dispatched>>

(* open() and the check that the type inside is the type outside.          *)
Opens(j) == j.intact /\ j.inner = j.type
OpenEnvelope(w) ==
    /\ keyJob[w].step = "open"
    /\ dispatched' = IF Opens(keyJob[w])
                     THEN dispatched \cup {<<keyJob[w].key, keyJob[w].type>>}
                     ELSE dispatched
    /\ keyJob' = [keyJob EXCEPT ![w] = KeyIdle]
    /\ UNCHANGED <<keyClock, entries, per_ip, nextKey, sentKeys>>

SweepExpired ==
    /\ Outdated # {} /\ Erase(Outdated)
    /\ UNCHANGED <<keyClock, nextKey, keyJob, sentKeys, dispatched>>

KeySecondPasses ==
    /\ keyClock < MaxKeyTime /\ keyClock' = keyClock + 1
    /\ UNCHANGED <<entries, per_ip, nextKey, keyJob, sentKeys, dispatched>>

SealNext ==
    \/ KeySecondPasses \/ SweepExpired
    \/ \E w \in KeyWorkers :
         \/ \E ip \in Ips : Admit(w, ip) \/ Refuse(w, ip)
         \/ Store(w)
         \/ \E type \in PlainTypes : NotSealed(w, type)
         \/ \E k \in sentKeys, type, inner \in SealedTypes, intact \in BOOLEAN :
              Consume(w, k, type, intact, inner)
         \/ OpenEnvelope(w)

SealSpec == SealInit /\ [][SealNext]_sealVars

-----------------------------------------------------------------------------
(* The store never exceeds its caps, although the decision to admit and    *)
(* the insertion are two critical sections (sealed_key_store.cpp:75).      *)
CapsHold ==
    /\ Cardinality(DOMAIN entries) <= MaxTotal
    /\ \A ip \in Ips : Cardinality(Of(DOMAIN entries, ip)) <= MaxPerIp

(* An address with room under the caps once its expired keys are dropped   *)
(* is admitted: the counts beside the entries never drift, however keys    *)
(* are issued, consumed and swept.                                         *)
ExpiredKeysFreeTheCap ==
    LET live == DOMAIN entries \ Outdated
    IN \A ip \in Ips :
         Cardinality(live) < MaxTotal /\ Cardinality(Of(live, ip)) < MaxPerIp
            => Room(EntriesWithout(Outdated), CountsWithout(Outdated), ip)

(* One key opens one envelope, of one type: two workers that present the   *)
(* same envelope, or relabelled copies of it, never both succeed.          *)
OneEnvelopePerKey ==
    /\ \A d, e \in dispatched : d[1] = e[1] /\ d[1] # 0 => d = e
    /\ \A d \in dispatched : d[1] # 0 => d[1] \notin DOMAIN entries
    /\ \A w, v \in KeyWorkers : keyJob[w].step = "open" /\ keyJob[v].step = "open"
                                 /\ keyJob[w].key = keyJob[v].key => w = v

(* The key store never holds more than its caps, its counts are those of   *)
(* its entries, and each key it gives out opens one envelope.              *)
KeyStoreIsExact == CapsHold /\ ExpiredKeysFreeTheCap /\ OneEnvelopePerKey

=============================================================================
