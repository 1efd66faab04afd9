------------------------------- MODULE MCAuth -------------------------------
(***************************************************************************)
(* The five parts of authentication, each checked on an instance of its    *)
(* own.  They share no state in the server (different tables, limiters and *)
(* caches), so a behaviour belongs to one of them: scene says to which.    *)
(***************************************************************************)
EXTENDS Sessions, Accounts, SealedKeys, RateLimiter, KeyCache

CONSTANT Scenes

VARIABLE scene

LegacyRow(n, m, who) == [name |-> n, mail |-> m, verified |-> FALSE, chosen |-> who,
                         old |-> TRUE, google |-> Nobody, epoch |-> 0]

(* The first person has two mailboxes, the second one. *)
MailOwner == <<1, 2, 1>>

(* An account without an address, and one whose owner typed somebody       *)
(* else's before addresses were verified.                                  *)
LegacyAccounts == <<LegacyRow("a", Nobody, 1), LegacyRow("b", 2, 1)>>

Init == /\ scene \in Scenes
        /\ SessionsInit /\ AcctInit /\ SealInit /\ LimitInit /\ CacheInit

Next == /\ UNCHANGED scene
        /\ \/ /\ scene = "sessions" /\ SessionsNext
              /\ UNCHANGED <<acctVars, sealVars, limitVars, cacheVars>>
           \/ /\ scene = "accounts" /\ AcctNext
              /\ UNCHANGED <<sessionVars, sealVars, limitVars, cacheVars>>
           \/ /\ scene = "keys" /\ SealNext
              /\ UNCHANGED <<sessionVars, acctVars, limitVars, cacheVars>>
           \/ /\ scene = "limits" /\ LimitNext
              /\ UNCHANGED <<sessionVars, acctVars, sealVars, cacheVars>>
           \/ /\ scene = "cache" /\ CacheNext
              /\ UNCHANGED <<sessionVars, acctVars, sealVars, limitVars>>

Spec == Init /\ [][Next]_<<scene, sessionVars, acctVars, sealVars, limitVars, cacheVars>>
=============================================================================
