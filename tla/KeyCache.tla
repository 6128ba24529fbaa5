------------------------------ MODULE KeyCache ------------------------------
(***************************************************************************)
(* The cache of the identity provider's signing keys that requests share   *)
(* (internal/api/middleware.go): jwksCache with its time to live, the      *)
(* refresh that a request makes when the cache is old or lacks its key,    *)
(* and the check of a token with it.  The lock is taken for each reading   *)
(* and for the replacement, not across the refresh: requests refresh side  *)
(* by side, and their answers are stored in any order.  A token signed     *)
(* with the server's own secret and the static key need no cache and are   *)
(* left out.                                                               *)
(***************************************************************************)
EXTENDS Naturals, Sequences, FiniteSets

CONSTANTS SigningKeys,
          Requests,      \* connections: each brings one token after the other
          MaxRotations   \* bound: changes of the provider's keys

ASSUME KeyAssumption == MaxRotations \in Nat

VARIABLES
  editions,  \* the key sets the provider has published, the last is current
  keyCache,  \* [keys, expired, of], of is the edition they are from, 0 for none
  asking,    \* [Requests -> [pc, signer, named, valid, since, knew, got, failed]]
  newest,    \* history: the newest edition that was ever stored
  swapped    \* history: an older edition was stored over a newer

keyVars == <<editions, keyCache, asking, newest, swapped>>

NoRequest == [pc |-> "idle", signer |-> CHOOSE k \in SigningKeys : TRUE, named |-> FALSE,
              valid |-> FALSE, since |-> 0, knew |-> FALSE, got |-> 0, failed |-> FALSE]
Published == editions[Len(editions)]

KeyTypeOK ==
  /\ editions \in Seq(SUBSET SigningKeys) /\ Len(editions) <= MaxRotations + 1
  /\ keyCache \in [keys : SUBSET SigningKeys, expired : BOOLEAN, of : 0..Len(editions)]
  /\ asking \in [Requests -> [pc : {"idle", "look", "fetch", "store", "pick", "accepted", "refused"},
                    signer : SigningKeys, named : BOOLEAN, valid : BOOLEAN, knew : BOOLEAN,
                    since : 0..Len(editions), got : 0..Len(editions), failed : BOOLEAN]]
  /\ newest \in 0..Len(editions) /\ swapped \in BOOLEAN

\* NewAuthMiddleware fetches once, and goes on when that fails
KeyInit ==
  /\ \E s \in (SUBSET SigningKeys) \ {{}} : editions = <<s>>
  /\ keyCache \in {[keys |-> editions[1], expired |-> FALSE, of |-> 1],
                   [keys |-> {}, expired |-> TRUE, of |-> 0]}
  /\ asking = [r \in Requests |-> NoRequest]
  /\ newest = keyCache.of /\ swapped = FALSE

-----------------------------------------------------------------------------
(* The provider, and time.                                                   *)

Rotate ==
  /\ Len(editions) <= MaxRotations
  /\ \E s \in (SUBSET SigningKeys) \ {{}, Published} :
       /\ editions' = Append(editions, s)
       /\ asking' = [r \in Requests |-> [asking[r] EXCEPT !.valid = @ /\ asking[r].signer \in s]]
  /\ UNCHANGED <<keyCache, newest, swapped>>

\* an hour after the last refresh
ExpireKeys ==
  /\ keyCache' = [keyCache EXCEPT !.expired = TRUE]
  /\ UNCHANGED <<editions, asking, newest, swapped>>

-----------------------------------------------------------------------------
(* A request with a token of the provider.                                   *)

AskAt(r, pc) == asking[r].pc = pc
AskTo(r, pc) == asking' = [asking EXCEPT ![r].pc = pc]

\* a token by a key the provider has or has withdrawn; it names its key or not
BringToken(r, k, named) ==
  /\ asking[r].pc \in {"idle", "accepted", "refused"}
  /\ asking' = [asking EXCEPT ![r] = [NoRequest EXCEPT !.pc = "look", !.signer = k,
                  !.named = named, !.valid = k \in Published, !.since = newest]]
  /\ UNCHANGED <<editions, keyCache, newest, swapped>>

\* getKey knows the key; getAnyKey knows any
Knows(r) ==
  /\ asking[r].named => asking[r].signer \in keyCache.keys
  /\ ~asking[r].named => keyCache.keys # {}

LookUpKey(r) ==
  /\ AskAt(r, "look")
  /\ asking' = [asking EXCEPT ![r].knew = Knows(r),
        ![r].pc = IF ~Knows(r) \/ keyCache.expired THEN "fetch"
                  ELSE IF asking[r].named THEN "accepted" ELSE "pick"]
  /\ UNCHANGED <<editions, keyCache, newest, swapped>>

\* refresh: the provider's answer
FetchKeys(r) ==
  /\ AskAt(r, "fetch")
  /\ asking' = [asking EXCEPT ![r].got = Len(editions), ![r].pc = "store"]
  /\ UNCHANGED <<editions, keyCache, newest, swapped>>

\* the key found before is used all the same
FetchKeysFails(r) ==
  /\ AskAt(r, "fetch")
  /\ asking' = [asking EXCEPT ![r].failed = TRUE,
        ![r].pc = IF ~asking[r].named THEN "pick"
                  ELSE IF asking[r].knew THEN "accepted" ELSE "refused"]
  /\ UNCHANGED <<editions, keyCache, newest, swapped>>

\* mutant of StoreKeys: the answer is merged into what is there
StoreMoreKeys(r) ==
  /\ AskAt(r, "store")
  /\ keyCache' = [keys |-> keyCache.keys \cup editions[asking[r].got], expired |-> FALSE,
                  of |-> asking[r].got]
  /\ swapped' = (swapped \/ asking[r].got < keyCache.of)
  /\ newest' = IF asking[r].got > newest THEN asking[r].got ELSE newest
  /\ AskTo(r, "pick")
  /\ UNCHANGED editions

\* the whole set is replaced, whatever has been stored since the answer
StoreKeys(r) ==
  /\ AskAt(r, "store")
  /\ keyCache' = [keys |-> editions[asking[r].got], expired |-> FALSE, of |-> asking[r].got]
  /\ swapped' = (swapped \/ asking[r].got < keyCache.of)
  /\ newest' = IF asking[r].got > newest THEN asking[r].got ELSE newest
  /\ AskTo(r, "pick")
  /\ UNCHANGED editions

\* the key by its name, or the first that the map's iteration gives; the
\* signature then fits or does not
PickKey(r) ==
  /\ AskAt(r, "pick")
  /\ \/ \E k \in keyCache.keys :
          /\ asking[r].named => k = asking[r].signer
          /\ AskTo(r, IF k = asking[r].signer THEN "accepted" ELSE "refused")
     \/ ~Knows(r) /\ AskTo(r, "refused")
  /\ UNCHANGED <<editions, keyCache, newest, swapped>>

KeyNext ==
  \/ Rotate \/ ExpireKeys
  \/ \E r \in Requests :
       \/ \E k \in SigningKeys, named \in BOOLEAN : BringToken(r, k, named)
       \/ LookUpKey(r) \/ FetchKeys(r) \/ FetchKeysFails(r) \/ StoreKeys(r) \/ PickKey(r)

KeySpec == KeyInit /\ [][KeyNext]_keyVars

-----------------------------------------------------------------------------
(* A token that names a key which the provider has all the while is refused   *)
(* only if the provider could not be asked, or an older answer replaced a     *)
(* newer one.                                                                 *)
CurrentKeysServe ==
  \A r \in Requests :
    AskAt(r, "refused") /\ asking[r].named /\ asking[r].valid => asking[r].failed \/ swapped

(* A request is served with a key of the newest edition the server had seen   *)
(* when it came, or of a later one: what is withdrawn goes with the first      *)
(* refresh, for all requests, unless an older answer came back over it.       *)
WithdrawnKeysGo ==
  \A r \in Requests :
    AskAt(r, "accepted") /\ ~swapped =>
      \E i \in 1..Len(editions) : i >= asking[r].since /\ asking[r].signer \in editions[i]

KeysSafe == CurrentKeysServe /\ WithdrawnKeysGo
=============================================================================
