---------------------------- MODULE RateLimiter ----------------------------
(***************************************************************************)
(* The limits on requests (internal/api/ratelimit.go): a token bucket for  *)
(* the server, one for each address and one for each organisation that a   *)
(* request names, made when they are first asked for and removed by the    *)
(* clean-up when nobody has asked for ten minutes.  A bucket fills with    *)
(* time; the library computes that when it is asked, here it happens with  *)
(* the tick.  Of an entry's lastSeen the model keeps the age.              *)
(***************************************************************************)
EXTENDS Naturals

CONSTANTS Addresses, OrgNames, NoOrg,
          BurstOf, RateOf,           \* [Addresses \cup OrgNames -> Nat], per tick
          GlobalBurst, GlobalRate,
          StaleAfter,                \* ticks after which an entry is removed
          InFlight                   \* requests in progress at a time

Limited == Addresses \cup OrgNames

\* The defaults: 20 per second and a burst of 40, 100 and 200, ten minutes.
ASSUME LimiterAssumption ==
  /\ NoOrg \notin OrgNames
  /\ BurstOf \in [Limited -> Nat] /\ RateOf \in [Limited -> Nat]
  /\ StaleAfter \in Nat /\ GlobalBurst \in Nat /\ GlobalRate \in Nat
  /\ \A k \in Limited : BurstOf[k] <= StaleAfter * RateOf[k]

VARIABLES
  globalTokens,
  entries,  \* ipLimiters and orgLimiters: [Limited -> [there, tokens, age]]
  inflight, \* [InFlight -> [at, ip, org]]
  ideal     \* history: the tokens in a bucket that is never removed

limitVars == <<globalTokens, entries, inflight, ideal>>

NoEntry == [there |-> FALSE, tokens |-> 0, age |-> 0]
Entry == [there : BOOLEAN, tokens : Nat, age : 0..(StaleAfter + 1)]

LimitTypeOK ==
  /\ globalTokens \in 0..GlobalBurst
  /\ entries \in [Limited -> Entry]
  /\ inflight \in [InFlight -> [at : {"none", "ip", "org", "served"}, ip : Addresses,
                                org : OrgNames \cup {NoOrg}]]
  /\ ideal \in [Limited -> Nat]

LimitInit ==
  /\ globalTokens = GlobalBurst
  /\ entries = [k \in Limited |-> NoEntry]
  /\ \E a \in Addresses : inflight = [q \in InFlight |-> [at |-> "none", ip |-> a, org |-> NoOrg]]
  /\ ideal = BurstOf

-----------------------------------------------------------------------------
Upto(cap, n) == IF n > cap THEN cap ELSE n

FillBuckets ==
  /\ globalTokens' = Upto(GlobalBurst, globalTokens + GlobalRate)
  /\ entries' = [k \in Limited |->
       IF entries[k].there
         THEN [entries[k] EXCEPT !.tokens = Upto(BurstOf[k], @ + RateOf[k]),
                                 !.age = Upto(StaleAfter + 1, @ + 1)]
         ELSE entries[k]]
  /\ ideal' = [k \in Limited |-> Upto(BurstOf[k], ideal[k] + RateOf[k])]
  /\ UNCHANGED inflight

\* mutant: the clean-up at the interval of its ticker
StaleEarly(e) == e.age > 1

Stale(e) == e.age > StaleAfter

\* cleanup: both maps under one lock
DropStale ==
  /\ entries' = [k \in Limited |-> IF Stale(entries[k]) THEN NoEntry ELSE entries[k]]
  /\ UNCHANGED <<globalTokens, inflight, ideal>>

\* getIPLimiter and getOrgLimiter: a full bucket for one who is new
Asked(k) == [there |-> TRUE, age |-> 0,
             tokens |-> IF entries[k].there THEN entries[k].tokens ELSE BurstOf[k]]

\* the bucket is asked, and gives or refuses: then the request is over
Allow(q, k, next) ==
  /\ \/ /\ Asked(k).tokens > 0
        /\ entries' = [entries EXCEPT ![k] = [Asked(k) EXCEPT !.tokens = @ - 1]]
        /\ ideal' = [ideal EXCEPT ![k] = @ - 1]
        /\ inflight' = [inflight EXCEPT ![q].at = next]
     \/ /\ Asked(k).tokens = 0
        /\ entries' = [entries EXCEPT ![k] = Asked(k)]
        /\ inflight' = [inflight EXCEPT ![q].at = "none"]
        /\ UNCHANGED ideal
  /\ UNCHANGED globalTokens

\* Middleware, the server's bucket: what it gives is spent, whatever follows
Arrive(q) ==
  /\ inflight[q].at = "none" /\ globalTokens > 0
  /\ globalTokens' = globalTokens - 1
  /\ \E a \in Addresses, o \in OrgNames \cup {NoOrg} :
       inflight' = [inflight EXCEPT ![q] = [at |-> "ip", ip |-> a, org |-> o]]
  /\ UNCHANGED <<entries, ideal>>

AskAddress(q) ==
  /\ inflight[q].at = "ip"
  /\ Allow(q, inflight[q].ip, IF inflight[q].org = NoOrg THEN "served" ELSE "org")

AskOrg(q) ==
  /\ inflight[q].at = "org"
  /\ Allow(q, inflight[q].org, "served")

Served(q) ==
  /\ inflight[q].at = "served"
  /\ inflight' = [inflight EXCEPT ![q].at = "none"]
  /\ UNCHANGED <<globalTokens, entries, ideal>>

LimitNext ==
  \/ FillBuckets \/ DropStale
  \/ \E q \in InFlight : Arrive(q) \/ AskAddress(q) \/ AskOrg(q) \/ Served(q)

LimitSpec == LimitInit /\ [][LimitNext]_limitVars

-----------------------------------------------------------------------------
(* The clean-up is invisible: what a client may spend is at any time what a *)
(* bucket kept for ever would give it, so no pause, however long or often,  *)
(* buys more than the burst and the rate, or less.                          *)
LimitsKept ==
  \A k \in Limited :
    ideal[k] = IF entries[k].there THEN entries[k].tokens ELSE BurstOf[k]
=============================================================================
