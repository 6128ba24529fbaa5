---------------------------- MODULE ServiceProofs ----------------------------
(***************************************************************************)
(* Theorems of the parts of the API server that let requests in and keep a *)
(* small state of their own: the device login and the specification it     *)
(* implements (DeviceAuth), the cache of signing keys (KeyCache), the rate *)
(* limits (RateLimiter), the Linear intake (Intake) and the contexts of    *)
(* branches (BranchContexts).                                              *)
(***************************************************************************)
EXTENDS DeviceAuth, KeyCache, RateLimiter, Intake, BranchContexts, FiniteSetTheorems, TLAPS

-----------------------------------------------------------------------------
(* DeviceAuth.                                                              *)

CliPlaces == {"start", "waiting", "status", "token", "who", "saved", "lapsed"}
IdentityOrNone == Identities \cup {NoIdentity}

DeviceShape ==
  /\ entry \in [Logins -> [state : {"absent", "pending", "completed"}, who : IdentityOrNone, token : IdentityOrNone]]
  /\ cli \in [Logins -> [at : CliPlaces, token : IdentityOrNone, who : IdentityOrNone]]
  /\ expired \subseteq Logins
  /\ granters \in [Logins -> SUBSET [by : Users, form : Forms]]

\* who holds the lock has begun an approval, and what of it is written is in the entry
WriterInv ==
  \/ writer = NoWriter
  \/ /\ writer \in [as : Identities, login : Logins, step : {"token", "status"}]
     /\ entry[writer.login].state # "absent"
     /\ writer.as \in IdentitiesOf(granters[writer.login])
     /\ entry[writer.login].who \in IdentitiesOf(granters[writer.login])
     /\ writer.step = "status" => entry[writer.login].token \in IdentitiesOf(granters[writer.login])

\* what an entry holds was put there by approvals, all of it once it is completed;
\* and an entry is there only after its login has started
EntryInv ==
  \A l \in Logins :
    /\ {entry[l].who, entry[l].token} \subseteq IdentitiesOf(granters[l]) \cup {NoIdentity}
    /\ entry[l].state = "completed" => {entry[l].who, entry[l].token} \subseteq IdentitiesOf(granters[l])
    /\ cli[l].at = "start" => entry[l] = Absent /\ l \notin expired

\* a poll that has seen "completed" works on a completed entry, and what it has
\* read was put there by approvals
PollInv ==
  \A l \in Logins :
    /\ cli[l].at \in {"token", "who"} => entry[l].state = "completed"
    /\ cli[l].at \in {"who", "saved"} => cli[l].token \in IdentitiesOf(granters[l])
    /\ cli[l].at = "saved" => cli[l].who \in IdentitiesOf(granters[l])

DeviceInv == DeviceShape /\ WriterInv /\ EntryInv /\ PollInv

\* what an approval writes is an identity, and an approval adds its own
LEMMA IdentitiesAdd ==
  ASSUME NEW u \in Users, NEW form \in Forms, NEW G \in SUBSET [by : Users, form : Forms]
  PROVE  /\ Identity(u, form) \in Identities
         /\ IdentitiesOf(G \cup {[by |-> u, form |-> form]}) = IdentitiesOf(G) \cup {Identity(u, form)}
         /\ IdentitiesOf(G) \subseteq Identities
<1>1. ASSUME NEW v \in Users, NEW f \in Forms PROVE Identity(v, f) \in Identities
  <2>1. f \in [user : Users \cup {NoUser}, org : Users \cup {NoUser}]
    BY DeviceAssumption
  <2> DEFINE user == IF f.user = NoUser THEN v ELSE f.user
             org == IF f.org # NoUser THEN f.org ELSE IF v \in Personal THEN user ELSE v
  <2>2. user \in Users /\ org \in Users
    BY <2>1
  <2>3. Identity(v, f) = [user |-> user, org |-> org]
    BY DEF Identity
  <2> QED BY <2>2, <2>3 DEF Identities
<1> DEFINE g == [by |-> u, form |-> form]
<1>2. g.by = u /\ g.form = form
  OBVIOUS
<1> HIDE DEF g
<1>3. IdentitiesOf(G \cup {g}) = IdentitiesOf(G) \cup {Identity(u, form)}
  BY <1>2 DEF IdentitiesOf
<1>4. IdentitiesOf(G) \subseteq Identities
  BY <1>1 DEF IdentitiesOf
<1> QED BY <1>1, <1>3, <1>4 DEF g

LEMMA NobodyIsNoIdentity == NoIdentity \notin Identities
  BY DeviceAssumption DEF NoIdentity, Identities

LEMMA DeviceInitInv == DeviceInit => DeviceInv
  BY DEF DeviceInit, DeviceInv, DeviceShape, WriterInv, EntryInv, PollInv, Absent, CliPlaces, IdentityOrNone

LEMMA DeviceNextInv == DeviceInv /\ [DeviceNext]_deviceVars => DeviceInv'
<1> SUFFICES ASSUME DeviceInv, [DeviceNext]_deviceVars PROVE DeviceInv'
  OBVIOUS
<1> USE DEF DeviceInv, DeviceShape, CliPlaces, IdentityOrNone
<1>1. ASSUME NEW l \in Logins, StartLogin(l) PROVE DeviceInv'
  BY <1>1 DEF StartLogin, MoveTo, Unlocked, Absent, WriterInv, EntryInv, PollInv, NoWriter
<1>2. ASSUME NEW l \in Logins, Expire(l) PROVE DeviceInv'
  BY <1>2 DEF Expire, WriterInv, EntryInv, PollInv
<1>3. CASE Cleanup
  BY <1>3 DEF Cleanup, Unlocked, Absent, WriterInv, EntryInv, PollInv, NoWriter
<1>4. ASSUME NEW l \in Logins, NEW u \in Users, NEW form \in Forms, BeginApproval(l, u, form)
      PROVE  DeviceInv'
  <2> DEFINE i == Identity(u, form)
             g == [by |-> u, form |-> form]
  <2>1. /\ writer' = [as |-> i, login |-> l, step |-> "token"]
        /\ entry' = [entry EXCEPT ![l].who = i]
        /\ granters' = [granters EXCEPT ![l] = granters[l] \cup {g}]
        /\ entry[l].state # "absent" /\ UNCHANGED <<expired, cli>>
    BY <1>4 DEF BeginApproval, Live
  <2>2. g \in [by : Users, form : Forms]
    OBVIOUS
  <2>3. i \in Identities /\ granters'[l] = granters[l] \cup {g}
        /\ IdentitiesOf(granters'[l]) = IdentitiesOf(granters[l]) \cup {i}
        /\ \A k \in Logins \ {l} : granters'[k] = granters[k]
    BY <2>1, IdentitiesAdd
  <2> HIDE DEF i, g
  <2>4. DeviceShape'
    BY <2>1, <2>2, <2>3
  <2>5. WriterInv'
    <3>1. /\ writer'.as = i /\ writer'.login = l /\ writer'.step = "token"
          /\ entry'[l].state = entry[l].state /\ entry'[l].who = i
      BY <2>1
    <3>2. writer' \in [as : Identities, login : Logins, step : {"token", "status"}]
      BY <2>1, <2>3
    <3> QED BY <2>1, <2>3, <3>1, <3>2 DEF WriterInv
  <2>6. EntryInv'
    <3> SUFFICES ASSUME NEW k \in Logins
                 PROVE  /\ {entry'[k].who, entry'[k].token} \subseteq IdentitiesOf(granters'[k]) \cup {NoIdentity}
                        /\ entry'[k].state = "completed" =>
                             {entry'[k].who, entry'[k].token} \subseteq IdentitiesOf(granters'[k])
                        /\ cli'[k].at = "start" => entry'[k] = Absent /\ k \notin expired'
      BY DEF EntryInv
    <3>1. CASE k = l
      <4>1. /\ entry'[l].who = i /\ entry'[l].token = entry[l].token /\ entry'[l].state = entry[l].state
            /\ cli'[l] = cli[l] /\ cli[l].at # "start"
        BY <2>1 DEF EntryInv, Absent
      <4>2. /\ entry[l].token \in IdentitiesOf(granters[l]) \cup {NoIdentity}
            /\ entry[l].state = "completed" => entry[l].token \in IdentitiesOf(granters[l])
        BY DEF EntryInv
      <4> QED BY <2>3, <3>1, <4>1, <4>2
    <3>2. CASE k # l
      BY <2>1, <2>3, <3>2 DEF EntryInv
    <3> QED BY <3>1, <3>2
  <2>7. PollInv'
    <3>1. \A k \in Logins : /\ entry'[k].state = entry[k].state
                            /\ IdentitiesOf(granters[k]) \subseteq IdentitiesOf(granters'[k])
      <4>1. \A k \in Logins : entry'[k].state = entry[k].state
        BY <2>1
      <4> QED BY <2>3, <4>1
    <3>2. cli' = cli
      BY <2>1
    <3> QED BY <3>1, <3>2 DEF PollInv
  <2> QED BY <2>4, <2>5, <2>6, <2>7
<1>5. CASE WriteToken
  <2> USE <1>5 DEF WriteToken
  <2>1. writer \in [as : Identities, login : Logins, step : {"token", "status"}]
        /\ entry[writer.login].state # "absent" /\ writer.as \in IdentitiesOf(granters[writer.login])
        /\ entry[writer.login].who \in IdentitiesOf(granters[writer.login])
    BY DEF WriterInv, NoWriter
  <2>6. writer.as \in Identities /\ writer.login \in Logins
    BY ONLY <2>1
  <2>2. DeviceShape'
    BY <2>6
  <2>3. WriterInv'
    BY <2>1 DEF WriterInv
  <2>4. EntryInv'
    BY <2>1 DEF EntryInv, Absent
  <2>5. PollInv'
    BY <2>1 DEF PollInv
  <2> QED BY <2>2, <2>3, <2>4, <2>5
<1>6. CASE WriteStatus
  <2> USE <1>6 DEF WriteStatus
  <2>1. writer \in [as : Identities, login : Logins, step : {"token", "status"}]
        /\ entry[writer.login].state # "absent"
        /\ {entry[writer.login].who, entry[writer.login].token} \subseteq IdentitiesOf(granters[writer.login])
    BY DEF WriterInv, NoWriter
  <2>2. DeviceShape' /\ WriterInv'
    BY <2>1 DEF WriterInv
  <2>3. EntryInv'
    BY <2>1 DEF EntryInv, Absent
  <2>4. PollInv'
    BY <2>1 DEF PollInv
  <2> QED BY <2>2, <2>3, <2>4
<1>7. ASSUME NEW l \in Logins, LoginStep(l) PROVE DeviceInv'
  <2>1. ASSUME UNCHANGED <<entry, expired, writer, granters>>,
               NEW c \in [at : CliPlaces \ {"start"},
                          token : IdentityOrNone, who : IdentityOrNone],
               cli' = [cli EXCEPT ![l] = c],
               c.at \in {"token", "who"} => entry[l].state = "completed",
               c.at \in {"who", "saved"} => c.token \in IdentitiesOf(granters[l]),
               c.at = "saved" => c.who \in IdentitiesOf(granters[l])
        PROVE  DeviceInv'
    <3>1. DeviceShape' /\ WriterInv'
      BY <2>1 DEF WriterInv
    <3>2. EntryInv'
      BY <2>1 DEF EntryInv, Absent
    <3>3. PollInv'
      BY <2>1 DEF PollInv
    <3> QED BY <3>1, <3>2, <3>3
  <2>2. CASE PollGet(l) \/ GiveUp(l)
    <3>1. PICK place \in {"status", "lapsed"} : MoveTo(l, place)
      BY <2>2 DEF PollGet, GiveUp
    <3>2. cli' = [cli EXCEPT ![l] = [cli[l] EXCEPT !.at = place]]
      BY <3>1 DEF MoveTo
    <3> QED BY <2>2, <2>1, <3>2 DEF PollGet, GiveUp
  <2>3. CASE PollStatus(l)
    <3>1. PICK place \in {"token", "waiting"} :
            MoveTo(l, place) /\ (place = "token" => entry[l].state = "completed")
      BY <2>3 DEF PollStatus
    <3>2. cli' = [cli EXCEPT ![l] = [cli[l] EXCEPT !.at = place]]
      BY <3>1 DEF MoveTo
    <3> QED BY <2>3, <2>1, <3>1, <3>2 DEF PollStatus
  <2>4. CASE PollToken(l)
    BY <2>4, <2>1 DEF PollToken, PollInv, EntryInv
  <2>5. CASE PollWho(l)
    <3>1. cli' = [cli EXCEPT ![l] = [cli[l] EXCEPT !.at = "saved", !.who = entry[l].who]]
      BY <2>5 DEF PollWho
    <3> QED BY <3>1, <2>5, <2>1, ZenonT(40) DEF PollWho, PollInv, EntryInv
  <2> QED BY <1>7, <2>2, <2>3, <2>4, <2>5 DEF LoginStep
<1>8. ASSUME NEW l \in Logins, LoseAnswer(l) PROVE DeviceInv'
  BY <1>8 DEF LoseAnswer, Accident, WriterInv, EntryInv, PollInv
<1>9. CASE ServerRestarts
  BY <1>9 DEF ServerRestarts, Accident, Absent, WriterInv, EntryInv, PollInv
<1>10. CASE UNCHANGED deviceVars
  BY <1>10 DEF deviceVars, WriterInv, EntryInv, PollInv
<1> QED BY <1>1, <1>2, <1>3, <1>4, <1>5, <1>6, <1>7, <1>8, <1>9, <1>10 DEF DeviceNext

(* Every variable of DeviceAuth keeps its type. *)
THEOREM DeviceTypes == DeviceSpec => []DeviceTypeOK
<1>1. DeviceInv => DeviceTypeOK
  BY DEF DeviceInv, DeviceShape, WriterInv, EntryInv, DeviceTypeOK, NoWriter
<1> QED BY DeviceInitInv, DeviceNextInv, <1>1, PTL DEF DeviceSpec

(* A login whose code got a single approval holds the user, organisation and   *)
(* token of that approval, wherever the unlocked reads of the poll handler     *)
(* fell: those its request filled in, and the verified user's where it left    *)
(* them empty.                                                                 *)
THEOREM LoginIsItsApproval == DeviceSpec => []OneApprovalWhole
<1>1. DeviceInv => OneApprovalWhole
  <2> SUFFICES ASSUME DeviceInv, NEW l \in Logins, cli[l].at = "saved",
                      NEW u \in Users, NEW form \in Forms, granters[l] = {[by |-> u, form |-> form]}
               PROVE  /\ cli[l].token = Identity(u, form) /\ cli[l].who = cli[l].token
                      /\ form.user \in {NoUser, u} => cli[l].token.user = u
                      /\ form.user = NoUser /\ form.org = NoUser => cli[l].who.org = u
    BY DEF OneApprovalWhole
  <2>1. IdentitiesOf({} \cup {[by |-> u, form |-> form]}) = IdentitiesOf({}) \cup {Identity(u, form)}
    BY IdentitiesAdd
  <2>2. IdentitiesOf({}) = {}
    BY DEF IdentitiesOf
  <2>3. IdentitiesOf(granters[l]) = {Identity(u, form)}
    BY <2>1, <2>2
  <2>4. cli[l].token = Identity(u, form) /\ cli[l].who = Identity(u, form)
    BY <2>3 DEF DeviceInv, PollInv
  <2>5. /\ form.user \in {NoUser, u} => Identity(u, form).user = u
        /\ form.user = NoUser /\ form.org = NoUser => Identity(u, form).org = u
    BY DEF Identity
  <2> QED BY <2>4, <2>5
<1> QED BY DeviceInitInv, DeviceNextInv, <1>1, PTL DEF DeviceSpec


(* The promise.                                                             *)

LEMMA DeviceInitGrants == DeviceInit => Grant!GrantInit
  BY DEF DeviceInit, Grant!GrantInit, grantBar, grantedBar, heldBar, IdentitiesOf

LEMMA DeviceStepGrants ==
  ASSUME DeviceInv, [DeviceNext]_deviceVars
  PROVE  [Grant!GrantNext]_<<grantBar, grantedBar, heldBar>>
<1> USE DEF DeviceInv, DeviceShape, CliPlaces, IdentityOrNone
<1>1. ASSUME NEW l \in Logins, StartLogin(l) PROVE Grant!Issue(l)
  BY <1>1 DEF StartLogin, MoveTo, Grant!Issue, grantBar, grantedBar, heldBar, EntryInv, Live, Absent
<1>2. ASSUME NEW l \in Logins, Expire(l)
      PROVE  Grant!Close({l}) \/ UNCHANGED <<grantBar, grantedBar, heldBar>>
  BY <1>2 DEF Expire, Grant!Close, grantBar, grantedBar, heldBar, Live
<1>3. CASE Cleanup
  <2>1. UNCHANGED <<grantBar, grantedBar, heldBar>>
    BY <1>3 DEF Cleanup, grantBar, grantedBar, heldBar, Live, Absent
  <2> QED BY <2>1
<1>4. ASSUME NEW l \in Logins, NEW u \in Users, NEW form \in Forms, BeginApproval(l, u, form)
      PROVE  \E i \in Identities : Grant!Approve(l, i)
  <2> DEFINE i == Identity(u, form)
             g == [by |-> u, form |-> form]
  <2>1. i \in Identities /\ IdentitiesOf(granters[l] \cup {g}) = IdentitiesOf(granters[l]) \cup {i}
    BY IdentitiesAdd
  <2>2. /\ granters' = [granters EXCEPT ![l] = granters[l] \cup {g}]
        /\ entry' = [entry EXCEPT ![l].who = i] /\ UNCHANGED <<expired, cli>> /\ Live(l)
    BY <1>4 DEF BeginApproval
  <2> HIDE DEF i, g
  <2>3. grantedBar' = [grantedBar EXCEPT ![l] = grantedBar[l] \cup {i}]
    <3>1. grantedBar' = [k \in Logins |-> IdentitiesOf(granters'[k])]
      BY DEF grantedBar
    <3>2. \A k \in Logins : IdentitiesOf(granters'[k]) =
                             IF k = l THEN IdentitiesOf(granters[l]) \cup {i} ELSE IdentitiesOf(granters[k])
      BY <2>1, <2>2
    <3> QED BY <3>1, <3>2 DEF grantedBar
  <2>4. UNCHANGED <<grantBar, heldBar>>
    BY <2>2 DEF grantBar, heldBar, Live
  <2>5. grantBar[l] = "open"
    BY <2>2 DEF grantBar, Live, EntryInv, Absent
  <2> QED BY <2>1, <2>3, <2>4, <2>5 DEF Grant!Approve
<1>5. CASE WriteToken \/ WriteStatus
  <2>1. UNCHANGED <<grantBar, grantedBar, heldBar>>
    <3>1. UNCHANGED <<expired, cli, granters>> /\ writer # NoWriter
      BY <1>5 DEF WriteToken, WriteStatus, NoWriter
    <3>2. \A l \in Logins : entry'[l].state = "absent" <=> entry[l].state = "absent"
      <4>1. writer.login \in Logins /\ entry[writer.login].state # "absent"
        BY <3>1 DEF WriterInv
      <4>2. CASE WriteToken
        <5>1. entry' = [entry EXCEPT ![writer.login].token = writer.as]
          BY <4>2 DEF WriteToken
        <5> QED BY <4>1, <5>1
      <4>3. CASE WriteStatus
        <5>1. entry' = [entry EXCEPT ![writer.login].state = "completed"]
          BY <4>3 DEF WriteStatus
        <5> QED BY <4>1, <5>1
      <4> QED BY <1>5, <4>2, <4>3
    <3> QED BY <3>1, <3>2 DEF grantBar, grantedBar, heldBar, Live
  <2> QED BY <2>1
<1>6. ASSUME NEW l \in Logins, PollWho(l) PROVE Grant!Deliver(l)
  <2> DEFINE t == cli[l].token
             w == entry[l].who
  <2>1. t \in IdentitiesOf(granters[l]) /\ w \in IdentitiesOf(granters[l])
    BY <1>6 DEF PollWho, PollInv, EntryInv
  <2>2. /\ cli'[l].at = "saved" /\ cli'[l].token = t /\ cli'[l].who = w
        /\ \A m \in Logins \ {l} : cli'[m] = cli[m]
    BY <1>6 DEF PollWho
  <2>3. UNCHANGED <<grantBar, grantedBar>>
    BY <1>6, <2>2 DEF PollWho, grantBar, grantedBar, Live
  <2>4. heldBar[l].token = NoIdentity
    BY <1>6 DEF PollWho, heldBar
  <2>5. heldBar' = [heldBar EXCEPT ![l] = [token |-> t, who |-> w]]
    BY <2>2 DEF heldBar
  <2> QED BY <2>1, <2>3, <2>4, <2>5 DEF Grant!Deliver, grantedBar
<1>7. ASSUME NEW l \in Logins,
             PollGet(l) \/ PollStatus(l) \/ PollToken(l) \/ GiveUp(l) \/ LoseAnswer(l)
      PROVE  UNCHANGED <<grantBar, grantedBar, heldBar>>
  BY <1>7 DEF PollGet, PollStatus, PollToken, GiveUp, LoseAnswer, MoveTo, grantBar, grantedBar, heldBar, Live
<1>8. CASE ServerRestarts
  <2>1. Grant!Close({l \in Logins : grantBar[l] = "open"})
    BY <1>8 DEF ServerRestarts, Grant!Close, grantBar, grantedBar, heldBar, Live, Absent
  <2> QED BY <2>1 DEF Grant!GrantNext
<1>9. CASE UNCHANGED deviceVars
  BY <1>9 DEF deviceVars, grantBar, grantedBar, heldBar, Live
<1> QED
  BY <1>1, <1>2, <1>3, <1>4, <1>5, <1>6, <1>7, <1>8, <1>9
  DEF DeviceNext, LoginStep, Grant!GrantNext

(* The store of codes, with its unlocked reads, its clean-up, lost answers and *)
(* restarts, implements what the device flow promises: codes are approved only *)
(* while they are open, and what a login saves is its approvals'.              *)
THEOREM StoreImplementsGrant == DeviceSpec => ImplementsGrant
  BY DeviceInitInv, DeviceNextInv, DeviceInitGrants, DeviceStepGrants, PTL
  DEF DeviceSpec, ImplementsGrant, Grant!GrantSpec

-----------------------------------------------------------------------------
(* KeyCache.                                                                *)

KeyPlaces == {"idle", "look", "fetch", "store", "pick", "accepted", "refused"}
Asking == [pc : KeyPlaces,
           signer : SigningKeys, named : BOOLEAN, valid : BOOLEAN, since : Nat,
           knew : BOOLEAN, got : Nat, failed : BOOLEAN]

KeyShape ==
  /\ editions \in Seq(SUBSET SigningKeys) /\ Len(editions) \in 1..(MaxRotations + 1)
  /\ editions[Len(editions)] # {}
  /\ keyCache \in [keys : SUBSET SigningKeys, expired : BOOLEAN, of : 0..Len(editions)]
  /\ asking \in [Requests -> Asking]
  /\ newest \in 0..Len(editions) /\ swapped \in BOOLEAN

\* the cache is one whole edition, the newest that was stored unless an older came after it
CacheInv ==
  /\ keyCache.keys = IF keyCache.of = 0 THEN {} ELSE editions[keyCache.of]
  /\ keyCache.of <= newest
  /\ ~swapped => keyCache.of = newest

Since(a) == \E i \in 1..Len(editions) : i >= a.since /\ a.signer \in editions[i]
Ever(a) == a.got >= 1 /\ \A i \in a.got..Len(editions) : a.signer \in editions[i]

\* what a request has learnt so far of its key and of the editions
AskInv(a) ==
  /\ a.since <= newest /\ a.got <= Len(editions)
  /\ a.valid => a.signer \in Published
  /\ (a.pc = "fetch" /\ a.named /\ a.knew) \/ a.pc = "accepted" => swapped \/ Since(a)
  /\ a.pc = "store" => a.got >= 1 /\ (a.valid => Ever(a))
  /\ a.pc = "pick" /\ a.named => a.got <= newest /\ (a.valid => Ever(a))
  /\ a.pc = "refused" /\ a.named /\ a.valid => a.failed \/ swapped

KeyInv == KeyShape /\ CacheInv /\ \A r \in Requests : AskInv(asking[r])

LEMMA AskingMoves ==
  ASSUME NEW a \in Asking, NEW pc \in KeyPlaces
  PROVE  /\ [a EXCEPT !.pc = pc] \in Asking
         /\ \A kn \in BOOLEAN : [a EXCEPT !.knew = kn, !.pc = pc] \in Asking
         /\ \A n \in Nat : [a EXCEPT !.got = n, !.pc = pc] \in Asking
         /\ [a EXCEPT !.failed = TRUE, !.pc = pc] \in Asking
  BY DEF Asking

LEMMA NoRequestAsks ==
  ASSUME NEW k \in SigningKeys
  PROVE  /\ NoRequest \in Asking /\ NoRequest.pc = "idle" /\ ~NoRequest.valid
         /\ NoRequest.since = 0 /\ NoRequest.got = 0
<1>1. (CHOOSE x \in SigningKeys : TRUE) \in SigningKeys
  OBVIOUS
<1> QED BY <1>1 DEF NoRequest, Asking, KeyPlaces

\* a step that leaves the editions and the cache alone and moves one request
LEMMA OneAsks ==
  ASSUME KeyInv, UNCHANGED <<editions, keyCache, newest, swapped>>,
         NEW r \in Requests, NEW a \in Asking, AskInv(a), asking' = [asking EXCEPT ![r] = a]
  PROVE  KeyInv'
<1>1. KeyShape' /\ CacheInv'
  BY DEF KeyInv, KeyShape, CacheInv
<1>2. ASSUME NEW q \in Requests PROVE AskInv(asking[q])'
  <2>1. AskInv(asking'[q])
    BY DEF KeyInv, KeyShape
  <2> QED BY <2>1 DEF AskInv, Since, Ever, Published
<1> QED BY <1>1, <1>2 DEF KeyInv

LEMMA KeyInitInv == KeyInit => KeyInv
<1> SUFFICES ASSUME KeyInit PROVE KeyInv
  OBVIOUS
<1> USE KeyAssumption
<1>1. PICK s \in (SUBSET SigningKeys) \ {{}} : editions = <<s>>
  BY DEF KeyInit
<1>2. PICK k \in SigningKeys : TRUE
  BY <1>1
<1>3. /\ NoRequest \in Asking /\ NoRequest.pc = "idle" /\ ~NoRequest.valid
      /\ NoRequest.since = 0 /\ NoRequest.got = 0
  BY <1>2, NoRequestAsks
<1>4. KeyShape /\ CacheInv
  <2>1. editions \in Seq(SUBSET SigningKeys) /\ Len(editions) = 1 /\ editions[1] = s
    BY <1>1
  <2>2. asking \in [Requests -> Asking]
    BY <1>3 DEF KeyInit
  <2>3. /\ keyCache \in [keys : SUBSET SigningKeys, expired : BOOLEAN, of : 0..1]
        /\ keyCache.keys = IF keyCache.of = 0 THEN {} ELSE editions[keyCache.of]
    <3>1. CASE keyCache = [keys |-> editions[1], expired |-> FALSE, of |-> 1]
      BY <2>1, <3>1
    <3>2. CASE keyCache = [keys |-> {}, expired |-> TRUE, of |-> 0]
      BY <3>2
    <3> QED BY <3>1, <3>2 DEF KeyInit
  <2>4. newest = keyCache.of /\ swapped = FALSE
    BY DEF KeyInit
  <2>5. KeyShape
    <3>1. Len(editions) \in 1..(MaxRotations + 1) /\ editions[Len(editions)] # {}
      BY <2>1
    <3>2. newest \in 0..Len(editions) /\ swapped \in BOOLEAN
      BY <2>1, <2>3, <2>4
    <3> QED BY <2>1, <2>2, <2>3, <3>1, <3>2 DEF KeyShape
  <2>6. CacheInv
    BY <2>1, <2>3, <2>4 DEF CacheInv
  <2> QED BY <2>5, <2>6
<1>5. ASSUME NEW r \in Requests PROVE AskInv(asking[r])
  <2>1. asking[r] = NoRequest
    BY DEF KeyInit
  <2> QED BY <2>1, <1>3, <1>4 DEF AskInv, KeyShape
<1> QED BY <1>4, <1>5 DEF KeyInv

LEMMA RotateInv == ASSUME KeyInv, Rotate PROVE KeyInv'
<1> USE KeyAssumption DEF KeyInv
<1>1. PICK s \in (SUBSET SigningKeys) \ {{}, Published} :
        /\ editions' = Append(editions, s)
        /\ asking' = [r \in Requests |-> [asking[r] EXCEPT !.valid = @ /\ asking[r].signer \in s]]
  BY DEF Rotate
<1>2. /\ editions' \in Seq(SUBSET SigningKeys) /\ Len(editions') = Len(editions) + 1
      /\ \A i \in 1..Len(editions) : editions'[i] = editions[i]
      /\ editions'[Len(editions')] = s
  BY <1>1 DEF KeyShape
<1>3. KeyShape' /\ CacheInv'
  <2>1. ASSUME NEW r \in Requests PROVE asking'[r] \in Asking
    <3> DEFINE v == asking[r].valid /\ asking[r].signer \in s
    <3>1. asking'[r] = [asking[r] EXCEPT !.valid = v] /\ v \in BOOLEAN
      BY <1>1
    <3>2. asking[r] \in Asking
      BY DEF KeyShape
    <3> HIDE DEF v
    <3> QED BY <3>1, <3>2 DEF Asking
  <2>2. asking' \in [Requests -> Asking]
    BY <1>1, <2>1
  <2>3. UNCHANGED <<keyCache, newest, swapped>>
    BY DEF Rotate
  <2>4. Len(editions') \in 1..(MaxRotations + 1) /\ editions'[Len(editions')] # {}
    BY <1>1, <1>2 DEF Rotate, KeyShape
  <2>5. KeyShape'
    BY <1>2, <2>2, <2>3, <2>4 DEF KeyShape
  <2>6. CacheInv'
    BY <1>2, <2>3 DEF KeyShape, CacheInv
  <2> QED BY <2>5, <2>6
<1>4. ASSUME NEW r \in Requests PROVE AskInv(asking[r])'
  <2>1. asking[r] \in Asking /\ AskInv(asking[r])
    BY DEF KeyShape
  <2>2. /\ asking'[r].pc = asking[r].pc /\ asking'[r].signer = asking[r].signer
        /\ asking'[r].named = asking[r].named /\ asking'[r].since = asking[r].since
        /\ asking'[r].knew = asking[r].knew /\ asking'[r].got = asking[r].got
        /\ asking'[r].failed = asking[r].failed
        /\ asking'[r].valid => asking[r].valid /\ asking[r].signer \in s
    BY <1>1, <2>1 DEF Asking
  <2>3. Since(asking[r]) => Since(asking[r])'
    BY <1>2, <2>1, <2>2 DEF Since, KeyShape, Asking
  <2>4. Ever(asking[r]) /\ asking[r].signer \in s => Ever(asking[r])'
    <3> SUFFICES ASSUME Ever(asking[r]), asking[r].signer \in s,
                        NEW i \in asking[r].got..Len(editions')
                 PROVE  asking[r].signer \in editions'[i]
      BY <2>1, <2>2 DEF Ever
    <3>1. CASE i \in 1..Len(editions)
      BY <3>1, <1>2, <2>1 DEF Ever, KeyShape, Asking
    <3>2. CASE i = Len(editions')
      BY <3>2, <1>2
    <3> QED BY <3>1, <3>2, <1>2, <2>1 DEF Ever, KeyShape, Asking
  <2>5. Published' = s
    BY <1>2 DEF Published
  <2>6. Len(editions) \in Nat /\ UNCHANGED <<newest, swapped>>
    BY DEF Rotate, KeyShape
  <2> QED BY <2>1, <2>2, <2>3, <2>4, <2>5, <2>6, <1>2 DEF AskInv, Asking
<1> QED BY <1>3, <1>4

LEMMA ExpireKeysInv == ASSUME KeyInv, ExpireKeys PROVE KeyInv'
<1>1. keyCache'.keys = keyCache.keys /\ keyCache'.of = keyCache.of
  BY DEF ExpireKeys, KeyInv, KeyShape
<1>2. KeyShape' /\ CacheInv'
  BY <1>1 DEF ExpireKeys, KeyInv, KeyShape, CacheInv
<1>3. \A r \in Requests : AskInv(asking[r])'
  BY DEF ExpireKeys, KeyInv, AskInv, Since, Ever, Published
<1> QED BY <1>2, <1>3 DEF KeyInv

LEMMA StoreKeysInv == ASSUME KeyInv, NEW r \in Requests, StoreKeys(r) PROVE KeyInv'
<1> DEFINE a == asking[r]
<1>1. a \in Asking /\ AskInv(a) /\ a.pc = "store" /\ a.got \in 1..Len(editions)
  BY DEF KeyInv, KeyShape, StoreKeys, AskAt, AskInv, Asking
<1>2. /\ newest <= newest' /\ newest' \in Nat /\ a.got <= newest' /\ (swapped => swapped')
      /\ newest' <= Len(editions)
  BY <1>1 DEF StoreKeys, KeyInv, KeyShape
<1>3. KeyShape'
  <2>1. asking' \in [Requests -> Asking]
    BY <1>1, AskingMoves DEF StoreKeys, AskTo, KeyInv, KeyShape, KeyPlaces
  <2>2. keyCache' \in [keys : SUBSET SigningKeys, expired : BOOLEAN, of : 0..Len(editions)]
    BY <1>1 DEF StoreKeys, KeyInv, KeyShape
  <2>3. swapped' \in BOOLEAN
    BY DEF StoreKeys
  <2> QED BY <2>1, <2>2, <2>3, <1>2 DEF StoreKeys, KeyInv, KeyShape
<1>4. CacheInv'
  <2>1. keyCache'.keys = editions[a.got] /\ keyCache'.of = a.got
    BY DEF StoreKeys
  <2>2. ~swapped' => a.got >= newest
    <3>1. ~swapped' => ~swapped /\ ~(a.got < keyCache.of)
      BY DEF StoreKeys
    <3>2. ~swapped => keyCache.of = newest
      BY DEF KeyInv, CacheInv
    <3>3. newest \in Nat /\ a.got \in Nat
      BY <1>1 DEF KeyInv, KeyShape
    <3> QED BY <3>1, <3>2, <3>3
  <2>3. newest' = IF a.got > newest THEN a.got ELSE newest
    BY DEF StoreKeys
  <2> HIDE DEF a
  <2> QED BY <1>1, <2>1, <2>2, <2>3 DEF StoreKeys, KeyInv, KeyShape, CacheInv
<1>5. ASSUME NEW q \in Requests PROVE AskInv(asking[q])'
  <2>1. asking[q] \in Asking /\ AskInv(asking[q])
    BY DEF KeyInv, KeyShape
  <2>2. CASE q # r
    <3>1. asking'[q] = asking[q]
      BY <2>2 DEF StoreKeys, AskTo, KeyInv, KeyShape
    <3> QED
      BY <3>1, <2>1, <1>2 DEF StoreKeys, AskInv, Since, Ever, Published, Asking, KeyInv, KeyShape
  <2>3. CASE q = r
    <3>1. asking'[q] = [a EXCEPT !.pc = "pick"]
      BY <2>3 DEF StoreKeys, AskTo, KeyInv, KeyShape
    <3> HIDE DEF a
    <3> QED
      BY <3>1, <1>1, <1>2 DEF StoreKeys, AskInv, Ever, Published, Asking, KeyInv, KeyShape
  <2> QED BY <2>2, <2>3
<1> QED BY <1>3, <1>4, <1>5 DEF KeyInv

\* what the cache has, the provider had when the newest edition was stored
LEMMA CachedIsSince ==
  ASSUME KeyInv, NEW a \in Asking, AskInv(a), a.signer \in keyCache.keys
  PROVE  swapped \/ Since(a)
  BY DEF KeyInv, KeyShape, CacheInv, AskInv, Since, Asking

LEMMA RequestStepInv ==
  ASSUME KeyInv, NEW r \in Requests,
         \/ LookUpKey(r) \/ FetchKeys(r) \/ FetchKeysFails(r) \/ PickKey(r)
         \/ \E k \in SigningKeys, named \in BOOLEAN : BringToken(r, k, named)
  PROVE  KeyInv'
<1> DEFINE a == asking[r]
<1>1. a \in Asking /\ AskInv(a)
  BY DEF KeyInv, KeyShape
<1>2. CASE LookUpKey(r)
  <2> DEFINE b == [a EXCEPT !.knew = Knows(r),
                   !.pc = IF ~Knows(r) \/ keyCache.expired THEN "fetch"
                          ELSE IF a.named THEN "accepted" ELSE "pick"]
  <2>1. asking' = [asking EXCEPT ![r] = b] /\ a.pc = "look"
    BY <1>2 DEF LookUpKey, AskAt, KeyInv, KeyShape
  <2>2. b \in Asking
    <3>1. Knows(r) \in BOOLEAN
      BY DEF Knows
    <3> QED BY <1>1, <3>1, AskingMoves DEF KeyPlaces
  <2>3. a.named /\ Knows(r) => swapped \/ Since(a)
    BY <1>1, CachedIsSince DEF Knows
  <2>4. AskInv(b)
    BY <1>1, <2>1, <2>3 DEF AskInv, Since, Asking
  <2> HIDE DEF b
  <2> QED BY <2>1, <2>2, <2>4, <1>2, OneAsks DEF LookUpKey
<1>3. CASE FetchKeys(r)
  <2> DEFINE b == [a EXCEPT !.got = Len(editions), !.pc = "store"]
  <2>1. asking' = [asking EXCEPT ![r] = b]
    BY <1>3 DEF FetchKeys, AskAt, KeyInv, KeyShape
  <2>2. b \in Asking
    <3>1. Len(editions) \in Nat
      BY DEF KeyInv, KeyShape
    <3> QED BY <1>1, <3>1, AskingMoves DEF KeyPlaces
  <2>3. AskInv(b)
    BY <1>1 DEF AskInv, Ever, Asking, Published, KeyInv, KeyShape
  <2> HIDE DEF b
  <2> QED BY <2>1, <2>2, <2>3, <1>3, OneAsks DEF FetchKeys
<1>4. CASE FetchKeysFails(r)
  <2> DEFINE b == [a EXCEPT !.failed = TRUE,
                   !.pc = IF ~a.named THEN "pick"
                          ELSE IF a.knew THEN "accepted" ELSE "refused"]
  <2>1. asking' = [asking EXCEPT ![r] = b] /\ a.pc = "fetch"
    BY <1>4 DEF FetchKeysFails, AskAt, KeyInv, KeyShape
  <2>2. b \in Asking
    BY <1>1, AskingMoves DEF KeyPlaces
  <2>3. AskInv(b)
    BY <1>1, <2>1 DEF AskInv, Since, Asking
  <2> HIDE DEF b
  <2> QED BY <2>1, <2>2, <2>3, <1>4, OneAsks DEF FetchKeysFails
<1>5. CASE PickKey(r)
  <2>1. PICK pc \in {"accepted", "refused"} :
          /\ AskTo(r, pc)
          /\ pc = "accepted" => a.signer \in keyCache.keys
          /\ pc = "refused" /\ a.named => a.signer \notin keyCache.keys
    BY <1>5 DEF PickKey, Knows
  <2> DEFINE b == [a EXCEPT !.pc = pc]
  <2>2. asking' = [asking EXCEPT ![r] = b] /\ a.pc = "pick"
    BY <1>5, <2>1 DEF PickKey, AskTo, AskAt, KeyInv, KeyShape
  <2>3. b \in Asking
    BY <1>1, AskingMoves DEF KeyPlaces
  <2>4. pc = "accepted" => swapped \/ Since(a)
    BY <1>1, <2>1, CachedIsSince
  <2>5. pc = "refused" /\ a.named /\ a.valid => swapped
    BY <1>1, <2>1, <2>2 DEF AskInv, Ever, KeyInv, KeyShape, CacheInv, Asking
  <2>6. AskInv(b)
    BY <1>1, <2>4, <2>5 DEF AskInv, Since, Asking
  <2> HIDE DEF b
  <2> QED BY <2>2, <2>3, <2>6, <1>5, OneAsks DEF PickKey
<1>6. ASSUME NEW k \in SigningKeys, NEW named \in BOOLEAN, BringToken(r, k, named)
      PROVE  KeyInv'
  <2> DEFINE v == k \in Published
             b == [NoRequest EXCEPT !.pc = "look", !.signer = k, !.named = named,
                   !.valid = v, !.since = newest]
  <2>1. asking' = [asking EXCEPT ![r] = b]
    BY <1>6 DEF BringToken
  <2>2. b = [NoRequest EXCEPT !.pc = "look", !.signer = k, !.named = named, !.valid = v,
                              !.since = newest]
    OBVIOUS
  <2>3. v \in BOOLEAN /\ (v => k \in Published) /\ newest \in Nat /\ Len(editions) \in Nat
    BY DEF KeyInv, KeyShape
  <2> HIDE DEF v, b
  <2>4. /\ b \in Asking /\ b.pc = "look" /\ b.signer = k /\ b.valid = v /\ b.since = newest
        /\ b.got = 0
    BY <2>2, <2>3, NoRequestAsks DEF Asking, KeyPlaces
  <2>5. AskInv(b)
    BY <2>3, <2>4 DEF AskInv
  <2> QED BY <2>1, <2>4, <2>5, <1>6, OneAsks DEF BringToken
<1> QED BY <1>2, <1>3, <1>4, <1>5, <1>6

LEMMA KeyNextInv == KeyInv /\ [KeyNext]_keyVars => KeyInv'
<1> SUFFICES ASSUME KeyInv, [KeyNext]_keyVars PROVE KeyInv'
  OBVIOUS
<1>1. CASE UNCHANGED keyVars
  BY <1>1 DEF keyVars, KeyInv, KeyShape, CacheInv, AskInv, Since, Ever, Published
<1> QED BY <1>1, RotateInv, ExpireKeysInv, StoreKeysInv, RequestStepInv DEF KeyNext

(* Every variable of KeyCache keeps its type. *)
THEOREM KeyTypes == KeySpec => []KeyTypeOK
<1>1. KeyInv => KeyTypeOK
  BY DEF KeyInv, KeyShape, AskInv, Asking, KeyPlaces, KeyTypeOK
<1> QED BY KeyInitInv, KeyNextInv, <1>1, PTL DEF KeySpec

(* Whatever the order in which refreshes are answered and stored, a token by a *)
(* key the provider has all the while is refused, and one by a withdrawn key   *)
(* served, only after an older answer was stored over a newer one.             *)
THEOREM KeysAreTheProviders == KeySpec => []KeysSafe
<1>1. KeyInv => KeysSafe
  BY DEF KeyInv, AskInv, Since, KeysSafe, CurrentKeysServe, WithdrawnKeysGo, AskAt
<1> QED BY KeyInitInv, KeyNextInv, <1>1, PTL DEF KeySpec

-----------------------------------------------------------------------------
(* The inductive invariant.  What is invisible about the clean-up rests on   *)
(* how full a bucket is by its age: one that nobody has asked for "age" ticks *)
(* holds the burst, or at least what these ticks have brought.                *)

Filled(k) ==
  entries[k].there => \/ entries[k].tokens = BurstOf[k]
                      \/ entries[k].tokens >= entries[k].age * RateOf[k]

\* nobody holds more than the burst: a bucket that is full by its age is full
Capped(k) == ideal[k] <= BurstOf[k]

\* only a request that names an organisation gets to its bucket
KnowsItsOrg == \A q \in InFlight : inflight[q].at = "org" => inflight[q].org # NoOrg

LimitInv ==
  LimitTypeOK /\ LimitsKept /\ KnowsItsOrg /\ \A k \in Limited : Filled(k) /\ Capped(k)

USE DEF Limited

(* What a client finds when it asks is what the bucket kept for ever holds. *)
LEMMA AskedIsIdeal ==
  ASSUME LimitInv, NEW k \in Limited
  PROVE  /\ Asked(k) \in Entry
         /\ Asked(k).there /\ Asked(k).age = 0
         /\ Asked(k).tokens = ideal[k]
  BY LimiterAssumption DEF LimitInv, LimitTypeOK, LimitsKept, Asked, Entry

(* The minimum of the code's library: never above the cap, never above what *)
(* is capped, and one of the two.                                           *)
LEMMA UptoBound ==
  ASSUME NEW cap \in Nat, NEW n \in Nat
  PROVE  /\ Upto(cap, n) \in Nat /\ Upto(cap, n) <= cap /\ Upto(cap, n) <= n
         /\ Upto(cap, n) = cap \/ Upto(cap, n) = n
  BY DEF Upto

(* What is older than the burst takes to fill is full. *)
LEMMA FullWhenStale ==
  ASSUME NEW b \in Nat, NEW r \in Nat, NEW t \in Nat, NEW stale \in Nat,
         b <= stale * r, t <= b, t >= (stale + 1) * r
  PROVE  t = b
<1>1. (stale + 1) * r = stale * r + r /\ stale * r \in Nat
  OBVIOUS
<1> QED BY <1>1

(* A tick keeps a bucket as full as its age says. *)
LEMMA FillsWithAge ==
  ASSUME NEW b \in Nat, NEW r \in Nat, NEW t \in Nat, NEW stale \in Nat,
         NEW age \in 0..(stale + 1),
         b <= stale * r, t <= b, t = b \/ t >= age * r
  PROVE  Upto(b, t + r) = b \/ Upto(b, t + r) >= Upto(stale + 1, age + 1) * r
<1>1. CASE t = b
  BY <1>1 DEF Upto
<1>2. CASE t >= age * r /\ age = stale + 1
  BY <1>1, <1>2, FullWhenStale
<1>3. CASE t >= age * r /\ age < stale + 1
  <2>1. Upto(stale + 1, age + 1) = age + 1
    BY <1>3 DEF Upto
  <2>2. (age + 1) * r = age * r + r /\ age * r \in Nat
    OBVIOUS
  <2>3. t + r >= (age + 1) * r
    BY <1>3, <2>2
  <2>4. Upto(b, t + r) = b \/ Upto(b, t + r) = t + r
    BY DEF Upto
  <2> QED BY <2>1, <2>3, <2>4
<1> QED BY <1>1, <1>2, <1>3

LEMMA LimiterInitInv == LimitInit => LimitInv
  BY LimiterAssumption
     DEF LimitInit, LimitInv, LimitTypeOK, LimitsKept, KnowsItsOrg, Filled, Capped, NoEntry, Entry

(* A tick adds as much to both buckets, and as much as the age says. *)
LEMMA FillInv == LimitInv /\ FillBuckets => LimitInv'
<1> SUFFICES ASSUME LimitInv, FillBuckets PROVE LimitInv'
  OBVIOUS
<1>1. globalTokens' \in 0..GlobalBurst /\ inflight' = inflight
  <2>1. globalTokens \in Nat /\ GlobalRate \in Nat /\ GlobalBurst \in Nat
    BY LimiterAssumption DEF LimitInv, LimitTypeOK
  <2>2. globalTokens' = Upto(GlobalBurst, globalTokens + GlobalRate) /\ inflight' = inflight
    BY DEF FillBuckets
  <2> QED BY <2>1, <2>2 DEF Upto
<1>2. ASSUME NEW k \in Limited
      PROVE  /\ entries'[k] \in Entry
             /\ ideal'[k] \in Nat /\ ideal'[k] <= BurstOf[k]
             /\ ideal'[k] = IF entries'[k].there THEN entries'[k].tokens ELSE BurstOf[k]
             /\ Filled(k)'
  <2> DEFINE e == entries[k]
             b == BurstOf[k]
             r == RateOf[k]
  <2>1. b \in Nat /\ r \in Nat /\ StaleAfter \in Nat /\ b <= StaleAfter * r
    BY LimiterAssumption
  <2>2. /\ e \in Entry /\ ideal[k] \in Nat /\ ideal[k] <= b
        /\ ideal[k] = IF e.there THEN e.tokens ELSE b
        /\ e.there => e.tokens = b \/ e.tokens >= e.age * r
    BY DEF LimitInv, LimitTypeOK, LimitsKept, Filled, Capped
  <2>3. ideal'[k] = Upto(b, ideal[k] + r)
    BY DEF FillBuckets
  <2>4. CASE ~e.there
    <3>1. entries'[k] = e
      BY <2>4 DEF FillBuckets
    <3> QED BY <2>1, <2>2, <2>3, <2>4, <3>1 DEF Upto, Filled
  <2>5. CASE e.there
    <3>1. entries'[k] = [e EXCEPT !.tokens = Upto(b, @ + r), !.age = Upto(StaleAfter + 1, @ + 1)]
      BY <2>5 DEF FillBuckets
    <3>2. /\ e.tokens \in Nat /\ e.age \in 0..(StaleAfter + 1) /\ e.there \in BOOLEAN
          /\ e = [there |-> e.there, tokens |-> e.tokens, age |-> e.age]
      BY <2>2 DEF Entry
    <3>3. /\ entries'[k].tokens = Upto(b, e.tokens + r)
          /\ entries'[k].age = Upto(StaleAfter + 1, e.age + 1)
          /\ entries'[k].there
      BY <3>1, <3>2, <2>5
    <3>4. Upto(StaleAfter + 1, e.age + 1) \in 0..(StaleAfter + 1)
      BY <3>2, <2>1 DEF Upto
    <3>5. /\ e.tokens + r \in Nat
          /\ Upto(b, e.tokens + r) \in Nat /\ Upto(b, e.tokens + r) <= b
      <4>1. e.tokens \in Nat /\ r \in Nat /\ b \in Nat
        BY <3>2, <2>1
      <4> QED BY <4>1 DEF Upto
    <3>6. entries'[k] = [there |-> e.there, tokens |-> Upto(b, e.tokens + r),
                         age |-> Upto(StaleAfter + 1, e.age + 1)]
      BY <3>1, <3>2
    <3>7. entries'[k] \in Entry
      BY <3>2, <3>4, <3>5, <3>6 DEF Entry
    <3>8. ideal'[k] = entries'[k].tokens /\ ideal'[k] \in Nat /\ ideal'[k] <= b
      BY <2>2, <2>3, <2>5, <3>3, <3>5
    <3>9. entries'[k].tokens = b \/ entries'[k].tokens >= entries'[k].age * r
      BY <2>1, <2>2, <2>5, <3>2, <3>3, FillsWithAge, ZenonT(40)
    <3> QED BY <3>3, <3>7, <3>8, <3>9 DEF Filled
  <2> QED BY <2>4, <2>5
<1>3. entries' \in [Limited -> Entry] /\ ideal' \in [Limited -> Nat]
  <2>1. DOMAIN entries' = Limited /\ DOMAIN ideal' = Limited
    BY DEF FillBuckets
  <2>2. /\ entries' = [k \in Limited |-> entries'[k]]
        /\ ideal' = [k \in Limited |-> ideal'[k]]
    BY DEF FillBuckets
  <2> QED BY <1>2, <2>2
<1> QED BY <1>1, <1>2, <1>3 DEF LimitInv, LimitTypeOK, LimitsKept, KnowsItsOrg, Capped

(* What the clean-up removes is full: it was not asked for longer than the  *)
(* burst takes to fill.                                                     *)
LEMMA DropInv == LimitInv /\ DropStale => LimitInv'
<1> SUFFICES ASSUME LimitInv, DropStale PROVE LimitInv'
  OBVIOUS
<1>1. ASSUME NEW k \in Limited, entries[k].there, Stale(entries[k])
      PROVE  ideal[k] = BurstOf[k]
  <2>1. /\ BurstOf[k] \in Nat /\ RateOf[k] \in Nat /\ StaleAfter \in Nat
        /\ BurstOf[k] <= StaleAfter * RateOf[k]
    BY LimiterAssumption
  <2>2. entries[k].age = StaleAfter + 1 /\ entries[k].tokens \in Nat
    BY <1>1, <2>1 DEF LimitInv, LimitTypeOK, Entry, Stale
  <2>3. /\ ideal[k] = entries[k].tokens /\ ideal[k] <= BurstOf[k]
        /\ entries[k].tokens = BurstOf[k] \/ entries[k].tokens >= entries[k].age * RateOf[k]
    BY <1>1 DEF LimitInv, LimitsKept, Filled, Capped
  <2>4. entries[k].tokens <= BurstOf[k]
    BY <2>3
  <2> QED BY <2>1, <2>2, <2>3, <2>4, FullWhenStale
<1>2. ASSUME NEW k \in Limited
      PROVE  /\ entries'[k] \in Entry
             /\ ideal[k] = IF entries'[k].there THEN entries'[k].tokens ELSE BurstOf[k]
             /\ Filled(k)'
  <2>1. entries'[k] = IF Stale(entries[k]) THEN NoEntry ELSE entries[k]
    BY DEF DropStale
  <2>2. NoEntry \in Entry /\ ~NoEntry.there
    BY LimiterAssumption DEF NoEntry, Entry
  <2> QED BY <1>1, <2>1, <2>2 DEF LimitInv, LimitTypeOK, LimitsKept, Filled
<1>3. entries' = [k \in Limited |-> entries'[k]]
  BY DEF DropStale
<1>4. entries' \in [Limited -> Entry]
  BY <1>2, <1>3
<1> QED BY <1>2, <1>4 DEF LimitInv, LimitTypeOK, LimitsKept, KnowsItsOrg, Capped, DropStale

(* A bucket that is asked makes both buckets give, or neither. *)
LEMMA AllowInv ==
  ASSUME LimitInv, NEW q \in InFlight, NEW k \in Limited,
         NEW next \in {"org", "served"}, Allow(q, k, next),
         next = "org" => inflight[q].org # NoOrg
  PROVE  LimitInv'
<1>1. Asked(k) \in Entry /\ Asked(k).there /\ Asked(k).age = 0 /\ Asked(k).tokens = ideal[k]
  BY AskedIsIdeal
<1>2. inflight' \in [InFlight -> [at : {"none", "ip", "org", "served"}, ip : Addresses,
                                  org : OrgNames \cup {NoOrg}]] /\ KnowsItsOrg'
  BY DEF LimitInv, LimitTypeOK, KnowsItsOrg, Allow
<1>3. /\ RateOf[k] \in Nat /\ BurstOf[k] \in Nat /\ 0 * RateOf[k] = 0
      /\ ideal[k] \in Nat /\ ideal[k] <= BurstOf[k]
  BY LimiterAssumption DEF LimitInv, LimitTypeOK, Capped
<1>4. CASE /\ Asked(k).tokens > 0
           /\ entries' = [entries EXCEPT ![k] = [Asked(k) EXCEPT !.tokens = @ - 1]]
           /\ ideal' = [ideal EXCEPT ![k] = @ - 1]
  <2> DEFINE e == [Asked(k) EXCEPT !.tokens = @ - 1]
  <2>1. e \in Entry /\ e.there /\ e.age = 0 /\ e.tokens = ideal[k] - 1 /\ e.tokens \in Nat
    BY <1>1, <1>3, <1>4 DEF Entry
  <2> HIDE DEF e
  <2>2. /\ entries' \in [Limited -> Entry] /\ ideal' \in [Limited -> Nat]
        /\ entries'[k] = e /\ ideal'[k] = ideal[k] - 1
        /\ \A j \in Limited : j # k => entries'[j] = entries[j] /\ ideal'[j] = ideal[j]
    BY <1>3, <1>4, <2>1 DEF LimitInv, LimitTypeOK, e
  <2>3. LimitsKept'
    BY <2>1, <2>2 DEF LimitInv, LimitsKept
  <2>4. \A j \in Limited : Filled(j)' /\ Capped(j)'
    BY <1>3, <2>1, <2>2 DEF LimitInv, Filled, Capped
  <2> QED BY <1>2, <2>2, <2>3, <2>4 DEF LimitInv, LimitTypeOK, Allow
<1>5. CASE entries' = [entries EXCEPT ![k] = Asked(k)] /\ UNCHANGED ideal
  <2>1. /\ entries' \in [Limited -> Entry] /\ entries'[k] = Asked(k)
        /\ \A j \in Limited : j # k => entries'[j] = entries[j]
    BY <1>1, <1>5 DEF LimitInv, LimitTypeOK
  <2>2. LimitsKept'
    BY <1>1, <1>5, <2>1 DEF LimitInv, LimitsKept
  <2>3. \A j \in Limited : Filled(j)' /\ Capped(j)'
    BY <1>1, <1>3, <1>5, <2>1 DEF LimitInv, Filled, Capped
  <2> QED BY <1>2, <1>5, <2>1, <2>2, <2>3 DEF LimitInv, LimitTypeOK, Allow
<1> QED BY <1>4, <1>5 DEF Allow

(* Arrivals and answers touch no bucket but the server's. *)
LEMMA LimitedRequestInv ==
  ASSUME LimitInv, NEW q \in InFlight, Arrive(q) \/ Served(q)
  PROVE  LimitInv'
<1>1. entries' = entries /\ ideal' = ideal
  BY DEF Arrive, Served
<1>2. globalTokens' \in 0..GlobalBurst
  BY LimiterAssumption DEF LimitInv, LimitTypeOK, Arrive, Served
<1>3. inflight' \in [InFlight -> [at : {"none", "ip", "org", "served"}, ip : Addresses,
                                  org : OrgNames \cup {NoOrg}]] /\ KnowsItsOrg'
  BY DEF LimitInv, LimitTypeOK, KnowsItsOrg, Arrive, Served
<1> QED BY <1>1, <1>2, <1>3 DEF LimitInv, LimitTypeOK, LimitsKept, Filled, Capped

LEMMA LimiterNextInv == LimitInv /\ [LimitNext]_limitVars => LimitInv'
<1> SUFFICES ASSUME LimitInv, [LimitNext]_limitVars PROVE LimitInv'
  OBVIOUS
<1>1. CASE FillBuckets
  BY <1>1, FillInv
<1>2. CASE DropStale
  BY <1>2, DropInv
<1>3. ASSUME NEW q \in InFlight, Arrive(q) \/ Served(q) PROVE LimitInv'
  BY <1>3, LimitedRequestInv
<1>4. ASSUME NEW q \in InFlight, AskAddress(q) PROVE LimitInv'
  <2>1. inflight[q].ip \in Limited
    BY DEF LimitInv, LimitTypeOK
  <2> QED BY <1>4, <2>1, AllowInv DEF AskAddress
<1>5. ASSUME NEW q \in InFlight, AskOrg(q) PROVE LimitInv'
  <2>1. inflight[q].org \in Limited
    BY <1>5 DEF LimitInv, LimitTypeOK, KnowsItsOrg, AskOrg
  <2> QED BY <1>5, <2>1, AllowInv DEF AskOrg
<1>6. CASE UNCHANGED limitVars
  BY <1>6 DEF limitVars, LimitInv, LimitTypeOK, LimitsKept, KnowsItsOrg, Filled, Capped
<1> QED BY <1>1, <1>2, <1>3, <1>4, <1>5, <1>6 DEF LimitNext

-----------------------------------------------------------------------------
(* Every variable of RateLimiter keeps its type.                            *)
THEOREM LimiterTypes == LimitSpec => []LimitTypeOK
<1>1. LimitInv => LimitTypeOK
  BY DEF LimitInv
<1> QED BY LimiterInitInv, LimiterNextInv, <1>1, PTL DEF LimitSpec

(* Whatever the bursts, the rates and the interval after which entries are   *)
(* dropped, if that is long enough for a bucket to fill, a client may spend   *)
(* at any time what a bucket that is never dropped would let it spend.       *)
THEOREM CleanupInvisible == LimitSpec => []LimitsKept
<1>1. LimitInv => LimitsKept
  BY DEF LimitInv
<1> QED BY LimiterInitInv, LimiterNextInv, <1>1, PTL DEF LimitSpec

-----------------------------------------------------------------------------
(* Intake.                                                                  *)

IssuesOrNone == Issues \cup {Quiet.issue}
OrgsOrNone == Workspaces \cup {Quiet.org}
States == {"Backlog", "Todo", "InProgress", "Done"}
HookRows == [at : {"idle", "match", "dedup", "create"}, issue : IssuesOrNone, org : OrgsOrNone,
             base : Nat, sure : BOOLEAN]
PollerRows == [at : {"idle", "next", "check", "create"}, issue : IssuesOrNone, org : OrgsOrNone,
               base : Nat, sure : BOOLEAN, todo : SUBSET Workspaces, found : SUBSET Issues]
TaskRows == [issue : IssuesOrNone, org : OrgsOrNone,
             status : {"pending", "running", "complete", "failed"}, base : Nat, sure : BOOLEAN]

IntakeShape ==
  /\ issue \in [Issues -> [labelled : BOOLEAN, state : States]]
  /\ connected \subseteq Workspaces /\ hooked \subseteq Workspaces /\ mail \subseteq IssuesOrNone
  /\ request \in [Hooks -> HookRows] /\ poller \in PollerRows
  /\ tasks \in Seq(TaskRows)
  /\ reports \subseteq [issue : IssuesOrNone, state : {"InProgress", "Done"}]

\* the issue had no task when the check before this creation was made
Checked(w) ==
  w.sure => /\ w.base <= Len(tasks)
            /\ \A j \in 1..w.base : ~(tasks[j].issue = w.issue /\ tasks[j].org = w.org)

CreatorsInv ==
  /\ \A h \in Hooks : request[h].at = "create" => Checked(request[h])
  /\ poller.at = "create" => Checked(poller)

\* a task's launch is going on, or was lost, exactly while it is pending
LaunchInv ==
  /\ launching \cup forgotten \subseteq DOMAIN tasks /\ launching \cap forgotten = {}
  /\ PendingIsLaunched

TasksInv == DuplicatesAreRaces /\ LaunchInv

IntakeInv == IntakeShape /\ CreatorsInv /\ TasksInv

LEMMA QuietRow == Quiet \in HookRows /\ Quiet.at = "idle"
  BY DEF Quiet, HookRows, IssuesOrNone, OrgsOrNone

LEMMA RestingRow == Resting \in PollerRows /\ Resting.at = "idle"
  BY DEF Resting, PollerRows, IssuesOrNone, OrgsOrNone

LEMMA IntakeInitInv == IntakeInit => IntakeInv
<1> SUFFICES ASSUME IntakeInit PROVE IntakeInv
  OBVIOUS
<1>1. IntakeShape
  BY QuietRow, RestingRow DEF IntakeInit, IntakeShape, States
<1>2. CreatorsInv
  BY QuietRow, RestingRow DEF IntakeInit, CreatorsInv
<1>3. TasksInv
  BY DEF IntakeInit, TasksInv, DuplicatesAreRaces, LaunchInv, PendingIsLaunched
<1> QED BY <1>1, <1>2, <1>3 DEF IntakeInv

\* what is checked depends on the issues and organisations of the tasks alone
LEMMA StillChecked ==
  ASSUME IntakeShape, tasks' \in Seq(TaskRows), Len(tasks) <= Len(tasks'),
         \A j \in DOMAIN tasks : tasks'[j].issue = tasks[j].issue /\ tasks'[j].org = tasks[j].org,
         NEW w, w.base \in Nat, Checked(w)
  PROVE  w.sure => /\ w.base <= Len(tasks')
                   /\ \A j \in 1..w.base : ~(tasks'[j].issue = w.issue /\ tasks'[j].org = w.org)
  BY DEF Checked, IntakeShape

LEMMA ChecksLast ==
  ASSUME IntakeShape, CreatorsInv, tasks' \in Seq(TaskRows), Len(tasks) <= Len(tasks'),
         \A j \in DOMAIN tasks : tasks'[j].issue = tasks[j].issue /\ tasks'[j].org = tasks[j].org
  PROVE  /\ \A h \in Hooks :
              request'[h] = request[h] => (request'[h].at = "create" => Checked(request[h])')
         /\ poller' = poller => (poller'.at = "create" => Checked(poller)')
<1>1. ASSUME NEW h \in Hooks, request'[h] = request[h], request[h].at = "create"
      PROVE  Checked(request[h])'
  <2>1. request[h].base \in Nat /\ Checked(request[h])
    BY <1>1 DEF CreatorsInv, IntakeShape, HookRows
  <2> QED BY <1>1, <2>1, StillChecked DEF Checked
<1>2. ASSUME poller' = poller, poller.at = "create" PROVE Checked(poller)'
  <2>1. poller.base \in Nat /\ Checked(poller)
    BY <1>2 DEF CreatorsInv, IntakeShape, PollerRows
  <2> QED BY <1>2, <2>1, StillChecked DEF Checked
<1> QED BY <1>1, <1>2

LEMMA SureOfNone ==
  ASSUME IntakeShape, NEW i, NEW o, ~Known(i, o)
  PROVE  \A j \in 1..Len(tasks) : ~(tasks[j].issue = i /\ tasks[j].org = o)
  BY DEF Known, TasksOf, IntakeShape

\* the creation of a task
LEMMA InsertInv ==
  ASSUME IntakeShape, TasksInv, UNCHANGED forgotten,
         NEW w, w.issue \in IssuesOrNone, w.org \in OrgsOrNone, w.base \in Nat, w.sure \in BOOLEAN,
         Checked(w), Insert(w)
  PROVE  /\ tasks' \in Seq(TaskRows) /\ TasksInv' /\ Len(tasks) <= Len(tasks')
         /\ \A j \in DOMAIN tasks : tasks'[j] = tasks[j]
<1> DEFINE t == [issue |-> w.issue, org |-> w.org, status |-> "pending", base |-> w.base,
                 sure |-> w.sure]
<1>1. t \in TaskRows
  BY DEF TaskRows
<1>2. /\ t.issue = w.issue /\ t.org = w.org /\ t.status = "pending" /\ t.base = w.base
      /\ t.sure = w.sure
  OBVIOUS
<1>3. tasks' = Append(tasks, t) /\ launching' = launching \cup {Len(tasks) + 1}
  BY DEF Insert
<1> HIDE DEF t
<1>4. /\ tasks' \in Seq(TaskRows) /\ Len(tasks') = Len(tasks) + 1 /\ Len(tasks) \in Nat
      /\ tasks'[Len(tasks) + 1] = t
      /\ \A j \in 1..Len(tasks) : tasks'[j] = tasks[j]
      /\ DOMAIN tasks = 1..Len(tasks) /\ DOMAIN tasks' = 1..(Len(tasks) + 1)
  BY <1>1, <1>3 DEF IntakeShape
<1>5. DuplicatesAreRaces'
  <2> SUFFICES ASSUME NEW k \in DOMAIN tasks', NEW j \in DOMAIN tasks',
                      tasks'[j].issue = tasks'[k].issue, tasks'[j].org = tasks'[k].org,
                      j < k, tasks'[k].sure
               PROVE  tasks'[k].base < j
    BY DEF DuplicatesAreRaces, TasksOf
  <2>1. CASE k \in 1..Len(tasks)
    BY <2>1, <1>4 DEF TasksInv, DuplicatesAreRaces, TasksOf
  <2>2. CASE k = Len(tasks) + 1
    BY <2>2, <1>2, <1>4 DEF Checked
  <2> QED BY <2>1, <2>2, <1>4
<1>6. LaunchInv'
  BY <1>2, <1>3, <1>4 DEF TasksInv, LaunchInv, PendingIsLaunched
<1> QED BY <1>4, <1>5, <1>6 DEF TasksInv

\* a step of a task's status
LEMMA StatusInv ==
  ASSUME IntakeShape, CreatorsInv, TasksInv, NEW k \in DOMAIN tasks,
         NEW s \in {"running", "complete", "failed"},
         tasks' = [tasks EXCEPT ![k].status = s],
         launching' = launching \ {k}, UNCHANGED forgotten,
         k \in launching \/ tasks[k].status # "pending",
         UNCHANGED <<request, poller>>
  PROVE  tasks' \in Seq(TaskRows) /\ CreatorsInv' /\ TasksInv'
<1> DEFINE t == [tasks[k] EXCEPT !.status = s]
<1>1. tasks[k] \in TaskRows /\ DOMAIN tasks = 1..Len(tasks) /\ Len(tasks) \in Nat
  BY DEF IntakeShape
<1>2. /\ t \in TaskRows /\ t.status = s /\ t.issue = tasks[k].issue /\ t.org = tasks[k].org
      /\ t.base = tasks[k].base /\ t.sure = tasks[k].sure
  BY <1>1 DEF TaskRows
<1>3. tasks' = [tasks EXCEPT ![k] = t]
  BY <1>1 DEF IntakeShape
<1> HIDE DEF t
<1>4. /\ tasks' \in Seq(TaskRows) /\ Len(tasks') = Len(tasks) /\ DOMAIN tasks' = DOMAIN tasks
      /\ tasks'[k] = t /\ \A j \in DOMAIN tasks \ {k} : tasks'[j] = tasks[j]
  BY <1>1, <1>2, <1>3 DEF IntakeShape
<1>5. \A j \in DOMAIN tasks :
        /\ tasks'[j].issue = tasks[j].issue /\ tasks'[j].org = tasks[j].org
        /\ tasks'[j].base = tasks[j].base /\ tasks'[j].sure = tasks[j].sure
  BY <1>2, <1>4
<1>6. CreatorsInv'
  BY <1>1, <1>4, <1>5, ChecksLast DEF CreatorsInv
<1>7. DuplicatesAreRaces'
  BY <1>4, <1>5 DEF TasksInv, DuplicatesAreRaces, TasksOf
<1>8. LaunchInv'
  BY <1>2, <1>4 DEF TasksInv, LaunchInv, PendingIsLaunched
<1> QED BY <1>4, <1>6, <1>7, <1>8 DEF TasksInv

\* a step that leaves the tasks and those who create them alone
LEMMA AsideInv ==
  ASSUME IntakeInv, UNCHANGED <<tasks, launching, forgotten>>, IntakeShape', CreatorsInv'
  PROVE  IntakeInv'
  BY DEF IntakeInv, TasksInv, DuplicatesAreRaces, TasksOf, LaunchInv, PendingIsLaunched

LEMMA LinearStepInv ==
  ASSUME IntakeInv,
         \/ \E o \in Workspaces : Connect(o) \/ Disconnect(o)
         \/ \E i \in Issues : Edit(i)
         \/ \E r \in reports : UpdateIssueState(r)
  PROVE  IntakeInv'
<1> USE DEF IntakeInv
<1>1. ASSUME NEW o \in Workspaces, Connect(o) \/ Disconnect(o) PROVE IntakeShape'
  BY <1>1 DEF Connect, Disconnect, IntakeShape
<1>2. ASSUME NEW i \in IssuesOrNone, NEW x, i \in Issues => x \in [labelled : BOOLEAN, state : States],
             Change(i, x)
      PROVE  /\ issue' \in [Issues -> [labelled : BOOLEAN, state : States]]
             /\ mail' \subseteq IssuesOrNone
  BY <1>2 DEF Change, IntakeShape
<1>3. ASSUME NEW i \in Issues, Edit(i) PROVE IntakeShape'
  <2>1. PICK x : /\ x \in {[issue[i] EXCEPT !.labelled = ~@], [issue[i] EXCEPT !.state = "Todo"],
                            [issue[i] EXCEPT !.state = "Backlog"]}
                 /\ Change(i, x)
    BY <1>3 DEF Edit
  <2>2. issue[i] \in [labelled : BOOLEAN, state : States]
    BY DEF IntakeShape
  <2>3. x \in [labelled : BOOLEAN, state : States]
    BY <2>1, <2>2 DEF States
  <2>4. i \in IssuesOrNone
    BY DEF IssuesOrNone
  <2> QED BY <1>3, <1>2, <2>1, <2>3, <2>4 DEF Edit, IntakeShape
<1>4. ASSUME NEW r \in reports, UpdateIssueState(r) PROVE IntakeShape'
  <2>1. r.issue \in IssuesOrNone /\ r.state \in States
    BY DEF IntakeShape, States
  <2>2. reports' \subseteq reports
    BY <1>4 DEF UpdateIssueState
  <2>3. CASE Change(r.issue, [issue[r.issue] EXCEPT !.state = r.state])
    <3>1. r.issue \in Issues =>
            [issue[r.issue] EXCEPT !.state = r.state] \in [labelled : BOOLEAN, state : States]
      BY <2>1 DEF IntakeShape
    <3>2. /\ issue' \in [Issues -> [labelled : BOOLEAN, state : States]]
          /\ mail' \subseteq IssuesOrNone
      BY <1>2, <2>1, <2>3, <3>1
    <3> QED BY <1>4, <2>2, <3>2 DEF UpdateIssueState, IntakeShape
  <2>4. CASE UNCHANGED <<issue, mail>>
    BY <1>4, <2>2, <2>4 DEF UpdateIssueState, IntakeShape
  <2> QED BY <1>4, <2>3, <2>4 DEF UpdateIssueState
<1>5. UNCHANGED <<tasks, launching, forgotten, request, poller>>
  BY DEF Connect, Disconnect, Edit, UpdateIssueState
<1>6. CreatorsInv'
  BY <1>5 DEF CreatorsInv, Checked
<1> QED BY <1>1, <1>3, <1>4, <1>5, <1>6, AsideInv

LEMMA HookStepInv ==
  ASSUME IntakeInv, NEW h \in Hooks,
         Match(h) \/ Dedup(h) \/ HookCreates(h) \/ \E i \in mail : HookArrives(h, i)
  PROVE  IntakeInv'
<1> DEFINE r == request[h]
<1>1. r \in HookRows /\ (r.at = "create" => Checked(r))
  BY DEF IntakeInv, IntakeShape, CreatorsInv
\* a step that moves this request to another row and creates nothing
<1>2. ASSUME NEW q \in HookRows, q.at = "create" => Checked(q),
             request' = [request EXCEPT ![h] = q], mail' \subseteq mail,
             UNCHANGED <<linear, poller, tasks, launching, reports, forgotten>>
      PROVE  IntakeInv'
  <2>1. IntakeShape'
    BY <1>2 DEF IntakeInv, IntakeShape, linear
  <2>2. CreatorsInv'
    BY <1>2 DEF IntakeInv, IntakeShape, CreatorsInv, Checked
  <2> QED BY <1>2, <2>1, <2>2, AsideInv
<1>3. ASSUME NEW i \in mail, HookArrives(h, i) PROVE IntakeInv'
  <2> DEFINE q == [Quiet EXCEPT !.at = "match", !.issue = i]
  <2>1. q \in HookRows /\ q.at = "match"
    BY QuietRow DEF HookRows, IntakeInv, IntakeShape
  <2>2. request' = [request EXCEPT ![h] = q]
    BY <1>3 DEF HookArrives
  <2> HIDE DEF q
  <2> QED BY <1>2, <1>3, <2>1, <2>2 DEF HookArrives
<1>4. CASE Match(h)
  <2>1. CASE request' = [request EXCEPT ![h] = Quiet]
    BY <1>2, <1>4, <2>1, QuietRow DEF Match
  <2>2. ASSUME NEW o \in connected, request' = [request EXCEPT ![h].at = "dedup", ![h].org = o]
        PROVE  IntakeInv'
    <3> DEFINE q == [r EXCEPT !.at = "dedup", !.org = o]
    <3>1. q \in HookRows /\ q.at = "dedup"
      BY <1>1 DEF HookRows, IntakeInv, IntakeShape, OrgsOrNone
    <3>2. request' = [request EXCEPT ![h] = q]
      BY <2>2 DEF IntakeInv, IntakeShape
    <3> HIDE DEF q
    <3> QED BY <1>2, <1>4, <3>1, <3>2 DEF Match
  <2> QED BY <1>4, <2>1, <2>2 DEF Match
<1>5. CASE Dedup(h)
  <2>1. CASE request' = [request EXCEPT ![h] = Quiet]
    BY <1>2, <1>5, <2>1, QuietRow DEF Dedup
  <2>2. CASE /\ ~Known(r.issue, r.org)
             /\ request' = [request EXCEPT ![h] = [r EXCEPT !.at = "create", !.base = Len(tasks)]]
    <3> DEFINE q == [r EXCEPT !.at = "create", !.base = Len(tasks)]
    <3>1. Len(tasks) \in Nat
      BY DEF IntakeInv, IntakeShape
    <3>2. q \in HookRows /\ q.issue = r.issue /\ q.org = r.org /\ q.base = Len(tasks)
      BY <1>1, <3>1 DEF HookRows
    <3>3. request' = [request EXCEPT ![h] = q]
      BY <2>2
    <3> HIDE DEF q
    <3>4. Checked(q)
      BY <2>2, <3>1, <3>2, SureOfNone DEF Checked, IntakeInv
    <3> QED BY <1>2, <1>5, <3>2, <3>3, <3>4 DEF Dedup
  <2>3. CASE request' = [request EXCEPT ![h] = [r EXCEPT !.at = "create", !.sure = FALSE]]
    <3> DEFINE q == [r EXCEPT !.at = "create", !.sure = FALSE]
    <3>1. q \in HookRows /\ ~q.sure
      BY <1>1 DEF HookRows
    <3>2. request' = [request EXCEPT ![h] = q]
      BY <2>3
    <3> HIDE DEF q
    <3> QED BY <1>2, <1>5, <3>1, <3>2 DEF Dedup, Checked
  <2> QED BY <1>5, <2>1, <2>2, <2>3 DEF Dedup
<1>6. CASE HookCreates(h)
  <2>1. request' = [request EXCEPT ![h] = Quiet]
        /\ UNCHANGED <<linear, mail, poller, reports, forgotten>>
    BY <1>6 DEF HookCreates
  <2>2. CASE UNCHANGED <<tasks, launching>>
    BY <1>2, <2>1, <2>2, QuietRow
  <2>3. CASE Insert(r)
    <3>1. r.issue \in IssuesOrNone /\ r.org \in OrgsOrNone /\ r.base \in Nat /\ r.sure \in BOOLEAN
          /\ Checked(r)
      BY <1>1, <1>6 DEF HookCreates, HookRows
    <3> HIDE DEF r
    <3>2. /\ tasks' \in Seq(TaskRows) /\ TasksInv' /\ Len(tasks) <= Len(tasks')
          /\ \A j \in DOMAIN tasks : tasks'[j] = tasks[j]
      BY <2>1, <2>3, <3>1, InsertInv DEF IntakeInv
    <3>3. IntakeShape'
      BY <2>1, <3>2, QuietRow DEF IntakeInv, IntakeShape, linear
    <3>4. CreatorsInv'
      BY <2>1, <3>2, QuietRow, ChecksLast DEF IntakeInv, IntakeShape, CreatorsInv
    <3> QED BY <3>2, <3>3, <3>4 DEF IntakeInv
  <2> QED BY <1>6, <2>2, <2>3 DEF HookCreates
<1> QED BY <1>3, <1>4, <1>5, <1>6

LEMMA PollerStepInv == ASSUME IntakeInv, PollerStep PROVE IntakeInv'
<1> DEFINE r == poller
<1>1. r \in PollerRows /\ (r.at = "create" => Checked(r))
  BY DEF IntakeInv, IntakeShape, CreatorsInv
\* a step that moves the poller and creates nothing
<1>2. ASSUME NEW q \in PollerRows, q.at = "create" => Checked(q), poller' = q,
             UNCHANGED <<linear, mail, request, tasks, launching, reports, forgotten>>
      PROVE  IntakeInv'
  <2>1. IntakeShape'
    BY <1>2 DEF IntakeInv, IntakeShape, linear
  <2>2. CreatorsInv'
    BY <1>2 DEF IntakeInv, IntakeShape, CreatorsInv, Checked
  <2> QED BY <1>2, <2>1, <2>2, AsideInv
<1>3. CASE Poll
  <2> DEFINE q == [Resting EXCEPT !.at = "next", !.todo = connected]
  <2>1. q \in PollerRows /\ q.at = "next"
    BY RestingRow DEF PollerRows, IntakeInv, IntakeShape
  <2>2. poller' = q
    BY <1>3 DEF Poll
  <2> HIDE DEF q
  <2> QED BY <1>2, <1>3, <2>1, <2>2 DEF Poll
<1>4. CASE PollEnds
  BY <1>2, <1>4, RestingRow DEF PollEnds
<1>5. ASSUME NEW o \in Workspaces, FetchLabeledIssues(o) PROVE IntakeInv'
  <2> DEFINE found == {i \in Issues : Home[i] = o /\ Eligible(issue[i])}
  <2>1. ASSUME NEW at \in {"next", "check"}, NEW f \in SUBSET Issues,
               poller' = [poller EXCEPT !.todo = @ \ {o}, !.org = o, !.found = f, !.at = at]
        PROVE  IntakeInv'
    <3> DEFINE q == [poller EXCEPT !.todo = @ \ {o}, !.org = o, !.found = f, !.at = at]
    <3>1. q \in PollerRows /\ q.at = at
      BY <1>1 DEF PollerRows, OrgsOrNone
    <3>2. poller' = q
      BY <2>1
    <3> HIDE DEF q
    <3> QED BY <1>2, <1>5, <3>1, <3>2 DEF FetchLabeledIssues
  <2>2. CASE poller' = [poller EXCEPT !.todo = @ \ {o}]
    <3> DEFINE q == [poller EXCEPT !.todo = @ \ {o}]
    <3>1. q \in PollerRows /\ q.at = "next"
      BY <1>1, <1>5 DEF PollerRows, FetchLabeledIssues
    <3>2. poller' = q
      BY <2>2
    <3> HIDE DEF q
    <3> QED BY <1>2, <1>5, <3>1, <3>2 DEF FetchLabeledIssues
  <2>3. found \in SUBSET Issues
    OBVIOUS
  <2> HIDE DEF found
  <2>4. CASE poller' = [poller EXCEPT !.todo = @ \ {o}, !.org = o, !.found = found,
                                      !.at = IF found = {} THEN "next" ELSE "check"]
    <3>1. CASE found = {}
      BY <2>1, <2>3, <2>4, <3>1
    <3>2. CASE found # {}
      BY <2>1, <2>3, <2>4, <3>2
    <3> QED BY <3>1, <3>2
  <2> QED BY <1>5, <2>2, <2>4 DEF FetchLabeledIssues, found
<1>6. ASSUME NEW i PROVE Passed(i) \in PollerRows /\ Passed(i).at \in {"next", "check"}
  BY <1>1 DEF Passed, PollerRows
<1>7. ASSUME NEW i \in Issues, PollerChecks(i) PROVE IntakeInv'
  <2>1. CASE poller' = Passed(i)
    BY <1>2, <1>6, <1>7, <2>1 DEF PollerChecks
  <2>2. CASE /\ ~Known(i, poller.org)
             /\ poller' = [poller EXCEPT !.at = "create", !.issue = i, !.base = Len(tasks)]
    <3> DEFINE q == [poller EXCEPT !.at = "create", !.issue = i, !.base = Len(tasks)]
    <3>1. Len(tasks) \in Nat
      BY DEF IntakeInv, IntakeShape
    <3>2. q \in PollerRows /\ q.issue = i /\ q.org = poller.org /\ q.base = Len(tasks)
      BY <1>1, <3>1 DEF PollerRows, IssuesOrNone
    <3>3. poller' = q
      BY <2>2
    <3> HIDE DEF q
    <3>4. Checked(q)
      BY <2>2, <3>1, <3>2, SureOfNone DEF Checked, IntakeInv
    <3> QED BY <1>2, <1>7, <3>2, <3>3, <3>4 DEF PollerChecks
  <2>3. CASE poller' = [poller EXCEPT !.at = "create", !.issue = i, !.sure = FALSE]
    <3> DEFINE q == [poller EXCEPT !.at = "create", !.issue = i, !.sure = FALSE]
    <3>1. q \in PollerRows /\ ~q.sure
      BY <1>1 DEF PollerRows, IssuesOrNone
    <3>2. poller' = q
      BY <2>3
    <3> HIDE DEF q
    <3> QED BY <1>2, <1>7, <3>1, <3>2 DEF PollerChecks, Checked
  <2> QED BY <1>7, <2>1, <2>2, <2>3 DEF PollerChecks
<1>8. CASE PollerCreates
  <2>1. poller' \in PollerRows /\ poller'.at \in {"next", "check"}
        /\ UNCHANGED <<linear, mail, request, reports, forgotten>>
    BY <1>6, <1>8 DEF PollerCreates
  <2>2. CASE UNCHANGED <<tasks, launching>>
    BY <1>2, <2>1, <2>2
  <2>3. CASE Insert(r)
    <3>1. r.issue \in IssuesOrNone /\ r.org \in OrgsOrNone /\ r.base \in Nat /\ r.sure \in BOOLEAN
          /\ Checked(r)
      BY <1>1, <1>8 DEF PollerCreates, PollerRows
    <3> HIDE DEF r
    <3>2. /\ tasks' \in Seq(TaskRows) /\ TasksInv' /\ Len(tasks) <= Len(tasks')
          /\ \A j \in DOMAIN tasks : tasks'[j] = tasks[j]
      BY <2>1, <2>3, <3>1, InsertInv DEF IntakeInv
    <3>3. IntakeShape'
      BY <2>1, <3>2 DEF IntakeInv, IntakeShape, linear
    <3>4. CreatorsInv'
      BY <2>1, <3>2, ChecksLast DEF IntakeInv, IntakeShape, CreatorsInv
    <3> QED BY <3>2, <3>3, <3>4 DEF IntakeInv
  <2> QED BY <1>8, <2>2, <2>3 DEF PollerCreates
<1> QED BY <1>3, <1>4, <1>5, <1>7, <1>8 DEF PollerStep

LEMMA TaskStepInv ==
  ASSUME IntakeInv, NEW k \in DOMAIN tasks, Launch(k) \/ TaskEnds(k)
  PROVE  IntakeInv'
<1>1. PICK s \in {"running", "complete", "failed"} : tasks' = [tasks EXCEPT ![k].status = s]
  BY DEF Launch, TaskEnds
<1>2. tasks[k] \in TaskRows
  BY DEF IntakeInv, IntakeShape
<1>3. /\ k \in launching \/ tasks[k].status # "pending"
      /\ UNCHANGED <<linear, mail, request, poller, forgotten>>
  BY DEF Launch, TaskEnds
<1>4. launching' = launching \ {k}
  BY <1>2 DEF Launch, TaskEnds, IntakeInv, TasksInv, LaunchInv, PendingIsLaunched
<1>5. tasks' \in Seq(TaskRows) /\ CreatorsInv' /\ TasksInv'
  BY <1>1, <1>3, <1>4, StatusInv DEF IntakeInv
<1>6. reports' \subseteq [issue : IssuesOrNone, state : {"InProgress", "Done"}]
  BY <1>2 DEF Launch, TaskEnds, TaskRows, IntakeInv, IntakeShape
<1>7. IntakeShape'
  BY <1>3, <1>5, <1>6 DEF IntakeInv, IntakeShape, linear
<1> QED BY <1>5, <1>7 DEF IntakeInv

LEMMA RestartIntakeInv == ASSUME IntakeInv, RestartIntake PROVE IntakeInv'
<1>1. IntakeShape'
  BY QuietRow, RestingRow DEF RestartIntake, IntakeInv, IntakeShape, linear
<1>2. CreatorsInv'
  BY QuietRow, RestingRow DEF RestartIntake, CreatorsInv
<1>3. TasksInv'
  BY DEF RestartIntake, IntakeInv, TasksInv, DuplicatesAreRaces, TasksOf, LaunchInv,
         PendingIsLaunched
<1> QED BY <1>1, <1>2, <1>3 DEF IntakeInv

LEMMA IntakeNextInv == IntakeInv /\ [IntakeNext]_intakeVars => IntakeInv'
<1> SUFFICES ASSUME IntakeInv, [IntakeNext]_intakeVars PROVE IntakeInv'
  OBVIOUS
<1>1. CASE UNCHANGED intakeVars
  <2>1. IntakeShape' /\ CreatorsInv'
    BY <1>1 DEF intakeVars, IntakeInv, IntakeShape, CreatorsInv, Checked
  <2> QED BY <1>1, <2>1, AsideInv DEF intakeVars
<1> QED
  BY <1>1, LinearStepInv, HookStepInv, PollerStepInv, TaskStepInv, RestartIntakeInv
  DEF IntakeNext

(* Every variable of Intake keeps its type. *)
THEOREM IntakeTypes == IntakeSpec => []IntakeTypeOK
<1>1. IntakeInv => IntakeTypeOK
  <2> SUFFICES ASSUME IntakeInv PROVE IntakeTypeOK
    OBVIOUS
  <2>1. \A i \in Issues : issue[i].state \in States
    BY DEF IntakeInv, IntakeShape
  <2>2. \A k \in DOMAIN tasks : tasks[k] \in TaskRows
    BY DEF IntakeInv, IntakeShape
  <2> QED
    BY <2>1, <2>2
    DEF IntakeInv, IntakeShape, States, TaskRows, TasksInv, LaunchInv, IntakeTypeOK
<1> QED BY IntakeInitInv, IntakeNextInv, <1>1, PTL DEF IntakeSpec

(* An organisation has a second task for an issue only from checks that were   *)
(* both made before the other task was there, or met an error, however many    *)
(* webhook requests there are and whatever is delivered twice or fails.        *)
THEOREM SecondTasksAreRaces == IntakeSpec => []DuplicatesAreRaces
<1>1. IntakeInv => DuplicatesAreRaces
  BY DEF IntakeInv, TasksInv
<1> QED BY IntakeInitInv, IntakeNextInv, <1>1, PTL DEF IntakeSpec

(* A task is pending exactly while its launch goroutine runs, or a restart     *)
(* took that goroutine.                                                        *)
THEOREM WaitingTasksHaveLaunches == IntakeSpec => []PendingIsLaunched
<1>1. IntakeInv => PendingIsLaunched
  BY DEF IntakeInv, TasksInv, LaunchInv
<1> QED BY IntakeInitInv, IntakeNextInv, <1>1, PTL DEF IntakeSpec

-----------------------------------------------------------------------------
(* BranchContexts.                                                          *)

Holdings == {S \in SUBSET Learned : OneValue(S)}
RowsOf == [exists : BOOLEAN, knows : Holdings, sha : Repos \cup {NoSha}]
Ops == {"idle", "fork", "forkInsert", "readHead", "readBase", "writeBase", "upsertBase",
        "clean", "save"}
Jobs == [op : Ops, repo : Repos \cup {Idle.repo}, from : Branches, to : Branches,
         read : Holdings, head : Holdings, done : 0 .. MaxJobs]
Befores == [whole : BOOLEAN, mine : Holdings, theirs : Holdings]

ContextShape ==
  /\ row \in [Repos -> [Branches -> RowsOf]]
  /\ job \in [Handlers -> Jobs]
  /\ known \subseteq Learned /\ branchErrors \in 0 .. MaxErrors
  /\ before \in [Handlers -> Befores] /\ \A h \in Handlers : before[h].whole => job[h].op # "idle"

\* what rows hold and handlers have read has been learned; no row, no knowledge
KnownInv ==
  /\ \A r \in Repos, b \in Branches :
       row[r][b].knows \subseteq known /\ (~row[r][b].exists => row[r][b] = NoRow)
  /\ \A h \in Handlers : /\ job[h].read \cup job[h].head \subseteq known
                          /\ before[h].mine \cup before[h].theirs \subseteq known

\* where a handler works
PlaceInv ==
  \A h \in Handlers :
    /\ job[h].op # "idle" => job[h].repo \in Repos /\ job[h].done < MaxJobs
    /\ job[h].op \in {"fork", "forkInsert", "readHead", "readBase", "writeBase", "upsertBase",
                      "clean"} => job[h].from # job[h].to
    /\ job[h].op = "save" => job[h].from = job[h].to

\* what an undisturbed handler j knows of its two rows: until it has merged they hold
\* what they held at its beginning, and what it has read of them is what they hold
UpToDate(j, held, from, to) ==
  /\ j.op # "clean" => held.mine = from.knows /\ held.theirs = to.knows
  /\ j.op = "clean" => Keeps("clean", held, to.knows)
  /\ j.op \in {"readBase", "writeBase", "upsertBase"} => j.head = from.knows
  /\ j.op = "writeBase" => to.exists /\ j.read = to.knows
  /\ j.op = "upsertBase" => to.knows = {}
  /\ j.op = "save" => j.read = to.knows

FreshInv ==
  \A h \in Handlers :
    before[h].whole =>
      UpToDate(job[h], before[h], row[job[h].repo][job[h].from], row[job[h].repo][job[h].to])

ContextInv == ContextShape /\ KnownInv /\ PlaceInv /\ FreshInv

LEMMA NothingHeld == {} \in Holdings
  BY DEF Holdings, OneValue

LEMMA WithHolds ==
  ASSUME NEW A \in Holdings, NEW B \in Holdings
  PROVE  With(A, B) \in Holdings /\ With(A, B) \subseteq A \cup B
  BY DEF Holdings, OneValue, With

LEMMA OneHeld == ASSUME NEW k \in Learned PROVE {k} \in Holdings
  BY DEF Holdings, OneValue

LEMMA IdleJob ==
  /\ Idle \in Jobs /\ Idle.op = "idle"
  /\ Idle.read \cup Idle.head = {}
  /\ \A n \in 0 .. MaxJobs : /\ [Idle EXCEPT !.done = n] \in Jobs
                            /\ [Idle EXCEPT !.done = n].op = "idle"
                            /\ [Idle EXCEPT !.done = n].read \cup [Idle EXCEPT !.done = n].head = {}
<1> DEFINE w == CHOOSE r \in Repos : TRUE
<1>1. Idle = [op |-> "idle", repo |-> w, from |-> Default,
              to |-> Default, read |-> {}, head |-> {}, done |-> 0]
  BY DEF Idle
<1> HIDE DEF w
<1>2. Idle \in Jobs
  <2>1. w = Idle.repo
    BY <1>1
  <2> QED BY <1>1, <2>1, NothingHeld, ContextAssumption DEF Jobs, Ops
<1>3. Idle.op = "idle" /\ Idle.read = {} /\ Idle.head = {}
  BY <1>1
<1> QED BY <1>2, <1>3 DEF Jobs, Ops

LEMMA ForgottenIs == Forgotten \in Befores /\ ~Forgotten.whole /\ Forgotten.mine \cup Forgotten.theirs = {}
<1>1. Forgotten.whole = FALSE /\ Forgotten.mine = {} /\ Forgotten.theirs = {}
  BY DEF Forgotten
<1>2. Forgotten \in Befores
  BY NothingHeld DEF Forgotten, Befores
<1> QED BY <1>1, <1>2

LEMMA NoRowIsRow == NoRow \in RowsOf /\ NoRow.knows = {} /\ ~NoRow.exists
  BY NothingHeld DEF NoRow, RowsOf

LEMMA ContextInitInv == ContextInit => ContextInv
<1> SUFFICES ASSUME ContextInit PROVE ContextInv
  OBVIOUS
<1>1. ContextShape
  BY IdleJob, NoRowIsRow, ForgottenIs, ContextAssumption DEF ContextInit, ContextShape
<1>2. KnownInv
  BY IdleJob, NoRowIsRow, ForgottenIs DEF ContextInit, KnownInv
<1>3. PlaceInv /\ FreshInv
  BY IdleJob, ForgottenIs DEF ContextInit, PlaceInv, FreshInv
<1> QED BY <1>1, <1>2, <1>3 DEF ContextInv

-----------------------------------------------------------------------------
\* Steps of others than handlers: the jobs stay, what is learned grows, and the
\* rows stay rows.
RowsStay ==
  /\ row' \in [Repos -> [Branches -> RowsOf]] /\ known' \subseteq Learned /\ known \subseteq known'
  /\ \A r \in Repos, b \in Branches :
       row'[r][b].knows \subseteq known' /\ (~row'[r][b].exists => row'[r][b] = NoRow)

\* a handler is undisturbed after a step that is not its own only if its rows are the same
LEMMA UndisturbedRows ==
  ASSUME ContextInv, Notice, NEW h \in Handlers, job'[h] = job[h], before'[h].whole
  PROVE  /\ before'[h] = before[h] /\ job[h].op # "idle"
         /\ row'[job[h].repo][job[h].from] = row[job[h].repo][job[h].from]
         /\ row'[job[h].repo][job[h].to] = row[job[h].repo][job[h].to]
  BY ForgottenIs DEF Notice, Disturbs

LEMMA OthersFresh ==
  ASSUME ContextInv, Notice, NEW h \in Handlers, job'[h] = job[h], before'[h].whole
  PROVE  UpToDate(job'[h], before'[h], row'[job'[h].repo][job'[h].from], row'[job'[h].repo][job'[h].to])
  BY UndisturbedRows DEF ContextInv, FreshInv

\* a step of its own leaves an undisturbed handler what it held, or begins with its rows
LEMMA NoticeOwn ==
  ASSUME ContextInv, Notice, NEW h \in Handlers, before'[h].whole
  PROVE  /\ job'[h].op # "idle"
         /\ job[h].op # "idle" => before'[h] = before[h]
         /\ job[h].op = "idle" =>
              before'[h] = [whole |-> TRUE, mine |-> row[job'[h].repo][job'[h].from].knows,
                            theirs |-> row[job'[h].repo][job'[h].to].knows]
  BY ForgottenIs DEF Notice

JobsPlaced ==
  \A h \in Handlers : job'[h] \in Jobs /\ (job'[h].op # "idle" => job'[h].repo \in Repos)

LEMMA BeforesTyped ==
  ASSUME ContextInv, Notice, RowsStay,
         JobsPlaced
  PROVE  /\ before' \in [Handlers -> Befores]
         /\ \A h \in Handlers : /\ before'[h].whole => job'[h].op # "idle"
                                /\ before'[h].mine \cup before'[h].theirs \subseteq known'
<1>1. \A h \in Handlers : before[h] \in Befores /\ before[h].mine \cup before[h].theirs \subseteq known'
  BY DEF ContextInv, ContextShape, KnownInv, RowsStay
<1>2. ASSUME NEW h \in Handlers
      PROVE  /\ before'[h] \in Befores
             /\ before'[h].mine \cup before'[h].theirs \subseteq known'
  <2>1. CASE before'[h] = Forgotten
    BY <2>1, ForgottenIs
  <2>2. CASE before'[h] = before[h]
    BY <1>1, <2>2
  <2>3. CASE /\ job'[h].op # "idle"
             /\ before'[h] = [whole |-> TRUE, mine |-> row[job'[h].repo][job'[h].from].knows,
                              theirs |-> row[job'[h].repo][job'[h].to].knows]
    <3> DEFINE mine == row[job'[h].repo][job'[h].from].knows
               theirs == row[job'[h].repo][job'[h].to].knows
    <3>1. job'[h].repo \in Repos /\ job'[h].from \in Branches /\ job'[h].to \in Branches
      BY <2>3 DEF Jobs, JobsPlaced
    <3>2. mine \in Holdings /\ theirs \in Holdings /\ mine \subseteq known /\ theirs \subseteq known
      BY <3>1 DEF ContextInv, ContextShape, KnownInv, RowsOf
    <3>3. before'[h] = [whole |-> TRUE, mine |-> mine, theirs |-> theirs]
      BY <2>3
    <3> HIDE DEF mine, theirs
    <3>4. before'[h].mine = mine /\ before'[h].theirs = theirs
      BY <3>3
    <3>5. before'[h] \in Befores
      BY <3>2, <3>3 DEF Befores
    <3> QED BY <3>2, <3>4, <3>5 DEF RowsStay
  <2> QED BY <2>1, <2>2, <2>3 DEF Notice
<1>3. before' = [h \in Handlers |-> before'[h]]
  BY DEF Notice
<1>4. before' \in [Handlers -> Befores]
  BY <1>2, <1>3
<1> QED BY <1>2, <1>4, NoticeOwn

LEMMA BystanderInv ==
  ASSUME ContextInv, Notice, RowsStay, UNCHANGED job, branchErrors' \in 0 .. MaxErrors
  PROVE  ContextInv'
<1>4. /\ before' \in [Handlers -> Befores]
      /\ \A h \in Handlers : /\ before'[h].whole => job'[h].op # "idle"
                             /\ before'[h].mine \cup before'[h].theirs \subseteq known'
  <2>1. JobsPlaced
    BY DEF ContextInv, ContextShape, PlaceInv, JobsPlaced
  <2> QED BY <2>1, BeforesTyped
<1>1. ContextShape' /\ PlaceInv'
  BY <1>4 DEF ContextInv, ContextShape, PlaceInv, RowsStay
<1>2. KnownInv'
  BY <1>4 DEF ContextInv, KnownInv, RowsStay
<1>3. FreshInv'
  BY OthersFresh DEF FreshInv
<1> QED BY <1>1, <1>2, <1>3 DEF ContextInv

\* a step of handler h, which goes on as j
LEMMA HandlerInv ==
  ASSUME ContextInv, Notice, RowsStay, branchErrors' \in 0 .. MaxErrors, UNCHANGED known,
         NEW h \in Handlers, NEW j \in Jobs, job' = [job EXCEPT ![h] = j],
         j.read \cup j.head \subseteq known,
         j.op # "idle" =>
           /\ j.repo \in Repos /\ j.done < MaxJobs
           /\ j.op # "save" => j.from # j.to
           /\ j.op = "save" => j.from = j.to
           /\ before'[h].whole => UpToDate(j, before'[h], row'[j.repo][j.from], row'[j.repo][j.to])
  PROVE  ContextInv'
<1>1. job' \in [Handlers -> Jobs] /\ job'[h] = j /\ \A q \in Handlers \ {h} : job'[q] = job[q]
  BY DEF ContextInv, ContextShape
<1>6. JobsPlaced
  BY <1>1 DEF ContextInv, PlaceInv, JobsPlaced
<1>7. /\ before' \in [Handlers -> Befores]
      /\ \A q \in Handlers : /\ before'[q].whole => job'[q].op # "idle"
                             /\ before'[q].mine \cup before'[q].theirs \subseteq known'
  BY <1>6, BeforesTyped
<1>2. ContextShape'
  BY <1>1, <1>7 DEF ContextInv, ContextShape, RowsStay
<1>3. KnownInv'
  BY <1>1, <1>7 DEF ContextInv, KnownInv, RowsStay
<1>4. PlaceInv'
  BY <1>1 DEF ContextInv, PlaceInv
<1>5. FreshInv'
  <2> SUFFICES ASSUME NEW q \in Handlers, before'[q].whole
               PROVE UpToDate(job'[q], before'[q], row'[job'[q].repo][job'[q].from],
                              row'[job'[q].repo][job'[q].to])
    BY DEF FreshInv
  <2>1. CASE q = h
    BY <2>1, <1>1, <1>7
  <2>2. CASE q # h
    BY <2>2, <1>1, OthersFresh
  <2> QED BY <2>1, <2>2
<1> QED BY <1>2, <1>3, <1>4, <1>5 DEF ContextInv

LEMMA ReplaceStays ==
  ASSUME ContextInv, NEW r \in Repos, NEW b \in Branches, NEW new \in RowsOf, Replace(r, b, new),
         known' \subseteq Learned, known \subseteq known', new.knows \subseteq known',
         ~new.exists => new = NoRow
  PROVE  /\ RowsStay /\ row'[r][b] = new
         /\ \A q \in Repos, c \in Branches : q # r \/ c # b => row'[q][c] = row[q][c]
<1>1. /\ row' \in [Repos -> [Branches -> RowsOf]] /\ row'[r][b] = new
      /\ \A q \in Repos, c \in Branches : q # r \/ c # b => row'[q][c] = row[q][c]
  BY DEF Replace, ContextInv, ContextShape
<1> QED BY <1>1 DEF RowsStay, ContextInv, KnownInv

LEMMA HoldingRow ==
  ASSUME ContextInv, NEW r \in Repos, NEW b \in Branches, NEW k \in Holdings
  PROVE  Holding(r, b, k) \in RowsOf /\ Holding(r, b, k).exists /\ Holding(r, b, k).knows = k
<1>1. row[r][b] \in RowsOf
  BY DEF ContextInv, ContextShape
<1> QED BY <1>1 DEF Holding, RowsOf

LEMMA SameRowsStay == ASSUME ContextInv, UNCHANGED <<row, known>> PROVE RowsStay
  BY DEF ContextInv, ContextShape, KnownInv, RowsStay

LEMMA ErrorsCount ==
  ASSUME ContextInv, Error \/ NoError
  PROVE  branchErrors' \in 0 .. MaxErrors
  BY ContextAssumption DEF ContextInv, ContextShape, Error, NoError

-----------------------------------------------------------------------------
LEMMA ApiSaveInv ==
  ASSUME ContextInv, Notice, NEW r \in Repos, NEW b \in Branches, ApiSave(r, b) PROVE ContextInv'
<1>1. PICK k \in Learned \ known :
        /\ known' = known \cup {k}
        /\ \/ Replace(r, b, Holding(r, b, {k}))
           \/ Replace(r, b, Holding(r, b, With(row[r][b].knows, {k})))
  BY DEF ApiSave
<1>2. PICK s \in Holdings : Replace(r, b, Holding(r, b, s)) /\ s \subseteq known'
  <2>1. row[r][b].knows \in Holdings /\ row[r][b].knows \subseteq known
    BY DEF ContextInv, ContextShape, KnownInv, RowsOf
  <2>2. {k} \in Holdings
    BY OneHeld
  <2>3. With(row[r][b].knows, {k}) \in Holdings /\ With(row[r][b].knows, {k}) \subseteq known'
    BY <1>1, <2>1, <2>2, WithHolds
  <2> QED BY <1>1, <2>2, <2>3
<1>3. known' \subseteq Learned /\ known \subseteq known'
  BY <1>1 DEF ContextInv, ContextShape
<1>4. RowsStay
  BY <1>2, <1>3, HoldingRow, ReplaceStays
<1> QED BY <1>4, BystanderInv DEF ApiSave, ContextInv, ContextShape

LEMMA ApiDeleteInv ==
  ASSUME ContextInv, Notice, NEW b \in Branches, ApiDelete(b) PROVE ContextInv'
<1>1. row' \in [Repos -> [Branches -> RowsOf]]
      /\ \A r \in Repos, c \in Branches : row'[r][c] = IF c = b THEN NoRow ELSE row[r][c]
  BY NoRowIsRow DEF ApiDelete, ContextInv, ContextShape
<1>2. RowsStay
  BY <1>1, NoRowIsRow DEF ApiDelete, ContextInv, ContextShape, KnownInv, RowsStay
<1> QED BY <1>2, BystanderInv DEF ApiDelete, ContextInv, ContextShape

LEMMA MaterializeInv ==
  ASSUME ContextInv, Notice, NEW r \in Repos, NEW b \in Branches, Materialize(r, b) PROVE ContextInv'
<1>1. RowsStay
  BY HoldingRow, NothingHeld, ReplaceStays DEF Materialize, ContextInv, ContextShape
<1> QED BY <1>1, BystanderInv DEF Materialize, ContextInv, ContextShape

LEMMA PushInv ==
  ASSUME ContextInv, Notice, NEW r \in Repos, NEW b \in Branches, Push(r, b) PROVE ContextInv'
<1>1. ASSUME NEW q \in Repos, NEW c \in Branches
      PROVE  /\ row'[q][c] \in RowsOf /\ row'[q][c].knows = row[q][c].knows
             /\ ~row'[q][c].exists => row'[q][c] = NoRow
  <2>1. row[q][c] \in RowsOf /\ row[q] \in [Branches -> RowsOf]
    BY DEF ContextInv, ContextShape
  <2>2. CASE c = b /\ row[q][c].exists
    <3>1. row'[q][c] = [row[q][c] EXCEPT !.sha = r]
      BY <2>1, <2>2 DEF Push
    <3> QED BY <2>1, <2>2, <3>1 DEF RowsOf
  <2>3. CASE c = b /\ ~row[q][c].exists
    <3>1. row'[q][c] = [row[q][c] EXCEPT !.sha = row[q][c].sha]
      BY <2>1, <2>3 DEF Push
    <3>2. row'[q][c] = row[q][c]
      BY <2>1, <3>1 DEF RowsOf
    <3> QED BY <2>1, <3>2 DEF ContextInv, KnownInv
  <2>4. CASE c # b
    BY <2>1, <2>4 DEF Push, ContextInv, KnownInv
  <2> QED BY <2>2, <2>3, <2>4
<1>2. row' \in [Repos -> [Branches -> RowsOf]]
  <2>1. DOMAIN row' = Repos /\ row' = [q \in Repos |-> row'[q]]
    BY DEF Push
  <2>2. \A q \in Repos : row'[q] = [c \in Branches |-> row'[q][c]]
    BY DEF Push, ContextInv, ContextShape
  <2> QED BY <1>1, <2>1, <2>2
<1>3. RowsStay
  <2>1. known' = known /\ known \subseteq Learned
    BY DEF Push, ContextInv, ContextShape
  <2>2. \A q \in Repos, c \in Branches : row[q][c].knows \subseteq known
    BY DEF ContextInv, KnownInv
  <2> QED BY <1>1, <1>2, <2>1, <2>2 DEF RowsStay
<1> QED BY <1>3, BystanderInv DEF Push, ContextInv, ContextShape

-----------------------------------------------------------------------------
\* Steps of handlers.
LEMMA JobOf ==
  ASSUME ContextInv, NEW h \in Handlers
  PROVE  /\ job[h] \in Jobs /\ job[h].read \cup job[h].head \subseteq known
         /\ job[h].op # "idle" => job[h].repo \in Repos /\ job[h].done < MaxJobs
  BY DEF ContextInv, ContextShape, KnownInv, PlaceInv

LEMMA RowOf ==
  ASSUME ContextInv, NEW r \in Repos, NEW b \in Branches
  PROVE  /\ row[r][b] \in RowsOf /\ row[r][b].knows \subseteq known
         /\ ~row[r][b].exists => row[r][b].knows = {}
  BY NoRowIsRow DEF ContextInv, ContextShape, KnownInv

\* an error disturbs
LEMMA ErrorDisturbs ==
  ASSUME ContextInv, Notice, Error, NEW h \in Handlers
  PROVE  ~before'[h].whole
<1>1. branchErrors' # branchErrors
  BY DEF Error, ContextInv, ContextShape
<1> QED BY <1>1, ForgottenIs DEF Notice, Disturbs

LEMMA FinishInv ==
  ASSUME ContextInv, Notice, RowsStay, branchErrors' \in 0 .. MaxErrors, UNCHANGED known,
         NEW h \in Handlers, job[h].op # "idle", Finish(h)
  PROVE  ContextInv'
<1> DEFINE j == [Idle EXCEPT !.done = job[h].done + 1]
<1>1. job[h].done + 1 \in 0 .. MaxJobs
  BY JobOf, ContextAssumption DEF Jobs
<1>2. j \in Jobs /\ j.op = "idle" /\ j.read \cup j.head = {}
  BY <1>1, IdleJob
<1>3. job' = [job EXCEPT ![h] = j]
  BY DEF Finish
<1> HIDE DEF j
<1> QED BY <1>2, <1>3, HandlerInv

LEMMA StartJobInv ==
  ASSUME ContextInv, Notice, UNCHANGED <<row, known>>, branchErrors' \in 0 .. MaxErrors,
         NEW h \in Handlers, NEW op \in {"fork", "readHead", "save"}, NEW r \in Repos,
         NEW from \in Branches, NEW to \in Branches, NEW read \in Holdings, read \subseteq known,
         StartJob(h, op, r, from, to, read), op = "save" <=> from = to,
         op = "save" /\ before'[h].whole => read = row[r][to].knows
  PROVE  ContextInv'
<1> DEFINE j == [job[h] EXCEPT !.op = op, !.repo = r, !.from = from, !.to = to, !.read = read]
<1>2. job' = [job EXCEPT ![h] = j]
  BY DEF StartJob
<1>3. /\ j \in Jobs /\ j.op = op /\ j.repo = r /\ j.from = from /\ j.to = to /\ j.read = read
      /\ j.head \subseteq known /\ j.done < MaxJobs
  BY JobOf DEF Jobs, Ops, StartJob
<1> HIDE DEF j
<1>4. RowsStay
  BY SameRowsStay
<1>5. before'[h].whole => UpToDate(j, before'[h], row[r][from], row[r][to])
  <2> SUFFICES ASSUME before'[h].whole PROVE UpToDate(j, before'[h], row[r][from], row[r][to])
    OBVIOUS
  <2>1. job'[h] = j /\ job[h].op = "idle"
    BY <1>2 DEF ContextInv, ContextShape, StartJob
  <2>2. before'[h] = [whole |-> TRUE, mine |-> row[r][from].knows, theirs |-> row[r][to].knows]
    BY <1>3, <2>1, NoticeOwn
  <2>3. before'[h].mine = row[r][from].knows /\ before'[h].theirs = row[r][to].knows
    BY <2>2
  <2> QED BY <1>3, <2>3 DEF UpToDate
<1>6. j.read \cup j.head \subseteq known
  BY <1>3
<1>7. row' = row /\ UNCHANGED known
  OBVIOUS
<1> QED BY <1>2, <1>3, <1>4, <1>5, <1>6, <1>7, HandlerInv


LEMMA JobMoves ==
  ASSUME ContextInv, NEW h \in Handlers, NEW op, job' = [job EXCEPT ![h].op = op]
  PROVE  job'[h].op = op
  BY DEF ContextInv, ContextShape, Jobs

\* what an undisturbed handler knows
LEMMA KnowsOf ==
  ASSUME ContextInv, NEW h \in Handlers, before[h].whole
  PROVE  UpToDate(job[h], before[h], row[job[h].repo][job[h].from], row[job[h].repo][job[h].to])
  BY DEF ContextInv, FreshInv

\* a step that reads: the handler goes on to op with what it now has read
LEMMA ReadingInv ==
  ASSUME ContextInv, Notice, UNCHANGED <<row, known>>, branchErrors' \in 0 .. MaxErrors,
         NEW h \in Handlers, NEW op \in {"forkInsert", "readBase", "writeBase", "upsertBase", "clean"},
         NEW read \in Holdings, NEW head \in Holdings,
         read \subseteq known, head \subseteq known,
         \/ job' = [job EXCEPT ![h].op = op] /\ read = job[h].read /\ head = job[h].head
         \/ job' = [job EXCEPT ![h].op = op, ![h].read = read] /\ head = job[h].head
         \/ job' = [job EXCEPT ![h].op = op, ![h].head = head] /\ read = job[h].read,
         job[h].op \notin {"idle", "save"},
         job[h].op # "clean",
         before'[h].whole
           /\ UpToDate(job[h], before[h], row[job[h].repo][job[h].from], row[job[h].repo][job[h].to]) =>
           /\ op = "clean" => Keeps("clean", before[h], row[job[h].repo][job[h].to].knows)
           /\ op \in {"readBase", "writeBase", "upsertBase"} =>
                head = row[job[h].repo][job[h].from].knows
           /\ op = "writeBase" => /\ row[job[h].repo][job[h].to].exists
                                  /\ read = row[job[h].repo][job[h].to].knows
           /\ op = "upsertBase" => row[job[h].repo][job[h].to].knows = {}
  PROVE  ContextInv'
<1> DEFINE j == [job[h] EXCEPT !.op = op, !.read = read, !.head = head]
<1>1. known \subseteq Learned /\ job[h] \in Jobs
  BY JobOf DEF ContextInv, ContextShape
<1>2. job' = [job EXCEPT ![h] = j]
  <2>1. \/ job'[h] = [job[h] EXCEPT !.op = op] /\ read = job[h].read /\ head = job[h].head
        \/ job'[h] = [job[h] EXCEPT !.op = op, !.read = read] /\ head = job[h].head
        \/ job'[h] = [job[h] EXCEPT !.op = op, !.head = head] /\ read = job[h].read
    BY DEF ContextInv, ContextShape
  <2>2. job'[h] = j
    BY <1>1, <2>1 DEF Jobs
  <2> HIDE DEF j
  <2> QED BY <2>2 DEF ContextInv, ContextShape
<1>3. /\ j \in Jobs /\ j.op = op /\ j.read = read /\ j.head = head
      /\ j.repo = job[h].repo /\ j.from = job[h].from /\ j.to = job[h].to
      /\ j.done = job[h].done
  BY <1>1 DEF Jobs, Ops
<1> HIDE DEF j
<1>4. job[h].from # job[h].to /\ job[h].repo \in Repos /\ job[h].done < MaxJobs
  BY JobOf DEF ContextInv, ContextShape, PlaceInv, Jobs, Ops
<1>5. RowsStay /\ j.read \cup j.head \subseteq known
  BY <1>3, SameRowsStay, JobOf
<1>6. job'[h].op # "idle"
  BY <1>2, <1>3 DEF ContextInv, ContextShape
<1> DEFINE from == row[job[h].repo][job[h].from]
           to == row[job[h].repo][job[h].to]
<1>7. before'[h].whole => UpToDate(j, before'[h], from, to)
  <2> SUFFICES ASSUME before'[h].whole PROVE UpToDate(j, before'[h], from, to)
    OBVIOUS
  <2>2. before'[h] = before[h]
    BY NoticeOwn
  <2>1. UpToDate(job[h], before[h], from, to)
    BY <2>2, KnowsOf
  <2> QED BY <1>3, <2>1, <2>2 DEF UpToDate
<1> QED BY <1>2, <1>3, <1>4, <1>5, <1>7, HandlerInv

LEMMA ForkReadInv ==
  ASSUME ContextInv, Notice, NEW h \in Handlers, ForkRead(h) PROVE ContextInv'
<1>1. job[h].op = "fork" /\ UNCHANGED <<row, known>> /\ branchErrors' \in 0 .. MaxErrors
  BY ErrorsCount DEF ForkRead
<1>2. CASE Finish(h)
  BY <1>1, <1>2, FinishInv, SameRowsStay
<1>3. ASSUME NEW r \in Repos,
             job' = [job EXCEPT ![h].op = "forkInsert", ![h].read = row[r][Default].knows]
      PROVE  ContextInv'
  <2>1. row[r][Default].knows \in Holdings /\ row[r][Default].knows \subseteq known
    BY RowOf, ContextAssumption DEF RowsOf
  <2>2. job[h].head \in Holdings /\ job[h].head \subseteq known
    BY JobOf DEF Jobs
  <2> QED BY <1>1, <1>3, <2>1, <2>2, ReadingInv DEF UpToDate
<1> QED BY <1>2, <1>3 DEF ForkRead

LEMMA ReadHeadInv ==
  ASSUME ContextInv, Notice, NEW h \in Handlers, ReadHead(h) PROVE ContextInv'
<1> DEFINE head == row[job[h].repo][job[h].from]
<1>1. job[h].op = "readHead" /\ UNCHANGED <<row, known>> /\ branchErrors' \in 0 .. MaxErrors
  BY ErrorsCount DEF ReadHead
<1>2. /\ head.knows \in Holdings /\ head.knows \subseteq known /\ (~head.exists => head.knows = {})
      /\ job[h].read \in Holdings /\ job[h].head \in Holdings /\ job[h].read \cup job[h].head \subseteq known
  BY <1>1, JobOf, RowOf DEF Jobs, RowsOf
<1>3. CASE job' = [job EXCEPT ![h].op = "readBase", ![h].head = head.knows]
  BY <1>1, <1>2, <1>3, ReadingInv, ZenonT(40) DEF UpToDate
<1>4. CASE ~head.exists /\ Become(h, "clean")
  BY <1>1, <1>2, <1>4, ReadingInv DEF Become, UpToDate, Keeps
<1>5. CASE Error /\ Become(h, "clean")
  <2>1. ~before'[h].whole
    BY <1>5, ErrorDisturbs
  <2> QED BY <1>1, <1>2, <1>5, <2>1, ReadingInv DEF Become
<1> QED BY <1>3, <1>4, <1>5 DEF ReadHead

LEMMA ReadBaseInv ==
  ASSUME ContextInv, Notice, NEW h \in Handlers, ReadBase(h) PROVE ContextInv'
<1> DEFINE base == row[job[h].repo][job[h].to]
<1>1. job[h].op = "readBase" /\ UNCHANGED <<row, known>> /\ branchErrors' \in 0 .. MaxErrors
  BY ErrorsCount DEF ReadBase
<1>2. /\ base.knows \in Holdings /\ base.knows \subseteq known /\ (~base.exists => base.knows = {})
      /\ job[h].read \in Holdings /\ job[h].head \in Holdings /\ job[h].read \cup job[h].head \subseteq known
  BY <1>1, JobOf, RowOf DEF Jobs, RowsOf
<1>3. CASE base.exists /\ job' = [job EXCEPT ![h].op = "writeBase", ![h].read = base.knows]
  BY <1>1, <1>2, <1>3, ReadingInv, ZenonT(40) DEF UpToDate
<1>4. CASE ~base.exists /\ Become(h, "upsertBase")
  BY <1>1, <1>2, <1>4, ReadingInv DEF Become, UpToDate, Keeps
<1>5. CASE Error /\ Become(h, "upsertBase")
  <2>1. ~before'[h].whole
    BY <1>5, ErrorDisturbs
  <2> QED BY <1>1, <1>2, <1>5, <2>1, ReadingInv DEF Become
<1> QED BY <1>3, <1>4, <1>5 DEF ReadBase


LEMMA ForkInsertInv ==
  ASSUME ContextInv, Notice, NEW h \in Handlers, ForkInsert(h) PROVE ContextInv'
<1>1. /\ job[h].op = "forkInsert" /\ Finish(h) /\ UNCHANGED known
      /\ branchErrors' \in 0 .. MaxErrors
      /\ job[h].repo \in Repos /\ job[h].to \in Branches /\ job[h].read \in Holdings
      /\ job[h].read \subseteq known /\ known \subseteq Learned
  BY ErrorsCount, JobOf DEF ForkInsert, Jobs, ContextInv, ContextShape
<1>2. RowsStay
  <2>1. CASE Replace(job[h].repo, job[h].to, Holding(job[h].repo, job[h].to, job[h].read))
    BY <1>1, <2>1, HoldingRow, ReplaceStays
  <2>2. CASE UNCHANGED row
    BY <1>1, <2>2, SameRowsStay
  <2> QED BY <2>1, <2>2 DEF ForkInsert
<1> QED BY <1>1, <1>2, FinishInv

LEMMA WriteBaseInv ==
  ASSUME ContextInv, Notice, NEW h \in Handlers, WriteBase(h) PROVE ContextInv'
<1> DEFINE r == job[h].repo
           b == job[h].to
           j == [job[h] EXCEPT !.op = "clean", !.read = {}, !.head = {}]
<1>1. /\ job[h] \in Jobs /\ job[h].op \in {"writeBase", "upsertBase"} /\ r \in Repos /\ b \in Branches
      /\ job[h].from \in Branches /\ job[h].from # b /\ UNCHANGED known
      /\ branchErrors' \in 0 .. MaxErrors /\ known \subseteq Learned
      /\ job[h].read \subseteq known /\ job[h].head \subseteq known /\ job[h].done < MaxJobs
      /\ job[h].read \in Holdings /\ job[h].head \in Holdings
  BY ErrorsCount, JobOf DEF WriteBase, Jobs, ContextInv, ContextShape, PlaceInv
<1>2. job' = [job EXCEPT ![h] = j]
  BY DEF WriteBase, ContextInv, ContextShape
<1>3. /\ j \in Jobs /\ j.op = "clean" /\ j.repo = r /\ j.to = b /\ j.from = job[h].from
      /\ j.read = {} /\ j.head = {} /\ j.done = job[h].done
  BY <1>1, NothingHeld DEF Jobs, Ops
<1>4. job'[h] = j
  BY <1>2 DEF ContextInv, ContextShape
<1> HIDE DEF j
\* what the write leaves in the base's row, if h was undisturbed
<1>5. /\ RowsStay
      /\ before'[h].whole => Keeps("clean", before'[h], row'[r][b].knows)
  <2>1. before'[h].whole => /\ before'[h] = before[h]
                            /\ UpToDate(job[h], before[h], row[r][job[h].from], row[r][b])
    BY <1>1, NoticeOwn, KnowsOf
  <2>2. CASE job[h].op = "upsertBase" /\ Replace(r, b, Holding(r, b, job[h].head))
    <3> HIDE DEF r, b
    <3>2. Holding(r, b, job[h].head) \in RowsOf /\ Holding(r, b, job[h].head).exists
          /\ Holding(r, b, job[h].head).knows = job[h].head
      BY <1>1, HoldingRow
    <3>3. RowsStay /\ row'[r][b] = Holding(r, b, job[h].head)
      BY <1>1, <2>2, <3>2, ReplaceStays
    <3> QED BY <1>1, <2>1, <2>2, <3>2, <3>3 DEF UpToDate, Keeps
  <2>3. CASE job[h].op = "writeBase" /\ row[r][b].exists /\ Replace(r, b, Holding(r, b, Merged(h)))
    <3>1. Merged(h) \in Holdings /\ Merged(h) \subseteq known
      BY <1>1, WithHolds DEF Merged
    <3> HIDE DEF r, b
    <3>2. Holding(r, b, Merged(h)) \in RowsOf /\ Holding(r, b, Merged(h)).exists
          /\ Holding(r, b, Merged(h)).knows = Merged(h)
      BY <1>1, <3>1, HoldingRow
    <3>3. RowsStay /\ row'[r][b] = Holding(r, b, Merged(h))
      BY <1>1, <2>3, <3>1, <3>2, ReplaceStays
    <3>4. before'[h].whole => /\ before'[h] = before[h] /\ before[h].mine = job[h].head
                              /\ before[h].theirs = job[h].read
      BY <2>1, <2>3 DEF UpToDate
    <3>5. before'[h].whole => Keeps("clean", before[h], Merged(h))
      BY <3>4 DEF Keeps, Merged, With
    <3> QED BY <3>2, <3>3, <3>4, <3>5
  <2>4. CASE job[h].op = "writeBase" /\ ~row[r][b].exists /\ UNCHANGED row
    <3>1. ~before'[h].whole
      BY <2>1, <2>4 DEF UpToDate
    <3> QED BY <1>1, <2>4, <3>1, SameRowsStay
  <2>5. CASE Error /\ UNCHANGED row
    <3>1. ~before'[h].whole
      BY <2>5, ErrorDisturbs
    <3> QED BY <1>1, <2>5, <3>1, SameRowsStay
  <2> QED BY <2>2, <2>3, <2>4, <2>5 DEF WriteBase
<1>6. before'[h].whole => UpToDate(j, before'[h], row'[j.repo][j.from], row'[j.repo][j.to])
  BY <1>3, <1>5 DEF UpToDate
<1>7. j.read \cup j.head \subseteq known
  BY <1>3
<1> QED BY <1>1, <1>2, <1>3, <1>5, <1>6, <1>7, HandlerInv

LEMMA CleanHeadInv ==
  ASSUME ContextInv, Notice, NEW h \in Handlers, CleanHead(h) PROVE ContextInv'
<1>1. /\ job[h].op = "clean" /\ Finish(h) /\ UNCHANGED known /\ branchErrors' \in 0 .. MaxErrors
      /\ job[h].repo \in Repos /\ job[h].from \in Branches /\ known \subseteq Learned
  BY ErrorsCount, JobOf DEF CleanHead, Jobs, ContextInv, ContextShape
<1>2. RowsStay
  <2>1. CASE Replace(job[h].repo, job[h].from, NoRow)
    BY <1>1, <2>1, NoRowIsRow, ReplaceStays
  <2>2. CASE UNCHANGED row
    BY <1>1, <2>2, SameRowsStay
  <2> QED BY <2>1, <2>2 DEF CleanHead
<1> QED BY <1>1, <1>2, FinishInv

LEMMA SavedRow ==
  ASSUME ContextInv, NEW r \in Repos, NEW b \in Branches, NEW k \in Holdings
  PROVE  /\ [Holding(r, b, k) EXCEPT !.sha = r] \in RowsOf
         /\ [Holding(r, b, k) EXCEPT !.sha = r].exists
         /\ [Holding(r, b, k) EXCEPT !.sha = r].knows = k
  BY HoldingRow DEF RowsOf

LEMMA TaskSavesInv ==
  ASSUME ContextInv, Notice, NEW h \in Handlers, TaskSaves(h) PROVE ContextInv'
<1>1. /\ job[h].op = "save" /\ Finish(h) /\ UNCHANGED known /\ branchErrors' \in 0 .. MaxErrors
      /\ job[h].repo \in Repos /\ job[h].to \in Branches /\ job[h].read \in Holdings
      /\ job[h].read \subseteq known /\ known \subseteq Learned
  BY ErrorsCount, JobOf DEF TaskSaves, Jobs, ContextInv, ContextShape
<1>2. RowsStay
  <2>1. CASE Replace(job[h].repo, job[h].to,
                     [Holding(job[h].repo, job[h].to, job[h].read) EXCEPT !.sha = job[h].repo])
    <3> DEFINE new == [Holding(job[h].repo, job[h].to, job[h].read) EXCEPT !.sha = job[h].repo]
    <3>1. new \in RowsOf /\ new.exists /\ new.knows = job[h].read
      BY <1>1, SavedRow
    <3>2. Replace(job[h].repo, job[h].to, new)
      BY <2>1
    <3> HIDE DEF new
    <3> QED BY <1>1, <3>1, <3>2, ReplaceStays
  <2>2. CASE UNCHANGED row
    BY <1>1, <2>2, SameRowsStay
  <2> QED BY <2>1, <2>2 DEF TaskSaves
<1> QED BY <1>1, <1>2, FinishInv

LEMMA TaskReadsInv ==
  ASSUME ContextInv, Notice, NEW h \in Handlers, NEW r \in Repos, NEW b \in Branches,
         TaskReads(h, r, b)
  PROVE  ContextInv'
<1>1. UNCHANGED <<row, known>> /\ branchErrors' \in 0 .. MaxErrors
      /\ row[r][b].knows \in Holdings /\ row[r][b].knows \subseteq known /\ {} \in Holdings
  BY ErrorsCount, RowOf, NothingHeld DEF TaskReads, RowsOf
<1>2. CASE NoError /\ StartJob(h, "save", r, b, b, row[r][b].knows)
  BY <1>1, <1>2, StartJobInv
<1>3. CASE Error /\ StartJob(h, "save", r, b, b, {})
  <2>2. ~before'[h].whole
    BY <1>3, ErrorDisturbs
  <2> QED BY <1>1, <1>3, <2>2, StartJobInv
<1> QED BY <1>2, <1>3 DEF TaskReads

LEMMA StartsInv ==
  ASSUME ContextInv, Notice, NEW h \in Handlers, NEW r \in Repos, NEW b \in Branches,
         ReadParent(h, r, b) \/ \E c \in Branches : PullRequestMerged(h, r, b, c)
  PROVE  ContextInv'
<1>1. UNCHANGED <<row, known>> /\ branchErrors' \in 0 .. MaxErrors /\ {} \in Holdings
  BY NothingHeld DEF ReadParent, PullRequestMerged, ContextInv, ContextShape
<1>2. CASE ReadParent(h, r, b)
  BY <1>1, <1>2, ContextAssumption, StartJobInv DEF ReadParent
<1>3. ASSUME NEW c \in Branches, PullRequestMerged(h, r, b, c) PROVE ContextInv'
  BY <1>1, <1>3, StartJobInv DEF PullRequestMerged
<1> QED BY <1>2, <1>3

LEMMA ContextNextInv == ContextInv /\ [ContextNext]_contextVars => ContextInv'
<1> SUFFICES ASSUME ContextInv, [ContextNext]_contextVars PROVE ContextInv'
  OBVIOUS
<1>1. CASE UNCHANGED contextVars
  BY <1>1 DEF contextVars, ContextInv, ContextShape, KnownInv, PlaceInv, FreshInv
<1>2. CASE ContextNext
  BY <1>2, ApiSaveInv, ApiDeleteInv, MaterializeInv, PushInv, ForkReadInv, ForkInsertInv,
     ReadHeadInv, ReadBaseInv, WriteBaseInv, CleanHeadInv, TaskSavesInv, TaskReadsInv, StartsInv
  DEF ContextNext, ContextStep
<1> QED BY <1>1, <1>2

(* Every variable of BranchContexts keeps its type, a row that is not there      *)
(* holds nothing, and nobody holds what was never learned.                       *)
THEOREM ContextTypes == ContextSpec => []ContextTypeOK
<1>1. ContextInv => ContextTypeOK
  <2> SUFFICES ASSUME ContextInv PROVE ContextTypeOK
    OBVIOUS
  <2>1. \A r \in Repos, b \in Branches : row[r][b] \in RowsOf
    BY DEF ContextInv, ContextShape
  <2>2. \A h \in Handlers : job[h] \in Jobs
    BY DEF ContextInv, ContextShape
  <2>3. \A r \in Repos, b \in Branches : OneValue(row[r][b].knows)
    BY <2>1 DEF RowsOf, Holdings
  <2> QED BY <2>1, <2>2, <2>3 DEF ContextInv, ContextShape, KnownInv, RowsOf, Jobs, ContextTypeOK
<1> QED BY ContextInitInv, ContextNextInv, <1>1, PTL DEF ContextSpec

-----------------------------------------------------------------------------
\* How a handler ends: with one of four steps of its own.
LEMMA EndsBy ==
  ASSUME ContextInv, ContextNext, NEW h \in Handlers, job[h].op # "idle", job'[h].op = "idle"
  PROVE  /\ Notice /\ Finish(h)
         /\ ForkRead(h) \/ ForkInsert(h) \/ CleanHead(h) \/ TaskSaves(h)
<1>1. job'[h] # job[h]
  OBVIOUS
<1>2. ASSUME NEW q \in Handlers, NEW op \in Ops \ {"idle"}, job'[q].op = op,
             \A p \in Handlers \ {q} : job'[p] = job[p]
      PROVE  FALSE
  BY <1>1, <1>2
<1> DEFINE Moves(q) == /\ job'[q].op \in Ops \ {"idle"}
                       /\ \A p \in Handlers \ {q} : job'[p] = job[p]
<1>11. \A q \in Handlers : ~Moves(q)
  BY <1>2
<1>12. ASSUME NEW q \in Handlers, NEW op \in Ops \ {"idle"}, Become(q, op) PROVE Moves(q)
  BY <1>12 DEF Become, ContextInv, ContextShape, Jobs
<1>13. ASSUME NEW q \in Handlers, NEW op \in Ops \ {"idle"}, NEW a,
              \/ job' = [job EXCEPT ![q].op = op, ![q].read = a]
              \/ job' = [job EXCEPT ![q].op = op, ![q].head = a]
      PROVE  Moves(q)
  BY <1>13 DEF ContextInv, ContextShape, Jobs
<1>14. ASSUME NEW q \in Handlers, NEW op \in Ops \ {"idle"}, NEW r, NEW b, NEW c, NEW a,
              StartJob(q, op, r, b, c, a)
      PROVE  Moves(q)
  BY <1>14 DEF StartJob, ContextInv, ContextShape, Jobs
<1> HIDE DEF Moves
<1>3. ASSUME NEW q \in Handlers, Finish(q) PROVE q = h
  BY <1>1, <1>3 DEF Finish, ContextInv, ContextShape
<1>4. PICK q \in Handlers :
        \/ \E r \in Repos, b \in Branches : ReadParent(q, r, b) \/ TaskReads(q, r, b)
        \/ \E r \in Repos, b, c \in Branches : PullRequestMerged(q, r, b, c)
        \/ ForkRead(q) \/ ForkInsert(q) \/ ReadHead(q) \/ ReadBase(q)
        \/ WriteBase(q) \/ CleanHead(q) \/ TaskSaves(q)
  BY <1>1 DEF ContextNext, ContextStep, ApiSave, Materialize, Push, ApiDelete
<1>5. ASSUME NEW r \in Repos, NEW b \in Branches, ReadParent(q, r, b) \/ TaskReads(q, r, b)
      PROVE  FALSE
  <2>1. "fork" \in Ops \ {"idle"} /\ "save" \in Ops \ {"idle"}
    BY DEF Ops
  <2>2. CASE StartJob(q, "fork", r, Default, b, {})
    BY <1>11, <1>14, <2>1, <2>2
  <2>3. CASE StartJob(q, "save", r, b, b, row[r][b].knows)
    BY <1>11, <1>14, <2>1, <2>3
  <2>4. CASE StartJob(q, "save", r, b, b, {})
    BY <1>11, <1>14, <2>1, <2>4
  <2> QED BY <1>5, <2>2, <2>3, <2>4 DEF ReadParent, TaskReads
<1>6. ASSUME NEW r \in Repos, NEW b \in Branches, NEW c \in Branches,
             PullRequestMerged(q, r, b, c)
      PROVE  FALSE
  <2>1. StartJob(q, "readHead", r, b, c, {}) /\ "readHead" \in Ops \ {"idle"}
    BY <1>6 DEF PullRequestMerged, Ops
  <2> QED BY <1>11, <1>14, <2>1
<1>7. ~ReadHead(q) /\ ~ReadBase(q) /\ ~WriteBase(q)
  <2>1. {"clean", "readBase", "writeBase", "upsertBase"} \subseteq Ops \ {"idle"}
    BY DEF Ops
  <2>2. ReadHead(q) => Moves(q)
    BY <1>12, <1>13, <2>1 DEF ReadHead
  <2>3. ReadBase(q) => Moves(q)
    BY <1>12, <1>13, <2>1 DEF ReadBase
  <2>4. WriteBase(q) => Moves(q)
    BY <2>1 DEF WriteBase, Moves, ContextInv, ContextShape, Jobs
  <2> QED BY <1>11, <2>2, <2>3, <2>4
<1>8. ForkRead(q) => Finish(q)
  BY <1>11, <1>13 DEF ForkRead, Ops
<1>9. (ForkInsert(q) \/ CleanHead(q) \/ TaskSaves(q)) => Finish(q)
  BY DEF ForkInsert, CleanHead, TaskSaves
<1>10. Finish(q) /\ q = h
  BY <1>3, <1>4, <1>5, <1>6, <1>7, <1>8, <1>9
<1> QED BY <1>4, <1>5, <1>6, <1>7, <1>10 DEF ContextNext

LEMMA EndKeeps ==
  ASSUME ContextInv, ContextNext, NEW h \in Handlers, before[h].whole, job'[h].op = "idle",
         ~Disturbs(h)
  PROVE  Keeps(job[h].op, before[h], row'[job[h].repo][job[h].from].knows
                                       \cup row'[job[h].repo][job[h].to].knows)
<1>9. job[h].op # "idle"
  BY DEF ContextInv, ContextShape
<1>1. Notice /\ Finish(h) /\ (ForkRead(h) \/ ForkInsert(h) \/ CleanHead(h) \/ TaskSaves(h))
  BY <1>9, EndsBy
<1>2. ~Error
  BY DEF Disturbs, Error, ContextInv, ContextShape
<1>3. UpToDate(job[h], before[h], row[job[h].repo][job[h].from], row[job[h].repo][job[h].to])
  BY KnowsOf
<1>4. /\ job[h].repo \in Repos /\ job[h].from \in Branches /\ job[h].to \in Branches
      /\ job[h].read \in Holdings
      /\ job[h].op \in {"forkInsert", "clean"} => job[h].from # job[h].to
      /\ job[h].op = "save" => job[h].from = job[h].to
  BY <1>9, JobOf DEF Jobs, ContextInv, PlaceInv
<1>5. CASE UNCHANGED row
  BY <1>3, <1>5 DEF UpToDate, Keeps
<1>6. CASE /\ ForkInsert(h) /\ ~row[job[h].repo][job[h].to].exists
           /\ Replace(job[h].repo, job[h].to, Holding(job[h].repo, job[h].to, job[h].read))
  <2>1. row[job[h].repo][job[h].to].knows = {}
    BY <1>4, <1>6, RowOf
  <2>2. row'[job[h].repo][job[h].from] = row[job[h].repo][job[h].from] /\ job[h].op = "forkInsert"
    BY <1>4, <1>6 DEF ForkInsert, Replace, ContextInv, ContextShape
  <2> QED BY <1>3, <2>1, <2>2 DEF UpToDate, Keeps
<1>7. CASE CleanHead(h) /\ Replace(job[h].repo, job[h].from, NoRow)
  <2>1. row'[job[h].repo][job[h].to] = row[job[h].repo][job[h].to] /\ job[h].op = "clean"
    BY <1>4, <1>7 DEF CleanHead, Replace, ContextInv, ContextShape
  <2> QED BY <1>3, <2>1 DEF UpToDate, Keeps
<1>8. CASE /\ TaskSaves(h)
           /\ Replace(job[h].repo, job[h].to,
                      [Holding(job[h].repo, job[h].to, job[h].read) EXCEPT !.sha = job[h].repo])
  <2> DEFINE new == [Holding(job[h].repo, job[h].to, job[h].read) EXCEPT !.sha = job[h].repo]
  <2>1. new.knows = job[h].read
    <3>1. job[h].repo \in Repos /\ job[h].to \in Branches /\ job[h].read \in Holdings
      BY <1>4
    <3> QED BY <3>1, SavedRow
  <2>2. row'[job[h].repo][job[h].to] = new /\ job[h].op = "save"
    BY <1>4, <1>8 DEF TaskSaves, Replace, ContextInv, ContextShape
  <2> HIDE DEF new
  <2> QED BY <1>3, <1>4, <2>1, <2>2 DEF UpToDate, Keeps
<1> QED BY <1>1, <1>2, <1>5, <1>6, <1>7, <1>8 DEF ForkRead, ForkInsert, CleanHead, TaskSaves

(* A handler loses nothing by itself: a fork, a merge with the clean-up of its   *)
(* head, or the end of a task whose rows nobody else changed and of which no     *)
(* statement failed ends with all that its two rows held when it began, but for  *)
(* the base's values of keys for which a merge brought the head's.               *)
THEOREM UndisturbedHandlersKeep == ContextSpec => UndisturbedKeeps
<1>1. ContextInv /\ [ContextNext]_contextVars =>
        [\A h \in Handlers :
           LET j == job[h] IN
           (before[h].whole /\ job'[h].op = "idle" /\ ~Disturbs(h))
           => Keeps(j.op, before[h], row'[j.repo][j.from].knows
                                       \cup row'[j.repo][j.to].knows)]_contextVars
  <2> SUFFICES ASSUME ContextInv, ContextNext, NEW h \in Handlers, before[h].whole,
                      job'[h].op = "idle", ~Disturbs(h)
               PROVE  Keeps(job[h].op, before[h], row'[job[h].repo][job[h].from].knows
                                                    \cup row'[job[h].repo][job[h].to].knows)
    OBVIOUS
  <2> QED BY EndKeeps
<1> QED BY ContextInitInv, ContextNextInv, <1>1, PTL DEF ContextSpec, UndisturbedKeeps
=============================================================================
