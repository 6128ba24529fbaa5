----------------------------- MODULE AgentProofs -----------------------------
(***************************************************************************)
(* Theorems of what reaches an agent and its client: the bus of a server   *)
(* without NATS (LocalMesh), the change watchers of cmd/agent              *)
(* (ChangeWatch), and the context and outbox it keeps (LiveContext).       *)
(***************************************************************************)
EXTENDS LocalMesh, ChangeWatch, LiveContext, FiniteSetTheorems, TLAPS

-----------------------------------------------------------------------------
(* LocalMesh: the inductive invariant.                                      *)

PostPlaces == {"idle", "rlock", "deliver", "find", "next", "relock", "redeliver", "return"}
Posts == [pc : PostPlaces, no : 0..MaxPostings, on : LocalBranches,
          copies : SUBSET LocalBranches, copied : BOOLEAN]
WatcherRows == [pc : {"idle", "lock", "await", "on", "gone"}, branch : LocalBranches,
                late : SUBSET (1..MaxPostings)]
Hearings == [no : 1..MaxPostings, on : LocalBranches]
Endings == [no : 1..MaxPostings, on : LocalBranches, copied : BOOLEAN]

LocalShape ==
  /\ tuned \in [LocalBranches -> SUBSET Watchers] /\ listens \in BOOLEAN
  /\ reads \in [Posters -> 0..2] /\ blocked \subseteq Posters
  /\ taker \in Waiters \cup {NoWaiter}
  /\ post \in [Posters -> Posts] /\ watcher \in [Waiters -> WatcherRows]
  /\ heard \in [Watchers -> Seq(Hearings)] /\ ended \subseteq Endings

\* the read locks a poster holds where it is
HeldAt(pc) == IF pc \in {"idle", "rlock"} THEN 0 ELSE IF pc = "redeliver" THEN 2 ELSE 1

LockInv ==
  /\ \A p \in Posters : reads[p] = HeldAt(post[p].pc)
  /\ \A p \in blocked : post[p].pc \in {"rlock", "relock"}
  /\ \A w \in Waiters : watcher[w].pc = "await" <=> taker = w

\* each event has its number, and those that anybody has heard of have begun
NumberInv ==
  /\ IsFiniteSet(ended)
  /\ \A p \in Posters : post[p].pc # "idle" =>
       /\ post[p].no # 0 /\ \A e \in ended : e.no # post[p].no
       /\ \A q \in Posters : post[q].pc # "idle" /\ post[q].no = post[p].no => q = p
  /\ \A w \in Waiters : \A n \in watcher[w].late :
       \/ \E e \in ended : e.no = n
       \/ \E p \in Posters : post[p].pc \notin {"idle", "rlock"} /\ post[p].no = n

SaidIn(s) == {s[i].no : i \in DOMAIN s}
Once(s, branch, late) ==
  /\ \A i, k \in DOMAIN s : s[i].no = s[k].no => i = k
  /\ \A i \in DOMAIN s : s[i].on = branch /\ s[i].no \in late

TunedInv ==
  /\ \A w \in Watchers, b \in LocalBranches :
       w \in tuned[b] <=> watcher[w].pc \in {"on", "gone"} /\ watcher[w].branch = b
  /\ \A w \in Waiters : watcher[w].pc \in {"idle", "lock", "await"} => watcher[w].late = {}
  /\ \A w \in Watchers : Once(heard[w], watcher[w].branch, watcher[w].late)

\* what is settled and what is still owed of the event of a poster, to a client v that
\* has heard the numbers "said"
Owed(j, v, said) ==
  /\ j.pc \notin {"idle", "rlock"} /\ v.pc = "on" => j.no \in v.late
  /\ j.pc \in {"rlock", "deliver"} => j.no \notin said
  /\ j.pc \in {"rlock", "deliver", "find"} => j.copies = {} /\ ~j.copied
  /\ j.pc = "find" /\ j.no \in said => v.branch = j.on
  /\ j.pc = "return" => j.copies = {}
  /\ j.pc # "idle" /\ j.no \in said => v.branch \notin j.copies
  /\ /\ j.pc \in {"find", "next", "relock", "redeliver", "return"} /\ v.pc = "on"
     /\ v.branch = j.on \/ (j.copied /\ v.branch \notin j.copies)
     => j.no \in said

OwedInv == \A p \in Posters, w \in Watchers : Owed(post[p], watcher[w], SaidIn(heard[w]))

Paid(e, v, said) ==
  v.pc = "on" /\ e.no \in v.late /\ (e.on = v.branch \/ e.copied) => e.no \in said

PaidInv == \A e \in ended, w \in Watchers : Paid(e, watcher[w], SaidIn(heard[w]))

LocalInv == LocalShape /\ LockInv /\ NumberInv /\ TunedInv /\ OwedInv /\ PaidInv

LEMMA IdleIs ==
  /\ IdlePost \in Posts /\ IdlePost.pc = "idle" /\ IdlePost.on \in LocalBranches
<1> DEFINE b == CHOOSE x \in LocalBranches : TRUE
<1>1. b \in LocalBranches
  BY LocalAssumption
<1>2. IdlePost = [pc |-> "idle", no |-> 0, on |-> b, copies |-> {}, copied |-> FALSE]
  BY DEF IdlePost
<1> HIDE DEF b
<1>3. 0 \in 0..MaxPostings
  BY LocalAssumption
<1> QED BY <1>1, <1>2, <1>3 DEF Posts, PostPlaces

LEMMA LocalInitInv == LocalInit => LocalInv
<1> SUFFICES ASSUME LocalInit PROVE LocalInv
  OBVIOUS
<1>1. PICK pc \in {"lock", "gone"} :
        watcher = [w \in Waiters |-> [pc |-> IF w = Listener THEN pc ELSE "idle",
                                      branch |-> IdlePost.on, late |-> {}]]
  BY DEF LocalInit
<1>2. /\ watcher \in [Waiters -> WatcherRows]
      /\ \A w \in Waiters : watcher[w].late = {} /\ watcher[w].pc \in {"idle", "lock", "gone"}
      /\ \A w \in Watchers : watcher[w].pc = "idle"
  BY <1>1, IdleIs, LocalAssumption DEF WatcherRows, Waiters
<1>3. \A p \in Posters : post[p] = IdlePost
  BY DEF LocalInit
<1>4. LocalShape
  <2>1. heard \in [Watchers -> Seq(Hearings)]
    BY DEF LocalInit
  <2>2. post \in [Posters -> Posts]
    BY IdleIs DEF LocalInit
  <2>3. /\ tuned \in [LocalBranches -> SUBSET Watchers] /\ listens \in BOOLEAN
        /\ blocked \subseteq Posters
        /\ taker \in Waiters \cup {NoWaiter} /\ ended \subseteq Endings
    BY ZenonT(20) DEF LocalInit
  <2>4. reads \in [Posters -> 0..2]
    BY SMT DEF LocalInit
  <2> QED BY <1>2, <2>1, <2>2, <2>3, <2>4 DEF LocalShape
<1>5. LockInv
  BY <1>2, <1>3, IdleIs, LocalAssumption DEF LocalInit, LockInv, HeldAt, Waiters
<1>6. NumberInv
  BY <1>2, <1>3, IdleIs, FS_EmptySet DEF LocalInit, NumberInv
<1>7. \A w \in Watchers : heard[w] = <<>> /\ DOMAIN heard[w] = {}
  BY DEF LocalInit
<1>8. TunedInv
  BY <1>2, <1>7 DEF LocalInit, TunedInv, Once, Waiters
<1>9. OwedInv /\ PaidInv
  BY <1>2, <1>3, IdleIs DEF LocalInit, OwedInv, PaidInv, Owed
<1> QED BY <1>4, <1>5, <1>6, <1>8, <1>9 DEF LocalInv

LEMMA LocalRows ==
  ASSUME LocalInv
  PROVE  /\ \A p \in Posters :
              /\ post[p] \in Posts /\ post[p].pc \in PostPlaces /\ post[p].on \in LocalBranches
              /\ post[p].no \in 0..MaxPostings /\ post[p].copies \subseteq LocalBranches
              /\ post[p].copied \in BOOLEAN
         /\ \A w \in Waiters : /\ watcher[w] \in WatcherRows /\ watcher[w].branch \in LocalBranches
                               /\ watcher[w].late \subseteq 1..MaxPostings
         /\ Watchers \subseteq Waiters
<1>1. \A p \in Posters : post[p] \in Posts
  BY DEF LocalInv, LocalShape
<1>2. \A w \in Waiters : watcher[w] \in WatcherRows
  BY DEF LocalInv, LocalShape
<1> QED BY <1>1, <1>2 DEF Posts, WatcherRows, Waiters

\* there is a number that no event has
LEMMA FreshNumber ==
  ASSUME LocalInv, Postings < MaxPostings
  PROVE  \E n \in 1..MaxPostings :
           /\ \A e \in ended : e.no # n
           /\ \A q \in Posters : post[q].pc # "idle" => post[q].no # n
<1> DEFINE A == {e.no : e \in ended}
           P == {p \in Posters : post[p].pc # "idle"}
           B == {post[p].no : p \in P}
<1>1. IsFiniteSet(ended) /\ IsFiniteSet(P)
  BY LocalAssumption, FS_Subset DEF LocalInv, NumberInv
<1>2. [e \in ended |-> e.no] \in Surjection(ended, A)
  BY DEF Surjection
<1>3. [p \in P |-> post[p].no] \in Surjection(P, B)
  BY DEF Surjection
<1>4. Postings = Cardinality(ended) + Cardinality(P)
  BY DEF Postings
<1> HIDE DEF A, B, P
<1>5. IsFiniteSet(A) /\ Cardinality(A) <= Cardinality(ended)
  BY <1>1, <1>2, FS_Surjection
<1>6. IsFiniteSet(B) /\ Cardinality(B) <= Cardinality(P)
  BY <1>1, <1>3, FS_Surjection
<1>7. /\ Cardinality(A) \in Nat /\ Cardinality(B) \in Nat /\ Cardinality(ended) \in Nat
      /\ Cardinality(P) \in Nat
  BY <1>1, <1>5, <1>6, FS_CardinalityType
<1>8. IsFiniteSet(A \cup B) /\ IsFiniteSet(A \cap B)
  BY <1>5, <1>6, FS_Union, FS_Intersection
<1>9. Cardinality(A \cup B) <= Cardinality(A) + Cardinality(B)
  <2>1. Cardinality(A \cup B) = Cardinality(A) + Cardinality(B) - Cardinality(A \cap B)
    BY <1>5, <1>6, FS_Union
  <2>2. Cardinality(A \cap B) \in Nat
    BY <1>8, FS_CardinalityType
  <2> QED BY <2>1, <2>2, <1>7
<1>10. Cardinality(1..MaxPostings) = MaxPostings /\ MaxPostings \in Nat
  <2> DEFINE n == MaxPostings
  <2>1. n \in Int /\ 1 \in Int /\ n \in Nat
    BY LocalAssumption
  <2> HIDE DEF n
  <2>2. Cardinality(1..n) = IF 1 > n THEN 0 ELSE n - 1 + 1
    BY <2>1, FS_Interval
  <2>3. Cardinality(1..n) = n
    BY <2>1, <2>2
  <2> QED BY <2>1, <2>3 DEF n
<1>11. ~(1..MaxPostings \subseteq A \cup B)
  <2> SUFFICES ASSUME 1..MaxPostings \subseteq A \cup B PROVE FALSE
    OBVIOUS
  <2>1. Cardinality(1..MaxPostings) <= Cardinality(A \cup B)
    BY <1>8, FS_Subset
  <2>2. Cardinality(A \cup B) \in Nat
    BY <1>8, FS_CardinalityType
  <2> QED BY <2>1, <2>2, <1>4, <1>5, <1>6, <1>7, <1>9, <1>10
<1>12. PICK n \in 1..MaxPostings : n \notin A \cup B
  BY <1>11
<1> QED BY <1>12 DEF A, B, P

-----------------------------------------------------------------------------
(* LocalMesh: the steps of a poster.                                        *)

\* a poster p goes on as j and nothing else changes
LEMMA PostMoves ==
  ASSUME LocalInv, NEW p \in Posters, NEW j \in Posts, post' = [post EXCEPT ![p] = j],
         UNCHANGED <<tuned, listens, reads, blocked, taker, watcher, heard, ended>>,
         HeldAt(j.pc) = HeldAt(post[p].pc), p \in blocked => j.pc \in {"rlock", "relock"},
         j.pc # "idle" => /\ j.no # 0 /\ \A e \in ended : e.no # j.no
                          /\ \A q \in Posters \ {p} : post[q].pc # "idle" => post[q].no # j.no,
         post[p].pc \notin {"idle", "rlock"} =>
           j.pc \notin {"idle", "rlock"} /\ j.no = post[p].no,
         \A w \in Watchers : Owed(j, watcher[w], SaidIn(heard[w]))
  PROVE  LocalInv'
<1>1. post' \in [Posters -> Posts] /\ post'[p] = j /\ \A q \in Posters \ {p} : post'[q] = post[q]
  BY DEF LocalInv, LocalShape
<1>2. LocalShape'
  BY <1>1 DEF LocalInv, LocalShape
<1>3. LockInv'
  BY <1>1 DEF LocalInv, LockInv
<1>4. NumberInv'
  <2>1. IsFiniteSet(ended')
    BY DEF LocalInv, NumberInv
  <2>2. ASSUME NEW q \in Posters, post'[q].pc # "idle"
        PROVE  /\ post'[q].no # 0 /\ \A e \in ended' : e.no # post'[q].no
               /\ \A r \in Posters : post'[r].pc # "idle" /\ post'[r].no = post'[q].no => r = q
    <3>1. CASE q = p
      BY <1>1, <2>2, <3>1
    <3>2. CASE q # p
      <4>1. post'[q] = post[q]
        BY <1>1, <3>2
      <4>2. /\ post[q].no # 0 /\ \A e \in ended : e.no # post[q].no
            /\ \A r \in Posters : post[r].pc # "idle" /\ post[r].no = post[q].no => r = q
        BY <2>2, <4>1 DEF LocalInv, NumberInv
      <4>3. ASSUME NEW r \in Posters, post'[r].pc # "idle", post'[r].no = post'[q].no
            PROVE  r = q
        <5>1. CASE r = p
          BY <1>1, <2>2, <3>2, <4>1, <4>3, <5>1
        <5>2. CASE r # p
          BY <1>1, <4>1, <4>2, <4>3, <5>2
        <5> QED BY <5>1, <5>2
      <4> QED BY <4>1, <4>2, <4>3
    <3> QED BY <3>1, <3>2
  <2>3. ASSUME NEW w \in Waiters, NEW n \in watcher[w].late
        PROVE  \/ \E e \in ended : e.no = n
               \/ \E q \in Posters : post'[q].pc \notin {"idle", "rlock"} /\ post'[q].no = n
    <3>1. \/ \E e \in ended : e.no = n
          \/ \E q \in Posters : post[q].pc \notin {"idle", "rlock"} /\ post[q].no = n
      BY DEF LocalInv, NumberInv
    <3>2. ASSUME NEW q \in Posters, post[q].pc \notin {"idle", "rlock"}, post[q].no = n
          PROVE  post'[q].pc \notin {"idle", "rlock"} /\ post'[q].no = n
      <4>1. CASE q = p
        BY <1>1, <3>2, <4>1
      <4>2. CASE q # p
        BY <1>1, <3>2, <4>2
      <4> QED BY <4>1, <4>2
    <3> QED BY <3>1, <3>2
  <2> QED BY <2>1, <2>2, <2>3 DEF NumberInv
<1>5. TunedInv'
  BY DEF LocalInv, TunedInv
<1>6. OwedInv'
  <2>1. ASSUME NEW q \in Posters, NEW w \in Watchers
        PROVE  Owed(post'[q], watcher[w], SaidIn(heard[w]))
    BY <1>1 DEF LocalInv, OwedInv
  <2>2. \A q \in Posters, w \in Watchers : Owed(post'[q], watcher'[w], SaidIn(heard'[w]))
    BY <2>1
  <2> QED BY <2>2 DEF OwedInv
<1>7. PaidInv'
  <2>1. \A e \in ended, w \in Watchers : Paid(e, watcher[w], SaidIn(heard[w]))
    BY DEF LocalInv, PaidInv
  <2>2. \A e \in ended', w \in Watchers : Paid(e, watcher'[w], SaidIn(heard'[w]))
    BY <2>1
  <2> QED BY <2>2 DEF PaidInv
<1> QED BY <1>2, <1>3, <1>4, <1>5, <1>6, <1>7 DEF LocalInv

\* a client has heard events that have a number
LEMMA SaidIsUsed ==
  ASSUME LocalInv, NEW w \in Watchers, NEW n \in SaidIn(heard[w])
  PROVE  /\ n \in watcher[w].late
         /\ \/ \E e \in ended : e.no = n
            \/ \E p \in Posters : post[p].pc \notin {"idle", "rlock"} /\ post[p].no = n
<1>1. n \in watcher[w].late
  BY DEF LocalInv, TunedInv, SaidIn, Once
<1> QED BY <1>1, LocalRows DEF LocalInv, NumberInv

LEMMA PostNewInv ==
  ASSUME LocalInv, NEW p \in Posters, NEW b \in LocalBranches, Post(p, b) PROVE LocalInv'
<1> DEFINE Free(n) == /\ \A e \in ended : e.no # n
                      /\ \A q \in Posters : post[q].pc # "idle" => post[q].no # n
           no == CHOOSE n \in 1..MaxPostings : Free(n)
           j == [pc |-> "rlock", no |-> no, on |-> b, copies |-> {}, copied |-> FALSE]
<1>1. no \in 1..MaxPostings /\ Free(no)
  BY FreshNumber DEF Post
<1>2. post' = [post EXCEPT ![p] = j]
  BY DEF Post
<1> HIDE DEF no
<1>3. j \in Posts /\ no # 0 /\ j.pc = "rlock" /\ j.no = no /\ j.copies = {} /\ ~j.copied
  BY <1>1, LocalAssumption DEF Posts, PostPlaces
<1> HIDE DEF j
<1>4. ASSUME NEW w \in Watchers PROVE no \notin SaidIn(heard[w])
  BY <1>1, SaidIsUsed
<1>5. post[p].pc = "idle" /\ UNCHANGED <<tuned, listens, reads, blocked, taker, watcher, heard, ended>>
  BY DEF Post, PostAt
<1>6. p \notin blocked
  BY <1>5 DEF LocalInv, LockInv
<1>7. \A w \in Watchers : Owed(j, watcher[w], SaidIn(heard[w]))
  BY <1>3, <1>4 DEF Owed
<1>8. HeldAt(j.pc) = HeldAt(post[p].pc)
  BY <1>3, <1>5 DEF HeldAt
<1> QED BY <1>1, <1>2, <1>3, <1>5, <1>6, <1>7, <1>8, PostMoves

LEMMA FindInv == ASSUME LocalInv, NEW p \in Posters, FindRepoBranches(p) PROVE LocalInv'
<1>1. post[p].pc = "find" /\ UNCHANGED <<tuned, listens, reads, blocked, taker, watcher, heard, ended>>
  BY DEF FindRepoBranches, PostAt
<1>2. /\ post[p].no # 0 /\ \A e \in ended : e.no # post[p].no
      /\ \A q \in Posters \ {p} : post[q].pc # "idle" => post[q].no # post[p].no
  BY <1>1 DEF LocalInv, NumberInv
<1>3. p \notin blocked
  BY <1>1 DEF LocalInv, LockInv
<1>4. /\ post[p] \in Posts /\ \A w \in Watchers : Owed(post[p], watcher[w], SaidIn(heard[w]))
      /\ \A w \in Watchers : watcher[w].branch \in LocalBranches
  BY LocalRows DEF LocalInv, OwedInv
<1>5. CASE post' = [post EXCEPT ![p].pc = "return"]
  <2> DEFINE j == [post[p] EXCEPT !.pc = "return"]
  <2>1. /\ j \in Posts /\ j.pc = "return" /\ j.no = post[p].no /\ j.on = post[p].on
        /\ j.copies = post[p].copies /\ j.copied = post[p].copied
    BY <1>4 DEF Posts, PostPlaces
  <2>2. post' = [post EXCEPT ![p] = j]
    BY <1>5
  <2> HIDE DEF j
  <2>3. \A w \in Watchers : Owed(j, watcher[w], SaidIn(heard[w]))
    BY <1>1, <1>4, <2>1 DEF Owed
  <2>4. HeldAt(j.pc) = HeldAt(post[p].pc)
    BY <1>1, <2>1 DEF HeldAt
  <2> QED BY <1>1, <1>2, <1>3, <2>1, <2>2, <2>3, <2>4, PostMoves
<1>6. CASE post' = [post EXCEPT ![p].pc = "next", ![p].copied = TRUE,
                                ![p].copies = LocalBranches \ {post[p].on}]
  <2> DEFINE j == [post[p] EXCEPT !.pc = "next", !.copied = TRUE,
                                  !.copies = LocalBranches \ {post[p].on}]
  <2>1. /\ j \in Posts /\ j.pc = "next" /\ j.no = post[p].no /\ j.on = post[p].on
        /\ j.copies = LocalBranches \ {post[p].on} /\ j.copied
    BY <1>4 DEF Posts, PostPlaces
  <2>2. post' = [post EXCEPT ![p] = j]
    BY <1>6
  <2> HIDE DEF j
  <2>3. \A w \in Watchers : Owed(j, watcher[w], SaidIn(heard[w]))
    BY <1>1, <1>4, <2>1 DEF Owed
  <2>4. HeldAt(j.pc) = HeldAt(post[p].pc)
    BY <1>1, <2>1 DEF HeldAt
  <2> QED BY <1>1, <1>2, <1>3, <2>1, <2>2, <2>3, <2>4, PostMoves
<1> QED BY <1>5, <1>6 DEF FindRepoBranches

LEMMA PropagateNextInv == ASSUME LocalInv, NEW p \in Posters, PropagateNext(p) PROVE LocalInv'
<1> DEFINE place == IF post[p].copies = {} THEN "return" ELSE "relock"
           j == [post[p] EXCEPT !.pc = place]
<1>1. post[p].pc = "next" /\ UNCHANGED <<tuned, listens, reads, blocked, taker, watcher, heard, ended>>
      /\ post' = [post EXCEPT ![p] = j]
  BY DEF PropagateNext, PostAt
<1>2. /\ post[p].no # 0 /\ \A e \in ended : e.no # post[p].no
      /\ \A q \in Posters \ {p} : post[q].pc # "idle" => post[q].no # post[p].no
  BY <1>1 DEF LocalInv, NumberInv
<1>3. p \notin blocked
  BY <1>1 DEF LocalInv, LockInv
<1>4. post[p] \in Posts /\ \A w \in Watchers : Owed(post[p], watcher[w], SaidIn(heard[w]))
  BY LocalRows DEF LocalInv, OwedInv
<1>5. place \in {"return", "relock"} /\ (place = "return" => post[p].copies = {})
  OBVIOUS
<1> HIDE DEF place
<1>6. /\ j \in Posts /\ j.pc = place /\ j.no = post[p].no /\ j.on = post[p].on
      /\ j.copies = post[p].copies /\ j.copied = post[p].copied
  BY <1>4, <1>5 DEF Posts, PostPlaces
<1> HIDE DEF j
<1>7. \A w \in Watchers : Owed(j, watcher[w], SaidIn(heard[w]))
  BY <1>1, <1>4, <1>5, <1>6 DEF Owed
<1>8. HeldAt(j.pc) = HeldAt(post[p].pc)
  BY <1>1, <1>5, <1>6 DEF HeldAt
<1>9. j.pc \notin {"idle", "rlock"}
  BY <1>5, <1>6
<1> QED BY <1>1, <1>2, <1>3, <1>6, <1>7, <1>8, <1>9, PostMoves

\* what a poster's event is heard as: each client of the branch b that is on hears it,
\* once
LEMMA HearStep ==
  ASSUME LocalInv, NEW p \in Posters, NEW b \in LocalBranches, post[p].pc \in {"deliver", "redeliver"},
         Hear(p, b), UNCHANGED <<tuned, watcher>>,
         \A w \in Watchers : watcher[w].branch = b => post[p].no \notin SaidIn(heard[w])
  PROVE  /\ heard' \in [Watchers -> Seq(Hearings)]
         /\ \A w \in Watchers : Once(heard'[w], watcher[w].branch, watcher[w].late)
         /\ \A w \in Watchers :
              SaidIn(heard'[w]) = IF watcher[w].pc = "on" /\ watcher[w].branch = b
                                  THEN SaidIn(heard[w]) \cup {post[p].no} ELSE SaidIn(heard[w])
<1> DEFINE n == post[p].no
           x == [no |-> n, on |-> b]
<1>1. n \in 1..MaxPostings
  BY LocalRows, LocalAssumption DEF LocalInv, NumberInv
<1>2. x \in Hearings /\ x.no = n /\ x.on = b
  BY <1>1 DEF Hearings
<1>3. \A w \in Watchers : Hears(w, b) <=> watcher[w].pc = "on" /\ watcher[w].branch = b
  BY DEF LocalInv, TunedInv, Hears
<1>4. \A w \in Watchers : heard'[w] = IF Hears(w, b) THEN Append(heard[w], x) ELSE heard[w]
  BY DEF Hear
<1>5. \A w \in Watchers : heard[w] \in Seq(Hearings) /\ Once(heard[w], watcher[w].branch, watcher[w].late)
  BY DEF LocalInv, LocalShape, TunedInv
<1>6. heard' = [w \in Watchers |-> heard'[w]]
  BY DEF Hear
<1>7. \A w \in Watchers : watcher[w].pc = "on" => n \in watcher[w].late
  BY DEF LocalInv, OwedInv, Owed
<1>8. \A w \in Watchers : watcher[w].branch = b => n \notin SaidIn(heard[w])
  OBVIOUS
<1> HIDE DEF n, x
<1>9. ASSUME NEW w \in Watchers
      PROVE  /\ heard'[w] \in Seq(Hearings) /\ Once(heard'[w], watcher[w].branch, watcher[w].late)
             /\ SaidIn(heard'[w]) = IF watcher[w].pc = "on" /\ watcher[w].branch = b
                                    THEN SaidIn(heard[w]) \cup {n} ELSE SaidIn(heard[w])
  <2>1. CASE Hears(w, b)
    <3> DEFINE s == heard[w]
               t == Append(s, x)
    <3>1. heard'[w] = t /\ watcher[w].pc = "on" /\ watcher[w].branch = b
      BY <1>3, <1>4, <2>1
    <3>2. s \in Seq(Hearings) /\ Once(s, b, watcher[w].late) /\ n \in watcher[w].late /\ n \notin SaidIn(s)
      BY <1>5, <1>7, <1>8, <3>1
    <3> HIDE DEF s
    <3>3. /\ t \in Seq(Hearings) /\ Len(s) \in Nat /\ DOMAIN s = 1..Len(s)
          /\ DOMAIN t = 1..(Len(s) + 1) /\ t[Len(s) + 1] = x
          /\ \A i \in 1..Len(s) : t[i] = s[i]
      BY <1>2, <3>2
    <3> HIDE DEF t
    <3>4. ASSUME NEW i \in DOMAIN t PROVE i \in DOMAIN s \/ i = Len(s) + 1
      BY <3>3
    <3>5. Once(t, b, watcher[w].late)
      <4>1. ASSUME NEW i \in DOMAIN t, NEW k \in DOMAIN t, t[i].no = t[k].no PROVE i = k
        <5>1. CASE i \in DOMAIN s /\ k \in DOMAIN s
          <6>1. t[i] = s[i] /\ t[k] = s[k]
            BY <3>3, <5>1
          <6> QED BY <3>2, <4>1, <5>1, <6>1 DEF Once
        <5>2. CASE i \in DOMAIN s /\ k = Len(s) + 1
          <6>1. t[i] = s[i] /\ t[k] = x
            BY <3>3, <5>2
          <6> QED BY <1>2, <3>2, <4>1, <5>2, <6>1 DEF SaidIn
        <5>3. CASE k \in DOMAIN s /\ i = Len(s) + 1
          <6>1. t[k] = s[k] /\ t[i] = x
            BY <3>3, <5>3
          <6> QED BY <1>2, <3>2, <4>1, <5>3, <6>1 DEF SaidIn
        <5>4. CASE i = Len(s) + 1 /\ k = Len(s) + 1
          BY <5>4
        <5> QED BY <3>4, <5>1, <5>2, <5>3, <5>4
      <4>2. ASSUME NEW i \in DOMAIN t PROVE t[i].on = b /\ t[i].no \in watcher[w].late
        <5>1. CASE i \in DOMAIN s
          <6>1. t[i] = s[i]
            BY <3>3, <5>1
          <6> QED BY <3>2, <5>1, <6>1 DEF Once
        <5>2. CASE i = Len(s) + 1
          BY <1>2, <3>2, <3>3, <5>2
        <5> QED BY <3>4, <5>1, <5>2
      <4> QED BY <4>1, <4>2 DEF Once
    <3>6. SaidIn(t) = SaidIn(s) \cup {n}
      <4>1. ASSUME NEW m \in SaidIn(t) PROVE m \in SaidIn(s) \cup {n}
        <5>1. PICK i \in DOMAIN t : m = t[i].no
          BY DEF SaidIn
        <5>2. CASE i \in DOMAIN s
          BY <3>3, <5>1, <5>2 DEF SaidIn
        <5>3. CASE i = Len(s) + 1
          BY <1>2, <3>3, <5>1, <5>3
        <5> QED BY <3>4, <5>2, <5>3
      <4>2. ASSUME NEW m \in SaidIn(s) PROVE m \in SaidIn(t)
        <5>1. PICK i \in DOMAIN s : m = s[i].no
          BY DEF SaidIn
        <5>2. i \in DOMAIN t /\ t[i] = s[i]
          BY <3>3
        <5> QED BY <5>1, <5>2 DEF SaidIn
      <4>3. n \in SaidIn(t)
        <5>1. Len(s) + 1 \in DOMAIN t /\ t[Len(s) + 1].no = n
          BY <1>2, <3>3
        <5> QED BY <5>1 DEF SaidIn
      <4> QED BY <4>1, <4>2, <4>3
    <3> QED BY <3>1, <3>3, <3>5, <3>6 DEF s
  <2>2. CASE ~Hears(w, b)
    BY <1>3, <1>4, <1>5, <2>2
  <2> QED BY <2>1, <2>2
<1>10. heard' \in [Watchers -> Seq(Hearings)]
  BY <1>6, <1>9
<1> QED BY <1>9, <1>10 DEF n

\* a poster p goes on as j, to where it has a read lock, and what has been heard grows
LEMMA HeardMoves ==
  ASSUME LocalInv, NEW p \in Posters, NEW b \in LocalBranches, post[p].pc \in {"deliver", "redeliver"},
         Hear(p, b), \A w \in Watchers : watcher[w].branch = b => post[p].no \notin SaidIn(heard[w]),
         NEW j \in Posts, post' = [post EXCEPT ![p] = j],
         j.pc \in {"find", "next", "return"}, j.no = post[p].no,
         UNCHANGED <<tuned, listens, blocked, taker, watcher, ended>>,
         reads' = [reads EXCEPT ![p] = 1],
         \A w \in Watchers : Owed(j, watcher[w], SaidIn(heard'[w]))
  PROVE  LocalInv'
<1>1. post' \in [Posters -> Posts] /\ post'[p] = j /\ \A q \in Posters \ {p} : post'[q] = post[q]
  BY DEF LocalInv, LocalShape
<1>2. /\ heard' \in [Watchers -> Seq(Hearings)]
      /\ \A w \in Watchers : Once(heard'[w], watcher[w].branch, watcher[w].late)
      /\ \A w \in Watchers :
           SaidIn(heard'[w]) = IF watcher[w].pc = "on" /\ watcher[w].branch = b
                               THEN SaidIn(heard[w]) \cup {post[p].no} ELSE SaidIn(heard[w])
  BY HearStep
<1>3. reads' \in [Posters -> 0..2] /\ reads'[p] = 1 /\ \A q \in Posters \ {p} : reads'[q] = reads[q]
  BY DEF LocalInv, LocalShape
<1>4. LocalShape'
  BY <1>1, <1>2, <1>3 DEF LocalInv, LocalShape
<1>5. LockInv'
  <2>1. p \notin blocked
    BY DEF LocalInv, LockInv
  <2>2. \A q \in Posters : reads'[q] = HeldAt(post'[q].pc)
    BY <1>1, <1>3 DEF LocalInv, LockInv, HeldAt
  <2>3. \A q \in blocked : post'[q].pc \in {"rlock", "relock"}
    BY <1>1, <2>1 DEF LocalInv, LockInv, LocalShape
  <2> QED BY <2>2, <2>3 DEF LocalInv, LockInv
<1>6. NumberInv'
  <2>1. \A q \in Posters : /\ post'[q].no = post[q].no
                           /\ post'[q].pc = "idle" <=> post[q].pc = "idle"
                           /\ post'[q].pc \in {"idle", "rlock"} <=> post[q].pc \in {"idle", "rlock"}
    BY <1>1
  <2> QED BY <2>1 DEF LocalInv, NumberInv
<1>7. TunedInv'
  BY <1>2 DEF LocalInv, TunedInv
<1>8. OwedInv'
  <2>1. ASSUME NEW q \in Posters, NEW w \in Watchers
        PROVE  Owed(post'[q], watcher[w], SaidIn(heard'[w]))
    <3>1. CASE q = p
      BY <1>1, <3>1
    <3>2. CASE q # p
      <4>1. post'[q] = post[q] /\ Owed(post[q], watcher[w], SaidIn(heard[w]))
        BY <1>1, <3>2 DEF LocalInv, OwedInv
      <4>2. post[q].pc # "idle" => post[q].no # post[p].no
        BY <3>2 DEF LocalInv, NumberInv
      <4>3. post[q].pc # "idle" => (post[q].no \in SaidIn(heard'[w]) <=> post[q].no \in SaidIn(heard[w]))
        BY <1>2, <4>2
      <4> DEFINE said == SaidIn(heard[w])
                 more == SaidIn(heard'[w])
      <4> HIDE DEF said, more
      <4>4. Owed(post[q], watcher[w], said) => Owed(post[q], watcher[w], more)
        BY <4>3 DEF Owed, said, more
      <4> QED BY <4>1, <4>4 DEF said, more
    <3> QED BY <3>1, <3>2
  <2>2. \A q \in Posters, w \in Watchers : Owed(post'[q], watcher'[w], SaidIn(heard'[w]))
    BY <2>1
  <2> QED BY <2>2 DEF OwedInv
<1>9. PaidInv'
  <2>1. \A e \in ended, w \in Watchers : Paid(e, watcher[w], SaidIn(heard[w]))
    BY DEF LocalInv, PaidInv
  <2>2. \A e \in ended, w \in Watchers : Paid(e, watcher[w], SaidIn(heard'[w]))
    BY <1>2, <2>1 DEF Paid
  <2>3. \A e \in ended', w \in Watchers : Paid(e, watcher'[w], SaidIn(heard'[w]))
    BY <2>2
  <2> QED BY <2>3 DEF PaidInv
<1> QED BY <1>4, <1>5, <1>6, <1>7, <1>8, <1>9 DEF LocalInv

LEMMA DeliverInv == ASSUME LocalInv, NEW p \in Posters, Deliver(p) PROVE LocalInv'
<1> DEFINE place == IF listens THEN "find" ELSE "return"
           j == [post[p] EXCEPT !.pc = place]
           b == post[p].on
<1>1. post[p].pc = "deliver" /\ Hear(p, b) /\ post' = [post EXCEPT ![p] = j]
      /\ UNCHANGED <<tuned, listens, reads, blocked, taker, watcher, ended>>
  BY DEF Deliver, PostAt
<1>2. place \in {"find", "return"}
  OBVIOUS
<1>3. post[p] \in Posts /\ b \in LocalBranches
  BY LocalRows
<1> HIDE DEF place
<1>4. /\ j \in Posts /\ j.pc = place /\ j.no = post[p].no /\ j.on = b
      /\ j.copies = post[p].copies /\ j.copied = post[p].copied
  BY <1>2, <1>3 DEF Posts, PostPlaces
<1> HIDE DEF j
<1>5. \A w \in Watchers : Owed(post[p], watcher[w], SaidIn(heard[w]))
  BY DEF LocalInv, OwedInv
<1>6. \A w \in Watchers : post[p].no \notin SaidIn(heard[w])
  BY <1>1, <1>5 DEF Owed
<1>7. \A w \in Watchers :
           SaidIn(heard'[w]) = IF watcher[w].pc = "on" /\ watcher[w].branch = b
                               THEN SaidIn(heard[w]) \cup {post[p].no} ELSE SaidIn(heard[w])
  BY <1>1, <1>3, <1>6, HearStep
<1>8. ASSUME NEW w \in Watchers PROVE Owed(j, watcher[w], SaidIn(heard'[w]))
  <2>1. /\ Owed(post[p], watcher[w], SaidIn(heard[w])) /\ post[p].no \notin SaidIn(heard[w])
        /\ SaidIn(heard'[w]) = IF watcher[w].pc = "on" /\ watcher[w].branch = b
                               THEN SaidIn(heard[w]) \cup {post[p].no} ELSE SaidIn(heard[w])
    BY <1>5, <1>6, <1>7
  <2> QED BY <1>1, <1>2, <1>4, <2>1 DEF Owed
<1>9. reads' = [reads EXCEPT ![p] = 1]
  <2>1. reads[p] = 1 /\ reads \in [Posters -> 0..2]
    BY <1>1 DEF LocalInv, LockInv, HeldAt, LocalShape
  <2> QED BY <1>1, <2>1
<1>10. j.pc \in {"find", "next", "return"}
  BY <1>2, <1>4
<1> QED BY <1>1, <1>3, <1>4, <1>6, <1>8, <1>9, <1>10, HeardMoves

LEMMA RedeliverInv == ASSUME LocalInv, NEW p \in Posters, Redeliver(p) PROVE LocalInv'
<1>1. post[p].pc = "redeliver" /\ reads' = [reads EXCEPT ![p] = @ - 1]
      /\ UNCHANGED <<tuned, listens, blocked, taker, watcher, ended>>
  BY DEF Redeliver, PostAt
<1>2. PICK b \in post[p].copies :
        Hear(p, b) /\ post' = [post EXCEPT ![p].pc = "next", ![p].copies = @ \ {b}]
  BY DEF Redeliver
<1> DEFINE j == [post[p] EXCEPT !.pc = "next", !.copies = post[p].copies \ {b}]
<1>3. post[p] \in Posts /\ b \in LocalBranches
  BY LocalRows
<1>4. /\ j \in Posts /\ j.pc = "next" /\ j.no = post[p].no /\ j.on = post[p].on
      /\ j.copies = post[p].copies \ {b} /\ j.copied = post[p].copied
  BY <1>3 DEF Posts, PostPlaces
<1>5. post' = [post EXCEPT ![p] = j]
  BY <1>2
<1> HIDE DEF j
<1>6. \A w \in Watchers : Owed(post[p], watcher[w], SaidIn(heard[w]))
  BY DEF LocalInv, OwedInv
<1>7. \A w \in Watchers : watcher[w].branch = b => post[p].no \notin SaidIn(heard[w])
  BY <1>1, <1>6 DEF Owed
<1>8. \A w \in Watchers :
           SaidIn(heard'[w]) = IF watcher[w].pc = "on" /\ watcher[w].branch = b
                               THEN SaidIn(heard[w]) \cup {post[p].no} ELSE SaidIn(heard[w])
  BY <1>1, <1>2, <1>3, <1>7, HearStep
<1>9. ASSUME NEW w \in Watchers PROVE Owed(j, watcher[w], SaidIn(heard'[w]))
  <2>1. /\ Owed(post[p], watcher[w], SaidIn(heard[w]))
        /\ SaidIn(heard'[w]) = IF watcher[w].pc = "on" /\ watcher[w].branch = b
                               THEN SaidIn(heard[w]) \cup {post[p].no} ELSE SaidIn(heard[w])
    BY <1>6, <1>8
  <2> QED BY <1>1, <1>4, <2>1 DEF Owed
<1>10. reads' = [reads EXCEPT ![p] = 1]
  <2>1. reads[p] = 2 /\ reads \in [Posters -> 0..2]
    BY <1>1 DEF LocalInv, LockInv, HeldAt, LocalShape
  <2> QED BY <1>1, <2>1
<1> QED BY <1>1, <1>2, <1>3, <1>4, <1>5, <1>7, <1>9, <1>10, HeardMoves

LEMMA ReturnInv == ASSUME LocalInv, NEW p \in Posters, Return(p) PROVE LocalInv'
<1> DEFINE e == [no |-> post[p].no, on |-> post[p].on, copied |-> post[p].copied]
<1>1. post[p].pc = "return" /\ ended' = ended \cup {e} /\ post' = [post EXCEPT ![p] = IdlePost]
      /\ reads' = [reads EXCEPT ![p] = @ - 1]
      /\ UNCHANGED <<tuned, listens, blocked, taker, watcher, heard>>
  BY DEF Return, PostAt
<1>2. /\ post[p].no \in 1..MaxPostings /\ post[p].on \in LocalBranches /\ post[p].copied \in BOOLEAN
  BY <1>1, LocalRows, LocalAssumption DEF LocalInv, NumberInv
<1>3. e \in Endings /\ e.no = post[p].no /\ e.on = post[p].on /\ e.copied = post[p].copied
  BY <1>2 DEF Endings
<1> HIDE DEF e
<1>4. post' \in [Posters -> Posts] /\ post'[p] = IdlePost /\ \A q \in Posters \ {p} : post'[q] = post[q]
  BY <1>1, IdleIs DEF LocalInv, LocalShape
<1>5. reads' \in [Posters -> 0..2] /\ reads'[p] = 0 /\ \A q \in Posters \ {p} : reads'[q] = reads[q]
  <2>1. reads[p] = 1 /\ reads \in [Posters -> 0..2]
    BY <1>1 DEF LocalInv, LockInv, HeldAt, LocalShape
  <2> QED BY <1>1, <2>1
<1>6. LocalShape'
  BY <1>1, <1>3, <1>4, <1>5 DEF LocalInv, LocalShape
<1>7. LockInv'
  <2>1. p \notin blocked
    BY <1>1 DEF LocalInv, LockInv
  <2>2. \A q \in Posters : reads'[q] = HeldAt(post'[q].pc)
    BY <1>4, <1>5, IdleIs DEF LocalInv, LockInv, HeldAt
  <2>3. \A q \in blocked : post'[q].pc \in {"rlock", "relock"}
    BY <1>4, <2>1 DEF LocalInv, LockInv, LocalShape
  <2> QED BY <1>1, <2>2, <2>3 DEF LocalInv, LockInv
<1>8. NumberInv'
  <2>1. IsFiniteSet(ended')
    BY <1>1, FS_AddElement DEF LocalInv, NumberInv
  <2>2. ASSUME NEW q \in Posters, post'[q].pc # "idle"
        PROVE  /\ post'[q].no # 0 /\ \A f \in ended' : f.no # post'[q].no
               /\ \A r \in Posters : post'[r].pc # "idle" /\ post'[r].no = post'[q].no => r = q
    <3>1. q # p /\ post'[q] = post[q]
      BY <1>4, <2>2, IdleIs
    <3>2. /\ post[q].no # 0 /\ \A f \in ended : f.no # post[q].no
          /\ \A r \in Posters : post[r].pc # "idle" /\ post[r].no = post[q].no => r = q
      BY <2>2, <3>1 DEF LocalInv, NumberInv
    <3>3. e.no # post[q].no
      BY <1>1, <1>3, <3>1, <3>2
    <3>4. \A r \in Posters : post'[r].pc # "idle" => post'[r] = post[r]
      BY <1>4, IdleIs
    <3> QED BY <1>1, <3>1, <3>2, <3>3, <3>4
  <2>3. ASSUME NEW w \in Waiters, NEW n \in watcher[w].late
        PROVE  \/ \E f \in ended' : f.no = n
               \/ \E q \in Posters : post'[q].pc \notin {"idle", "rlock"} /\ post'[q].no = n
    <3>1. \/ \E f \in ended : f.no = n
          \/ \E q \in Posters : post[q].pc \notin {"idle", "rlock"} /\ post[q].no = n
      BY DEF LocalInv, NumberInv
    <3>2. ASSUME NEW q \in Posters, post[q].pc \notin {"idle", "rlock"}, post[q].no = n
          PROVE  e.no = n \/ (post'[q].pc \notin {"idle", "rlock"} /\ post'[q].no = n)
      <4>1. CASE q = p
        BY <1>3, <3>2, <4>1
      <4>2. CASE q # p
        BY <1>4, <3>2, <4>2
      <4> QED BY <4>1, <4>2
    <3> QED BY <1>1, <3>1, <3>2
  <2> QED BY <1>1, <2>1, <2>2, <2>3 DEF NumberInv
<1>9. TunedInv'
  BY <1>1 DEF LocalInv, TunedInv
<1>10. OwedInv'
  <2>1. ASSUME NEW q \in Posters, NEW w \in Watchers
        PROVE  Owed(post'[q], watcher[w], SaidIn(heard[w]))
    <3>1. CASE q = p
      BY <1>4, <3>1, IdleIs DEF Owed
    <3>2. CASE q # p
      BY <1>4, <3>2 DEF LocalInv, OwedInv
    <3> QED BY <3>1, <3>2
  <2>2. \A q \in Posters, w \in Watchers : Owed(post'[q], watcher'[w], SaidIn(heard'[w]))
    BY <1>1, <2>1
  <2> QED BY <2>2 DEF OwedInv
<1>11. PaidInv'
  <2>1. \A f \in ended, w \in Watchers : Paid(f, watcher[w], SaidIn(heard[w]))
    BY DEF LocalInv, PaidInv
  <2>2. \A w \in Watchers : Owed(post[p], watcher[w], SaidIn(heard[w]))
    BY DEF LocalInv, OwedInv
  <2>3. \A w \in Watchers : Paid(e, watcher[w], SaidIn(heard[w]))
    BY <1>1, <1>3, <2>2 DEF Paid, Owed
  <2>4. \A f \in ended', w \in Watchers : Paid(f, watcher'[w], SaidIn(heard'[w]))
    BY <1>1, <2>1, <2>3
  <2> QED BY <2>4 DEF PaidInv
<1> QED BY <1>6, <1>7, <1>8, <1>9, <1>10, <1>11 DEF LocalInv

-----------------------------------------------------------------------------
(* LocalMesh: the lock.                                                     *)

\* what letting the posters ps in does, to a client w that has just got its
\* subscription (or to none) and to those that have one
LEMMA AdmitIs ==
  ASSUME LocalInv, NEW ps \in SUBSET Posters, NEW w \in Waiters \cup {NoWaiter}, Admit(ps, w),
         \A p \in ps : post[p].pc \in {"rlock", "relock"}
  PROVE  /\ post' \in [Posters -> Posts] /\ reads' \in [Posters -> 0..2]
         /\ watcher' \in [Waiters -> WatcherRows]
         /\ \A p \in Posters \ ps : post'[p] = post[p] /\ reads'[p] = reads[p]
         /\ \A p \in ps :
              /\ post'[p].pc = Locked(post[p].pc) /\ post'[p].no = post[p].no
              /\ post'[p].on = post[p].on /\ post'[p].copies = post[p].copies
              /\ post'[p].copied = post[p].copied /\ reads'[p] = reads[p] + 1
         /\ \A v \in Waiters :
              /\ watcher'[v].pc = IF v = w THEN "on" ELSE watcher[v].pc
              /\ watcher'[v].branch = watcher[v].branch
              /\ watcher'[v].late = IF watcher'[v].pc = "on" THEN watcher[v].late \cup Began(ps)
                                    ELSE watcher[v].late
<1>1. ASSUME NEW p \in ps
      PROVE  /\ post'[p] \in Posts /\ reads'[p] \in 0..2
             /\ post'[p].pc = Locked(post[p].pc) /\ post'[p].no = post[p].no
             /\ post'[p].on = post[p].on /\ post'[p].copies = post[p].copies
             /\ post'[p].copied = post[p].copied /\ reads'[p] = reads[p] + 1
  <2> DEFINE pc == Locked(post[p].pc)
             j == [post[p] EXCEPT !.pc = pc]
  <2>1. post'[p] = j /\ reads'[p] = reads[p] + 1
    BY DEF Admit
  <2>2. pc \in PostPlaces
    BY DEF Locked, PostPlaces
  <2>3. post[p] \in Posts /\ reads[p] \in {0, 1}
    <3>1. post[p] \in Posts /\ reads[p] = HeldAt(post[p].pc) /\ post[p].pc \in {"rlock", "relock"}
      BY LocalRows DEF LocalInv, LockInv
    <3> QED BY <3>1 DEF HeldAt
  <2> HIDE DEF pc
  <2>4. /\ j \in Posts /\ j.pc = pc /\ j.no = post[p].no /\ j.on = post[p].on
        /\ j.copies = post[p].copies /\ j.copied = post[p].copied
    BY <2>2, <2>3 DEF Posts
  <2> QED BY <2>1, <2>3, <2>4 DEF pc
<1>2. \A p \in Posters \ ps : post'[p] = post[p] /\ reads'[p] = reads[p]
  BY DEF Admit
<1>3. \A p \in Posters : post[p] \in Posts /\ reads[p] \in 0..2
  BY DEF LocalInv, LocalShape
<1>4. post' = [p \in Posters |-> post'[p]] /\ reads' = [p \in Posters |-> reads'[p]]
  BY DEF Admit
<1>5. post' \in [Posters -> Posts] /\ reads' \in [Posters -> 0..2]
  BY <1>1, <1>2, <1>3, <1>4
<1>6. ASSUME NEW v \in Waiters
      PROVE  /\ watcher'[v] \in WatcherRows
             /\ watcher'[v].pc = IF v = w THEN "on" ELSE watcher[v].pc
             /\ watcher'[v].branch = watcher[v].branch
             /\ watcher'[v].late = IF watcher'[v].pc = "on" THEN watcher[v].late \cup Began(ps)
                                   ELSE watcher[v].late
  <2> DEFINE more == Began(ps)
             now == IF v = w THEN [watcher[v] EXCEPT !.pc = "on"] ELSE watcher[v]
             next == IF now.pc = "on" THEN [now EXCEPT !.late = now.late \cup more] ELSE now
  <2>1. watcher'[v] = next
    BY DEF Admit
  <2>2. watcher[v] \in WatcherRows
    BY LocalRows
  <2>3. more \subseteq 1..MaxPostings
    <3>1. \A p \in ps : post[p].no \in 0..MaxPostings /\ post[p].no # 0
      BY LocalRows DEF LocalInv, NumberInv
    <3>2. \A p \in ps : post[p].no \in 1..MaxPostings
      BY <3>1, LocalAssumption
    <3> QED BY <3>2 DEF Began
  <2> HIDE DEF more
  <2>4. /\ now \in WatcherRows /\ now.branch = watcher[v].branch /\ now.late = watcher[v].late
        /\ now.pc = IF v = w THEN "on" ELSE watcher[v].pc
    BY <2>2 DEF WatcherRows
  <2> HIDE DEF now
  <2>5. /\ next \in WatcherRows /\ next.pc = now.pc /\ next.branch = now.branch
        /\ next.late = IF now.pc = "on" THEN now.late \cup more ELSE now.late
    BY <2>3, <2>4 DEF WatcherRows
  <2> HIDE DEF next
  <2> QED BY <2>1, <2>4, <2>5 DEF more
<1>7. watcher' = [v \in Waiters |-> watcher'[v]]
  BY DEF Admit
<1>8. watcher' \in [Waiters -> WatcherRows]
  BY <1>6, <1>7
<1> QED BY <1>1, <1>2, <1>5, <1>6, <1>8

\* the posters ps get their read locks; with a subscription w, nobody has one before
LEMMA AdmitInv ==
  ASSUME LocalInv, NEW ps \in SUBSET Posters, NEW w \in Waiters \cup {NoWaiter}, Admit(ps, w),
         \A p \in ps : post[p].pc \in {"rlock", "relock"},
         UNCHANGED <<heard, ended>>, listens' \in BOOLEAN, taker' = NoWaiter,
         blocked' \subseteq blocked \ ps,
         w = NoWaiter => taker = NoWaiter /\ tuned' = tuned,
         w # NoWaiter => watcher[w].pc = "await" /\ ReadersGone,
         tuned' \in [LocalBranches -> SUBSET Watchers],
         \A v \in Watchers, b \in LocalBranches :
           v \in tuned'[b] <=> v \in tuned[b] \/ (v = w /\ watcher[w].branch = b)
  PROVE  LocalInv'
<1>1. /\ post' \in [Posters -> Posts] /\ reads' \in [Posters -> 0..2]
      /\ watcher' \in [Waiters -> WatcherRows]
      /\ \A p \in Posters \ ps : post'[p] = post[p] /\ reads'[p] = reads[p]
      /\ \A p \in ps :
           /\ post'[p].pc = Locked(post[p].pc) /\ post'[p].no = post[p].no
           /\ post'[p].on = post[p].on /\ post'[p].copies = post[p].copies
           /\ post'[p].copied = post[p].copied /\ reads'[p] = reads[p] + 1
      /\ \A v \in Waiters :
           /\ watcher'[v].pc = IF v = w THEN "on" ELSE watcher[v].pc
           /\ watcher'[v].branch = watcher[v].branch
           /\ watcher'[v].late = IF watcher'[v].pc = "on" THEN watcher[v].late \cup Began(ps)
                                 ELSE watcher[v].late
  BY AdmitIs
<1>2. /\ Watchers \subseteq Waiters /\ NoWaiter \notin Waiters /\ ended' = ended /\ heard' = heard
  BY LocalAssumption DEF Waiters
<1>3. LocalShape'
  BY <1>1 DEF LocalInv, LocalShape
\* a subscription has waited for every poster that had a lock
<1>4. w # NoWaiter => \A p \in Posters : post[p].pc \in {"idle", "rlock"}
  <2> SUFFICES ASSUME w # NoWaiter, NEW p \in Posters PROVE post[p].pc \in {"idle", "rlock"}
    OBVIOUS
  <2>1. reads[p] = 0 /\ reads[p] = HeldAt(post[p].pc)
    BY DEF ReadersGone, LocalInv, LockInv
  <2> QED BY <2>1 DEF HeldAt
<1>5. LockInv'
  <2>1. ASSUME NEW p \in Posters PROVE reads'[p] = HeldAt(post'[p].pc)
    <3>1. reads[p] = HeldAt(post[p].pc)
      BY DEF LocalInv, LockInv
    <3> QED BY <1>1, <3>1 DEF HeldAt, Locked
  <2>2. \A p \in blocked' : post'[p].pc \in {"rlock", "relock"}
    BY <1>1 DEF LocalInv, LockInv, LocalShape
  <2>3. ASSUME NEW v \in Waiters PROVE watcher'[v].pc # "await" /\ taker' # v
    <3>1. /\ watcher[v].pc = "await" => taker = v
          /\ w \in Waiters /\ watcher[w].pc = "await" => taker = w
      BY DEF LocalInv, LockInv
    <3>2. watcher'[v].pc = IF v = w THEN "on" ELSE watcher[v].pc
      BY <1>1
    <3>3. w = NoWaiter => taker = NoWaiter
      OBVIOUS
    <3>4. w # NoWaiter => watcher[w].pc = "await" /\ w \in Waiters
      OBVIOUS
    <3>5. v # NoWaiter
      BY <1>2
    <3> QED BY ONLY <3>1, <3>2, <3>3, <3>4, <3>5, taker' = NoWaiter
  <2> QED BY <2>1, <2>2, <2>3 DEF LockInv
<1>6. \A p \in Posters :
        /\ post'[p].no = post[p].no /\ (post'[p].pc = "idle" <=> post[p].pc = "idle")
        /\ post[p].pc \notin {"idle", "rlock"} => post'[p].pc \notin {"idle", "rlock"}
        /\ p \in ps => post'[p].pc \notin {"idle", "rlock"}
  BY <1>1 DEF Locked
<1>7. NumberInv'
  <2>1. ASSUME NEW v \in Waiters, NEW n \in watcher'[v].late
        PROVE  \/ \E e \in ended : e.no = n
               \/ \E p \in Posters : post'[p].pc \notin {"idle", "rlock"} /\ post'[p].no = n
    <3>1. CASE n \in watcher[v].late
      <4>1. \/ \E e \in ended : e.no = n
            \/ \E p \in Posters : post[p].pc \notin {"idle", "rlock"} /\ post[p].no = n
        BY <3>1 DEF LocalInv, NumberInv
      <4> QED BY <4>1, <1>6
    <3>2. CASE n \in Began(ps)
      <4>1. PICK p \in ps : post[p].no = n
        BY <3>2 DEF Began
      <4> QED BY <4>1, <1>6
    <3> QED BY <1>1, <2>1, <3>1, <3>2
  <2>2. ASSUME NEW q \in Posters, post'[q].pc # "idle"
        PROVE  /\ post'[q].no # 0 /\ \A e \in ended : e.no # post'[q].no
               /\ \A r \in Posters : post'[r].pc # "idle" /\ post'[r].no = post'[q].no => r = q
    BY <1>6, <2>2 DEF LocalInv, NumberInv
  <2>3. IsFiniteSet(ended)
    BY DEF LocalInv, NumberInv
  <2> QED BY <1>2, <2>1, <2>2, <2>3 DEF NumberInv
<1>8. TunedInv'
  <2>1. ASSUME NEW v \in Watchers, NEW b \in LocalBranches
        PROVE  v \in tuned'[b] <=> watcher'[v].pc \in {"on", "gone"} /\ watcher'[v].branch = b
    <3>1. v \in tuned[b] <=> watcher[v].pc \in {"on", "gone"} /\ watcher[v].branch = b
      BY DEF LocalInv, TunedInv
    <3>2. v \in tuned'[b] <=> v \in tuned[b] \/ (v = w /\ watcher[w].branch = b)
      OBVIOUS
    <3>3. /\ watcher'[v].pc = IF v = w THEN "on" ELSE watcher[v].pc
          /\ watcher'[v].branch = watcher[v].branch
      BY <1>1, <1>2
    <3> QED BY ONLY <3>1, <3>2, <3>3
  <2>2. ASSUME NEW v \in Waiters, watcher'[v].pc \in {"idle", "lock", "await"}
        PROVE  watcher'[v].late = {}
    BY <1>1, <2>2 DEF LocalInv, TunedInv
  <2>3. ASSUME NEW v \in Watchers PROVE Once(heard[v], watcher'[v].branch, watcher'[v].late)
    <3>1. Once(heard[v], watcher[v].branch, watcher[v].late)
      BY DEF LocalInv, TunedInv
    <3>2. watcher'[v].branch = watcher[v].branch /\ watcher[v].late \subseteq watcher'[v].late
      BY <1>1, <1>2
    <3> QED BY <3>1, <3>2 DEF Once
  <2> QED BY <1>2, <2>1, <2>2, <2>3 DEF TunedInv
<1>9. OwedInv'
  <2>1. ASSUME NEW p \in Posters, NEW v \in Watchers
        PROVE  Owed(post'[p], watcher'[v], SaidIn(heard[v]))
    <3>1. Owed(post[p], watcher[v], SaidIn(heard[v]))
      BY DEF LocalInv, OwedInv
    <3>2. /\ watcher'[v].branch = watcher[v].branch /\ watcher[v].late \subseteq watcher'[v].late
          /\ watcher'[v].pc = IF v = w THEN "on" ELSE watcher[v].pc
          /\ watcher'[v].pc = "on" => Began(ps) \subseteq watcher'[v].late
      BY <1>1, <1>2
    <3>3. CASE p \in ps
      <4>1. /\ post'[p].pc = Locked(post[p].pc) /\ post'[p].no = post[p].no
            /\ post'[p].on = post[p].on /\ post'[p].copies = post[p].copies
            /\ post'[p].copied = post[p].copied /\ post[p].pc \in {"rlock", "relock"}
        BY <1>1, <3>3
      <4>2. post[p].pc = "rlock" => post[p].no \in Began(ps)
        BY <3>3 DEF Began, PostAt
      <4>3. post[p].pc = "relock" => v # w
        BY <1>2, <1>4
      <4> QED BY <3>1, <3>2, <4>1, <4>2, <4>3 DEF Owed, Locked
    <3>4. CASE p \notin ps
      <4>1. post'[p] = post[p]
        BY <1>1, <3>4
      <4>2. post[p].pc \notin {"idle", "rlock"} => v # w
        BY <1>2, <1>4
      <4> QED BY <3>1, <3>2, <4>1, <4>2 DEF Owed
    <3> QED BY <3>3, <3>4
  <2> QED BY <1>2, <2>1 DEF OwedInv
<1>10. PaidInv'
  <2>1. ASSUME NEW e \in ended, NEW v \in Watchers PROVE Paid(e, watcher'[v], SaidIn(heard[v]))
    <3>1. Paid(e, watcher[v], SaidIn(heard[v]))
      BY DEF LocalInv, PaidInv
    <3>2. e.no \notin Began(ps)
      BY DEF LocalInv, NumberInv, Began, PostAt
    <3>3. v = w => watcher[v].late = {}
      BY <1>2 DEF LocalInv, TunedInv
    <3>4. /\ watcher'[v].pc = IF v = w THEN "on" ELSE watcher[v].pc
          /\ watcher'[v].branch = watcher[v].branch /\ heard'[v] = heard[v]
          /\ watcher'[v].pc = "on" => watcher'[v].late = watcher[v].late \cup Began(ps)
      BY <1>1, <1>2
    <3>5. watcher'[v].pc = "on" /\ e.no \in watcher'[v].late
          => watcher[v].pc = "on" /\ e.no \in watcher[v].late
      BY <3>2, <3>3, <3>4
    <3> QED BY <3>1, <3>4, <3>5 DEF Paid
  <2> QED BY <1>2, <2>1 DEF PaidInv
<1> QED BY <1>3, <1>5, <1>7, <1>8, <1>9, <1>10 DEF LocalInv

LEMMA RLockInv == ASSUME LocalInv, NEW p \in Posters, RLock(p) PROVE LocalInv'
<1>1. post[p].pc \in {"rlock", "relock"} /\ p \notin blocked
      /\ UNCHANGED <<tuned, listens, taker, heard, ended>>
  BY DEF RLock
<1>2. CASE taker = NoWaiter /\ Admit({p}, NoWaiter) /\ UNCHANGED blocked
  <2>1. /\ listens' \in BOOLEAN /\ tuned' \in [LocalBranches -> SUBSET Watchers]
        /\ blocked' \subseteq blocked \ {p}
    BY <1>1, <1>2 DEF LocalInv, LocalShape
  <2>2. \A v \in Watchers, b \in LocalBranches :
           v \in tuned'[b] <=> v \in tuned[b] \/ (v = NoWaiter /\ watcher[NoWaiter].branch = b)
    BY <1>1, LocalAssumption
  <2>3. /\ \A q \in {p} : post[q].pc \in {"rlock", "relock"}
        /\ UNCHANGED <<heard, ended>> /\ taker' = NoWaiter /\ tuned' = tuned /\ taker = NoWaiter
        /\ {p} \in SUBSET Posters /\ NoWaiter \in Waiters \cup {NoWaiter}
    BY <1>1, <1>2
  <2> QED BY <1>2, <2>1, <2>2, <2>3, AdmitInv
<1>3. CASE taker # NoWaiter /\ blocked' = blocked \cup {p} /\ UNCHANGED <<reads, post, watcher>>
  <2>1. LocalShape' /\ LockInv'
    BY <1>1, <1>3 DEF LocalInv, LocalShape, LockInv
  <2>2. NumberInv' /\ TunedInv'
    BY <1>1, <1>3 DEF LocalInv, NumberInv, TunedInv
  <2>3. OwedInv' /\ PaidInv'
    BY <1>1, <1>3 DEF LocalInv, OwedInv, PaidInv
  <2> QED BY <2>1, <2>2, <2>3 DEF LocalInv
<1> QED BY <1>2, <1>3 DEF RLock

LEMMA SubscribeLocalInv == ASSUME LocalInv, NEW w \in Waiters, SubscribeLocal(w) PROVE LocalInv'
<1>1. /\ watcher[w].pc = "await" /\ ReadersGone /\ Admit(blocked, w) /\ taker' = NoWaiter
      /\ blocked' = {} /\ UNCHANGED <<heard, ended>>
      /\ IF w = Listener THEN listens' = TRUE /\ UNCHANGED tuned
         ELSE tuned' = [tuned EXCEPT ![watcher[w].branch] = @ \cup {w}] /\ UNCHANGED listens
  BY DEF SubscribeLocal
<1>2. /\ tuned \in [LocalBranches -> SUBSET Watchers] /\ listens \in BOOLEAN
      /\ blocked \in SUBSET Posters /\ \A p \in blocked : post[p].pc \in {"rlock", "relock"}
      /\ watcher[w].branch \in LocalBranches /\ w # NoWaiter /\ Listener \notin Watchers
  BY LocalRows, LocalAssumption DEF LocalInv, LocalShape, LockInv, Waiters
<1>3. /\ listens' \in BOOLEAN /\ tuned' \in [LocalBranches -> SUBSET Watchers]
      /\ \A v \in Watchers, b \in LocalBranches :
           v \in tuned'[b] <=> v \in tuned[b] \/ (v = w /\ watcher[w].branch = b)
  <2>1. CASE w = Listener
    BY <1>1, <1>2, <2>1
  <2>2. CASE w # Listener
    <3> DEFINE c == watcher[w].branch
    <3>1. w \in Watchers /\ tuned' = [tuned EXCEPT ![c] = tuned[c] \cup {w}] /\ listens' = listens
          /\ c \in LocalBranches
      BY <1>1, <1>2, <2>2 DEF Waiters
    <3> HIDE DEF c
    <3> QED BY <1>2, <3>1 DEF c
  <2> QED BY <2>1, <2>2
<1>4. w \in Waiters \cup {NoWaiter} /\ blocked' \subseteq blocked \ blocked
  BY <1>1
<1> QED BY <1>1, <1>2, <1>3, <1>4, AdmitInv

-----------------------------------------------------------------------------
(* LocalMesh: clients come and go.                                          *)

\* a client or the listener, w, goes on as v; it has heard nothing, or hears no more
LEMMA WatcherMoves ==
  ASSUME LocalInv, NEW w \in Waiters, NEW v \in WatcherRows, watcher' = [watcher EXCEPT ![w] = v],
         UNCHANGED <<tuned, listens, reads, blocked, post, heard, ended>>,
         taker' \in Waiters \cup {NoWaiter},
         \A u \in Waiters : watcher'[u].pc = "await" <=> taker' = u,
         v.late = watcher[w].late, v.pc # "on",
         \/ watcher[w].pc \in {"idle", "lock"} /\ v.pc \in {"lock", "await"} 
         \/ watcher[w].pc = "on" /\ v.pc = "gone" /\ v.branch = watcher[w].branch,
         watcher[w].pc \in {"idle", "lock"} => v.branch = watcher[w].branch \/ w \in Watchers
  PROVE  LocalInv'
<1>1. /\ watcher' \in [Waiters -> WatcherRows] /\ watcher'[w] = v
      /\ \A u \in Waiters \ {w} : watcher'[u] = watcher[u]
  BY DEF LocalInv, LocalShape
<1>2. LocalShape' /\ LockInv'
  BY <1>1 DEF LocalInv, LocalShape, LockInv
<1>3. \A u \in Waiters : watcher'[u].late = watcher[u].late
  BY <1>1
<1>4. NumberInv'
  BY <1>3 DEF LocalInv, NumberInv
<1>5. \A u \in Watchers : u \in Waiters /\ (watcher'[u].branch = watcher[u].branch \/ SaidIn(heard[u]) = {})
  <2> SUFFICES ASSUME NEW u \in Watchers, watcher'[u].branch # watcher[u].branch
               PROVE  SaidIn(heard[u]) = {}
    BY LocalRows
  <2>1. u = w /\ watcher[u].pc \in {"idle", "lock"}
    BY <1>1, LocalRows
  <2>2. watcher[u].late = {}
    BY <2>1, LocalRows DEF LocalInv, TunedInv
  <2> QED BY <2>2, SaidIsUsed
<1>6. TunedInv'
  <2>1. ASSUME NEW u \in Watchers, NEW b \in LocalBranches
        PROVE  u \in tuned[b] <=> watcher'[u].pc \in {"on", "gone"} /\ watcher'[u].branch = b
    <3>1. u \in tuned[b] <=> watcher[u].pc \in {"on", "gone"} /\ watcher[u].branch = b
      BY DEF LocalInv, TunedInv
    <3>2. CASE u = w
      BY <1>1, <3>1, <3>2
    <3>3. CASE u # w
      BY <1>1, <3>1, <3>3, LocalRows
    <3> QED BY <3>2, <3>3
  <2>2. ASSUME NEW u \in Waiters, watcher'[u].pc \in {"idle", "lock", "await"}
        PROVE  watcher'[u].late = {}
    <3>1. CASE u = w
      BY <1>1, <2>2, <3>1 DEF LocalInv, TunedInv
    <3>2. CASE u # w
      BY <1>1, <2>2, <3>2 DEF LocalInv, TunedInv
    <3> QED BY <3>1, <3>2
  <2>3. ASSUME NEW u \in Watchers PROVE Once(heard[u], watcher'[u].branch, watcher'[u].late)
    <3>1. Once(heard[u], watcher[u].branch, watcher[u].late)
      BY DEF LocalInv, TunedInv
    <3> QED BY <1>3, <1>5, <3>1 DEF Once, SaidIn
  <2> QED BY <2>1, <2>2, <2>3 DEF TunedInv
<1>7. \A u \in Watchers : u \in Waiters /\ (watcher'[u].pc = "on" => watcher'[u] = watcher[u])
  BY <1>1, LocalRows
<1>8. OwedInv'
  <2>1. ASSUME NEW p \in Posters, NEW u \in Watchers
        PROVE  Owed(post[p], watcher'[u], SaidIn(heard[u]))
    <3>1. Owed(post[p], watcher[u], SaidIn(heard[u]))
      BY DEF LocalInv, OwedInv
    <3> QED BY <1>5, <1>7, <3>1 DEF Owed
  <2> QED BY <2>1 DEF OwedInv
<1>9. PaidInv'
  <2>1. ASSUME NEW e \in ended, NEW u \in Watchers PROVE Paid(e, watcher'[u], SaidIn(heard[u]))
    BY <1>7 DEF LocalInv, PaidInv, Paid
  <2> QED BY <2>1 DEF PaidInv
<1> QED BY <1>2, <1>4, <1>6, <1>8, <1>9 DEF LocalInv

LEMMA OpenStreamInv ==
  ASSUME LocalInv, NEW w \in Waiters, NEW b \in LocalBranches, OpenStream(w, b) PROVE LocalInv'
<1> DEFINE v == [watcher[w] EXCEPT !.pc = "lock", !.branch = b]
<1>1. /\ w # Listener /\ watcher[w].pc = "idle" /\ watcher' = [watcher EXCEPT ![w] = v]
      /\ UNCHANGED <<tuned, listens, reads, blocked, taker, post, heard, ended>>
  BY DEF OpenStream
<1>2. v \in WatcherRows /\ v.pc = "lock" /\ v.branch = b /\ v.late = watcher[w].late
  BY LocalRows DEF WatcherRows
<1> HIDE DEF v
<1>3. /\ watcher \in [Waiters -> WatcherRows] /\ taker \in Waiters \cup {NoWaiter}
      /\ \A u \in Waiters : watcher[u].pc = "await" <=> taker = u
  BY DEF LocalInv, LocalShape, LockInv
<1>4. ASSUME NEW u \in Waiters PROVE watcher'[u].pc = "await" <=> taker' = u
  BY <1>1, <1>2, <1>3
<1>5. w \in Watchers
  BY <1>1 DEF Waiters
<1> QED BY <1>1, <1>2, <1>3, <1>4, <1>5, WatcherMoves

LEMMA AskToWriteInv == ASSUME LocalInv, NEW w \in Waiters, AskToWrite(w) PROVE LocalInv'
<1> DEFINE v == [watcher[w] EXCEPT !.pc = "await"]
<1>1. /\ watcher[w].pc = "lock" /\ taker = NoWaiter /\ taker' = w
      /\ watcher' = [watcher EXCEPT ![w] = v]
      /\ UNCHANGED <<tuned, listens, reads, blocked, post, heard, ended>>
  BY DEF AskToWrite
<1>2. v \in WatcherRows /\ v.pc = "await" /\ v.branch = watcher[w].branch /\ v.late = watcher[w].late
  BY LocalRows DEF WatcherRows
<1> HIDE DEF v
<1>3. /\ watcher \in [Waiters -> WatcherRows] /\ NoWaiter \notin Waiters
      /\ \A u \in Waiters : watcher[u].pc = "await" <=> taker = u
  BY LocalAssumption DEF LocalInv, LocalShape, LockInv, Waiters
<1>4. ASSUME NEW u \in Waiters PROVE watcher'[u].pc = "await" <=> taker' = u
  BY <1>1, <1>2, <1>3
<1> QED BY <1>1, <1>2, <1>4, WatcherMoves

LEMMA CloseStreamInv == ASSUME LocalInv, NEW w \in Waiters, CloseStream(w) PROVE LocalInv'
<1> DEFINE v == [watcher[w] EXCEPT !.pc = "gone"]
<1>1. /\ watcher[w].pc = "on" /\ watcher' = [watcher EXCEPT ![w] = v]
      /\ UNCHANGED <<tuned, listens, reads, blocked, taker, post, heard, ended>>
  BY DEF CloseStream
<1>2. v \in WatcherRows /\ v.pc = "gone" /\ v.branch = watcher[w].branch /\ v.late = watcher[w].late
  BY LocalRows DEF WatcherRows
<1> HIDE DEF v
<1>3. /\ watcher \in [Waiters -> WatcherRows] /\ taker \in Waiters \cup {NoWaiter}
      /\ \A u \in Waiters : watcher[u].pc = "await" <=> taker = u
  BY DEF LocalInv, LocalShape, LockInv
<1>4. ASSUME NEW u \in Waiters PROVE watcher'[u].pc = "await" <=> taker' = u
  BY <1>1, <1>2, <1>3
<1> QED BY <1>1, <1>2, <1>3, <1>4, WatcherMoves

LEMMA LocalNextInv == LocalInv /\ [LocalNext]_localVars => LocalInv'
<1> SUFFICES ASSUME LocalInv, [LocalNext]_localVars PROVE LocalInv'
  OBVIOUS
<1>1. ASSUME NEW p \in Posters, PostStep(p) PROVE LocalInv'
  BY <1>1, RLockInv, DeliverInv, FindInv, PropagateNextInv, RedeliverInv, ReturnInv DEF PostStep
<1>2. ASSUME NEW p \in Posters, NEW b \in LocalBranches, Post(p, b) PROVE LocalInv'
  BY <1>2, PostNewInv
<1>3. ASSUME NEW w \in Waiters, WriterStep(w) PROVE LocalInv'
  BY <1>3, AskToWriteInv, SubscribeLocalInv DEF WriterStep
<1>4. ASSUME NEW w \in Waiters, CloseStream(w) PROVE LocalInv'
  BY <1>4, CloseStreamInv
<1>5. ASSUME NEW w \in Waiters, NEW b \in LocalBranches, OpenStream(w, b) PROVE LocalInv'
  BY <1>5, OpenStreamInv
<1>6. CASE UNCHANGED localVars
  <2>1. LocalShape' /\ LockInv' /\ NumberInv'
    BY <1>6 DEF localVars, LocalInv, LocalShape, LockInv, NumberInv
  <2>2. TunedInv' /\ OwedInv' /\ PaidInv'
    BY <1>6 DEF localVars, LocalInv, TunedInv, OwedInv, PaidInv
  <2> QED BY <2>1, <2>2 DEF LocalInv
<1> QED BY <1>1, <1>2, <1>3, <1>4, <1>5, <1>6 DEF LocalNext

\* The bus in the server keeps to its types: a handler holds a read lock twice only while
\* it publishes a copy, and at most one subscription is waited for (LocalBus).
THEOREM LocalTypes == LocalInit /\ [][LocalNext]_localVars => []LocalTypeOK
<1>1. LocalInv => LocalTypeOK
  BY DEF LocalInv, LocalShape, LocalTypeOK, Posts, PostPlaces, WatcherRows, Hearings, Endings
<1> QED BY <1>1, LocalInitInv, LocalNextInv, PTL

\* A client of the server without NATS hears each event of its branch, or copied to it,
\* that was published after it had subscribed, exactly once, and nothing else
\* (LocalBus.Publish, Subscribe and the propagation's handler).
THEOREM HeardExactlyOnce == LocalInit /\ [][LocalNext]_localVars => []HeardOnce
<1>1. ASSUME LocalInv, NEW w \in Watchers
      PROVE  /\ \A i, k \in DOMAIN heard[w] : heard[w][i].no = heard[w][k].no => i = k
             /\ \A i \in DOMAIN heard[w] : /\ heard[w][i].on = watcher[w].branch
                                           /\ heard[w][i].no \in watcher[w].late
  BY <1>1 DEF LocalInv, TunedInv, Once
<1>2. ASSUME LocalInv, NEW w \in Watchers, watcher[w].pc = "on", NEW e \in ended,
             e.no \in watcher[w].late, e.on = watcher[w].branch \/ e.copied
      PROVE  \E i \in DOMAIN heard[w] : heard[w][i].no = e.no
  <2>1. e.no \in SaidIn(heard[w])
    BY <1>2 DEF LocalInv, PaidInv, Paid
  <2> QED BY <2>1 DEF SaidIn
<1>3. LocalInv => HeardOnce
  BY <1>1, <1>2 DEF HeardOnce
<1> QED BY <1>3, LocalInitInv, LocalNextInv, PTL

-----------------------------------------------------------------------------
(* ChangeWatch: the inductive invariant.                                    *)

Values == 1 .. MaxChanges + 1
Notices == {Arrival(p) : p \in Packages} \cup {Removal(p) : p \in Packages}
             \cup {NewConfig(v) : v \in Values}
Trackers == [initialized : BOOLEAN, pkgs : SUBSET Packages, value : 0 .. MaxChanges + 1]

WatchShape ==
  /\ installed \in [Peers -> SUBSET Packages] /\ told \in [Peers -> SUBSET Packages]
  /\ untold \in [Peers -> SUBSET Packages] /\ installing \in [Peers -> SUBSET Packages]
  /\ variable \in [Peers -> Values] /\ tracker \in [Peers -> Trackers]
  /\ inbox \in [Peers -> Seq(Notices)] /\ used \in [changes : 0 .. MaxChanges, lost : Nat]

\* a variable has as many values as users have given it
CountedChanges == \A a \in Peers : variable[a] <= used.changes + 1

WatchInv == WatchShape /\ CountedChanges /\ ChangesAreTold

LEMMA ChangesFinite ==
  ASSUME WatchInv, NEW a \in Peers, NEW seen \in SUBSET Listings
  PROVE  IsFiniteSet(Changes(a, seen)) /\ Changes(a, seen) \subseteq Notices
<1> DEFINE N == New(a, seen)
           G == Gone(a, seen)
           A == {Arrival(p) : p \in N}
           B == {Removal(p) : p \in G}
           C == IF NewValue(a, seen) THEN {NewConfig(variable[a])} ELSE {}
<1>1. N \subseteq Packages /\ G \subseteq Packages
  BY DEF WatchInv, WatchShape, Trackers, New, Gone
<1>2. IsFiniteSet(N) /\ IsFiniteSet(G)
  BY <1>1, WatchAssumption, FS_Subset
<1>3. A \subseteq Notices /\ B \subseteq Notices
  BY <1>1 DEF Notices
<1>4. C \subseteq Notices /\ IsFiniteSet(C)
  BY FS_EmptySet, FS_Singleton DEF WatchInv, WatchShape, Notices
<1>5. [p \in N |-> Arrival(p)] \in Surjection(N, A) /\ [p \in G |-> Removal(p)] \in Surjection(G, B)
  BY DEF Surjection
<1>6. Changes(a, seen) = (A \cup B) \cup C
  BY DEF Changes
<1> HIDE DEF A, B, C, N, G
<1>7. IsFiniteSet(A) /\ IsFiniteSet(B)
  BY <1>2, <1>5, FS_Surjection
<1>8. IsFiniteSet((A \cup B) \cup C)
  BY <1>4, <1>7, FS_Union
<1> QED BY <1>3, <1>4, <1>6, <1>8

\* SetToSeq gives a sequence of the set's members
LEMMA SetToSeqIs == ASSUME NEW S, IsFiniteSet(S) PROVE SetToSeq(S) \in Seq(S)
<1> DEFINE n == Cardinality(S)
<1>1. n \in Nat /\ ExistsBijection(1..n, S)
  BY FS_CardinalityType
<1>2. SetToSeq(S) = CHOOSE f \in [1..n -> S] : IsInjective(f)
  BY DEF SetToSeq
<1> HIDE DEF n
<1>3. PICK f \in [1..n -> S] : IsInjective(f)
  BY <1>1 DEF ExistsBijection, Bijection, Injection, IsInjective
<1>4. SetToSeq(S) \in [1..n -> S]
  BY <1>2, <1>3
<1> QED BY <1>1, <1>4

LEMMA WatchInitInv == WatchInit => WatchInv
<1> SUFFICES ASSUME WatchInit PROVE WatchInv
  OBVIOUS
<1>1. /\ installed \in [Peers -> SUBSET Packages] /\ told \in [Peers -> SUBSET Packages]
      /\ untold \in [Peers -> SUBSET Packages] /\ installing \in [Peers -> SUBSET Packages]
  BY WatchAssumption DEF WatchInit, ReplayContext
<1>2. NewTracker \in Trackers
  BY WatchAssumption DEF Trackers, NewTracker
<1>3. tracker \in [Peers -> Trackers]
  BY <1>2 DEF WatchInit
<1>4. /\ variable \in [Peers -> Values] /\ inbox \in [Peers -> Seq(Notices)]
      /\ used \in [changes : 0 .. MaxChanges, lost : Nat]
  BY WatchAssumption DEF WatchInit, Values
<1>5. CountedChanges
  BY DEF WatchInit, CountedChanges
<1>6. ChangesAreTold
  BY DEF WatchInit, ChangesAreTold
<1> QED BY <1>1, <1>3, <1>4, <1>5, <1>6 DEF WatchInv, WatchShape

-----------------------------------------------------------------------------
(* ChangeWatch: the steps.                                                  *)

LEMMA UserChangeInv == ASSUME WatchInv, NEW a \in Peers, UserChange(a) PROVE WatchInv'
<1> DEFINE c == used.changes
<1>1. used \in [changes : 0 .. MaxChanges, lost : Nat]
  BY DEF WatchInv, WatchShape
<1>2. /\ c < MaxChanges /\ used' = [used EXCEPT !.changes = c + 1]
      /\ UNCHANGED <<tracker, inbox, installing, told, untold>>
  BY DEF UserChange
<1>3. c \in 0..MaxChanges /\ used' \in [changes : 0 .. MaxChanges, lost : Nat] /\ used'.changes = c + 1
  BY <1>1, <1>2, WatchAssumption
<1>4. /\ installed \in [Peers -> SUBSET Packages] /\ variable \in [Peers -> Values]
      /\ \A b \in Peers : variable[b] <= c + 1
  BY DEF WatchInv, WatchShape, CountedChanges
<1> HIDE DEF c
<1>5. installed' \in [Peers -> SUBSET Packages]
  BY <1>4 DEF UserChange
<1>6. variable' \in [Peers -> Values] /\ \A b \in Peers : variable'[b] <= c + 2
  <2>1. CASE UNCHANGED variable
    BY <1>3, <1>4, <2>1 DEF Values
  <2>2. CASE variable' = [variable EXCEPT ![a] = @ + 1]
    <3>1. variable[a] + 1 \in Values
      BY <1>2, <1>3, <1>4, WatchAssumption DEF Values
    <3>2. \A b \in Peers : variable'[b] = IF b = a THEN variable[a] + 1 ELSE variable[b]
      BY <1>4, <2>2
    <3>3. variable' \in [Peers -> Values]
      BY <1>4, <2>2, <3>1
    <3> QED BY <1>3, <1>4, <3>2, <3>3 DEF Values
  <2> QED BY <2>1, <2>2 DEF UserChange
<1>7. WatchShape'
  BY <1>2, <1>3, <1>5, <1>6 DEF WatchInv, WatchShape
<1>8. CountedChanges'
  BY <1>3, <1>6 DEF CountedChanges
<1>9. ChangesAreTold'
  BY <1>2 DEF WatchInv, ChangesAreTold
<1> QED BY <1>7, <1>8, <1>9 DEF WatchInv

\* what the trackers and the peers know after a scan, package by package
LEMMA ScanTells ==
  ASSUME WatchInv, NEW a \in Peers, NEW seen \in SUBSET Listings, NEW lost \in SUBSET Changes(a, seen),
         NEW p \in Packages, tracker[a].initialized,
         p \notin untold[a] \/ p \in New(a, seen) \cup Gone(a, seen),
         Arrival(p) \notin lost, Removal(p) \notin lost,
         p \notin (tracker[a].pkgs \ installed[a]) \cap Npm \cap Listed(seen)
  PROVE  p \in (told[a] \cup {q \in Packages : Arrival(q) \in Changes(a, seen) \ lost})
                 \ {q \in Packages : Removal(q) \in Changes(a, seen) \ lost}
         <=> p \in Noted(a, seen).pkgs
<1>1. Arrival(p) \in Changes(a, seen) <=> p \in New(a, seen)
  BY DEF Changes, Arrival, Removal, NewConfig
<1>2. Removal(p) \in Changes(a, seen) <=> p \in Gone(a, seen)
  BY DEF Changes, Arrival, Removal, NewConfig
<1>3. p \in Noted(a, seen).pkgs
        <=> \/ p \in installed[a] /\ p \in Listed(seen)
            \/ p \in tracker[a].pkgs /\ p \notin Listed(seen)
  BY DEF Noted
<1>4. /\ p \in New(a, seen) <=> p \in installed[a] /\ p \notin tracker[a].pkgs /\ p \in Listed(seen)
      /\ p \in Gone(a, seen) <=> /\ p \in tracker[a].pkgs /\ p \notin installed[a] /\ p \notin Npm
                                 /\ p \in Listed(seen)
  BY DEF New, Gone
<1>5. p \notin untold[a] => (p \in told[a] <=> p \in tracker[a].pkgs)
  BY DEF WatchInv, ChangesAreTold
<1> DEFINE out == Changes(a, seen) \ lost
<1>6. (Arrival(p) \in out <=> p \in New(a, seen)) /\ (Removal(p) \in out <=> p \in Gone(a, seen))
  BY <1>1, <1>2
<1> HIDE DEF out
<1>7. p \in (told[a] \cup {q \in Packages : Arrival(q) \in out}) \ {q \in Packages : Removal(q) \in out}
      <=> (p \in told[a] \/ p \in New(a, seen)) /\ p \notin Gone(a, seen)
  BY <1>6
<1>8. (p \in told[a] \/ p \in New(a, seen)) /\ p \notin Gone(a, seen) <=> p \in Noted(a, seen).pkgs
  BY <1>3, <1>4, <1>5
<1> QED BY <1>7, <1>8 DEF out

LEMMA ScanInv == ASSUME WatchInv, NEW a \in Peers, Scan(a) PROVE WatchInv'
<1>1. PICK seen \in SUBSET Listings : \E lost \in SUBSET Changes(a, seen) :
        LET out == Changes(a, seen) \ lost
            missing == {p \in Packages : Arrival(p) \in lost \/ Removal(p) \in lost}
            quietly == (tracker[a].pkgs \ installed[a]) \cap Npm \cap Listed(seen)
        IN /\ used' = [used EXCEPT !.lost = @ + Cardinality(lost) + Cardinality(Listings \ seen)]
           /\ inbox' = Delivered(a, SetToSeq(out))
           /\ tracker' = [tracker EXCEPT ![a] = Noted(a, seen)]
           /\ told' = [told EXCEPT ![a] = (@ \cup {p \in Packages : Arrival(p) \in out})
                                          \ {p \in Packages : Removal(p) \in out}]
           /\ untold' = [untold EXCEPT ![a] =
                IF tracker[a].initialized
                THEN (@ \ (New(a, seen) \cup Gone(a, seen))) \cup missing \cup quietly
                ELSE Packages]
           /\ UNCHANGED <<installed, variable, installing>>
  BY DEF Scan
<1>2. PICK lost \in SUBSET Changes(a, seen) :
        LET out == Changes(a, seen) \ lost
            missing == {p \in Packages : Arrival(p) \in lost \/ Removal(p) \in lost}
            quietly == (tracker[a].pkgs \ installed[a]) \cap Npm \cap Listed(seen)
        IN /\ used' = [used EXCEPT !.lost = @ + Cardinality(lost) + Cardinality(Listings \ seen)]
           /\ inbox' = Delivered(a, SetToSeq(out))
           /\ tracker' = [tracker EXCEPT ![a] = Noted(a, seen)]
           /\ told' = [told EXCEPT ![a] = (@ \cup {p \in Packages : Arrival(p) \in out})
                                          \ {p \in Packages : Removal(p) \in out}]
           /\ untold' = [untold EXCEPT ![a] =
                IF tracker[a].initialized
                THEN (@ \ (New(a, seen) \cup Gone(a, seen))) \cup missing \cup quietly
                ELSE Packages]
           /\ UNCHANGED <<installed, variable, installing>>
  BY <1>1
<1> DEFINE out == Changes(a, seen) \ lost
           missing == {p \in Packages : Arrival(p) \in lost \/ Removal(p) \in lost}
           quietly == (tracker[a].pkgs \ installed[a]) \cap Npm \cap Listed(seen)
           t == (told[a] \cup {p \in Packages : Arrival(p) \in out})
                   \ {p \in Packages : Removal(p) \in out}
           u == IF tracker[a].initialized
                THEN (untold[a] \ (New(a, seen) \cup Gone(a, seen))) \cup missing \cup quietly
                ELSE Packages
           k == Cardinality(lost) + Cardinality(Listings \ seen)
           noted == Noted(a, seen)
<1>3. /\ inbox' = Delivered(a, SetToSeq(out)) /\ tracker' = [tracker EXCEPT ![a] = noted]
      /\ told' = [told EXCEPT ![a] = t] /\ untold' = [untold EXCEPT ![a] = u]
      /\ UNCHANGED <<installed, variable, installing>>
  BY <1>2
<1>4. used' = [used EXCEPT !.lost = @ + Cardinality(lost) + Cardinality(Listings \ seen)]
  BY <1>2
<1>5. IsFiniteSet(out) /\ out \subseteq Notices /\ IsFiniteSet(lost)
  BY ChangesFinite, FS_Subset
<1>6. IsFiniteSet(Listings)
  <2>1. Listings = ({"pip"} \cup {"npm"}) \cup {"env"}
    BY DEF Listings
  <2> QED BY <2>1, FS_Singleton, FS_Union
<1>7. /\ installed \in [Peers -> SUBSET Packages] /\ told \in [Peers -> SUBSET Packages]
      /\ untold \in [Peers -> SUBSET Packages] /\ tracker \in [Peers -> Trackers]
      /\ variable \in [Peers -> Values] /\ inbox \in [Peers -> Seq(Notices)]
      /\ used \in [changes : 0 .. MaxChanges, lost : Nat]
  BY DEF WatchInv, WatchShape
<1>8. Cardinality(lost) \in Nat /\ Cardinality(Listings \ seen) \in Nat
  BY <1>5, <1>6, FS_CardinalityType, FS_Subset
<1>9. used' \in [changes : 0 .. MaxChanges, lost : Nat] /\ used'.changes = used.changes
  <2> DEFINE x == Cardinality(lost)
             y == Cardinality(Listings \ seen)
  <2>1. used' = [used EXCEPT !.lost = used.lost + x + y] /\ x \in Nat /\ y \in Nat
    BY <1>4, <1>8
  <2> HIDE DEF x, y
  <2> DEFINE l == used.lost + x + y
  <2>2. l \in Nat
    BY <1>7, <2>1
  <2>3. used' = [used EXCEPT !.lost = l]
    BY <2>1
  <2> HIDE DEF l
  <2> QED BY <1>7, <2>2, <2>3
<1>10. noted \in Trackers
  <2> DEFINE pk == (installed[a] \cap Listed(seen)) \cup (tracker[a].pkgs \ Listed(seen))
             v == IF "env" \in seen THEN variable[a] ELSE tracker[a].value
  <2>1. noted = [initialized |-> TRUE, pkgs |-> pk, value |-> v]
    BY DEF Noted
  <2>2. pk \subseteq Packages
    BY <1>7 DEF Trackers
  <2>3. v \in 0..MaxChanges + 1
    BY <1>7 DEF Trackers, Values
  <2> HIDE DEF pk, v, noted
  <2> QED BY <2>1, <2>2, <2>3 DEF Trackers
<1>11. t \subseteq Packages /\ u \subseteq Packages
  <2>1. tracker[a].pkgs \subseteq Packages /\ told[a] \subseteq Packages /\ untold[a] \subseteq Packages
    BY <1>7 DEF Trackers
  <2>2. missing \subseteq Packages /\ quietly \subseteq Packages
    BY <2>1
  <2> HIDE DEF missing, quietly, out
  <2> QED BY <2>1, <2>2
<1>12. inbox' \in [Peers -> Seq(Notices)]
  <2> DEFINE s == SetToSeq(out)
  <2>1. s \in Seq(out)
    BY <1>5, SetToSeqIs
  <2>2. s \in Seq(Notices)
    BY <1>5, <2>1
  <2>3. inbox' = [b \in Peers |-> IF b = a THEN inbox[b] ELSE inbox[b] \o s]
    BY <1>3 DEF Delivered
  <2> HIDE DEF s, out
  <2>4. \A b \in Peers : inbox[b] \in Seq(Notices) /\ inbox[b] \o s \in Seq(Notices)
    BY <1>7, <2>2
  <2> QED BY <2>3, <2>4
<1>13. ASSUME tracker[a].initialized, NEW p \in Packages, p \notin u PROVE p \in t <=> p \in noted.pkgs
  <2>1. /\ p \notin untold[a] \/ p \in New(a, seen) \cup Gone(a, seen)
        /\ Arrival(p) \notin lost /\ Removal(p) \notin lost
        /\ p \notin (tracker[a].pkgs \ installed[a]) \cap Npm \cap Listed(seen)
    BY <1>13
  <2> QED BY <1>13, <2>1, ScanTells
<1>14. ~tracker[a].initialized => u = Packages
  OBVIOUS
<1> HIDE DEF t, u, noted, out
<1>15. /\ tracker' \in [Peers -> Trackers] /\ told' \in [Peers -> SUBSET Packages]
       /\ untold' \in [Peers -> SUBSET Packages]
  BY <1>3, <1>7, <1>10, <1>11
<1>16. WatchShape'
  BY <1>3, <1>9, <1>12, <1>15 DEF WatchInv, WatchShape
<1>17. CountedChanges'
  BY <1>3, <1>9 DEF WatchInv, CountedChanges
<1>18. ASSUME NEW b \in Peers, NEW p \in Packages \ untold'[b]
       PROVE  p \in told'[b] <=> p \in tracker'[b].pkgs
  <2>1. CASE b = a
    <3>1. told'[b] = t /\ untold'[b] = u /\ tracker'[b] = noted
      BY <1>3, <1>7, <2>1
    <3>2. tracker[a].initialized
      BY <1>14, <1>18, <3>1
    <3> QED BY <1>13, <1>18, <3>1, <3>2
  <2>2. CASE b # a
    <3>1. told'[b] = told[b] /\ untold'[b] = untold[b] /\ tracker'[b] = tracker[b]
      BY <1>3, <1>7, <2>2
    <3> QED BY <1>18, <3>1 DEF WatchInv, ChangesAreTold
  <2> QED BY <2>1, <2>2
<1> QED BY <1>16, <1>17, <1>18 DEF WatchInv, ChangesAreTold

LEMMA ReceiveInv == ASSUME WatchInv, NEW a \in Peers, Receive(a) PROVE WatchInv'
<1> DEFINE h == Head(inbox[a])
           more == IF h.type = "package_installed" THEN installing[a] \cup {h.what} ELSE installing[a]
<1>1. /\ inbox[a] # <<>> /\ inbox' = [inbox EXCEPT ![a] = Tail(inbox[a])]
      /\ installing' = [installing EXCEPT ![a] = more]
      /\ UNCHANGED <<installed, variable, tracker, told, untold, used>>
  BY DEF Receive
<1>2. inbox \in [Peers -> Seq(Notices)] /\ installing \in [Peers -> SUBSET Packages]
  BY DEF WatchInv, WatchShape
<1>3. h \in Notices /\ Tail(inbox[a]) \in Seq(Notices)
  <2> DEFINE s == inbox[a]
  <2>1. s \in Seq(Notices) /\ s # <<>>
    BY <1>1, <1>2
  <2> HIDE DEF s
  <2>2. Head(s) \in Notices /\ Tail(s) \in Seq(Notices)
    BY <2>1
  <2> QED BY <2>2 DEF s
<1> HIDE DEF h
<1>4. h.type = "package_installed" => h.what \in Packages
  BY <1>3 DEF Notices, Arrival, Removal, NewConfig
<1>5. more \in SUBSET Packages
  BY <1>2, <1>4
<1> HIDE DEF more
<1>6. inbox' \in [Peers -> Seq(Notices)] /\ installing' \in [Peers -> SUBSET Packages]
  BY <1>1, <1>2, <1>3, <1>5
<1>7. WatchShape'
  BY <1>1, <1>6 DEF WatchInv, WatchShape
<1>8. CountedChanges' /\ ChangesAreTold'
  BY <1>1 DEF WatchInv, CountedChanges, ChangesAreTold
<1> QED BY <1>7, <1>8 DEF WatchInv

LEMMA AutoInstallInv ==
  ASSUME WatchInv, NEW a \in Peers, NEW p \in Packages, AutoInstall(a, p) PROVE WatchInv'
<1>1. /\ installing' = [installing EXCEPT ![a] = @ \ {p}]
      /\ UNCHANGED <<variable, tracker, inbox, told, untold>>
      /\ installed' = [installed EXCEPT ![a] = @ \cup {p}] \/ installed' = installed
      /\ used' = used \/ used' = [used EXCEPT !.lost = @ + 1]
  BY DEF AutoInstall
<1>2. /\ installed \in [Peers -> SUBSET Packages] /\ installing \in [Peers -> SUBSET Packages]
      /\ used \in [changes : 0 .. MaxChanges, lost : Nat]
  BY DEF WatchInv, WatchShape
<1>3. used' \in [changes : 0 .. MaxChanges, lost : Nat] /\ used'.changes = used.changes
  BY <1>1, <1>2
<1>4. installed' \in [Peers -> SUBSET Packages] /\ installing' \in [Peers -> SUBSET Packages]
  BY <1>1, <1>2
<1>5. WatchShape'
  BY <1>1, <1>3, <1>4 DEF WatchInv, WatchShape
<1>6. CountedChanges' /\ ChangesAreTold'
  BY <1>1, <1>3 DEF WatchInv, CountedChanges, ChangesAreTold
<1> QED BY <1>5, <1>6 DEF WatchInv

LEMMA RestartAgentInv == ASSUME WatchInv, NEW a \in Peers, RestartAgent(a) PROVE WatchInv'
<1>1. PICK replay \in ReplayContext : installing' = [installing EXCEPT ![a] = replay]
  BY DEF RestartAgent
<1>2. /\ used' = [used EXCEPT !.lost = @ + 1] /\ tracker' = [tracker EXCEPT ![a] = NewTracker]
      /\ untold' = [untold EXCEPT ![a] = Packages]
      /\ UNCHANGED <<installed, variable, inbox, told>>
  BY DEF RestartAgent
<1>3. /\ untold \in [Peers -> SUBSET Packages] /\ installing \in [Peers -> SUBSET Packages]
      /\ tracker \in [Peers -> Trackers] /\ used \in [changes : 0 .. MaxChanges, lost : Nat]
  BY DEF WatchInv, WatchShape
<1>4. NewTracker \in Trackers /\ replay \in SUBSET Packages
  BY WatchAssumption DEF Trackers, NewTracker, ReplayContext
<1>5. used' \in [changes : 0 .. MaxChanges, lost : Nat] /\ used'.changes = used.changes
  BY <1>2, <1>3
<1>6. /\ untold' \in [Peers -> SUBSET Packages] /\ installing' \in [Peers -> SUBSET Packages]
      /\ tracker' \in [Peers -> Trackers]
  BY <1>1, <1>2, <1>3, <1>4
<1>7. WatchShape'
  BY <1>2, <1>5, <1>6 DEF WatchInv, WatchShape
<1>8. CountedChanges'
  BY <1>2, <1>5 DEF WatchInv, CountedChanges
<1>9. ASSUME NEW b \in Peers, NEW p \in Packages \ untold'[b]
      PROVE  p \in told'[b] <=> p \in tracker'[b].pkgs
  <2>1. b # a
    BY <1>2, <1>3, <1>9
  <2>2. told'[b] = told[b] /\ untold'[b] = untold[b] /\ tracker'[b] = tracker[b]
    BY <1>2, <1>3, <2>1
  <2> QED BY <1>9, <2>2 DEF WatchInv, ChangesAreTold
<1> QED BY <1>7, <1>8, <1>9 DEF WatchInv, ChangesAreTold

LEMMA WatchNextInv == WatchInv /\ [WatchNext]_watchVars => WatchInv'
<1> SUFFICES ASSUME WatchInv, [WatchNext]_watchVars PROVE WatchInv'
  OBVIOUS
<1>1. CASE UNCHANGED watchVars
  BY <1>1 DEF watchVars, WatchInv, WatchShape, CountedChanges, ChangesAreTold
<1> QED BY <1>1, UserChangeInv, ScanInv, ReceiveInv, RestartAgentInv, AutoInstallInv DEF WatchNext

\* The agents that watch their containers' packages keep to their types: what they
\* publish and install are packages of the containers (detectAndPublish, Handle).
THEOREM WatchTypes == WatchSpec => []WatchTypeOK
<1>1. ASSUME WatchInv, NEW a \in Peers, NEW i \in DOMAIN inbox[a] PROVE inbox[a][i] \in Notices
  <2> DEFINE s == inbox[a]
  <2>1. s \in Seq(Notices) /\ i \in DOMAIN s
    BY <1>1 DEF WatchInv, WatchShape
  <2> HIDE DEF s
  <2>2. s[i] \in Notices
    BY <2>1
  <2> QED BY <2>2 DEF s
<1>2. WatchInv => WatchTypeOK
  BY <1>1 DEF WatchInv, WatchShape, WatchTypeOK, Notices, Values, Trackers
<1> QED BY <1>2, WatchInitInv, WatchNextInv, PTL DEF WatchSpec

\* What the peers of an agent were told of its container is what its last scan found,
\* save for the packages whose last change is known not to have been published
\* (detectPipChanges, detectNpmChanges).
THEOREM PeersKnow == WatchSpec => []ChangesAreTold
<1>1. WatchInv => ChangesAreTold
  BY DEF WatchInv
<1> QED BY <1>1, WatchInitInv, WatchNextInv, PTL DEF WatchSpec

-----------------------------------------------------------------------------
(* LiveContext: numbers and sequences.                                      *)

LEMMA MaxExists ==
  ASSUME NEW S, IsFiniteSet(S), S \subseteq Nat, S # {}
  PROVE  \E n \in S : \A m \in S : m <= n
<1> DEFINE Above(x) == {y \in S : y > x}
           T == {Above(x) : x \in S}
           R == StrictSubsetOrdering(S)
<1>1. IsWellFoundedOn(R, FiniteSubsetsOf(S))
  BY FS_StrictSubsetOrderingWellFounded
<1>2. T \subseteq FiniteSubsetsOf(S) /\ T # {}
  <2>1. \A x \in S : Above(x) \subseteq S
    OBVIOUS
  <2>2. \A x \in S : IsFiniteSet(Above(x))
    BY <2>1, FS_Subset
  <2> HIDE DEF Above
  <2> QED BY <2>1, <2>2 DEF FiniteSubsetsOf
<1>3. \A x, y \in S : y > x =>
        Above(y) \subseteq Above(x) /\ y \in Above(x) /\ y \notin Above(y)
  <2> SUFFICES ASSUME NEW x \in S, NEW y \in S, y > x
               PROVE  Above(y) \subseteq Above(x) /\ y \in Above(x) /\ y \notin Above(y)
    OBVIOUS
  <2>1. x \in Nat /\ y \in Nat /\ ~(y > y)
    OBVIOUS
  <2>2. ASSUME NEW z \in S, z > y PROVE z > x
    <3>1. z \in Nat
      OBVIOUS
    <3> QED BY <2>1, <2>2, <3>1
  <2> QED BY <2>1, <2>2
<1>4. \A x \in S : Above(x) \in T /\ Above(x) \subseteq S
  OBVIOUS
<1>5. \A U \in T : \E x \in S : U = Above(x)
  OBVIOUS
<1>6. \A x, y \in S : y > x \/ y <= x
  OBVIOUS
<1> HIDE DEF T, Above
<1>7. \A x, y \in S : y > x => <<Above(y), Above(x)>> \in R
  BY <1>3, <1>4 DEF StrictSubsetOrdering
<1> HIDE DEF R
<1>8. PICK U \in T : \A V \in T : <<V, U>> \notin R
  BY <1>1, <1>2, WFMin
<1>9. PICK n \in S : U = Above(n)
  BY <1>5
<1> QED BY <1>4, <1>6, <1>7, <1>8, <1>9

LEMMA HighestIs ==
  ASSUME NEW S, IsFiniteSet(S), S \subseteq Nat, S # {}
  PROVE  Highest(S) \in S /\ \A m \in S : m <= Highest(S)
BY MaxExists DEF Highest

LEMMA SubSeqIs ==
  ASSUME NEW S, NEW s \in Seq(S), NEW m \in 1..Len(s)
  PROVE  /\ SubSeq(s, m, Len(s)) \in Seq(S)
         /\ Len(SubSeq(s, m, Len(s))) = Len(s) - m + 1
         /\ \A i \in 1..(Len(s) - m + 1) : SubSeq(s, m, Len(s))[i] = s[i + m - 1]
OBVIOUS

-----------------------------------------------------------------------------
(* LiveContext: the inductive invariant.                                    *)

Updates == [event : Nat, seq : Nat]
Contexts == [recent : Seq(Updates), facts : [Keys -> Nat], last : Nat]
Entries == [says : Facts \cup {NoFact}, own : BOOLEAN, seq : Nat]
Agents == [up : BOOLEAN, ctx : Contexts, phase : {"idle", "handled", "writing"}, event : Nat]
Files == [state : {"absent", "torn", "whole"}, ctx : Contexts]
HostFiles == [exists : BOOLEAN, lines : Seq(Nat)]

\* a context of n events
Fits(ctx, n) ==
  /\ Len(ctx.recent) <= RecentCap /\ \A i \in DOMAIN ctx.recent : ctx.recent[i].event \in 1..n
  /\ \A k \in Keys : ctx.facts[k] <= n

LiveShape ==
  /\ shared \in BOOLEAN /\ log \in Seq(Entries) /\ Len(log) <= MaxEvents
  /\ sent \in [1..MaxEvents -> 0..MaxDeliver] /\ acked \subseteq Events
  /\ agent \in Agents /\ live \in Files
  /\ cursor \in Nat /\ shown \subseteq Events
  /\ Fits(agent.ctx, Len(log)) /\ Fits(live.ctx, Len(log))

PhaseInv ==
  /\ agent.phase = "idle" <=> agent.event = 0
  /\ agent.event <= Len(log)
  /\ agent.phase # "idle" => agent.up /\ agent.event \in EventsOf(agent.ctx.recent)
  /\ ~agent.up /\ live.state # "whole" => Keys \subseteq reordered
  /\ \A e \in 1..MaxEvents : e > Len(log) => sent[e] = 0

\* events nobody waits for any more
SettledIn(own, seen, lost, d) ==
  own \/ d \in seen \/ \E cause \in {"behind", "evicted", "torn"} : <<cause, d>> \in lost
Settled(d) == SettledIn(log[d].own, shown, missed, d)

InMemory ==
  \A i \in DOMAIN agent.ctx.recent :
    LET u == agent.ctx.recent[i] IN
    ~Settled(u.event) =>
      u.seq > cursor /\ (u.event \in EventsOf(live.ctx.recent) \/ u.seq > Horizon)
InFile ==
  \A i \in DOMAIN live.ctx.recent :
    ~Settled(live.ctx.recent[i].event) => live.ctx.recent[i].seq > cursor
Kept ==
  \A d \in acked : ~Settled(d) =>
    /\ agent.up => d \in EventsOf(agent.ctx.recent)
    /\ live.state = "whole" => d \in EventsOf(live.ctx.recent)
    /\ live.state # "whole" => agent.up

About(k) == {e \in Events : sent[e] > 0 /\ ~log[e].own /\ log[e].says.key = k}
Said(e) == IF log[e].says.set THEN e ELSE 0
CurrentInv ==
  \A k \in Keys \ reordered : \A e \in About(k) : (\A d \in About(k) : d <= e) =>
    /\ agent.up /\ (e \in acked \/ e = agent.event) => agent.ctx.facts[k] = Said(e)
    /\ live.state = "whole" /\ e \in acked => live.ctx.facts[k] = Said(e)

Counts(s) == s \in Seq(Nat) /\ \A i \in 1..Len(s) : s[i] = i
OutboxInv ==
  /\ Counts(outbox) /\ Len(outbox) <= MaxLines
  /\ host \in HostFiles /\ Counts(host.lines) /\ Len(host.lines) <= Len(outbox)
  /\ offset \in 0..Len(host.lines)
  /\ batch \in Seq(Nat) /\ Len(batch) <= offset
  /\ \A i \in 1..Len(batch) : batch[i] = (offset - Len(batch)) + i
  /\ tried = 1..(offset - Len(batch))
  /\ published \in [Lines -> 0..1] /\ \A l \in Lines : published[l] = 1 => l \in tried

LiveInv == LiveShape /\ PhaseInv /\ InMemory /\ InFile /\ Kept /\ CurrentInv /\ OutboxInv

-----------------------------------------------------------------------------
(* LiveContext: contexts.                                                   *)

LEMMA NoContextIs ==
  NoContext \in Contexts /\ DOMAIN NoContext.recent = {} /\ \A n \in Nat : Fits(NoContext, n)
<1>1. NoContext \in Contexts
  BY DEF NoContext, Contexts
<1> QED BY <1>1, LiveAssumption DEF NoContext, Fits

\* the cursor of a client that has read the context
LEMMA ReadIs ==
  ASSUME NEW ctx \in Contexts, NEW c \in Nat
  PROVE  /\ Read(ctx, c) \in Nat /\ Read(ctx, c) >= c
         /\ \A i \in DOMAIN ctx.recent : ctx.recent[i].seq <= Read(ctx, c)
         /\ Read(ctx, Read(ctx, c)) = Read(ctx, c)
<1> DEFINE s == ctx.recent
           A == SeqsOf(s)
<1>1. s \in Seq(Updates)
  BY DEF Contexts
<1> HIDE DEF s
<1>2. \A i \in DOMAIN s : s[i] \in Updates
  BY <1>1
<1>3. A \subseteq Nat
  BY <1>2 DEF SeqsOf, Updates
<1>4. IsFiniteSet(A)
  <2>1. [i \in DOMAIN s |-> s[i].seq] \in Surjection(DOMAIN s, A)
    BY DEF Surjection, SeqsOf
  <2>2. Len(s) \in Nat /\ DOMAIN s = 1..Len(s)
    BY <1>1
  <2>3. IsFiniteSet(DOMAIN s)
    BY <2>2, FS_Interval
  <2> HIDE DEF A
  <2> QED BY <2>1, <2>3, FS_Surjection
<1> HIDE DEF A
<1>5. ASSUME NEW n \in Nat
      PROVE  Highest({n} \cup A) \in {n} \cup A /\ \A m \in {n} \cup A : m <= Highest({n} \cup A)
  <2>1. IsFiniteSet({n} \cup A) /\ {n} \cup A \subseteq Nat /\ {n} \cup A # {}
    BY <1>3, <1>4, FS_AddElement, FS_Union, FS_Singleton
  <2> QED BY <2>1, HighestIs
<1>6. \A n : Read(ctx, n) = Highest({n} \cup A)
  BY DEF Read, A, s
<1> DEFINE h == Read(ctx, c)
<1>7. h \in {c} \cup A /\ \A m \in {c} \cup A : m <= h
  BY <1>5, <1>6
<1> HIDE DEF h
<1>8. h \in Nat /\ h >= c
  BY <1>3, <1>7
<1>9. Read(ctx, h) = h
  <2>1. Highest({h} \cup A) \in {h} \cup A /\ \A m \in {h} \cup A : m <= Highest({h} \cup A)
    BY <1>5, <1>8
  <2> DEFINE g == Highest({h} \cup A)
  <2>2. g \in {h} \cup A /\ h <= g
    BY <2>1
  <2> HIDE DEF g
  <2>3. g <= h /\ g \in Nat
    BY <1>3, <1>7, <1>8, <2>2
  <2>4. g = h
    BY <1>8, <2>2, <2>3
  <2> QED BY <1>6, <2>4 DEF g
<1>10. \A i \in DOMAIN s : s[i].seq \in A
  BY DEF A, SeqsOf
<1> QED BY <1>7, <1>8, <1>9, <1>10 DEF h, s

LEMMA NewestIs ==
  ASSUME NEW s \in Seq(Updates), s # <<>>
  PROVE  /\ Newest(s) \in Seq(Updates) /\ Len(Newest(s)) <= RecentCap
         /\ \A i \in DOMAIN Newest(s) : \E j \in DOMAIN s : Newest(s)[i] = s[j]
         /\ \E i \in DOMAIN Newest(s) : Newest(s)[i] = s[Len(s)]
<1>1. RecentCap \in Nat /\ RecentCap > 0 /\ Len(s) \in Nat /\ Len(s) > 0 /\ DOMAIN s = 1..Len(s)
  BY LiveAssumption
<1>2. CASE Len(s) > RecentCap
  <2> DEFINE m == Len(s) - RecentCap + 1
             t == SubSeq(s, m, Len(s))
  <2>1. Newest(s) = t
    BY <1>2 DEF Newest
  <2>2. m \in 1..Len(s) /\ Len(s) - m + 1 = RecentCap
    BY <1>1, <1>2
  <2> HIDE DEF m
  <2>3. t \in Seq(Updates) /\ Len(t) = RecentCap /\ \A i \in 1..RecentCap : t[i] = s[i + m - 1]
    BY <2>2, SubSeqIs
  <2> HIDE DEF t
  <2>4. DOMAIN t = 1..RecentCap
    BY <2>3
  <2>5. \A i \in 1..RecentCap : i + m - 1 \in 1..Len(s)
    BY <1>1, <2>2
  <2>6. RecentCap \in 1..RecentCap /\ RecentCap + m - 1 = Len(s)
    BY <1>1, <2>2
  <2>7. t[RecentCap] = s[Len(s)]
    BY <2>3, <2>6
  <2> QED BY <1>1, <2>1, <2>3, <2>4, <2>5, <2>6, <2>7
<1>3. CASE ~(Len(s) > RecentCap)
  <2>1. Newest(s) = s
    BY <1>3 DEF Newest
  <2> QED BY <1>1, <1>3, <2>1
<1> QED BY <1>2, <1>3

\* what Handle makes of a context
LEMMA HandledIs ==
  ASSUME LiveInv, NEW ctx \in Contexts, Fits(ctx, Len(log)), NEW e \in Events
  PROVE  /\ Handled(ctx, e) \in Contexts /\ Fits(Handled(ctx, e), Len(log))
         /\ NumberOf(ctx, e) \in Nat
         /\ \A i \in DOMAIN Handled(ctx, e).recent :
              \/ Handled(ctx, e).recent[i] = Update(e, NumberOf(ctx, e))
              \/ \E j \in DOMAIN ctx.recent : Handled(ctx, e).recent[i] = ctx.recent[j]
         /\ e \in EventsOf(Handled(ctx, e).recent)
         /\ \A k \in Keys : Handled(ctx, e).facts[k] =
                              IF k = log[e].says.key THEN Said(e) ELSE ctx.facts[k]
<1> DEFINE n == NumberOf(ctx, e)
           u == Update(e, n)
           s == Append(ctx.recent, u)
           r == Newest(s)
           says == log[e].says
           f == IF says.key \in Keys
                THEN [ctx.facts EXCEPT ![says.key] = IF says.set THEN e ELSE 0]
                ELSE ctx.facts
<1>1. log[e] \in Entries /\ e \in Nat /\ Len(log) \in Nat
  BY DEF LiveInv, LiveShape, Events
<1>2. ctx.recent \in Seq(Updates) /\ ctx.facts \in [Keys -> Nat] /\ ctx.last \in Nat
  BY DEF Contexts
<1>3. n \in Nat
  BY <1>1, <1>2 DEF NumberOf, Entries
<1>4. Handled(ctx, e) = [recent |-> r, facts |-> f, last |-> n]
  BY DEF Handled
<1> HIDE DEF n
<1>5. u \in Updates /\ u.event = e
  BY <1>1, <1>3 DEF Update, Updates
<1> HIDE DEF u
<1>6. /\ s \in Seq(Updates) /\ s # <<>> /\ Len(ctx.recent) \in Nat /\ Len(s) = Len(ctx.recent) + 1
      /\ s[Len(s)] = u /\ \A j \in 1..Len(ctx.recent) : s[j] = ctx.recent[j]
      /\ DOMAIN s = 1..Len(s) /\ DOMAIN ctx.recent = 1..Len(ctx.recent)
  BY <1>2, <1>5
<1> HIDE DEF s
<1>7. /\ r \in Seq(Updates) /\ Len(r) <= RecentCap
      /\ \A i \in DOMAIN r : \E j \in DOMAIN s : r[i] = s[j]
      /\ \E i \in DOMAIN r : r[i] = s[Len(s)]
  BY <1>6, NewestIs
<1> HIDE DEF r
<1>8. \A j \in DOMAIN s : s[j] = u \/ \E k \in DOMAIN ctx.recent : s[j] = ctx.recent[k]
  <2> SUFFICES ASSUME NEW j \in DOMAIN s PROVE s[j] = u \/ \E k \in DOMAIN ctx.recent : s[j] = ctx.recent[k]
    OBVIOUS
  <2>1. j = Len(s) \/ j \in 1..Len(ctx.recent)
    BY <1>6
  <2> QED BY <1>6, <2>1
<1>9. \A i \in DOMAIN r : r[i] = u \/ \E j \in DOMAIN ctx.recent : r[i] = ctx.recent[j]
  BY <1>7, <1>8
<1>10. \A i \in DOMAIN r : r[i].event \in 1..Len(log)
  BY <1>5, <1>9 DEF Fits, Events
<1>11. e \in EventsOf(r)
  BY <1>5, <1>6, <1>7 DEF EventsOf
<1>12. /\ f \in [Keys -> Nat] /\ \A k \in Keys : f[k] = IF k = says.key THEN Said(e) ELSE ctx.facts[k]
  BY <1>1, <1>2 DEF Said
<1>13. \A k \in Keys : f[k] <= Len(log)
  BY <1>1, <1>12 DEF Fits, Said, Events
<1> HIDE DEF f
<1>14. /\ Handled(ctx, e) \in Contexts /\ Handled(ctx, e).recent = r /\ Handled(ctx, e).facts = f
  BY <1>3, <1>4, <1>7, <1>12 DEF Contexts
<1>15. Fits(Handled(ctx, e), Len(log))
  BY <1>7, <1>10, <1>13, <1>14 DEF Fits
<1> QED BY <1>3, <1>9, <1>11, <1>12, <1>14, <1>15 DEF u, n

LEMMA LiveInitInv == LiveInit => LiveInv
<1> SUFFICES ASSUME LiveInit PROVE LiveInv
  OBVIOUS
<1>1. /\ shared \in Deployments /\ log = <<>> /\ sent = [i \in 1 .. MaxEvents |-> 0] /\ acked = {}
      /\ agent = [up |-> TRUE, ctx |-> NoContext, phase |-> "idle", event |-> 0]
      /\ live = [state |-> "absent", ctx |-> NoContext] /\ cursor = 0
      /\ outbox = <<>> /\ host = [exists |-> FALSE, lines |-> <<>>]
      /\ offset = 0 /\ batch = <<>> /\ published = [l \in Lines |-> 0] /\ tried = {}
      /\ shown = {}
  BY DEF LiveInit
<1> DEFINE c == NoContext
<1>2. c \in Contexts /\ DOMAIN c.recent = {} /\ Fits(c, 0)
  BY NoContextIs
<1> HIDE DEF c
<1>3. agent = [up |-> TRUE, ctx |-> c, phase |-> "idle", event |-> 0] /\ live = [state |-> "absent", ctx |-> c]
  BY <1>1 DEF c
<1>4. agent \in Agents /\ live \in Files /\ agent.ctx = c /\ live.ctx = c
  BY <1>2, <1>3 DEF Agents, Files
<1>5. log \in Seq(Entries) /\ Len(log) = 0 /\ DOMAIN log = {}
  BY <1>1
<1>6. LiveShape
  BY <1>1, <1>2, <1>4, <1>5, LiveAssumption DEF LiveShape
<1>7. PhaseInv
  BY <1>1, <1>3, <1>5 DEF PhaseInv
<1>8. InMemory /\ InFile
  BY <1>2, <1>4 DEF InMemory, InFile
<1>9. Kept
  BY <1>1 DEF Kept
<1>10. CurrentInv
  BY <1>5 DEF CurrentInv, About, Events
<1>11. OutboxInv
  <2>1. host \in HostFiles /\ host.lines = <<>>
    BY <1>1 DEF HostFiles
  <2> QED BY <1>1, <2>1, LiveAssumption DEF OutboxInv, Counts
<1> QED BY <1>6, <1>7, <1>8, <1>9, <1>10, <1>11 DEF LiveInv

-----------------------------------------------------------------------------
(* LiveContext: the events and the agent.                                   *)

LEMMA OutboxStays ==
  ASSUME LiveInv, UNCHANGED <<outbox, outboxVars>> PROVE OutboxInv'
BY DEF LiveInv, OutboxInv, outboxVars

\* the records of the agent and of its file
LEMMA LiveRecords ==
  ASSUME LiveInv
  PROVE  /\ agent \in Agents /\ agent.up \in BOOLEAN /\ agent.ctx \in Contexts /\ agent.event \in Nat
         /\ agent.phase \in {"idle", "handled", "writing"}
         /\ live \in Files /\ live.ctx \in Contexts /\ live.state \in {"absent", "torn", "whole"}
         /\ Len(log) \in Nat /\ cursor \in Nat /\ MaxEvents \in Nat
         /\ \A e \in Events : log[e] \in Entries /\ e \in 1..MaxEvents /\ sent[e] \in 0..MaxDeliver
<1>1. agent \in Agents /\ live \in Files /\ log \in Seq(Entries) /\ cursor \in Nat /\ MaxEvents \in Nat
      /\ Len(log) <= MaxEvents /\ sent \in [1..MaxEvents -> 0..MaxDeliver]
  BY LiveAssumption DEF LiveInv, LiveShape
<1>2. agent.up \in BOOLEAN
  BY <1>1 DEF Agents
<1>3. \A e \in Events : log[e] \in Entries /\ e \in 1..MaxEvents
  BY <1>1 DEF Events
<1> QED BY <1>1, <1>2, <1>3 DEF Agents, Files

LEMMA PublishEventInv == ASSUME LiveInv, PublishEvent PROVE LiveInv'
<1>1. PICK says \in Facts \cup {NoFact} : \E own \in BOOLEAN, seq \in 0 .. MaxEvents :
        log' = Append(log, [says |-> says, own |-> own, seq |-> seq])
  BY DEF PublishEvent
<1>2. PICK own \in BOOLEAN : \E seq \in 0 .. MaxEvents :
        log' = Append(log, [says |-> says, own |-> own, seq |-> seq])
  BY <1>1
<1>3. PICK seq \in 0 .. MaxEvents : log' = Append(log, [says |-> says, own |-> own, seq |-> seq])
  BY <1>2
<1> DEFINE x == [says |-> says, own |-> own, seq |-> seq]
<1>4. x \in Entries /\ log' = Append(log, x)
  BY <1>3, LiveAssumption DEF Entries
<1> HIDE DEF x
<1>5. Len(log) < MaxEvents /\ UNCHANGED <<shared, sent, acked, agent, live, missed, reordered, cursor,
                                          shown, outbox, outboxVars>>
  BY DEF PublishEvent, agentVars
<1>6. log \in Seq(Entries) /\ Len(log) \in Nat /\ acked \subseteq Events /\ shown \subseteq Events
      /\ Fits(agent.ctx, Len(log)) /\ Fits(live.ctx, Len(log)) /\ agent.ctx \in Contexts /\ live.ctx \in Contexts
  BY LiveRecords DEF LiveInv, LiveShape
<1>7. log' \in Seq(Entries) /\ Len(log') = Len(log) + 1 /\ \A d \in Events : log'[d] = log[d]
  BY <1>4, <1>6 DEF Events
<1>8. Events \subseteq Events'
  BY <1>6, <1>7 DEF Events
<1>9. LiveShape'
  <2>1. ASSUME NEW ctx \in Contexts, Fits(ctx, Len(log)) PROVE Fits(ctx, Len(log'))
    <3>1. ctx.facts \in [Keys -> Nat]
      BY DEF Contexts
    <3>2. \A i \in DOMAIN ctx.recent : ctx.recent[i].event \in 1..Len(log')
      BY <1>6, <1>7, <2>1 DEF Fits
    <3>3. \A k \in Keys : ctx.facts[k] <= Len(log')
      BY <1>6, <1>7, <2>1, <3>1 DEF Fits
    <3> QED BY <2>1, <3>2, <3>3 DEF Fits
  <2>2. Fits(agent.ctx', Len(log')) /\ Fits(live.ctx', Len(log'))
    BY <1>5, <1>6, <2>1
  <2>3. Len(log') <= MaxEvents
    BY <1>5, <1>6, <1>7, LiveRecords
  <2> QED BY <1>5, <1>6, <1>7, <1>8, <2>2, <2>3 DEF LiveInv, LiveShape
<1>10. PhaseInv'
  BY <1>5, <1>6, <1>7, LiveRecords DEF LiveInv, PhaseInv
<1>11. \A d \in Events : Settled(d)' <=> Settled(d)
  BY <1>5, <1>7 DEF Settled
<1>12. InMemory' /\ InFile'
  <2>1. \A i \in DOMAIN agent.ctx.recent : agent.ctx.recent[i].event \in Events
    BY <1>6 DEF Fits, Events
  <2>2. \A i \in DOMAIN live.ctx.recent : live.ctx.recent[i].event \in Events
    BY <1>6 DEF Fits, Events
  <2>3. Horizon' = Horizon
    BY <1>5 DEF Horizon
  <2>4. InMemory'
    BY <1>5, <1>11, <2>1, <2>3 DEF LiveInv, InMemory
  <2>5. InFile'
    BY <1>5, <1>11, <2>2 DEF LiveInv, InFile
  <2> QED BY <2>4, <2>5
<1>13. Kept'
  BY <1>5, <1>6, <1>11 DEF LiveInv, Kept
<1>14. CurrentInv'
  <2>1. ASSUME NEW e \in Events' PROVE e \in Events \/ sent[e] = 0
    <3>1. e \in 1..MaxEvents
      BY <1>5, <1>6, <1>7, <2>1, LiveRecords DEF Events
    <3> QED BY <1>6, <1>7, <3>1 DEF LiveInv, PhaseInv, Events
  <2>2. \A k : About(k)' = About(k)
    BY <1>5, <1>7, <1>8, <2>1 DEF About
  <2>3. \A k : \A e \in About(k) : Said(e)' = Said(e)
    BY <1>7 DEF About, Said
  <2>4. ASSUME NEW k \in Keys \ reordered', NEW e \in About(k)', \A d \in About(k)' : d <= e
        PROVE  /\ agent'.up /\ (e \in acked' \/ e = agent'.event) => agent'.ctx.facts[k] = Said(e)'
               /\ live'.state = "whole" /\ e \in acked' => live'.ctx.facts[k] = Said(e)'
    BY <1>5, <2>2, <2>3, <2>4 DEF LiveInv, CurrentInv
  <2> QED BY <2>4 DEF CurrentInv
<1>15. OutboxInv'
  BY <1>5, OutboxStays
<1> QED BY <1>9, <1>10, <1>12, <1>13, <1>14, <1>15 DEF LiveInv

LEMMA SkipInv == ASSUME LiveInv, NEW e \in Events, Skip(e) PROVE LiveInv'
<1>1. /\ log[e].own /\ sent[e] < MaxDeliver /\ sent' = [sent EXCEPT ![e] = @ + 1]
      /\ acked' = acked \cup {e}
      /\ UNCHANGED <<shared, log, agent, live, cursor, shown, missed, reordered, outbox, outboxVars>>
  BY DEF Skip, Deliverable
<1>2. e \in 1..MaxEvents /\ MaxDeliver \in Nat /\ sent \in [1..MaxEvents -> 0..MaxDeliver]
  BY LiveRecords, LiveAssumption DEF LiveInv, LiveShape
<1>3. sent' \in [1..MaxEvents -> 0..MaxDeliver] /\ \A d \in 1..MaxEvents \ {e} : sent'[d] = sent[d]
  BY <1>1, <1>2
<1>4. LiveShape'
  BY <1>1, <1>3 DEF LiveInv, LiveShape, Events
<1>5. PhaseInv'
  BY <1>1, <1>3, LiveRecords DEF LiveInv, PhaseInv, Events
<1>6. \A d : Settled(d)' <=> Settled(d)
  BY <1>1 DEF Settled
<1>7. InMemory' /\ InFile'
  BY <1>1, <1>6 DEF LiveInv, InMemory, InFile, Horizon
<1>8. Settled(e)
  BY <1>1 DEF Settled, SettledIn
<1>9. Kept'
  BY <1>1, <1>6, <1>8 DEF LiveInv, Kept
<1>10. CurrentInv'
  <2>1. \A k : About(k)' = About(k)
    BY <1>1, <1>3, LiveRecords DEF About, Events
  <2>2. \A k : \A d \in About(k) : d # e /\ Said(d)' = Said(d)
    BY <1>1 DEF About, Said
  <2>3. ASSUME NEW k \in Keys \ reordered', NEW f \in About(k)', \A d \in About(k)' : d <= f
        PROVE  /\ agent'.up /\ (f \in acked' \/ f = agent'.event) => agent'.ctx.facts[k] = Said(f)'
               /\ live'.state = "whole" /\ f \in acked' => live'.ctx.facts[k] = Said(f)'
    BY <1>1, <2>1, <2>2, <2>3 DEF LiveInv, CurrentInv
  <2> QED BY <2>3 DEF CurrentInv
<1>11. OutboxInv'
  BY <1>1, OutboxStays
<1> QED BY <1>4, <1>5, <1>7, <1>9, <1>10, <1>11 DEF LiveInv

LEMMA HandleInv == ASSUME LiveInv, NEW e \in Events, Handle(e) PROVE LiveInv'
<1> DEFINE ctx == Handled(agent.ctx, e)
           n == NumberOf(agent.ctx, e)
           behind == IF n <= Horizon THEN {<<"behind", e>>} ELSE {}
           gone == (EventsOf(agent.ctx.recent) \cup {e}) \ EventsOf(ctx.recent)
           evicted == {<<"evicted", d>> : d \in gone}
           key == log[e].says.key
           Done(d) == SettledIn(log[d].own, shown, missed', d)
<1>1. /\ agent.up /\ agent.phase = "idle" /\ e \notin acked /\ sent[e] < MaxDeliver /\ ~log[e].own
      /\ sent' = [sent EXCEPT ![e] = @ + 1]
      /\ agent' = [agent EXCEPT !.ctx = ctx, !.phase = "handled", !.event = e]
      /\ missed' = missed \cup behind \cup evicted
      /\ reordered' = IF Overtaken(e) THEN reordered \cup {key} ELSE reordered
      /\ UNCHANGED <<shared, log, acked, live, cursor, shown, outbox, outboxVars>>
  BY DEF Handle, Deliverable
<1>2. e \in 1..MaxEvents /\ MaxDeliver \in Nat /\ sent \in [1..MaxEvents -> 0..MaxDeliver]
      /\ sent[e] \in Nat
  BY LiveRecords, LiveAssumption DEF LiveInv, LiveShape
<1>3. /\ sent' \in [1..MaxEvents -> 0..MaxDeliver] /\ sent'[e] > 0
      /\ \A d \in 1..MaxEvents \ {e} : sent'[d] = sent[d]
  BY <1>1, <1>2
<1>4. agent.ctx \in Contexts /\ Fits(agent.ctx, Len(log)) /\ e \in Nat /\ e # 0 /\ e <= Len(log)
  BY LiveRecords DEF LiveInv, LiveShape, Events
<1>5. /\ ctx \in Contexts /\ Fits(ctx, Len(log)) /\ n \in Nat
      /\ \A i \in DOMAIN ctx.recent :
           \/ ctx.recent[i] = Update(e, n)
           \/ \E j \in DOMAIN agent.ctx.recent : ctx.recent[i] = agent.ctx.recent[j]
      /\ e \in EventsOf(ctx.recent)
      /\ \A k \in Keys : ctx.facts[k] = IF k = key THEN Said(e) ELSE agent.ctx.facts[k]
  BY <1>4, HandledIs
<1> HIDE DEF ctx, n, gone, key
<1>6. /\ agent' \in Agents /\ agent'.up /\ agent'.ctx = ctx /\ agent'.phase = "handled"
      /\ agent'.event = e
  BY <1>1, <1>4, <1>5, LiveRecords DEF Agents
<1>7. LiveShape'
  BY <1>1, <1>3, <1>5, <1>6 DEF LiveInv, LiveShape, Events
<1>8. PhaseInv'
  BY <1>1, <1>3, <1>4, <1>5, <1>6, LiveRecords DEF LiveInv, PhaseInv
<1>9. \A d : Settled(d) => Done(d)
  BY <1>1 DEF Settled, SettledIn
<1>10. ASSUME NEW d \in gone PROVE Done(d)
  <2>1. <<"evicted", d>> \in missed'
    BY <1>1
  <2> QED BY <2>1 DEF SettledIn
<1>11. n <= Horizon => Done(e)
  <2>1. n <= Horizon => <<"behind", e>> \in missed'
    BY <1>1
  <2> QED BY <2>1 DEF SettledIn
<1> HIDE DEF Done
<1>12. Horizon \in Nat /\ Horizon >= cursor /\ Horizon' = Horizon
  BY <1>1, ReadIs, LiveRecords DEF Horizon
<1>13. InMemory'
  <2>1. ASSUME NEW i \in DOMAIN ctx.recent, ~Done(ctx.recent[i].event)
        PROVE  /\ ctx.recent[i].seq > cursor
               /\ ctx.recent[i].event \in EventsOf(live.ctx.recent) \/ ctx.recent[i].seq > Horizon
    <3>1. CASE ctx.recent[i] = Update(e, n)
      <4>1. ctx.recent[i].event = e /\ ctx.recent[i].seq = n
        BY <3>1 DEF Update
      <4>2. ~(n <= Horizon)
        BY <1>11, <2>1, <4>1
      <4>3. cursor \in Nat /\ n \in Nat
        BY <1>5, LiveRecords
      <4> QED BY <1>12, <4>1, <4>2, <4>3
    <3>2. CASE \E j \in DOMAIN agent.ctx.recent : ctx.recent[i] = agent.ctx.recent[j]
      <4>1. ~Settled(ctx.recent[i].event)
        BY <1>9, <2>1
      <4> QED BY <3>2, <4>1 DEF LiveInv, InMemory
    <3> QED BY <1>5, <3>1, <3>2
  <2>2. agent'.ctx = ctx /\ live' = live /\ cursor' = cursor /\ Horizon' = Horizon
    BY <1>1, <1>6, <1>12
  <2>3. \A d : Settled(d)' <=> Done(d)
    BY <1>1 DEF Settled, Done
  <2> QED BY <2>1, <2>2, <2>3 DEF InMemory
<1>14. InFile'
  <2>1. \A d : Settled(d)' <=> Done(d)
    BY <1>1 DEF Settled, Done
  <2> QED BY <1>1, <1>9, <2>1 DEF LiveInv, InFile
<1>15. Kept'
  <2>1. ASSUME NEW d \in acked, ~Done(d)
        PROVE  /\ d \in EventsOf(ctx.recent)
               /\ live.state = "whole" => d \in EventsOf(live.ctx.recent)
    <3>1. ~Settled(d)
      BY <1>9, <2>1
    <3>2. d \in EventsOf(agent.ctx.recent) /\ (live.state = "whole" => d \in EventsOf(live.ctx.recent))
      BY <1>1, <3>1 DEF LiveInv, Kept
    <3>3. d \notin gone
      BY <1>10, <2>1
    <3> QED BY <3>2, <3>3 DEF gone
  <2>2. \A d : Settled(d)' <=> Done(d)
    BY <1>1 DEF Settled, Done
  <2> QED BY <1>1, <1>6, <2>1, <2>2 DEF Kept
<1>16. CurrentInv'
  <2>1. ASSUME NEW k \in Keys \ reordered', NEW f \in About(k)', \A d \in About(k)' : d <= f
        PROVE  /\ agent'.up /\ (f \in acked' \/ f = agent'.event) => agent'.ctx.facts[k] = Said(f)'
               /\ live'.state = "whole" /\ f \in acked' => live'.ctx.facts[k] = Said(f)'
    <3>1. Said(f)' = Said(f) /\ f \in Events
      BY <1>1 DEF Said, About, Events
    <3>2. CASE k = key
      <4>1. e \in About(k)'
        BY <1>1, <1>3, <3>2 DEF About, Events, key
      <4>2. e <= f /\ f \in Nat
        BY <2>1, <3>1, <4>1 DEF Events
      <4>3. ~Overtaken(e)
        BY <1>1, <2>1, <3>2
      <4>4. f = e
        <5> SUFFICES ASSUME f # e PROVE FALSE
          OBVIOUS
        <5>1. f > e
          BY <1>4, <4>2
        <5>2. sent[f] > 0 /\ ~log[f].own /\ log[f].says.key = log[e].says.key
          BY <1>1, <1>3, <2>1, <3>1, <3>2, LiveRecords DEF About, key
        <5> QED BY <3>1, <4>3, <5>1, <5>2 DEF Overtaken
      <4> QED BY <1>1, <1>5, <1>6, <3>1, <3>2, <4>4
    <3>3. CASE k # key
      <4>1. \A d \in Events : d \in About(k)' <=> d \in About(k)
        BY <1>1, <1>3, <3>3, LiveRecords DEF About, Events, key
      <4>2. f \in About(k) /\ \A d \in About(k) : d <= f
        <5>1. About(k) \subseteq Events
          BY DEF About
        <5> QED BY <2>1, <3>1, <4>1, <5>1
      <4>3. f # e
        BY <3>3, <4>2 DEF About, key
      <4>4. k \in Keys \ reordered
        BY <1>1, <2>1
      <4>5. /\ f \in acked => agent.ctx.facts[k] = Said(f)
            /\ live.state = "whole" /\ f \in acked => live.ctx.facts[k] = Said(f)
        BY <1>1, <4>2, <4>4 DEF LiveInv, CurrentInv
      <4> QED BY <1>1, <1>5, <1>6, <3>1, <3>3, <4>3, <4>5
    <3> QED BY <3>2, <3>3
  <2> QED BY <2>1 DEF CurrentInv
<1>17. OutboxInv'
  BY <1>1, OutboxStays
<1> QED BY <1>7, <1>8, <1>13, <1>14, <1>15, <1>16, <1>17 DEF LiveInv

LEMMA TruncateInv == ASSUME LiveInv, Truncate PROVE LiveInv'
<1>1. /\ agent.phase = "handled" /\ live' = [live EXCEPT !.state = "torn"]
      /\ agent' = [agent EXCEPT !.phase = "writing"]
      /\ UNCHANGED <<shared, log, sent, acked, cursor, shown, missed, reordered, outbox, outboxVars>>
  BY DEF Truncate
<1>2. /\ agent' \in Agents /\ agent'.up = agent.up /\ agent'.ctx = agent.ctx
      /\ agent'.phase = "writing" /\ agent'.event = agent.event
  BY <1>1, LiveRecords DEF Agents
<1>3. live' \in Files /\ live'.ctx = live.ctx /\ live'.state = "torn"
  BY <1>1, LiveRecords DEF Files
<1>4. LiveShape'
  BY <1>1, <1>2, <1>3 DEF LiveInv, LiveShape, Events
<1>5. PhaseInv'
  BY <1>1, <1>2, <1>3 DEF LiveInv, PhaseInv
<1>6. agent.up /\ \A d : Settled(d)' <=> Settled(d)
  BY <1>1 DEF LiveInv, PhaseInv, Settled
<1>7. Horizon' = Horizon
  BY <1>1, <1>3 DEF Horizon
<1>8. InMemory' /\ InFile'
  BY <1>1, <1>2, <1>3, <1>6, <1>7 DEF LiveInv, InMemory, InFile
<1>9. Kept'
  BY <1>1, <1>2, <1>3, <1>6 DEF LiveInv, Kept
<1>10. CurrentInv'
  <2>1. \A k : About(k)' = About(k)
    BY <1>1 DEF About, Events
  <2>2. \A d : Said(d)' = Said(d)
    BY <1>1 DEF Said
  <2> QED BY <1>1, <1>2, <1>3, <2>1, <2>2 DEF LiveInv, CurrentInv
<1>11. OutboxInv'
  BY <1>1, OutboxStays
<1> QED BY <1>4, <1>5, <1>8, <1>9, <1>10, <1>11 DEF LiveInv

LEMMA WriteInv == ASSUME LiveInv, Write PROVE LiveInv'
<1> DEFINE c == agent.ctx
<1>1. /\ agent.phase = "writing" /\ live' = [state |-> "whole", ctx |-> c]
      /\ agent' = [agent EXCEPT !.phase = "idle", !.event = 0]
      /\ acked' = acked \cup {agent.event} \/ acked' = acked
      /\ UNCHANGED <<shared, log, sent, cursor, shown, missed, reordered, outbox, outboxVars>>
  BY DEF Write
<1>2. /\ agent' \in Agents /\ agent'.up = agent.up /\ agent'.ctx = c
      /\ agent'.phase = "idle" /\ agent'.event = 0
  BY <1>1, LiveRecords DEF Agents
<1>3. live' \in Files /\ live'.ctx = c /\ live'.state = "whole"
  BY <1>1, LiveRecords DEF Files
<1>4. agent.up /\ agent.event \in EventsOf(c.recent) /\ agent.event \in Events
  BY <1>1, LiveRecords DEF LiveInv, PhaseInv, Events
<1>5. LiveShape'
  BY <1>1, <1>2, <1>3, <1>4 DEF LiveInv, LiveShape, Events
<1>6. PhaseInv'
  BY <1>1, <1>2, <1>3, <1>4, LiveRecords DEF LiveInv, PhaseInv
<1>7. \A d : Settled(d)' <=> Settled(d)
  BY <1>1 DEF Settled
<1>8. ASSUME NEW i \in DOMAIN c.recent PROVE c.recent[i].event \in EventsOf(c.recent)
  BY DEF EventsOf
<1>9. \A i \in DOMAIN c.recent : ~Settled(c.recent[i].event) => c.recent[i].seq > cursor
  BY DEF LiveInv, InMemory
<1>10. \A d \in acked : ~Settled(d) => d \in EventsOf(c.recent)
  BY <1>4 DEF LiveInv, Kept
<1>11. CurrentInv'
  <2>1. \A k : About(k)' = About(k)
    BY <1>1 DEF About, Events
  <2>2. \A d : Said(d)' = Said(d)
    BY <1>1 DEF Said
  <2>3. ASSUME NEW k \in Keys \ reordered', NEW f \in About(k)', \A d \in About(k)' : d <= f
        PROVE  /\ agent'.up /\ (f \in acked' \/ f = agent'.event) => agent'.ctx.facts[k] = Said(f)'
               /\ live'.state = "whole" /\ f \in acked' => live'.ctx.facts[k] = Said(f)'
    <3>1. f \in acked \/ f = agent.event => c.facts[k] = Said(f)
      BY <1>1, <1>4, <2>1, <2>3 DEF LiveInv, CurrentInv
    <3>2. f # 0
      BY LiveRecords, <2>1 DEF About, Events
    <3> QED BY <1>1, <1>2, <1>3, <2>2, <3>1, <3>2
  <2> QED BY <2>3 DEF CurrentInv
<1> HIDE DEF c
<1>12. InMemory' /\ InFile'
  BY <1>1, <1>2, <1>3, <1>7, <1>8, <1>9 DEF InMemory, InFile
<1>13. Kept'
  BY <1>1, <1>2, <1>3, <1>4, <1>7, <1>10 DEF Kept
<1>14. OutboxInv'
  BY <1>1, OutboxStays
<1> QED BY <1>5, <1>6, <1>11, <1>12, <1>13, <1>14 DEF LiveInv

LEMMA SaveFailsInv == ASSUME LiveInv, SaveFails PROVE LiveInv'
<1>1. /\ agent' = [agent EXCEPT !.phase = "idle", !.event = 0]
      /\ UNCHANGED <<shared, log, sent, acked, live, cursor, shown, missed, reordered, outbox, outboxVars>>
  BY DEF SaveFails
<1>2. /\ agent' \in Agents /\ agent'.up = agent.up /\ agent'.ctx = agent.ctx
      /\ agent'.phase = "idle" /\ agent'.event = 0
  BY <1>1, LiveRecords DEF Agents
<1>3. LiveShape'
  BY <1>1, <1>2 DEF LiveInv, LiveShape, Events
<1>4. PhaseInv'
  BY <1>1, <1>2, LiveRecords DEF LiveInv, PhaseInv
<1>5. (\A d : Settled(d)' <=> Settled(d)) /\ Horizon' = Horizon
  BY <1>1 DEF Settled, Horizon
<1>6. InMemory' /\ InFile' /\ Kept'
  BY <1>1, <1>2, <1>5 DEF LiveInv, InMemory, InFile, Kept
<1>7. CurrentInv'
  <2>1. \A k : About(k)' = About(k)
    BY <1>1 DEF About, Events
  <2>2. \A d : Said(d)' = Said(d)
    BY <1>1 DEF Said
  <2>3. \A k : \A f \in About(k) : f # 0
    BY LiveRecords DEF About, Events
  <2> QED BY <1>1, <1>2, <2>1, <2>2, <2>3 DEF LiveInv, CurrentInv
<1>8. OutboxInv'
  BY <1>1, OutboxStays
<1> QED BY <1>3, <1>4, <1>6, <1>7, <1>8 DEF LiveInv

LEMMA GetContextUpdatesInv == ASSUME LiveInv, GetContextUpdates PROVE LiveInv'
<1> DEFINE c == live.ctx
           h == Read(c, cursor)
           seen == Unread(c, cursor)
<1>1. UNCHANGED <<shared, log, sent, acked, agent, live, missed, reordered, outbox, outboxVars>>
  BY DEF GetContextUpdates, agentVars
<1>2. OutboxInv' /\ PhaseInv' /\ CurrentInv'
  <2>1. \A k : About(k)' = About(k)
    BY <1>1 DEF About, Events
  <2>2. \A d : Said(d)' = Said(d)
    BY <1>1 DEF Said
  <2>3. CurrentInv'
    BY <1>1, <2>1, <2>2 DEF LiveInv, CurrentInv
  <2>4. PhaseInv'
    BY <1>1 DEF LiveInv, PhaseInv
  <2> QED BY <1>1, <2>3, <2>4, OutboxStays
<1>3. CASE shown' = shown /\ cursor' = cursor
  <2>1. LiveShape'
    BY <1>1, <1>3 DEF LiveInv, LiveShape, Events
  <2>2. (\A d : Settled(d)' <=> Settled(d)) /\ Horizon' = Horizon
    BY <1>1, <1>3 DEF Settled, Horizon
  <2>3. InMemory' /\ InFile' /\ Kept'
    BY <1>1, <1>3, <2>2 DEF LiveInv, InMemory, InFile, Kept
  <2> QED BY <1>2, <2>1, <2>3 DEF LiveInv
<1>4. CASE shown' = shown \cup seen /\ cursor' = h
  <2>1. /\ h \in Nat /\ h >= cursor /\ Read(c, h) = h
        /\ \A i \in DOMAIN c.recent : c.recent[i].event \in Events
    BY ReadIs, LiveRecords DEF LiveInv, LiveShape, Fits, Events
  <2>2. \A d : d \in seen <=> \E i \in DOMAIN c.recent : c.recent[i].event = d /\ c.recent[i].seq > cursor
    BY DEF Unread, ToSet
  <2>3. Horizon = h /\ Horizon' = h
    BY <1>1, <1>4, <2>1 DEF Horizon
  <2> HIDE DEF h, seen
  <2>4. seen \subseteq Events
    BY <2>1, <2>2
  <2>5. LiveShape'
    BY <1>1, <1>4, <2>1, <2>4 DEF LiveInv, LiveShape, Events
  <2>6. \A d : Settled(d)' <=> Settled(d) \/ d \in seen
    BY <1>1, <1>4 DEF Settled, SettledIn
  <2>7. \A i \in DOMAIN c.recent : ~Settled(c.recent[i].event) => c.recent[i].event \in seen
    BY <2>2 DEF LiveInv, InFile
  <2>8. \A d \in EventsOf(c.recent) : Settled(d) \/ d \in seen
    BY <2>7 DEF EventsOf
  <2>9. \A i \in DOMAIN agent.ctx.recent :
          LET u == agent.ctx.recent[i] IN
          Settled(u.event) \/ u.event \in EventsOf(c.recent) \/ u.seq > h
    BY <2>3 DEF LiveInv, InMemory
  <2>10. InMemory'
    BY <1>1, <1>4, <2>3, <2>6, <2>8, <2>9 DEF InMemory
  <2>11. InFile'
    BY <1>1, <2>6, <2>7 DEF InFile
  <2>12. Kept'
    BY <1>1, <2>6 DEF LiveInv, Kept
  <2> QED BY <1>2, <2>5, <2>10, <2>11, <2>12 DEF LiveInv
<1> QED BY <1>3, <1>4 DEF GetContextUpdates

LEMMA AgentDiesInv == ASSUME LiveInv, AgentDies PROVE LiveInv'
<1> DEFINE c == NoContext
           lost == (EventsOf(agent.ctx.recent) \cap acked)
                     \ (IF live.state = "whole" THEN EventsOf(live.ctx.recent) ELSE {})
           Done(d) == SettledIn(log[d].own, shown, missed', d)
<1>1. /\ agent.up /\ agent' = [up |-> FALSE, ctx |-> c, phase |-> "idle", event |-> 0]
      /\ batch' = <<>> /\ offset' = 0 /\ tried' = {} /\ published' = [l \in Lines |-> 0]
      /\ missed' = missed \cup {<<"torn", d>> : d \in lost}
      /\ reordered' = IF live.state = "whole" THEN reordered ELSE Keys
      /\ UNCHANGED <<shared, log, sent, acked, live, cursor, outbox, host, shown>>
  BY DEF AgentDies
<1>2. c \in Contexts /\ DOMAIN c.recent = {} /\ Fits(c, Len(log))
  BY NoContextIs, LiveRecords
<1> HIDE DEF c
<1>3. agent' \in Agents /\ ~agent'.up /\ agent'.ctx = c /\ agent'.phase = "idle" /\ agent'.event = 0
  BY <1>1, <1>2 DEF Agents
<1>4. LiveShape'
  BY <1>1, <1>2, <1>3 DEF LiveInv, LiveShape, Events
<1>5. PhaseInv'
  BY <1>1, <1>3, LiveRecords DEF LiveInv, PhaseInv
<1>6. \A d : Settled(d) => Done(d)
  BY <1>1 DEF Settled, SettledIn
<1>7. ASSUME NEW d \in lost PROVE Done(d)
  <2>1. <<"torn", d>> \in missed'
    BY <1>1
  <2> QED BY <2>1 DEF SettledIn
<1>8. \A d : Settled(d)' <=> Done(d)
  BY <1>1 DEF Settled
<1> HIDE DEF Done
<1>9. InMemory' /\ InFile'
  BY <1>1, <1>2, <1>3, <1>6, <1>8 DEF LiveInv, InMemory, InFile
<1>10. Kept'
  <2>1. ASSUME NEW d \in acked, ~Done(d)
        PROVE  live.state = "whole" /\ d \in EventsOf(live.ctx.recent)
    <3>1. d \in EventsOf(agent.ctx.recent) /\ (live.state = "whole" => d \in EventsOf(live.ctx.recent))
      BY <1>1, <1>6, <2>1 DEF LiveInv, Kept
    <3> QED BY <1>7, <2>1, <3>1
  <2> QED BY <1>1, <1>3, <1>8, <2>1 DEF Kept
<1>11. CurrentInv'
  <2>1. \A k : About(k)' = About(k)
    BY <1>1 DEF About, Events
  <2>2. \A d : Said(d)' = Said(d)
    BY <1>1 DEF Said
  <2> QED BY <1>1, <1>3, <2>1, <2>2 DEF LiveInv, CurrentInv
<1>12. OutboxInv'
  BY <1>1, LiveAssumption DEF LiveInv, OutboxInv, HostFiles, Counts
<1> QED BY <1>4, <1>5, <1>9, <1>10, <1>11, <1>12 DEF LiveInv

LEMMA AgentStartsInv == ASSUME LiveInv, AgentStarts PROVE LiveInv'
<1> DEFINE c == IF live.state = "whole" THEN live.ctx ELSE NoContext
<1>1. /\ ~agent.up /\ agent' = [agent EXCEPT !.up = TRUE, !.ctx = c]
      /\ UNCHANGED <<shared, log, sent, acked, live, cursor, shown, missed, reordered, outbox, outboxVars>>
  BY DEF AgentStarts
<1>2. c \in Contexts /\ Fits(c, Len(log)) /\ (live.state = "whole" => c = live.ctx)
      /\ (live.state # "whole" => DOMAIN c.recent = {})
  BY NoContextIs, LiveRecords DEF LiveInv, LiveShape
<1> HIDE DEF c
<1>3. /\ agent' \in Agents /\ agent'.up /\ agent'.ctx = c /\ agent'.phase = agent.phase
      /\ agent'.event = agent.event
  BY <1>1, <1>2, LiveRecords DEF Agents
<1>4. agent.phase = "idle" /\ agent.event = 0 /\ (live.state # "whole" => Keys \subseteq reordered)
  BY <1>1 DEF LiveInv, PhaseInv
<1>5. LiveShape'
  BY <1>1, <1>2, <1>3 DEF LiveInv, LiveShape, Events
<1>6. PhaseInv'
  BY <1>1, <1>3, <1>4 DEF LiveInv, PhaseInv
<1>7. (\A d : Settled(d)' <=> Settled(d)) /\ Horizon' = Horizon
  BY <1>1 DEF Settled, Horizon
<1>8. \A i \in DOMAIN live.ctx.recent : live.ctx.recent[i].event \in EventsOf(live.ctx.recent)
  BY DEF EventsOf
<1>9. InMemory' /\ InFile'
  <2>1. InFile'
    BY <1>1, <1>7 DEF LiveInv, InFile
  <2>2. ASSUME NEW i \in DOMAIN c.recent, ~Settled(c.recent[i].event)
        PROVE  c.recent[i].seq > cursor /\ c.recent[i].event \in EventsOf(live.ctx.recent)
    BY <1>2, <1>8, <2>2 DEF LiveInv, InFile
  <2> QED BY <1>1, <1>3, <1>7, <2>1, <2>2 DEF InMemory
<1>10. Kept'
  BY <1>1, <1>2, <1>3, <1>7 DEF LiveInv, Kept
<1>11. CurrentInv'
  <2>1. \A k : About(k)' = About(k)
    BY <1>1 DEF About, Events
  <2>2. \A d : Said(d)' = Said(d)
    BY <1>1 DEF Said
  <2>3. \A k : \A f \in About(k) : f # 0
    BY LiveRecords DEF About, Events
  <2>4. ASSUME NEW k \in Keys \ reordered', NEW f \in About(k)', \A d \in About(k)' : d <= f
        PROVE  /\ agent'.up /\ (f \in acked' \/ f = agent'.event) => agent'.ctx.facts[k] = Said(f)'
               /\ live'.state = "whole" /\ f \in acked' => live'.ctx.facts[k] = Said(f)'
    <3>1. live.state = "whole" /\ k \in Keys \ reordered
      BY <1>1, <1>4, <2>4
    <3>2. f \in acked => live.ctx.facts[k] = Said(f)
      BY <2>1, <2>4, <3>1 DEF LiveInv, CurrentInv
    <3> QED BY <1>1, <1>2, <1>3, <1>4, <2>1, <2>2, <2>3, <2>4, <3>1, <3>2
  <2> QED BY <2>4 DEF CurrentInv
<1>12. OutboxInv'
  BY <1>1, OutboxStays
<1> QED BY <1>5, <1>6, <1>9, <1>10, <1>11, <1>12 DEF LiveInv

-----------------------------------------------------------------------------
(* LiveContext: the outbox.                                                 *)

LEMMA EventsStay ==
  ASSUME LiveInv, UNCHANGED <<shared, log, agentVars, cursor, shown>>, OutboxInv' PROVE LiveInv'
<1>1. UNCHANGED <<shared, log, sent, acked, agent, live, missed, reordered, cursor, shown>>
  BY DEF agentVars
<1>2. LiveShape' /\ PhaseInv'
  BY <1>1 DEF LiveInv, LiveShape, PhaseInv, Events
<1>3. (\A d : Settled(d)' <=> Settled(d)) /\ Horizon' = Horizon
  BY <1>1 DEF Settled, Horizon
<1>4. InMemory' /\ InFile' /\ Kept'
  BY <1>1, <1>3 DEF LiveInv, InMemory, InFile, Kept
<1>5. \A k : About(k)' = About(k)
  BY <1>1 DEF About, Events
<1>6. \A d : Said(d)' = Said(d)
  BY <1>1 DEF Said
<1>7. CurrentInv'
  BY <1>1, <1>5, <1>6 DEF LiveInv, CurrentInv
<1> QED BY <1>2, <1>4, <1>7 DEF LiveInv

LEMMA AppendLineInv == ASSUME LiveInv, AppendLine PROVE LiveInv'
<1> DEFINE n == Len(outbox)
<1>1. /\ n < MaxLines /\ outbox' = Append(outbox, n + 1)
      /\ host' = IF shared THEN [exists |-> TRUE, lines |-> outbox'] ELSE host
      /\ UNCHANGED <<shared, log, agentVars, cursor, offset, batch, published, tried, shown>>
  BY DEF AppendLine
<1>2. OutboxInv
  BY DEF LiveInv
<1>3. n \in Nat /\ outbox \in Seq(Nat) /\ \A i \in 1..n : outbox[i] = i
  BY <1>2 DEF OutboxInv, Counts
<1>4. outbox' \in Seq(Nat) /\ Len(outbox') = n + 1 /\ \A i \in 1..(n + 1) : outbox'[i] = i
  BY <1>1, <1>3
<1>5. host' \in HostFiles /\ (host'.lines = outbox' \/ host'.lines = host.lines)
  BY <1>1, <1>2, <1>4 DEF OutboxInv, HostFiles
<1>6. /\ Counts(host.lines) /\ Len(host.lines) <= n /\ Len(host.lines) \in Nat
      /\ offset \in 0..Len(host.lines) /\ MaxLines \in Nat
  BY <1>2, LiveAssumption DEF OutboxInv, Counts
<1>7. Counts(outbox') /\ Len(outbox') <= MaxLines
  BY <1>1, <1>3, <1>4, <1>6 DEF Counts
<1> HIDE DEF n
<1>8. Counts(host'.lines) /\ Len(host'.lines) <= Len(outbox') /\ offset \in 0..Len(host'.lines)
  BY <1>3, <1>4, <1>5, <1>6, <1>7
<1>9. OutboxInv'
  BY <1>1, <1>2, <1>5, <1>7, <1>8 DEF OutboxInv
<1> QED BY <1>1, <1>9, EventsStay

LEMMA TakeLinesInv == ASSUME LiveInv, TakeLines PROVE LiveInv'
<1> DEFINE file == IF host.exists THEN host.lines ELSE outbox
           m == offset + 1
<1>1. /\ batch = <<>> /\ host' = [exists |-> TRUE, lines |-> file] /\ Len(file) > offset
      /\ batch' = SubSeq(file, m, Len(file)) /\ offset' = Len(file)
      /\ UNCHANGED <<shared, log, agentVars, cursor, outbox, published, tried, shown>>
  BY DEF TakeLines
<1>2. OutboxInv
  BY DEF LiveInv
<1>3. /\ Counts(file) /\ Len(file) <= Len(outbox) /\ Counts(outbox)
  BY <1>2 DEF OutboxInv, Counts
<1> HIDE DEF file
<1>4. file \in Seq(Nat) /\ Len(file) \in Nat /\ offset \in Nat /\ \A i \in 1..Len(file) : file[i] = i
  BY <1>2, <1>3 DEF OutboxInv, Counts
<1>5. host' \in HostFiles /\ host'.lines = file
  BY <1>1, <1>4 DEF HostFiles
<1>6. m \in 1..Len(file)
  BY <1>1, <1>4
<1>7. /\ batch' \in Seq(Nat) /\ Len(batch') = Len(file) - m + 1
      /\ \A i \in 1..(Len(file) - m + 1) : batch'[i] = file[i + m - 1]
  BY <1>1, <1>4, <1>6, SubSeqIs
<1>8. Len(batch') = Len(file) - offset
  BY <1>4, <1>7
<1>9. ASSUME NEW i \in 1..Len(batch') PROVE batch'[i] = (offset' - Len(batch')) + i
  <2>1. i + m - 1 \in 1..Len(file) /\ i + m - 1 = offset + i
    BY <1>4, <1>8, <1>9
  <2>2. batch'[i] = file[i + m - 1]
    BY <1>4, <1>7, <1>8, <1>9
  <2>3. file[i + m - 1] = i + m - 1
    BY <1>4, <2>1
  <2>4. batch'[i] = offset + i
    BY <2>1, <2>2, <2>3
  <2>5. offset' - Len(batch') = offset
    BY <1>1, <1>4, <1>8
  <2> QED BY <2>4, <2>5
<1>10. tried = 1..offset
  <2>1. Len(batch) = 0
    BY <1>1
  <2> QED BY <1>2, <1>4, <2>1 DEF OutboxInv
<1>11. tried' = 1..(offset' - Len(batch'))
  BY <1>1, <1>4, <1>8, <1>10
<1>12. offset' \in 0..Len(host'.lines) /\ Len(batch') <= offset'
  BY <1>1, <1>4, <1>5, <1>8
<1>13. OutboxInv'
  BY <1>1, <1>2, <1>3, <1>5, <1>7, <1>9, <1>11, <1>12 DEF OutboxInv
<1> QED BY <1>1, <1>13, EventsStay

LEMMA PublishLineInv == ASSUME LiveInv, PublishLine PROVE LiveInv'
<1> DEFINE h == Head(batch)
           k == Len(batch)
<1>1. /\ batch # <<>> /\ batch' = Tail(batch) /\ tried' = tried \cup {h}
      /\ published' = [published EXCEPT ![h] = @ + 1] \/ published' = published
      /\ UNCHANGED <<shared, log, agentVars, cursor, outbox, host, offset, shown>>
  BY DEF PublishLine
<1>2. OutboxInv
  BY DEF LiveInv
<1>3. /\ batch \in Seq(Nat) /\ k \in Nat /\ k > 0 /\ offset \in Nat /\ k <= offset
      /\ \A i \in 1..k : batch[i] = (offset - k) + i
  <2>1. /\ batch \in Seq(Nat) /\ offset \in 0..Len(host.lines) /\ k <= offset
        /\ \A i \in 1..k : batch[i] = (offset - k) + i
    BY <1>2 DEF OutboxInv
  <2>2. k \in Nat /\ k # 0
    BY <1>1, <2>1
  <2> HIDE DEF k
  <2> QED BY <2>1, <2>2
<1>4. h = offset - k + 1 /\ h \in Nat /\ h >= 1
  BY <1>3
<1>5. /\ batch' \in Seq(Nat) /\ Len(batch') = k - 1 /\ \A i \in 1..(k - 1) : batch'[i] = batch[i + 1]
  BY <1>1, <1>3
<1>6. tried = 1..(offset - k) /\ published \in [Lines -> 0..1]
      /\ \A l \in Lines : published[l] = 1 => l \in tried
  BY <1>2 DEF OutboxInv
<1>7. offset <= MaxLines /\ MaxLines \in Nat
  BY <1>2, <1>3, LiveAssumption DEF OutboxInv, Counts
<1> HIDE DEF h, k
<1>8. tried' = 1..(offset - (k - 1))
  BY <1>1, <1>3, <1>4, <1>6
<1>9. h \in Lines /\ h \notin tried
  BY <1>3, <1>4, <1>6, <1>7 DEF Lines
<1>10. published[h] = 0
  BY <1>6, <1>9
<1>11. published' \in [Lines -> 0..1] /\ \A l \in Lines : published'[l] = 1 => l \in tried'
  BY <1>1, <1>6, <1>9, <1>10
<1>12. ASSUME NEW i \in 1..Len(batch') PROVE batch'[i] = (offset' - Len(batch')) + i
  <2>1. i + 1 \in 1..k /\ batch'[i] = batch[i + 1]
    BY <1>3, <1>5, <1>12
  <2> QED BY <1>1, <1>3, <1>5, <2>1
<1>13. Len(batch') <= offset' /\ offset' = offset
  BY <1>1, <1>3, <1>5
<1>14. OutboxInv'
  BY <1>1, <1>2, <1>5, <1>8, <1>11, <1>12, <1>13 DEF OutboxInv, Lines
<1> QED BY <1>1, <1>14, EventsStay

LEMMA LiveNextInv == LiveInv /\ [LiveNext]_liveVars => LiveInv'
<1> SUFFICES ASSUME LiveInv, [LiveNext]_liveVars PROVE LiveInv'
  OBVIOUS
<1>1. CASE UNCHANGED liveVars
  <2>1. OutboxInv' /\ UNCHANGED <<shared, log, agentVars, cursor, shown>>
    BY <1>1, OutboxStays DEF liveVars, agentVars, outboxVars
  <2> QED BY <2>1, EventsStay
<1>2. ASSUME NEW e \in Events, Skip(e) \/ Handle(e) PROVE LiveInv'
  BY <1>2, SkipInv, HandleInv
<1>3. CASE LiveNext
  BY <1>2, <1>3, PublishEventInv, TruncateInv, WriteInv, SaveFailsInv, GetContextUpdatesInv,
     AppendLineInv, TakeLinesInv, PublishLineInv, AgentDiesInv, AgentStartsInv DEF LiveNext
<1> QED BY <1>1, <1>3

\* The agent keeps to its types: what it has shown and acknowledged are events of the
\* branch, the context keeps no more updates than its limit, and the outbox holds Claude's
\* lines in order (eventHandler, outboxLoop).
THEOREM LiveTypes == LiveSpec => []LiveTypeOK
<1>1. ASSUME LiveInv, NEW ctx \in {agent.ctx, live.ctx}
      PROVE  /\ Len(ctx.recent) <= RecentCap /\ EventsOf(ctx.recent) \subseteq Events
             /\ ctx.facts \in [Keys -> 0 .. Len(log)] /\ ctx.last \in Nat
  <2>1. ctx \in Contexts /\ Fits(ctx, Len(log)) /\ Len(log) \in Nat
    BY <1>1, LiveRecords DEF LiveInv, LiveShape
  <2>2. ctx.facts \in [Keys -> Nat] /\ ctx.last \in Nat
    BY <2>1 DEF Contexts
  <2> QED BY <2>1, <2>2 DEF Fits, EventsOf, Events
<1>2. ASSUME LiveInv PROVE outbox = [l \in 1 .. Len(outbox) |-> l]
  <2>1. outbox \in Seq(Nat) /\ \A i \in 1..Len(outbox) : outbox[i] = i
    BY <1>2 DEF LiveInv, OutboxInv, Counts
  <2>2. outbox = [i \in 1..Len(outbox) |-> outbox[i]]
    BY <2>1
  <2> QED BY <2>1, <2>2
<1>3. ASSUME LiveInv PROVE tried \subseteq Lines
  <2>1. /\ tried = 1..(offset - Len(batch)) /\ offset \in Nat /\ offset <= MaxLines /\ MaxLines \in Nat
        /\ Len(batch) \in Nat
    BY <1>3, LiveAssumption DEF LiveInv, OutboxInv, Counts
  <2> QED BY <2>1 DEF Lines
<1>4. ASSUME LiveInv
      PROVE  /\ agent.event \in 0 .. Len(log) /\ (agent.phase = "idle" <=> agent.event = 0)
             /\ agent.phase \in {"idle", "handled", "writing"}
             /\ live.state \in {"absent", "torn", "whole"}
  BY <1>4, LiveRecords DEF LiveInv, PhaseInv
<1>5. ASSUME LiveInv PROVE log \in Seq([says : Facts \cup {NoFact}, own : BOOLEAN, seq : Nat])
  BY <1>5 DEF LiveInv, LiveShape, Entries
<1>6. LiveInv => LiveTypeOK
  BY <1>1, <1>2, <1>3, <1>4, <1>5 DEF LiveTypeOK, LiveInv, LiveShape, OutboxInv
<1> QED BY <1>6, LiveInitInv, LiveNextInv, PTL DEF LiveSpec

\* An update the consumer has seen acknowledged is not gone before Claude has seen it,
\* whatever saves fail, whatever is delivered twice and whenever the agent dies, save for
\* the named losses (eventHandler.Handle, saveToDisk, getUpdates of the MCP server).
THEOREM AckedStaysReadable == LiveSpec => []AckedIsReadable
<1>1. ASSUME LiveInv, NEW d \in acked, ~Settled(d)
      PROVE  IF live.state = "whole" THEN d \in Unread(live.ctx, cursor)
             ELSE agent.up /\ d \in Unread(agent.ctx, cursor)
  <2>1. CASE live.state = "whole"
    <3>1. d \in EventsOf(live.ctx.recent)
      BY <1>1, <2>1 DEF LiveInv, Kept
    <3>2. PICK i \in DOMAIN live.ctx.recent : live.ctx.recent[i].event = d
      BY <3>1 DEF EventsOf
    <3>3. live.ctx.recent[i].seq > cursor
      BY <1>1, <3>2 DEF LiveInv, InFile
    <3> QED BY <2>1, <3>2, <3>3 DEF Unread, ToSet
  <2>2. CASE live.state # "whole"
    <3>1. agent.up /\ d \in EventsOf(agent.ctx.recent)
      BY <1>1, <2>2 DEF LiveInv, Kept
    <3>2. PICK i \in DOMAIN agent.ctx.recent : agent.ctx.recent[i].event = d
      BY <3>1 DEF EventsOf
    <3>3. agent.ctx.recent[i].seq > cursor
      BY <1>1, <3>2 DEF LiveInv, InMemory
    <3> QED BY <2>2, <3>1, <3>2, <3>3 DEF Unread, ToSet
  <2> QED BY <2>1, <2>2
<1>2. LiveInv => AckedIsReadable
  BY <1>1 DEF AckedIsReadable, Settled, SettledIn
<1> QED BY <1>2, LiveInitInv, LiveNextInv, PTL DEF LiveSpec

\* What the agent keeps of a package, config or contract is what the newest event about
\* it said, in memory and in the file, except for keys whose events overtook each other
\* or after a restart from a torn file (eventHandler.Handle, saveToDisk, newEventHandler).
THEOREM ContextStaysCurrent == LiveSpec => []ContextIsCurrent
<1>1. ASSUME LiveInv, NEW k \in Keys \ reordered, About(k) # {}, Highest(About(k)) \in acked
      PROVE  /\ agent.up => agent.ctx.facts[k] = Said(Highest(About(k)))
             /\ live.state = "whole" => live.ctx.facts[k] = Said(Highest(About(k)))
  <2>1. About(k) \subseteq 1..Len(log) /\ Len(log) \in Nat
    BY <1>1, LiveRecords DEF About, Events
  <2>2. IsFiniteSet(1..Len(log))
    BY <2>1, FS_Interval
  <2>3. IsFiniteSet(About(k)) /\ About(k) \subseteq Nat
    BY <2>1, <2>2, FS_Subset
  <2>4. Highest(About(k)) \in About(k) /\ \A d \in About(k) : d <= Highest(About(k))
    BY <1>1, <2>3, HighestIs
  <2> QED BY <1>1, <2>4 DEF LiveInv, CurrentInv
<1>2. LiveInv => ContextIsCurrent
  BY <1>1 DEF ContextIsCurrent, About, Said
<1> QED BY <1>2, LiveInitInv, LiveNextInv, PTL DEF LiveSpec

\* Between two starts of the agent no line of Claude's is sent twice and none is skipped
\* (outboxLoop: its offset, and the lines it has taken).
THEOREM NoLineTwice == LiveSpec => []LinesAccounted
<1>1. ASSUME LiveInv
      PROVE  tried \cup ToSet(batch) = 1 .. offset /\ tried \cap ToSet(batch) = {}
  <2> DEFINE k == Len(batch)
  <2>1. /\ batch \in Seq(Nat) /\ k \in Nat /\ offset \in Nat /\ k <= offset
        /\ \A i \in 1..k : batch[i] = (offset - k) + i
        /\ tried = 1..(offset - k) /\ DOMAIN batch = 1..k
    BY <1>1 DEF LiveInv, OutboxInv, Counts
  <2> HIDE DEF k
  <2>2. ASSUME NEW n \in (offset - k + 1)..offset PROVE n \in ToSet(batch)
    <3>1. n - (offset - k) \in 1..k
      BY <2>1, <2>2
    <3>2. batch[n - (offset - k)] = n
      BY <2>1, <2>2, <3>1
    <3> QED BY <2>1, <3>1, <3>2 DEF ToSet
  <2>3. ASSUME NEW n \in ToSet(batch) PROVE n \in (offset - k + 1)..offset
    <3>1. PICK i \in 1..k : batch[i] = n
      BY <2>1, <2>3 DEF ToSet
    <3> QED BY <2>1, <3>1
  <2>4. ToSet(batch) = (offset - k + 1)..offset
    BY <2>2, <2>3
  <2> QED BY <2>1, <2>4
<1>2. ASSUME LiveInv, NEW l \in Lines PROVE published[l] <= 1 /\ (published[l] = 1 => l \in tried)
  BY <1>2 DEF LiveInv, OutboxInv
<1>3. LiveInv => LinesAccounted
  BY <1>1, <1>2 DEF LinesAccounted
<1> QED BY <1>3, LiveInitInv, LiveNextInv, PTL DEF LiveSpec
=============================================================================
