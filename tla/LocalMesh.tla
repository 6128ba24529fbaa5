----------------------------- MODULE LocalMesh -----------------------------
(***************************************************************************)
(* The mesh of a server without NATS (internal/api/server.go): LocalBus of *)
(* pkg/livectx/bus.go, the propagation's handler                           *)
(* (internal/services/event_propagation.go) and the clients that subscribe *)
(* (server.go, websocket.go), one organisation.  Publish calls the         *)
(* handlers under the read lock, and the propagation's handler publishes   *)
(* again; Subscribe takes the write lock.  A sync.RWMutex lets no new      *)
(* reader in once a writer has asked, and lets all that have waited in     *)
(* when the writer is done.  Events are stored first, as in Mesh.  A       *)
(* handler that returns an error is not called again, and stays when its   *)
(* client is gone.                                                         *)
(***************************************************************************)
EXTENDS Naturals, Sequences, FiniteSets

CONSTANTS LocalBranches, Posters, Watchers,
          Listener,     \* the start-up goroutine that calls SubscribeAll
          NoWaiter,
          MaxPostings   \* bound: events that are published, without copies

ASSUME LocalAssumption ==
  /\ NoWaiter \notin Watchers \cup {Listener} /\ Listener \notin Watchers
  /\ LocalBranches # {} /\ IsFiniteSet(Posters) /\ MaxPostings \in Nat

VARIABLES
  tuned,     \* the handlers of each branch: their clients
  listens,   \* the propagation's handler is there
  reads,     \* read locks of each poster: 2 while a handler of its event publishes
  blocked,   \* the posters that wait in RLock
  taker,     \* the writer that waits for the readers to go, or NoWaiter
  post,      \* MeshPublisher.Publish in each request: [pc, no, on, copies, copied]
  watcher,   \* [pc, branch, late]: late are the events that began after it subscribed
  heard,     \* the events [no, on] each client's handler was called with
  ended      \* history: events whose Publish has returned, [no, on, copied]

localVars == <<tuned, listens, reads, blocked, taker, post, watcher, heard, ended>>

Waiters == Watchers \cup {Listener}
IdlePost == [pc |-> "idle", no |-> 0, on |-> CHOOSE b \in LocalBranches : TRUE,
             copies |-> {}, copied |-> FALSE]

LocalTypeOK ==
  /\ tuned \in [LocalBranches -> SUBSET Watchers] /\ listens \in BOOLEAN
  /\ reads \in [Posters -> 0..2] /\ blocked \subseteq Posters
  /\ taker \in Waiters \cup {NoWaiter}
  /\ post \in [Posters -> [pc : {"idle", "rlock", "deliver", "find", "next", "relock",
                                 "redeliver", "return"}, no : 0..MaxPostings,
                           on : LocalBranches, copies : SUBSET LocalBranches,
                           copied : BOOLEAN]]
  /\ watcher \in [Waiters -> [pc : {"idle", "lock", "await", "on", "gone"},
                              branch : LocalBranches, late : SUBSET (1..MaxPostings)]]
  /\ heard \in [Watchers -> Seq([no : 1..MaxPostings, on : LocalBranches])]
  /\ ended \subseteq [no : 1..MaxPostings, on : LocalBranches, copied : BOOLEAN]

\* the listener's query for the organisations may have failed
LocalInit ==
  /\ tuned = [b \in LocalBranches |-> {}] /\ listens = FALSE
  /\ reads = [p \in Posters |-> 0] /\ blocked = {} /\ taker = NoWaiter
  /\ post = [p \in Posters |-> IdlePost]
  /\ \E pc \in {"lock", "gone"} :
       watcher = [w \in Waiters |-> [pc |-> IF w = Listener THEN pc ELSE "idle",
                                     branch |-> IdlePost.on, late |-> {}]]
  /\ heard = [w \in Watchers |-> <<>>] /\ ended = {}

-----------------------------------------------------------------------------
(* A request that publishes.                                                 *)

Postings == Cardinality(ended) + Cardinality({p \in Posters : post[p].pc # "idle"})
PostAt(p, pc) == post[p].pc = pc
Hears(w, b) == w \in tuned[b] /\ watcher[w].pc = "on"
Hear(p, b) ==
  heard' = [w \in Watchers |->
              IF Hears(w, b) THEN Append(heard[w], [no |-> post[p].no, on |-> b]) ELSE heard[w]]

Post(p, b) ==
  /\ PostAt(p, "idle") /\ Postings < MaxPostings
  /\ LET no == CHOOSE n \in 1..MaxPostings :
                 /\ \A e \in ended : e.no # n
                 /\ \A q \in Posters : post[q].pc # "idle" => post[q].no # n
     IN post' = [post EXCEPT ![p] = [pc |-> "rlock", no |-> no, on |-> b, copies |-> {},
                                     copied |-> FALSE]]
  /\ UNCHANGED <<tuned, listens, reads, blocked, taker, watcher, heard, ended>>

\* where a poster goes on when it has the read lock, and the clients whose
\* subscriptions the event of an outer Publish comes after
Locked(pc) == IF pc = "rlock" THEN "deliver" ELSE "redeliver"
Began(ps) == {post[p].no : p \in {q \in ps : PostAt(q, "rlock")}}
Admit(ps, w) ==
  /\ reads' = [p \in Posters |-> IF p \in ps THEN reads[p] + 1 ELSE reads[p]]
  /\ post' = [p \in Posters |->
                IF p \in ps THEN [post[p] EXCEPT !.pc = Locked(@)] ELSE post[p]]
  /\ watcher' = [v \in Waiters |->
       LET now == IF v = w THEN [watcher[v] EXCEPT !.pc = "on"] ELSE watcher[v]
       IN IF now.pc = "on" THEN [now EXCEPT !.late = @ \cup Began(ps)] ELSE now]

RLock(p) ==
  /\ post[p].pc \in {"rlock", "relock"} /\ p \notin blocked
  /\ \/ taker = NoWaiter /\ Admit({p}, NoWaiter) /\ UNCHANGED blocked
     \/ taker # NoWaiter /\ blocked' = blocked \cup {p} /\ UNCHANGED <<reads, post, watcher>>
  /\ UNCHANGED <<tuned, listens, taker, heard, ended>>

\* the branch's handlers, then the propagation's
Deliver(p) ==
  /\ PostAt(p, "deliver")
  /\ Hear(p, post[p].on)
  /\ post' = [post EXCEPT ![p].pc = IF listens THEN "find" ELSE "return"]
  /\ UNCHANGED <<tuned, listens, reads, blocked, taker, watcher, ended>>

\* an event that is not to be copied, or a query that fails, as it does when the
\* request that publishes is over; else the other branches
FindRepoBranches(p) ==
  /\ PostAt(p, "find")
  /\ \/ post' = [post EXCEPT ![p].pc = "return"]
     \/ post' = [post EXCEPT ![p].pc = "next", ![p].copied = TRUE,
                             ![p].copies = LocalBranches \ {post[p].on}]
  /\ UNCHANGED <<tuned, listens, reads, blocked, taker, watcher, heard, ended>>

PropagateNext(p) ==
  /\ PostAt(p, "next")
  /\ post' = [post EXCEPT ![p].pc = IF post[p].copies = {} THEN "return" ELSE "relock"]
  /\ UNCHANGED <<tuned, listens, reads, blocked, taker, watcher, heard, ended>>

\* Publish of a copy; the propagation's handler ignores it
Redeliver(p) ==
  /\ PostAt(p, "redeliver")
  /\ \E b \in post[p].copies :
       /\ Hear(p, b)
       /\ post' = [post EXCEPT ![p].pc = "next", ![p].copies = @ \ {b}]
  /\ reads' = [reads EXCEPT ![p] = @ - 1]
  /\ UNCHANGED <<tuned, listens, blocked, taker, watcher, ended>>

Return(p) ==
  /\ PostAt(p, "return")
  /\ ended' = ended \cup {[no |-> post[p].no, on |-> post[p].on, copied |-> post[p].copied]}
  /\ post' = [post EXCEPT ![p] = IdlePost]
  /\ reads' = [reads EXCEPT ![p] = @ - 1]
  /\ UNCHANGED <<tuned, listens, blocked, taker, watcher, heard>>

-----------------------------------------------------------------------------
(* Subscriptions.                                                            *)

OpenStream(w, b) ==
  /\ w # Listener /\ watcher[w].pc = "idle"
  /\ watcher' = [watcher EXCEPT ![w].pc = "lock", ![w].branch = b]
  /\ UNCHANGED <<tuned, listens, reads, blocked, taker, post, heard, ended>>

\* from here on no reader is let in
AskToWrite(w) ==
  /\ watcher[w].pc = "lock" /\ taker = NoWaiter
  /\ taker' = w
  /\ watcher' = [watcher EXCEPT ![w].pc = "await"]
  /\ UNCHANGED <<tuned, listens, reads, blocked, post, heard, ended>>

\* mutant of ReadersGone: a handler's own event is not waited for
OuterReadersGone == \A p \in Posters : reads[p] < 2

ReadersGone == \A p \in Posters : reads[p] = 0

\* Subscribe or SubscribeAll with the lock, and its release
SubscribeLocal(w) ==
  /\ watcher[w].pc = "await" /\ ReadersGone
  /\ IF w = Listener
     THEN listens' = TRUE /\ UNCHANGED tuned
     ELSE tuned' = [tuned EXCEPT ![watcher[w].branch] = @ \cup {w}] /\ UNCHANGED listens
  /\ taker' = NoWaiter /\ blocked' = {}
  /\ Admit(blocked, w)
  /\ UNCHANGED <<heard, ended>>

\* nothing removes the handler
CloseStream(w) ==
  /\ w # Listener /\ watcher[w].pc = "on"
  /\ watcher' = [watcher EXCEPT ![w].pc = "gone"]
  /\ UNCHANGED <<tuned, listens, reads, blocked, taker, post, heard, ended>>

PostStep(p) ==
  RLock(p) \/ Deliver(p) \/ FindRepoBranches(p) \/ PropagateNext(p) \/ Redeliver(p) \/ Return(p)
WriterStep(w) == AskToWrite(w) \/ SubscribeLocal(w)

LocalNext ==
  \/ \E p \in Posters : PostStep(p) \/ \E b \in LocalBranches : Post(p, b)
  \/ \E w \in Waiters : \/ WriterStep(w) \/ CloseStream(w)
                        \/ \E b \in LocalBranches : OpenStream(w, b)

\* goroutines run on; clients and requests come when they like
LocalFairness ==
  /\ \A p \in Posters : WF_localVars(PostStep(p))
  /\ \A w \in Waiters : WF_localVars(WriterStep(w))
LocalSpec == LocalInit /\ [][LocalNext]_localVars /\ LocalFairness

-----------------------------------------------------------------------------
(* A client hears an event exactly once, if the event is of its branch or was *)
(* copied to it and was published after the client had subscribed, and hears  *)
(* no other.                                                                  *)
HeardOnce ==
  \A w \in Watchers :
    /\ \A i, k \in DOMAIN heard[w] : heard[w][i].no = heard[w][k].no => i = k
    /\ \A i \in DOMAIN heard[w] : /\ heard[w][i].on = watcher[w].branch
                                  /\ heard[w][i].no \in watcher[w].late
    /\ watcher[w].pc = "on" =>
         \A e \in ended : /\ e.no \in watcher[w].late
                          /\ e.on = watcher[w].branch \/ e.copied
                          => \E i \in DOMAIN heard[w] : heard[w][i].no = e.no

\* a handler waits in RLock behind a writer that waits for the event it handles
Entangled == \E p \in blocked : reads[p] > 0

(* Every Publish returns and every subscription is made, or a handler and a   *)
(* writer wait for each other: that is the one way this bus stops.            *)
NobodyWaits ==
  /\ \A p \in Posters : post[p].pc # "idle" ~> (post[p].pc = "idle" \/ Entangled)
  /\ \A w \in Waiters :
       watcher[w].pc \in {"lock", "await"} ~> (watcher[w].pc = "on" \/ Entangled)
=============================================================================
