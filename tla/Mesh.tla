-------------------------------- MODULE Mesh --------------------------------
(***************************************************************************)
(* The live context mesh on the side of the API server: an event is stored *)
(* in context_events and broadcast on a JetStream stream                   *)
(* (pkg/livectx/store.go, bus.go), copied to the other branches of its     *)
(* repository (internal/services/event_propagation.go), and streamed to    *)
(* clients (handleStreamEvents in internal/api/server.go).                 *)
(*                                                                         *)
(* An event is known by its fact, which stands for its type, environment   *)
(* and data: posted again, by a retry for one or for another branch, it    *)
(* has a new id and the same key.  JetStream is external: one stream for   *)
(* all branches that remembers message ids for a while, and a durable      *)
(* consumer that delivers at least once, up to MaxDeliver times.           *)
(***************************************************************************)
EXTENDS Naturals, Sequences, FiniteSets

CONSTANTS
  Orgs, Branches, Facts,
  Org,           \* Org[b]: the organisation a branch belongs to
  Propagatable,  \* facts with a repository and a type in propagatableTypes
  Handlers,      \* goroutines of API handlers and executors that publish
  Propagator,    \* the goroutine of the propagation consumer's callback
  Clients,       \* clients of GET /events/stream
  Watched,       \* Watched[c]: the branch a client streams
  NoOrg,
  MaxDeliver,    \* JetStream gives a message up after so many deliveries (5)
  ReplayLimit,   \* rows a replay reads (1000)
  MaxPosts,      \* bound: events published by handlers and agents
  MaxFaults      \* bound: restarts, errors of the database or NATS, messages
                 \* dropped, ids that leave JetStream's duplicate window, merges

ASSUME MeshAssumption ==
  /\ Org \in [Branches -> Orgs]
  /\ Watched \in [Clients -> Branches]
  /\ Propagatable \subseteq Facts
  /\ Propagator \notin Handlers /\ NoOrg \notin Orgs
  /\ ReplayLimit \in Nat \ {0} /\ MaxDeliver \in Nat /\ MaxPosts \in Nat /\ MaxFaults \in Nat

Workers == Handlers \cup {Propagator}

(***************************************************************************)
(* Idempotency keys: ComputeIdempotencyKey hashes the content; a copy has  *)
(* "<event id>:<branch>"; an agent sets none and JetStream takes the id.   *)
(***************************************************************************)
ContentKey(f) == [content |-> f]
CopyKey(id, b) == [copyOf |-> id, branch |-> b]
AgentKey(id) == [id |-> id]
Keys == [content : Facts] \cup [copyOf : Nat, branch : Branches] \cup [id : Nat]

Event == [id : Nat, fact : Facts, branch : Branches, key : Keys, seq : Nat,
          kind : {"api", "copy", "agent"}]

VARIABLES
  posts,     \* events published by handlers and agents so far
  serial,    \* the last context_events.sequence handed out
  store,     \* rows of context_events
  deleted,   \* history: rows deleted when their branch was merged
  stream,    \* messages on GRADIENT_CTX, in order
  window,    \* message ids within JetStream's duplicate window (5 min)
  pub,       \* MeshPublisher.Publish of each worker: [pc, event]
  filter,    \* organisation the durable consumer is filtered for
  from,      \* messages on the stream when it was created (DeliverNew)
  tries,     \* its deliveries of each event; Len(tries) ids are in use
  acked,     \* ids of the messages acknowledged
  listening, \* organisations StartListening has been called for
  handler,   \* the consumer's callback: [pc, event, todo]
  sse,       \* each client and its stream: [pc, seen, cursor, pos]
  faults,    \* restarts, errors and the like so far
  owed,      \* history: branches its last callback found for each event
  missed,    \* history: keys published while a client was between its replay
             \* and its subscription, dropped because it is slow, past the limit
             \* of its replay, or unread when the query failed
  lost,      \* history: <<branch, key>> whose broadcast failed or was taken
             \* for a duplicate of another branch's message
  unstored,  \* history: <<branch, key>> whose insert returned an error
  overtaken, \* history: <<branch, key>> stored or broadcast after an event of
             \* the branch with a higher sequence number
  forgotten  \* history: an id has left the duplicate window

table == <<store, deleted>>
jetstream == <<stream, window, missed>>
history == <<lost, unstored, overtaken>>
bounds == <<faults, forgotten>>
consumer == <<filter, from, tries, acked>>
propagation == <<listening, handler, owed>>
vars == <<posts, serial, table, jetstream, pub, consumer, propagation,
          sse, bounds, history>>

TypeOK ==
  /\ posts \in 0..MaxPosts /\ serial \in Nat
  /\ store \cup deleted \subseteq Event /\ stream \in Seq(Event) /\ window \subseteq Keys
  /\ \A w \in Workers : /\ pub[w].pc \in {"idle", "insert", "commit", "send"}
                        /\ pub[w].pc # "idle" => pub[w].event \in Event
  /\ filter \in Orgs \cup {NoOrg} /\ from \in 0..Len(stream)
  /\ tries \in Seq(0..MaxDeliver) /\ acked \subseteq DOMAIN tries
  /\ owed \in Seq(SUBSET Branches) /\ Len(owed) = Len(tries)
  /\ listening \subseteq Orgs
  /\ handler.pc \in {"idle", "got", "copying"} /\ handler.todo \subseteq Branches
  /\ \A c \in Clients : /\ sse[c].pc \in {"off", "replayed", "live", "deaf"}
                        /\ sse[c].seen \subseteq Keys
                        /\ sse[c].cursor \in 0..serial /\ sse[c].pos \in 0..Len(stream)
  /\ faults \in 0..MaxFaults /\ forgotten \in BOOLEAN
  /\ lost \cup unstored \cup overtaken \subseteq Branches \X Keys

NoEvent == <<>>
Idle == [pc |-> "idle", event |-> NoEvent]
Waiting == [pc |-> "idle", event |-> NoEvent, todo |-> {}]
Off == [pc |-> "off", seen |-> {}, cursor |-> 0, pos |-> 0]

Init ==
  /\ posts = 0 /\ serial = 0
  /\ store = {} /\ deleted = {} /\ stream = <<>> /\ window = {}
  /\ pub = [w \in Workers |-> Idle]
  /\ filter = NoOrg /\ from = 0 /\ tries = <<>> /\ acked = {}
  /\ listening = {} /\ handler = Waiting
  /\ sse = [c \in Clients |-> Off]
  /\ faults = 0 /\ forgotten = FALSE
  /\ owed = <<>> /\ missed = [c \in Clients |-> {}]
  /\ lost = {} /\ unstored = {} /\ overtaken = {}

-----------------------------------------------------------------------------
(* Publishing. *)

\* NewEvent and handlePublishEvent give every event a fresh id
NewId == Len(tries) + 1
NewEvent(f, b, key, kind) ==
  [id |-> NewId, fact |-> f, branch |-> b, key |-> key, seq |-> 0, kind |-> kind]
UseId ==
  /\ tries' = Append(tries, 0)
  /\ owed' = Append(owed, {})

Fault ==
  /\ faults < MaxFaults /\ faults' = faults + 1
  /\ UNCHANGED forgotten

Named(e) == <<e.branch, e.key>>
OnStream(b, key) == \E i \in DOMAIN stream : stream[i].branch = b /\ stream[i].key = key
Stored(b, key) == \E r \in store : r.branch = b /\ r.key = key

\* the rows there are and those there were
Given == store \cup deleted

At(w, pc) == pub[w].pc = pc
Publish(w, e) == pub' = [pub EXCEPT ![w] = [pc |-> "insert", event |-> e]]
Numbered(e, seq) == [e EXCEPT !.seq = seq]
Sending(w, seq) == pub' = [pub EXCEPT ![w] = [pc |-> "send", event |-> Numbered(@.event, seq)]]
Return(w) == pub' = [pub EXCEPT ![w] = Idle]

\* POST /events, an event sent over the web socket, or one of the executor's
Post(h, f, b) ==
  /\ posts < MaxPosts /\ posts' = posts + 1
  /\ At(h, "idle")
  /\ Publish(h, NewEvent(f, b, ContentKey(f), "api")) /\ UseId
  /\ UNCHANGED <<serial, table, jetstream, filter, from, acked, listening, handler,
                 sse, bounds, history>>

\* the insert takes its sequence number before its row can be seen
TakeSequence(w) ==
  /\ At(w, "insert")
  /\ serial' = serial + 1
  /\ pub' = [pub EXCEPT ![w] = [pc |-> "commit", event |-> Numbered(@.event, serial + 1)]]
  /\ UNCHANGED <<posts, table, jetstream, consumer, propagation, sse, bounds, history>>

\* the insert: ON CONFLICT (org_id, branch, idempotency_key) DO NOTHING
Insert(e) ==
  /\ store' = IF Stored(e.branch, e.key) THEN store ELSE store \cup {e}
  /\ overtaken' =
       IF ~Stored(e.branch, e.key) /\ \E r \in Given : r.branch = e.branch /\ r.seq > e.seq
       THEN overtaken \cup {Named(e)} ELSE overtaken

\* mutant of SequenceOf: the number drawn, whether or not there is a row for it
SequenceDrawn(e) == e.seq

\* a duplicate, for which no row comes back, has sequence number 0
SequenceOf(e) == IF Stored(e.branch, e.key) THEN 0 ELSE e.seq

Store(w) ==
  /\ At(w, "commit")
  /\ Insert(pub[w].event)
  /\ Sending(w, SequenceOf(pub[w].event))
  /\ UNCHANGED <<posts, serial, deleted, jetstream, consumer, propagation, sse, bounds, lost,
                 unstored>>

\* mutant of StoreFails: the error goes back to the caller, nothing is broadcast
StoreFailsAndReturns(w) ==
  /\ Fault /\ At(w, "commit")
  /\ Insert(pub[w].event) \/ UNCHANGED <<store, overtaken>>
  /\ Return(w)
  /\ UNCHANGED <<posts, serial, deleted, jetstream, consumer, propagation, sse, lost,
                 unstored>>

\* the error is logged and the event broadcast without a sequence number; the
\* row may be there all the same
StoreFails(w) ==
  /\ Fault /\ At(w, "commit")
  /\ Insert(pub[w].event) \/ UNCHANGED <<store, overtaken>>
  /\ Sending(w, 0)
  /\ unstored' = unstored \cup {Named(pub[w].event)}
  /\ UNCHANGED <<posts, serial, deleted, jetstream, consumer, propagation, sse, lost>>

\* mutant of MessageId: the id of the event, new for each copy
MessageIdIsEventId(e) == AgentKey(e.id)

\* the message id of an event is its idempotency key, for all branches and
\* organisations alike
MessageId(e) == e.key

\* JetStream appends the message unless its id is within the window
Broadcast(e) ==
  LET dropped == MessageId(e) \in window IN
  /\ stream' = IF dropped THEN stream ELSE Append(stream, e)
  /\ window' = window \cup {MessageId(e)}
  /\ missed' = [c \in Clients |->
       IF sse[c].pc = "replayed" /\ Watched[c] = e.branch /\ e.key \notin sse[c].seen
       THEN missed[c] \cup {e.key} ELSE missed[c]]
  /\ lost' = IF dropped /\ ~OnStream(e.branch, e.key) THEN lost \cup {Named(e)} ELSE lost
  /\ overtaken' = overtaken \cup
       {Named(r) : r \in {r \in store : /\ r.branch = e.branch /\ r.seq < e.seq
                                       /\ ~OnStream(r.branch, r.key)}}

Send(w) ==
  /\ At(w, "send")
  /\ Broadcast(pub[w].event)
  /\ Return(w)
  /\ UNCHANGED <<posts, serial, table, consumer, propagation, sse, bounds, unstored>>

\* NATS is away, the rate limit is exceeded, or the context is done: the error
\* goes to the caller, and only the HTTP handlers tell their client
SendFails(w) ==
  /\ Fault /\ At(w, "send")
  /\ lost' = lost \cup {Named(pub[w].event)}
  /\ Return(w)
  /\ UNCHANGED <<posts, serial, table, jetstream, consumer, propagation, sse, unstored,
                 overtaken>>

\* the acknowledgment does not come in time, the message is on the stream
SendTimesOut(w) ==
  /\ Fault /\ At(w, "send")
  /\ Broadcast(pub[w].event)
  /\ Return(w)
  /\ UNCHANGED <<posts, serial, table, consumer, propagation, sse, unstored>>

\* an agent's watcher or outbox: straight to the stream, no key, no repository
AgentPublish(f, b) ==
  /\ posts < MaxPosts /\ posts' = posts + 1
  /\ Broadcast(NewEvent(f, b, AgentKey(NewId), "agent")) /\ UseId
  /\ UNCHANGED <<serial, table, pub, filter, from, acked, listening, handler, sse,
                 bounds, unstored>>

\* a pull request is merged: the rows of the branch that are of its repository,
\* whose events are about facts; the rest of the clean-up is of other modules
DeleteRows(b, facts) ==
  /\ Fault
  /\ LET rows == {r \in store : r.branch = b /\ r.fact \in facts} IN
       store' = store \ rows /\ deleted' = deleted \cup rows
  /\ UNCHANGED <<posts, serial, jetstream, pub, consumer, propagation, sse, history>>

\* external: JetStream forgets an id after five minutes
WindowCloses(key) ==
  /\ key \in window
  /\ faults < MaxFaults /\ faults' = faults + 1
  /\ window' = window \ {key} /\ forgotten' = TRUE
  /\ UNCHANGED <<posts, serial, table, stream, missed, pub, consumer, propagation,
                 sse, history>>

-----------------------------------------------------------------------------
(* Propagation: the wildcard consumer and its callback. *)

\* SubscribeAll names the durable consumer without the organisation, so that
\* a second call changes the filter of the first one's
StartListening(o) ==
  /\ o \notin listening
  /\ listening' = listening \cup {o}
  /\ filter' = o
  /\ from' = IF filter = NoOrg THEN Len(stream) ELSE from
  /\ UNCHANGED <<posts, serial, table, jetstream, pub, tries, acked, handler, owed,
                 sse, bounds, history>>

\* mutant of Due: no limit on the number of deliveries
DueWithoutLimit == {i \in (from + 1)..Len(stream) :
                      Org[stream[i].branch] = filter /\ stream[i].id \notin acked}

\* the messages the consumer still has to deliver: their places on the stream
Due == {i \in (from + 1)..Len(stream) :
          /\ Org[stream[i].branch] = filter
          /\ stream[i].id \notin acked
          /\ tries[stream[i].id] < MaxDeliver}

\* mutant of Deliver: a message the callback returned an error for is not sent again
DeliverOnce(i) ==
  /\ listening # {} /\ handler.pc = "idle"
  /\ i \in Due /\ tries[stream[i].id] = 0
  /\ tries' = [tries EXCEPT ![stream[i].id] = @ + 1]
  /\ handler' = [pc |-> "got", event |-> stream[i], todo |-> {}]
  /\ UNCHANGED <<posts, serial, table, jetstream, pub, filter, from, acked,
                 listening, owed, sse, bounds, history>>

\* in the order of the stream at first, again at any time after that
Deliver(i) ==
  /\ listening # {} /\ handler.pc = "idle"
  /\ i \in Due
  /\ tries[stream[i].id] = 0 => \A j \in Due : j < i => tries[stream[j].id] > 0
  /\ tries' = [tries EXCEPT ![stream[i].id] = @ + 1]
  /\ handler' = [pc |-> "got", event |-> stream[i], todo |-> {}]
  /\ UNCHANGED <<posts, serial, table, jetstream, pub, filter, from, acked,
                 listening, owed, sse, bounds, history>>

\* mutant of ToBeCopied: copies are copied on
ToBeCopiedOn(e) == e.kind \in {"api", "copy"} /\ e.fact \in Propagatable

ToBeCopied(e) == e.kind = "api" /\ e.fact \in Propagatable

Acknowledge ==
  /\ acked' = acked \cup {handler.event.id}
  /\ handler' = Waiting

Ignore ==
  /\ handler.pc = "got" /\ ~ToBeCopied(handler.event)
  /\ Acknowledge
  /\ UNCHANGED <<posts, serial, table, jetstream, pub, filter, from, tries,
                 listening, owed, sse, bounds, history>>

\* findRepoBranches: whichever branches of the repository have an environment
\* that is running or sleeping
FindBranches ==
  /\ handler.pc = "got" /\ ToBeCopied(handler.event)
  /\ LET e == handler.event IN
     \E branches \in SUBSET {b \in Branches \ {e.branch} : Org[b] = Org[e.branch]} :
       /\ handler' = [handler EXCEPT !.pc = "copying", !.todo = branches]
       /\ owed' = [owed EXCEPT ![e.id] = branches]
  /\ UNCHANGED <<posts, serial, table, jetstream, pub, consumer, listening, sse,
                 bounds, history>>

\* the error makes the consumer ask for the message again
FindBranchesFails ==
  /\ Fault
  /\ handler.pc = "got" /\ ToBeCopied(handler.event)
  /\ handler' = Waiting
  /\ UNCHANGED <<posts, serial, table, jetstream, pub, consumer, listening, owed,
                 sse, history>>

Copy(b) ==
  /\ handler.pc = "copying" /\ b \in handler.todo
  /\ At(Propagator, "idle")
  /\ LET e == handler.event IN
       Publish(Propagator, NewEvent(e.fact, b, CopyKey(e.id, b), "copy"))
  /\ UseId
  /\ handler' = [handler EXCEPT !.todo = @ \ {b}]
  /\ UNCHANGED <<posts, serial, table, jetstream, filter, from, acked, listening, sse,
                 bounds, history>>

\* mutant of Copied: the message is acknowledged before the last copy
CopiedButOne ==
  handler.pc = "copying" /\ Cardinality(handler.todo) <= 1 /\ At(Propagator, "idle")

\* a copy that could not be published is only logged
Copied == handler.pc = "copying" /\ handler.todo = {} /\ At(Propagator, "idle")

Copies ==
  /\ Copied
  /\ Acknowledge
  /\ UNCHANGED <<posts, serial, table, jetstream, pub, filter, from, tries,
                 listening, owed, sse, bounds, history>>

\* later than AckWait: the message is on its way again
CopiesLate ==
  /\ Copied
  /\ handler' = Waiting
  /\ UNCHANGED <<posts, serial, table, jetstream, pub, consumer, listening, owed,
                 sse, bounds, history>>

-----------------------------------------------------------------------------
(* Streams of events to clients: a replay of the table, then what is live. *)

\* mutant of Unread: the row after the cursor is taken for the cursor's own
UnreadPastNext(c) == {r \in store : r.branch = Watched[c] /\ r.seq > sse[c].cursor + 1}

\* what since_seq asks for: the rows of the branch past the client's cursor
Unread(c) == {r \in store : r.branch = Watched[c] /\ r.seq > sse[c].cursor}

KeysOf(rows) == {r.key : r \in rows}

\* the first of them by number, and whether there are more is not looked at
Page(c) ==
  {r \in Unread(c) : Cardinality({s \in Unread(c) : s.seq < r.seq}) < ReplayLimit}

\* the cursor moves to the last row shown
Replay(c) ==
  /\ sse[c].pc = "off"
  /\ \E n \in {sse[c].cursor} \cup {r.seq : r \in Page(c)} :
       /\ \A r \in Page(c) : n >= r.seq
       /\ sse' = [sse EXCEPT ![c].pc = "replayed",
                             ![c].seen = @ \cup KeysOf(Page(c)),
                             ![c].cursor = n]
  /\ missed' = [missed EXCEPT ![c] = (@ \ KeysOf(Page(c))) \cup KeysOf(Unread(c) \ Page(c))]
  /\ UNCHANGED <<posts, serial, table, stream, window, pub, consumer, propagation,
                 bounds, history>>

\* the error of the query is not told, the stream goes on without a replay
ReplayFails(c) ==
  /\ Fault
  /\ sse[c].pc = "off"
  /\ sse' = [sse EXCEPT ![c].pc = "replayed"]
  /\ missed' = [missed EXCEPT ![c] = @ \cup KeysOf(Unread(c))]
  /\ UNCHANGED <<posts, serial, table, stream, window, pub, consumer, propagation, history>>

Subscribe(c) ==
  /\ sse[c].pc = "replayed"
  /\ sse' = [sse EXCEPT ![c].pc = "live", ![c].pos = Len(stream)]
  /\ UNCHANGED <<posts, serial, table, jetstream, pub, consumer, propagation,
                 bounds, history>>

\* the error is logged and the stream stays open, with keepalives alone
SubscribeFails(c) ==
  /\ Fault
  /\ sse[c].pc = "replayed"
  /\ sse' = [sse EXCEPT ![c].pc = "deaf"]
  /\ UNCHANGED <<posts, serial, table, jetstream, pub, consumer, propagation, history>>

Forward(c) ==
  /\ sse[c].pc = "live" /\ sse[c].pos < Len(stream)
  /\ LET e == stream[sse[c].pos + 1]
         shown == e.branch = Watched[c] IN
       sse' = [sse EXCEPT ![c].pos = @ + 1,
                          ![c].seen = IF shown THEN @ \cup {e.key} ELSE @,
                          ![c].cursor = IF shown /\ e.seq > @ THEN e.seq ELSE @]
  /\ UNCHANGED <<posts, serial, table, jetstream, pub, consumer, propagation,
                 bounds, history>>

\* the client's channel is full
Drop(c) ==
  /\ Fault
  /\ sse[c].pc = "live" /\ sse[c].pos < Len(stream)
  /\ stream[sse[c].pos + 1].branch = Watched[c]
  /\ sse' = [sse EXCEPT ![c].pos = @ + 1]
  /\ missed' = [missed EXCEPT ![c] = @ \cup {stream[sse[c].pos + 1].key}]
  /\ UNCHANGED <<posts, serial, table, stream, window, pub, consumer,
                 propagation, history>>

\* the client goes away and keeps what it has seen and its cursor
Disconnect(c) ==
  /\ sse[c].pc # "off"
  /\ sse' = [sse EXCEPT ![c].pc = "off", ![c].pos = 0]
  /\ UNCHANGED <<posts, serial, table, jetstream, pub, consumer, propagation, bounds,
                 history>>

-----------------------------------------------------------------------------
(* Surroundings. *)

\* a restart of the API server: the table and the stream stay
Crash ==
  /\ Fault
  /\ lost' = lost \cup {Named(pub[w].event) : w \in {w \in Workers : At(w, "send")}}
  /\ pub' = [w \in Workers |-> Idle]
  /\ listening' = {} /\ handler' = Waiting
  /\ sse' = [c \in Clients |-> [sse[c] EXCEPT !.pc = "off", !.pos = 0]]
  /\ UNCHANGED <<posts, serial, table, jetstream, consumer, owed, unstored, overtaken>>

PublishStep(w) == TakeSequence(w) \/ Store(w) \/ StoreFails(w) \/ Send(w)
                  \/ SendFails(w) \/ SendTimesOut(w)
HandlerStep == \/ Ignore \/ FindBranches \/ FindBranchesFails
               \/ \E b \in Branches : Copy(b)
               \/ Copies \/ CopiesLate

Next ==
  \/ \E f \in Facts, b \in Branches :
       AgentPublish(f, b) \/ \E h \in Handlers : Post(h, f, b)
  \/ \E w \in Workers : PublishStep(w)
  \/ \E b \in Branches, facts \in SUBSET Facts : DeleteRows(b, facts)
  \/ \E key \in window : WindowCloses(key)
  \/ \E o \in Orgs : StartListening(o)
  \/ \E i \in DOMAIN stream : Deliver(i)
  \/ HandlerStep
  \/ \E c \in Clients : \/ Replay(c) \/ ReplayFails(c) \/ Subscribe(c) \/ SubscribeFails(c)
                        \/ Forward(c) \/ Drop(c) \/ Disconnect(c)
  \/ Crash

Spec == Init /\ [][Next]_vars

FairSpec ==
  /\ Spec
  /\ \A w \in Workers : WF_vars(PublishStep(w))
  /\ \A o \in Orgs : WF_vars(StartListening(o))
  /\ WF_vars(\E i \in DOMAIN stream : Deliver(i))
  /\ WF_vars(HandlerStep)

-----------------------------------------------------------------------------
(* Properties. *)

\* A copy, stored or broadcast, is of an event that was published for another
\* branch, never of a copy: propagation comes to an end although its own
\* messages come back to it (propagateAcrossBranches, Source "propagation").
CopiesAreOfOriginals ==
  \A e \in store \cup {stream[i] : i \in DOMAIN stream} : e.kind = "copy" =>
    \E i \in DOMAIN stream :
      /\ stream[i].kind = "api" /\ stream[i].branch # e.branch
      /\ e.key = CopyKey(stream[i].id, e.branch)

\* What is stored is on the stream, or about to be, except after a named
\* failure: a broadcast that failed or a restart between the two, in
\* MeshPublisher.Publish, which nothing makes up for.
StoredIsBroadcast ==
  \A r \in store :
    \/ OnStream(r.branch, r.key)
    \/ \E w \in Workers : At(w, "send") /\ Named(pub[w].event) = Named(r)
    \/ Named(r) \in lost

\* A message that carries a sequence number carries that of its own row, which
\* is there or was there until its branch was merged: a duplicate, or an event
\* that was not stored, is broadcast without one.
SequenceIsTheRows ==
  \A i \in DOMAIN stream : stream[i].seq > 0 => stream[i] \in Given

\* While JetStream remembers their ids, nothing makes two copies of one event
\* on one branch: not a request sent again, under another id, nor a message
\* delivered again, nor a restart (content keys, copy keys, message ids).
CopiedOnce ==
  ~forgotten => \A i, j \in DOMAIN stream :
    /\ stream[i].kind = "copy" /\ stream[j].kind = "copy"
    /\ stream[i].fact = stream[j].fact /\ stream[i].branch = stream[j].branch
    => i = j

\* An acknowledged message has its copy on every branch that propagation found
\* for it, except where publishing the copy failed, which is only logged
\* (propagateAcrossBranches returns nil all the same).
AckedIsCopied ==
  \A id \in acked : \A b \in owed[id] :
    OnStream(b, CopyKey(id, b)) \/ <<b, CopyKey(id, b)>> \in lost

\* A client that comes back with the sequence number of its last event has
\* seen, or is about to, every stored event of its branch, except those that
\* were published between its replay and its subscription or dropped, that a
\* replay left out or failed to read, that were stored or broadcast after an
\* event with a higher number, whose insert or broadcast failed, and that were
\* stored again after a merge had deleted them, which JetStream may take for
\* duplicates (handleStreamEvents, cursor pagination of Query).
StreamIsComplete ==
  \A c \in Clients : sse[c].pc = "live" =>
    \A r \in store : r.branch = Watched[c] =>
      \/ r.key \in sse[c].seen \cup missed[c]
      \/ \E i \in (sse[c].pos + 1)..Len(stream) : Named(stream[i]) = Named(r)
      \/ \E w \in Workers : At(w, "send") /\ Named(pub[w].event) = Named(r)
      \/ Named(r) \in lost \cup unstored \cup overtaken \cup {Named(d) : d \in deleted}

\* Every message published for the consumer's organisation is acknowledged or
\* given up after MaxDeliver deliveries: no failure of the callback, no restart
\* leaves it for ever (AckExplicit, durable consumer of SubscribeAll).
MessagesSettle ==
  \A id \in 1..MaxPosts :
    (\E i \in Due : stream[i].id = id) ~>
      (id \in acked \/ (id \in DOMAIN tries /\ tries[id] = MaxDeliver))

\* The comment of NewServer and its log line say that propagation is active
\* for all known organisations (internal/api/server.go:246).
AllOrgsServed == \A o \in listening : filter = o
=============================================================================
