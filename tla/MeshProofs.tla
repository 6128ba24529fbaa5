----------------------------- MODULE MeshProofs -----------------------------
(***************************************************************************)
(* Proofs about Mesh, for every instance.                                  *)
(***************************************************************************)
EXTENDS Mesh, SequenceTheorems, TLAPS

PubType ==
  /\ pub \in [Workers -> [pc : {"idle", "insert", "commit", "send"},
                          event : Event \cup {NoEvent}]]
  /\ \A w \in Workers : pub[w].pc # "idle" => pub[w].event \in Event

LogType ==
  /\ serial \in Nat
  /\ store \subseteq Event /\ deleted \subseteq Event
  /\ stream \in Seq(Event) /\ window \subseteq Keys
  /\ lost \subseteq Branches \X Keys
  /\ unstored \subseteq Branches \X Keys
  /\ overtaken \subseteq Branches \X Keys
  /\ from \in 0..Len(stream)

ConsumerType ==
  /\ tries \in Seq(0..MaxDeliver) /\ acked \subseteq DOMAIN tries
  /\ owed \in Seq(SUBSET Branches) /\ Len(owed) = Len(tries)
  /\ handler \in [pc : {"idle", "got", "copying"}, event : Event \cup {NoEvent},
                  todo : SUBSET Branches]
  /\ handler.pc # "idle" => handler.event \in Event /\ handler.event.id \in DOMAIN tries
  /\ \A i \in DOMAIN stream : stream[i].id \in DOMAIN tries
  /\ \A w \in Workers : ~At(w, "idle") => pub[w].event.id \in DOMAIN tries

Sse == [pc : {"off", "replayed", "live", "deaf"}, seen : SUBSET Keys, cursor : Nat,
        pos : Nat]

ClientType ==
  /\ sse \in [Clients -> Sse]
  /\ missed \in [Clients -> SUBSET Keys]
  /\ \A c \in Clients : sse[c].cursor <= serial /\ sse[c].pos <= Len(stream)
  /\ \A r \in Given : r.seq <= serial
  /\ \A i \in DOMAIN stream : stream[i].seq <= serial
  /\ \A w \in Workers : ~At(w, "idle") => pub[w].event.seq <= serial

CountType ==
  /\ posts \in 0..MaxPosts /\ faults \in 0..MaxFaults /\ forgotten \in BOOLEAN
  /\ filter \in Orgs \cup {NoOrg} /\ listening \subseteq Orgs

TypeInv == PubType /\ LogType /\ ConsumerType /\ ClientType /\ CountType

-----------------------------------------------------------------------------
\* The three kinds of idempotency key are keys.
LEMMA KeyTypes ==
  /\ \A f \in Facts : ContentKey(f) \in Keys
  /\ \A id \in Nat, b \in Branches : CopyKey(id, b) \in Keys
  /\ \A id \in Nat : AgentKey(id) \in Keys
BY DEF ContentKey, CopyKey, AgentKey, Keys

\* A key tells its kind and what it was made from.
LEMMA KeysDiffer ==
  /\ \A f, id, b : ContentKey(f) # CopyKey(id, b)
  /\ \A f, id : ContentKey(f) # AgentKey(id)
  /\ \A i, b, id : CopyKey(i, b) # AgentKey(id)
  /\ \A f, g : ContentKey(f) = ContentKey(g) => f = g
  /\ \A i, b, j, d : CopyKey(i, b) = CopyKey(j, d) => i = j /\ b = d
BY DEF ContentKey, CopyKey, AgentKey

\* What an event consists of.
LEMMA Fields ==
  \A e \in Event :
    e.id \in Nat /\ e.fact \in Facts /\ e.branch \in Branches /\ e.key \in Keys
      /\ e.seq \in Nat /\ e.kind \in {"api", "copy", "agent"}
BY DEF Event

\* Numbering an event changes nothing but its number.
LEMMA NumberedFields ==
  \A e \in Event, n \in Nat :
    /\ Numbered(e, n) \in Event /\ Numbered(e, n).seq = n
    /\ Numbered(e, n).id = e.id /\ Numbered(e, n).fact = e.fact
    /\ Numbered(e, n).branch = e.branch /\ Numbered(e, n).key = e.key
    /\ Numbered(e, n).kind = e.kind
    /\ Named(Numbered(e, n)) = Named(e)
    /\ (e.seq = n => Numbered(e, n) = e)
BY DEF Event, Numbered, Named

\* What a new event consists of; its id has not been used.
LEMMA NewEventFields ==
  ASSUME ConsumerType, NEW f \in Facts, NEW b \in Branches, NEW key \in Keys,
         NEW kind \in {"api", "copy", "agent"}
  PROVE  LET e == NewEvent(f, b, key, kind) IN
         /\ e \in Event /\ e.id = Len(tries) + 1 /\ e.fact = f /\ e.branch = b
         /\ e.key = key /\ e.seq = 0 /\ e.kind = kind
BY DEF ConsumerType, NewEvent, NewId, Event

-----------------------------------------------------------------------------
(* Types. *)

\* The variables start with their types.
LEMMA InitType == Init => TypeInv
<1> SUFFICES ASSUME Init PROVE TypeInv
  OBVIOUS
<1> USE MeshAssumption DEF Init
<1>1. PubType
  BY DEF PubType, Idle
<1>2. LogType
  BY DEF LogType
<1>3. ConsumerType
  BY DEF ConsumerType, Waiting, Idle, At
<1>4. ClientType
  BY DEF ClientType, Sse, Off, Idle, At, Given
<1>5. CountType
  <2>1. forgotten \in BOOLEAN
    OBVIOUS
  <2>2. 0 \in 0..MaxPosts /\ 0 \in 0..MaxFaults
    OBVIOUS
  <2> QED BY <2>1, <2>2, Zenon DEF CountType
<1> QED BY <1>1, <1>2, <1>3, <1>4, <1>5 DEF TypeInv

\* The actions, grouped as the proofs need them.
LEMMA Kinds ==
  ASSUME Next
  PROVE  \/ \E f \in Facts, b \in Branches : AgentPublish(f, b)
         \/ \E f \in Facts, b \in Branches, h \in Handlers : Post(h, f, b)
         \/ \E w \in Workers : TakeSequence(w)
         \/ \E w \in Workers : Store(w)
         \/ \E w \in Workers : StoreFails(w)
         \/ \E w \in Workers : Send(w) \/ SendTimesOut(w)
         \/ \E w \in Workers : SendFails(w)
         \/ \E key \in window : WindowCloses(key)
         \/ \E b \in Branches, facts \in SUBSET Facts : DeleteRows(b, facts)
         \/ \E o \in Orgs : StartListening(o)
         \/ \E i \in DOMAIN stream : Deliver(i)
         \/ Ignore \/ Copies
         \/ FindBranches
         \/ FindBranchesFails \/ CopiesLate
         \/ \E b \in Branches : Copy(b)
         \/ \E c \in Clients : Replay(c)
         \/ \E c \in Clients : ReplayFails(c)
         \/ \E c \in Clients : Subscribe(c)
         \/ \E c \in Clients : SubscribeFails(c)
         \/ \E c \in Clients : Forward(c)
         \/ \E c \in Clients : Drop(c)
         \/ \E c \in Clients : Disconnect(c)
         \/ Crash
BY DEF Next, PublishStep, HandlerStep

\* The counters, the consumer's filter and the set of listeners keep their types.
LEMMA CountStep == TypeInv /\ [Next]_vars => CountType'
<1> SUFFICES ASSUME TypeInv, [Next]_vars PROVE CountType'
  OBVIOUS
<1> USE MeshAssumption DEF TypeInv, CountType
<1>1. CASE UNCHANGED vars
  BY <1>1 DEF vars, bounds, consumer, propagation
<1>2. CASE Next
  <2>1. posts' \in 0..MaxPosts
    <3>1. CASE \E f \in Facts, b \in Branches :
                 AgentPublish(f, b) \/ \E h \in Handlers : Post(h, f, b)
      BY <3>1 DEF AgentPublish, Post
    <3>2. CASE posts' = posts
      BY <3>2
    <3> QED
      BY <3>1, <3>2, <1>2, Kinds, Zenon DEF TakeSequence, Store, StoreFails, Send,
         SendTimesOut, SendFails, WindowCloses, StartListening, Deliver, Ignore, Copies,
         FindBranches, FindBranchesFails, CopiesLate, Copy, Replay, Subscribe,
         SubscribeFails, Forward, Drop, Disconnect, DeleteRows, ReplayFails, Crash
  <2>2. faults' \in 0..MaxFaults /\ forgotten' \in BOOLEAN
    <3>1. CASE Fault
      BY <3>1 DEF Fault
    <3>2. CASE \E key \in window : WindowCloses(key)
      BY <3>2 DEF WindowCloses
    <3>3. CASE UNCHANGED bounds
      BY <3>3 DEF bounds
    <3> QED
      BY <3>1, <3>2, <3>3, <1>2, Kinds, Zenon DEF AgentPublish, Post, TakeSequence, Store,
         StoreFails, Send, SendTimesOut, SendFails, StartListening, Deliver, Ignore, Copies,
         FindBranches, FindBranchesFails, CopiesLate, Copy, Replay, Subscribe,
         SubscribeFails, Forward, Drop, Disconnect, DeleteRows, ReplayFails, Crash
  <2>3. filter' \in Orgs \cup {NoOrg} /\ listening' \subseteq Orgs
    BY <1>2, Kinds DEF AgentPublish, Post, TakeSequence, Store, StoreFails, Send,
       SendTimesOut, SendFails, WindowCloses, StartListening, Deliver, Ignore, Copies,
       FindBranches, FindBranchesFails, CopiesLate, Copy, Replay, Subscribe,
       SubscribeFails, Forward, Drop, Disconnect,
       DeleteRows, ReplayFails, Crash, consumer, propagation
  <2> QED BY <2>1, <2>2, <2>3
<1> QED BY <1>1, <1>2

\* Workers keep their types: one that is not idle has an event.
LEMMA PubStep == TypeInv /\ [Next]_vars => PubType'
<1> SUFFICES ASSUME TypeInv, [Next]_vars PROVE PubType'
  OBVIOUS
<1> USE DEF TypeInv, PubType
<1>1. CASE UNCHANGED pub
  BY <1>1
<1>2. ASSUME NEW w \in Workers, NEW e \in Event, Publish(w, e) PROVE PubType'
  BY <1>2 DEF Publish
<1>3. ASSUME NEW w \in Workers, ~At(w, "idle"), NEW n \in Nat, Sending(w, n) PROVE PubType'
  BY <1>3, NumberedFields DEF Sending, At
<1>4. ASSUME NEW w \in Workers, Return(w) PROVE PubType'
  BY <1>4 DEF Return, Idle
<1>5. ASSUME NEW f \in Facts, NEW b \in Branches, NEW h \in Handlers, Post(h, f, b)
      PROVE  PubType'
  <2>1. NewEvent(f, b, ContentKey(f), "api") \in Event
    BY NewEventFields, KeyTypes
  <2> QED BY <1>2, <1>5, <2>1 DEF Post, Workers
<1>6. ASSUME NEW w \in Workers, TakeSequence(w) PROVE PubType'
  BY <1>6, NumberedFields DEF TakeSequence, At, LogType
<1>7. ASSUME NEW w \in Workers, Store(w) \/ StoreFails(w) PROVE PubType'
  <2>1. At(w, "commit") /\ pub[w].event \in Event
    BY <1>7 DEF Store, StoreFails, At
  <2>2. SequenceOf(pub[w].event) \in Nat
    BY <2>1, Fields DEF SequenceOf
  <2> QED BY <1>3, <1>7, <2>1, <2>2 DEF Store, StoreFails, At
<1>8. ASSUME NEW w \in Workers, Send(w) \/ SendTimesOut(w) \/ SendFails(w) PROVE PubType'
  BY <1>4, <1>8 DEF Send, SendTimesOut, SendFails
<1>9. ASSUME NEW b \in Branches, Copy(b) PROVE PubType'
  <2>1. handler.event \in Event
    BY <1>9 DEF Copy, ConsumerType
  <2>2. NewEvent(handler.event.fact, b, CopyKey(handler.event.id, b), "copy") \in Event
    BY <2>1, Fields, NewEventFields, KeyTypes
  <2> QED BY <1>2, <1>9, <2>2 DEF Copy, Workers
<1>10. CASE Crash
  BY <1>10 DEF Crash, Idle
<1> QED
  BY <1>1, <1>5, <1>6, <1>7, <1>8, <1>9, <1>10, Kinds
     DEF vars, AgentPublish, WindowCloses, StartListening, Deliver, Ignore, Copies,
         FindBranches, FindBranchesFails, CopiesLate, Replay, Subscribe, SubscribeFails,
         Forward, Drop, Disconnect, DeleteRows, ReplayFails

\* A broadcast appends its event to the stream or leaves it as it was.
LEMMA BroadcastType ==
  ASSUME LogType, NEW e \in Event, Broadcast(e)
  PROVE  /\ stream' \in Seq(Event) /\ window' \subseteq Keys
         /\ lost' \subseteq Branches \X Keys /\ overtaken' \subseteq Branches \X Keys
         /\ Len(stream') >= Len(stream)
         /\ DOMAIN stream \subseteq DOMAIN stream'
         /\ \A i \in DOMAIN stream : stream'[i] = stream[i]
         /\ \A i \in DOMAIN stream' \ DOMAIN stream : i = Len(stream) + 1 /\ stream'[i] = e
         /\ lost \subseteq lost' /\ overtaken \subseteq overtaken'
         /\ stream' = stream \/ stream' = Append(stream, e)
<1> USE DEF LogType
<1>1. stream' = stream \/ stream' = Append(stream, e)
  BY DEF Broadcast
<1>2. lost' = lost \/ lost' = lost \cup {Named(e)}
  BY DEF Broadcast
<1>3. Named(e) \in Branches \X Keys /\ e.key \in Keys
  BY Fields DEF Named
<1>4. window' \subseteq Keys
  BY <1>3 DEF Broadcast, MessageId
<1>5. overtaken' \subseteq Branches \X Keys /\ overtaken \subseteq overtaken'
  <2>1. \A r \in store : Named(r) \in Branches \X Keys
    BY Fields DEF Named
  <2> QED BY <2>1 DEF Broadcast
<1>6. lost' \subseteq Branches \X Keys /\ lost \subseteq lost'
  BY <1>2, <1>3
<1>7. stream' \in Seq(Event) /\ Len(stream') >= Len(stream)
  BY <1>1
<1>8. /\ DOMAIN stream \subseteq DOMAIN stream'
      /\ \A i \in DOMAIN stream : stream'[i] = stream[i]
      /\ \A i \in DOMAIN stream' \ DOMAIN stream : i = Len(stream) + 1 /\ stream'[i] = e
  BY <1>1
<1> QED BY <1>1, <1>4, <1>5, <1>6, <1>7, <1>8

\* An insert adds its event to the table or leaves it as it was.
LEMMA InsertType ==
  ASSUME LogType, NEW e \in Event, Insert(e) \/ UNCHANGED <<store, overtaken>>
  PROVE  /\ store' \subseteq Event /\ store \subseteq store'
         /\ store' = store \/ store' = store \cup {e}
         /\ overtaken' \subseteq Branches \X Keys /\ overtaken \subseteq overtaken'
<1>1. Named(e) \in Branches \X Keys
  BY Fields DEF Named
<1> QED BY <1>1 DEF LogType, Insert

\* The table, the stream and the history variables keep their types.
LEMMA LogStep == TypeInv /\ [Next]_vars => LogType'
<1> SUFFICES ASSUME TypeInv, [Next]_vars PROVE LogType'
  OBVIOUS
<1> USE DEF TypeInv, LogType
<1>0. \A w \in Workers : ~At(w, "idle") =>
         pub[w].event \in Event /\ Named(pub[w].event) \in Branches \X Keys
  BY Fields DEF PubType, At, Named
<1>1. CASE UNCHANGED <<serial, store, deleted, stream, window, lost, unstored, overtaken, from>>
  BY <1>1
<1>2. ASSUME NEW f \in Facts, NEW b \in Branches, AgentPublish(f, b) PROVE LogType'
  <2>1. NewEvent(f, b, AgentKey(NewId), "agent") \in Event
    BY NewEventFields, KeyTypes DEF NewId, ConsumerType
  <2> QED BY <1>2, <2>1, BroadcastType DEF AgentPublish, table
<1>3. ASSUME NEW w \in Workers, TakeSequence(w) PROVE LogType'
  BY <1>3 DEF TakeSequence, table, jetstream, history, consumer
<1>4. ASSUME NEW w \in Workers, Store(w) PROVE LogType'
  BY <1>4, <1>0, InsertType DEF Store, jetstream, history, consumer, At
<1>5. ASSUME NEW w \in Workers, StoreFails(w) PROVE LogType'
  BY <1>5, <1>0, InsertType DEF StoreFails, jetstream, history, consumer, At
<1>6. ASSUME NEW w \in Workers, Send(w) \/ SendTimesOut(w) PROVE LogType'
  BY <1>6, <1>0, BroadcastType DEF Send, SendTimesOut, table, history, consumer, At
<1>7. ASSUME NEW w \in Workers, SendFails(w) PROVE LogType'
  BY <1>7, <1>0 DEF SendFails, table, jetstream, history, consumer, At
<1>8. ASSUME NEW key \in window, WindowCloses(key) PROVE LogType'
  BY <1>8 DEF WindowCloses, table, history, consumer
<1>9. ASSUME NEW o \in Orgs, StartListening(o) PROVE LogType'
  BY <1>9 DEF StartListening, table, jetstream, history
<1>10. CASE Crash
  BY <1>10, <1>0 DEF Crash, table, jetstream, consumer, At
<1>11. CASE \/ \E f \in Facts, b \in Branches, h \in Handlers : Post(h, f, b)
            \/ \E i \in DOMAIN stream : Deliver(i)
            \/ Ignore \/ Copies \/ FindBranches \/ FindBranchesFails \/ CopiesLate
            \/ \E b \in Branches : Copy(b)
            \/ \E c \in Clients :
                 \/ Replay(c) \/ ReplayFails(c) \/ Subscribe(c) \/ SubscribeFails(c)
                 \/ Forward(c) \/ Drop(c) \/ Disconnect(c)
  <2>1. UNCHANGED <<serial, store, deleted, stream, window, lost, unstored, overtaken, from>>
    BY <1>11, Zenon DEF Post, Deliver, Ignore, Copies, FindBranches, FindBranchesFails, CopiesLate,
       Copy, Replay, ReplayFails, Subscribe, SubscribeFails, Forward, Drop, Disconnect,
       jetstream, table, history, consumer
  <2> QED BY <2>1, <1>1
<1>12. CASE UNCHANGED vars
  BY <1>12, <1>1 DEF vars, table, jetstream, history, consumer
<1>13. ASSUME NEW b \in Branches, NEW facts \in SUBSET Facts, DeleteRows(b, facts)
       PROVE  LogType'
  BY <1>13 DEF DeleteRows, jetstream, history, consumer
<1> QED
  BY <1>2, <1>3, <1>4, <1>5, <1>6, <1>7, <1>8, <1>9, <1>10, <1>11, <1>12, <1>13, Kinds

\* A new id is one more than the last; what is known of old ones stays.
LEMMA NewIdType ==
  ASSUME ConsumerType, UseId
  PROVE  /\ tries' \in Seq(0..MaxDeliver) /\ owed' \in Seq(SUBSET Branches)
         /\ Len(owed') = Len(tries') /\ Len(tries') = Len(tries) + 1
         /\ DOMAIN tries \subseteq DOMAIN tries' /\ Len(tries) + 1 \in DOMAIN tries'
         /\ \A id \in DOMAIN tries : owed'[id] = owed[id]
BY MeshAssumption DEF ConsumerType, UseId

\* What becomes of the events the workers publish.
LEMMA PubMoves ==
  ASSUME TypeInv, [Next]_vars, NEW w \in Workers, pub'[w].pc # "idle"
  PROVE  \/ pub'[w] = pub[w]
         \/ /\ At(w, "insert") /\ TakeSequence(w)
            /\ pub'[w] = [pc |-> "commit", event |-> Numbered(pub[w].event, serial + 1)]
         \/ /\ At(w, "commit") /\ Store(w)
            /\ pub'[w] = [pc |-> "send", event |-> Numbered(pub[w].event,
                                                           SequenceOf(pub[w].event))]
         \/ /\ At(w, "commit") /\ StoreFails(w)
            /\ pub'[w] = [pc |-> "send", event |-> Numbered(pub[w].event, 0)]
         \/ /\ pub[w].pc = "idle" /\ pub'[w].pc = "insert" /\ UseId
            /\ \/ w \in Handlers /\ \E f \in Facts, b \in Branches :
                    pub'[w].event = NewEvent(f, b, ContentKey(f), "api")
               \/ \E b \in handler.todo :
                    /\ w = Propagator /\ handler.pc = "copying"
                    /\ handler' = [handler EXCEPT !.todo = @ \ {b}]
                    /\ pub'[w].event = NewEvent(handler.event.fact, b,
                                                CopyKey(handler.event.id, b), "copy")
<1> USE DEF TypeInv, PubType
<1>1. CASE UNCHANGED pub
  BY <1>1
<1>2. ASSUME NEW f \in Facts, NEW b \in Branches, NEW h \in Handlers, Post(h, f, b)
      PROVE  \/ pub'[w] = pub[w]
             \/ /\ pub[w].pc = "idle" /\ pub'[w].pc = "insert" /\ UseId /\ w \in Handlers
                /\ pub'[w].event = NewEvent(f, b, ContentKey(f), "api")
  BY <1>2 DEF Post, Publish, At, Workers
<1>3. ASSUME NEW v \in Workers, TakeSequence(v)
      PROVE  \/ pub'[w] = pub[w]
             \/ /\ At(w, "insert") /\ TakeSequence(w)
                /\ pub'[w] = [pc |-> "commit", event |-> Numbered(pub[w].event, serial + 1)]
  <2>1. CASE v = w
    BY <1>3, <2>1 DEF TakeSequence
  <2>2. CASE v # w
    BY <1>3, <2>2 DEF TakeSequence
  <2> QED BY <2>1, <2>2
<1>4. ASSUME NEW v \in Workers, Store(v) \/ StoreFails(v)
      PROVE  \/ pub'[w] = pub[w]
             \/ /\ At(w, "commit") /\ Store(w)
                /\ pub'[w] = [pc |-> "send", event |-> Numbered(pub[w].event,
                                                               SequenceOf(pub[w].event))]
             \/ /\ At(w, "commit") /\ StoreFails(w)
                /\ pub'[w] = [pc |-> "send", event |-> Numbered(pub[w].event, 0)]
  <2>1. CASE v = w
    <3>1. CASE Store(w)
      <4>1. At(w, "commit") /\ Sending(w, SequenceOf(pub[w].event))
        BY <3>1 DEF Store
      <4> QED BY <3>1, <4>1 DEF Sending
    <3>2. CASE StoreFails(w)
      <4>1. At(w, "commit") /\ Sending(w, 0)
        BY <3>2 DEF StoreFails
      <4> QED BY <3>2, <4>1 DEF Sending
    <3> QED BY <1>4, <2>1, <3>1, <3>2
  <2>2. CASE v # w
    <3>1. Sending(v, SequenceOf(pub[v].event)) \/ Sending(v, 0)
      BY <1>4 DEF Store, StoreFails
    <3> QED BY <3>1, <2>2 DEF Sending
  <2> QED BY <2>1, <2>2
<1>5. ASSUME NEW v \in Workers, Send(v) \/ SendTimesOut(v) \/ SendFails(v)
      PROVE  pub'[w] = pub[w]
  BY <1>5 DEF Send, SendTimesOut, SendFails, Return, Idle
<1>6. ASSUME NEW b \in Branches, Copy(b)
      PROVE  \/ pub'[w] = pub[w]
             \/ /\ pub[w].pc = "idle" /\ pub'[w].pc = "insert" /\ UseId /\ w = Propagator
                /\ b \in handler.todo /\ handler.pc = "copying"
                /\ handler' = [handler EXCEPT !.todo = @ \ {b}]
                /\ pub'[w].event = NewEvent(handler.event.fact, b,
                                            CopyKey(handler.event.id, b), "copy")
  BY <1>6 DEF Copy, Publish, At, Workers
<1>7. CASE Crash
  BY <1>7 DEF Crash, Idle
<1> QED
  BY <1>1, <1>2, <1>3, <1>4, <1>5, <1>6, <1>7, Kinds, Zenon
     DEF vars, AgentPublish, WindowCloses, StartListening, Deliver, Ignore, Copies,
         FindBranches, FindBranchesFails, CopiesLate, Replay, Subscribe, SubscribeFails,
         Forward, Drop, Disconnect, DeleteRows, ReplayFails

\* What becomes of the stream.
LEMMA StreamGrows ==
  ASSUME TypeInv, [Next]_vars
  PROVE  \/ UNCHANGED stream
         \/ \E e \in Event :
              /\ Broadcast(e)
              /\ \/ \E w \in Workers : At(w, "send") /\ e = pub[w].event /\ Return(w)
                 \/ \E f \in Facts, b \in Branches :
                      e = NewEvent(f, b, AgentKey(NewId), "agent") /\ UseId /\ UNCHANGED pub
<1> USE DEF TypeInv
<1>1. ASSUME NEW w \in Workers, Send(w) \/ SendTimesOut(w)
      PROVE  /\ pub[w].event \in Event /\ Broadcast(pub[w].event)
             /\ At(w, "send") /\ Return(w)
  BY <1>1 DEF Send, SendTimesOut, At, PubType
<1>2. ASSUME NEW f \in Facts, NEW b \in Branches, AgentPublish(f, b)
      PROVE  LET e == NewEvent(f, b, AgentKey(NewId), "agent") IN
             e \in Event /\ Broadcast(e) /\ UseId /\ UNCHANGED pub
  BY <1>2, NewEventFields, KeyTypes DEF NewId, ConsumerType, AgentPublish
<1> QED
  BY <1>1, <1>2, Kinds, Zenon
     DEF vars, Post, TakeSequence, Store, StoreFails, SendFails, WindowCloses, StartListening,
         Deliver, Ignore, Copies, FindBranches, FindBranchesFails, CopiesLate, Copy, Replay,
         Subscribe, SubscribeFails, Forward, Drop, Disconnect,
         DeleteRows, ReplayFails, Crash, jetstream

\* Deliveries are counted and branches owed for every id that is in use.
LEMMA TriesStep ==
  TypeInv /\ [Next]_vars =>
    /\ tries' \in Seq(0..MaxDeliver) /\ acked' \subseteq DOMAIN tries'
    /\ owed' \in Seq(SUBSET Branches) /\ Len(owed') = Len(tries')
    /\ DOMAIN tries \subseteq DOMAIN tries'
<1> SUFFICES ASSUME TypeInv, [Next]_vars
             PROVE  /\ tries' \in Seq(0..MaxDeliver) /\ acked' \subseteq DOMAIN tries'
                    /\ owed' \in Seq(SUBSET Branches) /\ Len(owed') = Len(tries')
                    /\ DOMAIN tries \subseteq DOMAIN tries'
  OBVIOUS
<1> DEFINE Goal == /\ tries' \in Seq(0..MaxDeliver) /\ acked' \subseteq DOMAIN tries'
                   /\ owed' \in Seq(SUBSET Branches) /\ Len(owed') = Len(tries')
                   /\ DOMAIN tries \subseteq DOMAIN tries'
<1> USE DEF TypeInv
<1>1. CASE UNCHANGED <<tries, acked, owed>>
  BY <1>1 DEF ConsumerType
<1>2. CASE UseId /\ UNCHANGED acked
  BY <1>2, NewIdType DEF ConsumerType
<1>3. ASSUME NEW i \in DOMAIN stream, Deliver(i) PROVE Goal
  <2>1. stream[i].id \in DOMAIN tries /\ tries[stream[i].id] \in 0..MaxDeliver
    <3>1. stream[i].id \in DOMAIN tries
      BY DEF ConsumerType
    <3>2. tries \in Seq(0..MaxDeliver)
      BY DEF ConsumerType
    <3> HIDE DEF TypeInv
    <3> QED BY <3>1, <3>2, ElementOfSeq, LenProperties
  <2>2. tries[stream[i].id] + 1 \in 0..MaxDeliver
    BY <1>3, <2>1, MeshAssumption DEF Deliver, Due
  <2>3. tries' = [tries EXCEPT ![stream[i].id] = tries[stream[i].id] + 1]
        /\ UNCHANGED <<acked, owed>>
    BY <1>3 DEF Deliver
  <2>4. tries' \in Seq(0..MaxDeliver) /\ Len(tries') = Len(tries)
    <3> HIDE DEF TypeInv
    <3>1. tries \in Seq(0..MaxDeliver)
      BY DEF TypeInv, ConsumerType
    <3> QED BY <2>1, <2>2, <2>3, <3>1, ExceptSeq, LenProperties
  <2> QED BY <2>3, <2>4, LenProperties DEF ConsumerType
<1>4. CASE Ignore \/ Copies
  <2>1. acked' = acked \cup {handler.event.id} /\ UNCHANGED <<tries, owed>>
    BY <1>4 DEF Ignore, Copies, Acknowledge
  <2>2. handler.event.id \in DOMAIN tries
    BY <1>4 DEF Ignore, Copies, Copied, ConsumerType
  <2> QED BY <2>1, <2>2 DEF ConsumerType
<1>5. CASE FindBranches
  <2>1. handler.event.id \in DOMAIN owed
    BY <1>5 DEF FindBranches, ConsumerType
  <2>2. PICK branches \in SUBSET Branches : owed' = [owed EXCEPT ![handler.event.id] = branches]
    BY <1>5 DEF FindBranches
  <2>3. UNCHANGED <<tries, acked>>
    BY <1>5 DEF FindBranches, consumer
  <2> QED BY <2>1, <2>2, <2>3 DEF ConsumerType
<1>6. CASE \/ \E f \in Facts, b \in Branches :
                AgentPublish(f, b) \/ \E h \in Handlers : Post(h, f, b)
           \/ \E b \in Branches : Copy(b)
  BY <1>2, <1>6 DEF AgentPublish, Post, Copy
<1>7. CASE UNCHANGED vars
  BY <1>1, <1>7 DEF vars, consumer, propagation
<1>8. CASE \/ \E w \in Workers : \/ TakeSequence(w) \/ Store(w) \/ StoreFails(w) \/ Send(w)
                                \/ SendTimesOut(w) \/ SendFails(w)
           \/ \E key \in window : WindowCloses(key)
           \/ \E b \in Branches, facts \in SUBSET Facts : DeleteRows(b, facts)
           \/ \E o \in Orgs : StartListening(o)
           \/ FindBranchesFails \/ CopiesLate \/ Crash
           \/ \E c \in Clients : \/ Replay(c) \/ ReplayFails(c) \/ Subscribe(c) \/ SubscribeFails(c)
                                 \/ Forward(c) \/ Drop(c) \/ Disconnect(c)
  <2>1. UNCHANGED consumer \/ UNCHANGED <<tries, acked>>
    BY <1>8, Zenon
       DEF TakeSequence, Store, StoreFails, Send, SendTimesOut, SendFails, WindowCloses,
           StartListening, FindBranchesFails, CopiesLate, Replay, Subscribe, SubscribeFails,
           Forward, Drop, Disconnect, DeleteRows, ReplayFails, Crash
  <2>2. UNCHANGED propagation \/ UNCHANGED owed
    BY <1>8, Zenon
       DEF TakeSequence, Store, StoreFails, Send, SendTimesOut, SendFails, WindowCloses,
           StartListening, FindBranchesFails, CopiesLate, Replay, Subscribe, SubscribeFails,
           Forward, Drop, Disconnect, DeleteRows, ReplayFails, Crash
  <2> QED BY <1>1, <2>1, <2>2 DEF consumer, propagation
<1> QED BY <1>3, <1>4, <1>5, <1>6, <1>7, <1>8, Kinds, Zenon

\* The callback keeps its type: one that is busy has a message.
LEMMA HandlerStepType ==
  TypeInv /\ [Next]_vars =>
    /\ handler' \in [pc : {"idle", "got", "copying"}, event : Event \cup {NoEvent},
                     todo : SUBSET Branches]
    /\ handler'.pc # "idle" => handler'.event \in Event /\ handler'.event.id \in DOMAIN tries
<1> SUFFICES ASSUME TypeInv, [Next]_vars
             PROVE  /\ handler' \in [pc : {"idle", "got", "copying"}, event : Event \cup {NoEvent},
                                     todo : SUBSET Branches]
                    /\ handler'.pc # "idle" =>
                         handler'.event \in Event /\ handler'.event.id \in DOMAIN tries
  OBVIOUS
<1> DEFINE Goal == /\ handler' \in [pc : {"idle", "got", "copying"},
                                    event : Event \cup {NoEvent}, todo : SUBSET Branches]
                   /\ handler'.pc # "idle" =>
                        handler'.event \in Event /\ handler'.event.id \in DOMAIN tries
<1> USE DEF TypeInv, ConsumerType
<1>1. CASE UNCHANGED handler
  BY <1>1
<1>2. CASE handler' = Waiting
  BY <1>2 DEF Waiting
<1>3. ASSUME NEW i \in DOMAIN stream, Deliver(i) PROVE Goal
  BY <1>3 DEF Deliver, LogType
<1>4. CASE FindBranches
  BY <1>4 DEF FindBranches
<1>5. ASSUME NEW b \in Branches, Copy(b) PROVE Goal
  BY <1>5 DEF Copy
<1> HIDE DEF Goal
<1>6. CASE Ignore \/ Copies \/ FindBranchesFails \/ CopiesLate \/ Crash
  BY <1>2, <1>6, Zenon DEF Ignore, Copies, Acknowledge, FindBranchesFails, CopiesLate, Crash, Goal
<1>7. Goal
  BY <1>1, <1>3, <1>4, <1>5, <1>6, Kinds, Zenon
     DEF Goal, vars, AgentPublish, Post, TakeSequence, Store, StoreFails, Send, SendTimesOut,
         SendFails, WindowCloses, StartListening, Replay, Subscribe, SubscribeFails,
         Forward, Drop, Disconnect, DeleteRows, ReplayFails, propagation
<1> QED BY <1>7 DEF Goal

\* Every event that is on the stream or being published has an id in use.
LEMMA ConsumerStep == TypeInv /\ [Next]_vars => ConsumerType'
<1> SUFFICES ASSUME TypeInv, [Next]_vars PROVE ConsumerType'
  OBVIOUS
<1>1. \A i \in DOMAIN stream' : stream'[i].id \in DOMAIN tries'
  <2>1. CASE UNCHANGED stream
    BY <2>1, TriesStep DEF TypeInv, ConsumerType
  <2>2. ASSUME NEW e \in Event, Broadcast(e), e.id \in DOMAIN tries'
        PROVE  \A i \in DOMAIN stream' : stream'[i].id \in DOMAIN tries'
    BY <2>2, BroadcastType, TriesStep DEF TypeInv, ConsumerType
  <2>3. ASSUME NEW w \in Workers, At(w, "send") PROVE pub[w].event.id \in DOMAIN tries'
    BY <2>3, TriesStep DEF TypeInv, ConsumerType, At
  <2>4. ASSUME NEW f \in Facts, NEW b \in Branches, UseId
        PROVE  NewEvent(f, b, AgentKey(NewId), "agent").id \in DOMAIN tries'
    BY <2>4, NewIdType, NewEventFields, KeyTypes DEF TypeInv, ConsumerType, NewId
  <2> QED BY <2>1, <2>2, <2>3, <2>4, StreamGrows, Zenon
<1>2. ASSUME NEW w \in Workers, pub'[w].pc # "idle"
      PROVE  pub'[w].event.id \in DOMAIN tries'
  <2>1. CASE pub'[w] = pub[w]
    BY <1>2, <2>1, TriesStep DEF TypeInv, ConsumerType, At
  <2>2. ASSUME NEW n \in Nat, pub[w].pc # "idle", pub'[w].event = Numbered(pub[w].event, n)
        PROVE  pub'[w].event.id \in DOMAIN tries'
    <3>1. pub[w].event \in Event /\ pub[w].event.id \in DOMAIN tries
      BY <2>2 DEF TypeInv, ConsumerType, PubType, At
    <3>2. pub'[w].event.id = pub[w].event.id
      BY <2>2, <3>1, NumberedFields
    <3> QED BY <3>1, <3>2, TriesStep
  <2>3. ASSUME NEW f \in Facts, NEW b \in Branches, UseId
        PROVE  NewEvent(f, b, ContentKey(f), "api").id \in DOMAIN tries'
    BY <2>3, NewIdType, NewEventFields, KeyTypes DEF TypeInv
  <2>4. ASSUME NEW b \in handler.todo, UseId, handler.pc = "copying"
        PROVE  NewEvent(handler.event.fact, b, CopyKey(handler.event.id, b), "copy").id
                 \in DOMAIN tries'
    <3>1. handler.event \in Event /\ b \in Branches
      BY <2>4 DEF TypeInv, ConsumerType
    <3> QED BY <2>4, <3>1, Fields, NewIdType, NewEventFields, KeyTypes DEF TypeInv
  <2>5. ASSUME NEW n \in Nat, pub[w].pc # "idle",
               NEW pc, pub'[w] = [pc |-> pc, event |-> Numbered(pub[w].event, n)]
        PROVE  pub'[w].event.id \in DOMAIN tries'
    BY <2>2, <2>5
  <2>6. serial + 1 \in Nat
    BY DEF TypeInv, LogType
  <2>7. pub[w].pc # "idle" => SequenceOf(pub[w].event) \in Nat
    BY Fields DEF TypeInv, PubType, SequenceOf
  <2>8. CASE At(w, "insert") /\ pub'[w] = [pc |-> "commit",
                                           event |-> Numbered(pub[w].event, serial + 1)]
    BY <2>5, <2>6, <2>8 DEF At
  <2>9. CASE At(w, "commit") /\ pub'[w] = [pc |-> "send",
                event |-> Numbered(pub[w].event, SequenceOf(pub[w].event))]
    BY <2>5, <2>7, <2>9 DEF At
  <2>10. CASE At(w, "commit") /\ pub'[w] = [pc |-> "send",
                                            event |-> Numbered(pub[w].event, 0)]
    BY <2>5, <2>10 DEF At
  <2> QED BY <1>2, <2>1, <2>3, <2>4, <2>8, <2>9, <2>10, PubMoves, Zenon
<1> QED BY <1>1, <1>2, TriesStep, HandlerStepType DEF ConsumerType, At

\* What becomes of the table.
LEMMA StoreMoves ==
  ASSUME TypeInv, [Next]_vars
  PROVE  \/ UNCHANGED <<store, deleted, unstored>> /\ overtaken \subseteq overtaken'
         \/ /\ \E b \in Branches, facts \in SUBSET Facts : DeleteRows(b, facts)
            /\ UNCHANGED <<unstored, overtaken>>
         \/ \E w \in Workers :
              /\ At(w, "commit") /\ UNCHANGED deleted
              /\ Store(w) \/ StoreFails(w)
              /\ pub[w].event \in Event /\ unstored \subseteq unstored'
              /\ Insert(pub[w].event) \/ UNCHANGED <<store, overtaken>>
<1> USE DEF TypeInv
<1>1. ASSUME NEW w \in Workers, Store(w) \/ StoreFails(w)
      PROVE  /\ At(w, "commit") /\ UNCHANGED deleted
             /\ pub[w].event \in Event /\ unstored \subseteq unstored'
             /\ Insert(pub[w].event) \/ UNCHANGED <<store, overtaken>>
  BY <1>1 DEF Store, StoreFails, At, PubType
<1>2. ASSUME NEW e \in Event, Broadcast(e) PROVE overtaken \subseteq overtaken'
  BY <1>2, BroadcastType
<1>3. ASSUME NEW w \in Workers, Send(w) \/ SendTimesOut(w)
      PROVE  UNCHANGED <<store, deleted, unstored>> /\ overtaken \subseteq overtaken'
  BY <1>2, <1>3 DEF Send, SendTimesOut, table, At, PubType
<1>4. ASSUME NEW f \in Facts, NEW b \in Branches, AgentPublish(f, b)
      PROVE  UNCHANGED <<store, deleted, unstored>> /\ overtaken \subseteq overtaken'
  BY <1>2, <1>4, NewEventFields, KeyTypes DEF NewId, ConsumerType, AgentPublish, table
<1>5. CASE \/ \E f \in Facts, b \in Branches, h \in Handlers : Post(h, f, b)
           \/ \E w \in Workers : TakeSequence(w) \/ SendFails(w)
           \/ \E key \in window : WindowCloses(key)
           \/ \E o \in Orgs : StartListening(o)
           \/ \E i \in DOMAIN stream : Deliver(i)
           \/ Ignore \/ Copies \/ FindBranches \/ FindBranchesFails \/ CopiesLate
           \/ \E b \in Branches : Copy(b)
           \/ \E c \in Clients : \/ Replay(c) \/ ReplayFails(c) \/ Subscribe(c) \/ SubscribeFails(c)
                                 \/ Forward(c) \/ Drop(c) \/ Disconnect(c)
           \/ Crash \/ UNCHANGED vars
  <2>1. UNCHANGED table /\ (UNCHANGED history \/ UNCHANGED <<unstored, overtaken>>)
    BY <1>5, Zenon
       DEF Post, TakeSequence, SendFails, WindowCloses, StartListening, Deliver, Ignore,
           Copies, FindBranches, FindBranchesFails, CopiesLate, Copy, Replay, Subscribe,
           SubscribeFails, Forward, Drop, Disconnect, ReplayFails, Crash, vars
  <2> QED BY <2>1 DEF table, history
<1>6. ASSUME NEW b \in Branches, NEW facts \in SUBSET Facts, DeleteRows(b, facts)
      PROVE  UNCHANGED <<unstored, overtaken>>
  BY <1>6 DEF DeleteRows, history
<1> QED BY <1>1, <1>3, <1>4, <1>5, <1>6, Kinds, Zenon

\* What becomes of the rows there are and were.
LEMMA StoreGrows ==
  ASSUME TypeInv, [Next]_vars
  PROVE  \/ /\ Given' = Given /\ store' \subseteq store
            /\ unstored' = unstored /\ overtaken \subseteq overtaken'
         \/ \E w \in Workers :
              /\ At(w, "commit") /\ UNCHANGED deleted
              /\ Store(w) \/ StoreFails(w)
              /\ pub[w].event \in Event /\ unstored \subseteq unstored'
              /\ Insert(pub[w].event) \/ UNCHANGED <<store, overtaken>>
<1>1. ASSUME NEW b \in Branches, NEW facts \in SUBSET Facts, DeleteRows(b, facts)
      PROVE  Given' = Given /\ store' \subseteq store
  BY <1>1 DEF DeleteRows, Given
<1>2. ASSUME UNCHANGED <<store, deleted>> PROVE Given' = Given /\ store' \subseteq store
  BY <1>2 DEF Given
<1> QED BY <1>1, <1>2, StoreMoves

\* What becomes of the sequence.
LEMMA SerialStep ==
  ASSUME TypeInv, [Next]_vars
  PROVE  \/ UNCHANGED serial
         \/ \E w \in Workers : TakeSequence(w) /\ serial' = serial + 1
BY Kinds, Zenon
   DEF AgentPublish, Post, TakeSequence, Store, StoreFails, Send, SendTimesOut, SendFails,
       WindowCloses, StartListening, Deliver, Ignore, Copies, FindBranches,
       FindBranchesFails, CopiesLate, Copy, Replay, Subscribe, SubscribeFails, Forward,
       Drop, Disconnect, DeleteRows, ReplayFails, Crash, vars

\* What becomes of the clients.
LEMMA SseStep ==
  ASSUME TypeInv, [Next]_vars
  PROVE  \/ UNCHANGED sse
         \/ \E c \in Clients : \/ Replay(c) \/ ReplayFails(c) \/ Subscribe(c) \/ SubscribeFails(c)
                               \/ Forward(c) \/ Drop(c) \/ Disconnect(c)
         \/ Crash
BY Kinds, Zenon
   DEF AgentPublish, Post, TakeSequence, Store, StoreFails, Send, SendTimesOut, SendFails,
       WindowCloses, StartListening, Deliver, Ignore, Copies, FindBranches,
       FindBranchesFails, CopiesLate, Copy, DeleteRows, vars

\* What becomes of the keys a client has missed.
LEMMA MissedStep ==
  ASSUME TypeInv, [Next]_vars
  PROVE  \/ UNCHANGED missed
         \/ \E e \in Event : Broadcast(e)
         \/ \E c \in Clients : Replay(c) \/ ReplayFails(c) \/ Drop(c)
<1>1. ASSUME NEW w \in Workers, Send(w) \/ SendTimesOut(w)
      PROVE  pub[w].event \in Event /\ Broadcast(pub[w].event)
  BY <1>1 DEF Send, SendTimesOut, At, TypeInv, PubType
<1>2. ASSUME NEW f \in Facts, NEW b \in Branches, AgentPublish(f, b)
      PROVE  LET e == NewEvent(f, b, AgentKey(NewId), "agent") IN e \in Event /\ Broadcast(e)
  BY <1>2, NewEventFields, KeyTypes DEF NewId, TypeInv, ConsumerType, AgentPublish
<1>3. CASE \/ \E f \in Facts, b \in Branches, h \in Handlers : Post(h, f, b)
           \/ \E w \in Workers : TakeSequence(w) \/ Store(w) \/ StoreFails(w) \/ SendFails(w)
           \/ \E key \in window : WindowCloses(key)
           \/ \E b \in Branches, facts \in SUBSET Facts : DeleteRows(b, facts)
           \/ \E o \in Orgs : StartListening(o)
           \/ \E i \in DOMAIN stream : Deliver(i)
           \/ Ignore \/ Copies \/ FindBranches \/ FindBranchesFails \/ CopiesLate
           \/ \E b \in Branches : Copy(b)
           \/ \E c \in Clients : Subscribe(c) \/ SubscribeFails(c) \/ Forward(c) \/ Disconnect(c)
           \/ Crash \/ UNCHANGED vars
  <2>1. UNCHANGED jetstream \/ UNCHANGED missed
    BY <1>3, Zenon
       DEF Post, TakeSequence, Store, StoreFails, SendFails, WindowCloses, StartListening,
           Deliver, Ignore, Copies, FindBranches, FindBranchesFails, CopiesLate, Copy,
           Subscribe, SubscribeFails, Forward, Disconnect, DeleteRows, Crash, vars
  <2> QED BY <2>1 DEF jetstream
<1> QED BY <1>1, <1>2, <1>3, Kinds, Zenon

\* What becomes of one client.
Moves(c) ==
  \/ sse'[c] = sse[c]
  \/ /\ Replay(c) /\ sse'[c].pc = "replayed"
     /\ sse'[c].seen = sse[c].seen \cup KeysOf(Page(c)) /\ sse'[c].pos = sse[c].pos
     /\ sse'[c].cursor >= sse[c].cursor /\ \A r \in Page(c) : sse'[c].cursor >= r.seq
     /\ sse'[c].cursor = sse[c].cursor \/ \E r \in Page(c) : sse'[c].cursor = r.seq
     /\ sse'[c].cursor <= serial
  \/ /\ ReplayFails(c) /\ sse'[c].pc = "replayed" /\ sse'[c].seen = sse[c].seen
     /\ sse'[c].cursor = sse[c].cursor /\ sse'[c].pos = sse[c].pos
  \/ /\ Subscribe(c) /\ sse'[c].pc = "live" /\ sse'[c].seen = sse[c].seen
     /\ sse'[c].cursor = sse[c].cursor /\ sse'[c].pos = Len(stream)
  \/ /\ SubscribeFails(c) /\ sse'[c].pc = "deaf" /\ sse'[c].seen = sse[c].seen
     /\ sse'[c].cursor = sse[c].cursor /\ sse'[c].pos = sse[c].pos
  \/ /\ Forward(c) /\ sse'[c].pc = "live" /\ sse'[c].pos = sse[c].pos + 1
     /\ sse'[c].pos \in DOMAIN stream
     /\ LET e == stream[sse'[c].pos] IN
        \/ /\ e.branch = Watched[c] /\ sse'[c].seen = sse[c].seen \cup {e.key}
           /\ sse'[c].cursor = IF e.seq > sse[c].cursor THEN e.seq ELSE sse[c].cursor
        \/ /\ e.branch # Watched[c] /\ sse'[c].seen = sse[c].seen
           /\ sse'[c].cursor = sse[c].cursor
     /\ sse'[c].cursor <= serial
  \/ /\ Drop(c) /\ sse'[c].pc = "live" /\ sse'[c].pos = sse[c].pos + 1
     /\ sse'[c].seen = sse[c].seen /\ sse'[c].cursor = sse[c].cursor
     /\ sse'[c].pos \in DOMAIN stream /\ stream[sse'[c].pos].branch = Watched[c]
  \/ /\ Disconnect(c) \/ Crash
     /\ sse'[c].pc = "off" /\ sse'[c].seen = sse[c].seen
     /\ sse'[c].cursor = sse[c].cursor /\ sse'[c].pos = 0

\* Every client keeps its type and moves in one of these ways.
LEMMA SseMoves ==
  ASSUME TypeInv, [Next]_vars
  PROVE  sse' \in [Clients -> Sse] /\ \A c \in Clients : Moves(c)
<1>0. /\ sse \in [Clients -> Sse] /\ serial \in Nat /\ Len(stream) \in Nat
      /\ \A c \in Clients : sse[c].cursor <= serial /\ sse[c].pos <= Len(stream)
  BY DEF TypeInv, ClientType, LogType
<1>1. CASE UNCHANGED sse
  BY <1>0, <1>1 DEF Moves
<1>2. ASSUME NEW c \in Clients, sse' \in [Clients -> Sse], Moves(c),
             \A d \in Clients : d # c => sse'[d] = sse[d]
      PROVE  sse' \in [Clients -> Sse] /\ \A d \in Clients : Moves(d)
  BY <1>2 DEF Moves
<1>3. ASSUME NEW c \in Clients, Replay(c)
      PROVE  /\ sse' \in [Clients -> Sse] /\ Moves(c)
             /\ \A d \in Clients : d # c => sse'[d] = sse[d]
  <2>1. PICK n \in {sse[c].cursor} \cup {r.seq : r \in Page(c)} :
          /\ \A r \in Page(c) : n >= r.seq
          /\ sse' = [sse EXCEPT ![c].pc = "replayed",
                                ![c].seen = @ \cup KeysOf(Page(c)), ![c].cursor = n]
    BY <1>3 DEF Replay
  <2>2. \A r \in Page(c) : r.seq \in Nat /\ r.seq <= serial /\ r.seq > sse[c].cursor
    BY Fields DEF Page, Unread, Given, TypeInv, LogType, ClientType
  <2>3. sse[c].cursor \in Nat /\ sse[c].cursor <= serial
    BY <1>0 DEF Sse
  <2>4. n \in Nat /\ n <= serial /\ n >= sse[c].cursor
        /\ (n = sse[c].cursor \/ \E r \in Page(c) : n = r.seq)
    BY <2>1, <2>2, <2>3
  <2>5. KeysOf(Page(c)) \subseteq Keys
    BY Fields DEF KeysOf, Page, Unread, TypeInv, LogType
  <2>6. sse' \in [Clients -> Sse] /\ \A d \in Clients : d # c => sse'[d] = sse[d]
    BY <1>0, <2>1, <2>4, <2>5 DEF Sse
  <2>7. /\ sse'[c].pc = "replayed" /\ sse'[c].seen = sse[c].seen \cup KeysOf(Page(c))
        /\ sse'[c].pos = sse[c].pos /\ sse'[c].cursor = n
    BY <1>0, <2>1 DEF Sse
  <2> QED BY <1>3, <2>1, <2>4, <2>6, <2>7 DEF Moves
<1>4. ASSUME NEW c \in Clients,
             ReplayFails(c) \/ Subscribe(c) \/ SubscribeFails(c) \/ Disconnect(c)
      PROVE  /\ sse' \in [Clients -> Sse] /\ Moves(c)
             /\ \A d \in Clients : d # c => sse'[d] = sse[d]
  <2>1. CASE Subscribe(c)
    <3>1. /\ sse' \in [Clients -> Sse] /\ \A d \in Clients : d # c => sse'[d] = sse[d]
          /\ sse'[c].pc = "live" /\ sse'[c].seen = sse[c].seen
          /\ sse'[c].cursor = sse[c].cursor /\ sse'[c].pos = Len(stream)
      BY <1>0, <2>1 DEF Subscribe, Sse
    <3> QED BY <2>1, <3>1, Zenon DEF Moves
  <2>2. CASE SubscribeFails(c)
    <3>1. /\ sse' \in [Clients -> Sse] /\ \A d \in Clients : d # c => sse'[d] = sse[d]
          /\ sse'[c].pc = "deaf" /\ sse'[c].seen = sse[c].seen
          /\ sse'[c].cursor = sse[c].cursor /\ sse'[c].pos = sse[c].pos
      BY <1>0, <2>2 DEF SubscribeFails, Sse
    <3> QED BY <2>2, <3>1, Zenon DEF Moves
  <2>3. CASE Disconnect(c)
    <3>1. /\ sse' \in [Clients -> Sse] /\ \A d \in Clients : d # c => sse'[d] = sse[d]
          /\ sse'[c].pc = "off" /\ sse'[c].seen = sse[c].seen
          /\ sse'[c].cursor = sse[c].cursor /\ sse'[c].pos = 0
      BY <1>0, <2>3 DEF Disconnect, DeleteRows, ReplayFails, Sse
    <3> QED BY <2>3, <3>1, Zenon DEF Moves
  <2>4. CASE ReplayFails(c)
    <3>1. /\ sse' \in [Clients -> Sse] /\ \A d \in Clients : d # c => sse'[d] = sse[d]
          /\ sse'[c].pc = "replayed" /\ sse'[c].seen = sse[c].seen
          /\ sse'[c].cursor = sse[c].cursor /\ sse'[c].pos = sse[c].pos
      BY <1>0, <2>4 DEF ReplayFails, Sse
    <3> QED BY <2>4, <3>1, Zenon DEF Moves
  <2> QED BY <1>4, <2>1, <2>2, <2>3, <2>4
<1>5. ASSUME NEW c \in Clients, Forward(c)
      PROVE  /\ sse' \in [Clients -> Sse] /\ Moves(c)
             /\ \A d \in Clients : d # c => sse'[d] = sse[d]
  <2> DEFINE i == sse[c].pos + 1
             e == stream[i]
  <2>1. sse[c] \in Sse /\ sse[c].pos < Len(stream) /\ sse[c].pc = "live"
    BY <1>0, <1>5 DEF Forward
  <2>2. i \in DOMAIN stream
    BY <1>0, <2>1 DEF TypeInv, LogType, Sse
  <2>3. e.seq <= serial /\ e.seq \in Nat /\ e.key \in Keys
    BY <2>2, Fields DEF TypeInv, LogType, ClientType
  <2> DEFINE seen == IF e.branch = Watched[c] THEN sse[c].seen \cup {e.key} ELSE sse[c].seen
             cursor == IF e.branch = Watched[c] /\ e.seq > sse[c].cursor THEN e.seq
                       ELSE sse[c].cursor
  <2>4. sse' = [sse EXCEPT ![c].pos = i, ![c].seen = seen, ![c].cursor = cursor]
    BY <1>5 DEF Forward
  <2> HIDE DEF e
  <2>5. seen \in SUBSET Keys /\ cursor \in Nat /\ i \in Nat
    BY <2>1, <2>3 DEF Sse
  <2> HIDE DEF i, seen, cursor
  <2>6. sse' \in [Clients -> Sse] /\ \A d \in Clients : d # c => sse'[d] = sse[d]
    BY <1>0, <2>4, <2>5 DEF Sse
  <2>7. /\ sse'[c].pc = "live" /\ sse'[c].pos = i
        /\ sse'[c].seen = seen /\ sse'[c].cursor = cursor
    BY <1>0, <2>1, <2>4 DEF Sse
  <2> USE DEF seen, cursor
  <2>8. sse'[c].cursor <= serial
    BY <1>0, <2>3, <2>7
  <2>9. sse'[c].pos = sse[c].pos + 1 /\ e = stream[sse'[c].pos] /\ sse'[c].pos \in DOMAIN stream
    BY <2>2, <2>7 DEF i, e
  <2> QED BY <1>5, <2>6, <2>7, <2>8, <2>9 DEF Moves
<1>6. ASSUME NEW c \in Clients, Drop(c)
      PROVE  /\ sse' \in [Clients -> Sse] /\ Moves(c)
             /\ \A d \in Clients : d # c => sse'[d] = sse[d]
  <2>1. sse[c] \in Sse /\ sse[c].pos < Len(stream) /\ sse[c].pc = "live"
        /\ stream[sse[c].pos + 1].branch = Watched[c]
    BY <1>0, <1>6 DEF Drop
  <2>2. sse[c].pos + 1 \in DOMAIN stream
    BY <1>0, <2>1 DEF TypeInv, LogType, Sse
  <2>3. /\ sse' \in [Clients -> Sse] /\ \A d \in Clients : d # c => sse'[d] = sse[d]
        /\ sse'[c].pc = "live" /\ sse'[c].seen = sse[c].seen
        /\ sse'[c].cursor = sse[c].cursor /\ sse'[c].pos = sse[c].pos + 1
    <3> DEFINE i == sse[c].pos + 1
    <3>1. i \in Nat /\ sse' = [sse EXCEPT ![c].pos = i]
      BY <1>6, <2>1 DEF Drop, Sse
    <3> HIDE DEF i
    <3>2. /\ sse' \in [Clients -> Sse] /\ \A d \in Clients : d # c => sse'[d] = sse[d]
          /\ sse'[c].pc = "live" /\ sse'[c].seen = sse[c].seen
          /\ sse'[c].cursor = sse[c].cursor /\ sse'[c].pos = i
      BY <1>0, <2>1, <3>1 DEF Sse
    <3> QED BY <3>2 DEF i
  <2>4. sse'[c].pos \in DOMAIN stream /\ stream[sse'[c].pos].branch = Watched[c]
    BY <2>1, <2>2, <2>3
  <2> QED BY <1>6, <2>3, <2>4, Zenon DEF Moves
<1>7. CASE Crash
  <2>1. sse' = [c \in Clients |-> [sse[c] EXCEPT !.pc = "off", !.pos = 0]]
    BY <1>7 DEF Crash
  <2>2. /\ sse' \in [Clients -> Sse]
        /\ \A c \in Clients : /\ sse'[c].pc = "off" /\ sse'[c].seen = sse[c].seen
                              /\ sse'[c].cursor = sse[c].cursor /\ sse'[c].pos = 0
    BY <1>0, <2>1 DEF Sse
  <2> QED BY <1>7, <2>2, Zenon DEF Moves
<1> QED BY <1>1, <1>2, <1>3, <1>4, <1>5, <1>6, <1>7, SseStep, Zenon

\* No number is higher than the last one drawn, no place past the stream's end.
LEMMA ClientStep == TypeInv /\ [Next]_vars => ClientType'
<1> SUFFICES ASSUME TypeInv, [Next]_vars PROVE ClientType'
  OBVIOUS
<1>1. serial' \in Nat /\ serial <= serial'
  BY SerialStep DEF TypeInv, LogType
<1>2. Len(stream') \in Nat /\ Len(stream) <= Len(stream')
  BY StreamGrows, BroadcastType DEF TypeInv, LogType
<1>3. \A w \in Workers : ~At(w, "idle") =>
         pub[w].event \in Event /\ pub[w].event.seq <= serial
  BY DEF TypeInv, PubType, ClientType, At
<1>4. \A r \in Given' : r.seq <= serial'
  <2>1. ASSUME NEW r \in Given', r \notin Given PROVE r.seq <= serial
    <3>0. Given' # Given /\ ~UNCHANGED <<store, deleted>>
      BY <2>1 DEF Given
    <3>1. PICK w \in Workers : /\ At(w, "commit") /\ UNCHANGED deleted
                               /\ Insert(pub[w].event) \/ UNCHANGED <<store, overtaken>>
      BY <3>0, StoreGrows, Zenon
    <3>2. r = pub[w].event
      BY <2>1, <3>0, <3>1 DEF Insert, Given
    <3> QED BY <1>3, <3>1, <3>2 DEF At
  <2>2. ASSUME NEW r \in Given PROVE r.seq \in Nat /\ r.seq <= serial
    BY Fields DEF TypeInv, LogType, ClientType, Given
  <2>3. ASSUME NEW r \in Given' PROVE r.seq \in Nat
    BY LogStep, Fields DEF LogType, Given
  <2> QED BY <1>1, <2>1, <2>2, <2>3 DEF TypeInv, LogType
<1>5. \A i \in DOMAIN stream' : stream'[i].seq <= serial'
  <2>1. ASSUME NEW e \in Event, e.seq <= serial, Broadcast(e)
        PROVE  \A i \in DOMAIN stream' : stream'[i].seq <= serial
    BY <2>1, BroadcastType DEF TypeInv, LogType, ClientType
  <2>2. ASSUME NEW w \in Workers, At(w, "send") PROVE pub[w].event.seq <= serial
    BY <2>2, <1>3 DEF At
  <2>3. ASSUME NEW f \in Facts, NEW b \in Branches
        PROVE  NewEvent(f, b, AgentKey(NewId), "agent").seq <= serial
    BY NewEventFields, KeyTypes DEF TypeInv, ConsumerType, LogType, NewId
  <2>4. ASSUME UNCHANGED stream PROVE \A i \in DOMAIN stream' : stream'[i].seq <= serial
    BY <2>4 DEF TypeInv, ClientType
  <2>5. \A i \in DOMAIN stream' : stream'[i].seq <= serial
    BY <2>1, <2>2, <2>3, <2>4, StreamGrows, Zenon
  <2>6. \A i \in DOMAIN stream' : stream'[i].seq \in Nat
    BY LogStep, Fields DEF LogType, TypeInv
  <2> QED BY <1>1, <2>5, <2>6 DEF TypeInv, LogType
<1>6. \A w \in Workers : ~At(w, "idle")' => pub'[w].event.seq <= serial'
  <2> SUFFICES ASSUME NEW w \in Workers, pub'[w].pc # "idle"
               PROVE  pub'[w].event.seq <= serial'
    BY DEF At
  <2>1. serial \in Nat
    BY DEF TypeInv, LogType
  <2>2. CASE pub'[w] = pub[w]
    <3>1. pub[w].event \in Event /\ pub[w].event.seq <= serial
      BY <1>3, <2>2 DEF At
    <3> QED BY <1>1, <2>1, <2>2, <3>1, Fields
  <2>3. CASE /\ At(w, "insert") /\ TakeSequence(w)
             /\ pub'[w] = [pc |-> "commit", event |-> Numbered(pub[w].event, serial + 1)]
    <3>1. serial' = serial + 1
      BY <2>3 DEF TakeSequence
    <3> QED BY <1>3, <2>1, <2>3, <3>1, NumberedFields DEF At
  <2>4. CASE /\ At(w, "commit")
             /\ pub'[w] = [pc |-> "send",
                           event |-> Numbered(pub[w].event, SequenceOf(pub[w].event))]
    <3>1. pub[w].event \in Event /\ pub[w].event.seq <= serial
      BY <1>3, <2>4 DEF At
    <3>2. SequenceOf(pub[w].event) \in Nat /\ SequenceOf(pub[w].event) <= serial
      BY <2>1, <3>1, Fields DEF SequenceOf
    <3>3. pub'[w].event.seq = SequenceOf(pub[w].event)
      BY <2>4, <3>1, <3>2, NumberedFields
    <3> QED BY <1>1, <2>1, <3>2, <3>3
  <2>5. CASE /\ At(w, "commit")
             /\ pub'[w] = [pc |-> "send", event |-> Numbered(pub[w].event, 0)]
    BY <1>1, <1>3, <2>1, <2>5, NumberedFields DEF At
  <2>6. ASSUME NEW f \in Facts, NEW b \in Branches,
               pub'[w].event = NewEvent(f, b, ContentKey(f), "api")
        PROVE  pub'[w].event.seq <= serial'
    BY <1>1, <2>6, NewEventFields, KeyTypes DEF TypeInv
  <2>7. ASSUME NEW b \in handler.todo, handler.pc = "copying",
               pub'[w].event = NewEvent(handler.event.fact, b,
                                        CopyKey(handler.event.id, b), "copy")
        PROVE  pub'[w].event.seq <= serial'
    <3>1. handler.event \in Event /\ b \in Branches
      BY <2>7 DEF TypeInv, ConsumerType
    <3> QED BY <1>1, <2>7, <3>1, Fields, NewEventFields, KeyTypes DEF TypeInv
  <2> QED BY <2>2, <2>3, <2>4, <2>5, <2>6, <2>7, PubMoves, Zenon
<1>7. sse' \in [Clients -> Sse]
      /\ \A c \in Clients : sse'[c].cursor <= serial' /\ sse'[c].pos <= Len(stream')
  <2> SUFFICES ASSUME NEW c \in Clients
               PROVE  sse'[c].cursor <= serial' /\ sse'[c].pos <= Len(stream')
    BY SseMoves
  <2>0. /\ sse[c] \in Sse /\ sse'[c] \in Sse /\ serial \in Nat /\ Len(stream) \in Nat
        /\ sse[c].cursor <= serial /\ sse[c].pos <= Len(stream)
    BY SseMoves DEF TypeInv, ClientType, LogType
  <2>1. sse'[c].cursor <= serial /\ sse'[c].pos <= Len(stream)
    BY <2>0, SseMoves DEF Moves, Sse
  <2> QED BY <1>1, <1>2, <2>0, <2>1 DEF Sse
<1>8. missed' \in [Clients -> SUBSET Keys]
  <2>0. missed \in [Clients -> SUBSET Keys]
    BY DEF TypeInv, ClientType
  <2>1. ASSUME NEW e \in Event, Broadcast(e) PROVE missed' \in [Clients -> SUBSET Keys]
    BY <2>0, <2>1, Fields DEF Broadcast
  <2>2. ASSUME NEW c \in Clients, Replay(c) PROVE missed' \in [Clients -> SUBSET Keys]
    <3>1. KeysOf(Unread(c) \ Page(c)) \subseteq Keys
      BY Fields DEF KeysOf, Unread, TypeInv, LogType
    <3> QED BY <2>0, <2>2, <3>1 DEF Replay
  <2>3. ASSUME NEW c \in Clients, Drop(c) PROVE missed' \in [Clients -> SUBSET Keys]
    <3>1. sse[c].pos + 1 \in DOMAIN stream
      BY <2>3 DEF Drop, TypeInv, LogType, ClientType, Sse
    <3>2. stream[sse[c].pos + 1].key \in Keys
      BY <3>1, Fields DEF TypeInv, LogType
    <3> QED BY <2>0, <2>3, <3>2 DEF Drop
  <2>4. ASSUME NEW c \in Clients, ReplayFails(c) PROVE missed' \in [Clients -> SUBSET Keys]
    <3>1. KeysOf(Unread(c)) \subseteq Keys
      BY Fields DEF KeysOf, Unread, TypeInv, LogType
    <3> QED BY <2>0, <2>4, <3>1 DEF ReplayFails
  <2>5. \/ UNCHANGED missed \/ \E e \in Event : Broadcast(e)
        \/ \E c \in Clients : Replay(c) \/ ReplayFails(c) \/ Drop(c)
    BY MissedStep
  <2> QED BY <2>0, <2>1, <2>2, <2>3, <2>4, <2>5
<1> QED BY <1>4, <1>5, <1>6, <1>7, <1>8 DEF ClientType, At

\* Every step keeps the types.
LEMMA TypeStep == TypeInv /\ [Next]_vars => TypeInv'
BY PubStep, LogStep, ConsumerStep, ClientStep, CountStep, Zenon DEF TypeInv

\* Every variable keeps its type: TypeOK holds in every reachable state.
THEOREM TypeCorrect == Spec => []TypeOK
<1>1. TypeInv => TypeOK
  <2> SUFFICES ASSUME TypeInv PROVE TypeOK
    OBVIOUS
  <2>1. /\ posts \in 0..MaxPosts /\ serial \in Nat
        /\ store \cup deleted \subseteq Event /\ stream \in Seq(Event) /\ window \subseteq Keys
        /\ filter \in Orgs \cup {NoOrg} /\ from \in 0..Len(stream)
        /\ tries \in Seq(0..MaxDeliver) /\ acked \subseteq DOMAIN tries
        /\ owed \in Seq(SUBSET Branches) /\ Len(owed) = Len(tries)
        /\ listening \subseteq Orgs /\ faults \in 0..MaxFaults /\ forgotten \in BOOLEAN
    BY Zenon DEF TypeInv, LogType, ConsumerType, CountType
  <2>2. \A w \in Workers : /\ pub[w].pc \in {"idle", "insert", "commit", "send"}
                           /\ pub[w].pc # "idle" => pub[w].event \in Event
    BY DEF TypeInv, PubType
  <2>3. handler.pc \in {"idle", "got", "copying"} /\ handler.todo \subseteq Branches
    BY DEF TypeInv, ConsumerType
  <2>4. \A c \in Clients : /\ sse[c].pc \in {"off", "replayed", "live", "deaf"}
                           /\ sse[c].seen \subseteq Keys
                           /\ sse[c].cursor \in 0..serial /\ sse[c].pos \in 0..Len(stream)
    BY DEF TypeInv, ClientType, LogType, Sse
  <2>5. lost \cup unstored \cup overtaken \subseteq Branches \X Keys
    BY DEF TypeInv, LogType
  <2> QED BY <2>1, <2>2, <2>3, <2>4, <2>5, Zenon DEF TypeOK
<1> QED BY <1>1, InitType, TypeStep, PTL DEF Spec

-----------------------------------------------------------------------------
(* What a step does to the table and the stream. *)

\* A new row is the event of a worker at its insert.
LEMMA NewRow ==
  ASSUME TypeInv, [Next]_vars, NEW r \in store', r \notin store
  PROVE  /\ r \in Event /\ Insert(r) /\ ~Stored(r.branch, r.key)
         /\ store' = store \cup {r} /\ UNCHANGED deleted
         /\ Given' = Given \cup {r}
         /\ \E w \in Workers : /\ At(w, "commit") /\ r = pub[w].event
                               /\ Store(w) \/ StoreFails(w)
<1>0. ~(Given' = Given /\ store' \subseteq store)
  OBVIOUS
<1>1. PICK w \in Workers : /\ At(w, "commit") /\ pub[w].event \in Event /\ UNCHANGED deleted
                           /\ Store(w) \/ StoreFails(w)
                           /\ Insert(pub[w].event) \/ UNCHANGED <<store, overtaken>>
  BY <1>0, StoreGrows, Zenon
<1>2. r = pub[w].event /\ store' = store \cup {pub[w].event} /\ Insert(pub[w].event)
      /\ ~Stored(pub[w].event.branch, pub[w].event.key)
  BY <1>1 DEF Insert, Given
<1>3. Given' = Given \cup {r}
  BY <1>1, <1>2 DEF Given
<1> QED BY <1>1, <1>2, <1>3, Zenon

\* A row that never was before is new in the table.
LEMMA NewGiven ==
  ASSUME TypeInv, [Next]_vars, NEW r \in Given', r \notin Given
  PROVE  r \in store' /\ r \notin store
<1>0. Given' # Given
  OBVIOUS
<1>1. PICK w \in Workers : UNCHANGED deleted
  BY <1>0, StoreGrows, Zenon
<1> QED BY <1>1 DEF Given

\* What was a row is still known, and accidents are not forgotten.
LEMMA RowsStay ==
  ASSUME TypeInv, [Next]_vars
  PROVE  /\ Given \subseteq Given' /\ deleted \subseteq deleted'
         /\ unstored \subseteq unstored' /\ overtaken \subseteq overtaken'
<1>1. ASSUME NEW w \in Workers, pub[w].event \in Event, UNCHANGED deleted,
             Insert(pub[w].event) \/ UNCHANGED <<store, overtaken>>
      PROVE  Given \subseteq Given' /\ overtaken \subseteq overtaken'
  BY <1>1, InsertType DEF TypeInv, Given
<1>2. deleted \subseteq deleted'
  BY StoreMoves DEF DeleteRows
<1> QED BY <1>1, <1>2, StoreGrows

\* A new message is a worker's event or an agent's, and its id was not in the window.
LEMMA NewMessage ==
  ASSUME TypeInv, [Next]_vars, NEW i \in DOMAIN stream', i \notin DOMAIN stream
  PROVE  \E e \in Event :
           /\ Broadcast(e) /\ e = stream'[i] /\ i = Len(stream) + 1 /\ e.key \notin window
           /\ \/ \E w \in Workers : At(w, "send") /\ e = pub[w].event
              \/ e.kind = "agent" /\ e.key = AgentKey(e.id) /\ e.seq = 0
<1>0. ~UNCHANGED stream
  OBVIOUS
<1>1. PICK e \in Event :
        /\ Broadcast(e)
        /\ \/ \E w \in Workers : At(w, "send") /\ e = pub[w].event
           \/ \E f \in Facts, b \in Branches : e = NewEvent(f, b, AgentKey(NewId), "agent")
  BY <1>0, StreamGrows, Zenon
<1>2. e = stream'[i] /\ i = Len(stream) + 1
  BY <1>1, BroadcastType DEF TypeInv
<1>3. e.key \notin window
  BY <1>0, <1>1 DEF Broadcast, MessageId
<1>4. ASSUME NEW f \in Facts, NEW b \in Branches, e = NewEvent(f, b, AgentKey(NewId), "agent")
      PROVE  e.kind = "agent" /\ e.key = AgentKey(e.id) /\ e.seq = 0
  BY <1>4, NewEventFields, KeyTypes DEF NewId, TypeInv, ConsumerType
<1> QED BY <1>1, <1>2, <1>3, <1>4, Zenon

\* Messages stay where they are.
LEMMA MessagesStay ==
  ASSUME TypeInv, [Next]_vars
  PROVE  /\ DOMAIN stream \subseteq DOMAIN stream'
         /\ \A i \in DOMAIN stream : stream'[i] = stream[i]
         /\ \A b, key : OnStream(b, key) => OnStream(b, key)'
<1>1. /\ DOMAIN stream \subseteq DOMAIN stream'
      /\ \A i \in DOMAIN stream : stream'[i] = stream[i]
  BY StreamGrows, BroadcastType DEF TypeInv
<1> QED BY <1>1 DEF OnStream

\* Lost broadcasts are never forgotten.
LEMMA LostStays ==
  ASSUME TypeInv, [Next]_vars
  PROVE  lost \subseteq lost'
<1>1. ASSUME NEW e \in Event, Broadcast(e) PROVE lost \subseteq lost'
  BY <1>1, BroadcastType DEF TypeInv
<1>2. ASSUME NEW w \in Workers, Send(w) \/ SendTimesOut(w) PROVE lost \subseteq lost'
  BY <1>1, <1>2 DEF Send, SendTimesOut, At, TypeInv, PubType
<1>3. ASSUME NEW f \in Facts, NEW b \in Branches, AgentPublish(f, b) PROVE lost \subseteq lost'
  BY <1>1, <1>3, NewEventFields, KeyTypes DEF NewId, TypeInv, ConsumerType, AgentPublish
<1>4. ASSUME NEW w \in Workers, SendFails(w) PROVE lost \subseteq lost'
  BY <1>4 DEF SendFails
<1>5. CASE Crash
  BY <1>5 DEF Crash
<1>6. CASE \/ \E f \in Facts, b \in Branches, h \in Handlers : Post(h, f, b)
           \/ \E w \in Workers : TakeSequence(w) \/ Store(w) \/ StoreFails(w)
           \/ \E key \in window : WindowCloses(key)
           \/ \E b \in Branches, facts \in SUBSET Facts : DeleteRows(b, facts)
           \/ \E o \in Orgs : StartListening(o)
           \/ \E i \in DOMAIN stream : Deliver(i)
           \/ Ignore \/ Copies \/ FindBranches \/ FindBranchesFails \/ CopiesLate
           \/ \E b \in Branches : Copy(b)
           \/ \E c \in Clients : \/ Replay(c) \/ ReplayFails(c) \/ Subscribe(c) \/ SubscribeFails(c)
                                 \/ Forward(c) \/ Drop(c) \/ Disconnect(c)
           \/ UNCHANGED vars
  <2>1. UNCHANGED history \/ UNCHANGED lost
    BY <1>6, Zenon
       DEF Post, TakeSequence, Store, StoreFails, WindowCloses, StartListening, Deliver,
           Ignore, Copies, FindBranches, FindBranchesFails, CopiesLate, Copy, Replay,
           Subscribe, SubscribeFails, Forward, Drop, Disconnect, DeleteRows, ReplayFails, vars
  <2> QED BY <2>1 DEF history
<1> QED BY <1>2, <1>3, <1>4, <1>5, <1>6, Kinds, Zenon

\* A broadcast that ends leaves its event on the stream or lost.
LEMMA SendEnds ==
  ASSUME TypeInv, [Next]_vars, NEW w \in Workers, At(w, "send"),
         NEW e, e = pub[w].event
  PROVE  pub'[w] = pub[w] \/ OnStream(e.branch, e.key)' \/ Named(e) \in lost'
<1> DEFINE Goal == pub'[w] = pub[w] \/ OnStream(e.branch, e.key)' \/ Named(e) \in lost'
<1>0. e \in Event /\ pub \in [Workers -> [pc : {"idle", "insert", "commit", "send"},
                                         event : Event \cup {NoEvent}]]
  BY DEF At, TypeInv, PubType
<1>1. ASSUME Broadcast(e) PROVE Goal
  <2>1. CASE MessageId(e) \in window
    <3>1. UNCHANGED stream /\ (OnStream(e.branch, e.key) \/ Named(e) \in lost')
      BY <1>1, <2>1 DEF Broadcast
    <3> QED BY <3>1 DEF OnStream
  <2>2. CASE MessageId(e) \notin window
    <3>1. stream' = Append(stream, e)
      BY <1>1, <2>2 DEF Broadcast
    <3>2. Len(stream) + 1 \in DOMAIN stream' /\ stream'[Len(stream) + 1] = e
      BY <1>0, <3>1 DEF TypeInv, LogType
    <3> QED BY <3>2 DEF OnStream
  <2> QED BY <2>1, <2>2
<1>2. ASSUME NEW v \in Workers, Send(v) \/ SendTimesOut(v) PROVE Goal
  <2>1. Broadcast(pub[v].event) /\ Return(v)
    BY <1>2 DEF Send, SendTimesOut
  <2>2. v # w => pub'[w] = pub[w]
    BY <1>0, <2>1 DEF Return
  <2> QED BY <1>1, <2>1, <2>2
<1>3. ASSUME NEW v \in Workers, SendFails(v) PROVE Goal
  BY <1>0, <1>3 DEF SendFails, Return
<1>4. CASE Crash
  BY <1>4 DEF Crash
<1>5. ASSUME NEW f \in Facts, NEW b \in Branches, NEW h \in Handlers, Post(h, f, b) PROVE Goal
  BY <1>0, <1>5 DEF Post, Publish, At, Workers
<1>6. ASSUME NEW v \in Workers, TakeSequence(v) PROVE Goal
  BY <1>0, <1>6 DEF TakeSequence, At
<1>7. ASSUME NEW v \in Workers, Store(v) \/ StoreFails(v) PROVE Goal
  BY <1>0, <1>7 DEF Store, StoreFails, Sending, At
<1>8. ASSUME NEW b \in Branches, Copy(b) PROVE Goal
  BY <1>0, <1>8 DEF Copy, Publish, At
<1>9. CASE UNCHANGED pub
  BY <1>9
<1> HIDE DEF Goal
<1>10. Goal
  BY <1>2, <1>3, <1>4, <1>5, <1>6, <1>7, <1>8, <1>9, Kinds, Zenon
     DEF Goal, vars, AgentPublish, WindowCloses, StartListening, Deliver, Ignore, Copies,
         FindBranches, FindBranchesFails, CopiesLate, Replay, Subscribe, SubscribeFails,
         Forward, Drop, Disconnect, DeleteRows, ReplayFails
<1> QED BY <1>10 DEF Goal

-----------------------------------------------------------------------------
(* Sequence numbers. *)

\* Rows have numbers of their own, different from those that will be rows.
SeqInv ==
  /\ \A r \in Given : r.seq > 0
  /\ \A r, s \in Given : r.seq = s.seq => r = s
  /\ \A w \in Workers : At(w, "commit") =>
       pub[w].event.seq > 0 /\ \A r \in Given : r.seq # pub[w].event.seq
  /\ \A v, w \in Workers : At(v, "commit") /\ At(w, "commit") /\ v # w =>
       pub[v].event.seq # pub[w].event.seq
  /\ \A w \in Workers : At(w, "send") /\ pub[w].event.seq > 0 => pub[w].event \in Given
  /\ SequenceIsTheRows

\* A worker reaches its insert by drawing a number.
LEMMA CommitMoves ==
  ASSUME TypeInv, [Next]_vars, NEW w \in Workers, At(w, "commit")'
  PROVE  \/ pub'[w] = pub[w] /\ At(w, "commit")
         \/ /\ TakeSequence(w) /\ serial' = serial + 1 /\ pub'[w].event.seq = serial + 1
            /\ \A v \in Workers : v # w => pub'[v] = pub[v]
<1>1. pub'[w].pc = "commit"
  BY DEF At
<1>2. CASE At(w, "insert") /\ TakeSequence(w)
           /\ pub'[w] = [pc |-> "commit", event |-> Numbered(pub[w].event, serial + 1)]
  <2>1. pub[w].event \in Event /\ serial + 1 \in Nat
    BY <1>2 DEF At, TypeInv, PubType, LogType
  <2>2. pub'[w].event.seq = serial + 1
    BY <1>2, <2>1, NumberedFields
  <2>3. serial' = serial + 1 /\ \A v \in Workers : v # w => pub'[v] = pub[v]
    BY <1>2 DEF TakeSequence, TypeInv, PubType
  <2> QED BY <1>2, <2>2, <2>3
<1>3. pub'[w].pc # "idle"
  BY <1>1
<1>4. CASE pub'[w] = pub[w]
  BY <1>1, <1>4 DEF At
<1>5. pub'[w] # [pc |-> "send", event |-> Numbered(pub[w].event, SequenceOf(pub[w].event))]
      /\ pub'[w] # [pc |-> "send", event |-> Numbered(pub[w].event, 0)]
      /\ pub'[w].pc # "insert"
  BY <1>1
<1> QED BY <1>2, <1>3, <1>4, <1>5, PubMoves, Zenon

\* A worker reaches its broadcast by an insert, which fails or not.
LEMMA SendMoves ==
  ASSUME TypeInv, [Next]_vars, NEW w \in Workers, At(w, "send")'
  PROVE  \/ pub'[w] = pub[w] /\ At(w, "send")
         \/ /\ At(w, "commit") /\ Store(w)
            /\ pub'[w].event = Numbered(pub[w].event, SequenceOf(pub[w].event))
         \/ /\ At(w, "commit") /\ StoreFails(w)
            /\ pub'[w].event = Numbered(pub[w].event, 0)
<1>1. pub'[w].pc = "send"
  BY DEF At
<1>2. pub'[w].pc # "idle"
  BY <1>1
<1>3. CASE pub'[w] = pub[w]
  BY <1>1, <1>3 DEF At
<1>4. pub'[w] # [pc |-> "commit", event |-> Numbered(pub[w].event, serial + 1)]
      /\ pub'[w].pc # "insert"
  BY <1>1
<1>5. CASE At(w, "commit") /\ Store(w)
           /\ pub'[w] = [pc |-> "send",
                         event |-> Numbered(pub[w].event, SequenceOf(pub[w].event))]
  BY <1>5
<1>6. CASE At(w, "commit") /\ StoreFails(w)
           /\ pub'[w] = [pc |-> "send", event |-> Numbered(pub[w].event, 0)]
  BY <1>6
<1> QED BY <1>2, <1>3, <1>4, <1>5, <1>6, PubMoves, Zenon

\* Numbers stay unique: one is drawn above all others, and becomes a row's or nobody's.
LEMMA SeqStep == TypeInv /\ SeqInv /\ [Next]_vars => SeqInv'
<1> SUFFICES ASSUME TypeInv, SeqInv, [Next]_vars PROVE SeqInv'
  OBVIOUS
<1>1. \A r \in Given : r \in Event /\ r.seq \in Nat /\ r.seq <= serial /\ r.seq > 0
  BY Fields DEF TypeInv, LogType, ClientType, SeqInv, Given
<1>2. \A w \in Workers : At(w, "commit") =>
        pub[w].event \in Event /\ pub[w].event.seq \in Nat /\ pub[w].event.seq <= serial
  BY Fields DEF TypeInv, PubType, ClientType, At
<1>3. \A r \in Given' : r.seq > 0
  BY <1>1, NewRow, NewGiven DEF SeqInv
<1>4. \A r, s \in Given' : r.seq = s.seq => r = s
  <2> SUFFICES ASSUME NEW r \in Given', NEW s \in Given', r.seq = s.seq PROVE r = s
    OBVIOUS
  <2>1. CASE r \in Given /\ s \in Given
    BY <2>1 DEF SeqInv
  <2>2. CASE r \notin Given
    BY <2>2, NewRow, NewGiven DEF SeqInv
  <2>3. CASE s \notin Given
    BY <2>3, NewRow, NewGiven DEF SeqInv
  <2> QED BY <2>1, <2>2, <2>3
<1>5. ASSUME NEW w \in Workers, At(w, "commit")'
      PROVE  pub'[w].event.seq > 0 /\ \A r \in Given' : r.seq # pub'[w].event.seq
  <2>1. CASE pub'[w] = pub[w] /\ At(w, "commit")
    <3>1. ASSUME NEW r \in Given', r \notin Given PROVE r.seq # pub[w].event.seq
      <4>1. PICK v \in Workers : /\ At(v, "commit") /\ r = pub[v].event
                                 /\ Store(v) \/ StoreFails(v)
        BY <3>1, NewRow, NewGiven
      <4>2. v # w
        <5> SUFFICES ASSUME v = w PROVE FALSE
          OBVIOUS
        <5>1. Sending(w, SequenceOf(pub[w].event)) \/ Sending(w, 0)
          BY <4>1 DEF Store, StoreFails
        <5> QED BY <5>1, <1>5 DEF Sending, At, TypeInv, PubType
      <4> QED BY <2>1, <4>1, <4>2 DEF SeqInv
    <3> QED BY <2>1, <3>1 DEF SeqInv
  <2>2. CASE TakeSequence(w) /\ pub'[w].event.seq = serial + 1
    <3>1. Given' = Given
      BY <2>2 DEF TakeSequence, table, Given
    <3> QED BY <1>1, <2>2, <3>1 DEF TypeInv, LogType
  <2> QED BY <1>5, <2>1, <2>2, CommitMoves
<1>6. ASSUME NEW v \in Workers, NEW w \in Workers, At(v, "commit")', At(w, "commit")', v # w
      PROVE  pub'[v].event.seq # pub'[w].event.seq
  <2>1. CASE /\ pub'[v] = pub[v] /\ At(v, "commit")
             /\ pub'[w] = pub[w] /\ At(w, "commit")
    BY <1>6, <2>1 DEF SeqInv
  <2>2. ASSUME NEW x \in Workers, NEW y \in Workers, pub'[x].event.seq = serial + 1,
               pub'[y] = pub[y], At(y, "commit")
        PROVE  pub'[x].event.seq # pub'[y].event.seq
    BY <1>2, <2>2 DEF TypeInv, LogType
  <2>3. ASSUME NEW x \in Workers, NEW y \in Workers, x # y, At(y, "commit")',
               \A z \in Workers : z # x => pub'[z] = pub[z]
        PROVE  pub'[y] = pub[y] /\ At(y, "commit")
    BY <2>3 DEF At
  <2> QED BY <1>6, <2>1, <2>2, <2>3, CommitMoves
<1>7. ASSUME NEW w \in Workers, At(w, "send")', pub'[w].event.seq > 0
      PROVE  pub'[w].event \in Given'
  <2>1. CASE pub'[w] = pub[w] /\ At(w, "send")
    BY <1>7, <2>1, RowsStay DEF SeqInv
  <2>2. CASE /\ At(w, "commit") /\ Store(w)
             /\ pub'[w].event = Numbered(pub[w].event, SequenceOf(pub[w].event))
    <3> DEFINE e == pub[w].event
    <3>1. e \in Event /\ e.seq \in Nat
      BY <1>2, <2>2
    <3>2. CASE Stored(e.branch, e.key)
      <4>1. SequenceOf(e) = 0
        BY <3>2 DEF SequenceOf
      <4> QED BY <1>7, <2>2, <3>1, <4>1, NumberedFields
    <3>3. CASE ~Stored(e.branch, e.key)
      <4>1. Numbered(e, SequenceOf(e)) = e
        BY <3>1, <3>3, NumberedFields DEF SequenceOf
      <4>2. store' = store \cup {e} /\ UNCHANGED deleted
        BY <2>2, <3>3 DEF Store, Insert
      <4> QED BY <2>2, <4>1, <4>2 DEF Given
    <3> QED BY <3>2, <3>3
  <2>3. CASE At(w, "commit") /\ pub'[w].event = Numbered(pub[w].event, 0)
    BY <1>2, <1>7, <2>3, NumberedFields
  <2> QED BY <1>7, <2>1, <2>2, <2>3, SendMoves
<1>8. SequenceIsTheRows'
  <2> SUFFICES ASSUME NEW i \in DOMAIN stream', stream'[i].seq > 0
               PROVE  stream'[i] \in Given'
    BY DEF SequenceIsTheRows
  <2>1. CASE i \in DOMAIN stream
    BY <2>1, MessagesStay, RowsStay DEF SeqInv, SequenceIsTheRows
  <2>2. CASE i \notin DOMAIN stream
    <3>1. PICK w \in Workers : At(w, "send") /\ stream'[i] = pub[w].event
      BY <2>2, NewMessage
    <3> QED BY <3>1, RowsStay DEF SeqInv
  <2> QED BY <2>1, <2>2
<1> QED BY <1>3, <1>4, <1>5, <1>6, <1>7, <1>8 DEF SeqInv, At

\* There are no rows at first.
LEMMA InitSeq == Init => SeqInv
BY DEF Init, SeqInv, SequenceIsTheRows, Given, At, Idle

\* A message never carries a sequence number that is not its own row's, be the row
\* there or deleted since (MeshPublisher.Publish, EventStore.Insert,
\* cleanupBranchResources): SequenceIsTheRows always holds.
THEOREM SequenceTheRows == Spec => []SequenceIsTheRows
<1>1. SeqInv => SequenceIsTheRows
  BY DEF SeqInv
<1> QED BY <1>1, InitType, TypeStep, InitSeq, SeqStep, PTL DEF Spec

-----------------------------------------------------------------------------
(* Rows and messages. *)

\* A row is broadcast by the worker that stored it, or lost.
LEMMA BroadcastStep == TypeInv /\ StoredIsBroadcast /\ [Next]_vars => StoredIsBroadcast'
<1> SUFFICES ASSUME TypeInv, StoredIsBroadcast, [Next]_vars, NEW r \in store'
             PROVE  \/ OnStream(r.branch, r.key)'
                    \/ \E w \in Workers : At(w, "send")' /\ Named(pub'[w].event) = Named(r)
                    \/ Named(r) \in lost'
  BY DEF StoredIsBroadcast, At, Named
<1>1. CASE r \notin store
  <2>1. PICK w \in Workers : /\ At(w, "commit") /\ r = pub[w].event
                             /\ Store(w) \/ StoreFails(w)
    BY <1>1, NewRow
  <2>2. r \in Event
    BY <1>1, NewRow
  <2>3. PICK n \in Nat : Sending(w, n)
    <3>1. SequenceOf(r) \in Nat
      BY <2>2, Fields DEF SequenceOf
    <3> QED BY <2>1, <3>1 DEF Store, StoreFails
  <2>4. pub'[w].pc = "send" /\ pub'[w].event = Numbered(r, n)
    BY <2>1, <2>3 DEF Sending, TypeInv, PubType
  <2> QED BY <2>2, <2>4, NumberedFields DEF At
<1>2. CASE r \in store
  <2>1. CASE OnStream(r.branch, r.key)
    BY <2>1, MessagesStay
  <2>2. CASE Named(r) \in lost
    BY <2>2, LostStays
  <2>3. ASSUME NEW w \in Workers, At(w, "send"), Named(pub[w].event) = Named(r)
        PROVE  \/ OnStream(r.branch, r.key)' \/ Named(r) \in lost'
               \/ At(w, "send")' /\ Named(pub'[w].event) = Named(r)
    <3>1. PICK e : e = pub[w].event
      OBVIOUS
    <3>2. e.branch = r.branch /\ e.key = r.key /\ Named(e) = Named(r)
      BY <2>3, <3>1 DEF Named
    <3>3. CASE pub'[w] = pub[w]
      BY <2>3, <3>3 DEF At
    <3>4. CASE Named(e) \in lost'
      BY <3>2, <3>4
    <3>5. CASE OnStream(e.branch, e.key)'
      BY <3>2, <3>5
    <3> QED BY <2>3, <3>1, <3>3, <3>4, <3>5, SendEnds
  <2> QED BY <1>2, <2>1, <2>2, <2>3 DEF StoredIsBroadcast
<1> QED BY <1>1, <1>2

\* A stored event is broadcast unless its broadcast failed or a restart came between
\* the two (MeshPublisher.Publish): StoredIsBroadcast always holds.
THEOREM StoredBroadcast == Spec => []StoredIsBroadcast
<1>1. Init => StoredIsBroadcast
  BY DEF Init, StoredIsBroadcast
<1> QED BY <1>1, InitType, TypeStep, BroadcastStep, PTL DEF Spec

-----------------------------------------------------------------------------
(* Copies. *)

\* The event is a copy of one that was published for another branch.
OfOriginal(e) ==
  \E i \in DOMAIN stream :
    /\ stream[i].kind = "api" /\ stream[i].fact = e.fact /\ stream[i].branch # e.branch
    /\ e.key = CopyKey(stream[i].id, e.branch)

KeyOfKind(e) ==
  /\ e.kind = "api" => e.key = ContentKey(e.fact)
  /\ e.kind = "copy" => OfOriginal(e)

KeyInv ==
  /\ \A r \in store : r.kind # "agent" /\ KeyOfKind(r)
  /\ \A i \in DOMAIN stream : /\ KeyOfKind(stream[i])
                              /\ stream[i].kind = "agent" => stream[i].key = AgentKey(stream[i].id)
  /\ \A w \in Workers : ~At(w, "idle") =>
       pub[w].event.kind # "agent" /\ KeyOfKind(pub[w].event)
  /\ handler.pc # "idle" => \E i \in DOMAIN stream : handler.event = stream[i]
  /\ handler.pc = "copying" =>
       ToBeCopied(handler.event) /\ handler.event.branch \notin handler.todo

\* While JetStream forgets nothing, every message has an id of its own.
WindowInv ==
  ~forgotten => /\ \A i \in DOMAIN stream : stream[i].key \in window
                /\ \A i, j \in DOMAIN stream : stream[i].key = stream[j].key => i = j

\* What becomes of the callback.
LEMMA HandlerMoves ==
  ASSUME TypeInv, [Next]_vars
  PROVE  \/ UNCHANGED handler
         \/ handler' = Waiting /\ UNCHANGED pub /\ (handler.pc = "got" \/ Copied)
         \/ Crash /\ handler' = Waiting
         \/ \E i \in DOMAIN stream : Deliver(i)
         \/ FindBranches
         \/ \E b \in Branches : Copy(b)
BY Kinds, Zenon
   DEF AgentPublish, Post, TakeSequence, Store, StoreFails, Send, SendTimesOut, SendFails,
       WindowCloses, StartListening, Ignore, Copies, Acknowledge, FindBranchesFails,
       CopiesLate, Replay, Subscribe, SubscribeFails, Forward, Drop, Disconnect,
       DeleteRows, ReplayFails, Crash,
       propagation, vars

\* An original stays on the stream, so that a copy's key stays right.
LEMMA KeyStays ==
  ASSUME TypeInv, [Next]_vars, NEW e, KeyOfKind(e)
  PROVE  KeyOfKind(e)'
BY MessagesStay DEF KeyOfKind, OfOriginal

\* Numbering an event leaves its key right.
LEMMA KeyOfNumbered ==
  ASSUME NEW e \in Event, NEW n \in Nat, KeyOfKind(e)
  PROVE  KeyOfKind(Numbered(e, n))
BY NumberedFields DEF KeyOfKind, OfOriginal

\* The callback's message is on the stream; what it copies, it may.
LEMMA HandlerKey ==
  ASSUME TypeInv, KeyInv, [Next]_vars
  PROVE  /\ handler'.pc # "idle" => \E i \in DOMAIN stream' : handler'.event = stream'[i]
         /\ handler'.pc = "copying" =>
              ToBeCopied(handler'.event) /\ handler'.event.branch \notin handler'.todo
<1>1. ASSUME handler'.event = handler.event, handler.pc # "idle"
      PROVE  \E i \in DOMAIN stream' : handler'.event = stream'[i]
  BY <1>1, MessagesStay DEF KeyInv
<1>2. CASE UNCHANGED handler
  BY <1>1, <1>2 DEF KeyInv
<1>3. CASE handler' = Waiting
  BY <1>3 DEF Waiting
<1>4. ASSUME NEW i \in DOMAIN stream, Deliver(i)
      PROVE  handler'.pc = "got" /\ handler'.event = stream[i]
  BY <1>4 DEF Deliver
<1>5. CASE FindBranches
  <2>1. /\ handler'.event = handler.event /\ handler.pc = "got" /\ ToBeCopied(handler.event)
        /\ handler.event.branch \notin handler'.todo
    BY <1>5 DEF FindBranches, TypeInv, ConsumerType
  <2> QED BY <1>1, <2>1
<1>6. ASSUME NEW b \in Branches, Copy(b)
      PROVE  /\ handler.pc = "copying" /\ handler'.event = handler.event
             /\ handler'.todo \subseteq handler.todo
  BY <1>6 DEF Copy, TypeInv, ConsumerType
<1>7. CASE \E b \in Branches : Copy(b)
  <2>1. /\ handler.pc = "copying" /\ handler'.event = handler.event
        /\ handler'.todo \subseteq handler.todo
    BY <1>6, <1>7
  <2>2. ToBeCopied(handler.event) /\ handler.event.branch \notin handler.todo
    BY <2>1 DEF KeyInv
  <2> QED BY <1>1, <2>1, <2>2
<1>8. CASE \E i \in DOMAIN stream : Deliver(i)
  BY <1>4, <1>8, MessagesStay
<1> QED BY <1>2, <1>3, <1>5, <1>7, <1>8, HandlerMoves

\* What a worker publishes has the key of its kind.
LEMMA WorkerKey ==
  ASSUME TypeInv, KeyInv, [Next]_vars, NEW w \in Workers, pub'[w].pc # "idle"
  PROVE  \E e \in Event : e = pub'[w].event /\ e.kind # "agent" /\ KeyOfKind(e)
<1>0. pub[w].pc # "idle" =>
        pub[w].event \in Event /\ pub[w].event.kind # "agent" /\ KeyOfKind(pub[w].event)
  BY DEF KeyInv, At, TypeInv, PubType
<1>1. CASE pub'[w] = pub[w]
  BY <1>0, <1>1
<1>2. ASSUME NEW n \in Nat, pub[w].pc # "idle", pub'[w].event = Numbered(pub[w].event, n)
      PROVE  \E e \in Event : e = pub'[w].event /\ e.kind # "agent" /\ KeyOfKind(e)
  BY <1>0, <1>2, NumberedFields, KeyOfNumbered
<1>3. CASE At(w, "insert") /\ pub'[w] = [pc |-> "commit",
                                         event |-> Numbered(pub[w].event, serial + 1)]
  BY <1>2, <1>3 DEF At, TypeInv, LogType
<1>4. CASE At(w, "commit") /\ pub'[w] = [pc |-> "send",
              event |-> Numbered(pub[w].event, SequenceOf(pub[w].event))]
  <2>1. SequenceOf(pub[w].event) \in Nat
    BY <1>0, <1>4, Fields DEF SequenceOf, At
  <2> QED BY <1>2, <1>4, <2>1 DEF At
<1>5. CASE At(w, "commit") /\ pub'[w] = [pc |-> "send", event |-> Numbered(pub[w].event, 0)]
  BY <1>2, <1>5 DEF At
<1>6. ASSUME NEW f \in Facts, NEW b \in Branches,
             pub'[w].event = NewEvent(f, b, ContentKey(f), "api")
      PROVE  \E e \in Event : e = pub'[w].event /\ e.kind # "agent" /\ KeyOfKind(e)
  BY <1>6, NewEventFields, KeyTypes DEF TypeInv, KeyOfKind
<1>7. ASSUME NEW b \in handler.todo, handler.pc = "copying",
             pub'[w].event = NewEvent(handler.event.fact, b,
                                      CopyKey(handler.event.id, b), "copy")
      PROVE  \E e \in Event : e = pub'[w].event /\ e.kind # "agent" /\ KeyOfKind(e)
  <2>1. handler.event \in Event /\ b \in Branches
    BY <1>7 DEF TypeInv, ConsumerType
  <2>2. handler.event.kind = "api" /\ handler.event.branch # b
    BY <1>7 DEF KeyInv, ToBeCopied
  <2>3. PICK i \in DOMAIN stream : handler.event = stream[i]
    BY <1>7 DEF KeyInv
  <2> DEFINE e == pub'[w].event
  <2>4. /\ e \in Event /\ e.fact = handler.event.fact /\ e.branch = b /\ e.kind = "copy"
        /\ e.key = CopyKey(handler.event.id, b)
    BY <1>7, <2>1, Fields, NewEventFields, KeyTypes DEF TypeInv
  <2> QED BY <2>2, <2>3, <2>4 DEF KeyOfKind, OfOriginal
<1> QED BY <1>1, <1>3, <1>4, <1>5, <1>6, <1>7, PubMoves, Zenon

\* Keys stay right: copies are made of originals for other branches only.
LEMMA KeyStep == TypeInv /\ KeyInv /\ [Next]_vars => KeyInv'
<1> SUFFICES ASSUME TypeInv, KeyInv, [Next]_vars PROVE KeyInv'
  OBVIOUS
<1>1. ASSUME NEW r \in store' PROVE r.kind # "agent" /\ KeyOfKind(r)'
  <2>1. r.kind # "agent" /\ KeyOfKind(r)
    <3>1. CASE r \in store
      BY <3>1 DEF KeyInv
    <3>2. CASE r \notin store
      <4>1. PICK w \in Workers : At(w, "commit") /\ r = pub[w].event
        BY <3>2, NewRow
      <4> QED BY <4>1 DEF KeyInv, At
    <3> QED BY <3>1, <3>2
  <2> QED BY <2>1, KeyStays
<1>2. ASSUME NEW i \in DOMAIN stream', NEW m, m = stream'[i]
      PROVE  KeyOfKind(m)' /\ (m.kind = "agent" => m.key = AgentKey(m.id))
  <2>1. KeyOfKind(m) /\ (m.kind = "agent" => m.key = AgentKey(m.id))
    <3>1. CASE i \in DOMAIN stream
      BY <1>2, <3>1, MessagesStay DEF KeyInv
    <3>2. ASSUME NEW w \in Workers, At(w, "send"), m = pub[w].event
          PROVE  KeyOfKind(m) /\ m.kind # "agent"
      BY <3>2 DEF KeyInv, At
    <3>3. m.kind = "agent" => KeyOfKind(m)
      BY DEF KeyOfKind
    <3> QED BY <1>2, <3>1, <3>2, <3>3, NewMessage
  <2> QED BY <2>1, KeyStays
<1>3. ASSUME NEW w \in Workers, pub'[w].pc # "idle"
      PROVE  \E e : e = pub'[w].event /\ e.kind # "agent" /\ KeyOfKind(e)'
  BY <1>3, WorkerKey, KeyStays
<1>4. \A i \in DOMAIN stream' : KeyOfKind(stream[i])'
  BY <1>2
<1>5. \A w \in Workers : pub'[w].pc # "idle" =>
         pub'[w].event.kind # "agent" /\ KeyOfKind(pub[w].event)'
  BY <1>3
<1>6. \A i \in DOMAIN stream' : stream'[i].kind = "agent" => stream'[i].key = AgentKey(stream'[i].id)
  BY <1>2
<1> QED BY <1>1, <1>4, <1>5, <1>6, HandlerKey DEF KeyInv, At, ToBeCopied

\* Nothing is published at first.
LEMMA InitKey == Init => KeyInv
BY DEF Init, KeyInv, At, Idle, Waiting

\* Propagation copies no copies (propagateAcrossBranches): CopiesAreOfOriginals
\* always holds.
THEOREM CopiesOfOriginals == Spec => []CopiesAreOfOriginals
<1>1. KeyInv => CopiesAreOfOriginals
  BY DEF KeyInv, KeyOfKind, OfOriginal, CopiesAreOfOriginals
<1> QED BY <1>1, InitType, TypeStep, InitKey, KeyStep, PTL DEF Spec

\* What becomes of the window: only the end of an id's time takes it out.
LEMMA WindowMoves ==
  ASSUME TypeInv, [Next]_vars
  PROVE  \/ UNCHANGED <<stream, window, forgotten>>
         \/ (\E e \in Event : Broadcast(e)) /\ UNCHANGED forgotten
         \/ UNCHANGED stream /\ forgotten'
<1>1. ASSUME NEW w \in Workers, Send(w) \/ SendTimesOut(w)
      PROVE  /\ pub[w].event \in Event /\ Broadcast(pub[w].event)
             /\ UNCHANGED bounds \/ Fault
  BY <1>1 DEF Send, SendTimesOut, At, TypeInv, PubType
<1>2. ASSUME NEW f \in Facts, NEW b \in Branches, AgentPublish(f, b)
      PROVE  LET e == NewEvent(f, b, AgentKey(NewId), "agent") IN
             e \in Event /\ Broadcast(e) /\ UNCHANGED bounds
  BY <1>2, NewEventFields, KeyTypes DEF NewId, TypeInv, ConsumerType, AgentPublish
<1>3. ASSUME NEW key \in window, WindowCloses(key) PROVE UNCHANGED stream /\ forgotten'
  BY <1>3, Zenon DEF WindowCloses
<1>4. CASE \/ \E f \in Facts, b \in Branches, h \in Handlers : Post(h, f, b)
           \/ \E w \in Workers : TakeSequence(w) \/ Store(w) \/ StoreFails(w) \/ SendFails(w)
           \/ \E b \in Branches, facts \in SUBSET Facts : DeleteRows(b, facts)
           \/ \E o \in Orgs : StartListening(o)
           \/ \E i \in DOMAIN stream : Deliver(i)
           \/ Ignore \/ Copies \/ FindBranches \/ FindBranchesFails \/ CopiesLate
           \/ \E b \in Branches : Copy(b)
           \/ \E c \in Clients : \/ Replay(c) \/ ReplayFails(c) \/ Subscribe(c) \/ SubscribeFails(c)
                                 \/ Forward(c) \/ Drop(c) \/ Disconnect(c)
           \/ Crash \/ UNCHANGED vars
  <2>1. (UNCHANGED jetstream \/ UNCHANGED <<stream, window>>) /\ (UNCHANGED bounds \/ Fault)
    BY <1>4, Zenon
       DEF Post, TakeSequence, Store, StoreFails, SendFails, StartListening, Deliver,
           Ignore, Copies, FindBranches, FindBranchesFails, CopiesLate, Copy, Replay,
           Subscribe, SubscribeFails, Forward, Drop, Disconnect,
           DeleteRows, ReplayFails, Crash, vars
  <2> QED BY <2>1 DEF jetstream, bounds, Fault
<1>5. UNCHANGED bounds \/ Fault => UNCHANGED forgotten
  BY DEF bounds, Fault
<1> QED BY <1>1, <1>2, <1>3, <1>4, <1>5, Kinds, Zenon

\* An id within the window is not taken a second time.
LEMMA WindowStep == TypeInv /\ WindowInv /\ [Next]_vars => WindowInv'
<1> SUFFICES ASSUME TypeInv, WindowInv, [Next]_vars, ~forgotten'
             PROVE  /\ \A i \in DOMAIN stream' : stream'[i].key \in window'
                    /\ \A i, j \in DOMAIN stream' : stream'[i].key = stream'[j].key => i = j
  BY Zenon DEF WindowInv
<1>1. CASE UNCHANGED <<stream, window, forgotten>>
  <2>1. stream' = stream /\ window' = window /\ ~forgotten
    BY <1>1
  <2> QED BY <2>1, Zenon DEF WindowInv
<1>2. ASSUME NEW e \in Event, Broadcast(e), UNCHANGED forgotten
      PROVE  /\ \A i \in DOMAIN stream' : stream'[i].key \in window'
             /\ \A i, j \in DOMAIN stream' : stream'[i].key = stream'[j].key => i = j
  <2>1. /\ \A i \in DOMAIN stream : stream[i].key \in window
        /\ \A i, j \in DOMAIN stream : stream[i].key = stream[j].key => i = j
    BY <1>2, Zenon DEF WindowInv
  <2>2. window' = window \cup {e.key}
    BY <1>2 DEF Broadcast, MessageId
  <2>3. CASE e.key \in window
    <3>1. stream' = stream
      BY <1>2, <2>3 DEF Broadcast, MessageId
    <3> QED BY <2>1, <2>2, <3>1
  <2>4. CASE e.key \notin window
    <3>1. stream' = Append(stream, e)
      BY <1>2, <2>4 DEF Broadcast, MessageId
    <3> QED BY <2>1, <2>2, <2>4, <3>1 DEF TypeInv, LogType
  <2> QED BY <2>3, <2>4
<1> QED BY <1>1, <1>2, WindowMoves, Zenon

\* Requests sent again, messages delivered again and restarts make no second copy
\* while JetStream remembers the ids: CopiedOnce always holds.
THEOREM OneCopy == Spec => []CopiedOnce
<1>1. TypeInv /\ KeyInv /\ WindowInv => CopiedOnce
  <2> SUFFICES ASSUME TypeInv, KeyInv, WindowInv, ~forgotten,
                      NEW i \in DOMAIN stream, NEW j \in DOMAIN stream,
                      stream[i].kind = "copy", stream[j].kind = "copy",
                      stream[i].fact = stream[j].fact, stream[i].branch = stream[j].branch
               PROVE  i = j
    BY Zenon DEF CopiedOnce
  <2>1. \A k, l \in DOMAIN stream : stream[k].key = stream[l].key => k = l
    BY Zenon DEF WindowInv
  <2>2. PICK k \in DOMAIN stream :
          /\ stream[k].kind = "api" /\ stream[k].fact = stream[i].fact
          /\ stream[i].key = CopyKey(stream[k].id, stream[i].branch)
    BY DEF KeyInv, KeyOfKind, OfOriginal
  <2>3. PICK l \in DOMAIN stream :
          /\ stream[l].kind = "api" /\ stream[l].fact = stream[j].fact
          /\ stream[j].key = CopyKey(stream[l].id, stream[j].branch)
    BY DEF KeyInv, KeyOfKind, OfOriginal
  <2>4. stream[k].key = stream[l].key
    BY <2>2, <2>3 DEF KeyInv, KeyOfKind
  <2>5. k = l
    BY <2>1, <2>4
  <2> QED BY <2>1, <2>2, <2>3, <2>5
<1>2. Init => WindowInv
  BY DEF Init, WindowInv
<1> QED
  BY <1>1, <1>2, InitType, TypeStep, InitKey, KeyStep, WindowStep, PTL DEF Spec

-----------------------------------------------------------------------------
(* Acknowledgments. *)

Published(e) ==
  \/ \E i \in DOMAIN stream : e = stream[i]
  \/ \E w \in Workers : ~At(w, "idle") /\ e = pub[w].event

\* Events are known by their ids, and only those to be copied are owed branches.
IdInv ==
  /\ \A e, f : Published(e) /\ Published(f) /\ e.id = f.id =>
       e.kind = f.kind /\ e.fact = f.fact
  /\ \A id \in DOMAIN owed : owed[id] # {} =>
       \E i \in DOMAIN stream : stream[i].id = id /\ ToBeCopied(stream[i])

\* The event, or the same before it was numbered, was published before the step.
WasPublished(e) ==
  \E f : Published(f) /\ f.id = e.id /\ f.kind = e.kind /\ f.fact = e.fact

\* A published event's id is in use.
LEMMA PublishedIds ==
  ASSUME TypeInv, NEW e, Published(e)
  PROVE  e.id \in DOMAIN tries
BY DEF Published, TypeInv, ConsumerType

\* A step publishes at most one new event, under a new id.
LEMMA PublishedMoves ==
  ASSUME TypeInv, [Next]_vars
  PROVE  \E n : \A e : Published(e)' => WasPublished(e) \/ (e = n /\ n.id = Len(tries) + 1)
<1> DEFINE New(n) == \A e : Published(e)' =>
                       WasPublished(e) \/ (e = n /\ n.id = Len(tries) + 1)
<1>0. pub \in [Workers -> [pc : {"idle", "insert", "commit", "send"},
                          event : Event \cup {NoEvent}]]
  BY DEF TypeInv, PubType
<1>1. ASSUME NEW e, Published(e) PROVE WasPublished(e)
  BY <1>1 DEF WasPublished
<1>2. ASSUME NEW w \in Workers, NEW e \in Event, Publish(w, e), UNCHANGED stream,
             e.id = Len(tries) + 1
      PROVE  \E n : New(n)
  <2>1. \A f : Published(f)' => Published(f) \/ f = e
    BY <1>0, <1>2 DEF Publish, Published, At
  <2> QED BY <1>1, <1>2, <2>1
<1>3. ASSUME NEW f \in Facts, NEW b \in Branches, NEW h \in Handlers, Post(h, f, b)
      PROVE  \E n : New(n)
  <2> DEFINE e == NewEvent(f, b, ContentKey(f), "api")
  <2>1. e \in Event /\ e.id = Len(tries) + 1
    BY NewEventFields, KeyTypes DEF TypeInv
  <2>2. Publish(h, e) /\ UNCHANGED stream /\ h \in Workers
    BY <1>3 DEF Post, jetstream, Workers
  <2> QED BY <1>2, <2>1, <2>2
<1>4. ASSUME NEW b \in Branches, Copy(b) PROVE \E n : New(n)
  <2> DEFINE e == NewEvent(handler.event.fact, b, CopyKey(handler.event.id, b), "copy")
  <2>1. handler.event \in Event
    BY <1>4 DEF Copy, TypeInv, ConsumerType
  <2>2. e \in Event /\ e.id = Len(tries) + 1
    BY <2>1, Fields, NewEventFields, KeyTypes DEF TypeInv
  <2>3. Publish(Propagator, e) /\ UNCHANGED stream /\ Propagator \in Workers
    BY <1>4 DEF Copy, jetstream, Workers
  <2> QED BY <1>2, <2>2, <2>3
<1>5. ASSUME NEW f \in Facts, NEW b \in Branches, AgentPublish(f, b) PROVE \E n : New(n)
  <2> DEFINE e == NewEvent(f, b, AgentKey(NewId), "agent")
  <2>1. e \in Event /\ e.id = Len(tries) + 1
    BY NewEventFields, KeyTypes DEF NewId, TypeInv, ConsumerType
  <2>2. Broadcast(e) /\ UNCHANGED pub
    BY <1>5 DEF AgentPublish
  <2>3. \A g : Published(g)' => Published(g) \/ g = e
    BY <2>1, <2>2, BroadcastType DEF TypeInv, Published, At
  <2> QED BY <1>1, <2>1, <2>3
<1>6. ASSUME NEW w \in Workers, Send(w) \/ SendTimesOut(w)
      PROVE  \A e : Published(e)' => Published(e)
  <2>1. Broadcast(pub[w].event) /\ Return(w) /\ pub[w].event \in Event /\ ~At(w, "idle")
    BY <1>0, <1>6 DEF Send, SendTimesOut, TypeInv, PubType, At
  <2>2. \A i \in DOMAIN stream' : Published(stream'[i])
    BY <2>1, BroadcastType DEF TypeInv, Published
  <2>3. \A v \in Workers : pub'[v].pc # "idle" => pub'[v] = pub[v]
    BY <1>0, <2>1 DEF Return, Idle
  <2> QED BY <2>2, <2>3 DEF Published, At
<1>7. ASSUME UNCHANGED stream, NEW w \in Workers, ~At(w, "idle"), NEW n \in Nat,
             pub'[w].event = Numbered(pub[w].event, n),
             \A v \in Workers : v # w => pub'[v] = pub[v]
      PROVE  \A e : Published(e)' => WasPublished(e)
  <2>1. pub[w].event \in Event /\ Published(pub[w].event)
    BY <1>7 DEF Published, TypeInv, PubType, At
  <2>2. WasPublished(Numbered(pub[w].event, n))
    BY <2>1, NumberedFields DEF WasPublished
  <2> SUFFICES ASSUME NEW e, Published(e)' PROVE WasPublished(e)
    OBVIOUS
  <2>3. Published(e) \/ e = Numbered(pub[w].event, n)
    BY <1>7 DEF Published, At
  <2> QED BY <1>1, <2>2, <2>3
<1>8. ASSUME NEW w \in Workers, TakeSequence(w)
      PROVE  \A e : Published(e)' => WasPublished(e)
  <2>1. /\ UNCHANGED stream /\ ~At(w, "idle") /\ serial + 1 \in Nat
        /\ pub'[w].event = Numbered(pub[w].event, serial + 1)
        /\ \A v \in Workers : v # w => pub'[v] = pub[v]
    BY <1>0, <1>8 DEF TakeSequence, jetstream, At, TypeInv, LogType
  <2> QED BY <1>7, <2>1
<1>9. ASSUME NEW w \in Workers, Store(w) \/ StoreFails(w)
      PROVE  \A e : Published(e)' => WasPublished(e)
  <2>1. UNCHANGED stream /\ ~At(w, "idle") /\ pub[w].event \in Event
    BY <1>9 DEF Store, StoreFails, jetstream, At, TypeInv, PubType
  <2>2. SequenceOf(pub[w].event) \in Nat
    BY <2>1, Fields DEF SequenceOf
  <2>3. PICK n \in Nat : Sending(w, n)
    BY <1>9, <2>2 DEF Store, StoreFails
  <2>4. /\ pub'[w].event = Numbered(pub[w].event, n)
        /\ \A v \in Workers : v # w => pub'[v] = pub[v]
    BY <1>0, <2>3 DEF Sending
  <2> QED BY <1>7, <2>1, <2>4
<1>10. ASSUME NEW w \in Workers, SendFails(w)
       PROVE  \A e : Published(e)' => Published(e)
  <2>1. UNCHANGED stream /\ \A v \in Workers : pub'[v].pc # "idle" => pub'[v] = pub[v]
    BY <1>0, <1>10 DEF SendFails, Return, Idle, jetstream
  <2> QED BY <2>1 DEF Published, At
<1>11. CASE Crash
  <2>1. UNCHANGED stream /\ \A v \in Workers : pub'[v].pc = "idle"
    BY <1>11 DEF Crash, Idle, jetstream
  <2>2. \A e : Published(e)' => Published(e)
    BY <2>1 DEF Published, At
  <2> QED BY <1>1, <2>2
<1>12. ASSUME UNCHANGED pub, UNCHANGED jetstream \/ UNCHANGED stream
       PROVE  \A e : Published(e)' => WasPublished(e)
  <2>1. UNCHANGED <<pub, stream>>
    BY <1>12 DEF jetstream
  <2>2. \A e : Published(e)' => Published(e)
    BY <2>1 DEF Published, At
  <2> QED BY <1>1, <2>2
<1>13. CASE \/ \E key \in window : WindowCloses(key)
            \/ \E b \in Branches, facts \in SUBSET Facts : DeleteRows(b, facts)
            \/ \E o \in Orgs : StartListening(o)
            \/ \E i \in DOMAIN stream : Deliver(i)
            \/ Ignore \/ Copies \/ FindBranches \/ FindBranchesFails \/ CopiesLate
            \/ \E c \in Clients :
                 \/ Replay(c) \/ ReplayFails(c) \/ Subscribe(c) \/ SubscribeFails(c)
                 \/ Forward(c) \/ Drop(c) \/ Disconnect(c)
            \/ UNCHANGED vars
  <2>1. UNCHANGED pub /\ (UNCHANGED jetstream \/ UNCHANGED stream)
    BY <1>13, Zenon
       DEF WindowCloses, StartListening, Deliver, Ignore, Copies, FindBranches,
           FindBranchesFails, CopiesLate, Replay, Subscribe, SubscribeFails, Forward, Drop,
           Disconnect, DeleteRows, ReplayFails, vars
  <2> QED BY <1>12, <2>1
<1>14. CASE \/ \E w \in Workers : Send(w) \/ SendTimesOut(w)
            \/ \E w \in Workers : TakeSequence(w) \/ Store(w) \/ StoreFails(w) \/ SendFails(w)
  <2>1. \A e : Published(e)' => WasPublished(e)
    BY <1>1, <1>6, <1>8, <1>9, <1>10, <1>14, Zenon
  <2> QED BY <2>1
<1> HIDE DEF New
<1>15. \E n : New(n)
  BY <1>3, <1>4, <1>5, <1>11, <1>13, <1>14, Kinds, Zenon DEF New
<1> QED BY <1>15 DEF New

\* Only the search for branches changes what is owed.
LEMMA OwedMoves ==
  ASSUME TypeInv, [Next]_vars, NEW id \in DOMAIN owed', owed'[id] # {}
  PROVE  \/ id \in DOMAIN owed /\ owed'[id] = owed[id]
         \/ FindBranches /\ id = handler.event.id
<1>1. CASE UNCHANGED owed
  BY <1>1
<1>2. CASE UseId
  BY <1>2 DEF UseId, TypeInv, ConsumerType
<1>3. CASE FindBranches
  <2>1. PICK branches : owed' = [owed EXCEPT ![handler.event.id] = branches]
    BY <1>3 DEF FindBranches
  <2> QED BY <1>3, <2>1
<1>4. CASE UNCHANGED propagation
  BY <1>4, <1>1 DEF propagation
<1> QED
  BY <1>1, <1>2, <1>3, <1>4, Kinds, Zenon
     DEF AgentPublish, Post, TakeSequence, Store, StoreFails, Send, SendTimesOut, SendFails,
         WindowCloses, StartListening, Deliver, Ignore, Copies, FindBranchesFails,
         CopiesLate, Copy, Replay, Subscribe, SubscribeFails, Forward, Drop, Disconnect,
         DeleteRows, ReplayFails,
         Crash, vars

\* Ids stay unique, and only events to be copied are owed branches.
LEMMA IdStep == TypeInv /\ KeyInv /\ IdInv /\ [Next]_vars => IdInv'
<1> SUFFICES ASSUME TypeInv, KeyInv, IdInv, [Next]_vars PROVE IdInv'
  OBVIOUS
<1>1. \A e, f : Published(e)' /\ Published(f)' /\ e.id = f.id =>
        e.kind = f.kind /\ e.fact = f.fact
  <2>1. PICK n : \A e : Published(e)' =>
                   WasPublished(e) \/ (e = n /\ n.id = Len(tries) + 1)
    BY PublishedMoves
  <2>2. \A e : WasPublished(e) => e.id \in DOMAIN tries
    BY PublishedIds DEF WasPublished
  <2>3. Len(tries) + 1 \notin DOMAIN tries
    BY DEF TypeInv, ConsumerType
  <2>4. \A e, f : WasPublished(e) /\ WasPublished(f) /\ e.id = f.id =>
          e.kind = f.kind /\ e.fact = f.fact
    BY DEF WasPublished, IdInv
  <2> SUFFICES ASSUME NEW e, NEW f, Published(e)', Published(f)', e.id = f.id
               PROVE  e.kind = f.kind /\ e.fact = f.fact
    OBVIOUS
  <2>5. CASE WasPublished(e) /\ WasPublished(f)
    BY <2>4, <2>5
  <2>6. e = f \/ (WasPublished(e) /\ WasPublished(f))
    BY <2>1, <2>2, <2>3
  <2> QED BY <2>5, <2>6
<1>2. ASSUME NEW id \in DOMAIN owed', owed'[id] # {}
      PROVE  \E i \in DOMAIN stream' : stream'[i].id = id /\ ToBeCopied(stream'[i])
  <2>1. \E i \in DOMAIN stream : stream[i].id = id /\ ToBeCopied(stream[i])
    <3>1. CASE FindBranches /\ id = handler.event.id
      BY <3>1 DEF FindBranches, KeyInv
    <3> QED BY <1>2, <3>1, OwedMoves DEF IdInv
  <2> QED BY <2>1, MessagesStay
<1> QED BY <1>1, <1>2 DEF IdInv, ToBeCopied

\* The branch has its copy, or the copy could not be published.
HasCopy(id, b) == OnStream(b, CopyKey(id, b)) \/ <<b, CopyKey(id, b)>> \in lost

BeingCopied(id, b) ==
  /\ ~At(Propagator, "idle")
  /\ pub[Propagator].event.branch = b /\ pub[Propagator].event.key = CopyKey(id, b)

AckInv ==
  /\ handler.pc # "idle" => handler.event.id \notin acked
  /\ handler.pc # "copying" => At(Propagator, "idle")
  /\ handler.pc = "copying" => \A b \in owed[handler.event.id] :
       b \in handler.todo \/ BeingCopied(handler.event.id, b) \/ HasCopy(handler.event.id, b)
  /\ AckedIsCopied

\* A copy stays where it is.
LEMMA HasCopyStays ==
  ASSUME TypeInv, [Next]_vars, NEW id, NEW b, HasCopy(id, b)
  PROVE  HasCopy(id, b)'
BY MessagesStay, LostStays DEF HasCopy

\* A worker becomes idle by ending its broadcast, or in a restart.
LEMMA WorkerIdles ==
  ASSUME TypeInv, [Next]_vars, NEW w \in Workers, ~At(w, "idle"), At(w, "idle")'
  PROVE  At(w, "send") \/ Crash
<1>0. pub \in [Workers -> [pc : {"idle", "insert", "commit", "send"},
                          event : Event \cup {NoEvent}]]
      /\ pub[w].pc # "idle" /\ pub'[w].pc = "idle"
  BY DEF TypeInv, PubType, At
<1>1. ASSUME NEW v \in Workers, TakeSequence(v) PROVE FALSE
  BY <1>0, <1>1 DEF TakeSequence
<1>2. ASSUME NEW v \in Workers, Store(v) \/ StoreFails(v) PROVE FALSE
  BY <1>0, <1>2 DEF Store, StoreFails, Sending
<1>3. ASSUME NEW v \in Workers, Send(v) \/ SendTimesOut(v) \/ SendFails(v)
      PROVE  At(w, "send")
  BY <1>0, <1>3 DEF Send, SendTimesOut, SendFails, Return, At
<1>4. ASSUME NEW f \in Facts, NEW b \in Branches, NEW h \in Handlers, Post(h, f, b)
      PROVE  FALSE
  BY <1>0, <1>4 DEF Post, Publish
<1>5. ASSUME NEW b \in Branches, Copy(b) PROVE FALSE
  BY <1>0, <1>5 DEF Copy, Publish
<1>6. ~UNCHANGED pub
  BY <1>0
<1> QED
  BY <1>1, <1>2, <1>3, <1>4, <1>5, <1>6, Kinds, Zenon
     DEF vars, AgentPublish, WindowCloses, StartListening, Deliver, Ignore, Copies,
         FindBranches, FindBranchesFails, CopiesLate, Replay, Subscribe, SubscribeFails,
         Forward, Drop, Disconnect, DeleteRows, ReplayFails

\* A copy under way arrives, is lost, or is forgotten in a restart with the callback.
LEMMA BeingCopiedMoves ==
  ASSUME TypeInv, [Next]_vars, NEW id, NEW b, BeingCopied(id, b)
  PROVE  BeingCopied(id, b)' \/ HasCopy(id, b)' \/ Crash
<1>0. Propagator \in Workers
  BY DEF Workers
<1>1. PICK e : e = pub[Propagator].event
  OBVIOUS
<1>2. e \in Event /\ e.branch = b /\ e.key = CopyKey(id, b)
  BY <1>0, <1>1 DEF BeingCopied, TypeInv, PubType, At
<1>3. CASE At(Propagator, "idle")'
  <2>1. CASE At(Propagator, "send")
    <3>1. pub'[Propagator] # pub[Propagator]
      BY <1>3, <2>1 DEF At
    <3>2. OnStream(e.branch, e.key)' \/ Named(e) \in lost'
      BY <1>0, <1>1, <2>1, <3>1, SendEnds
    <3>3. OnStream(b, CopyKey(id, b))' \/ <<b, CopyKey(id, b)>> \in lost'
      BY <1>2, <3>2 DEF Named
    <3> QED BY <3>3 DEF HasCopy
  <2> QED BY <1>0, <1>3, <2>1, WorkerIdles DEF BeingCopied
<1>4. CASE ~At(Propagator, "idle")'
  <2>1. pub'[Propagator].pc # "idle" /\ pub[Propagator].pc # "idle"
    BY <1>4 DEF At, BeingCopied
  <2>2. CASE pub'[Propagator] = pub[Propagator]
    BY <1>1, <1>2, <1>4, <2>2 DEF BeingCopied
  <2>3. ASSUME NEW n \in Nat, pub'[Propagator].event = Numbered(e, n)
        PROVE  BeingCopied(id, b)'
    BY <1>2, <1>4, <2>3, NumberedFields DEF BeingCopied
  <2>4. CASE pub'[Propagator] = [pc |-> "commit",
                                 event |-> Numbered(pub[Propagator].event, serial + 1)]
    BY <1>1, <2>3, <2>4 DEF TypeInv, LogType
  <2>5. CASE pub'[Propagator] =
               [pc |-> "send", event |-> Numbered(pub[Propagator].event,
                                                  SequenceOf(pub[Propagator].event))]
    <3>1. SequenceOf(e) \in Nat
      BY <1>2, Fields DEF SequenceOf
    <3> QED BY <1>1, <2>3, <2>5, <3>1
  <2>6. CASE pub'[Propagator] = [pc |-> "send", event |-> Numbered(pub[Propagator].event, 0)]
    BY <1>1, <2>3, <2>6
  <2> QED BY <1>0, <2>1, <2>2, <2>4, <2>5, <2>6, PubMoves, Zenon
<1> QED BY <1>3, <1>4

\* A message is acknowledged at the end of its callback.
LEMMA AckedMoves ==
  ASSUME TypeInv, [Next]_vars
  PROVE  \/ UNCHANGED acked
         \/ /\ acked' = acked \cup {handler.event.id} /\ handler' = Waiting
            /\ UNCHANGED <<owed, pub>>
            /\ (handler.pc = "got" /\ ~ToBeCopied(handler.event)) \/ Copied
<1>1. CASE UNCHANGED consumer
  BY <1>1 DEF consumer
<1>2. CASE Ignore \/ Copies
  BY <1>2 DEF Ignore, Copies, Acknowledge
<1> QED
  BY <1>1, <1>2, Kinds, Zenon
     DEF AgentPublish, Post, TakeSequence, Store, StoreFails, Send, SendTimesOut, SendFails,
         WindowCloses, StartListening, Deliver, FindBranches, FindBranchesFails,
         CopiesLate, Copy, Replay, Subscribe, SubscribeFails, Forward, Drop, Disconnect,
         DeleteRows, ReplayFails,
         Crash, vars

\* A message is acknowledged when no branch is owed anything more.
LEMMA AckedStep ==
  TypeInv /\ KeyInv /\ IdInv /\ AckInv /\ [Next]_vars => AckedIsCopied'
<1> SUFFICES ASSUME TypeInv, KeyInv, IdInv, AckInv, [Next]_vars,
                    NEW id \in acked', NEW b \in owed'[id]
             PROVE  HasCopy(id, b)'
  BY DEF AckedIsCopied, HasCopy
<1>1. CASE id \in acked
  <2>1. id \in DOMAIN owed' /\ owed'[id] # {}
    BY TriesStep DEF TypeInv, ConsumerType
  <2>2. ~(FindBranches /\ id = handler.event.id)
    BY <1>1 DEF FindBranches, AckInv
  <2>3. HasCopy(id, b)
    BY <1>1, <2>1, <2>2, OwedMoves DEF AckInv, AckedIsCopied, HasCopy
  <2> QED BY <2>3, HasCopyStays
<1>2. CASE id \notin acked
  <2>1. /\ id = handler.event.id /\ UNCHANGED owed
        /\ (handler.pc = "got" /\ ~ToBeCopied(handler.event)) \/ Copied
    BY <1>2, AckedMoves
  <2>2. CASE handler.pc = "got" /\ ~ToBeCopied(handler.event)
    <3>1. PICK i \in DOMAIN stream : handler.event = stream[i]
      BY <2>2 DEF KeyInv
    <3>2. id \in DOMAIN owed /\ owed[id] # {}
      BY <2>1, <2>2 DEF TypeInv, ConsumerType
    <3>3. PICK j \in DOMAIN stream : stream[j].id = id /\ ToBeCopied(stream[j])
      BY <3>2 DEF IdInv
    <3>4. stream[i].kind = stream[j].kind /\ stream[i].fact = stream[j].fact
      BY <2>1, <3>1, <3>3 DEF IdInv, Published
    <3> QED BY <2>2, <3>1, <3>3, <3>4 DEF ToBeCopied
  <2>3. CASE Copied
    <3>1. HasCopy(id, b)
      BY <2>1, <2>3 DEF Copied, AckInv, BeingCopied
    <3> QED BY <3>1, HasCopyStays
  <2> QED BY <2>1, <2>2, <2>3
<1> QED BY <1>1, <1>2

\* While the callback copies, a branch is still to do, under way or done.
LEMMA CopyingStep ==
  ASSUME TypeInv, AckInv, [Next]_vars, handler'.pc = "copying",
         NEW id, id = handler'.event.id, NEW b \in owed'[id]
  PROVE  b \in handler'.todo \/ BeingCopied(id, b)' \/ HasCopy(id, b)'
<1>1. ASSUME handler.pc = "copying", id = handler.event.id,
             b \in handler.todo => b \in handler'.todo \/ BeingCopied(id, b)'
      PROVE  b \in handler'.todo \/ BeingCopied(id, b)' \/ HasCopy(id, b)'
  <2>1. ~Crash /\ ~FindBranches
    <3>1. handler' # Waiting
      BY DEF Waiting
    <3>2. ~Crash
      BY <3>1, Zenon DEF Crash
    <3>3. ~FindBranches
      BY <1>1 DEF FindBranches
    <3> QED BY <3>2, <3>3
  <2>2. id \in DOMAIN owed' /\ owed'[id] # {}
    BY <1>1, TriesStep DEF TypeInv, ConsumerType
  <2>3. b \in owed[id]
    BY <2>1, <2>2, OwedMoves
  <2>4. b \in handler.todo \/ BeingCopied(id, b) \/ HasCopy(id, b)
    BY <1>1, <2>3 DEF AckInv
  <2>5. CASE HasCopy(id, b)
    BY <2>5, HasCopyStays
  <2>6. CASE BeingCopied(id, b)
    BY <2>1, <2>6, BeingCopiedMoves
  <2> QED BY <1>1, <2>3, <2>4, <2>5, <2>6
<1>2. CASE UNCHANGED handler
  BY <1>1, <1>2
<1>3. CASE FindBranches
  BY <1>3 DEF FindBranches, TypeInv, ConsumerType
<1>4. ASSUME NEW d \in Branches, Copy(d)
      PROVE  b \in handler'.todo \/ BeingCopied(id, b)' \/ HasCopy(id, b)'
  <2>1. /\ handler.pc = "copying" /\ handler'.event = handler.event
        /\ handler'.todo = handler.todo \ {d}
    BY <1>4 DEF Copy, TypeInv, ConsumerType
  <2>2. handler.event \in Event /\ handler.event.id = id
    BY <2>1 DEF TypeInv, ConsumerType
  <2> DEFINE e == NewEvent(handler.event.fact, d, CopyKey(id, d), "copy")
  <2>3. e \in Event /\ e.branch = d /\ e.key = CopyKey(id, d)
    BY <2>2, Fields, NewEventFields, KeyTypes DEF TypeInv
  <2>4. pub' = [pub EXCEPT ![Propagator] = [pc |-> "insert", event |-> e]]
    BY <1>4, <2>2 DEF Copy, Publish
  <2>5. pub'[Propagator] = [pc |-> "insert", event |-> e]
    BY <2>4 DEF TypeInv, PubType, Workers
  <2> HIDE DEF e
  <2>6. BeingCopied(id, d)'
    BY <2>3, <2>5 DEF BeingCopied, At
  <2> QED BY <1>1, <2>1, <2>2, <2>6
<1>5. ~(handler' = Waiting) /\ ~(\E i \in DOMAIN stream : Deliver(i))
  BY DEF Waiting, Deliver
<1> QED BY <1>2, <1>3, <1>4, <1>5, HandlerMoves, Zenon

\* The invariant on acknowledgments is kept.
LEMMA AckStep == TypeInv /\ KeyInv /\ IdInv /\ AckInv /\ [Next]_vars => AckInv'
<1> SUFFICES ASSUME TypeInv, KeyInv, IdInv, AckInv, [Next]_vars PROVE AckInv'
  OBVIOUS
<1>1. handler'.pc # "idle" => handler'.event.id \notin acked'
  <2> SUFFICES ASSUME handler'.pc # "idle" PROVE handler'.event.id \notin acked'
    OBVIOUS
  <2>1. acked' = acked
    BY AckedMoves DEF Waiting
  <2>2. CASE handler'.event = handler.event /\ handler.pc # "idle"
    BY <2>1, <2>2 DEF AckInv
  <2>3. ASSUME NEW i \in DOMAIN stream, Deliver(i) PROVE handler'.event.id \notin acked
    BY <2>3 DEF Deliver, Due
  <2>4. FindBranches \/ (\E b \in Branches : Copy(b)) =>
          handler'.event = handler.event /\ handler.pc # "idle"
    BY DEF FindBranches, Copy, TypeInv, ConsumerType
  <2>5. handler' # Waiting
    BY DEF Waiting
  <2> QED BY <2>1, <2>2, <2>3, <2>4, <2>5, HandlerMoves
<1>2. handler'.pc # "copying" => At(Propagator, "idle")'
  <2> SUFFICES ASSUME handler'.pc # "copying", ~At(Propagator, "idle")' PROVE FALSE
    OBVIOUS
  <2>0. Propagator \in Workers
    BY DEF Workers
  <2>1. CASE Crash
    BY <2>0, <2>1 DEF Crash, At, Idle
  <2>2. ~\E b \in Branches : Copy(b)
    BY DEF Copy, TypeInv, ConsumerType
  <2>3. ~FindBranches
    BY DEF FindBranches, TypeInv, ConsumerType
  <2>4. CASE At(Propagator, "idle")
    <3>1. ~(Propagator \in Handlers)
      BY MeshAssumption
    <3>2. pub'[Propagator].pc # "idle" /\ pub[Propagator].pc = "idle"
      BY <2>4 DEF At
    <3>3. ASSUME NEW b \in handler.todo, handler.pc = "copying",
                 handler' = [handler EXCEPT !.todo = @ \ {b}]
          PROVE  FALSE
      BY <3>3 DEF TypeInv, ConsumerType
    <3> QED BY <2>0, <2>4, <3>1, <3>2, <3>3, PubMoves DEF At
  <2>5. CASE ~At(Propagator, "idle")
    <3>1. handler.pc = "copying"
      BY <2>5 DEF AckInv
    <3>2. ~Copied
      BY <2>5 DEF Copied
    <3>3. ~UNCHANGED handler /\ handler.pc # "got" /\ ~\E i \in DOMAIN stream : Deliver(i)
      BY <3>1 DEF Deliver
    <3> QED BY <2>1, <2>2, <2>3, <3>2, <3>3, HandlerMoves, Zenon
  <2> QED BY <2>4, <2>5
<1>3. ASSUME handler'.pc = "copying", NEW id, id = handler'.event.id, NEW b \in owed'[id]
      PROVE  b \in handler'.todo \/ BeingCopied(id, b)' \/ HasCopy(id, b)'
  BY <1>3, CopyingStep
<1>4. ASSUME handler'.pc = "copying", NEW b \in owed'[handler'.event.id]
      PROVE  \/ b \in handler'.todo \/ BeingCopied(handler.event.id, b)'
             \/ HasCopy(handler.event.id, b)'
  <2>1. PICK id : id = handler'.event.id
    OBVIOUS
  <2>2. b \in handler'.todo \/ BeingCopied(id, b)' \/ HasCopy(id, b)'
    BY <1>3, <1>4, <2>1
  <2> QED BY <2>1, <2>2 DEF BeingCopied, HasCopy, OnStream, At
<1> QED BY <1>1, <1>2, <1>4, AckedStep DEF AckInv

\* The consumer acknowledges a message only when its copies are published or lost
\* (propagateAcrossBranches, SubscribeAll): AckedIsCopied always holds.
THEOREM AckedCopied == Spec => []AckedIsCopied
<1>1. Init => IdInv /\ AckInv
  BY DEF Init, IdInv, Published, AckInv, AckedIsCopied, At, Idle, Waiting, Workers
<1>2. AckInv => AckedIsCopied
  BY DEF AckInv
<1> QED
  BY <1>1, <1>2, InitType, TypeStep, InitKey, KeyStep, IdStep, AckStep, PTL DEF Spec

-----------------------------------------------------------------------------
(* Streams to clients. *)

\* The client has the row, or an accident explains why not.
Excused(c, r) ==
  \/ r.key \in sse[c].seen \cup missed[c]
  \/ Named(r) \in lost \cup unstored \cup overtaken \cup {Named(d) : d \in deleted}

\* There is such a row, or was.
WasStored(b, key) == \E r \in Given : r.branch = b /\ r.key = key

\* The client's stream is past place j.
Behind(c, j) == sse[c].pc = "replayed" \/ (sse[c].pc = "live" /\ j <= sse[c].pos)

\* What is broadcast is a row, or could not be stored, or is an agent's.
KnownInv ==
  /\ \A i \in DOMAIN stream : \/ stream[i].kind = "agent"
                              \/ WasStored(stream[i].branch, stream[i].key)
                              \/ Named(stream[i]) \in unstored
  /\ \A w \in Workers : At(w, "send") =>
       WasStored(pub[w].event.branch, pub[w].event.key) \/ Named(pub[w].event) \in unstored

\* No row comes after a message of its branch with a higher number unnoticed.
OrderInv ==
  \A i \in DOMAIN stream : \A r \in store :
    stream[i].branch = r.branch /\ r.seq <= stream[i].seq =>
      Named(r) \in overtaken \/ \E j \in 1..i : Named(stream[j]) = Named(r)

ViewInv ==
  /\ \A c \in Clients :
       sse[c].cursor = 0 \/ \E r \in Given : r.branch = Watched[c] /\ r.seq = sse[c].cursor
  /\ \A c \in Clients : \A r \in store : r.branch = Watched[c] =>
       /\ r.seq <= sse[c].cursor => Excused(c, r)
       /\ \A j \in DOMAIN stream : Named(stream[j]) = Named(r) /\ Behind(c, j) => Excused(c, r)

\* What was stored is still known.
LEMMA StoredStays ==
  ASSUME TypeInv, [Next]_vars, NEW b, NEW key, WasStored(b, key)
  PROVE  WasStored(b, key)'
BY RowsStay DEF WasStored

\* Clients do not move when the table or the stream does.
LEMMA SseStill ==
  ASSUME TypeInv, [Next]_vars, store' # store \/ stream' # stream
  PROVE  UNCHANGED sse
<1>1. ASSUME NEW c \in Clients, \/ Replay(c) \/ ReplayFails(c) \/ Subscribe(c) \/ SubscribeFails(c)
                                \/ Forward(c) \/ Drop(c) \/ Disconnect(c)
      PROVE  FALSE
  BY <1>1 DEF Replay, Subscribe, SubscribeFails, Forward, Drop, Disconnect, ReplayFails,
              table, jetstream
<1>2. ASSUME Crash PROVE FALSE
  <2>1. UNCHANGED table /\ UNCHANGED jetstream
    BY <1>2, Zenon DEF Crash
  <2> QED BY <2>1 DEF table, jetstream
<1> QED BY <1>1, <1>2, SseStep, Zenon

\* A replay shows a page of the rows past the cursor.
LEMMA ReplaySees ==
  ASSUME TypeInv, NEW c \in Clients, Replay(c)
  PROVE  sse'[c].seen = sse[c].seen \cup KeysOf(Page(c))
BY DEF Replay, TypeInv, ClientType, Sse

\* A missed key stays missed until a replay shows it.
LEMMA MissedStays ==
  ASSUME TypeInv, [Next]_vars, NEW c \in Clients, NEW key \in missed[c]
  PROVE  key \in missed'[c] \/ (Replay(c) /\ key \in KeysOf(Page(c)))
<1>0. missed \in [Clients -> SUBSET Keys]
  BY DEF TypeInv, ClientType
<1>1. CASE \E e \in Event : Broadcast(e)
  BY <1>0, <1>1 DEF Broadcast
<1>2. ASSUME NEW d \in Clients, Replay(d)
      PROVE  key \in missed'[c] \/ (Replay(c) /\ key \in KeysOf(Page(c)))
  <2>1. missed' = [missed EXCEPT ![d] = (@ \ KeysOf(Page(d))) \cup KeysOf(Unread(d) \ Page(d))]
    BY <1>2 DEF Replay
  <2> QED BY <1>0, <1>2, <2>1
<1>3. ASSUME NEW d \in Clients, Drop(d) PROVE key \in missed'[c]
  BY <1>0, <1>3 DEF Drop
<1>4. ASSUME NEW d \in Clients, ReplayFails(d) PROVE key \in missed'[c]
  BY <1>0, <1>4 DEF ReplayFails
<1> QED BY <1>0, <1>1, <1>2, <1>3, <1>4, MissedStep

\* What a client has seen, or is excused from, stays so.
LEMMA ExcusedStays ==
  ASSUME TypeInv, [Next]_vars, NEW c \in Clients, NEW r, Excused(c, r)
  PROVE  Excused(c, r)'
<1>1. CASE Named(r) \in lost \cup unstored \cup overtaken \cup {Named(d) : d \in deleted}
  BY <1>1, RowsStay, LostStays DEF Excused, Named
<1>2. CASE r.key \in sse[c].seen
  <2>1. sse[c].seen \subseteq sse'[c].seen
    BY SseMoves DEF Moves
  <2> QED BY <1>2, <2>1 DEF Excused
<1>3. CASE r.key \in missed[c]
  BY <1>3, MissedStays, ReplaySees DEF Excused
<1> QED BY <1>1, <1>2, <1>3 DEF Excused

\* A worker broadcasts what it stored, or what it could not store.
LEMMA KnownStep == TypeInv /\ KnownInv /\ [Next]_vars => KnownInv'
<1> SUFFICES ASSUME TypeInv, KnownInv, [Next]_vars PROVE KnownInv'
  OBVIOUS
<1> DEFINE Known(e) == WasStored(e.branch, e.key) \/ Named(e) \in unstored
<1>1. ASSUME NEW e, Known(e) PROVE Known(e)'
  BY <1>1, RowsStay, StoredStays DEF Named
<1>2. ASSUME NEW i \in DOMAIN stream', NEW m, m = stream'[i]
      PROVE  m.kind = "agent" \/ Known(m)'
  <2>1. m.kind = "agent" \/ Known(m)
    BY <1>2, MessagesStay, NewMessage DEF KnownInv
  <2> QED BY <1>1, <2>1
<1>3. ASSUME NEW w \in Workers, At(w, "send")', NEW m, m = pub'[w].event
      PROVE  Known(m)'
  <2>0. pub[w].pc # "idle" => pub[w].event \in Event
    BY DEF TypeInv, PubType
  <2>1. CASE pub'[w] = pub[w] /\ At(w, "send")
    BY <1>1, <1>3, <2>1 DEF KnownInv
  <2>2. CASE /\ At(w, "commit") /\ Store(w)
             /\ pub'[w].event = Numbered(pub[w].event, SequenceOf(pub[w].event))
    <3>1. PICK e \in Event : e = pub[w].event
      BY <2>0, <2>2 DEF At
    <3>2. SequenceOf(e) \in Nat
      BY Fields DEF SequenceOf
    <3>3. m.branch = e.branch /\ m.key = e.key
      BY <1>3, <2>2, <3>1, <3>2, NumberedFields
    <3>4. WasStored(e.branch, e.key)'
      <4>1. Insert(e)
        BY <2>2, <3>1 DEF Store
      <4>2. CASE Stored(e.branch, e.key)
        <5>1. WasStored(e.branch, e.key)
          BY <4>2 DEF Stored, WasStored, Given
        <5> QED BY <5>1, StoredStays
      <4>3. CASE ~Stored(e.branch, e.key)
        BY <4>1, <4>3 DEF Insert, WasStored, Given
      <4> QED BY <4>2, <4>3
    <3> QED BY <3>3, <3>4
  <2>3. CASE /\ At(w, "commit") /\ StoreFails(w)
             /\ pub'[w].event = Numbered(pub[w].event, 0)
    <3>1. Named(m) = Named(pub[w].event)
      BY <1>3, <2>0, <2>3, NumberedFields DEF At
    <3>2. Named(pub[w].event) \in unstored'
      BY <2>3 DEF StoreFails
    <3> QED BY <3>1, <3>2 DEF Named
  <2> QED BY <1>3, <2>1, <2>2, <2>3, SendMoves
<1>4. \A i \in DOMAIN stream' : \/ stream'[i].kind = "agent"
                                \/ WasStored(stream[i].branch, stream[i].key)'
                                \/ Named(stream'[i]) \in unstored'
  BY <1>2 DEF Named, WasStored
<1>5. \A w \in Workers : At(w, "send")' =>
        WasStored(pub[w].event.branch, pub[w].event.key)' \/ Named(pub'[w].event) \in unstored'
  BY <1>3 DEF Named, WasStored
<1> QED BY <1>4, <1>5 DEF KnownInv, Named

\* A row stored or broadcast after a higher number is noted as overtaken.
LEMMA OrderStep == TypeInv /\ SeqInv /\ OrderInv /\ [Next]_vars => OrderInv'
<1> SUFFICES ASSUME TypeInv, SeqInv, OrderInv, [Next]_vars,
                    NEW i \in DOMAIN stream', NEW r \in store',
                    stream'[i].branch = r.branch, r.seq <= stream'[i].seq
             PROVE  Named(r) \in overtaken' \/ \E j \in 1..i : Named(stream'[j]) = Named(r)
  BY DEF OrderInv, Named
<1>0. stream \in Seq(Event) /\ DOMAIN stream = 1..Len(stream) /\ Len(stream) \in Nat
  BY DEF TypeInv, LogType
<1>1. CASE i \in DOMAIN stream /\ r \in store
  <2>1. stream'[i] = stream[i] /\ \A j \in 1..i : stream'[j] = stream[j]
    BY <1>0, <1>1, MessagesStay
  <2>2. Named(r) \in overtaken \/ \E j \in 1..i : Named(stream[j]) = Named(r)
    BY <1>1, <2>1 DEF OrderInv
  <2> QED BY <2>1, <2>2, RowsStay DEF Named
<1>2. CASE i \in DOMAIN stream /\ r \notin store
  <2>1. PICK w \in Workers : At(w, "commit") /\ r = pub[w].event
    BY <1>2, NewRow
  <2>2. r.seq \in Nat /\ r.seq > 0 /\ \A s \in Given : s.seq # r.seq
    BY <1>2, <2>1, NewRow, Fields DEF SeqInv
  <2>3. stream'[i] = stream[i] /\ stream[i] \in Event /\ stream[i].seq \in Nat
    BY <1>0, <1>2, MessagesStay, Fields
  <2>4. stream[i] \in Given
    BY <1>2, <2>2, <2>3 DEF SeqInv, SequenceIsTheRows
  <2>5. stream[i].branch = r.branch /\ stream[i].seq > r.seq
    BY <2>2, <2>3, <2>4
  <2> QED BY <1>2, <2>4, <2>5, NewRow DEF Insert
<1>3. CASE i \notin DOMAIN stream
  <2>1. PICK e \in Event :
          /\ Broadcast(e) /\ e = stream'[i] /\ i = Len(stream) + 1
          /\ \/ \E w \in Workers : At(w, "send") /\ e = pub[w].event
             \/ e.seq = 0
    BY <1>3, NewMessage
  <2>2. r \in store
    <3> SUFFICES ASSUME r \notin store PROVE FALSE
      OBVIOUS
    <3>1. PICK w \in Workers : Store(w) \/ StoreFails(w)
      BY NewRow
    <3>2. stream' = stream
      BY <3>1 DEF Store, StoreFails, jetstream
    <3> QED BY <1>3, <3>2
  <2>3. r.seq \in Nat /\ r.seq > 0 /\ e.seq \in Nat
    BY <2>2, Fields DEF TypeInv, LogType, SeqInv, Given
  <2>4. CASE r.seq = e.seq
    <3>1. e \in Given
      BY <2>1, <2>3, <2>4 DEF SeqInv
    <3>2. r = e
      BY <2>2, <2>4, <3>1 DEF SeqInv, Given
    <3> QED BY <1>0, <2>1, <3>2
  <2>5. CASE r.seq < e.seq /\ ~OnStream(r.branch, r.key)
    BY <2>1, <2>2, <2>5 DEF Broadcast
  <2>6. CASE OnStream(r.branch, r.key)
    <3>1. PICK j \in DOMAIN stream : stream[j].branch = r.branch /\ stream[j].key = r.key
      BY <2>6 DEF OnStream
    <3>2. j \in 1..i /\ stream'[j] = stream[j]
      BY <1>0, <2>1, MessagesStay
    <3> QED BY <3>1, <3>2 DEF Named
  <2> QED BY <2>1, <2>3, <2>4, <2>5, <2>6
<1> QED BY <1>1, <1>2, <1>3

\* A new row below a cursor is overtaken; one on the stream failed before.
LEMMA NewRowExcused ==
  ASSUME TypeInv, SeqInv, KeyInv, KnownInv, ViewInv, [Next]_vars, NEW c \in Clients,
         NEW r \in store', r \notin store, r.branch = Watched[c]
  PROVE  /\ r.seq <= sse'[c].cursor => Excused(c, r)'
         /\ \A j \in DOMAIN stream' :
              Named(stream'[j]) = Named(r) /\ Behind(c, j)' => Excused(c, r)'
<1>1. PICK w \in Workers : /\ At(w, "commit") /\ r = pub[w].event
                           /\ Store(w) \/ StoreFails(w)
  BY NewRow
<1>2. stream' = stream
  BY <1>1 DEF Store, StoreFails, jetstream
<1>3. sse' = sse
  BY <1>1 DEF Store, StoreFails
<1>4. ASSUME r.seq <= sse'[c].cursor PROVE Excused(c, r)'
  <2>1. r.seq \in Nat /\ r.seq > 0 /\ \A s \in Given : s.seq # r.seq
    BY <1>1, NewRow, Fields DEF SeqInv
  <2>2. sse[c].cursor \in Nat
    BY DEF TypeInv, ClientType, Sse
  <2>3. PICK s \in Given : s.branch = Watched[c] /\ s.seq = sse[c].cursor
    BY <1>3, <1>4, <2>1, <2>2 DEF ViewInv
  <2>4. s.branch = r.branch /\ s.seq > r.seq
    BY <1>3, <1>4, <2>1, <2>2, <2>3
  <2>5. Named(r) \in overtaken'
    BY <2>4, NewRow DEF Insert
  <2> QED BY <2>5 DEF Excused, Named
<1>5. ASSUME NEW j \in DOMAIN stream, Named(stream[j]) = Named(r) PROVE Excused(c, r)'
  <2>1. stream[j].branch = r.branch /\ stream[j].key = r.key
    BY <1>5 DEF Named
  <2>2. CASE WasStored(stream[j].branch, stream[j].key)
    <3>1. PICK d \in deleted : d.branch = r.branch /\ d.key = r.key
      BY <2>1, <2>2, NewRow DEF WasStored, Given, Stored
    <3>2. Named(r) = Named(d) /\ d \in deleted'
      BY <3>1, RowsStay DEF Named
    <3> QED BY <3>2 DEF Excused, Named
  <2>3. CASE Named(stream[j]) \in unstored
    BY <1>5, <2>3, RowsStay DEF Excused, Named
  <2>4. CASE stream[j].kind = "agent"
    <3>1. r.key = AgentKey(stream[j].id)
      BY <2>1, <2>4 DEF KeyInv
    <3>2. r.kind \in {"api", "copy"} /\ KeyOfKind(r)
      BY <1>1, NewRow, Fields DEF KeyInv, At
    <3>3. \E f, id, b : r.key = ContentKey(f) \/ r.key = CopyKey(id, b)
      BY <3>2 DEF KeyOfKind, OfOriginal
    <3> QED BY <3>1, <3>3, KeysDiffer
  <2> QED BY <2>2, <2>3, <2>4 DEF KnownInv
<1> QED BY <1>2, <1>4, <1>5

\* A cursor is the number of a row.
LEMMA CursorStep ==
  ASSUME TypeInv, SeqInv, ViewInv, [Next]_vars, NEW c \in Clients
  PROVE  sse'[c].cursor = 0 \/ \E r \in Given' : r.branch = Watched[c] /\ r.seq = sse'[c].cursor
<1>1. CASE sse'[c].cursor = sse[c].cursor
  BY <1>1, RowsStay DEF ViewInv
<1>2. CASE \E r \in Page(c) : sse'[c].cursor = r.seq
  BY <1>2, RowsStay DEF Page, Unread, Given
<1>3. CASE /\ Forward(c) /\ sse'[c].pos \in DOMAIN stream
           /\ stream[sse'[c].pos].branch = Watched[c]
           /\ stream[sse'[c].pos].seq > sse[c].cursor
           /\ sse'[c].cursor = stream[sse'[c].pos].seq
  <2> DEFINE e == stream[sse'[c].pos]
  <2>1. e \in Event /\ sse[c].cursor \in Nat
    BY <1>3 DEF TypeInv, LogType, ClientType, Sse
  <2>2. e.seq > 0
    BY <1>3, <2>1, Fields
  <2>3. e \in Given
    BY <1>3, <2>2 DEF SeqInv, SequenceIsTheRows
  <2> QED BY <1>3, <2>3, RowsStay
<1> QED BY <1>1, <1>2, <1>3, SseMoves DEF Moves

\* What a replay does not show is noted as missed, if the query fails all of it.
LEMMA ReplayExcuses ==
  ASSUME TypeInv, NEW c \in Clients, Replay(c) \/ ReplayFails(c), NEW r \in store,
         r.branch = Watched[c], r.seq > sse[c].cursor
  PROVE  Excused(c, r)'
<1>0. missed \in [Clients -> SUBSET Keys] /\ r \in Unread(c)
  BY DEF TypeInv, ClientType, Unread
<1>1. CASE Replay(c)
  <2>1. missed'[c] = (missed[c] \ KeysOf(Page(c))) \cup KeysOf(Unread(c) \ Page(c))
    BY <1>0, <1>1 DEF Replay
  <2>2. r \in Page(c) => r.key \in sse'[c].seen
    BY <1>1, ReplaySees DEF KeysOf
  <2>3. r \notin Page(c) => r.key \in missed'[c]
    BY <1>0, <2>1 DEF KeysOf
  <2> QED BY <2>2, <2>3 DEF Excused
<1>2. CASE ReplayFails(c)
  <2>1. missed'[c] = missed[c] \cup KeysOf(Unread(c))
    BY <1>0, <1>2 DEF ReplayFails
  <2>2. r.key \in missed'[c]
    BY <1>0, <2>1 DEF KeysOf
  <2> QED BY <2>2 DEF Excused
<1> QED BY <1>1, <1>2

\* A cursor moves past no row that is not excused.
LEMMA LowStep ==
  ASSUME TypeInv, OrderInv, ViewInv, [Next]_vars, NEW c \in Clients, NEW r \in store,
         r.branch = Watched[c], r.seq <= sse'[c].cursor
  PROVE  Excused(c, r)'
<1>0. /\ r \in Event /\ r.seq \in Nat /\ sse[c].cursor \in Nat /\ sse'[c].cursor \in Nat
      /\ sse[c] \in Sse
  BY SseMoves, Fields DEF TypeInv, LogType, ClientType, Sse
<1>1. CASE Excused(c, r)
  BY <1>1, ExcusedStays
<1>2. CASE r.seq <= sse[c].cursor
  BY <1>1, <1>2 DEF ViewInv
<1>3. CASE r.seq > sse[c].cursor
  <2>1. CASE Replay(c) /\ sse'[c].seen = sse[c].seen \cup KeysOf(Page(c))
    BY <1>1, <1>3, <2>1, ReplayExcuses
  <2>2. CASE /\ Forward(c) /\ sse'[c].pos = sse[c].pos + 1 /\ sse'[c].pos \in DOMAIN stream
             /\ stream[sse'[c].pos].branch = Watched[c]
             /\ sse'[c].seen = sse[c].seen \cup {stream[sse'[c].pos].key}
             /\ sse'[c].cursor = IF stream[sse'[c].pos].seq > sse[c].cursor
                                 THEN stream[sse'[c].pos].seq ELSE sse[c].cursor
    <3> DEFINE i == sse'[c].pos
    <3>1. stream[i].seq \in Nat /\ DOMAIN stream = 1..Len(stream) /\ Len(stream) \in Nat
      BY <2>2, Fields DEF TypeInv, LogType
    <3>2. r.seq <= stream[i].seq
      BY <1>0, <1>3, <2>2, <3>1
    <3>3. CASE Named(r) \in overtaken
      BY <1>1, <3>3 DEF Excused
    <3>4. ASSUME NEW j \in 1..i, Named(stream[j]) = Named(r) PROVE Excused(c, r)'
      <4>1. CASE j = i
        BY <2>2, <3>4, <4>1 DEF Named, Excused
      <4>2. CASE j # i
        <5>1. sse[c].pos \in Nat /\ sse[c].pc = "live"
          BY <1>0, <2>2 DEF Forward, Sse
        <5>2. j \in DOMAIN stream /\ j <= sse[c].pos
          BY <2>2, <3>1, <4>2, <5>1
        <5>3. Excused(c, r)
          BY <3>4, <5>1, <5>2 DEF ViewInv, Behind
        <5> QED BY <5>3, <1>1
      <4> QED BY <4>1, <4>2
    <3> QED BY <2>2, <3>2, <3>3, <3>4 DEF OrderInv
  <2>3. sse'[c].cursor # sse[c].cursor
    BY <1>0, <1>3
  <2> QED BY <2>1, <2>2, <2>3, SseMoves DEF Moves
<1> QED BY <1>0, <1>2, <1>3

\* A stream moves past no row that is not excused.
LEMMA BehindStep ==
  ASSUME TypeInv, ViewInv, [Next]_vars, NEW c \in Clients, NEW r \in store,
         r.branch = Watched[c], NEW j \in DOMAIN stream',
         Named(stream'[j]) = Named(r), Behind(c, j)'
  PROVE  Excused(c, r)'
<1>0. /\ sse[c] \in Sse /\ sse[c].pos \in Nat /\ sse[c].pos <= Len(stream)
      /\ DOMAIN stream = 1..Len(stream) /\ Len(stream) \in Nat
  BY DEF TypeInv, LogType, ClientType, Sse
<1>1. CASE Excused(c, r)
  BY <1>1, ExcusedStays
<1>2. CASE j \notin DOMAIN stream
  <2>1. PICK e \in Event : Broadcast(e) /\ e = stream'[j] /\ j = Len(stream) + 1
    BY <1>2, NewMessage
  <2>2. sse' = sse
    BY <1>2, SseStill
  <2>3. sse[c].pc = "replayed"
    BY <1>0, <2>1, <2>2 DEF Behind
  <2>4. e.branch = Watched[c] /\ e.key = r.key
    BY <2>1 DEF Named
  <2>5. e.key \in sse[c].seen \cup missed'[c]
    BY <2>1, <2>3, <2>4 DEF Broadcast
  <2> QED BY <2>2, <2>4, <2>5 DEF Excused
<1>3. CASE j \in DOMAIN stream
  <2>1. stream'[j] = stream[j] /\ stream[j].key = r.key /\ stream[j].branch = r.branch
    BY <1>3, MessagesStay DEF Named
  <2>2. CASE Behind(c, j)
    BY <1>1, <1>3, <2>1, <2>2 DEF ViewInv, Named
  <2>3. CASE Replay(c) \/ ReplayFails(c)
    <3>1. CASE r.seq <= sse[c].cursor
      BY <1>1, <3>1 DEF ViewInv
    <3>2. CASE r.seq > sse[c].cursor
      BY <2>3, <3>2, ReplayExcuses
    <3>3. r.seq \in Nat /\ sse[c].cursor \in Nat
      BY <1>0, Fields DEF TypeInv, LogType, Sse
    <3> QED BY <3>1, <3>2, <3>3
  <2>4. CASE ~Behind(c, j) /\ sse'[c].pc = "live" /\ sse'[c].pos = sse[c].pos + 1
             /\ sse[c].pc = "live"
    <3>1. j = sse'[c].pos
      BY <1>0, <1>3, <2>4 DEF Behind
    <3>2. CASE Forward(c) /\ stream[sse'[c].pos].branch # Watched[c]
      BY <2>1, <3>1, <3>2
    <3>3. CASE sse'[c].seen = sse[c].seen \cup {stream[sse'[c].pos].key}
      BY <2>1, <3>1, <3>3 DEF Excused
    <3>4. CASE Drop(c)
      <4>1. missed' = [missed EXCEPT ![c] = @ \cup {stream[sse[c].pos + 1].key}]
        BY <3>4 DEF Drop
      <4>2. stream[j].key \in missed'[c]
        BY <2>4, <3>1, <4>1 DEF TypeInv, ClientType
      <4> QED BY <2>1, <4>2 DEF Excused
    <3>5. sse'[c] # sse[c] /\ ~Subscribe(c) /\ ~Replay(c) /\ ~ReplayFails(c)
      BY <1>0, <2>4 DEF Subscribe, Replay, ReplayFails, Sse
    <3> QED BY <2>4, <3>2, <3>3, <3>4, <3>5, SseMoves DEF Moves
  <2>5. CASE Subscribe(c)
    BY <2>2, <2>5 DEF Subscribe, Behind
  <2>6. CASE sse'[c] = sse[c]
    BY <2>2, <2>6 DEF Behind
  <2>7. CASE sse'[c].pc \in {"deaf", "off"}
    BY <2>7 DEF Behind
  <2>8. CASE (Forward(c) \/ Drop(c)) /\ sse'[c].pc = "live" /\ sse'[c].pos = sse[c].pos + 1
    BY <2>2, <2>4, <2>8 DEF Forward, Drop
  <2> QED BY <2>3, <2>5, <2>6, <2>7, <2>8, SseMoves DEF Moves
<1> QED BY <1>2, <1>3

\* What clients know of the table is kept.
LEMMA ViewStep ==
  TypeInv /\ SeqInv /\ KeyInv /\ KnownInv /\ OrderInv /\ ViewInv /\ [Next]_vars => ViewInv'
<1> SUFFICES ASSUME TypeInv, SeqInv, KeyInv, KnownInv, OrderInv, ViewInv, [Next]_vars,
                    NEW c \in Clients
             PROVE  /\ sse'[c].cursor = 0
                       \/ \E r \in Given' : r.branch = Watched[c] /\ r.seq = sse'[c].cursor
                    /\ \A r \in store' : r.branch = Watched[c] =>
                         /\ r.seq <= sse'[c].cursor => Excused(c, r)'
                         /\ \A j \in DOMAIN stream' :
                              Named(stream'[j]) = Named(r) /\ Behind(c, j)' => Excused(c, r)'
  BY DEF ViewInv, Named
<1>1. ASSUME NEW r \in store', r.branch = Watched[c]
      PROVE  /\ r.seq <= sse'[c].cursor => Excused(c, r)'
             /\ \A j \in DOMAIN stream' :
                  Named(stream'[j]) = Named(r) /\ Behind(c, j)' => Excused(c, r)'
  <2>1. CASE r \in store
    BY <1>1, <2>1, LowStep, BehindStep
  <2>2. CASE r \notin store
    BY <1>1, <2>2, NewRowExcused
  <2> QED BY <2>1, <2>2
<1> QED BY <1>1, CursorStep

\* A client that reconnects with its last sequence number misses nothing but for the
\* named accidents (handleStreamEvents): StreamIsComplete always holds.
THEOREM StreamComplete == Spec => []StreamIsComplete
<1>1. TypeInv /\ ViewInv /\ StoredIsBroadcast => StreamIsComplete
  <2> SUFFICES ASSUME TypeInv, ViewInv, StoredIsBroadcast, NEW c \in Clients,
                      sse[c].pc = "live", NEW r \in store, r.branch = Watched[c]
               PROVE  \/ r.key \in sse[c].seen \cup missed[c]
                      \/ \E i \in (sse[c].pos + 1)..Len(stream) : Named(stream[i]) = Named(r)
                      \/ \E w \in Workers : At(w, "send") /\ Named(pub[w].event) = Named(r)
                      \/ Named(r) \in lost \cup unstored \cup overtaken
                                        \cup {Named(d) : d \in deleted}
    BY DEF StreamIsComplete
  <2>1. ASSUME NEW i \in DOMAIN stream, stream[i].branch = r.branch, stream[i].key = r.key
        PROVE  \/ Excused(c, r)
               \/ \E j \in (sse[c].pos + 1)..Len(stream) : Named(stream[j]) = Named(r)
    <3>1. Named(stream[i]) = Named(r)
      BY <2>1 DEF Named
    <3>2. CASE i <= sse[c].pos
      BY <3>1, <3>2 DEF ViewInv, Behind
    <3>3. i \in Nat /\ i <= Len(stream) /\ Len(stream) \in Nat /\ sse[c].pos \in Nat
      BY DEF TypeInv, LogType, ClientType, Sse
    <3> QED BY <3>1, <3>2, <3>3
  <2> QED BY <2>1 DEF StoredIsBroadcast, OnStream, Excused
<1>2. Init => StoredIsBroadcast /\ KnownInv /\ OrderInv /\ ViewInv
  BY DEF Init, StoredIsBroadcast, KnownInv, OrderInv, ViewInv, At, Idle, Off
<1> QED
  BY <1>1, <1>2, InitType, TypeStep, InitSeq, SeqStep, InitKey, KeyStep, KnownStep,
     BroadcastStep, OrderStep, ViewStep, PTL DEF Spec
=============================================================================
