---------------------------- MODULE LiveContext ----------------------------
(***************************************************************************)
(* The context an agent keeps for one environment: events of the branch    *)
(* reach cmd/agent, which keeps them in memory and in the file live.json;  *)
(* the MCP server inside the container (the script written by              *)
(* task_executor.go, and its twin cmd/mcp-context) shows what is new to    *)
(* Claude and moves a cursor; what Claude publishes goes to the file       *)
(* outbox.jsonl, which the agent reads and publishes to the branch.        *)
(*                                                                         *)
(* The agent runs on the host, the MCP server in the container.  The       *)
(* commands that start the container (env_service.go, the providers) mount *)
(* the workspace and nothing else, the two programs are written for a      *)
(* shared directory as well: `shared` is chosen once.                      *)
(***************************************************************************)
EXTENDS Naturals, Sequences, FiniteSets, SequencesExt

CONSTANTS
  Keys,           \* names of packages, configs and contracts
  Deployments,    \* subset of BOOLEAN: is /gradient/context shared?
  RecentCap,      \* recent_updates kept (100 in the code)
  MaxDeliver,     \* deliveries of one message (5 in the code)
  MaxEvents,      \* bound: events published on the branch
  MaxLines,       \* bound: lines Claude writes to the outbox
  MaxFaults,      \* bound: failed calls, lost acknowledgements, crashes
  MaxReads        \* bound: reads by Claude

ASSUME LiveAssumption ==
  /\ Deployments \subseteq BOOLEAN
  /\ RecentCap \in Nat \ {0} /\ MaxDeliver \in Nat \ {0}
  /\ MaxEvents \in Nat /\ MaxLines \in Nat /\ MaxFaults \in Nat /\ MaxReads \in Nat

VARIABLES
  shared,         \* the container's context directory is the host's
  log,            \* events of the branch, as the durable consumer holds them
  sent,           \* deliveries of each event
  acked,          \* events the consumer has seen acknowledged
  agent,          \* the agent process: [up, ctx, phase, event]
  live,           \* live.json: [state, ctx]
  cursor,         \* read_cursor.json: last_seq
  outbox,         \* lines of the container's outbox.jsonl
  host,           \* the host's outbox.jsonl: [exists, lines]
  offset,         \* lines of it the outbox loop has taken
  batch,          \* lines it has taken and not yet tried to publish
  published,      \* how often each line was published, since the agent started
  tried,          \* lines published, or lost to a failed publish, in this run
  shown,          \* history: updates Claude has been shown
  missed,         \* history: updates that became unreadable, with the accident
  reordered,      \* history: keys whose events were handled out of order
  budget          \* [faults, reads] used

liveVars == <<shared, log, sent, acked, agent, live, cursor, outbox,
              host, offset, batch, published, tried, shown, missed, reordered,
              budget>>
agentVars == <<sent, acked, agent, live, missed, reordered>>
outboxVars == <<host, offset, batch, published, tried>>

Events == 1 .. Len(log)
Lines == 1 .. MaxLines

\* What an event says: it sets a key, removes it, or touches none
Facts == [key : Keys, set : BOOLEAN]
NoFact == [key |-> "none", set |-> FALSE]

NoContext == [recent |-> <<>>, facts |-> [k \in Keys |-> 0], last |-> 0]

-----------------------------------------------------------------------------
(* The context and its updates. *)

Update(e, n) == [event |-> e, seq |-> n]
SeqsOf(updates) == {updates[i].seq : i \in DOMAIN updates}
EventsOf(updates) == {updates[i].event : i \in DOMAIN updates}
Highest(S) == CHOOSE n \in S : \A m \in S : m <= n

\* An event that is not in the store carries no sequence: the agent counts on
NumberOf(ctx, e) == IF log[e].seq = 0 THEN ctx.last + 1 ELSE log[e].seq

Newest(updates) ==
  IF Len(updates) > RecentCap
  THEN SubSeq(updates, Len(updates) - RecentCap + 1, Len(updates))
  ELSE updates

\* Handle, up to saveToDisk
Handled(ctx, e) ==
  LET n == NumberOf(ctx, e)
      says == log[e].says
  IN [recent |-> Newest(Append(ctx.recent, Update(e, n))),
      facts |-> IF says.key \in Keys
                THEN [ctx.facts EXCEPT ![says.key] = IF says.set THEN e ELSE 0]
                ELSE ctx.facts,
      last |-> n]

\* mutant of Unread: the cursor is taken for the next number to show
UnreadPastNext(ctx, c) == {u.event : u \in {v \in ToSet(ctx.recent) : v.seq > c + 1}}

\* get_context_updates: the events of what is above the cursor
Unread(ctx, c) == {u.event : u \in {v \in ToSet(ctx.recent) : v.seq > c}}
Read(ctx, c) == Highest({c} \cup SeqsOf(ctx.recent))

\* The cursor can no longer come to rest below this
Horizon == Read(live.ctx, cursor)

-----------------------------------------------------------------------------
LiveInit ==
  /\ shared \in Deployments
  /\ log = <<>>
  /\ sent = [i \in 1 .. MaxEvents |-> 0] /\ acked = {}
  /\ agent = [up |-> TRUE, ctx |-> NoContext, phase |-> "idle", event |-> 0]
  /\ live = [state |-> "absent", ctx |-> NoContext]
  /\ cursor = 0
  /\ outbox = <<>> /\ host = [exists |-> FALSE, lines |-> <<>>]
  /\ offset = 0 /\ batch = <<>>
  /\ published = [l \in Lines |-> 0] /\ tried = {}
  /\ shown = {} /\ missed = {} /\ reordered = {}
  /\ budget = [faults |-> 0, reads |-> 0]

Fault == budget.faults < MaxFaults /\ budget' = [budget EXCEPT !.faults = @ + 1]
NoFault == UNCHANGED budget

(* Events of the branch.  Those of the API server are in the event store and *)
(* numbered there, those other agents send straight to the bus are not.  The *)
(* table's numbers are shared by all branches, and two publishers may store  *)
(* in one order and broadcast in the other: any number not yet taken.        *)
PublishEvent ==
  /\ Len(log) < MaxEvents
  /\ \E says \in Facts \cup {NoFact}, own \in BOOLEAN, seq \in 0 .. MaxEvents :
       /\ seq = 0 \/ \A e \in Events : log[e].seq # seq
       /\ log' = Append(log, [says |-> says, own |-> own, seq |-> seq])
  /\ UNCHANGED <<shared, agentVars, cursor, outbox, outboxVars, shown, budget>>

\* Delivered for the first time in order, again after a nak or a lost ack
Deliverable(e) ==
  /\ e \notin acked /\ sent[e] < MaxDeliver
  /\ \A d \in Events : d < e => sent[d] > 0

(* Handle: an event of the own environment is acknowledged and forgotten. *)
Skip(e) ==
  /\ agent.up /\ agent.phase = "idle" /\ Deliverable(e) /\ log[e].own
  /\ sent' = [sent EXCEPT ![e] = @ + 1]
  /\ acked' = acked \cup {e}
  /\ UNCHANGED <<shared, log, agent, live, cursor, outbox, outboxVars,
                 shown, missed, reordered, budget>>

\* Handling e, or e again, after a later event of its key
Overtaken(e) == \E d \in Events : d > e /\ sent[d] > 0 /\ ~log[d].own
                                  /\ log[d].says.key = log[e].says.key

Handle(e) ==
  LET ctx == Handled(agent.ctx, e) IN
  /\ agent.up /\ agent.phase = "idle" /\ Deliverable(e) /\ ~log[e].own
  /\ sent' = [sent EXCEPT ![e] = @ + 1]
  /\ agent' = [agent EXCEPT !.ctx = ctx, !.phase = "handled", !.event = e]
  /\ missed' = missed
       \cup (IF NumberOf(agent.ctx, e) <= Horizon THEN {<<"behind", e>>} ELSE {})
       \cup {<<"evicted", d>> : d \in (EventsOf(agent.ctx.recent) \cup {e})
                                      \ EventsOf(ctx.recent)}
  /\ reordered' = IF Overtaken(e) THEN reordered \cup {log[e].says.key}
                  ELSE reordered
  /\ UNCHANGED <<shared, log, acked, live, cursor, outbox, outboxVars,
                 shown, budget>>

(* saveToDisk: os.WriteFile truncates the file, then writes it. *)
Truncate ==
  /\ agent.phase = "handled"
  /\ live' = [live EXCEPT !.state = "torn"]
  /\ agent' = [agent EXCEPT !.phase = "writing"]
  /\ UNCHANGED <<shared, log, sent, acked, cursor, outbox, outboxVars,
                 shown, missed, reordered, budget>>

Write ==
  /\ agent.phase = "writing"
  /\ live' = [state |-> "whole", ctx |-> agent.ctx]
  /\ agent' = [agent EXCEPT !.phase = "idle", !.event = 0]
  /\ \/ NoFault /\ acked' = acked \cup {agent.event}
     \/ Fault /\ UNCHANGED acked        \* the acknowledgement is lost
  /\ UNCHANGED <<shared, log, sent, cursor, outbox, outboxVars, shown,
                 missed, reordered>>

\* The save fails, before the file is touched or half way: the event is nak'ed
SaveFails ==
  /\ agent.phase \in {"handled", "writing"} /\ Fault
  /\ agent' = [agent EXCEPT !.phase = "idle", !.event = 0]
  /\ UNCHANGED <<shared, log, sent, acked, live, cursor, outbox,
                 outboxVars, shown, missed, reordered>>

-----------------------------------------------------------------------------
(* The MCP server: one process, one request at a time. *)

GetContextUpdates ==
  /\ budget.reads < MaxReads /\ budget' = [budget EXCEPT !.reads = @ + 1]
  /\ IF shared /\ live.state = "whole"
     THEN /\ shown' = shown \cup Unread(live.ctx, cursor)
          /\ cursor' = Read(live.ctx, cursor)
     ELSE UNCHANGED <<shown, cursor>>
  /\ UNCHANGED <<shared, log, agentVars, outbox, outboxVars>>

\* publish_event and mark_subtask
AppendLine ==
  /\ Len(outbox) < MaxLines
  /\ outbox' = Append(outbox, Len(outbox) + 1)
  /\ host' = IF shared THEN [exists |-> TRUE, lines |-> outbox'] ELSE host
  /\ UNCHANGED <<shared, log, agentVars, cursor, offset, batch,
                 published, tried, shown, budget>>

-----------------------------------------------------------------------------
(* The outbox loop. *)

\* mutant of TakeLines: the file is read from its start, once
TakeLinesOnce ==
  LET file == IF host.exists THEN host.lines ELSE outbox IN
  /\ agent.up /\ batch = <<>> /\ offset = 0
  /\ host.exists \/ outbox # <<>>
  /\ host' = [exists |-> TRUE, lines |-> file]
  /\ Len(file) > offset
  /\ batch' = file /\ offset' = Len(file)
  /\ UNCHANGED <<shared, log, agentVars, cursor, outbox, published,
                 tried, shown, budget>>

\* A tick: the host's file, or a copy made when the host has none
TakeLines ==
  LET file == IF host.exists THEN host.lines ELSE outbox IN
  /\ agent.up /\ batch = <<>>
  /\ host.exists \/ outbox # <<>>
  /\ host' = [exists |-> TRUE, lines |-> file]
  /\ Len(file) > offset
  /\ batch' = SubSeq(file, offset + 1, Len(file))
  /\ offset' = Len(file)
  /\ UNCHANGED <<shared, log, agentVars, cursor, outbox, published,
                 tried, shown, budget>>

PublishLine ==
  /\ agent.up /\ batch # <<>>
  /\ batch' = Tail(batch)
  /\ tried' = tried \cup {Head(batch)}
  /\ \/ NoFault /\ published' = [published EXCEPT ![Head(batch)] = @ + 1]
     \/ Fault /\ UNCHANGED published    \* logged, and never tried again
  /\ UNCHANGED <<shared, log, agentVars, cursor, outbox, host, offset,
                 shown>>

-----------------------------------------------------------------------------
(* systemd restarts the agent; newEventHandler reads live.json. *)

AgentDies ==
  /\ agent.up /\ Fault
  /\ agent' = [up |-> FALSE, ctx |-> NoContext, phase |-> "idle", event |-> 0]
  /\ batch' = <<>> /\ offset' = 0
  /\ tried' = {} /\ published' = [l \in Lines |-> 0]
  /\ missed' = missed \cup
       {<<"torn", d>> : d \in (EventsOf(agent.ctx.recent) \cap acked) \
                              (IF live.state = "whole"
                               THEN EventsOf(live.ctx.recent) ELSE {})}
  /\ reordered' = IF live.state = "whole" THEN reordered ELSE Keys
  /\ UNCHANGED <<shared, log, sent, acked, live, cursor, outbox, host,
                 shown>>

AgentStarts ==
  /\ ~agent.up
  /\ agent' = [agent EXCEPT !.up = TRUE,
                            !.ctx = IF live.state = "whole" THEN live.ctx
                                    ELSE NoContext]
  /\ UNCHANGED <<shared, log, sent, acked, live, cursor, outbox,
                 outboxVars, shown, missed, reordered, budget>>

-----------------------------------------------------------------------------
LiveTypeOK ==
  /\ shared \in BOOLEAN
  /\ log \in Seq([says : Facts \cup {NoFact}, own : BOOLEAN, seq : Nat])
  /\ Len(log) <= MaxEvents
  /\ sent \in [1 .. MaxEvents -> 0 .. MaxDeliver] /\ acked \subseteq Events
  /\ agent.phase \in {"idle", "handled", "writing"}
  /\ agent.event \in 0 .. Len(log) /\ (agent.phase = "idle" <=> agent.event = 0)
  /\ \A ctx \in {agent.ctx, live.ctx} :
       /\ Len(ctx.recent) <= RecentCap /\ EventsOf(ctx.recent) \subseteq Events
       /\ ctx.facts \in [Keys -> 0 .. Len(log)] /\ ctx.last \in Nat
  /\ live.state \in {"absent", "torn", "whole"} /\ cursor \in Nat
  /\ outbox = [l \in 1 .. Len(outbox) |-> l] /\ Len(outbox) <= MaxLines
  /\ offset \in 0 .. Len(host.lines) /\ shown \subseteq Events
  /\ published \in [Lines -> 0 .. 1] /\ tried \subseteq Lines

(* An update the consumer has seen acknowledged is not gone before Claude   *)
(* has seen it: it was shown, or it is still above the cursor in live.json  *)
(* (in the agent's memory while the file is torn), or it is one of the      *)
(* named losses: numbered no higher than the cursor or than an update       *)
(* already in the file when it was handled, pushed out of the kept          *)
(* updates, or lost with a torn file when the agent was restarted.          *)
AckedIsReadable ==
  \A e \in acked :
    \/ log[e].own \/ e \in shown
    \/ \E cause \in {"behind", "evicted", "torn"} : <<cause, e>> \in missed
    \/ IF live.state = "whole" THEN e \in Unread(live.ctx, cursor)
       ELSE agent.up /\ e \in Unread(agent.ctx, cursor)

(* Packages, configs and contracts say what the newest event about them      *)
(* said, whatever saves failed and whatever was delivered twice, in memory   *)
(* and in the file, except for keys whose events overtook each other and     *)
(* after a restart from a torn file.                                         *)
ContextIsCurrent ==
  \A k \in Keys \ reordered :
    LET about == {e \in Events : sent[e] > 0 /\ ~log[e].own /\ log[e].says.key = k}
        e == Highest(about)
        said == IF log[e].says.set THEN e ELSE 0
    IN about # {} /\ e \in acked =>
         /\ agent.up => agent.ctx.facts[k] = said
         /\ live.state = "whole" => live.ctx.facts[k] = said

(* Between two starts of the agent, every line the outbox loop has gone past  *)
(* was published once, or lost to a failed publish, or is about to be sent;   *)
(* no line is sent twice and none is skipped.                                 *)
LinesAccounted ==
  agent.up =>
    /\ \A l \in Lines : published[l] <= 1 /\ (published[l] = 1 => l \in tried)
    /\ tried \cup ToSet(batch) = 1 .. offset /\ tried \cap ToSet(batch) = {}

-----------------------------------------------------------------------------
LiveNext ==
  \/ PublishEvent
  \/ \E e \in Events : Skip(e) \/ Handle(e)
  \/ Truncate \/ Write \/ SaveFails
  \/ GetContextUpdates \/ AppendLine
  \/ TakeLines \/ PublishLine
  \/ AgentDies \/ AgentStarts

LiveSpec == LiveInit /\ [][LiveNext]_liveVars

\* The loop ticks while the agent runs, and systemd starts the agent again
LiveFairness ==
  /\ WF_liveVars(TakeLines) /\ WF_liveVars(PublishLine) /\ WF_liveVars(AgentStarts)
LiveFairSpec == LiveSpec /\ LiveFairness

(* A line of the outbox is published, or at least tried: every line where the *)
(* directory is shared, and where it is not, as in the containers the          *)
(* repository starts, those written before the one copy the loop makes         *)
(* (outboxLoop); the later ones stay in the container.                         *)
LinesAreTried ==
  \A l \in Lines : l \in DOMAIN outbox /\ (shared \/ ~host.exists) ~> l \in tried
=============================================================================
