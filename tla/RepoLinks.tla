----------------------------- MODULE RepoLinks -----------------------------
(***************************************************************************)
(* One repository and the organisations that link it                       *)
(* (internal/services/repo_service.go: ConnectRepo, DisconnectRepo,        *)
(* handleInstallation, the queries of the webhook handlers;                *)
(* github_service.go: the connection of an organisation to GitHub, and the *)
(* webhooks it makes and deletes).  GitHub keeps one webhook of this       *)
(* server on a repository, whoever asked for it; each row of               *)
(* repo_connections may or may not remember its number.  The GitHub App,   *)
(* if installed, is a second route by which the same events arrive.        *)
(*                                                                         *)
(* A request is several steps: the call of GitHub and the statement on the *)
(* row, with other requests in between.  Rows of other repositories share  *)
(* nothing with these but the GitHub connection.                           *)
(***************************************************************************)
EXTENDS Naturals, FiniteSets

CONSTANTS Owners, NoOwner, \* organisations
          Linkers,     \* requests to connect and disconnect in progress at a time
          Installation,\* the App's installation number
          MaxHooks,    \* bound: webhooks made in a behaviour
          MaxRowIds,   \* bound: rows inserted
          MaxTurns,    \* bound: GitHub events, failed calls, removed GitHub connections,
                       \* and requests of one organisation that cross or repeat
          Kinds        \* events of the repository that happen

ASSUME LinkAssumption ==
  /\ NoOwner \notin Owners /\ Installation \in Nat \ {0}
  /\ {MaxHooks, MaxRowIds, MaxTurns} \subseteq Nat
  /\ Kinds \cap {"created", "deleted"} = {}

VARIABLES
  signed,  \* organisations with a github_connections row
  links,   \* repo_connections: [Owners -> [id, hook, installation]], id 0: no row
  hook,    \* the webhook at GitHub, 0 for none
  app,     \* the App is installed
  linker,  \* [Linkers -> [at, org, id, hook]]
  notice,  \* the GitHub event on its way: [kind, due, served, held, lost]
  given,   \* numbers given so far: [hooks, rows, turns]
  upset    \* history: a call failed, an organisation signed out, two of its
           \* requests crossed, or it connected what it had

linkVars == <<signed, links, hook, app, linker, notice, given, upset>>

NoLink == [id |-> 0, hook |-> 0, installation |-> 0]
AtRestLinker == [at |-> "idle", org |-> NoOwner, id |-> 0, hook |-> 0]
Unserved == [o \in Owners |-> 0]
NoNotice == [kind |-> "none", due |-> {}, served |-> Unserved, held |-> {}, lost |-> FALSE]

Linked == {o \in Owners : links[o].id # 0}
BusyWith(o) == {c \in Linkers : linker[c].at # "idle" /\ linker[c].org = o}

LinkTypeOK ==
  /\ signed \subseteq Owners
  /\ links \in [Owners -> [id : 0..MaxRowIds, hook : 0..MaxHooks, installation : {0}]]
  /\ hook \in 0..MaxHooks
  /\ app \in BOOLEAN /\ upset \in BOOLEAN
  /\ linker \in [Linkers -> [at : {"idle", "hook", "insert", "unhook", "delete"},
                             org : Owners \cup {NoOwner}, id : 0..MaxRowIds, hook : 0..MaxHooks]]
  /\ notice.due \subseteq {"hook", "app"} /\ notice.held \subseteq Owners
  /\ given \in [hooks : 0..MaxHooks, rows : 0..MaxRowIds, turns : 0..MaxTurns]

LinkInit ==
  /\ signed \in SUBSET Owners /\ links = [o \in Owners |-> NoLink] /\ hook = 0
  /\ app \in BOOLEAN
  /\ linker = [c \in Linkers |-> AtRestLinker]
  /\ notice = NoNotice
  /\ given = [hooks |-> 0, rows |-> 0, turns |-> 0]
  /\ upset = FALSE

\* what counts against the bound
Turn == given.turns < MaxTurns /\ given' = [given EXCEPT !.turns = @ + 1]

\* a call that fails, or whose answer is lost
Break == Turn /\ upset' = TRUE

\* what two requests of an organisation may do to each other
Crossing(yes) == \/ yes /\ Break
                 \/ ~yes /\ UNCHANGED <<given, upset>>

\* what remains true of the event on its way once the table is "now"
Followed(now, there) ==
  [notice EXCEPT !.held = {o \in @ : now[o].id # 0 /\ there}]

-----------------------------------------------------------------------------
(* The organisation's connection to GitHub.                                  *)

\* the OAuth callback: the row is inserted or replaced
ExchangeCode(o) ==
  /\ o \notin signed
  /\ signed' = signed \cup {o}
  /\ UNCHANGED <<links, hook, app, linker, notice, given, upset>>

\* the row goes, whatever repositories are linked by it
DeleteConnection(o) ==
  /\ o \in signed /\ Break
  /\ signed' = signed \ {o}
  /\ UNCHANGED <<links, hook, app, linker, notice>>

-----------------------------------------------------------------------------
(* ConnectRepo: the check of the connection, the webhook, the row.           *)

AskToConnect(c, o) ==
  /\ linker[c].at = "idle" /\ o \in signed
  /\ linker' = [linker EXCEPT ![c] = [AtRestLinker EXCEPT !.at = "hook", !.org = o]]
  /\ Crossing(o \in Linked \/ BusyWith(o) # {})
  /\ UNCHANGED <<signed, links, hook, app, notice>>

Hooked(c, n) == linker' = [linker EXCEPT ![c] = [@ EXCEPT !.at = "insert", !.hook = n]]

\* CreateWebhook: 422 "already exists" counts as success, with the number 0; the
\* caller goes on after an error, with the number 0 too
CreateWebhook(c) ==
  /\ linker[c].at = "hook"
  /\ \/ /\ linker[c].org \in signed /\ hook = 0 /\ given.hooks < MaxHooks
        /\ hook' = given.hooks + 1 /\ Hooked(c, hook')
        /\ given' = [given EXCEPT !.hooks = @ + 1]
        /\ UNCHANGED upset
     \/ /\ linker[c].org \in signed => hook # 0
        /\ Hooked(c, 0) /\ UNCHANGED <<hook, given, upset>>
     \/ Break /\ Hooked(c, 0) /\ UNCHANGED hook
     \/ \* it was made, and the answer was lost
        /\ linker[c].org \in signed /\ hook = 0 /\ given.hooks < MaxHooks /\ given.turns < MaxTurns
        /\ hook' = given.hooks + 1 /\ Hooked(c, 0)
        /\ given' = [given EXCEPT !.hooks = @ + 1, !.turns = @ + 1]
        /\ upset' = TRUE
  /\ UNCHANGED <<signed, links, app, notice>>

\* INSERT ... ON CONFLICT DO UPDATE: a row that is there keeps its id and gets the
\* new number, 0 or not
SaveLink(c) ==
  LET l == linker[c]  old == links[l.org] IN
  /\ l.at = "insert"
  /\ linker' = [linker EXCEPT ![c] = AtRestLinker]
  /\ \/ /\ old.id # 0
        /\ links' = [links EXCEPT ![l.org].hook = l.hook]
        /\ UNCHANGED <<given, upset>>
     \/ /\ old.id = 0 /\ given.rows < MaxRowIds
        /\ links' = [links EXCEPT ![l.org] =
                       [id |-> given.rows + 1, hook |-> l.hook, installation |-> 0]]
        /\ given' = [given EXCEPT !.rows = @ + 1]
        /\ UNCHANGED upset
     \/ Break /\ UNCHANGED links
  /\ UNCHANGED <<signed, hook, app, notice>>

-----------------------------------------------------------------------------
(* DisconnectRepo: the row is read, the webhook deleted, the row deleted.    *)

AskToDisconnect(c, o) ==
  /\ linker[c].at = "idle" /\ o \in Linked
  /\ linker' = [linker EXCEPT ![c] =
                 [at |-> "unhook", org |-> o, id |-> links[o].id, hook |-> links[o].hook]]
  /\ Crossing(BusyWith(o) # {})
  /\ UNCHANGED <<signed, links, hook, app, notice>>

\* mutant: the row is deleted and the webhook left to GitHub
DeleteWebhookNever(c) ==
  /\ linker[c].at = "unhook"
  /\ linker' = [linker EXCEPT ![c].at = "delete"]
  /\ UNCHANGED <<signed, links, hook, app, notice, given, upset>>

\* DeleteWebhook: nothing to do without a number or without a connection; a
\* webhook that is not there counts as deleted; an error is only logged
DeleteWebhook(c) ==
  LET l == linker[c] IN
  /\ l.at = "unhook"
  /\ linker' = [linker EXCEPT ![c].at = "delete"]
  /\ \/ /\ hook' = IF l.hook = hook /\ l.org \in signed THEN 0 ELSE hook
        /\ notice' = Followed(links, hook' # 0)
        /\ UNCHANGED <<given, upset>>
     \/ Break /\ UNCHANGED <<hook, notice>>
  /\ UNCHANGED <<signed, links, app>>

\* by the id read at first, whatever the row has become
DeleteLink(c) ==
  LET l == linker[c] IN
  /\ l.at = "delete"
  /\ linker' = [linker EXCEPT ![c] = AtRestLinker]
  /\ \/ /\ links' = IF links[l.org].id = l.id THEN [links EXCEPT ![l.org] = NoLink] ELSE links
        /\ notice' = Followed(links', hook # 0)
        /\ UNCHANGED <<given, upset>>
     \/ Break /\ UNCHANGED <<links, notice>>
  /\ UNCHANGED <<signed, hook, app>>

-----------------------------------------------------------------------------
(* GitHub: the App, and events of the repository by each route there is.     *)

Emit(kind, routes) ==
  /\ notice.due = {} /\ Turn
  /\ notice' = [kind |-> kind, due |-> routes, served |-> Unserved, lost |-> FALSE,
                held |-> {o \in Linked : "hook" \in routes}]

ToggleApp ==
  /\ app' = ~app
  /\ Emit(IF app THEN "deleted" ELSE "created", {"app"})
  /\ UNCHANGED <<signed, links, hook, linker, upset>>

Happens(kind) ==
  /\ hook # 0 \/ app
  /\ Emit(kind, IF hook = 0 THEN {"app"} ELSE IF app THEN {"hook", "app"} ELSE {"hook"})
  /\ UNCHANGED <<signed, links, hook, app, linker, upset>>

\* the payload of a repository's own webhook has no installation
NumberOf(route) == IF route = "app" THEN Installation ELSE 0

\* mutant: the query on push as on creation
AddressedAnyway(kind, route) ==
  {o \in Linked : links[o].installation = NumberOf(route) \/ links[o].installation = 0}

\* the rows a handler acts on: a creation or a merge takes those without an
\* installation as well, a push or a deletion does not
Addressed(kind, route) ==
  {o \in Linked : \/ links[o].installation = NumberOf(route)
                  \/ kind \in {"create", "pull_request"} /\ links[o].installation = 0}

\* handleInstallation, or one handler's loop over the organisations it finds
HandleWebhookEvent(route) ==
  /\ route \in notice.due
  /\ IF notice.kind \in {"created", "deleted"}
     THEN /\ links' = [o \in Owners |->
                         IF notice.kind = "deleted" /\ links[o].installation = NumberOf(route)
                           THEN NoLink ELSE links[o]]
          /\ notice' = [notice EXCEPT !.due = @ \ {route}]
     ELSE /\ notice' = [notice EXCEPT !.due = @ \ {route},
                          !.served = [o \in Owners |->
                             @[o] + IF o \in Addressed(notice.kind, route) THEN 1 ELSE 0]]
          /\ UNCHANGED links
  /\ UNCHANGED <<signed, hook, app, linker, given, upset>>

\* the server is down or refuses: nobody sends the event again
LoseNotice(route) ==
  /\ route \in notice.due
  /\ notice' = [notice EXCEPT !.due = @ \ {route}, !.lost = TRUE]
  /\ UNCHANGED <<signed, links, hook, app, linker, given, upset>>

-----------------------------------------------------------------------------
LinkNext ==
  \/ \E o \in Owners : ExchangeCode(o) \/ DeleteConnection(o)
  \/ \E c \in Linkers :
       \/ \E o \in Owners : AskToConnect(c, o) \/ AskToDisconnect(c, o)
       \/ CreateWebhook(c) \/ SaveLink(c) \/ DeleteWebhook(c) \/ DeleteLink(c)
  \/ ToggleApp
  \/ \E k \in Kinds : Happens(k)
  \/ \E r \in {"hook", "app"} : HandleWebhookEvent(r) \/ LoseNotice(r)

LinkSpec == LinkInit /\ [][LinkNext]_linkVars

-----------------------------------------------------------------------------
(* Two routes, one effect: a push is handled at most once for an            *)
(* organisation, with the App installed or not, and exactly once for one    *)
(* that was linked all along while the webhook was there; a creation or a   *)
(* merge at least once for such a one, and once per route at most.          *)
EventsServed ==
  \A o \in Owners :
    /\ notice.kind \in {"push", "delete"} => notice.served[o] <= 1
    /\ notice.served[o] <= 2
    /\ (notice.kind \in Kinds
        /\ notice.due = {} /\ ~notice.lost /\ o \in notice.held) => notice.served[o] >= 1

(* Between requests that do not cross, whatever other organisations do at   *)
(* the same time: the webhook at GitHub is the one that exactly one row, or *)
(* the request that is about to write or to delete that row, remembers, and *)
(* no settled row remembers one that is gone.                               *)
WebhookRemembered ==
  ~upset =>
    /\ hook # 0 => \/ \E o \in Owners : links[o].hook = hook
                   \/ \E c \in Linkers : linker[c].at = "insert" /\ linker[c].hook = hook
    /\ \A o \in Linked : links[o].hook # 0 /\ BusyWith(o) = {} => links[o].hook = hook
    /\ \A o, p \in Linked : links[o].hook = links[p].hook /\ links[o].hook # 0
                            /\ BusyWith(o) \cup BusyWith(p) = {} => o = p

LinksSafe == EventsServed /\ WebhookRemembered

=============================================================================
