---------------------------- MODULE ChangeWatch ----------------------------
(***************************************************************************)
(* The change watchers of cmd/agent: every agent lists its container's     *)
(* packages and variables, publishes what changed since its last scan, and *)
(* installs what its peers publish, which its own next scan then sees.  An  *)
(* agent that starts also installs, beside its first scans, the packages of *)
(* the branch's saved context (replayContext).                             *)
(***************************************************************************)
EXTENDS Naturals, Sequences, FiniteSets, SequencesExt

CONSTANTS
  Peers,          \* environments of one branch, an agent in each
  Packages, Npm,  \* packages; those npm manages, the others are pip's
  Saved,          \* installed_packages of the branch's saved context
  MaxChanges,     \* bound: installs, removals and new values by users
  MaxLost         \* bound: publishes that fail, restarts of an agent

ASSUME WatchAssumption ==
  IsFiniteSet(Peers) /\ IsFiniteSet(Packages) /\ Npm \subseteq Packages /\ Saved \subseteq Packages
  /\ MaxChanges \in Nat /\ MaxLost \in Nat

VARIABLES
  installed,      \* packages in each container
  variable,       \* the value of an important variable in each container
  tracker,        \* [initialized, pkgs, value] of each agent's changeTracker
  inbox,          \* events on their way to each agent's durable consumer
  installing,     \* what the autoInstallPackage goroutines and the replay of each
                  \* agent have yet to install
  told,           \* history: packages each agent's peers believe it has
  untold,         \* history: packages of each agent whose last change was not published
  used            \* [changes, lost]

watchVars == <<installed, variable, tracker, inbox, installing, told, untold, used>>

Arrival(p) == [type |-> "package_installed", what |-> p]
Removal(p) == [type |-> "package_removed", what |-> p]
NewConfig(v) == [type |-> "config_changed", what |-> v]

NewTracker == [initialized |-> FALSE, pkgs |-> {}, value |-> 0]

\* replayContext, from the start of an agent: what it will install, nothing if the
\* container is not up within a minute or the context cannot be had
ReplayContext == {{}, Saved}

WatchInit ==
  /\ installed \in [Peers -> {{}, Packages}]
  /\ variable = [a \in Peers |-> 1]
  /\ tracker = [a \in Peers |-> NewTracker]
  /\ inbox = [a \in Peers |-> <<>>]
  /\ installing \in [Peers -> ReplayContext]
  /\ told = [a \in Peers |-> {}] /\ untold = [a \in Peers |-> Packages]
  /\ used = [changes |-> 0, lost |-> 0]

(* Whoever works in a container. *)
UserChange(a) ==
  /\ used.changes < MaxChanges /\ used' = [used EXCEPT !.changes = @ + 1]
  /\ \/ /\ \E p \in Packages :
             installed' = [installed EXCEPT ![a] = IF p \in @ THEN @ \ {p} ELSE @ \cup {p}]
        /\ UNCHANGED variable
     \/ variable' = [variable EXCEPT ![a] = @ + 1] /\ UNCHANGED installed
  /\ UNCHANGED <<tracker, inbox, installing, told, untold>>

-----------------------------------------------------------------------------
(* detectAndPublish.  Each listing is a command of its own and may fail;      *)
(* what a listing finds: pip installs and removals, npm installs only, new    *)
(* values of a variable; no packages before the tracker is initialized, which *)
(* the first scan does whether or not its listings succeeded.                 *)
Listings == {"pip", "npm", "env"}
Listed(seen) == (IF "pip" \in seen THEN Packages \ Npm ELSE {})
                  \cup (IF "npm" \in seen THEN Npm ELSE {})

New(a, seen) ==
  IF tracker[a].initialized THEN (installed[a] \ tracker[a].pkgs) \cap Listed(seen) ELSE {}
Gone(a, seen) ==
  IF tracker[a].initialized
  THEN ((tracker[a].pkgs \ installed[a]) \ Npm) \cap Listed(seen) ELSE {}
\* detectEnvChanges runs after `initialized` is set, but knows no old value then
NewValue(a, seen) ==
  "env" \in seen /\ tracker[a].value \notin {0, variable[a]}

Changes(a, seen) ==
  {Arrival(p) : p \in New(a, seen)} \cup {Removal(p) : p \in Gone(a, seen)}
    \cup (IF NewValue(a, seen) THEN {NewConfig(variable[a])} ELSE {})

Delivered(a, events) == [b \in Peers |-> IF b = a THEN inbox[b] ELSE inbox[b] \o events]

\* mutant of Noted: the tracker keeps the list of the first scan
NotedOnce(a, seen) ==
  [initialized |-> TRUE,
   pkgs |-> IF tracker[a].initialized THEN tracker[a].pkgs ELSE installed[a] \cap Listed(seen),
   value |-> IF "env" \in seen THEN variable[a] ELSE tracker[a].value]

\* tracker.pipPackages = current, tracker.npmPackages = current, ...
Noted(a, seen) ==
  [initialized |-> TRUE,
   pkgs |-> (installed[a] \cap Listed(seen)) \cup (tracker[a].pkgs \ Listed(seen)),
   value |-> IF "env" \in seen THEN variable[a] ELSE tracker[a].value]

Scan(a) ==
  \E seen \in SUBSET Listings : \E lost \in SUBSET Changes(a, seen) :
    LET sent == Changes(a, seen) \ lost
        missing == {p \in Packages : Arrival(p) \in lost \/ Removal(p) \in lost}
        quietly == (tracker[a].pkgs \ installed[a]) \cap Npm \cap Listed(seen)
    IN /\ used' = [used EXCEPT !.lost = @ + Cardinality(lost) + Cardinality(Listings \ seen)]
       /\ used'.lost <= MaxLost
       /\ inbox' = Delivered(a, SetToSeq(sent))
       /\ tracker' = [tracker EXCEPT ![a] = Noted(a, seen)]
       /\ told' = [told EXCEPT ![a] = (@ \cup {p \in Packages : Arrival(p) \in sent})
                                      \ {p \in Packages : Removal(p) \in sent}]
       /\ untold' = [untold EXCEPT ![a] =
            IF tracker[a].initialized
            THEN (@ \ (New(a, seen) \cup Gone(a, seen))) \cup missing \cup quietly
            ELSE Packages]
       /\ UNCHANGED <<installed, variable, installing>>

-----------------------------------------------------------------------------
(* Handle: an installed package starts autoInstallPackage in a goroutine; a  *)
(* removal and a variable change nothing a scan could see.                   *)
Receive(a) ==
  /\ inbox[a] # <<>>
  /\ inbox' = [inbox EXCEPT ![a] = Tail(@)]
  /\ installing' = [installing EXCEPT ![a] =
       IF Head(inbox[a]).type = "package_installed" THEN @ \cup {Head(inbox[a]).what} ELSE @]
  /\ UNCHANGED <<installed, variable, tracker, told, untold, used>>

AutoInstall(a, p) ==
  /\ p \in installing[a]
  /\ installing' = [installing EXCEPT ![a] = @ \ {p}]
  /\ \/ installed' = [installed EXCEPT ![a] = @ \cup {p}] /\ UNCHANGED used
     \/ /\ used.lost < MaxLost /\ used' = [used EXCEPT !.lost = @ + 1]
        /\ UNCHANGED installed
  /\ UNCHANGED <<variable, tracker, inbox, told, untold>>

\* A restarted agent has a new tracker; its installs are gone with it, and it replays
\* the context again: what a user has removed since comes back
RestartAgent(a) ==
  /\ used.lost < MaxLost /\ used' = [used EXCEPT !.lost = @ + 1]
  /\ tracker' = [tracker EXCEPT ![a] = NewTracker]
  /\ \E replay \in ReplayContext : installing' = [installing EXCEPT ![a] = replay]
  /\ untold' = [untold EXCEPT ![a] = Packages]
  /\ UNCHANGED <<installed, variable, inbox, told>>

WatchNext ==
  \E a \in Peers :
    \/ UserChange(a) \/ Scan(a) \/ Receive(a) \/ RestartAgent(a)
    \/ \E p \in Packages : AutoInstall(a, p)

WatchSpec == WatchInit /\ [][WatchNext]_watchVars

\* Tickers tick, the bus delivers, goroutines run
WatchFairness ==
  \A a \in Peers : /\ WF_watchVars(Scan(a)) /\ WF_watchVars(Receive(a))
                   /\ \A p \in Packages : WF_watchVars(AutoInstall(a, p))
WatchFairSpec == WatchSpec /\ WatchFairness

-----------------------------------------------------------------------------
WatchTypeOK ==
  /\ installed \in [Peers -> SUBSET Packages] /\ told \in [Peers -> SUBSET Packages]
  /\ untold \in [Peers -> SUBSET Packages] /\ installing \in [Peers -> SUBSET Packages]
  /\ variable \in [Peers -> 1 .. MaxChanges + 1]
  /\ tracker \in [Peers -> [initialized : BOOLEAN, pkgs : SUBSET Packages,
                            value : 0 .. MaxChanges + 1]]
  /\ \A a \in Peers : \A i \in DOMAIN inbox[a] :
       \/ inbox[a][i] \in {Arrival(p) : p \in Packages} \cup {Removal(p) : p \in Packages}
       \/ inbox[a][i] \in {NewConfig(v) : v \in 1 .. MaxChanges + 1}

(* What peers were told of a container is what the last scan found, package  *)
(* by package, except where the change is known not to have been published:  *)
(* it was there at the first scan of a run, its event was lost, or npm        *)
(* removed it.                                                                *)
ChangesAreTold ==
  \A a \in Peers : \A p \in Packages \ untold[a] :
    p \in told[a] <=> p \in tracker[a].pkgs

(* When users stop, agents installing what they hear of and reporting what   *)
(* they find installed do not keep each other busy for ever.                 *)
PackagesSettle ==
  <>[](\A a \in Peers : inbox[a] = <<>> /\ installing[a] = {} /\ Changes(a, Listings) = {})
=============================================================================
