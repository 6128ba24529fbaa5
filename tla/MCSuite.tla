------------------------------ MODULE MCSuite ------------------------------
(***************************************************************************)
(* The components that share no state, side by side in one instance for    *)
(* TLC: "part" says which of them a behaviour is about, the others stay at *)
(* their initial state.  The states of the run are the sum of theirs.      *)
(***************************************************************************)
EXTENDS LiveContext, ChangeWatch, BranchContexts, Billing, Autoscale, DeviceAuth, Intake,
        LocalMesh, KeyCache, RateLimiter

CONSTANTS Parts, r1, main, feat, e1, e2, i1, o1

VARIABLE part

MCSizeOf == [e \in Sessions |-> "medium"]
MCMultiplier == "small" :> 1 @@ "medium" :> 3
Bounds(least, most, aim, up, down) ==
  [min |-> least, max |-> most, target |-> aim, up |-> up, down |-> down]
MCPolicies == {Bounds(1, 3, 70, 85, 30), Bounds(0, 2, 70, 85, 30), Bounds(1, 3, 90, 60, 30)}
MCBurst == i1 :> 2 @@ o1 :> 3
MCRate == i1 :> 1 @@ o1 :> 1
MCKeyOf == [k \in Learned |-> "pattern"]
MCForms == {NoIdentity} \cup {[user |-> u, org |-> NoUser] : u \in Personal}
MCHome == [i \in Issues |-> o1]

\* the initial states of a part that is left alone
AtRest ==
  /\ part # "agent" => shared
  /\ part # "watch" => \A a \in Peers : installed[a] = {} /\ installing[a] = {}
  /\ part # "billing" => settings.customer = 0
  /\ part # "autoscale" => feeds
  /\ part # "local" => watcher[Listener].pc = "gone"
  /\ part # "keys" => Published = SigningKeys /\ keyCache.of = 1

SuiteInit ==
  /\ part \in Parts
  /\ LiveInit /\ WatchInit /\ ContextInit /\ BillingInit /\ AutoscaleInit
  /\ DeviceInit /\ IntakeInit /\ LocalInit /\ KeyInit /\ LimitInit
  /\ AtRest

SuiteNext ==
  /\ UNCHANGED part
  /\ \/ part = "agent" /\ LiveNext
     \/ part # "agent" /\ UNCHANGED liveVars
  /\ \/ part = "watch" /\ WatchNext
     \/ part # "watch" /\ UNCHANGED watchVars
  /\ \/ part = "contexts" /\ ContextNext
     \/ part # "contexts" /\ UNCHANGED contextVars
  /\ \/ part = "billing" /\ BillingNext
     \/ part # "billing" /\ UNCHANGED billingVars
  /\ \/ part = "autoscale" /\ AutoscaleNext
     \/ part # "autoscale" /\ UNCHANGED autoscaleVars
  /\ \/ part = "device" /\ DeviceNext
     \/ part # "device" /\ UNCHANGED deviceVars
  /\ \/ part = "intake" /\ IntakeNext
     \/ part # "intake" /\ UNCHANGED intakeVars
  /\ \/ part = "local" /\ LocalNext
     \/ part # "local" /\ UNCHANGED localVars
  /\ \/ part = "keys" /\ KeyNext
     \/ part # "keys" /\ UNCHANGED keyVars
  /\ \/ part = "limits" /\ LimitNext
     \/ part # "limits" /\ UNCHANGED limitVars

suiteVars == <<part, liveVars, watchVars, contextVars, billingVars, autoscaleVars,
               deviceVars, intakeVars, localVars, keyVars, limitVars>>
SuiteSpec == SuiteInit /\ [][SuiteNext]_suiteVars

-----------------------------------------------------------------------------
(* The parts' properties, each asked of the behaviours of its part.          *)

\* the type invariants of all parts
TypesOK ==
  /\ part = "agent" => LiveTypeOK
  /\ part = "watch" => WatchTypeOK
  /\ part = "contexts" => ContextTypeOK
  /\ part = "billing" => BillingTypeOK
  /\ part = "autoscale" => AutoscaleTypeOK
  /\ part = "device" => DeviceTypeOK
  /\ part = "intake" => IntakeTypeOK
  /\ part = "local" => LocalTypeOK
  /\ part = "keys" => KeyTypeOK
  /\ part = "limits" => LimitTypeOK

\* LiveContext, ChangeWatch and LocalMesh: what the agent has acknowledged can be
\* read and is the newest of its key, every line Claude wrote is published, queued
\* or lost to a named accident; what the peers of an agent were told is what it
\* saw; and without NATS a client hears each event once
AgentSafe ==
  /\ part = "agent" => AckedIsReadable /\ ContextIsCurrent /\ LinesAccounted
  /\ part = "watch" => ChangesAreTold
  /\ part = "local" => HeardOnce

\* Billing: the gate closes when the credits are used, and what Stripe was told
\* covers the row, but for the second by which the row rounds up
BillingSafe == part = "billing" => GateCloses /\ MeterCoversRow

\* Autoscale: the number stays within the policy, capacity is kept, and a row
\* at running has its container, unless its server went with the environment
AutoscaleSafe ==
  part = "autoscale" => CountStaysInLimits /\ CapacityKept /\ RowsHaveContainers

\* DeviceAuth, KeyCache, RateLimiter and Intake: a login approved once has
\* all of that approval; the server uses the signing keys as the provider has them; nobody
\* gains or loses by the clean-up of the limits; a second task for an issue comes
\* of a race only, and a waiting task has somebody to launch it
EntranceSafe ==
  /\ part = "device" => OneApprovalWhole
  /\ part = "keys" => KeysSafe
  /\ part = "limits" => LimitsKept
  /\ part = "intake" => DuplicatesAreRaces /\ PendingIsLaunched

\* Billing and Autoscale: credits once used stay used, a set-up forgets no
\* customer and no subscription, and load never takes replicas away
NothingTakenBack == CreditsNeverFall /\ SetupNeverForgets /\ HotNeverShrinks
=============================================================================
