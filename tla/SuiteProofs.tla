----------------------------- MODULE SuiteProofs -----------------------------
(***************************************************************************)
(* Theorems of the components side by side (MCSuite).  They share no       *)
(* variable, so a behaviour of the whole is, seen through the variables of *)
(* one of them, a behaviour of that component's specification: what        *)
(* ServiceProofs, UsageProofs and AgentProofs prove of each holds of all   *)
(* together, for every value of the constants.                             *)
(***************************************************************************)
EXTENDS MCSuite, ServiceProofs, UsageProofs, AgentProofs

-----------------------------------------------------------------------------
(* Each part runs as its own specification says, or stands still.            *)

LEMMA SuiteRunsLive == SuiteSpec => LiveSpec
<1>1. SuiteInit => LiveInit
  BY DEF SuiteInit
<1>2. [SuiteNext]_suiteVars => [LiveNext]_liveVars
  BY DEF SuiteNext, suiteVars
<1> QED BY <1>1, <1>2, PTL DEF SuiteSpec, LiveSpec

LEMMA SuiteRunsWatch == SuiteSpec => WatchSpec
<1>1. SuiteInit => WatchInit
  BY DEF SuiteInit
<1>2. [SuiteNext]_suiteVars => [WatchNext]_watchVars
  BY DEF SuiteNext, suiteVars
<1> QED BY <1>1, <1>2, PTL DEF SuiteSpec, WatchSpec

LEMMA SuiteRunsContext == SuiteSpec => ContextSpec
<1>1. SuiteInit => ContextInit
  BY DEF SuiteInit
<1>2. [SuiteNext]_suiteVars => [ContextNext]_contextVars
  BY DEF SuiteNext, suiteVars
<1> QED BY <1>1, <1>2, PTL DEF SuiteSpec, ContextSpec

LEMMA SuiteRunsBilling == SuiteSpec => BillingSpec
<1>1. SuiteInit => BillingInit
  BY DEF SuiteInit
<1>2. [SuiteNext]_suiteVars => [BillingNext]_billingVars
  BY DEF SuiteNext, suiteVars
<1> QED BY <1>1, <1>2, PTL DEF SuiteSpec, BillingSpec

LEMMA SuiteRunsAutoscale == SuiteSpec => AutoscaleSpec
<1>1. SuiteInit => AutoscaleInit
  BY DEF SuiteInit
<1>2. [SuiteNext]_suiteVars => [AutoscaleNext]_autoscaleVars
  BY DEF SuiteNext, suiteVars
<1> QED BY <1>1, <1>2, PTL DEF SuiteSpec, AutoscaleSpec

LEMMA SuiteRunsDevice == SuiteSpec => DeviceSpec
<1>1. SuiteInit => DeviceInit
  BY DEF SuiteInit
<1>2. [SuiteNext]_suiteVars => [DeviceNext]_deviceVars
  BY DEF SuiteNext, suiteVars
<1> QED BY <1>1, <1>2, PTL DEF SuiteSpec, DeviceSpec

LEMMA SuiteRunsIntake == SuiteSpec => IntakeSpec
<1>1. SuiteInit => IntakeInit
  BY DEF SuiteInit
<1>2. [SuiteNext]_suiteVars => [IntakeNext]_intakeVars
  BY DEF SuiteNext, suiteVars
<1> QED BY <1>1, <1>2, PTL DEF SuiteSpec, IntakeSpec

LEMMA SuiteRunsLocal == SuiteSpec => LocalInit /\ [][LocalNext]_localVars
<1>1. SuiteInit => LocalInit
  BY DEF SuiteInit
<1>2. [SuiteNext]_suiteVars => [LocalNext]_localVars
  BY DEF SuiteNext, suiteVars
<1> QED BY <1>1, <1>2, PTL DEF SuiteSpec

LEMMA SuiteRunsKey == SuiteSpec => KeySpec
<1>1. SuiteInit => KeyInit
  BY DEF SuiteInit
<1>2. [SuiteNext]_suiteVars => [KeyNext]_keyVars
  BY DEF SuiteNext, suiteVars
<1> QED BY <1>1, <1>2, PTL DEF SuiteSpec, KeySpec

LEMMA SuiteRunsLimit == SuiteSpec => LimitSpec
<1>1. SuiteInit => LimitInit
  BY DEF SuiteInit
<1>2. [SuiteNext]_suiteVars => [LimitNext]_limitVars
  BY DEF SuiteNext, suiteVars
<1> QED BY <1>1, <1>2, PTL DEF SuiteSpec, LimitSpec

-----------------------------------------------------------------------------
(* What all of them keep.                                                    *)

\* Every component keeps to its types.
THEOREM SuiteTypes == SuiteSpec => []TypesOK
<1>1. /\ LiveTypeOK /\ WatchTypeOK /\ ContextTypeOK /\ BillingTypeOK /\ AutoscaleTypeOK
      /\ DeviceTypeOK /\ IntakeTypeOK /\ LocalTypeOK /\ KeyTypeOK /\ LimitTypeOK
      => TypesOK
  BY DEF TypesOK
<1> QED BY <1>1, SuiteRunsLive, SuiteRunsWatch, SuiteRunsContext, SuiteRunsBilling,
           SuiteRunsAutoscale, SuiteRunsDevice, SuiteRunsIntake, SuiteRunsLocal, SuiteRunsKey,
           SuiteRunsLimit, LiveTypes, WatchTypes, ContextTypes, BillingTypes, AutoscaleTypes,
           DeviceTypes, IntakeTypes, LocalTypes, KeyTypes, LimiterTypes, PTL

\* Nothing that reaches an agent is lost or told twice but by an accident the model
\* names: acknowledged updates stay readable and current until Claude has seen them, its
\* lines are sent once, its peers know its packages, and a client of the server without
\* NATS hears each event once (cmd/agent, LocalBus).
THEOREM AgentsLoseNothing == SuiteSpec => []AgentSafe
<1>1. AckedIsReadable /\ ContextIsCurrent /\ LinesAccounted /\ ChangesAreTold /\ HeardOnce
      => AgentSafe
  BY DEF AgentSafe
<1> QED BY <1>1, SuiteRunsLive, SuiteRunsWatch, SuiteRunsLocal, AckedStaysReadable,
           ContextStaysCurrent, NoLineTwice, PeersKnow, HeardExactlyOnce, PTL

\* A check that begins with the free credits used up lets nobody in without a card, but
\* for a misreading of the sessions, and the minutes Stripe was told of a session cover
\* its row, but for the second that the row may round up (CheckBillingAllowed, TrackUsageStop, ReportUsageToStripe).
THEOREM UsageIsPaid == SuiteSpec => []BillingSafe
<1>1. GateCloses /\ MeterCoversRow => BillingSafe
  BY DEF BillingSafe
<1> QED BY <1>1, SuiteRunsBilling, GateClosesInTime, MeterCovers, PTL

\* The number of replicas stays within its policy's, servers keep within what they hold,
\* and a row at running has its container, unless the environment was put to sleep or
\* destroyed with the server under it (ScalingMonitor, EnvService).
THEOREM ScalingIsBounded == SuiteSpec => []AutoscaleSafe
<1>1. CountStaysInLimits /\ CapacityKept /\ RowsHaveContainers => AutoscaleSafe
  BY DEF AutoscaleSafe
<1> QED BY <1>1, SuiteRunsAutoscale, CountsAreAskedFor, ServersHaveRoom, ReplicasRun, PTL

\* A login is what its only approval said, requests are checked with the provider's keys, nobody gains
\* by the clean-up of the rate limits, and an issue of Linear has a second task only by a
\* race (DeviceAuth handlers, JWKS, RateLimiter, LinearService).
THEOREM EntranceIsSafe == SuiteSpec => []EntranceSafe
<1>1. OneApprovalWhole /\ KeysSafe /\ LimitsKept /\ DuplicatesAreRaces /\ PendingIsLaunched
      => EntranceSafe
  BY DEF EntranceSafe
<1> QED BY <1>1, SuiteRunsDevice, SuiteRunsKey, SuiteRunsLimit, SuiteRunsIntake,
           LoginIsItsApproval, KeysAreTheProviders, CleanupInvisible, SecondTasksAreRaces,
           WaitingTasksHaveLaunches, PTL

\* No step of any component gives used credits back, forgets a customer or a subscription
\* at Stripe, or takes replicas away under load (Billing, ScalingMonitor).
THEOREM NothingIsTakenBack == SuiteSpec => NothingTakenBack
BY SuiteRunsBilling, SuiteRunsAutoscale, CreditsStay, SetupsRemember, LoadTakesNothing, PTL
   DEF NothingTakenBack
=============================================================================
