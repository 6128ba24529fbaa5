------------------------------- MODULE Billing -------------------------------
(***************************************************************************)
(* Usage, credits and Stripe, for one organisation (billing_service.go and *)
(* the handlers of server.go and task_executor.go that call it):           *)
(*   - the gate in front of a new environment, which reads ended sessions, *)
(*     running sessions and the payment method in separate queries;        *)
(*   - the start and the stop of a session, and the report to Stripe;      *)
(*   - the set-up of a customer and a subscription.                        *)
(* The clock ticks twice a second: what a row bills is rounded to whole    *)
(* seconds, what Stripe is told is cut to them.  Credits are per minute    *)
(* begun.  The clocks of the server and of the database are one.           *)
(***************************************************************************)
EXTENDS Integers, Sequences, FiniteSets

CONSTANTS
  Sessions,       \* environments, each with at most one usage event
  SizeOf,         \* their sizes
  Multiplier,     \* credits per minute of each size
  Included,       \* credits an organisation without a card may use each month
  Minute,         \* seconds in a minute (60)
  MonthTicks,     \* length of a month
  Callers,        \* requests and task runs
  MaxTicks,       \* bound: the clock
  MaxFailures     \* bound: statements and Stripe calls that fail

ASSUME BillingAssumption ==
  /\ IsFiniteSet(Sessions) /\ \A e \in Sessions : Multiplier[SizeOf[e]] \in Nat \ {0}
  /\ Included \in Nat /\ {Minute, MonthTicks, MaxTicks} \subseteq Nat \ {0} /\ MaxFailures \in Nat

VARIABLES
  clock,
  usage,          \* rows of usage_events: [start, stop, billed], 0 when null
  environment,    \* "none", "up", "down"
  settings,       \* row of org_settings: [customer, sub], 0 when null
  owners,         \* Stripe: the customer of each subscription
  customers,      \* Stripe: how many customers there are
  cards,          \* Stripe: customers with a card
  meter,          \* Stripe: meter events [session, credits, recorded]
  caller,         \* what each caller is doing
  failures

billingVars == <<clock, usage, environment, settings, owners, customers, cards, meter,
                 caller, failures>>
stripe == <<owners, customers, cards>>

Sizes == {SizeOf[e] : e \in Sessions}
NoUse == [start |-> 0, stop |-> 0, billed |-> 0]
Fresh == [at |-> "free", session |-> CHOOSE e \in Sessions : TRUE, past |-> [z \in Sizes |-> 0],
          month |-> 0, start |-> 0, recorded |-> FALSE, customer |-> 0, exhausted |-> FALSE,
          misread |-> FALSE, allowed |-> FALSE]

\* an organisation that is new, or has been set up
BillingInit ==
  /\ clock = 1
  /\ usage = [e \in Sessions |-> NoUse]
  /\ environment = [e \in Sessions |-> "none"]
  /\ \/ settings = [customer |-> 0, sub |-> 0] /\ owners = <<>> /\ customers = 0
     \/ settings = [customer |-> 1, sub |-> 1] /\ owners = <<1>> /\ customers = 1
  /\ cards = {} /\ meter = {}
  /\ caller = [c \in Callers |-> Fresh] /\ failures = 0

Fails == failures < MaxFailures /\ failures' = failures + 1
Works == UNCHANGED failures
Go(c, place) == caller' = [caller EXCEPT ![c].at = place]

-----------------------------------------------------------------------------
(* Seconds of a time in ticks: EXTRACT(EPOCH ...)::INTEGER rounds, and       *)
(* int(Seconds()) cuts.  creditsForDuration bills at least MinBilledSeconds. *)
Rounded(t) == (t + 1) \div 2
Cut(t) == t \div 2
MinBilled == Minute
AtLeast(s, least) == IF s < least THEN least ELSE s
MinutesBegun(s) == (AtLeast(s, MinBilled) + Minute - 1) \div Minute
CreditsFor(size, s) == IF s <= 0 THEN 0 ELSE MinutesBegun(s) * Multiplier[size]

Month(t) == t \div MonthTicks
StartedIn(e, m) == usage[e].start # 0 /\ Month(usage[e].start) = m
Seconds(e) == IF usage[e].stop # 0 THEN usage[e].billed ELSE Rounded(clock - usage[e].start)

\* getUsageSecondsBySize: what its two queries count
Ended(m) == {e \in Sessions : StartedIn(e, m) /\ usage[e].stop # 0}
Running(m) == {e \in Sessions : StartedIn(e, m) /\ usage[e].stop = 0}

\* the sum of the natural numbers f[x]: as many as there are pairs of an x and one of
\* its units
Total(f) == Cardinality(UNION {{x} \X (1 .. f[x]) : x \in DOMAIN f})
SecondsOf(S, size) == Total([e \in {e \in S : SizeOf[e] = size} |-> Seconds(e)])
CreditsOf(past, S) == Total([z \in Sizes |-> CreditsFor(z, past[z] + SecondsOf(S, z))])
PastSeconds(m) == [z \in Sizes |-> SecondsOf(Ended(m), z)]

\* GetUsageSummary, had it read everything at once
UsedCredits(m) == CreditsOf(PastSeconds(m), Running(m))

HasPaymentMethod == settings.customer # 0 /\ settings.sub # 0 /\ settings.customer \in cards

-----------------------------------------------------------------------------
(* handleCreateEnvironment: CheckBillingAllowed, CreateEnvironment,          *)
(* TrackUsageStart, whose failure is only logged.                            *)
CheckEnded(c) ==
  /\ caller[c].at = "free" /\ Works
  /\ caller' = [caller EXCEPT ![c] = [Fresh EXCEPT !.at = "check", !.month = Month(clock),
                                 !.past = PastSeconds(Month(clock)),
                                 !.exhausted = UsedCredits(Month(clock)) >= Included]]
  /\ UNCHANGED <<clock, usage, environment, settings, meter, stripe>>

\* mutant of Allows: the last credit may be used twice
AllowsOneMore(used) == HasPaymentMethod \/ used <= Included
Allows(used) == HasPaymentMethod \/ used < Included

\* GetBillingStatus from the running sessions that were counted
Answer(c, counted, misread) ==
  LET open == Allows(CreditsOf(caller[c].past, counted)) IN
  caller' = [caller EXCEPT ![c].at = IF open THEN "create" ELSE "done",
                           ![c].allowed = open /\ ~HasPaymentMethod, ![c].misread = misread]

\* an error of the second query leaves the running sessions out
CheckRunning(c) ==
  /\ caller[c].at = "check"
  /\ \/ Works /\ Answer(c, Running(caller[c].month), caller[c].misread)
     \/ Fails /\ Answer(c, {}, TRUE)
  /\ UNCHANGED <<clock, usage, environment, settings, meter, stripe>>

CheckFails(c) ==
  /\ caller[c].at = "check" /\ Fails /\ Go(c, "done")
  /\ UNCHANGED <<clock, usage, environment, settings, meter, stripe>>

CreateEnvironment(c, e) ==
  /\ caller[c].at = "create" /\ environment[e] = "none" /\ Works
  /\ environment' = [environment EXCEPT ![e] = "up"]
  /\ caller' = [caller EXCEPT ![c].at = "track", ![c].session = e]
  /\ UNCHANGED <<clock, usage, settings, meter, stripe>>

TrackUsageStart(c) ==
  /\ caller[c].at = "track" /\ Go(c, "done")
  /\ \/ Works /\ usage' = [usage EXCEPT ![caller[c].session].start = clock]
     \/ Fails /\ UNCHANGED usage
  /\ UNCHANGED <<clock, environment, settings, meter, stripe>>

-----------------------------------------------------------------------------
(* handleDestroyEnvironment, cleanupEnv: TrackUsageStop, whose failure is    *)
(* only logged, and then the environment is destroyed.                       *)
StopRead(c, e) ==
  /\ caller[c].at = "free" /\ environment[e] = "up"
  /\ \/ Works /\ caller' = [caller EXCEPT ![c] = [Fresh EXCEPT !.at = "stop", !.session = e,
                               !.start = IF usage[e].stop = 0 THEN usage[e].start ELSE 0]]
     \/ Fails /\ caller' = [caller EXCEPT ![c] = [Fresh EXCEPT !.at = "stop", !.session = e]]
  /\ UNCHANGED <<clock, usage, environment, settings, meter, stripe>>

Billed(start) == AtLeast(Rounded(clock - start), MinBilled)

\* UPDATE ... WHERE stopped_at IS NULL: of the row that is there by then
StopUpdate(c) ==
  LET e == caller[c].session
      open == usage[e].start # 0 /\ usage[e].stop = 0
  IN /\ caller[c].at = "stop"
     /\ \/ /\ Works
           /\ usage' = IF open
                       THEN [usage EXCEPT ![e].stop = clock,
                               ![e].billed = Billed(usage[e].start)]
                       ELSE usage
           /\ caller' = [d \in Callers |->
                          IF d = c THEN [caller[c] EXCEPT !.recorded = TRUE,
                                           !.at = IF caller[c].start = 0 THEN "destroy" ELSE "report"]
                          ELSE IF open /\ caller[d].at = "check"
                          THEN [caller[d] EXCEPT !.misread = TRUE] ELSE caller[d]]
        \/ /\ Fails /\ UNCHANGED usage
           /\ Go(c, IF caller[c].start = 0 THEN "destroy" ELSE "report")
     /\ UNCHANGED <<clock, environment, settings, meter, stripe>>

\* mutant of Spent: the report forgets the minimum
SpentUnraised(c) == Cut(clock - caller[c].start)
Spent(c) == AtLeast(Cut(clock - caller[c].start), MinBilled)

\* ReportUsageToStripe: nothing without a subscription; an error is logged
Report(c) ==
  LET e == caller[c].session
  IN /\ caller[c].at = "report" /\ Go(c, "destroy")
     /\ \/ /\ settings.sub # 0 /\ settings.customer # 0 /\ Works
           /\ meter' = meter \cup {[session |-> e, credits |-> CreditsFor(SizeOf[e], Spent(c)),
                                    recorded |-> caller[c].recorded,
                                    customer |-> settings.customer]}
        \/ (settings.sub = 0 \/ settings.customer = 0) /\ Works /\ UNCHANGED meter
        \/ Fails /\ UNCHANGED meter
     /\ UNCHANGED <<clock, usage, environment, settings, stripe>>

DestroyEnvironment(c) ==
  /\ caller[c].at = "destroy" /\ Go(c, "done")
  /\ \/ Works /\ environment' = [environment EXCEPT ![caller[c].session] = "down"]
     \/ Fails /\ UNCHANGED environment
  /\ UNCHANGED <<clock, usage, settings, meter, stripe>>

-----------------------------------------------------------------------------
(* handleBillingSetup: EnsureStripeCustomer, CreateMeteredSubscription.  A   *)
(* failed reading counts as "no customer yet".                               *)
ReadSettings(c) ==
  /\ caller[c].at = "free"
  /\ \/ settings.customer # 0 /\ Works /\ Go(c, "subscribe")
     \/ settings.customer = 0 /\ Works /\ Go(c, "newCustomer")
     \/ Fails /\ Go(c, "newCustomer")
  /\ UNCHANGED <<clock, usage, environment, settings, meter, stripe>>

NewCustomer(c) ==
  /\ caller[c].at = "newCustomer"
  /\ \/ Works /\ customers' = customers + 1
        /\ caller' = [caller EXCEPT ![c].at = "saveCustomer", ![c].customer = customers + 1]
     \/ Fails /\ Go(c, "done") /\ UNCHANGED customers
  /\ UNCHANGED <<clock, usage, environment, settings, meter, owners, cards>>

\* mutant of Upsert: what is given overwrites, if it is nothing
UpsertAll(customer, sub) == settings' = [customer |-> customer, sub |-> sub]

\* upsertOrgSettings leaves what it is given no value for: COALESCE(NULLIF(..))
Upsert(customer, sub) ==
  settings' = [customer |-> IF customer = 0 THEN settings.customer ELSE customer,
               sub |-> IF sub = 0 THEN settings.sub ELSE sub]

SaveCustomer(c) ==
  /\ caller[c].at = "saveCustomer"
  /\ \/ Works /\ Upsert(caller[c].customer, 0) /\ Go(c, "subscribe")
     \/ Fails /\ Go(c, "done") /\ UNCHANGED settings
  /\ UNCHANGED <<clock, usage, environment, meter, stripe>>

\* reads the row again: returns the subscription that is there, or makes one
Subscribe(c) ==
  /\ caller[c].at = "subscribe"
  /\ \/ settings.sub # 0 /\ Works /\ Go(c, "done")
     \/ /\ settings.sub = 0 /\ settings.customer # 0 /\ Works
        /\ caller' = [caller EXCEPT ![c].at = "newSub", ![c].customer = settings.customer]
     \/ Fails /\ Go(c, "done")
  /\ UNCHANGED <<clock, usage, environment, settings, meter, stripe>>

NewSubscription(c) ==
  /\ caller[c].at = "newSub"
  /\ \/ Works /\ owners' = Append(owners, caller[c].customer)
        /\ caller' = [caller EXCEPT ![c].at = "saveSub", ![c].start = Len(owners) + 1]
     \/ Fails /\ Go(c, "done") /\ UNCHANGED owners
  /\ UNCHANGED <<clock, usage, environment, settings, meter, customers, cards>>

SaveSubscription(c) ==
  /\ caller[c].at = "saveSub" /\ Go(c, "done")
  /\ \/ Works /\ Upsert(0, caller[c].start)
     \/ Fails /\ UNCHANGED settings
  /\ UNCHANGED <<clock, usage, environment, meter, stripe>>

\* The billing portal, which opens for the customer in the row
AttachCard ==
  /\ settings.customer # 0 /\ cards' = cards \cup {settings.customer}
  /\ cards' # cards
  /\ UNCHANGED <<clock, usage, environment, settings, owners, customers, meter, caller, failures>>

Tick == /\ clock < MaxTicks /\ clock' = clock + 1
        /\ UNCHANGED <<usage, environment, settings, meter, caller, failures, stripe>>

BillingNext ==
  \/ \E c \in Callers :
       \/ CheckEnded(c) \/ CheckRunning(c) \/ CheckFails(c)
       \/ TrackUsageStart(c)
       \/ \E e \in Sessions : CreateEnvironment(c, e) \/ StopRead(c, e)
       \/ StopUpdate(c) \/ Report(c) \/ DestroyEnvironment(c)
       \/ ReadSettings(c) \/ NewCustomer(c) \/ SaveCustomer(c)
       \/ Subscribe(c) \/ NewSubscription(c) \/ SaveSubscription(c)
  \/ AttachCard \/ Tick

BillingSpec == BillingInit /\ [][BillingNext]_billingVars

-----------------------------------------------------------------------------
BillingTypeOK ==
  /\ clock \in 1 .. MaxTicks /\ failures \in 0 .. MaxFailures
  /\ usage \in [Sessions -> [start : 0 .. MaxTicks, stop : 0 .. MaxTicks, billed : Nat]]
  /\ environment \in [Sessions -> {"none", "up", "down"}]
  /\ settings.customer \in 0 .. customers /\ settings.sub \in 0 .. Len(owners)
  /\ owners \in Seq(1 .. customers) /\ cards \subseteq 1 .. customers

(* Credits used in a month never fall: neither the end of a session, nor a   *)
(* second stop of it, nor a failed one, gives back credits the gate had      *)
(* already counted.                                                          *)
CreditsNeverFall ==
  [][\A m \in 0 .. Month(clock) : UsedCredits(m)' >= UsedCredits(m)]_billingVars

(* "Once free credits are exhausted, a payment method is required to         *)
(* continue": a check that begins when they are exhausted does not let an    *)
(* organisation without a card pass, unless a session ended between its two  *)
(* readings, or the second failed.                                           *)
GateCloses ==
  \A c \in Callers : caller[c].allowed /\ caller[c].exhausted => caller[c].misread

(* What Stripe was told of a session, once the stop that told it had been    *)
(* recorded, is what the database bills for it or more, but for the one      *)
(* second by which the row may round up what the report cuts: a row of 61    *)
(* seconds bills two minutes where Stripe may be told of one.                *)
MeterCoversRow ==
  \A m \in meter :
    m.recorded => m.credits >= CreditsFor(SizeOf[m.session],
                                          AtLeast(usage[m.session].billed - 1, MinBilled))

(* A subscription, or a customer, once saved is not forgotten by another     *)
(* set-up, and no set-up replaces the subscription of a paying organisation  *)
(* by none.                                                                  *)
SetupNeverForgets ==
  [][ /\ settings.sub # 0 => settings'.sub # 0
      /\ settings.customer # 0 => settings'.customer # 0 ]_billingVars

=============================================================================
