-------------------------- MODULE TrajectoryMemory ---------------------------
(***************************************************************************)
(* What the attempts at one task leave to later ones: runMemoryPipeline of *)
(* the executor (internal/services/task_executor.go), AnalyzeTask          *)
(* (trajectory_analysis_service.go), GenerateTipsForTask, upsertTip,       *)
(* SyncEmbeddingsForTips and RefreshMaterializedContext                    *)
(* (memory_service.go).  FailTask and CompleteTask come before that        *)
(* pipeline, so a retry may run beside it; two launches of one row overlap *)
(* anyhow.  AnalyzeTask looks at the sessions since the last               *)
(* execution_started entry, or at the last of all if there is none, and    *)
(* names the last of these: either way the last session of the task.       *)
(* One tip is modelled, on which the attempts agree (its canonical_key):   *)
(* its text is what the analyses make of it.  The pipeline's context is    *)
(* the run's; nothing of it happens once that is dead.                     *)
(***************************************************************************)
EXTENDS Naturals, Sequences, FiniteSets

CONSTANTS Attempts, NoAttempt, Texts, NoText

ASSUME MemoryAssumption ==
  NoAttempt \notin Attempts /\ NoText \notin Texts /\ IsFiniteSet(Attempts)

VARIABLES
  embeds,    \* an embedding provider is configured
  task,      \* agent_tasks: [status, says], what its messages say to
             \* shouldSkipTrajectoryMemory
  sess,      \* agent_sessions by created_at: [by, state]
  analysis,  \* trajectory_analyses by session, 0 for NULL: [by, saw, text]
  tip,       \* memory_tips: [text, status, seeds]
  credits,   \* memory_tip_sources: who credited which session
  vector,    \* memory_tip_embeddings: the text it embeds
  document,  \* contexts.summary_text: the credits it tells of
  att,       \* each run of the executor: [pc, own, of, saw, text, read]
  overlap    \* history: [tip, text, doc], the last upsert of the tip, one of those
             \* since it has its text, or the last refresh of the document,
             \* began in the middle of another one

memoryVars == <<embeds, task, sess, analysis, tip, credits, vector, document,
                att, overlap>>

Unheard == [by |-> NoAttempt, saw |-> "none", text |-> NoText]
InTip == {"embed", "store", "mark"}
InDoc == {"brief_write", "write"}
\* between crediting a session and telling of it in the document
Owing == InTip \cup {"read", "write"}
Places == 0..Cardinality(Attempts)

MemoryTypeOK ==
  /\ embeds \in BOOLEAN
  /\ task \in [status : {"pending", "running", "complete", "failed", "cancelled"},
               says : {"nothing", "skip", "worth"}]
  /\ document \in Nat /\ overlap \in [tip : BOOLEAN, text : BOOLEAN, doc : BOOLEAN]
  /\ sess \in Seq([by : Attempts, state : {"active", "completed", "failed"}])
  /\ analysis \in [Places -> [by : Attempts \cup {NoAttempt}, text : Texts \cup {NoText},
                              saw : {"none", "active", "completed", "failed"}]]
  /\ tip \in [text : Texts \cup {NoText}, seeds : Places,
              status : {"none", "pending", "disabled", "error", "embedded"}]
  /\ credits \subseteq Attempts \X Places
  /\ vector \in Texts \cup {NoText}
  /\ att \in [Attempts -> [own : Places, of : Places, read : Nat, text : Texts \cup {NoText},
       saw : {"none", "active", "completed", "failed"},
       pc : {"idle", "begun", "brief", "brief_write", "working", "completing", "closing",
             "fail_closing", "failing", "analyze", "asking", "tips", "analyze2", "asking2",
             "upsert", "read", "over"} \cup InTip \cup InDoc]]

MemoryInit ==
  /\ embeds \in BOOLEAN
  /\ task = [status |-> "pending", says |-> "nothing"]
  /\ sess = <<>>
  /\ analysis = [s \in Places |-> Unheard]
  /\ tip = [text |-> NoText, status |-> "none", seeds |-> 0]
  /\ credits = {} /\ vector = NoText /\ document = 0
  /\ att = [a \in Attempts |-> [pc |-> "idle", own |-> 0, of |-> 0, saw |-> "none",
                          text |-> NoText, read |-> 0]]
  /\ overlap = [tip |-> FALSE, text |-> FALSE, doc |-> FALSE]

-----------------------------------------------------------------------------
(* An attempt, as far as the memory sees it.                                 *)

AttAt(a, pc) == att[a].pc = pc
AttTo(a, pc) == att' = [att EXCEPT ![a].pc = pc]
Others(a, pcs) == \E b \in Attempts \ {a} : att[b].pc \in pcs

learned == <<analysis, tip, credits, vector>>

\* StartTaskExecution of the pending row, after RetryTask of an ended one, or the
\* second of two launches
Begin(a) ==
  /\ AttAt(a, "idle")
  /\ \/ task.status \in {"pending", "failed", "cancelled"}
     \/ task.status = "running" /\ Others(a, {"begun"})
  /\ task' = [status |-> "running", says |-> "nothing"]
  /\ AttTo(a, "begun")
  /\ UNCHANGED <<embeds, sess, learned, document, overlap>>

\* CreateSession, which may fail; or the run fails before it
OpenSession(a) ==
  /\ AttAt(a, "begun")
  /\ \/ /\ sess' = Append(sess, [by |-> a, state |-> "active"])
        /\ att' = [att EXCEPT ![a].own = Len(sess'), ![a].pc = "brief"]
     \/ AttTo(a, "brief") /\ UNCHANGED sess
     \/ AttTo(a, "fail_closing") /\ UNCHANGED sess
  /\ UNCHANGED <<embeds, task, learned, document, overlap>>

\* the lists of tips, analyses and retrievals: what counts here is how many
\* credits they show
Listed == Cardinality(credits)

\* BuildMaterializedContext reads its lists
ReadLists(a, next) ==
  /\ att' = [att EXCEPT ![a].read = Listed, ![a].pc = next]
  /\ overlap' = [overlap EXCEPT !.doc = Others(a, InDoc)]

\* SeedTipsFromContext: a seed counts the run as evidence and is never embedded;
\* its errors are logged
Seeded == \E n \in {0, 1} : tip' = [tip EXCEPT !.seeds = @ + n]

\* seeds, then the document for the prompt
Brief(a) ==
  /\ AttAt(a, "brief")
  /\ Seeded
  /\ ReadLists(a, "brief_write")
  /\ UNCHANGED <<embeds, task, sess, analysis, credits, vector, document>>

\* UpdateMaterializedContext, whatever was written since ReadLists
WriteDocument(a, from, next) ==
  /\ AttAt(a, from)
  /\ document' = att[a].read
  /\ AttTo(a, next)
  /\ UNCHANGED <<embeds, task, sess, learned, overlap>>

Work(a) ==
  /\ AttAt(a, "working")
  /\ AttTo(a, "completing") \/ AttTo(a, "fail_closing")
  /\ UNCHANGED <<embeds, task, sess, learned, document, overlap>>

WriteRow(a, from, status, next) ==
  /\ AttAt(a, from)
  /\ \E says \in {"worth", "skip"} : task' = [status |-> status, says |-> says]
  /\ AttTo(a, next)
  /\ UNCHANGED <<embeds, sess, learned, document, overlap>>

EndSession(a, from, state, next) ==
  /\ AttAt(a, from)
  /\ sess' = IF att[a].own = 0 THEN sess ELSE [sess EXCEPT ![att[a].own].state = state]
  /\ AttTo(a, next)
  /\ UNCHANGED <<embeds, task, learned, document, overlap>>

CompleteAttempt(a) == WriteRow(a, "completing", "complete", "closing")
CloseAsCompleted(a) == EndSession(a, "closing", "completed", "analyze")
CloseAsFailed(a) == EndSession(a, "fail_closing", "failed", "failing")
FailAttempt(a) == WriteRow(a, "failing", "failed", "analyze")

\* the context dies: what is left of the run changes nothing here
AttemptDies(a) ==
  /\ att[a].pc \notin {"idle", "over"}
  /\ AttTo(a, "over")
  /\ overlap' = [overlap EXCEPT !.doc = @ \/ att[a].pc \in Owing \cup InDoc,
                                !.tip = @ \/ att[a].pc \in InTip,
                                !.text = @ \/ att[a].pc \in InTip]
  /\ UNCHANGED <<embeds, task, sess, learned, document>>

CancelTask ==
  /\ task.status = "running"
  /\ task' = [task EXCEPT !.status = "cancelled"]
  /\ UNCHANGED <<embeds, sess, learned, document, att, overlap>>

-----------------------------------------------------------------------------
(* AnalyzeTask, called by the pipeline and again by GenerateTipsForTask.     *)

\* mutant of LatestSession: the first row of the query, in its order
FirstSession == IF sess = <<>> THEN 0 ELSE 1

\* latestAttemptSessions, of which the last is taken: also when none is of the
\* latest attempt
LatestSession == Len(sess)

\* buildTrajectory: how the session stands, besides the task's row and its logs
Seen(s) == IF s = 0 THEN "none" ELSE sess[s].state

\* an analysis of that session is taken as it is; else Claude is asked
Analyze(a, from, asking, next) ==
  /\ AttAt(a, from)
  /\ LET s == LatestSession IN
     att' = [att EXCEPT ![a].of = s, ![a].text = analysis[s].text,
                        ![a].saw = Seen(s),
                        ![a].pc = IF analysis[s].by # NoAttempt THEN next ELSE asking]
  /\ UNCHANGED <<embeds, task, sess, learned, document, overlap>>

\* what Claude makes of a trajectory, or the heuristic in its place
Readings == Texts

\* upsertAnalysis overwrites what another run has put there in the meantime
UpsertAnalysis(a, t) ==
  analysis' = [analysis EXCEPT ![att[a].of] = [by |-> a, saw |-> att[a].saw, text |-> t]]

Answer(a, asking, next) ==
  /\ AttAt(a, asking)
  /\ \E t \in Readings :
       /\ UpsertAnalysis(a, t)
       /\ att' = [att EXCEPT ![a].text = t, ![a].pc = next]
  /\ UNCHANGED <<embeds, task, sess, tip, credits, vector, document, overlap>>

-----------------------------------------------------------------------------
(* GenerateTipsForTask, SyncEmbeddingsForTips, RefreshMaterializedContext.    *)

\* shouldSkipTrajectoryMemory
Skips == task.says = "skip"

\* the row is read anew
SkipOrLearn(a) ==
  /\ AttAt(a, "tips")
  /\ AttTo(a, IF Skips THEN "read" ELSE "analyze2")
  /\ UNCHANGED <<embeds, task, sess, learned, document, overlap>>

\* generateTipsFromAnalysis
TipOf(a) == att[a].text
\* addTipSources
Credited(a) == credits \cup {<<a, att[a].of>>}

UpsertTip(a) ==
  /\ AttAt(a, "upsert")
  /\ tip' = [tip EXCEPT !.text = TipOf(a),
                        !.status = IF tip.text # TipOf(a) THEN "pending" ELSE @]
  /\ credits' = Credited(a)
  /\ overlap' = [overlap EXCEPT !.tip = Others(a, InTip),
                    !.text = Others(a, InTip) \/ (@ /\ tip.text = TipOf(a))]
  /\ AttTo(a, "embed")
  /\ UNCHANGED <<embeds, task, sess, analysis, vector, document>>

\* an error of the provider is only logged, and so is one of the database
Embed(a) ==
  /\ AttAt(a, "embed")
  /\ \/ ~embeds /\ tip' = [tip EXCEPT !.status = "disabled"] /\ AttTo(a, "read")
     \/ embeds /\ tip' = [tip EXCEPT !.status = "error"] /\ AttTo(a, "read")
     \/ embeds /\ AttTo(a, "store") /\ UNCHANGED tip
  /\ UNCHANGED <<embeds, task, sess, analysis, credits, vector, document, overlap>>

StoreVector(a) ==
  /\ AttAt(a, "store")
  /\ vector' = att[a].text
  /\ AttTo(a, "mark")
  /\ UNCHANGED <<embeds, task, sess, analysis, tip, credits, document, overlap>>

MarkEmbedded(a) ==
  /\ AttAt(a, "mark")
  /\ tip' = [tip EXCEPT !.status = "embedded"]
  /\ AttTo(a, "read")
  /\ UNCHANGED <<embeds, task, sess, analysis, credits, vector, document, overlap>>

RefreshDocument(a) ==
  /\ AttAt(a, "read")
  /\ ReadLists(a, "write")
  /\ UNCHANGED <<embeds, task, sess, learned, document>>

AttemptStep(a) ==
  \/ Begin(a) \/ OpenSession(a) \/ Brief(a) \/ WriteDocument(a, "brief_write", "working")
  \/ Work(a) \/ CompleteAttempt(a) \/ CloseAsCompleted(a) \/ CloseAsFailed(a)
  \/ FailAttempt(a) \/ AttemptDies(a)
  \/ Analyze(a, "analyze", "asking", "tips") \/ Answer(a, "asking", "tips")
  \/ SkipOrLearn(a)
  \/ Analyze(a, "analyze2", "asking2", "upsert") \/ Answer(a, "asking2", "upsert")
  \/ UpsertTip(a) \/ Embed(a) \/ StoreVector(a) \/ MarkEmbedded(a)
  \/ RefreshDocument(a) \/ WriteDocument(a, "write", "over")

MemoryNext == CancelTask \/ \E a \in Attempts : AttemptStep(a)
MemorySpec == MemoryInit /\ [][MemoryNext]_memoryVars

-----------------------------------------------------------------------------
(* An analysis is made of an ended session, unless another run than the       *)
(* session's own made it: such an analysis stays, since the session's own run *)
(* finds it and takes it.                                                     *)
AnalysedWhenEnded ==
  \A s \in 1..Len(sess) :
    analysis[s].saw = "active" => analysis[s].by # sess[s].by

(* A run credits its own session or a younger one, never an older one.  Only  *)
(* a run without a session credits another attempt's, and then the last.      *)
CreditsGoForward ==
  \A c \in credits : att[c[1]].own # 0 => c[2] >= att[c[1]].own

(* A tip marked "embedded" has the vector of its text, unless one of the      *)
(* upserts since it has that text met another pipeline that was still         *)
(* embedding the tip, or died there; and an upsert that meets nobody makes up *)
(* for those once its vector is stored.                                       *)
EmbeddedIsCurrent ==
  tip.status = "embedded" /\ vector # tip.text =>
    /\ overlap.text
    /\ overlap.tip \/ \E a \in Attempts : att[a].pc \in {"embed", "store"}

(* Once nobody is on the way to the document, it tells of every credit,       *)
(* unless two refreshes overlapped or a run died on the way.                  *)
DocumentIsCurrent ==
  ~overlap.doc /\ (\A a \in Attempts : att[a].pc \notin Owing \cup InDoc)
    => document = Cardinality(credits)

MemorySafe == AnalysedWhenEnded /\ CreditsGoForward /\ EmbeddedIsCurrent /\ DocumentIsCurrent
=============================================================================
