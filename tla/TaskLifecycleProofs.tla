------------------------ MODULE TaskLifecycleProofs -------------------------
(***************************************************************************)
(* Theorems about TaskLifecycle, for every set of tasks and goroutines,    *)
(* every family tree, every maxConcurrent and every number of restarts and *)
(* retries: the executor's map, the rows at 'running' and the parents.     *)
(***************************************************************************)
EXTENDS TaskLifecycle, FiniteSetTheorems, TLAPS

-----------------------------------------------------------------------------
(* The inductive invariant. *)

\* What a goroutine holds at each place.
ProcInv(p) ==
  /\ At(p, "idle") => proc[p] = IdleProc
  /\ ~At(p, "idle") => proc[p].task \in Tasks /\ status[proc[p].task] # "none"
  /\ proc[p].pc \in {"classify", "start", "launch_fail", "spawned", "finish", "cancel"} =>
       proc[p].ctx = "none"
  /\ At(p, "retry") => proc[p].ctx = "request"
  /\ At(p, "work") => proc[p].ctx \in {"live", "dead"}
  /\ At(p, "parent") => proc[p].verdict # "none" /\ Parent[proc[p].task] # NoTask

ProcsInv == \A p \in Procs : ProcInv(p)

\* An entry's run has a context, unlike an API call that ends the same task.
EntriesAreRuns ==
  \A t \in Tasks : active[t] # NoProc =>
    /\ proc[active[t]].task = t
    /\ \/ At(active[t], "finish")
       \/ /\ proc[active[t]].pc \in {"work", "count", "parent"}
          /\ proc[active[t]].ctx \in {"live", "dead"}

\* Parents are created before their children and deleted with them.
FamilyRows ==
  \A c \in Tasks : Parent[c] \in Tasks =>
    /\ status[c] # "none" => status[Parent[c]] # "none"
    /\ HasRow(Parent[c]) => status[c] # "deleted"

IInv ==
  /\ TypeOK /\ ProcsInv /\ EntriesAreRuns /\ FamilyRows
  /\ SlotsBounded /\ RunningIsDriven /\ ParentIsTold

-----------------------------------------------------------------------------
(* The slots are counted. *)

\* Entries that go or are replaced leave no more of them.
LEMMA NoMoreSlots ==
  ASSUME SlotsBounded, Registered' \subseteq Registered
  PROVE  SlotsBounded'
<1>1. IsFiniteSet(Registered) BY TaskAssumption, FS_Subset DEF Registered
<1>2. IsFiniteSet(Registered') /\ Cardinality(Registered') <= Cardinality(Registered)
  BY <1>1, FS_Subset
<1>3. Cardinality(Registered) \in Nat /\ Cardinality(Registered') \in Nat
  BY <1>1, <1>2, FS_CardinalityType
<1> QED BY <1>2, <1>3, TaskAssumption DEF SlotsBounded

\* One entry more where one was free.
LEMMA OneMoreSlot ==
  ASSUME NEW t \in Tasks, Cardinality(Registered) < MaxConcurrent,
         Registered' \subseteq Registered \cup {t}
  PROVE  SlotsBounded'
<1>1. IsFiniteSet(Registered) BY TaskAssumption, FS_Subset DEF Registered
<1>2. /\ IsFiniteSet(Registered \cup {t})
      /\ Cardinality(Registered \cup {t}) <= Cardinality(Registered) + 1
  <2>1. IsFiniteSet(Registered \cup {t}) BY <1>1, FS_AddElement
  <2>2. \/ Cardinality(Registered \cup {t}) = Cardinality(Registered)
        \/ Cardinality(Registered \cup {t}) = Cardinality(Registered) + 1
    BY <1>1, FS_AddElement
  <2>3. Cardinality(Registered) \in Nat BY <1>1, FS_CardinalityType
  <2> QED BY <2>1, <2>2, <2>3
<1>3. /\ IsFiniteSet(Registered')
      /\ Cardinality(Registered') <= Cardinality(Registered \cup {t})
  BY <1>2, FS_Subset
<1>4. /\ Cardinality(Registered) \in Nat /\ Cardinality(Registered') \in Nat
      /\ Cardinality(Registered \cup {t}) \in Nat
  BY <1>1, <1>2, <1>3, FS_CardinalityType
<1> QED BY <1>2, <1>3, <1>4, TaskAssumption DEF SlotsBounded

-----------------------------------------------------------------------------
(* One lemma per action: it keeps the inductive invariant. *)

USE TaskAssumption
USE DEF ProcInv, Ended, HasRow, Pcs, Goroutine, Frame, Call, IdleProc, At, Become, Start, Goto, Return, Drives,
        SetStatus, Adrift, Untold, Told, Children, ChildrenEnded, EndTask, AfterParent, Kill, history

\* The new row is pending: its parent, if any, has a child that has not ended.
LEMMA CreateTaskInv ==
  ASSUME IInv, NEW p \in Procs, NEW t \in Tasks, CreateTask(p, t)
  PROVE  IInv'
<1> USE DEF IInv, TypeOK, ProcsInv, CreateTask
<1>1. TypeOK'
  <2>1. CASE UNCHANGED proc BY <2>1
  <2>2. CASE Start(p, Call("classify", t, TRUE)) BY <2>2
  <2> QED BY <2>1, <2>2
<1>2. ProcsInv'
  <2>1. CASE UNCHANGED proc BY <2>1
  <2>2. CASE Start(p, Call("classify", t, TRUE)) BY <2>2
  <2> QED BY <2>1, <2>2
<1>3. EntriesAreRuns' BY DEF EntriesAreRuns
<1>4. FamilyRows' BY DEF FamilyRows
<1>5. SlotsBounded' BY NoMoreSlots DEF Registered
<1>6. RunningIsDriven' BY DEF RunningIsDriven
<1>7. ParentIsTold' BY DEF ParentIsTold
<1> QED BY <1>1, <1>2, <1>3, <1>4, <1>5, <1>6, <1>7

\* A handler begins.
LEMMA HandleStartInv ==
  ASSUME IInv, NEW p \in Procs, NEW t \in Tasks, HandleStart(p, t)
  PROVE  IInv'
<1> USE DEF IInv, TypeOK, ProcsInv, HandleStart
<1>1. TypeOK' OBVIOUS
<1>2. ProcsInv' OBVIOUS
<1>3. EntriesAreRuns' BY DEF EntriesAreRuns
<1>4. FamilyRows' BY DEF FamilyRows
<1>5. SlotsBounded' BY NoMoreSlots DEF Registered
<1>6. RunningIsDriven' BY DEF RunningIsDriven
<1>7. ParentIsTold' BY DEF ParentIsTold
<1> QED BY <1>1, <1>2, <1>3, <1>4, <1>5, <1>6, <1>7

\* A launch has read its row.
LEMMA StartReadInv ==
  ASSUME IInv, NEW p \in Procs, StartRead(p)
  PROVE  IInv'
<1> USE DEF IInv, TypeOK, ProcsInv, StartRead
<1>1. TypeOK' OBVIOUS
<1>2. ProcsInv' OBVIOUS
<1>3. EntriesAreRuns' BY DEF EntriesAreRuns
<1>4. FamilyRows' BY DEF FamilyRows
<1>5. SlotsBounded' BY NoMoreSlots DEF Registered
<1>6. RunningIsDriven' BY DEF RunningIsDriven
<1>7. ParentIsTold'
  <2>1. /\ \A q \in Procs \ {p} : proc'[q] = proc[q]
        /\ status' = status /\ untold' = untold /\ At(p, "classify")
    OBVIOUS
  <2> HIDE DEF StartRead, TypeOK, ProcsInv
  <2> QED BY <2>1 DEF ParentIsTold
<1> QED BY <1>1, <1>2, <1>3, <1>4, <1>5, <1>6, <1>7

\* A launch is refused.
LEMMA StartRefusedInv ==
  ASSUME IInv, NEW p \in Procs, StartRefused(p)
  PROVE  IInv'
<1> USE DEF IInv, TypeOK, ProcsInv, StartRefused
<1>1. TypeOK'
  <2>1. CASE proc[p].fatal
    <3>1. proc' = [proc EXCEPT ![p].pc = "launch_fail"] BY <2>1
    <3> QED BY <3>1
  <2>2. CASE ~proc[p].fatal
    <3>1. proc' = [proc EXCEPT ![p] = IdleProc] BY <2>2
    <3> QED BY <3>1
  <2> QED BY <2>1, <2>2
<1>2. ProcsInv'
  <2>1. CASE proc[p].fatal
    <3>1. proc' = [proc EXCEPT ![p].pc = "launch_fail"] BY <2>1
    <3> QED BY <3>1
  <2>2. CASE ~proc[p].fatal
    <3>1. proc' = [proc EXCEPT ![p] = IdleProc] BY <2>2
    <3> QED BY <3>1
  <2> QED BY <2>1, <2>2
<1>3. EntriesAreRuns' BY DEF EntriesAreRuns
<1>4. FamilyRows' BY DEF FamilyRows
<1>5. SlotsBounded' BY NoMoreSlots DEF Registered
<1>6. RunningIsDriven'
  <2>1. /\ \A q \in Procs \ {p} : proc'[q] = proc[q]
        /\ status' = status /\ adrift' = adrift /\ At(p, "classify")
    OBVIOUS
  <2> HIDE DEF StartRefused, TypeOK, ProcsInv
  <2> QED BY <2>1 DEF RunningIsDriven
<1>7. ParentIsTold' BY DEF ParentIsTold
<1> QED BY <1>1, <1>2, <1>3, <1>4, <1>5, <1>6, <1>7

\* The launcher that has failed the row tells the parent.
LEMMA LaunchFailInv ==
  ASSUME IInv, NEW p \in Procs, LaunchFail(p)
  PROVE  IInv'
<1> USE DEF IInv, TypeOK, ProcsInv, LaunchFail
<1>1. TypeOK' OBVIOUS
<1>2. ProcsInv' OBVIOUS
<1>3. EntriesAreRuns' BY DEF EntriesAreRuns
<1>4. FamilyRows' BY DEF FamilyRows
<1>5. SlotsBounded' BY NoMoreSlots DEF Registered
<1>6. RunningIsDriven' BY DEF RunningIsDriven
<1>7. ParentIsTold' BY DEF ParentIsTold
<1> QED BY <1>1, <1>2, <1>3, <1>4, <1>5, <1>6, <1>7

\* The executor about to be spawned drives the row.
LEMMA StartWriteInv ==
  ASSUME IInv, NEW p \in Procs, StartWrite(p)
  PROVE  IInv'
<1> USE DEF IInv, TypeOK, ProcsInv, StartWrite
<1>1. TypeOK' OBVIOUS
<1>2. ProcsInv' OBVIOUS
<1>3. EntriesAreRuns' BY DEF EntriesAreRuns
<1>4. FamilyRows' BY DEF FamilyRows
<1>5. SlotsBounded' BY NoMoreSlots DEF Registered
<1>6. RunningIsDriven' BY DEF RunningIsDriven
<1>7. ParentIsTold'
  <2>1. /\ \A q \in Procs \ {p} : proc'[q] = proc[q]
        /\ At(p, "start") /\ proc[p].task \in Tasks
        /\ \A x \in Tasks : status'[x] \in {status[x], "running"}
        /\ \A x \in Tasks : x # proc[p].task => status'[x] = status[x]
        /\ HasRow(proc[p].task) => status'[proc[p].task] = "running"
        /\ \A x \in Tasks : HasRow(x)' = HasRow(x)
        /\ ChildrenEnded(proc[p].task) => proc[p].task \in untold'
        /\ untold \subseteq untold'
    OBVIOUS
  <2> HIDE DEF StartWrite, TypeOK, ProcsInv
  <2> SUFFICES ASSUME NEW x \in Tasks, status'[x] = "running", x \notin untold', ChildrenEnded(x)'
               PROVE  \E q \in Procs : /\ proc[q].pc \in {"count", "parent"}
                                       /\ proc[q].ctx # "dead"
                                       /\ Parent[proc[q].task] = x
    BY <2>1 DEF ParentIsTold
  <2>2. Children(x)' = Children(x) BY <2>1
  <2>3. \A c \in Children(x) : c # proc[p].task /\ status'[c] = status[c] BY <2>1, <2>2
  <2>4. ChildrenEnded(x) BY <2>2, <2>3
  <2>5. x # proc[p].task BY <2>1, <2>4
  <2>6. status[x] = "running" /\ x \notin untold BY <2>1, <2>5
  <2> QED BY <2>4, <2>6 DEF ParentIsTold
<1> QED BY <1>1, <1>2, <1>3, <1>4, <1>5, <1>6, <1>7

\* A failed row needs no driver; its parent is not told.
LEMMA StartUnconfiguredInv ==
  ASSUME IInv, NEW p \in Procs, StartUnconfigured(p)
  PROVE  IInv'
<1> USE DEF IInv, TypeOK, ProcsInv, StartUnconfigured
<1>1. TypeOK' OBVIOUS
<1>2. ProcsInv' OBVIOUS
<1>3. EntriesAreRuns' BY DEF EntriesAreRuns
<1>4. FamilyRows' BY DEF FamilyRows
<1>5. SlotsBounded' BY NoMoreSlots DEF Registered
<1>6. RunningIsDriven' BY DEF RunningIsDriven
<1>7. ParentIsTold' BY DEF ParentIsTold
<1> QED BY <1>1, <1>2, <1>3, <1>4, <1>5, <1>6, <1>7

\* The executor becomes a run with a live context, in a free slot.
LEMMA RegisterInv ==
  ASSUME IInv, NEW p \in Procs, Register(p)
  PROVE  IInv'
<1> USE DEF IInv, TypeOK, ProcsInv, Register
<1>1. TypeOK' OBVIOUS
<1>2. ProcsInv' OBVIOUS
<1>3. EntriesAreRuns' BY DEF EntriesAreRuns
<1>4. FamilyRows' BY DEF FamilyRows
<1>5. SlotsBounded' BY OneMoreSlot DEF Registered
<1>6. RunningIsDriven' BY DEF RunningIsDriven
<1>7. ParentIsTold' BY DEF ParentIsTold
<1> QED BY <1>1, <1>2, <1>3, <1>4, <1>5, <1>6, <1>7

\* A driver is lost, which is noted.
LEMMA ThrottledInv ==
  ASSUME IInv, NEW p \in Procs, Throttled(p)
  PROVE  IInv'
<1> USE DEF IInv, TypeOK, ProcsInv, Throttled
<1>1. TypeOK' OBVIOUS
<1>2. ProcsInv' OBVIOUS
<1>3. EntriesAreRuns' BY DEF EntriesAreRuns
<1>4. FamilyRows' BY DEF FamilyRows
<1>5. SlotsBounded' BY NoMoreSlots DEF Registered
<1>6. RunningIsDriven' BY DEF RunningIsDriven
<1>7. ParentIsTold' BY DEF ParentIsTold
<1> QED BY <1>1, <1>2, <1>3, <1>4, <1>5, <1>6, <1>7

\* The row ends, and its run tells the parent.
LEMMA RunEndsInv ==
  ASSUME IInv, NEW p \in Procs, RunEnds(p)
  PROVE  IInv'
<1> USE DEF IInv, TypeOK, ProcsInv, RunEnds
<1>1. TypeOK' OBVIOUS
<1>2. ProcsInv' OBVIOUS
<1>3. EntriesAreRuns' BY DEF EntriesAreRuns
<1>4. FamilyRows' BY DEF FamilyRows
<1>5. SlotsBounded' BY NoMoreSlots DEF Registered
<1>6. RunningIsDriven' BY DEF RunningIsDriven
<1>7. ParentIsTold'
  <2> DEFINE t == proc[p].task
  <2>1. PICK st \in {"complete", "failed"} : EndTask(p, t, st, "live") OBVIOUS
  <2>2. /\ \A q \in Procs \ {p} : proc'[q] = proc[q]
        /\ proc'[p].pc = "count" /\ proc'[p].ctx = "live" /\ proc'[p].task = t
        /\ At(p, "work") /\ t \in Tasks /\ untold' = untold \ {Parent[t]}
        /\ status' = [status EXCEPT ![t] = IF HasRow(t) THEN st ELSE @]
    BY <2>1
  <2> HIDE DEF RunEnds, t
  <2> SUFFICES ASSUME NEW x \in Tasks, x # Parent[t],
                      status'[x] = "running", x \notin untold', ChildrenEnded(x)'
               PROVE  \E q \in Procs \ {p} : /\ proc[q].pc \in {"count", "parent"}
                                             /\ proc[q].ctx # "dead"
                                             /\ Parent[proc[q].task] = x
    BY <2>2 DEF ParentIsTold
  <2>3. x # t /\ status[x] = "running" /\ x \notin untold BY <2>2
  <2>4. t \notin Children(x) /\ Children(x)' = Children(x) BY <2>2
  <2>5. ChildrenEnded(x) BY <2>2, <2>4
  <2> QED BY <2>2, <2>3, <2>5 DEF ParentIsTold
<1> QED BY <1>1, <1>2, <1>3, <1>4, <1>5, <1>6, <1>7

\* A run with a dead context, or without a row, drove nothing.
LEMMA RunGivesUpInv ==
  ASSUME IInv, NEW p \in Procs, RunGivesUp(p)
  PROVE  IInv'
<1> USE DEF IInv, TypeOK, ProcsInv, RunGivesUp
<1>1. TypeOK' OBVIOUS
<1>2. ProcsInv' OBVIOUS
<1>3. EntriesAreRuns' BY DEF EntriesAreRuns
<1>4. FamilyRows' BY DEF FamilyRows
<1>5. SlotsBounded' BY NoMoreSlots DEF Registered
<1>6. RunningIsDriven' BY DEF RunningIsDriven
<1>7. ParentIsTold' BY DEF ParentIsTold
<1> QED BY <1>1, <1>2, <1>3, <1>4, <1>5, <1>6, <1>7

\* The entry that goes is the only one that could name this run.
LEMMA RunReturnsInv ==
  ASSUME IInv, NEW p \in Procs, RunReturns(p)
  PROVE  IInv'
<1> USE DEF IInv, TypeOK, ProcsInv, RunReturns
<1>1. TypeOK' OBVIOUS
<1>2. ProcsInv' OBVIOUS
<1>3. EntriesAreRuns' BY DEF EntriesAreRuns
<1>4. FamilyRows' BY DEF FamilyRows
<1>5. SlotsBounded' BY NoMoreSlots DEF Registered
<1>6. RunningIsDriven' BY DEF RunningIsDriven
<1>7. ParentIsTold' BY DEF ParentIsTold
<1> QED BY <1>1, <1>2, <1>3, <1>4, <1>5, <1>6, <1>7

\* What the run drove, or whom it was about to tell, is noted.
LEMMA TimeoutInv ==
  ASSUME IInv, NEW p \in Procs, Timeout(p)
  PROVE  IInv'
<1> USE DEF IInv, TypeOK, ProcsInv, Timeout
<1>1. TypeOK' OBVIOUS
<1>2. ProcsInv'
  <2>1. /\ \A q \in Procs \ {p} : proc'[q] = proc[q]
        /\ proc[p].ctx = "live" /\ proc'[p].task = proc[p].task
        /\ proc'[p].pc = proc[p].pc /\ proc'[p].ctx = "dead"
        /\ proc'[p].verdict = proc[p].verdict /\ status' = status
    OBVIOUS
  <2>2. ~At(p, "idle") /\ proc[p].pc \notin {"classify", "start", "launch_fail", "spawned",
                                           "finish", "cancel", "retry"}
    BY <2>1
  <2> HIDE DEF Timeout, TypeOK
  <2>3. ProcInv(p)' BY <2>1, <2>2
  <2>4. ASSUME NEW q \in Procs \ {p} PROVE ProcInv(q)'
    <3>1. ProcInv(q) /\ proc'[q] = proc[q] BY <2>1
    <3>2. \A x \in Tasks : status[x] # "none" => status'[x] # "none" BY <2>1
    <3> HIDE DEF ProcsInv, TypeOK, IInv
    <3> QED BY <3>1, <3>2
  <2> QED BY <2>3, <2>4
<1>3. EntriesAreRuns' BY DEF EntriesAreRuns
<1>4. FamilyRows' BY DEF FamilyRows
<1>5. SlotsBounded' BY NoMoreSlots DEF Registered
<1>6. RunningIsDriven' BY DEF RunningIsDriven
<1>7. ParentIsTold' BY DEF ParentIsTold
<1> QED BY <1>1, <1>2, <1>3, <1>4, <1>5, <1>6, <1>7

\* Who leaves without a verdict has a dead context or seen a sibling that has not ended.
LEMMA CountSiblingsInv ==
  ASSUME IInv, NEW p \in Procs, CountSiblings(p)
  PROVE  IInv'
<1> USE DEF IInv, TypeOK, ProcsInv, CountSiblings
<1>1. TypeOK'
  <2>1. /\ At(p, "count") /\ proc[p].task \in Tasks /\ status[proc[p].task] # "none"
        /\ status' = status /\ untold' = untold
    OBVIOUS
  <2>2. \/ \E v \in {"complete", "failed"} :
             /\ Parent[proc[p].task] # NoTask
             /\ proc' = [proc EXCEPT ![p] =
                  Frame("parent", proc[p].task, proc[p].ctx, FALSE, v)]
        \/ /\ \/ proc[p].ctx = "dead" \/ ~HasRow(proc[p].task)
              \/ Parent[proc[p].task] = NoTask \/ ~ChildrenEnded(Parent[proc[p].task])
           /\ \/ proc' = [proc EXCEPT ![p] = IdleProc]
              \/ proc' = [proc EXCEPT ![p] = Call("finish", proc[p].task, FALSE)]
    <3> HIDE DEF ChildrenEnded, HasRow
    <3> QED OBVIOUS
  <2> HIDE DEF CountSiblings, ProcsInv, ChildrenEnded
  <2>3. UNCHANGED <<status, retries, active, crashes, history>> BY DEF CountSiblings
  <2>4. proc' \in [Procs -> Goroutine]
    <3>1. \A v \in {"complete", "failed"} :
            Frame("parent", proc[p].task, proc[p].ctx, FALSE, v) \in Goroutine
      BY <2>1
    <3>2. IdleProc \in Goroutine /\ Call("finish", proc[p].task, FALSE) \in Goroutine BY <2>1
    <3>3. PICK g \in Goroutine : proc' = [proc EXCEPT ![p] = g] BY <2>2, <3>1, <3>2
    <3> HIDE DEF Goroutine
    <3> QED BY <3>3
  <2> HIDE DEF Goroutine
  <2> QED BY <2>3, <2>4
<1>2. ProcsInv'
  <2>1. /\ At(p, "count") /\ proc[p].task \in Tasks /\ status[proc[p].task] # "none"
        /\ status' = status /\ untold' = untold
    OBVIOUS
  <2>2. \/ \E v \in {"complete", "failed"} :
             /\ Parent[proc[p].task] # NoTask
             /\ proc' = [proc EXCEPT ![p] =
                  Frame("parent", proc[p].task, proc[p].ctx, FALSE, v)]
        \/ /\ \/ proc[p].ctx = "dead" \/ ~HasRow(proc[p].task)
              \/ Parent[proc[p].task] = NoTask \/ ~ChildrenEnded(Parent[proc[p].task])
           /\ \/ proc' = [proc EXCEPT ![p] = IdleProc]
              \/ proc' = [proc EXCEPT ![p] = Call("finish", proc[p].task, FALSE)]
    <3> HIDE DEF ChildrenEnded, HasRow
    <3> QED OBVIOUS
  <2> HIDE DEF CountSiblings, ChildrenEnded
  <2>3. ProcInv(p)'
    <3>1. CASE proc'[p] = IdleProc BY <2>1, <3>1
    <3>2. CASE proc'[p] = Call("finish", proc[p].task, FALSE) BY <2>1, <3>2
    <3>3. CASE \E v \in {"complete", "failed"} :
                 /\ Parent[proc[p].task] # NoTask
                 /\ proc'[p] = Frame("parent", proc[p].task, proc[p].ctx, FALSE, v)
      BY <2>1, <3>3
    <3> QED BY <2>2, <3>1, <3>2, <3>3
  <2>4. ASSUME NEW q \in Procs \ {p} PROVE ProcInv(q)'
    <3>1. ProcInv(q) /\ proc'[q] = proc[q] BY <2>2
    <3>2. \A x \in Tasks : status[x] # "none" => status'[x] # "none" BY <2>1
    <3> HIDE DEF ProcsInv, TypeOK, IInv
    <3> QED BY <3>1, <3>2
  <2> QED BY <2>3, <2>4
<1>3. EntriesAreRuns' BY DEF EntriesAreRuns
<1>4. FamilyRows' BY DEF FamilyRows
<1>5. SlotsBounded' BY NoMoreSlots DEF Registered
<1>6. RunningIsDriven' BY DEF RunningIsDriven
<1>7. ParentIsTold'
  <2>1. /\ At(p, "count") /\ proc[p].task \in Tasks /\ status[proc[p].task] # "none"
        /\ status' = status /\ untold' = untold
    OBVIOUS
  <2>2. \/ \E v \in {"complete", "failed"} :
             /\ Parent[proc[p].task] # NoTask
             /\ proc' = [proc EXCEPT ![p] =
                  Frame("parent", proc[p].task, proc[p].ctx, FALSE, v)]
        \/ /\ \/ proc[p].ctx = "dead" \/ ~HasRow(proc[p].task)
              \/ Parent[proc[p].task] = NoTask \/ ~ChildrenEnded(Parent[proc[p].task])
           /\ \/ proc' = [proc EXCEPT ![p] = IdleProc]
              \/ proc' = [proc EXCEPT ![p] = Call("finish", proc[p].task, FALSE)]
    <3> HIDE DEF ChildrenEnded, HasRow
    <3> QED OBVIOUS
  <2> HIDE DEF CountSiblings
  <2> DEFINE x == Parent[proc[p].task]
  <2>3. \A q \in Procs \ {p} : proc'[q] = proc[q] BY <2>2
  <2>4. CASE proc'[p].pc = "parent"
    <3>1. proc'[p].task = proc[p].task /\ proc'[p].ctx = proc[p].ctx BY <2>2, <2>4
    <3> HIDE DEF TypeOK, ProcsInv
    <3> QED BY <2>1, <2>3, <2>4, <3>1 DEF ParentIsTold
  <2>5. CASE proc'[p].pc # "parent"
    <3>1. \/ proc[p].ctx = "dead" \/ ~HasRow(proc[p].task) \/ x = NoTask \/ ~ChildrenEnded(x)
      BY <2>2, <2>5
    <3>2. x \in Tasks /\ status[x] = "running" /\ ChildrenEnded(x) => proc[p].ctx = "dead"
      BY <2>1, <3>1 DEF FamilyRows
    <3> HIDE DEF TypeOK, ProcsInv, x
    <3> QED BY <2>1, <2>3, <3>2 DEF ParentIsTold, x
  <2> QED BY <2>4, <2>5
<1> QED BY <1>1, <1>2, <1>3, <1>4, <1>5, <1>6, <1>7

\* The parent has ended, unless the context is dead.
LEMMA EndParentInv ==
  ASSUME IInv, NEW p \in Procs, EndParent(p)
  PROVE  IInv'
<1> USE DEF IInv, TypeOK, ProcsInv, EndParent
<1>1. TypeOK' OBVIOUS
<1>2. ProcsInv'
  <2> DEFINE x == Parent[proc[p].task]
  <2>1. /\ \A q \in Procs \ {p} : proc'[q] = proc[q]
        /\ proc'[p] \in {IdleProc, Call("finish", proc[p].task, FALSE)}
        /\ At(p, "parent") /\ proc[p].task \in Tasks /\ x \in Tasks
        /\ proc[p].verdict \in {"complete", "failed"}
    OBVIOUS
  <2>2. \A y \in Tasks : status[y] # "none" => status'[y] # "none" BY <2>1
  <2> HIDE DEF EndParent
  <2>3. ProcInv(p)'
    <3>1. status'[proc[p].task] # "none" BY <2>1, <2>2
    <3>2. CASE proc'[p] = IdleProc BY <3>2
    <3>3. CASE proc'[p] = Call("finish", proc[p].task, FALSE) BY <2>1, <3>1, <3>3
    <3> QED BY <2>1, <3>2, <3>3
  <2>4. ASSUME NEW q \in Procs \ {p} PROVE ProcInv(q)'
    <3>1. ProcInv(q) /\ proc'[q] = proc[q] BY <2>1
    <3>2. \A y \in Tasks : status[y] # "none" => status'[y] # "none" BY <2>2
    <3> HIDE DEF ProcsInv, TypeOK, IInv
    <3> QED BY <3>1, <3>2
  <2> QED BY <2>3, <2>4
<1>3. EntriesAreRuns' BY DEF EntriesAreRuns
<1>4. FamilyRows' BY DEF FamilyRows
<1>5. SlotsBounded' BY NoMoreSlots DEF Registered
<1>6. RunningIsDriven' BY DEF RunningIsDriven
<1>7. ParentIsTold'
  <2> DEFINE x == Parent[proc[p].task]
  <2>1. /\ \A q \in Procs \ {p} : proc'[q] = proc[q]
        /\ proc'[p] \in {IdleProc, Call("finish", proc[p].task, FALSE)}
        /\ At(p, "parent") /\ proc[p].task \in Tasks /\ x \in Tasks
        /\ proc[p].verdict \in {"complete", "failed"}
    OBVIOUS
  <2>2. CASE status[x] = "running" /\ proc[p].ctx # "dead"
    <3>1. /\ status' = [status EXCEPT ![x] = proc[p].verdict]
          /\ untold' = untold \cup {y \in Tasks : y = Parent[x]}
      BY <2>1, <2>2
    <3> HIDE DEF EndParent
    <3> SUFFICES ASSUME NEW y \in Tasks, status'[y] = "running", y \notin untold', ChildrenEnded(y)'
                 PROVE  \E q \in Procs \ {p} : /\ proc[q].pc \in {"count", "parent"}
                                               /\ proc[q].ctx # "dead"
                                               /\ Parent[proc[q].task] = y
      BY <2>1 DEF ParentIsTold
    <3>2. y # x /\ status[y] = "running" /\ y \notin untold /\ Parent[x] # y BY <2>1, <3>1
    <3>3. Children(y)' = Children(y) /\ x \notin Children(y) BY <2>1, <3>1, <3>2
    <3>4. ChildrenEnded(y) BY <3>1, <3>3
    <3>5. PICK q \in Procs : /\ proc[q].pc \in {"count", "parent"} /\ proc[q].ctx # "dead"
                            /\ Parent[proc[q].task] = y
      BY <3>2, <3>4 DEF ParentIsTold
    <3> QED BY <3>2, <3>5
  <2>3. CASE ~(status[x] = "running" /\ proc[p].ctx # "dead")
    <3>1. status' = status /\ untold' = untold BY <2>3
    <3>2. status[x] = "running" => proc[p].ctx = "dead" BY <2>3
    <3> HIDE DEF EndParent, TypeOK, ProcsInv, x
    <3> QED BY <2>1, <3>1, <3>2 DEF ParentIsTold, x
  <2> QED BY <2>2, <2>3
<1> QED BY <1>1, <1>2, <1>3, <1>4, <1>5, <1>6, <1>7

\* The row has ended, and its parent is not told.
LEMMA CancelTaskInv ==
  ASSUME IInv, NEW p \in Procs, NEW t \in Tasks, CancelTask(p, t)
  PROVE  IInv'
<1> USE DEF IInv, TypeOK, ProcsInv, CancelTask
<1>1. TypeOK' OBVIOUS
<1>2. ProcsInv' OBVIOUS
<1>3. EntriesAreRuns' BY DEF EntriesAreRuns
<1>4. FamilyRows' BY DEF FamilyRows
<1>5. SlotsBounded' BY NoMoreSlots DEF Registered
<1>6. RunningIsDriven' BY DEF RunningIsDriven
<1>7. ParentIsTold' BY DEF ParentIsTold
<1> QED BY <1>1, <1>2, <1>3, <1>4, <1>5, <1>6, <1>7

\* The run that is killed is noted like one that timed out.
LEMMA CancelRunInv ==
  ASSUME IInv, NEW p \in Procs, CancelRun(p)
  PROVE  IInv'
<1> USE DEF IInv, TypeOK, ProcsInv, CancelRun
<1>1. TypeOK' OBVIOUS
<1>2. ProcsInv'
  <2>1. /\ proc'[p] = IdleProc /\ status' = status
        /\ \A q \in Procs \ {p} :
             /\ proc'[q].pc = proc[q].pc /\ proc'[q].task = proc[q].task
             /\ proc'[q].verdict = proc[q].verdict
             /\ proc'[q] = proc[q] \/ (proc[q].ctx = "live" /\ proc'[q].ctx = "dead")
    OBVIOUS
  <2>2. \A q \in Procs : proc[q].ctx = "live" =>
          ~At(q, "idle") /\ proc[q].pc \notin {"classify", "start", "launch_fail", "spawned",
                                             "finish", "cancel", "retry"}
    OBVIOUS
  <2> HIDE DEF CancelRun, TypeOK
  <2>3. ProcInv(p)' BY <2>1, <2>2
  <2>4. ASSUME NEW q \in Procs \ {p} PROVE ProcInv(q)'
    <3>1. CASE proc'[q] = proc[q]
      <4>1. ProcInv(q) /\ status' = status BY <2>1
      <4> QED BY <3>1, <4>1
    <3>2. CASE proc[q].ctx = "live" /\ proc'[q].ctx = "dead" BY <2>1, <2>2, <3>2
    <3> QED BY <2>1, <3>1, <3>2
  <2> QED BY <2>3, <2>4
<1>3. EntriesAreRuns' BY DEF EntriesAreRuns
<1>4. FamilyRows' BY DEF FamilyRows
<1>5. SlotsBounded' BY NoMoreSlots DEF Registered
<1>6. RunningIsDriven' BY DEF RunningIsDriven
<1>7. ParentIsTold' BY DEF ParentIsTold
<1> QED BY <1>1, <1>2, <1>3, <1>4, <1>5, <1>6, <1>7

\* A handler begins.
LEMMA HandleRetryInv ==
  ASSUME IInv, NEW p \in Procs, NEW t \in Tasks, HandleRetry(p, t)
  PROVE  IInv'
<1> USE DEF IInv, TypeOK, ProcsInv, HandleRetry
<1>1. TypeOK' OBVIOUS
<1>2. ProcsInv' OBVIOUS
<1>3. EntriesAreRuns' BY DEF EntriesAreRuns
<1>4. FamilyRows' BY DEF FamilyRows
<1>5. SlotsBounded' BY NoMoreSlots DEF Registered
<1>6. RunningIsDriven' BY DEF RunningIsDriven
<1>7. ParentIsTold' BY DEF ParentIsTold
<1> QED BY <1>1, <1>2, <1>3, <1>4, <1>5, <1>6, <1>7

\* A pending row needs no driver, and is a child that has not ended.
LEMMA RetryWriteInv ==
  ASSUME IInv, NEW p \in Procs, RetryWrite(p)
  PROVE  IInv'
<1> USE DEF IInv, TypeOK, ProcsInv, RetryWrite
<1>1. TypeOK' OBVIOUS
<1>2. ProcsInv' OBVIOUS
<1>3. EntriesAreRuns' BY DEF EntriesAreRuns
<1>4. FamilyRows' BY DEF FamilyRows
<1>5. SlotsBounded' BY NoMoreSlots DEF Registered
<1>6. RunningIsDriven' BY DEF RunningIsDriven
<1>7. ParentIsTold'
  <2>1. /\ \A q \in Procs \ {p} : proc'[q] = proc[q]
        /\ At(p, "retry") /\ proc[p].task \in Tasks
        /\ \A x \in Tasks : status'[x] \in {status[x], "pending"}
        /\ \A x \in Tasks : x # proc[p].task => status'[x] = status[x]
        /\ HasRow(proc[p].task) => status'[proc[p].task] = "pending"
        /\ \A x \in Tasks : HasRow(x)' = HasRow(x)
        /\ untold' = untold
    OBVIOUS
  <2> HIDE DEF RetryWrite, TypeOK, ProcsInv
  <2>2. \A x \in Tasks : Children(x)' = Children(x) BY <2>1
  <2>3. \A x \in Tasks : ChildrenEnded(x)' => ChildrenEnded(x) BY <2>1, <2>2
  <2> QED BY <2>1, <2>3 DEF ParentIsTold
<1> QED BY <1>1, <1>2, <1>3, <1>4, <1>5, <1>6, <1>7

\* The handler that has ended the row tells the parent.
LEMMA ApiEndInv ==
  ASSUME IInv, NEW p \in Procs, NEW t \in Tasks, ApiEnd(p, t)
  PROVE  IInv'
<1> USE DEF IInv, TypeOK, ProcsInv, ApiEnd
<1>1. TypeOK' OBVIOUS
<1>2. ProcsInv' OBVIOUS
<1>3. EntriesAreRuns' BY DEF EntriesAreRuns
<1>4. FamilyRows' BY DEF FamilyRows
<1>5. SlotsBounded' BY NoMoreSlots DEF Registered
<1>6. RunningIsDriven' BY DEF RunningIsDriven
<1>7. ParentIsTold'
  <2>1. PICK st \in {"complete", "failed"} : EndTask(p, t, st, "request") OBVIOUS
  <2>2. /\ \A q \in Procs \ {p} : proc'[q] = proc[q]
        /\ proc'[p].pc = "count" /\ proc'[p].ctx = "request" /\ proc'[p].task = t
        /\ At(p, "idle") /\ proc[p].task = NoTask
        /\ untold' = untold \ {Parent[t]} /\ status' = [status EXCEPT ![t] = st]
    BY <2>1
  <2> HIDE DEF ApiEnd
  <2> SUFFICES ASSUME NEW x \in Tasks, x # Parent[t],
                      status'[x] = "running", x \notin untold', ChildrenEnded(x)'
               PROVE  \E q \in Procs \ {p} : /\ proc[q].pc \in {"count", "parent"}
                                             /\ proc[q].ctx # "dead"
                                             /\ Parent[proc[q].task] = x
    BY <2>2 DEF ParentIsTold
  <2>3. x # t /\ status[x] = "running" /\ x \notin untold BY <2>2
  <2>4. t \notin Children(x) /\ Children(x)' = Children(x) BY <2>2
  <2>5. ChildrenEnded(x) BY <2>2, <2>4
  <2> QED BY <2>2, <2>3, <2>5 DEF ParentIsTold
<1> QED BY <1>1, <1>2, <1>3, <1>4, <1>5, <1>6, <1>7

\* What the handler had still to tell is noted.
LEMMA ClientGoneInv ==
  ASSUME IInv, NEW p \in Procs, ClientGone(p)
  PROVE  IInv'
<1> USE DEF IInv, TypeOK, ProcsInv, ClientGone
<1>1. TypeOK' OBVIOUS
<1>2. ProcsInv' OBVIOUS
<1>3. EntriesAreRuns' BY DEF EntriesAreRuns
<1>4. FamilyRows' BY DEF FamilyRows
<1>5. SlotsBounded' BY NoMoreSlots DEF Registered
<1>6. RunningIsDriven' BY DEF RunningIsDriven
<1>7. ParentIsTold' BY DEF ParentIsTold
<1> QED BY <1>1, <1>2, <1>3, <1>4, <1>5, <1>6, <1>7

\* No row is left at running.
LEMMA DeleteAllTasksInv ==
  ASSUME IInv, DeleteAllTasks
  PROVE  IInv'
<1> USE DEF IInv, TypeOK, ProcsInv, DeleteAllTasks
<1>1. TypeOK' OBVIOUS
<1>2. ProcsInv' OBVIOUS
<1>3. EntriesAreRuns' BY DEF EntriesAreRuns
<1>4. FamilyRows' BY DEF FamilyRows
<1>5. SlotsBounded' BY NoMoreSlots DEF Registered
<1>6. RunningIsDriven' BY DEF RunningIsDriven
<1>7. ParentIsTold' BY DEF ParentIsTold
<1> QED BY <1>1, <1>2, <1>3, <1>4, <1>5, <1>6, <1>7

\* All entries go; what was running is noted.
LEMMA CrashInv ==
  ASSUME IInv, Crash
  PROVE  IInv'
<1> USE DEF IInv, TypeOK, ProcsInv, Crash
<1>1. TypeOK' OBVIOUS
<1>2. ProcsInv' OBVIOUS
<1>3. EntriesAreRuns' BY DEF EntriesAreRuns
<1>4. FamilyRows' BY DEF FamilyRows
<1>5. SlotsBounded' BY NoMoreSlots DEF Registered
<1>6. RunningIsDriven' BY DEF RunningIsDriven
<1>7. ParentIsTold' BY DEF ParentIsTold
<1> QED BY <1>1, <1>2, <1>3, <1>4, <1>5, <1>6, <1>7

-----------------------------------------------------------------------------
\* The inductive invariant holds initially.
LEMMA InitInv == Init => IInv
<1> SUFFICES ASSUME Init PROVE IInv OBVIOUS
<1> USE DEF Init
<1>1. TypeOK /\ ProcsInv /\ EntriesAreRuns /\ FamilyRows /\ RunningIsDriven /\ ParentIsTold
  BY DEF TypeOK, ProcsInv, EntriesAreRuns, FamilyRows, RunningIsDriven, ParentIsTold
<1>2. Registered = {} BY DEF Registered
<1>3. SlotsBounded BY <1>2, FS_EmptySet DEF SlotsBounded
<1> QED BY <1>1, <1>3 DEF IInv

\* Every step keeps it.
LEMMA NextInv == IInv /\ [Next]_vars => IInv'
<1> SUFFICES ASSUME IInv, [Next]_vars PROVE IInv' OBVIOUS
<1>1. CASE UNCHANGED vars
  BY <1>1 DEF vars, IInv, TypeOK, ProcsInv, EntriesAreRuns, FamilyRows, SlotsBounded, Registered,
              RunningIsDriven, ParentIsTold
<1>2. ASSUME NEW p \in Procs, Step(p) PROVE IInv'
  BY <1>2, StartReadInv, StartRefusedInv, LaunchFailInv, StartWriteInv, StartUnconfiguredInv,
     RegisterInv, ThrottledInv, RunEndsInv, RunGivesUpInv, RunReturnsInv, CountSiblingsInv,
     EndParentInv, CancelRunInv, RetryWriteInv
     DEF Step
<1>3. ASSUME NEW p \in Procs, Request(p) PROVE IInv'
  BY <1>3, CreateTaskInv, HandleStartInv, CancelTaskInv, HandleRetryInv, ApiEndInv DEF Request
<1> QED BY <1>1, <1>2, <1>3, TimeoutInv, ClientGoneInv, DeleteAllTasksInv, CrashInv DEF Next

\* The inductive invariant holds in every reachable state.
THEOREM Invariance == Spec => []IInv
BY InitInv, NextInv, PTL DEF Spec

\* Every variable keeps its type.
THEOREM TypeCorrect == Spec => []TypeOK
BY Invariance, PTL DEF IInv

\* EntriesAreRuns, without the context.
LEMMA SlotsLemma == IInv => SlotsAreRuns
BY DEF IInv, EntriesAreRuns, SlotsAreRuns

\* No entry of activeTasks outlives its run, whoever deletes and replaces entries.
THEOREM SlotsHeldByRuns == Spec => []SlotsAreRuns
BY Invariance, SlotsLemma, PTL

\* The throttle holds for every maxConcurrent, although entries of one task
\* replace each other.
THEOREM ThrottleHolds == Spec => []SlotsBounded
BY Invariance, PTL DEF IInv

\* A row at 'running' is driven, or has lost its run to one of three causes.
THEOREM RunningDriven == Spec => []RunningIsDriven
BY Invariance, PTL DEF IInv

\* For every family tree, the last child to end tells its parent.
THEOREM ParentTold == Spec => []ParentIsTold
BY Invariance, PTL DEF IInv

-----------------------------------------------------------------------------
(* The action property. *)

\* One step of EndedIsKept.
EndedStep ==
  \A t \in Tasks : status[t] \in Ended /\ status'[t] # status[t] =>
    \/ status'[t] = "deleted"
    \/ \E p \in Procs :
         \/ ApiEnd(p, t)
         \/ /\ proc[p].task = t /\ proc'[p] # proc[p]
            /\ proc[p].pc \in {"retry", "start", "launch_fail", "work"}

\* Only six actions write to a row that has ended.
LEMMA EndedLemma == IInv /\ [Next]_vars => EndedStep
<1> SUFFICES ASSUME IInv, [Next]_vars PROVE EndedStep OBVIOUS
<1> USE DEF IInv, TypeOK, ProcsInv, EndedStep
<1>1. CASE UNCHANGED vars BY <1>1 DEF vars
<1>2. ASSUME NEW p \in Procs, Step(p) PROVE EndedStep
  <2>1. CASE LaunchFail(p) BY <2>1 DEF LaunchFail
  <2>2. CASE StartWrite(p) BY <2>2 DEF StartWrite
  <2>3. CASE StartUnconfigured(p) BY <2>3 DEF StartUnconfigured
  <2>4. CASE RunEnds(p)
    <3>1. /\ At(p, "work") /\ proc'[p] # proc[p]
          /\ \A x \in Tasks : x # proc[p].task => status'[x] = status[x]
      BY <2>4 DEF RunEnds
    <3> HIDE DEF IInv, TypeOK, ProcsInv
    <3> QED BY <3>1
  <2>5. CASE EndParent(p) BY <2>5 DEF EndParent
  <2>6. CASE RetryWrite(p) BY <2>6 DEF RetryWrite
  <2>7. CASE UNCHANGED status BY <2>7
  <2> QED BY <1>2, <2>1, <2>2, <2>3, <2>4, <2>5, <2>6, <2>7
          DEF Step, StartRead, StartRefused, Register, Throttled, RunGivesUp, RunReturns,
              CountSiblings, CancelRun
<1>3. ASSUME NEW p \in Procs, Request(p) PROVE EndedStep
  <2>1. PICK t \in Tasks : \/ CreateTask(p, t) \/ HandleStart(p, t) \/ CancelTask(p, t)
                           \/ HandleRetry(p, t) \/ ApiEnd(p, t)
    BY <1>3 DEF Request
  <2>2. CASE ApiEnd(p, t)
    <3>1. \A x \in Tasks : x # t => status'[x] = status[x] BY <2>2 DEF ApiEnd
    <3> HIDE DEF IInv, TypeOK, ProcsInv
    <3> QED BY <2>2, <3>1
  <2>3. CASE CreateTask(p, t) BY <2>3 DEF CreateTask
  <2>4. CASE CancelTask(p, t) BY <2>4 DEF CancelTask
  <2>5. CASE UNCHANGED status BY <2>5
  <2> QED BY <2>1, <2>2, <2>3, <2>4, <2>5 DEF HandleStart, HandleRetry
<1>4. CASE DeleteAllTasks BY <1>4 DEF DeleteAllTasks
<1>5. ASSUME NEW p \in Procs, Timeout(p) PROVE EndedStep BY <1>5 DEF Timeout
<1>7. ASSUME NEW p \in Procs, ClientGone(p) PROVE EndedStep BY <1>7 DEF ClientGone
<1>6. CASE Crash BY <1>6 DEF Crash
<1> QED BY <1>1, <1>2, <1>3, <1>4, <1>5, <1>6, <1>7 DEF Next

\* A late cancellation and the end of the children leave an ended row alone.
THEOREM EndedKept == Spec => EndedIsKept
<1>1. IInv /\ [Next]_vars => [EndedStep]_vars BY EndedLemma
<1>2. [][EndedStep]_vars <=> EndedIsKept BY PTL DEF EndedStep, EndedIsKept
<1> QED BY Invariance, <1>1, <1>2, PTL DEF Spec
=============================================================================
