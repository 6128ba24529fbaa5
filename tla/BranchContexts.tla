-------------------------- MODULE BranchContexts --------------------------
(***************************************************************************)
(* Rows of the table contexts, one per repository and branch of an         *)
(* organisation: what agents learned there.  Whoever writes them:          *)
(*   - GitHub's webhooks (repo_service.go): a new branch copies its        *)
(*     parent's row, a push notes the commit, a merged pull request adds   *)
(*     the head's row to the base's and deletes the head's;                *)
(*   - the task executor, which reads a row at the end of a task and       *)
(*     writes it back;                                                     *)
(*   - the API, which replaces a row or deletes it, and the memory         *)
(*     service, which writes the texts of a row and creates it if need be. *)
(* A step is one statement: what a handler read may be old when it writes. *)
(***************************************************************************)
EXTENDS Naturals, FiniteSets

CONSTANTS
  Repos, Branches,
  Default,        \* the default branch of every repository
  Learned,        \* things an agent can learn: packages, failures, patterns
  KeyOf,          \* what each is a value of: a pattern or a configuration of
                  \* that name, or itself alone, as an item of a list
  Handlers,       \* requests and task runs that read before they write
  MaxErrors,      \* bound: database statements that fail
  MaxJobs         \* bound: things each handler does

ASSUME ContextAssumption ==
  /\ Default \in Branches /\ DOMAIN KeyOf = Learned
  /\ MaxErrors \in Nat /\ MaxJobs \in Nat

VARIABLES
  row,            \* [exists, knows, sha] of every repository and branch
  job,            \* what each handler is doing
  known,          \* what has been learned so far, anywhere
  before,         \* history: what a handler's rows held when it began, forgotten
                  \* when another writes them or a statement fails
  branchErrors    \* statements that failed

contextVars == <<row, job, known, before, branchErrors>>

NoSha == "none"
NoRow == [exists |-> FALSE, knows |-> {}, sha |-> NoSha]
Idle == [op |-> "idle", repo |-> CHOOSE r \in Repos : TRUE, from |-> Default,
         to |-> Default, read |-> {}, head |-> {}, done |-> 0]
Forgotten == [whole |-> FALSE, mine |-> {}, theirs |-> {}]

ContextInit ==
  /\ row = [r \in Repos |-> [b \in Branches |-> NoRow]]
  /\ job = [h \in Handlers |-> Idle]
  /\ known = {} /\ before = [h \in Handlers |-> Forgotten] /\ branchErrors = 0

Error == branchErrors < MaxErrors /\ branchErrors' = branchErrors + 1
NoError == UNCHANGED branchErrors

\* a key has one value: new ones take the place of old ones
With(old, new) == new \cup {k \in old : \A x \in new : KeyOf[x] # KeyOf[k]}

Replace(r, b, new) == row' = [row EXCEPT ![r][b] = new]
Holding(r, b, knows) == [row[r][b] EXCEPT !.exists = TRUE, !.knows = knows]

Become(h, op) == job' = [job EXCEPT ![h].op = op]
Finish(h) == job' = [job EXCEPT ![h] = [Idle EXCEPT !.done = job[h].done + 1]]
StartJob(h, op, r, from, to, read) ==
  /\ job[h].op = "idle" /\ job[h].done < MaxJobs
  /\ job' = [job EXCEPT ![h] = [@ EXCEPT !.op = op, !.repo = r, !.from = from, !.to = to,
                                         !.read = read]]

-----------------------------------------------------------------------------
(* The API: SaveContext replaces the whole row, texts are refreshed in the  *)
(* same request; DeleteContext knows no repository.                         *)
ApiSave(r, b) ==
  /\ \E k \in Learned \ known :
       /\ known' = known \cup {k}
       /\ \/ Replace(r, b, Holding(r, b, {k}))
          \/ Replace(r, b, Holding(r, b, With(row[r][b].knows, {k})))
  /\ UNCHANGED <<job, branchErrors>>

\* mutant of ApiDelete: the row is marked and keeps what it holds
ApiDeleteMarks(b) ==
  /\ \E r \in Repos : row[r][b].exists
  /\ row' = [r \in Repos |-> [row[r] EXCEPT ![b].exists = FALSE]]
  /\ UNCHANGED <<job, known, branchErrors>>

ApiDelete(b) ==
  /\ \E r \in Repos : row[r][b].exists
  /\ row' = [r \in Repos |-> [row[r] EXCEPT ![b] = NoRow]]
  /\ UNCHANGED <<job, known, branchErrors>>

\* UpdateMaterialized: the texts of a row, and an empty row where there is none
Materialize(r, b) ==
  /\ ~row[r][b].exists
  /\ Replace(r, b, Holding(r, b, {}))
  /\ UNCHANGED <<job, known, branchErrors>>

-----------------------------------------------------------------------------
(* handlePush: the commit goes to the branch's row in every repository.      *)
Push(r, b) ==
  /\ \E q \in Repos : row[q][b].exists
  /\ row' = [q \in Repos |-> [row[q] EXCEPT ![b].sha = IF row[q][b].exists THEN r ELSE @]]
  /\ UNCHANGED <<job, known, branchErrors>>

(* handleBranchCreate, autoForkContext: a row of the default branch, of any  *)
(* repository of the organisation, is copied unless the branch has a row.    *)
ReadParent(h, r, b) ==
  /\ b # Default /\ StartJob(h, "fork", r, Default, b, {})
  /\ UNCHANGED <<row, known, branchErrors>>

ForkRead(h) ==
  /\ job[h].op = "fork"
  /\ \/ \E r \in Repos : /\ row[r][Default].exists
                         /\ job' = [job EXCEPT ![h].op = "forkInsert",
                                               ![h].read = row[r][Default].knows]
                         /\ NoError
     \/ (\A r \in Repos : ~row[r][Default].exists) /\ Finish(h) /\ NoError
     \/ Finish(h) /\ Error
  /\ UNCHANGED <<row, known>>

ForkInsert(h) ==
  LET r == job[h].repo
      b == job[h].to
  IN /\ job[h].op = "forkInsert" /\ Finish(h)
     /\ \/ /\ ~row[r][b].exists /\ NoError
           /\ Replace(r, b, Holding(r, b, job[h].read))
        \/ row[r][b].exists /\ NoError /\ UNCHANGED row
        \/ Error /\ UNCHANGED row
     /\ UNCHANGED known

-----------------------------------------------------------------------------
(* handlePullRequest: collapseContextOnMerge, then cleanupBranchResources,   *)
(* whether or not the first succeeded.                                       *)
PullRequestMerged(h, r, from, to) ==
  /\ from # to /\ StartJob(h, "readHead", r, from, to, {})
  /\ UNCHANGED <<row, known, branchErrors>>

ReadHead(h) ==
  LET head == row[job[h].repo][job[h].from] IN
  /\ job[h].op = "readHead"
  /\ \/ /\ head.exists /\ NoError
        /\ job' = [job EXCEPT ![h].op = "readBase", ![h].head = head.knows]
     \/ ~head.exists /\ NoError /\ Become(h, "clean")
     \/ Error /\ Become(h, "clean")
  /\ UNCHANGED <<row, known>>

\* Any error reading the base counts as "no base context": it is replaced
ReadBase(h) ==
  LET base == row[job[h].repo][job[h].to] IN
  /\ job[h].op = "readBase"
  /\ \/ /\ base.exists /\ NoError
        /\ job' = [job EXCEPT ![h].op = "writeBase", ![h].read = base.knows]
     \/ ~base.exists /\ NoError /\ Become(h, "upsertBase")
     \/ Error /\ Become(h, "upsertBase")
  /\ UNCHANGED <<row, known>>

\* mutant of Merged: the head's row replaces the base's
MergedOver(h) == job[h].head

\* mutant of Merged: the base's value of a key wins
MergedUnder(h) == With(job[h].head, job[h].read)

\* mergeJSONArrays joins the lists; in mergeJSONMaps the head's value of a key
\* takes the place of the base's
Merged(h) == With(job[h].read, job[h].head)

WriteBase(h) ==
  LET r == job[h].repo
      b == job[h].to
  IN /\ job[h].op \in {"writeBase", "upsertBase"}
     /\ job' = [job EXCEPT ![h].op = "clean", ![h].read = {}, ![h].head = {}]
     /\ \/ /\ NoError
           /\ \/ job[h].op = "upsertBase" /\ Replace(r, b, Holding(r, b, job[h].head))
              \/ /\ job[h].op = "writeBase" /\ row[r][b].exists
                 /\ Replace(r, b, Holding(r, b, Merged(h)))
              \/ /\ job[h].op = "writeBase" /\ ~row[r][b].exists
                 /\ UNCHANGED row                     \* an UPDATE of no row
        \/ Error /\ UNCHANGED row
     /\ UNCHANGED known

CleanHead(h) ==
  /\ job[h].op = "clean" /\ Finish(h)
  /\ \/ NoError /\ Replace(job[h].repo, job[h].from, NoRow)
     \/ Error /\ UNCHANGED row
  /\ UNCHANGED known

-----------------------------------------------------------------------------
(* The executor at the end of a task: GetRepoContext, its error dropped,     *)
(* and SaveContext of what was read.                                         *)
TaskReads(h, r, b) ==
  /\ \/ NoError /\ StartJob(h, "save", r, b, b, row[r][b].knows)
     \/ Error /\ StartJob(h, "save", r, b, b, {})
  /\ UNCHANGED <<row, known>>

TaskSaves(h) ==
  LET r == job[h].repo
      b == job[h].to
  IN /\ job[h].op = "save" /\ Finish(h)
     /\ \/ NoError /\ Replace(r, b, [Holding(r, b, job[h].read) EXCEPT !.sha = r])
        \/ Error /\ UNCHANGED row
     /\ UNCHANGED known

ContextStep ==
  \/ \E r \in Repos, b \in Branches : ApiSave(r, b) \/ Materialize(r, b) \/ Push(r, b)
  \/ \E b \in Branches : ApiDelete(b)
  \/ \E h \in Handlers :
       \/ \E r \in Repos, b \in Branches : ReadParent(h, r, b) \/ TaskReads(h, r, b)
       \/ \E r \in Repos, b, c \in Branches : PullRequestMerged(h, r, b, c)
       \/ ForkRead(h) \/ ForkInsert(h) \/ ReadHead(h) \/ ReadBase(h)
       \/ WriteBase(h) \/ CleanHead(h) \/ TaskSaves(h)

\* A handler is disturbed when another step changes one of its rows, or a
\* statement fails, while it works
Disturbs(h) ==
  LET j == job[h] IN
  \/ branchErrors' # branchErrors
  \/ job'[h] = j /\ (row[j.repo][j.from] # row'[j.repo][j.from]
                        \/ row[j.repo][j.to] # row'[j.repo][j.to])

Notice ==
  before' = [h \in Handlers |->
    LET j == job'[h] IN
    IF j.op = "idle" \/ Disturbs(h) THEN Forgotten
    ELSE IF job[h].op # "idle" THEN before[h]
    ELSE [whole |-> TRUE, mine |-> row[j.repo][j.from].knows, theirs |-> row[j.repo][j.to].knows]]

ContextNext == ContextStep /\ Notice

ContextSpec == ContextInit /\ [][ContextNext]_contextVars

-----------------------------------------------------------------------------
(* Types, and: a row that is not there holds nothing, and a row holds one    *)
(* value of a key.                                                           *)
OneValue(S) == \A x, y \in S : KeyOf[x] = KeyOf[y] => x = y

ContextTypeOK ==
  /\ \A r \in Repos, b \in Branches :
       /\ row[r][b].knows \subseteq known /\ row[r][b].sha \in Repos \cup {NoSha}
       /\ ~row[r][b].exists => row[r][b] = NoRow
       /\ OneValue(row[r][b].knows)
  /\ known \subseteq Learned /\ branchErrors \in 0 .. MaxErrors
  /\ \A h \in Handlers : /\ job[h].read \cup job[h].head \subseteq known
                          /\ before[h].mine \cup before[h].theirs \subseteq known
                          /\ job[h].done \in 0 .. MaxJobs
                          /\ before[h].whole => job[h].op # "idle"

(* A handler loses nothing by itself: a fork, a merge with its clean-up of   *)
(* the head, or the end of a task, between whose statements nobody else      *)
(* changed its rows and no statement failed, ends with all that its two rows *)
(* held when it began still held by one of them; only a merge replaces the   *)
(* base's value of a key, and only by the head's of that key.  (Disturbed    *)
(* ones do lose knowledge: two merges into one base, a save of what was read *)
(* long ago.)                                                                *)
Keeps(op, held, after) ==
  /\ held.mine \subseteq after
  /\ \A k \in held.theirs :
       k \in after \/ (op = "clean" /\ \E x \in held.mine : KeyOf[x] = KeyOf[k])

UndisturbedKeeps ==
  [][\A h \in Handlers :
       LET j == job[h] IN
       (before[h].whole /\ job'[h].op = "idle" /\ ~Disturbs(h))
       => Keeps(j.op, before[h], row'[j.repo][j.from].knows
                                   \cup row'[j.repo][j.to].knows)]_contextVars

=============================================================================
