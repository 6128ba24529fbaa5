------------------------------ MODULE Guidance ------------------------------
(***************************************************************************)
(* What guidance a run's prompt gets from the tips of its repository:      *)
(* MemoryRetrievalService.RetrieveGuidance                                 *)
(* (internal/services/memory_retrieval_service.go) and scoreTip            *)
(* (memory_service.go), for one request.  A tip is a number: of two tips   *)
(* with one score the smaller goes first, for its priority or because it   *)
(* was updated later.  Scores are natural numbers here, 0 for the tips     *)
(* that scoreTip rules out.  The limits are 5, 7, 20, 12 and 10 in the     *)
(* code.  The query reads only the 200 tips that were updated last; which  *)
(* these are is not told by the numbers, that go by priority first.        *)
(***************************************************************************)
EXTENDS Naturals, FiniteSets, Sequences

CONSTANTS
  TipCount, Scores,     \* the tips, and the lexical scores they can have
  DefaultLimit, MaxLimit, KeepNewest, KeepLexical, KeepCandidates, KeepVector,
  Alien,                \* an id that Claude was not offered
  MaxAnswer             \* bound: entries of Claude's answer

ASSUME GuidanceAssumption ==
  /\ {TipCount, KeepNewest, KeepVector, MaxAnswer} \cup Scores \subseteq Nat
  /\ {DefaultLimit, MaxLimit, KeepLexical, KeepCandidates} \subseteq Nat \ {0}
  /\ DefaultLimit <= MaxLimit /\ MaxLimit <= KeepCandidates /\ KeepCandidates <= KeepLexical

Tips == 1..TipCount
Newest ==
  {n \in SUBSET Tips : Cardinality(n) = IF TipCount < KeepNewest THEN TipCount ELSE KeepNewest}
VectorScores == {2, 4}      \* without and with the failure signature

VARIABLES
  lexical,    \* scoreTip of each tip
  newest,     \* the tips that were updated last, as many as the query reads
  asked,      \* req.Limit
  pc,
  candidates, \* entries [tip, score, at]; "at" is the place in Claude's answer
  selected,
  answer,     \* what Claude answered, [tip, score]
  uses        \* memory_tips.use_count, counted from the request on

guidanceVars == <<lexical, newest, asked, pc, candidates, selected, answer, uses>>

Entry == [tip : Tips, score : Nat, at : 0..MaxAnswer]
Replies(tips) == [tip : tips \cup {Alien}, score : {0, 3}]
Answers(tips) == UNION {[1..n -> Replies(tips)] : n \in 0..MaxAnswer}

GuidanceTypeOK ==
  /\ lexical \in [Tips -> Scores] /\ newest \in Newest /\ asked \in 0..MaxLimit + 1
  /\ pc \in {"load", "vector", "rerank", "record", "over", "failed"}
  /\ \A s \in {candidates, selected} : \A e \in s : e \in Entry
  /\ answer \in Answers(Tips)
  /\ uses \in [Tips -> Nat]

GuidanceInit ==
  /\ lexical \in [Tips -> Scores] /\ newest \in Newest
  /\ asked \in 0..MaxLimit + 1
  /\ pc = "load"
  /\ candidates = {} /\ selected = {} /\ answer = <<>>
  /\ uses = [t \in Tips |-> 0]

-----------------------------------------------------------------------------
Before(d, e) ==
  \/ d.score > e.score
  \/ d.score = e.score /\ (d.tip < e.tip \/ (d.tip = e.tip /\ d.at < e.at))
\* mutant of First: the slice without the sort
AnyFirst(n, s) == {e \in s : Cardinality({d \in s : d.tip < e.tip}) < n}

\* sortRetrievedTips and the slice after it
First(n, s) == {e \in s : Cardinality({d \in s : Before(d, e)}) < n}

Limit ==
  LET l == IF asked = 0 THEN DefaultLimit ELSE asked
  IN IF l > MaxLimit THEN MaxLimit ELSE l

Of(t, score) == [tip |-> t, score |-> score, at |-> 0]

\* scoreTip: the tips read that share anything with the task
Fitting == {t \in newest : lexical[t] > 0}

\* Without a candidate the vectors are not asked.
LoadCandidates ==
  /\ pc = "load"
  /\ candidates' = First(KeepLexical, {Of(t, lexical[t]) : t \in Fitting})
  /\ pc' = IF candidates' = {} THEN "over" ELSE "vector"
  /\ UNCHANGED <<lexical, newest, asked, selected, answer, uses>>

\* the query or one of its rows fails, and the caller goes on without guidance
LoadFails ==
  /\ pc = "load" /\ pc' = "failed"
  /\ UNCHANGED <<lexical, newest, asked, candidates, selected, answer, uses>>

\* mergeRetrievedTips: the better score of the two
Merged(base, extras) ==
  {e \in base \cup extras : \A d \in base \cup extras : d.tip = e.tip => d.score <= e.score}

\* the tips whose vectors are nearest, old ones too; none without a provider or the table, or
\* after an error
VectorCandidates ==
  /\ pc = "vector" /\ pc' = "rerank"
  /\ \E near \in SUBSET Tips : \E sc \in [near -> VectorScores] :
       /\ Cardinality(near) <= KeepVector
       /\ candidates' =
            First(KeepCandidates, Merged(candidates, {Of(t, sc[t]) : t \in near}))
  /\ UNCHANGED <<lexical, newest, asked, selected, answer, uses>>

\* rerankWithClaude: ids that were not offered are dropped, and an id may come twice
Chosen(a) ==
  {[p[2] EXCEPT !.score = @ + a[p[1]].score, !.at = p[1]] :
     p \in {q \in (DOMAIN a) \X candidates : q[2].tip = a[q[1]].tip}}

\* one candidate is not ranked; without a usable answer the candidates are it
Rerank ==
  /\ pc = "rerank" /\ pc' = "record"
  /\ answer' \in IF Cardinality(candidates) > 1 THEN Answers({c.tip : c \in candidates})
                 ELSE {<<>>}
  /\ selected' = First(Limit, IF Chosen(answer') = {} THEN candidates ELSE Chosen(answer'))
  /\ UNCHANGED <<lexical, newest, asked, candidates, uses>>

\* recordTipRetrieval for each of them; all of it fails once the request is dead
Record ==
  /\ pc = "record" /\ pc' = "over"
  /\ \/ uses' = [t \in Tips |-> uses[t] + Cardinality({e \in selected : e.tip = t})]
     \/ UNCHANGED uses
  /\ UNCHANGED <<lexical, newest, asked, candidates, selected, answer>>

GuidanceNext == LoadCandidates \/ LoadFails \/ VectorCandidates \/ Rerank \/ Record
GuidanceSpec == GuidanceInit /\ [][GuidanceNext]_guidanceVars

-----------------------------------------------------------------------------
Ranked == Chosen(answer) # {}
Selected(t) == \E e \in selected : e.tip = t

(* The prompt gets no more than it asked for, and something whenever one of the *)
(* newest tips fits the task; every entry was a candidate that scored no more   *)
(* before Claude ranked it; a tip comes twice, and its use is counted twice,    *)
(* only if Claude named it twice.                                               *)
WithinTheOffer ==
  /\ Cardinality(selected) <= Limit
  /\ pc \in {"record", "over"} => (selected = {}) = (\A t \in newest : lexical[t] = 0)
  /\ \A e \in selected : \E c \in candidates : c.tip = e.tip /\ c.score <= e.score
  /\ \A t \in Tips :
       Cardinality({e \in selected : e.tip = t}) > 1 \/ uses[t] > 1
       => Cardinality({i \in DOMAIN answer : answer[i].tip = t}) > 1

(* But for the query's own, that keeps the newest and has not seen the task, no *)
(* cap on the way costs a better tip its place: without a ranking by Claude, a  *)
(* tip that was read and left out fits the task no better, in the words it      *)
(* shares with it, than any that the prompt has, one that only its vector       *)
(* brought in among them; and with one, a candidate that Claude named is left   *)
(* out only for others it named.                                                *)
CapsKeepTheBest ==
  pc \in {"record", "over"} =>
    /\ ~Ranked => \A t \in newest, e \in selected : Selected(t) \/ lexical[t] <= e.score
    /\ Ranked => \A i \in DOMAIN answer :
         \/ \A c \in candidates : c.tip # answer[i].tip
         \/ Selected(answer[i].tip)
         \/ Cardinality(selected) = Limit

GuidanceSound == WithinTheOffer /\ CapsKeepTheBest
=============================================================================
