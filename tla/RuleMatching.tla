---------------------------- MODULE RuleMatching ----------------------------
(* Which learned rule a screen stands for: the rebuilt search index, the      *)
(* embedder, and the judge that runs off the loop and answers later           *)
(* (daemon/semantic.go, daemon/rerank.go, match/match.go, embedder/).         *)
(*                                                                            *)
(* A rule is named by the raw hash of the screen it was minted from, so rules *)
(* and screens share one set. The loop handles one thing at a time; a fleet   *)
(* pull's RefreshKnowledge, the index builds and the judge runs do not wait   *)
(* for it.                                                                    *)
EXTENDS Integers, FiniteSets

CONSTANTS Screens, MaxFailures, MaxBuilds, MaxMovesSeen, MaxReloads, MaxRuns

ASSUME MatchingAssumption ==
  /\ MaxFailures \in Nat \ {0} /\ MaxBuilds \in Nat /\ MaxMovesSeen \in Nat
  /\ MaxReloads \in Nat /\ MaxRuns \in Nat

VARIABLES
  shownScreen,    \* the screen of the pane
  waiting,  \* the capture whose decision is suspended on a judge, or Nothing
  ruleRows,     \* signature_embeddings in the store
  index,    \* what the published index holds
  ready,    \* semanticReady
  built,    \* builtKnowledge: the fingerprint the index was built from
  semGen, matcherGen,
  builds,   \* initSemantic goroutines
  by,       \* history: the builds that published the index and its claim
  emb,      \* the embedder: consecutive failures, degraded
  regime,   \* the loaded configuration, by number
  judgeGen, cache, digest, \* rerankGen, rerankCache, rerankKnowledge
  matchFlight,   \* rerankInFlight of the agent
  runs,     \* judge runs and their outcomes not handled yet
  taken,    \* the outcome handleRerankOutcome works on
  ended,    \* history: tokens whose decision was given up, and those resumed
  indexRefresh,  \* a pull brought rows and RefreshKnowledge has not run yet
  moved

matchVars == <<shownScreen, waiting, ruleRows, index, ready, built, semGen, matcherGen, builds, by, emb, regime,
               judgeGen, cache, digest, matchFlight, runs, taken, ended, indexRefresh, moved>>
judgeVars == <<waiting, cache, matchFlight, runs, taken, ended>>
indexVars == <<ruleRows, index, ready, built, semGen, matcherGen, builds, by>>

NothingYet == "nothing"
UnknownSig == {NothingYet}     \* a fingerprint that could not be read
NoFlight == [token |-> 0, raw |-> NothingYet, gen |-> 0]
NoOutcome == [token |-> 0]

InitMatching ==
  /\ shownScreen \in Screens /\ waiting = NothingYet
  /\ ruleRows \in {{s} : s \in Screens} /\ index = {} /\ ready = FALSE /\ built = UnknownSig
  /\ semGen = 1 /\ matcherGen = 0 /\ builds = {[gen |-> 1, at |-> "new"]}
  /\ by = [index |-> 0, built |-> 0]
  /\ emb = [failures |-> 0, degraded |-> FALSE]
  /\ regime = 1 /\ judgeGen = 0 /\ cache = {} /\ digest = UnknownSig
  /\ matchFlight = NoFlight /\ runs = {} /\ taken = NoOutcome
  /\ ended = [dropped |-> {}, resumed |-> {}] /\ indexRefresh = FALSE /\ moved = 0

-----------------------------------------------------------------------------
(* Building the index *)

\* recordFailure: MaxFailures failures in a row latch the embedder off.
RecordFailure ==
  emb' = [failures |-> emb.failures + 1, degraded |-> emb.failures + 1 >= MaxFailures]

StartsBuild(bs, gen) == bs \cup {[gen |-> gen, at |-> "new"]}

\* initSemantic reads the fingerprint before the rows: a row written in
\* between is indexed and its fingerprint is not claimed.
BuildReadsFingerprint(b) ==
  /\ b.at = "new"
  /\ builds' = (builds \ {b}) \cup {[gen |-> b.gen, at |-> "fp", fp |-> ruleRows]}
  /\ UNCHANGED <<ruleRows, index, ready, built, semGen, matcherGen, by, emb>>

\* Reconcile: lists the rows and re-embeds what another model embedded. With an
\* embedder that fails but is not down for good the build claims nothing, so
\* that the next refresh tries again.
Reconcile(b) ==
  /\ b.at = "fp"
  /\ \E warm \in BOOLEAN :
       /\ IF emb.degraded THEN ~warm /\ UNCHANGED emb
          ELSE IF warm THEN emb' = [emb EXCEPT !.failures = 0] ELSE RecordFailure
       /\ LET claim == IF ~warm /\ ~emb'.degraded THEN UnknownSig ELSE b.fp IN
          builds' = (builds \ {b}) \cup
            (IF semGen # b.gen THEN {} ELSE {[gen |-> b.gen, at |-> "listed", fp |-> claim, has |-> ruleRows]})
  /\ UNCHANGED <<ruleRows, index, ready, built, semGen, matcherGen, by>>

RebuildStarts(b) ==
  /\ b.at = "listed"
  /\ matcherGen' = matcherGen + 1
  /\ builds' = (builds \ {b}) \cup
       {[gen |-> b.gen, at |-> "building", fp |-> b.fp, has |-> b.has, mgen |-> matcherGen + 1]}
  /\ UNCHANGED <<ruleRows, index, ready, built, semGen, by, emb>>

\* RebuildPublished: the index is swapped in unless a later rebuild started,
\* whatever build asked for that one.
RebuildPublished(b) ==
  /\ b.at = "building"
  /\ index' = IF matcherGen = b.mgen THEN b.has ELSE index
  /\ by' = IF matcherGen = b.mgen THEN [by EXCEPT !.index = b.gen] ELSE by
  /\ builds' = (builds \ {b}) \cup
       {[gen |-> b.gen, at |-> "done", fp |-> IF matcherGen = b.mgen THEN b.fp ELSE UnknownSig]}
  /\ UNCHANGED <<ruleRows, ready, built, semGen, matcherGen, emb>>

\* Mutant: the fingerprint is read when the index stands.
PublishKnowledgeOfNow(b) ==
  /\ b.at = "done" /\ builds' = builds \ {b}
  /\ built' = IF semGen = b.gen THEN ruleRows ELSE built
  /\ by' = IF semGen = b.gen THEN [by EXCEPT !.built = b.gen] ELSE by
  /\ ready' = (ready \/ semGen = b.gen)
  /\ UNCHANGED <<ruleRows, index, semGen, matcherGen, emb>>

\* publishKnowledge: unless a later build was asked for.
PublishKnowledge(b) ==
  /\ b.at = "done" /\ builds' = builds \ {b}
  /\ built' = IF semGen = b.gen THEN b.fp ELSE built
  /\ by' = IF semGen = b.gen THEN [by EXCEPT !.built = b.gen] ELSE by
  /\ ready' = (ready \/ semGen = b.gen)
  /\ UNCHANGED <<ruleRows, index, semGen, matcherGen, emb>>

BuildStep ==
  /\ \E b \in builds : \/ BuildReadsFingerprint(b) \/ Reconcile(b) \/ RebuildStarts(b)
                       \/ RebuildPublished(b) \/ PublishKnowledge(b)
  /\ UNCHANGED <<shownScreen, waiting, regime, judgeGen, cache, digest, matchFlight, runs, taken, ended, indexRefresh, moved>>

-----------------------------------------------------------------------------
(* Knowledge from other nodes, and reloads *)

\* A pull: rules of other nodes arrive.
PullLands ==
  /\ ~indexRefresh /\ \E s \in Screens \ ruleRows : ruleRows' = ruleRows \cup {s}
  /\ indexRefresh' = TRUE
  /\ UNCHANGED <<shownScreen, index, ready, built, semGen, matcherGen, builds, by, emb, regime, judgeGen, digest, moved>>
  /\ UNCHANGED judgeVars

\* invalidateRerankForKnowledge: the rules differ from those the verdicts were for.
KnowledgeMoved == digest # ruleRows

\* RefreshKnowledge: verdicts are retired when the knowledge moved, and the
\* index is rebuilt unless it was built from these very rows.
RefreshKnowledge ==
  /\ indexRefresh /\ indexRefresh' = FALSE
  /\ built # ruleRows => semGen < MaxBuilds
  /\ digest' = ruleRows
  /\ cache' = IF KnowledgeMoved THEN {} ELSE cache
  /\ judgeGen' = IF KnowledgeMoved THEN judgeGen + 1 ELSE judgeGen
  /\ semGen' = IF built = ruleRows THEN semGen ELSE semGen + 1
  /\ builds' = IF built = ruleRows THEN builds ELSE StartsBuild(builds, semGen + 1)
  /\ UNCHANGED <<shownScreen, waiting, ruleRows, index, ready, built, matcherGen, by, emb, regime, matchFlight, runs,
                 taken, ended, moved>>

\* Mutant: only the cache is emptied.
InvalidateRerankCacheOnly == cache' = {} /\ judgeGen' = judgeGen

\* invalidateRerank: the cached verdicts go, and those still being computed are
\* retired by the generation they carry.
InvalidateRerank == cache' = {} /\ judgeGen' = judgeGen + 1

\* reloadWith, on the loop: other prompts, thresholds, models; a fresh embedder.
Reload ==
  /\ taken = NoOutcome /\ regime <= MaxReloads /\ semGen < MaxBuilds
  /\ regime' = regime + 1 /\ InvalidateRerank
  /\ emb' = [failures |-> 0, degraded |-> FALSE]
  /\ ready' = FALSE /\ built' = UnknownSig
  /\ semGen' = semGen + 1 /\ builds' = StartsBuild(builds, semGen + 1)
  /\ UNCHANGED <<shownScreen, waiting, ruleRows, index, matcherGen, by, digest, matchFlight, runs, taken, ended, indexRefresh, moved>>

-----------------------------------------------------------------------------
(* Resolving a screen *)

Decides(raw) == waiting' = IF waiting = raw THEN NothingYet ELSE waiting

\* mintSignature: a rule of its own, in the store and in the index of now.
Mint(raw) == ruleRows' = ruleRows \cup {raw} /\ index' = IF ready THEN index \cup {raw} ELSE index

KeepJudge == UNCHANGED <<cache, matchFlight, runs, ended>>
KeepIndex == UNCHANGED <<ruleRows, index>>

\* Exact hash, semantic off or not ready.
ResolvesExactly ==
  /\ (~ready \/ shownScreen \in ruleRows) /\ waiting' = NothingYet
  /\ KeepJudge /\ KeepIndex /\ UNCHANGED emb

\* MatchText: the best text hit of the scope, if any clears the bar.
TextHit == index # {}

\* No vector for this screen: the embedder fails or is latched off; text may
\* still match, and a miss mints.
ResolvesByText ==
  /\ ready /\ shownScreen \notin ruleRows
  /\ \/ emb.degraded /\ UNCHANGED emb
     \/ ~emb.degraded /\ RecordFailure
  /\ \/ TextHit /\ KeepIndex
     \/ Mint(shownScreen)
  /\ waiting' = NothingYet /\ KeepJudge

\* VectorCandidates: the rules the listing offers the judge.
Candidates == index
\* rerankCacheKey: the screen and the listing as it is rendered.
Key(raw) == [raw |-> raw, listing |-> Candidates]
Cached(raw) == {c \in cache : c.key = Key(raw)}

\* EmbedText answers with a vector.
Embeds == ready /\ shownScreen \notin ruleRows /\ ~emb.degraded /\ emb' = [emb EXCEPT !.failures = 0]

\* A clean miss of the vector search mints, or passes the high text bar.
ResolvesAsNew ==
  /\ Embeds
  /\ \/ Mint(shownScreen)
     \/ TextHit /\ KeepIndex
  /\ waiting' = NothingYet /\ KeepJudge

\* finishRerank: a veto mints, an answer is used.
FinishRerank(raw, verdict) == IF verdict = "veto" THEN Mint(raw) ELSE KeepIndex

ResolvesFromCache ==
  /\ Embeds /\ Candidates # {} /\ Cached(shownScreen) # {}
  /\ \E c \in Cached(shownScreen) : FinishRerank(shownScreen, c.verdict)
  /\ waiting' = NothingYet /\ KeepJudge

\* The judge may be unconfigured, paused, or unable to start: the cosine answer.
ResolvesUnjudged ==
  /\ Embeds /\ Candidates # {} /\ Cached(shownScreen) = {}
  /\ waiting' = NothingYet /\ KeepIndex /\ KeepJudge

\* startRerank: one run per agent; the same screen is already being judged, and
\* a run for another screen is superseded.
StartRerank ==
  /\ Embeds /\ Candidates # {} /\ Cached(shownScreen) = {} /\ KeepIndex
  /\ waiting' = shownScreen
  /\ IF matchFlight.raw = shownScreen THEN UNCHANGED <<cache, matchFlight, runs, ended>>
     ELSE LET token == 1 + Cardinality(ended.dropped \cup ended.resumed) + IF matchFlight = NoFlight THEN 0 ELSE 1 IN
          /\ token <= MaxRuns
          /\ matchFlight' = [token |-> token, raw |-> shownScreen, gen |-> judgeGen]
          /\ runs' = runs \cup {[token |-> token, raw |-> shownScreen, gen |-> judgeGen, key |-> Key(shownScreen),
                                 regime |-> regime, verdict |-> "none"]}
          /\ ended' = IF matchFlight = NoFlight THEN ended ELSE [ended EXCEPT !.dropped = @ \cup {matchFlight.token}]
          /\ UNCHANGED cache

\* decideAndAct, for the screen a capture found.
DecideAndAct ==
  /\ taken = NoOutcome /\ waiting # shownScreen
  /\ \/ ResolvesExactly \/ ResolvesByText \/ ResolvesAsNew \/ ResolvesFromCache
     \/ ResolvesUnjudged \/ StartRerank
  /\ UNCHANGED <<shownScreen, ready, built, semGen, matcherGen, builds, by, regime, judgeGen, digest, taken, indexRefresh, moved>>

-----------------------------------------------------------------------------
(* The judge's answer *)

\* ParseRerankVerdict: an ordered answer, an empty one, or none to be had.
JudgeVerdicts == {"err", "veto", "pick"}

JudgeAnswers ==
  /\ \E r \in runs, v \in JudgeVerdicts :
       /\ r.verdict = "none" /\ runs' = (runs \ {r}) \cup {[r EXCEPT !.verdict = v]}
  /\ UNCHANGED <<shownScreen, emb, regime, judgeGen, digest, indexRefresh, moved>>
  /\ UNCHANGED indexVars /\ UNCHANGED <<waiting, cache, matchFlight, taken, ended>>

\* Mutant: an outcome is handled whoever it was started for.
OwnsFlightAlways(r) == TRUE

OwnsFlight(r) == matchFlight.token = r.token

\* handleRerankOutcome, first half: an outcome whose flight was superseded or
\* cancelled is dropped; the pane is read before anything else happens.
TakeJudgement ==
  /\ taken = NoOutcome
  /\ \E r \in {x \in runs : x.verdict # "none"} :
       /\ runs' = runs \ {r}
       /\ IF OwnsFlight(r) THEN taken' = r /\ matchFlight' = NoFlight ELSE UNCHANGED <<taken, matchFlight>>
  /\ UNCHANGED <<shownScreen, waiting, emb, regime, judgeGen, cache, digest, ended, indexRefresh, moved>>
  /\ UNCHANGED indexVars

\* Mutant: a verdict of an earlier generation resumes nothing.
ResumesRetired(r) == r.verdict = "err" \/ r.gen = judgeGen

\* A failed or retired verdict resumes the decision on the cosine answer.
Resumes(r) == TRUE

\* Second half: a screen that moved drops the decision; a verdict of this
\* generation is cached and used, in one hold of the lock.
FinishOutcome ==
  /\ taken # NoOutcome /\ taken' = NoOutcome
  /\ IF shownScreen # taken.raw \/ ~Resumes(taken)
     THEN /\ ended' = [ended EXCEPT !.dropped = @ \cup {taken.token}]
          /\ waiting' = IF shownScreen # taken.raw /\ waiting = taken.raw THEN NothingYet ELSE waiting
          /\ UNCHANGED cache /\ KeepIndex
     ELSE /\ ended' = [ended EXCEPT !.resumed = @ \cup {taken.token}] /\ Decides(taken.raw)
          /\ IF taken.verdict # "err" /\ taken.gen = judgeGen
             THEN /\ cache' = {c \in cache : c.key # taken.key} \cup
                              {[key |-> taken.key, verdict |-> taken.verdict, regime |-> taken.regime]}
                  /\ FinishRerank(taken.raw, taken.verdict)
             ELSE UNCHANGED cache /\ KeepIndex
  /\ UNCHANGED <<shownScreen, ready, built, semGen, matcherGen, builds, by, emb, regime, judgeGen, digest, matchFlight,
                 runs, indexRefresh, moved>>

\* cancelRerank: the agent went to work, or a person answered.
CancelRerank ==
  /\ taken = NoOutcome /\ waiting # NothingYet
  /\ waiting' = NothingYet /\ matchFlight' = NoFlight
  /\ ended' = IF matchFlight = NoFlight THEN ended ELSE [ended EXCEPT !.dropped = @ \cup {matchFlight.token}]
  /\ UNCHANGED <<shownScreen, emb, regime, judgeGen, cache, digest, runs, taken, indexRefresh, moved>>
  /\ UNCHANGED indexVars

ScreenMoves ==
  /\ moved < MaxMovesSeen /\ moved' = moved + 1 /\ shownScreen' \in Screens \ {shownScreen}
  /\ UNCHANGED <<emb, regime, judgeGen, digest, indexRefresh>> /\ UNCHANGED indexVars /\ UNCHANGED judgeVars

NextMatching ==
  \/ BuildStep \/ PullLands \/ RefreshKnowledge \/ Reload \/ DecideAndAct
  \/ JudgeAnswers \/ TakeJudgement \/ FinishOutcome \/ CancelRerank \/ ScreenMoves

SpecMatching == InitMatching /\ [][NextMatching]_matchVars

\* The judge's subprocess is killed at its timeout, the loop goes on, a build
\* goroutine runs; none of them waits for anything else.
FairMatching ==
  WF_matchVars(BuildStep) /\ WF_matchVars(JudgeAnswers) /\ WF_matchVars(TakeJudgement)
  /\ WF_matchVars(FinishOutcome) /\ WF_matchVars(RefreshKnowledge)

FairSpecMatching == SpecMatching /\ FairMatching

-----------------------------------------------------------------------------
(* Properties *)

\* A cached verdict answers the question the configuration asks today: a run
\* that a reload overtook must not refill the cache the reload emptied
\* (invalidateRerank, commitRerankVerdict).
CacheIsOfThisRegime == \A c \in cache : c.regime = regime

\* A judge run whose decision was given up (superseded, cancelled) never acts
\* when its answer comes in late (handleRerankOutcome's token).
GivenUpStaysSilent == ended.dropped \cap ended.resumed = {}

\* Refuted. The index holds the rows whose fingerprint it claims: a refresh that
\* finds the fingerprint unchanged skips the rebuild, so a claim without the rows
\* hides them until a reload (publishKnowledge).
ClaimIsIndexed == built = ruleRows => ruleRows \subseteq index

\* A claim is true of the index its own build published, whatever was minted or
\* pulled while the build ran (the fingerprint is read before the rows).
OwnClaimIsIndexed == built = ruleRows /\ by.index = by.built => ruleRows \subseteq index

\* A capture suspended on the judge is decided, or its screen goes away: a
\* failed, timed out or retired run costs the judge's opinion, not the answer.
SuspendedIsDecided == \A s \in Screens : (waiting = s) ~> (waiting # s \/ shownScreen # s)

\* What matching by meaning promises the decision that waits for it: an answer by the rules
\* and the regime of now, and never one of a run that was given up (semantic.go, rerank.go).
MatchingIsCurrent == CacheIsOfThisRegime /\ GivenUpStaysSilent /\ OwnClaimIsIndexed
=============================================================================
