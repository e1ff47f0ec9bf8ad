---------------------------- MODULE AskWorkflow ----------------------------
(***************************************************************************)
(* One request through the agent: Service.Ask and Service.AskStream with   *)
(* the Eino workflow they invoke (internal/agent/service.go).  A request   *)
(* picks a skill or a route, answers directly or runs up to MaxRetries     *)
(* attempts of rewrite, retrieval, rerank, answer and grade, and delivers  *)
(* a response or fails.  Every external call (language model, embedding,   *)
(* store, rerank service, SQL and web tools) may succeed with any result   *)
(* or fail; the orchestrator deadline may expire between any two steps of  *)
(* the attempts.                                                           *)
(*                                                                         *)
(* Abstractions.  A candidate is its chunk id; a question is the number of *)
(* the attempt that rewrote it (0 is the request's); a generated answer is *)
(* its ordinal and the prompt it was generated from; a score is an integer *)
(* in 0..MaxScore.  Order and scores of candidates are left out: where the *)
(* code cuts a list by score, any cut of that size is possible.            *)
(***************************************************************************)
EXTENDS Integers, FiniteSets, RouteOptions

CONSTANTS
    MaxRetries,      \* MAX_RETRY_LOOPS
    MaxExternal,     \* ORCHESTRATOR_MAX_EXTERNAL_CALLS
    PlannerMax,      \* PLANNER_MAX_SUBQUERIES
    MaxParts,        \* bound: parts the planner or the punctuation split returns
    TopK,            \* RETRIEVAL_TOP_K
    RerankTopM,      \* RERANK_TOP_M
    MinCandidates,   \* EARLY_STOP_MIN_CANDIDATES, 0 switches the test off
    MaxScore,        \* bound: grades score in 0..MaxScore
    Threshold,       \* DIRECT_CONFIDENCE_THRESHOLD, in the same unit
    AutoFallback,    \* DIRECT_AUTO_FALLBACK
    FallbackRoute,   \* DIRECT_FALLBACK_ROUTE
    RemoteStore,     \* VECTOR_BACKEND is qdrant: a store call is a remote call
    Chunks           \* ids of the stored chunks and summaries

\* What config.validate leaves possible.
ASSUME ConfigAssumption ==
    /\ MaxRetries \in Nat \ {0} /\ MaxExternal \in Nat
    /\ PlannerMax \in Nat \ {0} /\ MaxParts \in Nat \ {0}
    /\ TopK \in Nat \ {0} /\ RerankTopM \in Nat \ {0} /\ MinCandidates \in Nat
    /\ MaxScore \in Nat /\ Threshold \in 0 .. MaxScore
    /\ AutoFallback \in BOOLEAN /\ FallbackRoute \in FallbackRoutes
    /\ RemoteStore \in BOOLEAN /\ IsFiniteSet(Chunks)

VARIABLES
    pc,          \* control point of the handler
    mode,        \* "ask" or "stream"
    route,       \* the route of the request
    caller,      \* who runs the retrieval: "loop", "fallback" or nobody yet
    plan,        \* number of planned sub-queries
    attempt,     \* loop counter
    current,     \* the question the next rewrite starts from
    rewritten,   \* st.RewrittenQuestion
    sub, opt,    \* position in the sub-queries and in the options
    stages,      \* options executed for this sub-query (stats.Stages)
    stopped,     \* this sub-query stopped early on a local result
    ext,         \* stats.ExternalCalls
    best,        \* best.Candidates of retrieveByRouteWithFallback
    found,       \* candidates of the sub-queries finished so far
    cands,       \* st.Retrieval.Candidates
    refs,        \* st.References
    prompt,      \* what the answer is generated from
    answer,      \* the last generated answer, with its prompt
    grade,       \* the last grade
    expiredAt,   \* attempt during which the deadline expired, 0 if it did not
    resp,        \* the response delivered
    total,       \* history: successful external calls of the whole request
    judged,      \* history: ordinals of the answers that were graded
    sawHit       \* history: an option of this attempt returned a candidate

searchVars == <<sub, opt, stages, stopped, ext, best, found, total, sawHit>>
loopVars == <<plan, attempt, current, rewritten, expiredAt>>
draftVars == <<cands, refs, prompt>>
verdictVars == <<grade, judged>>
vars == <<pc, mode, route, caller, resp, answer, searchVars, loopVars, draftVars, verdictVars>>

Candidates == Chunks \cup {"sql_result", "web_result"}
NoPrompt == [q |-> 0, route |-> "none", ctx |-> {}]
NoAnswer == [gen |-> 0, q |-> 0, route |-> "none", ctx |-> {}]
NoResponse == [route |-> "none", q |-> 0, attempts |-> 0, refs |-> {}]
Grades == [rel : BOOLEAN, score : 0 .. MaxScore]
Final == {"done", "failed", "exhausted"}

LoopPoints == {"rewrite", "search", "collect", "fuse", "rerank", "prompt", "answer",
               "grade", "decide", "stream"}

Min2(a, b) == IF a < b THEN a ELSE b

-----------------------------------------------------------------------------
(* Helpers: the decisions of the code, each named for its question.  An    *)
(* operator whose name says what is wrong with it (NoShortcut, Late, ...)  *)
(* is a bug the operator after it could have had: no definition uses it,   *)
(* the mutants listed in PROJECT.json do.                                  *)

\* The route the running retrieval works for.
SearchRoute == IF caller = "fallback" THEN FallbackRoute ELSE route

RouteNextNoShortcut(r) == "plan"
\* Ask and AskStream short-cut the direct route before planning.
RouteNext(r) == IF r = "direct" THEN "direct" ELSE "plan"

Low(g) == ~g.rel /\ g.score < Threshold

\* shouldFallbackDirect, with the callers' check of the fallback route.
FallsBack(g) ==
    /\ AutoFallback /\ Threshold > 0 /\ FallbackRoute \notin {"", "direct"}
    /\ ~(g.rel /\ g.score >= Threshold)
    /\ g.score < Threshold

\* The in-loop switch from the direct route to the fallback route.
SwitchesRoute ==
    Low(grade) /\ route = "direct" /\ AutoFallback /\ FallbackRoute \notin {"", "direct"}

\* Ask takes only a relevant answer, AskStream one whose grade is not low.
Rejects(g) == IF mode = "ask" THEN ~g.rel ELSE Low(g)

AcceptsOnlyApproved == ~SwitchesRoute /\ ~Rejects(grade)
\* The attempt just graded is delivered: it is not rejected, or Ask has no more attempts.
Accepts == ~SwitchesRoute /\ (~Rejects(grade) \/ (mode = "ask" /\ attempt = MaxRetries))

DeadlinePerAttempt == expiredAt = attempt
DeadlineIgnored == FALSE
\* ctxOrch is made once, before the loop: once expired, it stays expired.
DeadlineHit == expiredAt # 0

CapReachedLate(o) == o \in ExternalOptions /\ ext > MaxExternal
CapReached(o) == o \in ExternalOptions /\ ext >= MaxExternal

\* Only the in-process sparse search never looks at the context it is given.
CanSucceed(o) == caller = "loop" /\ DeadlineHit => o = "local_sparse"

\* What one option may return.
Results(o) ==
    IF o \in LocalOptions THEN {s \in SUBSET Chunks : Cardinality(s) <= TopK}
                          ELSE {{ToolResult(o)}}

\* shouldEarlyStop; high: the top score passes EARLY_STOP_TOP_SCORE.
EarlyStop(res, high) ==
    res # {} /\ (high \/ (MinCandidates > 0 /\ Cardinality(res) >= MinCandidates))

KeepLatest(res) == res
\* best and refs change only when the option returned something.
KeepBest(res) == IF res # {} THEN res ELSE best

\* A list cut to n: any n of its elements, all of them when it is shorter.
Cut(s, n) == {t \in SUBSET s : Cardinality(t) = Min2(n, Cardinality(s))}

-----------------------------------------------------------------------------
(* Ends of the request.                                                    *)

Deliver(r) == pc' = "done" /\ resp' = r
Fail == pc' = "failed" /\ UNCHANGED resp
Goto(p) == pc' = p /\ UNCHANGED resp

\* A generated answer: a new ordinal, and the prompt it came from.
Generate(p) == answer' = [gen |-> answer.gen + 1, q |-> p.q, route |-> p.route, ctx |-> p.ctx]

\* A request whose question is not blank; a blank one is refused before anything else.
Init ==
    /\ pc = "start" /\ mode \in {"ask", "stream"}
    /\ route = "none" /\ caller = "none"
    /\ plan = 0 /\ attempt = 0 /\ current = 0 /\ rewritten = 0
    /\ sub = 0 /\ opt = 0 /\ stages = {} /\ stopped = FALSE /\ ext = 0
    /\ best = {} /\ found = {} /\ cands = {} /\ refs = {}
    /\ prompt = NoPrompt /\ answer = NoAnswer /\ grade = [rel |-> FALSE, score |-> 0]
    /\ expiredAt = 0 /\ resp = NoResponse
    /\ total = 0 /\ judged = {} /\ sawHit = FALSE

-----------------------------------------------------------------------------
(* Skills and routing.                                                     *)

\* shouldUseSkill holds: the request names a skill, which may be unknown or
\* malformed, or a registered skill matches the question.
UseSkill ==
    /\ pc = "start"
    /\ \/ Goto("skill")
       \/ Fail
    /\ UNCHANGED <<mode, route, caller, answer, searchVars, loopVars, draftVars, verdictVars>>

\* runSkillAsk and runSkillAskStream: one answer from the skill document.
SkillAnswer ==
    /\ pc = "skill"
    /\ \/ /\ Generate([q |-> 0, route |-> "skill", ctx |-> {"skill_doc"}])
          /\ Deliver([route |-> "skill", q |-> 0, attempts |-> 1, refs |-> {"skill_doc"}])
       \/ Fail /\ UNCHANGED answer
    /\ UNCHANGED <<mode, route, caller, searchVars, loopVars, draftVars, verdictVars>>

\* No skill: the request forces a route.
ForceRoute ==
    /\ pc = "start"
    /\ \E r \in Routes : route' = r /\ Goto(RouteNext(r))
    /\ UNCHANGED <<mode, caller, answer, searchVars, loopVars, draftVars, verdictVars>>

\* No skill and no forced route: the model selects one; an unknown answer means direct_chunk.
SelectRoute ==
    /\ pc = "start"
    /\ \/ \E r \in SelectableRoutes : route' = r /\ Goto(RouteNext(r))
       \/ Fail /\ UNCHANGED route
    /\ UNCHANGED <<mode, caller, answer, searchVars, loopVars, draftVars, verdictVars>>

-----------------------------------------------------------------------------
(* The direct route: an answer without retrieval, and its fallback.        *)

DirectPrompt == [q |-> 0, route |-> route, ctx |-> {}]
DirectResponse == [route |-> route, q |-> 0, attempts |-> 1, refs |-> {}]

\* Ask returns the answer it has; AskStream generates a new one as a stream.
KeepDirect ==
    IF mode = "ask" THEN Deliver(DirectResponse) ELSE Goto("direct_stream")
KeepDirectAfterFailureLost == Fail
\* A failing fallback (retrieval or answer) leaves the direct answer in place.
KeepDirectAfterFailure == KeepDirect

DirectAnswer ==
    /\ pc = "direct"
    /\ \/ Generate(DirectPrompt) /\ Goto("direct_grade")
       \/ Fail /\ UNCHANGED answer
    /\ UNCHANGED <<mode, route, caller, searchVars, loopVars, draftVars, verdictVars>>

DirectGrade ==
    /\ pc = "direct_grade"
    /\ \/ \E g \in Grades :
            /\ grade' = g /\ judged' = judged \cup {answer.gen}
            /\ IF FallsBack(g)
               THEN /\ caller' = "fallback" /\ Goto("search")
                    /\ sub' = 1 /\ opt' = 1
                    /\ UNCHANGED <<stages, stopped, ext, best, found, total, sawHit>>
               ELSE KeepDirect /\ UNCHANGED <<caller, searchVars>>
       \/ Fail /\ UNCHANGED <<caller, searchVars, verdictVars>>
    /\ UNCHANGED <<mode, route, answer, loopVars, draftVars>>

\* The fallback answers from what it found, even when that is nothing.
FallbackAnswer ==
    /\ pc = "fallback_answer"
    /\ \/ /\ Generate([q |-> 0, route |-> FallbackRoute, ctx |-> found])
          /\ Deliver([route |-> FallbackRoute, q |-> 0, attempts |-> 1, refs |-> found])
       \/ KeepDirectAfterFailure /\ UNCHANGED answer
    /\ UNCHANGED <<mode, route, caller, searchVars, loopVars, draftVars, verdictVars>>

DirectStream ==
    /\ pc = "direct_stream"
    /\ \/ Generate(DirectPrompt) /\ Deliver(DirectResponse)
       \/ Fail /\ UNCHANGED answer
    /\ UNCHANGED <<mode, route, caller, searchVars, loopVars, draftVars, verdictVars>>

-----------------------------------------------------------------------------
(* Retrieval of one sub-query (retrieveByRouteWithFallback), run by the    *)
(* workflow's retrieve node and by the direct fallback.                    *)

\* retrieveByRoute, for routes without options: its errors are returned.
SearchByRoute ==
    /\ pc = "search" /\ Options(SearchRoute) = <<>>
    /\ \/ \E res \in IF SearchRoute = "direct" THEN {{}} ELSE SUBSET Chunks :
            /\ caller = "loop" => ~DeadlineHit
            /\ best' = res /\ sawHit' = (sawHit \/ res # {})
            /\ Goto("collect")
       \/ /\ IF caller = "loop" THEN Fail ELSE KeepDirectAfterFailure
          /\ UNCHANGED <<best, sawHit>>
    /\ UNCHANGED <<mode, route, caller, answer, sub, opt, stages, stopped, ext, found, total,
                   loopVars, draftVars, verdictVars>>

\* The option under consideration, and the step to the one after it.
CurrentOption == Options(SearchRoute)[opt]
HasOption == pc = "search" /\ opt \in 1 .. Len(Options(SearchRoute))
NextOption ==
    IF opt < Len(Options(SearchRoute))
    THEN opt' = opt + 1 /\ Goto("search")
    ELSE UNCHANGED opt /\ Goto("collect")
BreakForgotten == NextOption
\* Leaving the loop over the options early.
Break == UNCHANGED opt /\ Goto("collect")

\* An external option is skipped once the cap is used up.
SkipOption ==
    /\ HasOption /\ CapReached(CurrentOption)
    /\ NextOption
    /\ UNCHANGED <<mode, route, caller, answer, sub, stages, stopped, ext, best, found, total,
                   sawHit, loopVars, draftVars, verdictVars>>

\* The fetch fails: the error is dropped and the call is not counted.
OptionFails ==
    /\ HasOption /\ ~CapReached(CurrentOption)
    /\ stages' = stages \cup {CurrentOption}
    /\ NextOption
    /\ UNCHANGED <<mode, route, caller, answer, sub, stopped, ext, best, found, total, sawHit,
                   loopVars, draftVars, verdictVars>>

\* The fetch returns: external calls are counted, a result replaces the best
\* one, and a local result that is good enough ends the loop.
OptionReturns ==
    /\ HasOption /\ ~CapReached(CurrentOption) /\ CanSucceed(CurrentOption)
    /\ stages' = stages \cup {CurrentOption}
    /\ IF CurrentOption \in ExternalOptions
       THEN ext' = ext + 1 /\ total' = total + 1
       ELSE UNCHANGED <<ext, total>>
    /\ \E res \in Results(CurrentOption), high \in BOOLEAN :
         /\ best' = KeepBest(res)
         /\ sawHit' = (sawHit \/ res # {})
         /\ stopped' = (stopped \/ (CurrentOption \in LocalOptions /\ EarlyStop(res, high)))
         /\ IF CurrentOption \in LocalOptions /\ EarlyStop(res, high) THEN Break ELSE NextOption
    /\ UNCHANGED <<mode, route, caller, answer, sub, found, loopVars, draftVars, verdictVars>>

\* retrieveForPlannedSubQueries takes the sub-query's result and goes on to the
\* next one; the fallback has a single query.
Collect ==
    /\ pc = "collect"
    /\ found' = found \cup best
    /\ best' = {} /\ stages' = {} /\ stopped' = FALSE
    /\ IF caller = "fallback"
       THEN Goto("fallback_answer") /\ UNCHANGED <<sub, opt>>
       ELSE IF sub < plan
            THEN sub' = sub + 1 /\ opt' = 1 /\ Goto("search")
            ELSE Goto("fuse") /\ UNCHANGED <<sub, opt>>
    /\ UNCHANGED <<mode, route, caller, answer, ext, total, sawHit,
                   loopVars, draftVars, verdictVars>>

-----------------------------------------------------------------------------
(* The attempts: the workflow's nodes and the loop around them.            *)

PlanUncut(n) == n
\* The cut of the planned sub-queries to PLANNER_MAX_SUBQUERIES.
PlanCut(n) == Min2(n, PlannerMax)

\* planSubQueries and the cut; the deadline's clock starts.
Plan ==
    /\ pc = "plan"
    /\ \/ \E n \in 1 .. MaxParts :
            /\ plan' = PlanCut(n)
            /\ attempt' = 1 /\ caller' = "loop"
            /\ Goto("rewrite")
       \/ Fail /\ UNCHANGED <<plan, attempt, caller>>
    /\ UNCHANGED <<mode, route, answer, current, rewritten, expiredAt,
                   searchVars, draftVars, verdictVars>>

\* The orchestrator deadline expires between two steps of the attempts.
Expire ==
    /\ pc \in LoopPoints /\ caller = "loop" /\ expiredAt = 0
    /\ expiredAt' = attempt
    /\ UNCHANGED <<pc, mode, route, caller, resp, answer, plan, attempt, current, rewritten,
                   searchVars, draftVars, verdictVars>>

\* The rewrite node, then a fresh workflow state and fresh statistics for the
\* retrieve node; an empty rewrite keeps the question.
Rewrite ==
    /\ pc = "rewrite"
    /\ \/ /\ ~DeadlineHit
          /\ rewritten' \in {attempt, current}
          /\ sub' = 1 /\ opt' = 1 /\ stages' = {} /\ stopped' = FALSE
          /\ ext' = 0 /\ best' = {} /\ found' = {} /\ sawHit' = FALSE
          /\ Goto("search")
          /\ UNCHANGED total
       \/ Fail /\ UNCHANGED <<rewritten, searchVars>>
    /\ UNCHANGED <<mode, route, caller, answer, plan, attempt, current, expiredAt,
                   draftVars, verdictVars>>

\* One sub-query: its result as it is; several: fused by rank and cut to TopK.
Fuse ==
    /\ pc = "fuse"
    /\ cands' \in IF plan = 1 THEN {found} ELSE Cut(found, TopK)
    /\ refs' = found
    /\ Goto("rerank")
    /\ UNCHANGED <<mode, route, caller, answer, prompt, searchVars, loopVars, verdictVars>>

\* The rerank service keeps some candidates; when it names none of them the
\* code falls back to the best scores, so the list never becomes empty.
RerankedMayBeEmpty(s) == {t \in SUBSET s : Cardinality(t) <= RerankTopM}
Reranked(s) ==
    IF Cardinality(s) <= 1 THEN {s}
    ELSE {t \in SUBSET s : t # {} /\ Cardinality(t) <= RerankTopM}

StaleReferences(out) == refs
\* rerankNode takes the references again from the candidates it kept.
ReferencesOf(out) == out

\* A failing rerank call fails the request.
Rerank ==
    /\ pc = "rerank"
    /\ \/ \E out \in Reranked(cands) :
            /\ cands' = out /\ refs' = ReferencesOf(out)
            /\ Goto("prompt")
       \/ /\ Cardinality(cands) > 1 \/ DeadlineHit
          /\ Fail /\ UNCHANGED <<cands, refs>>
    /\ UNCHANGED <<mode, route, caller, answer, prompt, searchVars, loopVars, verdictVars>>

\* The context and prompt nodes.
BuildPrompt ==
    /\ pc = "prompt"
    /\ prompt' = [q |-> rewritten, route |-> route, ctx |-> cands]
    /\ Goto("answer")
    /\ UNCHANGED <<mode, route, caller, answer, cands, refs, searchVars, loopVars, verdictVars>>

AfterAnswerSkipsLast == IF attempt < MaxRetries THEN "grade" ELSE "stream"
AfterAnswer == IF mode = "ask" \/ attempt < MaxRetries THEN "grade" ELSE "stream"

\* The answer node; AskStream does not grade the last attempt.
Answer ==
    /\ pc = "answer"
    /\ \/ /\ ~DeadlineHit
          /\ Generate(prompt)
          /\ Goto(AfterAnswer)
       \/ Fail /\ UNCHANGED answer
    /\ UNCHANGED <<mode, route, caller, searchVars, loopVars, draftVars, verdictVars>>

\* Grading runs on the request's context, not on the orchestrator's.
Grade ==
    /\ pc = "grade"
    /\ \/ \E g \in Grades :
            /\ grade' = g /\ judged' = judged \cup {answer.gen}
            /\ Goto("decide")
       \/ Fail /\ UNCHANGED verdictVars
    /\ UNCHANGED <<mode, route, caller, answer, searchVars, loopVars, draftVars>>

LoopResponse == [route |-> route, q |-> rewritten, attempts |-> attempt, refs |-> refs]

\* The attempt is good enough, or the last: Ask returns, AskStream streams.
AcceptAttempt ==
    /\ pc = "decide" /\ Accepts
    /\ IF mode = "ask" THEN Deliver(LoopResponse) ELSE Goto("stream")
    /\ UNCHANGED <<mode, route, caller, answer, searchVars, loopVars, draftVars, verdictVars>>

NextAttemptUnlessRepeated == IF rewritten = current THEN attempt ELSE attempt + 1
\* Every turn of the loop counts, whatever its rewrite changed.
NextAttempt == attempt + 1

\* The attempt is rejected: the loop goes on with the rewritten question, or
\* runs out of attempts.
RetryAttempt ==
    /\ pc = "decide" /\ ~Accepts
    /\ route' = IF SwitchesRoute THEN FallbackRoute ELSE route
    /\ current' = rewritten
    /\ IF attempt < MaxRetries
       THEN attempt' = NextAttempt /\ Goto("rewrite")
       ELSE UNCHANGED attempt /\ Goto("exhausted")
    /\ UNCHANGED <<mode, caller, answer, plan, rewritten, expiredAt,
                   searchVars, draftVars, verdictVars>>

\* AskStream generates the answer again, from the prompt of this attempt.
OpenStream ==
    /\ pc = "stream"
    /\ \/ Generate(prompt) /\ Deliver(LoopResponse)
       \/ Fail /\ UNCHANGED answer
    /\ UNCHANGED <<mode, route, caller, searchVars, loopVars, draftVars, verdictVars>>

\* The handler has returned.
Finished == pc \in Final /\ UNCHANGED vars

Step ==
    \/ UseSkill \/ SkillAnswer \/ ForceRoute \/ SelectRoute
    \/ DirectAnswer \/ DirectGrade \/ FallbackAnswer \/ DirectStream
    \/ SearchByRoute \/ SkipOption \/ OptionFails \/ OptionReturns \/ Collect
    \/ Plan \/ Rewrite \/ Fuse \/ Rerank \/ BuildPrompt \/ Answer \/ Grade
    \/ AcceptAttempt \/ RetryAttempt \/ OpenStream

Next == Step \/ Expire \/ Finished

Spec == Init /\ [][Next]_vars

\* Calls without a timeout of their own: the SQL query and, on a remote store,
\* every search (QDRANT_TIMEOUT is read but never used).  They end only with the
\* context they run on, which is the request's for the direct fallback.
Unbounded(o) == o = "sql" \/ (RemoteStore /\ o \in LocalOptions)
MayHang ==
    /\ pc = "search" /\ ~(caller = "loop" /\ DeadlineHit)
    /\ IF HasOption THEN Unbounded(CurrentOption) /\ ~CapReached(CurrentOption) ELSE RemoteStore

\* All other calls return, at the latest by their HTTP timeout, and time passes.
FairStep == Step /\ ~MayHang
FairSpec == Spec /\ WF_vars(FairStep) /\ WF_vars(Expire)

-----------------------------------------------------------------------------
(* Properties.                                                             *)

AnyRoute == Routes \cup {"none", "skill", ""}
Responses == [route : AnyRoute, q : Nat, attempts : Nat,
              refs : SUBSET (Candidates \cup {"skill_doc"})]
Prompts == [q : Nat, route : AnyRoute,
            ctx : SUBSET (Candidates \cup {"skill_doc"})]
Answers == [gen : Nat, q : Nat, route : AnyRoute,
            ctx : SUBSET (Candidates \cup {"skill_doc"})]
Points == LoopPoints \cup Final \cup
          {"start", "skill", "direct", "direct_grade", "direct_stream", "fallback_answer", "plan"}

ControlTypes ==
    /\ pc \in Points /\ mode \in {"ask", "stream"}
    /\ route \in Routes \cup {"none"} /\ caller \in {"none", "loop", "fallback"}
LoopTypes ==
    /\ plan \in 0 .. PlannerMax /\ attempt \in 0 .. MaxRetries /\ expiredAt \in 0 .. MaxRetries
    /\ current \in 0 .. MaxRetries /\ rewritten \in 0 .. MaxRetries
SearchTypes ==
    /\ sub \in Nat /\ opt \in Nat /\ ext \in Nat /\ total \in Nat
    /\ stages \subseteq OptionNames /\ stopped \in BOOLEAN /\ sawHit \in BOOLEAN
    /\ best \subseteq Candidates /\ found \subseteq Candidates
TextTypes ==
    /\ cands \subseteq Candidates /\ refs \subseteq Candidates
    /\ prompt \in Prompts /\ answer \in Answers /\ resp \in Responses
    /\ grade \in Grades /\ judged \subseteq Nat

\* The type invariant: every variable stays in its domain.
TypeOK == ControlTypes /\ LoopTypes /\ SearchTypes /\ TextTypes

\* The response describes the answer it carries: its references are the
\* candidates in the prompt of the delivered answer, its route and rewritten
\* question are those of that prompt, whichever path delivered it and however
\* many attempts, reranks and regenerations came before.
ResponseMatchesAnswer ==
    pc = "done" =>
        resp.refs = answer.ctx /\ resp.route = answer.route /\ resp.q = answer.q

\* The cap on external calls holds in every attempt, and so a request makes at
\* most MaxExternal successful calls per attempt (once for a direct fallback).
ExternalBudget ==
    /\ ext <= MaxExternal
    /\ total <= MaxExternal * (IF caller = "fallback" THEN 1 ELSE attempt)

\* Local options first: no tool is called for a sub-query before each of the
\* route's local options was tried, nor after one of them stopped it early.
LocalFirst ==
    stages \cap ExternalOptions # {} =>
        LocalOptionsOf(SearchRoute) \subseteq stages /\ ~stopped

\* The retry loop always ends in a response or in an error of a call: the
\* error "exhausted retry loop" behind it is never returned, because a direct
\* route never enters the loop, whose route switch could skip the last return.
NeverExhausted == pc # "exhausted"

\* Hits are not all lost on the way to the prompt: when any option of the attempt
\* returned a candidate, the answer is generated from a context with some candidate,
\* not with that one for sure, past later empty options, fusion, the cut to TopK and
\* the rerank service.
HitsReachPrompt ==
    /\ pc \in {"answer", "grade", "decide", "stream"} /\ sawHit => prompt.ctx # {}
    /\ pc = "fallback_answer" /\ sawHit => found # {}

\* Ask grades what it delivers: the text returned from the loop or from the
\* direct route is the text that was graded, not a later one.
AskDeliversGradedAnswer ==
    pc = "done" /\ mode = "ask" /\ resp.route # "skill" /\ caller # "fallback" =>
        answer.gen \in judged

\* Trying the fallback costs the user nothing: once Ask has a graded direct
\* answer, no failure of the fallback makes the request fail.
FallbackKeepsAnswer == mode = "ask" /\ caller = "fallback" => pc # "failed"

\* One deadline spans all attempts: a response from the loop comes from the
\* attempt in which the deadline expired, if it did, and never from a later one.
DeadlineSpansAttempts ==
    pc = "done" /\ caller = "loop" /\ expiredAt # 0 => resp.attempts = expiredAt

\* Every request ends, or is stuck for ever in the retrieval of a direct
\* fallback: whatever hangs in the attempts is cut by the deadline.
EndsOrFallbackHangs == <>(pc \in Final) \/ <>[](caller = "fallback" /\ MayHang)

\* How far a request has come: its attempt, the phase of the attempt, the sub-query,
\* the option, and whether the sub-query has its result.
Point(p) ==
    CASE p = "start" -> 0
      [] p \in {"skill", "direct"} -> 1
      [] p \in {"plan", "direct_grade"} -> 2
      [] p = "rewrite" -> 3
      [] p \in {"search", "collect"} -> 4
      [] p = "fuse" -> 5
      [] p = "rerank" -> 6
      [] p = "prompt" -> 7
      [] p \in {"answer", "fallback_answer"} -> 8
      [] p \in {"grade", "direct_stream"} -> 9
      [] p = "decide" -> 10
      [] p = "stream" -> 11
      [] OTHER -> 12
Progress == <<attempt, Point(pc), sub, opt, IF pc = "collect" THEN 1 ELSE 0>>
Before(s, t) == \E i \in 1 .. 5 : s[i] < t[i] /\ \A j \in 1 .. i - 1 : s[j] = t[j]
\* The most progress there is, and so a bound on the steps of a request.
WithinBounds ==
    /\ attempt \in 0 .. MaxRetries /\ Point(pc) \in 0 .. 12
    /\ sub \in 0 .. PlannerMax /\ opt \in 0 .. 5

\* No request loops for ever: whatever the calls return, every step but the expiry of
\* the deadline takes the request further in a finite order that no step goes back in,
\* through attempts, sub-queries and options (the loops of Ask, AskStream,
\* retrieveForPlannedSubQueries and retrieveByRouteWithFallback).
MovesOn == [][WithinBounds' /\ (UNCHANGED expiredAt => Before(Progress, Progress'))]_vars

\* The verdict the caller of AskContract would see on the current attempt.
Verdict ==
    IF attempt = 0 \/ attempt \notin judged THEN "none"
    ELSE IF Rejects(grade) THEN "rejected" ELSE "accepted"

Contract == INSTANCE AskContract WITH
    MaxTries <- MaxRetries, tries <- attempt, verdict <- Verdict,
    phase <- CASE pc = "done" -> "answered"
               [] pc \in {"failed", "exhausted"} -> "failed"
               [] OTHER -> "working"

\* The workflow keeps the promise of AskContract: bounded tries, a new one only
\* after a rejected one, an answer only from an accepted or the last one, and no
\* failure after the last one is judged.
KeepsContract == Contract!Spec

-----------------------------------------------------------------------------
(* What the documentation says and the code does not do.                   *)

\* README.md: ORCHESTRATOR_TIMEOUT_SECONDS is the total timeout of the retrieval
\* orchestration, so no request waits in it for ever.
Terminates == <>(pc \in Final)

\* README.md: ORCHESTRATOR_MAX_EXTERNAL_CALLS caps the external calls of each request.
ExternalCapPerRequest == total <= MaxExternal

\* The question a sub-query was planned from; planning happens once, before any rewrite.
RetrievalQuery == 0
\* README.md: before it enters retrieval, the query is rewritten by the model.
RetrievalUsesRewrite == caller = "loop" /\ pc = "collect" => RetrievalQuery = rewritten
=============================================================================
