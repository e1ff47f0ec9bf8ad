------------------------ MODULE AskWorkflow_proofs ------------------------
(***************************************************************************)
(* Theorems about AskWorkflow, for every configuration config.validate     *)
(* accepts, every number of chunks and every number of attempts.           *)
(***************************************************************************)
EXTENDS AskWorkflow, TLAPS

-----------------------------------------------------------------------------
(* The inductive invariant, part by part.                                  *)

\* Which caller a control point belongs to, and what the two callers know.
ControlInv ==
    /\ pc \in {"start", "skill", "direct", "direct_grade", "plan"} => caller = "none"
    /\ pc \in LoopPoints \ {"search", "collect"} => caller = "loop"
    /\ pc \in {"search", "collect"} => caller \in {"loop", "fallback"}
    /\ pc = "fallback_answer" => caller = "fallback"
    /\ pc = "direct_stream" => caller \in {"none", "fallback"} /\ mode = "stream"
    /\ pc \in {"plan"} \/ caller = "loop" => route # "direct"
    /\ pc \in {"direct", "direct_grade", "direct_stream"} \/ caller = "fallback" => route = "direct"
    /\ pc = "stream" => mode = "stream"
    /\ IF caller = "loop" THEN attempt >= 1 ELSE attempt = 0
    /\ mode = "stream" /\ pc \in {"grade", "decide"} => attempt < MaxRetries

\* The budget an attempt has used adds to what the earlier ones used at most.
BudgetInv ==
    /\ ext <= MaxExternal
    /\ caller = "none" => ext = 0 /\ total = 0
    /\ caller = "fallback" => total = ext
    /\ caller = "loop" => total <= MaxExternal * (attempt - 1) + ext
    /\ pc = "rewrite" => total <= MaxExternal * (attempt - 1)

\* The prompt is made of what the response will report, and the answer of the prompt.
TextInv ==
    /\ pc = "prompt" => refs = cands
    /\ pc \in {"answer", "grade", "decide", "stream"} =>
           prompt = [q |-> rewritten, route |-> route, ctx |-> refs]
    /\ pc \in {"grade", "decide"} =>
           answer.q = prompt.q /\ answer.route = prompt.route /\ answer.ctx = prompt.ctx
    /\ pc = "direct_grade" \/ (caller = "fallback" /\ pc # "done") =>
           answer.q = 0 /\ answer.route = "direct" /\ answer.ctx = {}
    /\ ResponseMatchesAnswer

\* An expired deadline lets the loop get to the next rewrite and no further.
DeadlineInv ==
    /\ expiredAt # 0 => caller = "loop"
    /\ caller = "loop" /\ expiredAt # 0 /\ pc \notin {"rewrite", "failed", "exhausted"} =>
           expiredAt = attempt
    /\ pc = "done" /\ caller = "loop" => resp.attempts = attempt

\* A graded answer is the one under decision, and a fallback of Ask never fails.
GradeInv ==
    /\ mode = "ask" /\ pc = "decide" => answer.gen \in judged
    /\ mode = "ask" /\ caller = "fallback" => answer.gen \in judged \/ pc = "done"
    /\ FallbackKeepsAnswer
    /\ AskDeliversGradedAnswer

IInv == TypeOK /\ ControlInv /\ BudgetInv /\ TextInv /\ DeadlineInv /\ GradeInv /\ NeverExhausted

-----------------------------------------------------------------------------
(* Facts about the options and about the records the actions build.        *)

\* Every entry of every route's list is one of the named options.
LEMMA OptionsNamed ==
    ASSUME NEW r, NEW i \in 1 .. Len(Options(r))
    PROVE  Options(r)[i] \in OptionNames
  BY DEF Options, OptionNames, LocalOptions, ExternalOptions

\* A prompt made of a question, a route and a context is a prompt.
LEMMA PromptTyped ==
    ASSUME NEW q \in Nat, NEW r \in AnyRoute, NEW c \in SUBSET (Candidates \cup {"skill_doc"})
    PROVE  [q |-> q, route |-> r, ctx |-> c] \in Prompts
  BY DEF Prompts

\* A response made of its four fields is a response.
LEMMA ResponseTyped ==
    ASSUME NEW q \in Nat, NEW r \in AnyRoute, NEW n \in Nat,
           NEW c \in SUBSET (Candidates \cup {"skill_doc"})
    PROVE  [route |-> r, q |-> q, attempts |-> n, refs |-> c] \in Responses
  BY DEF Responses

\* Generating from a prompt yields an answer.
LEMMA AnswerTyped ==
    ASSUME NEW p \in Prompts, answer \in Answers, Generate(p)
    PROVE  answer' \in Answers
  BY DEF Prompts, Answers, Generate

\* The routes a record may carry.
LEMMA RoutesTyped ==
    /\ Routes \subseteq AnyRoute /\ FallbackRoutes \subseteq AnyRoute
    /\ "none" \in AnyRoute /\ "skill" \in AnyRoute
    /\ FallbackRoutes \ {"", "direct"} \subseteq Routes
  BY DEF AnyRoute, Routes, FallbackRoutes

\* The initial records.
LEMMA InitialTyped == NoPrompt \in Prompts /\ NoAnswer \in Answers /\ NoResponse \in Responses
  BY DEF NoPrompt, NoAnswer, NoResponse, Prompts, Answers, Responses, AnyRoute

-----------------------------------------------------------------------------
(* Type correctness.                                                       *)

\* The parts the records are built from.
LEMMA PartsTyped ==
    TypeOK => /\ rewritten \in Nat /\ attempt \in Nat /\ route \in AnyRoute
              /\ FallbackRoute \in AnyRoute
              /\ cands \in SUBSET (Candidates \cup {"skill_doc"})
              /\ refs \in SUBSET (Candidates \cup {"skill_doc"})
              /\ found \in SUBSET (Candidates \cup {"skill_doc"})
  <1> SUFFICES ASSUME TypeOK PROVE PartsTyped!2
    OBVIOUS
  <1>1. rewritten \in Nat /\ attempt \in Nat
    BY ConfigAssumption DEF TypeOK, LoopTypes
  <1>2. route \in AnyRoute /\ FallbackRoute \in AnyRoute
    BY ConfigAssumption, RoutesTyped DEF TypeOK, ControlTypes
  <1>3. /\ cands \in SUBSET (Candidates \cup {"skill_doc"})
        /\ refs \in SUBSET (Candidates \cup {"skill_doc"})
    BY DEF TypeOK, TextTypes
  <1>4. found \in SUBSET (Candidates \cup {"skill_doc"})
    BY DEF TypeOK, SearchTypes
  <1> QED
    BY <1>1, <1>2, <1>3, <1>4

\* The prompts and responses the actions build.
LEMMA BuiltTyped ==
    TypeOK => /\ DirectPrompt \in Prompts /\ DirectResponse \in Responses
              /\ LoopResponse \in Responses
              /\ [q |-> rewritten, route |-> route, ctx |-> cands] \in Prompts
              /\ [q |-> 0, route |-> FallbackRoute, ctx |-> found] \in Prompts
              /\ [route |-> FallbackRoute, q |-> 0, attempts |-> 1, refs |-> found] \in Responses
              /\ [q |-> 0, route |-> "skill", ctx |-> {"skill_doc"}] \in Prompts
              /\ [route |-> "skill", q |-> 0, attempts |-> 1, refs |-> {"skill_doc"}] \in Responses
  <1> SUFFICES ASSUME TypeOK PROVE BuiltTyped!2
    OBVIOUS
  <1>1. DirectPrompt \in Prompts /\ DirectResponse \in Responses /\ LoopResponse \in Responses
    BY PartsTyped, PromptTyped, ResponseTyped DEF DirectPrompt, DirectResponse, LoopResponse
  <1>2. /\ [q |-> rewritten, route |-> route, ctx |-> cands] \in Prompts
        /\ [q |-> 0, route |-> FallbackRoute, ctx |-> found] \in Prompts
        /\ [route |-> FallbackRoute, q |-> 0, attempts |-> 1, refs |-> found] \in Responses
    BY PartsTyped, PromptTyped, ResponseTyped
  <1>3. /\ [q |-> 0, route |-> "skill", ctx |-> {"skill_doc"}] \in Prompts
        /\ [route |-> "skill", q |-> 0, attempts |-> 1, refs |-> {"skill_doc"}] \in Responses
    BY PromptTyped, ResponseTyped DEF AnyRoute
  <1> QED
    BY <1>1, <1>2, <1>3

\* The initial states are typed.
LEMMA TypeInit == Init => TypeOK
  <1> SUFFICES ASSUME Init PROVE TypeOK
    OBVIOUS
  <1>1. ControlTypes
    BY DEF Init, ControlTypes, Points
  <1>2. LoopTypes
    BY ConfigAssumption DEF Init, LoopTypes
  <1>3. SearchTypes
    BY DEF Init, SearchTypes
  <1>4. TextTypes
    BY ConfigAssumption, InitialTyped DEF Init, TextTypes, Grades
  <1> QED
    BY <1>1, <1>2, <1>3, <1>4 DEF TypeOK

\* Control moves between control points and routes that exist.
LEMMA ControlTypesStep == TypeOK /\ [Next]_vars => ControlTypes'
  <1> SUFFICES ASSUME TypeOK, [Next]_vars PROVE ControlTypes'
    OBVIOUS
  <1> USE DEF TypeOK, ControlTypes, Points, LoopPoints, Final, Deliver, Fail, Goto
  <1>1. CASE UseSkill
    BY <1>1 DEF UseSkill
  <1>2. CASE SkillAnswer
    BY <1>2 DEF SkillAnswer
  <1>3. CASE ForceRoute
    BY <1>3 DEF ForceRoute, RouteNext
  <1>4. CASE SelectRoute
    BY <1>4 DEF SelectRoute, RouteNext, Routes
  <1>5. CASE DirectAnswer
    BY <1>5 DEF DirectAnswer
  <1>6. CASE DirectGrade
    BY <1>6 DEF DirectGrade, KeepDirect
  <1>7. CASE FallbackAnswer
    BY <1>7 DEF FallbackAnswer, KeepDirectAfterFailure, KeepDirect
  <1>8. CASE DirectStream
    BY <1>8 DEF DirectStream
  <1>9. CASE SearchByRoute
    BY <1>9 DEF SearchByRoute, KeepDirectAfterFailure, KeepDirect
  <1>10. CASE SkipOption
    BY <1>10 DEF SkipOption, NextOption
  <1>11. CASE OptionFails
    BY <1>11 DEF OptionFails, NextOption
  <1>12. CASE OptionReturns
    BY <1>12 DEF OptionReturns, NextOption, Break
  <1>13. CASE Collect
    BY <1>13 DEF Collect
  <1>14. CASE Plan
    BY <1>14 DEF Plan
  <1>15. CASE Rewrite
    BY <1>15 DEF Rewrite
  <1>16. CASE Fuse
    BY <1>16 DEF Fuse
  <1>17. CASE Rerank
    BY <1>17 DEF Rerank
  <1>18. CASE BuildPrompt
    BY <1>18 DEF BuildPrompt
  <1>19. CASE Answer
    BY <1>19 DEF Answer, AfterAnswer
  <1>20. CASE Grade
    BY <1>20 DEF Grade
  <1>21. CASE AcceptAttempt
    BY <1>21 DEF AcceptAttempt
  <1>22. CASE RetryAttempt
    BY <1>22, RoutesTyped, ConfigAssumption DEF RetryAttempt, SwitchesRoute
  <1>23. CASE OpenStream
    BY <1>23 DEF OpenStream
  <1>24. CASE Expire \/ Finished \/ UNCHANGED vars
    BY <1>24 DEF Expire, Finished, vars
  <1> QED
    BY <1>1, <1>2, <1>3, <1>4, <1>5, <1>6, <1>7, <1>8, <1>9, <1>10, <1>11, <1>12, <1>13, <1>14, <1>15, <1>16, <1>17, <1>18, <1>19, <1>20, <1>21, <1>22, <1>23, <1>24 DEF Next, Step

\* The loop's counters stay within MaxRetries.
LEMMA LoopTypesStep == TypeOK /\ [Next]_vars => LoopTypes'
  <1> SUFFICES ASSUME TypeOK, [Next]_vars PROVE LoopTypes'
    OBVIOUS
  <1> USE ConfigAssumption DEF TypeOK, LoopTypes, loopVars
  <1>1. CASE Plan
    BY <1>1 DEF Plan, PlanCut, Min2
  <1>2. CASE Rewrite
    BY <1>2 DEF Rewrite
  <1>3. CASE RetryAttempt
    BY <1>3 DEF RetryAttempt, NextAttempt
  <1>4. CASE Expire
    BY <1>4 DEF Expire
  <1>5. CASE UseSkill \/ SkillAnswer \/ ForceRoute \/ SelectRoute \/ DirectAnswer \/
            DirectGrade \/ FallbackAnswer \/ DirectStream \/ SearchByRoute \/ SkipOption \/
            OptionFails \/ OptionReturns \/ Collect \/ Fuse \/ Rerank \/ BuildPrompt \/
            Answer \/ Grade \/ AcceptAttempt \/ OpenStream \/ Finished \/ UNCHANGED vars
    BY <1>5 DEF UseSkill, SkillAnswer, ForceRoute, SelectRoute, DirectAnswer, DirectGrade,
        FallbackAnswer, DirectStream, SearchByRoute, SkipOption, OptionFails,
        OptionReturns, Collect, Fuse, Rerank, BuildPrompt, Answer, Grade, AcceptAttempt,
        OpenStream, Finished, vars
  <1> QED
    BY <1>1, <1>2, <1>3, <1>4, <1>5 DEF Next, Step

\* What retrieval counts and collects has its type.
LEMMA SearchTypesStep == TypeOK /\ [Next]_vars => SearchTypes'
  <1> SUFFICES ASSUME TypeOK, [Next]_vars PROVE SearchTypes'
    OBVIOUS
  <1> USE DEF TypeOK, SearchTypes, searchVars
  <1>1. CASE DirectGrade
    BY <1>1 DEF DirectGrade
  <1>2. CASE SearchByRoute
    BY <1>2 DEF SearchByRoute, Candidates
  <1>3. CASE SkipOption
    BY <1>3 DEF SkipOption, NextOption
  <1>4. CASE OptionFails
    BY <1>4, OptionsNamed DEF OptionFails, HasOption, CurrentOption, NextOption
  <1>5. CASE OptionReturns
    BY <1>5, OptionsNamed DEF OptionReturns, HasOption, CurrentOption, NextOption, Break, KeepBest, Results, Candidates, ToolResult
  <1>6. CASE Collect
    <2>1. sub' \in Nat /\ opt' \in Nat
      BY <1>6 DEF Collect
    <2>2. found' \subseteq Candidates
      BY <1>6 DEF Collect
    <2> QED
      BY <1>6, <2>1, <2>2 DEF Collect
  <1>7. CASE Rewrite
    <2>1. CASE UNCHANGED searchVars
      BY <2>1
    <2>2. CASE /\ sub' = 1 /\ opt' = 1 /\ stages' = {} /\ stopped' = FALSE
               /\ ext' = 0 /\ best' = {} /\ found' = {} /\ sawHit' = FALSE
               /\ UNCHANGED total
      BY <2>2
    <2> QED
      BY <1>7, <2>1, <2>2 DEF Rewrite
  <1>8. CASE UseSkill \/ SkillAnswer \/ ForceRoute \/ SelectRoute \/ DirectAnswer \/
            FallbackAnswer \/ DirectStream \/ Plan \/ Fuse \/ Rerank \/ BuildPrompt \/
            Answer \/ Grade \/ AcceptAttempt \/ RetryAttempt \/ OpenStream \/ Expire \/
            Finished \/ UNCHANGED vars
    BY <1>8 DEF UseSkill, SkillAnswer, ForceRoute, SelectRoute, DirectAnswer, FallbackAnswer,
        DirectStream, Plan, Fuse, Rerank, BuildPrompt, Answer, Grade, AcceptAttempt,
        RetryAttempt, OpenStream, Expire, Finished, vars
  <1> QED
    BY <1>1, <1>2, <1>3, <1>4, <1>5, <1>6, <1>7, <1>8 DEF Next, Step

\* Drafts, prompts, answers, grades and responses have their type.
LEMMA TextTypesStep == TypeOK /\ [Next]_vars => TextTypes'
  <1> SUFFICES ASSUME TypeOK, [Next]_vars PROVE TextTypes'
    OBVIOUS
  <1> USE DEF TypeOK, TextTypes, draftVars, verdictVars, Deliver, Fail, Goto
  <1>1. CASE SkillAnswer
    BY <1>1, BuiltTyped, AnswerTyped DEF SkillAnswer
  <1>2. CASE DirectAnswer
    BY <1>2, BuiltTyped, AnswerTyped DEF DirectAnswer
  <1>3. CASE DirectGrade
    BY <1>3, BuiltTyped DEF DirectGrade, Answers, KeepDirect
  <1>4. CASE FallbackAnswer
    BY <1>4, BuiltTyped, AnswerTyped DEF FallbackAnswer, KeepDirectAfterFailure, KeepDirect
  <1>5. CASE DirectStream
    BY <1>5, BuiltTyped, AnswerTyped DEF DirectStream
  <1>6. CASE SearchByRoute
    BY <1>6, BuiltTyped DEF SearchByRoute, KeepDirectAfterFailure, KeepDirect
  <1>7. CASE SkipOption
    BY <1>7 DEF SkipOption, NextOption
  <1>8. CASE OptionFails
    BY <1>8 DEF OptionFails, NextOption
  <1>9. CASE OptionReturns
    BY <1>9 DEF OptionReturns, NextOption, Break
  <1>10. CASE Fuse
    BY <1>10 DEF Fuse, Cut, SearchTypes
  <1>11. CASE Rerank
    BY <1>11 DEF Rerank, Reranked, ReferencesOf
  <1>12. CASE BuildPrompt
    BY <1>12, BuiltTyped DEF BuildPrompt
  <1>13. CASE Answer
    BY <1>13, AnswerTyped DEF Answer
  <1>14. CASE Grade
    BY <1>14 DEF Grade, Answers
  <1>15. CASE AcceptAttempt
    BY <1>15, BuiltTyped DEF AcceptAttempt
  <1>16. CASE OpenStream
    BY <1>16, BuiltTyped, AnswerTyped DEF OpenStream
  <1>17. CASE UseSkill \/ ForceRoute \/ SelectRoute \/ Collect \/ Plan \/ Rewrite \/
            RetryAttempt \/ Expire \/ Finished \/ UNCHANGED vars
    BY <1>17 DEF UseSkill, ForceRoute, SelectRoute, Collect, Plan, Rewrite, RetryAttempt, Expire,
        Finished, vars
  <1> QED
    BY <1>1, <1>2, <1>3, <1>4, <1>5, <1>6, <1>7, <1>8, <1>9, <1>10, <1>11, <1>12, <1>13, <1>14, <1>15, <1>16, <1>17 DEF Next, Step

\* Every variable stays in its domain, for every configuration.
THEOREM TypeCorrect == Spec => []TypeOK
  <1>1. Init => TypeOK
    BY TypeInit
  <1>2. TypeOK /\ [Next]_vars => TypeOK'
    BY ControlTypesStep, LoopTypesStep, SearchTypesStep, TextTypesStep DEF TypeOK
  <1> QED
    BY <1>1, <1>2, PTL DEF Spec

-----------------------------------------------------------------------------
(* Control, and the end of the retry loop.                                 *)

\* A rejected attempt is followed by another one of the same route: the direct
\* route is not in the loop, and the last attempt is not rejected.
LEMMA RetryContinues ==
    TypeOK /\ ControlInv /\ RetryAttempt =>
        /\ attempt < MaxRetries /\ attempt' = attempt + 1
        /\ pc' = "rewrite" /\ UNCHANGED <<route, resp>>
  <1> SUFFICES ASSUME TypeOK, ControlInv, RetryAttempt PROVE RetryContinues!2
    OBVIOUS
  <1>1. ~SwitchesRoute
    BY DEF ControlInv, RetryAttempt, SwitchesRoute, LoopPoints
  <1>2. attempt < MaxRetries
    <2>1. CASE mode = "stream"
      BY <2>1 DEF ControlInv, RetryAttempt
    <2>2. CASE mode = "ask"
      <3>1. attempt # MaxRetries
        BY <1>1, <2>2 DEF RetryAttempt, Accepts
      <3> QED
        BY <3>1, ConfigAssumption DEF TypeOK, LoopTypes
    <2> QED
      BY <2>1, <2>2 DEF TypeOK, ControlTypes
  <1> QED
    BY <1>1, <1>2 DEF RetryAttempt, NextAttempt, Goto

\* Every step leads to a control point of the same caller.
LEMMA ControlStep == TypeOK /\ ControlInv /\ [Next]_vars => ControlInv'
  <1> SUFFICES ASSUME TypeOK, ControlInv, [Next]_vars PROVE ControlInv'
    OBVIOUS
  <1> USE ConfigAssumption DEF TypeOK, ControlTypes, LoopTypes, ControlInv, LoopPoints, searchVars, loopVars, draftVars, verdictVars,
            Deliver, Fail, Goto
  <1>1. CASE UseSkill
    BY <1>1 DEF UseSkill
  <1>2. CASE SkillAnswer
    BY <1>2 DEF SkillAnswer
  <1>3. CASE ForceRoute
    BY <1>3 DEF ForceRoute, RouteNext
  <1>4. CASE SelectRoute
    BY <1>4 DEF SelectRoute, RouteNext
  <1>5. CASE DirectAnswer
    BY <1>5 DEF DirectAnswer, DirectPrompt
  <1>6. CASE DirectGrade
    BY <1>6 DEF DirectGrade, FallsBack, KeepDirect, DirectResponse
  <1>7. CASE FallbackAnswer
    BY <1>7 DEF FallbackAnswer, KeepDirectAfterFailure, KeepDirect, DirectResponse
  <1>8. CASE DirectStream
    BY <1>8 DEF DirectStream, DirectPrompt, DirectResponse
  <1>9. CASE SearchByRoute
    BY <1>9 DEF SearchByRoute, KeepDirectAfterFailure, KeepDirect, DirectResponse
  <1>10. CASE SkipOption
    BY <1>10 DEF SkipOption, HasOption, NextOption
  <1>11. CASE OptionFails
    BY <1>11 DEF OptionFails, HasOption, NextOption
  <1>12. CASE OptionReturns
    BY <1>12 DEF OptionReturns, HasOption, NextOption, Break
  <1>13. CASE Collect
    BY <1>13 DEF Collect
  <1>14. CASE Plan
    BY <1>14 DEF Plan, PlanCut, Min2
  <1>15. CASE Rewrite
    BY <1>15 DEF Rewrite
  <1>16. CASE Fuse
    BY <1>16 DEF Fuse
  <1>17. CASE Rerank
    BY <1>17 DEF Rerank, ReferencesOf
  <1>18. CASE BuildPrompt
    BY <1>18 DEF BuildPrompt
  <1>19. CASE Answer
    BY <1>19 DEF Answer, AfterAnswer
  <1>20. CASE Grade
    BY <1>20 DEF Grade
  <1>21. CASE AcceptAttempt
    BY <1>21 DEF AcceptAttempt, Accepts, LoopResponse
  <1>22. CASE RetryAttempt
    BY <1>22, RetryContinues DEF RetryAttempt
  <1>23. CASE OpenStream
    BY <1>23 DEF OpenStream, LoopResponse
  <1>24. CASE Expire
    BY <1>24 DEF Expire
  <1>25. CASE Finished \/ UNCHANGED vars
    BY <1>25 DEF Finished, vars
  <1> QED
    BY <1>1, <1>2, <1>3, <1>4, <1>5, <1>6, <1>7, <1>8, <1>9, <1>10, <1>11, <1>12, <1>13, <1>14, <1>15, <1>16, <1>17, <1>18, <1>19, <1>20, <1>21, <1>22, <1>23, <1>24, <1>25 DEF Next, Step

\* No step leads out of the loop without a response or an error of a call.
LEMMA ExhaustedStep == TypeOK /\ ControlInv /\ NeverExhausted /\ [Next]_vars => NeverExhausted'
  <1> SUFFICES ASSUME TypeOK, ControlInv, NeverExhausted, [Next]_vars PROVE NeverExhausted'
    OBVIOUS
  <1> USE DEF NeverExhausted, Deliver, Fail, Goto
  <1>1. CASE ForceRoute
    BY <1>1 DEF ForceRoute, RouteNext
  <1>2. CASE SelectRoute
    BY <1>2 DEF SelectRoute, RouteNext
  <1>3. CASE DirectGrade
    BY <1>3 DEF DirectGrade, KeepDirect, DirectResponse
  <1>4. CASE FallbackAnswer
    BY <1>4 DEF FallbackAnswer, KeepDirectAfterFailure, KeepDirect, DirectResponse
  <1>5. CASE SearchByRoute
    BY <1>5 DEF SearchByRoute, KeepDirectAfterFailure, KeepDirect, DirectResponse
  <1>6. CASE SkipOption
    BY <1>6 DEF SkipOption, NextOption
  <1>7. CASE OptionFails
    BY <1>7 DEF OptionFails, NextOption
  <1>8. CASE OptionReturns
    BY <1>8 DEF OptionReturns, NextOption, Break
  <1>9. CASE RetryAttempt
    BY <1>9, RetryContinues DEF RetryAttempt
  <1>10. CASE UseSkill \/ SkillAnswer \/ DirectAnswer \/ DirectStream \/ Collect \/ Plan \/
            Rewrite \/ Fuse \/ Rerank \/ BuildPrompt \/ Answer \/ Grade \/ AcceptAttempt \/
            OpenStream \/ Expire \/ Finished \/ UNCHANGED vars
    BY <1>10 DEF UseSkill, SkillAnswer, DirectAnswer, DirectStream, Collect, Plan, Rewrite, Fuse,
        Rerank, BuildPrompt, Answer, AfterAnswer, Grade, AcceptAttempt, OpenStream, Expire,
        Finished, vars
  <1> QED
    BY <1>1, <1>2, <1>3, <1>4, <1>5, <1>6, <1>7, <1>8, <1>9, <1>10 DEF Next, Step

-----------------------------------------------------------------------------
(* The budget of external calls.                                           *)

\* One attempt more is one cap more.
LEMMA CapTimes == \A m, a \in Nat : m * (a - 1) + m = m * a /\ m * 0 = 0 /\ m * 1 = m
  OBVIOUS

\* No step exceeds the budget of its attempt.
LEMMA BudgetStep == TypeOK /\ ControlInv /\ BudgetInv /\ [Next]_vars => BudgetInv'
  <1> SUFFICES ASSUME TypeOK, ControlInv, BudgetInv, [Next]_vars PROVE BudgetInv'
    OBVIOUS
  <1>0. MaxExternal \in Nat /\ attempt \in Nat /\ ext \in Nat /\ total \in Nat
    BY ConfigAssumption DEF TypeOK, LoopTypes, SearchTypes
  <1> USE <1>0 DEF BudgetInv, Deliver, Fail, Goto, loopVars, searchVars
  <1>1. CASE DirectGrade
    BY <1>1 DEF DirectGrade, ControlInv, KeepDirect
  <1>2. CASE SearchByRoute
    BY <1>2 DEF SearchByRoute, KeepDirectAfterFailure, KeepDirect
  <1>3. CASE OptionReturns
    <2>1. \/ ext' = ext + 1 /\ total' = total + 1 /\ ext < MaxExternal
          \/ UNCHANGED <<ext, total>>
      BY <1>3 DEF OptionReturns, CapReached
    <2>2. pc' # "rewrite" /\ caller \in {"loop", "fallback"} /\ UNCHANGED <<caller, attempt>>
      BY <1>3 DEF OptionReturns, HasOption, NextOption, Break, ControlInv
    <2> DEFINE earlier == MaxExternal * (attempt - 1)
    <2>3. earlier \in Int /\ (caller = "loop" => total <= earlier + ext)
      OBVIOUS
    <2>4. caller = "loop" => total' <= earlier' + ext'
      <3>1. earlier' = earlier
        BY <2>2
      <3> HIDE DEF earlier
      <3> QED
        BY <2>1, <2>3, <3>1
    <2> QED
      BY <2>1, <2>2, <2>4
  <1>4. CASE Plan
    <2>1. CASE caller' = "loop" /\ attempt' = 1
      <3>1. total = 0 /\ ext = 0 /\ MaxExternal * (attempt' - 1) = 0
        BY <1>4, <2>1 DEF Plan, ControlInv
      <3> QED
        BY <1>4, <2>1, <3>1 DEF Plan
    <2>2. CASE Fail /\ UNCHANGED <<attempt, caller>>
      BY <1>4, <2>2 DEF Plan
    <2> QED
      BY <1>4, <2>1, <2>2 DEF Plan
  <1>5. CASE Rewrite
    BY <1>5 DEF Rewrite, ControlInv, LoopPoints
  <1>6. CASE RetryAttempt
    <2>1. caller = "loop" /\ caller' = "loop" /\ attempt' = attempt + 1 /\ UNCHANGED <<ext, total>>
      BY <1>6, RetryContinues DEF RetryAttempt, ControlInv, LoopPoints
    <2>2. total' <= MaxExternal * (attempt' - 1)
      <3>1. total <= MaxExternal * attempt
        BY <2>1, CapTimes
      <3>2. attempt' - 1 = attempt
        BY <2>1
      <3> QED
        BY <2>1, <3>1, <3>2
    <2>3. MaxExternal * (attempt' - 1) + ext' \in Int /\ MaxExternal * (attempt' - 1) <= MaxExternal * (attempt' - 1) + ext'
      BY <2>1
    <2> QED
      BY <2>1, <2>2, <2>3
  <1>7. CASE UseSkill \/ SkillAnswer \/ ForceRoute \/ SelectRoute \/ DirectAnswer \/ FallbackAnswer \/
            DirectStream \/ SkipOption \/ OptionFails \/ Collect \/ Fuse \/ Rerank \/ BuildPrompt \/
            Answer \/ Grade \/ AcceptAttempt \/ OpenStream \/ Expire \/ Finished \/ UNCHANGED vars
    <2>1. pc' # "rewrite" \/ UNCHANGED pc
      BY <1>7 DEF UseSkill, SkillAnswer, ForceRoute, SelectRoute, RouteNext, DirectAnswer, FallbackAnswer,
        DirectStream, KeepDirectAfterFailure, KeepDirect, SkipOption, OptionFails, NextOption, Collect, Fuse,
        Rerank, BuildPrompt, Answer, AfterAnswer, Grade, AcceptAttempt, OpenStream, Expire,
        Finished, vars
    <2>2. UNCHANGED <<caller, attempt, ext, total>>
      BY <1>7 DEF UseSkill, SkillAnswer, ForceRoute, SelectRoute, DirectAnswer, FallbackAnswer,
        DirectStream, SkipOption, OptionFails, Collect, Fuse,
        Rerank, BuildPrompt, Answer, Grade, AcceptAttempt, OpenStream, Expire, Finished, vars
    <2> QED
      BY <2>1, <2>2
  <1> QED
    BY <1>1, <1>2, <1>3, <1>4, <1>5, <1>6, <1>7 DEF Next, Step

\* The budget of the attempts so far is the budget of the request.
LEMMA BudgetGives == TypeOK /\ ControlInv /\ BudgetInv => ExternalBudget
  <1> SUFFICES ASSUME TypeOK, ControlInv, BudgetInv PROVE ExternalBudget
    OBVIOUS
  <1>0. MaxExternal \in Nat /\ attempt \in Nat /\ ext \in Nat /\ total \in Nat
    BY ConfigAssumption DEF TypeOK, LoopTypes, SearchTypes
  <1>1. CASE caller = "loop"
    <2>1. total <= MaxExternal * (attempt - 1) + MaxExternal
      BY <1>0, <1>1 DEF BudgetInv
    <2> QED BY <1>0, <1>1, <2>1, CapTimes DEF BudgetInv, ExternalBudget
  <1>2. CASE caller # "loop"
    BY <1>0, <1>2, CapTimes DEF TypeOK, ControlTypes, ControlInv, BudgetInv, ExternalBudget
  <1> QED BY <1>1, <1>2

-----------------------------------------------------------------------------
(* The response and the answer it carries.                                 *)

\* Keeping the direct answer delivers what it was generated from.
LEMMA KeepDirectMatches ==
    ASSUME ControlInv, TextInv, pc = "direct_grade" \/ caller = "fallback", pc # "done",
           KeepDirect, UNCHANGED <<mode, route, answer>>
    PROVE  pc' \in {"done", "direct_stream"} /\ (pc' = "done" => ResponseMatchesAnswer')
  BY DEF ControlInv, TextInv, KeepDirect, DirectResponse, Deliver, Goto, ResponseMatchesAnswer

\* No step separates the response, the prompt and the answer.
LEMMA TextStep == ControlInv /\ TextInv /\ [Next]_vars => TextInv'
  <1> SUFFICES ASSUME ControlInv, TextInv, [Next]_vars PROVE TextInv'
    OBVIOUS
  <1> USE DEF ControlInv, TextInv, ResponseMatchesAnswer, LoopPoints, Generate, searchVars, loopVars, draftVars, verdictVars,
            Deliver, Fail, Goto
  <1>1. CASE UseSkill
    BY <1>1 DEF UseSkill
  <1>2. CASE SkillAnswer
    BY <1>2 DEF SkillAnswer
  <1>3. CASE ForceRoute
    BY <1>3 DEF ForceRoute, RouteNext
  <1>4. CASE SelectRoute
    BY <1>4 DEF SelectRoute, RouteNext
  <1>5. CASE DirectAnswer
    BY <1>5 DEF DirectAnswer, DirectPrompt
  <1>6. CASE DirectGrade
    <2>1. CASE KeepDirect /\ UNCHANGED caller
      BY <1>6, <2>1, KeepDirectMatches DEF DirectGrade
    <2>2. CASE Goto("search")
      BY <1>6, <2>2 DEF DirectGrade
    <2>3. CASE Fail /\ UNCHANGED caller
      BY <1>6, <2>3 DEF DirectGrade
    <2> QED
      BY <1>6, <2>1, <2>2, <2>3 DEF DirectGrade
  <1>7. CASE FallbackAnswer
    BY <1>7 DEF FallbackAnswer, KeepDirectAfterFailure, KeepDirect, DirectResponse
  <1>8. CASE DirectStream
    BY <1>8 DEF DirectStream, DirectPrompt, DirectResponse
  <1>9. CASE SearchByRoute
    <2>1. CASE KeepDirect /\ caller = "fallback"
      BY <1>9, <2>1, KeepDirectMatches DEF SearchByRoute
    <2>2. CASE Goto("collect")
      BY <1>9, <2>2 DEF SearchByRoute
    <2>3. CASE Fail
      BY <1>9, <2>3 DEF SearchByRoute
    <2> QED
      BY <1>9, <2>1, <2>2, <2>3 DEF SearchByRoute, KeepDirectAfterFailure
  <1>10. CASE SkipOption
    BY <1>10 DEF SkipOption, HasOption, NextOption
  <1>11. CASE OptionFails
    BY <1>11 DEF OptionFails, HasOption, NextOption
  <1>12. CASE OptionReturns
    BY <1>12 DEF OptionReturns, HasOption, NextOption, Break
  <1>13. CASE Collect
    BY <1>13 DEF Collect
  <1>14. CASE Plan
    BY <1>14 DEF Plan, PlanCut, Min2
  <1>15. CASE Rewrite
    BY <1>15 DEF Rewrite
  <1>16. CASE Fuse
    BY <1>16 DEF Fuse
  <1>17. CASE Rerank
    BY <1>17 DEF Rerank, ReferencesOf
  <1>18. CASE BuildPrompt
    BY <1>18 DEF BuildPrompt
  <1>19. CASE Answer
    BY <1>19 DEF Answer, AfterAnswer
  <1>20. CASE Grade
    BY <1>20 DEF Grade
  <1>21. CASE AcceptAttempt
    BY <1>21 DEF AcceptAttempt, Accepts, LoopResponse
  <1>22. CASE RetryAttempt
    BY <1>22 DEF RetryAttempt, SwitchesRoute, Accepts, Rejects
  <1>23. CASE OpenStream
    <2>1. CASE Fail /\ UNCHANGED answer
      BY <1>23, <2>1 DEF OpenStream
    <2>2. CASE Generate(prompt) /\ Deliver(LoopResponse)
      <3>1. ResponseMatchesAnswer'
        BY <1>23, <2>2 DEF OpenStream, Generate, LoopResponse
      <3> QED
        BY <1>23, <2>2, <3>1 DEF OpenStream
    <2> QED
      BY <1>23, <2>1, <2>2 DEF OpenStream
  <1>24. CASE Expire
    BY <1>24 DEF Expire
  <1>25. CASE Finished \/ UNCHANGED vars
    BY <1>25 DEF Finished, vars
  <1> QED
    BY <1>1, <1>2, <1>3, <1>4, <1>5, <1>6, <1>7, <1>8, <1>9, <1>10, <1>11, <1>12, <1>13, <1>14, <1>15, <1>16, <1>17, <1>18, <1>19, <1>20, <1>21, <1>22, <1>23, <1>24, <1>25 DEF Next, Step

-----------------------------------------------------------------------------
(* The deadline and the grades.                                            *)

\* No step of a later attempt than the one of the deadline gets past its rewrite.
LEMMA DeadlineStep == TypeOK /\ ControlInv /\ DeadlineInv /\ [Next]_vars => DeadlineInv'
  <1> SUFFICES ASSUME TypeOK, ControlInv, DeadlineInv, [Next]_vars PROVE DeadlineInv'
    OBVIOUS
  <1> USE ConfigAssumption DEF TypeOK, LoopTypes, ControlInv, DeadlineInv, DeadlineHit, LoopPoints, searchVars, loopVars, draftVars, verdictVars,
            Deliver, Fail, Goto
  <1>1. CASE UseSkill
    BY <1>1 DEF UseSkill
  <1>2. CASE SkillAnswer
    BY <1>2 DEF SkillAnswer
  <1>3. CASE ForceRoute
    BY <1>3 DEF ForceRoute, RouteNext
  <1>4. CASE SelectRoute
    BY <1>4 DEF SelectRoute, RouteNext
  <1>5. CASE DirectAnswer
    BY <1>5 DEF DirectAnswer, DirectPrompt
  <1>6. CASE DirectGrade
    BY <1>6 DEF DirectGrade, FallsBack, KeepDirect, DirectResponse
  <1>7. CASE FallbackAnswer
    BY <1>7 DEF FallbackAnswer, KeepDirectAfterFailure, KeepDirect, DirectResponse
  <1>8. CASE DirectStream
    BY <1>8 DEF DirectStream, DirectPrompt, DirectResponse
  <1>9. CASE SearchByRoute
    BY <1>9 DEF SearchByRoute, KeepDirectAfterFailure, KeepDirect, DirectResponse
  <1>10. CASE SkipOption
    BY <1>10 DEF SkipOption, HasOption, NextOption
  <1>11. CASE OptionFails
    BY <1>11 DEF OptionFails, HasOption, NextOption
  <1>12. CASE OptionReturns
    BY <1>12 DEF OptionReturns, HasOption, NextOption, Break
  <1>13. CASE Collect
    BY <1>13 DEF Collect
  <1>14. CASE Plan
    BY <1>14 DEF Plan, PlanCut, Min2
  <1>15. CASE Rewrite
    BY <1>15 DEF Rewrite
  <1>16. CASE Fuse
    BY <1>16 DEF Fuse
  <1>17. CASE Rerank
    BY <1>17 DEF Rerank, ReferencesOf
  <1>18. CASE BuildPrompt
    BY <1>18 DEF BuildPrompt
  <1>19. CASE Answer
    BY <1>19 DEF Answer, AfterAnswer
  <1>20. CASE Grade
    BY <1>20 DEF Grade
  <1>21. CASE AcceptAttempt
    BY <1>21 DEF AcceptAttempt, Accepts, LoopResponse
  <1>22. CASE RetryAttempt
    BY <1>22, RetryContinues DEF RetryAttempt
  <1>23. CASE OpenStream
    BY <1>23 DEF OpenStream, LoopResponse
  <1>24. CASE Expire
    BY <1>24 DEF Expire
  <1>25. CASE Finished \/ UNCHANGED vars
    BY <1>25 DEF Finished, vars
  <1> QED
    BY <1>1, <1>2, <1>3, <1>4, <1>5, <1>6, <1>7, <1>8, <1>9, <1>10, <1>11, <1>12, <1>13, <1>14, <1>15, <1>16, <1>17, <1>18, <1>19, <1>20, <1>21, <1>22, <1>23, <1>24, <1>25 DEF Next, Step

\* No step delivers an ungraded answer of Ask or lets its fallback fail.
LEMMA GradeStep == ControlInv /\ GradeInv /\ [Next]_vars => GradeInv'
  <1> SUFFICES ASSUME ControlInv, GradeInv, [Next]_vars PROVE GradeInv'
    OBVIOUS
  <1> USE DEF ControlInv, GradeInv, FallbackKeepsAnswer, AskDeliversGradedAnswer, LoopPoints,
            Generate, searchVars, loopVars, draftVars, verdictVars,
            Deliver, Fail, Goto
  <1>1. CASE UseSkill
    BY <1>1 DEF UseSkill
  <1>2. CASE SkillAnswer
    BY <1>2 DEF SkillAnswer
  <1>3. CASE ForceRoute
    BY <1>3 DEF ForceRoute, RouteNext
  <1>4. CASE SelectRoute
    BY <1>4 DEF SelectRoute, RouteNext
  <1>5. CASE DirectAnswer
    BY <1>5 DEF DirectAnswer, DirectPrompt
  <1>6. CASE DirectGrade
    BY <1>6 DEF DirectGrade, FallsBack, KeepDirect, DirectResponse
  <1>7. CASE FallbackAnswer
    BY <1>7 DEF FallbackAnswer, KeepDirectAfterFailure, KeepDirect, DirectResponse
  <1>8. CASE DirectStream
    BY <1>8 DEF DirectStream, DirectPrompt, DirectResponse
  <1>9. CASE SearchByRoute
    BY <1>9 DEF SearchByRoute, KeepDirectAfterFailure, KeepDirect, DirectResponse
  <1>10. CASE SkipOption
    BY <1>10 DEF SkipOption, HasOption, NextOption
  <1>11. CASE OptionFails
    BY <1>11 DEF OptionFails, HasOption, NextOption
  <1>12. CASE OptionReturns
    BY <1>12 DEF OptionReturns, HasOption, NextOption, Break
  <1>13. CASE Collect
    BY <1>13 DEF Collect
  <1>14. CASE Plan
    BY <1>14 DEF Plan, PlanCut, Min2
  <1>15. CASE Rewrite
    BY <1>15 DEF Rewrite
  <1>16. CASE Fuse
    BY <1>16 DEF Fuse
  <1>17. CASE Rerank
    BY <1>17 DEF Rerank, ReferencesOf
  <1>18. CASE BuildPrompt
    BY <1>18 DEF BuildPrompt
  <1>19. CASE Answer
    BY <1>19 DEF Answer, AfterAnswer
  <1>20. CASE Grade
    BY <1>20 DEF Grade
  <1>21. CASE AcceptAttempt
    BY <1>21 DEF AcceptAttempt, Accepts, LoopResponse
  <1>22. CASE RetryAttempt
    BY <1>22 DEF RetryAttempt, SwitchesRoute, Accepts, Rejects
  <1>23. CASE OpenStream
    BY <1>23 DEF OpenStream, LoopResponse
  <1>24. CASE Expire
    BY <1>24 DEF Expire
  <1>25. CASE Finished \/ UNCHANGED vars
    BY <1>25 DEF Finished, vars
  <1> QED
    BY <1>1, <1>2, <1>3, <1>4, <1>5, <1>6, <1>7, <1>8, <1>9, <1>10, <1>11, <1>12, <1>13, <1>14, <1>15, <1>16, <1>17, <1>18, <1>19, <1>20, <1>21, <1>22, <1>23, <1>24, <1>25 DEF Next, Step

-----------------------------------------------------------------------------
(* The invariant and the theorems it gives.                                *)

\* The initial states satisfy the invariant.
LEMMA InitInv == Init => IInv
  <1> SUFFICES ASSUME Init PROVE IInv
    OBVIOUS
  <1>1. TypeOK
    BY TypeInit
  <1>2. ControlInv /\ TextInv /\ DeadlineInv /\ GradeInv /\ NeverExhausted
    BY DEF Init, ControlInv, TextInv, DeadlineInv, GradeInv, NeverExhausted, LoopPoints,
           ResponseMatchesAnswer, FallbackKeepsAnswer, AskDeliversGradedAnswer
  <1>3. BudgetInv
    BY ConfigAssumption DEF Init, BudgetInv
  <1> QED
    BY <1>1, <1>2, <1>3 DEF IInv

\* Every step preserves the invariant.
LEMMA StepInv == IInv /\ [Next]_vars => IInv'
  BY ControlTypesStep, LoopTypesStep, SearchTypesStep, TextTypesStep, ControlStep, BudgetStep,
     TextStep, DeadlineStep, GradeStep, ExhaustedStep DEF IInv, TypeOK

\* The invariant holds of every behaviour.
THEOREM Inductive == Spec => []IInv
  BY InitInv, StepInv, PTL DEF Spec

\* The retry loop never returns its own error, for every configuration.
THEOREM LoopNeverExhausted == Spec => []NeverExhausted
  <1>1. IInv => NeverExhausted
    BY DEF IInv
  <1> QED
    BY <1>1, Inductive, PTL

\* The caps on external calls hold, for every cap and every number of attempts.
THEOREM BudgetKept == Spec => []ExternalBudget
  <1>1. IInv => ExternalBudget
    BY BudgetGives DEF IInv
  <1> QED
    BY <1>1, Inductive, PTL

\* References, route and question of a response are those of its answer's prompt.
THEOREM ResponseIsConsistent == Spec => []ResponseMatchesAnswer
  <1>1. IInv => ResponseMatchesAnswer
    BY DEF IInv, TextInv
  <1> QED
    BY <1>1, Inductive, PTL

\* No response comes from a later attempt than the one in which the deadline expired.
THEOREM DeadlineSpans == Spec => []DeadlineSpansAttempts
  <1>1. IInv => DeadlineSpansAttempts
    BY DEF IInv, DeadlineInv, DeadlineSpansAttempts
  <1> QED
    BY <1>1, Inductive, PTL

\* What Ask delivers from the loop or the direct route was graded.
THEOREM AskGraded == Spec => []AskDeliversGradedAnswer
  <1>1. IInv => AskDeliversGradedAnswer
    BY DEF IInv, GradeInv
  <1> QED
    BY <1>1, Inductive, PTL

\* A failing fallback never costs Ask its direct answer.
THEOREM FallbackSafe == Spec => []FallbackKeepsAnswer
  <1>1. IInv => FallbackKeepsAnswer
    BY DEF IInv, GradeInv
  <1> QED
    BY <1>1, Inductive, PTL
=============================================================================
