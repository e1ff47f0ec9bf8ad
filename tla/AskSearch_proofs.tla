-------------------------- MODULE AskSearch_proofs --------------------------
(***************************************************************************)
(* Theorems about the retrieval inside AskWorkflow: local options go       *)
(* before tools, and a candidate that was found reaches the prompt.        *)
(***************************************************************************)
EXTENDS AskWorkflow_proofs, FiniteSetTheorems

-----------------------------------------------------------------------------
(* The order of the options.                                               *)

\* The options before the one under consideration.
Passed == {Options(SearchRoute)[i] : i \in 1 .. opt - 1}

\* While a sub-query is searched, the options executed are those before opt, except
\* tools the cap skipped.
PassedInv ==
    /\ opt = 1 \/ opt \in 1 .. Len(Options(SearchRoute))
    /\ stages \subseteq Passed /\ Passed \cap LocalOptions \subseteq stages
    /\ stopped = FALSE

OrderInv ==
    /\ pc \notin {"search", "collect"} => stages = {} /\ stopped = FALSE
    /\ pc = "search" => PassedInv
    /\ pc = "collect" => LocalFirst

\* Every route lists its local options before its tools.
LEMMA LocalsListedFirst ==
    ASSUME NEW r, NEW i \in 1 .. Len(Options(r)), NEW j \in 1 .. Len(Options(r)),
           Options(r)[i] \in LocalOptions, Options(r)[j] \in ExternalOptions
    PROVE  i < j
<1>1. CASE r \in {"catalog", "direct"}
  BY <1>1 DEF Options
<1>2. CASE r = "web"
  BY <1>2 DEF Options, LocalOptions, ExternalOptions
<1>3. CASE r = "hierarchical"
  BY <1>3 DEF Options, LocalOptions, ExternalOptions
<1>4. CASE r = "hybrid"
  BY <1>4 DEF Options, LocalOptions, ExternalOptions
<1>5. CASE r \notin {"catalog", "direct", "web", "hierarchical", "hybrid"}
  BY <1>5 DEF Options, LocalOptions, ExternalOptions
<1> QED
  BY <1>1, <1>2, <1>3, <1>4, <1>5

\* Every option is local or a tool.
LEMMA OptionKinds == LocalOptions \cap ExternalOptions = {} /\ OptionNames = LocalOptions \cup ExternalOptions
  BY DEF LocalOptions, ExternalOptions, OptionNames

\* Considering one option and going on, or leaving the loop, keeps the order: a tool
\* is considered after every local option, and a search stops at a local one.
LEMMA ConsiderOption ==
    ASSUME TypeOK, PassedInv, HasOption, UNCHANGED <<route, caller>>,
           stages' \in {stages, stages \cup {CurrentOption}},
           CurrentOption \in LocalOptions => stages' = stages \cup {CurrentOption},
           \/ NextOption /\ stopped' = FALSE
           \/ /\ pc' = "collect"
              /\ stopped' \in BOOLEAN /\ (stopped' => CurrentOption \in LocalOptions)
    PROVE  OrderInv'
<1> DEFINE L == Options(SearchRoute)
<1>1. /\ opt \in 1 .. Len(L) /\ Len(L) \in Nat /\ CurrentOption = L[opt] /\ pc = "search"
      /\ SearchRoute' = SearchRoute /\ stopped = FALSE
      /\ stages \subseteq Passed /\ Passed \cap LocalOptions \subseteq stages
  <2>1. opt \in 1 .. Len(L) /\ pc = "search" /\ CurrentOption = L[opt]
    BY DEF HasOption, CurrentOption
  <2>2. Len(L) \in Nat
    BY DEF Options
  <2>3. SearchRoute' = SearchRoute
    BY DEF SearchRoute
  <2> QED
    BY <2>1, <2>2, <2>3 DEF PassedInv
<1>2. \A o \in Passed : \E i \in 1 .. opt - 1 : o = L[i]
  BY DEF Passed
<1>3. \A i \in 1 .. opt - 1 : L[i] \in Passed
  BY DEF Passed
<1>4. LocalOptionsOf(SearchRoute) = {L[i] : i \in 1 .. Len(L)} \cap LocalOptions
  BY DEF LocalOptionsOf
<1> HIDE DEF L
<1>5. ASSUME NEW o \in stages', o \in ExternalOptions
      PROVE  LocalOptionsOf(SearchRoute) \subseteq stages' /\ CurrentOption \notin LocalOptions
  <2>1. PICK j \in 1 .. opt : o = L[j]
    BY <1>1, <1>2, <1>5
  <2>2. \A i \in 1 .. Len(L) : L[i] \in LocalOptions => i < j
    BY <1>1, <1>5, <2>1, LocalsListedFirst DEF L
  <2>3. \A i \in 1 .. Len(L) : L[i] \in LocalOptions => L[i] \in stages
    BY <1>1, <1>3, <2>2
  <2>4. CurrentOption \notin LocalOptions
    BY <1>1, <2>1, <2>2
  <2> QED
    BY <1>4, <2>3, <2>4
<1>6. CASE pc' = "collect"
  <2>1. stopped' => CurrentOption \in LocalOptions
    OBVIOUS
  <2>2. LocalFirst'
    BY <1>1, <1>5, <2>1 DEF LocalFirst
  <2> QED
    BY <1>6, <2>2 DEF OrderInv
<1>7. CASE pc' # "collect"
  <2>1. opt' = opt + 1 /\ opt < Len(L) /\ pc' = "search" /\ stopped' = FALSE
    BY <1>1, <1>7 DEF NextOption, Goto, L
  <2>2. Passed' = Passed \cup {CurrentOption}
    <3>1. Passed' = {L[i] : i \in 1 .. opt}
      BY <1>1, <2>1 DEF Passed, L
    <3>2. 1 .. opt = (1 .. opt - 1) \cup {opt}
      BY <1>1
    <3> QED
      BY <1>1, <3>1, <3>2 DEF Passed, L
  <2>3. PassedInv'
    <3>1. opt' \in 1 .. Len(Options(SearchRoute'))
      BY <1>1, <2>1 DEF L
    <3>2. stages' \subseteq Passed' /\ Passed' \cap LocalOptions \subseteq stages'
      BY <1>1, <2>2
    <3> QED
      BY <2>1, <3>1, <3>2 DEF PassedInv
  <2> QED
    BY <2>1, <2>3 DEF OrderInv
<1> QED
  BY <1>6, <1>7

\* No step outside a search touches what it counts.
LEMMA OutsideSearch ==
    ASSUME ControlInv, [Next]_vars,
           ~(DirectGrade \/ SearchByRoute \/ SkipOption \/ OptionFails \/ OptionReturns \/ Collect \/ Rewrite)
    PROVE  /\ UNCHANGED searchVars
           /\ pc' \in {"search", "collect"} => pc' = pc /\ UNCHANGED <<route, caller>>
           /\ pc \in {"search", "collect"} => pc' = pc
<1> USE DEF Deliver, Fail, Goto
<1>1. CASE UseSkill \/ SkillAnswer \/ ForceRoute \/ SelectRoute \/ Plan
  BY <1>1 DEF UseSkill, SkillAnswer, ForceRoute, SelectRoute, RouteNext, Plan
<1>2. CASE DirectAnswer \/ FallbackAnswer \/ DirectStream
  BY <1>2 DEF DirectAnswer, FallbackAnswer, KeepDirectAfterFailure, KeepDirect, DirectStream
<1>3. CASE Fuse \/ Rerank \/ BuildPrompt
  BY <1>3 DEF Fuse, Rerank, BuildPrompt
<1>4. CASE Answer \/ Grade \/ AcceptAttempt \/ RetryAttempt \/ OpenStream
  BY <1>4 DEF Answer, AfterAnswer, Grade, AcceptAttempt, RetryAttempt, OpenStream
<1>5. CASE Expire \/ Finished \/ UNCHANGED vars
  BY <1>5 DEF Expire, Finished, vars
<1> QED
  BY <1>1, <1>2, <1>3, <1>4, <1>5 DEF Next, Step

\* Every step keeps the order of the options.
LEMMA OrderStep == TypeOK /\ ControlInv /\ OrderInv /\ [Next]_vars => OrderInv'
<1> SUFFICES ASSUME TypeOK, ControlInv, OrderInv, [Next]_vars PROVE OrderInv'
  OBVIOUS
<1>1. CASE DirectGrade
  <2>1. pc = "direct_grade" /\ stages' = {} /\ stopped' = FALSE
    BY <1>1 DEF DirectGrade, OrderInv, searchVars
  <2>2. pc' = "search" => opt' = 1
    BY <1>1 DEF DirectGrade, KeepDirect, Deliver, Goto, Fail
  <2>3. pc' # "collect"
    BY <1>1 DEF DirectGrade, KeepDirect, Deliver, Goto, Fail
  <2>4. pc' = "search" => PassedInv'
    BY <2>1, <2>2 DEF PassedInv, Passed
  <2> QED
    BY <2>1, <2>3, <2>4 DEF OrderInv
<1>2. CASE SearchByRoute
  <2>1. stages = {} /\ stopped = FALSE
    BY <1>2 DEF SearchByRoute, OrderInv, PassedInv, Passed
  <2>2. UNCHANGED <<stages, stopped>> /\ pc' # "search"
    BY <1>2 DEF SearchByRoute, Goto, Fail, KeepDirectAfterFailure, KeepDirect, Deliver
  <2> QED
    BY <2>1, <2>2 DEF OrderInv, LocalFirst
<1>3. CASE SkipOption
  BY <1>3, ConsiderOption, OptionKinds DEF SkipOption, CapReached, HasOption, OrderInv, PassedInv
<1>4. CASE OptionFails
  BY <1>4, ConsiderOption DEF OptionFails, HasOption, OrderInv, PassedInv
<1>5. CASE OptionReturns
  <2>1. PassedInv /\ stopped = FALSE
    BY <1>5 DEF OptionReturns, HasOption, OrderInv, PassedInv
  <2>2. PICK res \in Results(CurrentOption), high \in BOOLEAN :
          /\ stopped' = (stopped \/ (CurrentOption \in LocalOptions /\ EarlyStop(res, high)))
          /\ IF CurrentOption \in LocalOptions /\ EarlyStop(res, high) THEN Break ELSE NextOption
    BY <1>5 DEF OptionReturns
  <2>3. \/ NextOption /\ stopped' = FALSE
        \/ pc' = "collect" /\ stopped' \in BOOLEAN /\ (stopped' => CurrentOption \in LocalOptions)
    BY <2>1, <2>2 DEF Break, Goto
  <2> QED
    BY <1>5, <2>1, <2>3, ConsiderOption DEF OptionReturns
<1>6. CASE Collect
  <2>1. stages' = {} /\ stopped' = FALSE /\ pc' # "collect"
    BY <1>6 DEF Collect, Goto
  <2>2. pc' = "search" => opt' = 1
    BY <1>6 DEF Collect, Goto
  <2>3. pc' = "search" => PassedInv'
    BY <2>1, <2>2 DEF PassedInv, Passed
  <2> QED
    BY <2>1, <2>3 DEF OrderInv
<1>7. CASE Rewrite
  <2>1. stages' = {} /\ stopped' = FALSE /\ pc' # "collect"
    BY <1>7 DEF Rewrite, Goto, Fail, OrderInv, searchVars
  <2>2. pc' = "search" => opt' = 1
    BY <1>7 DEF Rewrite, Goto, Fail
  <2>3. pc' = "search" => PassedInv'
    BY <2>1, <2>2 DEF PassedInv, Passed
  <2> QED
    BY <2>1, <2>3 DEF OrderInv
<1>8. CASE ~(DirectGrade \/ SearchByRoute \/ SkipOption \/ OptionFails \/ OptionReturns \/ Collect \/ Rewrite)
  <2>1. /\ UNCHANGED searchVars
        /\ pc' \in {"search", "collect"} => pc' = pc /\ UNCHANGED <<route, caller>>
        /\ pc \in {"search", "collect"} => pc' = pc
    BY <1>8, OutsideSearch
  <2>2. pc' \in {"search", "collect"} => SearchRoute' = SearchRoute
    BY <2>1 DEF SearchRoute
  <2> QED
    BY <2>1, <2>2 DEF OrderInv, PassedInv, Passed, LocalFirst, searchVars
<1> QED
  BY <1>1, <1>2, <1>3, <1>4, <1>5, <1>6, <1>7, <1>8

\* The order of the options holds of every behaviour.
LEMMA SearchInOrder == Spec => []OrderInv
<1>1. Init => OrderInv
  BY DEF Init, OrderInv
<1>2. IInv /\ OrderInv /\ [Next]_vars => OrderInv'
  BY OrderStep DEF IInv
<1> QED
  BY Inductive, <1>1, <1>2, PTL DEF Spec

\* retrieveByRouteWithFallback, for every route, cap and result: no tool is called for a
\* sub-query before each local option was tried, nor after one of them stopped it.
THEOREM LocalOptionsFirst == Spec => []LocalFirst
<1>1. IInv /\ OrderInv => LocalFirst
  <2> SUFFICES ASSUME IInv, OrderInv, pc = "search", stages \cap ExternalOptions # {}
               PROVE  LocalOptionsOf(SearchRoute) \subseteq stages
    BY DEF OrderInv, PassedInv, LocalFirst
  <2> DEFINE L == Options(SearchRoute)
  <2>1. stages \subseteq Passed /\ Passed \cap LocalOptions \subseteq stages
    BY DEF OrderInv, PassedInv
  <2>2. Len(L) \in Nat /\ (opt = 1 \/ opt \in 1 .. Len(L))
    BY DEF Options, OrderInv, PassedInv
  <2>3. PICK j \in 1 .. opt - 1 : L[j] \in ExternalOptions
    BY <2>1 DEF Passed
  <2>4. j \in 1 .. Len(L)
    BY <2>2, <2>3
  <2>5. \A i \in 1 .. Len(L) : L[i] \in LocalOptions => i < j
    BY <2>3, <2>4, LocalsListedFirst
  <2>6. \A i \in 1 .. opt - 1 : L[i] \in Passed
    BY DEF Passed
  <2> HIDE DEF L
  <2>7. \A i \in 1 .. Len(L) : L[i] \in LocalOptions => L[i] \in stages
    BY <2>1, <2>2, <2>3, <2>4, <2>5, <2>6
  <2> QED
    BY <2>7 DEF LocalOptionsOf, L
<1> QED
  BY Inductive, SearchInOrder, <1>1, PTL

-----------------------------------------------------------------------------
(* Candidates on their way to the prompt.                                  *)

\* Where a candidate that was found is kept, point by point.
HitsInv ==
    /\ caller = "none" => ~sawHit /\ best = {}
    /\ pc = "search" /\ opt = 1 => best = {}
    /\ pc \in {"search", "collect"} /\ sawHit => best # {} \/ found # {}
    /\ pc \in {"fuse", "fallback_answer"} /\ sawHit => found # {}
    /\ pc \in {"rerank", "prompt"} /\ sawHit => cands # {}
    /\ pc \in {"answer", "grade", "decide", "stream"} /\ sawHit => prompt.ctx # {}

\* The fused list is cut to a positive number of candidates.
LEMMA CutKeepsSome ==
    ASSUME NEW s, IsFiniteSet(s), s # {}, NEW t \in Cut(s, TopK)
    PROVE  t # {}
<1>1. Cardinality(s) \in Nat \ {0}
  BY FS_CardinalityType, FS_EmptySet
<1>2. Cardinality(t) = Min2(TopK, Cardinality(s))
  BY DEF Cut
<1>3. Cardinality(t) # 0
  BY <1>1, <1>2, ConfigAssumption DEF Min2
<1> QED
  BY <1>3, FS_EmptySet

\* There are finitely many candidates.
LEMMA FoundFinite == TypeOK => IsFiniteSet(found)
<1>1. IsFiniteSet(Candidates)
  <2>1. Candidates = (Chunks \cup {"sql_result"}) \cup {"web_result"}
    BY DEF Candidates
  <2>2. IsFiniteSet(Chunks \cup {"sql_result"})
    BY ConfigAssumption, FS_AddElement
  <2> QED
    BY <2>1, <2>2, FS_AddElement
<1> QED
  BY <1>1, FS_Subset DEF TypeOK, SearchTypes

\* A search that goes on is past the first option.
LEMMA OptionMoves ==
    ASSUME TypeOK, HasOption, SkipOption \/ OptionFails \/ OptionReturns, pc' = "search"
    PROVE  opt' # 1
<1>1. opt \in Nat \ {0}
  BY DEF TypeOK, SearchTypes, HasOption
<1>2. opt' = opt + 1
  BY DEF SkipOption, OptionFails, OptionReturns, NextOption, Break, Goto
<1> QED
  BY <1>1, <1>2

\* Every step keeps what was found.
LEMMA HitsStep == TypeOK /\ ControlInv /\ OrderInv /\ HitsInv /\ [Next]_vars => HitsInv'
<1> SUFFICES ASSUME TypeOK, ControlInv, OrderInv, HitsInv, [Next]_vars PROVE HitsInv'
  OBVIOUS
<1> USE DEF HitsInv, Deliver, Fail, Goto, searchVars, loopVars, draftVars, verdictVars
<1>1. CASE UseSkill
  BY <1>1 DEF UseSkill
<1>2. CASE SkillAnswer
  BY <1>2 DEF SkillAnswer
<1>3. CASE ForceRoute
  BY <1>3 DEF ForceRoute, RouteNext
<1>4. CASE SelectRoute
  BY <1>4 DEF SelectRoute, RouteNext
<1>5. CASE DirectAnswer
  BY <1>5 DEF DirectAnswer
<1>6. CASE DirectGrade
  BY <1>6 DEF DirectGrade, KeepDirect, ControlInv
<1>7. CASE FallbackAnswer
  BY <1>7 DEF FallbackAnswer, KeepDirectAfterFailure, KeepDirect
<1>8. CASE DirectStream
  BY <1>8 DEF DirectStream
<1>9. CASE SearchByRoute
  <2>1. pc = "search" /\ best = {}
    BY <1>9 DEF SearchByRoute, OrderInv, PassedInv
  <2> QED
    BY <1>9, <2>1 DEF SearchByRoute, KeepDirectAfterFailure, KeepDirect, ControlInv
<1>10. CASE SkipOption
  BY <1>10, OptionMoves DEF SkipOption, HasOption, NextOption
<1>11. CASE OptionFails
  BY <1>11, OptionMoves DEF OptionFails, HasOption, NextOption
<1>12. CASE OptionReturns
  BY <1>12, OptionMoves DEF OptionReturns, HasOption, NextOption, Break, KeepBest, ControlInv
<1>13. CASE Collect
  BY <1>13 DEF Collect, ControlInv
<1>14. CASE Plan
  BY <1>14 DEF Plan, ControlInv
<1>15. CASE Rewrite
  BY <1>15 DEF Rewrite
<1>16. CASE Fuse
  <2>1. sawHit => found # {} /\ IsFiniteSet(found)
    BY <1>16, FoundFinite DEF Fuse
  <2>2. sawHit => cands' # {}
    BY <1>16, <2>1, CutKeepsSome DEF Fuse
  <2> QED
    BY <1>16, <2>2 DEF Fuse
<1>17. CASE Rerank
  BY <1>17 DEF Rerank, Reranked, ReferencesOf
<1>18. CASE BuildPrompt
  BY <1>18 DEF BuildPrompt
<1>19. CASE Answer
  BY <1>19 DEF Answer, AfterAnswer
<1>20. CASE Grade
  BY <1>20 DEF Grade
<1>21. CASE AcceptAttempt
  BY <1>21 DEF AcceptAttempt
<1>22. CASE RetryAttempt
  BY <1>22 DEF RetryAttempt
<1>23. CASE OpenStream
  BY <1>23 DEF OpenStream
<1>24. CASE Expire
  BY <1>24 DEF Expire
<1>25. CASE Finished \/ UNCHANGED vars
  BY <1>25 DEF Finished, vars
<1> QED
  BY <1>1, <1>2, <1>3, <1>4, <1>5, <1>6, <1>7, <1>8, <1>9, <1>10, <1>11, <1>12, <1>13, <1>14, <1>15, <1>16, <1>17, <1>18, <1>19, <1>20, <1>21, <1>22, <1>23, <1>24, <1>25 DEF Next, Step

\* retrieval, fusion, cut and rerank, for every result they may have: when any option of
\* the attempt returned a candidate, the prompt has a context with some candidate.
THEOREM HitsKept == Spec => []HitsReachPrompt
<1>1. Init => HitsInv
  BY DEF Init, HitsInv
<1>2. IInv /\ OrderInv /\ HitsInv /\ [Next]_vars => HitsInv'
  BY HitsStep DEF IInv
<1>3. HitsInv => HitsReachPrompt
  BY DEF HitsInv, HitsReachPrompt
<1> QED
  BY Inductive, SearchInOrder, <1>1, <1>2, <1>3, PTL DEF Spec

-----------------------------------------------------------------------------
(* Every step takes the request further.                                   *)

\* The sub-query and the option are within what was planned and listed.
PlaceInv ==
    /\ caller = "none" => sub = 0 /\ opt = 0
    /\ caller = "loop" => plan \in 1 .. PlannerMax
    /\ sub \in 0 .. PlannerMax /\ opt \in 0 .. 5
    /\ caller = "loop" /\ pc \in {"search", "collect"} => sub \in 1 .. plan
    /\ pc = "search" => opt = 1 \/ opt \in 1 .. Len(Options(SearchRoute))

\* Every route has at most five options.
LEMMA OptionsFew == \A r : Len(Options(r)) \in 0 .. 5
  BY DEF Options

\* The components of the progress are numbers.
LEMMA ProgressTyped ==
    TypeOK => /\ attempt \in Nat /\ sub \in Nat /\ opt \in Nat
              /\ Point(pc) \in 0 .. 12 /\ Point(pc') \in 0 .. 12
  BY ConfigAssumption DEF TypeOK, LoopTypes, SearchTypes, Point

\* More of one component and as much of those before it is more progress.
LEMMA MoreProgress ==
    \/ attempt < attempt'
    \/ attempt' = attempt /\ Point(pc) < Point(pc')
    \/ attempt' = attempt /\ Point(pc') = Point(pc) /\ sub < sub'
    \/ attempt' = attempt /\ Point(pc') = Point(pc) /\ sub' = sub /\ opt < opt'
    \/ attempt' = attempt /\ pc = "search" /\ pc' = "collect" /\ sub' = sub /\ opt' = opt
    => Before(Progress, Progress')
<1> DEFINE S == Progress
           T == Progress'
<1>1. /\ S[1] = attempt /\ S[2] = Point(pc) /\ S[3] = sub /\ S[4] = opt
      /\ T[1] = attempt' /\ T[2] = Point(pc') /\ T[3] = sub' /\ T[4] = opt'
      /\ S[5] = IF pc = "collect" THEN 1 ELSE 0
      /\ T[5] = IF pc' = "collect" THEN 1 ELSE 0
  BY DEF Progress
<1> HIDE DEF S, T
<1>2. CASE attempt < attempt'
  <2>1. S[1] < T[1] /\ \A j \in 1 .. 1 - 1 : S[j] = T[j]
    BY <1>1, <1>2
  <2> QED
    BY <2>1 DEF Before, S, T
<1>3. CASE attempt' = attempt /\ Point(pc) < Point(pc')
  <2>1. S[2] < T[2] /\ \A j \in 1 .. 2 - 1 : S[j] = T[j]
    BY <1>1, <1>3
  <2> QED
    BY <2>1 DEF Before, S, T
<1>4. CASE attempt' = attempt /\ Point(pc') = Point(pc) /\ sub < sub'
  <2>1. S[3] < T[3] /\ \A j \in 1 .. 3 - 1 : S[j] = T[j]
    BY <1>1, <1>4
  <2> QED
    BY <2>1 DEF Before, S, T
<1>5. CASE attempt' = attempt /\ Point(pc') = Point(pc) /\ sub' = sub /\ opt < opt'
  <2>1. S[4] < T[4] /\ \A j \in 1 .. 4 - 1 : S[j] = T[j]
    BY <1>1, <1>5
  <2> QED
    BY <2>1 DEF Before, S, T
<1>6. CASE attempt' = attempt /\ pc = "search" /\ pc' = "collect" /\ sub' = sub /\ opt' = opt
  <2>1. Point(pc') = Point(pc)
    BY <1>6 DEF Point
  <2>2. S[5] < T[5] /\ \A j \in 1 .. 5 - 1 : S[j] = T[j]
    BY <1>1, <1>6, <2>1
  <2> QED
    BY <2>2 DEF Before, S, T
<1> QED
  BY <1>2, <1>3, <1>4, <1>5, <1>6

\* A step that considers an option stays in the list, or leaves the search.
LEMMA OptionAdvances ==
    ASSUME TypeOK, ControlInv, HasOption, SkipOption \/ OptionFails \/ OptionReturns
    PROVE  /\ UNCHANGED <<caller, route, plan, attempt, sub>>
           /\ \/ pc' = "search" /\ opt' = opt + 1 /\ opt' \in 1 .. Len(Options(SearchRoute))
              \/ pc' = "collect" /\ opt' = opt
<1>1. Len(Options(SearchRoute)) \in Nat /\ opt \in 1 .. Len(Options(SearchRoute))
  BY OptionsFew DEF HasOption
<1>2. NextOption \/ Break
  BY DEF SkipOption, OptionFails, OptionReturns
<1>3. UNCHANGED <<caller, route, plan, attempt, sub>>
  BY DEF SkipOption, OptionFails, OptionReturns, loopVars
<1> QED
  BY <1>1, <1>2, <1>3 DEF NextOption, Break, Goto

\* Every step stays within what was planned and listed.
LEMMA PlaceStep == TypeOK /\ ControlInv /\ PlaceInv /\ [Next]_vars => PlaceInv'
<1> SUFFICES ASSUME TypeOK, ControlInv, PlaceInv, [Next]_vars PROVE PlaceInv'
  OBVIOUS
<1> USE DEF PlaceInv
<1>0. PlannerMax \in Nat \ {0} /\ sub \in Nat /\ plan \in Nat
  BY ConfigAssumption DEF TypeOK, SearchTypes, LoopTypes
<1>1. CASE DirectGrade
  BY <1>0, <1>1 DEF DirectGrade, KeepDirect, Deliver, Goto, Fail, ControlInv, loopVars, searchVars
<1>2. CASE SearchByRoute
  <2>1. UNCHANGED <<sub, opt, plan, caller>> /\ pc = "search" /\ pc' # "search"
    BY <1>2 DEF SearchByRoute, Goto, Fail, KeepDirectAfterFailure, KeepDirect, Deliver, loopVars
  <2> QED
    BY <2>1
<1>3. CASE SkipOption \/ OptionFails \/ OptionReturns
  <2>1. HasOption /\ pc = "search"
    BY <1>3 DEF SkipOption, OptionFails, OptionReturns, HasOption
  <2>2. /\ UNCHANGED <<caller, route, plan, sub>>
        /\ \/ pc' = "search" /\ opt' \in 1 .. Len(Options(SearchRoute))
           \/ pc' = "collect" /\ opt' = opt
    BY <1>3, <2>1, OptionAdvances
  <2>3. SearchRoute' = SearchRoute /\ Len(Options(SearchRoute)) \in 0 .. 5
    BY <2>2, OptionsFew DEF SearchRoute
  <2>4. caller \in {"loop", "fallback"}
    BY <2>1 DEF ControlInv
  <2>5. opt' \in 0 .. 5
    <3>1. \A n \in 0 .. 5 : 1 .. n \subseteq 0 .. 5
      OBVIOUS
    <3>2. opt \in 0 .. 5
      OBVIOUS
    <3> QED
      BY <2>2, <2>3, <3>1, <3>2, Zenon
  <2>6. pc' = "search" => opt' \in 1 .. Len(Options(SearchRoute'))
    BY <2>2, <2>3
  <2>7. caller = "loop" => sub \in 1 .. plan /\ plan \in 1 .. PlannerMax
    BY <2>1
  <2>8. sub \in 0 .. PlannerMax
    OBVIOUS
  <2> QED
    BY <2>2, <2>4, <2>5, <2>6, <2>7, <2>8
<1>4. CASE Collect
  BY <1>0, <1>4 DEF Collect, Goto, ControlInv, loopVars
<1>5. CASE Plan
  <2>1. caller = "none" /\ UNCHANGED <<sub, opt>> /\ pc' \notin {"search", "collect"}
    BY <1>5 DEF Plan, Goto, Fail, ControlInv, searchVars
  <2>2. (caller' = "loop" /\ plan' \in 1 .. PlannerMax) \/ caller' = "none"
    BY <1>0, <1>5, <2>1, ConfigAssumption DEF Plan, PlanCut, Min2
  <2> QED
    BY <1>0, <2>1, <2>2
<1>6. CASE Rewrite
  BY <1>0, <1>6 DEF Rewrite, Goto, Fail, ControlInv, LoopPoints, searchVars
<1>7. CASE ~(DirectGrade \/ SearchByRoute \/ SkipOption \/ OptionFails \/ OptionReturns \/ Collect
             \/ Plan \/ Rewrite)
  <2>1. /\ UNCHANGED <<sub, opt>>
        /\ pc' \in {"search", "collect"} => pc' = pc /\ UNCHANGED <<route, caller>>
    BY <1>7, OutsideSearch DEF searchVars
  <2>2. UNCHANGED <<plan, caller>>
    <3>1. CASE UseSkill \/ SkillAnswer \/ ForceRoute \/ SelectRoute \/ DirectAnswer
               \/ FallbackAnswer \/ DirectStream \/ Fuse \/ Rerank \/ BuildPrompt
      BY <3>1 DEF UseSkill, SkillAnswer, ForceRoute, SelectRoute, DirectAnswer, FallbackAnswer,
         DirectStream, Fuse, Rerank, BuildPrompt, loopVars
    <3>2. CASE Answer \/ Grade \/ AcceptAttempt \/ RetryAttempt \/ OpenStream \/ Expire \/ Finished
               \/ UNCHANGED vars
      BY <3>2 DEF Answer, Grade, AcceptAttempt, RetryAttempt, OpenStream, Expire, Finished, loopVars, vars
    <3> QED
      BY <1>7, <3>1, <3>2 DEF Next, Step
  <2>3. pc' = "search" => SearchRoute' = SearchRoute
    BY <2>1 DEF SearchRoute
  <2> QED
    BY <2>1, <2>2, <2>3
<1> QED
  BY <1>1, <1>2, <1>3, <1>4, <1>5, <1>6, <1>7

\* Every step of the request is progress.
LEMMA StepAdvances ==
    ASSUME TypeOK, ControlInv, PlaceInv, Step
    PROVE  Before(Progress, Progress')
<1>0. /\ attempt \in Nat /\ sub \in Nat /\ opt \in Nat
  BY ProgressTyped
<1>1. CASE RetryAttempt
  <2>1. attempt' = attempt + 1
    BY <1>1, RetryContinues
  <2> QED
    BY <1>0, <2>1, MoreProgress
<1>2. CASE Plan
  <2>1. attempt = 0 /\ pc = "plan"
    BY <1>2 DEF Plan, ControlInv
  <2>2. attempt' = 1 \/ (attempt' = attempt /\ pc' = "failed")
    BY <1>2 DEF Plan, Goto, Fail
  <2>3. pc' = "failed" => Point(pc) < Point(pc')
    BY <2>1 DEF Point
  <2> QED
    BY <2>1, <2>2, <2>3, MoreProgress
<1>3. CASE SkipOption \/ OptionFails \/ OptionReturns
  <2>1. HasOption /\ pc = "search"
    BY <1>3 DEF SkipOption, OptionFails, OptionReturns, HasOption
  <2>2. /\ UNCHANGED <<attempt, sub>>
        /\ \/ pc' = "search" /\ opt' = opt + 1
           \/ pc' = "collect" /\ opt' = opt
    BY <1>3, <2>1, OptionAdvances
  <2>3. pc' = "search" => Point(pc') = Point(pc) /\ opt < opt'
    BY <1>0, <2>1, <2>2
  <2> QED
    BY <2>1, <2>2, <2>3, MoreProgress
<1>4. CASE SearchByRoute
  <2>1. /\ UNCHANGED <<attempt, sub, opt>> /\ pc = "search"
        /\ pc' \in {"collect", "failed", "direct_stream", "done"}
    BY <1>4 DEF SearchByRoute, Goto, Fail, KeepDirectAfterFailure, KeepDirect, Deliver, loopVars
  <2>2. pc' # "collect" => Point(pc) < Point(pc')
    BY <2>1 DEF Point
  <2> QED
    BY <2>1, <2>2, MoreProgress
<1>5. CASE Collect
  <2>1. attempt' = attempt /\ pc = "collect"
    BY <1>5 DEF Collect, loopVars
  <2>2. (pc' = "search" /\ sub' = sub + 1) \/ pc' \in {"fuse", "fallback_answer"}
    BY <1>5 DEF Collect, Goto
  <2>3. IF pc' = "search" THEN Point(pc') = Point(pc) ELSE Point(pc) < Point(pc')
    BY <2>1, <2>2 DEF Point
  <2> QED
    BY <1>0, <2>1, <2>2, <2>3, MoreProgress
<1>6. CASE ~(RetryAttempt \/ Plan \/ SkipOption \/ OptionFails \/ OptionReturns \/ SearchByRoute \/ Collect)
  <2> USE DEF Deliver, Fail, Goto, loopVars
  <2>1. CASE UseSkill \/ SkillAnswer \/ ForceRoute \/ SelectRoute
    <3>1. attempt' = attempt /\ Point(pc) < Point(pc')
      BY <2>1 DEF UseSkill, SkillAnswer, ForceRoute, SelectRoute, RouteNext, Point
    <3> QED
      BY <3>1, MoreProgress
  <2>2. CASE DirectAnswer \/ DirectGrade \/ FallbackAnswer \/ DirectStream
    <3>1. attempt' = attempt /\ Point(pc) < Point(pc')
      BY <2>2 DEF DirectAnswer, DirectGrade, FallbackAnswer, KeepDirectAfterFailure, KeepDirect,
         DirectStream, Point
    <3> QED
      BY <3>1, MoreProgress
  <2>3. CASE Rewrite \/ Fuse \/ Rerank \/ BuildPrompt
    <3>1. attempt' = attempt /\ Point(pc) < Point(pc')
      BY <2>3 DEF Rewrite, Fuse, Rerank, BuildPrompt, Point
    <3> QED
      BY <3>1, MoreProgress
  <2>4. CASE Answer \/ Grade \/ AcceptAttempt \/ OpenStream
    <3>1. attempt' = attempt /\ Point(pc) < Point(pc')
      BY <2>4 DEF Answer, AfterAnswer, Grade, AcceptAttempt, OpenStream, Point
    <3> QED
      BY <3>1, MoreProgress
  <2> QED
    BY <1>6, <2>1, <2>2, <2>3, <2>4 DEF Step
<1> QED
  BY <1>1, <1>2, <1>3, <1>4, <1>5, <1>6

\* Ask and AskStream end, for every number of attempts, sub-queries and parts and every
\* result of every call, as far as no call hangs: each step takes the request further,
\* and there are only so many places to be.
THEOREM NoEndlessLoop == Spec => MovesOn
<1>1. Init => PlaceInv
  BY ConfigAssumption DEF Init, PlaceInv
<1>2. IInv /\ PlaceInv /\ [Next]_vars => PlaceInv'
  BY PlaceStep DEF IInv
<1>3. IInv /\ IInv' /\ PlaceInv /\ PlaceInv' /\ [Next]_vars =>
          [WithinBounds' /\ (UNCHANGED expiredAt => Before(Progress, Progress'))]_vars
  <2> SUFFICES ASSUME IInv, IInv', PlaceInv, PlaceInv', Next, ~UNCHANGED vars
               PROVE  WithinBounds' /\ (UNCHANGED expiredAt => Before(Progress, Progress'))
    OBVIOUS
  <2>1. WithinBounds'
    <3>1. Point(pc') \in 0 .. 12
      BY ProgressTyped DEF IInv
    <3> QED
      BY <3>1 DEF WithinBounds, IInv, TypeOK, LoopTypes, PlaceInv
  <2>2. CASE Step
    BY <2>1, <2>2, StepAdvances DEF IInv
  <2>3. CASE Expire
    <3>1. expiredAt' # expiredAt
      BY <2>3, ConfigAssumption DEF Expire, IInv, ControlInv, TypeOK, LoopTypes
    <3> QED
      BY <2>1, <3>1
  <2>4. CASE Finished
    BY <2>4 DEF Finished
  <2> QED
    BY <2>2, <2>3, <2>4 DEF Next
<1> QED
  BY Inductive, <1>1, <1>2, <1>3, PTL DEF Spec, MovesOn
=============================================================================
