------------------------- MODULE AskContract_proofs -------------------------
(***************************************************************************)
(* AskWorkflow implements AskContract, for every configuration.            *)
(*                                                                         *)
(* The contract speaks of the verdict on the current try, the workflow of  *)
(* graded answers: the invariant that connects them says that the answer   *)
(* of an attempt is the attempt's ordinal, because the loop generates one  *)
(* answer per attempt before any is streamed, and that a stream opens only *)
(* on an accepted attempt or on the last one, which is not graded.         *)
(***************************************************************************)
EXTENDS AskWorkflow_proofs

\* Which answers exist, and which are graded, point by point.
OrdinalInv ==
    /\ pc \in {"start", "plan"} => answer.gen = 0 /\ judged = {}
    /\ pc \in LoopPoints /\ caller = "loop" =>
         answer.gen = IF pc \in {"grade", "decide", "stream"} THEN attempt ELSE attempt - 1
    /\ caller = "loop" => judged \subseteq 0 .. attempt
JudgedInv ==
    /\ pc \in LoopPoints \ {"decide", "stream"} /\ caller = "loop" => attempt \notin judged
    /\ pc = "decide" => attempt \in judged
    /\ pc = "stream" =>
         IF attempt \in judged THEN ~Rejects(grade) /\ attempt < MaxRetries ELSE attempt = MaxRetries
TriesInv == OrdinalInv /\ JudgedInv

\* The phase the refinement maps a state to.
Phase == CASE pc = "done" -> "answered"
           [] pc \in {"failed", "exhausted"} -> "failed"
           [] OTHER -> "working"

-----------------------------------------------------------------------------
\* Every step keeps an attempt and the ordinal of its answer together.
LEMMA OrdinalStep == TypeOK /\ ControlInv /\ TriesInv /\ [Next]_vars => OrdinalInv'
<1> SUFFICES ASSUME TypeOK, ControlInv, TriesInv, [Next]_vars PROVE OrdinalInv'
  OBVIOUS
<1>0. attempt \in Nat /\ MaxRetries \in Nat /\ answer.gen \in Nat
  BY ConfigAssumption DEF TypeOK, LoopTypes, TextTypes, Answers
<1> USE DEF TriesInv, OrdinalInv, ControlInv, LoopPoints, Generate, searchVars, loopVars, draftVars, verdictVars,
            Deliver, Fail, Goto
<1>1. CASE UseSkill
  BY <1>0, <1>1 DEF UseSkill
<1>2. CASE SkillAnswer
  BY <1>0, <1>2 DEF SkillAnswer
<1>3. CASE ForceRoute
  BY <1>0, <1>3 DEF ForceRoute, RouteNext
<1>4. CASE SelectRoute
  BY <1>0, <1>4 DEF SelectRoute, RouteNext
<1>5. CASE DirectAnswer
  BY <1>0, <1>5 DEF DirectAnswer
<1>6. CASE DirectGrade
  BY <1>0, <1>6 DEF DirectGrade, KeepDirect
<1>7. CASE FallbackAnswer
  BY <1>0, <1>7 DEF FallbackAnswer, KeepDirectAfterFailure, KeepDirect
<1>8. CASE DirectStream
  BY <1>0, <1>8 DEF DirectStream
<1>9. CASE SearchByRoute
  BY <1>0, <1>9 DEF SearchByRoute, KeepDirectAfterFailure, KeepDirect
<1>10. CASE SkipOption
  BY <1>0, <1>10 DEF SkipOption, HasOption, NextOption
<1>11. CASE OptionFails
  BY <1>0, <1>11 DEF OptionFails, HasOption, NextOption
<1>12. CASE OptionReturns
  BY <1>0, <1>12 DEF OptionReturns, HasOption, NextOption, Break
<1>13. CASE Collect
  BY <1>0, <1>13 DEF Collect
<1>14. CASE Plan
  BY <1>0, <1>14 DEF Plan
<1>15. CASE Rewrite
  BY <1>0, <1>15 DEF Rewrite
<1>16. CASE Fuse
  BY <1>0, <1>16 DEF Fuse
<1>17. CASE Rerank
  BY <1>0, <1>17 DEF Rerank
<1>18. CASE BuildPrompt
  BY <1>0, <1>18 DEF BuildPrompt
<1>19. CASE Answer
  BY <1>0, <1>19 DEF Answer, AfterAnswer
<1>20. CASE Grade
  BY <1>0, <1>20 DEF Grade
<1>21. CASE AcceptAttempt
  BY <1>0, <1>21 DEF AcceptAttempt
<1>22. CASE RetryAttempt
  BY <1>0, RetryContinues, <1>22 DEF RetryAttempt
<1>23. CASE OpenStream
  BY <1>0, <1>23 DEF OpenStream
<1>24. CASE Expire
  BY <1>0, <1>24 DEF Expire
<1>25. CASE Finished \/ UNCHANGED vars
  BY <1>0, <1>25 DEF Finished, vars
<1> QED
  BY <1>1, <1>2, <1>3, <1>4, <1>5, <1>6, <1>7, <1>8, <1>9, <1>10, <1>11, <1>12, <1>13, <1>14, <1>15, <1>16, <1>17, <1>18, <1>19, <1>20, <1>21, <1>22, <1>23, <1>24, <1>25 DEF Next, Step

\* Every step knows whether the answer of the attempt is graded.
LEMMA JudgedStep == TypeOK /\ ControlInv /\ TriesInv /\ [Next]_vars => JudgedInv'
<1> SUFFICES ASSUME TypeOK, ControlInv, TriesInv, [Next]_vars PROVE JudgedInv'
  OBVIOUS
<1>0. attempt \in 0 .. MaxRetries /\ MaxRetries \in Nat /\ answer.gen \in Nat
  BY ConfigAssumption DEF TypeOK, LoopTypes, TextTypes, Answers
<1> USE DEF TriesInv, OrdinalInv, JudgedInv, ControlInv, LoopPoints, Generate, searchVars, loopVars, draftVars, verdictVars,
            Deliver, Fail, Goto
<1>1. CASE UseSkill
  BY <1>0, <1>1 DEF UseSkill
<1>2. CASE SkillAnswer
  BY <1>0, <1>2 DEF SkillAnswer
<1>3. CASE ForceRoute
  BY <1>0, <1>3 DEF ForceRoute, RouteNext
<1>4. CASE SelectRoute
  BY <1>0, <1>4 DEF SelectRoute, RouteNext
<1>5. CASE DirectAnswer
  BY <1>0, <1>5 DEF DirectAnswer
<1>6. CASE DirectGrade
  BY <1>0, <1>6 DEF DirectGrade, KeepDirect
<1>7. CASE FallbackAnswer
  BY <1>0, <1>7 DEF FallbackAnswer, KeepDirectAfterFailure, KeepDirect
<1>8. CASE DirectStream
  BY <1>0, <1>8 DEF DirectStream
<1>9. CASE SearchByRoute
  BY <1>0, <1>9 DEF SearchByRoute, KeepDirectAfterFailure, KeepDirect
<1>10. CASE SkipOption
  BY <1>0, <1>10 DEF SkipOption, HasOption, NextOption
<1>11. CASE OptionFails
  BY <1>0, <1>11 DEF OptionFails, HasOption, NextOption
<1>12. CASE OptionReturns
  BY <1>0, <1>12 DEF OptionReturns, HasOption, NextOption, Break
<1>13. CASE Collect
  BY <1>0, <1>13 DEF Collect
<1>14. CASE Plan
  BY <1>0, <1>14 DEF Plan
<1>15. CASE Rewrite
  BY <1>0, <1>15 DEF Rewrite
<1>16. CASE Fuse
  BY <1>0, <1>16 DEF Fuse
<1>17. CASE Rerank
  BY <1>0, <1>17 DEF Rerank
<1>18. CASE BuildPrompt
  BY <1>0, <1>18 DEF BuildPrompt
<1>19. CASE Answer
  BY <1>0, <1>19 DEF Answer, AfterAnswer
<1>20. CASE Grade
  BY <1>0, <1>20 DEF Grade
<1>21. CASE AcceptAttempt
  <2>1. CASE mode = "ask"
    BY <1>21, <2>1 DEF AcceptAttempt
  <2>2. CASE mode # "ask"
    <3>1. pc = "decide" /\ ~Rejects(grade) /\ mode = "stream" /\ attempt \in judged
      BY <1>21, <2>2 DEF AcceptAttempt, Accepts, TypeOK, ControlTypes
    <3>2. attempt < MaxRetries
      BY <3>1
    <3>3. ~Rejects(grade)' /\ UNCHANGED <<attempt, judged>> /\ pc' = "stream"
      BY <1>21, <2>2, <3>1 DEF AcceptAttempt, Rejects, Low
    <3> QED
      BY <3>1, <3>2, <3>3
  <2> QED
    BY <2>1, <2>2
<1>22. CASE RetryAttempt
  BY <1>0, RetryContinues, <1>22 DEF RetryAttempt
<1>23. CASE OpenStream
  BY <1>0, <1>23 DEF OpenStream, Rejects
<1>24. CASE Expire
  BY <1>0, <1>24 DEF Expire, Rejects
<1>25. CASE Finished \/ UNCHANGED vars
  BY <1>0, <1>25 DEF Finished, vars, Rejects
<1> QED
  BY <1>1, <1>2, <1>3, <1>4, <1>5, <1>6, <1>7, <1>8, <1>9, <1>10, <1>11, <1>12, <1>13, <1>14, <1>15, <1>16, <1>17, <1>18, <1>19, <1>20, <1>21, <1>22, <1>23, <1>24, <1>25 DEF Next, Step

\* The invariant of the tries holds of every behaviour.
LEMMA TriesInductive == Spec => []TriesInv
<1>1. Init => TriesInv
  <2>1. Init => OrdinalInv
    BY DEF Init, OrdinalInv, NoAnswer
  <2>2. Init => JudgedInv
    BY DEF Init, JudgedInv
  <2> QED
    BY <2>1, <2>2 DEF TriesInv
<1>2. IInv /\ TriesInv /\ [Next]_vars => TriesInv'
  BY OrdinalStep, JudgedStep DEF IInv, TriesInv
<1> QED
  BY Inductive, <1>1, <1>2, PTL DEF Spec

-----------------------------------------------------------------------------
(* The steps of the contract, said of the workflow's variables.            *)

LEMMA MappedInit ==
    ASSUME pc = "start", attempt = 0
    PROVE  Contract!Init
  BY DEF Contract!Init, Verdict

LEMMA MappedStutter ==
    ASSUME Phase' = Phase, attempt' = attempt, Verdict' = Verdict
    PROVE  UNCHANGED Contract!vars
  BY DEF Contract!vars, Phase

LEMMA MappedTry ==
    ASSUME Phase = "working", Phase' = Phase, attempt < MaxRetries,
           attempt = 0 \/ Verdict = "rejected", attempt' = attempt + 1, Verdict' = "none"
    PROVE  Contract!Next
  BY DEF Contract!Next, Contract!Try, Phase

LEMMA MappedJudge ==
    ASSUME Phase = "working", Phase' = Phase, attempt > 0, Verdict = "none",
           Verdict' \in {"accepted", "rejected"}, attempt' = attempt
    PROVE  Contract!Next
  BY DEF Contract!Next, Contract!Judge, Phase

LEMMA MappedReply ==
    ASSUME Phase = "working", Phase' = "answered", attempt' = attempt, Verdict' = Verdict,
           attempt \in {0, MaxRetries} \/ Verdict = "accepted"
    PROVE  Contract!Next
  BY DEF Contract!Next, Contract!Reply, Phase

LEMMA MappedFail ==
    ASSUME Phase = "working", Phase' = "failed", attempt' = attempt, Verdict' = Verdict,
           ~(attempt = MaxRetries /\ Verdict # "none")
    PROVE  Contract!Next
  BY DEF Contract!Next, Contract!Fail, Phase

\* A step that neither grades nor starts an attempt, by where it leads.
LEMMA PlainStep ==
    ASSUME pc \notin Final, UNCHANGED <<mode, attempt, grade, judged>>, pc' # "exhausted",
           pc' = "done" => attempt \in {0, MaxRetries} \/ Verdict = "accepted",
           pc' = "failed" => ~(attempt = MaxRetries /\ Verdict # "none")
    PROVE  Contract!Next \/ UNCHANGED Contract!vars
<1>1. Phase = "working" /\ attempt' = attempt /\ Verdict' = Verdict
  BY DEF Phase, Final, Verdict, Rejects, Low
<1>2. CASE pc' = "done"
  BY <1>1, <1>2, MappedReply DEF Phase
<1>3. CASE pc' = "failed"
  BY <1>1, <1>3, MappedFail DEF Phase
<1>4. CASE pc' \notin Final
  BY <1>1, <1>4, MappedStutter DEF Phase, Final
<1> QED
  BY <1>2, <1>3, <1>4 DEF Final

\* Before the first attempt, and while an attempt is not graded, there is no verdict.
LEMMA NoVerdict ==
    ASSUME TypeOK, ControlInv, TriesInv,
           caller # "loop" \/ pc \in LoopPoints \ {"decide", "stream"}
    PROVE  Verdict = "none" /\ (caller # "loop" => attempt = 0)
  BY DEF Verdict, ControlInv, TriesInv, JudgedInv

\* Every step is one of the contract's or changes nothing in it.
LEMMA StepMapped ==
    ASSUME IInv, TriesInv, [Next]_vars
    PROVE  Contract!Next \/ UNCHANGED Contract!vars
<1>0. TypeOK /\ ControlInv /\ MaxRetries \in Nat \ {0} /\ attempt \in 0 .. MaxRetries
  BY ConfigAssumption DEF IInv, TypeOK, LoopTypes
<1> USE DEF Deliver, Fail, Goto, loopVars, searchVars, draftVars, verdictVars
<1>1. CASE UseSkill
  <2>1. pc \notin Final /\ caller # "loop"
    BY <1>0, <1>1 DEF UseSkill, Final, ControlInv
  <2>2. attempt = 0 /\ Verdict = "none"
    BY <1>0, <2>1, NoVerdict
  <2> QED
    BY <1>0, <1>1, <2>1, <2>2, PlainStep DEF UseSkill
<1>2. CASE SkillAnswer
  <2>1. pc \notin Final /\ caller # "loop"
    BY <1>0, <1>2 DEF SkillAnswer, Final, ControlInv
  <2>2. attempt = 0 /\ Verdict = "none"
    BY <1>0, <2>1, NoVerdict
  <2> QED
    BY <1>0, <1>2, <2>1, <2>2, PlainStep DEF SkillAnswer
<1>3. CASE ForceRoute
  <2>1. pc \notin Final /\ caller # "loop"
    BY <1>0, <1>3 DEF ForceRoute, Final, ControlInv
  <2>2. attempt = 0 /\ Verdict = "none"
    BY <1>0, <2>1, NoVerdict
  <2> QED
    BY <1>0, <1>3, <2>1, <2>2, PlainStep DEF ForceRoute, RouteNext
<1>4. CASE SelectRoute
  <2>1. pc \notin Final /\ caller # "loop"
    BY <1>0, <1>4 DEF SelectRoute, Final, ControlInv
  <2>2. attempt = 0 /\ Verdict = "none"
    BY <1>0, <2>1, NoVerdict
  <2> QED
    BY <1>0, <1>4, <2>1, <2>2, PlainStep DEF SelectRoute, RouteNext
<1>5. CASE DirectAnswer
  <2>1. pc \notin Final /\ caller # "loop"
    BY <1>0, <1>5 DEF DirectAnswer, Final, ControlInv
  <2>2. attempt = 0 /\ Verdict = "none"
    BY <1>0, <2>1, NoVerdict
  <2> QED
    BY <1>0, <1>5, <2>1, <2>2, PlainStep DEF DirectAnswer
<1>6. CASE FallbackAnswer
  <2>1. pc \notin Final /\ caller # "loop"
    BY <1>0, <1>6 DEF FallbackAnswer, Final, ControlInv
  <2>2. attempt = 0 /\ Verdict = "none"
    BY <1>0, <2>1, NoVerdict
  <2> QED
    BY <1>0, <1>6, <2>1, <2>2, PlainStep DEF FallbackAnswer, KeepDirectAfterFailure, KeepDirect
<1>7. CASE DirectStream
  <2>1. pc \notin Final /\ caller # "loop"
    BY <1>0, <1>7 DEF DirectStream, Final, ControlInv
  <2>2. attempt = 0 /\ Verdict = "none"
    BY <1>0, <2>1, NoVerdict
  <2> QED
    BY <1>0, <1>7, <2>1, <2>2, PlainStep DEF DirectStream
<1>8. CASE DirectGrade
  <2>1. pc \notin Final /\ caller # "loop"
    BY <1>0, <1>8 DEF DirectGrade, Final, ControlInv
  <2>2. attempt = 0 /\ Verdict = "none" /\ attempt' = 0
    BY <1>0, <1>8, <2>1, NoVerdict DEF DirectGrade
  <2>3. Verdict' = "none" /\ Phase = "working"
    BY <2>1, <2>2 DEF Verdict, Phase, Final
  <2>4. pc' # "exhausted"
    BY <1>8 DEF DirectGrade, KeepDirect
  <2>5. CASE pc' = "done"
    BY <2>2, <2>3, <2>5, MappedReply DEF Phase
  <2>6. CASE pc' = "failed"
    BY <1>0, <2>2, <2>3, <2>6, MappedFail DEF Phase
  <2>7. CASE pc' \notin {"done", "failed"}
    BY <2>2, <2>3, <2>4, <2>7, MappedStutter DEF Phase
  <2> QED
    BY <2>5, <2>6, <2>7
<1>9. CASE SearchByRoute
  <2>1. pc \in LoopPoints \ {"decide", "stream"} /\ pc \notin Final
    BY <1>9 DEF SearchByRoute, Final, LoopPoints
  <2>2. Verdict = "none" /\ (caller # "loop" => attempt = 0)
    BY <1>0, <2>1, NoVerdict
  <2> QED
    BY <1>0, <1>9, <2>1, <2>2, PlainStep DEF SearchByRoute, KeepDirectAfterFailure, KeepDirect
<1>10. CASE SkipOption
  <2>1. pc \in LoopPoints \ {"decide", "stream"} /\ pc \notin Final
    BY <1>10 DEF SkipOption, HasOption, Final, LoopPoints
  <2>2. Verdict = "none" /\ (caller # "loop" => attempt = 0)
    BY <1>0, <2>1, NoVerdict
  <2> QED
    BY <1>0, <1>10, <2>1, <2>2, PlainStep DEF SkipOption, NextOption
<1>11. CASE OptionFails
  <2>1. pc \in LoopPoints \ {"decide", "stream"} /\ pc \notin Final
    BY <1>11 DEF OptionFails, HasOption, Final, LoopPoints
  <2>2. Verdict = "none" /\ (caller # "loop" => attempt = 0)
    BY <1>0, <2>1, NoVerdict
  <2> QED
    BY <1>0, <1>11, <2>1, <2>2, PlainStep DEF OptionFails, NextOption
<1>12. CASE OptionReturns
  <2>1. pc \in LoopPoints \ {"decide", "stream"} /\ pc \notin Final
    BY <1>12 DEF OptionReturns, HasOption, Final, LoopPoints
  <2>2. Verdict = "none" /\ (caller # "loop" => attempt = 0)
    BY <1>0, <2>1, NoVerdict
  <2> QED
    BY <1>0, <1>12, <2>1, <2>2, PlainStep DEF OptionReturns, NextOption, Break
<1>13. CASE Collect
  <2>1. pc \in LoopPoints \ {"decide", "stream"} /\ pc \notin Final
    BY <1>13 DEF Collect, Final, LoopPoints
  <2>2. Verdict = "none" /\ (caller # "loop" => attempt = 0)
    BY <1>0, <2>1, NoVerdict
  <2> QED
    BY <1>0, <1>13, <2>1, <2>2, PlainStep DEF Collect
<1>14. CASE Rewrite
  <2>1. pc \in LoopPoints \ {"decide", "stream"} /\ pc \notin Final
    BY <1>14 DEF Rewrite, Final, LoopPoints
  <2>2. Verdict = "none" /\ (caller # "loop" => attempt = 0)
    BY <1>0, <2>1, NoVerdict
  <2> QED
    BY <1>0, <1>14, <2>1, <2>2, PlainStep DEF Rewrite
<1>15. CASE Fuse
  <2>1. pc \in LoopPoints \ {"decide", "stream"} /\ pc \notin Final
    BY <1>15 DEF Fuse, Final, LoopPoints
  <2>2. Verdict = "none" /\ (caller # "loop" => attempt = 0)
    BY <1>0, <2>1, NoVerdict
  <2> QED
    BY <1>0, <1>15, <2>1, <2>2, PlainStep DEF Fuse
<1>16. CASE Rerank
  <2>1. pc \in LoopPoints \ {"decide", "stream"} /\ pc \notin Final
    BY <1>16 DEF Rerank, Final, LoopPoints
  <2>2. Verdict = "none" /\ (caller # "loop" => attempt = 0)
    BY <1>0, <2>1, NoVerdict
  <2> QED
    BY <1>0, <1>16, <2>1, <2>2, PlainStep DEF Rerank
<1>17. CASE BuildPrompt
  <2>1. pc \in LoopPoints \ {"decide", "stream"} /\ pc \notin Final
    BY <1>17 DEF BuildPrompt, Final, LoopPoints
  <2>2. Verdict = "none" /\ (caller # "loop" => attempt = 0)
    BY <1>0, <2>1, NoVerdict
  <2> QED
    BY <1>0, <1>17, <2>1, <2>2, PlainStep DEF BuildPrompt
<1>18. CASE Answer
  <2>1. pc \in LoopPoints \ {"decide", "stream"} /\ pc \notin Final
    BY <1>18 DEF Answer, Final, LoopPoints
  <2>2. Verdict = "none" /\ (caller # "loop" => attempt = 0)
    BY <1>0, <2>1, NoVerdict
  <2> QED
    BY <1>0, <1>18, <2>1, <2>2, PlainStep DEF Answer, AfterAnswer
<1>19. CASE Plan
  <2>1. pc = "plan" /\ caller # "loop"
    BY <1>0, <1>19 DEF Plan, ControlInv
  <2>2. attempt = 0 /\ Verdict = "none"
    BY <1>0, <2>1, NoVerdict
  <2>3. CASE pc' = "rewrite"
    <3>1. attempt' = 1 /\ judged' = {}
      BY <1>19, <2>1, <2>3 DEF Plan, TriesInv, OrdinalInv
    <3>2. Verdict' = "none"
      BY <3>1 DEF Verdict
    <3> QED
      BY <1>0, <2>1, <2>2, <2>3, <3>1, <3>2, MappedTry DEF Phase
  <2>4. CASE pc' # "rewrite"
    BY <1>0, <1>19, <2>1, <2>2, <2>4, PlainStep DEF Plan, Final
  <2> QED
    BY <2>3, <2>4
<1>20. CASE Grade
  <2>1. pc = "grade" /\ caller = "loop" /\ attempt > 0 /\ answer.gen = attempt
    BY <1>0, <1>20 DEF Grade, ControlInv, LoopPoints, TriesInv, OrdinalInv
  <2>2. Verdict = "none"
    BY <1>0, <2>1, NoVerdict DEF LoopPoints
  <2>3. CASE pc' = "decide"
    <3>1. attempt' = attempt /\ attempt \in judged'
      BY <1>20, <2>1, <2>3 DEF Grade
    <3>2. Verdict' \in {"accepted", "rejected"}
      BY <2>1, <3>1 DEF Verdict
    <3> QED
      BY <2>1, <2>2, <2>3, <3>1, <3>2, MappedJudge DEF Phase
  <2>4. CASE pc' # "decide"
    BY <1>20, <2>1, <2>2, <2>4, PlainStep DEF Grade, Final
  <2> QED
    BY <2>3, <2>4
<1>21. CASE AcceptAttempt
  <2>1. pc = "decide" /\ attempt \in judged /\ attempt > 0 /\ Accepts
    BY <1>0, <1>21 DEF AcceptAttempt, ControlInv, LoopPoints, TriesInv, JudgedInv
  <2>2. attempt = MaxRetries \/ Verdict = "accepted"
    BY <2>1 DEF Accepts, Verdict
  <2> QED
    BY <1>21, <2>1, <2>2, PlainStep DEF AcceptAttempt, Final
<1>22. CASE RetryAttempt
  <2>1. pc = "decide" /\ caller = "loop" /\ attempt \in judged /\ attempt > 0 /\ ~Accepts
    BY <1>0, <1>22 DEF RetryAttempt, ControlInv, LoopPoints, TriesInv, JudgedInv
  <2>2. attempt < MaxRetries /\ attempt' = attempt + 1 /\ pc' = "rewrite"
    BY <1>0, <1>22, RetryContinues
  <2>3. Verdict = "rejected"
    <3>1. ~SwitchesRoute
      BY <1>0, <2>1 DEF SwitchesRoute, ControlInv
    <3> QED
      BY <2>1, <3>1 DEF Accepts, Verdict
  <2>4. Verdict' = "none"
    <3>1. judged' = judged /\ judged \subseteq 0 .. attempt
      BY <1>22, <2>1 DEF RetryAttempt, TriesInv, OrdinalInv
    <3>2. attempt' \notin judged'
      BY <1>0, <2>2, <3>1
    <3> QED
      BY <3>2 DEF Verdict
  <2> QED
    BY <2>1, <2>2, <2>3, <2>4, MappedTry DEF Phase
<1>23. CASE OpenStream
  <2>1. pc = "stream" /\ attempt > 0
    BY <1>0, <1>23 DEF OpenStream, ControlInv, LoopPoints
  <2>2. IF attempt \in judged THEN Verdict = "accepted" /\ attempt < MaxRetries
                              ELSE Verdict = "none" /\ attempt = MaxRetries
    BY <2>1 DEF Verdict, TriesInv, JudgedInv
  <2> QED
    BY <1>0, <1>23, <2>1, <2>2, PlainStep DEF OpenStream, Final
<1>24. CASE Expire \/ Finished \/ UNCHANGED vars
  <2>1. UNCHANGED <<pc, mode, attempt, grade, judged>>
    BY <1>24 DEF Expire, Finished, vars
  <2>2. Phase' = Phase /\ Verdict' = Verdict
    BY <2>1 DEF Phase, Verdict, Rejects, Low
  <2> QED
    BY <2>1, <2>2, MappedStutter
<1> QED
  BY <1>1, <1>2, <1>3, <1>4, <1>5, <1>6, <1>7, <1>8, <1>9, <1>10, <1>11, <1>12, <1>13, <1>14, <1>15, <1>16, <1>17, <1>18, <1>19, <1>20, <1>21, <1>22, <1>23, <1>24 DEF Next, Step

\* Ask and AskStream keep the contract, for every configuration and every outcome of the
\* calls: bounded tries, a new one only after a rejected one, an answer only without a
\* try, from an accepted or from the last one, and no failure after the last is judged.
THEOREM Refinement == Spec => KeepsContract
<1>1. Init => Contract!Init
  BY MappedInit DEF Init
<1>2. IInv /\ TriesInv /\ [Next]_vars => [Contract!Next]_(Contract!vars)
  BY StepMapped
<1> QED
  BY Inductive, TriesInductive, <1>1, <1>2, PTL DEF Spec, KeepsContract, Contract!Spec
=============================================================================
