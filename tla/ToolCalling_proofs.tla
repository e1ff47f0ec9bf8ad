------------------------- MODULE ToolCalling_proofs -------------------------
(***************************************************************************)
(* Theorems about ToolCalling, for all tools, lists and questions.         *)
(*                                                                         *)
(* What the handler reads from a conversation depends on what every        *)
(* message in it was when it was added, so the inductive invariant speaks  *)
(* of all messages: what ids they carry (MessageInv), that a call whose    *)
(* output may come is visible when any call is (KnownInv), and that a      *)
(* first output and a last question exist (FirstInv, LastInv), which the   *)
(* selections of the handler need.  The end refines ToolSession.           *)
(***************************************************************************)
EXTENDS ToolCalling, FiniteSetTheorems, TLAPS

\* What a message carries, by its role and the form of the client.
MessageOK(m) ==
    /\ m.role = "user" => m.text \in Questions \cup {""}
    /\ m.role = "assistant" =>
         /\ form = "standard" => m.ids = {}
         /\ form = "unnumbered" => m.ids \subseteq {NoId}
    /\ m.role = "tool" =>
         IF form = "unnumbered" THEN m.id = NoId ELSE m.id = m.made /\ m.made # NoId
MessageInv == \A i \in DOMAIN history : MessageOK(history[i])

\* A call waiting to be run has its id from its making.
PendingInv == \A c \in pending : c.id = c.made /\ c.made # NoId

\* The server sees a call with this id in the conversation.
Visible(h, id) == \E k \in DOMAIN h : h[k].role = "assistant" /\ id \in h[k].ids
KnownInv ==
    form = "nested" =>
        /\ \A i \in DOMAIN history : history[i].role = "tool" => Visible(history, history[i].id)
        /\ \A c \in pending : Visible(history, c.id)

\* j is the first usable output of the call output i is of.
IsFirst(h, j, i) ==
    /\ IsToolOutput(h, j) /\ j <= i /\ h[j].made = h[i].made
    /\ \A k \in DOMAIN h : IsToolOutput(h, k) /\ h[k].made = h[i].made => j <= k
FirstInv ==
    \A i \in DOMAIN history : IsToolOutput(history, i) =>
        \E j \in DOMAIN history : IsFirst(history, j, i)

LastInv ==
    UserTurns(history) # {} =>
        \E i \in UserTurns(history) : \A j \in UserTurns(history) : j <= i

PromptInv == pc = "asking" => prompt.parts = ExtractToolMessages(history)

HistoryInv == MessageInv /\ PendingInv /\ KnownInv /\ FirstInv /\ LastInv
IInv == TypeOK /\ HistoryInv /\ PromptInv /\ RequiredNeverDowngraded

-----------------------------------------------------------------------------
\* A message added at the end leaves the others where they are.
LEMMA Appended ==
    ASSUME NEW S, NEW h \in Seq(S), NEW m \in S
    PROVE  LET g == Append(h, m)
           IN  /\ g \in Seq(S)
               /\ DOMAIN g = DOMAIN h \cup {Len(h) + 1}
               /\ Len(h) + 1 \notin DOMAIN h /\ Len(h) \in Nat
               /\ g[Len(h) + 1] = m
               /\ \A i \in DOMAIN h : g[i] = h[i] /\ i \in Nat /\ i < Len(h) + 1
  OBVIOUS

\* planToolCall makes calls of tools of the list, with ids of their own and the question
\* as what they ask, and under a choice with a name only calls of that function.
LEMMA PlannedCalls ==
    ASSUME TypeOK, NEW r \in Requests, NEW q \in Questions
    PROVE  /\ PlanToolCall(r, q) \subseteq Calls
           /\ \A c \in PlanToolCall(r, q) : c.id = c.made /\ c.made # NoId /\ c.query = q
           /\ ChoiceName(r.choice) # {} =>
                \A c \in PlanToolCall(r, q) : c.tool \in ChoiceName(r.choice) \cap FunctionTools
<1>1. r.tools \in Seq(Tools) /\ requests \in Nat
  BY ToolAssumption DEF Requests, TypeOK
<1>2. ASSUME NEW S \in SUBSET DOMAIN r.tools
      PROVE  /\ MakeCalls(r.tools, S, q) \subseteq Calls
             /\ \A c \in MakeCalls(r.tools, S, q) : c.id = c.made /\ c.made # NoId /\ c.query = q
             /\ \A c \in MakeCalls(r.tools, S, q) : \E i \in S : c.tool = r.tools[i]
  <2> SUFFICES ASSUME NEW i \in S
               PROVE  LET c == [tool |-> r.tools[i], query |-> q, id |-> CallId(i), made |-> <<requests, i>>]
                      IN  /\ c \in Calls /\ c.id = c.made /\ c.made # NoId
                          /\ c.query = q /\ c.tool = r.tools[i]
    BY Zenon DEF MakeCalls
  <2>1. i \in Nat /\ i # 0 /\ r.tools[i] \in Tools
    BY <1>1
  <2> QED
    BY <1>1, <2>1 DEF Calls, Ids, CallId, NoId
<1>3. \A S : FirstIn(r.tools, S) \subseteq DOMAIN r.tools
  BY DEF FirstIn
<1>4. SelectTool(r, q) \in SUBSET DOMAIN r.tools
  BY <1>3 DEF SelectTool
<1>5. \E S \in SUBSET DOMAIN r.tools :
        /\ PlanToolCall(r, q) \subseteq MakeCalls(r.tools, S, q)
        /\ ChoiceName(r.choice) # {} => S = SelectTool(r, q)
  <2> DEFINE functions == {i \in DOMAIN r.tools : r.tools[i] \in FunctionTools}
  <2>1. functions \in SUBSET DOMAIN r.tools
    OBVIOUS
  <2>2. CASE ChoiceName(r.choice) = {} /\ PlanToolCall(r, q) = MakeCalls(r.tools, functions, q)
    BY <2>1, <2>2
  <2>3. CASE PlanToolCall(r, q) \subseteq MakeCalls(r.tools, SelectTool(r, q), q)
    BY <1>4, <2>3
  <2> QED
    BY <2>2, <2>3 DEF PlanToolCall
<1>6. PICK S \in SUBSET DOMAIN r.tools :
        /\ PlanToolCall(r, q) \subseteq MakeCalls(r.tools, S, q)
        /\ ChoiceName(r.choice) # {} => S = SelectTool(r, q)
  BY <1>5
<1>7. ASSUME ChoiceName(r.choice) # {}
      PROVE  \A i \in S : r.tools[i] \in ChoiceName(r.choice) \cap FunctionTools
  BY <1>6, <1>7 DEF SelectTool, FirstIn
<1> QED
  BY <1>2, <1>6, <1>7

\* What a client holds a message to be goes on being so when messages are added.
LEMMA AppendKeepsHistory ==
    ASSUME TypeOK, HistoryInv, NEW m \in Messages, MessageOK(m),
           history' = Append(history, m), form' = form,
           \A c \in pending' : c.id = c.made /\ c.made # NoId,
           form = "nested" =>
               /\ m.role = "tool" => Visible(history, m.id)
               /\ \A c \in pending' : Visible(history, c.id) \/ (m.role = "assistant" /\ c.id \in m.ids)
    PROVE  history' \in Seq(Messages) /\ DOMAIN history \subseteq DOMAIN history' /\ HistoryInv'
<1> DEFINE n == Len(history) + 1
<1>1. history \in Seq(Messages)
  BY DEF TypeOK
<1>2. /\ history' \in Seq(Messages) /\ DOMAIN history' = DOMAIN history \cup {n}
      /\ n \notin DOMAIN history /\ n \in Nat /\ history'[n] = m
      /\ \A i \in DOMAIN history : history'[i] = history[i] /\ i \in Nat /\ i < n
  BY <1>1, Appended
<1> HIDE DEF n
<1>3. MessageInv'
  <2>1. ASSUME NEW x, MessageOK(x) PROVE MessageOK(x)'
    BY <2>1, form' = form DEF MessageOK
  <2>2. MessageOK(m)'
    BY <2>1
  <2>3. \A i \in DOMAIN history : MessageOK(history[i])'
    BY <2>1, <1>2 DEF HistoryInv, MessageInv, MessageOK
  <2> QED
    BY <1>2, <2>2, <2>3 DEF MessageInv, MessageOK
<1>4. PendingInv'
  BY DEF PendingInv
<1>5. KnownInv'
  <2> SUFFICES ASSUME form = "nested"
               PROVE  /\ \A i \in DOMAIN history' : history'[i].role = "tool" => Visible(history', history'[i].id)
                      /\ \A c \in pending' : Visible(history', c.id)
    BY DEF KnownInv
  <2>1. \A id : Visible(history, id) => Visible(history', id)
    BY <1>2 DEF Visible
  <2>2. \A id : m.role = "assistant" /\ id \in m.ids => Visible(history', id)
    BY <1>2 DEF Visible
  <2> QED
    BY <1>2, <2>1, <2>2 DEF HistoryInv, KnownInv
<1>6. FirstInv'
  <2> SUFFICES ASSUME NEW i \in DOMAIN history', IsToolOutput(history', i)
               PROVE  \E j \in DOMAIN history' : IsFirst(history', j, i)
    BY DEF FirstInv
  <2>1. \A k \in DOMAIN history : IsToolOutput(history', k) <=> IsToolOutput(history, k)
    BY <1>2 DEF IsToolOutput
  <2>2. ASSUME NEW k \in DOMAIN history, IsToolOutput(history, k),
               history'[k].made = history'[i].made, k <= i
        PROVE  \E j \in DOMAIN history' : IsFirst(history', j, i)
    <3>1. PICK j \in DOMAIN history : IsFirst(history, j, k)
      BY <2>2 DEF HistoryInv, FirstInv
    <3>2. IsFirst(history', j, i)
      BY <1>2, <2>1, <2>2, <3>1 DEF IsFirst
    <3> QED
      BY <1>2, <3>2
  <2>3. ASSUME \A k \in DOMAIN history :
                   ~(IsToolOutput(history, k) /\ history'[k].made = history'[i].made /\ k <= i)
        PROVE  IsFirst(history', i, i)
    <3>1. i = n
      BY <1>2, <2>1, <2>3
    <3> QED
      BY <1>2, <2>1, <2>3, <3>1 DEF IsFirst
  <2> QED
    BY <2>2, <2>3
<1>7. LastInv'
  <2>1. UserTurns(history') \subseteq UserTurns(history) \cup {n} /\ UserTurns(history) \subseteq UserTurns(history')
    BY <1>2 DEF UserTurns
  <2>2. CASE n \in UserTurns(history')
    <3>1. UserTurns(history') \subseteq DOMAIN history \cup {n}
      BY <2>1 DEF UserTurns
    <3>2. \A j \in UserTurns(history') : j <= n
      BY <1>2, <3>1
    <3> QED
      BY <2>2, <3>2 DEF LastInv
  <2>3. CASE n \notin UserTurns(history')
    <3>1. UserTurns(history') = UserTurns(history)
      BY <2>1, <2>3
    <3> QED
      BY <3>1 DEF HistoryInv, LastInv
  <2> QED
    BY <2>2, <2>3
<1> QED
  BY <1>2, <1>3, <1>4, <1>5, <1>6, <1>7 DEF HistoryInv

\* The same when no message is added and no call is made.
LEMMA QuietKeepsHistory ==
    ASSUME HistoryInv, history' = history, form' = form, pending' \subseteq pending
    PROVE  HistoryInv'
<1>1. MessageInv' /\ FirstInv' /\ LastInv'
  BY DEF HistoryInv, MessageInv, MessageOK, FirstInv, LastInv
<1>2. PendingInv' /\ KnownInv'
  BY DEF HistoryInv, PendingInv, KnownInv, Visible
<1> QED
  BY <1>1, <1>2 DEF HistoryInv

\* The question of a request is one the user asked.
LEMMA QuestionIsAsked ==
    ASSUME TypeOK, HistoryInv
    PROVE  Question \in Questions \cup {""}
<1>1. CASE UserTurns(history) = {}
  BY <1>1 DEF Question, ExtractUserMessage
<1>2. CASE UserTurns(history) # {}
  <2>1. Last(UserTurns(history)) \in UserTurns(history)
    BY <1>2 DEF HistoryInv, LastInv, Last
  <2> QED
    BY <1>2, <2>1 DEF Question, ExtractUserMessage, UserTurns, HistoryInv, MessageInv, MessageOK
<1> QED
  BY <1>1, <1>2

\* A request past the handler's checks asks a question.
LEMMA AskedQuestion ==
    ASSUME TypeOK, HistoryInv, Accepted
    PROVE  Question \in Questions
  BY QuestionIsAsked DEF Accepted

-----------------------------------------------------------------------------
(* The invariant is inductive: one lemma per kind of action.               *)

LEMMA Initially == Init => IInv
<1> SUFFICES ASSUME Init PROVE IInv
  OBVIOUS
<1>1. TypeOK
  <2>1. history \in Seq(Messages) /\ requests \in Nat /\ pending \subseteq Calls
    BY DEF Init
  <2>2. prompt.q \in Questions \cup {""} /\ prompt.parts \subseteq DOMAIN history
    BY DEF Init, NoPrompt
  <2> QED
    BY <2>1, <2>2 DEF Init, TypeOK, Choices
<1>2. HistoryInv
  BY DEF Init, HistoryInv, MessageInv, PendingInv, KnownInv, FirstInv, LastInv, UserTurns
<1>3. PromptInv /\ RequiredNeverDowngraded
  BY DEF Init, PromptInv, RequiredNeverDowngraded
<1> QED
  BY <1>1, <1>2, <1>3 DEF IInv

LEMMA ClientSteps ==
    ASSUME IInv,
           \/ \E q \in Questions \cup {""} : Ask(q)
           \/ \E c \in pending, text \in {"", "text"} : RunTool(c, text)
    PROVE  IInv'
<1> USE DEF IInv
<1>1. ASSUME NEW q \in Questions \cup {""}, Ask(q) PROVE IInv'
  <2> DEFINE m == UserMessage(q)
  <2>1. m \in Messages /\ m.role = "user" /\ m.text = q
    BY DEF Messages, UserMessage, Message, NoId, Ids
  <2>2. MessageOK(m)
    BY <2>1 DEF MessageOK
  <2>3. form' = form /\ history' = Append(history, m) /\ pending' = pending
    BY <1>1 DEF Ask
  <2> HIDE DEF m
  <2>4. history' \in Seq(Messages) /\ DOMAIN history \subseteq DOMAIN history' /\ HistoryInv'
    <3>1. \A c \in pending' : c.id = c.made /\ c.made # NoId
      BY <2>3 DEF HistoryInv, PendingInv
    <3>2. form = "nested" => \A c \in pending' : Visible(history, c.id)
      BY <2>3 DEF HistoryInv, KnownInv
    <3> QED
      BY <2>1, <2>2, <2>3, <3>1, <3>2, AppendKeepsHistory
  <2>5. TypeOK'
    BY <1>1, <2>4 DEF Ask, TypeOK
  <2>6. PromptInv' /\ RequiredNeverDowngraded'
    BY <1>1 DEF Ask, PromptInv, RequiredNeverDowngraded
  <2> QED
    BY <2>4, <2>5, <2>6
<1>2. ASSUME NEW c \in pending, NEW text \in {"", "text"}, RunTool(c, text) PROVE IInv'
  <2> DEFINE id == IF form = "unnumbered" THEN NoId ELSE c.id
             m == Message("tool", text, {}, {}, id, c.made)
  <2>1. c \in Calls /\ c.id \in Ids /\ c.made \in Ids /\ c.id = c.made /\ c.made # NoId
    BY DEF TypeOK, Calls, HistoryInv, PendingInv
  <2>2. m \in Messages /\ m.role = "tool" /\ m.id = id /\ m.made = c.made
    BY <2>1 DEF Messages, Message, NoId, Ids
  <2>3. MessageOK(m)
    BY <2>1, <2>2 DEF MessageOK
  <2>4. form' = form /\ history' = Append(history, m) /\ pending' = pending
    BY <1>2 DEF RunTool
  <2>5. form = "nested" => Visible(history, m.id)
    BY <2>2 DEF HistoryInv, KnownInv
  <2> HIDE DEF m, id
  <2>6. history' \in Seq(Messages) /\ DOMAIN history \subseteq DOMAIN history' /\ HistoryInv'
    <3>1. \A d \in pending' : d.id = d.made /\ d.made # NoId
      BY <2>4 DEF HistoryInv, PendingInv
    <3>2. form = "nested" => \A d \in pending' : Visible(history, d.id)
      BY <2>4 DEF HistoryInv, KnownInv
    <3> QED
      BY <2>2, <2>3, <2>4, <2>5, <3>1, <3>2, AppendKeepsHistory
  <2>7. TypeOK'
    BY <1>2, <2>6 DEF RunTool, TypeOK, Choices
  <2>8. PromptInv' /\ RequiredNeverDowngraded'
    BY <1>2, ToolAssumption DEF RunTool, PromptInv, RequiredNeverDowngraded, ChoiceName
  <2> QED
    BY <2>6, <2>7, <2>8
<1> QED
  BY <1>1, <1>2

\* A refused request, and an ask that failed, settle the question and add nothing.
LEMMA RefuseSteps ==
    ASSUME IInv,
           RefuseMalformed \/ (\E r \in Requests : RefuseUnanswerable(r)) \/ AskFails
    PROVE  IInv'
<1>1. /\ history' = history /\ form' = form /\ style' = style /\ Settle
      /\ requests' \in Nat /\ pc' = "client" /\ prompt' \in {prompt, NoPrompt}
  <2>1. ASSUME NEW r, Refuse(r)
        PROVE  /\ history' = history /\ form' = form /\ style' = style /\ Settle
               /\ requests' \in Nat /\ pc' = "client" /\ prompt' = prompt
    <3>1. requests \in Nat
      BY DEF IInv, TypeOK
    <3> QED
      BY <2>1, <3>1 DEF Refuse, Sends
  <2>2. CASE AskFails
    BY <2>2 DEF AskFails, IInv, TypeOK
  <2> QED
    BY <2>1, <2>2 DEF RefuseMalformed, RefuseUnanswerable
<1>2. TypeOK'
  <2>1. prompt'.q \in Questions \cup {""} /\ prompt'.parts \subseteq DOMAIN history'
    <3>1. prompt.q \in Questions \cup {""} /\ prompt.parts \subseteq DOMAIN history
      BY DEF IInv, TypeOK
    <3>2. NoPrompt.q = "" /\ NoPrompt.parts = {}
      BY DEF NoPrompt
    <3> QED
      BY <1>1, <3>1, <3>2
  <2>2. pending' \subseteq Calls /\ open' \in BOOLEAN /\ choice' \in Choices
    BY <1>1 DEF Settle, Choices
  <2> QED
    BY <1>1, <2>1, <2>2 DEF IInv, TypeOK
<1>3. HistoryInv'
  BY <1>1, QuietKeepsHistory DEF IInv, Settle
<1>4. PromptInv' /\ RequiredNeverDowngraded'
  BY <1>1 DEF Settle, PromptInv, RequiredNeverDowngraded
<1> QED
  BY <1>2, <1>3, <1>4 DEF IInv

LEMMA CallsStep ==
    ASSUME IInv, NEW r \in Requests, ReturnCalls(r)
    PROVE  IInv'
<1> USE DEF IInv
<1> DEFINE calls == PlanToolCall(r, Question)
           m == Message("assistant", "", VisibleIds(calls), calls, NoId, NoId)
<1>1. /\ calls \subseteq Calls
      /\ \A c \in calls : c.id = c.made /\ c.made # NoId
      /\ ChoiceName(r.choice) # {} =>
           \A c \in calls : c.tool \in ChoiceName(r.choice) \cap FunctionTools
  <2>1. Question \in Questions
    BY AskedQuestion DEF ReturnCalls
  <2> QED
    BY <2>1, PlannedCalls
<1>2. /\ form' = form /\ style' = style /\ pc' = pc /\ prompt' = prompt /\ open' = open
      /\ history' = Append(history, m) /\ pending' = calls /\ choice' = r.choice
      /\ requests' = requests + 1 /\ pc = "client"
  BY DEF ReturnCalls, Sends
<1> HIDE DEF calls
<1>3. m \in Messages /\ m.role = "assistant" /\ m.ids = VisibleIds(calls)
  <2>1. VisibleIds(calls) \subseteq Ids
    <3>1. NoId \in Ids /\ \A c \in calls : c.id \in Ids
      BY <1>1 DEF NoId, Ids, Calls
    <3> QED
      BY <3>1 DEF VisibleIds, TypeOK, Forms
  <2> QED
    BY <1>1, <2>1 DEF Message, Messages, NoId, Ids
<1>4. MessageOK(m)
  BY <1>3 DEF MessageOK, VisibleIds
<1>5. form = "nested" => \A c \in pending' : c.id \in m.ids
  BY <1>2, <1>3 DEF VisibleIds
<1> HIDE DEF m
<1>6. history' \in Seq(Messages) /\ DOMAIN history \subseteq DOMAIN history' /\ HistoryInv'
  BY <1>1, <1>2, <1>3, <1>4, <1>5, AppendKeepsHistory
<1>7. TypeOK'
  <2>1. requests' \in Nat /\ choice' \in Choices
    <3>1. requests \in Nat /\ r.choice \in Choices
      BY DEF TypeOK, Requests
    <3> QED
      BY <1>2, <3>1
  <2> QED
    BY <1>1, <1>2, <1>6, <2>1 DEF TypeOK
<1>8. PromptInv' /\ RequiredNeverDowngraded'
  BY <1>1, <1>2 DEF PromptInv, RequiredNeverDowngraded
<1> QED
  BY <1>6, <1>7, <1>8

LEMMA AskSteps ==
    ASSUME IInv, AskReturns \/ Hangs \/ \E r \in Requests : BeginAsk(r)
    PROVE  IInv'
<1> USE DEF IInv
<1>1. ASSUME NEW r \in Requests, BeginAsk(r) PROVE IInv'
  <2>1. HistoryInv'
    BY <1>1, QuietKeepsHistory DEF BeginAsk
  <2>2. TypeOK'
    <3>1. prompt'.q \in Questions \cup {""}
      BY <1>1, QuestionIsAsked DEF BeginAsk
    <3>2. prompt'.parts \subseteq DOMAIN history
      BY <1>1 DEF BeginAsk, ToolContents, ExtractToolMessages, Eligible
    <3>3. requests' \in Nat /\ choice' \in Choices
      <4>1. requests \in Nat /\ r.choice \in Choices
        BY DEF TypeOK, Requests
      <4> QED
        BY <1>1, <4>1 DEF BeginAsk, Sends
    <3> QED
      BY <1>1, <3>1, <3>2, <3>3 DEF BeginAsk, TypeOK
  <2>3. PromptInv'
    BY <1>1 DEF BeginAsk, PromptInv, ToolContents
  <2>4. RequiredNeverDowngraded'
    BY <1>1 DEF BeginAsk, RequiredNeverDowngraded, RequiresToolCall, ChoiceType, ChoiceName
  <2> QED
    BY <2>1, <2>2, <2>3, <2>4
<1>2. CASE AskReturns
  <2> DEFINE m == Message("assistant", "text", {}, {}, NoId, NoId)
  <2>1. m \in Messages /\ m.role = "assistant" /\ m.ids = {}
    BY DEF Messages, Message, NoId, Ids
  <2>2. MessageOK(m)
    BY <2>1 DEF MessageOK
  <2>3. form' = form /\ history' = Append(history, m) /\ pending' = {} /\ choice' = "auto"
    BY <1>2 DEF AskReturns, Settle
  <2> HIDE DEF m
  <2>4. history' \in Seq(Messages) /\ DOMAIN history \subseteq DOMAIN history' /\ HistoryInv'
    BY <2>1, <2>2, <2>3, AppendKeepsHistory
  <2>5. TypeOK'
    BY <1>2, <2>3, <2>4 DEF AskReturns, Settle, TypeOK, NoPrompt, Choices
  <2>6. PromptInv' /\ RequiredNeverDowngraded'
    BY <1>2, <2>3 DEF AskReturns, PromptInv, RequiredNeverDowngraded
  <2> QED
    BY <2>4, <2>5, <2>6
<1>3. CASE Hangs
  <2>1. HistoryInv'
    BY <1>3, QuietKeepsHistory DEF Hangs
  <2>2. TypeOK' /\ RequiredNeverDowngraded'
    BY <1>3 DEF Hangs, TypeOK, RequiredNeverDowngraded
  <2>3. PromptInv'
    BY <1>3 DEF Hangs, PromptInv
  <2> QED
    BY <2>1, <2>2, <2>3
<1> QED
  BY <1>1, <1>2, <1>3

LEMMA StutterStep == IInv /\ UNCHANGED vars => IInv'
<1> SUFFICES ASSUME IInv, UNCHANGED vars PROVE IInv'
  OBVIOUS
<1>1. HistoryInv'
  BY QuietKeepsHistory DEF IInv, vars
<1>2. TypeOK' /\ RequiredNeverDowngraded'
  BY DEF IInv, vars, TypeOK, RequiredNeverDowngraded
<1>3. PromptInv'
  BY DEF IInv, vars, PromptInv
<1> QED
  BY <1>1, <1>2, <1>3 DEF IInv

-----------------------------------------------------------------------------
\* The inductive invariant holds of every conversation.
THEOREM Inductive == Spec => []IInv
<1>1. IInv /\ [Next]_vars => IInv'
  BY ClientSteps, RefuseSteps, CallsStep, AskSteps, StutterStep DEF Next, Request, Handle
<1> QED
  BY Initially, <1>1, PTL DEF Spec

\* The client's conversation and the request in work keep their types.
THEOREM TypeCorrect == Spec => []TypeOK
<1>1. IInv => TypeOK
  BY DEF IInv
<1> QED
  BY Inductive, <1>1, PTL

\* planToolCall and requiresToolCall: a required choice never ends in an ordinary
\* answer, and one with a name only in calls of that function.
THEOREM RequiredStands == Spec => []RequiredNeverDowngraded
<1>1. IInv => RequiredNeverDowngraded
  BY DEF IInv
<1> QED
  BY Inductive, <1>1, PTL

\* No usable output is foreign to the conversation it comes in.
LEMMA NoneIsForeign ==
    ASSUME TypeOK, HistoryInv
    PROVE  Eligible(history) = {i \in DOMAIN history : IsToolOutput(history, i)}
<1> SUFFICES ASSUME NEW i \in DOMAIN history, IsToolOutput(history, i)
             PROVE  \/ history[i].id = NoId \/ AssistantToolIDs(history) = {}
                    \/ history[i].id \in AssistantToolIDs(history)
  BY Zenon DEF Eligible
<1>1. MessageOK(history[i]) /\ history[i].role = "tool"
  BY DEF HistoryInv, MessageInv, IsToolOutput
<1>2. CASE form = "unnumbered"
  BY <1>1, <1>2 DEF MessageOK
<1>3. CASE form = "standard"
  <2>1. \A k \in DOMAIN history : history[k].role = "assistant" => history[k].ids = {}
    BY <1>3 DEF HistoryInv, MessageInv, MessageOK
  <2> QED
    BY <2>1 DEF AssistantToolIDs
<1>4. CASE form = "nested"
  <2>1. Visible(history, history[i].id)
    BY <1>1, <1>4 DEF HistoryInv, KnownInv
  <2> QED
    <3>1. PICK k \in DOMAIN history : history[k].role = "assistant" /\ history[i].id \in history[k].ids
      BY <2>1 DEF Visible
    <3>2. history[i].id \in UNION {history[j].ids : j \in {n \in DOMAIN history : history[n].role = "assistant"}}
      BY <3>1, Zenon
    <3>3. history[i].id # NoId => history[i].id \in AssistantToolIDs(history)
      BY <3>2, Zenon DEF AssistantToolIDs
    <3> QED
      BY <3>3
<1> QED
  BY <1>2, <1>3, <1>4 DEF TypeOK, Forms

\* In a conversation with the invariant, every call with a usable output is in the
\* prompt, by its first output and by no other.
LEMMA OutputsKept == IInv => ToolOutputsReachAnswer
<1> SUFFICES ASSUME IInv, pc = "asking", NEW i \in DOMAIN history, IsToolOutput(history, i)
             PROVE  \E j \in prompt.parts :
                      /\ IsToolOutput(history, j) /\ j <= i
                      /\ history[j].made = history[i].made
                      /\ form # "unnumbered" =>
                           \A k \in prompt.parts : history[k].made = history[i].made => k = j
  BY DEF ToolOutputsReachAnswer
<1> DEFINE S == {k \in DOMAIN history : IsToolOutput(history, k)}
<1>1. /\ prompt.parts = {k \in S : ~Repeats(history, S, k)}
      /\ DOMAIN history \subseteq Nat
  <2>1. DOMAIN history \subseteq Nat
    <3>1. history \in Seq(Messages)
      BY DEF IInv, TypeOK
    <3> QED
      BY <3>1
  <2> QED
    BY <2>1, NoneIsForeign DEF IInv, PromptInv, ExtractToolMessages
<1>2. \A k \in S : MessageOK(history[k]) /\ history[k].role = "tool"
  BY DEF IInv, HistoryInv, MessageInv, IsToolOutput
<1>3. CASE form = "unnumbered"
  <2>1. i \in prompt.parts
    BY <1>1, <1>2, <1>3 DEF Repeats, MessageOK
  <2> QED
    BY <1>1, <1>3, <2>1
<1>4. CASE form # "unnumbered"
  <2>1. PICK j \in DOMAIN history : IsFirst(history, j, i)
    BY DEF IInv, HistoryInv, FirstInv
  <2>2. \A k \in S : history[k].id = history[k].made /\ history[k].id # NoId
    BY <1>2, <1>4 DEF MessageOK
  <2>3. j \in S /\ j <= i /\ history[j].made = history[i].made
    BY <2>1 DEF IsFirst
  <2>4. \A k \in S : history[k].made = history[i].made => j <= k
    BY <2>1 DEF IsFirst
  <2> HIDE DEF S
  <2>5. j \in prompt.parts
    BY <1>1, <2>2, <2>3, <2>4, S \subseteq DOMAIN history DEF Repeats, S
  <2>6. ASSUME NEW k \in prompt.parts, history[k].made = history[i].made
        PROVE  k = j
    BY <1>1, <2>2, <2>3, <2>4, <2>6, S \subseteq DOMAIN history DEF Repeats, S
  <2> QED
    BY <2>3, <2>5, <2>6 DEF S
<1> QED
  BY <1>3, <1>4

\* extractToolMessages and the ids of planToolCall: every call with a usable output is
\* in the prompt, by its first output and by no other, for any client and any number of
\* questions, calls and outputs.
THEOREM OutputsReachAnswer == Spec => []ToolOutputsReachAnswer
<1> QED
  BY Inductive, OutputsKept, PTL

-----------------------------------------------------------------------------
(* The rounds of tool calls.                                               *)

\* The messages of the user so far; every one of them opened a question.
Turns == Count("user")

\* The requests a client of style "ends" may still send for the question that waits: one
\* while it has calls to answer for, two before it has any.
Owed == IF ~open \/ pc # "client" THEN 0 ELSE IF pending = {} THEN 2 ELSE 1

RoundsInv ==
    /\ ~open => pending = {}
    /\ style = "ends" => requests + Owed <= 2 * Turns

\* A message added counts once, for its own role.
LEMMA CountOf ==
    ASSUME TypeOK, NEW role
    PROVE  /\ Count(role) \in Nat
           /\ \A m \in Messages : history' = Append(history, m) =>
                  Count(role)' = IF m.role = role THEN Count(role) + 1 ELSE Count(role)
<1> DEFINE S == {i \in DOMAIN history : history[i].role = role}
           n == Len(history) + 1
<1>1. history \in Seq(Messages)
  BY DEF TypeOK
<1>2. IsFiniteSet(S) /\ Count(role) = Cardinality(S)
  <2>1. DOMAIN history = 1 .. Len(history) /\ Len(history) \in Nat
    BY <1>1
  <2>2. IsFiniteSet(1 .. Len(history))
    BY <2>1, FS_Interval
  <2>3. S \in SUBSET (1 .. Len(history))
    BY <2>1
  <2> QED
    BY <2>2, <2>3, FS_Subset DEF Count
<1>3. ASSUME NEW m \in Messages, history' = Append(history, m)
      PROVE  Count(role)' = IF m.role = role THEN Count(role) + 1 ELSE Count(role)
  <2>1. /\ DOMAIN history' = DOMAIN history \cup {n} /\ n \notin DOMAIN history
        /\ history'[n] = m /\ \A i \in DOMAIN history : history'[i] = history[i]
    BY <1>1, <1>3, Appended
  <2>2. Count(role)' = Cardinality({i \in DOMAIN history' : history'[i].role = role})
    BY DEF Count
  <2> HIDE DEF n
  <2>3. {i \in DOMAIN history' : history'[i].role = role} = IF m.role = role THEN S \cup {n} ELSE S
    BY <2>1
  <2>4. n \notin S
    BY <2>1
  <2> HIDE DEF S
  <2> QED
    BY <1>2, <2>2, <2>3, <2>4, FS_AddElement
<1> HIDE DEF S
<1> QED
  BY <1>2, <1>3, FS_CardinalityType

\* A follow-up of a client that ends its rounds gets no calls: it offers no tools, or
\* forbids calls.
LEMMA FollowUpGetsNoCalls ==
    ASSUME NEW r \in Requests, NEW q, r.tools = <<>> \/ r.choice = "none"
    PROVE  PlanToolCall(r, q) = {}
<1>1. CASE r.choice = "none"
  BY <1>1, ToolAssumption DEF PlanToolCall, ChoiceType
<1>2. CASE r.tools = <<>>
  <2>1. \A S : FirstIn(r.tools, S) = {}
    BY <1>2 DEF FirstIn
  <2> QED
    BY <2>1 DEF PlanToolCall, SelectTool
<1> QED
  BY <1>1, <1>2

\* A question asked pays for the two requests it may cost.
LEMMA QuestionPays ==
    ASSUME RoundsInv, requests \in Nat, Turns \in Nat, Turns' = Turns + 1, Owed = 0, Owed' = 2,
           pending = {}, UNCHANGED <<style, requests, pending>>
    PROVE  RoundsInv'
<1>1. 2 * Turns' = 2 * Turns + 2
  OBVIOUS
<1>2. style = "ends" => requests <= 2 * Turns
  BY DEF RoundsInv
<1> QED
  BY <1>1, <1>2 DEF RoundsInv

\* Every step pays for the requests it sends.
LEMMA RoundsStep ==
    ASSUME TypeOK, HistoryInv, RoundsInv, [Next]_vars
    PROVE  RoundsInv'
<1>0. /\ requests \in Nat /\ Turns \in Nat /\ pc \in {"client", "asking", "hanging"}
  BY CountOf DEF TypeOK, Turns
<1>1. ASSUME NEW m \in Messages, history' = Append(history, m)
      PROVE  Turns' = IF m.role = "user" THEN Turns + 1 ELSE Turns
  BY <1>1, CountOf DEF Turns
<1>2. history' = history => Turns' = Turns
  BY DEF Turns, Count
<1>3. ASSUME NEW q \in Questions \cup {""}, Ask(q) PROVE RoundsInv'
  <2>1. UserMessage(q) \in Messages /\ UserMessage(q).role = "user"
    BY DEF Messages, UserMessage, Message, NoId, Ids
  <2>2. Turns' = Turns + 1
    BY <1>1, <1>3, <2>1 DEF Ask
  <2>3. /\ pending = {} /\ Owed = 0 /\ Owed' = 2 /\ open' = TRUE
        /\ style' = style /\ requests' = requests /\ pending' = pending
    BY <1>3 DEF Ask, RoundsInv, Owed
  <2> QED
    BY <1>0, <2>2, <2>3, QuestionPays
<1>4. ASSUME NEW c \in pending, NEW text \in {"", "text"}, RunTool(c, text) PROVE RoundsInv'
  <2> DEFINE m == Message("tool", text, {}, {}, IF form = "unnumbered" THEN NoId ELSE c.id, c.made)
  <2>1. m \in Messages /\ m.role # "user"
    BY DEF TypeOK, Calls, Messages, Message, NoId, Ids
  <2>2. history' = Append(history, m)
    BY <1>4 DEF RunTool
  <2>3. Turns' = Turns
    BY <1>1, <2>1, <2>2
  <2> QED
    BY <1>4, <2>3 DEF RunTool, RoundsInv, Owed
<1>5. ASSUME NEW r, Refuse(r) PROVE RoundsInv'
  BY <1>0, <1>2, <1>5 DEF Refuse, Sends, Settle, RoundsInv, Owed
<1>6. ASSUME NEW r \in Requests, ReturnCalls(r) PROVE RoundsInv'
  <2> DEFINE calls == PlanToolCall(r, Question)
             m == Message("assistant", "", VisibleIds(calls), calls, NoId, NoId)
  <2>1. /\ calls # {} /\ pending' = calls /\ history' = Append(history, m) /\ Sends(r)
        /\ UNCHANGED <<pc, style, open>>
    BY <1>6 DEF ReturnCalls
  <2>2. m \in Messages /\ m.role # "user"
    <3>1. calls \subseteq Calls
      BY <1>6, AskedQuestion, PlannedCalls DEF ReturnCalls
    <3>2. VisibleIds(calls) \subseteq Ids
      <4>1. NoId \in Ids /\ \A c \in calls : c.id \in Ids
        BY <3>1 DEF NoId, Ids, Calls
      <4> QED
        BY <4>1 DEF VisibleIds, TypeOK, Forms
    <3> HIDE DEF calls
    <3> QED
      BY <3>1, <3>2 DEF Message, Messages, NoId, Ids
  <2>3. Turns' = Turns
    BY <1>1, <2>1, <2>2
  <2>4. style = "ends" => pending = {}
    BY <2>1, FollowUpGetsNoCalls DEF Sends
  <2> HIDE DEF calls, m
  <2> QED
    BY <1>0, <2>1, <2>3, <2>4 DEF Sends, RoundsInv, Owed
<1>7. ASSUME NEW r \in Requests, BeginAsk(r) PROVE RoundsInv'
  BY <1>0, <1>2, <1>7 DEF BeginAsk, Sends, RoundsInv, Owed
<1>8. CASE AskReturns
  <2> DEFINE m == Message("assistant", "text", {}, {}, NoId, NoId)
  <2>1. m \in Messages /\ m.role # "user" /\ history' = Append(history, m)
    BY <1>8 DEF AskReturns, Messages, Message, NoId, Ids
  <2>2. Turns' = Turns
    BY <1>1, <2>1
  <2> QED
    BY <1>0, <1>8, <2>2 DEF AskReturns, Settle, RoundsInv, Owed
<1>9. CASE AskFails
  BY <1>0, <1>2, <1>9 DEF AskFails, Settle, RoundsInv, Owed
<1>10. CASE Hangs
  BY <1>2, <1>10 DEF Hangs, RoundsInv, Owed
<1>11. CASE UNCHANGED vars
  BY <1>2, <1>11 DEF vars, RoundsInv, Owed
<1> QED
  BY <1>3, <1>4, <1>5, <1>6, <1>7, <1>8, <1>9, <1>10, <1>11
     DEF Next, Request, Handle, RefuseMalformed, RefuseUnanswerable

\* planToolCall and requiresToolCall: the rounds of tool calls end, for any tools, any
\* number of questions and any outputs.
THEOREM RoundsEnd == Spec => []TwoRequestsPerQuestion
<1>1. Init => RoundsInv
  <2> SUFFICES ASSUME Init PROVE RoundsInv
    OBVIOUS
  <2>1. history = <<>> /\ Turns = 0
    <3>1. {i \in DOMAIN history : history[i].role = "user"} = {}
      BY DEF Init
    <3> QED
      BY <3>1, FS_EmptySet DEF Init, Turns, Count
  <2> QED
    BY <2>1 DEF Init, RoundsInv, Owed
<1>2. TypeOK /\ RoundsInv => TwoRequestsPerQuestion
  <2> SUFFICES ASSUME TypeOK, RoundsInv PROVE TwoRequestsPerQuestion
    OBVIOUS
  <2>1. requests \in Nat /\ Turns \in Nat
    BY CountOf DEF TypeOK, Turns
  <2> QED
    BY <2>1 DEF RoundsInv, Owed, TwoRequestsPerQuestion, Turns
<1>3. IInv /\ RoundsInv /\ [Next]_vars => RoundsInv'
  BY RoundsStep DEF IInv
<1>4. IInv => TypeOK
  BY DEF IInv
<1> QED
  BY Inductive, <1>1, <1>2, <1>3, <1>4, PTL DEF Spec

-----------------------------------------------------------------------------
(* The refinement of ToolSession.                                          *)

\* The question of a longer history: a message of the user that is not blank is the new
\* one, any other message changes nothing.
LEMMA QuestionOfLonger ==
    ASSUME TypeOK, HistoryInv, NEW m \in Messages, history' = Append(history, m)
    PROVE  Question' = IF m.role = "user" /\ m.text # "" THEN m.text ELSE Question
<1> DEFINE n == Len(history) + 1
<1>1. /\ DOMAIN history' = DOMAIN history \cup {n} /\ n \notin DOMAIN history /\ n \in Nat
      /\ history'[n] = m
      /\ \A i \in DOMAIN history : history'[i] = history[i] /\ i \in Nat /\ i < n
  <2>1. history \in Seq(Messages)
    BY DEF TypeOK
  <2> QED
    BY <2>1, Appended
<1> HIDE DEF n
<1>2. CASE m.role = "user" /\ m.text # ""
  <2>1. UserTurns(history') = UserTurns(history) \cup {n}
    BY <1>1, <1>2 DEF UserTurns
  <2>2. UserTurns(history) \subseteq DOMAIN history
    BY DEF UserTurns
  <2>3. Last(UserTurns(history')) = n
    BY <1>1, <2>1, <2>2 DEF Last
  <2> QED
    BY <1>1, <1>2, <2>1, <2>3 DEF Question, ExtractUserMessage
<1>3. CASE ~(m.role = "user" /\ m.text # "")
  <2>1. UserTurns(history') = UserTurns(history)
    BY <1>1, <1>3 DEF UserTurns
  <2>2. UserTurns(history) # {} => Last(UserTurns(history)) \in DOMAIN history
    BY DEF HistoryInv, LastInv, Last, UserTurns
  <2> QED
    BY <1>1, <1>3, <2>1, <2>2 DEF Question, ExtractUserMessage
<1> QED
  BY <1>2, <1>3

\* The calls with an output in a longer history.
LEMMA OutputsOfLonger ==
    ASSUME TypeOK, NEW m \in Messages, history' = Append(history, m)
    PROVE  SessionOutputs' = IF m.role = "tool" /\ m.text # "" THEN SessionOutputs \cup {m.made}
                                                               ELSE SessionOutputs
<1> DEFINE n == Len(history) + 1
           S == {j \in DOMAIN history : IsToolOutput(history, j)}
           T == {j \in DOMAIN history' : IsToolOutput(history', j)}
<1>1. /\ DOMAIN history' = DOMAIN history \cup {n} /\ n \notin DOMAIN history
      /\ history'[n] = m /\ \A i \in DOMAIN history : history'[i] = history[i]
  <2>1. history \in Seq(Messages)
    BY DEF TypeOK
  <2> HIDE DEF S, T
  <2> QED
    BY <2>1, Appended
<1> HIDE DEF n
<1>2. T = IF m.role = "tool" /\ m.text # "" THEN S \cup {n} ELSE S
  BY <1>1 DEF IsToolOutput
<1>3. S \subseteq DOMAIN history
  OBVIOUS
<1>4. SessionOutputs = {history[i].made : i \in S} /\ SessionOutputs' = {history'[i].made : i \in T}
  BY Zenon DEF SessionOutputs
<1> HIDE DEF S, T
<1>5. \A i \in S : history'[i].made = history[i].made
  BY <1>1, <1>3
<1>6. CASE m.role = "tool" /\ m.text # ""
  <2>1. T = S \cup {n} /\ history'[n].made = m.made
    BY <1>1, <1>2, <1>6
  <2>2. SessionOutputs' = SessionOutputs \cup {m.made}
    BY <1>4, <1>5, <2>1
  <2> QED
    BY <1>6, <2>2
<1>7. CASE ~(m.role = "tool" /\ m.text # "")
  <2>1. T = S
    BY <1>2, <1>7
  <2>2. SessionOutputs' = SessionOutputs
    BY <1>4, <1>5, <2>1
  <2> QED
    BY <1>7, <2>2
<1> QED
  BY <1>6, <1>7

\* What a prompt is fed when it is made: every call with an output, and no other.
LEMMA FedIsOutputs ==
    ASSUME TypeOK, HistoryInv, PromptInv, ToolOutputsReachAnswer, pc = "asking"
    PROVE  {history[i].made : i \in prompt.parts} = SessionOutputs
<1> DEFINE S == {j \in DOMAIN history : IsToolOutput(history, j)}
<1>1. prompt.parts \subseteq S
  BY DEF PromptInv, ExtractToolMessages, Eligible
<1>2. \A i \in S : \E j \in prompt.parts : history[j].made = history[i].made
  BY DEF ToolOutputsReachAnswer
<1>3. SessionOutputs = {history[i].made : i \in S}
  BY DEF SessionOutputs
<1> HIDE DEF S
<1> QED
  BY <1>1, <1>2, <1>3

\* What KeepsSession reads of the history and the prompt stays with them.
LEMMA SameSession ==
    /\ history' = history => Question' = Question /\ SessionOutputs' = SessionOutputs
    /\ history' = history /\ prompt' = prompt => SessionWork' = SessionWork
    /\ pending' = pending => SessionCalls' = SessionCalls
  BY DEF Question, SessionOutputs, SessionWork, SessionCalls

\* The agent works on a question exactly while one waits and was sent to it.
WorkInv ==
    /\ pc = "client" => prompt = NoPrompt
    /\ pc # "client" => open

\* No prompt is no work, now and after a step.
LEMMA NoWorkIdle == prompt = NoPrompt => SessionWork = Session!NoWork
<1>1. {history[i].made : i \in {}} = {}
  OBVIOUS
<1>2. prompt = NoPrompt => prompt.q = "" /\ prompt.parts = {}
  <2>1. NoPrompt.q = "" /\ NoPrompt.parts = {}
    BY DEF NoPrompt
  <2> QED
    BY <2>1
<1> QED
  BY <1>1, <1>2 DEF SessionWork, Session!NoWork

LEMMA NoWorkNext == prompt' = NoPrompt => SessionWork' = Session!NoWork
<1>1. (prompt = NoPrompt)' => (SessionWork = Session!NoWork)'
  BY NoWorkIdle, PTL
<1> QED
  BY <1>1 DEF NoPrompt, Session!NoWork

\* While the agent works, it works with every output there is.
FedInv == pc = "asking" => {history[i].made : i \in prompt.parts} = SessionOutputs
LEMMA FedNow == IInv => FedInv
  BY OutputsKept, FedIsOutputs DEF IInv, FedInv
LEMMA FedNext == IInv' => FedInv'
  BY FedNow, PTL

\* The work names messages that are there, and those stay where they are.
LEMMA WorkOfLonger ==
    ASSUME TypeOK, NEW m \in Messages, history' = Append(history, m), prompt' = prompt
    PROVE  SessionWork' = SessionWork
<1>1. prompt.parts \subseteq DOMAIN history /\ \A i \in DOMAIN history : history'[i] = history[i]
  <2>1. history \in Seq(Messages)
    BY DEF TypeOK
  <2>2. \A i \in DOMAIN history : history'[i] = history[i]
    BY <2>1, Appended
  <2> QED
    BY <2>2 DEF TypeOK
<1>2. {history'[i].made : i \in prompt.parts} = {history[i].made : i \in prompt.parts}
  BY <1>1
<1> QED
  BY <1>2 DEF SessionWork

\* Every step leads the conversation on as a session would, or is no step of it.
LEMMA SessionStep ==
    ASSUME IInv, IInv', WorkInv, [Next]_vars
    PROVE  [Session!Next]_(Session!vars)
<1>0. TypeOK /\ HistoryInv
  BY DEF IInv
<1>1. ASSUME NEW q \in Questions \cup {""}, Ask(q) PROVE Session!Say(q)
  <2> DEFINE m == UserMessage(q)
  <2>1. m \in Messages /\ m.role = "user" /\ m.text = q
    BY DEF Messages, UserMessage, Message, NoId, Ids
  <2>2. /\ history' = Append(history, m) /\ ~open /\ open' = TRUE
        /\ pending' = pending /\ prompt' = prompt /\ style' = style
    BY <1>1 DEF Ask
  <2> HIDE DEF m
  <2>3. Question' = IF q = "" THEN Question ELSE q
    BY <1>0, <2>1, <2>2, QuestionOfLonger
  <2>4. SessionOutputs' = SessionOutputs
    BY <1>0, <2>1, <2>2, OutputsOfLonger
  <2>5. SessionWork' = SessionWork /\ SessionCalls' = SessionCalls
    BY <1>0, <2>1, <2>2, WorkOfLonger, SameSession
  <2> QED
    BY <2>2, <2>3, <2>4, <2>5 DEF Session!Say
<1>2. ASSUME NEW c \in pending, NEW text \in {"", "text"}, RunTool(c, text)
      PROVE  [Session!Next]_(Session!vars)
  <2> DEFINE m == Message("tool", text, {}, {}, IF form = "unnumbered" THEN NoId ELSE c.id, c.made)
  <2>1. m \in Messages /\ m.role = "tool" /\ m.text = text /\ m.made = c.made
    BY <1>0 DEF TypeOK, Calls, Messages, Message, NoId, Ids
  <2>2. history' = Append(history, m) /\ UNCHANGED <<open, pending, prompt, style>>
    BY <1>2 DEF RunTool
  <2> HIDE DEF m
  <2>3. Question' = Question
    BY <1>0, <2>1, <2>2, QuestionOfLonger
  <2>4. SessionOutputs' = IF text = "" THEN SessionOutputs ELSE SessionOutputs \cup {c.made}
    BY <1>0, <2>1, <2>2, OutputsOfLonger
  <2>5. SessionWork' = SessionWork /\ SessionCalls' = SessionCalls
    BY <1>0, <2>1, <2>2, WorkOfLonger, SameSession
  <2>6. CASE text = ""
    BY <2>2, <2>3, <2>4, <2>5, <2>6 DEF Session!vars
  <2>7. CASE text # ""
    <3>1. Session!Output(c.made)
      BY <2>2, <2>3, <2>4, <2>5, <2>7 DEF Session!Output
    <3>2. [name |-> c.made, query |-> c.query] \in SessionCalls
      BY DEF SessionCalls
    <3>3. [name |-> c.made, query |-> c.query].name = c.made
      OBVIOUS
    <3> QED
      BY <3>1, <3>2, <3>3 DEF Session!Next
  <2> QED
    BY <2>6, <2>7
<1>3. ASSUME NEW r, Refuse(r) PROVE Session!Settle
  <2>1. /\ open /\ ~open' /\ open' = FALSE /\ pending' = {} /\ history' = history /\ prompt' = prompt
        /\ pc = "client" /\ style' = style
    BY <1>3 DEF Refuse, Sends, Settle
  <2>2. prompt' = NoPrompt
    BY <2>1 DEF WorkInv
  <2>3. SessionWork' = Session!NoWork
    BY <2>2, NoWorkNext
  <2>4. SessionCalls' = {}
    BY <2>1 DEF SessionCalls
  <2> QED
    BY <2>1, <2>3, <2>4, SameSession DEF Session!Settle
<1>4. ASSUME NEW r \in Requests, ReturnCalls(r) PROVE Session!AskForCalls
  <2> DEFINE made == PlanToolCall(r, Question)
             m == Message("assistant", "", VisibleIds(made), made, NoId, NoId)
  <2>1. /\ made # {} /\ pending' = made /\ history' = Append(history, m) /\ prompt' = prompt
        /\ open /\ open' = open /\ pc = "client" /\ Question # "" /\ style' = style
        /\ (pending # {} /\ style = "ends" => r.tools = <<>> \/ r.choice = "none")
    BY <1>4 DEF ReturnCalls, Sends, Accepted
  <2>2. made \subseteq Calls /\ \A c \in made : c.query = Question
    BY <1>0, <1>4, AskedQuestion, PlannedCalls DEF ReturnCalls
  <2>9. style = "keeps" \/ SessionCalls = {}
    <3>1. style # "keeps" => style = "ends"
      BY <1>0 DEF TypeOK, Styles
    <3>2. style = "ends" => pending = {}
      BY <2>1, FollowUpGetsNoCalls
    <3> QED
      BY <3>1, <3>2 DEF SessionCalls
  <2> HIDE DEF made
  <2>3. m \in Messages /\ m.role = "assistant"
    <3>1. VisibleIds(made) \subseteq Ids
      <4>1. NoId \in Ids /\ \A c \in made : c.id \in Ids
        BY <2>2 DEF NoId, Ids, Calls
      <4> QED
        BY <1>0, <4>1 DEF VisibleIds, TypeOK, Forms
    <3> QED
      BY <2>2, <3>1 DEF Message, Messages, NoId, Ids
  <2> HIDE DEF m
  <2>4. Question' = Question /\ SessionOutputs' = SessionOutputs /\ SessionWork' = SessionWork
    BY <1>0, <2>1, <2>3, QuestionOfLonger, OutputsOfLonger, WorkOfLonger
  <2>5. SessionWork = Session!NoWork
    BY <2>1, NoWorkIdle DEF WorkInv
  <2>6. SessionCalls' = {[name |-> c.made, query |-> c.query] : c \in made}
    BY <2>1 DEF SessionCalls
  <2>7. SessionCalls' # {}
    BY <2>1, <2>6
  <2>8. SessionCalls' \subseteq [name : Ids, query : {Question}]
    <3>1. \A c \in made : c.made \in Ids
      BY <2>2 DEF Calls
    <3> QED
      BY <2>2, <2>6, <3>1
  <2> QED
    BY <2>1, <2>4, <2>5, <2>7, <2>8, <2>9 DEF Session!AskForCalls
<1>5. ASSUME NEW r \in Requests, BeginAsk(r) PROVE Session!Begin
  <2>1. /\ open /\ open' = open /\ pc = "client" /\ pc' = "asking" /\ Question # ""
        /\ history' = history /\ pending' = pending /\ style' = style
        /\ prompt' = [q |-> Question, parts |-> ToolContents]
    BY <1>5 DEF BeginAsk, Sends, Accepted
  <2>2. SessionWork = Session!NoWork
    BY <2>1, NoWorkIdle DEF WorkInv
  <2>3. {history'[i].made : i \in prompt'.parts} = SessionOutputs'
    BY <2>1, FedNext DEF FedInv
  <2>4. SessionOutputs' = SessionOutputs /\ Question' = Question /\ SessionCalls' = SessionCalls
    BY <2>1, SameSession
  <2>5. prompt'.q = Question
    BY <2>1
  <2>6. SessionWork' = [q |-> Question, fed |-> SessionOutputs]
    BY <2>3, <2>4, <2>5 DEF SessionWork
  <2> QED
    BY <2>1, <2>2, <2>4, <2>6 DEF Session!Begin
<1>6. CASE AskReturns \/ AskFails
  <2> DEFINE m == Message("assistant", "text", {}, {}, NoId, NoId)
  <2>1. m \in Messages /\ m.role = "assistant"
    BY DEF Messages, Message, NoId, Ids
  <2>2. /\ pc # "client" /\ prompt' = NoPrompt /\ open' = FALSE /\ pending' = {} /\ style' = style
        /\ history' = Append(history, m) \/ history' = history
    BY <1>6 DEF AskReturns, AskFails, Settle
  <2> HIDE DEF m
  <2>3. Question' = Question /\ SessionOutputs' = SessionOutputs
    BY <1>0, <2>1, <2>2, QuestionOfLonger, OutputsOfLonger, SameSession
  <2>4. SessionWork' = Session!NoWork
    BY <2>2, NoWorkNext
  <2>5. SessionCalls' = {}
    BY <2>2 DEF SessionCalls
  <2>6. open
    BY <2>2 DEF WorkInv
  <2> QED
    BY <2>2, <2>3, <2>4, <2>5, <2>6 DEF Session!Next, Session!Settle
<1>7. CASE Hangs \/ UNCHANGED vars
  BY <1>7, SameSession DEF Hangs, vars, Session!vars
<1> QED
  BY <1>1, <1>2, <1>3, <1>4, <1>5, <1>6, <1>7
     DEF Next, Request, Handle, RefuseMalformed, RefuseUnanswerable, Session!Next

\* The history a client resends stands for the session the server does not keep, for
\* any client, tools, questions and outputs (extractUserMessage, extractToolMessages,
\* planToolCall).
THEOREM Refinement == Spec => KeepsSession
<1>1. Init => WorkInv /\ Session!Init
  <2> SUFFICES ASSUME Init PROVE WorkInv /\ Session!Init
    OBVIOUS
  <2>1. WorkInv
    BY DEF Init, WorkInv
  <2>2. Question = "" /\ SessionOutputs = {} /\ SessionCalls = {}
    BY DEF Init, Question, ExtractUserMessage, UserTurns, SessionOutputs, SessionCalls
  <2>3. SessionWork = Session!NoWork
    BY NoWorkIdle DEF Init
  <2> QED
    BY <2>1, <2>2, <2>3 DEF Init, Session!Init
<1>2. WorkInv /\ [Next]_vars => WorkInv'
  BY DEF WorkInv, Next, Request, Handle, RefuseMalformed, RefuseUnanswerable, Refuse, Sends, Settle,
      Ask, RunTool, ReturnCalls, BeginAsk, AskReturns, AskFails, Hangs, vars
<1>3. IInv /\ IInv' /\ WorkInv /\ [Next]_vars => [Session!Next]_(Session!vars)
  BY SessionStep
<1> QED
  BY Inductive, <1>1, <1>2, <1>3, PTL DEF Spec, KeepsSession, Session!Spec
=============================================================================
