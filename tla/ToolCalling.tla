---------------------------- MODULE ToolCalling ----------------------------
(***************************************************************************)
(* Tool calling over POST /v1/chat/completions (internal/api/server.go): a *)
(* client that keeps the conversation and resends it whole, and the        *)
(* handler, which remembers nothing between two requests and reads         *)
(* everything it knows from the messages: the question, the calls it asked *)
(* for earlier and the outputs the client supplies for them.               *)
(*                                                                         *)
(* Abstractions.  A user text is a question, and Named says which tools    *)
(* its words select; a tool output is blank or not; a call id is the clock *)
(* reading and the position it was made from.  A tool without a name is an *)
(* element of Tools that is in no Named[q] and not in FunctionTools: the   *)
(* code skips it in the same places.  The field made of a call and of a    *)
(* tool message is not in the code: it says which call an output is of,    *)
(* which the code has to find out from the ids.                            *)
(***************************************************************************)
EXTENDS Integers, Sequences, FiniteSets

CONSTANTS
    Tools,           \* the tools a request may offer
    FunctionTools,   \* those of type "function"
    ToolLists,       \* the lists of tools a request may carry
    Targets,         \* the tools a tool_choice may name
    Questions,       \* the non-blank user texts
    Named,           \* for each question the tools it names, or whose kind (sql, web) it names
    MaxQuestions,    \* bound: user messages of one conversation
    MaxOutputs,      \* bound: tool messages of one conversation
    MaxRequests      \* bound: requests of a client of style "keeps", which may go on for ever

ASSUME ToolAssumption ==
    /\ FunctionTools \subseteq Tools /\ ToolLists \subseteq Seq(Tools)
    /\ Named \in [Questions -> SUBSET Tools]
    /\ "" \notin Questions /\ "text" \notin Questions
    /\ Targets \subseteq Tools /\ {"auto", "none", "required"} \cap Tools = {}
    /\ MaxQuestions \in Nat /\ MaxOutputs \in Nat /\ MaxRequests \in Nat

VARIABLES
    pc,         \* "client"; "asking" while the agent works, "hanging" when it never may end
    form,       \* how this client writes tool calls back into the conversation
    style,      \* whether this client's follow-ups allow more calls
    history,    \* the messages of the conversation
    choice,     \* tool_choice of the request being asked, or just answered with calls
    prompt,     \* the question and the tool messages Service.Ask works on
    requests,   \* requests sent: the clock the call ids are made from
    open,       \* a question waits for its answer or an error
    pending     \* the calls of the last response, for the client to run

vars == <<pc, form, style, history, choice, prompt, requests, open, pending>>

Forms == {"standard", "nested", "unnumbered"}
Styles == {"keeps", "ends"}
\* A missing tool_choice, or one parseToolChoice does not understand, is "auto".
Choices == {"auto", "none", "required"} \cup Targets
NoId == <<0, 0>>
Ids == Nat \X Nat
Calls == [tool : Tools, query : Questions, id : Ids, made : Ids]
Requests == [tools : ToolLists, choice : Choices]
NoPrompt == [q |-> "", parts |-> {}]

\* A message.  ids are the call ids the server finds in an assistant message, calls
\* what the client holds there; id is tool_call_id, made the call the output is of.
Message(role, text, ids, calls, id, made) ==
    [role |-> role, text |-> text, ids |-> ids, calls |-> calls, id |-> id, made |-> made]
Messages == [role : {"user", "assistant", "tool"}, text : Questions \cup {"", "text"},
             ids : SUBSET Ids, calls : SUBSET Calls, id : Ids, made : Ids]
UserMessage(text) == Message("user", text, {}, {}, NoId, NoId)

IsToolOutput(h, i) == h[i].role = "tool" /\ h[i].text # ""

-----------------------------------------------------------------------------
(* What the handler reads from the messages.                               *)

\* extractUserMessage: the last user message that is not blank.
UserTurnsAndBlanks(h) == {i \in DOMAIN h : h[i].role = "user"}
UserTurns(h) == {i \in DOMAIN h : h[i].role = "user" /\ h[i].text # ""}
Last(S) == CHOOSE i \in S : \A j \in S : j <= i
ExtractUserMessage(h) == IF UserTurns(h) = {} THEN "" ELSE h[Last(UserTurns(h))].text

\* hasAssistantToolCalls, and the ids extractAssistantToolCalls finds.
HasAssistantToolCalls(h) == \E i \in DOMAIN h : h[i].role = "assistant" /\ h[i].ids # {}
AssistantToolIDs(h) == (UNION {h[i].ids : i \in {j \in DOMAIN h : h[j].role = "assistant"}}) \ {NoId}

\* The tool messages extractToolMessages looks at: blank ones are skipped, and
\* foreign ones, when the calls of the conversation are known.
Eligible(h) ==
    LET known == AssistantToolIDs(h)
    IN  {i \in DOMAIN h : IsToolOutput(h, i) /\ (h[i].id = NoId \/ known = {} \/ h[i].id \in known)}

\* An earlier message of S already answered the call with this id.
Repeats(h, S, i) == h[i].id # NoId /\ \E j \in S : j < i /\ h[j].id = h[i].id

\* extractToolMessages: the positions of the messages it keeps.
ExtractToolMessages(h) == LET S == Eligible(h) IN {i \in S : ~Repeats(h, S, i)}

-----------------------------------------------------------------------------
(* Planning tool calls.                                                    *)

\* parseToolChoice: a function target is a required choice with a name.
ChoiceType(c) == IF c \in Tools THEN "required" ELSE c
ChoiceName(c) == IF c \in Tools THEN {c} ELSE {}

\* The first tool of the list that is in S, as a set of at most one position.
FirstIn(tools, S) ==
    {i \in DOMAIN tools : tools[i] \in S /\ \A j \in 1 .. i - 1 : tools[j] \notin S}

\* selectTool: by the name asked for, by the words of the question, or, when a
\* call is required, the first function tool.
SelectTool(r, q) ==
    IF ChoiceName(r.choice) # {} THEN FirstIn(r.tools, ChoiceName(r.choice) \cap FunctionTools)
    ELSE IF FirstIn(r.tools, Named[q]) # {} THEN FirstIn(r.tools, Named[q])
    ELSE IF ChoiceType(r.choice) = "required" THEN FirstIn(r.tools, FunctionTools)
    ELSE {}

CallIdFromClock(i) == <<requests, 1>>
CallIdTooEarly(i) == <<requests - 1, i>>
\* The id of the call for the tool at position i, from the clock and the position.
CallId(i) == <<requests, i>>

\* The calls for the tools at these positions; the question is their argument.
MakeCalls(tools, S, q) ==
    {[tool |-> tools[i], query |-> q, id |-> CallId(i), made |-> <<requests, i>>] : i \in S}

PlanToolCallDespiteNone(r, q) == MakeCalls(r.tools, SelectTool(r, q), q)
\* planToolCall: one call for the selected tool; for a required choice without a
\* name one for every function tool of a longer list.
PlanToolCall(r, q) ==
    LET functions == {i \in DOMAIN r.tools : r.tools[i] \in FunctionTools}
        everyTool == /\ ChoiceType(r.choice) = "required" /\ ChoiceName(r.choice) = {}
                     /\ Len(r.tools) > 1 /\ functions # {}
    IN  IF ChoiceType(r.choice) = "none" \/ SelectTool(r, q) = {} THEN {}
        ELSE MakeCalls(r.tools, IF everyTool THEN functions ELSE SelectTool(r, q), q)

RequiresToolCallOfList(r) == ChoiceType(r.choice) = "required" /\ r.tools # <<>>
\* requiresToolCall: also for an empty list and for a name that is not in it.
RequiresToolCall(r) == ChoiceType(r.choice) = "required"

-----------------------------------------------------------------------------
(* The client.                                                             *)

Count(role) == Cardinality({i \in DOMAIN history : history[i].role = role})

Init ==
    /\ pc = "client" /\ form \in Forms /\ style \in Styles
    /\ history = <<>> /\ choice = "auto" /\ prompt = NoPrompt
    /\ requests = 0 /\ open = FALSE /\ pending = {}

\* The user says something, possibly nothing but blanks.
Ask(q) ==
    /\ pc = "client" /\ ~open /\ Count("user") < MaxQuestions
    /\ history' = Append(history, UserMessage(q))
    /\ open' = TRUE
    /\ UNCHANGED <<pc, form, style, choice, prompt, requests, pending>>

\* The client runs a call and adds its output; it may be blank, and a call may be
\* run twice or not at all.
RunTool(c, text) ==
    /\ pc = "client" /\ Count("tool") < MaxOutputs
    /\ LET id == IF form = "unnumbered" THEN NoId ELSE c.id
       IN  history' = Append(history, Message("tool", text, {}, {}, id, c.made))
    /\ choice' = "auto"
    /\ UNCHANGED <<pc, form, style, prompt, requests, open, pending>>

\* The client sends the conversation and waits.  One of style "ends" follows up
\* without tools or with tool_choice none, the other one with any request.
Sends(r) ==
    /\ pc = "client" /\ open
    /\ requests < IF style = "keeps" THEN MaxRequests ELSE 2 * MaxQuestions
    /\ pending # {} /\ style = "ends" => r.tools = <<>> \/ r.choice = "none"
    /\ requests' = requests + 1

\* The question has its answer or an error.
Settle == open' = FALSE /\ choice' = "auto" /\ pending' = {}

-----------------------------------------------------------------------------
(* The handler, handleChatCompletions: its checks in their order.  Nothing *)
(* else moves while a request is checked, so sending it and the decision   *)
(* are one step.                                                           *)

Question == ExtractUserMessage(history)
ToolContents == ExtractToolMessages(history)
MissingOutputs == HasAssistantToolCalls(history) /\ ToolContents = {}
Accepted == Question # "" /\ ~MissingOutputs

\* 400 before anything is asked of the agent; also for a request that is no POST
\* of a JSON body with messages and a model.
Refuse(r) ==
    /\ Sends(r)
    /\ Settle
    /\ UNCHANGED <<pc, form, style, history, prompt>>
RefuseUnanswerable(r) ==
    /\ Refuse(r)
    /\ Accepted => RequiresToolCall(r) /\ PlanToolCall(r, Question) = {}
RefuseMalformed == Refuse([tools |-> <<>>, choice |-> "auto"])

\* What an assistant message with calls shows the server when it comes back: the
\* request type has no tool_calls field, so the form this server itself answers
\* with is lost and only calls inside the content are seen.
VisibleIds(calls) ==
    CASE form = "standard" -> {}
      [] form = "nested" -> {c.id : c \in calls}
      [] form = "unnumbered" -> {NoId : c \in calls}

\* finish_reason tool_calls; the client adds the message to the conversation.
ReturnCalls(r) ==
    /\ Sends(r) /\ Accepted
    /\ LET calls == PlanToolCall(r, Question)
       IN  /\ calls # {} /\ pending' = calls
           /\ history' = Append(history, Message("assistant", "", VisibleIds(calls), calls, NoId, NoId))
    /\ choice' = r.choice
    /\ UNCHANGED <<pc, form, style, prompt, open>>

\* No call to return: the question goes to Service.Ask or AskStream with the outputs.
BeginAsk(r) ==
    /\ Sends(r) /\ Accepted
    /\ ~RequiresToolCall(r) /\ PlanToolCall(r, Question) = {}
    /\ prompt' = [q |-> Question, parts |-> ToolContents]
    /\ pc' = "asking" /\ choice' = r.choice
    /\ UNCHANGED <<form, style, history, open, pending>>

\* A call inside Service.Ask gets no answer and nothing bounds it: the retrieval of a
\* direct fallback runs on the request's context.  It may still end one day.
Hangs ==
    /\ pc = "asking" /\ pc' = "hanging"
    /\ UNCHANGED <<form, style, history, choice, prompt, requests, open, pending>>

\* The agent answers and the client adds the answer to the conversation.
AskReturns ==
    /\ pc # "client"
    /\ history' = Append(history, Message("assistant", "text", {}, {}, NoId, NoId))
    /\ pc' = "client" /\ prompt' = NoPrompt /\ Settle
    /\ UNCHANGED <<form, style, requests>>

\* The agent fails: 400.
AskFails ==
    /\ pc # "client"
    /\ pc' = "client" /\ prompt' = NoPrompt /\ Settle
    /\ UNCHANGED <<form, style, history, requests>>

Request ==
    \/ RefuseMalformed
    \/ \E r \in Requests : RefuseUnanswerable(r) \/ ReturnCalls(r) \/ BeginAsk(r)
Handle == AskReturns \/ AskFails \/ Hangs
Next ==
    \/ \E q \in Questions \cup {""} : Ask(q)
    \/ \E c \in pending, text \in {"", "text"} : RunTool(c, text)
    \/ Request
    \/ Handle

\* A client with an open question sends its request, and Service.Ask ends or comes to
\* hang; of one that hangs nothing is assumed.
Fairness == WF_vars(Request) /\ WF_vars(pc = "asking" /\ Handle)
Spec == Init /\ [][Next]_vars /\ Fairness

-----------------------------------------------------------------------------
(* Properties.                                                             *)

\* The state has its types; the parts of a prompt are messages of the conversation.
TypeOK ==
    /\ pc \in {"client", "asking", "hanging"}
    /\ form \in Forms /\ style \in Styles
    /\ history \in Seq(Messages)
    /\ prompt.q \in Questions \cup {""} /\ prompt.parts \subseteq DOMAIN history
    /\ choice \in Choices /\ requests \in Nat /\ open \in BOOLEAN /\ pending \subseteq Calls

\* Every call a client ran to a non-blank output is answered for in the prompt,
\* by its first such output, whatever form the client writes calls in, in whatever
\* order the outputs come and however many calls one response asked for: ids are
\* never shared by two calls, and a kept output is never another one's repeat
\* (CallId, extractToolMessages).
ToolOutputsReachAnswer ==
    pc = "asking" =>
        \A i \in DOMAIN history : IsToolOutput(history, i) =>
            \E j \in prompt.parts :
                /\ IsToolOutput(history, j) /\ j <= i
                /\ history[j].made = history[i].made
                /\ form # "unnumbered" =>
                     \A k \in prompt.parts : history[k].made = history[i].made => k = j

\* A required choice is never downgraded to an ordinary answer, and a named one
\* calls that function and nothing else (planToolCall, requiresToolCall).
RequiredNeverDowngraded ==
    /\ pc = "asking" => ChoiceType(choice) # "required"
    /\ pc = "client" => \A c \in pending : ChoiceName(choice) # {} =>
                            c.tool \in ChoiceName(choice) \cap FunctionTools

\* The rounds of tool calls end: a client whose follow-ups allow no calls sends at most
\* two requests for a question, the second one being answered or refused whatever the
\* first one's calls came to (planToolCall, requiresToolCall).  So the bound of Sends is
\* never what keeps such a client from going on.
TwoRequestsPerQuestion == style = "ends" => requests <= 2 * Count("user")

\* Every question of a client whose follow-ups offer no tools, or forbid calls, is
\* settled by an answer or an error, unless the agent hangs on it in the one place
\* where nothing bounds it: the rounds of tool calls end, and they end the question
\* (planToolCall, requiresToolCall, Ask).
Settles == (open /\ style = "ends") ~> (~open \/ pc = "hanging")

\* docs/SYSTEM_CAPABILITIES.md, 7.2: "Supports follow-up `role=tool` messages feeding
\* final answer generation".  Calls are not returned for a question again once the
\* request carries an output of every call made for it.
FollowUpIsAnswered ==
    LET asked == UNION {history[i].calls : i \in {j \in DOMAIN history : j > Last(UserTurns(history))}}
        earlier == asked \ pending
    IN  pc = "client" /\ pending # {} /\ earlier # {} =>
            \E c \in earlier : \A i \in DOMAIN history : IsToolOutput(history, i) => history[i].made # c.made

\* The session this conversation amounts to.
SessionCalls == {[name |-> c.made, query |-> c.query] : c \in pending}
SessionOutputs == {history[i].made : i \in {j \in DOMAIN history : IsToolOutput(history, j)}}
SessionWork == [q |-> prompt.q, fed |-> {history[i].made : i \in prompt.parts}]
Session == INSTANCE ToolSession WITH
    CallNames <- Ids, question <- Question, again <- (style = "keeps"),
    calls <- SessionCalls, outputs <- SessionOutputs, work <- SessionWork

\* The server keeps nothing and answers like one that keeps a session: from the history
\* a client resends it takes the question asked last, past blank ones, as what the agent
\* works on and as what its calls ask for, and exactly the calls that were run to an
\* output; and a client whose follow-ups allow no calls gets calls once while its question
\* waits (extractUserMessage, extractToolMessages, planToolCall).  A client whose follow-ups
\* do allow calls may be asked again for what it already ran: see FollowUpIsAnswered.
KeepsSession == Session!Spec

=============================================================================
