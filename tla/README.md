# AgentRag: verification project

TLA+ models of the AgentRag server, checked with TLC on small instances and
proved with TLAPS for all values of their constants. The Go sources are under
`src/`; every definition is translated from them and `PROJECT.json` ("map") names
the lines it stands for.

## 1. The system

A Go HTTP server that answers questions over uploaded documents. A request comes
in through `internal/api`, the agent (`internal/agent`) runs it through an Eino
workflow that calls the retriever, the rerank service, SQL and web tools and the
language model, and the answer goes back as JSON or as a stream. Uploads are cut,
summarised, embedded and written to a vector store.

| Component | State it keeps | Operations | Interacts with |
|---|---|---|---|
| agent, `agent/service.go` | none between requests; per request: route, attempt, questions, statistics, candidates, references, answer, grade | `Ask`, `AskStream`, the workflow rewrite → retrieve → rerank → prompt → answer, `grade`, direct answer and its fallback, skills | llm, retriever, rerank, tools, skills |
| ingestion, `ingest/service.go` | none of its own | `IngestFile`: check, cut, summarise, embed, write summary, write chunks | llm, store |
| stores, `store/*.go` | two collections: chunks and summaries, in memory under a mutex or in Qdrant | `EnsureCollections`, upserts, dense, sparse and summary searches, chunks by summary | Qdrant |
| retriever, `retrieval/retriever.go` | none | `DirectChunk`, `SparseChunk`, `Hierarchical`, `SearchSummariesOnly` | llm (embeddings), store |
| rerank client, `rerank/client.go` | none | `Rerank`, with a cut by score when not configured | external service |
| tools, `tools/*.go` | none | SQL query, web search | database, search API |
| llm client, `llm/client.go` | none | `Chat`, `ChatStream`, `Embed`; a mock | model service |
| API, `api/server.go` | none between requests | upload, ask, ask stream, OpenAI chat completions with tool calls, SSE writers | agent, ingestion |
| skills, `skills/registry.go` | skills read at start | `Get`, `SelectByQuestion` | agent |
| configuration, `config/config.go` | layered settings read at start | `Load`, `validate` | all |
| process, `cmd/server/main.go` | the running server | start, ensure collections, serve, end | all |
| observability, `obs/logger.go` | none another part reads | logging, tracing | all |

What is hard in it:

- *Ask.* Two hand-kept copies of one retry loop (`Ask`, `AskStream`) with
  different acceptance rules; a fallback out of the direct route in three places;
  errors of single retrieval options swallowed; a deadline that covers some calls
  and not others; statistics per attempt, caps documented per request.
- *Uploads and searches.* Two writes without a transaction, chunk ids that do not
  depend on the chunk size, answers that may be lost, writes that may be applied
  after their sender died, and searches of two reads while all this goes on.
- *Tool calling, streams.* A stateless multi-turn protocol; streams that must be
  closed on every way out.
- *Configuration, skills.* Layers whose order decides; choices by map iteration.

What makes each component right: an ask ends, keeps its budgets, tries local
sources before paid ones, cites what its answer was made from and does not lose an
answer or a hit it has; an acknowledged upload is stored whole and found; a store
never holds a document the hierarchical search cannot reach; a tool-call
conversation ends in an answer; a stream is closed and its end is visible; the more
specific and the later configuration layer wins. `PROJECT.json` ("hazards") lists
where each of these could go wrong, at its line.

## 2. The modules

| Module | What it is |
|---|---|
| `RouteOptions` | routes and the retrieval options each tries (data only) |
| `AskContract` | abstract: tries, verdicts, an answer or a failure |
| `AskWorkflow` | one request through `Ask` or `AskStream` |
| `MCAskWorkflow`, `Ask*.cfg` | instances for TLC |
| `AskWorkflow_proofs`, `AskSearch_proofs`, `AskContract_proofs` | theorems about `AskWorkflow`: its invariants; its retrieval and its progress; its contract |
| `DocumentSet` | abstract: documents enter whole and are then acknowledged; a search finds what was acknowledged when it began |
| `IngestStore` | uploads and hierarchical searches against the store of a server that crashes and restarts |
| `MCIngestStore`, `Ingest*.cfg` | instances for TLC |
| `IngestStore_proofs` | theorems about `IngestStore` |
| `ToolSession` | abstract: a conversation led by a server that remembers its calls and their outputs |
| `ToolCalling` | a client of `/v1/chat/completions` and the handler, over a conversation |
| `MCToolCalling`, `Tool*.cfg` | instances for TLC |
| `ToolCalling_proofs` | theorems about `ToolCalling` |
| `TextChannel` | abstract: a text shown piece by piece, and called complete when it is |
| `StreamPump`, `StreamPump.cfg` | one streamed response between the model, the client and the end of the process |
| `StreamPump_proofs` | theorems about `StreamPump` |
| `ConfigLayers` | `config.Load`: files, environment, `validate` |
| `Splitter` | `splitByRunes` |
| `ConfiguredSplit` | composes the two: a process that loads its configuration and cuts a text with it |
| `MCConfiguredSplit`, `Config*.cfg` | instances for TLC |
| `ConfiguredSplit_proofs` | theorems about `ConfiguredSplit` |

An operator named for what is wrong with it (`CapReachedLate`,
`SameIdWithoutDocument`, ...) stands before the operator it is a wrong version of.
No specification uses it: the "mutants" of `PROJECT.json` put it in the place of
the right one, and TLC then finds the property named there violated. Each property
is so shown to depend on the code it is about.

### AskWorkflow

State. `pc` is the point of the handler; `mode` tells `Ask` from `AskStream`;
`route`, `attempt`, `current`, `rewritten`, `cands`, `refs`, `grade` are the
variables of the code with those names; `sub`, `opt`, `stages`, `best`, `ext` are
those of `retrieveForPlannedSubQueries` and `retrieveByRouteWithFallback`;
`expiredAt` is the state of `ctxOrch`. `total`, `judged` and `sawHit` are history.

Actions. `UseSkill`, `SkillAnswer`: the skill path. `ForceRoute`, `SelectRoute`:
the route. `DirectAnswer`, `DirectGrade`, `FallbackAnswer`, `DirectStream`: the
direct route and its fallback. `Plan`: sub-queries, and the deadline is armed.
`Rewrite`, `Fuse`, `Rerank`, `BuildPrompt`, `Answer`, `Grade`: the workflow and the
grade. `SearchByRoute`, `SkipOption`, `OptionFails`, `OptionReturns`, `Collect`:
one option of one sub-query. `AcceptAttempt`, `RetryAttempt`, `OpenStream`: the end
of an attempt. `Expire`: the deadline passes. Every call to another system may
return anything its type allows, or fail.

Data. A candidate is its chunk id, a question the number of the attempt that
rewrote it, an answer its ordinal with the prompt it was generated from, a score a
small integer. Where the code cuts a list by score, any cut of that size is
possible, so nothing proved depends on scores.

### IngestStore

State. `server` and `size` are the process and its `CHUNK_SIZE`; `cols`,
`summaries`, `rows` the store; `wire` the writes sent to a remote store and not yet
applied; `up`, `doc` the uploads; `find`, `todo`, `hits` the searches. `acked`,
`seen`, `room` are history. A chunk row is its id (document, index) and the size
its text was cut with: `Upsert` replaces by id, as both stores do.

Actions. `Start`, `EnsureCollection`, `EnsureFails`, `Serve`, `Crash`: `main`.
`Prepare`, `UpsertSummaries`, `UpsertChunks`, `Acknowledged`, `WriteFails`:
`IngestFile`. `StoreApplies`: the remote store, modelled from how the client uses
it (upserts with `Wait`). `SearchSummaries`, `GetChunksBySummaryIDs`, `RankChunks`,
`SearchFails`: `Retriever.Hierarchical`, whose reads of a remote store are one call
for the summaries and one for each summary hit. With a memory store a write is
applied and answered in one step and is lost with the process.

Left out: vectors and scores (any cut is possible), metadata filters (only
searches without one are modelled), the text of summaries (an upsert of the same id replaces it), and a
second server on the same store.

### ToolCalling

State. The server keeps nothing between requests, so the state is the client's:
`history` is the conversation it resends whole, `pending` the calls of the last
response, `open` whether its question waits, `form` how it writes assistant calls
back (`tool_calls` beside the content, which the request type of the server does
not read; calls inside the content; calls without ids), `style` whether its
follow-ups still allow calls. `pc`, `choice` and `prompt` are the request in work.
`made` in a call or an output is history: it only says which output is of which call.
It is what `ToolSession` is about: the abstract server knows which calls were run, the
handler has to find out from ids a client may drop, repeat or hide in the content.
Nothing is claimed about two calls being different work: the code may ask for the same
tool and the same question again under a new id, and does (finding 4).

Actions. `Ask`, `RunTool` and `Sends` are the client, which may send blank
questions and blank, repeated, missing or reordered outputs. `RefuseMalformed`,
`RefuseUnanswerable`, `ReturnCalls`, `BeginAsk`: the ways out of
`handleChatCompletions` in the order of its checks; `AskReturns`, `AskFails`, `Hangs`:
what `Service.Ask` does. It hangs where finding 1 says that nothing bounds it, and may
still end later. `ExtractUserMessage`, `ExtractToolMessages`, `SelectTool`,
`PlanToolCall`, `RequiresToolCall` are the functions of those names.

Data. A user text is a question and `Named` gives the tools its words select; a
call id is the clock reading and the position it was made from; the argument of a call
is the question (`query`). Token counts are left out, and so are clients that truncate a
conversation or change how they write calls in the middle of it. Therefore the branch of
`extractToolMessages` that skips outputs of foreign calls is in the model (`Eligible`),
but never skips one here: `NoneIsForeign` proves that, for these clients, it must not.

### StreamPump

State. `pc` is the point of `streamAskResponse`, `streamOpenAIChatCompletions` or
`streamOpenAIToolCallCompletions` (`kind`); `stream` the reader it must close;
`up`, `produced`, `taken` the model's side; `sent`, `seen`, `conn` the connection.

Actions. `OpenStream`, `OpenFails`, `WriteRole`, `WriteCalls`, `Recv`, `RecvEof`,
`RecvError`, `WriteToken`, `WriteEnd`: the writers, every return of which closes the
stream (`defer`). `Produce`, `EndOfModel`: the model; `ClientReads`, `ClientLeaves`:
the client, to which a write may fail or be swallowed once it is gone; `Kill`: the
end of the process ten seconds after a signal. A write blocks when `Window` events
are unread. The branch for a connection that cannot flush is left out: every
response writer of `net/http` can, and nothing wraps it.

### ConfigLayers, Splitter, ConfiguredSplit

`ConfigLayers` has the steps of `Load` as actions (`ReadFiles`, `ApplyFiles`,
`ApplyEnv`, `Validate`) on `input` (the files and the environment of this start),
`fileKV` and `cfg`; any of them may refuse, and `main` then panics. Six keys stand
for all: the three API keys, which overwrite each other in `toCanonicalKV` and in
`applyKV`, `USE_OPENAI`, which makes `validate` ask for them, and the two sizes. The
other keys are read, merged and applied like the sizes; the base URLs like the API
keys. `Places` lists for each key where in a file it is read from, in the order of
the assignments.

`Splitter` is the loop of `splitByRunes`: `BeginCut` its checks, `Cut` one turn. A
rune is a position that is white space or not; a chunk is where its window began and the
first and the last rune that trimming the window left (`Chunk`). `ConfiguredSplit`
lets a loaded process cut one text with the sizes it has.

## 3. The runs

| Run | Result | What it shows |
|---|---|---|
| `ask_safety` | holds | nine invariants of `Ask` and `AskStream`, and that every step moves on (below) |
| `ask_promise` | holds | `AskWorkflow` implements `AskContract`; every request ends, or hangs for ever in the retrieval of a direct fallback |
| `ask_fallback_hang` | violated | finding 1 |
| `ask_external_cap` | violated | finding 2 |
| `ask_rewrite_unused` | violated | finding 3 |
| `ingest_remote` | holds | uploads and searches on Qdrant: five invariants, and `DocumentSet` is implemented |
| `ingest_memory` | holds | the same on the memory store |
| `tool_calls` | holds | outputs reach the answer, required choices, `ToolSession` is implemented, every question of a client that ends its rounds takes two requests at most and is settled, or hangs as in finding 1 |
| `tool_follow_up` | violated | finding 4 |
| `stream_pump` | holds | a stream that looks complete is; what was read is a prefix; `TextChannel` is implemented; the model's stream is released |
| `config_split` | holds | order of the layers; a cut loses no phrase, repeats no more than the overlap and ends |
| `config_specific_key` | violated | finding 5 |

`ask_safety`: `ResponseMatchesAnswer` (references, route and question of a response
are those of the prompt of its answer), `ExternalBudget` (the cap within attempts
and what it amounts to over a request), `LocalFirst`, `NeverExhausted` (the error
after the loop is dead code, thanks to the direct short-cut), `HitsReachPrompt` (when
any option of an attempt returned a candidate, the prompt is not built without any;
which ones it is built with is up to fusion, cut and rerank),
`AskDeliversGradedAnswer`, `FallbackKeepsAnswer`, `DeadlineSpansAttempts`, `TypeOK`.
`MovesOn` orders the points of a request by attempt, phase, sub-query and option;
every step but the expiry of the deadline goes up in that finite order, whatever
the calls return. It is the part of termination that needs no fairness.

`ingest_*`: `ChunkHasSummary` (no chunks a hierarchical search cannot reach),
`TextIsWhole` (re-uploads with another chunk size may leave chunks of the old cut
behind, but never a hole), `AckedIsStored`, `SearchFindsAcked` (a search that is
not short of room finds what was acknowledged before its first read),
`KeepsPromise` (uploads and searches together behave like a set of documents that is
read at once: an answer names no document that is only half there and, with room,
leaves out none that was acknowledged when it began).

`tool_calls`: `ToolOutputsReachAnswer` (every call a client ran to a usable output
is answered for in the prompt, once, by its first output), `RequiredNeverDowngraded`
(a required choice ends in calls or an error; a named one in that call only),
`TwoRequestsPerQuestion` (the rounds of a client whose follow-ups allow no calls end
with its second request), `KeepsSession` (the answer is made from the question asked
last and from exactly the calls run to an output, calls ask for that question, and a
client whose follow-ups allow no calls gets them once while its question waits),
`Settles` (each question of such a client has its answer or an error in the end, unless
the agent hangs on it in the retrieval of a direct fallback).

`stream_pump`: `DoneMeansComplete` (a client that saw the end marker has every piece
of a stream that ended without error), `SeenIsPrefix` (order, no gap, no
repetition), `DeliversText` (both at once, step by step: the next piece that is not
blank is shown or nothing is, and completion is announced after the last one),
`UpstreamReleased` (the model's stream is closed on every way out; the
exception it names, a client that stays and does not read, is real: the server sets
no write timeout).

`config_split`: `EnvWins` (the documented order of the layers; the order of the places
inside one file is finding 5), `PhrasesKept` (every
phrase of at most `CHUNK_OVERLAP` + 1 runes, from one that is no blank to another, is
whole in a trimmed chunk: the check of the
overlap in `validate` together with the arithmetic of the windows; with an overlap
not below the size, `splitByRunes` drops the overlap and this fails),
`RepeatsOnlyOverlap` (two chunks share at most `CHUNK_OVERLAP` runes and only one has the
end of the text; that a chunk is no part of another cannot be said, since trimming may
leave just the shared runes: `abc   d` with size 3 and overlap 1 gives `abc`, `c`, `d`),
`WindowAdvances` (every turn of the loop begins further on, and
inside the text or it is the last), `CutEnds`.

Bounds. `ask_safety`: three attempts give a first, a middle and a last one; two
sub-queries and a cap of one make sub-queries compete for the budget; two chunks
with TopK 2 and RerankTopM 1 make both cuts happen; MinCandidates 2 makes early stop
happen and not happen; two scores around the threshold. The fallback route `sql`
has local and external options. `ask_promise` has two attempts and one chunk,
since its state graph is also searched for cycles. `ingest_remote`: three uploads
of two documents give two uploads of one document and one of another; one crash
puts a late write of the dead process next to uploads of the next one, with another
chunk size; the long document has three chunks at the small size and two at the
large one, so a re-upload leaves a row of the old cut behind. `ingest_memory`: two
crashes. With TopK 3 a search of both documents has room
when the short one was cut large (two chunks and one) and is cut when it was cut
small (two and two).

`tool_calls`: two questions give outputs of an earlier one beside the calls of a
later one; their texts, one naming a tool and one not, or blank, give a changed
question and a blank one after a real one; three outputs give a repeated and a
missing one, two requests of an unending client a second round; three tools give a
list with and without the tool a question names and a tool that is no function. `stream_pump`: four pieces of three sorts and two unread events, so
that a writer blocks, a blank lies between words, and every end can come before,
between and after them. `config_split`: one family of inputs sets API keys, the
other sizes, each in every layer, with files missing, broken, required or not; sizes
two to five around an overlap up to three on texts of up to six runes cut into one to
five windows. `MinSize` 2 stands for the 100 of `validate`: only being positive
matters, and the theorems hold for any.

Chunk ids, and uploads, are interchangeable in the runs that declare a symmetry;
those runs check invariants, an action property that treats all chunks alike
(`MovesOn`) and, for uploads, an implementation without fairness, for which this is
sound.

Deadlock. A finished request stutters explicitly in `AskWorkflow`. `IngestStore`
stops when the bounded requests are served, a conversation when the client has
nothing left to say, a streamed response when it ended, a process when it refused
its configuration or its text is cut; hence `CHECK_DEADLOCK FALSE` there.

Fairness. `FairSpec` of `AskWorkflow`: every step happens eventually, except those
that wait in a call without a timeout (`MayHang`): the model, rerank and web clients
have an HTTP timeout, the SQL query and Qdrant calls have none and end only with
their context; and the deadline passes eventually (`Expire`), as it is a timer.
`ToolCalling`: a client with an open question sends its request (`Request`) and
`Service.Ask` returns, fails or comes to hang in the retrieval of a direct fallback,
which is what `AskWorkflow` shows (`EndsOrFallbackHangs`); nothing is assumed of an ask
that hangs, and nothing makes a client run tools. `StreamPump`: the writer goes on (`Pump`) and the model's side ends
(`EndOfModel`), as its client has an HTTP timeout; nothing is assumed of whoever
reads, so a client may stall for ever. `ConfiguredSplit`: the process runs.
`IngestStore` makes no fairness assumption and claims no liveness: nothing in the
code makes a remote store answer.

### Findings

1. `ORCHESTRATOR_TIMEOUT_SECONDS` is documented as the total timeout of retrieval
   orchestration; the retrieval of a direct fallback runs on the request's context
   and `QDRANT_TIMEOUT_SECONDS` is never used: a store that does not answer keeps
   the request for ever (`Terminates`).
2. `ORCHESTRATOR_MAX_EXTERNAL_CALLS` is documented per request; its counter is made
   anew in every attempt (`ExternalCapPerRequest`).
3. Queries are documented to be rewritten before retrieval; retrieval searches the
   sub-queries planned from the original question (`RetrievalUsesRewrite`).
4. Follow-up `role=tool` messages are documented to feed the final answer; calls are
   planned from the tools and the question only, so a follow-up that still carries
   its tools is answered with the same calls again (`FollowUpIsAnswered`).
   `ToolOutputsReachAnswer` and `Settles` show what does hold: once a request allows
   no calls, the outputs are all there and the question is settled.
5. The shared API key is documented as a fallback; in a file, `llm.openai_api_key` is
   assigned after `llm.openai_llm_api_key` to the same key and replaces it, even when
   blank (`SpecificKeyWins`). The embedding key has the same order of places.

Not counted as a finding: `AskStream` grades only attempts before the last, so the
last one is delivered ungraded; `AskDeliversGradedAnswer` is therefore about `Ask`.

## 4. The proofs

All theorems hold for every value of the constants that satisfies the named
assumption of the module: `ConfigAssumption` (what `config.validate` leaves
possible), `StoreAssumption` (a text that was accepted gives at least one chunk;
TopK is positive; finitely many documents), `ToolAssumption` (the words of
`tool_choice` are no names of tools), `PumpAssumption` (a window that holds at least
one event), `InputsAssumption`, `SizesAssumption` and `MaxLenAssumption` (files and
environment give each key values of the kinds the code tells apart, malformed and
blank ones included; the least chunk size is positive).

`AskWorkflow_proofs`: `TypeCorrect`, `LoopNeverExhausted`, `BudgetKept`,
`ResponseIsConsistent`, `DeadlineSpans`, `AskGraded`, `FallbackSafe`, all from
`Inductive`. None of the invariants is inductive alone: what a response reports is
right because of what held when its prompt was built. The inductive invariant
therefore adds, per control point, who runs the retrieval and which routes and
attempts are possible there (`ControlInv`), how the budget used so far splits into
earlier attempts and this one (`BudgetInv`), that prompt, references and answer
agree from the moment each is made (`TextInv`), that an expired deadline lets the
loop get no further than the next rewrite (`DeadlineInv`), and that the answer under
decision is graded (`GradeInv`).

`AskSearch_proofs`: `LocalOptionsFirst`, `HitsKept` and `NoEndlessLoop`. The first rests on
`OrderInv`: while a sub-query is searched, the options executed are those before the
current one, up to tools the cap skipped, and every route lists its local options
before its tools (`LocalsListedFirst`). The second follows a found candidate from
place to place (`HitsInv`); a cut to a positive number of a non-empty finite list is
not empty (`CutKeepsSome`), and a route without options starts from an empty best
result, so it overwrites none. `NoEndlessLoop` (`MovesOn`) needs `PlaceInv`, that
sub-query and option stay within what was planned and listed, since a step that
leaves their range would go up for ever; `MoreProgress` then reduces each action to
the first component of the order it raises. The proof is one case per action.

`AskContract_proofs`: `Refinement` (`AskWorkflow` implements `AskContract`). The
contract speaks of the verdict on a try, the workflow of graded answers; `TriesInv`
connects them: in the loop the answer of an attempt has the attempt's number, it is
graded exactly from the grade on, and a stream opens on an accepted attempt or on the
last one. Each kind of step is then mapped to a step of the contract or a stutter.

`IngestStore_proofs`: `TypeCorrect`, `ChunksHaveSummaries`, `TextStaysWhole`,
`AckedStaysStored`, `SearchIsComplete`, and `Refinement` (`IngestStore` implements
`DocumentSet`), all from `Inductive`. The heart is the lemma `UpsertKeepsText`:
upserting all chunks of a document leaves every document that had all chunks of
some size with such a size, because rows are replaced only within the document
written and that document has its new cut whole. `WireInv` says that an upload waits
for at most one write and that no other write carries its name, so that an answer
tells it something about the store; `ProgressInv` says what. `SearchInv` says that a
search with room has, for each document it must find, its summary still to fetch or
one of its chunks; `FiniteInv` makes cardinalities mean what they should. The
refinement maps the knowledge base to the documents with a summary and all chunks of
one size, and needs the invariant to show that such a set grows by one document at a
time and never shrinks. A search reads the store several times and maps to one step
that answers at its last: `FoundInv` says that every row it has already fetched is
of a document held whole (`RowsAreHeld` when it is fetched, `QuietKeeps` and
`UploadsAdd` while others write), and `SearchInv` that what it owes is among its
rows. A crash maps to `Lose` on a memory store and to the failure of the open
searches on a remote one.

`ToolCalling_proofs`: `TypeCorrect`, `RequiredStands`, `OutputsReachAnswer`,
`RoundsEnd`, and `Refinement` (`ToolCalling` implements `ToolSession`). What
the handler reads depends on what every message was when it was added, so the
invariant speaks of all messages: which ids they carry in each form (`MessageInv`),
that the call of an output is visible when any call is (`KnownInv`), and that a first
output of each call and a last question exist (`FirstInv`, `LastInv`). The last two
replace an induction over the length of the conversation: adding a message keeps
them. From them, no usable output is foreign (`NoneIsForeign`), the first output of a
call repeats none, and every other one repeats it. `RoundsEnd` counts: `RoundsInv`
adds to the requests sent those the waiting question may still need, two before it
has calls and one after, and no step raises the sum above two for each user message.
`Refinement` needs `WorkInv`, that the agent works only on a question that waits;
`FedInv`, which `OutputsReachAnswer` gives: while it works, its prompt has exactly the
outputs of the session; that the calls made carry the question (`PlannedCalls`); and
that a follow-up without tools, or with `tool_choice` none, gets none
(`FollowUpGetsNoCalls`).

`StreamPump_proofs`: `TypeCorrect`, `DoneIsComplete`, `SeenStaysPrefix`, and
`Refinement` (`StreamPump` implements `TextChannel`). None is inductive: events wait in the connection, writes to a client that left may be
swallowed, and the end marker is read long after the stream ended. `OrderInv` says
that token events name received pieces, in order; `GapInv` that while the client is
there everything received is written but the piece in hand, and that in any case a
token comes only after all those before it; `EndInv` that an end marker is the last
event and the whole answer is before it; `RoleInv` and `StateInv` what each control
point knows. For the refinement `TextInv` adds that a token stands for a piece that
is not blank and that a tool-call response has no model's stream; a read of the
client is then mapped by the sort of the event it reads.

`ConfiguredSplit_proofs`: `TypeCorrect`, `EnvironmentWins`, `PhrasesStayWhole`,
`RepeatsLittle`, `CutAdvances`. `ConfigInv` says what each step of `Load` has computed from the
files and the environment, up to the check of sizes and overlap; `CutInv` that the cut
uses the sizes that passed it, that every chunk so far lies in a window that ends no
further than the overlap into the next one and before the text does, and that the windows
of two chunks lie a step or more apart; `PhraseInv` that every phrase that begins
before the next window is whole in a chunk, which holds on because windows advance by
size minus overlap, a positive number after that check. That a trimmed window has a
first and a last rune is an induction over positions, taken from the library as the
well-foundedness of the numbers (`LeastOf`, `GreatestOf`, `ChunkOfWindow`).

Every invariant, action property and refinement the passing runs check is the
statement of a theorem. Only model-checked are the four properties under fairness,
for which the prover has no rules. What is safety in three of them is proved:
`EndsOrFallbackHangs` rests on `MovesOn`, `Settles` on `TwoRequestsPerQuestion`,
`CutEnds` on `WindowAdvances`; what TLC adds is that the steps they count are
taken. `UpstreamReleased` has no such half. The violated properties have
counterexamples, not proofs.

## 5. Plan

Done, in this order: `AskWorkflow` with `AskContract`; `IngestStore` with
`DocumentSet`; `ToolCalling`; `StreamPump`; `ConfigLayers` and `Splitter`, composed;
theorems about each of them; `TextChannel`, `ToolSession` and the searches of
`DocumentSet`, with the refinements, and the progress of each loop.

What is left:

1. The pure algorithms inside candidate lists: reciprocal rank fusion against its
   definition, reference deduplication, indices in a reply of the rerank service.
2. `SkillRegistry`: loading skills and choosing among them, where the order of a map
   decides between equals.
3. `AskStream` composed with `StreamPump`, so that the end of an ask and the end of
   its stream are one behaviour.

Not modelled, and not planned: logging and tracing (no state another part reads),
wire formats and prompts (text without control), the mock model client, token counts, a connection that cannot flush, and numeric
details of BM25 and cosine similarity, whose real-valued results every model here
treats as an arbitrary choice.
