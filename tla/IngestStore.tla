---------------------------- MODULE IngestStore ----------------------------
(***************************************************************************)
(* Uploads and hierarchical searches against the vector store, in a server *)
(* that starts, crashes and starts again, perhaps with another CHUNK_SIZE  *)
(* (internal/ingest/service.go, internal/store, Retriever.Hierarchical,    *)
(* cmd/server/main.go).  The store is the process's own memory, lost with  *)
(* it, or a remote Qdrant: there a write is on the wire until the store    *)
(* applies it, its answer may be lost, and a write whose sender gave up or *)
(* died may still be applied later.                                        *)
(*                                                                         *)
(* Abstractions.  A document is its id, the hash of file name and text     *)
(* (two documents never share one); a chunk is its id (document, index)    *)
(* and the chunk size its text was cut with.  Vectors, scores and the text *)
(* of summaries are left out, searches have no metadata filter, and where *)
(* a list is cut by score, any cut of its size is possible.  A schema      *)
(* refusal is answered in the code by a second upsert of the same ids and  *)
(* payload, which is one write here.                                       *)
(*                                                                         *)
(* An operator named for what is wrong with it (Early, Rest, ...) is a     *)
(* bug the definition after it could have had; no definition uses it, the  *)
(* mutants listed in PROJECT.json do.                                      *)
(***************************************************************************)
EXTENDS Naturals, FiniteSets

CONSTANTS
    Docs,          \* document ids
    Uploads,       \* upload requests
    Searches,      \* hierarchical retrievals
    Sizes,         \* CHUNK_SIZE values the server may be started with
    Pieces,        \* Pieces[d][z]: chunks splitByRunes makes of d at size z
    TopK,          \* RETRIEVAL_TOP_K
    MaxCrashes,    \* bound: crashes of the server
    RemoteStore    \* VECTOR_BACKEND is qdrant

\* A text that passed normalizeText gives at least one chunk.
ASSUME StoreAssumption ==
    /\ Pieces \in [Docs -> [Sizes -> Nat \ {0}]]
    /\ TopK \in Nat \ {0} /\ MaxCrashes \in Nat /\ RemoteStore \in BOOLEAN
    /\ IsFiniteSet(Docs)

Collections == {"chunks", "summaries"}

VARIABLES
    server,      \* "down", "starting" or "up"
    size,        \* s.cfg.ChunkSize of the running process
    cols,        \* collections that exist
    summaries,   \* documents with a summary in the store
    rows,        \* chunk rows in the store
    wire,        \* writes sent to the remote store and not applied
    up,          \* control point of each upload
    doc,         \* document of each upload
    find,        \* control point of each search
    todo,        \* summaries hit whose chunks are still to be fetched
    hits,        \* chunk rows of each search
    crashes,     \* bound: crashes so far
    acked,       \* history: documents whose upload was answered with success
    seen,        \* history: acked when the search read the summaries
    room         \* history: TopK cut nothing from this search

storeVars == <<cols, summaries, rows, wire>>
searchVars == <<find, todo, hits, seen, room>>
vars == <<server, size, storeVars, up, doc, crashes, acked, searchVars>>

RowFromMinusOne(d, i, z) == [doc |-> d, idx |-> i - 1, size |-> z]
Row(d, i, z) == [doc |-> d, idx |-> i, size |-> z]
AllRows == [doc : Docs, idx : Nat, size : Sizes]
\* The chunks of a document cut at size z, ids chk_<doc>_000 onwards.
Whole(d, z) == {Row(d, i, z) : i \in 0 .. Pieces[d][z] - 1}

SameIdWithoutDocument(a, b) == a.idx = b.idx
SameId(a, b) == a.doc = b.doc /\ a.idx = b.idx
\* A row replaces the row with its id, and is added when there is none.
Upsert(old, new) == new \cup {r \in old : \A n \in new : ~SameId(n, r)}

\* A write: the collection it goes to, its document and chunk size, its sender.
Write(c, u) == [col |-> c, doc |-> doc[u], size |-> size, by |-> u]

UpPoints == {"new", "prepared", "summary_sent", "summary_done", "chunks_sent", "ok", "failed", "lost"}
UpRunning == {"prepared", "summary_sent", "summary_done", "chunks_sent"}
FindPoints == {"new", "fetch", "done", "failed"}

Init ==
    /\ server = "down" /\ size \in Sizes /\ cols = {}
    /\ summaries = {} /\ rows = {} /\ wire = {}
    /\ up = [u \in Uploads |-> "new"] /\ doc \in [Uploads -> Docs]
    /\ find = [s \in Searches |-> "new"] /\ todo = [s \in Searches |-> {}]
    /\ hits = [s \in Searches |-> {}]
    /\ crashes = 0 /\ acked = {}
    /\ seen = [s \in Searches |-> {}] /\ room = [s \in Searches |-> TRUE]

-----------------------------------------------------------------------------
(* The process.                                                            *)

\* main loads the configuration.
Start ==
    /\ server = "down"
    /\ server' = "starting" /\ size' \in Sizes
    /\ UNCHANGED <<storeVars, up, doc, crashes, acked, searchVars>>

\* EnsureCollections creates what is missing, one collection after the other.
EnsureCollection(c) ==
    /\ server = "starting" /\ c \notin cols
    /\ c = "summaries" => "chunks" \in cols
    /\ cols' = cols \cup {c}
    /\ UNCHANGED <<server, size, summaries, rows, wire, up, doc, crashes, acked, searchVars>>

\* A call of EnsureCollections fails and the process ends; a failing creation may
\* have been carried out.
EnsureFails ==
    /\ server = "starting" /\ RemoteStore
    /\ cols' \in {cols, cols \cup {IF "chunks" \in cols THEN "summaries" ELSE "chunks"}}
    /\ server' = "down"
    /\ UNCHANGED <<size, summaries, rows, wire, up, doc, crashes, acked, searchVars>>

\* Both collections are there: the process serves.
Serve ==
    /\ server = "starting" /\ cols = Collections
    /\ server' = "up"
    /\ UNCHANGED <<size, storeVars, up, doc, crashes, acked, searchVars>>

\* The process ends, at any point: its requests are lost, and so is a memory store.
Crash ==
    /\ server # "down" /\ crashes < MaxCrashes
    /\ server' = "down" /\ crashes' = crashes + 1
    /\ up' = [u \in Uploads |-> IF up[u] \in UpRunning THEN "lost" ELSE up[u]]
    /\ find' = [s \in Searches |-> IF find[s] = "fetch" THEN "failed" ELSE find[s]]
    /\ IF RemoteStore
       THEN UNCHANGED <<cols, summaries, rows, acked>>
       ELSE cols' = {} /\ summaries' = {} /\ rows' = {} /\ acked' = {}
    /\ UNCHANGED <<size, wire, doc, todo, hits, seen, room>>

-----------------------------------------------------------------------------
(* Uploads: Service.IngestFile.                                            *)

\* Up to the first write: the text is checked, cut, summarised and embedded.
\* A refused file and a failing model call are an error; nothing shared is touched.
Prepare(u) ==
    /\ server = "up" /\ up[u] = "new"
    /\ up' = [up EXCEPT ![u] = "prepared"] \/ up' = [up EXCEPT ![u] = "failed"]
    /\ UNCHANGED <<server, size, storeVars, doc, crashes, acked, searchVars>>

\* What a write does to the store.
ApplySummary(d) == summaries' = summaries \cup {d} /\ UNCHANGED rows
ApplyChunks(d, z) == rows' = Upsert(rows, Whole(d, z)) /\ UNCHANGED summaries

WritesChunksEarly(u) == up[u] \in {"prepared", "summary_done"}
\* The summary is written first; the chunks once the summary's write has succeeded.
WritesChunks(u) == up[u] = "summary_done"

UpsertSummaries(u) ==
    /\ server = "up" /\ up[u] = "prepared"
    /\ IF RemoteStore
       THEN /\ wire' = wire \cup {Write("summaries", u)}
            /\ up' = [up EXCEPT ![u] = "summary_sent"]
            /\ UNCHANGED <<summaries, rows>>
       ELSE /\ ApplySummary(doc[u]) /\ up' = [up EXCEPT ![u] = "summary_done"]
            /\ UNCHANGED wire
    /\ UNCHANGED <<server, size, cols, doc, crashes, acked, searchVars>>

UpsertChunks(u) ==
    /\ server = "up" /\ WritesChunks(u)
    /\ IF RemoteStore
       THEN /\ wire' = wire \cup {Write("chunks", u)}
            /\ up' = [up EXCEPT ![u] = "chunks_sent"]
            /\ UNCHANGED <<summaries, rows, acked>>
       ELSE /\ ApplyChunks(doc[u], size) /\ up' = [up EXCEPT ![u] = "ok"]
            /\ acked' = acked \cup {doc[u]}
            /\ UNCHANGED wire
    /\ UNCHANGED <<server, size, cols, doc, crashes, searchVars>>

\* The remote store applies a write, whether its sender still waits or not.
StoreApplies(w) ==
    /\ w \in wire
    /\ wire' = wire \ {w}
    /\ IF w.col = "summaries" THEN ApplySummary(w.doc) ELSE ApplyChunks(w.doc, w.size)
    /\ UNCHANGED <<server, size, cols, up, doc, crashes, acked, searchVars>>

AnswersAtOnce(u) == TRUE
\* Upserts are sent with Wait: the store answers when it has applied the write.
Answers(u) == \A w \in wire : w.by # u

\* The answer to a write reaches the upload.
Acknowledged(u) ==
    /\ up[u] \in {"summary_sent", "chunks_sent"} /\ Answers(u)
    /\ IF up[u] = "summary_sent"
       THEN up' = [up EXCEPT ![u] = "summary_done"] /\ UNCHANGED acked
       ELSE up' = [up EXCEPT ![u] = "ok"] /\ acked' = acked \cup {doc[u]}
    /\ UNCHANGED <<server, size, storeVars, doc, crashes, searchVars>>

\* The write fails, or its answer is lost, or the client went away: the upload
\* ends with an error; the write stays where it is.
WriteFails(u) ==
    /\ up[u] \in {"summary_sent", "chunks_sent"}
    /\ up' = [up EXCEPT ![u] = "failed"]
    /\ UNCHANGED <<server, size, storeVars, doc, crashes, acked, searchVars>>

-----------------------------------------------------------------------------
(* Searches: Retriever.Hierarchical.                                       *)

CutToRest(n, s) ==
    {t \in SUBSET s : Cardinality(t) = IF Cardinality(s) < n THEN Cardinality(s)
                                                            ELSE Cardinality(s) - n}
\* A list cut to n: any n of its elements, all of them when it is shorter.
CutTo(n, s) == {t \in SUBSET s : Cardinality(t) = IF Cardinality(s) < n THEN Cardinality(s) ELSE n}

RowsOf(d) == {r \in rows : r.doc = d}
PerSummary == 2

\* A call of the search fails: the model's, or one to the remote store.
SearchFails(s) ==
    /\ find[s] \in {"new", "fetch"} /\ server = "up"
    /\ find' = [find EXCEPT ![s] = "failed"]
    /\ UNCHANGED <<server, size, storeVars, up, doc, crashes, acked, todo, hits, seen, room>>

\* The question is embedded and the summaries closest to it are read.
SearchSummaries(s) ==
    /\ server = "up" /\ find[s] = "new"
    /\ \E best \in CutTo(TopK, summaries) : todo' = [todo EXCEPT ![s] = best]
    /\ find' = [find EXCEPT ![s] = "fetch"]
    /\ seen' = [seen EXCEPT ![s] = acked]
    /\ room' = [room EXCEPT ![s] = Cardinality(summaries) <= TopK]
    /\ UNCHANGED <<server, size, storeVars, up, doc, crashes, acked, hits>>

\* The first chunks of the summaries hit: the memory store reads those of all
\* summaries at once, the remote store is asked for one summary after the other.
GetChunksBySummaryIDs(s) ==
    /\ find[s] = "fetch" /\ todo[s] # {}
    /\ \E ds \in IF RemoteStore THEN {{d} : d \in todo[s]} ELSE {todo[s]},
          got \in SUBSET rows :
         /\ \A r \in got : r.doc \in ds
         /\ \A d \in ds : {r \in got : r.doc = d} \in CutTo(PerSummary, RowsOf(d))
         /\ todo' = [todo EXCEPT ![s] = @ \ ds]
         /\ hits' = [hits EXCEPT ![s] = @ \cup got]
    /\ UNCHANGED <<server, size, storeVars, up, doc, crashes, acked, find, seen, room>>

\* The chunks are embedded, scored and cut; an empty list is an error of the
\* embedding client, an empty result of the mock client.
RankChunks(s) ==
    /\ find[s] = "fetch" /\ todo[s] = {}
    /\ \E best \in CutTo(TopK, hits[s]) : hits' = [hits EXCEPT ![s] = best]
    /\ find' = [find EXCEPT ![s] = "done"]
    /\ room' = [room EXCEPT ![s] = @ /\ Cardinality(hits[s]) <= TopK]
    /\ UNCHANGED <<server, size, storeVars, up, doc, crashes, acked, todo, seen>>

Next ==
    \/ Start \/ Serve \/ EnsureFails \/ Crash
    \/ \E c \in Collections : EnsureCollection(c)
    \/ \E u \in Uploads : Prepare(u) \/ UpsertSummaries(u) \/ UpsertChunks(u)
                          \/ Acknowledged(u) \/ WriteFails(u)
    \/ \E w \in wire : StoreApplies(w)
    \/ \E s \in Searches : SearchSummaries(s) \/ GetChunksBySummaryIDs(s) \/ RankChunks(s)
                           \/ SearchFails(s)

Spec == Init /\ [][Next]_vars

-----------------------------------------------------------------------------
(* Properties.                                                             *)

Writes == [col : Collections, doc : Docs, size : Sizes, by : Uploads]

\* The type invariant.
TypeOK ==
    /\ server \in {"down", "starting", "up"} /\ size \in Sizes /\ cols \subseteq Collections
    /\ summaries \subseteq Docs /\ rows \subseteq AllRows /\ wire \subseteq Writes
    /\ up \in [Uploads -> UpPoints] /\ doc \in [Uploads -> Docs]
    /\ find \in [Searches -> FindPoints] /\ todo \in [Searches -> SUBSET Docs]
    /\ hits \in [Searches -> SUBSET AllRows] /\ crashes \in 0 .. MaxCrashes
    /\ acked \subseteq Docs /\ seen \in [Searches -> SUBSET Docs] /\ room \in [Searches -> BOOLEAN]

\* No orphan chunks: every chunk of the store, and every chunk still on the wire
\* to it, belongs to a document whose summary is stored, through crashes, lost
\* answers, late writes and concurrent uploads of the same document.  Otherwise
\* a document would be found by the dense search and never by the hierarchical one.
ChunkHasSummary ==
    /\ \A r \in rows : r.doc \in summaries
    /\ \A w \in wire : w.col = "chunks" => w.doc \in summaries

\* A document with any chunk in the store is there whole: all chunks of some one
\* chunk size, even when uploads cut with different sizes overwrite each other or
\* a write of a dead process arrives late.  No text is lost by mixing them.
TextIsWhole == \A r \in rows : \E z \in Sizes : Whole(r.doc, z) \subseteq rows

\* What was answered with success is searchable: its summary and all of its chunks
\* of one size are stored.  With a memory store this ends with the process.
AckedIsStored ==
    \A d \in acked : d \in summaries /\ \E z \in Sizes : Whole(d, z) \subseteq rows

\* A search that is not short of room finds every document whose upload had been
\* answered when it began, however uploads, crashes and late writes interleave
\* with its two reads.
SearchFindsAcked ==
    \A s \in Searches : find[s] = "done" /\ room[s] =>
        \A d \in seen[s] : \E r \in hits[s] : r.doc = d

\* The documents the knowledge base holds; what the client of a search can tell of it.
Held == {d \in summaries : \E z \in Sizes : Whole(d, z) \subseteq rows}
Phase == [s \in Searches |-> IF find[s] = "fetch" THEN "open" ELSE find[s]]
Found == [s \in Searches |-> IF find[s] = "done" THEN {r.doc : r \in hits[s]} ELSE {}]
Short == [s \in Searches |-> find[s] = "done" /\ ~room[s]]

Promise == INSTANCE DocumentSet WITH
    Persistent <- RemoteStore, stored <- Held, acknowledged <- acked,
    phase <- Phase, owed <- seen, found <- Found, short <- Short

\* Uploads and searches keep the promise of DocumentSet: a document enters whole, in
\* one step, and is acknowledged only afterwards; an answer names only documents that
\* are held whole at that moment and, with room, all acknowledged when it began,
\* although a search reads the store several times while uploads go on.
KeepsPromise == Promise!Spec
=============================================================================
