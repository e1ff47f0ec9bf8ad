------------------------ MODULE IngestStore_proofs ------------------------
(***************************************************************************)
(* Theorems about IngestStore, for any documents, uploads, searches, chunk *)
(* sizes and numbers of crashes, on a memory store and on a remote one.    *)
(***************************************************************************)
EXTENDS IngestStore, FiniteSetTheorems, TLAPS

-----------------------------------------------------------------------------
(* The inductive invariant, part by part.                                  *)

\* A document has all the chunks of some size.
HasText(d) == \E z \in Sizes : Whole(d, z) \subseteq rows

\* Writes on the wire belong to the upload that waits for them: an upload waits
\* for one write at a time.  A memory store has no wire.
WireInv ==
    /\ RemoteStore \/ wire = {}
    /\ \A u \in Uploads, w \in wire : w.by = u =>
         /\ up[u] \notin {"new", "prepared", "summary_done"}
         /\ up[u] = "summary_sent" => w.col = "summaries" /\ w.doc = doc[u]
         /\ up[u] = "chunks_sent" => w.col = "chunks" /\ w.doc = doc[u]

\* What an upload has been told is true of the store, or will be when its answer
\* can reach it.
ProgressInv == \A u \in Uploads :
    /\ up[u] \in {"summary_done", "chunks_sent"} => doc[u] \in summaries
    /\ up[u] = "summary_sent" /\ Answers(u) => doc[u] \in summaries
    /\ up[u] = "chunks_sent" /\ Answers(u) => HasText(doc[u])

\* Everything counted is finite.
FiniteInv == IsFiniteSet(rows) /\ \A s \in Searches : IsFiniteSet(hits[s])

\* A running search with enough room still has every document it must find: its
\* summary is to be fetched, or one of its chunks already was.
SearchInv == \A s \in Searches :
    /\ find[s] = "fetch" => seen[s] \subseteq acked
    /\ find[s] = "new" => hits[s] = {}
    /\ find[s] = "fetch" /\ room[s] =>
         \A d \in seen[s] : d \in todo[s] \/ \E r \in hits[s] : r.doc = d

\* What a running search has found is held, whole, as long as it runs.
FoundInv == \A s \in Searches : find[s] = "fetch" => \A r \in hits[s] : r.doc \in Held

StoreInv == ChunkHasSummary /\ TextIsWhole /\ AckedIsStored
IInv == TypeOK /\ WireInv /\ StoreInv /\ ProgressInv /\ FiniteInv /\ SearchInv /\ SearchFindsAcked /\ FoundInv

-----------------------------------------------------------------------------
(* What an upsert of a whole document does to the rows.                    *)

\* The chunks of a document are rows of it.
LEMMA WholeRows ==
  ASSUME NEW d \in Docs, NEW z \in Sizes
  PROVE  /\ Whole(d, z) \subseteq AllRows
         /\ \A r \in Whole(d, z) : r.doc = d
         /\ Whole(d, z) # {}
         /\ IsFiniteSet(Whole(d, z))
  <1>1. Pieces[d][z] \in Nat \ {0}
    BY StoreAssumption
  <1>2. Whole(d, z) \subseteq AllRows /\ \A r \in Whole(d, z) : r.doc = d
    BY <1>1 DEF Whole, Row, AllRows
  <1>3. Row(d, 0, z) \in Whole(d, z)
    BY <1>1 DEF Whole
  <1>4. IsFiniteSet(Whole(d, z))
    <2> DEFINE ids == 0 .. Pieces[d][z] - 1
               f == [i \in ids |-> Row(d, i, z)]
    <2>1. IsFiniteSet(ids)
      BY <1>1, FS_Interval
    <2>2. f \in Surjection(ids, Whole(d, z))
      BY DEF Surjection, Whole
    <2> QED
      BY <2>1, <2>2, FS_Surjection
  <1> QED
    BY <1>2, <1>3, <1>4

\* Upserting a whole document leaves every document with a text with one, and
\* gives one to the document written.
LEMMA UpsertKeepsText ==
  ASSUME NEW d \in Docs, NEW z \in Sizes, rows \subseteq AllRows,
         rows' = Upsert(rows, Whole(d, z))
  PROVE  /\ Whole(d, z) \subseteq rows'
         /\ \A e \in Docs : HasText(e) => HasText(e)'
         /\ \A r \in rows' : r \in rows \/ r.doc = d
         /\ HasText(d)'
  <1>1. Whole(d, z) \subseteq rows' /\ \A r \in rows' : r \in rows \/ r.doc = d
    BY WholeRows DEF Upsert
  <1>2. HasText(d)'
    BY <1>1 DEF HasText
  <1>3. ASSUME NEW e \in Docs, HasText(e), e # d PROVE HasText(e)'
    <2>1. PICK y \in Sizes : Whole(e, y) \subseteq rows
      BY <1>3 DEF HasText
    <2>2. \A r \in Whole(e, y) : \A n \in Whole(d, z) : ~SameId(n, r)
      BY <1>3, WholeRows DEF SameId
    <2>3. Whole(e, y) \subseteq rows'
      BY <2>1, <2>2 DEF Upsert
    <2> QED
      BY <2>3 DEF HasText
  <1> QED
    BY <1>1, <1>2, <1>3

-----------------------------------------------------------------------------
(* Types.                                                                  *)

\* A write an upload sends is a write.
LEMMA WriteTyped ==
  ASSUME TypeOK, NEW u \in Uploads, NEW c \in Collections
  PROVE  Write(c, u) \in Writes
  BY DEF TypeOK, Write, Writes

\* The initial states are typed.
LEMMA TypeInit == Init => TypeOK
  BY StoreAssumption DEF Init, TypeOK, UpPoints, FindPoints

\* Every step keeps the types.
LEMMA TypeStep == TypeOK /\ [Next]_vars => TypeOK'
  <1> SUFFICES ASSUME TypeOK, [Next]_vars PROVE TypeOK'
    OBVIOUS
  <1> USE DEF storeVars, searchVars
  <1>1. CASE Start \/ Serve \/ EnsureFails \/ UNCHANGED vars
    BY <1>1 DEF TypeOK, Start, Serve, EnsureFails, Collections, vars
  <1>2. CASE Crash
    BY <1>2, StoreAssumption DEF TypeOK, Crash, UpPoints, FindPoints
  <1>3. ASSUME NEW c \in Collections, EnsureCollection(c) PROVE TypeOK'
    BY <1>3 DEF TypeOK, EnsureCollection
  <1>4. ASSUME NEW u \in Uploads,
               Prepare(u) \/ Acknowledged(u) \/ WriteFails(u)
        PROVE  TypeOK'
    BY <1>4 DEF TypeOK, Prepare, Acknowledged, WriteFails, UpPoints
  <1>5. ASSUME NEW u \in Uploads, UpsertSummaries(u) PROVE TypeOK'
    <2>1. Write("summaries", u) \in Writes /\ doc[u] \in Docs
      BY WriteTyped DEF Collections, TypeOK
    <2> QED
      BY <1>5, <2>1 DEF TypeOK, UpsertSummaries, ApplySummary, UpPoints
  <1>6. ASSUME NEW u \in Uploads, UpsertChunks(u) PROVE TypeOK'
    <2>1. Write("chunks", u) \in Writes /\ doc[u] \in Docs /\ size \in Sizes
      BY WriteTyped DEF Collections, TypeOK
    <2>2. Upsert(rows, Whole(doc[u], size)) \subseteq AllRows
      BY <2>1, WholeRows DEF Upsert, TypeOK
    <2> QED
      BY <1>6, <2>1, <2>2 DEF TypeOK, UpsertChunks, ApplyChunks, UpPoints
  <1>7. ASSUME NEW w \in wire, StoreApplies(w) PROVE TypeOK'
    <2>1. w.doc \in Docs /\ w.size \in Sizes
      BY DEF TypeOK, Writes
    <2>2. Upsert(rows, Whole(w.doc, w.size)) \subseteq AllRows
      BY <2>1, WholeRows DEF Upsert, TypeOK
    <2> QED
      BY <1>7, <2>1, <2>2 DEF TypeOK, StoreApplies, ApplySummary, ApplyChunks
  <1>8. ASSUME NEW s \in Searches, SearchSummaries(s) \/ SearchFails(s) PROVE TypeOK'
    <2>1. CASE SearchFails(s)
      BY <1>8, <2>1 DEF TypeOK, SearchFails, FindPoints
    <2>2. CASE SearchSummaries(s)
      <3> DEFINE few == Cardinality(summaries) <= TopK
      <3>1. PICK best \in SUBSET summaries : todo' = [todo EXCEPT ![s] = best]
        BY <2>2 DEF SearchSummaries, CutTo
      <3>2. few \in BOOLEAN /\ room' = [room EXCEPT ![s] = few]
        BY <2>2 DEF SearchSummaries
      <3>3. room' \in [Searches -> BOOLEAN]
        <4> HIDE DEF few
        <4> QED
          BY <3>2 DEF TypeOK
      <3>4. todo' \in [Searches -> SUBSET Docs]
        BY <3>1 DEF TypeOK
      <3> QED
        BY <2>2, <3>3, <3>4 DEF TypeOK, SearchSummaries, FindPoints
    <2> QED
      BY <1>8, <2>1, <2>2
  <1>9. ASSUME NEW s \in Searches, GetChunksBySummaryIDs(s) PROVE TypeOK'
    <2>1. PICK ds \in SUBSET todo[s], got \in SUBSET rows :
            /\ todo' = [todo EXCEPT ![s] = todo[s] \ ds]
            /\ hits' = [hits EXCEPT ![s] = hits[s] \cup got]
      BY <1>9 DEF GetChunksBySummaryIDs
    <2>2. UNCHANGED <<server, size, cols, summaries, rows, wire, up, doc, crashes, acked, find, seen, room>>
      BY <1>9 DEF GetChunksBySummaryIDs
    <2>3. todo' \in [Searches -> SUBSET Docs] /\ hits' \in [Searches -> SUBSET AllRows]
      BY <2>1 DEF TypeOK
    <2> QED
      BY <2>2, <2>3 DEF TypeOK
  <1>10. ASSUME NEW s \in Searches, RankChunks(s) PROVE TypeOK'
    <2> DEFINE fits == room[s] /\ Cardinality(hits[s]) <= TopK
    <2>1. PICK best \in SUBSET hits[s] : hits' = [hits EXCEPT ![s] = best]
      BY <1>10 DEF RankChunks, CutTo
    <2>2. fits \in BOOLEAN /\ room' = [room EXCEPT ![s] = fits]
      BY <1>10 DEF RankChunks
    <2>3. room' \in [Searches -> BOOLEAN]
      <3> HIDE DEF fits
      <3> QED
        BY <2>2 DEF TypeOK
    <2>4. hits' \in [Searches -> SUBSET AllRows]
      BY <2>1 DEF TypeOK
    <2> QED
      BY <1>10, <2>3, <2>4 DEF TypeOK, RankChunks, FindPoints
  <1> QED
    BY <1>1, <1>2, <1>3, <1>4, <1>5, <1>6, <1>7, <1>8, <1>9, <1>10 DEF Next

\* Every variable stays in its domain, for every instance.
THEOREM TypeCorrect == Spec => []TypeOK
  <1> QED
    BY TypeInit, TypeStep, PTL DEF Spec

-----------------------------------------------------------------------------
(* The wire and the store.                                                 *)

\* The initial states satisfy the invariant.
LEMMA InitInv == Init => IInv
  <1> SUFFICES ASSUME Init PROVE IInv
    OBVIOUS
  <1>1. FiniteInv
    BY FS_EmptySet DEF Init, FiniteInv
  <1> QED
    BY <1>1, TypeInit DEF Init, IInv, WireInv, StoreInv, ChunkHasSummary, TextIsWhole, AckedIsStored,
        ProgressInv, SearchInv, SearchFindsAcked, FoundInv

\* An upload waits for at most one write.
LEMMA WireStep == TypeOK /\ WireInv /\ [Next]_vars => WireInv'
  <1> SUFFICES ASSUME TypeOK, WireInv, [Next]_vars PROVE WireInv'
    OBVIOUS
  <1> USE DEF WireInv, storeVars, searchVars
  <1>1. CASE Start \/ Serve \/ EnsureFails \/ UNCHANGED vars
            \/ (\E c \in Collections : EnsureCollection(c))
            \/ (\E s \in Searches : SearchSummaries(s) \/ GetChunksBySummaryIDs(s) \/ RankChunks(s)
                                    \/ SearchFails(s))
    <2>1. UNCHANGED <<wire, up, doc>>
      BY <1>1 DEF Start, Serve, EnsureFails, EnsureCollection, SearchSummaries, GetChunksBySummaryIDs,
          RankChunks, SearchFails, vars
    <2> QED
      BY <2>1
  <1>2. CASE Crash
    BY <1>2 DEF Crash, TypeOK, UpRunning
  <1>3. ASSUME NEW u \in Uploads, Prepare(u) \/ WriteFails(u) PROVE WireInv'
    BY <1>3 DEF TypeOK, Prepare, WriteFails
  <1>4. ASSUME NEW u \in Uploads, UpsertSummaries(u) PROVE WireInv'
    BY <1>4 DEF TypeOK, UpsertSummaries, Write
  <1>5. ASSUME NEW u \in Uploads, UpsertChunks(u) PROVE WireInv'
    BY <1>5 DEF TypeOK, UpsertChunks, WritesChunks, Write
  <1>6. ASSUME NEW u \in Uploads, Acknowledged(u) PROVE WireInv'
    BY <1>6 DEF TypeOK, Acknowledged, Answers
  <1>7. ASSUME NEW w \in wire, StoreApplies(w) PROVE WireInv'
    BY <1>7 DEF StoreApplies
  <1> QED
    BY <1>1, <1>2, <1>3, <1>4, <1>5, <1>6, <1>7 DEF Next

\* What the store and the uploads tell of each other survives every step.
LEMMA StoreStep ==
  TypeOK /\ WireInv /\ StoreInv /\ ProgressInv /\ [Next]_vars => StoreInv' /\ ProgressInv'
  <1> SUFFICES ASSUME TypeOK, WireInv, StoreInv, ProgressInv, [Next]_vars
               PROVE  StoreInv' /\ ProgressInv'
    OBVIOUS
  <1> USE DEF StoreInv, ChunkHasSummary, TextIsWhole, AckedIsStored, ProgressInv, storeVars, searchVars
  <1>1. CASE Start \/ Serve \/ EnsureFails \/ UNCHANGED vars
            \/ (\E c \in Collections : EnsureCollection(c))
            \/ (\E s \in Searches : SearchSummaries(s) \/ GetChunksBySummaryIDs(s) \/ RankChunks(s)
                                    \/ SearchFails(s))
    <2>1. UNCHANGED <<summaries, rows, wire, up, doc, acked>>
      BY <1>1 DEF Start, Serve, EnsureFails, EnsureCollection, SearchSummaries, GetChunksBySummaryIDs,
          RankChunks, SearchFails, vars
    <2> QED
      BY <2>1 DEF HasText, Answers
  <1>2. CASE Crash
    <2>1. \A u \in Uploads : up'[u] \notin UpRunning
      BY <1>2 DEF Crash, TypeOK, UpRunning
    <2>2. ProgressInv'
      BY <2>1 DEF UpRunning
    <2>3. CASE RemoteStore
      BY <1>2, <2>2, <2>3 DEF Crash
    <2>4. CASE ~RemoteStore
      BY <1>2, <2>2, <2>4 DEF Crash, WireInv
    <2> QED
      BY <2>3, <2>4
  <1>3. ASSUME NEW u \in Uploads, Prepare(u) \/ WriteFails(u) PROVE StoreInv' /\ ProgressInv'
    <2>1. UNCHANGED <<summaries, rows, wire, doc, acked>>
      BY <1>3 DEF Prepare, WriteFails
    <2>2. \A v \in Uploads : v # u => up'[v] = up[v]
      BY <1>3 DEF TypeOK, Prepare, WriteFails
    <2>3. up'[u] \in {"prepared", "failed"}
      BY <1>3 DEF TypeOK, Prepare, WriteFails
    <2> QED
      BY <2>1, <2>2, <2>3 DEF HasText, Answers
  <1>4. ASSUME NEW u \in Uploads, UpsertSummaries(u) PROVE StoreInv' /\ ProgressInv'
    <2>1. /\ UNCHANGED <<rows, doc, acked>> /\ summaries \subseteq summaries'
          /\ wire \subseteq wire' /\ \A v \in Uploads : v # u => up'[v] = up[v]
      BY <1>4 DEF TypeOK, UpsertSummaries, ApplySummary
    <2>2. \A w \in wire' : w \in wire \/ w.col = "summaries"
      BY <1>4 DEF UpsertSummaries, Write
    <2>3. \/ up'[u] = "summary_done" /\ doc[u] \in summaries'
          \/ up'[u] = "summary_sent" /\ \E w \in wire' : w.by = u
      <3>1. Write("summaries", u).by = u
        BY DEF Write
      <3> QED
        BY <1>4, <3>1 DEF TypeOK, UpsertSummaries, ApplySummary
    <2>4. \A v \in Uploads : Answers(v)' => Answers(v)
      BY <2>1 DEF Answers
    <2> QED
      BY <2>1, <2>2, <2>3, <2>4 DEF HasText, Answers
  <1>5. ASSUME NEW u \in Uploads, UpsertChunks(u) PROVE StoreInv' /\ ProgressInv'
    <2>0. doc[u] \in Docs /\ size \in Sizes /\ doc[u] \in summaries /\ acked \subseteq Docs
      BY <1>5 DEF TypeOK, UpsertChunks, WritesChunks
    <2>1. /\ UNCHANGED <<summaries, doc>>
          /\ \A v \in Uploads : v # u => up'[v] = up[v]
      BY <1>5 DEF TypeOK, UpsertChunks, ApplyChunks
    <2>2. CASE RemoteStore
      <3>1. /\ UNCHANGED <<rows, acked>> /\ wire \subseteq wire' /\ up'[u] = "chunks_sent"
            /\ (\E w \in wire' : w.by = u) /\ \A w \in wire' : w \in wire \/ w.doc \in summaries
        <4>1. Write("chunks", u).by = u /\ Write("chunks", u).doc = doc[u]
          BY DEF Write
        <4> QED
          BY <1>5, <2>0, <2>2, <4>1 DEF TypeOK, UpsertChunks
      <3> QED
        BY <2>0, <2>1, <3>1 DEF HasText, Answers
    <2>3. CASE ~RemoteStore
      <3>1. /\ rows' = Upsert(rows, Whole(doc[u], size)) /\ up'[u] = "ok" /\ UNCHANGED wire
            /\ acked' = acked \cup {doc[u]}
        BY <1>5, <2>3 DEF TypeOK, UpsertChunks, ApplyChunks
      <3>2. /\ \A e \in Docs : HasText(e) => HasText(e)'
            /\ \A r \in rows' : r \in rows \/ r.doc = doc[u]
            /\ HasText(doc[u])'
        <4>1. PICK d \in Docs : d = doc[u]
          BY <2>0
        <4>2. /\ \A e \in Docs : HasText(e) => HasText(e)'
              /\ \A r \in rows' : r \in rows \/ r.doc = d
              /\ HasText(d)'
          BY <2>0, <3>1, <4>1, UpsertKeepsText DEF TypeOK
        <4> QED
          BY <2>1, <4>1, <4>2
      <3>3. \A r \in rows : r.doc \in Docs
        BY DEF TypeOK, AllRows
      <3> QED
        BY <2>0, <2>1, <3>1, <3>2, <3>3 DEF HasText, Answers, TypeOK
    <2> QED
      BY <2>2, <2>3
  <1>6. ASSUME NEW u \in Uploads, Acknowledged(u) PROVE StoreInv' /\ ProgressInv'
    <2>1. UNCHANGED <<summaries, rows, wire, doc>> /\ \A v \in Uploads : v # u => up'[v] = up[v]
      BY <1>6 DEF TypeOK, Acknowledged
    <2>2. CASE up[u] = "summary_sent"
      BY <1>6, <2>1, <2>2 DEF TypeOK, Acknowledged, HasText, Answers
    <2>3. CASE up[u] = "chunks_sent"
      BY <1>6, <2>1, <2>3 DEF TypeOK, Acknowledged, HasText, Answers
    <2> QED
      BY <1>6, <2>2, <2>3 DEF Acknowledged
  <1>7. ASSUME NEW w \in wire, StoreApplies(w) PROVE StoreInv' /\ ProgressInv'
    <2>0. w.doc \in Docs /\ w.size \in Sizes /\ w.col \in Collections /\ w.by \in Uploads
      BY DEF TypeOK, Writes
    <2>1. UNCHANGED <<up, doc, acked>> /\ wire' = wire \ {w}
      BY <1>7 DEF StoreApplies
    <2>2. \A u \in Uploads : Answers(u)' => Answers(u) \/ u = w.by
      BY <2>1 DEF Answers
    <2>3. CASE w.col = "summaries"
      <3>1. summaries' = summaries \cup {w.doc} /\ UNCHANGED rows
        BY <1>7, <2>3 DEF StoreApplies, ApplySummary
      <3>2. up[w.by] = "summary_sent" => w.doc = doc[w.by]
        BY <2>0 DEF WireInv
      <3>3. up[w.by] # "chunks_sent"
        BY <2>0, <2>3 DEF WireInv
      <3> QED
        BY <2>1, <2>2, <3>1, <3>2, <3>3 DEF HasText
    <2>4. CASE w.col = "chunks"
      <3>1. rows' = Upsert(rows, Whole(w.doc, w.size)) /\ UNCHANGED summaries
        BY <1>7, <2>4 DEF StoreApplies, ApplyChunks
      <3>2. /\ \A e \in Docs : HasText(e) => HasText(e)'
            /\ \A r \in rows' : r \in rows \/ r.doc = w.doc
            /\ HasText(w.doc)'
        BY <2>0, <3>1, UpsertKeepsText DEF TypeOK
      <3>3. up[w.by] = "chunks_sent" => w.doc = doc[w.by]
        BY <2>0 DEF WireInv
      <3>4. up[w.by] # "summary_sent"
        BY <2>0, <2>4 DEF WireInv
      <3>5. \A r \in rows : r.doc \in Docs
        BY DEF TypeOK, AllRows
      <3>6. StoreInv'
        BY <2>0, <2>1, <2>4, <3>1, <3>2, <3>5 DEF HasText, TypeOK
      <3>7. ProgressInv'
        BY <2>1, <2>2, <3>1, <3>2, <3>3, <3>4 DEF TypeOK
      <3> QED
        BY <3>6, <3>7
    <2> QED
      BY <2>0, <2>3, <2>4 DEF Collections
  <1> QED
    BY <1>1, <1>2, <1>3, <1>4, <1>5, <1>6, <1>7 DEF Next

\* The chunks stored and the chunks found stay finite.
LEMMA FiniteStep == TypeOK /\ FiniteInv /\ [Next]_vars => FiniteInv'
  <1> SUFFICES ASSUME TypeOK, FiniteInv, [Next]_vars PROVE FiniteInv'
    OBVIOUS
  <1> USE DEF FiniteInv, storeVars, searchVars
  <1>1. CASE UNCHANGED <<rows, hits>>
    BY <1>1
  <1>2. CASE Crash
    BY <1>2, FS_EmptySet DEF Crash
  <1>3. ASSUME NEW d \in Docs, NEW z \in Sizes, ApplyChunks(d, z) PROVE IsFiniteSet(rows')
    <2> DEFINE old == {r \in rows : \A n \in Whole(d, z) : ~SameId(n, r)}
    <2>1. IsFiniteSet(old)
      BY FS_Subset
    <2>2. IsFiniteSet(Whole(d, z) \cup old)
      BY <2>1, WholeRows, FS_Union
    <2> QED
      BY <1>3, <2>2 DEF ApplyChunks, Upsert
  <1>4. ASSUME NEW u \in Uploads, UpsertSummaries(u) \/ UpsertChunks(u) PROVE FiniteInv'
    <2>1. doc[u] \in Docs /\ size \in Sizes /\ UNCHANGED hits
      BY <1>4 DEF TypeOK, UpsertSummaries, UpsertChunks
    <2>2. UNCHANGED rows \/ ApplyChunks(doc[u], size)
      BY <1>4 DEF UpsertSummaries, UpsertChunks, ApplySummary
    <2> QED
      BY <1>3, <2>1, <2>2
  <1>5. ASSUME NEW w \in wire, StoreApplies(w) PROVE FiniteInv'
    <2>1. w.doc \in Docs /\ w.size \in Sizes /\ UNCHANGED hits
      BY <1>5 DEF TypeOK, Writes, StoreApplies
    <2>2. UNCHANGED rows \/ ApplyChunks(w.doc, w.size)
      BY <1>5 DEF StoreApplies, ApplySummary
    <2> QED
      BY <1>3, <2>1, <2>2
  <1>6. ASSUME NEW s \in Searches, GetChunksBySummaryIDs(s) PROVE FiniteInv'
    <2>1. PICK got \in SUBSET rows : hits' = [hits EXCEPT ![s] = hits[s] \cup got]
      BY <1>6 DEF GetChunksBySummaryIDs
    <2>2. IsFiniteSet(got) /\ IsFiniteSet(hits[s] \cup got)
      BY FS_Subset, FS_Union
    <2> QED
      BY <1>6, <2>1, <2>2 DEF TypeOK, GetChunksBySummaryIDs
  <1>7. ASSUME NEW s \in Searches, RankChunks(s) PROVE FiniteInv'
    <2>1. PICK best \in SUBSET hits[s] : hits' = [hits EXCEPT ![s] = best]
      BY <1>7 DEF RankChunks, CutTo
    <2>2. IsFiniteSet(best)
      BY FS_Subset
    <2> QED
      BY <1>7, <2>1, <2>2 DEF TypeOK, RankChunks
  <1>8. ASSUME \/ Start \/ Serve \/ EnsureFails \/ UNCHANGED vars
               \/ (\E c \in Collections : EnsureCollection(c))
               \/ (\E u \in Uploads : Prepare(u) \/ Acknowledged(u) \/ WriteFails(u))
               \/ (\E s \in Searches : SearchSummaries(s) \/ SearchFails(s))
        PROVE  UNCHANGED <<rows, hits>>
    BY <1>8 DEF Start, Serve, EnsureFails, EnsureCollection, Prepare, Acknowledged, WriteFails,
        SearchSummaries, SearchFails, vars
  <1> QED
    BY <1>1, <1>2, <1>4, <1>5, <1>6, <1>7, <1>8 DEF Next

-----------------------------------------------------------------------------
(* Searches.                                                               *)

\* A cut of a finite list that fits is the list; a cut of a list that is not
\* empty is not empty.
LEMMA CutKeeps ==
  ASSUME NEW S, IsFiniteSet(S), NEW n \in Nat \ {0}, NEW T \in CutTo(n, S)
  PROVE  /\ Cardinality(S) <= n => T = S
         /\ S # {} => T # {}
  <1>1. /\ Cardinality(S) \in Nat
        /\ Cardinality(S) = 0 <=> S = {}
        /\ T \in SUBSET S
        /\ Cardinality(T) = IF Cardinality(S) < n THEN Cardinality(S) ELSE n
    BY FS_CardinalityType, FS_EmptySet DEF CutTo
  <1>2. ASSUME Cardinality(S) <= n PROVE T = S
    <2>1. Cardinality(T) = Cardinality(S)
      BY <1>1, <1>2
    <2> QED
      BY <1>1, <2>1, FS_Subset
  <1>3. ASSUME S # {} PROVE T # {}
    <2>1. Cardinality(T) # 0
      BY <1>1, <1>3
    <2> QED
      BY <2>1, FS_EmptySet
  <1> QED
    BY <1>2, <1>3


\* A search with room keeps every document it must find from its first read on.
LEMMA SearchStep ==
  TypeOK /\ StoreInv /\ FiniteInv /\ SearchInv /\ SearchFindsAcked /\ [Next]_vars
    => SearchInv' /\ SearchFindsAcked'
  <1> SUFFICES ASSUME TypeOK, StoreInv, FiniteInv, SearchInv, SearchFindsAcked, [Next]_vars
               PROVE  SearchInv' /\ SearchFindsAcked'
    OBVIOUS
  <1> USE DEF SearchInv, SearchFindsAcked, storeVars, searchVars
  <1>1. CASE UNCHANGED searchVars /\ acked \subseteq acked'
    BY <1>1
  <1>2. ASSUME \/ Start \/ Serve \/ EnsureFails \/ UNCHANGED vars
               \/ (\E c \in Collections : EnsureCollection(c))
               \/ (\E u \in Uploads : Prepare(u) \/ UpsertSummaries(u) \/ UpsertChunks(u)
                                      \/ Acknowledged(u) \/ WriteFails(u))
               \/ (\E w \in wire : StoreApplies(w))
        PROVE  UNCHANGED searchVars /\ acked \subseteq acked'
    BY <1>2 DEF Start, Serve, EnsureFails, EnsureCollection, Prepare, UpsertSummaries, UpsertChunks,
        Acknowledged, WriteFails, StoreApplies, vars
  <1>3. CASE Crash
    <2>1. /\ UNCHANGED <<todo, hits, seen, room>>
          /\ \A s \in Searches : find'[s] = IF find[s] = "fetch" THEN "failed" ELSE find[s]
      BY <1>3 DEF Crash
    <2> QED
      BY <2>1
  <1>4. ASSUME NEW s \in Searches, SearchFails(s) PROVE SearchInv' /\ SearchFindsAcked'
    <2>1. /\ UNCHANGED <<acked, todo, hits, seen, room>> /\ find'[s] = "failed"
          /\ \A t \in Searches : t # s => find'[t] = find[t]
      BY <1>4 DEF TypeOK, SearchFails
    <2> QED
      BY <2>1
  <1>5. ASSUME NEW s \in Searches, SearchSummaries(s) PROVE SearchInv' /\ SearchFindsAcked'
    <2>1. /\ UNCHANGED <<acked, hits>> /\ find'[s] = "fetch" /\ seen'[s] = acked
          /\ \A t \in Searches : t # s => /\ find'[t] = find[t] /\ todo'[t] = todo[t]
                                          /\ seen'[t] = seen[t] /\ room'[t] = room[t]
      BY <1>5 DEF TypeOK, SearchSummaries
    <2>2. acked \subseteq summaries
      BY DEF StoreInv, AckedIsStored
    <2>3. room'[s] => todo'[s] = summaries
      <3>1. PICK best \in CutTo(TopK, summaries) : todo' = [todo EXCEPT ![s] = best]
        BY <1>5 DEF SearchSummaries
      <3>2. todo'[s] = best
        BY <3>1 DEF TypeOK
      <3>3. IsFiniteSet(summaries)
        BY StoreAssumption, FS_Subset DEF TypeOK
      <3>4. Cardinality(summaries) <= TopK => best = summaries
        BY <3>3, StoreAssumption, CutKeeps
      <3>5. room'[s] = (Cardinality(summaries) <= TopK)
        BY <1>5 DEF TypeOK, SearchSummaries
      <3> QED
        BY <3>2, <3>4, <3>5
    <2> QED
      BY <2>1, <2>2, <2>3
  <1>6. ASSUME NEW s \in Searches, GetChunksBySummaryIDs(s) PROVE SearchInv' /\ SearchFindsAcked'
    <2>1. PICK ds \in SUBSET todo[s], got \in SUBSET rows :
            /\ \A d \in ds : {r \in got : r.doc = d} \in CutTo(PerSummary, RowsOf(d))
            /\ todo' = [todo EXCEPT ![s] = todo[s] \ ds]
            /\ hits' = [hits EXCEPT ![s] = hits[s] \cup got]
      <3> DEFINE batches == IF RemoteStore THEN {{d} : d \in todo[s]} ELSE {todo[s]}
      <3>1. batches \subseteq SUBSET todo[s]
        OBVIOUS
      <3>2. PICK ds \in batches, got \in SUBSET rows :
              /\ \A d \in ds : {r \in got : r.doc = d} \in CutTo(PerSummary, RowsOf(d))
              /\ todo' = [todo EXCEPT ![s] = todo[s] \ ds]
              /\ hits' = [hits EXCEPT ![s] = hits[s] \cup got]
        BY <1>6 DEF GetChunksBySummaryIDs
      <3> QED
        BY <3>1, <3>2, Zenon
    <2>2. /\ find[s] = "fetch" /\ UNCHANGED <<acked, find, seen, room>>
          /\ todo'[s] = todo[s] \ ds /\ hits'[s] = hits[s] \cup got
          /\ \A t \in Searches : t # s => todo'[t] = todo[t] /\ hits'[t] = hits[t]
      BY <1>6, <2>1 DEF TypeOK, GetChunksBySummaryIDs
    <2>3. ASSUME NEW d \in ds, d \in acked PROVE \E r \in got : r.doc = d
      <3>1. PICK z \in Sizes : Whole(d, z) \subseteq rows
        BY <2>3 DEF StoreInv, AckedIsStored
      <3>2. d \in Docs
        BY <2>3 DEF TypeOK
      <3>3. RowsOf(d) # {} /\ IsFiniteSet(RowsOf(d))
        <4>1. RowsOf(d) # {}
          BY <3>1, <3>2, WholeRows DEF RowsOf
        <4>2. RowsOf(d) \in SUBSET rows
          BY DEF RowsOf
        <4> QED
          BY <4>1, <4>2, FS_Subset DEF FiniteInv
      <3>4. {r \in got : r.doc = d} # {}
        <4>1. PICK first \in CutTo(PerSummary, RowsOf(d)) : first = {r \in got : r.doc = d}
          BY <2>1
        <4>2. PerSummary \in Nat \ {0}
          BY DEF PerSummary
        <4>3. first # {}
          BY <3>3, <4>2, CutKeeps
        <4> QED
          BY <4>1, <4>3
      <3> QED
        BY <3>4
    <2>4. seen[s] \subseteq acked
      BY <2>2
    <2> QED
      BY <2>2, <2>3, <2>4
  <1>7. ASSUME NEW s \in Searches, RankChunks(s) PROVE SearchInv' /\ SearchFindsAcked'
    <2>1. /\ UNCHANGED <<acked, todo, seen>> /\ find[s] = "fetch" /\ find'[s] = "done" /\ todo[s] = {}
          /\ \A t \in Searches : t # s => /\ find'[t] = find[t] /\ hits'[t] = hits[t]
                                          /\ room'[t] = room[t]
      BY <1>7 DEF TypeOK, RankChunks
    <2>2. room'[s] => room[s] /\ hits'[s] = hits[s]
      <3>1. PICK best \in CutTo(TopK, hits[s]) : hits' = [hits EXCEPT ![s] = best]
        BY <1>7 DEF RankChunks
      <3>2. hits'[s] = best
        BY <3>1 DEF TypeOK
      <3>3. room'[s] = (room[s] /\ Cardinality(hits[s]) <= TopK)
        BY <1>7 DEF TypeOK, RankChunks
      <3>4. Cardinality(hits[s]) <= TopK => best = hits[s]
        BY StoreAssumption, CutKeeps DEF FiniteInv
      <3> QED
        BY <3>2, <3>3, <3>4
    <2> QED
      BY <2>1, <2>2
  <1> QED
    BY <1>1, <1>2, <1>3, <1>4, <1>5, <1>6, <1>7 DEF Next

-----------------------------------------------------------------------------
(* The documents held.                                                     *)

\* An upsert of a document puts it among the documents held when it has a summary,
\* and changes nothing for the others.
LEMMA UpsertHolds ==
  ASSUME TypeOK, NEW d \in Docs, NEW z \in Sizes, d \in summaries,
         rows' = Upsert(rows, Whole(d, z)), summaries' = summaries
  PROVE  Held' = Held \cup {d}
  <1>1. /\ \A e \in Docs : HasText(e) => HasText(e)'
        /\ \A r \in rows' : r \in rows \/ r.doc = d
        /\ HasText(d)'
    BY UpsertKeepsText DEF TypeOK
  <1>2. ASSUME NEW e \in Docs, e # d, HasText(e)' PROVE HasText(e)
    <2>1. PICK y \in Sizes : Whole(e, y) \subseteq rows'
      BY <1>2 DEF HasText
    <2>2. Whole(e, y) \subseteq rows
      BY <1>1, <1>2, <2>1, WholeRows
    <2> QED
      BY <2>2 DEF HasText
  <1> QED
    BY <1>1, <1>2 DEF Held, HasText, TypeOK

\* A summary adds its document, when all its chunks are there, and no other.
LEMMA SummaryHolds ==
  ASSUME NEW d, ApplySummary(d)
  PROVE  Held' = Held \/ Held' = Held \cup {d}
  BY DEF ApplySummary, Held

\* What a step does to the documents held and acknowledged.
DocsStep ==
    \/ UNCHANGED <<Held, acked>>
    \/ \E d \in Docs : Held' = Held \cup {d} /\ UNCHANGED acked
    \/ \E d \in Docs \cap Held : acked' = acked \cup {d} /\ UNCHANGED Held
    \/ ~RemoteStore /\ \E d \in Docs : Held' = Held \cup {d} /\ acked' = acked \cup {d}

\* Steps of the process and of uploads that touch neither the documents nor a search.
QuietStep ==
    \/ Start \/ Serve \/ EnsureFails \/ \E c \in Collections : EnsureCollection(c)
    \/ \E u \in Uploads : Prepare(u) \/ WriteFails(u)
\* The steps of an upload, or of the store, that can change what is held.
UploadStep ==
    \/ \E u \in Uploads : UpsertSummaries(u) \/ UpsertChunks(u) \/ Acknowledged(u)
    \/ \E w \in wire : StoreApplies(w)

\* Uploads put one document in the knowledge base at a time, take none out, and
\* acknowledge what is there.
LEMMA UploadsAdd ==
  ASSUME TypeOK, WireInv, StoreInv, ProgressInv, UploadStep
  PROVE  DocsStep /\ UNCHANGED searchVars
  <1> USE DEF storeVars
  <1>1. ASSUME NEW u \in Uploads, UpsertSummaries(u) PROVE DocsStep
    <2>1. doc[u] \in Docs /\ UNCHANGED acked
      BY <1>1 DEF TypeOK, UpsertSummaries
    <2>2. ApplySummary(doc[u]) \/ UNCHANGED <<summaries, rows>>
      BY <1>1 DEF UpsertSummaries
    <2>3. UNCHANGED <<summaries, rows>> => UNCHANGED Held
      BY DEF Held
    <2> QED
      BY <2>1, <2>2, <2>3, SummaryHolds DEF DocsStep
  <1>2. ASSUME NEW u \in Uploads, UpsertChunks(u) PROVE DocsStep
    <2>1. doc[u] \in Docs /\ size \in Sizes /\ doc[u] \in summaries
      BY <1>2 DEF TypeOK, UpsertChunks, WritesChunks, ProgressInv
    <2>2. CASE RemoteStore
      BY <1>2, <2>2 DEF UpsertChunks, Held, DocsStep
    <2>3. CASE ~RemoteStore
      <3>1. /\ rows' = Upsert(rows, Whole(doc[u], size)) /\ UNCHANGED summaries
            /\ acked' = acked \cup {doc[u]}
        BY <1>2, <2>3 DEF UpsertChunks, ApplyChunks
      <3>2. Held' = Held \cup {doc[u]}
        BY <2>1, <3>1, UpsertHolds
      <3> QED
        BY <2>1, <2>3, <3>1, <3>2 DEF DocsStep
    <2> QED
      BY <2>2, <2>3
  <1>3. ASSUME NEW u \in Uploads, Acknowledged(u) PROVE DocsStep
    <2>1. doc[u] \in Docs /\ UNCHANGED Held
      BY <1>3 DEF TypeOK, Acknowledged, Held
    <2>2. CASE up[u] = "summary_sent"
      BY <1>3, <2>1, <2>2 DEF Acknowledged, DocsStep
    <2>3. CASE up[u] = "chunks_sent"
      <3>1. doc[u] \in Held /\ acked' = acked \cup {doc[u]}
        BY <1>3, <2>3 DEF Acknowledged, ProgressInv, HasText, Held
      <3> QED
        BY <2>1, <3>1 DEF DocsStep
    <2> QED
      BY <1>3, <2>2, <2>3 DEF Acknowledged
  <1>4. ASSUME NEW w \in wire, StoreApplies(w) PROVE DocsStep
    <2>1. w.doc \in Docs /\ w.size \in Sizes /\ w.col \in Collections /\ UNCHANGED acked
      BY <1>4 DEF TypeOK, Writes, StoreApplies
    <2>2. CASE w.col = "summaries"
      <3>1. Held' = Held \/ Held' = Held \cup {w.doc}
        BY <1>4, <2>2, SummaryHolds DEF StoreApplies
      <3> QED
        BY <2>1, <3>1 DEF DocsStep
    <2>3. CASE w.col = "chunks"
      <3>1. w.doc \in summaries
        BY <2>3 DEF StoreInv, ChunkHasSummary
      <3>2. rows' = Upsert(rows, Whole(w.doc, w.size)) /\ UNCHANGED summaries
        BY <1>4, <2>3 DEF StoreApplies, ApplyChunks
      <3>3. Held' = Held \cup {w.doc}
        BY <2>1, <3>1, <3>2, UpsertHolds
      <3> QED
        BY <2>1, <3>3 DEF DocsStep
    <2> QED
      BY <2>1, <2>2, <2>3 DEF Collections
  <1>5. UNCHANGED searchVars
    BY DEF UploadStep, UpsertSummaries, UpsertChunks, Acknowledged, StoreApplies, searchVars
  <1> QED
    BY <1>1, <1>2, <1>3, <1>4, <1>5 DEF UploadStep

\* A quiet step changes neither what is held nor any search.
LEMMA QuietKeeps ==
  ASSUME QuietStep \/ UNCHANGED vars
  PROVE  UNCHANGED <<Held, acked, searchVars>>
  <1>1. UNCHANGED <<summaries, rows, acked, searchVars>>
    BY DEF QuietStep, Start, Serve, EnsureFails, EnsureCollection, Prepare, WriteFails, storeVars, vars
  <1> QED
    BY <1>1 DEF Held

\* Every row of the store belongs to a document that is held.
LEMMA RowsAreHeld == StoreInv => \A r \in rows : r.doc \in Held
  BY DEF StoreInv, ChunkHasSummary, TextIsWhole, Held

\* What a running search has found stays held until it ends.
LEMMA FoundStep ==
  TypeOK /\ WireInv /\ StoreInv /\ ProgressInv /\ SearchInv /\ FoundInv /\ [Next]_vars => FoundInv'
  <1> SUFFICES ASSUME TypeOK, WireInv, StoreInv, ProgressInv, SearchInv, FoundInv, [Next]_vars
               PROVE  FoundInv'
    OBVIOUS
  <1>1. CASE UNCHANGED searchVars /\ Held \subseteq Held'
    BY <1>1 DEF FoundInv, searchVars
  <1>2. CASE QuietStep \/ UNCHANGED vars
    <2>1. UNCHANGED searchVars /\ Held \subseteq Held'
      BY <1>2, QuietKeeps
    <2> QED
      BY <1>1, <2>1
  <1>3. CASE UploadStep
    <2>1. Held \subseteq Held' /\ UNCHANGED searchVars
      BY <1>3, UploadsAdd DEF DocsStep
    <2> QED
      BY <1>1, <2>1
  <1>4. CASE Crash
    <2>1. \A s \in Searches : find'[s] # "fetch"
      BY <1>4 DEF Crash
    <2> QED
      BY <2>1 DEF FoundInv
  <1>5. ASSUME NEW s \in Searches, SearchSummaries(s) \/ SearchFails(s) PROVE FoundInv'
    <2>1. UNCHANGED <<Held, hits>> /\ \A t \in Searches : t # s => find'[t] = find[t]
      BY <1>5 DEF TypeOK, SearchSummaries, SearchFails, storeVars, Held
    <2>2. find'[s] = "fetch" => hits[s] = {}
      BY <1>5 DEF TypeOK, SearchSummaries, SearchFails, SearchInv
    <2> QED
      BY <2>1, <2>2 DEF FoundInv
  <1>6. ASSUME NEW s \in Searches, GetChunksBySummaryIDs(s) PROVE FoundInv'
    <2>1. PICK got \in SUBSET rows : hits' = [hits EXCEPT ![s] = hits[s] \cup got]
      BY <1>6 DEF GetChunksBySummaryIDs
    <2>2. UNCHANGED <<Held, find>> /\ find[s] = "fetch"
      BY <1>6 DEF GetChunksBySummaryIDs, storeVars, Held
    <2>3. /\ hits'[s] = hits[s] \cup got
          /\ \A t \in Searches : t # s => hits'[t] = hits[t]
      BY <2>1 DEF TypeOK
    <2> QED
      BY <2>2, <2>3, RowsAreHeld DEF FoundInv
  <1>7. ASSUME NEW s \in Searches, RankChunks(s) PROVE FoundInv'
    <2>1. /\ UNCHANGED Held /\ find'[s] = "done"
          /\ \A t \in Searches : t # s => find'[t] = find[t] /\ hits'[t] = hits[t]
      BY <1>7 DEF TypeOK, RankChunks, storeVars, Held
    <2> QED
      BY <2>1 DEF FoundInv
  <1> QED
    BY <1>2, <1>3, <1>4, <1>5, <1>6, <1>7 DEF Next, QuietStep, UploadStep

-----------------------------------------------------------------------------
(* The theorems.                                                           *)

\* Every step keeps the inductive invariant.
LEMMA InvStep == IInv /\ [Next]_vars => IInv'
  <1> QED
    BY TypeStep, WireStep, StoreStep, FiniteStep, SearchStep, FoundStep DEF IInv

\* The inductive invariant, which every safety theorem follows from.
THEOREM Inductive == Spec => []IInv
  <1> QED
    BY InitInv, InvStep, PTL DEF Spec

\* No chunk is ever stored, or sent, without the summary of its document.
THEOREM ChunksHaveSummaries == Spec => []ChunkHasSummary
  <1>1. IInv => ChunkHasSummary
    BY DEF IInv, StoreInv
  <1> QED
    BY <1>1, Inductive, PTL

\* No document of the store is ever missing part of its text.
THEOREM TextStaysWhole == Spec => []TextIsWhole
  <1>1. IInv => TextIsWhole
    BY DEF IInv, StoreInv
  <1> QED
    BY <1>1, Inductive, PTL

\* What was acknowledged is stored.
THEOREM AckedStaysStored == Spec => []AckedIsStored
  <1>1. IInv => AckedIsStored
    BY DEF IInv, StoreInv
  <1> QED
    BY <1>1, Inductive, PTL

\* A search with room finds what had been acknowledged when it began.
THEOREM SearchIsComplete == Spec => []SearchFindsAcked
  <1>1. IInv => SearchFindsAcked
    BY DEF IInv
  <1> QED
    BY <1>1, Inductive, PTL

-----------------------------------------------------------------------------
(* The refinement of DocumentSet.                                          *)

\* What KeepsPromise reads of the searches.
searchView == <<Phase, seen, Found, Short>>

\* Searches that do not move look the same.
LEMMA SameView == UNCHANGED searchVars => UNCHANGED searchView
  BY DEF searchVars, searchView, Phase, Found, Short

\* Steps of the knowledge base, as steps of DocumentSet.
LEMMA MappedDocs ==
  ASSUME DocsStep, UNCHANGED searchView
  PROVE  [Promise!Next]_(Promise!vars)
  <1> USE DEF searchView, Promise!vars, Promise!docVars, Promise!answerVars
  <1>1. CASE UNCHANGED <<Held, acked>>
    BY <1>1
  <1>2. ASSUME NEW d \in Docs, Held' = Held \cup {d}, UNCHANGED acked PROVE Promise!Store(d)
    BY <1>2 DEF Promise!Store
  <1>3. ASSUME NEW d \in Docs \cap Held, acked' = acked \cup {d}, UNCHANGED Held
        PROVE  Promise!Acknowledge(d)
    BY <1>3 DEF Promise!Acknowledge
  <1>4. ASSUME NEW d \in Docs, ~RemoteStore, Held' = Held \cup {d}, acked' = acked \cup {d}
        PROVE  Promise!StoreAndAcknowledge(d)
    BY <1>4 DEF Promise!StoreAndAcknowledge
  <1> QED
    BY <1>1, <1>2, <1>3, <1>4 DEF DocsStep, Promise!Next

\* Ending without an answer, as a step of DocumentSet.
LEMMA MappedFails ==
  ASSUME NEW S \in SUBSET Searches, \A s \in S : find[s] \in {"new", "fetch"},
         find' = [s \in Searches |-> IF s \in S THEN "failed" ELSE find[s]],
         UNCHANGED <<hits, seen, room>>
  PROVE  Promise!Fails(S)
  <1>1. Phase' = [s \in Searches |-> IF s \in S THEN "failed" ELSE Phase[s]]
    BY DEF Phase
  <1>2. \A s \in Searches : find[s] = "done" <=> find'[s] = "done"
    OBVIOUS
  <1>3. UNCHANGED Found
    BY <1>2 DEF Found
  <1>4. UNCHANGED Short
    BY <1>2 DEF Short
  <1>5. \A s \in S : Phase[s] \in {"new", "open"}
    BY DEF Phase
  <1> QED
    BY <1>1, <1>3, <1>4, <1>5 DEF Promise!Fails, Promise!answerVars

\* The first read of a search begins it.
LEMMA MappedBegin ==
  ASSUME TypeOK, NEW s \in Searches, SearchSummaries(s)
  PROVE  Promise!Begin(s)
  <1>1. /\ find[s] = "new" /\ find' = [find EXCEPT ![s] = "fetch"]
        /\ seen' = [seen EXCEPT ![s] = acked] /\ UNCHANGED <<summaries, rows, acked, hits>>
        /\ \A t \in Searches : t # s => room'[t] = room[t]
    BY DEF TypeOK, SearchSummaries, storeVars
  <1>2. Phase[s] = "new" /\ Phase' = [Phase EXCEPT ![s] = "open"]
    BY <1>1 DEF TypeOK, Phase
  <1>3. \A t \in Searches : find[t] = "done" <=> find'[t] = "done"
    BY <1>1 DEF TypeOK
  <1>4. UNCHANGED Found
    BY <1>1, <1>3 DEF Found
  <1>5. UNCHANGED Short
    <2>1. \A t \in Searches : (find'[t] = "done" /\ ~room'[t]) = (find[t] = "done" /\ ~room[t])
      BY <1>1, <1>3 DEF TypeOK
    <2> QED
      BY <2>1 DEF Short
  <1>6. UNCHANGED Held
    BY <1>1 DEF Held
  <1> QED
    BY <1>1, <1>2, <1>4, <1>5, <1>6 DEF Promise!Begin, Promise!docVars, Promise!answerVars

\* The last step of a search answers it: with documents held, and all it owes when
\* nothing was cut.
LEMMA MappedFinish ==
  ASSUME IInv, SearchFindsAcked', NEW s \in Searches, RankChunks(s)
  PROVE  \E ds \in SUBSET Held, cut \in BOOLEAN : Promise!Finish(s, ds, cut)
  <1> DEFINE ds == {r.doc : r \in hits'[s]}
             cut == ~room'[s]
  <1>0. TypeOK /\ FoundInv
    BY DEF IInv
  <1>1. /\ find[s] = "fetch" /\ find' = [find EXCEPT ![s] = "done"]
        /\ UNCHANGED <<summaries, rows, acked, seen>>
        /\ \A t \in Searches : t # s => hits'[t] = hits[t] /\ room'[t] = room[t]
    BY <1>0 DEF TypeOK, RankChunks, storeVars
  <1>2. hits'[s] \subseteq hits[s]
    BY <1>0 DEF TypeOK, RankChunks, CutTo
  <1>3. ds \in SUBSET Held
    BY <1>0, <1>1, <1>2 DEF FoundInv
  <1>4. find'[s] = "done" /\ \A t \in Searches : t # s => find'[t] = find[t]
    BY <1>0, <1>1 DEF TypeOK
  <1>5. cut \in BOOLEAN /\ (cut \/ seen[s] \subseteq ds)
    BY <1>1, <1>4 DEF SearchFindsAcked
  <1>6. Phase[s] = "open" /\ Phase' = [Phase EXCEPT ![s] = "done"]
    BY <1>0, <1>1, <1>4 DEF TypeOK, Phase
  <1>7. Found' = [Found EXCEPT ![s] = ds]
    BY <1>1, <1>4 DEF Found
  <1>8. Short' = [Short EXCEPT ![s] = cut]
    BY <1>1, <1>4 DEF Short
  <1>9. UNCHANGED Held
    BY <1>1 DEF Held
  <1>10. Promise!Finish(s, ds, cut)
    <2> HIDE DEF ds, cut
    <2> QED
      BY <1>1, <1>5, <1>6, <1>7, <1>8, <1>9 DEF Promise!Finish, Promise!docVars
  <1> QED
    BY <1>3, <1>5, <1>10

\* A crash ends the running searches, and with a memory store loses the documents.
LEMMA MappedCrash ==
  ASSUME TypeOK, Crash
  PROVE  Promise!Next
  <1> DEFINE open == {s \in Searches : find[s] = "fetch"}
  <1>1. /\ find' = [s \in Searches |-> IF find[s] = "fetch" THEN "failed" ELSE find[s]]
        /\ UNCHANGED <<hits, seen, room>>
    BY DEF Crash
  <1>2. Promise!Fails(open)
    BY <1>1, MappedFails
  <1>3. CASE RemoteStore
    <2>1. UNCHANGED <<Held, acked>>
      BY <1>3 DEF Crash, Held
    <2>2. Promise!GiveUp(open)
      BY <1>2, <2>1 DEF Promise!GiveUp, Promise!docVars
    <2> QED
      BY <2>2 DEF Promise!Next
  <1>4. CASE ~RemoteStore
    <2>1. Held' = {} /\ acked' = {}
      BY <1>4 DEF Crash, Held
    <2>2. open = {s \in Searches : Phase[s] = "open"}
      BY DEF TypeOK, FindPoints, Phase
    <2>3. Promise!Lose
      BY <1>2, <1>4, <2>1, <2>2 DEF Promise!Lose
    <2> QED
      BY <2>3 DEF Promise!Next
  <1> QED
    BY <1>3, <1>4

\* Every step stores, acknowledges, loses or searches as DocumentSet does, or is no
\* step of it.
LEMMA StepImplements ==
  IInv /\ SearchFindsAcked' /\ [Next]_vars => [Promise!Next]_(Promise!vars)
  <1> SUFFICES ASSUME IInv, SearchFindsAcked', [Next]_vars PROVE [Promise!Next]_(Promise!vars)
    OBVIOUS
  <1>0. TypeOK /\ WireInv /\ StoreInv /\ ProgressInv
    BY DEF IInv
  <1>1. CASE QuietStep \/ UNCHANGED vars
    <2>1. DocsStep /\ UNCHANGED searchView
      BY <1>1, QuietKeeps, SameView DEF DocsStep
    <2> QED
      BY <2>1, MappedDocs
  <1>2. CASE UploadStep
    BY <1>0, <1>2, UploadsAdd, SameView, MappedDocs
  <1>3. CASE Crash
    BY <1>0, <1>3, MappedCrash
  <1>4. ASSUME NEW s \in Searches, SearchFails(s) PROVE Promise!Next
    <2>1. /\ find[s] \in {"new", "fetch"} /\ UNCHANGED <<hits, seen, room, summaries, rows, acked>>
          /\ find' = [t \in Searches |-> IF t \in {s} THEN "failed" ELSE find[t]]
      BY <1>0, <1>4 DEF TypeOK, SearchFails, storeVars
    <2>2. Promise!Fails({s})
      BY <2>1, MappedFails
    <2>3. UNCHANGED Held
      BY <2>1 DEF Held
    <2>4. Promise!GiveUp({s})
      BY <2>1, <2>2, <2>3 DEF Promise!GiveUp, Promise!docVars
    <2> QED
      BY <2>4 DEF Promise!Next
  <1>5. ASSUME NEW s \in Searches, SearchSummaries(s) PROVE Promise!Next
    BY <1>0, <1>5, MappedBegin DEF Promise!Next
  <1>6. ASSUME NEW s \in Searches, GetChunksBySummaryIDs(s) PROVE [Promise!Next]_(Promise!vars)
    <2>1. /\ find[s] = "fetch" /\ UNCHANGED <<summaries, rows, acked, find, seen, room>>
          /\ \A t \in Searches : t # s => hits'[t] = hits[t]
      BY <1>0, <1>6 DEF TypeOK, GetChunksBySummaryIDs, storeVars
    <2>2. UNCHANGED Found
      BY <2>1 DEF Found
    <2>3. UNCHANGED <<Held, acked>> /\ UNCHANGED searchView
      BY <2>1, <2>2 DEF Held, searchView, Phase, Short
    <2> QED
      BY <2>3, MappedDocs DEF DocsStep
  <1>7. ASSUME NEW s \in Searches, RankChunks(s) PROVE Promise!Next
    BY <1>7, MappedFinish DEF Promise!Next
  <1> QED
    BY <1>1, <1>2, <1>3, <1>4, <1>5, <1>6, <1>7 DEF Next, QuietStep, UploadStep

\* Uploads and searches, with crashes, lost answers and late writes, implement
\* DocumentSet.
THEOREM Refinement == Spec => KeepsPromise
  <1>1. Init => Promise!Init
    <2> SUFFICES ASSUME Init PROVE Promise!Init
      OBVIOUS
    <2>1. Held = {} /\ acked = {} /\ seen = [s \in Searches |-> {}]
      BY DEF Init, Held
    <2>2. Phase = [s \in Searches |-> "new"] /\ Found = [s \in Searches |-> {}]
      BY DEF Init, Phase, Found
    <2>3. Short = [s \in Searches |-> FALSE]
      BY DEF Init, Short
    <2> QED
      BY <2>1, <2>2, <2>3 DEF Promise!Init
  <1>2. IInv' => SearchFindsAcked'
    BY DEF IInv
  <1>3. IInv /\ IInv' /\ [Next]_vars => [Promise!Next]_(Promise!vars)
    BY <1>2, StepImplements
  <1> QED
    BY <1>1, <1>3, Inductive, PTL DEF Spec, KeepsPromise, Promise!Spec
=============================================================================
