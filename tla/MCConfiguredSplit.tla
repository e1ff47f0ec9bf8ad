------------------------- MODULE MCConfiguredSplit --------------------------
(* The starts TLC tries.  One family gives API keys and USE_OPENAI in every *)
(* layer, the other CHUNK_SIZE and CHUNK_OVERLAP.                           *)
EXTENDS ConfiguredSplit, TLC

\* A key k that is absent or has one of the values V, beside the settings of f.
With(F, k, V) == F \cup {f @@ (k :> v) : f \in F, v \in V}
None == {[k \in {} |-> Blank]}

Start(b, o, e, file, profile) ==
    [base |-> b, overlay |-> o, env |-> e, configFile |-> file, appEnv |-> profile]

KeyBases == {NoFile} \cup With(With(None, "OPENAI_API_KEY", {"base"}), "llm.openai_llm_api_key", {"own"})
KeyOverlays ==
    {NoFile, BadFile} \cup
    With(With(With(None, "OPENAI_API_KEY", {"over", Malformed}), "llm.openai_api_key", {"section", Blank}),
         "llm.openai_llm_api_key", {"mine"})
KeyEnvs == With(With(With(None, "shared", {"any", Blank}), "llm", {"var"}), "use", {TRUE})

SizeBases == With(With(None, "CHUNK_SIZE", {4}), "retrieval.chunk_overlap", {0})
SizeOverlays == With(With(None, "retrieval.chunk_size", {2, 5, Blank}), "CHUNK_OVERLAP", {2})
SizeEnvs == With(With(None, "size", {1, 3, Malformed, Blank}), "overlap", {-1, 1, 3})

MCInputs ==
    {Start(b, o, e, FALSE, p) : b \in KeyBases, o \in KeyOverlays \ {NoFile}, e \in KeyEnvs, p \in {TRUE}}
        \cup {Start(b, NoFile, e, FALSE, p) : b \in KeyBases, e \in KeyEnvs, p \in BOOLEAN}
        \cup {Start(NoFile, NoFile, e, TRUE, FALSE) : e \in KeyEnvs}
        \cup {Start(b, o, e, TRUE, TRUE) : b \in SizeBases, o \in SizeOverlays, e \in SizeEnvs}

=============================================================================
