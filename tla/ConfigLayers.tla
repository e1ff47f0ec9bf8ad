---------------------------- MODULE ConfigLayers ----------------------------
(***************************************************************************)
(* How config.Load builds the configuration (internal/config/config.go):   *)
(* built-in values, then the settings of the base file with those of the   *)
(* APP_ENV file over them, then the environment, then validate.            *)
(*                                                                         *)
(* Abstractions.  A setting is one of six keys: the shared API key and the *)
(* two specific ones, which interact, and USE_OPENAI, CHUNK_SIZE and       *)
(* CHUNK_OVERLAP, read and applied like every other key.  A file gives     *)
(* values to places, flat names or paths of nested sections.  Blank is a   *)
(* text of nothing but white space, Malformed a value of a wrong type or   *)
(* form, and what else a value says is kept.                               *)
(***************************************************************************)
EXTENDS Integers, Sequences

CONSTANTS
    Inputs,          \* what a start of the process may find: files and environment
    BuiltinSize,     \* builtinDefaults: ChunkSize
    BuiltinOverlap,  \* builtinDefaults: ChunkOverlap
    MinSize,         \* the least CHUNK_SIZE validate accepts
    Blank,           \* an empty text
    Malformed,       \* a value that cannot be converted
    NoFile,          \* a file that does not exist
    BadFile          \* a file that is not a JSON object

VARIABLES
    phase,     \* how far Load has come
    input,     \* the files and the environment of this start
    fileKV,    \* the merged settings of the files
    cfg        \* the configuration so far

configVars == <<phase, input, fileKV, cfg>>

Keys == {"shared", "llm", "embedding", "use", "size", "overlap"}
Services == {"llm", "embedding"}
ApiKeys == {"shared"} \cup Services

\* The places toCanonicalKV reads a key from, in its order: the last one set wins.
Places == [
    shared    |-> <<"OPENAI_API_KEY", "llm.openai_api_key">>,
    llm       |-> <<"OPENAI_LLM_API_KEY", "llm.openai_llm_api_key", "llm.openai_api_key">>,
    embedding |-> <<"OPENAI_EMBEDDING_API_KEY", "embedding.openai_embedding_api_key",
                    "embedding.openai_api_key">>,
    use       |-> <<"USE_OPENAI", "llm.use_openai">>,
    size      |-> <<"CHUNK_SIZE", "retrieval.chunk_size">>,
    overlap   |-> <<"CHUNK_OVERLAP", "retrieval.chunk_overlap">>]

\* What a setting may be given.
Given(k) ==
    {Blank, Malformed} \cup
        (IF k \in ApiKeys THEN STRING ELSE IF k = "use" THEN BOOLEAN ELSE Int)

IsFile(f) ==
    f \in {NoFile, BadFile} \/
        \A k \in Keys : \A i \in DOMAIN Places[k] :
            Places[k][i] \in DOMAIN f => f[Places[k][i]] \in Given(k)

ASSUME InputsAssumption ==
    \A i \in Inputs :
        /\ i.configFile \in BOOLEAN /\ i.appEnv \in BOOLEAN
        /\ IsFile(i.base) /\ IsFile(i.overlay)
        /\ DOMAIN i.env \subseteq Keys /\ \A k \in DOMAIN i.env : i.env[k] \in Given(k)

ASSUME SizesAssumption ==
    /\ BuiltinSize \in Int /\ BuiltinOverlap \in Int
    /\ MinSize \in Nat \ {0}
    /\ Malformed \notin Int \cup BOOLEAN /\ Blank \notin Int \cup BOOLEAN

\* Where a key's own value is written, without the places of the shared key.
OwnPlaces(k) == {Places[k][1], Places[k][2]}

Builtin == [use |-> FALSE, llm |-> Blank, embedding |-> Blank,
            size |-> BuiltinSize, overlap |-> BuiltinOverlap]

\* toCanonicalKV: the keys a file sets and their values; a missing file sets none.
CanonicalKV(raw) ==
    IF raw = NoFile THEN [k \in {} |-> Blank]
    ELSE LET SetAt(k) == {i \in DOMAIN Places[k] : Places[k][i] \in DOMAIN raw}
             Winner(k) == CHOOSE i \in SetAt(k) : \A j \in SetAt(k) : j <= i
         IN  [k \in {x \in Keys : SetAt(x) # {}} |-> raw[Places[k][Winner(k)]]]

Over(top, below) ==
    [k \in DOMAIN top \cup DOMAIN below |-> IF k \in DOMAIN top THEN top[k] ELSE below[k]]

MergedUnder(base, overlay) == Over(CanonicalKV(base), CanonicalKV(overlay))
\* loadConfigFileKV: the APP_ENV file's keys replace those of the base file.
Merged(base, overlay) == Over(CanonicalKV(overlay), CanonicalKV(base))

\* currentEnvKV: blank variables count as not set.
EnvKV(env) == [k \in {x \in DOMAIN env : env[x] # Blank} |-> env[k]]

\* The API key of a service: the shared one is assigned first, the specific one over it.
KeyFor(kv, s, old) ==
    IF s \in DOMAIN kv THEN kv[s] ELSE IF "shared" \in DOMAIN kv THEN kv["shared"] ELSE old

Plain(kv, k, old) == IF k \in DOMAIN kv THEN kv[k] ELSE old

\* applyKV, for settings that can all be converted.
ApplyKV(c, kv) ==
    [use |-> Plain(kv, "use", c.use), llm |-> KeyFor(kv, "llm", c.llm),
     embedding |-> KeyFor(kv, "embedding", c.embedding),
     size |-> Plain(kv, "size", c.size), overlap |-> Plain(kv, "overlap", c.overlap)]
\* kvInt and kvBool refuse a blank, kvString does not.
Convertible(kv) ==
    \A k \in DOMAIN kv : kv[k] # Malformed /\ (kv[k] = Blank => k \in ApiKeys)

ValidOverlapUnbounded(c) == c.overlap >= 0
ValidOverlap(c) == c.overlap >= 0 /\ c.overlap < c.size
\* validate, the checks of these keys.
Valid(c) ==
    /\ c.size >= MinSize /\ ValidOverlap(c)
    /\ c.use => c.llm # Blank /\ c.embedding # Blank

-----------------------------------------------------------------------------
ConfigInit ==
    /\ phase = "start" /\ input \in Inputs
    /\ fileKV = [k \in {} |-> Blank] /\ cfg = Builtin

\* main panics: the process does not start.
Refused == phase' = "refused" /\ UNCHANGED <<input, fileKV, cfg>>

\* readJSONFile: a file that is not JSON is an error, and a missing one when CONFIG_FILE
\* or APP_ENV asks for it.
Unreadable(f, required) == f = BadFile \/ (f = NoFile /\ required)

ReadFiles ==
    /\ phase = "start"
    /\ IF Unreadable(input.base, input.configFile) \/ Unreadable(input.overlay, input.appEnv)
       THEN Refused
       ELSE /\ fileKV' = Merged(input.base, input.overlay)
            /\ phase' = "files" /\ UNCHANGED <<input, cfg>>

ApplyFiles ==
    /\ phase = "files"
    /\ IF Convertible(fileKV)
       THEN cfg' = ApplyKV(cfg, fileKV) /\ phase' = "env" /\ UNCHANGED <<input, fileKV>>
       ELSE Refused

ApplyEnv ==
    /\ phase = "env"
    /\ IF Convertible(EnvKV(input.env))
       THEN cfg' = ApplyKV(cfg, EnvKV(input.env)) /\ phase' = "validate" /\ UNCHANGED <<input, fileKV>>
       ELSE Refused

Validate ==
    /\ phase = "validate"
    /\ IF Valid(cfg) THEN phase' = "loaded" /\ UNCHANGED <<input, fileKV, cfg>> ELSE Refused

Load == ReadFiles \/ ApplyFiles \/ ApplyEnv \/ Validate

-----------------------------------------------------------------------------
(* Properties.                                                             *)

\* The order README.md gives: the environment over the APP_ENV file over the base
\* file over the built-in values.  It holds for each setting of its own; for an API
\* key the specific variable of the environment is over the shared one, and either
\* is over whatever the files say.
EnvWins ==
    phase = "loaded" =>
        LET env == {k \in DOMAIN input.env : input.env[k] # Blank}
            From(file, k) == IF file = NoFile THEN {} ELSE DOMAIN file \cap OwnPlaces(k)
        IN  /\ \A k \in {"size", "overlap", "use"} :
                 /\ k \in env => cfg[k] = input.env[k]
                 /\ k \notin env /\ From(input.overlay, k) # {} =>
                       \E p \in From(input.overlay, k) : cfg[k] = input.overlay[p]
                 /\ k \notin env /\ From(input.overlay, k) = {} /\ From(input.base, k) # {} =>
                       \E p \in From(input.base, k) : cfg[k] = input.base[p]
                 /\ k \notin env /\ From(input.overlay, k) = {} /\ From(input.base, k) = {} =>
                       cfg[k] = Builtin[k]
            /\ \A s \in Services :
                 /\ s \in env => cfg[s] = input.env[s]
                 /\ s \notin env /\ "shared" \in env => cfg[s] = input.env["shared"]

\* README.md: "`OPENAI_API_KEY`：兼容兜底" (a fallback for compatibility), beside
\* "`OPENAI_LLM_API_KEY`：仅用于 LLM/chat" (for the model only).  The model's own key,
\* set in the APP_ENV file and by no later layer, is the one the model gets.
SpecificKeyWins ==
    phase = "loaded" /\ input.overlay # NoFile =>
        LET own == OwnPlaces("llm") \cap DOMAIN input.overlay
            set == {k \in DOMAIN input.env : input.env[k] # Blank}
        IN  own # {} /\ set \cap {"llm", "shared"} = {} =>
                \E p \in own : cfg.llm = input.overlay[p]

=============================================================================
