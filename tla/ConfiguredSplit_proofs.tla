----------------------- MODULE ConfiguredSplit_proofs -----------------------
(* Theorems about ConfiguredSplit: the configuration a process ends up with *)
(* and the text it cuts, for any files, environment, sizes and texts.       *)
EXTENDS ConfiguredSplit, WellFoundedInduction, TLAPS

\* Settings with values a file or a variable may give them.
Settings(kv) == DOMAIN kv \subseteq Keys /\ \A k \in DOMAIN kv : kv[k] \in Given(k)

\* The steps of Load and what each has computed.
ConfigInv ==
    /\ phase \in {"start", "files", "env", "validate", "loaded", "refused"}
    /\ input \in Inputs
    /\ Settings(fileKV)
    /\ cfg.use \in BOOLEAN /\ cfg.size \in Int /\ cfg.overlap \in Int
    /\ phase \in {"start", "files"} => cfg = Builtin
    /\ phase \in {"files", "env", "validate", "loaded"} =>
          /\ fileKV = Merged(input.base, input.overlay)
          /\ input.base # BadFile /\ input.overlay # BadFile
    /\ phase = "env" => cfg = ApplyKV(Builtin, fileKV)
    /\ phase \in {"validate", "loaded"} =>
          cfg = ApplyKV(ApplyKV(Builtin, fileKV), EnvKV(input.env))
    /\ phase = "loaded" => Valid(cfg)

\* The chunks cut so far, with the sizes of a configuration that was loaded.  A chunk is
\* one of its window, and the windows lie apart by a step or more.
CutInv ==
    /\ cutting \in {"idle", "running", "done"}
    /\ len \in 0 .. MaxLen /\ solid \subseteq 0 .. len - 1
    /\ size \in Int /\ overlap \in Int /\ start \in Nat
    /\ out \subseteq [at : 0 .. len - 1, first : solid, last : solid]
    /\ cutting = "idle" => out = {}
    /\ cutting # "idle" => phase = "loaded" /\ size = cfg.size /\ overlap = cfg.overlap
    /\ cutting = "running" =>
          /\ start < len
          /\ \A c \in out : c.at + size <= start + overlap /\ c.last < len - 1
    /\ \A c \in out : c.at <= c.first /\ c.last < c.at + size
    /\ \A c, d \in out : c # d =>
          /\ c.at # d.at
          /\ c.at < d.at => c.at + size <= d.at + overlap
          /\ c.last = len - 1 => d.last # len - 1

\* The runes a to b are in one chunk.
InOneChunk(a, b) == \E c \in out : c.first <= a /\ b <= c.last

\* Every phrase that begins before n is whole in a chunk.
KeptBefore(n) ==
    \A a, b \in solid : a <= b /\ b - a <= overlap /\ a < n => InOneChunk(a, b)

PhraseInv ==
    /\ cutting = "running" => KeptBefore(start)
    /\ cutting = "done" => KeptBefore(len)

IInv == ConfigInv /\ CutInv /\ PhraseInv

-----------------------------------------------------------------------------
(* The layers.                                                             *)

\* A set of positions 1 to 3 that is not empty has a last one.
LEMMA LastOfThree ==
  ASSUME NEW S \in SUBSET (1 .. 3), S # {}
  PROVE  \E i \in S : \A j \in S : j <= i
<1>1. CASE 3 \in S
  BY <1>1
<1>2. CASE 3 \notin S /\ 2 \in S
  BY <1>2
<1>3. CASE 3 \notin S /\ 2 \notin S
  <2>1. \A j \in S : j = 1
    BY <1>3
  <2>2. 1 \in S
    BY <2>1
  <2> QED
    BY <2>1, <2>2
<1> QED
  BY <1>1, <1>2, <1>3

\* Every key has at most three places.
LEMMA PlacesOf == \A k \in Keys : DOMAIN Places[k] \subseteq 1 .. 3
  BY DEF Keys, Places

\* A file that can be read gives settings.
LEMMA CanonicalSettings ==
  ASSUME NEW f, IsFile(f), f # BadFile
  PROVE  /\ Settings(CanonicalKV(f))
         /\ f = NoFile => DOMAIN CanonicalKV(f) = {}
         /\ f # NoFile => \A k \in Keys :
                /\ k \in DOMAIN CanonicalKV(f) <=>
                      \E i \in DOMAIN Places[k] : Places[k][i] \in DOMAIN f
                /\ k \in DOMAIN CanonicalKV(f) =>
                      \E i \in DOMAIN Places[k] :
                         Places[k][i] \in DOMAIN f /\ CanonicalKV(f)[k] = f[Places[k][i]]
<1>1. CASE f = NoFile
  BY <1>1 DEF CanonicalKV, Settings
<1>2. CASE f # NoFile
  <2> DEFINE SetAt(k) == {i \in DOMAIN Places[k] : Places[k][i] \in DOMAIN f}
             Winner(k) == CHOOSE i \in SetAt(k) : \A j \in SetAt(k) : j <= i
  <2>1. CanonicalKV(f) = [k \in {x \in Keys : SetAt(x) # {}} |-> f[Places[k][Winner(k)]]]
    BY <1>2 DEF CanonicalKV
  <2>2. ASSUME NEW k \in Keys, SetAt(k) # {}
        PROVE  Winner(k) \in SetAt(k)
    <3>1. SetAt(k) \in SUBSET (1 .. 3)
      BY PlacesOf
    <3>2. \E i \in SetAt(k) : \A j \in SetAt(k) : j <= i
      BY <2>2, <3>1, LastOfThree
    <3> QED
      BY <3>2
  <2>3. \A k \in Keys : \A i \in DOMAIN Places[k] :
            Places[k][i] \in DOMAIN f => f[Places[k][i]] \in Given(k)
    BY <1>2 DEF IsFile
  <2>4. ASSUME NEW k \in Keys, SetAt(k) # {}
        PROVE  /\ Winner(k) \in DOMAIN Places[k]
               /\ Places[k][Winner(k)] \in DOMAIN f
               /\ CanonicalKV(f)[k] = f[Places[k][Winner(k)]]
               /\ CanonicalKV(f)[k] \in Given(k)
    <3> HIDE DEF Winner
    <3>1. Winner(k) \in SetAt(k)
      BY <2>2, <2>4
    <3>2. CanonicalKV(f)[k] = f[Places[k][Winner(k)]]
      BY <2>1, <2>4
    <3> QED
      BY <3>1, <3>2, <2>3
  <2>5. DOMAIN CanonicalKV(f) = {x \in Keys : SetAt(x) # {}}
    BY <2>1
  <2> HIDE DEF Winner
  <2> QED
    BY <1>2, <2>4, <2>5 DEF Settings
<1> QED
  BY <1>1, <1>2

\* One layer over another.
LEMMA OverSettings ==
  ASSUME NEW top, NEW below, Settings(top), Settings(below)
  PROVE  /\ Settings(Over(top, below))
         /\ DOMAIN Over(top, below) = DOMAIN top \cup DOMAIN below
         /\ \A k \in DOMAIN top : Over(top, below)[k] = top[k]
         /\ \A k \in DOMAIN below \ DOMAIN top : Over(top, below)[k] = below[k]
  BY DEF Over, Settings

\* What ApplyKV makes of a configuration, for settings that can be converted.
LEMMA ApplyTyped ==
  ASSUME NEW c, NEW kv, Settings(kv), Convertible(kv),
         c.use \in BOOLEAN, c.size \in Int, c.overlap \in Int
  PROVE  /\ ApplyKV(c, kv).use \in BOOLEAN
         /\ ApplyKV(c, kv).size \in Int
         /\ ApplyKV(c, kv).overlap \in Int
<1>1. /\ ApplyKV(c, kv).use = Plain(kv, "use", c.use)
      /\ ApplyKV(c, kv).size = Plain(kv, "size", c.size)
      /\ ApplyKV(c, kv).overlap = Plain(kv, "overlap", c.overlap)
  BY DEF ApplyKV
<1>2. \A k \in DOMAIN kv : k \notin ApiKeys =>
          kv[k] \in Given(k) /\ kv[k] # Malformed /\ kv[k] # Blank
  BY DEF Settings, Convertible
<1>3. Plain(kv, "use", c.use) \in BOOLEAN
  BY <1>2, Zenon DEF Plain, Given, ApiKeys, Services
<1>4. Plain(kv, "size", c.size) \in Int
  BY <1>2 DEF Plain, Given, ApiKeys, Services
<1>5. Plain(kv, "overlap", c.overlap) \in Int
  BY <1>2 DEF Plain, Given, ApiKeys, Services
<1> QED
  BY <1>1, <1>3, <1>4, <1>5

\* The environment without its blanks gives settings.
LEMMA EnvSettings ==
  ASSUME NEW i \in Inputs
  PROVE  /\ Settings(EnvKV(i.env))
         /\ DOMAIN EnvKV(i.env) = {k \in DOMAIN i.env : i.env[k] # Blank}
         /\ \A k \in DOMAIN EnvKV(i.env) : EnvKV(i.env)[k] = i.env[k]
  BY InputsAssumption DEF EnvKV, Settings

-----------------------------------------------------------------------------
(* Trimming a window.                                                      *)

\* A set of natural numbers that is not empty has a least one.
LEMMA LeastOf ==
  ASSUME NEW S \in SUBSET Nat, S # {}
  PROVE  \E m \in S : \A k \in S : m <= k
<1> DEFINE R == OpToRel(<, Nat)
<1>1. IsWellFoundedOn(R, Nat)
  BY NatLessThanWellFounded
<1>2. \A x, y \in Nat : <<x, y>> \in R <=> x < y
  BY DEF OpToRel
<1> HIDE DEF R
<1>3. \E m \in S : \A k \in S : ~(<<k, m>> \in R)
  BY <1>1, WFMin
<1>4. \E m \in S : \A k \in S : ~(k < m)
  BY <1>2, <1>3, Zenon
<1> QED
  BY <1>4

\* A set of natural numbers with a bound has a greatest one: the bound less that one is
\* the least of what the bound exceeds its numbers by.
LEMMA GreatestOf ==
  ASSUME NEW n \in Nat, NEW S \in SUBSET (0 .. n), S # {}
  PROVE  \E m \in S : \A k \in S : k <= m
<1> DEFINE T == {i \in 0 .. n : n - i \in S}
<1>1. T \in SUBSET Nat
  OBVIOUS
<1>2. T # {}
  <2>1. PICK k \in S : TRUE
    OBVIOUS
  <2>2. k \in 0 .. n
    OBVIOUS
  <2>3. n - k \in 0 .. n /\ n - (n - k) = k
    BY <2>2
  <2>4. n - k \in T
    BY <2>1, <2>3
  <2> QED
    BY <2>4
<1>3. \A k \in S : n - k \in T
  <2>1. \A k \in 0 .. n : n - k \in 0 .. n /\ n - (n - k) = k
    OBVIOUS
  <2> QED
    BY <2>1
<1>4. \A i \in T : i \in 0 .. n /\ n - i \in S
  OBVIOUS
<1> HIDE DEF T
<1>5. PICK i \in T : \A j \in T : i <= j
  BY <1>1, <1>2, LeastOf
<1>6. \A k \in S : k <= n - i
  <2>1. ASSUME NEW k \in S PROVE k <= n - i
    <3>1. i <= n - k
      BY <1>3, <1>5
    <3> QED
      BY <1>4, <3>1
  <2> QED
    BY <2>1
<1> QED
  BY <1>4, <1>6

\* A window with a solid rune gives one chunk, from its first to its last solid rune, and
\* any other gives none.
LEMMA ChunkOfWindow ==
  ASSUME NEW n \in Nat, solid \subseteq 0 .. n, NEW from \in Int, NEW to \in Int
  PROVE  /\ \A c \in Chunk(from, to) :
               /\ c \in [at : {from}, first : solid, last : solid]
               /\ from <= c.first /\ c.last < to
               /\ \A p \in solid : from <= p /\ p < to => c.first <= p /\ p <= c.last
         /\ \A c, d \in Chunk(from, to) : c = d
         /\ (\E p \in solid : from <= p /\ p < to) => Chunk(from, to) # {}
<1> DEFINE in == {p \in solid : from <= p /\ p < to}
<1>1. in \in SUBSET (0 .. n) /\ in \subseteq solid
  OBVIOUS
<1>2. /\ \A p \in in : p \in Int /\ from <= p /\ p < to
      /\ \A p \in solid : from <= p /\ p < to => p \in in
  BY <1>1
<1>3. Chunk(from, to) = {c \in [at : {from}, first : in, last : in] :
                            \A p \in in : c.first <= p /\ p <= c.last}
  BY DEF Chunk
<1> HIDE DEF in
<1>4. ASSUME NEW c \in Chunk(from, to)
      PROVE  /\ c \in [at : {from}, first : in, last : in]
             /\ \A p \in in : c.first <= p /\ p <= c.last
  BY <1>3
<1>5. ASSUME NEW c \in Chunk(from, to), NEW d \in Chunk(from, to)
      PROVE  c = d
  <2>1. c.first = d.first /\ c.last = d.last /\ c.at = d.at
    BY <1>2, <1>4
  <2> QED
    BY <1>4, <2>1
<1>6. ASSUME in # {} PROVE Chunk(from, to) # {}
  <2>1. PICK a \in in : \A p \in in : a <= p
    BY <1>1, <1>6, LeastOf
  <2>2. PICK b \in in : \A p \in in : p <= b
    BY <1>1, <1>6, GreatestOf
  <2>3. [at |-> from, first |-> a, last |-> b] \in Chunk(from, to)
    BY <1>3, <2>1, <2>2
  <2> QED
    BY <2>3
<1>7. \A c \in Chunk(from, to) :
          /\ c \in [at : {from}, first : solid, last : solid]
          /\ from <= c.first /\ c.last < to
          /\ \A p \in solid : from <= p /\ p < to => c.first <= p /\ p <= c.last
  BY <1>1, <1>2, <1>4
<1> QED
  BY <1>2, <1>5, <1>6, <1>7

-----------------------------------------------------------------------------
(* The invariant.                                                          *)

LEMMA Initially == Init => IInv
<1> SUFFICES ASSUME Init PROVE IInv
  OBVIOUS
<1>1. ConfigInv
  <2>1. Settings(fileKV)
    BY DEF Init, ConfigInit, Settings
  <2>2. cfg.use \in BOOLEAN /\ cfg.size \in Int /\ cfg.overlap \in Int
    BY SizesAssumption DEF Init, ConfigInit, Builtin
  <2> QED
    BY <2>1, <2>2 DEF Init, ConfigInit, ConfigInv
<1>2. CutInv
  BY MaxLenAssumption DEF Init, SplitInit, CutInv
<1>3. PhraseInv
  BY DEF Init, SplitInit, PhraseInv
<1> QED
  BY <1>1, <1>2, <1>3 DEF IInv

\* The steps of Load keep what is said of the configuration.
LEMMA LoadKeepsConfig ==
  ASSUME ConfigInv, Load
  PROVE  ConfigInv' /\ phase # "loaded"
<1> USE DEF ConfigInv
<1>1. CASE Refused /\ phase # "loaded"
  BY <1>1 DEF Refused
<1>2. CASE ReadFiles /\ ~Refused
  <2>1. /\ input.base # BadFile /\ input.overlay # BadFile
        /\ IsFile(input.base) /\ IsFile(input.overlay)
    BY <1>2, InputsAssumption DEF ReadFiles, Unreadable
  <2>2. Settings(Merged(input.base, input.overlay))
    BY <2>1, CanonicalSettings, OverSettings DEF Merged
  <2> QED
    BY <1>2, <2>1, <2>2 DEF ReadFiles
<1>3. CASE ApplyFiles /\ ~Refused
  <2>1. cfg' = ApplyKV(cfg, fileKV) /\ Convertible(fileKV)
    BY <1>3 DEF ApplyFiles
  <2>2. cfg'.use \in BOOLEAN /\ cfg'.size \in Int /\ cfg'.overlap \in Int
    BY <2>1, ApplyTyped
  <2> QED
    BY <1>3, <2>1, <2>2 DEF ApplyFiles
<1>4. CASE ApplyEnv /\ ~Refused
  <2>1. cfg' = ApplyKV(cfg, EnvKV(input.env)) /\ Convertible(EnvKV(input.env))
    BY <1>4 DEF ApplyEnv
  <2>2. cfg'.use \in BOOLEAN /\ cfg'.size \in Int /\ cfg'.overlap \in Int
    BY <2>1, ApplyTyped, EnvSettings
  <2> QED
    BY <1>4, <2>1, <2>2 DEF ApplyEnv
<1>5. CASE Validate /\ ~Refused
  BY <1>5 DEF Validate
<1> QED
  BY <1>1, <1>2, <1>3, <1>4, <1>5 DEF Load, ReadFiles, ApplyFiles, ApplyEnv, Validate

\* The cut starts with the sizes of a valid configuration.
LEMMA BeginKeeps ==
  ASSUME ConfigInv, CutInv, Upload
  PROVE  CutInv' /\ PhraseInv'
<1>1. PICK n \in 1 .. MaxLen :
         \E s \in SUBSET (0 .. n - 1) : BeginCut(n, s, cfg.size, cfg.overlap)
  BY DEF Upload
<1>2. PICK s \in SUBSET (0 .. n - 1) : BeginCut(n, s, cfg.size, cfg.overlap)
  BY <1>1
<1>3. /\ cfg.size \in Int /\ cfg.overlap \in Int
      /\ cfg.size > 0 /\ cfg.overlap >= 0 /\ cfg.overlap < cfg.size
  BY SizesAssumption DEF Upload, ConfigInv, Valid, ValidOverlap
<1>4. /\ len' = n /\ solid' = s /\ size' = cfg.size /\ overlap' = cfg.overlap
      /\ start' = 0 /\ out' = {} /\ cutting' = "running"
      /\ phase' = "loaded" /\ cfg' = cfg
  BY <1>2, <1>3, MaxLenAssumption DEF BeginCut, Upload, configVars
<1>5. CutInv'
  BY <1>3, <1>4, MaxLenAssumption DEF CutInv
<1>6. PhraseInv'
  BY <1>3, <1>4, MaxLenAssumption DEF PhraseInv, KeptBefore
<1> QED
  BY <1>5, <1>6

\* A window advances by what the overlap leaves of its size, so it leaves no gap and
\* shares no more than the overlap.
LEMMA CutKeeps ==
  ASSUME ConfigInv, CutInv, PhraseInv, Cut, UNCHANGED configVars
  PROVE  CutInv' /\ PhraseInv'
<1>1. /\ len \in Nat /\ len <= MaxLen /\ solid \subseteq 0 .. len - 1
      /\ size \in Int /\ overlap \in Int /\ start \in Nat /\ start < len
      /\ size > 0 /\ overlap >= 0 /\ overlap < size
      /\ phase = "loaded" /\ size = cfg.size /\ overlap = cfg.overlap
  BY SizesAssumption, MaxLenAssumption DEF CutInv, ConfigInv, Valid, ValidOverlap, Cut
<1>2. /\ cutting = "running" /\ cutting' = IF LastWindow THEN "done" ELSE "running"
      /\ len' = len /\ solid' = solid /\ size' = size /\ overlap' = overlap
      /\ start' = start + size - overlap
      /\ phase' = phase /\ cfg' = cfg
      /\ out' = out \cup Chunk(start, End)
  BY <1>1 DEF Cut, Step, configVars
<1>3. /\ End \in 1 .. len /\ start < End /\ End <= start + size
      /\ End = len \/ (End < len /\ End = start + size)
  BY <1>1 DEF End
<1>4. /\ \A c \in Chunk(start, End) :
            /\ c \in [at : {start}, first : solid, last : solid]
            /\ start <= c.first /\ c.last < End
            /\ \A p \in solid : start <= p /\ p < End => c.first <= p /\ p <= c.last
      /\ \A c, d \in Chunk(start, End) : c = d
      /\ (\E p \in solid : start <= p /\ p < End) => Chunk(start, End) # {}
  <2>1. solid \subseteq 0 .. len /\ len \in Nat
    BY <1>1
  <2>2. start \in Int /\ End \in Int
    BY <1>1, <1>3
  <2> QED
    BY <2>1, <2>2, ChunkOfWindow, Zenon
<1>5. \A c \in Chunk(start, End) :
          /\ c \in [at : 0 .. len - 1, first : solid, last : solid]
          /\ c.at = start /\ c.first \in Int /\ c.last \in Int
          /\ start <= c.first /\ c.last < End
  <2>1. [at : {start}, first : solid, last : solid] \subseteq [at : 0 .. len - 1, first : solid, last : solid]
    BY <1>1
  <2>2. \A c \in Chunk(start, End) : c.at = start /\ c.first \in solid /\ c.last \in solid
    BY <1>4
  <2>3. \A p \in solid : p \in Int
    BY <1>1
  <2> QED
    BY <1>4, <2>1, <2>2, <2>3
<1>6. \A c \in out :
          /\ c \in [at : 0 .. len - 1, first : solid, last : solid]
          /\ c.at \in Int /\ c.first \in Int /\ c.last \in Int
          /\ c.at + size <= start + overlap /\ c.last < len - 1
          /\ c.at <= c.first /\ c.last < c.at + size
  <2>1. \A c \in out :
            /\ c \in [at : 0 .. len - 1, first : solid, last : solid]
            /\ c.at + size <= start + overlap /\ c.last < len - 1
            /\ c.at <= c.first /\ c.last < c.at + size
    BY <1>2 DEF CutInv
  <2>2. \A c \in out : c.at \in 0 .. len - 1 /\ c.first \in solid /\ c.last \in solid
    BY <2>1
  <2>3. /\ \A p \in solid : p \in Int
        /\ \A p \in 0 .. len - 1 : p \in Int
    BY <1>1
  <2> QED
    BY <2>1, <2>2, <2>3
<1>7. \A c \in out' : c \in out \/ c \in Chunk(start, End)
  BY <1>2
<1>8. ~LastWindow => End < len /\ start' < len
  BY <1>1, <1>2, <1>3 DEF LastWindow, Step
<1>9. out' \subseteq [at : 0 .. len - 1, first : solid, last : solid]
  BY <1>5, <1>6, <1>7
<1>10. \A c \in out' : c.at <= c.first /\ c.last < c.at + size
  <2>1. \A c \in Chunk(start, End) : c.at <= c.first /\ c.last < c.at + size
    BY <1>1, <1>3, <1>5
  <2> QED
    BY <1>6, <1>7, <2>1
<1>11. ~LastWindow => \A c \in out' : c.at + size <= start' + overlap /\ c.last < len - 1
  <2>1. \A c \in out : c.at + size <= start' + overlap
    BY <1>1, <1>2, <1>6
  <2>2. ~LastWindow => \A c \in Chunk(start, End) :
            c.at + size <= start' + overlap /\ c.last < len - 1
    BY <1>1, <1>2, <1>3, <1>5, <1>8
  <2> QED
    BY <1>6, <1>7, <2>1, <2>2
<1>12. ASSUME NEW c \in out', NEW d \in out', c # d
       PROVE  /\ c.at # d.at
              /\ c.at < d.at => c.at + size <= d.at + overlap
              /\ c.last = len - 1 => d.last # len - 1
  <2>1. CASE c \in out /\ d \in out
    BY <1>12, <2>1 DEF CutInv
  <2>2. CASE c \in out /\ d \in Chunk(start, End)
    BY <1>1, <1>5, <1>6, <2>2
  <2>3. CASE c \in Chunk(start, End) /\ d \in out
    BY <1>1, <1>5, <1>6, <2>3
  <2> QED
    BY <1>4, <1>7, <1>12, <2>1, <2>2, <2>3
<1>13. CutInv'
  <2>1. cutting' \in {"running", "done"} /\ (cutting' = "running" => ~LastWindow)
    BY <1>2
  <2>2. start' \in Nat
    BY <1>1, <1>2
  <2>3. len \in 0 .. MaxLen
    BY DEF CutInv
  <2> QED
    BY <1>1, <1>2, <1>8, <1>9, <1>10, <1>11, <1>12, <2>1, <2>2, <2>3 DEF CutInv
<1>14. ASSUME NEW a \in solid, NEW b \in solid, a <= b, b - a <= overlap,
              a < start' \/ LastWindow
       PROVE  InOneChunk(a, b)'
  <2>1. CASE a < start
    <3>1. InOneChunk(a, b)
      BY <1>2, <1>14, <2>1 DEF PhraseInv, KeptBefore
    <3> QED
      BY <3>1, <1>2 DEF InOneChunk
  <2>2. CASE a >= start
    <3>1. a \in Int /\ b \in Int /\ b < len
      BY <1>1
    <3>2. b < End
      BY <1>1, <1>2, <1>3, <1>14, <2>2, <3>1 DEF LastWindow, Step
    <3>3. PICK c \in Chunk(start, End) : TRUE
      BY <1>3, <1>4, <1>14, <2>2, <3>1, <3>2
    <3>4. c.first <= a /\ b <= c.last
      BY <1>1, <1>3, <1>4, <1>14, <2>2, <3>1, <3>2
    <3> QED
      BY <1>2, <3>4 DEF InOneChunk
  <2> QED
    BY <1>1, <2>1, <2>2
<1>15. PhraseInv'
  <2>1. \A a \in solid : a < len
    BY <1>1
  <2> QED
    BY <1>1, <1>2, <1>14, <2>1 DEF PhraseInv, KeptBefore
<1> QED
  BY <1>13, <1>15

LEMMA Inductive == Spec => []IInv
<1>1. ASSUME IInv, [Next]_vars PROVE IInv'
  <2>1. CASE Load /\ UNCHANGED splitVars
    <3>1. ConfigInv' /\ phase # "loaded"
      BY <2>1, LoadKeepsConfig, <1>1 DEF IInv
    <3>2. cutting = "idle" /\ out = {}
      BY <3>1, <1>1 DEF IInv, CutInv
    <3> QED
      BY <1>1, <2>1, <3>1, <3>2 DEF IInv, CutInv, PhraseInv, KeptBefore, InOneChunk, splitVars
  <2>2. CASE Upload
    <3>1. ConfigInv'
      BY <1>1, <2>2 DEF IInv, ConfigInv, Upload, configVars
    <3> QED
      BY <1>1, <2>2, <3>1, BeginKeeps DEF IInv
  <2>3. CASE Cut /\ UNCHANGED configVars
    <3>1. ConfigInv'
      BY <1>1, <2>3 DEF IInv, ConfigInv, configVars
    <3> QED
      BY <1>1, <2>3, <3>1, CutKeeps DEF IInv
  <2>4. CASE UNCHANGED vars
    BY <1>1, <2>4 DEF IInv, ConfigInv, CutInv, PhraseInv, KeptBefore, InOneChunk, vars, configVars, splitVars
  <2> QED
    BY <1>1, <2>1, <2>2, <2>3, <2>4 DEF Next
<1> QED
  BY Initially, <1>1, PTL DEF Spec

-----------------------------------------------------------------------------
(* The theorems.                                                           *)

\* Load and splitByRunes keep their variables in their types.
THEOREM TypeCorrect == Spec => []TypeOK
<1>1. IInv => TypeOK
  BY DEF IInv, ConfigInv, CutInv, Settings, TypeOK
<1> QED
  BY Inductive, <1>1, PTL

\* splitByRunes loses no phrase of CHUNK_OVERLAP + 1 runes, whatever sizes the layers
\* gave and validate let through, and whatever the text.
THEOREM PhrasesStayWhole == Spec => []PhrasesKept
<1>0. CutInv => \A a \in solid : a < len
  BY DEF CutInv
<1>1. IInv => PhrasesKept
  BY <1>0 DEF IInv, CutInv, PhraseInv, KeptBefore, InOneChunk, PhrasesKept
<1> QED
  BY Inductive, <1>1, PTL

\* splitByRunes repeats no more than the overlap, and the end of the text not at all, for
\* every text and whatever sizes the layers gave: what two chunks share is in the windows
\* of both, however they were trimmed.
THEOREM RepeatsLittle == Spec => []RepeatsOnlyOverlap
<1>1. ASSUME IInv, cutting = "done", NEW c \in out, NEW d \in out, c # d
      PROVE  /\ c.at <= d.at => c.last - d.first < cfg.overlap
             /\ c.last = len - 1 => d.last # len - 1
  <2>1. /\ size \in Int /\ overlap \in Int /\ overlap = cfg.overlap
        /\ c.at \in Int /\ c.last \in Int /\ d.at \in Int /\ d.first \in Int
        /\ c.last < c.at + size /\ d.at <= d.first
    <3>1. /\ size \in Int /\ overlap \in Int /\ overlap = cfg.overlap /\ len \in Int
          /\ solid \subseteq 0 .. len - 1
          /\ c.last < c.at + size /\ d.at <= d.first
      BY <1>1 DEF IInv, CutInv
    <3>2. /\ c \in [at : 0 .. len - 1, first : solid, last : solid]
          /\ d \in [at : 0 .. len - 1, first : solid, last : solid]
      BY <1>1 DEF IInv, CutInv
    <3>3. /\ c.at \in 0 .. len - 1 /\ c.last \in solid
          /\ d.at \in 0 .. len - 1 /\ d.first \in solid
      BY <3>2
    <3>4. (\A p \in solid : p \in Int) /\ (\A p \in 0 .. len - 1 : p \in Int)
      BY <3>1
    <3> QED
      BY <3>1, <3>3, <3>4, Zenon
  <2>2. /\ c.at # d.at /\ (c.at < d.at => c.at + size <= d.at + overlap)
        /\ c.last = len - 1 => d.last # len - 1
    BY <1>1 DEF IInv, CutInv
  <2> QED
    BY <2>1, <2>2
<1>2. IInv => RepeatsOnlyOverlap
  BY <1>1 DEF RepeatsOnlyOverlap
<1> QED
  BY Inductive, <1>2, PTL

\* splitByRunes ends, for every text and whatever sizes the layers gave: the overlap
\* validate lets through leaves a step, and no window begins behind the text.
THEOREM CutAdvances == Spec => WindowAdvances
<1>1. ASSUME IInv, IInv', [Next]_vars, cutting = "running", ~UNCHANGED vars
      PROVE  /\ len' = len /\ start' > start
             /\ cutting' = "running" => start' < len
  <2>1. Cut
    BY <1>1, LoadKeepsConfig DEF IInv, CutInv, Next, Upload, BeginCut
  <2>2. /\ size \in Int /\ overlap \in Int /\ start \in Nat
        /\ overlap < size /\ len' = len /\ start' = start + Step
    BY <1>1, <2>1 DEF IInv, ConfigInv, CutInv, Valid, ValidOverlap, Cut
  <2>3. start' > start
    BY <2>2 DEF Step
  <2> QED
    BY <1>1, <2>2, <2>3 DEF IInv, CutInv
<1>2. IInv /\ IInv' /\ [Next]_vars =>
          [cutting = "running" =>
              /\ len' = len /\ start' > start
              /\ cutting' = "running" => start' < len]_vars
  BY <1>1
<1> QED
  BY Inductive, <1>2, PTL DEF Spec, WindowAdvances

\* What the files give a setting of its own: the APP_ENV file is over the base file.
LEMMA FilesGive ==
  ASSUME NEW i \in Inputs, NEW kv, kv = Merged(i.base, i.overlay),
         i.base # BadFile, i.overlay # BadFile,
         NEW k \in {"size", "overlap", "use"}
  PROVE  LET From(file) == IF file = NoFile THEN {} ELSE DOMAIN file \cap OwnPlaces(k)
         IN  /\ From(i.overlay) # {} =>
                  k \in DOMAIN kv /\ \E p \in From(i.overlay) : kv[k] = i.overlay[p]
             /\ From(i.overlay) = {} /\ From(i.base) # {} =>
                  k \in DOMAIN kv /\ \E p \in From(i.base) : kv[k] = i.base[p]
             /\ From(i.overlay) = {} /\ From(i.base) = {} => k \notin DOMAIN kv
<1> DEFINE From(file) == IF file = NoFile THEN {} ELSE DOMAIN file \cap OwnPlaces(k)
<1>1. k \in Keys /\ DOMAIN Places[k] = {1, 2} /\ OwnPlaces(k) = {Places[k][1], Places[k][2]}
  BY DEF Keys, Places, OwnPlaces
<1>2. ASSUME NEW f, IsFile(f), f # BadFile
      PROVE  /\ k \in DOMAIN CanonicalKV(f) <=> From(f) # {}
             /\ From(f) # {} => \E p \in From(f) : CanonicalKV(f)[k] = f[p]
  BY <1>1, <1>2, CanonicalSettings
<1>3. IsFile(i.base) /\ IsFile(i.overlay)
  BY InputsAssumption
<1>4. Settings(CanonicalKV(i.base)) /\ Settings(CanonicalKV(i.overlay))
  BY <1>3, CanonicalSettings
<1> HIDE DEF From
<1> DEFINE below == CanonicalKV(i.base)
           top == CanonicalKV(i.overlay)
<1>5. /\ k \in DOMAIN below <=> From(i.base) # {}
      /\ From(i.base) # {} => \E p \in From(i.base) : below[k] = i.base[p]
      /\ k \in DOMAIN top <=> From(i.overlay) # {}
      /\ From(i.overlay) # {} => \E p \in From(i.overlay) : top[k] = i.overlay[p]
  BY <1>2, <1>3
<1>6. /\ kv = Over(top, below) /\ Settings(top) /\ Settings(below)
  BY <1>4 DEF Merged
<1> HIDE DEF below, top
<1>7. /\ k \in DOMAIN kv <=> k \in DOMAIN top \/ k \in DOMAIN below
      /\ k \in DOMAIN top => kv[k] = top[k]
      /\ k \in DOMAIN below /\ k \notin DOMAIN top => kv[k] = below[k]
  <2>1. /\ DOMAIN Over(top, below) = DOMAIN top \cup DOMAIN below
        /\ \A x \in DOMAIN top : Over(top, below)[x] = top[x]
        /\ \A x \in DOMAIN below \ DOMAIN top : Over(top, below)[x] = below[x]
    BY <1>6, OverSettings
  <2>2. kv = Over(top, below)
    BY <1>6
  <2> QED
    BY <2>1, <2>2
<1>8. /\ From(i.overlay) # {} =>
            k \in DOMAIN kv /\ \E p \in From(i.overlay) : kv[k] = i.overlay[p]
      /\ From(i.overlay) = {} /\ From(i.base) # {} =>
            k \in DOMAIN kv /\ \E p \in From(i.base) : kv[k] = i.base[p]
      /\ From(i.overlay) = {} /\ From(i.base) = {} => k \notin DOMAIN kv
  BY <1>5, <1>7
<1> QED
  BY <1>8 DEF From

\* Load lets the environment win over the APP_ENV file, that over the base file, and
\* that over the built-in values, for whatever the files and the environment hold.
THEOREM EnvironmentWins == Spec => []EnvWins
<1>1. ASSUME IInv, phase = "loaded" PROVE EnvWins
  <2> DEFINE env == {k \in DOMAIN input.env : input.env[k] # Blank}
             ekv == EnvKV(input.env)
             c == ApplyKV(Builtin, fileKV)
  <2>1. /\ input \in Inputs /\ fileKV = Merged(input.base, input.overlay)
        /\ input.base # BadFile /\ input.overlay # BadFile
        /\ cfg = ApplyKV(c, ekv)
    BY <1>1 DEF IInv, ConfigInv
  <2>2. DOMAIN ekv = env /\ \A k \in env : ekv[k] = input.env[k]
    BY <2>1, EnvSettings
  <2>3. /\ cfg.llm = KeyFor(ekv, "llm", c.llm)
        /\ cfg.embedding = KeyFor(ekv, "embedding", c.embedding)
    BY <2>1 DEF ApplyKV
  <2>4. \A s \in Services : cfg[s] = KeyFor(ekv, s, c[s])
    BY <2>3 DEF Services
  <2>5. \A k \in {"size", "overlap", "use"} :
            /\ c[k] = Plain(fileKV, k, Builtin[k])
            /\ cfg[k] = Plain(ekv, k, c[k])
    BY <2>1 DEF ApplyKV
  <2> HIDE DEF ekv, c, env
  <2>6. ASSUME NEW s \in Services
        PROVE  /\ s \in env => cfg[s] = input.env[s]
               /\ s \notin env /\ "shared" \in env => cfg[s] = input.env["shared"]
    BY <2>2, <2>4 DEF KeyFor
  <2>7. ASSUME NEW k \in {"size", "overlap", "use"}
        PROVE  LET From(file) == IF file = NoFile THEN {} ELSE DOMAIN file \cap OwnPlaces(k)
               IN  /\ k \in env => cfg[k] = input.env[k]
                   /\ k \notin env /\ From(input.overlay) # {} =>
                         \E p \in From(input.overlay) : cfg[k] = input.overlay[p]
                   /\ k \notin env /\ From(input.overlay) = {} /\ From(input.base) # {} =>
                         \E p \in From(input.base) : cfg[k] = input.base[p]
                   /\ k \notin env /\ From(input.overlay) = {} /\ From(input.base) = {} =>
                         cfg[k] = Builtin[k]
    <3> DEFINE From(file) == IF file = NoFile THEN {} ELSE DOMAIN file \cap OwnPlaces(k)
    <3>1. /\ From(input.overlay) # {} =>
               k \in DOMAIN fileKV /\ \E p \in From(input.overlay) : fileKV[k] = input.overlay[p]
          /\ From(input.overlay) = {} /\ From(input.base) # {} =>
               k \in DOMAIN fileKV /\ \E p \in From(input.base) : fileKV[k] = input.base[p]
          /\ From(input.overlay) = {} /\ From(input.base) = {} => k \notin DOMAIN fileKV
      BY <2>1, FilesGive
    <3>2. /\ k \in env => cfg[k] = input.env[k]
          /\ k \notin env /\ k \in DOMAIN fileKV => cfg[k] = fileKV[k]
          /\ k \notin env /\ k \notin DOMAIN fileKV => cfg[k] = Builtin[k]
      BY <2>2, <2>5 DEF Plain
    <3> HIDE DEF From
    <3>3. /\ k \in env => cfg[k] = input.env[k]
          /\ k \notin env /\ From(input.overlay) # {} =>
                \E p \in From(input.overlay) : cfg[k] = input.overlay[p]
          /\ k \notin env /\ From(input.overlay) = {} /\ From(input.base) # {} =>
                \E p \in From(input.base) : cfg[k] = input.base[p]
          /\ k \notin env /\ From(input.overlay) = {} /\ From(input.base) = {} =>
                cfg[k] = Builtin[k]
      BY <3>1, <3>2
    <3> QED
      BY <3>3 DEF From
  <2> QED
    BY <1>1, <2>6, <2>7 DEF EnvWins, env
<1>2. IInv => EnvWins
  BY <1>1 DEF EnvWins
<1> QED
  BY Inductive, <1>2, PTL

=============================================================================
