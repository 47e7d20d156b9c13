------------------------ MODULE PrefillServerProofs ------------------------
(***************************************************************************)
(* Proofs about PrefillServer: its types and hooks, that the chunks of a   *)
(* prompt stay in the budget of the sizer, and that ranking keys slice by  *)
(* slice keeps the best of them; for every page, budget, prompt, number of *)
(* keys, slice width and table.  And that the n-grams of a text do not     *)
(* depend on the chunks it is prefilled in.                                *)
(***************************************************************************)
EXTENDS PrefillServer, HashedText, TLAPS, FiniteSetTheorems, WellFoundedInduction, NaturalsInduction,
        SequenceTheorems

(***************************************************************************)
(* Arithmetic                                                              *)
(***************************************************************************)

LEMMA LeastType ==
    ASSUME NEW a \in Int, NEW b \in Int
    PROVE  /\ Least(a, b) \in {a, b} /\ Least(a, b) <= a /\ Least(a, b) <= b
           /\ Most(a, b) \in {a, b} /\ Most(a, b) >= a /\ Most(a, b) >= b
  BY DEF Least, Most

(* The least natural number of a set.                                      *)
LEMMA LeastNumber ==
    ASSUME NEW S \in SUBSET Nat, S # {}
    PROVE  \E x \in S : \A y \in S : x <= y
<1>1. IsWellFoundedOn(OpToRel(<, Nat), Nat)
  BY NatLessThanWellFounded
<1>2. \E x \in S : \A y \in S : ~ (<<y, x>> \in OpToRel(<, Nat))
  BY <1>1, WFMin
<1>3. ASSUME NEW x \in S, NEW y \in S, y < x PROVE <<y, x>> \in OpToRel(<, Nat)
  <2>1. <<y, x>> \in Nat \X Nat /\ <<y, x>>[1] = y /\ <<y, x>>[2] = x
    OBVIOUS
  <2> QED BY <2>1, <1>3 DEF OpToRel
<1>4. ASSUME NEW x \in S, NEW y \in S, ~(y < x) PROVE x <= y
  BY <1>4
<1> QED BY <1>2, <1>3, <1>4

(* A bounded set of integers has a greatest member.                        *)
LEMMA GreatestNumber ==
    ASSUME NEW M \in Int, NEW S \in SUBSET {i \in Int : i <= M}, S # {}
    PROVE  \E x \in S : \A y \in S : x >= y
<1> DEFINE D == {M - i : i \in S}
<1>1. D \in SUBSET Nat /\ D # {}
  OBVIOUS
<1>2. PICK d \in D : \A e \in D : d <= e
  BY <1>1, LeastNumber
<1>3. PICK x \in S : d = M - x
  BY <1>2
<1>4. ASSUME NEW y \in S PROVE x >= y
  <2>1. M - y \in D /\ x \in Int /\ y \in Int
    OBVIOUS
  <2>2. M - x <= M - y
    BY <2>1, <1>2, <1>3
  <2> QED BY <2>1, <2>2
<1> QED BY <1>4

LEMMA Squares ==
    ASSUME NEW a \in Nat, NEW b \in Nat
    PROVE  /\ a * a \in Nat
           /\ a <= b => a * a <= b * b
           /\ a <= a * a
  OBVIOUS

(* math.isqrt returns what its name says, for every number.                *)
LEMMA ISqrtIsRoot ==
    ASSUME NEW n \in Nat
    PROVE  /\ ISqrt(n) \in 0 .. n
           /\ ISqrt(n) * ISqrt(n) <= n
           /\ n < (ISqrt(n) + 1) * (ISqrt(n) + 1)
<1> DEFINE S == {r \in Nat : n < (r + 1) * (r + 1)}
<1>1. n \in S
  <2>1. n + 1 <= (n + 1) * (n + 1)
    BY Squares
  <2> QED BY <2>1
<1>2. PICK r \in S : \A s \in S : r <= s
  BY <1>1, LeastNumber
<1>3. r * r <= n
  <2>1. CASE r = 0
    BY <2>1
  <2>2. CASE r > 0
    <3>1. r - 1 \in Nat /\ r - 1 \notin S
      BY <2>2, <1>2
    <3>2. ~(n < r * r)
      BY <3>1
    <3> QED BY <3>2
  <2> QED BY <2>1, <2>2
<1>4. r \in 0 .. n
  BY <1>3, Squares
<1>5. n < (r + 1) * (r + 1)
  BY <1>2
<1>6. \E q \in 0 .. n : q * q <= n /\ n < (q + 1) * (q + 1)
  BY <1>3, <1>4, <1>5
<1> QED BY <1>6 DEF ISqrt

LEMMA Halves ==
    ASSUME NEW a \in Int
    PROVE  a \div 2 \in Int /\ 2 * (a \div 2) <= a /\ a < 2 * (a \div 2) + 2
  OBVIOUS

LEMMA Products ==
    ASSUME NEW a \in Nat, NEW b \in Nat, NEW h \in Nat, a <= b
    PROVE  a * (h + a) <= b * (h + b)
<1>1. a * (h + a) = a * h + a * a /\ b * (h + b) = b * h + b * b
  OBVIOUS
<1>2. a * h <= b * h
  OBVIOUS
<1> QED BY <1>1, <1>2, Squares

(* The quadratic the sizer solves: the largest number of queries whose     *)
(* work with the history stays in the budget.                              *)
LEMMA FittingIsLargest ==
    ASSUME NEW b \in Nat, NEW h \in Nat
    PROVE  /\ Fitting(b, h) \in Nat
           /\ Fitting(b, h) * (h + Fitting(b, h)) <= b
           /\ \A u \in Nat : u > Fitting(b, h) => u * (h + u) > b
<1> DEFINE n == h * h + 4 * b
           s == ISqrt(n)
           t == Fitting(b, h)
<1>1. n \in Nat
  BY Squares
<1>2. s \in Nat /\ s * s <= n /\ n < (s + 1) * (s + 1)
  BY <1>1, ISqrtIsRoot
<1>3. s >= h
  <2>1. CASE s < h
    <3>1. (s + 1) * (s + 1) <= h * h
      BY <1>2, <2>1, Squares
    <3> QED BY <3>1, <1>2, <1>1, Squares
  <2> HIDE DEF s
  <2> QED BY <2>1, <1>2
<1>4. t \in Int /\ 2 * t <= s - h /\ s - h < 2 * t + 2
  <2>1. t = (s - h) \div 2
    BY DEF Fitting
  <2> HIDE DEF s, t
  <2>2. s - h \in Int
    BY <1>2
  <2> QED BY <2>1, <2>2, Halves
<1>5. t \in Nat
  BY <1>3, <1>4, <1>2
<1>6. ASSUME NEW u \in Nat
      PROVE  (2 * u + h) * (2 * u + h) = 4 * (u * (h + u)) + h * h /\ u * (h + u) \in Nat
  <2>1. (2 * u + h) * (2 * u + h) = 4 * (u * u) + 4 * (u * h) + h * h
    OBVIOUS
  <2>2. u * (h + u) = u * h + u * u
    OBVIOUS
  <2>3. u * h \in Nat /\ u * u \in Nat
    BY Squares
  <2> QED BY <2>1, <2>2, <2>3, Squares
<1>7. t * (h + t) <= b
  <2>1. (2 * t + h) * (2 * t + h) <= s * s
    BY <1>2, <1>4, <1>5, Squares
  <2>2. (2 * t + h) * (2 * t + h) \in Nat /\ s * s \in Nat
    BY <1>5, <1>2, Squares
  <2> HIDE DEF t, s
  <2>3. 4 * (t * (h + t)) + h * h <= h * h + 4 * b
    BY <2>1, <2>2, <1>2, <1>6, <1>5
  <2> QED BY <2>3, <1>6, <1>5, Squares
<1>8. ASSUME NEW u \in Nat, u > t PROVE u * (h + u) > b
  <2>1. (s + 1) * (s + 1) <= (2 * u + h) * (2 * u + h)
    BY <1>2, <1>4, <1>5, <1>8, Squares
  <2> HIDE DEF t, s
  <2>2. h * h + 4 * b < 4 * (u * (h + u)) + h * h
    BY <2>1, <1>1, <1>2, <1>6, Squares
  <2> QED BY <2>2, <1>6, Squares
<1> QED BY <1>5, <1>7, <1>8

(* Rounding down to whole pages.                                           *)
LEMMA Rounding ==
    ASSUME NEW t \in Nat, NEW p \in Nat \ {0}
    PROVE  LET r == (t \div p) * p
           IN  /\ r \in Nat /\ r % p = 0 /\ r <= t /\ t < r + p
               /\ t % p = 0 => r = t
<1>1. t \div p \in Nat /\ t = p * (t \div p) + (t % p) /\ t % p \in 0 .. p - 1
  OBVIOUS
<1>2. (t \div p) * p \in Nat /\ p * (t \div p) = (t \div p) * p
  BY <1>1
<1>3. ((t \div p) * p) % p = 0
  BY <1>1, <1>2
<1> QED BY <1>1, <1>2, <1>3

LEMMA PageOfPage ==
    ASSUME NEW a \in Nat, NEW b \in Nat, NEW p \in Nat \ {0},
           a % p = 0, b % p = 0, a < b
    PROVE  a + p <= b
<1>1. (a \div p) * p = a /\ (b \div p) * p = b
  BY Rounding
<1>2. a \div p \in Nat /\ b \div p \in Nat
  OBVIOUS
<1>3. a \div p < b \div p
  BY <1>1, <1>2
<1>4. (a \div p) * p + p <= (b \div p) * p
  BY <1>2, <1>3
<1> QED BY <1>1, <1>4

(* What the sizer answers: whole pages between its two bounds, in the      *)
(* budget but for the lower bound, and never a page less than it could be. *)
LEMMA PredictFits ==
    ASSUME NEW s \in Sizer, ValidSizer(s.budget, s.cmin, s.cmax), NEW h \in Nat
    PROVE  LET c == Predict(s, h)
           IN  /\ c \in Nat \ {0} /\ s.cmin <= c /\ c <= s.cmax /\ c % Page = 0
               /\ c * (h + c) <= s.budget \/ c = s.cmin
               /\ c < s.cmax => (c + Page) * (h + (c + Page)) > s.budget
<1> DEFINE f == Fitting(s.budget, h)
           t == Least(s.cmax, f)
           r == (t \div Page) * Page
           c == Predict(s, h)
<1>1. /\ s.budget \in Nat /\ s.cmin \in Nat \ {0} /\ s.cmax \in Nat \ {0}
      /\ s.cmin % Page = 0 /\ s.cmax % Page = 0 /\ s.cmin <= s.cmax
  BY DEF Sizer, ValidSizer
<1>2. /\ f \in Nat /\ f * (h + f) <= s.budget
      /\ \A u \in Nat : u > f => u * (h + u) > s.budget
  BY <1>1, FittingIsLargest
<1>3. t \in Nat /\ t <= s.cmax /\ t <= f /\ t \in {s.cmax, f}
  BY <1>1, <1>2 DEF Least
<1> HIDE DEF f, t
<1>4. r \in Nat /\ r % Page = 0 /\ r <= t /\ t < r + Page
  BY <1>3, Rounding, PageAssumption
<1>5. c = Most(s.cmin, Least(s.cmax, r))
  BY DEF Predict, r, t, f
<1> HIDE DEF r, c
<1>6. c \in {s.cmin, r} /\ s.cmin <= c /\ r <= c
  BY <1>1, <1>3, <1>4, <1>5 DEF Most, Least
<1>7. c <= s.cmax
  BY <1>1, <1>3, <1>4, <1>6
<1>8. c * (h + c) <= s.budget \/ c = s.cmin
  <2>1. CASE c = s.cmin
    BY <2>1
  <2>2. CASE c = r
    <3>1. c <= f
      BY <2>2, <1>2, <1>3, <1>4
    <3>2. c * (h + c) <= f * (h + f)
      BY <3>1, <1>2, <1>4, <2>2, Products
    <3>3. c * (h + c) \in Nat /\ f * (h + f) \in Nat
      BY <1>2, <1>4, <2>2
    <3> QED BY <3>2, <3>3, <1>1, <1>2
  <2> QED BY <1>6, <2>1, <2>2
<1>9. ASSUME c < s.cmax PROVE (c + Page) * (h + (c + Page)) > s.budget
  <2>1. c + Page <= s.cmax
    BY <1>1, <1>4, <1>6, <1>9, PageOfPage, PageAssumption
  <2>2. c + Page > t
    BY <1>3, <1>4, <1>6, <1>1, PageAssumption
  <2>3. t # s.cmax
    BY <2>1, <2>2, <1>1, <1>3, <1>4, <1>6, PageAssumption
  <2>4. c + Page \in Nat /\ c + Page > f
    BY <2>2, <2>3, <1>1, <1>3, <1>4, <1>6, PageAssumption
  <2> QED BY <2>4, <1>2
<1>10. c \in Nat \ {0} /\ c % Page = 0
  BY <1>1, <1>4, <1>6
<1> QED BY <1>6, <1>7, <1>8, <1>9, <1>10 DEF c

(***************************************************************************)
(* Types                                                                   *)
(***************************************************************************)

LEMMA Quotients ==
    ASSUME NEW a \in Nat, NEW b \in Nat, NEW r \in Nat \ {0}, a <= b
    PROVE  a \div r \in Nat /\ b \div r \in Nat /\ a \div r <= b \div r
<1>1. a \div r \in Nat /\ a = r * (a \div r) + (a % r) /\ a % r \in 0 .. r - 1
  OBVIOUS
<1>2. b \div r \in Nat /\ b = r * (b \div r) + (b % r) /\ b % r \in 0 .. r - 1
  OBVIOUS
<1>3. CASE a \div r > b \div r
  <2>1. a \div r >= b \div r + 1
    BY <1>1, <1>2, <1>3
  <2>2. r * (a \div r) >= r * (b \div r + 1)
    BY <2>1, <1>1, <1>2
  <2>3. r * (b \div r + 1) = r * (b \div r) + r /\ r * (b \div r) \in Nat /\ r * (a \div r) \in Nat
    BY <1>1, <1>2
  <2> QED BY <2>2, <2>3, <1>1, <1>2
<1> QED BY <1>1, <1>2, <1>3

LEMMA KeysType ==
    ASSUME ChunksTypeOK
    PROVE  Keys \in Nat /\ (new = 0 => Keys = 0)
<1>1. pos + new \in Nat
  BY LengthAssumption DEF ChunksTypeOK
<1> QED BY <1>1, Quotients, IndexerAssumption DEF Keys

LEMMA KChunkType ==
    ASSUME new \in Nat
    PROVE  KChunk \in Nat \ {0}
<1> DEFINE w == Most(1, Heads * 2 * Most(1, new))
           k == KChunkFor(new)
<1>1. Most(1, new) \in Nat
  BY DEF Most
<1>2. w \in Nat \ {0}
  BY <1>1, IndexerAssumption DEF Most
<1>3. ScoreBudget \div w \in Nat
  <2> HIDE DEF w
  <2> QED BY <1>2, IndexerAssumption
<1>4. k = Least(Most(1, ScoreBudget \div w), KChunkMax)
  BY DEF KChunkFor
<1> HIDE DEF w, k
<1>5. k \in Nat \ {0}
  BY <1>3, <1>4, IndexerAssumption DEF Least, Most
<1>6. k - (k % BlockSize) \in Int
  BY <1>5, IndexerAssumption
<1>7. Most(BlockSize, k - (k % BlockSize)) \in Nat \ {0}
  BY <1>6, IndexerAssumption DEF Most
<1> QED BY <1>5, <1>7 DEF KChunk, k

LEMMA SlicesAdvance ==
    ASSUME TypeOK, kstart < Keys
    PROVE  Stop \in Nat /\ kstart < Stop /\ Stop <= Keys
<1>1. KChunk \in Nat \ {0}
  BY KChunkType, LengthAssumption DEF TypeOK, ChunksTypeOK
<1>2. Keys \in Nat /\ kstart \in Nat
  BY KeysType DEF TypeOK
<1> HIDE DEF KChunk, Keys
<1> QED BY <1>1, <1>2 DEF Stop, Least

(* Between two prompts, and until the first layer ranks, nothing is kept;  *)
(* a process that does not serve has no chunk, but its settings.           *)
Idle ==
    /\ phase \in {"idle", "chunk"} => kstart = 0 /\ acc = {} /\ mask = {}
    /\ step # "serving" => phase = "idle" /\ settings \in Settings

TypeInv == ProcessTypeOK /\ TypeOK /\ Idle

LEMMA InitTypes == ServerInit => TypeInv
<1> SUFFICES ASSUME ServerInit PROVE TypeInv
  OBVIOUS
<1>1. /\ len = 0 /\ pos = 0 /\ new = 0 /\ static = Page /\ sizer = NoSizer
      /\ seen = 0 /\ phase = "idle" /\ kstart = 0 /\ acc = {} /\ mask = {}
      /\ score = NoScores(0) /\ blocks = NoBlocks(0)
  BY DEF ServerInit, ProcessInit, ChunkInit, RowInit
<1>2. ChunksTypeOK
  BY <1>1, PageAssumption, LengthAssumption DEF ChunksTypeOK, SizerOK
<1>3. Keys = 0
  BY <1>1 DEF Keys
<1>4. score \in [0 .. Keys - 1 -> 0 .. MaxScore]
  BY <1>1, <1>3, IndexerAssumption DEF NoScores
<1>5. blocks \in [Blocks(Keys) -> NegInf .. MaxScore]
  BY <1>1, <1>3, IndexerAssumption DEF NoBlocks, NegInf
<1>6. ProcessTypeOK
  BY DEF ServerInit, ProcessInit, ProcessTypeOK, Changes
<1>7. settings \in Settings
  BY DEF ServerInit, ProcessInit
<1> QED BY <1>1, <1>2, <1>3, <1>4, <1>5, <1>6, <1>7 DEF TypeInv, TypeOK, Idle, Phases

(* What leaves the chunk and the indexer alone leaves their types.         *)
LEMMA StillTyped ==
    ASSUME TypeOK, UNCHANGED <<chunk, indexer>>, SizerOK', static' \in Nat \ {0}
    PROVE  TypeOK'
  BY DEF TypeOK, ChunksTypeOK, chunk, indexer, Keys

LEMMA SizedType ==
    ASSUME NEW page \in Pages, NEW size \in Statics, settings \in Settings,
           NEW s \in Sized(page, size)
    PROVE  s = NoSizer \/ (s \in Sizer /\ ValidSizer(s.budget, s.cmin, s.cmax) /\ s.cmax <= size)
<1>1. CASE "sizer" \notin patched
  BY <1>1 DEF Sized
<1>2. CASE "sizer" \in patched
  <2>1. /\ s = Capped(settings.budget, settings.cmin, settings.cmax, size)
        /\ ValidSizer(s.budget, s.cmin, s.cmax)
    BY <1>2 DEF Sized
  <2>2. settings.budget \in Int /\ settings.cmin \in Int /\ settings.cmax \in Int /\ size \in Int
    <3>1. settings.budget \in Budgets /\ settings.cmin \in Sizes /\ settings.cmax \in Sizes
      BY DEF Settings
    <3>2. settings.budget \in Int /\ settings.cmin \in Int /\ settings.cmax \in Int
      BY <3>1, SettingsAssumption
    <3>3. size \in Int
      BY ServerAssumption
    <3> QED BY <3>2, <3>3
  <2>3. s.cmax = Least(settings.cmax, size) /\ Least(settings.cmax, size) \in Int
        /\ Least(settings.cmax, size) <= size
    BY <2>1, <2>2 DEF Capped, Least
  <2> QED BY <2>1, <2>2, <2>3 DEF Capped, Sizer
<1> QED BY <1>1, <1>2

LEMMA AppliedType == \A f, ms : AppliedAll(f, ms) \subseteq Changes
  BY DEF AppliedAll, Applied, Changes

LEMMA BootTypes ==
    ASSUME TypeInv, Boot, UNCHANGED <<chunk, indexer>>
    PROVE  TypeInv'
<1> USE DEF TypeInv, ProcessTypeOK
<1>1. CASE ReadSwitches
  BY <1>1, StillTyped DEF ReadSwitches, Go, Kept, switches, hooks, Switch, TypeOK, ChunksTypeOK, SizerOK, Idle, indexer
<1>2. CASE InstallChunk
  BY <1>2, StillTyped, AppliedType DEF InstallChunk, Go, Kept, switches, hooks, TypeOK, ChunksTypeOK, SizerOK, Idle, indexer
<1>3. CASE InstallKslice
  BY <1>3, StillTyped, AppliedType DEF InstallKslice, Go, Kept, switches, hooks, TypeOK, ChunksTypeOK, SizerOK, Idle, indexer
<1>4. CASE InstallEngram
  BY <1>4, StillTyped, AppliedType DEF InstallEngram, Go, Kept, switches, hooks, Modules, Changes, TypeOK, ChunksTypeOK, SizerOK, Idle, indexer
<1>5. CASE Refuse
  BY <1>5, StillTyped DEF Refuse, Go, Kept, switches, hooks, TypeOK, ChunksTypeOK, SizerOK, Idle, indexer
<1>6. CASE Import
  BY <1>6, StillTyped, AppliedType DEF Import, Applied, Changes, Kept, switches, hooks, TypeOK, ChunksTypeOK, SizerOK, Idle, indexer
<1>7. CASE ImportFails
  BY <1>7, StillTyped DEF ImportFails, Go, Kept, switches, hooks, TypeOK, ChunksTypeOK, SizerOK, Idle, indexer
<1>8. CASE Build
  <2>1. /\ step' \in {"serving", "dead"} /\ step = "up"
        /\ settings' \in Settings \cup {NoSettings}
        /\ UNCHANGED <<switches, finder, loaded, patched>>
    BY <1>8 DEF Build, Go, Kept
  <2>2. SizerOK' /\ static' \in Nat \ {0}
    <3>1. CASE UNCHANGED hooks
      BY <3>1 DEF hooks, SizerOK, TypeOK, ChunksTypeOK
    <3>2. CASE \E size \in Statics, page \in Pages : sizer' \in Sized(page, size) /\ static' = size
      <4>1. PICK size \in Statics, page \in Pages : sizer' \in Sized(page, size) /\ static' = size
        BY <3>2
      <4>2. settings \in Settings
        BY <2>1 DEF Idle
      <4> QED BY <4>1, <4>2, SizedType, ServerAssumption DEF SizerOK
    <3> QED BY <1>8, <3>1, <3>2 DEF Build, Kept
  <2>3. TypeOK'
    BY <2>2, StillTyped
  <2>4. step' # "serving" => settings' \in Settings
    BY <1>8 DEF Build, Go, Kept, Idle
  <2> QED BY <2>1, <2>3, <2>4 DEF Idle, indexer, switches
<1> QED BY <1>1, <1>2, <1>3, <1>4, <1>5, <1>6, <1>7, <1>8 DEF Boot

LEMMA NoChunkTypes ==
    ASSUME ChunksTypeOK', new' = 0, seen' = 0, phase' = "idle", kstart' = 0, acc' = {},
           mask' = {}, score' = NoScores(0), blocks' = NoBlocks(0)
    PROVE  TypeOK'
<1>1. Keys' = 0
  BY DEF Keys
<1>2. score' \in [0 .. Keys' - 1 -> 0 .. MaxScore]
  BY <1>1, IndexerAssumption DEF NoScores
<1>3. blocks' \in [Blocks(Keys') -> NegInf .. MaxScore]
  BY <1>1, IndexerAssumption DEF NoBlocks, NegInf
<1> QED BY <1>1, <1>2, <1>3 DEF TypeOK, Phases

LEMMA SubmitTypes ==
    ASSUME TypeInv, SubmitPrompt, UNCHANGED process
    PROVE  TypeInv'
<1>1. PICK n \in 1 .. MaxLen : Submit(n)
  BY DEF SubmitPrompt
<1>2. /\ new = 0 /\ new' = 0 /\ len' = n /\ pos' = 0 /\ UNCHANGED <<sizer, static>>
      /\ UNCHANGED indexer
  BY <1>1 DEF Submit, SubmitPrompt, hooks
<1>3. ChunksTypeOK'
  BY <1>2, LengthAssumption DEF TypeInv, TypeOK, ChunksTypeOK, SizerOK
<1>4. Keys' = 0 /\ Keys = 0
  BY <1>2 DEF Keys
<1>5. TypeOK'
  BY <1>2, <1>3, <1>4 DEF TypeInv, TypeOK, indexer
<1> QED BY <1>2, <1>5 DEF TypeInv, ProcessTypeOK, process, switches, Idle, indexer

LEMMA LimitType ==
    ASSUME ChunksTypeOK
    PROVE  Limit \in Nat \ {0}
<1>1. pos \in Nat /\ static \in Nat \ {0}
  BY LengthAssumption DEF ChunksTypeOK
<1>2. CASE sizer = NoSizer \/ pos = 0
  BY <1>1, <1>2 DEF Limit
<1>3. CASE sizer # NoSizer /\ pos # 0
  BY <1>1, <1>3, PredictFits DEF Limit, ChunksTypeOK, SizerOK
<1> QED BY <1>2, <1>3

LEMMA NextChunkTypes ==
    ASSUME ChunksTypeOK, NextChunk
    PROVE  ChunksTypeOK' /\ new' \in Nat \ {0} /\ new' = Least(Limit, len - pos)
           /\ pos + new' <= len
<1>1. /\ new' = Least(Limit, len - pos) /\ pos < len /\ UNCHANGED <<sizer, static, len, pos>>
  BY DEF NextChunk, hooks
<1>2. len - pos \in Nat \ {0} /\ Limit \in Nat \ {0} /\ pos \in Nat /\ len \in Nat
  BY <1>1, LimitType, LengthAssumption DEF ChunksTypeOK
<1>3. new' \in Nat \ {0} /\ new' <= len - pos
  <2> HIDE DEF Limit
  <2> QED BY <1>1, <1>2 DEF Least
<1> QED BY <1>1, <1>2, <1>3 DEF ChunksTypeOK, SizerOK

LEMMA StartTypes ==
    ASSUME TypeInv, step = "serving", StartChunk, UNCHANGED process
    PROVE  TypeInv'
<1>1. ChunksTypeOK' /\ new' \in Nat \ {0}
  BY NextChunkTypes DEF StartChunk, TypeInv, TypeOK
<1>2. kstart' = 0 /\ acc' = {} /\ mask' = {} /\ phase' = "chunk" /\ pos' = pos
      /\ new = 0 /\ step' = step
  <2>1. phase = "idle" /\ new = 0
    BY DEF StartChunk, NextChunk, TypeInv, TypeOK
  <2> QED BY <2>1 DEF StartChunk, NextChunk, TypeInv, Idle, process
<1>3. pos \in Nat
  BY LengthAssumption DEF TypeInv, TypeOK, ChunksTypeOK
<1>4. Keys' = (pos + new') \div Ratio
  BY <1>1, <1>2 DEF Keys
<1>5. Keys' \in Nat
  <2>1. ASSUME NEW n \in Nat \ {0} PROVE pos + n \in Nat
    BY <1>3
  <2>2. pos + new' \in Nat
    BY <1>1, <2>1
  <2> QED BY <2>2, <1>4, Quotients, IndexerAssumption
<1>6. seen' \in 0 .. Keys'
  <2>1. PICK i \in 1 .. new' : seen' = (pos + i) \div Ratio
    BY DEF StartChunk
  <2>2. ASSUME NEW n \in Nat \ {0}, i \in 1 .. n
        PROVE  pos + i \in Nat /\ pos + n \in Nat /\ pos + i <= pos + n
    BY <2>2, <1>3
  <2>3. pos + i \in Nat /\ pos + new' \in Nat /\ pos + i <= pos + new'
    BY <2>2, <1>1
  <2>4. /\ (pos + i) \div Ratio \in Nat
        /\ (pos + i) \div Ratio <= (pos + new') \div Ratio
    BY <2>3, Quotients, IndexerAssumption
  <2> QED BY <2>1, <2>4, <1>4, <1>5
<1>7. score' \in [0 .. Keys' - 1 -> 0 .. MaxScore]
  BY IndexerAssumption DEF StartChunk, NoScores
<1>8. blocks' \in [Blocks(Keys') -> NegInf .. MaxScore]
  BY IndexerAssumption DEF StartChunk, NoBlocks, NegInf
<1>9. phase' \in Phases /\ (phase' = "idle" <=> new' = 0) /\ kstart' \in 0 .. Keys'
      /\ acc' \subseteq 0 .. Keys' - 1 /\ mask' \subseteq Blocks(Keys')
  BY <1>1, <1>2, <1>5 DEF Phases
<1>10. TypeOK'
  BY <1>1, <1>6, <1>7, <1>8, <1>9, Zenon DEF TypeOK
<1> QED BY <1>2, <1>10 DEF TypeInv, ProcessTypeOK, process, switches, Idle

LEMMA MaskedType ==
    ASSUME TypeOK, NEW j \in 0 .. Keys - 1
    PROVE  Masked(j) \in NegInf .. MaxScore
  BY IndexerAssumption DEF TypeOK, Masked, NegInf

LEMMA MergeType ==
    ASSUME TypeOK, kstart < Keys
    PROVE  MergeBlocks \in [Blocks(Keys) -> NegInf .. MaxScore]
<1> SUFFICES ASSUME NEW b \in Blocks(Keys) PROVE MergeBlocks[b] \in NegInf .. MaxScore
  BY DEF MergeBlocks
<1> DEFINE mine == {j \in kstart .. Stop - 1 :
                      (kstart \div BlockSize) + ((j - kstart + (kstart % BlockSize)) \div BlockSize) = b}
           values == {Masked(j) : j \in mine} \cup {blocks[b]}
<1>1. mine \subseteq 0 .. Keys - 1
  <2>1. Stop \in Nat /\ Stop <= Keys /\ kstart \in Nat /\ Keys \in Nat
    BY SlicesAdvance, KeysType DEF TypeOK
  <2>2. kstart .. Stop - 1 \subseteq 0 .. Keys - 1
    <3> HIDE DEF Stop, Keys
    <3> QED BY <2>1
  <2> QED BY <2>2
<1>2. blocks[b] \in NegInf .. MaxScore
  BY DEF TypeOK
<1>3. values \subseteq NegInf .. MaxScore /\ values # {}
  <2> HIDE DEF mine
  <2> QED BY <1>1, <1>2, MaskedType
<1>4. MergeBlocks[b] = CHOOSE v \in values : \A w \in values : v >= w
  BY DEF MergeBlocks
<1> HIDE DEF values
<1>5. values \in SUBSET {i \in Int : i <= MaxScore} /\ MaxScore \in Int
  BY <1>3, IndexerAssumption DEF NegInf
<1>6. \E v \in values : \A w \in values : v >= w
  BY <1>3, <1>5, GreatestNumber
<1>7. (CHOOSE v \in values : \A w \in values : v >= w) \in values
  BY <1>6
<1> QED BY <1>3, <1>4, <1>7

(* The steps of the indexer leave the chunk and the process alone.         *)
LEMMA IndexerTypes ==
    ASSUME TypeInv, UNCHANGED process, UNCHANGED <<hooks, chunk, seen>>,
           phase # "idle", phase' \in Phases \ {"idle", "chunk"},
           score' \in [0 .. Keys - 1 -> 0 .. MaxScore],
           kstart' \in 0 .. Keys, acc' \subseteq 0 .. Keys - 1,
           blocks' \in [Blocks(Keys) -> NegInf .. MaxScore], mask' \subseteq Blocks(Keys)
    PROVE  TypeInv'
<1>1. Keys' = Keys /\ ChunksTypeOK' /\ new' = new /\ seen' = seen
  BY DEF Keys, TypeInv, TypeOK, ChunksTypeOK, SizerOK, hooks, chunk
<1>2. phase' \in Phases /\ (phase' = "idle" <=> new' = 0) /\ seen' \in 0 .. Keys'
  BY <1>1 DEF TypeInv, TypeOK
<1>3. TypeOK'
  BY <1>1, <1>2, Zenon DEF TypeOK
<1>4. step' = "serving"
  BY DEF TypeInv, Idle, process
<1> QED BY <1>3, <1>4 DEF TypeInv, ProcessTypeOK, process, switches, Idle

LEMMA IndexSlicedTypes ==
    ASSUME TypeInv, IndexSliced, UNCHANGED process
    PROVE  TypeInv'
<1>1. /\ score \in [0 .. Keys - 1 -> 0 .. MaxScore] /\ kstart \in 0 .. Keys
      /\ acc \subseteq 0 .. Keys - 1 /\ blocks \in [Blocks(Keys) -> NegInf .. MaxScore]
      /\ mask \subseteq Blocks(Keys)
  BY DEF TypeInv, TypeOK
<1>2. CASE NoKeys
  BY <1>1, <1>2, IndexerTypes, Zenon DEF NoKeys, Phases
<1>3. CASE Rank
  <2>1. Keys \in Nat
    BY KeysType DEF TypeInv, TypeOK
  <2>2. kstart' \in 0 .. Keys /\ acc' \subseteq 0 .. Keys - 1
    BY <1>3, <2>1 DEF Rank
  <2>3. phase # "idle" /\ phase' \in Phases \ {"idle", "chunk"}
    BY <1>3 DEF Rank, Phases
  <2> QED BY <1>1, <1>3, <2>2, <2>3, IndexerTypes, Zenon DEF Rank
<1>4. CASE Slice
  <2>1. Stop \in 0 .. Keys /\ kstart .. Stop - 1 \subseteq 0 .. Keys - 1
    <3>1. Stop \in Nat /\ Stop <= Keys /\ kstart \in Nat /\ Keys \in Nat
      BY <1>4, SlicesAdvance, KeysType DEF TypeInv, TypeOK, Slice
    <3> HIDE DEF Stop, Keys
    <3> QED BY <3>1
  <2>2. acc' \subseteq 0 .. Keys - 1
    BY <1>1, <1>4, <2>1 DEF Slice, MergeTop
  <2>3. blocks' \in [Blocks(Keys) -> NegInf .. MaxScore]
    BY <1>1, <1>4, MergeType DEF Slice, TypeInv
  <2>4. phase # "idle" /\ phase' \in Phases \ {"idle", "chunk"}
    BY <1>4 DEF Slice, Phases
  <2> QED BY <1>1, <1>4, <2>1, <2>2, <2>3, <2>4, IndexerTypes, Zenon DEF Slice
<1>5. CASE Publish
  <2>1. mask' \subseteq Blocks(Keys)
    BY <1>5 DEF Publish, CandidateMask
  <2> QED BY <1>1, <1>5, <2>1, IndexerTypes, Zenon DEF Publish, Phases
<1>6. CASE Attend
  BY <1>1, <1>6, IndexerTypes, Zenon DEF Attend, Phases
<1> QED BY <1>2, <1>3, <1>4, <1>5, <1>6 DEF IndexSliced

LEMMA FinishTypes ==
    ASSUME TypeInv, FinishChunk, UNCHANGED process
    PROVE  TypeInv'
<1>1. /\ new > 0 /\ pos' = pos + new /\ new' = 0 /\ UNCHANGED <<sizer, static, len>>
  BY DEF FinishChunk, EndChunk, hooks
<1>2. ChunksTypeOK'
  <2>1. /\ pos \in Nat /\ new \in Nat /\ len \in Nat /\ pos + new <= len
        /\ len \in 0 .. MaxLen
    BY LengthAssumption DEF TypeInv, TypeOK, ChunksTypeOK
  <2>2. pos' \in 0 .. len' /\ new' \in 0 .. len' - pos'
    BY <1>1, <2>1
  <2> QED BY <1>1, <2>1, <2>2 DEF TypeInv, TypeOK, ChunksTypeOK, SizerOK
<1>3. TypeOK'
  BY <1>1, <1>2, NoChunkTypes DEF FinishChunk
<1>4. step' = "serving"
  BY DEF TypeInv, Idle, process, FinishChunk
<1> QED BY <1>3, <1>4 DEF TypeInv, ProcessTypeOK, process, switches, Idle, FinishChunk

LEMMA StepTypes == TypeInv /\ [ServerNext]_<<process, prefill>> => TypeInv'
<1> SUFFICES ASSUME TypeInv, [ServerNext]_<<process, prefill>> PROVE TypeInv'
  OBVIOUS
<1>1. CASE Boot /\ UNCHANGED <<chunk, indexer>>
  BY <1>1, BootTypes
<1>2. CASE Serve
  <2> step = "serving" /\ UNCHANGED process
    BY <1>2 DEF Serve
  <2>1. CASE SubmitPrompt
    BY <2>1, SubmitTypes
  <2>2. CASE StartChunk
    BY <2>2, StartTypes
  <2>3. CASE IndexUpstream
    <3>1. phase' \in Phases \ {"idle", "chunk"} /\ phase # "idle"
      BY <2>3 DEF IndexUpstream, Phases
    <3> QED BY <2>3, <3>1, IndexerTypes, Zenon DEF IndexUpstream, TypeInv, TypeOK
  <2>4. CASE IndexSliced
    BY <2>4, IndexSlicedTypes
  <2>5. CASE FinishChunk
    BY <2>5, FinishTypes
  <2> QED BY <1>2, <2>1, <2>2, <2>3, <2>4, <2>5 DEF Serve
<1>3. CASE UNCHANGED <<process, prefill>>
  BY <1>3 DEF TypeInv, ProcessTypeOK, TypeOK, ChunksTypeOK, SizerOK, Idle, Keys,
     process, switches, prefill, hooks, chunk, indexer
<1> QED BY <1>1, <1>2, <1>3 DEF ServerNext

(* Every variable has its type in every reachable state, and nothing is    *)
(* kept of a chunk once it is over.                                        *)
THEOREM StateIsTyped == ServerSpec => []TypeInv
  BY InitTypes, StepTypes, PTL DEF ServerSpec

(***************************************************************************)
(* The budget                                                              *)
(***************************************************************************)

(* The chunk that is set meets the budget.                                 *)
LEMMA ChunkIsSized ==
    ASSUME ChunksTypeOK, NextChunk
    PROVE  ChunksFitBudget'
<1>1. /\ new' \in Nat \ {0} /\ new' = Least(Limit, len - pos) /\ pos + new' <= len
      /\ UNCHANGED <<sizer, static, len, pos>>
  BY NextChunkTypes DEF NextChunk, hooks
<1>2. SUFFICES ASSUME pos # 0, sizer # NoSizer
               PROVE  /\ new' <= static /\ new' <= sizer.cmax
                      /\ new' * (pos + new') <= sizer.budget \/ new' <= sizer.cmin
                      /\ pos + new' < len =>
                           /\ new' % Page = 0 /\ new' >= sizer.cmin
                           /\ new' < sizer.cmax =>
                                (new' + Page) * (pos + new' + Page) > sizer.budget
  BY <1>1 DEF ChunksFitBudget
<1> DEFINE c == Predict(sizer, pos)
<1>3. /\ sizer \in Sizer /\ ValidSizer(sizer.budget, sizer.cmin, sizer.cmax)
      /\ sizer.cmax <= static /\ pos \in Nat /\ len \in Nat /\ static \in Nat
  BY <1>2, LengthAssumption DEF ChunksTypeOK, SizerOK
<1>4. /\ c \in Nat \ {0} /\ sizer.cmin <= c /\ c <= sizer.cmax /\ c % Page = 0
      /\ c * (pos + c) <= sizer.budget \/ c = sizer.cmin
      /\ c < sizer.cmax => (c + Page) * (pos + (c + Page)) > sizer.budget
  BY <1>3, PredictFits
<1>5. sizer.budget \in Int /\ sizer.cmin \in Int /\ sizer.cmax \in Int
  BY <1>3 DEF Sizer
<1>6. new' = Least(c, len - pos)
  BY <1>1, <1>2 DEF Limit
<1> HIDE DEF c
<1>7. ASSUME NEW n \in Nat \ {0}, n = Least(c, len - pos), pos + n <= len
      PROVE  /\ n <= static /\ n <= sizer.cmax
             /\ n * (pos + n) <= sizer.budget \/ n <= sizer.cmin
             /\ pos + n < len =>
                  /\ n % Page = 0 /\ n >= sizer.cmin
                  /\ n < sizer.cmax => (n + Page) * (pos + n + Page) > sizer.budget
  <2>1. n <= c /\ (pos + n < len => n = c)
    BY <1>3, <1>4, <1>7 DEF Least
  <2>2. n <= static /\ n <= sizer.cmax
    BY <2>1, <1>3, <1>4, <1>5
  <2>3. n * (pos + n) <= sizer.budget \/ n <= sizer.cmin
    <3>1. CASE c = sizer.cmin
      BY <2>1, <3>1
    <3>2. CASE c * (pos + c) <= sizer.budget
      <4>1. n * (pos + n) <= c * (pos + c)
        BY <2>1, <1>3, <1>4, Products
      <4>2. n * (pos + n) \in Int /\ c * (pos + c) \in Int
        BY <1>3, <1>4
      <4> QED BY <4>1, <4>2, <3>2, <1>5
    <3> QED BY <3>1, <3>2, <1>4
  <2>4. ASSUME pos + n < len
        PROVE  /\ n % Page = 0 /\ n >= sizer.cmin
               /\ n < sizer.cmax => (n + Page) * (pos + n + Page) > sizer.budget
    <3>1. n = c
      BY <2>1, <2>4
    <3>2. pos + c + Page = pos + (c + Page)
      BY <1>3, <1>4, PageAssumption
    <3>3. c >= sizer.cmin
      BY <1>4, <1>5
    <3> QED BY <3>1, <3>2, <3>3, <1>4
  <2> QED BY <2>2, <2>3, <2>4
<1> QED BY <1>1, <1>6, <1>7

LEMMA StepFitsBudget ==
    TypeInv /\ ChunksFitBudget /\ [ServerNext]_<<process, prefill>> => ChunksFitBudget'
<1> SUFFICES ASSUME TypeInv, ChunksFitBudget, [ServerNext]_<<process, prefill>>
             PROVE  ChunksFitBudget'
  OBVIOUS
<1>1. ASSUME new' = 0 PROVE ChunksFitBudget'
  BY <1>1 DEF ChunksFitBudget
<1>2. ASSUME UNCHANGED <<hooks, chunk>> PROVE ChunksFitBudget'
  BY <1>2 DEF ChunksFitBudget, hooks, chunk
<1>3. CASE Boot /\ UNCHANGED <<chunk, indexer>>
  <2>1. CASE Build
    <3>1. new = 0 /\ new' = new
      BY <1>3, <2>1 DEF Build, TypeInv, TypeOK, Idle, chunk
    <3> QED BY <3>1, <1>1
  <2>2. CASE ~Build
    <3>1. UNCHANGED hooks
      BY <1>3, <2>2 DEF Boot, ReadSwitches, InstallChunk, InstallKslice, InstallEngram,
         Refuse, Import, ImportFails, Kept
    <3> QED BY <3>1, <1>2, <1>3
  <2> QED BY <2>1, <2>2
<1>4. CASE Serve
  <2>1. CASE SubmitPrompt
    <3>1. new' = 0
      BY <2>1 DEF SubmitPrompt, Submit
    <3> QED BY <3>1, <1>1
  <2>2. CASE StartChunk
    BY <2>2, ChunkIsSized DEF StartChunk, TypeInv, TypeOK
  <2>3. CASE IndexUpstream
    BY <2>3, <1>2 DEF IndexUpstream
  <2>4. CASE IndexSliced
    BY <2>4, <1>2 DEF IndexSliced, NoKeys, Rank, Slice, Publish, Attend
  <2>5. CASE FinishChunk
    BY <2>5, <1>1 DEF FinishChunk, EndChunk
  <2> QED BY <1>4, <2>1, <2>2, <2>3, <2>4, <2>5 DEF Serve
<1>5. CASE UNCHANGED <<process, prefill>>
  BY <1>5, <1>2 DEF prefill
<1> QED BY <1>3, <1>4, <1>5 DEF ServerNext

(* No chunk after the first is larger than the static one, none costs more *)
(* than the budget but for the floor, and none is a page smaller than it   *)
(* must be, for every prompt and every setting the sizer accepts.          *)
THEOREM ChunksStayInBudget == ServerSpec => []ChunksFitBudget
<1>1. ServerInit => ChunksFitBudget
  BY DEF ServerInit, ChunkInit, ChunksFitBudget
<1> QED BY <1>1, StateIsTyped, StepFitsBudget, PTL DEF ServerSpec

(***************************************************************************)
(* The hooks                                                               *)
(***************************************************************************)

(* What the process has installed so far, whatever was imported when.      *)
HooksInv ==
    /\ step \in {"switches", "chunk", "kslice"} => finder = "none" /\ patched = {}
    /\ step \notin {"switches", "refused", "dead"} =>
         {adaptive, engram, kslice} \subseteq {"0", "1"}
    /\ step = "chunk" => adaptive = "1"
    /\ step = "kslice" => adaptive = "0" /\ kslice = "1"
    /\ step \in {"engram", "up", "serving"} =>
         /\ adaptive = "1" => finder = "chunk" /\ AppliedAll("chunk", loaded) \subseteq patched
         /\ adaptive = "0" => finder # "chunk" /\ "sizer" \notin patched
         /\ adaptive = "0" /\ kslice = "1" =>
              finder = "kslice" /\ AppliedAll("kslice", loaded) \subseteq patched
    /\ step \in {"up", "serving"} =>
         (engram = "1" => {"gate", "mla", "store"} \subseteq patched)
    /\ step = "serving" =>
         /\ loaded = Modules /\ SizerOK
         /\ (sizer = NoSizer) <=> ("sizer" \notin patched)

LEMMA FindersApply ==
    /\ AppliedAll("chunk", Modules) = {"sizer", "budget", "slices"}
    /\ AppliedAll("kslice", Modules) = {"slices"}
    /\ \A f, ms : "sizer" \in AppliedAll(f, ms) => f = "chunk"
    /\ \A f, ms, ns : AppliedAll(f, ms \cup ns) = AppliedAll(f, ms) \cup AppliedAll(f, ns)
    /\ \A f, m : AppliedAll(f, {m}) = Applied(f, m)
<1>1. \A f, m : "sizer" \in Applied(f, m) => f = "chunk"
  BY DEF Applied
<1>2. \A f, ms : "sizer" \in AppliedAll(f, ms) => f = "chunk"
  BY <1>1 DEF AppliedAll
<1>3. \A f, ms, ns : AppliedAll(f, ms \cup ns) = AppliedAll(f, ms) \cup AppliedAll(f, ns)
  BY DEF AppliedAll
<1>4. \A f, m : AppliedAll(f, {m}) = Applied(f, m)
  BY DEF AppliedAll
<1>5. /\ AppliedAll("chunk", Modules) = {"sizer", "budget", "slices"}
      /\ AppliedAll("kslice", Modules) = {"slices"}
  BY DEF AppliedAll, Applied, Modules
<1> QED BY <1>2, <1>3, <1>4, <1>5

LEMMA BootHooks ==
    ASSUME TypeInv, HooksInv, Boot
    PROVE  HooksInv'
<1> USE DEF HooksInv, TypeInv, ProcessTypeOK
<1>1. CASE ReadSwitches
  BY <1>1 DEF ReadSwitches, Go, Kept, switches, hooks, Switch
<1>2. CASE InstallChunk
  <2>1. UNCHANGED <<adaptive, engram, kslice, loaded>> /\ step = "chunk"
    BY <1>2 DEF InstallChunk, Go, switches
  <2>2. \/ finder' = "chunk" /\ patched' = AppliedAll("chunk", loaded) /\ step' = "engram"
        \/ step' = "refused"
    BY <1>2 DEF InstallChunk, Go
  <2> QED BY <2>1, <2>2
<1>3. CASE InstallKslice
  BY <1>3, FindersApply DEF InstallKslice, Go, Kept, switches, hooks
<1>4. CASE InstallEngram
  <2>1. CASE engram = "1"
    <3> DEFINE fresh == loaded' \ loaded
    <3>1. /\ patched' = patched \cup {"gate", "mla", "store"} \cup AppliedAll(finder, fresh)
          /\ loaded' = loaded \cup fresh /\ finder' = finder /\ step' = "up"
          /\ UNCHANGED <<adaptive, engram, kslice>> /\ step = "engram"
      BY <1>4, <2>1 DEF InstallEngram, Go, switches
    <3> HIDE DEF fresh
    <3>2. AppliedAll(finder, loaded') = AppliedAll(finder, loaded) \cup AppliedAll(finder, fresh)
      BY <3>1, FindersApply
    <3>3. "sizer" \in AppliedAll(finder, fresh) => finder = "chunk"
      BY FindersApply
    <3> QED BY <3>1, <3>2, <3>3
  <2>2. CASE engram # "1"
    BY <1>4, <2>2 DEF InstallEngram, Go, switches
  <2> QED BY <2>1, <2>2
<1>5. CASE Refuse
  BY <1>5 DEF Refuse, Go, switches
<1>6. CASE Import
  <2>1. PICK m \in Modules \ loaded :
           /\ loaded' = loaded \cup {m} /\ patched' = patched \cup Applied(finder, m)
    BY <1>6 DEF Import
  <2>2. step = "up" /\ UNCHANGED <<step, adaptive, engram, kslice, finder>>
    BY <1>6 DEF Import, switches
  <2>3. AppliedAll(finder, loaded') = AppliedAll(finder, loaded) \cup Applied(finder, m)
    <3> DEFINE fresh == {m}
    <3>1. AppliedAll(finder, fresh) = Applied(finder, m)
      BY FindersApply
    <3>2. loaded' = loaded \cup fresh
      BY <2>1
    <3> HIDE DEF fresh
    <3>3. AppliedAll(finder, loaded') = AppliedAll(finder, loaded) \cup AppliedAll(finder, fresh)
      BY <3>2, FindersApply
    <3> QED BY <3>1, <3>3
  <2>4. "sizer" \in Applied(finder, m) => finder = "chunk"
    BY DEF Applied
  <2> HIDE DEF TypeInv
  <2>5. adaptive = "1" => finder = "chunk" /\ AppliedAll("chunk", loaded') \subseteq patched'
    BY <2>1, <2>2, <2>3
  <2>6. adaptive = "0" => finder # "chunk" /\ "sizer" \notin patched'
    BY <2>1, <2>2, <2>4
  <2>7. adaptive = "0" /\ kslice = "1" =>
          finder = "kslice" /\ AppliedAll("kslice", loaded') \subseteq patched'
    BY <2>1, <2>2, <2>3
  <2>8. engram = "1" => {"gate", "mla", "store"} \subseteq patched'
    BY <2>1, <2>2
  <2> QED BY <2>2, <2>5, <2>6, <2>7, <2>8
<1>7. CASE ImportFails
  BY <1>7 DEF ImportFails, Go, switches
<1>8. CASE Build
  <2>1. /\ step = "up" /\ loaded = Modules /\ UNCHANGED <<adaptive, engram, kslice, finder, loaded, patched>>
        /\ step' \in {"serving", "dead"}
    BY <1>8 DEF Build, Go, switches
  <2>2. ASSUME step' = "serving"
        PROVE  SizerOK' /\ ((sizer' = NoSizer) <=> ("sizer" \notin patched))
    <3>1. PICK size \in Statics, page \in Pages : sizer' \in Sized(page, size) /\ static' = size
      BY <1>8, <2>2 DEF Build, Go
    <3>2. settings \in Settings
      BY <2>1 DEF Idle
    <3>3. SizerOK'
      BY <3>1, <3>2, SizedType DEF SizerOK
    <3>4. CASE "sizer" \notin patched
      BY <3>1, <3>3, <3>4 DEF Sized
    <3>5. CASE "sizer" \in patched
      <4>1. sizer'.budget > 0
        BY <3>1, <3>5 DEF Sized, ValidSizer
      <4>2. sizer' # NoSizer
        BY <4>1 DEF NoSizer
      <4> QED BY <3>3, <3>5, <4>2
    <3> QED BY <3>4, <3>5
  <2> QED BY <2>1, <2>2
<1> QED BY <1>1, <1>2, <1>3, <1>4, <1>5, <1>6, <1>7, <1>8 DEF Boot

LEMMA StepHooks == TypeInv /\ HooksInv /\ [ServerNext]_<<process, prefill>> => HooksInv'
<1> SUFFICES ASSUME TypeInv, HooksInv, [ServerNext]_<<process, prefill>> PROVE HooksInv'
  OBVIOUS
<1>1. CASE Boot
  BY <1>1, BootHooks
<1>2. ASSUME UNCHANGED process, UNCHANGED hooks PROVE HooksInv'
  BY <1>2 DEF HooksInv, SizerOK, process, switches, hooks
<1>3. CASE Serve
  <2>1. UNCHANGED process /\ UNCHANGED hooks
    BY <1>3 DEF Serve, SubmitPrompt, Submit, StartChunk, NextChunk, IndexUpstream, IndexSliced,
       NoKeys, Rank, Slice, Publish, Attend, FinishChunk, EndChunk
  <2> QED BY <2>1, <1>2
<1>4. CASE UNCHANGED <<process, prefill>>
  BY <1>4, <1>2 DEF prefill
<1> QED BY <1>1, <1>3, <1>4 DEF ServerNext

LEMMA HooksAreServed == TypeInv /\ HooksInv => ServesPatched
  BY FindersApply DEF TypeInv, ProcessTypeOK, HooksInv, ServesPatched

(* A process whose state is well-formed and that serves has every hook its *)
(* switches ask for, whatever was imported before sitecustomize ran and in *)
(* whatever order the rest came in.                                        *)
THEOREM ServersAreSound == ServerSpec => []ServerInv
<1>1. ServerInit => HooksInv
  BY DEF ServerInit, ProcessInit, HooksInv
<1>2. TypeInv /\ ServesPatched => ServerInv
  BY DEF TypeInv, ServerInv
<1> QED BY <1>1, <1>2, StateIsTyped, StepHooks, HooksAreServed, PTL DEF ServerSpec

(***************************************************************************)
(* The ranking                                                             *)
(***************************************************************************)

LEMMA SubsetSizes ==
    ASSUME NEW S, IsFiniteSet(S), NEW T \in SUBSET S
    PROVE  /\ IsFiniteSet(T) /\ Cardinality(T) \in Nat /\ Cardinality(S) \in Nat
           /\ Cardinality(T) <= Cardinality(S)
           /\ Cardinality(T) = Cardinality(S) => T = S
  BY FS_Subset, FS_CardinalityType

(* The best n of the best n of two sets are the best n of both: whatever   *)
(* the ties, no element of the union is better than one that was kept.     *)
LEMMA TopOfTops ==
    ASSUME NEW P, NEW Q, IsFiniteSet(P), IsFiniteSet(Q), NEW n \in Nat, NEW v,
           \A x \in P \cup Q : v[x] \in Int,
           NEW A, NEW B, NEW C, IsTop(A, P, n, v), IsTop(B, Q, n, v), IsTop(C, A \cup B, n, v)
    PROVE  IsTop(C, P \cup Q, n, v)
<1>1. A \subseteq P /\ B \subseteq Q /\ C \subseteq A \cup B
  BY DEF IsTop
<1>2. IsFiniteSet(P \cup Q) /\ IsFiniteSet(A \cup B) /\ IsFiniteSet(A) /\ IsFiniteSet(B)
  <2>1. IsFiniteSet(P \cup Q)
    BY FS_Union
  <2> QED BY <2>1, <1>1, FS_Subset
<1>3. /\ Cardinality(A) = Least(n, Cardinality(P))
      /\ Cardinality(B) = Least(n, Cardinality(Q))
      /\ Cardinality(C) = Least(n, Cardinality(A \cup B))
  BY DEF IsTop
<1>4. /\ Cardinality(A) \in Nat /\ Cardinality(P) \in Nat /\ Cardinality(A) <= Cardinality(P)
      /\ Cardinality(A) = Cardinality(P) => A = P
  BY <1>1, SubsetSizes
<1>5. /\ Cardinality(B) \in Nat /\ Cardinality(Q) \in Nat /\ Cardinality(B) <= Cardinality(Q)
      /\ Cardinality(B) = Cardinality(Q) => B = Q
  BY <1>1, SubsetSizes
<1>6. /\ Cardinality(A \cup B) \in Nat /\ Cardinality(P \cup Q) \in Nat
      /\ Cardinality(A \cup B) <= Cardinality(P \cup Q)
      /\ Cardinality(A) <= Cardinality(A \cup B) /\ Cardinality(B) <= Cardinality(A \cup B)
  BY <1>1, <1>2, SubsetSizes
<1>7. A # P => Cardinality(A) = n /\ Cardinality(C) = n
  BY <1>3, <1>4, <1>6 DEF Least
<1>8. B # Q => Cardinality(B) = n /\ Cardinality(C) = n
  BY <1>3, <1>5, <1>6 DEF Least
<1>9. Cardinality(C) = Least(n, Cardinality(P \cup Q))
  <2>1. CASE A = P /\ B = Q
    BY <2>1, <1>3
  <2>2. CASE A # P \/ B # Q
    BY <2>2, <1>6, <1>7, <1>8 DEF Least
  <2> QED BY <2>1, <2>2
<1>10. IsFiniteSet(C)
  BY <1>1, <1>2, FS_Subset
<1>11. ASSUME NEW x \in C, NEW y \in (P \cup Q) \ C PROVE v[x] >= v[y]
  <2>1. \A b \in (A \cup B) \ C : v[x] >= v[b]
    BY DEF IsTop
  <2>2. ASSUME NEW D, NEW R, D \subseteq R, D \subseteq A \cup B, R \subseteq P \cup Q,
               \A a \in D, b \in R \ D : v[a] >= v[b],
               D # R => Cardinality(D) = Cardinality(C),
               y \in R \ D
        PROVE  v[x] >= v[y]
    <3>1. CASE D \subseteq C
      <4>1. D = C
        BY <3>1, <1>10, <2>2, SubsetSizes
      <4> QED BY <4>1, <2>2
    <3>2. CASE \E a \in D : a \notin C
      <4>1. PICK a \in D : a \notin C
        BY <3>2
      <4>2. v[x] >= v[a] /\ v[a] >= v[y]
        BY <4>1, <2>1, <2>2
      <4>3. v[x] \in Int /\ v[a] \in Int /\ v[y] \in Int
        BY <1>1, <4>1, <2>2
      <4> QED BY <4>2, <4>3
    <3> QED BY <3>1, <3>2
  <2>3. CASE y \in A \cup B
    BY <2>3, <2>1
  <2>4. CASE y \in P \ A
    <3>1. \A a \in A, b \in P \ A : v[a] >= v[b]
      BY DEF IsTop
    <3> QED BY <3>1, <2>2, <2>4, <1>1, <1>7
  <2>5. CASE y \in Q \ B
    <3>1. \A a \in B, b \in Q \ B : v[a] >= v[b]
      BY DEF IsTop
    <3> QED BY <3>1, <2>2, <2>5, <1>1, <1>8
  <2> QED BY <2>3, <2>4, <2>5
<1> QED BY <1>1, <1>9, <1>11 DEF IsTop

LEMMA Interval ==
    ASSUME NEW a \in Int, NEW b \in Int
    PROVE  IsFiniteSet(a .. b)
  BY FS_Interval

LEMMA ValueType ==
    ASSUME TypeOK
    PROVE  \A j \in 0 .. Keys - 1 : Value[j] = Masked(j) /\ Value[j] \in Int
  BY MaskedType, IndexerAssumption DEF Value, NegInf

LEMMA SliceKeepsTop ==
    ASSUME TypeInv, KeptIsTop, Slice
    PROVE  KeptIsTop'
<1> DEFINE n == Least(TopKeys, Keys)
           P == 0 .. kstart - 1
           Q == kstart .. Stop - 1
<1>1. Stop \in Nat /\ Stop <= Keys /\ kstart \in Nat /\ kstart < Stop /\ Keys \in Nat
  BY SlicesAdvance, KeysType DEF TypeInv, TypeOK, Slice
<1>2. n \in Nat
  BY <1>1, IndexerAssumption DEF Least
<1>3. PICK kept \in SUBSET Q : IsTop(kept, Q, n, Value) /\ acc' \in MergeTop(kept)
  BY DEF Slice
<1>4. IsTop(acc', acc \cup kept, n, Value)
  BY <1>3 DEF MergeTop
<1>5. phase \in {"source", "consumer"} /\ kstart' = Stop
      /\ UNCHANGED <<phase, seen, score, mask, pos, new>>
  BY DEF Slice, chunk
<1>6. Keys' = Keys
  BY <1>5 DEF Keys
<1>7. Value' = Value
  BY <1>5, <1>6 DEF Value, Masked
<1>8. IsTop(acc, P, n, Value)
  BY <1>5 DEF KeptIsTop
<1>9. P \cup Q = 0 .. Stop - 1 /\ P \cup Q \subseteq 0 .. Keys - 1
  <2> HIDE DEF Stop, Keys
  <2> QED BY <1>1
<1>10. IsFiniteSet(P) /\ IsFiniteSet(Q)
  <2> HIDE DEF Stop
  <2> QED BY <1>1, Interval
<1>11. \A x \in P \cup Q : Value[x] \in Int
  BY <1>9, ValueType DEF TypeInv
<1> HIDE DEF n, P, Q
<1>12. IsTop(acc', P \cup Q, n, Value)
  BY <1>2, <1>3, <1>4, <1>8, <1>10, <1>11, TopOfTops
<1>13. IsTop(acc', 0 .. kstart' - 1, Least(TopKeys, Keys'), Value')
  BY <1>12, <1>9, <1>5, <1>6, <1>7 DEF n
<1> QED BY <1>13 DEF KeptIsTop

LEMMA StepKeepsTop == TypeInv /\ KeptIsTop /\ [ServerNext]_<<process, prefill>> => KeptIsTop'
<1> SUFFICES ASSUME TypeInv, KeptIsTop, [ServerNext]_<<process, prefill>> PROVE KeptIsTop'
  OBVIOUS
<1>1. ASSUME phase' \notin {"source", "consumer"} PROVE KeptIsTop'
  BY <1>1 DEF KeptIsTop
<1>2. ASSUME UNCHANGED <<chunk, indexer>> PROVE KeptIsTop'
  BY <1>2 DEF KeptIsTop, IsTop, Value, Masked, Keys, chunk, indexer
<1>3. CASE Boot /\ UNCHANGED <<chunk, indexer>>
  BY <1>2, <1>3
<1>4. CASE Serve
  <2>1. CASE SubmitPrompt
    <3>1. phase' = "idle"
      BY <2>1 DEF SubmitPrompt, Submit, indexer, TypeInv, TypeOK
    <3> QED BY <3>1, <1>1
  <2>2. CASE Rank
    <3>1. kstart' = 0 /\ acc' = {} /\ Keys' = Keys
      BY <2>2 DEF Rank, Keys, chunk
    <3>2. 0 .. kstart' - 1 = {} /\ Keys \in Nat
      BY <3>1, KeysType DEF TypeInv, TypeOK
    <3>3. Cardinality({}) = 0 /\ Least(Least(TopKeys, Keys), 0) = 0
      BY <3>2, FS_EmptySet, IndexerAssumption DEF Least
    <3>4. IsTop({}, {}, Least(TopKeys, Keys), Value')
      BY <3>3 DEF IsTop
    <3> QED BY <3>1, <3>2, <3>4 DEF KeptIsTop
  <2>3. CASE Slice
    BY <2>3, SliceKeepsTop
  <2>4. CASE StartChunk \/ IndexUpstream \/ NoKeys \/ Publish \/ Attend \/ FinishChunk
    BY <2>4, <1>1 DEF StartChunk, IndexUpstream, NoKeys, Publish, Attend, FinishChunk
  <2> QED BY <1>4, <2>1, <2>2, <2>3, <2>4 DEF Serve, IndexSliced
<1>5. CASE UNCHANGED <<process, prefill>>
  BY <1>5, <1>2 DEF prefill
<1> QED BY <1>3, <1>4, <1>5 DEF ServerNext

(* The best of all elements are the best of the eligible ones when the     *)
(* others rank below: they take no place from an eligible one.             *)
LEMMA BestOfEligible ==
    ASSUME NEW K, IsFiniteSet(K), NEW E \in SUBSET K, NEW n \in Nat, NEW v,
           \A j \in E : v[j] \in Nat, \A j \in K \ E : v[j] = -1,
           NEW S, IsTop(S, K, n, v)
    PROVE  IsTop(S \cap E, E, n, v)
<1>1. /\ S \subseteq K /\ Cardinality(S) = Least(n, Cardinality(K))
      /\ \A x \in S, y \in K \ S : v[x] >= v[y]
  BY DEF IsTop
<1>2. /\ IsFiniteSet(S) /\ IsFiniteSet(E)
      /\ Cardinality(S) \in Nat /\ Cardinality(E) \in Nat /\ Cardinality(K) \in Nat
  BY <1>1, SubsetSizes
<1>3. Cardinality(S \cap E) = Least(n, Cardinality(E))
  <2>1. CASE E \subseteq S
    <3>1. S \cap E = E
      BY <2>1
    <3>2. Cardinality(E) <= Cardinality(S)
      BY <2>1, <1>2, SubsetSizes
    <3>3. Cardinality(E) <= n
      BY <3>2, <1>1, <1>2 DEF Least
    <3> QED BY <3>1, <3>3, <1>2 DEF Least
  <2>2. CASE \E y \in E : y \notin S
    <3>1. PICK y \in E : y \notin S
      BY <2>2
    <3>2. y \in K \ S /\ v[y] \in Nat
      BY <3>1
    <3>3. ASSUME NEW x \in S, x \notin E PROVE FALSE
      <4>1. v[x] >= v[y]
        BY <3>2, <1>1
      <4>2. v[x] = -1
        BY <3>3, <1>1
      <4> QED BY <3>2, <4>1, <4>2
    <3>4. S \subseteq E /\ S \cap E = S
      BY <3>3
    <3>5. S # K
      BY <3>2
    <3>6. Cardinality(S) # Cardinality(K)
      BY <3>5, <1>1, SubsetSizes
    <3>7. Cardinality(S) = n
      BY <3>6, <1>1 DEF Least
    <3>8. n <= Cardinality(E)
      BY <3>4, <3>7, <1>2, SubsetSizes
    <3> QED BY <3>4, <3>7, <3>8, <1>2 DEF Least
  <2> QED BY <2>1, <2>2
<1>4. ASSUME NEW x \in S \cap E, NEW y \in E \ (S \cap E) PROVE v[x] >= v[y]
  <2>1. x \in S /\ y \in K \ S
    OBVIOUS
  <2> QED BY <2>1, <1>1
<1> QED BY <1>3, <1>4 DEF IsTop

(* Once the slices are through, what the row keeps of its own keys is the  *)
(* best of them.                                                           *)
LEMMA PickedFollows == TypeInv /\ KeptIsTop => PickedIsTop
<1> SUFFICES ASSUME TypeInv, KeptIsTop, phase \in {"source", "consumer"}, kstart = Keys
             PROVE  IsTop(Picked \cap Eligible, Eligible, TopKeys, score)
  BY DEF PickedIsTop
<1> DEFINE K == 0 .. Keys - 1
           E == Eligible
<1>1. Keys \in Nat /\ seen \in Nat /\ seen <= Keys /\ TopKeys \in Nat \ {0}
  BY KeysType, IndexerAssumption DEF TypeInv, TypeOK
<1>2. IsFiniteSet(K) /\ Cardinality(K) = Keys
  <2> HIDE DEF Keys
  <2> QED BY <1>1, FS_Interval
<1>3. IsTop(acc, K, TopKeys, Value)
  <2>1. IsTop(acc, K, Least(TopKeys, Keys), Value)
    BY DEF KeptIsTop
  <2>2. Least(Least(TopKeys, Keys), Keys) = Least(TopKeys, Keys)
    BY <1>1 DEF Least
  <2> HIDE DEF K
  <2> QED BY <2>1, <2>2, <1>2 DEF IsTop
<1>4. E \subseteq K /\ E \subseteq 0 .. seen - 1
  <2>1. 0 .. seen - 1 \subseteq K
    <3> HIDE DEF Keys
    <3> QED BY <1>1
  <2> QED BY <2>1 DEF Eligible
<1>5. Picked \cap E = acc \cap E
  <2>1. \A j \in 0 .. seen - 1 : j < seen
    BY <1>1
  <2> HIDE DEF E
  <2> QED BY <2>1, <1>4 DEF Picked
<1>6. \A j \in E : Value[j] = score[j] /\ Value[j] \in Nat
  <2> SUFFICES ASSUME NEW j \in E PROVE Value[j] = score[j] /\ score[j] \in Nat
    OBVIOUS
  <2>1. j \in K /\ j < seen /\ (phase = "consumer" => j \div BlockSize \in mask)
    BY <1>1, <1>4 DEF Eligible
  <2>2. Masked(j) = score[j]
    <3>1. ~(j >= seen)
      BY <2>1, <1>1
    <3> QED BY <2>1, <3>1 DEF Masked
  <2>3. score[j] \in Nat
    BY <2>1, IndexerAssumption DEF TypeInv, TypeOK
  <2> QED BY <2>1, <2>2, <2>3, ValueType DEF TypeInv
<1>7. \A j \in K \ E : Value[j] = -1
  <2> SUFFICES ASSUME NEW j \in K \ E PROVE Masked(j) = -1
    BY ValueType DEF TypeInv
  <2>1. CASE j >= seen
    BY <2>1 DEF Masked, NegInf
  <2>2. CASE j < seen
    <3>1. j \in 0 .. seen - 1
      BY <2>2, <1>1
    <3>2. phase = "consumer" /\ j \div BlockSize \notin mask
      BY <3>1 DEF Eligible
    <3> QED BY <3>2 DEF Masked, NegInf
  <2> QED BY <2>1, <2>2, <1>1
<1> HIDE DEF K, E
<1>8. IsTop(acc \cap E, E, TopKeys, Value)
  BY <1>1, <1>2, <1>3, <1>4, <1>6, <1>7, BestOfEligible
<1> QED BY <1>5, <1>6, <1>8 DEF IsTop, E

(* Ranking the keys slice by slice keeps the best of all of them, and what *)
(* reaches the attention of a row is the best of the keys it may attend    *)
(* to, for every slice width, number of keys and choice among ties.        *)
THEOREM RankingIsExact == ServerSpec => []TopKIsExact
<1>1. ServerInit => KeptIsTop
  BY DEF ServerInit, RowInit, KeptIsTop
<1>2. KeptIsTop /\ PickedIsTop => TopKIsExact
  BY DEF TopKIsExact
<1> QED BY <1>1, <1>2, StateIsTyped, StepKeepsTop, PickedFollows, PTL DEF ServerSpec

(***************************************************************************)
(* The candidate blocks                                                    *)
(***************************************************************************)

LEMMA DivisionAdds ==
    ASSUME NEW a \in Nat, NEW b \in Nat \ {0}, NEW q \in Nat
    PROVE  (b * q + a) \div b = q + (a \div b)
<1>1. a \div b \in Nat /\ a = b * (a \div b) + (a % b) /\ a % b \in 0 .. b - 1
  OBVIOUS
<1> DEFINE d == a \div b
           r == a % b
           c == b * q + a
<1>2. d \in Nat /\ r \in 0 .. b - 1 /\ a = b * d + r
  BY <1>1
<1> HIDE DEF d, r
<1>3. c = b * (q + d) + r /\ c \in Nat
  <2>1. b * (q + d) = b * q + b * d /\ b * q \in Nat
    BY <1>2
  <2> QED BY <2>1, <1>2
<1>4. c \div b \in Nat /\ c = b * (c \div b) + (c % b) /\ c % b \in 0 .. b - 1
  BY <1>3
<1> DEFINE e == c \div b
           t == c % b
<1>5. e \in Nat /\ t \in 0 .. b - 1 /\ c = b * e + t
  BY <1>4
<1> HIDE DEF c, e, t
<1>6. b * (q + d) + r = b * e + t
  BY <1>3, <1>5
<1>7. ASSUME e < q + d PROVE FALSE
  <2>1. e + 1 <= q + d
    BY <1>2, <1>5, <1>7
  <2>2. b * (e + 1) <= b * (q + d)
    BY <2>1, <1>2, <1>5
  <2>3. b * (e + 1) = b * e + b /\ b * e \in Nat /\ b * (q + d) \in Nat
    BY <1>2, <1>5
  <2> QED BY <2>2, <2>3, <1>2, <1>5, <1>6
<1>8. ASSUME e > q + d PROVE FALSE
  <2>1. q + d + 1 <= e
    BY <1>2, <1>5, <1>8
  <2>2. b * (q + d + 1) <= b * e
    BY <2>1, <1>2, <1>5
  <2>3. b * (q + d + 1) = b * (q + d) + b /\ b * e \in Nat /\ b * (q + d) \in Nat
    BY <1>2, <1>5
  <2> QED BY <2>2, <2>3, <1>2, <1>5, <1>6
<1>9. e = q + d
  <2>1. e \in Int /\ q + d \in Int
    BY <1>2, <1>5
  <2>2. ~(e < q + d) /\ ~(e > q + d)
    BY <1>7, <1>8
  <2> QED BY <2>1, <2>2
<1>10. c \div b = q + d
  BY <1>9, Zenon DEF e
<1>11. (b * q + a) \div b = q + d
  BY <1>10, Zenon DEF c
<1> QED BY <1>11, Zenon DEF d

(* Padding a slice to whole blocks puts every key into the block it is in, *)
(* wherever the slice starts.                                              *)
LEMMA PaddedBlock ==
    ASSUME NEW k \in Nat, NEW j \in Nat, k <= j
    PROVE  (k \div BlockSize) + ((j - k + (k % BlockSize)) \div BlockSize) = j \div BlockSize
<1> DEFINE q == k \div BlockSize
           r == k % BlockSize
           a == j - k + r
<1>1. BlockSize \in Nat \ {0}
  BY IndexerAssumption
<1>2. q \in Nat /\ r \in Nat /\ k = BlockSize * q + r
  BY <1>1
<1> HIDE DEF q, r
<1>3. a \in Nat /\ j = BlockSize * q + a
  <2>1. BlockSize * q \in Nat
    BY <1>1, <1>2
  <2> QED BY <2>1, <1>2
<1> HIDE DEF a
<1>4. j \div BlockSize = q + (a \div BlockSize)
  BY <1>1, <1>2, <1>3, DivisionAdds
<1> QED BY <1>4 DEF q, r, a

LEMMA BlocksOfKeys ==
    ASSUME NEW n \in Nat, NEW j \in 0 .. n - 1
    PROVE  j \div BlockSize \in Blocks(n)
<1>1. BlockSize \in Nat \ {0}
  BY IndexerAssumption
<1>2. (BlockSize * 1 + j) \div BlockSize = 1 + (j \div BlockSize)
  <2>1. j \in Nat /\ 1 \in Nat
    OBVIOUS
  <2> QED BY <2>1, <1>1, DivisionAdds
<1>3. BlockSize * 1 + j <= n + BlockSize - 1 /\ BlockSize * 1 + j \in Nat /\ n + BlockSize - 1 \in Nat
  BY <1>1
<1> DEFINE d == j \div BlockSize
           e == (n + BlockSize - 1) \div BlockSize
<1>4. 1 + d <= e /\ e \in Nat /\ d \in Nat
  BY <1>1, <1>2, <1>3, Quotients
<1>5. d \in 0 .. e - 1
  <2> HIDE DEF d, e
  <2> QED BY <1>4
<1> QED BY <1>5 DEF Blocks

(* What the merged maxima are while a source ranks: per block, the best of *)
(* the keys so far that the row sees.                                      *)
BlocksHoldMax ==
    phase \in {"chunk", "source"} =>
        \A b \in Blocks(Keys) :
           /\ \A j \in 0 .. kstart - 1 : j \div BlockSize = b => blocks[b] >= Masked(j)
           /\ blocks[b] = NegInf
              \/ \E j \in 0 .. kstart - 1 : j \div BlockSize = b /\ blocks[b] = Masked(j)

LEMMA SliceHoldsMax ==
    ASSUME TypeInv, BlocksHoldMax, Slice
    PROVE  BlocksHoldMax'
<1>1. /\ UNCHANGED <<phase, seen, score, mask, pos, new>> /\ kstart' = Stop
      /\ phase \in {"source", "consumer"} /\ Keys' = Keys
  BY DEF Slice, chunk, Keys
<1>2. SUFFICES ASSUME phase = "source" PROVE BlocksHoldMax'
  BY <1>1 DEF BlocksHoldMax
<1>3. Stop \in Nat /\ Stop <= Keys /\ kstart \in Nat /\ kstart < Stop /\ Keys \in Nat
  BY SlicesAdvance, KeysType DEF TypeInv, TypeOK, Slice
<1>4. blocks' = MergeBlocks
  BY <1>2 DEF Slice
<1>5. \A j : Masked(j)' = Masked(j)
  BY <1>1 DEF Masked
<1>6. ASSUME NEW b \in Blocks(Keys)
      PROVE  /\ \A j \in 0 .. Stop - 1 : j \div BlockSize = b => blocks'[b] >= Masked(j)
             /\ blocks'[b] = NegInf
                \/ \E j \in 0 .. Stop - 1 : j \div BlockSize = b /\ blocks'[b] = Masked(j)
  <2> DEFINE mine == {j \in kstart .. Stop - 1 :
                        (kstart \div BlockSize) + ((j - kstart + (kstart % BlockSize)) \div BlockSize) = b}
             values == {Masked(j) : j \in mine} \cup {blocks[b]}
  <2>1. mine = {j \in kstart .. Stop - 1 : j \div BlockSize = b}
    <3>1. \A j \in kstart .. Stop - 1 : j \in Nat /\ kstart <= j
      <4> HIDE DEF Stop
      <4> QED BY <1>3
    <3> QED BY <3>1, <1>3, PaddedBlock
  <2>2. kstart .. Stop - 1 \subseteq 0 .. Keys - 1 /\ 0 .. kstart - 1 \subseteq 0 .. Keys - 1
        /\ 0 .. Stop - 1 = (0 .. kstart - 1) \cup (kstart .. Stop - 1)
    <3> HIDE DEF Stop, Keys
    <3> QED BY <1>3
  <2>3. values \in SUBSET {i \in Int : i <= MaxScore} /\ values # {}
    <3>1. \A j \in 0 .. Keys - 1 : Masked(j) \in Int /\ Masked(j) <= MaxScore
      BY MaskedType, IndexerAssumption DEF TypeInv, NegInf
    <3>2. blocks[b] \in Int /\ blocks[b] <= MaxScore
      BY IndexerAssumption DEF TypeInv, TypeOK, NegInf
    <3>3. mine \subseteq 0 .. Keys - 1
      BY <2>1, <2>2
    <3> HIDE DEF mine
    <3> QED BY <3>1, <3>2, <3>3
  <2>4. blocks'[b] = CHOOSE v \in values : \A w \in values : v >= w
    BY <1>4 DEF MergeBlocks
  <2> HIDE DEF mine, values
  <2>5. blocks'[b] \in values /\ \A w \in values : blocks'[b] >= w
    <3>1. MaxScore \in Int
      BY IndexerAssumption
    <3>2. \E v \in values : \A w \in values : v >= w
      BY <2>3, <3>1, GreatestNumber
    <3> QED BY <3>2, <2>4
  <2>6. /\ \A j \in 0 .. kstart - 1 : j \div BlockSize = b => blocks[b] >= Masked(j)
        /\ blocks[b] = NegInf
           \/ \E j \in 0 .. kstart - 1 : j \div BlockSize = b /\ blocks[b] = Masked(j)
    BY <1>2 DEF BlocksHoldMax
  <2>7. ASSUME NEW j \in 0 .. Stop - 1, j \div BlockSize = b PROVE blocks'[b] >= Masked(j)
    <3>1. CASE j \in kstart .. Stop - 1
      <4>1. Masked(j) \in values
        BY <3>1, <2>1, <2>7 DEF values
      <4> QED BY <4>1, <2>5
    <3>2. CASE j \in 0 .. kstart - 1
      <4>1. blocks[b] \in values
        BY DEF values
      <4>2. blocks'[b] >= blocks[b] /\ blocks[b] >= Masked(j)
        BY <4>1, <3>2, <2>5, <2>6, <2>7
      <4>3. blocks'[b] \in Int /\ blocks[b] \in Int /\ Masked(j) \in Int
        <5>1. j \in 0 .. Keys - 1
          BY <3>2, <2>2
        <5>2. Masked(j) \in Int
          BY <5>1, MaskedType, IndexerAssumption DEF TypeInv, NegInf
        <5> QED BY <5>2, <4>1, <2>3, <2>5
      <4> QED BY <4>2, <4>3
    <3> QED BY <3>1, <3>2, <2>2
  <2>8. blocks'[b] = NegInf
        \/ \E j \in 0 .. Stop - 1 : j \div BlockSize = b /\ blocks'[b] = Masked(j)
    <3>1. CASE blocks'[b] = blocks[b]
      BY <3>1, <2>6, <2>2
    <3>2. CASE \E j \in mine : blocks'[b] = Masked(j)
      BY <3>2, <2>1, <2>2
    <3> QED BY <3>1, <3>2, <2>5 DEF values
  <2> QED BY <2>7, <2>8
<1> QED BY <1>1, <1>5, <1>6 DEF BlocksHoldMax

LEMMA StepHoldsMax ==
    TypeInv /\ BlocksHoldMax /\ [ServerNext]_<<process, prefill>> => BlocksHoldMax'
<1> SUFFICES ASSUME TypeInv, BlocksHoldMax, [ServerNext]_<<process, prefill>>
             PROVE  BlocksHoldMax'
  OBVIOUS
<1>1. ASSUME phase' \notin {"chunk", "source"} PROVE BlocksHoldMax'
  BY <1>1 DEF BlocksHoldMax
<1>2. ASSUME UNCHANGED <<chunk, indexer>> PROVE BlocksHoldMax'
  BY <1>2 DEF BlocksHoldMax, Masked, Keys, chunk, indexer
<1>3. ASSUME kstart' = 0, \A b \in Blocks(Keys') : blocks'[b] = NegInf PROVE BlocksHoldMax'
  <2>1. 0 .. kstart' - 1 = {}
    BY <1>3
  <2> QED BY <2>1, <1>3 DEF BlocksHoldMax
<1>4. CASE Boot /\ UNCHANGED <<chunk, indexer>>
  BY <1>2, <1>4
<1>5. CASE Serve
  <2>1. CASE SubmitPrompt
    <3>1. phase' = "idle"
      BY <2>1 DEF SubmitPrompt, Submit, indexer, TypeInv, TypeOK
    <3> QED BY <3>1, <1>1
  <2>2. CASE StartChunk
    <3>1. phase = "idle"
      BY <2>2 DEF StartChunk, NextChunk, TypeInv, TypeOK
    <3>2. kstart' = 0
      BY <2>2, <3>1 DEF StartChunk, TypeInv, Idle
    <3>3. blocks' = NoBlocks(Keys')
      BY <2>2 DEF StartChunk
    <3>4. \A b \in Blocks(Keys') : blocks'[b] = NegInf
      BY <3>3 DEF NoBlocks
    <3> QED BY <3>2, <3>4, <1>3
  <2>3. CASE Rank
    <3>1. CASE phase = "chunk"
      <4>1. kstart = 0
        BY <3>1 DEF TypeInv, Idle
      <4>2. 0 .. kstart - 1 = {}
        BY <4>1
      <4>3. \A b \in Blocks(Keys) : blocks[b] = NegInf
        BY <3>1, <4>2 DEF BlocksHoldMax
      <4>4. kstart' = 0 /\ blocks' = blocks /\ Keys' = Keys
        BY <2>3 DEF Rank, Keys, chunk
      <4> QED BY <4>3, <4>4, <1>3
    <3>2. CASE phase = "between"
      BY <2>3, <3>2, <1>1 DEF Rank
    <3> QED BY <2>3, <3>1, <3>2 DEF Rank
  <2>4. CASE Slice
    BY <2>4, SliceHoldsMax
  <2>5. CASE IndexUpstream \/ NoKeys \/ Publish \/ Attend \/ FinishChunk
    BY <2>5, <1>1 DEF IndexUpstream, NoKeys, Publish, Attend, FinishChunk
  <2> QED BY <1>5, <2>1, <2>2, <2>3, <2>4, <2>5 DEF Serve, IndexSliced
<1>6. CASE UNCHANGED <<process, prefill>>
  BY <1>6, <1>2 DEF prefill
<1> QED BY <1>4, <1>5, <1>6 DEF ServerNext

(* The maxima of a finished source are those of the keys the row sees.     *)
LEMMA MaximaAreOfTheRow ==
    ASSUME TypeInv, BlocksHoldMax, phase = "source", kstart = Keys, NEW b \in Blocks(Keys)
    PROVE  /\ \A j \in InBlock(b) : score[j] \in Nat /\ blocks[b] >= score[j]
           /\ blocks[b] \in Int /\ blocks[b] <= MaxScore
           /\ blocks[b] = NegInf \/ \E i \in InBlock(b) : blocks[b] = score[i]
<1>1. Keys \in Nat /\ seen \in Nat /\ seen <= Keys
  BY KeysType DEF TypeInv, TypeOK
<1>2. blocks[b] \in Int /\ blocks[b] <= MaxScore
  BY IndexerAssumption DEF TypeInv, TypeOK, NegInf
<1>3. ASSUME NEW j \in InBlock(b) PROVE score[j] \in Nat /\ blocks[b] >= score[j]
  <2>1. j \in 0 .. seen - 1 /\ j \div BlockSize = b
    BY DEF InBlock
  <2>2. j \in 0 .. Keys - 1 /\ ~(j >= seen)
    <3> HIDE DEF Keys
    <3> QED BY <2>1, <1>1
  <2>3. Masked(j) = score[j]
    BY <2>2 DEF Masked
  <2>4. score[j] \in Nat
    BY <2>2, IndexerAssumption DEF TypeInv, TypeOK
  <2>5. blocks[b] >= Masked(j)
    BY <2>1, <2>2 DEF BlocksHoldMax
  <2> QED BY <2>3, <2>4, <2>5
<1>4. ASSUME blocks[b] # NegInf PROVE \E i \in InBlock(b) : blocks[b] = score[i]
  <2>1. PICK j \in 0 .. Keys - 1 : j \div BlockSize = b /\ blocks[b] = Masked(j)
    BY <1>4 DEF BlocksHoldMax
  <2>2. ~(j >= seen) /\ Masked(j) = score[j]
    BY <1>4, <2>1 DEF Masked
  <2>3. j \in 0 .. seen - 1
    <3> HIDE DEF Keys
    <3> QED BY <2>2, <1>1
  <2> QED BY <2>1, <2>2, <2>3 DEF InBlock
<1> QED BY <1>2, <1>3, <1>4

LEMMA PublishesBest ==
    ASSUME TypeInv, BlocksHoldMax, Publish
    PROVE  CandidatesAreBest'
<1> DEFINE K == Blocks(Keys)
           V == {j \div BlockSize : j \in 0 .. seen - 1}
           last == (seen - 1) \div BlockSize
           forced == IF seen = 0 THEN -1 ELSE (seen - 1) \div BlockSize
           v == [b \in K |-> IF b = forced THEN MaxScore + 1 ELSE blocks[b]]
<1>1. /\ Keys \in Nat /\ seen \in Nat /\ seen <= Keys
      /\ TopBlocks \in Nat \ {0} /\ MaxScore \in Nat /\ BlockSize \in Nat \ {0}
  BY KeysType, IndexerAssumption DEF TypeInv, TypeOK
<1>2. phase = "source" /\ kstart = Keys /\ phase' = "between" /\ UNCHANGED <<seen, score>>
  BY DEF Publish
<1>3. PICK S \in SUBSET K : IsTop(S, K, TopBlocks, v) /\ mask' = {b \in S : v[b] > NegInf}
  BY DEF Publish, CandidateMask
<1>4. IsFiniteSet(K)
  <2>1. (Keys + BlockSize - 1) \div BlockSize \in Int
    <3>1. Keys + BlockSize - 1 \in Nat
      BY <1>1
    <3> HIDE DEF Keys
    <3> QED BY <3>1, <1>1
  <2>2. ((Keys + BlockSize - 1) \div BlockSize) - 1 \in Int
    BY <2>1
  <2> QED BY <2>2, Interval DEF Blocks
<1>5. V \subseteq K
  <2>1. \A j \in 0 .. seen - 1 : j \in 0 .. Keys - 1
    <3> HIDE DEF Keys
    <3> QED BY <1>1
  <2> QED BY <2>1, <1>1, BlocksOfKeys
<1>6. seen > 0 => last \in V /\ forced = last
  <2>1. seen > 0 => seen - 1 \in 0 .. seen - 1
    BY <1>1
  <2> QED BY <2>1, <1>1
<1>7. \A b \in K : b \in Nat
  BY DEF Blocks
<1>8. seen = 0 => forced = -1 /\ V = {}
  BY <1>1
<1>9. \A b \in K : b # forced => v[b] = blocks[b]
  OBVIOUS
<1>10. \A b \in V : InBlock(b) # {}
  BY DEF InBlock
<1>11. \A b \in K \ V : InBlock(b) = {}
  BY DEF InBlock
<1>12. seen > 0 => v[last] = MaxScore + 1
  BY <1>5, <1>6
<1>13. \A b \in V : v[b] \in Nat /\ (b # last => v[b] = blocks[b])
  <2> SUFFICES ASSUME NEW b \in V PROVE v[b] \in Nat /\ (b # last => v[b] = blocks[b])
    OBVIOUS
  <2>1. seen > 0 /\ forced = last
    BY <1>1, <1>6, <1>8
  <2>2. CASE b = last
    BY <2>1, <2>2, <1>1, <1>12
  <2>3. CASE b # last
    <3>1. v[b] = blocks[b]
      BY <2>1, <2>3, <1>5, <1>9
    <3>2. PICK j \in InBlock(b) : TRUE
      BY <1>10
    <3>3. score[j] \in Nat /\ blocks[b] >= score[j] /\ blocks[b] \in Int
      BY <1>2, <1>5, MaximaAreOfTheRow
    <3> QED BY <3>1, <3>3
  <2> QED BY <2>2, <2>3
<1>14. \A b \in K \ V : v[b] = -1
  <2> SUFFICES ASSUME NEW b \in K \ V PROVE v[b] = -1
    OBVIOUS
  <2>1. b # forced
    <3>1. CASE seen = 0
      BY <3>1, <1>7, <1>8
    <3>2. CASE seen > 0
      BY <3>2, <1>6
    <3> QED BY <3>1, <3>2, <1>1
  <2>2. v[b] = blocks[b]
    BY <2>1, <1>9
  <2>3. blocks[b] = NegInf
    BY <1>2, <1>11, MaximaAreOfTheRow
  <2> QED BY <2>2, <2>3 DEF NegInf
<1> HIDE DEF K, V, v, last, forced
<1>15. mask' = S \cap V
  <2>1. \A b \in S : v[b] > NegInf <=> b \in V
    BY <1>13, <1>14 DEF NegInf
  <2> QED BY <2>1, <1>3
<1> DEFINE M == S \cap V
<1>16. IsTop(M, V, TopBlocks, v)
  BY <1>1, <1>3, <1>4, <1>5, <1>13, <1>14, BestOfEligible
<1>17. /\ M \subseteq V /\ Cardinality(M) = Least(TopBlocks, Cardinality(V))
       /\ \A x \in M, y \in V \ M : v[x] >= v[y]
  BY <1>16 DEF IsTop
<1>18. IsFiniteSet(V) /\ IsFiniteSet(M)
  BY <1>4, <1>5, FS_Subset
<1> HIDE DEF M
<1>19. seen > 0 => last \in M
  <2> SUFFICES ASSUME seen > 0, last \notin M PROVE FALSE
    OBVIOUS
  <2>1. last \in V \ M /\ v[last] = MaxScore + 1
    BY <1>6, <1>12
  <2>2. M = {}
    <3> SUFFICES ASSUME NEW x \in M PROVE FALSE
      OBVIOUS
    <3>1. x \in V /\ x # last /\ v[x] >= MaxScore + 1
      BY <2>1, <1>17
    <3>2. v[x] = blocks[x] /\ x \in K
      BY <3>1, <1>5, <1>13
    <3>3. blocks[x] \in Int /\ blocks[x] <= MaxScore
      BY <3>2, <1>2, MaximaAreOfTheRow DEF K
    <3> QED BY <3>1, <3>2, <3>3, <1>1
  <2>3. Cardinality(M) = 0
    BY <2>2, FS_EmptySet
  <2>4. Cardinality(V) \in Nat /\ Cardinality(V) # 0
    BY <2>1, <1>18, FS_EmptySet, FS_CardinalityType
  <2> QED BY <2>3, <2>4, <1>1, <1>17 DEF Least
<1>20. ASSUME NEW b \in M \ {last}, NEW c \in V \ M, NEW j \in InBlock(c)
       PROVE  \E i \in InBlock(b) : score[i] >= score[j]
  <2>1. seen > 0 /\ c # last /\ b \in V
    BY <1>1, <1>8, <1>17, <1>19
  <2>2. v[b] = blocks[b] /\ v[c] = blocks[c] /\ v[b] >= v[c] /\ v[b] \in Nat
    BY <2>1, <1>13, <1>17
  <2>3. b \in Blocks(Keys) /\ c \in Blocks(Keys)
    BY <2>1, <1>5 DEF K
  <2>4. /\ score[j] \in Nat /\ blocks[c] >= score[j] /\ blocks[c] \in Int
        /\ blocks[b] = NegInf \/ \E i \in InBlock(b) : blocks[b] = score[i]
    BY <2>3, <1>2, MaximaAreOfTheRow
  <2>5. blocks[b] # NegInf
    BY <2>2 DEF NegInf
  <2>6. PICK i \in InBlock(b) : blocks[b] = score[i]
    BY <2>4, <2>5
  <2>7. score[i] >= score[j]
    BY <2>2, <2>4, <2>6
  <2> QED BY <2>7
<1>21. /\ mask' \subseteq V
       /\ Cardinality(mask') = Least(TopBlocks, Cardinality(V))
       /\ seen > 0 => last \in mask'
       /\ \A b \in mask' \ {last}, c \in V \ mask' :
             \A j \in InBlock(c) : \E i \in InBlock(b) : score[i] >= score[j]
  <2>1. mask' = M
    BY <1>15 DEF M
  <2> QED BY <2>1, <1>17, <1>19, <1>20
<1> QED BY <1>2, <1>21 DEF CandidatesAreBest, InBlock, V, last

LEMMA StepPublishesBest ==
    TypeInv /\ BlocksHoldMax /\ CandidatesAreBest /\ [ServerNext]_<<process, prefill>>
        => CandidatesAreBest'
<1> SUFFICES ASSUME TypeInv, BlocksHoldMax, CandidatesAreBest, [ServerNext]_<<process, prefill>>
             PROVE  CandidatesAreBest'
  OBVIOUS
<1>1. ASSUME phase' # "between" PROVE CandidatesAreBest'
  BY <1>1 DEF CandidatesAreBest
<1>2. ASSUME UNCHANGED indexer PROVE CandidatesAreBest'
  BY <1>2 DEF CandidatesAreBest, InBlock, indexer
<1>3. CASE Boot /\ UNCHANGED <<chunk, indexer>>
  BY <1>2, <1>3
<1>4. CASE Serve
  <2>1. CASE SubmitPrompt
    BY <2>1, <1>2 DEF SubmitPrompt
  <2>2. CASE Publish
    BY <2>2, PublishesBest
  <2>3. CASE StartChunk \/ IndexUpstream \/ NoKeys \/ Rank \/ Slice \/ Attend \/ FinishChunk
    BY <2>3, <1>1 DEF StartChunk, IndexUpstream, NoKeys, Rank, Slice, Attend, FinishChunk
  <2> QED BY <1>4, <2>1, <2>2, <2>3 DEF Serve, IndexSliced
<1>5. CASE UNCHANGED <<process, prefill>>
  BY <1>5, <1>2 DEF prefill
<1> QED BY <1>3, <1>4, <1>5 DEF ServerNext

(* The blocks a source publishes for a row are the best of those the row   *)
(* sees, its last one among them, wherever the slices begin and end.       *)
THEOREM CandidatesAreTheRows == ServerSpec => []CandidatesAreBest
<1>1. ServerInit => BlocksHoldMax /\ CandidatesAreBest
  BY DEF ServerInit, RowInit, BlocksHoldMax, CandidatesAreBest
<1> QED BY <1>1, StateIsTyped, StepHoldsMax, StepPublishesBest, PTL DEF ServerSpec

(***************************************************************************)
(* Windows of n-grams                                                      *)
(***************************************************************************)

(* There is a longest run of live tokens to choose.                        *)
LEMMA LiveRunIs ==
    ASSUME NEW text \in Seq(Int), NEW p \in 0 .. Len(text) - 1
    PROVE  /\ LiveRun(text, p) \in 0 .. p + 1
           /\ \A s \in 0 .. LiveRun(text, p) - 1 : text[p - s + 1] # Dead
           /\ \/ LiveRun(text, p) \in {MaxGram, p + 1}
              \/ text[p - LiveRun(text, p) + 1] = Dead
<1> DEFINE D == {s \in Nat : s <= p /\ text[p - s + 1] = Dead}
           Is(n) == /\ \A s \in 0 .. n - 1 : text[p - s + 1] # Dead
                    /\ n \in {MaxGram, p + 1} \/ text[p - n + 1] = Dead
<1>1. \E n \in 0 .. p + 1 : Is(n)
  <2>1. CASE D = {}
    <3>1. p \in Nat /\ p + 1 \in 0 .. p + 1 /\ \A s \in 0 .. p + 1 - 1 : s \in Nat /\ s <= p
      OBVIOUS
    <3>2. ASSUME NEW s \in 0 .. p + 1 - 1 PROVE text[p - s + 1] # Dead
      <4>1. s \in Nat /\ s <= p /\ s \notin D
        BY <3>1, <2>1
      <4> QED BY <4>1
    <3>3. Is(p + 1)
      BY <3>2
    <3> QED BY <3>1, <3>3
  <2>2. CASE D # {}
    <3>0. D \in SUBSET Nat
      OBVIOUS
    <3>1. PICK n \in D : \A s \in D : n <= s
      BY <3>0, <2>2, LeastNumber
    <3>2. n \in Nat /\ n <= p /\ text[p - n + 1] = Dead
      BY <3>1
    <3>3. ASSUME NEW s \in 0 .. n - 1 PROVE text[p - s + 1] # Dead
      <4>1. s \in Nat /\ s <= p /\ ~(n <= s)
        BY <3>2
      <4> QED BY <4>1, <3>1
    <3>4. n \in 0 .. p + 1 /\ Is(n)
      BY <3>2, <3>3
    <3> QED BY <3>4
  <2> QED BY <2>1, <2>2
<1>2. LiveRun(text, p) = CHOOSE n \in 0 .. p + 1 : Is(n)
  BY DEF LiveRun
<1> HIDE DEF Is
<1>3. LiveRun(text, p) \in 0 .. p + 1 /\ Is(LiveRun(text, p))
  BY <1>1, <1>2
<1> QED BY <1>3 DEF Is

(* A cache that starts with the text up to p shows its window: blocking    *)
(* shift by shift ends where the run of live tokens does.                  *)
LEMMA WindowIsGram ==
    ASSUME NEW text \in Seq(Int), NEW p \in 0 .. Len(text) - 1, NEW cache,
           \A q \in 1 .. p + 1 : cache[q] = text[q]
    PROVE  Window(cache, p) = Gram(text, p)
<1> DEFINE n == LiveRun(text, p)
<1>1. /\ n \in 0 .. p + 1
      /\ \A s \in 0 .. n - 1 : text[p - s + 1] # Dead
      /\ n \in {MaxGram, p + 1} \/ text[p - n + 1] = Dead
  BY LiveRunIs
<1> HIDE DEF n
<1>2. ASSUME NEW i \in 1 .. MaxGram
      PROVE  Lookback(cache, p, i - 1) = IF i <= n THEN text[p - i + 2] ELSE PadId
  <2>0. i \in Int /\ n \in Int /\ p \in Nat /\ MaxGram \in Nat
    BY <1>1, WindowAssumption
  <2>1. CASE i <= n
    <3>1. ~(p < i - 1) /\ p - i + 2 \in 1 .. p + 1 /\ p - (i - 1) + 1 = p - i + 2
      BY <1>1, <2>0, <2>1
    <3>2. ASSUME NEW s \in 0 .. i - 1 PROVE cache[p - s + 1] # Dead
      <4>1. s \in 0 .. n - 1 /\ p - s + 1 \in 1 .. p + 1
        BY <1>1, <2>0, <2>1
      <4> QED BY <4>1, <1>1
    <3> QED BY <3>1, <3>2, <2>1 DEF Lookback
  <2>2. CASE ~(i <= n)
    <3>1. n # MaxGram
      BY <2>0, <2>2
    <3>2. CASE n = p + 1
      <4>1. p < i - 1
        BY <3>2, <2>0, <2>2
      <4> QED BY <4>1, <2>2 DEF Lookback
    <3>3. CASE n # p + 1
      <4>1. n \in 0 .. i - 1 /\ p - n + 1 \in 1 .. p + 1 /\ text[p - n + 1] = Dead
        <5>1. text[p - n + 1] = Dead
          BY <1>1, <3>1, <3>3
        <5>2. n \in 0 .. p /\ n < i
          BY <1>1, <2>0, <2>2, <3>3
        <5>3. n \in 0 .. i - 1
          BY <2>0, <5>2
        <5>4. p - n + 1 \in 1 .. p + 1
          BY <2>0, <5>2
        <5> QED BY <5>1, <5>3, <5>4
      <4>2. cache[p - n + 1] = Dead
        BY <4>1
      <4> QED BY <4>1, <4>2, <2>2 DEF Lookback
    <3> QED BY <3>2, <3>3
  <2> QED BY <2>1, <2>2
<1> QED BY <1>2 DEF Window, Gram, n

LEMMA Segment ==
    ASSUME NEW s \in Seq(Int), NEW m \in Nat, NEW n \in Nat, m <= n, n <= Len(s)
    PROVE  /\ SubSeq(s, m + 1, n) \in Seq(Int)
           /\ Len(SubSeq(s, m + 1, n)) = n - m
           /\ \A i \in 1 .. n - m : SubSeq(s, m + 1, n)[i] = s[m + i]
<1> DEFINE k == m + 1
<1>1. k \in Int /\ n \in Int /\ \A i \in k .. n : i \in 1 .. Len(s)
  OBVIOUS
<1>2. \A i \in k .. n : s[i] \in Int
  BY <1>1, ElementOfSeq
<1> HIDE DEF k
<1>3. /\ SubSeq(s, k, n) \in Seq(Int)
      /\ Len(SubSeq(s, k, n)) = IF k <= n THEN n - k + 1 ELSE 0
      /\ \A i \in 1 .. n - k + 1 : SubSeq(s, k, n)[i] = s[k + i - 1]
  BY <1>1, <1>2, SubSeqProperties
<1>4. /\ n - k + 1 = n - m /\ (IF k <= n THEN n - k + 1 ELSE 0) = n - m
      /\ \A i \in 1 .. n - m : k + i - 1 = m + i
  BY DEF k
<1>5. SubSeq(s, k, n) = SubSeq(s, m + 1, n)
  BY DEF k
<1> QED BY <1>3, <1>4, <1>5

LEMMA Within ==
    ASSUME NEW m \in Int, NEW n \in Int, m <= n, NEW q \in 1 .. m
    PROVE  q \in Int /\ q <= m /\ q \in 1 .. n
  OBVIOUS

LEMMA Behind ==
    ASSUME NEW m \in Nat, NEW n \in Nat, NEW i \in 1 .. n
    PROVE  m + i \in 1 .. m + n /\ ~(m + i <= m) /\ m + i - m = i
  OBVIOUS

LEMMA Inside ==
    ASSUME NEW from \in Nat, NEW to \in Nat, NEW end \in Nat, to <= end, NEW p \in from .. to - 1
    PROVE  p \in 0 .. end - 1 /\ p + 1 \in Int /\ to \in Int /\ p + 1 <= to
  OBVIOUS

LEMMA Beyond ==
    ASSUME NEW m \in Nat, NEW n \in Nat, NEW q \in 1 .. n, ~(q <= m)
    PROVE  \E i \in 1 .. n - m : q = m + i
<1>1. q - m \in 1 .. n - m /\ q = m + (q - m)
  OBVIOUS
<1> QED BY <1>1

LEMMA Glued ==
    ASSUME NEW a \in Seq(Int), NEW b \in Seq(Int)
    PROVE  /\ a \o b \in Seq(Int) /\ Len(a \o b) = Len(a) + Len(b)
           /\ \A q \in 1 .. Len(a) : (a \o b)[q] = a[q]
           /\ \A i \in 1 .. Len(b) : (a \o b)[Len(a) + i] = b[i]
<1>1. PICK m \in Nat, n \in Nat : m = Len(a) /\ n = Len(b)
  OBVIOUS
<1>2. /\ a \o b \in Seq(Int) /\ Len(a \o b) = m + n
      /\ \A i \in 1 .. m + n : (a \o b)[i] = IF i <= m THEN a[i] ELSE b[i - m]
  BY <1>1, ConcatProperties
<1>3. ASSUME NEW q \in 1 .. m PROVE (a \o b)[q] = a[q]
  <2>1. m \in Int /\ m + n \in Int /\ m <= m + n
    OBVIOUS
  <2>2. q <= m /\ q \in 1 .. m + n
    BY <2>1, Within
  <2> QED BY <2>2, <1>2
<1>4. ASSUME NEW i \in 1 .. n PROVE (a \o b)[m + i] = b[i]
  <2>1. m + i \in 1 .. m + n /\ ~(m + i <= m) /\ m + i - m = i
    BY Behind
  <2> QED BY <2>1, <1>2
<1> QED BY <1>1, <1>2, <1>3, <1>4

LEMMA Joined ==
    ASSUME NEW a \in Seq(Int), NEW b \in Seq(Int), NEW c \in Seq(Int)
    PROVE  /\ Len(a \o b \o c) = Len(a) + Len(b) + Len(c)
           /\ \A q \in 1 .. Len(a) : (a \o b \o c)[q] = a[q]
           /\ \A i \in 1 .. Len(b) : (a \o b \o c)[Len(a) + i] = b[i]
<1>1. PICK d : d = a \o b
  OBVIOUS
<1>2. PICK m \in Nat, n \in Nat, l \in Nat : m = Len(a) /\ n = Len(b) /\ l = Len(c)
  OBVIOUS
<1>3. /\ d \in Seq(Int) /\ Len(d) = m + n
      /\ \A q \in 1 .. m : d[q] = a[q]
      /\ \A i \in 1 .. n : d[m + i] = b[i]
  BY <1>1, <1>2, Glued
<1>4. Len(d \o c) = m + n + l /\ \A q \in 1 .. m + n : (d \o c)[q] = d[q]
  <2>1. d \in Seq(Int)
    BY <1>3
  <2>2. Len(d \o c) = Len(d) + Len(c) /\ \A q \in 1 .. Len(d) : (d \o c)[q] = d[q]
    BY <2>1, Glued
  <2> QED BY <1>2, <1>3, <2>2
<1>5. ASSUME NEW q \in 1 .. m PROVE (d \o c)[q] = a[q]
  <2>1. q \in 1 .. m + n
    <3>1. m \in Int /\ m + n \in Int /\ m <= m + n
      OBVIOUS
    <3> QED BY <3>1, Within
  <2> QED BY <2>1, <1>3, <1>4
<1>6. ASSUME NEW i \in 1 .. n PROVE (d \o c)[m + i] = b[i]
  <2>1. m + i \in 1 .. m + n
    BY Behind
  <2> QED BY <2>1, <1>3, <1>4
<1> QED BY <1>1, <1>2, <1>4, <1>5, <1>6

(* A call overwrites its own positions and none before them.               *)
LEMMA CacheKeeps ==
    ASSUME NEW cache \in Seq(Int), NEW ids \in Seq(Int), NEW from \in Nat,
           from + Len(ids) <= Len(cache)
    PROVE  /\ Len(Cached(cache, from, ids)) = Len(cache)
           /\ \A q \in 1 .. from : Cached(cache, from, ids)[q] = cache[q]
           /\ \A i \in 1 .. Len(ids) : Cached(cache, from, ids)[from + i] = ids[i]
<1>1. PICK size \in Nat, n \in Nat : size = Len(cache) /\ n = Len(ids)
  OBVIOUS
<1>2. PICK a, c : a = SubSeq(cache, 1, from) /\ c = SubSeq(cache, from + n + 1, Len(cache))
  OBVIOUS
<1>3. /\ a \in Seq(Int) /\ Len(a) = from /\ \A q \in 1 .. from : a[q] = cache[q]
  <2>1. /\ SubSeq(cache, 0 + 1, from) \in Seq(Int) /\ Len(SubSeq(cache, 0 + 1, from)) = from - 0
        /\ \A i \in 1 .. from - 0 : SubSeq(cache, 0 + 1, from)[i] = cache[0 + i]
    <3>1. 0 \in Nat /\ 0 <= from /\ from <= Len(cache)
      BY <1>1
    <3> QED BY <3>1, Segment
  <2>2. 0 + 1 = 1 /\ from - 0 = from /\ \A i \in 1 .. from : 0 + i = i
    OBVIOUS
  <2> QED BY <1>2, <2>1, <2>2
<1>4. c \in Seq(Int) /\ Len(c) = size - (from + n) /\ Len(c) \in Nat
  <2>1. PICK k \in Nat : k = from + n
    OBVIOUS
  <2>2. k <= size
    BY <1>1, <2>1
  <2>3. SubSeq(cache, k + 1, size) \in Seq(Int) /\ Len(SubSeq(cache, k + 1, size)) = size - k
    BY <1>1, <2>2, Segment
  <2>4. size - k \in Nat
    BY <2>2
  <2> QED BY <1>1, <1>2, <2>1, <2>3, <2>4
<1>5. Cached(cache, from, ids) = a \o ids \o c
  BY <1>1, <1>2 DEF Cached
<1>6. /\ Len(a \o ids \o c) = from + n + Len(c)
      /\ \A q \in 1 .. from : (a \o ids \o c)[q] = a[q]
      /\ \A i \in 1 .. n : (a \o ids \o c)[from + i] = ids[i]
  <2>1. a \in Seq(Int) /\ c \in Seq(Int)
    BY <1>3, <1>4
  <2>2. /\ Len(a \o ids \o c) = Len(a) + Len(ids) + Len(c)
        /\ \A q \in 1 .. Len(a) : (a \o ids \o c)[q] = a[q]
        /\ \A i \in 1 .. Len(ids) : (a \o ids \o c)[Len(a) + i] = ids[i]
    <3>1. ids \in Seq(Int)
      OBVIOUS
    <3> QED BY ZenonT(60), <2>1, <3>1, Joined
  <2> QED BY <1>1, <1>3, <2>2
<1>7. from + n + Len(c) = Len(cache)
  BY <1>1, <1>4
<1> QED BY <1>1, <1>3, <1>5, <1>6, <1>7

(* A cache that starts with the text up to one end starts with it up to    *)
(* the end of the next call afterwards.                                    *)
LEMMA CallCarriesText ==
    ASSUME NEW text \in Seq(Int), NEW from \in Nat, NEW to \in Nat, from <= to, to <= Len(text),
           NEW cache \in Seq(Int), Len(text) <= Len(cache),
           \A q \in 1 .. from : cache[q] = text[q]
    PROVE  /\ Len(Cached(cache, from, SubSeq(text, from + 1, to))) = Len(cache)
           /\ \A q \in 1 .. to : Cached(cache, from, SubSeq(text, from + 1, to))[q] = text[q]
<1>0. PICK ids, after : ids = SubSeq(text, from + 1, to) /\ after = Cached(cache, from, ids)
  OBVIOUS
<1>1. PICK n \in Nat : n = to - from
  OBVIOUS
<1>2. ids \in Seq(Int) /\ Len(ids) = n /\ \A i \in 1 .. n : ids[i] = text[from + i]
  BY <1>0, <1>1, Segment
<1>3. from + n <= Len(cache)
  <2>1. Len(cache) \in Nat /\ Len(text) \in Nat
    OBVIOUS
  <2> QED BY <1>1, <2>1
<1>4. /\ Len(after) = Len(cache)
      /\ \A q \in 1 .. from : after[q] = cache[q]
      /\ \A i \in 1 .. n : after[from + i] = ids[i]
  <2>1. ids \in Seq(Int) /\ from + Len(ids) <= Len(cache) /\ Len(ids) = n
    BY <1>2, <1>3
  <2>2. /\ Len(Cached(cache, from, ids)) = Len(cache)
        /\ \A q \in 1 .. from : Cached(cache, from, ids)[q] = cache[q]
        /\ \A i \in 1 .. Len(ids) : Cached(cache, from, ids)[from + i] = ids[i]
    BY <2>1, CacheKeeps
  <2> QED BY <1>0, <2>1, <2>2
<1>5. ASSUME NEW q \in 1 .. to PROVE after[q] = text[q]
  <2>1. CASE q <= from
    <3>1. q \in 1 .. from
      BY <2>1
    <3> QED BY <3>1, <1>4
  <2>2. CASE ~(q <= from)
    <3>1. PICK i \in 1 .. n : q = from + i
      BY <1>1, <2>2, Beyond
    <3> QED BY <3>1, <1>2, <1>4
  <2> QED BY <2>1, <2>2
<1> QED BY <1>0, <1>4, <1>5

(* However a text is split into calls of forward, over the chunks of a     *)
(* prompt and the tokens of an answer, and whatever the cache held before, *)
(* every call hashes the n-grams of the whole text ("The cache carries all *)
(* of this across the prefill/decode split", engram.py:133-135).           *)
THEOREM WindowsAreWhole ==
    ASSUME NEW text \in Seq(Int), NEW n \in Nat,
           NEW cut \in [0 .. n -> 0 .. Len(text)], cut[0] = 0,
           \A k \in 1 .. n : cut[k-1] <= cut[k],
           NEW cache \in [0 .. n -> Seq(Int)], Len(text) <= Len(cache[0]),
           \A k \in 1 .. n :
               cache[k] = Cached(cache[k-1], cut[k-1], SubSeq(text, cut[k-1] + 1, cut[k]))
    PROVE  \A k \in 1 .. n : \A p \in cut[k-1] .. cut[k] - 1 :
               Window(cache[k], p) = Gram(text, p)
<1> DEFINE Good(k) == /\ Len(cache[k]) = Len(cache[0])
                      /\ \A q \in 1 .. cut[k] : cache[k][q] = text[q]
           Bad == {k \in 0 .. n : ~Good(k)}
<1>0. Len(text) \in Nat
  OBVIOUS
<1>1. Good(0)
  OBVIOUS
<1>2. ASSUME NEW k \in 1 .. n, Good(k-1) PROVE Good(k)
  <2>1. PICK from \in Nat, to \in Nat : from = cut[k-1] /\ to = cut[k]
    <3>1. k \in 0 .. n /\ k - 1 \in 0 .. n
      OBVIOUS
    <3>2. cut[k-1] \in 0 .. Len(text) /\ cut[k] \in 0 .. Len(text)
      BY <3>1
    <3> QED BY <3>2, <1>0
  <2>2. from <= to
    BY <2>1
  <2>3. to <= Len(text) /\ cache[k-1] \in Seq(Int)
    <3>1. k \in 0 .. n /\ k - 1 \in 0 .. n
      OBVIOUS
    <3>2. cut[k] \in 0 .. Len(text) /\ cache[k-1] \in Seq(Int)
      BY <3>1
    <3> QED BY <3>2, <2>1, <1>0
  <2>4. cache[k] = Cached(cache[k-1], from, SubSeq(text, from + 1, to))
    BY <2>1
  <2>5. Len(text) <= Len(cache[k-1]) /\ \A q \in 1 .. from : cache[k-1][q] = text[q]
    BY <2>1, <1>2
  <2>6. Len(cache[k]) = Len(cache[k-1]) /\ \A q \in 1 .. to : cache[k][q] = text[q]
    <3>1. PICK before, after : before = cache[k-1] /\ after = cache[k]
      OBVIOUS
    <3>2. /\ before \in Seq(Int) /\ to <= Len(text) /\ Len(text) <= Len(before)
          /\ \A q \in 1 .. from : before[q] = text[q]
          /\ after = Cached(before, from, SubSeq(text, from + 1, to))
      BY <2>3, <2>4, <2>5, <3>1
    <3>3. /\ Len(Cached(before, from, SubSeq(text, from + 1, to))) = Len(before)
          /\ \A q \in 1 .. to : Cached(before, from, SubSeq(text, from + 1, to))[q] = text[q]
      BY <2>2, <3>2, CallCarriesText
    <3> QED BY <3>1, <3>2, <3>3
  <2> QED BY <2>1, <2>6, <1>2
<1> HIDE DEF Good
<1>3. Bad = {}
  <2>1. SUFFICES ASSUME Bad # {} PROVE FALSE
    OBVIOUS
  <2>2. PICK k \in Bad : \A j \in Bad : k <= j
    <3>1. Bad \in SUBSET Nat
      OBVIOUS
    <3> QED BY <2>1, <3>1, LeastNumber
  <2>3. k # 0
    BY <1>1, <2>2
  <2>4. k \in 1 .. n /\ k - 1 \in 0 .. n /\ ~(k <= k - 1)
    BY <2>2, <2>3
  <2>5. Good(k-1)
    BY <2>2, <2>4
  <2> QED BY <1>2, <2>2, <2>4, <2>5
<1>4. ASSUME NEW k \in 1 .. n, NEW p \in cut[k-1] .. cut[k] - 1
      PROVE  Window(cache[k], p) = Gram(text, p)
  <2>1. k \in 0 .. n /\ k - 1 \in 0 .. n
    OBVIOUS
  <2>2. PICK from \in Nat, to \in Nat : from = cut[k-1] /\ to = cut[k] /\ to <= Len(text)
    <3>1. cut[k-1] \in 0 .. Len(text) /\ cut[k] \in 0 .. Len(text)
      BY <2>1
    <3> QED BY <3>1, <1>0
  <2>3. p \in from .. to - 1
    BY <2>2
  <2>4. p \in 0 .. Len(text) - 1 /\ \A q \in 1 .. p + 1 : q \in 1 .. to
    <3>1. p \in 0 .. Len(text) - 1 /\ p + 1 \in Int /\ to \in Int /\ p + 1 <= to
      BY <2>2, <2>3, <1>0, Inside
    <3> QED BY <3>1, Within
  <2>5. \A q \in 1 .. to : cache[k][q] = text[q]
    BY <1>3, <2>1, <2>2 DEF Good
  <2>6. \A q \in 1 .. p + 1 : cache[k][q] = text[q]
    BY <2>4, <2>5
  <2> QED BY <2>4, <2>6, WindowIsGram
<1> QED BY <1>4

(***************************************************************************)
(* Texts one after the other                                               *)
(***************************************************************************)

LEMMA CachedType ==
    ASSUME NEW cache \in Seq(Int), NEW ids \in Seq(Int), NEW from \in Nat, from <= Len(cache)
    PROVE  Cached(cache, from, ids) \in Seq(Int)
<1>1. SubSeq(cache, 1, from) \in Seq(Int)
  <2>1. 0 \in Nat /\ 0 <= from /\ 0 + 1 = 1
    OBVIOUS
  <2> QED BY <2>1, Segment
<1>2. SubSeq(cache, from + Len(ids) + 1, Len(cache)) \in Seq(Int)
  <2>1. PICK k \in Int : k = from + Len(ids) + 1 /\ 1 <= k
    OBVIOUS
  <2>2. \A i \in k .. Len(cache) : i \in 1 .. Len(cache)
    BY <2>1
  <2>3. \A i \in k .. Len(cache) : cache[i] \in Int
    BY <2>2, ElementOfSeq
  <2>4. SubSeq(cache, k, Len(cache)) \in Seq(Int)
    BY <2>1, <2>3, SubSeqProperties
  <2> QED BY <2>1, <2>4
<1> QED BY <1>1, <1>2, ConcatProperties DEF Cached

LEMMA WindowType ==
    ASSUME NEW cache \in Seq(Int), NEW p \in 0 .. Len(cache) - 1
    PROVE  Window(cache, p) \in [1 .. MaxGram -> Int]
<1>1. ASSUME NEW i \in 1 .. MaxGram PROVE Lookback(cache, p, i - 1) \in Int
  <2>1. CASE p < i - 1
    BY <2>1, WindowAssumption DEF Lookback
  <2>2. CASE ~(p < i - 1)
    <3>1. p - (i - 1) + 1 \in 1 .. Len(cache)
      BY <2>2, WindowAssumption
    <3>2. cache[p - (i - 1) + 1] \in Int
      BY <3>1, ElementOfSeq
    <3> QED BY <3>2, WindowAssumption DEF Lookback
  <2> QED BY <2>1, <2>2
<1> QED BY <1>1 DEF Window

(* A call that starts where the cache stops to be the text reads n-grams   *)
(* of the whole text and leaves a cache that is the text up to its end.    *)
LEMMA CallReadsGrams ==
    ASSUME NEW text \in Seq(Int), NEW from \in Nat, NEW to \in Nat, from <= to, to <= Len(text),
           NEW cache \in Seq(Int), Len(text) <= Len(cache),
           \A q \in 1 .. from : cache[q] = text[q]
    PROVE  /\ Cached(cache, from, SubSeq(text, from + 1, to)) \in Seq(Int)
           /\ Len(Cached(cache, from, SubSeq(text, from + 1, to))) = Len(cache)
           /\ \A q \in 1 .. to : Cached(cache, from, SubSeq(text, from + 1, to))[q] = text[q]
           /\ Windows(cache, from, SubSeq(text, from + 1, to)) \in Seq([1 .. MaxGram -> Int])
           /\ Len(Windows(cache, from, SubSeq(text, from + 1, to))) = to - from
           /\ AreGrams(Windows(cache, from, SubSeq(text, from + 1, to)), text, from)
<1>1. PICK ids, after : ids = SubSeq(text, from + 1, to) /\ after = Cached(cache, from, ids)
  OBVIOUS
<1>2. PICK n \in Nat : n = to - from
  OBVIOUS
<1>3. ids \in Seq(Int) /\ Len(ids) = n
  BY <1>1, <1>2, Segment
<1>4. Len(after) = Len(cache) /\ \A q \in 1 .. to : after[q] = text[q]
  <2>1. /\ Len(Cached(cache, from, SubSeq(text, from + 1, to))) = Len(cache)
        /\ \A q \in 1 .. to : Cached(cache, from, SubSeq(text, from + 1, to))[q] = text[q]
    BY CallCarriesText
  <2>2. after = Cached(cache, from, SubSeq(text, from + 1, to))
    BY <1>1
  <2> QED BY <2>1, <2>2
<1>5. after \in Seq(Int)
  <2>1. from <= Len(cache)
    OBVIOUS
  <2> QED BY <1>1, <1>3, <2>1, CachedType
<1>6. ASSUME NEW i \in 1 .. n
      PROVE  /\ Window(after, from + i - 1) \in [1 .. MaxGram -> Int]
             /\ Window(after, from + i - 1) = Gram(text, from + i - 1)
  <2>1. PICK p \in Int : p = from + i - 1
    OBVIOUS
  <2>2. p \in 0 .. Len(text) - 1 /\ p \in 0 .. Len(after) - 1 /\ \A q \in 1 .. p + 1 : q \in 1 .. to
    <3>1. PICK length \in Nat, size \in Nat : length = Len(text) /\ size = Len(after)
      <4>1. Len(text) \in Nat /\ Len(after) \in Nat
        BY <1>5, LenProperties
      <4> QED BY <4>1
    <3>2. to <= length /\ length <= size
      BY <3>1, <1>4
    <3>3. p \in 0 .. to - 1 /\ \A q \in 1 .. p + 1 : q \in 1 .. to
      BY <2>1, <1>2
    <3> QED BY <3>1, <3>2, <3>3
  <2>3. \A q \in 1 .. p + 1 : after[q] = text[q]
    BY <2>2, <1>4
  <2>4. Window(after, p) = Gram(text, p)
    BY <2>2, <2>3, WindowIsGram
  <2>5. Window(after, p) \in [1 .. MaxGram -> Int]
    BY <2>2, <1>5, WindowType
  <2> QED BY <2>1, <2>4, <2>5
<1>7. Windows(cache, from, ids) = [i \in 1 .. n |-> Window(after, from + i - 1)]
  BY <1>1, <1>3 DEF Windows
<1>8. /\ Windows(cache, from, ids) \in Seq([1 .. MaxGram -> Int])
      /\ Len(Windows(cache, from, ids)) = n
      /\ \A i \in 1 .. n : Windows(cache, from, ids)[i] = Window(after, from + i - 1)
  <2>1. PICK w : w = [i \in 1 .. n |-> Window(after, from + i - 1)]
    OBVIOUS
  <2>2. w \in [1 .. n -> [1 .. MaxGram -> Int]] /\ \A i \in 1 .. n : w[i] = Window(after, from + i - 1)
    BY <2>1, <1>6
  <2>3. w \in Seq([1 .. MaxGram -> Int]) /\ Len(w) = n
    BY <2>2, SeqDef, LenProperties
  <2> QED BY <1>7, <2>1, <2>2, <2>3
<1>9. AreGrams(Windows(cache, from, ids), text, from)
  BY <1>6, <1>8 DEF AreGrams
<1> QED BY <1>1, <1>2, <1>4, <1>5, <1>8, <1>9

LEMMA GivesWhole == TextInv /\ Give => TextInv'
<1> SUFFICES ASSUME TextInv, Give PROVE TextInv'
  OBVIOUS
<1>1. TextTypeOK'
  BY DEF TextInv, TextTypeOK, Give
<1>2. HeldIsWords' /\ ReadIsWhole'
  BY DEF Give, HeldIsWords, ReadIsWhole, AreGrams
<1> QED BY <1>1, <1>2 DEF TextInv

(* What a call leaves, whether it carries a chunk of the prompt or tokens  *)
(* of the answer.                                                          *)
LEMMA CallIsWhole ==
    ASSUME TextInv, words' \in Seq(Int), Len(words') <= Len(held),
           \A q \in 1 .. filled : words'[q] = words[q],
           filled' \in filled .. Len(words'),
           Hashes(filled, SubSeq(words', filled + 1, filled'))
    PROVE  TextInv'
<1> USE DEF TextInv
<1>1. /\ filled \in Nat /\ filled' \in Nat /\ filled <= filled' /\ filled' <= Len(words')
      /\ held \in Seq(Int) /\ filled <= Len(words)
  <2>1. Len(words') \in Nat /\ Len(words) \in Nat
    BY DEF TextTypeOK
  <2> QED BY <2>1 DEF TextTypeOK
<1>2. PICK from \in Nat, to \in Nat, text \in Seq(Int), cache \in Seq(Int) :
          from = filled /\ to = filled' /\ text = words' /\ cache = held
  BY <1>1
<1>3. PICK ids : ids = SubSeq(text, from + 1, to)
  OBVIOUS
<1>4. /\ from <= to /\ to <= Len(text) /\ Len(text) <= Len(cache)
      /\ \A q \in 1 .. from : cache[q] = text[q]
  <2>1. \A q \in 1 .. filled : held[q] = words'[q]
    BY DEF HeldIsWords
  <2> QED BY <1>1, <1>2, <2>1
<1>5. held' = Cached(cache, from, ids) /\ start' = from /\ read' = Windows(cache, from, ids)
  BY <1>2, <1>3 DEF Hashes
<1>6. /\ Cached(cache, from, ids) \in Seq(Int)
      /\ Len(Cached(cache, from, ids)) = Len(cache)
      /\ \A q \in 1 .. to : Cached(cache, from, ids)[q] = text[q]
      /\ Windows(cache, from, ids) \in Seq([1 .. MaxGram -> Int])
      /\ Len(Windows(cache, from, ids)) = to - from
      /\ AreGrams(Windows(cache, from, ids), text, from)
  <2>1. /\ Cached(cache, from, SubSeq(text, from + 1, to)) \in Seq(Int)
        /\ Len(Cached(cache, from, SubSeq(text, from + 1, to))) = Len(cache)
        /\ \A q \in 1 .. to : Cached(cache, from, SubSeq(text, from + 1, to))[q] = text[q]
        /\ Windows(cache, from, SubSeq(text, from + 1, to)) \in Seq([1 .. MaxGram -> Int])
        /\ Len(Windows(cache, from, SubSeq(text, from + 1, to))) = to - from
        /\ AreGrams(Windows(cache, from, SubSeq(text, from + 1, to)), text, from)
    BY <1>4, CallReadsGrams
  <2> QED BY <1>3, <2>1
<1>7. TextTypeOK'
  <2>1. words' \in Seq(Int) /\ held' \in Seq(Int) /\ read' \in Seq([1 .. MaxGram -> Int])
    BY <1>5, <1>6
  <2>2. Len(held') = Len(held) /\ Len(read') = to - from
    BY <1>2, <1>5, <1>6
  <2>3. start' \in Nat /\ start' + Len(read') <= filled' /\ filled' \in 0 .. Len(words')
    BY <1>1, <1>2, <1>5, <2>2
  <2> QED BY <2>1, <2>2, <2>3 DEF TextTypeOK
<1>8. HeldIsWords'
  BY <1>2, <1>5, <1>6 DEF HeldIsWords
<1>9. ReadIsWhole'
  BY <1>2, <1>5, <1>6 DEF ReadIsWhole
<1> QED BY <1>7, <1>8, <1>9

LEMMA PrefillsWhole ==
    ASSUME TextInv, NEW n \in 1 .. Len(words) - filled, Prefill(n) PROVE TextInv'
<1>1. /\ words' = words /\ filled' = filled + n
      /\ Hashes(filled, SubSeq(words', filled + 1, filled'))
  BY DEF Prefill
<1>2. words \in Seq(Int) /\ Len(words) <= Len(held) /\ filled \in 0 .. Len(words) /\ Len(words) \in Nat
  BY DEF TextInv, TextTypeOK
<1>3. filled' \in filled .. Len(words')
  BY <1>1, <1>2
<1> QED BY <1>1, <1>2, <1>3, CallIsWhole

LEMMA SpeaksWhole == TextInv /\ Speak => TextInv'
<1> SUFFICES ASSUME TextInv, Speak PROVE TextInv'
  OBVIOUS
<1>1. /\ filled = Len(words) /\ words' \in Seq(Int) /\ Len(words') <= Len(held)
      /\ \A q \in 1 .. filled : words'[q] = words[q]
      /\ filled' = Len(words') /\ Hashes(filled, SubSeq(words', filled + 1, filled'))
  BY DEF Speak
<1>2. filled' \in filled .. Len(words')
  <2>1. filled \in Nat /\ Len(words') \in Nat /\ filled <= Len(words')
    BY <1>1 DEF Speak, TextInv, TextTypeOK
  <2> QED BY <2>1, <1>1
<1> QED BY <1>1, <1>2, CallIsWhole

(* Whatever number of texts goes through forward, one after the other, in  *)
(* calls of any length that start where the last one ended, and whatever   *)
(* the cache held at first or was left with: every call hashes the n-grams *)
(* of the whole text it is a part of ("The cache carries all of this       *)
(* across the prefill/decode split", engram.py:133-135).                   *)
THEOREM TextsAreWhole == TextSpec => []TextInv
<1>1. TextInit => TextInv
  BY DEF TextInit, TextInv, TextTypeOK, HeldIsWords, ReadIsWhole, AreGrams
<1>2. TextInv /\ [TextNext]_heldText => TextInv'
  <2> SUFFICES ASSUME TextInv, [TextNext]_heldText PROVE TextInv'
    OBVIOUS
  <2>1. CASE Give
    BY <2>1, GivesWhole
  <2>2. ASSUME NEW n \in 1 .. Len(words) - filled, Prefill(n) PROVE TextInv'
    BY <2>2, PrefillsWhole
  <2>3. CASE Speak
    BY <2>3, SpeaksWhole
  <2>4. CASE UNCHANGED heldText
    BY <2>4 DEF heldText, TextInv, TextTypeOK, HeldIsWords, ReadIsWhole, AreGrams
  <2> QED BY <2>1, <2>2, <2>3, <2>4 DEF TextNext
<1> QED BY <1>1, <1>2, PTL DEF TextSpec

(***************************************************************************)
(* Buckets                                                                 *)
(***************************************************************************)

(* The recursive function of Starts exists: the least length without one   *)
(* would be one more than a length that has one.                           *)
LEMMA StartsIs ==
    ASSUME NEW sizes \in Seq(Nat)
    PROVE  Starts(sizes) = [c \in 1 .. Len(sizes) |->
                               IF c = 1 THEN 0 ELSE Starts(sizes)[c-1] + sizes[c-1]]
<1> DEFINE Is(f, m) == f = [c \in 1 .. m |-> IF c = 1 THEN 0 ELSE f[c-1] + sizes[c-1]]
           Bad == {m \in Nat : ~ \E f : Is(f, m)}
<1>1. Bad = {}
  <2>1. SUFFICES ASSUME Bad # {} PROVE FALSE
    OBVIOUS
  <2>2. PICK m \in Bad : \A k \in Bad : m <= k
    <3>1. Bad \in SUBSET Nat
      OBVIOUS
    <3> QED BY <2>1, <3>1, LeastNumber
  <2>3. m # 0
    <3>1. 1 .. 0 = {}
      OBVIOUS
    <3>2. Is([c \in 1 .. 0 |-> 0], 0)
      BY <3>1
    <3> QED BY <3>2, <2>2
  <2>4. m \in Nat /\ m - 1 \in Nat /\ ~(m <= m - 1)
    BY <2>2, <2>3
  <2>5. PICK g : Is(g, m - 1)
    BY <2>2, <2>4
  <2> DEFINE h == [c \in 1 .. m |-> IF c = 1 THEN 0 ELSE g[c-1] + sizes[c-1]]
  <2>6. ASSUME NEW c \in 1 .. m - 1 PROVE h[c] = g[c]
    <3>1. c \in 1 .. m
      BY <2>4
    <3> QED BY <3>1, <2>5
  <2>7. ASSUME NEW c \in 1 .. m, c # 1 PROVE h[c-1] = g[c-1]
    <3>1. c - 1 \in 1 .. m - 1
      BY <2>4, <2>7
    <3> QED BY <3>1, <2>6
  <2>8. Is(h, m)
    BY <2>7
  <2> QED BY <2>8, <2>2
<1>2. PICK n \in Nat : n = Len(sizes)
  OBVIOUS
<1>3. \E f : Is(f, n)
  BY <1>1
<1>4. Starts(sizes) = CHOOSE f : Is(f, n)
  BY <1>2 DEF Starts
<1> HIDE DEF Is
<1>5. Is(Starts(sizes), n)
  BY <1>3, <1>4
<1> QED BY <1>2, <1>5 DEF Is

(* Every bucket starts at a number, the first at 0 and the others where    *)
(* the one before ends.                                                    *)
LEMMA StartsType ==
    ASSUME NEW sizes \in Seq(Nat)
    PROVE  /\ \A c \in 1 .. Len(sizes) : Starts(sizes)[c] \in Nat /\ sizes[c] \in Nat
           /\ \A c \in 1 .. Len(sizes) : c # 1 =>
                 c - 1 \in 1 .. Len(sizes) /\ Starts(sizes)[c] = Starts(sizes)[c-1] + sizes[c-1]
<1>1. PICK n, begin : n \in Nat /\ n = Len(sizes) /\ begin = Starts(sizes)
  OBVIOUS
<1>2. \A c \in 1 .. n : begin[c] = IF c = 1 THEN 0 ELSE begin[c-1] + sizes[c-1]
  BY <1>1, StartsIs
<1>3. \A c \in 1 .. n : sizes[c] \in Nat
  BY <1>1
<1>4. \A c \in 1 .. n : c # 1 => c - 1 \in 1 .. n
  BY <1>1
<1> DEFINE Bad == {c \in Nat : c \in 1 .. n /\ begin[c] \notin Nat}
<1>5. Bad = {}
  <2>1. SUFFICES ASSUME Bad # {} PROVE FALSE
    OBVIOUS
  <2>2. PICK c \in Bad : \A d \in Bad : c <= d
    <3>1. Bad \in SUBSET Nat
      OBVIOUS
    <3> QED BY <2>1, <3>1, LeastNumber
  <2>3. c \in 1 .. n /\ c # 1 /\ c - 1 \in 1 .. n /\ ~(c <= c - 1)
    BY <2>2, <1>2, <1>4
  <2>4. begin[c-1] \in Nat
    BY <2>2, <2>3
  <2>5. begin[c] = begin[c-1] + sizes[c-1] /\ sizes[c-1] \in Nat
    BY <2>3, <1>2, <1>3
  <2> QED BY <2>2, <2>4, <2>5
<1>6. \A c \in 1 .. n : begin[c] \in Nat
  BY <1>5
<1> QED BY <1>1, <1>2, <1>3, <1>4, <1>6

(* A later bucket starts where an earlier one has ended.                   *)
LEMMA BucketsInOrder ==
    ASSUME NEW sizes \in Seq(Nat), NEW c \in 1 .. Len(sizes), NEW d \in 1 .. Len(sizes), c < d
    PROVE  Starts(sizes)[c] + sizes[c] <= Starts(sizes)[d]
<1>1. PICK n, begin : n \in Nat /\ n = Len(sizes) /\ begin = Starts(sizes)
  OBVIOUS
<1>2. /\ \A e \in 1 .. n : begin[e] \in Nat /\ sizes[e] \in Nat
      /\ \A e \in 1 .. n : e # 1 => e - 1 \in 1 .. n /\ begin[e] = begin[e-1] + sizes[e-1]
  BY <1>1, StartsType
<1>3. c \in 1 .. n /\ d \in 1 .. n
  BY <1>1
<1> DEFINE Bad == {e \in Nat : e \in 1 .. n /\ c < e /\ ~(begin[c] + sizes[c] <= begin[e])}
<1>4. Bad = {}
  <2>1. SUFFICES ASSUME Bad # {} PROVE FALSE
    OBVIOUS
  <2>2. PICK e \in Bad : \A f \in Bad : e <= f
    <3>1. Bad \in SUBSET Nat
      OBVIOUS
    <3> QED BY <2>1, <3>1, LeastNumber
  <2>3. e \in 1 .. n /\ c < e /\ e # 1 /\ e - 1 \in Nat /\ ~(e <= e - 1)
    BY <2>2, <1>3
  <2>4. e - 1 \in 1 .. n /\ begin[e] = begin[e-1] + sizes[e-1]
    BY <2>3, <1>2
  <2>5. begin[e] \in Nat /\ begin[e-1] \in Nat /\ sizes[e-1] \in Nat /\ begin[c] \in Nat /\ sizes[c] \in Nat
    BY <2>3, <2>4, <1>2, <1>3
  <2>6. CASE c = e - 1
    BY <2>2, <2>4, <2>5, <2>6
  <2>7. CASE c < e - 1
    <3>1. begin[c] + sizes[c] <= begin[e-1]
      BY <2>2, <2>3, <2>4, <2>7
    <3>2. begin[c] + sizes[c] <= begin[e]
      <4>1. PICK v \in Nat, x \in Nat, y \in Nat :
                v = begin[c] + sizes[c] /\ x = begin[e-1] /\ y = sizes[e-1]
        <5>1. \A a, b \in Nat : a + b \in Nat
          OBVIOUS
        <5> QED BY <2>5, <5>1
      <4>2. v <= x /\ begin[e] = x + y
        BY <3>1, <2>4, <4>1
      <4>3. v <= x + y
        BY <4>2
      <4> QED BY <4>1, <4>2, <4>3
    <3> QED BY <3>2, <2>2
  <2>8. c = e - 1 \/ c < e - 1
    BY <2>3, <1>3
  <2> QED BY <2>6, <2>7, <2>8
<1> QED BY <1>1, <1>3, <1>4

(* Whatever the hashes and however large the buckets of a table: every     *)
(* hash gets a row of its own bucket, no row is in two of them, and all    *)
(* are within the rows the sizes add up to (engram.py:149-150 and 182,     *)
(* 184).                                                                   *)
THEOREM BucketsAreApart ==
    ASSUME NEW sizes \in Seq(Nat \ {0}), NEW hashes \in [1 .. Len(sizes) -> Int],
           NEW c \in 1 .. Len(sizes)
    PROVE  /\ Spread(hashes, sizes)[c] \in Bucket(sizes, c)
           /\ \A d \in 1 .. Len(sizes) : d # c => Bucket(sizes, c) \cap Bucket(sizes, d) = {}
           /\ Bucket(sizes, c) \subseteq 0 .. Starts(sizes)[Len(sizes)] + sizes[Len(sizes)] - 1
<1>1. PICK n, begin : n \in Nat /\ n = Len(sizes) /\ begin = Starts(sizes)
  OBVIOUS
<1>2. sizes \in Seq(Nat) /\ \A d \in 1 .. n : sizes[d] \in Nat \ {0}
  BY <1>1
<1>3. \A d \in 1 .. n : begin[d] \in Nat
  BY <1>1, <1>2, StartsType
<1>4. \A d, e \in 1 .. n : d < e => begin[d] + sizes[d] <= begin[e]
  BY <1>1, <1>2, BucketsInOrder
<1>5. \A d \in 1 .. n : Bucket(sizes, d) = begin[d] .. begin[d] + sizes[d] - 1
  BY <1>1 DEF Bucket
<1>6. c \in 1 .. n /\ n \in 1 .. n /\ c <= n
  BY <1>1
<1>7. Spread(hashes, sizes)[c] \in Bucket(sizes, c)
  <2>1. Spread(hashes, sizes)[c] = (hashes[c] % sizes[c]) + begin[c]
    BY <1>1 DEF Spread
  <2>2. hashes[c] % sizes[c] \in 0 .. sizes[c] - 1
    <3>1. \A h \in Int, s \in Nat \ {0} : h % s \in 0 .. s - 1
      OBVIOUS
    <3>2. hashes[c] \in Int /\ sizes[c] \in Nat \ {0}
      BY <1>1, <1>2
    <3> QED BY <3>1, <3>2
  <2>3. begin[c] \in Nat /\ sizes[c] \in Nat /\ Bucket(sizes, c) = begin[c] .. begin[c] + sizes[c] - 1
    BY <1>2, <1>3, <1>5, <1>6
  <2>4. \A x, s, z \in Int : x \in 0 .. z - 1 => x + s \in s .. s + z - 1
    OBVIOUS
  <2>5. PICK s \in Int, z \in Int, x \in Int :
            s = begin[c] /\ z = sizes[c] /\ x = hashes[c] % sizes[c] /\ x \in 0 .. z - 1
    BY <2>2, <2>3
  <2>6. x + s \in s .. s + z - 1
    BY <2>4, <2>5
  <2> QED BY <2>1, <2>3, <2>5, <2>6
<1>8. ASSUME NEW d \in 1 .. n, d # c PROVE Bucket(sizes, c) \cap Bucket(sizes, d) = {}
  <2> SUFFICES ASSUME NEW i \in Bucket(sizes, c), i \in Bucket(sizes, d) PROVE FALSE
    OBVIOUS
  <2>1. \/ begin[c] + sizes[c] <= begin[d]
        \/ begin[d] + sizes[d] <= begin[c]
    BY <1>4, <1>6, <1>8
  <2>2. PICK v \in Nat, w \in Nat, x \in Nat, y \in Nat :
            v = begin[c] /\ w = sizes[c] /\ x = begin[d] /\ y = sizes[d]
    BY <1>2, <1>3, <1>6
  <2>3. i \in v .. v + w - 1 /\ i \in x .. x + y - 1
    BY <1>5, <1>6, <2>2
  <2>4. v + w <= x \/ x + y <= v
    BY <2>1, <2>2
  <2> QED BY <2>3, <2>4
<1>9. Bucket(sizes, c) \subseteq 0 .. begin[n] + sizes[n] - 1
  <2> SUFFICES ASSUME NEW i \in Bucket(sizes, c) PROVE i \in 0 .. begin[n] + sizes[n] - 1
    OBVIOUS
  <2>1. c = n \/ begin[c] + sizes[c] <= begin[n]
    BY <1>4, <1>6
  <2>2. PICK v \in Nat, w \in Nat, x \in Nat, y \in Nat :
            v = begin[c] /\ w = sizes[c] /\ x = begin[n] /\ y = sizes[n]
    BY <1>2, <1>3, <1>6
  <2>3. i \in v .. v + w - 1
    BY <1>5, <1>6, <2>2
  <2>4. (v = x /\ w = y) \/ v + w <= x
    BY <2>1, <2>2
  <2>5. i \in 0 .. x + y - 1
    BY <2>3, <2>4
  <2> QED BY <2>2, <2>5
<1> QED BY <1>1, <1>7, <1>8, <1>9

=============================================================================
