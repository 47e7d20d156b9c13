----------------------------- MODULE ChunkSizer -----------------------------
(***************************************************************************)
(* The prefill of a prompt in chunks, each as large as                     *)
(* adapter/sglang_patch/prefill_chunk_sizer.py allows: the work of a chunk *)
(* grows with its tokens times those in front of it.                       *)
(***************************************************************************)
EXTENDS Integers, FiniteSets

CONSTANTS
    Page,     \* tokens of a page, 256 in the program
    Budgets,  \* values of DSV41_CHUNK_BUDGET_TOKENS2
    Sizes,    \* values of DSV41_CHUNK_MIN and DSV41_CHUNK_MAX
    MaxLen    \* bound: tokens of a prompt

ASSUME PageAssumption == Page \in Nat \ {0}
ASSUME SettingsAssumption == Budgets \subseteq Int /\ Sizes \subseteq Int
ASSUME LengthAssumption == MaxLen \in Nat \ {0}

Least(a, b) == IF a <= b THEN a ELSE b
Most(a, b) == IF a >= b THEN a ELSE b

(* BudgetChunkSizer.__init__; a float that is no number is no Int here.    *)
ValidSizer(budget, cmin, cmax) ==
    /\ budget > 0 /\ cmin > 0 /\ cmax > 0
    /\ cmin % Page = 0 /\ cmax % Page = 0
    /\ cmin <= cmax

Sizer == [budget : Int, cmin : Int, cmax : Int]
NoSizer == [budget |-> 0, cmin |-> 0, cmax |-> 0]

(* math.isqrt                                                              *)
ISqrt(n) == CHOOSE r \in 0 .. n : r*r <= n /\ n < (r+1)*(r+1)

(* The most queries whose work with the history stays in the budget.       *)
Fitting(budget, history) == (ISqrt(history*history + 4*budget) - history) \div 2

(* Bug: the work of a chunk is taken for its square, without the history.  *)
PredictSquare(s, history) ==
    LET t == Least(s.cmax, ISqrt(s.budget))
    IN  Most(s.cmin, Least(s.cmax, (t \div Page) * Page))

Predict(s, history) ==
    LET t == Least(s.cmax, Fitting(s.budget, history))
    IN  Most(s.cmin, Least(s.cmax, (t \div Page) * Page))

VARIABLES
    sizer,   \* dynamic_chunk_sizer, NoSizer when the hook is off
    static,  \* chunked_prefill_size
    len,     \* tokens of the prompt
    pos,     \* tokens of it behind the current chunk (the history)
    new      \* tokens of the current chunk, 0 between two chunks

hooks == <<sizer, static>>
chunk == <<len, pos, new>>

SizerOK ==
    \/ sizer = NoSizer
    \/ sizer \in Sizer /\ ValidSizer(sizer.budget, sizer.cmin, sizer.cmax) /\ sizer.cmax <= static

ChunksTypeOK ==
    /\ static \in Nat \ {0} /\ SizerOK
    /\ len \in 0 .. MaxLen /\ pos \in 0 .. len /\ new \in 0 .. len - pos

(* patched(): the static size bounds what the environment asks for.        *)
Capped(budget, cmin, cmax, size) ==
    [budget |-> budget, cmin |-> cmin, cmax |-> Least(cmax, size)]

ChunkInit == len = 0 /\ pos = 0 /\ new = 0

Submit(n) ==
    /\ new = 0 /\ pos = len
    /\ len' = n /\ pos' = 0
    /\ UNCHANGED <<hooks, new>>

(* The scheduler: the first chunk is static, a chunked request asks the    *)
(* sizer with what it has behind it.                                       *)
Limit == IF pos = 0 \/ sizer = NoSizer THEN static ELSE Predict(sizer, pos)

NextChunk ==
    /\ new = 0 /\ pos < len
    /\ new' = Least(Limit, len - pos)
    /\ UNCHANGED <<hooks, len, pos>>

EndChunk ==
    /\ new > 0
    /\ pos' = pos + new /\ new' = 0
    /\ UNCHANGED <<hooks, len>>

-----------------------------------------------------------------------------
(* Properties.                                                             *)

(* "Continuation chunks never exceed the static first chunk" and           *)
(* T * (history + T) stays in the budget (docs/PREFILL-MEMORY.md:24, line  *)
(* 3 of the sizer) except for the floor; and a chunk is not smaller than   *)
(* it must be: one page more would not fit.                                *)
ChunksFitBudget ==
    (new > 0 /\ pos > 0 /\ sizer # NoSizer) =>
        /\ new <= static /\ new <= sizer.cmax
        /\ new * (pos + new) <= sizer.budget \/ new <= sizer.cmin
        /\ pos + new < len =>
              /\ new % Page = 0 /\ new >= sizer.cmin
              /\ new < sizer.cmax => (new + Page) * (pos + new + Page) > sizer.budget

=============================================================================
