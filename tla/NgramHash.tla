----------------------------- MODULE NgramHash -----------------------------
(***************************************************************************)
(* The n-gram hashing in front of the Engram tables (references/engram.py):*)
(* the layout of the buckets and the rows NgramHashState.forward looks up  *)
(* for the window of every token of one call.                              *)
(***************************************************************************)
EXTENDS NgramWindows, SequencesExt, Bitwise

CONSTANTS
    Layers,       \* number of layers with a table
    GramHeads,    \* n_heads
    Buckets,      \* engram_vocab_size: every bucket range is larger
    Multipliers   \* [layer][lookback], odd, from a seeded generator

ASSUME LayoutAssumption ==
    Layers \in Nat \ {0} /\ GramHeads \in Nat \ {0} /\ Buckets \in Nat \ {0}

IsPrime(n) == n > 1 /\ \A d \in 2 .. n - 1 : n % d # 0

(* find_next_prime; there is a prime between n and 2n, and seen is small.  *)
NextPrime(start, seen) ==
    CHOOSE p \in start + 1 .. 8 * (start + Layers * MaxGram * GramHeads) :
        /\ IsPrime(p) /\ p \notin seen
        /\ \A q \in start + 1 .. p - 1 : ~IsPrime(q) \/ q \in seen

(* Bucket number n: layer by layer, size by size, head by head.            *)
Columns == (MaxGram - 1) * GramHeads
Primes[n \in 0 .. Layers * Columns] ==
    IF n = 0 THEN <<>>
    ELSE LET before == Primes[n-1]
             start == IF (n - 1) % GramHeads = 0 THEN Buckets - 1 ELSE before[n-1]
         IN  Append(before, NextPrime(start, {before[i] : i \in 1 .. n - 1}))

AllPrimes == Primes[Layers * Columns]
(* flat[l]: the sizes of the buckets of layer l.                           *)
SizesOf(l) == SubSeq(AllPrimes, (l - 1) * Columns + 1, l * Columns)

(* The running hashes of the 1-gram, the 2-gram, ... of tokens.            *)
Rolling(l, tokens) ==
    FoldLeftDomain(LAMBDA acc, i : LET product == tokens[i] * Multipliers[l][i]
                                   IN  Append(acc, IF i = 1 THEN product ELSE Last(acc) ^^ product),
                   <<>>, tokens)

(* The rows of every table for the n-grams of tokens: one per size and     *)
(* head, each in its own range.                                            *)
Rows(tokens) ==
    [l \in 1 .. Layers |->
        LET r == Rolling(l, tokens)
        IN  Spread([c \in 1 .. Columns |-> r[((c - 1) \div GramHeads) + 2]], SizesOf(l))]

(* What forward gives for the windows of one call.                         *)
HashRows(windows) == [i \in DOMAIN windows |-> Rows(windows[i])]

(* What the rows of position p of a text ought to be.                      *)
GramRow(text, p) == Rows(Gram(text, p))

=============================================================================
