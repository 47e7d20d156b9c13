---------------------------- MODULE NgramWindows ----------------------------
(***************************************************************************)
(* What NgramHashState.forward (references/engram.py) hashes: the tokens   *)
(* before a position, read from a cache that carries them from call to     *)
(* call.  Tokens are ids of the compressed map.  And where the hashes go:  *)
(* into buckets of one table.                                              *)
(***************************************************************************)
EXTENDS Integers, Sequences

CONSTANTS
    MaxGram,  \* max_ngram_size
    PadId     \* compressed id of the pad token

ASSUME WindowAssumption == MaxGram \in Nat \ {0, 1} /\ PadId \in Nat

Dead == -1  \* what the cache holds for a token that takes no part

(* Bug: each lookback is checked alone, not those in front of it.          *)
LookbackUnblocked(cache, p, back) ==
    IF p < back \/ cache[p - back + 1] = Dead THEN PadId ELSE cache[p - back + 1]

(* The token `back` before position p (from 0), unless the sequence starts *)
(* or a dead token lies on the way (blocked accumulates over the shifts).  *)
Lookback(cache, p, back) ==
    IF p < back \/ \E s \in 0 .. back : cache[p - s + 1] = Dead THEN PadId ELSE cache[p - back + 1]

Window(cache, p) == [i \in 1 .. MaxGram |-> Lookback(cache, p, i - 1)]

(* A call of forward with ids from position start (from 0) on.             *)
Cached(cache, start, ids) ==
    SubSeq(cache, 1, start) \o ids \o SubSeq(cache, start + Len(ids) + 1, Len(cache))

(* The windows it hashes.                                                  *)
Windows(cache, start, ids) ==
    LET filled == Cached(cache, start, ids)
    IN  [i \in 1 .. Len(ids) |-> Window(filled, start + i - 1)]

(* The rows of one table are in buckets, one behind the other: where each  *)
(* starts, np.cumsum([0, *sizes[:-1]]).                                    *)
Starts(sizes) ==
    LET start[c \in 1 .. Len(sizes)] == IF c = 1 THEN 0 ELSE start[c-1] + sizes[c-1]
    IN  start

(* The row of every hash.                                                  *)
Spread(hashes, sizes) ==
    LET start == Starts(sizes)
    IN  [c \in 1 .. Len(sizes) |-> (hashes[c] % sizes[c]) + start[c]]

-----------------------------------------------------------------------------
(* What the window of position p of a text ought to be: the live tokens    *)
(* that end there, whole or padded, whoever computed them.                 *)
(* LiveRun is the number of live tokens in a row, as many as matter.       *)
LiveRun(text, p) ==
    CHOOSE n \in 0 .. p + 1 :
        /\ \A s \in 0 .. n - 1 : text[p - s + 1] # Dead
        /\ n \in {MaxGram, p + 1} \/ text[p - n + 1] = Dead

Gram(text, p) ==
    LET n == LiveRun(text, p)
    IN  [i \in 1 .. MaxGram |-> IF i <= n THEN text[p - i + 2] ELSE PadId]

(* The rows that are a bucket's own.                                       *)
Bucket(sizes, c) == Starts(sizes)[c] .. Starts(sizes)[c] + sizes[c] - 1

=============================================================================
