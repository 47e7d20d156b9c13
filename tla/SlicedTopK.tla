----------------------------- MODULE SlicedTopK -----------------------------
(***************************************************************************)
(* The indexer of a chunk: torch_indexer_budget.py ranks the keys a query  *)
(* sees one slice at a time, in a layer that publishes candidate blocks    *)
(* and in a later one that ranks only their keys.  One query row of the    *)
(* chunk is followed, by the number of keys it sees: the rows of a tensor  *)
(* do not touch each other, but they share the width of the longest.       *)
(***************************************************************************)
EXTENDS ChunkSizer

CONSTANTS
    Ratio,        \* tokens that share one compressed key
    TopKeys,      \* index_topk
    Heads,        \* index_n_heads
    ScoreBudget,  \* _TORCH_INDEXER_SCORE_BUDGET_BYTES
    KChunkMax,    \* _TORCH_INDEXER_K_CHUNK_MAX
    BlockSize,    \* candidate_block_size
    TopBlocks,    \* candidate_topk_blocks
    MaxScore      \* bound: scores are 0 .. MaxScore

ASSUME IndexerAssumption ==
    /\ Ratio \in Nat \ {0} /\ TopKeys \in Nat \ {0} /\ Heads \in Nat \ {0}
    /\ ScoreBudget \in Nat /\ KChunkMax \in Nat \ {0} /\ BlockSize \in Nat \ {0}
    /\ TopBlocks \in Nat \ {0} /\ MaxScore \in Nat

NegInf == -1

KChunkFor(queries) ==
    Least(Most(1, ScoreBudget \div Most(1, Heads * 2 * Most(1, queries))), KChunkMax)

(* S holds n of the elements of P, none of them worse than one left out:   *)
(* what topk(n, sorted=False) may return, ties broken in any way.          *)
IsTop(S, P, n, v) ==
    /\ S \subseteq P
    /\ Cardinality(S) = Least(n, Cardinality(P))
    /\ \A x \in S, y \in P \ S : v[x] >= v[y]

Blocks(keys) == 0 .. ((keys + BlockSize - 1) \div BlockSize) - 1

VARIABLES
    seen,    \* lens[row]: keys the followed row sees
    phase,   \* where the forward of the chunk is
    score,   \* scores of the row, one per key
    kstart,  \* where the next slice starts
    acc,     \* acc_idx: keys kept so far
    blocks,  \* block_scores
    mask     \* the published blocks of the row

indexer == <<seen, phase, score, kstart, acc, blocks, mask>>
prefill == <<hooks, chunk, indexer>>

Phases == {"idle", "chunk", "source", "between", "consumer", "done"}

(* lc: keys the last row of the chunk sees.                                *)
Keys == IF new = 0 THEN 0 ELSE (pos + new) \div Ratio

TypeOK ==
    /\ ChunksTypeOK
    /\ phase \in Phases /\ (phase = "idle" <=> new = 0)
    /\ seen \in 0 .. Keys
    /\ score \in [0 .. Keys - 1 -> 0 .. MaxScore]
    /\ kstart \in 0 .. Keys /\ acc \subseteq 0 .. Keys - 1
    /\ blocks \in [Blocks(Keys) -> NegInf .. MaxScore] /\ mask \subseteq Blocks(Keys)

NoScores(n) == [j \in 0 .. n - 1 |-> 0]
NoBlocks(n) == [b \in Blocks(n) |-> NegInf]

RowInit ==
    /\ seen = 0 /\ phase = "idle" /\ score = NoScores(0) /\ kstart = 0
    /\ acc = {} /\ blocks = NoBlocks(0) /\ mask = {}

-----------------------------------------------------------------------------
SubmitPrompt == (\E n \in 1 .. MaxLen : Submit(n)) /\ UNCHANGED indexer

StartChunk ==
    /\ NextChunk
    /\ phase' = "chunk"
    /\ \E i \in 1 .. new' : seen' = (pos + i) \div Ratio
    /\ score' = NoScores(Keys') /\ blocks' = NoBlocks(Keys')
    /\ UNCHANGED <<kstart, acc, mask>>

(* lc = 0: an empty mask is published and nothing is ranked.               *)
NoKeys ==
    /\ phase = "chunk" /\ Keys = 0
    /\ phase' = "done"
    /\ UNCHANGED <<hooks, chunk, seen, score, kstart, acc, blocks, mask>>

(* The layer's scores; it starts with nothing kept.                        *)
Rank ==
    /\ phase \in {"chunk", "between"} /\ Keys > 0
    /\ phase' = IF phase = "chunk" THEN "source" ELSE "consumer"
    /\ score' \in [0 .. Keys - 1 -> 0 .. MaxScore]
    /\ kstart' = 0 /\ acc' = {}
    /\ UNCHANGED <<hooks, chunk, seen, blocks, mask>>

(* Keys the row does not see, and in a consumer keys of blocks that were   *)
(* not published, rank below all others.                                   *)
Masked(j) ==
    IF j >= seen \/ (phase = "consumer" /\ j \div BlockSize \notin mask)
    THEN NegInf ELSE score[j]

Value == [j \in 0 .. Keys - 1 |-> Masked(j)]

(* A publishing layer slices at block boundaries.                          *)
KChunk ==
    LET k == KChunkFor(new)
    IN  IF phase = "source" THEN Most(BlockSize, k - (k % BlockSize)) ELSE k

Stop == Least(kstart + KChunk, Keys)

(* Maxima of the slice, padded to whole blocks, merged into its blocks.    *)
MergeBlocks ==
    [b \in Blocks(Keys) |->
        LET mine == {j \in kstart .. Stop - 1 :
                        (kstart \div BlockSize) + ((j - kstart + (kstart % BlockSize)) \div BlockSize) = b}
            values == {Masked(j) : j \in mine} \cup {blocks[b]}
        IN  CHOOSE v \in values : \A w \in values : v >= w]

(* Bug: what is kept of earlier slices stays, whatever the new slice has.  *)
MergeFirst(kept) ==
    {S \in SUBSET (acc \cup kept) :
        /\ Cardinality(S) = Least(Least(TopKeys, Keys), Cardinality(acc \cup kept))
        /\ acc \subseteq S}

(* _merge_topk                                                             *)
MergeTop(kept) ==
    {S \in SUBSET (acc \cup kept) : IsTop(S, acc \cup kept, Least(TopKeys, Keys), Value)}

Slice ==
    /\ phase \in {"source", "consumer"} /\ kstart < Keys
    /\ \E kept \in SUBSET (kstart .. Stop - 1) :
          /\ IsTop(kept, kstart .. Stop - 1, Least(TopKeys, Keys), Value)
          /\ acc' \in MergeTop(kept)
    /\ blocks' = IF phase = "source" THEN MergeBlocks ELSE blocks
    /\ kstart' = Stop
    /\ UNCHANGED <<hooks, chunk, seen, phase, score, mask>>

(* Bug: the last block is the one the longest row of the chunk ends in.    *)
CandidateMaskOfLongest ==
    LET last == (Keys - 1) \div BlockSize
        v == [b \in Blocks(Keys) |-> IF b = last THEN MaxScore + 1 ELSE blocks[b]]
    IN  {{b \in S : v[b] > NegInf} :
            S \in {T \in SUBSET Blocks(Keys) : IsTop(T, Blocks(Keys), TopBlocks, v)}}

(* The block the row ends in is forced in; blocks it does not see are out. *)
CandidateMask ==
    LET last == IF seen = 0 THEN -1 ELSE (seen - 1) \div BlockSize
        v == [b \in Blocks(Keys) |-> IF b = last THEN MaxScore + 1 ELSE blocks[b]]
    IN  {{b \in S : v[b] > NegInf} :
            S \in {T \in SUBSET Blocks(Keys) : IsTop(T, Blocks(Keys), TopBlocks, v)}}

(* What reaches the attention: the kept keys the row sees.                 *)
Picked == {j \in acc : j < seen}

Publish ==
    /\ phase = "source" /\ kstart = Keys
    /\ mask' \in CandidateMask
    /\ phase' = "between"
    /\ UNCHANGED <<hooks, chunk, seen, score, kstart, acc, blocks>>

Attend ==
    /\ phase = "consumer" /\ kstart = Keys
    /\ phase' = "done"
    /\ UNCHANGED <<hooks, chunk, seen, score, kstart, acc, blocks, mask>>

FinishChunk ==
    /\ phase = "done" /\ EndChunk
    /\ seen' = 0 /\ phase' = "idle" /\ kstart' = 0 /\ acc' = {} /\ mask' = {}
    /\ score' = NoScores(0) /\ blocks' = NoBlocks(0)

-----------------------------------------------------------------------------
(* Properties.                                                             *)

(* What is kept after a slice is a top-k of all the slices so far.         *)
KeptIsTop ==
    phase \in {"source", "consumer"} =>
        IsTop(acc, 0 .. kstart - 1, Least(TopKeys, Keys), Value)

(* The keys a row may attend to: those it sees, of the published blocks.   *)
Eligible == {j \in 0 .. seen - 1 : phase = "consumer" => j \div BlockSize \in mask}

PickedIsTop ==
    (phase \in {"source", "consumer"} /\ kstart = Keys) =>
        IsTop(Picked \cap Eligible, Eligible, TopKeys, score)

(* "Union-of-per-slice-topk is exact for global topk" (line 6): whatever   *)
(* the slice width and however ties are broken, and what then reaches the  *)
(* attention are the best of the keys the row itself is entitled to.  Of   *)
(* what fills a selection up where those are fewer than TopKeys, nothing   *)
(* is said: PickedIsTop looks at the eligible keys.                        *)
TopKIsExact == KeptIsTop /\ PickedIsTop

(* The keys a row sees of one block.                                       *)
InBlock(b) == {j \in 0 .. seen - 1 : j \div BlockSize = b}

(* What a source publishes for a row are the best blocks of those it sees, *)
(* by the best key of each, the block it ends in always among them, though *)
(* the maxima were taken slice by slice and for the longest row.           *)
CandidatesAreBest ==
    phase = "between" =>
        LET visible == {j \div BlockSize : j \in 0 .. seen - 1}
            last == (seen - 1) \div BlockSize
        IN  /\ mask \subseteq visible
            /\ Cardinality(mask) = Least(TopBlocks, Cardinality(visible))
            /\ seen > 0 => last \in mask
            /\ \A b \in mask \ {last}, c \in visible \ mask :
                  \A j \in InBlock(c) : \E i \in InBlock(b) : score[i] >= score[j]

=============================================================================
