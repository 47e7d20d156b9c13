----------------------------- MODULE HashedText -----------------------------
(***************************************************************************)
(* What the users of NgramHashState (references/engram.py) have to keep to *)
(* and what it gives them for it: texts go through forward one after the   *)
(* other, each from its first token to its last in calls of any length,    *)
(* the answer behind its prompt; every call hashes the n-grams of the text *)
(* it is a part of.                                                        *)
(***************************************************************************)
EXTENDS NgramWindows

VARIABLES
    words,   \* the text so far: a prompt and what has been answered to it
    filled,  \* how much of it has been through forward
    held,    \* NgramHashState.cache, uninitialised at first and never cleared
    start,   \* start_pos of the last call
    read     \* the windows that call hashed

heldText == <<words, filled, held, start, read>>

TextInit ==
    /\ words = <<>> /\ filled = 0
    /\ held \in Seq(Int)
    /\ start = 0 /\ read = <<>>

(* forward(ids, s).                                                        *)
Hashes(s, ids) ==
    /\ held' = Cached(held, s, ids)
    /\ start' = s
    /\ read' = Windows(held, s, ids)

(* Another text, as long as the cache at most.                             *)
Give ==
    /\ words' \in Seq(Int) /\ Len(words') <= Len(held)
    /\ filled' = 0 /\ start' = 0 /\ read' = <<>>
    /\ UNCHANGED held

(* The next n tokens of the prompt.                                        *)
Prefill(n) ==
    /\ Hashes(filled, SubSeq(words, filled + 1, filled + n))
    /\ filled' = filled + n
    /\ UNCHANGED words

(* Tokens of the answer: only behind the whole prompt.                     *)
Speak ==
    /\ filled = Len(words)
    /\ words' \in Seq(Int) /\ Len(words) <= Len(words') /\ Len(words') <= Len(held)
    /\ \A q \in 1 .. Len(words) : words'[q] = words[q]
    /\ Hashes(filled, SubSeq(words', filled + 1, Len(words')))
    /\ filled' = Len(words')

TextNext ==
    \/ Give
    \/ \E n \in 1 .. Len(words) - filled : Prefill(n)
    \/ Speak

TextSpec == TextInit /\ [][TextNext]_heldText

-----------------------------------------------------------------------------
(* Properties.                                                             *)

TextTypeOK ==
    /\ words \in Seq(Int) /\ held \in Seq(Int) /\ Len(words) <= Len(held)
    /\ filled \in 0 .. Len(words)
    /\ start \in Nat /\ read \in Seq([1 .. MaxGram -> Int])
    /\ start + Len(read) <= filled

(* The cache starts with what has been through forward of this text; what  *)
(* an earlier and longer text left behind it is out of reach.              *)
HeldIsWords == \A q \in 1 .. filled : held[q] = words[q]

(* The windows of a call from position s on are the n-grams of a text.     *)
AreGrams(windows, text, s) == \A i \in 1 .. Len(windows) : windows[i] = Gram(text, s + i - 1)

(* Every window the last call read is the n-gram of the whole text that    *)
(* ends at its position.                                                   *)
ReadIsWhole == AreGrams(read, words, start)

TextInv == TextTypeOK /\ HeldIsWords /\ ReadIsWhole

=============================================================================
