--------------------------- MODULE ServingSession ---------------------------
(***************************************************************************)
(* A conversation from one end to the other: the client's messages become  *)
(* a prompt, the prompt is prefilled in the chunks the sizer allows while  *)
(* the n-grams of every chunk are hashed, the model answers, and what can  *)
(* be parsed of its answer is the next message.  The model may stop        *)
(* anywhere in its answer (a limit of tokens) or put a special token where *)
(* none belongs.                                                           *)
(***************************************************************************)
EXTENDS ChunkSizer, ChatEncoding, NgramHash

CONSTANTS
    MaxMessages,   \* bound: messages of a conversation
    SloppyAnswers  \* bound: answers that may be cut or have a stray token, where
                   \* tools are offered; to one that parses, the client has a question

VARIABLES
    msgs,      \* the conversation
    thinking,  \* thinking_mode = "thinking"
    stage,     \* "compose", "prefill" or "refused" (the answer did not parse)
    prompt,    \* what was encoded last
    meant,     \* the answer the model had in mind
    said,      \* what came out of it
    nextId,    \* id of the next call
    cache,     \* NgramHashState.cache, never cleared
    from,      \* start_pos of the last call of forward
    windows    \* and what it hashed

session == <<msgs, thinking, stage, prompt, meant, said, nextId, cache, from, windows>>
vars == <<hooks, chunk, session>>

-----------------------------------------------------------------------------
(* The model                                                               *)

NoReply == [reasoning |-> <<>>, content |-> <<>>, calls |-> <<>>]

Arg(k, s, v) == [key |-> <<<<k>>>>, string |-> s, value |-> <<<<v>>>>]
Call(name, args) == [name |-> name, arguments |-> args]

ArgLists == {<<Arg("a", "true", "v"), Arg("b", "false", "1")>>, <<Arg("a", "false", "[1,2]")>>,
             <<Arg("a", "false", "'s'")>>, <<Arg("a", "false", "oops")>>,
             <<Arg("a", "true", "v"), Arg("a", "true", "v")>>}

CallLists == {<<>>, <<Call(<<<<"ns">>, Sep, <<"f">>>>, <<Arg("a", "true", "v")>>), Call(<<<<"g">>>>, <<>>)>>,
              <<Call(<<<<"ns">>, Sep, <<"f">>, Sep, <<"x">>>>, <<>>)>>}
             \cup {<<Call(<<<<"g">>>>, args)>> : args \in ArgLists}

(* An answer to a task has no reasoning.                                   *)
Reasons == thinking /\ msgs # <<>> /\ Last(msgs).task = NoTask

Replies == {[reasoning |-> IF Reasons THEN <<<<"why">>>> ELSE <<>>, content |-> <<<<"say">>>>,
             calls |-> calls] : calls \in CallLists}

WrittenCall(c) ==
    <<InvokeStart, Named>> \o c.name \o <<NameEnd>> \o Flatten(Parameter, c.arguments)
    \o <<InvokeEnd, Gt>>

(* The answer in the form the prompt's instructions ask for.               *)
Completion(r) ==
    (IF r.reasoning = <<>> THEN <<>> ELSE r.reasoning \o <<ThinkEnd>>) \o r.content
    \o (IF r.calls = <<>> THEN <<>>
        ELSE <<CallsStart, Gt>> \o Flatten(WrittenCall, r.calls) \o <<CallsEnd>>)
    \o <<Eos>>

(* The same, cut, or with a stray token: anywhere, the names of tools and  *)
(* parameters and the values of parameters included.                       *)
Sloppy(text) ==
    {SubSeq(text, 1, n) : n \in 0 .. Len(text) - 1}
    \cup {InsertAt(text, n, a) : n \in 1 .. Len(text) + 1, a \in Specials}

(* The tokenizer and its compressed ids: text is all alike, an image has   *)
(* no id.                                                                  *)
Ids == "<bos>" :> 2 @@ "<User>" :> 3 @@ "<Assistant>" :> 4 @@ "<think>" :> 5 @@ "</think>" :> 6
       @@ "<eos>" :> 7
Token(atom) == IF IsImage(atom) THEN Dead ELSE IF atom[1] \in DOMAIN Ids THEN Ids[atom[1]] ELSE 1
Tokens(text) == [i \in DOMAIN text |-> Token(text[i])]

-----------------------------------------------------------------------------
(* The client                                                              *)

UserMsg(atoms) == [NoMessage EXCEPT !.blocks = [i \in DOMAIN atoms |-> Part(atoms[i])]]
TaskMsg(task) == [UserMsg(<<<<"q">>>>) EXCEPT !.task = task]
ToolMsg(id, atom) == [UserMsg(<<atom>>) EXCEPT !.role = "tool", !.id = id]
SystemMsg(tools) == [UserMsg(<<<<"s">>>>) EXCEPT !.role = "system", !.tools = tools]
ReminderMsg == [UserMsg(<<<<"d">>>>) EXCEPT !.role = "latest_reminder"]

Offered == <<[namespace |-> <<<<"ns">>>>, name |-> <<<<"f">>>>], [namespace |-> <<>>, name |-> <<<<"g">>>>]>>

Questions == {UserMsg(<<<<"q">>>>), UserMsg(<<<<"q">>, <<"image", NoId>>>>)}
Tasks == {TaskMsg("query"), TaskMsg("action")}

(* The calls of the last answer; 0 is the id of no call.                   *)
Open == IF msgs = <<>> THEN {} ELSE {c.id : c \in ToSet(Last(msgs).calls)}
Results == {ToolMsg(id, <<kind, id>>) : id \in Open \cup {NoId}, kind \in {"r", "image"}}

(* A turn of the client: a question, a task or results, in any order of    *)
(* arrival and with other messages among them.                             *)
Opening == {opening \o <<m>> : opening \in {<<>>, <<SystemMsg(<<>>)>>, <<SystemMsg(Offered)>>},
                               m \in Questions \cup Tasks}

Turn ==
    LET some == Results \cup {UserMsg(<<<<"q">>>>), SystemMsg(<<>>)}
    IN  IF said # Completion(meant) THEN {<<UserMsg(<<<<"q">>>>)>>} ELSE
        {<<m>> : m \in some \cup Tasks}
        \cup {<<m, ReminderMsg>> : m \in some}
        \cup {<<p[1], p[2]>> : p \in {q \in some \X some : q[1].id = NoId \/ q[1].id # q[2].id}}

Answers == Cardinality({i \in DOMAIN msgs : msgs[i].role = "assistant"})

-----------------------------------------------------------------------------
Init ==
    /\ ChunkInit
    /\ static = 2 * Page
    /\ sizer \in {Capped(b, c, c, static) : b \in Budgets, c \in Sizes}
    /\ msgs = <<>> /\ thinking \in BOOLEAN /\ stage = "compose"
    /\ prompt = <<>> /\ meant = NoReply /\ said = <<>> /\ nextId = 1
    /\ cache = [p \in 1 .. MaxLen |-> 0] /\ from = 0 /\ windows = <<>>

(* Bug: the first token of a call overwrites the last one of the call      *)
(* before.                                                                 *)
HashEarly(start, text) ==
    LET p == IF start = 0 THEN 0 ELSE start - 1
    IN  /\ cache' = Cached(cache, p, Tokens(text))
        /\ from' = p
        /\ windows' = Windows(cache, p, Tokens(text))

(* One call of forward.                                                    *)
Hash(start, text) ==
    /\ cache' = Cached(cache, start, Tokens(text))
    /\ from' = start
    /\ windows' = Windows(cache, start, Tokens(text))

Ask ==
    /\ stage = "compose"
    /\ \E add \in IF msgs = <<>> THEN Opening ELSE Turn :
          /\ Len(msgs \o add) <= MaxMessages
          /\ msgs' = msgs \o add
          /\ prompt' = Encode(<<>>, msgs \o add, thinking)
    /\ Submit(Len(prompt'))
    /\ stage' = "prefill" /\ meant' = NoReply /\ said' = <<>> /\ from' = 0 /\ windows' = <<>>
    /\ UNCHANGED <<thinking, nextId, cache>>

PrefillChunk ==
    /\ stage = "prefill" /\ NextChunk
    /\ Hash(pos, SubSeq(prompt, pos + 1, pos + new'))
    /\ UNCHANGED <<msgs, thinking, stage, prompt, meant, said, nextId>>

ChunkDone == EndChunk /\ UNCHANGED session

(* The tokens of the answer go through forward one by one, each behind the *)
(* last; those of one answer are one step here.  The ids of calls are      *)
(* given out by the server.                                                *)
Answer ==
    /\ stage = "prefill" /\ pos = len /\ new = 0
    /\ \E r \in Replies :
       \E text \in {Completion(r)} \cup (IF Answers < SloppyAnswers /\ OffersTools(msgs) THEN Sloppy(Completion(r)) ELSE {}) :
          LET p == Parse(text, Reasons)
              calls == [i \in DOMAIN p.calls |-> [id |-> nextId + i - 1] @@ p.calls[i]]
          IN  /\ meant' = r /\ said' = text
              /\ Hash(len, text)
              /\ IF p.ok
                 THEN /\ msgs' = Append(msgs, [NoMessage EXCEPT !.role = "assistant",
                                     !.blocks = [i \in DOMAIN p.content |-> Part(p.content[i])],
                                     !.reasoning = p.reasoning, !.calls = calls])
                      /\ stage' = "compose" /\ nextId' = nextId + Len(calls)
                 ELSE UNCHANGED <<msgs, nextId>> /\ stage' = "refused"
    /\ UNCHANGED <<hooks, chunk, thinking, prompt>>

Next == Ask \/ PrefillChunk \/ ChunkDone \/ Answer

Spec == Init /\ [][Next]_vars

-----------------------------------------------------------------------------
(* Properties.                                                             *)

SessionTypeOK ==
    /\ ChunksTypeOK /\ thinking \in BOOLEAN
    /\ stage \in {"compose", "prefill", "refused"}
    /\ len = Len(prompt) /\ nextId \in Nat \ {NoId}
    /\ \A m \in ToSet(msgs) :
          /\ m.role \in {"system", "user", "tool", "latest_reminder", "assistant"}
          /\ m.task \in {NoTask, "query", "action"}
          /\ \A c \in ToSet(m.calls) : c.id \in 1 .. nextId - 1
    /\ Len(cache) = MaxLen /\ from \in 0 .. MaxLen /\ Len(windows) <= MaxLen - from

(* However a text is split into calls, over chunks of the prompt and the   *)
(* tokens of the answer, and whatever an earlier and longer text left in   *)
(* the cache, every position gets the rows of the n-grams that end there   *)
(* and no n-gram spans an image ("The cache carries all of this across the *)
(* prefill/decode split", engram.py:133-135); the rows of two buckets are  *)
(* never the same.                                                         *)
GramsAreWhole ==
    LET text == Tokens(prompt) \o Tokens(said)
        hashed == HashRows(windows)
    IN  \A i \in DOMAIN hashed :
          /\ hashed[i] = GramRow(text, from + i - 1)
          /\ \A l \in 1 .. Layers, c \in 1 .. Columns :
                /\ hashed[i][l][c] \in Bucket(SizesOf(l), c)
                /\ \A d \in 1 .. Columns \ {c} : hashed[i][l][c] \notin Bucket(SizesOf(l), d)

SessionInv == SessionTypeOK /\ GramsAreWhole

(* Chunks and answers keep to what the cache of n-grams needs: every call  *)
(* of forward starts where the last one of the same text ended and carries *)
(* the ids that stand there, a new text starts at its first token, and an  *)
(* answer comes only behind the whole of its prompt.                       *)
Texts == INSTANCE HashedText WITH
    words <- Tokens(prompt \o said), filled <- pos + new + Len(said),
    held <- cache, start <- from, read <- windows

TextsAreHashed == Texts!TextSpec

(* The answer came to its end, and JSON gives its arguments back as they   *)
(* were written.                                                           *)
Faithful ==
    /\ Last(msgs).role = "assistant" /\ Last(said) = Eos
    /\ \A c \in ToSet(Last(msgs).calls) : Reloaded(c.arguments) = c.arguments

(* While no thinking is dropped, the next prompt starts with this one and  *)
(* the answer to it, token by token: what was cached for both still        *)
(* stands, whatever the client adds.  White space that only separates is   *)
(* taken to be what the renderer writes; the parser also takes a call      *)
(* without parameters that leaves out the empty line between its tags.     *)
PromptExtends ==
    [][(stage = "compose" /\ stage' = "prefill" /\ said # <<>> /\ Faithful
        /\ (OffersTools(msgs) \/ ~thinking))
          => IsPrefix(prompt \o said, prompt')]_vars

(* Encoding only the messages behind an answer, with the others as the     *)
(* context, gives the end of the whole prompt; and, while no thinking is   *)
(* dropped, all of it but the prompt of the context.                       *)
ContextSuffix ==
    stage = "prefill" =>
        \A k \in {i \in 1 .. Len(msgs) - 1 : msgs[i].role = "assistant"} :
            LET context == SubSeq(msgs, 1, k)
                rest == Encode(context, SubSeq(msgs, k + 1, Len(msgs)), thinking)
            IN  IF thinking /\ ~OffersTools(msgs) THEN IsSuffix(rest, prompt)
                ELSE prompt = Encode(<<>>, context, thinking) \o rest

(* Every result the client sent is in the prompt once; those of one turn   *)
(* that answer calls come in the order of the calls, whatever the order of *)
(* arrival and whatever stands between them.  If they arrived in it, the   *)
(* images of the prompt are in the order of its records.                   *)
ResultsInCallOrder ==
    stage = "prefill" =>
        LET isResult(a) == a[1] = "<tool_result>"
            results == SelectSeq(prompt, isResult)
            sent == SelectSeq(msgs, LAMBDA m : m.role = "tool")
            known == SelectSeq(results, LAMBDA a : a[2] # NoId)
            arrived == \A i, j \in DOMAIN sent : i < j => sent[i].id <= sent[j].id
        IN  /\ Len(results) = Len(sent)
            /\ \A id \in 0 .. nextId : Cardinality({i \in DOMAIN results : results[i][2] = id})
                                        = Cardinality({i \in DOMAIN sent : sent[i].id = id})
            /\ \A i, j \in DOMAIN known : i < j => known[i][2] <= known[j][2]
            /\ arrived => SelectSeq(prompt, IsImage) = ImagesOf(msgs)

(* In the prompt every answer's thinking is closed once, where its header  *)
(* opened it or left it out, and only the answer to come is left open.     *)
(* What the arguments of calls contain is not looked at.                   *)
ThinkingIsClosed ==
    stage = "prefill" =>
        \A p \in {i \in DOMAIN prompt : prompt[i] = Assistant} :
            LET ends == {q \in p .. Len(prompt) : prompt[q] \in {Eos, CallsStart}}
                closed == {q \in p .. (IF ends = {} THEN Len(prompt) ELSE Min(ends)) : prompt[q] = ThinkEnd}
            IN  IF ends = {} \/ <<"action">> \in ToSet(SubSeq(prompt, p, p + 2))
                THEN (closed = {}) <=> thinking
                ELSE Cardinality(closed) = 1

(* The answer the client gets, as the model would write it.                *)
Accepted ==
    LET m == Last(msgs)
    IN  [reasoning |-> m.reasoning, content |-> PartsOf(m),
         calls |-> [i \in DOMAIN m.calls |-> Call(QualifiedName(m.calls[i]), m.calls[i].arguments)]]

Plain(text) == SelectSeq(text, LAMBDA a : a \notin Specials)

PlainArguments(args) ==
    [i \in DOMAIN args |-> [args[i] EXCEPT !.key = Plain(@), !.value = Plain(@)]]

(* What is accepted is what the model meant.  Reasoning and content are    *)
(* whole and without special tokens, no call or argument was not written,  *)
(* and none is missing unless the answer lacks its end.  The parser takes  *)
(* a stray token in the name of a tool, in a key or in a value for a part  *)
(* of it; anywhere else it refuses the answer, so that one which came to   *)
(* its end says every token that came.                                     *)
AcceptedIsMeant ==
    (stage = "compose" /\ said # <<>>) =>
        LET calls == Accepted.calls
            ended == Last(said) = Eos
        IN  /\ Accepted.reasoning = meant.reasoning /\ Accepted.content = meant.content
            /\ Len(calls) <= Len(meant.calls)
            /\ \A i \in DOMAIN calls :
                  LET args == PlainArguments(calls[i].arguments)
                  IN  /\ Plain(calls[i].name) = meant.calls[i].name
                      /\ IsPrefix(args, meant.calls[i].arguments)
                      /\ i < Len(calls) \/ ended => args = meant.calls[i].arguments
            /\ ended => Len(calls) = Len(meant.calls) /\ said = Completion(Accepted)

=============================================================================
