---------------------------- MODULE ChatEncoding ----------------------------
(***************************************************************************)
(* references/encoding.py: messages to prompt, completion to message.      *)
(*                                                                         *)
(* A text is a sequence of atoms, the pieces the code searches for or      *)
(* copies whole; an atom is a tuple of strings.  White space that only     *)
(* separates is left out.  A message is                                    *)
(*   [role, blocks, calls, reasoning, tools, task, id]                     *)
(* with its content always as blocks: a block is a text or an image, or    *)
(* the result of a tool, which holds parts of both.  An image atom keeps   *)
(* its name, which the prompt's placeholder does not show.                 *)
(***************************************************************************)
EXTENDS Naturals, SequencesExt

Bos == <<"<bos>">>
Eos == <<"<eos>">>
Think == <<"<think>">>
ThinkEnd == <<"</think>">>
User == <<"<User>">>
Assistant == <<"<Assistant>">>
System == <<"<System>">>
Reminder == <<"<latest_reminder>">>
Effort == <<"effort">>
Tools == <<"tools">>
CallsStart == <<"<calls">>
CallsEnd == <<"</calls>">>
InvokeStart == <<"<invoke">>
InvokeEnd == <<"</invoke">>
ParamStart == <<"<param">>
ParamEnd == <<"/param">>
Gt == <<">">>
Named == <<"name=">>    \* opens the name of a tool or of a parameter
NameEnd == <<"'>">>
ValueEnd == <<"<">>     \* what is left of a closing tag in front of ParamEnd
Sep == <<"::">>
ResultEnd == <<"</tool_result>">>

Specials == {Bos, Eos, Think, ThinkEnd, CallsStart, CallsEnd, InvokeStart, InvokeEnd,
             ParamStart, ParamEnd}

NoTask == "none"
NoId == 0

Flatten(f(_), s) == FlattenSeq([i \in DOMAIN s |-> f(s[i])])

-----------------------------------------------------------------------------
(* Names and arguments                                                     *)

(* _read_until_stop: the text up to the first of the stops, or all of it.  *)
ReadUntil(text, i, stops) ==
    LET at == {p \in i .. Len(text) : text[p] \in stops}
    IN  IF at = {} THEN [next |-> Len(text) + 1, content |-> SubSeq(text, i, Len(text)), stop |-> <<>>]
        ELSE [next |-> Min(at) + 1, content |-> SubSeq(text, i, Min(at) - 1), stop |-> text[Min(at)]]

(* A name is a text: nothing keeps special tokens out of it.               *)
SplitOK(name, namespace) ==
    LET prefix == ReadUntil(name, 1, {Sep})
    IN  /\ Len(SelectSeq(name, LAMBDA a : a = Sep)) <= 1
        /\ prefix.stop = Sep => namespace \in {<<>>, prefix.content}

SplitName(name, namespace) ==
    LET prefix == ReadUntil(name, 1, {Sep})
    IN  IF prefix.stop = Sep
        THEN [namespace |-> prefix.content, name |-> SubSeq(name, prefix.next, Len(name))]
        ELSE [namespace |-> namespace, name |-> name]

QualifiedName(tool) ==
    (IF tool.namespace = <<>> THEN <<>> ELSE Append(tool.namespace, Sep)) \o tool.name

(* What JSON makes of the value of a parameter that is no string: json     *)
(* text comes back normalised, a JSON string as a string.                  *)
JsonOf == <<<<"1">>>> :> [string |-> "false", value |-> <<<<"1">>>>]
          @@ <<<<"[1,2]">>>> :> [string |-> "false", value |-> <<<<"[1, 2]">>>>]
          @@ <<<<"'s'">>>> :> [string |-> "true", value |-> <<<<"s">>>>]

IsJson(arg) == arg.string = "true" \/ arg.value \in DOMAIN JsonOf

(* decode_dsml_to_arguments keeps the values as they were written; it is   *)
(* json.loads on the way back that finds text which is no JSON, and makes  *)
(* one string of all the arguments.                                        *)
Reloaded(args) ==
    IF \A i \in DOMAIN args : IsJson(args[i])
    THEN [i \in DOMAIN args |->
            IF args[i].string = "true" THEN args[i]
            ELSE [key |-> args[i].key] @@ JsonOf[args[i].value]]
    ELSE <<[key |-> <<<<"arguments">>>>, string |-> "true", value |-> <<<<"{...}">>>>]>>

Parameter(arg) ==
    <<ParamStart, Named>> \o arg.key \o <<<<"string=", arg.string>>>> \o arg.value
    \o <<ValueEnd, ParamEnd, Gt>>

EncodeArguments(args) == Flatten(Parameter, Reloaded(args))

-----------------------------------------------------------------------------
(* Preprocessing                                                           *)

NoMessage == [role |-> "user", blocks |-> <<>>, calls |-> <<>>, reasoning |-> <<>>,
              tools |-> <<>>, task |-> NoTask, id |-> NoId]

Part(atom) == [result |-> FALSE, id |-> NoId, parts |-> <<atom>>]
Result(id, parts) == [result |-> TRUE, id |-> id, parts |-> parts]
PartsOf(m) == Flatten(LAMBDA b : b.parts, m.blocks)
IsImage(atom) == atom[1] = "image"

(* process_image_messages: the records, message by message as they came.   *)
ImagesOf(ms) == Flatten(LAMBDA m : SelectSeq(PartsOf(m), IsImage), ms)

(* One message of merge_tool_messages: results become blocks of a user     *)
(* turn, turns of the user become one - its task, if any, is the first's.  *)
MergeOne(merged, m) ==
    LET block == Result(m.id, PartsOf(m))
        joins == merged # <<>> /\ Last(merged).role = "user"
        n == Len(merged)
    IN  CASE m.role = "tool" /\ joins ->
                 [merged EXCEPT ![n].blocks = Append(@, block)]
          [] m.role = "tool" /\ ~joins ->
                 Append(merged, [NoMessage EXCEPT !.blocks = <<block>>])
          [] m.role = "user" /\ joins /\ Last(merged).task = NoTask ->
                 [merged EXCEPT ![n].blocks = @ \o m.blocks]
          [] OTHER -> Append(merged, m)

Merge(ms) == FoldLeft(MergeOne, <<>>, ms)

IsResult(b) == b.result

(* Bug: the results of a turn stay in the order they arrived.              *)
SortBlocksNot(order, blocks) == blocks

(* Results move among the places of results, in the order of the calls;    *)
(* one whose call is not known counts as the first's.                      *)
SortBlocks(order, blocks) ==
    LET results == SelectSeq(blocks, IsResult)
        key(b) == IF Contains(order, b.id)
                  THEN CHOOSE i \in DOMAIN order : order[i] = b.id ELSE 1
        sorted == FlattenSeq([k \in DOMAIN order |-> SelectSeq(results, LAMBDA b : key(b) = k)])
        place(i) == Len(SelectSeq(SubSeq(blocks, 1, i), IsResult))
    IN  IF Len(results) < 2 \/ order = <<>> THEN blocks
        ELSE [i \in DOMAIN blocks |-> IF blocks[i].result THEN sorted[place(i)] ELSE blocks[i]]

SortOne(acc, m) ==
    IF m.role = "assistant" /\ m.calls # <<>>
    THEN [order |-> [i \in DOMAIN m.calls |-> m.calls[i].id], out |-> Append(acc.out, m)]
    ELSE [acc EXCEPT !.out = Append(@, [m EXCEPT !.blocks =
                          IF m.role = "user" THEN SortBlocks(acc.order, @) ELSE @])]

SortResults(ms) == FoldLeft(SortOne, [order |-> <<>>, out |-> <<>>], ms).out

-----------------------------------------------------------------------------
(* Rendering                                                               *)

(* A system message in the middle of a conversation counts as the user's.  *)
Prompting(ms, i) == ms[i].role = "user" \/ (ms[i].role = "system" /\ i > 1)

LastUser(ms) == LET us == {i \in DOMAIN ms : Prompting(ms, i)} IN IF us = {} THEN 0 ELSE Max(us)

RenderBlock(b) ==
    IF b.result THEN <<<<"<tool_result>", b.id>>>> \o b.parts \o <<ResultEnd>> ELSE b.parts

RenderCall(c) ==
    LET qualified == QualifiedName(SplitName(c.name, c.namespace))
    IN  <<InvokeStart, Named>> \o qualified \o <<NameEnd>>
        \o EncodeArguments(c.arguments) \o <<InvokeEnd, Gt>>

RenderCalls(calls) ==
    IF calls = <<>> THEN <<>>
    ELSE <<CallsStart, Gt>> \o Flatten(RenderCall, calls) \o <<CallsEnd>>

RenderTools(tools) ==
    IF tools = <<>> THEN <<>> ELSE <<Tools>> \o [i \in DOMAIN tools |-> <<"tool", QualifiedName(tools[i])>>]

(* Bug: reasoning is left out wherever it may be.                          *)
RenderAssistantPlain(i, ms, thinking, drop) ==
    PartsOf(ms[i]) \o RenderCalls(ms[i].calls) \o <<Eos>>

RenderAssistant(i, ms, thinking, drop) ==
    LET afterTask == i > 1 /\ ms[i-1].task # NoTask
        reasons == thinking /\ ~afterTask /\ (~drop \/ i > LastUser(ms))
    IN  (IF reasons THEN ms[i].reasoning \o <<ThinkEnd>> ELSE <<>>)
            \o PartsOf(ms[i]) \o RenderCalls(ms[i].calls) \o <<Eos>>

(* Bug: the header opens the thinking of answers whose thinking is dropped. *)
TransitionThinking(i, ms, thinking, drop) ==
    LET m == ms[i]
        goesOn == i < Len(ms) /\ ms[i+1].role \notin {"assistant", "latest_reminder"}
        thinks == thinking
    IN  IF goesOn THEN <<>>
        ELSE CASE m.task = "action" ->
                      <<Assistant, IF thinking THEN Think ELSE ThinkEnd, <<m.task>>>>
               [] m.task \notin {NoTask, "action"} -> <<<<m.task>>>>
               [] m.task = NoTask /\ Prompting(ms, i) ->
                      <<Assistant, IF thinks THEN Think ELSE ThinkEnd>>
               [] OTHER -> <<>>

(* What follows a message that is the last one, or one in front of the     *)
(* assistant's: the header of the answer, or the token of a task.          *)
Transition(i, ms, thinking, drop) ==
    LET m == ms[i]
        goesOn == i < Len(ms) /\ ms[i+1].role \notin {"assistant", "latest_reminder"}
        thinks == thinking /\ (~drop \/ i >= LastUser(ms))
    IN  IF goesOn THEN <<>>
        ELSE CASE m.task = "action" ->
                      <<Assistant, IF thinking THEN Think ELSE ThinkEnd, <<m.task>>>>
               [] m.task \notin {NoTask, "action"} -> <<<<m.task>>>>
               [] m.task = NoTask /\ Prompting(ms, i) ->
                      <<Assistant, IF thinks THEN Think ELSE ThinkEnd>>
               [] OTHER -> <<>>

RenderMessage(i, ms, thinking, drop) ==
    LET m == ms[i]
        leads == i = 1 /\ (thinking \/ m.role = "system")
    IN  (IF leads \/ (m.role = "system" /\ i > 1) THEN <<System>> ELSE <<>>)
        \o (IF i = 1 /\ thinking THEN <<Effort>> ELSE <<>>)
        \o (CASE m.role = "system"          -> PartsOf(m) \o RenderTools(m.tools)
              [] m.role = "user"            -> <<User>> \o Flatten(RenderBlock, m.blocks)
              [] m.role = "latest_reminder" -> <<Reminder>> \o PartsOf(m)
              [] m.role = "assistant"       -> RenderAssistant(i, ms, thinking, drop))
        \o Transition(i, ms, thinking, drop)

(* Reasoning before the last user's turn goes; no message does.            *)
DropThinking(ms) ==
    [i \in DOMAIN ms |-> IF ms[i].role = "assistant" /\ i < LastUser(ms)
                         THEN [ms[i] EXCEPT !.reasoning = <<>>] ELSE ms[i]]

OffersTools(ms) == \E i \in DOMAIN ms : ms[i].tools # <<>>

(* Bug: the results are sorted by the calls of the new messages only.      *)
SortedAlone(context, messages) == SortResults(Merge(messages))

(* The new messages, their results in the order of calls of the context.   *)
SortedAfter(context, messages) ==
    SubSeq(SortResults(context \o Merge(messages)), Len(context) + 1,
           Len(context) + Len(Merge(messages)))

(* encode_messages, in a context that is encoded already.                  *)
Encode(context, messages, thinking) ==
    LET sorted == SortedAfter(context, messages)
        before == SortResults(Merge(context))
        full == before \o sorted
        drop == ~OffersTools(full)
        rendered == IF thinking /\ drop THEN DropThinking(full) ELSE full
    IN  (IF context = <<>> THEN <<Bos>> ELSE <<>>)
        \o FlattenSeq([i \in 1 .. Len(sorted) |->
                          RenderMessage(i + Len(before), rendered, thinking, drop)])

-----------------------------------------------------------------------------
(* Parsing                                                                 *)

(* What the two regular expressions match: a name between its quotes, and  *)
(* a key, the flag, a value - each (.*?), which is any text, as long as it *)
(* can be.  Special tokens in it are part of it.                           *)
IsFlag(atom) == atom[1] = "string="

NameOK(content) == Len(content) > 1 /\ content[1] = Named /\ Last(content) = NameEnd
NameIn(content) == SubSeq(content, 2, Len(content) - 1)

ParamOK(content) ==
    /\ Len(content) > 2 /\ content[1] = Named /\ Last(content) = ValueEnd
    /\ \E k \in DOMAIN content : IsFlag(content[k])

ParamIn(content) ==
    LET flag == Min({k \in DOMAIN content : IsFlag(content[k])})
    IN  [key |-> SubSeq(content, 2, flag - 1), string |-> content[flag][2],
         value |-> SubSeq(content, flag + 1, Len(content) - 1)]

(* Parameters up to the end of the invocation - or of the text.            *)
RECURSIVE ParseParams(_, _, _, _)
ParseParams(text, i, stop, args) ==
    IF stop # ParamStart THEN [ok |-> TRUE, next |-> i, args |-> args]
    ELSE LET p == ReadUntil(text, i, {ParamEnd})
             a == ParamIn(p.content)
             q == ReadUntil(text, p.next, {ParamStart, InvokeEnd})
         IN  IF /\ ParamOK(p.content)
                /\ \A k \in DOMAIN args : args[k].key # a.key
                /\ q.content = <<Gt>>
             THEN ParseParams(text, q.next, q.stop, Append(args, a))
             ELSE [ok |-> FALSE, next |-> i, args |-> args]

RECURSIVE ParseCalls(_, _, _)
ParseCalls(text, i, calls) ==
    LET r == ReadUntil(text, i, {InvokeStart, CallsEnd})
        n == ReadUntil(text, r.next, {ParamStart, InvokeEnd})
        p == ParseParams(text, n.next, n.stop, <<>>)
        call == SplitName(NameIn(n.content), <<>>) @@ [arguments |-> p.args]
        bad == [ok |-> FALSE, next |-> i, calls |-> calls]
    IN  IF i > Len(text) THEN [ok |-> TRUE, next |-> i, calls |-> calls]
        ELSE IF r.content # <<Gt>> \/ r.stop = <<>> THEN bad
        ELSE IF r.stop = CallsEnd THEN [ok |-> TRUE, next |-> r.next, calls |-> calls]
        ELSE IF NameOK(n.content) /\ p.ok /\ SplitOK(NameIn(n.content), <<>>)
             THEN ParseCalls(text, p.next, Append(calls, call))
             ELSE bad

(* Bug: the marks of tool calls are not looked for.                        *)
CleanOfOthers(content) == ToSet(content) \cap {Bos, Eos, Think, ThinkEnd} = {}

(* No special token in the reasoning or the content; calls are not looked  *)
(* at.                                                                     *)
Clean(content) == ToSet(content) \cap Specials = {}

(* parse_message_from_completion_text                                      *)
Parse(text, thinking) ==
    LET t == IF thinking THEN ReadUntil(text, 1, {ThinkEnd, CallsStart})
             ELSE [next |-> 1, content |-> <<>>, stop |-> ThinkEnd]
        s == ReadUntil(text, t.next, {Eos, CallsStart})
        c == IF s.stop = CallsStart THEN ParseCalls(text, s.next, <<>>)
             ELSE [ok |-> s.stop = Eos, next |-> s.next, calls |-> <<>>]
        e == IF s.stop = CallsStart THEN ReadUntil(text, c.next, {Eos})
             ELSE [next |-> s.next, content |-> <<>>, stop |-> s.stop]
    IN  [ok |-> /\ t.stop = ThinkEnd /\ c.ok /\ e.content = <<>> /\ e.next = Len(text) + 1
                /\ Clean(t.content \o s.content),
         reasoning |-> t.content, content |-> s.content, calls |-> c.calls]

=============================================================================
