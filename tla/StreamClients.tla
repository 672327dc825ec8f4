---------------------------- MODULE StreamClients ----------------------------
(***************************************************************************)
(* The streams a translator speaks: what one event of each client protocol  *)
(* looks like, what a client of that protocol has understood after reading  *)
(* a sequence of them, and the token counts that travel with a response     *)
(* (internal/metrics/metrics.go, TokenUsage).                               *)
(*                                                                          *)
(* A model says a message: a sequence of blocks of text, thinking or tool   *)
(* calls, each a sequence of parts.  A part is a number no other part has,  *)
(* so that one lost, repeated, reordered or put into another block shows;   *)
(* a signature on a thinking block is a negative number.                    *)
(***************************************************************************)
EXTENDS Integers, Sequences, SequencesExt

Kinds == {"text", "thinking", "tool"}

Block(kind, id) == [kind |-> kind, id |-> id, parts |-> <<>>]

AddPart(blocks, d) == [blocks EXCEPT ![Len(blocks)].parts = Append(@, d)]

Of(blocks, kind) == SelectSeq(blocks, LAMBDA b : b.kind = kind)

Parts(blocks) == FlattenSeq([i \in 1..Len(blocks) |-> blocks[i].parts])

(***************************************************************************)
(* Token counts.  A field that was never set is Unset.                      *)
(***************************************************************************)
Unset == -1

NoTokenUsage == [input |-> Unset, cached |-> Unset, creation |-> Unset,
                 output |-> Unset, total |-> Unset]

Or0(n) == IF n = Unset THEN 0 ELSE n

IfSet(new, old) == IF new # Unset THEN new ELSE old

Override(u, other) ==
  [input |-> IfSet(other.input, u.input), cached |-> IfSet(other.cached, u.cached),
   creation |-> IfSet(other.creation, u.creation),
   output |-> IfSet(other.output, u.output), total |-> IfSet(other.total, u.total)]

\* Counts as a provider with explicit caching reports them: the tokens it read
\* from and wrote to its cache are not part of the input count.
ExtractTokenUsageFromExplicitCaching(raw) ==
  LET in == raw.input + Or0(raw.read) + Or0(raw.write)
  IN  [input |-> in, cached |-> raw.read, creation |-> raw.write,
       output |-> raw.output, total |-> in + raw.output]

(***************************************************************************)
(* A client of the Anthropic protocol: one message_start, blocks numbered   *)
(* from 0, open one at a time, a delta only for the open block and of its   *)
(* kind, one message_delta when every block is closed, then message_stop.   *)
(***************************************************************************)
AnthropicReader ==
  [phase |-> "new", open |-> FALSE, blocks |-> <<>>, stop |-> "",
   input |-> 0, output |-> 0, ok |-> TRUE]

InOpenBlock(c, e) == c.phase = "body" /\ c.open /\ e.index = Len(c.blocks) - 1

AnthropicExpects(c, e) ==
  \/ e.type = "message_start" /\ c.phase = "new"
  \/ /\ e.type = "content_block_start" /\ c.phase = "body"
     /\ ~c.open /\ e.index = Len(c.blocks)
  \/ /\ e.type = "content_block_delta" /\ InOpenBlock(c, e)
     /\ c.blocks[Len(c.blocks)].kind = e.kind
  \/ e.type = "content_block_stop" /\ InOpenBlock(c, e)
  \/ e.type = "message_delta" /\ c.phase = "body" /\ ~c.open
  \/ e.type = "message_stop" /\ c.phase = "stopped"

AnthropicReads(c, e) ==
  CASE ~AnthropicExpects(c, e) -> [c EXCEPT !.ok = FALSE]
    [] e.type = "message_start" ->
         [c EXCEPT !.phase = "body", !.input = e.input]
    [] e.type = "content_block_start" ->
         [c EXCEPT !.open = TRUE, !.blocks = Append(@, Block(e.kind, e.id))]
    [] e.type = "content_block_delta" ->
         [c EXCEPT !.blocks = AddPart(@, e.part)]
    [] e.type = "content_block_stop" -> [c EXCEPT !.open = FALSE]
    [] e.type = "message_delta" ->
         [c EXCEPT !.phase = "stopped", !.stop = e.stop, !.output = e.output,
                   !.input = IF e.input # Unset THEN e.input ELSE @]
    [] OTHER -> [c EXCEPT !.phase = "done"]

(***************************************************************************)
(* A client of the OpenAI protocol: chunks that add to the text, to the     *)
(* reasoning or to the tool call with their index; the id of a call comes   *)
(* with its first chunk only, and the calls are numbered from 0; one        *)
(* finish_reason, and [DONE] last.                                          *)
(***************************************************************************)
OpenAIReader ==
  [role |-> FALSE, text |-> <<>>, reasoning |-> <<>>, tools |-> <<>>,
   finish |-> "", usage |-> NoTokenUsage, done |-> FALSE, ok |-> TRUE]

Chunk ==
  [role |-> FALSE, content |-> <<>>, reasoning |-> <<>>, tools |-> <<>>,
   finish |-> "", usage |-> NoTokenUsage, done |-> FALSE]

ToolCall(index, id, args) == [index |-> index, id |-> id, args |-> args]

NoId == 0

OpenAIExpectsCall(tools, t) ==
  \/ t.index = Len(tools) /\ t.id # NoId
  \/ t.index \in 0..Len(tools) - 1 /\ t.id = NoId

ReadCall(tools, t) ==
  IF t.index = Len(tools) THEN Append(tools, [id |-> t.id, args |-> t.args])
  ELSE [tools EXCEPT ![t.index + 1].args = @ \o t.args]

OpenAIExpects(c, k) ==
  /\ ~c.done
  /\ \A i \in 1..Len(k.tools) :
       OpenAIExpectsCall(FoldLeft(ReadCall, c.tools, SubSeq(k.tools, 1, i - 1)), k.tools[i])
  /\ k.finish # "" => c.finish = ""
  /\ (k.content # <<>> \/ k.tools # <<>>) => c.role \/ k.role

OpenAIReads(c, k) ==
  IF ~OpenAIExpects(c, k) THEN [c EXCEPT !.ok = FALSE]
  ELSE [c EXCEPT !.role = @ \/ k.role,
                 !.text = @ \o k.content,
                 !.reasoning = @ \o k.reasoning,
                 !.tools = FoldLeft(ReadCall, @, k.tools),
                 !.finish = IF k.finish # "" THEN k.finish ELSE @,
                 !.usage = Override(@, k.usage),
                 !.done = k.done]

=============================================================================
