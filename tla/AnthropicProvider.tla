-------------------------- MODULE AnthropicProvider --------------------------
(***************************************************************************)
(* The Anthropic provider (pkg/provider/anthropic.go, anthropic_stream.go):*)
(* agents send their history, the provider translates it into a Messages   *)
(* request and the answer back, and puts the signed thinking the agent     *)
(* cannot keep back into the history of later requests.                    *)
(*                                                                         *)
(* A block of an answer is named <<agent, turn, position>>; the name of a  *)
(* tool_use block is its call id.  Text is what block it came from.        *)
(***************************************************************************)
EXTENDS ThinkingCache, SequencesExt, FiniteSets

CONSTANTS
  Agents,
  Streamers,   \* the agents whose requests stream
  MaxTurns,    \* bound: answers to each agent; its last request gets none
  MaxBlocks,   \* bound: blocks of an answer
  KeepRecent,  \* defaultKeepRecentThinkingTurns
  Settings,    \* what the requests of each agent ask for, see Wanted
  Habits,      \* whether each agent keeps reasoning, and splits its calls
  Answers      \* bound: the sequences of block types each agent is answered

Kinds == {"text", "thinking", "redacted_thinking", "tool_use"}
Thinking == {"thinking", "redacted_thinking"}
Lines == {"sonnet", "opus", "haiku", "other"}
Efforts == {"", "none", "low", "medium", "high"}
\* A model is a line, the first digit of its version, the second, and
\* whether "thinking" is part of its name.
Models == [line : Lines, major : 0 .. 9, minor : 0 .. 9, thinking : BOOLEAN]
Wanted == [model : Models, effort : Efforts, max : Nat]
Names == UNION {{a} \X (1 .. MaxTurns[a]) \X (1 .. MaxBlocks) : a \in Agents}

ASSUME ProviderAssumption ==
  /\ MaxTurns \in [Agents -> Nat] /\ Streamers \subseteq Agents
  /\ MaxBlocks \in Nat /\ KeepRecent \in Nat \ {0}
  /\ \A a \in Agents : /\ Settings[a] \subseteq Wanted
                       /\ Habits[a] \subseteq BOOLEAN \X BOOLEAN
  /\ \A a \in Agents :
       Answers[a] \subseteq UNION {[1 .. n -> Kinds] : n \in 0 .. MaxBlocks}
  /\ Names \subseteq CallIds

VARIABLES
  cache,    \* thinkingCache of the provider
  history,  \* the messages each agent sends
  work,     \* a request being built: what the first pass found
  request,  \* the request each agent has sent, till it is answered
  spoken,   \* the blocks of every answer, as the upstream sent them
  adapter,  \* the AnthropicStreamAdapter of each agent
  client    \* what each agent has received of its answer

vars == <<cache, history, work, request, spoken, adapter, client>>

(***************************************************************************)
(* The answer and what the agent makes of it.                              *)
(***************************************************************************)
Adapter(state) ==
  [state |-> state, start |-> FALSE, block |-> "none", index |-> 1,
   tokens |-> FALSE, usage |-> FALSE, done |-> FALSE, thinking |-> <<>>,
   signature |-> <<>>, blocks |-> <<>>, ids |-> <<>>, flushed |-> FALSE,
   puts |-> <<>>]

Nothing == [calls |-> <<>>, said |-> FALSE, reasoned |-> FALSE, usages |-> 0,
            dones |-> 0, late |-> FALSE]

(* The agent applies a chunk: tool call fragments by their index. *)
Received(c, chunk) ==
  LET new == [c EXCEPT !.late = @ \/ c.dones > 0]
  IN CASE chunk.type = "call" ->
            [new EXCEPT !.calls = Append(@, [id |-> chunk.name,
                                             args |-> <<>>])]
       [] chunk.type = "args" /\ chunk.index \in DOMAIN c.calls ->
            [new EXCEPT !.calls[chunk.index].args = Append(@, chunk.name)]
       [] chunk.type = "content" -> [new EXCEPT !.said = TRUE]
       [] chunk.type = "reasoning" -> [new EXCEPT !.reasoned = TRUE]
       [] chunk.type = "usage" -> [new EXCEPT !.usages = @ + 1]
       [] chunk.type = "done" -> [new EXCEPT !.dones = @ + 1]
       [] OTHER -> new

Chunk(type) == [type |-> type]

Emit(a, chunks) == client' = [client EXCEPT ![a] = FoldLeft(Received, @, chunks)]

Turn(a) == Len(spoken[a])
Block(a) == Last(Last(spoken[a]))
BlockName(a) == <<a, Turn(a), Len(Last(spoken[a]))>>

Speak(a, block) ==
  spoken' = [spoken EXCEPT ![a][Turn(a)] = Append(@, block)]
Amend(a, block) ==
  spoken' = [spoken EXCEPT ![a][Turn(a)][Len(Last(spoken[a]))] = block]

Upstream(type) == [type |-> type, delta |-> FALSE, signed |-> FALSE,
                   open |-> TRUE]

(***************************************************************************)
(* AnthropicStreamAdapter: one action per event of the upstream.           *)
(***************************************************************************)
Streaming(a) == adapter[a].state = "open"
NoBlockOpen(a) == Last(spoken[a]) # <<>> => ~Block(a).open
\* Thinking may be a signature only; text and arguments come with a delta.
Complete(a) ==
  ~NoBlockOpen(a) /\ (Block(a).delta \/ Block(a).type \in Thinking)

MessageStart(a) ==
  /\ Streaming(a) /\ ~adapter[a].start
  /\ adapter' = [adapter EXCEPT ![a].start = TRUE, ![a].tokens = TRUE]
  /\ request' = [request EXCEPT ![a] = <<>>]
  /\ UNCHANGED <<cache, history, work, spoken, client>>

BlockStart(a, type) ==
  /\ Streaming(a) /\ adapter[a].start /\ NoBlockOpen(a) /\ ~adapter[a].done
  /\ LET types == [i \in DOMAIN Last(spoken[a]) |-> Last(spoken[a])[i].type]
     IN \E answer \in Answers[a] : IsPrefix(Append(types, type), answer)
  /\ LET name == <<a, Turn(a), Len(Last(spoken[a])) + 1>>
     IN /\ Speak(a, Upstream(type))
        /\ adapter' = [adapter EXCEPT
             ![a].block = type,
             ![a].ids = IF type = "tool_use" THEN Append(@, name) ELSE @,
             ![a].thinking = IF type = "thinking" THEN <<>> ELSE @,
             ![a].signature = IF type = "thinking" THEN <<>> ELSE @,
             ![a].blocks = IF type = "redacted_thinking"
                           THEN Append(@, [type |-> type, name |-> name])
                           ELSE @]
        /\ Emit(a, IF type = "tool_use"
                   THEN <<[type |-> "call", name |-> name]>> ELSE <<>>)
  /\ UNCHANGED <<cache, history, work, request>>

(* A delta of the open block: text, thinking or arguments. *)
BlockDelta(a) ==
  /\ Streaming(a) /\ ~NoBlockOpen(a)
  /\ ~Block(a).delta /\ ~Block(a).signed
  /\ Block(a).type # "redacted_thinking"
  /\ Amend(a, [Block(a) EXCEPT !.delta = TRUE])
  /\ CASE Block(a).type = "text" ->
            Emit(a, <<Chunk("content")>>) /\ UNCHANGED adapter
       [] Block(a).type = "tool_use" ->
            /\ Emit(a, <<[type |-> "args", index |-> adapter[a].index,
                          name |-> BlockName(a)]>>)
            /\ UNCHANGED adapter
       [] Block(a).type = "thinking" ->
            /\ Emit(a, <<Chunk("reasoning")>>)
            /\ adapter' = [adapter EXCEPT
                 ![a].thinking = Append(@, BlockName(a))]
  /\ UNCHANGED <<cache, history, work, request>>

SignatureDelta(a) ==
  /\ Streaming(a) /\ ~NoBlockOpen(a)
  /\ Block(a).type = "thinking" /\ ~Block(a).signed
  /\ Amend(a, [Block(a) EXCEPT !.signed = TRUE])
  /\ adapter' = [adapter EXCEPT ![a].signature = Append(@, BlockName(a))]
  /\ UNCHANGED <<cache, history, work, request, client>>

FinalizeThinkingBlock(s) ==
  [s EXCEPT
     !.blocks = IF s.signature = <<>> THEN @
                ELSE Append(@, [type |-> "thinking",
                                name |-> <<s.thinking, s.signature>>]),
     !.thinking = <<>>, !.signature = <<>>]

(* Mutant: the index moves on with every block. *)
BlockStopCountsAll(a) ==
  /\ Streaming(a) /\ Complete(a)
  /\ Amend(a, [Block(a) EXCEPT !.open = FALSE])
  /\ adapter' = [adapter EXCEPT
       ![a] = [FinalizeThinkingBlock(@) EXCEPT !.index = @ + 1,
                                               !.block = "none"]]
  /\ UNCHANGED <<cache, history, work, request, client>>

Stopped(s) ==
  LET whole == IF s.block = "thinking" THEN FinalizeThinkingBlock(s) ELSE s
      next == IF s.block = "tool_use" THEN s.index + 1 ELSE s.index
  IN [whole EXCEPT !.index = next, !.block = "none"]

BlockStop(a) ==
  /\ Streaming(a) /\ Complete(a)
  /\ Amend(a, [Block(a) EXCEPT !.open = FALSE])
  /\ adapter' = [adapter EXCEPT ![a] = Stopped(@)]
  /\ UNCHANGED <<cache, history, work, request, client>>

MessageDelta(a) ==
  /\ Streaming(a) /\ adapter[a].start /\ NoBlockOpen(a) /\ ~adapter[a].done
  /\ adapter' = [adapter EXCEPT ![a].usage = TRUE, ![a].tokens = TRUE]
  /\ Emit(a, IF adapter[a].usage THEN <<Chunk("finish")>>
             ELSE <<Chunk("finish"), Chunk("usage")>>)
  /\ UNCHANGED <<cache, history, work, request, spoken>>

(* A signed block that is still open counts; nothing is stored without     *)
(* both a tool call and a signed block.                                    *)
FlushThinkingCache(s) ==
  IF s.flushed THEN s
  ELSE LET whole == IF s.block = "thinking" /\ s.signature # <<>>
                    THEN [FinalizeThinkingBlock(s) EXCEPT !.block = "none"]
                    ELSE s
       IN [whole EXCEPT !.flushed = TRUE,
                        !.puts = IF whole.blocks = <<>> THEN <<>>
                                 ELSE whole.ids]

(* Mutant: usage is sent again at the end. *)
EndingsRepeat(s, stop) ==
  <<Chunk("usage")>> \o (IF s.done THEN <<>> ELSE <<Chunk("done")>>)

(* What the end of a message still owes the client. *)
Endings(s, stop) ==
  (IF ~s.usage /\ (stop \/ s.tokens) THEN <<Chunk("usage")>> ELSE <<>>)
    \o (IF s.done THEN <<>> ELSE <<Chunk("done")>>)

Ended(s, state) == [FlushThinkingCache(s) EXCEPT !.usage = TRUE,
                                                 !.done = TRUE,
                                                 !.state = state]

(* message_stop; what follows it is the end of the body. *)
MessageStop(a) ==
  /\ Streaming(a) /\ adapter[a].start /\ NoBlockOpen(a) /\ ~adapter[a].done
  /\ Emit(a, Endings(adapter[a], TRUE))
  /\ adapter' = [adapter EXCEPT ![a] = Ended(@, "open")]
  /\ UNCHANGED <<cache, history, work, request, spoken>>

(* The error event; the upstream says nothing more. *)
ErrorEvent(a) ==
  /\ Streaming(a) /\ ~adapter[a].done
  /\ Emit(a, <<Chunk("error")>>)
  /\ adapter' = [adapter EXCEPT ![a].state = "failed"]
  /\ UNCHANGED <<cache, history, work, request, spoken>>

EndOfBody(a) ==
  /\ adapter[a].state \in {"open", "failed"}
  /\ Emit(a, Endings(adapter[a], FALSE))
  /\ adapter' = [adapter EXCEPT ![a] = Ended(@, "eof")]
  /\ UNCHANGED <<cache, history, work, request, spoken>>

(* The connection breaks, or the client goes: Close flushes as well. *)
Close(a) ==
  /\ adapter[a].state \in {"open", "failed", "eof"}
  /\ adapter[a].puts = <<>>
  /\ adapter' = [adapter EXCEPT
       ![a] = [FlushThinkingCache(@) EXCEPT !.state = "closed"]]
  /\ UNCHANGED <<cache, history, work, request, spoken, client>>

(* One Put of the flush, each under the lock of the cache. *)
FlushNext(a) ==
  /\ adapter[a].puts # <<>>
  /\ cache' = Put(cache, Head(adapter[a].puts), adapter[a].blocks)
  /\ adapter' = [adapter EXCEPT ![a].puts = Tail(@)]
  /\ UNCHANGED <<history, work, request, spoken, client>>

(***************************************************************************)
(* TranslateResponseBody: the answer of a request that does not stream.    *)
(***************************************************************************)
Said(blocks, type) == \E i \in DOMAIN blocks : blocks[i].type = type

\* The members of a set of positions, in order.
InOrder(S) ==
  [k \in 1 .. Cardinality(S) |->
     CHOOSE x \in S : Cardinality({y \in S : y < x}) = k - 1]

\* The elements of a sequence at a set of positions.
Picked(s, S) == LET at == InOrder(S) IN [k \in DOMAIN at |-> s[at[k]]]

(* The thinking of an answer that may be sent back: what was signed. *)
SignedBlocks(a, turn, blocks) ==
  LET name(i) == <<a, turn, i>>
      kept == InOrder({i \in DOMAIN blocks :
                \/ blocks[i].type = "redacted_thinking"
                \/ blocks[i].type = "thinking" /\ blocks[i].signed})
      Captured(i) ==
        IF blocks[i].type = "redacted_thinking"
        THEN [type |-> "redacted_thinking", name |-> name(i)]
        ELSE [type |-> "thinking",
              name |-> <<IF blocks[i].delta THEN <<name(i)>> ELSE <<>>,
                         <<name(i)>>>>]
  IN [k \in DOMAIN kept |-> Captured(kept[k])]

(* An answer that is not streamed: the agent gets its calls at once, the   *)
(* signed blocks are put under each of them.                               *)
TranslateResponseBody(a, types, signed) ==
  /\ adapter[a].state = "sent"
  /\ LET blocks == [i \in DOMAIN types |->
                      [type |-> types[i], delta |-> TRUE, open |-> FALSE,
                       signed |-> signed /\ types[i] = "thinking"]]
         calls == InOrder({i \in DOMAIN types : types[i] = "tool_use"})
         ids == [k \in DOMAIN calls |-> <<a, Turn(a), calls[k]>>]
         captured == SignedBlocks(a, Turn(a), blocks)
     IN /\ spoken' = [spoken EXCEPT ![a][Turn(a)] = blocks]
        /\ adapter' = [adapter EXCEPT
             ![a].state = "closed", ![a].flushed = TRUE,
             ![a].blocks = captured, ![a].ids = ids,
             ![a].puts = IF captured = <<>> THEN <<>> ELSE ids]
        /\ client' = [client EXCEPT
             ![a] = [calls |-> [k \in DOMAIN ids |->
                                 [id |-> ids[k], args |-> <<ids[k]>>]],
                     said |-> Said(blocks, "text"),
                     reasoned |-> Said(blocks, "thinking"),
                     usages |-> 1, dones |-> 1, late |-> FALSE]]
  /\ request' = [request EXCEPT ![a] = <<>>]
  /\ UNCHANGED <<cache, history, work>>

(***************************************************************************)
(* The agent goes on: it keeps or drops the reasoning, sends parallel      *)
(* calls as one message or several, and adds results or another prompt     *)
(* (blank when all it held was an image the provider cannot pass on).  A   *)
(* broken answer is asked for again.                                       *)
(***************************************************************************)
Message(role, text) == [role |-> role, text |-> text, reasons |-> FALSE,
                        calls |-> <<>>, result |-> <<>>]

Spoken(c, reasons, calls, text) ==
  [Message("assistant", text) EXCEPT !.reasons = reasons, !.calls = calls]

Result(id) == [Message("tool", TRUE) EXCEPT !.result = id]

Continue(a, keeps, splits, text) ==
  /\ adapter[a].state = "closed" /\ adapter[a].puts = <<>>
  /\ LET c == client[a]
         ids == [i \in DOMAIN c.calls |-> c.calls[i].id]
         reasons == keeps /\ c.reasoned
         answer == IF splits
                   THEN [i \in DOMAIN ids |->
                          Spoken(c, reasons /\ i = 1, <<ids[i]>>,
                                 c.said /\ i = 1)]
                   ELSE <<Spoken(c, reasons, ids, c.said)>>
         results == [i \in DOMAIN ids |-> Result(ids[i])]
     IN history' = [history EXCEPT ![a] =
          CASE c.dones = 0 -> @
            [] c.dones > 0 /\ ids # <<>> -> @ \o answer \o results
            [] c.dones > 0 /\ ids = <<>> ->
                 @ \o <<Spoken(c, reasons, ids, c.said),
                        Message("user", text)>>]
  /\ splits => Len(client[a].calls) > 1
  /\ adapter' = [adapter EXCEPT ![a] = Adapter("idle")]
  /\ client' = [client EXCEPT ![a] = Nothing]
  /\ UNCHANGED <<cache, work, request, spoken>>

(***************************************************************************)
(* BuildUpstreamRequest.  What is asked of the model's thinking first.     *)
(***************************************************************************)
IsAdaptiveThinking(m) ==
  \/ m.line = "opus" /\ m.major = 4 /\ m.minor \in {7, 8}
  \/ m.line # "other" /\ m.major \in 5 .. 9

IsThinkingModel(m) ==
  \/ m.thinking \/ IsAdaptiveThinking(m)
  \/ m.line \in {"sonnet", "opus"} /\ m.major = 4

Budget(effort) == CASE effort = "low" -> 2048
                    [] effort = "high" -> 8192
                    [] OTHER -> 4096

DefaultMaxTokens == 8192
AdaptiveMaxTokens == 16384

ThinkingPlan(w) ==
  LET effort == IF w.effort = "" /\ w.model.thinking THEN "medium"
                ELSE w.effort
      max == IF w.max = 0 THEN DefaultMaxTokens ELSE w.max
      budget == Budget(effort)
  IN CASE effort = "" ->
            [type |-> "absent", budget |-> 0, max |-> max,
             thinks |-> IsThinkingModel(w.model)]
       [] effort = "none" /\ IsAdaptiveThinking(w.model) ->
            [type |-> "disabled", budget |-> 0, max |-> max, thinks |-> TRUE]
       [] effort \notin {"", "none"} /\ IsAdaptiveThinking(w.model) ->
            [type |-> "adaptive", budget |-> 0, thinks |-> TRUE,
             max |-> IF max < AdaptiveMaxTokens THEN AdaptiveMaxTokens
                     ELSE max]
       [] effort # "" /\ ~IsAdaptiveThinking(w.model) ->
            [type |-> "enabled", budget |-> budget, thinks |-> TRUE,
             max |-> IF max <= budget THEN budget + 4096 ELSE max]

Answered(m) == m.role = "assistant" /\ m.calls # <<>>
InCache(m) == \E i \in DOMAIN m.calls : Has(cache, m.calls[i])

(* The first pass, when the client has dropped its reasoning: the first    *)
(* turn the cache knows, and those whose slot in a ring of KeepRecent no   *)
(* later one has taken.                                                    *)
ToRehydrate(msgs) ==
  LET cached == {i \in DOMAIN msgs : Answered(msgs[i]) /\ InCache(msgs[i])}
      before(i) == Cardinality({j \in cached : j < i})
      slot(i) == before(i) % KeepRecent
  IN IF \E i \in DOMAIN msgs : msgs[i].role = "assistant" /\ msgs[i].reasons
     THEN {i \in DOMAIN msgs : Answered(msgs[i]) /\ msgs[i].reasons}
     ELSE {i \in cached :
             \/ before(i) = 0
             \/ \A j \in cached : j > i => slot(j) # slot(i)}

NoWork == [wanted |-> 0, msgs |-> <<>>, kept |-> {}]

(* System messages are hoisted; then the first pass over the history. *)
BuildUpstreamRequest(a, wanted) ==
  /\ adapter[a].state = "idle"
  /\ LET msgs == Picked(history[a], {i \in DOMAIN history[a] :
                                       history[a][i].role # "system"})
         consult == /\ ThinkingPlan(wanted).type # "disabled"
                    /\ cache.count > 0
     IN work' = [work EXCEPT ![a] =
          [wanted |-> wanted, msgs |-> msgs,
           kept |-> IF consult THEN ToRehydrate(msgs) ELSE {}]]
  /\ adapter' = [adapter EXCEPT ![a].state = "building"]
  /\ UNCHANGED <<cache, history, request, spoken, client>>

(* convertMessageContentFast: thinking, text, calls. *)
Content(m, thinking) ==
  LET text == IF m.text THEN <<[type |-> "text", name |-> <<>>]>> ELSE <<>>
  IN IF m.role = "tool"
     THEN <<[type |-> "tool_result", name |-> m.result]>>
     ELSE thinking \o text
            \o [i \in DOMAIN m.calls |->
                 [type |-> "tool_use", name |-> m.calls[i]]]

(* Mutant: merged messages keep the thinking of both. *)
KeepDuplicates(existing, incoming) == incoming

StripDuplicateThinking(existing, incoming) ==
  Picked(incoming, {k \in DOMAIN incoming :
    \/ incoming[k].type \notin Thinking
    \/ \A i \in DOMAIN existing : existing[i] # incoming[k]})

(* Mutant: only answers in a row are merged. *)
MergeAnswers(out, role, blocks) ==
  CASE blocks = <<>> -> out
    [] blocks # <<>> /\ role = "assistant" /\ Last(out).role = role ->
         [out EXCEPT ![Len(out)].content =
            @ \o StripDuplicateThinking(@, blocks)]
    [] OTHER -> Append(out, [role |-> role, content |-> blocks])

(* Messages of one role in a row are merged. *)
Merged(out, role, blocks) ==
  CASE blocks = <<>> -> out
    [] blocks # <<>> /\ out # <<>> /\ Last(out).role = role ->
         [out EXCEPT ![Len(out)].content =
            @ \o StripDuplicateThinking(@, blocks)]
    [] OTHER -> Append(out, [role |-> role, content |-> blocks])

Hello == [role |-> "user", content |-> <<[type |-> "text", name |-> <<>>]>>]

\* What is stored under the first of its calls that the cache knows.
CachedBlocks(m) ==
  LET known == {k \in DOMAIN m.calls : Has(cache, m.calls[k])}
  IN IF known = {} THEN <<>>
     ELSE cache.entries[m.calls[CHOOSE k \in known :
                                  \A j \in known : k <= j]]

Translate(out, m, rehydrates) ==
  Merged(out, IF m.role = "tool" THEN "user" ELSE m.role,
         Content(m, IF rehydrates THEN CachedBlocks(m) ELSE <<>>))

TranslateMessages(msgs, kept) ==
  LET all == FoldLeft(LAMBDA out, i : Translate(out, msgs[i], i \in kept),
                      <<>>, [i \in DOMAIN msgs |-> i])
  IN IF all # <<>> /\ all[1].role # "user" THEN <<Hello>> \o all ELSE all

(* The second pass reads the cache again; a model that thinks takes no     *)
(* prefill.  The answer then streams, or comes whole.                      *)
SendRequest(a) ==
  /\ adapter[a].state = "building"
  /\ LET plan == ThinkingPlan(work[a].wanted)
         all == TranslateMessages(work[a].msgs, work[a].kept)
         cut == IF plan.thinks /\ all # <<>> /\ Last(all).role = "assistant"
                THEN Front(all) ELSE all
     IN request' = [request EXCEPT ![a] =
          [plan |-> plan, messages |-> IF cut = <<>> THEN <<Hello>> ELSE cut,
           kept |-> work[a].kept]]
  /\ spoken' = [spoken EXCEPT ![a] = Append(@, <<>>)]
  /\ adapter' = [adapter EXCEPT ![a] =
       Adapter(CASE Turn(a) = MaxTurns[a] -> "unanswered"
                 [] Turn(a) < MaxTurns[a] /\ a \in Streamers -> "open"
                 [] Turn(a) < MaxTurns[a] /\ a \notin Streamers -> "sent")]
  /\ work' = [work EXCEPT ![a] = NoWork]
  /\ UNCHANGED <<cache, history, client>>

Init ==
  /\ cache = EmptyCache
  /\ history = [a \in Agents |-> <<Message("system", TRUE),
                                  Message("user", TRUE)>>]
  /\ work = [a \in Agents |-> NoWork]
  /\ request = [a \in Agents |-> <<>>]
  /\ spoken = [a \in Agents |-> <<>>]
  /\ adapter = [a \in Agents |-> Adapter("idle")]
  /\ client = [a \in Agents |-> Nothing]

Stream(a) ==
  \/ MessageStart(a) \/ BlockDelta(a) \/ SignatureDelta(a) \/ BlockStop(a)
  \/ MessageDelta(a) \/ MessageStop(a) \/ ErrorEvent(a) \/ EndOfBody(a)
  \/ Close(a) \/ FlushNext(a)
  \/ \E type \in Kinds : BlockStart(a, type)

Converse(a) ==
  \/ \E wanted \in Settings[a] : BuildUpstreamRequest(a, wanted)
  \/ SendRequest(a)
  \/ \E types \in Answers[a], signed \in BOOLEAN :
       TranslateResponseBody(a, types, signed)
  \/ \E habit \in Habits[a], text \in BOOLEAN :
       Continue(a, habit[1], habit[2], text)

Next == \E a \in Agents : Stream(a) \/ Converse(a)

Spec == Init /\ [][Next]_vars

(***************************************************************************)
(* Type invariant: the cache stays within its ring, an adapter within its  *)
(* states, and an agent within its turns.                                  *)
(***************************************************************************)
TypeOK ==
  /\ cache.count \in 0 .. MaxCached /\ cache.head \in Slots
  /\ cache.order \in [Slots -> Names \cup {NoCall}]
  /\ \A a \in Agents :
       /\ adapter[a].state \in {"idle", "building", "sent", "open", "failed",
                                "eof", "closed", "unanswered"}
       /\ adapter[a].index \in 1 .. MaxBlocks + 1
       /\ Turn(a) \in 0 .. MaxTurns[a] + 1
       /\ work[a].kept \subseteq DOMAIN work[a].msgs

(* The ring and the entries of the cache hold the same calls, one slot     *)
(* each, whatever streams put under it at once: no entry stays for ever,   *)
(* and the ring stays within its slots.                                    *)
CacheMatchesRing == TypeOK /\ RingMatches(cache)

InAnswer(a) == adapter[a].state \in {"open", "failed", "eof", "closed"}

\* One [DONE] ends a stream, after one usage chunk at most.
OneEnding ==
  \A a \in Agents :
    /\ ~client[a].late /\ client[a].dones <= 1 /\ client[a].usages <= 1
    /\ adapter[a].state = "eof" =>
         client[a].dones = 1 /\ (adapter[a].start => client[a].usages = 1)

(* The tool calls an agent assembles from the fragments, which name their  *)
(* call by its index only, are those of the answer, each with its own      *)
(* arguments and in their order, in every state of the stream; and it ends *)
(* with one [DONE] and nothing behind it, whether message_stop, an error,  *)
(* or the end of the body came first.                                      *)
CallsDelivered ==
  /\ OneEnding
  /\ \A a \in Agents : InAnswer(a) =>
    LET blocks == Last(spoken[a])
        calls == client[a].calls
        place(k) == calls[k].id[3]
        name(i) == <<a, Turn(a), i>>
    IN /\ {calls[k].id : k \in DOMAIN calls} =
            {name(i) : i \in {j \in DOMAIN blocks :
                               blocks[j].type = "tool_use"}}
       /\ \A j, k \in DOMAIN calls : j < k => place(j) < place(k)
       /\ \A k \in DOMAIN calls :
            calls[k].args = IF blocks[place(k)].delta THEN <<calls[k].id>>
                            ELSE <<>>

TurnOf(b) ==
  IF b.type = "thinking" THEN <<b.name[2][1][1], b.name[2][1][2]>>
  ELSE <<b.name[1], b.name[2]>>

\* The places in a message of its thinking, and of the calls of a turn.
Replayed(content) == {j \in DOMAIN content : content[j].type \in Thinking}
CallsOf(content, turn) ==
  {j \in DOMAIN content : content[j].type = "tool_use"
                          /\ TurnOf(content[j]) = turn}

(* Thinking that is put back into a history is what the upstream signed,   *)
(* all of it, in order and once, under the message that made the calls,    *)
(* however often the calls were split, merged and evicted; and before the  *)
(* calls, if they were not split.                                          *)
FaithfulReplay ==
  \A a \in Agents : request[a] # <<>> =>
    \A i \in DOMAIN request[a].messages :
      LET content == request[a].messages[i].content
      IN \A j \in Replayed(content) :
           LET turn == TurnOf(content[j])
               mine == Picked(content, {k \in Replayed(content) :
                                          TurnOf(content[k]) = turn})
               whole == \E m \in DOMAIN history[a] :
                          Cardinality(CallsOf(content, turn)) =
                            Cardinality({k \in DOMAIN history[a][m].calls :
                              /\ history[a][m].calls[k][1] = turn[1]
                              /\ history[a][m].calls[k][2] = turn[2]})
           IN /\ turn[1] = a
              /\ mine = SignedBlocks(a, turn[2], spoken[a][turn[2]])
              /\ CallsOf(content, turn) # {}
              /\ whole => \A k \in CallsOf(content, turn) : j < k

(* A request is one Anthropic takes: roles alternate from a user message,  *)
(* a model that thinks gets no prefill, its budget fits in its tokens, no  *)
(* thinking is sent when it is disabled, and a result follows its call.    *)
RequestAccepted ==
  \A a \in Agents : request[a] # <<>> =>
    LET m == request[a].messages
        plan == request[a].plan
        Holds(i, type) == {m[i].content[j].name : j \in
                           {k \in DOMAIN m[i].content :
                              m[i].content[k].type = type}}
    IN /\ m[1].role = "user"
       /\ \A i \in 2 .. Len(m) :
            /\ m[i].role # m[i - 1].role
            /\ Holds(i, "tool_result") \subseteq Holds(i - 1, "tool_use")
            /\ Holds(i - 1, "tool_use") \subseteq Holds(i, "tool_result")
       /\ plan.thinks => Last(m).role = "user"
       /\ plan.type = "enabled" => plan.budget < plan.max
       /\ plan.type = "disabled" =>
            \A i \in DOMAIN m : Holds(i, "thinking") = {}
===============================================================================
