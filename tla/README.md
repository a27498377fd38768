# Aether, verified in TLA+

TLA+ models of the Aether framework (`src/aether`), the TLC configurations that
check them, and TLAPS proofs of their safety properties and of a refinement. Every definition is
translated from the source; `PROJECT.json` maps each one to its lines.

Aether is a single-threaded asyncio library. What is hard about it is not
parallel execution but *suspension*: whatever a coroutine left half-done before
an `await` is what every other coroutine finds, and at every `await` the call may
also be cancelled, fail, or (in a generator) be abandoned.

## 1. Inventory

| Component (source) | State | Operations | Interacts with | Model |
|---|---|---|---|---|
| Sessions (`memory/session.py`) | `_messages`, `_loaded`, `_lock` | `history`, `clear`, `add_message`, `complete`/`ask`, `stream`/`stream_text` | awaits the store and the client; shared by all callers of a session id | `Session`, `Conversation` |
| Session stores (`memory/contracts.py`, `extensions/memory/in_memory.py`) | id → messages | `load`, `save`, `delete` | called by sessions and by the application | in `Session` |
| Client, `complete` (`client.py`) | a working list per call | tool loop, request and tool events | provider, tools, event handlers | `ToolLoop`, `CompleteCall` |
| Client, `stream` (`client.py`) | a working list, `chunk_count` | the same as a generator, stream events | the same, and the consumer | `StreamLoop` |
| Client, rest (`client.py`) | session cache | constructor, `session`, `usage`, `on`/`off` | builds the provider stack | session cache in `Session`; chain and usage walk in `ProviderStack` |
| Circuit breaker (`extensions/llm/circuit_breaker.py`) | `state`, `failure_count`, `last_failure_time` | `complete`, `stream` | wraps a provider; shared by all calls | `CircuitBreaker` |
| Retrying (`extensions/llm/retrying.py`) | one `AsyncRetrying` object | `complete`, `stream` | wraps a provider; shared by all calls | `Retrying` |
| Cost tracking (`extensions/llm/cost_tracking.py`) | usage per model | `complete`, `stream`, totals | outermost decorator | `CostTracking`, `ProviderStack` |
| Builder, factory | none | compose Cost(Breaker(Retry(provider))), each optional | | `ProviderStack` |
| Event bus (`events.py`) | subscribers per event | `on`, `off`, `emit` | awaited by the client inside every call | `EventBus` |
| Adapters (`openai.py`, `gemini.py`) | none between calls | convert messages, offer tools, read replies | SDKs, tool registry | `OpenAIStream`, `GeminiStream`, `WireMessages`, `Adapters` |
| Tool registry, schemas (`registry.py`, `tools/registry.py`, `tools/schema.py`) | name → function and schema | `register_tool`, `get_tool`, `dispatch_tool`, `tool_schema` | read by adapters and by the tool loop | `ToolRegistry` |
| Configuration (`config.py`) | environment | typed getters with defaults | | only the iteration cap |
| Provider registry, fake provider, reference tools, facades | filled at import; a script; none | lookup, replay, one-shot I/O, re-exports | | not modelled |

What makes each correct:

- **Sessions.** A conversation is a sequence of whole turns. No interleaving,
  failure, cancellation or restart leaves half a turn in memory or in the
  store; what was acknowledged is saved and is seen by later calls; a failed turn
  leaves no trace; nobody waits for ever.
- **Tool loops.** Every request is a list that a provider accepts (each tool call
  answered once, in place); events come in brackets; a call ends within its cap.
- **Circuit breaker.** It opens only on consecutive failures, and closes once
  the provider has recovered, however calls straddle its transitions.
- **Retrying.** A call is tried at most `max_attempts` times, only after retryable
  failures, and ends as its own last attempt did.
- **Cost tracking, builder.** One exhausted call is one breaker failure, and one
  delivered answer is one record.
- **Event bus.** Whoever stays subscribed hears every event, in order, whatever
  the other handlers do.
- **Tool registry, schemas.** What the model is told of a function is what the
  function takes; a call goes to the function that has the name by then.
- **Adapters.** The loop gets the model's text and calls, once, in order and
  whole; the client is charged what the service reported; the list that goes out
  is one that the service accepts, with nothing lost.

The hazards, each at its line, are listed in `PROJECT.json`.

## 2. Modules

**`Transcript`** — messages (role and author), whole turns. The text of a message
is left out: no property looks at it. `Note` is whatever `add_message` injects.

**`Session`** — any number of `Session` objects (one per client) of one session
id over one store, and any number of calls. A call's `pc` is the `await` at which
it is suspended:

| `pc` | suspended in |
|---|---|
| `waiting` | `async with self._lock`, in FIFO order |
| `loading`, `read` | `store.load()`, before and after the store has read |
| `llm`, `yielded` | `client.complete`/`client.stream`; `yield chunk` |
| `saving`, `applied` | `store.save()`, before and after the store has written |

`Enter`, `Loaded`, `Respond` are the code between two awaits. `TurnRaises` is
`except BaseException`, the only handler of the module; `StoreRaises` has none.
A store may fail before or after its effect, and a `Restart` replaces a client at
any moment, losing its calls. With `InMemory` the store's coroutines never
suspend, which `Uninterrupted` states, and never fail.

**`Conversation`** — what a session promises: whole turns enter once; what is
written is the whole current conversation; recovery starts from what was written.
`SessionProps!ImplementsConversation` is the refinement: the abstract
conversation is `_messages` without the open question of a turn under way, or,
before the load, what the saved list stands for.

**`SessionProps`** — the properties of sessions and the inductive invariants of their proofs
(`LockInv`, `WholeInv`, `OneOnStore`, `CacheInv`, `TraceInv`, `SavedInv`). **`SessionProofs`** —
the proofs, the refinement among them.

**`ToolMessages`, `ToolLoop`, `StreamLoop`** — one `complete()` or `stream()` call
with its working list, its tool calls and the log of events. Each `await`
(handlers included: `emit` awaits them in line) is a suspension where the call
can be cancelled. The loops say when an event is emitted; `CompleteCall` says to whom.
`request` is a snapshot, since `LLMRequest` validates its
`messages` into a new list. A tool and a provider may raise at every call. The cap is any
integer: below zero `complete` ends in its assertion, and `stream` completes without asking anybody.

**`EventBus`** — the lists of handlers and one emission at a time: `snapshot` is the
copy that `emit` iterates, `called` how far it is. A handler that returns or raises an
`Exception` makes room for the next (`HandlerEnds`); `CancelledError` ends the
emission (`LeaveEmission`).

**`ToolRegistry`** — registered functions, of which the parameters are kept: name, how
they are passed, and whether there is a default. `Schema` is what `tool_schema` makes of
them, `Accepts` what Python makes of a call by keyword, and `Describes` says when the schema
of one function fits another (or itself).

**`CompleteCall`** — `ToolLoop` with the two: a step of the loop comes when the handlers
of the event before are through, and what it emits starts the next emission.
The adapters read the registry when they send a request (`Offer`, again at each
retry); `dispatch_tool` reads it again. `Change` is anybody, a handler or a tool
included, who subscribes, unsubscribes or registers while the call is suspended.

**`CircuitBreaker`** — callers that are admitted in one state and end in another.
`elapsed` is `time.time() - last_failure_time`, which can also go back.
`doomed` are the calls that the provider may still fail.
**`CircuitBreakerProofs`** — the proofs. (`RetryingProofs`, `ProviderStackProofs`,
`CompleteCallProofs`, `StreamLoopProofs`, `AdapterProofs` likewise; `ToolMessagesProofs`
has the lemmas that both loops share.)

**`Retrying`** — calls over the one `AsyncRetrying` object. `current` is the
object's `_retry_state`, named by the call that made it; `manager[c]` is the
state that the attempt of `c` reports to. The library is external: `Iterate` is
`AsyncRetrying.__anext__`, `Report` is `AttemptManager.__exit__`, which swallows
every exception, cancellations included.

**`ProviderStack`** — extends `Retrying` with an instance of `CircuitBreaker` over
the same calls, and the recording of usage around both. No `await` lies between the layers,
so a call is admitted in the step of its first attempt, and its end is at once the
end of the retries, a success, a failure or neither of the breaker, and a
record or none. A call that is failed fast changes nothing and has no step.

`chain` is which of breaker and cost tracking are there, and in which order:
what `build_provider` makes of its config, or the one order it never makes, which a
provider built by hand may have.

**`Reply`, `CostTracking`** — one reply on its way: each chunk that an adapter yields
passes the tracker, which notes its counts, and reaches the loop, which takes its calls
or else its text (`Yield`). `Drain`, `Leave`, `Respond` and `Raise` are its ends. `said` and
`reported` are history: what the service sent, before any conversion of the adapter.

**`OpenAIStream`** — extends `Reply` with `OpenAIProvider`. `buffers` are the
accumulators of streamed tool calls by index. The service is external; it opens
calls with or without an id, interleaves their pieces, puts text next to them, and may
say "tool_calls" again or end in the middle of a call. `form` is what the model writes for
each call's arguments: a JSON object, a text that is no JSON (`json.loads` raises, and the call
gets `{}`), or other JSON, which `ToolCall` refuses (`Raise`). A piece is its position in that
text, so that pieces out of order are not the text. `InOrder` is `sorted(buffers)`.

**`GeminiStream`** — extends `Reply` with `GeminiProvider`: chunks with text or with whole
function calls, whose ids are made from the names, and usage as running totals
of which either may be missing. `complete` counts 0 for a response without usage metadata
(`GeminiCompletes`) and fails where the metadata lack a count (`GeminiRaises`).

**`WireMessages`** — the conversions of message lists, as operators, what OpenAI
demands of a list (`OpenAIAccepts`), and what `gemini.py:84-86` relies on: that Gemini matches
responses and calls by name (`GeminiMatches`; in which contents the responses come is left
open). **`Adapters`** — a reply through either adapter, and the list that the
loop makes of it (`FollowUp`) converted again.

The operators marked *Slip* are mistakes one could make in the code next to the
definition they precede. No specification uses them; putting one in the place of
its definition must break a property, which is how the properties are tested.

## 3. Runs

| Run | Question | Size |
|---|---|---|
| `session_network` | One client, a store that suspends and fails, three calls: are conversations, requests and rollbacks whole, is what was acknowledged kept, does the session implement `Conversation`? | 136,823 states |
| `session_default` | The in-memory store, two clients, `history()` at any moment: is everything still whole? | 66,000 |
| `session_live` | Does every waiting call end? | 95,000 |
| `breaker` | Count and state agree; opens only on a streak; closes after recovery | 6,130 |
| `tools` | `complete()` over bus and registry: well-formed requests, each tool once, bracketed events that reach every steady handler, schemas that tell the truth, a caller's list that stays usable, an end within the cap | 940,631 |
| `stream` | The same for the generator, one start and one end, chunks as announced | 348,229 |
| `stack` | Retries that do not overlap: budget and outcome are the call's own; one failure per exhausted call, one record per delivered answer, in every chain | 927,094 |
| `adapters` | Do calls, text and usage arrive as the service sent them, and is a list that was in order followed by one that is? | 559,056 |
| `session_history_race`, `session_shared_store`, `stream_error_count`, `retry_overlapping` | expected violations: see findings | small |

Bounds, and why they suffice:

- *Three calls, one or two clients.* Two calls race; the third is the one that
  suffers (or cleans up) afterwards. Operations, order, failures and restarts are
  all free, so each pair of operations meets in each order.
- *A store that is empty or holds one older turn.* These are the two branches of
  `_ensure_loaded`.
- *Breaker*: threshold 2 separates "a failure" from "enough failures";
  three callers let two calls end while a third is admitted. `MaxCount` cuts the
  counter off one above the threshold, beyond which nothing looks; `MaxBack` and
  `MaxBacks` bound how far and how often the wall clock is set back.
- *Tools*: two calls per reply and a cap of 2, thus three requests: first, middle
  and last. Two handlers, as one must come and go while another stays, and one
  change per call, at any time. One tool name: a tool is affected only by what
  happens to its own. Three functions: with and without a default; one with `*args` besides, which can
  take the place of the first; and one with a positional-only parameter, which cannot, and
  which no call by keyword can serve.
- *Streams*: `MaxChunks` and `MaxCalls` are two each, so that chunks and calls come in
  both orders within one provider session.
- *Retrying*: three attempts, as by default, for the calls that overlap. *Stack*: two
  attempts, a first that may be followed by another and a last that may not, and a
  threshold of two, so that attempts counted as failures would open the circuit
  after one call; three calls, of which a stream may still be draining while the others
  fail. The clock is not set back here; `breaker` does that.

- *Adapters*: three slots, so that a call can be left out in the middle and the
  order of indices is not the order of arrival; `MaxPieces` is two, the least
  that can be interleaved; `MaxFinishes` is two, once and once more. Three Gemini
  chunks of up to two calls: running totals that grow twice, and calls of one function in
  one chunk and in two. Arguments take each
  of the three forms in each slot. `ShortPrompts` precedes the reply with all pairs of
  messages of each role, with and without text and call id, and with earlier rounds of two calls
  whose ids OpenAI gave, the adapter made up (and makes up again), or Gemini's adapter took from
  the names, each also followed by another message.

The models stop when their calls are over, hence `CHECK_DEADLOCK FALSE`, except
for the breaker, whose callers go on.

Fairness. `Session!FairSpec`: asyncio runs what can run, and awaited services
answer; a provider stream has a last chunk (strong fairness of `Respond`, as
chunks may come first). Nothing makes a consumer ask for the next chunk, so
`CallsEnd` excludes a stream that is held for ever: its lock is held as
well. `CircuitBreaker!FairSpec`: time passes, callers keep calling, and a caller
admitted over and over does not cancel each time. `ToolLoop`, `StreamLoop`:
handlers, tools and provider answer, one way or another; a consumer takes its
chunks or closes the generator. `CompleteCall!CallSpec` adds that each handler ends.

## 4. Findings

1. **`history()` races with turns** (`session_history_race`, `session.py:60`). It
   loads without the lock. With a store that really suspends, its stale list
   replaces the one a turn is working on; half a turn is then saved. The default
   store never suspends and is not affected (`session_default`, and the theorems'
   hypothesis `HistorySafe`).
2. **Overlapping calls share a retry state** (`retry_overlapping`,
   `retrying.py:46`). A call whose attempt failed can end without a retry, without
   an exception and with `None`, because another call has just succeeded; a
   cancelled call can be tried again. `session.py:103` then reads `.text` of
   `None` outside the `try` and leaves the question in the conversation.
3. **Clients that share a store do not see each other** after their first load
   (`session_shared_store`), and overwrite each other.
4. **`stream.error` counts a chunk that was not delivered**, if the stream stops
   while `stream.chunk` is being handled (`stream_error_count`).

Seen while reading, without a run: `AETHER_MAX_TOOL_ITERATIONS=-1` passes
`_int_env` and trips the assertion of `client.py:304` (`ToolLoop!Begin` has
that end); at the iteration cap the tools of the last reply are still run and
their results thrown away (`ToolLoop!GoOn`); a cancelled tool leaves `tool.start` without an end, as
`client.py:201` catches `Exception` only (`EventsBracketed` allows an open last
bracket); text streamed before tool calls is delivered although
`stream_text` promises the final answer only; a call that was admitted before
the circuit opened can close it from HALF_OPEN. A handler that raises
`CancelledError` breaks the request, although `events.py` says that observability never
does (`CallCancelled` while `called > 0`). Arguments that are no JSON become `{}` and the tool is run
with that (`openai.py:54-55`, `67-68`), while arguments that are JSON but no object fail the whole
reply; a stream that ends otherwise than with "tool_calls", at its length limit for one, loses the
calls it has begun. `GeminiProvider.complete` counts 0 without usage metadata, where `stream` counts
nothing. Parallel Gemini calls of one function have one id (`gemini.py:88`), though
`contracts.py:8-9` has ids match results with calls: their results are told apart by their order
only, which `GeminiWire` shows to be kept. A tool message without a call id is not sent to Gemini at all. A tool name that is not registered raises
`KeyError` inside the provider (`openai.py:44`, `gemini.py:67`), where it is retried and
counts as a failure of the service. Positional-only parameters are described to the
model but every call by keyword is refused, and a parameter named `self` is never
described (`ToolRegistry!Callable` sets both apart). `GeminiProvider.stream` drops text
that comes in one chunk with a function call, which `complete` keeps. A tool history
that OpenAI began and Gemini continues names its responses by OpenAI's call ids. A tool
that is registered anew between offer and dispatch gets arguments meant for the old one; unless its
parameters still fit the old schema, the call may be refused (`SchemaTellsTheTruth`).
`register_provider` validates `complete` but not `stream`.

## 5. Proofs

Every invariant and every safety property of the passing runs is also a theorem, for every
number of clients, calls, handlers, functions, chunks and pieces, every threshold and cap,
and every saved conversation. Caps are any integer, a negative one too.

| Module | Theorems | Hypotheses |
|---|---|---|
| `SessionProofs` | `TypeCorrect` | |
| | `ConversationsNeverCorrupted`, `RequestsAlwaysWhole`, `RollbacksAlwaysExact`, `NoTraceIsLeft`, `HistoryAlwaysReadable` | `HistorySafe` |
| | `AcknowledgedStaysSaved`, `PriorConversationSeen`, `SessionIsConversation` | `HistorySafe`, `OneSession` |
| `CircuitBreakerProofs` | `TypeCorrect`, `CountAlwaysMatches`, `OpensOnlyAfterThreshold` | |
| `RetryingProofs` | `TypeCorrect` | |
| | `RetriesBounded`, `OutcomeIsOwn` | `NoOverlap` |
| `ProviderStackProofs` | `StackTypeCorrect`, `UsageCountsAnswers` | |
| | `OnlyFailedCallsOpen`, `RetriesBoundedInStack` | `NoOverlap` |
| `CompleteCallProofs` | `LoopTypeCorrect`, `RequestsSendable`, `EachCallOnce`, `EventsInBrackets` of the loop; `CallRunsLoop`, `ListIsLeftWhole`, `SchemasAreTrue`, `SteadyHandlersHear` of the call over bus and registry | |
| `StreamLoopProofs` | `TypeCorrect`, `SessionsSendable`, `OneStream`, `ChunksAreAnnounced` | |
| `AdapterProofs` | `TextIsPreserved`, `UsageIsAsReported`, `CallsAreAsMade`, `NextRequestFitsOpenAI`, `NextRequestFitsGemini`, `NothingIsLostOnTheWay` | |

`ToolMessagesProofs` has what the proofs of both loops need of lists, counts and brackets.

**Hypotheses.** Without them the theorems are false, and a run shows it.

- `HistorySafe`: nobody uses `history()`, or the store never suspends, as the default one
  (`session_history_race`).
- `OneSession`: one client per store (`session_shared_store`).
- `NoOverlap`: no two calls are between their first and their last attempt at the same
  time (`retry_overlapping`).

**Assumptions on constants**, which TLC evaluates in the runs: `SessionAssumption` (the saved
conversations are whole turns, of authors that are not among the calls), `PriorAssumption`,
`BreakerAssumption`, `RetryingAssumption`, `StackAssumption`, `EventBusAssumption` (finitely
many handlers), `ToolLoopAssumption`, `ToolRegistryAssumption`, `CompleteCallAssumption`
(what is emitted is an event that one can subscribe to), `StreamLoopAssumption`,
`ReplyAssumption`, `OpenAIAssumption` (finitely many calls in a reply), `GeminiAssumption`,
and `PromptsAssumption`, which types the prompts: they are any lists of messages. What the
two request theorems ask of a prompt (that the service takes it already) is in the property itself,
prompt by prompt.

**Sessions.** The conclusions are not inductive. `LockInv` says that the lock is
one: past `waiting`, a call that takes it is at its head, so that two calls of
one session are never both in their critical section. Types need it already
(`Front` of `_messages` is a sequence only if there is a question to pop). `WholeInv`
says of each place where a list can be what it may contain: the store and a
session between turns are whole; during a turn `_messages` is what the call sent;
what was read or is being saved is whole; only unloaded sessions are being
loaded. `HistorySafe` is used once, where a load ends: no other call can have
begun a turn on that session. Each action is one step of the proof, with one step
per conjunct that it can disturb. `Rollback` follows because the list popped is
the one the call sent.

`TraceInv` is about each call that has said nothing so far, or whose question was taken
back: it is in no list at all that is, or may become, the conversation. That takes in the lists
that other calls have read or are saving, since a later step makes them the
conversation; the one exception is its own open question, at the end. `CacheInv` ties what is
being saved to what is in memory. `SavedInv` follows what a call has said along its
way: in memory when it is being saved, in the store once it is applied, in every
copy from its return on.

*Refinement.* `Seen` is the abstract conversation: `_messages` without an open question,
or, before the load, what the saved or the read list stands for. It takes the same
invariants to see that a load and the beginning, failure and cancellation of a turn are
stutters (the list that comes back is the one that was seen all along); that an answer
is one whole turn; that a save writes what is seen; and that a restart falls back
on what was written. Actions are taken one by one, each to its step of `Conversation`.

**Breaker.** `CountMatchesState` is inductive by itself; opening needs that
`failure_count` never exceeds `streak`.

**Retrying, stack.** `RetryInv` adds to the types that the one shared state is the own one
of the call that is between its attempts, and that it counts its failures
(`AttemptsCounted`); and what is left of a call that has ended is its own last attempt
(`EndKept`). This is what overlapping calls break. In the stack, `FailuresAreCalls`
bounds `failure_count` by the calls that failed for good: a step of the breaker adds one
to both. Calls are as many as one likes, so it has to be an invariant that only finitely many have begun
(`ChargeInv`). `RecordsAreAnswers` needs none of the retries, hence
`UsageCountsAnswers` without `NoOverlap`. The breaker's own invariant is reused through an
instance of `CircuitBreakerProofs`.

**Loops.** `ListInv`: the working list followed by the results of the calls in `todo` is a
list that a provider accepts (`ResolvedAfter`). Appending a request and its `todo`, and
moving one call from `todo` to the list, both keep it (`RequestAppended`,
`ResultAppended`), so that it holds in the middle of a reply, where `RequestsResolved` alone says
nothing. `EventInv` and `LogInv` say which event is open in each suspension; `CountInv`
relates `chunk_count`, the log and what was delivered. `CallRunsLoop` shows that a call over
bus and registry, if one forgets these two, is a behaviour of `ToolLoop`, and so takes over its
theorems. `BusInv`: a steady handler is exactly once in each list, and has heard the whole log as soon
as its turn in the snapshot has come, and all but the last event before. It must hold
while other handlers subscribe and unsubscribe in the middle of the emission. `SchemaInv`: what
was offered was described by `Schema` and is still registered, as that function or another, and a
call that is made fits what was described. `SchemasAreTrue` has two halves: a function whose
parameters can be given by name is described by its own schema (`DescribedAsCallable`), and
whatever function a schema describes takes the calls that keep to it (`FittingTakesCalls`).

**Adapters.** `OpenAIInv`: until the calls are given out, the buffers are the prefixes of
what was sent, of each call that was opened and of no other; afterwards they are empty, and the
calls given out are those, in the order of their indices, or none, if the arguments of one are JSON
but no object. `GeminiInv`, `UsageInv` and `TextInv` are accordingly. The rest is about conversions of lists of every length. Induction is not out of reach
altogether: `LeastElement` and `Induction` say it of a *set* of numbers, not of a predicate,
and follow from the well-foundedness of the naturals. From these come what `FlattenSeq`, the
fold beneath each conversion, does to a concatenation (`FlattenConcat`), that there is a
sorted list of every finite set of indices (`InOrderExists`, for `sorted(buffers)`), and that Gemini's
format keeps all text (`ListKept`, by induction on the list).

**Only model-checked:** liveness, which under fairness is out of reach of TLAPS: `CallsEnd` of
sessions, `CallEnds` of `complete`, `StreamEnds`, and `ClosesAfterRecovery` of the
breaker. The four findings are counterexamples of TLC.

## 6. Abstractions and what is left out

- A save that a dead client had sent does not reach the store later, and a
  cancelled save is either applied or not when the call ends. A
  network store could apply it after the next client has loaded.
- A message's author stands for its text; `add_message` of a message whose role
  is `user` or `assistant` is a `Note`, since the caller decided to bypass turns.
- A tool, handler or consumer that calls the *same* session again waits for a lock
  that its own call holds: certain, not a matter of interleaving, and not modelled.
- Threads: the code is for one event loop.
- Tools: types and descriptions in schemas, which nothing enforces when a tool is called;
  the text of arguments and results.
- A call has its working list, and the caller's, for itself.
- The handlers of a stream's events: `StreamLoop` has the emissions only.
- A provider stack without retries; prices and totals of usage, which are
  sums over the records.
- Construction from the environment (name, key, model) and the registry of provider
  classes: straight-line lookups that happen once, before there is a client.
- `FakeProvider` is a test double, and reference tools and facades have no state.

## 7. Plan

Done: sessions, both tool loops, event bus, tool registry, breaker, retrying, every chain
of decorators over the retries, both adapters; a theorem for each of their safety properties.
Next, in this order:

1. A session over the stack, for what a `None` from overlapping retries does to a
   conversation.
2. `StreamLoop` over the bus, with `SteadyHandlersHear` for a stream.
3. Without `NoOverlap`: what remains true of calls whose retries overlap, beyond their types
   and their records.
