# Nacho Flow: TLA+ models, model checking and proofs

Nacho Flow is a Go gateway (one daemon, `cmd/nacho-flow`) that speaks the
OpenAI chat-completions protocol to coding agents. For each turn it chooses a
tier (a provider and a model), forwards the request, watches the answer for
loops and for "thinking without acting", falls back to another tier when
something goes wrong, and records what the turn cost. This directory holds TLA+
models of its control logic, TLC configurations that check them on small
instances, and TLAPS proofs for every instance.

Paths below are relative to the repository root; line numbers refer to the
commit that `PROJECT.json` maps.

1. [How to run](#1-how-to-run)
2. [Inventory of the system](#2-inventory-of-the-system)
3. [What is hard to test here](#3-what-is-hard-to-test-here)
4. [The modules](#4-the-modules)
5. [The runs, their bounds and what they show](#5-the-runs-their-bounds-and-what-they-show)
6. [Fairness](#6-fairness)
7. [What is proved](#7-what-is-proved)
8. [Where the code and its documents disagree](#8-where-the-code-and-its-documents-disagree)
9. [What is not modelled](#9-what-is-not-modelled)
10. [Plan](#10-plan)

## 1. How to run

    tlc -workers 2 -config Dispatch.cfg MCDispatch.tla
    tlapm DispatchProofs.tla

`PROJECT.json` lists the runs (module, cfg, expected outcome), the mutants that
show each property can fail, the source lines of every definition, the hazards
and the theorems. A *mutant* is a definition beside the real one with the body
a plausible slip would have given it (a dropped guard, a late comparison, a
missing reset); with it in place of the real one TLC finds the named property
violated under the same configuration. Mutants are commented `Mutant:` and used
by nothing else.

## 2. Inventory of the system

| Component | State it keeps | Operations | Interacts with |
|---|---|---|---|
| Provider circuit breaker, `pkg/provider/circuit_breaker.go` | atomic `state`, `failures`, `lastFailureUnix`; a mutex | `AllowRequest`, `RecordSuccess`, `RecordFailure`, `Reset` | called by dispatch for every upstream call, reset by the management API |
| Configuration lifecycle, `pkg/server/api.go`, `pkg/server/circuit_breaker.go`, watcher in `cmd/nacho-flow/main.go` | the runtime-state pointer, `config.yaml` and its backups, the stamp of the last own write, the watchdog (memento, error count, timers) | `PutConfig`, `ApplyConfig`, `ReloadConfigFromDisk`, the one-second file poll, `recordProxyError`/`recordProxySuccess`, restart | every request reads the pointer; dispatch feeds the watchdog |
| Turn dispatch, `pkg/server/dispatch*.go`, `thought_slap.go`, `cycle_recovery.go` | per turn: tier, `isFallback`, `CycleRetries`, `ThoughtSlapAttempts` | `dispatchTier`, `handleStreaming`, `handleNonStreaming`, `executeThoughtSlapRecoveryStream` | breakers, watchdog, session tracker, telemetry, providers; reads the configuration at several points |
| Session tracker, `pkg/router/session.go` | a mutex-protected map of at most 10000 sessions: retries, escalation count, kickstart counters, cooldowns, retry floor, write count, fairy-dust counts, guardrail switches | 25 exported methods, each one critical section | called by the pipeline before a turn and by dispatch during it |
| Request pipeline, `pkg/server/pipeline.go`, `meta_registry.go`, `pkg/strategy/expr_evaluator.go` | none of its own between turns; a `reqCtx` per turn | meta directives, guardrails, turn recording, read slap, fairy dust, tier selection, anti-latching, prompt injection | session tracker (up to 8 calls a turn), dispatch |
| Stream normalizer, `pkg/server/stream_normalizer.go` | per answer: what has been seen (content, tool calls, reasoning), a pending part of a delimiter, the held terminal chunk, pooled buffers, a cycle breaker | `Read`, `processLine`, `processChunkLine`, `handleDone`, `Close` | reads the upstream body, feeds the client through `handleStreaming`; the thought slap reads its verdict and opens one for each recovery stream |
| Cycle breaker and agent shield, `pkg/router/shield` | pooled n-gram counters per lane, tail buffer | `Observe`, `Reset`, pool get/put | used by the normalizer and by dispatch |
| Classifier, directives, sanitizer, tool normalizer, `pkg/router` | none | text and JSON scanning of a request | produces `reqCtx` |
| Telemetry, `pkg/telemetry`, `pkg/store`, `pkg/server/telemetry.go` | bounded queue, counters and time windows, ring buffer, subscribers, traffic log, saved snapshot | `Record`, the worker, `Reset`, `RecalculateFromRecordsAt`, `Flush`, `Close`, `Subscribe`/`Publish`, `Load`/`Save` | fed by every turn; management API and SSE clients read it |
| Pricing oracle and curated catalogue, `pkg/telemetry/pricing.go`, `curation` | price tables, the catalogue and its index, sync state | background sync, lookup, `CandidateModelsForPlatform`, `ParetoCandidates` | telemetry records; the tuner asks it for candidates |
| Directive control plane, `pkg/server/api_directive.go`, `cmd/nacho-flow/directive.go` | a directive file consumed at start | shutdown, cold purge, recalculation | telemetry stores, restart |
| Providers, `pkg/provider` | registry; the Anthropic provider keeps the signed thinking of recent tool calls in a ring shared by its requests | translation of requests, of whole answers and of streams; rehydration of thinking | dispatch |
| Noise-token suppression, `pkg/nts` | none: each request carries the whole history | eviction of superseded reads, pruning of reasoning, compaction of tool outputs, references to duplicates, reminder tables | pipeline, before a request is forwarded |
| Auto-tuner, `pkg/tuner`, `pkg/server/tuning_runner.go` | per run (a child process): the cascade searched from, the best one and its conflict, tabu memory, evaluation buffers | replay and attribution of recorded sessions, repair by least conflict, sweep for cheaper models, rewriting of `when` rules, applying | traffic log, catalogue, configuration |
| Editor extension, `extension/src` | the daemon's process, SSE connection, UI state | start, adopt, stop, reconnect | the daemon's HTTP API |
| Tools, benchmarks, site | - | - | not part of the running system |

The concurrency is Go's: one goroutine per HTTP request; background goroutines
for the file watcher, the telemetry worker, the traffic-log worker, the
periodic save and the syncs; `time.AfterFunc` timers; and, in streaming turns,
a keep-alive goroutine. What they share is protected by atomics and by mutexes
that are held for single method calls. Almost every multi-step operation
(an update of the configuration, the bookkeeping of a turn) runs with no lock
held across its steps, and that is where the properties below are aimed.

What makes each component correct:

* **Breaker**: a provider that has failed `failureThreshold` times is cut off
  whatever unlocked accesses interleave; a closed breaker is never probed; no
  call hangs; an open breaker is tried again.
* **Configuration**: the running document is the one on disk; an overwritten
  document is backed up; the mask of a known key never becomes a key; an edit is
  loaded;
  a roll-back goes back to an older configuration.
* **Dispatch**: the recursion ends, its cost is bounded, the client gets exactly
  one response head, a breaker hears of a call once, telemetry of an answered
  turn once.
* **Session tracker**: bounded table; a live session is dropped only when
  nothing else can make room.
* **Pipeline**: the caps the user is promised (frontier turns, injected
  prompts, checkpoints) hold for concurrent turns of one session, and a killed
  turn escalates.
* **Normalizer and recovery**: one `[DONE]` at most and nothing after it; a
  request to try again only while nothing has been said; every pooled buffer
  given back and every reported usage counted, however the turn ends.
* **Anthropic provider**: the agent assembles the calls the upstream made, each
  with its own arguments; thinking is put back as it was signed; the request is
  one Anthropic accepts; the cache keeps to its slots.
* **Noise-token suppression**: what the model still needs (the current state of a
  file, failures, the reasoning of a failing run, the text a reference stands
  for) reaches it, and a later request never brings back what an earlier one cut.
* **Auto-tuner**: the cascade remembered as best has the conflict remembered with
  it; no repair makes the fleet worse or breaks what a filter protects; the rule
  that is written means what was asked for and keeps the clauses the tuner does
  not manage.
* **Telemetry**: nothing counted or listed twice; an orderly stop loses no record
  and ends; a closed queue is not written to; the saved totals follow the running
  ones; a purge takes nothing recorded after it.

## 3. What is hard to test here

`PROJECT.json` "hazards" lists each at its line. In short: unlocked reads of the
breaker's state and stamp; `ApplyConfig`, documented as atomic, as a sequence of
eight steps; a watchdog fed by requests of the previous configuration and
disarmed by timers of an earlier one; a call graph that re-enters itself from
four places while the configuration changes under it; a pooled object read after
it was returned; session methods that each lock but do not lock together;
expiry noticed only by one of them; caps tested in one critical section and
counted in another; a telemetry worker whose steps a recalculation can fall
between; a stop that runs while handlers outlive it; a purge that a crash repeats;
a terminal chunk that four places may hold, drop or end the stream with; a cache
of thinking that requests fill call by call while others read it; passes that
overwrite the buffer they read; histories whose messages become stale through
messages that come later; a search that swaps two buffers for hundreds of steps
and remembers a number with one of them; limits that are read from a rule, tuned
and written back into it.

## 4. The modules

`CircuitBreaker`, `ConfigLifecycle`, `Dispatch` and `SessionTracker` model one
component each. `TurnPipeline` composes the session tracker (it EXTENDS it and uses
its operations as sub-actions) with the pipeline and with the calls a dispatched
turn makes back; `Telemetry` composes the stats tracker with its sinks, the stores,
the management requests that rewrite them and the daemon's start and stop;
`StreamTurn` the normalizer with the handler that reads it and the slap that opens
more of them, and implements `ClientStream`; `AnthropicProvider` the requests of a
provider with its `ThinkingCache`; `MinConflicts` the tuner's search with
`FleetReplay`, `CuratedCandidates` and `RoutingRules`. `MC...` modules give
constants their values; `...Proofs` modules hold theorems.

### CircuitBreaker

`state`, `failures`, `age` are the breaker's atomics, `mu` its mutex; `pc`,
`fails` and `seenAge` are each goroutine's position and locals.
`AllowRequest` is four actions (`AllowLoadState`, `AllowLoadLast`, `AllowSince`,
`AllowProbe`: load the state, load the stamp, compare, lock and re-check);
`RecordSuccess` is two branches, of which `SuccessStoreZero` runs without the
mutex; `RecordFailure` is three (`FailureCall`, `FailureCount`, `FailureTrip`),
because the unlocked reset may fall between its `Add` and its comparison;
`Reset` is two. A time stamp is represented by its age, saturated at the
cooldown, and the failure count saturates at the threshold: the code only
compares them with these.

### ConfigLifecycle

`job[a]` is an `ApplyConfig` in progress, with the document, its raw and its
merged key, and the memento it has loaded. `PutConfig`, `WriteBackup` or
`BackupFails`, `AtomicWrite` or `AtomicWriteFails`, `StampWrite` belong to the
update handler; `WatchStart`, `WatchStat`, `WatchDecide`, `ReloadConfigFromDisk`
to the watcher; `LoadMemento`, `SwapState`, `ArmWatchdog` to both. `TimerFires` is the
30-second `AfterFunc`; `timers` keeps one entry per arming because the code
starts a timer per arming and stops none. `RecordProxyError` and
`RecordProxySuccess` come from requests in flight. `Restart` reads the file
again; the watcher takes its first `os.Stat` in a later step (`WatchStart`), with
the modification that was loaded kept in its job. A document is a number and its
entry for one provider: `"absent"`, named without a key (`"none"`), `"key"`, or
`"mask"` (the placeholder that `GET /api/v1/config` shows); `MergeSecrets` treats
them as the code does. Two history variables: `stray` (a placeholder has come in
that stood for no key of the gateway) and `missed` (the modification that the
watcher took for the loaded one). Documents the
validator rejects change nothing in a PUT and are left out of it; an edited file
may be unloadable.

### Dispatch

One turn. `tier`, `hop` (`isFallback`), `dflt` (the default tier read on entry),
`retries`, `slaps` are the arguments and the request context; `allowed`,
`recTier` and `attempts` belong to the recovery loop; `calls`, `verdicts`,
`watchdog`, `heads`, `telemetry`, `slapped` and `killed` count what the turn does
to its surroundings. Each outcome the code tells apart is an action: 27 of them
in `DispatchStep`, `StreamStep`, `RecoveryStep` and `UnaryStep`. `Reload`
replaces the configuration at any moment, so that what is read on entry and what
is read by a handler may differ, as in the code. `PooledLimits` is what the
handler can read from the cycle breaker after `Close` has put it back in the
pool.

### SessionTracker

`sessions` is the map, `now` the clock of TTLs and cooldowns. Each method is an
operator that is an action on `sessions`; what a method returns is an operator
beside it (`TurnRetries`, `BudgetExhausted`, `Kickstarted`, `DustDue`, ...).
`EvictExpiredOrOldest` yields what may be left after an eviction; the code drops
the first session that Go's map iteration yields, so every live one is possible.
`TrackerSpec` is the tracker on its own, called in any order with any turns and
limits; `MCSessionTracker` gives TLC the part of it with two turns, one value for
every limit and `MaxCalls` calls. The theorem about it stands in
`TurnPipelineProofs`, with those about the pipeline that calls it.

### TurnPipeline

`turn[r]` is the `reqCtx` of the request a goroutine serves. A turn is
`Arrive`; `MetaDebounce`, `MetaExecute` or `ToggleGuardrail`;
`ReadGuardrails`, `RecordTurn`, `ReadCooldowns`, `ReadSlap`; `DustGuardrail`,
`RecordWrites`, one `CheckEntry` per fairy-dust entry; `ResolveTarget`,
`ForcedProvider`, `InjectPrompts`; and, while it is dispatched, `CycleKill`,
`ThoughtSlap` and `Answered`. Each holds the tracker's lock once; between two of
them any other turn of the session may run. What the classifier finds in a
request is an input (`Input`); which tier expressions match is open. The
variables of `history` (`frontier`, `rescued`, `slapped`, `owed`, `dusted`,
`carried`) belong to no code: they record, for the properties, what was sent
rather than what was counted. A checkpoint chosen before its session expired or was
reset is `carried`: it is sent after that and counts for neither life of the
session.

### Telemetry

`queue`, `open`, `worker` and `stats` are the `StatsTracker`: `obsChan`, whether it
is still open, the worker's stage and turn, and how often each turn is counted in
the totals. `ring` is the `RingBufferSink`; `logQueue`, `logBuffer` and `file` are
the `TrafficLogger`'s queue, its buffered writer and `traffic.jsonl`; `saved` is
`stats.json`, `saver` the one-minute sync. A turn is its place in the queue.
`Record` is the non-blocking send with its three outcomes; the worker is
`WorkerReceive` and one action per stage of `WorkerStages` (count, ring, log, the
order of `AddSink`). A management request, `admin`, goes through the steps of its
handler: `ResetStats`, or `ReadRecords` and `RecalculateFromRecords`; `ResetRing`;
one `ReplayRecord` per record; `AdminSnapshot`; `AdminSaves`. `mode` is where the
daemon is: the steps of `Stop` (`ShutdownDone` or `ShutdownTimeout`,
`StopSnapshot`, `StopSaves`, `CloseTracker`, `WorkerDone`, `CloseLog`), `Exit`
(the `os.Exit` of the shutdown and purge directives, or a crash), and the start
(`Boot`, `RotateLogs`, `RemoveStats`, `WipeDirective`, `Load`). An SSE stream is a
request that ends unrecorded. Any `Save` may fail and leave the file as it was.
`history` belongs to no code.
### ClientStream and StreamTurn

`ClientStream` is what a streaming turn promises its client: chunks, a request to
act (a thought slap) only while nothing has been said and only so often, one
`[DONE]` at most, and nothing after it. `StreamTurn` is how the code keeps that:
one streaming answer through the normalizer, the peek, the relay and the recovery
streams of a thought slap. `KeepsPromise` states the refinement.

`norm` is the normalizer being read, the first or the one of the last recovery
stream: what it has seen (`content`, `tools`, `thinking`, `native`), the part of a
delimiter it keeps back (`pending`), the terminal chunk it holds (`finish`,
`held`), what it will deliver (`out`), and how it ended. A line of the upstream is
a `Line`, by what `processLine` tells apart: a data chunk may join reasoning,
text, a tool call, a finish_reason and usage, in any combination, and it is held
only when its finish_reason comes without reasoning or text. `Lines` are those an
upstream may send: any of them for the theorems, 23 for TLC. `ProcessLine`,
`DataLine`, `ChunkPart`, `ReasonPart`, `ContentPart`, `HandleDone`,
`FlushPendingDelimiter` and `FlushHeldTerminal` are functions of `norm`. A call of
`Read` is two steps, `ReadLine` (or `ReadEnd`, `ReadError`) and the delivery
(`Peek`, `Relay`, `RelayRecovery`, `RecoveryEnds`), because the caller asks the
cycle breaker in between. `phase` is the position of `handleStreaming`: peek, judge,
relay, after, slap, wait, rescue, verdict, and closed or handed over to another
tier. `KeepAlive` is the goroutine that writes comments while a recovery is awaited.
`client` is what was sent; `unclosed`, `reported` and `tallied` follow buffers and
usage. `EndsTwice` describes the two streams for which the code does send a second
`[DONE]` (section 8); `OneDone` says that there are no others. Two things are
assumed of an upstream: it sends nothing after its `[DONE]`, and one finish_reason
at most.

### ThinkingCache and AnthropicProvider

`ThinkingCache` is the ring of signed thinking, with `Put` and `Get` as the code
runs them under its lock. `AnthropicProvider` has agents that keep a conversation
each (`history`), and one provider they share: `work` is a request being built
(`BuildUpstreamRequest` and `SendRequest` are two steps, because the passes over
the messages read the cache that others write), `request` the last one sent,
`adapter` the stream adapter with its state, block index and pending stop reason,
`client` what the agent has assembled from the fragments. A stream is its events
in any order the protocol of Anthropic permits, cut off at any of them; a whole
answer is one step of translation, then `FlushNext`, one put into the cache per
call. Some agents keep reasoning in their history, some split the parallel calls
of a turn into messages of their own. Anthropic itself (which events it sends,
which requests it takes) is external.

### Suppression and LinePasses

`Suppression` plays a conversation: `Answer`, `Result` and `Prompt` append to
`history`, and each request sends `sent`, a function of the whole history and the
settings, as in the code, which keeps no state between requests. The functions are
the passes: the backward scan for superseded reads (with its table of 256 files and
its counters of eight bits), the budget of weighty reasoning with hysteresis,
kickoff and failing tail, reminder tables, compaction, references to duplicates.
The last line pass is the one that needs a machine: `LinePasses` runs it in place,
with write and read cursors `w` and `r` over `buf`, since a line that is compared
with may lie where the pass has written. The passes before it only drop symbols and
are functions.

`keep` is `keep_recent_reasoning_turns`: a negative value asks the agent's profile
(`retention`), then the catalogue's low watermark, and only zero keeps none.

`MCSuppression` runs one of both: a behaviour plays one scene, or runs the passes
over one text.

### RoutingRules, CuratedCandidates, FleetReplay, MinConflicts

The auto-tuner, bottom up. `RoutingRules` is a `when` rule as the tuner reads it
(`Extract`: the limits it can replay) and writes it (limits put around the clauses
it does not manage), against what the rule means to the expression engine
(`RuleHolds`). `CuratedCandidates` is the catalogue's choice of models that may
replace one on a platform. `FleetReplay` routes recorded sessions through a
candidate cascade and computes costs, the blame of each variable and the conflict
that is minimised. `MinConflicts` is the search: `Begin` (or `HandleEmptyRecords`),
`Repair` (blame, candidates, least conflict, tabu memory), `Converge`, one
`SweepTier` per tier, `SynthesizeTuningResult`, `ApplyTuning`. `current` and `best`
are the two configurations, `evalBuf` the scratch one they are swapped with,
`bestConflict` the number that must go with `best`.

`MCTuner` runs one of both: a behaviour searches one scene (a cascade and a fleet),
or rewrites one rule.

## 5. The runs, their bounds and what they show

Eleven runs pass; one ends in a violation of what a comment says (section 8).
Numbers are distinct states.

| Run | Instance | Checks |
|---|---|---|
| `breaker` (28 k) | 2 goroutines, threshold 2, cooldown 2 ticks, `TrafficSpec` | `ClosedBelowThreshold`, `ClosedNeverProbed`, `Recovers` |
| `config_put` (3.2 M) | 1 update handler, 1 request in flight at a time, 3 documents with any entry, roll-back after 2 errors, backups and writes that fail, 1 restart | `ActiveKeyNeverMasked`, `MemoryMatchesDisk`, `OverwrittenIsBackedUp` |
| `config_watch` (639 k) | the watcher and 1 update handler, 2 documents written by either, 1 restart, 1 request, roll-back after 1 error, `FairSpec` | `EditsApplied` |
| `dispatch` (393 k) | 3 tiers, 3 configurations (one without a default tier, one whose default is local), reload at any moment, `FairSpec` | `CallsBounded`, `OneResponse`, `AnswersRecordedOnce`, `OneVerdictPerCall`, `TurnEnds` |
| `session_table` (767 k) | 3 keys, room for 2, 4 calls of any method, clock to 3, TTL 1 | `RoomIsMade` |
| `pipeline` (1.1 M) | 2 concurrent requests; 3 turns of 4 kinds, 3 turns of 2 kinds with TTL 0 and clock 1, or 2 turns of any of 15 kinds; budget 2, slap threshold 1, 2 fairy-dust entries | `FrontierCapped`, `KilledTurnEscalates`, `PromptsCapped` |
| `telemetry` (512 k) | 2 turns of 2 sessions, 1 management request, 3 starts, queues of 1, a ring of 2, `FairSpec` | `CountedOnce`, `NoRecordAfterClose`, `LogComplete`, `PurgeSparesLater`, `SavedCatchesUp`, `StopReturns` |
| `stream_turn` (621 k) | one answer of any length, 23 kinds of lines, 2 events in the peek, 2 slaps, a cap of 4 calls, 0 or 2 retries behind it, `FairSpec` | `OneDone`, `NothingLeaks`, `KeepsPromise`, `StreamEnds` |
| `provider` (772 k) | 2 agents, one streaming and one splitting its calls, a ring of 3, 1 recent turn kept | `CacheMatchesRing`, `CallsDelivered`, `FaithfulReplay`, `RequestAccepted` |
| `suppression` (362 k) | 9 scenes of 5 to 10 messages, and every text of three groups of lines | `ReadsCurrent`, `ReferencesResolve`, `ReasoningWhereNeeded`, `TurnsIntact`, `LinesKept`, `VerdictsStay` |
| `tuner` (13 k) | 9 cascades under 5 fleets, every order of repair; every rule of up to 3 clauses with every kind of limits | `BestIsBest`, `RepairsSound`, `ResultSound`, `RuleWritten` |
| `lines_shifted` | texts of two groups of repeated lines | `LinesVerbatim` violated |

Why these bounds are enough to be of use:

* **breaker**. The races are between two calls: one in an unlocked section and
  one that changes the breaker. Two goroutines give every such pair; threshold 2
  lets a failure count without tripping, cooldown 2 lets time pass inside one.
  The safety properties are also proved for any number of goroutines.
* **config_put**. Three documents are what a roll-back across two updates needs;
  with `PerSecond` 4 and clock 5 two updates fall into one second and into two.
  One handler: with two, `MemoryMatchesDisk` fails (section 8).
* **config_watch**. Two documents: two edits, or an edit and an own write, so
  that one may fall between any two steps of the watcher's pass over the other,
  between write and stamp, within the 100 ms after it or later (`OwnWindow` 2,
  clock to 4), and before the watcher's first look. The property names the two
  kinds of edit that are lost (section 8). The entries do not matter here.
* **dispatch**. The configurations differ in everything `dispatchTier` branches
  on: a registered provider, a local one, a default tier, a rescue tier, the
  retry and slap limits. The turn needs no other bound: what it counts is finite
  because the recursion is, which `TurnEnds` confirms. One turn at a time is
  enough, as turns meet only in the components that have modules of their own
  and in the pool that `PooledLimits` opens.
* **session_table**. A third key forces an eviction, four calls fill the table,
  age one of its sessions and add one; clock 3 with TTL 1 lets one session
  expire while the other is live. Table calls do not depend on the other
  parameters (one model, entry, directive and switch).
* **pipeline**. A behaviour has one of three shapes. "long": caps of 1 and 2 are
  passed by a third turn if they can be passed at all, so three turns of the kinds
  that raise them (a stall, a write, a new task) or clear them (a reset), with
  cycle kills. "aged": three turns that stall or reset, and with TTL 0 the one tick
  of the clock expires the session between any two steps of its turns. "wide": two
  turns of any kind, so that every disjunct of the pipeline meets every other. Two
  requests at a time give the races between a test and the count it relies on; they
  are interchangeable (`SYMMETRY`).
* **telemetry**. Two turns: one may be in the worker's hand or in a buffer while
  the other is queued, replayed or dropped; queues of 1 overflow. Three starts are
  what a purge that is repeated after a crash, with a turn recorded in between,
  needs. One management request at a time: with two recalculations at once the
  ring may list a turn twice (section 8).
* **stream_turn**. Streams have no bound: a normalizer notes a fixed set of facts,
  and the run reaches every combination. The lines are each kind, each part of a
  chunk alone, and a finish_reason joined with reasoning, a part of a delimiter,
  prose, a tool call or usage. Two events in the peek: a terminal may
  fall into it, behind it, or the peek may end before it. Two slaps give a first, a
  repeated and an exhausted recovery; retries 0 and 2 lie on either side of the cap
  of calls. Both safety theorems hold for any of these.
* **provider**. Fewer slots (3) than calls: entries are evicted while requests
  that need them are built. Two agents are what the shared ring needs. An answer
  has up to four blocks, so that thinking may precede, separate and follow calls.
* **suppression**. Each scene is one concern with the messages that bear on it; its
  length lets a read be superseded, a reasoning budget fill twice, a table be
  refreshed. Reminder tables come in prompts (`Outputs`) and in results that are
  evicted or replaced (`Tables`); the retention comes from the setting, the
  profile and the catalogue; `Shapes` strips all reasoning from every shape of
  message, the ones left empty included. The limits of the code (512 messages, 256
  files, 256 reads) are not reached; section 8 says what happens there. The texts
  have groups of one to four repeats around the threshold of 3, every short control
  sequence, and every three report lines.
* **tuner**. The cascades hold what the filters tell apart: local and cloud,
  effort ladders (one without a lower effort), frontier tiers, gates on pictures
  and phases, a cloud-only role, a memory limit, a bargain outside the catalogue,
  two deals that tie one after the other. The 150 iterations are the
  code's.

Bounds that the code does not have: `MaxDoc`, `MaxClock`, `MaxEdits`,
`MaxRestarts` (ConfigLifecycle), `MaxClock` (SessionTracker), `MaxCalls`
(MCSessionTracker), `MaxTurns` and `MaxThoughtSlaps` (TurnPipeline), `MaxTurns`,
`MaxServing`, `MaxAdmin` and `MaxBoots` (Telemetry), `MaxPeek` (StreamTurn: events
instead of bytes), `MaxTurns` and `MaxBlocks` (AnthropicProvider), the `length` of a
scene (MCSuppression). A run whose system stops at these bounds, or ends by its
nature (an answer, a text, a search), has `CHECK_DEADLOCK FALSE`: `session_table`,
`pipeline`, `telemetry`, `stream_turn`, `provider`, `suppression`, `tuner`,
`lines_shifted`. The others need none: `Tick`, `Reload` or a request can always
happen.

What each property says (the type invariant of a module is a conjunct of one of
its properties; those of `CircuitBreaker` and `ConfigLifecycle` are proved):

* `ClosedBelowThreshold`: a closed breaker has counted fewer failures than the
  threshold, except while the failure that trips it is being recorded.
  `ClosedNeverProbed`: a stale reading of "open" never moves a closed breaker to
  half-open. `Recovers`: no caller waits for ever, and once failures stop, an open
  breaker is probed.
* `ActiveKeyNeverMasked`: neither the running state nor the memento holds the
  placeholder, unless a document has masked the key of a provider the running
  configuration lacked or a start has read the placeholder from the file.
  `MemoryMatchesDisk`: with no update under way and the watcher caught up, the
  running document is the one on disk, unless the watchdog has gone back to an
  older one; with what is written between a start's load and the watcher's first
  look the watcher never catches up. `OverwrittenIsBackedUp`: if the reply will name a
  backup, the document being overwritten is in one. `EditsApplied`: a loadable
  edit becomes the running document unless it is overwritten, lies within 100 ms
  after an own write, or falls between a start's load and the watcher's first
  look.
* `CallsBounded`: the upstream calls of a turn are at most
  `2 * (1 + retries + slaps) + MaxTurnCalls`. `OneResponse`: one response head,
  and one by the end. `AnswersRecordedOnce`: one telemetry record for an answered
  turn and none for an error. `OneVerdictPerCall`: breaker and watchdog hear of a
  call at most once. `TurnEnds`: the recursion terminates.
* `RoomIsMade`: the table never exceeds `MaxSessions`, and a new session costs a
  live one its state only if the table was full and no expired session could go
  instead.
* `FrontierCapped`: of the turns of a session that reach the default tier until
  its rules choose another or it starts afresh, at most `MaxEscalationTurns` did
  not fall back to it; turns that fall back are not limited (section 8).
  `KilledTurnEscalates`: the turn after a cycle kill reports at least the retry
  floor, if the session has not expired by then. `PromptsCapped`: after
  `max_failures` read-slap injections at most one more per further concurrent
  turn, and no fairy-dust entry is sent more often than its `max_count` until the
  session expires or is reset.
* `CountedOnce`: no turn is counted twice in the running or the saved totals, nor
  listed twice in the recent routes, whatever recalculations and restarts come
  between. `NoRecordAfterClose`: a turn is recorded on the
  closed queue (a panic) only if Shutdown gave up on its request. `LogComplete`:
  an orderly stop leaves every accepted turn in the traffic log, except those the
  log's full queue dropped, an earlier exit lost or a purge removed.
  `PurgeSparesLater`: a purge removes only turns accepted before the exit of the
  daemon that left the directive. `SavedCatchesUp`: while the daemon stays up, the
  saved totals become the running ones. `StopReturns`: a stop ends although an
  SSE client stays connected.
* `OneDone`: one `[DONE]` at most and nothing after it, but for the two streams of
  `EndsTwice`; and a stream that came to its `[DONE]` ends with `[DONE]` for the
  client too. `NothingLeaks`: when a turn
  ends, every normalizer it opened has given its buffers back, and every reported
  usage is in the turn's total. `KeepsPromise`: `StreamTurn` implements
  `ClientStream`: no slap once the answer has said something, or once a
  finish_reason or `[DONE]` has told the client that it is over. `StreamEnds`: a
  streaming turn ends.
* `CacheMatchesRing`: ring and entries hold the same calls, whatever requests put
  at once. `CallsDelivered`: the calls an agent assembles are those of the answer,
  each with its own arguments, and the stream ends with one `[DONE]`.
  `FaithfulReplay`: thinking that is put back is what was signed, all of it, once,
  in order and before its calls. `RequestAccepted`: roles alternate, results follow
  their calls, a model that thinks gets no prefill and a budget that fits.
* `ReadsCurrent`: the recent reads of a file reach the model whole, superseded
  ones do not, failures stay. `ReferencesResolve`: "identical to the output above"
  and "same as the last full list" name something the same request contains, unless
  the table went with the result that held it, or sits in a duplicate (section 8).
  `ReasoningWhereNeeded`: the recent turns, the kickoff and a failing run keep
  their reasoning unless the setting is zero, and it does not pile up.
  `TurnsIntact`: pruning takes reasoning and nothing else, and empties no message
  but those of section 8. `LinesKept`: the passes keep the order and the lines they are
  not meant to drop, and the cursors never cross. `VerdictsStay`: a later request
  brings nothing back that an earlier one cut.
* `BestIsBest`: the conflict remembered as best is the conflict of the cascade
  remembered as best, and no worse than at the start, when replay and attribution
  agree (section 8). `RepairsSound`: a repair does not make the fleet worse but by
  near ties, take a step out of an effort ladder from above or below, weaken a
  frontier tier or take a local tier off the machine.
  `ResultSound`: what is applied reads back as it was meant, and no rule becomes
  unreachable. `RuleWritten`: a rewritten rule reads back as the bounds, gates and
  keywords asked for and keeps the clauses that `isAutoTunableClause` does not call
  the tuner's; floors on tokens and required keywords are not among them (section 8).

## 6. Fairness

* `CircuitBreaker.FairSpec`: a running goroutine is eventually scheduled (weak
  fairness of the steps that need no lock), and `sync.Mutex` hands over in FIFO
  order once a waiter starves (strong fairness of the steps that take it).
  `TrafficSpec` adds that requests keep arriving; `Recovers` needs it, because
  only `AllowRequest` leaves "open". Nothing is assumed about failures: that they
  stop is the premise of the property.
* `ConfigLifecycle.FairSpec`: the watcher's goroutine is scheduled, its ticker
  keeps running and its pass completes. Nothing is assumed of the handlers, the
  timers or the user.
* `Dispatch.FairSpec`: the turn's goroutine runs and every upstream call returns.
  The code sets no response timeout; a call ends because the upstream answers or
  closes, or because the client goes away and its context cancels it. `Reload`
  may go on for ever.
* `Telemetry.FairSpec`: the worker, the traffic logger and Stop are running
  goroutines; the two-second and one-minute tickers fire; a sync that is tried for
  ever succeeds now and then. Nothing is assumed of requests: they may stay for
  ever, as an SSE stream does, and only the five-second deadline ends the wait.
* `StreamTurn.FairSpec`: the handler's goroutine runs (weak fairness of the relay
  and of the slap's own steps), a recovery call that is in flight ends, and an
  upstream that keeps sending ends at some time. The last is strong fairness of
  "the body ends or breaks off", since the code itself reads as long as there are
  lines; a client that leaves cancels the request. That slaps are not repeated for
  ever is not assumed: it follows from their limit.

`MinConflicts.Spec` states weak fairness of the search's one loop; no checked
property needs it.

## 7. What is proved

Checked by TLAPS with Z3, Zenon and LS4, for all values of the constants that
satisfy the named assumptions (`ThresholdAssumption`, `CooldownAssumption`,
`NoThreadAssumption`; `BoundsAssumption`, `NoneAssumption`;
`ConfigsAssumption`, `CapAssumption`; `TrackerAssumption`; `LimitsAssumption`;
`PipelineAssumption`; `CacheAssumption`, `ProviderAssumption`; for Telemetry its own
`BoundsAssumption`), which TLC evaluates in the runs.

| Theorem | Says |
|---|---|
| `CircuitBreakerProofs!TypeCorrect` | `Spec => []TypeOK` |
| `CircuitBreakerProofs!ThresholdTrips` | `Spec => []ClosedBelowThreshold` |
| `CircuitBreakerProofs!NoStaleProbe` | `Spec => ClosedNeverProbed` |
| `ConfigLifecycleProofs!TypeCorrect` | `Spec => []TypeOK` |
| `ConfigLifecycleProofs!PlaceholderNeedsStray` | `Spec => []ActiveKeyNeverMasked` |
| `ConfigLifecycleProofs!MemoryFollowsDisk` | `Spec => []MemoryMatchesDisk` if one goroutine updates (`OneUpdater`) and edits by hand have a watcher (`EditsWatched`) |
| `ConfigLifecycleProofs!BackupBeforeWrite` | `Spec => OverwrittenIsBackedUp` if there is one handler and nobody edits by hand |
| `DispatchProofs!TurnCost` | `Spec => []CallsBounded` |
| `DispatchProofs!SingleResponse` | `Spec => []OneResponse` |
| `DispatchProofs!RecordedOnce` | `Spec => []AnswersRecordedOnce` |
| `DispatchProofs!HeardOnce` | `Spec => []OneVerdictPerCall` |
| `DispatchProofs!HeadIsFinal` | `Spec => NoHopAfterHead`: `dispatchTier` is not entered again after the response head |
| `TelemetryProofs!ClosedQueueUnused` | `Spec => []NoRecordAfterClose` |
| `TelemetryProofs!StopKeepsLog` | `Spec => []LogComplete` |
| `TelemetryProofs!PurgeOnlyCondemned` | `Spec => []PurgeSparesLater` |
| `TelemetryProofs!CountedOnceOnly` | `Spec => []CountedOnce` |
| `StreamTurnProofs!DoneOnce` | `Spec => []OneDone` |
| `StreamTurnProofs!PromiseKept` | `Spec => KeepsPromise`, the refinement of `ClientStream` |
| `StreamTurnProofs!NothingLeft` | `Spec => []NothingLeaks` |
| `AnthropicProviderProofs!RingHolds` | `Spec => []CacheMatchesRing` |
| `AnthropicProviderProofs!CallsArrive` | `Spec => []CallsDelivered` |
| `AnthropicProviderProofs!RequestsTaken` | `Spec => []RequestAccepted` |
| `AnthropicReplayProofs!ThinkingReplayed` | `Spec => []FaithfulReplay` |
| `TurnPipelineProofs!TableMakesRoom` | `TrackerSpec => RoomIsMade` (`TrackerSpec` of `SessionTracker`: any calls in any order) |
| `TurnPipelineProofs!KillEscalates` | `NeverFull => (Spec => []KilledTurnEscalates)` |
| `TurnPipelineProofs!BudgetHolds` | `NeverFull /\ Economy => (Spec => []FrontierCapped)` |
| `TurnPipelineProofs!PromptsLimited` | `NeverFull /\ IsFiniteSet(Requests) /\ EntriesDiffer => (Spec => []PromptsCapped)` |

* **Breaker.** `ClosedBelowThreshold` is not inductive alone: `FailureTrip`
  releases the mutex, and that the goroutine releasing it is the one whose count
  the invariant speaks of is `MutexOK` (exactly the holder of `mu` is between
  `Add` and comparison). The critical case is `SuccessStoreZero`: it may reset the
  counter while `RecordFailure` holds the mutex, but the failure is decided on
  the local `fails`, which the reset does not touch.
* **Configuration.** The error count stays in its type only because an armed
  watchdog that reached `MaxErrors` has rolled back (`CountBelowMax`).
  `PlaceholderNeedsStray` strengthens the property to every copy in flight: the
  merged key and the memento of every unfinished update. The condition of the
  property is needed: both exceptions do put the placeholder in use (section 8).
  `MemoryMatchesDisk` is silent while an update is under way; `SyncInv` is not: from
  the write (or the load) to the swap it is the update that carries what the file
  says (`Carried`), at any other time the running state has it (`Agreed`), until
  the watcher's first look it is the modification loaded that stands for it
  (`Loaded`), and the ids of the pointers tell whether the watchdog has gone back
  (`Ordered`, `Progress`). Two updaters break it (section 8), and so does an edit nobody
  watches for, hence the hypotheses; `config_put` is an instance of them. Of the
  backups it is enough to know that the file is still as it was copied (`BackedUp`);
  the code takes the copy without a lock on the file, so a second handler or an
  editor may write in between.
* **Dispatch.** How many calls may have been made depends on where the turn is
  (`CallsInv`): every retry and slap, and the turn itself, pays for the call of
  one routed dispatch and the call of one fallback, a routed hop that has not
  called yet has used neither, and the recovery loop adds its attempts.
  `ResponseInv` relates `heads`, `status` and `telemetry` to the label: no head
  before the relay, one from then on, a record exactly when an answered turn is
  done. `VerdictInv` says where a call is still unreported: exactly while it is
  in flight, peeked into, read whole or recovering.
* **Session table.** `TableInv`: the table is finite, typed and within its bound.
  Lemma `EvictionLeaves` counts what `evictExpiredOrOldest` leaves: room for one
  session, and a live one missing only when the expired ones were not enough. Every
  method of the tracker then touches the table in one of three ways (it changes a
  session in place, adds one beside what an eviction leaves, or drops its own),
  which is all that the step of the invariant and the action property need to know.
* **Pipeline.** The properties speak of what was sent, the tracker only knows what
  it has counted, and any turn of the session may run between a test and the count
  it relies on. `Counts` is the part of a session the limits use (escalation,
  failures, floor, entries; nothing for a session that is not in the table), so that
  each method of the tracker is one line about it (`Sets`, `Stays`), and each step of
  a turn is described once by a lemma (`RecordDoes`, `SlapDoes`, `EntryDoes`,
  `ResolveDoes`, `InjectDoes`, `KillDoes`, `ResetDoes`; `Quietly` for those that
  decide nothing). `Base` adds to the types what a turn has decided at its stage
  (`Placed`): in particular its session is in the table from `RecordTurn` on, without
  which a count would be lost. On it rest four invariants: what a session owes is
  within its floor (`FloorKept`); every turn sent to the default tier is counted,
  but for those that fall back to it (`FrontierKept`); the read slaps sent are
  counted, and the failures counted with the slaps decided and not injected yet
  are within the limit (`SlapKept`); the
  checkpoints of an entry sent, with those chosen and not sent yet, are within its
  count, and the count within its maximum (`DustKept`). The hypotheses: the table has
  room for every session (`NeverFull`; an eviction, of which `RoomIsMade` tells the
  price, forgets the counts); there is a cheaper tier to de-escalate to and the
  default tier is not named "Fairy Dust" (`Economy`: without the first
  `enforceAntiLatchingBreaker` falls back to the default tier itself); no two
  entries share a name (`EntriesDiffer`: the counts are kept by name). The `pipeline`
  run satisfies all of them.
* **Telemetry.** `NoRecordAfterClose` rests on two facts about Stop: once Shutdown
  has returned, requests are in progress only if it gave up on them (`Left`), and
  the queue is closed only after that (`ClosedLate`). `LogComplete` is an invariant
  of the places a record can be in: every accepted turn is in the file, the write
  buffer, the log queue, the worker's hand or the queue, or among the lost and
  purged (`Kept`); a daemon that does not run holds nothing, and the worker holds
  nothing when the logger is closed (`Phases`). Lemmas on `Append`, `\o`, `Head`
  and `Tail` say what a sequence holds after each. `PurgeInv` is about the other
  end: whatever is anywhere in flight has been recorded, a directive that outlives
  its daemon condemns what was recorded by then, and from the rotation on until
  the directive is wiped the log holds condemned turns only.
  `CountedOnce` speaks of every total in memory, in a snapshot and on disk, and of
  the recent routes; what makes it inductive is the order in which the worker goes
  about a turn (`OnceInv`). It counts before it lists and lists before it logs, so
  what is in the log is in no hand and in no queue, a replay of the log can count
  nothing that is counted again later, and a route put into the ring is not there
  yet (`PlaceInv`, `TotalsInv`, `ReplayInv`: the turns still to be counted, `Fresh`,
  are 0 in every total; those still to be listed, `Unlisted`, are in no ring and in
  no replay; those still to be logged, `Unlogged`, are not in the log). Three steps
  compute by folds over records of any length: the recount, the sessions read back
  at a start and the hydration of the ring. `FoldSteps` says of the fold of a fixed
  operator what each step adds, `RecountOnce`, `SessionsGrouped` and `ReplayLists`
  what comes out for records without repetition: each counted once, each session's
  records in a place of their own, each route listed once.
* **Streams.** `IInv` has two layers. `NormInv` is what holds of a normalizer
  between two calls of `Read` (`Sound`, `Noted`): a terminal is held for a slap
  only while nothing has been said, `[DONE]` has been seen only with no delimiter
  pending, a `[DONE]` that was kept back comes with a terminal that is still held,
  and while one is held or no finish_reason has come the client has not been told
  that the answer is over (`Open`). The other parts say, for each position of the
  handler, how what the client was sent relates to what the normalizer noted: during
  the peek it was sent nothing and the peeked events tell the story; during the
  relay, what was delivered; between slaps, that nothing has been said and no
  `[DONE]` sent; at the end, that `[DONE]` was sent if it was owed. A chunk is
  followed part by part (`ReasonSound`, `ContentSound`, `ChunkSound`): whatever it
  joins, what is written is what has been recorded. `PromiseKept` maps each step to
  a `Send`, a `Slap` or a stutter. The invariant of `NothingLeft` (`LeakInv`)
  follows the attempts instead: of the normalizers only the first, the last
  attempt's and the one being read are open, and none once the turn is over; what an
  upstream reported is tallied except for the stream being read, whose normalizer
  has noted it. Most of the work is that whatever a normalizer does with an event
  leaves that note as it was (`Kin`).

* **Provider.** `RingMatches` speaks of the slots the code counts around the ring;
  `SlotsUsed` says them as the slots less than `count` behind the head, for a ring of
  any size, and `PutMatches` goes through the four cases of `Put`. `CallsDelivered`
  relates three parties that never meet: what the upstream said (`spoken`), the
  adapter's index, which is all a fragment carries, and what the agent has put
  together. `ProviderInv` gives each agent `AgentOK`: in a stream the index is the
  number of calls opened, the last of them included while its block is open
  (`StreamOK`); usage and `[DONE]` have been sent exactly when the adapter has noted
  them (`EndingOK`); turns and blocks stay within their bounds (`SpokenOK`). A step of
  one agent leaves the others alone (`Moved`), so that each action has one lemma about
  its own agent. What the agent makes of the one or two chunks of a step is computed
  from the definition of the fold (`TakesOne`, `TakesTwo`), and that positions can be
  listed in order, of which whole answers make use, is proved by induction (`Listed`,
  `Ordered`).
  `RequestAccepted` is about what a fold makes of a history of any length. Its
  invariant (`RequestInv`) says of each history that it is a ledger of calls
  (`Balanced`): message by message there is a set of calls without a result yet, a
  result closes one of them, a prompt comes only when there are none, and an answer
  comes while there are some only if the message before it is an answer too, as when
  an agent splits its calls. A turn, kept whole or split, takes the empty set to the
  empty set (`AnswerLeads`, `SplitLeads`, `ResultsLead`, `PromptLeads`), which needs
  that the calls of an answer are distinct, a consequence of `AgentOK`. On the other
  side `OutOK` says of what has been translated so far that only the calls of its last
  assistant message may be pending, less the results that follow it; `AppendOut` and
  `MergeOK` show that both branches of `Merged` keep it, blank messages are dropped
  (`MessageAdded`), and `TranslateSteps` turns the fold into its steps. That the
  blocks put back are thinking and never a call needs an invariant of the cache and of
  what each adapter has gathered (`CacheHolds`, `ThoughtsOK`).
  `FaithfulReplay` compares a request, block by block, with everything the upstream
  has said. Its invariant (`ReplayInv`) follows the thinking of a turn from the stream
  to the request. In the stream, what the adapter has gathered and the block it has
  still open are what was signed so far (`CapturedOK`, over `SignedBlocks`, which
  `SignedMore`, `SignedStays` and `SignedNow` compute for an answer that grows by a
  block, a delta or a signature). In the cache, an entry is all that was signed in the
  turn of its call, and that turn says nothing more (`CachedOK`, `Settled`: an entry
  put while its stream could still sign would be stale, and `Persists` is where each
  step shows that it does not). In the history, a turn is one message with all its
  calls or a row of messages with one call each (`TurnsOK`); this is what makes the
  first message of a merged run the only one whose thinking is not dropped, for
  `stripDuplicateThinkingBlocks` drops a block that is there already (`Strips`,
  `StripsLead`). In a message being translated, the thinking of a turn is in one
  place, whole and in order, in front of the calls or with several calls of which the
  history gives each message one (`ContentOK`, `ContentGrows`, `MergedIs`,
  `LoopStep`). The last lemma (`ReplayIsFaithful`) reads the property off that.

Only model-checked: all liveness (`Recovers`, `EditsApplied`, `TurnEnds`,
`SavedCatchesUp`, `StopReturns`, `StreamEnds`), which is beyond the prover; everything
about suppression and the tuner. The induction theorems of the library take an operator,
which the installed provers cannot instantiate; `TelemetryProofs` and
`AnthropicProviderProofs` therefore state induction over numbers for a set of
them (lemma `Inductive`, from the least element of its complement), and the
former repeats the lemma on folds for each operator folded. The
passes of `Suppression` and `LinePasses` and the rules of `RoutingRules` and
`FleetReplay` are of another size: what they compute for an input of any length is
checked by TLC on bounded inputs and not proved.

## 8. Where the code and its documents disagree

Checked by a run (`PROJECT.json` "findings" quotes both sides):

* **`lines_shifted`**: `flushRepeats` writes lines that were held back from a slice
  of the buffer it overwrites (`pkg/nts/dedup.go:107`). Once a collapse has moved
  the write cursor back by more than a line and less than two, the second copy is
  read from bytes the first has overwritten; "Re-emit lines that were held back",
  the comment above says.

Noticed while modelling, visible in the models' behaviours or kept out of them by a
named assumption, and kept without a run of their own:

Breaker, configuration:

* `AllowRequest` compares the cooldown with a stamp loaded before the lock. A
  failure recorded in between renews the stamp, and the breaker still goes
  half-open (`pkg/provider/circuit_breaker.go:77-85`). `GetCircuitsStatus` asks
  through `AllowRequest`, so that a status poll moves an open breaker to half-open.
* Two concurrent PUTs may write the file in one order and swap the state in the
  other, though `ApplyConfig` is documented as atomic (`pkg/server/api.go:365`).
* `PutConfig` merges secrets into the state but writes the raw request to
  `config.yaml` (`pkg/server/api.go:346-353`), so a masked placeholder becomes the
  key at the next start.
* `MergeSecrets` restores a masked key only for a provider that the running
  configuration names (`pkg/config/secrets.go:73-77`). Under an added or renamed
  provider id the placeholder becomes the active key, and `ValidateConfig` does
  not look at keys; "masked placeholders (e.g. "sk-***") do not overwrite active
  secrets" (`:52-53`) speaks of the others. The merge reads the running
  configuration at the start of `ApplyConfig`: if a roll-back or another update
  then brings the provider back with its key, the update still installs the
  placeholder (`pkg/server/api.go:310`, `:369`).
* The watcher takes its first `os.Stat` some time after the configuration was
  loaded (`cmd/nacho-flow/main.go:180`, `:338`). An edit saved in between is taken
  for the file that was loaded and is not applied until the file is saved again.
* The watcher may look at the file between the server's write and the stamp of
  that write, and reload the server's own update (`cmd/nacho-flow/main.go:353`);
  the watchdog is then armed with the update itself as its memento.
* An edit saved less than 100 ms after an own write is taken for that write and
  not loaded (`cmd/nacho-flow/main.go:355`).
* Of two concurrent updates the later memento may be armed last, and the
  roll-back then installs a newer configuration (`pkg/server/api.go:365-421`).
* The timer of an earlier arming disarms the watchdog of a later one, and errors
  of requests that began before the update count against it
  (`pkg/server/circuit_breaker.go:17`, `:35`).

Dispatch, sessions, pipeline:

* `handleStreaming` reads the retry limit of a cycle breaker it has already
  returned to the pool (`pkg/server/dispatch_stream.go:102`, `:109`), so it may be
  the limit of another turn; `PooledLimits` opens it. `HasActiveToolCall` is read
  after `Close` as well and is always false there (`:136`).
* The "hard safety cap on total upstream calls per turn" (`maxGlobalTurnCalls`,
  `pkg/server/thought_slap.go:20`) adds retries and slaps but not fallback calls,
  so a turn may make more calls than the cap; `CallsBounded` is the bound that
  holds.
* With the default limits the kickstart count stops at 7 (threshold 5, then three
  failed injections), so `max_slaps: 10` is never reached and the default tier
  never forced (`pkg/router/session.go:398`).
* Guardrail switches survive the expiry of their session
  (`pkg/router/session.go:128-142`).
* Two concurrent turns may both inject after the read slap's limit
  (`pkg/server/pipeline.go:605`; `PromptsCapped` says by how much).
* A milestone reached by a shell write gets no checkpoint
  (`pkg/server/pipeline.go:388`).
* "A hard ceiling" on the turns of the default tier (`docs/ARCHITECTURE.md:140`)
  and a cap on "consecutive frontier tier executions" (`docs/USER_GUIDE.md:510`)
  hold of the tiers that routing chooses only: `dispatchTier` falls back to the
  default tier (`pkg/server/dispatch.go:111-167`) without `RecordEscalation` and
  without asking whether the budget is used up, so a session de-escalated to a
  cheap tier that fails keeps reaching the default one. `FrontierCapped` counts
  these turns (`frontier`) and says that only they exceed the ceiling (`rescued`).
* A turn forced to the default tier is de-escalated when the budget is used up,
  and de-escalation may choose a model that is cooling down
  (`pkg/server/pipeline.go:467-476`).
* A cycle kill does not renew the session's last turn time: a stream killed more
  than a TTL after its turn was recorded, or a turn that comes more than a TTL
  after the one that was killed, finds the retry floor in an expired session,
  where it is cleared unread (`pkg/router/session.go:128-142`, `469-504`).

Streams:

* A recovery stream that has said nothing and has no terminal held is relayed with
  its own `[DONE]`; the recovery counts as exhausted and sends another
  (`pkg/server/thought_slap.go:350-357`). It ends so with "stop", or with a
  "length" that shares its chunk with reasoning or with no more than a `<`
  (`pkg/server/stream_normalizer.go:600-634`). First case of `EndsTwice`.
* Where no other tier is left, a loop that is seen in text flushed at `[DONE]` is
  reported behind it, with a second `[DONE]`: second case of `EndsTwice`.
* A finish_reason that shares its chunk with reasoning, or with a content delta
  that is only the beginning of a delimiter, is sent to the client at once: such
  an empty truncated turn is not slapped, and the client sees the turn end.
* A local model that is cut off ("length") with nothing said, with the slap on and
  no other tier, leaves the client an empty body without `[DONE]`
  (`pkg/server/dispatch_stream.go:80-89`; `EmptyLocal` in `OneDone`). A recovery
  that its own cycle breaker cuts off ends without either.
* The relay asks the cycle breaker after it has accepted the bytes
  (`pkg/server/dispatch_stream.go:187`); the peek of 512 bytes may cut a line in two
  before a notice is written; a connection that breaks while a terminal other than
  "length" is held is answered by a slap although slaps are off (near `:266`); a
  synthesized tool call brings a second finish reason, and so does the terminal of
  an exhausted recovery whose own was relayed. Chunks whose content is cut by an
  XML write tag (`routeContentDelta`), and text in a delta that also holds
  back reasoning, are left out of `Line`.

Provider:

* The ring of recent turns counts messages: an agent that keeps the parallel
  calls of a turn in messages of their own gets its thinking put in behind the
  first of them (`pkg/provider/anthropic.go:827`); `FaithfulReplay` excludes it.
  Interleaved thinking is replayed in front of all calls.
* Effort "none" on a model without adaptive thinking enables thinking with a budget
  of 4096; a model of version 10 or later is not seen as adaptive; a picture given
  by an http URL is dropped; of several `message_delta` events only the first one's
  usage is taken.

Suppression:

* An assistant message with empty content, reasoning in a field and no call, or a
  text block that was thinking only, ends up empty in spite of
  `DefaultSilentTurnMessage` (`pkg/nts/transformer.go:623-625`).
* While no turn is weighty every turn counts as one; the first weighty turn then
  brings reasoning back that was pruned, the one exception `VerdictsStay` states.
* A read counts as superseded by a later read or write that failed. Counters of
  reads wrap at 256, 256 files are remembered; beyond 512 messages pruning stops
  and the tail that is examined is not the end.
* A reminder table inside a result that is later evicted or replaced leaves "same
  as the last full list above" without one. A table in a message of role "tool" is
  neither compacted nor remembered, so the list above may be another one. Two
  outputs that differ only in their tables are equal once both tables are
  compacted, and the second becomes "identical" to the first.
* An unterminated `<error_details>` or search block, and an unterminated escape
  sequence, take the rest of the text; `"text\r\r\n"` loses the text; a test that
  passes in one package hides the `RUN` line of its namesake in another.

Tuner:

* Replay with attribution and replay for the conflict disagree when retries are
  held by an active repair and when two tiers of one model differ in effort (the
  cache discount); `bestConflict` may then not be the conflict of `best`.
* Near ties are decided each against the one before (`min_conflicts.go:794-802`):
  a round of repairs may leave the cascade worse by a cent for every model on offer.
* A step of an effort ladder that has no effort of its own is not protected
  ("do NOT prune or replace a tier that is part of a same-model reasoning effort
  chain", `min_conflicts.go:674-681`).
* A hash pushed twice into the tabu memory is deleted with its first copy; the
  sweep judges a tier on the statistics of a candidate it has just rejected; the
  original rule of a tier that carries no traffic is restored, and with it the
  turns that were steered away.
* `any(Keywords)` that requires a keyword is read as an exclusion and written
  inverted; lower bounds on tokens are dropped; `A || Tokens < n && B` is cut in
  its text and changes its meaning; a threshold of 0 beside a token clause fails
  the whole tuning; a cleared effort is not applied, so the new model runs with
  the old one.
* `ApplyTuning` reads, backs up and renames without a lock and may lose a
  concurrent PUT; free cloud models are charged at the default rate.

Telemetry, daemon:

* A recalculation reads the traffic log without flushing it first (a tuning run
  does flush), so turns of the last two seconds drop out of the totals
  (`pkg/server/api.go:734-751`). While it replays the log into the ring, new turns
  may be emitted between the old ones, and two at once may list a turn twice.
* A snapshot taken before a reset may be saved after it by the periodic sync, and
  one taken before Stop's own may overwrite it (`cmd/nacho-flow/main.go:307`).
  `SavedCatchesUp` says that the former heals.
* `ReadCompleteSessions` drops the session that was seen first, not the one least
  recently active; a record of it that follows opens it anew, so that a session
  may come back without its beginning (`pkg/telemetry/traffic_log.go:318-334`).
* The shutdown directive is an `os.Exit` after 100 ms
  (`pkg/server/api_directive.go:97-104`): what the queues and the write buffer hold
  and the totals since the last sync are lost.
* The event broker is never closed by Stop: a connected SSE client costs every
  stop the full five seconds (`cmd/nacho-flow/main.go:430-434`).
* A directive file that cannot be removed purges again at every start
  (`cmd/nacho-flow/directive.go:47-53`); a second daemon that finds its port taken
  runs Stop and saves the totals it loaded over those of the first
  (`cmd/nacho-flow/main.go:411`).
* The price sync snapshots its providers and starts their runners without a lock;
  one registered in between leaves an orphan, and a cancelled runner may deliver
  late (not modelled).

## 9. What is not modelled

* Of the telemetry: what is counted of a turn (tiers, tokens, cost, time windows,
  daily buckets) is reduced to how often it is counted; the buffers of SSE
  subscribers, records torn by an exit in the middle of a write, and a second
  daemon are left out. Of the directives, malformed and unknown ones, which are
  only wiped.
* Of dispatch, sessions and pipeline: the text of prompts, answers and meta
  replies; payload edits; the token estimator's calibration; servers started
  without a configuration path; documents the validator rejects. `Dispatch` and
  `StreamTurn` take a breaker's decision and a detected loop as open outcomes.
  `TurnPipeline` has one configuration in force (`Dispatch` models its
  replacement) and a table that is never full (`session_table` models that).
* Of the normalizer: the text of chunks, inline thinking tags, the repair of
  arguments. Of the provider: pictures, citations, usage figures; the
  OpenAI-compatible providers pass bodies through. Of the suppression: results
  with JSON inside, the normalisation of file paths, the byte splices by which
  messages are written, collisions of 64-bit hashes. Of the tuner: the grid and
  cost-penalty strategies, the advisor, synthetic sessions, the report.
* Not at all: the cycle breaker's n-grams, classifier, sanitizer and byte-level
  JSON editing are scanning within one text, with no control the properties could
  tell apart; tools, benchmarks and the site are outside the running system; the
  synchronisation of prices and the editor extension are in the plan.

## 10. Plan

Done: `CircuitBreaker`, `ConfigLifecycle`, `Dispatch`, `SessionTracker`,
`Telemetry`, `StreamTurn` (with `ClientStream`), `TurnPipeline`, and
`AnthropicProvider` with `ThinkingCache`, each with proofs; `Suppression` and
`LinePasses`, and the tuner's four modules, model-checked.

Next, in this order:

1. **`EventBroker`**: subscribers that come and go during a publication; no send
   on a closed channel; what a subscriber sees is a subsequence in order.
2. **`PriceSync`**: background runners registered, cancelled and landing late.
3. **`StatsWindows`**: rolling windows against the windows rebuilt from daily
   buckets at a restart.
4. **`CycleBreaker`** (lanes, tail buffer and pool).
5. **`DaemonProcess`**: the extension starting, adopting and stopping the daemon; a
   second daemon that finds its port taken.
6. The grid and cost-penalty strategies of the tuner.

Proofs, after TLC: `BestIsBest` of the tuner; `TurnsIntact` of the suppression.
