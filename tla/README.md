# SimpleText2Motion in TLA+

SimpleText2Motion turns a text prompt into a motion clip for a VRM avatar. This
directory holds its verification project: TLA+ modules translated from the
source, the TLC configurations that check them, and proofs checked by TLAPS.
Paths and line numbers refer to the repository's files.

## The system

    browser (index.html: StreamEngine)
        | POST /t2m
    run_server --(t2m protocol)--> t2m_infer --(hidden protocol)--> fused_server :8421
        |                             ^                             one model, two contexts
        +--> motion_to_vrma (child)   | t2m_client.py, bench_t2m        |
    simpletool_client.py --(simpletool protocol)--------------------> fused_server :8422

| component | state | operations | what is hard | what makes it correct |
|---|---|---|---|---|
| simpletool port, `llama.cpp/fused_server.cpp` 354-776 | cold cache record, KV pool of `ctx_simpletool` | compare the cold prompt, hit / extend / reset, drop leftovers, prefill hot, open tags, decode loop | state kept between requests, eight heads sharing cells, a failure at any `llama_decode` | a head is sampled from its own request's tokens and nothing else; the record agrees with the pool |
| hidden port, `fused_server.cpp` 225-352 | `ctx_hidden`, one connection | accept, read a prompt, one forward pass, reply | error replies shorter than those of success | the vector is that of the prompt |
| threads and shutdown, `fused_server.cpp` 191-223, 319-352, 778-809, 993-1001 | stop flag, two listening sockets in atomics | accept, serve a kept-alive connection, stop on a signal | signal handler against two threads, idle connections | both threads end, each socket is closed once |
| `cpp/t2m_infer.cpp` | one client, one fetch; weights are read-only | accept, read, fetch, integrate, answer | failures part way, sockets to give back, a peer that is gone | every request is answered, with its own motion |
| `cpp/run_server.cpp` | `t2m_mtx`, temporary directories | parse, call t2m_infer, convert, answer | one mutex over two blocking calls, clean-up on every path | one POST at a time, nothing left behind |
| `cpp/motion_to_vrma.cpp`, `cpp/npz_reader.h` | none | filters, GLB writing, archive reading | boundaries, offsets | layout, index ranges |
| stream engine and page, `index.html` 290-507, 698-1061 | cursor, buffer of frames, clip tags, drop queue | tick, schedule, reset, top up, fire segment events, load dropped files | callbacks against awaiting handlers, frames already protected | smooth playback, whole segments, events that match the screen |
| KV cache of each context, `llama.cpp/src/llama-kv-cells.h`, `llama-kv-cache.cpp`, `llama-context.cpp` as far as fused_server uses them | cells, used set, position counters, search head; rows of the hidden layer | check and split a batch, find cells, place and take back, compute, remove positions, clear | a batch in several ubatches that is full or fails at a later one | the bookkeeping is that of the cells, positions are whole, the rows are the batch's |
| launcher, `scripts/*.sh` | pid files, pids it knows, whether it cleaned up | preflight, start, wait for port, check, monitor, clean up, stop | a trap between any two commands, a foreign process on the port, a launcher that was killed | a launcher that ends leaves nothing behind, what is stopped is gone |
| configuration, platform layers, benchmarks, Python clients | none worth a model | | | |

How they interact: three processes over loopback TCP, one request per
connection from run_server to t2m_infer and from t2m_infer to the hidden port,
and any number per connection at the simpletool port. The two ports of
fused_server share a model but not a context, and each context has a mutex and
one thread. In the browser everything is a callback of one thread; the drop
handler is a loop with awaits between other callbacks. `PROJECT.json` lists
every component with its status, and under `hazards` what is hard to test.

## Modules

| module | models | variables and actions |
|---|---|---|
| `KVCache` | what the simpletool port uses of llama.cpp's unified KV cache | operators on a pool: a set of cells `[pos, tok, seqs]`. `Decode(kv, batch)` is the set of outcomes of one `llama_decode` (placed, refused for its positions, no room, failed graph), `SeqRmAll` is `llama_memory_seq_rm(-1, n, -1)` |
| `SimpleToolDecode` | `run_simpletool_v2`, `ensure_cold_cache`, `handle_simpletool_request` | `cells`, `coldTokens` (cache record), `pc` (stage), `req`, `live`, `gen`, `nulls`, `step`, `reply`. One action per stage: `Receive`, `ColdHit`, `ColdExtend`, `ColdReset`, `DropLeftovers`, `HotPrefill`, `Signal`, `Sample`, `DecodeStep`; each stage with a `llama_decode` may fail |
| `StatelessDecode` | the abstract service: a server that keeps nothing between requests | refined by `SimpleToolDecode` (`ImplementsStateless`) |
| `SimpleToolDecode_proofs`, `SimpleToolLimits_proofs`, `SimpleToolRefinement_proofs` | theorems about the above, each module on top of the one before | |
| `KVCells` | `llama_kv_cells` and the part of `llama_kv_cache` that looks for cells, index by index | operators on a cache `[pos, seq, used, count, data, head]`: `SetCells`, `SeqRm`, `FindSlot`, `Place`, `Prepare` |
| `LlamaContext` | one llama.cpp context: `llama_decode` ubatch by ubatch, `llama_memory_seq_rm`, `llama_memory_clear`, and the hidden rows this repository adds | `cells`, `hidden`, `nHidden`, `rc`. `Decode`, `DropFrom`, `Clear` |
| `KVPool` | the abstract pool: `KVCache` without cell numbers, search or bookkeeping, for batches computed in parts | refined by `LlamaContext` (`ImplementsPool`) |
| `LlamaContext_proofs` | theorems about the three | |
| `FusedServer` | a fused_server process: start, the two threads, `on_signal`, the end of main | `up`, `stop` (`g_stop`), `slot` (the two atomics), `sock`, `thr`, `raised`, `sig` and `held` (one run of the handler per signal), `foreign`. One action per step another thread or run of the handler can come between |
| `Launcher` | start_servers.sh and stop_servers.sh composed with `FusedServer` and t2m_infer | `at` (the next command), `known`, `files`, `down`, `t2m`, `stopper`. One action per command; `Interrupt`, `Crash`, `ByHand`, `Foreign` come from outside |
| `Launcher_proofs` | theorems about the two | |
| `Connection` | TCP as the programs use it (external) | two streams of words and who still holds a socket; operators for connect, send, recv_all, close, end of stream, reset |
| `T2MPipeline` | the POST handler of run_server, the accept loop of t2m_infer with `fetch_hidden`, the hidden port, and direct clients | `pc`, `class`, `answer`, `clip`, `mtx`, `dirs` for the askers, `conn` and `link` for connections, `infer` and `hidden` for the two servers. One action per blocking call or send of the code, one per failure that comes from outside |
| `T2MService` | the abstract service: one answer per question, a clip only of its own prompt | refined by `T2MPipeline` (`ImplementsService`) |
| `T2MService_proofs` | theorems about the pipeline and its refinement | |
| `StreamEngine` | class `StreamEngine` | operators on an engine `[buffer, cursor, acc, held, emitted, config]`; one per method |
| `StreamPage` | the page around it | `engine`, `seqs` ("0 then 1" listeners, each the tag and the restart it waits in), `drop` (the file handler), `epoch`. One action per callback: `Refresh`/`Frames`, `Visible`, `ScheduleAnim`, `ScheduleSeq`, `ResetPos`, `ReplaceVRM`, `DropFiles`, `DropLoaded`, `DropFailed` |
| `StreamEngine_proofs`, `StreamPage_proofs` | lemmas on the operators of an engine; the theorems about the page | |
| `MC*` | instances for TLC | sets for the constants |

Operators whose comment says *Mutant* are not used by the specification. Each
is a plausible bug in the definition that follows it, and shows that a property
notices.

What the models abstract. Tokens, prompts and clips are names: the logits are a
nondeterministic pick, a hidden vector or a motion is named by the prompt it was
computed from. Frames are counted, not blended; the blend itself is a mark on a
frame. Clip tags are reused (least unknown) instead of counted up. Body parsing
is a class of prompt: refused, empty, fitting, above `n_ctx` tokens, above 64 KiB.
Floating point, rendering, logging, timing and detokenisation are left out. The K and V
tensors of a cell are the token they were computed from. Requests are not looked into by
`FusedServer`: a client is a time a thread is held. The polls of the launcher
(`wait_for_port`, `monitor_loop`, the three seconds of grace) are one step each, with
any outcome the moment allows.

How the models fit together: `SimpleToolDecode` takes `KVCache!Decode` for a
`llama_decode`; `KVPool` states the same for batches in parts, and `LlamaContext`
shows that the cells implement both (`CellsAreThePool`, `DecodesAtOnce`). `Launcher` runs `FusedServer` as one of its processes
(`RunsFusedServer`). `T2MPipeline` has the hidden port as a process of its own, since
it looks into the requests.

## Runs

| run | what it asks | shows |
|---|---|---|
| `simpletool` | three heads, pool of `2*n_ctx` cells they can fill, every request mix | record and pool agree at every step, contexts are exact, only an extension can be refused for its positions, the pool fills in the decode loop only and the cache survives it, no head passes `n_ctx`, a reset always recovers, a priming request makes the next extension safe, the service is the stateless one, every request is answered |
| `simpletool_extend` | the comment of COLD_EXTEND | violated, see findings |
| `llama_context` | any order of batches, removals and clears on a cache they fill, with a graph that fails at any ubatch | the bookkeeping is that of the cells, positions stay whole, a batch that does not fit leaves no trace, hidden rows are the batch's, the cells are the pool |
| `launcher` | a TERM at any command, a Ctrl-C, servers that die, a foreign listener, a launcher that is killed with and without pid files, stop_servers beside a launcher that starts its servers or after its end, both signals at once | listening sockets have one owner, a stopped server ends unless a client stays, an interrupt ends the launcher, a launcher that ends leaves nothing, stop_servers stops every server it could see, and then everything ends |
| `t2m` | two handlers and a client that may leave; empty and long prompts, every failure of a step, fused_server ending | one POST at a time, a forgotten connection is dead on its other side, answers are the question's |
| `t2m_live` | servers that end and clients that leave at any point, just enough sockets | whoever got past the mutex is answered; refused, oversized and abandoned requests leave t2m_infer able to serve |
| `t2m_silent`, `t2m_hangup` | a prompt above `n_ctx`; a client that leaves | violated, see findings |
| `stream` | every handler that waits, resets, replaced models | whole segments, blends exactly at switches, bounded buffer, the announced segment is the one on screen, smooth playback, protected frames, one dropped file at a time (also behind a reset that gives its tag to another clip) |
| `stream_changing` | the three inputs change at any refresh, short lookahead, long transition | there is always a frame |
| `stream_drop` | the drop handler under fairness, while input fields are emptied (NaN) and filled again | it goes on to the next file; a starved engine recovers with the next frame |
| `stream_replace` | the comment of `replaceVRM` | violated, see findings |

### Findings

- **Extending the cold cache** (`fused_server.cpp:397`): the leftovers of the
  previous request are dropped after the extension, so an extension that follows a
  request that decoded something is refused with rc -1, against its comment.
- **A silent pair** (`t2m_infer.cpp:214`): a prompt above `n_ctx` tokens is answered
  by four bytes where twelve are awaited. t2m_infer and the hidden port wait for
  each other, and the POST handler with the mutex waits for both. `Answered` holds
  in `t2m_live`, where that reply cannot occur, and fails in `t2m_silent`.
- **SIGPIPE** (`t2m_infer.cpp:93`): t2m_infer is the one server that does not ignore it.
- **`replaceVRM`** (`index.html:885`) loses the scheduled queue its comment keeps.

Not findings of a run, but met on the way and in the model or in the comments beside it:

- An exception of `recv_all` in `fetch_hidden` (`t2m_infer.cpp:212-229`) passes its
  `close_sock`: the socket stays open in t2m_infer for as long as it runs. Each empty prompt
  sent to it costs a socket in this way, and so does a fused_server that ends during a
  fetch. `FetchCutOff` leaves that side of `link` open; `NoLiveLeftover` says no more
  than that the other side is closed. With `"empty"` in `Sent`, `GoodPromptsSucceed` is
  violated as soon as the `FdLimit` sockets are used up.
- `stop_servers.sh` says it stops "servers started by start_servers.sh" (`:4`). A server
  that has neither a pid file nor a port that answers it cannot find. Run while the launcher
  is at or before the fork of fused_server it does nothing, and the launcher then starts
  its servers; and a launcher killed between a fork and the pid file leaves a server that
  is found only once it listens. `StopScriptStops` is about the servers in sight when
  stop_servers is started (`InSight`).
- The launcher has blind moments: a signal at `preflight`, or from the fork of a server
  to the assignment of its pid, finds nothing to stop, uses `cleanup` up and lets the
  script start or keep a server; one between the pid and its file leaves a stale
  file (`Moment`; `LeavesNothing` speaks of the other moments).
- `include/llama.h:1026-1028` promises the hidden rows of the last `llama_decode`;
  after a failed one the count is that of an earlier call (`nHidden`).
- `llama-batch.cpp:346` promises to "disallow decreasing sequence positions", but the check
  (`:378`) compares with `cur_seq_pos`, which nothing writes after its initialisation, and
  refuses nothing (nor can the one above it, at `:373`). fused_server fills its
  batches in order; that order is a hypothesis of two theorems below.
- `start_servers.sh:232` reports 30 seconds where the wait is 60.
- In this usage every free cell is at or behind the search head, so that the
  wrap-around of `find_slot` never decides anything.
- `max_cold_tokens` defaults to a negative number for `n_ctx` below 256
  (`fused_server.cpp:904`): every cold prompt is then refused. The models allow it.

### Bounds, and why they are enough

- `simpletool`: 3 heads of 8 (one that ends, one that goes on, one outside the
  mask), `NCtx = 6`, `MaxCold = 3`, up to 4 generated tokens, `NCells = 2 * NCtx` as in
  the code. A cold prompt can be a true prefix of another, equal, or differ at each
  place; leftovers of two lengths can follow. Three heads that generate 4 tokens each
  after a short prompt need more cells than there are, as eight heads can in the
  program: the check bounds one context and the pool is shared. `simpletool_extend` needs
  two heads only.
- `llama_context`: 2 sequences, 3 cells, 4 positions, 2 tokens per ubatch and batches
  of up to 3, so that a batch has two ubatches and the cache is full, or the graph fails,
  at the first or at the later one; tokens are shared by both sequences or not.
- `launcher`: one generation of processes. One interrupt, at any command (the trap of a
  second one returns at once), and not beside stop_servers; a Ctrl-C while the launcher
  watches its servers. It is killed outright while it waits for the first port, where it
  spends its time, and right after the fork of either server, whose pid file is then
  missing. stop_servers starts while fused_server loads its model, when that has a port and
  t2m_infer is about to be started, or after the end of the launcher, and then takes as long
  as it likes, so that its steps meet all later ones of the launcher and the servers.
  Another program may take the hidden port while the launcher waits for it, before
  stop_servers is started. Both signals may be pending at fused_server, so that two runs of
  its handler overlap. 0.4 million states.
- `t2m`: two handlers are enough for one to wait at the mutex while the other
  fails anywhere; the direct client gives t2m_infer's queue a second entry. `FdLimit`
  stands for the limit of open files (1024 by default): the runs take 2, 3 and 4. In `t2m`
  it is 3: t2m_infer has one client and one fetch, and one forgotten socket fits beside
  them, a second one no more. There are as many `Slots` for links to the hidden port as sockets,
  which is enough: at a fetch t2m_infer holds `FdLimit - 2` at most, and the hidden port is
  behind by one. An asker has one connection at a time. `t2m_live` has one handler:
  `Answered` starts at the mutex. `t2m` has 1.2 million states.
- stream: frame counts are the page's divided by about 15 to 30: `HistoryMax = 2` and
  `HistoryKeep = 1` for 60 and 30, `StepsMax = 2` and `BacklogMax = 3` for the
  catch-up after a pause, clips of a few frames, two inputs of each. `Sub` divides a
  frame's time. `MaxSeq = 1` waiting listener and `MaxEpoch = 1` restart.

### Fairness

No client or user is fair, and no failure is. `simpletool`: the thread that
read a request runs it to the end. `t2m_live`: threads run, so each `recv` whose
words are there returns; nothing is assumed of the order in which the mutex lets
handlers in, which is why `Answered` is not stated of a handler that waits for it.
`launcher`: the two scripts, main, the server threads and a signal handler once its signal
is there go on; clients need not come or leave, which is why `StopEnds` excepts a thread
that is held. `stream_drop`: the browser keeps refreshing a visible page
(`[]<><<Frames>>`), and a file being read is read or fails.

Deadlock is checked in all runs but `t2m` and `t2m_silent`, where the silent pair
above does stop the system, and `launcher`, where everything may have ended.

## Proofs

### The simpletool port

For every number of heads, vocabulary, set of prompts and limits, from the named
assumptions of `KVCache` and `SimpleToolDecode`. Everything the run `simpletool` checks is
proved, but for liveness.

- `TypeCorrect`: `TypeOK` with `StepInv`, which adds what the code keeps in local
  variables (every live head picked one token per step, the loop is within its limit).
- `CacheAlwaysCoherent`. `CacheCoherent` is not inductive: an extension that fails
  half way leaves cells behind the cached prompt. `ColdInv` adds where cells may be
  at each stage; the argument is that no batch ever touches a position below the
  record (`DecodeAbove`, `CoherentBelow`).
- `PoolAlwaysExact`: the pool of a request, cell by cell. It follows stage by stage,
  from dropping the leftovers (`DropToCold`, which rests on the coherence above)
  over the open tags (`SignalCells`) to feeding what was picked (`FeedCells`).
- `ContextAlwaysExact`: what a head attends to is the sequence of its own tokens. It
  is a consequence of the exact pool, by reading it as a sequence (`PlacedContext`,
  `AttendedCold`, `AttendedHot`, `AttendedOwn`).
- `AlwaysWithinContext` from `LimitInv`, which carries the length check of the request
  through its stages: `NTotal + req.gen < NCtx` as long as it is served.
- `AlwaysOnlyExtendRefused`: by the exact pool, the positions a sequence holds are a
  run from 0 (`PositionsCold`, `PositionsHot`, `PositionsOwn`), and each batch of a stage
  goes on where that run ends (`ConsistentUpTo`, `HotFollows`, `HeadsFollow`).
- `AlwaysFullOnlyInTheLoop` from `ReplyInv`: cells are counted by the positions and heads
  they stand for (`CardImage`, `CardUnion`), and prompts plus one open tag per head fit
  into `2 * NCtx` cells. This is where `PoolAssumption` is needed: the context
  has `2 * n_ctx` cells (`fused_server.cpp:936`) and no more heads than `n_ctx`, which the
  command line ensures (`:877`, at least 128) and the configuration file does not check.
- `AlwaysResetRecovers`, `AlwaysPrimedThenExtends`: action properties from the same facts
  (`RoomForReset`, `RoomForExtension`).
- `CacheIsInvisible`: the refinement. Initial states map to initial states, and each stage
  of a request is a step of `StatelessDecode` or a stutter: `Prepares`, `Aborts`, `Passes`
  (here the exact context is what makes the abstract pass computable), `Picks`.
  `LoopInv` says the loop goes on only with a head that is live.

### The cells of a context

For every number of sequences, cells and positions, every vocabulary, set of batches, `n_batch`
and `n_ubatch`, from `SizesAssumption`, `SpoiltAssumption` and `BatchesAssumption`:

- `ContextTypeCorrect`, `BookkeepingIsExact`, `HiddenRowsAreTheBatch` from `IInv`: the cache
  is `Sound` (typed, and the used set and the counters are those of its cells) and
  the rows are those of the last batch. Every change of a cell goes through `SetCells`, so
  that `SetCellsSound` says it once: what the changed cells held is counted off, what they hold
  now is counted on, and a cardinality of disjoint parts is a sum (`Apart`). That the subtraction
  never goes below zero follows from there, and is what `TypeOK` says of the counters.
- `FullBatchLeavesNoTrace`. The bookkeeping of a sound cache is a function of its cells
  (`Determined`), so that a cache whose cells and head are put back is the one it was
  (`TakeBackRestores`), backwards over all that were placed (`TakenBackAll`).
- `PositionsStayWhole`, *given* that the tokens of a sequence are `Ascending` in every batch.
  A batch that is accepted goes on without a gap where the cache ends (`AcceptsGoesOn`), and
  what is written of it, up to whichever part fails, is a prefix of its tokens (`WrittenRun`);
  removing positions leaves the beginning of every sequence (`WholeRemoved`).
- `CellsAreThePool`: the refinement `ImplementsPool`, *given* that batches are `Regular`: tokens
  that share a sequence have all sequences in common and ascend without a gap. The checks of
  a batch are the pool's (`AcceptsIfConsistent`), its parts fit just if the batch does
  (`FitsIfRoom`, with `SlotFound`: the search finds as many cells as there are tokens unless
  too few are empty), and what is written, removed or given back is what the pool says
  (`KvWritten`, `KvRemoved`, `KvGivenBack`).
- `DecodesAtOnce`: `SimpleToolDecode` does not use the pool's `Outcomes` but `KVCache!Decode`, a
  `llama_decode` in one part. If no batch has more than `n_ubatch` tokens, *given* again that
  batches are `Regular`, every call of the cells returns and leaves what `KVCache!Decode` says of
  its batch. The context of the simpletool port has `n_ubatch` = `n_batch`
  (`fused_server.cpp:939-940`). `llama_context` has longer batches, so TLC does not evaluate
  this hypothesis there.

The two hypotheses are needed: `Accepts` does not look at the order of a batch (see below
the findings), and a swapped prompt that fails after its first part leaves a gap. fused_server's
batches are regular: a prompt's tokens have one set of sequences and the next
position each (`fused_server.cpp:255`, `:408`, `:440`, `:573`), and the tokens of a step have one
sequence each, all different (`:599`, `:654`). `RegularAssumption` has TLC evaluate it for the
batches of the run.

The folds over the parts of a batch have a history, one cache after each part (`PlacedRun`,
`TakenBackRun`, `RanRun`), along which a property is carried by the least number at which it
could fail (`UpTo`).

### The processes and the scripts

For every set of interrupts, crash points, foreign ports and moments of stop_servers, and so
beside a launcher at any command, where the run has three:

- `AlwaysOneOwner`: `OneOwner` with `ThreadInv` (a thread that has not stored its
  socket, or is gone, is not in an atomic) and `HandlerInv` (what a run of the handler can
  have taken at each of its steps). `TakeKeeps` is the exchange of an atomic, the only way a
  socket changes hands; two runs and the leaving thread cannot all get it.
- `RunsFusedServer`: every step of the composition is a step of `FusedServer` or leaves
  it alone, so that `OneOwnerUnderLauncher` follows.
- `AlwaysLeavesNothing` from `LInv`: outside the blind moments a running server is
  known until the kill that `cleanup` owes it (`Held`, `Cleaned`, `Empty`), no step of
  `cleanup` or stop_servers starts one (`Fades`), and the script ends through `cleanup` only.
- `LauncherTypeCorrect`: `TypeOK` of the composition.

### The pipeline

For every number of handlers and clients and all failures, from `PipelineAssumption`:

- `AlwaysOneAtATime`. `OneAtATime` needs that a client socket is open only between
  `connect` and `close` of `call_t2m` (`OpenInCall`); no step of a server opens one
  (`ServerMoveSafe`), and an asker either goes on with the mutex or returns with
  everything given back (`GoOnSafe`, `ReturnSafe`).
- `PipelineTyped`: `TypeInv` is `TypeOK` with `PlacesInv`, where each program can be while
  the others are where they are (t2m_infer has a client exactly while it serves one).
- `AlwaysNoLiveLeftover`, from `FrontInv` (the sockets t2m_infer holds are those of the
  client it serves and of its queue, each once) and `LinkInv` (a link the hidden port has
  open is the one it serves or in its backlog, once; the one t2m_infer fetches by is the only
  one open on both sides).
- `PipelineImplementsService`: initial states map to initial states, and every step is a
  question, an answer or a stutter of `T2MService`. That a clip is the prompt's own needs
  the way of the prompt there and back: `PromptInv` (the words an asker sent are its
  prompt, on the wire or read), `BackInv` (the link in use brings that prompt's vector or
  breaks off) and `ClipInv` (the words on the way back are the clip of that prompt, and
  what an asker keeps is its own). `ServiceAsker` has one case per action of an asker,
  `GivenAnswers` the one fact that counts: a full reply read means the clip of its prompt.

- `GoodPromptsAlwaysSucceed`: a prompt that fits is answered with its clip, *given*
  `Kindly`: the failures are a server that is stopped or killed and a client that hangs up,
  t2m_infer has two descriptors, and nobody sends the empty prompt. Each of the three is
  needed: a failed step is answered 500, and each empty prompt costs t2m_infer a socket (see
  below the findings), so that with enough of them no prompt succeeds. `GoodInv` says that
  as long as both servers are up, no fetch has failed or will (`Fetches`) and what is
  on its way to an asker with a fitting prompt is its clip (`Delivers`).

Each layer holds at every step by one lemma per side (asker, t2m_infer, hidden port), and
rests on the layers before it. The actions of the two ends touch one connection each,
so `Sides` and its companions say once what an operation of `Connection` does to either end.
`PipelineAssumption` keeps `None` apart from askers and classes of prompts.

### The stream engine and its page

For every set of clips with any lengths, of files, contents of the three input fields,
limits of history, steps, backlog and top-up, and any number of listeners and restarts,
from `ClipAssumption`, `LimitAssumption`, `NaNAssumption` and `ConfigAssumption`:

- `TypeCorrect`, `SegmentsStayWhole`, `BufferStaysBounded`, `ProtectedStayProtected` and
  `DropsOneAtATime`.
- `SwitchesAreBlended`, when a transition has at least one frame (`Transitioned`; the field
  has `min="1"`, `index.html:72`).
- `NeverStarved`, when the lookahead has at least one frame (`Fed`; the field has
  `min="20"`, `index.html:71`). An emptied field is NaN, and the engine then starves:
  `RecoveryIsImmediate` says what happens after that, when every content that is a number has
  at least one frame (`Refillable`).
- `AnnouncementsMatch` and `PlaybackIsSmooth` need `Fed` and that a delay is NaN or at least
  one frame (`Delayed`). The page starts with 3 but accepts 0 (`index.html:73`), where
  `schedule` cuts the frame that is next: the theorems say exactly for which contents it plays
  smoothly.

Such a hypothesis is part of the theorem that needs it. The instances of the runs satisfy
them: `stream` has lookahead 3, transition 2 and delay 1, `stream_drop` has the NaNs.

The inductive invariant is `IInv`: the engine is `Sound` (types; `Whole`, the frames of a tag
are one run; `Ordered`, tags do not come back; `Blended`; what is ahead is within
`LongestAhead`; with `Fed` a frame is ahead), and the drop handler has a file to load or to wait for unless
it is idle. `ShownInv` adds that what was announced is on screen. A tick plays several frames,
with events between them, and each may run a listener that schedules: `InPlace` is what
stays true of the frame that was on screen while they are played.

Each operator of the engine has a lemma that says what it leaves of a timeline, in one form:
`Continued` (frames are appended under new tags), `Advanced` (frames at the head are gone),
and for `Schedule` and `Reset` which prefix stays. What `fillFrames`, `TopUp` and `Play`
repeat is a function over `0 .. k`. Induction is not available as a rule with an operator
parameter, but is as a set: the least element of the set of counter-examples exists by
the library's well-foundedness of the natural numbers (`LeastNumber`), so that a set of numbers
that has 0 and with k its successor has them all (`UpTo`).

### Only model-checked

All liveness (out of the prover's reach): `EveryRequestAnswered`, `Answered`, `StopEnds`,
`InterruptEnds`, `StopScriptStops`, `DropGoesOn`; and the violated properties of the findings.
Every invariant, action property and refinement of the passing runs is proved.

## Not modelled

- llama.cpp apart from the KV cache and the hidden rows: a vendored inference engine
  of more than 400 000 lines of tensor arithmetic and hardware backends, most of the
  repository's implementation by size. What the servers rely on is in `KVCells` and
  `LlamaContext`; the rest is one step that succeeds or fails.
- `motion_to_vrma.cpp`, `npz_reader.h` and the body parser of run_server: pure sequential
  functions, where a unit test reaches what a model would. Read for this project, with
  these quirks: `find_key` (`run_server.cpp:127`) takes the first `"seed"` or
  `"duration"` anywhere in the body and the `:` after it; a NaN duration passes the check
  of (0, 60]; a motion without frames reads `trans[0]` (`motion_to_vrma.cpp:654`); the offsets
  of an archive are summed in 32 bits.
- The numerical parts of t2m_infer; rendering, retargeting, facial expressions and
  the generate button of the page (one fetch, then a schedule, as `ScheduleAnim`).
- Of the scripts: the PowerShell one, `--tail`, the `--skip` options, SIGHUP, a pid that is
  used again, and a second launcher, whose EXIT trap removes the pid files of the first.
- Of the page: two drop handlers at once, and negative numbers typed into the input
  fields, which `min=` does not keep from `parseInt(.value)`: a field is a natural
  number or NaN.
- Of the pipeline: a client that stalls inside its request, and a SIGPIPE between the two
  sends of `fetch_hidden`.
- Start-up and configuration (read once), platform layers (rename system calls; the
  Windows branch closes its sockets in another order), benchmarks, and clients beyond
  what they send. The HTTP pool and its queue are the library's.

## What is left

1. The generate button of the page composed with `T2MService`.
