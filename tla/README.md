# vvaves: a verification project

vvaves gives applications a voice and the web: a Rust server reads text aloud
(`src/apps/tts`), a Go API searches, fetches, renders and crawls pages, and
guards them all with keys and signed links (`src/apps/core`, `src/signed`,
`src/client`), and a React library plays what is read (`src/sdk-react`).  This
directory holds TLA+ modules of the parts where order, failure and concurrency
decide whether it works, the configurations that check them with TLC, and
theorems about them checked by TLAPS.

## 1. The system

| part | state it keeps | operations | interacts with |
|---|---|---|---|
| TTS batch (`engine/src/batch.rs`) | streams in order, one stacked KV cache per layer | `add`, `remove`, `step` | called by the engine thread alone; demands of every cache one row per stream |
| TTS scheduler (`server/src/engine.rs`, `metrics.rs`) | slot counters, job channel, two deques, active readings, gauges | `submit` (any handler), the loop of `run` (one thread) | atomics and a channel with the handlers, a frame channel per reading, the batch |
| KV caches (`modules/attention.rs`, `sdpa.rs`, `rope.rs`, `models/transformer.rs`) | alone: a linear buffer or a ring with `pos`, `len`, `head`; stacked: `k`, `v`, `cur`, `len`, `pos` | `forward`; `add_row`, `remove_row`, `push`, `attend` | owned by a reading, or by the batch |
| codec (`models/mimi.rs`, `seanet.rs`, `modules/conv.rs`, `voice_state.rs`) | what each convolution keeps of the chunk before, the codec's rings | `decode_from_latent`, `encode_to_latent` | called by the batch frame by frame, by voice cloning chunk by chunk |
| flow network (`models/flow_lm.rs`, `modules/mlp.rs`) | none | `forward_stacked`, `lsd_decode` | called by the batch for all rows at once |
| text (`tts_model.rs`, `pause.rs`) | none | `split_into_best_sentences`, `prepare_text_prompt` | called by the handler |
| TTS handlers (`main.rs`, `encode.rs`, `lame.rs`) | an encoder per sentence, a bounded body channel | `speech`, `stream`, `buffered` | submit, the frame channel, the client |
| crawl (`core/internal/crawl`) | job records and pages in KV buckets, a work queue; in a walk `seen`, `next`, `read` | `Submit`, `execute`, `Walk`, `Map`, status pages | replicas share the store and the queue; pages are read by three goroutines |
| registry (`core/registry`) | one row per application, a key cache per replica | register, rotate, revoke, list; `Keys`, `IssuerOf`, `Invalidate` | Postgres, the guards of the API |
| guards (`httpapi/auth.go`, `signed/`) | none | `guardSpeak`, `guardService`, `Verify` | key source, tokens |
| page reading (`httpapi/page.go`, `challenge/`, `pagecache/`) | the page cache, the proxied hosts | `readPage` | renderer, proxy, cache |
| renderer (`core/internal/render`) | requests under way and the last event of a tab | `renderOn`, `wait` | Chromium's events, the caller's deadline |
| player (`sdk-react/src`) | the state shown, the press that may be stopped; per press what is received, decoded, scheduled, heard | `play`, `stop`, `toggle`, `readFrames` | the framed body, Web Audio |

What is hard in each, and the lines where it bites, is the list of `hazards` in
`PROJECT.json`.

How the parts meet, and where the modules cut them:

- A handler of the TTS server splits the text, and calls `submit`, which takes a
  slot by a compare-and-swap, bumps a gauge and sends a `Job` down a channel; one
  engine thread receives it, gives it a stream of the batch, and sends frames
  down the reading's own channel; a task encodes them into the body the client
  reads.  `Speech` is one request from its text to its body, and takes of the
  engine what `Scheduler` shows (`ReadInOrder`, `ClosedIsComplete`,
  `EveryReadingEnds`).  `Scheduler` is `submit` and the engine
  thread over `Batcher`, which takes the batch as streams and row counts.
  `Rendering` is the batch under it, with what is in the rows: the same actions,
  over the caches of `StackedKv`, the flow network and the codec.
- A voice is either a file of exported keys, which `Rendering` starts from, or a
  recording encoded in chunks by the codec and read by the flow LM
  (`VoicePrompt`), offline.
- A crawl is a record in a key-value bucket, a message in a work queue, and the
  walk that whichever replica received the message makes.  `CrawlJobs` is the
  record, the pages, the queue and the replicas; `Walk` is one walk, which
  `CrawlJobs` takes as "every page of the site once, then the end" (what
  `ReadOnce`, `NothingMissed` and `WalkEnds` say of it); `SiteMap` is a walk
  under either of its callers, a crawl and `Map`.
- The registry's handlers write a row; the guards of every replica go by a copy
  of all rows merged with the environment's pairs.  `Registry` is the row and
  its writers, `KeySource` extends it with the copies.
- A page is fetched, and rendered when the fetch comes back with little
  (`ReadPage`, one host and its readers; `Renderer`, one tab).  The readers share
  a mark on the host and the cache; a walk has three of them at once.
- The framed body `Speech` writes is the one `Playback` reads: a piece behind
  its length, whole sentences each.

What makes each part correct:

| part | must hold |
|---|---|
| TTS batch | one row per stream in every cache; a stream ends in its budget; whatever shares the batch with it, a reading attends to what it would attend to alone, and sounds the same |
| codec | chunk by chunk through carried state, or at once: the same samples |
| TTS request | what was heard of a body can be played; nothing is lost but by an error or by leaving; a listener holds up nobody |
| text | splitting loses, doubles and moves no word |
| TTS scheduler | slots are conserved and given back before the end is seen; nothing admitted waits; the frames of a reading are those of one attempt per sentence, in order; everything ends |
| crawl jobs | pages numbered without gaps; what is counted is stored; done means whole and stays; a queued job is done at last |
| walk | a page once, breadth-first, none missed, the bound kept, the end reached |
| map | the list bounded, a page once, nothing dropped while there is room |
| registry | nothing but a revocation, or a newer registration, takes access away, and a revocation does at once |
| page reading | the proxy is used of hosts that refused, and then always; a challenge is not kept |
| renderer | settled means quiet; quiet is soon settled; everything ends |
| player | frames come out as they went in; one voice at a time, one piece at a time; the state is that of what is heard |
| key source | a key outlives the registry by less than `ttl`; the replica that answered knows at once |

## 2. The modules

| module | models | extends |
|---|---|---|
| `Batcher` | the batch as a value: `Added`, `PartiallyAdded`, `Removed`, `Stepped`, `StepFailed` | – |
| `BatcherSpec` | the batch under any caller, one action per method and per failure | `Batcher` |
| `Admission` | what admission promises: held, released, ended, refused | – |
| `Scheduler` | `submit`, the engine thread, listeners; implements `Admission` | `Batcher` |
| `Attention` | a transformer read step by step: linear and ring caches, masks | – |
| `StackedKv` | the caches of many readings side by side, and a step over all | `Attention` |
| `Codec` | convolutions and transposed convolutions with their state | `Attention` |
| `Mimi` | the codec: its layers, its transformer, encoding and decoding | `Codec` |
| `FlowNet` | the flow steps over all rows at once | `Codec` |
| `Rendering` | the batch with what it computes, beside the same texts read alone | `BatcherSpec`, `StackedKv`, `Mimi`, `FlowNet` |
| `VoicePrompt` | a voice cloned from a recording | `Mimi` |
| `Encode` | formats, the silence before a sentence, encoders | – |
| `Text` | a text cut into chunks for the engine | – |
| `Speech` | one request: handler, engine's side, body's task, listener | `Encode`, `Text` |
| `Walk` | one walk of a site | – |
| `SiteMap` | a walk and its caller: a crawl, or `Map`, which lists what sitemaps declare and fills the list by a walk | `Walk` |
| `CrawlJobs` | jobs, pages, queue, runners, a caller who pages | – |
| `Registry` | the row and the handlers that write it | – |
| `KeySource` | the copies of the keys, one per replica | `Registry` |
| `ReadPage` | the pages of one host read by several readers | – |
| `Renderer` | one page rendered: the wait for a quiet network | – |
| `Playback` | readings played in a browser | – |
| `BatcherProofs`, `SchedulerProofs`, `RenderingProofs`, `PlaybackProofs`, `KeySourceProofs` | theorems | the module each is named for |
| `CrawlProofs` | theorems | `CrawlJobs` and `SiteMap`, `ReadPage` and `Renderer` |
| `SpeechProofs` | theorems | `Speech`, `Encode` and `Text` |
| `Recursion` | induction over numbers and functions defined by recursion | – |
| `MC*` | small instances for TLC | the above |

`PROJECT.json` ("map") names the lines each definition stands for.

### Batcher, BatcherSpec (`engine/src/batch.rs`)

`batch.streams` is the vector of streams, by their ids (ids only grow and the
vector keeps its order, so a function says the same); of a stream only `step`
and `eosStep` remain.  `batch.rows` is the length of each layer's stacked cache.
`Added` is a row in every layer and then the stream; `PartiallyAdded(b, n)` is
`add` returning at layer n with the rows of the layers before it left behind.
`Stepped` is `step`: every stream advances, those `Done` leave with their rows.
What the flow LM says is a choice: any set of streams is heard to end.
`StepFailed` is `step` returning an error from the flow LM or from the parallel
decoding, some streams having moved on.  `Aligned` is what `forward_stacked`
demands before it computes anything.

### Scheduler, Admission (`server/src/engine.rs`)

`place[j]` is who owns the `Job` of reading j: its handler, the channel, a deque,
the active map, or nobody.  `taken`, `queued` and `gauge` are the atomics.
`reading[j]` is the `Active` record; `frames` what is left of the last step's
frames; `out[j]` what was sent down j's frame channel; `left` who dropped the
receiver.  `hurt`, the readings a failure reached, is history.

| action | code |
|---|---|
| `Grant`, `Refuse` | the `fetch_update` of `submit`, which checks and bumps in one step |
| `CountQueued`, `SendJob` | the two statements after it: the engine can run in between |
| `Receive`, `ReceiveNothing`, `Drain`, `Drained` | `recv` when idle, `recv_timeout(0)` when not, then `try_recv` |
| `Start`, `LiveStarted`, `BackgroundStarted` | the two admission loops and `show_active` |
| `StepBatch`, `StepBatchFails` | `batcher.step()` |
| `SkipFrame`, `BadFrame`, `ReadAgain`, `HoldFrame`, `ListenerLeft`, `SendFrames`, `EndSegment`, `FramesDone` | the loop over the frames, one action per way through it |
| `Close` | the drop of a `Job`'s last field, its frame sender; the slot, its first field, went back before |
| `Leave` | the client goes away |

A false start (`FalseStart`) is a reading not heard in its first frames, or at
the end of its sentence: it begins again, its frames unsent, `MAX_ATTEMPTS`
times at most.

### Attention, StackedKv (`modules/attention.rs`, `sdpa.rs`, `rope.rs`, `models/transformer.rs`)

An entry of a cache is what a key and its value were projected from and the
position the key was rotated by; a layer's output is `LayerOut`, any function of
its input, its position and the entries it read.  So everything about *which*
entries a query reads is the code's (buffers that double, rings that wrap, heads,
masks, blocks of queries) and nothing about how they are weighed.
`Forwarded` is `StreamingTransformer::forward` on one reading;
`StacksForwarded` is `forward_stacked` on all rows, from the rows `RowAdded`
lays to end at the common column `cur`.  `WholeForwarded` is the reference: the
sequence at once.

### Codec, Mimi, FlowNet (`modules/conv.rs`, `models/seanet.rs`, `mimi.rs`, `modules/mlp.rs`)

Numbers are residues modulo `Prime`, with which the convolutions are exactly the
linear maps the code computes; weights, biases, `Elu` and the transformer's
output are any functions.  `ConvForward` and `ConvTrForward` are the streaming
forms with the context or the overlap (less its bias) they hold over;
`DecodeFromLatent` and `EncodeToLatent` run the layers `DecoderLayers` and
`EncoderLayers` list, and `WholeDecode`, `WholeEncode` are the same maps on the
whole signal without state.  `PrecomputedModulations` computes the modulation of
every flow step for every row at once, and `ForwardStepCached` uses its rows.

### Rendering (`batch.rs` over all of these)

`kv` is the stacked cache of every layer, `reading` what else a stream holds: its
next input, its codec state, what it yielded.  `AddReading`, `RemoveReading`,
`StepAll` and the two failures are `BatcherSpec`'s actions with the caches they
work on, so `NoneOverdue` of `BatcherSpec` is checked here too.  An addition that
fails between two layers leaves its rows in the layers before: the batch is never
`Aligned` again, and `StepAll` is not enabled, as `forward_stacked` refuses it.  `Alone` is
`generate_stream_segment`, which the command line uses: one text, linear caches,
same noise; `AloneAudio` its latents decoded at once.  `spoiled` (the streams a
step failed on) and `pushes` are history.

### VoicePrompt (`tts_model.rs`, `get_voice_state_from_tensor`)

The signal made up to whole frames, one `EncodeChunk` after another with one
codec state, then `PromptFlowLM`.

### Text, Encode, Speech (`tts_model.rs`, `server/src/encode.rs`, `lame.rs`, `main.rs`)

A word of a text is its tokens and how it ends, a sample a number (loud above
zero), a block of mp3 the samples it holds and its place since the encoder was
made.  `Trimmed` is `LeadTrimmer::push`, `Pushed` and `Finished` are `Chunked`.

| action | code |
|---|---|
| `Ask` | `speech` up to `submit`: 400, 503 or a reading of so many chunks |
| `AwaitFirst` | the handler waiting for the first frame; streaming or `buffered` from there |
| `Collect`, `AnswerWhole` | `buffered` |
| `Encode`, `EncodeFails`, `Send`, `FlushTail` | the task of `stream`: a piece encoded, the body sent to, the tail after the channel closed |
| `Speak`, `EndSentence`, `EndReading`, `ReadingFails` | the engine's side of the frame channel |
| `Hear`, `Leave` | the client reads the body, or goes away; it may also do neither |

### Walk, SiteMap (`crawl/walk.go`, `map.go`, `scope.go`)

The loop of `Walk` considers a page of the frontier (`Consider`: counted, or
left out for robots.txt), waits for the semaphore with it (`Launch`), ends the
level at its end, at `MaxPages` or when ctx has ended (`EndLevel`), and starts
the next one when the goroutines are done (`NextLevel`).  A page lands with
links or an error (`Land`, `LandFailed`), under the mutex, in any order.  URLs
are model values and `Canonical` says which are spellings of one page.  The
order of links on a page is abstracted: of two spellings of a new page either
may be kept.  `SiteMap` adds the caller: a crawl takes a page as it is, a
listing lists its links in the callback (`ListWhole`), or some link meets the
list full and the walk is cancelled (`ListCut`); a listing that the sitemaps
alone fill makes no walk (`caller = "filled"`).

### CrawlJobs (`crawl/job.go`, `nats.go`, `httpapi/crawl.go`)

`record` and `stored` are the two buckets, `message` the work queue with the
number of deliveries, `runner` where `execute` is in each replica with its local
variables, `view` a caller who follows `next` from the first page.  Every call
of the store is a step of its own: `Goes` is its return, or its error although
the effect is there, `StoreFails` its error without effect, `Crash` the death
of the replica at any step.  The counters Pages and Failed are one `count`
(every emitted page is one or the other, and both are stored).  `Emit` is the
walk emitting a page: counted, numbered by `seq`, stored; `Touch` the write of
the record after it.  `Expire` is `ackWait` passing: with the runner gone, or
with its `InProgress` lost, which counts as a failure and is remembered by the
history variable `missed`.

### Registry, KeySource (`core/registry`)

A handler is `Get` (read the row, refuse or change the copy), `Save` (write the
copy back whole) and `Answer` (drop this replica's copy of the keys, answer).
A key is named by the request that minted it.  `Snapshot` reads the registry
into a replica's copy when the copy is older than `ttl`; `Served` is what a
guard asking now would be given.  Three history variables are not in the code:
`lastValid` (when each key last counted), `late` (the requests whose copy is
older than the row) and `standing` (the revocations the row was never without
since they were saved).

### ReadPage (`httpapi/page.go`, `challenge/challenge.go`, `Browser.Render`)

`preferred` is the fetch library's mark on the host, `cache` the guarded cache,
`site` what the host makes of visitors (it may change its mind).  A reader begins
(`BeginRead`), asks the cache (`Ask`), fetches, renders (`Fallback`: the route is chosen anew),
gets a page or a challenge (`Back`), or an error (`Fail`); `Judge` and `Mark` are
the two halves of `readPage` after a challenge.  `Refuse` is the library meeting
a refusal it can see, where `Bars` lets it.  `refused`, `met`, `began` and
`lifted` are history.

### Renderer (`render/browser.go`, `render/networkidle.go`)

Times are ages in ticks.  `Request` and `Done` are `networkIdle`'s two methods,
`open` what is really under way in the browser; `Turn` is one turn of `wait`'s
loop, `GiveUp` its `ctx.Done()`, `ReadOut` what `renderOn` runs after it.

### Playback (`sdk-react/src/useVoicePlayback.ts`, `frames.ts`)

A reading is what a press closes over: its variables, its context, its sources.
`Toggle`, `Play` and `Stop` are the button; `Answered`, `Read`, `BodyEnds`,
`WholeArrives` and `Thrown` the async function between its awaits; `PieceDecoded`,
`PieceUndecoded` and `SourceEnds` the callbacks, which come whenever they come.
Bytes are real: `FramesRead` works on the buffer, byte by byte.

## 3. The runs

"states" are distinct states; every run ends in about two minutes at most on two
workers.

| run | instance | states | what it shows |
|---|---|---|---|
| `batcher` | 2 layers, 3 readings of 2 voices with prompts of 3, 4 and 4 keys, a budget of 3 frames, one failing step or addition, between two layers too; a codec of two stages with a ring of 3 | 14,400 | in every batch that can be stepped, a stream has in every layer the row it would have alone, whatever was added, removed or left behind; it yields the samples it would alone; how far the caches grow; no stream outlives its budget |
| `scheduler_contention` | 3 live readings for 2 slots, a background one, every kind of failure, two of them | 428,000 | slots, gauges and deques exact; `Admission` implemented |
| `scheduler_delivery` | one live and one background reading of two sentences, two attempts, one failure of any kind | 235,000 | what a listener is sent, and that it is all unless a failure reached that reading; every reading ends |
| `walk` | 8 URLs, two of them one page, one forbidden, one outside; 5 kinds of page; depth 2, 4 pages, 3 at once; sitemaps declaring up to six, a limit of 4 | 17,500 | a page once, at its true depth, none missed, under either caller; nothing dropped from a list while it has room; the walk ends |
| `crawl_jobs` | one job of two pages, 2 replicas, 3 deliveries, 2 failures, one of which may be an `InProgress` the queue misses | 752,000 | no gaps in the numbers, whatever happens; done is whole and stays, a caller is given all, a job is done at last, while the queue hears the runners |
| `key_source` | a registration, a rotation and two revocations of one name over 2 replicas, 3 instants, 1 failure | 2,770,000 | how long a key outlives the registry; what the replica that answered serves at once; what alone undoes a revocation |
| `speech` | every text of up to 5 words of 6 kinds, up to 2 sentences of 2 frames, any format, framed or not; a hop of 2 in frames of 3; one failure; a body of 1 piece | 76,200 | what was heard plays; nothing is lost; splitting keeps the text; every request ends |
| `playback` | two presses; bodies of two pieces, one, none, and one cut short, read in any cut; one failure | 328,600 | frames as sent; one voice; idle is silent; playing ends |
| `renderer` | two requests and a redirection; window 3, grace 4, looks up to 2 apart, a timeout of 16 | 394,000 | settled is quiet, quiet is settled in time, everything ends |
| `read_page` | two readers, two pages, with and without a proxy, a host that changes | 77,400 | who goes through the proxy, what is kept |
| `registry_lost_update` | no failure at all | – | finding, see 5 |
| `voice_prompt_chunks` | recordings of 3 to 20 samples, chunks of 2 frames | – | finding, see 5 |

Why the bounds are enough:

- Slots race when more readings than slots are submitted at once: three for two,
  and the class with a single slot beside it.  Two failures are what it takes for
  one failure to meet the leftovers of another (a partial addition, then a step
  that refuses).
- In `batcher`, voices and texts make prompts of different lengths, one longer
  than those in the batch and one shorter, so a row is placed among zeros and
  rows are moved right to make room; two columns make every cache grow.  A
  window of 3 in a codec that makes two entries a frame is a ring that wraps in
  the middle of a write.  Of three streams the middle one can leave, and two in
  one step.  Sums modulo 97 that agree by chance would hide a difference in one
  sample, not in all the samples of every state; each property is refuted by a
  changed definition.
- In `speech`, a hop of two samples in frames of three is one that straddles
  frames, the silence kept is shorter than a hop, an mp3 block holds samples
  back, and a body of one piece is full after one.  The listener who stalls is
  any behaviour in which `Hear` stops.
- In `Text`, a limit of 4 tokens and words of 1, 2, 3 and 5 tokens give sentences
  below, at and above the limit, batches that are halved and a word that is over
  the limit alone.
- Two sentences are the fewest in which an end mark is followed by a frame; two
  attempts the fewest with a false start; two frames to a sentence the fewest in
  which a frame is held and another sends it.
- A walk of depth 2 has a level whose pages are followed, one whose pages are
  not, and the wait between; three fetches at once land in any order; four pages
  are fewer than the site has, so the bound bites, and more than a level has.
- Two pages and two replicas are the fewest in which a runner dies between two
  pages and another goes on, or in which two run one job because the queue missed
  the first; two failures meet each other at any two steps, and a delivery is left
  for the job to end in.
- Two registrations, a rotation and a revocation contain every pair of handlers
  that can race, a registration against itself included; `ttl` is two ticks and
  the grace one, so a key can leave its grace inside a copy's life.
- In `playback` two presses leave a stopped reading beside a live one, two pieces
  can decode and be heard in either order, and every byte of a body is a place to
  cut it.
- In `renderer` the looks are as far apart as they may be below the window, and
  the timeout holds a whole lull, one that is broken, and another.
- In `read_page` one reader overtakes the other at every step; a reader begins
  again when it has answered, so what one leaves behind meets the next.

Readings of one class are interchangeable and reduced by symmetry in
`scheduler_contention`, which checks no liveness.  `CHECK_DEADLOCK FALSE` is
set where the system may stop for good: every request answered, every job given
up or done, the clock at its bound, the batch empty with its streams used up, the
page rendered, the presses made and heard.  The walk has a step of its own for
having returned (`Finished`), and the readers of `ReadPage` begin again: `walk`
and `read_page` check deadlock.

### Fairness

- Scheduler: the engine thread runs while it has something to do, and a handler
  that took a slot runs `submit` to its end, there being no await in it.  No
  request need come, no listener need leave.
- Speech: the engine's side and the body's task go on while they can, each with
  weak fairness of its own: they are a thread and a task of the runtime, and
  neither waits for the other but through the channels.  Nothing is asked of the
  listener; that a body ends is promised only for one who reads on or leaves
  (`WF_vars(Listener) =>`), that the engine is done with the reading for any.
- Walk: the loop runs while it can, and each fetch answers: the fetcher and the
  renderer have deadlines of their own.  Nobody need cancel.
- Crawl: the queue delivers what it may deliver, and a runner that neither fails
  nor dies goes on.  Failures are bounded, not fair; `EveryJobEnds` is promised
  only while fewer things went wrong than there are deliveries and the queue
  heard every runner.
- Playback: answers come, bodies end, decodings settle and time passes; nobody
  need press.  Failures are not fair.
- Renderer: the service goes on and time passes; a `select` with both channels
  ready does not take the ticker for ever (`WF_vars(GiveUp)`), which Go's choice
  at random gives.  The page need not do anything.

The other runs check no liveness: the batch and the readers do as their callers
let them, and nothing in the registry must happen by itself.

## 4. What is proved

For every value of the constants, from the named assumptions of the modules and
the hypotheses of the theorem, where it states any: `Numbers` in
`RenderingProofs` and `Declared = {}` in `CrawlProofs`.  Each is explained below.

**Batcher** (`BatcherProofs`).  The lemmas say that each operator takes a good
batch to a good batch (`GoodBatch`: every cache has at least as many rows as there
are streams, so no subtraction goes below zero) and an aligned one to an aligned
one, `PartiallyAdded` excepted; and `NeverRealigned` that no step of the batcher
takes a batch that is not aligned to one that is: a row left behind by a failed
addition is never made up for by the streams that come or go after it.

| theorem | says |
|---|---|
| `BatchTypeCorrect` | types, no cache below zero rows |
| `StreamsInTime` | as long as nothing failed, no stream lives past its budget |

**Rendering** (`RenderingProofs`).  What a reading is given beside others is what
it is given alone.  The argument goes from a column to the batch:

1. `GoodStack` says that the rows of a stacked cache end at the common column, are
   as long as they are filled and fit the buffer.  Three theorems say what each
   operation does to what a row reads.  That `next_power_of_two` is no smaller than
   its argument, on which `add_row` relies, is proved (`NextPowerCovers`).
2. The same of the linear cache of a text alone; a row and a linear cache that
   hold the same keys at the same position (`RowIsAlone`) give the same output and
   still agree after a push.
3. Layer by layer, both forms of the flow LM are functions defined by recursion
   over the layers; `FrameAlone` is that induction: all rows that agreed agree, and
   the outputs are the same.
4. The flow network reads a row of each matrix only (`LatentAlone`: over the blocks
   and over the flow steps), given that row i of the precomputed modulations is the
   modulation of row i.
5. `add` and the removals move rows: `IndexOf` says where a stream's row goes.
6. `KvInv` (types, stacks good, bounded and as many rows as the batch counts) is
   inductive; so is, beside it, that an aligned batch has `AloneInv` (one row per
   stream, and the row of each unspoiled stream tracks the state `Alone` has at its
   step).  A batch that is aligned after a step was aligned before it
   (`NeverRealigned`), so the rows of a batch that was not need not be followed.

`Numbers` says that the arithmetic left abstract gives integers: `LayerOut`,
`BlockOut`, `Noise` on integers.  TLC cannot evaluate it (it ranges over all
integers), so it is a hypothesis and not an `ASSUME`; the instance defines the
three by additions and products.

| theorem | says |
|---|---|
| `PushKeepsRows` | a pushed column is one more entry of each row, in its place |
| `AddRowKeepsRows` | grown and shifted, the rows read what they read, and the new one its prompt |
| `RemoveRowKeepsRows` | the other rows read what they read |
| `RenderingIsBatching` | with its numbers the batch implements `BatcherSpec`: each step is one of its steps or a stutter |
| `StacksStayBounded` | the rows the batch counts, all in one buffer, and the columns those of the longest prompt and one per step since the start |
| `EveryoneReadAsAlone` | in every batch that can be stepped, every latent of a reading is the one it has alone, whoever joins, ends, leaves or fails to be added |

**Scheduler** (`SchedulerProofs`).  The slot counter is an unsigned integer that
`Drop` decrements: that it never wraps is only true because it counts the
readings between two points of the code.  The inductive invariant is therefore
`IInv == Shape /\ SlotCounts /\ QueueCounts /\ NothingWaits`: the types of all
but the counters, then the counters as cardinalities of sets of readings
(`Within`), from which they are natural numbers, then the deques.  Each
action moves one reading, or drops a set of them, between places; the `Within`
lemmas say what that does to each cardinality.

Two more invariants stand on it.  `StreamsHeld` adds to `StreamsMatchReadings` that
a frame marked done is of a stream that has left the batch, that an id is never used
again, and that no frame is left over when the loop goes round.  `Delivered` says of each
reading what was sent so far: between two sentences, with all frames of the attempt
held back, or in the middle of one, which then can have no other attempt.

| theorem | says |
|---|---|
| `TypeCorrect` | types, no counter ever wraps |
| `CountersAreExact` | a slot is held exactly from admission to the end, and the queued gauges count the readings not started yet |
| `NoReadingWaits` | the engine neither steps nor sleeps with a reading in a deque |
| `AdmissionKept` | the scheduler implements `Admission`: each step is one of its steps or a stutter |
| `StreamsAreTheReadings` | every active reading has its stream, and until something fails every stream its reading |
| `ReadingsAreInOrder` | sentences in order, each the frames of one attempt without a gap |
| `ClosedChannelsAreComplete` | a closed channel was sent everything, unless a failure reached its reading or its listener left |

**Player** (`PlaybackProofs`).  `PlayInv` says of each press that its counts agree
(`GoodReading`: what is decoding, laid, undecoded and done, against what it was given), that its
pieces lie end to end (`EndToEnd`), and that what it was given is the pieces that
have come whole while the buffer is exactly the bytes behind them (`FrameInv`).  Of all presses
together it says that, unless one was marred (a piece or its body failed), whatever is open
besides `current` has nothing left to decode or to play (`AloneIn`, `Quiet`); this is
what `finishIfDone` must establish before the state is idle, since the next press
starts from there.  Under `FrameInv` lies the byte work: `BytesLaid` says where each
piece ends in the body a server writes, `NextFrame` what the loop of `readFrames`
takes out of a buffer that begins between two pieces, and `ReadsWhole`, by
induction over its turns, that it takes all there is and no more.

| theorem | says |
|---|---|
| `FramesAreAsSent` | however the body is cut, the frames are those that have come whole, as sent, for pieces of any number and length |
| `OneVoiceIsHeard` | one piece of a reading at a time, and one reading unless one was marred |
| `IdleMeansSilent` | idle means that nothing open decodes, waits or sounds, unless one was marred |

**Registry and key source** (`KeySourceProofs`).  The invariant has a part for each
way a copy can be behind: `CopiesFollow` (a handler's copy of the row, unless it is
`late`, neither brings a revoked row back nor loses its key), `Seen` (a replica's copy holds no
key that had stopped counting when it was read), `Told` (a copy too young to be read
again already has what its replica answered).  `Told` speaks of the
revocations in `standing`, a history variable: those the row was never seen
without since they saved.

| theorem | says |
|---|---|
| `KeysLagLessThanTtl` | a replica that can read the registry goes by a key for less than `ttl` after it stopped counting |
| `ChangesTakeEffect` | the replica that answered a revocation refuses the application's keys for as long as it stands; one that answered a new key serves it while it is the row's, if nothing failed |
| `NothingElseUndoes` | only the write of a copy older than the row revives a revoked application or drops its key |

**Speech** (`SpeechProofs`).  Nearly everything here is a sequence of sequences
(chunks of words, sentences of samples, pieces of bytes), so the proofs begin with
what `FlattenSeq` does to an appended, a split and a shorter sequence.  Three
layers stand on that.

*The splitter.*  `RawSentences`, the cutting of a long sentence and the packing of
sentences into chunks are loops over a text.  Each is shown to keep, turn by turn,
"what is out, what is pending and what is left make up the text", and to put an end
of a chunk inside a sentence only when that sentence is over `MaxTokens` by itself.

*The encoders.*  `EncState` says where an encoder is after samples `x` of which `o`
bytes came out: the trimmer holds the silence that may still turn out to be a tail
(`TrimState`), the mp3 coder the samples of an unfinished block (`Mp3State`).  Any
cut of the same samples into pieces leads to the same place, and what `Finished`
adds then makes the sentence encoded alone.

*The request.*  A place in a reading is a sentence and a number of its samples.
`Reached` says that the pieces in the channel lead from where the task has read to
where the engine has written (`Path`), whatever way the engine cut them.  The
inductive invariant is
`SpeechInv == Types /\ Unanswered /\ Gathering /\ Encoding /\ Whole /\ Playable`.
`Gathering` and `Encoding` relate what the task holds to that place, and what it
has sent to the sentences before it (`Streamed`); they are given up when the
listener leaves.  `Playable` is about what was sent and not about the task
(`Played`), so it stays true then, and after an encoder failed: the engine may still
lengthen the sentence that was cut off, and what was sent must begin that one too.
This is why `HeardIsPlayable` alone is not inductive.  The assumptions are those
of the modules: texts are sequences of words, and the sizes of hops, blocks, frames
and batches are positive.  `SpeechInv` ranges over all sequences of samples, which TLC
cannot enumerate; the run checks the three properties that follow from it.

| theorem | says |
|---|---|
| `SplitKeepsTextHolds` | no word lost, doubled or moved; only a sentence over the limit is cut, and a chunk over the limit is half a batch at most |
| `NothingLostHolds` | a body that ends with its listener there, no encoder having failed, holds all the engine sent |
| `HeardIsPlayableHolds` | what a listener holds begins the stream of all sentences encoded on their own, or, framed, is whole sentences of it |

**Crawl** (`CrawlProofs`).  Three invariants.  `NumberedInv` says that whoever will
write the record or store a page knows that every number below its own is taken
(it read the record, which knew it, or stored them itself), and that a number
once taken is never free again; it does not care how many runners there are.
`SoleInv`, kept as long as the queue has missed no `InProgress` of a live runner
(`HeardInv`: `~missed => SoleInv`), says that a busy runner's job is out and is
its alone, that nobody about to write holds a job that is done, and that the
pages a runner walked are stored below its next number.  `AnswerInv` says that a
caller told "done" was told the count that will stay.

| theorem | while | says |
|---|---|---|
| `CrawlTypeCorrect` | – | types, `MaxDeliver` kept |
| `PagesHaveNoGaps` | – | no gaps, for any number of runners of one job, and what is counted is stored |
| `OneRunnerOnly` | `~missed` | one runner a job |
| `DoneJobsWhole` | `~missed` | done means every page of the site, and a job is forgotten only when done |
| `DoneJobsStay` | `~missed` | the record of a done job is not written again |
| `DoneJobsPagedWhole` | `~missed` | a caller who follows `next` to the end of a done job was given every page it counts |

**Walk** (`CrawlProofs`).  The invariant grows in four layers, each the ground of
the next.  `PlaceInv`: the frontier, the page that waits, the pages being read,
the next level and the pages emitted are apart, hold one spelling of each page,
and are all in `seen`.  `CountInv`: `read` counts them as they move.  `DepthInv`:
a page of a level is linked to from the level above (`DueAt`) and from no page
before that, because whatever an earlier page linked to is in `seen` already and
is not added again.  `KeptInv`: unless the walk was broken off, a key in `seen`
is a page in one of those sets or one robots.txt forbids.
The theorems are about `MapSpec`, so about both callers: of a map, whose callback
may cancel the walk, each step is one of `WalkNext`.  `ListInv` then says that
whatever the walk knows of is in the list, or the list is full; it begins so when
the walk begins at the start alone (`Declared = {}`, see 5).

| theorem | says |
|---|---|
| `WalkTypeCorrect` | types |
| `PagesReadOnce` | no page is emitted twice |
| `CountsWhatIsEmitted` | `read` is exact and bounded, the fetches at once too |
| `WalksBreadthFirst` | a page is emitted at its true depth |
| `NoPageMissed` | a walk neither cancelled nor full is complete |
| `NothingIsDropped` | the list of a map is bounded, holds a page once, and is full or holds every page read and every admitted link found |

**Page reading** (`CrawlProofs`).  `ReadInv` adds to the types that every
challenge a reader holds, every mark and every use of the proxy goes back to a
refusal of the direct address (`Earned`); that a reader which knows of the mark,
because it was there as the read began or because it set it, goes through the
proxy (`Informed`); and that a reader of an open host holds no challenge
(`Welcome`).

| theorem | says |
|---|---|
| `ReadTypeCorrect` | types, two fetches a read at most |
| `ProxyOnlyEarned` | no use of the proxy before a refusal |
| `MarkedAlwaysProxied` | no direct fetch or rendering by a read begun after the mark, nor by a second fetch |
| `LiftedAlwaysSeen` | no challenge from a host open since the read began |

**Renderer** (`CrawlProofs`).  What the loop saw at its last turn bounds how
long the page has been quiet from both sides: `LullIsQuiet` from below, unless
there was an event since that turn, `QuietIsSeen` from above.  The assumption
that looks are less than the window apart is needed: of two looks a whole window
apart a request can come and go between without the second seeing it.

| theorem | says |
|---|---|
| `RenderTypeCorrect` | types, the requests under way counted |
| `SettledHasBeenQuiet` | settled means quiet for window and grace |
| `StraightPagesSettle` | without redirections, quiet is settled in time |

The type invariants of the batch, the crawl, the walk, the page readers and the
renderer are established by these theorems; the runs spend their time on the
other properties.

**Recursion.**  Layers, bytes, flow steps and turns of a loop are recursive
functions.  The library's induction theorems take an operator, which no prover at
hand instantiates; `Recursion` states them with sets and functions in its place
(`Induct`, `RecursionExists`, `RecursionStays`), proved from the well-foundedness
of `<`.  A recursive function of the model is then shown to be the one its equation
defines, and what its values stay in is an invariant over its steps.

Only model-checked:

- `PlayedAsAlone`: that the codec's chunks are the whole signal.  It needs an
  induction over frames and layers at once for each kind of convolution and for
  the codec's ring, with each layer's state named; the theorems stop at the latents.
- `RevokedForGood` and `ChunkedEncodesAsWhole`, which the code does not keep
  (section 5).
- Every liveness property, which the prover cannot do: `EveryReadingEnds`,
  `EveryJobEnds`, `WalkEnds`, `EveryRequestEnds`, `PlayingEnds`, `RenderingEnds`.

## 5. Where the code and what is said of it part

Two are runs that TLC refutes.

- `RevokedForGood`: rotate, register and revoke read, change and write the row
  without a transaction; a copy read before a revocation undoes it
  (`rotate_keys/handler.go:52`).
- `ChunkedEncodesAsWhole`: every chunk of a voice prompt is encoded at step 0
  (`tts_model.rs:640`), which the downsampling convolution takes for the start of
  a signal (`conv.rs:116`), so it repeats the chunk's first frame in place of the
  context it was handed.

The others were seen while modelling; the models have each of these behaviours,
and the properties are stated around them.

- A failed step clears the active map only; the streams stay in the batch
  (`engine.rs:283`), though the log says they are dropped, and the next reading
  steps beside them.
- The hook says "playing" when a piece decodes while one frame was received
  (`useVoicePlayback.ts:135`); with two received by then it says "loading" for as
  long as the reading is heard, and after.
- Pieces are started in the order their decodings settle
  (`useVoicePlayback.ts:121`), not in the order they came in.  `OneVoice` says
  only that they do not overlap.
- At its deadline `wait` returns without an error "and yields whatever it had
  rendered by then" (`networkidle.go:79`), but what reads the page out runs under
  the same context (`browser.go:168`) and fails.  The comment at
  `httpapi/render.go:55` expects the failure.
- The browser's protocol announces a redirected request once more and finishes it
  once; `request` counts both (`networkidle.go:39`), so a page with a redirection
  is never quiet, runs to its deadline, and by the point above fails.
  `StraightQuietSettles` is promised of pages without one.
- Of several readers a host challenges at once only the first to judge reads again
  through the proxy; the others find its mark and give up (`page.go:28`), not
  having been through the proxy themselves.
- A live runner whose `InProgress` the queue missed has its job delivered beside
  it: the record is then written by two, and may stay "running" for good with the
  job acknowledged.
- A reading that fails in the middle of its body leaves its pieces playing and
  its context open, with the state "unavailable" (`useVoicePlayback.ts:148`); the
  next press starts a second voice over it, and a piece still to be decoded can
  put the state back to "playing" for good.  `OneVoice`, `IdleIsSilent` and
  `PlayingEnds` are promised only while nothing failed so (`Failed`).
- The callback for a piece that does not decode does not ask whether the reading
  was stopped (`useVoicePlayback.ts:137`): with the body over it can call the
  reading begun since idle (`Stale`).
- A context is closed by a stop alone: one is left open for each reading heard to
  its end.
- `MemoryQueue` puts a failed job back only if there is room (`memory.go:86`), but
  no job of a `MemoryStore` fails; `Submit` leaves a queued record behind when
  `Enqueue` fails.
- A revoked application has no entry in the keys, so the environment's pair for
  its name is served again (`keys.go:110` against `keys.go:25`, "the registry
  wins").
- After three deliveries a job is not delivered again and its record stays
  running (`nats.go:156` against `nats.go:128`); `EveryJobEnds` is promised only
  while fewer things failed than there are deliveries.
- A chunk may be over `MAX_TOKENS_PER_CHUNK`: a batch of words is halved once
  (`tts_model.rs:764`, though the comment says "recursively" and the one at
  `tts_model.rs:711` "never exceed"); `SplitKeepsText` states the bound that
  holds.  A lone word over the limit yields an empty chunk besides, which is
  read as a full stop.
- A sentence ends at any of the five marks wherever it stands, so numbers, times
  and addresses ("1.5", "12:30") are cut (`tts_model.rs:718`).
- The stacked caches grow by a column with every step and never give one back,
  not even when the batch empties; `add_row` asks for the capacity and the shift
  (`attention.rs:486`), so a prompt longer than the rows there are doubles the
  buffers.  `StacksBounded` says how far `cur` goes.
- `increment_steps` looks for a key "offset" that no module's state has.
- A body cut by a failure ends as one that is complete: the listener cannot tell.
- `add` failing between two layers leaves rows without a stream (`batch.rs:109`
  against the comment on `batch.rs:46`): from then on every step fails, and no
  property forbids it.  The runs of the batcher and of the scheduler have the
  failure: nobody is stepped on rows mixed up by it (`ReadAsAlone`), and the
  scheduler's own promises hold all the same.
- The frame channel closes on a failure in the middle as it does on completion
  (`engine.rs:283` against the comment on `engine.rs:53`): `ClosedIsComplete` is
  promised to the readings no failure reached (`hurt`).
- A failed step goes back to the blocking receive with the active gauges as they
  were (`engine.rs:284` against `metrics.rs:52`).
- With the listing of sitemaps off and the seeding by them on, a page the walk
  starts from may not be listed (`map.go:12` against `map.go:6`).
- A second rotation within a day ends the first key's grace (`domain/app.go:59`
  against `app.go:14`), one previous key being kept.
- Replicas other than the one that answered honour a revoked key for up to `ttl`
  (`keys.go:71` against `api.go:90`), and for as long as the registry cannot be
  read; `GuardLag` speaks of replicas that can read it.
- A replica whose first reading of the registry fails goes by the environment's
  pairs alone for `ttl`.

## 6. Abstractions

- The TTS server's release build aborts on a panic: no unwinding, no poisoned
  mutex.  A reading has at least one segment, as the splitter makes it.
  `remove_row` cannot fail on a row that exists.  Timing histograms and logs are
  left out.
- Tensors have one channel and one head, and samples are residues modulo a prime:
  rounding, f16 caches and quantized weights are left out.  The layers of a
  transformer but for what they read are `LayerOut`, a residual block of the flow
  network but for its modulation `BlockOut`, with the factor of the flow step;
  the end-of-speech score is the choice `BatcherSpec` makes.
- After a failed step the codec states the failing streams may be left with are
  not followed (`spoiled`): such streams are only claimed to disturb nobody.
- A text is words; capitals, white space, the padding of short texts and marks
  glued into a word are left out, and so is a tokenizer that fails (counted as 50
  tokens by the code).  The server strips pause marks: the reading of pauses is
  the command line's.  The voice of a request is found: an unknown one is the
  default.
- Samples are loud or not: gain and 16-bit conversion, which are per sample, are
  left out.  LAME makes a block of every so many samples and of the rest when it
  is flushed.
- `Speech` bounds sentences, frames and the body's capacity (16 pieces in the
  code); texts of more sentences are split and not read.
- A walk's page has a set of links; what it is otherwise is left out.  A walk
  whose caller met an error of the store goes on to its end without effect, so
  `StoreFails` goes straight to the answer.  What sitemaps declare, robots.txt
  allows and a scope admits are sets the walk is given.
- `MaxPages` bounds a walk and so a delivery, not a job: a job delivered again may
  store as many pages anew.  Records and pages expire after a day: a day
  does not pass.  A walk of an invalid start (the record's status "failed") does
  not occur: `Submit` has normalised the start before.
- `Snapshot` holds the mutex of the key source while it reads the registry, so it
  is one step.  Failing to mint a key is folded into failing to read the row.
- In `Playback` there is Web Audio, `resume` succeeds, a closed context fires no
  more events, and a click sees the state of the moment.  A length has one byte
  that counts.  The return of `readFrames` on an aborted signal is not reached:
  the read under way rejects first.
- In `Renderer` the browser's events arrive in order and each request ends or
  stays open; the number of requests is bounded by `MaxRequests`.  In `ReadPage`
  hosts do not interact and the cache forgets when it likes.
- Code outside the repository is as its callers use it: the NATS work queue
  (delivered until acknowledged, `MaxDeliver` times), the key-value buckets and
  Postgres (linearizable, each call may fail with or without effect).

## 7. The plan

Done since the first plan: `Speech` with `Encode` and `Text`, `StackedKv` with
its theorems, the codec and `Rendering`, `VoicePrompt`, `Playback`, `Renderer`
and `ReadPage`, and theorems about all of them but `VoicePrompt`.  What is left, in this order:

1. The one safety property without a theorem that the code keeps: `PlayedAsAlone`,
   convolution by convolution.
2. Pure operators against reference definitions: guards and signed links
   (`auth.go`, `signed`), scopes and robots.txt (`scope.go`, `robots.go`,
   `sitemap.go`), the pauses of the command line (`pause.rs`).
3. The players and the server in one: `Speech`'s body into `Playback`.

### Not modelled

- The tensors' numerics themselves: rounding, quantization, loading of weights
  (`quantize.rs`, `weights.rs`, `audio.rs`, `conditioners/text.rs` but for its
  count of tokens).  Nothing there is ordered by anything a model checker
  reaches.
- The start and the proxy of the browsers, the handlers that decode a request, call
  a service and encode its answer, the web application, generated clients,
  migrations and manifests: no state of their own, or none in this repository.
- The in-memory queue and store of a crawl in a single process: a channel and a
  map under a mutex, with nothing that fails or restarts.
- What the plan above still lists.
