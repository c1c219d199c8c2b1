# TLA+ models of dd-trace-go's concurrent integrations

This directory holds TLA+ specifications of the parts of this repository where
goroutines, channels, locks and callbacks interact. It also holds the TLC
configurations that model-check them, and TLAPS proofs of their main safety
properties for every value of the constants.

## The system and its parts

The source tree (`src/`) contains several tracing integrations. Each one wraps a
library and starts and finishes spans around that library's operations:

| Part | Source | Concurrency |
|---|---|---|
| Sarama async producer wrapper | `src/contrib/Shopify/sarama/sarama.go` 182-295 | one wrapper goroutine selecting over the wrapper's Input and sarama's Successes/Errors channels; sarama's own goroutines; the application closing |
| Sarama partition consumer wrapper | same file, 28-110 | one goroutine ranging over sarama's Messages channel and handing messages on; sarama fetching; the application closing |
| Sarama sync producer | same file, 112-158, 257-285 | any number of goroutines sharing the producer, each blocked in one sarama call per send |
| randSource | `src/unnamed/part_000` 13-47 | goroutines sharing a math/rand source behind a sync.Mutex |
| gRPC WAF event listener | `src/unnamed/part_003` 177-273 | receive callbacks of one RPC sharing an atomic counter and a mutex-protected slice; a concurrent release of the WAF handle |
| HTTP WAF listener | `src/unnamed/part_003` | one WAF run per request at handler finish |
| net/http WrapHandler, ServeMux | `src/unnamed/part_002` 377-453 | one goroutine per request, sharing the handler's closure variables and config |
| graphql tracer | `src/unnamed/part_001` | none shared between calls |
| checkmilestone | `src/checkmilestone.go` | none: a single HTTP GET |

The core tracer is described in spec.md: the trace buffer, sampler, encoder and
transport. Its code is not in this source tree, so it is not modelled.

## Modules

Every module takes its definitions from the lines that `PROJECT.json` "map"
names. Control flow is kept: every guard, early return, channel operation and
lock. Data is abstracted: messages, requests and goroutines are model values;
spans are identified with their message or request; slices are counted.

### SaramaAsyncProducer, MC_SaramaAsyncProducer

Variables:
- `wpc` and `wmsg` are the wrapper goroutine: its location and the message it handles.
- `started`, `finishes` and `spans` are the span map.
- `inflight` is what sarama holds.
- `returned` and `lost` are where results went.
- `closeMode` and `pclosed` describe closing.

An unbuffered channel send and its receive are one step.

Actions of the wrapper goroutine:
- `ForwardInput` starts a span, injects it and forwards the message (lines 213-222).
- `SendOnClosedInput` is the same send after sarama has closed Input. It panics.
- `ReceiveSuccess` and `ReceiveError` look the span up, finish it and forward the result (229-254).
- `DeliverResult` hands the result to the application.
- `ReceiveClosed` is the deferred close on exit (223-228).

Environment actions:
- `SendInput` is the application writing.
- `SaramaReturns`, `DropResult` and `DrainResult` are sarama returning, discarding, or Close() draining a result.
- `Close(mode)` is AsyncClose or Close.
- `Shutdown` is sarama closing its channels.

`Configs` ranges over the three config booleans the code reads: Return.Successes, Return.Errors and header support.

### SaramaPartitionConsumer

Variables:
- `wpc`, `prev` and `received` are the goroutine.
- `produced` and `taken` are sarama's messages.
- `finishes` counts finishes per message.
- `closing` and `pclosed` describe closing.

Actions:
- `Receive` receives a message and starts its span (47-69).
- `Send` hands the message to the application (71).
- `AfterSend` finishes the previous span (73-77).
- `RangeEnd` finishes the last span and closes the wrapper's channel (78-85).
- `Fetch`, `AppClose` and `SaramaClose` are the environment.

The module also maps the goroutine onto **ConsumeSpans**, the contract a
traced consumer promises with no goroutine or `prev` in sight. Messages are
handed over one by one (`Hand`). A span is finished only once its successor was
handed over (`Finish`), or with the end of the stream (`End`). The refinement
mapping `CS` takes `handed` to `received`, `closed` to the set of messages whose
span is finished, and `done` to "the goroutine has returned". `Receive`,
`Fetch`, `AppClose`, `SaramaClose` and the first `AfterSend` map to stutters.

### SaramaSyncProducer

Variables:
- `cpc` is each calling goroutine's location.
- `batch` is the slice of its current call, and `pending` the part sarama has not yet handled.
- `nextMsg` is the next fresh message.
- `hdr` is the span context in each message's headers.
- `pfinishes` counts finishes per produce span.
- `klog` is the partition: the delivered messages with their headers.

Actions, per caller:
- `SendMessage` and `SendMessages` start a span per message (`StartSpans`, lines 257-279, which injects the span's context when the version has headers) and enter the sarama call (119-121, 130-134).
- `SaramaProduce` is sarama delivering the call's next message, or failing it.
- `SaramaReturn` is the call returning once every message is handled.
- `ReturnSpans` finishes every span of the call (122, 135-137; `FinishSpans` is 281-285).

### SaramaPipeline

This module composes the consumer and the sync producer. The only things they
share are the partition `klog` and the headers in it:
- `FetchLogged` fetches only messages the partition holds.
- `ReceiveTraced` is `Receive` plus the parent the span is started with (lines 62-67): the context in the message's headers, recorded in `cparent`.
- `PipelineInit` is WrapConsumer and a successful ConsumePartition (95-110) next to WrapSyncProducer.

### RandSource

Variables:
- `pc` holds each goroutine's location, and `owner` is the mutex holder.
- `pos` is the math/rand source's state, abstracted to how far along its pseudo-random sequence it is. Its k-th value is written k - 1.
- `got` is the state each goroutine's source call read.
- `draws` is the sequence of numbers Int63 has returned.
- `calls` counts the Int63 calls, bounded by `MaxCalls`.

Actions:
- `CallInt63` and `CallSeed` are the calls.
- `Acquire` is Lock returning.
- `SourceRead` and `Int63Read` are `rs.source.Int63()` (line 37). The source is a read-modify-write, so it takes two steps: read the state, then write the advanced state back. `Int63Read` also unlocks and returns the value.
- `SeedRecurse` is line 45. It calls `rs.Seed`, the method itself, which locks the held mutex again.

### GrpcWafListener

Variables:
- `pc` holds a location per concurrent receive callback.
- `nbEvents` is the atomic counter.
- `events` is len(events).
- `msgsLeft` counts the messages the stream still delivers.
- `released` and `finished` record the WAF release and the handler finish.
- `reported` counts the events reported.

The actions follow the callback's statements:
- `Receive`
- `CheckCap` (line 196)
- `RunWaf` (202-236), where the WAF verdict is a free choice
- `CountEvent` (238)
- `AppendEvent` (239-241)
- `HandlerFinish` (244-258), where the rate limiter's answer is free
- `Release` (87-96)

### HttpWrapHandler, MC_HttpWrapHandler

Variables:
- `pc` holds a location per request goroutine.
- `resource` is WrapHandler's captured variable.
- `localRes` is ServeMux's local variable.
- `nOpts` is len(cfg.spanOpts).
- `readOpts` is each request's read of the slice before it appends.
- `spans` is what each span was given.

Actions:
- `Arrive` is the ignore check.
- `NameWrap` and `NameMux` are the resource namer.
- `ReadOpts` and `WriteOpts` are the two halves of the unsynchronised `append`.
- `Serve` is the TraceAndServe call.

## Runs

| Run | Expect | What it shows |
|---|---|---|
| sarama_async | pass | Default configs, idle close, 3 messages, pipeline of 3. Spans are finished once and none is left on exit (`SpanFinishedOnExit`). Every result reaches the application (`ResultsDelivered`). Every span is eventually finished (`SpansFinished`). |
| sarama_async_any_close | pass | Close or AsyncClose at any time. No span is finished twice (`TypeOK`). A result is passed on only after its span finished (`SpanFinishedBeforeResult`). |
| sarama_pipeline | pass | Two callers send 3 messages, singly or in batches of 2, while the consumer reads the partition, fetching and closing at any time. Consumer side: exactly the span of the message being processed is open (`ConsumeSpanWindow`), closing finishes every span (`CloseFinishesSpans`), the goroutine implements ConsumeSpans (`ImplementsConsumeSpans`), and every delivered message reaches the application unless it closes (`DeliveredHandedOver`). Producer side: no produce span is finished twice (`ProducerTypeOK`). A produce span is finished only after no call still has its message pending with sarama (`SpanFinishedAfterSend`, an action property). Every produce span is finished (`ProduceSpansFinished`). Across the two: each consume span is the child of its own message's produce span (`TraceContinuity`). |
| grpc_waf | pass | One callback at a time, cap 2, 4 messages. The cap holds (`EventsCapped`). |
| rand_source | pass | 3 goroutines draw 4 numbers, and 1 may reseed. No two Int63 calls return the same value of the source's sequence (`DistinctDraws`), so trace and span IDs do not collide. The mutant drops the `rs.Lock()` of line 36, and two calls then draw the same number. |
| sarama_full_pipeline | violation | The goroutine blocked on Input and sarama blocked returning a result wait on each other. |
| sarama_close_drain | violation | Close() drains results itself, so their spans are never finished. |
| sarama_no_errors | violation | With Successes on and Errors off, the span of a failed message is parked for ever. |
| sarama_close_panic | violation | A close right after a write makes the goroutine send on a closed channel. |
| grpc_waf_concurrent | violation | Two overlapping callbacks pass the `==` cap check together. nbEvents overshoots, and the cap never triggers again. |
| rand_source_seed | violation | Seed re-locks its own mutex. Every later Int63 call blocks. |
| http_wrap_resource | violation | The namer's answer overwrites WrapHandler's captured resource. A later request the namer leaves unnamed gets it. Tag options pile up in the shared slice. |

Each violation run is recorded as a finding in `PROJECT.json`, with the line it comes from.

Each property of a passing run has a mutant in `PROJECT.json`. A mutant is an operator defined in the module that changes one action the way a plausible bug would. Examples: a span finished twice or not at all, a dropped Unlock, an off-by-one in the cap check. TLC finds the property violated when the mutant replaces the action.

### Bounds

The bounds are chosen so that each interesting case occurs:
- The sarama models use 2-3 messages and a pipeline of 1-3. With these, a message can be in flight while another is written, and while the producer closes. The pipeline of 1 is what lets it fill up.
- The pipeline uses 3 messages from two callers with batches of up to 2. This lets one caller's batch interleave with the other's single message in the partition. It lets a close arrive before, between and after hand-offs, with spans both open and finished. It also lets a message be delivered while the consumer is mid hand-off. The run has 44,944 distinct states; 4 messages give 355,850 states and also pass.
- gRPC uses a cap of 2 within 4-5 messages. The cap is reached and then exceeded.
- RandSource uses 3 goroutines and 4 draws. Two Int63 callers can each be between the read and the write-back of the source, while the third draws or reseeds.
- The HTTP model uses two requests, one named and one not.

### Fairness

- Goroutine steps are weakly fair. The Go scheduler runs every runnable goroutine.
- The application reads the wrapper's channels fairly. Sarama's documentation requires a reader for Successes and Errors.
- Lock acquisition in RandSource is strongly fair. sync.Mutex switches to starvation mode after 1ms and hands the lock to the longest waiter.
- A sync producer's blocking sarama call returns: sarama delivers or fails each message after its retries and timeouts. Its caller then finishes the spans (`ProducerFairness`).
- In the pipeline, sarama's partition consumer keeps fetching what the partition holds (`WF FetchLogged`).
- Other environment choices have no fairness: the application sending and closing, the WAF verdict.

`CHECK_DEADLOCK FALSE` is set where the system really stops:
- a goroutine that has returned;
- an RPC or request that has finished;
- the self-deadlocked Seed.

## What is proved (TLAPS)

Each proof module EXTENDS its component's module and TLAPS.

- **SaramaAsyncProducerProofs**
  - `TypeCorrect`: type correctness, so no produce span is finished twice.
  - `ExitLeavesNoSpan` assumes errors are returned, headers are supported and the application closes an idle producer (DefaultUse).
  - Nothing is proved about the panic on a closed Input. The only path to it is a close while a send is pending, which DefaultUse rules out. sarama_close_panic shows it.
  - The inductive invariant `ExitInv` says three things. Every parked span is for a message sarama still holds (`spans \subseteq inflight`). Every started span is finished, parked, or in the goroutine's hand. Once the application has closed, sarama holds nothing and the goroutine is in its select or has exited.
  - `SpanFinishedOnExit` alone is not inductive: it says nothing about the spans parked before the exit.
  - `ResultAfterFinish`: SpanFinishedBeforeResult under any Return config and any timing of Close/AsyncClose. The one hypothesis is that every config has headers. Without headers no parked span is matched to its result, and the property is false (sarama.go:198).
  - Its inductive invariant `ResultInv` says the following:
    - every message sarama holds whose span is not parked has its span finished already;
    - the message in the goroutine's hand, while being passed on as a result, has its span finished;
    - every returned message has its span finished.
  - SpanFinishedBeforeResult alone is not inductive: it is silent about results still inside sarama.
- **SaramaSyncProducerProofs**
  - `ProducerTypeCorrect`: ProducerTypeOK under ProducerSpec, for any callers, message count and batch size, with or without headers. Its range `pfinishes \in [PMsgs -> 0..1]` means no produce span is finished twice.
  - ProducerTypeOK is not inductive. A caller could finish messages another call still holds. The strengthening `Calls` says the following:
    - a busy caller's batch holds only taken messages;
    - the batches of two busy callers are disjoint;
    - a message's span is finished exactly when it has been taken and no busy call holds it.
  - `FreshBatchMsgs` is the lemma about the model's `FreshBatch`: it is a sequence of messages, and its elements are exactly nextMsg .. nextMsg+n-1.
  - `ProducerFinishAfterSend`: the action property SpanFinishedAfterSend. It adds the invariant `Pend`: a caller's pending messages are in its own batch, and only a caller blocked in sarama has any. `StepFinishAfterSend` derives the step property from `Calls` and `Pend`. A finishing caller has nothing pending. Any other caller with the message pending would be busy with a batch that overlaps the finishing caller's batch, which `Calls` rules out.
- **SaramaPartitionConsumerProofs**
  - `TypeCorrect` and `SpanWindow`, for every N.
  - The invariant adds `Finished`: message k's span is finished exactly when k precedes `prev`, or k is `prev` after the exit. It also adds counter relations between `received`, `taken` and `prev` at each location.
  - `RefinesConsumeSpans`: Spec => CS!SafetySpec. The initial state maps to ConsumeSpans' initial state. Under the invariant, every step maps to a ConsumeSpans step or a stutter (`NextRefines`, one case per action).
- **SaramaPipelineProofs**
  - `PipelineTraceContinuity`: TraceContinuity for every number of messages, callers and batch size, with or without headers.
  - The inductive invariant `PInv` is the consumer's invariant plus `Carried`:
    - a call only holds messages already taken (`pending` is a sequence over `Sent`);
    - with headers, every taken message carries its own span context;
    - every partition entry carries its own message's context;
    - sarama has fetched no more than the partition holds;
    - each consume span's parent is what the partition held for its message.
  - TraceContinuity alone is not inductive. It does not say what the partition holds for messages not yet consumed.
  - The proof projects each pipeline step onto a consumer step (`ConsumerProjection`), reuses the consumer's invariant, and treats producer steps and consumer steps in `ProducerCarried` and `ConsumerCarried`.
  - `PipelineProducerTypeCorrect` and `PipelineFinishAfterSend` carry ProducerTypeOK and SpanFinishedAfterSend over to the run's PipelineSpec. Each pipeline step projects onto a producer step or a stutter (`ProducerProjection`), so the producer's invariants `Calls` and `Pend` still hold.
- **GrpcWafListenerProofs**
  - `SequentialEventsCapped` and `SequentialTypeCorrect`, for any cap and stream length, under a single receive callback.
  - The invariant relates `nbEvents` to the events stored plus the one being appended, and bounds it by the messages taken and by the cap while a callback is past the check.
  - The concurrent case is false, as grpc_waf_concurrent shows.
- **RandSourceProofs**
  - `DistinctIDs`: DistinctDraws for any number of goroutines and calls.
  - The inductive invariant has two parts beside the shapes of the variables. First, only the mutex holder is past its Lock. Second, the returned numbers are exactly 0, 1, ... in order, the source stands at the next one, and a caller about to write back read the current state.
  - DistinctDraws alone is not inductive. It says nothing of a call between its read and its write-back.

Only TLC checks these:
- Liveness and fairness (`ResultsDelivered`, `SpansFinished`, `CloseFinishesSpans`, `ProduceSpansFinished`, `DeliveredHandedOver`, `Int63Returns`), and the fairness part of `ImplementsConsumeSpans`. TLAPS does not handle ENABLED or fairness here.
- All the violation runs.

## Not modelled

- **graphql tracer, HTTP WAF listener:** sequential per call, with no state shared between calls to interleave.
- **Span tags:** the partition, offset and error tags of produce spans are left out, as are the consumer's re-injection into the in-memory message (line 69) and ConsumePartition's error path, which starts no goroutine.
- **checkmilestone:** pure I/O (one HTTP GET and a JSON decode) plus transport tests.
- **Tests and YAML configuration:** not program behaviour.
- **The tracer core:** not in this source tree.
- **TraceAndServe, called by the HTTP handlers:** also outside this tree. Only its inputs are modelled.
