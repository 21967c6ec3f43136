# A TLA+ model of llama-otel-proxy

llama-otel-proxy is a reverse proxy in front of an OpenAI-compatible inference
server. It forwards every request and records the instrumented ones as
OpenTelemetry spans: a SERVER span per request with a CLIENT span and phase and
output spans under it, and a session span over the requests that carry one
session identifier. This directory models it in TLA+, from the configuration file
it reads at its start to the flush of its last span, checks the model with TLC on
small instances, and proves part of it with TLAPS for all sizes.
Paths below are relative to the repository (`proxy.go` is
`internal/proxy/proxy.go`, and so on).

Run a check with `tlc -config MCAdmission.cfg MCAdmission.tla` and the proofs with
`tlapm AdmissionProofs.tla`. `PROJECT.json` lists components, runs, mutants,
findings, hazards and theorems, and maps each definition to the lines it models.

## 1. Inventory

### Components

| Component | Source | State | Operations | Status |
|---|---|---|---|---|
| Admission control | `proxy.go` | registry `active`, channel `idle`, two slot semaphores, flags `draining` and `forcedClose`, mutex `activeMu` | `admitRequest` and the release it returns, `BeginDrain`, `BeginForcedClose`, `WaitIdle` | modelled: `Admission`, `DrainGate` |
| Session registry | `session.go` | a `sessionState` per identifier (span, references, requests, last use, timer), `closed`, mutex | `acquire`, `release`, `expire`, eviction, `closeAll` | modelled: `Sessions`, `SessionLife` |
| Process lifetime | `cmd/llamaproxy/main.go` | where `main` is, the deadlines it set | `run`, `shutdownServer` | modelled: `Shutdown` |
| Request observation | `proxy.go`, `state.go`, `body.go`, `outcome.go` | the result of the body, status, errors, panic, write error, spans | `RoundTrip`, `modifyResponse`, `errorHandler`, `bodyObserver`, `requestState.end` | modelled: `Exchange` |
| Response capture | `writer.go` | the header kept, bounded copy of the body, write error | `WriteHeader`, `Write`, `FlushError`, `ReadFrom`, `Hijack`, `disableBodyCapture`, `snapshot` | modelled: `Capture`, in `Recording`; write and flush errors in `Exchange` |
| SSE parser | `serversentevents/parser.go` | partial line, event under assembly, counters | `Feed`, `Finish` | modelled: `EventStream`, reference `Events` |
| Stream accumulator | `genai/genai.go` | groups and parts, finished keys, terminals, limits | `Observe`, `Finish` | modelled: `Accumulator`; coarser in `Exchange` |
| Request and response decoding | `genai/genai.go` | what was read of the body, and the body put in its place | `PeekRequest`, `peekTruncatedRequest`, `ParseResponse` | partly: `Peek`; `ParseResponse` is a verdict in `Exchange` |
| Trace attributes | `proxy/attrs.go`, `state.go` | `bodySplitter` (values by path, `limited`) | split a body into bounded attributes, header attributes, `setExchangeAttributes` | modelled: `BodySplit`, reference `Documents`, composed in `Recording` |
| Tracing set-up | `tracing/tracing.go` | the environment of the process | scrub, mask, validate and restore exporter variables, make the exporter, choose the sampler | partly: `Startup`; sampler, resource and exporters are left out |
| Configuration | `config/config.go` | none | find, read, normalise and validate a YAML file | partly: `Startup` has which file is read; the ranges `validate` enforces are assumptions on constants |
| Routes | `route/route.go` | none | a table of paths | not modelled: the constant `Instrumented` stands for its answer |

### How they interact

- The HTTP server runs one goroutine per request, `ServeHTTP`. It passes
  **admission**; an instrumented request then reads its body, **acquires its
  session**, opens its SERVER span, and runs the reverse proxy, whose hooks are
  the **request observation**. The span ends when the reverse proxy returns or
  panics; the deferred releases follow, the session's first and the
  admission's last.
- `main` waits for a signal, then calls into the same two registries from its
  own goroutine: `BeginDrain`, `Server.Shutdown`, `WaitIdle`, and when these do
  not finish in time `BeginForcedClose`, `Server.Close`, `WaitIdle`; then
  `CloseSessions` and the flush of the tracer provider. What ends after the
  flush is never exported.
- Idle timers of sessions start goroutines of their own.
- A forced close reaches a request through the *cause* of its context, which
  the request observation reads at three different moments.
- The body observer feeds the parser, the parser the accumulator; its result is
  handed to `requestState` once, which decides all outcomes.
- Before the reverse proxy runs, `PeekRequest` reads the first bytes of the body
  from the same connection the transport reads the rest of it from, and leaves a
  body that joins the two.
- The reverse proxy writes through `observedWriter` and shares its header map with it;
  `requestState.end` takes the writer's snapshot and turns both bodies and both headers
  into attributes, all of one span with one limit on their number.
- At the start, `config.Load` and `tracing.Init` share the process with nobody, but
  the file system with the administrator and the environment with the exporter library.

### What is hard here

Interleavings around small critical sections (a flag swapped outside the mutex,
a slot freed outside it, a channel that is closed and replaced); timers that
cannot be called back; clocks read before a mutex is obtained; deadlines that
expire while the last handler is leaving; a cancellation seen by one part of a
request and not yet by another; one result handed over from several places; a
stream that is cut, malformed or keeps talking after its end; a body that is read by
two readers and may break between them; a header map that says something else a moment
later; limits that add up; several variables of the process changed one by one with a
way out after each. `PROJECT.json` lists each under "hazards" with its line and the
properties that guard it.

### What makes each component correct

- *Admission*: neither budget leaks or is overdrawn; no double close of `idle`
  and no lost wake-up; a forced close reaches every request, also one past the
  flag check when the flag was swapped; the gate never lets in again; "idle" is
  reported only when it is true.
- *Sessions*: one span per identifier at a time; references are the turns that
  hold this very span; a span ends only when quiet, as idle only after the whole
  pause, stamped with the end of its last turn; every unused session is on its
  way to its end; the registry stays bounded.
- *Process lifetime*: nothing is lost without a deadline having passed; session
  spans make the flush; a parent ends after its children; a request cut off by
  the shutdown is not blamed on its client; the shutdown terminates.
- *Request observation*: "success" means the client has all of it; both spans
  blame the same party, and the right one; each output is recorded once and
  never as a success across a gap; status on the span = status on the wire; a
  cancelled request ends.
- *Parser*: the events do not depend on how the stream is cut into chunks; what is
  dropped is counted once and voids its event; what is kept stays within the line
  limit.
- *Accumulator*: each output is reported once, with all its parts; what is not
  marked is whole; what was streamed is reported or the loss is said; complete
  means that nothing in it failed; what is kept is bounded.
- *Decoding of requests*: the upstream gets the client's body, byte by byte and once, and
  a broken one never looks whole, also when it is sent again; the span describes the
  request that was made, and says so when it kept less than all of it.
- *Response capture*: header and body on the span are those the client was sent.
- *Trace attributes*: every leaf of a body is recorded at its path or the loss is
  marked; one span never reaches the limit beyond which attributes are dropped silently.
- *Start-up*: no configuration file is passed over because it cannot be read; a variable the file
  overrides has no say; the process has its environment back however the set-up ends.

## 2. Modules

| Module | What it is |
|---|---|
| `DrainGate` | abstract: what admission promises to the shutdown |
| `Admission` | `proxy.go:82-116`, `392-426`; implements `DrainGate` |
| `AdmissionProofs` | the theorems about `Admission` |
| `SessionLife` | abstract: one span per identifier, ended when quiet or closed |
| `Sessions` | `session.go`; implements `SessionLife` |
| `SessionsProofs` | the theorems about `Sessions` |
| `Shutdown` | composes `A == INSTANCE Admission` and `S == INSTANCE Sessions` with `main.go` and the defers of `ServeHTTP` |
| `ShutdownProofs` | the theorems about `Shutdown`, from those about its two components |
| `Exchange` | one request from `RoundTrip` to `requestState.end` |
| `ExchangeProofs` | the theorems about `Exchange` |
| `Events` | the reference: the events of a whole stream, by splitting it |
| `EventLines` | what `parser.go` does with one line: `processLine`, `dropLine`, `dispatchEvent` |
| `LineReader` | abstract: a reader with the whole stream before it, which takes it line by line |
| `EventStream` | `parser.go`: one action per turn of the loop in `Feed`, and `Finish`; implements `LineReader` |
| `EventStreamProofs` | the theorems about `EventStream` |
| `Accumulator` | `genai.go:480-1887`: `StreamAccumulator` |
| `AccumulatorProofs` | the theorems about `Accumulator` |
| `Peek` | `genai.go:114-396`: the request body between client, `PeekRequest` and transport |
| `Capture` | `writer.go`: `observedWriter` between the reverse proxy and `net/http` |
| `BodySplit` | `attrs.go`: a body taken apart into attributes |
| `Recording` | composes `Capture` and `BodySplit` as `requestState.setExchangeAttributes` does (`state.go:119-157`) |
| `Documents` | the reference: the leaves of a body, by recursion; what `Recording` keeps is compared with them |
| `RecordingProofs` | the theorems about `Recording`, `Capture`, `BodySplit` and `Peek`: both bodies |
| `Startup` | `config.go` and `tracing.go` up to the listening server |
| `StartupProofs` | the theorems about `Startup` |
| `MC*` | the finite instances; one `.cfg` per run |

**Steps.** A step is what happens between two points where another goroutine
can be noticed. A critical section that touches only what its mutex protects is
one step. The section of `admitRequest` is two, `CheckFlags` and then `Register`
or `RefuseFull`, since `BeginForcedClose` swaps its flag and `release` frees its
slot without the mutex. Clock readings taken before a mutex are steps of their
own (`Enter` and `Exit` in `Sessions`).

**Admission.** `pc` is where each request's goroutine is; `active`, `used`,
`draining`, `forcedClose`, `activeMu` are the fields of `Handler` (`used` is the
length of each slot channel). Channels made for `h.idle` are numbered: `idle` is
the current one (0 is nil), `closedIdle` the closed ones. `cause` is
`context.Cause` of the request, and the first one stays. `cpc`/`todo` are callers of
`BeginForcedClose` and the snapshot each still has to cancel; `wpc`/`waitOn` are
callers of `WaitIdle` and the channel they are parked on.

**Sessions.** A session holds its span, `refs`, `requests`, `last` and `timer` (a
set: empty, or the deadline). A timer that has fired is counted in `expiring`
until its goroutine has the mutex, and Stop does not take it out of there. A
span is named by the turn whose `acquire` opened it. `MaxConcurrent` bounds the turns in
flight, which `Shutdown` shows admission to guarantee.

**Shutdown.** `mpc` follows `main` line by line. The variables of `Admission`
and `Sessions` are declared again and passed to the instances by name; each action of
`Shutdown` is an action of one of them together with the condition that orders
it in `ServeHTTP` or `main`, or a step of `main`. `net/http` is external:
`Shutdown` returns nil when it knows no busy connection (it does not know
hijacked ones), `Close` drops the connections it knows.

**Exchange.** `pc` follows the reverse proxy (external) through the hooks of the
proxy. Everything else is the environment: the client leaves, a forced close
comes, the upstream answers, breaks off or is silent, a write or a flush fails, the
handler panics. One `Read` brings at most one event, an event without its blank
line (dispatched by `Parser.Finish` on EOF), or an oversized line. An event is
reduced to its kind, its output and whether each of the two JSON decoders
(the accumulator's, and `ParseResponse`) understands it. `failure` and `struck`
(the last error and the cause at that moment) record history for the properties only.

**EventStream.** `parser` is the struct `Parser` field by field, `out` the calls of
`OnEvent`, `b` what the `Feed` in progress has not consumed, `at` how much of
`stream` was handed to `Feed`. A byte is a symbol; "data:" is two, so that a cut can
fall inside it, "[DONE]" and the byte order mark are one each. `Events`
defines what must come out without any of this: split at line ends, strip the mark,
split into blocks at blank lines, join the data lines. `ValueOf` and the symbols are shared. `LineReader` lies between the two: it
does with a line what the parser does (`EventLines`), but has no chunks, no carry and no pending LF. Its state is read off the parser's:
where the current line begins (`LineBegins`, which is past an LF that still belongs to the line before), and the parser
without what it carries (`BetweenLines`).

**Accumulator.** The variables are the fields of the struct; `states` maps the key of a part to what
is known of it. An event is a sequence of *pieces* and what it ends: the operators from `Delta` to
`ItemDone` say which pieces each type of event comes down to (a switch case of `observeResponses`, a field of
a chat delta), and one action per kind of piece does what the code does with it. `Observe` is
sequential, so that pieces are steps adds no behaviour, and `Conclude*` follows when they are used up. A
piece is late (`Over`), refused (no room), or written. `FinishKeys` is `finishKey` under
`finishMatching` and `finishResponseOutputKind`: parts without data are dropped, the others become one
report per output, merged as in `mergeResponseOutputs`. The order of the reports of one call is left
out. `streamed` and `troubled` record what the response said, for the properties only.

**Peek.** The client sends `body`, of which `arrives` tokens come before it ends or, if `broken`, the connection
breaks; `read` is where the connection stands, whoever reads. Sizes are counted in JSON tokens, so that every cut
falls between two of them; a token that is cut is none. `head` is the buffer of `PeekRequest`, `req` its result,
`spliced` says that the new body goes on with the connection. The transport reads in pieces of any size and may start
again from `GetBody` (`Retry`), which only a body read to its end has. `Decodes` is `json.Unmarshal` by its meaning, `ScanOf` the
loop of `peekTruncatedRequest` as a fold over the tokens.

**Capture, BodySplit, Recording.** `live` is the header map the reverse proxy changes whenever it likes, `onWire` what the
client was sent of it. Bytes are numbered, so a captured body can be compared with what was sent. A header is a number of
values per name, which is all `headerAttributes` looks at. In `BodySplit` the loop over the
top-level fields is `nextField`, and the recursion of `walk` below one of them the worklist `work`: its first element is taken, what it
contains takes its place; so the module has no recursion and the limits meet the values in the order of the code. A name is a sequence, because "a.b" is a legal name and paths are joined with dots.
`Recording` runs `Capture` until the span ends, at any point, then splits the request's and the
response's body. Which document a body was is chosen when it is split. `FixedCount` is 37: the 20
attributes the span is started with and the 17 `setServerAttributes` may add, counted in the source.

**Startup.** `step` is the call that comes next. `files` may be changed by the administrator between any two calls
(`Touch`). An environment variable is unset, blank, good, malformed, or an endpoint with a path (good for HTTP only). `env` is the
process's, `saved` what `maskEnvironment` will put back, `started` and `gone` record history for the properties only. `os.Unsetenv`
may fail, and so may the exporter.

**Slips.** An operator whose comment starts with "Slip" is not part of the model:
it is a mistake this code could have made (a guard dropped, a reset forgotten, an
order swapped). Each property has one that breaks it when it takes the place of the
definition next to it.

## 3. Runs

| Run | Instance | States | Question |
|---|---|---|---|
| `admission` | 3 requests (2 instrumented), 1 slot per class, 2 closers, 1 waiter | 637k | safety of admission, the refinement of `DrainGate`; does a forced close empty the proxy and release waiters? |
| `sessions` | 3 turns, 3 identifiers, room for 1, idle timeout 2 | 527k (up to symmetry) | safety of the registry with evictions and stale expires, its bound, and the refinement of `SessionLife` |
| `sessions_live` | 3 turns, 1 identifier, clock to 5 | 1.16M | does a session left alone end? |
| `shutdown` | 2 instrumented requests sharing a session, 2 slots | 687k (up to symmetry) | which spans make the flush, in which order, who is blamed |
| `shutdown_live` | same, 1 slot | 290k | the assumption `Sessions` makes of admission; termination |
| `exchange` | 1 request, 2 outputs, 3 reads that bring bytes | 487k | what the spans say, whatever happens; a cancelled request ends |
| `event_stream` | 12604 streams of 2 lines and a rest, or 4 lines, limit 4, every way to cut each | 1.23M | do the events depend on the cuts? is every drop counted once? is it read as `LineReader` would? |
| `accumulator` | 4 events out of 50 of the three protocols, room for 3 parts, 2 outputs, 3 bytes | 2.85M | is each output reported once, whole or marked, complete only if it was? |
| `peek` | 1314 bodies of up to 3 fields, limits 7 and 5 tokens, every break and every way to cut each | 436k | does the upstream get the client's body? does the span tell the truth about it? |
| `recording` | 44 documents, 3 headers, every limit 2 or 3 | 103k | is what is recorded what was sent, or marked? does it fit on the span? |
| `startup` | every pair of local and system file, 35 environments, 2 files replaced meanwhile | 1.67M | which file counts? what is left of the environment? |
| `exchange_verdict` | 1 output | violated | is an error inside a stream recorded on the SERVER span? |

**Why these bounds are enough.** Two competitors for one slot and a third request of
the other class make a wrong budget, a leak and an overdraft visible; two closers
race for the swap; a waiter can be woken, find the registry refilled and park
again because requests follow each other. Three turns over one
identifier give two pauses, so that an expire of the first meets the second
(`sessions_live`, `sessions`); with three identifiers and room for one the registry evicts,
outgrows its limit when two are used, and evicts both when a third turn comes (it never has to choose between two: the order
of eviction is modelled, but no property depends on it); the clock lets a full idle timeout
pass after the last turn that starts with it. In `shutdown` two requests can
be at different places when each deadline passes, and the session outlives
one of them. Idle timeout and clock are 1 there, enough for its timer to fire in any phase
of the shutdown. In `exchange` two outputs can be finished separately and together, and three
reads put a gap or an error event between a beginning and an end. Three
is also the least for an output, its error event and a later one.

In `event_stream` the lines are empty, foreign, without data, [DONE], marked, and data that
fits, fits exactly and is one or two too long; ends are LF, CR and CR LF, mixed; four lines form blocks whose
joined payload fits, fits exactly and outgrows the limit, before and after a line that does.
A parser keeps nothing of a block but its payload and a flag, nothing of a line but the carry and two
flags, so a second line and a second block show what one leaves behind for the next.

In `accumulator` two parts of one output, a third part and a second output meet the limits on parts; a chat's two
choices and a native one meet the limits on outputs and choices; two deltas outgrow a text, two parts that fit outgrow their sum; four
events are a part, its failure or its late repetition, the end of its output and the end of the stream.
Events carry several pieces where the order inside one event matters (an error with a finish reason, the snapshot of a terminal event).

In `peek` three fields put each name before, after and inside another value, twice, and of the wrong type; with a limit of 7 the cut
falls before, inside and after them, and a limit of 5 for the trace is met by bodies that were read whole and by
those that were not. In `recording` each limit of the splitter is reached and exceeded by some document (three and four
top-level fields, two and three values, two and three paths and levels), and `SpanLimit` is exactly what the
small limits add up to, as 1024 is at least what the real ones do (`RealLimits`). In `startup` two replacements make a
file appear and vanish between the looks at it, and each variable has each value next to others that are set or not.

**Deadlock** is checked in `admission`, `sessions*` and `shutdown*` in the form the
configurations state (where the system stops, the module has an explicit final
step or the environment can still move). In the other runs what has ended
stays ended, so the check is off.

**Symmetry** is used where only invariants and action properties are
checked over interchangeable model values, never with liveness.

### What a violated run shows

`exchange_verdict` takes the name of a test at its word:
`proxy_feature_test.go:2214`, "an error inside the stream body is recorded on the span".
`outcome` looks for the error in the *last* payload only (`state.go:181`), while
the accumulator stops listening at the error and calls the stream terminated. An upstream that
sends one more event after the error event, even a plain one, gets a SERVER span that says
success over an output span that says `upstream_error`. When the error is the last
payload the code does what the test says.

### What was observed on the way

- `expire` re-arms what is left of the pause, but never later than the timer
  `release` has armed already: the second timer is redundant, not wrong.
- A panic inside `RoundTrip` leaves the CLIENT span open (`SpansAgree` allows
  exactly this).
- A protocol switch that fails while a forced close is under way stays recorded
  as 101 although the client was sent 503 (`StatusIsOnTheWire` names it).
- The parser strips the byte order mark from the first line that is not too long,
  which is the first line of the stream unless that was dropped (`Unmarked`).
- `Dropped` counts the data line that makes an event outgrow the limit too, although it is
  no longer than others; `Outgrown` says when.
- A part declared failed before it has any text is dropped with its status when its output
  is finished (`CompleteIsEarned` speaks of the parts a report is made of).
- A `program` item that is done although its status is `in_progress`, after an event that could not be
  understood, would be complete without a mark: `completed` is set for every program, and the mark looks at the
  status. No server is known to send this, so it is not among the events of `MCAccumulator`.
- A body with a field "a.b" and an object a with a field b makes two attributes of one name. The span keeps one, and no
  mark says so; `LossIsMarked` leaves such bodies out (`KeyClash`).
- The role of a message that is no usable string is skipped like one that is, and an empty object or array beside other
  fields makes no attribute: both are recorded nowhere and unmarked. `Documents` counts neither as a leaf.
- `walkMessages` hands an element to `emitRaw` when it has unusable names; an element that is no object never gets there.
- `json.Unmarshal` matches names regardless of case, the scan of a truncated body does not: "Model" names the model of a
  body within the limit only. Names are model values here, so `Peek` does not show it. Of two fields of one name the last
  counts in a whole body and the last before the cut in a truncated one (`RecognisedBeforeTheCut` says when they agree).
- `start` is read before the request body: a turn that is slow to upload may join a session that was opened later, and its
  span then starts before its parent. Nothing documents otherwise.
- A character of several bytes that does not fit leaves room that a later, narrower delta still
  fills: the text is marked truncated, but is not a prefix of what was sent.
- When the listener fails, `run` closes sessions and flushes without a drain:
  spans of running requests are lost. Nothing documents otherwise, so the properties of
  `Shutdown` speak of the session spans only on that path.

## 4. Fairness

- `Admission`: a goroutine inside `admitRequest`, `release`, `BeginForcedClose`
  or `WaitIdle` goes on (the scheduler runs it and hands it the mutex). A handler
  returns only if its context was cancelled. Nothing makes clients leave or
  deadlines pass. That handlers do return then is checked in `Exchange`
  (`CancelledExchangeEnds`).
- `Sessions`: time passes, a due timer fires, a started expire gets the mutex. No turn has to end.
- `Shutdown`: the steps of `main` are taken, its deadlines pass, and a request inside
  `admitRequest` leaves it. Handlers are *not*
  assumed to return: the shutdown ends all the same.
- `Exchange`: the handler's own steps are taken. Once the context is cancelled the
  transport stops waiting, a tunnel is closed, a blocked write returns (the
  connection is gone, or closed by `Server.Close`), and a body read breaks off. The
  last is *strong* fairness: between reads the handler also writes, so the cancelled read is
  not enabled continuously. Nothing makes an upstream answer or a client read.

## 5. Proofs

`AdmissionProofs` proves for every finite set of requests, every set of closers
and waiters and every capacity (`RequestsAssumption`, `SlotsAssumption`, and that
`Nobody` is no request):

| Theorem | States |
|---|---|
| `Invariance` | `Spec => []IInv` |
| `TypeCorrect` | `TypeOK` (no run checks it: it is proved) |
| `BudgetsHold` | `SlotsMatchHolders` |
| `WakeUpsAreSafe` | `NoLostWakeup` |
| `ForcedCloseIsComplete` | `ForcedCloseReachesAll` |
| `GateNeverReopens` | the action property `GateStaysShut` (the runs check it as part of `DrainGate`) |
| `AdmissionImplementsDrainGate` | `Spec => Gate!Spec` |

The invariants are not inductive by themselves. `IInv` adds who is inside the
mutex (`MutexInv`: exactly the request between its two steps), that nobody is
between the flag check and registration once the gate is shut, and that one caller won the
swap (`ShutInv`), and that the snapshot still holds every registered request with a
live context (`SnapshotInv`). The last is the heart of the argument for the forced close:
a request that passed the flag check before the swap holds the mutex, so the
snapshot waits for it and contains it; one that comes later sees the
flag. `SlotsMatchHolders` is inductive with cardinality facts
of the library, although a slot is freed outside the mutex. Each lemma about a step has
one part per conjunct the action can disturb. The refinement maps the gate's shutting to the
flag `draining` or to the *snapshot*, not to the swap.

`EventStreamProofs` proves `TypeCorrect` (`TypeOK`) and `LimitsHold` (`WithinLimits`) of `EventStream`
for every `MaxLine` and every set of streams. Here the two are inductive together: a partial line is kept only when
it fits with what is carried, a joined payload is looked at before it is kept, and it becomes `last` unchanged; `Fit(p)`
says this of a parser, and each helper has a lemma that it preserves it. That a line end found is the first one
(`FirstBreak`) needs that `<` is well-founded on the naturals.

That it does not matter where a stream is cut is `ImplementsReader`: `Spec => ReadsByLines`, the refinement of `LineReader`, for every
stream over the symbols (`StreamsAssumption`) and every way to cut it. It rests on `NothingIsLost`, the invariant `InPlace`: what is in hand is the stream
from `Consumed` on; what is carried is the stream from the beginning of the line to there, has no line end in it, and is nothing
while a line is being dropped or an LF may follow. So the first line end in hand is the first after
`LineBegins` (`LineGoesOn`), and each turn of the loop is a step of the reader or none: `Feed`, `SkipLF` and `CarryPartial` are none. The mapping
is no projection at a line end at the end of a chunk. The parser does not know yet whether an LF follows, the reader does, and `LineBegins` looks
ahead in the stream in its place (`AfterLine`). That the events of a line-by-line reader are those of the
reference (`AsFed`) is an induction over the lines and stays with TLC.

`AccumulatorProofs` proves, for all limits and every set of events, `LimitsHold` (`WithinLimits`) and
`OutputsReportedOnce` (`ReportedOnce`). In the first, what is held is a set (`Held`) that no step lets
outgrow the counter `createdParts`: a write adds a part, a command, both or neither, and counts what it adds
(`HeldGrows`); a finished part is remembered in place of what it was. The second is not inductive: `IInv` adds that what was reported is in
`finishedGroups` (`ReportsInv`) and that no part of such an output exists any more (`PartsAreOpen`). The
argument: the parts a step finishes (all, those of a choice, those of an item) are always whole outputs
(`WholeOutputs`), so none is left behind to be reported again; `Over` keeps new ones from being made.

A second invariant, `KeptInv` (`KeptInvariance`), says that what the response said of a part stays with the part until its
output is reported: that it was declared failed or incomplete (`TroubleIsKept`), and that it carried text (`TextIsKept`). From it
follow `CompletenessIsEarned` (`CompleteIsEarned`) and `NoTextIsLost` (`NothingLost`, the half of `WholeOrMarked` about outputs
that are not reported).

The other half, `ReportsAreWhole`, equates sums over the parts of an output. Sums are cardinalities (`SumOf` counts pairs), so that
equal summands give equal sums without an induction (`SameSum`). `WholeInv` (`WholeInvariance`) adds that a text that was not cut is as
long as what was streamed to it (`TextIsExact`), and that a tool call is one part (`ToolsAssumption`, which is what
`responseToolKey` does): so the commands of a shell call, which are summed within a part, are not summed over parts as well. With
`NoTextIsLost` it gives `TextIsWholeOrMarked` (`WholeOrMarked`).

`EndingsDecide` is the action property `EndingsAreHonest`. It depends on which events there are, and two assumptions say what it needs of them.
`ShapesAssumption` is of the code: a finish reason finishes nothing in an event with an error, and only the items of the Responses
protocol complete a part, when they are done or in a terminal snapshot. `ItemsAssumption` is of the servers:
an item that completes a part does not say that it goes on, which a `program` could (see "What was observed"). That what `output_item.done`
makes of a tool satisfies both is a lemma (`ItemsDoneAreOrderly`); TLC evaluates both on the events of `MCAccumulator`. `EndingInv` carries them from piece to
piece: between two events no part is complete that has not failed, and within one the end of its output is still among the pieces to come.
Therefore a stream that just stops finds nothing to call complete.

`SessionsProofs` proves, for every finite set of turns and of identifiers and all limits:

| Theorem | States |
|---|---|
| `Invariance` | `Spec => []IInv` |
| `TypeCorrect` | `TypeOK` (no run checks it: it is proved) |
| `RefsAreRight` | `RefsCountHolders` |
| `SpansAreKept` | `NoSpanIsLost` |
| `StampIsRight` | `StampIsLastTurn` |
| `Bounded` | `TrackedBounded` |
| `IdleIsIdle` | the action property `IdleMeansIdle` |
| `Implements` | the refinement `ImplementsSessionLife` |

`release` finds its session by identifier, not by what `acquire` returned. That this is the same session is `HeldInv`: while the
registry is open, a turn inside a session keeps its references above zero, so neither eviction nor an expire takes it away and
`acquire` puts no other in its place. That needs the counters to be right (`CountInv`), which needs that a span belongs to one
session (`OwnerInv`), and each of these needs the others: none is inductive alone. `LastInv` says that `last` is a clock reading
of one of the session's turns and not before the end of any that is over. The three parts (no later end, one turn that ends then, as
many turns as counted) of `StampIsLastTurn` come from it and from `CountInv` when the session is finished. `TrackedBounded` holds because `acquire` evicts
unless every tracked session is held, and no more are held than turns are in flight (`InFlightInv`); the bound on these is what `TurnsFit` proves below.

`ExchangeProofs` proves, for every set of outputs and any number of reads:

| Theorem | States |
|---|---|
| `Invariance` | `Spec => []IInv` |
| `TypeCorrect` | `TypeOK` |
| `SuccessWasWhole` | `SuccessIsWhole` |
| `TheRightPartyIsBlamed` | `BlameIsRight` |
| `ChildSpansRecordedOnce` | `ChildSpansOnce` |
| `StatusWasSent` | `StatusIsOnTheWire` |
| `GapsAreRemembered` | the action property `NoSuccessAcrossGap` |

The argument has two halves. `Sound(obs)` says what the observer knows of the stream at any time (for instance that a closed
accumulator has no open output), and `Follows` what one delivery may change in it, so that the outputs finished so far grow by exactly
those the delivery hands out. Then the spans recorded while the stream runs are those of outputs both opened and
finished, and the result handed over at the end has the others (`SpansInv`, `HandedInv`): together one each. The other half follows the
handler from place to place: what has not happened yet (`BeforeInv`), what a copy that ended means (`CopyInv`), which error was met
(`CauseInv`) and what is recorded at the end (`EndInv`). The cause of a context, once set, stays: so the two spans, which
read it at different times, can only disagree in the one direction `SpansAgree` allows.

`ShutdownProofs` proves, for every finite set of requests and all limits (`RequestsAssumption` and `LimitsAssumption`, which are
what `Admission` and `Sessions` assume of their constants):

| Theorem | States |
|---|---|
| `Invariance` | `Spec => []IInv` |
| `ComponentsAreThemselves` | `Spec => AP!Spec /\ SP!Spec`: the process behaves as `Admission` and as `Sessions`, so that what is proved of them holds in it |
| `TurnsFit` | `TurnsFitSlots` |
| `NothingIsMissed` | `NothingMissesTheFlush` |
| `ParentsEndLast` | `ParentEndsLast` |
| `CutOffIsNotTheClients` | `CutOffNotBlamedOnClient` |

The inductive invariants of the two components are taken over as they are, through instances of their proof modules: a step of the process
is a step of each component or leaves it alone. What is added ties them together. `HandlerInv` is the order of the defers of
`ServeHTTP`: a turn lies within the service of its request, and the slot is given back last. With `SlotsMatchHolders` it gives
`TurnsFitSlots`, which `Sessions` only assumes. `BlameInv` is the order of `BeginForcedClose` and `srv.Close`; with
`ForcedCloseReachesAll` it gives `CutOffNotBlamedOnClient`. `EmptyInv` says that what `WaitIdle` has reported stays true, since
the gate is shut: so nothing is running when the flush starts unless a wait has timed out.

`StartupProofs` proves, for every file system, every set of environments and any number of files replaced meanwhile,
`Invariance`, `EnvironmentSurvives` (`EnvironmentRestored`), `FilesAreTakenInOrder` (`NoFilePassedOver`) and
`OnlyWhatIsInForceCounts` (`OverriddenHaveNoSay`). `EnvInv` says of each variable that it is as it was at the start, or a
resource variable taken out for good, or in `saved` with the value it had at the start and unset now: a variable that was saved is unset, and
an unset one is not saved again. `MaskInv` says that what was masked and is still to be masked are together the variables the
file overrides, and no others; `FindInv` which files had been missing when one was chosen.

`RecordingProofs` proves, for all headers, all bodies and all limits that go together (`SpanAssumption`, and that a header
has finitely many names):

| Theorem | States |
|---|---|
| `Invariance` | `Spec => []IInv` |
| `ResponseIsTold` | `RecordedIsSent` |
| `CopyIsBounded` | the copy of the response is no longer than `MaxBody` |
| `SplitterIsBounded` | `SplitWithinLimits` (no run checks it: it is proved) |
| `SpanHasRoom` | `SpanFits` |

Bytes are numbered, so a sequence of the first ones is known by its length (`Numbered`), and `CaptureInv` relates the lengths of
what was sent and what was copied, by the kind of the body. For `SpanFits` each stage of the recording has its part of the limit
(`BudgetInv`); a body fits its part because each top-level field makes one attribute of its own at most, and each path below was given room
(`SplitInv`). The first attempt failed: with no room for fields and paths at all, the two attributes of a body that was cut are already too
many. `MaxFields` is therefore assumed positive, as it is in the code.

Of `Peek` it proves, for every set of request bodies and all limits (`BodiesAssumption`, `LimitAssumption`), `PeekInvariance`,
`ForwardingSafe` (`ForwardedInFull`) and `RequestLossMarked` (`RequestLossIsMarked`, the half of `PeekIsHonest` that is no
induction). The head and what was sent are beginnings of the body (`Beginning`), so each is known by its length, and the lengths account for all
that was read: `Len(sent) + Len(head) = taken + read` (`PeekInv`), also when the transport starts again. `ResultInv` says what the result of the peek has of the body,
`EndingInv` that the upstream sees an end only at the end of the body, and a break only where the connection broke.

**Model-checked only**, for good:

- liveness (`ForcedCloseSucceeds`, `IdleSessionsEnd`, `ShutdownTerminates`, `CancelledExchangeEnds`), since fairness needs ENABLED;
- what is defined by recursion over data: `LossIsMarked` compares with the recursive `Documents`, `AsFed` with the events of a whole
  stream, `RecognisedBeforeTheCut` (in `PeekIsHonest`) with the fold over a body's tokens;
- `StreamErrorIsRecorded`, which does not hold.

## 6. Abstractions and what is left out

- Names, attributes, timestamps of spans (other than a session's end), logging,
  sampling (spans are assumed to record) and 3xx statuses. 200 stands for 2xx, 400 for all from 400 on.
- The transport returns `context.Canceled` only for a cancelled context. A custom
  transport could do otherwise; then `errorHandler` writes no status (`proxy.go:552`) and `net/http` answers 200.
- `Accumulator`: names, identifiers, error texts, finish reasons and times; a character is one byte, and the
  JSON form of shell commands is as long as they are together and a constant.
- `Exchange` gives each choice one output and takes JSON decoding as given per event.
- `Peek`: sampling parameters (decoded only from a whole body), character sets, sizes in bytes.
- `Recording`: the repair of invalid UTF-8, the cut of a text at a character's boundary, the type a number is recorded with.
- `Startup`: the sampler, the resource, the ID generator and what the exporter library does with its variables; the range checks of
  `validate` and normalisation, each a function of the file alone.
- `ParseResponse`: usage numbers and timings, each read from a field of one document; that it can fail, and what it then
  means for the spans, is in `Exchange`.
- Model names and user agents collected by a session.
- Trace contexts (`traceContext`, `sessionKey`, `sessionTraceID`): whether a parent is trusted, the trace identifier derived from
  a session's, links, and what of the client's trace context reaches the upstream. Each is a function of one request and the options.

### Not modelled

- Routes: a constant table; `Instrumented` stands for its answer.
- The OpenTelemetry SDK, `net/http` and the YAML parser, which are not this program's.

## 7. Plan

Order: what carries the promise of the process first (admission, sessions, shutdown, exchange), then the stream (the parser, the
accumulator), then what surrounds them (the request body, the recording, the start). All of these are done. Open:
`Exchange`'s reduced accumulator shown to be an abstraction of `Accumulator`.

Proved: every safety invariant, action property and refinement the runs check, but for the three above that are defined by recursion
over data. What could be proved beyond that:

1. that `Exchange`'s reduced accumulator is an abstraction of `Accumulator`, which first needs the mapping to be checked;
2. `AsFed` from `ImplementsReader`: what is left is an invariant of `LineReader` alone, one step per line, once a prover can take the recursive
   definitions of `Events` apart.
