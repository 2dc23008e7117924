# A TLA+ model of MD/JS

MD/JS lets an Atari ST run JavaScript on a SidecarTridge cartridge.  The
cartridge's RP2040 answers the ST's bus reads out of a RAM copy of a ROM, reads
commands off the address lines of a second ROM bank, and runs JerryScript on
its second core.  This directory holds TLA+ modules that model the program,
TLC configurations that check them on small instances, and TLAPS proofs.
Paths below are relative to the repository.

## 1. The system

### Components

| Component | Code | State it keeps | Operations |
|---|---|---|---|
| Worker, Core 0 | `rp/src/src/js_worker.c` 389-1105 | `s_async_pending`, its start time, `s_worker_armed`, the last `flush_seq` seen | start-up, drain of the async reply, dispatch of six commands, wait with timeout, restart of Core 1 |
| Worker, Core 1 | `js_worker.c` 90-473 | JerryScript context, `s_c1_phase` | boot, PING, UPLOAD, CALL, RESET handlers, flush of the result |
| Shared message block | `JsWorkerMsgBlock` | source and chunk counters, call parameters, result, URL and fetch result | critical sections under spin-lock 14 |
| fetch() | `js_fetch.c`, `httpc/` | URL and answer in the message block | asks Core 0 over the FIFO, waits for its word |
| ROM mirror | `romemul.c`, `js_worker.h` | result buffer, status, ready byte, token and seed | read by the ST at any time, without a lock |
| Frame parser | `include/tprotocol.h` | parser step, time of the last header candidate, frame under construction | one call per 16-bit word on the bus, from a DMA interrupt |
| Command buffer | `mdjs_protocol.c` | two frames, indexes, `s_protocol_ready` | publish (interrupt), consume (Core 0, interrupts off) |
| ST client library | `target/atarist/src/mdjs.c`, `sidecart_stubs.S` | none but the settle delay | ping, upload, call, reset, call_async, status, poll, result |
| Settings | `settings/settings.c`, `aconfig.c`, `gconfig.c` | table of entries in RAM, its image in flash | init, put, find, save, erase |
| Boot, main loop | `main.c`, `emul.c` | which application the board boots into | configuration, ROM copy, Wi-Fi, worker, loop |
| Wi-Fi | `network.c` | connection status, current network | init, connect with deadline, link callbacks |
| Cartridge demo | `target/atarist/src/main.s` | retry counters, text of the alert | PING, UPLOAD, CALL, each sent again until it is answered |
| Editor example | `examples/mdjscode/` | lines, cursor and window; run and poll state | edit, load, save, run, poll |
| Pong example | `examples/stjspong/` | ball, paddles, score, the call in flight | one frame, one async call after another |

The SD card, download and most of the SELECT button files are template code the
application compiles and does not call; `u8g2` is vendored; `jerry_port.c` is
the set of callbacks JerryScript needs.

### How they interact

    ST program -> mdjs.c -> bus -> tprotocol_parse (interrupt) -> command buffer
      -> js_worker_loop (Core 0) -> FIFO -> core1_entry (Core 1)
      <- result, status, ready and token in the ROM mirror <-----+

The ST sends a frame with a token it drew from the seed word and waits until
the token word shows it.  Core 0 takes the frame, answers it by itself (POLL, a
refusal, a chunk that is not the last one) or pushes a tag to Core 1 and waits
for the next word from it.  CALL_ASYNC is acknowledged at once; its reply is
taken by `js_drain_async_fifo` in a later turn of the loop, or by whoever pops
the FIFO first.  A script's `fetch()` reverses the roles: Core 1 pushes a
request and blocks, Core 0 does the HTTP transfer wherever it finds the request
(waiting for a command's reply, or draining) and pushes the answer.

### What is hard here

- FIFO words carry a tag and no command: with an async call in flight, replies
  can be taken for one another, and `fetch()` takes any word for its answer.
- Two timeouts restart Core 1 at any instruction, inside a critical section
  too; words, locks and flags of the interrupted work stay behind or do not.
- Publication is in several steps: `result_json` under the lock, its copy to
  the mirror under the lock again, the reply after it; the status byte and
  `s_async_pending` say different things meanwhile.
- Both cores decide who raises the ready byte, each from the other's flag.
- The ST sees only the mirror, unprotected, and gives up by itself.
- Frames are lost: a wrong checksum, a header search restarted by a pause, a
  command buffer of one.
- Settings are erased before they are written; the Wi-Fi connection loop polls
  the worker from inside.

### What makes each component correct

- Worker: replies are conserved; an acknowledged command finds its own answer
  in the buffer unless an async call was in flight; the call parameters are
  not overwritten before they are read; no core blocks on a full FIFO; every
  dispatched command is answered; RESET clears the context; the ready byte is
  only up when commands are dispatched, and it does come up.
- Frame parser: after any noise, a pause and a whole frame deliver that frame
  and nothing else; a frame that is delivered was sent; the payload never
  overruns its buffer.
- Client: a return of 0 means that this command was answered.
- Upload: what Core 1 evaluates is the concatenation of the chunks of one
  upload, in order, and `mdjs_upload` returns 0 only when it was evaluated.
- Settings: after a restart the table is what was saved, as far as it was
  programmed, and defaults elsewhere.
- Wi-Fi: a connection attempt ends, reports what happened on the radio, and
  the ST is served meanwhile.
- fetch(): the script gets the status and the text of the server it asked, or
  the Response of an error, and no body stalls.
- Demo: the alert shows the sum, whatever was sent twice.
- Editor: every key does one thing to one text, and the window shows it; a
  result it shows is that of the call it is shown for.
- Pong: the paddle is aimed by answers of this game; nothing leaves the court
  but a ball that was missed.

## 2. Modules

| Module | What it models | Built on | Proofs |
|---|---|---|---|
| `MdjsWorker` | both cores of the worker, FIFOs, shared block, mirror | | `MdjsWorkerProofs` |
| `MdjsClaims` | what the documentation says of it | `MdjsWorker` | |
| `FrameParser` | `tprotocol.h` | | `FrameParserProofs` |
| `FrameBus` | any words on the bus in front of the parser | `FrameParser` | `FrameParserProofs` |
| `CommandLink` | sender, bus, parser and command buffer | `FrameParser` | `FrameParserProofs` |
| `LossyLink` | abstract: a command lands as it was sent or never | | |
| `Handshake` | seed, token, give-up, late answers | | `HandshakeProofs` |
| `Upload` | the upload in chunks, from the client to Core 1 | `Handshake` | `UploadProofs` |
| `CartDemo` | the program in the cartridge and its retries | `Handshake` | `HandshakeProofs` |
| `HttpFetch` | fetch(): handler, request, callbacks, Response | | `HttpFetchProofs` |
| `Settings` | the settings library over a flash that loses power | | `BootProofs` |
| `StaConnect` | `emul_start` and the Wi-Fi connection loop | | `BootProofs` |
| `Boot` | main, both settings tables, the Booster, power | `Settings` (twice), `StaConnect` | `BootProofs` |
| `TextEdit` | the editor's code window, files and events | | `TextEditProofs` |
| `TextBuffer` | abstract: one text and a point in it | | |
| `EditorRun` | the editor's runs and its poll, over the worker | `MdjsWorker` | `MdjsWorkerProofs` |
| `Pong` | one frame of the game and its call in flight | | `PongProofs` |

`MC*` modules give the constants of an instance for TLC.

Refinements: `CommandLink` implements `LossyLink`, `TextEdit` implements
`TextBuffer` (both as a PROPERTY of a run, with INSTANCE ... WITH, and proved
too), `CartDemo` implements `Handshake` and `EditorRun` implements
`MdjsWorker` (both proved).  `LossyLink` is what `Handshake`
and `MdjsWorker` assume of the way to Core 0; what `MdjsWorker` promises a
program with one call in flight is what `Pong` assumes.

### Still worth doing

- A specification of the worker for a program that makes no async call, and
  `MdjsWorker` shown to implement it.
- `PredictClose` as a theorem: today it is model-checked.
- Payload lengths: the worker looks at 256 bytes of a payload
  (`js_worker.c` 719), of which a client may send more.

### The runs

| Run | Instance | What it shows |
|---|---|---|
| `worker` | 3 commands of all eight kinds, FIFOs of 8, the ST may give up | eight invariants, `ResultStable`, and under fairness `Answered` and `AsyncSettles` |
| `claims_reset` | 3 commands of five kinds | violation, section 11 |
| `frame_bus` | words 0, 4 and the header 5 of a 6-valued word, payloads up to 4 bytes | the parser's bounds; frames in, frames out |
| `command_link` | four commands of one to three payload words, over an 11-valued word | the refinement of `LossyLink`, and `FrameArrives` |
| `upload` | 4 commands, room for two chunks | `SourceFits`, `UploadedIsEvaluated`, `ResetForgets` |
| `cart_demo` | 5 commands, 5 seeds, the demo or any program, Core 1 late once | the hand-shake's three properties and `ShowsItsSum` |
| `cart_retries` | 7 commands | violation, section 11 |
| `fetch` | two fetches, six URLs at the limits, servers that close, reset or fall silent | `AnswerIsTheServers`, `TextIsBody`, `NoStall` |
| `boot` | two sectors of eight entries on four pages, the Booster, power cuts, an attempt of 7 ticks | what is reported, what survives, that it ends |
| `text_edit` | three lines of two characters in a window of two by two, batches of two keys; a short of four bits | the window shows the text, the text is uploaded and saved whole, and `TextBuffer` |
| `editor_run` | two runs (six commands), the first async | `ShowsItsResult`, `PollEnds` |
| `pong` | a court of 24 by 12, games to 1, with and without JavaScript | `AnswersThisGame`, `PredictClose` |

## 3. MdjsWorker

### State

| Variable | Code |
|---|---|
| `pc0`, `cmd` | where Core 0 is in `js_worker_loop`, and the frame it dispatches |
| `asyncPending`, `asyncExpired` | `s_async_pending`; whether `time_us_64() - s_async_start_us` is over the limit |
| `armed` | `s_worker_armed` |
| `pc1`, `op1`, `out1` | where Core 1 is, the word it popped, how the script ended |
| `loaded` | whether uploaded code is in the JerryScript context |
| `toC1`, `toC0` | the two hardware FIFOs |
| `lock` | spin-lock 14: free, held by Core 1, or left taken by a restart |
| `call` | the command whose parameters are in `call_func` and `call_args_json` |
| `resultJson` | `result_json` and `result_is_error` |
| `resultMem`, `status`, `ready`, `token` | the words of the ROM mirror |
| `st`, `sent`, `slot` | the ST's wait, how many commands it sent, the command buffer |

`pc1 = "boot"` and `"up"` stand for `s_c1_phase` before and after
`C1_PHASE_READY`.

### Granularity

Each action is a stretch of code between two accesses to what the other core,
the interrupt or the ST can see.  Core 1's critical sections are two steps,
taking the lock and leaving it, because a restart may strike between them;
Core 0's are one step that needs the lock free, because nothing stops Core 0
inside one.  A reset of Core 1 takes one step: `multicore_reset_core1` holds
the core in reset until `multicore_launch_core1` releases it, and the launch
handshake drains both FIFOs.

### What is abstracted

- A result is the command it answers and its kind; text is left out.
- An upload's last chunk is `UPLOAD`, another one `CHUNK`; header checks,
  sizes and payload parsing are "accepted" or "bad", either one possible.
- A script ends with a value or an exception, calls `fetch()`, or never ends.
  A HTTP transfer ends with success or failure.
- Tokens are command numbers, so that two never agree.
- Core 0's wait for `flush_seq` to move (a spin of at most 10,000 turns,
  without an effect on its control) is left out: the words it waits for are
  written before the reply is pushed.
- The unlocked copies to the mirror are single steps; the ST's reading a
  half-written buffer is not modelled.
- Time: a timeout may strike at any step where the code compares the clock.
  A sync deadline implies that an async call still pending is over its own,
  which began earlier.

### Run

`worker` has three commands of all eight kinds.  Three are enough for every
pairing the properties speak of: an async
call, a command that takes its reply or is swallowed by its `fetch()`, and a
third that could be hit by what is left over.  FIFOs of 8 are the hardware's;
`FifosNeverFill` shows that two words are the most ever under way, so a larger
depth adds nothing.  The proofs need no bound at all.

Deadlock checking is off because the system really can stop: a restart while
Core 1 holds the spin-lock leaves it taken, and both cores then wait for it for
ever.  The ST program may also just end.

What the invariants say:

- `ReplyAccounting`, `NoStrayReply`: for each word pushed to Core 1 one reply
  comes back, even if a `fetch()` swallowed the word, if a reply was taken for
  another command's, or after a restart.  When no reply is awaited, none is on
  the way.  This is why the mix-ups end with the async call instead of
  shifting all later replies by one.
- `OwnAnswer`, `CallResultIntact`, `ResultStable`: what the ST may rely on.
  The first holds only with no async call in flight.
- `CallParamsStable`: the busy check protects the parameters of a call.
- `FifosNeverFill`: no core waits for room that nobody makes.
- `ReadyMeansArmed`, `ReadyRaised`: the protocol of the ready byte.

### Fairness

`FairSpec` asks that Core 0 keeps looping, Core 1 keeps executing its own code
and clocks advance.  Each is a processor or a timer that runs by itself, and
each core is one thread, so weak fairness of the disjunction of its steps is
what the hardware gives.  Nothing is asked of the ST, nor of scripts: a script
may run for ever, and the timeout is what ends it.  The two liveness properties
carry two provisos, that scripts stop calling `fetch()` at some time and that
no restart leaves the lock taken; neither can be dropped (section 11).

### Proofs

`MdjsWorkerProofs` proves, for every number of commands, every set of commands,
every FIFO depth of at least 2, and both settings of `GivesUp`, all nine safety
properties of the run, and four more that no run checks: `FetchNotForgotten`
(a script in `fetch()` is owed a word), `ResetClears` and `AnsweredOnce`
(without an async call in flight), and the type invariant.  The argument:

1. `TypeCorrect`: the type invariant, needed by all that follows.
2. `WorkerInvariant`: `WorkerInv` is inductive.  No property is inductive by
   itself.  `ReplyAccounting` counts words, and so needs to know which words
   can be where (`OrderInv`: Core 1 blocked in `fetch()` means a request or an
   answer is under way, and no more), what Core 0 can be doing
   (`Core0Inv`) and what Core 1 can be doing (`Core1Inv`).  `NoStrayReply` and
   `FifosNeverFill` then follow by arithmetic.  `OwnAnswer` needs `AnswerInv`,
   which follows the result through store, flush and reply.
3. `ReadyInv` and `CallInv` are two further inductive invariants on top of
   it, for the ready byte and for the result of the last call.
4. The action properties follow from the invariant of the state they start in.

The only assumptions are those on the constants.  Liveness is out of the
prover's reach (it needs fairness and ENABLED) and is only model-checked.

## 4. FrameParser, FrameBus, CommandLink

`FrameParser` is `tprotocol_parse`: its variables are the static variables of
`tprotocol.h` (`nextTPstep`, `commandId`, `payloadSize`, `bytesRead`,
`finalChecksum`, `payload`), each action the handling of one word in one step
of the parser.  `stale` says whether more than 10 ms have passed since
`last_header_found`; a `Pause` sets it.  `out` is what the last word handed to
the callback.  The 32-bit clock wraps after 71 minutes, when a pause may look
short once; that is left out.

`FrameBus` adds a memory of the words on the bus, so that its properties can
say what should be delivered without a look at the parser: `DeliveredWasHeard`
(only frames, whole, with the right checksum and the payload they had) and
`FrameIsDelivered` (every frame behind a pause, whatever noise came before).

`CommandLink` is a command's way from the ST to Core 0.  The ST sends the words
of a frame, may be delayed between any two of them, and may be reset in the
middle; the cartridge keeps running.  It implements `LossyLink`: a buffer of one
in which a command lands as it was sent, or never.  `FrameArrives` says when it
does.  It assumes that no word of a frame but the first is the header value: a
payload that holds a whole frame, and is cut by a pause right in front of it, is
parsed as that frame.  Words lost on the bus are only in `FrameBus`, where any
word may follow any other.

Two words of payload are enough for the first, the last and an odd byte to be
different cases; with three values a word can be header, size, payload and
checksum at once, and the sum wraps.

`FrameParserProofs` proves for every word size, buffer size and set of words
that the interrupt writes inside `payload[]` and the parser is never in a step
that no word leads out of (`PayloadAlwaysFits`).  The inductive invariant adds
that `bytes_read` is even, so that a word fits below an even buffer size even
when the payload size is odd, and that a step is only entered with its counter
reset.

It proves the properties of both runs as well, for every alphabet of words, every
noise and every set of commands.  The heart of all of them is `FrameSoFar(w)`:
with the words `w` read since the last header, the step, the command, the sizes,
the payload and the running checksum are what `w` says.  `BusInv` takes `w` from
the memory of the bus and gives `DeliveredWasHeard` and `FrameIsDelivered`;
`LinkInv` takes it from the sender, who is inside the frame or was reset in it,
unless time has passed since the header, and gives `FrameArrives` and the
refinement: each step of the link maps to one of `LossyLink` or to a stutter.
That the checksum of one word more is the parser's sum, `SumOf`, is a fact about
a fold, proved by induction on the length.

## 5. Handshake and Upload

`Handshake` is `js_send_response` against the wait loop of `sidecart_stubs.S`,
one access to a word of the mirror per step.  `seedMem` and `tokenMem` are the
two words, `mine` the value the ST read before it sent, `slot` and `busy` the
command in the buffer and the one Core 0 works on.  `late` counts the times the
ST gave up on an answer that was still to come, `stolen` the calls that
returned 0 on another command's answer, `reused` says that `rand()` gave a value
still in use: they are there for the properties.

- `ZeroMeansAnswered`: no late give-up, no stolen answer, though seeds repeat.
- `StolenPerGiveUp`: afterwards, one stolen answer for each late give-up at
  most.  Here the comparison with the token matters; for `ZeroMeansAnswered`
  the one with the seed would do.
- `LandedEndsWait`, under fairness of Core 0 (it loops by itself) and of the
  ST's polling loop, not of its sending or of its timeout.

The run `cart_demo` checks them, with the demo or a program that keeps to no
order as the client (section 6).  It has five commands and five seeds, so that
two commands can
be in the cartridge and a third under way while every word of the mirror holds
a value of its own.  `rand()` never returns the same value twice in a row in
the model.  `HandshakeProofs` proves `ZeroMeansAnswered` for every number of
commands and every set of seeds: until the first late give-up, the cartridge
holds no command but the one the ST waits for, and the seed stays what that
command carries until its answer is complete.  For `StolenPerGiveUp` the
invariant has to keep accounts: `Debt` is how many commands the ST gave up are
still in the cartridge, or, when the seed has changed already, whether the wait
is about to end on such an answer; thefts and debt together never exceed the
late give-ups, unless a seed was drawn that was still in use.

`Upload` puts `mdjs_upload` on top.  `prog` is the client's call under way,
`source`, `len`, `received` and `expected` are the fields of the message block,
`async` is `s_async_pending` with "expired" for a call whose time is over.
Core 1 parses `source` chunk by chunk without a lock, so that a write in between
shows.  A chunk is a full one and `Cap` of them fill `js_source`; odd sizes and
the last, shorter chunk are left out, so is whatever `MdjsWorker` has already:
the lock, `fetch()`, the status byte.  Seeds do not repeat here.

- `UploadedIsEvaluated`, `ResetForgets`: whatever happened before, a call that
  begins with the cartridge at rest and returns 0 has done what it says.
  "At rest" is that no command is in the cartridge and no async call is
  pending.  Nothing is assumed of the FIFOs or the counters: that nothing is
  left over in them is what is shown.
- `SourceFits`: the bound of `js_source` in any order of chunks.

The run `upload` has four commands and room for two chunks: two commands to
make a mess of, and an upload of two chunks after it; or an upload too large.

`UploadProofs` proves `SourceFits` for every size of `js_source` and every set
of commands: Core 0 appends to what the length covers, and Core 1 clears length
and counter in one critical section, so that they agree even when a RESET is
late and clears an upload already begun.  It also proves
`UploadedIsEvaluated` and `ResetForgets`.  `CalmInv` follows a call that began
at rest: its command, the only one, is in the buffer, with Core 0, at Core 1 or
answered, and what is stored is the chunks acknowledged so far.  It rests on
`CoreInv`, that no word is between the cores but the one of the command in hand
or of the async call, which is what makes nothing left over at rest.

## 6. CartDemo

`CartDemo` is MDJSDEMO.PRG with the hand-shake underneath: `demo` is the command
it is at, `left` the register of the retry loop, `tries` how often the command
was sent, `shown` what it copied from the result buffer, in two parts because
the copy is word by word.  The worker is as much as the demo sees of it: a
command is executed some time after it was taken, and answered after that; Core
1 may be late, which costs the context.  AES and drawing are external.

- `ShowsItsSum`: the demo sends the same command until it is answered, so that
  whatever answer ends a wait is one to that command, and by the time the text
  is read a CALL was executed after an UPLOAD and nothing else can still be.
  Core 1 must have been in time, and no seed have repeated.

Fairness is weak, on the worker and on the ST's polling loop: both run by
themselves.  Sending and giving up are the program's and the clock's business.

`HandshakeProofs` proves for every set of seeds and number of retries that each
step is one of `Handshake` or leaves it alone (`DemoIsHandshake`), so that the
invariants of the hand-shake give `ZeroMeansAnswered` and `StolenPerGiveUp`
of the composed system; and `ShowsItsSum`.  Its inductive invariant is that a seed is never the
token of two different commands: the demo goes on only when the seed has
changed since it sent (`Tokens`), and what the end of a wait stands for is
`Done`, which holds already when the answer is complete (`Effects`).

## 7. HttpFetch

One `fetch()` from the script to its Response.  `toC0`, `toC1` are the FIFOs,
with nothing else in them (their mix-ups are in `MdjsWorker`); `url`, `body` and
`msg` are the fields of the message block, `request`, `status` and `reason` what
the callbacks fill; `conn` is the connection.  The callbacks are inlined in the
step of lwIP that calls them: they run while Core 0 polls.  lwIP's HTTP client
and the server are external, and so is the Promise around the Response.  A URL
is its host, path and port and the lengths that the buffers limit; a body is a
sequence of segments no larger than the window.

- `AnswerIsTheServers`: the script gets a status if and only if a server was
  heard to the end, and it is the one the URL names, if its port is a port.  A
  URL that is refused before anything is sent gets none.
- `TextIsBody`: the beginning of the body however it was cut up, if there is no
  NUL in it.
- `NoStall`: a body larger than buffer and window does not stall, since all of
  a segment is acknowledged, also what is thrown away.

The run's buffer has four bytes, its window three, and a body comes in up to
five segments of up to three, so that a segment can end before, at and behind
the end of the buffer; two fetches show what one leaves to the next.
`HttpFetchProofs` proves all three for every set of URLs and servers and every
size.  For `NoStall` the invariant is that nothing is ever left unacknowledged.
For `AnswerIsTheServers`, `OneFetch` says where the request is and `Heard` that
a status would be reported exactly when the connection closed after its headers
with all of its body.  For `TextIsBody`, `SoFar` says that what has come
is a piece that the segments to come complete to the body, and that `fetch_body`
is as much of its beginning as fits; that segments may be put together in any
order of brackets is a fact about a fold, proved by induction on their number.

## 8. Settings, StaConnect, Boot

`Settings` is the library: `table` in RAM, `flash` as the image of the last save
and how many of its pages are programmed, so that a power cut in a save leaves
a prefix.  `settings_init`, `put`, `find`, `save` (erase, then page by page) and
`erase` are actions.  An entry can lie across two pages, and then has at most
its key in the first: an assumption on the sizes, which TLC evaluates for the
real ones.  Defaults are read with the count the caller passes, which for
`gconfig.c` runs past the array: there `Defaults` is the array and whatever the
linker put behind it.

`StaConnect` is `emul_start` and `network_wifiStaConnect`: the loop's copy of
the status, the interval in which the driver is asked, the deadline, and the
worker polled from the loop.  Time is in ticks.  The driver and lwIP are
external; the link may change in every poll.

`Boot` composes both with `main`: the global sector, which the Booster writes
(another program in the same flash, with its own defaults, that may change,
save, erase and restart at any time), and the application's own, which main
saves the first time.  Power may go at every step.

- `ReportIsRight`: "ok" only if the link was up; a link that came up and stayed
  is reported unless it came so late that two turns did not fit; one that was
  seen is reported as a timeout only if the last turn ran over the deadline.
- `ServedMeanwhile`: the ST is served in every turn.
- `LoadRecovers`: what is loaded after any crash is, entry by entry, what was
  saved or a default.
- `AppSettingsStay`: a boot never erases settings of the application that are
  complete enough to be found.
- `BootEnds`, under weak fairness of main's own steps (`WF` of `MainStep`):
  nothing else runs on Core 0.

The geometry of the run is the code's at a smaller scale: every second entry
lies across two pages, one of them with exactly its key in the first.  An
attempt of seven ticks with turns of up to two and a status read every three
has room for a status read twice, once, or too late.  `BootProofs` proves
`AppSettingsStay` for every table and geometry: an erase under way was begun
on a sector without the magic, since the load before it had found none.

`BootTypeOK` and `LoadRecovers` rest on lemmas about the library.  `TableOfIs`:
whatever the defaults and their count, the table made of them begins with the
magic and fits the sector.  `StoredIs`: a sector reads as a prefix of the image
it was given, all of it when all pages were programmed, because an entry that
is cut has no type (`GeometryAssumption`).  `OverlayIs`: a load puts that prefix
over the first default of each key.  The loader takes the last entry of a key
and the finder the first, so `LoadRecovers` also needs the image to agree with
itself: `GlobalInv` says that whatever is in the global sector is a table of the
Booster's, with its keys and, where the user may change nothing, its values.
`BoosterAssumption` is what that takes of a program that is not in this
repository: a key that its defaults hold twice has one value and is not among
those the user changes.

It also proves `ReportIsRight` and `ServedMeanwhile`, for every deadline,
interval and length of a turn.  `StaInv` relates the loop's copy of the status
to the link at each place of the loop: a link that is up is in the status that
the loop reads next, because the callback of its address has set it or because
it is time to ask the driver, and it came up no longer than a turn ago
(`NoticeInv`).

## 9. TextEdit, TextBuffer, EditorRun

`TextEdit` is `textedit.c` and the events `main.c` feeds it: `te` is the struct
(lines, cursor, first row and column, selection of nothing), `screen` what is
drawn in each row, `batch` the keys drained together before a redraw.  Loading
splits at CR, LF and CR LF and cuts long lines, saving writes CR LF, uploading
joins with LF.  `do_load` keeps the length of a line in a short, `LineLen`: one
of more than `ShortMax` characters is negative, passes for a line that fits, and
is a huge size to `memcpy` (`main.c` 1165).  What the copy runs over is not
modelled: it ends the program (`Overrun`, `running`), which may be started again
(`Start`).
Letters are one and the space, because words and tabs are all that tell
characters apart.

- `EditsOneText`: it implements `TextBuffer`, one text and a point in it, where
  each key inserts, removes or moves, as long as the program runs and the cursor
  is on a line.  Only a file without a line, one that begins with NUL, takes it
  off the lines (`main.c` 1156; Enter makes a line, and puts the cursor below
  it), and that too is part of the property.  Joining two lines that are longer
  than a line takes loses the tail; `TextBuffer` says exactly which.
- `ScreenIsText`: the code redraws as little as it can, and every row shows
  the text behind it all the same.
- `UploadIsText`, `SaveIsLoaded`: with their two exceptions (section 11).  A
  file the editor saved is never one that ends the program.

Three lines of two characters and a window smaller than the text have every
edge of line, text and window next to each other.  A short reaches to 7, and a
file to 9 characters, so that the files of the run can overrun; one of them does,
one begins with NUL and one has a NUL inside.  `LoadedLines` finds the lines by
where they start; `MCTextEdit` compares it with a reading character by
character, for every file of up to seven characters that does not overrun
(`LoadedIsRead`, an ASSUME that TLC evaluates).

`TextEditProofs` proves all four for every size of the text and of the window,
every set of files and every order of events.  The invariant `Right` has three
parts:

- the text has its shape and the cursor is in it (`EditOK`).  The one state in
  which the cursor is behind the last line is that after a file which begins
  with NUL: there is no line then;
- the range of a batch is a range, and no range when no key waits;
- each row outside the range that waits to be drawn shows the text behind it,
  and a bar on it is the cursor's.

`EditInv` adds that a program that has ended has no key waiting: a file is
loaded between two batches, never inside one.

`ScreenIsText` alone is not inductive: it says nothing while keys wait, and it
is what the rows outside the range show then that makes the one redraw enough.
That the range is wide enough is the lemma `KeyEdits`, with a lemma for each
edit; that scrolling redraws everything is `Finished`.  `LoadedIsText` (what
`do_load` makes of any file is a text) keeps `EditOK` over a load.

For the upload, `FlatLength` bounds the text with its line breaks by the size
of the buffer, by induction over the lines, and equality is the exception of
section 11.  For the files, `SavedIsLaidOut` says where each line stands in the
saved file, `StartsAre` that the loop of `do_load` finds it there, and
`BreakIsNear` that no place in it is further from a line break than a line is
long, which no short overruns (`SavedIsSafe`).

For `EditsOneText` the text is cut in three, the cursor's line and what is before
and behind it (`FlatAround`), and each edit is stated as what it makes of such
pieces: `CharsPutIn`, `BreakPutIn`, `CharTakenOut`, `BreakGoes` and `MoveStays`,
put together in `KeySteps`.  `TextBuffer` counts positions in a flat text and
looks for the line breaks around one; `Inserts`, `RemovesChar` and
`RemovesBreak` find the pieces there.  The last one is where a tail is lost, and
where what the array keeps of two lines must be what `TextBuffer` says.  The
invariant is `EditInv`; no file is left out.

`EditorRun` is `do_run` and `poll_async_result` over the whole of `MdjsWorker`,
whose client is the editor: a run is a ping, an upload and a call, and an async
call is polled in the event loop.

- `ShowsItsResult`: the result shown is that of the call it is shown for,
  unless a command was given up or sent with an async call still in flight.
- `PollEnds`: "Running code..." goes away, unless a restart left the lock
  taken.  Fairness: that of the worker, and weak fairness of the event loop's
  poll, which runs for every timer event.

Two runs of three commands are what it takes for the second to meet the first.

`MdjsWorkerProofs` proves that the editor is a program as `MdjsWorker` allows
(`EditorIsAClient`), so that all that is proved of the worker holds under it,
and `ShowsItsResult` for any number of runs.  The invariant `EditorInv` has two
parts.  `Places` says at which command of the run the editor is, in each state
of the ST.  `Calm` holds while no command was given up and none was sent beside an
async call: the ST is never ahead of the worker by more than the command it
waits for, an async call in flight is the last command sent, and otherwise the
result buffer answers the last token.  That an async call leaves its own result
when the status leaves BUSY is `CallInv`, which the worker's proofs already have.  The one assumption, `EditorOpsAssumption`, is that the
commands the editor sends are among those of the model.

## 10. Pong

A step is a frame, `play_frame` with all it calls: the answer is taken or not,
the next call is made or not, the paddles move, the ball flies, is hit, or is
out.  Lengths are scaled; the fixed point, the walls, the swept test, the bounce
and the serve are the code's.  The worker is what `MdjsWorker` promises one call
in flight.  Drawing, sound and the splash screens are left out; `wait_start` is
the phase "over".

- `AnswersThisGame`: a new game forgets the call of the last one, whatever that
  still answers.
- `PredictClose`: `predict_right` unfolds the walls with a remainder, and is
  compared with flying the ball: it is off by the way of a frame and what each
  wall costs, and no more.

`PongProofs` proves the first for every court and every answer, and
`CourtInvariant`: ball and paddles stay where they may be drawn, the target is
one a paddle can have, the speed across the court is never 0 nor beyond its
limit, and the ball flies away from who hit it last, so that nobody hits it
twice.  Each part is kept by the step that clamps it; that the ball is served
inside and turned round by a hit are lemmas of their own.

## 11. Where code and documentation disagree

Each of these is a run that ends in a trace of the code.

- `claims_reset`: `mdjs_reset` returns and the uploaded code is still there,
  when an async call's reply was taken for that of RESET.
- `cart_retries`: `main.s` 45 sets a number of retries for each command, but
  the loop around the CALL keeps its count in `d7` (`main.s` 258), which the
  command overwrites with its checksum: the CALL is repeated again and again.

Seen on the way, without a run of their own.  The worker and its client:

- `mdjs_call_async` returns 0 for a call that was refused as busy, between
  Core 1's DONE and Core 0's drain; in general a refusal is acknowledged like
  a success, and the client cannot tell (`mdjs.c` 201).  So `mdjs_upload`
  returns 0 for a source that was refused as too large.
- The bound on a wait does not hold for a script that keeps calling `fetch()`,
  and a restart inside a critical section leaves the spin-lock taken.
- The source is not copied before it is parsed, and may change meanwhile.
- Polling with `mdjs_poll` overwrites the result of a call that is DONE
  (`js_worker.c` 989), which `mdjs.h` 128 tells the caller to fetch then.
- A call that is DONE may turn into a timeout error, because the drain looks at
  the clock before it looks for the reply (`js_worker.c` 768).
- The busy answer to an async call refused by Core 0 may be overtaken by the
  reply of the call before it (`js_worker.c` 912, 466); and what Core 0 writes
  between the two lock sections of Core 1 is published as the result of the call
  (462).
- The ready byte stays up while the worker runs a call; `mdjs.h` 52 says it
  reads back as 0.
- The worker looks at 256 bytes of a call's payload (`js_worker.c` 719).
- A frame with a payload size of 0 is delivered with the size of a frame that a
  pause cut short (`tprotocol.h` 164).  The client never sends one, for the
  token is in every payload.
- After a timeout the next command carries the same token, so that the late
  answer ends its wait and it returns 0 unanswered (`sidecart_stubs.S` 154).
  The same may let `mdjs_upload` go on to chunk 1 with chunk 0 lost, which is
  then evaluated together with the upload before (`js_worker.c` 889).

fetch():

- A NUL in a body ends it for `js_fetch_recv_cb` (`js_worker.c` 495), which
  then writes the next segment over what followed: what is lost depends on how
  the network cut the body up.
- The port is cut to 16 bits: 65616 asks port 80 (`js_worker.c` 580).
- A body cut at the size of the buffer may end inside a UTF-8 character.

Network:

- A connection that comes up in the last turns before the deadline is reported
  as a timeout (`network.c` 786).
- A link that came up once counts as connected when it has gone down again
  (`network.c` 546).
- `dnsCopy` is freed twice when the second server of a static configuration is
  not an address (`network.c` 680, 696).
- A board whose radio failed to initialise reaches the main loop and polls the
  driver all the same (`network.c` 323, 425, `emul.c` 38).

Editor:

- A text that fills the upload buffer exactly loses its last line (`main.c`
  880); a text near the limit is saved larger than `do_load` accepts; an empty
  last line is lost by a save and a load.
- A file that begins with NUL leaves no line (`main.c` 1156): what is typed is
  lost, and Enter makes a line and puts the cursor below it.
- A line of more than 32767 characters, in a file of the 51200 that are
  accepted, has a negative length (`main.c` 1165), is not cut, and `memcpy`
  overruns the program's memory.
- A key that is not handled makes the cursor visible without drawing it, and
  the bar of a cursor at the right edge is drawn one column outside.

## 12. What is proved and what is checked

Fifty-four theorems are listed in `PROJECT.json`.  Together they prove, of
the properties that the runs check, for every value of the constants:

- all nine safety properties of `worker`, and `ShowsItsResult` of the editor;
- `PayloadFits`, `DeliveredWasHeard`, `FrameIsDelivered`, `FrameArrives` and the
  refinement `ImplementsLossyLink`;
- `ZeroMeansAnswered`, `StolenPerGiveUp`, `ShowsItsSum`;
- `SourceFits`, `UploadedIsEvaluated`, `ResetForgets`;
- `AnswerIsTheServers`, `TextIsBody`, `NoStall`;
- all safety properties of `boot`: `BootTypeOK`, `LoadRecovers`,
  `AppSettingsStay`, `ReportIsRight`, `ServedMeanwhile`;
- `ScreenIsText`, `UploadIsText`, `SaveIsLoaded`, and the refinement
  `EditsOneText`;
- `AnswersThisGame`.

They assume nothing but the named assumptions on the constants, which TLC
evaluates in the runs.

Only model-checked are:

- liveness (`Answered`, `AsyncSettles`, `LandedEndsWait`, `BootEnds`,
  `PollEnds`), which needs fairness and ENABLED and is out of the prover's
  reach;
- `PredictClose`, which has not been proved.

The library states induction with an operator as a parameter, which no prover
here can instantiate.  Where a proof needs induction over data (a checksum, a
body in segments, both folds of the community modules) it uses a form with a set
instead, derived from the well-foundedness of the natural numbers: a set of
naturals that holds 0 and with each number the next holds them all (`Induction`
in `FrameParserProofs`, `HttpFetchProofs`, `TextEditProofs` and `BootProofs`).

## 13. Not modelled

- `download.c`, `sdcard.c`, the callbacks of `select.c`: template code that this
  application compiles and never calls.
- `romemul.c`, the PIO programs and the DMA set-up: configuration of hardware.
  What comes out of it is a stream of bus words, which `FrameBus` and
  `CommandLink` begin with.
- `jerry_port.c`: callbacks of JerryScript without state of their own; the
  engine itself is external.
- `u8g2`: vendored, two thirds of the repository's lines, and drawing only.
- The boot detection and the terminal of `main.s`: drawing and waiting for
  keys; its commands are `CartDemo`.
- The emulator's tests and the build scripts: not part of the program.
- Drawing, sound, menus and dialogs of the examples.
