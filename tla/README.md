# Formal models of the Arker SDK

This directory holds TLA+ models of the Arker SDK (the clients in
`typescript/src/`, `python/src/arker/` and `go/`, and the command line tool in
`cli/src/`), the TLC instances that check them, and machine-checked proofs about
each of them that has steps. Paths below are relative to the repository.

The SDK creates and drives remote machines through an HTTP API. Nearly every
operation of it is one request through one retry loop, so that loop, run by
several callers at once against a network that loses answers, is where the
promise a user depends on is made or broken: *a fork makes one machine, and
what the caller is told about it is true*. The models start there and go on to
the parts that make several requests, share state between callers, or turn a
user's files and words into requests.

## Inventory

| component | state it keeps | operations | hard behaviours | what makes it correct |
|---|---|---|---|---|
| API origin, gateways, network (external, `openapi.json`) | resources, idempotency ledger, requests on the way | perform, refuse, fail after the start, lose, answer in the origin's place, perform late | late and lost requests | assumptions, stated in `ApiServer` |
| request loop, TypeScript `requestJson` and Python `_request_json` | attempt counter, queueing deadline, back-off timer | send, classify the answer, sleep, replay, settle | replays of writes, late effects, timers that fire late, budgets | at most one effect, truthful answers, budgets kept, termination |
| request loop, Go `Client.do` | attempt counter, last answer, caller's context | the same, plus cancellation | replays without looking at the key, half-read responses | keyed calls converge, termination |
| waiting for a background run, `_awaitRun`, `awaitRun`, `runOutputDelta` | deadline, failure count, output cursors | poll, deliver output, give up | failing polls, deadline against server time limit, truncated output | every byte once or announced, no early and no missing end |
| HTTP/2 transport, `Http2Connection`, `sendRequest` | one connection per origin, stream count, "HTTP/1 only" marks | negotiate, open streams, fall back | racing negotiations, errors after the status | no request sent twice, the process can exit |
| directory sync, `syncDir`, stat cache, caller's cache | persisted signatures, caller's hashes, remote manifest | list, hash, compare, upload, save | edits during a sync, clock granularity, concurrent syncs, half-failed uploads | a sync that succeeds mirrors what nobody touched |
| `arker shell`, `connectPty`, `bridgePty` | socket, listeners, terminal mode, size | resolve, open, bridge, resize, close, signals | close before open, signals while raw, data behind a close | the terminal is restored, the bridge ends once |
| Dockerfile forks, `forkDockerfile`, `applySteps`, `deleteAfterFailedBuild` | half-built machine, steps left | fork, run, copy, delete | failing step, failing delete, a context that changes | built as written; no half-built machine is returned or silently kept |
| Dockerfile and `.dockerignore` parsing | none | parse, match | pattern order, negation, links | an ignored file never leaves; a named one is copied |
| pools, `addPoolCommitment` | none (server's pool) | read, append, replace | two editors, late replacements | an acknowledged commitment is lost only to an editor that raced it |
| CLI, `cli.ts` | configuration file, standard input | parse, guard, send, report | flags mixed with a remote command, edits of one file by two processes, slow pipes | the command arrives verbatim, requests fit the contract, exit codes are true |
| compatibility shims | one machine handle | rename, reshape | none of their own | not modelled |
| plain resource calls, generated types | none | one request each | fields that exclude each other | requests fit the contract, checked through the CLI |

Components interact by calls only: every resource operation calls the request
loop; `run` calls it and then polls `getRun` through it; `syncDir` calls it for
the manifest, the upload and the extraction; the Dockerfile build calls `fork`,
`run`, `sync` and `delete`; the loop calls the transport (`sendRequest`), which
is shared by every concurrent call of the process. The CLI calls all of them, one
per process, and its processes meet in the configuration file and in the pools
they edit. The PTY is the one component with a socket and callbacks of its own.

## Modules

| module | models |
|---|---|
| `ApiServer` | the origin, its ledger and the network (external) |
| `RequestRetry` | `requestJson` / `_request_json` over `ApiServer` |
| `AtMostOnce` | what the loop promises, without retries, keys or time (abstract) |
| `GoRequest` | `Client.do` over `ApiServer` |
| `RunServer` | one run on the server, its output and its time limit (external) |
| `RunAwait` | `VM.run`, `_awaitRun`, `runOutputDelta` and their Python and Go counterparts over `RunServer` |
| `Http2Transport` | `sendRequest`, `Http2Connection` and the connection cache |
| `SyncDir` | `VM.syncDir`, the stat cache and the caller's cache |
| `ShellPty` | `cmdShell`, `connectPty`, `bridgePty`, the terminal and the machine's end |
| `BuildContext` | `parseDockerfile`, `.dockerignore`, how a COPY resolves its sources (pure) |
| `DockerBuild` | `fork` of a Dockerfile, `applySteps`, `applyCopy`, `deleteAfterFailedBuild` over `BuildContext` |
| `ApiContract` | the fields and statuses of the published operations (`generated/api-types.ts`) |
| `Tables` | the object literals `cli.ts` keeps its tables in |
| `CliArguments` | the parser of `cli.ts`: options, limits, `run`'s remote command (pure) |
| `CliCommands` | the handlers' guards and the fields of each request, against `ApiContract` (pure) |
| `Cli` | processes of `arker`: configuration, standard input, requests, exit codes |
| `MCRequestRetry`, `MCGoRequest`, `MCRunAwait`, `MCHttp2Transport`, `MCSyncDir`, `MCShellPty`, `MCDockerBuild`, `MCCli` | the instances for TLC |
| `RequestRetryProofs`, `GoRequestProofs`, `RunAwaitProofs`, `Http2TransportProofs`, `SyncDirProofs`, `ShellPtyProofs`, `DockerBuildProofs`, `CliProofs` | theorems and proofs, one module for each component with steps |

`Cli` extends `CliCommands`, which extends `CliArguments` and `ApiContract`,
both over `Tables`;
`DockerBuild` extends `BuildContext`; the loops extend `ApiServer` and `RunAwait`
extends `RunServer`. A call of another component is one step of its caller: a
request of the CLI, of a sync or of a build succeeds, fails, or is lost and
performed late, which is what `RequestRetry` shows the loop to offer.

### ApiServer

A call (`Calls`) is one invocation of the client's request function: a read or
a write, with or without an `Idempotency-Key`, with a queueing window and an
attempt budget (`RequestType`). `wire[c]` is the request the client waits for,
`orphans[c]` the requests nobody waits for any more and that the origin may
still perform, `inbox[c]` the answer not yet handled. `effects[c]` counts the
resources c's requests created and `ledger[k]` is what key `k` is bound to.

The origin is not in the repository. It is assumed to do what `openapi.json`
and the clients' comments say: a key is bound to the first request that takes
effect under it, the identical request is answered with the same resource and a
different one with 409 `idempotency_conflict` (`go/vms.go:93`);
`recovery.work = "not_started"` is truthful about the request it answers; a
gateway's 502 or 504 proves nothing. A request's body is reduced to the one
field a replay can change, `queueing_timeout` (`secs`).

### RequestRetry

`pc`, `attempt`, `left`, `sleep` and `outcome` are the loop's position, its
counter, the time to `queueingDeadline`, the time to the end of the back-off,
and what the caller was told. `Start` and `Resend` are the first and the later
passes through the loop's head, `OnPayload`, `OnError` and `OnNetworkFailure`
the three ways `sendRequest` can end, `Tick` the passing of time. Time is
counted in ticks relative to now, so that the state space is finite; a timer may
fire up to `Lateness` ticks late. `isRetryable`, `canRetryAgain`, `retryDelay`,
`RemainingSecs` and `forkIdempotencyKey` are the functions of those names (or
the expression, for `RemainingSecs`). The Python loop makes the same decisions
in the same order and is covered by the same module.

`AttemptCap` saturates the attempt counter (a windowed call may replay without
bound), `left` stops one tick below the latest moment a back-off can end
(nothing compares it with anything smaller), and `LongestSleep` bounds the
back-offs: it must not be smaller than any back-off the other constants allow,
and is not in the configurations.

### AtMostOnce

An operation (one unkeyed call, or all calls of one key) happens at most once;
"ok" returns what it made; "refused" is final. `RequestRetry` and `GoRequest` map
to it by `OperationOf` and, each its own, `Made` and `AnswerOf`: reads are left
out, everything about retries is hidden. `GoRequest` maps only the writes that
are `Promised` something: those that carry a key and those that are sent once
only. Any other write of the Go client may happen twice (`go_fork_twice`).

### GoRequest

`Client.do` replays whatever looks transient: neither the key nor
`recovery.work` is looked at, there is no queueing window on the client's side,
the guard of the last attempt precedes the sleep, and the caller's context can
end during a request or a back-off (`Cancel`, `StopBackOff`). A response whose
body cannot be read is returned as a plain error (`OnDrainFailure`).

### RunServer

A run is `none` until it is accepted, then `pending` or `running` until it ends.
It may go back to `pending` when its machine is suspended (`Suspend`); its time
limit counts only while it runs (`killLeft`, `RunTick`), and the kill is prompt
(`KillDue` stops the clock). `produced` is everything the command wrote,
`Retained` what the service keeps of it (a marker and the last bytes), `Shown`
what a status answer may show: exactly what is retained for a completed run,
possibly less for any other (`typescript/tests/unit.ts:2299`, `2318`, `2337`).
Of the two streams one is modelled: the code handles `stderr` as it handles
`stdout`.

### RunAwait

`opts` says which client calls, its time limit and how it asks not to wait.
`Request`, `AcceptRun`, `AnswerFinished`, `AnswerBackground` and `RequestFails` are
the first request, whose retries are `RequestRetry`'s and `GoRequest`'s subject.
`OnFinished` is `parseRunResponse` and `OnBackground` the entry into `_awaitRun`.
`Poll`, `AnswerPoll`, `OnRecord` and `OnPollFailure` are one pass through its loop.
An answer is read from the run when it is sent and handled up to `MaxFlight`
ticks later, so that the run may have moved on in between. `left` is the time to
`deadline`, `delay` and `timer` the back-off (1.5 times, capped), `cursor` and
`delivered` the output cursor and all that `onOutput` received.

The clients differ, and the module says where: Python and Go sleep before the
first poll (`FirstDelay`); only Go looks at the deadline after a failed poll
(`OnPollFailure`) and can be cancelled (`CancelContext`, `StopSleep`); only
TypeScript has `onOutput` and refuses a null `exit_code` (`AcceptsNullExit`); Go
returns a polled `exit_code` as it is (`ExitOf`).

### Http2Transport

`phase`, `refd` and `streams` are an `Http2Connection`: its socket's life, whether it
keeps the process alive, and its stream count. `origin` is the cache's entry for
the one origin modelled. `pc`, `conn`, `status` and `result` are a request in
`sendRequest`: the connection it waits for or runs on, the status that arrived, and
what was returned. `SendHttp1`, `SendShared` and `Connect` are the three ways in;
every `await` is a point where other requests move, so a request that resumes
may find the entry changed. `Negotiated`, `NegotiationFails` and `GoAway` are the
network's. A stream is taken to end with `end` or `error`, as Node promises;
an error may come after the status. Other origins share nothing with this one.

### SyncDir

A sync is `Begin` (the manifest, possibly truncated), `Walk` (signatures),
`HashFromCache` / `HashContent` per file, `Diff`, `SendChunk`, `Extract`, and the
three steps of `saveStatCache` (`SaveOpen`, `SaveWrite`, `SaveRename`), which share a
temporary file with the other syncs of the process. `work[s]` holds the sync's
variables, and `given` the syncs that were called with `options.cache`. Nothing
bounds the time between two steps, an upload's least of all. The local tree is edited at any time (`Edit`, `Remove`); a file has a
hash, a mode and time stamps with the file system's resolution, and an edit may
keep or restore the mtime. An upload may fail after any chunk, and an extraction
may happen after its sync gave up (`late`, `LateExtract`). `loadStatCache`,
`statSignaturesMatch` and `mtimesMatch` are the functions and expressions that
decide what is trusted. Two things are history: the `seen` of an entry, when its
signature was read, and `quiet[s]`, the files nobody else touched since sync s
began and whose hash it did not take from an entry that is not `Settled`.

An entry is settled if its file had rested for a whole time stamp when it was
read: any later change then shows. Of the other entries only the margin
protects, and only if the cache was written in time (`InTime`).
`TrustedEntriesAreCurrent` says what holds of both kinds, `QuietSyncMirrors` what a
sync that worked with settled entries delivers. What the documentation promises
beyond that does not hold (finding 4, and the caller's cache under *Seen while
modelling*).

Not in it: `ino` and `dev` of a signature, the sampling for compression, the
counters of the result, a read of a file that is being written (the hash is of
one version), and the Python and Go syncs.

### ShellPty

One process: `Resolve` and `Connect` find or fork the machine and the session
(`cmdShell`) and open the socket with a size that is not clamped; `Opens`,
`SocketFails`, `CloseFrame` and `SocketCloses` are the socket's events. What hangs on
`pty.ready` is a step of its own that may come too late (`ReadyTooLate`, `Attach`,
`AttachFails`, `Caught`), and so is the return of `cmdShell` (`Returns`). `InputEnds`,
`Terminate` and `Crash` are the terminal's and the signals', `Killed` a signal that
nobody listens to (SIGKILL, and SIGQUIT while attached, are left out: no code
runs). `width`, `winch` and `told` follow the size: what the terminal is, whether a
change has not been handled, and what the machine was told; what is sent on a
socket that closes is dropped. `exit` is the exit code or the signal the process
died of, `reports` counts errors shown to the user, and `first` is history: what the
first event that ends the bridge calls for.

Not in it: what the user types (bytes pass through), the browser's ticket, the
PTYs of the Python and Go clients. Go's `OnClose` listeners run inside `sync.Once`
(`go/pty.go:271`): a caller's own listener that closes the PTY again waits for
itself, and nothing in the repository registers one.

### BuildContext and DockerBuild

A path is a sequence of segments; an instruction is a record of its word,
arguments and flags; a context is its files, directories, links and ignore rules.
`Steps`, `Ignores` and `Matched` are what `parseDockerfile`, `loadDockerignore` and
`resolveSources` compute. `DockerBuild` applies the steps: each
command and each file is a request, which may fail, or leave its machine
unreachable; a file may vanish before it is read (`Vanish`); whatever is
thrown leads to `deleteAfterFailedBuild` with its attempts. `log` and `files` are
what reached the machine. `{deleted: false}` is an answer the code does not
read: `kept` records it and the property exempts it. `BuiltAsWritten` is about files
that begin with their FROM (`BeginsWithFrom`); what happens to instructions before
it is under *Seen while modelling*.

Not in it: the grammar (`dockerfile-ast`'s), quoting of values, `?` and a `*`
inside a name, the Python copy. Destinations are absolute. A fork whose answer is
lost leaves a machine nobody here can name, and so does a process killed
during a build: the code has nothing that would find it again.

### ApiContract, CliArguments, CliCommands and Cli

An argument is a token (a word, an option with or without a value, or the two
dashes). `parseInvocation` is the parser's loop, with the tables of options, of
subcommands and of argument counts; parsing is pure, so it happens in the
initial state. `CliCommands` gives the operation of an invocation, the guards of
its handler (`usage`) and the fields it sends (`fields`); `fitsContract` compares
these with `ApiContract`: the accepted and required fields, the variants of a fork
and a pool, and the rules its descriptions add (`immutableAlone`, `sizeWhole`,
`controlRun`). Two updates break two of these (`misfits`);
`OnlyUpdatesMisfit` says that nothing else does. In `Cli` a process reads the configuration (`Client`),
edits it (`cmdConfig`, then `OpenConfig`, `FillConfig`, `RenameConfig`), reads its
standard input chunk by chunk with the first-byte deadline (`Chunk`, `Drained`,
`Deadline`), sends its request and exits. `ReadPool` and `PatchPool` are
`addPoolCommitment`; a replacement whose answer was lost may be performed late.
`Kill` ends a process anywhere. What `run`, `sync-dir`, `shell` and `fork --dockerfile`
do after their guards is `RunAwait`'s, `SyncDir`'s, `ShellPty`'s and `DockerBuild`'s.

Not in it: help texts, what is printed, the redaction of secrets.

## Runs

| run | instance | shows |
|---|---|---|
| `retry` | one call of each of 7 kinds, up to 3 attempts, half-second ticks, hints 0 and 1 s, timers up to 3 ticks late; a keyed write of 2 attempts with another call: the same write, one with a 2 s window, one with a window sent once, a default fork; no late timers | `AtMostOneEffect`, `RefusalIsFinal`, `SafeToReplay`, `ConflictIsForeign`, `AttemptsAreKept`, `WindowIsKept`, refinement of `AtMostOnce` (which says that the calls of a key are told of the one resource it made), and `EveryCallSettles` under fairness |
| `go_pair` | two Go calls from {read, keyed write, write that is not retried} | `SafeForksHappenOnce` (a keyed write, and one that is sent once only, makes one machine, and all calls of a key are told of it), refinement of `AtMostOnce` by these writes, and `EveryCallSettles` under fairness |
| `go_fork_twice` | a Go fork with the default options | violated: see findings |
| `await` | each client with no limit and a limit of 2 ticks, and calls that ask not to wait; up to 2 bytes of which 1 is retained | `ResultIsTheRuns`, `KillIsReported`, `StreamMatchesResult`, `EveryByteOnce`; `BoundedWaitEnds` and `EndedRunIsReported` under fairness |
| `await_null_exit` | a TypeScript call without a limit | violated: see findings |
| `http2` | three requests of HTTP/2 clients to one origin, three connections | `SentOnce`, `IdleLetsTheProcessExit`, `LiveConnectionIsCurrent`, `ArrivedStatusIsReported`; `EveryRequestSettles` under fairness |
| `sync_dir` | two syncs of one process, each with the cache file or the caller's, three times in all, one file of two contents | `QuietSyncMirrors`, `TrustedEntriesAreCurrent` |
| `sync_slow_upload` | the same | violated: see findings |
| `shell_pty` | one shell, terminals of width 0, 1, 2 and 4 where 3 is the largest allowed | `TerminalIsRestored`, `FirstEndDecides`, `SizeIsFollowed`; `BridgeEnds` under fairness |
| `cli` | some 27,000 command lines, one process each or two that interfere | `RemoteCommandIsVerbatim`, `OnlyUpdatesMisfit`, `ConfigSurvives`, `AcknowledgedEditsAreKept`, `PipedWriteIsWhole`, `ExitTellsTheTruth`; `CommandEnds` under fairness |
| `build` | Dockerfiles of a FROM and up to three instructions over five contexts | `BuiltAsWritten`, `IgnoredStaysHome`, `NamedIsCopied`, `FailedBuildIsDeleted`; `BuildEnds` under fairness |
| `build_allowlist` | the same | violated: see findings |

The type invariants and the inductive invariants (`SafetyInv`, `BudgetInv`, `AwaitInv`,
`TransportInv`, `SyncInv`, `ShellInv`, `DeletionInv`, `StepsInv`, `HomeInv`, `BuiltInv`, `CliInv`,
`CallsAreGuarded`) are not in the configurations: all are proved, for any values of the
constants. TLC checks them on the same instances when they are added to the `INVARIANTS` of a
configuration, which is how each was found before it was proved.

**Requests.** Two calls and one key are enough for every interaction the properties
speak of: calls interact only through the ledger entry of a shared key, and each
property relates at most two calls. Two attempts give a call a replay and an
orphan of the first attempt that outlives it; three, in the one-call run, a
replay that is neither the first nor the last. The window of 2 s with half-second
ticks lets a back-off end well inside, at the edge of and after the window. Of two
writes (`Pairs`) one at most has a window, and both sleep a second on timers that are
in time, get no hints and do nothing in the middle of a second (`Punctual`): what a window and its timers do is one call's affair.
That is a bound of the run only; the theorems have none.

**Waiting.** The margin is 3 ticks and `MaxFlight` 2, the largest for which
`KillIsReported` is promised; two failures in a row end a wait, so that one
failure can be borne, forgotten after an answer and repeated; back-offs are 1, 2
and 3 (capped) ticks, so that the deadline falls inside a sleep, at its end and
inside a poll. Two bytes against one retained let a stream be truncated never,
between two polls, or before the first.

**Transport.** Three requests let two wait for a negotiation that fails while the
third has opened another connection (the race at `index.ts:2669`), and let a count
go up while it goes down elsewhere; three connections are as many as three
requests can open, since each opens at most one. A client that does not enable
HTTP/2 (`Http1Clients`) takes the path of a request that finds the origin marked
HTTP/1, which the run covers, and touches nothing the others share.

**Sync.** `Granularity` and `Margin` are one tick each. `MaxTime` 2 lets a save come
in time and too late for the margin, and an edit fall inside or after the time
stamp of a hash; the time an upload takes has no bound of its own. `MaxEdits` 1
and `MaxSyncs` 3 allow a sync that fills the cache, an edit before, during or after
it, and one that trusts it, with a third beside them; one chunk and two attempts
let an upload fail and be repeated; each sync leaves at most one late archive.
Either of two syncs may use the cache file, so that two saves share the temporary
file in every order. Files do not interact in the code except through the lists
they are in, and two contents suffice to be wrong. The runs use symmetry over the
contents and over the syncs, which nothing compares but for equality; no liveness
is checked with it.

**Shell.** Four widths put a size below, at, inside and above the clamp. There is no
other bound.

**Command lines.** `run` with up to four tokens in every order, every command with
each number of arguments and each option, pairs of options where a handler has
a guard on two, up to three for `fork`, any set of pool resources, pairs of
processes that edit the same file or pool, and the four kinds of standard input.
No guard of a handler looks at more options than these lines combine. Two chunks
let a producer stop before, between and after them.

**Builds.** Three instructions let a SHELL or USER precede what it changes and
something follow it. The contexts have a file at the root, one that begins with a
dot, one that is executable, a directory of two, a link into the context and one
out of it; the rules are none, plain ones, `**`, a negation in a directory,
and the whitelist. One file may vanish; three attempts to delete are the code's.

Fairness. In the loops (`FairSpec`): the event loop runs a handler that is due and
a timer that has fired; every request ends, if only by the 300 s transport timeout
(`HTTP2_REQUEST_TIMEOUT_MS`, `REQUEST_TIMEOUT_S`, Go's HTTP client timeout); time
does not stop, even if answers always arrive first (strong fairness of `Tick`:
a network round trip takes time). The origin is never assumed to answer. In
`RunAwait` a kill that is due happens; a run without a limit need not end. In
`Http2Transport` promises resume, and negotiations and streams end, if only by their
timeout. In `ShellPty` promises are continued, and a socket that is closing closes
or times out (`ws` bounds that); that it ever opens is not assumed, since the code
gives it no `handshakeTimeout` (`index.ts:1868`): an upgrade that is never answered
leaves `arker shell` waiting until a signal ends it. In `Cli` a process takes its own
steps, and a request that has a limit is answered or fails; nothing is assumed of
a `shell`, a `sync-dir`, the commands of a Dockerfile and a `run` without `--timeout`,
which is polled without bound (`waitsWithoutLimit`), nor that producers, signals and
late replacements come. In `DockerBuild` requests end and so do the
commands of the Dockerfile: a RUN that never ends makes the build wait, the client
sets no deadline of its own.

`CHECK_DEADLOCK FALSE` everywhere but in `retry`: without a
clock, a system whose calls are all settled has nothing left to do, and a process
that has exited stays that way.

## Findings

1. **A default Go fork can make two machines** (`go_fork_twice`). `go/arker.go:51`
   and `go/README.md:54` say every fork is keyed; by default it is not
   (`go/vms.go:249`), and `Client.do` replays a 502 anyway.
2. **A run without an exit code makes `run` throw** (`await_null_exit`, TypeScript).
   `parseRunResponse` (`index.ts:2127`) demands a number where `openapi.json:5915`
   says null is expected for a prompt or a cancellation inside the sync window.
3. **A negated rule does not readmit what a COPY names through its directory**
   (`build_allowlist`). `dockerignore.ts:6` says the last matching pattern wins, and
   `python/tests/unit/test_dockerignore.py:61` calls "`*` then `!keep.txt`" the
   canonical allowlist shape; `applyCopy` drops an ignored directory, the
   context itself included, before it looks below it. The build succeeds and
   copies nothing.

4. **A slow upload defeats the margin of the stat cache** (`sync_slow_upload`).
   `loadStatCache` drops entries whose mtime is within 2 s of when the cache was
   *written* (`index.ts:122`), and it is written after the upload (`1426-1429`): an edit
   inside the time stamp of the hash is then trusted by every later sync, against
   `index.ts:1372` ("the contents cannot have changed under us") and `63` ("Neither can
   produce a missed upload").

Seen while modelling, and described here without a run of their own:

* A keyed call with a queueing window can conflict with itself. Each replay
  re-sends the remaining window (`typescript/src/index.ts:2245-2253`,
  `computer.py:1709-1712`), so it is not the request the key was bound to
  (`go/vms.go:93`); `index.ts:297` says the key "is what makes the SDK's OWN retry
  safe". If the first attempt took effect behind a 502, the caller gets 409 instead
  of the machine. (`ConflictIsForeign` exempts exactly this.)
* A default fork is not replayed after a 502: `index.ts:285` and `computer.py:382` say
  a key is generated per call; `forkIdempotencyKey` sends none unless asked.
* A Go write whose response body is lost is returned as a plain error
  (`client.go:178`), not as the `UnknownOutcomeError` of `go/errors.go:40`.
* A queued run outlives its waiter: the deadline of `_awaitRun` counts from the
  acknowledgement, the run's limit while it runs; `index.ts:1189` says "the poll
  outlives the server-side kill". It does for a run that never waits
  (`KillIsReported`).
* `run(command, {background: true})` waits: `openapi.json:5804` calls it an alias of
  `time_to_background: 0`; `run` looks only at the latter (`index.ts:1117`).
* Python turns the null exit code of a *polled* run into 0 (`computer.py:2208`,
  against `809`); a stream that was truncated before the client first saw it is not
  named in `replaced` (`index.ts:2190`, against `391`).
* `options.cache` is trusted with no margin and no ctime (`index.ts:1383`), against
  `index.ts:1277` ("it can never cause a stale or missing upload"): TLC finds an edit
  that keeps the mtime and is not uploaded as soon as `Mistaken` is taken out of
  `QuietSyncMirrors`.
* `update --immutable` is sent with the other fields that are given (`cli.ts:1490`),
  against `api-types.ts:1746` ("it must be the only field in its request") and the
  command's own help; `sessions update --cols` is sent without rows (`cli.ts:1267`),
  against `api-types.ts:1151` and `1156`, and a test of the CLI pins it. Both are
  among the command lines of the run `cli`, and `OnlyUpdatesMisfit` names them.
* Dockerfile instructions before the FROM are executed (`build.ts:156`), against
  `build.ts:148` ("every step after `FROM`").
* `--provider` and `ARKER_PROVIDER` do not change where a request goes while a
  `baseUrl` is saved, against `cli/README.md:48` ("Flags override environment
  variables, which override saved values").
* `COPY --chown` chowns the whole destination (`build.ts:294`); a link is copied
  under its target's name; a relative destination is not resolved against WORKDIR.
* CLI: `runs ls <vm>` refuses `--provider` and `--region` (`cli.ts:361`), though its request
  needs a placement (`cli.ts:696`); `api-keys rm --json` prints text, against
  `cli/README.md:93`; `signal --json` exits 0 whatever the exit code of the
  acknowledgement; `shell --session-id --cwd` ignores the directory; `shell --cols 0`, or
  a terminal that reports no width, is asked for as it is, and only a resize is
  clamped (`index.ts:1851`, `1919`); `policies set` on a silent open pipe
  waits for ever.

## Proofs

Each module with steps has a type invariant, an inductive invariant and theorems
that follow from it; the theorems hold for every value of the constants that the
named assumptions allow, and those say little more than what a constant is. A
proof has one lemma or case per kind of step and in it one step per conjunct
that the step can disturb.

`RequestRetryProofs`, for any sets of calls, keys and requests, any budgets, delays,
hints and lateness, from `ServerAssumption` and `RetryAssumption` (types; reads carry
neither key nor window; `AttemptCap` is at least every attempt budget).

* `TypeCorrect`: `TypeOK`.
* `Inductive`: `TypeOK /\ SafetyInv`. `AtMostOneEffect` is not inductive: that a
  replay is harmless depends on what may still be under way. `SafetyInv` says it:
  a call waits for one answer at a time (`WaitsInv`); every request of a call
  carries its key (`KeysInv`); the ledger knows the one call that made a key's
  resource (`LedgerInv`); an unkeyed write has one chance, the request on the
  wire, or one orphan, or the effect itself, and none after `not_started`
  (`OneChanceInv`); payloads name what the operation made (`AnswerInv`); a call
  without a window sends one body (`BodyInv`).
* `OneEffect`, `FinalRefusal`, `SafeReplay`, `SharedSuccess`, `ForeignConflict`:
  the safety properties of `retry`, and `SuccessIsShared`, each from
  `SafetyInv`.
* `BudgetCorrect`, `AttemptsKept`, `WindowKept`: the budgets, from `BudgetInv`: a
  back-off was to end inside the window and ends at most `Lateness` after it was
  due. `WindowKept` is an action property and rests on the rounding of
  `RemainingSecs` (`RoundedUp`).
* `Refinement`: `Spec => ImplementsAtMostOnce`. Performing a request that makes
  something is the abstract operation happening, settling is the abstract
  answer, every other step stutters.

`GoRequestProofs`, for the same constants, from `ServerAssumption` and the module's
types. `Inductive`: `TypeOK /\ SafetyInv`. The Go client replays whatever looks
transient, so that nothing is known of an unkeyed write that may be sent twice
(`OneForkOneMachine` fails, see findings). What holds rests on the ledger
(`KeysInv`, `LedgerInv`, `AnswerInv`: a keyed call is only ever told of what its key
is bound to) and, for a write that is sent once, on `OneChanceInv`, which in turn
needs `BackOffInv`: only a call that may send again sleeps. `ForksConverge` and
`SafeOnce` (`SafeForksHappenOnce`) follow. `Refinement` (`Spec =>
ImplementsAtMostOnce`) needs one thing more of what the callers are told,
`ToldInv` (`ToldCorrect`): nothing before the end, and a write that is sent once
only the resource it made. It then goes as for `RequestRetry`: the first effect of
a promised write is the operation happening, settling is the answer, the rest,
cancellation and the effects of other calls among it, stutters.

`RunAwaitProofs`, for any options, alphabet, retention, delays, failure budget, margin
and flight time, from `ServerAssumption` and `AwaitAssumption`:

* `TypeCorrect`: `TypeOK`.
* `Inductive`: `TypeOK /\ AwaitInv`. None of the four properties is inductive alone.
  What a result says was read earlier, so `AnswerInv` keeps an answer that names
  an ended run true while it travels, and `RunInv` ties states to exit codes. For
  the margin, `DeadlineInv` compares two clocks: for a run that never waited, the
  time to the deadline is at least the running time left plus the margin, and an
  answer that says "running" is old enough to account for what has passed since.
  `LateInv` counts the failed polls after the deadline. The stream part needs
  nothing but the phases: the lemmas about `runOutputDelta` say that it extends or
  freezes the cursor and delivers exactly what it added.
* `StreamCorrect`, `ResultCorrect`, `KillReported`, `OvershootBounded`: the safety
  properties, each from `AwaitInv`.
* `OnceCorrect` (`EveryByteOnce`), with `RetainedInv`: as long as nothing is dropped,
  every answer under way and everything delivered is a beginning of what the
  command wrote, so that a longer answer extends a shorter one.

`Http2TransportProofs`, for any numbers of requests and connections, from
`RequestsAssumption` (finitely many requests) and `MaxConnsAssumption`. `Inductive`:
`TypeOK /\ TransportInv`. The properties are inductive only together with where a
request is: what it has sent and heard at each point (`RequestInv`), and that the
connection it waits for, runs on or fell back from is in a phase that fits
(`ConnectionInv`). `NeverSentTwice`, `ReferencesAreCounted` (the stream count is the
cardinality of the set of requests with a stream, from the library's facts on
finite sets), `LiveIsCurrent` and `StatusReported` follow.

`SyncDirProofs`, for any files, contents, numbers of syncs, chunks and attempts, any
margin and resolution, any interleaving of saves, late archives and crashes between
the steps of a save, and uploads of any length, from `SyncAssumption` (types; a
resolution of at least one tick).

* `Inductive`: `TypeOK /\ SyncInv`. What a cache entry says was true of the file once,
  so `Sound` compares the stamps: no file that looks like a settled entry has other
  content. What is stored is sound (`SoundFile`), and so is what a sync may still
  save (`Saves`) and what it trusts (`Trusts`). Of an entry that was written in time and
  whose mtime was not set back `TrustedCurrent` then shows that it is settled, or young
  enough to be dropped when it is loaded.
* `TrustedCurrent` (`TrustedEntriesAreCurrent`) and `QuietMirrors`
  (`QuietSyncMirrors`); the latter also needs what a sync knows at each point of a
  file nobody else touched (`Knows`). A caller's cache is shared by the syncs it is
  given to, so an entry that one of them writes touches the file for the others
  (`TellOthers`): TLC found the property false for two such syncs without that.

`ShellPtyProofs`, for any sizes and any clamp, from `ShellAssumption`. `Inductive`:
`TypeOK /\ ShellInv`; `BridgeInv` adds that only a bridge that is not settled listens,
that `ready` is pending exactly until the socket opened or failed, that a running
process has not told how it ends, that the code is what the first end calls for, and
that only a terminal's bridge changes its mode. `TerminalRestored`, `FirstDecides` and
`SizeFollowed` follow; the last does not rest on the size the socket was opened with.

`DockerBuildProofs`, for any Dockerfiles, contexts, ignore rules, links, downloads and
attempts, from `BuildAssumption`, `CallAssumption` (a Dockerfile is a sequence of
instructions with sequences of arguments) and `ContextAssumption` (a context is
finite, a file is not a directory and has nothing below it, and files are told
from what is downloaded).

* `FailedIsDeleted` (`FailedBuildIsDeleted`), from `DeletionInv`: while steps are applied
  the machine is known and up, and an attempt is left before each deletion.
* `HomeKept` (`IgnoredStaysHome`), from `StepsInv /\ HomeInv`: what is left of a
  Dockerfile are its last steps, and nothing that is listed or was sent is ignored.
  It rests on three facts about recursive functions, by induction from the least
  counterexample (`Least`, `Induct`): the loop of `ignores` says what the last rule that
  matches says (`IgnoresIsLastHit`), flattening keeps the elements
  (`FlattenType`), and the loop of `parseDockerfile` yields steps (`StepsProgram`); and on
  `Reanchored`: what `syncDir` is asked about a file below a copied directory is the
  file's path in the context.
* `BuiltCorrect` (`BuiltAsWritten`), from `StepsInv /\ BuiltInv`: the commands that have run,
  and the user of the next one, are what the steps that are gone stand for
  (`StepBuilt`). (It exempts files that do not begin with their FROM, as the property
  does.) That all the steps together stand for what the Dockerfile says is a
  fact about the parser's loop (`StepsStandFor`): after each instruction its shell is
  the last SHELL so far, the user after its steps is the last USER, and their
  commands are those of the instructions read (`CommandsConcat`, `SaidIsWanted`).
* `NamedCopied` (`NamedIsCopied`), from `StepsInv /\ HomeInv /\ CopiedInv`: the COPYs that are
  done have arrived, of the one under way each source is still listed or has
  arrived, and nothing is ever taken from the machine (`FilesStay`). The list a COPY
  starts with has each source it is to transfer, and is longer than one exactly if
  there are several (`ResolvedLists`, over `FlattenKeeps` and `SetToSeqOnce`: flattening keeps
  each element once, and so does the sequence of a set); a directory and a file
  each send all they stand for (`DirectoryArrives`, `FileArrives`); and each COPY of the
  file is one of the steps (`CopyHasStep`). Stating it settled what "several" means: the
  code counts the names a COPY lists, so two links to one file are two, and an
  earlier form of the property, which counted the files, was false of such a
  context.

`CliProofs`, for any processes, command lines, pools and amounts of standard input.
`Inductive`: `TypeOK /\ CliInv`: a process that runs has reported and stored nothing
(`Unreported`), whoever edits the configuration has read values its keys may hold
(`Admissible`) and renames what it made of them (`Edits`), nobody sends what was not read to
the end (`Reads`), nobody reads the pool after it patched it (`Commits`). `ConfigKeeps`,
`EditsKept`, `PipedWhole` and `ExitIsTrue` follow; none of the four depends on what the command
lines mean. `RemoteVerbatim` (`RemoteCommandIsVerbatim`) is about that: by induction over
the arguments read so far, a remote command that has begun is what was read last, and
the reader is in the mode that takes nothing for an option any more (`ReadInv`,
`ReadStep`); and no command other than `run` and `vms run` is a run (`OperationIsRun`).

`ContractFits` (`OnlyUpdatesMisfit`) goes through the tables of `cli.ts` and of the
contract, and needs nothing but them and the shape of a command line:

* Every flag that has been read is an option of the command that takes the value it
  was given, or one of the options of every command (`FlagsInv`, kept by each
  argument: `FlagsStep`); that is why a pool has one of three types and a limit of
  runs is at most 20000 (`TypeOfPool`, `LimitOfRuns`).
* An invocation that `validateInvocationOptions` lets pass has only flags of its
  subcommand (`Validated`); without those the handler keeps to itself, they are among
  those its operation is made of (`Sent`, one lemma for each command, `SentFlags`).
* Each of these becomes a field the operation accepts, by the common names or by the
  operation's exceptions (`PlainField`, `ExceptField`, `FlagsAccepted`), and so is what a handler
  always sends (`AlwaysAccepted`).
* The guards of the handlers leave a fork one source with what goes with it
  (`ForkFits`), and a new pool the required fields of its type and no other
  (`PoolFits`); `RequestFits` adds the limits, what is required and what a request that
  signals may not say, and leaves the two updates with known fields only.
* Who asked was called for a command whose guards let it through (`CallsAreGuarded`,
  inductive with `Called`): only `Dispatch` makes a client and only `Client` asks.

That every command asks for a published operation (`OperationIsPublished`) is part of
the property: of a name that is in no table the rest would say nothing.

Only model-checked:

* Liveness (`EveryCallSettles`, `BoundedWaitEnds`, `EndedRunIsReported`,
  `EveryRequestSettles`, `BridgeEnds`, `CommandEnds`, `BuildEnds`), which is beyond the prover.
* What the runs that expect a violation refute: see findings.

## Not modelled

* The compatibility shims (Modal, E2B, Daytona, ComputeSDK): they rename and reshape
  over the clients, keep no state beyond one handle, and promise what interfaces
  outside the repository promise.
* The Python and Go syncs, PTYs and Dockerfile builds: the TypeScript ones are modelled.
* The workers of self-hosted pools, and the records of the answers, in the generated types.
* Help, output formatting, examples, CI. Responses that are not JSON: `requestJson`
  returns them as they are when the status is a success. The `internal` errors
  whose message Go searches for "503" are taken as transient.

## Plan

The modules are written, and every safety property, every action property and both
refinements that the passing runs check are proved. What a change of the code asks for: a new option or operation is a new
entry of a table in `CliArguments`, `CliCommands` or `ApiContract`, and then of `Sent` and of the
lemma of its command; a new way for a client to retry is a new action, and the step
lemma that goes with it.
