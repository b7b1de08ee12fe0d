# burkut in TLA+

burkut is a command-line download manager written in Go. This directory holds
TLA+ models of it, the configurations with which TLC checks them, and theorems
about them that TLAPS proves. The code is the reference: every definition is
translated from the Go source, and `PROJECT.json` (`map`) says from which
lines.

## 1. The system

### Components

| Component | Source | State it keeps | Operations | What makes it correct |
|---|---|---|---|---|
| Chunk table | `internal/download/state.go` | byte range, counter and status per chunk | `InitializeChunks`, `UpdateChunk`, `GetPendingChunks` | chunks cover the file and do not overlap; completed means full |
| State file | same | `FILE.burkut-state`, its `.tmp` | `Save`, `LoadState`, `StateExists`, `DeleteState` | never half written; progress on disk does not go back; gone after success |
| Segmented downloader | `internal/engine/downloader.go` | state in memory, one goroutine per chunk, semaphore, state saver, progress reporter | `Download`, `Cancel` | never counts a byte that is not in the file; the completed file is the remote file; it ends |
| File writer | `internal/storage/writer.go` | the output file | open, preallocate, `WriteAt`, `Truncate` | exact length at the end; resuming keeps what is there |
| HTTP client | `internal/protocol/http.go` | connection pool | `Head`, `Get`, `GetRange` | accepts 206 only for a range |
| Mirror list | `internal/engine/mirror.go` | health, counters, latency per mirror | `Next`, `MarkFailed`, `MarkSuccess`, `MirrorDownloader.Download` | every mirror is tried before giving up |
| Rate limiter | `internal/engine/ratelimit.go` | tokens, last refill, limiter per host | `Acquire`, `SetLimit`, `GetLimiter` | what is granted in a time is bounded by rate × time + burst; a waiter ends |
| Retrier | `internal/engine/retry.go` | attempt, delay | `Do` | bounded attempts; stops at errors that cannot be retried, or when cancelled |
| Checksums | `internal/engine/checksum.go` | – | parse, compute, compare | – |
| Conditional download | `internal/engine/conditional.go` | – | `CheckTimestamp`, `SetFileModTime` | the newer file wins |
| Batch queue | `internal/download/queue.go`, `runBatchDownload` | items with status | load, `UpdateStatus`, `SetError` | every item ends completed or failed; statistics add up |
| Crawler | `internal/crawler/crawler.go`, `types.go` | `URLQueue`, work channel, workers, statistics | `Crawl`, `worker`, `processItem`, `Stop` | every URL found within depth is processed exactly once; it ends; it stops when cancelled |
| Robots rules | `internal/crawler/robots.go` | a cache per host | `IsAllowed`, `GetCrawlDelay` | the longest matching rule decides; a rule once known is obeyed |
| Filter, parser, converter | `internal/crawler/{filter,parser,converter}.go` | – | pure functions | – |
| Hooks | `internal/hooks/hooks.go` | list of hooks | `Execute`, `ExecuteAsync` | a hook for an event runs |
| Metalink | `internal/metalink/*.go` | – | choose URLs, verify pieces | the best URL first; each byte belongs to one piece |
| BitTorrent | `internal/torrent/torrent.go` | table of downloads | `AddMagnet`, `Download`, `Close` | an interrupt ends it |
| FTP, SFTP, HTTP/3 | `internal/protocol/{ftp,sftp,http3}.go` | a connection | metadata, download from an offset | as the HTTP client |
| Terminal UI | `internal/tui/*.go` | paused flag, resume channel, model | pause, resume, cancel | nothing is shown before it is so; the program ends, with the download's result |
| Commands | `cmd/burkut/main.go` | – | one flow per kind of download | exit status agrees with the outcome |
| Configuration, metrics, progress display, version | `internal/{config,metrics,ui,version}` | – | parsing, formatting | – |

### How they interact

A command builds an HTTP client, a rate limiter and a `Downloader`, and calls
`Download` for the URL and then for each mirror until one succeeds. `Download`
asks for the metadata, loads or creates the `State`, opens the output file and
starts goroutines: a progress reporter (callback into the UI), a state saver
(timer → `State.Save`), and one goroutine per pending chunk, of which at most
`Connections` run at a time. The goroutines share the `State` (behind a
read-write lock), the file (behind a mutex, written by offset) and the rate
limiter. `Download` waits for the chunk goroutines only; the other two learn of
the end from `doneChan` or the cancelled context, some time later. Between
processes everything is in two files: the output and the state.

A crawl has a feeder goroutine (`URLQueue.Next` → work channel), workers
(channel → request → `URLQueue.Add`) and the main goroutine, which waits for the
workers only. A batch downloads one item after another. The TUI has an event
loop, a goroutine that downloads, one that reports progress and one that waits
for the result; the latter two hand messages to the loop. After its download a
command verifies the checksum, dates the file, starts the hooks and ends with
an exit code.

### What is hard

* Processes are killed; the two files are then compared by nobody.
* The state saver and the save on error share a temporary file and are kept
  apart by nothing but a *read* lock.
* A chunk's counter lives in a local variable, in the state, in the state file;
  its bytes in a socket, a buffer, the file.
* What is loaded from disk may belong to another URL, another version of the
  remote file, or an output file that no longer exists.
* Servers announce a length or not, ranges or not.
* The crawler decides that it is finished by looking at a queue that workers
  are about to fill; a worker writes the status of an item without the queue's
  lock; the robots cache is checked and filled under different locks.
* Callers of the limiter wait side by side, without the lock, and nobody
  counts their wait. Downloads share a list of mirrors that any of them resets.
* A signal may come at any moment of a command, its verification or its hooks;
  hooks are goroutines that nobody waits for; four goroutines make up the TUI.

Each of these is an entry of `hazards` in `PROJECT.json`, at the line where it
bites, with the properties that cover it.

## 2. Modules

| Module | Content |
|---|---|
| `ChunkPlan` | the chunk table as pure operators |
| `Downloader` | the downloader, its state file and its output file, over any number of processes |
| `ResumableTransfer` | the abstract specification: what a resumable download promises |
| `DownloaderTransfer` | the refinement mapping from `Downloader` to it |
| `DownloaderInvariant` | `Honest`, the inductive invariants `ResumeInv` and `ProgressInv` |
| `CrawlFilter`, `Crawler` | which links are followed; queue, feeder, channel, workers, robots cache, exit code |
| `RateLimiter`, `RateWindow`, `PerHostLimits` | one bucket and its callers; the bucket watched through a window of time; the table of buckets by host |
| `MirrorList` | mirrors with their health, and the downloads that share them |
| `Conditional`, `UrlCommand` | `-N`; the command for a URL or a metalink, over one output path |
| `BatchCommand`, `FtpCommand`, `TorrentCommand`, `TuiCommand` | the other commands |
| `RobotsRules`, `LocalPaths`, `PageLinks`, `MetalinkFile`, `ChecksumText`, `Netrc`, `Retrier`, `FileNames` | functions without state |
| `InputCases` | those functions on bounded inputs, and what each promises |
| `MCDownloader`, `MCCrawler`, `MCParts`, `MCCommands` | instances for TLC |
| `DownloaderProofs`, `DownloaderRefinement`, `CrawlerProofs`, `PartsProofs`, `CommandProofs`, `InputProofs`, `CopyProofs`, `RobotsProofs` | theorems and their proofs |

### `Downloader`

*On disk*: `data`, `exists` (the output file), `stateFile`, `tmpFile`. *At the
server*: `remote`. *In the process*: `pc` (the main goroutine, inside
`Download`), `url`, `conns`, `state` (`d.state`), `worker` (the goroutine of
each chunk with its local variables), `cancelled` (`ctx.Done()`), `ticker` (the
state saver's select) and `save` (the calls of `State.Save` in progress).

| Actions | Code |
|---|---|
| `Start`, `Load`, `OpenWriter`/`OpenFails`, `Spawn`, `Await`, `SaveOnError`, `DeleteState`, `TruncateFile`, `CloseDone` | `Download` and `downloadChunks`, from the HEAD request to `return nil` |
| `BeginChunk`, `AlreadyComplete`, `Respond`, `RequestFails`, `Continue`, `ReadBytes`, `ReadEOF`, `ReadFails`, `LimiterFails`, `Write`, `WriteFails`, `Record`, `FinishChunk` | `downloadChunk`, one action between two accesses to shared state |
| `SaveOpen`, `SaveWrite`, `SaveWriteFails`, `SaveRename`, `SaveRenameFails`, `SaveRemove` | `State.Save`, one action per system call |
| `Park`, `Tick`, `StopTicker` | `stateSaver`: waiting in its select, a tick, a closed channel |
| `Exit`, `Crash`, `Cancel`, `Replace`, `DeleteOutput` | the environment |

Decisions worth knowing:

* A byte is a pair of content and position, so that a byte at a wrong place is
  not the right byte; the file is observed at the positions in `Offsets`, which
  go one beyond the longest file of an instance. The theorems hold for any set
  of positions.
* Locks. `State.Save` holds `mu.RLock` from before it marshals until it
  returns, and `UpdateChunk` takes `mu.Lock`: `Unlocked` says a chunk is
  updated only when no Save is in progress. Two Saves may overlap. The writer's
  mutex makes one `WriteAt` one step.
* `Save` follows open files across renames: `save[s].fd` says under which name
  the file that call has open is found now ("tmp", "state" after the other call
  renamed it, "gone" after it was replaced or removed).
* Go's select picks any ready case; a goroutine that already waits in it is
  woken by the first event. `ticker = "parked"` is a saver that waits, which
  a cancellation or the return of `Download` ends at once; one that is
  computing (`"select"`) may still take a tick then.
* `"short"` bodies: a server may end a body cleanly before the range does.
  Without that fault a body that ends early is an error, as `net/http` reports
  for a body shorter than its Content-Length.
* Left out: a failing `os.Remove` or `ftruncate` at the end of `Download`
  (their errors are dropped there), loss of power (nothing is synced, so the
  kernel's order of writing would have to be modelled), the progress reporter
  (writes only displayed numbers), a request or a lock that never returns.
* A server that announces ranges serves them; one that does not answers 200.

### `ResumableTransfer`

Three variables: the bytes that are in the output (`have`), those that the
next attempt need not fetch (`kept`), and whether an attempt runs or is
complete. `Prepare` may lose bytes that are not kept, `Receive` adds bytes,
`Keep` may vouch only for bytes that are there and forgets nothing, `Forget`
starts from scratch, `Complete` needs every byte. `DownloaderTransfer` maps
`have` to the positions that hold their remote byte, `kept` to what the state
file claims (a torn file claims nothing: `LoadState` fails and `Download`
starts fresh), and `status` to `pc`.

### `Crawler`

`items` is `URLQueue.items`, `workCh` and `closed` the channel, `feeder` and
`worker` the goroutines with what they hold, `robots` the cache, `cancelled` the
context, `stats` the counters, `main` the goroutine of `Crawl` with its exit
code. A step is what a goroutine does between two points where another can be
seen: the queue's lock, the channel, the cache's lock, the context, a request.

| Actions | Code |
|---|---|
| `Crawl`, `Return`, `Interrupt` | `Crawl` up to the goroutines; `wg.Wait` and what main makes of the result; a signal |
| `FeedNext`, `FeedIdle`, `FeedSend` | the feeder goroutine: `Next`, the wait and the look for pending items, the send |
| `Receive`, `CheckContext` | `worker` and the beginning of `processItem` |
| `CheckRobots`, `FetchRobots` | `RobotsChecker.IsAllowed`: the cache, and the request that fills it, under different locks |
| `Get`, `Save` | `download`: a request that may fail or be cut off, and the file; `--spider` fails at `MkdirAll("")` |
| `ExtractLink` | `extractLinks`, one link (filter, depth, `URLQueue.Add`) per step |

`normalizeURL` takes the fragment and the scheme's own port away and leaves the
host as it is spelled: two spellings of a host (`spelling` of a URL) are two
keys, as in the code. The site is a constant (`Page`, `Disallowed`, what
requests may return);
waits between requests only delay steps. `Distance` is the reference for
depths: the pages at the end of a walk of so many links, each let through by
the filter. Once the feeder blocks on a full
channel after an interrupt it stays there, as in the code.

### `RateLimiter`, `RateWindow`, `PerHostLimits`, `MirrorList`

Time is counted in ticks, `Ticks` of them a second. `Call`, `Take`, `Wake` and
`GiveUp` are the parts of `Acquire` between its locks, `SetLimit` and `Cancel`
come from outside, `Tick` is the clock. `RateWindow` adds a window that
`Watch` moves to any moment at which no caller waits, so that `GrantBound`
speaks of every such window; its limits go up to `MaxLimit`. `PerHostLimits` has `GetLimiter` and
`SetHostLimit` with the patterns of `matchHostPattern`, on a table that keeps a
limiter once it is made, also the nil one `NewRateLimiter` makes of no limit.
A limit set later reaches the limiter of that very name, if it is not nil, and
none of those below a domain.

In `MirrorList` several clients run `MirrorDownloader.Download` on one list:
`Begin`, `Attempt` (`Next` under the strategy, with the reset when no mirror is
healthy; a mirror that was tried is skipped), `Succeed`, `Fail` (`MarkSuccess`,
`MarkFailed`), `GiveUpMirrors`, `Cancelled`. The random strategy may pick any
healthy mirror; latencies are slow or fast.

### The commands

`UrlCommand`: `serves` is what each URL or mirror serves now, `disk` the output
file (`is`: absent, with bytes that never came, a mixture of versions, or one
version; its length, its date, and the URL it was dated from, if all its bytes
came from there), `left` the state file, `proc` the process, `hook` the hook
goroutines of each run of `runDownload`. Processes follow each other over one
output path, with any options.

A transfer takes time. `Begin` loads or drops the state and opens the file,
each `ReceiveBytes` brings bytes of the version the URL serves by then (`Publish`
may come between any two), and `Downloaded` is `Download` returning nil, also
after a body that ended cleanly too early. Of the bytes only the versions are
kept: those the resumed state counts (`kept`) and those that came now (`body`).
From them `Fetched` says what the file may be at the end: one version if all
that is counted is of it, a mixture, or what it was before, if no byte or not
every byte came. `Downloader` is about where the bytes go.

| Actions | Code |
|---|---|
| `Start`, `Prepare`, `ParseFails` | options, checksum and metalink, `runDownload` up to the first request |
| `HeadFails`, `FetchMetadata`, `Stamp`, `StampFails` | the metadata, and `-N` with `CheckTimestamp` |
| `Begin`, `BeginFails`, `ReceiveBytes`, `Downloaded`, `DownloadFails` | `Download` for the URL and then for each mirror: metadata, state and file; a read and its write; its two ends |
| `FetchChecksum`, `Verify`, `VerifyFails`, `Complete` | `--auto-verify`, the checksum, the file's date, the completion hooks |
| `ErrorHooks`, `Report`, `NextUrl`, `Exit` | the error hooks, the return code, the next URL of a metalink, `os.Exit` |
| `HookStarts`, `HookRefused` | the goroutine of `ExecuteAsync`: its command starts, or its context is over |
| `Interrupt`, `Kill`, `Publish` | a signal, a kill, a new version at the server |

`BatchCommand` is `LoadFromFile`, line by line, and the loop of
`runBatchDownload` with the status of each item and the two sets of counters. `FtpCommand` counts the bytes
of a transfer that the server may end early. `TorrentCommand` is one download
from `AddMagnet` to its exit code; the swarm is external. `TuiCommand` has the
event loop (`RunnerStart`, `PauseKey`, `QuitKey`, `LoopEnds`, `SignalEnds`, `Receive`), the
download (`FetchMore`, `FetchDone`, `FetchFails`), the reporter
(`UpdateProgress`), the finisher (`FinishError`, `FinishComplete`,
`FinishVerifying`, `FinishVerified`, `RunnerStop`) and main (`TuiPrepare`,
`TuiResult`). `Program.Send` blocks until the loop takes the message or is over,
so each sender has one message at most in `mail`. `PauseKey` sets a flag that
nobody reads. `SignalEnds` is the library's own handler of signals, which is
modelled as external: the loop ends, with an error or without one, while the
download goes on. `FetchDone` is `Download` returning nil, with all bytes or
after a body that ended early.

### The functions

Each is an operator on sequences of names or characters, abstract where only
equality matters. `InputCases` enumerates inputs: `subject` names the function,
`input` is one argument, and each property compares the result with a reference
definition of its own (a glob by backtracking, the groups of a robots.txt by
their agent lines, the longest rule that matches, the file a browser finds under a relative link, the logins
by machine, ...). The two glob matchers of the code are compared with each
other.

## 3. Runs

| Run | Instance | Checks | Shows |
|---|---|---|---|
| `Resume` | 3 bytes, chunks of 1 and 2 bytes, an older file of 4 bytes; cancel, crash | `ResumeInv`, `ProgressInv`, `ClaimsAreWritten`, `CompletedFileIsRemote`, `ChunksWriteApart`, `TransfersFile` | resuming is safe, and every process is an attempt of the abstract transfer |
| `Progress` | 2 bytes, 1 or 2 connections chosen anew by each process; cancel; fairness | `DownloadEnds`, `DownloadSucceeds`, `FailureSavesProgress` | no deadlock on slots, locks or Saves; success unless cancelled; a failure keeps what it had |
| `Hostile` | two URLs of 2 and 1 bytes on one path, old file of 3; all six faults | `TypeOK`, `SavedProgressGrows`, `CompletedFileHasLength` | what holds even then |
| `Crawl` | two workers, depth 2, two hosts, failing requests, an interrupt; fairness | `TypeOK`, `OneHolder`, `NoRequestTwice`, `WithinDepth`, `RobotsObeyed`, `ResultIsTrue`, `CrawlEnds` | nothing taken up is lost or taken twice; robots.txt is obeyed; statistics and exit code are true; it ends |
| `Parts` | bucket with two callers; table of limits; two mirrors and two downloads under each strategy; the functions | `TypesOK`, `LimiterBounds`, `LimitsInForce`, `ListIsTrue`, `RotationIsComplete`, `RobotsAsWritten`, `LocalCopyHolds`, `MetalinkAsWritten`, `SumsAsWritten`, `NetrcKeepsLogins`, `RetriesAsConfigured`, `NamesAsMade` | what the parts promise to those who use them |
| `Commands` | each command in turn: two processes with any options over two versions and a mirror; three batch lines; files of two bytes | `TypesOK`, `VerifiedMeansRight`, `UpToDateIsCurrent`, `OutcomeIsTold`, `BatchIsTrue`, `FtpLeavesFile`, `TorrentEndsTruly`, `TuiTellsTruth`, `TuiEnds` | what exit codes, hooks, files and screen say is so |

A property with several parts is a conjunction of named ones, each stated in
its module with the code it is about (`OutcomeIsTold` is `ExitCodeHasCause` and
`HookMatchesExit`, and so on).

Some properties say less than one would wish, because the code does no more:

* `NoRequestTwice`: no two items of the queue are for one request. A host in
  another spelling is another request, although the comment of `normalizeURL`
  promises lowercase (`types.go:171`).
* `VerifiedMeansRight` is about checksums. Without one, success says nothing of
  the bytes: `Download` returns nil after a body that ended cleanly too early
  (`downloader.go:287`).
* `UpToDateIsCurrent` is about a file that was dated by a download which fetched
  all its bytes from the URL. Its date is that of the HEAD request before the
  first byte, so it is no younger than any byte. A file that was not dated (a
  checksum that did not match, a kill or an interrupt before
  `SetFileModTime`, no date from the server), or that was resumed, fetched from
  a mirror or ended early, may be skipped though it is old or mixed.
* `TuiTellsTruth` excepts the exit code after the key q and after a signal, and
  says nothing of a pause, which is shown and stops nothing, nor of the size
  shown at the end, which is the one announced.
* `LimitsInForce`: the first download from a host gets the limit set for it, for
  a domain above it, or the default; later only a limit for the host itself
  reaches its limiter, and none a host that was not limited at first.
* `NamesAsMade`: a name the server sends stays in the output directory. The name
  of a URL is decoded once more after its last segment was cut off, and not
  sanitized: `DecodesToPath` says which segments lead out of the directory, and
  `NamesAgree` for which the three copies of the code name different files.
* `RobotsAsWritten`: the longest rule decides, and of equally long ones the
  first; an Allow has no precedence over a Disallow (`robots.go:143`).

### Bounds

Of the downloader nothing is bounded but the data: the number of processes,
crashes, ticks, retries and overlapping Saves is not. Three bytes in two chunks
are enough for a chunk that is partly downloaded, one whose last byte is
recorded but which is not marked complete, reads of different length, and a last
chunk longer than the others; an old file longer than the remote one is enough
to need `Truncate`. One connection for two chunks (after a restart with a
smaller `-n`) makes a chunk wait for a slot. A third chunk or connection adds no
kind of interaction: chunk goroutines share only the lock and the slots.
`Resume` leaves out errors that no cancellation causes, to keep the run short: a
cancelled request, read or retry fails as one that breaks does, `Hostile` has
both, and the theorems cover every subset of cancel, crash and error.

The site of `Crawl` is made for the interleavings: the start page has enough
links to fill the channel of two workers (four places) and to block the feeder;
one page is linked again under other addresses (a fragment, the default port,
another spelling of its host),
one is at the depth limit and excluded, one beyond it; a second host serves two
images, one of them excluded, so that two workers ask for its robots.txt at
once; a third host is filtered out. The theorems cover every site and any
number of workers.

`Parts`: two callers are enough to wait for the same tokens; limits of 2, 3 and
0 and requests of 1 and 4 bytes (less and more than a burst) over 4 ticks of
half a second each, with `MaxLimit` = 3. Two mirrors of different priority, the better one second,
under three retries each: six rounds, which is enough to take a mirror out
(three failures), to bring both back by a reset, and to use
up the rounds; by `RoundsForAll` that is also enough for the rotation to come
to both. The functions take all inputs up to length 4 (two names of a
path, two entries of a `.netrc` in up to four lines, five lines of a robots.txt).

`Commands`: two processes (one leaves a file, the other finds it), two versions
(a new one appears between or during them), a URL and a mirror (or two metalink
URLs). Of the options, those that have no say in one another are not all
combined (`MCOptions`): bad arguments end the process at once, hooks are told
what the other options made of it, and a checksum found beside the URL counts
only if none is given. The theorems have no such bound. Three items (`MaxItems`) are enough for a failed item between two others, and for two
with the same name. Two bytes are enough for a transfer that ends half-way.

### Fairness

`FairSpec` of the downloader (run `Progress`): weak fairness of the main
goroutine's steps and of each Save in progress, for Go schedules runnable
goroutines and the file system answers. Strong fairness of each chunk
goroutine: it waits for `state.mu`, which is free again and again between
Saves, and Go's `RWMutex` lets a waiting writer in before new readers; and it
waits for a slot of the semaphore, which another goroutine frees. That the
network delivers data or an error is part of it (the HTTP client has a timeout,
and a user may cancel).

`Fairness` of the crawler: weak fairness of `Crawl`, `Return`, the feeder and
each worker, which are goroutines; requests end because the client has a
timeout. The feeder's action is not enabled while the channel is full, and
nothing is assumed to empty it.

`TorrentFairness` and `TuiFairness`: weak fairness of each goroutine's steps; a
select that may prefer the ticker sees the context in the end, and the event
loop takes what is sent to it. Swarm and user owe nothing. In
`MCCommands` a behaviour is one of one command, and no fair action of another
is ever enabled in it.

Nothing is assumed of the user, the ticker or the faults. Deadlock is checked
wherever the system keeps running; `Parts`, `Commands` and the violation runs
on their modules say `CHECK_DEADLOCK FALSE`, for there a function has one input,
or processes end and none follows.

### Where code and documentation disagree

These runs expect a violation; `findings` in `PROJECT.json` quotes the lines.

| Run | Violated | What happens |
|---|---|---|
| `ResumeUnknownLength` | `CompletedFileIsRemote` | the whole body is fetched and written at the resume offset |
| `NoRanges` | `DownloadSucceeds` | length but no ranges: a range request is sent and its 200 refused |
| `LostLinks` | `NothingLeftPending` | the feeder closes the channel while a worker is fetching a page: its links are never taken |
| `HooksLost` | `CompleteHookRuns` | main exits before the goroutine of the hook has started its command |
| `StampSkips` | `SkippedIsWhole` | `-N` takes the preallocated file of an interrupted download for up to date |
| `QueriesCollide` | `QueriesApart` | the digits kept of the hash are zero for short queries: `?p=1` and `?p=2` are one file |

What else was met on the way. Each is in the models as the code has it; the
properties say what holds besides.

* Downloader: with fewer bytes than connections chunks get the end −1, the mark
  of an unknown length. The state saver may write the state file again after it
  was deleted. Of two Saves one may rename the file the other has just
  truncated. The state of another URL survives on disk while its bytes are
  overwritten. A new remote file of the same length is resumed into a mixture.
  With an unknown length an older, longer file keeps its tail. A state whose
  output file is gone is trusted. (`Honest` excludes the harmful ones.) A torn
  or reappeared state does no further harm while the remote file stays the
  same: `LoadState` refuses a torn one, and `Resume` includes both.
* Limiter and mirrors: the time a caller waits refills the bucket as well, so a
  single caller gets up to twice the limit (`LimiterBounds` has k + 1 times for
  k callers). After `SetLimit(0)` a waiting caller waits on by what it computed.
  Failover never reaches the second mirror before the rounds are used up. Round
  robin does not come to every mirror either: each mirror that goes down shifts
  the turn past another, so that N mirrors may take (N + 1)²/4 rounds. Three
  mirrors with one retry, or eleven with the default of three, may fail with
  one untried; with three retries ten are safe (`RoundsForAll`).
* Commands: `-N` ignores `--checksum`. A file from a stale mirror gets the date
  of the main URL. An interrupt during the first request ends with 3, during
  verification with 0; of a metalink it ends one URL and the next is tried,
  never with 8. Error hooks do not run when a checksum does not match. Batch
  lines with the same file name overwrite each other, and a checksum that does
  not parse is skipped. An FTP transfer that ends early is a success. A torrent
  that waits for its metadata does not see an interrupt. In the TUI the key q
  ends with 0, and so may a signal, while the download is unfinished; a pause
  stops nothing (`WaitIfPaused` has no caller). A file that a checksum refused,
  or that a kill left undated, is younger than the remote one and skipped by
  `-N`.
* Crawler: a depth of 0 is "Unlimited" in one message and the start page only in
  the crawler. `--spider` fails at `MkdirAll("")`. A failed robots.txt allows
  everything. Groups without a rule run together with the next. A rule with a
  star and `$` may cover more than it says. Two spellings of a host are two
  sites. Links are rewritten against the
  start URL, not their page, and `<base>` and queries are ignored. Directories
  with an extension collide with files.
* Names and texts: sha-384 in a metalink turns verification off; a URL that has
  "sha256" in a directory decides against the extension of a checksum file;
  blake3 has the length of sha256; a `.netrc` keyword at the end of a line loses
  its word. HTTP and the queue decode a URL's name a second time, so that
  `%252F` becomes a separator in it; HTTP/3 does not, and HTTP alone cuts it at
  a "?". A retry's jitter may exceed
  the cap (and nothing calls the retrier).

## 4. Proofs

Of the downloader, `TypeCorrect` and `LengthCorrect` need no assumption beyond
those on the constants. `LengthInv` says that every worker is done when the
state is deleted, and that the file has its length from the truncation on.
Everything else is proved from `Honest`, which says when resuming can be safe at
all: one URL per output path, a known length, ranges, no file smaller than the
number of connections, and no faults but cancellation, crashes and errors (of
opening, requests, reads and writes). The runs of the table above, and
`Hostile`, are what happens without its parts.

`ResumeInv` is inductive. Its parts:

* `Shape`: which variables are in use at which step;
* `StatesGood`: every state – in memory, in a Save, in the temporary file, in
  the state file – is a plan for the file whose chunks partition it
  (`ChunksPartition`), whose counters are within the chunks, and which claims
  only bytes that are there (`Claimed(s) \subseteq Have`). It must speak of all
  four at once, for a Save moves one to the next;
* `WorkersGood`: the local counter of a goroutine equals the state's, its body
  goes on where the chunk does, and between `Write` and `Record` the bytes are
  in the file and not yet counted;
* `OpensSafely`: between processes what is on disk is all there is, so
  `Preallocate` happens only when nothing is claimed;
* `EndsComplete`: the state is deleted only when every chunk is complete.

The step that preallocates (`OpenWriterSafe`), the step that writes
(`WriteKeeps`: bytes once right stay right, for chunks are apart and the
writer only extends) and `SaveRename` (`SaveSafe`) carry the argument. From
`ResumeInv` (`InvariantHolds`) follow `ClaimsCorrect`, `CompletedChunksCorrect`,
`CompletionCorrect` and `WritesCorrect`.

`ResumeInv` does not say which state a Save writes. `ProgressInv`
(`ProgressAlways`), inductive relative to it, does: every Save in progress holds the state in memory
(`SavesAreCurrent`: `UpdateChunk` waits for the Saves), the state in memory
claims all that the state file does (`MemoryIsAhead`), and only a failing
`Download` saves outside the ticker (`OnlyFailureSaves`). The lemma
`WorkerAdvances` says what a chunk goroutine does to file and state: it only
adds. From these follow `SavesAgree`, `ProgressKept` and the refinement
`TransferImplemented`, in which each step is one action of `ResumableTransfer`
or a stutter: opening the file is `Prepare`, a write `Receive`, a rename
`Keep`, a torn or deleted state file `Forget`, `CloseDone` is `Complete` and
the end of a process, by return or by a crash, `End`.

`FailureSaves` has one hypothesis more: no call of the system fails
(`"error" \notin Faults`; a failing Save saves nothing, and the code drops its
error). `FailureInv` follows the temporary file: the saver's Save keeps it there
while `Download` is still at work, and when it is gone before the last Save has
renamed it, the other one has put the same state in place, or a torn one
(`Saved`). The workers are over by then, so that the state stays as it is.

The paragraphs above are about the downloader. Every other module with state
has an inductive invariant for every value of its constants, too.

`CrawlerProofs`. The invariant `CrawlInv` follows an item through the program:
`Custody` says that the feeder, the channel and the workers hold items that are
marked as in progress, each by one of them (`FeederHolds`, `ChannelHolds`,
`WorkersHold`, `NobodyElseHolds`), and that a marked item is held
(`MarkedIsHeld`); it must speak of all holders at once, for an item goes from
one to the next. `KeysApart` says that no two items have one key, which
`URLQueue.Add` checks and inserts under one lock. From it follow `OneHolder` and
`NoRequestTwice` (`RequestsMadeOnce`): two items for one request would have one
key, for a key forgets only the fragment and the scheme's own port. On top of it:

* `RobotsInv`: a robots.txt that can always be read is in the cache as what it
  is, or not at all, or the crawl was interrupted; and a worker that passed the
  check with an excluded page did so after the interrupt, and can only fail.
  From it follows `RobotsObeyed`.
* `StatsInv` counts items by final status while a worker is between its status
  and its counter; from it follows `StatsAgree`.
* `DoneInv`: a worker ends only with a channel that is closed and empty; with
  `Custody` nothing is in progress when all have ended, whence
  `SuccessMeansFinished`. `RestTypes` adds what `TypeOK` says of the channel's
  room.
* `DepthInv`: every item was reached over as many links as it says, and a worker
  looks for links only in a page above the limit, among that page's own; a walk
  to the page and one of its links make a walk to the next (`Distance` speaks of
  walks and not of shortest ones, so that no recursion is needed). From it
  follows `NeverBeyondDepth`.

`PartsProofs`, first the mirrors: `ListInv` says that a mirror is out exactly when it has three
failures on its account (`CountsAgree`), and that a client that has used up some
of its rounds has tried a mirror (`RoundsHaveCause`: as long as it has not, its
next attempt cannot be a skipped one). From it follow both parts of
`ListIsTrue`. `RotationInv` counts the rounds of a download that is alone on the
list: as long as it has not tried all that was up when it began, the list was
not reset, and its rounds are at most what the mirrors that went down since, and
those whose turn came since the last of them, account for (`Turning`,
`HadTurn`). `RotationAlwaysComplete` follows for every number of mirrors,
downloads and failures they came with.

Then the limiter: `Bucket`, the types and `BurstWithinLimit`, is inductive
(`SetLimit` must cut what was saved up). `WindowInv` adds the account behind
`GrantBound`: what was spent in the window is paid by the time the bucket was
refilled for and by the times callers waited (`Paid`). The window bounds the
former once and the latter once for each caller, for a caller waits for no more
than it asked, from a moment within the window (`WaitsInWindow`), and a bucket
last refilled before the window has granted nothing in it (`UntouchedSince`).
`HostInv` says of the table of limits that a host's own limit is the one its
limiter has, or that it is nil. `NewOnesFit` says of a step what
`matchHostPattern` gives a new limiter: a pattern matches just the hosts it
covers, label by label (`MatchesWhatItCovers`). Together they are
`LimitsInForce`.

`CommandProofs`, one invariant per command:

* `UrlInv`: where the process is, what its code may be there and what it has
  found in the file (`CodesTrue`); the one hook a URL starts is for its result
  (`HooksTrue`); and what the dates say (`DatesTrue`). `BytesTrue` is the
  argument behind the last: the date in hand is that of a request made before
  the first byte, so every version that comes from the URL is at least as young,
  and if two of them came the URL has a younger one by now (`TwoVersions`).
  `FileTrue` says the same of a file once it is dated, and `SkipTrue` of the
  comparison. From them follow `VerifiedMeansRight`, `UpToDateIsCurrent` and
  `OutcomeIsTold`, for any number of processes, URLs and versions.
* `BatchInv`: items before the one in hand are done, those after it pending
  (`InOrder`); both sets of counters count them (`Counted`); the exit code
  follows from them (`CodesFollow`), and a completed item has its file unless
  another has the same path (`FilesFollow`).
* `FtpInv` and `TorrentInv` are the properties with the types and the order of
  the steps; `TorrentAlwaysCompletes` is the safety part of `TorrentEndsTruly`.
* `TuiInv` says of each message under way that it is true by the time it is
  taken (`MessagesTrue`): the download only goes forward, and a final message is
  sent after it has returned. What is shown was in a message (`ShownTrue`), and
  main ends after the loop, which, unless the user quits or a signal ends it,
  ends after the finisher (`EndsTrue`). From it follow both parts of
  `TuiTellsTruth`.

`InputProofs` is about functions, so it needs induction over their inputs, which
the library's induction rules do not give here. The module makes it from two
facts: a set of numbers that is not empty has a smallest one (`Smallest`), so
that a statement false somewhere has a smallest counterexample; and the
functions by which the library defines a fold exist (`FoldExists`), shown the
same way, so that a fold has the value its last step gives it. The hypotheses of
its theorems are the types of the inputs: any sequence of rules, lines or
characters, preferences from 1 to 100, pieces of a positive length over a file
that is not empty, any number of retries, a jitter of 0 to 100 per cent, a
multiplier of at least 1, and `network` and `server` as the errors that may be
retried.

`NetrcAlwaysKeepsLogins` follows the parser of a `.netrc` word by word and line by
line: a fold is a run of steps (`WordByWord`, `LineByLine`), and after the first
`j` pairs of words (`PairsRead`) the entries they belong to are logged, the last
one perhaps without its login. A pair in the middle of a line does what it does
on a line of its own (`PairIsRead`, `PairWords`), because no keyword waits
between two pairs; so it does not matter where the lines end, and a macro leaves
the parser as it was (`MacroSkipped`). Names and logins are any words, those of
the keywords too: a user may be named "login".

`CopyProofs` proves the four parts of `LocalCopyHolds`.

* `LinksAlwaysLand`: `makeRelative` goes up as many steps as the file of the page
  is deep below what it shares with its target (`CommonIs`, `RelativeLands`),
  and the url the converter resolves against the start url is the one the
  reader of the page means (`SameTarget`).
* `NeverADirectory`: a file in the way of a directory would be a name with an
  extension in the middle of a path (`NoFileAbove`).
* `FollowedAlwaysConverted`, by the tags.
* `CssUrlsAlwaysFound`: the scanner of `ParseCSS` jumps from the end of one url to
  the beginning of the next (`JumpExists` gives a function defined by such
  jumps). Read from any place before a use of a url, it finds this one, whole,
  and is behind it, before the next (`UseIsRead`). Its hypothesis is that no
  blank and no `url(` is in a url.

Of the rules of a robots.txt it proves that the longest that matches decides, and
the first of equally long ones (`LongestAlwaysDecides`: `FirstOfLongest` is the
invariant of the loop of `checkRules`), whence their order matters only between
equally long rules that differ (`VerdictAlwaysIgnoresOrder`).

`NamesAlwaysAsMade` follows a segment through its second decoding character by
character (`UnescapeCases`, `SegmentStays`), for paths of any length.

`RobotsProofs` proves what `RobotsAsWritten` has besides these two.

* `GroupsAlwaysApart`: `GroupsRead` is the invariant of the parser over the first
  `k` lines. What has been flushed and what the current group will flush, if it
  applies, are the rules of ours so far, and whether it applies is whether the
  line after the `k`th would be ours. An agent line after a rule begins another
  group, one after an agent line joins it, and the parser tells them apart by
  whether the group has rules, which is why the property is about files whose
  groups have some (`AgentRead`, `OtherRead`).
* `GlobsAlwaysAgree`: the rows of the backtracking glob say from which places of a
  path the rest of a pattern fits. Where the greedy matcher ends a part, the
  glob can go on (`GlobFollows`); where the glob fits, there is a place for each
  part, and the first one, which the matcher takes, is not behind it, so that
  the glob fits from there, too (`PartFound`, `PartReached`, `AllReached`). Rules
  with "?" are left out, for it stands for itself in robots.txt and for any
  character in the filter.

What the theorems rest on: the assumptions on the constants, which TLC evaluates
in the passing runs. They are `ServerAssumption`, `BoundsAssumption`,
`BytesAssumption` (a byte of a version is not the mark for none),
`FaultsAssumption` and `FilesAssumption` (no file, a torn one and a state are
three things) of the downloader; `CrawlerAssumption` and `SiteAssumption`, by
which whatever may be queued has a page and a host that answer in some way;
`RateLimiterAssumption`, `MaxLimitAssumption`, `PerHostAssumption`,
`MirrorAssumption`; `UrlAssumption`, `BatchAssumption`, `FtpAssumption`,
`TorrentAssumption`, `TuiAssumption`. Beyond them `Honest` is a hypothesis of the
theorems of `DownloaderRefinement` and, but for the types and `LengthCorrect`,
of `DownloaderProofs`.

Only model-checked:

* liveness (`DownloadEnds`, `DownloadSucceeds`, `CrawlEnds`, `TorrentEndsTruly`,
  `TuiEnds`), which is out of the prover's reach;
* what holds of `SavedProgressGrows` without `Honest` (run `Hostile`).

Every other property of a passing run is stated by a theorem.

## 5. Plan

Done: the downloader with its abstract transfer; the crawler with filter,
robots rules and local paths; limiter and mirrors; every command; the functions;
and the theorems of section 4.

Next, in order of importance:

1. `UrlCommand` over `Downloader` in place of the versions of its bytes: where
   each byte of a resumed or mixed file is.

### Not modelled

* State store, `CheckETag` and `ETagStore`, `WriteChunk`, SFTP:
  nothing in the program calls them.
* `progressReporter`, `GetProgress`, progress display, metrics, version, TUI
  rendering: they compute what is displayed or written once, and nothing reads
  it back.
* TLS, authentication, proxies, connection pools, HTTP/3's transport: the
  library's, configured from options that are only copied.
* Configuration files, XML of metalinks, HTML trees, hashes: decoded or computed
  by libraries; what the program does with the result is modelled.
* The search of the converter for links in the text of a page, loss of power,
  failing `os.Remove` and `ftruncate`: see `Downloader` and `hazards`.
