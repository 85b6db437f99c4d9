# tls-forge: a verification project

tls-forge makes HTTP requests that look, on the wire, like a given browser. Its
core is a Go library; around it are a daemon that speaks JSON lines, clients of
that daemon for Node and Python, a proxy, a batch runner, and an echo server
that measures browsers. The look of the bytes is checked by the repository's own
tests against real captures. What tests hardly reach is everything that happens
*around* a request: processes that die, threads and connections that compete,
a close in the middle, files written by two runs at once, and everything that
happens to a *look* on its long way: cut into records and reads, recorded, made
into a profile, saved, found again by a name, put on, carried over redirects and
compared with where it came from. This project models that part in TLA+, checks
it with TLC, and proves what matters most with TLAPS.

Source references are to the repository; `PROJECT.json` maps every definition to
the lines it stands for.

## Inventory

| Component | Source | State it keeps | Operations | Interacts with | Modelled |
|---|---|---|---|---|---|
| Node client | `node/index.js` | queue, request in flight, deadline timer, current process | `request`, `close`, and the listeners `line`, `exit`, `error`, write callback, timer | daemon (pipes), Node's event loop | `NodeClient` |
| Python client | `python/src/tlsforge/_client.py` | lock, current process and its queue, `_live` | `request`, `close`, garbage collection, a reader thread per process | daemon (pipes), the caller's threads | `PythonClient` |
| Daemon | `daemon/daemon.go` | one Go client | one line in, one line out, in order | both clients, Go client | `Client` (its loops), and its side in both client modules |
| Proxy server | `proxy/proxy.go`, `internal/deadlineconn` | listener, open connections, WaitGroup, closed flag | accept, CONNECT, forward, `Close` | certificate cache, Go client | `ProxyServer` |
| Certificate cache | `proxy/ca.go` | map of leaf certificates, order of insertion | `leafFor` | handlers of the proxy | `LeafCache` |
| Authority on disk | `proxy/ca.go` | a key file and a certificate file | `LoadOrCreateCA` | atomic file writes, other processes | `AuthorityStore` |
| Atomic file writes | `internal/atomicfile` | a temporary file | `Write` | file system | `AtomicFile` |
| Session file | `cmd/tls-forge/fetch.go`, `cookie/cookie.go` | a file of cookie sets | `saveSession`, `File.Add`, validation | atomic file writes, other runs | `SessionStore` (partly) |
| Batch runner | `cmd/tls-forge/batch.go`, `progress.go` | job channel, pool of clients, counts, output | `runJobs`, `fetchOne`, `pool.get` | Go clients, output, signals | `Batch` (partly) |
| Echo server | `echo/` | navigations, completed captures, connections | `route`, `complete`, `Await`, `Close`, the recorder of a connection | browsers, measurements | `EchoServer` (partly), the recorder in `Measure` |
| Client core | `client.go`, `header.go`, `options.go` | cookie jar, the session and which of it is filed, closed flag | `New`, `Do` hop by hop, `Close` | transport library, daemon, proxy, batch | `Client`, `HeaderBlock`, `WarmSession` |
| Fingerprints | `fingerprint/` | none | `ParseClientHello`, JA4, the fields compared and their differences | echo server, profiles, measurement | `ClientHello`, `Fingerprint` (partly) |
| Profiles, registry | `profile/` | profiles added, the directory of the machine, the tree in the binary | `FromCapture`, `Load`, `Spec`, `Get`, `Names`, families, groups | client core, commands | `Profiles`, `Registry` (partly) |
| Measurement | `measure.go` | none | `MeasureBrowserAt`, `MeasureSelfAt`, `CompareToBrowser`, `Compare` | echo server, browser, client | `Measure`, `Fingerprint`; the caller of `Await` in `EchoServer` |
| Capture format | `capture/` | none | what is kept of a measurement, and read back | measurement, profiles | `ClientHello`, `Measure` (partly) |
| Command line | `cmd/tls-forge/` | the directory of the machine | `capture`, `compare`, the default profile; flags, reports | all of the above | `Measure` (partly) |
| Browser launcher, binary location | `browser/`, `node/binary.js`, `_binary.py` | none | start a browser, pick a path | operating system | no |

What makes each component correct:

- **Clients of the daemon.** A call is settled once, with its own answer or an
  error, whatever the daemon prints and whenever it dies; nothing is sent twice;
  a close is final and leaves no daemon behind; nobody waits for ever.
- **Proxy.** `Close` returns although clients are silent, and when it has
  returned nothing runs and nothing is open. The cache of certificates is
  bounded, and its map and its order agree.
- **Files.** A reader never finds half a file; a crash leaves the old contents or
  the new; an authority somebody trusts is not replaced; a saved session stays.
- **Batch.** Every URL is recorded once or not started, a proxy keeps one
  identity, bodies do not overwrite each other, the run returns.
- **Echo.** A capture is of one browser, handed to one caller, without a lost
  wake-up; the hello in it is the one that was sent, however it arrived.
- **Client core.** A request leaves with all its session holds for the site, and
  nothing of the session is put back over what a site has set; each hop looks as
  the profile was measured on the protocol of its connection; no credential
  follows a redirect away from its site; each line of the daemon gets its answer
  in its turn, and none takes for ever.
- **Profiles, fingerprints, measurement.** "Nothing differs" is said exactly of
  two looks that are the same; what a connection draws at random is not a
  difference; a name means what was measured and saved last under it, a family
  its newest measured member.

The hard behaviours, with the line where each bites and the properties that cover
it, are the `hazards` of
`PROJECT.json`.

## Modules

| Module | Models | Its actions are |
|---|---|---|
| `RequestService` | what a client of the daemon promises (abstract) | submit, refuse, answer, fail, close |
| `NodeClient` | the Node client and its processes | one callback of the event loop each, with every private method it calls |
| `PythonClient` | the Python client, its threads, reader threads and processes | what a thread does between two points where another can act |
| `LeafCache` | `CA.leafFor` | one call under the lock |
| `ProxyServer` (EXTENDS `LeafCache`) | accept loop, handlers, callers of `Close` | one section under the lock, or one blocking call |
| `AtomicFile` | `atomicfile.Write`, a disk that may lose what was not synced | one system call |
| `SessionStore` (EXTENDS `AtomicFile`) | `saveSession` by several runs | reading, the steps of the write, being killed |
| `AuthorityStore` (EXTENDS `AtomicFile`) | `LoadOrCreateCA` by several starts | reading each file, the steps of each write, the removal after a failure |
| `Batch` | `runJobs`, its feeder and workers, the client pool | one channel operation or one section under a lock |
| `CaptureQueue` | what `Await` promises (abstract) | complete, take, give up, close |
| `EchoServer` | filing of navigations, reports and captures; `Await` | one section under `Server.mu` or `Session.mu` |
| `HeaderBlock` | headers and their layouts: `Merge`, the order of a daemon request, the layouts for both protocols and for a redirect | operators |
| `WarmSession` | the session of a client and its jar: `seedWarmCookies`, `seedCookies` | taking under `warmMu`, filing and unlocking, a site setting a cookie |
| `Client` (EXTENDS both) | `Serve` and `handle` of the daemon over `Do` | a line refused, the stages of `Do`, a hop, an answer, `Close` |
| `ClientHello` | `ParseClientHello` over a stream of which a part has arrived; GREASE; JA4 | operators |
| `Fingerprint` (EXTENDS `HeaderBlock`) | the fields of the three comparisons, `Compare`, `OK` | operators |
| `Profiles` | `FromCapture`, the validations of `Load`, `Spec`, what a client of a profile sends | operators |
| `Registry` | look-up in one tree and in all sources, families, groups | operators |
| `Measure` (EXTENDS the four) | `capture --install`/`--save`, `compare`, the name the network commands settle on, the recorder, a program that registers profiles | an update of the browser, a navigation, a read of the recorder, saving, settling a name, running, wearing, measuring oneself over each protocol, the verdict |
| `<component>Proofs`: of `NodeClient`, `PythonClient`, `ProxyServer` (with `LeafCache` and, beside it, `AuthorityStore`), `SessionStore`, `Batch`, `EchoServer`, `Client`, `Measure` | theorems and their proofs | |
| `MC*` | instances for TLC | |

How state and actions correspond to the code, where it is not obvious:

- `NodeClient` has one operator per private method of the class (`Start`,
  `Kill`, `Pump`, `FailInFlight` ...), each from a state to a state or, where a
  spawn can turn out in several ways, to a set of states. An action applies them
  in the order its callback does. `process`, `reader` are indexes into `procs`,
  the sequence of all processes ever spawned, so that events of a process that
  was given up on can still arrive.
- `PythonClient` keeps a program counter per call; `lock` is the caller that holds
  `_lock`. Each process has its own queue (`sink`), as in `_ensure_started`.
- In both, a daemon's answer is a record of a kind, an id and the request it
  really answers. `DaemonFault` lets it print a line that is no reply, or a malformed
  one under the id of the request it is answering; answers that come late, under ids
  given up on, are its own `DaemonReply`.
- `ProxyServer.phase` is where the goroutine of a connection is. `open` is the
  server's end of the socket, `peer` the client's; a read or write succeeds while
  both are open. `wg` is the counter of the WaitGroup, `once` the `sync.Once`.
- `AtomicFile` distinguishes `disk` (what a reader sees) from what survives a loss
  of power; `Torn` is a file whose bytes were not synced.
- `AuthorityStore` names the contents of a key or certificate by the start that
  minted it, so "they match" is equality.
- `EchoServer.navigations` stands for the three fields that grow together
  (`navigations`, `navigationByID`, `nextNavigation`): a token is an index in it.
  `woken` holds the callers whose copy of the `ready` channel has been closed.

- `Client.hop` is the request at the transport: its host, the host it came from, the
  protocol of the connection it got, its block (what HTTP/2 writes and fhttp copies
  from) and the layout the context holds for HTTP/1.1. `Wire` is what is written.
  The block of the first request is a function of the line (`Original`,
  `Measured`), as it is in `Do`.
- `WarmSession.jar` holds, per name and scope, *who put it there* (`warm`, `given`,
  `site`), which is all that filing twice or too late can be told by. Between
  `TakeWarm` and `FileWarm` other goroutines run: `ready` is the local variable of
  that name.
- In `ClientHello` a unit of a record stands for a run of bytes (the type, the
  length, one field each), so that records and reads can cut a hello at every place
  where the parser's answer changes; `MaxHandshake` and `MaxRecorded` are in units.
- In `Registry` a profile name is the sequence of its words: `chrome_151_linux` is
  `<<"chrome", "151", "linux">>`. `Number` gives the value of words that are digits.
- `Measure.cmd` is the stage a command is at and what it has measured so far. `of`
  in captures and profiles says whom they were measured from (the versions of the
  two navigations, or the entry of the catalogue); only properties read it.

Composition: `Client` contains `HeaderBlock` and `WarmSession`; `Measure` contains
the recorder, the parser, the comparison, the profiles (which wear a look through the
same `HeaderBlock` layouts as `Client`) and the registry. `ProxyServer` contains `LeafCache`, the two stores contain
`AtomicFile`, and the clients and the echo server are shown to implement their
abstract modules by refinement (`INSTANCE`, the abstract `Spec` as a PROPERTY).

## What the runs check

| Run | Instance | Shows |
|---|---|---|
| `node_client` | 3 calls, a close, 1 wrong line | no answer crosses to another call, a queued job survives the death of the process, the timer is armed exactly while something is outstanding, one process is heard, no retry, close is final; implements `RequestService`; every call settles |
| `node_unhandled` | same | **violation**: `close()` between a failing spawn and its `error` event removes the listener, and the event is uncaught |
| `python_client` | 2 calls of `request`, 2 of `close`, 2 wrong lines | a caller past the lock is alone with its process and queue, an end of output is its own process's, no daemon outlives the client; implements `RequestService` (answers do not cross); every call returns, daemons end |
| `proxy_server` | 2 connections, 2 callers of `Close`, 2 hosts | WaitGroup exact, nothing slips behind the snapshot, `Close` returns without help and leaves nothing, a client that hung up is forgotten |
| `session_store` | 2 runs saving 2 sessions each, 1 loss of power | the file can always be loaded, temporary files stay only of a run that was killed, lost power, or failed and could not remove it, a session disappears only through a power loss or a writer with an older reading |
| `session_lost` | same | **violation**: two runs that read before either writes lose a session that was reported saved |
| `authority_store` | 3 starts, at once or one after the other, 1 loss of power; then 4 hosts, room for 3 certificates, 8 minted | all that serve share the authority on disk, with its key, and a certificate once there stays, whatever start finds it; the one exception is a start that overlapped another and had read neither file; the certificates cached and the order they are thrown out in are the same hosts, each once, over hits, failures and evictions |
| `batch` | 2 workers, 3 URLs (one repeated, two through one proxy), 1 retry | every URL accounted for in tries, records and counts, one client per proxy, bodies apart, the run returns |
| `echo_server` | 2 browsers, 3 connections and 1 to the HTTP/1.1 listener, 2 callers | a capture is whole and of one browser; implements `CaptureQueue` |
| `echo_headers` | same | **violation**: a connection that carried another request before the page is returned with that request's headers |
| `client` | 2 loops with 4 lines each on one client, 3 hosts (a site, its subdomain, an address), a session of 3 cookies, redirects without limit over both protocols | the session is in the jar before a request leaves and is never filed again; no credential and no old host off the site; each hop in the measured order with the values of its protocol and the caller; answers in order; every line settled |
| `measure` | 3 versions of a browser, 2 variations, 2 saves, 1 change by hand, 1 shipped profile, 1 catalogue entry | the recorder has exactly the hello whatever the cuts; a verdict is right through every conversion; a saved measurement is what its names mean, and what a network command without a name wears; a family is its newest measured member |

Every property of a passing run has a mutant in `PROJECT.json`: a plausible bug in
one modelled definition that makes TLC find the property violated.

### Bounds

Every counter is bounded by a constant: `MaxFaults` (wrong lines of daemons),
`MaxRequests` (requests on a connection), `MaxLosses` (losses of power),
`MaxSessions`, `Stamps` (seconds of the clock), `Repeat`, `PipeRoom` (lines in a
pipe), `MaxLeaves`, `MaxMinted`. They are small because the interesting cases are: three Node
calls are one in flight, one behind it, and one made after a crash, a timeout or a
close; two Python callers and two closers cover holder, waiter and closer;
one wrong line is enough to end a call early and have its true answer come later;
two connections are one that slips between `Accept` and `Close` while the other is
being closed; two stamps make ids collide in one second and not in the next;
three starts are a failure, a recovery and a third that must accept it, or two that race
and one that finds what they leave; four hosts and three places fill the order of the
cache, which eight certificates go through more than twice (`proxy_server`
asks for two at most and leaves the cache to `authority_store`, where it is used once all the
starts serve: files and cache share only the authority); a third
URL makes the list repeat one; a browser with two connections reports over the
one that did not load the page.

In `client`, two loops are the one that takes the session and the one that must
wait for it; the second asks a subdomain, where one cookie is shared and another is
not, and the first an address, which takes no domain cookies. The lines hold each
kind: refused without and with an id, blank, too long, with headers, an order, and
cookies of their own. Redirects lead back to the site, to another one and between
protocols without a bound: hops repeat after a few and the state space closes.

In `measure`, the first version of the browser is refused, its navigation not being a cold
one; the second is the one the shipped profile and the catalogue are of, the third
differs from it in an order JA4 keeps. The catalogue has no headers, and a browser updated
between its navigations is of both versions: looks agree and differ in each of the three
comparisons. A variation changes GREASE, turns the
extensions round, and cuts the records elsewhere; the recorder then reads any part at
a time. A hello and its two records take 11 units, all of `MaxRecorded`, and what
follows it exceeds that; the limit is reached in the very read that completes the
hello. The file put by hand shadows a name (a flat file stands before a directory) or
is a member of the family that does not load, the profile registered is newer than the
shipped one, and the catalogue has the highest number of all, never measured.

### Fairness

- Go: goroutines are scheduled (weak fairness on their steps), `Accept` returns an error once
  its listener is closed (it may do so earlier, which nothing relies on); a forwarded or
  fetched request returns, since the client has a timeout (`options.go`). Nothing
  is assumed of peers: not that they send, read or hang up, and not the idle
  timeout, so `CloseReturns` does not rest on it.
- Node: timers fire and an `error` event that is due is emitted. Nothing is assumed
  of the daemon: `EventuallySettled` rests on the deadline timer alone.
- Python: threads are scheduled and `queue.get` times out; the daemon's own
  requests have a deadline; a daemon whose stdin is closed ends or is killed.
- Echo: goroutines are scheduled; the deadline of a caller is not relied on.
- Client: goroutines are scheduled, and the deadline `New` gives the transport passes
  (`WF(Fail)`): it covers the whole exchange, redirects and body included. Nothing is
  assumed of sites; `Redirect` and `Respond` need never be taken and may be for ever.
- The stores, the cache and `Measure` state safety only; a run may be killed, and a
  command given up, at any step.

## What is proved

TLAPS proves, for every value of the constants (any number of connections, threads,
callers, runs, workers, hosts, lines and faults, any list of jobs, any bound):

| Module | Theorem | Statement |
|---|---|---|
| `NodeClientProofs` | `Inductive` | `Spec => []IInv`, and likewise in each module below |
| | `AnswersAreOwn` | `NoCrossedAnswer`: no answer settles a request it is not of |
| | `RequestsKept` | `NoLostRequest`: what is pending is in flight or queued, and the queue moves |
| | `TimerWhileOutstanding` | `LoopHeldOpen`: a timer is armed exactly while something is outstanding |
| | `OneDaemon` | `OneIdentity`: the one process not told to stop is the one written to and read |
| | `NeverSentTwice` | `SentAtMostOnce` |
| | `ClosedForGood` | `CloseIsFinal` |
| | `ServiceImplemented` | `Implements`: each callback is a step of `RequestService`, or none |
| `PythonClientProofs` | `LockKeepsApart` | `AloneWithItsProcess` |
| | `SentinelIsOwn` | `EndIsItsOwn`: an end of output ends a call of its own process only |
| | `ServiceImplemented` | `Implements`, under any interleaving of threads |
| `ProxyServerProofs` | `LeafCacheSound` | the certificates held and the order they are thrown out in are the same hosts, each once, within the bound |
| | `ProxyInvariant` | `ProxyInv`, the inductive invariant |
| | `ProxyTypeCorrect`, `WaitGroupCounts`, `CloseSeesAll`, `CloseIsComplete` | `TypeOK`, `WaitGroupExact`, `NoneSlipsBehind`, `CloseLeavesNothing` |
| | `ProxyLeavesSound` | the cache stays sound when handlers share it |
| | `AuthorityInductive` | the inductive invariant of `AuthorityStore`, for starts that overlap in any way |
| | `ServesWhatIsThere` | `OneAuthority`: whoever serves does so with what is on disk, or was overtaken by a start that read neither file |
| | `CertificateStays` | `TrustedStays`: nobody changes a file beside a certificate but a start that overlapped and had read neither |
| `SessionStoreProofs` | `FileLoads` | `AlwaysLoadable`: whole, and no id twice |
| | `CopiesExplained` | `LeftOnlyByFailure`: after a kill, a loss of power, or a failure to remove it, and never after a save |
| | `LostOnlyToARace` | `KeptUnlessRaced` |
| `BatchProofs` | `NothingUnaccounted` | `Accounted`, with the tries and the counts of the status line |
| | `OneIdentityPerProxy` | `OneClientPerProxy` |
| | `BodiesStay` | `BodiesApart` |
| `EchoServerProofs` | `CapturesUnmixed` | `OneBrowserPerCapture` |
| | `QueueImplemented` | the safety half of `HandsOut`: each step is a step of `CaptureQueue`, or none |
| `ClientProofs` | `SessionComesFirst` | `WarmFirst`: a request leaves with all its session holds for its host |
| | `SessionSeededOnce` | `SeededOnce`: nothing of the session is put back over what came after it |
| | `AnswersInOrder` | `AnsweredInOrder`: each line answered in its turn, whatever fails |
| | `NothingLeavesItsSite` | `NothingAcrossOrigins`, for a profile measured logged out |
| | `WireLooksMeasured` | `WireAsMeasured`: order and values of every hop are those measured on its protocol |
| `MeasureProofs` | `RecorderReadsHello` | `RecorderBlindToSplit`: the hello that was sent and its records, however cut and read |
| | `SavedNameIsWorn` | `SavedIsWorn`: what was saved last is what its names mean, and what is worn without one |
| | `FamilyMeansNewest` | `NewestMeasured`: a family means its newest measured member |

### Assumptions

TLC evaluates each of them for the instances.

- `ProxyAssumption` (finitely many connections, `None` is none of them), `LeafAssumption`
  (room for at least one certificate).
- `WarmAssumption` (a host is under itself, and nothing else is under an address),
  `ClientAssumption` (the lines are of the kinds there are, the measured HTTP/1.1 order
  begins with the host, names nothing twice and names every field measured there but the
  host, all of which `validateHTTP1` demands; headers and orders are lists, the map of
  headers in a line is finite).
- `NodeAssumption`, `PythonAssumption`, `EchoAssumption` (the sets of actors are apart, and
  none of them is `None`; a pipe holds a line).
- `AuthorityAssumption` (there are two files; a start is not mistaken for the absence of a
  file) and `SessionAssumption` (a list of sessions is not mistaken for the absence of one).
- `BatchAssumption` (finitely many workers; the jobs are a list; `None` is no job and no error).
- `RecorderAssumption` (hellos are lists, and no record holds nothing but what follows the
  hello's end; what fits `maxRecordedHello` is no longer than a handshake may be, which is
  twice that: `echo/conn.go:32`, `fingerprint/clienthello.go:52`), `FamiliesAssumption` (there
  are finitely many names to begin with, none of them is `None`, and a number has a value).
- `NamesAssumption`: a name something is saved under is not the path of a file, and no version
  is another's version with its platform. The last is needed: after `--name
  local_linux_macos` the directory `local_linux` stands before `local/linux.json`
  (`lookup`, `profile/registry.go`), as a flat file would.
- `ProfilesAssumption`: what `FromCapture` makes of a measurement loads again. Its
  validations (`profile.go`) demand four pseudo-headers, each once, and an HTTP/1.1 request
  whose first field is the host, which a browser that speaks both protocols sends.

`OneAuthority` and `TrustedStays` have no hypothesis on how starts overlap: the code has no
lock, and what a race may do is a disjunct of the properties themselves (see Findings).

`NothingAcrossOrigins` has `LoggedOut`: a credential the profile sends on HTTP/1.1 is among
its shared headers. A browser that is measured was asked for no login, and
`profile/fromcapture.go:25` drops its cookies; a profile written by hand with an
`authorization` on HTTP/1.1 alone would take it along on redirects, since
`redirectHTTP1Layout` drops what the redirect dropped from the *shared* block.

`WireAsMeasured` has `Impersonal`: the profile holds no credential and no host. `perRequest`
(`profile/fromcapture.go:25`) drops `host` and `cookie` of what was measured, and nobody
was logged in. Without it TLC finds a violation: a profile with an `authorization` of its
own loses it on a redirect to another site and gets it back at the end of the HTTP/1.1
order when a redirect returns to the first one.

### The arguments

**Node client.** A callback runs several private methods, and between them the state is not
one the event loop ever sees: a request was taken from the queue and not written, a process
was dropped and not replaced. `IInv` is therefore in three layers: `Sound` holds after
*every* private method, `Pumped` once `#pump` has run, `Shut` of a closed client; each
method has a lemma over states (`Kill`, `Settle`, `Start`, `Pump` ...), each callback
composes them. `NoCrossedAnswer` rests on `OneOwner`, which speaks of every place a request
or its answer can be (queue, slot, both pipes of every process ever started): an id was
taken from the sequence for one request. So a line that comes late finds the slot
with another id, and one under the id in flight is that request's own: its answer, or a
malformed reply that fails it.
`Waiting` is what the other properties need of queue, slot, timers and outcomes together.

**Python client.** The lock is the argument: `Held` says that the calls past it are one,
and what that call has established since (`~closed`, a process, nothing to stop). `Sinks`
gives each process a queue of its own, and `Ends` makes a sentinel evidence that the process
of that queue has ended; `process # 0 => procs[process].sink = lines` connects the two,
which is why `EndIsItsOwn` holds although old queues still receive lines. `Ids`, `PipesOwn`
and `QueuesOwn` are `OneOwner` again, for pipes and queues.

**Proxy.** `CloseLeavesNothing` is not inductive. That nothing runs when `Close` has returned
rests on the counter being zero, and what a counter of zero means rests on the
counter counting exactly the handlers, which rests on where each handler can be.
`ProxyInv` is therefore two parts that are inductive only together: the structure
(`Tracked`: who is in `conns`; `Handover`: what `Accept` has in hand; `Listener`:
who may still come; `OneCloser`: who runs the body of the Once; `OpenEnds`;
`NoneSlipsBehind`) and the count (`WaitGroupExact`). `NobodyLeft` is the lemma that
connects them. Steps are proved by kind; the lemmas `Count...` carry the count over
the four steps that change it. For the cache, the order must have no repetition for its
head to be the only occurrence, and the map must have as many entries as the order for the
bound tested on one to bound the other (`MapAsLongAsOrder`).

**Authority.** What a start read is stale as soon as another writes. `StillThere` says for each
start what it may still count on (the certificate read, both files read, the key it wrote,
the pair it serves), *or* that it is `Raced`: starts have overlapped and another one read
neither file and is past reading. Only such a start ever writes (`Writers`: whoever fills
a file found nothing), and once it is one it stays one (`RivalStays`), so `Raced` survives
every step of it. A start that overlapped nobody is alone with the files
(`~overlapped => Alone`), and what it found is what is there when it writes. `PairWhole` is
then that a certificate goes over its own key, so dying between the two files leaves
a key alone, never a certificate alone. A loss of power may keep the rename of the
certificate and lose that of the key, which reached the disk no earlier; `OneAuthority`
claims its second half only without one.

**Session file.** `SyncedFirst` (a temporary file is synced before it is closed) makes the
rename safe: nothing on the disk is unsynced, so a loss of power leaves old or new. That no id is
used twice rests on `Add` finding a free one: among `Len + 1` candidates one is free
(`SomeIdFree`, by the pigeonhole principle), so there is a first (`FirstIdFree`, by `LeastNat`:
a set of naturals has a least element). `AllLoadable` covers what is on disk, what is settled
and what each run has read, since each of these can become the next file. A temporary file
that could not be removed stays `left` until the power fails; a run goes on to save only with
none of its own, which is why a copy explains itself by how its run ended.

**Batch.** `Apart` says where the jobs handed out are: each with one worker or in one
record. That all are recorded when the run returns is then a counting argument
(`AllRecorded`): the records number the jobs one to one. `Pooled` has the lock in it: the
worker that builds holds it and the proxy has no client yet, so the second worker cannot
replace the first one's. `FilesApart` is about `BodyFile`: counting the earlier uses of
a URL gives each place in the list a file of its own. `Trying` bounds the tries on the way,
`CountsAgree` is carried by `FewWorkers` (finite sets of workers gain or lose one).

**Echo server.** `OneBrowserPerCapture` is about sessions that were handed out, which can
still be filed into: `PartsOwn` says it of every session, and rests on `TokensOwn` (a browser
knows tokens of its own navigations only, and a token is an index that never moves) through
`FiledOwn` (the session a report was looked up for is of the browser that reports).

**Client, the session.** Neither property is inductive: that a request finds its cookies in the
jar although *another* goroutine took them rests on the lock being held until they are
filed. `IInv` says so: only the holder of `warmMu` is filing
(`HolderFiles`), what is marked as seeded is in the jar or in the holder's hands
(`MarkedIsFiled`), the holder has marked all that belongs to its host (`HolderMarked`),
and the cookies that are host-only for one host are marked together (`MarkedTogether`),
without which one of them could be filed over what the site has put in the place of
another. `SharedEntry` and `OneEntry` are the lemmas on keys this needs; every other
step is quiet (`QuietKeeps`), since it leaves marks, lock and keys alone and removes
nothing from the jar.

**Client, the answers.** `Answering` counts: the replies of a loop are as many as the lines
it took (`Taken`), one less only when the pipe broke and the loop ended, and line `i` has the
answer at `Turn(c, i)`, the number of lines taken up to it. `OneMoreTaken` says that
a line adds one turn, at the end, and moves no other. That only a line for `Do` is answered
`ok` needs to be known where it is answered, hence of every stage (`AtHosts`).

**Client, the hops.** The layout for HTTP/1.1 is not built from what fhttp kept but from the
last one, less what fhttp dropped from the layout for HTTP/2. So `HopApart` says that each
credential of the first is one of the second, for every hop and not only for those that left
the site. For the first hop (`FirstHopApart`) this is a statement about `Merge`, the order
of a request and both layouts, all of them concatenations. What a sequence of sequences is
flattened to is a recursive function, whose value needs induction: `AllNat` is induction
over a *set* of naturals (from `LeastNat`), `StepsExist` shows that there is a
function with the equations of the recursion, and `Flattened` gives its elements. From
it follow `FieldsOfName`, `MergedNames` (`Merge` has the names of both headers and no
other), `OrderedIsSeq`, `HTTP1Names` and `MeasuredNamesOf`.

**Client, the looks.** `WireAsMeasured` relates each hop to the profile, and a hop is built
from the one before: `HopsMeasured` is what every hop hands on. The block is
that of the first request but for credentials and referer, so what a redirect changes is
among these (`Redirected`); the layout for HTTP/1.1 has the measured names in the measured
order, a value for *each* of them, and no value but the caller's or one measured there.
That each measured name has a value is why the names `redirectHTTP1Layout` appends are never
measured ones (`NextHopMeasured`). The first hop is what `Merge` promises: `MergedFields`
(a name has the values of the overriding header, all at one place, or its own) and
`MergeOrder` (of two names of the header merged into, neither is moved before the other).
Both need more of a flattened sequence than its elements: `Amounts` gives the value
`FlattenSeq` has from any function with the equations of the recursion, `LaidAt` the place of
each part. From them follow `FieldsFlattened` and `FieldsJoined` for values,
`PickedInOrder`, `JoinedInOrder` and `DistinctInOrder` for orders, and with these
`LegacyInOrder`, `HTTP1Values` and `MeasuredInOrder`.

**Measurement, the recorder.** The recorder parses a prefix each time a read returns, so the
invariant (`Recording`) is about a prefix: it has the hello, or is waiting for a part of it, or
the hello is over the limit. What the parser makes of a prefix is `ParseIs`: nothing before the
second record is whole (`~Complete` of what the first carries, of which there may be none, one
unit or the length as well), then the hello, with those two records. `FoldLeft`,
`FoldSet` and `FlattenSeq` are recursive functions; `FoldExists` gives, by induction over the
set of sizes for which it holds (`AllNat`), a function with the equations of a fold, and
`EndsAre` and `Handshakes` their values on a stream of three records. That a hello of
up to `MaxRecorded` is never given up is where both limits meet: the read that completes it
may bring what follows as well, so the parser is asked before the limit is.

**Measurement, the names.** `Kept` says where the profile saved last is, and that every directory is the
version of a name something is saved under; by `SplitIs` the full name then names no directory
of its own, so `lookup` takes it apart. A family is a fold over the names, in an order
nobody knows: `Leading` says of the best found so far that it leads all names gone
through, and `OneMoreName` that this survives one more, whichever it is. It holds of finite
sets of names, and `Named` is the invariant that they stay finite. That a command of the
network without a name wears the measurement of this machine is `Nameless`, which says it
from the moment the name is settled: between that and `New` nothing of what stands
behind the name `local` changes but by hand, which the property excepts.

### What stays with TLC

- Liveness, and refinement with fairness: `EventuallySettled`, `EveryCallReturns`,
  `DaemonsEnd`, `CloseReturns`, `HungUpIsForgotten`, `Returns`, `EveryLineSettled`, and
  the fairness half of `HandsOut`. The prover has no rules for `WF` and `ENABLED`.
- What recursion over data of any length computes: `VerdictExact`, which relates lists that were
  filtered, sorted and flattened by a profile to those that were measured, field by field. The
  library's induction theorems take an operator, which none of the provers can instantiate.
  It holds for the instances checked.

## Findings

1. `NoUnhandledError` — `node/index.js:301` removes the `error` listener that
   `index.js:250-254` says must be there.
2. `NothingSavedIsLost` — `cmd/tls-forge/fetch.go:222` reads, appends and replaces
   without a lock; `KeptUnlessRaced` is the weaker promise that holds.
3. `NavigationHeaders` — `echo/h2.go:300` keeps the first request of a connection,
   `setNavigation` accepts a connection that has had others.

Seen while reading or modelling, with no run of their own:

- `proxy/ca.go:108` writes over an authority that appeared since lines 73-74 looked,
  although `ca.go:68-71` says a new one is generated "only when both are missing": of two
  starts over an empty directory, the second replaces the pair the first has written, serves
  with and had its user trust. `TrustedStays` and `OneAuthority` name this as their only exception
  (`overlapped`, and a start that had read neither file); with it taken out of either, TLC
  finds it with two starts and no failure.
- A cookie of the session may be filed over one a site set before, when the site was
  first reached by a redirect, which seeds nothing, and asked only then
  (`client.go:648`; `SeededOnce` speaks of what was filed once).
- The redirect function `New` installs for a profile with HTTP/1.1 replaces the
  transport's own and with it its limit on redirects; the deadline alone ends a loop of
  them (`EveryLineSettled`).
- `Serve` (`daemon/daemon.go:167-196`) answers each line until the input ends, but
  a line beyond the scanner's buffer ends it without an answer.
- The priority on HEADERS is neither in the Akamai digest nor in any field compared
  (`fingerprint/http2.go:40-45`): `Look` leaves it out.
- A browser that is updated between the two navigations of a measurement gives a capture
  of both versions; `of` is a pair for this reason.
- `compare` without a name wears the bundled `chrome` also after an `--install`, while `fetch`,
  `batch`, `proxy` and `daemon` then wear `local`. The repository's `README.md:206-210`
  says so and why, so it is no finding; `SavedIsWorn` speaks of the latter
  (`clientFlags.wear`), `Wear` does the former.
- A flat `local.json` stands before `local/<platform>.json`, so a later `--install`
  is not worn; `SavedIsWorn` excepts it. A file that does not load stands before the shipped
  profile of its name, and within a family counts as one never measured. In the directory
  of the machine a file of another platform wins over a shipped one of this platform.
- `saveSessions` (`cmd/tls-forge/batch.go:518-533`) saves one session per proxy into one
  file. A `.txt` is replaced by each save (`fetch.go:216-224`), so with several proxies only
  the last one's session stays while all are counted as saved. `SessionStore` models the
  JSON file, which is added to.
- `fingerprint/clienthello.go:38-39` name the two application-settings extensions the other
  way round than their registry; both are read, so nothing depends on it.
- The recorder's limit counts record headers and whatever has arrived behind the hello: a
  hello longer than it is recorded or not depending on how it is split.
- A measurement that times out leaves its capture in the queue of an echo server that is
  used again (`measure.go:128`).
- `on_stderr` of the Python client runs with the non-reentrant lock held, so a callback that
  calls the client waits for itself; `_write` has no deadline of its own; bytes a client
  sends right behind its CONNECT, before the 200, are left in the proxy's `bufio.Reader`.

## Not modelled, and why

- Header text, digests, names for numbers, JSON: data, tested against captures. A digest
  is what it digests, so two that differ are told apart; JA3 is compared by nothing.
- The transport, TLS and HTTP/2 libraries: external; a request returns or fails, a
  connection is of one protocol or the other, utls fills a template's GREASE slots and
  shuffles where it is told to.
- The order trust anchors keep within a process (`trustanchors.go`): it is random by
  design and nothing compares it.
- Two commands at once on the directory of the machine: each writes one file in one step
  (`AtomicFile` has the steps), so `Measure` runs one command at a time. Errors of
  reading a profile other than its contents.
- The proxy's tunnelled bytes, the rewriting of headers: data.
- The Netscape cookie file (replaced as a whole by design), the choice of a session
  and expiry; the path and the expiry of cookies in the jar.
- The life of the echo server's connections: the protocol `ProxyServer` proves, with
  two listeners.
- In `NodeClient` a spawn that throws at once (bad arguments) instead of by its `error`
  event. In `PythonClient` the end of a daemon's output is read once the daemon has ended, not
  when it merely closed it.
- `EchoServer` has browsers over HTTP/2 on the main listener; HTTP/1.1 there
  (`serveHTTP1`) answers the same routes, one request a time.
- `Client.Copied` and `SameSite` state what fhttp is relied on for: that it drops credentials
  by comparing each redirect with the *first* host. The code under `src/` neither
  shows nor checks it. The branch that keeps an overridden Host on a relative redirect
  (`client.go:496-501`) is left out; it keeps the host of the site itself.
- HTTP/2 settings are pairs in `Profiles`; `ClientProfile` puts them in a map
  (`profile.go:220-225`), where an id sent twice would collapse. A family number is a natural
  number (`FamiliesAssumption`).
- `Batch.Hand` is the count of a job begun together with handing it over: nothing reads
  the count in between but the status line.
- Browser discovery and starting, flags, wording, reports, shell code, the processor
  limit, platform tables: sequential I/O.

## Plan

Done, in this order: the clients of the daemon, the proxy and its cache with their
proofs, files on disk, the batch runner, the echo server's captures; then the client core
with the daemon's loop and its proofs; then fingerprints, profiles, the registry and
measurements.

Then the theorems of the clients of the daemon, the two stores, the batch runner, the
echo server, and of the answers, the hops and the looks of the client core; last those of the
recorder, of what was saved and of families.

Next, by importance:

1. The life of the echo server's connections over two listeners, as a second use of
   `ProxyServer`'s protocol.
2. The status line with its ticker next to `Batch`; the choice of a session and expiry next
   to `SessionStore`.
