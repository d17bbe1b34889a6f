# Nova Enclave Capsule: TLA+ specifications

Specifications of the parts of Nova Enclave Capsule in which processes, tasks
and failures meet, model-checked with TLC on small instances, and proved with
TLAPS where that is within reach. Every definition is translated from the Rust
code under `src/capsule-cli/src/`; `PROJECT.json` records which lines each one
stands for, which faults of that code each property detects, and the hazards
the properties were chosen for.

## The system

An application is packed into an enclave image together with `capsule-runtime`,
which is PID 1 in the enclave. On the host, `capsule-cli run` prepares the
host-backed directories, starts a container with `capsule-shell` in it and
waits; `capsule-shell` starts the enclave with `nitro-cli`, serves the host side
of the platform services over VSOCK and waits for the exit status. Several such
runs share one EC2 instance and know nothing of one another.

| part | state | operations | what is hard about it |
| --- | --- | --- | --- |
| VSOCK layout (`runtime_vsock.rs`) | none | ports of a CID, CID allocation | both sides derive the same ports; u32 arithmetic; the edge of a block |
| host run (`run.rs`, `capsule-shell`) | rejected CIDs, listeners, enclave identity | reserve, start, wait, clean up | races on CIDs and ports with other shells, two nested retry loops, half-failed commands |
| status port (`console.rs`, `run.rs`) | status, watches, connection | publish, stream, await | reconnects, missed wake-ups, formatter and parser on different sides |
| application log (`console.rs`) | ring, head, cursors | append, read, stream | wrap-around, overwriting, missed wake-ups |
| runtime launch (`main.rs` of the runtime) | started services, child, result | start in order, roll back, stop in reverse, report | a failure after any step, tasks that outlive their owner |
| loopback mounts (`hostfs.rs`, `run_container.rs`) | lock, image, mounts, container | prepare, run, clean up | concurrent runs, crashes between steps, failing umounts, signals |
| file proxy (`hostfs_service.rs`, `fs_mount.rs`) | files in memory and on disk, FUSE calls under way | FUSE calls as requests over VSOCK | calls of several requests that interleave, crashes of the host |
| clock sync (`clock_sync.rs`, `run.rs`) | four timestamps, the clock | exchange, set, retry | arithmetic on timestamps of two clocks, a host that hangs |
| egress (`egress_http.rs`, `policy/`) | connections through two relays | check, dial, copy, close | decisions on names and addresses, half-closed and broken connections |
| Capsule API and Aux API (`capsule_api.rs`, `aux_api.rs`) | nonce cache, authorization cache | one handler per route | eviction, caches shared by concurrent requests, a bounded look at the network |
| KMS client (`nova_kms.rs`) | node list, observations, identities | discover, refresh, fail over | a background task beside the requests, stale entries |
| app wallet (`app_wallet.rs`) | two records in the KMS, a cache | read, initialise | several instances, abandoned initialisations, puts applied late |
| S3 storage (`s3.rs`) | the object and its metadata | put, get, delete, list | settings that change between writing and reading, lost answers |

Correctness, in a sentence each: shells do not disturb one another's enclaves
and ports; what a shell promises the enclave is there when it boots; nothing is
left behind without being reported; the end of the application reaches whoever
waits for it; logs arrive in order; services go down in the reverse of the order
in which they rely on one another; data on a mount survives runs and crashes once
it was acknowledged; the clock of the enclave is as good as the round trip
allows; only admitted destinations are asked for; nonces are taken once, and caches
do not outlive what they were made from for ever.

The modules meet where the parts do. `HostRun` binds the listeners; what is said
on them is `ClockSync`, `HostFs` and `Egress`. `RuntimeLaunch` starts and stops the
enclave's side of the same services, and its result is what `StatusStream` carries
to the shell. `S3Objects` is composed with `Egress`: its requests go through the
tunnel, action by action. `CapsuleApi` takes which KMS node is called from
`KmsNodes`, and how a wallet is found from `AppWallet`, as steps that may succeed,
fail or hang.

## Modules

| module | models | checked by | proofs |
| --- | --- | --- | --- |
| `RuntimeVsock` | `runtime_vsock.rs`, `constants.rs` as operators | through `HostRun` | `HostRunProofs` |
| `HostRun` | `Enclave::run` of any number of shells, extends `RuntimeVsock` | `MCHostRun` | `HostRunProofs` |
| `StatusStream` | `AppStatus` in the enclave and `await_exit` on the host, composed | itself | `VsockServicesProofs` |
| `LogStream` | what the log promises its readers (abstract) | through `ByteLog` | `VsockServicesProofs` |
| `ByteLog` | ring buffer, cursors and stream tasks; implements `LogStream` | itself | `VsockServicesProofs` |
| `RuntimeLaunch` | `launch()`, ingress proxies and Helios tasks, `run()`'s report | `MCRuntimeLaunch` | `RuntimeLaunchProofs` |
| `LoopbackMount` | `prepare_loopback_mounts`, `CapsuleShell` and the run command, any number of processes | `MCLoopbackMount` | `LoopbackMountProofs` |
| `HostFs` | FUSE calls, their requests, the service on the host and its filesystem | `MCHostFs` | `HostFsProofs` |
| `ClockSync` | `sync_once`, the loops around it, and `handle_time_request` | itself | `VsockServicesProofs` |
| `Egress` | the policy's filters, both HTTP proxies and the tunnel | through `S3Objects` | `S3ObjectsProofs` |
| `S3Objects` | the S3 endpoints over the tunnel and the bucket, extends `Egress` | `MCS3Objects` | `S3ObjectsProofs` |
| `CapsuleApi` | every route of the two APIs and of the KMS proxy, with their caches | itself | `CapsuleApiProofs` |
| `KmsNodes` | node discovery, the node caches, failover and the background refresh | `MCKmsNodes` | `KmsProofs` |
| `AppWallet` | `resolve_app_wallet_material` of several instances on two records | `MCAppWallet` | `KmsProofs` |

Operators whose comment begins with "Fault:" are not part of the specifications.
They are what the definition after them would be with a plausible mistake in it,
and each property of a passing run is known to fail with one of them put in its
place (`mutants` in `PROJECT.json`).

### HostRun

One process per shell, with the program counter `pc` at the places where the
code awaits something or calls out. `rejected` and `unavailable` are the two sets
of CIDs the retry loops carry, `listeners` the bound ports, `vm` the table of
enclaves that Nitro keeps. The loop head, `prepare_host_runtime`, each service
start, `run-enclave`, the setup after it, the wait, and the cleanup (terminate,
then abort one task after the other) are actions. A bind of a port somebody
holds gives `AddrInUse`; any service may also fail to start for other reasons. A failing
`nitro-cli` may or may not have had its effect. Shells may be cancelled or
killed, enclaves may die, another tool may start enclaves under managed CIDs and
unrelated processes may hold ports. `describe-enclaves` is one atomic read, stale
by the time it is used.

### StatusStream

`server`, `status` and `stream` are the runtime's side, `host`, `failed` and
`result` the shell's, `open` and `wire` the connection between them. A status
line is a record of what matters about it: its tag, the type of its payload and
whether it fits into the line buffer. `AsJson` and `Parses` are the two
conversions as they are in the code. Only the stream task of the current
connection is kept; older tasks never end, but nobody reads what they write.

### ByteLog and LogStream

Bytes are numbered, so that a ring slot holds the number of its byte; the ring
has one slot more than its capacity, as the library's has. `Read` is one locked
read, `Write` the unlocked send, and the writer may run between any two of them.
`LogStream` has two counters and a cursor per reader: readers move forward, over
bytes that are in the log, and may jump only to the oldest byte.

### RuntimeLaunch

`owned` is `StartedServices`, `running` and `mounted` are what really is up: the
difference matters when a start fails half way. `signal` is the watch channel of
the ingress proxies, `proxy` and `conns` the tasks and their connections.
Clients of the ingress connect and hang up as they like, or never do. `Config` is the
manifest, under the constraints that manifest validation enforces. That the service tasks die by themselves is not modelled.

### LoopbackMount

The processes share the directories: `lock`, `image`, `size`, `files` and `mnt`.
`prepared` holds the mounts a process knows of, `container` and `known` the
container and whether its id was recorded, `stream` whether its log is still
followed. An image holds a number of files. A killed process loses its locks,
and its mounts and its container stay. Umounts may fail. A mount is the one on the
host: that the container sees it through its own mount namespace is left out.

### HostFs

`th` holds the FUSE call of every thread as the list of requests it still has to
make, each over a connection of its own; the first that fails ends the call. The
session thread changes names, the worker threads read, write and synchronise. A
request that changes content first changes the page cache (`dir`, `data`), then
synchronises and answers; the host writes back (`ddir`, `ddata`) whenever it likes,
and a crash leaves what is on disk. Two variables are history: `acked` is what the last
answer told the application of a file's content, that is what its request carried,
and `writer` whose request changed the file last. A synchronisation may fail, with an
error, and so may `set_len`; a write that fails has no error of its own, since tokio's
`write_all` only hands the bytes on and `sync_data` keeps what became of them for the
next operation on the file, and the files this has happened to are in `refused`. Offsets and lengths are abstracted: a write
replaces a content by another.

### ClockSync

The host's clock counts from the connection, the enclave's is that plus `skew`.
Time passes between any two steps, so that request, answer, the host's work and
the delay before `clock_settime` take any time. Timestamps are pairs of seconds
and nanoseconds, converted as in the code, and the division rounds towards zero.
Connecting and waiting end with their timeout.

### Egress and S3Objects

A tunnel is what a CONNECT request makes: three connections (client to enclave
proxy, VSOCK, host proxy to server), of which any may break. A direction is the number
of chunks each of four parties has put through (sender, two relays, receiver) and the
set of those that have closed it. The enclave's proxy checks the policy, the host's
finds an address and dials: `host` is its own loopback, any other name is left to the
resolver (`Dns`). Each proxy copies until both directions have ended or one of its own
connections fails, and then closes both of them; the other one learns of that by the end
of the stream, or when it writes, and may go on reading from its own end until then.
Domain names are sequences of labels; `PatternMatches` is the code's match from the
right, and `NameFits`, which `AllowedOnly` is stated with, reads a pattern from the left.

In `S3Objects` the connections belong either to the S3 client or to a program that
uses them as it likes (`user`). An object is its value, the key and additional
data it was encrypted with, and its metadata; a restart may change the settings
and loses requests and connections. The HTTP client keeps connections and uses one
again that it has not seen end. The bucket does what it is asked, or answers with an
error having done it or not; a request that gets an error, or no answer, fails or is
sent again by the SDK. There is no timeout.

### CapsuleApi

A connection is the list of steps its handler still has to take. Steps of the KMS
handlers that need others (sign, encrypt, call, decrypt, register a nonce) put
them in their place. `order` and `seen` are the two halves of `NonceReplayCache`,
`authz` what is left of the authorization cache's TTL, `active` whether the
registry has the instance as active. `recent` is a history variable: the last
nonces that were taken. A nonce belongs to the bytes of a public key as they were sent
(`ClientDers`, `NodeDer`), since that is what the fingerprint is made of. A remote step may succeed, fail, or never return.

### KmsNodes

`discovery` is the node list with what was last observed of each node, `identity`
what the nodes have said of themselves; both expire. A request (`call`) takes candidates, asks
the registry under the lock when the list has expired, and goes through the
candidates `MaxRetries` times. `task` is the background refresh, which works on a
list of its own and merges it in. Nodes are replaced, go down and leave the
registry (`faults`).

### AppWallet

A request reads two records, and with neither there generates a wallet, writes
both, one after the other, and reads them back. It may be abandoned at any point.
A put that was sent may be applied at any later time (`late`), and a read may miss a
record that is there (`KvGet`), since `kv_get` takes one node's 404 for the truth when no
other answers. `missed` and `blind` are history: who was told so, and whether one of them
has generated a wallet. `overlap` is chosen
at the start: whether requests may be issued while others run. A wallet stands for
the private key and the address that follows from it.

## Runs

| run | states | result | shows |
| --- | --- | --- | --- |
| `HostRun` | 323,858 | pass | services are up before the enclave boots (`ServicesReadyBeforeBoot`), shells with reservations on one CID share no service (`ReservationExclusive`), no listener leaves the block of the CID in hand (`ListenersInBlock`), leaks are reported (`LeakIsReported`), cleanup terminates only its own enclave (`TerminatesOnlyOwn`), cancellation is honoured (`CancelReturns`) |
| `StatusStream` | 5,721 | pass | no update is missed (`NoMissedUpdate`), results are the ones published (`ResultIsStatus`), a readable end and the death of the enclave end the wait (`WaitEnds`) |
| `StatusStreamUnread` | | violation | a death by signal, and error texts that are long or need escaping, are never reported (`EndIsReported`) |
| `ByteLog` | 151,420 | pass | the ring holds the last bytes (`RingHoldsTail`), streams are in order and skip only what was overwritten (`StreamIsFaithful`), readers catch up (`CatchesUp`), `LogStream` is implemented (`Promise`) |
| `RuntimeLaunch` | 1,974 | pass | services outlive what relies on them (`ServicesBehindIngress`), the application starts with everything in place (`AppStartsComplete`), the result is published after the shutdown (`ReportedAfterShutdown`), and in the end unless a client never hangs up (`ExitIsReported`) |
| `Loopback` | 71,608 | pass | images in use are locked (`MountedUnderLock`), running containers have their mounts (`ContainerHasMounts`), sizes are enforced (`QuotaHolds`), nothing is left silently (`ExitsClean`), files survive (`FilesPreserved`), a signal ends the run (`SignalEnds`) |
| `HostFs` | 1,945,624 | pass | acknowledged content is on disk unless the host refused the write (`AckedContentOnDisk`), a create changes no file but its own (`CreateLosesNothing`) |
| `ClockSync` | 34,396 | pass | the clock is set within half the measured round trip (`ErrorWithinHalfRtt`), an attempt is always followed by another (`KeepsSyncing`) |
| `S3Objects` | 276,104 | pass | only admitted destinations are asked for, and addresses that are not admitted only reached under a name (`AllowedOnly`), a closed half is delivered whole (`Delivered`), a proxy lets go of what has broken or ended (`Released`), a request does not hang on a broken tunnel (`RequestsSettle`), objects stay readable under other settings (`StoredStaysReadable`) |
| `CapsuleApi` | 206,238 | pass | no nonce among the last ones is taken twice with the same bytes for a key (`NonceUsedOnce`), a suspended instance's KMS operations stop (`RevocationBinds`), attestation is answered whatever the KMS does (`AttestationAnswered`) |
| `KmsNodes` | 388,638 | pass | a stored list never loses a newer observation (`NewestObservationKept`), calls stop failing once the environment is in order (`Recovers`), retired nodes are forgotten (`RetiredNodesAgeOut`) |
| `AppWallet` | 102,160 | pass | requests in turn hand out one wallet (`OneWalletInTurn`) and nobody starts to initialise over existing records (`NoLateInitialiser`), unless a read missed a record that was there |

Each state machine has a type invariant, `TypeOK` or the same with a prefix
(`StatusTypeOK`, `ClockTypeOK`, `LogTypeOK`, `KmsTypeOK`, in the modules whose proofs
share a module). It holds on every instance above but is not among the runs'
properties, which are kept for what could be wrong in the code. It is proved as a theorem
for `HostRun`, `RuntimeLaunch`, `ClockSync`, `ByteLog` and `KmsNodes`, and is part of the
inductive invariant for `StatusStream`, `LoopbackMount` and `AppWallet`.
`StatusStreamUnread` checks a sentence of
the documentation that the code does not live up to; `findings` in `PROJECT.json`
quotes it. It stops at one counterexample, and which end of the application it
shows is TLC's choice. With `LaunchResults` reduced to `signaled`, `fatalQuoted` or
`fatalLong` alone it fails for each of them; with `exited` or `fatal` it holds.

### Where code and documents part

Other limits of the code are built into the properties as exceptions or
assumptions, each named in the comment of the property or in `hazards`:

- A shell without host services reserves nothing: it can be handed the CID of an
  enclave that has died while another shell still waits on it
  (`run.rs:264`; docs/vsock_runtime.md:166 promises distinct CIDs).
- An ingress client that never hangs up holds up the report of the exit status
  (`proxy/ingress.rs:51`; README.md:14). `ExitIsReported` assumes nothing of the clients
  and names that as the one alternative to the report.
- Ingress proxies that were bound before the bind of a later port failed go on
  serving (`ServicesBehindIngress` and `ReportedAfterShutdown` except them). The launch
  error reaches the host all the same (`ExitIsReported`).
- While Docker refuses to stop a container, the cleanup waits for its log
  (`run_container.rs:251`). `SignalEnds` excepts the runs in which stopping failed.
- When a umount fails, the removal of the mount point that follows deletes the
  files on the image (`hostfs.rs:64`; docs/host_backed_mounts.md:96).
  `FilesPreserved` excepts it.
- After a kill, an image is mounted a second time (`hostfs.rs:245`;
  docs/host_backed_mounts.md:85). The other properties hold in those states.
- An image whose formatting was cut short is taken for usable by later runs, whose
  mount then fails.
- A write that the host has no room for, or cannot carry out, is answered as done
  (`hostfs_service.rs:270`; docs/host_backed_mounts.md:116 says that writes to a full
  image "fail with `ENOSPC`"). `AckedContentOnDisk` excepts the files it happened to.
- Overlapping initialisations may leave instances with different wallets
  (`app_wallet.rs:67`; docs/capsule-runtime.md:216). `OneWalletInTurn` is about
  requests in turn. A read that misses both records although they are there makes a
  request write a new wallet over the stored one (`nova_kms.rs:423`); both properties
  of `AppWallet` except it.
- A pair of key and nonce is accepted again after 4096 others (`capsule_api.rs:56`;
  docs/encryption.md:87). `NonceUsedOnce` is about the last `Capacity` ones.
- A public key has more than one DER encoding that is accepted, and the replay cache
  tells them apart, while docs/encryption.md:52 and docs/capsule-api.md:201 speak of the
  same client public key. `NonceUsedOnce` is about each encoding.
- A destination is judged as it is written. docs/capsule.yaml:83 says that domain
  patterns "DO NOT match IP addresses"; but `host` is the host's loopback address, and a
  number that the policy does not read as an address passes as a domain name and is
  connected to as an address (`egress_http.rs:209`). `AllowedOnly` says what holds: an
  address that the networks do not admit is reached only under an admitted name.

### Bounds

- `HostRun`: two shells and the two CIDs 16 and 17. Every race on a CID or port is
  between two parties, and the third one that matters is there as another tool
  (`ForeignCids`) and an unrelated process on a clock sync port (`ForeignPorts`).
  Two CIDs let a retry find a free one or none. Both retry limits are 2, so that
  the first attempt, the last one and running out differ. The shells have only
  clock sync in common, since shells that share another service never hold
  reservations on one CID. The layout is scaled down to blocks of four ports with room
  for two mounts (in the code 128 and 112), so that the second mount of a shell has the
  last port of its block and the next one would be the neighbour's. `U32Max` is 2^31 - 1, the
  largest integer TLC has, the managed range ends far below it, and the proofs
  are for any value.
- `StatusStream`: four attempts and three broken connections, so that the budget
  may be used up before, between and after reconnections.
- `ByteLog`: two readers, four bytes of capacity, chunks and reads of up to three
  bytes and eight bytes in all: the ring of five slots wraps around, overwrites,
  and splits reads in two slices. A chunk fits into the ring, as in the code.
- `RuntimeLaunch`: a manifest with every service, a required and an optional mount,
  two Helios chains and two ingress ports with up to two connections each. The
  proofs are for every manifest.
- `Loopback`: two processes that take two directories in opposite order and
  disagree on one size, with images of both sizes from earlier runs (`EarlierMb`).
  One written file (`MaxWrites`) tells a lost one from a kept one.
- `HostFs`: two names, two inodes and one block, the session thread and one worker:
  a rename needs two names, a replaced file two inodes. Names and inodes are
  symmetric. The proofs are for any number of all of them.
- `ClockSync`: a second of two nanoseconds, so that both fields of a timestamp
  carry; attempts of up to four units with timeouts of two, drift of up to three
  either way: offsets of both signs, odd and even. The proof has no bounds.
- `S3Objects`: one connection, used for up to two calls (`MaxCalls`), one request at a
  time and three settings (two key versions with different additional data, and
  plaintext). A program and its server send up to one chunk each (`MaxChunks`). The tunnel
  of the S3 client breaks in one place at a time (`BreakBound`), a program's in any
  number. The resolver gives every name an address that the manifest denies.
  Destinations and patterns have a name that is matched by each kind of wildcard,
  by none, in other case, and denied, and addresses of both kinds.
- `CapsuleApi`: two connections, one encoding of a client's key and the node's, two nonces and a
  capacity of two for four pairs: the cache evicts. The authorization TTL is two
  ticks.
- `KmsNodes`: two URLs, of which the last may not be listed at first, one request
  beside the background task, two rounds, TTLs of one and two ticks and one fault:
  every cache can expire before, after and while the other is used.
- `AppWallet`: two instances with a request each and two wallets, enough for two
  to meet in the records. The proofs are for any number.

Deadlock checking is on for `AppWallet` and `KmsNodes`, which can always go on. It is
off for the others because they may stop: runs return, services are stopped or
fail to start, and bounds are used up.

### Fairness

Weak fairness only, of what a process or task does by itself: the executors run
ready tasks, and the commands and requests they issue return. Nothing is assumed
of applications (they need not exit), users (they need not cancel), enclaves
(they need not die), Helios chains (they need not settle), or of choices: a start
may fail for ever.

- `ClockSync`: the enclave's task and time; nothing of the host, which may hang.
- `CapsuleApi`: local steps, timers and ticks; nothing of the registry or the KMS.
- `KmsNodes`: the steps of requests, the refresh and time. All calls there have
  timeouts, so that they return.
- `S3Objects`: the proxies' tasks, ends that read what reaches them, and an S3 client
  that acts on it; nobody has to send, to answer or to close.
- `RuntimeLaunch`: the runtime's tasks; nothing of the ingress clients.

Two assumptions go beyond that. A host that is connected to the log takes the
bytes or hangs up (`ByteLog`). The log of a container that does not run ends (`Loopback`).
`HostFs` and `AppWallet` have no liveness properties and assume none.

## Proofs

`HostRunProofs` proves for any number of shells, any manifests, any layout that
satisfies `LayoutAssumption` and any retry limits (`HostRunAssumption`): `TypeCorrect`,
`ListenersStayInBlock`, `ServicesReady`, `ReservationsExclude`,
`LeaksAreReported`, `RunReturnsClean` and the action property
`CleanupIsSelective`; `ManagedRangeFits` states that port derivation never fails
on a managed CID.

- The type invariant needs `CidChosen` beside it: a shell that is past the
  selection works with a managed CID.
- `ReservationInv` is the argument for the ports: at every point between
  selection and cleanup, the services started so far have their ports (clock sync
  excepted on the last attempt), every listener lies in the block of the CID in
  hand, and no port has two listeners. Being in the block, being complete at boot and excluding other
  reservations follow, the last one because ports determine their CID and
  offset (`PortInjective`).
- `OwnershipInv` is the argument for the cleanup: while an enclave of a shell
  runs, the shell either knows its identity or is bound to return an error
  (`Accounted`), and consoles and ingress proxies exist only between the start of
  the enclave and their place in the cleanup (`TornDown`).

`VsockServicesProofs` has the proofs of the three services that cross the VSOCK
between the runtime and the shell.

- Status: `UpdatesAreSeen` and `ResultsAreTrue`, for any set of results, retry limit
  and number of broken connections (`StatusAssumption`). `StatusInv` adds to the types
  what is on its way: a line on the wire carries the status "running" or the present
  one, and a task that has no change to look at has read the present one. That is
  enough because a final status does not change again.
- Clock sync: `ClockTypeCorrect` and `ClockErrorBounded`, for any length of a second,
  delays, skews and timeouts (`ClockAssumption`). `ClockInv` puts the four timestamps
  and the last reading of the clock in order on the host's clock, none in the future;
  from that the bound is arithmetic.
- Log: `LogTypeCorrect`, `RingAlwaysHoldsTail`, `StreamAlwaysFaithful`,
  `NeverMissesBytes` and `LogKeepsPromise`, for any number of readers and any sizes of
  the ring, of chunks and of reads, as long as a chunk fits into the ring
  (`ByteLogAssumption`). Positions in the ring are remainders; `Wrapped` and the lemmas
  after it reduce them to one subtraction, so that an append shifts what the slots
  hold and a read, in one slice or two, copies consecutive bytes (`IsRun`). `LogInv` adds to
  the ring that what a reader was sent, together with what it has read and not yet
  sent, is in order and lacks only bytes that were overwritten before its cursor came
  to them (`Faithful`), and that a reader which may sleep without a pending change has
  everything. `LogKeepsPromise` is the refinement of `LogStream`: the initial state maps to
  an initial state, an append to `Produce`, a read that finds bytes to a `Take`, from
  where the reader stopped or from the oldest byte, and everything else to a stutter.

`LoopbackMountProofs` proves `MountedUnderLockHolds`, `QuotaHoldsAlways`,
`ContainerHasMountsAlways`, `ExitsCleanAlways` and the action property
`FilesPreservedAlways` for any number of processes, directories and requests, in any
order and with any sizes (`LoopbackAssumption`). The invariant says of every process, at
every point of its run, how far it is with its requests (`Control`), which locks it
holds (`Locks`), what it has mounted (`Mounts`), that the images under its locks are as
its manifest wants them (`Sizes`), and when its container may run (`Docker`); `Disk` says
what is true of images whoever made them. None of the properties is inductive alone:
that a container has its mounts depends on the order in which the cleanup goes, and
the sizes on the lock having been held since the image was checked. What another
process does concerns a process only through the locks (`Bystander`), so every step
is looked at for the process that takes it alone.

`KmsProofs` has the proofs of the two modules about the KMS.

- App wallet: `OneWalletIsHandedOut` and `InitialisersStop`, for any number of
  instances, requests and wallets (`WalletAssumption`). A wallet is handed out only if
  its address was written, so the argument follows the wallets whose address is
  written, on its way or about to be (`Addressed`): at most one, and none while a
  request that rightly found no private key may still generate one (`InTurn`). Both
  theorems except requests that were told a record is missing which is there.
- KMS nodes: `KmsTypeCorrect`, which includes that one request at a time discovers,
  the one that holds `discovery_refresh_lock`, and the action property `NewestIsKept`,
  for any URLs, requests, faults and TTLs (`KmsAssumption`). `KmsInv` says of every node
  list, stored or in the hands of the refresh task, that it is over known URLs and
  that the age of an observation and what is left of its TTL stay together within
  the longest TTL (`Dated`), which no merge and no tick of the clock disturbs.

`CapsuleApiProofs` proves `NoncesAreFresh` for any capacity, encodings of keys and number of
connections (`ApiAssumption`): the queue, the set and the history of the nonces never
part (`CacheOK`), although the steps of the handlers interleave.

`RuntimeLaunchProofs` proves `TypeCorrect`, `IngressFrontsServices`, `AppFindsAll` and
`ShutdownBeforeReport` for every manifest that satisfies the cross constraints
(`LaunchAssumption`). While `launch()` goes forward, the program counter tells which
services are handed over and which run; in the shutdown what runs is owned by a
service yet to be stopped; afterwards nothing is left (`Staged`). Mounts, chains and
proxies have a conjunct each, since they come and go by themselves.

`HostFsProofs` proves `AcknowledgedIsDurable` and `CreateIsHarmless` for any number of
names, files and worker threads (`HostFsAssumption`). Acknowledged content is on disk
because it is also what the page cache holds, refused writes apart, and no inode in
use is given to a new file (`Kept`); a request about to be answered finds in the file
what it has put there, unless another has changed it since (`Stands`). A create is alone in changing names, since only the session
thread does; its name stays free until it makes the file, and then stands for it
(`Creates`).

`S3ObjectsProofs` proves `OnlyAllowedIsDialled` and `ObjectsStayReadable` for any number
of connections, requests and chunks, any policy, destinations and resolver
(`EgressAssumption`: a pattern is a network or a name, and names are sequences of labels)
and any settings (`S3Assumption`). What the host is asked for has passed
`is_host_allowed`, and an address is connected to only as one of its destination's
(`Tunnel`); metadata fit the bytes they come with, in the bucket and on the way
(`Stored`).

`OnlyAllowedIsDialled` also needs that the recursive match from the right finds a match
exactly when the name fits the pattern, for every pattern and name (`PatternMeaning`).
The library's induction theorems cannot be used for that. The proof states in closed
form what the recursion computes (`Reaches`), shows that the closed form satisfies the
recursive equation, which gives the function that the definition chooses, and that any
function that satisfies it agrees with the closed form: of the labels at which the two
differed there would be a first one (`LeastNumber`, from the well-foundedness of the
natural numbers).

The inductive invariants of `RuntimeLaunchProofs`, `HostFsProofs`, `S3ObjectsProofs` and
`LoopbackMountProofs`, and `LogInv` and `KmsInv`, were checked with TLC on small instances
before they were relied on; `KmsInv` also with two requests at a time, which is more
than the run has (8,779,757 states).

Only model-checked: the liveness properties (`CancelReturns`, `WaitEnds`, `CatchesUp`,
`ExitIsReported`, `SignalEnds`, `KeepsSyncing`, `Recovers`, `RetiredNodesAgeOut`,
`RevocationBinds`, `AttestationAnswered`, `Delivered`, `Released`, `RequestsSettle`), since the prover does not
do fairness, and `EndIsReported`, which fails. Every safety property and action property
that a run checks is proved.

## Not modelled

- The image build (`build.rs`, `images.rs`, `nitro_cli_container.rs`) is a sequential
  pipeline of external commands in a fresh directory.
- What the cryptographic primitives compute (keys, signatures, attestation
  documents) is data: the steps that use them succeed or fail.
- Parsing of manifests, command lines, requests and registry answers is pure.
  Loading the configuration in `capsule-runtime` comes before anything is served
  and ends the process when it fails. Matching `--mount` options with the manifest
  is a function of its arguments.
- The ingress proxy on the host (`HostProxy`) has no shutdown and copies bytes as in
  `Egress`.
- A plain HTTP request through the egress proxy (`handle_request`) is checked and dialled
  as in `Egress`, and then passed from hyper's server to a hyper client of its own, which
  end the connections by the rules of HTTP. Nothing is modelled of that, and `Delivered`
  and `Released` say nothing of it.
- The shell's log connection prints what it gets and retries; nothing depends on it.
- Offsets within files, symlinks and subdirectories of a mount.
- The KMS refresh and the connections of the file proxy are detached tasks: nobody
  stops them before the enclave or the shell ends, and nothing is modelled of the
  time between.

`PROJECT.json` lists every component with its status.
