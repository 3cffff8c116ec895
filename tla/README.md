# TLA+ models of tamago-uefi

tamago-uefi is a UEFI application written in Go for bare metal (TamaGo). It brings
up its own network stack, pulls kernels and disk images from an OCI registry, checks
their signatures, shows a boot menu and starts a kernel or a BSD loader through
firmware calls. To do that it also publishes firmware protocols of its own (a block
device, a file system, a random number generator) and keeps a log on a scratch disk.

This directory holds models of the parts with state that is hard to test, the TLC
configurations that check them and TLAPS proofs of the central results.
`PROJECT.json` lists the components, the runs, the lines each definition translates,
the hazards and the theorems.

## The system: parts, state, operations, hard behaviours

| Part (source) | State | Operations | What is hard |
|---|---|---|---|
| TCP connection (`ministack/tcp4.go`) | TCB: state, snd.una, snd.nxt, rcv.nxt, rxQueue, reassembly table | deliverSegment, dial, Read, Write, Close | loss, duplication and reordering; sequence wrap; full table; Close during Write |
| TCP ports (`tcp4.go`) | tcp4Conns, port rover | alloc, register, release | choice and registration are separate critical sections |
| Dial retries, TLS (`dial_retry.go`, `tls.go`) | two nested loops | DialTLSWithRetry, DialTCP4WithRetry | every stage of every attempt may fail; cleanup; budget |
| Receive loops, ARP, ping (`stack.go`, `arp.go`) | ARP cache, ping waiters, stop channel | rxLoop, inline pumps, PingOnce, Start, Close | two receivers share one link |
| UDP sockets (`udp4.go`) | udp4Conns, bounded channel | OpenUDP4, deliver, ReadFrom, Close | a dispatcher works outside the lock |
| DNS (`dns.go`) | port and id of a query; offset, pointer chain, labels | ResolveA, buildDNSQuery, parseDNSAnswerForA | concurrent callers, late replies; pointers that cross or go in a circle |
| DHCP (`dhcp4.go`, `phase2_dhcp4_acquire.go`) | lease, route table | DHCP4Acquire and the probe | several servers, replies of an earlier call |
| HTTP readers (`http.go`, `orasoci/transport.go`) | line buffer, framing, counters | readLine, the body framings, redirects | cuts at any byte; short writes; caps |
| HTTP connections (same) | connection, deadline, pipe, goroutine | HTTPGet, RoundTrip | a goroutine, its reader and a context end in any order |
| OCI client (`oci/*.go`) | token, artifact, destination | Authenticate, FetchArtifact, FetchBlob* | a chain of digests; redirects; partial transfers |
| Cosign (`oci/cosign.go`) | collected signatures, errors | Verify | some layers fail, one is good |
| Print sink (`blkprintk*.go`) | ring, frame, disk blocks | printk, Flush, setup, teardown | stop between two blocks; failing flush; exactly full ring |
| Block I/O publisher (`block_io_publish*.go`) | four slots, firmware interfaces | Publish, Unpublish, ReadBlocks | firmware calls back during install and uninstall; 64-bit wrap |
| File system publisher (`sfs_publish*.go`) | volumes, 32 open files | Publish, Unpublish, Open, Read, Close, ... | one shared root handle; tables at their limit |
| Kernel boot (`phase2_oci_kernel_boot.go`, ...) | image, options, device handle, RNG interfaces | the stages of modes A, B, C | a firmware call fails after others took effect |
| Boot menu (`phase2_dhcp_oci_menu.go`, `bootmenu/`) | cursor, clock, key queue | render, poll, dispatch | keys racing the countdown; overflow |
| BSD disk boot (`phase2_oci_*bsd_boot.go`, `sfs_filter.go`) | published disk, volumes, loader | three probes | a disk left behind by an earlier probe |
| RNG publisher (`rng_protocol*.go`) | four slots, the firmware's handles | PublishRNG, UnpublishRNG, UninstallAllRNG, GetRNG, GetInfo | interfaces taken away behind the table; consumers that keep a pointer |
| Network probes (`phase2_dispatch.go`, `phase2_*_get.go`, ...) | one device, a Stack per probe | the stages of eight probes | a late reply meets the next probe, which has the same identifiers |
| Transmit probe (`phase2_virtionet_tx.go`) | two handles, descriptors | transmit, doorbell sweep, receive | completions after a time-out |
| Memory map (`memorymap*.go`, `phase2_probe.go`) | buffer size, attempt | GetMemoryMap, the totals | the map grows between two calls |
| Measured boot (`tcg2*.go`, `phase2_tpm_*.go`) | PCRs, event log | measure, read back, replay | a log that fills up; where it ends |
| PCI walks, DOOM (`phase2_pcienum.go`, ...) | devices and who drives them | enumerate, detach, open | two devices of a kind; a driver that stays bound |
| Self-extracting stub (`cmd/efipackstub`) | file, pages, image | run | sizes from the file, word arithmetic; cleanup |
| Kernel publisher (`cmd/cloudboot-oci-extract`) | registry, two legs | main, pushOCI | a job killed anywhere, overlapping jobs |

What each part has to get right, in one line each: a TCP reader gets the peer's bytes
in order and all of them; nobody loses a port, slot, connection or open file; every
call returns; success of a transfer means the whole, digest-checked content; what
starts is what was chosen and is fully configured; the log that was flushed can be
recovered; the firmware is always served from the right image; a verdict that a probe
prints is its own; a tag in the registry can be pulled whole at any moment.

The parts interact like this. Application calls (dial, resolve, ping) run inline
receive pumps and share the link with `rxLoop`; both dispatch into the TCB, socket
and waiter tables under separate locks. TLS dials drive the TCP port table. HTTP runs
over a dialled connection; the OCI client runs over HTTP; Cosign runs over the OCI
client. The menu chooses an entry and runs the kernel boot. The BSD probes publish
the pulled image as a block device, which the firmware reads back while it looks for
volumes and while the loader runs.

## Modules

Component modules hold state, actions, specification and properties. An `MC` module
and its `.cfg` instantiate one for TLC (`Dhcp4` and `HttpConn` need only a `.cfg`); the
`*Proofs` modules extend components and hold their theorems. A definition whose comment starts with "Mutant" is a plausible
slip of the definition that follows it. `PROJECT.json` names the property that has to
fail when it is put in its place; nothing else uses it.

| Module | Models | Composition |
|---|---|---|
| `Tcp4Conn` | one connection: rxLoop, dialer, reader, writer, closer, network and peer; 32-bit sequence arithmetic (seqLT, seqGT, addition with wrap) | implements `ByteStream` |
| `ByteStream` | abstract: what a connection promises to its reader | instantiated by `Tcp4Conn` |
| `Tcp4Ports` | tcp4Conns, the rover, register, lookup, release, several closes of one connection | |
| `DialRetry` | the two retry loops, handshake, stack closed meanwhile | extends `Tcp4Ports` |
| `RxPump` | Start, Close, rxLoop, resolveARP, PingOnce, handleICMP | |
| `Udp4` | sockets and the steps of deliver, ReadFrom and Close | |
| `Dns` | ResolveA with several callers | extends `Udp4` |
| `DnsMessage` | the text of queries and replies: records, names, pointers | |
| `Dhcp4` | the DHCP exchange, servers, the probe that applies the lease | |
| `HttpStream` | lineReader and the streaming body readers of both clients, over responses made of small symbols | |
| `HttpGet` | the buffered reader and parser | extends `HttpStream` |
| `HttpConn` | the life of a connection, the goroutine, pipe, context, deadlines | |
| `OciFetch` | authentication, manifest walk, blobs in three modes, redirects | |
| `Cosign` | Verify over both tags and all layer formats | extends `OciFetch` |
| `BlkPrintk` | ring, frame, block writes, setup and teardown, restarts, recovery | |
| `BlockIO` | publisher, registry, read handler with word arithmetic | |
| `DiskBoot` | three BSD probes, volumes, device-path filter | extends `BlockIO` |
| `Sfs` | volumes, open files, all handlers | |
| `KernelBoot` | stages of every boot flow | |
| `BootMenu` | configuration, menu loop, clock, keyboard | extends `KernelBoot` |
| `Rng` | the RNG publisher over the firmware's handle database | |
| `NetProbes` | the dispatcher and any choice of the network probes | |
| `VirtioTx` | the transmit probe, its queues and the device | |
| `MemMap` | GetMemoryMap, parseMemoryMap, the M0 probe | |
| `Tpm` | measuring, read-back, the firmware's log and the replay | |
| `PciProbes` | PCI and SNP enumeration, the DOOM demo | |
| `PackStub` | the self-extracting stub | |
| `OciPush` | the kernel publisher and two registries | |

`MCProbes` checks `BlkPrintk` and the modules from `NetProbes` to `OciPush`, one at a
time, as a build tag chooses one of them; `MCSfs` does the same with `Sfs` and `Rng`, and
`MCDns` with `Dns` and `DnsMessage`.

### How state and actions correspond to the code

A critical section of the Go code (between taking and releasing a lock, or a single
channel operation) is one action, so two goroutines interleave exactly where the code
lets them. State that lives in a local variable across an unlock is a variable of the
model (`rx`, `wr`, `dp`, `cl`, `held`). A firmware call that may call back is split in
two around the callback: `op` in `BlockIO` and `Sfs` records the publish or unpublish
under way, and the firmware's own calls are enabled in between.

- `Tcp4Conn`: `Deliver` is deliverSegment up to the drain; `DrainStep` and `DrainDone`
  are the loop of drainReassemblyLocked, which runs under the lock, so no other
  action of the connection is enabled meanwhile (`rx.busy`). The network hands over
  any segment the peer may have sent, in any order and any number of times; the peer
  cuts its stream at arbitrary places. `got`, `sent`, `ackOut` are histories.
- `Tcp4Ports`/`DialRetry`: the connection n of a run is the n-th that is dialled.
  `Alloc`, `Register`, `CloseBegin`, `ConnCloseMark`, `CloseRelease` are the critical
  sections. Errors are reduced to the classes isRetryableDialError tells apart.
- `RxPump`: a process is rxLoop or a pinging goroutine; `link` holds frames that only
  one receiver gets. resolveARP and PingOnce receive in their own loops.
- `Udp4`/`Dns`: deliver's check, send, drop and second send are four actions. A send
  on a closed channel sets `panic`, after which the machine does nothing.
- `DnsMessage`: a byte is a small number, 9 the first byte of a pointer; a step is a turn of
  one of the loops. The counts stand for the header, so that a pointer may lead there.
- `Dhcp4`: `net` holds every message ever sent, so messages are lost, late, repeated
  and reordered. The transaction id is a function of the MAC, hence constant.
- `HttpStream`/`HttpGet`: bytes are symbols; a response is a sequence, cut at any
  symbol and delivered in reads of any length up to the buffer.
- `HttpConn`: time is discrete; `Takes` spends up to a limit. The worker is the
  goroutine that copies the body into the pipe. While the caller is blocked in Read the
  goroutine may never be scheduled again (`ReaderBlock`).
- `OciFetch`/`Cosign`: a digest is ideal, content is a model value; a server may
  answer any request with any content, an error or a redirect.
- `BlkPrintk`: byte n of a run is the number n; a disk is a sequence of blocks; a stop
  may happen at any step.
- `BlockIO`: words wrap at `Word`; `ReadStatus` follows the order of the checks.
- `KernelBoot`/`DiskBoot`: a probe is a sequence of stages; a stage succeeds or makes
  the probe return with what it has done so far left in place.
- `BootMenu`: a loop iteration is render, poll, check; the clock may advance at every
  step.
- `Rng`: a publish takes the interfaces that are there away one by one, reserves a slot,
  installs and records; a consumer may call between any two of these steps. Addresses of collected protocols and
  handles that carry nothing are given out again.
- `NetProbes`: a probe is the sequence of its stages; an exchange is one question and one
  answer, which stays on the wire when its probe is over. `ipID` begins anew with each
  Stack, as in the code, and is spent on every packet sent: on a probe's own and on
  the reply to an echo request of another host (`EchoRequest`).
- `VirtioTx`: a queue is its free, available and used descriptors. `honours` is the set of
  doorbell shapes the device reacts to, the empty set included. A second open that
  fails before it resets the device leaves it with the first handle's queues.
- `MemMap`, `Tpm`: the firmware may extend its map or its log in every call. `descSize` is
  what GetMemoryMap takes for the size of an entry, the firmware's or the usual one.
- `PackStub`: a stage is a step, each with the error return of every call in it; sizes
  wrap at `Word`.
- `OciPush`: a request is a step whose answer may be lost; `Kill` ends a run anywhere.

## Runs

Each run is one `.cfg`. "States" are distinct states; every run finishes within three
minutes with two workers.

| Run | Configuration | States | Properties |
|---|---|---|---|
| `tcp` | `MCTcp4Conn` | 414,683 | `TypeOK` `AckCoversQueued` `WriteOkMeansReceived` `ImplementsByteStream` `StreamCompletes` |
| `dial` | `MCDialRetry` | 1,044,876 | `ConnectionsAccounted` `DialReturns` |
| `rx_pump` | `MCRxPump` | 193,084 | `WaitersMatch` `CallsReturn` |
| `dns` | `MCDns` | 690,694 | `CallsKeepApart` `AnswerIsFirstA` `EveryCallEnds` |
| `dhcp4` | `Dhcp4` | 797,188 | `LeasedOrNothing` |
| `http_conn` | `HttpConn` | 48,186 | `EofMeansComplete` `ConnReleased` |
| `http_body` | `MCHttpGet` | 217,036 | `BodiesWhole` |
| `oci` | `MCCosign` | 968,242 | `ArtifactVerified` `BearerStaysHome` `AcceptedIffSigned` |
| `probes` | `MCProbes` | 548,141 | `FlushedIsRecovered` `LossBounded` `VerdictEarned` `DescriptorsOwned` `MapIsWhole` `ReplayTells` `OneDriver` `StubStartsWhole` `TagIsWhole` `AllRun` |
| `sfs` | `MCSfs` | 627,005 | `HandlesMatchVolumes` `ReadsInOrder` `RngFoundIsServed` |
| `boot` | `MCBootMenu` | 4,433,927 | `StartedAsConfigured` `ImageReleased` `BootedIsChosen` `AutoBoots` |
| `disk` | `MCDiskBoot` | 58,376 | `LoaderHasItsDisk` `InstalledIsServed` `ReadStaysInside` `NoSlotLost` |

What they show:

- **tcp.** Both directions of one connection at once. The connection implements the byte
  stream of `ByteStream` (refinement: `ImplementsByteStream`): Read returns the peer's
  bytes in order, each once, and reports the end only after all of them.
  Acknowledgments cover only queued bytes; the peer receives a prefix of what was
  written and a successful Write means it has all of it; a reader eventually gets the
  whole stream.
- **dial.** An error leaves no connection behind, and no port but that of a connection the
  peer reset (see below); a connection in use is the one registered under its port, and
  every dial returns.
- **rx_pump.** The waiter table and the goroutines that ping agree under two or three
  receivers; PingOnce and Close return.
- **dns.** The address a call returns is that of its own name, or a late reply to a call
  that was over and had the same port; it is never that of a call in progress. A port is
  held exactly by the call that uses it, and every call returns unless the machine stopped.
  Of a reply the first A record is taken, exactly when all before it is well formed by
  an independent definition of the format; reading ends on every message; a query is
  read back as the name that was asked for.
- **dhcp4.** The address configured was leased to this machine by the server the lease
  names and to nobody else; a failed exchange configures nothing and frees the port.
- **http_conn.** The end of a body is reported only when it is complete; every call
  returns and its connection is closed once the body was read or given up. Nothing is
  said of a reader that stays blocked.
- **http_body.** For the three clients: success means the whole body and only body bytes
  are written; what arrives whole is accepted. The exceptions are named in the properties.
- **oci.** What a successful pull returns is what the digests name, in every mode and
  after any redirects; the token goes to the registry only; an accepted image is signed
  by the trusted key; one good signature among bad ones is enough.
- **probes.** Print sink: what was flushed successfully is recovered, whenever the machine
  stops between two flushes, and of what the ring still held the host misses fewer bytes
  than the threshold, unless the ring was exactly full. Network probes: a verdict
  is earned by an answer to the probe's own question, with a granted address (for dhcp4
  as long as fewer than two echo requests were answered), and every probe of the image
  runs unless oras stays in net/http. Transmit probe: no descriptor is in two hands. Memory map: a
  map that is returned is whole and fully counted. Measured boot: FAIL is printed only
  if something was not logged, PASS only if the log accounts for the PCR. DOOM: a device
  has one driver. Stub: what starts is the whole payload in memory that was allocated
  for it, and files are closed on every way out. Publisher: a tag never names something
  that cannot be fetched, nor a kernel for another machine, wherever jobs stop or
  overlap.
- **sfs.** A visible volume has a working root and no open file outlives its volume;
  reads of a handle are in order and without gaps. An RNG interface that can be found is
  served, from the middle of its publish on, and one that was unpublished is not.
- **boot.** What starts is what was chosen, fully configured; an image stays loaded only
  for a reason; an armed menu left alone boots the default, not early.
- **disk.** The loader comes from the disk of its own probe, is served while it runs and
  leaves nothing behind; a slot of the registry is taken only by what is published or
  being published, also when the firmware refuses the install.

### Bounds and why they are enough

- `tcp`: 16 sequence numbers, both initial numbers just below the wrap, two bytes each
  way, so that a segment can be behind, at, ahead of and overlapping rcv.nxt; a table
  of one, which is full after one segment; MSS 1, so that a write has several segments;
  one retransmission. `Lifetime` and `Ahead` bound how far a late or early segment is
  from rcv.nxt; both cover the whole stream here.
- `dial`: two calls, two TLS attempts of two TCP dials each, three ports: the rover
  passes its wrap (one more value than there are candidates), and ports run out.
- `rx_pump`: two pingers and rxLoop, one reachable neighbour and one host without a
  route, two frames. Two frames are enough for a reply and something else to race.
- `dns`: two callers, two names, two ports, queues of one datagram, three datagrams:
  overflow, stray and late replies occur. One query per caller; that a second query of
  the same caller may get a late reply is described below. Messages: all of up to
  seven symbols, longer ones with two answers whose names point anywhere, and names
  at and beyond both limits; at most two pointers instead of 16.
- `dhcp4`: two servers, two addresses, two calls, one foreign ACK on the air.
- `http_body`: bodies of up to three bytes in every framing, reads of up to five
  symbols, line cap 4, response cap 24, so that each cap is met and exceeded, also by a
  trailer; one chunk whose size is 2^63 or more.
- `http_conn`: bodies of two pieces, contexts that are expired, shorter and longer than
  the request limit. `Horizon` is later than the sum of all limits.
- `oci`: two manifests, two indexes, three layers, redirects up to the limit of the
  code, manifests of up to two signature layers of every format and fault.
- `probes`: ring of 3, threshold 2, frames of two blocks, 7 bytes, two runs: the ring
  wraps twice and a run follows a stop at any point. Images of one or two network
  probes, and of three with dhcp4 in the middle, where a late echo can do harm; two echo
  requests from other hosts, the number from which the exception occurs; leases with and
  without mask, gateway and DNS server. A queue of three
  descriptors, which time-outs use up. A map that grows by up to
  five entries, one more than the slack, per call, with entries smaller than, equal to
  and larger than the usual size. A log area of three entries, which
  the firmware's own early entries may fill already, so that the boot's measurement is
  extended without being logged and the replay fails. Buses with no device, with one that has no modern capabilities and with
  two of a kind. Words of 32 values, pages of 4 and three free pages against sizes that
  fit, exceed the memory or wrap when they are rounded up; a device path longer than
  the cap on nodes. Two overlapping jobs, one of them with both destinations, over
  packages with each fault.
- `sfs`: two volumes with three file slots between them, which run out; a directory with
  an empty subdirectory; buffers of none and of two bytes against a file of three; a seek
  beyond the end and to the start, of a file and of a directory. Two RNG slots, two handles, three addresses, so that slots run out
  and addresses return.
- `boot`: up to three entries, two keys, seconds of two ticks, a timeout that
  overflows, one keyboard error, two RNG handles.
- `disk`: three probes, three slots, 4-bit words, sizes and block numbers on both sides
  of the wrap, stock volumes whose paths are prefixes or near misses.

Model values that are interchangeable (protocol addresses, volumes, files) are declared
symmetric in `disk` and `sfs`, which check no liveness.

Deadlock is checked in `boot`, `disk`, `http_body`, `oci` and `sfs`. The other runs
switch it off because the system stops there: all calls have returned and the bounds
on calls, frames or bytes are used up.

### Fairness

Only steps the program or a retransmitting peer is bound to take are fair.

- `tcp`: weak fairness of the drain, which runs under the lock, and of starting the
  next Read; strong fairness of one look at the queue per Read and of the arrival of
  the segment the receiver waits for, since the peer retransmits it and the link does
  not drop it for ever.
- `dial`, `dns`, `boot`: weak fairness of the program's own step, whose loops poll a
  deadline. The application, the peer, the user and a booted child are not fair.
- `http_conn`: weak fairness of the call, and of the goroutine only while the caller is
  not in Read. The write into the pipe has no deadline of its own, and the repository
  says that the scheduler does not run the goroutine while the caller is blocked:
  `uefiboard/doc.go:40`, `phase2_oci_kernel_boot.go:694` and `:1002` ("the io.Pipe
  deadlocks"), `README.md:317`. `ConnReleased` therefore speaks of readers that have
  seen the end or closed the body.
- `probes`: weak fairness of the probe's next stage (`NetFairness`), since each wait of a
  stage has a deadline; the network owes nothing. The stages of oras that call net/http
  (`InClient`) are not fair, for the reason above. In `dns` also of the reading of a
  message, which is one call.
- `rx_pump`: weak fairness of each goroutine's step; strong fairness of the two
  timeouts, because a loop that keeps receiving foreign frames leaves the waiting state
  again and again and its deadline still passes.

## Proofs

TLAPS checks the following for every value of the constants. A "Proofs" module extends
several components when their variables have different names; its sections are
independent of each other.

| Module | Theorem | States |
|---|---|---|
| `Tcp4ConnProofs` | `ConnInvariant` | the inductive invariant `IInv` of the connection |
| | `ConnTypeOK` | `TypeOK`, the bound of the reassembly table included |
| | `ReadsPrefixOfStream` | `StreamIntegrity`: Read returns a prefix, and all of it before the end |
| | `AcksCoverQueuedBytes` | `AckCoversQueued` |
| | `ConnImplementsStream` | the connection implements `ByteStream` (`ImplementsByteStream`) |
| | `WriteOkIsReceived` | `WriteOkMeansReceived` |
| `DnsProofs` | `CallsStayApart` | `CallsKeepApart` |
| `NetProofs` | `PingsAreMatched` | `WaitersMatch` of `RxPump` |
| | `StackUsesItsLease` | `LeasedOrNothing` of `Dhcp4` |
| | `EndMeansWholeBody` | `EofMeansComplete` of `HttpConn` |
| | `TagsStayWhole` | `TagIsWhole` of `OciPush` |
| `BootProofs` | `DialsAreAccounted` | `ConnectionsAccounted` of `DialRetry` |
| | `StartsWhatIsConfigured` | `StartedAsConfigured` |
| | `ReleasesItsImage` | `ImageReleased` |
| | `BootsTheChosenEntry` | `BootedIsChosen` |
| `OciProofs` | `BearerNeverLeaves` | `BearerStaysHome` |
| | `ArtifactIsVerified` | `ArtifactVerified` |
| | `AcceptsExactlySigned` | `AcceptedIffSigned` |
| | `VerdictsAreEarned` | `VerdictEarned` of `NetProbes` |
| `ProbesProofs` | `PayloadIsChronological` | `ChronologicalUnlessFull` |
| | `LossIsBounded` | `LossBounded` |
| | `FlushIsRecovered` | `FlushedIsRecovered` |
| | `DoomDrivesAlone` | `OneDriver` |
| | `DescriptorsStayOwned` | `DescriptorsOwned` |
| | `MapComesWhole` | `MapIsWhole` |
| | `StubIsWhole` | `StubStartsWhole` of `PackStub` |
| `PublisherProofs` | `HandlesOutliveNoVolume` | `HandlesMatchVolumes` of `Sfs` |
| | `HandlesReadInOrder` | `ReadsInOrder` |
| | `RngServesWhatIsFound` | `RngFoundIsServed` |
| `DiskBootProofs` | `FirmwareIsServed` | `InstalledIsServed` and `NoSlotLost` |
| | `ReadsStayInside` | `ReadStaysInside` |
| | `ProbesAreServed` | `NoSlotLost`, `InstalledIsServed` and `ReadStaysInside` while the probes run |
| | `LoaderRunsFromItsDisk` | `LoaderHasItsDisk` |

### The arguments

No property above is inductive as it stands. What each invariant adds:

**TCP, received bytes.** Whether a parked segment is appended at the right place depends on
what the table holds and on rcv.nxt. `IInv` adds that every parked segment is a slice of
the peer's stream at its sequence number (`Parked`) and that rcv.nxt is the number of the
next missing byte (`Aligned`). One lemma per goroutine shows that it is preserved;
`TakeSlice` is the central one: appending the slice that starts at rcv.nxt keeps everything
aligned, for the in-order path and for the drain alike. The theorems assume `StreamFits`:
the stream, its SYN and its FIN use no sequence number twice. Without it the result is false
(see the first entry of the next section). The assumption covers every transfer below 4 GiB.

**TCP, written bytes.** That an acknowledgment covers the Write under way depends on which
bytes every segment on the wire carries. `WriteInv` says that there is a number f, the bytes
that precede the FIN (all, as long as Close has taken none), such that every segment is a
part of the bytes sent at the sequence number of its first byte, one higher for bytes a Write
took after the FIN (`SendInv`), that the peer has a prefix of the f bytes (`ReceivedInv`) and
that the segment under way is the latest one taken (`WrInv`); and that snd.una is an
acknowledgment the peer has sent (`UnaInv`), however late it came. Close in the middle of a
Write is the step that fixes f. `AckedIsReceived` is the central lemma: a snd.una not before
wantAck means that the peer has every byte. The theorem assumes `HalfFits`: the bytes of all
Writes are fewer than half the sequence space, since seqLT compares by the sign of a 32-bit
difference. It covers every connection that sends less than 2 GiB.

**Byte stream.** The refinement: the queue of `ByteStream` is rxQueue, what was read is
`got`. A step of the connection changes what a reader can see in one of three ways: it
appends to the queue, it is a Read, or it changes nothing. For the first, `QueueGrows` takes
`IInv` before and after the step: both queues are the stream from the same place on, so what
was appended is its next part, whichever segment or table entry it came from.

**DNS.** `SockInv` says that a port leads to the call that uses it, through every
interleaving of open, Close and the dispatchers; `MailInv` says that each datagram in a queue
or in a dispatcher's hands carries the id of a query that was sent. An id is a function of
the port, so a reply that matches was asked for from the caller's port. `AskInv` says which
socket sent a query and that it is open as long as its call waits: a socket on the caller's
port that is not the caller's own has been closed, so a query from there belongs to a call
that is over.

**Pings.** `Numbers` says that no two pings in progress share a sequence number and that a
number that left the table has nobody waiting for it: the goroutine that takes a waiter out
of the table is the only one that delivers to it.

**DHCP, HTTP.** `ServerInv` says that an ACK to this client is backed by a lease, whatever
else is on the air; `ExchangeInv` follows the lease into the Stack. `BodyInv` orders the
goroutine, the pipe and the reader: the pipe ends well only after the last piece.

**Kernel publisher.** `RunInv` says where a run has got to and what it left in the
registry of its present leg. A step of one run keeps the invariant of the others because a
registry only gains blobs (`RunStep`).

**Dialler.** `TableInv` says at which stages of a dial or a Close a connection is in the
table, `DiallerInv` that only the connection in hand is in progress. The theorem assumes
`OneCloser`: the application closes a connection from one goroutine. releaseTCP4 deletes by
port, so a second release could delete the next owner (see the next section).
`DialRetry` makes its dials one after the other.

**Boot and menu.** `Shape` gives the order of the stages left that matters (a check after
every fetch, nothing fetched after the measurement, nothing but options, device and start
after LoadImage), `Provided` what the stages gone by have left. Stages are told apart by
whether they are still to come (`Awaits`), so that one argument serves every flow.
`CursorInv` says that the cursor is where the keys lead and that the countdown is for the
default.

**OCI.** The token: `sendBearer` is set only for requests to the registry itself. The
artifact: `LayersInv` says that what is before the present layer has been fetched or filtered
out and nothing else has; that the filtered loop finds the next layer uses the least element
of a set of numbers. The signature: `CollectedInv` says that the signatures collected are
those of the layers passed over that could be read, in both directions.

**Stub.** `PagesCover`: a count of pages that is not zero covers the size it was computed
from, although the sum may wrap.

**Network probes.** As with the boot flows, the stages a probe still awaits tell what it
has (`StageInv`), whatever the order of answers; `ImageInv` says that what is left of the
image follows the running probe in the dispatcher's order. What a late answer to an earlier
probe can do is bounded by `EchoInv`: the ping probe runs on a fresh Stack, so the number of
its echo is at most that of the echo requests answered before it, while the dhcp4 probe has
spent two packet numbers on the lease before it pings. As long as fewer than two echo
requests were answered the numbers differ. `WireInv` says that every DHCP reply on the wire
names an address that was granted.

**Print sink.** `RingInv` says which byte is in each place of the ring: below the head the
latest ones, above it, once the ring is full, those before them. `LossInv` relates the bytes
printed, saved and pending. `DiskInv` says which cells of the frame are on the disk while its
blocks are written; all are after the last one, because the blocks cover the frame
(`BlocksCover`). `LossIsBounded` combines the two: what is not pending was saved, and what was
saved and is still in the ring is in the frame the host decodes.

**Devices and memory map.** `TxInv`: no descriptor is in two places of a queue, and the free,
available and used ones add up. `PciInv`: what the walk has passed is released or is known to
be stuck. `MapInv`: the buffer of an attempt against the size the firmware asked for and the slack, in
entries of the size assumed.

**File system.** A volume that is visible has its root in the table and every open file
belongs to a volume (`TablesInv`); `OpInv` says what a publish or unpublish under way has
done, since the firmware calls in the middle of one; `DueInv` says which byte each handle
returns next.

**RNG.** `SlotsInv`: every published state has its own slot and address, and every interface
in the firmware's database is published or about to be recorded. `KeptInv` says that nothing
is orphaned until a removal takes an interface away behind the table.

**Block I/O and disk boot.** `IInv` says that a slot in use belongs to one protocol and holds
that protocol's size, that what is published or under way owns its slot, and that what the
firmware holds is published or about to be recorded. `ReadsStayInside` rests on word
arithmetic (`ChecksSuffice`): the two checks of the handler exclude a sum that wraps. Each
step of a probe is a step of the publisher or leaves its variables alone
(`DiskStepIsPublisherStep`, `ProbesUsePublisher`), so the publisher's theorems carry over. For the loader the
number of stages left tells where a probe is (`PlanInv`), and `PubInv` and `LoaderInv` what it
has by then. That a loader is not taken from a volume of the machine rests on
`PathAssumption`: no stock volume's path begins with the vendor node of our disk.

### Assumptions

Besides the hypotheses named above, the assumptions on constants are the named `ASSUME`s of
the component modules: word, block, page and table sizes are natural numbers, `None` and its
like are no addresses, a padded layer is an image, the set of UDP ports is finite, the static address of the ping
probe is told apart from a leased one (`LeaseAssumption`). TLC evaluates all of them in the
runs. `StreamFits` and `HalfFits` hold in the `tcp` run.

### Only model-checked

- The liveness properties (`StreamCompletes`, `DialReturns`, `CallsReturn`, `EveryCallEnds`,
  `ConnReleased`, `AutoBoots`, `AllRun`): fairness and ENABLED are outside the prover.
- `AnswerIsFirstA` of `DnsMessage`, `BodiesWhole` of `HttpGet` and `ReplayTells` of `Tpm`: they
  compare a reader with a reference defined by folds and selections over sequences, whose
  values need induction over data.

## Where the code and its documentation disagree

Met while translating. No run listed above is about one of these: the properties are
the ones that hold, and a note in parentheses says where a property, an assumption or
a constant makes room for the exception. The models contain the behaviour unless the
note names a constant that keeps it out.

TCP and ports
- `tcp4.go:500` removes only the table entry it merges. A duplicate stays in the table,
  takes one of eight places and, 2^32 bytes later, matches rcv.nxt again. `tcp4.go:24`
  promises in-order delivery. (`StreamFits`)
- `tcp4.go:831` returns ErrTCP4Timeout also when the handshake was completed and the
  peer's FIN came before the dialer looked; `tcp4.go:745` says "no SYN-ACK within
  timeout".
- `tcp4.go:651`: after an RST, Close returns at its first check and never releases the
  port; `tcp4.go:867` says releaseTCP4 is "called by TCP4Conn.Close".
- `tcp4.go:847` counts candidates modulo 16382 and the rover modulo 16383, and the port
  is registered in a later critical section: two dials at once can get one port.
  `tcp4.go:836` says "a real collision is impossible". (`ConcurrentDials` is FALSE in
  the run.)
- `tcp4.go:871` releases by number: two concurrent Close calls can take out the next
  owner of the port. `tcp4.go:272` says "Safe for concurrent Read/Write/Close". (One
  closer in the run.)

Receive loops, UDP, DHCP, DNS, TLS
- `arp.go:291` drops frames that are not ARP; the comment at 294 says they will be
  "re-encountered".
- `stack.go:548`: PingOnce returns ErrStackClosed; `stack.go:167` says calls in flight
  "return their respective timeout errors".
- `udp4.go:325` sends after unlocking; a Close in between closes the channel and the
  send panics. `stack.go:284` says such datagrams are "dropped silently".
- `udp4.go:333`: with two dispatchers the newer datagram may be the one dropped;
  `udp4.go:316` says the oldest is.
- `dhcp4.go:490`: the transaction id depends on the MAC only and an ACK is not compared
  with the request, so the ACK of an earlier call is accepted. `dhcp4.go:43` wants the
  matching "to be reliable across the four messages".
- `dns.go:301`: successive queries have the same port and id, and the name in the
  question is not compared; a late reply for one name answers the next. `dns.go:79`
  says they stay "distinguishable". (`Answered`, a part of `CallsKeepApart`, makes the
  exception.)
- `dns.go:111` encodes an empty label inside a name as the zero that ends it. (The part of
  `AnswerIsFirstA` on queries excludes such names.)
- `stack.go:512` takes the sequence number of a ping from the packet counter, which
  `stack.go:422` advances for every echo request answered. All Stacks begin at the same
  number, so after two requests a late reply to the ping probe can have the number that
  dhcp4 waits for. (`VerdictEarned` makes the exception.)
- `tls.go:220` retries inside a retry: nine dials with three attempts; `stack.go:70`
  speaks of the number of attempts and 6 s in all.

HTTP, OCI, Cosign
- `http.go:728` leaves the CR in a line when a read ends between CR and LF, and then
  refuses the response. (`WholeIsAccepted`, a part of `BodiesWhole`, excludes it.)
- `transport.go:511` takes only io.EOF for the end of a body, which plain TCP never
  returns. (`WholeIsAccepted` excludes it.)
- `http.go:256` returns a body without a length that was cut by an error as a success;
  the comment at 254 says otherwise. (`GetBody` claims less for it.)
- `transport.go:166` computes what is left of a context before the dial and applies it
  after; `transport.go:131` says the deadline is honoured.
- `http.go:617` and `transport.go:547` turn a chunk size of 2^63 or more into a negative
  number and skip the chunk; RFC 9112, which `http.go:586` cites, has such a body
  incomplete. (`SuccessIsWhole`, a part of `BodiesWhole`, excludes it.)
- `transport.go:200` hands the body over through a pipe and a goroutine;
  `phase2_oci_kernel_boot.go:1002` says that this deadlocks under the TamaGo scheduler.
  (`ConnReleased` and `AllRun` say nothing of a caller that stays there.)
- `fetch.go:106` does not compare the manifest of a reference by digest with that
  digest; `fetch.go:40` says all are verified. (`ArtifactVerified` starts below it.)
- `cosign.go:611` stops at the first tag that can be fetched, also when it has no
  layers; `cosign.go:215` says "with non-zero layers".
- `cosign.go:660` looks at the first subject only; the comment at 657 says "(sole)".

Publishers, sink, boot
- `blkprintk.go:209`: with exactly a full ring the payload is all zeros; the doc at 199
  says chronological. (`FlushedIsRecovered`, `LossBounded` and `ChronologicalUnlessFull` exclude it.)
- `blkprintk.go:309`: a frame whose later blocks are missing decodes without an error;
  `blkprintk.go:18` says the host detects it.
- `block_io_publish_handlers.go:93`: a block number of 2^55 or more wraps to a valid
  offset; line 71 says it is refused.
- `sfs_publish_handlers.go:436`: Delete of the root leaves its handle open; line 433
  says the handle is closed.
- `rng_protocol_tamago.go:181`: an interface that cannot be removed is skipped; line
  124 says none is left. (`StartedAsConfigured` allows it.)
- `rng_protocol_tamago.go:275`: UninstallAllRNG, and a publish, take the interface of an
  earlier publish away and leave its slot taken, so ErrRNGRegistryFull comes without
  "more concurrent PublishRNG calls" (`rng_protocol.go:119`), and a stale `this` is
  served through such a slot, which `rng_protocol.go:223` excludes. (`rngLost` in
  `RngFoundIsServed`.)
- `phase2_http_get.go:98` and its like set the address after Start;
  `ministack/stack.go:111` says SetIPv4Address "must be called before Start".
- `phase2_virtionet_tx.go:473`: "Whichever shape makes used.idx move is the one VZ
  honors"; a completion of the frame that timed out before moves it as well.
  (`DescriptorsOwned` counts frames, not shapes.)
- `cmd/cloudboot-oci-extract/main.go:423` accepts a kernel whether or not its name has
  an alias of the architecture; the comment speaks of names without any. (The machine
  type is checked later, `TagIsWhole`.)
- `phase2_dhcp_oci_menu.go:363`: a keyboard that always fails keeps the menu waiting;
  line 304 says it boots. (`AutoBoots` bounds the failures.)
- `phase2_dhcp_oci_menu.go:339` shows no countdown during the last second.
- `phase2_dhcp_oci_menu.go:332`: a timeout above 9223372036 s overflows and boots at
  once. (`BootedIsChosen` excludes it.)
- `phase2_oci_freebsd_boot.go:231`: early returns leave the disk published; line 327
  speaks of not stranding the slot. (`LoaderHasItsDisk` speaks of loaders that ran.)

## Not modelled

- Byte formats: header layouts, checksums, JSON, PEM, device trees, EFI_FILE_INFO, UCS-2.
  They are abstracted to what decides control.
- The scan of a disk image for a UFS partition (`phase3_ufs_partition.go`): one loop over
  a table of numbers; whether there is such a partition is a choice in `DiskBoot`.
- ExitBootServices, configuration tables, device trees, PCI, virtio and firmware
  bindings: one firmware call per function, without state of their own between calls.
- Assembly trampolines and board code: registers and stacks, below a TLA+ model. That a
  callback runs while Go is inside a firmware call is in `BlockIO`, `Sfs` and `Rng`.
- Windows boot phase: it prints and returns; the disk pipeline it is to share is in
  `DiskBoot`.
- Stubs for build tags, embedded payloads and certificates, image builders and test
  pushers of the build host: no state, or a transformation of one file into another.
- 16-bit wrap of the packet counter that PingOnce uses as a sequence number; it takes
  65536 packets during one ping.
- Several clients on one Stack at the same time beyond what each module has (two
  pingers, two resolvers, one dialler): the product of the modules is out of TLC's reach.

## Where it could go on

1. `HttpStream` over `ByteStream` in place of its own wire.
2. Internet checksum, route lookup and partition scan as operators against a reference.
