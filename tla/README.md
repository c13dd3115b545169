# filetrans in TLA+

filetrans sends files between two computers over a USB cable, a LAN or anything
else that carries TCP. Its transfer protocol, GTP, lives in `backend/gtp`; a
terminal program (`cmd/filetrans`) and a web GUI (`backend/webui`) drive it.
This directory holds TLA+ models of the protocol, of the terminal program's USB
mode with its interface detector, and of the web GUI's server; TLC runs over
small instances of them, and TLAPS proofs about them for every instance.

All source paths below are relative to the repository root. `PROJECT.json` maps
each definition to the lines it was translated from and lists the hazards the
properties are aimed at.

## 1. Inventory

| Component | State it keeps | Operations | Status |
|---|---|---|---|
| GTP frames and connection (`gtp/frame.go`, `messages.go`, `conn.go`, `util.go`) | the TCP stream in two directions, a write mutex, the window | WriteFrame, ReadFrame, ReadControl, ReadAny, Close | `GTPWire` |
| GTP sender (`gtp/sender.go`) | per file: position, chunk number, chunks in flight, the ack channel, one goroutine per file | Send, sendFile, sendChunks, ackReader | `GTPSender` |
| GTP receiver (`gtp/receiver.go`) | per file: bytes received, next chunk; on disk the `.gtpart` file and the final file | Receive, receiveFile | `GTPReceiver` |
| GTP session (`cmd/filetrans/main.go`) | which ends run, the number of the session | runSender, runReceiver | `GTPTransfer` |
| GTP handshake (`gtp/handshake.go`) | role, version, window, deadline | Connect, ListenAll, clientHandshake, serverHandshake | `GTPHandshake` |
| LAN scan (`fallback/scanner.go`) | result channel, one goroutine per address | Scan | its probe, in `GTPHandshake` |
| Interface detector (`detector`) | the event channel, the last snapshot, events to send, the netlink socket, the stop channel | Start, cancel, three builds | `InterfaceDetector` |
| Interface configuration (`netconfig`) | the address of an interface | HasTargetIP, AssignIP, RemoveIP | in `UsbMode`, as steps on an address |
| Terminal driver, USB mode (`cmd/filetrans/main.go`) | the select's place, the timer and its channel, `cfg.PeerIP` | runUSBMode, handleInterface, offerNetworkFallback | `UsbMode` |
| Web GUI state, API, transfer goroutines, callbacks (`webui/state.go`, `api.go`, `transfer/callbacks.go`) | phase, role, queue, entries of files, uploads on disk, `cfg.PeerIP` | handlers, transfers, callbacks | `WebState`, `WebGUI` |
| Web GUI server, USB watcher, hub (`webui/server.go`, `hub.go`) | connected pages, the hub's lock | watcher, pushLoop, broadcast, handleEvents | `WebGUI` |
| Configuration (`config/config.go`) | one record | Load, RemoteIP, detectLinkIPs, findFreePort | RemoteIP and what --peer sets, in `WebState` and `WebGUI` |
| Multicast discovery (`gtp/discovery`) | none beyond the socket | Announce, Listen | not modelled |
| Legacy transfer, handshake, protocol (`transfer`, `handshake`, `protocol`) | like the GTP session, one chunk at a time | Send, Receive, Listen, Dial | not modelled: nothing calls them |
| Terminal UI, logger, GUI page and launcher, scripts, packaging | none a property is about | | not modelled |

How they interact. The driver (or the GUI) obtains a connection through the
handshake, then calls `Send` on one computer and `Receive` on the other. The
two share nothing but the TCP connection. Within the sender, the main goroutine
and one goroutine per file share the connection's reading side and a channel.
Within the receiver there is one goroutine and the disk, which survives it. In
the GUI, HTTP handlers, a transfer goroutine, the interface watcher and the
WebSocket hub share one state behind a mutex, and the transfer reports to it
through callbacks.

What is hard, in order of importance:

1. *Goroutines on one stream.* `ackReader` of a file returns only on an error
   (`sender.go:149-179`), so it still reads when the main goroutine reads
   COMPLETE_ACK and the replies to later offers. `ReadFrame` takes no lock and
   reads header and payload with separate calls, so even a half of a frame may
   be stolen.
2. *Interrupted transfers.* A crash, a short write, a broken link or an edited
   source leaves a partial file that a later session trusts as its beginning.
3. *Flow control.* In-flight chunks are counted in two loops of the sender with
   different exits (`sender.go:191-252`); a lost error or a lost count blocks
   everything.
4. *The order of sync, verify, acknowledge, remove, rename* (`receiver.go:169-208`)
   against crashes of the machine.
5. *Closing over unread input* resets the connection and may take the last
   frame (ERROR, NACK, COMPLETE_ACK) with it.
6. *One loop for everything* (`main.go:82-110`): sessions and prompts run inside
   the select loop, while events fill a channel whose writers do not look at stop,
   a timer's tick grows stale, and an interrupt waits.
7. *The GUI's state has many writers.* Nothing asks whether a transfer is already
   running; Reset does not stop one; the watcher sets the phase whenever it likes;
   `cfg` and the directory of uploads are outside the lock.
8. *Two writers on a WebSocket*, one of them with the hub's lock held.
9. Outside the session: the scan's probe against the single Accept, timeouts
   that end with the handshake.

Per component, what makes it correct:

- wire: nothing is delivered that was not sent, in order, until the link ends;
- sender: at most a window in flight, every chunk acknowledged before COMPLETE,
  SESSION_DONE only after every file, a return from every loop;
- receiver: only a complete version of an offered file gets a final name;
  corrupt chunks never reach the disk; resumed files verify;
- session: a file reported sent is safe at the receiver, whatever happens next;
  both ends return;
- handshake: two ends that agree have the same window and opposite roles, and
  ends that disagree both say so; a probe does not use up the listener;
- detector: each interface is reported added and removed alternately, what is
  reported agrees with the cables in the end, cancel closes the channel;
- USB mode: the loop is never left without a timer, an interrupt ends it;
- GUI: "done" and "transfer" are said of sessions that were and transfers that
  run, a done session lists whole files only, a peer that is shown is the one that will
  be dialled, queued uploads exist, every page ends up with the current state.

## 2. Modules

```
GTPWire  <-- GTPSender  <--+
   ^                       +-- GTPTransfer <-- MCGTPTransfer (TLC)
   +------- GTPReceiver <--+      |     ^
                                  |     |
                                  |   GTPTransferProofs <-- GTPIntegrityProofs <---+
                                  |     ^                                          |
                                  |   GTPFlowProofs <-- GTPDeliveryProofs <-- GTPContentProofs
                                  |                     (extends both)         (TLAPS)
                                  +-- INSTANCE FileDelivery (abstract)

GTPHandshake <-- MCGTPHandshake (TLC)
             <-- GTPHandshakeProofs (TLAPS)

InterfaceDetector <-- UsbMode (TLC) <-- UsbModeProofs (TLAPS)

WebState <-- WebGUI <-- MCWebGUI (TLC)
               ^------- WebGUIProofs (TLAPS)
```

**GTPWire** - frames and the stream. `toR` is what the receiver has not read
(whole frames: one goroutine reads), `toS` what the sender has not read (PIECES:
header and payload of each frame, since several goroutines read and each of the
two `io.ReadFull` calls of `ReadFrame` may be served to another one). A reader
that gets bytes in the wrong place behaves as the code does: nine bytes that do
not start with the magic are an error (`BadMagic`), a payload of the wrong length
leaves the type of the header with an empty message (`Garbled`). `Survives`
models Close: over unread input it resets the connection, and the peer may lose
the end of what was on its way. `BreakConn` cuts both directions, `CorruptChunk`
damages a chunk.

**GTPSender** - `spc` is the place of the main goroutine: `offer`, `accept`,
`pump` (the loop that sends), `full` (the inner loop at a full window), `drain`
(the loop after it), `complete`, `cack`, `fail`; `rd[0]` is its own read,
`rd[f]` the `ackReader` of file f, `ackCh[f]` that goroutine's channel. One action
per branch of the code, each error path included.

**GTPReceiver** - `rpc` is the place of Receive: `idle` between files, `recv`,
`verify`, `remove`, `rename`. `part` and `dest` are the disk; each file carries
its data and whether it has been synced. The error of `os.Remove` is ignored
(`receiver.go:205`): the old file may stay until the rename replaces it. `ReceiverCrashes` leaves everything
(the process died) or any beginning of unsynced data (the machine died).

**GTPTransfer** - both ends on one connection, session after session
(`NewSession` is the user starting both again), the properties, the fairness and
the inductive invariants.

**FileDelivery** - the abstract specification: a file is stored, then reported,
then the next one may be stored; under a name there is nothing or a complete copy.
`GTPTransfer` implements it with `stored = verified`, `reported = cur - 1`,
`copy = ` the data of the final files (`DeliversFiles`).

**GTPHandshake** - what comes before the session. `lpc` is the place of ListenAll
(`accept`, `hello`, then it has returned `ready` or `failed`), `cpc[c]` that of a
caller: `scan`, `ask` (for an address), `dial`, `hello` (about to be sent), `wait`
(for HELLO_ACK). Each caller has up to two links to the port, its probe and its
call; `backlog` holds the links the system has completed and ListenAll has not
accepted, and closing the listener resets them. A link is `up`, `down` (both ends
find out) or `silent` (neither does, and what is sent is lost). The drivers always
give the sender Connect and the receiver ListenAll, so a clash of roles or versions
takes a peer of another build: `says[c]` is any HELLO such a peer may send.
Capabilities are left out: nothing reads them. A dial either connects or is
refused, at a listener's will; a failing `net.Listen` is a start that did not happen.
The handshake is not composed with the session: what it hands over is a connection
with one window for both ends, which is where `GTPTransfer` begins.

**InterfaceDetector** - the three builds of `Start`, chosen by `platform`. `dpc` is
the place of the polling goroutine (`start`, `emit`, `wait`) or of the netlink
goroutine (`top`, `recv`, `emit`), `spc` that of Linux's startup goroutine; `todo`
is what has been found and not been sent. A snapshot may fail and is then taken for
the truth, as the code does. Sending waits for room in the channel; only the
netlink goroutine looks at `stop` while it waits. `SendAtStartup` on a channel
that was closed meanwhile is a panic (`panicked`), which ends the program: no action of
`UsbMode` follows it. `ParseMessage` translates what
becomes of a netlink message: the attribute parser is given a header type of zero and
refuses it, so nothing is left. Every interface of the model has a name that counts
as a USB adapter.

**UsbMode** - `runUSBMode` on that detector. `upc` is the place of the program:
`select`, `handle` (handleInterface), `session`, `confirm` (the prompt of
offerNetworkFallback and what follows), `network` (the session after it),
`returned`. Each case of the select is an action. `timer` and `tick` are the two
halves of `usbTimer`: Stop and Reset leave a value in its channel (the module says
go 1.22). `addr` is what netconfig reads and writes: `alike` is an address that only
begins with the digits of the right one. RemoveIP leaves none on Linux, where AssignIP has flushed
the others, and on Windows one of the interface's own; or it fails, and is not looked at. A session is a step that ends some time; what
it does is `GTPTransfer`. `view` and `last` are history: what the events handled, and
the events sent, say of each interface.

**WebState** - the GUI's `AppState` under its lock, `cfg.PeerIP` and the uploads
without one, and the handlers. A handler that takes the lock once is one action; one
that has a step outside it (set-peer, upload, start, reset-files) keeps what it has
read in `req[s]` between its two. `collided` remembers which kinds of overlap have
happened, because some promises hold only without them. `cfgPeer` starts with what --peer
or `FILETRANS_PEER` said (any of `PeerFlag`, `NoPeer` when neither did), while the
page's peer starts empty.

**WebGUI** - what runs beside the handlers: the goroutines of transfers (`task`), the
USB watcher, the push loop, `handleEvents` for each page and the hub with its lock
(held while `push.at = "write"`). A page may go at any time, also before or during its first
snapshot (`away`): what is written to it from then on is lost, and its handler notices when
it reads. `RemoteIP` is `cfgPeer` or, when that is not set, the fixed address of the
cable's other end (`OtherEnd`). A transfer connects, goes through its files with the
callbacks, and succeeds or fails at any point. Snapshots are `fresh` as long as
nothing has changed since, which is all PagesSettle needs of them. Two writes to one
connection at once are the library's panic (`Collide`): in the push loop it ends the
process, in a handler net/http recovers it.

**MCGTPTransfer**, **MCGTPHandshake**, **MCWebGUI** - constant values. **GTPTransferProofs**,
**GTPIntegrityProofs**, **GTPFlowProofs**, **GTPDeliveryProofs**, **GTPContentProofs**,
**GTPHandshakeProofs**, **UsbModeProofs**, **WebGUIProofs** - section 5.

What is abstracted:

- A file's bytes are a sequence of units, `ChunkSize` units to a chunk. A hash is
  the content it is the hash of: equal hashes mean equal content. A CRC is a flag.
- `Versions[f]` is what file f may contain while the sender runs; `EditFile`
  switches between them. Hashing and sending read the file as it is at that step,
  so a transfer may mix versions.
- `NameOf` stands for `relativeName` and `sanitizePath`, which decide under which
  path an offered file is stored; it need not be injective.
- PING and PONG are left out: nothing in the repository calls Ping or
  roundTripMS. The size of frames and the tuning of the socket are left out.
- Writes to a connection that has ended either vanish or fail; both are modelled.
- Directory operations (create, remove, rename) are durable at once and in order;
  a crash of the machine takes file contents only.
- The GUI's requests come in any order and overlap in any way, at most two of the
  two-step ones at a time: a superset of what the page sends. Ports, directories,
  suggested addresses and messages are left out. Each dialog answers with one file or
  none.
- The toR queue holds `NetCap` frames before a write blocks. toS has no bound: an
  acknowledgement is a few bytes and at most a window of them is outstanding.

## 3. Runs

All runs set `CHECK_DEADLOCK FALSE`, because sessions end (and the receiver's own
end, the program's return, and a GUI nobody clicks are states the system may stop in); that nothing stops too early is what the
liveness properties say.

| Run | Instance | Checks |
|---|---|---|
| `gtp_one_file` | 1 file of 3 chunks (last one short), two versions of it (3 chunks and 1 chunk); Window 2, NetCap 3; up to 3 faults of 8 kinds; 2 sessions | types, integrity, safety of reported files, resume numbering, acknowledgement accounting, window, whom the drain waits for, implementation of FileDelivery |
| `gtp_two_files` | 2 files (2 chunks; 2 chunks, 1 after an edit), own names; Window 2, NetCap 2; up to 2 faults; 2 sessions | the inductive invariants of section 5, reported files, FileDelivery, with a leftover `ackReader` of file 1 competing for reads |
| `gtp_liveness` | 1 file, Window 4 (more than its chunks), up to 2 faults, 1 session, fair | every loop of the sender ends; a broken connection ends both ends; the receiver follows; goroutines return |
| `gtp_window_hang` | 1 file larger than Window 2, at most one link break, fair | **violated**: see findings |
| `gtp_complete_race` | 1 file, no faults, fair | **violated** |
| `gtp_resume` | 1 file, one link break, 2 sessions | **violated** |
| `gtp_promote` | 1 file sent twice, no faults | **violated** |
| `gtp_handshake` | 2 callers, one after a scan and with any of 3 HELLOs; 2 tries to dial, 2 starts of the receiver; 1 link cut or silenced; fair | agreement, refusals, half-open connections, both functions return |
| `gtp_scan` | 1 sender that scans, 1 receiver, no faults, fair | **violated** |
| `usb_mode` | 3 builds of the detector, 2 interfaces up or not at the start, a channel of 1; 2 cable changes, 1 failing system call; interrupts at any time; fair | types, timer, alternation of events, the program's view of the cables, interrupt, cancel |
| `usb_linux` | Linux, 1 interface, channel of 16, 2 cable changes, nothing failing; fair | **violated** |
| `gui` | 1 upload, 1 file by path with the same last part; 1 peer to set, --peer naming another or none, and the fixed address of the other end; 2 transfers, 1 page; 3 requests, cables or openings beside the first choice of a role; fair | types, what the state says of sessions, peers and uploads, pages |

What the passing runs show, property by property:

- `DestIntegrity`: under its final name a file is always one
  complete version of a file offered by that name, in spite of edits during the
  transfer, mixtures from resumed sessions, corruption, kills and power failures.
- `ReportedIsSafe`: what the sender reported is at the receiver and synced, under
  its final name or still in the partial file.
- `ChunksInSequence`: the two independent chunk counters never disagree; the
  branch "out-of-order chunk" is dead code between these two peers.
- `CompleteAfterChunks`, `AcksConserved`, `WindowRespected`: what is on the wire, on its
  way back, in `ackReader`'s hands or in the channel is never more than the count of
  chunks in flight, and for the first file it is exactly that count (of a later file a
  leftover `ackReader` may take acknowledgements away); no unread chunk is ahead of
  a COMPLETE.
- `ServedOrHung`: when `sendChunks` waits on its channel, the `ackReader` that writes to
  it has not returned or has left something there, with one exception, finding 2.
  (That reader may still wait for bytes another one took: finding 1.)
- `DeliveryInv`, `ExactInv`, `ContentInv`: the inductive invariants of section 5, with two
  files and so with the frames that leftover readers steal.
- `NoJunkOnDisk`: a damaged chunk is refused before it is written.
- `DoneMeansStored`: SESSION_DONE means that every file was verified and shown.
- `DeliversFiles`: the whole implements the abstract specification.
- `Agreement`: two ends that both return a connection have the same one and the same
  window within the limits, whatever was asked for, and neither version nor role
  conflicts; `RefusedForCause`: a caller that only came second is not told so.
- `HandshakeInv`: the inductive invariant of section 5. `HalfOpenIsClosed`: when
  ListenAll has returned a connection whose caller gave up, the connection ends, unless
  the link is silent.
- `ListenAllReturns`, `ConnectReturns`: the deadline of the handshake covers every
  read and write in it, so a silent peer holds neither function for ever.
- `PipelineDrains`, `BrokenConnEndsSession`, `ReceiverFollowsSender`,
  `AckReadersReturn`: progress, where the window is not filled.

- `AlwaysWakes`: whatever happened between two selects, the timer runs or its tick waits.
- `EventsAlternate`: an interface is reported added, removed, added, across failed
  snapshots and a full channel. `ViewSettles`: once cables rest, what the loop has
  handled agrees with what was sent, and with the cables: all of them on Windows; on
  other polling builds those present at the start are never reported, but no removal
  is missed.
- `InterruptEnds`: in spite of sessions, prompts, and a channel that is never empty.
  `CancelCloses`: of the polling builds, unless they are stuck with an event.
- `DoneIsSession`, `TransferIsRunning`: the phases agree with what has happened
  whatever handlers, transfers and cables do in between. `DoneMeansAll`: a session
  that is done lists only files that are complete and without error, whatever was
  reset meanwhile, unless two transfers overlapped.
- `PeerShownIsDialled`: when the page shows a peer it is the one Connect would use, or a
  request that has set another is about to show it, unless two set-peer requests
  overlapped. A page that shows none promises nothing: at the start Connect would dial
  what --peer said, or the other end of the cable. `QueuedIsStored`: uploads in the queue exist, unless
  one overlapped with a reset.
- `PagesSettle`: a first snapshot that is older than a broadcast before it is
  corrected; joining, leaving and broadcasting never block one another for ever.

Bounds, and why they are enough. Three chunks against a window of two reach every
loop of `sendChunks` (the window fills, empties by one, and is drained); the last
chunk is short, so resume points inside and at chunk boundaries occur. The edited
version has another length and other bytes in the first chunk, so sizes shrink and
grow between offer, chunks and COMPLETE. Two sessions are what a resume takes; a
third adds nothing new, because the disk is all that is carried over and two
sessions with three faults reach every kind of partial file. Three faults allow
a break, a crash during the resumed session and an edit. Two files are what it
takes for a leftover reader to compete with the next file's replies. The window
of four in the liveness run keeps the full-window loop out, whose exit is the
subject of `gtp_window_hang`.

Fairness (`FairSpec`): weak fairness of the sender's main goroutine, of each
`ackReader` and of the receiver, separately. Each is a goroutine or a process
that the Go runtime and the system schedule, and each step is enabled until it is
taken; blocked reads and channel operations are disabled actions. Faults, edits
and new sessions are not fair: none has to happen. Which of two blocked readers
is served first is not assumed fair. In `GTPHandshake` the listener and each
caller are fair, their deadlines included (`SetDeadline`, `handshake.go:73`, 83,
150): time passes. After the handshake the code sets no deadline, so a session on a
silent link waits for the system's TCP keep-alive, which Go turns on by default; that
is why `BrokenConnEndsSession` speaks of connections whose end is reported.

The handshake's bounds: two callers are what a competition for one Accept takes;
two attempts show both branches of the retry, two starts a receiver that was
started again. Window limits 4 and 8 against wishes of 0 and 100 are below and above both.

The USB mode's bounds: a channel of one is full after one event, as the one of 16
is after 16; two interfaces give an order among events and a second one that waits
while the first has its session; two changes are a cable pulled and put back, one
failure is enough to report all of them removed. Its fairness: each goroutine of the
detector runs, the timer fires, sessions and prompts end (a user who never answers, or a
session that hangs as in finding 1, holds the loop). Cases of a select that
are ready again and again are taken (strong fairness), since Go picks among ready cases
at random. Cables, interrupts and failures are not fair.

The GUI's bounds: two transfers overlap or follow one another; three events are a
request, a second that overlaps with it, and a reset or a cable. The first choice of
a role is free, as nothing starts without one. One page meets the push loop; with more
they differ only in who waits. --peer, a request, a cable and the fixed address are told
apart with one peer each: two requests for different peers overlap only where the property
no longer speaks. Its fairness: the push loop ticks, handlers run, and
pages read what they are sent; requests, transfers and cables are not fair. The hub can
only settle because pages read: see finding 13.

## 4. Findings

1. `gtp_complete_race` - the reader left over from sending the chunks may take
   COMPLETE_ACK (or its header) away from the main goroutine, without any fault;
   the sender then waits for ever in `ReadControl`, and the receiver for the next offer.
2. `gtp_window_hang` - after an error taken in the full-window loop
   (`sender.go:195-204`) the final drain still expects a window of entries from a
   goroutine that has returned: `Send` never returns the error. `WaitsAreServed` proves
   that this is the only way to be left waiting for a goroutine that has returned, and
   `HangingLasts` that nothing but the end of the process ends it, for every window.
3. `gtp_resume` - a partial file that does not end on a chunk boundary is opened
   with O_APPEND and not cut back: the resumed transfer cannot verify and the
   partial file is lost. Integrity is not affected: the hash is compared.
4. `gtp_promote` - "Atomically promote" is a remove and a rename.
5. `gtp_scan` - the scan's probe is a TCP connection to the port where ListenAll
   accepts one connection. The receiver that is found by the scan takes the probe
   for its sender, reads no HELLO, and returns; the Connect that follows finds nobody.

6. `usb_linux` - a cable connected while the program waits on Linux is never noticed:
   the attributes of every netlink message are refused (`detector_linux.go:128`).

Without a run (`PROJECT.json` has the details):

7. A refused chunk is not retransmitted (`messages.go:75` says so).
8. PROTOCOL.md describes another window negotiation than the code has.
9. The netlink groups are numbers used as a bit mask (`detector_linux.go:34`).
10. cancel neither stops nor closes a detector that is blocked (`detector.go:34`).
11. A stale tick of the timer asks for a network scan after a cable session (`main.go:94`).
12. HasTargetIP compares the beginning of addresses (`netconfig.go:27`), and Reset leaves
    the running transfer to set the phase (`api.go:294`).
13. A page that does not read stops the updates of all, and the first snapshot is a
    second writer (`hub.go:40`, `server.go:126`).
14. Errors of a file are reported under another name than its progress (`gtp/sender.go:26`).

## 5. Proofs

Checked by TLAPS, for every number of files, names, window, chunk size, queue
length, fault budget and number of sessions. The only assumptions are those on
the constants: the numbers are positive naturals (`WireAssumption`,
`SessionAssumption`), `Versions` maps files to sets of contents, `NameOf` maps
files to names (not injective), `NoFile` is not a file, and damage (`Junk`) is told apart
from every content (`JunkAssumption`).

`GTPTransferProofs`: `TypeCorrect == Spec => []TypeInv` and `TypesHold == Spec =>
[]TypeOK`. `TypeOK` alone is not inductive: appending to the partial file needs
that it exists (`PartOpen`), taking the channel of the current file needs that
`cur` is a file and a count above zero in the full-window loop (`SenderBusy`), and
the receiver's `rfile` needs that an offer names a file (`OffersNamed`). One lemma
per group of actions: reads, the ackReaders, the main goroutine, faults, the
receiver's steps and its returns.

`GTPIntegrityProofs`: `IntegrityIsInvariant == Spec => []IntegrityInv` and
`DestIsIntact == Spec => []DestIntegrity`. The receiver compares the hash of
COMPLETE with the partial file of the last OFFER it read; it never compares
FileID. That the two belong together is a fact about the queue:

- `FramesOwned`: going back from a COMPLETE in the queue, the first offer met (or
  the last one read) is that of its own file; and while the sender works on a file,
  the same holds for the end of the queue. Lemmas `OfferedAgree`, `OfferedAppend`,
  `OfferedTail` say how "the last file offered" changes when a frame is sent, read,
  damaged, or the end of the queue is lost.
- `HashesOfVersions`: the hash in a COMPLETE is that of a version of its file.
- `PromotedIsVersion`: between the comparison and the rename the partial file is
  that version.
- `SyncedOnDisk`: it was synced before the comparison and final files are synced, so
  a crash of the machine takes nothing from either (`SyncedSurvives`).

`GTPFlowProofs`: what is on its way, counted. The wire counts pieces (a header and a
payload for each frame to the sender) and several goroutines read them one at a time.

- `FlowInv` (`FlowIsInvariant`): while the connection is up, pieces come in pairs
  (`Framed`; only the first one may have been read already); frames under way, the one the responsible goroutine holds and the
  acknowledgements in its channel are at most `inFlight` while chunks are sent, at most one
  after an offer or a COMPLETE, none before them (`FramesCounted`). Leftover readers
  only make the sum smaller. `WindowIsRespected` follows.
- `ExactInv` (`ExactIsInvariant`): of the first file the sum is equal, because its
  `ackReader` is the only goroutine that reads (`Alone`), and every acknowledgement is a
  positive one as long as the connection is up. With `FlowInv` it gives `AcksAreConserved`.
- `ServedInv` (`ServedIsInvariant`): an `ackReader` that returns has left its error last
  in its channel until `sendChunks` takes it; and `inFlight` reaches the window only in the
  loop of the full window and after an error was taken there.
  `WaitsAreServed` and the action property `HungForGood` (`HangingLasts`) follow. No run
  lists `HungForGood`; TLC finds it true of both instances.

`GTPDeliveryProofs`: `DeliveryIsInvariant == Spec => []DeliveryInv`, on top of
`IntegrityInv` and `FlowInv`. FileID is compared by neither side, so that a reply belongs to
the request at hand has to come from the order of things: a request is sent when nothing
is under way, so the receiver meets it first and alone (`RequestFirst`); it has one
reply, which is in the stream or in the hands of the main goroutine or lost to another
reader (`OneReply`); and requests and replies are of the phase and the file the sender is
in (`InPhase`). Hence how many files the receiver has verified is `cur - 1`, or `cur` once a
positive COMPLETE_ACK is under way (`CountsAgree`), and the file it works on is the next
one (`RightFile`). `CompleteComesLast`, `DoneMeansAllStored` and the refinement
`TransferDelivers == Spec => DeliversFiles` follow: each action of the session maps to one
of FileDelivery or to a stutter (`SenderDelivers`, `ReceiverDelivers`, `NextDelivers`).

`GTPContentProofs`: `ContentIsInvariant == Spec => []ContentInv`, on top of `DeliveryInv`.
`NumbersAgree`: from the FILE_ACCEPT on, the sender's chunk number is what the receiver
expects plus what it has not read; `JunkIsFlagged`: damage always shows in the CRC;
`VerifiedIsSafe`: what has been verified is whole and synced, under its final name or in
the partial file. `ChunksArriveInSequence`, `JunkStaysOffDisk` and `ReportedStaysSafe`
follow, with the assumption `JunkAssumption`, that the unit that stands for damage is in
no file's contents, without which `NoJunkOnDisk` would have nothing to tell apart, and for
the last one the hypothesis `OwnNames`, that the files of a list have different names.
Without the latter `ReportedIsSafe` is false: a second file under the same name replaces the
first. `DestIsIntact` and `TransferDelivers` do not need it.

`gtp_two_files` checks `DeliveryInv` (with `IntegrityInv` and `FlowInv` in it), `ExactInv`
and `ContentInv` with TLC.

`GTPHandshakeProofs`, for any set of callers, any HELLO whose window is an integer, any
limits with `DefaultWindow <= MaxWindow` (`HandshakeAssumption`): `HandshakeIsInvariant ==
Spec => []HandshakeInv`, and from it `TypesHold`, `EndsAgree` (`Agreement`),
`RefusalHasCause` (`RefusedForCause`) and `GivingUpCloses` (`HalfOpenIsClosed`).

- `SettledInv`: the step that needs an invariant is a caller reading its HELLO_ACK, which
  carries a window and a reason and nothing about the listener: `AgreementInv` says that
  an acceptance on its way already agrees with what the listener has settled, and
  `NobodyYet` that before the listener returns there is none.
- `CauseKnown`: a HELLO_ACK on its way is the answer to the HELLO of the caller it goes to
  (`AnswersTheCaller`), so a caller that comes second never hears another's refusal.
- `OpenKnown`: an open link whose HELLO is unread, or that ListenAll returned, belongs to
  a caller that waits or is ready. A caller leaves `wait` only by closing the link or by
  being accepted, and it dials once, so no link opens again (`CallerLeavesOpen`).

`gtp_handshake` checks `HandshakeInv` with TLC.

`UsbModeProofs`, for any interfaces, platforms, channel size, number of changes and
failures (`DetectorAssumption`, `PeerAssumption`): `TypesHold == Spec => []TypeOK`,
`LoopWakes == Spec => []AlwaysWakes` and `Alternation == Spec => EventsAlternate`. The
last needs `ReportInv` (`ReportsAreNews`): for each interface, what is in `todo` is not
what was last sent (`News`), and between polls what was last sent agrees with `known`
(`Told`); on Linux only the startup goroutine sends, and each interface once.

`WebGUIProofs`, for any files, names (injective or not), peers, pages and number of
transfers and requests (`WebAssumption`): `TypesHold`, and one theorem for each
invariant of the `gui` run.
- `TypeInv` adds to `TypeOK` that a transfer inside a file has one (`InFile`); it is
  enough for `DoneIsSaidOfSessions` and `TransferIsSaidOfRunning`, whose one difficult
  step each is a transfer that ends while others set the phase.
- `DoneInv` (`DoneMeansEverything`): without an overlap at most one transfer runs, and the
  entries are `Sound` for where it is: whole, or its current file's, or absent because
  of a reset. While it runs no session is done.
- `PeerInv` (`PeerIsTheOneDialled`): without an overlap at most one set-peer request is
  between its steps, and it carries what `cfg` has; when there is none, the page shows no
  peer or the one `RemoteIP` gives. That `NoPeer` is neither a peer nor the address of the
  other end is all that is assumed of addresses.
- `StoreInv` (`QueuedIsThere`): an upload between its steps is stored, and none is while
  a reset-files request is between its own, whose queue has no uploads.

Only model-checked: everything about liveness, which needs fairness and ENABLED and is
out of the prover's reach: `PipelineDrains`, `BrokenConnEndsSession`,
`ReceiverFollowsSender`, `AckReadersReturn`, `ListenAllReturns`, `ConnectReturns`,
`ViewSettles`, `InterruptEnds`, `CancelCloses`, `PagesSettle`; and the violations of section 4,
which are counterexamples and not theorems. Every invariant and every action property that
the passing runs check is a theorem.

## 6. Not modelled

- Inside the session: the progress numbers, the speed computation and the messages
  shown; the contents of ERROR; an intentionally hostile peer (both ends are this
  program).
- Names: `relativeName`, `sanitizePath` and `CommonBaseDir` are string computations;
  the models take any mapping of files to names instead, injective or not.
- Legacy transfer, handshake and messages: nothing in the repository calls them (only
  `CommonBaseDir` is used).
- Multicast discovery: one datagram out, answers in until a deadline. The scan's
  enumeration of hosts. Neither keeps a state.
- Configuration: the flags other than --peer, the addresses of interfaces and the search
  for a free port are input and calls to the system.
- GUI page: it shows snapshots and sends requests, which the model takes in any order.
  The port, the download directory and the suggested addresses. What an upload
  contains: `api.go:143` does not look at io.Copy's error.
- Terminal UI, logger, launcher, scripts and packaging.

## 7. What could follow

The modules are not composed across the network boundary: `UsbMode` and `WebGUI` take
a session for a step that ends one way or another, the handshake hands `GTPTransfer` its
beginning. A composition would add no interaction: none of them shares state with a
running session but the callbacks, which are in `WebGUI`.

Next to be proved: that the channel of an `ackReader` always has room for what its
goroutine has to push, also after the connection has gone (two acknowledgements of a
window of one fill it when a file shrinks under COMPLETE, so this takes a window of at least
two, and a count of the DATA_ACK headers left in the stream that does not rest on `Framed`);
an abstract specification of the interfaces as the USB mode's user sees them, which
`UsbMode` implements; and one of the phases of the GUI.
