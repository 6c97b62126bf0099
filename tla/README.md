# TLA+ models of the NICOF inside proxy

NICOF lets programs in CMS virtual machines (the *clients*) talk to the
outside world.

- A client uses the client library (`src/cms/nicofclt.c`) to send a VMCF
  SEND/RECV to the *inside proxy* (`src/cms/ioproxy.c`).
- The inside proxy forwards each request through a dialed 3270 terminal
  (device 097) to an *outside proxy*, which is not part of this repository.
- The outside proxy sends the response back the same way, and the inside
  proxy answers the client with a VMCF REPLY.

The socket API, the FTP server and the NHFS file services are built on top
of the client library.

This project models:

- the inside proxy: its slot table, its two interrupt handlers and the 3270
  handshake protocol, with the device, the outside proxy and VMCF as its
  environment;
- the 7-of-8 decode and header parse of a response frame, checked against
  an encoder written from the specification (`SevenOfEight`);
- an abstract specification of the service the inside proxy promises
  (`ProxyService`), and the refinement showing `IoProxy` implements it;
- the client library: request handles, the msgId state encoding, the
  response interrupt and the blocking waits (`NicofClient`);
- the socket API of `ncfsockt.c` over NICOF requests to the TCP/IP proxy
  (`NcfSocket`);
- the NICOF base services' bulk streams (`ncfbases.c`) and the NHFS file
  transfer commands GET, GETBIN, PUT and PUTBIN that use them
  (`NcfStream`);
- the FTP server `cmsftpd.c`: its main loop over several control
  connections, the login, the file commands and the upload of a file into
  CMS records (`CmsFtpd`, `MC_CmsFtpd`).

## The parts and how they interact

| Part | Code | Module |
|---|---|---|
| Request buffers, free ring, transmit ring | `ioproxy.c` 219-296, 378-440 | `SlotTable` |
| VMCF: client SEND/RECV, proxy RECEIVE, REPLY, REJECT | `nicofclt.c` `ncf_021`; `ioproxy.c` 350-357, 402-474 | `Vmcf` |
| 3270 device 097 and the outside proxy | `doSIO`, `beginReceivePacket`, the frames of `endReceivePacket` | `Channel` |
| `handleExt`, `devintHandler`, `endReceivePacket`, the `enter_*` routines | `ioproxy.c` 476-531, 779-1203 | `IoProxy` |
| Model instance for TLC | — | `MC_IoProxy` |
| What the proxy promises: each request answered once, correctly | specification §8 | `ProxyService` |
| Client library: request list, msgId states, `handleExt`, waits | `nicofclt.c` 38-611, `intrapi.h` timer | `NicofClient` |
| Socket table and socket calls, `selectX` | `ncfsockt.c` | `NcfSocket` |
| Base-service invocations, NCFIO streams, NHFS transfers | `ncfbases.c` 90-642, `nhfs.c` 215-380, `svcnhfs.c`, `nhfscomn.c` `writeRecord` | `NcfStream`, `MC_NcfStream` |
| FTP server: main loop, sessions, commands, STOR, RETR | `cmsftpd.c` 158-200, 478-1139, 1376-2102 | `CmsFtpd`, `MC_CmsFtpd` |

Three contexts run in the proxy:

- **Main program.** It only waits and prints.
- **`handleExt`.** The VMCF external interrupt handler:
  - takes a free slot with `getSlot`, or rejects with reason 1;
  - enqueues the request's metadata;
  - if the protocol is `IDLE`, starts a transmission with
    `enter_iTRANSMITPREP`, which writes WillSend;
  - for the SMSG `STAT`, writes a Dump frame.
- **`devintHandler`.** The 3270 device interrupt handler:
  - *Attention* starts a read.
  - *DeviceEnd* of a read runs `endReceivePacket`. It decodes the AID and
    drives the protocol. It may RECEIVE a request's data and write it
    (`enter_iTRANSMITTING`), REPLY to a client and free the slot, or reset
    all requests after a new outside proxy dials in.
  - *DeviceEnd* of a write promotes a pending state `iX` to `X`.

A device interrupt can preempt `handleExt`. `handleExt` cannot preempt
itself. The two handlers share `pstate`, the rings and the device.

## How the modules correspond to the code

- **`SlotTable`**
  - The ring variables (`reqFree`, `reqCurrFree`, `reqLastFree`,
    `reqQueue`, `reqLastIn`, `reqLastOut`) are the C statics of the same
    names. Slot numbers stand for `RequestPtr`s, and `NoSlot` stands for
    NULL.
  - Each slot keeps its user, its message id (0 when free), whether
    `inDataLen > 0`, and which request's payload was last received into
    `inData`.
  - `TakeFreeSlot`, `FreeSlot` and `DequeueRequest` are the state changes
    of `getSlot`, `freeSlot` and `getNextRequestToSend`. `NextFreeSlot` and
    `NextQueuedSlot` are the values these functions return.
- **`Vmcf`**
  - A request is `<<client, msgId>>`.
  - `ClientSend` makes a request pending and queues its external interrupt.
  - `Answer` is a REPLY or a REJECT. An answer to a message that is not
    pending fails and changes nothing, as a non-zero VMCF return code
    would.
  - `CanReceive` is the success of RECEIVE.
- **`Channel`**
  - `dev` is the channel program that is running. `Sio` is `doSIO`: on a
    busy device, both of its attempts fail and it only logs.
  - `Complete` is the DeviceEnd: a written frame reaches the outside proxy,
    and a read frame leaves it.
  - Inbound frames are records: `aid`, a length class, the want-send byte
    after F1, "DIAL " at offset 6, and the slot on the wire.
  - The outside proxy (`Peer*`) is modelled from the protocol tables of the
    specification, because its code is not in this repository:
    - it answers frames;
    - it keeps the responses to the packets it was sent until they are
      acknowledged (Ack or DoSend);
    - it offers them with want-send (F5);
    - it treats a WillSend that crosses its own F5 as the collision the
      inside proxy wins;
    - with `Noisy`, it may send junk;
    - with `MaxReconnect`, it may be replaced by a new outside proxy
      (Clear, then DIAL).
- **`IoProxy`**
  - `handleExt` is split into one step per access to shared state:
    `ExtGetSlot`, `ExtEnqueue` (metadata and `reqQueue[idx]`), `ExtPublish`
    (`reqLastIn = idx`), `ExtCheck` (`pstate == s_IDLE`), `ExtEnter`
    (`pstate = s_iTRANSMITPREP`) and `ExtSio` (the WillSend SIO). The STAT
    path is `ExtStat`.
  - Each `devintHandler` invocation is one step: `AttentionInt`,
    `ReadEndInt` (all of `endReceivePacket`, as `EndReceivePacket` and
    `DataResponse`) or `WriteEndInt`.
  - `fault` records that `enter_iTRANSMITTING` was called with NULL. The C
    code would dereference it, so the model stops there.

- **`SevenOfEight`** (a pure module, no variables): the data part of
  `endReceivePacket` in 7-of-8 mode, over frames as sequences of byte
  values.
  - `DecodeBlock` and the recursive `DecodeBlocks` are the `while (dlen >
    0)` loop: 7 bytes per block get bit 7 back where the modifier
    `block[7]` has the bit of `mask` (0x40, shifted right) set.
  - `DecodeInPlace` writes the decoded bytes over the encoded ones from
    `recvBuffer[11]` on and leaves the rest of the buffer as it was, as
    `dest` lags behind `block`. `DecodedLen` is the new `recvLen`.
  - `Receive` reads slot (a signed `short`), the two user words and
    `xmitDataLen` big-endian from the decoded bytes, clamps `xmitDataLen`
    to `RecvDataLen` (`recvLen - 21`, as an `unsigned short`), and returns
    what `sendVmcfReplyForSlot` gets.
  - `Encode`, `EncodeGroup`, `Bytes` and `Frame` are the outside proxy's
    encoder, from spec.md 4.1 (its code is not in this repository). They
    are only the reference the decoder is checked against.
  - `IoProxy` extends it: `RoundTripSlots` and `ClampedSlots` are the wire
    slots for which the decode is faithful, and `ReplyIsPayload` and
    `ReplyWithinFrame` require every data frame the outside proxy presents
    in 7-of-8 mode to have such a slot.

- **`ProxyService`** (abstract). A request is `sent`, then `accepted`
  (taken on by the proxy), and answered once. The answer is a reply with its
  own response, a reject with reason 1 (only if never accepted), or a reject
  with reason 2 at a reconnect (only if accepted). `IoProxy` instantiates it
  with `pending <- vmcfPending` and `accepted <- AcceptedRequests`: the
  requests named by a slot, plus the one `handleExt` holds between
  `getSlot` and `enqueueRequest`.
- **`NicofClient`**
  - `requests` is the C list, head first. A handle stands for a
    `NICOFCLT_REQ_PTR`. `msgId`, `recvRc`, `filterTag`, `lastMsgId`,
    `responseFilter` and `rcv_ecb` are the C variables of the same names.
  - `filterTag` starts as any tag, because `allocRequest` never sets it.
  - The program calls the API in any order. Each API function is one action:
    `CreateRequest` (`ncf_010`), `SendRequest` (`ncf_021`, a failing
    `vmcf_request` included), `WaitForResponse` (`ncf_030`),
    `WaitForAnyAvailable` (`ncf_031`), `WaitForAnyAvailableX` (`ncf_037`),
    `GetResponse` (`ncf_040`-`043`), `FreeRequest` (`ncf_050`) and
    `SetFilterTag` (`ncf_035`).
  - A blocking loop is a label of `cpc`. `WaitEcb` is `wait_ecb` or
    `wait_anyecb` returning. `ClearEcb` is the `rcv_ecb = 0` after it, a
    separate step, so that `handleExt` can post in between.
  - `HandleExt` is the interrupt handler. It runs between any two program
    steps when the service answers a message.
  - The msgId width is a constant: 5 bits instead of the code's 32. The wrap
    arithmetic is the same.

- **`NcfSocket`**
  - `sockets` is the static `SOCKENTRY` array. Each entry keeps its flags,
    `recvHandle`, `sendHandle`, `recvFrom` and `recvRemaining`.
  - A request handle is abstracted to what `ncfsockt` reads of it. That is
    its library state (free, pending, received, returned), command, socket
    number, length, answer and filter tag. `NicofClient` models the library
    itself.
  - A blocking call is two actions: the call (`Socket`, `Connect`, `Send`,
    `Recv`, `Accept`, `Listen`, `Bind`, `Shutdown`, `Closesocket`) sends
    its request, and `*Done` completes it once the response is in. A
    non-blocking call parks its handle in the socket entry and returns
    EWOULDBLOCK. `SelectX`, `SelectWait` and `SelectOut` are the post, wait
    and scan of `selectX`. `Answer` is the TCP/IP proxy answering a request
    with success, an errno or a VMCF reject.
- **`NcfStream`**
  - It models one run of `nhfs` (`rnhfs` has the same loops): the command
    `cmd`, the host file (`host`, `hpos`) and the CMS file (`cmsIn`,
    `cmsOut`).
  - `str` is the `BULKSTREAMSTRUCTPRIV` with the same field names.
    `lineEndMode` is the static of `ncfbases.c`.
  - Each base-service invocation (`ncfb_020`, `ncfb_021`, `ncfb_022`) is
    atomic. `Results` is its outcome: the service's answer, or a failure
    counted in `faults`, after which the service may or may not have done
    the work. A failed invocation leaves `buffer`, `bufLen` and
    `streamState` as they were, as the C code does.
  - `ngetstr`, `nread`, `nputstr` and `nwrite` are split at each
    invocation: `*_begin`, `*_fetch` (a read), `putc` (the `_putc` macro
    with `nflush_inner`) and `*_end`. `frame` holds their locals. `pc` is
    the place in `main`.
  - `GetRet`, `GetbinRet` and `PutRet` are the tests `main` makes of each
    result. `WriteRecord` is `writeRecord` of a RECFM V file.
  - The host file service is not code of this repository. It is modelled
    from the stream state codes: a read answers some bytes or the end, and
    a write stores the bytes or reports MEDIA_FULL. `svcErr` records that
    the service reported an error.

- **`CmsFtpd`**
  - The server is one thread. `pc` is where `main` is: in
    `waitForSocket` (`select`), at the accept (`accept`), walking the
    session list (`scan`, with `todo` the sessions still to look at), in
    `getCtlLine`'s recv loop (`recv`, with `buf` what it has read) or in a
    command's handler (`cmd`). `stopped` is after `sock_shutdown`.
  - `sessions` is the session list in list order, `sess` the `HANDLE`
    fields (`loggedIn`, `notedUser`, `currDisk`, `currDir`, `psvSocket`,
    `havingActiveClientAddr`, `ftpTrfBinary`, `renameFn`...), and
    `clientSocks`/`clientSockCount` the statics of the same names.
    `srvOpen` is `srvSocket >= 0`.
  - `AddClientSock`, `DropClientSock`, `Accept`, `AcceptFails`, `Select`,
    `Terminate` and `Scan` are the lines of `main` and its helpers. `Recv`
    is one `recv` of `getCtlLine`; the command actions (`Login`,
    `ReplyOnly`, `Port`, `Pasv`, `Cwd`, `Type`, `Retr`, `List`, `Stor`,
    `Dele`, `Rnfr`, `Rnto`, `DropSession`) each run one
    `processSingleCmd` to its end, as the code does, and `Answered` is the
    final `sendCtrlMsg`. LIST only sends data, so `List` changes nothing
    but the walk. `Retr` records in the history variable `dl` the last
    download that got its 226: the records read, the transfer type, the
    bytes the client received and whether a `send` failed.
  - `Download` is `cmdRETR`'s transfer. `AsciiLine` is `readRecord`'s
    text trim (the trailing blanks go, but never the first character) plus
    `transmitAsciiLine`'s CR LF. `TransmitUnit` is `transmitUnit` over
    `bufData` of `PACKETLEN` bytes: a unit that does not fit first flushes
    the buffer, and when that `send` fails the unit is dropped and
    `bufUsed` is kept. `TransmitEnd` is `transmitEnd`. `Download`'s
    result is the set of outcomes the failing network allows.
  - The fault model (`NetCanFail`): `selectX` may fail, which
    `waitForSocket` reports like "terminate" (`SelectFails`); `accept`,
    `recv` (`getCtlLine` returns NULL and the session is dropped), PASV's
    socket and the data connection may fail.
  - A command line is one token, a file name a model value, a path the
    record of its directory part; `ParseFullPath`, `GetDirIdx` and
    `GetDiskIdx` keep every result code of the C functions. A file is the
    sequence of its records, `<<>>` meaning that it does not exist.
    `StorRecords` is the receive loop of `cmdSTOR` over the bytes "a",
    "cr", "lf", and `WriteRecord` is `writeRecord` with its fill of an
    empty record.
  - The clients (`Connect`, `SendCmd`, `Hangup`) and the TCP/IP
    environment (`Pending`) are the environment: a client sends a command
    only after the reply to the one before, and may hang up at any time.
  - Undefined behaviour is taken the harmless way: an upload into the
    root (`disks[-1]`) is refused, and `FD_ISSET(-1)` is false.

### Interrupt assumptions

- A pending Attention is taken at the next instruction boundary. Ext steps
  therefore need `attn = "none"`. The outside proxy raises Attention only
  while the device is idle.
- `MaxPreempt` bounds the number of device interrupts that fall into one
  run of `handleExt`. `handleExt` runs for a few instructions, while each
  device interrupt needs a channel program and an answer from the outside
  proxy. `MaxPreempt = 0` runs each `handleExt` atomically with respect to
  read ends and write ends.


## Runs

The `IoProxy` runs use `MC_IoProxy` with `N = 3` slots, which is
`MAX_REQUEST_COUNT` scaled down, and two clients.

- With `MaxReq = 2` requests per client there are 4 requests for 2 usable
  slots. This exercises both ring wrap-around and rejection.
- One request of each client carries data and one does not.

Every run sets `CHECK_DEADLOCK FALSE`. The programs and clients are
bounded and rightly stop when they are done. A client program blocked
forever in `ncf_031` on a filter that no pending request has is a real
stop, too.

| Run | Bounds | Checks | Result |
|---|---|---|---|
| `IoProxy_faults` | one client, 3 requests, `MaxReconnect = 1`, `Noisy`, `MaxStat = 1` | `TypeOK`, `SlotsExclusive`, `NoOrphanRequest`, `ReplyIntegrity`, `ReplyIsPayload`, `ReplyWithinFrame`, `ImplementsProxyService` | pass, 294,037 states |
| `IoProxy_live` | `MaxPreempt = 1`, `FairSpec` | `NoOrphanRequest`, `NoNullDequeue`, `EveryRequestAnswered` | pass, 63,818 states |
| `IoProxy_preempt_willsend` | `MaxPreempt = 1` | `PendingWriteMatches` | violation |
| `IoProxy_reconnect_race` | `MaxPreempt = 1`, `MaxReconnect = 1` | `SlotsExclusive` | violation |
| `NicofClient_safety` | 2 handles (both at init), 2 sends, tags {0, 1}, `FairSpec` | `TypeOK`, `OwnerHoldsMsgId`, `AnswerToSender`, `WaitsReturn` | pass, 70,424 states |
| `NcfSocket_safety` | 2 socket numbers, 2 handles, lengths 0..1, failing `vmcf_request` | `TypeOK`, `HeldRequestsValid`, `WaitsOnOwnRequest` | pass, 406,658 states |
| `NcfSocket_partial_recv` | 1 socket number, lengths 0..2 | `RecvInProgressOnlyForOther` | violation |
| `NcfStream_safety` | all four transfers, host files of up to 4 bytes, CMS files of up to 3 records, `Lrecl = 2`, 2-byte buffers, up to 2 failed invocations, MEDIA_FULL, failing CMS writes, `FairSpec` | `TypeOK`, `SinkCopyFaithful`, `SinkInOrder`, `Terminates` | pass, 328,539 states |
| `NcfStream_getbin_tail` | GETBIN only, no failures | `SourceCopyFaithful` | violation |
| `CmsFtpd_safety` | 2 clients (4 and 5 commands), disks A (R/W) and B (R/O), 2 file names, `LRECL = 2`, 2 records per disk, failing network, `-pwd` set | `TypeOK`, `LoggedInOnlyAfterCredentials`, `NoSessionCut`, `FileChangesAuthorized`, `DownloadFaithful` | pass, 457,014 states |
| `CmsFtpd_split_lines` | 2 clients logging in (USER, PASS), `SplitLines = TRUE`, reliable network | `ServerAnswers` | violation |
| `CmsFtpd_stor_lrecl` | 1 client, PASS, PASV, STOR of "aa" CR LF, `LRECL = 2` | `StorFaithful` | violation |

`IoProxy_faults` lets the console type STAT once (`MaxStat = 1`), so the
dump path of the main loop runs beside reconnects and junk frames.
`PendingWriteMatches` is checked only by `IoProxy_preempt_willsend`: the
STAT path (`ioproxy.c:502`) loses a write the same way, and is listed as a
hazard. For the same reason `IoProxy_live` has no STAT: a STAT dump that
eats the write leaves a request unanswered.

### What the properties say

- `SlotsExclusive`, `ReplyIntegrity`, `NoOrphanRequest`: a slot is in at
  most one of the free ring, the queue and the in-flight set. A reply goes
  only to the request the response answers. Every request `handleExt`
  accepted is in a slot or was rejected.
- `PendingWriteMatches`: the protocol state the inside proxy is in agrees
  with the frame the outside proxy was really sent.
- `NoNullDequeue`: `enter_iTRANSMITTING` never gets NULL from
  `dequeueRequest`, also when a device interrupt runs inside `handleExt`.
- `ImplementsProxyService`: `IoProxy` refines `ProxyService`.
- `ReplyIsPayload`: the round-trip law of the specification. Every data
  frame in 7-of-8 mode, whatever its slot (in range, `N`, or -1), user
  words and payload (0 to 3 bytes, with and without bit 7, so that the
  last 7-byte group is full or padded), is handed to
  `sendVmcfReplyForSlot` with exactly those fields, whatever stale bytes
  `recvBuffer` holds beyond the frame. This is what lets `IoProxy` treat
  a response as its slot and request.
- `ReplyWithinFrame`: a frame declaring a longer payload than it carries
  (one byte more, or 65535) gets a reply that does not depend on the
  stale bytes beyond the frame: the clamp keeps the reply inside the
  bytes just read. The clamp is still two bytes too generous
  (`recvLen - 21` where the header is 23 bytes), so such a reply carries
  two bytes of the frame's encoded tail; the specification says it is
  truncated to the residue. No run is spent on that: those two bytes are
  bytes of the same frame.
- `EveryRequestAnswered` (liveness): every request is eventually replied
  to or rejected.
- `OwnerHoldsMsgId`, `AnswerToSender`: a pending msgId belongs to exactly
  one request, and an answer reaches the request that sent the message.
- `WaitsReturn` (liveness): every blocking wait eventually returns.
- `HeldRequestsValid`, `WaitsOnOwnRequest`: a handle parked in a socket
  entry is a live request of that socket and is parked nowhere else. A
  blocked socket call waits for a request of its own command and socket
  number: `connect`, `recv` and `accept` share `recvHandle`. Numbers are
  compared, not connections, so a connection that `accept` gives a reused
  number (`ncfsockt.c:1077`) is not told apart; that stays a hazard.
- `SinkCopyFaithful`: a PUT or PUTBIN that ends with rc 0, without a
  failed invocation or a service error, leaves on the host exactly the CMS
  records. For PUT each record is followed by the line end of
  `lineEndMode`.
- `SinkInOrder`: the host receives a subsequence of the bytes the program
  put, in order: nothing twice, nothing reordered, whatever fails.
- `Terminates` (liveness): every transfer ends once the failures stop:
  after up to `MaxFaults` failed invocations, with end-of-file and
  MEDIA_FULL answers. It claims nothing about invocations that fail
  forever, or a source that reports READ_ERROR: a failed read leaves
  `streamState` OK, so GET and GETBIN then loop forever (a hazard).
- `LoggedInOnlyAfterCredentials`: with `-pwd`, a logged-in session's
  last two login commands were USER with the VM user and PASS with the
  password, whatever failed logins, repeated USERs and PASSes came before.
- `FileChangesAuthorized` (action): a file changes only in a command
  handler of a logged-in session, and never on a R/O disk.
- `NoSessionCut`: the server never shuts down while a session is open,
  also after an accept failure closed the server socket, unless
  `waitForSocket` returned true ("terminate" or a `selectX` error).
- `ServerAnswers` (liveness): every command of a connected client is
  eventually answered, or its connection ends, whatever the other client
  does. It depends on how the network cuts a control line into recvs, and
  `CmsFtpd_split_lines` shows it violated.
- `DownloadFaithful`: a download that got 226 and in which no `send`
  failed delivered every record in order and whole, through any number
  of `bufData` flushes. In binary mode that is the records' bytes; in text
  mode each record without its trailing blanks, plus CR LF.
- `StorFaithful` (action): a text upload that fits on the disk stores the
  lines wrapped at LRECL, one record per line piece.
- `SourceCopyFaithful`: an undisturbed GET writes the host file's lines as
  records, and an undisturbed GETBIN writes its bytes.

### What the violations show (`findings` in `PROJECT.json`)

- **`IoProxy_preempt_willsend`**
  1. A read of F5 is in progress when a request arrives. `handleExt` finds
     `pstate == IDLE`.
  2. The read's DeviceEnd enters `iRECEIVING` and writes DoSend.
  3. `handleExt` sets `iTRANSMITPREP`. Its WillSend SIO fails on the busy
     device.
  4. The DoSend DeviceEnd promotes the state to `TRANSMITPREP`, although
     the outside proxy was never sent WillSend.

  One preemption is enough.
- **`IoProxy_reconnect_race`**
  1. A DIAL is handled between `getSlot` and `enqueueRequest`.
  2. `initRequestBuffers` puts back into the free ring the slot that
     `handleExt` holds.
  3. `handleExt` then enqueues it: the slot is both free and queued.
- **`CmsFtpd_stor_lrecl`**: `cmdSTOR` writes a text record when
  `recFilled` reaches LRECL and another at the LF that ends the line. A line
  of exactly LRECL characters is followed by an empty record, stored as one
  blank: with the default `:V80` every 80-column line gets a blank line.
  The header of `cmsftpd.c` says text is stored "wrapping at column nnn".
- **`NcfSocket_partial_recv`**: `recv` unsets `F_PENDRECV` before it waits,
  so the next `recv` stops at `SOCKERR_IF_INPROGRESSOTHER` with
  EINPROGRESS. The rest of a response longer than the buffer is never
  delivered.
- **`NcfStream_getbin_tail`**: GETBIN calls `nread` and then tests
  `neof` before it writes the record. When the service reports the end
  with the last data, the last record is never written, and `nhfs` still
  ends with rc 0. A host file of 2 bytes with `Lrecl = 2` gives an empty
  CMS file.
- **`CmsFtpd_split_lines`**: with `SplitLines = TRUE` a recv may return
  part of a control line. c1 sends USER and PASS; the LF that ends PASS
  arrives in a recv of its own after the CR was consumed, so `getCtlLine`
  calls recv again (`cmsftpd.c:1747-1755`) and blocks on c1's socket.
  c2's PASS is never answered. `main()` accepts further sessions
  (`cmsftpd.c:2055-2076`) although the header calls the server
  single-session, and one blocking recv stalls all of them.

Two earlier violation runs were retired to make room for the FTP server
and are kept as hazards: `ncf_031` without a filter returns the head of
the request list at once (`nicofclt.h` says it waits for the next
response), and the wrap of `++lastMsgId` into the state codes delivers an
answer to another request (found with a 5-bit counter started at 30).

While modelling `NcfStream`, TLC also showed two more lost or duplicated
data paths in GET. They are in `hazards`, because each violation run checks
one property:

- After a failed read, `ngetstr` replays the old buffer: the host file "c"
  gives the record "cc".
- The uninitialised `lastLineWasBufferEnd` can drop a leading empty line.

`IoProxy`'s free ring parks one slot, so `getSlot` rejects at
`MAX_REQUEST_COUNT - 1` slots in use. The specification (§8) says it
rejects only when all 128 are in flight. The model keeps the parked slot,
and this is listed as a hazard.

### Mutants

Each property of a passing run is broken by a seeded bug in the code it is
about:

| Seeded bug | Property it breaks |
|---|---|
| the `RING_NEXT` wrap test is off by one | `TypeOK` (IoProxy) |
| the no-slot path does not reject | `NoOrphanRequest` (live) |
| `iIDLE` sends WillSend even with an empty queue | `NoNullDequeue` |
| the queue is not emptied on reset | `SlotsExclusive` |
| `resetAllRequests` does not reject | `NoOrphanRequest` (faults) |
| `getSlot` leaves the slot in the ring | `ReplyIntegrity` |
| `resetAllRequests` rejects with reason 1 | `ImplementsProxyService` |
| the decode's mask starts at 0x80 | `ReplyIsPayload` |
| `recvDataLen = recvLen - 19` | `ReplyWithinFrame` |
| `handleExt` never starts the transmission | `EveryRequestAnswered` |
| `createRequest` links a reused request into the list again | `TypeOK` (NicofClient) |
| `ncf_050` frees a pending request | `OwnerHoldsMsgId` |
| `handleExt` takes the first pending request, not the matching one | `AnswerToSender` |
| `handleExt` posts `rcv_ecb` only under a matching filter | `WaitsReturn` |
| `ioctlsocket(FIONBIO)` sets `F_NBSELECT` in place of `F_NONBLOCK` | `TypeOK` (NcfSocket) |
| `recv` frees the request of a partial response that stays parked | `HeldRequestsValid` |
| `recv` drops the EINPROGRESS test of a handle parked by another operation | `WaitsOnOwnRequest` |
| `ncfb_022` does not rewind `bufPos` after a failed read | `TypeOK` (NcfStream) |
| `nclose` closes a sink without flushing the buffer | `SinkCopyFaithful` |
| `nflush_inner` keeps the buffer after a failed write | `SinkInOrder` |
| `ngetstr` goes on without `limit = curr` at the end of the data | `Terminates` |
| `cmdCWD` drops the test of `getDirIdx`'s result | `TypeOK` (CmsFtpd) |
| PASS keeps the noted user after a failed login | `LoggedInOnlyAfterCredentials` |
| `addClientSock` does not count the new session | `NoSessionCut` |
| `cmdDELE` runs without the login gate | `FileChangesAuthorized` |
| `transmitUnit` appends the unit after a flush in place of starting `bufData` over | `DownloadFaithful` |

The operators are named `*_mut` (and `ExtCheck_lazy`,
`ResetAllRequests_reason`), each next to the definition it replaces.

### Bounds

- `NoNullDequeue` holds for up to 6 device interrupts inside one
  `handleExt`; this was checked separately. It fails only when a whole
  round trip of the outside proxy fits into `handleExt`'s window of a few
  instructions. `IoProxy_live` uses `MaxPreempt = 1`, which already reaches
  both WillSend-loss races.
- Three slots, with three requests of one client (`IoProxy_faults`) or
  two of each of two clients (`IoProxy_live`), reach:
  - a full ring (a reject);
  - a slot reused after a reply;
  - the queue wrapping around.
- `NcfStream`: `Lrecl = 2` with 2-byte buffers and reads of up to 2 bytes
  reach:
  - a record split across two reads;
  - a buffer that fills exactly at a record end;
  - an empty line, a line longer than `Lrecl`, a last line without LF;
  - an ENDED answer that carries data, and one that carries none.

  Two failed invocations reach a failure in the middle of a transfer
  followed by a failure in `nclose`.
- `CmsFtpd`: `Cmds[c][k]` is the set of commands client `c` may send
  as its `k`-th. Two clients are the least that can make one wait for the
  other.
  - c1 sends USER or PASV, then PASS or PORT, then two file commands: a
    R/O disk reached by a relative CWD, a second CWD that fails, PORT,
    PASV, TYPE, an upload, DELE and a rename. Without the login the file
    commands get 530.
  - c2 sends USER, a right or wrong PASS, then PASS or PASV, then TYPE I
    or RETR, then LIST or RETR. This reaches failed and repeated logins (a
    USER-less PASS is c1's), RETR without a data connection, and text and
    binary downloads.
  - RETR reads the file on disk B, whose two records end in blanks and one
    is all blanks. With `PACKETLEN = 4` a text download (3 + 3 bytes)
    flushes `bufData` once, a binary one (2 + 2 bytes) fills it exactly,
    and a failed send can drop a unit or the final flush.
  - `LRECL = 2` makes a two-character line fill a record, which is all
    the upload finding needs; two records per disk let an upload fill
    it.

## Fairness

`FairSpec` assumes weak fairness of:

- `Ext` and `DevInt`. CMS delivers every pending interrupt, and the
  handlers run to their end.
- The outside proxy's receive, want-send and Attention steps. Without them
  no response ever comes back.

A reconnect is never required to happen.

`NicofClient`'s `FairSpec` assumes weak fairness of:

- the program's wait loops, and of `wait_ecb` returning once its ECB is
  posted;
- the timer;
- the service answering each request's message. `IoProxy_live` shows the
  proxy does so.

The program's own API calls are never required to happen.

`CmsFtpd`'s `Spec` assumes weak fairness of the server only: it is a
program that keeps running while it has something to do, and each recv
that has data returns. The clients and the console operator get no
fairness: a client may never send again, and `terminate` may never be
typed. A `selectX` error (`SelectFails`) is outside `Server` for the
same reason: fairness must not force the server to fail.

`NcfStream` is one sequential program. Its `FairSpec` is weak fairness of
its whole next-state relation: the program keeps running, and every
invocation returns, with an answer or a failure. The remote service's
choices (how many bytes, which state) stay nondeterministic.

## Not modelled, and why

- **The bytes of a response inside `IoProxy`.** There a response is
  abstracted to its slot number and the request it answers; `SevenOfEight`
  checks that this abstraction is faithful. A frame that is not whole
  8-byte blocks (which the decode only logs) is not sent by the modelled
  outside proxy: a frame of 21 to 26 bytes takes `xmitDataLen` and the
  last modifier from bytes beyond the frame (listed as a hazard). Binary
  mode copies the bytes unchanged and is not modelled byte by byte.
- **Attention and DeviceEnd in one CSW**, and the **concurrency of VMCF
  calls inside VMCF**: listed as hazards.
- **A client withdrawing a pending message.** Because of it, a failed
  RECEIVE that still transmits stale `inData` is not reached.
- **The main loop** (it only prints), **the log ring**, **CCW
  construction** and **the translation tables**.
- In `nicofclt`: `ncf_002` (deinit), the payload copying of `ncf_011`,
  `ncf_012` and `ncf_041`, the SMSG path of `handleExt` (it calls the
  program's handler), and the error texts and translation.
- `ncf_037`'s early `WAITANY_TIMEDOUT`: when the timer fires after a
  matching answer, `ncf_037` returns `WAITANY_TIMEDOUT` without scanning
  again. This is listed as a hazard. `selectX` scans the sockets afterwards,
  so the answer is not lost.
- In `ncfsockt`: `sendto` and `recvfrom`, `getsockname` and
  `getpeername`, the host lookups (`doGetHost`, `inet_addr`, which parse
  bytes of proxy data), and the error texts.
- In `ncfbases`: `ncfb_001` (service name resolution), `nflush` (no
  program calls it), `nread` with `noWait`, and the ASCII/EBCDIC
  translation. Request handles are not modelled, so the handle that
  `ncfb_022` leaks after a failed wait is not either.
- In `nhfs`/`rnhfs`: LIST, TYPE, MKDIR, PWD and CD (each prints or sends
  one request); option parsing and RECFM F padding; the REPLACE check;
  CMS read errors. A source state of READ_ERROR is left out of the runs:
  with it, GET and GETBIN write empty records forever (a hazard).
- In `cmsftpd`: the content LIST sends (the listing callbacks);
  `readRecord`'s read errors, whose `printf` into an uninitialized `msg`
  has no outcome to model; FT overrides; the byte-level
  parsing of PORT's argument and of path text; console messages and the
  translation tables.
- **The test and sample programs**.

## Plan for further modules

1. `SevenOfEight`: the outbound header of `data_xmit_header` and the
   binary-mode path.
2. `CmsFtpd`: the FT override table, and the LIST data through the
   listing callbacks (they share `transmitUnit` with RETR).
