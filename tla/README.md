# A TLA+ model of zksrv

zksrv is a proxy between ZooKeeper clients and a ZooKeeper server. It accepts a
client, connects to the backend, decodes every request of the client, encodes
it again and sends it on, and relays the backend's bytes to the client. This
directory models the program as it stands at this commit, checks the models
with TLC on small instances, and proves the main results with TLAPS for every
value of the constants.

Paths such as `server.rs` below are relative to `src/src/`.

## The system

| part | source | state | operations |
|---|---|---|---|
| framing | `length_codec.rs` | the builder's settings; `DecodeState::Head` or `Data(n)` between two calls; the caller's buffer | the builder's setters, `decode`, `encode`, `set_max_frame_length` |
| Jute records | `proto.rs`, `record.rs` | none | `deserialize`, `serialize_into`, `size` of each record |
| request codec | `codec.rs`, `constants.rs` | `requests_by_xid`, shared by the pipes of a connection | `ServerPacketCodec::decode`, `ClientPacketCodec::encode` |
| reply codec | `codec.rs` | the same map | `ClientPacketCodec::decode`, `ServerPacketCodec::encode` (not used by `server.rs`) |
| connection | `server.rs` | two sockets, two framed writers with buffers, an unbounded channel, the map | `handle_conn`, and the three `pipe()` loops it selects over |
| accept loop | `server.rs`, `main.rs` | the listener, the tasks and their sockets | `start`: bind, accept, spawn |
| error codes | `zk_errcode.rs`, `errors.rs` | none | none |

How they interact: `start` spawns one task per client. The task runs
`handle_conn`, whose `tokio::select!` polls three futures in turn:

```
client --c2p--> [UpStream: decode, encode, send] --p2b--> backend
client <--p2c-- [P2C: recv, send] <--chan-- [B2P: next] <--b2p-- backend
```

UpStream reads through a `FramedRead` with `ServerPacketCodec` (the framing, then
the request codec) and writes through a `FramedWrite` with `ClientPacketCodec`. The
two downstream pipes exchange byte chunks over the channel. The first future
that ends, by an end of file, an error or a panic, ends all three. Connections
share nothing but the process: its descriptors, its memory, and the main task, whose
panic ends them all.

### What is hard here

* A frame arrives in pieces: `decode()` keeps a length between calls, and one
  byte of error shifts everything after it.
* `size()` and `serialize_into()` are written by hand for every record, and the
  length goes out first.
* The pipes drop the errors of `send()` and go on, with buffers that still hold
  earlier data.
* The end of one pipe drops the other two in the middle of whatever they do.
* Back-pressure runs in a circle (client, proxy, backend, proxy, client); only
  the unbounded channel breaks it.
* Panics (unknown operations, null lengths, trailing bytes) are a normal way for
  a connection to end; in the accept loop a panic ends the process.
* A decoder makes room for as many bytes or elements as the frame announces, up to
  2^31-1, before it has read one. An allocation that is refused is no panic: it ends
  the process, and with it every other connection.
* A null, the length -1, is legal in every string, buffer and vector of the protocol,
  and every decoder panics on it.
* A reply does not say what it holds. The reply decoder looks its xid up in a
  map that the request encoder writes and from which nothing is removed.

`PROJECT.json` lists these at their lines, under "hazards", with the properties
that would catch each.

## The modules

| module | models | proved in |
|---|---|---|
| `CodecBuilder` | the configuration of the framing | |
| `LengthCodec` (extends `CodecBuilder`) | framing | `LengthCodecProofs` |
| `FramedPipe` (extends `LengthCodec`) | the framing inside the upstream pipe, byte by byte | `FramedPipeProofs` |
| `Jute`, `JuteRecords` (extends `Jute`) | the records of `proto.rs` | `JuteProofs` |
| `RequestCodec` (extends `Jute`) | decoding and encoding a request | `CodecProofs` |
| `ReplyCodec` (extends `RequestCodec`) | decoding and encoding a reply | `CodecProofs` |
| `ZkProtocol` (extends `ReplyCodec`) | external: what a ZooKeeper client sends and a server answers | `JuteProofs` |
| `Codecs` (extends `ZkProtocol`, `JuteRecords`) | one turn of each codec, and of each record | `CodecProofs` |
| `ReplySession` (extends `ReplyCodec`) | both codecs of a session around the one map | `ReplySessionProofs` |
| `Relay` | abstract: what a connection promises | |
| `ProxyConn` (extends `RequestCodec`) | `handle_conn` and its pipes; instantiates `Relay` | `ProxyConnProofs` |
| `Server` | `main`, `start` and the life of the tasks | `ServerProofs` |
| `MCLengthCodec`, `MCLengthDocs`, `MCFramedPipe`, `MCCodecs`, `MCReplySession`, `MCProxyConn`, `MCServer` | instances for TLC | |
| `SequenceLemmas` | facts about sequences, induction and recursive functions that the proofs share | itself |

The pieces fit together by what each leaves to another. `Server` takes a
connection as a task that connects, runs and ends; `ProxyConn` is what happens
inside one, with whole frames; `FramedPipe` is how those frames come out of
bytes and go back into bytes; `RequestCodec` is what happens to one frame, and
`Codecs` compares it with what the protocol has in that frame.

A definition whose name ends in `_Something` and whose comment begins "Faulty
form" is a plausible error in the definition below it. None is used by a
specification; each was put in place of the real one to see that the property
named for it in `PROJECT.json` fails.

### CodecBuilder, LengthCodec and FramedPipe

`CodecBuilder` has the builder's settings as a record and one operator per
setter; `LENGTH_DELIMITED_CODEC` is the proxy's own configuration, built by the
calls of `codec.rs`. The instances build their configurations with the setters.
The assertion of `length_field_length` is `LengthFieldAllowed`, which every
configuration of `MCLengthCodec` satisfies (`CanBeBuilt`).

The byte stream is a constant of a behaviour: `stream` is all the peer will ever
send, `recvd` says how much has arrived and `pos` how much the decoder has
consumed, so the `BytesMut` of the code is `stream[pos+1 .. recvd]`. `state` is
`DecodeState`, with `Head_` (-1) for `Head` and n for `Data(n)`. `frames`
records every frame returned and where its head began.

One call of `decode()` is one action. It has four outcomes that change something:
`DecodeHeadFails` (Err), `DecodeHeadOnly` (the head is consumed and n remembered),
`DecodeHeadAndData` and `DecodeRest` (a frame). A call that returns None and changes
nothing is no step. `Receive(k)` is the socket. `set_max_frame_length` may come between
any two calls. The length field is read octet by octet in either byte order into eight
octets, as `get_uint` does; the adjustment is checked against 0 and `UsizeMax`. `encode`
is an operator, and `PutUint` truncates as `put_uint` does: `Shifts` and `Octets` are
the number shifted octet by octet and its octets, `FieldHolds` says that none is
dropped, and `Readable` that a payload passes what both sides compare. `WrittenAs` says
that a stream is a list of payloads as `encode` writes them, `Reading` what a stream
means when it is read at once; `RoundTrip` and `SameAsReadAtOnce` are about these two.
`PayloadLists` are the lists that `RoundTrip` looks for.

`num_skip(0)` with a length field of 0 decodes an empty frame and consumes
nothing; `FramedRead` would then loop. The proxy's configuration has no
`num_skip`; the configurations of the runs that check progress do not include
this one.

`FramedPipe` runs this decoder inside `UpStreamConnection::pipe`. `ended` says how the
pipe ended, `"no"` while it runs; `handled` counts the frames the loop has dealt with;
`buf` is the buffer of the `FramedWrite`, not empty exactly while the loop is in
`send().await`; `out` is what the backend has been written. `Flush(k)` writes any part
of the buffer, `EndOfClient` is the client's end of file, with or without part of a
frame left, or a bad head, and `Dropped` is `select!` ending the pipe from outside.
Whether a frame is refused is a parameter, `Refused`. The length written in front of a
frame is `PutUint` of its length, the `put_i32(size)` of `encode`; that the two lengths
agree is checked with the request codec.

Both sides of the maximum are modelled as they are: decoding compares the length
field before the adjustment with it, encoding the payload, as
`length_codec.rs:768-771` says.

### Jute, JuteRecords and RequestCodec

A frame is a sequence of tokens `[w, v]`: width in bytes and value, one token per
integer and one for the contents of a string or buffer. That keeps every length, every
`bytes.len()` test and every size exact while contents stay opaque (`NotUtf8` is the one
kind of contents that matters). A reader is what has been read and what is left; every
loop of the code is a recursive function whose i-th value is the reader, or the state of
the loop, after i turns. A record is the list of its fields in wire order, and
separately what its `size()` adds up: a literal and a set of fields. Reading past the
end panics; a negative length panics, since as a `usize` it is more than a vector may
hold; a string that is not UTF-8 is an Err. A length or count above `MaxCapacity`, the
longest vector that the allocator has memory for, is an `"abort"`, before anything
behind it is read, whether the frame holds as much or not. A read whose width is not
that of the next token would be a "misread", bytes of two tokens in one value; that no
frame of the instances leads to one is the `TypeOK` of `MCCodecs` and an assumption of
`MCProxyConn` that TLC evaluates.

`JuteRecords` has the records that neither codec uses: the rest of the protocol,
the transactions and the quorum packets.

`decode(f)` gives a packet, `"err"`, `"panic"` or `"abort"`. It follows `decode_inner`
arm by arm: the control xids, which assert that nothing is left; the data requests, of
which only three assert that; `Multi` with its loop; an opcode that is not in the
enumeration (Err) or has no arm (panic). `encode(p)` is the length prefix and the body;
`Remember` is what it does to `requests_by_xid`.

### ZkProtocol and Codecs

`ZkProtocol` is external: the fields of every request and reply as the protocol of
ZooKeeper has them, with no use of the records of `Jute`, and the frames made of them.
Every string, buffer and vector of the protocol may be null, which is a length of -1 and
nothing behind it: `Images` are the bytes of the fields without a null, `NullImages`
those with one at least, in a field or in an element of a vector. The well formed
requests are in two sets. `GoodFrames` have no null and an operation that the proxy has
an arm for; `RefusedFrames` are the others, those with nulls (`NullData`,
`NullControls`, `NullConnects`, `NullMultis`) and the requests of an operation without
an arm (`Unsupported`). The replies are divided in the same way, `GoodReplies` and
`RefusedReplies`, the latter with nulls, successes that are read as a path alone
(`PathAlone`) or not at all (`NoArm`), the reply to set-watches, and the replies to a
multi whose operations succeeded (`MultiReplies`). So `RequestOutcome` and
`ReplyOutcome` say of every one of these frames what becomes of it. Not among them are
the operations of later protocol versions, for which the proxy has no arm (reconfig,
set-watches2, multi-read and the like), and the reply to a multi that failed, whose
results stand behind an error and are dropped with it.

The values of the fields are constants (`Scalars`, `Contents`; `OpRows` and `OpNulls`
for the operations of a multi), and so are the bounds of vectors and multis. `Codecs`
takes any of these frames, or any other (`OtherFrames`, `OtherReplies`), or any record
of `proto.rs` with any values, and runs it through its codec once: `DecodeRequest` and
`EncodeRequest`, `DecodeReply` and `EncodeReply`, `WriteRecord` and `ReadRecord`. `Asks`
is the map as the request that a reply answers has left it.

### ReplyCodec and ReplySession

`decodeReply(f, map)` follows `ClientPacketCodec::decode`: a connect reply by its xid,
the header, the control xids, a failure without a body, and for everything else the
opcode that the map has for the xid. Each arm of `ZkResponse::deserialize` ends with the
assertion that nothing is left (`AssertEmpty`). `MultiResponse` is the state of its loop
after as many turns as it takes; a result of type -1 is pushed without reading a body.
`encodeReply` is `ServerPacketCodec::encode`: `size()` only reserves, and the length
codec writes the length of what was serialized. For a multi `size()` is a `todo!()`, so
that `MultiResponse::serialize_into` and `size` are not reached. A connect reply without
`read_only` gains that byte on its way: one that was as long as a frame may be is then
refused by `encode`, and `ReplyForwardedAsSent` says so.

A ZooKeeper server answers create-ttl and create-container with a path and a
stat, of which the code reads the path and asserts the end (`PathAlone`), and sync and
remove-watches have no arm (`NoArm`); these replies are decoded too, and end in a panic.

`ReplySession` has both loops of a session with the codecs in them, as the
commented-out code of `server.rs:80-84` has them. At this commit replies are
passed on as bytes, so this module is about the codecs and their shared map, not
about the proxy as it runs. A client does not use an xid again before it has the
reply; afterwards it may, for a request of another shape. The backend answers in
order, as ZooKeeper does within a session, and puts watch events in between.
Set-watches is not among the requests: its reply ends the session in a panic, as
`ReplyOutcome` says of it.

### Server

`main` is where the main task is, `why` what ended it, `limit` how many descriptors
the process may have open, `grants` whether the allocator grants whatever a decoder asks
for, which is up to the machine. `backlog` holds the
connections the kernel has set up; `task[c]` is where the task for c is; `sockets`
the open ones, each with the visit of its client that it belongs to.

| action | code |
|---|---|
| `Bind`, `BindFail` | `TcpListener::bind(..).await.unwrap()` |
| `Accept` | `accept()` returns, `tokio::spawn` |
| `AcceptNoDescriptor`, `AcceptAborted` | `accept().await.unwrap()` fails: the main task panics and the runtime drops every task |
| `TaskConnect`, `TaskConnectFail` | `connect(..).await.unwrap()` in `handle_conn`; the panic ends the task alone |
| `TaskEnd` | `handle_conn` returns or panics in a decoder |
| `TaskAbort` | `vec![0; len]` or `Vec::with_capacity(len)` in a decoder, refused: the process aborts |

Whether `accept()` reports an aborted connection or returns it depends on the
platform: both are possible.

Connections are not independent of each other, then: the process ends, with all of them,
when `accept()` finds no descriptor, when it reports an aborted connection, and when an
allocation is refused. `OthersUndisturbed` has the absence of these three as its
premises (`grants`, nobody in `aborted`, a descriptor more than two for each client
served), and says that there is no fourth way. Each premise is needed: without any one
of them TLC finds a step that ends two connections. With the limit of 4 descriptors the
third one fails when two are served.

A client of the model has one connection at a time;
one that reconnects early is two clients.

### ProxyConn and Relay

A socket is the sequence of everything written to it (`c2p`, `p2b`, `b2p`,
`p2c`) and a counter of what was taken (`taken`, `served`, `read`, `cRead`).
`SockCap` is how much fits in between before a write blocks. Requests are whole
frames, replies are bytes cut into arbitrary chunks; the channel holds slices
`[from, to]` of `b2p`. `up` and `down` are the buffers of the two `FramedWrite`s;
`HighWater` is the mark (8 KiB in tokio_util) at which `send()` flushes before
it accepts another item. `sending` and `writing` say that a pipe is inside
`send().await`.

| action | code |
|---|---|
| `Connect`, `ConnectFail` | `TcpStream::connect(..).await.unwrap()` |
| `UpSend` | `next()` returns a packet, `send()` encodes it into the buffer and the map (no await in between) |
| `UpSendRefused` | `send()` on a buffer at its mark whose flush fails: the packet is dropped |
| `UpFlush`, `UpSendError` | the flush inside `send()`, and its failure, dropped by `let _ =` |
| `UpReject`, `UpEnd` | the loop ends: Err or panic; end of file or reset |
| `DownRead`, `DownEnd` | B2P: a chunk goes into the channel; end of file or reset |
| `P2CRecv`, `P2CRecvRefused`, `P2CFlush`, `P2CSendError` | the same for the writer towards the client |
| `Teardown` (part of the ends) | `select!` returns: buffers, channel and map are dropped, sockets closed |

The peers and the network are external: either peer may stop sending, reset or
stall at any time; the backend may answer or send unasked. P2C has no end of its
own: `handle_conn` keeps `tx`, so `recv()` never returns None.

A decoder that aborts the process is `UpReject` too: the kernel closes both sockets, and
nothing more can be seen of it from inside the connection.

A frame is written whole to the backend. A write that fails in mid-frame leaves
part of a frame behind, but only on a connection that the backend has reset.

`Relay` has no pipes: requests are passed in order, each in its forwarded form,
none after a refused one; bytes are delivered in order; nothing moves once the
connection is closed. `ProxyConn!R` maps `phase` to its stage and the four
socket histories to its four sequences.

## The runs

| run | instance | what it shows |
|---|---|---|
| `codec_chunks` | 5 configurations, every stream of up to 6 bytes over 3 byte values, `UsizeMax` 4, the maximum set to 1 or 5 at any time | `TypeOK`; `SameAsReadAtOnce`: equal to a recursive reading of the whole stream; `FramesCutByTheirHeads`, `RememberedLengthIsTheHeads` (with `TypeOK` the inductive invariant); `DrainsItsInput` |
| `codec_round_trip` | 6 configurations both ways, one with a field too narrow for some payloads, 0 to 2 payloads of 1 to 4 bytes | `RoundTrip`; the proxy's own four octets hold every length up to its maximum (`ProxyFieldHolds`); the streams are ones that the theorem `EncodedIsReadBack` speaks of (`EncodingsAreWritten`) |
| `codec_docs_strip` | Examples 2, 5, 6, 7 with real bytes | `StrippedExamplesHold` |
| `codec_docs_keep` | Examples 1, 3, 4 | violated, see below |
| `framed_pipe` | the proxy's configuration with a maximum of 3; streams of up to 3 frames cut off at every byte, or with a length above the maximum | `PassedUnaltered`: the backend gets the client's own bytes; `SentWhole`; `BackendReadsTheFrames`, `PipeEnds` |
| `codecs` | one value per integer and two per byte (`Scalars`), two contents of a string or buffer besides the empty one, of which one is not UTF-8, vectors of 0 to 2 elements, multis of 0 to 2 operations (`MaxElements`, `MaxOps`) with one row of values each (`OpRows`) and their fields null or empty (`OpNulls`), a maximal frame and a largest vector (`MaxCapacity`) of 1 KiB; requests of every type, nulls in each field and element, bad fields, counts and lengths above the largest vector, cut and lengthened frames; the replies of a ZooKeeper server to every operation, with and without nulls, failures, events, control replies, damaged and misplaced ones, multis, a connect reply of the maximal length; 70 records | requests: `LengthPrefixIsBodyLength`, `ForwardedAsSent`, `RequestOutcome`; replies: `ReplyForwardedAsSent`, `ReplyOutcome`; records: `SizeIsWidth`, `ReadsBackToItsEnd`; all: `TypeOK`, no image is read as the wrong kind of value |
| `requests_read_only`, `replies_multi` | the same | violated, see below |
| `reply_session` | 2 xids with two operations each, ping and authentication, 3 requests, 1 event, answers that succeed or fail | `OutstandingIsRemembered`, `AnswersReadAsAsked`, `EveryoneIsAnswered` |
| `connection` | 5 frames (connect, ping, two data requests under one xid, one that panics), 3 requests, 2 bytes, sockets of 2, high water 2 | order, no loss, `RememberedWhenForwarded`, `LittleIsHeld`, `ImplementsRelay` |
| `connection_live` | 2 frames, 3 requests, 5 bytes, sockets of 2, high water 1 | the connection ends when a peer goes, requests get through, `RepliesGetThrough` to a client that reads, `LittleIsHeld` |
| `server` | 3 clients of up to 3 visits, 4 or 6 descriptors, an allocator that grants everything or not | `TypeOK`, `SocketsAreTheTasks`, `EnoughDescriptors`, `EveryoneIsAccepted`, `OthersUndisturbed` |

Bounds. Three byte values and six bytes give several frames per stream, length
fields of one and two octets, lengths on both sides of the maximum and of
`UsizeMax`, and every cut; no configuration has a maximum of 1 or 5 to begin with,
so that a changed one can be told. Three requests and a high-water mark of one or two let
a request be in the socket, in the buffer and refused at the same time; the
sockets are small so that every write can block. With three requests and two
xids of a session one xid is used again for another operation while the other
is outstanding. Three clients and four descriptors let two run while the third
finds none, for `accept()` and for `connect()`; six are two for each. No run uses
symmetry: the instances are small, and those with many alike values check
temporal properties.

Deadlock checking is off: a decoder that has worked off its stream and a
connection that is done really stop. That nothing stops too early is what
`DrainsItsInput` and the liveness properties of `ProxyConn` say.

Fairness. `select!` polls every unfinished branch when the task is woken, and tokio
wakes it when a socket or the channel is ready, so each of the three pipes is weakly
fair; so is `connect()`, which returns or fails. `FramedRead` calls `decode()` until it
returns None. Of the peers, the backend is assumed to keep reading and answering while
it is open (`BackendFairness`); without that, UpStream can wait in `send()` forever, and
does not see the client go (`ClientGoneEndsIt` needs it). The client is assumed to read
only in `RepliesGetThrough`, as its hypothesis (`ClientReads`). In `FramedPipe` the
pipe's own task, the arrival of the bytes the client has sent and the backend taking
what it is written are weakly fair. In `ReplySession` both loops are, and the backend
answers. In `Server` the main task is, and `connect()` returns or fails; nothing is
assumed of when a connection ends.

### Disagreements

* `codec_docs_keep`: with `num_skip(0)` the documentation of `length_codec.rs`
  shows frames of head and whole payload, the code returns as many bytes as the
  adjusted length field says, head included.
* `requests_read_only`: `ConnectRequest::deserialize` reads `read_only` only when
  more than one byte is left. It is the last byte, so it is always lost and the
  backend is told 0.
* `replies_multi`: each arm of `ZkResponse::deserialize` asserts that the buffer is
  empty, and `MultiResponse::deserialize` calls it with the next header still
  there. The reply to a multi with a successful operation panics. (`server.rs`
  does not attach the reply codec at this commit.)

What the properties say besides, and a reader of the code may not expect:
`RequestOutcome` has every request with a null end its connection, `ReplyOutcome` the
reply to set-watches (`codec.rs:672`; it is one of the four control requests of the
comment at `codec.rs:739`, and is forwarded) and the successes of create-ttl and
create-container (`codec.rs:389` and `405`) end the reply decoder. One disagreement is
left out of a property: `size()` of a reply with an ACL list counts 8 bytes an entry, at
least 12 are written, and `SizeIsWidth` does not speak of that variant. `encode` only
reserves by it; the commented-out code at `server.rs:51-53` would send it.

`ForwardedAsSent` leaves the read-only byte out, so that it speaks of everything
else; `ReplyForwardedAsSent` does the same for the connect reply.

## The proofs

All proofs are checked by TLAPS to the last leaf, for every value of the constants
and from these assumptions of the modules only, which TLC evaluates in every run
that uses them:

* `ConstantsAssumption`: the types of the constants of `LengthCodec`;
* `ProxyCodecAssumption` of `FramedPipe`: the codec is the proxy's
  `LENGTH_DELIMITED_CODEC`, with any maximum;
* `MaxFrameLengthAssumption` and `ProxyAssumption`: bounds are naturals, sockets and
  the high-water mark at least 1;
* `MaxCapacityAssumption` of `Jute`: the bound of what can be allocated is a natural;
* `ProtocolAssumption`, `OpRowsAssumption` and `OpNullsAssumption` of `ZkProtocol`: the values of
  integer fields are integers, contents are tokens, the operations of a multi have values of
  their fields, or bytes of them with nulls; no data request has the xid of a control request, and no
  failure the code 0; the contents and the vectors of well formed frames are ones there is memory for;
* `CodecsAssumption`: the other frames are any sequences of tokens;
* `SessionAssumption` of `ReplySession`: requests have an integer xid and an operation
  of the protocol, and no failure has the code 0;
* `ServerAssumption`: a finite set of clients, bounds that are naturals, `Grants` a set of truth values.

Nothing is assumed about streams, frames, the chunks they come in, or who fails when.

`SequenceLemmas` holds what the proofs share about appending, slicing and the ranges of
sequences, and what makes proofs about recursive functions possible. The library's
induction theorems take a predicate, which the provers cannot instantiate; a set can
stand for it. `Induction` and `MeasureInduction` are such forms, proved from the least
element of a set of naturals (`LeastNumber`). With them `RecursionDefines` and
`IterationDefines` show that a function given by a recursive equation exists and
satisfies it, and so every recursive function of the models is what its definition says
(`SumToIs`, `PlainReadsIs`, `ReadingIs` and the like).

`LengthCodecProofs`. The inductive invariant is `TypeOK`, `RememberedLengthIsTheHeads`
and `FramesCutByTheirHeads` together: a frame completed by `DecodeRest` is right
only because the remembered n is the head's, and that is so only because the
head is still where `NextHead` says. `TypeCorrect`, `ChunksDoNotMatter` and
`LengthIsRemembered` follow.

`ReadInChunksAsAtOnce` compares with a reading of the whole stream (`Reading`, from its
end to its beginning). Its hypothesis `CanBeReadAtOnce` has two parts. Every
configuration skips something with each frame; without that a frame of length zero can
be read for ever, and there is no such reading. And no configuration has to begin with a
maximum that `set_max_frame_length()` may set, since the property is about streams whose
maximum was left alone, and it tells them by the configuration. `AtOnceInv` is inductive
next to the invariant above: what was returned, and the reading from the next head on,
make up the reading of the whole; and a head that was accepted or refused was so under
that maximum.

`EncodedIsReadBack`: whatever list of payloads `encode()` has put into a stream
(`WrittenAs` says where each one ends), `decode()` with the same configuration reads
that list back and never fails, and when it has drained the stream it has read them all.
The configuration may have any width, byte order and adjustment, with the field first
and nothing more skipped (`BothWays`), as `encode()` has it. The hypothesis `MaxLens =
{}` says that nobody changes the maximum: a smaller one would refuse what was written
under the larger. The argument has three layers. `OctetsOfTheNumber`: each shift of a
number is its lowest octet and `ByteBase` times the next shift, and the shifts beyond
the field are zero; so `get_uint` undoes `put_uint` (`FieldReadsBack`).
`FrameReadsBack`: the head is accepted, because `Readable` compares what decoding
compares, and the frame ends where `encode()` stopped. `Tracks`, inductive on top of the
invariant above: the next head is where the payloads returned so far end.

`FramedPipeProofs`. `BytesPassUnaltered` and `WholeFramesAreSent`: the pipe takes frames
apart and builds them anew, and yet its output is a prefix of its input, of whole
frames. `PipeInv` adds `OneAtATime` to the two properties: the loop does not ask for the
next frame before the one at hand is sent, so that at most one is waiting, and then with
an empty buffer. Without it a second frame could enter the buffer at the wrong place.
That the new length is the old one, octet for octet, is `LengthWrittenAsRead`.
`BackendReadsWholeFrames` puts the frames back together on the other side: `EndInv` says
that reading on from where the frames sent so far end gives the same end as reading the
client's stream from its beginning, and where the pipe stopped by itself that is the
end.

`JuteProofs`. The records, for any values of their fields. A reader and a writer fit
together when the one takes from a frame what the other puts there, and leaves the rest
(`Decodes`, and `DecodesBack` for the other direction: what was taken is what would be
put). This is shown of the plain fields (`ScalarRead`, `BytesRead`), then of sequences
of fields, elements, vectors and records on top of each other, each time by induction
over the turns of the loop (`ReadingDecodes`); `RecordRead` is the result.
`RecordWidth`: what a record writes is as wide as its `size()` says, which is a fact of
each record of `proto.rs` (`RecordsFit`), since their literals were written by hand, and
of the sums (`SumToIs`, `TotalOfSums`, `WidthOfFlat`). The last part says what rows and
images of `ZkProtocol` are (`RowsOfRecord`).

`CodecProofs`. `TurnInv` (`TurnsAreTaken`) says that what was read and written in
`Codecs` is what the operators of the codecs make of the item, so that the rest is about
those. `RecordsReadBack` and `SizesAreWidths` come from `JuteProofs`. For requests there
are two chains. *Whatever is decoded* is written as it was read: `RecordWhole` for a
record, for a multi by the invariant `Accounted` of its loop (the operations so far,
written again, and what is left make up the frame) and then by the arms of `decode`
(`DecodeForwards`); `PrefixIsLength` and half of `RequestsAreForwarded` follow, for
damaged frames too. *What a client sends* is decoded to its end: its fields are those of
the record that its opcode selects (`ClientFieldsAre`), its image is read back
(`ImageReadBack`), and the assertions at the ends of the arms hold (`GoodReadWhole`);
half of `RequestsEnd` and the other half of `RequestsAreForwarded` follow, for multis of
any length (`PartsRead`). The rest of `RequestsEnd` is that *what has a null is not
read* (`RefusedPanics`): the fields in front of the first null are read back, and the
null is a panic (`NullRead` of `JuteProofs`), in an element of a vector or in an
operation of a multi as well as in a field of its own, each time by induction over what
stands in front of it; and a panic is handed on by every loop and arm
(`PanicIsPassedOn`). The same two chains for replies are `DecodeReplyForwards` and
`GoodReplyWhole`, with the map as the request has left it; half of `RepliesEnd` and
`RepliesAreForwarded` follow, the latter with what `encode` refuses (`ReplyEncoded`).
The connect reply of the maximal length was found in that proof; an instance of
`MCCodecs` now reaches it. The other half of `RepliesEnd` is `RefusedReplyPanics`: a
null, as above; an arm that stops in front of the stat (`PathAlonePanics`) or is
missing; and the first result of a multi that holds a success, behind which at least the
closing header is left (`MultiAnswerPanics`).

`ProxyConnProofs`. Five invariants, each with one lemma per action that matters.
`TypeInv` adds to `TypeOK` that the channel's chunks are non-empty slices of what
has been read. `UpInv` adds to `UpstreamInOrder` and `NothingLostUpstream` the fact
`MissingOnlyBehindFullBuffer`: once a request is dropped, the backend is reset
and the buffer at its mark, so nothing can be encoded behind the gap any more.
That is why the dropped errors never show; `NothingLostUpstream` alone is not
inductive. `DownInv` does the same downstream, where a chunk may be
dropped only after the client has reset, and nothing is written then.
`HeldInv` is what `LittleIsHeld` needs: a `send()` that has returned from a backend that
is not reset has left nothing in the buffer, and a chunk is never longer than the
socket it was read from. `MapInv` says that a request is remembered from when it
enters the buffer, since the flush that writes it does nothing to the map; which of
the client's requests is the i-th of the buffer is what `UpInv` says.
`ProxyTypes`, `RequestsInOrder`, `RequestsKept`, `RepliesInOrder`, `RepliesKept`,
`RequestsRemembered` and `LittleHeld` follow.

In the same module, `ConnImplementsRelay`: `Spec => R!Spec`. Flushing upstream is
`Pass`, because `UpInv` says that the buffer's first frame is the client's next
one and that all before it were accepted; flushing downstream is `Deliver`, by
`DownInv`; the ends are `Close`; all else is a stutter or a peer's step.

`ReplySessionProofs`. `AnswersFindTheirRequest`: `OutstandingIsRemembered` is inductive
with the client's rule about xids as it shows behind the client: no two requests on
their way to the proxy share a positive xid (`OneWaitsPerXid`), nor does one of them
with a request behind the proxy (`NewBehindOld`). So a forwarded request never
overwrites an entry that an answer still needs. `AnswersAreReadRight` adds what the
decoder makes of it. Its hypothesis `CodecReadsReplies` is about single answers: met
with the entry of its own request, an answer is read as what it is and written as it
was. It is about the constants of this module, and TLC evaluates it for the instance
(`MCCodecReadsReplies`); of the replies of `ZkProtocol` in general `CodecProofs` shows
the same. The theorem says that no session of any length and order gives the codecs
anything else to read.

`ServerProofs`. `SocketsAreTheTasks` is inductive with `TypeOK` and `Orderly`: a client
is in the backlog once at most and not while it is served, so that `Accept` opens a
socket that is not open and `TaskEnd` closes no one else's. `DescriptorsSuffice` counts:
every socket belongs to a client that is served, at most two each (`TwoSocketsEach`),
and the client that `accept()` would return has none. `ConnectionsAreIndependent` is the
action property `OthersUndisturbed`, from the same invariant and the same count: where
descriptors are left for the clients served, `accept()` does find one.

Only model-checked, and why:

* all liveness (`DrainsItsInput`, `PipeEnds`, `EveryoneIsAnswered`, `EveryoneIsAccepted` and
  that of `ProxyConn`): temporal reasoning under fairness, with `ENABLED`, is out of the
  prover's reach;
* `TypeOK` of `Codecs`: that no read ends inside a token is a condition on the damaged frames that an instance
  gives (`OtherFrames` may be any), not a fact about the codecs; of the well formed ones it follows
  from `RequestsEnd` and `RepliesEnd`;
* `StrippedExamplesHold`: four byte streams of the documentation.

## Not modelled, and what could follow

What could still be proved:

1. `CodecBuilder`: for every configuration that the setters can make, the type that
   `ConstantsAssumption` asks for, and that the head waited for holds the length
   field and the bytes to skip.
2. `Relay`: what the abstract connection promises, proved of `Relay` itself and carried
   over to `ProxyConn` by the refinement.
3. `ReplySession` with set-watches among the requests: which sessions end in the panic.

Left out for good:

* Error wording and logging, and the error and reply codes of `zk_errcode.rs` and
  `errors.rs`: enumerations, and no decision depends on which error it is.
* `MultiResponse::serialize_into` and `size`, which no call reaches (a `todo!()` comes
  first), and `ensure_max_len`, `ensure_max_length_bytes` and `maybe_read_bool` of
  `codec.rs`, which do nothing or are not called.
* `new_codec`, `new_read`, `new_write` and `new_framed` of the builder: constructors.
