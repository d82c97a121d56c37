# TLA+ models of io-streams

`io-streams` gives byte streams over files, sockets, pipes, standard streams,
in-memory data and boxed readers and writers one set of types (`StreamReader`,
`StreamWriter`, `StreamDuplexer`) and adds buffering for streams that go both
ways (`BufDuplexer`, `BufReaderLineWriter`). These modules model the parts of it
that hold state or run concurrently, check them with TLC on small instances, and
prove with TLAPS what matters most for all instances. Paths below are relative
to the root of the repository (`src/` is the crate's own directory there).

## 1. The system

| Component | State | Operations | Who it interacts with |
|---|---|---|---|
| `BufDuplexerBackend` (`buffered/buf_duplexer.rs`) | write buffer, `BufGuard.written`, `panicked`, read buffer, `pos`, `cap` | `flush_buf`, `flush`, `write*`, `read*`, `fill_buf`, `consume`, `into_inner`, `drop` | the inner device, which answers every call with a part, nothing, an error, an interruption or a panic |
| `BufDuplexer` (same file) | none of its own | the public methods: writes go to the backend, reads flush it first | the backend |
| `BufReaderLineWriter` and its shim (`buffered/buf_reader_line_writer*.rs`) | none of its own | `write`, `write_vectored`, `write_all` split at newlines; the rest as above | the backend, and the inner device directly |
| Lockers (`lockers.rs`) | three static claim flags; per locker a helper thread, parked with std's lock | `new`, `drop` of three lockers; `StreamDuplexer::stdin_stdout` takes two | other handles, and users of `std::io::stdin()` and the like |
| Piped `StreamWriter`, piped and in-memory `StreamReader` (`streams.rs`) | pipe, slot with the pipe's end and the join handle, boxed object | constructors, all reads or writes, `flush`, `map_err`, `drop` | the helper thread running `io::copy`, through the pipe and `join` |
| Socketed `StreamDuplexer` (`streams.rs`) | socketpair, slot with socket and join handle, boxed object | four constructors, reads, writes, `flush`, `drop` | the relay thread, through the socketpair |
| Every stream (`streams.rs`) | raw handles, and `resources` that keep their descriptors open | a constructor per kind of stream, one call of the handle per method, `drop` | the table of descriptors, which the rest of the process uses too |
| `IntoInnerError` (`buffered/mod.rs`) | the object and the error of a failed `into_inner` | taking either out again | its holder goes on with the object or drops it |
| `Peek`, `ReadReady`, `AsRaw*`, `Debug` | none | `Peek` and `ReadReady` ask the resources, `AsRaw*` give out the handle | |
| `async_std.rs`, `tokio.rs` | | | commented out in `src/lib.rs`, not compiled |

What is hard here:

* *Partial failure in sequential code.* A buffered object survives any error or
  caught panic of its device, half way through any call. The bytes it holds, the
  bytes the device holds and the bytes the caller was told about must still add
  up, through every later call and the destructor.
* *Two capacities that are one number.* `writer_buf.capacity()` stands for the
  configured capacity, and comparisons with it decide between buffering,
  flushing and bypassing.
* *Line buffering after a failure.* A complete line whose flush failed is only
  recognised by being last in the buffer.
* *Threads behind pipes.* Closing, joining, restarting and failing interleave
  with the helper thread in every order; each `join` is a possible deadlock.
* *Process-wide flags.* Claims, failed spawns and destructors of several threads
  meet in three statics.
* *Numbers that stand for files.* A handle is a copy of a descriptor's number
  and nothing ties it to the owner of that descriptor. Threads restart, slots
  empty, and the process reuses numbers.
* *Half-duplex turns.* The socketed relay decides from the length of a read
  whose turn it is, knowing nothing of messages, while the two sides wait for
  each other's and a `BufDuplexer` may still hold one back.

What makes each component correct:

* buffers: every byte reported as written reaches the device once and in order,
  a reported failure is exact, a successful flush is complete, reads come after
  the flush they depend on, nothing read ahead is lost, and no slice is taken out
  of range;
* line writer: additionally, complete lines do not linger;
* lockers: one owner per stream, no thread or flag left behind, no claim refused
  without cause, std's lock taken in the end, destructors return;
* threads behind pipes and sockets: order and completeness, an honest end of
  file, flushes that synchronize, no call that hangs, no thread left behind; a
  stream made of a boxed reader or writer is a reader or writer to the same
  standard, so that it can be boxed in turn;
* relays: a conversation that keeps to what the relay can see comes to its end;
* handles: they name what the stream owns, and nothing stays open without it.

## 2. The modules

### Slices, SliceLemmas

`Slices` has what every component with a buffer uses: `Take` and `Skip` (the
slices `&buf[..n]` and `&buf[n..]`), `Least`, and `Numbers`, the bytes of a stream
that are told apart by their place alone. `SliceLemmas` proves what these keep
and how strings are put together again; all proofs about buffers rest on it.

### BufDuplexerBackend, BufDuplexer

`BufDuplexerBackend` holds the state of the backend and one action per answer of
the device; `BufDuplexer` adds the public write calls, `Next`, the specification
and the inductive invariant. `&mut self` makes calls sequential, so the model
has one call in progress. The code a call still has to run is a sequence of
frames, `todo`: `self.flush_buf()?; self.inner.flush()?; read` is a sequence of
three frames, and an error or a panic abandons the rest (`Abandon`), exactly as
`?` and unwinding do.

| Variable | Code |
|---|---|
| `writer_buf`, `written`, `panicked` | `BufDuplexerBackend.writer_buf`, `BufGuard.written`, `.panicked` |
| `reader_buf`, `pos` | `.reader_buf[..cap]`, `.pos` |
| `open` | the caller has the object (false after `drop`, and `into_inner` unless it hands the object back) |
| `call`, `todo`, `payload`, `arg`, `result` | the public call, the code left in it, its buffer, the part not placed yet, what it returned |
| `sink`, `synced`, `fetched` | ghost: what the device has taken, flushed, delivered |
| `accepted`, `delivered` | ghost: what the caller was told is written, what it has received |

`FlushWrite`, `FlushInterrupted`, `FlushFail`, `FlushPanic` and `FlushDone` are
the loop of `flush_buf` with its guard; `Buffer`, `PutDirect` and `PutAllDirect`
are the two ways of a write after `MakeRoom`; `ReadDirect`, `ReadBuffered`,
`FillBuf`, `Copy` and `ReadUntil` are the reads. A `write_all` to the device
that fails or panics has put an unspecified prefix there; the model chooses any.

`DuplexChannel` is the abstract specification: one FIFO per direction, whatever
is buffered. `BufDuplexerBackend` instantiates it
(`Channel == INSTANCE DuplexChannel WITH ...`), and both front ends are checked
to implement it (`ImplementsChannel`).

### BufReaderLineWriter

Replaces the write calls of `BufDuplexer` by those of the shim:
`CallWritePartial` (no newline: flush a stale line first, then buffer),
`CallWriteLines` (flush, write the lines directly, keep what fits of the rest),
`CallWriteVectored` and `CallWriteAllLines`. `LineWrite`, `LineWriteVectored`
and `LineWriteAll` are the calls of the inner device in the middle of them,
which go past the guard and do not set `panicked`; `KeepTail` and `IsTail` are
what is buffered of an unfinished line.

### Lockers

`claimed` holds the three statics, `holder` std's locks, `thread` and `token`
the helper threads and their parker. Steps are separated at each access to
shared state: `Claim` and `Refuse` (`compare_exchange`), `Spawn`, `SpawnFails`,
the thread's `ThreadLock` and `ThreadExit`, and in the destructor `Unpark`,
`Join`, `Store`. A handle may want two lockers (`stdin_stdout`): if the second
is refused, `Fail` drops the first through the same destructor steps.
`ClaimFlag` and `DropFlag` record that `StderrLocker::new` names
`STDOUT_CLAIMED` while its `Drop` names `STDERR_CLAIMED`. The ghost `leaked`
records the flags that are set although no locker is left to clear them, after a
failed spawn or that mismatch; with it `RefusedHasCause` can say that nothing
else ever makes a claim fail.

### PipedWriter, PipedReader

The caller and the helper thread interleave at every call to the pipe, to the
boxed object and to the thread primitives. The i-th byte is the number i, which
is all that order and completeness need. `slot` is whether the `Option` in the
resources is full; `thread` says what the thread does next, or how it ended:
`"ok"`, `"err"`, `"panicked"`, or `"broken"` (the `BrokenPipe` error).
`JoinFlush` takes the boxed writer out of the thread and starts the next one, or
fails with the writer gone. `PipedReader` has both constructors: `Inline` is the
test of `bytes` against `PIPE_BUF`, `Fill` the write in the constructor with no
reader yet, and `Inquire` stands for `num_ready_bytes` and `peek`.

### AbstractReader, AbstractWriter

What `Box<dyn Read>` and `Box<dyn Write>` mean to the two modules above: the
abstract specifications that `PipedReader` and `PipedWriter` are checked to
implement (`Reader == INSTANCE AbstractReader WITH ...`, `ImplementsReader`, and
the same for writers).

| Abstract | In the detailed module |
|---|---|
| `AbstractReader!source`, `broken`, `last` | `1..size` in order; the thread has ended with an error or a panic of the boxed reader; `result` |
| `AbstractWriter!arrived`, `last` | the prefix of `sink` that the boxed writer's last flush covers; `result` |
| `delivered`, `accepted`, `reported` | the variables of the same name |

An abstract reader delivers its source in order, answers end of file only at its
end or after it has broken, and its drop panics only if it has broken or a call
has already failed, and never succeeds when it has broken. An abstract writer's
flush succeeds only when everything accepted has arrived, and its drop succeeds
only then or after an error was reported. The environment of the two modules, the
boxed object, may do what these specifications allow, so that a piped stream
inside a piped stream, as in `tests/tests.rs:68-83`, is again such a stream.
(That last step is an argument and no check: the boxed object of `PipedReader` is
the actions `ReadBoxed` and `ReadBoxedEnds`, not an instance of `AbstractReader`.)

### SocketedThread

Two queues (`toThread`, `toCaller`) and a relay whose position is `thread`.
`Full` is `n < buf.len()`, negated; `Onward` is where the relay goes when its
chunk is written. `Poll` is the loop of `socketed_thread`. The function given to
`socketed_thread_func` belongs to the caller; it is modelled as a relay that
turns wherever it likes and may return at any time. A function that succeeds
returns its socket, which stays open in the `JoinHandle`: `ThreadGone` says so.
`Drop` joins the thread of a function and no other.

### Conversation

Extends `SocketedThread` with a program on either side: a caller that speaks
through a `BufDuplexer` (`Ask` puts a request in its buffer, `FlushFirst` and
`Listen` are its `read`, which flushes, or its `fill_buf`, which does not) and a
peer that has a reply to each whole request (`Answer`), or the other way round
(`peerFirst`). Each step is a step of `SocketedThread` narrowed by who may speak:
`PeerHas`, `ToSay` and `ToHear` count the bytes a side has to say or to hear.
`whole` says that what is sent together is received together, which neither a
serial line nor a socket promises.

The three properties say when such a conversation works. `Framed` names what it
takes: whole messages, none that ends at a multiple of the relay's buffer, no
signals that interrupt system calls, and a caller that flushes before it waits.
Then nobody is ever left waiting (`StallHasCause`) and the conversation ends
(`ExchangeCompletes`); with whole messages and no signals, no other conversation
of two rounds gets through (`OthersStall`).

### StreamHandles, MCStreamHandles

Every constructor of the three stream types, over a table of descriptors
(`holder`) that the rest of the program uses too. A slot of `Stream` is one
stream in the course of its life.

| Variable | Code |
|---|---|
| `holder` | the process's table of descriptors: free, the program's, owned by a stream's `resources`, or by its helper thread |
| `kind`, `open` | what the stream was built as; whether the program still has it |
| `handle` | `read_handle` and `write_handle`, or the one called `handle` |
| `held` | the descriptors in `ReadResources`, `WriteResources`, `DuplexResources`; empty once `take()` has emptied the `Option` |
| `thread`, `call` | the helper thread, and the call that is joining it |

`Plain` builds the streams that have no thread and `Threaded` the others.
`TakeAndJoin` is the first half of `map_err`, `flush` and the destructors: the
slot is emptied and its descriptor closed, and from then on, while the thread is
joined, its number may be reused. `Restart` is `*self = Self::piped_thread(..)`.
Reads and writes that succeed, `peek` and `num_ready_bytes` change nothing here
and are no steps; `AsFd` and `ReadyBytes` are the descriptors they concern.
`MCStreamHandles` adds the symmetry of slots and of descriptors.

## 3. The runs

All passing runs are exhaustive for their bounds.

| Run | States | Shows |
|---|---|---|
| `duplexer_writer` | 62 098 | the write half with every answer of the device, errors and panics included, implements `DuplexChannel`; capacity never exceeded; no write by the destructor after a panic; every call returns |
| `duplexer_reader` | 251 236 | the read half behind one byte to flush: conservation, `read_until` ends at a delimiter or the end of the input, flush before read |
| `line_writer` | 508 438 | the shim's three write paths, with reads that flush in between: conservation, no line hidden in the buffer, lines retried after a failure, the channel again |
| `lockers` | 75 216 | two handles and a stranger on all three streams, two of which share a flag, `stdin_stdout` and failing spawns included, with liveness |
| `conversation` | 24 469 | requests and replies of 1 to 3 bytes over a relay buffer of 2, three constructors, either side first, with and without whole messages, signals and flushes |
| `piped_writer` | 8 664 | writes, restarting flushes and drop with everything able to fail; implements `AbstractWriter` |
| `piped_reader` | 32 807 | both constructors, four kinds of read, drop, everything able to fail; implements `AbstractReader` |
| `socketed` | 222 949 | four constructors, with and without signals, everything able to fail |
| `stream_handles` | about 49 000 | two streams of any kind and five descriptors: handles name what their stream owns, and nothing outlives a stream that joins its thread (modulo symmetry) |
| `lockers_stderr` | counterexample | stderr refused because stdout is claimed |
| `piped_reader_drop` | counterexample | dropping a reader after a failed read panics |
| `socketed_flush` | counterexample | `flush` of a socketed stream does not wait |

Why the bounds are enough to meet the interesting cases:

* Buffers: capacity 2 with arguments of up to 3 bytes (4 for lines) makes data
  smaller than, equal to and larger than the buffer, and than the room left in
  it. Four or five written bytes fill the buffer, flush it partly, and fill it
  again. The writer runs have no input (`MaxIn = 0`, so that a read of the line writer
  is a flush that finds the end of it) and the reader run has one
  byte of output, enough for the flush in front of a read to have something to
  do and to fail; the two halves share nothing else. Two letters, one of them the
  newline, decide everything that `memchr` decides. In the reader run a read may
  ask for less than, as much as or more than the read buffer of 2.
* Lockers: two handles are what exclusion needs, and what a refusal needs, even
  across streams that share a flag; the theorems cover the rest. `MaxUses = 1`
  lets a stranger barge in once, before or after any locker's thread.
* Conversation: messages of 1, 2 and 3 bytes are below, at and beyond the relay's
  buffer of 2, also one that takes two reads. Two rounds are needed, because the
  last message of all may fill the buffer without harm.
* Pipes: pipe of 3 and copy buffer of 2, written in pieces of up to 3 and 6 in all,
  so that the pipe fills while the thread still holds a chunk, and flushes can
  happen before, between and after. The reader's source of up to 6 bytes lies
  below, at and beyond `PIPE_BUF = 3` and the pipe's 4.
* Socketed: a relay buffer of 2 and 3 bytes each way give turns ended by a short
  read, full reads that keep the turn, and a socket that fills.

* Handles: two streams are what a mix-up needs; with five descriptors both can
  have a thread, which takes four, while the program holds one or reuses the one
  a restart has just closed.

Deadlock is checked except in `SocketedThread` and `Conversation`: a caller that
reads from a relay which first waits to be written to waits for ever, and that is
what the code does.

### Fairness

* `BufDuplexer`: weak fairness of `Progress`, everything but the `Interrupted`
  answers in `flush_buf`. The calling thread keeps running, and a device does not
  answer `Interrupted` for ever; without the second assumption the retry loop
  need not end and `CallsReturn` would be false.
* `Lockers`: weak fairness of each handle's thread once it is in a constructor
  or destructor, of each helper thread, and of each stranger releasing a lock it
  has. A stranger is another thread: a thread that holds std's lock and drops a
  locker waits for itself, here as in the code. std's locks are not fair, and a
  program that takes one again and again could keep a locker's thread out for
  ever; `MaxUses` excludes that, and `LockedInTheEnd` and `CloseReturns` rest on it.
* `PipedWriter`, `PipedReader`, `SocketedThread`: weak fairness of the helper
  thread and of the caller inside a call: both threads run, and a boxed object
  answers every call. No fairness is assumed of the caller starting calls.
* `Conversation`: weak fairness of the relay with its peer, and of the caller with
  its program: whoever has something to say or is able to go on does so. Here the
  caller does start its calls, because the property is that they get through.

Every property of every passing run is broken by at least one plausible bug,
written as an operator next to the definition it would replace (`FlushFail_NoDrain`,
`Store_KeepsFlag`, `Restart_KeepsHandle`, `JoinFlush_NoWait`, `Full_OffByOne`,
`Listen_Unflushed`, ...).

## 4. What is proved

`BufDuplexerProofs`, `PipedWriterProofs`, `PipedReaderProofs`,
`SocketedThreadProofs` (which proves `Conversation` as well), `BufReaderLineWriterProofs`
(all five over the lemmas of `SliceLemmas`), `LockersProofs` and `StreamHandlesProofs` prove, for every alphabet, capacity,
size of pipe, socket and buffer, for any number of bytes, and for every set of
handles, strangers, streams and descriptors:

| Theorem | Statement |
|---|---|
| `BufDuplexerProofs!Invariant` | `Spec => []Inv` |
| `TypeCorrect` | types; `written` and `pos` stay within their buffers |
| `OutConservedCorrect`, `InConservedCorrect` | no byte lost, repeated or reordered in either direction |
| `CapacityKeptCorrect` | the write buffer never outgrows its allocation |
| `FlushReachesSinkCorrect` | a flush, `into_inner` or drop that reports success is complete |
| `FlushedBeforeReadCorrect` | the action property that reads follow a complete flush |
| `DropNeverRewritesCorrect` | the action property that a destructor does not write right after a panic of the device |
| `UntilStopsAtDelimiterCorrect` | `read_until` ends with the first delimiter, or without one at the end of the input |
| `ImplementsChannelCorrect` | `Spec => Channel!Spec`: the buffered object implements `DuplexChannel` |
| `BufReaderLineWriterProofs!Invariant` | `Spec => []Inv` |
| `OutConservedCorrect`, `CapacityKeptCorrect` | no byte lost on the ways lines and partial lines take; the write buffer never outgrows its allocation |
| `StaleLineIsLastCorrect` | a line left in the buffer is the end of it |
| `LinesRetriedCorrect`, `WriteAllSendsLinesCorrect` | a write that succeeds leaves no earlier line behind, `write_all` none at all |
| `ReadInvariant`, `TypeCorrect` | `Spec => []ReadInv`, and types |
| `InConservedCorrect` | no byte lost on the way in, behind the shim |
| `ImplementsChannelCorrect` | `Spec => Channel!Spec`: the line writer implements `DuplexChannel` too |
| `PipedWriterProofs!Invariant`, `TypeCorrect` | `Spec => []Inv`, and types |
| `InOrderCorrect`, `FlushSynchronizesCorrect` | no byte lost on the way through any number of threads; a flush that succeeds is complete |
| `ImplementsWriterCorrect` | `Spec => Writer!Spec`: a piped writer implements `AbstractWriter` |
| `PipedReaderProofs!Invariant`, `TypeCorrect` | `Spec => []Inv`, and types |
| `InOrderCorrect` | no byte lost between the boxed reader and the caller |
| `ImplementsReaderCorrect` | `Spec => Reader!Spec`: a piped reader implements `AbstractReader` |
| `SocketedThreadProofs!Invariant`, `TypeCorrect` | `Spec => []Inv`, and types |
| `InOrderCorrect`, `EofIsTheEndCorrect` | no byte lost in either direction; the end of the stream comes after its last byte |
| `AlternatesCorrect` | an undisturbed relay keeps its turns |
| `ConversationInvariant` | `ConvSpec => [](Inv /\ ConvInv)` |
| `StallHasCauseCorrect`, `OthersStallCorrect` | a framed conversation leaves nobody waiting; of whole messages, no signals and two rounds or more, no other gets through |
| `LockersProofs!TypeCorrect`, `OwnershipCorrect` | types, and the invariant about flags, lockers and threads |
| `SoleOwnerCorrect`, `NoStrayThreadCorrect` | exclusion, and no helper thread outlives its locker |
| `RefusedHasCauseCorrect` | a claim is refused only for a cause: an owner, a failed spawn, a destructor of the wrong flag |
| `StreamHandlesProofs!Invariant`, `TypeCorrect` | `Spec => []Inv`, and types |
| `HandleHeldLiveCorrect` | the handles of a stream that has its resources name descriptors these own |
| `NothingOutlivesCorrect` | a dropped stream leaves no descriptor, and no thread it joins |

The assumptions are the `ASSUME`s of the modules: `NL \in Byte`, capacities and
bounds natural numbers, streams among the three, handles disjoint from strangers,
`NoFd` and the standard descriptors not among the others; pipes, sockets and the
buffers of `io::copy` and of the relay hold at least one byte. In `Conversation` every
message has at least one byte and fits into one call and into the socket
(`MessageAssumption`), which is what "sent together" means there, and the bounds on
bytes leave room for all of its rounds; the theorems about `SocketedThread` alone do not
use it.
A capacity of zero of a `BufDuplexer` is included.

*The invariant of BufDuplexer.* The properties are not inductive: `OutConserved`
in the middle of a write depends on what the code before has established. `Inv`
adds `Control` (which frames each call can still have, in order), `Offered`
(the argument is untouched until the call that took it returns), `GuardAtRest`
(`BufGuard` counts only inside `flush_buf`), `Fits` (what the capacity test
leaves for the write after it), `Emptied` (what a successful `flush_buf` and
`flush` leave) and `Accounted` (`sink \o Remaining = accepted`, exactly). There is
one lemma per action, and each shows one conjunct after the other. `Inv` was
model-checked before it was proved, as were all the invariants below.

Two more invariants stand on it. `Heeded`: a panic that the last call has returned
with is still in `panicked`, so that a destructor that comes to its flush follows
no such call. `Searching`: what `read_until` has appended so far holds no
delimiter, and a refill that leaves nothing unread has left the buffer empty,
which is how the loop tells the end of the input.

*The refinement of DuplexChannel.* `ImplementsChannelCorrect` maps each step to one
of the channel's: a return that reports n bytes as sent (`ReturnImplements`), bytes
received (`ReceiveImplements`), bytes moved to the device (`FlushImplements`,
`WriteImplements`), a flush of it (`InnerFlushImplements`), a new call
(`CallImplements`), or a stutter (`Unnoticed`). The channel demands that what is
out is a prefix of what was sent and offered; `SinkIsPrefix` has that from
`Accounted` and `OutConserved`.

*The invariant of BufReaderLineWriter.* Between calls a newline in the buffer means
that the buffer ends with one; what happens within calls has to say why. `Control`
lists the shim's frames together with where the lines end in what is still to be
placed: a part without a line end, lines on their way past the buffer, or lines of a
`write_all` with the partial line behind them. `Bare` says that lines go to the device
past an empty buffer, `Unlined` that a part without a line end joins a buffer without
one, which is what `flush_if_completed_line` is for; from them `Stale` is kept by every
step, a failed flush of half a line included. Of the calls only `write_all` places a
part of its argument before it returns (`Offered`), so that `Accounted` reads
`sink \o Remaining = accepted \o Take(payload, Placed)`.

`ReadInv`, on top of it, is for the reads and the refinement: types, `InConserved`, and
`Emptied`, what a successful `flush_buf` and `flush` leave. Each step is a `Turn`, which
stays in its call, returns something within the argument's range, or goes on with other
frames. A step that writes is a transfer or an acceptance of the channel because
`OutConserved` holds after it; a flush of the device is the channel's because `Emptied`
makes everything accepted be in the sink by then.

*The invariant of PipedWriter.* `InOrder` allows bytes to be anywhere once a thread
has failed, so that it says nothing about the steps that lead there. `Flow` says it
exactly: `sink \o chunk \o pipe = accepted`, always. `Position` says what the thread has
left behind when it gets to each place, in particular that one that has ended well
has emptied the pipe and flushed everything; `Custody` says that the slot is empty
in the middle of a join and afterwards only once a call has reported a loss. From
the two follows what a flush needs: the thread it joined had the last byte.
In the refinement the flush of the boxed writer is what makes bytes arrive, and
`Custody` is what allows a drop to stay silent about a loss: some call has spoken.

*The invariant of PipedReader.* The refinement wants what the caller has received to
be a prefix of the input, and the end of the input to be its end. `Counted` says
that the bytes produced are the first ones of the input; `Position` that a thread
that has ended well has produced all of it and has nothing left to write, that only
a closed read end breaks the pipe, and that `bytes` starts its thread or fills its
pipe with all of the slice; `Custody` ties the read end of the pipe to the slot, so
that a read at the end of the pipe sees either a thread that has ended well or a
failure that drop will report.

*The invariant of SocketedThread.* One buffer serves both directions. `Flow` says
whose bytes are in it at each place, also in a relay that has died over them
(`Outbound`, `Inbound`), and that it is empty between two turns. `Turns` is why
`Alternates` holds: what the relay owes, a write to the boxed object, is settled
before any place from which it can get to the next read, unless a signal cuts a
read of the socket short. `Endings` says that a socket breaks only when the caller's
end is closed, and that once the caller has seen the end of the stream nothing is
left on the way to it.

*The invariant of conversations.* `InTurn` says that requests leave whole, one at a
time and in their turn. With it, while bytes of one message are on their way nothing is
on its way against them, and only its last byte makes the peer answer (lemma `Polite`).
On that rests `Cued`: what remains to be read of a message is known modulo the relay's
buffer, so that a read is a short one exactly when it takes the last of the message, and
the relay waits for the boxed object only when that has something to say or all is said.
A conversation that is not framed has one of three causes, each an invariant of its own
of how far it gets: `Unflushed` (the request never leaves the caller's buffer),
`FullRequests` and `FullReplies` (the relay goes on reading from the side that is done).
`origin # "func"` in the initial states leaves out relays that are not the crate's.

*The invariant of Lockers.* Exclusion cannot be shown flag by flag, since a
`StderrLocker` sets one flag and clears another. `Ownership` says that a set flag
has at most one owner among all streams that claim it, that an owner's flag is
set, and that a thread is gone before its locker's flag is cleared. It survives
the wrong flag because the flag `STDERR_CLAIMED` that is cleared is one nobody
claims; the same mistake shows only as claims refused for ever. `FlagHasCause`, a
second invariant, is the converse: every set flag has an owner or is in `leaked`.
From it every refusal has one of the causes `RefusedHasCause` names.

*The invariant of StreamHandles.* `Agrees` ties the two sides together for each
stream: what the table says its resources own is what they own (`Mine`), an open
stream with resources has their numbers for handles, a stream that is gone or
inside a join has none, and a thread that has ended has closed its end, except
that a function's socket waits in its `JoinHandle` (`Rest` says when it no longer
does). Nothing in it mentions other streams: a step of one gives or takes
descriptors only of its own or free ones, which is the heart of the proof.

Every invariant, action property and refinement that a passing run checks is
proved. Only model-checked is liveness (`CallsReturn`, `CloseReturns`,
`LockedInTheEnd`, `DropReturns`, `DroppedThreadEnds`, `ExchangeCompletes`): it rests on
fairness, which is out of the prover's reach.

## 5. Observations

Three disagreements between the code and what it says of itself are checked as
runs that must fail, and are listed as findings: `lockers_stderr`,
`piped_reader_drop` and `socketed_flush`. Modelling met others, visible in the
same models:

* `lockers.rs:104` (and its siblings): if `spawn` fails, the claim flag stays
  set and the stream can never be claimed again. `lockers` includes it (`leaked`).
* `streams.rs:203`: `StreamReader::stdin` returns once its helper thread is
  spawned, not once it holds std's lock; until then `std::io` users are not kept
  out.
* `streams.rs:577` and `:374`: `unwrap_err()` on a thread that ended well, after
  an interrupted write, a `read_exact` at the end of input, or a `read_to_string`
  of bytes that are not UTF-8 (result kind `"no_error"`).
* `streams.rs:575` and `:984`: after one failed write the next failing call, or a
  flush, unwraps an empty slot (`"no_thread"`).
* `streams.rs:987`: `flush` panics on an error of the boxed writer that `write`
  reports as an error (`"thread_failed"`).
* `streams.rs:1365`: the destructor of a `socketed_thread_func` unwraps the
  function's error, also one caused by closing the socket under it; the
  destructor of piped readers ignores the corresponding `BrokenPipe`.
* `streams.rs:1432`: a message of exactly the relay's buffer size, or a multiple of
  it, is the last of a conversation: the relay waits for more of it and both sides
  wait for each other (`OthersStall`). `DEFAULT_BUF_SIZE` is 8 KiB, a likely size
  of a message.
* `buf_duplexer.rs:655`: so is a request the caller leaves in the write buffer
  while it waits in `fill_buf`, or in a method of std built directly on it
  (`has_data_left`, `skip_until`).
* `streams.rs:941-963`: `num_ready_bytes` of a piped reader panics after a failed
  read, and `peek` of one always answers that there is nothing.
* `README.md:26-28`: the asynchronous streams are described as available, by
  features whose modules `lib.rs` has commented out.
* `streams.rs:1441`: an interrupted read of the socket counts as a short one and
  turns the relay to the boxed object out of turn; `Alternates` is stated for
  processes whose signals do not interrupt calls.
* `streams.rs:576`: after a failed call `map_err` has closed the pipe and the
  stream's handle goes on naming its number, and `as_fd` lends it out as a
  borrowed descriptor although it is closed or someone else's.
  `HandleHeldLive` is about streams that still have their resources.
* `streams.rs:833`: the socket that a function given to `socketed_thread_func`
  returns stays open in the `JoinHandle`, so that the caller who reads on sees no
  end of input until the stream is dropped.
* `streams.rs:988`: a flush closes two descriptors before it asks for two new
  ones; if the process has meanwhile run out of them, the boxed writer is lost.
* `buf_duplexer.rs:731`: `panicked` stays set until the next inner write that
  returns, so bytes buffered after a caught panic are skipped by the destructor
  without an error.
* `streams.rs:788-801`: `socketed_thread` never ends if its stream is dropped
  before either side has data; `DroppedThreadEnds` makes that exception.

## 6. Abstractions

* The build is the stable one: `can_vector`, `write_all_vectored` and
  `read_initializer`, which `build.rs` probes for, are off.
* The slices of a vectored write are their concatenation, except where the shim
  treats them one by one.
* `Vec::with_capacity(n)` allocates exactly n, as it does for bytes; the code
  takes `capacity()` for the configured size.
* `sink` is what the device has acknowledged. A device that panics in `write` may
  have taken more; that is what `panicked` is for, and `DropNeverRewrites` is
  about it.
* `read_until` and `read_line` are std's provided methods over `fill_buf` and
  `consume`; a retry after `Interrupted` is a stutter.
* `get_mut` only gives access to the device, whose answers are arbitrary anyway.
* std's locks are not recursive and not fair; `park` returns once unparked.
  Spurious wake-ups, which would let `ThreadExit` happen early, are left out.
* A pipe or socket gives `Interrupted` to the caller only where the code passes
  it on; the retrying methods hide it. Raw handles of closed descriptors answer
  with an error.
* A socket whose other end is gone with unread bytes first yields what has
  arrived, then a reset or the end of the stream.

* `StreamHandles` numbers descriptors as POSIX does; Windows handles differ in
  type only. A slot of it is used once, and a child process is the descriptors of
  its pipes: dropping a `Child` neither ends the process nor waits for it.
* `StreamHandles` refuses a standard stream that another stream has;
  what else the lockers refuse, and when, is the subject of `Lockers`.

Not modelled: the asynchronous modules, which are commented out of the crate and
mostly `todo!()` (their constructors keep a handle next to its resource, as
`StreamHandles` has it for the synchronous ones); the build script; the examples;
`Debug` and the forwarding traits of the buffers (`AsRaw*`, `Terminal`,
`Bufferable`), `abandon` included, which tells the device and nothing else. Constructors that fail before
anything exists (`pipe()?`, `socketpair_stream()?`) return with nothing to model.

## 7. Plan

Done: models of every part of the crate that keeps state, and proofs of all their
safety properties and refinements.

Next: `FlushReachesSink` and `FlushedBeforeRead` for the line writer, which so far are
checked and proved of `BufDuplexer` only; and that the end of a framed conversation is
the end of all it had to say, for conversations of any length.
