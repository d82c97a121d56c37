------------------------- MODULE BufDuplexerBackend -------------------------
(***************************************************************************)
(* The shared core of `BufDuplexer` and `BufReaderLineWriter`:             *)
(* `BufDuplexerBackend<Inner>` of src/buffered/buf_duplexer.rs, a write    *)
(* buffer and a read buffer in front of one bidirectional device `Inner`.  *)
(*                                                                         *)
(* The object is used through `&mut self`, so one public call is in        *)
(* progress at a time.  What makes it interesting is the device: each      *)
(* call to inner.write / inner.flush / inner.read may take only a part,    *)
(* take nothing, fail, be interrupted or panic, and the caller may go on   *)
(* using the object after any of these (a panic can be caught).  A step    *)
(* of this module is therefore the code from one answer of the device to   *)
(* the next, and the code a call still has to run is the sequence `todo`   *)
(* of frames: `f()?; g()` is << f, g >>, and an error empties it.          *)
(*                                                                         *)
(* The device is outside the repository: its answers are what the          *)
(* contracts of std::io::Read and std::io::Write allow.                    *)
(***************************************************************************)
EXTENDS Slices

CONSTANTS
    Byte,       \* the alphabet of the data
    NL,         \* b'\n', also the delimiter given to read_until
    RCap,       \* reader_capacity of with_capacities
    WCap,       \* writer_capacity of with_capacities
    MaxOut,     \* bound: bytes the caller writes in a behaviour
    MaxIn,      \* bound: bytes the device delivers in a behaviour
    MaxArg,     \* bound: length of one buffer the caller passes
    Calls       \* the public calls the caller makes

ASSUME AlphabetAssumption == NL \in Byte
ASSUME CapacityAssumption == RCap \in Nat /\ WCap \in Nat
ASSUME BoundAssumption == MaxOut \in Nat /\ MaxIn \in Nat /\ MaxArg \in Nat

VARIABLES
    writer_buf, \* Vec: bytes reported as written and not yet on the device
    written,    \* BufGuard.written, 0 outside flush_buf
    panicked,   \* the flag that tells Drop to skip its flush
    reader_buf, \* the valid part reader_buf[..cap]
    pos,        \* read position in it
    open,       \* the caller still owns the object
    call,       \* the public call in progress, or "idle"
    todo,       \* frames this call still has to run
    payload,    \* the `buf` argument of the write call in progress
    arg,        \* the part of it that no buffer and no device holds yet
    result,     \* what the last finished call returned
    sink,       \* bytes the device has acknowledged
    synced,     \* how many of them its last successful flush covers
    fetched,    \* bytes the device has delivered
    accepted,   \* bytes the caller was told are written
    delivered   \* bytes the caller has received

writerVars == << writer_buf, written, panicked >>
readerVars == << reader_buf, pos >>
callVars   == << open, call, todo, payload, arg, result, accepted >>
outVars    == << sink, synced >>
inVars     == << fetched, delivered >>
vars == << writerVars, readerVars, callVars, outVars, inVars >>

-----------------------------------------------------------------------------
Chunks(n) == UNION { [1..k -> Byte] : k \in 0..n }

(* BufGuard::remaining, reader_buffer and the free room of a Vec.          *)
Remaining == Skip(writer_buf, written)
Unread    == Skip(reader_buf, pos)
Room      == WCap - Len(writer_buf)

WriteCalls  == {"write", "write_all"}
ReadCalls   == {"read", "read_until", "fill_buf", "consume"}
PublicCalls == WriteCalls \cup ReadCalls \cup {"flush", "into_inner", "drop"}

Init ==
    /\ writer_buf = << >> /\ written = 0 /\ panicked = FALSE
    /\ reader_buf = << >> /\ pos = 0
    /\ open = TRUE /\ call = "idle" /\ todo = << >>
    /\ payload = << >> /\ arg = << >>
    /\ result = [of |-> "new", kind |-> "ok", n |-> 0]
    /\ sink = << >> /\ synced = 0 /\ fetched = << >>
    /\ accepted = << >> /\ delivered = << >>

-----------------------------------------------------------------------------
(* Frames.                                                                 *)

Do(op, n) == [op |-> op, n |-> n]
At(op) == todo # << >> /\ Head(todo).op = op
N == Head(todo).n
Moved(rest) == Len(payload) - Len(rest)

(* into_inner hands the object back, with the error it has met, inside an  *)
(* IntoInnerError.  Taking it out again goes on with the object, turning   *)
(* the whole into a plain error drops it.                                  *)
IntoInnerError(kind) == call = "into_inner" /\ kind = "err"

(* The public call returns.  "ok" and "err" are the two arms of            *)
(* io::Result, "wpanic" is a panic of inner.write unwinding through the    *)
(* call, "panic" one of inner.flush or inner.read, "skipped" a Drop that   *)
(* does not flush.  A write that fails has by contract written nothing, a  *)
(* write_all that fails has written an unspecified prefix (its first n     *)
(* bytes).  `self` is gone after drop and into_inner, unless an error of   *)
(* the latter has it.                                                      *)
Return(kind, n) ==
    /\ call' = "idle" /\ todo' = << >> /\ payload' = << >> /\ arg' = << >>
    /\ result' = [of |-> call, kind |-> kind, n |-> n]
    /\ accepted' = IF call = "write_all" \/ (call = "write" /\ kind = "ok")
                   THEN accepted \o Take(payload, n) ELSE accepted
    /\ open' = (open /\ (call \in {"into_inner", "drop"} => IntoInnerError(kind)))

(* The head frame is done and the caller's remaining bytes are `rest`.     *)
Proceed(rest) ==
    IF Len(todo) = 1 THEN Return("ok", Moved(rest))
    ELSE /\ todo' = Tail(todo) /\ arg' = rest
         /\ UNCHANGED << open, call, payload, result, accepted >>

(* `?` and unwinding: the rest of the frames is abandoned.                 *)
Abandon(kind) == Return(kind, Moved(arg))

Enter(name, frames, data) ==
    /\ open /\ call = "idle" /\ name \in Calls
    /\ call' = name /\ todo' = frames /\ payload' = data /\ arg' = data
    /\ UNCHANGED << open, result, accepted, writerVars, readerVars, outVars,
                    inVars >>

Become(frames) ==
    /\ todo' = frames \o Tail(todo)
    /\ UNCHANGED << open, call, payload, arg, result, accepted >>

-----------------------------------------------------------------------------
(* flush_buf: one action per answer of inner.write(guard.remaining()).     *)

(* BufGuard::drop runs on every way out of flush_buf, unwinding included.  *)
Drain == writer_buf' = Remaining /\ written' = 0

Flushing == At("flush_buf") /\ written < Len(writer_buf)

(* Mutant of FlushWrite: the guard is advanced by one byte too many.       *)
FlushWrite_OneTooFar ==
    /\ Flushing
    /\ \E n \in 1..Len(Remaining) :
          /\ sink' = sink \o Take(Remaining, n)
          /\ written' = written + n + 1
    /\ panicked' = FALSE
    /\ UNCHANGED << writer_buf, readerVars, callVars, synced, inVars >>

FlushWrite ==
    /\ Flushing
    /\ \E n \in 1..Len(Remaining) :
          /\ sink' = sink \o Take(Remaining, n)
          /\ written' = written + n
    /\ panicked' = FALSE
    /\ UNCHANGED << writer_buf, readerVars, callVars, synced, inVars >>

FlushInterrupted ==
    /\ Flushing
    /\ panicked' = FALSE
    /\ UNCHANGED << writer_buf, written, readerVars, callVars, outVars, inVars >>

(* Mutant of FlushFail: the guard drains on success only.                  *)
FlushFail_NoDrain ==
    /\ Flushing
    /\ written' = 0 /\ UNCHANGED writer_buf /\ panicked' = FALSE
    /\ Abandon("err")
    /\ UNCHANGED << readerVars, outVars, inVars >>

(* Mutant of FlushFail: Ok(0) ends the loop as if everything were written. *)
FlushFail_ZeroIsDone ==
    /\ Flushing
    /\ Drain /\ panicked' = FALSE
    /\ Proceed(arg)
    /\ UNCHANGED << readerVars, outVars, inVars >>

(* Ok(0) becomes WriteZero; any other error is passed on.                  *)
FlushFail ==
    /\ Flushing
    /\ Drain /\ panicked' = FALSE
    /\ Abandon("err")
    /\ UNCHANGED << readerVars, outVars, inVars >>

FlushPanic ==
    /\ Flushing
    /\ Drain /\ panicked' = TRUE
    /\ Abandon("wpanic")
    /\ UNCHANGED << readerVars, outVars, inVars >>

FlushDone ==
    /\ At("flush_buf") /\ written >= Len(writer_buf)
    /\ Drain /\ UNCHANGED panicked
    /\ Proceed(arg)
    /\ UNCHANGED << readerVars, outVars, inVars >>

FlushBuf ==
    FlushWrite \/ FlushInterrupted \/ FlushFail \/ FlushPanic \/ FlushDone

(* `self.get_mut().flush()` after a successful flush_buf.                  *)
InnerFlush ==
    /\ At("inner_flush")
    /\ \/ Proceed(arg) /\ synced' = Len(sink)
       \/ \E kind \in {"err", "panic"} : Abandon(kind) /\ UNCHANGED synced
    /\ UNCHANGED << sink, writerVars, readerVars, inVars >>

-----------------------------------------------------------------------------
(* write, write_vectored and write_all of the backend, on the first N      *)
(* bytes of arg: make room, then buffer or bypass the buffer.              *)

Put(op) == IF op = "write" THEN "put" ELSE "put_all"

(* Mutant of MakeRoom: one byte too many is thought to fit.                *)
MakeRoom_OffByOne ==
    /\ \E op \in WriteCalls :
          /\ At(op)
          /\ Become(IF Len(writer_buf) + N > WCap + 1
                    THEN << Do("flush_buf", 0), Do(Put(op), N) >>
                    ELSE << Do(Put(op), N) >>)
    /\ UNCHANGED << writerVars, readerVars, outVars, inVars >>

(* Mutant of MakeRoom: `while` for `if`.                                   *)
MakeRoom_Repeats ==
    /\ \E op \in WriteCalls :
          /\ At(op)
          /\ Become(IF Len(writer_buf) + N > WCap
                    THEN << Do("flush_buf", 0), Do(op, N) >>
                    ELSE << Do(Put(op), N) >>)
    /\ UNCHANGED << writerVars, readerVars, outVars, inVars >>

MakeRoom ==
    /\ \E op \in WriteCalls :
          /\ At(op)
          /\ Become(IF Len(writer_buf) + N > WCap
                    THEN << Do("flush_buf", 0), Do(Put(op), N) >>
                    ELSE << Do(Put(op), N) >>)
    /\ UNCHANGED << writerVars, readerVars, outVars, inVars >>

Buffer ==
    /\ (At("put") \/ At("put_all")) /\ N < WCap
    /\ writer_buf' = writer_buf \o Take(arg, N)
    /\ Proceed(Skip(arg, N))
    /\ UNCHANGED << written, panicked, readerVars, outVars, inVars >>

(* inner.write or inner.write_vectored: k bytes, an error or a panic.      *)
PutDirect ==
    /\ At("put") /\ N >= WCap
    /\ \/ \E k \in 0..N :
             /\ sink' = sink \o Take(arg, k)
             /\ panicked' = FALSE
             /\ Return("ok", Moved(arg) + k)
       \/ Abandon("err") /\ panicked' = FALSE /\ UNCHANGED sink
       \/ Abandon("wpanic") /\ panicked' = TRUE /\ UNCHANGED sink
    /\ UNCHANGED << writer_buf, written, readerVars, synced, inVars >>

(* inner.write_all: everything, or a prefix and then an error or a panic.  *)
PutAllDirect ==
    /\ At("put_all") /\ N >= WCap
    /\ \/ /\ sink' = sink \o Take(arg, N)
          /\ panicked' = FALSE
          /\ Proceed(Skip(arg, N))
       \/ \E k \in 0..N, kind \in {"err", "wpanic"} :
             /\ k = N => N = 0
             /\ sink' = sink \o Take(arg, k)
             /\ panicked' = (kind = "wpanic")
             /\ Return(kind, Moved(Skip(arg, k)))
    /\ UNCHANGED << writer_buf, written, readerVars, synced, inVars >>

Write == MakeRoom \/ Buffer \/ PutDirect \/ PutAllDirect

-----------------------------------------------------------------------------
(* The read half of the backend.                                           *)

(* inner.read into n bytes of room.                                        *)
Arrivals(n) == { c \in Chunks(n) : Len(fetched) + Len(c) <= MaxIn }

(* Mutant of Bypass: a large read always goes to the device.               *)
Bypass_Always(n) == n >= RCap

(* A large read with nothing unread bypasses the buffer.                   *)
Bypass(n) == pos = Len(reader_buf) /\ n >= RCap

ReadDirect ==
    /\ At("read") /\ Bypass(N)
    /\ reader_buf' = << >> /\ pos' = 0
    /\ \/ \E chunk \in Arrivals(N) :
             /\ fetched' = fetched \o chunk
             /\ delivered' = delivered \o chunk
             /\ Return("ok", Len(chunk))
       \/ \E kind \in {"err", "panic"} : Abandon(kind) /\ UNCHANGED inVars
    /\ UNCHANGED << writerVars, outVars >>

ReadBuffered ==
    /\ At("read") /\ ~Bypass(N)
    /\ Become(<< Do("fill_buf", 0), Do("copy", N) >>)
    /\ UNCHANGED << writerVars, readerVars, outVars, inVars >>

(* Mutant of FillBuf: pos is not reset after a refill.                     *)
FillBuf_KeepsPos ==
    /\ At("fill_buf")
    /\ \/ /\ pos < Len(reader_buf)
          /\ Proceed(arg)
          /\ UNCHANGED << readerVars, inVars >>
       \/ /\ pos >= Len(reader_buf)
          /\ \E chunk \in Arrivals(RCap) :
                /\ reader_buf' = chunk /\ pos' = Least(pos, Len(chunk))
                /\ fetched' = fetched \o chunk
          /\ Proceed(arg)
          /\ UNCHANGED delivered
    /\ UNCHANGED << writerVars, outVars >>

(* fill_buf asks the device only when nothing is left unread.              *)
FillBuf ==
    /\ At("fill_buf")
    /\ \/ /\ pos < Len(reader_buf)
          /\ Proceed(arg)
          /\ UNCHANGED << readerVars, inVars >>
       \/ /\ pos >= Len(reader_buf)
          /\ \E chunk \in Arrivals(RCap) :
                /\ reader_buf' = chunk /\ pos' = 0
                /\ fetched' = fetched \o chunk
          /\ Proceed(arg)
          /\ UNCHANGED delivered
       \/ /\ pos >= Len(reader_buf)
          /\ \E kind \in {"err", "panic"} : Abandon(kind)
          /\ UNCHANGED << readerVars, inVars >>
    /\ UNCHANGED << writerVars, outVars >>

(* consume(k) of bytes handed to the caller.                               *)
Deliver(k) ==
    /\ delivered' = delivered \o Take(Unread, k)
    /\ pos' = pos + k
    /\ UNCHANGED << reader_buf, fetched >>

Copy ==
    /\ At("copy")
    /\ LET k == Least(N, Len(Unread)) IN Deliver(k) /\ Return("ok", k)
    /\ UNCHANGED << writerVars, outVars >>

(* The loop of std's provided read_until over fill_buf and consume; its    *)
(* retry of an interrupted fill_buf changes nothing and is a stutter here. *)
(* N counts the bytes appended so far.                                     *)
ReadUntil ==
    /\ At("until")
    /\ \/ \E i \in 1..Len(Unread) :
             /\ Unread[i] = NL /\ ~Holds(Take(Unread, i - 1), NL)
             /\ Deliver(i) /\ Return("ok", N + i)
       \/ Unread = << >> /\ Deliver(0) /\ Return("ok", N)
       \/ /\ Unread # << >> /\ ~Holds(Unread, NL)
          /\ Deliver(Len(Unread))
          /\ Become(<< Do("fill_buf", 0), Do("until", N + Len(Unread)) >>)
    /\ UNCHANGED << writerVars, outVars >>

Read == ReadDirect \/ ReadBuffered \/ FillBuf \/ Copy \/ ReadUntil

-----------------------------------------------------------------------------
(* Public calls that both front ends delegate in the same way.             *)

(* Mutant of FlushFrames: only the device is flushed.                      *)
FlushFrames_InnerOnly == << Do("inner_flush", 0) >>

(* Mutant of FlushFrames: the device is flushed first.                     *)
FlushFrames_Swapped == << Do("inner_flush", 0), Do("flush_buf", 0) >>

FlushFrames == << Do("flush_buf", 0), Do("inner_flush", 0) >>

CallFlush == Enter("flush", FlushFrames, << >>)

(* Front-end read and read_vectored: flush the write half, then read.      *)
CallRead ==
    \E n \in 0..MaxArg :
        Enter("read", Append(FlushFrames, Do("read", n)), << >>)

(* Front-end read_until and read_line.                                     *)
CallReadUntil ==
    Enter("read_until",
          FlushFrames \o << Do("fill_buf", 0), Do("until", 0) >>, << >>)

(* Front-end fill_buf and consume do not flush.                            *)
CallFillBuf == Enter("fill_buf", << Do("fill_buf", 0) >>, << >>)

CallConsume ==
    /\ open /\ call = "idle" /\ "consume" \in Calls
    /\ \E amt \in 1..MaxArg : Deliver(Least(amt, Len(Unread)))
    /\ result' = [of |-> "consume", kind |-> "ok", n |-> 0]
    /\ UNCHANGED << open, call, todo, payload, arg, accepted, writerVars,
                    outVars >>

CallIntoInner == Enter("into_inner", << Do("flush_buf", 0) >>, << >>)

(* Mutant of CallDrop: `panicked` is not consulted.                        *)
CallDrop_AlwaysFlushes == Enter("drop", << Do("flush_buf", 0) >>, << >>)

(* Drop flushes unless inner.write panicked last.                          *)
CallDrop ==
    \/ ~panicked /\ Enter("drop", << Do("flush_buf", 0) >>, << >>)
    \/ /\ panicked /\ open /\ call = "idle" /\ "drop" \in Calls
       /\ open' = FALSE
       /\ result' = [of |-> "drop", kind |-> "skipped", n |-> 0]
       /\ UNCHANGED << call, todo, payload, arg, accepted, writerVars,
                       readerVars, outVars, inVars >>

CallCommon ==
    \/ CallFlush \/ CallRead \/ CallReadUntil \/ CallFillBuf \/ CallConsume
    \/ CallIntoInner \/ CallDrop
-----------------------------------------------------------------------------
(* The code that a call may still have to run, from the whole to the last  *)
(* of its frames; for the inductive invariants of the two front ends.      *)

LastN == todo[Len(todo)].n

WriteStages(c, n) ==
    { << Do(c, n) >>, << Do("flush_buf", 0), Do(Put(c), n) >>, << Do(Put(c), n) >> }
FlushStages ==
    { << Do("flush_buf", 0), Do("inner_flush", 0) >>, << Do("inner_flush", 0) >> }
ReadStages(n) ==
    { << Do("flush_buf", 0), Do("inner_flush", 0), Do("read", n) >>,
      << Do("inner_flush", 0), Do("read", n) >>, << Do("read", n) >>,
      << Do("fill_buf", 0), Do("copy", n) >>, << Do("copy", n) >> }
UntilStages(n) ==
    { << Do("flush_buf", 0), Do("inner_flush", 0), Do("fill_buf", 0), Do("until", n) >>,
      << Do("inner_flush", 0), Do("fill_buf", 0), Do("until", n) >>,
      << Do("fill_buf", 0), Do("until", n) >>, << Do("until", n) >> }

-----------------------------------------------------------------------------
(* Properties of the object whichever front end drives it.                 *)

Ops == { "flush_buf", "inner_flush", "write", "write_all", "put", "put_all",
         "read", "fill_buf", "copy", "until", "line_write", "line_write_all",
         "line_write_vectored" }

(* Type invariant; the slice bounds written <= len and pos <= cap keep     *)
(* `&buffer[written..]` and `&reader_buf[pos..cap]` from panicking.        *)
BufferTypes ==
    /\ writer_buf \in Seq(Byte) /\ written \in 0..Len(writer_buf)
    /\ panicked \in BOOLEAN
    /\ reader_buf \in Seq(Byte) /\ pos \in 0..Len(reader_buf)

CallTypes ==
    /\ open \in BOOLEAN /\ call \in PublicCalls \cup {"idle"}
    /\ todo \in Seq([op : Ops, n : Nat])
    /\ payload \in Seq(Byte) /\ arg \in Seq(Byte) /\ accepted \in Seq(Byte)
    /\ result \in [of : PublicCalls \cup {"new"}, n : Nat,
                   kind : {"ok", "err", "wpanic", "panic", "skipped"}]

DeviceTypes ==
    /\ sink \in Seq(Byte) /\ synced \in 0..Len(sink)
    /\ fetched \in Seq(Byte) /\ delivered \in Seq(Byte)

TypeOK == BufferTypes /\ CallTypes /\ DeviceTypes

(* No byte reported as written is lost, repeated or reordered on its way   *)
(* to the device, across partial writes, failed flushes, retries, caught   *)
(* panics and the paths that bypass the buffer; and no byte of a `write`   *)
(* that failed is on the device or in the buffer.                          *)
OutConserved == sink \o Remaining \o arg = accepted \o payload

(* The same for the read half: read-ahead, bypassing reads, read_until and *)
(* consume never lose, repeat or reorder what the device delivered.        *)
InConserved == delivered \o Unread = fetched

(* writer_buf never outgrows its allocation: the code takes                *)
(* writer_buf.capacity() for the configured capacity, which holds only     *)
(* while no path pushes more than fits.                                    *)
CapacityKept == Len(writer_buf) <= WCap

(* The device is asked for input on behalf of read, read_until or          *)
(* read_line only once it has everything the caller wrote and has flushed  *)
(* it: a request the peer is waiting for cannot be stuck in the buffer.    *)
FlushedBeforeRead ==
    [][ (call \in {"read", "read_until"} /\ fetched' # fetched)
          => (sink = accepted /\ synced = Len(sink)) ]_vars

(* A flush, into_inner or drop that reports success has put every byte     *)
(* the caller was ever told is written on the device.                      *)
FlushReachesSink ==
    (call = "idle" /\ result.kind = "ok"
       /\ result.of \in {"flush", "into_inner", "drop"})
      => sink = accepted

(* The destructor never writes right after a panic of inner.write, so no   *)
(* buffered byte that panicking write may have sent is sent twice (the     *)
(* `panicked` flag, #30888).                                               *)
DropNeverRewrites ==
    [][ (call = "drop" /\ result.kind = "wpanic") => sink' = sink ]_vars

(* read_until and read_line stop at the first delimiter, however many      *)
(* refills it takes to reach it, and without one only at the end of the    *)
(* input: what a successful call appended holds a delimiter at its end     *)
(* only, or none, and then the device has just answered a refill with      *)
(* nothing.                                                                *)
UntilStopsAtDelimiter ==
    (call = "idle" /\ result.of = "read_until" /\ result.kind = "ok")
      => LET got == Skip(delivered, Len(delivered) - result.n) IN
         \/ ~Holds(got, NL) /\ reader_buf = << >>
         \/ got[Len(got)] = NL /\ ~Holds(Take(got, Len(got) - 1), NL)

(* Every call returns (by Ok, Err or panic), if each call of the device    *)
(* does and the device does not answer Interrupted for ever.               *)
CallsReturn == (call # "idle") ~> (call = "idle")

(* The object implements the two FIFOs of DuplexChannel.                   *)
Channel == INSTANCE DuplexChannel
    WITH sent <- accepted, offer <- payload, out <- sink, synced <- synced,
         feed <- fetched, got <- delivered
=============================================================================
