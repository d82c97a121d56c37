--------------------------- MODULE SocketedThread ---------------------------
(***************************************************************************)
(* `StreamDuplexer::socketed_thread` and its variants in src/streams.rs: a *)
(* boxed half-duplex object is moved to a helper thread that relays        *)
(* between it and one end of a socketpair, and the stream is the other     *)
(* end.  The relay goes one way at a time and turns round whenever a read  *)
(* returns less than its buffer holds.  `socketed_thread_func` hands the   *)
(* socket to a function of the caller's instead.                           *)
(*                                                                         *)
(* The socketpair, the boxed object, the caller's function and the thread  *)
(* primitives are outside the repository; the caller of the stream and the *)
(* helper thread interleave at every call they make to them.  The i-th     *)
(* byte in each direction is the number i.                                 *)
(***************************************************************************)
EXTENDS Slices, SequencesExt

CONSTANTS
    Origins,      \* the constructors in play
    MaxOut,       \* bound: bytes the caller writes
    MaxIn,        \* bound: bytes the boxed object yields
    MaxArg,       \* bound: length of one read or write of the caller
    SockCap,      \* capacity of the socketpair in each direction
    RelayBuf,     \* DEFAULT_BUF_SIZE, the buffer of the relay
    BoxedMayFail, \* the boxed object may return errors and panic
    Signals       \* whether signals may interrupt blocking socket calls: a
                  \* process installs such handlers or it does not

ASSUME OriginAssumption ==
    Origins \subseteq {"read_first", "write_first", "auto", "func"}
ASSUME BoundAssumption == {MaxOut, MaxIn, MaxArg} \subseteq Nat
ASSUME SizeAssumption == SockCap \in Nat \ {0} /\ RelayBuf \in Nat \ {0}
ASSUME FaultAssumption == BoxedMayFail \in BOOLEAN /\ Signals \subseteq BOOLEAN

VARIABLES
    origin,    \* the constructor of the stream
    signals,   \* signals interrupt this process's blocking calls
    open,      \* the caller still owns the stream, and its socket is open
    call,      \* the caller's call in progress, or "idle"
    left,      \* bytes that call still asks for or has to write
    result,    \* what the last finished call returned
    toThread,  \* bytes in the socketpair, from the caller to the thread
    toCaller,  \* and the other way
    thread,    \* what the helper thread does next, or how it ended
    chunk,     \* bytes the relay has read and not yet written
    filled,    \* the read they came from filled the buffer
    accepted,  \* bytes the socket has taken from the caller
    consumed,  \* bytes the boxed object has taken
    yielded,   \* bytes the boxed object has yielded
    delivered, \* bytes the caller has received
    owed       \* since it last yielded less than a buffer the boxed object
               \* has not been written to

caller == << origin, signals, open, call, left, result >>
relay  == << thread, chunk, filled, consumed, yielded, owed >>
vars   == << caller, relay, toThread, toCaller, accepted, delivered >>

(* "broken" is the error of a socket whose other end has closed.           *)
Ended == {"ok", "err", "broken", "panicked"}
Polling == {"poll_socket", "poll_boxed"}

Init ==
    /\ origin \in Origins /\ signals \in Signals
    /\ open = TRUE /\ call = "idle" /\ left = 0
    /\ result = [of |-> "new", kind |-> "ok"]
    /\ toThread = << >> /\ toCaller = << >>
    /\ thread = CASE origin = "read_first" -> "read_boxed"
                  [] origin = "auto" -> "poll_socket"
                  [] OTHER -> "read_socket"
    /\ chunk = << >> /\ filled = FALSE /\ owed = FALSE
    /\ accepted = << >> /\ consumed = << >>
    /\ yielded = << >> /\ delivered = << >>

-----------------------------------------------------------------------------
(* The helper thread.                                                      *)

(* Mutant of Full: one byte less than the buffer counts as full.           *)
Full_OffByOne(n) == n + 1 >= RelayBuf

(* Mutant of Full: the relay turns round after every read.                 *)
Full_Never(n) == n > RelayBuf

(* `n < buf.len()` ends a direction.                                       *)
Full(n) == n >= RelayBuf

(* Where the relay goes on; the caller's function goes where it likes.     *)
Onward(same, other) ==
    IF origin = "func" THEN {same, other}
    ELSE {IF filled THEN same ELSE other}

(* a.num_ready_bytes(), then boxed_duplex.num_ready_bytes(); the sleep in  *)
(* between rounds is not shown.                                            *)
Poll ==
    /\ \/ /\ thread = "poll_socket"
          /\ thread' = IF toThread # << >> THEN "read_socket" ELSE "poll_boxed"
       \/ /\ thread = "poll_boxed"
          /\ \/ thread' = "poll_socket"
             \/ Len(yielded) < MaxIn /\ thread' = "read_boxed"
             \/ BoxedMayFail /\ thread' \in {"err", "panicked"}
    /\ UNCHANGED << caller, chunk, filled, consumed, yielded, owed, toThread,
                    toCaller, accepted, delivered >>

ReadBoxed ==
    /\ thread = "read_boxed"
    /\ \E k \in 1..Least(RelayBuf, MaxIn - Len(yielded)) :
          /\ chunk' = Numbers(yielded, k) /\ yielded' = yielded \o chunk'
          /\ filled' = Full(k) /\ owed' = (k < RelayBuf)
    /\ thread' = "write_socket"
    /\ UNCHANGED << caller, consumed, toThread, toCaller, accepted, delivered >>

(* Ok(0) ends the thread; Interrupted is a read of nothing, after which    *)
(* the relay turns round; other errors and panics end the thread.          *)
ReadBoxedEnds ==
    /\ thread = "read_boxed"
    /\ \/ thread' = "ok"
       \/ origin # "func" /\ thread' = "read_socket"
       \/ BoxedMayFail /\ thread' \in {"err", "panicked"}
    /\ UNCHANGED << caller, chunk, filled, consumed, yielded, owed, toThread,
                    toCaller, accepted, delivered >>

(* Mutant of WriteSocket: `write` instead of `write_all`.                  *)
WriteSocket_Once ==
    /\ thread = "write_socket"
    /\ \/ /\ open /\ Len(toCaller) < SockCap
          /\ \E k \in 1..Least(Len(chunk), SockCap - Len(toCaller)) :
                toCaller' = toCaller \o Take(chunk, k)
          /\ chunk' = << >>
          /\ thread' \in Onward("read_boxed", "read_socket")
       \/ ~open /\ thread' = "broken" /\ UNCHANGED << toCaller, chunk >>
    /\ UNCHANGED << caller, filled, consumed, yielded, owed, toThread, accepted,
                    delivered >>

(* One write of a.write_all(&buf[..n]).                                    *)
WriteSocket ==
    /\ thread = "write_socket"
    /\ \/ /\ open /\ Len(toCaller) < SockCap
          /\ \E k \in 1..Least(Len(chunk), SockCap - Len(toCaller)) :
                /\ toCaller' = toCaller \o Take(chunk, k)
                /\ chunk' = Skip(chunk, k)
          /\ IF chunk' = << >> THEN thread' \in Onward("read_boxed", "read_socket")
             ELSE UNCHANGED thread
       \/ ~open /\ thread' = "broken" /\ UNCHANGED << toCaller, chunk >>
    /\ UNCHANGED << caller, filled, consumed, yielded, owed, toThread, accepted,
                    delivered >>

(* a.read(&mut buf) of bytes the caller has written.                       *)
ReadSocket ==
    /\ thread = "read_socket" /\ toThread # << >>
    /\ \E k \in 1..Least(RelayBuf, Len(toThread)) :
          /\ chunk' = Take(toThread, k) /\ toThread' = Skip(toThread, k)
          /\ filled' = Full(k)
    /\ thread' = "write_boxed"
    /\ UNCHANGED << caller, consumed, yielded, owed, toCaller, accepted, delivered >>

(* Mutant of ReadSocketEnds: the end of the stream is a read of nothing.   *)
ReadSocketEnds_IgnoresEof ==
    /\ thread = "read_socket" /\ toThread = << >>
    /\ thread' = "read_boxed" /\ (~open \/ (signals /\ origin # "func"))
    /\ UNCHANGED << caller, chunk, filled, consumed, yielded, owed, toThread,
                    toCaller, accepted, delivered >>

(* Ok(0) ends the thread, and so does a connection reset, if the caller    *)
(* left bytes unread; Interrupted is a read of nothing.                    *)
ReadSocketEnds ==
    /\ thread = "read_socket" /\ toThread = << >>
    /\ \/ ~open /\ thread' = "ok"
       \/ ~open /\ toCaller # << >> /\ thread' = "broken"
       \/ open /\ signals /\ origin # "func" /\ thread' = "read_boxed"
    /\ UNCHANGED << caller, chunk, filled, consumed, yielded, owed, toThread,
                    toCaller, accepted, delivered >>

(* One write of boxed_duplex.write_all(&buf[..n]), or its failure.         *)
WriteBoxed ==
    /\ thread = "write_boxed"
    /\ \/ /\ \E k \in 1..Len(chunk) :
                /\ consumed' = consumed \o Take(chunk, k)
                /\ chunk' = Skip(chunk, k)
          /\ owed' = FALSE
          /\ IF chunk' = << >> THEN thread' \in Onward("read_socket", "read_boxed")
             ELSE UNCHANGED thread
       \/ /\ BoxedMayFail /\ thread' \in {"err", "panicked"}
          /\ UNCHANGED << chunk, consumed, owed >>
    /\ UNCHANGED << caller, filled, yielded, toThread, toCaller, accepted, delivered >>

(* The caller's function returns.                                          *)
FuncReturns ==
    /\ origin = "func" /\ thread \in {"read_boxed", "read_socket"}
    /\ thread' = "ok"
    /\ UNCHANGED << caller, chunk, filled, consumed, yielded, owed, toThread,
                    toCaller, accepted, delivered >>

Relay ==
    \/ Poll \/ ReadBoxed \/ ReadBoxedEnds \/ WriteSocket
    \/ ReadSocket \/ ReadSocketEnds \/ WriteBoxed \/ FuncReturns

(* The thread's socket: read_first and write_first drop it, but a function *)
(* that succeeds returns it, and it stays open inside the JoinHandle.      *)
ThreadGone == thread \in Ended /\ ~(origin = "func" /\ thread = "ok")

-----------------------------------------------------------------------------
(* The caller.  map_err of a StreamDuplexer returns the error it is given. *)

Return(name, kind) ==
    call' = "idle" /\ left' = 0 /\ result' = [of |-> name, kind |-> kind]

BeginWrite ==
    /\ open /\ call = "idle"
    /\ call' \in {"write", "write_all"}
    /\ left' \in 1..MaxArg /\ Len(accepted) + left' <= MaxOut
    /\ UNCHANGED << origin, signals, open, result, relay, toThread, toCaller, accepted,
                    delivered >>

Put ==
    /\ call \in {"write", "write_all"}
    /\ ~ThreadGone /\ Len(toThread) < SockCap
    /\ \E k \in 1..Least(left, SockCap - Len(toThread)) :
          /\ toThread' = toThread \o Numbers(accepted, k)
          /\ accepted' = accepted \o Numbers(accepted, k)
          /\ IF call = "write" \/ k = left THEN Return(call, "ok")
             ELSE left' = left - k /\ UNCHANGED << call, result >>
    /\ UNCHANGED << origin, signals, open, relay, toCaller, delivered >>

PutFails ==
    /\ call \in {"write", "write_all"}
    /\ ThreadGone \/ (signals /\ call = "write" /\ Len(toThread) = SockCap)
    /\ Return(call, "err")
    /\ UNCHANGED << origin, signals, open, relay, toThread, toCaller, accepted, delivered >>

(* flush: write_handle.flush() does nothing on a socket.                   *)
Flush ==
    /\ open /\ call = "idle"
    /\ Return("flush", "ok")
    /\ UNCHANGED << origin, signals, open, relay, toThread, toCaller, accepted, delivered >>

BeginRead ==
    /\ open /\ call = "idle"
    /\ call' = "read" /\ left' \in 1..MaxArg
    /\ UNCHANGED << origin, signals, open, result, relay, toThread, toCaller, accepted,
                    delivered >>

Get ==
    /\ call = "read" /\ toCaller # << >>
    /\ \E k \in 1..Least(left, Len(toCaller)) :
          /\ delivered' = delivered \o Take(toCaller, k)
          /\ toCaller' = Skip(toCaller, k)
    /\ Return("read", "ok")
    /\ UNCHANGED << origin, signals, open, relay, toThread, accepted >>

(* The end of the stream, a connection reset if the thread left bytes      *)
(* unread, or a signal.                                                    *)
GetEnd ==
    /\ call = "read" /\ toCaller = << >>
    /\ \/ ThreadGone /\ Return("read", "eof")
       \/ ThreadGone /\ toThread # << >> /\ Return("read", "err")
       \/ ~ThreadGone /\ signals /\ Return("read", "err")
    /\ UNCHANGED << origin, signals, open, relay, toThread, toCaller, accepted, delivered >>

(* Mutant of Drop: every helper thread is joined.                          *)
Drop_JoinsAll ==
    /\ open /\ call = "idle"
    /\ open' = FALSE
    /\ call' = "join_drop" /\ UNCHANGED << left, result >>
    /\ UNCHANGED << origin, signals, relay, toThread, toCaller, accepted, delivered >>

(* Mutant of Drop: the join comes before the socket is closed.             *)
Drop_SocketOpen ==
    /\ open /\ call = "idle"
    /\ IF origin = "func" THEN call' = "join_drop" /\ UNCHANGED << left, open, result >>
       ELSE Return("drop", "ok") /\ open' = FALSE
    /\ UNCHANGED << origin, signals, relay, toThread, toCaller, accepted, delivered >>

(* DuplexResources::drop closes the socket; of the socketed threads it     *)
(* joins that of socketed_thread_func only.                                *)
Drop ==
    /\ open /\ call = "idle"
    /\ open' = FALSE
    /\ IF origin = "func" THEN call' = "join_drop" /\ UNCHANGED << left, result >>
       ELSE Return("drop", "ok")
    /\ UNCHANGED << origin, signals, relay, toThread, toCaller, accepted, delivered >>

(* join().unwrap().unwrap()                                                *)
JoinDrop ==
    /\ call = "join_drop" /\ thread \in Ended
    /\ Return("drop", CASE thread = "ok" -> "ok"
                        [] thread = "panicked" -> "thread_panicked"
                        [] OTHER -> "thread_failed")
    /\ UNCHANGED << origin, signals, open, relay, toThread, toCaller, accepted, delivered >>

Continue == Put \/ PutFails \/ Get \/ GetEnd \/ JoinDrop

Closed == ~open /\ call = "idle" /\ UNCHANGED vars

Next ==
    \/ Relay \/ Continue \/ Closed
    \/ BeginWrite \/ BeginRead \/ Flush \/ Drop

Spec == Init /\ [][Next]_vars

(* Both threads run, and the boxed object answers every call.              *)
FairSpec == Spec /\ WF_vars(Relay) /\ WF_vars(Continue)

-----------------------------------------------------------------------------
(* Properties.                                                             *)

(* Type invariant; only the destructor of a function's stream waits.       *)
TypeOK ==
    /\ origin \in Origins /\ signals \in Signals /\ {open, filled, owed} \subseteq BOOLEAN
    /\ call \in {"idle", "read", "write", "write_all", "join_drop"}
    /\ call = "join_drop" => origin = "func" /\ ~open
    /\ left \in 0..MaxArg
    /\ result \in [of : {"new", "read", "write", "write_all", "flush", "drop"},
                   kind : {"ok", "err", "eof", "thread_failed", "thread_panicked"}]
    /\ toThread \in Seq(1..MaxOut) /\ Len(toThread) <= SockCap
    /\ toCaller \in Seq(1..MaxIn) /\ Len(toCaller) <= SockCap
    /\ thread \in Ended \cup Polling \cup
          {"read_boxed", "write_socket", "read_socket", "write_boxed"}
    /\ chunk \in Seq(Nat) /\ Len(chunk) <= RelayBuf
    /\ accepted \in Seq(1..MaxOut) /\ consumed \in Seq(1..MaxOut)
    /\ yielded \in Seq(1..MaxIn) /\ delivered \in Seq(1..MaxIn)

(* In both directions nothing is lost, repeated, reordered or sent back    *)
(* the way it came, however often the relay turns round.                   *)
InOrder ==
    /\ IsPrefix(consumed, accepted) /\ IsPrefix(delivered, yielded)
    /\ thread \in {"write_boxed", "read_boxed", "read_socket", "write_socket"} =>
          /\ consumed \o (IF thread = "write_boxed" THEN chunk ELSE << >>) \o toThread
                = accepted
          /\ delivered \o toCaller \o (IF thread = "write_socket" THEN chunk ELSE << >>)
                = yielded

(* A caller that sees the end of the stream has received all the boxed     *)
(* object ever yielded, however the thread ended.                          *)
EofIsTheEnd == result.kind = "eof" => delivered = yielded

(* The relay keeps a half-duplex object's turns: once it has yielded less  *)
(* than a buffer it is not read again before it has been written to, as    *)
(* long as no signal cuts a read of the socket short.  The boxed object of *)
(* the tests asserts the turns of every read.                              *)
Alternates == (origin # "func" /\ ~signals /\ thread = "read_boxed") => ~owed

(* The destructor does not wait for ever: its join comes after the socket  *)
(* has been closed under the function.                                     *)
DropReturns == (call = "join_drop") ~> (call = "idle")

(* A relay whose stream is gone ends, joined or not, wherever it was; only *)
(* a socketed_thread that has not seen a byte goes on polling.             *)
DroppedThreadEnds == ~open ~> (thread \in Ended \cup Polling)

(* "To ensure data is flushed all the way through the thread and into the  *)
(* boxed `Write` implementation, call `flush()`".                          *)
FlushSynchronizes == result.of = "flush" => consumed = accepted

-----------------------------------------------------------------------------
(* The inductive invariant behind the theorems of SocketedThreadProofs.    *)

Writing == {"write", "write_all"}

(* The way the bytes of the relay's buffer go, and went if the thread has  *)
(* died of it: to the boxed object, or to the socket.                      *)
Outbound == IF thread \in {"write_boxed", "err", "panicked"} THEN chunk ELSE << >>
Inbound == IF thread \in {"write_socket", "broken"} THEN chunk ELSE << >>

(* Whatever way the relay goes, and whatever it died of, the bytes of each *)
(* direction are where they were, and its buffer holds those of one.       *)
Flow ==
    /\ Outbound \in Seq(1..MaxOut) /\ Inbound \in Seq(1..MaxIn)
    /\ (consumed \o Outbound) \o toThread = accepted
    /\ (delivered \o toCaller) \o Inbound = yielded
    /\ thread \in {"read_boxed", "read_socket", "ok"} \cup Polling => chunk = << >>

(* What a relay that no signal disturbs knows at each place of its turns.  *)
Turns ==
    (origin # "func" /\ ~signals) =>
        /\ thread \in {"read_boxed"} \cup Polling => ~owed
        /\ thread = "write_socket" /\ filled => ~owed

(* A socket breaks when the caller's end is closed; the end of the stream  *)
(* comes after its last byte, and nothing comes after it.                  *)
Endings ==
    /\ call \in Writing => Len(accepted) + left <= MaxOut
    /\ call \in Writing \cup {"read"} => open
    /\ thread = "broken" => ~open
    /\ result.kind = "eof" => ThreadGone /\ toCaller = << >> /\ delivered = yielded

Inv == TypeOK /\ Flow /\ Turns /\ Endings
=============================================================================
