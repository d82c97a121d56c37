--------------------------- MODULE StreamHandles ---------------------------
(***************************************************************************)
(* Who owns which file descriptor, for the streams of src/streams.rs.      *)
(*                                                                         *)
(* A stream does its I/O through raw handles, plain numbers copied when it *)
(* is built.  What keeps the descriptors with these numbers open is the    *)
(* `resources` field beside them.  Nothing ties the two together but the   *)
(* order of the code, and both change when flush restarts a piped thread.  *)
(*                                                                         *)
(* A slot of Stream is used for one StreamReader, StreamWriter or          *)
(* StreamDuplexer, each used by one thread of the program; the program     *)
(* opens and closes descriptors of its own meanwhile, so that a number     *)
(* that was closed may soon name something else.  What flows through the   *)
(* descriptors is the subject of PipedReader, PipedWriter, SocketedThread. *)
(* A call that leaves the stream as it is, as reads, writes, peek and      *)
(* num_ready_bytes do unless they fail, is no step here.                   *)
(***************************************************************************)
EXTENDS Integers

CONSTANTS
    Stream, \* slots for streams
    Fd,     \* numbers of descriptors other than the standard ones
    NoFd    \* the end a stream does not have

StdFd == {"stdin", "stdout", "stderr"}

ASSUME FdAssumption == NoFd \notin Fd \cup StdFd /\ Fd \cap StdFd = {}

VARIABLES
    holder,  \* what has the descriptor open, or Free
    kind,    \* what the slot was built as, or "unused"
    open,    \* the program still has the stream
    handle,  \* read_handle and write_handle, or the one called handle
    held,    \* the descriptors resources owns, empty after take()
    thread,  \* the helper thread of the stream, or how it ended
    call     \* what the program is joining that thread in, or "idle"

vars == << holder, kind, open, handle, held, thread, call >>

Reader(f)  == [read |-> f, write |-> NoFd]
Writer(f)  == [read |-> NoFd, write |-> f]
Both(r, w) == [read |-> r, write |-> w]
Nothing    == Both(NoFd, NoFd)
Pairs      == [read : Fd \cup StdFd \cup {NoFd}, write : Fd \cup StdFd \cup {NoFd}]

Free       == << "free", "free" >>
Program    == << "program", "program" >>
Owned(s)   == << "resources", s >>
Helper(s)  == << "helper", s >>
HeldBy(o)  == { f \in Fd : holder[f] = o }
Give(F, o) == [f \in Fd |-> IF f \in F THEN o ELSE holder[f]]
Ended      == {"ok", "err", "panicked"}
Piped      == {"piped_reader", "piped_writer"}

Init ==
    /\ holder = [f \in Fd |-> Free]
    /\ kind = [s \in Stream |-> "unused"]
    /\ open = [s \in Stream |-> FALSE]
    /\ handle = [s \in Stream |-> Nothing]
    /\ held = [s \in Stream |-> Nothing]
    /\ thread = [s \in Stream |-> "none"]
    /\ call = [s \in Stream |-> "idle"]

-----------------------------------------------------------------------------
(* The constructors.  A constructor that fails drops what it had made, and *)
(* is no step.                                                             *)

New(s, k, h, r) ==
    /\ kind[s] = "unused"
    /\ kind' = [kind EXCEPT ![s] = k] /\ open' = [open EXCEPT ![s] = TRUE]
    /\ handle' = [handle EXCEPT ![s] = h] /\ held' = [held EXCEPT ![s] = r]
    /\ UNCHANGED call

(* The stream runs on descriptors F, and on no thread.                     *)
Plain(s, h, F) ==
    /\ New(s, "plain", h, h)
    /\ holder' = Give(F, Owned(s)) /\ UNCHANGED thread

(* From a descriptor of the program: file, tcp_stream, unix_stream,        *)
(* pipe_reader, child_stdout, child_stderr.                                *)
ReaderOf(s) == \E f \in HeldBy(Program) : Plain(s, Reader(f), {f})

(* file, tcp_stream, unix_stream, pipe_writer, child_stdin.                *)
WriterOf(s) == \E f \in HeldBy(Program) : Plain(s, Writer(f), {f})

(* char_device, tcp_stream, unix_stream, socketpair_stream.                *)
DuplexerOf(s) == \E f \in HeldBy(Program) : Plain(s, Both(f, f), {f})

(* pipe_reader_writer, child_stdout_stdin.                                 *)
DuplexerOfTwo(s) ==
    \E f, g \in HeldBy(Program) : f # g /\ Plain(s, Both(f, g), {f, g})

(* null opens the null device; bytes makes a pipe and closes its write end *)
(* when what it holds has been written.                                    *)
ReaderNull(s) == \E f \in HeldBy(Free) : Plain(s, Reader(f), {f})
ReaderBytes(s) ==
    \E f, g \in HeldBy(Free) : f # g /\ Plain(s, Reader(f), {f})
WriterNull(s) == \E f \in HeldBy(Free) : Plain(s, Writer(f), {f})
DuplexerNull(s) == \E f \in HeldBy(Free) : Plain(s, Both(f, f), {f})

(* A child process with its stdout, its stdin or both piped.               *)
ReadFromCommand(s) == \E f \in HeldBy(Free) : Plain(s, Reader(f), {f})
WriteToCommand(s) == \E f \in HeldBy(Free) : Plain(s, Writer(f), {f})
DuplexWithCommand(s) ==
    \E f, g \in HeldBy(Free) : f # g /\ Plain(s, Both(f, g), {f, g})

(* The lockers hand out the standard descriptors without owning them, to   *)
(* one stream at a time; what else they refuse is the subject of Lockers.  *)
Unclaimed(n) == \A s \in Stream : n \notin {held[s].read, held[s].write}

Stdin(s) == Unclaimed("stdin") /\ Plain(s, Reader("stdin"), {})
Stdout(s) == Unclaimed("stdout") /\ Plain(s, Writer("stdout"), {})
Stderr(s) == Unclaimed("stderr") /\ Plain(s, Writer("stderr"), {})
StdinStdout(s) ==
    /\ Unclaimed("stdin") /\ Unclaimed("stdout")
    /\ Plain(s, Both("stdin", "stdout"), {})

(* One end of a new pipe or socketpair for the stream, one for the thread. *)
Threaded(s, k, f, h) ==
    \E g \in HeldBy(Free) \ {f} :
        /\ New(s, k, h, h)
        /\ holder' = [Give({f}, Owned(s)) EXCEPT ![g] = Helper(s)]
        /\ thread' = [thread EXCEPT ![s] = "running"]

PipedReader(s) ==
    \E f \in HeldBy(Free) : Threaded(s, "piped_reader", f, Reader(f))
PipedWriter(s) ==
    \E f \in HeldBy(Free) : Threaded(s, "piped_writer", f, Writer(f))
(* socketed_thread_read_first, _write_first and socketed_thread.           *)
Socketed(s) ==
    \E f \in HeldBy(Free) : Threaded(s, "socketed", f, Both(f, f))
SocketedFunc(s) ==
    \E f \in HeldBy(Free) : Threaded(s, "func", f, Both(f, f))

Build(s) ==
    \/ ReaderOf(s) \/ WriterOf(s) \/ DuplexerOf(s) \/ DuplexerOfTwo(s)
    \/ ReaderNull(s) \/ ReaderBytes(s) \/ WriterNull(s) \/ DuplexerNull(s)
    \/ ReadFromCommand(s) \/ WriteToCommand(s) \/ DuplexWithCommand(s)
    \/ Stdin(s) \/ Stdout(s) \/ Stderr(s) \/ StdinStdout(s)
    \/ PipedReader(s) \/ PipedWriter(s) \/ Socketed(s) \/ SocketedFunc(s)

-----------------------------------------------------------------------------
(* The helper thread ends, and its end of the pipe closes with it.  The    *)
(* thread of a piped writer ends well only when its pipe is closed.  A     *)
(* function given to socketed_thread_func that ends well returns its       *)
(* socket, which stays open in the JoinHandle.                             *)
ThreadEnds(s) ==
    /\ thread[s] = "running"
    /\ thread' \in { [thread EXCEPT ![s] = e] : e \in Ended }
    /\ (thread'[s] = "ok" /\ kind[s] = "piped_writer") => held[s] = Nothing
    /\ holder' = IF thread'[s] = "ok" /\ kind[s] = "func" THEN holder
                 ELSE Give(HeldBy(Helper(s)), Free)
    /\ UNCHANGED << kind, open, handle, held, call >>

(* `take().unwrap()`, drop of the stream's end, then the join: common to   *)
(* map_err, flush and the destructors.                                     *)
TakeAndJoin(s, what) ==
    /\ holder' = Give(HeldBy(Owned(s)), Free)
    /\ held' = [held EXCEPT ![s] = Nothing]
    /\ call' = [call EXCEPT ![s] = what]

(* A read or write through the handle has failed.  On a piped thread       *)
(* map_err takes the thread; its handle goes on naming a closed            *)
(* descriptor.  Other streams pass the error on.                           *)
MapErr(s) ==
    /\ open[s] /\ call[s] = "idle"
    /\ kind[s] \in Piped /\ held[s] # Nothing
    /\ TakeAndJoin(s, "map_err")
    /\ UNCHANGED << kind, open, handle, thread >>

JoinErr(s) ==
    /\ call[s] = "map_err" /\ thread[s] \in Ended
    /\ call' = [call EXCEPT ![s] = "idle"]
    /\ UNCHANGED << holder, kind, open, handle, held, thread >>

BeginFlush(s) ==
    /\ open[s] /\ call[s] = "idle"
    /\ kind[s] = "piped_writer" /\ held[s] # Nothing
    /\ TakeAndJoin(s, "flush")
    /\ UNCHANGED << kind, open, handle, thread >>

(* Mutant of Restart: only the resources are replaced.                     *)
Restart_KeepsHandle(s, f, g) ==
    /\ holder' = [holder EXCEPT ![f] = Owned(s), ![g] = Helper(s)]
    /\ held' = [held EXCEPT ![s] = Writer(f)]
    /\ thread' = [thread EXCEPT ![s] = "running"]
    /\ UNCHANGED handle

(* `*self = Self::piped_thread(boxed_write)?`                              *)
Restart(s, f, g) ==
    /\ holder' = [holder EXCEPT ![f] = Owned(s), ![g] = Helper(s)]
    /\ held' = [held EXCEPT ![s] = Writer(f)]
    /\ thread' = [thread EXCEPT ![s] = "running"]
    /\ handle' = [handle EXCEPT ![s] = Writer(f)]

(* The join of flush, and the restart; without the boxed writer, without   *)
(* two descriptors or without a thread flush fails and leaves nothing.     *)
JoinFlush(s) ==
    /\ call[s] = "flush" /\ thread[s] \in Ended
    /\ call' = [call EXCEPT ![s] = "idle"]
    /\ \/ /\ thread[s] = "ok"
          /\ \E f, g \in HeldBy(Free) : f # g /\ Restart(s, f, g)
       \/ UNCHANGED << holder, held, thread, handle >>
    /\ UNCHANGED << kind, open >>

(* Mutant of Joined: the function is left to itself like the relays.       *)
Joined_NotFunc == Piped

(* The streams whose destructor joins the thread.                          *)
Joined == Piped \cup {"func"}

(* The destructor.  Descriptors close with their owners; the threads of    *)
(* the other socketed streams go on by themselves.  An empty slot is       *)
(* skipped or, for a piped reader, panics.                                 *)
BeginDrop(s) ==
    /\ open[s] /\ call[s] = "idle"
    /\ open' = [open EXCEPT ![s] = FALSE]
    /\ TakeAndJoin(s, IF kind[s] \in Joined /\ held[s] # Nothing THEN "drop"
                      ELSE "idle")
    /\ UNCHANGED << kind, handle, thread >>

(* What the thread returned is dropped, a socket included.                 *)
JoinDrop(s) ==
    /\ call[s] = "drop" /\ thread[s] \in Ended
    /\ call' = [call EXCEPT ![s] = "idle"]
    /\ holder' = Give(HeldBy(Helper(s)), Free)
    /\ UNCHANGED << kind, open, handle, held, thread >>

(* The rest of the program.                                                *)
ProgramOpens ==
    /\ \E f \in HeldBy(Free) : holder' = Give({f}, Program)
    /\ UNCHANGED << kind, open, handle, held, thread, call >>

ProgramCloses ==
    /\ \E f \in HeldBy(Program) : holder' = Give({f}, Free)
    /\ UNCHANGED << kind, open, handle, held, thread, call >>

Use(s) ==
    \/ Build(s) \/ ThreadEnds(s)
    \/ MapErr(s) \/ JoinErr(s) \/ BeginFlush(s) \/ JoinFlush(s)
    \/ BeginDrop(s) \/ JoinDrop(s)

Next == ProgramOpens \/ ProgramCloses \/ \E s \in Stream : Use(s)

Spec == Init /\ [][Next]_vars

-----------------------------------------------------------------------------
(* as_raw_fd, as_fd and their read and write variants are the handles;     *)
(* num_ready_bytes, and peek where it asks at all, ask what resources owns.*)
AsFd(s)       == handle[s]
ReadyBytes(s) == held[s].read

Kinds == {"unused", "plain", "socketed", "func"} \cup Piped
Holders ==
    {Free, Program} \cup {Owned(s) : s \in Stream} \cup {Helper(s) : s \in Stream}

(* Type invariant.                                                         *)
TypeOK ==
    /\ holder \in [Fd -> Holders]
    /\ kind \in [Stream -> Kinds] /\ open \in [Stream -> BOOLEAN]
    /\ handle \in [Stream -> Pairs] /\ held \in [Stream -> Pairs]
    /\ thread \in [Stream -> {"none", "running"} \cup Ended]
    /\ call \in [Stream -> {"idle", "map_err", "flush", "drop"}]

(* "contains any resources needed to safely hold the file handle live":    *)
(* as long as an open stream has its resources, the numbers it does I/O on *)
(* and gives out name descriptors these resources own (or standard ones,   *)
(* which nothing closes), whatever was closed, reused and restarted in     *)
(* between, and num_ready_bytes asks the descriptor that read uses.        *)
HandleHeldLive ==
    \A s \in Stream :
        (open[s] /\ held[s] # Nothing)
          => /\ {AsFd(s).read, AsFd(s).write} \ {NoFd}
                   \subseteq HeldBy(Owned(s)) \cup StdFd
             /\ ReadyBytes(s) = AsFd(s).read

(* Once a stream is gone its descriptors are closed, and where its         *)
(* destructor joins a thread that thread has ended and its descriptors are *)
(* closed as well, the socket a function returned included.                *)
NothingOutlives ==
    \A s \in Stream :
        (~open[s] /\ call[s] = "idle")
          => /\ HeldBy(Owned(s)) = {}
             /\ kind[s] \in Piped \cup {"func"}
                  => thread[s] # "running" /\ HeldBy(Helper(s)) = {}
=============================================================================
