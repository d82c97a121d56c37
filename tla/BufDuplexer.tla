---------------------------- MODULE BufDuplexer ----------------------------
(***************************************************************************)
(* The public type `BufDuplexer<Inner>` of src/buffered/buf_duplexer.rs:   *)
(* its write calls go straight to the backend, its read calls flush the    *)
(* backend first (BufDuplexerBackend has the actions).                     *)
(***************************************************************************)
EXTENDS BufDuplexerBackend

(* The caller picks any buffer that stays within the bounds.               *)
Offers == { p \in Chunks(MaxArg) : Len(accepted) + Len(p) <= MaxOut }

(* write, write_vectored (slices are taken as their concatenation) and     *)
(* write_all.                                                              *)
CallWrite ==
    \E p \in Offers, name \in WriteCalls :
        Enter(name, << Do(name, Len(p)) >>, p)

Closed == ~open /\ UNCHANGED vars

Step == FlushBuf \/ InnerFlush \/ Write \/ Read

Next == CallWrite \/ CallCommon \/ Step \/ Closed

(* The thread that made a call keeps running it: only an endless series of *)
(* Interrupted answers, which are not Progress, can hold it up.            *)
Progress ==
    \/ FlushWrite \/ FlushFail \/ FlushPanic \/ FlushDone
    \/ InnerFlush \/ Write \/ Read

Spec == Init /\ [][Next]_vars
FairSpec == Spec /\ WF_vars(Progress)

-----------------------------------------------------------------------------
(* The inductive invariant behind the theorems of BufDuplexerProofs.       *)

(* The code each call may still have to run, in order.                     *)
Control ==
    \/ call = "idle" /\ todo = << >>
    \/ call \in WriteCalls /\ todo \in WriteStages(call, Len(payload))
    \/ call = "flush" /\ todo \in FlushStages
    \/ call = "read" /\ todo # << >> /\ todo \in ReadStages(LastN)
    \/ call = "read_until" /\ todo # << >> /\ todo \in UntilStages(LastN)
    \/ call = "fill_buf" /\ todo = << Do("fill_buf", 0) >>
    \/ call \in {"into_inner", "drop"} /\ todo = << Do("flush_buf", 0) >>

(* The argument is untouched until the call that took it returns.          *)
Offered == arg = payload /\ (call \notin WriteCalls => payload = << >>)

(* BufGuard counts only inside flush_buf.                                  *)
GuardAtRest == ~At("flush_buf") => written = 0

(* What the capacity test of write, write_all and write_vectored leaves:   *)
(* the data fits, or it is too large to buffer and the buffer is empty.    *)
Fits ==
    (At("put") \/ At("put_all")) =>
        IF N < WCap THEN Len(writer_buf) + N <= WCap ELSE writer_buf = << >>

(* flush_buf leaves nothing behind when it succeeds, and `flush()?` in     *)
(* front of a read leaves the device flushed.                              *)
Emptied ==
    /\ At("inner_flush") => writer_buf = << >>
    /\ (/\ call \in {"read", "read_until"}
        /\ At("read") \/ At("fill_buf") \/ At("copy") \/ At("until"))
       => writer_buf = << >> /\ synced = Len(sink)

(* Between the device and the caller there is the buffer and nothing else. *)
Accounted == sink \o Remaining = accepted

Inv ==
    /\ TypeOK /\ Control /\ Offered /\ GuardAtRest /\ Fits /\ Emptied
    /\ Accounted /\ CapacityKept /\ InConserved /\ FlushReachesSink

(* `panicked` is still set when the caller gets a panic of inner.write, so *)
(* that a destructor that has come to its flush does not follow one.       *)
Heeded ==
    /\ (call = "idle" /\ result.kind = "wpanic") => panicked
    /\ call = "drop" => result.kind # "wpanic"

(* What read_until has appended so far, LastN bytes, has no delimiter, and *)
(* a refill that leaves nothing unread has left nothing in the buffer.     *)
Searching ==
    /\ call = "read_until" =>
          /\ LastN <= Len(delivered)
          /\ ~Holds(Skip(delivered, Len(delivered) - LastN), NL)
          /\ At("until") /\ Unread = << >> => reader_buf = << >>
    /\ UntilStopsAtDelimiter

(* BufDuplexer implements the abstract two-way channel.                    *)
ImplementsChannel == Channel!Spec
=============================================================================
