------------------------ MODULE SocketedThreadProofs ------------------------
(***************************************************************************)
(* For every number of bytes in each direction, every size of the          *)
(* socketpair, of the relay's buffer and of a call, any failure of the     *)
(* boxed object and any signal: the relay of a socketed thread keeps the   *)
(* bytes of both directions in order however often it turns round, an end  *)
(* of the stream is the end of what the boxed object yielded, and the      *)
(* half-duplex object's turns are kept.                                    *)
(*                                                                         *)
(* Then, for every length of request and reply, about conversations over   *)
(* such a thread: which of them come to a standstill.  What Conversation   *)
(* assumes, MessageAssumption, takes nothing from the results about the    *)
(* relay alone: they do not cite it, and with no requests and no replies   *)
(* it holds for all constants of SocketedThread.                           *)
(***************************************************************************)
EXTENDS Conversation, SliceLemmas

USE OriginAssumption, BoundAssumption, SizeAssumption, FaultAssumption

Out == Seq(1..MaxOut)
In == Seq(1..MaxIn)

-----------------------------------------------------------------------------
(* Lemmas about the bytes of one direction.                                *)

LEMMA Widen == Out \subseteq Seq(Nat) /\ In \subseteq Seq(Nat)
<1>1. 1..MaxOut \subseteq Nat /\ 1..MaxIn \subseteq Nat
  OBVIOUS
<1>2. QED
  BY <1>1, SeqMonotonic DEF Out, In

(* Where the parentheses are does not matter.                              *)
LEMMA Concat ==
  /\ \A f, g, h \in Out : f \o g \in Out /\ (f \o g) \o h = f \o (g \o h)
  /\ \A f, g, h \in In : f \o g \in In /\ (f \o g) \o h = f \o (g \o h)
<1>1. \A f, g, h \in Out : f \o g \in Out /\ (f \o g) \o h = f \o (g \o h)
  BY ONLY ConcatLaws DEF Out
<1>2. \A f, g, h \in In : f \o g \in In /\ (f \o g) \o h = f \o (g \o h)
  BY ONLY ConcatLaws DEF In
<1>3. QED
  BY <1>1, <1>2

-----------------------------------------------------------------------------
(* The inductive invariant: the start.                                     *)

LEMMA InvInit == Init => Inv
<1>1. SUFFICES ASSUME Init PROVE Inv
  OBVIOUS
<1>2. /\ << >> \in Out /\ << >> \in In /\ << >> \in Seq(Nat) /\ Len(<< >>) = 0
      /\ << >> \o << >> = << >> /\ (<< >> \o << >>) \o << >> = << >>
  BY EmptySeq, ConcatEmptySeq DEF Out, In
<1>3. thread \in {"read_boxed", "poll_socket", "read_socket"}
  BY <1>1 DEF Init
<1>4. result \in [of : {"new", "read", "write", "write_all", "flush", "drop"},
                  kind : {"ok", "err", "eof", "thread_failed", "thread_panicked"}]
      /\ result.kind # "eof"
  BY <1>1 DEF Init
<1>5. /\ {open, filled, owed} \subseteq BOOLEAN /\ ~owed
      /\ origin \in Origins /\ signals \in Signals
  BY <1>1 DEF Init
<1>6. TypeOK
  BY <1>1, <1>2, <1>3, <1>4, <1>5 DEF Init, TypeOK, Polling, Out, In
<1>7. Flow
  BY <1>1, <1>2, <1>3 DEF Init, Flow, Outbound, Inbound, Out, In
<1>8. Turns /\ Endings
  BY <1>1, <1>3, <1>4, <1>5 DEF Init, Turns, Endings, Writing
<1>9. QED
  BY <1>6, <1>7, <1>8 DEF Inv

-----------------------------------------------------------------------------
(* The steps of the helper thread.                                         *)

(* A step that moves no byte and leaves an empty buffer behind.            *)
LEMMA TurnInv ==
  ASSUME Inv, Poll \/ ReadBoxedEnds \/ ReadSocketEnds \/ FuncReturns
  PROVE  Inv'
<1>0. TypeOK /\ Flow /\ Turns /\ Endings
  BY DEF Inv
<1>1. /\ thread \in {"read_boxed", "read_socket"} \cup Polling
      /\ thread' \in {"read_boxed", "read_socket"} \cup Polling \cup Ended
      /\ thread' = "broken" => ~open
      /\ UNCHANGED << caller, chunk, filled, consumed, yielded, owed, toThread, toCaller,
                      accepted, delivered >>
  <2>1. CASE Poll
    BY <2>1 DEF Poll, Polling, Ended
  <2>2. CASE ReadBoxedEnds
    BY <2>2 DEF ReadBoxedEnds, Ended
  <2>3. CASE ReadSocketEnds
    BY <2>3 DEF ReadSocketEnds, Ended
  <2>4. CASE FuncReturns
    BY <2>4 DEF FuncReturns, Ended
  <2>5. QED
    BY <2>1, <2>2, <2>3, <2>4
<1>2. chunk = << >> /\ Outbound = << >> /\ Inbound = << >>
  BY <1>0, <1>1 DEF Flow, Outbound, Inbound, Polling
<1>3. TypeOK'
  BY <1>0, <1>1 DEF TypeOK, caller
<1>4. Flow'
  <2>1. chunk' = << >> /\ Outbound' = << >> /\ Inbound' = << >>
    BY <1>1, <1>2 DEF Outbound, Inbound
  <2>2. QED
    BY <1>0, <1>1, <1>2, <2>1 DEF Flow
<1>5. Turns'
  <2>1. /\ thread' # "write_socket" /\ UNCHANGED << origin, signals, owed >>
    BY <1>1 DEF caller, Ended, Polling
  <2>2. ASSUME origin # "func", ~signals, thread' \in {"read_boxed"} \cup Polling
        PROVE  ~owed
    <3>1. thread \in {"read_boxed"} \cup Polling
      <4>1. CASE ReadSocketEnds
        BY <2>2, <4>1 DEF ReadSocketEnds, Polling
      <4>2. CASE Poll \/ ReadBoxedEnds \/ FuncReturns
        BY <2>2, <4>2 DEF Poll, ReadBoxedEnds, FuncReturns, Polling
      <4>3. QED
        BY <4>1, <4>2
    <3>2. QED
      BY <1>0, <2>2, <3>1 DEF Turns
  <2>3. QED
    BY <2>1, <2>2 DEF Turns
<1>6. Endings'
  <2>1. ~ThreadGone
    BY <1>1 DEF ThreadGone, Ended, Polling
  <2>2. QED
    BY <1>0, <1>1, <2>1 DEF Endings, caller
<1>7. QED
  BY <1>3, <1>4, <1>5, <1>6 DEF Inv

LEMMA ReadBoxedInv ==
  ASSUME Inv, ReadBoxed
  PROVE  Inv'
<1>0. TypeOK /\ Flow /\ Turns /\ Endings
  BY DEF Inv
<1>1. PICK k \in 1..Least(RelayBuf, MaxIn - Len(yielded)) :
         /\ chunk' = Numbers(yielded, k) /\ yielded' = yielded \o chunk'
         /\ filled' = Full(k) /\ owed' = (k < RelayBuf)
  BY DEF ReadBoxed
<1>2. /\ thread = "read_boxed" /\ thread' = "write_socket"
      /\ UNCHANGED << caller, consumed, toThread, toCaller, accepted, delivered >>
  BY DEF ReadBoxed
<1>3. /\ yielded \in In /\ Len(yielded) \in Nat /\ k \in Nat /\ k > 0 /\ k <= RelayBuf
      /\ Len(yielded) + k <= MaxIn /\ MaxIn \in Nat /\ RelayBuf \in Nat
  BY <1>0, LenProperties DEF TypeOK, Least, In
<1>4. chunk' \in In /\ Len(chunk') = k
  BY <1>1, <1>3, NumbersType DEF In
<1>5. yielded' \in In
  BY <1>1, <1>3, <1>4, ConcatProperties DEF In
<1>6. chunk = << >> /\ Outbound = << >> /\ Inbound = << >>
  BY <1>0, <1>2 DEF Flow, Outbound, Inbound
<1>7. Outbound' = << >> /\ Inbound' = chunk'
  BY <1>2 DEF Outbound, Inbound
<1>8. filled' \in BOOLEAN /\ owed' \in BOOLEAN /\ (filled' => ~owed')
  <2>1. filled' = (k >= RelayBuf) /\ owed' = (k < RelayBuf)
    BY <1>1 DEF Full
  <2>2. k >= RelayBuf => ~(k < RelayBuf)
    BY <1>3
  <2>3. (k >= RelayBuf) \in BOOLEAN /\ (k < RelayBuf) \in BOOLEAN
    BY <1>3
  <2>4. QED
    BY <2>1, <2>2, <2>3, Zenon
<1>9. TypeOK'
  <2>1. chunk' \in Seq(Nat) /\ Len(chunk') <= RelayBuf
    BY <1>3, <1>4, Widen
  <2>2. QED
    BY <1>0, <1>2, <1>5, <1>8, <2>1 DEF TypeOK, caller, In
<1>10. Flow'
  <2>1. delivered \o toCaller = yielded
    BY <1>0, <1>6, Stretches DEF Flow, TypeOK
  <2>2. (delivered' \o toCaller') \o Inbound' = yielded'
    BY <1>1, <1>2, <1>7, <2>1
  <2>3. QED
    BY <1>0, <1>2, <1>4, <1>6, <1>7, <2>2 DEF Flow, In, Polling
<1>11. Turns'
  BY <1>2, <1>8 DEF Turns, Polling
<1>12. Endings'
  <2>1. ~ThreadGone
    BY <1>2 DEF ThreadGone, Ended
  <2>2. QED
    BY <1>0, <1>2, <2>1 DEF Endings, caller
<1>13. QED
  BY <1>9, <1>10, <1>11, <1>12 DEF Inv

LEMMA WriteSocketInv ==
  ASSUME Inv, WriteSocket
  PROVE  Inv'
<1>0. TypeOK /\ Flow /\ Turns /\ Endings
  BY DEF Inv
<1>1. /\ thread = "write_socket"
      /\ UNCHANGED << caller, filled, consumed, yielded, owed, toThread, accepted,
                      delivered >>
  BY DEF WriteSocket
<1>2. Outbound = << >> /\ Inbound = chunk
  BY <1>1 DEF Outbound, Inbound
<1>3. ~ThreadGone
  BY <1>1 DEF ThreadGone, Ended
<1>4. CASE ~open /\ thread' = "broken" /\ UNCHANGED << toCaller, chunk >>
  <2>1. TypeOK'
    BY <1>0, <1>1, <1>4 DEF TypeOK, caller, Ended
  <2>2. Outbound' = << >> /\ Inbound' = chunk
    BY <1>4 DEF Outbound, Inbound
  <2>3. Flow'
    BY <1>0, <1>1, <1>2, <1>4, <2>2 DEF Flow, Polling
  <2>4. Turns' /\ Endings'
    BY <1>0, <1>1, <1>3, <1>4 DEF Turns, Endings, caller, Polling
  <2>5. QED
    BY <2>1, <2>3, <2>4 DEF Inv
<1>5. CASE /\ \E k \in 1..Least(Len(chunk), SockCap - Len(toCaller)) :
                /\ toCaller' = toCaller \o Take(chunk, k)
                /\ chunk' = Skip(chunk, k)
           /\ IF chunk' = << >> THEN thread' \in Onward("read_boxed", "read_socket")
              ELSE UNCHANGED thread
  <2>1. PICK k \in 1..Least(Len(chunk), SockCap - Len(toCaller)) :
           toCaller' = toCaller \o Take(chunk, k) /\ chunk' = Skip(chunk, k)
    BY <1>5
  <2>2. /\ chunk \in In /\ Len(chunk) \in Nat /\ toCaller \in In /\ Len(toCaller) \in Nat
        /\ delivered \in In /\ k \in 0..Len(chunk) /\ k <= SockCap - Len(toCaller)
        /\ Len(chunk) <= RelayBuf /\ RelayBuf \in Nat /\ SockCap \in Nat
    <3>1. chunk \in In
      BY <1>0, <1>2 DEF Flow, In
    <3>2. QED
      BY <1>0, <3>1, LenProperties DEF TypeOK, Least, In
  <2>3. /\ Take(chunk, k) \in In /\ Len(Take(chunk, k)) = k
        /\ chunk' \in In /\ Len(chunk') = Len(chunk) - k
    BY <2>1, <2>2, SliceType DEF In
  <2>4. toCaller' \in In /\ Len(toCaller') = Len(toCaller) + k
    BY <2>1, <2>2, <2>3, ConcatProperties DEF In
  <2>5. /\ thread' \in {"read_boxed", "read_socket", "write_socket"}
        /\ thread' # "write_socket" => chunk' = << >>
    BY <1>1, <1>5 DEF Onward
  <2>6. Outbound' = << >> /\ Inbound' = chunk'
    BY <2>5 DEF Outbound, Inbound
  <2>7. TypeOK'
    <3>1. chunk' \in Seq(Nat) /\ Len(chunk') <= RelayBuf /\ Len(toCaller') <= SockCap
      BY <2>2, <2>3, <2>4, Widen
    <3>2. QED
      BY <1>0, <1>1, <2>4, <2>5, <3>1 DEF TypeOK, caller, In
  <2>8. Flow'
    <3>1. (delivered \o toCaller') \o chunk' = delivered \o (toCaller' \o chunk')
      <4>1. delivered \in In /\ toCaller' \in In /\ chunk' \in In
        BY <2>2, <2>3, <2>4
      <4>2. QED
        BY ONLY <4>1, Concat
    <3>2. toCaller' \o chunk' = toCaller \o chunk
      BY <2>1, <2>2, SliceJoin DEF In
    <3>3. (delivered \o toCaller) \o chunk = delivered \o (toCaller \o chunk)
      BY <2>2, Concat
    <3>4. (delivered' \o toCaller') \o Inbound' = yielded'
      BY <1>0, <1>1, <1>2, <2>6, <3>1, <3>2, <3>3 DEF Flow
    <3>5. QED
      BY <1>0, <1>1, <1>2, <2>3, <2>5, <2>6, <3>4 DEF Flow, In, Polling
  <2>9. Turns'
    <3>1. ASSUME origin # "func", ~signals, thread' = "read_boxed"
          PROVE  filled
      BY <1>1, <1>5, <3>1 DEF Onward
    <3>2. QED
      BY <1>0, <1>1, <2>5, <3>1 DEF Turns, caller, Polling
  <2>10. Endings'
    BY <1>0, <1>1, <1>3, <2>5 DEF Endings, caller
  <2>11. QED
    BY <2>7, <2>8, <2>9, <2>10 DEF Inv
<1>6. QED
  BY <1>4, <1>5 DEF WriteSocket

LEMMA ReadSocketInv ==
  ASSUME Inv, ReadSocket
  PROVE  Inv'
<1>0. TypeOK /\ Flow /\ Turns /\ Endings
  BY DEF Inv
<1>1. PICK k \in 1..Least(RelayBuf, Len(toThread)) :
         /\ chunk' = Take(toThread, k) /\ toThread' = Skip(toThread, k)
         /\ filled' = Full(k)
  BY DEF ReadSocket
<1>2. /\ thread = "read_socket" /\ thread' = "write_boxed"
      /\ UNCHANGED << caller, consumed, yielded, owed, toCaller, accepted, delivered >>
  BY DEF ReadSocket
<1>3. /\ toThread \in Out /\ Len(toThread) \in Nat /\ k \in 0..Len(toThread)
      /\ k <= RelayBuf /\ RelayBuf \in Nat /\ consumed \in Out
      /\ Len(toThread) <= SockCap /\ SockCap \in Nat
  BY <1>0, LenProperties DEF TypeOK, Least, Out
<1>4. /\ chunk' \in Out /\ Len(chunk') = k
      /\ toThread' \in Out /\ Len(toThread') = Len(toThread) - k
  BY <1>1, <1>3, SliceType DEF Out
<1>5. chunk = << >> /\ Outbound = << >> /\ Inbound = << >>
  BY <1>0, <1>2 DEF Flow, Outbound, Inbound
<1>6. Outbound' = chunk' /\ Inbound' = << >>
  BY <1>2 DEF Outbound, Inbound
<1>7. TypeOK'
  <2>1. chunk' \in Seq(Nat) /\ Len(chunk') <= RelayBuf /\ Len(toThread') <= SockCap
    BY <1>3, <1>4, Widen
  <2>2. filled' \in BOOLEAN
    BY <1>1 DEF Full
  <2>3. QED
    BY <1>0, <1>2, <1>4, <2>1, <2>2 DEF TypeOK, caller, Out
<1>8. Flow'
  <2>1. (consumed \o Take(toThread, k)) \o Skip(toThread, k) = consumed \o toThread
    BY <1>3, SliceJoin DEF Out
  <2>2. consumed \o << >> = consumed
    BY <1>3, ConcatEmptySeq DEF Out
  <2>3. (consumed' \o Outbound') \o toThread' = accepted'
    BY <1>0, <1>1, <1>2, <1>5, <1>6, <2>1, <2>2 DEF Flow
  <2>4. QED
    BY <1>0, <1>2, <1>4, <1>5, <1>6, <2>3 DEF Flow, Out, Polling
<1>9. Turns'
  BY <1>2 DEF Turns, Polling
<1>10. Endings'
  <2>1. ~ThreadGone
    BY <1>2 DEF ThreadGone, Ended
  <2>2. QED
    BY <1>0, <1>2, <2>1 DEF Endings, caller
<1>11. QED
  BY <1>7, <1>8, <1>9, <1>10 DEF Inv

LEMMA WriteBoxedInv ==
  ASSUME Inv, WriteBoxed
  PROVE  Inv'
<1>0. TypeOK /\ Flow /\ Turns /\ Endings
  BY DEF Inv
<1>1. /\ thread = "write_boxed"
      /\ UNCHANGED << caller, filled, yielded, toThread, toCaller, accepted, delivered >>
  BY DEF WriteBoxed
<1>2. Outbound = chunk /\ Inbound = << >>
  BY <1>1 DEF Outbound, Inbound
<1>3. ~ThreadGone
  BY <1>1 DEF ThreadGone, Ended
<1>4. CASE thread' \in {"err", "panicked"} /\ UNCHANGED << chunk, consumed, owed >>
  <2>1. TypeOK'
    BY <1>0, <1>1, <1>4 DEF TypeOK, caller, Ended
  <2>2. Outbound' = chunk /\ Inbound' = << >>
    BY <1>4 DEF Outbound, Inbound
  <2>3. Flow'
    BY <1>0, <1>1, <1>2, <1>4, <2>2 DEF Flow, Polling
  <2>4. Turns' /\ Endings'
    BY <1>0, <1>1, <1>3, <1>4 DEF Turns, Endings, caller, Polling
  <2>5. QED
    BY <2>1, <2>3, <2>4 DEF Inv
<1>5. CASE /\ \E k \in 1..Len(chunk) :
                consumed' = consumed \o Take(chunk, k) /\ chunk' = Skip(chunk, k)
           /\ owed' = FALSE
           /\ IF chunk' = << >> THEN thread' \in Onward("read_socket", "read_boxed")
              ELSE UNCHANGED thread
  <2>1. PICK k \in 1..Len(chunk) :
           consumed' = consumed \o Take(chunk, k) /\ chunk' = Skip(chunk, k)
    BY <1>5
  <2>2. /\ chunk \in Out /\ Len(chunk) \in Nat /\ consumed \in Out /\ k \in 0..Len(chunk)
        /\ Len(chunk) <= RelayBuf /\ RelayBuf \in Nat
    BY <1>0, <1>2, LenProperties DEF TypeOK, Flow, Out
  <2>3. /\ Take(chunk, k) \in Out
        /\ chunk' \in Out /\ Len(chunk') = Len(chunk) - k
    BY <2>1, <2>2, SliceType DEF Out
  <2>4. consumed' \in Out
    BY <2>1, <2>2, <2>3, ConcatProperties DEF Out
  <2>5. /\ thread' \in {"read_boxed", "read_socket", "write_boxed"}
        /\ thread' # "write_boxed" => chunk' = << >>
    BY <1>1, <1>5 DEF Onward
  <2>6. Outbound' = chunk' /\ Inbound' = << >>
    BY <2>5 DEF Outbound, Inbound
  <2>7. TypeOK'
    <3>1. chunk' \in Seq(Nat) /\ Len(chunk') <= RelayBuf
      BY <2>2, <2>3, Widen
    <3>2. QED
      BY <1>0, <1>1, <1>5, <2>4, <2>5, <3>1 DEF TypeOK, caller, Out
  <2>8. Flow'
    <3>1. consumed' \o chunk' = consumed \o chunk
      BY <2>1, <2>2, SliceJoin DEF Out
    <3>2. (consumed' \o Outbound') \o toThread' = accepted'
      BY <1>0, <1>1, <1>2, <2>6, <3>1 DEF Flow
    <3>3. QED
      BY <1>0, <1>1, <1>2, <2>3, <2>5, <2>6, <3>2 DEF Flow, Out, Polling
  <2>9. Turns' /\ Endings'
    BY <1>0, <1>1, <1>3, <1>5, <2>5 DEF Turns, Endings, caller, Polling
  <2>10. QED
    BY <2>7, <2>8, <2>9 DEF Inv
<1>6. QED
  BY <1>4, <1>5 DEF WriteBoxed

-----------------------------------------------------------------------------
(* The steps of the caller.                                                *)

Names == {"read", "write", "write_all", "flush", "drop"}
Kinds == {"ok", "err", "eof", "thread_failed", "thread_panicked"}

LEMMA ReturnTypes ==
  ASSUME NEW name \in Names, NEW kind \in Kinds, Return(name, kind)
  PROVE  /\ call' = "idle" /\ left' = 0 /\ left' \in 0..MaxArg
         /\ result' = [of |-> name, kind |-> kind] /\ result'.kind = kind
         /\ result' \in [of : {"new", "read", "write", "write_all", "flush", "drop"},
                         kind : {"ok", "err", "eof", "thread_failed", "thread_panicked"}]
BY DEF Return, Names, Kinds

(* A call that returns without moving a byte; the end of the stream is     *)
(* only reported by a thread that has gone.                                *)
LEMMA ReturnInv ==
  ASSUME Inv, NEW name \in Names, NEW kind \in Kinds, Return(name, kind),
         UNCHANGED << origin, signals, relay, toThread, toCaller, accepted, delivered >>,
         open' \in BOOLEAN, open' => open,
         kind = "eof" => ThreadGone /\ toCaller = << >> /\ open
  PROVE  Inv'
<1>0. TypeOK /\ Flow /\ Turns /\ Endings
  BY DEF Inv
<1>1. /\ call' = "idle" /\ left' = 0 /\ left' \in 0..MaxArg /\ result'.kind = kind
      /\ result' \in [of : {"new", "read", "write", "write_all", "flush", "drop"},
                      kind : {"ok", "err", "eof", "thread_failed", "thread_panicked"}]
  BY ReturnTypes
<1>2. TypeOK'
  BY <1>0, <1>1 DEF TypeOK, relay
<1>3. Flow' /\ Turns'
  BY <1>0 DEF Flow, Turns, Outbound, Inbound, relay
<1>4. UNCHANGED ThreadGone
  BY DEF ThreadGone, relay
<1>5. kind = "eof" => delivered = yielded
  <2>1. SUFFICES ASSUME kind = "eof" PROVE delivered = yielded
    OBVIOUS
  <2>2. ThreadGone /\ toCaller = << >> /\ thread # "broken"
    BY <1>0, <2>1 DEF Endings
  <2>3. Inbound = << >>
    BY <2>2 DEF ThreadGone, Ended, Inbound
  <2>4. delivered \o << >> = delivered /\ (delivered \o << >>) \o << >> = delivered
    BY <1>0, Stretches DEF TypeOK
  <2>5. QED
    BY <1>0, <2>2, <2>3, <2>4 DEF Flow
<1>6. Endings'
  BY <1>0, <1>1, <1>4, <1>5 DEF Endings, Writing, relay
<1>7. QED
  BY <1>2, <1>3, <1>6 DEF Inv

(* A call that begins.                                                     *)
LEMMA BeginInv ==
  ASSUME Inv, open, call' \in {"read"} \cup Writing, left' \in 0..MaxArg,
         call' \in Writing => Len(accepted) + left' <= MaxOut,
         UNCHANGED << origin, signals, open, result, relay, toThread, toCaller, accepted,
                      delivered >>
  PROVE  Inv'
<1>0. TypeOK /\ Flow /\ Turns /\ Endings
  BY DEF Inv
<1>1. TypeOK'
  BY <1>0 DEF TypeOK, relay, Writing
<1>2. Flow' /\ Turns'
  BY <1>0 DEF Flow, Turns, Outbound, Inbound, relay
<1>3. Endings'
  BY <1>0 DEF Endings, ThreadGone, relay, Writing
<1>4. QED
  BY <1>1, <1>2, <1>3 DEF Inv

LEMMA PutInv ==
  ASSUME Inv, Put
  PROVE  Inv'
<1>0. TypeOK /\ Flow /\ Turns /\ Endings
  BY DEF Inv
<1>1. PICK k \in 1..Least(left, SockCap - Len(toThread)) :
         /\ toThread' = toThread \o Numbers(accepted, k)
         /\ accepted' = accepted \o Numbers(accepted, k)
         /\ IF call = "write" \/ k = left THEN Return(call, "ok")
            ELSE left' = left - k /\ UNCHANGED << call, result >>
  BY DEF Put
<1>2. /\ call \in Writing /\ call \in Names /\ ~ThreadGone /\ open
      /\ UNCHANGED << origin, signals, open, relay, toCaller, delivered >>
  BY <1>0 DEF Put, Writing, Endings, Names
<1>3. /\ toThread \in Out /\ Len(toThread) \in Nat /\ accepted \in Out
      /\ Len(accepted) \in Nat /\ k \in Nat /\ k <= left /\ k <= SockCap - Len(toThread)
      /\ left \in Nat /\ left <= MaxArg /\ Len(accepted) + left <= MaxOut
      /\ SockCap \in Nat /\ MaxOut \in Nat /\ MaxArg \in Nat
  BY <1>0, <1>2, LenProperties DEF TypeOK, Endings, Least, Out
<1> DEFINE bytes == Numbers(accepted, k)
<1>4. bytes \in Out /\ Len(bytes) = k
  BY <1>3, NumbersType DEF Out
<1> HIDE DEF bytes
<1>5. /\ toThread' \in Out /\ Len(toThread') = Len(toThread) + k
      /\ accepted' \in Out /\ Len(accepted') = Len(accepted) + k
  BY <1>1, <1>3, <1>4, ConcatProperties DEF Out, bytes
<1>6. \/ /\ call' = "idle" /\ left' = 0 /\ result'.kind = "ok"
         /\ result' \in [of : {"new", "read", "write", "write_all", "flush", "drop"},
                         kind : {"ok", "err", "eof", "thread_failed", "thread_panicked"}]
      \/ left' = left - k /\ UNCHANGED << call, result >>
  <2>1. "ok" \in Kinds
    BY DEF Kinds
  <2>2. CASE Return(call, "ok")
    BY <1>2, <2>1, <2>2, ReturnTypes
  <2>3. CASE left' = left - k /\ UNCHANGED << call, result >>
    BY <2>3
  <2>4. QED
    BY <1>1, <2>2, <2>3
<1>7. left' \in 0..MaxArg /\ (call' \in Writing => Len(accepted') + left' <= MaxOut)
  BY <1>3, <1>5, <1>6 DEF Writing
<1>8. TypeOK'
  <2>1. Len(toThread') <= SockCap
    BY <1>3, <1>5
  <2>2. call' \in {"idle", call} /\
        result' \in [of : {"new", "read", "write", "write_all", "flush", "drop"},
                     kind : {"ok", "err", "eof", "thread_failed", "thread_panicked"}]
    BY <1>0, <1>6 DEF TypeOK
  <2>3. QED
    BY <1>0, <1>2, <1>5, <1>7, <2>1, <2>2 DEF TypeOK, relay, Out
<1>9. Flow'
  <2>1. UNCHANGED << Outbound, Inbound >>
    BY <1>2 DEF Outbound, Inbound, relay
  <2>2. consumed \o Outbound \in Seq(1..MaxOut)
    BY <1>0, ConcatProperties DEF TypeOK, Flow
  <2>3. (consumed \o Outbound) \o (toThread \o bytes) = ((consumed \o Outbound) \o toThread) \o bytes
    <3>1. toThread \in Out /\ bytes \in Out /\ consumed \o Outbound \in Out
      BY <1>3, <1>4, <2>2 DEF Out
    <3>2. QED
      BY ONLY <3>1, Concat
  <2>4. (consumed' \o Outbound') \o toThread' = accepted'
    BY <1>0, <1>1, <1>2, <2>1, <2>3 DEF Flow, bytes, relay
  <2>5. QED
    BY <1>0, <1>2, <2>1, <2>4 DEF Flow, relay
<1>10. Turns' /\ Endings'
  BY <1>0, <1>2, <1>6, <1>7 DEF Turns, Endings, relay, Writing
<1>11. QED
  BY <1>8, <1>9, <1>10 DEF Inv

LEMMA GetInv ==
  ASSUME Inv, Get
  PROVE  Inv'
<1>0. TypeOK /\ Flow /\ Turns /\ Endings
  BY DEF Inv
<1>1. PICK k \in 1..Least(left, Len(toCaller)) :
         /\ delivered' = delivered \o Take(toCaller, k)
         /\ toCaller' = Skip(toCaller, k)
  BY DEF Get
<1>2. /\ call = "read" /\ toCaller # << >> /\ Return("read", "ok")
      /\ UNCHANGED << origin, signals, open, relay, toThread, accepted >>
  BY DEF Get
<1>3. /\ toCaller \in In /\ Len(toCaller) \in Nat /\ k \in 0..Len(toCaller)
      /\ delivered \in In /\ Len(toCaller) <= SockCap /\ SockCap \in Nat
  BY <1>0, LenProperties DEF TypeOK, Least, In
<1>4. /\ Take(toCaller, k) \in In
      /\ toCaller' \in In /\ Len(toCaller') = Len(toCaller) - k
  BY <1>1, <1>3, SliceType DEF In
<1>5. delivered' \in In
  BY <1>1, <1>3, <1>4, ConcatProperties DEF In
<1>6. /\ call' = "idle" /\ left' = 0 /\ left' \in 0..MaxArg /\ result'.kind = "ok"
      /\ result' \in [of : {"new", "read", "write", "write_all", "flush", "drop"},
                      kind : {"ok", "err", "eof", "thread_failed", "thread_panicked"}]
  BY <1>2, ReturnTypes DEF Names, Kinds
<1>7. TypeOK'
  <2>1. Len(toCaller') <= SockCap
    BY <1>3, <1>4
  <2>2. QED
    BY <1>0, <1>2, <1>4, <1>5, <1>6, <2>1 DEF TypeOK, relay, In
<1>8. Flow'
  <2>1. UNCHANGED << Outbound, Inbound >>
    BY <1>2 DEF Outbound, Inbound, relay
  <2>2. delivered' \o toCaller' = delivered \o toCaller
    BY <1>1, <1>3, SliceJoin DEF In
  <2>3. (delivered' \o toCaller') \o Inbound' = yielded'
    BY <1>0, <1>2, <2>1, <2>2 DEF Flow, relay
  <2>4. QED
    BY <1>0, <1>2, <2>1, <2>3 DEF Flow, relay
<1>9. Turns' /\ Endings'
  BY <1>0, <1>2, <1>6 DEF Turns, Endings, relay, Writing
<1>10. QED
  BY <1>7, <1>8, <1>9 DEF Inv

LEMMA CallerInv ==
  ASSUME Inv, BeginWrite \/ BeginRead \/ Flush \/ Drop \/ PutFails \/ GetEnd \/ JoinDrop
  PROVE  Inv'
<1>0. TypeOK /\ Flow /\ Turns /\ Endings
  BY DEF Inv
<1>k. {"ok", "err", "eof", "thread_failed", "thread_panicked"} = Kinds
      /\ {"read", "write", "write_all", "flush", "drop"} = Names
  BY DEF Kinds, Names
<1>1. CASE BeginWrite
  <2>1. /\ open /\ call' \in Writing /\ left' \in 0..MaxArg
        /\ Len(accepted) + left' <= MaxOut
        /\ UNCHANGED << origin, signals, open, result, relay, toThread, toCaller,
                        accepted, delivered >>
    BY <1>1 DEF BeginWrite, Writing
  <2>2. QED
    BY <2>1, BeginInv
<1>2. CASE BeginRead
  <2>1. /\ open /\ call' = "read" /\ left' \in 0..MaxArg
        /\ UNCHANGED << origin, signals, open, result, relay, toThread, toCaller,
                        accepted, delivered >>
    BY <1>2 DEF BeginRead
  <2>2. QED
    BY <2>1, BeginInv DEF Writing
<1>3. CASE Flush
  <2>1. /\ Return("flush", "ok") /\ open' \in BOOLEAN /\ open' = open
        /\ UNCHANGED << origin, signals, relay, toThread, toCaller, accepted, delivered >>
    BY <1>0, <1>3 DEF Flush, TypeOK
  <2>2. QED
    BY <1>k, <2>1, ReturnInv
<1>4. CASE Drop
  <2>1. /\ open' = FALSE /\ open /\ call = "idle"
        /\ UNCHANGED << origin, signals, relay, toThread, toCaller, accepted, delivered >>
    BY <1>4 DEF Drop
  <2>2. CASE origin = "func"
    <3>1. call' = "join_drop" /\ UNCHANGED << left, result >>
      BY <1>4, <2>2 DEF Drop
    <3>2. TypeOK'
      BY <1>0, <2>1, <2>2, <3>1 DEF TypeOK, relay
    <3>3. Flow' /\ Turns'
      BY <1>0, <2>1 DEF Flow, Turns, Outbound, Inbound, relay
    <3>4. Endings'
      BY <1>0, <2>1, <3>1 DEF Endings, ThreadGone, relay, Writing
    <3>5. QED
      BY <3>2, <3>3, <3>4 DEF Inv
  <2>3. CASE origin # "func"
    <3>1. Return("drop", "ok")
      BY <1>4, <2>3 DEF Drop
    <3>2. QED
      BY <1>k, <2>1, <3>1, ReturnInv
  <2>4. QED
    BY <2>2, <2>3
<1>5. CASE PutFails
  <2>1. /\ Return(call, "err") /\ open' \in BOOLEAN /\ open' = open /\ call \in Names
        /\ UNCHANGED << origin, signals, relay, toThread, toCaller, accepted, delivered >>
    BY <1>0, <1>5 DEF PutFails, TypeOK, Names
  <2>2. QED
    BY <1>k, <2>1, ReturnInv
<1>6. CASE GetEnd
  <2>1. /\ open' \in BOOLEAN /\ open' = open /\ open /\ toCaller = << >>
        /\ UNCHANGED << origin, signals, relay, toThread, toCaller, accepted, delivered >>
    BY <1>0, <1>6 DEF GetEnd, TypeOK, Endings
  <2>2. PICK kind \in {"eof", "err"} : Return("read", kind) /\ (kind = "eof" => ThreadGone)
    BY <1>6 DEF GetEnd
  <2>3. QED
    BY <1>k, <2>1, <2>2, ReturnInv
<1>7. CASE JoinDrop
  <2>1. /\ open' \in BOOLEAN /\ open' = open
        /\ UNCHANGED << origin, signals, relay, toThread, toCaller, accepted, delivered >>
    BY <1>0, <1>7 DEF JoinDrop, TypeOK
  <2>2. PICK kind \in {"ok", "thread_panicked", "thread_failed"} : Return("drop", kind)
    BY <1>7 DEF JoinDrop
  <2>3. QED
    BY <1>k, <2>1, <2>2, ReturnInv
<1>8. QED
  BY <1>1, <1>2, <1>3, <1>4, <1>5, <1>6, <1>7

(* All steps.                                                              *)
LEMMA InvStep == Inv /\ [Next]_vars => Inv'
<1>1. SUFFICES ASSUME Inv, [Next]_vars PROVE Inv'
  OBVIOUS
<1>2. CASE UNCHANGED vars
  <2>1. TypeOK /\ Flow /\ Turns /\ Endings
    BY <1>1 DEF Inv
  <2>2. TypeOK'
    BY <1>2, <2>1 DEF TypeOK, vars, caller, relay
  <2>3. Flow' /\ Turns'
    BY <1>2, <2>1 DEF Flow, Turns, Outbound, Inbound, vars, caller, relay
  <2>4. Endings'
    BY <1>2, <2>1 DEF Endings, ThreadGone, vars, caller, relay
  <2>5. QED
    BY <2>2, <2>3, <2>4 DEF Inv
<1>3. QED
  BY <1>1, <1>2, TurnInv, ReadBoxedInv, WriteSocketInv, ReadSocketInv, WriteBoxedInv,
     PutInv, GetInv, CallerInv DEF Next, Relay, Continue, Closed

-----------------------------------------------------------------------------
(* Theorems.                                                               *)

(* The inductive invariant, for all constants.                             *)
THEOREM Invariant == Spec => []Inv
BY InvInit, InvStep, PTL DEF Spec

(* Type correctness of SocketedThread; the socketpair never holds more     *)
(* than it can, and only the destructor of a function's stream waits.      *)
THEOREM TypeCorrect == Spec => []TypeOK
<1>1. Inv => TypeOK
  BY DEF Inv
<1>2. QED
  BY <1>1, Invariant, PTL

(* In neither direction is a byte lost, repeated, reordered or sent back   *)
(* the way it came.                                                        *)
THEOREM InOrderCorrect == Spec => []InOrder
<1>1. Inv => InOrder
  <2>1. SUFFICES ASSUME TypeOK, Flow PROVE InOrder
    BY DEF Inv
  <2>2. IsPrefix(consumed, accepted) /\ IsPrefix(delivered, yielded)
    BY <2>1, PrefixOfFlow DEF TypeOK, Flow, IsPrefix
  <2>3. ASSUME thread \in {"write_boxed", "read_boxed", "read_socket", "write_socket"}
        PROVE  /\ (IF thread = "write_boxed" THEN chunk ELSE << >>) = Outbound
               /\ (IF thread = "write_socket" THEN chunk ELSE << >>) = Inbound
    BY <2>3 DEF Outbound, Inbound
  <2>4. QED
    BY <2>1, <2>2, <2>3 DEF InOrder, Flow
<1>2. QED
  BY <1>1, Invariant, PTL

(* A caller that is told that the stream has ended has all that the boxed  *)
(* object ever yielded, whatever the thread died of.                       *)
THEOREM EofIsTheEndCorrect == Spec => []EofIsTheEnd
<1>1. Inv => EofIsTheEnd
  BY DEF Inv, Endings, EofIsTheEnd
<1>2. QED
  BY <1>1, Invariant, PTL

(* The relay does not read a half-duplex object out of its turn.           *)
THEOREM AlternatesCorrect == Spec => []Alternates
<1>1. Inv => Alternates
  BY DEF Inv, Turns, Alternates
<1>2. QED
  BY <1>1, Invariant, PTL

-----------------------------------------------------------------------------
(* Conversations: about dividing and counting.                             *)

LEMMA Division ==
  ASSUME NEW b \in Nat \ {0}, NEW x \in Nat
  PROVE  /\ x = (b * (x \div b)) + (x % b)
         /\ x % b \in 0..(b - 1) /\ x \div b \in Nat /\ b * (x \div b) <= x
OBVIOUS

LEMMA Residue ==
  ASSUME NEW b \in Nat \ {0}, NEW p \in Nat, NEW q \in Nat,
         NEW r \in 0..(b - 1), NEW s \in 0..(b - 1), (b * p) + r = (b * q) + s
  PROVE  p = q /\ r = s
<1>1. b * p \in Nat /\ b * q \in Nat
  OBVIOUS
<1>2. ~(p < q)
  <2>1. SUFFICES ASSUME p < q PROVE FALSE
    OBVIOUS
  <2>2. b * q >= b * (p + 1) /\ b * (p + 1) = (b * p) + b
    BY <2>1
  <2>3. QED
    BY <1>1, <2>2
<1>3. ~(q < p)
  <2>1. SUFFICES ASSUME q < p PROVE FALSE
    OBVIOUS
  <2>2. b * p >= b * (q + 1) /\ b * (q + 1) = (b * q) + b
    BY <2>1
  <2>3. QED
    BY <1>1, <2>2
<1>4. QED
  BY <1>1, <1>2, <1>3

(* A whole number of messages, and one more buffer of one of them.         *)
LEMMA Multiple ==
  ASSUME NEW b \in Nat \ {0}, NEW n \in Nat
  PROVE  /\ b * n \in Nat /\ (b * n) \div b = n /\ (b * n) % b = 0
         /\ b * (n + 1) = (b * n) + b
<1>1. b * n \in Nat /\ b * (n + 1) = (b * n) + b
  OBVIOUS
<1> DEFINE x == b * n
<1>2. x = (b * (x \div b)) + (x % b) /\ x % b \in 0..(b - 1) /\ x \div b \in Nat
  <2> HIDE DEF x
  <2>1. x \in Nat
    BY <1>1 DEF x
  <2>2. QED
    BY <2>1, Division
<1>3. 0 \in 0..(b - 1) /\ (b * n) + 0 = (b * (x \div b)) + (x % b)
  BY <1>1, <1>2
<1>4. n = x \div b /\ 0 = x % b
  <2> HIDE DEF x
  <2>1. QED
    BY ONLY <1>2, <1>3, b \in Nat \ {0}, n \in Nat, Residue
<1>5. QED
  BY <1>1, <1>4

LEMMA Monotone ==
  ASSUME NEW b \in Nat \ {0}, NEW m \in Nat, NEW n \in Nat
  PROVE  (m <= n) <=> (b * m <= b * n)
<1>1. m <= n => b * m <= b * n
  OBVIOUS
<1>2. n < m => b * n < b * m
  <2>1. SUFFICES ASSUME n < m PROVE b * n < b * m
    OBVIOUS
  <2>2. b * (n + 1) <= b * m /\ b * (n + 1) = (b * n) + b /\ b * n \in Nat /\ b * m \in Nat
    BY <2>1
  <2>3. QED
    BY <2>2
<1>3. QED
  BY <1>1, <1>2

LEMMA Quotients ==
  ASSUME NEW b \in Nat \ {0}, NEW x \in Nat, NEW z \in Nat
  PROVE  x <= z => x \div b <= z \div b
OBVIOUS

(* A read of a whole buffer leaves the same remainder.                     *)
LEMMA OneBufferLess ==
  ASSUME NEW b \in Nat \ {0}, NEW x \in Nat, x >= b
  PROVE  (x - b) % b = x % b
<1>1. x - b \in Nat
  OBVIOUS
<1> DEFINE p == (x - b) \div b
           r == (x - b) % b
           q == x \div b
           s == x % b
<1>2. x - b = (b * p) + r /\ r \in 0..(b - 1) /\ p \in Nat
  BY <1>1, Division
<1>3. x = (b * q) + s /\ s \in 0..(b - 1) /\ q \in Nat
  BY Division
<1> HIDE DEF p, q, r, s
<1>4. b * (p + 1) = (b * p) + b /\ p + 1 \in Nat /\ b * p \in Nat
  BY <1>2
<1>5. (b * (p + 1)) + r = (b * q) + s
  BY <1>2, <1>3, <1>4
<1>6. r = s
  BY ONLY <1>2, <1>3, <1>4, <1>5, b \in Nat \ {0}, Residue
<1>7. QED
  BY <1>6 DEF r, s

LEMMA SmallRemainder ==
  ASSUME NEW b \in Nat \ {0}, NEW x \in Nat
  PROVE  /\ x < b => x % b = x
         /\ b % b = 0 /\ 0 % b = 0 /\ (x % b = 0 /\ x > 0 => x >= b)
<1>1. x < b => x % b = x
  OBVIOUS
<1>2. b % b = 0 /\ 0 % b = 0
  OBVIOUS
<1>3. QED
  BY <1>1, <1>2

-----------------------------------------------------------------------------
(* Conversations: what the bytes of a state add up to.                     *)

First == IF peerFirst THEN 1 ELSE 0
Asked == Len(accepted) + buffered + Leaving

LEMMA Counts ==
  ASSUME Inv
  PROVE  /\ Len(accepted) \in Nat /\ Len(consumed) \in Nat /\ Len(toThread) \in Nat
         /\ Len(yielded) \in Nat /\ Len(delivered) \in Nat /\ Len(toCaller) \in Nat
         /\ Len(Outbound) \in Nat /\ Len(Inbound) \in Nat /\ Len(chunk) \in Nat
         /\ (Len(consumed) + Len(Outbound)) + Len(toThread) = Len(accepted)
         /\ (Len(delivered) + Len(toCaller)) + Len(Inbound) = Len(yielded)
         /\ toThread = << >> <=> Len(toThread) = 0
         /\ chunk = << >> <=> Len(chunk) = 0
         /\ consumed = << >> <=> Len(consumed) = 0
         /\ accepted = << >> <=> Len(accepted) = 0
         /\ yielded = << >> <=> Len(yielded) = 0
         /\ toCaller = << >> <=> Len(toCaller) = 0
<1>0. TypeOK /\ Flow
  BY DEF Inv
<1>1. /\ {accepted, consumed, toThread, Outbound} \subseteq Out
      /\ {yielded, delivered, toCaller, Inbound} \subseteq In /\ chunk \in Seq(Nat)
  BY <1>0 DEF TypeOK, Flow, Out, In
<1>2. /\ \A s \in Out : Len(s) \in Nat /\ (s = << >> <=> Len(s) = 0)
      /\ \A s \in In : Len(s) \in Nat /\ (s = << >> <=> Len(s) = 0)
      /\ \A s \in Seq(Nat) : Len(s) \in Nat /\ (s = << >> <=> Len(s) = 0)
  BY LenProperties, EmptySeq DEF Out, In
<1>3. /\ \A s, t \in Out : s \o t \in Out /\ Len(s \o t) = Len(s) + Len(t)
      /\ \A s, t \in In : s \o t \in In /\ Len(s \o t) = Len(s) + Len(t)
  BY ConcatProperties DEF Out, In
<1>4. /\ consumed \o Outbound \in Out
      /\ Len((consumed \o Outbound) \o toThread)
            = (Len(consumed) + Len(Outbound)) + Len(toThread)
  BY <1>1, <1>3
<1>5. /\ delivered \o toCaller \in In
      /\ Len((delivered \o toCaller) \o Inbound)
            = (Len(delivered) + Len(toCaller)) + Len(Inbound)
  BY <1>1, <1>3
<1>6. /\ (Len(consumed) + Len(Outbound)) + Len(toThread) = Len(accepted)
      /\ (Len(delivered) + Len(toCaller)) + Len(Inbound) = Len(yielded)
  BY <1>0, <1>4, <1>5 DEF Flow
<1>7. QED
  BY <1>1, <1>2, <1>6

LEMMA Shares ==
  ASSUME Inv, ConvTypes
  PROVE  /\ request \in Nat \ {0} /\ reply \in Nat \ {0} /\ Rounds \in Nat
         /\ First \in {0, 1} /\ request <= SockCap
         /\ Len(consumed) \div request \in Nat /\ Len(delivered) \div reply \in Nat
         /\ (Len(accepted) + buffered) \div request \in Nat /\ buffered \in Nat
         /\ PeerHas = reply * Least(Rounds, (Len(consumed) \div request) + First)
                        - Len(yielded)
         /\ ToSay = request * Least(Rounds, (Len(delivered) \div reply) + (1 - First))
                      - Len(accepted) - buffered
         /\ ToHear = reply * Least(Rounds, ((Len(accepted) + buffered) \div request) + First)
                       - Len(delivered)
         /\ reply * Least(Rounds, (Len(consumed) \div request) + First) \in Nat
         /\ request * Least(Rounds, (Len(delivered) \div reply) + (1 - First)) \in Nat
         /\ PeerHas \in Nat /\ ToSay \in Int /\ ToHear \in Int
<1>1. /\ request \in Nat \ {0} /\ reply \in Nat \ {0} /\ Rounds \in Nat
      /\ First \in {0, 1} /\ request <= SockCap /\ buffered \in Nat
  BY MessageAssumption DEF ConvTypes, First
<1>2. /\ Len(consumed) \div request \in Nat /\ Len(delivered) \div reply \in Nat
      /\ (Len(accepted) + buffered) \div request \in Nat
  <2>1. /\ request \in Nat \ {0} /\ reply \in Nat \ {0} /\ Len(consumed) \in Nat
        /\ Len(delivered) \in Nat /\ Len(accepted) \in Nat /\ buffered \in Nat
    BY <1>1, Counts
  <2>2. Len(accepted) + buffered \in Nat
    BY <2>1
  <2>3. QED
    BY ONLY <2>1, <2>2, Division
<1>3. (IF ~peerFirst THEN 1 ELSE 0) = 1 - First /\ 1 - First \in {0, 1}
  BY DEF ConvTypes, First
<1>4. /\ PeerHas = reply * Least(Rounds, (Len(consumed) \div request) + First)
                     - Len(yielded)
      /\ ToSay = request * Least(Rounds, (Len(delivered) \div reply) + (1 - First))
                   - Len(accepted) - buffered
      /\ ToHear = reply * Least(Rounds, ((Len(accepted) + buffered) \div request) + First)
                    - Len(delivered)
  BY <1>3 DEF PeerHas, ToSay, ToHear, Allowed, First
<1>5. \A k \in Nat : Least(Rounds, k) \in Nat
  BY <1>1 DEF Least
<1>6. /\ Least(Rounds, (Len(consumed) \div request) + First) \in Nat
      /\ Least(Rounds, (Len(delivered) \div reply) + (1 - First)) \in Nat
      /\ Least(Rounds, ((Len(accepted) + buffered) \div request) + First) \in Nat
  <2>1. \A k, f \in Nat : Least(Rounds, k + f) \in Nat
    BY <1>5
  <2>2. First \in Nat /\ 1 - First \in Nat
    BY <1>1
  <2>3. QED
    BY ONLY <1>2, <2>1, <2>2
<1>7. /\ reply * Least(Rounds, (Len(consumed) \div request) + First) \in Nat
      /\ request * Least(Rounds, (Len(delivered) \div reply) + (1 - First)) \in Nat
      /\ reply * Least(Rounds, ((Len(accepted) + buffered) \div request) + First) \in Nat
  BY <1>1, <1>6, Multiple
<1>8. PeerHas \in Int /\ ToSay \in Int /\ ToHear \in Int
  <2>1. /\ Len(yielded) \in Nat /\ Len(accepted) \in Nat /\ Len(delivered) \in Nat
        /\ buffered \in Nat
    BY <1>1, Counts
  <2>2. \A i, j, k \in Nat : i - j \in Int /\ (i - j) - k \in Int
    OBVIOUS
  <2>3. QED
    BY ONLY <1>4, <1>7, <2>1, <2>2
<1>9. QED
  BY <1>1, <1>2, <1>4, <1>7, <1>8 DEF ConvTypes

(* As long as bytes of a request are on their way, nothing is on its way   *)
(* back, and all earlier requests have been taken.                         *)
LEMMA Polite ==
  ASSUME Inv, ConvTypes, InTurn
  PROVE  /\ Asked \in Nat /\ Len(accepted) <= Asked /\ Asked % request = 0
         /\ Asked <= request * Least(Rounds, (Len(delivered) \div reply) + (1 - First))
         /\ Len(consumed) < Asked =>
               /\ Len(delivered) = Len(yielded) /\ PeerHas = 0
               /\ Asked = request * ((Len(consumed) \div request) + 1)
               /\ Len(consumed) \div request < Rounds
               /\ (Len(consumed) \div request) + First <= Rounds
         /\ Len(accepted) < Asked => Len(consumed) = Len(accepted)
<1> DEFINE r == request
           p == reply
           n == Rounds
           f == First
           a == Len(accepted)
           c == Len(consumed)
           d == Len(delivered)
           y == Len(yielded)
           w == Leaving
           b == buffered
           q == Len(consumed) \div request
           e == Len(delivered) \div reply
<1>1. /\ r \in Nat \ {0} /\ p \in Nat \ {0} /\ n \in Nat /\ f \in {0, 1}
      /\ PeerHas = p * Least(n, q + f) - y /\ PeerHas \in Nat
      /\ ToSay = r * Least(n, e + (1 - f)) - a - b
      /\ p * Least(n, q + f) \in Nat /\ r * Least(n, e + (1 - f)) \in Nat
  BY Shares
<1>2. a \in Nat /\ c \in Nat /\ d \in Nat /\ y \in Nat /\ c <= a /\ d <= y
  BY Counts
<1>3. a % r = 0 /\ w \in {0, r} /\ b \in {0, r} /\ ToSay >= w
  BY DEF InTurn, ConvTypes
<1>4. Asked = (a + b) + w
  BY DEF Asked
<1>5. /\ q \in Nat /\ r * q <= c /\ e \in Nat /\ p * e <= d
      /\ a = r * (a \div r) /\ a \div r \in Nat
  <2>1. r \in Nat \ {0} /\ p \in Nat \ {0} /\ a \in Nat /\ c \in Nat /\ d \in Nat
    BY <1>1, <1>2
  <2>2. q \in Nat /\ r * q <= c /\ e \in Nat /\ p * e <= d
    BY ONLY <2>1, Division
  <2>3. a = (r * (a \div r)) + (a % r) /\ a \div r \in Nat
    BY ONLY <2>1, Division
  <2>4. r * (a \div r) \in Nat
    BY ONLY <2>1, <2>3, Multiple
  <2>5. a = r * (a \div r)
    <3>1. a % r = 0
      BY <1>3
    <3>2. QED
      BY ONLY <2>3, <2>4, <3>1
  <2>6. QED
    BY <2>2, <2>3, <2>5
<1> DEFINE k == a \div r
<1> HIDE DEF r, p, n, f, a, c, d, y, w, b, q, e, k
<1>6. /\ k \in Nat /\ a = r * k /\ r * k \in Nat /\ r * q \in Nat
      /\ p * e \in Nat /\ r * (q + 1) = (r * q) + r
  BY <1>1, <1>5, Multiple DEF k
<1>7. PICK m \in Nat : Asked = r * m
  <2>1. r * (k + 1) = r * k + r /\ r * (k + 2) = (r * k + r) + r
    BY <1>1, <1>6
  <2>2. Asked \in {r * k, r * (k + 1), r * (k + 2)}
    BY <1>1, <1>3, <1>4, <1>6, <2>1
  <2>3. QED
    BY <1>6, <2>2
<1>8. Asked \in Nat /\ a <= Asked /\ Asked % r = 0
  <2>1. Asked \in Nat /\ a <= Asked
    BY <1>1, <1>2, <1>3, <1>4
  <2>2. QED
    BY <1>1, <1>7, <2>1, Multiple
<1>9. Asked <= r * Least(n, e + (1 - f)) /\ y <= p * Least(n, q + f)
  BY <1>1, <1>2, <1>3, <1>4
<1>10. /\ Least(n, e + (1 - f)) \in Nat /\ Least(n, e + (1 - f)) <= n
       /\ Least(n, e + (1 - f)) <= e + (1 - f)
       /\ Least(n, q + f) \in Nat /\ Least(n, q + f) <= n /\ Least(n, q + f) <= q + f
  BY <1>1, <1>5 DEF Least
(* Peer and caller can only be one message apart.                          *)
<1>11. ASSUME c < Asked
       PROVE  /\ d = y /\ y = p * Least(n, q + f) /\ Least(n, q + f) = q + f
              /\ Asked = r * (q + 1) /\ q < n
  <2>1. q < m
    <3>1. r * q < r * m
      BY <1>2, <1>5, <1>6, <1>7, <1>8, <1>11
    <3>2. (m <= q) <=> (r * m <= r * q)
      BY <1>1, <1>5, <1>7, Monotone
    <3>3. QED
      BY <1>5, <1>6, <1>7, <1>8, <3>1, <3>2
  <2>2. m <= Least(n, e + (1 - f))
    <3>1. r * m <= r * Least(n, e + (1 - f))
      BY <1>7, <1>9
    <3>2. QED
      BY <1>1, <1>7, <1>10, <3>1, Monotone
  <2>3. e <= Least(n, q + f)
    <3>1. p * e <= p * Least(n, q + f)
      BY <1>1, <1>2, <1>5, <1>6, <1>9
    <3>2. QED
      BY <1>1, <1>5, <1>10, <3>1, Monotone
  <2>4. e = Least(n, q + f) /\ e = q + f /\ m = q + 1 /\ q < n
    BY <1>1, <1>5, <1>7, <1>10, <2>1, <2>2, <2>3
  <2>5. d = y /\ y = p * e
    BY <1>2, <1>5, <1>6, <1>9, <2>4
  <2>6. QED
    BY <1>7, <2>4, <2>5
<1>12. ASSUME a < Asked PROVE c = a
  <2>1. Asked = r * (q + 1)
    BY <1>2, <1>8, <1>11, <1>12
  <2>2. k < q + 1
    <3>1. (q + 1 <= k) <=> (r * (q + 1) <= r * k)
      BY <1>1, <1>5, <1>6, Monotone
    <3>2. QED
      BY <1>5, <1>6, <1>8, <1>12, <2>1, <3>1
  <2>3. r * k <= r * q
    BY <1>1, <1>5, <1>6, <2>2, Monotone
  <2>4. QED
    BY <1>2, <1>5, <1>6, <2>3
<1>13. c < Asked => PeerHas = 0 /\ q + f <= n
  BY <1>1, <1>2, <1>10, <1>11
<1>14. QED
  BY <1>8, <1>9, <1>11, <1>12, <1>13 DEF r, p, n, f, a, c, d, y, q, e

-----------------------------------------------------------------------------
(* Conversations: what each step adds and takes away.                      *)

LEMMA ConvStep ==
  ASSUME Inv, ConvTypes, ConvNext
  PROVE  [Next]_vars /\ UNCHANGED << terms, origin, signals >>
<1>1. ASSUME ConvRelay
      PROVE  Next /\ UNCHANGED << terms, origin, signals >>
  <2>1. \/ ReadBoxed \/ ReadBoxedEnds \/ Poll \/ ReadSocket
        \/ WriteSocket \/ ReadSocketEnds \/ WriteBoxed
    BY <1>1 DEF ConvRelay, Answer, AnswerEnds, PollPeer, Forward
  <2>2. UNCHANGED caller
    BY <2>1 DEF ReadBoxed, ReadBoxedEnds, Poll, ReadSocket, WriteSocket, ReadSocketEnds,
       WriteBoxed
  <2>3. QED
    BY <1>1, <2>1, <2>2 DEF ConvRelay, Next, Relay, caller
<1>2. CASE Ask
  BY <1>2 DEF Ask, vars, caller
<1>3. CASE FlushFirst \/ Listen
  BY <1>3 DEF FlushFirst, Listen, BeginWrite, BeginRead, Next
<1>4. CASE Carry
  BY <1>4 DEF Carry, Put, PutFails, Get, GetEnd, Next, Continue
<1>5. CASE Leave
  BY <1>5 DEF Leave, Drop, Next
<1>6. QED
  BY <1>1, <1>2, <1>3, <1>4, <1>5 DEF ConvNext, ConvCaller

(* Whose turn it is depends on the numbers of bytes.                       *)
LEMMA Sides ==
  ASSUME Inv, ConvTypes, UNCHANGED terms
  PROVE  /\ First' = First
         /\ PeerHas' = reply * Least(Rounds, (Len(consumed') \div request) + First)
                         - Len(yielded')
         /\ ToSay' = request * Least(Rounds, (Len(delivered') \div reply) + (1 - First))
                       - Len(accepted') - buffered'
         /\ ToHear' = reply * Least(Rounds, ((Len(accepted') + buffered') \div request) + First)
                        - Len(delivered')
<1>1. First' = First
  BY DEF First, terms
<1>2. (IF ~peerFirst THEN 1 ELSE 0) = 1 - First
  BY DEF ConvTypes, First
<1>3. QED
  BY <1>1, <1>2 DEF PeerHas, ToSay, ToHear, Allowed, First, terms

LEMMA AnswerCounts ==
  ASSUME Inv, ConvTypes, Answer, UNCHANGED terms
  PROVE  /\ thread = "read_boxed" /\ thread' = "write_socket"
         /\ UNCHANGED << caller, consumed, toThread, toCaller, accepted, delivered >>
         /\ Len(chunk') \in Nat \ {0} /\ Len(chunk') <= PeerHas
         /\ Len(yielded') = Len(yielded) + Len(chunk')
         /\ PeerHas' = PeerHas - Len(chunk') /\ filled' = (Len(chunk') >= RelayBuf)
         /\ whole => Len(chunk') = Least(RelayBuf, PeerHas)
<1>0. TypeOK
  BY DEF Inv
<1>1. PICK k \in 1..Least(RelayBuf, MaxIn - Len(yielded)) :
         /\ chunk' = Numbers(yielded, k) /\ yielded' = yielded \o chunk'
         /\ filled' = Full(k)
  BY DEF Answer, ReadBoxed
<1>2. /\ yielded \in In /\ Len(yielded) \in Nat /\ k \in Nat \ {0}
      /\ Len(yielded) + k <= MaxIn /\ MaxIn \in Nat
  BY <1>0, LenProperties DEF TypeOK, Least, In
<1>3. chunk' \in In /\ Len(chunk') = k
  BY <1>1, <1>2, NumbersType DEF In
<1>4. Len(yielded') = Len(yielded) + k
  BY <1>1, <1>2, <1>3, ConcatProperties DEF In
<1>5. /\ thread = "read_boxed" /\ thread' = "write_socket" /\ k <= PeerHas
      /\ UNCHANGED << caller, consumed, toThread, toCaller, accepted, delivered >>
      /\ whole => k = Least(RelayBuf, PeerHas)
  BY <1>3 DEF Answer, ReadBoxed
<1>6. PeerHas' = PeerHas - k
  <2> DEFINE n == reply * Least(Rounds, (Len(consumed) \div request) + First)
  <2>1. PeerHas = n - Len(yielded) /\ PeerHas' = n - Len(yielded') /\ n \in Nat
    BY <1>5, Shares, Sides
  <2> HIDE DEF n
  <2>2. QED
    BY <1>2, <1>4, <2>1
<1>7. QED
  BY <1>1, <1>2, <1>3, <1>4, <1>5, <1>6 DEF Full

LEMMA ForwardCounts ==
  ASSUME Inv, Forward
  PROVE  /\ thread = "read_socket" /\ thread' = "write_boxed"
         /\ UNCHANGED << caller, consumed, yielded, owed, toCaller, accepted, delivered >>
         /\ Len(chunk') \in Nat \ {0} /\ Len(chunk') <= Len(toThread)
         /\ Len(toThread') = Len(toThread) - Len(chunk')
         /\ chunk' # << >> /\ (toThread' = << >> <=> Len(toThread') = 0)
         /\ filled' = (Len(chunk') >= RelayBuf)
         /\ whole => Len(chunk') = Least(RelayBuf, Len(toThread))
<1>0. TypeOK
  BY DEF Inv
<1>1. PICK k \in 1..Least(RelayBuf, Len(toThread)) :
         /\ chunk' = Take(toThread, k) /\ toThread' = Skip(toThread, k)
         /\ filled' = Full(k)
  BY DEF Forward, ReadSocket
<1>2. /\ toThread \in Out /\ Len(toThread) \in Nat /\ k \in 0..Len(toThread) /\ k # 0
  BY <1>0, LenProperties DEF TypeOK, Least, Out
<1>3. /\ chunk' \in Out /\ Len(chunk') = k
      /\ toThread' \in Out /\ Len(toThread') = Len(toThread) - k
  BY <1>1, <1>2, SliceType DEF Out
<1>4. chunk' # << >> /\ (toThread' = << >> <=> Len(toThread') = 0)
  BY <1>2, <1>3, EmptySeq DEF Out
<1>5. /\ thread = "read_socket" /\ thread' = "write_boxed"
      /\ UNCHANGED << caller, consumed, yielded, owed, toCaller, accepted, delivered >>
      /\ whole => k = Least(RelayBuf, Len(toThread))
  BY <1>3 DEF Forward, ReadSocket
<1>6. QED
  BY <1>1, <1>2, <1>3, <1>4, <1>5 DEF Full

LEMMA WriteBoxedCounts ==
  ASSUME Inv, ConvTypes, WriteBoxed
  PROVE  /\ thread = "write_boxed"
         /\ UNCHANGED << caller, filled, yielded, toThread, toCaller, accepted, delivered >>
         /\ \/ thread' \in Ended /\ UNCHANGED << chunk, consumed >>
            \/ /\ Len(chunk) > 0 /\ Len(consumed') \in Nat /\ Len(consumed) < Len(consumed')
               /\ Len(chunk') \in Nat /\ (chunk' = << >> <=> Len(chunk') = 0)
               /\ Len(consumed') + Len(chunk') = Len(consumed) + Len(chunk)
               /\ IF chunk' = << >>
                  THEN thread' = IF filled THEN "read_socket" ELSE "read_boxed"
                  ELSE thread' = "write_boxed"
<1>0. TypeOK /\ Flow
  BY DEF Inv
<1>1. /\ thread = "write_boxed"
      /\ UNCHANGED << caller, filled, yielded, toThread, toCaller, accepted, delivered >>
  BY DEF WriteBoxed
<1>2. CASE thread' \in {"err", "panicked"} /\ UNCHANGED << chunk, consumed, owed >>
  BY <1>1, <1>2 DEF Ended
<1>3. CASE /\ \E k \in 1..Len(chunk) :
                consumed' = consumed \o Take(chunk, k) /\ chunk' = Skip(chunk, k)
           /\ IF chunk' = << >> THEN thread' \in Onward("read_socket", "read_boxed")
              ELSE UNCHANGED thread
  <2>1. PICK k \in 1..Len(chunk) :
           consumed' = consumed \o Take(chunk, k) /\ chunk' = Skip(chunk, k)
    BY <1>3
  <2>2. /\ chunk \in Out /\ Len(chunk) \in Nat /\ consumed \in Out /\ k \in 0..Len(chunk)
        /\ Len(consumed) \in Nat /\ k # 0
    BY <1>0, <1>1, LenProperties DEF TypeOK, Flow, Outbound, Out
  <2>3. /\ Take(chunk, k) \in Out /\ Len(Take(chunk, k)) = k
        /\ chunk' \in Out /\ Len(chunk') = Len(chunk) - k
    BY <2>1, <2>2, SliceType DEF Out
  <2>4. Len(consumed') = Len(consumed) + k
    BY <2>1, <2>2, <2>3, ConcatProperties DEF Out
  <2>5. chunk' = << >> <=> Len(chunk') = 0
    BY <2>3, EmptySeq DEF Out
  <2>6. IF chunk' = << >> THEN thread' = IF filled THEN "read_socket" ELSE "read_boxed"
        ELSE thread' = "write_boxed"
    BY <1>1, <1>3 DEF Onward, ConvTypes
  <2>7. QED
    BY <1>1, <2>2, <2>3, <2>4, <2>5, <2>6
<1>4. QED
  BY <1>2, <1>3 DEF WriteBoxed

LEMMA WriteSocketPlaces ==
  ASSUME ConvTypes, WriteSocket
  PROVE  /\ thread = "write_socket"
         /\ thread' \in {"write_socket", "broken", IF filled THEN "read_boxed" ELSE "read_socket"}
         /\ UNCHANGED << caller, filled, consumed, yielded, toThread, accepted, delivered >>
BY DEF WriteSocket, Onward, ConvTypes

(* A put on a socket that takes all it has room for takes the request.     *)
LEMMA PutCounts ==
  ASSUME Inv, ConvTypes, InTurn, Running, Put,
         Len(accepted') - Len(accepted) = Least(left, SockCap - Len(toThread))
  PROVE  /\ call = "write_all" /\ left = request /\ Leaving = request /\ call' = "idle"
         /\ toThread = << >> /\ Outbound = << >> /\ PeerHas = 0
         /\ Len(toThread') = request /\ toThread' # << >>
         /\ Len(accepted') = Len(accepted) + request
         /\ UNCHANGED << origin, signals, open, relay, toCaller, delivered >>
<1>0. TypeOK
  BY DEF Inv
<1>1. PICK k \in 1..Least(left, SockCap - Len(toThread)) :
         /\ toThread' = toThread \o Numbers(accepted, k)
         /\ accepted' = accepted \o Numbers(accepted, k)
         /\ IF call = "write" \/ k = left THEN Return(call, "ok")
            ELSE left' = left - k /\ UNCHANGED << call, result >>
  BY DEF Put
<1>2. /\ call = "write_all" /\ Leaving = left
      /\ UNCHANGED << origin, signals, open, relay, toCaller, delivered >>
  BY DEF Put, InTurn, Leaving
<1>3. /\ toThread \in Out /\ Len(toThread) \in Nat /\ accepted \in Out
      /\ Len(accepted) \in Nat /\ k \in Nat \ {0} /\ k <= left
      /\ left \in Nat /\ Len(accepted) + left <= MaxOut /\ SockCap \in Nat /\ MaxOut \in Nat
  BY <1>0, <1>2, LenProperties DEF TypeOK, Inv, Endings, Writing, Least, Out
<1> DEFINE bytes == Numbers(accepted, k)
<1>4. bytes \in Out /\ Len(bytes) = k
  BY <1>3, NumbersType DEF Out
<1> HIDE DEF bytes
<1>5. /\ toThread' \in Out /\ Len(toThread') = Len(toThread) + k
      /\ Len(accepted') = Len(accepted) + k
  BY <1>1, <1>3, <1>4, ConcatProperties DEF Out, bytes
<1>6. request \in Nat \ {0} /\ request <= SockCap /\ buffered \in Nat
  BY Shares
<1>7. left = request
  BY <1>2, <1>3 DEF InTurn
<1>8. Len(accepted) < Asked
  BY <1>2, <1>3, <1>6, <1>7 DEF Asked
<1>9. Len(consumed) = Len(accepted) /\ PeerHas = 0
  BY <1>8, Polite
<1>10. Len(toThread) = 0 /\ Len(Outbound) = 0 /\ toThread = << >>
  BY <1>9, Counts
<1>11. Outbound = << >>
  <2>1. Outbound \in Out
    BY DEF Inv, Flow, Out
  <2>2. QED
    BY <1>10, <2>1, EmptySeq DEF Out
<1>12. k = request
  BY <1>3, <1>5, <1>6, <1>7, <1>10 DEF Least
<1>13. call' = "idle"
  BY <1>1, <1>7, <1>12 DEF Return
<1>14. toThread' # << >>
  BY <1>3, <1>5, <1>12, EmptySeq DEF Out
<1>15. QED
  BY <1>2, <1>5, <1>7, <1>9, <1>10, <1>11, <1>12, <1>13, <1>14

LEMMA GetCounts ==
  ASSUME Inv, Get
  PROVE  /\ call = "read" /\ call' = "idle"
         /\ Len(delivered') \in Nat /\ Len(delivered) <= Len(delivered')
         /\ UNCHANGED << origin, signals, open, relay, toThread, accepted >>
<1>0. TypeOK
  BY DEF Inv
<1>1. PICK k \in 1..Least(left, Len(toCaller)) :
         /\ delivered' = delivered \o Take(toCaller, k)
         /\ toCaller' = Skip(toCaller, k)
  BY DEF Get
<1>2. /\ toCaller \in In /\ Len(toCaller) \in Nat /\ k \in 0..Len(toCaller)
      /\ delivered \in In /\ Len(delivered) \in Nat
  BY <1>0, LenProperties DEF TypeOK, Least, In
<1>3. Take(toCaller, k) \in In /\ Len(Take(toCaller, k)) = k
  BY <1>2, SliceType DEF In
<1>4. Len(delivered') = Len(delivered) + k
  BY <1>1, <1>2, <1>3, ConcatProperties DEF In
<1>5. QED
  BY <1>2, <1>4 DEF Get, Return

-----------------------------------------------------------------------------
(* Conversations: the invariant, conjunct by conjunct.                     *)

LEMMA ConvTypesKept ==
  ASSUME Inv, ConvTypes, ConvNext
  PROVE  ConvTypes'
<1>1. UNCHANGED << terms, origin, signals >>
  BY ConvStep
<1>2. PeerHas \in Nat
  BY Shares
<1>3. buffered' \in {0, request}
  BY <1>1 DEF ConvNext, ConvRelay, ConvCaller, Ask, FlushFirst, Listen, Carry, Leave, ConvTypes
<1>4. CASE UNCHANGED << consumed, yielded >>
  <2>1. PeerHas' = PeerHas
    BY <1>1, <1>4, Shares, Sides
  <2>2. QED
    BY <1>1, <1>2, <1>3, <2>1 DEF ConvTypes, terms
<1>5. CASE Answer
  <2>1. PeerHas' >= 0
    BY <1>1, <1>2, <1>5, AnswerCounts
  <2>2. QED
    BY <1>1, <1>3, <2>1 DEF ConvTypes, terms
<1>6. CASE WriteBoxed /\ ~UNCHANGED consumed
  <2> DEFINE m == (Len(consumed) \div request) + First
             n == (Len(consumed') \div request) + First
  <2>1. /\ Len(consumed) \in Nat /\ Len(consumed') \in Nat /\ Len(yielded) \in Nat
        /\ Len(consumed) < Len(consumed') /\ UNCHANGED yielded
    BY <1>6, Counts, WriteBoxedCounts
  <2>2. /\ request \in Nat \ {0} /\ reply \in Nat \ {0} /\ Rounds \in Nat /\ First \in {0, 1}
        /\ m \in Nat /\ PeerHas = reply * Least(Rounds, m) - Len(yielded)
        /\ PeerHas' = reply * Least(Rounds, n) - Len(yielded')
    <3>1. /\ request \in Nat \ {0} /\ reply \in Nat \ {0} /\ Rounds \in Nat /\ First \in {0, 1}
          /\ Len(consumed) \div request \in Nat
          /\ PeerHas = reply * Least(Rounds, m) - Len(yielded)
          /\ PeerHas' = reply * Least(Rounds, n) - Len(yielded')
      BY <1>1, Shares, Sides
    <3>2. m \in Nat
      BY ONLY <3>1
    <3>3. QED
      BY <3>1, <3>2
  <2>3. n \in Nat /\ m <= n
    <3>1. Len(consumed) <= Len(consumed') /\ request \in Nat \ {0}
      BY <2>1, <2>2
    <3>2. /\ Len(consumed) \div request <= Len(consumed') \div request
          /\ Len(consumed) \div request \in Nat /\ Len(consumed') \div request \in Nat
      BY ONLY <2>1, <3>1, Quotients, Division
    <3>3. QED
      BY <2>2, <3>2
  <2> HIDE DEF m, n
  <2>4. Least(Rounds, m) \in Nat /\ Least(Rounds, n) \in Nat
        /\ Least(Rounds, m) <= Least(Rounds, n)
    BY <2>2, <2>3 DEF Least
  <2>5. reply * Least(Rounds, m) <= reply * Least(Rounds, n)
        /\ reply * Least(Rounds, m) \in Nat /\ reply * Least(Rounds, n) \in Nat
    BY ONLY <2>2, <2>4, Monotone, Multiple
  <2>6. PeerHas' >= 0
    BY <1>2, <2>1, <2>2, <2>5
  <2>7. QED
    BY <1>1, <1>3, <2>6 DEF ConvTypes, terms
<1>7. QED
  <2>1. ASSUME ConvRelay, ~Answer, ~WriteBoxed PROVE UNCHANGED << consumed, yielded >>
    BY <2>1 DEF ConvRelay, AnswerEnds, ReadBoxedEnds, PollPeer, Poll, Forward, ReadSocket,
       WriteSocket, ReadSocketEnds
  <2>2. ASSUME ConvCaller PROVE UNCHANGED << consumed, yielded >>
    BY <2>2 DEF ConvCaller, Ask, FlushFirst, Listen, Carry, Leave, BeginWrite, BeginRead, Put,
       PutFails, Get, GetEnd, Drop, vars, relay
  <2>3. ASSUME WriteBoxed PROVE UNCHANGED yielded
    BY <2>3 DEF WriteBoxed
  <2>4. QED
    BY <1>4, <1>5, <1>6, <2>1, <2>2, <2>3 DEF ConvNext

(* Requests leave whole and in their turn.                                 *)
LEMMA InTurnKept ==
  ASSUME Inv, ConvTypes, InTurn, Orderly, Running, Running', ConvNext
  PROVE  InTurn'
<1> DEFINE m == Least(Rounds, (Len(delivered) \div reply) + (1 - First))
<1>1. /\ UNCHANGED << terms, origin, signals >> /\ First' = First
      /\ request' = request /\ method' = method
  BY ConvStep, Sides DEF terms
<1>2. /\ request \in Nat \ {0} /\ reply \in Nat \ {0} /\ Rounds \in Nat /\ First \in {0, 1}
      /\ request <= SockCap /\ m \in Nat /\ request * m \in Nat
      /\ ToSay = request * m - Len(accepted) - buffered
      /\ Len(delivered) \div reply \in Nat
  <2>1. /\ request \in Nat \ {0} /\ reply \in Nat \ {0} /\ Rounds \in Nat /\ First \in {0, 1}
        /\ request <= SockCap /\ request * m \in Nat
        /\ ToSay = request * m - Len(accepted) - buffered
        /\ Len(delivered) \div reply \in Nat
    BY Shares
  <2>2. m \in Nat
    BY ONLY <2>1 DEF Least
  <2>3. QED
    BY <2>1, <2>2
<1>3. /\ Len(accepted) \in Nat /\ Len(delivered) \in Nat
      /\ buffered \in {0, request} /\ ToHear \in Int /\ ToSay \in Int /\ left \in Nat
  BY Counts, Shares DEF ConvTypes, Inv, TypeOK
<1>4. /\ ToSay' = request * Least(Rounds, (Len(delivered') \div reply) + (1 - First))
                    - Len(accepted') - buffered'
      /\ ToHear' = reply * Least(Rounds, ((Len(accepted') + buffered') \div request) + First)
                     - Len(delivered')
  BY <1>1, Sides
<1>5. /\ Len(accepted) % request = 0 /\ call # "write" /\ Leaving \in {0, request}
      /\ ToSay >= Leaving
      /\ call = "read" => ToHear > 0 /\ (method = "read" => buffered = 0)
  BY DEF InTurn
<1>6. CASE UNCHANGED << accepted, delivered, buffered, call, left >>
  <2>1. Leaving' = Leaving /\ ToSay' = ToSay /\ ToHear' = ToHear
    BY <1>4, <1>6, Shares DEF Leaving
  <2>2. QED
    BY <1>1, <1>5, <1>6, <2>1 DEF InTurn
<1>7. CASE Ask
  <2>1. /\ buffered = 0 /\ ToSay > 0 /\ buffered' = request
        /\ UNCHANGED << accepted, delivered, call, left >> /\ call = "idle"
    BY <1>7 DEF Ask, vars, caller
  <2>2. Leaving' = 0
    BY <2>1 DEF Leaving
  <2>3. ToSay' = request * m - Len(accepted) - request
    BY <1>4, <2>1
  <2>4. request <= request * m - Len(accepted)
    <3> DEFINE k == Len(accepted) \div request
    <3>1. Len(accepted) = (request * k) + (Len(accepted) % request) /\ k \in Nat
      <4>1. Len(accepted) \in Nat /\ request \in Nat \ {0}
        BY <1>2, <1>3
      <4>2. QED
        BY ONLY <4>1, Division
    <3> HIDE DEF k, m
    <3>2. request * k \in Nat /\ request * (k + 1) = (request * k) + request
          /\ request * (k + 1) \in Nat
      BY ONLY <1>2, <3>1, Multiple
    <3>3. Len(accepted) = request * k
      BY <1>5, <3>1, <3>2
    <3>4. (m <= k) <=> (request * m <= request * k)
      BY ONLY <1>2, <3>1, Monotone
    <3>5. ~(m <= k)
      BY <1>2, <1>3, <2>1, <3>2, <3>3, <3>4
    <3>6. k + 1 <= m /\ k + 1 \in Nat
      BY <1>2, <3>1, <3>5
    <3>7. request * (k + 1) <= request * m
      BY ONLY <1>2, <3>6, Monotone
    <3>8. QED
      BY <1>2, <3>2, <3>3, <3>7
  <2> HIDE DEF m
  <2>5. ToSay' >= 0
    BY <1>2, <1>3, <2>3, <2>4
  <2>6. QED
    BY <1>1, <1>5, <2>1, <2>2, <2>5 DEF InTurn
<1>8. CASE FlushFirst
  <2>1. /\ call = "idle" /\ call' = "write_all" /\ left' = buffered /\ buffered > 0
        /\ buffered' = 0 /\ UNCHANGED << accepted, delivered >>
    BY <1>8 DEF FlushFirst, BeginWrite
  <2>2. Leaving' = request /\ buffered = request
    BY <1>1, <1>3, <2>1 DEF Leaving
  <2> HIDE DEF m
  <2>3. ToSay' >= request
    <3>1. ToSay' = request * m - Len(accepted)
      <4>1. ToSay' = request * m - Len(accepted) - 0
        BY <1>4, <2>1 DEF m
      <4>2. QED
        BY <1>2, <1>3, <4>1
    <3>2. ToSay >= 0
      BY <1>2, <1>3, <1>5
    <3>3. QED
      BY <1>2, <1>3, <2>2, <3>1, <3>2
  <2>4. QED
    BY <1>1, <1>2, <1>5, <2>1, <2>2, <2>3 DEF InTurn
<1>9. CASE Listen
  <2>1. /\ ToHear > 0 /\ (method = "read" => buffered = 0) /\ call = "idle" /\ call' = "read"
        /\ UNCHANGED << accepted, delivered, buffered >>
    BY <1>9 DEF Listen, BeginRead
  <2>2. Leaving' = 0 /\ ToSay' = ToSay /\ ToHear' = ToHear
    BY <1>4, <2>1, Shares DEF Leaving
  <2>3. ToSay >= 0
    BY <1>2, <1>3, <1>5
  <2>4. QED
    BY <1>1, <1>5, <2>1, <2>2, <2>3 DEF InTurn
<1>10. CASE Carry
  <2>1. ~ThreadGone /\ ~signals
    BY DEF Running, Orderly, ThreadGone
  <2>2. CASE Put
    <3>1. Len(accepted') - Len(accepted) = Least(left, SockCap - Len(toThread))
      BY <1>10, <2>2 DEF Carry, Orderly, Get, GetEnd, PutFails, Put
    <3>2. /\ Leaving = request /\ call' = "idle" /\ UNCHANGED delivered
          /\ Len(accepted') = Len(accepted) + request /\ UNCHANGED buffered
      BY <1>10, <2>2, <3>1, PutCounts DEF Carry
    <3>3. Leaving' = 0
      BY <3>2 DEF Leaving
    <3> HIDE DEF m
    <3>4. ToSay' >= 0
      <4>1. ToSay' = request * m - (Len(accepted) + request) - buffered
        BY <1>4, <3>2 DEF m
      <4>2. QED
        BY <1>2, <1>3, <1>5, <3>2, <4>1
    <3>5. Len(accepted') % request = 0
      <4> DEFINE x == Len(accepted')
      <4>1. x \in Nat /\ x >= request /\ x - request = Len(accepted)
        BY <1>2, <1>3, <3>2
      <4>2. (x - request) % request = x % request
        BY ONLY <1>2, <4>1, OneBufferLess
      <4>3. QED
        BY <1>5, <4>1, <4>2
    <3>6. QED
      BY <1>1, <1>2, <3>2, <3>3, <3>4, <3>5 DEF InTurn
  <2>3. CASE Get
    <3>1. /\ call' = "idle" /\ UNCHANGED << accepted, buffered >>
          /\ Len(delivered') \in Nat /\ Len(delivered) <= Len(delivered')
      BY <1>10, <2>3, GetCounts DEF Carry
    <3>2. Leaving' = 0
      BY <3>1 DEF Leaving
    <3>3. ToSay' >= 0
      <4> DEFINE e == Len(delivered) \div reply
                 g == Len(delivered') \div reply
      <4>1. e \in Nat /\ g \in Nat /\ e <= g
        BY ONLY <1>2, <1>3, <3>1, Division, Quotients
      <4> DEFINE k == Least(Rounds, g + (1 - First))
      <4>2. ToSay' = request * k - Len(accepted) - buffered /\ m = Least(Rounds, e + (1 - First))
        BY <1>4, <3>1
      <4> HIDE DEF m, k
      <4>3. k \in Nat /\ m <= k
        <5>1. k = Least(Rounds, g + (1 - First))
          BY DEF k
        <5> HIDE DEF e, g
        <5>2. Rounds \in Nat /\ First \in {0, 1}
          BY <1>2
        <5>3. QED
          BY ONLY <4>1, <4>2, <5>1, <5>2 DEF Least
      <4>4. request * m <= request * k /\ request * k \in Nat
        BY ONLY <1>2, <4>3, Monotone, Multiple
      <4>5. ToSay >= 0 /\ ToSay = request * m - Len(accepted) - buffered
            /\ request * m \in Nat /\ Len(accepted) \in Nat /\ buffered \in Nat
        BY <1>2, <1>3, <1>5
      <4>6. ToSay' = request * k - Len(accepted) - buffered
        BY <4>2
      <4>7. QED
        BY ONLY <4>4, <4>5, <4>6
    <3>4. QED
      BY <1>1, <1>5, <3>1, <3>2, <3>3 DEF InTurn
  <2>4. QED
    BY <1>10, <2>1, <2>2, <2>3 DEF Carry, PutFails, GetEnd
<1>11. ~Leave
  BY DEF Running, Leave, Drop
<1>12. CASE ConvRelay
  BY <1>6, <1>12 DEF ConvRelay, Answer, AnswerEnds, PollPeer, Forward, ReadBoxed,
     ReadBoxedEnds, Poll, ReadSocket, WriteSocket, ReadSocketEnds, WriteBoxed, caller
<1>13. QED
  BY <1>7, <1>8, <1>9, <1>10, <1>11, <1>12 DEF ConvNext, ConvCaller

(* The steps of the caller other than Put and Leave.                       *)
LEMMA Aside ==
  ASSUME ConvCaller, ~Put, ~Leave
  PROVE  UNCHANGED << open, relay, toThread, accepted >>
BY DEF ConvCaller, Ask, FlushFirst, Listen, Carry, BeginWrite, BeginRead, PutFails, Get, GetEnd,
   vars, caller

(* A socket that is open and no signal cuts short is read to some effect.  *)
LEMMA Undisturbed ==
  ASSUME ConvTypes, Orderly, open, ConvRelay
  PROVE  /\ ~ReadSocketEnds
         /\ AnswerEnds => thread = "read_boxed" /\ thread' \in Ended
         /\ open' = open
BY DEF Orderly, ReadSocketEnds, AnswerEnds, ReadBoxedEnds, Ended, ConvTypes, ConvRelay, Answer,
   PollPeer, Poll, Forward, ReadBoxed, ReadSocket, WriteSocket, WriteBoxed, caller

(* Only the last byte of a request makes the peer answer.                  *)
LEMMA LastByte ==
  ASSUME Inv, ConvTypes, InTurn, WriteBoxed, UNCHANGED terms, thread' \notin Ended
  PROVE  /\ Len(consumed') < Len(accepted) => PeerHas' = 0
         /\ Len(consumed') = Len(accepted) =>
               \/ PeerHas' = reply
               \/ /\ PeerHas' = 0 /\ Len(consumed') = request * Rounds
                  /\ Len(yielded') = reply * Rounds
<1> DEFINE r == request
           p == reply
           n == Rounds
           f == First
           a == Len(accepted)
           c == Len(consumed)
           z == Len(consumed')
           y == Len(yielded)
           q == Len(consumed) \div request
           g == Len(consumed') \div request
<1>1. /\ r \in Nat \ {0} /\ p \in Nat \ {0} /\ n \in Nat /\ f \in {0, 1}
      /\ PeerHas = p * Least(n, q + f) - y /\ PeerHas' = p * Least(n, g + f) - y
      /\ q \in Nat
  BY Shares, Sides, WriteBoxedCounts
<1>2. /\ a \in Nat /\ c \in Nat /\ z \in Nat /\ y \in Nat /\ Len(yielded') = y
      /\ c < z /\ c < a
  <2>1. /\ Len(chunk) > 0 /\ z \in Nat /\ c < z /\ Outbound = chunk /\ UNCHANGED yielded
    BY WriteBoxedCounts DEF Outbound
  <2>2. QED
    BY <2>1, Counts
<1>3. /\ Asked \in Nat /\ a <= Asked /\ (a < Asked => c = a)
      /\ c < Asked => /\ PeerHas = 0 /\ Asked = r * (q + 1) /\ q < n /\ q + f <= n
  BY Polite
<1>4. a = r * (q + 1) /\ PeerHas = 0 /\ q < n /\ q + f <= n
  BY <1>2, <1>3
<1>5. g \in Nat /\ q <= g /\ r * g <= z
  <2>1. r \in Nat \ {0} /\ c \in Nat /\ z \in Nat /\ c <= z
    BY <1>1, <1>2
  <2>2. QED
    BY ONLY <2>1, Division, Quotients
<1> HIDE DEF r, p, n, f, a, c, z, y, q, g
<1>6. Least(n, q + f) = q + f /\ y = p * (q + f) /\ p * (q + f) \in Nat
  <2>1. Least(n, q + f) = q + f /\ q + f \in Nat
    BY <1>1, <1>4 DEF Least
  <2>2. p * (q + f) \in Nat
    BY ONLY <1>1, <2>1, Multiple
  <2>3. QED
    BY <1>1, <1>2, <1>4, <2>1, <2>2
<1>7. ASSUME z < a PROVE PeerHas' = 0
  <2>1. ~(q + 1 <= g)
    <3>1. (q + 1 <= g) <=> (r * (q + 1) <= r * g)
      BY <1>1, <1>5, Monotone
    <3>2. r * g \in Nat /\ r * (q + 1) \in Nat
      BY <1>1, <1>5, Multiple
    <3>3. QED
      BY <1>2, <1>4, <1>5, <1>7, <3>1, <3>2
  <2>2. g = q
    BY <1>1, <1>5, <2>1
  <2>3. QED
    BY <1>1, <1>2, <1>6, <2>2
<1>8. ASSUME z = a
      PROVE  PeerHas' = p \/ (PeerHas' = 0 /\ z = r * n /\ y = p * n)
  <2>1. g = q + 1
    <3>1. z = r * (q + 1) /\ q + 1 \in Nat
      BY <1>1, <1>4, <1>8
    <3>2. (r * (q + 1)) \div r = q + 1
      BY ONLY <1>1, <3>1, Multiple
    <3>3. QED
      BY <3>1, <3>2 DEF g, r, z
  <2>2. CASE q + f < n
    <3>1. Least(n, g + f) = (q + f) + 1
      BY <1>1, <2>1, <2>2 DEF Least
    <3>2. p * ((q + f) + 1) = (p * (q + f)) + p
      BY <1>1, Multiple
    <3>3. QED
      BY <1>1, <1>2, <1>6, <3>1, <3>2
  <2>3. CASE q + f = n
    <3>1. f = 1 /\ q + 1 = n /\ Least(n, g + f) = n
      BY <1>1, <1>4, <2>1, <2>3 DEF Least
    <3>2. QED
      BY <1>1, <1>2, <1>4, <1>6, <1>8, <2>3, <3>1
  <2>4. QED
    BY <1>1, <1>4, <2>2, <2>3
<1>9. QED
  BY <1>2, <1>7, <1>8 DEF a, z, p, r, n, y

(* The lengths of the reads tell the relay whose turn it is.               *)
LEMMA CuedKept ==
  ASSUME Inv, ConvTypes, InTurn, Cued, Framed, Running, Running', ConvNext
  PROVE  Cued'
<1>1. /\ UNCHANGED << terms, origin, signals >> /\ request' = request /\ reply' = reply
      /\ whole /\ ~signals /\ Orderly /\ Running
      /\ request % RelayBuf # 0 /\ reply % RelayBuf # 0 /\ RelayBuf \in Nat \ {0}
  BY ConvStep DEF terms, Framed, Uneven, Orderly
<1>2. /\ PeerHas \in Nat /\ Len(toThread) \in Nat /\ request \in Nat \ {0} /\ reply \in Nat \ {0}
      /\ toThread = << >> <=> Len(toThread) = 0
  BY Counts, Shares
<1>3. open /\ thread \notin Ended /\ thread' \notin Ended
  BY DEF Running
<1>4. /\ toThread # << >> => Len(toThread) % RelayBuf = request % RelayBuf
      /\ PeerHas > 0 => PeerHas % RelayBuf = reply % RelayBuf
      /\ thread = "write_boxed" => chunk # << >> /\ (filled <=> toThread # << >>)
      /\ thread = "write_socket" => (filled <=> PeerHas > 0)
      /\ thread = "read_socket" /\ toThread = << >> => PeerHas = 0
      /\ thread = "read_boxed" /\ PeerHas = 0 =>
            Len(consumed) = request * Rounds /\ Len(yielded) = reply * Rounds
  BY DEF Cued
(* A read of a whole buffer is one of a message that goes on.              *)
<1>5. ASSUME NEW m \in Nat, NEW x \in Nat \ {0}, NEW k \in Nat, m % RelayBuf # 0,
             x % RelayBuf = m % RelayBuf, k = Least(RelayBuf, x)
      PROVE  /\ (k >= RelayBuf) <=> (x - k > 0)
             /\ x - k \in Nat /\ (x - k > 0 => (x - k) % RelayBuf = m % RelayBuf)
  <2>1. CASE x < RelayBuf
    BY <1>1, <1>5, <2>1 DEF Least
  <2>2. CASE x >= RelayBuf
    <3>1. k = RelayBuf /\ x - k \in Nat
      BY <1>1, <1>5, <2>2 DEF Least
    <3>2. x # RelayBuf
      BY <1>1, <1>5, SmallRemainder
    <3>3. (x - RelayBuf) % RelayBuf = x % RelayBuf
      BY <1>1, <2>2, OneBufferLess
    <3>4. QED
      BY <1>1, <1>5, <2>2, <3>1, <3>2, <3>3
  <2>3. QED
    BY <1>1, <2>1, <2>2
<1>6. CASE Answer
  <2>1. /\ thread' = "write_socket" /\ UNCHANGED toThread
        /\ Len(chunk') \in Nat \ {0} /\ Len(chunk') <= PeerHas
        /\ PeerHas' = PeerHas - Len(chunk') /\ filled' = (Len(chunk') >= RelayBuf)
        /\ Len(chunk') = Least(RelayBuf, PeerHas)
    BY <1>1, <1>6, AnswerCounts
  <2>2. PeerHas \in Nat \ {0} /\ PeerHas % RelayBuf = reply % RelayBuf
    BY <1>2, <1>4, <2>1
  <2>3. /\ (Len(chunk') >= RelayBuf) <=> (PeerHas' > 0)
        /\ PeerHas' > 0 => PeerHas' % RelayBuf = reply % RelayBuf
    BY <1>1, <1>2, <1>5, <2>1, <2>2
  <2>4. QED
    BY <1>1, <1>4, <2>1, <2>3 DEF Cued
<1>7. CASE PollPeer
  <2>1. UNCHANGED << consumed, yielded, toThread, chunk, filled >>
    BY <1>7 DEF PollPeer, Poll
  <2>2. PeerHas' = PeerHas
    BY <1>1, <2>1, Shares, Sides
  <2>3. /\ thread' \in {"read_socket", "read_boxed"} \cup Polling
        /\ thread' = "read_socket" => toThread # << >>
        /\ thread' = "read_boxed" => PeerHas > 0
    BY <1>3, <1>7 DEF PollPeer, Poll, Polling, Ended
  <2>4. QED
    BY <1>1, <1>4, <2>1, <2>2, <2>3 DEF Cued, Polling
<1>8. CASE Forward
  <2>1. /\ thread' = "write_boxed" /\ UNCHANGED << consumed, yielded >>
        /\ Len(chunk') \in Nat \ {0} /\ Len(chunk') <= Len(toThread)
        /\ Len(toThread') = Len(toThread) - Len(chunk')
        /\ chunk' # << >> /\ (toThread' = << >> <=> Len(toThread') = 0)
        /\ filled' = (Len(chunk') >= RelayBuf)
        /\ Len(chunk') = Least(RelayBuf, Len(toThread))
    BY <1>1, <1>8, ForwardCounts
  <2>2. PeerHas' = PeerHas
    BY <1>1, <2>1, Shares, Sides
  <2>3. Len(toThread) \in Nat \ {0} /\ Len(toThread) % RelayBuf = request % RelayBuf
    BY <1>2, <1>4, <2>1
  <2>4. /\ (Len(chunk') >= RelayBuf) <=> (Len(toThread') > 0)
        /\ Len(toThread') \in Nat
        /\ Len(toThread') > 0 => Len(toThread') % RelayBuf = request % RelayBuf
    BY <1>1, <1>2, <1>5, <2>1, <2>3
  <2>5. filled' <=> toThread' # << >>
    <3>1. (Len(chunk') >= RelayBuf) <=> toThread' # << >>
      BY <2>1, <2>4
    <3>2. filled' = (Len(chunk') >= RelayBuf)
      BY <2>1
    <3>3. QED
      BY ONLY <3>1, <3>2, Zenon
  <2>6. toThread' # << >> => Len(toThread') % RelayBuf = request % RelayBuf
    BY <2>1, <2>4
  <2>7. QED
    BY <1>1, <1>4, <2>1, <2>2, <2>5, <2>6 DEF Cued
<1>9. CASE WriteSocket
  <2>1. /\ thread = "write_socket"
        /\ thread' \in {"write_socket", IF filled THEN "read_boxed" ELSE "read_socket"}
        /\ UNCHANGED << filled, consumed, yielded, toThread >>
    BY <1>3, <1>9, WriteSocketPlaces DEF Ended
  <2>2. PeerHas' = PeerHas
    BY <1>1, <2>1, Shares, Sides
  <2>3. QED
    BY <1>1, <1>2, <1>4, <2>1, <2>2 DEF Cued
<1>10. CASE WriteBoxed
  <2>1. /\ thread = "write_boxed" /\ UNCHANGED << filled, yielded, toThread >>
        /\ Len(chunk) > 0 /\ Len(consumed') \in Nat /\ Len(chunk') \in Nat
        /\ chunk' = << >> <=> Len(chunk') = 0
        /\ Len(consumed') + Len(chunk') = Len(consumed) + Len(chunk)
        /\ IF chunk' = << >> THEN thread' = IF filled THEN "read_socket" ELSE "read_boxed"
           ELSE thread' = "write_boxed"
    BY <1>3, <1>10, WriteBoxedCounts
  <2>2. /\ (Len(consumed) + Len(chunk)) + Len(toThread) = Len(accepted)
        /\ Len(consumed) \in Nat /\ Len(chunk) \in Nat /\ Len(accepted) \in Nat
    BY <2>1, Counts DEF Outbound
  <2>3. /\ Len(consumed') < Len(accepted) => PeerHas' = 0
        /\ Len(consumed') = Len(accepted) =>
              \/ PeerHas' = reply
              \/ /\ PeerHas' = 0 /\ Len(consumed') = request * Rounds
                 /\ Len(yielded') = reply * Rounds
    BY <1>1, <1>3, <1>10, LastByte
  <2>4. CASE chunk' # << >>
    <3>1. Len(consumed') < Len(accepted)
      BY <1>2, <2>1, <2>2, <2>4
    <3>2. PeerHas' = 0
      BY <2>3, <3>1
    <3>3. QED
      BY <1>1, <1>4, <2>1, <2>4, <3>2 DEF Cued
  <2>5. CASE chunk' = << >> /\ filled
    <3>1. toThread # << >> /\ Len(consumed') < Len(accepted)
      BY <1>2, <1>4, <2>1, <2>2, <2>5
    <3>2. PeerHas' = 0
      BY <2>3, <3>1
    <3>3. QED
      BY <1>1, <1>4, <2>1, <2>5, <3>1, <3>2 DEF Cued
  <2>6. CASE chunk' = << >> /\ ~filled
    <3>1. toThread = << >> /\ Len(consumed') = Len(accepted)
      BY <1>2, <1>4, <2>1, <2>2, <2>6
    <3>2. /\ thread' = "read_boxed" /\ toThread' = << >>
      BY <2>1, <2>6, <3>1
    <3>3. QED
      BY <1>1, <1>2, <2>3, <3>1, <3>2 DEF Cued
  <2>7. QED
    BY <2>4, <2>5, <2>6
<1>11. CASE ConvCaller /\ Put
  <2>1. Len(accepted') - Len(accepted) = Least(left, SockCap - Len(toThread))
    BY <1>1, <1>11 DEF ConvCaller, Carry, Ask, FlushFirst, Listen, Leave, BeginWrite, BeginRead,
       Drop, vars, caller, Put, PutFails, Get, GetEnd
  <2>2. /\ Len(toThread') = request /\ toThread' # << >> /\ UNCHANGED relay
        /\ Outbound = << >> /\ PeerHas = 0
    BY <1>11, <2>1, PutCounts
  <2>3. thread # "write_boxed"
    BY <1>4, <2>2 DEF Outbound
  <2>4. PeerHas' = PeerHas
    BY <1>1, <2>2, Shares, Sides DEF relay
  <2>5. QED
    BY <1>1, <1>4, <2>2, <2>3, <2>4 DEF Cued, relay
<1>12. CASE ConvCaller /\ ~Put
  <2>1. ~Leave
    BY DEF Running, Leave, Drop
  <2>2. UNCHANGED << relay, toThread >>
    BY <1>12, <2>1, Aside
  <2>3. PeerHas' = PeerHas
    BY <1>1, <2>2, Shares, Sides DEF relay
  <2>4. QED
    BY <1>1, <1>4, <2>2, <2>3 DEF Cued, relay
<1>13. QED
  <2>1. ASSUME ConvRelay PROVE ~ReadSocketEnds /\ ~AnswerEnds
    BY <1>1, <1>3, <2>1, Undisturbed
  <2>2. QED
    BY <1>6, <1>7, <1>8, <1>9, <1>10, <1>11, <1>12, <2>1 DEF ConvNext, ConvRelay

(* A caller that waits in fill_buf holds its request back.                 *)
LEMMA UnflushedKept ==
  ASSUME Inv, ConvTypes, Rounds > 1, method = "fill_buf", Unflushed, ConvNext
  PROVE  Unflushed'
<1>1. accepted = << >> /\ call \notin Writing
  BY DEF Unflushed
<1>2. ~FlushFirst
  <2>1. SUFFICES ASSUME FlushFirst PROVE FALSE
    OBVIOUS
  <2>2. buffered = request /\ ToHear = 0
    BY <2>1 DEF FlushFirst, ConvTypes
  <2>3. /\ request \in Nat \ {0} /\ reply \in Nat \ {0} /\ Rounds \in Nat /\ First \in {0, 1}
        /\ ToHear = reply * Least(Rounds, ((Len(accepted) + buffered) \div request) + First)
                      - Len(delivered)
        /\ PeerHas = reply * Least(Rounds, (Len(consumed) \div request) + First) - Len(yielded)
        /\ PeerHas \in Nat
    BY Shares
  <2>4. /\ Len(accepted) = 0 /\ Len(consumed) = 0
        /\ Len(delivered) \in Nat /\ Len(yielded) \in Nat /\ Len(delivered) <= Len(yielded)
    BY <1>1, Counts
  <2>5. 0 \div request = 0 /\ request \div request = 1
    <3>1. /\ (request * 0) \div request = 0 /\ (request * 1) \div request = 1
      BY ONLY <2>3, Multiple
    <3>2. QED
      BY <2>3, <3>1
  <2>6. ToHear = reply * (1 + First) - Len(delivered) /\ PeerHas = reply * First - Len(yielded)
    <3>1. Least(Rounds, 1 + First) = 1 + First /\ Least(Rounds, First) = First
      BY <2>3 DEF Least
    <3>2. /\ (Len(accepted) + buffered) \div request = 1
          /\ (Len(consumed) \div request) + First = First
      BY <2>2, <2>3, <2>4, <2>5
    <3>3. QED
      BY <2>3, <3>1, <3>2
  <2>7. reply * (First + 1) = reply * First + reply /\ reply * First \in Nat
    BY ONLY <2>3, Multiple
  <2>8. QED
    BY <2>2, <2>3, <2>4, <2>6, <2>7
<1>3. UNCHANGED accepted /\ call' \notin Writing
  <2>1. CASE ConvRelay
    BY <1>1, <2>1 DEF ConvRelay, Answer, AnswerEnds, PollPeer, Poll, Forward, ReadBoxed,
       ReadBoxedEnds, ReadSocket, WriteSocket, ReadSocketEnds, WriteBoxed, caller
  <2>2. CASE ConvCaller
    BY <1>1, <1>2, <2>2 DEF ConvCaller, Ask, Listen, Carry, Leave, BeginRead, Put, PutFails,
       Get, GetEnd, Drop, Return, vars, caller, Writing
  <2>3. QED
    BY <2>1, <2>2 DEF ConvNext
<1>4. QED
  BY <1>1, <1>3 DEF Unflushed

(* What the peer has said, while it has no more than one request.          *)
LEMMA Share ==
  ASSUME Inv, ConvTypes, Rounds > 1, NEW k \in {0, 1}, k + First <= 1,
         Len(consumed) <= request * k
  PROVE  /\ Len(yielded) <= reply * (k + First) /\ Len(yielded) < reply * Rounds
         /\ PeerHas <= reply * (k + First) - Len(yielded)
         /\ PeerHas = 0 \/ PeerHas = reply - Len(yielded)
<1> DEFINE q == Len(consumed) \div request
<1>1. /\ request \in Nat \ {0} /\ reply \in Nat \ {0} /\ Rounds \in Nat /\ First \in {0, 1}
      /\ PeerHas = reply * Least(Rounds, q + First) - Len(yielded)
      /\ PeerHas \in Nat /\ q \in Nat
  BY Shares
<1>2. Len(consumed) \in Nat /\ Len(yielded) \in Nat
  BY Counts
<1>3. q <= k
  <2>1. /\ request * k \in Nat /\ (request * k) \div request = k
    <3>1. k \in Nat
      OBVIOUS
    <3>2. QED
      BY ONLY <1>1, <3>1, Multiple
  <2>2. q <= (request * k) \div request
    <3>1. request \in Nat \ {0} /\ Len(consumed) <= request * k
      BY <1>1
    <3>2. QED
      BY ONLY <1>2, <2>1, <3>1, Quotients
  <2>3. QED
    BY <2>1, <2>2
<1> HIDE DEF q
<1>4. Least(Rounds, q + First) = q + First /\ q + First \in {0, 1} /\ q + First <= k + First
      /\ k + First \in {0, 1}
  BY <1>1, <1>3 DEF Least
<1>5. reply * 0 = 0 /\ reply * 1 = reply
  BY <1>1
<1>6. /\ PeerHas = 0 - Len(yielded) \/ PeerHas = reply - Len(yielded)
      /\ PeerHas <= reply * (k + First) - Len(yielded)
  <2>1. PeerHas = reply * (q + First) - Len(yielded)
    BY <1>1, <1>4
  <2>2. PeerHas = 0 - Len(yielded) \/ PeerHas = reply - Len(yielded)
    <3>1. q + First = 0 \/ q + First = 1
      BY <1>4
    <3>2. QED
      BY ONLY <1>5, <2>1, <3>1
  <2>3. reply * (q + First) <= reply * (k + First)
        /\ reply * (q + First) \in Nat /\ reply * (k + First) \in Nat
    <3>1. q + First \in Nat /\ k + First \in Nat /\ q + First <= k + First
      BY <1>1, <1>4
    <3>2. QED
      BY ONLY <1>1, <3>1, Monotone, Multiple
  <2>4. QED
    BY ONLY <1>2, <2>1, <2>2, <2>3
<1>7. reply * (k + First) <= reply /\ reply * (k + First) \in Nat /\ reply < reply * Rounds
  <2>1. reply * (k + First) <= reply /\ reply * (k + First) \in Nat
    BY <1>1, <1>4, <1>5
  <2>2. reply * 2 <= reply * Rounds
    BY <1>1, Monotone
  <2>3. reply * 2 = reply + reply /\ reply * Rounds \in Nat
    BY <1>1
  <2>4. QED
    BY <1>1, <2>1, <2>2, <2>3
<1>8. reply * Rounds \in Nat
  BY <1>1
<1>9. Len(yielded) <= reply * (k + First) /\ (PeerHas = 0 \/ PeerHas = reply - Len(yielded))
  BY ONLY <1>1, <1>2, <1>6, <1>7
<1>10. Len(yielded) < reply * Rounds
  BY ONLY <1>1, <1>2, <1>7, <1>8, <1>9
<1>11. QED
  BY <1>6, <1>9, <1>10

(* A request that fills the relay's buffer is never known to be over.      *)
LEMMA FullRequestsKept ==
  ASSUME Inv, ConvTypes, Running => InTurn, Orderly, Rounds > 1, request % RelayBuf = 0,
         FullRequests, ConvNext
  PROVE  FullRequests'
<1>1. /\ UNCHANGED << terms, origin, signals >> /\ request' = request /\ reply' = reply
      /\ peerFirst' = peerFirst /\ RelayBuf \in Nat \ {0}
  BY ConvStep DEF terms
<1>2. /\ PeerHas \in Nat /\ Len(toThread) \in Nat /\ request \in Nat \ {0} /\ reply \in Nat \ {0}
      /\ toThread = << >> <=> Len(toThread) = 0
      /\ First \in {0, 1} /\ reply * First \in Nat /\ Rounds \in Nat
      /\ consumed = << >> <=> Len(consumed) = 0
      /\ Len(yielded) \in Nat /\ Len(delivered) \in Nat /\ Len(delivered) <= Len(yielded)
  <2>1. /\ PeerHas \in Nat /\ Len(toThread) \in Nat /\ request \in Nat \ {0}
        /\ reply \in Nat \ {0} /\ First \in {0, 1} /\ Rounds \in Nat
        /\ toThread = << >> <=> Len(toThread) = 0
        /\ consumed = << >> <=> Len(consumed) = 0
        /\ Len(yielded) \in Nat /\ Len(delivered) \in Nat /\ Len(delivered) <= Len(yielded)
    BY Counts, Shares
  <2>2. reply * First \in Nat
    BY ONLY <2>1, Multiple
  <2>3. QED
    BY <2>1, <2>2
<1>3. /\ open /\ Len(yielded) <= reply * First
      /\ Running =>
            /\ Len(toThread) % RelayBuf = 0 /\ (thread = "write_boxed" => filled)
            /\ consumed # << >> => thread \in {"write_boxed", "read_socket"}
  BY DEF FullRequests, First
<1>4. First' = First
  BY <1>1 DEF First, terms
<1>5. CASE Answer
  <2>1. /\ thread = "read_boxed" /\ thread' = "write_socket" /\ open' = open
        /\ UNCHANGED << consumed, toThread >>
        /\ Len(chunk') \in Nat /\ Len(chunk') <= PeerHas
        /\ Len(yielded') = Len(yielded) + Len(chunk')
    BY <1>1, <1>5, AnswerCounts DEF caller
  <2>2. Running
    BY <1>3, <2>1 DEF Running, Ended
  <2>3. consumed = << >>
    BY <1>3, <2>1, <2>2
  <2>4. PeerHas <= reply * (0 + First) - Len(yielded)
    <3>1. 0 + First <= 1 /\ Len(consumed) <= request * 0
      BY <1>2, <2>3
    <3>2. QED
      BY <3>1, Share
  <2>5. Len(yielded') <= reply * First
    <3>1. 0 + First = First
      BY <1>2
    <3>2. QED
      BY <1>2, <2>1, <2>4, <3>1
  <2>6. QED
    BY <1>1, <1>3, <1>4, <2>1, <2>2, <2>3, <2>5 DEF FullRequests, First
<1>6. CASE AnswerEnds \/ PollPeer \/ WriteSocket
  <2>1. /\ UNCHANGED << consumed, yielded, toThread, filled, open >>
        /\ thread \in {"read_boxed", "write_socket"} \cup Polling /\ thread' # "write_boxed"
    BY <1>6 DEF AnswerEnds, ReadBoxedEnds, PollPeer, Poll, WriteSocket, Onward, caller, Ended,
       Polling
  <2>2. Running
    BY <1>3, <2>1 DEF Running, Ended, Polling
  <2>3. consumed = << >>
    BY <1>3, <2>1, <2>2 DEF Polling
  <2>4. QED
    BY <1>1, <1>3, <1>4, <2>1, <2>2, <2>3 DEF FullRequests, First
<1>7. CASE Forward
  <2>1. /\ thread = "read_socket" /\ thread' = "write_boxed" /\ open' = open
        /\ UNCHANGED << consumed, yielded >>
        /\ Len(chunk') \in Nat \ {0} /\ Len(chunk') <= Len(toThread)
        /\ Len(toThread') = Len(toThread) - Len(chunk')
        /\ filled' = (Len(chunk') >= RelayBuf)
        /\ Len(chunk') = Least(RelayBuf, Len(toThread))
    BY <1>7, ForwardCounts DEF caller, Orderly
  <2>2. Running
    BY <1>3, <2>1 DEF Running, Ended
  <2>3. Len(toThread) >= RelayBuf
    BY <1>1, <1>2, <1>3, <2>1, <2>2, SmallRemainder
  <2>4. Len(chunk') = RelayBuf /\ (Len(toThread) - RelayBuf) % RelayBuf = Len(toThread) % RelayBuf
    <3>1. Len(chunk') = RelayBuf
      BY <1>1, <1>2, <2>1, <2>3 DEF Least
    <3>2. QED
      BY <1>1, <1>2, <2>3, <3>1, OneBufferLess
  <2>5. filled' /\ Len(toThread') % RelayBuf = 0
    <3>1. Len(chunk') >= RelayBuf
      BY <1>1, <2>4
    <3>2. filled' = (Len(chunk') >= RelayBuf)
      BY <2>1
    <3>3. filled'
      BY ONLY <3>1, <3>2, Zenon
    <3>4. Len(toThread') % RelayBuf = 0
      BY <1>3, <2>1, <2>2, <2>4
    <3>5. QED
      BY <3>3, <3>4
  <2>6. QED
    BY <1>1, <1>3, <1>4, <2>1, <2>5 DEF FullRequests, First
<1>8. CASE WriteBoxed
  <2>1. /\ thread = "write_boxed" /\ open' = open /\ UNCHANGED << filled, yielded, toThread >>
        /\ thread' \in Ended \cup {"write_boxed", IF filled THEN "read_socket" ELSE "read_boxed"}
    BY <1>8, WriteBoxedCounts DEF caller
  <2>2. Running
    BY <1>3, <2>1 DEF Running, Ended
  <2>3. filled
    BY <1>3, <2>1, <2>2
  <2>4. Running' => thread' \in {"write_boxed", "read_socket"}
    BY <2>1, <2>3 DEF Running
  <2>5. QED
    BY <1>1, <1>3, <1>4, <2>1, <2>2, <2>3, <2>4 DEF FullRequests, First
<1>9. CASE ConvCaller /\ Put
  <2>1. Len(accepted') - Len(accepted) = Least(left, SockCap - Len(toThread))
    BY <1>9 DEF ConvCaller, Carry, Ask, FlushFirst, Listen, Leave, BeginWrite, BeginRead,
       Drop, vars, caller, Put, PutFails, Get, GetEnd, Orderly
  <2>2. Running
    BY <1>3, <1>9 DEF Put, Running, ThreadGone, ConvTypes
  <2>3. Len(toThread') = request /\ UNCHANGED << relay, open >>
    BY <1>9, <2>1, <2>2, PutCounts
  <2>4. QED
    BY <1>1, <1>3, <1>4, <2>2, <2>3 DEF FullRequests, First, relay
<1>10. ~Leave
  <2>1. Len(yielded) < reply * Rounds
    <3>1. Len(yielded) <= reply * First /\ reply * First <= reply * 1 /\ reply * 1 = reply
      BY <1>2, <1>3
    <3>2. reply * 2 <= reply * Rounds /\ reply * 2 = reply + reply /\ reply * Rounds \in Nat
      <4>1. Rounds \in Nat /\ reply \in Nat \ {0} /\ 2 <= Rounds
        BY <1>2
      <4>2. QED
        BY ONLY <4>1, Monotone, Multiple
    <3>3. QED
      BY <1>2, <3>1, <3>2
  <2>2. reply * Rounds \in Nat
    BY ONLY <1>2, Multiple
  <2>3. QED
    BY <1>2, <2>1, <2>2 DEF Leave, Done
<1>11. CASE ConvCaller /\ ~Put
  <2>1. UNCHANGED << relay, toThread, open >>
    BY <1>10, <1>11, Aside
  <2>2. QED
    BY <1>1, <1>3, <1>4, <2>1 DEF FullRequests, First, relay, Running
<1>12. QED
  <2>1. ConvRelay => ~ReadSocketEnds
    BY <1>3, Undisturbed
  <2>2. QED
    BY <1>5, <1>6, <1>7, <1>8, <1>9, <1>11, <2>1 DEF ConvNext, ConvRelay

(* A reply that does is never known to be over either.                     *)
LEMMA FullRepliesKept ==
  ASSUME Inv, ConvTypes, Running => InTurn, Orderly, Rounds > 1, reply % RelayBuf = 0,
         FullReplies, ConvNext
  PROVE  FullReplies'
<1>1. /\ UNCHANGED << terms, origin, signals >> /\ request' = request /\ reply' = reply
      /\ peerFirst' = peerFirst /\ RelayBuf \in Nat \ {0}
  BY ConvStep DEF terms
<1>2. /\ PeerHas \in Nat /\ request \in Nat \ {0} /\ reply \in Nat \ {0} /\ Rounds \in Nat
      /\ First \in {0, 1}
      /\ yielded = << >> <=> Len(yielded) = 0
      /\ Len(yielded) \in Nat /\ Len(delivered) \in Nat /\ Len(delivered) <= Len(yielded)
      /\ Len(consumed) \in Nat /\ Len(accepted) \in Nat
  BY Counts, Shares
<1>3. (IF peerFirst THEN 0 ELSE 1) = 1 - First /\ 1 - First \in {0, 1}
  BY DEF ConvTypes, First
<1>4. /\ open /\ Len(consumed) <= request * (1 - First) /\ Len(yielded) % RelayBuf = 0
      /\ Running /\ yielded # << >> => thread \in {"write_socket", "read_boxed"}
      /\ Running /\ thread = "write_socket" => filled
  BY <1>3 DEF FullReplies
<1>5. /\ Len(yielded) < reply * Rounds
      /\ PeerHas = 0 \/ PeerHas = reply - Len(yielded)
  <2>1. (1 - First) + First <= 1
    <3>1. First \in {0, 1}
      BY <1>2
    <3>2. QED
      BY ONLY <3>1
  <2>2. QED
    BY <1>3, <1>4, <2>1, Share
<1>6. CASE Answer
  <2>1. /\ thread' = "write_socket" /\ open' = open /\ UNCHANGED consumed
        /\ Len(chunk') \in Nat \ {0} /\ Len(chunk') <= PeerHas
        /\ Len(yielded') = Len(yielded) + Len(chunk') /\ filled' = (Len(chunk') >= RelayBuf)
        /\ Len(chunk') = Least(RelayBuf, PeerHas)
    BY <1>1, <1>6, AnswerCounts DEF caller, Orderly
  <2>2. PeerHas = reply - Len(yielded) /\ PeerHas > 0
    BY <1>2, <1>5, <2>1
  <2>3. (reply - Len(yielded)) % RelayBuf = 0
    <3> DEFINE i == reply \div RelayBuf
               j == Len(yielded) \div RelayBuf
    <3>1. /\ reply = (RelayBuf * i) + (reply % RelayBuf) /\ i \in Nat
          /\ Len(yielded) = (RelayBuf * j) + (Len(yielded) % RelayBuf) /\ j \in Nat
      BY ONLY <1>1, <1>2, Division
    <3> HIDE DEF i, j
    <3>2. RelayBuf * i \in Nat /\ RelayBuf * j \in Nat
      BY ONLY <1>1, <3>1, Multiple
    <3>3. reply = RelayBuf * i /\ Len(yielded) = RelayBuf * j
      BY <1>4, <3>1, <3>2
    <3>4. j <= i
      <4>1. (j <= i) <=> (RelayBuf * j <= RelayBuf * i)
        BY ONLY <1>1, <3>1, Monotone
      <4>2. QED
        BY <1>2, <2>2, <3>2, <3>3, <4>1
    <3>5. i - j \in Nat /\ RelayBuf * (i - j) = RelayBuf * i - RelayBuf * j
      BY <1>1, <3>1, <3>4
    <3>6. (RelayBuf * (i - j)) % RelayBuf = 0
      BY ONLY <1>1, <3>5, Multiple
    <3>7. QED
      BY <3>3, <3>5, <3>6
  <2>4. PeerHas >= RelayBuf
    BY <1>1, <1>2, <2>2, <2>3, SmallRemainder
  <2>5. Len(chunk') = RelayBuf
    BY <1>1, <1>2, <2>1, <2>4 DEF Least
  <2>6. filled'
    <3>1. Len(chunk') >= RelayBuf
      BY <1>1, <2>5
    <3>2. filled' = (Len(chunk') >= RelayBuf)
      BY <2>1
    <3>3. QED
      BY ONLY <3>1, <3>2, Zenon
  <2>7. Len(yielded') % RelayBuf = 0
    <3> DEFINE x == Len(yielded')
    <3>1. x \in Nat /\ x >= RelayBuf /\ x - RelayBuf = Len(yielded)
      BY <1>1, <1>2, <2>1, <2>5
    <3>2. (x - RelayBuf) % RelayBuf = x % RelayBuf
      BY ONLY <1>1, <3>1, OneBufferLess
    <3>3. QED
      BY <1>4, <3>1, <3>2
  <2>8. QED
    BY <1>1, <1>3, <1>4, <2>1, <2>6, <2>7 DEF FullReplies
<1>7. CASE AnswerEnds
  <2>1. thread' \in Ended /\ UNCHANGED << consumed, yielded, filled, open >>
    BY <1>4, <1>7, Undisturbed DEF AnswerEnds, ReadBoxedEnds, caller, Ended, Orderly
  <2>2. QED
    BY <1>1, <1>3, <1>4, <2>1 DEF FullReplies, Running
<1>8. CASE PollPeer \/ Forward
  <2>1. /\ UNCHANGED << consumed, yielded, open >> /\ thread' # "write_socket"
        /\ thread \in {"read_socket"} \cup Polling
    BY <1>8 DEF PollPeer, Poll, Forward, ReadSocket, caller, Ended, Polling
  <2>2. Running
    BY <1>4, <2>1 DEF Running, Ended, Polling
  <2>3. yielded = << >>
    BY <1>4, <2>1, <2>2 DEF Polling
  <2>4. QED
    BY <1>1, <1>3, <1>4, <2>1, <2>3 DEF FullReplies
<1>9. CASE WriteSocket
  <2>1. /\ thread = "write_socket" /\ UNCHANGED << filled, consumed, yielded, open >>
        /\ thread' \in {"write_socket", "broken", IF filled THEN "read_boxed" ELSE "read_socket"}
    BY <1>9, WriteSocketPlaces DEF caller
  <2>2. Running
    BY <1>4, <2>1 DEF Running, Ended
  <2>3. filled
    BY <1>4, <2>1, <2>2
  <2>4. QED
    BY <1>1, <1>3, <1>4, <2>1, <2>3 DEF FullReplies, Running, Ended
<1>10. CASE WriteBoxed
  <2>1. /\ thread = "write_boxed" /\ UNCHANGED << yielded, open >>
        /\ thread' # "write_socket"
        /\ \/ UNCHANGED consumed
           \/ /\ Len(consumed') \in Nat /\ Len(chunk') \in Nat
              /\ Len(consumed') + Len(chunk') = Len(consumed) + Len(chunk)
    BY <1>10, WriteBoxedCounts DEF caller, Ended
  <2>2. Running
    BY <1>4, <2>1 DEF Running, Ended
  <2>3. yielded = << >> /\ Len(delivered) = 0
    BY <1>2, <1>4, <2>1, <2>2
  <2>4. Len(accepted) <= request * (1 - First)
    <3>1. /\ Len(accepted) <= Asked /\ Asked \in Nat
          /\ Asked <= request * Least(Rounds, (Len(delivered) \div reply) + (1 - First))
      BY <2>2, Polite
    <3>2. Len(delivered) \div reply = 0
      <4>1. (reply * 0) \div reply = 0
        BY ONLY <1>2, Multiple
      <4>2. QED
        BY <1>2, <2>3, <4>1
    <3>3. Least(Rounds, (Len(delivered) \div reply) + (1 - First)) = 1 - First
      <4>1. (Len(delivered) \div reply) + (1 - First) = 1 - First
        BY <1>3, <3>2
      <4>2. 1 - First <= Rounds /\ Rounds \in Nat /\ 1 - First \in Nat
        BY <1>2, <1>3
      <4>3. Least(Rounds, 1 - First) = 1 - First
        BY ONLY <4>2 DEF Least
      <4>4. QED
        BY <4>1, <4>3
    <3>4. request * (1 - First) \in Nat
      BY ONLY <1>2, <1>3, Multiple
    <3>5. QED
      BY <1>2, <3>1, <3>3, <3>4
  <2>5. Len(consumed') <= request * (1 - First)
    <3>1. (Len(consumed) + Len(chunk)) + Len(toThread) = Len(accepted)
          /\ Len(chunk) \in Nat /\ Len(toThread) \in Nat
      BY <2>1, Counts DEF Outbound
    <3>2. request * (1 - First) \in Nat
      BY ONLY <1>2, <1>3, Multiple
    <3>3. QED
      BY <1>2, <1>4, <2>1, <2>4, <3>1, <3>2
  <2>6. QED
    BY <1>1, <1>3, <1>4, <2>1, <2>3, <2>5 DEF FullReplies
<1>11. ~Leave
  <2>1. reply * Rounds \in Nat
    BY <1>2
  <2>2. QED
    BY <1>2, <1>5, <2>1 DEF Leave, Done
<1>12. CASE ConvCaller
  <2>1. UNCHANGED << relay, open >>
    BY <1>11, <1>12, Aside DEF Put
  <2>2. QED
    BY <1>1, <1>3, <1>4, <2>1 DEF FullReplies, relay, Running
<1>13. QED
  <2>1. ConvRelay => ~ReadSocketEnds
    BY <1>4, Undisturbed
  <2>2. QED
    BY <1>6, <1>7, <1>8, <1>9, <1>10, <1>12, <2>1 DEF ConvNext, ConvRelay

LEMMA ConvInvInit == ConvInit => Inv /\ ConvInv
<1>1. SUFFICES ASSUME ConvInit PROVE Inv /\ ConvInv
  OBVIOUS
<1>2. Inv
  BY <1>1, InvInit DEF ConvInit
<1>3. /\ request \in Nat \ {0} /\ reply \in Nat \ {0} /\ Rounds \in Nat
      /\ RelayBuf \in Nat \ {0}
  BY <1>1, MessageAssumption DEF ConvInit
<1>4. /\ toThread = << >> /\ accepted = << >> /\ consumed = << >> /\ yielded = << >>
      /\ delivered = << >> /\ buffered = 0 /\ call = "idle" /\ open
      /\ thread = CASE origin = "read_first" -> "read_boxed"
                    [] origin = "auto" -> "poll_socket"
                    [] OTHER -> "read_socket"
      /\ origin = "read_first" => peerFirst
      /\ origin = "write_first" => ~peerFirst
      /\ origin \in {"read_first", "write_first", "auto"} /\ First \in {0, 1}
  BY <1>1 DEF ConvInit, Init, First
<1>5. Len(<< >>) = 0
  BY EmptySeq
<1>6. /\ 0 \div request = 0 /\ 0 \div reply = 0 /\ 0 % request = 0 /\ 0 % RelayBuf = 0
  <2>1. /\ (request * 0) \div request = 0 /\ (reply * 0) \div reply = 0
        /\ (request * 0) % request = 0 /\ (RelayBuf * 0) % RelayBuf = 0
    BY ONLY <1>3, Multiple
  <2>2. request * 0 = 0 /\ reply * 0 = 0 /\ RelayBuf * 0 = 0
    BY ONLY <1>3
  <2>3. QED
    BY <2>1, <2>2
<1>7. /\ PeerHas = reply * Least(Rounds, First)
      /\ ToSay = request * Least(Rounds, 1 - First)
  <2>1. 1 - First = (IF ~peerFirst THEN 1 ELSE 0) /\ First = (IF peerFirst THEN 1 ELSE 0)
    BY <1>1 DEF First, ConvInit
  <2>2. /\ PeerHas = reply * Least(Rounds, 0 + First) - 0
        /\ ToSay = request * Least(Rounds, 0 + (1 - First)) - 0 - 0
    BY <1>4, <1>5, <1>6, <2>1 DEF PeerHas, ToSay, Allowed
  <2>3. Least(Rounds, First) \in Nat /\ Least(Rounds, 1 - First) \in Nat
    BY <1>3, <1>4 DEF Least
  <2>4. reply * Least(Rounds, First) \in Nat /\ request * Least(Rounds, 1 - First) \in Nat
    BY ONLY <1>3, <2>3, Multiple
  <2>5. 0 + First = First /\ 0 + (1 - First) = 1 - First
    BY <1>4
  <2>6. QED
    BY <2>2, <2>4, <2>5
<1>8. /\ PeerHas \in Nat /\ ToSay \in Nat
      /\ PeerHas \in {0, reply} /\ (PeerHas = 0 => First = 0 \/ Rounds = 0)
      /\ First = 0 => PeerHas = 0
  <2>1. Least(Rounds, First) \in Nat /\ Least(Rounds, 1 - First) \in Nat
        /\ Least(Rounds, First) \in {0, 1}
        /\ (Least(Rounds, First) = 0 => First = 0 \/ Rounds = 0)
        /\ (First = 0 => Least(Rounds, First) = 0)
    BY <1>3, <1>4 DEF Least
  <2>2. reply * Least(Rounds, First) \in Nat /\ request * Least(Rounds, 1 - First) \in Nat
    BY ONLY <1>3, <2>1, Multiple
  <2>3. reply * 0 = 0 /\ reply * 1 = reply
    BY <1>3
  <2>4. QED
    BY <1>3, <1>7, <2>1, <2>2, <2>3
<1>9. ConvTypes
  BY <1>1, <1>4, <1>8 DEF ConvTypes, ConvInit
<1>10. InTurn
  BY <1>4, <1>5, <1>6, <1>8 DEF InTurn, Leaving
<1>11. Framed => Cued
  <2>1. thread = "read_boxed" => First = 1
    BY <1>4 DEF First
  <2>2. origin = "write_first" => First = 0
    BY <1>4 DEF First
  <2>3. thread \in {"read_boxed", "poll_socket", "read_socket"}
        /\ (thread = "read_socket" => PeerHas = 0)
    BY <1>4, <1>8, <2>2
  <2>4. ASSUME thread = "read_boxed", PeerHas = 0
        PROVE  Len(consumed) = request * Rounds /\ Len(yielded) = reply * Rounds
    <3>1. Rounds = 0
      BY <1>8, <2>1, <2>4
    <3>2. request * 0 = 0 /\ reply * 0 = 0
      BY <1>3
    <3>3. QED
      BY <1>4, <1>5, <3>1, <3>2
  <2>5. PeerHas > 0 => PeerHas % RelayBuf = reply % RelayBuf
    BY <1>8
  <2>6. QED
    BY <1>4, <2>3, <2>4, <2>5 DEF Cued
<1>12. Unflushed
  BY <1>4 DEF Unflushed, Writing
<1>13. FullRequests
  <2>1. (IF peerFirst THEN 1 ELSE 0) = First /\ reply * First \in Nat
    BY <1>3, <1>4 DEF First
  <2>2. QED
    BY <1>4, <1>5, <1>6, <2>1 DEF FullRequests
<1>14. FullReplies
  <2>1. request * (IF peerFirst THEN 0 ELSE 1) \in Nat
    BY <1>3
  <2>2. QED
    BY <1>4, <1>5, <1>6, <2>1 DEF FullReplies
<1>15. QED
  BY <1>2, <1>9, <1>10, <1>11, <1>12, <1>13, <1>14 DEF ConvInv

LEMMA ConvInvStep == (Inv /\ ConvInv) /\ [ConvNext]_all => (Inv /\ ConvInv)'
<1>1. SUFFICES ASSUME Inv, ConvInv, [ConvNext]_all PROVE (Inv /\ ConvInv)'
  OBVIOUS
<1>2. CASE UNCHANGED all
  <2>1. Inv'
    BY <1>1, <1>2, InvStep DEF all
  <2>2. UNCHANGED << First, PeerHas, ToSay, ToHear, Leaving >>
    BY <1>2 DEF all, vars, terms, caller, relay, First, PeerHas, ToSay, ToHear, Allowed, Leaving
  <2>3. ConvTypes'
    BY <1>1, <1>2, <2>2 DEF ConvInv, ConvTypes, all, vars, terms, caller
  <2>4. UNCHANGED << InTurn, Cued, Unflushed, FullRequests, FullReplies >>
    BY <1>2, <2>2 DEF InTurn, Cued, Unflushed, FullRequests, FullReplies, Running, all, vars,
       terms, caller, relay
  <2>5. UNCHANGED << Orderly, Running, Framed, method, request, reply >>
    BY <1>2 DEF Orderly, Running, Framed, Uneven, all, vars, terms, caller, relay
  <2>6. QED
    BY <1>1, <2>1, <2>3, <2>4, <2>5 DEF ConvInv
<1>3. CASE ConvNext
  <2>1. ConvTypes
    BY <1>1 DEF ConvInv
  <2>2. [Next]_vars /\ UNCHANGED << terms, origin, signals >>
    BY <1>1, <1>3, <2>1, ConvStep
  <2>3. Inv'
    BY <1>1, <2>2, InvStep
  <2>4. ConvTypes'
    BY <1>1, <1>3, <2>1, ConvTypesKept
  <2>5. /\ Orderly' <=> Orderly
        /\ Framed' <=> Framed
        /\ method' = method /\ request' = request /\ reply' = reply
    BY <2>2 DEF Orderly, Framed, Uneven, terms
  <2>6. Running' => Running
    BY <1>1, <1>3 DEF Running, ConvNext, ConvRelay, ConvCaller, Answer, AnswerEnds, PollPeer,
       Poll, Forward, ReadBoxed, ReadBoxedEnds, ReadSocket, WriteSocket, ReadSocketEnds,
       WriteBoxed, Ask, FlushFirst, Listen, Carry, Leave, BeginWrite, BeginRead, Put, PutFails,
       Get, GetEnd, Drop, vars, caller, relay, Ended, Polling
  <2>7. Orderly /\ Running => InTurn
    BY <1>1 DEF ConvInv
  <2>8. Orderly' /\ Running' => InTurn'
    BY <1>1, <1>3, <2>1, <2>5, <2>6, <2>7, InTurnKept
  <2>9. Framed' /\ Running' => Cued'
    <3>1. Framed => Orderly
      BY DEF Framed, Orderly
    <3>2. Framed /\ Running => Cued
      BY <1>1 DEF ConvInv
    <3>3. QED
      BY <1>1, <1>3, <2>1, <2>5, <2>6, <2>7, <3>1, <3>2, CuedKept
  <2>10. ASSUME Orderly', Rounds > 1
         PROVE  /\ method' = "fill_buf" => Unflushed'
                /\ method' = "read" /\ request' % RelayBuf = 0 => FullRequests'
                /\ method' = "read" /\ reply' % RelayBuf = 0 => FullReplies'
    <3>1. /\ Orderly
          /\ method = "fill_buf" => Unflushed
          /\ method = "read" /\ request % RelayBuf = 0 => FullRequests
          /\ method = "read" /\ reply % RelayBuf = 0 => FullReplies
      BY <1>1, <2>5, <2>10 DEF ConvInv
    <3>2. Running => InTurn
      BY <2>7, <3>1
    <3>3. method = "fill_buf" => Unflushed'
      BY <1>1, <1>3, <2>1, <2>10, <3>1, UnflushedKept
    <3>4. method = "read" /\ request % RelayBuf = 0 => FullRequests'
      BY <1>1, <1>3, <2>1, <2>10, <3>1, <3>2, FullRequestsKept
    <3>5. method = "read" /\ reply % RelayBuf = 0 => FullReplies'
      BY <1>1, <1>3, <2>1, <2>10, <3>1, <3>2, FullRepliesKept
    <3>6. QED
      BY <2>5, <3>3, <3>4, <3>5
  <2>11. QED
    BY <2>3, <2>4, <2>8, <2>9, <2>10 DEF ConvInv
<1>4. QED
  BY <1>1, <1>2, <1>3

(* The invariant of a conversation, together with that of the relay.       *)
THEOREM ConversationInvariant == ConvSpec => [](Inv /\ ConvInv)
BY ConvInvInit, ConvInvStep, PTL DEF ConvSpec

(* In a framed conversation the caller, the relay and the peer never all   *)
(* wait for each other: the relay's guess whose turn it is, made from the  *)
(* length of a read, is right.                                             *)
THEOREM StallHasCauseCorrect == ConvSpec => []StallHasCause
<1>1. Inv /\ ConvInv => StallHasCause
  <2>1. SUFFICES ASSUME Inv, ConvInv, Stalled, Framed PROVE FALSE
    BY DEF StallHasCause
  <2>2. open /\ call = "read" /\ toCaller = << >>
    BY <2>1 DEF Stalled, Inv, Endings
  <2>3. thread \in {"read_boxed", "read_socket"} \cup Polling /\ Running /\ method = "read"
    BY <2>1, <2>2 DEF Stalled, Running, Ended, Polling, Framed
  <2>4. ConvTypes /\ InTurn /\ Cued
    BY <2>1, <2>3 DEF ConvInv, Framed, Orderly
  <2>5. ToHear > 0 /\ buffered = 0
    BY <2>2, <2>3, <2>4 DEF InTurn
  <2>6. Outbound = << >> /\ Inbound = << >>
    BY <2>3 DEF Outbound, Inbound, Polling
  <2>7. /\ Len(delivered) = Len(yielded) /\ Len(yielded) \in Nat
        /\ Len(consumed) + Len(toThread) = Len(accepted) /\ Len(toThread) \in Nat
        /\ Len(consumed) \in Nat /\ Len(accepted) \in Nat
    <3>1. Len(<< >>) = 0
      BY EmptySeq
    <3>2. QED
      BY <2>1, <2>2, <2>6, <3>1, Counts
  <2> DEFINE m == Least(Rounds, (Len(consumed) \div request) + First)
             n == Least(Rounds, ((Len(accepted) + buffered) \div request) + First)
  <2>8. /\ PeerHas = reply * m - Len(yielded) /\ ToHear = reply * n - Len(delivered)
        /\ reply \in Nat \ {0} /\ Rounds \in Nat /\ First \in {0, 1}
        /\ (Len(accepted) + buffered) \div request \in Nat /\ reply * m \in Nat
    BY <2>1, <2>4, Shares
  <2>9. n \in Nat /\ n <= Rounds
    <3>1. ((Len(accepted) + buffered) \div request) + First \in Nat
      BY ONLY <2>8
    <3>2. QED
      BY <2>8, <3>1 DEF Least
  <2>10. reply * n \in Nat /\ reply * n <= reply * Rounds /\ reply * Rounds \in Nat
    <3> HIDE DEF n, m
    <3>1. QED
      BY ONLY <2>8, <2>9, Multiple, Monotone
  <2>11. CASE PeerHas = 0 /\ toThread = << >>
    <3>1. Len(toThread) = 0
      BY <2>11, EmptySeq
    <3>2. Len(accepted) + buffered = Len(consumed)
      BY <2>5, <2>7, <3>1
    <3>3. m = n
      BY <3>2
    <3> HIDE DEF m, n
    <3>4. QED
      BY <2>5, <2>7, <2>8, <2>11, <3>3
  <2>12. CASE thread = "read_boxed" /\ PeerHas = 0
    <3>1. Len(yielded) = reply * Rounds
      BY <2>4, <2>12 DEF Cued
    <3> HIDE DEF m, n
    <3>2. QED
      BY <2>5, <2>7, <2>8, <2>10, <3>1
  <2>13. ~(thread = "read_boxed" /\ PeerHas = 0) => PeerHas = 0 /\ toThread = << >>
    BY <2>1, <2>4 DEF Stalled, Cued
  <2>14. QED
    BY <2>11, <2>12, <2>13
<1>2. QED
  BY <1>1, ConversationInvariant, PTL

(* With whole messages and without signals, only framed conversations of   *)
(* two rounds or more get through: a message that fills the relay's buffer *)
(* or a wait without a flush is the last.                                  *)
THEOREM OthersStallCorrect == ConvSpec => []OthersStall
<1>1. Inv /\ ConvInv => OthersStall
  <2>1. SUFFICES ASSUME Inv, ConvInv, Done, whole, ~signals, Rounds > 1, ~Framed PROVE FALSE
    BY DEF OthersStall
  <2>2. ConvTypes /\ Orderly
    BY <2>1 DEF ConvInv, Orderly
  <2>3. /\ request \in Nat \ {0} /\ reply \in Nat \ {0} /\ Rounds \in Nat /\ First \in {0, 1}
        /\ Len(accepted) = request * Rounds /\ Len(delivered) = reply * Rounds
    BY <2>1, <2>2, Shares DEF Done
  <2>4. /\ Len(yielded) \in Nat /\ Len(delivered) \in Nat /\ Len(delivered) <= Len(yielded)
        /\ (accepted = << >> => Len(accepted) = 0)
    BY <2>1, Counts
  <2>5. reply * Rounds <= Len(yielded)
    BY <2>3, <2>4
  <2>6. CASE method = "fill_buf"
    <3>1. Len(accepted) = 0
      BY <2>1, <2>2, <2>4, <2>6 DEF ConvInv, Unflushed
    <3>2. request * 1 <= request * Rounds /\ request * 1 = request
      <4>1. 1 <= Rounds
        BY <2>1, <2>3
      <4>2. QED
        BY <2>3, <4>1, Monotone
    <3>3. QED
      BY <2>3, <3>1, <3>2
  <2>7. CASE method = "read" /\ request % RelayBuf = 0
    <3>1. Len(yielded) <= reply * First
      BY <2>1, <2>2, <2>7 DEF ConvInv, FullRequests, First
    <3>2. reply * First <= reply * 1 /\ reply * 2 <= reply * Rounds /\ reply * 1 = reply
          /\ reply * 2 = reply + reply /\ reply * First \in Nat /\ reply * Rounds \in Nat
      <4>1. 2 <= Rounds /\ First <= 1 /\ First \in Nat
        BY <2>1, <2>3
      <4>2. QED
        BY ONLY <2>3, <4>1, Monotone, Multiple
    <3>3. QED
      BY <2>3, <2>4, <2>5, <3>1, <3>2
  <2>8. CASE method = "read" /\ reply % RelayBuf = 0
    <3>1. Len(consumed) <= request * (1 - First)
      BY <2>1, <2>2, <2>8 DEF ConvInv, FullReplies, First
    <3>2. 1 - First \in {0, 1} /\ (1 - First) + First <= 1
      BY ONLY <2>3
    <3>3. Len(yielded) < reply * Rounds
      BY <2>1, <2>2, <3>1, <3>2, Share
    <3>4. reply * Rounds \in Nat
      BY ONLY <2>3, Multiple
    <3>5. QED
      BY <2>4, <2>5, <3>3, <3>4
  <2>9. QED
    BY <2>1, <2>2, <2>6, <2>7, <2>8 DEF Framed, Uneven, ConvTypes
<1>2. QED
  BY <1>1, ConversationInvariant, PTL
=============================================================================
