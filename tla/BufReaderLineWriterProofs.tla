--------------------- MODULE BufReaderLineWriterProofs ---------------------
(***************************************************************************)
(* Proofs about BufReaderLineWriter: the bytes written are conserved, and  *)
(* the lines among them do not stay behind unseen, whatever the device     *)
(* answers.                                                                *)
(***************************************************************************)
EXTENDS BufReaderLineWriter, SliceLemmas

-----------------------------------------------------------------------------
(* The frames a call can be at.                                            *)

Parts == {"write", "write_all", "put", "put_all"}
Bypasses == {"line_write", "line_write_vectored", "line_write_all"}

(* A call at a frame is in progress, and at no other frame.                *)
LEMMA Busy ==
  ASSUME Control, NEW op, At(op)
  PROVE  call # "idle" /\ todo # << >> /\ \A p : At(p) => p = op
BY DEF Control, At, WriteCalls

(* The backend's write is all there is left of the call, on data without a *)
(* line end; or it puts lines behind what is buffered, to be flushed.      *)
LEMMA AtPart ==
  ASSUME Control, NEW op \in Parts, At(op)
  PROVE  /\ call \in WriteCalls /\ op \in {call, Put(call)}
         /\ \/ todo = << Do(op, Len(arg)) >> /\ ~Holds(arg, NL)
            \/ /\ call = "write_all"
               /\ \E i \in 1..Len(arg) :
                     /\ IsLineEnd(arg, i)
                     /\ todo = << Do(op, i), Do("flush_buf", 0), Do("write_all", Len(arg) - i) >>
<1>1. todo # << >> /\ Head(todo).op = op
  BY DEF At
<1>2. CASE call \in WriteCalls /\ todo \in PartialStages(call, Len(arg)) /\ ~Holds(arg, NL)
  BY <1>1, <1>2 DEF PartialStages, WriteStages, WriteCalls, Do, Put, Parts
<1>3. CASE /\ call = "write"
           /\ \E i \in 1..Len(arg) :
                 \/ todo \in LineStages("line_write", i)
                 \/ \E m \in i..Len(arg) : todo \in LineStages("line_write_vectored", m)
  BY <1>1, <1>3 DEF LineStages, Do, Parts
<1>4. CASE /\ call = "write_all"
           /\ \E i \in 1..Len(arg) :
                 IsLineEnd(arg, i) /\ todo \in LineAllStages(i, Len(arg) - i)
  <2>1. PICK i \in 1..Len(arg) :
           IsLineEnd(arg, i) /\ todo \in LineAllStages(i, Len(arg) - i)
    BY <1>4
  <2>2. todo = << Do(op, i), Do("flush_buf", 0), Do("write_all", Len(arg) - i) >>
        /\ op \in {call, Put(call)}
    BY <1>1, <1>4, <2>1 DEF LineAllStages, Do, Parts, Put
  <2>3. QED
    BY <1>4, <2>1, <2>2 DEF WriteCalls
<1>5. CASE call = "flush" /\ todo \in FlushStages
  BY <1>1, <1>5 DEF FlushStages, Do, Parts
<1>6. CASE call = "read" /\ todo \in ReadStages(LastN)
  BY <1>1, <1>6 DEF ReadStages, Do, Parts
<1>7. CASE call = "read_until" /\ todo \in UntilStages(LastN)
  BY <1>1, <1>7 DEF UntilStages, Do, Parts
<1>8. CASE todo = << Do("fill_buf", 0) >> \/ todo = << Do("flush_buf", 0) >>
  BY <1>1, <1>8 DEF Do, Parts
<1>9. QED
  BY <1>1, <1>2, <1>3, <1>4, <1>5, <1>6, <1>7, <1>8 DEF Control

(* One attempt on the lines, at whose end or behind it the device stops.   *)
LEMMA AtLines ==
  ASSUME Control, NEW op \in {"line_write", "line_write_vectored"}, At(op)
  PROVE  /\ call = "write"
         /\ \E i \in 1..Len(arg) : \E m \in i..Len(arg) :
               /\ IsLineEnd(arg, i) /\ todo = << Do(op, m) >>
               /\ op = "line_write" => m = i
<1>1. todo # << >> /\ Head(todo).op = op
  BY DEF At
<1>2. CASE call \in WriteCalls /\ todo \in PartialStages(call, Len(arg))
  BY <1>1, <1>2 DEF PartialStages, WriteStages, WriteCalls, Do, Put
<1>3. CASE /\ call = "write"
           /\ \E i \in 1..Len(arg) :
                 /\ IsLineEnd(arg, i)
                 /\ \/ todo \in LineStages("line_write", i)
                    \/ \E m \in i..Len(arg) : todo \in LineStages("line_write_vectored", m)
  <2>1. PICK i \in 1..Len(arg) :
           /\ IsLineEnd(arg, i)
           /\ \/ todo \in LineStages("line_write", i)
              \/ \E m \in i..Len(arg) : todo \in LineStages("line_write_vectored", m)
    BY <1>3
  <2>2. CASE todo \in LineStages("line_write", i)
    <3>1. todo = << Do("line_write", i) >> /\ op = "line_write"
      BY <1>1, <2>2 DEF LineStages, Do
    <3>2. i \in i..Len(arg)
      BY <2>1
    <3>3. QED
      BY <1>3, <2>1, <3>1, <3>2
  <2>3. CASE \E m \in i..Len(arg) : todo \in LineStages("line_write_vectored", m)
    <3>1. PICK m \in i..Len(arg) : todo \in LineStages("line_write_vectored", m)
      BY <2>3
    <3>2. todo = << Do("line_write_vectored", m) >> /\ op = "line_write_vectored"
      BY <1>1, <3>1 DEF LineStages, Do
    <3>3. QED
      BY <1>3, <2>1, <3>2
  <2>4. QED
    BY <2>1, <2>2, <2>3
<1>4. CASE \E i \in 1..Len(arg) : todo \in LineAllStages(i, Len(arg) - i)
  BY <1>1, <1>4 DEF LineAllStages, Do
<1>5. CASE call = "flush" /\ todo \in FlushStages
  BY <1>1, <1>5 DEF FlushStages, Do
<1>6. CASE call = "read" /\ todo \in ReadStages(LastN)
  BY <1>1, <1>6 DEF ReadStages, Do
<1>7. CASE call = "read_until" /\ todo \in UntilStages(LastN)
  BY <1>1, <1>7 DEF UntilStages, Do
<1>8. CASE todo = << Do("fill_buf", 0) >> \/ todo = << Do("flush_buf", 0) >>
  BY <1>1, <1>8 DEF Do
<1>9. QED
  BY <1>1, <1>2, <1>3, <1>4, <1>5, <1>6, <1>7, <1>8 DEF Control

(* write_all of lines to the device, with the part behind them to follow.  *)
LEMMA AtLineWriteAll ==
  ASSUME Control, At("line_write_all")
  PROVE  /\ call = "write_all"
         /\ \E i \in 1..Len(arg) :
               /\ IsLineEnd(arg, i)
               /\ todo = << Do("line_write_all", i), Do("write_all", Len(arg) - i) >>
<1>1. todo # << >> /\ Head(todo).op = "line_write_all"
  BY DEF At
<1>2. CASE call \in WriteCalls /\ todo \in PartialStages(call, Len(arg))
  BY <1>1, <1>2 DEF PartialStages, WriteStages, WriteCalls, Do, Put
<1>3. CASE \E i \in 1..Len(arg) :
              \/ todo \in LineStages("line_write", i)
              \/ \E m \in i..Len(arg) : todo \in LineStages("line_write_vectored", m)
  BY <1>1, <1>3 DEF LineStages, Do
<1>4. CASE /\ call = "write_all"
           /\ \E i \in 1..Len(arg) :
                 IsLineEnd(arg, i) /\ todo \in LineAllStages(i, Len(arg) - i)
  <2>1. PICK i \in 1..Len(arg) :
           IsLineEnd(arg, i) /\ todo \in LineAllStages(i, Len(arg) - i)
    BY <1>4
  <2>2. todo = << Do("line_write_all", i), Do("write_all", Len(arg) - i) >>
    BY <1>1, <2>1 DEF LineAllStages, Do
  <2>3. QED
    BY <1>4, <2>1, <2>2
<1>5. CASE call = "flush" /\ todo \in FlushStages
  BY <1>1, <1>5 DEF FlushStages, Do
<1>6. CASE call = "read" /\ todo \in ReadStages(LastN)
  BY <1>1, <1>6 DEF ReadStages, Do
<1>7. CASE call = "read_until" /\ todo \in UntilStages(LastN)
  BY <1>1, <1>7 DEF UntilStages, Do
<1>8. CASE todo = << Do("fill_buf", 0) >> \/ todo = << Do("flush_buf", 0) >>
  BY <1>1, <1>8 DEF Do
<1>9. QED
  BY <1>1, <1>2, <1>3, <1>4, <1>5, <1>6, <1>7, <1>8 DEF Control

(* The flush of the device and the frames of a read are not a write's.     *)
LEMMA AtOther ==
  ASSUME Control, NEW op \in {"inner_flush", "read", "fill_buf", "copy", "until"}, At(op)
  PROVE  call \notin WriteCalls /\ call # "idle"
<1>1. todo # << >> /\ Head(todo).op = op /\ call # "idle"
  BY Busy DEF At
<1>2. CASE call \in WriteCalls /\ todo \in PartialStages(call, Len(arg))
  BY <1>1, <1>2 DEF PartialStages, WriteStages, WriteCalls, Do, Put
<1>3. CASE \E i \in 1..Len(arg) :
              \/ todo \in LineStages("line_write", i)
              \/ \E m \in i..Len(arg) : todo \in LineStages("line_write_vectored", m)
  BY <1>1, <1>3 DEF LineStages, Do
<1>4. CASE \E i \in 1..Len(arg) : todo \in LineAllStages(i, Len(arg) - i)
  BY <1>1, <1>4 DEF LineAllStages, Do
<1>5. QED
  BY <1>1, <1>2, <1>3, <1>4 DEF Control, WriteCalls

(* The other way round, also after a step.                                 *)
LEMMA NoPart ==
  ASSUME Control', call' \notin WriteCalls
  PROVE  \A op \in Parts \cup Bypasses : ~At(op)'
<1> SUFFICES ASSUME NEW op \in Parts \cup Bypasses, At(op)' PROVE FALSE
  OBVIOUS
<1>1. todo' # << >> /\ Head(todo').op = op
  BY DEF At
<1>2. CASE todo' \in FlushStages
  BY <1>1, <1>2 DEF FlushStages, Do, Parts, Bypasses
<1>3. CASE todo' \in ReadStages(LastN')
  BY <1>1, <1>3 DEF ReadStages, Do, Parts, Bypasses
<1>4. CASE todo' \in UntilStages(LastN')
  BY <1>1, <1>4 DEF UntilStages, Do, Parts, Bypasses
<1>5. CASE todo' = << Do("fill_buf", 0) >> \/ todo' = << Do("flush_buf", 0) >>
  BY <1>1, <1>5 DEF Do, Parts, Bypasses
<1>6. QED
  BY <1>1, <1>2, <1>3, <1>4, <1>5 DEF Control, WriteCalls

-----------------------------------------------------------------------------
(* The next frame of a call.                                               *)

(* A call that does not write goes on with its next frame.                 *)
LEMMA TailStays ==
  ASSUME Control, call \notin WriteCalls, call # "idle", Len(todo) # 1,
         todo' = Tail(todo), UNCHANGED << call, arg >>
  PROVE  Control' /\ todo' # << >>
<1> DEFINE f == Do("flush_buf", 0)  g == Do("inner_flush", 0)  h == Do("fill_buf", 0)
<1>1. CASE call = "flush" /\ todo \in FlushStages
  <2>0. call' = "flush"
    BY <1>1
  <2>1. todo = << f, g >> \/ todo = << g >>
    BY <1>1 DEF FlushStages
  <2>2. CASE todo = << g >>
    BY <2>2
  <2>3. CASE todo = << f, g >>
    <3>1. todo' = << g >>
      BY <2>3
    <3>2. todo' \in FlushStages
      BY <3>1 DEF FlushStages
    <3>3. QED
      BY ONLY <2>0, <3>1, <3>2 DEF Control
  <2>4. QED
    BY <2>1, <2>2, <2>3
<1>2. CASE call = "read" /\ todo # << >> /\ todo \in ReadStages(LastN)
  <2>0. call' = "read"
    BY <1>2
  <2>1. PICK n : /\ n = LastN
                 /\ \/ todo = << f, g, Do("read", n) >> \/ todo = << g, Do("read", n) >>
                    \/ todo = << Do("read", n) >>
                    \/ todo = << h, Do("copy", n) >> \/ todo = << Do("copy", n) >>
    BY <1>2 DEF ReadStages
  <2>2. CASE todo = << Do("read", n) >> \/ todo = << Do("copy", n) >>
    BY <2>2
  <2>3. CASE todo = << f, g, Do("read", n) >>
    <3>1. todo' = << g, Do("read", n) >>
      BY <2>3
    <3>2. LastN' = n
      BY ONLY <3>1 DEF LastN, Do
    <3>3. QED
      BY ONLY <2>0, <3>1, <3>2 DEF Control, ReadStages
  <2>4. CASE todo = << g, Do("read", n) >>
    <3>1. todo' = << Do("read", n) >>
      BY <2>4
    <3>2. LastN' = n
      BY ONLY <3>1 DEF LastN, Do
    <3>3. QED
      BY ONLY <2>0, <3>1, <3>2 DEF Control, ReadStages
  <2>5. CASE todo = << h, Do("copy", n) >>
    <3>1. todo' = << Do("copy", n) >>
      BY <2>5
    <3>2. LastN' = n
      BY ONLY <3>1 DEF LastN, Do
    <3>3. QED
      BY ONLY <2>0, <3>1, <3>2 DEF Control, ReadStages
  <2>6. QED
    BY <2>1, <2>2, <2>3, <2>4, <2>5
<1>3. CASE call = "read_until" /\ todo # << >> /\ todo \in UntilStages(LastN)
  <2>0. call' = "read_until"
    BY <1>3
  <2>1. PICK n : /\ n = LastN
                 /\ \/ todo = << f, g, h, Do("until", n) >>
                    \/ todo = << g, h, Do("until", n) >>
                    \/ todo = << h, Do("until", n) >>
                    \/ todo = << Do("until", n) >>
    BY <1>3 DEF UntilStages
  <2>2. CASE todo = << Do("until", n) >>
    BY <2>2
  <2>3. CASE todo = << f, g, h, Do("until", n) >>
    <3>1. todo' = << g, h, Do("until", n) >>
      BY <2>3
    <3>2. LastN' = n
      BY ONLY <3>1 DEF LastN, Do
    <3>3. QED
      BY ONLY <2>0, <3>1, <3>2 DEF Control, UntilStages
  <2>4. CASE todo = << g, h, Do("until", n) >>
    <3>1. todo' = << h, Do("until", n) >>
      BY <2>4
    <3>2. LastN' = n
      BY ONLY <3>1 DEF LastN, Do
    <3>3. QED
      BY ONLY <2>0, <3>1, <3>2 DEF Control, UntilStages
  <2>5. CASE todo = << h, Do("until", n) >>
    <3>1. todo' = << Do("until", n) >>
      BY <2>5
    <3>2. LastN' = n
      BY ONLY <3>1 DEF LastN, Do
    <3>3. QED
      BY ONLY <2>0, <3>1, <3>2 DEF Control, UntilStages
  <2>6. QED
    BY <2>1, <2>2, <2>3, <2>4, <2>5
<1>4. CASE todo = << h >> \/ todo = << f >>
  BY <1>4
<1>5. QED
  BY <1>1, <1>2, <1>3, <1>4 DEF Control, WriteCalls

(* The buffer is flushed within a call.                                    *)
LEMMA AfterFlush ==
  ASSUME Control, At("flush_buf"), Len(todo) # 1, Len(arg) \in Nat,
         todo' = Tail(todo), UNCHANGED << call, arg >>
  PROVE  /\ Control' /\ todo' # << >>
         /\ (At("put")' \/ At("put_all")') => N' \in Nat
<1> DEFINE f == Do("flush_buf", 0)
<1>1. todo # << >> /\ Head(todo).op = "flush_buf" /\ call # "idle"
  BY Busy DEF At
<1>2. CASE call \in WriteCalls /\ todo \in PartialStages(call, Len(arg)) /\ ~Holds(arg, NL)
  <2>1. PICK op \in {call, Put(call)} : todo = << f, Do(op, Len(arg)) >>
    BY <1>1, <1>2 DEF PartialStages, WriteStages, WriteCalls, Do, Put
  <2>2. todo' = << Do(op, Len(arg)) >>
    BY <2>1
  <2>3. todo' \in PartialStages(call, Len(arg))
    BY <2>1, <2>2 DEF PartialStages, WriteStages
  <2>4. N' = Len(arg) /\ todo' # << >>
    BY ONLY <2>2 DEF N, Do
  <2>5. QED
    BY <1>2, <2>3, <2>4 DEF Control
<1>3. CASE /\ call = "write"
           /\ \E i \in 1..Len(arg) :
                 /\ IsLineEnd(arg, i)
                 /\ \/ todo \in LineStages("line_write", i)
                    \/ \E m \in i..Len(arg) : todo \in LineStages("line_write_vectored", m)
  <2>1. PICK i \in 1..Len(arg) :
           /\ IsLineEnd(arg, i)
           /\ \/ todo \in LineStages("line_write", i)
              \/ \E m \in i..Len(arg) : todo \in LineStages("line_write_vectored", m)
    BY <1>3
  <2>2. PICK op \in {"line_write", "line_write_vectored"}, m \in i..Len(arg) :
           /\ todo \in LineStages(op, m)
           /\ op = "line_write" => m = i
    <3>1. i \in i..Len(arg)
      BY <2>1
    <3>2. QED
      BY <2>1, <3>1
  <2>3. todo = << f, Do(op, m) >>
    BY ONLY <1>1, <2>2 DEF LineStages, Do
  <2>4. todo' = << Do(op, m) >>
    BY <2>3
  <2>5. todo' \in LineStages(op, m) /\ todo' # << >>
    BY ONLY <2>4 DEF LineStages
  <2>6. ~At("put")' /\ ~At("put_all")'
    BY <2>4 DEF At, Do
  <2>7. Control'
    <3>1. /\ call' = "write" /\ arg' = arg
      BY <1>3
    <3>2. CASE op = "line_write"
      <4>1. todo' \in LineStages("line_write", i)
        BY <2>2, <2>5, <3>2
      <4>2. QED
        BY ONLY <2>1, <3>1, <4>1 DEF Control
    <3>3. CASE op = "line_write_vectored"
      <4>1. todo' \in LineStages("line_write_vectored", m)
        BY <2>5, <3>3
      <4>2. QED
        BY ONLY <2>1, <2>2, <3>1, <4>1 DEF Control
    <3>4. QED
      BY <2>2, <3>2, <3>3
  <2>8. QED
    BY <2>5, <2>6, <2>7
<1>4. CASE /\ call = "write_all"
           /\ \E i \in 1..Len(arg) :
                 IsLineEnd(arg, i) /\ todo \in LineAllStages(i, Len(arg) - i)
  <2>1. PICK i \in 1..Len(arg) :
           IsLineEnd(arg, i) /\ todo \in LineAllStages(i, Len(arg) - i)
    BY <1>4
  <2>2. todo = << f, Do("put_all", i), f, Do("write_all", Len(arg) - i) >>
    BY <1>1, <2>1 DEF LineAllStages, Do
  <2>3. todo' = << Do("put_all", i), f, Do("write_all", Len(arg) - i) >>
    BY <2>2
  <2>4. todo' \in LineAllStages(i, Len(arg) - i)
    BY <2>3 DEF LineAllStages
  <2>5. N' = i /\ todo' # << >>
    BY ONLY <2>3 DEF N, Do
  <2>6. Control'
    <3>1. call' = "write_all" /\ arg' = arg
      BY <1>4
    <3>2. QED
      BY ONLY <2>1, <2>4, <3>1 DEF Control
  <2>7. QED
    BY <2>1, <2>5, <2>6
<1>5. CASE call \notin WriteCalls
  <2>1. Control' /\ todo' # << >>
    BY <1>1, <1>5, TailStays
  <2>2. ~At("put")' /\ ~At("put_all")'
    BY <1>5, <2>1, NoPart DEF Parts
  <2>3. QED
    BY <2>1, <2>2
<1>6. QED
  BY <1>1, <1>2, <1>3, <1>4, <1>5 DEF Control, WriteCalls

-----------------------------------------------------------------------------
(* What is placed, buffered and returned.                                  *)

LEMMA Sizes ==
  ASSUME WriteTypes
  PROVE  /\ Len(payload) \in Nat /\ Len(arg) \in Nat /\ Len(accepted) \in Nat
         /\ Len(sink) \in Nat /\ Len(writer_buf) \in Nat /\ written \in Nat
         /\ Remaining \in Seq(Byte) /\ Len(Remaining) = Len(writer_buf) - written
         /\ written = 0 => Remaining = writer_buf
BY LenProperties, SliceType, SliceEnds DEF WriteTypes, Remaining

(* A call that is not write_all has placed nothing before it returns.      *)
LEMMA NonePlaced ==
  ASSUME WriteTypes, Offered, Accounted, call # "write_all"
  PROVE  /\ Placed = 0 /\ arg = payload /\ Take(payload, Placed) = << >>
         /\ accepted = sink \o Remaining
<1>1. Placed = 0 /\ arg = payload
  BY Sizes DEF Offered, Placed, Moved
<1>2. Take(payload, Placed) = << >>
  BY <1>1, SliceEnds DEF WriteTypes
<1>3. accepted \o << >> = accepted
  BY ConcatEmptySeq DEF WriteTypes
<1>4. QED
  BY <1>1, <1>2, <1>3 DEF Accounted

(* Placing k bytes more.                                                   *)
LEMMA Placing ==
  ASSUME WriteTypes, Offered, NEW k \in 0..Len(arg)
  PROVE  /\ Placed + k \in 0..Len(payload) /\ Placed \in Nat
         /\ Moved(Skip(arg, k)) = Placed + k
         /\ Skip(arg, k) = Skip(payload, Placed + k)
         /\ Take(payload, Placed) \o Take(arg, k) = Take(payload, Placed + k)
         /\ Take(arg, k) \in Seq(Byte) /\ Skip(arg, k) \in Seq(Byte)
         /\ Len(Skip(arg, k)) = Len(arg) - k /\ Len(Take(arg, k)) = k
<1>1. Len(payload) \in Nat /\ Len(arg) \in Nat
  BY Sizes
<1>2. Placed \in 0..Len(payload) /\ arg = Skip(payload, Placed) /\ payload \in Seq(Byte)
  BY DEF Offered, WriteTypes
<1>3. Placed = Len(payload) - Len(arg)
  BY DEF Placed, Moved
<1> HIDE DEF Placed
<1>4. k \in 0..Len(payload) - Placed /\ Placed + k \in 0..Len(payload) /\ Placed \in Nat
  BY <1>1, <1>2, <1>3
<1>5. /\ Take(payload, Placed) \o Take(Skip(payload, Placed), k) = Take(payload, Placed + k)
      /\ Skip(Skip(payload, Placed), k) = Skip(payload, Placed + k)
  BY ONLY <1>2, <1>4, SliceAgain
<1>6. /\ Take(arg, k) \in Seq(Byte) /\ Len(Take(arg, k)) = k
      /\ Skip(arg, k) \in Seq(Byte) /\ Len(Skip(arg, k)) = Len(arg) - k
  BY SliceType DEF WriteTypes
<1>7. Moved(Skip(arg, k)) = Placed + k
  BY <1>1, <1>3, <1>4, <1>6 DEF Moved
<1>8. QED
  BY <1>2, <1>4, <1>5, <1>6, <1>7

(* What a call that returns with k bytes more has reported of them.        *)
LEMMA ReturnAccounts ==
  ASSUME WriteTypes, Offered, Accounted, NEW k \in 0..Len(arg), NEW kind,
         Return(kind, Placed + k),
         call = "write_all" \/ (call = "write" /\ kind = "ok") \/ k = 0
  PROVE  /\ accepted' \in Seq(Byte) /\ accepted' = (sink \o Remaining) \o Take(arg, k)
         /\ (call \in WriteCalls /\ kind = "ok")
              => Len(accepted') - (Placed + k) = Len(accepted)
<1>1. /\ Placed + k \in 0..Len(payload) /\ Placed \in Nat
      /\ Take(payload, Placed) \o Take(arg, k) = Take(payload, Placed + k)
      /\ Take(arg, k) \in Seq(Byte)
  BY Placing
<1>2. /\ payload \in Seq(Byte) /\ Len(payload) \in Nat /\ accepted \in Seq(Byte)
      /\ sink \in Seq(Byte) /\ Remaining \in Seq(Byte) /\ Len(accepted) \in Nat
  BY Sizes DEF WriteTypes
<1>3. Placed \in 0..Len(payload) /\ Take(payload, Placed) \in Seq(Byte)
  BY <1>2, SliceType DEF Offered
<1>4. Take(payload, Placed + k) \in Seq(Byte) /\ Len(Take(payload, Placed + k)) = Placed + k
  BY <1>1, <1>2, SliceType
<1> DEFINE f == Take(payload, Placed)  g == Take(arg, k)
<1>5. (accepted \o f) \o g = accepted \o Take(payload, Placed + k)
  <2>1. accepted \in Seq(Byte) /\ f \in Seq(Byte) /\ g \in Seq(Byte)
    BY <1>1, <1>2, <1>3
  <2>2. (accepted \o f) \o g = accepted \o (f \o g)
    BY ONLY <2>1, ConcatAssociative
  <2>3. QED
    BY <1>1, <2>2
<1>6. sink \o Remaining = accepted \o f
  BY DEF Accounted
<1>7. CASE call = "write_all" \/ (call = "write" /\ kind = "ok")
  <2>1. accepted' = accepted \o Take(payload, Placed + k)
    BY <1>7 DEF Return
  <2>2. accepted' \in Seq(Byte) /\ Len(accepted') = Len(accepted) + (Placed + k)
    BY <1>2, <1>4, <2>1, ConcatProperties
  <2>3. Len(accepted') - (Placed + k) = Len(accepted)
    BY <1>1, <1>2, <2>2
  <2>4. QED
    BY <1>5, <1>6, <2>1, <2>2, <2>3
<1>8. CASE ~(call = "write_all" \/ (call = "write" /\ kind = "ok"))
  <2>1. accepted' = accepted /\ accepted = sink \o Remaining /\ k = 0
    BY <1>8, NonePlaced DEF Return
  <2>2. Take(arg, 0) = << >> /\ accepted \o << >> = accepted
    BY <1>2, SliceEnds, ConcatEmptySeq DEF WriteTypes
  <2>3. QED
    BY <1>2, <1>8, <2>1, <2>2 DEF WriteCalls
<1>9. QED
  BY <1>7, <1>8

(* What is left of a buffer after its front is gone still ends with the    *)
(* line that its end completed.                                            *)
LEMMA StaleSlice ==
  ASSUME NEW s \in Seq(Byte), NEW n \in 0..Len(s), Holds(s, NL) => EndsLine(s)
  PROVE  Holds(Skip(s, n), NL) => EndsLine(Skip(s, n))
<1>1. Len(s) \in Nat
  BY LenProperties
<1>2. CASE n = Len(s)
  <2>1. Skip(s, n) = << >>
    BY <1>2, SliceEnds
  <2>2. QED
    BY <2>1 DEF Holds
<1>3. CASE n # Len(s)
  <2>1. n \in 0..Len(s) - 1
    BY <1>1, <1>3
  <2>2. Skip(s, n) # << >> /\ Skip(s, n)[Len(Skip(s, n))] = s[Len(s)]
    BY <2>1, LastOfSlice
  <2>3. ~Holds(s, NL) => ~Holds(Skip(s, n), NL)
    BY HoldsSlice
  <2>4. QED
    BY <2>2, <2>3 DEF EndsLine
<1>4. QED
  BY <1>2, <1>3

-----------------------------------------------------------------------------
(* The invariant where a call ends, begins or leaves the write half alone. *)

LEMMA Returns ==
  ASSUME NEW kind, NEW n, call \in WriteCalls => n \in Nat, Return(kind, n),
         writer_buf' \in Seq(Byte), written' = 0,
         sink' \in Seq(Byte), accepted' \in Seq(Byte),
         accepted' = sink' \o writer_buf', Len(writer_buf') <= WCap,
         Holds(writer_buf', NL) => EndsLine(writer_buf'),
         (call \in WriteCalls /\ kind = "ok")
           => \/ Len(accepted') - n <= Len(sink')
              \/ ~Holds(writer_buf', NL),
         (call = "write_all" /\ kind = "ok") => ~Holds(writer_buf', NL)
  PROVE  Inv'
<1>1. /\ call' = "idle" /\ todo' = << >> /\ payload' = << >> /\ arg' = << >>
      /\ result' = [of |-> call, kind |-> kind, n |-> n]
  BY DEF Return
<1>2. /\ Len(writer_buf') \in Nat /\ Len(sink') \in Nat /\ Len(accepted') \in Nat
      /\ Len(accepted') = Len(sink') + Len(writer_buf')
      /\ \A i \in 1..Len(sink') + Len(writer_buf') :
            accepted'[i] = IF i <= Len(sink') THEN sink'[i]
                           ELSE writer_buf'[i - Len(sink')]
  <2>1. ASSUME NEW s \in Seq(Byte), NEW b \in Seq(Byte), NEW a, a = s \o b
        PROVE  /\ Len(b) \in Nat /\ Len(s) \in Nat /\ Len(a) \in Nat
               /\ Len(a) = Len(s) + Len(b)
               /\ \A i \in 1..Len(s) + Len(b) :
                     a[i] = IF i <= Len(s) THEN s[i] ELSE b[i - Len(s)]
    BY ONLY <2>1, LenProperties, ConcatProperties
  <2>2. QED
    BY <2>1
<1>3. /\ Remaining' = writer_buf' /\ Placed' = 0 /\ Take(payload', 0) = << >>
      /\ << >> \in Seq(Byte) /\ Len(<< >>) = 0 /\ Skip(<< >>, 0) = << >>
  <2>1. Skip(writer_buf', 0) = writer_buf'
    BY SliceEnds
  <2>2. /\ Take(<< >>, 0) = << >> /\ << >> \in Seq(Byte) /\ Len(<< >>) = 0
        /\ Skip(<< >>, 0) = << >>
    BY EmptySeq, SliceEnds
  <2>3. QED
    BY <1>1, <2>1, <2>2 DEF Remaining, Placed, Moved
<1>4. WriteTypes'
  BY <1>1, <1>2, <1>3 DEF WriteTypes
<1>5. Control' /\ \A op : ~At(op)'
  BY <1>1 DEF Control, At
<1>6. Offered'
  <2>1. 0 \in 0..Len(<< >>)
    BY <1>3
  <2>2. QED
    BY <1>1, <1>3, <2>1 DEF Offered
<1>7. GuardAtRest' /\ Fits' /\ Bare' /\ Unlined'
  BY <1>5 DEF GuardAtRest, Fits, Bare, Unlined
<1>8. Stale' /\ CapacityKept'
  BY <1>3 DEF Stale, CapacityKept
<1>9. Accounted'
  <2>1. accepted' \o << >> = accepted'
    BY ConcatEmptySeq
  <2>2. QED
    BY <1>3, <2>1 DEF Accounted
<1>10. LinesRetried'
  <2>1. SUFFICES ASSUME call \in WriteCalls, kind = "ok",
                        NEW i \in 1..Len(accepted') - n, accepted'[i] = NL
                 PROVE  i <= Len(sink')
    BY <1>1 DEF LinesRetried
  <2>2. CASE Len(accepted') - n <= Len(sink')
    BY <1>2, <2>1, <2>2
  <2>3. CASE ~Holds(writer_buf', NL)
    <3>1. SUFFICES ASSUME ~(i <= Len(sink')) PROVE FALSE
      OBVIOUS
    <3>2. i - Len(sink') \in 1..Len(writer_buf') /\ i \in 1..Len(sink') + Len(writer_buf')
      BY <1>2, <2>1, <3>1
    <3>3. writer_buf'[i - Len(sink')] = NL
      BY <1>2, <2>1, <3>1, <3>2
    <3>4. QED
      BY <2>3, <3>2, <3>3 DEF Holds
  <2>4. QED
    BY <2>1, <2>2, <2>3
<1>11. WriteAllSendsLines'
  BY <1>1, <1>3 DEF WriteAllSendsLines
<1>12. QED
  BY <1>4, <1>5, <1>6, <1>7, <1>8, <1>9, <1>10, <1>11 DEF Inv

(* Nothing of the write half has changed.                                  *)
LEMMA Untouched ==
  ASSUME Inv,
         UNCHANGED << writer_buf, written, sink, call, todo, payload, arg, accepted >>,
         result' = result \/ call # "idle" \/ result'.of \notin WriteCalls
  PROVE  Inv'
<1>1. /\ WriteTypes' /\ Offered' /\ GuardAtRest' /\ Fits' /\ Bare' /\ Unlined'
      /\ Stale' /\ Accounted' /\ CapacityKept'
  BY DEF Inv, WriteTypes, Offered, Placed, Moved, GuardAtRest, At, Fits, N, Bare,
         Unlined, Stale, Remaining, Accounted, CapacityKept
<1>2. Control'
  BY DEF Inv, Control, LastN
<1>3. LinesRetried' /\ WriteAllSendsLines'
  BY DEF Inv, LinesRetried, WriteAllSendsLines, Remaining, WriteCalls
<1>4. QED
  BY <1>1, <1>2, <1>3 DEF Inv

(* Between calls there is nothing to place, and the guard is at rest.      *)
LEMMA Idle ==
  ASSUME Inv, call = "idle"
  PROVE  /\ todo = << >> /\ written = 0 /\ Remaining = writer_buf
         /\ accepted = sink \o writer_buf
<1>1. todo = << >>
  BY DEF Inv, Control, WriteCalls
<1>2. written = 0
  BY <1>1 DEF Inv, GuardAtRest, At
<1>3. Remaining = writer_buf
  BY <1>2, Sizes DEF Inv
<1>4. QED
  BY <1>1, <1>2, <1>3, NonePlaced DEF Inv

LEMMA Enters ==
  ASSUME Inv, NEW name, NEW frames, NEW data \in Seq(Byte), Enter(name, frames, data),
         name # "idle", name \notin WriteCalls => data = << >>,
         Control', Bare', Unlined', ~At("put")', ~At("put_all")'
  PROVE  Inv'
<1>1. /\ call = "idle" /\ call' = name /\ payload' = data /\ arg' = data
      /\ UNCHANGED << writer_buf, written, sink, accepted, result >>
  BY DEF Enter, writerVars, outVars
<1>2. todo = << >> /\ written = 0 /\ Remaining = writer_buf /\ accepted = sink \o writer_buf
  BY <1>1, Idle
<1>3. /\ Placed' = 0 /\ Len(data) \in Nat /\ Skip(data, 0) = data /\ Take(data, 0) = << >>
  BY <1>1, LenProperties, SliceEnds DEF Placed, Moved
<1>4. WriteTypes' /\ CapacityKept' /\ Remaining' = Remaining
  BY <1>1 DEF Inv, WriteTypes, CapacityKept, Remaining
<1>5. Offered' /\ GuardAtRest' /\ Fits'
  BY <1>1, <1>2, <1>3 DEF Offered, GuardAtRest, Fits
<1>6. Stale'
  BY <1>4 DEF Inv, Stale
<1>7. Accounted'
  <2>1. accepted \o << >> = accepted
    BY ConcatEmptySeq DEF Inv, WriteTypes
  <2>2. QED
    BY <1>1, <1>2, <1>3, <1>4, <2>1 DEF Accounted
<1>8. LinesRetried' /\ WriteAllSendsLines'
  BY <1>1 DEF LinesRetried, WriteAllSendsLines
<1>9. QED
  BY <1>4, <1>5, <1>6, <1>7, <1>8 DEF Inv

(* A call that does not write goes on, or returns, without a word to the   *)
(* write half.                                                             *)
LEMMA OtherStep ==
  ASSUME Inv, call \notin WriteCalls, call # "idle", ~At("flush_buf"),
         UNCHANGED << writer_buf, written, sink >>,
         \/ UNCHANGED << call, payload, arg, accepted >> /\ Control'
         \/ \E kind, n : Return(kind, n)
  PROVE  Inv'
<1>1. /\ written = 0 /\ Remaining = writer_buf /\ Remaining' = Remaining
  BY Sizes DEF Inv, GuardAtRest, Remaining
<1>2. CASE UNCHANGED << call, payload, arg, accepted >> /\ Control'
  <2>1. /\ WriteTypes' /\ Offered' /\ CapacityKept' /\ Placed' = Placed
    BY <1>2 DEF Inv, WriteTypes, Offered, CapacityKept, Placed, Moved
  <2>2. \A op \in Parts \cup Bypasses : ~At(op)'
    BY <1>2, NoPart
  <2>3. GuardAtRest' /\ Fits' /\ Bare' /\ Unlined'
    BY <1>1, <2>2 DEF GuardAtRest, Fits, Bare, Unlined, Parts, Bypasses
  <2>4. Stale'
    BY <1>1 DEF Inv, Stale
  <2>5. Accounted'
    BY <1>1, <1>2, <2>1 DEF Inv, Accounted
  <2>6. LinesRetried' /\ WriteAllSendsLines'
    BY <1>2 DEF LinesRetried, WriteAllSendsLines
  <2>7. QED
    BY <1>2, <2>1, <2>3, <2>4, <2>5, <2>6 DEF Inv
<1>3. CASE \E kind, n : Return(kind, n)
  <2>1. PICK kind, n : Return(kind, n)
    BY <1>3
  <2>2. accepted' = accepted /\ accepted = sink \o writer_buf
    BY <1>1, <2>1, NonePlaced DEF Inv, Return, WriteCalls
  <2>3. /\ writer_buf' \in Seq(Byte) /\ sink' \in Seq(Byte) /\ accepted' \in Seq(Byte)
        /\ Len(writer_buf') <= WCap
        /\ Holds(writer_buf', NL) => EndsLine(writer_buf')
    BY <1>1, <2>2 DEF Inv, WriteTypes, CapacityKept, Stale
  <2>4. call # "write_all" /\ written' = 0 /\ accepted' = sink' \o writer_buf'
    BY <1>1, <2>2 DEF WriteCalls
  <2>5. QED
    BY <2>1, <2>3, <2>4, Returns
<1>4. QED
  BY <1>2, <1>3

-----------------------------------------------------------------------------
(* flush_buf.                                                              *)

LEMMA FlushWriteStep ==
  ASSUME Inv, FlushWrite
  PROVE  Inv'
<1>1. PICK n \in 1..Len(Remaining) :
         /\ sink' = sink \o Take(Remaining, n) /\ written' = written + n
  BY DEF FlushWrite
<1>2. /\ At("flush_buf") /\ writer_buf' = writer_buf
      /\ UNCHANGED << call, todo, payload, arg, accepted, result >>
  BY DEF FlushWrite, Flushing, callVars
<1>3. /\ writer_buf \in Seq(Byte) /\ written \in 0..Len(writer_buf)
      /\ sink \in Seq(Byte) /\ Remaining \in Seq(Byte)
      /\ Len(writer_buf) \in Nat /\ Len(Remaining) = Len(writer_buf) - written
  BY Sizes DEF Inv, WriteTypes
<1>4. /\ n \in 0..Len(Remaining) /\ n \in 0..Len(writer_buf) - written
      /\ written + n \in 0..Len(writer_buf)
  BY <1>3
<1>5. Remaining' = Skip(writer_buf, written + n)
  BY <1>1, <1>2 DEF Remaining
<1>6. /\ Skip(writer_buf, written + n) = Skip(Remaining, n)
      /\ (sink \o Take(Remaining, n)) \o Skip(writer_buf, written + n) = sink \o Remaining
  BY ONLY <1>3, <1>4, SliceMove, SliceAgain DEF Remaining
<1>7. Take(Remaining, n) \in Seq(Byte) /\ sink' \in Seq(Byte)
  <2>1. Take(Remaining, n) \in Seq(Byte)
    BY <1>3, <1>4, SliceType
  <2>2. sink \o Take(Remaining, n) \in Seq(Byte)
    BY ONLY <1>3, <2>1, ConcatProperties
  <2>3. QED
    BY <1>1, <2>1, <2>2
<1>8. WriteTypes'
  <2>1. written' \in 0..Len(writer_buf)
    BY <1>1, <1>4
  <2>2. QED
    BY <1>2, <1>7, <2>1 DEF Inv, WriteTypes
<1>9. Control' /\ call # "idle"
  BY <1>2, Busy DEF Inv, Control, LastN
<1>10. /\ Offered' /\ GuardAtRest' /\ Fits' /\ Bare' /\ Unlined' /\ CapacityKept'
       /\ Placed' = Placed
  BY <1>2 DEF Inv, Offered, Placed, Moved, GuardAtRest, At, Fits, N, Bare, Unlined,
              CapacityKept
<1>11. Stale'
  <2>1. Holds(Skip(Remaining, n), NL) => EndsLine(Skip(Remaining, n))
    BY <1>3, <1>4, StaleSlice DEF Inv, Stale
  <2>2. QED
    BY <1>5, <1>6, <2>1 DEF Stale
<1>12. Accounted'
  BY <1>1, <1>2, <1>5, <1>6, <1>10 DEF Inv, Accounted
<1>13. LinesRetried' /\ WriteAllSendsLines'
  BY <1>2, <1>9 DEF LinesRetried, WriteAllSendsLines
<1>14. QED
  BY <1>8, <1>9, <1>10, <1>11, <1>12, <1>13 DEF Inv

(* BufGuard::drop, on any way out.                                         *)
LEMMA Drains ==
  ASSUME Inv, Drain, UNCHANGED sink
  PROVE  /\ writer_buf' \in Seq(Byte) /\ written' = 0 /\ sink' \in Seq(Byte)
         /\ Len(writer_buf') <= WCap
         /\ Holds(writer_buf', NL) => EndsLine(writer_buf')
         /\ sink' \o writer_buf' = sink \o Remaining
<1>1. /\ Remaining \in Seq(Byte) /\ Len(Remaining) = Len(writer_buf) - written
      /\ Len(writer_buf) \in Nat /\ written \in Nat /\ sink \in Seq(Byte)
  BY Sizes DEF Inv, WriteTypes
<1>2. Len(writer_buf) <= WCap /\ (Holds(Remaining, NL) => EndsLine(Remaining))
  BY DEF Inv, CapacityKept, Stale
<1>3. Len(Remaining) <= WCap
  BY <1>1, <1>2, CapacityAssumption
<1>4. QED
  BY <1>1, <1>2, <1>3 DEF Drain

(* An error or a panic that leaves what is to be accounted for in place.   *)
LEMMA Abandons ==
  ASSUME Inv, NEW kind, kind # "ok", Abandon(kind), UNCHANGED sink,
         writer_buf' = Remaining, written' = 0
  PROVE  Inv'
<1>1. Len(arg) \in Nat /\ 0 \in 0..Len(arg) /\ Placed \in Nat /\ Placed + 0 = Placed
  <2>1. Len(arg) \in Nat /\ 0 \in 0..Len(arg)
    BY Sizes DEF Inv
  <2>2. Placed \in Nat
    BY <2>1, Placing DEF Inv
  <2>3. QED
    BY <2>1, <2>2
<1>2. Return(kind, Placed + 0) /\ Return(kind, Placed)
  BY <1>1 DEF Abandon, Placed
<1>3. accepted' \in Seq(Byte) /\ accepted' = (sink \o Remaining) \o Take(arg, 0)
  BY <1>1, <1>2, ReturnAccounts DEF Inv
<1>4. /\ writer_buf' \in Seq(Byte) /\ sink' \in Seq(Byte)
      /\ Len(writer_buf') <= WCap
      /\ Holds(writer_buf', NL) => EndsLine(writer_buf')
      /\ sink' \o writer_buf' = sink \o Remaining
  BY Drains DEF Drain
<1>5. accepted' = sink' \o writer_buf'
  <2>1. Take(arg, 0) = << >> /\ sink \o Remaining \in Seq(Byte)
    <3>1. sink \in Seq(Byte) /\ Remaining \in Seq(Byte) /\ arg \in Seq(Byte)
      BY Sizes DEF Inv, WriteTypes
    <3>2. QED
      BY ONLY <3>1, SliceEnds, ConcatProperties
  <2>2. (sink \o Remaining) \o << >> = sink \o Remaining
    BY <2>1, ConcatEmptySeq
  <2>3. QED
    BY <1>3, <1>4, <2>1, <2>2
<1>6. QED
  BY <1>1, <1>2, <1>3, <1>4, <1>5, Returns

LEMMA FlushDoneStep ==
  ASSUME Inv, FlushDone
  PROVE  Inv'
<1>1. /\ At("flush_buf") /\ written >= Len(writer_buf) /\ Drain
      /\ UNCHANGED sink /\ Proceed(arg) /\ Control
  BY DEF FlushDone, outVars, Inv
<1>2. /\ writer_buf' = << >> /\ written' = 0 /\ Remaining = << >>
  <2>1. /\ Len(writer_buf) \in Nat /\ written \in 0..Len(writer_buf)
        /\ writer_buf \in Seq(Byte)
    BY Sizes DEF Inv, WriteTypes
  <2>2. written = Len(writer_buf)
    BY <1>1, <2>1
  <2>3. QED
    BY <1>1, <2>1, <2>2, SliceEnds DEF Drain, Remaining
<1>3. /\ writer_buf' \in Seq(Byte) /\ sink' \in Seq(Byte) /\ sink' = sink
      /\ Len(writer_buf') <= WCap /\ sink' \o writer_buf' = sink \o Remaining
      /\ Holds(writer_buf', NL) => EndsLine(writer_buf')
  BY <1>1, Drains
<1>4. ~Holds(<< >>, NL) /\ Len(<< >>) = 0
  BY DEF Holds
<1>5. CASE Len(todo) = 1
  <2>1. call \notin WriteCalls
    <3>1. Head(todo).op = "flush_buf"
      BY <1>1 DEF At
    <3>2. CASE todo \in PartialStages(call, Len(arg)) /\ call \in WriteCalls
      BY <1>5, <3>1, <3>2 DEF PartialStages, WriteStages, WriteCalls, Put, Do
    <3>3. CASE \E i \in 1..Len(arg) :
                  \/ todo \in LineStages("line_write", i)
                  \/ \E m \in i..Len(arg) : todo \in LineStages("line_write_vectored", m)
      BY <1>5, <3>1, <3>3 DEF LineStages, Do
    <3>4. CASE \E i \in 1..Len(arg) : todo \in LineAllStages(i, Len(arg) - i)
      <4>1. PICK i \in 1..Len(arg) : todo \in LineAllStages(i, Len(arg) - i)
        BY <3>4
      <4>2. todo = << Do("flush_buf", 0), Do("put_all", i), Do("flush_buf", 0),
                      Do("write_all", Len(arg) - i) >>
        BY <3>1, <4>1 DEF LineAllStages, Do
      <4>3. QED
        BY <1>5, <4>2
    <3>5. QED
      BY <1>1, <3>2, <3>3, <3>4, Busy DEF Control, WriteCalls
  <2>2. Return("ok", Moved(arg)) /\ Moved(arg) = 0
    BY <1>1, <1>5, <2>1, NonePlaced DEF Proceed, Placed, Inv, WriteCalls
  <2>3. accepted' = accepted /\ accepted = sink \o Remaining /\ call # "write_all"
    BY <2>1, <2>2, NonePlaced DEF Return, Inv, WriteCalls
  <2>4. accepted' \in Seq(Byte) /\ accepted' = sink' \o writer_buf'
    BY <1>3, <2>3 DEF Inv, WriteTypes
  <2>5. Return("ok", 0) /\ 0 \in Nat
    BY <2>2
  <2>6. QED
    BY <1>2, <1>3, <2>1, <2>3, <2>4, <2>5, Returns
<1>6. CASE Len(todo) # 1
  <2>1. /\ todo' = Tail(todo)
        /\ UNCHANGED << arg, call, payload, result, accepted >>
    BY <1>1, <1>6 DEF Proceed
  <2>2. Len(arg) \in Nat
    BY Sizes DEF Inv
  <2>3. /\ Control' /\ call' # "idle"
        /\ (At("put")' \/ At("put_all")') => N' \in Nat
    BY <1>1, <1>6, <2>1, <2>2, AfterFlush, Busy
  <2>4. WriteTypes' /\ CapacityKept' /\ Remaining' = << >>
    <3>1. Skip(<< >>, 0) = << >> /\ 0 \in 0..Len(<< >>)
      <4>1. << >> \in Seq(Byte) /\ 0 \in 0..Len(<< >>)
        BY <1>4, EmptySeq
      <4>2. QED
        BY <4>1, SliceEnds
    <3>2. QED
      BY <1>2, <1>3, <2>1, <3>1 DEF WriteTypes, CapacityKept, Remaining, Inv
  <2>5. Offered' /\ Placed' = Placed
    BY <2>1 DEF Inv, Offered, Placed, Moved
  <2>6. GuardAtRest' /\ Bare' /\ Unlined'
    BY <1>2, <1>4 DEF GuardAtRest, Bare, Unlined
  <2>7. Fits'
    <3>1. SUFFICES ASSUME N' \in Nat PROVE N' < WCap => Len(writer_buf') + N' <= WCap
      BY <1>2, <2>3 DEF Fits
    <3>2. Len(writer_buf') = 0
      BY <1>2
    <3>3. QED
      <4>1. \A m \in Nat, l \in Nat : (l = 0 /\ m < WCap) => l + m <= WCap
        BY CapacityAssumption
      <4>2. QED
        BY ONLY <3>1, <3>2, <4>1
  <2>8. Stale' /\ Accounted'
    BY <1>3, <1>2, <1>4, <2>1, <2>4, <2>5 DEF Stale, Accounted, Inv
  <2>9. LinesRetried' /\ WriteAllSendsLines'
    BY <2>3 DEF LinesRetried, WriteAllSendsLines
  <2>10. QED
    BY <2>3, <2>4, <2>5, <2>6, <2>7, <2>8, <2>9 DEF Inv
<1>7. QED
  BY <1>5, <1>6

LEMMA FlushBufStep ==
  ASSUME Inv, FlushBuf
  PROVE  Inv'
<1>1. ASSUME FlushInterrupted PROVE Inv'
  BY <1>1, Untouched DEF FlushInterrupted, callVars, outVars
<1>2. ASSUME FlushFail PROVE Inv'
  BY <1>2, Abandons DEF FlushFail, Drain, outVars
<1>3. ASSUME FlushPanic PROVE Inv'
  BY <1>3, Abandons DEF FlushPanic, Drain, outVars
<1>4. QED
  BY <1>1, <1>2, <1>3, FlushWriteStep, FlushDoneStep DEF FlushBuf

-----------------------------------------------------------------------------
(* The backend's write.                                                    *)

LEMMA MakeRoomStep ==
  ASSUME Inv, MakeRoom
  PROVE  Inv'
<1>1. PICK op \in WriteCalls :
         /\ At(op)
         /\ Become(IF Len(writer_buf) + N > WCap
                   THEN << Do("flush_buf", 0), Do(Put(op), N) >>
                   ELSE << Do(Put(op), N) >>)
  BY DEF MakeRoom
<1>2. /\ UNCHANGED << writer_buf, written, sink, call, payload, arg, accepted, result >>
      /\ Control /\ call # "idle"
  BY <1>1, Busy DEF MakeRoom, writerVars, outVars, Become, Inv
<1>3. /\ call = op /\ Len(arg) \in Nat /\ Len(writer_buf) \in Nat
      /\ \/ todo = << Do(op, Len(arg)) >> /\ ~Holds(arg, NL)
         \/ /\ call = "write_all"
            /\ \E i \in 1..Len(arg) :
                  /\ IsLineEnd(arg, i)
                  /\ todo = << Do(op, i), Do("flush_buf", 0), Do("write_all", Len(arg) - i) >>
  <2>1. op \in Parts
    BY <1>1 DEF WriteCalls, Parts
  <2>2. op \in {call, Put(call)} /\ call \in WriteCalls
    BY <1>1, <1>2, <2>1, AtPart
  <2>3. op = call
    BY <1>1, <2>2 DEF WriteCalls, Put
  <2>4. QED
    BY <1>1, <1>2, <2>1, <2>3, AtPart, Sizes DEF Inv
<1>4. ~At("flush_buf") /\ written = 0
  BY <1>1, <1>2, Busy DEF WriteCalls, Inv, GuardAtRest
<1> DEFINE f == Do("flush_buf", 0)
<1>5. /\ Control' /\ ~At("line_write")' /\ ~At("line_write_vectored")'
      /\ ~At("line_write_all")'
      /\ N \in Nat
      /\ (At("put")' \/ At("put_all")') => N' = N /\ Len(writer_buf) + N <= WCap
      /\ Unlined'
  <2>1. CASE todo = << Do(op, Len(arg)) >> /\ ~Holds(arg, NL)
    <3>1. N = Len(arg) /\ Tail(todo) = << >> /\ Len(todo) = 1
      BY <2>1 DEF N, Do
    <3>2. ~Holds(writer_buf, NL)
      BY <1>1, <3>1 DEF Inv, Unlined, WriteCalls
    <3>3. CASE Len(writer_buf) + N > WCap
      <4>1. todo' = << f, Do(Put(op), Len(arg)) >> \o << >>
        BY <1>1, <3>1, <3>3 DEF Become
      <4>2. todo' = << f, Do(Put(op), Len(arg)) >>
        BY ONLY <4>1, ConcatEmptySeq
      <4>3. todo' \in PartialStages(call, Len(arg))
        BY <1>3, <4>2 DEF PartialStages, WriteStages
      <4>4. \A p : At(p)' => p = "flush_buf"
        BY ONLY <4>2 DEF At, Do
      <4>5. Control'
        BY <1>1, <1>2, <1>3, <2>1, <4>3 DEF Control
      <4>6. QED
        BY <1>3, <3>1, <4>4, <4>5 DEF Unlined
    <3>4. CASE ~(Len(writer_buf) + N > WCap)
      <4>1. todo' = << Do(Put(op), Len(arg)) >> \o << >>
        BY <1>1, <3>1, <3>4 DEF Become
      <4>2. todo' = << Do(Put(op), Len(arg)) >>
        BY ONLY <4>1, ConcatEmptySeq
      <4>3. todo' \in PartialStages(call, Len(arg))
        BY <1>3, <4>2 DEF PartialStages, WriteStages
      <4>4. (\A p : At(p)' => p = Put(op)) /\ N' = Len(arg)
        BY ONLY <4>2 DEF At, Do, N
      <4>5. Control'
        BY <1>1, <1>2, <1>3, <2>1, <4>3 DEF Control
      <4>6. Len(writer_buf) + N <= WCap
        BY <1>3, <3>1, <3>4, CapacityAssumption
      <4>7. Unlined'
        BY <1>2, <3>2 DEF Unlined
      <4>8. Put(op) \in {"put", "put_all"}
        BY DEF Put
      <4>9. QED
        BY <1>3, <3>1, <4>4, <4>5, <4>6, <4>7, <4>8
    <3>5. QED
      BY <3>3, <3>4
  <2>2. CASE /\ call = "write_all"
             /\ \E i \in 1..Len(arg) :
                   /\ IsLineEnd(arg, i)
                   /\ todo = << Do(op, i), f, Do("write_all", Len(arg) - i) >>
    <3>1. PICK i \in 1..Len(arg) :
             IsLineEnd(arg, i) /\ todo = << Do(op, i), f, Do("write_all", Len(arg) - i) >>
      BY <2>2
    <3> DEFINE w == Do("write_all", Len(arg) - i)
    <3>2. N = i /\ Tail(todo) = << f, w >> /\ i \in Nat
      BY <3>1 DEF N, Do
    <3>3. Put(op) = "put_all"
      BY <1>3, <2>2 DEF Put
    <3>4. CASE Len(writer_buf) + N > WCap
      <4>1. todo' = << f, Do("put_all", i) >> \o << f, w >>
        BY <1>1, <3>2, <3>3, <3>4 DEF Become
      <4>2. todo' = << f, Do("put_all", i), f, w >>
        BY <4>1, FrameConcat
      <4>3. todo' \in LineAllStages(i, Len(arg) - i)
        BY <4>2 DEF LineAllStages
      <4>4. \A p : At(p)' => p = "flush_buf"
        BY ONLY <4>2 DEF At, Do
      <4>5. Control'
        BY <1>2, <2>2, <3>1, <4>3 DEF Control
      <4>6. QED
        BY <3>2, <4>4, <4>5 DEF Unlined
    <3>5. CASE ~(Len(writer_buf) + N > WCap)
      <4>1. todo' = << Do("put_all", i) >> \o << f, w >>
        BY <1>1, <3>2, <3>3, <3>5 DEF Become
      <4>2. todo' = << Do("put_all", i), f, w >>
        BY <4>1, FrameFront
      <4>3. todo' \in LineAllStages(i, Len(arg) - i)
        BY <4>2 DEF LineAllStages
      <4>4. (\A p : At(p)' => p = "put_all") /\ N' = i /\ Len(todo') = 3
        BY ONLY <4>2 DEF At, Do, N
      <4>5. Control'
        BY <1>2, <2>2, <3>1, <4>3 DEF Control
      <4>6. Len(writer_buf) + N <= WCap
        BY <1>3, <3>2, <3>5, CapacityAssumption
      <4>7. QED
        BY <3>2, <4>4, <4>5, <4>6 DEF Unlined
    <3>6. QED
      BY <3>4, <3>5
  <2>3. QED
    BY <1>3, <2>1, <2>2
<1>6. WriteTypes' /\ Offered' /\ CapacityKept' /\ Placed' = Placed /\ Remaining' = Remaining
  BY <1>2 DEF Inv, WriteTypes, Offered, CapacityKept, Placed, Moved, Remaining
<1>7. GuardAtRest' /\ Bare'
  BY <1>2, <1>4, <1>5 DEF GuardAtRest, Bare
<1>8. Fits'
  <2>1. SUFFICES ASSUME At("put")' \/ At("put_all")'
                 PROVE IF N' < WCap THEN Len(writer_buf') + N' <= WCap
                       ELSE writer_buf' = << >>
    BY DEF Fits
  <2>2. N' = N /\ Len(writer_buf) + N <= WCap /\ N \in Nat /\ writer_buf' = writer_buf
    BY <1>2, <1>5, <2>1
  <2>3. CASE ~(N < WCap)
    <3>1. Len(writer_buf) = 0
      BY <1>3, <2>2, <2>3, CapacityAssumption
    <3>2. writer_buf = << >>
      BY <3>1, EmptySeq DEF Inv, WriteTypes
    <3>3. QED
      BY <2>2, <2>3, <3>2
  <2>4. QED
    BY <2>2, <2>3
<1>9. Stale' /\ Accounted'
  BY <1>2, <1>6 DEF Inv, Stale, Accounted
<1>10. LinesRetried' /\ WriteAllSendsLines'
  BY <1>2 DEF LinesRetried, WriteAllSendsLines
<1>11. QED
  BY <1>5, <1>6, <1>7, <1>8, <1>9, <1>10 DEF Inv

(* Past an empty buffer k bytes go to the device, b more are buffered, and *)
(* the call returns.                                                       *)
LEMMA Sends ==
  ASSUME Inv, writer_buf = << >>, written = 0, written' = 0,
         NEW k \in 0..Len(arg), NEW b \in 0..Len(arg) - k, b <= WCap, NEW kind,
         sink' = sink \o Take(arg, k), writer_buf' = Take(Skip(arg, k), b),
         Return(kind, Placed + (k + b)),
         call = "write_all" \/ (call = "write" /\ kind = "ok"),
         Holds(writer_buf', NL) => EndsLine(writer_buf'),
         call = "write_all" => ~Holds(writer_buf', NL)
  PROVE  Inv'
<1>1. /\ Len(arg) \in Nat /\ arg \in Seq(Byte) /\ sink \in Seq(Byte) /\ Len(sink) \in Nat
      /\ Remaining = << >>
  BY Sizes DEF Inv, WriteTypes
<1>2. k + b \in 0..Len(arg) /\ Placed \in Nat /\ k \in Nat /\ b \in Nat
  BY <1>1, Placing DEF Inv
<1>3. /\ accepted' \in Seq(Byte) /\ accepted' = (sink \o << >>) \o Take(arg, k + b)
      /\ (call \in WriteCalls /\ kind = "ok")
           => Len(accepted') - (Placed + (k + b)) = Len(accepted)
  BY <1>1, <1>2, ReturnAccounts DEF Inv
<1>4. /\ Take(arg, k) \in Seq(Byte) /\ Skip(arg, k) \in Seq(Byte)
      /\ Len(Take(arg, k)) = k /\ Len(Skip(arg, k)) = Len(arg) - k
  BY <1>1, SliceType
<1>5. Take(Skip(arg, k), b) \in Seq(Byte) /\ Len(Take(Skip(arg, k), b)) = b
  <2>1. b \in 0..Len(Skip(arg, k))
    BY <1>4
  <2>2. QED
    BY ONLY <1>4, <2>1, SliceType
<1>6. sink' \in Seq(Byte) /\ Len(sink') = Len(sink) + k
  <2>1. sink \o Take(arg, k) \in Seq(Byte)
        /\ Len(sink \o Take(arg, k)) = Len(sink) + Len(Take(arg, k))
    BY ONLY <1>1, <1>4, ConcatProperties
  <2>2. QED
    BY <1>4, <2>1
<1>7. accepted' = sink' \o writer_buf'
  <2> DEFINE f == Take(arg, k)  g == Take(Skip(arg, k), b)
  <2>1. sink \o << >> = sink /\ f \o g = Take(arg, k + b)
    BY <1>1, <1>2, ConcatEmptySeq, SliceAgain
  <2>2. (sink \o f) \o g = sink \o (f \o g)
    <3>1. sink \in Seq(Byte) /\ f \in Seq(Byte) /\ g \in Seq(Byte)
      BY <1>1, <1>4, <1>5
    <3>2. QED
      BY ONLY <3>1, ConcatAssociative
  <2>3. QED
    BY <1>3, <2>1, <2>2
<1>8. call = "write" => Len(accepted) <= Len(sink')
  <2>1. call = "write" => accepted = sink \o << >>
    BY <1>1, NonePlaced DEF Inv
  <2>2. call = "write" => accepted = sink
    BY <1>1, <2>1, ConcatEmptySeq
  <2>3. QED
    BY <1>1, <1>2, <1>6, <2>2
<1>9. /\ writer_buf' \in Seq(Byte) /\ Len(writer_buf') <= WCap /\ Placed + (k + b) \in Nat
  BY <1>2, <1>5
<1>10. (call \in WriteCalls /\ kind = "ok")
         => \/ Len(accepted') - (Placed + (k + b)) <= Len(sink')
            \/ ~Holds(writer_buf', NL)
  BY <1>3, <1>8 DEF WriteCalls
<1>11. QED
  BY <1>3, <1>6, <1>7, <1>9, <1>10, Returns

(* The same, with nothing buffered.                                        *)
LEMMA SendsOnly ==
  ASSUME Inv, writer_buf = << >>, UNCHANGED << writer_buf, written >>, ~At("flush_buf"),
         NEW k \in 0..Len(arg), NEW kind, sink' = sink \o Take(arg, k),
         Return(kind, Placed + k), call = "write_all" \/ (call = "write" /\ kind = "ok")
  PROVE  Inv'
<1>1. /\ Len(arg) \in Nat /\ Skip(arg, k) \in Seq(Byte) /\ Placed + (k + 0) = Placed + k
      /\ 0 \in 0..Len(arg) - k /\ 0 <= WCap
  BY Placing, Sizes, CapacityAssumption DEF Inv
<1>2. Take(Skip(arg, k), 0) = << >>
  BY <1>1, SliceEnds
<1>3. written = 0 /\ written' = 0
  BY DEF Inv, GuardAtRest
<1>4. ~Holds(writer_buf', NL) /\ Return(kind, Placed + (k + 0))
  BY <1>1 DEF Holds
<1>5. QED
  BY <1>1, <1>2, <1>3, <1>4, Sends

(* write_all goes on with the part behind the lines.                       *)
LEMMA Advances ==
  ASSUME Inv, call = "write_all", NEW k \in 0..Len(arg), arg' = Skip(arg, k),
         UNCHANGED << call, payload, accepted >>,
         todo' \in PartialStages("write_all", Len(arg) - k), ~Holds(Skip(arg, k), NL),
         ~At("put")', ~At("put_all")', written' = 0,
         writer_buf' \in Seq(Byte), sink' \in Seq(Byte), Len(writer_buf') <= WCap,
         sink' \o writer_buf' = (sink \o Remaining) \o Take(arg, k),
         Holds(writer_buf', NL) => EndsLine(writer_buf'), Unlined', Bare'
  PROVE  Inv'
<1>1. /\ Placed + k \in 0..Len(payload) /\ Placed \in Nat
      /\ Moved(Skip(arg, k)) = Placed + k
      /\ Skip(arg, k) = Skip(payload, Placed + k)
      /\ Take(payload, Placed) \o Take(arg, k) = Take(payload, Placed + k)
      /\ Take(arg, k) \in Seq(Byte) /\ Skip(arg, k) \in Seq(Byte)
      /\ Len(Skip(arg, k)) = Len(arg) - k
  BY Placing DEF Inv
<1>2. Placed' = Placed + k
  BY <1>1 DEF Placed, Moved
<1>3. Remaining' = writer_buf' /\ Len(writer_buf') \in Nat
  <2>1. Skip(writer_buf', 0) = writer_buf' /\ Len(writer_buf') \in Nat
    BY SliceEnds, LenProperties
  <2>2. QED
    BY <2>1 DEF Remaining
<1>4. WriteTypes'
  BY <1>1, <1>3 DEF WriteTypes, Inv
<1>5. Control'
  BY <1>1 DEF Control, WriteCalls
<1>6. Offered' /\ GuardAtRest' /\ Fits' /\ CapacityKept' /\ Stale'
  BY <1>1, <1>2, <1>3 DEF Offered, WriteCalls, GuardAtRest, Fits, CapacityKept, Stale
<1>7. Accounted'
  <2> DEFINE f == Take(payload, Placed)  g == Take(arg, k)
  <2>1. accepted \in Seq(Byte) /\ f \in Seq(Byte) /\ g \in Seq(Byte)
    <3>1. payload \in Seq(Byte) /\ Placed \in 0..Len(payload) /\ accepted \in Seq(Byte)
      BY DEF Inv, WriteTypes, Offered
    <3>2. f \in Seq(Byte)
      BY ONLY <3>1, SliceType
    <3>3. QED
      BY <1>1, <3>1, <3>2
  <2>2. (accepted \o f) \o g = accepted \o (f \o g)
    BY ONLY <2>1, ConcatAssociative
  <2>3. sink \o Remaining = accepted \o f
    BY DEF Inv, Accounted
  <2>4. sink' \o writer_buf' = accepted \o Take(payload, Placed + k)
    BY <1>1, <2>2, <2>3
  <2>5. QED
    BY <1>2, <1>3, <2>4 DEF Accounted
<1>8. LinesRetried' /\ WriteAllSendsLines'
  BY DEF LinesRetried, WriteAllSendsLines
<1>9. QED
  BY <1>4, <1>5, <1>6, <1>7, <1>8 DEF Inv

(* Where lines are put with the rest of a write_all to follow.             *)
LEMMA LinesFirst ==
  ASSUME Inv, NEW i \in 1..Len(arg), IsLineEnd(arg, i)
  PROVE  /\ i \in 0..Len(arg) /\ ~Holds(Skip(arg, i), NL)
         /\ Take(arg, i) \in Seq(Byte) /\ Take(arg, i) # << >> /\ EndsLine(Take(arg, i))
<1>1. arg \in Seq(Byte) /\ Len(arg) \in Nat
  BY Sizes DEF Inv, WriteTypes
<1>2. i \in 0..Len(arg) /\ arg[i] = NL /\ ~Holds(Skip(arg, i), NL)
  BY <1>1 DEF IsLineEnd
<1>3. Take(arg, i) # << >> /\ Take(arg, i)[Len(Take(arg, i))] = arg[i]
  BY <1>1, LastOfSlice
<1>4. Take(arg, i) \in Seq(Byte)
  BY ONLY <1>1, <1>2, SliceType
<1>5. QED
  BY <1>2, <1>3, <1>4 DEF EndsLine

LEMMA BufferStep ==
  ASSUME Inv, Buffer
  PROVE  Inv'
<1>1. /\ N < WCap /\ Proceed(Skip(arg, N)) /\ written' = written /\ sink' = sink
      /\ writer_buf' = writer_buf \o Take(arg, N)
  BY DEF Buffer, outVars
<1>2. PICK op \in {"put", "put_all"} : At(op)
  BY DEF Buffer
<1>3. /\ Control /\ written = 0 /\ Len(writer_buf) + N <= WCap
  BY <1>1, <1>2, Busy DEF Inv, GuardAtRest, Fits
<1>4. /\ writer_buf \in Seq(Byte) /\ arg \in Seq(Byte) /\ sink \in Seq(Byte)
      /\ Len(arg) \in Nat /\ Len(writer_buf) \in Nat /\ Remaining = writer_buf
  BY <1>3, Sizes DEF Inv, WriteTypes
<1>5. ASSUME N \in 0..Len(arg)
      PROVE  /\ writer_buf' \in Seq(Byte) /\ Len(writer_buf') <= WCap
             /\ (sink \o Remaining) \o Take(arg, N) = sink' \o writer_buf'
             /\ Take(arg, N) \in Seq(Byte)
  <2>1. Take(arg, N) \in Seq(Byte) /\ Len(Take(arg, N)) = N
    BY <1>4, <1>5, SliceType
  <2>2. /\ writer_buf \o Take(arg, N) \in Seq(Byte)
        /\ Len(writer_buf \o Take(arg, N)) = Len(writer_buf) + Len(Take(arg, N))
        /\ (sink \o writer_buf) \o Take(arg, N) = sink \o (writer_buf \o Take(arg, N))
    <3>1. writer_buf \in Seq(Byte) /\ sink \in Seq(Byte) /\ Take(arg, N) \in Seq(Byte)
      BY <1>4, <2>1
    <3>2. (sink \o writer_buf) \o Take(arg, N) = sink \o (writer_buf \o Take(arg, N))
      BY ONLY <3>1, ConcatAssociative
    <3>3. /\ writer_buf \o Take(arg, N) \in Seq(Byte)
          /\ Len(writer_buf \o Take(arg, N)) = Len(writer_buf) + Len(Take(arg, N))
      BY ONLY <3>1, ConcatProperties
    <3>4. QED
      BY <3>2, <3>3
  <2>3. QED
    BY <1>1, <1>3, <1>4, <2>1, <2>2
<1>6. CASE todo = << Do(op, Len(arg)) >> /\ ~Holds(arg, NL) /\ call \in WriteCalls
  <2>1. N = Len(arg) /\ Len(todo) = 1
    BY <1>6 DEF N, Do
  <2>2. N \in 0..Len(arg) /\ Placed \in Nat /\ Moved(Skip(arg, N)) = Placed + N
    BY <1>4, <2>1, Placing DEF Inv
  <2>3. Return("ok", Placed + N)
    BY <1>1, <2>1, <2>2 DEF Proceed
  <2>4. /\ accepted' \in Seq(Byte) /\ accepted' = (sink \o Remaining) \o Take(arg, N)
    BY <1>6, <2>2, <2>3, ReturnAccounts DEF Inv, WriteCalls
  <2>5. ~Holds(writer_buf, NL) /\ ~Holds(Take(arg, N), NL)
    <3>1. ~Holds(Take(arg, N), NL)
      BY <1>4, <1>6, <2>2, HoldsSlice
    <3>2. QED
      BY <1>2, <2>1, <3>1 DEF Inv, Unlined
  <2>6. ~Holds(writer_buf', NL)
    <3>1. Take(arg, N) \in Seq(Byte)
      BY <1>5, <2>2
    <3>2. ~Holds(writer_buf \o Take(arg, N), NL)
      BY ONLY <1>4, <2>5, <3>1, HoldsConcat
    <3>3. QED
      BY <1>1, <3>2
  <2>7. Placed + N \in Nat /\ written' = 0 /\ sink' \in Seq(Byte)
    BY <1>1, <1>3, <1>4, <2>2
  <2>8. accepted' = sink' \o writer_buf' /\ writer_buf' \in Seq(Byte) /\ Len(writer_buf') <= WCap
    BY <1>5, <2>2, <2>4
  <2>9. QED
    BY <2>3, <2>4, <2>6, <2>7, <2>8, Returns
<1>7. CASE /\ call = "write_all"
           /\ \E i \in 1..Len(arg) :
                 /\ IsLineEnd(arg, i)
                 /\ todo = << Do(op, i), Do("flush_buf", 0), Do("write_all", Len(arg) - i) >>
  <2>1. PICK i \in 1..Len(arg) :
           /\ IsLineEnd(arg, i)
           /\ todo = << Do(op, i), Do("flush_buf", 0), Do("write_all", Len(arg) - i) >>
    BY <1>7
  <2> DEFINE rest == << Do("flush_buf", 0), Do("write_all", Len(arg) - i) >>
  <2>2. N = i /\ Len(todo) = 3 /\ Tail(todo) = rest
    BY <2>1 DEF N, Do
  <2>3. /\ todo' = rest /\ arg' = Skip(arg, i)
        /\ UNCHANGED << call, payload, accepted >>
    <3>1. Proceed(Skip(arg, N)) /\ Len(todo) # 1
      BY <1>1, <2>2
    <3>2. /\ todo' = Tail(todo) /\ arg' = Skip(arg, N)
          /\ UNCHANGED << call, payload, accepted >>
      BY ONLY <3>1 DEF Proceed
    <3>3. QED
      BY <2>2, <3>2
  <2>4. /\ i \in 0..Len(arg) /\ ~Holds(Skip(arg, i), NL)
        /\ Take(arg, i) \in Seq(Byte) /\ Take(arg, i) # << >> /\ EndsLine(Take(arg, i))
    BY <2>1, LinesFirst
  <2>5. /\ writer_buf' \in Seq(Byte) /\ Len(writer_buf') <= WCap
        /\ sink' \o writer_buf' = (sink \o Remaining) \o Take(arg, i)
    BY <1>5, <2>2, <2>4
  <2>6. EndsLine(writer_buf')
    <3>1. /\ writer_buf \o Take(arg, i) # << >>
          /\ (writer_buf \o Take(arg, i))[Len(writer_buf \o Take(arg, i))]
               = Take(arg, i)[Len(Take(arg, i))]
      BY ONLY <1>4, <2>4, LastOfConcat
    <3>2. QED
      BY <1>1, <2>2, <2>4, <3>1 DEF EndsLine
  <2>7. \A p : At(p)' => p = "flush_buf"
    BY ONLY <2>3 DEF At, Do
  <2>8. Len(todo') = 2 /\ todo' \in PartialStages("write_all", Len(arg) - i)
    BY ONLY <2>3 DEF PartialStages
  <2>9. Unlined' /\ Bare' /\ ~At("put")' /\ ~At("put_all")'
    BY <2>7 DEF Unlined, Bare
  <2>10. written' = 0 /\ sink' \in Seq(Byte)
    BY <1>1, <1>3, <1>4
  <2> HIDE DEF rest
  <2>11. QED
    BY <1>7, <2>3, <2>4, <2>5, <2>6, <2>8, <2>9, <2>10, Advances
<1>8. QED
  BY <1>2, <1>3, <1>6, <1>7, AtPart DEF Parts

LEMMA PutDirectStep ==
  ASSUME Inv, PutDirect
  PROVE  Inv'
<1>1. /\ At("put") /\ N >= WCap /\ UNCHANGED << writer_buf, written >>
  BY DEF PutDirect
<1>2. /\ Control /\ ~At("flush_buf") /\ written = 0 /\ writer_buf = << >>
  <2>1. ~(N < WCap) \/ Len(arg) \notin Nat \/ N # Len(arg)
    BY <1>1, CapacityAssumption
  <2>2. Control /\ ~At("flush_buf")
    BY <1>1, Busy DEF Inv
  <2>3. N = Len(arg) /\ Len(arg) \in Nat
    <3>1. todo = << Do("put", Len(arg)) >>
      BY <1>1, <2>2, AtPart DEF Parts, Put
    <3>2. QED
      BY <3>1, Sizes DEF N, Do, Inv
  <2>4. QED
    BY <1>1, <2>1, <2>2, <2>3 DEF Inv, GuardAtRest, Fits
<1>3. call = "write" /\ N = Len(arg) /\ Len(arg) \in Nat
  <2>1. todo = << Do("put", Len(arg)) >> /\ call = "write"
    BY <1>1, <1>2, AtPart DEF Parts, Put, WriteCalls
  <2>2. QED
    BY <2>1, Sizes DEF N, Do, Inv
<1>4. CASE \E k \in 0..N : sink' = sink \o Take(arg, k) /\ Return("ok", Moved(arg) + k)
  <2>1. PICK k \in 0..Len(arg) : sink' = sink \o Take(arg, k) /\ Return("ok", Placed + k)
    BY <1>3, <1>4 DEF Placed
  <2>2. QED
    BY <1>1, <1>2, <1>3, <2>1, SendsOnly
<1>5. CASE \E kind \in {"err", "wpanic"} : Abandon(kind) /\ UNCHANGED sink
  <2>1. Remaining = writer_buf
    BY <1>2, Sizes DEF Inv
  <2>2. QED
    BY <1>1, <1>2, <1>5, <2>1, Abandons
<1>6. QED
  BY <1>4, <1>5 DEF PutDirect

LEMMA PutAllDirectStep ==
  ASSUME Inv, PutAllDirect
  PROVE  Inv'
<1>1. /\ At("put_all") /\ N >= WCap /\ UNCHANGED << writer_buf, written >>
  BY DEF PutAllDirect
<1>2. Control /\ ~At("flush_buf") /\ Len(arg) \in Nat /\ sink \in Seq(Byte)
  BY <1>1, Busy, Sizes DEF Inv, WriteTypes
<1>3. /\ call = "write_all"
      /\ \/ todo = << Do("put_all", Len(arg)) >>
         \/ \E i \in 1..Len(arg) :
               /\ IsLineEnd(arg, i)
               /\ todo = << Do("put_all", i), Do("flush_buf", 0),
                            Do("write_all", Len(arg) - i) >>
  BY <1>1, <1>2, AtPart DEF Parts, Put, WriteCalls
<1>4. N \in 0..Len(arg)
  <2>1. CASE todo = << Do("put_all", Len(arg)) >>
    BY <1>2, <2>1 DEF N, Do
  <2>2. CASE \E i \in 1..Len(arg) :
                todo = << Do("put_all", i), Do("flush_buf", 0),
                          Do("write_all", Len(arg) - i) >>
    <3>1. PICK i \in 1..Len(arg) :
             todo = << Do("put_all", i), Do("flush_buf", 0), Do("write_all", Len(arg) - i) >>
      BY <2>2
    <3>2. N = i
      BY ONLY <3>1 DEF N, Do
    <3>3. QED
      BY <1>2, <3>1, <3>2
  <2>3. QED
    BY <1>3, <2>1, <2>2
<1>5. written = 0 /\ writer_buf = << >> /\ Remaining = << >>
  <2>1. ~(N < WCap)
    BY <1>1, <1>2, <1>4, CapacityAssumption
  <2>2. written = 0 /\ writer_buf = << >>
    BY <1>1, <1>2, <2>1 DEF Inv, GuardAtRest, Fits
  <2>3. QED
    BY <2>2, Sizes DEF Inv
<1>6. CASE sink' = sink \o Take(arg, N) /\ Proceed(Skip(arg, N))
  <2>1. CASE Len(todo) = 1
    <3>1. Return("ok", Placed + N)
      BY <1>4, <1>6, <2>1, Placing DEF Proceed, Inv
    <3>2. QED
      BY <1>1, <1>2, <1>3, <1>4, <1>5, <1>6, <3>1, SendsOnly
  <2>2. CASE Len(todo) # 1
    <3>1. PICK i \in 1..Len(arg) :
             /\ IsLineEnd(arg, i)
             /\ todo = << Do("put_all", i), Do("flush_buf", 0),
                          Do("write_all", Len(arg) - i) >>
      BY <1>3, <2>2
    <3> DEFINE rest == << Do("flush_buf", 0), Do("write_all", Len(arg) - i) >>
    <3>2. N = i /\ Tail(todo) = rest
      BY <3>1 DEF N, Do
    <3>3. /\ todo' = rest /\ arg' = Skip(arg, i)
          /\ UNCHANGED << call, payload, accepted >>
      BY <1>6, <2>2, <3>2 DEF Proceed
    <3>4. /\ i \in 0..Len(arg) /\ ~Holds(Skip(arg, i), NL) /\ Take(arg, i) \in Seq(Byte)
      BY <3>1, LinesFirst
    <3>5. \A p : At(p)' => p = "flush_buf"
      BY ONLY <3>3 DEF At, Do
    <3>6. todo' \in PartialStages("write_all", Len(arg) - i)
      BY ONLY <3>3 DEF PartialStages
    <3>7. Unlined' /\ Bare' /\ ~At("put")' /\ ~At("put_all")'
      BY <3>5 DEF Unlined, Bare
    <3>8. /\ writer_buf' \in Seq(Byte) /\ Len(writer_buf') <= WCap
          /\ ~Holds(writer_buf', NL) /\ written' = 0
      BY <1>1, <1>5 DEF Inv, WriteTypes, CapacityKept, Holds
    <3>9. /\ sink' \in Seq(Byte)
          /\ sink' \o writer_buf' = (sink \o Remaining) \o Take(arg, i)
      <4>1. /\ sink \o << >> = sink /\ sink \o Take(arg, i) \in Seq(Byte)
            /\ (sink \o Take(arg, i)) \o << >> = sink \o Take(arg, i)
        BY ONLY <1>2, <3>4, Stretches
      <4>2. QED
        BY <1>1, <1>5, <1>6, <3>2, <4>1
    <3> HIDE DEF rest
    <3>10. QED
      BY <1>3, <3>3, <3>4, <3>6, <3>7, <3>8, <3>9, Advances
  <2>3. QED
    BY <2>1, <2>2
<1>7. CASE \E k \in 0..N, kind \in {"err", "wpanic"} :
              sink' = sink \o Take(arg, k) /\ Return(kind, Moved(Skip(arg, k)))
  <2>1. PICK k \in 0..N, kind \in {"err", "wpanic"} :
           sink' = sink \o Take(arg, k) /\ Return(kind, Moved(Skip(arg, k)))
    BY <1>7
  <2>2. k \in 0..Len(arg)
    BY <1>2, <1>4
  <2>3. Return(kind, Placed + k)
    BY <2>1, <2>2, Placing DEF Inv
  <2>4. QED
    BY <1>1, <1>2, <1>3, <1>5, <2>1, <2>2, <2>3, SendsOnly
<1>8. QED
  BY <1>6, <1>7 DEF PutAllDirect

-----------------------------------------------------------------------------
(* The lines that bypass the backend's write.                              *)

(* The device has taken k bytes, and what is kept of the rest ends a line  *)
(* or holds none.                                                          *)
LEMMA Keeps ==
  ASSUME Inv, NEW op \in {"line_write", "line_write_vectored"}, At(op),
         NEW k \in 0..Len(arg), NEW len \in 0..Len(arg) - k, KeepTail(k, len),
         LET t == Take(Skip(arg, k), Least(WCap, len)) IN Holds(t, NL) => EndsLine(t)
  PROVE  Inv'
<1> DEFINE b == Least(WCap, len)
<1>1. /\ Control /\ call = "write" /\ writer_buf = << >> /\ written = 0 /\ Len(arg) \in Nat
  <2>1. Control /\ ~At("flush_buf")
    BY Busy DEF Inv
  <2>2. call = "write"
    BY <2>1, AtLines
  <2>3. QED
    BY <2>1, <2>2, Sizes DEF Inv, Bare, GuardAtRest
<1>2. Room = WCap /\ Least(Room, len) = b
  BY <1>1, CapacityAssumption DEF Room
<1>3. b \in 0..Len(arg) - k /\ b <= WCap
  BY <1>1, CapacityAssumption DEF Least
<1> HIDE DEF b
<1>4. /\ sink' = sink \o Take(arg, k) /\ writer_buf' = writer_buf \o Take(Skip(arg, k), b)
      /\ Return("ok", Moved(arg) + k + b) /\ written' = written
  BY <1>2 DEF KeepTail
<1>5. Moved(arg) + k + b = Placed + (k + b)
  <2>1. Placed \in Nat /\ k \in Nat /\ b \in Nat
    BY <1>1, <1>3, Placing DEF Inv
  <2>2. QED
    BY <2>1 DEF Placed
<1>6. writer_buf' = Take(Skip(arg, k), b)
  <2>1. Skip(arg, k) \in Seq(Byte) /\ Len(Skip(arg, k)) = Len(arg) - k
    BY Placing DEF Inv
  <2>2. b \in 0..Len(Skip(arg, k))
    BY <1>3, <2>1
  <2>3. Take(Skip(arg, k), b) \in Seq(Byte)
    BY ONLY <2>1, <2>2, SliceType
  <2>4. << >> \o Take(Skip(arg, k), b) = Take(Skip(arg, k), b)
    BY ONLY <2>3, ConcatEmptySeq
  <2>5. QED
    BY <1>1, <1>4, <2>4
<1>7. Holds(writer_buf', NL) => EndsLine(writer_buf')
  BY <1>6 DEF b
<1>8. call # "write_all" /\ written' = 0 /\ Return("ok", Placed + (k + b))
  BY <1>1, <1>4, <1>5
<1>9. QED
  BY <1>1, <1>3, <1>4, <1>6, <1>7, <1>8, Sends

(* IsTail keeps out to a newline, or what has none.                        *)
LEMMA TailEndsLine ==
  ASSUME Inv, NEW i \in 1..Len(arg), IsLineEnd(arg, i), N = i,
         NEW k \in 1..i, NEW len \in 0..Len(arg), IsTail(Skip(arg, k), k, len)
  PROVE  /\ k \in 0..Len(arg) /\ len \in 0..Len(arg) - k
         /\ LET t == Take(Skip(arg, k), Least(WCap, len)) IN Holds(t, NL) => EndsLine(t)
<1> DEFINE rest == Skip(arg, k)  t == Take(rest, Least(WCap, len))
<1>1. /\ arg \in Seq(Byte) /\ Len(arg) \in Nat /\ k \in 0..Len(arg) /\ i \in Nat
      /\ arg[i] = NL /\ ~Holds(Skip(arg, i), NL)
  BY Sizes DEF Inv, WriteTypes, IsLineEnd
<1>2. /\ rest \in Seq(Byte) /\ Len(rest) = Len(arg) - k
      /\ \A j \in 1..Len(arg) - k : rest[j] = arg[k + j]
  BY <1>1, SliceType, SliceElements
<1> HIDE DEF rest
<1>3. CASE k >= i
  <2>1. k = i /\ len = Len(rest)
    BY <1>1, <1>3 DEF IsTail, rest
  <2>2. ~Holds(rest, NL) /\ len \in 0..Len(arg) - k
    BY <1>1, <1>2, <2>1 DEF rest
  <2>3. Least(WCap, len) \in 0..Len(rest)
    BY <1>1, <1>2, <2>1, CapacityAssumption DEF Least
  <2>4. ~Holds(t, NL)
    BY ONLY <1>2, <2>2, <2>3, HoldsSlice
  <2>5. QED
    BY <1>1, <2>2, <2>4 DEF rest
<1>4. CASE ~(k >= i) /\ i - k <= WCap
  <2>1. len = i - k
    BY <1>1, <1>4 DEF IsTail
  <2>2. /\ len \in 1..Len(rest) /\ len \in 0..Len(arg) - k /\ len \in 1..Len(arg) - k
        /\ Least(WCap, len) = len /\ k + len = i
    BY <1>1, <1>2, <1>4, <2>1, CapacityAssumption DEF Least
  <2>3. t # << >> /\ t[Len(t)] = rest[len]
    BY <1>2, <2>2, LastOfSlice
  <2>4. EndsLine(t)
    BY <1>1, <1>2, <2>2, <2>3 DEF EndsLine
  <2>5. QED
    BY <1>1, <2>2, <2>4 DEF rest
<1>5. CASE ~(k >= i) /\ ~(i - k <= WCap)
  <2>1. WCap \in 0..Len(rest) /\ WCap \in 0..Len(arg) - k
    BY <1>1, <1>2, <1>5, CapacityAssumption
  <2>2. \/ len \in 1..WCap /\ IsLineEnd(Take(rest, WCap), len)
        \/ len = WCap /\ ~Holds(Take(rest, WCap), NL)
    BY <1>1, <1>5 DEF IsTail, rest
  <2>3. CASE len \in 1..WCap /\ IsLineEnd(Take(rest, WCap), len)
    <3>1. /\ len \in 1..Len(rest) /\ len \in 0..Len(arg) - k /\ Least(WCap, len) = len
      BY <1>1, <1>2, <2>1, <2>3, CapacityAssumption DEF Least
    <3>2. Take(rest, WCap)[len] = rest[len]
      BY <1>2, <2>1, <2>3, SliceElements
    <3>3. t # << >> /\ t[Len(t)] = rest[len]
      BY <1>2, <3>1, LastOfSlice
    <3>4. EndsLine(t)
      BY <2>3, <3>2, <3>3 DEF EndsLine, IsLineEnd
    <3>5. QED
      BY <1>1, <3>1, <3>4 DEF rest
  <2>4. CASE len = WCap /\ ~Holds(Take(rest, WCap), NL)
    <3>1. Least(WCap, len) = WCap
      BY <2>4, CapacityAssumption DEF Least
    <3>2. QED
      BY <1>1, <2>1, <2>4, <3>1 DEF rest
  <2>5. QED
    BY <2>2, <2>3, <2>4
<1>6. QED
  BY <1>3, <1>4, <1>5

LEMMA LineWriteStep ==
  ASSUME Inv, LineWrite
  PROVE  Inv'
<1>1. At("line_write") /\ Control /\ Len(arg) \in Nat /\ arg \in Seq(Byte)
  BY Sizes DEF LineWrite, Inv, WriteTypes
<1>2. PICK i \in 1..Len(arg) : IsLineEnd(arg, i) /\ todo = << Do("line_write", i) >>
  BY <1>1, AtLines
<1>3. N = i
  BY <1>2 DEF N, Do
<1>4. CASE KeepTail(0, 0)
  <2>1. 0 \in 0..Len(arg) /\ 0 \in 0..Len(arg) - 0 /\ Least(WCap, 0) = 0
    BY <1>1, CapacityAssumption DEF Least
  <2>2. ~Holds(Take(Skip(arg, 0), 0), NL)
    BY <1>1, SliceEnds DEF Holds
  <2>3. QED
    BY <1>1, <1>4, <2>1, <2>2, Keeps
<1>5. CASE \E k \in 1..N, len \in 0..Len(arg) :
              IsTail(Skip(arg, k), k, len) /\ KeepTail(k, len)
  <2>1. PICK k \in 1..i, len \in 0..Len(arg) :
           IsTail(Skip(arg, k), k, len) /\ KeepTail(k, len)
    BY <1>3, <1>5
  <2>2. QED
    BY <1>1, <1>2, <1>3, <2>1, TailEndsLine, Keeps
<1>6. QED
  BY <1>4, <1>5 DEF LineWrite

LEMMA LineWriteVectoredStep ==
  ASSUME Inv, LineWriteVectored
  PROVE  Inv'
<1>1. At("line_write_vectored") /\ Control /\ Len(arg) \in Nat /\ arg \in Seq(Byte)
  BY Sizes DEF LineWriteVectored, Inv, WriteTypes
<1>2. PICK i \in 1..Len(arg) :
         /\ IsLineEnd(arg, i)
         /\ \E m \in i..Len(arg) : todo = << Do("line_write_vectored", m) >>
  BY <1>1, AtLines
<1>3. PICK m \in i..Len(arg) : todo = << Do("line_write_vectored", m) >>
  BY <1>2
<1>4. N = m /\ m \in 0..Len(arg) /\ i \in 0..Len(arg)
  BY <1>1, <1>2, <1>3 DEF N, Do
<1>5. CASE \E k \in 0..(N - 1) : KeepTail(k, 0)
  <2>1. PICK k \in 0..Len(arg) : KeepTail(k, 0)
    BY <1>1, <1>4, <1>5
  <2>2. Skip(arg, k) \in Seq(Byte)
    BY <1>1, SliceType
  <2>3. 0 \in 0..Len(arg) - k /\ Least(WCap, 0) = 0
    BY <1>1, CapacityAssumption DEF Least
  <2>4. ~Holds(Take(Skip(arg, k), 0), NL)
    BY <2>2, SliceEnds DEF Holds
  <2>5. QED
    BY <1>1, <2>1, <2>3, <2>4, Keeps
<1>6. CASE KeepTail(N, Len(arg) - N)
  <2> DEFINE len == Len(arg) - m  rest == Skip(arg, m)
  <2>1. /\ rest \in Seq(Byte) /\ Len(rest) = len /\ len \in 0..Len(arg) - m
        /\ Least(WCap, len) \in 0..Len(rest)
    <3>1. rest \in Seq(Byte) /\ Len(rest) = len
      BY <1>1, <1>4, SliceType
    <3>2. QED
      BY <1>1, <1>4, <3>1, CapacityAssumption DEF Least
  <2>2. ~Holds(rest, NL)
    <3>1. /\ Skip(arg, i) \in Seq(Byte) /\ Len(Skip(arg, i)) = Len(arg) - i
      BY <1>1, <1>4, SliceType
    <3>2. m - i \in 0..Len(arg) - i /\ m - i \in 0..Len(Skip(arg, i)) /\ i + (m - i) = m
      BY <1>1, <1>2, <1>3, <1>4, <3>1
    <3>3. ~Holds(Skip(Skip(arg, i), m - i), NL)
      BY <1>2, <3>1, <3>2, HoldsSlice DEF IsLineEnd
    <3>4. Skip(Skip(arg, i), m - i) = Skip(arg, i + (m - i))
      BY ONLY <1>1, <1>4, <3>2, SliceAgain
    <3>5. QED
      BY <3>2, <3>3, <3>4
  <2> HIDE DEF rest, len
  <2>3. ~Holds(Take(rest, Least(WCap, len)), NL)
    BY ONLY <2>1, <2>2, HoldsSlice
  <2>4. QED
    BY <1>1, <1>4, <1>6, <2>1, <2>3, Keeps DEF rest, len
<1>7. QED
  BY <1>5, <1>6 DEF LineWriteVectored

LEMMA LineWriteAllStep ==
  ASSUME Inv, LineWriteAll
  PROVE  Inv'
<1>1. /\ At("line_write_all") /\ Control /\ Len(arg) \in Nat /\ sink \in Seq(Byte)
      /\ UNCHANGED << writer_buf, written >>
  BY Sizes DEF LineWriteAll, Inv, WriteTypes, writerVars
<1>2. call = "write_all" /\ ~At("flush_buf")
  BY <1>1, AtLineWriteAll, Busy
<1>3. PICK i \in 1..Len(arg) :
         /\ IsLineEnd(arg, i)
         /\ todo = << Do("line_write_all", i), Do("write_all", Len(arg) - i) >>
  BY <1>1, AtLineWriteAll
<1>4. /\ writer_buf = << >> /\ written = 0 /\ Remaining = << >>
  <2>1. writer_buf = << >> /\ written = 0
    BY <1>1, <1>2 DEF Inv, Bare, GuardAtRest
  <2>2. QED
    BY <2>1, Sizes DEF Inv
<1> DEFINE rest == << Do("write_all", Len(arg) - i) >>
<1>5. N = i /\ Len(todo) # 1 /\ Tail(todo) = rest
  BY <1>3 DEF N, Do
<1>6. /\ i \in 0..Len(arg) /\ ~Holds(Skip(arg, i), NL) /\ Take(arg, i) \in Seq(Byte)
  BY <1>3, LinesFirst
<1>7. CASE sink' = sink \o Take(arg, N) /\ Proceed(Skip(arg, N))
  <2>1. /\ todo' = rest /\ arg' = Skip(arg, i)
        /\ UNCHANGED << call, payload, accepted >>
    BY <1>5, <1>7 DEF Proceed
  <2>2. \A p : At(p)' => p = "write_all"
    BY ONLY <2>1 DEF At, Do
  <2>3. todo' \in PartialStages("write_all", Len(arg) - i)
    BY ONLY <2>1 DEF PartialStages, WriteStages
  <2>4. /\ writer_buf' \in Seq(Byte) /\ Len(writer_buf') <= WCap
        /\ ~Holds(writer_buf', NL) /\ written' = 0
    BY <1>1, <1>4 DEF Inv, WriteTypes, CapacityKept, Holds
  <2>5. Unlined' /\ Bare' /\ ~At("put")' /\ ~At("put_all")'
    BY <2>2, <2>4 DEF Unlined, Bare
  <2>6. /\ sink' \in Seq(Byte)
        /\ sink' \o writer_buf' = (sink \o Remaining) \o Take(arg, i)
    <3>1. /\ sink \o << >> = sink /\ sink \o Take(arg, i) \in Seq(Byte)
          /\ (sink \o Take(arg, i)) \o << >> = sink \o Take(arg, i)
      BY ONLY <1>1, <1>6, Stretches
    <3>2. QED
      BY <1>1, <1>4, <1>5, <1>7, <3>1
  <2> HIDE DEF rest
  <2>7. QED
    BY <1>2, <1>6, <2>1, <2>3, <2>4, <2>5, <2>6, Advances
<1>8. CASE \E k \in 0..(N - 1), kind \in {"err", "wpanic"} :
              sink' = sink \o Take(arg, k) /\ Return(kind, Moved(Skip(arg, k)))
  <2>1. PICK k \in 0..(N - 1), kind \in {"err", "wpanic"} :
           sink' = sink \o Take(arg, k) /\ Return(kind, Moved(Skip(arg, k)))
    BY <1>8
  <2>2. k \in 0..Len(arg)
    BY <1>1, <1>3, <1>5
  <2>3. Return(kind, Placed + k)
    BY <2>1, <2>2, Placing DEF Inv
  <2>4. QED
    BY <1>1, <1>2, <1>4, <2>1, <2>2, <2>3, SendsOnly
<1>9. QED
  BY <1>7, <1>8 DEF LineWriteAll

LEMMA LinesFailStep ==
  ASSUME Inv, LinesFail
  PROVE  Inv'
<1>1. PICK kind \in {"err", "wpanic"} : Abandon(kind)
  BY DEF LinesFail
<1>2. PICK op \in {"line_write", "line_write_vectored"} : At(op)
  BY DEF LinesFail
<1>3. ~At("flush_buf") /\ UNCHANGED << writer_buf, written, sink >>
  BY <1>2, Busy DEF LinesFail, Inv, writerVars, outVars
<1>4. written = 0 /\ Remaining = writer_buf
  BY <1>3, Sizes DEF Inv, GuardAtRest
<1>5. QED
  BY <1>1, <1>3, <1>4, Abandons

-----------------------------------------------------------------------------
(* The flush of the device and the read half.                              *)

(* The frames of a read are the last ones of their call.                   *)
LEMMA AtRead ==
  ASSUME Control, NEW op \in {"read", "until"}, At(op)
  PROVE  /\ todo = << Do(op, LastN) >> /\ N = LastN
         /\ call = IF op = "read" THEN "read" ELSE "read_until"
<1>1. /\ todo # << >> /\ Head(todo).op = op /\ call \notin WriteCalls /\ call # "idle"
  BY AtOther DEF At
<1>2. \/ op = "read" /\ call = "read" /\ todo = << Do(op, LastN) >>
      \/ op = "until" /\ call = "read_until" /\ todo = << Do(op, LastN) >>
  <2>1. CASE call = "flush" /\ todo \in FlushStages
    BY <1>1, <2>1 DEF FlushStages, Do
  <2>2. CASE call = "read" /\ todo \in ReadStages(LastN)
    BY <1>1, <2>2 DEF ReadStages, Do
  <2>3. CASE call = "read_until" /\ todo \in UntilStages(LastN)
    BY <1>1, <2>3 DEF UntilStages, Do
  <2>4. CASE todo = << Do("fill_buf", 0) >> \/ todo = << Do("flush_buf", 0) >>
    BY <1>1, <2>4 DEF Do
  <2>5. QED
    BY <1>1, <2>1, <2>2, <2>3, <2>4 DEF Control, WriteCalls
<1>3. N = LastN
  <2> DEFINE n == LastN
  <2>1. todo = << Do(op, n) >>
    BY <1>2
  <2> HIDE DEF n
  <2>2. N = n
    BY ONLY <2>1 DEF N, Do
  <2>3. QED
    BY <2>2 DEF n
<1>4. QED
  BY <1>2, <1>3

(* A frame is done.                                                        *)
LEMMA GoesOn ==
  ASSUME Control, call \notin WriteCalls, call # "idle", Proceed(arg)
  PROVE  \/ UNCHANGED << call, payload, arg, accepted >> /\ Control'
         \/ \E kind, n : Return(kind, n)
<1>1. CASE Len(todo) = 1
  BY <1>1 DEF Proceed
<1>2. CASE Len(todo) # 1
  <2>1. todo' = Tail(todo) /\ UNCHANGED << call, payload, arg, accepted >>
    BY <1>2 DEF Proceed
  <2>2. QED
    BY <1>2, <2>1, TailStays
<1>3. QED
  BY <1>1, <1>2

LEMMA InnerFlushStep ==
  ASSUME Inv, InnerFlush
  PROVE  Inv'
<1>1. At("inner_flush") /\ UNCHANGED << writer_buf, written, sink >> /\ Control
  BY DEF InnerFlush, writerVars, Inv
<1>2. call \notin WriteCalls /\ call # "idle" /\ ~At("flush_buf")
  BY <1>1, AtOther, Busy
<1>3. \/ UNCHANGED << call, payload, arg, accepted >> /\ Control'
      \/ \E kind, n : Return(kind, n)
  BY <1>1, <1>2, GoesOn DEF InnerFlush, Abandon
<1>4. QED
  BY <1>1, <1>2, <1>3, OtherStep

LEMMA ReadStep ==
  ASSUME Inv, Read
  PROVE  Inv'
<1>1. PICK op \in {"read", "fill_buf", "copy", "until"} : At(op)
  BY DEF Read, ReadDirect, ReadBuffered, FillBuf, Copy, ReadUntil
<1>2. /\ Control /\ UNCHANGED << writer_buf, written, sink >>
  BY DEF Inv, Read, ReadDirect, ReadBuffered, FillBuf, Copy, ReadUntil, writerVars, outVars
<1>3. call \notin WriteCalls /\ call # "idle" /\ ~At("flush_buf")
  BY <1>1, <1>2, AtOther, Busy
<1> DEFINE Goes == \/ UNCHANGED << call, payload, arg, accepted >> /\ Control'
                   \/ \E kind, n : Return(kind, n)
<1>4. ASSUME ReadDirect PROVE Goes
  BY <1>4 DEF ReadDirect, Abandon
<1>5. ASSUME ReadBuffered PROVE Goes
  <2>1. todo = << Do("read", N) >> /\ call = "read"
    BY <1>2, <1>5, AtRead DEF ReadBuffered
  <2>2. /\ todo' = << Do("fill_buf", 0), Do("copy", N) >> \o Tail(todo)
        /\ UNCHANGED << call, payload, arg, accepted >>
    BY <1>5 DEF ReadBuffered, Become
  <2> DEFINE n == N  h == Do("fill_buf", 0)
  <2> HIDE DEF n
  <2>3. todo' = << h, Do("copy", n) >> \o << >>
    BY <2>1, <2>2 DEF n
  <2>4. todo' = << h, Do("copy", n) >>
    BY ONLY <2>3, ConcatEmptySeq
  <2>5. LastN' = n /\ todo' # << >>
    BY ONLY <2>4 DEF LastN, Do
  <2>6. call' = "read"
    BY <2>1, <2>2
  <2>7. Control'
    BY ONLY <2>4, <2>5, <2>6 DEF Control, ReadStages
  <2>8. QED
    BY <2>2, <2>7
<1>6. ASSUME FillBuf PROVE Goes
  <2>1. Proceed(arg) \/ \E kind, n : Return(kind, n)
    BY <1>6 DEF FillBuf, Abandon
  <2>2. QED
    BY <1>2, <1>3, <2>1, GoesOn
<1>7. ASSUME Copy PROVE Goes
  BY <1>7 DEF Copy
<1>8. ASSUME ReadUntil PROVE Goes
  <2>1. CASE \E kind, n : Return(kind, n)
    BY <2>1
  <2>2. CASE Become(<< Do("fill_buf", 0), Do("until", N + Len(Unread)) >>)
    <3> DEFINE n == N + Len(Unread)  h == Do("fill_buf", 0)
    <3>1. todo = << Do("until", N) >> /\ call = "read_until"
      BY <1>2, <1>8, AtRead DEF ReadUntil
    <3>2. /\ todo' = << h, Do("until", n) >> \o Tail(todo)
          /\ UNCHANGED << call, payload, arg, accepted >>
      BY <2>2 DEF Become
    <3> HIDE DEF n
    <3>3. todo' = << h, Do("until", n) >> \o << >>
      BY <3>1, <3>2
    <3>4. todo' = << h, Do("until", n) >>
      BY ONLY <3>3, ConcatEmptySeq
    <3>5. LastN' = n /\ todo' # << >>
      BY ONLY <3>4 DEF LastN, Do
    <3>6. call' = "read_until"
      BY <3>1, <3>2
    <3>7. Control'
      BY ONLY <3>4, <3>5, <3>6 DEF Control, UntilStages
    <3>8. QED
      BY <3>2, <3>7
  <2>3. QED
    BY <1>8, <2>1, <2>2 DEF ReadUntil
<1>9. Goes
  BY <1>4, <1>5, <1>6, <1>7, <1>8 DEF Read
<1>10. QED
  BY <1>2, <1>3, <1>9, OtherStep

-----------------------------------------------------------------------------
(* The calls.                                                              *)

(* What the caller offers is a byte string.                                *)
LEMMA OfferType ==
  ASSUME NEW p \in Offers
  PROVE  p \in Seq(Byte) /\ Len(p) \in Nat
<1>1. p \in Chunks(MaxArg)
  BY DEF Offers
<1>2. PICK k \in 0..MaxArg : p \in [1..k -> Byte]
  BY <1>1 DEF Chunks
<1>3. k \in Nat
  BY BoundAssumption
<1>4. QED
  BY <1>2, <1>3

LEMMA EntersOther ==
  ASSUME Inv, NEW name, NEW frames, Enter(name, frames, << >>),
         name # "idle", name \notin WriteCalls, Control'
  PROVE  Inv'
<1>1. call' = name
  BY DEF Enter
<1>2. \A op \in Parts \cup Bypasses : ~At(op)'
  BY <1>1, NoPart
<1>3. ~At("put")' /\ ~At("put_all")' /\ Bare' /\ Unlined'
  BY <1>2 DEF Parts, Bypasses, Bare, Unlined
<1>4. << >> \in Seq(Byte)
  BY EmptySeq
<1>5. QED
  BY <1>3, <1>4, Enters

LEMMA CallCommonStep ==
  ASSUME Inv, CallCommon
  PROVE  Inv'
<1> DEFINE f == Do("flush_buf", 0)  g == Do("inner_flush", 0)  h == Do("fill_buf", 0)
<1>1. ASSUME CallFlush PROVE Inv'
  <2>1. call' = "flush" /\ todo' = << f, g >>
    BY <1>1 DEF CallFlush, Enter, FlushFrames
  <2>2. Control'
    BY ONLY <2>1 DEF Control, FlushStages
  <2>3. QED
    BY <1>1, <2>2, EntersOther DEF CallFlush, WriteCalls
<1>2. ASSUME CallRead PROVE Inv'
  <2>1. PICK n : Enter("read", Append(FlushFrames, Do("read", n)), << >>)
    BY <1>2 DEF CallRead
  <2>2. call' = "read" /\ todo' = << f, g, Do("read", n) >>
    BY <2>1, FrameAppend DEF Enter, FlushFrames
  <2>3. LastN' = n /\ todo' # << >>
    BY ONLY <2>2 DEF LastN, Do
  <2>4. Control'
    BY ONLY <2>2, <2>3 DEF Control, ReadStages
  <2>5. QED
    BY <2>1, <2>4, EntersOther DEF WriteCalls
<1>3. ASSUME CallReadUntil PROVE Inv'
  <2>1. Enter("read_until", FlushFrames \o << h, Do("until", 0) >>, << >>)
    BY <1>3 DEF CallReadUntil
  <2>2. call' = "read_until" /\ todo' = << f, g, h, Do("until", 0) >>
    BY <2>1, FrameConcat DEF Enter, FlushFrames
  <2>3. LastN' = 0 /\ todo' # << >>
    BY ONLY <2>2 DEF LastN, Do
  <2>4. Control'
    BY ONLY <2>2, <2>3 DEF Control, UntilStages
  <2>5. QED
    BY <2>1, <2>4, EntersOther DEF WriteCalls
<1>4. ASSUME CallFillBuf PROVE Inv'
  <2>1. call' = "fill_buf" /\ todo' = << h >>
    BY <1>4 DEF CallFillBuf, Enter
  <2>2. Control'
    BY ONLY <2>1 DEF Control
  <2>3. QED
    BY <1>4, <2>2, EntersOther DEF CallFillBuf, WriteCalls
<1>5. ASSUME NEW name \in {"into_inner", "drop"}, Enter(name, << f >>, << >>) PROVE Inv'
  <2>1. call' = name /\ todo' = << f >>
    BY <1>5 DEF Enter
  <2>2. Control'
    BY ONLY <2>1, name \in {"into_inner", "drop"} DEF Control
  <2>3. QED
    BY <1>5, <2>2, EntersOther DEF WriteCalls
<1>6. ASSUME CallConsume PROVE Inv'
  BY <1>6, Untouched DEF CallConsume, writerVars, outVars, WriteCalls
<1>7. ASSUME CallDrop PROVE Inv'
  <2>1. CASE Enter("drop", << f >>, << >>)
    BY <1>5, <2>1
  <2>2. CASE ~Enter("drop", << f >>, << >>)
    BY <1>7, <2>2, Untouched DEF CallDrop, writerVars, outVars, WriteCalls
  <2>3. QED
    BY <2>1, <2>2
<1>8. QED
  BY <1>1, <1>2, <1>3, <1>4, <1>5, <1>6, <1>7 DEF CallCommon, CallIntoInner

(* A write without a line end.                                             *)
LEMMA CallWritePartialStep ==
  ASSUME Inv, CallWritePartial
  PROVE  Inv'
<1>1. PICK p \in Offers, name \in WriteCalls :
         /\ ~Holds(p, NL)
         /\ Enter(name, FlushIfCompletedLine \o << Do(name, Len(p)) >>, p)
  BY DEF CallWritePartial
<1>2. p \in Seq(Byte) /\ name # "idle"
  BY OfferType DEF WriteCalls
<1>3. /\ call = "idle" /\ call' = name /\ arg' = p /\ writer_buf' = writer_buf
      /\ todo' = FlushIfCompletedLine \o << Do(name, Len(p)) >>
  BY <1>1 DEF Enter, writerVars
<1>4. CASE EndsLine(writer_buf)
  <2>1. todo' = << Do("flush_buf", 0), Do(name, Len(p)) >>
    BY <1>3, <1>4, FrameFront DEF FlushIfCompletedLine
  <2>2. todo' \in PartialStages(name, Len(p))
    BY ONLY <2>1 DEF PartialStages
  <2>3. \A op : At(op)' => op = "flush_buf"
    BY ONLY <2>1 DEF At, Do
  <2>4. Control'
    BY ONLY <1>1, <1>3, <2>2, name \in WriteCalls DEF Control
  <2>5. Bare' /\ Unlined' /\ ~At("put")' /\ ~At("put_all")'
    BY <2>3 DEF Bare, Unlined
  <2>6. QED
    BY <1>1, <1>2, <2>4, <2>5, Enters
<1>5. CASE ~EndsLine(writer_buf)
  <2>1. todo' = << Do(name, Len(p)) >>
    BY <1>3, <1>5, ConcatEmptySeq DEF FlushIfCompletedLine
  <2>2. todo' \in PartialStages(name, Len(p))
    BY ONLY <2>1 DEF PartialStages, WriteStages
  <2>3. \A op : At(op)' => op = name
    BY ONLY <2>1 DEF At, Do
  <2>4. Control'
    BY ONLY <1>1, <1>3, <2>2, name \in WriteCalls DEF Control
  <2>5. ~Holds(writer_buf, NL)
    BY <1>3, <1>5, Idle DEF Inv, Stale
  <2>6. Bare' /\ Unlined' /\ ~At("put")' /\ ~At("put_all")'
    BY <1>3, <2>3, <2>5 DEF Bare, Unlined, WriteCalls
  <2>7. QED
    BY <1>1, <1>2, <2>4, <2>6, Enters
<1>6. QED
  BY <1>4, <1>5

(* write and write_vectored of lines.                                      *)
LEMMA CallWriteLinesStep ==
  ASSUME Inv, CallWriteLines \/ CallWriteVectored
  PROVE  Inv'
<1>1. PICK p \in Offers : \E i \in 1..Len(p) :
         /\ IsLineEnd(p, i)
         /\ \E m \in i..Len(p), op \in {"line_write", "line_write_vectored"} :
               /\ Enter("write", << Do("flush_buf", 0), Do(op, m) >>, p)
               /\ op = "line_write" => m = i
  <2>1. CASE CallWriteLines
    <3>1. PICK p \in Offers, i \in Nat :
             /\ i \in 1..Len(p) /\ IsLineEnd(p, i)
             /\ Enter("write", << Do("flush_buf", 0), Do("line_write", i) >>, p)
      BY <2>1 DEF CallWriteLines
    <3>2. i \in i..Len(p)
      BY <3>1
    <3>3. QED
      BY <3>1, <3>2
  <2>2. CASE CallWriteVectored
    BY <2>2 DEF CallWriteVectored
  <2>3. QED
    BY <2>1, <2>2
<1>2. PICK i \in 1..Len(p) :
         /\ IsLineEnd(p, i)
         /\ \E m \in i..Len(p), op \in {"line_write", "line_write_vectored"} :
               /\ Enter("write", << Do("flush_buf", 0), Do(op, m) >>, p)
               /\ op = "line_write" => m = i
  BY <1>1
<1>3. PICK m \in i..Len(p), op \in {"line_write", "line_write_vectored"} :
         /\ Enter("write", << Do("flush_buf", 0), Do(op, m) >>, p)
         /\ op = "line_write" => m = i
  BY <1>2
<1>4. p \in Seq(Byte) /\ "write" # "idle" /\ "write" \in WriteCalls
  BY OfferType DEF WriteCalls
<1>5. /\ call' = "write" /\ arg' = p
      /\ todo' = << Do("flush_buf", 0), Do(op, m) >>
  BY <1>3 DEF Enter
<1>6. todo' \in LineStages(op, m)
  BY ONLY <1>5 DEF LineStages
<1>7. \A q : At(q)' => q = "flush_buf"
  BY ONLY <1>5 DEF At, Do
<1>8. Control'
  <2>1. op = "line_write" => todo' \in LineStages("line_write", i)
    BY <1>3, <1>6
  <2>2. op = "line_write_vectored" => todo' \in LineStages("line_write_vectored", m)
    BY <1>6
  <2>3. QED
    BY ONLY <1>2, <1>5, <2>1, <2>2, i \in 1..Len(p), m \in i..Len(p),
            op \in {"line_write", "line_write_vectored"} DEF Control
<1>9. Bare' /\ Unlined' /\ ~At("put")' /\ ~At("put_all")'
  BY <1>7 DEF Bare, Unlined
<1>10. QED
  BY <1>3, <1>4, <1>8, <1>9, Enters

(* write_all of lines.                                                     *)
LEMMA CallWriteAllLinesStep ==
  ASSUME Inv, CallWriteAllLines
  PROVE  Inv'
<1>1. PICK p \in Offers : \E i \in 1..Len(p) :
         /\ IsLineEnd(p, i)
         /\ Enter("write_all",
                  (IF writer_buf = << >> THEN << Do("line_write_all", i) >>
                   ELSE << Do("write_all", i), Do("flush_buf", 0) >>)
                  \o << Do("write_all", Len(p) - i) >>, p)
  BY DEF CallWriteAllLines
<1>2. PICK i \in 1..Len(p) :
         /\ IsLineEnd(p, i)
         /\ Enter("write_all",
                  (IF writer_buf = << >> THEN << Do("line_write_all", i) >>
                   ELSE << Do("write_all", i), Do("flush_buf", 0) >>)
                  \o << Do("write_all", Len(p) - i) >>, p)
  BY <1>1
<1>3. p \in Seq(Byte) /\ "write_all" # "idle" /\ "write_all" \in WriteCalls
  BY OfferType DEF WriteCalls
<1> DEFINE w == Do("write_all", Len(p) - i)
<1>4. /\ call' = "write_all" /\ arg' = p /\ writer_buf' = writer_buf
  BY <1>2 DEF Enter, writerVars
<1>5. CASE writer_buf = << >>
  <2>1. todo' = << Do("line_write_all", i), w >>
    BY <1>2, <1>5, FrameFront DEF Enter
  <2>2. todo' \in LineAllStages(i, Len(p) - i)
    BY ONLY <2>1 DEF LineAllStages
  <2>3. \A q : At(q)' => q = "line_write_all"
    BY ONLY <2>1 DEF At, Do
  <2>4. Control'
    BY ONLY <1>2, <1>4, <2>2, i \in 1..Len(p) DEF Control
  <2>5. Bare' /\ Unlined' /\ ~At("put")' /\ ~At("put_all")'
    BY <1>4, <1>5, <2>3 DEF Bare, Unlined
  <2>6. QED
    BY <1>2, <1>3, <2>4, <2>5, Enters
<1>6. CASE writer_buf # << >>
  <2>1. todo' = << Do("write_all", i), Do("flush_buf", 0), w >>
    <3>1. todo' = << Do("write_all", i), Do("flush_buf", 0) >> \o << w >>
      BY <1>2, <1>6 DEF Enter
    <3>2. QED
      BY ONLY <3>1, FrameBehind
  <2>2. todo' \in LineAllStages(i, Len(p) - i)
    BY ONLY <2>1 DEF LineAllStages
  <2>3. (\A q : At(q)' => q = "write_all") /\ Len(todo') = 3
    BY ONLY <2>1 DEF At, Do
  <2>4. Control'
    BY ONLY <1>2, <1>4, <2>2, i \in 1..Len(p) DEF Control
  <2>5. Bare' /\ Unlined' /\ ~At("put")' /\ ~At("put_all")'
    BY <2>3 DEF Bare, Unlined
  <2>6. QED
    BY <1>2, <1>3, <2>4, <2>5, Enters
<1>7. QED
  BY <1>5, <1>6

-----------------------------------------------------------------------------
(* The invariant, and what follows from it.                                *)

LEMMA InitInv == Init => Inv
<1> SUFFICES ASSUME Init PROVE Inv
  OBVIOUS
<1>1. /\ writer_buf = << >> /\ written = 0 /\ call = "idle" /\ todo = << >>
      /\ payload = << >> /\ arg = << >> /\ sink = << >> /\ accepted = << >>
      /\ result.of = "new"
  BY DEF Init
<1>2. /\ << >> \in Seq(Byte) /\ Len(<< >>) = 0 /\ Take(<< >>, 0) = << >>
      /\ Skip(<< >>, 0) = << >> /\ 0 \in 0..Len(<< >>)
  <2>1. << >> \in Seq(Byte) /\ Len(<< >>) = 0
    BY EmptySeq
  <2>2. Take(<< >>, 0) = << >> /\ Skip(<< >>, 0) = << >>
    BY <2>1, SliceEnds
  <2>3. QED
    BY <2>1, <2>2
<1>3. Placed = 0 /\ Remaining = << >>
  BY <1>1, <1>2 DEF Placed, Moved, Remaining
<1>4. WriteTypes /\ Control /\ Offered
  BY <1>1, <1>2, <1>3 DEF WriteTypes, Control, Offered
<1>5. \A op : ~At(op)
  BY <1>1 DEF At
<1>6. GuardAtRest /\ Fits /\ Bare /\ Unlined
  BY <1>1, <1>5 DEF GuardAtRest, Fits, Bare, Unlined
<1>7. Stale /\ Accounted /\ CapacityKept
  BY <1>1, <1>2, <1>3, CapacityAssumption DEF Stale, Holds, Accounted, CapacityKept
<1>8. LinesRetried /\ WriteAllSendsLines
  BY <1>1 DEF LinesRetried, WriteAllSendsLines, WriteCalls
<1>9. QED
  BY <1>4, <1>6, <1>7, <1>8 DEF Inv

LEMMA NextInv == Inv /\ [Next]_vars => Inv'
<1> SUFFICES ASSUME Inv, [Next]_vars PROVE Inv'
  OBVIOUS
<1>1. CASE UNCHANGED vars
  BY <1>1, Untouched DEF vars, writerVars, callVars, outVars
<1>2. CASE CallWrite
  BY <1>2, CallWritePartialStep, CallWriteLinesStep, CallWriteAllLinesStep DEF CallWrite
<1>3. CASE Write
  BY <1>3, MakeRoomStep, BufferStep, PutDirectStep, PutAllDirectStep DEF Write
<1>4. CASE Lines
  BY <1>4, LineWriteStep, LineWriteVectoredStep, LineWriteAllStep, LinesFailStep DEF Lines
<1>5. CASE CallCommon \/ FlushBuf \/ InnerFlush \/ Read
  BY <1>5, CallCommonStep, FlushBufStep, InnerFlushStep, ReadStep
<1>6. QED
  BY <1>1, <1>2, <1>3, <1>4, <1>5 DEF Next, Closed

(* The inductive invariant holds of every state.                           *)
THEOREM Invariant == Spec => []Inv
<1>1. QED
  BY InitInv, NextInv, PTL DEF Spec

(* What the device has, what is buffered and what the call in progress has *)
(* not placed yet are together what the caller was told is written and the *)
(* argument, in order: for every capacity, through partial writes, bypassed*)
(* lines, failed flushes and caught panics.                                *)
THEOREM OutConservedCorrect == Spec => []OutConserved
<1>1. Inv => OutConserved
  <2> SUFFICES ASSUME Inv PROVE OutConserved
    OBVIOUS
  <2>1. accepted \in Seq(Byte) /\ payload \in Seq(Byte) /\ Placed \in 0..Len(payload)
    BY DEF Inv, WriteTypes, Offered
  <2>2. (accepted \o Take(payload, Placed)) \o Skip(payload, Placed) = accepted \o payload
    BY ONLY <2>1, SliceJoin
  <2>3. arg = Skip(payload, Placed) /\ sink \o Remaining = accepted \o Take(payload, Placed)
    BY DEF Inv, Offered, Accounted
  <2>4. QED
    BY <2>2, <2>3 DEF OutConserved
<1>2. QED
  BY <1>1, Invariant, PTL

(* The line writer never outgrows its buffer either.                       *)
THEOREM CapacityKeptCorrect == Spec => []CapacityKept
<1>1. Inv => CapacityKept
  BY DEF Inv
<1>2. QED
  BY <1>1, Invariant, PTL

(* A line that stays in the buffer ends it, where flush_if_completed_line  *)
(* looks for it.                                                           *)
THEOREM StaleLineIsLastCorrect == Spec => []StaleLineIsLast
<1>1. Inv => StaleLineIsLast
  BY DEF Inv, Stale, StaleLineIsLast
<1>2. QED
  BY <1>1, Invariant, PTL

(* A write that succeeds has sent every line completed before it.          *)
THEOREM LinesRetriedCorrect == Spec => []LinesRetried
<1>1. Inv => LinesRetried
  BY DEF Inv
<1>2. QED
  BY <1>1, Invariant, PTL

(* And a write_all that succeeds every line there is.                      *)
THEOREM WriteAllSendsLinesCorrect == Spec => []WriteAllSendsLines
<1>1. Inv => WriteAllSendsLines
  BY DEF Inv
<1>2. QED
  BY <1>1, Invariant, PTL

-----------------------------------------------------------------------------
(* The read half, the types and what a user of the two-way channel sees.   *)

Kinds == {"ok", "err", "wpanic", "panic"}
Frame == [op : Ops, n : Nat]

(* A step of a call in progress: it stays where it is, returns what is in  *)
(* the argument's range, or goes on with other frames.                     *)
Turn ==
    \/ UNCHANGED callVars
    \/ \E kind \in Kinds, n \in Nat :
          (call \in WriteCalls => n <= Len(payload)) /\ Return(kind, n)
    \/ /\ todo' = Tail(todo) \/ \E frames \in Seq(Frame) : todo' = frames \o Tail(todo)
       /\ UNCHANGED << open, call, payload, result, accepted >>

(* Frames are records.                                                     *)
LEMMA FrameType ==
  ASSUME NEW op \in Ops, NEW n \in Nat
  PROVE  Do(op, n) \in Frame /\ << Do(op, n) >> \in Seq(Frame)
<1>1. Do(op, n) \in Frame
  BY DEF Do, Frame
<1>2. QED
  BY <1>1

LEMMA FrameTypes ==
  ASSUME NEW s \in Seq(Frame), NEW t \in Seq(Frame)
  PROVE  s \o t \in Seq(Frame)
BY ConcatProperties

LEMMA FramePair ==
  ASSUME NEW f \in Frame, NEW g \in Frame
  PROVE  << f, g >> \in Seq(Frame)
OBVIOUS

(* A call at a frame knows its size.                                       *)
LEMMA HeadType ==
  ASSUME TypeOK, todo # << >>
  PROVE  N \in Nat /\ todo \in Seq(Frame) /\ Tail(todo) \in Seq(Frame)
<1>1. todo \in Seq(Frame)
  BY DEF TypeOK, CallTypes, Frame
<1>2. Head(todo) \in Frame /\ Tail(todo) \in Seq(Frame)
  BY <1>1, HeadTailProperties
<1>3. QED
  BY <1>1, <1>2 DEF N, Frame

(* The types of a call survive its steps.                                  *)
LEMMA TurnTypes ==
  ASSUME TypeOK, Inv', call # "idle", todo # << >>, Turn
  PROVE  CallTypes' /\ call' \in {call, "idle"}
<1>1. payload' \in Seq(Byte) /\ arg' \in Seq(Byte) /\ accepted' \in Seq(Byte)
  BY DEF Inv, WriteTypes
<1>2. /\ open \in BOOLEAN /\ call \in PublicCalls
      /\ result \in [of : PublicCalls \cup {"new"}, n : Nat,
                     kind : {"ok", "err", "wpanic", "panic", "skipped"}]
  BY DEF TypeOK, CallTypes
<1>3. CASE UNCHANGED callVars
  BY <1>3 DEF callVars, TypeOK, CallTypes
<1>4. ASSUME NEW kind \in Kinds, NEW n \in Nat, Return(kind, n)
      PROVE  CallTypes' /\ call' = "idle"
  <2>1. /\ call' = "idle" /\ todo' = << >> /\ open' \in BOOLEAN
        /\ result' = [of |-> call, kind |-> kind, n |-> n]
    BY <1>2, <1>4 DEF Return
  <2>2. result' \in [of : PublicCalls \cup {"new"}, n : Nat,
                     kind : {"ok", "err", "wpanic", "panic", "skipped"}]
    BY ONLY <1>2, <2>1, n \in Nat, kind \in Kinds DEF Kinds
  <2>3. todo' \in Seq([op : Ops, n : Nat])
    BY <2>1, EmptySeq
  <2>4. QED
    BY <1>1, <2>1, <2>2, <2>3 DEF CallTypes
<1>5. ASSUME todo' = Tail(todo) \/ \E frames \in Seq(Frame) : todo' = frames \o Tail(todo),
             UNCHANGED << open, call, payload, result, accepted >>
      PROVE  CallTypes' /\ call' = call
  <2>1. Tail(todo) \in Seq(Frame)
    BY HeadType
  <2>2. todo' \in Seq(Frame)
    BY <1>5, <2>1, FrameTypes
  <2>3. QED
    BY <1>1, <1>2, <1>5, <2>2 DEF CallTypes, Frame
<1>6. QED
  BY <1>3, <1>4, <1>5 DEF Turn

(* What a call says of its argument: nothing yet, or how much it has taken.*)
LEMMA TurnTells ==
  ASSUME Inv, call # "idle", Turn
  PROVE  \/ UNCHANGED << accepted, payload >>
         \/ /\ payload' = << >>
            /\ \E k \in 0..Len(payload) : accepted' = accepted \o SubSeq(payload, 1, k)
<1>1. accepted \in Seq(Byte) /\ payload \in Seq(Byte) /\ Len(payload) \in Nat
  BY Sizes DEF Inv, WriteTypes
<1>2. ASSUME NEW kind \in Kinds, NEW n \in Nat, Return(kind, n),
             call \in WriteCalls => n <= Len(payload)
      PROVE  /\ payload' = << >>
             /\ \E k \in 0..Len(payload) : accepted' = accepted \o SubSeq(payload, 1, k)
  <2>1. payload' = << >>
    BY <1>2 DEF Return
  <2>2. CASE accepted' = accepted
    <3>1. Take(payload, 0) = << >> /\ accepted \o << >> = accepted /\ 0 \in 0..Len(payload)
      BY <1>1, SliceEnds, ConcatEmptySeq
    <3>2. QED
      BY <2>1, <2>2, <3>1 DEF Take
  <2>3. CASE call \in WriteCalls /\ accepted' = accepted \o Take(payload, n)
    <3>1. n \in 0..Len(payload)
      BY <1>1, <1>2, <2>3
    <3>2. QED
      BY <2>1, <2>3, <3>1 DEF Take
  <2>4. QED
    BY <1>2, <2>2, <2>3 DEF Return, WriteCalls
<1>3. QED
  BY <1>2 DEF Turn, callVars

(* The last frame returns, any other one makes way for the next.           *)
LEMMA ProceedTurn ==
  ASSUME Inv, NEW k \in 0..Len(arg), NEW rest, Moved(rest) = Placed + k, Proceed(rest)
  PROVE  Turn
<1>1. Placed + k \in Nat /\ Placed + k <= Len(payload)
  BY Placing, Sizes DEF Inv
<1>2. "ok" \in Kinds
  BY DEF Kinds
<1>3. QED
  BY <1>1, <1>2 DEF Proceed, Turn

LEMMA ReturnTurn ==
  ASSUME Inv, NEW k \in 0..Len(arg), NEW kind \in Kinds, Return(kind, Placed + k)
  PROVE  Turn
<1>1. Placed + k \in Nat /\ Placed + k <= Len(payload)
  BY Placing, Sizes DEF Inv
<1>2. QED
  BY <1>1 DEF Turn

LEMMA StopTurn ==
  ASSUME Inv
  PROVE  /\ Proceed(arg) => Turn
         /\ \A kind \in Kinds : Abandon(kind) => Turn
<1>1. Len(arg) \in Nat /\ 0 \in 0..Len(arg) /\ Placed \in Nat
  BY Sizes, Placing DEF Inv
<1>2. Moved(arg) = Placed /\ Placed + 0 = Placed
  BY <1>1 DEF Placed
<1>3. QED
  BY <1>1, <1>2, ProceedTurn, ReturnTurn DEF Abandon

(* The write half sends bytes after those the device has, and leaves the   *)
(* rest alone.                                                             *)
Sending ==
    /\ Turn /\ UNCHANGED << readerVars, synced, inVars >> /\ panicked' \in BOOLEAN
    /\ \E bytes \in Seq(Byte) : sink' = sink \o bytes

(* Nothing, or what is taken of the argument.                              *)
LEMMA SendsNothing ==
  ASSUME Inv, sink' = sink
  PROVE  \E bytes \in Seq(Byte) : sink' = sink \o bytes
<1>1. << >> \in Seq(Byte) /\ sink \o << >> = sink
  BY EmptySeq, ConcatEmptySeq DEF Inv, WriteTypes
<1>2. QED
  BY <1>1

LEMMA FlushSends ==
  ASSUME Inv, TypeOK, FlushBuf
  PROVE  Sending /\ At("flush_buf")
<1>1. /\ At("flush_buf") /\ UNCHANGED << readerVars, synced, inVars >>
      /\ panicked' \in BOOLEAN
  BY DEF FlushBuf, FlushWrite, FlushInterrupted, FlushFail, FlushPanic, FlushDone, Flushing,
         outVars, TypeOK, BufferTypes
<1>2. Turn
  <2>1. "err" \in Kinds /\ "wpanic" \in Kinds
    BY DEF Kinds
  <2>2. UNCHANGED callVars \/ Proceed(arg) \/ \E kind \in Kinds : Abandon(kind)
    BY <2>1 DEF FlushBuf, FlushWrite, FlushInterrupted, FlushFail, FlushPanic, FlushDone
  <2>3. QED
    BY <2>2, StopTurn DEF Turn
<1>3. CASE FlushWrite
  <2>1. PICK n \in 1..Len(Remaining) : sink' = sink \o Take(Remaining, n)
    BY <1>3 DEF FlushWrite
  <2>2. Take(Remaining, n) \in Seq(Byte)
    BY <2>1, Sizes, SliceType DEF Inv
  <2>3. QED
    BY <1>1, <1>2, <2>1, <2>2 DEF Sending
<1>4. CASE ~FlushWrite
  <2>1. sink' = sink
    BY <1>4 DEF FlushBuf, FlushInterrupted, FlushFail, FlushPanic, FlushDone, outVars
  <2>2. QED
    BY <1>1, <1>2, <2>1, SendsNothing DEF Sending
<1>5. QED
  BY <1>3, <1>4

(* A part of the argument that the backend places is no longer than it.    *)
LEMMA PartSize ==
  ASSUME Inv, NEW op \in Parts, At(op)
  PROVE  N \in 0..Len(arg) /\ Len(arg) \in Nat /\ call \in WriteCalls /\ todo # << >>
<1>1. Len(arg) \in Nat /\ Control
  BY Sizes DEF Inv
<1>2. CASE todo = << Do(op, Len(arg)) >>
  <2>1. N = Len(arg)
    BY <1>2 DEF N, Do
  <2>2. QED
    BY <1>1, <2>1, AtPart, Busy
<1>3. CASE \E i \in 1..Len(arg) :
              todo = << Do(op, i), Do("flush_buf", 0), Do("write_all", Len(arg) - i) >>
  <2>1. N \in 1..Len(arg)
    BY <1>3 DEF N, Do
  <2>2. QED
    BY <1>1, <2>1, AtPart, Busy
<1>4. QED
  BY <1>1, <1>2, <1>3, AtPart

LEMMA WriteSends ==
  ASSUME Inv, TypeOK, Write
  PROVE  Sending /\ call \in WriteCalls
<1>1. PICK op \in Parts : At(op)
  BY DEF Write, MakeRoom, Buffer, PutDirect, PutAllDirect, Parts, WriteCalls
<1>2. /\ N \in 0..Len(arg) /\ Len(arg) \in Nat /\ call \in WriteCalls /\ todo # << >>
      /\ Tail(todo) \in Seq(Frame) /\ N \in Nat /\ Placed \in Nat
  BY <1>1, PartSize, HeadType, Placing DEF Inv
<1>3. /\ UNCHANGED << readerVars, synced, inVars >> /\ panicked' \in BOOLEAN
  BY DEF Write, MakeRoom, Buffer, PutDirect, PutAllDirect, writerVars, outVars,
         TypeOK, BufferTypes
<1>4. Moved(arg) = Placed /\ \A k \in 0..Len(arg) : Moved(Skip(arg, k)) = Placed + k
  BY Placing DEF Inv, Placed
<1>5. "ok" \in Kinds /\ "err" \in Kinds /\ "wpanic" \in Kinds
  BY DEF Kinds
<1>6. \A k \in 0..N : Take(arg, k) \in Seq(Byte)
  BY <1>2, SliceType DEF Inv, WriteTypes
<1>7. CASE MakeRoom
  <2>1. \E frames \in Seq(Frame) : Become(frames)
    <3>1. PICK c \in WriteCalls :
            Become(IF Len(writer_buf) + N > WCap
                   THEN << Do("flush_buf", 0), Do(Put(c), N) >> ELSE << Do(Put(c), N) >>)
      BY <1>7 DEF MakeRoom
    <3>2. Put(c) \in Ops /\ "flush_buf" \in Ops /\ 0 \in Nat
      BY DEF Put, Ops
    <3>3. Do("flush_buf", 0) \in Frame /\ Do(Put(c), N) \in Frame
          /\ << Do(Put(c), N) >> \in Seq(Frame)
      BY <1>2, <3>2, FrameType
    <3>4. << Do("flush_buf", 0), Do(Put(c), N) >> \in Seq(Frame)
      BY <3>3, FramePair
    <3>5. QED
      BY <3>1, <3>3, <3>4
  <2>2. Turn
    BY <2>1 DEF Become, Turn
  <2>3. sink' = sink
    BY <1>7 DEF MakeRoom, outVars
  <2>4. QED
    BY <1>2, <1>3, <2>2, <2>3, SendsNothing DEF Sending
<1>8. CASE Buffer
  <2>1. Proceed(Skip(arg, N)) /\ sink' = sink
    BY <1>8 DEF Buffer, outVars
  <2>2. Turn
    BY <1>2, <1>4, <2>1, ProceedTurn
  <2>3. QED
    BY <1>2, <1>3, <2>1, <2>2, SendsNothing DEF Sending
<1>9. CASE PutDirect
  <2>1. CASE \E k \in 0..N : sink' = sink \o Take(arg, k) /\ Return("ok", Moved(arg) + k)
    <3>1. PICK k \in 0..N : sink' = sink \o Take(arg, k) /\ Return("ok", Moved(arg) + k)
      BY <2>1
    <3>2. Return("ok", Placed + k) /\ k \in 0..Len(arg)
      BY <1>2, <1>4, <3>1
    <3>3. Turn
      BY <1>5, <3>2, ReturnTurn
    <3>4. QED
      BY <1>2, <1>3, <1>6, <3>1, <3>3 DEF Sending
  <2>2. CASE (Abandon("err") \/ Abandon("wpanic")) /\ UNCHANGED sink
    BY <1>2, <1>3, <1>5, <2>2, StopTurn, SendsNothing DEF Sending
  <2>3. QED
    BY <1>9, <2>1, <2>2 DEF PutDirect
<1>10. CASE PutAllDirect
  <2>1. CASE sink' = sink \o Take(arg, N) /\ Proceed(Skip(arg, N))
    <3>1. Turn
      BY <1>2, <1>4, <2>1, ProceedTurn
    <3>2. N \in 0..N
      BY <1>2
    <3>3. QED
      BY <1>2, <1>3, <1>6, <2>1, <3>1, <3>2 DEF Sending
  <2>2. CASE \E k \in 0..N, kind \in {"err", "wpanic"} :
               sink' = sink \o Take(arg, k) /\ Return(kind, Moved(Skip(arg, k)))
    <3>1. PICK k \in 0..N, kind \in {"err", "wpanic"} :
             sink' = sink \o Take(arg, k) /\ Return(kind, Moved(Skip(arg, k)))
      BY <2>2
    <3>2. k \in 0..Len(arg) /\ Return(kind, Placed + k) /\ kind \in Kinds
      BY <1>2, <1>4, <1>5, <3>1
    <3>3. Turn
      BY <3>2, ReturnTurn
    <3>4. QED
      BY <1>2, <1>3, <1>6, <3>1, <3>3 DEF Sending
  <2>3. QED
    BY <1>10, <2>1, <2>2 DEF PutAllDirect
<1>11. QED
  BY <1>7, <1>8, <1>9, <1>10 DEF Write

(* Lines that bypass the buffer, with what is kept of them.                *)
LEMMA KeepSends ==
  ASSUME Inv, TypeOK, call = "write", writer_buf = << >>,
         NEW k \in 0..Len(arg), NEW len \in 0..Len(arg) - k, KeepTail(k, len)
  PROVE  Sending
<1> DEFINE buffered == Least(Room, len)
<1>1. Len(arg) \in Nat /\ arg \in Seq(Byte) /\ Placed \in Nat /\ Moved(arg) = Placed
  BY Sizes, Placing DEF Inv, WriteTypes, Placed
<1>2. buffered \in 0..len /\ k + buffered \in 0..Len(arg)
      /\ Moved(arg) + k + buffered = Placed + (k + buffered)
  <2>1. Room \in Nat
    BY CapacityAssumption, EmptySeq DEF Room
  <2>2. len \in Nat /\ k \in Nat
    BY <1>1
  <2>3. buffered \in 0..len
    BY <2>1, <2>2 DEF Least
  <2> HIDE DEF buffered
  <2>4. QED
    BY <1>1, <2>2, <2>3
<1>3. Return("ok", Placed + (k + buffered)) /\ "ok" \in Kinds
  BY <1>2 DEF KeepTail, Kinds
<1> HIDE DEF buffered
<1>4. Turn
  BY <1>2, <1>3, ReturnTurn
<1>5. Take(arg, k) \in Seq(Byte) /\ sink' = sink \o Take(arg, k)
  BY <1>1, SliceType DEF KeepTail
<1>6. UNCHANGED << readerVars, synced, inVars >> /\ panicked' \in BOOLEAN
  BY DEF KeepTail, TypeOK, BufferTypes
<1>7. QED
  BY <1>4, <1>5, <1>6 DEF Sending

LEMMA LineSends ==
  ASSUME Inv, TypeOK, LineWrite \/ LineWriteVectored
  PROVE  Sending /\ call \in WriteCalls
<1>1. PICK op \in {"line_write", "line_write_vectored"} :
         /\ At(op)
         /\ op = "line_write" => LineWrite
         /\ op = "line_write_vectored" => LineWriteVectored
  BY Busy DEF LineWrite, LineWriteVectored, Inv
<1>2. PICK i \in 1..Len(arg) : \E m \in i..Len(arg) :
         IsLineEnd(arg, i) /\ todo = << Do(op, m) >> /\ (op = "line_write" => m = i)
  BY <1>1, AtLines DEF Inv
<1>3. PICK m \in i..Len(arg) :
         IsLineEnd(arg, i) /\ todo = << Do(op, m) >> /\ (op = "line_write" => m = i)
  BY <1>2
<1>4. /\ call = "write" /\ writer_buf = << >> /\ N = m /\ m \in 0..Len(arg)
      /\ Len(arg) \in Nat /\ i \in Nat /\ m \in Nat
  <2>1. call = "write"
    BY <1>1, AtLines DEF Inv
  <2>2. writer_buf = << >>
    BY <1>1 DEF Inv, Bare
  <2>3. N = m
    BY <1>3 DEF N, Do
  <2>4. Len(arg) \in Nat
    BY Sizes DEF Inv
  <2>5. QED
    BY <1>2, <1>3, <2>1, <2>2, <2>3, <2>4
<1>5. ASSUME NEW k \in 0..Len(arg), NEW len \in 0..Len(arg) - k, KeepTail(k, len)
      PROVE  Sending /\ call \in WriteCalls
  BY <1>4, <1>5, KeepSends DEF WriteCalls
<1>6. CASE op = "line_write"
  <2>1. m = i /\ N = i
    BY <1>3, <1>4, <1>6
  <2>2. CASE KeepTail(0, 0)
    <3>1. 0 \in 0..Len(arg) /\ 0 \in 0..Len(arg) - 0
      BY <1>4
    <3>2. QED
      BY <1>5, <2>2, <3>1
  <2>3. CASE \E k \in 1..N, len \in 0..Len(arg) :
               IsTail(Skip(arg, k), k, len) /\ KeepTail(k, len)
    <3>1. PICK k \in 1..N, len \in 0..Len(arg) :
             IsTail(Skip(arg, k), k, len) /\ KeepTail(k, len)
      BY <2>3
    <3>2. k \in 0..Len(arg) /\ len \in 0..Len(arg) - k
      BY <1>2, <1>3, <2>1, <3>1, TailEndsLine
    <3>3. QED
      BY <1>5, <3>1, <3>2
  <2>4. QED
    BY <1>1, <1>6, <2>2, <2>3 DEF LineWrite
<1>7. CASE op = "line_write_vectored"
  <2>1. CASE \E k \in 0..(N - 1) : KeepTail(k, 0)
    <3>1. PICK k \in 0..(N - 1) : KeepTail(k, 0)
      BY <2>1
    <3>2. k \in 0..Len(arg) /\ 0 \in 0..Len(arg) - k
      BY <1>4, <3>1
    <3>3. QED
      BY <1>5, <3>1, <3>2
  <2>2. CASE KeepTail(N, Len(arg) - N)
    <3>1. N \in 0..Len(arg) /\ Len(arg) - N \in 0..Len(arg) - N
      BY <1>4
    <3>2. QED
      BY <1>5, <2>2, <3>1
  <2>3. QED
    BY <1>1, <1>7, <2>1, <2>2 DEF LineWriteVectored
<1>8. QED
  BY <1>6, <1>7

LEMMA LinesSend ==
  ASSUME Inv, TypeOK, Lines
  PROVE  Sending /\ call \in WriteCalls
<1>1. CASE LineWrite \/ LineWriteVectored
  BY <1>1, LineSends
<1>2. CASE LinesFail
  <2>1. PICK op \in {"line_write", "line_write_vectored"} : At(op)
    BY <1>2 DEF LinesFail
  <2>2. call \in WriteCalls
    BY <2>1, AtLines DEF Inv, WriteCalls
  <2>3. \E kind \in Kinds : Abandon(kind)
    BY <1>2 DEF LinesFail, Kinds
  <2>4. Turn /\ sink' = sink
    BY <1>2, <2>3, StopTurn DEF LinesFail, outVars
  <2>5. UNCHANGED << readerVars, synced, inVars >> /\ panicked' \in BOOLEAN
    BY <1>2 DEF LinesFail, writerVars, outVars, TypeOK, BufferTypes
  <2>6. QED
    BY <2>2, <2>4, <2>5, SendsNothing DEF Sending
<1>3. CASE LineWriteAll
  <2>1. At("line_write_all")
    BY <1>3 DEF LineWriteAll
  <2>2. PICK i \in 1..Len(arg) :
           todo = << Do("line_write_all", i), Do("write_all", Len(arg) - i) >>
    BY <2>1, AtLineWriteAll DEF Inv
  <2>3. /\ call \in WriteCalls /\ N = i /\ Len(arg) \in Nat /\ N \in 0..Len(arg)
    <3>1. N = i
      BY <2>2 DEF N, Do
    <3>2. Len(arg) \in Nat
      BY Sizes DEF Inv
    <3>3. QED
      BY <2>1, <3>1, <3>2, AtLineWriteAll DEF Inv, WriteCalls
  <2>4. \A k \in 0..Len(arg) : Take(arg, k) \in Seq(Byte) /\ Moved(Skip(arg, k)) = Placed + k
    BY Placing DEF Inv
  <2>5. UNCHANGED << readerVars, synced, inVars >> /\ panicked' \in BOOLEAN
    BY <1>3 DEF LineWriteAll, writerVars, TypeOK, BufferTypes
  <2>6. CASE sink' = sink \o Take(arg, N) /\ Proceed(Skip(arg, N))
    <3>1. Turn
      BY <2>3, <2>4, <2>6, ProceedTurn
    <3>2. QED
      BY <2>3, <2>4, <2>5, <2>6, <3>1 DEF Sending
  <2>7. CASE \E k \in 0..(N - 1), kind \in {"err", "wpanic"} :
               sink' = sink \o Take(arg, k) /\ Return(kind, Moved(Skip(arg, k)))
    <3>1. PICK k \in 0..(N - 1), kind \in {"err", "wpanic"} :
             sink' = sink \o Take(arg, k) /\ Return(kind, Moved(Skip(arg, k)))
      BY <2>7
    <3>2. k \in 0..Len(arg) /\ kind \in Kinds
      BY <2>3, <3>1 DEF Kinds
    <3>3. Return(kind, Placed + k)
      BY <2>4, <3>1, <3>2
    <3>4. Turn
      BY <3>2, <3>3, ReturnTurn
    <3>5. QED
      BY <2>3, <2>4, <2>5, <3>1, <3>2, <3>4 DEF Sending
  <2>8. QED
    BY <1>3, <2>6, <2>7 DEF LineWriteAll
<1>4. QED
  BY <1>1, <1>2, <1>3 DEF Lines

-----------------------------------------------------------------------------
(* A step of the write half keeps the types, and the device takes bytes of *)
(* the channel.                                                            *)

Prefix(s, t) == Channel!IsPrefixOf(s, t)

LEMMA PrefixLaws ==
  ASSUME NEW s \in Seq(Byte), NEW t \in Seq(Byte)
  PROVE  Prefix(s, s) /\ Prefix(s, s \o t)
<1>1. /\ Len(s) \in Nat /\ Len(s) <= Len(s \o t)
      /\ SubSeq(s, 1, Len(s)) = SubSeq(s \o t, 1, Len(s))
  BY PrefixOfConcat, LenProperties
<1>2. SubSeq(s, 1, Len(s)) = s
  BY SliceEnds DEF Take
<1>3. QED
  BY <1>1, <1>2 DEF Prefix, Channel!IsPrefixOf

LEMMA OutKeeps ==
  ASSUME Inv, Inv', ReadInv, call # "idle", todo # << >>, Turn,
         UNCHANGED << readerVars, inVars >>, panicked' \in BOOLEAN,
         NEW bytes \in Seq(Byte), sink' = sink \o bytes,
         synced' = synced \/ synced' = Len(sink'), Emptied'
  PROVE  ReadInv'
<1>1. CallTypes'
  BY TurnTypes DEF ReadInv
<1>2. sink' = sink \o bytes
  OBVIOUS
<1>3. /\ sink \in Seq(Byte) /\ sink' \in Seq(Byte) /\ synced \in 0..Len(sink)
      /\ Len(sink) \in Nat /\ Len(sink') = Len(sink) + Len(bytes) /\ Len(bytes) \in Nat
  BY <1>2, ConcatProperties, LenProperties DEF ReadInv, TypeOK, DeviceTypes
<1>4. synced' \in 0..Len(sink')
  BY <1>3
<1>5. UNCHANGED << reader_buf, pos, fetched, delivered >> /\ panicked' \in BOOLEAN
  BY DEF readerVars, inVars
<1>6. DeviceTypes'
  BY <1>3, <1>4, <1>5 DEF ReadInv, TypeOK, DeviceTypes
<1>7. writer_buf' \in Seq(Byte) /\ written' \in 0..Len(writer_buf')
  BY DEF Inv, WriteTypes
<1>8. BufferTypes'
  BY <1>5, <1>7 DEF ReadInv, TypeOK, BufferTypes
<1>9. InConserved'
  BY <1>5 DEF ReadInv, InConserved, Unread
<1>10. QED
  BY <1>1, <1>6, <1>8, <1>9 DEF ReadInv, TypeOK

(* What the device has is a prefix of what was accepted and is on offer.   *)
LEMMA SinkIsPrefix ==
  ASSUME Inv', OutConserved'
  PROVE  Prefix(sink', accepted' \o payload')
<1>1. /\ sink' \in Seq(Byte) /\ writer_buf' \in Seq(Byte) /\ arg' \in Seq(Byte)
      /\ written' \in 0..Len(writer_buf')
  BY DEF Inv, WriteTypes
<1>2. Skip(writer_buf', written') \in Seq(Byte)
  BY <1>1, SliceType
<1>3. sink' \o Skip(writer_buf', written') \o arg' = accepted' \o payload'
  BY DEF OutConserved, Remaining
<1>4. /\ Skip(writer_buf', written') \o arg' \in Seq(Byte)
      /\ (sink' \o Skip(writer_buf', written')) \o arg'
            = sink' \o (Skip(writer_buf', written') \o arg')
  BY ONLY <1>1, <1>2, ConcatLaws
<1>5. Prefix(sink', sink' \o (Skip(writer_buf', written') \o arg'))
  BY <1>1, <1>4, PrefixLaws
<1>6. QED
  BY <1>3, <1>4, <1>5

LEMMA SendingImplements ==
  ASSUME Inv, Inv', OutConserved', call # "idle", Sending
  PROVE  Channel!Next
<1>1. /\ UNCHANGED << synced, fetched, delivered >> /\ Turn
      /\ \E bytes \in Seq(Byte) : sink' = sink \o bytes
  BY DEF Sending, inVars
<1>2. Prefix(sink, sink') /\ Prefix(sink', accepted' \o payload')
  BY <1>1, PrefixLaws, SinkIsPrefix DEF Inv, WriteTypes
<1>3. CASE UNCHANGED << accepted, payload >>
  <2>1. Channel!Transfer
    BY <1>1, <1>2, <1>3 DEF Channel!Transfer, Channel!inChan, Prefix
  <2>2. QED
    BY <2>1 DEF Channel!Next
<1>4. CASE /\ payload' = << >>
           /\ \E k \in 0..Len(payload) : accepted' = accepted \o SubSeq(payload, 1, k)
  <2>1. accepted' \o payload' = accepted'
    BY <1>4, ConcatEmptySeq DEF Inv, WriteTypes
  <2>2. Channel!Accept
    BY <1>1, <1>2, <1>4, <2>1 DEF Channel!Accept, Channel!inChan, Prefix
  <2>3. QED
    BY <2>2 DEF Channel!Next
<1>5. QED
  BY <1>1, <1>3, <1>4, TurnTells

(* The write half and flush_buf, together.                                 *)
LEMMA SendingKeeps ==
  ASSUME Inv, Inv', ReadInv, call # "idle", todo # << >>, Sending, Emptied'
  PROVE  ReadInv'
<1>1. PICK bytes \in Seq(Byte) : sink' = sink \o bytes
  BY DEF Sending
<1>2. QED
  BY <1>1, OutKeeps DEF Sending

(* A write is no call that Emptied is about.                               *)
LEMMA WriteEmptied ==
  ASSUME TypeOK, Inv', call \in WriteCalls, todo # << >>, Turn
  PROVE  Emptied'
<1>1. call # "idle"
  BY DEF WriteCalls
<1>2. call' \in WriteCalls \cup {"idle"}
  BY <1>1, TurnTypes
<1>3. QED
  BY <1>2 DEF Emptied, WriteCalls

LEMMA WriteKeeps ==
  ASSUME Inv, Inv', OutConserved', ReadInv, Write \/ Lines
  PROVE  ReadInv' /\ Channel!Next
<1>1. Sending /\ call \in WriteCalls
  BY WriteSends, LinesSend DEF ReadInv
<1>2. call # "idle" /\ todo # << >>
  BY <1>1 DEF Inv, Control, WriteCalls, PartialStages, WriteStages, LineStages, LineAllStages
<1>3. Emptied'
  BY <1>1, <1>2, WriteEmptied DEF ReadInv, Sending
<1>4. QED
  BY <1>1, <1>2, <1>3, SendingKeeps, SendingImplements

(* flush_buf is done when nothing remains.                                 *)
LEMMA FlushKeeps ==
  ASSUME Inv, Inv', OutConserved', ReadInv, FlushBuf
  PROVE  ReadInv' /\ Channel!Next
<1>1. Sending /\ At("flush_buf")
  BY FlushSends DEF ReadInv
<1>2. call # "idle" /\ todo # << >>
  BY <1>1, Busy DEF Inv
<1>3. Emptied'
  <2>1. CASE FlushWrite \/ FlushInterrupted
    <3>1. At("flush_buf")'
      BY <1>1, <2>1 DEF FlushWrite, FlushInterrupted, callVars, At
    <3>2. QED
      BY <3>1 DEF Emptied
  <2>2. CASE FlushFail \/ FlushPanic
    <3>1. call' = "idle"
      BY <2>2 DEF FlushFail, FlushPanic, Abandon, Return
    <3>2. QED
      BY <3>1 DEF Emptied
  <2>3. CASE FlushDone
    <3>1. writer_buf \in Seq(Byte) /\ written = Len(writer_buf)
      <4>1. written >= Len(writer_buf)
        BY <2>3 DEF FlushDone
      <4>2. writer_buf \in Seq(Byte) /\ written \in 0..Len(writer_buf)
        BY DEF Inv, WriteTypes
      <4>3. Len(writer_buf) \in Nat
        BY <4>2, LenProperties
      <4>4. QED
        BY ONLY <4>1, <4>2, <4>3
    <3>2. writer_buf' = << >>
      BY <2>3, <3>1, SliceEnds DEF FlushDone, Drain, Remaining
    <3>3. QED
      BY <3>2 DEF Emptied
  <2>4. QED
    BY <2>1, <2>2, <2>3 DEF FlushBuf
<1>4. QED
  BY <1>1, <1>2, <1>3, SendingKeeps, SendingImplements

(* A step of a call that does not write says nothing of what is written.   *)
LEMMA OtherQuiet ==
  ASSUME Inv, call \notin WriteCalls, call # "idle", Turn
  PROVE  UNCHANGED << accepted, payload >>
<1>1. payload = << >>
  BY DEF Inv, Offered
<1>2. \A kind, n : Return(kind, n) => accepted' = accepted /\ payload' = << >>
  BY DEF Return, WriteCalls
<1>3. QED
  BY <1>1, <1>2 DEF Turn, callVars

(* A step that no user of the channel notices.                             *)
LEMMA Unnoticed ==
  ASSUME UNCHANGED << accepted, payload, sink, synced, fetched, delivered >>
  PROVE  UNCHANGED Channel!channel
BY DEF Channel!channel, Channel!outChan, Channel!inChan

(* Only flush, read and read_until flush the device.                       *)
LEMMA AtInnerFlush ==
  ASSUME Control, At("inner_flush")
  PROVE  call \in {"flush", "read", "read_until"}
<1>1. todo # << >> /\ Head(todo).op = "inner_flush" /\ call \notin WriteCalls /\ call # "idle"
  BY AtOther DEF At
<1>2. CASE todo = << Do("fill_buf", 0) >> \/ todo = << Do("flush_buf", 0) >>
  BY <1>1, <1>2 DEF Do
<1>3. QED
  BY <1>1, <1>2 DEF Control, WriteCalls

(* The flush of the device comes when the device has everything.           *)
LEMMA InnerFlushKeeps ==
  ASSUME Inv, Inv', ReadInv, InnerFlush
  PROVE  ReadInv' /\ [Channel!Next]_(Channel!channel)
<1>1. /\ At("inner_flush") /\ UNCHANGED << sink, writerVars, readerVars, inVars >>
      /\ synced' = Len(sink) \/ synced' = synced
  BY DEF InnerFlush
<1>2. /\ call \in {"flush", "read", "read_until"} /\ call # "idle" /\ todo # << >>
      /\ ~At("flush_buf") /\ call \notin WriteCalls
  BY <1>1, AtInnerFlush, Busy DEF Inv, WriteCalls
<1>3. writer_buf = << >> /\ written = 0 /\ payload = << >>
  BY <1>2 DEF ReadInv, Emptied, Inv, GuardAtRest, Offered
<1>4. Turn
  <2>1. "err" \in Kinds /\ "panic" \in Kinds
    BY DEF Kinds
  <2>2. Proceed(arg) \/ \E kind \in Kinds : Abandon(kind)
    BY <2>1 DEF InnerFlush
  <2>3. QED
    BY <2>2, StopTurn
<1>5. UNCHANGED << accepted, payload >>
  BY <1>2, <1>4, OtherQuiet
<1>6. ReadInv'
  <2>1. UNCHANGED << writer_buf, panicked >> /\ sink' = sink
    BY <1>1 DEF writerVars
  <2>2. Emptied'
    BY <1>3, <2>1 DEF Emptied
  <2>3. panicked' \in BOOLEAN
    BY <2>1 DEF ReadInv, TypeOK, BufferTypes
  <2>4. PICK bytes \in Seq(Byte) : sink' = sink \o bytes
    BY <2>1, SendsNothing
  <2>5. synced' = synced \/ synced' = Len(sink')
    BY <1>1, <2>1
  <2>6. QED
    BY <1>1, <1>2, <1>4, <2>2, <2>3, <2>4, <2>5, OutKeeps
<1>7. sink = accepted
  <2>1. call # "write_all" /\ accepted = sink \o Remaining
    BY <1>2, NonePlaced DEF Inv, WriteCalls
  <2>2. Remaining = << >>
    BY <1>3, Sizes DEF Inv
  <2>3. QED
    BY <2>1, <2>2, ConcatEmptySeq DEF Inv, WriteTypes
<1>8. CASE synced' = Len(sink)
  <2>1. UNCHANGED << sink, fetched, delivered >>
    BY <1>1 DEF inVars
  <2>2. Channel!Sync
    BY <1>3, <1>5, <1>7, <1>8, <2>1 DEF Channel!Sync, Channel!inChan
  <2>3. QED
    BY <1>6, <2>2 DEF Channel!Next
<1>9. CASE synced' = synced
  BY <1>1, <1>5, <1>6, <1>9, Unnoticed DEF inVars
<1>10. QED
  BY <1>1, <1>8, <1>9

-----------------------------------------------------------------------------
(* The read half: bytes go from the device to the buffer or the caller.    *)

(* What the device delivers is a byte string.                              *)
LEMMA ChunksType ==
  ASSUME NEW n \in Nat, NEW c \in Chunks(n)
  PROVE  c \in Seq(Byte) /\ Len(c) \in 0..n
<1>1. PICK k \in 0..n : c \in [1..k -> Byte]
  BY DEF Chunks
<1>2. QED
  BY <1>1

LEMMA UnreadType ==
  ASSUME TypeOK
  PROVE  /\ Unread \in Seq(Byte) /\ Len(Unread) = Len(reader_buf) - pos
         /\ Len(Unread) \in Nat /\ Len(reader_buf) \in Nat
         /\ pos >= Len(reader_buf) => Unread = << >>
<1>1. reader_buf \in Seq(Byte) /\ pos \in 0..Len(reader_buf) /\ Len(reader_buf) \in Nat
  BY LenProperties DEF TypeOK, BufferTypes
<1>2. Unread \in Seq(Byte) /\ Len(Unread) = Len(reader_buf) - pos
  BY <1>1, SliceType DEF Unread
<1>3. pos >= Len(reader_buf) => Unread = << >>
  BY <1>1, SliceEnds DEF Unread
<1>4. QED
  BY <1>1, <1>2, <1>3

(* Bytes come in and are handed over, in order.                            *)
Receiving ==
    /\ UNCHANGED << writerVars, outVars >>
    /\ reader_buf' \in Seq(Byte) /\ pos' \in 0..Len(reader_buf') /\ InConserved'
    /\ \E bytes \in Seq(Byte) : fetched' = fetched \o bytes
    /\ \E bytes \in Seq(Byte) : delivered' = delivered \o bytes

(* None at all.                                                            *)
LEMMA ReceivesNothing ==
  ASSUME ReadInv, UNCHANGED << writerVars, readerVars, outVars, inVars >>
  PROVE  Receiving
<1>1. /\ fetched \o << >> = fetched /\ delivered \o << >> = delivered /\ << >> \in Seq(Byte)
      /\ reader_buf \in Seq(Byte) /\ pos \in 0..Len(reader_buf)
  BY EmptySeq, ConcatEmptySeq DEF ReadInv, TypeOK, BufferTypes, DeviceTypes
<1>2. UNCHANGED << reader_buf, pos, fetched, delivered >>
  BY DEF readerVars, inVars
<1>3. InConserved'
  BY <1>2 DEF ReadInv, InConserved, Unread
<1>4. QED
  BY <1>1, <1>2, <1>3 DEF Receiving

(* consume moves bytes from the front of the unread ones to the caller.    *)
LEMMA Delivers ==
  ASSUME ReadInv, NEW k \in 0..Len(Unread), Deliver(k), UNCHANGED << writerVars, outVars >>
  PROVE  Receiving
<1>1. /\ reader_buf \in Seq(Byte) /\ Len(reader_buf) \in Nat /\ pos \in 0..Len(reader_buf)
      /\ delivered \in Seq(Byte) /\ fetched \in Seq(Byte)
      /\ k \in 0..Len(reader_buf) - pos /\ Unread \in Seq(Byte)
  BY UnreadType DEF ReadInv, TypeOK, BufferTypes, DeviceTypes
<1>2. Take(Unread, k) \in Seq(Byte)
  BY <1>1, SliceType
<1>3. pos' \in 0..Len(reader_buf')
  BY <1>1 DEF Deliver
<1>4. (delivered \o Take(Skip(reader_buf, pos), k)) \o Skip(reader_buf, pos + k)
        = delivered \o Skip(reader_buf, pos)
  BY <1>1, SliceMove
<1>5. InConserved'
  BY <1>4 DEF ReadInv, InConserved, Unread, Deliver
<1>6. fetched' = fetched \o << >> /\ << >> \in Seq(Byte)
  BY <1>1, EmptySeq, ConcatEmptySeq DEF Deliver
<1>7. QED
  BY <1>1, <1>2, <1>3, <1>5, <1>6 DEF Receiving, Deliver

(* What comes in past the buffer goes to the caller.                       *)
LEMMA DirectReceives ==
  ASSUME ReadInv, todo # << >>, ReadDirect
  PROVE  Receiving
<1>1. PICK chunk \in Seq(Byte) : fetched' = fetched \o chunk /\ delivered' = delivered \o chunk
  <2>1. CASE UNCHANGED inVars
    <3>1. /\ fetched' = fetched \o << >> /\ delivered' = delivered \o << >>
          /\ << >> \in Seq(Byte)
      BY <2>1, EmptySeq, ConcatEmptySeq DEF inVars, ReadInv, TypeOK, DeviceTypes
    <3>2. QED
      BY <3>1
  <2>2. CASE \E chunk \in Arrivals(N) :
               fetched' = fetched \o chunk /\ delivered' = delivered \o chunk
    <3>1. \A chunk \in Arrivals(N) : chunk \in Seq(Byte)
      BY HeadType, ChunksType DEF ReadInv, Arrivals
    <3>2. QED
      BY <2>2, <3>1
  <2>3. QED
    BY <2>1, <2>2 DEF ReadDirect
<1>2. chunk \in Seq(Byte)
  BY <1>1
<1>3. delivered = fetched /\ fetched \in Seq(Byte)
  <2>1. Unread = << >>
    BY UnreadType DEF ReadInv, ReadDirect, Bypass
  <2>2. delivered \in Seq(Byte) /\ fetched \in Seq(Byte)
    BY DEF ReadInv, TypeOK, DeviceTypes
  <2>3. QED
    BY <2>1, <2>2, ConcatEmptySeq DEF ReadInv, InConserved
<1>4. reader_buf' = << >> /\ pos' = 0 /\ UNCHANGED << writerVars, outVars >>
  BY DEF ReadDirect
<1>5. << >> \in Seq(Byte) /\ Len(<< >>) = 0 /\ Skip(<< >>, 0) = << >>
  BY EmptySeq, SliceEnds
<1>6. InConserved'
  <2>1. fetched' \in Seq(Byte) /\ delivered' = fetched'
    BY <1>1, <1>2, <1>3, ConcatProperties
  <2>2. Unread' = << >>
    BY <1>4, <1>5 DEF Unread
  <2>3. QED
    BY <2>1, <2>2, ConcatEmptySeq DEF InConserved
<1>7. reader_buf' \in Seq(Byte) /\ pos' \in 0..Len(reader_buf')
  BY <1>4, <1>5
<1>8. QED
  BY <1>1, <1>2, <1>4, <1>6, <1>7 DEF Receiving

(* A refill comes when nothing is unread.                                  *)
LEMMA RefillReceives ==
  ASSUME ReadInv, pos >= Len(reader_buf), NEW chunk \in Arrivals(RCap),
         reader_buf' = chunk, pos' = 0, fetched' = fetched \o chunk,
         UNCHANGED << delivered, writerVars, outVars >>
  PROVE  Receiving
<1>1. chunk \in Seq(Byte) /\ Len(chunk) \in Nat
  BY CapacityAssumption, ChunksType DEF Arrivals
<1>2. delivered \in Seq(Byte) /\ fetched \in Seq(Byte) /\ << >> \in Seq(Byte)
  BY EmptySeq DEF ReadInv, TypeOK, DeviceTypes
<1>3. delivered = fetched
  <2>1. Unread = << >>
    BY UnreadType DEF ReadInv
  <2>2. QED
    BY <1>2, <2>1, ConcatEmptySeq DEF ReadInv, InConserved
<1>4. Unread' = chunk
  BY <1>1, SliceEnds DEF Unread
<1>5. InConserved'
  BY <1>3, <1>4 DEF InConserved
<1>6. delivered' = delivered \o << >> /\ reader_buf' \in Seq(Byte) /\ pos' \in 0..Len(reader_buf')
  BY <1>1, <1>2, ConcatEmptySeq
<1>7. QED
  BY <1>1, <1>2, <1>5, <1>6 DEF Receiving

LEMMA ReadReceives ==
  ASSUME Inv, ReadInv, Read
  PROVE  /\ Receiving /\ Turn /\ call \notin WriteCalls /\ call # "idle" /\ todo # << >>
         /\ ~At("flush_buf")
<1>1. PICK op \in {"read", "fill_buf", "copy", "until"} : At(op)
  BY DEF Read, ReadDirect, ReadBuffered, FillBuf, Copy, ReadUntil
<1>2. /\ call \notin WriteCalls /\ call # "idle" /\ todo # << >> /\ ~At("flush_buf")
  BY <1>1, AtOther, Busy DEF Inv
<1>3. /\ N \in Nat /\ Tail(todo) \in Seq(Frame) /\ Len(Unread) \in Nat /\ 0 \in Nat
      /\ UNCHANGED << writerVars, outVars >>
  BY <1>2, HeadType, UnreadType DEF ReadInv, Read, ReadDirect, ReadBuffered, FillBuf, Copy,
     ReadUntil
<1>4. {"ok", "err", "panic"} \subseteq Kinds /\ {"fill_buf", "copy", "until"} \subseteq Ops
  BY DEF Kinds, Ops
<1>5. \A n \in Nat : Return("ok", n) => Turn
  BY <1>2, <1>4 DEF Turn
<1>6. \A kind \in {"err", "panic"} : Abandon(kind) => Turn
  BY <1>4, StopTurn
<1>7. \A op1 \in {"copy", "until"}, n \in Nat :
         Become(<< Do("fill_buf", 0), Do(op1, n) >>) => Turn
  <2> SUFFICES ASSUME NEW op1 \in {"copy", "until"}, NEW n \in Nat,
                      Become(<< Do("fill_buf", 0), Do(op1, n) >>)
               PROVE  Turn
    OBVIOUS
  <2>1. Do("fill_buf", 0) \in Frame /\ Do(op1, n) \in Frame
    BY <1>3, <1>4, FrameType
  <2>2. << Do("fill_buf", 0), Do(op1, n) >> \in Seq(Frame)
    BY <2>1, FramePair
  <2>3. QED
    BY <2>2 DEF Become, Turn
<1>8. CASE ReadDirect
  <2>1. CASE \E chunk \in Arrivals(N) :
               /\ fetched' = fetched \o chunk /\ delivered' = delivered \o chunk
               /\ Return("ok", Len(chunk))
    <3>1. PICK chunk \in Arrivals(N) :
             /\ fetched' = fetched \o chunk /\ delivered' = delivered \o chunk
             /\ Return("ok", Len(chunk))
      BY <2>1
    <3>2. Len(chunk) \in Nat
      BY <1>3, ChunksType DEF Arrivals
    <3>3. Turn
      BY <1>5, <3>1, <3>2
    <3>4. QED
      BY <1>2, <1>8, <3>1, <3>3, DirectReceives
  <2>2. CASE \E kind \in {"err", "panic"} : Abandon(kind) /\ UNCHANGED inVars
    BY <1>2, <1>6, <1>8, <2>2, DirectReceives
  <2>3. QED
    BY <1>8, <2>1, <2>2 DEF ReadDirect
<1>9. CASE ReadBuffered
  BY <1>2, <1>3, <1>7, <1>9, ReceivesNothing DEF ReadBuffered
<1>10. CASE FillBuf
  <2>1. Turn
    BY <1>6, <1>10, StopTurn DEF FillBuf
  <2>2. Receiving
    BY <1>3, <1>10, ReceivesNothing, RefillReceives DEF FillBuf
  <2>3. QED
    BY <1>2, <2>1, <2>2
<1>11. CASE Copy
  <2>1. PICK k : k = Least(N, Len(Unread)) /\ Deliver(k) /\ Return("ok", k)
    BY <1>11 DEF Copy
  <2>2. k \in 0..Len(Unread) /\ k \in Nat
    BY <1>3, <2>1 DEF Least
  <2>3. QED
    BY <1>2, <1>3, <1>5, <2>1, <2>2, Delivers
<1>12. CASE ReadUntil
  <2>1. CASE \E i \in 1..Len(Unread) : Deliver(i) /\ Return("ok", N + i)
    <3>1. PICK i \in 1..Len(Unread) : Deliver(i) /\ Return("ok", N + i)
      BY <2>1
    <3>2. i \in 0..Len(Unread) /\ N + i \in Nat
      BY <1>3
    <3>3. QED
      BY <1>2, <1>3, <1>5, <3>1, <3>2, Delivers
  <2>2. CASE Deliver(0) /\ Return("ok", N)
    <3>1. 0 \in 0..Len(Unread)
      BY <1>3
    <3>2. QED
      BY <1>2, <1>3, <1>5, <2>2, <3>1, Delivers
  <2>3. CASE /\ Deliver(Len(Unread))
             /\ Become(<< Do("fill_buf", 0), Do("until", N + Len(Unread)) >>)
    <3>1. Len(Unread) \in 0..Len(Unread) /\ N + Len(Unread) \in Nat
      BY <1>3
    <3>2. QED
      BY <1>2, <1>3, <1>7, <2>3, <3>1, Delivers
  <2>4. QED
    BY <1>12, <2>1, <2>2, <2>3 DEF ReadUntil
<1>13. QED
  BY <1>8, <1>9, <1>10, <1>11, <1>12 DEF Read

LEMMA ReceivingKeeps ==
  ASSUME Inv, Inv', ReadInv, Receiving, CallTypes', Emptied'
  PROVE  ReadInv'
<1>1. /\ UNCHANGED << writer_buf, written, panicked, sink, synced >>
      /\ reader_buf' \in Seq(Byte) /\ pos' \in 0..Len(reader_buf') /\ InConserved'
  BY DEF Receiving, writerVars, outVars
<1>2. BufferTypes'
  BY <1>1 DEF ReadInv, TypeOK, BufferTypes
<1>3. fetched' \in Seq(Byte) /\ delivered' \in Seq(Byte)
  BY ConcatProperties DEF Receiving, ReadInv, TypeOK, DeviceTypes
<1>4. DeviceTypes'
  BY <1>1, <1>3 DEF ReadInv, TypeOK, DeviceTypes
<1>5. QED
  BY <1>1, <1>2, <1>4 DEF ReadInv, TypeOK

LEMMA ReceivingImplements ==
  ASSUME ReadInv, ReadInv', Receiving, UNCHANGED << accepted, payload >>
  PROVE  Channel!Next
<1>1. /\ fetched \in Seq(Byte) /\ fetched' \in Seq(Byte)
      /\ delivered \in Seq(Byte) /\ delivered' \in Seq(Byte)
  BY DEF ReadInv, TypeOK, DeviceTypes
<1>2. Prefix(fetched, fetched') /\ Prefix(delivered, delivered')
  BY <1>1, PrefixLaws DEF Receiving
<1>3. Prefix(delivered', fetched')
  <2>1. reader_buf' \in Seq(Byte) /\ pos' \in 0..Len(reader_buf')
    BY DEF Receiving
  <2>2. Skip(reader_buf', pos') \in Seq(Byte)
    BY <2>1, SliceType
  <2>3. fetched' = delivered' \o Skip(reader_buf', pos')
    BY DEF ReadInv, InConserved, Unread
  <2>4. QED
    BY <1>1, <2>2, <2>3, PrefixLaws
<1>4. UNCHANGED << sink, synced >>
  BY DEF Receiving, outVars
<1>5. Channel!Receive
  BY <1>1, <1>2, <1>3, <1>4 DEF Channel!Receive, Channel!outChan, Prefix
<1>6. QED
  BY <1>5 DEF Channel!Next

LEMMA ReadKeeps ==
  ASSUME Inv, Inv', ReadInv, Read
  PROVE  ReadInv' /\ Channel!Next
<1>1. /\ Receiving /\ Turn /\ call \notin WriteCalls /\ call # "idle" /\ todo # << >>
      /\ ~At("flush_buf")
  BY ReadReceives
<1>2. CallTypes' /\ call' \in {call, "idle"}
  BY <1>1, TurnTypes DEF ReadInv
<1>3. Emptied'
  BY <1>1, <1>2 DEF ReadInv, Emptied, Receiving, writerVars
<1>4. UNCHANGED << accepted, payload >>
  BY <1>1, OtherQuiet
<1>5. QED
  BY <1>1, <1>2, <1>3, <1>4, ReceivingKeeps, ReceivingImplements

-----------------------------------------------------------------------------
(* The calls.                                                              *)

(* A call that starts offers its buffer, if it has one.                    *)
LEMMA EnterKeeps ==
  ASSUME Inv, ReadInv, NEW name \in PublicCalls, NEW frames \in Seq(Frame),
         NEW data \in Seq(Byte), Enter(name, frames, data),
         name \in {"flush", "read", "read_until"} => At("flush_buf")'
  PROVE  ReadInv' /\ Channel!Next
<1>1. /\ call' = name /\ todo' = frames /\ payload' = data /\ arg' = data /\ call = "idle"
      /\ UNCHANGED << open, result, accepted, writer_buf, written, panicked, reader_buf, pos,
                      sink, synced, fetched, delivered >>
  BY DEF Enter, writerVars, readerVars, outVars, inVars
<1>2. CallTypes'
  BY <1>1 DEF ReadInv, TypeOK, CallTypes, Frame
<1>3. BufferTypes' /\ DeviceTypes' /\ InConserved'
  BY <1>1 DEF ReadInv, TypeOK, BufferTypes, DeviceTypes, InConserved, Unread
<1>4. Emptied'
  BY <1>1 DEF Emptied
<1>5. payload = << >>
  BY <1>1 DEF Inv, Offered, WriteCalls
<1>6. Channel!Offer
  BY <1>1, <1>5 DEF Channel!Offer, Channel!inChan
<1>7. QED
  BY <1>2, <1>3, <1>4, <1>6 DEF ReadInv, TypeOK, Channel!Next

(* The frames of the calls.                                                *)
LEMMA SeqFrames ==
  ASSUME NEW f \in Frame, NEW g \in Frame, NEW h \in Frame, NEW i \in Frame
  PROVE  /\ << f, g, h >> \in Seq(Frame) /\ << f, g, h, i >> \in Seq(Frame)
         /\ << f, g >> \in Seq(Frame) /\ << f >> \in Seq(Frame) /\ << >> \in Seq(Frame)
OBVIOUS

LEMMA CallWriteKeeps ==
  ASSUME Inv, ReadInv, CallWrite
  PROVE  ReadInv' /\ Channel!Next
<1> DEFINE f == Do("flush_buf", 0)
<1>1. /\ f \in Frame /\ << f >> \in Seq(Frame) /\ << >> \in Seq(Frame)
      /\ \A c \in WriteCalls \cup Bypasses, n \in Nat :
            Do(c, n) \in Frame /\ << Do(c, n) >> \in Seq(Frame)
  <2>1. WriteCalls \cup Bypasses \subseteq Ops /\ "flush_buf" \in Ops /\ 0 \in Nat
    BY DEF WriteCalls, Bypasses, Ops
  <2>2. QED
    BY <2>1, FrameType, EmptySeq
<1>2. ASSUME NEW name \in WriteCalls, NEW frames \in Seq(Frame), NEW p \in Offers,
             Enter(name, frames, p)
      PROVE  ReadInv' /\ Channel!Next
  <2>1. name \in PublicCalls /\ name \notin {"flush", "read", "read_until"}
    BY DEF PublicCalls, WriteCalls
  <2>2. QED
    BY <1>2, <2>1, OfferType, EnterKeeps
<1>3. CASE CallWritePartial
  <2>1. PICK p \in Offers, name \in WriteCalls :
           Enter(name, FlushIfCompletedLine \o << Do(name, Len(p)) >>, p)
    BY <1>3 DEF CallWritePartial
  <2>2. Len(p) \in Nat /\ << Do(name, Len(p)) >> \in Seq(Frame)
    BY <1>1, OfferType
  <2>3. FlushIfCompletedLine \in Seq(Frame)
    BY <1>1 DEF FlushIfCompletedLine
  <2>4. QED
    BY <1>2, <2>1, <2>2, <2>3, FrameTypes
<1>4. CASE CallWriteLines \/ CallWriteVectored
  <2>1. PICK p \in Offers, op \in Bypasses, n \in Nat : Enter("write", << f, Do(op, n) >>, p)
    <3>1. CASE CallWriteLines
      <4>1. PICK p \in Offers : \E i \in 1..Len(p) : Enter("write", << f, Do("line_write", i) >>, p)
        BY <3>1 DEF CallWriteLines
      <4>2. \A i \in 1..Len(p) : i \in Nat
        BY OfferType
      <4>3. QED
        BY <4>1, <4>2 DEF Bypasses
    <3>2. CASE CallWriteVectored
      <4>1. PICK p \in Offers : \E i \in 1..Len(p) : \E m \in i..Len(p) :
               Enter("write", << f, Do("line_write_vectored", m) >>, p)
        BY <3>2 DEF CallWriteVectored
      <4>2. \A i \in 1..Len(p) : \A m \in i..Len(p) : m \in Nat
        BY OfferType
      <4>3. QED
        BY <4>1, <4>2 DEF Bypasses
    <3>3. QED
      BY <1>4, <3>1, <3>2
  <2>2. << f, Do(op, n) >> \in Seq(Frame)
    BY <1>1, FramePair
  <2>3. QED
    BY <1>2, <2>1, <2>2 DEF WriteCalls
<1>5. CASE CallWriteAllLines
  <2>1. PICK p \in Offers : \E i \in 1..Len(p) :
           Enter("write_all",
                 (IF writer_buf = << >> THEN << Do("line_write_all", i) >>
                  ELSE << Do("write_all", i), f >>) \o << Do("write_all", Len(p) - i) >>, p)
    BY <1>5 DEF CallWriteAllLines
  <2>2. PICK i \in 1..Len(p) :
           Enter("write_all",
                 (IF writer_buf = << >> THEN << Do("line_write_all", i) >>
                  ELSE << Do("write_all", i), f >>) \o << Do("write_all", Len(p) - i) >>, p)
    BY <2>1
  <2>3. i \in Nat /\ Len(p) - i \in Nat
    BY OfferType
  <2>4. /\ << Do("line_write_all", i) >> \in Seq(Frame) /\ Do("write_all", i) \in Frame
        /\ << Do("write_all", Len(p) - i) >> \in Seq(Frame)
    BY <1>1, <2>3 DEF WriteCalls, Bypasses
  <2>5. << Do("write_all", i), f >> \in Seq(Frame)
    BY <1>1, <2>4, FramePair
  <2>6. (IF writer_buf = << >> THEN << Do("line_write_all", i) >>
         ELSE << Do("write_all", i), f >>) \in Seq(Frame)
    BY <2>4, <2>5
  <2>7. QED
    BY <1>2, <2>2, <2>4, <2>6, FrameTypes DEF WriteCalls
<1>6. QED
  BY <1>3, <1>4, <1>5 DEF CallWrite

LEMMA CallCommonKeeps ==
  ASSUME Inv, Inv', ReadInv, CallCommon
  PROVE  ReadInv' /\ [Channel!Next]_(Channel!channel)
<1> DEFINE f == Do("flush_buf", 0)  g == Do("inner_flush", 0)  h == Do("fill_buf", 0)
<1>1. /\ f \in Frame /\ g \in Frame /\ h \in Frame /\ << >> \in Seq(Byte)
      /\ \A n \in Nat : Do("read", n) \in Frame /\ Do("until", n) \in Frame
  <2>1. {"flush_buf", "inner_flush", "fill_buf", "read", "until"} \subseteq Ops /\ 0 \in Nat
    BY DEF Ops
  <2>2. QED
    BY <2>1, FrameType, EmptySeq
<1>2. ASSUME NEW name \in PublicCalls, NEW frames \in Seq(Frame), Enter(name, frames, << >>),
             name \in {"flush", "read", "read_until"} => frames # << >> /\ Head(frames) = f
      PROVE  ReadInv' /\ Channel!Next
  <2>1. todo' = frames
    BY <1>2 DEF Enter
  <2>2. name \in {"flush", "read", "read_until"} => At("flush_buf")'
    BY <1>2, <2>1 DEF At, Do
  <2>3. QED
    BY <1>1, <1>2, <2>2, EnterKeeps
<1>3. CASE CallFlush
  <2>1. Enter("flush", << f, g >>, << >>)
    BY <1>3 DEF CallFlush, FlushFrames
  <2>2. << f, g >> \in Seq(Frame) /\ << f, g >> # << >> /\ Head(<< f, g >>) = f
    BY <1>1, SeqFrames, Frames
  <2>3. QED
    BY <1>2, <2>1, <2>2 DEF PublicCalls
<1>4. CASE CallRead
  <2>1. PICK n \in 0..MaxArg : Enter("read", Append(<< f, g >>, Do("read", n)), << >>)
    BY <1>4 DEF CallRead, FlushFrames
  <2> DEFINE r == Do("read", n)
  <2>2. r \in Frame
    BY <1>1, BoundAssumption
  <2>3. << f, g, r >> \in Seq(Frame) /\ << f, g, r >> # << >> /\ Head(<< f, g, r >>) = f
    BY <1>1, <2>2, SeqFrames, Frames
  <2>4. Enter("read", << f, g, r >>, << >>)
    BY <2>1, FrameAppend
  <2>5. QED
    BY <1>2, <2>3, <2>4 DEF PublicCalls, ReadCalls
<1>5. CASE CallReadUntil
  <2> DEFINE u == Do("until", 0)
  <2>1. Enter("read_until", << f, g >> \o << h, u >>, << >>)
    BY <1>5 DEF CallReadUntil, FlushFrames
  <2>2. u \in Frame
    BY <1>1
  <2>3. /\ << f, g, h, u >> \in Seq(Frame) /\ << f, g, h, u >> # << >>
        /\ Head(<< f, g, h, u >>) = f
    BY <1>1, <2>2, SeqFrames, Frames
  <2>4. Enter("read_until", << f, g, h, u >>, << >>)
    BY <2>1, FrameConcat
  <2>5. QED
    BY <1>2, <2>3, <2>4 DEF PublicCalls, ReadCalls
<1>6. CASE CallFillBuf
  <2>1. << h >> \in Seq(Frame)
    BY <1>1, SeqFrames
  <2>2. QED
    BY <1>2, <1>6, <2>1 DEF CallFillBuf, PublicCalls, ReadCalls
<1>7. CASE CallIntoInner \/ Enter("drop", << f >>, << >>)
  <2>1. << f >> \in Seq(Frame)
    BY <1>1, SeqFrames
  <2>2. QED
    BY <1>2, <1>7, <2>1 DEF CallIntoInner, PublicCalls
<1>8. CASE CallConsume
  <2>1. PICK amt \in 1..MaxArg : Deliver(Least(amt, Len(Unread)))
    BY <1>8 DEF CallConsume
  <2>2. /\ UNCHANGED << open, call, todo, payload, arg, accepted, writerVars, outVars >>
        /\ result' = [of |-> "consume", kind |-> "ok", n |-> 0]
    BY <1>8 DEF CallConsume
  <2>3. Least(amt, Len(Unread)) \in 0..Len(Unread)
    BY UnreadType, BoundAssumption DEF ReadInv, Least
  <2>4. Receiving
    BY <2>1, <2>2, <2>3, Delivers
  <2>5. result' \in [of : PublicCalls \cup {"new"}, n : Nat,
                     kind : {"ok", "err", "wpanic", "panic", "skipped"}]
    BY <2>2 DEF PublicCalls, ReadCalls
  <2>6. CallTypes'
    BY <2>2, <2>5 DEF ReadInv, TypeOK, CallTypes
  <2>7. Emptied'
    BY <2>2 DEF ReadInv, Emptied, At, writerVars
  <2>8. ReadInv'
    BY <2>4, <2>6, <2>7, ReceivingKeeps
  <2>9. QED
    BY <2>2, <2>4, <2>8, ReceivingImplements
<1>9. CASE /\ panicked /\ open /\ call = "idle" /\ open' = FALSE
           /\ result' = [of |-> "drop", kind |-> "skipped", n |-> 0]
           /\ UNCHANGED << call, todo, payload, arg, accepted, writerVars, readerVars,
                           outVars, inVars >>
  <2>1. result' \in [of : PublicCalls \cup {"new"}, n : Nat,
                     kind : {"ok", "err", "wpanic", "panic", "skipped"}]
    BY <1>9 DEF PublicCalls
  <2>2. CallTypes'
    BY <1>9, <2>1 DEF ReadInv, TypeOK, CallTypes
  <2>3. Receiving /\ Emptied'
    BY <1>9, ReceivesNothing DEF ReadInv, Emptied, At, writerVars
  <2>4. ReadInv'
    BY <2>2, <2>3, ReceivingKeeps
  <2>5. QED
    BY <1>9, <2>4, Unnoticed DEF outVars, inVars
<1>10. QED
  BY <1>3, <1>4, <1>5, <1>6, <1>7, <1>8, <1>9 DEF CallCommon, CallDrop

LEMMA InitReadInv == Init => ReadInv
<1> SUFFICES ASSUME Init PROVE ReadInv
  OBVIOUS
<1>1. /\ << >> \in Seq(Byte) /\ Len(<< >>) = 0 /\ << >> \in Seq([op : Ops, n : Nat])
      /\ Skip(<< >>, 0) = << >> /\ << >> \o << >> = << >> /\ 0 \in 0..Len(<< >>)
  <2>1. << >> \in Seq(Byte) /\ Len(<< >>) = 0 /\ << >> \in Seq([op : Ops, n : Nat])
    BY EmptySeq
  <2>2. 0 \in 0..Len(<< >>)
    BY <2>1
  <2>3. QED
    BY <2>1, <2>2, SliceEnds, ConcatEmptySeq
<1>2. BufferTypes /\ DeviceTypes
  BY <1>1 DEF Init, BufferTypes, DeviceTypes
<1>3. CallTypes
  BY <1>1 DEF Init, CallTypes
<1>4. InConserved /\ Emptied
  BY <1>1 DEF Init, InConserved, Unread, Emptied
<1>5. QED
  BY <1>2, <1>3, <1>4 DEF ReadInv, TypeOK

(* Every step keeps the types and the read half, and is one of the two-way *)
(* channel.                                                                *)
LEMMA NextReadInv ==
  Inv /\ Inv' /\ OutConserved' /\ ReadInv /\ [Next]_vars
    => ReadInv' /\ [Channel!Next]_(Channel!channel)
<1> SUFFICES ASSUME Inv, Inv', OutConserved', ReadInv, [Next]_vars
             PROVE  ReadInv' /\ [Channel!Next]_(Channel!channel)
  OBVIOUS
<1>1. CASE Closed \/ UNCHANGED vars
  <2>1. UNCHANGED vars
    BY <1>1 DEF Closed
  <2>2. CallTypes' /\ Receiving /\ Emptied'
    BY <2>1, ReceivesNothing DEF vars, writerVars, callVars, ReadInv, TypeOK, CallTypes,
       Emptied, At
  <2>3. QED
    BY <2>1, <2>2, ReceivingKeeps, Unnoticed DEF vars, callVars, outVars, inVars
<1>2. QED
  BY <1>1, CallWriteKeeps, CallCommonKeeps, FlushKeeps, InnerFlushKeeps, WriteKeeps, ReadKeeps
     DEF Next

THEOREM ReadInvariant == Spec => []ReadInv
<1>1. QED
  BY InitReadInv, NextReadInv, Invariant, OutConservedCorrect, PTL DEF Spec

(* Types, with the bounds of every slice that the line writer takes.       *)
THEOREM TypeCorrect == Spec => []TypeOK
<1>1. ReadInv => TypeOK
  BY DEF ReadInv
<1>2. QED
  BY <1>1, ReadInvariant, PTL

(* No byte of the device is lost, repeated or reordered on its way to the  *)
(* caller, whichever of the two front ends drives the read half.           *)
THEOREM InConservedCorrect == Spec => []InConserved
<1>1. ReadInv => InConserved
  BY DEF ReadInv
<1>2. QED
  BY <1>1, ReadInvariant, PTL

(* The line writer keeps the promises of a two-way channel as well: lines  *)
(* go past the buffer, parts of them through it, and yet the device gets   *)
(* a prefix of what the caller was told is written and of the buffer on    *)
(* offer; it is flushed only when it has everything.                       *)
THEOREM ImplementsChannelCorrect == Spec => ImplementsChannel
<1>1. Init => Channel!Init
  BY DEF Init, Channel!Init
<1>2. QED
  BY <1>1, NextReadInv, Invariant, OutConservedCorrect, ReadInvariant, PTL
     DEF Spec, ImplementsChannel, Channel!Spec
=============================================================================
