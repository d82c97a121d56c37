------------------------ MODULE StreamHandlesProofs ------------------------
(***************************************************************************)
(* For any number of streams and descriptors: the raw handles of a stream  *)
(* name what its resources own, and nothing outlives the stream.           *)
(***************************************************************************)
EXTENDS StreamHandles, TLAPS

USE FdAssumption

Mine(s) == {held[s].read, held[s].write} \cap Fd

(* A stream with no resources is at rest only when its thread is over.     *)
Rest(s) ==
    (kind[s] \in Joined /\ held[s] = Nothing /\ call[s] = "idle")
      => thread[s] \in Ended /\ HeldBy(Helper(s)) = {}

(* What the table of descriptors and the fields of stream s know of each   *)
(* other.                                                                  *)
Agrees(s) ==
    /\ HeldBy(Owned(s)) = Mine(s)
    /\ open[s] /\ held[s] # Nothing => handle[s] = held[s]
    /\ ~open[s] \/ call[s] # "idle" => held[s] = Nothing
    /\ kind[s] = "unused" => ~open[s] /\ call[s] = "idle" /\ thread[s] = "none"
    /\ call[s] \in {"map_err", "flush"} => open[s] /\ kind[s] \in Piped
    /\ kind[s] # "func" /\ thread[s] # "running" => HeldBy(Helper(s)) = {}
    /\ Rest(s)

Inv == TypeOK /\ \A s \in Stream : Agrees(s)

-----------------------------------------------------------------------------
(* The four kinds of holder of a descriptor are told apart.                *)
LEMMA Distinct ==
  /\ Free # Program
  /\ \A s : Owned(s) \notin {Free, Program} /\ Helper(s) \notin {Free, Program}
  /\ \A s, t : Owned(s) # Helper(t)
  /\ \A s, t : (Owned(s) = Owned(t) \/ Helper(s) = Helper(t)) => s = t
  BY DEF Free, Program, Owned, Helper

(* A stream without resources has no descriptor in them.                   *)
LEMMA NothingEnds ==
  Nothing \in Pairs /\ {Nothing.read, Nothing.write} \cap Fd = {}
  BY DEF Nothing, Both, Pairs

(* The holder of each descriptor after it changes hands.                   *)
LEMMA GiveType ==
  ASSUME NEW F, NEW o \in Holders, TypeOK
  PROVE  /\ Give(F, o) \in [Fd -> Holders]
         /\ \A f \in Fd : Give(F, o)[f] = IF f \in F THEN o ELSE holder[f]
  BY DEF Give, TypeOK

(* Nothing is held, and every slot is unused, at the start.                *)
LEMMA InvInit == Init => Inv
<1> SUFFICES ASSUME Init PROVE Inv
  OBVIOUS
<1>1. TypeOK
  BY NothingEnds DEF Init, TypeOK, Kinds, Holders, Ended
<1>2. ASSUME NEW s \in Stream PROVE Agrees(s)
  BY Distinct, NothingEnds
     DEF Init, Agrees, Rest, Mine, HeldBy, Joined, Piped
<1>3. QED
  BY <1>1, <1>2 DEF Inv

-----------------------------------------------------------------------------
(* What a step on behalf of stream s leaves alone.                         *)
Local(s) ==
    /\ \A f \in Fd :
          \/ holder'[f] = holder[f]
          \/ {holder[f], holder'[f]} \subseteq {Free, Program, Owned(s), Helper(s)}
    /\ \A t \in Stream \ {s} :
          /\ kind'[t] = kind[t] /\ open'[t] = open[t] /\ handle'[t] = handle[t]
          /\ held'[t] = held[t] /\ thread'[t] = thread[t] /\ call'[t] = call[t]

(* Streams and their threads do not touch each other's descriptors.        *)
LEMMA Frame ==
  ASSUME Inv, NEW s \in Stream, Local(s), NEW t \in Stream \ {s}
  PROVE  Agrees(t)'
<1>1. HeldBy(Owned(t))' = HeldBy(Owned(t)) /\ HeldBy(Helper(t))' = HeldBy(Helper(t))
  BY Distinct DEF Local, HeldBy
<1>2. QED
  BY <1>1 DEF Inv, Local, Agrees, Rest, Mine

(* A step of stream s only has to be checked on s.                      *)
LEMMA StepOf ==
  ASSUME Inv, NEW s \in Stream, Local(s), TypeOK', Agrees(s)'
  PROVE  Inv'
  BY Frame DEF Inv

(* Building a stream on descriptors that were free or the program's.       *)
LEMMA PlainStep ==
  ASSUME Inv, NEW s \in Stream, NEW h \in Pairs, NEW F \in SUBSET Fd,
         F = {h.read, h.write} \cap Fd, F \subseteq HeldBy(Free) \cup HeldBy(Program),
         Plain(s, h, F)
  PROVE  Inv'
<1>0. TypeOK /\ Agrees(s) /\ kind[s] = "unused" /\ Owned(s) \in Holders
  BY DEF Inv, Plain, New, Holders
<1>1. /\ holder' \in [Fd -> Holders]
      /\ \A f \in Fd : holder'[f] = IF f \in F THEN Owned(s) ELSE holder[f]
  BY <1>0, GiveType DEF Plain
<1>2. TypeOK'
  BY <1>0, <1>1 DEF TypeOK, Plain, New, Kinds
<1>3. Local(s)
  BY <1>0, <1>1 DEF Local, TypeOK, Plain, New, HeldBy
<1>4. HeldBy(Owned(s))' = F /\ HeldBy(Helper(s))' = HeldBy(Helper(s))
  <2>1. HeldBy(Owned(s)) = {}
    BY <1>0, Distinct, NothingEnds DEF Agrees, Mine
  <2>2. QED
    BY <1>1, <2>1, Distinct DEF HeldBy
<1>5. Agrees(s)'
  BY <1>0, <1>4 DEF Agrees, Rest, Mine, Plain, New, TypeOK, Joined, Piped
<1>6. QED
  BY <1>2, <1>3, <1>5, StepOf

(* Building a stream on one end of a new pipe or socketpair.               *)
LEMMA ThreadedStep ==
  ASSUME Inv, NEW s \in Stream, NEW k \in Kinds \ {"unused"},
         NEW f \in HeldBy(Free), NEW h \in {Reader(f), Writer(f), Both(f, f)},
         Threaded(s, k, f, h)
  PROVE  Inv'
<1>0. PICK g \in HeldBy(Free) \ {f} :
        /\ New(s, k, h, h)
        /\ holder' = [Give({f}, Owned(s)) EXCEPT ![g] = Helper(s)]
        /\ thread' = [thread EXCEPT ![s] = "running"]
  BY DEF Threaded
<1>1. /\ TypeOK /\ Agrees(s) /\ kind[s] = "unused"
      /\ Owned(s) \in Holders /\ Helper(s) \in Holders /\ f \in Fd /\ g \in Fd
  BY <1>0 DEF Inv, New, Holders, HeldBy
<1>h. h \in Pairs /\ {h.read, h.write} \cap Fd = {f} /\ h # Nothing
  <2>1. f \in Fd /\ f # NoFd
    BY <1>1
  <2>2. QED
    BY <2>1 DEF Reader, Writer, Both, Nothing, Pairs
<1>2. /\ holder' \in [Fd -> Holders]
      /\ \A e \in Fd : holder'[e] = IF e = g THEN Helper(s)
                                    ELSE IF e = f THEN Owned(s) ELSE holder[e]
  BY <1>0, <1>1, GiveType DEF HeldBy
<1>3. TypeOK'
  BY <1>0, <1>1, <1>2, <1>h DEF TypeOK, New
<1>4. Local(s)
  BY <1>0, <1>1, <1>2 DEF Local, TypeOK, New, HeldBy
<1>5. HeldBy(Owned(s))' = {f}
  <2>1. HeldBy(Owned(s)) = {}
    BY <1>1, Distinct, NothingEnds DEF Agrees, Mine
  <2>2. QED
    BY <1>1, <1>2, <2>1, Distinct DEF HeldBy
<1>6. Agrees(s)'
  BY <1>0, <1>1, <1>5, <1>h DEF Agrees, Rest, Mine, New, TypeOK
<1>7. QED
  BY <1>3, <1>4, <1>6, StepOf

(* Every constructor is one of these two.                                  *)
LEMMA BuildStep ==
  ASSUME Inv, NEW s \in Stream, Build(s)
  PROVE  Inv'
<1> DEFINE Ready == HeldBy(Free) \cup HeldBy(Program)
<1>1. ASSUME NEW f \in Ready, \/ Plain(s, Reader(f), {f})
                              \/ Plain(s, Writer(f), {f})
                              \/ Plain(s, Both(f, f), {f})
      PROVE  Inv'
  <2>1. PICK h \in {Reader(f), Writer(f), Both(f, f)} : Plain(s, h, {f})
    BY <1>1
  <2>2. /\ h \in Pairs /\ {f} = {h.read, h.write} \cap Fd
        /\ {f} \in SUBSET Fd /\ {f} \subseteq Ready
    BY DEF Reader, Writer, Both, Pairs, HeldBy
  <2>3. QED
    BY <2>1, <2>2, PlainStep
<1>2. ASSUME NEW f \in Ready, NEW g \in Ready, Plain(s, Both(f, g), {f, g})
      PROVE  Inv'
  <2>1. /\ Both(f, g) \in Pairs
        /\ {f, g} = {Both(f, g).read, Both(f, g).write} \cap Fd
        /\ {f, g} \in SUBSET Fd /\ {f, g} \subseteq Ready
    BY DEF Both, Pairs, HeldBy
  <2>2. QED
    BY <1>2, <2>1, PlainStep
<1>3. ASSUME Stdin(s) \/ Stdout(s) \/ Stderr(s) \/ StdinStdout(s)
      PROVE  Inv'
  <2>1. PICK h \in {Reader("stdin"), Writer("stdout"), Writer("stderr"),
                    Both("stdin", "stdout")} : Plain(s, h, {})
    BY <1>3 DEF Stdin, Stdout, Stderr, StdinStdout
  <2>2. h \in Pairs /\ {} = {h.read, h.write} \cap Fd
    BY DEF Reader, Writer, Both, Pairs, StdFd
  <2>3. QED
    BY <2>1, <2>2, PlainStep
<1>4. ASSUME PipedReader(s) \/ PipedWriter(s) \/ Socketed(s) \/ SocketedFunc(s)
      PROVE  Inv'
  <2>1. PICK f \in HeldBy(Free) :
          \E h \in {Reader(f), Writer(f), Both(f, f)} :
          \E k \in {"piped_reader", "piped_writer", "socketed", "func"} :
            Threaded(s, k, f, h)
    BY <1>4 DEF PipedReader, PipedWriter, Socketed, SocketedFunc
  <2>2. {"piped_reader", "piped_writer", "socketed", "func"} \subseteq Kinds \ {"unused"}
    BY DEF Kinds, Piped
  <2>3. QED
    BY <2>1, <2>2, ThreadedStep
<1>5. QED
  BY <1>1, <1>2, <1>3, <1>4
     DEF Build, ReaderOf, WriterOf, DuplexerOf, DuplexerOfTwo, ReaderNull,
         ReaderBytes, WriterNull, DuplexerNull, ReadFromCommand,
         WriteToCommand, DuplexWithCommand

-----------------------------------------------------------------------------
(* take() closes the stream's end and leaves everyone else's open.         *)
LEMMA TakeType ==
  ASSUME Inv, NEW s \in Stream,
         NEW what \in {"idle", "map_err", "flush", "drop"},
         TakeAndJoin(s, what)
  PROVE  /\ holder' \in [Fd -> Holders] /\ held' \in [Stream -> Pairs]
         /\ call' \in [Stream -> {"idle", "map_err", "flush", "drop"}]
         /\ held'[s] = Nothing /\ call'[s] = what
         /\ HeldBy(Owned(s))' = {} /\ Mine(s)' = {}
         /\ HeldBy(Helper(s))' = HeldBy(Helper(s))
         /\ \A f \in Fd :
               \/ holder'[f] = holder[f]
               \/ {holder[f], holder'[f]} \subseteq {Free, Owned(s)}
<1>0. TypeOK /\ Free \in Holders
  BY DEF Inv, Holders
<1>1. /\ holder' \in [Fd -> Holders]
      /\ \A f \in Fd : holder'[f] = IF holder[f] = Owned(s) THEN Free
                                    ELSE holder[f]
  BY <1>0, GiveType DEF TakeAndJoin, HeldBy
<1>2. /\ held' \in [Stream -> Pairs] /\ held'[s] = Nothing
      /\ call' \in [Stream -> {"idle", "map_err", "flush", "drop"}]
      /\ call'[s] = what
  BY <1>0, NothingEnds DEF TakeAndJoin, TypeOK
<1>3. HeldBy(Owned(s))' = {} /\ HeldBy(Helper(s))' = HeldBy(Helper(s))
  BY <1>1, Distinct DEF HeldBy
<1>4. Mine(s)' = {}
  BY <1>2, NothingEnds DEF Mine
<1>5. QED
  BY <1>1, <1>2, <1>3, <1>4

(* map_err and flush up to the join.                                       *)
LEMMA BeginJoinStep ==
  ASSUME Inv, NEW s \in Stream, MapErr(s) \/ BeginFlush(s)
  PROVE  Inv'
<1>1. PICK what \in {"map_err", "flush"} : TakeAndJoin(s, what)
  BY DEF MapErr, BeginFlush
<1>2. /\ TypeOK /\ Agrees(s) /\ open[s] /\ kind[s] \in Piped
      /\ UNCHANGED << kind, open, handle, thread >>
  BY DEF Inv, MapErr, BeginFlush, Piped
<1>3. TypeOK'
  BY <1>1, <1>2, TakeType DEF TypeOK
<1>4. Local(s)
  BY <1>1, <1>2, TakeType DEF Local, TakeAndJoin, TypeOK
<1>5. Agrees(s)'
  BY <1>1, <1>2, TakeType DEF Agrees, Rest, Piped
<1>6. QED
  BY <1>3, <1>4, <1>5, StepOf

(* The destructor up to the join, if it joins.                             *)
LEMMA BeginDropStep ==
  ASSUME Inv, NEW s \in Stream, BeginDrop(s)
  PROVE  Inv'
<1> DEFINE what == IF kind[s] \in Joined /\ held[s] # Nothing THEN "drop"
                   ELSE "idle"
<1>0. /\ TypeOK /\ Agrees(s) /\ open[s] /\ call[s] = "idle"
      /\ open' = [open EXCEPT ![s] = FALSE]
      /\ UNCHANGED << kind, handle, thread >>
  BY DEF Inv, BeginDrop
<1>1. TakeAndJoin(s, what) /\ what \in {"idle", "drop"}
  BY DEF BeginDrop
<1> HIDE DEF what
<1>2. TypeOK'
  BY <1>0, <1>1, TakeType DEF TypeOK
<1>3. Local(s)
  BY <1>0, <1>1, TakeType DEF Local, TakeAndJoin, TypeOK
<1>4. Rest(s)'
  BY <1>0, <1>1, TakeType DEF Agrees, Rest, what
<1>5. Agrees(s)'
  BY <1>0, <1>1, <1>4, TakeType DEF Agrees, TypeOK
<1>6. QED
  BY <1>2, <1>3, <1>5, StepOf

(* The end of a helper thread.                                             *)
LEMMA ThreadEndsStep ==
  ASSUME Inv, NEW s \in Stream, ThreadEnds(s)
  PROVE  Inv'
<1>0. TypeOK /\ Agrees(s) /\ Free \in Holders
  BY DEF Inv, Holders
<1>1. PICK e \in Ended : thread' = [thread EXCEPT ![s] = e]
  BY DEF ThreadEnds
<1>2. /\ holder' \in [Fd -> Holders]
      /\ \A f \in Fd :
            \/ holder'[f] = holder[f]
            \/ holder[f] = Helper(s) /\ holder'[f] = Free
  <2>1. CASE holder' = holder
    BY <1>0, <2>1 DEF TypeOK
  <2>2. CASE holder' = Give(HeldBy(Helper(s)), Free)
    BY <1>0, <2>2, GiveType DEF HeldBy
  <2>3. QED
    BY <2>1, <2>2 DEF ThreadEnds
<1>3. kind[s] # "func" => HeldBy(Helper(s))' = {}
  <2>1. ASSUME kind[s] # "func"
        PROVE  \A f \in Fd : holder'[f] # Helper(s)
    BY <1>0, <2>1, GiveType, Distinct DEF ThreadEnds, HeldBy
  <2>2. QED
    BY <2>1 DEF HeldBy
<1>4. TypeOK'
  BY <1>0, <1>1, <1>2 DEF ThreadEnds, TypeOK
<1>5. Local(s)
  BY <1>0, <1>1, <1>2 DEF Local, ThreadEnds, TypeOK
<1>6. HeldBy(Owned(s))' = HeldBy(Owned(s)) /\ Mine(s)' = Mine(s)
  BY <1>2, Distinct DEF HeldBy, Mine, ThreadEnds
<1>7. thread[s] = "running" /\ thread'[s] = e /\ e # "running" /\ e # "none"
  BY <1>0, <1>1 DEF ThreadEnds, TypeOK, Ended
<1>8. Rest(s)'
  BY <1>0, <1>7 DEF Rest, Agrees, ThreadEnds, Ended
<1>9. Agrees(s)'
  BY <1>0, <1>3, <1>6, <1>7, <1>8 DEF Agrees, ThreadEnds
<1>10. QED
  BY <1>4, <1>5, <1>9, StepOf

(* The join of map_err.                                                    *)
LEMMA JoinErrStep ==
  ASSUME Inv, NEW s \in Stream, JoinErr(s)
  PROVE  Inv'
<1>0. TypeOK /\ Agrees(s)
  BY DEF Inv
<1>1. TypeOK' /\ Local(s) /\ call'[s] = "idle"
  BY <1>0 DEF JoinErr, TypeOK, Local
<1>2. Rest(s)'
  <2>1. HeldBy(Helper(s))' = HeldBy(Helper(s)) /\ HeldBy(Helper(s)) = {}
    BY <1>0 DEF JoinErr, Agrees, HeldBy, Piped, Ended
  <2>2. QED
    BY <2>1 DEF JoinErr, Rest
<1>3. HeldBy(Owned(s))' = HeldBy(Owned(s)) /\ Mine(s)' = Mine(s)
      /\ HeldBy(Helper(s))' = HeldBy(Helper(s))
  BY DEF JoinErr, HeldBy, Mine
<1>4. Agrees(s)'
  BY <1>0, <1>1, <1>2, <1>3 DEF JoinErr, Agrees
<1>5. QED
  BY <1>1, <1>4, StepOf

(* The join of the destructors.                                            *)
LEMMA JoinDropStep ==
  ASSUME Inv, NEW s \in Stream, JoinDrop(s)
  PROVE  Inv'
<1>0. TypeOK /\ Agrees(s) /\ Free \in Holders
  BY DEF Inv, Holders
<1>1. /\ holder' \in [Fd -> Holders]
      /\ \A f \in Fd : holder'[f] = IF holder[f] = Helper(s) THEN Free
                                    ELSE holder[f]
  BY <1>0, GiveType DEF JoinDrop, HeldBy
<1>2. TypeOK' /\ call'[s] = "idle"
  BY <1>0, <1>1 DEF JoinDrop, TypeOK
<1>3. Local(s)
  BY <1>0, <1>1 DEF JoinDrop, TypeOK, Local
<1>4. /\ HeldBy(Owned(s))' = HeldBy(Owned(s)) /\ Mine(s)' = Mine(s)
      /\ HeldBy(Helper(s))' = {}
  BY <1>1, Distinct DEF HeldBy, Mine, JoinDrop
<1>5. Rest(s)'
  BY <1>4 DEF Rest, JoinDrop
<1>6. Agrees(s)'
  BY <1>0, <1>2, <1>4, <1>5 DEF JoinDrop, Agrees
<1>7. QED
  BY <1>2, <1>3, <1>6, StepOf

(* The join of flush and the new pipe, thread and handle, or none of them. *)
LEMMA JoinFlushStep ==
  ASSUME Inv, NEW s \in Stream, JoinFlush(s)
  PROVE  Inv'
<1>0. /\ TypeOK /\ Agrees(s) /\ kind[s] \in Piped /\ held[s] = Nothing
      /\ call'[s] = "idle" /\ call' \in [Stream -> {"idle", "map_err", "flush", "drop"}]
      /\ HeldBy(Owned(s)) = {} /\ HeldBy(Helper(s)) = {}
      /\ Owned(s) \in Holders /\ Helper(s) \in Holders
  BY NothingEnds DEF Inv, JoinFlush, Agrees, Mine, Piped, Ended, TypeOK, Holders
<1>1. CASE UNCHANGED << holder, held, thread, handle >>
  <2>1. TypeOK' /\ Local(s)
    BY <1>0, <1>1 DEF JoinFlush, TypeOK, Local
  <2>2. /\ HeldBy(Owned(s))' = {} /\ HeldBy(Helper(s))' = {}
        /\ Mine(s)' = Mine(s)
    BY <1>0, <1>1 DEF HeldBy, Mine
  <2>3. Agrees(s)'
    BY <1>0, <1>1, <2>2 DEF JoinFlush, Agrees, Rest
  <2>4. QED
    BY <2>1, <2>3, StepOf
<1>2. ASSUME NEW f \in HeldBy(Free), NEW g \in HeldBy(Free), f # g,
             Restart(s, f, g)
      PROVE  Inv'
  <2>1. /\ f \in Fd /\ g \in Fd /\ holder[f] = Free /\ holder[g] = Free
        /\ Writer(f) \in Pairs /\ {Writer(f).read, Writer(f).write} \cap Fd = {f}
    BY DEF HeldBy, Writer, Pairs
  <2>2. /\ holder' \in [Fd -> Holders]
        /\ \A e \in Fd : holder'[e] = IF e = g THEN Helper(s)
                                      ELSE IF e = f THEN Owned(s) ELSE holder[e]
    BY <1>0, <1>2, <2>1 DEF Restart, TypeOK
  <2>3. TypeOK'
    BY <1>0, <1>2, <2>1, <2>2 DEF Restart, JoinFlush, TypeOK
  <2>4. Local(s)
    BY <1>0, <1>2, <2>1, <2>2 DEF Restart, JoinFlush, TypeOK, Local
  <2>5. HeldBy(Owned(s))' = {f}
    BY <1>0, <1>2, <2>1, <2>2, Distinct DEF HeldBy
  <2>6. held'[s] = Writer(f) /\ handle'[s] = Writer(f) /\ thread'[s] = "running"
    BY <1>0, <1>2 DEF Restart, TypeOK
  <2>7. open[s] /\ open' = open /\ kind' = kind /\ Writer(f) # Nothing
    <3>1. open[s] /\ open' = open /\ kind' = kind
      BY <1>0 DEF JoinFlush, Agrees
    <3>2. f # NoFd
      BY <2>1
    <3>3. QED
      BY <3>1, <3>2 DEF Writer, Nothing, Both
  <2>8. Agrees(s)'
    BY <1>0, <2>1, <2>5, <2>6, <2>7 DEF Agrees, Rest, Mine
  <2>9. QED
    BY <2>3, <2>4, <2>8, StepOf
<1>3. QED
  BY <1>1, <1>2 DEF JoinFlush

(* Descriptors of the rest of the program.                                 *)
LEMMA ProgramStep ==
  ASSUME Inv, ProgramOpens \/ ProgramCloses
  PROVE  Inv'
<1>0. TypeOK /\ Free \in Holders /\ Program \in Holders
  BY DEF Inv, Holders
<1>1. /\ holder' \in [Fd -> Holders]
      /\ \A f \in Fd : \/ holder'[f] = holder[f]
                       \/ {holder[f], holder'[f]} \subseteq {Free, Program}
      /\ UNCHANGED << kind, open, handle, held, thread, call >>
  <2>1. PICK f \in Fd, o \in {Free, Program} :
          holder[f] \in {Free, Program} /\ holder' = Give({f}, o)
    BY DEF ProgramOpens, ProgramCloses, HeldBy
  <2>2. QED
    BY <1>0, <2>1, GiveType DEF ProgramOpens, ProgramCloses
<1>2. TypeOK'
  BY <1>0, <1>1 DEF TypeOK
<1>3. ASSUME NEW s \in Stream PROVE Agrees(s)'
  <2>1. HeldBy(Owned(s))' = HeldBy(Owned(s)) /\ HeldBy(Helper(s))' = HeldBy(Helper(s))
    BY <1>1, Distinct DEF HeldBy
  <2>2. QED
    BY <1>1, <2>1 DEF Inv, Agrees, Rest, Mine
<1>4. QED
  BY <1>2, <1>3 DEF Inv

(* A step that changes nothing.                                            *)
LEMMA StutterStep == Inv /\ UNCHANGED vars => Inv'
  BY DEF Inv, TypeOK, Agrees, Rest, Mine, HeldBy, vars

-----------------------------------------------------------------------------
(* The inductive invariant: for every stream, the table of descriptors and *)
(* what the stream, its resources and its thread know agree.               *)
THEOREM Invariant == Spec => []Inv
<1>1. Inv /\ [Next]_vars => Inv'
  BY BuildStep, ThreadEndsStep, BeginJoinStep, JoinErrStep, JoinFlushStep,
     BeginDropStep, JoinDropStep, ProgramStep, StutterStep DEF Next, Use
<1>2. QED
  BY InvInit, <1>1, PTL DEF Spec

(* Type correctness.                                                       *)
THEOREM TypeCorrect == Spec => []TypeOK
<1>1. Inv => TypeOK
  BY DEF Inv
<1>2. QED
  BY <1>1, Invariant, PTL

(* The numbers a stream does its I/O on and gives out as borrowed          *)
(* descriptors name what its resources keep open, as long as it has them.  *)
THEOREM HandleHeldLiveCorrect == Spec => []HandleHeldLive
<1>1. Inv => HandleHeldLive
  <2> SUFFICES ASSUME Inv, NEW s \in Stream, open[s], held[s] # Nothing
               PROVE  /\ {AsFd(s).read, AsFd(s).write} \ {NoFd}
                            \subseteq HeldBy(Owned(s)) \cup StdFd
                      /\ ReadyBytes(s) = AsFd(s).read
    BY DEF HandleHeldLive
  <2>1. AsFd(s) = held[s] /\ HeldBy(Owned(s)) = Mine(s) /\ held[s] \in Pairs
    BY DEF Inv, Agrees, AsFd, TypeOK
  <2>2. {held[s].read, held[s].write} \subseteq Fd \cup StdFd \cup {NoFd}
    BY <2>1 DEF Pairs
  <2>3. QED
    BY <2>1, <2>2 DEF ReadyBytes, Mine
<1>2. QED
  BY <1>1, Invariant, PTL

(* A stream that is gone has closed its descriptors, and a thread its      *)
(* destructor joins is over and has closed its own.                        *)
THEOREM NothingOutlivesCorrect == Spec => []NothingOutlives
<1>1. Inv => NothingOutlives
  <2> SUFFICES ASSUME Inv, NEW s \in Stream, ~open[s], call[s] = "idle"
               PROVE  /\ HeldBy(Owned(s)) = {}
                      /\ kind[s] \in Piped \cup {"func"}
                           => thread[s] # "running" /\ HeldBy(Helper(s)) = {}
    BY DEF NothingOutlives
  <2>1. held[s] = Nothing /\ HeldBy(Owned(s)) = Mine(s) /\ Rest(s)
    BY DEF Inv, Agrees
  <2>2. QED
    BY <2>1, NothingEnds DEF Mine, Rest, Joined, Ended
<1>2. QED
  BY <1>1, Invariant, PTL
=============================================================================
