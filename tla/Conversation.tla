---------------------------- MODULE Conversation ----------------------------
(***************************************************************************)
(* A request and reply conversation over a socketed thread: a caller with  *)
(* a `BufDuplexer` around a `StreamDuplexer::socketed_thread*`, and a      *)
(* boxed half-duplex object that answers whole requests, as a serial       *)
(* device or an interpreter at its prompt does.  Three parties wait for    *)
(* each other here, and the relay, which knows nothing of messages, has to *)
(* guess from the length of a read whose turn it is.                       *)
(*                                                                         *)
(* Every step is a step of SocketedThread that the caller's program and    *)
(* the peer allow.  Neither side speaks out of turn, so the relay is the   *)
(* only one that can get the turns wrong.                                  *)
(***************************************************************************)
EXTENDS SocketedThread

CONSTANTS
    Requests, \* lengths of a request
    Replies,  \* lengths of a reply
    Rounds    \* bound: messages each side sends

ASSUME MessageAssumption ==
    /\ Requests \cup Replies \subseteq Nat \ {0} /\ Rounds \in Nat
    /\ \A n \in Requests : n * Rounds <= MaxOut /\ n <= SockCap /\ n <= MaxArg
    /\ \A n \in Replies : n * Rounds <= MaxIn /\ n <= SockCap /\ n <= MaxArg

VARIABLES
    request,   \* the length of each request
    reply,     \* and of each reply
    peerFirst, \* the boxed object opens the conversation
    whole,     \* what is sent together is received together
    method,    \* how the caller reads: "read" or "fill_buf"
    buffered   \* bytes of the request in BufDuplexer's write buffer

terms == << request, reply, peerFirst, whole, method >>
all   == << vars, terms, buffered >>

(* The caller's own function is no relay.                                  *)
ConvInit ==
    /\ Init
    /\ origin # "func" /\ request \in Requests /\ reply \in Replies
    /\ peerFirst \in BOOLEAN /\ whole \in BOOLEAN /\ method \in {"read", "fill_buf"}
    /\ origin = "read_first" => peerFirst
    /\ origin = "write_first" => ~peerFirst
    /\ buffered = 0

(* How many messages of a side the other side's progress allows so far.    *)
Allowed(received, first) == Least(Rounds, received + (IF first THEN 1 ELSE 0))

(* Bytes the peer has to say, and those the caller has to say or to hear,  *)
(* now that the messages received are whole.                               *)
PeerHas == reply * Allowed(Len(consumed) \div request, peerFirst) - Len(yielded)
ToSay ==
    request * Allowed(Len(delivered) \div reply, ~peerFirst) - Len(accepted) - buffered
ToHear ==
    reply * Allowed((Len(accepted) + buffered) \div request, peerFirst) - Len(delivered)

Done == Len(accepted) = request * Rounds /\ Len(delivered) = reply * Rounds

-----------------------------------------------------------------------------
(* The relay between the socket and the peer.                              *)

(* A read of the peer waits until the peer has something to say.           *)
Answer ==
    /\ PeerHas > 0 /\ ReadBoxed
    /\ Len(chunk') <= PeerHas
    /\ whole => Len(chunk') = Least(RelayBuf, PeerHas)

(* The peer hangs up when all is said, and signals interrupt its read.     *)
AnswerEnds ==
    /\ ReadBoxedEnds
    /\ \/ thread' = "ok" /\ Len(yielded) = reply * Rounds /\ Len(consumed) = request * Rounds
       \/ thread' = "read_socket" /\ signals

(* Ready bytes of the peer are those it has to say.                        *)
PollPeer ==
    /\ Poll
    /\ thread = "poll_boxed" => (thread' = "read_boxed" <=> PeerHas > 0)

Forward ==
    /\ ReadSocket
    /\ whole => Len(chunk') = Least(RelayBuf, Len(toThread))

ConvRelay ==
    /\ Answer \/ AnswerEnds \/ PollPeer \/ Forward
          \/ WriteSocket \/ ReadSocketEnds \/ WriteBoxed
    /\ UNCHANGED << terms, buffered >>

-----------------------------------------------------------------------------
(* The caller, by way of BufDuplexer.                                      *)

(* BufDuplexer::write of a request that fits its buffer.                   *)
Ask ==
    /\ open /\ call = "idle" /\ buffered = 0 /\ ToSay > 0
    /\ buffered' = request
    /\ UNCHANGED << vars, terms >>

(* BufDuplexer::read and read_until flush: flush_buf hands what is         *)
(* buffered to the stream; so does the caller when the last word is its.   *)
FlushFirst ==
    /\ buffered > 0
    /\ method = "read" \/ ToHear = 0
    /\ BeginWrite /\ call' = "write_all" /\ left' = buffered
    /\ buffered' = 0 /\ UNCHANGED terms

(* Mutant of Listen: BufDuplexer::read goes straight to the backend.       *)
Listen_Unflushed ==
    /\ ToHear > 0
    /\ BeginRead /\ left' = MaxArg
    /\ UNCHANGED << terms, buffered >>

(* ... and then read; fill_buf reads without flushing.                     *)
Listen ==
    /\ ToHear > 0 /\ (method = "read" => buffered = 0)
    /\ BeginRead /\ left' = MaxArg
    /\ UNCHANGED << terms, buffered >>

Carry ==
    /\ \/ Put /\ (whole => Len(accepted') - Len(accepted)
                              = Least(left, SockCap - Len(toThread)))
       \/ PutFails \/ Get \/ GetEnd
    /\ UNCHANGED << terms, buffered >>

Leave == Done /\ Drop /\ UNCHANGED << terms, buffered >>

ConvCaller == Ask \/ FlushFirst \/ Listen \/ Carry \/ Leave

ConvNext == ConvRelay \/ ConvCaller

(* The relay runs, the peer answers when it can, and the caller runs its   *)
(* program.                                                                *)
ConvSpec == ConvInit /\ [][ConvNext]_all /\ WF_all(ConvRelay) /\ WF_all(ConvCaller)

-----------------------------------------------------------------------------
(* Properties.                                                             *)

(* No message ends where the relay's buffer does.                          *)
Uneven == request % RelayBuf # 0 /\ reply % RelayBuf # 0

(* What a conversation needs that the code does not provide for: messages  *)
(* that arrive whole and do not fill the relay's buffer, no signals, and a *)
(* caller that flushes before it waits.                                    *)
Framed == whole /\ ~signals /\ method = "read" /\ Uneven

(* Everyone waits for someone else.                                        *)
Stalled ==
    /\ call = "read" /\ toCaller = << >>
    /\ \/ thread = "read_boxed" /\ PeerHas = 0
       \/ thread = "read_socket" /\ toThread = << >>
       \/ thread \in Polling /\ toThread = << >> /\ PeerHas = 0

(* In a framed conversation nobody is ever left waiting: the relay turns   *)
(* round exactly when a message is over.                                   *)
StallHasCause == Stalled => ~Framed

(* A framed conversation comes to its end.                                 *)
ExchangeCompletes == Framed ~> Done

(* And only a framed one is sure to.  Where messages arrive whole and no   *)
(* signal interferes, one message that fills the relay's buffer exactly, in*)
(* either direction, or one wait in fill_buf without a flush, is the last: *)
(* the relay waits for more of it, or for a request it was never given.    *)
OthersStall == (Done /\ whole /\ ~signals /\ Rounds > 1) => Framed

-----------------------------------------------------------------------------
(* The inductive invariant behind the theorems of SocketedThreadProofs     *)
(* about conversations; those are about SocketedThread's Inv as well.      *)

Orderly == whole /\ ~signals
Running == open /\ thread \notin Ended

ConvTypes ==
    /\ origin # "func" /\ request \in Requests /\ reply \in Replies
    /\ peerFirst \in BOOLEAN /\ whole \in BOOLEAN /\ method \in {"read", "fill_buf"}
    /\ buffered \in {0, request} /\ PeerHas >= 0

(* Bytes of a request on their way from the buffer to the socket.          *)
Leaving == IF call = "write_all" THEN left ELSE 0

(* Requests leave whole, one at a time, and in their turn, and the caller  *)
(* waits only for what there is to come.                                   *)
InTurn ==
    /\ Len(accepted) % request = 0
    /\ call # "write" /\ Leaving \in {0, request} /\ ToSay >= Leaving
    /\ call = "read" => ToHear > 0 /\ (method = "read" => buffered = 0)

(* What the lengths of the reads tell the relay: the direction it turns to *)
(* is the one that has bytes, or will have them next.                      *)
Cued ==
    /\ toThread # << >> => Len(toThread) % RelayBuf = request % RelayBuf
    /\ PeerHas > 0 => PeerHas % RelayBuf = reply % RelayBuf
    /\ thread = "write_boxed" => chunk # << >> /\ (filled <=> toThread # << >>)
    /\ thread = "write_socket" => (filled <=> PeerHas > 0)
    /\ thread = "read_socket" /\ toThread = << >> => PeerHas = 0
    /\ thread = "read_boxed" /\ PeerHas = 0 =>
          Len(consumed) = request * Rounds /\ Len(yielded) = reply * Rounds

(* A caller that waits in fill_buf never flushes.                          *)
Unflushed == accepted = << >> /\ call \notin Writing

(* Requests that fill the relay's buffer: it never comes to the answer.    *)
FullRequests ==
    /\ open /\ Len(yielded) <= reply * (IF peerFirst THEN 1 ELSE 0)
    /\ Running =>
          /\ Len(toThread) % RelayBuf = 0 /\ (thread = "write_boxed" => filled)
          /\ consumed # << >> => thread \in {"write_boxed", "read_socket"}

(* Replies that do: after the first it never comes to another request.     *)
FullReplies ==
    /\ open /\ Len(consumed) <= request * (IF peerFirst THEN 0 ELSE 1)
    /\ Len(yielded) % RelayBuf = 0
    /\ Running /\ yielded # << >> => thread \in {"write_socket", "read_boxed"}
    /\ Running /\ thread = "write_socket" => filled

ConvInv ==
    /\ ConvTypes
    /\ Orderly /\ Running => InTurn
    /\ Framed /\ Running => Cued
    /\ Orderly /\ Rounds > 1 =>
          /\ method = "fill_buf" => Unflushed
          /\ method = "read" /\ request % RelayBuf = 0 => FullRequests
          /\ method = "read" /\ reply % RelayBuf = 0 => FullReplies
=============================================================================
