--------------------------- MODULE DuplexChannel ---------------------------
(***************************************************************************)
(* What a buffered stream promises to its user, whatever it buffers: one   *)
(* FIFO of bytes in each direction.                                        *)
(*                                                                         *)
(*  - The device receives a prefix of the bytes the user was told are      *)
(*    written, followed by a prefix of the buffer on offer, in order, none *)
(*    twice; once the call has returned it holds nothing the user was told *)
(*    is not written.                                                      *)
(*  - A flush of the device happens only when the device has everything.   *)
(*  - The user receives the bytes of the device in order, none twice.      *)
(***************************************************************************)
EXTENDS Integers, Sequences

CONSTANT Byte

VARIABLES
    sent,    \* bytes the user was told are written
    offer,   \* the buffer of the write call in progress
    out,     \* bytes the device has taken
    synced,  \* how many of them the device has flushed
    feed,    \* bytes the device has delivered
    got      \* bytes the user has received

outChan == << sent, offer, out, synced >>
inChan  == << feed, got >>
channel == << outChan, inChan >>

IsPrefixOf(s, t) == Len(s) <= Len(t) /\ s = SubSeq(t, 1, Len(s))

Init ==
    /\ sent = << >> /\ offer = << >> /\ out = << >> /\ synced = 0
    /\ feed = << >> /\ got = << >>

Offer ==
    /\ offer = << >> /\ offer' \in Seq(Byte)
    /\ UNCHANGED << sent, out, synced, inChan >>

Transfer ==
    /\ IsPrefixOf(out, out') /\ IsPrefixOf(out', sent \o offer)
    /\ UNCHANGED << sent, offer, synced, inChan >>

Accept ==
    /\ \E k \in 0..Len(offer) : sent' = sent \o SubSeq(offer, 1, k)
    /\ offer' = << >>
    /\ IsPrefixOf(out, out') /\ IsPrefixOf(out', sent')
    /\ UNCHANGED << synced, inChan >>

Sync ==
    /\ out = sent /\ offer = << >>
    /\ synced' = Len(out)
    /\ UNCHANGED << sent, offer, out, inChan >>

Receive ==
    /\ feed' \in Seq(Byte) /\ IsPrefixOf(feed, feed')
    /\ IsPrefixOf(got, got') /\ IsPrefixOf(got', feed')
    /\ UNCHANGED outChan

Next == Offer \/ Transfer \/ Accept \/ Sync \/ Receive

Spec == Init /\ [][Next]_channel
=============================================================================
