----------------------------- MODULE ByteStream -----------------------------
(***************************************************************************)
(* What a transport promises to the two programs that talk over it: the    *)
(* bytes come out as they went in, in order, none twice and none left out. *)
(* If the stream is made of whole messages, bytes come out only once they  *)
(* were flushed, and no read hands out bytes from both sides of a flush.   *)
(***************************************************************************)
EXTENDS Naturals, Sequences

VARIABLES
    sent,       \* what the one program has written
    flushes,    \* the lengths of sent at which it was flushed
    received,   \* what the other one has read
    whole       \* whether flushes delimit messages

streamVars == <<sent, flushes, received, whole>>

Init ==
    /\ sent = <<>> /\ received = <<>> /\ flushes = {}
    /\ whole \in BOOLEAN

Send ==
    /\ Len(sent') > Len(sent) /\ sent = SubSeq(sent', 1, Len(sent))
    /\ UNCHANGED <<flushes, received, whole>>

Flush ==
    /\ flushes' = flushes \cup {Len(sent)}
    /\ UNCHANGED <<sent, received, whole>>

Deliver ==
    /\ Len(received') > Len(received) /\ Len(received') <= Len(sent)
    /\ received' = SubSeq(sent, 1, Len(received'))
    /\ whole => /\ \E f \in flushes : Len(received') <= f
                /\ \A f \in flushes : f <= Len(received) \/ f >= Len(received')
    /\ UNCHANGED <<sent, flushes, whole>>

Next == Send \/ Flush \/ Deliver

Spec == Init /\ [][Next]_streamVars
=============================================================================
