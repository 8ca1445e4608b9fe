----------------------------- MODULE SftpStream -----------------------------
(***************************************************************************)
(* BoundedSftpStream (home_assistant/deployment.rs): the packets of the    *)
(* SFTP channel on their way to the SFTP client, which never sees one that *)
(* is longer than the limit.                                               *)
(*                                                                         *)
(* poll_read is a loop over the inner stream, whose bytes arrive in pieces *)
(* of any size while it runs; a poll that ends Pending loses what it put   *)
(* into its buffer.  A byte is its place in the stream.  A prefix of       *)
(* PrefixLen bytes stands for the length of its packet; bytes that are not *)
(* a prefix stand for any length.                                          *)
(*                                                                         *)
(* The reader is external: it asks for a prefix, then for the packet, each *)
(* until it is complete, and stops at an error.                            *)
(***************************************************************************)
EXTENDS Naturals, Sequences

CONSTANTS
    PrefixLen,   \* 4
    MaxPacket,   \* MAX_SFTP_PACKET
    Chunk,       \* the size of the buffer of poll_read
    Streams      \* the streams, each the lengths of its packets

ConstantsAssumption ==
    /\ PrefixLen \in Nat \ {0} /\ Chunk \in Nat \ {0} /\ MaxPacket \in Nat
    /\ \A s \in Streams : s \in Seq(Nat)

VARIABLES
    lengths,      \* the packets that are sent
    arrived,      \* bytes that have arrived
    closed,       \* no more will
    taken,        \* bytes that poll_read has taken from the inner stream
    prefix,       \* the bytes of the prefix so far
    prefix_sent,
    remaining,
    polling,      \* poll_read is running
    output,       \* what it has put into its buffer
    phase,        \* what the reader asks for: prefix or packet
    need, have,   \* its size, and how much of it is there
    got,          \* all that the reader was given
    status        \* open, or the error

vars == <<lengths, arrived, closed, taken, prefix, prefix_sent, remaining, polling, output,
          phase, need, have, got, status>>
inner == <<lengths, arrived, closed>>
reader == <<phase, need, have, got>>

-----------------------------------------------------------------------------
(* The stream *)

\* Where packet k begins, k = Len(lengths) + 1 being the end of the stream.
Starts ==
    LET start[k \in 1..Len(lengths) + 1] ==
            IF k = 1 THEN 1 ELSE start[k - 1] + PrefixLen + lengths[k - 1]
    IN start

Total == Starts[Len(lengths) + 1] - 1

PrefixOf(k) == [i \in 1..PrefixLen |-> Starts[k] + i - 1]

\* u32::from_be_bytes
Lengths(bytes) ==
    LET k == {j \in DOMAIN lengths : PrefixOf(j) = bytes}
    IN IF k = {} THEN 0..MaxPacket ELSE {lengths[j] : j \in k}

Available == arrived - taken
Room == need - have - Len(output)
Least(S) == CHOOSE x \in S : \A y \in S : x <= y

-----------------------------------------------------------------------------
(* poll_read *)

Fail(e) == status' = e /\ polling' = FALSE /\ UNCHANGED <<inner, prefix_sent, output, reader>>

\* Mutant of ReadPrefix: the limit is for packets, prefix included.
ReadPrefixLoose ==
    /\ polling /\ Len(prefix) < PrefixLen
    /\ \E k \in 1..Least({PrefixLen - Len(prefix), Available}) :
          /\ taken' = taken + k
          /\ prefix' = prefix \o [i \in 1..k |-> taken + i]
          /\ IF Len(prefix') < PrefixLen
             THEN UNCHANGED <<inner, prefix_sent, remaining, polling, output, reader, status>>
             ELSE /\ remaining' \in Lengths(prefix')
                  /\ IF remaining' > MaxPacket + PrefixLen
                     THEN Fail("too_large")
                     ELSE UNCHANGED <<inner, prefix_sent, polling, output, reader, status>>

\* Some bytes of the prefix; once it is complete, the limit.
ReadPrefix ==
    /\ polling /\ Len(prefix) < PrefixLen
    /\ \E k \in 1..Least({PrefixLen - Len(prefix), Available}) :
          /\ taken' = taken + k
          /\ prefix' = prefix \o [i \in 1..k |-> taken + i]
          /\ IF Len(prefix') < PrefixLen
             THEN UNCHANGED <<inner, prefix_sent, remaining, polling, output, reader, status>>
             ELSE /\ remaining' \in Lengths(prefix')
                  /\ IF remaining' > MaxPacket
                     THEN Fail("too_large")
                     ELSE UNCHANGED <<inner, prefix_sent, polling, output, reader, status>>

\* Poll::Ready: the reader has what it was given, and goes on to the packet or the
\* next prefix once it is complete.  An empty packet takes no poll.
Ready(bytes) ==
    LET complete == have + Len(bytes) = need
        last == SubSeq(got \o bytes, Len(got \o bytes) - PrefixLen + 1, Len(got \o bytes))
    IN /\ polling' = FALSE /\ output' = <<>>
       /\ got' = got \o bytes
       /\ \/ /\ ~complete
             /\ have' = have + Len(bytes) /\ UNCHANGED <<phase, need>>
          \/ /\ complete /\ have' = 0
             /\ IF phase = "prefix"
                THEN /\ need' \in {IF n = 0 THEN PrefixLen ELSE n : n \in Lengths(last)}
                     /\ phase' = IF 0 \in Lengths(last) THEN "prefix" ELSE "packet"
                ELSE phase' = "prefix" /\ need' = PrefixLen

\* What fits of the prefix goes out.
SendPrefix ==
    LET count == Least({Room, PrefixLen - prefix_sent})
        sent == SubSeq(prefix, prefix_sent + 1, prefix_sent + count)
    IN /\ polling /\ Len(prefix) = PrefixLen /\ prefix_sent < PrefixLen
       /\ prefix_sent' = prefix_sent + count
       /\ IF count = Room
          THEN Ready(output \o sent)
          ELSE output' = output \o sent /\ UNCHANGED <<polling, reader>>
       /\ UNCHANGED <<inner, taken, prefix, remaining, status>>

PrefixDone == polling /\ Len(prefix) = PrefixLen /\ prefix_sent = PrefixLen

\* Mutant of NextPacket: what was sent of the prefix is not set back.
NextPacketKeepsSent ==
    /\ PrefixDone /\ remaining = 0
    /\ prefix' = <<>>
    /\ UNCHANGED <<inner, taken, prefix_sent, remaining, polling, output, reader, status>>

\* Mutant of NextPacket: the loop goes on without a new prefix.
NextPacketStays == PrefixDone /\ remaining = 0 /\ UNCHANGED vars

NextPacket ==
    /\ PrefixDone /\ remaining = 0
    /\ prefix' = <<>> /\ prefix_sent' = 0
    /\ UNCHANGED <<inner, taken, remaining, polling, output, reader, status>>

ReadPacket ==
    /\ PrefixDone /\ remaining > 0
    /\ \E k \in 1..Least({Room, remaining, Chunk, Available}) :
          /\ taken' = taken + k /\ remaining' = remaining - k
          /\ Ready(output \o [i \in 1..k |-> taken + i])
    /\ UNCHANGED <<inner, prefix, prefix_sent, status>>

WantsInner == polling /\ (Len(prefix) < PrefixLen \/ (PrefixDone /\ remaining > 0))

\* Poll::Pending of the inner stream.
Pending ==
    /\ WantsInner /\ Available = 0 /\ ~closed
    /\ polling' = FALSE /\ output' = <<>>
    /\ UNCHANGED <<inner, taken, prefix, prefix_sent, remaining, reader, status>>

\* The inner stream has ended.
UnexpectedEof ==
    /\ WantsInner /\ Available = 0 /\ closed
    /\ Fail("eof")
    /\ UNCHANGED <<taken, prefix, remaining>>

-----------------------------------------------------------------------------
(* The reader and the network *)

Poll ==
    /\ status = "open" /\ ~polling
    /\ polling' = TRUE /\ output' = <<>>
    /\ UNCHANGED <<inner, taken, prefix, prefix_sent, remaining, reader, status>>

Arrive ==
    /\ status = "open" /\ ~closed /\ arrived < Total
    /\ arrived' \in arrived + 1..Total
    /\ UNCHANGED <<lengths, closed, taken, prefix, prefix_sent, remaining, polling, output, reader, status>>

\* The connection is closed or lost, at the end of the stream or before.
Close ==
    /\ status = "open" /\ ~closed
    /\ closed' = TRUE
    /\ UNCHANGED <<lengths, arrived, taken, prefix, prefix_sent, remaining, polling, output, reader,
                   status>>

Init ==
    /\ lengths \in Streams
    /\ arrived = 0 /\ closed = FALSE /\ taken = 0
    /\ prefix = <<>> /\ prefix_sent = 0 /\ remaining = 0
    /\ polling = FALSE /\ output = <<>>
    /\ phase = "prefix" /\ need = PrefixLen /\ have = 0 /\ got = <<>>
    /\ status = "open"

PollRead == ReadPrefix \/ SendPrefix \/ NextPacket \/ ReadPacket \/ Pending \/ UnexpectedEof

Next == PollRead \/ Poll \/ Arrive \/ Close

Spec == Init /\ [][Next]_vars

\* The task of the session polls, and the host goes on sending.
FairSpec == Spec /\ WF_vars(Arrive) /\ WF_vars(Poll) /\ WF_vars(PollRead)

-----------------------------------------------------------------------------
(* Properties *)

\* The reader gets the stream as it is, from its beginning, without a gap, whatever the
\* pieces that it arrives in; a poll that is Pending loses nothing.
InOrder == got = [i \in DOMAIN got |-> i]

\* Nothing of a packet above the limit goes through, not even its length.
LimitHolds ==
    \A k \in DOMAIN lengths : lengths[k] > MaxPacket => Len(got) < Starts[k]

\* A stream of packets within the limit goes through as a whole, empty ones included,
\* unless the connection is closed before.
AllDelivered ==
    (\A k \in DOMAIN lengths : lengths[k] <= MaxPacket) ~> Len(got) = Total \/ closed

=============================================================================
