---------------------------- MODULE MCDeployHost ----------------------------
(***************************************************************************)
(* The way from a deploy call to the host for TLC, one of three parts,     *)
(* chosen at the start: the service and its connection (DeployService),    *)
(* the packets of the session (SftpStream) and the operations on a file or *)
(* a directory of the host (SftpFiles).                                    *)
(***************************************************************************)
EXTENDS DeployService, HostParts, TLC

VARIABLE part

\* Up to three packets, empty ones and one above the limit among them.
MCStreams == UNION {[1..n -> 0..MaxPacket + 1] : n \in 1..3}

\* Files and directories up to one more than their limit.
MCContents == UNION {[1..n -> {"x", "y"}] : n \in 0..MaxFileSize + 1}
MCDirectories ==
    {<<".", "..">> \o SubSeq(<<"a", "b", "c", "d">>, 1, n) : n \in 0..MaxEntries + 1}
        \cup {SubSeq(<<"a", "b", "c", "d">>, 1, n) \o <<"..", ".">> : n \in 0..MaxEntries + 1}

streamVars == <<lengths, arrived, closed, taken, prefix, prefix_sent, remaining, polling,
                output, phase, need, have, got, status>>
fileVars == <<op, node, mode, bytes, step, handle, done, listed, outcome, reported, failed>>

-----------------------------------------------------------------------------

\* A part that is not chosen stays at one of its initial states.
StreamRests == Stream!Init /\ lengths = <<0>>
FilesRest == Files!Init /\ op = "mkdir" /\ node = <<>>

AllInit ==
    \/ part = "service" /\ Init /\ StreamRests /\ FilesRest
    \/ part = "stream" /\ Init /\ key = PinnedKey /\ Stream!Init /\ FilesRest
    \/ part = "files" /\ Init /\ key = PinnedKey /\ StreamRests /\ Files!Init

\* Callers are alike, so that they may as well call in the order of their numbers.
InTurn == \A c, d \in Callers : c < d /\ pc'[d] # "idle" => pc'[c] # "idle"

Service(A) == part = "service" /\ A /\ UNCHANGED <<part, streamVars, fileVars>>
Streaming(A) == part = "stream" /\ A /\ UNCHANGED <<part, vars, fileVars>>

AllNext ==
    \/ Service(Next /\ InTurn)
    \/ Streaming(Stream!Next)
    \/ part = "files" /\ Files!Next /\ UNCHANGED <<part, vars, streamVars>>

allVars == <<part, vars, streamVars, fileVars>>

\* The fairness of DeployService and of SftpStream.
AllSpec ==
    /\ AllInit /\ [][AllNext]_allVars
    /\ \A c \in Callers :
          /\ WF_allVars(Service(TimePasses(c)))
          /\ WF_allVars(Service(Timeout(c)))
    /\ WF_allVars(Streaming(Stream!Arrive))
    /\ WF_allVars(Streaming(Stream!Poll))
    /\ WF_allVars(Streaming(Stream!PollRead))

-----------------------------------------------------------------------------

\* A deployment ends and gives its permit back whatever the host does, and packets within
\* the limit all go through, empty ones included (TRANSACTION_TIMEOUT, poll_read).
NothingHangs ==
    /\ PermitReturns
    /\ part = "stream" /\ (\A k \in DOMAIN lengths : lengths[k] <= MaxPacket)
           ~> Len(got) = Stream!Total \/ closed

=============================================================================
