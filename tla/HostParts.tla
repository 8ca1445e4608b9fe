----------------------------- MODULE HostParts -----------------------------
(***************************************************************************)
(* What lies between a deployment and the host: the packets of the SFTP    *)
(* session on their way to its client (SftpStream) and the operations on   *)
(* one file or directory of the host (SftpFiles), with what makes each of  *)
(* them correct under one name.                                            *)
(***************************************************************************)
EXTENDS Naturals, Sequences

CONSTANTS
    PrefixLen, MaxPacket, BufferSize, Streams,             \* SftpStream
    Chunk, MaxFileSize, MaxEntries, Contents, Directories  \* SftpFiles

VARIABLES
    lengths, arrived, closed, taken, prefix, prefix_sent, remaining, polling, output,
    phase, need, have, got, status,
    op, node, mode, bytes, step, handle, done, listed, outcome, reported, failed

Stream == INSTANCE SftpStream WITH Chunk <- BufferSize
Files == INSTANCE SftpFiles WITH
    Files <- Contents, pc <- step, result <- outcome, answer <- reported

ASSUME TransportAssumption == Stream!ConstantsAssumption /\ Files!ConstantsAssumption

-----------------------------------------------------------------------------

\* The reader is given the stream as it is, without a gap, and nothing of a packet above
\* MAX_SFTP_PACKET (BoundedSftpStream::poll_read).
StreamIsTrue == Stream!InOrder /\ Stream!LimitHolds

\* A read or a listing that succeeds is whole, files and directories are refused exactly
\* above their limits, a write leaves nothing, the old file or an initial part of the new
\* one, and all of it if it succeeds, and the handle is closed by the time of the answer
\* (NativeFs::read, read_dir and write_exclusive).
FilesAreTrue ==
    Files!ReadIsWhole /\ Files!LimitsAreExact /\ Files!WriteIsPrefix /\ Files!HandleClosed

=============================================================================
