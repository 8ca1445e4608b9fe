------------------------------ MODULE SftpFiles ------------------------------
(***************************************************************************)
(* NativeFs (home_assistant/deployment.rs): the operations of RemoteFs     *)
(* that take several SFTP requests, against a host that answers reads and  *)
(* listings in pieces of its own choosing and may fail any request, before *)
(* or after it carried it out.                                             *)
(*                                                                         *)
(* DeployTransaction takes each of them for one step: a read or a listing  *)
(* is whole or fails, a file that is written is whole, absent or cut       *)
(* short.  That is what is checked here.                                   *)
(*                                                                         *)
(* A file is the sequence of its bytes, a directory that of its names.     *)
(* Nobody else changes them meanwhile.                                     *)
(***************************************************************************)
EXTENDS Naturals, Sequences, SequencesExt

CONSTANTS
    Chunk,        \* SFTP_CHUNK
    MaxFileSize,  \* MAX_FILE_SIZE
    MaxEntries,   \* MAX_ENTRIES
    Files,        \* contents of files
    Directories   \* contents of directories, "." and ".." among them

ConstantsAssumption ==
    /\ {Chunk, MaxFileSize, MaxEntries} \subseteq Nat \ {0}
    /\ \A s \in Files \cup Directories : s \in Seq(Range(s))

Missing == <<"missing">>

VARIABLES
    op,       \* read, read_dir, write_exclusive or mkdir
    node,     \* what is at the path: Missing, or its content
    mode,     \* its permissions are those asked for
    bytes,    \* what is to be written
    pc,
    handle,   \* none, open or closed
    done,     \* bytes or names read, or bytes sent
    listed,   \* entries of the directory that the host has given
    result,   \* the result before the handle is closed
    answer,
    failed    \* history: the host failed a request

vars == <<op, node, mode, bytes, pc, handle, done, listed, result, answer, failed>>

-----------------------------------------------------------------------------
(* Failures *)

\* map_sftp_error: what becomes of a request that fails.
MapSftpError == {"timeout", "authentication_failed", "unsafe_state", "unavailable"}

\* map_exclusive_error: no status is the fault of the login.
MapExclusiveError == MapSftpError \ {"authentication_failed"}

Answer(a) == pc' = "answered" /\ answer' = a

\* A request fails, and the operation with it.
FailsWith(errors) == failed' = TRUE /\ \E e \in errors : Answer(e)

\* The result so far; the handle is closed whatever it is.
Conclude(r) == pc' = "close" /\ result' = r

\* A request of a transfer fails.
Breaks == failed' = TRUE /\ \E e \in MapSftpError : Conclude(e)

-----------------------------------------------------------------------------
(* Handles *)

Opened == handle' = "open" /\ pc' = "transfer" /\ UNCHANGED <<answer, failed>>

\* open and opendir for a read.
Open ==
    /\ pc = "open" /\ op \in {"read", "read_dir"}
    /\ (node # Missing /\ Opened) \/ (FailsWith(MapSftpError) /\ UNCHANGED handle)
    /\ UNCHANGED <<op, node, mode, bytes, done, listed, result>>

\* open with CREATE and EXCLUDE: there must be nothing yet.
OpenExclusive ==
    /\ pc = "open" /\ op = "write_exclusive"
    /\ \/ /\ node = Missing /\ node' = <<>> /\ mode' \in BOOLEAN
          /\ Opened \/ (FailsWith(MapExclusiveError) /\ UNCHANGED handle)
       \/ FailsWith(MapExclusiveError) /\ UNCHANGED <<node, mode, handle>>
    /\ UNCHANGED <<op, bytes, done, listed, result>>

\* Mutant of Close: a failure is answered at once.
CloseOnSuccess ==
    /\ pc = "close"
    /\ IF result = "ok" THEN handle' = "closed" /\ Answer("ok") ELSE Answer(result) /\ UNCHANGED handle
    /\ UNCHANGED <<op, node, mode, bytes, done, listed, result, failed>>

\* close: its failure is the result if there was none before.
Close ==
    /\ pc = "close"
    /\ handle' = "closed"
    /\ \/ Answer(result) /\ UNCHANGED failed
       \/ result = "ok" /\ FailsWith(MapSftpError)
    /\ UNCHANGED <<op, node, mode, bytes, done, listed, result>>

-----------------------------------------------------------------------------
(* Transfers *)

Least(a, b) == IF a < b THEN a ELSE b

\* What the host may give of a file from an offset on; at its end an empty piece or Eof.
Pieces(offset) ==
    IF offset >= Len(node) THEN {<<>>}
    ELSE {SubSeq(node, offset + 1, offset + k) : k \in 1..Least(Chunk, Len(node) - offset)}

Take(data) ==
    /\ IF data = <<>> THEN Conclude("ok") /\ UNCHANGED done
       ELSE IF Len(done) + Len(data) > MaxFileSize
       THEN Conclude("unsafe_state") /\ UNCHANGED done
       ELSE done' = done \o data /\ UNCHANGED <<pc, result>>
    /\ UNCHANGED failed

\* Mutant of Read: the offset is that of whole chunks.
ReadWholeChunks ==
    /\ pc = "transfer" /\ op = "read"
    /\ \/ \E data \in Pieces(Chunk * ((Len(done) + Chunk - 1) \div Chunk)) : Take(data)
       \/ Breaks /\ UNCHANGED done
    /\ UNCHANGED <<op, node, mode, bytes, handle, listed, answer>>

\* read at the offset of what is there, until there is no more.
Read ==
    /\ pc = "transfer" /\ op = "read"
    /\ (\E data \in Pieces(Len(done)) : Take(data)) \/ (Breaks /\ UNCHANGED done)
    /\ UNCHANGED <<op, node, mode, bytes, handle, listed, answer>>

\* The entries that are neither of the directory itself nor of the one above it.
Names(entries) ==
    LET names[i \in 0..Len(entries)] ==
            IF i = 0 THEN <<>>
            ELSE names[i - 1] \o IF entries[i] \in {".", ".."} THEN <<>> ELSE <<entries[i]>>
    IN names[Len(entries)]

\* Mutant of TooMany: "." and ".." are counted.
TooManyWithDots(entries) == Len(entries) > MaxEntries

TooMany(entries) == Len(Names(entries)) > MaxEntries

\* readdir until Eof.
ReadDir ==
    /\ pc = "transfer" /\ op = "read_dir"
    /\ \/ \E k \in 1..Len(node) - listed :
             /\ IF TooMany(SubSeq(node, 1, listed + k))
                THEN Conclude("unsafe_state") /\ UNCHANGED <<done, listed>>
                ELSE /\ done' = done \o Names(SubSeq(node, listed + 1, listed + k))
                     /\ listed' = listed + k /\ UNCHANGED <<pc, result>>
             /\ UNCHANGED failed
       \/ listed = Len(node) /\ Conclude("ok") /\ UNCHANGED <<done, listed, failed>>
       \/ Breaks /\ UNCHANGED <<done, listed>>
    /\ UNCHANGED <<op, node, mode, bytes, handle, answer>>

NextChunk == SubSeq(bytes, Len(done) + 1, Least(Len(bytes), Len(done) + Chunk))

\* Mutant of Write: a chunk that failed is passed over.
WritePassesOver ==
    /\ pc = "transfer" /\ op = "write_exclusive"
    /\ \/ done = bytes /\ Conclude("ok") /\ UNCHANGED <<node, done, failed>>
       \/ /\ done # bytes /\ done' = done \o NextChunk
          /\ \/ node' = node \o NextChunk /\ UNCHANGED failed
             \/ UNCHANGED node /\ failed' = TRUE
          /\ UNCHANGED <<pc, result>>
    /\ UNCHANGED <<op, mode, bytes, handle, listed, answer>>

\* The chunks in turn, each once the one before it is acknowledged.
Write ==
    /\ pc = "transfer" /\ op = "write_exclusive"
    /\ \/ done = bytes /\ Conclude("ok") /\ UNCHANGED <<node, done, failed>>
       \/ /\ done # bytes /\ done' = done \o NextChunk /\ node' = done'
          /\ UNCHANGED <<pc, result, failed>>
       \/ /\ done # bytes
          /\ \E k \in 0..Len(NextChunk) : node' = done \o SubSeq(NextChunk, 1, k)
          /\ Breaks
          /\ UNCHANGED done
    /\ UNCHANGED <<op, mode, bytes, handle, listed, answer>>

-----------------------------------------------------------------------------
(* mkdir *)

\* The host applies its own mask to the mode of a new directory.
Mkdir ==
    /\ pc = "open" /\ op = "mkdir"
    /\ \/ /\ node = Missing /\ node' = <<>> /\ mode' \in BOOLEAN
          /\ (pc' = "setstat" /\ UNCHANGED <<answer, failed>>) \/ FailsWith(MapSftpError)
       \/ FailsWith(MapSftpError) /\ UNCHANGED <<node, mode>>
    /\ UNCHANGED <<op, bytes, handle, done, listed, result>>

Setstat ==
    /\ pc = "setstat"
    /\ \/ mode' = TRUE /\ ((Answer("ok") /\ UNCHANGED failed) \/ FailsWith(MapSftpError))
       \/ FailsWith(MapSftpError) /\ UNCHANGED mode
    /\ UNCHANGED <<op, node, bytes, handle, done, listed, result>>

-----------------------------------------------------------------------------

Init ==
    /\ \/ op = "read" /\ node \in Files \cup {Missing} /\ bytes = <<>>
       \/ op = "read_dir" /\ node \in Directories \cup {Missing} /\ bytes = <<>>
       \/ op = "write_exclusive" /\ node \in Files \cup {Missing} /\ bytes \in Files
       \/ op = "mkdir" /\ node \in {<<>>, Missing} /\ bytes = <<>>
    /\ mode = (node # Missing)
    /\ pc = "open" /\ handle = "none" /\ done = <<>> /\ listed = 0
    /\ result = "none" /\ answer = "none" /\ failed = FALSE

Next == Open \/ OpenExclusive \/ Close \/ Read \/ ReadDir \/ Write \/ Mkdir \/ Setstat

Spec == Init /\ [][Next]_vars

-----------------------------------------------------------------------------
(* Properties *)

Succeeded(o) == op = o /\ answer = "ok"

\* A read or a listing that succeeds is the whole file or all names of the directory,
\* whatever the pieces that it came in.
ReadIsWhole ==
    /\ Succeeded("read") => done = node
    /\ Succeeded("read_dir") => done = Names(node)

\* With a host that does not fail, a file or a directory is refused exactly when it is
\* above the limit, "." and ".." apart.
LimitsAreExact ==
    pc = "answered" /\ ~failed =>
        /\ op = "read" => (answer = "ok") = (Len(node) <= MaxFileSize)
        /\ op = "read_dir" => (answer = "ok") = (Len(Names(node)) <= MaxEntries)

\* A write that succeeds has put the whole file there; one that fails leaves nothing, the
\* file that was there, or an initial part of the new one: what reconcile is prepared for.
WriteIsPrefix ==
    op = "write_exclusive" =>
        /\ answer = "ok" => node = bytes
        /\ handle # "none" => IsPrefix(node, bytes)

\* A handle that was opened has been closed by the time of the answer, on every path.
HandleClosed == pc = "answered" => handle # "open"

=============================================================================
