------------------------------ MODULE BoundedReads ------------------------------
(***************************************************************************)
(* The reads that keep only so much of what a peer streams to them: the    *)
(* body of an HTTP response (http.rs send), the first part of a            *)
(* container's log (engine.rs collect_log_sample), and LND's TLS           *)
(* certificate, which is looked for in the container until it is there     *)
(* (wait_for_tls_certificate, read_container_file) while LND writes it:    *)
(* Docker is asked for its size and then for a tar archive of it.          *)
(***************************************************************************)
EXTENDS Naturals, Sequences, SequencesExt

CONSTANTS
  Limit,        \* bytes kept: max_response_bytes, max_bytes, MAX_LOG_SAMPLE_BYTES
  MaxChunks,    \* MAX_LOG_SAMPLE_CHUNKS
  Block,        \* TAR_BLOCK_BYTES
  Overhead,     \* TAR_ARCHIVE_OVERHEAD_BYTES
  MaxSource     \* bound: the longest body, log or file

ASSUME ReadAssumption ==
  /\ Limit \in Nat /\ MaxSource \in Nat /\ MaxChunks \in Nat \ {0}
  /\ Block \in Nat \ {0}
  /\ Overhead \in Nat /\ Overhead >= 4 * Block    \* header, padding, end blocks

Byte == {"text", "newline"}
Zero == "zero"
Header == "header"

\* The file before LND creates it.
Absent == <<Zero>>

EndBlocks == 2                \* TAR_END_BLOCKS

VARIABLES
  reader,       \* response, log or certificate
  source,       \* what there is to read; LND's file grows
  at,           \* where the read is
  stat,         \* the size Docker told
  declared,     \* the size in the archive's header
  stream,       \* what the peer has not sent yet
  buffer,       \* what is kept
  chunks,       \* chunks of the log seen
  result        \* how the read ended, and with what

readVars == <<reader, source, at, stat, declared, stream, buffer, chunks, result>>

NoResult == [how |-> "none", bytes |-> <<>>]

Texts(n) == UNION {[1..k -> {"text"}] : k \in 0..n}
Logs(n)  == UNION {[1..k -> Byte] : k \in 0..n}

ReadInit ==
  /\ \/ reader = "response" /\ source \in Texts(MaxSource)
     \/ reader = "log" /\ source \in Logs(MaxSource)
     \/ reader = "certificate" /\ source = Absent
  /\ at = IF reader = "certificate" THEN "stat" ELSE "reading"
  /\ stat = 0
  /\ declared = 0
  /\ stream = IF reader = "certificate" THEN <<>> ELSE source
  /\ buffer = <<>>
  /\ chunks = 0
  /\ result = NoResult

Ends(how, bytes) ==
  /\ at' = "done"
  /\ result' = [how |-> how, bytes |-> bytes]

Take(n) == SubSeq(stream, 1, n)
Rest(n) == SubSeq(stream, n + 1, Len(stream))

-------------------------------------------------------------------------------
(* The body of a response.                                                 *)

ExceedsAtLimit(n, remaining) == n >= remaining     \* mutant: off by one
Exceeds(n, remaining) == n > remaining

ResponseChunk ==
  /\ reader = "response" /\ at = "reading"
  /\ \E n \in 1..Len(stream) :
       LET remaining == Limit - Len(buffer)
           kept == IF n <= remaining THEN n ELSE remaining
       IN /\ buffer' = buffer \o Take(kept)
          /\ stream' = Rest(n)
          /\ IF Exceeds(n, remaining)
             THEN Ends("exceeded", buffer')
             ELSE UNCHANGED <<at, result>>
  /\ UNCHANGED <<reader, source, stat, declared, chunks>>

ResponseEnds ==
  /\ reader = "response" /\ at = "reading" /\ stream = <<>>
  /\ Ends("ok", buffer)
  /\ UNCHANGED <<reader, source, stat, declared, stream, buffer, chunks>>

-------------------------------------------------------------------------------
(* The sample of a log.                                                    *)

\* The kept bytes up to their last newline.
WholeLines(bytes) ==
  LET ends == {i \in DOMAIN bytes : bytes[i] = "newline"}
  IN SubSeq(bytes, 1, IF ends = {} THEN 0 ELSE CHOOSE i \in ends : \A j \in ends : j <= i)

\* A chunk may be empty, and counts; the loop leaves when the buffer is full or
\* the chunks are used up, and does not learn whether more would have come.
LogChunk ==
  /\ reader = "log" /\ at = "reading"
  /\ \E n \in 0..Len(stream) :
       LET remaining == Limit - Len(buffer)
           kept == IF n <= remaining THEN n ELSE remaining
       IN /\ buffer' = buffer \o Take(kept)
          /\ stream' = Rest(n)
          /\ chunks' = chunks + 1
          /\ IF Len(buffer') = Limit \/ chunks' = MaxChunks
             THEN Ends("truncated", WholeLines(buffer'))
             ELSE UNCHANGED <<at, result>>
  /\ UNCHANGED <<reader, source, stat, declared>>

LogEnds ==
  /\ reader = "log" /\ at = "reading" /\ stream = <<>>
  /\ Ends("ok", buffer)
  /\ UNCHANGED <<reader, source, stat, declared, stream, buffer, chunks>>

-------------------------------------------------------------------------------
(* The certificate.                                                        *)

\* LND creates the file and writes it, piece by piece.
LndWrites ==
  /\ reader = "certificate" /\ at # "done"
  /\ \/ source = Absent /\ source' = <<>>
     \/ source # Absent /\ Len(source) < MaxSource /\ source' = Append(source, "text")
  /\ UNCHANGED <<reader, at, stat, declared, stream, buffer, chunks, result>>

FitsArchive(size) == size <= Limit + Overhead      \* mutant: the other limit
Fits(size) == size <= Limit

\* get_container_archive_info: a missing file is looked for again.
Stat ==
  /\ at = "stat"
  /\ \/ source = Absent /\ at' = "pause" /\ UNCHANGED <<stat, result>>
     \/ /\ source # Absent /\ Fits(Len(source))
        /\ stat' = Len(source) /\ at' = "download" /\ UNCHANGED result
     \/ source # Absent /\ ~Fits(Len(source)) /\ Ends("too large", <<>>) /\ UNCHANGED stat
  /\ UNCHANGED <<reader, source, declared, stream, buffer, chunks>>

Zeros(n) == [i \in 1..n |-> Zero]
Padded(size) == ((size + Block - 1) \div Block) * Block

\* One entry: a header block, the file in whole blocks, and the end blocks.
Archive(file) ==
  [i \in 1..Block |-> Header] \o file \o Zeros(Padded(Len(file)) - Len(file))
    \o Zeros(EndBlocks * Block)

\* download_from_container. A 404 is worth another look here too, whatever it
\* is that Docker does not find.
Download ==
  /\ at = "download"
  /\ \/ stream' = Archive(source) /\ declared' = Len(source) /\ at' = "reading"
     \/ at' = "pause" /\ UNCHANGED <<stream, declared>>
  /\ UNCHANGED <<reader, source, stat, buffer, chunks, result>>

\* append_archive_chunk.
ArchiveChunk ==
  /\ reader = "certificate" /\ at = "reading"
  /\ \E n \in 1..Len(stream) :
       /\ stream' = Rest(n)
       /\ IF n > (Limit + Overhead) - Len(buffer)
          THEN Ends("invalid", <<>>) /\ UNCHANGED buffer
          ELSE buffer' = buffer \o Take(n) /\ UNCHANGED <<at, result>>
  /\ UNCHANGED <<reader, source, stat, declared, chunks>>

\* validate_strict_tar_framing, for the size that stat told.
Framed ==
  LET paddingEnd == Block + Padded(stat)
  IN /\ Len(buffer) >= paddingEnd + EndBlocks * Block
     /\ Len(buffer) % Block = 0
     /\ \A i \in (Block + stat + 1)..Len(buffer) : buffer[i] = Zero

\* decode_single_file_archive.
Decodes == Fits(stat) /\ Framed /\ declared = stat

Contents == SubSeq(buffer, Block + 1, Block + stat)

\* An empty certificate is looked for again, any other file is taken.
ArchiveEnds ==
  /\ reader = "certificate" /\ at = "reading"
  /\ CASE ~Decodes -> Ends("invalid", <<>>)
       [] Decodes /\ Contents = <<>> -> at' = "pause" /\ UNCHANGED result
       [] OTHER -> Ends("ok", Contents)
  /\ UNCHANGED <<reader, source, stat, declared, stream, buffer, chunks>>

Again ==
  /\ at = "pause"
  /\ at' = "stat"
  /\ stat' = 0 /\ declared' = 0 /\ stream' = <<>> /\ buffer' = <<>>
  /\ UNCHANGED <<reader, source, chunks, result>>

\* Docker's or the transport's error, or the deadline around the wait.
Fails ==
  /\ at # "done"
  /\ Ends("failed", <<>>)
  /\ UNCHANGED <<reader, source, stat, declared, stream, buffer, chunks>>

-------------------------------------------------------------------------------
Terminated == at = "done" /\ UNCHANGED readVars

ReadNext ==
  \/ ResponseChunk \/ ResponseEnds \/ LogChunk \/ LogEnds
  \/ LndWrites \/ Stat \/ Download \/ ArchiveChunk \/ ArchiveEnds \/ Again
  \/ Fails \/ Terminated

ReadSpec == ReadInit /\ [][ReadNext]_readVars

-------------------------------------------------------------------------------
(* Properties.                                                             *)

\* A response is refused exactly when it is longer than the limit, and is whole
\* otherwise; a log's sample that is not marked is the whole log, and a marked
\* one is made of whole first lines of a log that reached one of the bounds
\* (send and into_body, collect_log_sample).
BoundsAreExact ==
  CASE reader = "response" ->
         /\ result.how = "ok" => result.bytes = source /\ Len(source) <= Limit
         /\ result.how = "exceeded" => Len(source) > Limit /\ Len(result.bytes) = Limit
    [] reader = "log" ->
         /\ Len(result.bytes) <= Limit
         /\ result.how = "ok" => result.bytes = source
         /\ result.how = "truncated" =>
              /\ IsPrefix(result.bytes, source)
              /\ result.bytes = <<>> \/ Last(result.bytes) = "newline"
              /\ Len(source) >= Limit \/ chunks = MaxChunks
    [] OTHER -> TRUE

\* The certificate that is taken is what the file held at one moment after it
\* was there, not empty and within the bound, however the archive was cut into
\* chunks and whatever LND wrote meanwhile; and the wait gives up on the archive
\* only when the file had grown since Docker told its size, or the archive broke
\* off (read_container_file, wait_for_tls_certificate).
FileIsAVersion ==
  reader = "certificate" =>
    /\ result.how = "ok" =>
         /\ result.bytes # <<>> /\ Len(result.bytes) <= Limit
         /\ IsPrefix(result.bytes, source) /\ Len(result.bytes) = declared
    /\ result.how = "invalid" => declared > stat \/ stream # <<>>
===============================================================================
