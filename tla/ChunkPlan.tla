------------------------------ MODULE ChunkPlan ------------------------------
(***************************************************************************)
(* How a file is cut into the parts of a multipart upload: calculateChunks *)
(* and the choice of the chunk size by initiateUpload and resumeUpload.    *)
(* Pure definitions; sizes are in whatever unit the caller uses.           *)
(***************************************************************************)
EXTENDS Integers

Smaller(a, b) == IF a <= b THEN a ELSE b

\* Math.ceil(fileSize / maxChunkSize)
TotalChunks(fileSize, maxChunkSize) == (fileSize + maxChunkSize - 1) \div maxChunkSize

LastChunkSize(fileSize, maxChunkSize) ==
  IF fileSize % maxChunkSize = 0 THEN maxChunkSize ELSE fileSize % maxChunkSize

StartByte(maxChunkSize, i) == (i - 1) * maxChunkSize

EndByte(fileSize, maxChunkSize, i) ==
  Smaller(StartByte(maxChunkSize, i) + maxChunkSize - 1, fileSize - 1)

Chunk(fileSize, maxChunkSize, i) ==
  [number |-> i,
   start  |-> StartByte(maxChunkSize, i),
   end    |-> EndByte(fileSize, maxChunkSize, i)]

SizeOf(chunk) == chunk.end - chunk.start + 1

Chunks(fileSize, maxChunkSize) ==
  {Chunk(fileSize, maxChunkSize, i) : i \in 1..TotalChunks(fileSize, maxChunkSize)}

----------------------------------------------------------------------------
(* The reference: a set of numbered parts is a whole file when the parts,  *)
(* in the order of their numbers, are contiguous from its first byte to    *)
(* its last.                                                               *)

Numbers(parts) == {p.number : p \in parts}

IsWholeFile(parts, fileSize) ==
  \E n \in Numbers(parts) :
    /\ Numbers(parts) = 1..n
    /\ \A p, q \in parts : p.number = q.number => p = q
    /\ \A p \in parts :
         /\ p.start <= p.end
         /\ p.number = 1 => p.start = 0
         /\ p.number = n => p.end = fileSize - 1
         /\ \A q \in parts : q.number = p.number + 1 => q.start = p.end + 1
==============================================================================
