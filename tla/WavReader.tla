----------------------------- MODULE WavReader -----------------------------
(***************************************************************************)
(* src/src/wav_reader.cpp: the samples of a WAV file, found by walking     *)
(* over its chunks.                                                        *)
(*                                                                         *)
(* A file is its chunks and the bytes that are there of it, which may be   *)
(* fewer.  Sizes are even, as the reader knows no byte of padding, and     *)
(* that of "fmt " is at least 16, as it reads so much of it untested.  The *)
(* k-th sample of the c-th chunk is <<c, k>>.                              *)
(***************************************************************************)
EXTENDS Integers, Sequences

CONSTANTS
  ChunkSizes,  \* that a chunk may have
  MaxChunks    \* bound: chunks of a file

ASSUME ChunkAssumption == /\ \A s \in ChunkSizes : s \in Nat /\ s % 2 = 0
                          /\ MaxChunks \in Nat

\* The contents of a "fmt " chunk that the reader tells apart, and its size.
Formats == {"PCM", "not PCM", "channels", "bits"}
FormatSize == 16

Chunk == [name : {"fmt "}, format : Formats, size : {FormatSize}]
           \union [name : {"data", "LIST"}, size : ChunkSizes]

VARIABLES
  magic,    \* whether the file begins as a WAV file does
  chunks,   \* its chunks
  present,  \* bytes of the file
  rest,     \* size: bytes behind the position of the reader
  next,     \* the chunk at its position
  samples,  \* data
  result    \* of Load, Loading before it returns

wavVars == <<magic, chunks, present, rest, next, samples, result>>

\* No value that Load returns.
Loading == 2

\* "RIFF", a size and "WAVE".
RiffHeader == 12
ChunkHeader == 8

\* The bytes of a file up to the end of its n-th chunk.
EndOf(cs, n) ==
  LET end[m \in 0 .. Len(cs)] == IF m = 0 THEN RiffHeader ELSE end[m - 1] + ChunkHeader + cs[m].size
  IN  end[n]

Magics == {"RIFF WAVE", "no RIFF", "no WAVE"}

WavStart(mg, cs, n) ==
  /\ magic = mg
  /\ chunks = cs
  /\ present = n
  /\ rest = n
  /\ next = 0
  /\ samples = << >>
  /\ result = Loading

\* A file that may end in any of its headers or chunks.
Lengths(cs) == 0 .. EndOf(cs, Len(cs))

WavInit ==
  \E n \in 1 .. MaxChunks : \E cs \in [1 .. n -> Chunk] : \E l \in Lengths(cs), mg \in Magics :
    WavStart(mg, cs, l)

-----------------------------------------------------------------------------
Fails(code) == result' = code /\ UNCHANGED <<magic, chunks, present, rest, next, samples>>

\* Mutant: the header of a chunk is not counted.
FitsWithoutHeader(n) == n <= Len(chunks) /\ rest >= chunks[n].size

\* ReadChunk: is there a whole chunk?  Behind the last one there is nothing.
Fits(n) == n <= Len(chunks) /\ rest >= ChunkHeader + chunks[n].size

Skips(n) ==
  /\ rest' = rest - (ChunkHeader + chunks[n].size)
  /\ next' = n + 1

\* Load() up to the first chunk.
ReadsRiff ==
  /\ result = Loading /\ next = 0
  /\ IF rest < 20 THEN Fails(-1)
     ELSE IF magic = "no RIFF" THEN Fails(-5)
     ELSE IF magic = "no WAVE" THEN Fails(-6)
     ELSE /\ rest' = rest - RiffHeader
          /\ next' = 1
          /\ UNCHANGED <<magic, chunks, present, samples, result>>

ReadsFormat ==
  /\ result = Loading /\ next = 1
  /\ IF ~Fits(1) THEN Fails(-7)
     ELSE IF chunks[1].name # "fmt " THEN Fails(-8)
     ELSE IF chunks[1].format # "PCM"
     THEN Fails(CASE chunks[1].format = "not PCM" -> -9
                  [] chunks[1].format = "channels" -> 1
                  [] chunks[1].format = "bits" -> -4)
     ELSE Skips(1) /\ UNCHANGED <<magic, chunks, present, samples, result>>

\* A turn of the loop: a chunk with another name is skipped.
ReadsChunk ==
  /\ result = Loading /\ next > 1
  /\ IF ~Fits(next) THEN Fails(-10)
     ELSE /\ Skips(next)
          /\ IF chunks[next].name = "data"
             THEN /\ samples' = [k \in 1 .. chunks[next].size \div 2 |-> <<next, k>>]
                  /\ result' = 0
             ELSE UNCHANGED <<samples, result>>
          /\ UNCHANGED <<magic, chunks, present>>

WavNext == ReadsRiff \/ ReadsFormat \/ ReadsChunk

WavSpec == WavInit /\ [][WavNext]_wavVars

-----------------------------------------------------------------------------
(* Properties. *)

\* The first chunk of data behind the format that is there as a whole, with all before it.
FirstData == {n \in 2 .. Len(chunks) :
                /\ chunks[n].name = "data" /\ EndOf(chunks, n) <= present
                /\ \A m \in 2 .. n - 1 : chunks[m].name # "data"}

Readable == magic = "RIFF WAVE" /\ chunks[1].name = "fmt " /\ chunks[1].format = "PCM" /\ FirstData # {}

\* A RIFF file of 16 bits in one or two channels is read exactly if its first chunk of data is
\* there as a whole, and gives all samples of that chunk, whatever chunks are before it;
\* of any other file nothing is kept, and the position never leaves the file
\* (wav_reader.cpp:37-108).
WavIsRead ==
  /\ rest \in 0 .. present
  /\ result # Loading => (result = 0 <=> Readable)
  /\ result = 0 => \E n \in FirstData :
                     samples = [k \in 1 .. chunks[n].size \div 2 |-> <<n, k>>]
  /\ result # 0 => samples = << >>
=============================================================================
