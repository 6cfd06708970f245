---------------------------------- MODULE Wav ----------------------------------
(***************************************************************************)
(* The WAV decoder of the media worker (apps/media/src/wav.ts) on a file   *)
(* whose bytes are chosen as they are read: one chunk header per step.     *)
(* Kept: every bound of the walk, of the sample loop and of the resampler. *)
(* Left out: the value of a sample.                                        *)
(***************************************************************************)
EXTENDS Naturals

CONSTANTS
  FileSizes,    \* lengths of files in bytes
  ChunkSizes,   \* sizes that chunk headers may claim, also false ones
  Formats,      \* contents of fmt chunks: [bits, channels, rate, known]
  TargetRate    \* samples per second of the result (48 000)

ASSUME WavAssumption ==
  /\ FileSizes \subseteq Nat /\ ChunkSizes \subseteq Nat /\ TargetRate \in Nat \ {0}
  /\ Formats \subseteq [bits: {8, 12, 16, 24, 32}, channels: Nat, rate: Nat, known: BOOLEAN]

VARIABLE decoder   \* the local variables of decodeWav

wavVars == <<decoder>>

Missing == [offset |-> 0, length |-> 0, found |-> FALSE]
NoFormat == [bits |-> 0, channels |-> 0, rate |-> 0, known |-> FALSE]

Start(size) ==
  [pc |-> "walk", size |-> size, pos |-> 12, fmt |-> NoFormat, hasFmt |-> FALSE, data |-> Missing]

WavInit == decoder \in {Start(size) : size \in FileSizes}

Smaller(a, b) == IF a < b THEN a ELSE b

\* The error of a file that cannot be used; a read past the end throws too.
Throw == decoder' = [decoder EXCEPT !.pc = "unusable"]

\* Chunks are aligned to words.
After(size) == decoder.pos + 8 + size + (size % 2)

\* A chunk of the walk over the file.
Header == decoder.pc = "walk" /\ decoder.pos + 8 <= decoder.size

FmtChunk(size, fmt) ==
  /\ Header
  /\ IF size < 16 \/ decoder.pos + 8 + 16 > decoder.size THEN Throw
     ELSE decoder' = [decoder EXCEPT !.fmt = fmt, !.hasFmt = TRUE, !.pos = After(size)]

\* What the chunk claims, or what the file has left.
Extent(size) == Smaller(size, decoder.size - (decoder.pos + 8))

DataChunk(size) ==
  /\ Header
  /\ decoder' = [decoder EXCEPT !.pos = After(size),
                   !.data = [offset |-> decoder.pos + 8, length |-> Extent(size), found |-> TRUE]]

OtherChunk(size) == Header /\ decoder' = [decoder EXCEPT !.pos = After(size)]

\* The checks after the walk.
Usable(fmt) == fmt.channels >= 1 /\ fmt.rate >= 1 /\ fmt.known /\ fmt.bits \in {8, 16, 24, 32}

Check ==
  /\ decoder.pc = "walk" /\ decoder.pos + 8 > decoder.size
  /\ IF decoder.size >= 12 /\ decoder.hasFmt /\ decoder.data.found /\ Usable(decoder.fmt)
     THEN decoder' = [decoder EXCEPT !.pc = "decoded"] ELSE Throw

WavNext ==
  \/ \E size \in ChunkSizes, fmt \in Formats : FmtChunk(size, fmt)
  \/ \E size \in ChunkSizes : DataChunk(size) \/ OtherChunk(size)
  \/ Check

WavSpec == WavInit /\ [][WavNext]_wavVars

-----------------------------------------------------------------------------
\* Whole samples only; then whole frames.
BytesPer == decoder.fmt.bits \div 8
Count == decoder.data.length \div BytesPer
Frames == Count \div decoder.fmt.channels

\* The bytes of sample i: a 24-bit one is read by its upper two.
SampleBytes(i) ==
  LET at == decoder.data.offset + i * BytesPer
  IN  IF decoder.fmt.bits = 24 THEN (at + 1)..(at + 2) ELSE at..(at + BytesPer - 1)

\* toMono48k: the length of the result, and the frames that output sample i lies between.
Rounded(a, b) == (2 * a + b) \div (2 * b)
OutLength ==
  IF decoder.fmt.rate = TargetRate THEN Frames
  ELSE IF Rounded(Frames * TargetRate, decoder.fmt.rate) = 0 THEN 1
  ELSE Rounded(Frames * TargetRate, decoder.fmt.rate)

\* Mutant: the frame after the last one is not capped.
BetweenUncapped(i) ==
  LET i0 == (i * decoder.fmt.rate) \div TargetRate IN {i0, i0 + 1}

Between(i) ==
  LET i0 == Smaller(Frames - 1, (i * decoder.fmt.rate) \div TargetRate)
  IN  {i0, Smaller(Frames - 1, i0 + 1)}

\* A decoded file is made of its own samples: every byte read lies in the data chunk
\* and in the file, whatever sizes the headers claim, and the resampler stays within
\* the frames it has, also where rounding gives it one sample more than they cover.
ReadsItsData ==
  decoder.pc = "decoded" =>
    /\ \A i \in 0..(Count - 1) : SampleBytes(i) \subseteq
         decoder.data.offset..(Smaller(decoder.size, decoder.data.offset + decoder.data.length) - 1)
    /\ Frames > 0 => \A i \in 0..(OutLength - 1) : Between(i) \subseteq 0..(Frames - 1)
==============================================================================
