---------------------------- MODULE MCStackStore ----------------------------
(***************************************************************************)
(* StackStore and what it leaves to StackCompression side by side: a       *)
(* behaviour is one of the store, or one block that is packed and          *)
(* unpacked.                                                               *)
(***************************************************************************)
EXTENDS StackStore, Sequences

CONSTANTS WordBits, GroupBits, WordBytes, HeaderBytes

VARIABLES
  part,  \* what this behaviour is about
  block, type, packed, result, packPc

\* Blocks in which any word follows any other, blocks of words at the ends of
\* the range, and longer blocks of few words, in which substrings repeat and
\* overlap.
Word == 0 .. 2^WordBits - 1
Contents ==
  {<<v, w, 0, w>> : v, w \in Word}
    \cup [1 .. 4 -> {0, 1, 8, 15, 16, 31}]
    \cup [1 .. 8 -> {0, 1, 16}]

\* An eighth of a block is at least a byte; the source has 8 MiB.
ASSUME ContentsAssumption == \A b \in Contents : WordBytes * Len(b) >= 8

Compression == INSTANCE StackCompression WITH Blocks <- Contents, pc <- packPc

packvars == <<block, type, packed, result, packPc>>
mcvars == <<vars, packvars, part>>

MCInit ==
  /\ Init
  /\ \/ part = "compression" /\ Compression!Init
     \/ /\ part = "store"
        /\ block = <<>> /\ type = "Delta" /\ packed = <<>> /\ result = <<>>
        /\ packPc = "none"

MCNext ==
  /\ \/ part = "compression" /\ Compression!Next /\ UNCHANGED vars
     \/ part = "store" /\ Next /\ UNCHANGED packvars
  /\ UNCHANGED part

MCSpec == MCInit /\ [][MCNext]_mcvars /\ Fairness

\* Whatever the frames of a block are, and wherever the room for the packed
\* block ends, a block that Pack keeps packed is unpacked by GetOrUnpack to
\* the same frames; so the CHECKs on the number of frames hold, too.
UnpackedIsExact == Compression!UnpackedIsExact
=============================================================================
