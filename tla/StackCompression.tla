-------------------------- MODULE StackCompression --------------------------
(***************************************************************************)
(* How a full block of the stack store is packed and unpacked: the frames, *)
(* or the codes LZW makes of them, are written as differences in SLEB128   *)
(* (sanitizer_leb128.h, sanitizer_lzw.h, sanitizer_stack_store.cpp).       *)
(*                                                                         *)
(* A uptr has WordBits bits, a byte GroupBits bits of payload; the source  *)
(* has 64 and 7.  What matters of the two is that the last byte of the     *)
(* longest number is not full.                                             *)
(***************************************************************************)
EXTENDS Integers, Sequences, SequencesExt

CONSTANTS
  WordBits,     \* bits of a uptr
  GroupBits,    \* payload bits of a byte
  WordBytes,    \* sizeof(uptr)
  HeaderBytes,  \* the offset of PackedHeader::data
  Blocks        \* the contents of the blocks that are packed

VARIABLES
  block,   \* the frames of the block
  type,    \* Compression
  packed,  \* the bytes after the header, or Undone
  result,  \* the frames after unpacking
  pc

vars == <<block, type, packed, result, pc>>

Words == 0 .. 2^WordBits - 1
Undone == "undone"

\* The difference of two words as an sptr, and back.
Signed(w) == IF w >= 2^(WordBits - 1) THEN w - 2^WordBits ELSE w
Word(n) == n % 2^WordBits

-----------------------------------------------------------------------------
(* SLEB128 *)

\* The bytes EncodeSLEB128 writes into room bytes, however many it needs.
RECURSIVE EncodeSLEB128(_, _)
EncodeSLEB128(value, room) ==
  LET byte == value % 2^GroupBits
      rest == value \div 2^GroupBits
      negative == byte >= 2^(GroupBits - 1)
      more == ~(rest = 0 /\ ~negative) /\ ~(rest = -1 /\ negative)
  IN  IF room = 0 THEN <<>>
      ELSE IF more
           THEN <<byte + 2^GroupBits>> \o EncodeSLEB128(rest, room - 1)
           ELSE <<byte>>

\* How many bytes the number at the front of the sequence has.
RECURSIVE LengthOfFirst(_)
LengthOfFirst(bytes) ==
  IF bytes = <<>> \/ Head(bytes) < 2^GroupBits THEN 1
  ELSE 1 + LengthOfFirst(Tail(bytes))

\* DecodeSLEB128, for a sequence that is the bytes of one number.
DecodeSLEB128(bytes) ==
  LET n == Len(bytes)
      shift == GroupBits * n
      slice(k) == (bytes[k] % 2^GroupBits) * 2^(GroupBits * (k - 1))
      value == FoldLeftDomain(LAMBDA v, k : v + slice(k), 0, bytes)
      negative == bytes[n] % 2^GroupBits >= 2^(GroupBits - 1)
  IN  Word(IF shift < WordBits /\ negative THEN value - 2^shift ELSE value)

-----------------------------------------------------------------------------
(* The differences: SLeb128Encoder and SLeb128Decoder *)

\* CompressDelta: each word as its difference to the word before.
RECURSIVE CompressFrom(_, _, _)
CompressFrom(words, previous, room) ==
  IF words = <<>> THEN <<>>
  ELSE LET bytes == EncodeSLEB128(Signed(Word(Head(words) - previous)), room)
       IN  bytes \o CompressFrom(Tail(words), Head(words), room - Len(bytes))

CompressDelta(words, room) == CompressFrom(words, 0, room)

RECURSIVE UncompressFrom(_, _)
UncompressFrom(bytes, previous) ==
  IF bytes = <<>> THEN <<>>
  ELSE LET n == LengthOfFirst(bytes)
           word == Word(previous + DecodeSLEB128(SubSeq(bytes, 1, n)))
       IN  <<word>> \o UncompressFrom(SubSeq(bytes, n + 1, Len(bytes)), word)

UncompressDelta(bytes) == UncompressFrom(bytes, 0)

-----------------------------------------------------------------------------
(* LZW *)

kNoPrefix == -1

\* prefix_to_code: the substring with code c is the pair at place c + 1.
CodeOf(dict, pair) == (CHOOSE k \in DOMAIN dict : dict[k] = pair) - 1
Known(dict, pair) == \E k \in DOMAIN dict : dict[k] = pair

\* One round of the encoding loop.
EncodeItem(e, item) ==
  IF Known(e.dict, <<e.match, item>>)
  THEN [e EXCEPT !.match = CodeOf(e.dict, <<e.match, item>>)]
  ELSE [dict |-> Append(e.dict, <<e.match, item>>),
        out |-> Append(e.out, e.match),
        match |-> CodeOf(e.dict, <<kNoPrefix, item>>)]

LzwEncode(words) ==
  LET len1 == SetToSortSeq(ToSet(words), <)
      dict == [k \in DOMAIN len1 |-> <<kNoPrefix, len1[k]>>]
      head == <<Len(len1)>> \o len1
      start == [dict |-> dict, out |-> head,
                match |-> CodeOf(dict, <<kNoPrefix, Head(words)>>)]
      last == FoldLeft(EncodeItem, start, Tail(words))
  IN  IF words = <<>> THEN head ELSE Append(last.out, last.match)

\* The substring with a code: one item, or a part of the output so far.
Substring(len1, d, code) ==
  IF code < Len(len1) THEN <<len1[code + 1]>>
  ELSE LET s == d.substr[code - Len(len1) + 1]
       IN  SubSeq(d.out, s[1], s[2])

\* Mutant: the code that is not in the dictionary yet is not expected.
DecodeOnlyKnown(len1, d, code) ==
  LET start == Len(d.out) + 1
      known == code < Len(len1) + Len(d.substr)
      copied == Substring(len1, d, IF known THEN code ELSE d.prev)
      len == Len(Substring(len1, d, d.prev))
  IN  [out |-> d.out \o copied,
       substr |-> Append(d.substr, <<start - len, start>>),
       prev |-> code]

\* One round of the decoding loop.
DecodeCode(len1, d, code) ==
  LET start == Len(d.out) + 1
      known == code # Len(len1) + Len(d.substr)
      copied == Substring(len1, d, IF known THEN code ELSE d.prev)
      len == Len(Substring(len1, d, d.prev))
  IN  [out |-> d.out \o copied \o IF known THEN <<>> ELSE <<copied[1]>>,
       substr |-> Append(d.substr, <<start - len, start>>),
       prev |-> code]

LzwDecode(codes) ==
  LET n == Head(codes)
      len1 == SubSeq(codes, 2, n + 1)
      rest == SubSeq(codes, n + 2, Len(codes))
      start == [out |-> <<len1[Head(rest) + 1]>>, substr |-> <<>>,
                prev |-> Head(rest)]
  IN  IF codes = <<>> \/ Len(codes) = 1 THEN <<>>
      ELSE FoldLeft(LAMBDA d, code : DecodeCode(len1, d, code),
                    start, Tail(rest)).out

-----------------------------------------------------------------------------
(* Pack and GetOrUnpack *)

BlockBytes == WordBytes * Len(block)

Init ==
  /\ block \in Blocks
  /\ type \in {"Delta", "LZW"}
  /\ packed = <<>>
  /\ result = <<>>
  /\ pc = "pack"

\* The packed block is kept if it is an eighth smaller than the block.
Pack ==
  LET room == BlockBytes - HeaderBytes
      bytes == CompressDelta(IF type = "LZW" THEN LzwEncode(block) ELSE block, room)
      size == HeaderBytes + Len(bytes)
      undo == BlockBytes - size < BlockBytes \div 8
  IN  /\ pc = "pack"
      /\ packed' = IF undo THEN Undone ELSE bytes
      /\ pc' = IF undo THEN "done" ELSE "unpack"
      /\ UNCHANGED <<block, type, result>>

GetOrUnpack ==
  LET words == UncompressDelta(packed)
  IN  /\ pc = "unpack"
      /\ result' = IF type = "LZW" THEN LzwDecode(words) ELSE words
      /\ pc' = "unpacked"
      /\ UNCHANGED <<block, type, packed>>

Next == Pack \/ GetOrUnpack
Spec == Init /\ [][Next]_vars

-----------------------------------------------------------------------------
(* Properties *)

\* Whatever the frames of a block are, and wherever the room for the packed
\* block ends, a block that is kept packed is unpacked to the same frames; so
\* the CHECKs on the number of frames hold, too.
UnpackedIsExact == pc = "unpacked" => result = block

=============================================================================
