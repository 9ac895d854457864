------------------------------ MODULE FileInfo ------------------------------
(***************************************************************************)
(* src/fileinfo.c: CRC-32, SHA-256 and a type from one pass over a file.   *)
(*                                                                         *)
(* A byte of the file is its place.  A digest is the sequence of blocks    *)
(* that were fed to sha256_transform; a CRC the sequence of what was done  *)
(* to the register, where two inversions in a row cancel out.              *)
(***************************************************************************)
EXTENDS Naturals, Sequences

CONSTANTS
  BufferSize,  (* READ_BUFFER_SIZE                                          *)
  HeadSize,    (* sizeof(head)                                              *)
  BlockSize,   (* SHA256_BLOCK_SIZE; the length takes the last two places,  *)
               (* one for each of its words (8 bytes in the code)           *)
  Half,        (* 2^32, the range of a word of the bit count                *)
  MaxSize      (* bound of the model: bytes of a file                       *)

VARIABLES
  pc, rc,            (* where main is, what it returns                      *)
  total, head, crc,  (* locals of main                                      *)
  data, bits,        (* sha.data up to datalen, <<bitlen_hi, bitlen_lo>>    *)
  blocks,            (* history: the blocks sha256_transform was given      *)
  contents,          (* history: what the first four bytes are              *)
  type               (* what is printed                                     *)

fileVars == <<pc, rc, total, head, crc, data, bits, blocks, contents, type>>

Byte(j) == <<"byte", j>>
Zero == <<"0x00", 0>>
EndMark == <<"0x80", 0>>
Inversion == <<"inversion", 0>>
Count(b) == <<<<"bits", b[1]>>, <<"bits", b[2]>>>>

FileInit ==
  /\ pc = "start" /\ rc = 0 /\ total = 0 /\ head = << >> /\ crc = << >>
  /\ data = << >> /\ bits = <<0, 0>> /\ blocks = << >>
  /\ contents \in {"amiga-hunk", "amiga-dos-bootblock", "unknown-raw"} /\ type = "none"
-----------------------------------------------------------------------------
Open ==
  /\ pc = "start"
  /\ \/ pc' = "exit" /\ rc' \in {10, 20}
     \/ pc' = "read" /\ UNCHANGED rc
  /\ UNCHANGED <<total, head, crc, data, bits, blocks, contents, type>>

Inverted(r) ==
  IF r # << >> /\ r[Len(r)] = Inversion THEN SubSeq(r, 1, Len(r) - 1) ELSE Append(r, Inversion)

CrcUpdateOnce(r, bytes) == (IF r = << >> THEN Inverted(r) ELSE r) \o bytes

(* crc32_update inverts the register before and after it takes bytes in. *)
CrcUpdate(r, bytes) == Inverted(Inverted(r) \o bytes)

(* sha256_add_bits: the carry of the lower word goes to the upper one.     *)
AddBits(b, n) ==
  LET lo == (b[2] + n) % Half IN <<IF lo < b[2] THEN (b[1] + 1) % Half ELSE b[1], lo>>

NextBytes(n) == [j \in 1 .. n |-> Byte(total + j)]
Cut(bytes) == [b \in 1 .. Len(bytes) \div BlockSize |->
                 SubSeq(bytes, (b - 1) * BlockSize + 1, b * BlockSize)]

(* The bit count when n more blocks are full. *)
Counted(n) ==
  LET upTo[k \in 0 .. n] == IF k = 0 THEN bits ELSE AddBits(upTo[k - 1], 8 * BlockSize)
  IN  upTo[n]

(* One turn of the loop: head, CRC, and sha256_update, which empties data  *)
(* whenever it is full.                                                    *)
ReadChunk ==
  /\ pc = "read"
  /\ \E n \in 1 .. BufferSize :
       LET bytes == data \o NextBytes(n)
           room == HeadSize - Len(head)
       IN /\ total + n <= MaxSize /\ total' = total + n
          /\ head' = head \o SubSeq(NextBytes(n), 1, IF room > n THEN n ELSE room)
          /\ crc' = CrcUpdate(crc, NextBytes(n))
          /\ blocks' = blocks \o Cut(bytes)
          /\ data' = SubSeq(bytes, Len(Cut(bytes)) * BlockSize + 1, Len(bytes))
          /\ bits' = Counted(Len(Cut(bytes)))
  /\ UNCHANGED <<pc, rc, contents, type>>

Zeros(n) == [j \in 1 .. n |-> Zero]
Room == BlockSize - 2

PaddedOnce(bytes, b) == <<bytes \o Zeros(Room - Len(bytes)) \o Count(b)>>

(* sha256_final: if the end mark leaves no room for the length, it goes to *)
(* a block of its own.                                                     *)
Padded(bytes, b) ==
  IF Len(bytes) > Room
    THEN <<bytes \o Zeros(BlockSize - Len(bytes)), Zeros(Room) \o Count(b)>>
    ELSE <<bytes \o Zeros(Room - Len(bytes)) \o Count(b)>>

Classified == IF Len(head) >= 4 THEN contents ELSE "unknown-raw"

Finish ==
  /\ pc = "read" /\ pc' = "exit"
  /\ \/ rc' = 20 /\ UNCHANGED <<bits, blocks, type>>
     \/ /\ rc' = 0
        /\ bits' = AddBits(bits, 8 * Len(data))
        /\ blocks' = blocks \o Padded(Append(data, EndMark), bits')
        /\ type' = Classified
  /\ UNCHANGED <<total, head, crc, data, contents>>

FileNext == Open \/ ReadChunk \/ Finish
-----------------------------------------------------------------------------
FileTypeOK ==
  /\ pc \in {"start", "read", "exit"} /\ rc \in {0, 10, 20}
  /\ total \in 0 .. MaxSize /\ Len(head) <= HeadSize /\ Len(data) < BlockSize
  /\ bits \in (0 .. Half - 1) \X (0 .. Half - 1)

(* The padding of FIPS 180-4: the message, an end mark, as few zeros as    *)
(* fill whole blocks, and the number of bits.                              *)
Message == [j \in 1 .. total |-> Byte(j)]
Filling == CHOOSE n \in 0 .. BlockSize - 1 : (total + 1 + n + 2) % BlockSize = 0
PaddedMessage ==
  Append(Message, EndMark) \o Zeros(Filling) \o Count(<<(8 * total) \div Half, (8 * total) % Half>>)

(* RC 0, however fread cut the file: SHA-256 was computed of the padded    *)
(* file, block by block; the CRC took in every byte once between one       *)
(* inversion and another; and the type is that of the first four bytes.    *)
DigestsAreOfTheFile ==
  pc = "exit" /\ rc = 0 =>
    /\ Len(blocks) * BlockSize = Len(PaddedMessage)
    /\ \A b \in DOMAIN blocks :
         blocks[b] = SubSeq(PaddedMessage, (b - 1) * BlockSize + 1, b * BlockSize)
    /\ crc = IF total = 0 THEN << >> ELSE <<Inversion>> \o Message \o <<Inversion>>
    /\ head = SubSeq(Message, 1, IF total < HeadSize THEN total ELSE HeadSize)
    /\ type = IF total < 4 THEN "unknown-raw" ELSE contents
=============================================================================
