---------------------------- MODULE FileReaders -----------------------------
(***************************************************************************)
(* The programs that read one file, whatever is in it, and say what it is: *)
(* src/hunkinfo.c, strings.c, fileinfo.c and bootinfo.c.  They share main's*)
(* place and return code with the programs that look at the machine.       *)
(***************************************************************************)
EXTENDS ListSnapshot

CONSTANTS
  Word, BlockWords,                                           (* of BootInfo     *)
  MaxBytes,                      (* of a file or a dump, as far as the runs go   *)
  FileWord, HUNK_UNIT, Heads, Types, Numbers, MaxWords,       (* of HunkInfo     *)
  Printable, Nul, MAX_STRING_LEN, Needle,                     (* of Strings      *)
  BufferSize, HeadSize, BlockSize, Half, MaxSize              (* of FileInfo     *)

(* A word of the machine holds a bit at least. *)
ASSUME WordAssumption == Word \in Nat \ {0, 1} /\ BlockWords \in Nat

(* A byte is printable or it ends a string. *)
ASSUME StringAssumption == Nul \notin Printable /\ {MAX_STRING_LEN, MaxBytes} \subseteq Nat \ {0}

(* A block has room for the end mark and the length.  The number of its    *)
(* bits fits a word, that of any file fits two.                            *)
ASSUME DigestAssumption ==
  /\ {BufferSize, HeadSize, BlockSize, Half, MaxSize} \subseteq Nat
  /\ BlockSize > 2 /\ HeadSize >= 4
  /\ 8 * BlockSize < Half /\ 8 * MaxSize < Half * Half

(* Words of a file; a file is shorter than a word can tell. *)
ASSUME HunkAssumption ==
  /\ {FileWord, HUNK_UNIT, MaxWords} \subseteq Nat /\ FileWord >= 4
  /\ Heads \subseteq (0 .. FileWord - 1) \X (0 .. FileWord - 1) \X (0 .. FileWord - 1)
  /\ Types \union Numbers \subseteq 0 .. FileWord - 1
  /\ 4 * MaxWords < FileWord

VARIABLES
  table_size, first, last, stream, rest, totals,
  minimum, indicators_only, current, start_offset, text, lines,
  size, head, register, data, bits, blocks, contents, type,
  next_word, checksum, true_sum, carries, checksum_valid
-----------------------------------------------------------------------------
Hunks == INSTANCE HunkInfo WITH Word <- FileWord
Strs == INSTANCE Strings WITH stream <- text, out <- lines
Digest == INSTANCE FileInfo WITH total <- size, crc <- register
Boot == INSTANCE BootInfo WITH i <- next_word, sum <- checksum, total <- true_sum

(* What only one of the programs knows; idle while another one runs.       *)
HunkVars == <<table_size, first, last, stream, rest, totals>>
StringVars == <<minimum, indicators_only, current, start_offset, text, lines>>
DigestVars == <<size, head, register, data, bits, blocks, contents, type>>
BootVars == <<next_word, checksum, true_sum, carries, checksum_valid>>

NoHunks ==
  table_size = 0 /\ first = 0 /\ last = 0 /\ stream = << >> /\ rest = "more" /\ totals = Hunks!NoTotals

NoStrings ==
  /\ minimum = 0 /\ indicators_only = FALSE /\ current = << >> /\ start_offset = 0
  /\ text = << >> /\ lines = << >>

NoDigest ==
  /\ size = 0 /\ head = << >> /\ register = << >> /\ data = << >> /\ bits = <<0, 0>>
  /\ blocks = << >> /\ contents = "unknown-raw" /\ type = "none"

NoBoot == next_word = 0 /\ checksum = 0 /\ true_sum = 0 /\ carries = 0 /\ checksum_valid = FALSE
-----------------------------------------------------------------------------
(* RC 0 of a program that reads a file: what it prints is true of the file *)
(* as a whole, by another way of reading or of counting it.                *)
FileIsReadRight ==
  CASE program = "HunkInfo" -> Hunks!TotalsAreTrue /\ Hunks!RangeFits
    [] program = "Strings" -> Strs!RunsArePrinted
    [] program = "FileInfo" -> Digest!DigestsAreOfTheFile
    [] program = "BootInfo" -> Boot!CarriesAreKept /\ Boot!ValidIsCongruent
    [] OTHER -> TRUE
=============================================================================
