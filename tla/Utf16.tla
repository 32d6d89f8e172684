-------------------------------- MODULE Utf16 --------------------------------
(***************************************************************************)
(* The string conversion of stringToUTF16Ptr (cmd/recovery/main.go,       *)
(* goefi/cmd/efiload/main.go, goefi/cmd/efi-verify/main.go):              *)
(*                                                                         *)
(*     utf16Slice := utf16.Encode([]rune(s))                               *)
(*     utf16Slice = append(utf16Slice, 0)                                  *)
(*                                                                         *)
(* A Go string is a sequence of bytes.  Bytes are abstracted to the class  *)
(* that decides how []rune(s) decodes them:                                *)
(*   "A"  a non-NUL ASCII byte              (one rune, one UTF-16 unit);   *)
(*        any byte outside the four classes below is such a byte too       *)
(*   "L2" "L3" "L4"  the lead byte of a 2-, 3- or 4-byte UTF-8 sequence    *)
(*   "C"  a continuation byte 10xxxxxx                                     *)
(* A lead byte followed by enough continuation bytes decodes to one rune   *)
(* (a 4-byte sequence to a rune above U+FFFF, which utf16.Encode turns     *)
(* into a surrogate pair); any other byte decodes to U+FFFD on its own,    *)
(* which is what Go's range-over-string decoding does.                     *)
(*                                                                         *)
(* UTF-16 units are abstracted the same way: "a" an ASCII unit, "u" a      *)
(* non-ASCII BMP unit, "hi"/"lo" the halves of a surrogate pair, "rep"     *)
(* U+FFFD and "nul" the terminator appended by stringToUTF16Ptr.           *)
(***************************************************************************)
EXTENDS Naturals, Sequences

Bytes == {"A", "L2", "L3", "L4", "C"}

Units == {"a", "u", "hi", "lo", "rep", "nul"}

\* The class of a byte: its own name, or "A" for any other (ASCII) byte.
ByteClass(b) == IF b \in {"L2", "L3", "L4", "C"} THEN b ELSE "A"

\* Length of the UTF-8 sequence a lead byte announces.
LeadLen == [A |-> 1, L2 |-> 2, L3 |-> 3, L4 |-> 4, C |-> 1]

\* Number of bytes the decoder consumes at the head of s (s # <<>>): the
\* whole sequence when it is well formed, a single byte otherwise.
HeadLen(s) ==
    LET k == LeadLen[ByteClass(s[1])]
    IN  IF k <= Len(s) /\ \A j \in 2..k : s[j] = "C" THEN k ELSE 1

\* UTF-16 units of the rune decoded from the k bytes at the head of s.
HeadUnits(s, k) ==
    CASE ByteClass(s[1]) = "A"  -> <<"a">>
      [] k = 1                  -> <<"rep">>
      [] k = 4                  -> <<"hi", "lo">>
      [] OTHER                  -> <<"u">>

\* utf16.Encode([]rune(s)).
RECURSIVE Utf16Encode(_)
Utf16Encode(s) ==
    IF s = <<>> THEN <<>>
    ELSE LET k == HeadLen(s)
         IN  HeadUnits(s, k) \o Utf16Encode(SubSeq(s, k + 1, Len(s)))

\* The buffer stringToUTF16Ptr returns a pointer to: the encoding and a
\* NUL terminator.
StringToUTF16(s) == Utf16Encode(s) \o <<"nul">>

=============================================================================
