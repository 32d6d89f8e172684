------------------------------ MODULE GoStrings ------------------------------
(***************************************************************************)
(* The two library conversions the efiload and efi-verify stubs apply to   *)
(* the configuration block at 0x20000000:                                  *)
(*                                                                         *)
(*   parts := bytes.SplitN(cfg, []byte{'\n'}, 3)                           *)
(*   kerLen, _ := strconv.Atoi(string(parts[0]))                           *)
(*                                                                         *)
(* translated from Go's genSplit and Atoi.  Bytes are model strings; the   *)
(* ASCII digits are "d0" .. "d9", the sign bytes "-" and "+".              *)
(***************************************************************************)
EXTENDS Integers, Sequences, SequencesExt

DigitVal == [d0 |-> 0, d1 |-> 1, d2 |-> 2, d3 |-> 3, d4 |-> 4,
             d5 |-> 5, d6 |-> 6, d7 |-> 7, d8 |-> 8, d9 |-> 9]

IsDigit(b) == b \in DOMAIN DigitVal

\* bytes.SplitN(s, sep, n) for n >= 1: at most n parts, the last one the
\* unsplit rest of s (genSplit: Index, a[i] = s[:m], s = s[m+len(sep):]).
RECURSIVE SplitN(_, _, _)
SplitN(s, sep, n) ==
    LET m == SelectInSeq(s, LAMBDA b : b = sep)
    IN  IF n = 1 \/ m = 0 THEN <<s>>
        ELSE <<SubSeq(s, 1, m - 1)>> \o SplitN(SubSeq(s, m + 1, Len(s)), sep, n - 1)

\* strconv.Atoi(s), the value only: an optional sign, then one or more
\* digits; on a syntax error Atoi returns 0 (the stubs drop the error).
\* Strings are far shorter than the 19 bytes of Atoi's fast path, so no
\* range error arises.
Atoi(s) ==
    LET neg  == s # <<>> /\ s[1] = "-"
        body == IF s # <<>> /\ s[1] \in {"-", "+"} THEN Tail(s) ELSE s
        n    == FoldLeft(LAMBDA acc, b : 10 * acc + DigitVal[b], 0, body)
    IN  IF body = <<>> \/ \E i \in 1..Len(body) : ~IsDigit(body[i]) THEN 0
        ELSE IF neg THEN -n ELSE n

=============================================================================
