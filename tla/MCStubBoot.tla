----------------------------- MODULE MCStubBoot -----------------------------
(* Both stubs, every configuration block of up to five bytes drawn from   *)
(* two digits, a minus sign, a non-ASCII byte and the newline (so length  *)
(* fields 1, 16, 61, -16, empty and malformed all occur, and efiload's    *)
(* 16-byte minimum is reachable), and a trusted and an untrusted kernel   *)
(* of 16 bytes in memory.                                                 *)
EXTENDS StubBoot

CONSTANTS kGood, kEvil

MCStubs == {"efiload", "efi-verify"}
MCConfigs == SeqOf({"d1", "d6", "-", "C", "NL"}, 5)
MCKernelContents == {kGood, kEvil}
MCTrusted == {kGood}
MCKernelSize == 16
\* The blocks whose command line is not empty, or that hold no newline
\* (VerifiedBoot reads an empty command line as "no override", which the
\* stubs, with no file to resolve it from, never mean), and "16\n" with a
\* 2-byte character as the command line.
MCOverrideConfigs ==
    {c \in MCConfigs : LET p == SplitN(c, "NL", 3) IN Len(p) < 2 \/ p[2] # <<>>}
    \cup {<<"d1", "d6", "NL", "L2", "C">>}
MCAllFaults == {"root", "loadImage", "imageHandle", "start", "exit"}
MCNoFaults == {}

=============================================================================
