---------------------------- MODULE MCRecoveryBoot ----------------------------
(* Model of the recovery command for TLC: two kernel contents of which the *)
(* trust anchor accepts one, a cmdline file holding a 3-byte UTF-8         *)
(* character, shell arguments with and without non-ASCII text.            *)
EXTENDS RecoveryBoot

CONSTANTS kGood, kEvil

MCKernelContents == {kGood, kEvil}
MCTrusted == {kGood}
MCCmdFileTexts == {<<"A", "L3", "C", "C">>}
MCArgs == {<<>>, <<"A">>, <<"L2", "C">>}
MCDefaultCmdLine == <<"A", "A">>
MCMaxTextLen == 4

\* Every firmware call may fail.
MCAllFaults == {"root", "open", "read", "loadImage", "imageHandle", "start"}
\* Only the LoadImageHandle failure.
MCFaultsHandle == {"imageHandle"}
\* No firmware call fails.
MCNoFaults == {}
\* Only reads fail.
MCFaultsRead == {"read"}

=============================================================================
