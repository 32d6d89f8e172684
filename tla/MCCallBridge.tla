----------------------------- MODULE MCCallBridge -----------------------------
(* Three goroutines issuing firmware calls.                                *)
EXTENDS CallBridge

CONSTANTS g1, g2, g3

MCCallers == {g1, g2, g3}
\* The entry points that go through callService's mux.
MCLockedEntries == {"call3", "asm"}
\* All entry points call.go exports, UefiCall5 included.
MCAllEntries == {"call3", "call5", "asm"}

=============================================================================
