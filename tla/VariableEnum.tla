----------------------------- MODULE VariableEnum -----------------------------
(***************************************************************************)
(* vars() and getkey() of goefi/cmd/efiload/main.go: the walk over all     *)
(* UEFI variables with GetNextVariableName, the name buffer grown on       *)
(* EFI_BUFFER_TOO_SMALL, and the two-call GetVariable of each variable.    *)
(*                                                                         *)
(* The firmware keeps its variables in an order of its own choosing; a     *)
(* call returns the variable after the name in the buffer (the first one   *)
(* for the empty name) when it fits in the size passed in, and otherwise   *)
(* EFI_BUFFER_TOO_SMALL with the size needed.  Names are model values with *)
(* their length in CHAR16 (the NUL included); their characters do not      *)
(* matter.  A name buffer is abstracted to the name it holds and its       *)
(* length in CHAR16.                                                       *)
(***************************************************************************)
EXTENDS Naturals, Sequences, SequencesExt

CONSTANTS
    Names,      \* the variables in the firmware store
    NameLen,    \* name -> its length in CHAR16, NUL included
    Faults,     \* subset of {"device", "getVariable"}: calls that may fail
    Empty       \* the empty name: a buffer holding only the NUL

ASSUME NameLen \in [Names -> 2..8]
ASSUME Faults \subseteq {"device", "getVariable"}

VARIABLES
    store,       \* the firmware's enumeration order of the variables
    pc,          \* "Next" | "GetKey" | "Done" | "Panicked"
    varKey,      \* [name, len]: the CHAR16 slice varKey
    varKeySize,  \* varKeySize: bytes passed to / returned by the firmware
    listed,      \* names printed by the loop so far
    dup,         \* TRUE once a name was printed a second time
    values       \* name -> "unread" | "read" | "failed": what getkey returned

vars == <<store, pc, varKey, varKeySize, listed, dup, values>>

Fails(call) == call \in Faults

\* Type invariant.
TypeOK ==
    /\ store \in SetToSeqs(Names)
    /\ pc \in {"Next", "GetKey", "Done", "Panicked"}
    /\ varKey \in [name : Names \cup {Empty}, len : 1..8]
    /\ varKeySize \in 2..16
    /\ listed \subseteq Names
    /\ dup \in BOOLEAN
    /\ values \in [Names -> {"unread", "read", "failed"}]

\* Position in store of the variable GetNextVariableName returns next.
NextPos ==
    IF varKey.name = Empty THEN 1
    ELSE 1 + CHOOSE i \in 1..Len(store) : store[i] = varKey.name

Init ==
    /\ store \in SetToSeqs(Names)
    /\ pc = "Next"
    /\ varKey = [name |-> Empty, len |-> 1]
    /\ varKeySize = 2
    /\ listed = {}
    /\ dup = FALSE
    /\ values = [n \in Names |-> "unread"]

\* The grown buffer of a mutated loop that does not copy the old name:
\* the firmware is then handed the empty name again.
GrowKeyNoCopy(need) == [name |-> Empty, len |-> need \div 2]

\* A grown buffer sliced to (varKeySize-1)/2, as the keyString is.
GrowKeyShort(need) == [name |-> varKey.name, len |-> (need - 1) \div 2]

\* newVarKey := make([]CHAR16, varKeySize); copy(newVarKey, varKey);
\* varKey = newVarKey[:varKeySize/2]
GrowKey(need) == [name |-> varKey.name, len |-> need \div 2]

\* A loop whose name buffer is declared afresh on every iteration.
ListNameFreshKey(n) == [name |-> Empty, len |-> 1]

\* After EFI_SUCCESS the buffer holds the name just returned and is
\* passed back unchanged.
ListName(n) == [name |-> n, len |-> varKey.len]

\* One iteration of the for loop in vars(): GetNextVariableName and the
\* switch on its status.
GetNextVariableName ==
    /\ pc = "Next"
    /\ \/ /\ Fails("device")
          /\ pc' = "Panicked"
          /\ UNCHANGED <<varKey, varKeySize, listed, dup, values>>
       \/ /\ NextPos > Len(store)
          /\ pc' = "Done"
          /\ UNCHANGED <<varKey, varKeySize, listed, dup, values>>
       \/ /\ NextPos <= Len(store)
          /\ LET n == store[NextPos]
                 need == 2 * NameLen[n]
             IN  IF need > varKeySize
                 THEN /\ varKeySize' = need
                      /\ varKey' = GrowKey(need)
                      /\ UNCHANGED <<pc, listed, dup, values>>
                 ELSE /\ varKeySize' = need
                      /\ varKey' = ListName(n)
                      /\ dup' = (dup \/ n \in listed)
                      /\ listed' = listed \cup {n}
                      /\ pc' = "GetKey"
                      /\ UNCHANGED values
    /\ UNCHANGED store

\* getkey(varKey[:varKeySize/2], &vendorGUID): the first GetVariable with
\* dataSize 0 reports EFI_BUFFER_TOO_SMALL (a stored variable is never
\* empty), the second reads the data into a buffer of the size returned.
GetKey ==
    /\ pc = "GetKey"
    /\ \E ok \in IF Fails("getVariable") THEN BOOLEAN ELSE {TRUE} :
          values' = [values EXCEPT ![varKey.name] =
                                       IF ok THEN "read" ELSE "failed"]
    /\ pc' = "Next"
    /\ UNCHANGED <<store, varKey, varKeySize, listed, dup>>

Next == GetNextVariableName \/ GetKey

\* vars() runs on the only goroutine of the stub: it keeps taking steps.
Spec == Init /\ [][Next]_vars /\ WF_vars(Next)

-----------------------------------------------------------------------------
(* Properties *)

\* The firmware is told the name buffer holds varKeySize bytes; it may
\* write that many.  The size passed in never exceeds the CHAR16 slice the
\* loop allocated, across any sequence of growths and shorter names.
KeyBufferCoversAdvertisedSize == varKeySize <= 2 * varKey.len

\* Each variable is printed exactly once, and when GetNextVariableName
\* reports EFI_NOT_FOUND every variable of the store has been printed.
ListsEachVariableOnce ==
    /\ ~dup
    /\ pc = "Done" => listed = ToSet(store)

\* The walk over the variables ends: vars() returns or panics.
EnumerationEnds == <>(pc \in {"Done", "Panicked"})

=============================================================================
