---------------------------- MODULE ProtocolLookup ----------------------------
(***************************************************************************)
(* What the protocol locator promises its caller (spec 3, 4.2 and 8),      *)
(* with no handle buffer, loop or status word in sight.  A caller asks one *)
(* function at a time for the interfaces of one protocol; the function     *)
(* answers with                                                            *)
(*   - for a handle walk: the interface of each handle offering the        *)
(*     protocol, in the firmware's order, each once; an empty answer and   *)
(*     no error when no handle offers it; fewer handles, or a DeviceError, *)
(*     only when the firmware faults binding one;                          *)
(*   - for a singleton: the first instance, or NotFound when none is       *)
(*     registered;                                                         *)
(*   - an error when the firmware cannot run the lookup at all.            *)
(* Whatever the firmware allocated for the lookup is released, or handed   *)
(* to the caller, by the time the function returns.                        *)
(* Not a translation of code: Locator is checked against it               *)
(* (LookupImplementsProtocolLookup).                                       *)
(***************************************************************************)
EXTENDS Naturals, Sequences, SequencesExt

CONSTANTS NumHandles, HandleKinds, Fns, Faults

Handles == 1..NumHandles

Walkers == {"fs", "disks", "snp", "dhcp", "serial"}

\* The interface each function hands out.
Promise == [fs |-> "SFS", disks |-> "Disk", snp |-> "SNP", dhcp |-> "DHCP4",
            serial |-> "Serial", gop |-> "GOP", textin |-> "TextInEx"]

VARIABLES
    db,      \* handle -> protocols it carries (the firmware's, read-only)
    phase,   \* "idle" | "busy"
    fn,      \* the function asked
    result,  \* [fn, ok, err, entries] of the last answer
    held     \* firmware allocations the lookup holds and the caller cannot free

lvars == <<db, phase, fn, result, held>>

NoAnswer == [fn |-> "none", ok |-> TRUE, err |-> "none", entries |-> <<>>]

\* The firmware offers interface p on handle h: a disk needs both Disk I/O
\* and Block I/O, a DHCP4 child comes from the service binding.
Offers(h, p) ==
    CASE p = "Disk"  -> {"DiskIO", "BlockIO"} \subseteq db[h]
      [] p = "DHCP4" -> "DHCP4SB" \in db[h]
      [] OTHER       -> p \in db[h]

\* The handles offering f's interface, in database order.
Offering(f) == SelectSeq([k \in Handles |-> k], LAMBDA h : Offers(h, Promise[f]))

AsEntries(f, hs) == [k \in 1..Len(hs) |-> [h |-> hs[k], proto |-> Promise[f]]]

\* Errors the lookup may return: a lookup the firmware cannot run, a walk
\* that meets a binding fault, and NotFound for a singleton with none.
Errors(f) ==
    {e \in {"OUT_OF_RESOURCES"} : "locate" \in Faults}
    \cup {e \in {"DEVICE_ERROR"} : f \in Walkers /\ "bind" \in Faults}
    \cup {e \in {"NOT_FOUND"} : f \notin Walkers /\ Offering(f) = <<>>}

\* Handle lists a successful answer may carry: all the providers, or, when
\* the firmware may fault on a handle, the providers it did not fault on.
Found(f) ==
    IF f \notin Walkers
    THEN IF Offering(f) = <<>> THEN {} ELSE {<<Offering(f)[1]>>}
    ELSE IF Faults \cap {"bind", "child"} = {} THEN {Offering(f)}
         ELSE {SetToSortSeq(S, <) : S \in SUBSET ToSet(Offering(f))}

Answers(f) ==
    {[fn |-> f, ok |-> FALSE, err |-> e, entries |-> <<>>] : e \in Errors(f)}
    \cup {[fn |-> f, ok |-> TRUE, err |-> "none", entries |-> AsEntries(f, hs)]
            : hs \in Found(f)}

Init ==
    /\ db \in [Handles -> HandleKinds]
    /\ phase = "idle" /\ fn = "none" /\ result = NoAnswer
    /\ held = 0

Ask(f) ==
    /\ phase = "idle"
    /\ phase' = "busy" /\ fn' = f
    /\ UNCHANGED <<db, result, held>>

\* The lookup runs; the firmware may allocate on its behalf.
Work ==
    /\ phase = "busy"
    /\ held' \in Nat
    /\ UNCHANGED <<db, phase, fn, result>>

Answer ==
    /\ phase = "busy"
    /\ result' \in Answers(fn)
    /\ held' = 0
    /\ phase' = "idle"
    /\ UNCHANGED <<db, fn>>

Next == (\E f \in Fns : Ask(f)) \/ Work \/ Answer

Spec == Init /\ [][Next]_lvars

=============================================================================
