------------------------------- MODULE Locator -------------------------------
(***************************************************************************)
(* The protocol locator layer: the Enumerate* functions that walk the      *)
(* firmware handle database (LocateHandleBuffer ByProtocol, then           *)
(* HandleProtocol on each handle) and the LocateProtocol singletons:       *)
(*                                                                         *)
(*   "fs"      EnumerateFileSystems   pkg/uefi/simple_file_system_protocol *)
(*   "disks"   EnumerateDisks         pkg/uefi/media_io_protocol           *)
(*   "snp"     EnumerateSNP           pkg/uefi/simple_network_protocol     *)
(*   "dhcp"    EnumerateDHCPv4        pkg/uefi/dhcpv4                      *)
(*   "serial"  EnumerateSerialPorts   goefi/pkg/uefi/serial_io_protocol    *)
(*   "gop"     GraphicsOutputProtocol goefi/pkg/uefi/graphics_output_...   *)
(*   "textin"  SimpleTextInExProtocol pkg/uefi/simple_text_in              *)
(*                                                                         *)
(* A caller issues up to MaxCalls of them, one at a time.  Handles are     *)
(* 1..NumHandles; the database maps each to the protocols it carries.  An  *)
(* interface pointer a function returns is abstracted to [h, proto]: the   *)
(* handle it was obtained from and the protocol the pointer really is.     *)
(***************************************************************************)
EXTENDS Naturals, Sequences, SequencesExt

CONSTANTS
    NumHandles,   \* handles in the database
    HandleKinds,  \* the protocol sets a handle can carry
    Fns,          \* the functions the caller may call
    Faults,       \* subset of {"locate", "bind", "child"}
    MaxCalls      \* bound on the calls issued

Handles == 1..NumHandles

Walkers == {"fs", "disks", "snp", "dhcp", "serial"}
Singletons == {"gop", "textin"}

ASSUME Fns \subseteq Walkers \cup Singletons
ASSUME Faults \subseteq {"locate", "bind", "child"}

\* The GUID each function hands to LocateHandleBuffer / LocateProtocol.
LocateProto == [fs |-> "SFS", disks |-> "DiskIO", snp |-> "SNP",
                dhcp |-> "DHCP4SB", serial |-> "Serial",
                gop |-> "GOP", textin |-> "TextInEx"]

\* The interface each function promises in its result.
Promise == [fs |-> "SFS", disks |-> "Disk", snp |-> "SNP", dhcp |-> "DHCP4",
            serial |-> "Serial", gop |-> "GOP", textin |-> "TextInEx"]

Protos == {"SFS", "DiskIO", "BlockIO", "SNP", "DHCP4SB", "Serial", "GOP",
           "TextInEx", "Disk", "DHCP4"}

NoResult == [fn |-> "none", ok |-> TRUE, st |-> "none", entries |-> <<>>,
             clean |-> TRUE]

VARIABLES
    db,        \* handle -> protocols it carries
    pc,        \* "Idle" | "Locate" | "Loop"
    fn,        \* the function running
    buf,       \* the handle buffer LocateHandleBuffer returned
    i,         \* loop index into buf
    st,        \* status LocateHandleBuffer / LocateProtocol returned
    out,       \* the slice being built
    degraded,  \* TRUE when a firmware call failed on a handle in this walk
    result,    \* [fn, ok, st, entries] of the last call that returned, and
               \* clean: no firmware call failed on a handle during it
    pool,      \* handle buffers allocated from pool and not freed
    children,  \* DHCP4 children created: [parent, returned]
    calls      \* calls issued

vars == <<db, pc, fn, buf, i, st, out, degraded, result, pool, children, calls>>

Entry == [h : Handles, proto : Protos]

\* Type invariant: in particular every entry of a slice is an interface
\* of a real handle, never a nil pointer.
TypeOK ==
    /\ db \in [Handles -> HandleKinds]
    /\ pc \in {"Idle", "Locate", "Loop"}
    /\ fn \in Fns \cup {"none"}
    /\ buf \in Seq(Handles) /\ i \in 1..NumHandles + 1
    /\ st \in {"none", "SUCCESS", "NOT_FOUND", "OUT_OF_RESOURCES"}
    /\ out \in Seq(Entry)
    /\ degraded \in BOOLEAN
    /\ result \in {NoResult} \cup
                  [fn : Fns, ok : BOOLEAN, st : {"SUCCESS", "NOT_FOUND",
                   "OUT_OF_RESOURCES", "DEVICE_ERROR"}, entries : Seq(Entry),
                   clean : BOOLEAN]
    /\ pool \in 0..MaxCalls
    /\ children \in Seq([parent : Handles, returned : BOOLEAN])
    /\ calls \in 0..MaxCalls

Fails(call) == call \in Faults

\* The handles carrying protocol p, in database order.
Providers(p) == SelectSeq([k \in Handles |-> k], LAMBDA h : p \in db[h])

\* Outcomes of BS().HandleProtocol(h, p): success exactly when h carries
\* p, unless the firmware faults.
Bind(h, p) ==
    IF p \in db[h] THEN {TRUE} \cup (IF Fails("bind") THEN {FALSE} ELSE {})
    ELSE {FALSE}

\* A firmware fault on a handle that does carry p.
Faulted(h, p, ok) == ~ok /\ p \in db[h]

Init ==
    /\ db \in [Handles -> HandleKinds]
    /\ pc = "Idle"
    /\ fn = "none"
    /\ buf = <<>> /\ i = 1
    /\ st = "none"
    /\ out = <<>>
    /\ degraded = FALSE
    /\ result = NoResult
    /\ pool = 0
    /\ children = <<>>
    /\ calls = 0

\* A call returns (ok, entries) to the caller.
Finish(ok, s, es) ==
    /\ result' = [fn |-> fn, ok |-> ok, st |-> s, entries |-> es,
                   clean |-> ~degraded]
    /\ pc' = "Idle"

\* The caller calls one of the functions.
Call(f) ==
    /\ pc = "Idle"
    /\ calls < MaxCalls
    /\ calls' = calls + 1
    /\ fn' = f
    /\ pc' = "Locate"
    /\ out' = <<>> /\ buf' = <<>> /\ i' = 1 /\ degraded' = FALSE
    /\ UNCHANGED <<db, st, result, pool, children>>

\* status := BS().LocateHandleBuffer(ByProtocol, &GUID, nil, &handleCount,
\* &handleBuffer) and the status check after it.  EnumerateFileSystems
\* and EnumerateDisks turn EFI_NOT_FOUND into (nil, nil); EnumerateSNP,
\* EnumerateDHCPv4 and EnumerateSerialPorts return StatusError for any
\* status other than EFI_SUCCESS.
LocateHandleBuffer ==
    /\ pc = "Locate"
    /\ fn \in Walkers
    /\ LET P == Providers(LocateProto[fn]) IN
       \/ /\ Fails("locate")
          /\ st' = "OUT_OF_RESOURCES"
          /\ Finish(FALSE, "OUT_OF_RESOURCES", <<>>)
          /\ UNCHANGED <<buf, i, pool>>
       \/ /\ P = <<>>
          /\ st' = "NOT_FOUND"
          /\ Finish(fn \in {"fs", "disks"}, "NOT_FOUND", <<>>)
          /\ UNCHANGED <<buf, i, pool>>
       \/ /\ P # <<>>
          /\ st' = "SUCCESS"
          /\ pool' = pool + 1
          /\ buf' = P /\ i' = 1
          /\ pc' = "Loop"
          /\ UNCHANGED result
    /\ UNCHANGED <<db, fn, out, degraded, children, calls>>

\* A loop body that appends the interface pointer whatever the status.
FsStepAppendNil ==
    /\ pc = "Loop" /\ fn = "fs" /\ i <= Len(buf)
    /\ LET h == buf[i] IN
       \E ok \in Bind(h, "SFS") :
          /\ out' = Append(out, [h |-> h, proto |-> IF ok THEN "SFS" ELSE "nil"])
          /\ degraded' = (degraded \/ Faulted(h, "SFS", ok))
    /\ i' = i + 1
    /\ UNCHANGED <<db, pc, fn, buf, st, result, pool, children, calls>>

\* EnumerateFileSystems: if HandleProtocol(h, SFS) succeeds, append sfs.
FsStep ==
    /\ pc = "Loop" /\ fn = "fs" /\ i <= Len(buf)
    /\ LET h == buf[i] IN
       \E ok \in Bind(h, "SFS") :
          /\ out' = IF ok THEN Append(out, [h |-> h, proto |-> "SFS"]) ELSE out
          /\ degraded' = (degraded \/ Faulted(h, "SFS", ok))
    /\ i' = i + 1
    /\ UNCHANGED <<db, pc, fn, buf, st, result, pool, children, calls>>

\* A disk loop that does not require Block I/O on the handle.
DisksStepNoBlockIO ==
    /\ pc = "Loop" /\ fn = "disks" /\ i <= Len(buf)
    /\ LET h == buf[i] IN
       \E okD \in Bind(h, "DiskIO") :
          /\ out' = IF okD THEN Append(out, [h |-> h, proto |-> "Disk"]) ELSE out
          /\ degraded' = (degraded \/ Faulted(h, "DiskIO", okD))
    /\ i' = i + 1
    /\ UNCHANGED <<db, pc, fn, buf, st, result, pool, children, calls>>

\* EnumerateDisks: HandleProtocol(h, DiskIO), then HandleProtocol(h,
\* BlockIO); a failure of either skips the handle.
DisksStep ==
    /\ pc = "Loop" /\ fn = "disks" /\ i <= Len(buf)
    /\ LET h == buf[i] IN
       \E okD \in Bind(h, "DiskIO"), okB \in Bind(h, "BlockIO") :
          /\ out' = IF okD /\ okB THEN Append(out, [h |-> h, proto |-> "Disk"])
                    ELSE out
          /\ degraded' = (degraded \/ Faulted(h, "DiskIO", okD)
                                   \/ (okD /\ Faulted(h, "BlockIO", okB)))
    /\ i' = i + 1
    /\ UNCHANGED <<db, pc, fn, buf, st, result, pool, children, calls>>

\* EnumerateSNP: ConnectController(h), then HandleProtocol(h,
\* &EFI_DHCP4_SERVICE_BINDING_PROTOCOL_GUID, &snp); on success the
\* pointer is wrapped as a SimpleNetworkProtocol.
SnpStep ==
    /\ pc = "Loop" /\ fn = "snp" /\ i <= Len(buf)
    /\ LET h == buf[i] IN
       \E ok \in Bind(h, "DHCP4SB") :
          /\ out' = IF ok THEN Append(out, [h |-> h, proto |-> "DHCP4SB"]) ELSE out
          /\ degraded' = (degraded \/ Faulted(h, "DHCP4SB", ok))
    /\ i' = i + 1
    /\ UNCHANGED <<db, pc, fn, buf, st, result, pool, children, calls>>

\* EnumerateDHCPv4: HandleProtocol(h, DHCP4 service binding), then
\* binding.CreateChild(&bindChild), then HandleProtocol(bindChild, DHCP4);
\* any failure skips the handle (a child already created stays alive).
DhcpStep ==
    /\ pc = "Loop" /\ fn = "dhcp" /\ i <= Len(buf)
    /\ LET h == buf[i] IN
       \/ /\ \E ok \in Bind(h, "DHCP4SB") : ~ok
          /\ degraded' = TRUE
          /\ UNCHANGED <<out, children>>
       \/ /\ TRUE \in Bind(h, "DHCP4SB")
          /\ Fails("child")
          /\ degraded' = TRUE
          /\ UNCHANGED <<out, children>>
       \/ /\ TRUE \in Bind(h, "DHCP4SB")
          /\ \E okC \in {TRUE} \cup (IF Fails("bind") THEN {FALSE} ELSE {}) :
                /\ children' = Append(children, [parent |-> h, returned |-> okC])
                /\ out' = IF okC THEN Append(out, [h |-> h, proto |-> "DHCP4"])
                          ELSE out
                /\ degraded' = (degraded \/ ~okC)
    /\ i' = i + 1
    /\ UNCHANGED <<db, pc, fn, buf, st, result, pool, calls>>

\* EnumerateSerialPorts: ports[i] = the interface from HandleProtocol(h,
\* Serial); a failure returns (nil, StatusError) at once.
SerialStep ==
    /\ pc = "Loop" /\ fn = "serial" /\ i <= Len(buf)
    /\ LET h == buf[i] IN
       \E ok \in Bind(h, "Serial") :
          IF ok THEN /\ out' = Append(out, [h |-> h, proto |-> "Serial"])
                     /\ i' = i + 1
                     /\ UNCHANGED <<pc, result, degraded>>
          ELSE /\ degraded' = TRUE
               /\ Finish(FALSE, "DEVICE_ERROR", <<>>)
               /\ UNCHANGED <<out, i>>
    /\ UNCHANGED <<db, fn, buf, st, pool, children, calls>>

\* The loop is over: return (out, nil).  The handle buffer is not freed.
Return ==
    /\ pc = "Loop" /\ i > Len(buf)
    /\ Finish(TRUE, st, out)
    /\ UNCHANGED <<db, fn, buf, i, st, out, degraded, pool, children, calls>>

\* GraphicsOutputProtocol / SimpleTextInExProtocol: LocateProtocol(&GUID,
\* nil, &iFace) returns the first instance; any other status is returned
\* as StatusError.
LocateProtocol ==
    /\ pc = "Locate"
    /\ fn \in Singletons
    /\ LET P == Providers(LocateProto[fn]) IN
       \/ /\ Fails("locate")
          /\ st' = "OUT_OF_RESOURCES"
          /\ Finish(FALSE, "OUT_OF_RESOURCES", <<>>)
       \/ /\ P = <<>>
          /\ st' = "NOT_FOUND"
          /\ Finish(FALSE, "NOT_FOUND", <<>>)
       \/ /\ P # <<>>
          /\ st' = "SUCCESS"
          /\ Finish(TRUE, "SUCCESS", <<[h |-> P[1], proto |-> LocateProto[fn]]>>)
    /\ UNCHANGED <<db, fn, buf, i, out, degraded, pool, children, calls>>

Next ==
    \/ \E f \in Fns : Call(f)
    \/ LocateHandleBuffer
    \/ FsStep \/ DisksStep \/ SnpStep \/ DhcpStep \/ SerialStep
    \/ Return
    \/ LocateProtocol

\* Each function runs to its return on the caller's goroutine, and every
\* firmware call it makes returns: the walk keeps taking steps.
Spec == Init /\ [][Next]_vars

-----------------------------------------------------------------------------
(* Properties *)

\* Handle h really offers the interface a function promises.
Provides(h, p) ==
    CASE p = "Disk"  -> {"DiskIO", "BlockIO"} \subseteq db[h]
      [] p = "DHCP4" -> "DHCP4SB" \in db[h]
      [] OTHER       -> p \in db[h]

\* A result is exact: only interfaces of the protocol the function
\* promises, each obtained from a handle that offers it, each handle at
\* most once and in the firmware's order; and when no firmware call
\* failed on the way, the interface of every handle that offers it.
ExactResult(r) ==
    LET es == r.entries
        p  == Promise[r.fn]
    IN  /\ \A k \in 1..Len(es) : es[k].proto = p /\ Provides(es[k].h, p)
        /\ \A k \in 1..Len(es) - 1 : es[k].h < es[k + 1].h
        /\ (r.fn \in Walkers /\ r.clean) =>
               \A h \in Handles :
                   Provides(h, p) /\ LocateProto[r.fn] \in db[h]
                       => \E k \in 1..Len(es) : es[k].h = h

\* Every successful call of EnumerateFileSystems, EnumerateDisks,
\* EnumerateDHCPv4, EnumerateSerialPorts and the LocateProtocol singletons
\* returns an exact result, whatever fails on the way.
EnumerationIsExact ==
    result.ok /\ result.fn \in Fns \ {"snp"} => ExactResult(result)

\* (spec 4.1) EnumerateSNP returns the Simple Network Protocol of every
\* network handle: the interface asked for is the interface returned.
SnpEnumerationIsExact ==
    result.ok /\ result.fn = "snp" => ExactResult(result)

\* (spec 4.2, 8) When no handle carries the protocol, a handle walk
\* returns an empty slice and no error: EFI_NOT_FOUND is normalised.
NotFoundIsEmpty ==
    result.fn \in Walkers /\ result.st = "NOT_FOUND"
        => result.ok /\ result.entries = <<>>

\* (spec 3) Every DHCP4 child created with CreateChild is handed to the
\* caller (who can destroy it); none is left alive unreachable.
ChildrenAccounted == \A k \in 1..Len(children) : children[k].returned

\* The handle buffer LocateHandleBuffer allocated from pool is freed
\* before the function returns.
HandleBuffersFreed == pc = "Idle" => pool = 0

-----------------------------------------------------------------------------
(* Refinement *)

\* What the caller is owed once the call returns, as ProtocolLookup counts
\* it: handle buffers not freed, and DHCP4 children created but never
\* handed over.
Unreleased == pool + Len(SelectSeq(children, LAMBDA c : ~c.returned))

\* A returned error is its status; a success carries none.
AbsResult == [fn |-> result.fn, ok |-> result.ok, entries |-> result.entries,
              err |-> IF result.ok THEN "none" ELSE result.st]

PL == INSTANCE ProtocolLookup
        WITH phase <- IF pc = "Idle" THEN "idle" ELSE "busy",
             result <- AbsResult, held <- Unreleased

\* (spec 3, 4.2, 8) The Enumerate* walks and the LocateProtocol singletons
\* implement the locator contract: each answer is the providers of the
\* promised interface (all of them unless the firmware faulted on one),
\* EFI_NOT_FOUND from a walk is an empty answer, and nothing the firmware
\* allocated for the lookup is left held when the function returns.
LookupImplementsProtocolLookup == PL!Spec

=============================================================================
