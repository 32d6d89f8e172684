---------------------------- MODULE DeviceWrappers ----------------------------
(***************************************************************************)
(* What a caller does with the interfaces the locator hands out:           *)
(*                                                                         *)
(*   "gop"     EFI_GRAPHICS_OUTPUT_PROTOCOL.Init: QueryMode on every      *)
(*             mode, keep the one with most pixels, SetMode to it          *)
(*   "disks"   Disk.ReadAt, WriteAt, Flush over Disk I/O + Block I/O       *)
(*   "textin"  EFI_SIMPLE_TEXT_INPUT_EX_PROTOCOL.GetKey: WaitForEvent     *)
(*             on WaitForKeyEx (a CheckEvent busy loop), ReadKeyStroke     *)
(*                                                                         *)
(* One such operation runs at a time, on the caller's goroutine, between   *)
(* locator calls, on an entry of the locator's last result.  The firmware  *)
(* side changes on its own: a removable medium is ejected, inserted or     *)
(* write-protected (Block I/O Media fields), keys are typed.  A mode's     *)
(* information is [hr, vr]; a disk transfer is abstracted to its length.   *)
(***************************************************************************)
EXTENDS Locator

CONSTANTS
    ModeTable,         \* QueryMode information of modes 0 .. MaxMode-1
    Keys,              \* keys a user can type
    DevFaults,         \* subset of {"query", "setMode", "disk", "readKey"}
    MaxMediaChanges,   \* bound on medium changes
    MaxKeys            \* bound on key presses

ASSUME DevFaults \subseteq {"query", "setMode", "disk", "readKey"}

VARIABLES
    media,    \* handle -> [present, readOnly]: its Block I/O Media fields
    gopMode,  \* the display's current mode (Mode.Mode)
    dpc,      \* "Idle" | "Query" | "Wait" | "ReadKey"
    gi,       \* Init: loop index i
    best,     \* Init: [mode, pixels, info] = highestMode, pixelMax,
              \*       highestModeInfo
    queried,  \* Init: modes whose QueryMode succeeded
    gopRet,   \* the information Init returned last, or NoInfo
    keys,     \* keys typed and not yet read
    pressed,  \* keys typed so far
    typed,    \* the key GetKey returned last: a key, "zero" or "none"
    lastDisk, \* [h, op, len, n, err, fw] of the last disk operation
    changes   \* medium changes so far

dvars == <<media, gopMode, dpc, gi, best, queried, gopRet, keys, pressed,
           typed, lastDisk, changes>>
allVars == <<vars, dvars>>

ZeroInfo == [hr |-> 0, vr |-> 0]
NoInfo == [hr |-> -1, vr |-> -1]    \* Init has not returned yet
Pixels(m) == m.hr * m.vr
NoDisk == [h |-> 0, op |-> "none", len |-> 0, n |-> 0, err |-> "nil", fw |-> "none"]
MediaStates == [present : BOOLEAN, readOnly : BOOLEAN]

\* The outcomes a firmware call can have: it succeeds, or faults when the
\* configuration lets it.
Outcomes(f) == IF f \in DevFaults THEN BOOLEAN ELSE {TRUE}

\* Type invariant.
WrappersTypeOK ==
    /\ media \in [Handles -> MediaStates]
    /\ gopMode \in 0..Len(ModeTable) - 1
    /\ dpc \in {"Idle", "Query", "Wait", "ReadKey"}
    /\ gi \in 0..Len(ModeTable)
    /\ best \in [mode : 0..Len(ModeTable) - 1, pixels : Nat,
                 info : {ZeroInfo} \cup Range(ModeTable)]
    /\ queried \subseteq 0..Len(ModeTable) - 1
    /\ gopRet \in {NoInfo, ZeroInfo} \cup Range(ModeTable)
    /\ keys \in Seq(Keys) /\ pressed \in 0..MaxKeys
    /\ typed \in Keys \cup {"zero", "none"}
    /\ changes \in 0..MaxMediaChanges

DevInit ==
    /\ Init
    /\ media = [h \in Handles |-> [present |-> TRUE, readOnly |-> FALSE]]
    /\ gopMode = 0
    /\ dpc = "Idle" /\ gi = 0
    /\ best = [mode |-> 0, pixels |-> 0, info |-> ZeroInfo]
    /\ queried = {} /\ gopRet = NoInfo
    /\ keys = <<>> /\ pressed = 0 /\ typed = "none"
    /\ lastDisk = NoDisk
    /\ changes = 0

\* A caller operation starts on the interface the last call returned.
Begin(f) ==
    /\ pc = "Idle" /\ dpc = "Idle"
    /\ result.fn = f /\ result.ok /\ result.entries # <<>>
    /\ calls < MaxCalls
    /\ calls' = calls + 1

\* A locator call starts only while no caller operation runs (the other
\* locator steps run with pc # "Idle", when none can).
LocatorCall(f) == dpc = "Idle" /\ Call(f)

(* ---------------- Graphics Output: Init ---------------- *)

\* Init: the zeroed highestModeInfo, highestMode, pixelMax; the loop.
GopInit ==
    /\ Begin("gop")
    /\ dpc' = "Query" /\ gi' = 0
    /\ best' = [mode |-> 0, pixels |-> 0, info |-> ZeroInfo]
    /\ queried' = {}
    /\ UNCHANGED <<db, pc, fn, buf, i, st, out, degraded, result, pool, children>>
    /\ UNCHANGED <<media, gopMode, gopRet, keys, pressed, typed, lastDisk, changes>>

\* A loop body that keeps the mode number and pixel count of a better mode
\* but not its information.
GopQueryModeNoInfo ==
    /\ dpc = "Query" /\ gi < Len(ModeTable)
    /\ \E ok \in Outcomes("query") :
          LET m == ModeTable[gi + 1] IN
          /\ best' = IF ok /\ Pixels(m) > best.pixels
                     THEN [best EXCEPT !.mode = gi, !.pixels = Pixels(m)]
                     ELSE best
          /\ queried' = IF ok THEN queried \cup {gi} ELSE queried
    /\ gi' = gi + 1
    /\ UNCHANGED vars
    /\ UNCHANGED <<media, gopMode, dpc, gopRet, keys, pressed, typed, lastDisk, changes>>

\* One iteration: QueryMode(i, &size, &info); a failure is skipped, a
\* mode with strictly more pixels than pixelMax becomes the highest.
GopQueryMode ==
    /\ dpc = "Query" /\ gi < Len(ModeTable)
    /\ \E ok \in Outcomes("query") :
          LET m == ModeTable[gi + 1] IN
          /\ best' = IF ok /\ Pixels(m) > best.pixels
                     THEN [mode |-> gi, pixels |-> Pixels(m), info |-> m]
                     ELSE best
          /\ queried' = IF ok THEN queried \cup {gi} ELSE queried
    /\ gi' = gi + 1
    /\ UNCHANGED vars
    /\ UNCHANGED <<media, gopMode, dpc, gopRet, keys, pressed, typed, lastDisk, changes>>

\* After the loop: p.SetMode(highestMode), its status dropped, and
\* return &highestModeInfo.
GopSetMode ==
    /\ dpc = "Query" /\ gi = Len(ModeTable)
    /\ \E ok \in Outcomes("setMode") :
          gopMode' = IF ok THEN best.mode ELSE gopMode
    /\ gopRet' = best.info
    /\ dpc' = "Idle"
    /\ UNCHANGED vars
    /\ UNCHANGED <<media, gi, best, queried, keys, pressed, typed, lastDisk, changes>>

(* ---------------- Disk: ReadAt, WriteAt, Flush ---------------- *)

\* StatusError(st): nil for EFI_SUCCESS; otherwise the *Error errMap
\* holds for the code (newError registered one per code of the table,
\* and registers one for an unknown code).  Errors are told apart by their
\* code, so the error is named after the status.
StatusError(s) == IF s = "SUCCESS" THEN "nil" ELSE s

\* What ReadDisk / WriteDisk / FlushBlocks answer on medium m.
FirmwareDisk(op, m) ==
    IF ~m.present THEN "NO_MEDIA"
    ELSE IF op = "write" /\ m.readOnly THEN "WRITE_PROTECTED"
    ELSE "SUCCESS"

\* The wrapper's checks before the firmware call, in code order: ReadAt
\* checks MediaPresent, WriteAt checks ReadOnly, both then off < 0 and
\* len(p) == 0; Flush checks none.
Precheck(op, m, len, off) ==
    IF op = "read" /\ ~m.present THEN "ErrNoMediaPresent"
    ELSE IF op = "write" /\ m.readOnly THEN "ErrReadOnly"
    ELSE IF op # "flush" /\ off < 0 THEN "ErrNegativeOffset"
    ELSE IF op # "flush" /\ len = 0 THEN "empty"
    ELSE "call"

\* A wrapper that returns len(p) whatever ReadDisk / WriteDisk answered.
DiskOpUnchecked(h, op, len, off) ==
    LET m == media[h]
        pre == Precheck(op, m, len, off)
    IN  \E ok \in Outcomes("disk") :
           LET fw == IF ok THEN FirmwareDisk(op, m) ELSE "DEVICE_ERROR" IN
           lastDisk' =
               IF pre \notin {"call", "empty"}
               THEN [h |-> h, op |-> op, len |-> len, n |-> 0, err |-> pre, fw |-> "none"]
               ELSE IF pre = "empty"
               THEN [h |-> h, op |-> op, len |-> len, n |-> 0, err |-> "nil", fw |-> "none"]
               ELSE [h |-> h, op |-> op, len |-> len, n |-> IF op = "flush" THEN 0 ELSE len,
                     err |-> IF op = "flush" /\ fw # "SUCCESS" THEN fw ELSE "nil",
                     fw |-> fw]

\* ReadAt(p, off) / WriteAt(p, off) / Flush() on the disk of handle h: the
\* checks, the firmware call with the current MediaId, and
\* (int(sz), nil) on EFI_SUCCESS, (0, StatusError(st)) otherwise.
DiskOp(h, op, len, off) ==
    LET m == media[h]
        pre == Precheck(op, m, len, off)
    IN  \E ok \in Outcomes("disk") :
           LET fw == IF ok THEN FirmwareDisk(op, m) ELSE "DEVICE_ERROR" IN
           lastDisk' =
               IF pre \notin {"call", "empty"}
               THEN [h |-> h, op |-> op, len |-> len, n |-> 0, err |-> pre, fw |-> "none"]
               ELSE IF pre = "empty"
               THEN [h |-> h, op |-> op, len |-> len, n |-> 0, err |-> "nil", fw |-> "none"]
               ELSE [h |-> h, op |-> op, len |-> len,
                     n |-> IF fw = "SUCCESS" /\ op # "flush" THEN len ELSE 0,
                     err |-> StatusError(fw), fw |-> fw]

\* The caller calls ReadAt, WriteAt or Flush on a disk EnumerateDisks
\* returned, with a buffer of 0 or 1 bytes at offset -1 or 0.
DiskCall ==
    /\ Begin("disks")
    /\ \E k \in 1..Len(result.entries), op \in {"read", "write", "flush"},
          len \in {0, 1}, off \in {-1, 0} :
          DiskOp(result.entries[k].h, op, len, off)
    /\ UNCHANGED <<db, pc, fn, buf, i, st, out, degraded, result, pool, children>>
    /\ UNCHANGED <<media, gopMode, dpc, gi, best, queried, gopRet, keys, pressed,
                   typed, changes>>

\* The firmware: a medium is removed, inserted or write-protected.
MediaChange ==
    /\ changes < MaxMediaChanges
    /\ changes' = changes + 1
    /\ \E h \in Handles, m \in MediaStates :
          m # media[h] /\ media' = [media EXCEPT ![h] = m]
    /\ UNCHANGED vars
    /\ UNCHANGED <<gopMode, dpc, gi, best, queried, gopRet, keys, pressed, typed, lastDisk>>

(* ---------------- Text input: GetKey ---------------- *)

\* GetKey: WaitForEvent(p.WaitForKeyEx).
GetKey ==
    /\ Begin("textin")
    /\ dpc' = "Wait"
    /\ UNCHANGED <<db, pc, fn, buf, i, st, out, degraded, result, pool, children>>
    /\ UNCHANGED <<media, gopMode, gi, best, queried, gopRet, keys, pressed,
                   typed, lastDisk, changes>>

\* WaitForEvent: BS().CheckEvent(event) returns EFI_SUCCESS once a key is
\* pending and the loop returns.  An iteration that gets EFI_NOT_READY
\* changes nothing (gosched is commented out) and is a stuttering step.
CheckEvent ==
    /\ dpc = "Wait" /\ keys # <<>>
    /\ dpc' = "ReadKey"
    /\ UNCHANGED vars
    /\ UNCHANGED <<media, gopMode, gi, best, queried, gopRet, keys, pressed,
                   typed, lastDisk, changes>>

\* ReadKeyStroke(&key); the key is returned whatever the status, so a
\* failed read returns the zeroed EFI_KEY_DATA.
ReadKeyStroke ==
    /\ dpc = "ReadKey"
    /\ \E ok \in Outcomes("readKey") :
          IF ok THEN typed' = Head(keys) /\ keys' = Tail(keys)
          ELSE typed' = "zero" /\ UNCHANGED keys
    /\ dpc' = "Idle"
    /\ UNCHANGED vars
    /\ UNCHANGED <<media, gopMode, gi, best, queried, gopRet, pressed, lastDisk,
                   changes>>

\* The user types key k.
KeyPress ==
    /\ pressed < MaxKeys
    /\ pressed' = pressed + 1
    /\ \E k \in Keys : keys' = Append(keys, k)
    /\ UNCHANGED vars
    /\ UNCHANGED <<media, gopMode, dpc, gi, best, queried, gopRet, typed,
                   lastDisk, changes>>

-----------------------------------------------------------------------------

\* The caller's goroutine: the locator calls and the wrapper operations.
CallerNext ==
    \/ \E f \in Fns : LocatorCall(f) /\ UNCHANGED dvars
    \/ LocateHandleBuffer /\ UNCHANGED dvars
    \/ FsStep /\ UNCHANGED dvars
    \/ DisksStep /\ UNCHANGED dvars
    \/ SnpStep /\ UNCHANGED dvars
    \/ DhcpStep /\ UNCHANGED dvars
    \/ SerialStep /\ UNCHANGED dvars
    \/ Return /\ UNCHANGED dvars
    \/ LocateProtocol /\ UNCHANGED dvars
    \/ GopInit \/ GopQueryMode \/ GopSetMode
    \/ DiskCall
    \/ GetKey \/ CheckEvent \/ ReadKeyStroke

DevNext == CallerNext \/ MediaChange \/ KeyPress

\* The caller's goroutine is the only one and never blocks in Go: its
\* steps are weakly fair.  The user and the medium owe nothing.
DevSpec == DevInit /\ [][DevNext]_allVars

-----------------------------------------------------------------------------
(* Properties *)

\* The first mode with the largest pixel count among those QueryMode
\* reported.
LargestMode(Q) ==
    CHOOSE q \in Q : \A o \in Q :
        Pixels(ModeTable[o + 1]) <= Pixels(ModeTable[q + 1])

\* Init returns the information of a mode with the most pixels among the
\* modes whose QueryMode succeeded, and picks that mode, across any
\* pattern of QueryMode failures and ties.
GopInitPicksLargest ==
    dpc = "Idle" /\ gopRet # NoInfo /\ queried # {} =>
        /\ Pixels(ModeTable[best.mode + 1]) = Pixels(ModeTable[LargestMode(queried) + 1])
        /\ best.mode \in queried
        /\ gopRet = ModeTable[best.mode + 1]

\* (spec 6) After Init returns, the display is in the mode whose
\* information Init returned.
GopModeMatchesInfo ==
    dpc = "Idle" /\ gopRet \notin {NoInfo, ZeroInfo} => ModeTable[gopMode + 1] = gopRet

\* A disk read or write reports n bytes and no error exactly when the
\* firmware transferred the whole buffer (or the buffer was empty); a
\* firmware failure is never reported as a transfer.
DiskResultIsHonest ==
    lastDisk.op \in {"read", "write"} =>
        /\ lastDisk.err = "nil" =>
               lastDisk.fw = "SUCCESS" \/ (lastDisk.fw = "none" /\ lastDisk.len = 0)
        /\ lastDisk.fw \notin {"SUCCESS", "none"} => lastDisk.err # "nil"
        /\ lastDisk.n = (IF lastDisk.err = "nil" THEN lastDisk.len ELSE 0)

\* (spec 4.3) No read or write reaches the firmware while the medium
\* reports no media present.
DiskPreconditionsHonoured ==
    lastDisk.op \in {"read", "write"} => lastDisk.fw # "NO_MEDIA"


-----------------------------------------------------------------------------
(* Refinement *)

\* The caller's operation as the contract sees it.
DevPhase == [Idle |-> "idle", Query |-> "gop", Wait |-> "key", ReadKey |-> "key"]

DC == INSTANCE DeviceContract
        WITH phase <- DevPhase[dpc], display <- gopMode,
             shown <- IF gopRet = NoInfo THEN "none" ELSE gopRet,
             pending <- keys, key <- typed, disk <- lastDisk

\* (spec 4.3, 5) Init, GetKey, ReadAt, WriteAt and Flush implement the
\* wrapper contract: the mode Init reports is the display's, a failed key
\* read is reported and not returned as a key, a disk transfer runs only
\* when its medium allows it and is reported as the firmware answered.
WrappersImplementDeviceContract == DC!Spec

=============================================================================
