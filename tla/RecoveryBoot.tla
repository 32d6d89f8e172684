----------------------------- MODULE RecoveryBoot -----------------------------
(***************************************************************************)
(* The "recovery" shell command of cmd/recovery/main.go: the Fn registered *)
(* in initGoBoot, executeKernel, loadAndVerify and the command-line patch  *)
(* of the loaded image, with the firmware services it calls (Root, Open,   *)
(* ReadAll, LoadImageMem, LoadImageHandle, StartImage) as nondeterministic *)
(* outcomes.  The shell may run the command several times; the files on   *)
(* the boot volume may change at any moment (another writer, a hostile     *)
(* medium).                                                                *)
(***************************************************************************)
EXTENDS Naturals, Sequences, TLC, Utf16

CONSTANTS
    KernelContents,   \* contents \EFI\linux\kernel.efi can have
    Trusted,          \* the contents the trust anchor would accept
    CmdFileTexts,     \* texts \EFI\linux\cmdline can hold
    Args,             \* cmdline argument the shell passes (<<>>: none)
    DefaultCmdLine,   \* the compiled-in CmdLine
    Faults,           \* firmware calls that may fail in this model
    MaxAttempts,      \* bound on recovery commands issued from the shell
    MaxTextLen,       \* bound on the length of any command line text
    Absent            \* a file that is not on the volume

ASSUME Trusted \subseteq KernelContents
ASSUME Faults \subseteq {"root", "open", "read", "loadImage", "imageHandle", "start"}

VARIABLES
    pc,          \* control point of the shell / executeKernel
    attempt,     \* number of recovery commands issued
    disk,        \* [kernel, cmdline] files on the root volume
    cmdline,     \* executeKernel's cmdline variable
    data,        \* executeKernel's data: the kernel bytes in memory
    images,      \* image handle -> firmware loaded-image record
    nullWrites,  \* TRUE once the cmdline fields were written at address 0
    hist,        \* attempt -> what that attempt was given and read (history)
    openFiles,   \* file handles root.Open returned that are still open
    freedOpts    \* attempts whose UTF-16 LoadOptions buffer the Go
                 \* collector reclaimed before StartImage

vars == <<pc, attempt, disk, cmdline, data, images, nullWrites, hist,
          openFiles, freedOpts>>

-----------------------------------------------------------------------------
(* Types *)

\* A command-line string of at most MaxTextLen bytes.
IsText(s) == s \in Seq(Bytes) /\ Len(s) <= MaxTextLen

\* Kernel bytes read into memory: which file contents, and whether ReadAll
\* returned all of them, a non-empty prefix, or nothing.
Payload == [src : KernelContents, part : {"whole", "prefix", "empty"}]

NoData == [src |-> Absent, part |-> "none"]

\* Result of reading the cmdline file in an attempt.
IsCmdRead(r) == r \in [st : {"notRead", "openFailed", "read"},
                        ok : BOOLEAN, text : Seq(Bytes)]

NotRead == [st |-> "notRead", ok |-> FALSE, text |-> <<>>]
OpenFailed == [st |-> "openFailed", ok |-> FALSE, text |-> <<>>]

ImageRec == [bytes : Payload, state : {"loaded", "started"},
             optsSize : Nat, opts : Seq(Units) \cup {"unset"}]

Pcs == {"Shell", "Root", "LoadKernel", "Cmdline", "LoadImage", "Patch",
        "Start", "Booted", "Exited", "Panicked"}

\* Type invariant: in particular LoadOptionsSize stays within twice the
\* longest command line the model can produce.
TypeOK ==
    /\ pc \in Pcs
    /\ attempt \in 0..MaxAttempts
    /\ disk \in [kernel : KernelContents \cup {Absent},
                 cmdline : CmdFileTexts \cup {Absent}]
    /\ IsText(cmdline)
    /\ data \in Payload \cup {NoData}
    /\ DOMAIN images \subseteq 1..MaxAttempts
    /\ \A i \in DOMAIN images : images[i] \in ImageRec
                                 /\ images[i].optsSize \in 0..2 * MaxTextLen
    /\ nullWrites \in BOOLEAN
    /\ DOMAIN hist = 1..attempt
    /\ \A i \in DOMAIN hist : IsCmdRead(hist[i].cmd)
    /\ openFiles \in 0..2 * MaxAttempts
    /\ freedOpts \subseteq 1..attempt

-----------------------------------------------------------------------------
(* Firmware outcomes *)

Fails(call) == call \in Faults

\* What ReadAll can leave in the buffer: all of the file, or on a read
\* error the bytes read so far (possibly none).
KernelParts == {"whole"} \cup (IF Fails("read") THEN {"prefix", "empty"} ELSE {})

CmdReads(t) ==
    {[st |-> "read", ok |-> TRUE, text |-> t]}
    \cup (IF Fails("read")
          THEN {[st |-> "read", ok |-> FALSE, text |-> SubSeq(t, 1, k)] :
                   k \in 0..Len(t) - 1}
          ELSE {})

\* loadAndVerify returns an error only when Root() or root.Open() fails.
LoadAndVerifyFails(file) == Fails("root") \/ Fails("open") \/ file = Absent

-----------------------------------------------------------------------------
(* Actions *)

Init ==
    /\ pc = "Shell"
    /\ attempt = 0
    /\ disk \in [kernel : KernelContents \cup {Absent},
                 cmdline : CmdFileTexts \cup {Absent}]
    /\ cmdline = <<>>
    /\ data = NoData
    /\ images = <<>>
    /\ nullWrites = FALSE
    /\ hist = <<>>
    /\ openFiles = 0
    /\ freedOpts = {}

\* RecoveryCmd with the cmdline variable hoisted out of the command's Fn:
\* a call without a cmdline argument keeps the previous attempt's value.
RecoveryCmdStickyCmdline(a) ==
    /\ pc = "Shell"
    /\ attempt < MaxAttempts
    /\ attempt' = attempt + 1
    /\ cmdline' = IF a # <<>> THEN a ELSE cmdline
    /\ data' = NoData
    /\ hist' = Append(hist, [arg |-> a, read |-> NoData, cmd |-> NotRead])
    /\ pc' = "Root"
    /\ UNCHANGED <<disk, images, nullWrites, openFiles, freedOpts>>

\* The shell runs "recovery [kernel_path] [cmdline]"; cmdline is the
\* joined arguments or "".
RecoveryCmd(a) ==
    /\ pc = "Shell"
    /\ attempt < MaxAttempts
    /\ attempt' = attempt + 1
    /\ cmdline' = a
    /\ data' = NoData
    /\ hist' = Append(hist, [arg |-> a, read |-> NoData, cmd |-> NotRead])
    /\ pc' = "Root"
    /\ UNCHANGED <<disk, images, nullWrites, openFiles, freedOpts>>

\* executeKernel: root, err := x64.UEFI.Root()
ExecuteKernelRoot ==
    /\ pc = "Root"
    /\ \/ pc' = "LoadKernel"
       \/ Fails("root") /\ pc' = "Shell"
    /\ UNCHANGED <<attempt, disk, cmdline, data, images, nullWrites, hist,
                   openFiles, freedOpts>>

\* data, err := loadAndVerify(path): a second Root(), Open, ReadAll.  A
\* read error is only printed: the bytes read so far are returned with a
\* nil error.  The SHA-256 is printed and compared with nothing.
LoadKernel ==
    /\ pc = "LoadKernel"
    /\ \/ LoadAndVerifyFails(disk.kernel) /\ pc' = "Shell"
                                          /\ UNCHANGED <<data, hist, openFiles>>
       \/ /\ disk.kernel # Absent
          /\ \E p \in KernelParts :
                data' = [src |-> disk.kernel, part |-> p]
          /\ hist' = [hist EXCEPT ![attempt].read = data']
          /\ openFiles' = openFiles + 1
          /\ pc' = "Cmdline"
    /\ UNCHANGED <<attempt, disk, cmdline, images, nullWrites, freedOpts>>

\* if cmdline == "" { cmddata, err := loadAndVerify("\EFI\linux\cmdline") ... }
ResolveCmdline ==
    /\ pc = "Cmdline"
    /\ pc' = "LoadImage"
    /\ IF cmdline # <<>>
       THEN UNCHANGED <<cmdline, hist, openFiles>>
       ELSE \/ /\ LoadAndVerifyFails(disk.cmdline)
               /\ cmdline' = DefaultCmdLine
               /\ hist' = [hist EXCEPT ![attempt].cmd = OpenFailed]
               /\ UNCHANGED openFiles
            \/ /\ disk.cmdline # Absent
               /\ \E r \in CmdReads(disk.cmdline) :
                     /\ cmdline' = r.text
                     /\ hist' = [hist EXCEPT ![attempt].cmd = r]
               /\ openFiles' = openFiles + 1
    /\ UNCHANGED <<attempt, disk, data, images, nullWrites, freedOpts>>

\* The firmware image object created by LoadImageMem from the buffer.
NewImage(bytes) == [bytes |-> bytes, state |-> "loaded",
                    optsSize |-> 0, opts |-> "unset"]

\* LoadImage(0, root, path) instead of LoadImageMem: the firmware image is
\* made from the file read again from the volume.
LoadImageFromVolume ==
    /\ pc = "LoadImage"
    /\ \/ /\ disk.kernel # Absent
          /\ images' = images @@ (attempt :>
                         NewImage([src |-> disk.kernel, part |-> "whole"]))
          /\ pc' = "Patch"
       \/ Fails("loadImage") /\ pc' = "Shell" /\ UNCHANGED images
    /\ UNCHANGED <<attempt, disk, cmdline, data, nullWrites, hist, openFiles,
                   freedOpts>>

\* h, err := x64.UEFI.Boot.LoadImageMem(0, root, path, data).  An error of
\* root.FilePath returns before the buffer is touched (whatever it holds);
\* then ptrval(&buf[0]) panics on an empty buffer; then the firmware's
\* LoadImage loads the bytes or fails.  Both errors are the "loadImage" fault.
LoadImageMem ==
    /\ pc = "LoadImage"
    /\ \/ Fails("loadImage") /\ pc' = "Shell" /\ UNCHANGED images
       \/ data.part = "empty" /\ pc' = "Panicked" /\ UNCHANGED images
       \/ /\ data.part # "empty"
          /\ images' = images @@ (attempt :> NewImage(data))
          /\ pc' = "Patch"
    /\ UNCHANGED <<attempt, disk, cmdline, data, nullWrites, hist, openFiles,
                   freedOpts>>

\* The patch with the length field counted in 4-byte characters.
PatchCmdlineWideLen ==
    /\ pc = "Patch"
    /\ pc' = "Start"
    /\ \/ /\ images' = [images EXCEPT
                          ![attempt].optsSize = Len(cmdline) * 4,
                          ![attempt].opts = StringToUTF16(cmdline)]
          /\ UNCHANGED nullWrites
       \/ Fails("imageHandle") /\ nullWrites' = TRUE /\ UNCHANGED images
    /\ UNCHANGED <<attempt, disk, cmdline, data, hist, openFiles, freedOpts>>

\* limg, rawMemoryAddress, err := LoadImageHandle(h) (err is not checked);
\* the cmdline is encoded by stringToUTF16Ptr and the fields at offsets 48
\* (LoadOptionsSize = len(cmdline) * 2) and 56 (LoadOptions) are written.
\* When LoadImageHandle fails the address is 0 and the writes hit page 0.
\* (uint32(len*2) cannot wrap for texts of MaxTextLen bytes.)
PatchCmdline ==
    /\ pc = "Patch"
    /\ pc' = "Start"
    /\ \/ /\ images' = [images EXCEPT
                          ![attempt].optsSize = Len(cmdline) * 2,
                          ![attempt].opts = StringToUTF16(cmdline)]
          /\ UNCHANGED nullWrites
       \/ Fails("imageHandle") /\ nullWrites' = TRUE /\ UNCHANGED images
    /\ UNCHANGED <<attempt, disk, cmdline, data, hist, openFiles, freedOpts>>

\* return "", x64.UEFI.Boot.StartImage(h): the image runs and either keeps
\* control (the kernel boots) or returns to the shell; or the firmware
\* refuses to start it.
StartImage ==
    /\ pc = "Start"
    /\ \/ /\ images' = [images EXCEPT ![attempt].state = "started"]
          /\ pc' \in {"Booted", "Shell"}
       \/ Fails("start") /\ pc' = "Shell" /\ UNCHANGED images
    /\ UNCHANGED <<attempt, disk, cmdline, data, nullWrites, hist, openFiles,
                   freedOpts>>

\* The Go collector runs during an allocation between the patch and
\* StartImage (log.Printf at line 122).  After line 120 the UTF-16 buffer
\* is referenced only by the uint64 stored into firmware memory and by the
\* dead local ptr (no runtime.KeepAlive), so the collector may reclaim it.
CollectOptsBuffer ==
    /\ pc = "Start"
    /\ attempt \in DOMAIN images
    /\ images[attempt].opts # "unset"
    /\ attempt \notin freedOpts
    /\ freedOpts' = freedOpts \cup {attempt}
    /\ UNCHANGED <<pc, attempt, disk, cmdline, data, images, nullWrites, hist,
                   openFiles>>

\* iface.Start returns: x64.UEFI.Boot.Exit(0), ResetSystem on error.
ShellExit ==
    /\ pc = "Shell"
    /\ pc' = "Exited"
    /\ UNCHANGED <<attempt, disk, cmdline, data, images, nullWrites, hist,
                   openFiles, freedOpts>>

\* The volume's files change under the boot flow.
DiskChange ==
    /\ pc \notin {"Booted", "Exited", "Panicked"}
    /\ \E k \in KernelContents \cup {Absent}, c \in CmdFileTexts \cup {Absent} :
          /\ disk' = [kernel |-> k, cmdline |-> c]
          /\ disk' # disk
    /\ UNCHANGED <<pc, attempt, cmdline, data, images, nullWrites, hist,
                   openFiles, freedOpts>>

Next ==
    \/ \E a \in Args : RecoveryCmd(a)
    \/ ExecuteKernelRoot
    \/ LoadKernel
    \/ ResolveCmdline
    \/ LoadImageMem
    \/ PatchCmdline
    \/ StartImage
    \/ CollectOptsBuffer
    \/ ShellExit
    \/ DiskChange

Spec == Init /\ [][Next]_vars

-----------------------------------------------------------------------------
(* Properties *)

Started == {i \in DOMAIN images : images[i].state = "started"}

Patched == {i \in DOMAIN images : images[i].opts # "unset"}

\* The command line an attempt is meant to boot with: the shell argument,
\* else what was read from \EFI\linux\cmdline, else the default.
AttemptCmdline(i) ==
    CASE hist[i].arg # <<>>         -> hist[i].arg
      [] hist[i].cmd = OpenFailed   -> DefaultCmdLine
      [] OTHER                      -> hist[i].cmd.text

\* Time of check / time of use: every image the firmware loads holds the
\* bytes executeKernel read in the same attempt, even when the kernel file
\* on the volume changed after it was read (LoadImageMem from the buffer,
\* not LoadImage re-reading the file).
LoadedImageIsReadBuffer ==
    \A i \in DOMAIN images : images[i].bytes = hist[i].read

\* The LoadOptions an image is started with are the encoding of the
\* command line of its own attempt: the shell argument, the cmdline file,
\* or the default, never one left from an earlier attempt.
StartedImageGetsItsCmdline ==
    \A i \in Started \cap Patched :
        images[i].opts = StringToUTF16(AttemptCmdline(i))

\* (spec 4.4 step 3, 8) No image whose content the trust anchor rejects is
\* ever started: loadAndVerify only prints the SHA-256.
OnlyTrustedKernelStarted ==
    \A i \in Started : images[i].bytes.src \in Trusted

\* (spec 4.4 step 2) A kernel read failure is fatal for the attempt: no
\* image is loaded from a partial read, and the flow does not crash.
KernelReadFailureIsFatal ==
    /\ \A i \in DOMAIN images : images[i].bytes.part = "whole"
    /\ pc # "Panicked"

\* (spec 4.4 step 2, 6) When the cmdline file cannot be read the compiled-in
\* default command line is used.
UnreadableCmdlineFallsBackToDefault ==
    \A i \in Patched :
        (hist[i].arg = <<>> /\ hist[i].cmd.st = "read" /\ ~hist[i].cmd.ok)
            => images[i].opts = StringToUTF16(DefaultCmdLine)

\* (spec 3, 8) LoadOptionsSize is the number of UTF-16 units of the
\* command line times two, the terminator excluded.
LoadOptionsSizeIsEncodedLength ==
    \A i \in Patched : images[i].optsSize = 2 * (Len(images[i].opts) - 1)

\* (spec 3, 4.4 step 5) The command-line fields are only ever written into
\* the loaded-image record of the image just loaded.
CmdlineWrittenOnlyIntoLoadedImage == ~nullWrites

\* (spec 3, 4.4 step 5) The command line an image is started with is still
\* allocated when StartImage hands it to the image: the buffer written at
\* LoadOptions is kept alive until the call.
NoImageStartedWithFreedOptions == \A i \in Started : i \notin freedOpts

\* Every attempt that returns to the shell leaves nothing behind: the
\* kernel and cmdline files it opened are closed and an image it loaded
\* but could not start is unloaded, so repeated attempts do not exhaust
\* firmware handles.
AttemptReleasesResources ==
    pc = "Shell" => /\ openFiles = 0
                    /\ \A i \in DOMAIN images : images[i].state # "loaded"

-----------------------------------------------------------------------------
(* Refinement *)

\* The shell's control points are the abstract phases; every point inside
\* executeKernel is part of one attempt.
Phase == IF pc \in {"Shell", "Booted", "Exited", "Panicked"} THEN pc ELSE "Attempt"

\* An image record as the abstract flow sees it: live while the Go
\* collector has not reclaimed its LoadOptions buffer.
AbsImages == [i \in DOMAIN images |->
                 [bytes |-> images[i].bytes, state |-> images[i].state,
                  optsSize |-> images[i].optsSize, opts |-> images[i].opts,
                  live |-> i \notin freedOpts]]

VB == INSTANCE VerifiedBoot WITH phase <- Phase, cmd <- cmdline, kernel <- data,
                                 images <- AbsImages, held <- openFiles

\* (spec 4.4, 6, 7, 8) The recovery command implements the verified boot
\* flow: only a wholly read, trusted kernel is loaded, from the verified
\* buffer; the command line is the override, the cmdline file verbatim or
\* the default, written with its UTF-16 length into the new image's record
\* and alive when StartImage runs; a failed attempt returns to the shell
\* with its files closed and its image unloaded; nothing panics.
RecoveryImplementsVerifiedBoot == VB!Spec

=============================================================================
