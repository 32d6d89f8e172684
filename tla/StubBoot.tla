------------------------------- MODULE StubBoot -------------------------------
(***************************************************************************)
(* The boot path of the two non-interactive stubs, goefi/cmd/efiload and   *)
(* goefi/cmd/efi-verify: main reads a configuration block from memory at   *)
(* 0x20000000 ("<kernel length>\n<command line>\n..."), takes that many    *)
(* kernel bytes from memory at 0x30000000 and calls executeKernel, which   *)
(* loads the image from the buffer, patches the command line into its      *)
(* loaded-image record and starts it; main then calls Exit.                *)
(*                                                                         *)
(* The two stubs differ only where main prints parts[1] and kerData[0:16]  *)
(* (efiload) and in the dead data == nil branch of executeKernel.  The     *)
(* configuration block is a byte sequence (GoStrings, Utf16 classes); the  *)
(* kernel in memory is one of KernelContents, KernelSize bytes long.       *)
(***************************************************************************)
EXTENDS Integers, Sequences, SequencesExt, Utf16, GoStrings

CONSTANTS
    Stubs,           \* which stubs are run: "efiload", "efi-verify"
    Configs,         \* contents the configuration block can have
    KernelContents,  \* kernels that can be in memory at 0x30000000
    Trusted,         \* the kernels the trust anchor would accept
    KernelSize,      \* length of the kernel in memory
    Faults           \* subset of {"root", "loadImage", "imageHandle",
                     \*            "start", "exit"}

ASSUME Stubs \subseteq {"efiload", "efi-verify"}
ASSUME Trusted \subseteq KernelContents
ASSUME Faults \subseteq {"root", "loadImage", "imageHandle", "start", "exit"}

VARIABLES
    stub,        \* the stub that runs
    cfg,         \* the configuration block
    kernel,      \* the kernel in memory
    pc,          \* control point of main / executeKernel
    data,        \* kerData: [src, len], the bytes sliced from memory
    cmdline,     \* string(parts[1])
    image,       \* the firmware image object, or NoImage
    nullWrites   \* TRUE once the cmdline fields were written at address 0

vars == <<stub, cfg, kernel, pc, data, cmdline, image, nullWrites>>

NoImage == [state |-> "none"]
NoData == [src |-> "none", len |-> 0]

Pcs == {"Parse", "Root", "LoadImage", "Patch", "Start", "Exit",
        "Running", "Exited", "Reset", "OsExit", "Panicked"}

Fails(call) == call \in Faults

\* Type invariant.
TypeOK ==
    /\ stub \in Stubs
    /\ cfg \in Configs
    /\ kernel \in KernelContents
    /\ pc \in Pcs
    /\ data \in [src : KernelContents, len : Nat] \cup {NoData}
    /\ cmdline \in Seq(STRING)
    /\ image \in {NoImage} \cup
                 [bytes : [src : KernelContents, len : Nat],
                  state : {"loaded", "started"},
                  optsSize : Nat, opts : Seq(Units)]
    /\ nullWrites \in BOOLEAN

Init ==
    /\ stub \in Stubs
    /\ cfg \in Configs
    /\ kernel \in KernelContents
    /\ pc = "Parse"
    /\ data = NoData
    /\ cmdline = <<>>
    /\ image = NoImage
    /\ nullWrites = FALSE

\* main of both stubs: string(parts[1]) panics when the block holds no
\* newline, and unsafe.Slice panics on a negative length.
ConfigPanics(parts, kerLen) == Len(parts) < 2 \/ kerLen < 0

\* efiload's main also prints kerData[0:16], which panics on a slice
\* shorter than 16 bytes.
PrintPanics(kerLen) == stub = "efiload" /\ kerLen < 16

\* kerData built from a reflect.SliceHeader{Data, Len, Cap} instead of
\* unsafe.Slice: no check of the length.
ParseConfigSliceHeader ==
    /\ pc = "Parse"
    /\ LET parts  == SplitN(cfg, "NL", 3)
           kerLen == Atoi(parts[1])
       IN  IF Len(parts) < 2 \/ PrintPanics(kerLen)
           THEN pc' = "Panicked" /\ UNCHANGED <<data, cmdline>>
           ELSE /\ data' = [src |-> kernel, len |-> kerLen]
                /\ cmdline' = parts[2]
                /\ pc' = "Root"
    /\ UNCHANGED <<stub, cfg, kernel, image, nullWrites>>

\* main up to executeKernel: parts := bytes.SplitN(cfg, "\n", 3),
\* kerLen, _ := strconv.Atoi(string(parts[0])), kerData :=
\* unsafe.Slice(0x30000000, kerLen), then executeKernel(path, kerData,
\* string(parts[1])).
ParseConfig ==
    /\ pc = "Parse"
    /\ LET parts  == SplitN(cfg, "NL", 3)
           kerLen == Atoi(parts[1])
       IN  IF ConfigPanics(parts, kerLen) \/ PrintPanics(kerLen)
           THEN pc' = "Panicked" /\ UNCHANGED <<data, cmdline>>
           ELSE /\ data' = [src |-> kernel, len |-> kerLen]
                /\ cmdline' = parts[2]
                /\ pc' = "Root"
    /\ UNCHANGED <<stub, cfg, kernel, image, nullWrites>>

\* executeKernel: root, err := x64.UEFI.Root(); an error returns to main,
\* which calls os.Exit(1).  kerData is never nil (unsafe.Slice of a
\* non-nil pointer), so the loadAndVerify / load branch is not taken.
ExecRoot ==
    /\ pc = "Root"
    /\ \/ pc' = "LoadImage"
       \/ Fails("root") /\ pc' = "OsExit"
    /\ UNCHANGED <<stub, cfg, kernel, data, cmdline, image, nullWrites>>

\* LoadImageMem(0, root, path, data): an error of root.FilePath returns
\* before the buffer is touched; then ptrval(&buf[0]) panics on an empty
\* buffer (the bounds check is unsigned: only length 0 fails it); then the firmware loads the bytes or fails.  Either error
\* (the "loadImage" fault) returns to main, which calls os.Exit(1).  The
\* new image has opts <<>> until it is patched (an encoding holds at least
\* the NUL).
LoadImageMem ==
    /\ pc = "LoadImage"
    /\ \/ Fails("loadImage") /\ pc' = "OsExit" /\ UNCHANGED image
       \/ data.len = 0 /\ pc' = "Panicked" /\ UNCHANGED image
       \/ /\ data.len # 0
          /\ image' = [bytes |-> data, state |-> "loaded",
                       optsSize |-> 0, opts |-> <<>>]
          /\ pc' = "Patch"
    /\ UNCHANGED <<stub, cfg, kernel, data, cmdline, nullWrites>>

\* LoadImageHandle(h) with its error dropped, stringToUTF16Ptr(cmdline),
\* and the writes at rawMemoryAddress + 48 and + 56.
PatchCmdline ==
    /\ pc = "Patch"
    /\ pc' = "Start"
    /\ \/ /\ image' = [image EXCEPT !.optsSize = Len(cmdline) * 2,
                                    !.opts = StringToUTF16(cmdline)]
          /\ UNCHANGED nullWrites
       \/ Fails("imageHandle") /\ nullWrites' = TRUE /\ UNCHANGED image
    /\ UNCHANGED <<stub, cfg, kernel, data, cmdline>>

\* StartImage(h): the kernel keeps control, or the image returns
\* (main goes on to Exit), or the firmware refuses (os.Exit(1)).
StartImage ==
    /\ pc = "Start"
    /\ \/ /\ image' = [image EXCEPT !.state = "started"]
          /\ pc' \in {"Running", "Exit"}
       \/ Fails("start") /\ pc' = "OsExit" /\ UNCHANGED image
    /\ UNCHANGED <<stub, cfg, kernel, data, cmdline, nullWrites>>

\* x64.UEFI.Boot.Exit(0); ResetSystem(EfiResetShutdown) when it fails
\* (ResetSystem does not return, so efiload's second Exit is not reached).
BootExit ==
    /\ pc = "Exit"
    /\ \/ pc' = "Exited"
       \/ Fails("exit") /\ pc' = "Reset"
    /\ UNCHANGED <<stub, cfg, kernel, data, cmdline, image, nullWrites>>

Next ==
    \/ ParseConfig
    \/ ExecRoot
    \/ LoadImageMem
    \/ PatchCmdline
    \/ StartImage
    \/ BootExit

Spec == Init /\ [][Next]_vars

-----------------------------------------------------------------------------
(* Reference reading of the configuration block *)

NLs(c) == {i \in 1..Len(c) : c[i] = "NL"}

\* The bytes before the first newline.
FirstLine(c) ==
    IF NLs(c) = {} THEN c ELSE SubSeq(c, 1, Min(NLs(c)) - 1)

\* A length field: one or more decimal digits.
IsDecimal(l) == l # <<>> /\ \A i \in 1..Len(l) : IsDigit(l[i])

DecimalValue(l) ==
    FoldFunction(+, 0, [i \in 1..Len(l) |-> DigitVal[l[i]] * 10^(Len(l) - i)])

-----------------------------------------------------------------------------
(* Properties *)

\* A kernel image is only ever loaded from a length field that is a
\* decimal number, and holds exactly that many bytes of kernel memory:
\* the dropped Atoi error never turns into a load of a guessed length.
LoadedKernelHasConfiguredLength ==
    image # NoImage =>
        /\ IsDecimal(FirstLine(cfg))
        /\ image.bytes.len = DecimalValue(FirstLine(cfg))

\* (spec 4.4 step 3, 8) No kernel the trust anchor rejects, and no slice
\* of memory other than the whole kernel, is ever started.
OnlyTrustedKernelStarted ==
    image.state = "started" =>
        image.bytes.src \in Trusted /\ image.bytes.len = KernelSize

\* (spec 7) A malformed configuration block is a failed boot attempt that
\* reports its reason; the stub does not crash.
MalformedConfigIsReported == pc # "Panicked"

-----------------------------------------------------------------------------
(* Refinement *)

\* The stub's control point seen as a boot attempt: main parsing the block
\* has not begun one; os.Exit(1) and the return from StartImage hand
\* control back to the firmware's boot manager, the stub's shell.
StubPhase ==
    CASE pc = "Parse"                                -> "Shell"
      [] pc \in {"Root", "LoadImage", "Patch", "Start"} -> "Attempt"
      [] pc \in {"Exit", "OsExit"}                    -> "Shell"
      [] pc = "Running"                              -> "Booted"
      [] pc \in {"Exited", "Reset"}                  -> "Exited"
      [] pc = "Panicked"                             -> "Panicked"

\* The command lines a configuration block can carry.
CmdLines ==
    {SplitN(c, "NL", 3)[2] : c \in {c \in Configs : Len(SplitN(c, "NL", 3)) >= 2}}

\* kerData as VerifiedBoot sees bytes: the kernel whole, or a slice of
\* memory of another length.
KernelBytes(d) ==
    [src |-> d.src, part |-> IF d.len = KernelSize THEN "whole" ELSE "prefix"]

\* The in-memory kernel counts as read once root is open and until the
\* attempt fails.
StubKernel ==
    IF pc \in {"LoadImage", "Patch", "Start", "Exit", "Running", "Exited", "Reset"}
    THEN KernelBytes(data) ELSE [src |-> "absent", part |-> "none"]

StubImages ==
    IF image = NoImage THEN <<>>
    ELSE <<[bytes |-> KernelBytes(image.bytes), state |-> image.state,
            optsSize |-> image.optsSize,
            opts |-> IF image.opts = <<>> THEN "unset" ELSE image.opts,
            live |-> TRUE]>>

SVB == INSTANCE VerifiedBoot
         WITH KernelContents <- KernelContents, Trusted <- Trusted,
              CmdFileTexts <- {}, Args <- CmdLines, DefaultCmdLine <- <<>>,
              MaxAttempts <- 1, Absent <- "absent",
              phase <- StubPhase, attempt <- IF pc = "Parse" THEN 0 ELSE 1,
              disk <- [kernel |-> kernel, cmdline |-> "absent"],
              cmd <- cmdline, kernel <- StubKernel, images <- StubImages,
              held <- 0

\* (spec 3, 4.4, 7, 8) Each stub is one attempt of the verified boot flow
\* with the kernel already in memory and the command line of the
\* configuration block as the override: the kernel is the whole image the
\* trust anchor accepts, the record gets the encoded command line and its
\* length before StartImage, a failure returns to the caller with no image
\* left loaded, and a malformed block is a failure, not a crash.
StubImplementsVerifiedBoot == SVB!Spec

=============================================================================
