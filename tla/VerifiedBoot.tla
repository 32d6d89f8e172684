------------------------------ MODULE VerifiedBoot ------------------------------
(***************************************************************************)
(* The verified boot flow as spec.md 4.4, 6 and 7 state it, seen from the  *)
(* shell that runs it: an attempt opens the volume, reads the kernel whole *)
(* and has it accepted by the trust anchor, resolves the command line      *)
(* (the override, else the cmdline file verbatim, else the compiled-in     *)
(* default when the file is absent or unreadable), loads an image from the *)
(* verified bytes, writes the encoded command line and its length into the *)
(* loaded-image record and starts the image.  Any step may fail; a failed  *)
(* attempt returns to the shell holding nothing: no file left open and no  *)
(* image left loaded.  The encoded command line stays allocated until the  *)
(* image has been started.  The volume may change at any time.            *)
(* Not a translation of code: RecoveryBoot is checked against it          *)
(* (RecoveryImplementsVerifiedBoot).                                       *)
(***************************************************************************)
EXTENDS Naturals, Sequences, TLC, Utf16

CONSTANTS KernelContents, Trusted, CmdFileTexts, Args, DefaultCmdLine,
          MaxAttempts, Absent

VARIABLES
    phase,    \* "Shell" | "Attempt" | "Booted" | "Exited"
    attempt,  \* number of attempts begun
    disk,     \* [kernel, cmdline] on the root volume
    cmd,      \* the attempt's command line: the override, or <<>> until resolved
    kernel,   \* the verified kernel bytes in memory, or NoKernel
    images,   \* attempt -> [bytes, state, optsSize, opts, live]
    held      \* firmware file handles the attempt holds

NoKernel == [src |-> Absent, part |-> "none"]

Files == [kernel : KernelContents \cup {Absent},
          cmdline : CmdFileTexts \cup {Absent}]

\* Command lines the flow may resolve when no override was given.
Resolutions(c) == IF c = Absent THEN {DefaultCmdLine} ELSE {c, DefaultCmdLine}

\* Returning to the shell: nothing open, no image loaded and not started.
Released == held' = 0 /\ \A i \in DOMAIN images' : images'[i].state # "loaded"

Init ==
    /\ phase = "Shell" /\ attempt = 0 /\ disk \in Files /\ cmd = <<>>
    /\ kernel = NoKernel /\ images = <<>> /\ held = 0

Begin(a) ==
    /\ phase = "Shell" /\ attempt < MaxAttempts
    /\ phase' = "Attempt" /\ attempt' = attempt + 1
    /\ cmd' = a /\ kernel' = NoKernel
    /\ UNCHANGED <<disk, images, held>>

\* Steps 1-3: the kernel read whole and accepted by the trust anchor.
Verify ==
    /\ phase = "Attempt" /\ kernel = NoKernel
    /\ disk.kernel \in Trusted
    /\ kernel' = [src |-> disk.kernel, part |-> "whole"]
    /\ held' \in Nat
    /\ UNCHANGED <<phase, attempt, disk, cmd, images>>

\* Step 4 without an override.
Resolve ==
    /\ phase = "Attempt" /\ cmd = <<>>
    /\ cmd' \in Resolutions(disk.cmdline)
    /\ held' \in Nat
    /\ UNCHANGED <<phase, attempt, disk, kernel, images>>

\* Step 5: an image from the verified in-memory bytes.
Load ==
    /\ phase = "Attempt" /\ kernel # NoKernel /\ cmd # <<>>
    /\ attempt \notin DOMAIN images
    /\ images' = images @@ (attempt :> [bytes |-> kernel, state |-> "loaded",
                                        optsSize |-> 0, opts |-> "unset",
                                        live |-> TRUE])
    /\ UNCHANGED <<phase, attempt, disk, cmd, kernel, held>>

\* Step 5: the loaded-image record gets the encoded command line and its
\* length in bytes, the terminator excluded.
Patch ==
    /\ phase = "Attempt" /\ attempt \in DOMAIN images
    /\ images[attempt].opts = "unset"
    /\ LET enc == StringToUTF16(cmd) IN
         images' = [images EXCEPT ![attempt].opts = enc,
                                  ![attempt].optsSize = 2 * (Len(enc) - 1)]
    /\ UNCHANGED <<phase, attempt, disk, cmd, kernel, held>>

\* Step 6: the image runs; it keeps control or returns to the shell.
Start ==
    /\ phase = "Attempt" /\ attempt \in DOMAIN images
    /\ images[attempt].opts # "unset" /\ images[attempt].live
    /\ images' = [images EXCEPT ![attempt].state = "started"]
    /\ \/ phase' = "Booted" /\ UNCHANGED held
       \/ phase' = "Shell" /\ Released
    /\ UNCHANGED <<attempt, disk, cmd, kernel>>

\* Failed(reason): back to the shell with everything released; an image
\* loaded in this attempt is unloaded, and the kernel bytes may be
\* discarded (spec 3: a payload is not retained).
Fail ==
    /\ phase = "Attempt"
    /\ phase' = "Shell"
    /\ images' \in {images, [images EXCEPT ![attempt].state = "unloaded"]}
    /\ kernel' \in {kernel, NoKernel}
    /\ Released
    /\ UNCHANGED <<attempt, disk, cmd>>

\* Once an image has been started its command line may be freed.
FreeOptions(i) ==
    /\ i \in DOMAIN images /\ images[i].state = "started"
    /\ images' = [images EXCEPT ![i].live = FALSE]
    /\ UNCHANGED <<phase, attempt, disk, cmd, kernel, held>>

Exit ==
    /\ phase = "Shell" /\ phase' = "Exited"
    /\ UNCHANGED <<attempt, disk, cmd, kernel, images, held>>

VolumeChange ==
    /\ phase \in {"Shell", "Attempt"}
    /\ disk' \in Files
    /\ UNCHANGED <<phase, attempt, cmd, kernel, images, held>>

Next ==
    \/ \E a \in Args : Begin(a)
    \/ Verify \/ Resolve \/ Load \/ Patch \/ Start \/ Fail \/ Exit
    \/ \E i \in DOMAIN images : FreeOptions(i)
    \/ VolumeChange

Spec == Init /\ [][Next]_<<phase, attempt, disk, cmd, kernel, images, held>>

=============================================================================
