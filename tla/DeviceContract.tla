---------------------------- MODULE DeviceContract ----------------------------
(***************************************************************************)
(* What the typed wrappers promise their caller (spec 4.3, and the         *)
(* propagation policy of spec 5: no firmware status is swallowed, each is  *)
(* classified and returned), for the three operations a caller runs on an  *)
(* interface the locator handed out:                                       *)
(*   - graphics Init leaves the display in a mode and returns that mode's  *)
(*     information, or reports that it could not;                          *)
(*   - GetKey waits for a key and returns the next one typed, or reports   *)
(*     that the read failed, the key still pending;                        *)
(*   - a disk read or write runs only on a medium that is present, a write *)
(*     only on one that is writable; otherwise the wrapper refuses it      *)
(*     without calling the firmware.  Its answer is n = len and no error   *)
(*     exactly when the firmware transferred the buffer.                   *)
(* The firmware changes the medium and the user types at any time.         *)
(* Not a translation of code: DeviceWrappers is checked against it         *)
(* (WrappersImplementDeviceContract).                                      *)
(***************************************************************************)
EXTENDS Integers, Sequences

CONSTANTS Handles, ModeTable, Keys

Modes == 0..Len(ModeTable) - 1
MediaStates == [present : BOOLEAN, readOnly : BOOLEAN]

\* The firmware statuses a disk call can answer.
DiskStatuses == {"SUCCESS", "DEVICE_ERROR", "NO_MEDIA", "WRITE_PROTECTED"}

VARIABLES
    phase,    \* "idle" | "gop" (Init runs) | "key" (GetKey runs)
    display,  \* the display's current mode
    shown,    \* the information Init returned last, "error", or "none"
    pending,  \* keys typed and not yet read
    key,      \* what GetKey returned last: a key, "error" or "none"
    media,    \* handle -> [present, readOnly]
    disk      \* [h, op, len, n, err, fw] of the last disk operation

cvars == <<phase, display, shown, pending, key, media, disk>>

Init ==
    /\ phase = "idle" /\ display = 0 /\ shown = "none"
    /\ pending = <<>> /\ key = "none"
    /\ media = [h \in Handles |-> [present |-> TRUE, readOnly |-> FALSE]]
    /\ disk = [h |-> 0, op |-> "none", len |-> 0, n |-> 0, err |-> "nil", fw |-> "none"]

Open(p) ==
    /\ phase = "idle" /\ phase' = p
    /\ UNCHANGED <<display, shown, pending, key, media, disk>>

\* Init answers: the display is in mode m and its information is returned,
\* or an error is returned.
GopAnswer ==
    /\ phase = "gop" /\ phase' = "idle"
    /\ \/ \E m \in Modes : display' = m /\ shown' = ModeTable[m + 1]
       \/ shown' = "error" /\ display' \in Modes
    /\ UNCHANGED <<pending, key, media, disk>>

\* GetKey answers once a key is pending: the oldest key is consumed and
\* returned, or the read fails and leaves it pending.
KeyAnswer ==
    /\ phase = "key" /\ pending # <<>> /\ phase' = "idle"
    /\ \/ key' = Head(pending) /\ pending' = Tail(pending)
       \/ key' = "error" /\ UNCHANGED pending
    /\ UNCHANGED <<display, shown, media, disk>>

\* Whether the wrapper may call the firmware for op on medium m.
Allowed(op, m) ==
    /\ op \in {"read", "write"} => m.present
    /\ op = "write" => ~m.readOnly

\* A disk operation of len bytes at offset off, answered in one call: a
\* refusal with no firmware call, an empty transfer that succeeds with no
\* firmware call, or the firmware's answer, reported as it is.
DiskAnswer(h, op, len, off) ==
    /\ phase = "idle"
    /\ \/ /\ ~Allowed(op, media[h]) \/ (op # "flush" /\ off < 0)
          /\ \E e \in {"ErrNoMediaPresent", "ErrReadOnly", "ErrNegativeOffset"} :
                disk' = [h |-> h, op |-> op, len |-> len, n |-> 0, err |-> e, fw |-> "none"]
       \/ /\ op # "flush" /\ off >= 0 /\ len = 0
          /\ disk' = [h |-> h, op |-> op, len |-> len, n |-> 0, err |-> "nil", fw |-> "none"]
       \/ /\ Allowed(op, media[h]) /\ (op = "flush" \/ (off >= 0 /\ len > 0))
          /\ \E fw \in DiskStatuses :
                disk' = [h |-> h, op |-> op, len |-> len,
                         n |-> IF fw = "SUCCESS" /\ op # "flush" THEN len ELSE 0,
                         err |-> IF fw = "SUCCESS" THEN "nil" ELSE fw, fw |-> fw]
    /\ UNCHANGED <<phase, display, shown, pending, key, media>>

Type(k) ==
    /\ pending' = Append(pending, k)
    /\ UNCHANGED <<phase, display, shown, key, media, disk>>

MediaChange ==
    /\ media' \in [Handles -> MediaStates]
    /\ UNCHANGED <<phase, display, shown, pending, key, disk>>

Next ==
    \/ \E p \in {"gop", "key"} : Open(p)
    \/ GopAnswer \/ KeyAnswer
    \/ \E h \in Handles, op \in {"read", "write", "flush"}, len \in {0, 1},
          off \in {-1, 0} : DiskAnswer(h, op, len, off)
    \/ \E k \in Keys : Type(k)
    \/ MediaChange

Spec == Init /\ [][Next]_cvars

=============================================================================
