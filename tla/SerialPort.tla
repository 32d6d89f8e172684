------------------------------ MODULE SerialPort ------------------------------
(***************************************************************************)
(* SerialPort of goefi/pkg/uefi/serial_io_protocol.go: Init, Read, Write   *)
(* and UseFlowControl on one port, driven by one goroutine, against the    *)
(* firmware's Serial I/O driver and a peer on the other end of the line.   *)
(*                                                                         *)
(* The UART's control register holds the host-driven bits ("DTR", "RTS")   *)
(* and the settings the host may have enabled ("HWFC", hardware flow       *)
(* control, and "LOOP", loopback); the peer drives CTS.  The firmware's    *)
(* Read transfers up to *bufSize bytes from the receive FIFO: EFI_SUCCESS  *)
(* when the buffer was filled, EFI_TIMEOUT with *bufSize set to the bytes  *)
(* it did transfer when the line went quiet first (UEFI 2.10 12.8.3.6).    *)
(* Reset empties the receive FIFO, as the driver's Reset does (EDK2       *)
(* SerialReset).  sent and got are history since the last successful       *)
(* Reset: the bytes the peer sent, and the bytes Read handed to its        *)
(* caller.                                                                 *)
(***************************************************************************)
EXTENDS Naturals, Sequences, SequencesExt

CONSTANTS
    Data,      \* byte values the peer sends
    BufLens,   \* len(buf) of the caller's Read buffers
    MaxSent,   \* bound on the bytes the peer sends
    MaxOps,    \* bound on the Read / Write / Init calls issued
    Faults     \* subset of {"reset", "attributes", "write", "broken"}

ASSUME BufLens \subseteq 0..3
ASSUME Faults \subseteq {"reset", "attributes", "write", "broken"}

HostBits == {"DTR", "RTS"}
Settings == {"HWFC", "LOOP"}

VARIABLES
    ctl,          \* the control register: host bits and settings
    cts,          \* CTS, driven by the peer
    fifo,         \* the receive FIFO
    sent,         \* history: bytes the peer sent since the last Reset
    got,          \* history: bytes Read returned since the last Reset
    tx,           \* bytes the firmware put on the line
    flowControl,  \* sp.flowControl
    broken,       \* the device reports EFI_DEVICE_ERROR on every Read
    pc,           \* control point of the call in progress
    ret,          \* where Write returns to: "Idle" or Init's "SetAttributes"
    controlBits,  \* the local controlBits of Read / Write
    size,         \* len(buf) of the Read in progress
    bufLen,       \* the UINTN bufLen passed to and set by the firmware
    ops           \* calls issued

vars == <<ctl, cts, fifo, sent, got, tx, flowControl, broken, pc, ret,
          controlBits, size, bufLen, ops>>

Pcs == {"Idle", "Reset", "SetAttributes", "Panicked",
        "ReadGetControl", "ReadSetControl", "ReadFirmware", "ReadDeassert",
        "WriteGetControl", "WriteFirmware"}

Reading == {"ReadGetControl", "ReadSetControl", "ReadFirmware", "ReadDeassert"}

Fails(call) == call \in Faults

\* Type invariant.
TypeOK ==
    /\ ctl \subseteq HostBits \cup Settings
    /\ cts \in BOOLEAN
    /\ fifo \in Seq(Data) /\ sent \in Seq(Data) /\ got \in Seq(Data)
    /\ tx \in Seq(Data \cup {"nul"})
    /\ flowControl \in BOOLEAN
    /\ broken \in BOOLEAN
    /\ pc \in Pcs /\ ret \in {"Idle", "SetAttributes"}
    /\ controlBits \subseteq HostBits \cup Settings \cup {"CTS"}
    /\ size \in 0..3 /\ bufLen \in 0..3
    /\ ops \in 0..MaxOps

Init ==
    /\ ctl \in SUBSET (HostBits \cup Settings)
    /\ cts \in BOOLEAN
    /\ fifo = <<>> /\ sent = <<>> /\ got = <<>> /\ tx = <<>>
    /\ flowControl = FALSE
    /\ broken \in IF Fails("broken") THEN BOOLEAN ELSE {FALSE}
    /\ pc = "Idle" /\ ret = "Idle"
    /\ controlBits = {}
    /\ size = 0 /\ bufLen = 0
    /\ ops = 0

\* GetControl(&controlBits): the register and the CTS line.
ControlRegister == ctl \cup (IF cts THEN {"CTS"} ELSE {})

\* SetControl(c): the driver takes the writable bits of c; CTS is an input.
SetControl(c) == ctl' = c \cap (HostBits \cup Settings)

-----------------------------------------------------------------------------
(* The peer *)

\* The peer sends a byte; with hardware flow control it waits for RTS.
PeerSend(b) ==
    /\ Len(sent) < MaxSent
    /\ "HWFC" \in ctl => "RTS" \in ctl
    /\ sent' = Append(sent, b)
    /\ fifo' = Append(fifo, b)
    /\ UNCHANGED <<ctl, cts, got, tx, flowControl, broken, pc, ret,
                   controlBits, size, bufLen, ops>>

\* The peer raises or drops CTS.
PeerCts ==
    /\ cts' = ~cts
    /\ UNCHANGED <<ctl, fifo, sent, got, tx, flowControl, broken, pc, ret,
                   controlBits, size, bufLen, ops>>

-----------------------------------------------------------------------------
(* The caller's calls *)

Start(p) ==
    /\ pc = "Idle" /\ ops < MaxOps
    /\ ops' = ops + 1
    /\ pc' = p

\* sp.UseFlowControl(fc)
UseFlowControl(fc) ==
    /\ pc = "Idle"
    /\ flowControl' = fc
    /\ UNCHANGED <<ctl, cts, fifo, sent, got, tx, broken, pc, ret,
                   controlBits, size, bufLen, ops>>

\* sp.Init()
CallInit ==
    /\ Start("Reset")
    /\ UNCHANGED <<ctl, cts, fifo, sent, got, tx, flowControl, broken, ret,
                   controlBits, size, bufLen>>

\* status := sp.Reset(): the driver empties its receive FIFO; an error is
\* returned.  Then the one-byte sp.Write([]byte{0}) whose result Init
\* ignores.
InitReset ==
    /\ pc = "Reset"
    /\ \/ /\ pc' = "WriteGetControl" /\ ret' = "SetAttributes"
          /\ fifo' = <<>> /\ sent' = <<>> /\ got' = <<>>
       \/ /\ Fails("reset") /\ pc' = "Idle"
          /\ UNCHANGED <<ret, fifo, sent, got>>
    /\ UNCHANGED <<ctl, cts, tx, flowControl, broken, controlBits, size,
                   bufLen, ops>>

\* sp.SetAttributes(115200, 0, 1, ParityNone, 8, StopBits1): a one
\* microsecond timeout; an error is returned.
InitSetAttributes ==
    /\ pc = "SetAttributes"
    /\ pc' = "Idle" /\ ret' = "Idle"
    /\ UNCHANGED <<ctl, cts, fifo, sent, got, tx, flowControl, broken,
                   controlBits, size, bufLen, ops>>

\* sp.Read(buf) with len(buf) = n; the firmware Read's &buf[0] panics on
\* an empty buffer.
CallRead(n) ==
    /\ Start(IF n = 0 THEN "Panicked" ELSE "ReadGetControl")
    /\ size' = n /\ bufLen' = n
    /\ UNCHANGED <<ctl, cts, fifo, sent, got, tx, flowControl, broken, ret,
                   controlBits>>

\* A loop with bufLen := UINTN(len(buf)) hoisted above it: the firmware's
\* count of one iteration is the size passed in the next.
ReadGetControlHoisted ==
    /\ pc = "ReadGetControl"
    /\ controlBits' = ControlRegister
    /\ pc' = "ReadSetControl"
    /\ UNCHANGED <<ctl, cts, fifo, sent, got, tx, flowControl, broken, ret,
                   size, bufLen, ops>>

\* sp.GetControl(&controlBits); bufLen := UINTN(len(buf)) at the top of
\* the loop.
ReadGetControl ==
    /\ pc = "ReadGetControl"
    /\ controlBits' = ControlRegister
    /\ bufLen' = size
    /\ pc' = "ReadSetControl"
    /\ UNCHANGED <<ctl, cts, fifo, sent, got, tx, flowControl, broken, ret,
                   size, ops>>

\* A loop that sets RTS and DTR on their own, not OR-ed into controlBits.
ReadSetControlBare ==
    /\ pc = "ReadSetControl"
    /\ SetControl(HostBits)
    /\ pc' = "ReadFirmware"
    /\ UNCHANGED <<cts, fifo, sent, got, tx, flowControl, broken, ret,
                   controlBits, size, bufLen, ops>>

\* sp.SetControl(controlBits | RTS | DTR)
ReadSetControl ==
    /\ pc = "ReadSetControl"
    /\ SetControl(controlBits \cup HostBits)
    /\ pc' = "ReadFirmware"
    /\ UNCHANGED <<cts, fifo, sent, got, tx, flowControl, broken, ret,
                   controlBits, size, bufLen, ops>>

\* The outcome of the firmware Read(&bufLen, &buf[0]): the status and
\* the bytes transferred out of the FIFO.
FirmwareRead ==
    LET n == IF broken THEN 0 ELSE Min({bufLen, Len(fifo)})
    IN  [n |-> n,
         status |-> IF broken THEN "DEVICE_ERROR"
                    ELSE IF n = bufLen THEN "SUCCESS" ELSE "TIMEOUT"]

\* status := Read(&bufLen, &buf[0]); if bufLen == 0 the status becomes
\* EFI_TIMEOUT; EFI_SUCCESS returns (bufLen, nil), EFI_TIMEOUT and
\* EFI_NO_RESPONSE go round the loop again, any other status is returned.
\* The bytes the firmware transferred are in buf whatever the status.
ReadFirmware ==
    /\ pc = "ReadFirmware"
    /\ LET r      == FirmwareRead
           status == IF r.n = 0 THEN "TIMEOUT" ELSE r.status
       IN  /\ fifo' = SubSeq(fifo, r.n + 1, Len(fifo))
           /\ bufLen' = r.n
           /\ CASE status = "SUCCESS" -> got' = got \o SubSeq(fifo, 1, r.n) /\ pc' = "Idle"
                [] status = "TIMEOUT" -> pc' = "ReadDeassert" /\ UNCHANGED got
                [] OTHER              -> pc' = "Idle" /\ UNCHANGED got
    /\ UNCHANGED <<ctl, cts, sent, tx, flowControl, broken, ret, controlBits,
                   size, ops>>

\* sp.SetControl(controlBits &^ RTS), then continue.
ReadDeassert ==
    /\ pc = "ReadDeassert"
    /\ SetControl(controlBits \ {"RTS"})
    /\ pc' = "ReadGetControl"
    /\ UNCHANGED <<cts, fifo, sent, got, tx, flowControl, broken, ret,
                   controlBits, size, bufLen, ops>>

\* sp.Write(buf) of one byte b.
CallWrite ==
    /\ Start("WriteGetControl")
    /\ UNCHANGED <<ctl, cts, fifo, sent, got, tx, flowControl, broken, ret,
                   controlBits, size, bufLen>>

\* sp.GetControl(&controlBits); with flow control and CTS clear, Write
\* returns (0, nil).
WriteGetControl ==
    /\ pc = "WriteGetControl"
    /\ controlBits' = ControlRegister
    /\ pc' = IF flowControl /\ "CTS" \notin ControlRegister THEN ret
             ELSE "WriteFirmware"
    /\ ret' = IF pc' = ret THEN "Idle" ELSE ret
    /\ UNCHANGED <<ctl, cts, fifo, sent, got, tx, flowControl, broken,
                   size, bufLen, ops>>

\* Write(&bufLen, &buf[0]) of the byte; an error is returned with bufLen.
WriteFirmware ==
    /\ pc = "WriteFirmware"
    /\ \/ tx' = Append(tx, IF ret = "Idle" THEN CHOOSE d \in Data : TRUE ELSE "nul")
       \/ Fails("write") /\ UNCHANGED tx
    /\ pc' = ret /\ ret' = "Idle"
    /\ UNCHANGED <<ctl, cts, fifo, sent, got, flowControl, broken,
                   controlBits, size, bufLen, ops>>

Next ==
    \/ \E b \in Data : PeerSend(b)
    \/ PeerCts
    \/ \E fc \in BOOLEAN : UseFlowControl(fc)
    \/ CallInit \/ InitReset \/ InitSetAttributes
    \/ \E n \in BufLens : CallRead(n)
    \/ ReadGetControl \/ ReadSetControl \/ ReadFirmware \/ ReadDeassert
    \/ CallWrite \/ WriteGetControl \/ WriteFirmware

\* The port's goroutine keeps running its call: weak fairness on the
\* host's steps.  The peer and the caller need not act.
HostStep ==
    \/ InitReset \/ InitSetAttributes
    \/ ReadGetControl \/ ReadSetControl \/ ReadFirmware \/ ReadDeassert
    \/ WriteGetControl \/ WriteFirmware

Spec == Init /\ [][Next]_vars /\ WF_vars(HostStep)

-----------------------------------------------------------------------------
(* Properties *)

\* No received byte is lost between two Resets: what Read handed to its
\* callers, followed by what is still in the FIFO, is exactly what the
\* peer sent, in order.
NoByteLost == got \o fifo = sent

\* Read and Write leave the port's settings (hardware flow control,
\* loopback) as they found them: the control bits written back are the
\* ones read, with only RTS and DTR changed.
SettingsPreserved == [][ctl' \cap Settings = ctl \cap Settings]_vars

\* A Read on a working port whose data has arrived returns it.
ReadReturnsArrivedData ==
    [](pc \in Reading /\ Len(fifo) >= size => <>(pc \notin Reading))

\* (spec 4.2) A Read on a port whose device has failed returns the
\* device's error to its caller instead of polling forever.
ReadReportsDeviceError == [](broken /\ pc \in Reading => <>(pc \notin Reading))

=============================================================================
