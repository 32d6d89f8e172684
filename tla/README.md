# TLA+ models of uki-stub

This directory holds TLA+ models of the Go UEFI boot stub in `src/`. TLC checks them.
Each module is translated from the source. `PROJECT.json` maps every definition
to the lines it models, and lists the runs, the mutants, the findings and the
hazards.

## 1. The system

The repository builds PE/COFF EFI applications with TinyGo. They run on the
firmware before the OS. Its parts:

| Part | Source | State | Operations |
|---|---|---|---|
| Call bridge | `goefi/pkg/uefi/call.go` (+ `uefi.s`, not in the tree) | one global `sync.Mutex` (`mux`) | `callService`, `UefiCall0..10`. `UefiCall3` goes through `callService`. `UefiCall5` calls `callFn` directly. `ptrval` converts arguments. |
| Status domain | `goefi/pkg/uefi/efistatus.go` | `errMap` (status → error), which grows | `StatusError`, `newError` |
| Recovery boot flow | `cmd/recovery/main.go`, `pkg/ueficore/image.go` | the shell, the volume's files, the loaded images | the `recovery` shell command, `executeKernel`, `loadAndVerify`, `LoadImageMem`, `LoadImageHandle` + command-line patch, `StartImage`, `Exit`/`ResetSystem` |
| efiload stub | `goefi/cmd/efiload/main.go` | a config and a kernel at fixed memory addresses, UEFI variables | `main`, `executeKernel`, `vars`, `getkey` |
| efi-verify stub | `goefi/cmd/efi-verify/main.go` | as efiload | `main`, `load`, `executeKernel` |
| Protocol enumeration | `pkg/uefi/{simple_file_system,media_io,simple_network,dhcpv4}_protocol.go`, `goefi/pkg/uefi/serial_io_protocol.go` | the firmware handle database | `Enumerate*`, `LocateProtocol` wrappers |
| Disk wrapper | `pkg/uefi/media_io_protocol.go` | firmware-owned `Media` | `ReadAt`, `WriteAt`, `Flush` |
| Serial port | `goefi/pkg/uefi/serial_io_protocol.go` | control bits, timeouts | `Init`, `Read`, `Write` |
| Text input and event wait | `pkg/uefi/simple_text_in.go`, `pkg/uefi/runtime.go` | key events | `WaitForEvent`, `GetKey` |
| Graphics output | `goefi/pkg/uefi/graphics_output_protocol.go` | the mode table | `Init` (mode selection) |
| Reset / runtime | `pkg/ueficore/reset.go`, `goefi/pkg/ueficore/reset.go` | none | `ResetSystem` (the terminal `Reset` step of `RecoveryBoot`'s `ShellExit` and `StubBoot`'s `BootExit`) |
| Early console | `goefi/pkg/ueficore/x64/console.go` | none | `printk` |

**How the parts interact.** Every firmware service, in every wrapper, is a
`UefiCallN` through the call bridge. The boot flows (recovery, efiload,
efi-verify) all do the same thing:

1. Obtain the kernel bytes: from the volume, or from memory.
2. Hand the bytes to `LoadImage` with `SourceBuffer`.
3. Find the `EFI_LOADED_IMAGE_PROTOCOL` record of the new image.
4. Write `LoadOptionsSize` (offset 48) and `LoadOptions` (offset 56). `LoadOptions` points at the UTF-16 encoding of the command line.
5. Call `StartImage`.

**Hard behaviours.**

- Goroutines race on the bridge.
- Firmware calls fail at each step. Several call sites ignore or swallow the failure.
- The volume can change between reading the kernel and using it.
- The shell repeats the command, so state could carry over from one attempt to the next.
- UTF-8 and UTF-16 lengths differ.
- Raw pointer writes go into firmware memory.

**What each part must guarantee (spec.md, and the code's own intent).**

- Bridge: firmware calls are serialized, and every call returns and releases the lock.
- Recovery flow:
  - only a verified kernel is started;
  - a failed kernel read is fatal;
  - the image started is the buffer that was read;
  - it gets the command line of its own attempt: the argument, else the file, else the default;
  - `LoadOptionsSize` is the encoded length;
  - the writes land only in the loaded-image record.
- Enumeration: "none found" is an empty list, not an error. Handle buffers and children are released.
- Disk: writes need media present and writable. Reads need media present.
- Serial: `Read` returns data, a timeout, or the device error, and never loops forever.
- Variable enumeration: every variable is listed exactly once, and the loop ends.

## 2. Modules

| Module | Models | Source |
|---|---|---|
| `Utf16` | `stringToUTF16Ptr` as a pure operator: `utf16.Encode([]rune(s))` plus the NUL. Bytes are abstracted to classes (ASCII, 2/3/4-byte lead, continuation). Malformed sequences decode to U+FFFD, as Go does. 4-byte sequences become surrogate pairs. | `cmd/recovery/main.go:37-41` |
| `RecoveryBoot` | The `recovery` command's whole flow. There is one action per firmware step, and each action has the outcomes the firmware may return. `DiskChange` models another writer on the volume. `hist` is a history variable: what each attempt was given and read. | `cmd/recovery/main.go`, `pkg/ueficore/image.go` |
| `CallBridge` | `callService`'s mutex with goroutines as `Callers`. A call is one of four steps: `Call`, `Lock`, `Return` (callFn returns), `Unlock` (the deferred Unlock). `Entries` says which entry points are used. | `goefi/pkg/uefi/call.go` |
| `VerifiedBoot` | The verified boot flow as spec 4.4, 6 and 7 state it, seen from the shell: begin an attempt, read the kernel whole and have the trust anchor accept it, resolve the command line (override, else the file verbatim, else the default), load from the verified bytes, patch the encoded command line and its length, start. A failed attempt returns to the shell holding no file and no loaded image. The options stay allocated until the image is started. Not a translation of code: the specification `RecoveryBoot` and `StubBoot` are checked against. | spec.md 4.4, 6, 7 |
| `VariableEnum` | `vars()` and `getkey()` of efiload against a firmware store holding its variables in an order of its own. The name buffer is abstracted to the name it holds and its length in CHAR16. | `goefi/cmd/efiload/main.go:24-103` |
| `GoStrings` | `bytes.SplitN` (recursive, after `genSplit`) and `strconv.Atoi` as operators. Bytes are model strings, with the digits `d0..d9`. | `goefi/cmd/efiload/main.go` |
| `StubBoot` | `main` and `executeKernel` of efiload and efi-verify: config parsing, `LoadImageMem` from the memory kernel, the command-line patch, `StartImage`, `Exit`. | `goefi/cmd/{efiload,efi-verify}/main.go` |
| `Locator` | The `Enumerate*` walks (`LocateHandleBuffer`, then `HandleProtocol` per handle; CreateChild for DHCP4) and the `LocateProtocol` singletons, over a database of `NumHandles` handles. | `pkg/uefi/*`, `goefi/pkg/uefi/{serial_io,graphics_output}_protocol.go` |
| `ProtocolLookup` | The abstract locator contract (spec 3, 4.2, 8): a call answers with the promised interface of every handle offering it, in order. A walk with no provider gets an empty answer and no error; a handle is missing only when the firmware faulted on it; a singleton answers its first instance or NotFound. Nothing the firmware allocated for the lookup is still held when the answer comes back. Not a translation of code: the specification `Locator` is checked against. | spec.md 3, 4.2, 8 |
| `DeviceContract` | The abstract wrapper contract (spec 4.3, 5). Graphics `Init` leaves the display in a mode and returns that mode's information, or an error. `GetKey` returns the oldest pending key, or an error that leaves the key pending. A disk read or write calls the firmware only when the medium is present (and writable, for a write); otherwise it is refused. Its answer is `n = len` with no error exactly when the firmware succeeded. Not a translation of code: the specification `DeviceWrappers` is checked against. | spec.md 4.3, 5 |
| `DeviceWrappers` | Extends `Locator` with what a caller does with the interfaces: GOP `Init`, `Disk.ReadAt/WriteAt/Flush` (with `StatusError`), and text-input `GetKey` with `WaitForEvent`. The firmware changes media and the user types keys. | `goefi/pkg/uefi/graphics_output_protocol.go:151-179`, `pkg/uefi/media_io_protocol.go:29-239`, `pkg/uefi/{simple_text_in,runtime}.go`, `goefi/pkg/uefi/efistatus.go:88-112` |
| `SerialPort` | `SerialPort.Init`, `Read`, `Write` and `UseFlowControl` against the driver's control register, receive FIFO and Read/Write semantics, with a peer that sends bytes and toggles CTS. | `goefi/pkg/uefi/serial_io_protocol.go` |
| `MC*` | Constant definitions for TLC: model values, handle kinds, mode tables. `MCLocator` extends `DeviceWrappers`. | |

### How the `RecoveryBoot` state and actions correspond to the code

The variables:

- `pc`: the control point of the shell and `executeKernel`.
- `cmdline`, `data`: the Go locals of `executeKernel`.
- `disk`: the two files on the root volume.
- `images`: the firmware's image objects, indexed by attempt. Each record holds:
  - `bytes`: the bytes it was created from;
  - `state`: loaded or started;
  - `optsSize`, `opts`: the two patched fields.
- `nullWrites`: TRUE once the code has written to address 0 + 48/56.
- `openFiles`: file handles `root.Open` returned in `loadAndVerify` (kernel, cmdline) that are still open. Nothing in the code closes one.
- `freedOpts`: attempts whose UTF-16 `LoadOptions` buffer the Go collector reclaimed before `StartImage`.

Each firmware call is an action. Its outcomes are restricted by the constant
`Faults`, so a run can allow all failures at once, or isolate one.

| Action | Code |
|---|---|
| `RecoveryCmd(a)` | The shell `Fn`. A fresh `cmdline`. |
| `ExecuteKernelRoot` | `Root()` |
| `LoadKernel` | `loadAndVerify`: Root/Open fail → error. A ReadAll error → the partial bytes with a nil error. |
| `ResolveCmdline` | Lines 88-96 |
| `LoadImageMem` | `image.go` 49-71 in code order: a `root.FilePath` error returns first (the buffer untouched), then an empty buffer panics in `ptrval(&buf[0])`, then the firmware `LoadImage` loads or fails. Both errors are the `loadImage` fault. |
| `PatchCmdline` | `LoadImageHandle` (error unchecked), then the two writes. |
| `StartImage` | `StartImage` |
| `CollectOptsBuffer` | The collector running at an allocation between line 120 and `StartImage` (`log.Printf`). After line 120 the buffer is held only by a raw `uint64` in firmware memory, and there is no `runtime.KeepAlive`. |
| `ShellExit` | `Exit`, or `ResetSystem` on error. |

### Locator and DeviceWrappers

`Locator`:

- `db` maps each handle to the protocols it carries. Init chooses it from realistic kinds: a partition with a file system, a raw disk, a disk without Block I/O, a NIC with and without the DHCP4 service binding, a serial console with extended text input, and a display.
- `pc` is `Idle`, `Locate` or `Loop`. `buf` and `i` are the handle buffer and the loop index.
- `out` is the slice being built. `result` is what the last call returned.
- `pool` counts handle buffers never freed. `children` lists the DHCP4 children created.
- An interface pointer is `[h, proto]`: the handle it came from and what the pointer really is.
- There is one action per loop body (`FsStep`, `DisksStep`, `SnpStep`, `DhcpStep`, `SerialStep`), plus `LocateHandleBuffer`, `Return` and `LocateProtocol`. `HandleProtocol`, `LocateHandleBuffer` and `CreateChild` can fail (`Faults`).

`DeviceWrappers` adds these variables:

- `media`: each handle's Block I/O `Media` fields.
- `gopMode`: the display's current mode.
- `dpc`: the caller operation under way.
- `gi`, `best` and `queried`: `Init`'s locals.
- `gopRet`: what `Init` returned.
- `keys`, `typed`: pending keys and the key `GetKey` returned.
- `lastDisk`: the last disk operation's arguments, firmware status and return values.

Its operations are:

- `GopInit`/`GopQueryMode`/`GopSetMode`: `Init`'s loop and `SetMode`.
- `DiskCall`: `ReadAt`/`WriteAt`/`Flush`. The checks come first in code order (`Precheck`), then the firmware call (`FirmwareDisk`), then the result (`StatusError`).
- `GetKey`/`CheckEvent`/`ReadKeyStroke`: `GetKey`. A `CheckEvent` that gets `EFI_NOT_READY` changes nothing, so it is a stuttering step.
- Environment steps: `MediaChange` (eject, insert, write-protect) and `KeyPress`.

A caller operation uses an entry of the locator's last result and counts against `MaxCalls`.

### SerialPort

The variables:

- `ctl` and `cts`: the driver's control register.
- `fifo`: the receive FIFO. A successful `Reset` (in `Init`) empties it, as a UEFI serial driver's Reset does. `sent` and `got` are the bytes the peer sent and those `Read` handed over since the last successful `Reset`.
- `flowControl`: `sp.flowControl`.
- `pc`, `controlBits`, `size` and `bufLen`: `Read`'s locals.

`Read` is split at each firmware call:

1. `ReadGetControl`
2. `ReadSetControl`
3. `ReadFirmware`, which uses `FirmwareRead`: the driver returns what is in the FIFO, up to `bufLen`, with `EFI_TIMEOUT` when that is short.
4. `ReadDeassert`

`CallRead` with a zero-length buffer panics at `&buf[0]` (line 225) before any firmware call. The peer's actions are `PeerSend` (it honours RTS under HWFC) and `PeerCts`.

## 3. Runs

At most twelve runs are listed in `PROJECT.json`:

| Run | Cfg | Expect | Shows |
|---|---|---|---|
| recovery_core | `MCRecoveryBoot.cfg` | pass | Every fault is enabled, the volume changes, and there are 2 attempts. Each loaded image holds the bytes read in its own attempt (no TOCTOU: `LoadImageMem` takes the buffer). Each started, patched image has its own attempt's command line (no carry-over). |
| recovery_verified_boot | `RecoveryVerifiedBoot.cfg` | violation | `RecoveryImplementsVerifiedBoot` fails: the recovery command does not implement `VerifiedBoot`. TLC stops at the first divergence it meets, a kernel whose read failed being loaded from the partial buffer (see below for the others). |
| device_contract | `DeviceContract.cfg` | violation | `WrappersImplementDeviceContract` fails: the wrappers do not implement `DeviceContract`. TLC stops at `ReadKeyStroke` returning the zeroed key after a failed read; the other divergences are listed under Refinement. |
| variable_walk | `MCVariableEnum.cfg` | pass | In every firmware order of four variables of different name lengths, `vars()` never advertises more buffer than it allocated, lists each variable once, and ends. |
| stub_boot | `MCStubBoot.cfg` | pass | For every config block of up to five bytes, both stubs load a kernel only from a decimal length field, and exactly that many bytes: a dropped `Atoi` error always ends in a panic, never in a load. |
| stub_verified_boot | `StubVerifiedBoot.cfg` | violation | `StubImplementsVerifiedBoot` fails: neither stub implements one attempt of `VerifiedBoot`. TLC stops at the empty configuration block crashing `main`; the other divergences are listed under Refinement. |
| locator_walk | `MCLocator.cfg` | pass | Two handles of every kind, with every firmware fault enabled. Enumerations are exact (only real interfaces, in handle order, all of them when nothing failed). GOP `Init` returns the information of a largest mode that answered. A disk read or write reports a transfer only when the firmware did it, whatever the firmware did to the medium in between. About 271k states, 30 s. |
| locator_lookup | `LocatorLookup.cfg` | violation | `LookupImplementsProtocolLookup` fails: the locator does not implement `ProtocolLookup`. TLC stops at `EnumerateSNP` answering EFI_NOT_FOUND with an error; the other divergences are listed under Refinement. |
| serial_io | `MCSerialPort.cfg` | pass | With `Read` buffers of 0 and 1 bytes, and `Init`, `Write` and flow-control changes interleaved with a peer, `Read` never changes HWFC/LOOP, and a one-byte `Read` returns once data has arrived. About 161k states. |
| serial_partial_read | `SerialPartialRead.cfg` | violation | With a 2-byte buffer, a firmware read that times out after 1 byte is treated as no data: the byte is lost (`NoByteLost`: every byte received since the last `Reset` is handed over in order, or still in the FIFO). |
| call_bridge_locked | `MCCallBridge.cfg` | pass | Three goroutines use the locked entry points. Never two calls in the firmware at once. While any goroutine waits in `mux.Lock`, some goroutine eventually gets through the mux into `callFn` (`MuxHandedOn`): the deferred `Unlock` always hands the mux on. |
| call_bridge_unlocked | `CallBridgeUnlocked.cfg` | violation | With `UefiCall5` in use, two calls are in the firmware at once. |

Every property of a passing run has a mutant in `PROJECT.json`: a plausible bug in
the mapped definition that makes TLC report the property violated. Examples:
`LoadImageFromVolume` (TOCTOU), `RecoveryCmdStickyCmdline`, `LockNoWait`,
`ReturnNoUnlock` (the deferred Unlock missing), `GrowKeyNoCopy`, `ParseConfigSliceHeader`, `FsStepAppendNil`,
`DisksStepNoBlockIO`, `GopQueryModeNoInfo` (the highest mode's
information not copied), `DiskOpUnchecked` (firmware status ignored),
`ReadSetControlBare` and
`ReadGetControlHoisted`.

### Refinement

`RecoveryBoot` is checked against `VerifiedBoot` in the `recovery_verified_boot` run
(`VB == INSTANCE VerifiedBoot WITH ...`, property `RecoveryImplementsVerifiedBoot`):

| `VerifiedBoot` | `RecoveryBoot` |
|---|---|
| `phase` | `pc` when it is `Shell`, `Booted`, `Exited`; every step of an attempt maps to `Attempt` |
| `cmd` | `cmdline` |
| `kernel` | `data`, the buffer `loadAndVerify` returned |
| `images` | `images`, with `live` true while the attempt is not in `freedOpts` |
| `held` | `openFiles` |
| `disk`, `attempt` | the same variables |

The run is a violation: the code does not implement the flow. Each of these
divergences violates the refinement on its own. Each was checked by removing the
others from the model or the configuration:

- a kernel that `ReadAll` failed on is loaded from the partial buffer (`LoadKernel`);
- a kernel the trust anchor rejects is loaded: the digest is only printed (`LoadKernel`);
- a cmdline read error gives a truncated command line (`ResolveCmdline`);
- `LoadImageHandle`'s error is ignored, and the patch writes at a null record (`StartImage`);
- `len(cmdline)*2` is not the encoded length for non-ASCII text (`PatchCmdline`);
- the collector frees the options before `StartImage` (`CollectOptsBuffer`);
- an image `StartImage` refused stays loaded (`StartImage`);
- the kernel file changes between the read and a load from the volume (after `DiskChange`);
- the opened files are never closed, so the shell is reached holding handles (`StartImage`).

With trusted kernels, ASCII arguments, no faults, no collector and files closed,
the refinement holds (444 distinct states). So `VerifiedBoot` is not vacuous: it
admits the flow when the code follows it.

`StubBoot` is checked against the same `VerifiedBoot` in the `stub_verified_boot`
run (`SVB == INSTANCE VerifiedBoot WITH ...`, property `StubImplementsVerifiedBoot`).
A stub is one attempt with the kernel already in memory, so the mapping differs:

| `VerifiedBoot` | `StubBoot` |
|---|---|
| `phase` | `Parse` is `Shell`; `Root` to `Start` are `Attempt`; `Exit` and `OsExit` (control back to the boot manager) are `Shell`; `Running` is `Booted`; `Exited` and `Reset` are `Exited`; `Panicked` stays `Panicked`, which no abstract step reaches |
| `disk` | the kernel in memory, and no cmdline file |
| `cmd` | `cmdline`, the block's second line, used as the override |
| `kernel` | `kerData` from the moment root is open until the attempt fails, as the whole kernel when its length is `KernelSize`, otherwise as a prefix |
| `images` | the one image, with its options `unset` until patched |
| `held` | 0: the stubs open no file |

`VerifiedBoot` reads an empty command line as "no override". The stubs, which have no file to fall
back to, never mean that. So the run's blocks are those with a non-empty second line or with
no newline at all, plus `16\n` followed by a 2-byte character. `Fail` may discard the
kernel bytes (spec 3), because the stub's `os.Exit` leaves `kerData` behind.
In scratch configurations, each divergence violates the refinement on its own:

- the empty block panics on `parts[1]` (`ParseConfig`);
- an untrusted kernel, or a length field that is not the kernel's size, counts as read (`ExecRoot`);
- a 2-byte character gets length 4 (`PatchCmdline`);
- a failed `LoadImageHandle` starts the image with no command line (`StartImage`);
- a refused `StartImage` exits with the image still loaded (`StartImage`).

With a trusted kernel, the block `16\n1`, and only the root, load and exit faults, the
refinement holds (40 distinct states).

`Locator` is checked against `ProtocolLookup` in the `locator_lookup` run
(`PL == INSTANCE ProtocolLookup WITH ...`, property `LookupImplementsProtocolLookup`).
`db` and `fn` map to themselves. The other variables map as follows:

| `ProtocolLookup` | `Locator` |
|---|---|
| `phase` | `idle` when `pc = "Idle"`, otherwise `busy` |
| `result` | `result` without `clean`; a failed call's status becomes `err` |
| `held` | `Unreleased`: handle buffers not freed, plus DHCP4 children not handed to the caller |

The abstract answer is fixed only by the database and `Faults`. A walk may
return fewer providers only when a binding fault is possible, so the faulted
handle need not be tracked. In scratch configurations, each divergence violates
the refinement on its own:

- a walk with no provider (`EnumerateSNP`, `EnumerateDHCPv4`, `EnumerateSerialPorts`) returns EFI_NOT_FOUND as an error;
- `EnumerateSNP` on NICs with SNP and DHCP4 answers service-binding tables;
- `EnumerateDHCPv4` with a failing bind on the child leaves the child orphaned;
- `EnumerateFileSystems` with a file system on every handle still holds the handle buffer at return.

With `Return` changed to free the buffer, the refinement holds in two cases (4,824 and 74 distinct states):

- file systems, disks and the singletons, under locate and child faults;
- DHCP4 on NICs that all carry the binding.

So `ProtocolLookup` is not vacuous. In the same scratch setting, `EnumerateSerialPorts`' early
return on a bind fault still violates it. That path also leaves the buffer unfreed.

`DeviceWrappers` is checked against `DeviceContract` in the `device_contract` run
(`DC == INSTANCE DeviceContract WITH ...`, property `WrappersImplementDeviceContract`).
`media` maps to itself. The other variables map as follows:

| `DeviceContract` | `DeviceWrappers` |
|---|---|
| `phase` | `DevPhase[dpc]`: `Query` is `gop`, `Wait` and `ReadKey` are `key` |
| `display` | `gopMode` |
| `shown` | `gopRet`; `NoInfo` is `none` |
| `pending`, `key` | `keys`, `typed` |
| `disk` | `lastDisk`, which records the disk's handle, so the contract cannot justify a step with another disk |

Locator steps, `QueryMode` iterations and `CheckEvent` are stuttering steps of the contract. In scratch configurations, each divergence violates the refinement on its own:

- a failed `ReadKeyStroke` returns the zeroed key (`ReadKeyStroke`, `simple_text_in.go:131`);
- a failed `SetMode` leaves the display in mode 0, while `Init` returns the 2x2 mode (`GopSetMode`, `graphics_output_protocol.go:176`);
- when every `QueryMode` fails, `Init` returns the zeroed information (0x0) of no mode (`GopSetMode`);
- after the medium is ejected, `WriteAt` calls `WriteDisk` and reports EFI_NO_MEDIA (`DiskCall`, `media_io_protocol.go:212`).

With only disk faults and no medium change, the refinement holds (4,468 distinct states). So `DeviceContract` is not vacuous.

### Bounds

- **Recovery:**
  - `MaxAttempts = 2`: two attempts are the least that can show state carried from one attempt to the next.
  - Two kernel contents, one trusted.
  - One cmdline text with a 3-byte character: it separates bytes from UTF-16 units.
  - Shell arguments: none, ASCII, and a 2-byte character.
  - `MaxTextLen = 4`.
- **Bridge:** three goroutines, so one can wait while two contend.
- **Variables:** four names of lengths that force one, two or no buffer growths, in every order.
- **Locator:**
  - `NumHandles = 2`, which is enough for order, for skipping, and for a failure on one handle of two.
  - `MaxCalls = 2`: a lookup followed by one operation on its result, or two lookups.
  - Three GOP modes, two of which tie.
  - One medium change and one key.
  - Buffers of 0 or 1 bytes at offset -1 or 0, which reach every check of the disk wrapper.
- **Serial:**
  - Two bytes sent and three caller operations.
  - Buffers of 0 and 1 bytes in the passing run (the 0-byte `Read` panics); the 2-byte case is the violation.

### Fairness

- The recovery flow and the stubs are checked for safety only. They are sequential, and their terminal states are real stopping points, hence `CHECK_DEADLOCK FALSE`.
- For the bridge, firmware calls return and the deferred `Unlock` runs: weak fairness on each goroutine's `Return` and `Unlock`. A free mux is taken by some waiter: weak fairness on the set of `Lock` steps (`\E c : Lock(c)`), not on each goroutine's. TinyGo's `sync.Mutex` hands the lock on to a waiter, but its cooperative scheduler picks which, and nothing promises a given waiter the mux; so no per-goroutine completion is claimed, and no strong fairness is assumed.
- `VariableEnum` and `SerialPort` run on the caller's only goroutine, which never blocks in Go. Its steps are weakly fair (`WF` on `Next` and `HostStep`). The peer owes nothing. `Locator`/`DeviceWrappers` are checked for safety only and assume no fairness.

## 4. Further divergences, not modelled parts, and the plan

These cfgs are not in the twelve listed runs. TLC finds each property violated by what the code does:

| Cfg | Property | The code |
|---|---|---|
| `RecoveryReadFault.cfg` | `KernelReadFailureIsFatal` | A ReadAll error is swallowed, and the partial kernel is loaded. |
| `RecoveryCmdlineFallback.cfg` | `UnreadableCmdlineFallsBackToDefault` | A cmdline read error gives a truncated command line. |
| `RecoveryNullWrite.cfg` | `CmdlineWrittenOnlyIntoLoadedImage` | `LoadImageHandle`'s error is ignored, and the writes go to address 48/56. |
| `StubConfigPanic.cfg` | `MalformedConfigIsReported` | A block with no newline, or with a bad or short length field, crashes the stub. |
| `StubUnverified.cfg` | `OnlyTrustedKernelStarted` (StubBoot) | The stubs start the memory kernel unchecked. |
| `LocatorSnpGuid.cfg` | `SnpEnumerationIsExact` | `EnumerateSNP` binds the DHCP4 service-binding GUID and returns it as an SNP table. |
| `LocatorNotFound.cfg` | `NotFoundIsEmpty` | SNP, DHCPv4 and serial return an error for EFI_NOT_FOUND (spec 4.1 normalises it). |
| `LocatorChildLeak.cfg` | `ChildrenAccounted` | A DHCP4 child is never destroyed when the next HandleProtocol fails. |
| `LocatorPoolLeak.cfg` | `HandleBuffersFreed` | No `Enumerate*` frees the handle buffer. |
| `SerialDeviceError.cfg` | `ReadReportsDeviceError` | A zero-byte read turns any status into a timeout and retries forever. |
| `RecoveryOptsSize.cfg` | `LoadOptionsSizeIsEncodedLength` | `len(cmdline)*2` counts UTF-8 bytes. The 4-byte text `A L3 C C` gives 8, but the encoding has 2 units (4 bytes). |
| `DiskWriteNoMedia.cfg` | `DiskPreconditionsHonoured` | `WriteAt` checks `ReadOnly` but not `MediaPresent`, so a write to an ejected medium reaches `WriteDisk`. |
| `GopModeSet.cfg` | `GopModeMatchesInfo` | `SetMode`'s status is dropped, so `Init` may return a mode the display is not in. |
| `RecoveryOptsBuffer.cfg` | `NoImageStartedWithFreedOptions` | The UTF-16 command line is referenced only by a raw `uint64` after line 120. The collector may reclaim it before `StartImage` hands it to the image. |
| `RecoveryUnverified.cfg` | `OnlyTrustedKernelStarted` | The SHA-256 is printed, never compared, and a rejected kernel is started. |
| `RecoveryLeak.cfg` | `AttemptReleasesResources` | The kernel and cmdline files are never closed, and an image that `StartImage` refused is never unloaded. Every attempt from the shell leaks handles. |

Not modelled:

- `StatusError`'s handling of warnings and unknown codes (`errMap` grows). No modelled firmware call returns such a code. `StatusError` lives in `goefi/pkg/uefi`; `pkg/uefi` uses it without defining it.
- `Disk.Size`/`SectorSize`: plain getters. Block I/O `ReadBlocks`/`WriteBlocks`/`Reset`: never called.
- `Blt` and the DHCP4/SNP/file protocol methods: single firmware calls the code never sequences.
- `GetLoadedImageProtocol`/`Unload`: `Unload` does not compile (`imageHandle` is undefined).
- `printk` and the console: pure I/O.
- `efidef.go`: types only.
- `reset.go`: `ResetSystem` is folded into the exit actions as a step that does not return, so `efiload`'s second `Exit` is never reached. A `ResetSystem` that fails and returns is not modelled. `ueficore`'s `GetVariable` is never called, because `efiload` reads variables through the runtime table (`VariableEnum`).
- `BootServices.LoadImage` (`image.go` 21-47): it is reached only from commented-out code. The boot flows load from memory with `LoadImageMem` (modelled).
- `StatusError` with `EFI_SUCCESS`: every call site checks `status != EFI_SUCCESS` first, so a nil-typed error cannot reach a caller.
- `ptrval`'s type switch: a panic on a Go type the caller chose at compile time.
- The volume handle `x64.UEFI.Root()` returns: `Root` is in the go-boot library, not in the tree. Whether each call opens a new handle is unknown, so `openFiles` counts only the files the code opens.
- The collector window in the stubs (`efi-verify`/`efiload` `executeKernel`, line 145 to `StartImage`): it is the same as in recovery, but no allocation between the two is visible in the tree. `StubBoot` leaves it out.
- The assembly in `uefi.s`: not in the tree. The model assumes it takes the mux, as the spec says.

Plan for the next sittings:

1. Compose `GetKey`'s busy loop with a second goroutine under a cooperative scheduler, to show the starvation that the commented-out `gosched` causes (spec 5). Whether the tamago runtime preempts a goroutine that never yields is not in the tree. So this can only be checked against the spec's cooperative assumption. No goroutine is started anywhere in the tree, so the second goroutine would be hypothetical.
