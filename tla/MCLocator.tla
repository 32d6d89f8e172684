------------------------------ MODULE MCLocator ------------------------------
EXTENDS DeviceWrappers

\* Protocol sets of real handles: a partition with a file system, a raw
\* disk, a disk without Block I/O, a NIC with and without the DHCP4
\* service binding, a serial console with extended text input, a display.
MCHandleKinds ==
    { {}, {"SFS", "DiskIO", "BlockIO"}, {"DiskIO", "BlockIO"}, {"DiskIO"},
      {"SNP", "DHCP4SB"}, {"SNP"}, {"Serial", "TextInEx"}, {"GOP"} }

MCAllFns == Walkers \cup Singletons
MCAllFaults == {"locate", "bind", "child"}

\* Three modes: 2x1 and 1x2 tie, 2x2 has the most pixels.
MCModeTable == << [hr |-> 2, vr |-> 1], [hr |-> 1, vr |-> 2], [hr |-> 2, vr |-> 2] >>
MCDevFaults == {"query", "setMode", "disk", "readKey"}
=============================================================================
