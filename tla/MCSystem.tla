------------------------------ MODULE MCSystem ------------------------------
EXTENDS System

Region(name, memory, base, size) ==
    [name |-> name, memory |-> memory, base |-> base, size |-> size]

\* The map of the machine; the RAM is small and as low as TLC's integers need.
MCRegions == <<Region("ram", TRUE, 2000000000, 8),
               Region("rom", TRUE, 4096, 8),
               Region("clint", FALSE, 33554432, 65536),
               Region("plic", FALSE, 201326592, 67108864),
               Region("uart16550", FALSE, 268435456, 8),
               Region("virtio", FALSE, 268439552, 4096),
               Region("uart", FALSE, 1073741824, 32),
               Region("timer", FALSE, 1073745920, 16)>>

MCHostIo == 2000000004
MCLimits == {3, CycleForever}
MCSkips == {-1, 1}

Access(store, addr, size, value) ==
    [store |-> store, addr |-> addr, size |-> size, value |-> value]

MCAccesses ==
    {Access(TRUE, 2000000004, 4, 1), Access(TRUE, 2000000008, 4, 1),
     Access(TRUE, 2000000006, 4, 1), Access(FALSE, 2000000006, 4, 0),
     Access(TRUE, 268435456, 1, 65), Access(TRUE, 268435459, 1, 128),
     Access(TRUE, 33554432, 4, 3),
     Access(TRUE, 1073741824, 4, 66), Access(TRUE, 4096, 4, 1),
     Access(TRUE, 33570816, 8, 258), Access(TRUE, 33570816, 1, 4),
     Access(TRUE, 33603576, 8, 0), Access(FALSE, 33603576, 8, 0),
     Access(TRUE, 201326592, 8, 1), Access(TRUE, 203423744, 8, 1)}
=============================================================================
