------------------------------ MODULE MCMemory ------------------------------
EXTENDS Memory

Seg(va, sz, good) == [vaddr |-> va, memsz |-> sz, good |-> good]

\* An image of two pages, and one whose second segment clashes with the first.
MCImages == {<<Seg(45, 2, TRUE)>>, <<Seg(46, 1, TRUE), Seg(45, 2, TRUE)>>}

\* One page of the boot loader, right behind the bitmap.
MCModules == <<11>>

\* namespace_server and terminal_server
MCBootGrants == {<<CapPermission("IPC")>>, <<CapPermission("IPC"), CapMem(2, 2, PTE_USER_PAGE)>>}

=============================================================================
