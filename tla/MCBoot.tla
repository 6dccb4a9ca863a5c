-------------------------------- MODULE MCBoot --------------------------------
(***************************************************************************)
(* Boot on a table of 16 entries and 1 KiB address units: a frame is 4     *)
(* units, a 2 MiB frame 64, a 1 GiB frame 1024, and 4 GiB of physical     *)
(* addresses are 4096.  The bootloader's four tables lie in the first      *)
(* frames and conventional_mem_addr right after them.  The maps are shaped *)
(* like QEMU's e820 map: conventional memory ending unaligned below the    *)
(* EBDA, the BIOS area, extended memory with ACPI data at its end and the  *)
(* BIOS ROM below 4 GiB.  MCSmallMap has too little extended memory for    *)
(* the heap.  The framebuffer and the APICs lie in the last GiB.  The      *)
(* firmwares' ACPI tables: the RSDP in the BIOS area of the first 2 MiB,   *)
(* the root table and the tables it lists in the ACPI data of extended     *)
(* memory; QEMU's (an RSDT), an XSDT with a second IO APIC and an x2APIC,  *)
(* and one wrong in each way setup() checks.  Checksum bytes are computed  *)
(* so that the valid tables sum to 0.                                      *)
(***************************************************************************)
EXTENDS Boot

\* MemoryMapEntry records and their types, as in MemoryMap
Ram == 1
Reserved == 2
Entry(b, l, t) == [base |-> b, length |-> l, type |-> t]

MCQemuMap ==
    << Entry(0, 58, Ram), Entry(58, 6, Reserved), Entry(88, 8, Reserved),
       Entry(96, 284, Ram), Entry(380, 4, Reserved), Entry(4088, 8, Reserved) >>

MCSmallMap ==
    << Entry(0, 58, Ram), Entry(58, 6, Reserved), Entry(88, 8, Reserved),
       Entry(96, 96, Ram), Entry(4088, 8, Reserved) >>

MCBootMaps == {MCQemuMap, MCSmallMap}

\* program headers: PT_LOAD (1), PT_GNU_STACK; flags PF_X 1, PF_W 2, PF_R 4
Phdr(t, f, o, v, m) == [type |-> t, flags |-> f, offset |-> o, vaddr |-> v, memsz |-> m]
GnuStack == Phdr(1685382481, 6, 0, 0, 0)

\* kernel ELFs linked at 2 MiB (PDT entry 1 under the bootloader's PDPT[0]
\* and PDT), at 1 GiB (PDPT entry 1) and in the higher half (PML4 15,
\* PDPT 14, sign-extended); text from offset 0, then data that starts
\* mid-page and shares the text's last file page, as a linker lays them out
MCLowKernel ==
    [base |-> 40, len |-> 12,
     phdrs |-> << GnuStack, Phdr(1, 5, 0, 64, 6), Phdr(1, 6, 6, 74, 5) >>]
MCGibKernel ==
    [base |-> 100, len |-> 17, phdrs |-> << Phdr(1, 7, 0, 1024, 16) >>]
MCHighBase == 3 * 2^18 + 15 * 16384 + 14 * 1024
MCHighKernel ==
    [base |-> 100, len |-> 17,
     phdrs |-> << Phdr(1, 5, 0, MCHighBase, 9), GnuStack, Phdr(1, 6, 9, MCHighBase + 13, 7) >>]

\* the image at the start of extended memory, or in conventional memory
MCBootImages == {MCLowKernel, MCGibKernel, MCHighKernel}

MCBootTables == <<8, 12, 16>>
MCKernelTables == <<20, 24, 28>>
MCFramebuffer == [base |-> 3840, len |-> 96]

LOCAL CK == INSTANCE Acpi WITH None <- -1

\* the checksum byte that makes bytes, with it 0, sum to 0 modulo 256
Fix(bytes) == (256 - (FoldLeft(+, 0, bytes) % 256)) % 256

MCRsdp(rev, rsdt, xsdt) ==
    LET r0 == [addr |-> 60, fixed |-> 7, cks |-> 0, revision |-> rev, rsdt |-> rsdt,
               length |-> 36, xsdt |-> xsdt, extCks |-> 0]
        r1 == [r0 EXCEPT !.cks = Fix(CK!RsdpImage1(r0))]
    IN  [r1 EXCEPT !.extCks = Fix(CK!RsdpImage2(r1))]

MCRoot(sig, es, size) ==
    LET t0 == [sig |-> sig, fixed |-> 11, cks |-> 0, length |-> 36 + size * Len(es), entries |-> es]
    IN  [t0 EXCEPT !.cks = Fix(CK!HeaderImage(t0) \o FlattenSeq([k \in 1 .. Len(es) |-> CK!LeBytes(es[k], size)]))]

\* MADT entries
MCLapicE == [type |-> 0, length |-> 8]
MCX2LapicE == [type |-> 9, length |-> 16]
MCIoApicE(addr, gsiBase) == [type |-> 1, length |-> 12, addr |-> addr, gsiBase |-> gsiBase]
MCIsoE(irq, gsi, flags) == [type |-> 2, length |-> 10, irq |-> irq, gsi |-> gsi, flags |-> flags]

MCMadt(lapic, list) ==
    LET lens == [j \in 1 .. Len(list) |-> list[j].length]
        Off(k) == FoldLeft(+, 0, SubSeq(lens, 1, k - 1))
    IN  [sig |-> "APIC", lapic |-> lapic, length |-> 44 + FoldLeft(+, 0, lens), list |-> list,
         at |-> [o \in {Off(k) : k \in 1 .. Len(list)} |->
                    list[CHOOSE k \in 1 .. Len(list) : Off(k) = o]]]

MCFacp == [sig |-> "FACP"]
MCQemuMadt == MCMadt(4032, << MCLapicE, MCLapicE, MCIoApicE(4016, 0), MCIsoE(0, 2, 0),
                             MCIsoE(5, 5, 13), MCIsoE(9, 9, 13) >>)

MCQemuRsdt == [rsdp |-> MCRsdp(0, 381, 0),
               tables |-> (381 :> MCRoot("RSDT", <<382, 383>>, 4)) @@ (382 :> MCFacp) @@ (383 :> MCQemuMadt)]
MCXsdt == [rsdp |-> MCRsdp(2, 0, 380),
           tables |-> (380 :> MCRoot("XSDT", <<382, 383>>, 8)) @@ (382 :> MCFacp)
                      @@ (383 :> MCMadt(4032, << MCLapicE, MCX2LapicE, MCIoApicE(4000, 24),
                                                 MCIoApicE(4016, 0), MCIsoE(1, 1, 15) >>))]
MCBadRsdp == [MCQemuRsdt EXCEPT !.rsdp.cks = (@ + 1) % 256]
MCBadRoot == [MCXsdt EXCEPT !.tables[380].cks = (@ + 1) % 256]
MCNoMadt == [MCQemuRsdt EXCEPT !.tables[381] = MCRoot("RSDT", <<382>>, 4)]
MCNoIoApic == [MCQemuRsdt EXCEPT !.tables[383] = MCMadt(4032, << MCLapicE, MCIoApicE(4000, 24) >>)]

MCFirmwares == {MCQemuRsdt, MCXsdt, MCBadRsdp, MCBadRoot, MCNoMadt, MCNoIoApic}
=============================================================================
