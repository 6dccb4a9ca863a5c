--------------------------------- MODULE Acpi ---------------------------------
(***************************************************************************)
(* The ACPI reader of x86_64/structures/acpi: RSDP::validate and           *)
(* get_table, RSDT/XSDT validate, find_table and their iterators, and the  *)
(* MADT queries setup() and io_apic::init make.  The firmware's tables are *)
(* records of their fields.  What a checksum sums is the table's byte      *)
(* image, built from the fields the way the repr(C, packed) structs store  *)
(* them, little-endian; the bytes no field here varies (signatures, OEM    *)
(* ids, revisions of the header) are one byte `fixed` with the same sum    *)
(* modulo 256, which is all a checksum sees of them.                       *)
(*                                                                         *)
(* A firmware is [rsdp, tables]: rsdp = [addr, fixed, cks, revision, rsdt, *)
(* length, xsdt, extCks]; tables maps an address to [sig, fixed, cks,      *)
(* length, entries] (a root table) or [sig, length, lapic, at] (a MADT,    *)
(* `at` mapping a byte offset after the 44-byte MADT to the entry there).  *)
(***************************************************************************)
EXTENDS Integers, Sequences, SequencesExt

CONSTANT None   \* Option::None

HeaderSize == 36    \* size_of::<SDTHeader>()
MadtSize == 44      \* size_of::<MADT>(): the header, lapic_addr and flags

\* EntryType
LapicType == 0
IoApicType == 1
IsoType == 2
X2LapicType == 9

\* checksum::eight_bit_modulo
EightBitModulo(bytes) == FoldLeft(+, 0, bytes) % 256

\* the n bytes of v as a little-endian field holds them
RECURSIVE LeBytes(_, _)
LeBytes(v, n) == IF n = 0 THEN <<>> ELSE <<v % 256>> \o LeBytes(v \div 256, n - 1)

\* the bytes of RSDP1 (signature, checksum, oemid, revision, rsdt_addr)
\* and of the rest of RSDP (length, xsdt_addr, extended_checksum, reserved)
RsdpImage1(r) == <<r.fixed, r.cks, r.revision>> \o LeBytes(r.rsdt, 4)
RsdpImage2(r) == LeBytes(r.length, 4) \o LeBytes(r.xsdt, 8) \o <<r.extCks, 0, 0, 0>>

\* RSDP::validate: the first part, and the rest if revision is not 0
RsdpValid(r) ==
    LET remainder == EightBitModulo(RsdpImage1(r))
        remainder2 == IF r.revision # 0 THEN EightBitModulo(RsdpImage2(r)) ELSE 0
    IN  remainder = 0 /\ remainder2 = 0

\* RSDP::get_table: the RSDT at revision 0, else the XSDT; an entry of
\* the RSDT is a u32, of the XSDT a PhysAddr
RootAddr(r) == IF r.revision = 0 THEN r.rsdt ELSE r.xsdt
EntrySize(r) == IF r.revision = 0 THEN 4 ELSE 8

\* the SDTHeader's bytes: checksum and length are fields, the rest fixed
HeaderImage(t) == <<t.fixed, t.cks>> \o LeBytes(t.length, 4)

\* RSDTIterator / XSDTIterator: as many entries as header.length holds
RootEntries(t, size) == SubSeq(t.entries, 1, (t.length - HeaderSize) \div size)

\* RSDT::validate / XSDT::validate: the header's remainder plus each
\* entry's, taken modulo 256 at the end
RootValidNoModulo(t, size) ==
    LET es == RootEntries(t, size)
    IN  EightBitModulo(HeaderImage(t))
          + FoldLeft(+, 0, [k \in 1 .. Len(es) |-> EightBitModulo(LeBytes(es[k], size))]) = 0

RootValid(t, size) ==
    LET es == RootEntries(t, size)
    IN  (EightBitModulo(HeaderImage(t))
          + FoldLeft(+, 0, [k \in 1 .. Len(es) |-> EightBitModulo(LeBytes(es[k], size))])) % 256 = 0

\* find_table: the first entry whose table starts with the signature;
\* Probed is every address whose first 4 bytes it reads
FindTable(tables, t, size, sig) ==
    LET es == RootEntries(t, size)
        k == SelectInSeq(es, LAMBDA a : tables[a].sig = sig)
    IN  IF k = 0 THEN None ELSE es[k]

Probed(tables, t, size, sig) ==
    LET es == RootEntries(t, size)
        k == SelectInSeq(es, LAMBDA a : tables[a].sig = sig)
    IN  {es[j] : j \in 1 .. (IF k = 0 THEN Len(es) ELSE k)}

\* MADTIterator: from the first entry after the MADT, each next entry at
\* the offset the last one's header.length gives, while inside the table
RECURSIVE MadtEntriesFrom(_, _)
MadtEntriesFrom(m, off) ==
    IF off < m.length - MadtSize
    THEN <<m.at[off]>> \o MadtEntriesFrom(m, off + m.at[off].length)
    ELSE <<>>

MadtEntries(m) == MadtEntriesFrom(m, 0)

\* MADT::get_io_apic_addr_base_0: the first IO APIC entry whose
\* global_system_interrupt_base is 0; None is the Err
IoApicBase0(m) ==
    LET es == MadtEntries(m)
        k == SelectInSeq(es, LAMBDA e : e.type = IoApicType /\ e.gsiBase = 0)
    IN  IF k = 0 THEN None ELSE es[k].addr

\* MADT::get_interrupt_source_override: the first override of irq_source,
\* as <<entry>>, or <<>> for None (an entry is a record, None a number)
SourceOverrideGsi(m, irq) ==
    LET es == MadtEntries(m)
        k == SelectInSeq(es, LAMBDA e : e.type = IsoType /\ e.gsi = irq)
    IN  IF k = 0 THEN <<>> ELSE <<es[k]>>

SourceOverride(m, irq) ==
    LET es == MadtEntries(m)
        k == SelectInSeq(es, LAMBDA e : e.type = IsoType /\ e.irq = irq)
    IN  IF k = 0 THEN <<>> ELSE <<es[k]>>

=============================================================================
