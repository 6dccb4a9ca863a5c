------------------------------ MODULE MCMemoryMap ------------------------------
(***************************************************************************)
(* Firmware maps for MemoryMap, in 1 KiB units (a frame is 4 units).       *)
(* MCLowMap is shaped like the map a PC BIOS reports: conventional memory  *)
(* ending at an unaligned address (0x9fc00 on a PC) below the EBDA and the *)
(* BIOS area, then extended memory.  MCUnsortedMap lists extended memory   *)
(* first and has an ACPI entry, so the sort has work to do.                *)
(***************************************************************************)
EXTENDS MemoryMap

Acpi == 3

MCLowMap ==
    << Entry(0, 22, Ram), Entry(22, 2, Reserved), Entry(24, 8, Reserved),
       Entry(32, 12, Ram) >>

MCUnsortedMap ==
    << Entry(32, 12, Ram), Entry(0, 22, Ram), Entry(22, 10, Reserved),
       Entry(44, 2, Acpi), Entry(46, 10, Ram) >>

\* maps whose conventional memory ends on a frame boundary
MCAlignedMap ==
    << Entry(0, 24, Ram), Entry(24, 8, Reserved), Entry(32, 12, Ram) >>

MCImage(b, l) == [base |-> b, len |-> l]

\* kernel images: page-aligned load address, any ELF size; the last one
\* straddles the end of conventional memory and fails the search
MCImages == {MCImage(4, 5), MCImage(8, 3), MCImage(20, 3)}

MCFirmwareMaps == {MCLowMap, MCUnsortedMap}
MCAllMaps == {MCLowMap, MCAlignedMap, MCUnsortedMap}
=============================================================================
