------------------------------- MODULE MCBoot -------------------------------
(* Sixteen pages under two entries of PML4; the kernel, its stack and the  *)
(* heap share a third.  The firmware keeps the last pages for itself, or   *)
(* some in the middle, with or without a reserve.                          *)
EXTENDS Entry

Layout(bins, firmware) ==
  [p \in 0 .. 15 |-> IF p \in bins THEN "bin"
                     ELSE IF p \in firmware THEN "firmware" ELSE "normal"]

Mode(w, h, pixperline) == [w |-> w, h |-> h, pixperline |-> pixperline, fbsize |-> pixperline * h]

(* Three pixels to a page.  Modes with lines longer than they show, two as *)
(* large as each other, and one that is higher than wide.                  *)
MCFirmwares ==
  {[map |-> Layout({}, {15}), modes |-> <<Mode(2, 2, 2), Mode(3, 2, 4), Mode(2, 3, 2)>>],
   [map |-> Layout({14, 15}, {9}), modes |-> <<Mode(2, 3, 2), Mode(1, 1, 1)>>]}

Segment(type, vaddr, filesz, memsz) ==
  [p_type |-> type, p_vaddr |-> vaddr, p_filesz |-> filesz, p_memsz |-> memsz]

(* Pages of two bytes.  A kernel of two pages whose data start in the      *)
(* middle of a page, after a header that is not loaded.                    *)
MCElves == {NoElf,
            <<Segment("PT_NOTE", 0, 9, 9), Segment("PT_LOAD", 32, 1, 1),
              Segment("PT_LOAD", 33, 1, 2)>>}

(* 40 bytes, and the 48 of OVMF.                                           *)
MCDescSizes == {5, 6}

MCJunk == {[type |-> "firmware", physaddr |-> 0, pages |-> 0, reading |-> 0],
           [type |-> "normal", physaddr |-> 1, pages |-> 2, reading |-> 0]}
=============================================================================
