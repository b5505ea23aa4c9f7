------------------------------ MODULE MCPaging ------------------------------
(* Three levels of four entries: 64 virtual pages.  The pool is pages 0 to *)
(* 15; the kernel lies at 16, the heap at 32 and the framebuffer at 48, as *)
(* far apart as to need tables of their own.  BootMaps are the calls of    *)
(* init_paging for kernels of one or two pages and framebuffers of one or  *)
(* five.  The kernel and freemap are outside the pool; the stack, the      *)
(* bitmap and one of the bootloader's tables are outside too, or at pages  *)
(* of the pool that are taken for tables, for the heap, or not at all.     *)
EXTENDS Paging

Kernel(n) == [i \in 1 .. n |-> <<99 + i, 15 + i>>]
Stack(p) == <<<<p, 47>>>>
Framebuffer(n) == [i \in 1 .. n |-> <<119 + i, 47 + i>>]
BitmapAndFreemap(p) == <<<<p, 33>>, <<131, 32>>>>

Boot(k, f, stack, bitmap, table) ==
  [maps |-> Kernel(k) \o Stack(stack) \o Framebuffer(f) \o BitmapAndFreemap(bitmap),
   tables |-> {table}]

MCBootMaps ==
  {Boot(k, f, 110, 130, 132) : k \in 1 .. 2, f \in {1, 5}}
  \cup {Boot(2, 5, stack, 130, 132) : stack \in {2, 13, 14}}
  \cup {Boot(2, 5, 110, 9, 132), Boot(1, 1, 110, 12, 8), Boot(2, 5, 110, 130, 1)}
=============================================================================
