------------------------------ MODULE FramePool ------------------------------
(***************************************************************************)
(* What phys_page_alloc and phys_page_free (kernel/memory/memory.c)        *)
(* promise: a page handed out is a page of the pool that nobody holds, and *)
(* it stays held until it is freed.                                        *)
(***************************************************************************)
CONSTANTS Pool,       \* addresses of the physical pages
          Addresses,  \* addresses that callers pass to phys_page_free
          NoPage      \* what a caller gets when the pool is exhausted

VARIABLES used,       \* the pages handed out and not freed
          result      \* what the last phys_page_alloc returned

Alloc(page) ==
  /\ page \in Pool \ used
  /\ used' = used \cup {page}
  /\ result' = page

Exhausted ==
  /\ used = Pool
  /\ result' = NoPage
  /\ UNCHANGED used

Free(addr) ==
  /\ used' = used \ {addr}
  /\ UNCHANGED result

Init == used = {} /\ result = NoPage
Next == \/ \E page \in Pool : Alloc(page)
        \/ Exhausted
        \/ \E addr \in Addresses : Free(addr)

Spec == Init /\ [][Next]_<<used, result>>
=============================================================================
