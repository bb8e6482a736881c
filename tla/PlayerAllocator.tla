--------------------------- MODULE PlayerAllocator ---------------------------
(***************************************************************************)
(* The decoder's frame memory (port/lv_aic_player_allocator.c).  The SDK   *)
(* decoder allocates and frees CMA frames through callbacks on threads of  *)
(* its own; the playback worker pins the frame it publishes, so that a     *)
(* free of a pinned frame only retires it.  Every operation runs under the *)
(* allocator's mutex.  An allocation is known by the frame it backs: a pin *)
(* ticket names one allocation for as long as it is pinned.                *)
(***************************************************************************)
CONSTANT Frame   \* the decoder's frames (at most FRAME_COUNT)

VARIABLES
  mem,    \* a->frames[f]: "free", "live", or "retired" (freed while pinned)
  pins    \* the frames whose allocation has a ticket

memVars == <<mem, pins>>

MemTypeOK == mem \in [Frame -> {"free", "live", "retired"}] /\ pins \subseteq Frame

MemInit == mem = [f \in Frame |-> "free"] /\ pins = {}

\* allocate(), when the budget allows it.
Allocate(f) == mem[f] = "free" /\ mem' = [mem EXCEPT ![f] = "live"] /\ UNCHANGED pins

\* What a freed allocation becomes: memory that is pinned stays.
Freed(f) == IF f \in pins THEN "retired" ELSE "free"

\* free_frame(); a retired frame is refused.
FreeFrame(f) == mem[f] = "live" /\ mem' = [mem EXCEPT ![f] = Freed(f)] /\ UNCHANGED pins

\* The decoder is destroyed: it frees all it has.
FreeAll == mem' = [f \in Frame |-> IF mem[f] = "live" THEN Freed(f) ELSE mem[f]]

\* lv_aic_player_allocator_acquire finds the allocation.
Pinnable(f) == mem[f] = "live" /\ f \notin pins

\* What the last release does to retired memory.
Unpinned(f) == [mem EXCEPT ![f] = IF @ = "retired" THEN "free" ELSE @]

\* lv_aic_player_allocator_release; FALSE of a ticket nobody has.
Unpin(f) == f \in pins /\ pins' = pins \ {f} /\ mem' = Unpinned(f)

\* lv_aic_player_allocator_destroy refuses while anything is allocated.
Unused == \A f \in Frame : mem[f] = "free"
=============================================================================
