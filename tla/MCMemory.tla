------------------------------ MODULE MCMemory ------------------------------
(***************************************************************************)
(* The memory of threads: the pooled allocator, the bump allocator and     *)
(* thread-local objects.  One of them at a time, so that their states add  *)
(* up and do not multiply.                                                 *)
(*                                                                         *)
(* Pool: three threads and five allocations from a first chunk of one      *)
(* slot.  The chunks have one, two and four slots, and all three threads   *)
(* can overshoot one of them.                                              *)
(*                                                                         *)
(* Bump: blocks of 4, 8, 16 and 32 units with a footer of one, at bases    *)
(* above and below each other.  A request of 3 leaves no place in the      *)
(* first block; one of 8 fits in neither of the first two, and reaches     *)
(* below the block when it is compared with the end of another.            *)
(*                                                                         *)
(* Local: two threads, two variables and one construction more, so that a  *)
(* slot is reused; three addresses, so that one is reused too.  Nothing    *)
(* tells these apart.  One start more than there are threads, so that a    *)
(* push finds the head it had read although another was pushed and erased  *)
(* in between: two starts with everything else, the third while only one   *)
(* object was constructed (bound).                                         *)
(***************************************************************************)
EXTENDS PooledAllocator, BumpAllocator, ThreadLocal, TLC

CONSTANTS t1, t2, o1, o2, a1, a2, a3,
  Parts  \* the allocators that are checked, of "pool", "bump" and "local"

MCBases == {4, 8, 16, 32, 64}
MCRequests == {<<2, 3>>, <<1, 8>>}

VARIABLE part \* one of Parts

MCInit == part \in Parts /\ Init /\ BumpInit /\ LocalInit
MCNext ==
  /\ UNCHANGED part
  /\ \/ part = "pool" /\ Next /\ UNCHANGED <<bumpVars, localVars>>
     \/ part = "bump" /\ BumpNext /\ UNCHANGED <<vars, localVars>>
     \/ part = "local" /\ LocalNext /\ (starts' = 3 => built' = 1) /\ UNCHANGED <<vars, bumpVars>>
MCSpec == MCInit /\ [][MCNext]_<<part, vars, bumpVars, localVars>>

Symmetry ==
  Permutations({t1, t2}) \cup Permutations({o1, o2}) \cup Permutations({a1, a2, a3})
=============================================================================
