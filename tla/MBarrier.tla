------------------------------ MODULE MBarrier ------------------------------
(***************************************************************************)
(* The shared-memory barrier (mbarrier) the CUDA kernels synchronise with.  *)
(* The class is CUTLASS's; the kernels use three of its operations:         *)
(*   init(count), arrive() and wait(parity).                                *)
(* A barrier runs through phases.  A phase completes when every expected    *)
(* participant has arrived once in it.  A waiter does not name a phase: it  *)
(* names a parity, and waits until a phase of that parity has completed,    *)
(* that is, until the parity of the phase in progress is the other one.     *)
(***************************************************************************)
EXTENDS Integers

\* A barrier after init: no phase completed, nobody arrived.
NewBarrier == [done |-> 0, arrived |-> {}]

\* The barriers over the participants P.
BarrierOver(P) == [done : Nat, arrived : SUBSET P]

\* arrive() by participant p of a barrier that expects all of P.
Arrive(b, p, P) ==
  IF b.arrived \cup {p} = P
  THEN [done |-> b.done + 1, arrived |-> {}]
  ELSE [b EXCEPT !.arrived = @ \cup {p}]

\* wait(parity) lets the caller go on when `completed` phases are complete.
ParityPasses(completed, parity) == completed % 2 # parity

\* The parity of phase number n, and "the phase before the one of parity q".
ParityOf(n) == n % 2
Flip(q) == 1 - q
=============================================================================
