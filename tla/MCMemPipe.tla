----------------------------- MODULE MCMemPipe -----------------------------
EXTENDS MemPipe

S(a) == <<"store", a>>
L(a) == <<"load", a>>
X(a) == <<"alu", a>>
J    == <<"jump", 0>>

Program(ops) == [k \in Op |-> [kind |-> ops[k + 1][1], addr |-> ops[k + 1][2]]]

(* Loads behind stores to their address, next to them in a bundle, one bundle
   later, and later than the reorder buffer reaches; two stores to one address in
   front of a load; two loads that run ahead of one store; loads on both ports; ALU
   results that look like addresses; a jump that flushes what is behind it; more stores
   and loads than the queues have places, so that they wrap.

   None of the defects below concerns the next two, which run to their end: loads
   that may come too early are further apart than the reorder buffer reaches and
   followed by what is no store; several loads at once are on port 1.

   In the last the load buffer may starve: the load behind the first store is in it when
   that store has retired, which moves the head of the store queue off the place that an
   idle port names, and the store to address 0 behind the load has executed. *)
MCPrograms == {
  Program(<<S(1), L(1), X(1), L(2), S(2), L(2), X(2), L(1), S(1), L(1)>>),
  Program(<<S(1), S(2), L(1), L(2), S(1), J,    L(1), S(2), S(1), L(2)>>),
  Program(<<L(0), S(0), X(1), L(0), L(1), X(1), J,    S(1), S(0), L(1)>>),
  Program(<<S(1), S(1), S(2), L(1), X(1), S(1), L(1), S(1), S(2), L(1)>>),
  Program(<<S(1), L(1), L(1), S(1), S(1), L(1), J,    S(1), L(1), L(1)>>),
  Program(<<S(1), L(1), X(1), X(2), S(2), L(2), X(1), J,    S(1), L(1)>>),
  Program(<<S(1), L(2), X(1), L(2), S(2), L(1), X(2), L(1), S(1), L(2)>>),
  Program(<<S(1), X(1), L(2), S(0), X(1), X(2), S(2), X(1), X(2), L(0)>>)}

-----------------------------------------------------------------------------
(* The states in which one of four known defects strikes; what comes behind them
   is not explored. *)

(* ex_stage.sv:337 holds a load that has been put into the load buffer. *)
HeldLoad == LOAD_ready(0) /\ ~hit(0) /\ rd_en

(* circular_buffer.sv:94: a verdict without a violation takes back one with. *)
MarkLost ==
  \E w \in Ways :
    LET v == SQ_FU_out[w]
        Marks(u) == u < w /\ SQ_FU_out[u].done /\ SQ_FU_out[u].mem_violation
                      /\ SQ_FU_out[u].ld_rob_idx = v.ld_rob_idx
    IN  /\ v.done /\ ~v.mem_violation
        /\ data[v.ld_rob_idx].valid /\ data[v.ld_rob_idx].rd_mem
        /\ data[v.ld_rob_idx].rd_mem_violation \/ \E u \in Ways : Marks(u)

(* A load to be executed again retires with a store or a taken branch behind it. *)
PairLost == viol0 /\ (misp1 \/ Retiring("store")[1])

(* retire_store_buffer.sv:130: of several retired stores to its address a load is
   given the oldest. *)
OldestGiven ==
  \E w \in Ways : /\ LOAD_ready(w) /\ ~SQ!st_hit(is_ex[w])
                  /\ \E j, k \in RTB!Found(is_ex[w].addr) : j # k

UntilDefect == ~HeldLoad /\ ~MarkLost /\ ~PairLost /\ ~OldestGiven

(* Nothing keeps instructions out of a full queue (LSQ_dispatch_valid is not looked at,
   and a full ring cannot be told from an empty one), nor a load from a place that the
   load buffer counts as occupied (load_buffer.sv:90).  In the programs above there is
   always room. *)
QueueRoom  == Cardinality(Flying("store")) < LSQ_SIZE /\ Cardinality(Flying("load")) < LSQ_SIZE
BufferRoom == ~lb[lb_tail].occupied

-----------------------------------------------------------------------------
(* The program of finding mark_lost: two stores, the first to the load's address. *)
Twice == {Program(<<S(1), S(2), X(1), L(1)>>)}
=============================================================================
