------------------------------ MODULE MCDCache ------------------------------
EXTENDS DCache, FiniteSets

(* The states in which one of three known defects strikes; what comes behind them is
   not explored. *)

(* A store is acknowledged in a cycle in which the memory cannot take it. *)
StoreLost == state = "DIDLE" /\ wr_mem /\ free_tags = {}

(* A store comes while a double word is fetched for a load, and is taken for its address. *)
StoreBetween == state # "DIDLE" /\ wr_mem

(* The upper half of a double word is missed, and the load will get the lower. *)
UpperMissed == state = "DREQUEST" /\ rd_mem /\ load.half = 1

(* Bounds: at most one word at a time differs from the first contents of memory, and a store
   changes its word. *)
Bounded ==
  /\ Cardinality({a \in Block \X Half : memory[a[1]][a[2]] # 0}) <= 1
  /\ wr_mem => store.value # memory[store.block][store.half]

NoDefect == ~StoreLost /\ ~StoreBetween /\ ~UpperMissed

UntilDefect == Bounded /\ NoDefect
=============================================================================
