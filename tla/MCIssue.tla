------------------------------ MODULE MCIssue ------------------------------
EXTENDS Issue

I(c, a, b)   == [class |-> c, hit |-> FALSE, a |-> a, b |-> b]
Forwarded(a) == [class |-> "load", hit |-> TRUE, a |-> a, b |-> 0]

(* Products that come out beside loads, stores and ALU results, on either port; a
   chain of dependent instructions; operands from the same bundle; a branch with
   instructions behind it that a flush may catch anywhere.  The last is a loop that none
   of the defects below concerns: no load that goes to memory beside a multiplication,
   nor beside another one. *)
MCPrograms == {
  <<I("mult", 0, 0), I("alu", 1, 0), I("load", 0, 0), I("store", 3, 1), I("branch", 1, 0)>>,
  <<I("load", 0, 0), I("mult", 0, 0), I("alu", 1, 2), I("load", 1, 0)>>,
  <<I("mult", 0, 0), I("mult", 1, 0), I("branch", 0, 0), Forwarded(2), I("store", 1, 3)>>,
  <<I("load", 0, 0), I("alu", 1, 0), I("store", 1, 2), I("alu", 0, 0), I("branch", 2, 1)>>}

-----------------------------------------------------------------------------
(* The cycles in which one of three known defects strikes; what comes behind them is
   not explored. *)

(* A load that has been put into the load buffer stays on its port (MemPipe has the
   same; here a product can hold it as well). *)
HeldLoad == \E w \in Ways : wr_en(w) /\ ex_stall(w)

(* ex_stage.sv:337 holds a multiplication that has been started, which starts again. *)
MultTwice == \E w \in Ways : mult_en(w) /\ ex_stall(w)

(* ex_stage.sv:323 compares slots without asking whether the port holds anything: a load
   of slot 0 that returns together with a product to an idle port is lost. *)
LoadDropped == mult_done(0) /\ rd_en

UntilDefect == ~HeldLoad /\ ~MultTwice /\ ~LoadDropped
=============================================================================
