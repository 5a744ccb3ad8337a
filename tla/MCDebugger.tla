----------------------------- MODULE MCDebugger -----------------------------
EXTENDS Debugger

(* The states in which one of the known defects is about to strike; what comes behind
   them is not explored. *)

atEnd == done_received \/ (data # <<>> /\ Head(data) = 0)
prompt(keys) == pc = "key" /\ ~running /\ resp.key \in keys
backwards == resp.time <= Reading(hist_num_temp, resp.key = "c", 0)

(* The end of the program is met while the user steps: the slot behind the newest
   frame, into which nothing was received, is shown as if it were a frame. *)
ShowsUnreceived == pc = "read" /\ atEnd /\ echo_data

(* It is met in a run that has just filled the last slot: slot -1 is shown. *)
ShowsOutside == pc = "read" /\ atEnd /\ ~echo_data /\ history_num = 0

(* n at the newest frame in the last slot goes to the oldest frame. *)
NextWraps == prompt({"n"}) /\ history_num = 0 /\ hist_num_temp = NUM_HISTORY - 1

(* b at the oldest frame of a ring that has wrapped goes to the newest. *)
BackWraps == prompt({"b"}) /\ time_wrapped /\ hist_num_temp = history_num

(* A search backwards from slot 0 of a ring that has not wrapped visits the slots
   nothing was received into. *)
GotoUnreceived == prompt({"g", "c"}) /\ backwards /\ ~time_wrapped /\ hist_num_temp = 0

UntilDefect ==
  ~(ShowsUnreceived \/ ShowsOutside \/ NextWraps \/ BackWraps \/ GotoUnreceived)
=============================================================================
