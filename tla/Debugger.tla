------------------------------ MODULE Debugger ------------------------------
(***************************************************************************)
(* The visual debugger (visual_c_hooks.cpp): the simulator, which dumps a  *)
(* frame at every clock edge and waits (visual_testbench.v), the debugger  *)
(* process that keeps the frames in a ring and shows them, the two pipes   *)
(* between them, and the user at the keyboard.                             *)
(*                                                                         *)
(* A frame is the lines of one clock edge up to "break", numbered from 1;  *)
(* frame 0 is a slot of the ring into which nothing has been received, or  *)
(* memory outside the ring.                                                *)
(***************************************************************************)
EXTENDS Integers, Sequences, FiniteSetsExt

CONSTANTS
  NUM_HISTORY,   \* slots of the ring
  MAX_FRAMES     \* bound: the program has ended after so many clock edges

ASSUME DebuggerAssumption == NUM_HISTORY \in Nat /\ NUM_HISTORY >= 2 /\ MAX_FRAMES \in Nat \ {0}

VARIABLES
  sim,         \* what the simulator does: run, wait, addr1, addr2, flush or exit
  frames,      \* clock edges it has dumped
  over,        \* it has written DONE
  data,        \* the pipe to the debugger: frames, and 0 for DONE
  answer,      \* the pipe back, byte by byte
  pc,          \* where the debugger is: read, getch, key or exit
  ring,        \* the contents arrays: the frame in each slot
  history_num, time_wrapped, hist_num_temp, done_received,
  echo_data, running, goto_flag, cycle_flag, stop_time,
  i,           \* index of the last search
  screen,      \* what parsedata has drawn: [slot, frame, reverse]
  resp         \* the key pressed: [key, time]

ringVars == <<ring, history_num, time_wrapped, done_received>>
modeVars == <<echo_data, running, goto_flag, cycle_flag, stop_time>>
vars == <<sim, frames, over, data, answer, pc, ringVars, hist_num_temp, modeVars, i,
          screen, resp>>

Slots == 0 .. NUM_HISTORY - 1
Times == 0 .. MAX_FRAMES + 1
NoKey == [key |-> "ERR", time |-> 0]

(* The remainder of C: -1 stays -1. *)
Rem(n) == IF n < 0 THEN n ELSE n % NUM_HISTORY

Frame(r, slot) == IF slot \in Slots THEN r[slot] ELSE 0

(* timebuffer and cycles of a slot; where nothing was received, whatever is there. *)
Reading(slot, cycle, garbage) ==
  LET f == Frame(ring, slot)
  IN  IF f = 0 THEN garbage ELSE IF cycle THEN f \div 2 ELSE f

Init ==
  /\ sim = "run" /\ frames = 0 /\ over = FALSE /\ data = <<>> /\ answer = <<>>
  /\ pc = "read" /\ ring = [s \in Slots |-> 0] /\ history_num = 0 /\ hist_num_temp = 0
  /\ time_wrapped = FALSE /\ done_received = FALSE
  /\ echo_data = TRUE /\ running = FALSE /\ goto_flag = FALSE /\ cycle_flag = FALSE
  /\ stop_time = 0 /\ i = NUM_HISTORY
  /\ screen = [slot |-> 0, frame |-> 0, reverse |-> FALSE]
  /\ resp = NoKey

-----------------------------------------------------------------------------
(* The simulator.  The debugger is a process of its own: its state is left alone. *)

debuggerVars == <<pc, ringVars, hist_num_temp, modeVars, i, screen, resp>>

(* A clock edge. *)
Dump ==
  /\ sim = "run" /\ frames < MAX_FRAMES
  /\ frames' = frames + 1 /\ data' = Append(data, frames + 1) /\ sim' = "wait"
  /\ UNCHANGED <<over, answer, debuggerVars>>

(* The program has halted. *)
Finish ==
  /\ sim = "run" /\ frames > 0
  /\ over' = TRUE /\ data' = Append(data, 0) /\ sim' = "wait"
  /\ UNCHANGED <<frames, answer, debuggerVars>>

(* Reading one byte: the letter it waits for, the two bytes behind an n, and, when the
   program is over, the byte flushpipe takes before $finish. *)
waitforresponse ==
  /\ sim \in {"wait", "addr1", "addr2", "flush"} /\ answer # <<>>
  /\ answer' = Tail(answer)
  /\ sim' = CASE sim = "wait" /\ Head(answer) = "n" -> "addr1"
              [] sim = "wait" /\ Head(answer) = "Z" -> "exit"
              [] sim = "wait" /\ Head(answer) \notin {"n", "Z"} -> "wait"
              [] sim = "addr1" -> "addr2"
              [] sim = "addr2" -> IF over THEN "flush" ELSE "run"
              [] sim = "flush" -> "exit"
  /\ UNCHANGED <<frames, over, data, debuggerVars>>

-----------------------------------------------------------------------------
(* The debugger. *)

simVars == <<sim, frames, over>>

(* Drawing a slot of ring r; what differs from the slot drawn before is inverted. *)
parsedata(r, slot) ==
  [slot |-> slot, frame |-> Frame(r, slot),
   reverse |-> Frame(r, slot) # Frame(r, screen.slot)]

(* A line from the simulator: a frame goes into the slot of history_num. *)
processinput(line) == IF line = 0 THEN ring ELSE [ring EXCEPT ![history_num] = line]

(* Mutant: the first letter is written again when the end is reported. *)
Answer_always(done) == <<"n", "0", "0">>

(* The bytes the debugger writes for a frame. *)
Answer(done) == IF done THEN <<>> ELSE <<"n", "0", "0">>

(* Mutant: a run does not take notice of the end of the program. *)
Advance_deaf(done, r) ==
  LET next == IF done THEN history_num ELSE Rem(history_num + 1)
  IN  /\ ring' = r /\ done_received' = done
      /\ screen' = IF echo_data THEN parsedata(r, history_num) ELSE screen
      /\ history_num' = next
      /\ time_wrapped' = (time_wrapped \/ history_num + 1 = NUM_HISTORY)
      /\ hist_num_temp' = IF next = 0 THEN NUM_HISTORY - 1 ELSE next - 1
      /\ answer' = answer \o Answer(done)
      /\ pc' = "getch"
      /\ UNCHANGED <<simVars, running, echo_data, goto_flag, cycle_flag, stop_time, i, resp>>

(* The head of the main loop, behind a frame or, done, behind DONE: the slot to show,
   the next one to fill, and the answer that lets the simulator go on. *)
Advance(done, r) ==
  LET mute == ~echo_data /\ done
      slot == IF mute THEN Rem(history_num - 1) ELSE history_num
      next == Rem(slot + 1)
  IN  /\ ring' = r /\ done_received' = done
      /\ running' = (running /\ ~mute)
      /\ echo_data' = (echo_data \/ mute)
      /\ screen' = IF echo_data \/ mute THEN parsedata(r, slot) ELSE screen
      /\ history_num' = next
      /\ time_wrapped' = (time_wrapped \/ slot + 1 = NUM_HISTORY)
      /\ hist_num_temp' = IF next = 0 THEN NUM_HISTORY - 1 ELSE next - 1
      /\ answer' = answer \o Answer(done)
      /\ pc' = "getch"
      /\ UNCHANGED <<simVars, goto_flag, cycle_flag, stop_time, i, resp>>

Receive ==
  /\ pc = "read" /\ ~done_received /\ data # <<>>
  /\ data' = Tail(data)
  /\ Advance(Head(data) = 0, processinput(Head(data)))

Again ==
  /\ pc = "read" /\ done_received
  /\ Advance(TRUE, ring) /\ UNCHANGED data

(* getch, which waits for a key unless the simulation runs, and get_time. *)
Press(key, time) ==
  /\ pc = "getch"
  /\ key = "ERR" => running
  /\ time # 0 => key \in {"g", "c"}
  /\ resp' = [key |-> key, time |-> time] /\ pc' = "key"
  /\ UNCHANGED <<simVars, data, answer, ringVars, hist_num_temp, modeVars, i, screen>>

otherVars == <<simVars, data, ringVars>>

(* Leaving the key loop: where a search runs towards a time, it stops when it is there. *)
Leave(going, time, cycle, run, echo, garbage) ==
  LET there == going /\ (Reading(hist_num_temp, cycle, garbage) >= time \/ done_received)
  IN  /\ goto_flag' = (going /\ ~there) /\ running' = (run /\ ~there)
      /\ echo_data' = (echo \/ there) /\ stop_time' = time /\ cycle_flag' = cycle
      /\ pc' = "read"

(* Staying in it, with slot on the screen. *)
Stay(slot) ==
  /\ hist_num_temp' = slot /\ screen' = parsedata(ring, slot) /\ pc' = "getch"
  /\ UNCHANGED <<modeVars, answer>>

Ignore == pc' = "getch" /\ UNCHANGED <<hist_num_temp, screen, modeVars, answer>>

(* While the simulation runs every key but p is dropped. *)
KeyRunning ==
  /\ pc = "key" /\ running
  /\ \E garbage \in Times :
       Leave(goto_flag, stop_time, cycle_flag, resp.key # "p", echo_data \/ resp.key = "p", garbage)
  /\ screen' = IF resp.key = "p" THEN parsedata(ring, hist_num_temp) ELSE screen
  /\ UNCHANGED <<otherVars, hist_num_temp, answer, i, resp>>

(* n: the next frame of the history; behind the newest, the next of the simulation. *)
newest == Rem(history_num - 1)

KeyNext ==
  /\ pc = "key" /\ ~running /\ resp.key = "n"
  /\ IF hist_num_temp # newest THEN Stay(Rem(hist_num_temp + 1))
     ELSE IF done_received THEN Ignore
     ELSE /\ \E garbage \in Times :
               Leave(goto_flag, stop_time, cycle_flag, FALSE, echo_data, garbage)
          /\ UNCHANGED <<hist_num_temp, screen, answer>>
  /\ UNCHANGED <<otherVars, i, resp>>

(* Mutant: round the ring whether or not it has been filled. *)
KeyBack_round ==
  /\ pc = "key" /\ ~running /\ resp.key = "b"
  /\ Stay(IF hist_num_temp > 0 THEN hist_num_temp - 1 ELSE NUM_HISTORY - 1)
  /\ UNCHANGED <<otherVars, i, resp>>

(* b: the frame before. *)
KeyBack ==
  /\ pc = "key" /\ ~running /\ resp.key = "b"
  /\ IF hist_num_temp > 0 THEN Stay(hist_num_temp - 1)
     ELSE IF time_wrapped THEN Stay(NUM_HISTORY - 1)
     ELSE Ignore
  /\ UNCHANGED <<otherVars, i, resp>>

(* r: run to the end; nothing is drawn on the way. *)
KeyRun ==
  /\ pc = "key" /\ ~running /\ resp.key = "r"
  /\ \E garbage \in Times :
       Leave(goto_flag, stop_time, cycle_flag, TRUE, FALSE, garbage)
  /\ UNCHANGED <<otherVars, hist_num_temp, screen, answer, i, resp>>

(* p: draw again. *)
KeyPause ==
  /\ pc = "key" /\ ~running /\ resp.key = "p"
  /\ echo_data' = TRUE /\ screen' = parsedata(ring, hist_num_temp) /\ pc' = "getch"
  /\ UNCHANGED <<otherVars, hist_num_temp, running, goto_flag, cycle_flag, stop_time,
                 answer, i, resp>>

(* q: the letter Z ends the simulator. *)
KeyQuit ==
  /\ pc = "key" /\ ~running /\ resp.key = "q"
  /\ answer' = Append(answer, "Z") /\ pc' = "exit"
  /\ UNCHANGED <<otherVars, hist_num_temp, screen, modeVars, i, resp>>

(* Mutant: the search begins one slot too far. *)
slotAt_far(delta, k) == (hist_num_temp + delta * (k + 1)) % NUM_HISTORY

(* The slots the search for a time visits, counted from where the user is, in the
   direction delta. *)
slotAt(delta, k) == (hist_num_temp + delta * k) % NUM_HISTORY

visited(delta) ==
  {k \in 1 .. NUM_HISTORY - 1 :
     /\ \A j \in 1 .. k : slotAt(delta, j) # history_num
     /\ delta = -1 /\ ~time_wrapped /\ hist_num_temp > 0 => k <= hist_num_temp}

(* g and c: to a time, or to a cycle; if it is not in the history, run towards it. *)
KeyGoto(garbage) ==
  LET cycle   == resp.key = "c"
      delta   == IF resp.time > Reading(hist_num_temp, cycle, garbage) THEN 1 ELSE -1
      Hit(k)  == LET t == Reading(slotAt(delta, k), cycle, garbage)
                 IN  IF delta = 1 THEN t >= resp.time ELSE t <= resp.time
      hits    == {k \in visited(delta) : Hit(k)}
      search  == Rem(hist_num_temp + delta) # history_num
      bottom  == delta = -1 /\ ~time_wrapped /\ hist_num_temp > 0
      last    == IF ~search THEN i ELSE IF bottom THEN 0 ELSE history_num
      give_up == \/ search /\ bottom
                 \/ last = history_num /\ (delta = -1 \/ done_received)
                 \/ resp.time = 0
  IN  /\ pc = "key" /\ ~running /\ resp.key \in {"g", "c"}
      /\ IF search /\ hits # {}
           THEN /\ i' = slotAt(delta, Min(hits))
                /\ hist_num_temp' = i' /\ screen' = parsedata(ring, i') /\ pc' = "getch"
                /\ stop_time' = 0 /\ cycle_flag' = cycle
                /\ UNCHANGED <<echo_data, running, goto_flag>>
         ELSE IF give_up
           THEN /\ i' = last
                /\ screen' = IF search /\ bottom THEN parsedata(ring, hist_num_temp) ELSE screen
                /\ pc' = "getch" /\ stop_time' = 0 /\ cycle_flag' = cycle
                /\ UNCHANGED <<hist_num_temp, echo_data, running, goto_flag>>
           ELSE /\ i' = last
                /\ Leave(TRUE, resp.time, cycle, TRUE, FALSE, garbage)
                /\ UNCHANGED <<hist_num_temp, screen>>
      /\ UNCHANGED <<otherVars, answer, resp>>

(* The debugger has been left. *)
Left == pc = "exit" /\ UNCHANGED vars

Sim == Dump \/ Finish \/ waitforresponse
Key ==
  \/ KeyRunning \/ KeyNext \/ KeyBack \/ KeyRun \/ KeyPause \/ KeyQuit
  \/ \E garbage \in Times : KeyGoto(garbage)
Pressed == \E key \in {"n", "b", "r", "p", "q", "g", "c", "ERR"}, time \in Times : Press(key, time)

Next == Sim \/ Receive \/ Again \/ Key \/ Pressed \/ Left

Spec == Init /\ [][Next]_vars

(* The simulator, the main loop and getch with a timeout of zero do go on; whether the
   user presses a key is the user's business. *)
Fairness ==
  /\ WF_vars(Sim) /\ WF_vars(Receive \/ Again) /\ WF_vars(Key) /\ WF_vars(Press("ERR", 0))

FairSpec == Spec /\ Fairness

-----------------------------------------------------------------------------
(* Properties. *)

TypeOK ==
  /\ sim \in {"run", "wait", "addr1", "addr2", "flush", "exit"}
  /\ frames \in 0 .. MAX_FRAMES /\ over \in BOOLEAN
  /\ data \in Seq(0 .. MAX_FRAMES) /\ answer \in Seq({"n", "0", "Z"})
  /\ pc \in {"read", "getch", "key", "exit"}
  /\ ring \in [Slots -> 0 .. MAX_FRAMES] /\ history_num \in Slots
  /\ hist_num_temp \in Slots /\ i \in 0 .. NUM_HISTORY
  /\ {time_wrapped, done_received, echo_data, running, goto_flag, cycle_flag} \subseteq BOOLEAN
  /\ stop_time \in Times
  /\ screen \in [slot : Slots, frame : 0 .. MAX_FRAMES, reverse : BOOLEAN]

(* The simulator stays within one clock edge of the debugger, whose answers always are
   whole: the wait behind DONE ends by the letter Z and by no other, and never while
   the debugger is in use. *)
InStep ==
  /\ TypeOK
  /\ frames <= Max({ring[s] : s \in Slots}) + 1
  /\ over => sim \in {"wait", "exit"}
  /\ sim = "exit" => pc = "exit"

(* Whenever the debugger waits for the user, the screen shows the frame the user has
   moved to, and one that was received. *)
ShowsSelected ==
  pc = "getch" /\ ~running => screen.frame = ring[hist_num_temp] /\ screen.frame # 0

(* n and b move by exactly one clock edge, round the end of the ring too; n leaves the
   screen alone only at the newest frame, b only at the first of the program. *)
MoveByOne ==
  pc = "key" /\ pc' # pc /\ ~running =>
    /\ resp.key = "n" => \/ screen'.frame = screen.frame + 1
                         \/ screen' = screen /\ \A s \in Slots : ring[s] <= screen.frame
    /\ resp.key = "b" => \/ screen'.frame = screen.frame - 1
                         \/ screen' = screen /\ screen.frame = 1

(* A search that finds its time in the history lands on the nearest frame that has it,
   in the direction of the search: it skips none. *)
GoToNearest ==
  pc = "key" /\ ~running /\ resp.key \in {"g", "c"} /\ screen'.frame # screen.frame =>
    LET t(f) == IF resp.key = "c" THEN f \div 2 ELSE f
    IN  \A s \in Slots :
          /\ screen.frame < ring[s] /\ ring[s] < screen'.frame => t(ring[s]) < resp.time
          /\ screen'.frame < ring[s] /\ ring[s] < screen.frame => t(ring[s]) > resp.time

(* What is inverted on the screen is what differs from the screen before, unless the
   frame that was on it has left the ring. *)
InvertChanges ==
  screen' # screen /\ screen.frame # 0 =>
    \/ screen'.reverse <=> screen'.frame # screen.frame
    \/ \A s \in Slots : ring'[s] # screen.frame

(* Every key shows what it promises: the frame, and what of it is inverted. *)
KeysShow == [][MoveByOne /\ GoToNearest /\ InvertChanges]_vars

(* Leaving the debugger ends the simulator. *)
QuitEnds == pc = "exit" ~> sim = "exit"

(* A run, or a search for a time to come, ends: at that time or with the program. *)
RunEnds == running ~> ~running

(* Neither of the two processes is left waiting for the other. *)
SessionsEnd == QuitEnds /\ RunEnds
=============================================================================
