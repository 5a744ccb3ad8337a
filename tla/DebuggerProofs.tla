--------------------------- MODULE DebuggerProofs ---------------------------
(***************************************************************************)
(* The debugger shows the frame it has selected, moves and searches        *)
(* frame by frame, and stays within one frame of the simulator: for every  *)
(* size of the ring and every length of the program, in the behaviours in  *)
(* which none of the five defects of MCDebugger strikes.                   *)
(***************************************************************************)
EXTENDS MCDebugger, SequenceTheorems, WellFoundedInduction, TLAPS

(* The frames the debugger has received. *)
Received == IF data # <<>> /\ Head(data) # 0 THEN frames - 1 ELSE frames

(* How many frames ago a slot was filled, counted from the next one to fill. *)
Back(s) == IF s < history_num THEN history_num - s ELSE history_num - s + NUM_HISTORY

(* What is in the pipe back; a debugger that has been left has written a Z behind it. *)
Says(bytes) == answer = IF pc = "exit" THEN Append(bytes, "Z") ELSE bytes

(* Whose turn it is: a frame is on its way, or its answer, or neither; or DONE. *)
Turns ==
  \/ sim = "run" /\ ~over /\ data = <<>> /\ Says(<<>>)
  \/ sim = "wait" /\ ~over /\ data = <<>> /\ Says(<<"n", "0", "0">>)
  \/ sim = "addr1" /\ ~over /\ data = <<>> /\ Says(<<"0", "0">>)
  \/ sim = "addr2" /\ ~over /\ data = <<>> /\ Says(<<"0">>)
  \/ sim = "wait" /\ ~over /\ data = <<frames>> /\ frames > 0 /\ Says(<<>>)
  \/ sim = "wait" /\ over /\ data \in {<<>>, <<0>>} /\ Says(<<>>)
  \/ sim = "exit" /\ pc = "exit" /\ answer = <<>> /\ data \in {<<>>, <<0>>, <<frames>>}

(* The debugger has met the end once DONE has been read, and nothing but the first frame
   is waited for without one. *)
EndKnown ==
  /\ done_received <=> over /\ data = <<>>
  /\ over \/ pc # "read" \/ (sim # "run" /\ data = <<>>) => Received > 0

(* The ring holds the latest frames, each in the slot of its age. *)
RingExact ==
  /\ \A s \in Slots : ring[s] = IF Back(s) <= Received THEN Received + 1 - Back(s) ELSE 0
  /\ time_wrapped <=> Received >= NUM_HISTORY
  /\ ~time_wrapped => history_num = Received

(* The screen is the selected slot when the user is asked, and a frame that was drawn is
   still in its slot or has left the ring. *)
ScreenExact ==
  /\ echo_data <=> ~running
  /\ pc \in {"getch", "key"} /\ ~running =>
       screen.slot = hist_num_temp /\ screen.frame = ring[hist_num_temp] /\ screen.frame # 0
  /\ screen.frame # 0 =>
       /\ screen.frame <= Received
       /\ ring[screen.slot] = screen.frame \/ screen.frame + NUM_HISTORY <= Received

KeyTyped == resp \in [key : {"n", "b", "r", "p", "q", "g", "c", "ERR"}, time : Times]

(* TypeOK but for the pipes, whose types are those of Turns. *)
StateTyped ==
  /\ sim \in {"run", "wait", "addr1", "addr2", "flush", "exit"}
  /\ frames \in 0 .. MAX_FRAMES /\ over \in BOOLEAN
  /\ pc \in {"read", "getch", "key", "exit"}
  /\ ring \in [Slots -> 0 .. MAX_FRAMES] /\ history_num \in Slots
  /\ hist_num_temp \in Slots /\ i \in 0 .. NUM_HISTORY
  /\ time_wrapped \in BOOLEAN /\ done_received \in BOOLEAN /\ echo_data \in BOOLEAN
  /\ running \in BOOLEAN /\ goto_flag \in BOOLEAN /\ cycle_flag \in BOOLEAN
  /\ stop_time \in Times
  /\ screen \in [slot : Slots, frame : 0 .. MAX_FRAMES, reverse : BOOLEAN]

DebuggerInv == StateTyped /\ KeyTyped /\ Turns /\ EndKnown /\ RingExact /\ ScreenExact

-----------------------------------------------------------------------------
(* What the pipes hold is short: what is left of one answer, and a Z. *)
Byte == {"n", "0", "Z"}

LEMMA Bytes ==
  /\ <<>> \in Seq(Byte) /\ <<"n", "0", "0">> \in Seq(Byte)
  /\ <<"0", "0">> \in Seq(Byte) /\ <<"0">> \in Seq(Byte) /\ "Z" \in Byte
  /\ <<>> \o <<>> = <<>>
  /\ <<>> \o <<"n", "0", "0">> = <<"n", "0", "0">>
<1>1. /\ <<>> \in Seq(Byte) /\ <<"n", "0", "0">> \in Seq(Byte)
      /\ <<"0", "0">> \in Seq(Byte) /\ <<"0">> \in Seq(Byte) /\ "Z" \in Byte
  BY DEF Byte
<1>2. <<>> \o <<>> = <<>> /\ <<>> \o <<"n", "0", "0">> = <<"n", "0", "0">>
  BY <1>1, ConcatEmptySeq
<1>3. QED
  BY <1>1, <1>2

LEMMA HeadBytes ==
  /\ Head(<<"n", "0", "0">>) = "n" /\ Head(<<"0", "0">>) = "0" /\ Head(<<"0">>) = "0"
  /\ Tail(<<"n", "0", "0">>) = <<"0", "0">> /\ Tail(<<"0", "0">>) = <<"0">>
  /\ Tail(<<"0">>) = <<>>
  /\ <<"n", "0", "0">> # <<>> /\ <<"0", "0">> # <<>> /\ <<"0">> # <<>>
  OBVIOUS

LEMMA BytesZ ==
  /\ Head(Append(<<>>, "Z")) = "Z" /\ Tail(Append(<<>>, "Z")) = <<>>
  /\ Head(Append(<<"n", "0", "0">>, "Z")) = "n"
  /\ Tail(Append(<<"n", "0", "0">>, "Z")) = Append(<<"0", "0">>, "Z")
  /\ Head(Append(<<"0", "0">>, "Z")) = "0"
  /\ Tail(Append(<<"0", "0">>, "Z")) = Append(<<"0">>, "Z")
  /\ Head(Append(<<"0">>, "Z")) = "0" /\ Tail(Append(<<"0">>, "Z")) = Append(<<>>, "Z")
<1>1. \A s \in Seq(Byte) :
        /\ Head(Append(s, "Z")) = IF s = <<>> THEN "Z" ELSE Head(s)
        /\ Tail(Append(s, "Z")) = IF s = <<>> THEN <<>> ELSE Append(Tail(s), "Z")
  BY Bytes, HeadTailAppend
<1>2. QED
  BY <1>1, Bytes, HeadBytes, Zenon

LEMMA Lines ==
  ASSUME NEW f
  PROVE  Append(<<>>, f) = <<f>> /\ Tail(<<f>>) = <<>> /\ Head(<<f>>) = f /\ <<f>> # <<>>
  OBVIOUS

LEMMA PipesTyped ==
  Turns /\ frames \in 0 .. MAX_FRAMES =>
    data \in Seq(0 .. MAX_FRAMES) /\ answer \in Seq({"n", "0", "Z"})
<1> SUFFICES ASSUME Turns, frames \in 0 .. MAX_FRAMES
             PROVE  data \in Seq(0 .. MAX_FRAMES) /\ answer \in Seq({"n", "0", "Z"})
  OBVIOUS
<1>1. data \in {<<>>, <<0>>, <<frames>>}
  BY DEF Turns
<1>2. data \in Seq(0 .. MAX_FRAMES)
  <2>1. 0 \in 0 .. MAX_FRAMES
    BY DebuggerAssumption
  <2>2. /\ <<>> \in Seq(0 .. MAX_FRAMES) /\ <<0>> \in Seq(0 .. MAX_FRAMES)
        /\ <<frames>> \in Seq(0 .. MAX_FRAMES)
    BY <2>1
  <2>3. QED
    BY <1>1, <2>2
<1>3. \E bytes \in Seq(Byte) : Says(bytes) \/ answer = bytes
  BY Bytes DEF Turns
<1>4. answer \in Seq(Byte)
  BY <1>3, Bytes, AppendProperties DEF Says
<1>5. QED
  BY <1>2, <1>4 DEF Byte

(* The remainder for what the code takes it of. *)
LEMMA RemNext ==
  ASSUME NEW n \in Slots
  PROVE  /\ Rem(n + 1) = IF n = NUM_HISTORY - 1 THEN 0 ELSE n + 1
         /\ Rem(n - 1) = n - 1
         /\ n > 0 => Rem(n - 1 + 1) = n
<1>1. n % NUM_HISTORY = n /\ (n > 0 => (n - 1) % NUM_HISTORY = n - 1)
  BY DebuggerAssumption DEF Slots
<1>2. n < NUM_HISTORY - 1 => (n + 1) % NUM_HISTORY = n + 1
  BY DebuggerAssumption DEF Slots
<1>3. n = NUM_HISTORY - 1 => (n + 1) % NUM_HISTORY = 0
  BY DebuggerAssumption DEF Slots
<1>4. QED
  BY <1>1, <1>2, <1>3, DebuggerAssumption DEF Slots, Rem

LEMMA SlotForth ==
  ASSUME hist_num_temp \in Slots, NEW k \in 1 .. NUM_HISTORY - 1
  PROVE  slotAt(1, k) = IF hist_num_temp + k < NUM_HISTORY THEN hist_num_temp + k
                        ELSE hist_num_temp + k - NUM_HISTORY
<1>1. hist_num_temp + 1 * k = hist_num_temp + k
  BY DebuggerAssumption DEF Slots
<1>2. slotAt(1, k) = (hist_num_temp + k) % NUM_HISTORY
  BY <1>1, Zenon DEF slotAt
<1>3. hist_num_temp + k < NUM_HISTORY => (hist_num_temp + k) % NUM_HISTORY = hist_num_temp + k
  BY DebuggerAssumption DEF Slots
<1>4. hist_num_temp + k >= NUM_HISTORY =>
        (hist_num_temp + k) % NUM_HISTORY = hist_num_temp + k - NUM_HISTORY
  BY DebuggerAssumption DEF Slots
<1>5. QED
  BY <1>2, <1>3, <1>4, DebuggerAssumption DEF Slots

LEMMA SlotBack ==
  ASSUME hist_num_temp \in Slots, NEW k \in 1 .. NUM_HISTORY - 1
  PROVE  slotAt(-1, k) = IF hist_num_temp >= k THEN hist_num_temp - k
                         ELSE hist_num_temp - k + NUM_HISTORY
<1>1. hist_num_temp + (-1) * k = hist_num_temp - k
  BY DebuggerAssumption DEF Slots
<1>2. slotAt(-1, k) = (hist_num_temp - k) % NUM_HISTORY
  BY <1>1, Zenon DEF slotAt
<1>3. hist_num_temp >= k => (hist_num_temp - k) % NUM_HISTORY = hist_num_temp - k
  BY DebuggerAssumption DEF Slots
<1>4. hist_num_temp < k =>
        (hist_num_temp - k) % NUM_HISTORY = hist_num_temp - k + NUM_HISTORY
  BY DebuggerAssumption DEF Slots
<1>5. QED
  BY <1>2, <1>3, <1>4, DebuggerAssumption DEF Slots

LEMMA AgeRange ==
  ASSUME NEW h \in Slots, NEW s \in Slots
  PROVE  (IF s < h THEN h - s ELSE h - s + NUM_HISTORY) \in 1 .. NUM_HISTORY
  BY DebuggerAssumption DEF Slots

LEMMA BackRange ==
  ASSUME history_num \in Slots, NEW s \in Slots
  PROVE  Back(s) \in 1 .. NUM_HISTORY /\ (Back(s) = NUM_HISTORY <=> s = history_num)
  BY DebuggerAssumption DEF Slots, Back

LEMMA SameAge ==
  ASSUME history_num \in Slots, NEW s \in Slots, NEW t \in Slots, Back(s) = Back(t)
  PROVE  s = t
  BY DebuggerAssumption DEF Slots, Back

-----------------------------------------------------------------------------
LEMMA Initially == Init => DebuggerInv
<1> SUFFICES ASSUME Init PROVE DebuggerInv
  OBVIOUS
<1> USE DebuggerAssumption DEF Init
<1>1. StateTyped /\ KeyTyped
  <2>1. 0 \in Slots /\ 0 \in 0 .. MAX_FRAMES /\ 0 \in Times /\ NUM_HISTORY \in 0 .. NUM_HISTORY
    BY DEF Slots, Times
  <2>2. KeyTyped
    BY <2>1 DEF KeyTyped, NoKey
  <2>3. ring \in [Slots -> 0 .. MAX_FRAMES]
    BY <2>1
  <2>4. screen \in [slot : Slots, frame : 0 .. MAX_FRAMES, reverse : BOOLEAN]
    BY <2>1
  <2>5. QED
    BY <2>1, <2>2, <2>3, <2>4 DEF StateTyped
<1>2. Received = 0
  BY DEF Received
<1>3. Turns /\ EndKnown
  BY <1>2 DEF Turns, EndKnown, Says
<1>4. RingExact
  BY <1>2 DEF RingExact, Back, Slots
<1>5. ScreenExact
  BY <1>2 DEF ScreenExact, Slots
<1>6. QED
  BY <1>1, <1>3, <1>4, <1>5 DEF DebuggerInv

LEMMA Counted ==
  ASSUME StateTyped
  PROVE  /\ data \in {<<>>, <<0>>} => Received = frames
         /\ data = <<frames>> /\ frames > 0 => Received = frames - 1
  BY Lines DEF Received, StateTyped

LEMMA SimStep ==
  ASSUME DebuggerInv, Sim
  PROVE  DebuggerInv'
<1> USE DEF DebuggerInv
<1>1. CASE Dump
  <2>1. data = <<>> /\ Says(<<>>) /\ ~over /\ Received = frames
    BY <1>1, Counted DEF Dump, Turns
  <2>2. data' = <<frames'>> /\ frames' = frames + 1 /\ frames' > 0
    BY <1>1, <2>1, Lines DEF Dump, StateTyped
  <2>3. Received' = Received
    BY <2>1, <2>2, Lines DEF Received, StateTyped
  <2>4. StateTyped' /\ KeyTyped'
    <3>1. frames' \in 0 .. MAX_FRAMES
      BY <1>1, <2>2, DebuggerAssumption DEF Dump, StateTyped
    <3>2. QED
      BY <1>1, <3>1 DEF Dump, debuggerVars, ringVars, modeVars, StateTyped, KeyTyped
  <2>5. Turns'
    BY <1>1, <2>1, <2>2 DEF Dump, debuggerVars, Turns, Says
  <2>6. EndKnown'
    BY <1>1, <2>1, <2>2, <2>3, Lines DEF Dump, debuggerVars, ringVars, EndKnown
  <2>7. RingExact' /\ ScreenExact'
    BY <1>1, <2>3 DEF Dump, debuggerVars, ringVars, modeVars, RingExact, ScreenExact, Back
  <2>8. QED
    BY <2>4, <2>5, <2>6, <2>7
<1>2. CASE Finish
  <2>1. data = <<>> /\ Says(<<>>) /\ ~over /\ Received = frames /\ frames > 0
    BY <1>2, Counted DEF Finish, Turns
  <2>2. data' = <<0>> /\ frames' = frames
    BY <1>2, <2>1, Lines DEF Finish
  <2>3. Received' = Received
    BY <2>1, <2>2, Lines DEF Received
  <2>4. StateTyped' /\ KeyTyped'
    BY <1>2, <2>2 DEF Finish, debuggerVars, ringVars, modeVars, StateTyped, KeyTyped
  <2>5. Turns'
    BY <1>2, <2>1, <2>2 DEF Finish, debuggerVars, Turns, Says
  <2>6. EndKnown'
    BY <1>2, <2>1, <2>2, <2>3, Lines DEF Finish, debuggerVars, ringVars, EndKnown
  <2>7. RingExact' /\ ScreenExact'
    BY <1>2, <2>3 DEF Finish, debuggerVars, ringVars, modeVars, RingExact, ScreenExact, Back
  <2>8. QED
    BY <2>4, <2>5, <2>6, <2>7
<1>3. CASE waitforresponse
  <2>1. /\ answer # <<>> /\ answer' = Tail(answer)
        /\ UNCHANGED <<frames, over, data, debuggerVars>>
    BY <1>3 DEF waitforresponse
  <2>2. sim' \in {"run", "wait", "addr1", "addr2", "flush", "exit"} /\ Turns'
    <3>1. CASE sim = "wait" /\ ~over /\ data = <<>> /\ Says(<<"n", "0", "0">>)
      <4>1. sim' = "addr1" /\ Says(<<"0", "0">>)'
        BY <1>3, <2>1, <3>1, HeadBytes, BytesZ DEF waitforresponse, Says, debuggerVars
      <4>2. QED
        BY <2>1, <3>1, <4>1 DEF Turns
    <3>2. CASE sim = "addr1" /\ ~over /\ data = <<>> /\ Says(<<"0", "0">>)
      <4>1. sim' = "addr2" /\ Says(<<"0">>)'
        BY <1>3, <2>1, <3>2, HeadBytes, BytesZ DEF waitforresponse, Says, debuggerVars
      <4>2. QED
        BY <2>1, <3>2, <4>1 DEF Turns
    <3>3. CASE sim = "addr2" /\ ~over /\ data = <<>> /\ Says(<<"0">>)
      <4>1. sim' = "run" /\ Says(<<>>)'
        BY <1>3, <2>1, <3>3, HeadBytes, BytesZ DEF waitforresponse, Says, debuggerVars
      <4>2. QED
        BY <2>1, <3>3, <4>1 DEF Turns
    <3>4. CASE sim = "wait" /\ data \in {<<>>, <<0>>, <<frames>>} /\ Says(<<>>)
      <4>1. pc = "exit" /\ sim' = "exit" /\ answer' = <<>>
        BY <1>3, <2>1, <3>4, BytesZ DEF waitforresponse, Says
      <4>2. QED
        BY <2>1, <3>4, <4>1 DEF Turns, debuggerVars
    <3>5. QED
      BY <1>3, <3>1, <3>2, <3>3, <3>4 DEF waitforresponse, Turns
  <2>3. Received' = Received
    BY <2>1 DEF Received
  <2>4. StateTyped' /\ KeyTyped'
    BY <2>1, <2>2 DEF debuggerVars, ringVars, modeVars, StateTyped, KeyTyped
  <2>5. EndKnown'
    BY <1>3, <2>1, <2>3 DEF waitforresponse, debuggerVars, ringVars, EndKnown
  <2>6. RingExact' /\ ScreenExact'
    BY <2>1, <2>3 DEF debuggerVars, ringVars, modeVars, RingExact, ScreenExact, Back
  <2>7. QED
    BY <2>2, <2>4, <2>5, <2>6
<1>4. QED
  BY <1>1, <1>2, <1>3 DEF Sim

(* The simulator does not touch what is shown. *)
LEMMA SimShows ==
  ASSUME Sim
  PROVE  UNCHANGED <<pc, screen, ring>>
  BY DEF Sim, Dump, Finish, waitforresponse, debuggerVars, ringVars

-----------------------------------------------------------------------------
(* A frame comes into the slot of the oldest, and all others age by one. *)
LEMMA ReceiveFrame ==
  ASSUME DebuggerInv, Receive, Head(data) # 0
  PROVE  DebuggerInv' /\ InvertChanges
<1> USE DEF DebuggerInv
<1>1. pc = "read" /\ ~done_received /\ data # <<>> /\ data' = Tail(data)
  BY DEF Receive
<1>2. sim = "wait" /\ ~over /\ data = <<frames>> /\ frames > 0 /\ answer = <<>>
  BY <1>1, Lines DEF Turns, Says
<1>3. Advance(FALSE, [ring EXCEPT ![history_num] = frames])
  BY <1>2, Lines DEF Receive, processinput
<1> DEFINE next == IF history_num = NUM_HISTORY - 1 THEN 0 ELSE history_num + 1
           new  == [ring EXCEPT ![history_num] = frames]
<1>4. Rem(history_num + 1) = next
  BY RemNext DEF StateTyped
<1>5. /\ ring' = new /\ done_received' = FALSE /\ running' = running /\ echo_data' = echo_data
      /\ screen' = IF echo_data THEN parsedata(new, history_num) ELSE screen
      /\ history_num' = next /\ time_wrapped' = (time_wrapped \/ history_num + 1 = NUM_HISTORY)
      /\ hist_num_temp' = IF next = 0 THEN NUM_HISTORY - 1 ELSE next - 1
      /\ answer' = answer \o <<"n", "0", "0">> /\ pc' = "getch"
      /\ UNCHANGED <<simVars, goto_flag, cycle_flag, stop_time, i, resp>>
  BY <1>3, <1>4 DEF Advance, Answer, StateTyped, EndKnown
<1>6. hist_num_temp' = history_num /\ next \in Slots /\ history_num \in Slots
  BY <1>5, DebuggerAssumption DEF StateTyped, Slots
<1>7. /\ new \in [Slots -> 0 .. MAX_FRAMES] /\ new[history_num] = frames
      /\ \A s \in Slots : s # history_num => new[s] = ring[s]
  BY DEF StateTyped
<1>8. Received = frames - 1 /\ Received' = frames /\ frames \in Nat /\ frames' = frames
  BY <1>1, <1>2, <1>5, Lines DEF Received, StateTyped, simVars
<1>9. StateTyped' /\ KeyTyped'
  <2>1. screen' \in [slot : Slots, frame : 0 .. MAX_FRAMES, reverse : BOOLEAN]
    <3>1. CASE echo_data
      <4>1. Frame(new, history_num) = frames /\ frames \in 0 .. MAX_FRAMES
        BY <1>6, <1>7 DEF Frame, StateTyped
      <4>2. QED
        BY <1>5, <1>6, <3>1, <4>1 DEF parsedata
    <3>2. CASE ~echo_data
      BY <1>5, <3>2 DEF StateTyped
    <3>3. QED
      BY <3>1, <3>2
  <2>2. time_wrapped' \in BOOLEAN
    BY <1>5
  <2>3. QED
    BY <1>5, <1>6, <1>7, <2>1, <2>2 DEF StateTyped, KeyTyped, simVars
<1>10. Turns'
  <2>1. data' = <<>> /\ answer' = <<"n", "0", "0">>
    BY <1>1, <1>2, <1>5, Lines, Bytes
  <2>2. QED
    BY <1>2, <1>5, <2>1 DEF Turns, Says, simVars
<1>11. EndKnown'
  BY <1>1, <1>2, <1>5, <1>8, Lines DEF EndKnown, simVars
<1>12. RingExact'
  <2>1. ASSUME NEW s \in Slots
        PROVE  new[s] = IF Back(s)' <= frames THEN frames + 1 - Back(s)' ELSE 0
    <3>1. Back(s)' = IF s = history_num THEN 1 ELSE Back(s) + 1
      BY <1>5, <1>6, DebuggerAssumption DEF Back, Slots
    <3>2. Back(s) \in Nat
      BY <1>6, BackRange
    <3>3. CASE s = history_num
      BY <1>2, <1>7, <1>8, <3>1, <3>3
    <3>4. CASE s # history_num
      BY <1>7, <1>8, <3>1, <3>2, <3>4 DEF RingExact
    <3>5. QED
      BY <3>3, <3>4
  <2>2. (time_wrapped' <=> frames >= NUM_HISTORY) /\ (~time_wrapped' => next = frames)
    <3>1. CASE time_wrapped
      <4>1. time_wrapped' = TRUE /\ Received >= NUM_HISTORY
        BY <1>5, <3>1 DEF RingExact
      <4>2. QED
        BY <1>8, <4>1, DebuggerAssumption
    <3>2. CASE ~time_wrapped
      <4>1. (time_wrapped' <=> history_num + 1 = NUM_HISTORY) /\ history_num = frames - 1
        BY <1>5, <1>8, <3>2 DEF RingExact, StateTyped
      <4>2. QED
        BY <1>6, <1>8, <4>1, DebuggerAssumption DEF Slots
    <3>3. QED
      BY <3>1, <3>2
  <2>3. ~time_wrapped' => history_num' = frames
    BY <1>5, <2>2
  <2>4. QED
    BY <1>5, <1>8, <2>1, <2>2, <2>3 DEF RingExact
<1>13. CASE echo_data
  <2>1. screen' = [slot |-> history_num, frame |-> frames, reverse |-> frames # Frame(new, screen.slot)]
    BY <1>5, <1>6, <1>7, <1>13 DEF parsedata, Frame
  <2>2. ScreenExact'
    BY <1>2, <1>5, <1>6, <1>7, <1>8, <2>1 DEF ScreenExact
  <2>3. InvertChanges
    <3> SUFFICES ASSUME screen.frame # 0, screen'.reverse /= (screen'.frame # screen.frame)
                 PROVE  \A s \in Slots : new[s] # screen.frame
      BY <1>5 DEF InvertChanges
    <3>1. new[screen.slot] # screen.frame /\ screen.slot \in Slots
      BY <2>1 DEF Frame, StateTyped
    <3>2. screen.frame \in Nat /\ screen.frame <= Received
      BY DEF StateTyped, ScreenExact
    <3>3. screen.frame + NUM_HISTORY <= frames
      <4>1. CASE ring[screen.slot] = screen.frame
        <5>1. screen.slot = history_num /\ Back(history_num) = NUM_HISTORY
          BY <1>6, <1>7, <3>1, <4>1, BackRange
        <5>2. ring[history_num] = IF NUM_HISTORY <= Received THEN Received + 1 - NUM_HISTORY ELSE 0
          BY <1>6, <5>1 DEF RingExact
        <5>3. QED
          BY <1>8, <3>2, <4>1, <5>1, <5>2, DebuggerAssumption
      <4>2. CASE screen.frame + NUM_HISTORY <= Received
        BY <1>8, <3>2, <4>2, DebuggerAssumption
      <4>3. QED
        BY <4>1, <4>2 DEF ScreenExact
    <3>4. ASSUME NEW s \in Slots, new[s] = screen.frame
          PROVE  FALSE
      <4>1. Back(s)' \in 1 .. NUM_HISTORY
        <5>1. history_num' \in Slots
          BY <1>5, <1>6
        <5>2. Back(s)' = IF s < history_num' THEN history_num' - s
                         ELSE history_num' - s + NUM_HISTORY
          BY DEF Back
        <5>3. QED
          BY <3>4, <5>1, <5>2, AgeRange
      <4>2. new[s] = IF Back(s)' <= frames THEN frames + 1 - Back(s)' ELSE 0
        BY <1>5, <1>8, <1>12 DEF RingExact
      <4>3. QED
        BY <1>8, <3>2, <3>3, <3>4, <4>1, <4>2, DebuggerAssumption
    <3>5. QED
      BY <3>4
  <2>4. QED
    BY <1>9, <1>10, <1>11, <1>12, <2>2, <2>3
<1>14. CASE ~echo_data
  <2>1. screen' = screen /\ running'
    BY <1>5, <1>14 DEF ScreenExact
  <2>2. screen.frame # 0 => \/ new[screen.slot] = screen.frame
                            \/ screen.frame + NUM_HISTORY <= frames
    <3> SUFFICES ASSUME screen.frame # 0, new[screen.slot] # screen.frame
                 PROVE  screen.frame + NUM_HISTORY <= frames
      OBVIOUS
    <3>1. screen.frame \in Nat /\ screen.slot \in Slots
      BY DEF StateTyped
    <3>2. CASE screen.slot = history_num /\ ring[screen.slot] = screen.frame
      <4>1. Back(history_num) = NUM_HISTORY
        BY <1>6, BackRange
      <4>2. ring[history_num] = IF NUM_HISTORY <= Received THEN Received + 1 - NUM_HISTORY ELSE 0
        BY <1>6, <4>1 DEF RingExact
      <4>3. QED
        BY <1>8, <3>1, <3>2, <4>2, DebuggerAssumption
    <3>3. CASE ~(screen.slot = history_num /\ ring[screen.slot] = screen.frame)
      BY <1>7, <1>8, <3>1, <3>3, DebuggerAssumption DEF ScreenExact
    <3>4. QED
      BY <3>2, <3>3
  <2>3. ScreenExact'
    BY <1>5, <1>8, <1>14, <2>1, <2>2 DEF ScreenExact, StateTyped
  <2>4. QED
    BY <1>9, <1>10, <1>11, <1>12, <2>1, <2>3 DEF InvertChanges
<1>15. QED
  BY <1>13, <1>14

(* The end is met in a run, which it ends at the newest frame. *)
LEMMA MeetEnd ==
  ASSUME DebuggerInv, UntilDefect, Again \/ Receive, atEnd
  PROVE  DebuggerInv' /\ InvertChanges
<1> USE DEF DebuggerInv
<1>1. pc = "read" /\ ~echo_data /\ history_num # 0 /\ history_num \in Slots
  BY DEF Again, Receive, UntilDefect, ShowsUnreceived, ShowsOutside, StateTyped
<1>2. /\ over /\ sim = "wait" /\ answer = <<>> /\ data \in {<<>>, <<0>>}
      /\ data' = <<>> /\ Received > 0 /\ Received' = Received /\ Advance(TRUE, ring)
  <2>1. data' = <<>> /\ Advance(TRUE, ring) /\ over /\ data \in {<<>>, <<0>>}
    <3>1. CASE Again
      BY <3>1 DEF Again, EndKnown
    <3>2. CASE Receive
      <4>1. Head(data) = 0 /\ data # <<>> /\ data' = Tail(data)
        BY <3>2 DEF Receive, atEnd
      <4>2. data = <<0>> /\ over
        BY <1>1, <4>1, Lines DEF Turns, StateTyped
      <4>3. QED
        BY <3>2, <4>1, <4>2, Lines DEF Receive, processinput
    <3>3. QED
      BY <3>1, <3>2
  <2>2. sim = "wait" /\ answer = <<>>
    BY <1>1, <2>1 DEF Turns, Says
  <2>3. UNCHANGED frames
    BY <2>1 DEF Advance, simVars
  <2>4. Received' = Received
    BY <2>1, <2>3, Lines DEF Received
  <2>5. Received > 0
    BY <2>1 DEF EndKnown
  <2>6. QED
    BY <2>1, <2>2, <2>4, <2>5
<1> DEFINE newest_ == history_num - 1
<1>3. newest_ \in Slots /\ Rem(history_num - 1) = newest_ /\ Rem(newest_ + 1) = history_num
  BY <1>1, RemNext, DebuggerAssumption DEF Slots
<1>4. /\ ring' = ring /\ done_received' = TRUE /\ running' = FALSE /\ echo_data' = TRUE
      /\ screen' = parsedata(ring, newest_) /\ history_num' = history_num
      /\ time_wrapped' = (time_wrapped \/ newest_ + 1 = NUM_HISTORY)
      /\ hist_num_temp' = newest_ /\ answer' = answer \o <<>> /\ pc' = "getch"
      /\ UNCHANGED <<simVars, goto_flag, cycle_flag, stop_time, i, resp>>
  BY <1>1, <1>2, <1>3 DEF Advance, Answer
<1>5. time_wrapped' = time_wrapped
  BY <1>1, <1>4, DebuggerAssumption DEF Slots, StateTyped
<1>6. ring[newest_] = Received /\ Received \in Nat
  <2>1. Back(newest_) = 1
    BY <1>1, DebuggerAssumption DEF Back, Slots
  <2>2. Received \in Nat
    BY <1>2, Counted DEF StateTyped
  <2>3. QED
    BY <1>2, <1>3, <2>1, <2>2 DEF RingExact
<1>7. screen' = [slot |-> newest_, frame |-> Received, reverse |-> Received # ring[screen.slot]]
  BY <1>3, <1>4, <1>6 DEF parsedata, Frame, StateTyped
<1>8. StateTyped' /\ KeyTyped'
  <2>1. Received \in 0 .. MAX_FRAMES
    BY <1>3, <1>6 DEF StateTyped
  <2>2. screen' \in [slot : Slots, frame : 0 .. MAX_FRAMES, reverse : BOOLEAN]
    BY <1>3, <1>7, <2>1
  <2>3. QED
    BY <1>3, <1>4, <1>5, <2>2 DEF StateTyped, KeyTyped, simVars
<1>9. Turns' /\ EndKnown'
  BY <1>2, <1>4, Bytes DEF Turns, Says, EndKnown, simVars
<1>10. RingExact'
  BY <1>2, <1>4, <1>5 DEF RingExact, Back
<1>11. ScreenExact'
  BY <1>2, <1>3, <1>4, <1>6, <1>7 DEF ScreenExact
<1>12. InvertChanges
  <2> SUFFICES ASSUME screen.frame # 0, ring[screen.slot] # screen.frame
               PROVE  \A s \in Slots : ring[s] # screen.frame
    <3>1. screen'.reverse = (Received # ring[screen.slot]) /\ screen'.frame = Received
      BY <1>7
    <3>2. QED
      BY <1>4, <3>1, Zenon DEF InvertChanges
  <2>1. screen.frame \in Nat /\ screen.frame + NUM_HISTORY <= Received
    BY DEF ScreenExact, StateTyped
  <2>2. QED
    BY <1>1, <1>6, <2>1, BackRange, DebuggerAssumption DEF RingExact
<1>13. QED
  BY <1>8, <1>9, <1>10, <1>11, <1>12

-----------------------------------------------------------------------------
(* What every key but q leaves as it is. *)
LEMMA KeyKeeps ==
  ASSUME DebuggerInv, pc \in {"getch", "key"}, pc' \in {"read", "getch", "key"},
         UNCHANGED <<otherVars, answer>>
  PROVE  /\ Turns' /\ EndKnown' /\ RingExact'
         /\ Received' = Received /\ Received \in Nat /\ Received > 0
<1> USE DEF DebuggerInv, otherVars, simVars, ringVars
<1>1. Received' = Received
  BY DEF Received
<1>2. Turns'
  BY DEF Turns, Says
<1>3. Received > 0
  BY DEF EndKnown
<1>4. Received \in Nat
  <2>1. data \in {<<>>, <<0>>, <<frames>>}
    BY DEF Turns
  <2>2. QED
    BY <1>3, <2>1, Lines DEF Received, StateTyped
<1>5. EndKnown'
  BY <1>1, <1>3 DEF EndKnown
<1>6. RingExact'
  BY <1>1 DEF RingExact, Back
<1>7. QED
  BY <1>1, <1>2, <1>3, <1>4, <1>5, <1>6

(* What the user sees when asked is the selected frame. *)
LEMMA Selected ==
  ASSUME DebuggerInv, pc = "key", ~running, Received \in Nat
  PROVE  /\ echo_data /\ hist_num_temp \in Slots /\ history_num \in Slots
         /\ screen.slot = hist_num_temp /\ screen.frame = ring[hist_num_temp]
         /\ ring[hist_num_temp] = Received + 1 - Back(hist_num_temp)
         /\ Back(hist_num_temp) \in 1 .. NUM_HISTORY /\ Back(hist_num_temp) <= Received
         /\ ring[hist_num_temp] \in Nat /\ ring[hist_num_temp] # 0
<1> USE DEF DebuggerInv
<1>1. /\ echo_data /\ hist_num_temp \in Slots /\ history_num \in Slots
      /\ screen.slot = hist_num_temp /\ screen.frame = ring[hist_num_temp]
      /\ ring[hist_num_temp] # 0
  BY DEF ScreenExact, StateTyped
<1>2. Back(hist_num_temp) \in 1 .. NUM_HISTORY
  BY <1>1, BackRange
<1>3. QED
  BY <1>1, <1>2, DebuggerAssumption DEF RingExact

(* What drawing a slot does. *)
LEMMA Drawn ==
  ASSUME DebuggerInv, NEW s \in Slots, screen' = parsedata(ring, s), ring' = ring,
         Received' = Received, Received \in Nat
  PROVE  /\ screen' = [slot |-> s, frame |-> ring[s], reverse |-> ring[s] # ring[screen.slot]]
         /\ screen' \in [slot : Slots, frame : 0 .. MAX_FRAMES, reverse : BOOLEAN]
         /\ screen'.slot = s /\ screen'.frame = ring[s] /\ ring'[screen'.slot] = screen'.frame
         /\ screen'.frame <= Received'
         /\ InvertChanges
<1> USE DEF DebuggerInv
<1>1. screen.slot \in Slots /\ ring[s] \in 0 .. MAX_FRAMES /\ history_num \in Slots
  BY DEF StateTyped
<1>2. screen' = [slot |-> s, frame |-> ring[s], reverse |-> ring[s] # ring[screen.slot]]
  BY <1>1 DEF parsedata, Frame
<1>3. \A t \in Slots : ring[t] = IF Back(t) <= Received THEN Received + 1 - Back(t) ELSE 0
  BY DEF RingExact
<1>4. ring[s] <= Received
  BY <1>1, <1>3, BackRange, DebuggerAssumption
<1>5. InvertChanges
  <2> SUFFICES ASSUME screen.frame # 0, ring[screen.slot] # screen.frame
               PROVE  \A t \in Slots : ring[t] # screen.frame
    <3>1. screen'.reverse = (ring[s] # ring[screen.slot]) /\ screen'.frame = ring[s]
      BY <1>2
    <3>2. QED
      BY <3>1, Zenon DEF InvertChanges
  <2>1. screen.frame \in Nat /\ screen.frame + NUM_HISTORY <= Received
    BY DEF ScreenExact, StateTyped
  <2>2. QED
    BY <1>1, <1>3, <2>1, BackRange, DebuggerAssumption
<1>6. screen' \in [slot : Slots, frame : 0 .. MAX_FRAMES, reverse : BOOLEAN]
  BY <1>1, <1>2
<1>7. QED
  BY <1>2, <1>4, <1>5, <1>6

LEMMA PressStep ==
  ASSUME DebuggerInv, Pressed
  PROVE  DebuggerInv'
<1> USE DEF DebuggerInv
<1>1. PICK key \in {"n", "b", "r", "p", "q", "g", "c", "ERR"}, time \in Times : Press(key, time)
  BY DEF Pressed
<1>2. pc = "getch" /\ pc' = "key" /\ resp' = [key |-> key, time |-> time]
  BY <1>1 DEF Press
<1>3. UNCHANGED <<simVars, data, answer, ringVars, hist_num_temp, modeVars, i, screen>>
  BY <1>1 DEF Press
<1>4. Turns' /\ EndKnown' /\ RingExact' /\ Received' = Received
  BY <1>2, <1>3, KeyKeeps DEF otherVars
<1>5. StateTyped' /\ KeyTyped'
  BY <1>2, <1>3 DEF StateTyped, KeyTyped, simVars, ringVars, modeVars
<1>6. ScreenExact'
  BY <1>2, <1>3, <1>4 DEF ScreenExact, ringVars, modeVars
<1>7. QED
  BY <1>4, <1>5, <1>6

(* Staying with another slot, and with the same. *)
LEMMA StayStep ==
  ASSUME DebuggerInv, pc = "key", ~running, NEW s \in Slots, ring[s] # 0, Stay(s),
         UNCHANGED <<otherVars, i, resp>>
  PROVE  DebuggerInv' /\ InvertChanges /\ screen'.frame = ring[s]
<1> USE DEF DebuggerInv
<1>1. /\ hist_num_temp' = s /\ screen' = parsedata(ring, s) /\ pc' = "getch"
      /\ UNCHANGED <<modeVars, answer>> /\ ring' = ring
  BY DEF Stay, otherVars, ringVars
<1>2. /\ Turns' /\ EndKnown' /\ RingExact' /\ Received' = Received /\ Received \in Nat
  BY <1>1, KeyKeeps
<1>3. /\ screen' \in [slot : Slots, frame : 0 .. MAX_FRAMES, reverse : BOOLEAN]
      /\ screen'.slot = s /\ screen'.frame = ring[s] /\ ring'[screen'.slot] = screen'.frame
      /\ screen'.frame <= Received' /\ InvertChanges
  BY <1>1, <1>2, Drawn
<1>4. StateTyped' /\ KeyTyped'
  BY <1>1, <1>3 DEF StateTyped, KeyTyped, otherVars, simVars, ringVars, modeVars
<1>5. ScreenExact'
  BY <1>1, <1>3 DEF ScreenExact, modeVars
<1>6. QED
  BY <1>2, <1>3, <1>4, <1>5

LEMMA IgnoreStep ==
  ASSUME DebuggerInv, pc = "key", Ignore, UNCHANGED <<otherVars, resp>>, i' \in 0 .. NUM_HISTORY
  PROVE  DebuggerInv' /\ InvertChanges
<1> USE DEF DebuggerInv, Ignore
<1>1. Turns' /\ EndKnown' /\ RingExact' /\ Received' = Received
  BY KeyKeeps
<1>2. StateTyped' /\ KeyTyped'
  BY DEF StateTyped, KeyTyped, otherVars, simVars, ringVars, modeVars
<1>3. ScreenExact'
  BY <1>1 DEF ScreenExact, otherVars, ringVars, modeVars
<1>4. QED
  BY <1>1, <1>2, <1>3 DEF InvertChanges

(* Leaving the key loop, whether or not the selected slot is drawn again. *)
LEMMA LeaveStep ==
  ASSUME DebuggerInv, pc = "key", NEW going \in BOOLEAN, NEW time \in Times,
         NEW cycle \in BOOLEAN, NEW run \in BOOLEAN, NEW echo \in BOOLEAN, NEW garbage,
         echo <=> ~run, Leave(going, time, cycle, run, echo, garbage),
         UNCHANGED <<otherVars, answer, hist_num_temp, resp>>, i' \in 0 .. NUM_HISTORY,
         screen' = screen \/ screen' = parsedata(ring, hist_num_temp)
  PROVE  DebuggerInv' /\ InvertChanges
<1> USE DEF DebuggerInv
<1> DEFINE there == going /\ (Reading(hist_num_temp, cycle, garbage) >= time \/ done_received)
<1>1. /\ goto_flag' = (going /\ ~there) /\ running' = (run /\ ~there)
      /\ echo_data' = (echo \/ there) /\ stop_time' = time /\ cycle_flag' = cycle
      /\ pc' = "read"
  BY DEF Leave
<1>2. Turns' /\ EndKnown' /\ RingExact' /\ Received' = Received /\ Received \in Nat
  BY <1>1, KeyKeeps
<1>3. goto_flag' \in BOOLEAN /\ running' \in BOOLEAN /\ echo_data' \in BOOLEAN
  BY <1>1, Zenon
<1>4. echo_data' <=> ~running'
  <2> HIDE DEF there
  <2>1. (echo \/ there) <=> ~(run /\ ~there)
    BY Zenon
  <2>2. QED
    BY <1>1, <2>1, Zenon
<1>5. /\ screen' \in [slot : Slots, frame : 0 .. MAX_FRAMES, reverse : BOOLEAN]
      /\ screen'.frame # 0 =>
           /\ screen'.frame <= Received
           /\ ring[screen'.slot] = screen'.frame \/ screen'.frame + NUM_HISTORY <= Received
      /\ InvertChanges
  <2>1. CASE screen' = screen
    BY <2>1 DEF StateTyped, ScreenExact, InvertChanges
  <2>2. CASE screen' = parsedata(ring, hist_num_temp)
    <3>1. hist_num_temp \in Slots /\ ring' = ring
      BY DEF StateTyped, otherVars, ringVars
    <3>2. QED
      BY <1>2, <2>2, <3>1, Drawn
  <2>3. QED
    BY <2>1, <2>2
<1>6. StateTyped' /\ KeyTyped'
  BY <1>1, <1>3, <1>5 DEF StateTyped, KeyTyped, otherVars, simVars, ringVars
<1>7. ScreenExact'
  BY <1>1, <1>2, <1>4, <1>5 DEF ScreenExact, otherVars, ringVars
<1>8. QED
  BY <1>2, <1>5, <1>6, <1>7

-----------------------------------------------------------------------------
(* The keys; each shows what it promises.  Shows is what KeysShow says of a step. *)
Shows == MoveByOne /\ GoToNearest /\ InvertChanges

LEMMA RunningKey ==
  ASSUME DebuggerInv, KeyRunning
  PROVE  DebuggerInv' /\ Shows
<1> USE DEF DebuggerInv
<1>1. /\ pc = "key" /\ running /\ echo_data = FALSE
      /\ UNCHANGED <<otherVars, hist_num_temp, answer, i, resp>>
  BY DEF KeyRunning, ScreenExact, StateTyped
<1>2. PICK garbage \in Times :
        Leave(goto_flag, stop_time, cycle_flag, resp.key # "p", echo_data \/ resp.key = "p", garbage)
  BY DEF KeyRunning
<1> DEFINE run  == resp.key # "p"
           echo == echo_data \/ resp.key = "p"
<1>3. run \in BOOLEAN /\ echo \in BOOLEAN /\ (echo <=> ~run)
  BY <1>1
<1>4. screen' = screen \/ screen' = parsedata(ring, hist_num_temp)
  BY DEF KeyRunning
<1>5. Leave(goto_flag, stop_time, cycle_flag, run, echo, garbage)
  BY <1>2
<1>6. /\ goto_flag \in BOOLEAN /\ stop_time \in Times /\ cycle_flag \in BOOLEAN
      /\ i' \in 0 .. NUM_HISTORY
  BY <1>1 DEF StateTyped
<1> HIDE DEF run, echo
<1>7. DebuggerInv' /\ InvertChanges
  BY <1>1, <1>3, <1>4, <1>5, <1>6, LeaveStep
<1>8. QED
  BY <1>1, <1>7 DEF Shows, MoveByOne, GoToNearest

LEMMA NextKey ==
  ASSUME DebuggerInv, UntilDefect, KeyNext
  PROVE  DebuggerInv' /\ Shows
<1> USE DEF DebuggerInv
<1>1. /\ pc = "key" /\ ~running /\ resp.key = "n" /\ UNCHANGED <<otherVars, i, resp>>
  BY DEF KeyNext
<1>2. Received \in Nat
  BY <1>1, Counted DEF EndKnown, StateTyped, Turns
<1> DEFINE h == hist_num_temp
<1>3. /\ echo_data /\ h \in Slots /\ history_num \in Slots
      /\ screen.slot = h /\ screen.frame = ring[h] /\ ring[h] = Received + 1 - Back(h)
      /\ Back(h) \in 1 .. NUM_HISTORY /\ Back(h) <= Received
  BY <1>1, <1>2, Selected
<1>4. newest = history_num - 1
  BY <1>3, RemNext DEF newest
<1>5. ~(history_num = 0 /\ h = NUM_HISTORY - 1)
  BY <1>1 DEF UntilDefect, NextWraps, prompt
<1>6. CASE h # newest
  <2> DEFINE s == IF h = NUM_HISTORY - 1 THEN 0 ELSE h + 1
  <2>1. Stay(s)
    BY <1>3, <1>6, RemNext DEF KeyNext
  <2>2. s \in Slots /\ Back(s) = Back(h) - 1 /\ Back(s) >= 1
    BY <1>3, <1>4, <1>5, <1>6, DebuggerAssumption DEF Back, Slots
  <2>3. ring[s] = ring[h] + 1 /\ ring[s] # 0
    BY <1>2, <1>3, <2>2 DEF RingExact
  <2> HIDE DEF s
  <2>4. DebuggerInv' /\ InvertChanges /\ screen'.frame = ring[s]
    BY <1>1, <2>1, <2>2, <2>3, StayStep
  <2>5. QED
    BY <1>1, <1>3, <2>3, <2>4 DEF Shows, MoveByOne, GoToNearest
<1>7. CASE h = newest
  <2>1. Back(h) = 1
    BY <1>3, <1>4, <1>7, DebuggerAssumption DEF Back, Slots
  <2>2. \A s \in Slots : ring[s] <= screen.frame
    BY <1>2, <1>3, <2>1, BackRange, DebuggerAssumption DEF RingExact
  <2>3. CASE done_received
    <3>1. Ignore /\ i' \in 0 .. NUM_HISTORY
      BY <1>1, <1>7, <2>3 DEF KeyNext, StateTyped
    <3>2. DebuggerInv' /\ InvertChanges /\ screen' = screen
      BY <1>1, <3>1, IgnoreStep DEF Ignore
    <3>3. QED
      BY <1>1, <2>2, <3>2 DEF Shows, MoveByOne, GoToNearest
  <2>4. CASE ~done_received
    <3>1. /\ \E garbage \in Times : Leave(goto_flag, stop_time, cycle_flag, FALSE, echo_data, garbage)
          /\ UNCHANGED <<hist_num_temp, screen, answer>>
      BY <1>7, <2>4 DEF KeyNext
    <3>2. PICK garbage \in Times : Leave(goto_flag, stop_time, cycle_flag, FALSE, echo_data, garbage)
      BY <3>1
    <3>3. DebuggerInv' /\ InvertChanges
      <4>1. /\ goto_flag \in BOOLEAN /\ stop_time \in Times /\ cycle_flag \in BOOLEAN
            /\ echo_data \in BOOLEAN /\ (echo_data <=> ~FALSE) /\ i' \in 0 .. NUM_HISTORY
        BY <1>1, <1>3 DEF StateTyped
      <4>2. QED
        BY <1>1, <3>1, <3>2, <4>1, LeaveStep
    <3>4. QED
      BY <1>1, <2>2, <3>1, <3>3 DEF Shows, MoveByOne, GoToNearest
  <2>5. QED
    BY <2>3, <2>4
<1>8. QED
  BY <1>6, <1>7

LEMMA BackKey ==
  ASSUME DebuggerInv, UntilDefect, KeyBack
  PROVE  DebuggerInv' /\ Shows
<1> USE DEF DebuggerInv
<1>1. /\ pc = "key" /\ ~running /\ resp.key = "b" /\ UNCHANGED <<otherVars, i, resp>>
  BY DEF KeyBack
<1>2. Received \in Nat
  BY <1>1, Counted DEF EndKnown, StateTyped, Turns
<1> DEFINE h == hist_num_temp
<1>3. /\ h \in Slots /\ history_num \in Slots
      /\ screen.slot = h /\ screen.frame = ring[h] /\ ring[h] = Received + 1 - Back(h)
      /\ Back(h) \in 1 .. NUM_HISTORY /\ Back(h) <= Received
  BY <1>1, <1>2, Selected
<1>4. /\ time_wrapped <=> Received >= NUM_HISTORY
      /\ ~time_wrapped => history_num = Received
  BY DEF RingExact
<1>5. ~(time_wrapped /\ h = history_num)
  BY <1>1 DEF UntilDefect, BackWraps, prompt
<1>6. CASE h > 0 \/ time_wrapped
  <2> DEFINE s == IF h > 0 THEN h - 1 ELSE NUM_HISTORY - 1
  <2>1. Stay(s)
    BY <1>6 DEF KeyBack
  <2>2. s \in Slots /\ Back(s) = Back(h) + 1 /\ Back(s) <= Received
    <3>1. s \in Slots
      BY <1>3, DebuggerAssumption DEF Slots
    <3>2. Back(s) = Back(h) + 1
      <4>1. h # history_num
        BY <1>2, <1>3, <1>4, <1>5, BackRange
      <4>2. QED
        BY <1>3, <4>1, DebuggerAssumption DEF Back, Slots
    <3>3. Back(s) <= Received
      <4>1. CASE time_wrapped
        BY <1>2, <1>3, <1>4, <3>1, <4>1, BackRange, DebuggerAssumption
      <4>2. CASE ~time_wrapped
        BY <1>2, <1>3, <1>4, <1>6, <3>1, <4>2, BackRange, DebuggerAssumption DEF Back, Slots
      <4>3. QED
        BY <4>1, <4>2
    <3>4. QED
      BY <3>1, <3>2, <3>3
  <2>3. ring[s] = ring[h] - 1 /\ ring[s] # 0
    BY <1>2, <1>3, <2>2 DEF RingExact
  <2> HIDE DEF s
  <2>4. DebuggerInv' /\ InvertChanges /\ screen'.frame = ring[s]
    BY <1>1, <2>1, <2>2, <2>3, StayStep
  <2>5. QED
    BY <1>1, <1>3, <2>3, <2>4 DEF Shows, MoveByOne, GoToNearest
<1>7. CASE h = 0 /\ ~time_wrapped
  <2>1. screen.frame = 1
    BY <1>2, <1>3, <1>4, <1>7, DebuggerAssumption DEF Back, Slots
  <2>2. Ignore /\ i' \in 0 .. NUM_HISTORY
    BY <1>1, <1>7 DEF KeyBack, StateTyped
  <2>3. DebuggerInv' /\ InvertChanges /\ screen' = screen
    BY <1>1, <2>2, IgnoreStep DEF Ignore
  <2>4. QED
    BY <1>1, <2>1, <2>3 DEF Shows, MoveByOne, GoToNearest
<1>8. QED
  BY <1>3, <1>6, <1>7 DEF Slots

LEMMA RunKey ==
  ASSUME DebuggerInv, KeyRun
  PROVE  DebuggerInv' /\ Shows
<1> USE DEF DebuggerInv
<1>1. /\ pc = "key" /\ ~running /\ resp.key = "r"
      /\ UNCHANGED <<otherVars, hist_num_temp, screen, answer, i, resp>>
  BY DEF KeyRun
<1>2. PICK garbage \in Times : Leave(goto_flag, stop_time, cycle_flag, TRUE, FALSE, garbage)
  BY DEF KeyRun
<1>3. /\ goto_flag \in BOOLEAN /\ stop_time \in Times /\ cycle_flag \in BOOLEAN
      /\ (FALSE <=> ~TRUE) /\ i' \in 0 .. NUM_HISTORY
  BY <1>1 DEF StateTyped
<1>4. DebuggerInv' /\ InvertChanges
  BY <1>1, <1>2, <1>3, LeaveStep
<1>5. QED
  BY <1>1, <1>4 DEF Shows, MoveByOne, GoToNearest

LEMMA PauseKey ==
  ASSUME DebuggerInv, KeyPause
  PROVE  DebuggerInv' /\ Shows
<1> USE DEF DebuggerInv
<1>1. /\ pc = "key" /\ ~running /\ resp.key = "p" /\ echo_data' = TRUE
      /\ screen' = parsedata(ring, hist_num_temp) /\ pc' = "getch"
      /\ UNCHANGED <<otherVars, hist_num_temp, running, goto_flag, cycle_flag, stop_time,
                     answer, i, resp>>
  BY DEF KeyPause
<1>2. Received \in Nat
  BY <1>1, KeyKeeps
<1>3. Stay(hist_num_temp) /\ hist_num_temp \in Slots /\ ring[hist_num_temp] # 0
  <2>1. echo_data = TRUE /\ hist_num_temp \in Slots /\ ring[hist_num_temp] # 0
    BY <1>1, <1>2, Selected DEF StateTyped
  <2>2. QED
    BY <1>1, <2>1 DEF Stay, modeVars
<1>4. DebuggerInv' /\ InvertChanges
  BY <1>1, <1>3, StayStep
<1>5. QED
  BY <1>1, <1>4 DEF Shows, MoveByOne, GoToNearest

LEMMA QuitKey ==
  ASSUME DebuggerInv, KeyQuit
  PROVE  DebuggerInv' /\ Shows
<1> USE DEF DebuggerInv
<1>1. /\ pc = "key" /\ resp.key = "q" /\ answer' = Append(answer, "Z") /\ pc' = "exit"
      /\ UNCHANGED <<otherVars, hist_num_temp, screen, modeVars, i, resp>>
  BY DEF KeyQuit
<1> USE DEF otherVars, simVars, ringVars
<1>2. Received' = Received
  BY <1>1 DEF Received
<1>3. Turns'
  BY <1>1 DEF Turns, Says
<1>4. StateTyped' /\ KeyTyped'
  BY <1>1 DEF StateTyped, KeyTyped, modeVars
<1>5. EndKnown'
  BY <1>1, <1>2 DEF EndKnown
<1>6. RingExact' /\ ScreenExact'
  BY <1>1, <1>2 DEF RingExact, ScreenExact, Back, modeVars
<1>7. QED
  BY <1>1, <1>3, <1>4, <1>5, <1>6 DEF Shows, MoveByOne, GoToNearest, InvertChanges

-----------------------------------------------------------------------------
(* The search.  What it visits on its way are the frames behind, or before, the selected
   one, one after the other; from the oldest it goes backwards to the newest. *)
LEMMA MinIn ==
  ASSUME NEW S, S \subseteq Nat, S # {}
  PROVE  Min(S) \in S /\ \A x \in S : Min(S) <= x
<1>1. PICK x \in S : \A y \in S : ~(<<y, x>> \in OpToRel(<, Nat))
  BY WFMin, NatLessThanWellFounded
<1>2. ASSUME NEW y \in S PROVE x <= y
  <2>1. <<y, x>> \in Nat \X Nat /\ <<y, x>>[1] = y /\ <<y, x>>[2] = x
    OBVIOUS
  <2>2. ~(y < x)
    BY <1>1, <2>1 DEF OpToRel
  <2>3. QED
    BY <2>2
<1>3. QED
  BY <1>1, <1>2 DEF Min

LEMMA VisitedForth ==
  ASSUME DebuggerInv, pc = "key", ~running, NEW k \in visited(1)
  PROVE  /\ slotAt(1, k) \in Slots /\ k \in 1 .. NUM_HISTORY - 1
         /\ Back(slotAt(1, k)) = Back(hist_num_temp) - k /\ k < Back(hist_num_temp)
         /\ \A j \in 1 .. k : j \in visited(1)
<1> DEFINE h == hist_num_temp
<1>1. /\ k \in 1 .. NUM_HISTORY - 1 /\ \A j \in 1 .. k : slotAt(1, j) # history_num
      /\ \A j \in 1 .. k : j \in visited(1)
  BY DebuggerAssumption DEF visited
<1>2. h \in Slots /\ history_num \in Slots /\ Back(h) \in 1 .. NUM_HISTORY
  BY BackRange DEF DebuggerInv, StateTyped
<1>3. ASSUME NEW j \in 1 .. NUM_HISTORY - 1
      PROVE  slotAt(1, j) = IF h + j < NUM_HISTORY THEN h + j ELSE h + j - NUM_HISTORY
  BY <1>2, SlotForth
<1>4. k < Back(h)
  <2> SUFFICES ASSUME Back(h) <= k PROVE FALSE
    BY <1>1, <1>2, DebuggerAssumption
  <2>1. Back(h) \in 1 .. k /\ Back(h) \in 1 .. NUM_HISTORY - 1
    BY <1>1, <1>2, DebuggerAssumption
  <2>2. slotAt(1, Back(h)) = history_num
    BY <1>2, <1>3, <2>1, DebuggerAssumption DEF Back, Slots
  <2>3. QED
    BY <1>1, <2>1, <2>2
<1>5. slotAt(1, k) \in Slots /\ Back(slotAt(1, k)) = Back(h) - k
  BY <1>1, <1>2, <1>3, <1>4, DebuggerAssumption DEF Back, Slots
<1>6. QED
  BY <1>1, <1>4, <1>5

LEMMA VisitedBack ==
  ASSUME DebuggerInv, pc = "key", ~running, NEW k \in visited(-1),
         time_wrapped \/ hist_num_temp > 0, Received \in Nat
  PROVE  /\ slotAt(-1, k) \in Slots /\ k \in 1 .. NUM_HISTORY - 1
         /\ IF hist_num_temp = history_num THEN Back(slotAt(-1, k)) = k
            ELSE Back(slotAt(-1, k)) = Back(hist_num_temp) + k
         /\ Back(slotAt(-1, k)) <= Received
         /\ \A j \in 1 .. k : j \in visited(-1)
<1> DEFINE h == hist_num_temp
<1>1. /\ k \in 1 .. NUM_HISTORY - 1 /\ \A j \in 1 .. k : slotAt(-1, j) # history_num
      /\ ~time_wrapped /\ h > 0 => k <= h
      /\ \A j \in 1 .. k : j \in visited(-1)
  BY DebuggerAssumption DEF visited, DebuggerInv, StateTyped, Slots
<1>2. /\ h \in Slots /\ history_num \in Slots
      /\ Back(h) \in 1 .. NUM_HISTORY /\ Back(h) <= Received
      /\ time_wrapped <=> Received >= NUM_HISTORY
      /\ ~time_wrapped => history_num = Received
  BY Selected, BackRange DEF DebuggerInv, StateTyped, RingExact
<1>3. ASSUME NEW j \in 1 .. NUM_HISTORY - 1
      PROVE  slotAt(-1, j) = IF h >= j THEN h - j ELSE h - j + NUM_HISTORY
  BY <1>2, SlotBack
<1>4. slotAt(-1, k) \in Slots
  BY <1>1, <1>2, <1>3, DebuggerAssumption DEF Slots
<1>5. CASE h = history_num
  <2>1. Back(slotAt(-1, k)) = k
    BY <1>1, <1>2, <1>3, <1>5, DebuggerAssumption DEF Back, Slots
  <2>2. k <= Received
    BY <1>1, <1>2, <1>5, BackRange, DebuggerAssumption
  <2>3. QED
    BY <1>1, <1>4, <1>5, <2>1, <2>2
<1>6. CASE h # history_num
  <2>1. Back(h) + k < NUM_HISTORY \/ (h < history_num /\ k <= h)
    <3> SUFFICES ASSUME Back(h) + k >= NUM_HISTORY PROVE h < history_num /\ k <= h
      BY <1>1, <1>2, DebuggerAssumption
    <3> DEFINE j == NUM_HISTORY - Back(h)
    <3>1. Back(h) # NUM_HISTORY
      BY <1>2, <1>6, BackRange
    <3>2. j \in 1 .. k /\ j \in 1 .. NUM_HISTORY - 1
      BY <1>1, <1>2, <3>1, DebuggerAssumption
    <3>3. slotAt(-1, j) = history_num
      BY <1>2, <1>3, <1>6, <3>2, DebuggerAssumption DEF Back, Slots
    <3>4. QED
      BY <1>1, <3>2, <3>3
  <2>2. Back(slotAt(-1, k)) = Back(h) + k
    BY <1>1, <1>2, <1>3, <1>4, <1>6, <2>1, DebuggerAssumption DEF Back, Slots
  <2>3. Back(slotAt(-1, k)) <= Received
    <3>1. CASE time_wrapped
      BY <1>2, <1>4, <3>1, BackRange, DebuggerAssumption
    <3>2. CASE ~time_wrapped
      <4>1. h < history_num /\ k <= h
        BY <1>1, <1>2, <3>2, DebuggerAssumption DEF Back, Slots
      <4>2. QED
        BY <1>1, <1>2, <2>2, <3>2, <4>1, DebuggerAssumption DEF Back, Slots
    <3>3. QED
      BY <3>1, <3>2
  <2>4. QED
    BY <1>1, <1>4, <1>6, <2>2, <2>3
<1>7. QED
  BY <1>5, <1>6

(* A frame in the units of the search, and what a slot that was received into reads. *)
Units(f) == IF resp.key = "c" THEN f \div 2 ELSE f

LEMMA ReadsFrame ==
  ASSUME DebuggerInv, NEW s \in Slots, ring[s] # 0, NEW garbage
  PROVE  Reading(s, resp.key = "c", garbage) = Units(ring[s])
  BY DEF Reading, Frame, Units, DebuggerInv, StateTyped

(* The first slot that hits is the nearest frame that does. *)
LEMMA LandForth ==
  ASSUME DebuggerInv, pc = "key", ~running, Received \in Nat, NEW k \in visited(1), NEW garbage,
         \A j \in 1 .. k - 1 : ~(Reading(slotAt(1, j), resp.key = "c", garbage) >= resp.time)
  PROVE  /\ slotAt(1, k) \in Slots /\ ring[slotAt(1, k)] # 0
         /\ \A s \in Slots :
              /\ ring[hist_num_temp] < ring[s] /\ ring[s] < ring[slotAt(1, k)] =>
                   Units(ring[s]) < resp.time
              /\ ~(ring[slotAt(1, k)] < ring[s] /\ ring[s] < ring[hist_num_temp])
<1> USE DEF DebuggerInv
<1> DEFINE h == hist_num_temp
<1>1. /\ h \in Slots /\ history_num \in Slots /\ ring[h] = Received + 1 - Back(h)
      /\ Back(h) \in 1 .. NUM_HISTORY /\ Back(h) <= Received
  BY Selected
<1>2. ASSUME NEW j \in 1 .. k
      PROVE  /\ slotAt(1, j) \in Slots /\ Back(slotAt(1, j)) = Back(h) - j
             /\ ring[slotAt(1, j)] = ring[h] + j /\ ring[slotAt(1, j)] # 0
  <2>1. j \in visited(1) /\ j \in Nat
    BY VisitedForth
  <2>2. slotAt(1, j) \in Slots /\ Back(slotAt(1, j)) = Back(h) - j /\ j < Back(h)
    BY <2>1, VisitedForth
  <2>3. Back(slotAt(1, j)) <= Received
    BY <1>1, <2>1, <2>2, DebuggerAssumption
  <2>4. QED
    BY <1>1, <2>1, <2>2, <2>3, DebuggerAssumption DEF RingExact
<1>3. k \in 1 .. k /\ k \in Nat
  BY VisitedForth
<1>4. ASSUME NEW s \in Slots, ring[h] < ring[s], ring[s] < ring[slotAt(1, k)]
      PROVE  Units(ring[s]) < resp.time
  <2> DEFINE j == ring[s] - ring[h]
  <2>1. ring[s] \in Nat /\ ring[h] \in Nat
    BY <1>1 DEF StateTyped
  <2>2. j \in 1 .. k - 1 /\ j \in 1 .. k /\ ring[s] = ring[h] + j
    BY <1>2, <1>3, <1>4, <2>1
  <2>3. ring[s] = Received + 1 - Back(s) /\ Back(s) \in Nat
    BY <1>1, <1>4, <2>1, BackRange DEF RingExact
  <2> HIDE DEF j
  <2>4. Back(slotAt(1, j)) = Back(s) /\ slotAt(1, j) \in Slots
    BY <1>1, <1>2, <2>2, <2>3
  <2>5. slotAt(1, j) = s
    BY <1>1, <2>4, SameAge
  <2>6. Reading(s, resp.key = "c", garbage) = Units(ring[s])
    BY <1>4, <2>1, ReadsFrame
  <2>7. ~(Units(ring[s]) >= resp.time) /\ Units(ring[s]) \in Nat /\ resp.time \in Nat
    BY <2>1, <2>2, <2>5, <2>6 DEF Units, KeyTyped, Times
  <2>8. QED
    BY <2>7
<1>5. QED
  BY <1>1, <1>2, <1>3, <1>4 DEF StateTyped

LEMMA LandBack ==
  ASSUME DebuggerInv, pc = "key", ~running, Received \in Nat, NEW k \in visited(-1), NEW garbage,
         time_wrapped \/ hist_num_temp > 0,
         ~(resp.time > Units(ring[hist_num_temp])),
         Reading(slotAt(-1, k), resp.key = "c", garbage) <= resp.time,
         \A j \in 1 .. k - 1 : ~(Reading(slotAt(-1, j), resp.key = "c", garbage) <= resp.time)
  PROVE  /\ slotAt(-1, k) \in Slots /\ ring[slotAt(-1, k)] # 0
         /\ \A s \in Slots :
              /\ ~(ring[hist_num_temp] < ring[s] /\ ring[s] < ring[slotAt(-1, k)])
              /\ ring[slotAt(-1, k)] < ring[s] /\ ring[s] < ring[hist_num_temp] =>
                   Units(ring[s]) > resp.time
<1> USE DEF DebuggerInv
<1> DEFINE h == hist_num_temp
<1>1. /\ h \in Slots /\ history_num \in Slots /\ ring[h] = Received + 1 - Back(h)
      /\ Back(h) \in 1 .. NUM_HISTORY /\ Back(h) <= Received
  BY Selected
<1>2. ASSUME NEW j \in 1 .. k
      PROVE  /\ slotAt(-1, j) \in Slots /\ ring[slotAt(-1, j)] # 0
             /\ ring[slotAt(-1, j)] = Received + 1 - Back(slotAt(-1, j))
             /\ IF h = history_num THEN Back(slotAt(-1, j)) = j
                ELSE Back(slotAt(-1, j)) = Back(h) + j
  <2>1. j \in visited(-1)
    BY VisitedBack
  <2>2. /\ slotAt(-1, j) \in Slots /\ Back(slotAt(-1, j)) <= Received
        /\ IF h = history_num THEN Back(slotAt(-1, j)) = j
           ELSE Back(slotAt(-1, j)) = Back(h) + j
    BY <2>1, VisitedBack
  <2>3. Back(slotAt(-1, j)) \in Nat
    BY <1>1, <2>2, BackRange, DebuggerAssumption
  <2>4. QED
    BY <2>2, <2>3 DEF RingExact
<1>3. k \in 1 .. k /\ k \in 1 .. NUM_HISTORY - 1
  BY VisitedBack
<1>4. \A s \in Slots : ring[s] \in Nat
  BY DEF StateTyped
<1>5. slotAt(-1, k) \in Slots /\ ring[slotAt(-1, k)] # 0 /\ Units(ring[slotAt(-1, k)]) <= resp.time
  BY <1>2, <1>3, ReadsFrame
<1>6. CASE h = history_num
  <2> DEFINE f == ring[h]
             g == ring[slotAt(-1, k)]
  <2>1. f < g
    <3>1. Back(h) = NUM_HISTORY /\ Back(slotAt(-1, k)) = k
      BY <1>1, <1>2, <1>3, <1>6, BackRange
    <3>2. QED
      BY <1>1, <1>2, <1>3, <3>1, DebuggerAssumption
  <2>2. f \in Nat /\ g \in Nat
    BY <1>1, <1>4, <1>5
  <2> HIDE DEF f, g
  <2>3. Units(g) <= Units(f)
    <3>1. resp.time \in Nat /\ Units(f) \in Nat /\ Units(g) \in Nat
      BY <2>2 DEF Units, KeyTyped, Times
    <3>2. QED
      BY <1>5, <3>1 DEF f, g
  <2>4. g = f + 1
    BY <2>1, <2>2, <2>3 DEF Units
  <2>5. QED
    BY <1>4, <1>5, <2>2, <2>4 DEF f, g
<1>7. CASE h # history_num
  <2>1. ring[slotAt(-1, k)] = ring[h] - k
    BY <1>1, <1>2, <1>3, <1>7, DebuggerAssumption
  <2>2. ASSUME NEW s \in Slots, ring[slotAt(-1, k)] < ring[s], ring[s] < ring[h]
        PROVE  Units(ring[s]) > resp.time
    <3> DEFINE j == ring[h] - ring[s]
    <3>1. ring[s] \in Nat /\ ring[h] \in Nat /\ ring[s] # 0
      BY <1>1, <1>4, <1>5, <2>2
    <3>2. j \in 1 .. k - 1 /\ j \in 1 .. k /\ ring[s] = ring[h] - j
      BY <1>3, <2>1, <2>2, <3>1, DebuggerAssumption
    <3>3. ring[s] = Received + 1 - Back(s) /\ Back(s) \in Nat
      BY <1>1, <3>1, BackRange DEF RingExact
    <3> HIDE DEF j
    <3>4. Back(slotAt(-1, j)) = Back(s) /\ slotAt(-1, j) \in Slots
      BY <1>1, <1>2, <1>7, <3>2, <3>3
    <3>5. slotAt(-1, j) = s
      BY <1>1, <3>4, SameAge
    <3>6. Reading(s, resp.key = "c", garbage) = Units(ring[s])
      BY <3>1, ReadsFrame
    <3>7. ~(Units(ring[s]) <= resp.time) /\ Units(ring[s]) \in Nat /\ resp.time \in Nat
      BY <3>1, <3>2, <3>5, <3>6 DEF Units, KeyTyped, Times
    <3>8. QED
      BY <3>7
  <2>3. \A s \in Slots : ~(ring[h] < ring[s] /\ ring[s] < ring[slotAt(-1, k)])
    BY <1>1, <1>3, <1>4, <2>1, DebuggerAssumption
  <2>4. QED
    BY <1>5, <2>2, <2>3
<1>8. QED
  BY <1>6, <1>7

LEMMA GotoKey ==
  ASSUME DebuggerInv, UntilDefect, NEW garbage \in Times, KeyGoto(garbage)
  PROVE  DebuggerInv' /\ Shows
<1> USE DEF DebuggerInv
<1> DEFINE h       == hist_num_temp
           cycle   == resp.key = "c"
           delta   == IF resp.time > Reading(hist_num_temp, cycle, garbage) THEN 1 ELSE -1
           Hit(k)  == LET t == Reading(slotAt(delta, k), cycle, garbage)
                      IN  IF delta = 1 THEN t >= resp.time ELSE t <= resp.time
           hits    == {k \in visited(delta) : Hit(k)}
           search  == Rem(hist_num_temp + delta) # history_num
           bottom  == delta = -1 /\ ~time_wrapped /\ hist_num_temp > 0
           last    == IF ~search THEN i ELSE IF bottom THEN 0 ELSE history_num
           give_up == \/ search /\ bottom
                      \/ last = history_num /\ (delta = -1 \/ done_received)
                      \/ resp.time = 0
           land    == slotAt(delta, Min(hits))
<1>1. /\ pc = "key" /\ ~running /\ resp.key \in {"g", "c"}
      /\ UNCHANGED <<otherVars, answer, resp>>
  BY DEF KeyGoto
<1>2. \/ /\ hits # {} /\ i' = land
         /\ hist_num_temp' = land /\ screen' = parsedata(ring, land) /\ pc' = "getch"
         /\ stop_time' = 0 /\ cycle_flag' = cycle
         /\ UNCHANGED <<echo_data, running, goto_flag>>
      \/ /\ i' = last
         /\ screen' = screen \/ screen' = parsedata(ring, hist_num_temp)
         /\ pc' = "getch" /\ stop_time' = 0 /\ cycle_flag' = cycle
         /\ UNCHANGED <<hist_num_temp, echo_data, running, goto_flag>>
      \/ /\ i' = last
         /\ Leave(TRUE, resp.time, cycle, TRUE, FALSE, garbage)
         /\ UNCHANGED <<hist_num_temp, screen>>
  <2>1. CASE search /\ hits # {}
    BY <2>1 DEF KeyGoto
  <2>2. CASE ~(search /\ hits # {}) /\ give_up
    BY <2>2 DEF KeyGoto
  <2>3. CASE ~(search /\ hits # {}) /\ ~give_up
    BY <2>3 DEF KeyGoto
  <2>4. QED
    BY <2>1, <2>2, <2>3
<1>3. Received \in Nat
  BY <1>1, Counted DEF EndKnown, StateTyped, Turns
<1>4. /\ echo_data /\ h \in Slots /\ history_num \in Slots /\ ring[h] # 0 /\ ring[h] \in Nat
      /\ screen.slot = h /\ screen.frame = ring[h]
  BY <1>1, <1>3, Selected
<1>5. /\ delta = 1 <=> resp.time > Units(ring[h])
      /\ delta \in {1, -1}
      /\ delta = -1 => time_wrapped \/ h > 0
  <2>1. \A g : Reading(h, cycle, g) = Units(ring[h])
    BY <1>4, ReadsFrame
  <2>2. (delta = 1 <=> resp.time > Units(ring[h])) /\ delta \in {1, -1}
    BY <2>1
  <2>3. ASSUME delta = -1, ~time_wrapped, h = 0 PROVE FALSE
    <3>1. resp.time \in Nat /\ Units(ring[h]) \in Nat
      BY <1>4 DEF Units, KeyTyped, Times
    <3>2. resp.time <= Reading(h, cycle, 0)
      BY <2>1, <2>2, <2>3, <3>1
    <3>3. backwards
      BY <3>2 DEF backwards
    <3>4. QED
      BY <1>1, <2>3, <3>3 DEF UntilDefect, GotoUnreceived, prompt
  <2>4. QED
    BY <1>4, <2>2, <2>3 DEF Slots
<1>6. i \in 0 .. NUM_HISTORY /\ last \in 0 .. NUM_HISTORY
  BY <1>4, DebuggerAssumption DEF StateTyped, Slots
<1>7. cycle \in BOOLEAN /\ 0 \in Times /\ resp.time \in Times
  BY DebuggerAssumption DEF Times, KeyTyped
<1>8. ASSUME hits # {}
      PROVE  /\ land \in Slots /\ ring[land] # 0
             /\ \A s \in Slots :
                  /\ ring[h] < ring[s] /\ ring[s] < ring[land] => Units(ring[s]) < resp.time
                  /\ ring[land] < ring[s] /\ ring[s] < ring[h] => Units(ring[s]) > resp.time
  <2> DEFINE k == Min(hits)
  <2>1. visited(delta) \subseteq 1 .. NUM_HISTORY - 1
    BY DEF visited
  <2>2. k \in hits /\ \A j \in hits : k <= j
    <3>1. hits \subseteq Nat
      BY <2>1
    <3> HIDE DEF hits
    <3>2. QED
      BY <1>8, <3>1, MinIn
  <2>3. k \in visited(delta) /\ Hit(k) /\ k \in Nat
    BY <2>1, <2>2
  <2>4. \A j \in 1 .. k - 1 : j \in visited(delta) => ~Hit(j)
    <3>1. TAKE j \in 1 .. k - 1
    <3>2. ~(k <= j)
      BY <2>3, <3>1
    <3>3. j \notin hits
      BY <2>2, <3>2
    <3>4. QED
      BY <3>3
  <2>5. CASE delta = 1
    <3>1. k \in visited(1) /\ land = slotAt(1, k)
      BY <2>3, <2>5
    <3>2. \A j \in 1 .. k - 1 : j \in visited(1)
      BY <1>1, <2>3, <3>1, VisitedForth
    <3>3. \A j \in 1 .. k - 1 : ~(Reading(slotAt(1, j), resp.key = "c", garbage) >= resp.time)
      BY <2>4, <2>5, <3>2
    <3> HIDE DEF k, land
    <3>4. QED
      BY <1>1, <1>3, <3>1, <3>3, LandForth
  <2>6. CASE delta = -1
    <3>1. k \in visited(-1) /\ land = slotAt(-1, k)
      BY <2>3, <2>6
    <3>2. \A j \in 1 .. k - 1 : j \in visited(-1)
      BY <1>1, <1>3, <1>5, <2>3, <2>6, <3>1, VisitedBack
    <3>3. \A j \in 1 .. k - 1 : ~(Reading(slotAt(-1, j), resp.key = "c", garbage) <= resp.time)
      BY <2>4, <2>6, <3>2
    <3>4. Reading(slotAt(-1, k), resp.key = "c", garbage) <= resp.time
      BY <2>3, <2>6
    <3>5. ~(resp.time > Units(ring[h])) /\ (time_wrapped \/ h > 0)
      BY <1>5, <2>6
    <3> HIDE DEF k, land
    <3>6. QED
      BY <1>1, <1>3, <3>1, <3>3, <3>4, <3>5, LandBack
  <2>7. QED
    BY <1>5, <2>5, <2>6
<1> HIDE DEF delta, hits, last, land, cycle
<1>9. ASSUME NEW s \in Slots, ring[s] # 0, hist_num_temp' = s, pc' = "getch", i' \in 0 .. NUM_HISTORY,
             screen' = parsedata(ring, s) \/ (s = h /\ screen' = screen),
             stop_time' = 0, cycle_flag' = cycle, UNCHANGED <<echo_data, running, goto_flag>>
      PROVE  DebuggerInv' /\ InvertChanges /\ screen'.frame = ring[s]
  <2>1. Turns' /\ EndKnown' /\ RingExact' /\ Received' = Received /\ ring' = ring
    BY <1>1, <1>9, KeyKeeps DEF otherVars, ringVars
  <2>2. /\ screen' \in [slot : Slots, frame : 0 .. MAX_FRAMES, reverse : BOOLEAN]
        /\ screen'.slot = s /\ screen'.frame = ring[s] /\ screen'.frame <= Received
        /\ InvertChanges
    <3>1. CASE screen' = parsedata(ring, s)
      BY <1>3, <1>9, <2>1, <3>1, Drawn
    <3>2. CASE s = h /\ screen' = screen
      BY <1>4, <3>2 DEF StateTyped, ScreenExact, InvertChanges
    <3>3. QED
      BY <1>9, <3>1, <3>2
  <2>3. StateTyped' /\ KeyTyped'
    BY <1>1, <1>7, <1>9, <2>2 DEF StateTyped, KeyTyped, otherVars, simVars, ringVars
  <2>4. ScreenExact'
    BY <1>9, <2>1, <2>2 DEF ScreenExact
  <2>5. QED
    BY <2>1, <2>2, <2>3, <2>4
<1>10. CASE /\ hits # {} /\ i' = land
            /\ hist_num_temp' = land /\ screen' = parsedata(ring, land) /\ pc' = "getch"
            /\ stop_time' = 0 /\ cycle_flag' = cycle
            /\ UNCHANGED <<echo_data, running, goto_flag>>
  <2>1. land \in 0 .. NUM_HISTORY
    BY <1>8, <1>10, DebuggerAssumption DEF Slots
  <2>2. DebuggerInv' /\ InvertChanges /\ screen'.frame = ring[land]
    BY <1>8, <1>9, <1>10, <2>1
  <2>3. GoToNearest
    BY <1>4, <1>8, <1>10, <2>2 DEF GoToNearest, Units
  <2>4. QED
    BY <1>1, <2>2, <2>3 DEF Shows, MoveByOne
<1>11. CASE /\ i' = last
            /\ screen' = screen \/ screen' = parsedata(ring, hist_num_temp)
            /\ pc' = "getch" /\ stop_time' = 0 /\ cycle_flag' = cycle
            /\ UNCHANGED <<hist_num_temp, echo_data, running, goto_flag>>
  <2>1. DebuggerInv' /\ InvertChanges /\ screen'.frame = ring[h]
    BY <1>4, <1>6, <1>9, <1>11
  <2>2. QED
    BY <1>1, <1>4, <2>1 DEF Shows, MoveByOne, GoToNearest
<1>12. CASE /\ i' = last
            /\ Leave(TRUE, resp.time, cycle, TRUE, FALSE, garbage)
            /\ UNCHANGED <<hist_num_temp, screen>>
  <2>1. i' \in 0 .. NUM_HISTORY /\ TRUE \in BOOLEAN /\ FALSE \in BOOLEAN /\ (FALSE <=> ~TRUE)
    BY <1>6, <1>12
  <2>2. DebuggerInv' /\ InvertChanges
    BY <1>1, <1>7, <1>12, <2>1, LeaveStep
  <2>3. QED
    BY <1>1, <1>12, <2>2 DEF Shows, MoveByOne, GoToNearest
<1>13. QED
  BY <1>2, <1>10, <1>11, <1>12

-----------------------------------------------------------------------------
LEMMA Stutter == ASSUME DebuggerInv, vars' = vars PROVE DebuggerInv'
  BY DEF vars, ringVars, modeVars, DebuggerInv, StateTyped, KeyTyped, Turns, Says, EndKnown,
         RingExact, ScreenExact, Received, Back

LEMMA NextStep ==
  ASSUME DebuggerInv, UntilDefect, Next
  PROVE  DebuggerInv' /\ (vars' = vars \/ Shows)
<1>1. CASE Sim
  BY <1>1, SimStep, SimShows DEF Shows, MoveByOne, GoToNearest, InvertChanges
<1>2. CASE Receive \/ Again
  <2>1. pc = "read"
    BY <1>2 DEF Receive, Again
  <2>2. DebuggerInv' /\ InvertChanges
    <3>1. CASE atEnd
      BY <1>2, <3>1, MeetEnd
    <3>2. CASE ~atEnd
      BY <1>2, <3>2, ReceiveFrame DEF atEnd, Receive, Again
    <3>3. QED
      BY <3>1, <3>2
  <2>3. QED
    BY <2>1, <2>2 DEF Shows, MoveByOne, GoToNearest
<1>3. CASE Key
  BY <1>3, RunningKey, NextKey, BackKey, RunKey, PauseKey, QuitKey, GotoKey DEF Key
<1>4. CASE Pressed
  <2>1. DebuggerInv'
    BY <1>4, PressStep
  <2>2. pc = "getch" /\ screen' = screen
    BY <1>4 DEF Pressed, Press
  <2>3. QED
    BY <2>1, <2>2 DEF Shows, MoveByOne, GoToNearest, InvertChanges
<1>5. CASE Left
  <2>1. vars' = vars
    BY <1>5 DEF Left
  <2>2. DebuggerInv'
    BY <2>1, Stutter
  <2>3. QED
    BY <2>1, <2>2
<1>6. QED
  BY <1>1, <1>2, <1>3, <1>4, <1>5 DEF Next

LEMMA InvariantHolds == Spec /\ [][UntilDefect]_vars => []DebuggerInv
<1>1. DebuggerInv /\ [Next]_vars /\ [UntilDefect]_vars => DebuggerInv'
  <2>1. SUFFICES ASSUME DebuggerInv, [Next]_vars, [UntilDefect]_vars
                 PROVE  DebuggerInv'
    OBVIOUS
  <2>2. CASE vars' = vars
    BY <2>1, <2>2, Stutter
  <2>3. CASE vars' # vars
    BY <2>1, <2>3, NextStep
  <2>4. QED
    BY <2>2, <2>3
<1>2. QED
  BY <1>1, Initially, PTL DEF Spec

(* InStep, for every size: the simulator is at most one frame ahead, and only the letter
   Z, which only a debugger that is left writes, ends the wait behind DONE. *)
THEOREM DebuggerInStep == Spec /\ [][UntilDefect]_vars => []InStep
<1>1. DebuggerInv => InStep
  <2> SUFFICES ASSUME DebuggerInv PROVE InStep
    OBVIOUS
  <2> USE DEF DebuggerInv
  <2>1. data \in Seq(0 .. MAX_FRAMES) /\ answer \in Seq({"n", "0", "Z"})
    BY PipesTyped DEF StateTyped
  <2>2. TypeOK
    BY <2>1 DEF TypeOK, StateTyped
  <2>3. (over => sim \in {"wait", "exit"}) /\ (sim = "exit" => pc = "exit")
    BY DEF Turns
  <2>4. frames <= Max({ring[s] : s \in Slots}) + 1
    <3> DEFINE S == {ring[s] : s \in Slots}
    <3>1. frames <= Received + 1 /\ Received \in Nat
      <4>1. data \in {<<>>, <<0>>, <<frames>>} /\ frames \in Nat
        BY DEF Turns, StateTyped
      <4>2. QED
        BY <4>1, Lines DEF Received
    <3>2. \A s \in Slots : ring[s] \in Nat /\ ring[s] <= Received
      BY <3>1, BackRange, DebuggerAssumption DEF RingExact, StateTyped
    <3>3. Received \in S
      <4> DEFINE n == IF history_num = 0 THEN NUM_HISTORY - 1 ELSE history_num - 1
      <4>1. n \in Slots /\ Back(n) = 1
        BY DebuggerAssumption DEF StateTyped, Slots, Back
      <4>2. ring[n] = Received
        BY <3>1, <4>1 DEF RingExact
      <4>3. QED
        BY <4>1, <4>2
    <3>4. \A x \in S : x <= Received
      BY <3>2
    <3> HIDE DEF S
    <3>5. Max(S) \in S /\ Max(S) >= Received
      BY <3>3, <3>4, <3>1 DEF Max
    <3>6. Max(S) = Received
      BY <3>1, <3>4, <3>5, <3>2 DEF S
    <3>7. QED
      BY <3>1, <3>6 DEF S
  <2>5. QED
    BY <2>2, <2>3, <2>4 DEF InStep
<1>2. QED
  BY <1>1, InvariantHolds, PTL

(* ShowsSelected, for every size: whenever the user is asked, the screen shows the
   selected frame, one that has been received. *)
THEOREM DebuggerShowsSelected == Spec /\ [][UntilDefect]_vars => []ShowsSelected
<1>1. DebuggerInv => ShowsSelected
  BY DEF DebuggerInv, ScreenExact, ShowsSelected
<1>2. QED
  BY <1>1, InvariantHolds, PTL

(* KeysShow, for every size: n and b move by one frame, a search lands on the nearest
   frame of its time, and what is inverted is what has changed. *)
THEOREM DebuggerKeysShow == Spec /\ [][UntilDefect]_vars => KeysShow
<1>1. DebuggerInv /\ [Next]_vars /\ [UntilDefect]_vars =>
        [MoveByOne /\ GoToNearest /\ InvertChanges]_vars
  BY NextStep DEF Shows
<1>2. QED
  BY <1>1, InvariantHolds, PTL DEF Spec, KeysShow
=============================================================================
