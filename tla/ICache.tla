------------------------------- MODULE ICache -------------------------------
(***************************************************************************)
(* The blocking instruction cache, icache.sv: a direct mapped memory       *)
(* (icache_mem.sv) and the controller that fills it.  The controller asks  *)
(* the memory for the address of this cycle, and writes what comes back to *)
(* the place of the address of the cycle before.                           *)
(*                                                                         *)
(* An address is the number of a double word; index and tag are its lowest *)
(* bits, and whatever is above them is not looked at.                      *)
(***************************************************************************)
EXTENDS Integers

CONSTANTS
  LINES,      \* lines of the cache, 16 in sys_defs.svh
  TAGS,       \* values of a tag, 2^8
  NoData      \* what a line holds that was never written

VARIABLES
  last,              \* last_tag and last_index: the address of the cycle before
  current_mem_tag,   \* the memory's tag of the request that is waited for, or 0
  miss_outstanding,  \* the memory has not taken the request yet
  line               \* icache_mem: valids, tags and data

Short(addr) == addr % (LINES * TAGS)
index(addr) == addr % LINES

tag(addr) == Short(addr) \div LINES

Icache_valid_out(addr) == line[index(addr)].valid /\ line[index(addr)].tag = tag(addr)
Icache_data_out(addr)  == line[index(addr)].data

changed_addr(addr) == Short(addr) # last

(* Whether the memory is asked for the address. *)
proc2Imem_command(addr) == miss_outstanding /\ ~changed_addr(addr)

(* Mutant: an answer counts only as long as the memory has not taken the request. *)
data_write_enable_outstanding(memtag) ==
  miss_outstanding /\ current_mem_tag = memtag /\ current_mem_tag # 0

data_write_enable(memtag) == current_mem_tag = memtag /\ current_mem_tag # 0

(* Mutant: a tag is kept when the address changes. *)
update_mem_tag_kept(addr, memtag) == miss_outstanding \/ data_write_enable(memtag)

update_mem_tag(addr, memtag) ==
  changed_addr(addr) \/ miss_outstanding \/ data_write_enable(memtag)

(* Mutant: a request the memory has not taken is not made again. *)
unanswered_miss_once(addr, response) == changed_addr(addr) /\ ~Icache_valid_out(addr)

unanswered_miss(addr, response) ==
  IF changed_addr(addr) THEN ~Icache_valid_out(addr) ELSE miss_outstanding /\ response = 0

(* Mutant: what comes back is written to the place of the address of this cycle. *)
wr_idx_current(addr) == addr

wr_idx(addr) == last

(* One rising edge. *)
Clock(addr, response, memtag, data) ==
  /\ last' = Short(addr)
  /\ miss_outstanding' = unanswered_miss(addr, response)
  /\ current_mem_tag' = IF update_mem_tag(addr, memtag) THEN response ELSE current_mem_tag
  /\ line' = IF data_write_enable(memtag)
             THEN [line EXCEPT ![index(wr_idx(addr))] =
                     [valid |-> TRUE, tag |-> tag(wr_idx(addr)), data |-> data]]
             ELSE line

(* Reset; last is all ones, so that the first address is a change. *)
Init ==
  /\ last = LINES * TAGS - 1
  /\ current_mem_tag = 0
  /\ miss_outstanding = FALSE
  /\ line = [i \in 0 .. LINES - 1 |-> [valid |-> FALSE, tag |-> 0, data |-> NoData]]
=============================================================================
