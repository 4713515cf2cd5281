----------------------------- MODULE WordMemory -----------------------------
(***************************************************************************)
(* What a serial EEPROM promises a game: words that change one at a time   *)
(* or all at once, only while writing is enabled, and a data port that     *)
(* shows what the game wrote there or a word it read.                      *)
(***************************************************************************)
CONSTANTS Addresses, Words

VARIABLES
  mem, locked,
  last,     (* the word the last read found                               *)
  shown     (* the data port                                              *)

memoryVars == <<mem, locked, last, shown>>

MemoryInit(blank) ==
  /\ mem \in [Addresses -> Words] /\ locked = TRUE
  /\ last = blank /\ shown \in Words

Fetch == \E a \in Addresses :
  /\ last' = mem[a] /\ shown' \in {shown, mem[a]}
  /\ UNCHANGED <<mem, locked>>

Present == shown' \in Words /\ UNCHANGED <<mem, locked, last>>

Change ==
  /\ ~locked
  /\ \E w \in Words : \/ \E a \in Addresses : mem' = [mem EXCEPT ![a] = w]
                      \/ mem' = [a \in Addresses |-> w]
  /\ shown' \in {shown, last}
  /\ UNCHANGED <<locked, last>>

Lock == locked' \in BOOLEAN /\ shown' \in {shown, last} /\ UNCHANGED <<mem, last>>

MemoryNext == Fetch \/ Present \/ Change \/ Lock
=============================================================================
