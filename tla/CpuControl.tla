----------------------------- MODULE CpuControl -----------------------------
(***************************************************************************)
(* The control state of the CPU (core/src/cpu/mod.rs): interrupt and trap  *)
(* flags, their one-instruction shadows, HALT, and string instructions     *)
(* with a REP prefix that an interrupt rewinds.                            *)
(*                                                                         *)
(* What instructions compute is left out.  IP is reduced to its place      *)
(* relative to a string instruction: "rep" at its first byte, "after"      *)
(* right behind it, "else" anywhere.  An interrupt pushes a frame; its     *)
(* handler preserves CX, as handlers do.                                   *)
(***************************************************************************)
EXTENDS Naturals, Sequences

CONSTANTS
  Costs,    (* clock counts of the other instructions, DMA waits included *)
  RepCost,  (* clock count of one element of a string instruction         *)
  IrqAck,   (* timing::IRQ_ACK                                            *)
  LongRep,  (* LONG_REP_INTERRUPT_RETURN_CYCLE_THRESHOLD                  *)
  MaxCount, (* bound: CX of a string instruction                          *)
  MaxDepth  (* bound: nested interrupt frames                             *)

ASSUME CostAssumption == /\ Costs \subseteq Nat \ {0}
                         /\ RepCost \in Nat \ {0} /\ IrqAck \in Nat \ {0}
                         /\ LongRep \in Nat
ASSUME CpuBoundAssumption == MaxCount \in Nat /\ MaxDepth \in Nat

Places == {"rep", "after", "else"}
Frame == [at : Places, cx : Nat, ifl : BOOLEAN, tf : BOOLEAN]
Cpu == [ifl : BOOLEAN, tf : BOOLEAN,      (* flags.interrupt, flags.trap    *)
        inhibit : 0 .. 1, trapInhibit : 0 .. 1,
        halted : BOOLEAN,
        override : BOOLEAN,               (* interrupt_return_override_ip   *)
        at : Places, cx : Nat,
        frames : Seq(Frame)]

ResetCpu == [ifl |-> FALSE, tf |-> FALSE, inhibit |-> 0, trapInhibit |-> 0,
             halted |-> FALSE, override |-> FALSE, at |-> "else", cx |-> 0,
             frames |-> <<>>]

(* handle_irq_with_saved_ip; `rewind` saves the string instruction's IP.   *)
Dispatch(c, rewind) ==
  [c EXCEPT !.frames = <<[at |-> IF rewind THEN "rep" ELSE c.at, cx |-> c.cx,
                          ifl |-> c.ifl, tf |-> c.tf]>> \o @,
            !.ifl = FALSE, !.tf = FALSE, !.halted = FALSE, !.at = "else"]

(* Setting IF or TF opens a shadow of one instruction (STI, POPF, IRET).   *)
WithFlags(c, ifl, tf) ==
  [c EXCEPT !.ifl = ifl, !.tf = tf,
            !.inhibit = IF ~c.ifl /\ ifl THEN 1 ELSE @,
            !.trapInhibit = IF ~c.tf /\ tf THEN 1 ELSE @]

(* What one instruction may be: its kind, its cost and the CPU after it.   *)
Result(kind, cost, c) == [kind |-> kind, cost |-> cost, cpu |-> c]

(* "port", "timer" and "oam" stand for instructions that write I/O ports or *)
(* the sprite table; FrameDriver says what that does.                      *)
Ordinary(c, kinds) ==
  {Result(kind, k, c) : kind \in kinds \cap {"run", "port", "timer", "oam"}, k \in Costs}
FlagChange(c) ==
  {Result("flags", k, WithFlags(c, f[1], f[2])) : k \in Costs,
     f \in {g \in BOOLEAN \X BOOLEAN : g[1] \/ g[2] => Len(c.frames) < MaxDepth}}
LoadSS(c) == {Result("shadow", k, [c EXCEPT !.inhibit = 1]) : k \in Costs}
(* INT, INTO and the exceptions an instruction raises: the frame is pushed *)
(* within the instruction, which reports the whole cost itself.            *)
SoftInterrupt(c) ==
  {Result("int", k, Dispatch(c, FALSE)) : k \in {j \in Costs : Len(c.frames) < MaxDepth}}
Halt(c) == {Result("halt", k, [c EXCEPT !.halted = TRUE]) : k \in Costs}
Iret(c) ==
  IF c.frames = <<>> THEN {}
  ELSE LET f == Head(c.frames) IN
       {Result("iret", k, [WithFlags(c, f.ifl, f.tf)
                             EXCEPT !.at = f.at, !.cx = f.cx, !.frames = Tail(@)]) : k \in Costs}

(* exec_string_op: n of cx elements, all of them unless the ZF condition   *)
(* of a CMPS or SCAS ends the loop.  A long run asks to be rewound.        *)
(* CxKept is a bug: CX is left at its first value.                         *)
CxKept(c, n) == c.cx
CxLeft(c, n) == c.cx - n
StringRun(c, kind, n) ==
  Result(kind, n * RepCost,
         [c EXCEPT !.at = "after", !.cx = CxLeft(c, n),
                   !.override = n * RepCost >= LongRep])
StringMove(c) == {StringRun(c, "move", c.cx)}
StringScan(c) == {StringRun(c, "scan", n) : n \in {m \in 0 .. c.cx : c.cx > 0 => m > 0}}
Strings(c, kinds) ==
  (IF "move" \in kinds THEN StringMove(c) ELSE {})
    \cup (IF "scan" \in kinds THEN StringScan(c) ELSE {})

(* A fresh string instruction finds any count in CX.                       *)
FreshStrings(c, kinds, counts) ==
  UNION {Strings([c EXCEPT !.cx = k], kinds) : k \in counts}

(* step: a halted CPU lets a cycle pass (IdleFree is a bug); otherwise the *)
(* stale override goes first (OverrideKept is a bug).                      *)
IdleFree(c) == Result("idle", 0, c)
Idle(c) == Result("idle", 1, c)
OverrideKept(c) == [c EXCEPT !.at = "else"]
Fetch(c) == [c EXCEPT !.override = FALSE, !.at = "else"]
Instructions(c, kinds, counts) ==
  IF c.halted THEN {Idle(c)}
  ELSE IF c.at = "rep" THEN Strings(Fetch(c), kinds)
  ELSE LET d == Fetch(c) IN
       UNION {Ordinary(d, kinds),
              IF "flags" \in kinds THEN FlagChange(d) ELSE {},
              IF "shadow" \in kinds THEN LoadSS(d) ELSE {},
              IF "int" \in kinds THEN SoftInterrupt(d) ELSE {},
              IF "halt" \in kinds THEN Halt(d) ELSE {},
              Iret(d), FreshStrings(d, kinds, counts)}
=============================================================================
