---------------------------- MODULE FieldReadings ----------------------------
(***************************************************************************)
(* What the three field adapters make of a raw value                       *)
(* (edge/modbus_adapter.py, edge/snmp_adapter.py, edge/bacnet_adapter.py): *)
(* the decoding of Modbus registers, the rate of an SNMP counter, the      *)
(* quality of a value and the alarm it stands for.  Values are integers;   *)
(* scale, offset and rounding are the point's own and left out.            *)
(***************************************************************************)
EXTENDS Integers, Sequences

Good      == "GOOD"
Uncertain == "UNCERTAIN"
Bad       == "BAD"

Priorities == <<"P0", "P1", "P2", "P3">>
NoPriority == "none"

\* thresholds maps some of <<priority, "high">> and <<priority, "low">> to limits.
Crossed(value, thresholds, p) ==
    \/ <<p, "high">> \in DOMAIN thresholds /\ value > thresholds[<<p, "high">>]
    \/ <<p, "low">> \in DOMAIN thresholds /\ value < thresholds[<<p, "low">>]

\* evaluate_alarm: "Check highest priority first."
EvaluateAlarm(value, thresholds) ==
    LET hit == {i \in 1..4 : Crossed(value, thresholds, Priorities[i])}
    IN  IF hit = {} THEN NoPriority ELSE Priorities[CHOOSE i \in hit : \A j \in hit : i <= j]

\* The range check.
QualityOf(value, range) ==
    IF value < range[1] \/ value > range[2] THEN Uncertain ELSE Good

\* SNMPDeviceReader._convert_value and BACnetDeviceReader.read_object, for what was
\* read, a sequence of at most one value: what is not one of the words for true is
\* false, and what is not there is bad.
ConvertValue(raw, type, true, range) ==
    IF raw = <<>> THEN [value |-> 0, quality |-> Bad]
    ELSE LET value == IF type = "bool" THEN IF raw[1] \in true THEN 1 ELSE 0 ELSE raw[1]
         IN  [value |-> value, quality |-> QualityOf(value, range)]

-----------------------------------------------------------------------------
(* decode_registers, with registers of w bits made of two bytes.           *)

Signed(n, bits) == IF n >= 2 ^ (bits - 1) THEN n - 2 ^ bits ELSE n

\* The two bytes of a word, swapped.
Swapped(r, w) ==
    LET b == 2 ^ (w \div 2) IN (r % b) * b + r \div b

RegistersNeeded(type) == IF type \in {"UINT16", "INT16"} THEN 1 ELSE 2

\* Both little and big_ws take the second register for the high word; lit_ws keeps
\* the words and swaps the bytes of each.
LongWord(r0, r1, order, w) ==
    CASE order \in {"little", "big_ws"} -> r1 * 2 ^ w + r0
      [] order = "lit_ws" -> Swapped(r0, w) * 2 ^ w + Swapped(r1, w)
      [] OTHER -> r0 * 2 ^ w + r1

\* FLOAT32 packs the bytes as UINT32 does and reads them as IEEE 754.
DecodeRegisters(regs, type, order, w) ==
    CASE type = "UINT16" -> regs[1]
      [] type = "INT16" -> Signed(regs[1], w)
      [] type = "UINT32" -> LongWord(regs[1], regs[2], order, w)
      [] type = "INT32" -> Signed(LongWord(regs[1], regs[2], order, w), 2 * w)

-----------------------------------------------------------------------------
(* compute_counter_delta, for a counter of w bits read dt apart.           *)

CounterDelta(prev, raw, w) ==
    LET delta == raw - prev IN IF delta < 0 THEN delta + 2 ^ w ELSE delta

=============================================================================
