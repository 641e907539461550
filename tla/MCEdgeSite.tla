------------------------------ MODULE MCEdgeSite ------------------------------
(* A small site: a device of each kind, and a group for each.  The Modbus  *)
(* adapter is a subprocess of the orchestrator, the others are not.  Its   *)
(* point has two alarm limits; its device and the SNMP one may be silent.  *)
EXTENDS EdgeSite

MCPoints   == {"flow", "ups", "bms"}
MCDevices  == {"plc", "apc", "host"}
MCDeviceOf == [p \in MCPoints |-> CASE p = "flow" -> "plc" [] p = "ups" -> "apc" [] OTHER -> "host"]
MCKind     == [d \in MCDevices |->
                 CASE d = "plc" -> "modbus" [] d = "apc" -> "snmp" [] OTHER -> "bacnet"]
MCGroups   == {"fast", "normal", "slow"}
MCSchedule == [g \in MCGroups |->
                 CASE g = "fast" -> <<"flow">> [] g = "normal" -> <<"ups">> [] OTHER -> <<"bms">>]
\* At 1 the flow is a warning, at 2 it is critical.
MCLimits   == [p \in MCPoints |->
                 IF p = "flow" THEN [x \in {<<"P2", "high">>, <<"P0", "high">>} |->
                                       IF x[1] = "P0" THEN 1 ELSE 0]
                 ELSE <<>>]
\* What the UPS measures is never in its range.
MCRange    == [p \in MCPoints |-> IF p = "ups" THEN <<2, 9>> ELSE <<0, 2>>]
MCMoving   == {"flow"}
MCFlaky    == {"plc", "apc"}
MCManaged  == {"modbus"}

\* The decoding is that of the byte orders as decode_registers comments on them, "AB CD", "CD AB" and
\* "AB CD with little-endian bytes within words", for registers of four bits; and what a
\* counter counted between two samples is found as long as it wrapped no more than once.
Digits(bytes) == bytes[1] * 64 + bytes[2] * 16 + bytes[3] * 4 + bytes[4]
ASSUME DecodingIsPositional ==
    \A a, b, c, d \in 0..3 :
        LET regs == <<4 * a + b, 4 * c + d>>
            word(order) == CASE order = "big" -> Digits(<<a, b, c, d>>)
                             [] order \in {"little", "big_ws"} -> Digits(<<c, d, a, b>>)
                             [] order = "lit_ws" -> Digits(<<b, a, d, c>>)
        IN  /\ DecodeRegisters(regs, "INT16", "big", 4) \in -8..7
            /\ (DecodeRegisters(regs, "INT16", "big", 4) - regs[1]) % 16 = 0
            /\ DecodeRegisters(regs, "UINT16", "big", 4) = regs[1]
            /\ \A order \in {"big", "little", "big_ws", "lit_ws"} :
                  /\ DecodeRegisters(regs, "UINT32", order, 4) = word(order)
                  /\ DecodeRegisters(regs, "INT32", order, 4) \in -128..127
                  /\ (DecodeRegisters(regs, "INT32", order, 4) - word(order)) % 256 = 0
ASSUME CountersWrap ==
    \A prev, counted \in 0..15 : CounterDelta(prev, (prev + counted) % 16, 4) = counted

=============================================================================
