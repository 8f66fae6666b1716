----------------------------- MODULE MCRateControl ----------------------------
(***************************************************************************)
(* A small rate table, two peers and a few radios for TLC.                 *)
(***************************************************************************)
EXTENDS RateControl

Entry(code, kind, mcs, mbps) == [code |-> code, kind |-> kind, nss |-> 1, mcs |-> mcs, mbps |-> mbps]
MCTable ==
    <<Entry("0x20", "CCK", 0, 1), Entry("0x30", "OFDM", 0, 6), Entry("0xc0", "HE", 0, 8),
      Entry("0x31", "OFDM", 0, 9), Entry("0xc1", "HE", 1, 17), Entry("0xc2", "HE", 2, 26)>>

Peer(speaks, top, width) ==
    [speaks |-> speaks, legacy |-> {"0x20", "0x30", "0x31"}, ht |-> {}, top |-> [n \in 1 .. 2 |-> top],
     nss |-> 1, width |-> width, dense |-> FALSE, dsss |-> TRUE]
MCPeers == {Peer({}, -1, 0), Peer({"HE"}, 7, 1)}

\* everything up to some rate gets through, and half of what is sent at a marginal one
Radio(mbps, half, far) ==
    [pct |-> [i \in DOMAIN MCTable |->
                IF MCTable[i].mbps <= mbps THEN 100
                ELSE IF MCTable[i].mbps = half THEN 50 ELSE 0],
     far |-> far]
MCLinks == {Radio(26, 0, FALSE), Radio(6, 0, TRUE), Radio(8, 17, FALSE), Radio(0, 0, TRUE)}

MCPins == {<<"auto", "none">>, <<"code", "0x31">>, <<"rung", 1>>}
===============================================================================
