-------------------------- MODULE MC_MeterDrivers --------------------------
(* Multical603 telegrams: the full one of spec scenario b with two sets of *)
(* values, one without temperatures, one with an instantaneous and a      *)
(* maximum flow record, one with only a maximum flow and one with a date. *)
(* Multical302 telegrams: the full one of spec scenario a with the total  *)
(* and the at-date records differing, and one with the total energy only. *)
(* Compact5 telegrams: a full payload of 9 bytes, and a short one of 5.    *)
EXTENDS MeterDrivers

R(mt, vi, sn, v) == [mt |-> mt, vi |-> vi, sn |-> sn, value |-> v]

I == "Instantaneous"

Temps603(v) == {R(I, "FlowTemperature", 0, v), R(I, "ReturnTemperature", 0, v + 1)}

NoTemps603(v) ==
    {R(I, "EnergyWh", 0, v), R(I, "Volume", 0, v), R(I, "VolumeFlow", 0, v),
     R(I, "FF22", 0, v), R(I, "FF07", 0, v), R(I, "FF08", 0, v)}

MC_Telegrams603 ==
    {NoTemps603(1) \cup Temps603(1), NoTemps603(2) \cup Temps603(2), NoTemps603(2),
     {R(I, "VolumeFlow", 0, 1), R("Maximum", "VolumeFlow", 0, 2)},
     {R("Maximum", "VolumeFlow", 0, 3)},
     {R(I, "Date", 0, 1)}}

Full302(v, w) ==
    {R(I, "EnergyWh", 0, v), R(I, "EnergyWh", 1, w), R(I, "Volume", 0, v),
     R(I, "Date", 1, w), R(I, "PowerW", 0, v), R(I, "FF21", 0, v)}

MC_Telegrams302 == {Full302(1, 2), Full302(2, 1), {R(I, "EnergyWh", 0, 3)}}

MC_Telegrams5 ==
    {[parsed |-> 10, payload |-> <<1, 0, 0, 1, 200, 0, 0, 2, 0>>],
     [parsed |-> 10, payload |-> <<1, 0, 0, 2, 0>>]}

\* LansenPU telegrams: both counters, and counter a alone.
MC_TelegramsPU == {{R(I, "FD3A", 0, 1), R(I, "40FD3A", 0, 2)}, {R(I, "FD3A", 0, 3)}}

MC_Vals == {1, 2, 3}
MC_Bytes == {0, 1}
MC_MaxTelegrams == 4
=============================================================================
