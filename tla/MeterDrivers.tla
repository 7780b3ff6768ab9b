---------------------------- MODULE MeterDrivers ----------------------------
(***************************************************************************)
(* The meter drivers' processContent (meter_multical603.cc,               *)
(* meter_multical302.cc, meter_compact5.cc, meter_unknown.cc, and the    *)
(* MeterLansenPU driver that sits in mbus_rawtty.cc).  The                 *)
(* dispatch thread hands each decoded telegram to the driver of the meter  *)
(* it matches, one at a time; processContent pulls records out of the      *)
(* telegram's DV map with findKey and the extractDV helpers and overwrites *)
(* the meter's typed state.  A field whose record is missing keeps what    *)
(* it held.                                                                *)
(*                                                                         *)
(* A decoded record of a telegram is abstracted to its measurement type,   *)
(* its value information, its storage number and its decoded value; the   *)
(* tariff is always 0.  The vendor records the multicals read by fixed     *)
(* key ("04FF22", "04FF07", "04FF08", "01FF21") have their key's VIFE as  *)
(* value information, and so do the pulse counter records of the Lansen  *)
(* ("0EFD3A" as "FD3A", the subunit-1 "8E40FD3A" as "40FD3A").            *)
(* A Compact5 telegram is its header length           *)
(* (t->parsed.size()) and its manufacturer-specific payload bytes.        *)
(***************************************************************************)
EXTENDS Integers, Sequences

CONSTANTS
    Vals,          \* the decoded values of records
    Telegrams603,  \* the record sets a Multical603 meter may receive
    Telegrams302,  \* the record sets a Multical302 meter may receive
    Telegrams5,    \* the [parsed, payload] telegrams a Compact5 may receive
    TelegramsPU,   \* the record sets a LansenPU meter may receive
    Bytes,         \* what an out-of-range content[i] may read
    MaxTelegrams   \* how many telegrams the model dispatches

MTs == {"Instantaneous", "Maximum"}

Record == [mt: MTs, vi: STRING, sn: 0..1, value: Nat]

ASSUME DriversAssumption ==
    /\ Vals \subseteq Nat
    /\ Telegrams603 \subseteq SUBSET Record
    /\ Telegrams302 \subseteq SUBSET Record
    /\ TelegramsPU \subseteq SUBSET Record
    /\ \A t \in Telegrams5 : t.parsed \in Nat /\ t.payload \in Seq(0..255)
    /\ Bytes \subseteq 0..255 /\ Bytes # {}
    /\ MaxTelegrams \in Nat

VARIABLES
    m603,          \* the state fields of the MeterMultical603 object
    m302,          \* the state fields of the MeterMultical302 object
    c5,            \* the state fields of the MeterCompact5 object
    pu,            \* the state fields of the MeterLansenPU object
    explanations,  \* offsets of the explanation trace of the last telegram
    frame_len,     \* length of the raw frame of the last telegram
    h603,          \* the telegrams given to the Multical603 so far (history)
    h302,          \* the telegrams given to the Multical302 so far (history)
    dispatched     \* telegrams dispatched so far

vars == <<m603, m302, c5, pu, explanations, frame_len, h603, h302, dispatched>>

NoRecord == [mt |-> "Instantaneous", vi |-> "none", sn |-> 0, value |-> 0]

(***************************************************************************)
(* findKey (spec 4.E, outside this source tree): a linear search of the   *)
(* DV map, which is ordered by key; "Unknown" matches any measurement     *)
(* type.  The key starts with the DIF, whose high nibble holds the        *)
(* storage bit 0x40 and the function 0x10 (maximum), so for one value     *)
(* information the instantaneous record of a storage comes first.         *)
(***************************************************************************)
keyRank(r) == 4 * r.sn + (IF r.mt = "Maximum" THEN 1 ELSE 0)

findKey(mt, vi, sn, recs) ==
    LET M == {r \in recs : (mt = "Unknown" \/ r.mt = mt) /\ r.vi = vi /\ r.sn = sn}
    IN  IF M = {} THEN NoRecord ELSE CHOOSE r \in M : \A q \in M : keyRank(r) <= keyRank(q)

found(mt, vi, sn, recs) == findKey(mt, vi, sn, recs) # NoRecord

\* extractDVdouble(&t->values, key, ...) after findKey succeeded.
valueOf(mt, vi, sn, recs) == findKey(mt, vi, sn, recs).value

\* extractDVuint8/uint32 by fixed key: the value of the record, or, when
\* the key is missing, what the helper (outside this source tree) leaves:
\* the old value or 0.
extractDVfixed(vi, recs, old) ==
    IF found("Instantaneous", vi, 0, recs) THEN {valueOf("Instantaneous", vi, 0, recs)}
    ELSE {old, 0}

(***************************************************************************)
(* MeterMultical603: the fields with their initializers, and              *)
(* processContent.                                                        *)
(***************************************************************************)
Init603 ==
    [info_codes |-> 0, total_energy_kwh |-> 0, total_volume_m3 |-> 0,
     volume_flow_m3h |-> 0, t1_temperature_c |-> 127, has_t1_temperature |-> FALSE,
     t2_temperature_c |-> 127, has_t2_temperature |-> FALSE, target_date |-> 0,
     energy_forward_kwh |-> 0, energy_returned_kwh |-> 0]

\* if (findKey(mt, vi, 0, 0, &key, &t->values)) field = extract...; else keep.
fromKey(mt, vi, sn, recs, old) == IF found(mt, vi, sn, recs) THEN valueOf(mt, vi, sn, recs) ELSE old

\* has_tN_temperature_ = extractDVdouble(...), run only when findKey found it.
hasFromKey(vi, recs, old) == IF found("Instantaneous", vi, 0, recs) THEN TRUE ELSE old

\* Mutant: the return temperature is looked up with the flow temperature's
\* value information.
processContent603_T2FromFlow(m, recs, ic, fw, rt) ==
    [m EXCEPT !.info_codes = ic, !.energy_forward_kwh = fw, !.energy_returned_kwh = rt,
       !.total_energy_kwh = fromKey("Instantaneous", "EnergyWh", 0, recs, m.total_energy_kwh),
       !.total_volume_m3 = fromKey("Instantaneous", "Volume", 0, recs, m.total_volume_m3),
       !.volume_flow_m3h = fromKey("Unknown", "VolumeFlow", 0, recs, m.volume_flow_m3h),
       !.t1_temperature_c = fromKey("Instantaneous", "FlowTemperature", 0, recs, m.t1_temperature_c),
       !.has_t1_temperature = hasFromKey("FlowTemperature", recs, m.has_t1_temperature),
       !.t2_temperature_c = fromKey("Instantaneous", "FlowTemperature", 0, recs, m.t2_temperature_c),
       !.has_t2_temperature = hasFromKey("FlowTemperature", recs, m.has_t2_temperature),
       !.target_date = fromKey("Unknown", "Date", 0, recs, m.target_date)]

\* The new state of the meter, given what the three fixed-key extractions
\* (info codes, energy forward, energy returned) returned.
processContent603(m, recs, ic, fw, rt) ==
    [m EXCEPT !.info_codes = ic, !.energy_forward_kwh = fw, !.energy_returned_kwh = rt,
       !.total_energy_kwh = fromKey("Instantaneous", "EnergyWh", 0, recs, m.total_energy_kwh),
       !.total_volume_m3 = fromKey("Instantaneous", "Volume", 0, recs, m.total_volume_m3),
       !.volume_flow_m3h = fromKey("Unknown", "VolumeFlow", 0, recs, m.volume_flow_m3h),
       !.t1_temperature_c = fromKey("Instantaneous", "FlowTemperature", 0, recs, m.t1_temperature_c),
       !.has_t1_temperature = hasFromKey("FlowTemperature", recs, m.has_t1_temperature),
       !.t2_temperature_c = fromKey("Instantaneous", "ReturnTemperature", 0, recs, m.t2_temperature_c),
       !.has_t2_temperature = hasFromKey("ReturnTemperature", recs, m.has_t2_temperature),
       !.target_date = fromKey("Unknown", "Date", 0, recs, m.target_date)]

(***************************************************************************)
(* MeterMultical302.                                                       *)
(***************************************************************************)
Init302 ==
    [info_codes |-> 0, total_energy_kwh |-> 0, target_energy_kwh |-> 0,
     current_power_kw |-> 0, total_volume_m3 |-> 0, target_date |-> 0]

processContent302(m, recs, ic) ==
    [m EXCEPT !.info_codes = ic,
       !.total_energy_kwh = fromKey("Instantaneous", "EnergyWh", 0, recs, m.total_energy_kwh),
       !.total_volume_m3 = fromKey("Instantaneous", "Volume", 0, recs, m.total_volume_m3),
       !.target_energy_kwh = fromKey("Instantaneous", "EnergyWh", 1, recs, m.target_energy_kwh),
       !.current_power_kw = fromKey("Instantaneous", "PowerW", 0, recs, m.current_power_kw),
       !.target_date = fromKey("Unknown", "Date", 1, recs, m.target_date)]

(***************************************************************************)
(* MeterCompact5: content[i] of the payload (0-based); past its end the   *)
(* read is undefined and may return any byte.                              *)
(***************************************************************************)
InitCompact5 == [total_energy_kwh |-> 0, curr_energy_kwh |-> 0, prev_energy_kwh |-> 0]

contentAt(p, i) == IF i < Len(p) THEN {p[i + 1]} ELSE Bytes

(***************************************************************************)
(* MeterLansenPU: two pulse counters, each read by exact key.              *)
(***************************************************************************)
InitLansenPU == [pulse_counter_a |-> 0, pulse_counter_b |-> 0]

Init ==
    /\ m603 = Init603
    /\ m302 = Init302
    /\ c5 = InitCompact5
    /\ pu = InitLansenPU
    /\ explanations = <<>>
    /\ frame_len = 0
    /\ h603 = <<>>
    /\ h302 = <<>>
    /\ dispatched = 0

\* The trace the DV parser leaves for a telegram: one entry per header byte.
parserTrace(parsed) == [i \in 1..parsed |-> i - 1]

\* MeterMultical603::processContent(t).
Process603 ==
    /\ dispatched < MaxTelegrams
    /\ \E recs \in Telegrams603 :
         \E ic \in extractDVfixed("FF22", recs, m603.info_codes),
            fw \in extractDVfixed("FF07", recs, m603.energy_forward_kwh),
            rt \in extractDVfixed("FF08", recs, m603.energy_returned_kwh) :
           /\ m603' = processContent603(m603, recs, ic, fw, rt)
           /\ h603' = Append(h603, recs)
    /\ dispatched' = dispatched + 1
    /\ UNCHANGED <<m302, c5, pu, explanations, frame_len, h302>>

\* MeterMultical302::processContent(t).
Process302 ==
    /\ dispatched < MaxTelegrams
    /\ \E recs \in Telegrams302 :
         \E ic \in extractDVfixed("FF21", recs, m302.info_codes) :
           /\ m302' = processContent302(m302, recs, ic)
           /\ h302' = Append(h302, recs)
    /\ dispatched' = dispatched + 1
    /\ UNCHANGED <<m603, c5, pu, explanations, frame_len, h603>>

\* Mutant: the four bytes are read as (signed) char instead of uchar.
signedChar(b) == IF b >= 128 THEN b - 256 ELSE b

ProcessCompact5_SignedChar ==
    /\ dispatched < MaxTelegrams
    /\ \E t \in Telegrams5 :
         \E prev_lo \in contentAt(t.payload, 3), prev_hi \in contentAt(t.payload, 4),
            curr_lo \in contentAt(t.payload, 7), curr_hi \in contentAt(t.payload, 8) :
           LET prev == 256 * signedChar(prev_hi) + signedChar(prev_lo)
               curr == 256 * signedChar(curr_hi) + signedChar(curr_lo)
           IN  /\ c5' = [total_energy_kwh |-> prev + curr, curr_energy_kwh |-> curr,
                         prev_energy_kwh |-> prev]
               /\ explanations' = parserTrace(t.parsed) \o <<t.parsed + 3, t.parsed + 7>>
               /\ frame_len' = t.parsed + Len(t.payload)
    /\ dispatched' = dispatched + 1
    /\ UNCHANGED <<m603, m302, pu, h603, h302>>

\* MeterCompact5::processContent(t): the previous period's energy from
\* content[3..4], the current one from content[7..8], each pushed on the
\* explanation trace at t->parsed.size() plus its index.
ProcessCompact5 ==
    /\ dispatched < MaxTelegrams
    /\ \E t \in Telegrams5 :
         \E prev_lo \in contentAt(t.payload, 3), prev_hi \in contentAt(t.payload, 4),
            curr_lo \in contentAt(t.payload, 7), curr_hi \in contentAt(t.payload, 8) :
           LET prev == 256 * prev_hi + prev_lo
               curr == 256 * curr_hi + curr_lo
           IN  /\ c5' = [total_energy_kwh |-> prev + curr, curr_energy_kwh |-> curr,
                         prev_energy_kwh |-> prev]
               /\ explanations' = parserTrace(t.parsed) \o <<t.parsed + 3, t.parsed + 7>>
               /\ frame_len' = t.parsed + Len(t.payload)
    /\ dispatched' = dispatched + 1
    /\ UNCHANGED <<m603, m302, pu, h603, h302>>

\* MeterLansenPU::processContent(t): extractDVdouble of "0EFD3A" into
\* pulse_counter_a_ and of "8E40FD3A" into pulse_counter_b_.
ProcessLansenPU ==
    /\ dispatched < MaxTelegrams
    /\ \E recs \in TelegramsPU :
         \E a \in extractDVfixed("FD3A", recs, pu.pulse_counter_a),
            b \in extractDVfixed("40FD3A", recs, pu.pulse_counter_b) :
           pu' = [pulse_counter_a |-> a, pulse_counter_b |-> b]
    /\ dispatched' = dispatched + 1
    /\ UNCHANGED <<m603, m302, c5, explanations, frame_len, h603, h302>>

\* MeterUnknown::processContent(t) is empty.
ProcessUnknown ==
    /\ dispatched < MaxTelegrams
    /\ dispatched' = dispatched + 1
    /\ UNCHANGED <<m603, m302, c5, pu, explanations, frame_len, h603, h302>>

\* Every telegram of the model has been dispatched.
Done ==
    /\ dispatched = MaxTelegrams
    /\ UNCHANGED vars

Next ==
    \/ Process603 \/ Process302 \/ ProcessCompact5 \/ ProcessLansenPU
    \/ ProcessUnknown \/ Done

Spec == Init /\ [][Next]_vars

-----------------------------------------------------------------------------
TypeOK ==
    /\ m603 \in [info_codes: Nat, total_energy_kwh: Nat, total_volume_m3: Nat,
                 volume_flow_m3h: Nat, t1_temperature_c: Nat, has_t1_temperature: BOOLEAN,
                 t2_temperature_c: Nat, has_t2_temperature: BOOLEAN, target_date: Nat,
                 energy_forward_kwh: Nat, energy_returned_kwh: Nat]
    /\ m302 \in [info_codes: Nat, total_energy_kwh: Nat, target_energy_kwh: Nat,
                 current_power_kw: Nat, total_volume_m3: Nat, target_date: Nat]
    /\ c5 \in [total_energy_kwh: {n \in Nat : n <= 2 * 65535},
              curr_energy_kwh: {n \in Nat : n <= 65535},
              prev_energy_kwh: {n \in Nat : n <= 65535}]
    /\ pu \in [pulse_counter_a: Nat, pulse_counter_b: Nat]
    /\ explanations \in Seq(Nat)
    /\ frame_len \in Nat
    /\ h603 \in Seq(Telegrams603)
    /\ h302 \in Seq(Telegrams302)
    /\ dispatched \in 0..MaxTelegrams

(***************************************************************************)
(* Each reading a multical meter prints is the record of the latest       *)
(* telegram that carried it, and its initial value while none has: the    *)
(* total energy and volume the instantaneous storage-0 records, the       *)
(* energy "at date" and the date (302) the storage-1 ones, the flow the   *)
(* first flow record of either function, T1 and T2 the flow and return    *)
(* temperatures, and has_tN_temperature_ whether any telegram carried     *)
(* one.  It is about the findKey lookups of processContent and about a    *)
(* missing record keeping the value of an earlier telegram.               *)
(***************************************************************************)
latest(h, mt, vi, sn, init) ==
    LET I == {i \in DOMAIN h : found(mt, vi, sn, h[i])}
    IN  IF I = {} THEN init
        ELSE valueOf(mt, vi, sn, h[CHOOSE i \in I : \A j \in I : j <= i])

everCarried(h, vi) == \E i \in DOMAIN h : found("Instantaneous", vi, 0, h[i])

LatestReading ==
    /\ m603.total_energy_kwh = latest(h603, "Instantaneous", "EnergyWh", 0, 0)
    /\ m603.total_volume_m3 = latest(h603, "Instantaneous", "Volume", 0, 0)
    /\ m603.volume_flow_m3h = latest(h603, "Unknown", "VolumeFlow", 0, 0)
    /\ m603.t1_temperature_c = latest(h603, "Instantaneous", "FlowTemperature", 0, 127)
    /\ m603.t2_temperature_c = latest(h603, "Instantaneous", "ReturnTemperature", 0, 127)
    /\ m603.has_t1_temperature = everCarried(h603, "FlowTemperature")
    /\ m603.has_t2_temperature = everCarried(h603, "ReturnTemperature")
    /\ m603.target_date = latest(h603, "Unknown", "Date", 0, 0)
    /\ m302.total_energy_kwh = latest(h302, "Instantaneous", "EnergyWh", 0, 0)
    /\ m302.target_energy_kwh = latest(h302, "Instantaneous", "EnergyWh", 1, 0)
    /\ m302.total_volume_m3 = latest(h302, "Instantaneous", "Volume", 0, 0)
    /\ m302.current_power_kw = latest(h302, "Instantaneous", "PowerW", 0, 0)
    /\ m302.target_date = latest(h302, "Unknown", "Date", 1, 0)

(***************************************************************************)
(* Spec 3: every entry of a telegram's explanation trace has an offset    *)
(* inside the raw frame.  It is about MeterCompact5::processContent       *)
(* pushing entries at parsed.size()+3 and +7 without looking at the       *)
(* payload's length.                                                       *)
(***************************************************************************)
ExplanationsInFrame ==
    \A i \in DOMAIN explanations : explanations[i] < frame_len
=============================================================================
