------------------------- MODULE MeterDriversProofs -------------------------
(***************************************************************************)
(* Proofs about the drivers' processContent (MeterDrivers): the type      *)
(* invariant, and that every multical reading is the record of the latest *)
(* telegram that carried it (LatestReading), for every set of telegrams   *)
(* and every number of dispatches.                                         *)
(***************************************************************************)
EXTENDS MeterDrivers, SequenceTheorems, WellFoundedInduction, TLAPS

(***************************************************************************)
(* findKey's minimum exists: keyRank takes one of four values, so a       *)
(* nonempty set of records has one of least rank.  Hence the record       *)
(* findKey returns is one of the telegram's records, or NoRecord.         *)
(***************************************************************************)
LEMMA KeyRankValues ==
    ASSUME NEW r \in Record
    PROVE  keyRank(r) \in {0, 1, 4, 5}
BY DEF Record, keyRank

LEMMA FindKeyIn ==
    ASSUME NEW mt, NEW vi, NEW sn, NEW recs \in SUBSET Record
    PROVE  findKey(mt, vi, sn, recs) \in recs \cup {NoRecord}
<1> DEFINE M == {r \in recs : (mt = "Unknown" \/ r.mt = mt) /\ r.vi = vi /\ r.sn = sn}
           least(r) == \A q \in M : keyRank(r) <= keyRank(q)
<1>1. CASE M = {}
  BY <1>1 DEF findKey
<1>2. CASE M # {}
  <2>1. \A q \in M : keyRank(q) \in {0, 1, 4, 5}
    BY KeyRankValues
  <2>2. \E r \in M : least(r)
    <3>1. CASE \E r \in M : keyRank(r) = 0
      BY <3>1, <2>1
    <3>2. CASE \E r \in M : keyRank(r) = 1 /\ ~\E q \in M : keyRank(q) = 0
      BY <3>2, <2>1
    <3>3. CASE \E r \in M : keyRank(r) = 4 /\ ~\E q \in M : keyRank(q) \in {0, 1}
      BY <3>3, <2>1
    <3>4. CASE ~\E q \in M : keyRank(q) \in {0, 1, 4}
      BY <3>4, <2>1, <1>2
    <3>5. QED
      BY <3>1, <3>2, <3>3, <3>4
  <2>3. (CHOOSE r \in M : least(r)) \in M
    BY <2>2
  <2>4. QED
    BY <1>2, <2>3 DEF findKey
<1>3. QED
  BY <1>1, <1>2

LEMMA ValueNat ==
    ASSUME NEW mt, NEW vi, NEW sn, NEW recs \in SUBSET Record
    PROVE  valueOf(mt, vi, sn, recs) \in Nat
BY FindKeyIn DEF valueOf, NoRecord, Record

LEMMA FixedNat ==
    ASSUME NEW vi, NEW recs \in SUBSET Record, NEW old \in Nat
    PROVE  extractDVfixed(vi, recs, old) \subseteq Nat
BY ValueNat DEF extractDVfixed

LEMMA FromKeyNat ==
    ASSUME NEW mt, NEW vi, NEW sn, NEW recs \in SUBSET Record, NEW old \in Nat
    PROVE  fromKey(mt, vi, sn, recs, old) \in Nat
BY ValueNat DEF fromKey

-----------------------------------------------------------------------------
(***************************************************************************)
(* latest and everCarried over a history with one more telegram: the new  *)
(* telegram decides when it carries the record, else the old history.    *)
(***************************************************************************)
\* The record sets of telegrams, of which the histories are sequences.
RecordSets == SUBSET Record

\* A nonempty set of indices of a sequence has a greatest element: the
\* least of the distances to n, by the well-foundedness of < on Nat.
LEMMA MaxIndex ==
    ASSUME NEW n \in Nat, NEW I \in SUBSET (1..n), I # {}
    PROVE  \E i \in I : \A j \in I : j <= i
<1> DEFINE T == {n - i : i \in I}
           LT == {ss \in Nat \X Nat : ss[1] < ss[2]}
<1>1. T \subseteq Nat /\ T # {}
  <2>1. \A i \in I : n - i \in Nat
    OBVIOUS
  <2>2. QED
    BY <2>1, Zenon DEF T
<1>2. IsWellFoundedOn(LT, Nat)
  BY NatLessThanWellFounded, Zenon DEF OpToRel, LT
<1>3. PICK x \in T : \A y \in T : ~(<<y, x>> \in LT)
  BY <1>1, <1>2, WFMin
<1>4. \A y \in T : ~(y < x)
  BY <1>1, <1>3 DEF LT
<1>5. QED
  BY <1>4 DEF T

LEMMA LatestAppend ==
    ASSUME NEW h \in Seq(RecordSets), NEW recs \in SUBSET Record,
           NEW mt, NEW vi, NEW sn, NEW init
    PROVE  latest(Append(h, recs), mt, vi, sn, init) =
             IF found(mt, vi, sn, recs) THEN valueOf(mt, vi, sn, recs)
             ELSE latest(h, mt, vi, sn, init)
<1> DEFINE g == Append(h, recs)
           I == {i \in DOMAIN h : found(mt, vi, sn, h[i])}
           J == {i \in DOMAIN g : found(mt, vi, sn, g[i])}
           n == Len(h) + 1
<1>1. /\ Len(g) = n /\ DOMAIN g = 1..n /\ DOMAIN h = 1..Len(h)
      /\ g[n] = recs /\ \A i \in 1..Len(h) : g[i] = h[i]
  BY AppendProperties
<1>2. CASE found(mt, vi, sn, recs)
  <2>1. n \in J /\ \A j \in J : j <= n
    BY <1>1, <1>2
  <2>2. (CHOOSE i \in J : \A j \in J : j <= i) = n
    BY <2>1
  <2>3. J # {}
    BY <2>1
  <2>4. QED
    BY <1>1, <1>2, <2>2, <2>3 DEF latest
<1>3. CASE ~found(mt, vi, sn, recs)
  <2> DEFINE c == CHOOSE i \in I : \A j \in I : j <= i
  <2>1. J = I
    BY <1>1, <1>3
  <2>2. (CHOOSE i \in J : \A j \in J : j <= i) = c
    BY <2>1, Zenon
  <2>3. CASE I = {}
    <3>1. latest(g, mt, vi, sn, init) = init
      BY <2>1, <2>3, Zenon DEF latest, I, J, g
    <3>2. latest(h, mt, vi, sn, init) = init
      BY <2>3, Zenon DEF latest, I
    <3>3. QED
      BY <1>3, <3>1, <3>2 DEF g
  <2>4. CASE I # {}
    <3>1. c \in I
      <4>1. I \subseteq 1..Len(h) /\ Len(h) \in Nat
        BY <1>1
      <4>2. \E i \in I : \A j \in I : j <= i
        BY <4>1, <2>4, MaxIndex
      <4>3. QED
        BY <4>2
    <3>2. g[c] = h[c]
      BY <3>1, <1>1
    <3>3. latest(g, mt, vi, sn, init) = valueOf(mt, vi, sn, g[c])
      BY <2>1, <2>2, <2>4, Zenon DEF latest, I, J, g, c
    <3>4. latest(h, mt, vi, sn, init) = valueOf(mt, vi, sn, h[c])
      BY <2>4, Zenon DEF latest, I, c
    <3>5. QED
      BY <1>3, <3>2, <3>3, <3>4 DEF g
  <2>5. QED
    BY <2>3, <2>4
<1>4. QED
  BY <1>2, <1>3

LEMMA EverCarriedAppend ==
    ASSUME NEW h \in Seq(RecordSets), NEW recs \in SUBSET Record, NEW vi
    PROVE  everCarried(Append(h, recs), vi) =
             (everCarried(h, vi) \/ found("Instantaneous", vi, 0, recs))
<1>1. /\ Len(h) \in Nat
      /\ DOMAIN Append(h, recs) = 1..(Len(h) + 1) /\ DOMAIN h = 1..Len(h)
      /\ Append(h, recs)[Len(h) + 1] = recs
      /\ \A i \in 1..Len(h) : Append(h, recs)[i] = h[i]
  BY AppendProperties
<1> DEFINE g == Append(h, recs)
           F(x) == found("Instantaneous", vi, 0, x)
<1>2. ASSUME NEW i \in DOMAIN g, F(g[i])
      PROVE  (\E j \in DOMAIN h : F(h[j])) \/ F(recs)
  <2>1. CASE i = Len(h) + 1
    BY <1>1, <1>2, <2>1, Zenon DEF g
  <2>2. CASE i \in 1..Len(h)
    <3>1. g[i] = h[i]
      BY <1>1, <2>2 DEF g
    <3>2. QED
      BY <1>1, <1>2, <2>2, <3>1, Zenon
  <2>3. QED
    BY <1>1, <2>1, <2>2 DEF g
<1>3. ASSUME NEW j \in DOMAIN h, F(h[j]) PROVE \E i \in DOMAIN g : F(g[i])
  <2>1. j \in DOMAIN g /\ g[j] = h[j]
    BY <1>1 DEF g
  <2>2. QED
    BY <1>3, <2>1, Zenon
<1>4. ASSUME F(recs) PROVE \E i \in DOMAIN g : F(g[i])
  <2>1. Len(h) + 1 \in DOMAIN g /\ g[Len(h) + 1] = recs
    BY <1>1 DEF g
  <2>2. QED
    BY <1>4, <2>1, Zenon
<1>5. QED
  BY <1>2, <1>3, <1>4, Zenon DEF everCarried, g, F

-----------------------------------------------------------------------------
(***************************************************************************)
(* Type correctness.                                                       *)
(***************************************************************************)
LEMMA InitTypeOK == Init => TypeOK
BY DriversAssumption DEF Init, TypeOK, Init603, Init302, InitCompact5, InitLansenPU

(***************************************************************************)
(* Each processContent maps a meter state of its type, and a telegram,    *)
(* to a state of the same type.                                            *)
(***************************************************************************)
State603 ==
    [info_codes: Nat, total_energy_kwh: Nat, total_volume_m3: Nat,
     volume_flow_m3h: Nat, t1_temperature_c: Nat, has_t1_temperature: BOOLEAN,
     t2_temperature_c: Nat, has_t2_temperature: BOOLEAN, target_date: Nat,
     energy_forward_kwh: Nat, energy_returned_kwh: Nat]

State302 ==
    [info_codes: Nat, total_energy_kwh: Nat, target_energy_kwh: Nat,
     current_power_kw: Nat, total_volume_m3: Nat, target_date: Nat]

LEMMA Content603Type ==
    ASSUME NEW m \in State603, NEW recs \in SUBSET Record,
           NEW ic \in Nat, NEW fw \in Nat, NEW rt \in Nat
    PROVE  processContent603(m, recs, ic, fw, rt) \in State603
<1>1. /\ fromKey("Instantaneous", "EnergyWh", 0, recs, m.total_energy_kwh) \in Nat
      /\ fromKey("Instantaneous", "Volume", 0, recs, m.total_volume_m3) \in Nat
      /\ fromKey("Unknown", "VolumeFlow", 0, recs, m.volume_flow_m3h) \in Nat
      /\ fromKey("Instantaneous", "FlowTemperature", 0, recs, m.t1_temperature_c) \in Nat
      /\ fromKey("Instantaneous", "ReturnTemperature", 0, recs, m.t2_temperature_c) \in Nat
      /\ fromKey("Unknown", "Date", 0, recs, m.target_date) \in Nat
  BY FromKeyNat DEF State603
<1>2. /\ hasFromKey("FlowTemperature", recs, m.has_t1_temperature) \in BOOLEAN
      /\ hasFromKey("ReturnTemperature", recs, m.has_t2_temperature) \in BOOLEAN
  BY DEF State603, hasFromKey
<1>3. QED
  BY <1>1, <1>2 DEF State603, processContent603

LEMMA Content302Type ==
    ASSUME NEW m \in State302, NEW recs \in SUBSET Record, NEW ic \in Nat
    PROVE  processContent302(m, recs, ic) \in State302
<1>1. /\ fromKey("Instantaneous", "EnergyWh", 0, recs, m.total_energy_kwh) \in Nat
      /\ fromKey("Instantaneous", "Volume", 0, recs, m.total_volume_m3) \in Nat
      /\ fromKey("Instantaneous", "EnergyWh", 1, recs, m.target_energy_kwh) \in Nat
      /\ fromKey("Instantaneous", "PowerW", 0, recs, m.current_power_kw) \in Nat
      /\ fromKey("Unknown", "Date", 1, recs, m.target_date) \in Nat
  BY FromKeyNat DEF State302
<1>2. QED
  BY <1>1 DEF State302, processContent302

\* A byte the Compact5 reads, in or past the payload, is in 0..255.
LEMMA ContentByte ==
    ASSUME NEW p \in Seq(0..255), NEW i \in Nat
    PROVE  contentAt(p, i) \subseteq 0..255
<1>1. CASE i < Len(p)
  <2>1. i + 1 \in 1..Len(p)
    BY <1>1
  <2>2. p[i + 1] \in 0..255
    BY <2>1, ElementOfSeq
  <2>3. QED
    BY <1>1, <2>2, Zenon DEF contentAt
<1>2. CASE ~(i < Len(p))
  BY <1>2, DriversAssumption DEF contentAt
<1>3. QED
  BY <1>1, <1>2

\* The multical and LansenPU telegrams are sets of DV records.
LEMMA TelegramsRecords ==
    /\ Telegrams603 \subseteq SUBSET Record
    /\ Telegrams302 \subseteq SUBSET Record
    /\ TelegramsPU \subseteq SUBSET Record
BY DriversAssumption

LEMMA MaxTelegramsNat == MaxTelegrams \in Nat
BY DriversAssumption

LEMMA NextTypeOK == TypeOK /\ [Next]_vars => TypeOK'
<1> SUFFICES ASSUME TypeOK, [Next]_vars PROVE TypeOK'
  OBVIOUS
<1> USE TelegramsRecords, MaxTelegramsNat
<1>0. m603 \in State603 /\ m302 \in State302
  BY DEF TypeOK, State603, State302
<1>1. CASE Process603
  <2>0. PICK recs \in Telegrams603 :
          \E ic \in extractDVfixed("FF22", recs, m603.info_codes),
             fw \in extractDVfixed("FF07", recs, m603.energy_forward_kwh),
             rt \in extractDVfixed("FF08", recs, m603.energy_returned_kwh) :
            /\ m603' = processContent603(m603, recs, ic, fw, rt)
            /\ h603' = Append(h603, recs)
    BY <1>1 DEF Process603
  <2>1. PICK ic \in extractDVfixed("FF22", recs, m603.info_codes),
             fw \in extractDVfixed("FF07", recs, m603.energy_forward_kwh),
             rt \in extractDVfixed("FF08", recs, m603.energy_returned_kwh) :
          /\ m603' = processContent603(m603, recs, ic, fw, rt)
          /\ h603' = Append(h603, recs)
    BY <2>0
  <2>2. recs \in SUBSET Record
    OBVIOUS
  <2>3. ic \in Nat /\ fw \in Nat /\ rt \in Nat
    <3>1. m603.info_codes \in Nat /\ m603.energy_forward_kwh \in Nat
          /\ m603.energy_returned_kwh \in Nat
      BY <1>0 DEF State603
    <3>2. /\ extractDVfixed("FF22", recs, m603.info_codes) \subseteq Nat
          /\ extractDVfixed("FF07", recs, m603.energy_forward_kwh) \subseteq Nat
          /\ extractDVfixed("FF08", recs, m603.energy_returned_kwh) \subseteq Nat
      BY <2>2, <3>1, FixedNat
    <3>3. QED
      BY <2>1, <3>2
  <2>4. m603' \in State603
    BY <1>0, <2>1, <2>2, <2>3, Content603Type
  <2>5. h603' \in Seq(Telegrams603)
    BY <2>1 DEF TypeOK
  <2>6. QED
    BY <1>1, <2>4, <2>5 DEF Process603, TypeOK, State603
<1>2. CASE Process302
  <2>0. PICK recs \in Telegrams302 :
          \E ic \in extractDVfixed("FF21", recs, m302.info_codes) :
            /\ m302' = processContent302(m302, recs, ic)
            /\ h302' = Append(h302, recs)
    BY <1>2 DEF Process302
  <2>1. PICK ic \in extractDVfixed("FF21", recs, m302.info_codes) :
          /\ m302' = processContent302(m302, recs, ic)
          /\ h302' = Append(h302, recs)
    BY <2>0
  <2>2. recs \in SUBSET Record
    OBVIOUS
  <2>3. ic \in Nat
    <3>1. m302.info_codes \in Nat
      BY <1>0 DEF State302
    <3>2. QED
      BY <2>1, <2>2, <3>1, FixedNat
  <2>4. m302' \in State302
    BY <1>0, <2>1, <2>2, <2>3, Content302Type
  <2>5. h302' \in Seq(Telegrams302)
    BY <2>1 DEF TypeOK
  <2>6. QED
    BY <1>2, <2>4, <2>5 DEF Process302, TypeOK, State302
<1>3. CASE ProcessCompact5
  <2>1. PICK t \in Telegrams5 :
          \E prev_lo \in contentAt(t.payload, 3), prev_hi \in contentAt(t.payload, 4),
             curr_lo \in contentAt(t.payload, 7), curr_hi \in contentAt(t.payload, 8) :
            LET prev == 256 * prev_hi + prev_lo
                curr == 256 * curr_hi + curr_lo
            IN  /\ c5' = [total_energy_kwh |-> prev + curr, curr_energy_kwh |-> curr,
                          prev_energy_kwh |-> prev]
                /\ explanations' = parserTrace(t.parsed) \o <<t.parsed + 3, t.parsed + 7>>
                /\ frame_len' = t.parsed + Len(t.payload)
    BY <1>3 DEF ProcessCompact5
  <2>2. t.parsed \in Nat /\ t.payload \in Seq(0..255)
    BY <2>1, DriversAssumption
  <2>3. PICK prev_lo \in 0..255, prev_hi \in 0..255, curr_lo \in 0..255, curr_hi \in 0..255 :
            /\ c5' = [total_energy_kwh |-> (256 * prev_hi + prev_lo) + (256 * curr_hi + curr_lo),
                      curr_energy_kwh |-> 256 * curr_hi + curr_lo,
                      prev_energy_kwh |-> 256 * prev_hi + prev_lo]
            /\ explanations' = parserTrace(t.parsed) \o <<t.parsed + 3, t.parsed + 7>>
            /\ frame_len' = t.parsed + Len(t.payload)
    <3>1. /\ contentAt(t.payload, 3) \subseteq 0..255
          /\ contentAt(t.payload, 4) \subseteq 0..255
          /\ contentAt(t.payload, 7) \subseteq 0..255
          /\ contentAt(t.payload, 8) \subseteq 0..255
      BY <2>2, ContentByte
    <3>2. PICK pl \in contentAt(t.payload, 3), ph \in contentAt(t.payload, 4),
               cl \in contentAt(t.payload, 7), ch \in contentAt(t.payload, 8) :
            /\ c5' = [total_energy_kwh |-> (256 * ph + pl) + (256 * ch + cl),
                      curr_energy_kwh |-> 256 * ch + cl,
                      prev_energy_kwh |-> 256 * ph + pl]
            /\ explanations' = parserTrace(t.parsed) \o <<t.parsed + 3, t.parsed + 7>>
            /\ frame_len' = t.parsed + Len(t.payload)
      BY <2>1
    <3>3. pl \in 0..255 /\ ph \in 0..255 /\ cl \in 0..255 /\ ch \in 0..255
      BY <3>1, <3>2
    <3>4. QED
      BY <3>2, <3>3, Zenon
  <2>4. c5' \in [total_energy_kwh: {n \in Nat : n <= 2 * 65535},
                 curr_energy_kwh: {n \in Nat : n <= 65535},
                 prev_energy_kwh: {n \in Nat : n <= 65535}]
    BY <2>3
  <2>5. parserTrace(t.parsed) \in Seq(Nat)
    BY <2>2 DEF parserTrace
  <2>6. explanations' \in Seq(Nat) /\ frame_len' \in Nat
    <3>1. <<t.parsed + 3, t.parsed + 7>> \in Seq(Nat)
      BY <2>2
    <3>2. parserTrace(t.parsed) \o <<t.parsed + 3, t.parsed + 7>> \in Seq(Nat)
      BY <2>5, <3>1, ConcatProperties
    <3>3. Len(t.payload) \in Nat
      BY <2>2, LenProperties
    <3>4. explanations' \in Seq(Nat)
      BY <2>3, <3>2, Zenon
    <3>5. t.parsed + Len(t.payload) \in Nat
      BY <2>2, <3>3
    <3>6. QED
      BY <2>3, <3>4, <3>5, Zenon
  <2>7. QED
    BY <1>3, <2>4, <2>6 DEF ProcessCompact5, TypeOK
<1>4. CASE ProcessLansenPU
  <2>0. PICK recs \in TelegramsPU :
          \E a \in extractDVfixed("FD3A", recs, pu.pulse_counter_a),
             b \in extractDVfixed("40FD3A", recs, pu.pulse_counter_b) :
            pu' = [pulse_counter_a |-> a, pulse_counter_b |-> b]
    BY <1>4 DEF ProcessLansenPU
  <2>1. PICK a \in extractDVfixed("FD3A", recs, pu.pulse_counter_a),
             b \in extractDVfixed("40FD3A", recs, pu.pulse_counter_b) :
          pu' = [pulse_counter_a |-> a, pulse_counter_b |-> b]
    BY <2>0
  <2>2. a \in Nat /\ b \in Nat
    <3>1. recs \in SUBSET Record
      OBVIOUS
    <3>2. pu.pulse_counter_a \in Nat /\ pu.pulse_counter_b \in Nat
      BY DEF TypeOK
    <3>3. QED
      BY <2>1, <3>1, <3>2, FixedNat
  <2>3. QED
    BY <1>4, <2>1, <2>2 DEF ProcessLansenPU, TypeOK
<1>5. CASE ProcessUnknown
  BY <1>5 DEF ProcessUnknown, TypeOK
<1>6. CASE Done \/ UNCHANGED vars
  <2>1. UNCHANGED vars
    BY <1>6 DEF Done
  <2>2. UNCHANGED <<m603, m302, c5, pu, explanations, frame_len, h603, h302, dispatched>>
    BY <2>1 DEF vars
  <2>3. QED
    BY <2>2 DEF TypeOK
<1>7. QED
  BY <1>1, <1>2, <1>3, <1>4, <1>5, <1>6 DEF Next

\* The drivers only ever hold values of the types TypeOK names.
THEOREM DriversTypeCorrect == Spec => []TypeOK
BY InitTypeOK, NextTypeOK, PTL DEF Spec

-----------------------------------------------------------------------------
(***************************************************************************)
(* Every multical reading is the record of the latest telegram that       *)
(* carried it.  LatestReading alone is not inductive: the step needs the  *)
(* histories to be sequences of record sets and the old fields to be      *)
(* those of a meter state, which TypeOK gives.                            *)
(***************************************************************************)
\* One findKey-guarded assignment keeps "the latest value" true.
LEMMA FromKeyLatest ==
    ASSUME NEW h \in Seq(RecordSets), NEW recs \in SUBSET Record,
           NEW mt, NEW vi, NEW sn, NEW init
    PROVE  fromKey(mt, vi, sn, recs, latest(h, mt, vi, sn, init))
             = latest(Append(h, recs), mt, vi, sn, init)
BY LatestAppend DEF fromKey

\* And has_tN_temperature_ = extractDVdouble(...) keeps "ever carried" true.
LEMMA HasFromKeyEver ==
    ASSUME NEW h \in Seq(RecordSets), NEW recs \in SUBSET Record, NEW vi,
           NEW old, old = everCarried(h, vi)
    PROVE  hasFromKey(vi, recs, old) = everCarried(Append(h, recs), vi)
<1>1. everCarried(Append(h, recs), vi) = (old \/ found("Instantaneous", vi, 0, recs))
  BY EverCarriedAppend
<1>2. CASE found("Instantaneous", vi, 0, recs)
  BY <1>1, <1>2, Zenon DEF hasFromKey
<1>3. CASE ~found("Instantaneous", vi, 0, recs)
  <2>1. old \in BOOLEAN
    BY DEF everCarried
  <2>2. QED
    BY <1>1, <1>3, <2>1, Zenon DEF hasFromKey
<1>4. QED
  BY <1>2, <1>3

IInv == TypeOK /\ LatestReading

LEMMA InitIInv == Init => IInv
<1> SUFFICES ASSUME Init PROVE IInv
  OBVIOUS
<1>1. TypeOK
  BY InitTypeOK
<1>2. DOMAIN h603 = {} /\ DOMAIN h302 = {}
  BY DEF Init
<1>3. \A mt, vi, sn, init : latest(h603, mt, vi, sn, init) = init
                            /\ latest(h302, mt, vi, sn, init) = init
  BY <1>2 DEF latest
<1>4. \A vi : ~everCarried(h603, vi)
  BY <1>2 DEF everCarried
<1>5. QED
  <2>1. m603 = Init603 /\ m302 = Init302
    BY DEF Init
  <2>2. /\ m603.has_t1_temperature = everCarried(h603, "FlowTemperature")
        /\ m603.has_t2_temperature = everCarried(h603, "ReturnTemperature")
    <3>1. m603.has_t1_temperature = FALSE /\ m603.has_t2_temperature = FALSE
      BY <2>1 DEF Init603
    <3>2. ~everCarried(h603, "FlowTemperature") /\ ~everCarried(h603, "ReturnTemperature")
      BY <1>4
    <3>3. everCarried(h603, "FlowTemperature") \in BOOLEAN
          /\ everCarried(h603, "ReturnTemperature") \in BOOLEAN
      BY DEF everCarried
    <3>4. QED
      BY <3>1, <3>2, <3>3
  <2>3. /\ m603.total_energy_kwh = latest(h603, "Instantaneous", "EnergyWh", 0, 0)
        /\ m603.total_volume_m3 = latest(h603, "Instantaneous", "Volume", 0, 0)
        /\ m603.volume_flow_m3h = latest(h603, "Unknown", "VolumeFlow", 0, 0)
        /\ m603.t1_temperature_c = latest(h603, "Instantaneous", "FlowTemperature", 0, 127)
        /\ m603.t2_temperature_c = latest(h603, "Instantaneous", "ReturnTemperature", 0, 127)
        /\ m603.target_date = latest(h603, "Unknown", "Date", 0, 0)
    BY <1>3, <2>1 DEF Init603
  <2>4. /\ m302.total_energy_kwh = latest(h302, "Instantaneous", "EnergyWh", 0, 0)
        /\ m302.target_energy_kwh = latest(h302, "Instantaneous", "EnergyWh", 1, 0)
        /\ m302.total_volume_m3 = latest(h302, "Instantaneous", "Volume", 0, 0)
        /\ m302.current_power_kw = latest(h302, "Instantaneous", "PowerW", 0, 0)
        /\ m302.target_date = latest(h302, "Unknown", "Date", 1, 0)
    BY <1>3, <2>1 DEF Init302
  <2>5. QED
    BY <1>1, <2>2, <2>3, <2>4 DEF IInv, LatestReading

LEMMA NextIInv == IInv /\ [Next]_vars => IInv'
<1> SUFFICES ASSUME IInv, [Next]_vars PROVE IInv'
  OBVIOUS
<1> USE TelegramsRecords
<1>0. /\ TypeOK' /\ m603 \in State603 /\ m302 \in State302
      /\ h603 \in Seq(RecordSets) /\ h302 \in Seq(RecordSets)
  <2>1. TypeOK'
    BY NextTypeOK DEF IInv
  <2>2. h603 \in Seq(Telegrams603) /\ h302 \in Seq(Telegrams302)
    BY DEF IInv, TypeOK
  <2>3. h603 \in Seq(RecordSets) /\ h302 \in Seq(RecordSets)
    <3>1. Telegrams603 \subseteq RecordSets /\ Telegrams302 \subseteq RecordSets
      BY TelegramsRecords DEF RecordSets
    <3>2. QED
      BY <2>2, <3>1, SeqMonotonic
  <2>4. QED
    BY <2>1, <2>3, NextTypeOK DEF IInv, TypeOK, State603, State302
<1>1. CASE Process603
  <2>0. PICK recs \in Telegrams603 :
          \E ic \in extractDVfixed("FF22", recs, m603.info_codes),
             fw \in extractDVfixed("FF07", recs, m603.energy_forward_kwh),
             rt \in extractDVfixed("FF08", recs, m603.energy_returned_kwh) :
            /\ m603' = processContent603(m603, recs, ic, fw, rt)
            /\ h603' = Append(h603, recs)
    BY <1>1 DEF Process603
  <2>1. PICK ic \in extractDVfixed("FF22", recs, m603.info_codes),
             fw \in extractDVfixed("FF07", recs, m603.energy_forward_kwh),
             rt \in extractDVfixed("FF08", recs, m603.energy_returned_kwh) :
          /\ m603' = processContent603(m603, recs, ic, fw, rt)
          /\ h603' = Append(h603, recs)
    BY <2>0
  <2>2. recs \in SUBSET Record
    OBVIOUS
  <2>3. /\ m603'.total_energy_kwh = fromKey("Instantaneous", "EnergyWh", 0, recs, m603.total_energy_kwh)
        /\ m603'.total_volume_m3 = fromKey("Instantaneous", "Volume", 0, recs, m603.total_volume_m3)
        /\ m603'.volume_flow_m3h = fromKey("Unknown", "VolumeFlow", 0, recs, m603.volume_flow_m3h)
        /\ m603'.t1_temperature_c = fromKey("Instantaneous", "FlowTemperature", 0, recs, m603.t1_temperature_c)
        /\ m603'.t2_temperature_c = fromKey("Instantaneous", "ReturnTemperature", 0, recs, m603.t2_temperature_c)
        /\ m603'.has_t1_temperature = hasFromKey("FlowTemperature", recs, m603.has_t1_temperature)
        /\ m603'.has_t2_temperature = hasFromKey("ReturnTemperature", recs, m603.has_t2_temperature)
        /\ m603'.target_date = fromKey("Unknown", "Date", 0, recs, m603.target_date)
    BY <1>0, <2>1 DEF processContent603, State603
  <2>4. /\ m603'.total_energy_kwh = latest(h603', "Instantaneous", "EnergyWh", 0, 0)
        /\ m603'.total_volume_m3 = latest(h603', "Instantaneous", "Volume", 0, 0)
        /\ m603'.volume_flow_m3h = latest(h603', "Unknown", "VolumeFlow", 0, 0)
        /\ m603'.t1_temperature_c = latest(h603', "Instantaneous", "FlowTemperature", 0, 127)
        /\ m603'.t2_temperature_c = latest(h603', "Instantaneous", "ReturnTemperature", 0, 127)
        /\ m603'.target_date = latest(h603', "Unknown", "Date", 0, 0)
    <3>1. m603'.total_energy_kwh = latest(h603', "Instantaneous", "EnergyWh", 0, 0)
      <4>1. m603.total_energy_kwh = latest(h603, "Instantaneous", "EnergyWh", 0, 0)
        BY DEF IInv, LatestReading
      <4>2. fromKey("Instantaneous", "EnergyWh", 0, recs, latest(h603, "Instantaneous", "EnergyWh", 0, 0))
              = latest(Append(h603, recs), "Instantaneous", "EnergyWh", 0, 0)
        BY ONLY <1>0, <2>2, FromKeyLatest
      <4>3. QED
        BY <2>1, <2>3, <4>1, <4>2
    <3>2. m603'.total_volume_m3 = latest(h603', "Instantaneous", "Volume", 0, 0)
      <4>1. m603.total_volume_m3 = latest(h603, "Instantaneous", "Volume", 0, 0)
        BY DEF IInv, LatestReading
      <4>2. fromKey("Instantaneous", "Volume", 0, recs, latest(h603, "Instantaneous", "Volume", 0, 0))
              = latest(Append(h603, recs), "Instantaneous", "Volume", 0, 0)
        BY ONLY <1>0, <2>2, FromKeyLatest
      <4>3. QED
        BY <2>1, <2>3, <4>1, <4>2
    <3>3. m603'.volume_flow_m3h = latest(h603', "Unknown", "VolumeFlow", 0, 0)
      <4>1. m603.volume_flow_m3h = latest(h603, "Unknown", "VolumeFlow", 0, 0)
        BY DEF IInv, LatestReading
      <4>2. fromKey("Unknown", "VolumeFlow", 0, recs, latest(h603, "Unknown", "VolumeFlow", 0, 0))
              = latest(Append(h603, recs), "Unknown", "VolumeFlow", 0, 0)
        BY ONLY <1>0, <2>2, FromKeyLatest
      <4>3. QED
        BY <2>1, <2>3, <4>1, <4>2
    <3>4. m603'.t1_temperature_c = latest(h603', "Instantaneous", "FlowTemperature", 0, 127)
      <4>1. m603.t1_temperature_c = latest(h603, "Instantaneous", "FlowTemperature", 0, 127)
        BY DEF IInv, LatestReading
      <4>2. fromKey("Instantaneous", "FlowTemperature", 0, recs, latest(h603, "Instantaneous", "FlowTemperature", 0, 127))
              = latest(Append(h603, recs), "Instantaneous", "FlowTemperature", 0, 127)
        BY ONLY <1>0, <2>2, FromKeyLatest
      <4>3. QED
        BY <2>1, <2>3, <4>1, <4>2
    <3>5. m603'.t2_temperature_c = latest(h603', "Instantaneous", "ReturnTemperature", 0, 127)
      <4>1. m603.t2_temperature_c = latest(h603, "Instantaneous", "ReturnTemperature", 0, 127)
        BY DEF IInv, LatestReading
      <4>2. fromKey("Instantaneous", "ReturnTemperature", 0, recs, latest(h603, "Instantaneous", "ReturnTemperature", 0, 127))
              = latest(Append(h603, recs), "Instantaneous", "ReturnTemperature", 0, 127)
        BY ONLY <1>0, <2>2, FromKeyLatest
      <4>3. QED
        BY <2>1, <2>3, <4>1, <4>2
    <3>6. m603'.target_date = latest(h603', "Unknown", "Date", 0, 0)
      <4>1. m603.target_date = latest(h603, "Unknown", "Date", 0, 0)
        BY DEF IInv, LatestReading
      <4>2. fromKey("Unknown", "Date", 0, recs, latest(h603, "Unknown", "Date", 0, 0))
              = latest(Append(h603, recs), "Unknown", "Date", 0, 0)
        BY ONLY <1>0, <2>2, FromKeyLatest
      <4>3. QED
        BY <2>1, <2>3, <4>1, <4>2
    <3>7. QED
      BY <3>1, <3>2, <3>3, <3>4, <3>5, <3>6
  <2>5. /\ m603'.has_t1_temperature = everCarried(h603', "FlowTemperature")
        /\ m603'.has_t2_temperature = everCarried(h603', "ReturnTemperature")
    <3>1. /\ m603.has_t1_temperature = everCarried(h603, "FlowTemperature")
          /\ m603.has_t2_temperature = everCarried(h603, "ReturnTemperature")
      BY DEF IInv, LatestReading
    <3>2. /\ hasFromKey("FlowTemperature", recs, m603.has_t1_temperature)
               = everCarried(Append(h603, recs), "FlowTemperature")
          /\ hasFromKey("ReturnTemperature", recs, m603.has_t2_temperature)
               = everCarried(Append(h603, recs), "ReturnTemperature")
      BY <1>0, <2>2, <3>1, HasFromKeyEver
    <3>3. QED
      BY <2>1, <2>3, <3>2
  <2>6. QED
    BY <1>0, <1>1, <2>4, <2>5 DEF Process603, IInv, LatestReading
<1>2. CASE Process302
  <2>0. PICK recs \in Telegrams302 :
          \E ic \in extractDVfixed("FF21", recs, m302.info_codes) :
            /\ m302' = processContent302(m302, recs, ic)
            /\ h302' = Append(h302, recs)
    BY <1>2 DEF Process302
  <2>1. PICK ic \in extractDVfixed("FF21", recs, m302.info_codes) :
          /\ m302' = processContent302(m302, recs, ic)
          /\ h302' = Append(h302, recs)
    BY <2>0
  <2>2. recs \in SUBSET Record
    OBVIOUS
  <2>3. /\ m302'.total_energy_kwh = fromKey("Instantaneous", "EnergyWh", 0, recs, m302.total_energy_kwh)
        /\ m302'.target_energy_kwh = fromKey("Instantaneous", "EnergyWh", 1, recs, m302.target_energy_kwh)
        /\ m302'.total_volume_m3 = fromKey("Instantaneous", "Volume", 0, recs, m302.total_volume_m3)
        /\ m302'.current_power_kw = fromKey("Instantaneous", "PowerW", 0, recs, m302.current_power_kw)
        /\ m302'.target_date = fromKey("Unknown", "Date", 1, recs, m302.target_date)
    BY <1>0, <2>1 DEF processContent302, State302
  <2>4. /\ m302'.total_energy_kwh = latest(h302', "Instantaneous", "EnergyWh", 0, 0)
        /\ m302'.target_energy_kwh = latest(h302', "Instantaneous", "EnergyWh", 1, 0)
        /\ m302'.total_volume_m3 = latest(h302', "Instantaneous", "Volume", 0, 0)
        /\ m302'.current_power_kw = latest(h302', "Instantaneous", "PowerW", 0, 0)
        /\ m302'.target_date = latest(h302', "Unknown", "Date", 1, 0)
    <3>1. m302'.total_energy_kwh = latest(h302', "Instantaneous", "EnergyWh", 0, 0)
      <4>1. m302.total_energy_kwh = latest(h302, "Instantaneous", "EnergyWh", 0, 0)
        BY DEF IInv, LatestReading
      <4>2. fromKey("Instantaneous", "EnergyWh", 0, recs, latest(h302, "Instantaneous", "EnergyWh", 0, 0))
              = latest(Append(h302, recs), "Instantaneous", "EnergyWh", 0, 0)
        BY ONLY <1>0, <2>2, FromKeyLatest
      <4>3. QED
        BY <2>1, <2>3, <4>1, <4>2
    <3>2. m302'.target_energy_kwh = latest(h302', "Instantaneous", "EnergyWh", 1, 0)
      <4>1. m302.target_energy_kwh = latest(h302, "Instantaneous", "EnergyWh", 1, 0)
        BY DEF IInv, LatestReading
      <4>2. fromKey("Instantaneous", "EnergyWh", 1, recs, latest(h302, "Instantaneous", "EnergyWh", 1, 0))
              = latest(Append(h302, recs), "Instantaneous", "EnergyWh", 1, 0)
        BY ONLY <1>0, <2>2, FromKeyLatest
      <4>3. QED
        BY <2>1, <2>3, <4>1, <4>2
    <3>3. m302'.total_volume_m3 = latest(h302', "Instantaneous", "Volume", 0, 0)
      <4>1. m302.total_volume_m3 = latest(h302, "Instantaneous", "Volume", 0, 0)
        BY DEF IInv, LatestReading
      <4>2. fromKey("Instantaneous", "Volume", 0, recs, latest(h302, "Instantaneous", "Volume", 0, 0))
              = latest(Append(h302, recs), "Instantaneous", "Volume", 0, 0)
        BY ONLY <1>0, <2>2, FromKeyLatest
      <4>3. QED
        BY <2>1, <2>3, <4>1, <4>2
    <3>4. m302'.current_power_kw = latest(h302', "Instantaneous", "PowerW", 0, 0)
      <4>1. m302.current_power_kw = latest(h302, "Instantaneous", "PowerW", 0, 0)
        BY DEF IInv, LatestReading
      <4>2. fromKey("Instantaneous", "PowerW", 0, recs, latest(h302, "Instantaneous", "PowerW", 0, 0))
              = latest(Append(h302, recs), "Instantaneous", "PowerW", 0, 0)
        BY ONLY <1>0, <2>2, FromKeyLatest
      <4>3. QED
        BY <2>1, <2>3, <4>1, <4>2
    <3>5. m302'.target_date = latest(h302', "Unknown", "Date", 1, 0)
      <4>1. m302.target_date = latest(h302, "Unknown", "Date", 1, 0)
        BY DEF IInv, LatestReading
      <4>2. fromKey("Unknown", "Date", 1, recs, latest(h302, "Unknown", "Date", 1, 0))
              = latest(Append(h302, recs), "Unknown", "Date", 1, 0)
        BY ONLY <1>0, <2>2, FromKeyLatest
      <4>3. QED
        BY <2>1, <2>3, <4>1, <4>2
    <3>6. QED
      BY <3>1, <3>2, <3>3, <3>4, <3>5
  <2>5. QED
    BY <1>0, <1>2, <2>4 DEF Process302, IInv, LatestReading
<1>3. CASE UNCHANGED <<m603, m302, h603, h302>>
  <2>1. LatestReading'
    BY <1>3, Zenon DEF IInv, LatestReading
  <2>2. QED
    BY <1>0, <2>1 DEF IInv
<1>4. QED
  <2>1. ProcessCompact5 \/ ProcessLansenPU \/ ProcessUnknown \/ Done \/ UNCHANGED vars
        => UNCHANGED <<m603, m302, h603, h302>>
    BY DEF ProcessCompact5, ProcessLansenPU, ProcessUnknown, Done, vars
  <2>2. QED
    BY <1>1, <1>2, <1>3, <2>1 DEF Next

\* Whatever telegrams arrive, in whatever order, each multical reading is
\* the one of the latest telegram whose findKey lookup found it.
THEOREM DriversLatestReading == Spec => []LatestReading
<1>1. IInv => LatestReading
  BY DEF IInv
<1>2. QED
  BY InitIInv, NextIInv, <1>1, PTL DEF Spec
=============================================================================
