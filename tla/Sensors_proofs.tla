--------------------------- MODULE Sensors_proofs ---------------------------
(***************************************************************************)
(* Theorems about the readings, for any sensors, devices, positions, grid, *)
(* zones, thresholds and readings, whatever raises on them.                *)
(*                                                                         *)
(* The mean of AnomalyIsAChange is a fold, over a set of any size.  What   *)
(* it amounts to is shown by a least counterexample (LeastSize), since the *)
(* provers cannot instantiate the theorems on induction.                   *)
(***************************************************************************)
EXTENDS Sensors, FiniteSetTheorems, SequenceTheorems,
        WellFoundedInduction, TLAPS

USE SensorsAssumption DEF SensorsAssumption

\* The second of several events is among them.
LEMMA SecondOfAll ==
    ASSUME NEW S, NEW c \in S, NEW e \in S, NEW b \in Seq(S)
    PROVE  e \in ToSet(<<c>> \o <<e>> \o b)
<1> DEFINE s == <<c>> \o <<e>> \o b
<1>1. s \in Seq(S) /\ Len(s) = 2 + Len(b) /\ s[2] = e
  OBVIOUS
<1>2. 2 \in DOMAIN s
  BY <1>1
<1> HIDE DEF s
<1>3. e \in ToSet(s)
  BY <1>1, <1>2 DEF ToSet
<1> QED
  BY <1>3 DEF s

\* What the parts of the handler compute has its type.
LEMMA PartTypes ==
    ASSUME NEW r \in Postable, NEW t \in Track \cup {NoTrack}, now \in Nat
    PROVE  /\ ScanReport(r) \in Reports
           /\ GeoAlerts(r.at) \in SUBSET Alerts
           /\ Published(r) \in Seq(Events)
           /\ Sighted(t, r) \in Track
<1>1. r \in Readings
  OBVIOUS
<1>2. ScanReport(r) \in Reports
  <2>1. EvilTwins(r.wifi) \subseteq {a.ssid : a \in AccessPoints}
    BY <1>1 DEF EvilTwins, Readings
  <2> QED
    BY <2>1 DEF ScanReport, Fingerprints, Reports
<1>3. GeoAlerts(r.at) \in SUBSET Alerts
  BY DEF GeoAlerts, Inside, Alerts
<1>4. Published(r) \in Seq(Events)
  <2>1. [type |-> "sensors.update", source |-> r.source] \in Events
    BY <1>1 DEF Events, Readings
  <2>2. [type |-> "safety.surveillance", report |-> ScanReport(r)] \in Events
    BY <1>2 DEF Events
  <2>3. [type |-> "safety.geofence", alerts |-> GeoAlerts(r.at)] \in Events
    BY <1>3 DEF Events
  <2> DEFINE a == IF ScanReport(r) = NoRisk THEN <<>>
                  ELSE <<[type |-> "safety.surveillance", report |-> ScanReport(r)]>>
             b == IF r.at = Nowhere \/ GeoAlerts(r.at) = {} THEN <<>>
                  ELSE <<[type |-> "safety.geofence", alerts |-> GeoAlerts(r.at)]>>
             c == <<[type |-> "sensors.update", source |-> r.source]>>
  <2>4. a \in Seq(Events) /\ b \in Seq(Events) /\ c \in Seq(Events)
    BY <2>1, <2>2, <2>3
  <2>5. Published(r) = c \o a \o b
    BY DEF Published
  <2> HIDE DEF a, b, c
  <2> QED
    BY <2>4, <2>5
<1>5. Sighted(t, r) \in Track
  <2>1. r.at \in Positions \cup {Nowhere}
    BY <1>1 DEF Readings
  <2>2. {LocBin(r)} \ {Unknown} \subseteq Bins
    BY <2>1 DEF LocBin, Bins
  <2> DEFINE here == {LocBin(r)} \ {Unknown}
  <2> HIDE DEF here
  <2>3. CASE t = NoTrack
    <3>1. Sighted(t, r) = [places |-> here, first |-> now, last |-> now]
      BY <2>3 DEF Sighted, here
    <3> QED
      BY <3>1, <2>2 DEF Track, here
  <2>4. CASE t # NoTrack
    <3>1. Sighted(t, r) = [t EXCEPT !.places = @ \cup here, !.last = now]
      BY <2>4 DEF Sighted, here
    <3>2. t \in Track
      BY <2>4
    <3> QED
      BY <3>1, <3>2, <2>2 DEF Track, here
  <2> QED
    BY <2>3, <2>4
<1> QED
  BY <1>2, <1>3, <1>4, <1>5

\* A reading that arrives, and the devices of it that are noted.
LEMMA ArriveTypes ==
    ASSUME TypeOK, NEW r \in Postable, NEW seen \in SUBSET r.ble,
           Arrive(r), Observe(seen, r)
    PROVE  /\ window' \in [Sources -> Seq(Readings)]
           /\ tracks' \in [Devices -> Track \cup {NoTrack}]
           /\ log' \in Seq([reading : Readings, time : Nat])
<1>1. r \in Readings /\ r.source \in Sources
  BY DEF Readings
<1>2. window' \in [Sources -> Seq(Readings)]
  <2> DEFINE w == window[r.source]
  <2>1. w \in Seq(Readings)
    BY <1>1 DEF TypeOK
  <2>2. Append(w, r) \in Seq(Readings)
    BY <1>1, <2>1
  <2>3. ~ Len(w) < Window => Append(Tail(w), r) \in Seq(Readings)
    <3>1. ~ Len(w) < Window => w # <<>>
      BY <2>1
    <3> QED
      BY <1>1, <2>1, <3>1
  <2>4. window' = [window EXCEPT ![r.source] =
                     IF Len(w) < Window THEN Append(w, r) ELSE Append(Tail(w), r)]
    BY DEF Arrive, Ingest
  <2> HIDE DEF w
  <2> QED
    BY <2>2, <2>3, <2>4 DEF TypeOK
<1>3. tracks' \in [Devices -> Track \cup {NoTrack}]
  <2>1. \A d \in Devices : Sighted(tracks[d], r) \in Track
    BY PartTypes DEF TypeOK
  <2> QED
    BY <2>1 DEF Observe, TypeOK
<1>4. log' \in Seq([reading : Readings, time : Nat])
  BY <1>1 DEF Arrive, TypeOK
<1> QED
  BY <1>2, <1>3, <1>4

LEMMA TypeStep == TypeOK /\ [Next]_vars => TypeOK'
<1> SUFFICES ASSUME TypeOK, [Next]_vars PROVE TypeOK'
  OBVIOUS
<1>1. ASSUME NEW r \in Postable, ApiIngest(r) PROVE TypeOK'
  <2>1. r \in Readings
    OBVIOUS
  <2>2. r.ble \in SUBSET r.ble
    OBVIOUS
  <2>3. ScanReport(r) \in Reports /\ Published(r) \in Seq(Events)
    <3>1. NoTrack \in Track \cup {NoTrack} /\ now \in Nat
      BY DEF TypeOK
    <3> QED
      BY <3>1, PartTypes
  <2>4. ASSUME NEW seen \in SUBSET r.ble, RaiseInObserve(r, seen) PROVE TypeOK'
    BY <2>4, ArriveTypes DEF RaiseInObserve, TypeOK
  <2>5. CASE RaiseInScan(r)
    BY <2>2, <2>5, ArriveTypes DEF RaiseInScan, TypeOK
  <2>6. CASE RaiseInFence(r)
    BY <2>2, <2>3, <2>6, ArriveTypes DEF RaiseInFence, TypeOK
  <2>7. CASE Accept(r)
    BY <2>2, <2>3, <2>7, ArriveTypes DEF Accept, TypeOK
  <2> QED
    BY <1>1, <2>4, <2>5, <2>6, <2>7 DEF ApiIngest
<1>2. CASE Tick
  BY <1>2 DEF Tick, TypeOK
<1>3. CASE Restart
  <2>1. NoRisk \in Reports
    BY DEF NoRisk, Reports
  <2> QED
    BY <1>3, <2>1 DEF Restart, TypeOK
<1>4. CASE UNCHANGED vars
  BY <1>4 DEF vars, TypeOK
<1> QED
  BY <1>1, <1>2, <1>3, <1>4 DEF Next

\* Windows, tracks, the verdict and the log keep their types.
THEOREM TypeCorrect == Spec => []TypeOK
<1>1. Init => TypeOK
  <2>1. NoRisk \in Reports
    BY DEF NoRisk, Reports
  <2> QED
    BY <2>1 DEF Init, TypeOK
<1> QED
  BY <1>1, TypeStep, PTL DEF Spec
-----------------------------------------------------------------------------
LEMMA LogTypes ==
    ASSUME TypeOK
    PROVE  \A i \in DOMAIN log : log[i].reading \in Readings /\ log[i].time \in Nat
<1>1. log \in Seq([reading : Readings, time : Nat])
  BY DEF TypeOK
<1>2. \A i \in DOMAIN log : log[i] \in [reading : Readings, time : Nat]
  <2> DEFINE E == [reading : Readings, time : Nat]
  <2> HIDE DEF E
  <2>1. log \in Seq(E)
    BY <1>1 DEF E
  <2>2. \A i \in DOMAIN log : log[i] \in E
    BY ONLY <2>1
  <2> QED
    BY <2>2 DEF E
<1>3. ASSUME NEW i \in DOMAIN log
      PROVE  log[i].reading \in Readings /\ log[i].time \in Nat
  <2>1. log[i] \in [reading : Readings, time : Nat]
    BY ONLY <1>2
  <2> QED
    BY ONLY <2>1
<1> QED
  BY ONLY <1>3

\* The sightings of a device after a reading: those before, and this one.
LEMMA SightingsGrow ==
    ASSUME TypeOK, NEW r \in Postable, Arrive(r), NEW d \in Devices,
           NEW n, n = Len(log) + 1
    PROVE  /\ n \notin DOMAIN log
           /\ DOMAIN log' = DOMAIN log \cup {n}
           /\ log'[n] = [reading |-> r, time |-> now]
           /\ \A i \in DOMAIN log : log'[i] = log[i]
           /\ Sightings(d)' = Sightings(d) \cup (IF d \in r.ble THEN {n} ELSE {})
           /\ WholeSightings(d)' =
                WholeSightings(d) \cup (IF d \in r.ble /\ r.flaw # "ble" THEN {n} ELSE {})
<1> DEFINE e == [reading |-> r, time |-> now]
<1>1. log \in Seq([reading : Readings, time : Nat]) /\ log' = Append(log, e)
  BY DEF TypeOK, Arrive
<1>2. e \in [reading : Readings, time : Nat]
  BY DEF TypeOK
<1>3. DOMAIN log = 1..Len(log) /\ Len(log) \in Nat
  BY <1>1
<1>4. n \notin DOMAIN log /\ DOMAIN log' = DOMAIN log \cup {n}
  BY <1>1, <1>2, <1>3
<1>5. log'[n] = e /\ \A i \in DOMAIN log : log'[i] = log[i]
  BY <1>1, <1>2, <1>3
<1> HIDE DEF e
<1>6. Sightings(d)' = Sightings(d) \cup (IF d \in r.ble THEN {n} ELSE {})
  BY <1>4, <1>5 DEF Sightings, e
<1>7. WholeSightings(d)' =
        WholeSightings(d) \cup (IF d \in r.ble /\ r.flaw # "ble" THEN {n} ELSE {})
  BY <1>4, <1>5, <1>6 DEF WholeSightings, Sightings, e
<1> QED
  BY <1>4, <1>5, <1>6, <1>7 DEF e

\* Readings that are in the log already keep their places.
LEMMA PlacesStay ==
    ASSUME NEW I \in SUBSET DOMAIN log, \A i \in DOMAIN log : log'[i] = log[i]
    PROVE  {LocBin(log'[i].reading) : i \in I} \ {Unknown} = Places(I)
BY DEF Places

\* The entry of a device over a reading of which `seen` is noted: all of it, unless
\* the list itself is at fault.
LEMMA EntryStep ==
    ASSUME TypeOK, TrackInv, NEW r \in Postable, NEW seen \in SUBSET r.ble,
           r.flaw # "ble" => seen = r.ble, Arrive(r), Observe(seen, r),
           NEW d \in Devices
    PROVE  EntryInv(d)'
<1>0. PICK n : n = Len(log) + 1
  OBVIOUS
<1> DEFINE old == tracks[d]
           new == tracks'[d]
           here == {LocBin(r)} \ {Unknown}
<1>1. /\ n \notin DOMAIN log
      /\ DOMAIN log' = DOMAIN log \cup {n}
      /\ log'[n] = [reading |-> r, time |-> now]
      /\ \A i \in DOMAIN log : log'[i] = log[i]
      /\ Sightings(d)' = Sightings(d) \cup (IF d \in r.ble THEN {n} ELSE {})
      /\ WholeSightings(d)' =
           WholeSightings(d) \cup (IF d \in r.ble /\ r.flaw # "ble" THEN {n} ELSE {})
  BY <1>0, SightingsGrow
<1>2. EntryInv(d) /\ \A i \in DOMAIN log : log[i].time <= now
  BY DEF TrackInv
<1>3. Sightings(d) \subseteq DOMAIN log /\ WholeSightings(d) \subseteq Sightings(d)
  BY DEF Sightings, WholeSightings
<1>4. /\ Places(Sightings(d))' =
           Places(Sightings(d)) \cup (IF d \in r.ble THEN here ELSE {})
      /\ Places(WholeSightings(d))' =
           Places(WholeSightings(d))
           \cup (IF d \in r.ble /\ r.flaw # "ble" THEN here ELSE {})
  BY <1>1, <1>3 DEF Places
<1>5. \A i \in DOMAIN log : log[i].time \in Nat
  BY LogTypes
<1>6. now \in Nat
  BY DEF TypeOK
<1> HIDE DEF here
<1>7. CASE d \notin seen
  <2>1. new = old
    BY <1>7 DEF Observe
  <2>2. ~ (d \in r.ble /\ r.flaw # "ble")
    BY <1>7
  <2>3. WholeSightings(d)' = WholeSightings(d)
    BY <1>1, <2>2
  <2>4. CASE old = NoTrack
    BY <1>2, <2>1, <2>3, <2>4 DEF EntryInv
  <2>5. CASE old # NoTrack
    <3>1. new.places \subseteq Places(Sightings(d))'
      BY <1>2, <1>4, <2>1, <2>5 DEF EntryInv
    <3>2. Places(WholeSightings(d))' \subseteq new.places
      BY <1>2, <1>4, <2>1, <2>2, <2>5 DEF EntryInv
    <3>3. /\ \E i \in Sightings(d)' : log'[i].time = new.first
          /\ \E i \in Sightings(d)' : log'[i].time = new.last
      BY <1>1, <1>2, <1>3, <2>1, <2>5 DEF EntryInv
    <3>4. \A i \in WholeSightings(d)' :
            new.first <= log'[i].time /\ log'[i].time <= new.last
      BY <1>1, <1>2, <1>3, <2>1, <2>3, <2>5 DEF EntryInv
    <3> QED
      BY <2>1, <2>5, <3>1, <3>2, <3>3, <3>4 DEF EntryInv
  <2> QED
    BY <2>4, <2>5
<1>8. CASE d \in seen
  <2>1. new = Sighted(old, r) /\ d \in r.ble
    BY <1>8 DEF Observe
  <2>2. n \in Sightings(d)'
    BY <1>1, <2>1
  <2>3. new \in Track
    BY <1>6, <2>1, PartTypes DEF TypeOK
  <2>4. CASE old = NoTrack
    <3>1. new = [places |-> here, first |-> now, last |-> now]
      BY <2>1, <2>4 DEF Sighted, here
    <3>2. WholeSightings(d) = {}
      BY <1>2, <2>4 DEF EntryInv
    <3>3. Places(WholeSightings(d)) = {}
      BY <3>2 DEF Places
    <3>4. WholeSightings(d)' \subseteq {n}
      BY <1>1, <3>2
    <3>5. \A i \in WholeSightings(d)' : log'[i].time = now
      BY <1>1, <3>4
    <3>6. new.places = here /\ new.first = now /\ new.last = now
      BY <3>1
    <3>7. log'[n].time = now
      BY <1>1
    <3>8. /\ new.places \subseteq Places(Sightings(d))'
          /\ Places(WholeSightings(d))' \subseteq new.places
      BY <1>4, <2>1, <3>3, <3>6
    <3>9. new # NoTrack
      BY <2>3
    <3> QED
      BY <1>6, <2>2, <3>5, <3>6, <3>7, <3>8, <3>9 DEF EntryInv
  <2>5. CASE old # NoTrack
    <3>1. old \in Track
      BY <2>5 DEF TypeOK
    <3>2. new = [old EXCEPT !.places = @ \cup here, !.last = now]
      BY <2>1, <2>5 DEF Sighted, here
    <3>3. new.places = old.places \cup here /\ new.first = old.first /\ new.last = now
      BY <3>1, <3>2 DEF Track
    <3>4. /\ new.places \subseteq Places(Sightings(d))'
          /\ Places(WholeSightings(d))' \subseteq new.places
      BY <1>2, <1>4, <2>1, <2>5, <3>3 DEF EntryInv
    <3>5. PICK i \in Sightings(d) : log[i].time = old.first
      BY <1>2, <2>5 DEF EntryInv
    <3>6. log'[i].time = new.first /\ i \in Sightings(d)' /\ new.first <= now
      BY <1>1, <1>2, <1>3, <3>3, <3>5
    <3>7. log'[n].time = new.last
      BY <1>1, <3>3
    <3>8. ASSUME NEW j \in WholeSightings(d)'
          PROVE  new.first <= log'[j].time /\ log'[j].time <= new.last
      <4>1. CASE j \in WholeSightings(d)
        <5>1. j \in DOMAIN log /\ log'[j] = log[j]
          BY <1>1, <1>3, <4>1
        <5>2. old.first <= log[j].time
          BY <1>2, <2>5, <4>1 DEF EntryInv
        <5> QED
          BY <1>2, <3>3, <5>1, <5>2
      <4>2. CASE j = n
        BY <1>1, <1>6, <3>3, <3>6, <4>2
      <4> QED
        BY <1>1, <3>8, <4>1, <4>2
    <3>9. \E k \in Sightings(d)' : log'[k].time = new.last
      BY <2>2, <3>7
    <3>10. \E k \in Sightings(d)' : log'[k].time = new.first
      BY <3>6
    <3>11. new # NoTrack
      BY <2>3
    <3> QED
      BY <3>4, <3>8, <3>9, <3>10, <3>11 DEF EntryInv
  <2> QED
    BY <2>4, <2>5
<1> QED
  BY <1>7, <1>8

\* ... and with it the whole of the invariant.
LEMMA ArriveStep ==
    ASSUME TypeOK, TrackInv, NEW r \in Postable, NEW seen \in SUBSET r.ble,
           r.flaw # "ble" => seen = r.ble, Arrive(r), Observe(seen, r), now' = now
    PROVE  TrackInv'
<1>1. \A d \in Devices : EntryInv(d)'
  BY EntryStep
<1>2. \A i \in DOMAIN log' : log'[i].reading \in Postable /\ log'[i].time <= now'
  <2> DEFINE n == Len(log) + 1
  <2>1. now \in Nat /\ log \in Seq([reading : Readings, time : Nat])
    BY DEF TypeOK
  <2>2. log' = Append(log, [reading |-> r, time |-> now])
    BY DEF Arrive
  <2>3. \A i \in DOMAIN log : log[i].reading \in Postable /\ log[i].time <= now
    BY DEF TrackInv
  <2>4. DOMAIN log' = DOMAIN log \cup {n}
    BY <2>1, <2>2
  <2>5. log'[n] = [reading |-> r, time |-> now] /\ \A i \in DOMAIN log : log'[i] = log[i]
    BY <2>1, <2>2
  <2> HIDE DEF n
  <2> QED
    BY <2>1, <2>3, <2>4, <2>5
<1> QED
  BY <1>1, <1>2 DEF TrackInv

LEMMA TrackStep == TypeOK /\ TrackInv /\ [Next]_vars => TrackInv'
<1> SUFFICES ASSUME TypeOK, TrackInv, [Next]_vars PROVE TrackInv'
  OBVIOUS
<1>1. ASSUME NEW r \in Postable, ApiIngest(r) PROVE TrackInv'
  <2>1. r.ble \in SUBSET r.ble
    OBVIOUS
  <2>2. ASSUME NEW seen \in SUBSET r.ble, RaiseInObserve(r, seen) PROVE TrackInv'
    BY <2>2, ArriveStep DEF RaiseInObserve
  <2>3. CASE RaiseInScan(r)
    BY <2>1, <2>3, ArriveStep DEF RaiseInScan
  <2>4. CASE RaiseInFence(r)
    BY <2>1, <2>4, ArriveStep DEF RaiseInFence
  <2>5. CASE Accept(r)
    BY <2>1, <2>5, ArriveStep DEF Accept
  <2> QED
    BY <1>1, <2>2, <2>3, <2>4, <2>5 DEF ApiIngest
<1>2. CASE Tick
  <2>1. now' >= now /\ UNCHANGED <<tracks, log>>
    BY <1>2 DEF Tick, TypeOK
  <2>2. \A d \in Devices : EntryInv(d)'
    BY <2>1 DEF TrackInv, EntryInv, Sightings, WholeSightings, Places
  <2>3. \A i \in DOMAIN log : log[i].time \in Nat /\ log[i].time <= now
    BY LogTypes DEF TrackInv
  <2> QED
    BY <1>2, <2>1, <2>2, <2>3 DEF TrackInv, TypeOK, Tick
<1>3. CASE Restart
  <2>1. \A d \in Devices : tracks'[d] = NoTrack
    BY <1>3 DEF Restart
  <2>2. log' = <<>>
    BY <1>3 DEF Restart
  <2>3. DOMAIN log' = {}
    BY <2>2
  <2> QED
    BY <2>1, <2>3 DEF TrackInv, EntryInv, WholeSightings, Sightings
<1>4. CASE UNCHANGED vars
  BY <1>4 DEF vars, TrackInv, EntryInv, Sightings, WholeSightings, Places
<1> QED
  BY <1>1, <1>2, <1>3, <1>4 DEF Next

THEOREM TracksKept == Spec => [](TypeOK /\ TrackInv)
<1>1. Init => TrackInv
  <2> SUFFICES ASSUME Init PROVE TrackInv
    OBVIOUS
  <2>1. log = <<>> /\ \A d \in Devices : tracks[d] = NoTrack
    BY DEF Init
  <2>2. DOMAIN log = {}
    BY <2>1
  <2> QED
    BY <2>1, <2>2 DEF TrackInv, EntryInv, WholeSightings, Sightings
<1> QED
  BY <1>1, TrackStep, TypeCorrect, PTL DEF Spec
-----------------------------------------------------------------------------
\* What the readings say of places is finite, and within the reach of the device.
LEMMA PlacesBound ==
    ASSUME TypeOK, TrackInv, NEW d \in Devices, NEW I \in SUBSET Sightings(d)
    PROVE  /\ Places(I) \subseteq {BinOf[p] : p \in Reach[d]}
           /\ IsFiniteSet(Places(I))
           /\ IsFiniteSet({BinOf[p] : p \in Reach[d]})
<1>1. ASSUME NEW i \in I, LocBin(log[i].reading) # Unknown
      PROVE  LocBin(log[i].reading) \in {BinOf[p] : p \in Reach[d]}
  <2>1. log[i].reading \in Postable /\ d \in log[i].reading.ble
    BY DEF TrackInv, Sightings
  <2>2. log[i].reading.at # Nowhere /\ LocBin(log[i].reading) = BinOf[log[i].reading.at]
    BY <1>1 DEF LocBin
  <2>3. log[i].reading.at \in Reach[d]
    BY <2>1, <2>2
  <2> QED
    BY <2>2, <2>3
<1>2. Places(I) \subseteq {BinOf[p] : p \in Reach[d]}
  BY <1>1 DEF Places
<1>3. IsFiniteSet(Reach[d])
  <2>1. Reach[d] \subseteq Positions
    OBVIOUS
  <2> QED
    BY <2>1, FS_Subset
<1>4. IsFiniteSet({BinOf[p] : p \in Reach[d]})
  <2> DEFINE near == {BinOf[p] : p \in Reach[d]}
             f == [p \in Reach[d] |-> BinOf[p]]
  <2>1. f \in Surjection(Reach[d], near)
    BY DEF Surjection
  <2> HIDE DEF near, f
  <2>2. IsFiniteSet(near)
    BY <1>3, <2>1, FS_Surjection
  <2> QED
    BY <2>2 DEF near
<1> QED
  BY <1>2, <1>4, FS_Subset

\* StayersAreClear: whoever stays within too few bins is never suspected.
THEOREM StayersClear == Spec => []StayersAreClear
<1>1. TypeOK /\ TrackInv => StayersAreClear
  <2> SUFFICES ASSUME TypeOK, TrackInv, NEW d \in Devices, d \in Suspects
               PROVE  Cardinality({BinOf[p] : p \in Reach[d]}) >= Follow
    <3>1. \A k \in Nat : ~ (k < Follow) <=> k >= Follow
      OBVIOUS
    <3>2. ASSUME NEW e \in Devices, TypeOK, TrackInv
          PROVE  Cardinality({BinOf[p] : p \in Reach[e]}) \in Nat
      <4>1. IsFiniteSet({BinOf[p] : p \in Reach[e]})
        BY <3>2, PlacesBound
      <4> QED
        BY <4>1, FS_CardinalityType
    <3> QED
      BY <3>1, <3>2 DEF StayersAreClear
  <2> DEFINE near == {BinOf[p] : p \in Reach[d]}
  <2>1. tracks[d] # NoTrack /\ Cardinality(tracks[d].places) >= Follow
    BY DEF Suspects
  <2>2. tracks[d].places \subseteq Places(Sightings(d))
    BY <2>1 DEF TrackInv, EntryInv
  <2>3. Places(Sightings(d)) \subseteq near /\ IsFiniteSet(near)
    BY PlacesBound
  <2> HIDE DEF near
  <2>4. tracks[d].places \subseteq near
    BY <2>2, <2>3
  <2>5. Cardinality(tracks[d].places) <= Cardinality(near)
    BY <2>3, <2>4, FS_Subset
  <2>6. Cardinality(tracks[d].places) \in Nat /\ Cardinality(near) \in Nat
    BY <2>3, <2>4, FS_Subset, FS_CardinalityType
  <2>7. Cardinality(near) >= Follow
    BY <2>1, <2>5, <2>6
  <2> QED
    BY <2>7 DEF near
<1> QED
  BY <1>1, TracksKept, PTL

\* SuspectsAreFollowers: the entries amount to what has been posted.
THEOREM SuspectsFollow == Spec => []SuspectsAreFollowers
<1>1. TypeOK /\ TrackInv => SuspectsAreFollowers
  <2> SUFFICES ASSUME TypeOK, TrackInv, NEW d \in Devices
               PROVE  /\ d \in Suspects => Following(Sightings(d))
                      /\ Following(WholeSightings(d)) => d \in Suspects
    BY DEF SuspectsAreFollowers
  <2> DEFINE t == tracks[d]
             all == Places(Sightings(d))
             whole == Places(WholeSightings(d))
  <2>1. IsFiniteSet(all) /\ Cardinality(all) \in Nat
    BY PlacesBound, FS_CardinalityType
  <2>2. EntryInv(d)
    BY DEF TrackInv
  <2>3. t # NoTrack =>
          /\ whole \subseteq t.places /\ t.places \subseteq all
          /\ t.first \in Nat /\ t.last \in Nat
    BY <2>2 DEF EntryInv, TypeOK, Track
  <2>4. \A i \in Sightings(d) : log[i].time \in Nat
    BY LogTypes DEF Sightings
  <2>5. ASSUME d \in Suspects PROVE Following(Sightings(d))
    <3>1. /\ t # NoTrack /\ Cardinality(t.places) >= Follow
          /\ t.last - t.first >= MinSpan
      BY <2>5 DEF Suspects
    <3>2. Cardinality(t.places) <= Cardinality(all) /\ Cardinality(t.places) \in Nat
      BY <2>1, <2>3, <3>1, FS_Subset, FS_CardinalityType
    <3>3. Cardinality(all) >= Follow
      BY <2>1, <3>1, <3>2
    <3>4. \E i, j \in Sightings(d) : log[j].time - log[i].time >= MinSpan
      BY <2>2, <3>1 DEF EntryInv
    <3> QED
      BY <3>3, <3>4 DEF Following
  <2>6. ASSUME Following(WholeSightings(d)) PROVE d \in Suspects
    <3>1. Cardinality(whole) >= Follow
      BY <2>6 DEF Following
    <3>2. PICK i, j \in WholeSightings(d) : log[j].time - log[i].time >= MinSpan
      BY <2>6 DEF Following
    <3>3. t # NoTrack
      BY <2>2, <3>2 DEF EntryInv
    <3>4. t.first <= log[i].time /\ log[j].time <= t.last
      BY <2>2, <3>2, <3>3 DEF EntryInv
    <3>5. i \in Sightings(d) /\ j \in Sightings(d)
      BY <3>2 DEF WholeSightings
    <3>6. t.last - t.first >= MinSpan
      BY <2>3, <2>4, <3>2, <3>3, <3>4, <3>5
    <3>7. IsFiniteSet(t.places) /\ Cardinality(t.places) \in Nat
      BY <2>1, <2>3, <3>3, FS_Subset, FS_CardinalityType
    <3>8. Cardinality(whole) <= Cardinality(t.places) /\ Cardinality(whole) \in Nat
      BY <2>3, <3>3, <3>7, FS_Subset, FS_CardinalityType
    <3>9. Cardinality(t.places) >= Follow
      BY <3>1, <3>7, <3>8
    <3> QED
      BY <3>3, <3>6, <3>9 DEF Suspects
  <2> QED
    BY <2>5, <2>6
<1> QED
  BY <1>1, TracksKept, PTL
-----------------------------------------------------------------------------
\* A reading that arrives is the last one scanned, if it is scanned at all.
LEMMA VerdictStep == TypeOK /\ VerdictIsTold /\ [Next]_vars => VerdictIsTold'
<1> SUFFICES ASSUME TypeOK, VerdictIsTold, [Next]_vars PROVE VerdictIsTold'
  OBVIOUS
<1> DEFINE scanned == {i \in DOMAIN log : log[i].reading.flaw \notin {"ble", "wifi"}}
           told(i) == /\ verdict = ScanReport(log[i].reading)
                      /\ verdict # NoRisk /\ ~ FenceRaises(log[i].reading) =>
                            [type |-> "safety.surveillance", report |-> verdict] \in ToSet(events)
<1>1. \A i \in scanned : (\A j \in scanned : j <= i) => told(i)
  BY DEF VerdictIsTold
<1>2. ASSUME NEW r \in Postable, ApiIngest(r) PROVE VerdictIsTold'
  <2>0. PICK n : n = Len(log) + 1
    OBVIOUS
  <2>1. /\ DOMAIN log' = DOMAIN log \cup {n}
        /\ log'[n].reading = r
        /\ \A i \in DOMAIN log : log'[i] = log[i] /\ i < n
        /\ DOMAIN log \subseteq Nat
    <3>1. log' = Append(log, [reading |-> r, time |-> now])
      BY <1>2 DEF ApiIngest, RaiseInObserve, RaiseInScan, RaiseInFence, Accept, Arrive
    <3>2. log \in Seq([reading : Readings, time : Nat])
      BY DEF TypeOK
    <3> QED
      BY <2>0, <3>1, <3>2
  <2>2. CASE r.flaw \in {"ble", "wifi"}
    <3>1. UNCHANGED <<verdict, events>>
      BY <1>2, <2>2 DEF ApiIngest, RaiseInObserve, RaiseInScan, RaiseInFence, FenceRaises, Accept
    <3>2. scanned' = scanned
      BY <2>1, <2>2
    <3>3. \A i \in scanned : told(i)' <=> told(i)
      BY <2>1, <3>1 DEF FenceRaises, ScanReport, EvilTwins, Fingerprints
    <3> HIDE DEF told
    <3>4. \A i \in scanned' : (\A j \in scanned' : j <= i) => told(i)'
      BY <1>1, <3>2, <3>3
    <3> QED
      BY <3>4 DEF VerdictIsTold, told
  <2>3. CASE r.flaw \notin {"ble", "wifi"}
    <3>1. n \in scanned' /\ \A i \in scanned' : i = n \/ i < n
      BY <2>1, <2>3
    <3>2. verdict' = ScanReport(r)
      BY <1>2, <2>3 DEF ApiIngest, RaiseInObserve, RaiseInScan, RaiseInFence, Accept
    <3>3. ~ FenceRaises(r) => events' = Published(r)
      BY <1>2, <2>3 DEF ApiIngest, RaiseInObserve, RaiseInScan, RaiseInFence, Accept
    <3>4. ScanReport(r) # NoRisk =>
            [type |-> "safety.surveillance", report |-> ScanReport(r)] \in ToSet(Published(r))
      <4> DEFINE e == [type |-> "safety.surveillance", report |-> ScanReport(r)]
                 c == [type |-> "sensors.update", source |-> r.source]
                 b == IF r.at = Nowhere \/ GeoAlerts(r.at) = {} THEN <<>>
                      ELSE <<[type |-> "safety.geofence", alerts |-> GeoAlerts(r.at)]>>
      <4> SUFFICES ASSUME ScanReport(r) # NoRisk PROVE e \in ToSet(Published(r))
        OBVIOUS
      <4>1. Published(r) = <<c>> \o <<e>> \o b
        BY DEF Published
      <4>2. c \in Events
        BY DEF Events, Readings
      <4>3. e \in Events /\ GeoAlerts(r.at) \in SUBSET Alerts
        <5>1. NoTrack \in Track \cup {NoTrack} /\ now \in Nat
          BY DEF TypeOK
        <5> QED
          BY <5>1, PartTypes DEF Events
      <4>4. b \in Seq(Events)
        <5>1. [type |-> "safety.geofence", alerts |-> GeoAlerts(r.at)] \in Events
          BY <4>3 DEF Events
        <5> QED
          BY <5>1
      <4> HIDE DEF e, b, c
      <4> QED
        BY <4>1, <4>2, <4>3, <4>4, SecondOfAll
    <3>5. told(n)'
      BY <2>1, <3>2, <3>3, <3>4 DEF FenceRaises
    <3>6. \A i \in scanned' : (\A j \in scanned' : j <= i) => i = n
      BY <2>0, <2>1, <3>1
    <3> HIDE DEF told
    <3>7. \A i \in scanned' : (\A j \in scanned' : j <= i) => told(i)'
      BY <3>5, <3>6
    <3> QED
      BY <3>7 DEF VerdictIsTold, told
  <2> QED
    BY <2>2, <2>3
<1>3. CASE Restart
  <2>1. DOMAIN log' = {}
    BY <1>3 DEF Restart
  <2> QED
    BY <2>1 DEF VerdictIsTold
<1>4. CASE UNCHANGED <<verdict, events, log>>
  BY <1>4 DEF VerdictIsTold, FenceRaises, ScanReport, EvilTwins, Fingerprints
<1> QED
  BY <1>2, <1>3, <1>4 DEF Next, Tick, vars

\* VerdictIsTold: the status is of the last reading scanned, and a risk was told.
THEOREM VerdictTold == Spec => []VerdictIsTold
<1>1. Init => VerdictIsTold
  <2> SUFFICES ASSUME Init PROVE VerdictIsTold
    OBVIOUS
  <2>1. DOMAIN log = {}
    BY DEF Init
  <2> QED
    BY <2>1 DEF VerdictIsTold
<1> QED
  BY <1>1, VerdictStep, TypeCorrect, PTL DEF Spec
-----------------------------------------------------------------------------
\* The sum over a set, as the fold that defines it computes it: it goes through the
\* elements in the order of CHOOSE.
First(S) == CHOOSE i \in S : TRUE

IsSumUpTo(g, v, I, k) ==
    \A S \in SUBSET I : Cardinality(S) <= k =>
        g[S] = IF S = {} THEN 0 ELSE v[First(S)] + g[S \ {First(S)}]

\* g sums v over I, step by step.
IsSum(g, v, I) ==
    /\ SumFunctionOnSet(v, I) = g[I]
    /\ \A S \in SUBSET I :
          g[S] = IF S = {} THEN 0 ELSE v[First(S)] + g[S \ {First(S)}]

\* A set of numbers has a least one: what is to be shown for all sizes of a set holds
\* if there is no least size for which it fails.
LEMMA LeastSize ==
    ASSUME NEW T \in SUBSET Nat, T # {}
    PROVE  \E k \in T : \A j \in T : ~ (j < k)
<1>1. \E k \in T : \A j \in T : <<j, k>> \notin OpToRel(<, Nat)
  BY WFMin, NatLessThanWellFounded, Zenon
<1> QED
  BY <1>1, Zenon DEF OpToRel

LEMMA FirstIsIn ==
    ASSUME NEW I, IsFiniteSet(I), NEW S \in SUBSET I, S # {}
    PROVE  /\ First(S) \in S /\ First(S) \in I
           /\ S \ {First(S)} \in SUBSET I
           /\ Cardinality(S) \in Nat \ {0}
           /\ Cardinality(S \ {First(S)}) = Cardinality(S) - 1
<1>1. First(S) \in S
  BY DEF First
<1>2. IsFiniteSet(S)
  BY FS_Subset
<1>3. Cardinality(S) \in Nat /\ Cardinality(S) # 0
  BY <1>2, FS_CardinalityType, FS_EmptySet
<1>4. Cardinality(S \ {First(S)}) = Cardinality(S) - 1
  BY <1>1, <1>2, FS_RemoveElement
<1> QED
  BY <1>1, <1>3, <1>4

\* The recursion has a solution, for sets of any size.
LEMMA SumExists ==
    ASSUME NEW v, NEW I, IsFiniteSet(I)
    PROVE  \A k \in Nat : \E g : DOMAIN g = SUBSET I /\ IsSumUpTo(g, v, I, k)
<1> DEFINE Has(k) == \E g : DOMAIN g = SUBSET I /\ IsSumUpTo(g, v, I, k)
           T == {k \in Nat : ~ Has(k)}
<1>1. ASSUME T # {} PROVE FALSE
  <2>1. PICK k \in T : \A j \in T : ~ (j < k)
    <3>1. T \in SUBSET Nat
      OBVIOUS
    <3> HIDE DEF T
    <3> QED
      BY <1>1, <3>1, LeastSize
  <2>2. CASE k = 0
    <3> DEFINE g == [S \in SUBSET I |-> 0]
    <3>1. ASSUME NEW S \in SUBSET I, Cardinality(S) <= 0 PROVE S = {} /\ g[S] = 0
      <4>1. S # {} => Cardinality(S) \in Nat \ {0}
        BY FirstIsIn
      <4>2. S = {}
        BY <3>1, <4>1
      <4> QED
        BY <4>2
    <3>2. DOMAIN g = SUBSET I /\ IsSumUpTo(g, v, I, 0)
      BY <3>1 DEF IsSumUpTo
    <3> QED
      BY <2>1, <2>2, <3>2
  <2>3. CASE k # 0
    <3>1. k \in Nat /\ k - 1 \in Nat /\ k - 1 < k
      BY <2>1, <2>3
    <3>2. Has(k - 1)
      BY <2>1, <3>1
    <3>3. PICK g : DOMAIN g = SUBSET I /\ IsSumUpTo(g, v, I, k - 1)
      BY <3>2
    <3> DEFINE h == [S \in SUBSET I |->
                       IF Cardinality(S) <= k - 1 THEN g[S]
                       ELSE v[First(S)] + g[S \ {First(S)}]]
    <3>4. ASSUME NEW S \in SUBSET I, Cardinality(S) <= k
          PROVE  h[S] = IF S = {} THEN 0 ELSE v[First(S)] + h[S \ {First(S)}]
      <4>1. CASE S = {}
        <5>1. Cardinality(S) <= k - 1
          BY <3>1, <4>1, FS_EmptySet
        <5> QED
          BY <3>3, <4>1, <5>1 DEF IsSumUpTo
      <4>2. CASE S # {}
        <5>1. /\ S \ {First(S)} \in SUBSET I /\ Cardinality(S) \in Nat
              /\ Cardinality(S \ {First(S)}) = Cardinality(S) - 1
          BY <4>2, FirstIsIn
        <5>2. Cardinality(S \ {First(S)}) <= k - 1
          BY <3>1, <3>4, <5>1
        <5>3. h[S \ {First(S)}] = g[S \ {First(S)}]
          BY <5>1, <5>2
        <5>4. h[S] = v[First(S)] + g[S \ {First(S)}]
          BY <3>3, <4>2 DEF IsSumUpTo
        <5> QED
          BY <4>2, <5>3, <5>4
      <4> QED
        BY <4>1, <4>2
    <3>5. DOMAIN h = SUBSET I /\ IsSumUpTo(h, v, I, k)
      BY <3>4 DEF IsSumUpTo
    <3> QED
      BY <2>1, <3>5
  <2> QED
    BY <2>2, <2>3
<1> QED
  BY <1>1

\* So the fold is a value of such a solution.
LEMMA FoldIsSum ==
    ASSUME NEW v, NEW I, IsFiniteSet(I)
    PROVE  \E g : IsSum(g, v, I)
<1> DEFINE Solves(g) == g = [S \in SUBSET I |->
                               IF S = {} THEN 0 ELSE v[First(S)] + g[S \ {First(S)}]]
           fold == CHOOSE g : Solves(g)
           total == SumFunctionOnSet(v, I)
<1>1. \E g : Solves(g)
  <2>1. Cardinality(I) \in Nat
    BY FS_CardinalityType
  <2>2. PICK g : DOMAIN g = SUBSET I /\ IsSumUpTo(g, v, I, Cardinality(I))
    BY <2>1, SumExists
  <2>3. \A S \in SUBSET I : Cardinality(S) <= Cardinality(I)
    BY FS_Subset
  <2> DEFINE f == [S \in SUBSET I |-> g[S]]
  <2>4. ASSUME NEW S \in SUBSET I
        PROVE  f[S] = IF S = {} THEN 0 ELSE v[First(S)] + f[S \ {First(S)}]
    <3>1. S \ {First(S)} \in SUBSET I
      OBVIOUS
    <3> QED
      BY <2>2, <2>3, <3>1 DEF IsSumUpTo
  <2>5. f = [S \in SUBSET I |-> f[S]]
    OBVIOUS
  <2> HIDE DEF f
  <2>6. f = [S \in SUBSET I |-> IF S = {} THEN 0 ELSE v[First(S)] + f[S \ {First(S)}]]
    BY <2>4, <2>5
  <2> QED
    BY <2>6
<1>2. Solves(fold)
  BY <1>1
<1>3. total = fold[I]
  BY DEF SumFunctionOnSet, FoldFunctionOnSet, MapThenFoldSet, First
<1> HIDE DEF fold
<1>4. \A S \in SUBSET I :
          fold[S] = IF S = {} THEN 0 ELSE v[First(S)] + fold[S \ {First(S)}]
  BY <1>2
<1>5. IsSum(fold, v, I)
  BY <1>3, <1>4 DEF IsSum
<1> QED
  BY <1>5

\* If no value is further from a than d, neither is their mean.
LEMMA MeanIsNear ==
    ASSUME NEW I, IsFiniteSet(I), NEW v, NEW a \in Int, NEW d \in Int,
           \A i \in I : v[i] \in Int /\ v[i] - a <= d /\ a - v[i] <= d
    PROVE  LET n == Cardinality(I)
               sum == SumFunctionOnSet(v, I)
           IN  /\ n \in Nat /\ sum \in Int
               /\ sum - a * n <= d * n /\ a * n - sum <= d * n
<1>1. PICK g : IsSum(g, v, I)
  BY FoldIsSum
<1> DEFINE Near(S) == /\ g[S] \in Int
                      /\ g[S] - a * Cardinality(S) <= d * Cardinality(S)
                      /\ a * Cardinality(S) - g[S] <= d * Cardinality(S)
           T == {Cardinality(S) : S \in {S \in SUBSET I : ~ Near(S)}}
<1>2. \A S \in SUBSET I : Cardinality(S) \in Nat
  BY FS_Subset, FS_CardinalityType
<1>3. ASSUME T # {} PROVE FALSE
  <2>1. PICK k \in T : \A j \in T : ~ (j < k)
    <3>1. T \in SUBSET Nat
      BY <1>2
    <3> HIDE DEF T
    <3> QED
      BY <1>3, <3>1, LeastSize
  <2>2. PICK S \in SUBSET I : ~ Near(S) /\ k = Cardinality(S)
    BY <2>1
  <2>3. CASE S = {}
    <3>1. g[S] = 0 /\ Cardinality(S) = 0
      BY <1>1, <2>3, FS_EmptySet DEF IsSum
    <3>2. Near(S)
      BY <3>1
    <3> QED
      BY <2>2, <3>2
  <2>4. CASE S # {}
    <3> DEFINE x == First(S)
               R == S \ {x}
               c == Cardinality(R)
    <3>1. x \in I /\ R \in SUBSET I /\ Cardinality(S) \in Nat \ {0} /\ c = Cardinality(S) - 1
      BY <2>4, FirstIsIn
    <3>2. g[S] = v[x] + g[R]
      BY <1>1, <2>4 DEF IsSum
    <3>3. Near(R)
      <4>1. c < Cardinality(S)
        BY <3>1
      <4> QED
        BY <2>1, <2>2, <3>1, <4>1
    <3>4. c \in Nat /\ Cardinality(S) = c + 1
      BY <3>1
    <3>5. v[x] \in Int /\ v[x] - a <= d /\ a - v[x] <= d
      BY <3>1
    <3>6. g[R] \in Int /\ g[R] - a * c <= d * c /\ a * c - g[R] <= d * c
      BY <3>3
    <3> DEFINE w == v[x]
               t == g[R]
    <3> HIDE DEF x, R, c, w, t
    <3>7. /\ w + t \in Int
          /\ (w + t) - a * (c + 1) <= d * (c + 1)
          /\ a * (c + 1) - (w + t) <= d * (c + 1)
      <4>1. w \in Int /\ t \in Int /\ c \in Int
        BY <3>4, <3>5, <3>6 DEF w, t
      <4>2. a * (c + 1) = a * c + a /\ d * (c + 1) = d * c + d /\ a * c \in Int /\ d * c \in Int
        BY <4>1
      <4>3. w - a <= d /\ a - w <= d /\ t - a * c <= d * c /\ a * c - t <= d * c
        BY <3>5, <3>6 DEF w, t
      <4> QED
        BY <4>1, <4>2, <4>3
    <3>8. Near(S)
      BY <3>2, <3>4, <3>7 DEF w, t
    <3> QED
      BY <2>2, <3>8
  <2> QED
    BY <2>3, <2>4
<1>4. Near(I)
  BY <1>3
<1> QED
  BY <1>1, <1>2, <1>4 DEF IsSum
-----------------------------------------------------------------------------
\* The readings of a source after one that arrives, and how many come after each.
LEMMA OwnGrows ==
    ASSUME TypeOK, NEW r \in Postable, Arrive(r), NEW s \in Sources,
           NEW n, n = Len(log) + 1
    PROVE  /\ \A i \in DOMAIN log : log'[i] = log[i] /\ i # n
           /\ log'[n].reading = r
           /\ Own(s) \subseteq DOMAIN log
           /\ s # r.source => /\ Own(s)' = Own(s)
                              /\ \A i \in Own(s) : After(s, i)' = After(s, i)
           /\ s = r.source => /\ Own(s)' = Own(s) \cup {n}
                              /\ After(s, n)' = {}
                              /\ \A i \in Own(s) :
                                   Cardinality(After(s, i)') = Cardinality(After(s, i)) + 1
<1> DEFINE e == [reading |-> r, time |-> now]
<1>1. log \in Seq([reading : Readings, time : Nat]) /\ log' = Append(log, e)
  BY DEF TypeOK, Arrive
<1>2. e \in [reading : Readings, time : Nat]
  BY DEF TypeOK
<1>3. DOMAIN log = 1..Len(log) /\ Len(log) \in Nat
  BY <1>1
<1>4. n \notin DOMAIN log /\ DOMAIN log' = DOMAIN log \cup {n}
  BY <1>1, <1>2, <1>3
<1>5. log'[n] = e /\ \A i \in DOMAIN log : log'[i] = log[i]
  BY <1>1, <1>2, <1>3
<1>6. \A i \in DOMAIN log : i < n /\ ~ (n > n) /\ ~ (i > n) /\ n > i
  BY <1>3
<1> HIDE DEF e
<1>7. log'[n].reading = r /\ Own(s) \subseteq DOMAIN log
  BY <1>5 DEF e, Own
<1>8. ASSUME s # r.source
      PROVE  Own(s)' = Own(s) /\ \A i \in Own(s) : After(s, i)' = After(s, i)
  <2>1. Own(s)' = Own(s)
    BY <1>4, <1>5, <1>7, <1>8 DEF Own
  <2> QED
    BY <2>1 DEF After
<1>9. ASSUME s = r.source
      PROVE  /\ Own(s)' = Own(s) \cup {n}
             /\ After(s, n)' = {}
             /\ \A i \in Own(s) :
                  Cardinality(After(s, i)') = Cardinality(After(s, i)) + 1
  <2>1. Own(s)' = Own(s) \cup {n}
    BY <1>4, <1>5, <1>7, <1>9 DEF Own
  <2>2. After(s, n)' = {}
    BY <1>6, <1>7, <2>1 DEF After
  <2>3. ASSUME NEW i \in Own(s)
        PROVE  Cardinality(After(s, i)') = Cardinality(After(s, i)) + 1
    <3>1. After(s, i)' = After(s, i) \cup {n} /\ n \notin After(s, i)
      BY <1>4, <1>6, <1>7, <2>1 DEF After
    <3>2. IsFiniteSet(After(s, i))
      <4>1. IsFiniteSet(DOMAIN log) /\ After(s, i) \subseteq DOMAIN log
        BY <1>3, <1>7, FS_Interval DEF After
      <4> QED
        BY <4>1, FS_Subset
    <3> QED
      BY <3>1, <3>2, FS_AddElement
  <2> QED
    BY <2>1, <2>2, <2>3
<1> QED
  BY <1>4, <1>5, <1>7, <1>8, <1>9

\* What a full and a not yet full deque make of a reading
LEMMA DequeShifts ==
    ASSUME NEW w \in Seq(Readings), NEW r \in Readings, NEW x,
           x = IF Len(w) < Window THEN Append(w, r) ELSE Append(Tail(w), r),
           Len(w) <= Window
    PROVE  \E drop \in {0, 1} :
              /\ Len(x) = Len(w) + 1 - drop /\ Len(x) <= Window
              /\ DOMAIN x = 1..Len(x)
              /\ x[Len(x)] = r
              /\ \A k \in 1..Len(x) : k # Len(x) => k + drop \in DOMAIN w /\ x[k] = w[k + drop]
<1>1. CASE Len(w) < Window
  <2>1. x = Append(w, r)
    BY <1>1
  <2>2. /\ Len(x) = Len(w) + 1 - 0 /\ Len(x) <= Window /\ DOMAIN x = 1..Len(x)
        /\ x[Len(x)] = r
        /\ \A k \in 1..Len(x) : k # Len(x) => k + 0 \in DOMAIN w /\ x[k] = w[k + 0]
    BY <1>1, <2>1
  <2> QED
    BY <2>2
<1>2. CASE ~ (Len(w) < Window)
  <2>1. x = Append(Tail(w), r) /\ Len(w) = Window /\ w # <<>>
    BY <1>2
  <2> DEFINE t == Tail(w)
  <2>2. /\ t \in Seq(Readings) /\ Len(t) = Len(w) - 1
        /\ \A k \in 1..Len(t) : k + 1 \in DOMAIN w /\ t[k] = w[k + 1]
    BY <2>1
  <2>3. x = Append(t, r)
    BY <2>1
  <2> HIDE DEF t
  <2>4. /\ Len(x) = Len(w) + 1 - 1 /\ Len(x) <= Window /\ DOMAIN x = 1..Len(x)
        /\ x[Len(x)] = r
        /\ \A k \in 1..Len(x) : k # Len(x) => k + 1 \in DOMAIN w /\ x[k] = w[k + 1]
    BY <2>1, <2>2, <2>3
  <2> QED
    BY <2>4
<1> QED
  BY <1>1, <1>2

LEMMA WindowStep == TypeOK /\ WindowInv /\ [Next]_vars => WindowInv'
<1> SUFFICES ASSUME TypeOK, WindowInv, [Next]_vars PROVE WindowInv'
  OBVIOUS
<1>1. ASSUME NEW r \in Postable, ApiIngest(r) PROVE WindowInv'
  <2>0. PICK n : n = Len(log) + 1
    OBVIOUS
  <2>1. Arrive(r)
    BY <1>1 DEF ApiIngest, RaiseInObserve, RaiseInScan, RaiseInFence, Accept
  <2>2. ASSUME NEW s \in Sources
        PROVE  /\ Len(window'[s]) <= Window
               /\ \A k \in DOMAIN window'[s] : \E i \in Own(s)' :
                     /\ log'[i].reading = window'[s][k]
                     /\ Cardinality(After(s, i)') = Len(window'[s]) - k
    <3> DEFINE w == window[s]
               x == window'[s]
    <3>1. /\ \A i \in DOMAIN log : log'[i] = log[i] /\ i # n
          /\ log'[n].reading = r /\ Own(s) \subseteq DOMAIN log
          /\ s # r.source => /\ Own(s)' = Own(s)
                             /\ \A i \in Own(s) : After(s, i)' = After(s, i)
          /\ s = r.source => /\ Own(s)' = Own(s) \cup {n}
                             /\ After(s, n)' = {}
                             /\ \A i \in Own(s) :
                                  Cardinality(After(s, i)') = Cardinality(After(s, i)) + 1
      BY <2>0, <2>1, OwnGrows
    <3>2. /\ Len(w) <= Window
          /\ \A k \in DOMAIN w : \E i \in Own(s) :
                log[i].reading = w[k] /\ Cardinality(After(s, i)) = Len(w) - k
      BY DEF WindowInv
    <3>3. w \in Seq(Readings) /\ r \in Readings
      BY DEF TypeOK
    <3>4. CASE s # r.source
      <4>1. x = w
        BY <2>1, <3>4 DEF Arrive, Ingest, TypeOK
      <4> QED
        BY <3>1, <3>2, <3>4, <4>1
    <3>5. CASE s = r.source
      <4>1. x = IF Len(w) < Window THEN Append(w, r) ELSE Append(Tail(w), r)
        BY <2>1, <3>5 DEF Arrive, Ingest, TypeOK
      <4> HIDE DEF w, x
      <4>2. PICK drop \in {0, 1} :
               /\ Len(x) = Len(w) + 1 - drop /\ Len(x) <= Window
               /\ DOMAIN x = 1..Len(x)
               /\ x[Len(x)] = r
               /\ \A k \in 1..Len(x) :
                     k # Len(x) => k + drop \in DOMAIN w /\ x[k] = w[k + drop]
        BY <3>2, <3>3, <4>1, DequeShifts
      <4>3. ASSUME NEW k \in DOMAIN x
            PROVE  \E i \in Own(s)' : /\ log'[i].reading = x[k]
                                      /\ Cardinality(After(s, i)') = Len(x) - k
        <5>1. CASE k = Len(x)
          <6>1. Cardinality(After(s, n)') = Len(x) - k
            <7>1. Cardinality(After(s, n)') = 0
              BY <3>1, <3>5, FS_EmptySet
            <7>2. Len(x) \in Int
              BY <3>3, <4>2
            <7> QED
              BY <5>1, <7>1, <7>2
          <6> QED
            BY <3>1, <3>5, <4>2, <5>1, <6>1
        <5>2. CASE k # Len(x)
          <6>1. k + drop \in DOMAIN w /\ x[k] = w[k + drop]
            BY <4>2, <5>2
          <6>2. PICK i \in Own(s) :
                   /\ log[i].reading = w[k + drop]
                   /\ Cardinality(After(s, i)) = Len(w) - (k + drop)
            BY <3>2, <6>1
          <6>3. Len(w) \in Nat /\ k \in Nat
            BY <3>3, <4>2
          <6>4. Cardinality(After(s, i)') = Cardinality(After(s, i)) + 1
            BY <3>1, <3>5
          <6>5. Cardinality(After(s, i)') = Len(x) - k
            BY <4>2, <6>2, <6>3, <6>4
          <6> QED
            BY <3>1, <3>5, <6>1, <6>2, <6>5
        <5> QED
          BY <5>1, <5>2
      <4> QED
        BY <4>2, <4>3 DEF x
    <3> QED
      BY <3>4, <3>5
  <2> QED
    BY <2>2 DEF WindowInv
<1>2. CASE Restart
  <2>1. 0 <= Window
    OBVIOUS
  <2>2. ASSUME NEW s \in Sources PROVE Len(window'[s]) <= Window /\ DOMAIN window'[s] = {}
    <3>1. window'[s] = <<>>
      BY <1>2 DEF Restart
    <3> QED
      BY ONLY <2>1, <3>1
  <2> QED
    BY <2>2 DEF WindowInv
<1>3. CASE UNCHANGED <<window, log>>
  <2>1. \A s \in Sources : Own(s)' = Own(s)
    BY <1>3 DEF Own
  <2>2. \A s \in Sources, i \in Nat : After(s, i)' = After(s, i)
    BY <2>1 DEF After
  <2>3. \A s \in Sources : Own(s) \subseteq Nat
    BY DEF Own, TypeOK
  <2> QED
    BY <1>3, <2>1, <2>2, <2>3 DEF WindowInv
<1> QED
  BY <1>1, <1>2, <1>3 DEF Next, Tick, vars

\* AnomalyIsAChange: the window holds nothing but the last readings of its source, and
\* if none of their fields were far from the newest, neither would be their mean.
THEOREM AnomalyChanges == Spec => []AnomalyIsAChange
<1>1. Init => WindowInv
  BY DEF Init, WindowInv
<1>2. TypeOK /\ WindowInv => AnomalyIsAChange
  <2> SUFFICES ASSUME TypeOK, WindowInv, NEW s \in Shown,
                      \A f \in Recent(s) \ {NoField} :
                         LET latest == Last(window[s]).field IN
                         ~ (f - latest > MaxDelta \/ latest - f > MaxDelta)
               PROVE  FALSE
    BY DEF AnomalyIsAChange, Shown
  <2> DEFINE w == window[s]
             a == Last(w).field
             v == MagValues(s)
             I == {i \in DOMAIN w : w[i].field # NoField}
             n == Cardinality(I)
             sum == SumFunctionOnSet(v, I)
  <2>0. (\A f \in Fields : f \in Int) /\ MaxDelta \in Int
    OBVIOUS
  <2>1. s \in Sources /\ Anomaly(s)
    BY DEF Shown
  <2>2. w \in Seq(Readings)
    BY <2>1 DEF TypeOK
  <2>3. v = [i \in I |-> w[i].field] /\ DOMAIN v = I
    BY DEF MagValues
  <2>4. /\ w # <<>> /\ a # NoField
        /\ a * n - sum > MaxDelta * n \/ sum - a * n > MaxDelta * n
    BY <2>1, <2>3 DEF Anomaly, SumFunction
  <2>5. \A i \in DOMAIN w : w[i].field \in Fields \cup {NoField}
    <3>1. \A i \in DOMAIN w : w[i] \in Readings
      BY <2>2
    <3> QED
      BY <3>1 DEF Readings
  <2> HIDE DEF w, a
  <2>6. DOMAIN w = 1..Len(w) /\ Len(w) \in Nat /\ a \in Int
    <3>1. DOMAIN w = 1..Len(w) /\ Len(w) \in Nat
      BY <2>2
    <3>2. Len(w) \in DOMAIN w
      BY <2>2, <2>4
    <3>3. a \in Fields
      BY <2>4, <2>5, <3>2 DEF Last, a
    <3> QED
      BY ONLY <2>0, <3>1, <3>3
  <2>7. IsFiniteSet(I)
    <3>1. IsFiniteSet(1..Len(w))
      BY <2>6, FS_Interval
    <3>2. I \subseteq 1..Len(w)
      BY <2>6
    <3> QED
      BY <3>1, <3>2, FS_Subset
  <2>8. ASSUME NEW i \in I PROVE v[i] \in Int /\ v[i] - a <= MaxDelta /\ a - v[i] <= MaxDelta
    <3> HIDE DEF v
    <3>1. i \in DOMAIN w /\ v[i] = w[i].field /\ v[i] \in Fields /\ v[i] # NoField
      BY <2>3, <2>5
    <3>2. PICK j \in Own(s) :
             log[j].reading = w[i] /\ Cardinality(After(s, j)) = Len(w) - i
      BY <2>1, <3>1 DEF WindowInv, w
    <3>3. Len(w) <= Window
      BY <2>1 DEF WindowInv, w
    <3>4. Cardinality(After(s, j)) < Window
      BY <2>6, <3>1, <3>2, <3>3
    <3>5. v[i] \in Recent(s) \ {NoField}
      BY <3>1, <3>2, <3>4 DEF Recent
    <3>6. ~ (v[i] - a > MaxDelta \/ a - v[i] > MaxDelta)
      BY <3>5 DEF a, w
    <3>7. v[i] \in Int /\ MaxDelta \in Int
      <4>1. v[i] \in Fields
        BY <3>1
      <4> QED
        BY ONLY <2>0, <4>1
    <3> QED
      BY ONLY <2>6, <3>6, <3>7
  <2> HIDE DEF v, I
  <2>9. /\ n \in Nat /\ sum \in Int
        /\ sum - a * n <= MaxDelta * n /\ a * n - sum <= MaxDelta * n
    <3>1. MaxDelta \in Int
      OBVIOUS
    <3> QED
      BY <2>6, <2>7, <2>8, <3>1, MeanIsNear
  <2> HIDE DEF n, sum
  <2>10. a * n \in Int /\ MaxDelta * n \in Int
    BY <2>6, <2>9
  <2> DEFINE p == a * n
             q == MaxDelta * n
  <2>11. /\ p \in Int /\ q \in Int /\ sum \in Int
         /\ sum - p <= q /\ p - sum <= q
         /\ p - sum > q \/ sum - p > q
    BY <2>4, <2>9, <2>10
  <2> HIDE DEF p, q
  <2> QED
    BY <2>11
<1> QED
  BY <1>1, <1>2, WindowStep, TypeCorrect, PTL DEF Spec
=============================================================================
