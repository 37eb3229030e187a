------------------------------ MODULE Sensors ------------------------------
(***************************************************************************)
(* What a node makes of the readings that the pocket sensor and the phone  *)
(* post: the fusion window (boddos/sensors/fusion.py), the tracker history *)
(* (safety/trackers.py), the surveillance verdict (surveillance.py), the   *)
(* geofence (geofence.py), and the handler that goes through them          *)
(* (api_sensors_ingest in api/server.py).                                  *)
(*                                                                         *)
(* The handler meets no await that suspends it (publish() does not), so a  *)
(* request is one step; but any of its parts may raise on a reading that   *)
(* is not what it expects, and what the parts before have done stays.      *)
(*                                                                         *)
(* The world is in the readings: each tracked device can be heard from     *)
(* some positions only, and the grid of trackers.py puts each position     *)
(* into a bin.                                                             *)
(***************************************************************************)
EXTENDS Integers, FiniteSets, Sequences, SequencesExt

CONSTANTS
    Sources,        \* the sensors
    Devices,        \* the BLE addresses
    AccessPoints,   \* records of an ssid and a bssid
    Watched,        \* devices and bssids of a vendor of cameras or trackers
    Positions,
    Nowhere,        \* a reading without a location
    BinOf,          \* the bin of about a kilometre that a position is rounded to
    Unknown,        \* _loc_bin of no location
    Reach,          \* the positions where each device can be heard
    Zones,          \* records of a name, a kind and an area
    Fields,         \* what a magnetometer reads
    NoField,        \* a reading without a magnetometer
    Postable,       \* the readings that the sensors post
    Window,         \* 60
    MinField,       \* 5
    MaxDelta,       \* 20
    Follow,         \* tracker_follow_threshold
    MinSpan,        \* min_span_s
    NoTrack,        \* no entry in _tracks
    MaxReadings,    \* bound on the readings since a start
    MaxTime         \* bound on the clock

Bins == {BinOf[p] : p \in Positions}

\* What can be wrong with a reading: nothing; an entry of the ble or of the wifi
\* list that is not an object; a latitude without a longitude; the rssi of a device
\* that has no twin is null.
Flaws == {"none", "ble", "wifi", "lon", "rssi"}

Readings ==
    [source : Sources, ble : SUBSET Devices, wifi : SUBSET AccessPoints,
     at : Positions \cup {Nowhere}, field : Fields \cup {NoField}, flaw : Flaws]

Track == [places : SUBSET Bins, first : Nat, last : Nat]

ASSUME SensorsAssumption ==
    /\ IsFiniteSet(Positions)
    /\ Nowhere \notin Positions
    /\ \A z \in Zones : z.kind \in {"safe", "danger"} /\ z.area \subseteq Positions
    /\ Unknown \notin Bins
    /\ Reach \in [Devices -> SUBSET Positions]
    /\ NoField \notin Fields
    /\ Fields \subseteq Nat
    /\ NoTrack \notin Track
    /\ {Window, MinField, MaxDelta, Follow, MinSpan, MaxReadings, MaxTime} \subseteq Nat
    /\ Window > 0
    \* who is heard where
    /\ Postable \subseteq Readings
    /\ \A r \in Postable : r.at # Nowhere => \A d \in r.ble : r.at \in Reach[d]
    /\ \A r \in Postable : r.flaw = "lon" => r.at = Nowhere

VARIABLES
    now,
    window,     \* _readings, the oldest first
    tracks,     \* _tracks
    verdict,    \* last_surveillance
    events,     \* the events of the last handler that published
    \* ghost
    log         \* the readings posted since the start and when

vars == <<now, window, tracks, verdict, events, log>>

\* What a scan report can say; NoRisk is "clear".
Reports == [twins : SUBSET {a.ssid : a \in AccessPoints}, devices : SUBSET Watched]
NoRisk == [twins |-> {}, devices |-> {}]

Alerts == ({"danger"} \X {z.name : z \in Zones}) \cup {<<"outside", "safe">>}

Events ==
    [type : {"sensors.update"}, source : Sources]
    \cup [type : {"safety.surveillance"}, report : Reports]
    \cup [type : {"safety.geofence"}, alerts : SUBSET Alerts]

TypeOK ==
    /\ now \in Nat
    /\ window \in [Sources -> Seq(Readings)]
    /\ tracks \in [Devices -> Track \cup {NoTrack}]
    /\ verdict \in Reports
    /\ events \in Seq(Events)
    /\ log \in Seq([reading : Readings, time : Nat])

Init ==
    /\ now = 0
    /\ window = [s \in Sources |-> <<>>]
    /\ tracks = [d \in Devices |-> NoTrack]
    /\ verdict = NoRisk
    /\ events = <<>>
    /\ log = <<>>
-----------------------------------------------------------------------------
\* Mutant of Ingest: a deque without a maximal length.
IngestAll(r) == window' = [window EXCEPT ![r.source] = Append(@, r)]

\* SensorFusion.ingest
Ingest(r) ==
    window' = [window EXCEPT ![r.source] =
                  IF Len(@) < Window THEN Append(@, r) ELSE Append(Tail(@), r)]

LocBin(r) == IF r.at = Nowhere THEN Unknown ELSE BinOf[r.at]

\* What a sighting makes of the entry of a device.
Sighted(t, r) ==
    LET here == {LocBin(r)} \ {Unknown} IN
    IF t = NoTrack
    THEN [places |-> here, first |-> now, last |-> now]
    ELSE [t EXCEPT !.places = @ \cup here, !.last = now]

\* TrackerDetector.observe gets through the devices in `seen`.
Observe(seen, r) ==
    tracks' = [d \in Devices |-> IF d \in seen THEN Sighted(tracks[d], r) ELSE tracks[d]]

\* Mutant of Suspects: two places in a row are enough.
SuspectsAtOnce ==
    {d \in Devices : tracks[d] # NoTrack /\ Cardinality(tracks[d].places) >= Follow}

\* TrackerDetector.suspects
Suspects ==
    {d \in Devices :
        /\ tracks[d] # NoTrack
        /\ Cardinality(tracks[d].places) >= Follow
        /\ tracks[d].last - tracks[d].first >= MinSpan}

\* The names that several radios of one scan advertise
EvilTwins(wifi) ==
    {a.ssid : a \in {a \in wifi : \E b \in wifi : b.ssid = a.ssid /\ b.bssid # a.bssid}}

\* The devices of a scan that a maker of cameras or trackers has made
Fingerprints(wifi, ble) == Watched \cap (ble \cup {a.bssid : a \in wifi})

ScanReport(r) ==
    [twins |-> EvilTwins(r.wifi), devices |-> Fingerprints(r.wifi, r.ble)]

\* GeoFence.evaluate: the zones that a position is in, and what is wrong with that
Inside(p) == {z \in Zones : p \in z.area}

GeoAlerts(p) ==
    {<<"danger", z.name>> : z \in {z \in Inside(p) : z.kind = "danger"}}
    \cup IF /\ \E z \in Zones : z.kind = "safe"
            /\ \A z \in Inside(p) : z.kind # "safe"
         THEN {<<"outside", "safe">>} ELSE {}

\* evaluate() raises on a latitude without a longitude, if it is called.
FenceRaises(r) == r.flaw = "lon" /\ Zones # {}

\* Mutant of Published: the report is still the one of the reading before.
PublishedStale(r) ==
    <<[type |-> "sensors.update", source |-> r.source]>>
    \o (IF verdict = NoRisk THEN <<>>
        ELSE <<[type |-> "safety.surveillance", report |-> verdict]>>)

\* The events of a reading
Published(r) ==
    <<[type |-> "sensors.update", source |-> r.source]>>
    \o (IF ScanReport(r) = NoRisk THEN <<>>
        ELSE <<[type |-> "safety.surveillance", report |-> ScanReport(r)]>>)
    \o (IF r.at = Nowhere \/ GeoAlerts(r.at) = {} THEN <<>>
        ELSE <<[type |-> "safety.geofence", alerts |-> GeoAlerts(r.at)]>>)

\* A reading arrives: it is kept whatever becomes of it.
Arrive(r) ==
    /\ Len(log) < MaxReadings
    /\ log' = Append(log, [reading |-> r, time |-> now])
    /\ Ingest(r)

\* observe() raises in the middle of the list; what it has noted stays.
RaiseInObserve(r, seen) ==
    /\ r.flaw = "ble"
    /\ Arrive(r)
    /\ Observe(seen, r)
    /\ UNCHANGED <<now, verdict, events>>

\* scan_report() raises.
RaiseInScan(r) ==
    /\ r.flaw = "wifi"
    /\ Arrive(r)
    /\ Observe(r.ble, r)
    /\ UNCHANGED <<now, verdict, events>>

\* evaluate() raises, before anything is published.
RaiseInFence(r) ==
    /\ FenceRaises(r)
    /\ Arrive(r)
    /\ Observe(r.ble, r)
    /\ verdict' = ScanReport(r)
    /\ UNCHANGED <<now, events>>

\* The reading goes through.
Accept(r) ==
    /\ r.flaw \notin {"ble", "wifi"}
    /\ ~ FenceRaises(r)
    /\ Arrive(r)
    /\ Observe(r.ble, r)
    /\ verdict' = ScanReport(r)
    /\ events' = Published(r)
    /\ UNCHANGED now

\* POST /api/sensors/ingest
ApiIngest(r) ==
    \/ \E seen \in SUBSET r.ble : RaiseInObserve(r, seen)
    \/ RaiseInScan(r)
    \/ RaiseInFence(r)
    \/ Accept(r)

Tick ==
    /\ now < MaxTime
    /\ now' = now + 1
    /\ UNCHANGED <<window, tracks, verdict, events, log>>

\* The process starts again: nothing of this is stored.
Restart ==
    /\ window' = [s \in Sources |-> <<>>]
    /\ tracks' = [d \in Devices |-> NoTrack]
    /\ verdict' = NoRisk
    /\ events' = <<>>
    /\ log' = <<>>
    /\ UNCHANGED now

Next == (\E r \in Postable : ApiIngest(r)) \/ Tick \/ Restart

Spec == Init /\ [][Next]_vars
-----------------------------------------------------------------------------
\* The magnetic fields in the window of a source
MagValues(s) ==
    [i \in {i \in DOMAIN window[s] : window[s][i].field # NoField} |-> window[s][i].field]

\* The newest differs too much from the baseline; a mean of zero counts as none.
Anomaly(s) ==
    LET vals == MagValues(s)
        n == Cardinality(DOMAIN vals)
        sum == SumFunction(vals)
        latest == Last(window[s]).field
    IN /\ window[s] # <<>>
       /\ latest # NoField
       /\ n >= MinField /\ sum # 0
       /\ latest * n - sum > MaxDelta * n \/ sum - latest * n > MaxDelta * n

\* snapshot() goes through the devices of the newest reading of every source, and
\* raises on an entry that is not an object and on an rssi of null.
SnapshotRaises == \E s \in Sources :
    window[s] # <<>> /\ Last(window[s]).flaw \in {"ble", "wifi", "rssi"}

\* GET /api/sensors: the sources for which it shows a magnetic anomaly
Shown == {s \in Sources : ~ SnapshotRaises /\ Anomaly(s)}
-----------------------------------------------------------------------------
\* "unlike a device that belongs to one place you visited" (trackers.py): a device
\* that is only ever in reach from fewer bins than the threshold is never taken
\* for a follower, whatever is posted without a location or fails half-way.  A
\* place at a corner of the grid has more bins than one.
StayersAreClear ==
    \A d \in Devices :
        Cardinality({BinOf[p] : p \in Reach[d]}) < Follow => d \notin Suspects

\* The readings that have a device in them; of those, the ones that are whole.
Sightings(d) == {i \in DOMAIN log : d \in log[i].reading.ble}
WholeSightings(d) == {i \in Sightings(d) : log[i].reading.flaw # "ble"}

\* The bins of some readings; readings of enough bins, and far enough apart
Places(I) == {LocBin(log[i].reading) : i \in I} \ {Unknown}

Following(I) ==
    /\ Cardinality(Places(I)) >= Follow
    /\ \E i, j \in I : log[j].time - log[i].time >= MinSpan

\* Suspects follow: whoever is suspected was in the readings of enough places over
\* enough time, and whoever was in such readings is suspected, also if other parts
\* of the handler have failed on these readings.
SuspectsAreFollowers ==
    \A d \in Devices :
        /\ d \in Suspects => Following(Sightings(d))
        /\ Following(WholeSightings(d)) => d \in Suspects

\* The readings of a source as posted, and the fields of the last of them, of at
\* most as many as the window holds
Own(s) == {i \in DOMAIN log : log[i].reading.source = s}
After(s, i) == {j \in Own(s) : j > i}

Recent(s) ==
    {log[i].reading.field : i \in {i \in Own(s) : Cardinality(After(s, i)) < Window}}

\* A magnetic anomaly is a change: one of the last readings of the same source is
\* further from the newest than the threshold, so a field that stays as it is
\* becomes normal again, and no other source can cause one.
AnomalyIsAChange ==
    \A s \in Shown : \E f \in Recent(s) \ {NoField} :
        LET latest == Last(window[s]).field IN
        f - latest > MaxDelta \/ latest - f > MaxDelta

\* What the status says of surveillance is the report of the last reading that got
\* through the scan, and the screens have been told of a risk then, unless the
\* geofence raised on that very reading.
VerdictIsTold ==
    LET scanned == {i \in DOMAIN log : log[i].reading.flaw \notin {"ble", "wifi"}} IN
    \A i \in scanned :
        (\A j \in scanned : j <= i) =>
            /\ verdict = ScanReport(log[i].reading)
            /\ verdict # NoRisk /\ ~ FenceRaises(log[i].reading) =>
                  [type |-> "safety.surveillance", report |-> verdict] \in ToSet(events)
-----------------------------------------------------------------------------
\* The inductive strengthening of StayersAreClear and SuspectsAreFollowers: the
\* entry of a device lies between its whole sightings and all of them.
EntryInv(d) ==
    IF tracks[d] = NoTrack
    THEN WholeSightings(d) = {}
    ELSE /\ tracks[d].places \subseteq Places(Sightings(d))
         /\ Places(WholeSightings(d)) \subseteq tracks[d].places
         /\ \E i \in Sightings(d) : log[i].time = tracks[d].first
         /\ \E i \in Sightings(d) : log[i].time = tracks[d].last
         /\ \A i \in WholeSightings(d) :
               tracks[d].first <= log[i].time /\ log[i].time <= tracks[d].last

TrackInv ==
    /\ \A i \in DOMAIN log : log[i].reading \in Postable /\ log[i].time <= now
    /\ \A d \in Devices : EntryInv(d)

\* That of AnomalyIsAChange: the window of a source holds its last readings, each
\* with as many after it as there are in the log.
WindowInv ==
    \A s \in Sources :
        /\ Len(window[s]) <= Window
        /\ \A k \in DOMAIN window[s] : \E i \in Own(s) :
              /\ log[i].reading = window[s][k]
              /\ Cardinality(After(s, i)) = Len(window[s]) - k
=============================================================================
