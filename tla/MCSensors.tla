----------------------------- MODULE MCSensors -----------------------------
\* Sensors for TLC: a walk from a corner of the grid (two positions that round to
\* different bins) to a third place, past a neighbour's beacon at the corner.
EXTENDS Sensors

CONSTANTS esp, phone, beacon, follower, west, east, town

GridOf == (west :> 1) @@ (east :> 2) @@ (town :> 3)
HeardAt == (beacon :> {west, east}) @@ (follower :> {west, east, town})

Cafe == {[ssid |-> "cafe", bssid |-> "a"]}
Twin == Cafe \cup {[ssid |-> "cafe", bssid |-> "b"]}

Fences == {[name |-> "home", kind |-> "safe", area |-> {west, east}],
           [name |-> "pier", kind |-> "danger", area |-> {town}]}

Plain == [source |-> esp, ble |-> {}, wifi |-> {}, at |-> Nowhere,
          field |-> NoField, flaw |-> "none"]

Posts ==
    \* the walk, with a fix or without
    {[Plain EXCEPT !.at = p, !.ble = {beacon, follower}] : p \in {west, east}}
    \cup {[Plain EXCEPT !.at = town, !.ble = {follower}, !.wifi = w] : w \in {Cafe, Twin}}
    \cup {[Plain EXCEPT !.ble = {beacon, follower}, !.flaw = f] : f \in {"none", "lon"}}
    \* what raises
    \cup {[Plain EXCEPT !.at = town, !.ble = {follower}, !.flaw = f] : f \in {"ble", "wifi"}}
    \cup {[Plain EXCEPT !.wifi = Twin, !.flaw = "lon"]}
    \* the magnetometers
    \cup {[Plain EXCEPT !.source = s, !.field = f] : s \in {esp, phone}, f \in {50, 90}}
    \cup {[Plain EXCEPT !.source = phone, !.wifi = Cafe, !.flaw = "rssi"]}
=============================================================================
