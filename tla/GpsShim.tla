------------------------------ MODULE GpsShim ------------------------------
(* shims/libgps-shim/gps.c: the shim between the framework and the vendor's  *)
(* GPS library.  It puts its functions into the vendor's tables, once per    *)
(* table, and filters the positions on their way to the framework: a fix     *)
(* that does not seem to have moved is reported where the last one was.      *)
(* Satellites, NMEA, injected data and the other forwarded calls keep no     *)
(* state and are left out.                                                  *)
EXTENDS Integers

CONSTANTS
  GpsClients,     \* callback tables of the framework
  NoClient,       \* NULL
  GpsFixes,       \* fixes of the vendor: place, speed, accuracy and flags
  GpsTimes,       \* their timestamps, in seconds
  MaxFixes        \* fixes reported

ASSUME GpsAssumption ==
  /\ GpsTimes \subseteq Nat /\ MaxFixes \in Nat /\ NoClient \notin GpsClients
  /\ GpsFixes \subseteq
       [place : Int \X Int \X Int, speed : Nat, accuracy : Nat, flags : Nat]

VARIABLES
  hooked,         \* tables whose entries are the shim's
  gpsClients,     \* orgGpsCallbacks, vendor_agps_status_callback, orgAGpsRilCallbacks
  reportLocation, \* the place, flags and timestamp that the shim keeps
  told,           \* what the framework was told last
  measured,       \* history: the fixes since the last one that was not filtered
  fixes           \* fixes so far

gpsVars == <<hooked, gpsClients, reportLocation, told, measured, fixes>>

Interfaces == {"gps", "agps", "agps-ril"}

(* gpsFilterLocations and defaultFilterLocation.  The least speeds are       *)
(* 1.5, 4, 8, 12, 16 and 1 times SPEED_CONVERT, in ten-thousandths.          *)
Filter(accuracy, speed, locdiff) ==
  [accuracy |-> accuracy, enabled |-> speed > 0, speed |-> speed, locdiff |-> locdiff,
   timeout |-> IF speed > 0 THEN 60 ELSE 0]
GpsFilterLocations ==
  << Filter(5, 0, 0), Filter(10, 4092, 5), Filter(20, 10912, 6), Filter(30, 21824, 8),
     Filter(40, 32736, 8), Filter(50, 43648, 8) >>
DefaultFilterLocation == Filter(10, 2728, 5)

(* get_filterlocation: the first entry that is not more accurate.           *)
FilterLocation(accuracy) ==
  LET fits == {i \in DOMAIN GpsFilterLocations : GpsFilterLocations[i].accuracy >= accuracy}
  IN  IF fits = {} THEN DefaultFilterLocation
      ELSE GpsFilterLocations[CHOOSE i \in fits : \A j \in fits : i <= j]

GpsInit ==
  /\ hooked = {} /\ gpsClients = [i \in Interfaces |-> NoClient]
  /\ reportLocation = [place |-> <<0, 0, 0>>, flags |-> 0, time |-> 0]
  /\ told = [place |-> <<0, 0, 0>>, time |-> 0, held |-> FALSE]
  /\ measured = {} /\ fixes = 0

-----------------------------------------------------------------------------
(* Tables.  A table that is hooked a second time would have the shim call    *)
(* itself; the framework asks for each of them once.                        *)

(* open_gps: the library, its symbol and its open() may each fail.          *)
OpenGps ==
  /\ "device" \notin hooked
  /\ hooked' = hooked \cup {"device"}
  /\ UNCHANGED <<gpsClients, reportLocation, told, measured, fixes>>

(* shim_get_gps_interface.                                                  *)
GetGpsInterface ==
  /\ "device" \in hooked /\ "gps" \notin hooked
  /\ hooked' = hooked \cup {"gps"}
  /\ UNCHANGED <<gpsClients, reportLocation, told, measured, fixes>>

(* shim_gps_get_extension, in any order: that AGPS comes before its RIL half *)
(* only matters to the log.                                                 *)
GetExtension(name) ==
  /\ "gps" \in hooked /\ name \in Interfaces \ hooked
  /\ hooked' = hooked \cup {name}
  /\ UNCHANGED <<gpsClients, reportLocation, told, measured, fixes>>

(* shim_gps_init, shim_agps_init and shim_agpsril_init: the callbacks of the *)
(* last caller.  A new caller does not reset the position.                  *)
InitInterface(i, client) ==
  /\ i \in hooked
  /\ gpsClients' = [gpsClients EXCEPT ![i] = client]
  /\ UNCHANGED <<hooked, reportLocation, told, measured, fixes>>

-----------------------------------------------------------------------------
(* shim_location_cb.                                                        *)

(* locDiff adds up the three differences, so opposite moves cancel out.     *)
LocDiff(fix) ==
  (fix.place[1] - reportLocation.place[1]) + (fix.place[2] - reportLocation.place[2])
    + (fix.place[3] - reportLocation.place[3])

UpdateLocation(fix, time) ==
  LET filter == FilterLocation(fix.accuracy)
  IN  \/ reportLocation.time = 0
      \/ fix.flags # reportLocation.flags
      \/ fix.speed > filter.speed
      \/ LocDiff(fix) > filter.locdiff \/ LocDiff(fix) < -filter.locdiff
      \/ time > reportLocation.time + filter.timeout

Report(place, time, held) ==
  /\ gpsClients["gps"] # NoClient
  /\ fixes < MaxFixes /\ fixes' = fixes + 1
  /\ told' = [place |-> place, time |-> time, held |-> held]
  /\ UNCHANGED <<hooked, gpsClients>>

(* A fix of 5 m or less is passed on, and the next one starts anew.         *)
LocationUnfilteredKeeps(fix, time) ==
  /\ ~FilterLocation(fix.accuracy).enabled
  /\ Report(fix.place, time, FALSE)
  /\ measured' = {} /\ UNCHANGED reportLocation
LocationUnfiltered(fix, time) ==
  /\ ~FilterLocation(fix.accuracy).enabled
  /\ Report(fix.place, time, FALSE)
  /\ reportLocation' = [reportLocation EXCEPT !.time = 0]
  /\ measured' = {}

LocationMoved(fix, time) ==
  /\ FilterLocation(fix.accuracy).enabled /\ UpdateLocation(fix, time)
  /\ Report(fix.place, time, FALSE)
  /\ reportLocation' = [place |-> fix.place, flags |-> fix.flags, time |-> time]
  /\ measured' = measured \cup {[place |-> fix.place, time |-> time]}

(* The old place, with the new fix's time and accuracy.                     *)
LocationHeld(fix, time) ==
  /\ FilterLocation(fix.accuracy).enabled /\ ~UpdateLocation(fix, time)
  /\ Report(reportLocation.place, time, TRUE)
  /\ measured' = measured \cup {[place |-> fix.place, time |-> time]}
  /\ UNCHANGED reportLocation

GpsNext ==
  \/ OpenGps
  \/ GetGpsInterface
  \/ \E name \in Interfaces : GetExtension(name)
  \/ \E i \in Interfaces, client \in GpsClients : InitInterface(i, client)
  \/ \E fix \in GpsFixes, time \in GpsTimes : LocationUnfiltered(fix, time)
  \/ \E fix \in GpsFixes, time \in GpsTimes : LocationMoved(fix, time)
  \/ \E fix \in GpsFixes, time \in GpsTimes : LocationHeld(fix, time)

GpsSpec == GpsInit /\ [][GpsNext]_gpsVars

-----------------------------------------------------------------------------
(* A place that is not the fix's own was measured, at most a minute before   *)
(* the time it is given, and after every fix that was accurate enough to be  *)
(* passed on as it was, whatever callers came and went (gps.c 139-214).      *)
HeldPositionIsFresh ==
  told.held =>
    \E old \in measured : old.place = told.place /\ told.time <= old.time + 60

=============================================================================
