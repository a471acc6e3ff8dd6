-------------------------------- MODULE Fleet --------------------------------
(***************************************************************************)
(* FleetManager of fleet/mod.rs: devices that send heartbeats, the check   *)
(* that finds the silent ones, and deployments, which mark their devices   *)
(* and which nothing takes further: no operation changes a deployment.     *)
(* A time is kept as the time that has passed since; that of a record made *)
(* by another clock may lie ahead.                                         *)
(***************************************************************************)
EXTENDS Integers, FiniteSets

CONSTANTS
  Devices,
  Timeout,          \* heartbeat_timeout_secs
  MaxSilence,       \* bound: how long time is counted
  MaxDeployments    \* bound: deployments

FleetAssumption ==
  /\ IsFiniteSet(Devices)
  /\ Timeout \in Nat /\ MaxSilence \in Nat /\ MaxDeployments \in Nat

VARIABLES
  deviceStatus,  \* deviceStatus[d]: DeviceStatus, or "unknown" for a device not registered
  silence,       \* silence[d]: time since last_heartbeat
  sinceCheck,    \* time since the last check_health
  unchecked,     \* history: devices that registered since then and sent no heartbeat
  deployments    \* total_devices and in_progress of each deployment

fleetVars == <<deviceStatus, silence, sinceCheck, unchecked, deployments>>

FleetInit ==
  /\ deviceStatus = [d \in Devices |-> "unknown"]
  /\ silence = [d \in Devices |-> 0]
  /\ sinceCheck = 0
  /\ unchecked = {}
  /\ deployments = {}

Known == {d \in Devices : deviceStatus[d] # "unknown"}

Changed(d, status, age) ==
  /\ deviceStatus' = [deviceStatus EXCEPT ![d] = status]
  /\ silence' = [silence EXCEPT ![d] = age]
  /\ UNCHANGED <<sinceCheck, deployments>>

-----------------------------------------------------------------------------
\* A device registers with any status and any time of its last heartbeat, as
\* its record has them; the record of one that is registered is replaced.
RegisterDevice(d) ==
  /\ \E status \in {"Online", "Offline", "Deploying", "Error"}, age \in -MaxSilence..MaxSilence :
       Changed(d, status, age)
  /\ unchecked' = unchecked \cup {d}

RemoveDevice(d) ==
  /\ d \in Known
  /\ Changed(d, "unknown", 0)
  /\ unchecked' = unchecked \ {d}

\* Whatever the device was doing, it is Online.
Heartbeat(d) ==
  /\ d \in Known
  /\ Changed(d, "Online", 0)
  /\ unchecked' = unchecked \ {d}

\* Fault: only a device that was not heard of since the check before is silent.
SilentSinceCheck(d) == deviceStatus[d] = "Online" /\ silence[d] > Timeout + sinceCheck

\* A device that is Deploying is not looked at.
Silent(d) == deviceStatus[d] = "Online" /\ silence[d] > Timeout

CheckHealth ==
  /\ deviceStatus' = [d \in Devices |-> IF Silent(d) THEN "Offline" ELSE deviceStatus[d]]
  /\ sinceCheck' = 0
  /\ unchecked' = {}
  /\ UNCHANGED <<silence, deployments>>

CreateDeployment(targets) ==
  /\ targets # {} /\ targets \subseteq Known
  /\ Cardinality(deployments) < MaxDeployments
  /\ deviceStatus' = [d \in Devices |-> IF d \in targets THEN "Deploying" ELSE deviceStatus[d]]
  /\ deployments' = deployments \cup
       {[id |-> Cardinality(deployments), total |-> Cardinality(targets),
         inProgress |-> Cardinality(targets)]}
  /\ UNCHANGED <<silence, sinceCheck, unchecked>>

TimePasses ==
  /\ sinceCheck < MaxSilence /\ \A d \in Devices : silence[d] < MaxSilence
  /\ silence' = [d \in Devices |-> IF d \in Known THEN silence[d] + 1 ELSE 0]
  /\ sinceCheck' = sinceCheck + 1
  /\ UNCHANGED <<deviceStatus, unchecked, deployments>>

FleetNext ==
  \/ \E d \in Devices : RegisterDevice(d) \/ RemoveDevice(d) \/ Heartbeat(d)
  \/ CheckHealth
  \/ \E targets \in SUBSET Devices : CreateDeployment(targets)
  \/ TimePasses

FleetSpec == FleetInit /\ [][FleetNext]_fleetVars

-----------------------------------------------------------------------------
FleetTypeOK ==
  /\ deviceStatus \in [Devices -> {"unknown", "Online", "Offline", "Deploying", "Error"}]
  /\ silence \in [Devices -> -MaxSilence..MaxSilence]
  /\ sinceCheck \in 0..MaxSilence
  /\ unchecked \subseteq Known
  /\ \A d \in deployments : d.inProgress = d.total /\ d.total \in 1..Cardinality(Devices)

\* A device counts as Online only if it was heard of within the timeout before
\* the last check: silence is found by the first check after it, also that of a
\* device that registered with an old heartbeat, whatever deployments and
\* registrations came in between.  What registered since the check has the
\* status and the time of its own record.
OnlineWasHeard ==
  \A d \in Devices \ unchecked : deviceStatus[d] = "Online" => silence[d] <= Timeout + sinceCheck
=============================================================================
