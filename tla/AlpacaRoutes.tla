---------------------------- MODULE AlpacaRoutes ----------------------------
(***************************************************************************)
(* From reset to a serving device: the constructor of Api sorts the        *)
(* devices by type, and register_routes, called once per HTTP server,      *)
(* writes the unique ids and registers a route per endpoint.  The servers  *)
(* run already, so requests come in meanwhile.  A failed registration      *)
(* aborts (ESP_ERROR_CHECK) and the chip restarts.                         *)
(***************************************************************************)
EXTENDS AlpacaEndpoints, FiniteSets

CONSTANTS
  DeviceList,     \* the vector the application passes: the type and name of each device
  Servers,        \* the HTTP servers it registers the Api with
  None,           \* no server, nothing learned, memory never written
  SlotChoices,    \* what max_uri_handlers may be configured to
  LeftoverBytes,  \* what a new Device may find in _number, which nothing assigns
  MaxRestarts     \* bound on the restarts of the chip

Devices == DOMAIN DeviceList
TypeOf(d) == DeviceList[d].type

\* The characters of a name: digits are themselves, others are larger.
Names == Seq(Nat)

ASSUME ListAssumption == DeviceList \in Seq([type : DeviceTypes, name : Names])
ASSUME ServersAssumption == None \notin Servers /\ None \notin Names
ASSUME NoDeviceAssumption == None \notin Devices
ASSUME BytesAssumption == LeftoverBytes \subseteq 0 .. 255
ASSUME BoundAssumption == MaxRestarts \in Nat /\ SlotChoices \subseteq Nat

VARIABLES
  phase,    \* where app_main is: itself, in a part of register_routes, done or aborted
  slots,    \* max_uri_handlers of each server
  number,   \* _number of each device
  added,    \* how many devices the constructor has sorted
  byType,   \* _devices
  ids,      \* _unique_id of each device
  current,  \* the server of register_routes
  done,     \* how many devices of each type its loops are past
  routes,   \* the routes of each server
  learned,  \* _devices as /management/v1/configureddevices last showed it
  restarts

loopVars == <<phase, current, done>>
vars == <<loopVars, slots, number, added, byType, ids, routes, learned, restarts>>

NoneDone == [type \in DeviceTypes |-> 0]
NoDevices == [type \in DeviceTypes |-> <<>>]

Init ==
  /\ phase = "main"
  /\ slots \in [Servers -> SlotChoices]
  /\ number \in [Devices -> LeftoverBytes]
  /\ added = 0
  /\ byType = NoDevices
  /\ ids = [d \in Devices |-> None]
  /\ current = None
  /\ done = NoneDone
  /\ routes = [s \in Servers |-> {}]
  /\ learned = None
  /\ restarts = 0

-----------------------------------------------------------------------------
(* Ids and routes                                                          *)

\* enum class DeviceType
TypeNumber ==
  [camera |-> 1, covercalibrator |-> 2, dome |-> 3, filterwheel |-> 4, focuser |-> 5,
   observingconditions |-> 6, rotator |-> 7, safetymonitor |-> 8, switch |-> 9, telescope |-> 10]

\* %d of a number up to 255, digit by digit.
Decimal(n) ==
  (IF n >= 100 THEN <<n \div 100>> ELSE <<>>)
    \o (IF n >= 10 THEN <<(n \div 10) % 10>> ELSE <<>>) \o <<n % 10>>

\* generate_unique_id hashes the server's id, which all share, and these one after
\* the other.  The hash is taken to be injective.
UniqueId(d) == DeviceList[d].name \o Decimal(TypeNumber[TypeOf(d)]) \o Decimal(number[d])

\* _unique_id after the memset that comes before the hash is written.
Cleared == <<>>

Route(type, n, e) == [type |-> type, number |-> n, verb |-> e.verb, name |-> e.name]
DeviceRoutes(type, n) == {Route(type, n, e) : e \in EndpointsOf[type]}
ManagementRoutes == {Route("management", 0, e) : e \in ManagementEndpoints}
Listing == Route("management", 0, ConfiguredDevices)

\* The device whose driver the handler of a route calls: parse_request reads the
\* number in the URI into a byte and the handler indexes _devices with it.
Dispatch(route) ==
  LET n == route.number % 256 IN
  IF n < Len(byType[route.type]) THEN byType[route.type][n + 1] ELSE None

\* std::map iterates in the order of its keys.
AtCursor(type) ==
  /\ done[type] < Len(byType[type])
  /\ \A t \in DeviceTypes :
       TypeNumber[t] < TypeNumber[type] => done[t] = Len(byType[t])
AllDone == \A t \in DeviceTypes : done[t] = Len(byType[t])
CursorDevice(type) == byType[type][done[type] + 1]

-----------------------------------------------------------------------------
\* Wrong on purpose: the devices come in the order of their addresses.
ConstructInAnyOrder ==
  /\ phase = "main" /\ added < Len(DeviceList)
  /\ \E d \in Devices :
       /\ \A type \in DeviceTypes : \A i \in DOMAIN byType[type] : byType[type][i] # d
       /\ byType' = [byType EXCEPT ![TypeOf(d)] = Append(@, d)]
  /\ added' = added + 1
  /\ UNCHANGED <<loopVars, slots, number, ids, routes, learned, restarts>>

\* The constructor of Api, one device at a time.
Construct ==
  /\ phase = "main" /\ added < Len(DeviceList)
  /\ byType' = [byType EXCEPT ![TypeOf(added + 1)] = Append(@, added + 1)]
  /\ added' = added + 1
  /\ UNCHANGED <<loopVars, slots, number, ids, routes, learned, restarts>>

\* Wrong on purpose: the ids are written by somebody else, later.
BeginWithoutIds(s) ==
  /\ phase = "main" /\ added = Len(DeviceList) /\ routes[s] = {}
  /\ phase' = "management"
  /\ current' = s
  /\ done' = NoneDone
  /\ UNCHANGED <<slots, number, added, byType, ids, routes, learned, restarts>>

\* The application calls register_routes with a server.
Begin(s) ==
  /\ phase = "main" /\ added = Len(DeviceList) /\ routes[s] = {}
  /\ phase' = "ids"
  /\ current' = s
  /\ done' = NoneDone
  /\ UNCHANGED <<slots, number, added, byType, ids, routes, learned, restarts>>

\* initialize: the id of a device is cleared and then written.
ClearId(type) ==
  /\ phase = "ids" /\ AtCursor(type)
  /\ ids[CursorDevice(type)] # Cleared
  /\ ids' = [ids EXCEPT ![CursorDevice(type)] = Cleared]
  /\ UNCHANGED <<loopVars, slots, number, added, byType, routes, learned, restarts>>

WriteId(type) ==
  /\ phase = "ids" /\ AtCursor(type)
  /\ ids[CursorDevice(type)] = Cleared
  /\ ids' = [ids EXCEPT ![CursorDevice(type)] = UniqueId(CursorDevice(type))]
  /\ done' = [done EXCEPT ![type] = @ + 1]
  /\ UNCHANGED <<phase, current, slots, number, added, byType, routes, learned, restarts>>

EndIds ==
  /\ phase = "ids" /\ AllDone
  /\ phase' = "management"
  /\ done' = NoneDone
  /\ UNCHANGED <<current, slots, number, added, byType, ids, routes, learned, restarts>>

\* httpd_register_uri_handler refuses a route it has and one too many.
Accepts(new) ==
  /\ new \cap routes[current] = {}
  /\ Cardinality(routes[current]) + Cardinality(new) <= slots[current]

RegisterManagement ==
  /\ phase = "management"
  /\ Accepts(ManagementRoutes)
  /\ routes' = [routes EXCEPT ![current] = @ \cup ManagementRoutes]
  /\ phase' = "devices"
  /\ UNCHANGED <<current, done, slots, number, added, byType, ids, learned, restarts>>

\* Wrong on purpose: the numbers of the devices start at one.
RegisterFromOne(type) ==
  LET new == DeviceRoutes(type, done[type] + 1) IN
  /\ phase = "devices" /\ AtCursor(type)
  /\ Accepts(new)
  /\ routes' = [routes EXCEPT ![current] = @ \cup new]
  /\ done' = [done EXCEPT ![type] = @ + 1]
  /\ UNCHANGED <<phase, current, slots, number, added, byType, ids, learned, restarts>>

\* Wrong on purpose: one number for the devices of all types.
RegisterByPosition(type) ==
  LET new == DeviceRoutes(type, CursorDevice(type) - 1) IN
  /\ phase = "devices" /\ AtCursor(type)
  /\ Accepts(new)
  /\ routes' = [routes EXCEPT ![current] = @ \cup new]
  /\ done' = [done EXCEPT ![type] = @ + 1]
  /\ UNCHANGED <<phase, current, slots, number, added, byType, ids, learned, restarts>>

\* Wrong on purpose: the loop counts twice.
RegisterEveryOther(type) ==
  LET new == DeviceRoutes(type, done[type]) IN
  /\ phase = "devices" /\ AtCursor(type)
  /\ Accepts(new)
  /\ routes' = [routes EXCEPT ![current] = @ \cup new]
  /\ done' = [done EXCEPT ![type] = @ + 2]
  /\ UNCHANGED <<phase, current, slots, number, added, byType, ids, learned, restarts>>

\* register_device_routes for the next device.
RegisterDevice(type) ==
  LET new == DeviceRoutes(type, done[type]) IN
  /\ phase = "devices" /\ AtCursor(type)
  /\ Accepts(new)
  /\ routes' = [routes EXCEPT ![current] = @ \cup new]
  /\ done' = [done EXCEPT ![type] = @ + 1]
  /\ UNCHANGED <<phase, current, slots, number, added, byType, ids, learned, restarts>>

\* Wrong on purpose: the servers share one table of routes.
AbortOnTotal ==
  /\ phase = "devices" /\ current # None
  /\ \E type \in DeviceTypes :
       /\ AtCursor(type)
       /\ Cardinality(UNION {{<<s, r>> : r \in routes[s]} : s \in Servers})
            + Cardinality(DeviceRoutes(type, done[type])) > slots[current]
  /\ phase' = "abort"
  /\ UNCHANGED <<current, done, slots, number, added, byType, ids, routes, learned, restarts>>

\* ESP_ERROR_CHECK of a registration that failed.
Abort ==
  /\ \/ phase = "management" /\ ~Accepts(ManagementRoutes)
     \/ /\ phase = "devices"
        /\ \E type \in DeviceTypes :
             AtCursor(type) /\ ~Accepts(DeviceRoutes(type, done[type]))
  /\ phase' = "abort"
  /\ UNCHANGED <<current, done, slots, number, added, byType, ids, routes, learned, restarts>>

\* register_routes returns.
End ==
  /\ phase = "devices" /\ AllDone
  /\ phase' = "main"
  /\ current' = None
  /\ done' = NoneDone
  /\ UNCHANGED <<slots, number, added, byType, ids, routes, learned, restarts>>

\* Every server has its routes; app_main has nothing left to do.
Serve ==
  /\ phase = "main" /\ added = Len(DeviceList)
  /\ \A s \in Servers : routes[s] # {}
  /\ phase' = "serve"
  /\ UNCHANGED <<current, done, slots, number, added, byType, ids, routes, learned, restarts>>

\* A client asks a server for the configured devices.
List(s) ==
  /\ phase # "abort" /\ Listing \in routes[s]
  /\ learned' = byType
  /\ UNCHANGED <<loopVars, slots, number, added, byType, ids, routes, restarts>>

\* The chip restarts, after an abort or for a reason of its own: the application
\* makes new devices and a new Api.
Restart ==
  /\ restarts < MaxRestarts
  /\ restarts' = restarts + 1
  /\ phase' = "main"
  /\ number' \in [Devices -> LeftoverBytes]
  /\ added' = 0
  /\ byType' = NoDevices
  /\ ids' = [d \in Devices |-> None]
  /\ current' = None
  /\ done' = NoneDone
  /\ routes' = [s \in Servers |-> {}]
  /\ UNCHANGED <<slots, learned>>

-----------------------------------------------------------------------------
Startup ==
  \/ Construct \/ EndIds \/ RegisterManagement \/ Abort \/ End \/ Serve
  \/ \E s \in Servers : Begin(s)
  \/ \E type \in DeviceTypes : ClearId(type) \/ WriteId(type) \/ RegisterDevice(type)

Next == Startup \/ Restart \/ \E s \in Servers : List(s)

\* app_main runs.
Spec == Init /\ [][Next]_vars
FairSpec == Spec /\ WF_vars(Startup)

-----------------------------------------------------------------------------
(* Properties                                                              *)

\* The place of a device among those of its type.
Place(d) == Cardinality({e \in 1 .. d : TypeOf(e) = TypeOf(d)})

\* The routes a server needs.
RoutesTo(devices) == UNION {DeviceRoutes(TypeOf(d), Place(d) - 1) : d \in devices}
WantedRoutes == ManagementRoutes \cup RoutesTo(Devices)
RoutesNeeded == Cardinality(WantedRoutes)

Phases == {"main", "ids", "management", "devices", "serve", "abort"}

\* Every variable stays within its type, the loops end where they should, and
\* register_routes works on a server.
TypeOK ==
  /\ phase \in Phases
  /\ slots \in [Servers -> SlotChoices]
  /\ number \in [Devices -> LeftoverBytes]
  /\ added \in 0 .. Len(DeviceList)
  /\ byType \in [DeviceTypes -> Seq(Devices)]
  /\ DOMAIN ids = Devices
  /\ current \in Servers \cup {None}
  /\ phase \in {"ids", "management", "devices"} => current \in Servers
  /\ done \in [DeviceTypes -> Nat]
  /\ \A type \in DeviceTypes : done[type] <= Len(byType[type])
  /\ DOMAIN routes = Servers
  /\ restarts \in 0 .. MaxRestarts

\* Also during startup, when the servers already run, a route leads to a device of
\* the type to whose class its handler casts.
RoutesLeadToTheirType ==
  \A s \in Servers : \A route \in routes[s] \ ManagementRoutes :
    Dispatch(route) # None /\ TypeOf(Dispatch(route)) = route.type

\* Once the application serves, every endpoint of every device has on every server a
\* route whose handler calls that very device, and there are no more routes.
EveryDeviceIsServed ==
  phase = "serve" =>
    \A s \in Servers :
      /\ \A d \in Devices : \A e \in EndpointsOf[TypeOf(d)] :
           \E n \in 0 .. Len(DeviceList) : /\ Route(TypeOf(d), n, e) \in routes[s]
                                           /\ Dispatch(Route(TypeOf(d), n, e)) = d
      /\ Cardinality(routes[s]) = RoutesNeeded

\* A server that lists the devices finds no _unique_id unwritten, and one half
\* written only while the same Api is being registered with another server.
ListedIdsAreWritten ==
  \A s \in Servers : Listing \in routes[s] =>
    \A d \in Devices : ids[d] # None /\ (ids[d] = Cleared => phase = "ids" /\ current # s)

\* The numbers under which a client knows the devices hold after restarts.
NumbersSurvive ==
  learned # None =>
    \A type \in DeviceTypes : \A i \in DOMAIN byType[type] :
      i \in DOMAIN learned[type] /\ byType[type][i] = learned[type][i]

\* A startup fails only if some server is configured with fewer routes than that.
AbortsOnlyWhenFull == phase = "abort" => \E s \in Servers : slots[s] < RoutesNeeded

\* max_uri_handlers is "adjust[ed] to handle the number of routes you have"
\* (examples/main.cpp:25).
NeverAborts == phase # "abort"

\* _unique_id is a "unique id for each device" (api.h:60).
IdsAreUnique ==
  \A d, e \in Devices : ids[d] \notin {None, Cleared} /\ ids[d] = ids[e] => d = e

\* With room for the routes the application comes up, and after the last restart
\* stays up.
EventuallyServes ==
  (\A s \in Servers : slots[s] >= RoutesNeeded) => <>[](phase = "serve")
=============================================================================
