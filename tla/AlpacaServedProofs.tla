------------------------- MODULE AlpacaServedProofs -------------------------
(***************************************************************************)
(* More theorems about AlpacaRoutes: under which numbers the devices are   *)
(* served, how many routes that takes, and that the startup ends.          *)
(***************************************************************************)
EXTENDS AlpacaRoutesProofs, FiniteSetTheorems, Descent

-----------------------------------------------------------------------------
(* The places of the devices.                                              *)

OfType(type, n) == {e \in 1 .. n : TypeOf(e) = type}

LEMMA CountOfType ==
  ASSUME NEW type, NEW n \in Nat
  PROVE  /\ Cardinality(OfType(type, n)) \in Nat
         /\ Cardinality(OfType(type, n + 1)) =
              Cardinality(OfType(type, n)) + IF TypeOf(n + 1) = type THEN 1 ELSE 0
<1>1. IsFiniteSet(1 .. n)
  BY FS_Interval
<1>2. IsFiniteSet(OfType(type, n))
  BY <1>1, FS_Subset DEF OfType
<1>3. CASE TypeOf(n + 1) = type
  <2>1. OfType(type, n + 1) = OfType(type, n) \cup {n + 1} /\ n + 1 \notin OfType(type, n)
    BY <1>3 DEF OfType
  <2> QED
    BY <1>2, <1>3, <2>1, FS_AddElement, FS_CardinalityType
<1>4. CASE TypeOf(n + 1) # type
  <2>1. OfType(type, n + 1) = OfType(type, n)
    BY <1>4 DEF OfType
  <2> QED
    BY <1>2, <1>4, <2>1, FS_CardinalityType
<1> QED
  BY <1>3, <1>4

LEMMA PlaceOf == \A d : Place(d) = Cardinality(OfType(TypeOf(d), d))
BY DEF Place, OfType

\* Every device sorted so far stands at its place, and so it did in what a client
\* has learned.
Placed ==
  /\ \A type \in DeviceTypes : Len(byType[type]) = Cardinality(OfType(type, added))
  /\ \A d \in 1 .. added :
       Place(d) \in DOMAIN byType[TypeOf(d)] /\ byType[TypeOf(d)][Place(d)] = d
  /\ learned # None => \A d \in Devices :
       Place(d) \in DOMAIN learned[TypeOf(d)] /\ learned[TypeOf(d)][Place(d)] = d

LEMMA PlacedInit == Init => Placed
<1>1. \A type : Cardinality(OfType(type, 0)) = 0
  <2>1. \A type : OfType(type, 0) = {}
    BY DEF OfType
  <2> QED
    BY <2>1, FS_EmptySet
<1> QED
  BY <1>1 DEF Init, NoDevices, Placed

LEMMA PlacedStep == TypeOK /\ Sorted /\ Placed /\ [Next]_vars => Placed'
<1> SUFFICES ASSUME TypeOK, Sorted, Placed, [Next]_vars PROVE Placed'
  OBVIOUS
<1>1. CASE Construct
  <2> DEFINE d == added + 1
  <2>1. d \in Devices /\ TypeOf(d) \in DeviceTypes /\ added \in Nat
    BY <1>1, DevicesAre DEF Construct, TypeOK, Length
  <2>2. /\ added' = d /\ UNCHANGED learned
        /\ byType' = [byType EXCEPT ![TypeOf(d)] = Append(@, d)]
    BY <1>1 DEF Construct
  <2> DEFINE n == Len(byType[TypeOf(d)])
  <2>3. /\ n \in Nat /\ DOMAIN byType[TypeOf(d)] = 1 .. n
        /\ DOMAIN byType'[TypeOf(d)] = 1 .. n + 1 /\ Len(byType'[TypeOf(d)]) = n + 1
        /\ byType'[TypeOf(d)][n + 1] = d
        /\ \A i \in 1 .. n : byType'[TypeOf(d)][i] = byType[TypeOf(d)][i]
    BY <2>1, <2>2 DEF TypeOK
  <2>4. \A type \in DeviceTypes : type # TypeOf(d) => byType'[type] = byType[type]
    BY <2>1, <2>2 DEF TypeOK
  <2>5. n + 1 = Cardinality(OfType(TypeOf(d), d))
    BY <2>1, CountOfType DEF Placed
  <2>6. Place(d) = n + 1
    BY <2>5, PlaceOf
  <2>7. \A type \in DeviceTypes : type # TypeOf(d) =>
          Cardinality(OfType(type, d)) = Cardinality(OfType(type, added))
    BY <2>1, CountOfType
  <2> HIDE DEF d, n
  <2>8. \A type \in DeviceTypes : Len(byType'[type]) = Cardinality(OfType(type, added'))
    BY <2>2, <2>3, <2>4, <2>5, <2>7 DEF Placed
  <2>9. ASSUME NEW e \in 1 .. added'
        PROVE  Place(e) \in DOMAIN byType'[TypeOf(e)] /\ byType'[TypeOf(e)][Place(e)] = e
    <3>1. CASE e = d
      BY <2>3, <2>6, <3>1
    <3>2. CASE e # d
      <4>1. e \in 1 .. added
        BY <2>1, <2>2, <2>9, <3>2 DEF d
      <4>2. e \in Devices
        BY <2>1, <4>1, DevicesAre DEF TypeOK, Length
      <4>3. TypeOf(e) \in DeviceTypes
        BY <4>2, DevicesAre
      <4>4. Place(e) \in DOMAIN byType[TypeOf(e)] /\ byType[TypeOf(e)][Place(e)] = e
        BY <4>1 DEF Placed
      <4> QED
        BY <2>3, <2>4, <4>3, <4>4
    <3> QED
      BY <3>1, <3>2
  <2> QED
    BY <2>2, <2>8, <2>9 DEF Placed
<1>2. ASSUME NEW s \in Servers, List(s) PROVE Placed'
  <2>1. added = Length /\ learned' = byType /\ UNCHANGED <<added, byType>>
    BY <1>2 DEF List, Sorted
  <2> QED
    BY <2>1, DevicesAre DEF Placed
<1>3. CASE Restart
  <2>1. \A type : Cardinality(OfType(type, 0)) = 0
    <3>1. \A type : OfType(type, 0) = {}
      BY DEF OfType
    <3> QED
      BY <3>1, FS_EmptySet
  <2> QED
    BY <1>3, <2>1 DEF Restart, NoDevices, Placed
<1>4. CASE UNCHANGED <<added, byType, learned>>
  BY <1>4 DEF Placed
<1>5. Construct \/ Restart \/ (\E s \in Servers : List(s)) \/ UNCHANGED <<added, byType, learned>>
  BY DEF Next, Startup, Begin, ClearId, WriteId, EndIds, RegisterManagement, RegisterDevice,
         Abort, End, Serve, vars
<1> QED
  BY <1>1, <1>2, <1>3, <1>4, <1>5

LEMMA PlacedInvariant == Spec => [](TypeOK /\ Sorted /\ Placed)
BY PlacedInit, PlacedStep, SortedInvariant, PTL DEF Spec

\* What stands at a position has that place.
LEMMA AtItsPlace ==
  ASSUME TypeOK, Sorted, Placed,
         NEW type \in DeviceTypes, NEW i \in DOMAIN byType[type]
  PROVE  /\ byType[type][i] \in Devices
         /\ TypeOf(byType[type][i]) = type /\ Place(byType[type][i]) = i
<1> DEFINE d == byType[type][i]
<1>1. d \in Devices /\ TypeOf(d) = type /\ d <= added
  BY DEF TypeOK, Sorted
<1>2. d \in 1 .. added
  BY <1>1, DevicesAre DEF TypeOK
<1>3. Place(d) \in DOMAIN byType[type] /\ byType[type][Place(d)] = d
  BY <1>1, <1>2 DEF Placed
<1> QED
  BY <1>1, <1>3 DEF Sorted

\* The numbers a client learned lead to the same devices after any restart, for
\* any list of devices.
THEOREM NumbersHold == Spec => []NumbersSurvive
<1>1. TypeOK /\ Sorted /\ Placed => NumbersSurvive
  <2> SUFFICES ASSUME TypeOK, Sorted, Placed, learned # None,
                      NEW type \in DeviceTypes, NEW i \in DOMAIN byType[type]
               PROVE  i \in DOMAIN learned[type] /\ byType[type][i] = learned[type][i]
    BY DEF NumbersSurvive
  <2>1. /\ byType[type][i] \in Devices
        /\ TypeOf(byType[type][i]) = type /\ Place(byType[type][i]) = i
    BY AtItsPlace
  <2> QED
    BY <2>1 DEF Placed
<1> QED
  BY <1>1, PlacedInvariant, PTL

-----------------------------------------------------------------------------
(* There are finitely many routes.                                         *)

LEMMA FiniteUnions ==
  \A S, T : IsFiniteSet(S) /\ IsFiniteSet(T) => IsFiniteSet(S \cup T)
BY FS_Union

LEMMA FewNames ==
  /\ \A a : IsFiniteSet({a})
  /\ \A a, b : IsFiniteSet({a, b})
  /\ \A a, b, c : IsFiniteSet({a, b, c})
  /\ \A a, b, c, d : IsFiniteSet({a, b, c, d})
  /\ \A a, b, c, d, e : IsFiniteSet({a, b, c, d, e})
<1>1. \A a : IsFiniteSet({a})
  BY FS_Singleton
<1>2. ASSUME NEW a, NEW b PROVE IsFiniteSet({a, b})
  <2>1. IsFiniteSet({a} \cup {b})
    BY <1>1, FiniteUnions
  <2>2. {a, b} = {a} \cup {b}
    OBVIOUS
  <2> QED
    BY <2>1, <2>2, Zenon
<1>3. ASSUME NEW a, NEW b, NEW c PROVE IsFiniteSet({a, b, c})
  <2>1. IsFiniteSet({a, b} \cup {c})
    BY <1>1, <1>2, FiniteUnions
  <2>2. {a, b, c} = {a, b} \cup {c}
    OBVIOUS
  <2> QED
    BY <2>1, <2>2, Zenon
<1>4. ASSUME NEW a, NEW b, NEW c, NEW d PROVE IsFiniteSet({a, b, c, d})
  <2>1. IsFiniteSet({a, b} \cup {c, d})
    BY <1>2, FiniteUnions
  <2>2. {a, b, c, d} = {a, b} \cup {c, d}
    OBVIOUS
  <2> QED
    BY <2>1, <2>2, Zenon
<1>5. ASSUME NEW a, NEW b, NEW c, NEW d, NEW e PROVE IsFiniteSet({a, b, c, d, e})
  <2>1. IsFiniteSet({a, b} \cup {c, d, e})
    BY <1>2, <1>3, FiniteUnions
  <2>2. {a, b, c, d, e} = {a, b} \cup {c, d, e}
    OBVIOUS
  <2> QED
    BY <2>1, <2>2, Zenon
<1> QED
  BY <1>1, <1>2, <1>3, <1>4, <1>5

LEMMA FiniteGroups ==
  ASSUME NEW type
  PROVE  /\ \A names, value : IsFiniteSet(names) => IsFiniteSet(Gets(type, names, value))
         /\ \A names : IsFiniteSet(names) => IsFiniteSet(Commands(type, names))
         /\ \A name, params : IsFiniteSet(Put(type, name, params))
         /\ \A verb, name, params, value : IsFiniteSet({Endpoint(type, verb, name, params, value)})
<1>1. ASSUME NEW names, NEW value, IsFiniteSet(names) PROVE IsFiniteSet(Gets(type, names, value))
  <2> DEFINE f == [n \in names |-> Endpoint(type, "GET", n, <<>>, value)]
  <2>1. f \in Surjection(names, Gets(type, names, value))
    BY DEF Surjection, Gets
  <2> QED
    BY <1>1, <2>1, FS_Surjection
<1>2. ASSUME NEW names, IsFiniteSet(names) PROVE IsFiniteSet(Commands(type, names))
  <2> DEFINE f == [n \in names |-> Endpoint(type, "PUT", n, <<>>, "none")]
  <2>1. f \in Surjection(names, Commands(type, names))
    BY DEF Surjection, Commands
  <2> QED
    BY <1>2, <2>1, FS_Surjection
<1> QED
  BY <1>1, <1>2, FS_Singleton DEF Put

LEMMA FiniteEndpoints ==
  ASSUME NEW type \in DeviceTypes
  PROVE  IsFiniteSet(EndpointsOf[type])
<1> USE FewNames, FiniteGroups, FiniteUnions
<1>1. IsFiniteSet(Common(type))
  <2>1. IsFiniteSet(CommonCommands(type))
    BY DEF CommonCommands
  <2>2. IsFiniteSet(CommonConnected(type))
    BY DEF CommonConnected
  <2>3. IsFiniteSet(CommonInfo(type))
    BY DEF CommonInfo
  <2> QED
    BY <2>1, <2>2, <2>3 DEF Common
<1>2. IsFiniteSet(CoverCalibratorState \cup CoverCalibratorCommands)
  BY DEF CoverCalibratorState, CoverCalibratorCommands
<1>3. IsFiniteSet(DomePosition \cup DomeAbilities \cup DomeMoreAbilities \cup DomeStatus
                    \cup DomeCommands \cup DomeMotion)
  <2>1. IsFiniteSet(DomePosition) /\ IsFiniteSet(DomeAbilities) /\ IsFiniteSet(DomeMoreAbilities)
    BY DEF DomePosition, DomeAbilities, DomeMoreAbilities
  <2>2. IsFiniteSet(DomeStatus) /\ IsFiniteSet(DomeCommands)
    BY DEF DomeStatus, DomeCommands
  <2>3. IsFiniteSet(DomeMotion)
    <3>1. UNION {Put("dome", n, <<Param("Azimuth", "real")>>) : n \in {"slewtoazimuth", "synctoazimuth"}}
            = Put("dome", "slewtoazimuth", <<Param("Azimuth", "real")>>)
                \cup Put("dome", "synctoazimuth", <<Param("Azimuth", "real")>>)
      OBVIOUS
    <3> QED
      BY <3>1 DEF DomeMotion
  <2> QED
    BY <2>1, <2>2, <2>3
<1>4. IsFiniteSet(FilterWheel)
  BY DEF FilterWheel
<1>5. IsFiniteSet(FocuserLimits \cup FocuserState \cup FocuserMotion)
  BY DEF FocuserLimits, FocuserState, FocuserMotion
<1>6. IsFiniteSet(ObservingAverages \cup ObservingAir \cup ObservingSky \cup ObservingWind
                    \cup ObservingSensors)
  BY DEF ObservingAverages, ObservingAir, ObservingSky, ObservingWind, ObservingSensors
<1>7. IsFiniteSet(RotatorPosition \cup RotatorState \cup RotatorMotion \cup RotatorCalibration)
  <2> DEFINE Moving(n) == Put("rotator", n, <<Param("Position", "real")>>)
  <2>1. /\ UNION {Moving(n) : n \in {"move", "moveabsolute"}} = Moving("move") \cup Moving("moveabsolute")
        /\ UNION {Moving(n) : n \in {"movemechanical", "sync"}} = Moving("movemechanical") \cup Moving("sync")
    OBVIOUS
  <2>2. \A n : IsFiniteSet(Moving(n))
    OBVIOUS
  <2> HIDE DEF Moving
  <2>3. /\ IsFiniteSet(UNION {Moving(n) : n \in {"move", "moveabsolute"}})
        /\ IsFiniteSet(UNION {Moving(n) : n \in {"movemechanical", "sync"}})
    <3>1. /\ IsFiniteSet(Moving("move") \cup Moving("moveabsolute"))
          /\ IsFiniteSet(Moving("movemechanical") \cup Moving("sync"))
      BY <2>2
    <3> QED
      BY <2>1, <3>1, Zenon
  <2>4. IsFiniteSet(RotatorMotion) /\ IsFiniteSet(RotatorCalibration)
    BY <2>3 DEF RotatorMotion, RotatorCalibration, Moving
  <2> QED
    BY <2>4 DEF RotatorPosition, RotatorState
<1>8. IsFiniteSet(SafetyMonitor)
  BY DEF SafetyMonitor
<1>9. IsFiniteSet(SwitchState \cup SwitchTexts \cup SwitchRange \cup SwitchSetters \cup SwitchStep)
  <2>1. \A name, value : IsFiniteSet(SwitchGet(name, value))
    BY DEF SwitchGet
  <2>2. UNION {SwitchGet(n, "number") : n \in {"getswitchvalue", "minswitchvalue", "maxswitchvalue"}}
          = SwitchGet("getswitchvalue", "number") \cup SwitchGet("minswitchvalue", "number")
              \cup SwitchGet("maxswitchvalue", "number")
    OBVIOUS
  <2>3. IsFiniteSet(SwitchState) /\ IsFiniteSet(SwitchTexts) /\ IsFiniteSet(SwitchRange)
    <3>1. IsFiniteSet(SwitchGet("getswitchvalue", "number") \cup SwitchGet("minswitchvalue", "number")
                        \cup SwitchGet("maxswitchvalue", "number"))
      BY <2>1
    <3>2. IsFiniteSet(SwitchRange)
      BY <2>2, <3>1, Zenon DEF SwitchRange
    <3> QED
      BY <2>1, <3>2 DEF SwitchState, SwitchTexts
  <2>4. IsFiniteSet(SwitchSetters) /\ IsFiniteSet(SwitchStep)
    BY <2>1 DEF SwitchSetters, SwitchStep
  <2> QED
    BY <2>3, <2>4
<1>10. IsFiniteSet({})
  BY FS_EmptySet
<1> QED
  BY <1>1, <1>2, <1>3, <1>4, <1>5, <1>6, <1>7, <1>8, <1>9, <1>10 DEF EndpointsOf, DeviceTypes

RoutesOf(d) == DeviceRoutes(TypeOf(d), Place(d) - 1)

LEMMA WantedFinite == IsFiniteSet(WantedRoutes)
<1>1. ASSUME NEW type \in DeviceTypes, NEW n PROVE IsFiniteSet(DeviceRoutes(type, n))
  <2> DEFINE f == [e \in EndpointsOf[type] |-> Route(type, n, e)]
  <2>1. f \in Surjection(EndpointsOf[type], DeviceRoutes(type, n))
    BY DEF Surjection, DeviceRoutes
  <2> QED
    BY <2>1, FiniteEndpoints, FS_Surjection
<1>2. IsFiniteSet(ManagementRoutes)
  <2> DEFINE f == [e \in ManagementEndpoints |-> Route("management", 0, e)]
  <2>1. f \in Surjection(ManagementEndpoints, ManagementRoutes)
    BY DEF Surjection, ManagementRoutes
  <2>2. IsFiniteSet(ManagementEndpoints)
    BY FewNames DEF ManagementEndpoints
  <2> QED
    BY <2>1, <2>2, FS_Surjection
<1>3. IsFiniteSet(RoutesTo(Devices))
  <2> DEFINE all == {RoutesOf(d) : d \in Devices}
             f == [d \in Devices |-> RoutesOf(d)]
  <2>1. f \in Surjection(Devices, all)
    BY DEF Surjection
  <2>2. IsFiniteSet(Devices)
    BY DevicesAre, FS_Interval
  <2>3. IsFiniteSet(all)
    BY <2>1, <2>2, FS_Surjection
  <2>4. \A S \in all : IsFiniteSet(S)
    BY <1>1, DevicesAre DEF RoutesOf
  <2>5. RoutesTo(Devices) = UNION all
    BY DEF RoutesTo, RoutesOf
  <2> HIDE DEF all
  <2> QED
    BY <2>3, <2>4, <2>5, FS_UNION
<1> QED
  BY <1>2, <1>3, FiniteUnions DEF WantedRoutes

-----------------------------------------------------------------------------
(* What is registered at each point of register_routes.                    *)

Behind == {d \in Devices : Place(d) <= done[TypeOf(d)]}
Complete(s) == routes[s] = {} \/ routes[s] = WantedRoutes

Registered ==
  /\ phase \in {"main", "serve"} => \A s \in Servers : Complete(s)
  /\ phase \in {"ids", "management", "devices"} => \A s \in Servers \ {current} : Complete(s)
  /\ phase \in {"ids", "management"} => routes[current] = {}
  /\ phase = "devices" => routes[current] = ManagementRoutes \cup RoutesTo(Behind)
  /\ phase = "management" => done = NoneDone
  /\ phase = "serve" => \A s \in Servers : routes[s] # {}

Known == TypeOK /\ Sorted /\ Placed

LEMMA RoutesApart ==
  /\ \A d, e \in Devices : RoutesOf(d) \cap RoutesOf(e) # {} => TypeOf(d) = TypeOf(e) /\ Place(d) = Place(e)
  /\ \A d \in Devices : RoutesOf(d) \cap ManagementRoutes = {}
<1>0. \A d \in Devices : Place(d) \in Nat
  <2>1. \A d \in Nat : Place(d) \in Nat
    BY CountOfType, PlaceOf
  <2> QED
    BY <2>1, DevicesAre
<1>1. ASSUME NEW d \in Devices, NEW route \in RoutesOf(d)
      PROVE  route.type = TypeOf(d) /\ route.number = Place(d) - 1
  BY <1>1 DEF RoutesOf, DeviceRoutes, Route
<1>2. \A route \in ManagementRoutes : route.type \notin DeviceTypes
  BY DEF ManagementRoutes, Route, DeviceTypes
<1> QED
  BY <1>0, <1>1, <1>2, DevicesAre

\* The next device of a loop, and its routes.
LEMMA AtTheCursor ==
  ASSUME Known, added = Length, NEW type \in DeviceTypes, AtCursor(type)
  PROVE  \E d \in Devices :
           /\ TypeOf(d) = type /\ Place(d) = done[type] + 1 /\ d \notin Behind
           /\ DeviceRoutes(type, done[type]) = RoutesOf(d)
           /\ \A e \in Devices : TypeOf(e) = type /\ Place(e) = done[type] + 1 => e = d
<1> DEFINE d == byType[type][done[type] + 1]
<1>1. done[type] \in Nat /\ done[type] + 1 \in DOMAIN byType[type]
  BY AtCursorType DEF Known
<1>2. d \in Devices /\ TypeOf(d) = type /\ Place(d) = done[type] + 1
  BY <1>1, AtItsPlace DEF Known
<1>3. d \notin Behind
  BY <1>1, <1>2 DEF Behind
<1>4. DeviceRoutes(type, done[type]) = RoutesOf(d)
  <2>1. Place(d) - 1 = done[type]
    BY <1>1, <1>2
  <2> QED
    BY <1>2, <2>1 DEF RoutesOf
<1>5. ASSUME NEW e \in Devices, TypeOf(e) = type, Place(e) = done[type] + 1 PROVE e = d
  BY <1>5, DevicesAre DEF Known, Placed
<1> QED
  BY <1>2, <1>3, <1>4, <1>5

\* What is registered so far and what comes next do not overlap.
LEMMA NextRoutes ==
  ASSUME Known, Registered, phase = "devices", NEW type \in DeviceTypes, AtCursor(type)
  PROVE  /\ routes[current] \cap DeviceRoutes(type, done[type]) = {}
         /\ routes[current] \cup DeviceRoutes(type, done[type]) \subseteq WantedRoutes
<1>1. added = Length
  BY DEF Known, Sorted
<1>2. PICK d \in Devices :
        /\ TypeOf(d) = type /\ Place(d) = done[type] + 1 /\ d \notin Behind
        /\ DeviceRoutes(type, done[type]) = RoutesOf(d)
        /\ \A e \in Devices : TypeOf(e) = type /\ Place(e) = done[type] + 1 => e = d
  BY <1>1, AtTheCursor
<1>3. \A e \in Behind : RoutesOf(e) \cap RoutesOf(d) = {}
  BY <1>2, RoutesApart DEF Behind
<1>4. routes[current] = ManagementRoutes \cup UNION {RoutesOf(e) : e \in Behind}
  BY DEF Registered, RoutesTo, RoutesOf
<1>5. WantedRoutes = ManagementRoutes \cup UNION {RoutesOf(e) : e \in Devices}
  BY DEF WantedRoutes, RoutesTo, RoutesOf
<1>6. RoutesOf(d) \cap ManagementRoutes = {} /\ Behind \subseteq Devices
  BY RoutesApart DEF Behind
<1> QED
  BY <1>2, <1>3, <1>4, <1>5, <1>6

LEMMA AllPlaced ==
  ASSUME Known, added = Length, NEW d \in Devices
  PROVE  /\ Place(d) \in Nat /\ Place(d) >= 1 /\ Place(d) <= Len(byType[TypeOf(d)])
         /\ byType[TypeOf(d)][Place(d)] = d
<1>1. d \in 1 .. added /\ TypeOf(d) \in DeviceTypes
  BY DevicesAre
<1>2. Place(d) \in DOMAIN byType[TypeOf(d)] /\ byType[TypeOf(d)][Place(d)] = d
  BY <1>1 DEF Known, Placed
<1>3. DOMAIN byType[TypeOf(d)] = 1 .. Len(byType[TypeOf(d)]) /\ Len(byType[TypeOf(d)]) \in Nat
  BY <1>1 DEF Known, TypeOK
<1> QED
  BY <1>2, <1>3

LEMMA RegisteredStep == Known /\ Registered /\ [Next]_vars => Registered'
<1> SUFFICES ASSUME Known, Registered, [Next]_vars PROVE Registered'
  OBVIOUS
<1>0. DOMAIN routes = Servers /\ done \in [DeviceTypes -> Nat]
  BY DEF Known, TypeOK
<1>1. CASE Construct
  BY <1>1 DEF Construct, loopVars, Registered, Complete
<1>2. ASSUME NEW s \in Servers, Begin(s) PROVE Registered'
  BY <1>2 DEF Begin, Registered, Complete
<1>3. ASSUME NEW type \in DeviceTypes, ClearId(type) \/ WriteId(type) PROVE Registered'
  <2>1. phase = "ids" /\ UNCHANGED <<phase, current, routes>>
    BY <1>3 DEF ClearId, WriteId, loopVars
  <2> QED
    BY <2>1 DEF Registered, Complete
<1>4. CASE EndIds
  BY <1>4 DEF EndIds, Registered, Complete
<1>5. CASE RegisterManagement
  <2>1. /\ phase = "management" /\ phase' = "devices" /\ UNCHANGED <<current, done>>
        /\ routes' = [routes EXCEPT ![current] = @ \cup ManagementRoutes]
        /\ current \in Servers
    BY <1>5 DEF RegisterManagement, Known, TypeOK
  <2>2. routes'[current] = ManagementRoutes /\ \A s \in Servers \ {current} : routes'[s] = routes[s]
    BY <1>0, <2>1 DEF Registered
  <2>3. Behind' = {}
    <3>1. \A d \in Devices : TypeOf(d) \in DeviceTypes /\ Place(d) \in Nat /\ Place(d) >= 1
      BY AllPlaced, <2>1, DevicesAre DEF Known, Sorted
    <3>2. \A d \in Devices : done'[TypeOf(d)] = 0
      BY <2>1, <3>1 DEF Registered, NoneDone
    <3> QED
      BY <3>1, <3>2 DEF Behind
  <2> QED
    BY <2>1, <2>2, <2>3 DEF Registered, Complete, RoutesTo
<1>6. ASSUME NEW type \in DeviceTypes, RegisterDevice(type) PROVE Registered'
  <2> DEFINE new == DeviceRoutes(type, done[type])
  <2>1. /\ phase = "devices" /\ AtCursor(type) /\ UNCHANGED <<phase, current>>
        /\ routes' = [routes EXCEPT ![current] = @ \cup new]
        /\ done' = [done EXCEPT ![type] = @ + 1]
        /\ current \in Servers /\ added = Length
    BY <1>6 DEF RegisterDevice, Known, TypeOK, Sorted
  <2>2. PICK d \in Devices :
          /\ TypeOf(d) = type /\ Place(d) = done[type] + 1 /\ d \notin Behind
          /\ new = RoutesOf(d)
          /\ \A e \in Devices : TypeOf(e) = type /\ Place(e) = done[type] + 1 => e = d
    BY <2>1, AtTheCursor
  <2>3. Behind' = Behind \cup {d}
    <3>1. \A e \in Devices : TypeOf(e) \in DeviceTypes /\ Place(e) \in Nat
      BY <2>1, AllPlaced, DevicesAre DEF Known
    <3>2. \A e \in Devices : done'[TypeOf(e)] = IF TypeOf(e) = type THEN done[type] + 1 ELSE done[TypeOf(e)]
      BY <1>0, <2>1, <3>1
    <3>3. \A e \in Devices : e \in Behind' <=> Place(e) <= done'[TypeOf(e)]
      BY DEF Behind
    <3>4. \A e \in Devices : e \in Behind' <=> e \in Behind \/ e = d
      BY <1>0, <2>2, <3>1, <3>2, <3>3 DEF Behind
    <3>5. Behind' \subseteq Devices /\ Behind \subseteq Devices
      BY DEF Behind
    <3> QED
      BY <3>4, <3>5, <2>2
  <2> HIDE DEF new
  <2>4. RoutesTo(Behind') = RoutesTo(Behind) \cup new
    BY <2>2, <2>3 DEF RoutesTo, RoutesOf
  <2>5. routes'[current] = ManagementRoutes \cup RoutesTo(Behind')
    BY <1>0, <2>1, <2>4 DEF Registered
  <2>6. \A s \in Servers \ {current} : routes'[s] = routes[s]
    BY <1>0, <2>1
  <2> QED
    BY <2>1, <2>5, <2>6 DEF Registered, Complete
<1>7. CASE Abort
  BY <1>7 DEF Abort, Registered
<1>8. CASE End
  <2>1. /\ phase = "devices" /\ phase' = "main" /\ added = Length /\ UNCHANGED routes
        /\ AllDone /\ current \in Servers
    BY <1>8 DEF End, Known, Sorted, TypeOK
  <2>2. Behind = Devices
    BY <1>0, <2>1, AllPlaced, DevicesAre DEF Known, AllDone, Behind, TypeOK
  <2>3. \A s \in Servers : Complete(s)
    BY <2>1, <2>2 DEF Registered, Complete, WantedRoutes
  <2> QED
    BY <2>1, <2>3 DEF Registered, Complete
<1>9. CASE Serve
  BY <1>9 DEF Serve, Registered, Complete
<1>10. ASSUME NEW s \in Servers, List(s) PROVE Registered'
  BY <1>10 DEF List, loopVars, Registered, Complete, Behind
<1>11. CASE Restart
  BY <1>11 DEF Restart, Registered, Complete
<1>12. CASE UNCHANGED vars
  BY <1>12 DEF vars, loopVars, Registered, Complete, Behind
<1> QED
  BY <1>1, <1>2, <1>3, <1>4, <1>5, <1>6, <1>7, <1>8, <1>9, <1>10, <1>11, <1>12 DEF Next, Startup

LEMMA RegisteredInvariant == Spec => [](Known /\ Registered)
<1>1. Init => Registered
  BY DEF Init, Registered, Complete
<1>2. Spec => []Known
  BY PlacedInvariant, PTL DEF Known
<1> QED
  BY <1>1, <1>2, RegisteredStep, PTL DEF Spec

-----------------------------------------------------------------------------
\* A startup that aborts was short of routes on some server: no route is ever
\* registered twice.
THEOREM AbortsNeedFull == Spec => []AbortsOnlyWhenFull
<1>1. Init => AbortsOnlyWhenFull
  BY DEF Init, AbortsOnlyWhenFull
<1>2. Known /\ Registered /\ AbortsOnlyWhenFull /\ [Next]_vars => AbortsOnlyWhenFull'
  <2> SUFFICES ASSUME Known, Registered, AbortsOnlyWhenFull, [Next]_vars
               PROVE  AbortsOnlyWhenFull'
    OBVIOUS
  <2>0. UNCHANGED slots
    BY DEF Next, Startup, Construct, Begin, ClearId, WriteId, EndIds, RegisterManagement,
           RegisterDevice, Abort, End, Serve, List, Restart, vars, loopVars
  <2>1. CASE ~Abort
    <3>1. phase' = "abort" => phase = "abort"
      BY <2>1 DEF Next, Startup, Construct, Begin, ClearId, WriteId, EndIds, RegisterManagement,
                  RegisterDevice, End, Serve, List, Restart, vars, loopVars
    <3> QED
      BY <2>0, <3>1 DEF AbortsOnlyWhenFull
  <2>2. CASE Abort
    <3>1. current \in Servers /\ slots[current] \in Nat
      BY <2>2, BoundAssumption DEF Abort, Known, TypeOK
    <3>2. ASSUME NEW new, routes[current] \cap new = {}, routes[current] \cup new \subseteq WantedRoutes,
                 ~Accepts(new)
          PROVE  slots[current] < RoutesNeeded
      <4>1. IsFiniteSet(routes[current]) /\ IsFiniteSet(new)
        BY <3>2, WantedFinite, FS_Subset
      <4>2. Cardinality(routes[current] \cup new) = Cardinality(routes[current]) + Cardinality(new)
        <5>1. Cardinality(routes[current] \cap new) = 0
          BY <3>2, FS_EmptySet
        <5>2. Cardinality(routes[current]) \in Nat /\ Cardinality(new) \in Nat
          BY <4>1, FS_CardinalityType
        <5>3. Cardinality(routes[current] \cup new)
                = Cardinality(routes[current]) + Cardinality(new) - Cardinality(routes[current] \cap new)
          BY <4>1, FS_Union
        <5> QED
          BY <5>1, <5>2, <5>3
      <4>3. Cardinality(routes[current] \cup new) <= RoutesNeeded
        BY <3>2, WantedFinite, FS_Subset DEF RoutesNeeded
      <4>4. /\ Cardinality(routes[current]) \in Nat /\ Cardinality(new) \in Nat
            /\ RoutesNeeded \in Nat
        BY <4>1, WantedFinite, FS_CardinalityType DEF RoutesNeeded
      <4>5. ~(Cardinality(routes[current]) + Cardinality(new) <= slots[current])
        BY <3>2 DEF Accepts
      <4> QED
        BY <3>1, <4>2, <4>3, <4>4, <4>5
    <3>3. CASE phase = "management" /\ ~Accepts(ManagementRoutes)
      <4>1. routes[current] = {} /\ ManagementRoutes \subseteq WantedRoutes
        BY <3>3 DEF Registered, WantedRoutes
      <4>2. slots[current] < RoutesNeeded
        BY <3>2, <3>3, <4>1
      <4> QED
        BY <2>0, <3>1, <4>2 DEF AbortsOnlyWhenFull
    <3>4. ASSUME phase = "devices", NEW type \in DeviceTypes, AtCursor(type),
                 ~Accepts(DeviceRoutes(type, done[type]))
          PROVE  AbortsOnlyWhenFull'
      <4>1. slots[current] < RoutesNeeded
        BY <3>2, <3>4, NextRoutes
      <4> QED
        BY <2>0, <3>1, <4>1 DEF AbortsOnlyWhenFull
    <3> QED
      BY <2>2, <3>3, <3>4 DEF Abort
  <2> QED
    BY <2>1, <2>2
<1> QED
  BY <1>1, <1>2, RegisteredInvariant, PTL DEF Spec

\* Once the application serves, the routes on every server are those to each
\* endpoint of each device, and each leads to that device: up to 256 devices, for
\* the number in a route is read into a byte.
THEOREM EveryDeviceServed == Length <= 256 => (Spec => []EveryDeviceIsServed)
<1> SUFFICES ASSUME Length <= 256 PROVE Spec => []EveryDeviceIsServed
  OBVIOUS
<1>1. Known /\ Registered => EveryDeviceIsServed
  <2> SUFFICES ASSUME Known, Registered, phase = "serve", NEW s \in Servers
               PROVE  /\ \A d \in Devices : \A e \in EndpointsOf[TypeOf(d)] :
                           \E n \in 0 .. Len(DeviceList) :
                             /\ Route(TypeOf(d), n, e) \in routes[s]
                             /\ Dispatch(Route(TypeOf(d), n, e)) = d
                      /\ Cardinality(routes[s]) = RoutesNeeded
    BY DEF EveryDeviceIsServed
  <2>1. added = Length /\ routes[s] = WantedRoutes
    BY DEF Known, Sorted, Registered, Complete
  <2>2. ASSUME NEW d \in Devices, NEW e \in EndpointsOf[TypeOf(d)]
        PROVE  \E n \in 0 .. Len(DeviceList) :
                 /\ Route(TypeOf(d), n, e) \in routes[s]
                 /\ Dispatch(Route(TypeOf(d), n, e)) = d
    <3> DEFINE n == Place(d) - 1
               places == byType[TypeOf(d)]
    <3>1. Place(d) \in Nat /\ Place(d) >= 1 /\ Place(d) <= Len(places) /\ places[Place(d)] = d
      BY <2>1, AllPlaced
    <3>2. TypeOf(d) \in DeviceTypes /\ Length \in Nat
      BY DevicesAre
    <3>3. Len(places) \in Nat /\ Len(places) <= Length
      BY <2>1, <3>2 DEF Known, Sorted, TypeOK
    <3>4. n \in 0 .. Length /\ n % 256 = n /\ n < Len(places) /\ n + 1 = Place(d)
      <4> HIDE DEF places
      <4>1. n \in Nat /\ n < Len(places) /\ n + 1 = Place(d)
        BY <3>1, <3>3
      <4> HIDE DEF n
      <4>2. n \in 0 .. Length /\ n < 256
        BY <3>2, <3>3, <4>1
      <4> QED
        BY <4>1, <4>2
    <3> HIDE DEF n, places
    <3>5. Route(TypeOf(d), n, e) \in RoutesTo(Devices)
      BY DEF RoutesTo, DeviceRoutes, n
    <3>6. Dispatch(Route(TypeOf(d), n, e)) = places[n + 1]
      BY <3>4 DEF Dispatch, Route, places
    <3> QED
      BY <2>1, <3>1, <3>4, <3>5, <3>6 DEF WantedRoutes, Length
  <2> QED
    BY <2>1, <2>2 DEF RoutesNeeded
<1> QED
  BY <1>1, RegisteredInvariant, PTL

-----------------------------------------------------------------------------
(* The startup ends.  What a life of the chip has still to do is a finite   *)
(* set of jobs, and every step of app_main takes some away.                 *)

JobNames == {"sort", "begin", "clear", "write", "ids", "management", "device", "end", "serve"}
Jobs == JobNames \X ((Servers \cup {None}) \X (Devices \cup {0}))

\* register_routes has still to be called with s; it works on s.
Ahead == Devices \ Behind
Within(s, phases) == s = current /\ phase \in phases
Waiting(s) == s \in Servers /\ routes[s] = {} /\ ~Within(s, {"ids", "management", "devices"})

ToDo(name, s, d) ==
  \/ name = "sort" /\ d > added
  \/ name = "begin" /\ Waiting(s)
  \/ /\ name = "clear"
     /\ Waiting(s) \/ (Within(s, {"ids"}) /\ d \in Ahead /\ ids[d] # Cleared)
  \/ /\ name = "write"
     /\ Waiting(s) \/ (Within(s, {"ids"}) /\ d \in Ahead)
  \/ name = "ids" /\ (Waiting(s) \/ Within(s, {"ids"}))
  \/ name = "management" /\ (Waiting(s) \/ Within(s, {"ids", "management"}))
  \/ /\ name = "device"
     /\ \/ Waiting(s)
        \/ Within(s, {"ids", "management"})
        \/ Within(s, {"devices"}) /\ d \in Ahead
  \/ name = "end" /\ (Waiting(s) \/ Within(s, {"ids", "management", "devices"}))
  \/ name = "serve" /\ phase # "serve"

Left == {job \in Jobs : ToDo(job[1], job[2][1], job[2][2])}

\* No job is new, and one is done.
Progress ==
  /\ \A name \in JobNames, s \in Servers \cup {None}, d \in Devices \cup {0} :
       ToDo(name, s, d)' => ToDo(name, s, d)
  /\ \E name \in JobNames, s \in Servers \cup {None}, d \in Devices \cup {0} :
       ToDo(name, s, d) /\ ~ToDo(name, s, d)'

LEMMA CursorAhead ==
  ASSUME Known, added = Length, NEW type \in DeviceTypes, AtCursor(type)
  PROVE  \E d \in Ahead : /\ d = CursorDevice(type)
                          /\ TypeOf(d) = type /\ Place(d) = done[type] + 1
                          /\ \A e \in Devices : TypeOf(e) = type /\ Place(e) = done[type] + 1 => e = d
<1> DEFINE d == CursorDevice(type)
<1>1. done[type] \in Nat /\ done[type] + 1 \in DOMAIN byType[type]
  BY AtCursorType DEF Known
<1>2. d \in Devices /\ TypeOf(d) = type /\ Place(d) = done[type] + 1
  BY <1>1, AtItsPlace DEF Known, CursorDevice
<1>3. d \notin Behind
  BY <1>1, <1>2 DEF Behind
<1>4. \A e \in Devices : TypeOf(e) = type /\ Place(e) = done[type] + 1 => e = d
  BY AllPlaced DEF CursorDevice
<1> QED
  BY <1>2, <1>3, <1>4 DEF Ahead

\* What is ahead of a loop that takes one more device.
LEMMA AheadShrinks ==
  ASSUME Known, added = Length, NEW type \in DeviceTypes, AtCursor(type), NEW d,
         d = CursorDevice(type), done' = [done EXCEPT ![type] = @ + 1]
  PROVE  Ahead' = Ahead \ {d}
<1>1. /\ d \in Devices /\ TypeOf(d) = type /\ Place(d) = done[type] + 1
      /\ \A e \in Devices : TypeOf(e) = type /\ Place(e) = done[type] + 1 => e = d
  BY CursorAhead DEF Ahead
<1>2. done[type] \in Nat /\ done \in [DeviceTypes -> Nat]
  BY AtCursorType DEF Known, TypeOK
<1>3. \A e \in Devices : TypeOf(e) \in DeviceTypes /\ Place(e) \in Nat
  BY AllPlaced, DevicesAre
<1>4. \A e \in Devices : done'[TypeOf(e)] = IF TypeOf(e) = type THEN done[type] + 1 ELSE done[TypeOf(e)]
  BY <1>2, <1>3
<1>5. \A e \in Devices : (e \in Ahead' <=> ~(Place(e) <= done'[TypeOf(e)]))
                         /\ (e \in Ahead <=> ~(Place(e) <= done[TypeOf(e)]))
  BY DEF Ahead, Behind
<1>6. \A e \in Devices : e \in Ahead' <=> e \in Ahead /\ e # d
  BY <1>1, <1>2, <1>3, <1>4, <1>5
<1>7. Ahead' \subseteq Devices /\ Ahead \subseteq Devices
  BY DEF Ahead
<1> QED
  BY <1>6, <1>7

LEMMA StartupProgress ==
  ASSUME Known, Registered, Startup, phase' # "abort"
  PROVE  Progress
<1>0. /\ DOMAIN routes = Servers /\ DOMAIN ids = Devices /\ None \notin Servers
      /\ added \in Nat /\ \A d \in Devices : d \in Nat
  BY ServersAssumption, DevicesAre DEF Known, TypeOK
<1>1. CASE Construct
  <2>1. added + 1 \in Devices /\ added' = added + 1
    BY <1>1, DevicesAre DEF Construct, Known, TypeOK, Length
  <2>2. \A name, s, d : name # "sort" => (ToDo(name, s, d)' <=> ToDo(name, s, d))
    BY <1>1 DEF Construct, loopVars, ToDo, Waiting, Within, Ahead, Behind
  <2>3. \A s, d : /\ ToDo("sort", s, d) <=> d > added
                  /\ ToDo("sort", s, d)' <=> d > added'
    BY DEF ToDo
  <2>4. \A name, s : \A d \in Devices \cup {0} : ToDo(name, s, d)' => ToDo(name, s, d)
    BY <1>0, <2>1, <2>2, <2>3
  <2>5. PICK d \in Devices : d = added + 1
    BY <2>1
  <2>6. ToDo("sort", None, d) /\ ~ToDo("sort", None, d)'
    BY <1>0, <2>1, <2>3, <2>5
  <2> QED
    BY <2>4, <2>6 DEF Progress, JobNames
<1>2. ASSUME NEW s \in Servers, Begin(s) PROVE Progress
  <2>1. /\ phase = "main" /\ phase' = "ids" /\ current' = s /\ routes[s] = {}
        /\ UNCHANGED <<added, ids, routes>>
    BY <1>2 DEF Begin
  <2>2. \A q : Waiting(q)' => Waiting(q)
    BY <1>0, <2>1 DEF Waiting, Within
  <2>3. Waiting(s) /\ ~Waiting(s)'
    BY <1>0, <2>1 DEF Waiting, Within
  <2>4. \A name, q, d : ToDo(name, q, d)' => ToDo(name, q, d)
    BY <2>1, <2>2, <2>3 DEF ToDo, Within
  <2>5. ToDo("begin", s, 0) /\ ~ToDo("begin", s, 0)'
    BY <2>3 DEF ToDo
  <2> QED
    BY <2>4, <2>5 DEF Progress, JobNames
<1>3. ASSUME NEW type \in DeviceTypes, ClearId(type) PROVE Progress
  <2>1. /\ phase = "ids" /\ ids[CursorDevice(type)] # Cleared
        /\ ids' = [ids EXCEPT ![CursorDevice(type)] = Cleared]
        /\ UNCHANGED <<loopVars, added, routes>> /\ AtCursor(type)
        /\ current \in Servers /\ added = Length
    BY <1>3 DEF ClearId, Known, TypeOK, Sorted
  <2>2. PICK d \in Ahead : d = CursorDevice(type)
    BY <2>1, CursorAhead
  <2>3. d \in Devices /\ ids[d] # Cleared /\ ids'[d] = Cleared /\ \A e : e # d => ids'[e] = ids[e]
    BY <1>0, <2>1, <2>2 DEF Ahead
  <2>4. UNCHANGED <<phase, current, done, Ahead>>
    BY <2>1 DEF loopVars, Ahead, Behind
  <2>5. \A name, q, e : ToDo(name, q, e)' => ToDo(name, q, e)
    BY <2>1, <2>3, <2>4 DEF ToDo, Within, Waiting
  <2>6. PICK s \in Servers : s = current
    BY <2>1
  <2>7. ToDo("clear", s, d) /\ ~ToDo("clear", s, d)'
    BY <2>1, <2>2, <2>3, <2>4, <2>6 DEF ToDo, Within, Waiting
  <2> QED
    BY <2>3, <2>5, <2>7 DEF Progress, JobNames
<1>4. ASSUME NEW type \in DeviceTypes, WriteId(type) PROVE Progress
  <2>1. /\ phase = "ids" /\ done' = [done EXCEPT ![type] = @ + 1]
        /\ ids' = [ids EXCEPT ![CursorDevice(type)] = UniqueId(CursorDevice(type))]
        /\ UNCHANGED <<phase, current, added, routes>> /\ AtCursor(type)
        /\ current \in Servers /\ added = Length
    BY <1>4 DEF WriteId, Known, TypeOK, Sorted
  <2>2. PICK d \in Ahead : d = CursorDevice(type)
    BY <2>1, CursorAhead
  <2>3. d \in Devices /\ \A e : e # d => ids'[e] = ids[e]
    BY <1>0, <2>1, <2>2 DEF Ahead
  <2>4. Ahead' = Ahead \ {d}
    BY <2>1, <2>2, AheadShrinks
  <2>5. \A name, q, e : ToDo(name, q, e)' => ToDo(name, q, e)
    BY <2>1, <2>3, <2>4 DEF ToDo, Within, Waiting
  <2>6. PICK s \in Servers : s = current
    BY <2>1
  <2>7. ToDo("write", s, d) /\ ~ToDo("write", s, d)'
    BY <2>1, <2>2, <2>3, <2>4, <2>6 DEF ToDo, Within, Waiting
  <2> QED
    BY <2>3, <2>5, <2>7 DEF Progress, JobNames
<1>5. CASE EndIds
  <2>1. /\ phase = "ids" /\ phase' = "management" /\ current \in Servers
        /\ UNCHANGED <<current, added, ids, routes>>
    BY <1>5 DEF EndIds, Known, TypeOK
  <2>2. PICK s \in Servers : s = current
    BY <2>1
  <2>3. \A name, q, e : ToDo(name, q, e)' => ToDo(name, q, e)
    BY <2>1 DEF ToDo, Within, Waiting
  <2>4. ToDo("ids", s, 0) /\ ~ToDo("ids", s, 0)'
    BY <2>1, <2>2 DEF ToDo, Within, Waiting
  <2> QED
    BY <2>3, <2>4 DEF Progress, JobNames
<1>6. CASE RegisterManagement
  <2>1. /\ phase = "management" /\ phase' = "devices" /\ current \in Servers
        /\ routes' = [routes EXCEPT ![current] = @ \cup ManagementRoutes]
        /\ UNCHANGED <<current, added, done, ids>>
    BY <1>6 DEF RegisterManagement, Known, TypeOK
  <2>2. PICK s \in Servers : s = current
    BY <2>1
  <2>3. \A q \in Servers : q # s => routes'[q] = routes[q]
    BY <1>0, <2>1, <2>2
  <2>4. \A q : Waiting(q)' <=> Waiting(q)
    BY <2>1, <2>2, <2>3 DEF Within, Waiting
  <2>5. \A name, q, e : ToDo(name, q, e)' => ToDo(name, q, e)
    BY <2>1, <2>4 DEF ToDo, Within
  <2>6. ToDo("management", s, 0) /\ ~ToDo("management", s, 0)'
    BY <2>1, <2>2 DEF ToDo, Within, Waiting
  <2> QED
    BY <2>5, <2>6 DEF Progress, JobNames
<1>7. ASSUME NEW type \in DeviceTypes, RegisterDevice(type) PROVE Progress
  <2>1. /\ phase = "devices" /\ done' = [done EXCEPT ![type] = @ + 1]
        /\ routes' = [routes EXCEPT ![current] = @ \cup DeviceRoutes(type, done[type])]
        /\ UNCHANGED <<phase, current, added, ids>> /\ AtCursor(type)
        /\ current \in Servers /\ added = Length
    BY <1>7 DEF RegisterDevice, Known, TypeOK, Sorted
  <2>2. PICK d \in Ahead : d = CursorDevice(type)
    BY <2>1, CursorAhead
  <2>3. d \in Devices
    BY <2>2 DEF Ahead
  <2>4. Ahead' = Ahead \ {d}
    BY <2>1, <2>2, AheadShrinks
  <2>5. PICK s \in Servers : s = current
    BY <2>1
  <2>6. \A q \in Servers : q # s => routes'[q] = routes[q]
    BY <1>0, <2>1, <2>5
  <2>7. \A q : Waiting(q)' <=> Waiting(q)
    BY <2>1, <2>5, <2>6 DEF Within, Waiting
  <2>8. \A name, q, e : ToDo(name, q, e)' => ToDo(name, q, e)
    BY <2>1, <2>4, <2>7 DEF ToDo, Within
  <2>9. ToDo("device", s, d) /\ ~ToDo("device", s, d)'
    BY <2>1, <2>2, <2>4, <2>5 DEF ToDo, Within, Waiting
  <2> QED
    BY <2>3, <2>8, <2>9 DEF Progress, JobNames
<1>8. CASE End
  <2>1. /\ phase = "devices" /\ phase' = "main" /\ current \in Servers
        /\ UNCHANGED <<added, ids, routes>>
    BY <1>8 DEF End, Known, TypeOK
  <2>2. PICK s \in Servers : s = current
    BY <2>1
  <2>3. routes[s] # {}
    BY <2>1, <2>2 DEF Registered, ManagementRoutes, ManagementEndpoints, Listing
  <2>4. \A q : Waiting(q)' <=> Waiting(q)
    BY <2>1, <2>2, <2>3 DEF Within, Waiting
  <2>5. \A name, q, e : ToDo(name, q, e)' => ToDo(name, q, e)
    BY <2>1, <2>4 DEF ToDo, Within
  <2>6. ToDo("end", s, 0) /\ ~ToDo("end", s, 0)'
    BY <2>1, <2>2, <2>3 DEF ToDo, Within, Waiting
  <2> QED
    BY <2>5, <2>6 DEF Progress, JobNames
<1>9. CASE Serve
  <2>1. phase = "main" /\ phase' = "serve" /\ UNCHANGED <<current, added, ids, routes>>
    BY <1>9 DEF Serve
  <2>2. \A name, q, e : ToDo(name, q, e)' => ToDo(name, q, e)
    BY <2>1 DEF ToDo, Within, Waiting
  <2>3. ToDo("serve", None, 0) /\ ~ToDo("serve", None, 0)'
    BY <2>1 DEF ToDo
  <2> QED
    BY <2>2, <2>3 DEF Progress, JobNames
<1> QED
  BY <1>1, <1>2, <1>3, <1>4, <1>5, <1>6, <1>7, <1>8, <1>9 DEF Startup, Abort

LEMMA FiniteJobs == ASSUME IsFiniteSet(Servers) PROVE IsFiniteSet(Jobs)
<1>1. IsFiniteSet(JobNames)
  <2>1. IsFiniteSet({"sort", "begin", "clear", "write", "ids"} \cup {"management", "device", "end", "serve"})
    BY FewNames, FiniteUnions
  <2>2. JobNames = {"sort", "begin", "clear", "write", "ids"} \cup {"management", "device", "end", "serve"}
    BY DEF JobNames
  <2> QED
    BY <2>1, <2>2, Zenon
<1>2. IsFiniteSet(Servers \cup {None})
  BY FewNames, FiniteUnions
<1>3. IsFiniteSet(Devices \cup {0})
  <2>1. IsFiniteSet(Devices)
    BY FS_Interval, DevicesAre
  <2> QED
    BY <2>1, FewNames, FiniteUnions
<1>4. IsFiniteSet((Servers \cup {None}) \X (Devices \cup {0}))
  BY <1>2, <1>3, FS_Product
<1> QED
  BY <1>1, <1>4, FS_Product DEF Jobs

\* The jobs become fewer.
LEMMA FewerLeft ==
  ASSUME IsFiniteSet(Servers), Progress
  PROVE  /\ Cardinality(Left) \in Nat /\ Cardinality(Left)' \in Nat
         /\ Cardinality(Left)' < Cardinality(Left)
<1>1. IsFiniteSet(Jobs)
  BY FiniteJobs
<1>2. Left' \subseteq Left
  <2> SUFFICES ASSUME NEW job \in Jobs, ToDo(job[1], job[2][1], job[2][2])'
               PROVE  ToDo(job[1], job[2][1], job[2][2])
    BY DEF Left, Jobs
  <2>1. job[1] \in JobNames /\ job[2][1] \in Servers \cup {None} /\ job[2][2] \in Devices \cup {0}
    BY DEF Jobs
  <2> QED
    BY <2>1 DEF Progress
<1>3. Left' # Left
  <2>1. PICK name \in JobNames, s \in Servers \cup {None}, d \in Devices \cup {0} :
          ToDo(name, s, d) /\ ~ToDo(name, s, d)'
    BY DEF Progress
  <2>2. <<name, <<s, d>>>> \in Left
    BY <2>1 DEF Left, Jobs
  <2>3. <<name, <<s, d>>>> \notin Left'
    BY <2>1 DEF Left
  <2> QED
    BY <2>2, <2>3
<1>4. IsFiniteSet(Left)
  BY <1>1, FS_Subset DEF Left
<1>5. Cardinality(Left)' = Cardinality(Left')
  OBVIOUS
<1> QED
  BY <1>2, <1>3, <1>4, <1>5, FS_Subset, FS_CardinalityType

-----------------------------------------------------------------------------
\* app_main waits for nothing: until it serves or has aborted, its next step can be
\* taken. This is the one thing said with ENABLED, which the prover leaves alone: a
\* hypothesis of StartupSucceeds, whose content StartupGoesOn proves without ENABLED.
StartupNeverWaits == phase \notin {"serve", "abort"} => ENABLED <<Startup>>_vars

(* Runs is a behaviour in which no startup aborts, AtWork a startup with at  *)
(* most n jobs left, after r restarts.                                       *)

Runs ==
  /\ [][Next]_vars /\ WF_vars(Startup)
  /\ [](Known /\ Registered /\ phase # "abort" /\ StartupNeverWaits)

AtWork(r, n) ==
  restarts = r /\ phase # "serve" /\ Cardinality(Left) \in Nat /\ Cardinality(Left) <= n
Serving(r) == restarts = r /\ phase = "serve"
RestartedAfter(r) == restarts > r

LEMMA StartupStep ==
  ASSUME IsFiniteSet(Servers), Known, Registered, (phase # "abort")', [Next]_vars,
         NEW r \in Int, NEW n \in Nat
  PROVE  /\ AtWork(r, n + 1) => AtWork(r, n + 1)' \/ Serving(r)' \/ RestartedAfter(r)'
         /\ AtWork(r, n + 1) /\ Startup => AtWork(r, n)' \/ Serving(r)'
         /\ Serving(r) => Serving(r)' \/ RestartedAfter(r)'
         /\ RestartedAfter(r) => RestartedAfter(r)'
<1>0. restarts \in Nat
  BY BoundAssumption DEF Known, TypeOK
<1>1. CASE Startup
  <2>1. UNCHANGED restarts /\ phase # "serve"
    BY <1>1 DEF Startup, Construct, Begin, ClearId, WriteId, EndIds, RegisterManagement,
           RegisterDevice, Abort, End, Serve
  <2>2. /\ Cardinality(Left) \in Nat /\ Cardinality(Left)' \in Nat
        /\ Cardinality(Left)' < Cardinality(Left)
    BY <1>1, StartupProgress, FewerLeft
  <2> QED
    BY <2>1, <2>2 DEF AtWork, Serving, RestartedAfter
<1>2. CASE Restart /\ ~Startup
  BY <1>0, <1>2 DEF Restart, AtWork, Serving, RestartedAfter
<1>3. CASE ((\E s \in Servers : List(s)) \/ UNCHANGED vars) /\ ~Startup
  <2>1. UNCHANGED <<phase, current, done, added, ids, routes, restarts>>
    BY <1>3 DEF List, vars, loopVars
  <2>2. \A name, s, d : ToDo(name, s, d)' <=> ToDo(name, s, d)
    BY <2>1 DEF ToDo, Waiting, Within, Ahead, Behind
  <2>3. Left' = Left
    BY <2>2 DEF Left
  <2> QED
    BY <1>3, <2>1, <2>3 DEF AtWork, Serving, RestartedAfter
<1> QED
  BY <1>1, <1>2, <1>3 DEF Next

\* The formulas the two inductions are over: from at most n jobs on, the startup
\* ends or is restarted; from all but k restarts on, the application comes up.
StartupEnds(r, n) == Runs => (AtWork(r, n) ~> (Serving(r) \/ RestartedAfter(r)))
AllBut(k) == restarts + k >= MaxRestarts
ComesUp(k) == Runs => [](AllBut(k) => <>[](phase = "serve"))

LEMMA NoJobs == ASSUME IsFiniteSet(Servers), NEW r \in Int PROVE StartupEnds(r, 0)
<1>1. ~AtWork(r, 0)
  <2> SUFFICES ASSUME AtWork(r, 0) PROVE FALSE
    OBVIOUS
  <2>1. <<"serve", <<None, 0>>>> \in Left
    BY DEF AtWork, Left, Jobs, JobNames, ToDo
  <2>2. IsFiniteSet(Left)
    BY FiniteJobs, FS_Subset DEF Left
  <2>3. Cardinality(Left) = 0
    BY DEF AtWork
  <2> QED
    BY <2>1, <2>2, <2>3, FS_EmptySet
<1> QED
  BY <1>1, PTL DEF StartupEnds

LEMMA OneJobLess ==
  ASSUME IsFiniteSet(Servers), NEW r \in Int, NEW n \in Nat
  PROVE  StartupEnds(r, n) => StartupEnds(r, n + 1)
<1>1. Known /\ Registered /\ (phase # "abort")' /\ AtWork(r, n + 1) /\ [Next]_vars =>
        AtWork(r, n + 1)' \/ Serving(r)' \/ RestartedAfter(r)'
  BY StartupStep
<1>2. Known /\ Registered /\ (phase # "abort")' /\ AtWork(r, n + 1) /\ [Next]_vars /\ <<Startup>>_vars =>
        AtWork(r, n)' \/ Serving(r)'
  BY StartupStep
<1>3. AtWork(r, n + 1) /\ phase # "abort" /\ StartupNeverWaits => ENABLED <<Startup>>_vars
  BY DEF AtWork, StartupNeverWaits
<1> QED
  BY <1>1, <1>2, <1>3, PTL DEF StartupEnds, Runs

LEMMA AllStartupsEnd ==
  ASSUME IsFiniteSet(Servers), NEW r \in Int
  PROVE  \A n \in Nat : StartupEnds(r, n)
<1>1. \E g : \A n \in Nat : g[n] <=> StartupEnds(r, n)
  <2> DEFINE F == [n \in Nat |-> StartupEnds(r, n)]
  <2>1. Truths(F)
    BY DEF Truths
  <2> QED
    BY <2>1, SomeTruths
<1>2. PICK g : \A n \in Nat : g[n] <=> StartupEnds(r, n)
  BY <1>1
<1>3. g[0]
  BY <1>2, NoJobs
<1>4. \A n \in Nat : g[n] => g[n + 1]
  BY <1>2, OneJobLess
<1> QED
  BY <1>2, <1>3, <1>4, Induction

\* Unless it is restarted the application comes up and stays up.
UpOrRestarted(r) == Runs /\ restarts = r => <>[]Serving(r) \/ <>RestartedAfter(r)

LEMMA LifeEnds ==
  ASSUME IsFiniteSet(Servers), NEW r \in Int
  PROVE  UpOrRestarted(r)
<1>1. ASSUME NEW n \in Nat
      PROVE  Runs /\ AtWork(r, n) => <>(Serving(r) \/ RestartedAfter(r))
  <2>1. StartupEnds(r, n)
    BY AllStartupsEnd
  <2> QED
    BY <2>1, PTL DEF StartupEnds
<1>2. Runs /\ (\E n \in Nat : AtWork(r, n)) => <>(Serving(r) \/ RestartedAfter(r))
  BY <1>1
<1>3. restarts = r => Serving(r) \/ \E n \in Nat : AtWork(r, n)
  <2>1. IsFiniteSet(Left) /\ Cardinality(Left) \in Nat
    BY FiniteJobs, FS_Subset, FS_CardinalityType DEF Left
  <2> QED
    BY <2>1 DEF Serving, AtWork
<1>4. Known /\ Registered /\ (phase # "abort")' /\ Serving(r) /\ [Next]_vars => Serving(r)' \/ RestartedAfter(r)'
  BY StartupStep
<1> QED
  BY <1>2, <1>3, <1>4, PTL DEF Runs, UpOrRestarted

LEMMA LastLife == ASSUME IsFiniteSet(Servers) PROVE ComesUp(0)
<1>1. Known /\ AllBut(0) => restarts = MaxRestarts
  BY BoundAssumption DEF Known, TypeOK, AllBut
<1>2. Known => ~RestartedAfter(MaxRestarts)
  BY BoundAssumption DEF Known, TypeOK, RestartedAfter
<1>3. UpOrRestarted(MaxRestarts)
  BY LifeEnds, BoundAssumption
<1>4. Serving(MaxRestarts) => phase = "serve"
  BY DEF Serving
<1> QED
  BY <1>1, <1>2, <1>3, <1>4, PTL DEF Runs, ComesUp, UpOrRestarted

LEMMA OneLifeMore ==
  ASSUME IsFiniteSet(Servers), NEW k \in Nat
  PROVE  ComesUp(k) => ComesUp(k + 1)
<1> DEFINE r == MaxRestarts - (k + 1)
<1>0. r \in Int
  BY BoundAssumption
<1>1. Known /\ AllBut(k + 1) => AllBut(k) \/ restarts = r
  BY BoundAssumption DEF Known, TypeOK, AllBut
<1>2. Known /\ RestartedAfter(r) => AllBut(k)
  BY BoundAssumption DEF Known, TypeOK, RestartedAfter, AllBut
<1>3. Serving(r) => phase = "serve"
  BY DEF Serving
<1> HIDE DEF r
<1>4. UpOrRestarted(r)
  BY <1>0, LifeEnds
<1> QED
  BY <1>1, <1>2, <1>3, <1>4, PTL DEF Runs, ComesUp, UpOrRestarted

LEMMA AlwaysComesUp == ASSUME IsFiniteSet(Servers) PROVE \A k \in Nat : ComesUp(k)
<1>1. \E g : \A k \in Nat : g[k] <=> ComesUp(k)
  <2> DEFINE F == [k \in Nat |-> ComesUp(k)]
  <2>1. Truths(F)
    BY DEF Truths
  <2> QED
    BY <2>1, SomeTruths
<1>2. PICK g : \A k \in Nat : g[k] <=> ComesUp(k)
  BY <1>1
<1>3. g[0]
  BY <1>2, LastLife
<1>4. \A k \in Nat : g[k] => g[k + 1]
  BY <1>2, OneLifeMore
<1> QED
  BY <1>2, <1>3, <1>4, Induction

\* With room for the routes on every server the application comes up, whatever its
\* list of devices, and after the last restart stays up.
THEOREM StartupSucceeds ==
  ASSUME IsFiniteSet(Servers)
  PROVE  FairSpec /\ []StartupNeverWaits => EventuallyServes
<1> DEFINE Roomy == \A s \in Servers : slots[s] >= RoutesNeeded
<1>1. Roomy /\ [Next]_vars => Roomy'
  <2>1. [Next]_vars => UNCHANGED slots
    BY DEF Next, Startup, Construct, Begin, ClearId, WriteId, EndIds, RegisterManagement,
           RegisterDevice, Abort, End, Serve, List, Restart, vars, loopVars
  <2> QED
    BY <2>1
<1>2. Known /\ Roomy /\ AbortsOnlyWhenFull => phase # "abort"
  <2>1. RoutesNeeded \in Nat
    BY WantedFinite, FS_CardinalityType DEF RoutesNeeded
  <2>2. Known => \A s \in Servers : slots[s] \in Nat
    BY BoundAssumption DEF Known, TypeOK
  <2> QED
    BY <2>1, <2>2 DEF AbortsOnlyWhenFull
<1>3. ComesUp(MaxRestarts) /\ MaxRestarts \in Nat
  BY AlwaysComesUp, BoundAssumption
<1>4. Known => AllBut(MaxRestarts)
  BY BoundAssumption DEF Known, TypeOK, AllBut
<1>5. EventuallyServes <=> (Roomy => <>[](phase = "serve"))
  BY DEF EventuallyServes
<1> HIDE DEF Roomy
<1> QED
  BY <1>1, <1>2, <1>3, <1>4, <1>5, RegisteredInvariant, AbortsNeedFull, PTL
     DEF FairSpec, Spec, Runs, ComesUp

-----------------------------------------------------------------------------
(* app_main never waits: a next state for every state in which it still has *)
(* something to do.                                                         *)

Unserved == \E s \in Servers : routes[s] = {}
SomeServer == CHOOSE s \in Servers : routes[s] = {}
SomeType == CHOOSE type \in DeviceTypes : AtCursor(type)
SomeDevice == CursorDevice(SomeType)

\* What app_main does next, in its order.
Constructs == phase = "main" /\ added < Length
Begins == phase = "main" /\ added = Length /\ Unserved
Clears == phase = "ids" /\ ~AllDone /\ ids[SomeDevice] # Cleared
Writes == phase = "ids" /\ ~AllDone /\ ids[SomeDevice] = Cleared
NewRoutes == IF phase = "management" THEN ManagementRoutes ELSE DeviceRoutes(SomeType, done[SomeType])
Registering == phase = "management" \/ (phase = "devices" /\ ~AllDone)
Registers == Registering /\ Accepts(NewRoutes)
Returns == phase = "devices" /\ AllDone

\* One value for every variable, and no guard: some state follows every state.
StartupMove ==
  /\ phase' = CASE Constructs \/ Returns -> "main"
                [] Begins \/ Clears \/ Writes -> "ids"
                [] phase = "ids" /\ AllDone -> "management"
                [] Registers -> "devices"
                [] Registering /\ ~Accepts(NewRoutes) -> "abort"
                [] OTHER -> "serve"
  /\ current' = CASE Begins -> SomeServer [] Returns -> None [] OTHER -> current
  /\ done' = CASE Begins \/ (AllDone /\ phase \in {"ids", "devices"}) -> NoneDone
               [] Writes \/ (Registers /\ phase = "devices") -> [done EXCEPT ![SomeType] = @ + 1]
               [] OTHER -> done
  /\ added' = IF Constructs THEN added + 1 ELSE added
  /\ byType' = IF Constructs THEN [byType EXCEPT ![TypeOf(added + 1)] = Append(@, added + 1)] ELSE byType
  /\ ids' = CASE Clears -> [ids EXCEPT ![SomeDevice] = Cleared]
              [] Writes -> [ids EXCEPT ![SomeDevice] = UniqueId(SomeDevice)]
              [] OTHER -> ids
  /\ routes' = IF Registers THEN [routes EXCEPT ![current] = @ \cup NewRoutes] ELSE routes
  /\ UNCHANGED <<slots, number, learned, restarts>>

\* The loops look at the first type with devices left.
LEMMA SomeTypeIsNext ==
  ASSUME TypeOK, ~AllDone
  PROVE  SomeType \in DeviceTypes /\ AtCursor(SomeType)
<1> DEFINE Open == {type \in DeviceTypes : done[type] # Len(byType[type])}
           Numbers == {TypeNumber[type] : type \in Open}
<1>1. Numbers \subseteq Nat /\ Numbers # {}
  BY TypeNumbers DEF AllDone
<1>2. PICK n \in Numbers : \A m \in Numbers : <<m, n>> \notin OpToRel(<, Nat)
  BY <1>1, NatLessThanWellFounded, WFMin
<1>3. \A m \in Numbers : ~(m < n)
  BY <1>1, <1>2 DEF OpToRel
<1>4. PICK type \in Open : TypeNumber[type] = n
  BY <1>2
<1>5. done[type] < Len(byType[type])
  BY <1>4 DEF TypeOK
<1>6. AtCursor(type)
  BY <1>3, <1>4, <1>5 DEF AtCursor
<1> QED
  BY <1>4, <1>6 DEF SomeType

\* Until it serves or has aborted, app_main has a step to take: the loops leave no
\* device that is neither next nor done, a registration either succeeds or
\* aborts, and a server without routes or the last one is always at hand.
THEOREM StartupGoesOn ==
  TypeOK /\ phase \notin {"serve", "abort"} /\ StartupMove => <<Startup>>_vars
<1> SUFFICES ASSUME TypeOK, phase \notin {"serve", "abort"}, StartupMove PROVE <<Startup>>_vars
  OBVIOUS
<1>0. Length \in Nat /\ added \in 0 .. Length /\ Length = Len(DeviceList)
  BY DevicesAre DEF TypeOK, Length
<1>1. CASE phase = "main"
  <2>1. CASE Constructs
    <3>1. Construct
      BY <1>0, <1>1, <2>1 DEF StartupMove, Construct, Constructs, Begins, Writes, Clears, Registers,
            Registering, Returns, loopVars
    <3>2. added' # added
      BY <1>0, <3>1 DEF Construct
    <3> QED
      BY <3>1, <3>2 DEF Startup, vars
  <2>2. CASE Begins
    <3>1. SomeServer \in Servers /\ routes[SomeServer] = {}
      BY <2>2 DEF Begins, Unserved, SomeServer
    <3>2. Begin(SomeServer) /\ phase' # phase
      BY <1>0, <1>1, <2>2, <3>1 DEF StartupMove, Begin, Constructs, Begins, Writes, Clears, Registers,
            Registering, Returns
    <3> QED
      BY <3>1, <3>2 DEF Startup, vars, loopVars
  <2>3. CASE ~Constructs /\ ~Begins
    <3>1. Serve /\ phase' # phase
      BY <1>0, <1>1, <2>3 DEF StartupMove, Serve, Constructs, Begins, Writes, Clears, Registers,
            Registering, Returns, Unserved
    <3> QED
      BY <3>1 DEF Startup, vars, loopVars
  <2> QED
    BY <2>1, <2>2, <2>3
<1>2. CASE phase = "ids"
  <2>1. CASE AllDone
    <3>1. EndIds /\ phase' # phase
      BY <1>2, <2>1 DEF StartupMove, EndIds, Constructs, Begins, Writes, Clears, Registers, Registering,
            Returns
    <3> QED
      BY <3>1 DEF Startup, vars, loopVars
  <2>2. CASE ~AllDone
    <3>1. SomeType \in DeviceTypes /\ AtCursor(SomeType) /\ SomeDevice = CursorDevice(SomeType)
      BY <2>2, SomeTypeIsNext DEF SomeDevice
    <3>2. SomeDevice \in Devices /\ done[SomeType] \in Nat
      BY <3>1, AtCursorType
    <3>3. CASE ids[SomeDevice] # Cleared
      <4>1. ClearId(SomeType) /\ ids'[SomeDevice] = Cleared
        BY <1>2, <2>2, <3>1, <3>2, <3>3 DEF StartupMove, ClearId, Constructs, Begins, Writes, Clears,
              Registers, Registering, Returns, loopVars, TypeOK
      <4> QED
        BY <3>1, <3>3, <4>1 DEF Startup, vars
    <3>4. CASE ids[SomeDevice] = Cleared
      <4>1. WriteId(SomeType) /\ done'[SomeType] = done[SomeType] + 1
        BY <1>2, <2>2, <3>1, <3>2, <3>4 DEF StartupMove, WriteId, Constructs, Begins, Writes, Clears,
              Registers, Registering, Returns, TypeOK
      <4>2. done' # done
        BY <3>2, <4>1
      <4> QED
        BY <3>1, <4>1, <4>2 DEF Startup, vars, loopVars
    <3> QED
      BY <3>3, <3>4
  <2> QED
    BY <2>1, <2>2
<1>3. CASE phase = "management"
  <2>1. (RegisterManagement \/ Abort) /\ phase' # phase
    BY <1>3 DEF StartupMove, RegisterManagement, Abort, Constructs, Begins, Writes, Clears, Registers,
          Registering, Returns, NewRoutes
  <2> QED
    BY <2>1 DEF Startup, vars, loopVars
<1>4. CASE phase = "devices"
  <2>1. CASE AllDone
    <3>1. End /\ phase' # phase
      BY <1>4, <2>1 DEF StartupMove, End, Constructs, Begins, Writes, Clears, Registers, Registering,
            Returns
    <3> QED
      BY <3>1 DEF Startup, vars, loopVars
  <2>2. CASE ~AllDone
    <3>1. SomeType \in DeviceTypes /\ AtCursor(SomeType)
      BY <2>2, SomeTypeIsNext
    <3>2. done[SomeType] \in Nat
      BY <3>1, AtCursorType
    <3>3. NewRoutes = DeviceRoutes(SomeType, done[SomeType])
      BY <1>4 DEF NewRoutes
    <3>4. CASE Accepts(NewRoutes)
      <4>1. RegisterDevice(SomeType) /\ done'[SomeType] = done[SomeType] + 1
        BY <1>4, <2>2, <3>1, <3>2, <3>3, <3>4 DEF StartupMove, RegisterDevice, Constructs, Begins, Writes,
              Clears, Registers, Registering, Returns, TypeOK
      <4>2. done' # done
        BY <3>2, <4>1
      <4> QED
        BY <3>1, <4>1, <4>2 DEF Startup, vars, loopVars
    <3>5. CASE ~Accepts(NewRoutes)
      <4>1. Abort /\ phase' # phase
        BY <1>4, <2>2, <3>1, <3>3, <3>5 DEF StartupMove, Abort, Constructs, Begins, Writes, Clears,
              Registers, Registering, Returns
      <4> QED
        BY <4>1 DEF Startup, vars, loopVars
    <3> QED
      BY <3>4, <3>5
  <2> QED
    BY <2>1, <2>2
<1> QED
  BY <1>1, <1>2, <1>3, <1>4 DEF TypeOK, Phases
=============================================================================
