------------------------- MODULE AlpacaRoutesProofs -------------------------
(***************************************************************************)
(* Theorems about AlpacaRoutes, for any list of devices, servers, slots    *)
(* and leftover bytes, and any number of restarts.                         *)
(***************************************************************************)
EXTENDS AlpacaRoutes, TLAPS

Length == Len(DeviceList)

Entry == [type : DeviceTypes, name : Names]

LEMMA EntryFields == \A entry \in Entry : entry.type \in DeviceTypes /\ entry.name \in Names
BY DEF Entry

LEMMA Entries == DeviceList \in Seq(Entry) /\ \A d \in Devices : DeviceList[d] \in Entry
<1>1. DeviceList \in Seq(Entry)
  BY ListAssumption DEF Entry
<1> QED
  BY <1>1 DEF Devices

LEMMA DevicesAre == Length \in Nat /\ Devices = 1 .. Length /\ \A d \in Devices : TypeOf(d) \in DeviceTypes
<1>1. Length \in Nat /\ Devices = 1 .. Length
  BY Entries DEF Devices, Length
<1> QED
  BY <1>1, Entries, EntryFields DEF TypeOf

-----------------------------------------------------------------------------
(* Types.                                                                  *)

LEMMA TypeInit == Init => TypeOK
<1> SUFFICES ASSUME Init PROVE TypeOK
  OBVIOUS
<1>1. byType \in [DeviceTypes -> Seq(Devices)] /\ \A type \in DeviceTypes : done[type] <= Len(byType[type])
  BY DEF Init, NoDevices, NoneDone
<1> QED
  BY <1>1, DevicesAre, BoundAssumption DEF Init, NoneDone, TypeOK, Phases, Length

LEMMA AtCursorType ==
  ASSUME TypeOK, NEW type \in DeviceTypes, AtCursor(type)
  PROVE  /\ done[type] \in Nat /\ done[type] + 1 \in DOMAIN byType[type]
         /\ CursorDevice(type) \in Devices
BY DEF TypeOK, AtCursor, CursorDevice

\* Registering the routes of one more device.
Advance(type) ==
  /\ phase \in {"ids", "devices"} /\ AtCursor(type)
  /\ done' = [done EXCEPT ![type] = @ + 1]
  /\ UNCHANGED <<phase, current, slots, number, added, byType, learned, restarts>>

LEMMA AdvanceType ==
  ASSUME TypeOK, NEW type \in DeviceTypes, Advance(type),
         DOMAIN ids' = Devices, DOMAIN routes' = Servers
  PROVE  TypeOK'
<1>1. done[type] \in Nat /\ done[type] + 1 <= Len(byType[type])
  BY AtCursorType DEF Advance, TypeOK
<1>2. done' \in [DeviceTypes -> Nat] /\ \A t \in DeviceTypes : done'[t] <= Len(byType[t])
  BY <1>1 DEF Advance, TypeOK
<1> QED
  BY <1>2 DEF Advance, TypeOK

LEMMA TypeStep == TypeOK /\ [Next]_vars => TypeOK'
<1> SUFFICES ASSUME TypeOK, [Next]_vars PROVE TypeOK'
  OBVIOUS
<1>0. \A type \in DeviceTypes : Len(byType[type]) \in Nat
  BY DEF TypeOK
<1>1. CASE Construct
  <2>1. added + 1 \in Devices /\ TypeOf(added + 1) \in DeviceTypes /\ added + 1 \in 0 .. Len(DeviceList)
    BY <1>1, DevicesAre DEF Construct, TypeOK, Length
  <2>2. byType' \in [DeviceTypes -> Seq(Devices)]
    BY <1>1, <2>1 DEF Construct, TypeOK
  <2>3. \A type \in DeviceTypes : done[type] <= Len(byType'[type])
    BY <1>0, <1>1, <2>1 DEF Construct, TypeOK
  <2> QED
    BY <1>1, <2>1, <2>2, <2>3 DEF Construct, TypeOK, loopVars
<1>2. ASSUME NEW s \in Servers, Begin(s) PROVE TypeOK'
  BY <1>0, <1>2 DEF Begin, TypeOK, Phases, NoneDone
<1>3. ASSUME NEW type \in DeviceTypes, ClearId(type) PROVE TypeOK'
  BY <1>3 DEF ClearId, TypeOK, loopVars
<1>4. ASSUME NEW type \in DeviceTypes, WriteId(type) PROVE TypeOK'
  BY <1>4, AdvanceType DEF WriteId, Advance, TypeOK
<1>5. CASE EndIds
  BY <1>0, <1>5 DEF EndIds, TypeOK, Phases, NoneDone
<1>6. CASE RegisterManagement
  BY <1>6 DEF RegisterManagement, TypeOK, Phases
<1>7. ASSUME NEW type \in DeviceTypes, RegisterDevice(type) PROVE TypeOK'
  BY <1>7, AdvanceType DEF RegisterDevice, Advance, TypeOK
<1>8. CASE Abort
  BY <1>8 DEF Abort, TypeOK, Phases
<1>9. CASE End
  BY <1>0, <1>9 DEF End, TypeOK, Phases, NoneDone
<1>10. CASE Serve
  BY <1>10 DEF Serve, TypeOK, Phases
<1>11. ASSUME NEW s \in Servers, List(s) PROVE TypeOK'
  BY <1>11 DEF List, TypeOK, loopVars
<1>12. CASE Restart
  <2>1. byType' \in [DeviceTypes -> Seq(Devices)] /\ \A type \in DeviceTypes : done'[type] <= Len(byType'[type])
    BY <1>12 DEF Restart, NoDevices, NoneDone
  <2> QED
    BY <1>12, <2>1, DevicesAre, BoundAssumption DEF Restart, TypeOK, Phases, NoneDone, Length
<1>13. CASE UNCHANGED vars
  BY <1>13 DEF vars, loopVars, TypeOK
<1> QED
  BY <1>1, <1>2, <1>3, <1>4, <1>5, <1>6, <1>7, <1>8, <1>9, <1>10, <1>11, <1>12, <1>13
     DEF Next, Startup

\* Every variable stays within its type, and no loop of register_routes runs past
\* the devices there are.
THEOREM TypeCorrect == Spec => []TypeOK
BY TypeInit, TypeStep, PTL DEF Spec

-----------------------------------------------------------------------------
(* The devices as the constructor sorts them, and the routes to them.      *)

\* Every device sorted so far stands at one place, under its type; and there are
\* no routes before all are sorted.
Sorted ==
  /\ \A type \in DeviceTypes : Len(byType[type]) <= added
  /\ \A type \in DeviceTypes : \A i \in DOMAIN byType[type] :
       TypeOf(byType[type][i]) = type /\ byType[type][i] <= added
  /\ \A type \in DeviceTypes : \A i, j \in DOMAIN byType[type] :
       byType[type][i] = byType[type][j] => i = j
  /\ \A d \in 1 .. added : \E i \in DOMAIN byType[TypeOf(d)] : byType[TypeOf(d)][i] = d
  /\ phase # "main" => added = Length
  /\ \A s \in Servers : routes[s] # {} => added = Length

\* Every step but a restart leaves the sorted devices, and all but Construct what
\* is sorted.
LEMMA SortedKept ==
  ASSUME TypeOK, Sorted, [Next]_vars
  PROVE  Construct \/ Restart \/ UNCHANGED <<added, byType>>
BY DEF Next, Startup, Begin, ClearId, WriteId, EndIds, RegisterManagement, RegisterDevice,
       Abort, End, Serve, List, vars

\* Where app_main may be, and what has routes, after a step that sorts nothing.
LEMMA PhaseKept ==
  ASSUME TypeOK, Sorted, [Next]_vars, ~Construct, ~Restart
  PROVE  /\ phase' # "main" => added = Length
         /\ \A s \in Servers : routes'[s] # {} => added = Length
<1>1. phase' # "main" => added = Length
  BY DEF Next, Startup, Begin, ClearId, WriteId, EndIds, RegisterManagement, RegisterDevice,
         Abort, End, Serve, List, vars, loopVars, Sorted, Length
<1>2. UNCHANGED routes \/ phase # "main"
  BY DEF Next, Startup, Begin, ClearId, WriteId, EndIds, RegisterManagement, RegisterDevice,
         Abort, End, Serve, List, vars
<1> QED
  BY <1>1, <1>2 DEF Sorted

LEMMA SortedStep == TypeOK /\ Sorted /\ [Next]_vars => Sorted'
<1> SUFFICES ASSUME TypeOK, Sorted, [Next]_vars PROVE Sorted'
  OBVIOUS
<1>1. CASE Construct
  <2> DEFINE d == added + 1
  <2>1. d \in Devices /\ TypeOf(d) \in DeviceTypes /\ added \in Nat /\ added < Length
    BY <1>1, DevicesAre DEF Construct, TypeOK, Length
  <2>2. /\ phase' = "main" /\ added' = d
        /\ byType' = [byType EXCEPT ![TypeOf(d)] = Append(@, d)]
        /\ UNCHANGED routes
    BY <1>1 DEF Construct, loopVars
  <2> DEFINE n == Len(byType[TypeOf(d)])
  <2>3. /\ n \in Nat /\ n <= added /\ DOMAIN byType[TypeOf(d)] = 1 .. n
        /\ DOMAIN byType'[TypeOf(d)] = 1 .. n + 1 /\ Len(byType'[TypeOf(d)]) = n + 1
        /\ byType'[TypeOf(d)][n + 1] = d
        /\ \A i \in 1 .. n : byType'[TypeOf(d)][i] = byType[TypeOf(d)][i]
    BY <2>1, <2>2 DEF TypeOK, Sorted
  <2>4. \A type \in DeviceTypes : type # TypeOf(d) => byType'[type] = byType[type]
    BY <2>1, <2>2 DEF TypeOK
  <2>5. \A type \in DeviceTypes : \A i \in DOMAIN byType[type] :
          byType[type][i] \in Nat /\ byType[type][i] # d
    <3>1. \A type \in DeviceTypes : \A i \in DOMAIN byType[type] : byType[type][i] \in Devices
      BY DEF TypeOK
    <3> QED
      BY <2>1, <3>1, DevicesAre DEF Sorted
  <2> HIDE DEF d, n
  <2>6. \A type \in DeviceTypes : Len(byType'[type]) <= added'
    <3>1. \A type \in DeviceTypes : Len(byType[type]) \in Nat /\ Len(byType[type]) <= added
      BY DEF TypeOK, Sorted
    <3> QED
      BY <2>1, <2>2, <2>3, <2>4, <3>1 DEF d
  <2>7. \A type \in DeviceTypes : \A i \in DOMAIN byType'[type] :
          TypeOf(byType'[type][i]) = type /\ byType'[type][i] <= added'
    <3> SUFFICES ASSUME NEW type \in DeviceTypes, NEW i \in DOMAIN byType'[type]
                 PROVE  TypeOf(byType'[type][i]) = type /\ byType'[type][i] <= added'
      OBVIOUS
    <3>1. CASE type = TypeOf(d) /\ i = n + 1
      BY <2>1, <2>2, <2>3, <3>1 DEF d
    <3>2. CASE ~(type = TypeOf(d) /\ i = n + 1)
      <4>1. i \in DOMAIN byType[type] /\ byType'[type][i] = byType[type][i]
        BY <2>3, <2>4, <3>2
      <4> QED
        BY <2>1, <2>2, <2>5, <4>1 DEF Sorted, d
    <3> QED
      BY <3>1, <3>2
  <2>8. \A type \in DeviceTypes : \A i, j \in DOMAIN byType'[type] :
          byType'[type][i] = byType'[type][j] => i = j
    <3> SUFFICES ASSUME NEW type \in DeviceTypes, NEW i \in DOMAIN byType'[type],
                        NEW j \in DOMAIN byType'[type], byType'[type][i] = byType'[type][j]
                 PROVE  i = j
      OBVIOUS
    <3>1. CASE type # TypeOf(d)
      BY <2>4, <3>1 DEF Sorted
    <3>2. CASE type = TypeOf(d)
      BY <2>3, <2>5, <3>2 DEF Sorted
    <3> QED
      BY <3>1, <3>2
  <2>9. \A e \in 1 .. added' : \E i \in DOMAIN byType'[TypeOf(e)] : byType'[TypeOf(e)][i] = e
    <3> SUFFICES ASSUME NEW e \in 1 .. added'
                 PROVE  \E i \in DOMAIN byType'[TypeOf(e)] : byType'[TypeOf(e)][i] = e
      OBVIOUS
    <3>1. CASE e = d
      BY <2>3, <3>1
    <3>2. CASE e # d
      <4>1. e \in 1 .. added /\ TypeOf(e) \in DeviceTypes
        BY <2>1, <2>2, <3>2, DevicesAre DEF d
      <4>2. PICK i \in DOMAIN byType[TypeOf(e)] : byType[TypeOf(e)][i] = e
        BY <4>1 DEF Sorted
      <4> QED
        BY <2>3, <2>4, <4>1, <4>2
    <3> QED
      BY <3>1, <3>2
  <2>10. \A s \in Servers : routes'[s] = {}
    BY <2>1, <2>2 DEF Sorted
  <2> QED
    BY <2>2, <2>6, <2>7, <2>8, <2>9, <2>10 DEF Sorted
<1>2. CASE Restart
  BY <1>2 DEF Restart, NoDevices, Sorted
<1>3. CASE ~Construct /\ ~Restart
  BY <1>3, SortedKept, PhaseKept DEF Sorted
<1> QED
  BY <1>1, <1>2, <1>3

LEMMA SortedInvariant == Spec => [](TypeOK /\ Sorted)
<1>1. Init => Sorted
  BY DEF Init, NoDevices, Sorted
<1> QED
  BY <1>1, TypeInit, TypeStep, SortedStep, PTL DEF Spec

\* Every device route names a type and the place of one of its devices.
Routed ==
  \A s \in Servers : \A route \in routes[s] \ ManagementRoutes :
    /\ route.type \in DeviceTypes
    /\ route.number \in Nat /\ route.number < Len(byType[route.type])

LEMMA RoutedStep == TypeOK /\ Sorted /\ Routed /\ [Next]_vars => Routed'
<1> SUFFICES ASSUME TypeOK, Sorted, Routed, [Next]_vars PROVE Routed'
  OBVIOUS
<1>1. ASSUME NEW type \in DeviceTypes, RegisterDevice(type) PROVE Routed'
  <2>1. done[type] \in Nat /\ done[type] < Len(byType[type]) /\ current \in Servers
    BY <1>1 DEF RegisterDevice, AtCursor, TypeOK
  <2>2. \A route \in DeviceRoutes(type, done[type]) :
          route.type = type /\ route.number = done[type]
    BY DEF DeviceRoutes, Route
  <2>3. /\ routes' = [routes EXCEPT ![current] = @ \cup DeviceRoutes(type, done[type])]
        /\ UNCHANGED byType
    BY <1>1 DEF RegisterDevice
  <2>4. \A s \in Servers : routes'[s] \subseteq routes[s] \cup DeviceRoutes(type, done[type])
    BY <2>3 DEF TypeOK
  <2> HIDE DEF DeviceRoutes
  <2> QED
    BY <2>1, <2>2, <2>3, <2>4 DEF Routed
<1>2. CASE RegisterManagement
  <2>1. /\ \A s \in Servers : routes'[s] \subseteq routes[s] \cup ManagementRoutes
        /\ UNCHANGED byType
    BY <1>2 DEF RegisterManagement, TypeOK
  <2> QED
    BY <2>1 DEF Routed
<1>3. CASE Construct
  BY <1>3 DEF Construct, Sorted, Routed, Length
<1>4. CASE Restart
  BY <1>4 DEF Restart, Routed
<1>5. CASE UNCHANGED <<routes, byType>>
  BY <1>5 DEF Routed
<1>6. \/ Construct \/ Restart \/ RegisterManagement \/ UNCHANGED <<routes, byType>>
      \/ \E type \in DeviceTypes : RegisterDevice(type)
  BY DEF Next, Startup, Begin, ClearId, WriteId, EndIds, Abort, End, Serve, List, vars
<1> QED
  BY <1>1, <1>2, <1>3, <1>4, <1>5, <1>6

\* With at most 256 devices, which a byte can number, every device route leads at
\* any time to a device of the type its handler casts to.
THEOREM RoutesLead == Length <= 256 => (Spec => []RoutesLeadToTheirType)
<1> SUFFICES ASSUME Length <= 256 PROVE Spec => []RoutesLeadToTheirType
  OBVIOUS
<1>1. Init => Routed
  BY DEF Init, Routed
<1>2. TypeOK /\ Sorted /\ Routed => RoutesLeadToTheirType
  <2> SUFFICES ASSUME TypeOK, Sorted, Routed,
                      NEW s \in Servers, NEW route \in routes[s] \ ManagementRoutes
               PROVE  Dispatch(route) # None /\ TypeOf(Dispatch(route)) = route.type
    BY DEF RoutesLeadToTheirType
  <2> DEFINE n == route.number
  <2>1. route.type \in DeviceTypes /\ n \in Nat /\ n < Len(byType[route.type])
    BY DEF Routed
  <2>2. Len(byType[route.type]) \in Nat /\ Len(byType[route.type]) <= 256
    <3>1. Len(byType[route.type]) \in Nat /\ Len(byType[route.type]) <= added
      BY <2>1 DEF TypeOK, Sorted
    <3>2. added \in 0 .. Length /\ Length \in Nat
      BY DevicesAre DEF TypeOK, Length
    <3> QED
      BY <3>1, <3>2
  <2> HIDE DEF n
  <2>3. n % 256 = n
    BY <2>1, <2>2
  <2>4. n + 1 \in DOMAIN byType[route.type] /\ Dispatch(route) = byType[route.type][n + 1]
    BY <2>1, <2>3 DEF Dispatch, TypeOK, n
  <2>5. byType[route.type][n + 1] \in Devices
    BY <2>1, <2>4 DEF TypeOK
  <2>6. TypeOf(byType[route.type][n + 1]) = route.type
    BY <2>1, <2>4 DEF Sorted
  <2> QED
    BY <2>4, <2>5, <2>6, NoDeviceAssumption
<1> QED
  BY <1>1, <1>2, RoutedStep, SortedInvariant, PTL DEF Spec

-----------------------------------------------------------------------------
(* Unique ids.                                                             *)

Written(d) == ids[d] \notin {None, Cleared}

\* What initialize has written at each of its places, and what it has before there
\* are routes.
Identified ==
  /\ \A d \in Devices : ids[d] = Cleared => phase = "ids"
  /\ \A s \in Servers : routes[s] # {} => \A d \in Devices : ids[d] # None
  /\ phase = "ids" =>
       \A type \in DeviceTypes : \A i \in 1 .. done[type] : Written(byType[type][i])
  /\ phase \in {"management", "devices"} => \A d \in Devices : Written(d)
  /\ phase \in {"ids", "management"} => routes[current] = {}

LEMMA Concat ==
  \A s, t \in Seq(Nat) : s \o t \in Seq(Nat) /\ Len(s \o t) = Len(s) + Len(t)
OBVIOUS

LEMMA IdsDiffer ==
  ASSUME TypeOK
  PROVE  Cleared # None /\ \A d \in Devices : UniqueId(d) \notin {None, Cleared}
<1>1. Cleared \in Names
  BY DEF Cleared, Names
<1>2. \A n \in Nat : Decimal(n) \in Seq(Nat) /\ Len(Decimal(n)) > 0
  <2> SUFFICES ASSUME NEW n \in Nat PROVE Decimal(n) \in Seq(Nat) /\ Len(Decimal(n)) > 0
    OBVIOUS
  <2>1. n \div 100 \in Nat /\ (n \div 10) % 10 \in Nat /\ n % 10 \in Nat
    OBVIOUS
  <2> DEFINE hundreds == IF n >= 100 THEN <<n \div 100>> ELSE <<>>
             tens == IF n >= 10 THEN <<(n \div 10) % 10>> ELSE <<>>
             ones == <<n % 10>>
  <2>2. hundreds \in Seq(Nat) /\ tens \in Seq(Nat) /\ ones \in Seq(Nat) /\ Len(ones) = 1
    BY <2>1
  <2>3. Decimal(n) = hundreds \o tens \o ones
    BY DEF Decimal
  <2> HIDE DEF hundreds, tens, ones
  <2>4. hundreds \o tens \in Seq(Nat)
    BY <2>2, Concat
  <2> QED
    BY <2>2, <2>3, <2>4, Concat
<1>3. ASSUME NEW d \in Devices PROVE UniqueId(d) \in Names /\ UniqueId(d) # Cleared
  <2>1. DeviceList[d].name \in Seq(Nat)
    BY Entries, EntryFields DEF Names
  <2>2. TypeNumber[TypeOf(d)] \in Nat /\ number[d] \in Nat
    <3>1. \A type \in DeviceTypes : TypeNumber[type] \in Nat
      BY SMTT(30) DEF TypeNumber, DeviceTypes
    <3>2. number[d] \in 0 .. 255
      BY BytesAssumption DEF TypeOK
    <3>3. TypeOf(d) \in DeviceTypes
      BY DevicesAre
    <3>4. TypeNumber[TypeOf(d)] \in Nat
      BY <3>1, <3>3
    <3>5. number[d] \in Nat
      BY <3>2
    <3> QED
      BY <3>4, <3>5
  <2>3. /\ Decimal(TypeNumber[TypeOf(d)]) \in Seq(Nat)
        /\ Decimal(number[d]) \in Seq(Nat) /\ Len(Decimal(number[d])) > 0
    BY <1>2, <2>2
  <2>4. UniqueId(d) \in Seq(Nat) /\ Len(UniqueId(d)) > 0
    <3> DEFINE name == DeviceList[d].name
               type == Decimal(TypeNumber[TypeOf(d)])
               last == Decimal(number[d])
    <3>1. name \in Seq(Nat) /\ type \in Seq(Nat) /\ last \in Seq(Nat) /\ Len(last) > 0
      BY <2>1, <2>3
    <3>2. UniqueId(d) = name \o type \o last
      BY DEF UniqueId
    <3> HIDE DEF name, type, last
    <3>3. name \o type \in Seq(Nat)
      BY <3>1, Concat
    <3>4. Len(name \o type) \in Nat /\ Len(last) \in Nat
      BY <3>1, <3>3
    <3> QED
      BY <3>1, <3>2, <3>3, <3>4, Concat
  <2> QED
    BY <2>4 DEF Names, Cleared
<1> QED
  BY <1>1, <1>3, ServersAssumption

LEMMA IdentifiedStep == TypeOK /\ Sorted /\ Identified /\ [Next]_vars => Identified'
<1> SUFFICES ASSUME TypeOK, Sorted, Identified, [Next]_vars PROVE Identified'
  OBVIOUS
<1>0. Cleared # None /\ \A d \in Devices : UniqueId(d) \notin {None, Cleared}
  BY IdsDiffer
<1>1. CASE Construct
  BY <1>1 DEF Construct, loopVars, Identified
<1>2. ASSUME NEW s \in Servers, Begin(s) PROVE Identified'
  BY <1>2 DEF Begin, NoneDone, Identified
<1>3. ASSUME NEW type \in DeviceTypes, ClearId(type) \/ WriteId(type) PROVE Identified'
  <2> DEFINE place == done[type] + 1
             device == byType[type][place]
  <2>1. /\ phase = "ids" /\ done[type] \in Nat /\ place \in DOMAIN byType[type]
        /\ device \in Devices /\ current \in Servers
    BY <1>3, AtCursorType DEF ClearId, WriteId, TypeOK, CursorDevice
  <2>2. UNCHANGED <<phase, byType, current, routes>>
    BY <1>3 DEF ClearId, WriteId, loopVars
  <2>3. \/ ids' = [ids EXCEPT ![device] = Cleared] /\ UNCHANGED done
        \/ /\ ids' = [ids EXCEPT ![device] = UniqueId(device)]
           /\ done' = [done EXCEPT ![type] = place]
    BY <1>3 DEF ClearId, WriteId, CursorDevice, loopVars
  <2>4. /\ TypeOf(device) = type
        /\ \A t \in DeviceTypes : \A i \in DOMAIN byType[t] :
             byType[t][i] = device => t = type /\ i = place
    <3>1. TypeOf(device) = type
      BY <2>1 DEF Sorted
    <3> HIDE DEF device
    <3>2. \A t \in DeviceTypes : \A i \in DOMAIN byType[t] : TypeOf(byType[t][i]) = t
      BY DEF Sorted
    <3>3. \A i \in DOMAIN byType[type] : byType[type][i] = device => i = place
      BY <2>1 DEF Sorted, device
    <3> QED
      BY <3>1, <3>2, <3>3
  <2> HIDE DEF device
  <2>5. ids'[device] # None /\ \A d \in Devices : d # device => ids'[d] = ids[d]
    BY <1>0, <2>1, <2>3 DEF TypeOK
  <2>6. \A t \in DeviceTypes : \A i \in 1 .. done'[t] : Written(byType[t][i])'
    <3> SUFFICES ASSUME NEW t \in DeviceTypes, NEW i \in 1 .. done'[t]
                 PROVE  ids'[byType[t][i]] \notin {None, Cleared}
      BY <2>2 DEF Written
    <3>1. CASE i \in 1 .. done[t]
      <4>1. i \in DOMAIN byType[t] /\ done[t] \in Nat
        BY <3>1 DEF TypeOK
      <4>2. byType[t][i] \in Devices
        BY <4>1 DEF TypeOK
      <4>3. byType[t][i] # device
        BY <2>1, <2>4, <3>1, <4>1
      <4>4. Written(byType[t][i])
        BY <2>1, <3>1 DEF Identified
      <4> QED
        BY <2>5, <4>2, <4>3, <4>4 DEF Written
    <3>2. CASE i \notin 1 .. done[t]
      <4>1. t = type /\ i = place /\ ids' = [ids EXCEPT ![device] = UniqueId(device)]
        BY <2>1, <2>3, <3>2 DEF TypeOK
      <4> QED
        BY <1>0, <2>1, <4>1 DEF TypeOK, device
    <3> QED
      BY <3>1, <3>2
  <2>7. \A s \in Servers : routes'[s] # {} => \A d \in Devices : ids'[d] # None
    BY <2>2, <2>5 DEF Identified
  <2> QED
    BY <2>1, <2>2, <2>6, <2>7 DEF Identified
<1>4. CASE EndIds
  <2>1. ASSUME NEW d \in Devices PROVE Written(d)
    <3>1. d \in 1 .. added /\ TypeOf(d) \in DeviceTypes
      BY <1>4, DevicesAre DEF EndIds, Sorted
    <3>2. PICK i \in DOMAIN byType[TypeOf(d)] : byType[TypeOf(d)][i] = d
      BY <3>1 DEF Sorted
    <3>3. i \in 1 .. done[TypeOf(d)]
      BY <1>4, <3>1, <3>2 DEF EndIds, AllDone, TypeOK
    <3> QED
      BY <1>4, <3>1, <3>2, <3>3 DEF EndIds, Identified
  <2>2. /\ phase = "ids" /\ phase' = "management"
        /\ UNCHANGED <<current, ids, routes>>
    BY <1>4 DEF EndIds
  <2> QED
    BY <2>1, <2>2 DEF Identified, Written
<1>5. ASSUME RegisterManagement \/ \E type \in DeviceTypes : RegisterDevice(type)
      PROVE  Identified'
  <2>1. phase \in {"management", "devices"} /\ phase' = "devices" /\ UNCHANGED ids
    BY <1>5 DEF RegisterManagement, RegisterDevice
  <2> QED
    BY <2>1 DEF Identified, Written
<1>6. CASE Abort \/ End \/ Serve
  <2>1. /\ phase \in {"main", "management", "devices"} /\ phase' \in {"main", "serve", "abort"}
        /\ UNCHANGED <<ids, routes>>
    BY <1>6 DEF Abort, End, Serve
  <2> QED
    BY <2>1 DEF Identified
<1>7. ASSUME NEW s \in Servers, List(s) PROVE Identified'
  BY <1>7 DEF List, loopVars, Identified, Written
<1>8. CASE Restart
  BY <1>0, <1>8 DEF Restart, Identified
<1>9. CASE UNCHANGED vars
  BY <1>9 DEF vars, loopVars, Identified, Written
<1> QED
  BY <1>1, <1>2, <1>3, <1>4, <1>5, <1>6, <1>7, <1>8, <1>9 DEF Next, Startup

\* No server can list a _unique_id that was never written, and one that is being
\* rewritten only while the Api is registered with another server.
THEOREM ListedIds == Spec => []ListedIdsAreWritten
<1>1. Init => Identified
  BY IdsDiffer, TypeInit DEF Init, Identified
<1>2. TypeOK /\ Sorted /\ Identified => ListedIdsAreWritten
  BY DEF Identified, ListedIdsAreWritten
<1> QED
  BY <1>1, <1>2, IdentifiedStep, SortedInvariant, PTL DEF Spec

-----------------------------------------------------------------------------
(* When unique ids are unique: a name, a type and a number hashed one after *)
(* the other can be told apart again unless the name ends in a digit.       *)

EndsOpen(s) == s # <<>> => s[Len(s)] > 9

LEMMA ConcatAt ==
  ASSUME NEW s \in Seq(Nat), NEW t \in Seq(Nat)
  PROVE  /\ Len(s) \in Nat /\ Len(t) \in Nat
         /\ s \o t \in Seq(Nat) /\ Len(s \o t) = Len(s) + Len(t)
         /\ \A i \in 1 .. Len(s) : (s \o t)[i] = s[i]
         /\ \A i \in 1 .. Len(t) : (s \o t)[Len(s) + i] = t[i]
OBVIOUS

\* The first items of a concatenation.
LEMMA ConcatFirst ==
  ASSUME NEW s \in Seq(Nat), NEW t \in Seq(Nat), Len(t) > 0
  PROVE  /\ Len(s) = 1 => Len(s \o t) = 1 + Len(t) /\ (s \o t)[1] = s[1] /\ (s \o t)[2] = t[1]
         /\ Len(s) = 2 => /\ Len(s \o t) = 2 + Len(t)
                          /\ (s \o t)[1] = s[1] /\ (s \o t)[2] = s[2] /\ (s \o t)[3] = t[1]
<1>1. /\ Len(t) \in Nat /\ Len(s \o t) = Len(s) + Len(t)
      /\ \A i \in 1 .. Len(s) : (s \o t)[i] = s[i]
      /\ \A i \in 1 .. Len(t) : (s \o t)[Len(s) + i] = t[i]
  BY ConcatAt
<1>2. (s \o t)[Len(s) + 1] = t[1]
  BY <1>1
<1>3. CASE Len(s) = 1
  BY <1>1, <1>2, <1>3
<1>4. CASE Len(s) = 2
  BY <1>1, <1>2, <1>4
<1> QED
  BY <1>3, <1>4

LEMMA SameSeq ==
  ASSUME NEW s \in Seq(Nat), NEW t \in Seq(Nat), Len(s) = Len(t),
         \A i \in 1 .. Len(s) : s[i] = t[i]
  PROVE  s = t
OBVIOUS

\* Of a text and the digits after it neither can be longer than the other's.
LEMMA NotLonger ==
  ASSUME NEW a \in Seq(Nat), NEW x \in Seq(Nat), NEW b \in Seq(Nat), NEW y \in Seq(Nat),
         a \o x = b \o y, \A i \in 1 .. Len(x) : x[i] <= 9, EndsOpen(b)
  PROVE  Len(b) <= Len(a)
<1> SUFFICES ASSUME Len(a) < Len(b) PROVE FALSE
  BY ConcatAt
<1> DEFINE i == Len(b) - Len(a)
<1>1. Len(a) \in Nat /\ Len(b) \in Nat /\ Len(x) \in Nat /\ Len(y) \in Nat
  BY ConcatAt
<1>2. Len(a) + Len(x) = Len(b) + Len(y)
  BY ConcatAt
<1>3. i \in 1 .. Len(x) /\ Len(a) + i = Len(b) /\ Len(b) \in 1 .. Len(b)
  BY <1>1, <1>2
<1>4. /\ \A j \in 1 .. Len(x) : (a \o x)[Len(a) + j] = x[j]
      /\ \A j \in 1 .. Len(b) : (b \o y)[j] = b[j]
  BY ConcatAt
<1>5. x[i] = b[Len(b)]
  BY <1>3, <1>4
<1>6. b # <<>> /\ b[Len(b)] \in Nat /\ x[i] \in Nat
  BY <1>1, <1>3
<1> HIDE DEF i
<1>7. b[Len(b)] > 9 /\ x[i] <= 9
  BY <1>3, <1>6 DEF EndsOpen
<1> QED
  BY <1>5, <1>6, <1>7

LEMMA SplitAgain ==
  ASSUME NEW a \in Seq(Nat), NEW x \in Seq(Nat), NEW b \in Seq(Nat), NEW y \in Seq(Nat),
         a \o x = b \o y, EndsOpen(a), EndsOpen(b),
         \A i \in 1 .. Len(x) : x[i] <= 9, \A i \in 1 .. Len(y) : y[i] <= 9
  PROVE  a = b /\ x = y
<1>1. Len(a) \in Nat /\ Len(b) \in Nat /\ Len(x) \in Nat /\ Len(y) \in Nat
  BY ConcatAt
<1>2. Len(a) = Len(b)
  <2>1. Len(a) <= Len(b) /\ Len(b) <= Len(a)
    BY NotLonger
  <2> QED
    BY <1>1, <2>1
<1>3. Len(x) = Len(y)
  <2>1. Len(a) + Len(x) = Len(b) + Len(y)
    BY ConcatAt
  <2> QED
    BY <1>1, <1>2, <2>1
<1>4. \A i \in 1 .. Len(a) : a[i] = b[i]
  BY <1>2, ConcatAt
<1>5. \A i \in 1 .. Len(x) : x[i] = y[i]
  <2>1. /\ \A i \in 1 .. Len(x) : (a \o x)[Len(a) + i] = x[i]
        /\ \A i \in 1 .. Len(y) : (b \o y)[Len(b) + i] = y[i]
    BY ConcatAt
  <2> QED
    BY <1>2, <1>3, <2>1
<1> QED
  BY <1>2, <1>3, <1>4, <1>5, SameSeq

LEMMA ShortConcat ==
  /\ \A a \in Nat : <<>> \o <<>> \o <<a>> = <<a>>
  /\ \A a, b \in Nat : <<>> \o <<a>> \o <<b>> = <<a, b>>
  /\ \A a, b, c \in Nat : <<a>> \o <<b>> \o <<c>> = <<a, b, c>>
<1>1. \A t \in Seq(Nat) : <<>> \o t = t
  OBVIOUS
<1>2. <<>> \in Seq(Nat) /\ \A a \in Nat : <<a>> \in Seq(Nat) /\ Len(<<a>>) = 1 /\ <<a>>[1] = a
  OBVIOUS
<1>3. ASSUME NEW a \in Nat, NEW b \in Nat PROVE <<a>> \o <<b>> = <<a, b>>
  <2>1. <<a, b>> \in Seq(Nat) /\ Len(<<a, b>>) = 2 /\ <<a, b>>[1] = a /\ <<a, b>>[2] = b
    OBVIOUS
  <2> DEFINE s == <<a>>
             t == <<b>>
             whole == <<a, b>>
  <2>2. s \in Seq(Nat) /\ t \in Seq(Nat) /\ Len(s) = 1 /\ Len(t) = 1 /\ s[1] = a /\ t[1] = b
    BY <1>2
  <2>3. whole \in Seq(Nat) /\ Len(whole) = 2 /\ whole[1] = a /\ whole[2] = b
    BY <2>1
  <2> HIDE DEF s, t, whole
  <2>4. s \o t \in Seq(Nat) /\ Len(s \o t) = 2 /\ (s \o t)[1] = a /\ (s \o t)[2] = b
    BY <2>2, ConcatAt
  <2>5. \A i \in 1 .. 2 : (s \o t)[i] = whole[i]
    BY <2>3, <2>4
  <2> QED
    BY <2>3, <2>4, <2>5, SameSeq DEF s, t, whole
<1>4. ASSUME NEW a \in Nat, NEW b \in Nat, NEW c \in Nat PROVE <<a>> \o <<b>> \o <<c>> = <<a, b, c>>
  <2> DEFINE s == <<a, b>>
             t == <<c>>
             whole == <<a, b, c>>
  <2>1. s \in Seq(Nat) /\ Len(s) = 2 /\ s[1] = a /\ s[2] = b
    OBVIOUS
  <2>2. t \in Seq(Nat) /\ Len(t) = 1 /\ t[1] = c
    BY <1>2
  <2>3. whole \in Seq(Nat) /\ Len(whole) = 3 /\ whole[1] = a /\ whole[2] = b /\ whole[3] = c
    OBVIOUS
  <2>4. <<a>> \o <<b>> = s
    BY <1>3
  <2> HIDE DEF s, t, whole
  <2>5. s \o t \in Seq(Nat) /\ Len(s \o t) = 3 /\ (s \o t)[1] = a /\ (s \o t)[2] = b /\ (s \o t)[3] = c
    <3>0. s \o t \in Seq(Nat) /\ Len(s \o t) = Len(s) + Len(t)
      BY <2>1, <2>2, ConcatAt
    <3>1. s \o t \in Seq(Nat) /\ Len(s \o t) = 3
      BY <2>1, <2>2, <3>0
    <3>2. (s \o t)[1] = s[1] /\ (s \o t)[2] = s[2] /\ (s \o t)[3] = t[1]
      BY <2>1, <2>2, ConcatFirst
    <3> QED
      BY <2>1, <2>2, <3>1, <3>2
  <2>6. \A i \in 1 .. 3 : (s \o t)[i] = whole[i]
    BY <2>3, <2>5
  <2>7. s \o t = whole
    BY <2>3, <2>5, <2>6, SameSeq
  <2> QED
    BY <2>4, <2>7 DEF t, whole
<1>5. <<>> \o <<>> = <<>>
  BY <1>1, <1>2
<1>6. \A a, b \in Nat : <<>> \o <<a>> \o <<b>> = <<a, b>>
  <2> SUFFICES ASSUME NEW a \in Nat, NEW b \in Nat PROVE <<>> \o <<a>> \o <<b>> = <<a, b>>
    OBVIOUS
  <2>1. <<>> \o <<a>> = <<a>>
    BY <1>1, <1>2
  <2> QED
    BY <1>3, <2>1, Zenon
<1>7. \A a \in Nat : <<>> \o <<>> \o <<a>> = <<a>>
  <2> SUFFICES ASSUME NEW a \in Nat PROVE <<>> \o <<>> \o <<a>> = <<a>>
    OBVIOUS
  <2>1. <<>> \o <<a>> = <<a>>
    BY <1>1, <1>2
  <2> QED
    BY <1>5, <2>1, Zenon
<1>8. \A a, b, c \in Nat : <<a>> \o <<b>> \o <<c>> = <<a, b, c>>
  BY <1>4, Zenon
<1> QED
  BY <1>6, <1>7, <1>8, Zenon

\* The digits of a byte: three at most, and a leading zero only of zero.
LEMMA ByteDigits ==
  ASSUME NEW n \in 0 .. 255
  PROVE  /\ Decimal(n) \in Seq(Nat) /\ Len(Decimal(n)) > 0
         /\ \A i \in 1 .. Len(Decimal(n)) : Decimal(n)[i] <= 9
         /\ Decimal(n)[1] = 0 => Len(Decimal(n)) = 1
         /\ n \in 1 .. 9 => Decimal(n) = <<n>>
         /\ n = 10 => Decimal(n) = <<1, 0>>
<1>1. n \div 100 \in 0 .. 2 /\ (n \div 10) % 10 \in 0 .. 9 /\ n % 10 \in 0 .. 9
  OBVIOUS
<1>2. CASE n < 10
  <2>1. ~(n >= 100) /\ ~(n >= 10) /\ n % 10 = n /\ n \in Nat
    BY <1>2
  <2>2. Decimal(n) = <<>> \o <<>> \o <<n>>
    BY <2>1 DEF Decimal
  <2>3. Decimal(n) = <<n>>
    BY <2>1, <2>2, ShortConcat
  <2> QED
    BY <1>2, <2>3
<1>3. CASE n >= 10 /\ n < 100
  <2>1. Decimal(n) = <<>> \o <<(n \div 10) % 10>> \o <<n % 10>>
    BY <1>3 DEF Decimal
  <2>2. Decimal(n) = <<(n \div 10) % 10, n % 10>>
    BY <1>1, <2>1, ShortConcat
  <2>3. (n \div 10) % 10 # 0
    BY <1>3
  <2>4. n = 10 => (n \div 10) % 10 = 1 /\ n % 10 = 0
    OBVIOUS
  <2> QED
    BY <1>1, <1>3, <2>2, <2>3, <2>4
<1>4. CASE n >= 100
  <2>1. Decimal(n) = <<n \div 100, (n \div 10) % 10, n % 10>>
    BY <1>1, <1>4, ShortConcat DEF Decimal
  <2>2. n \div 100 # 0
    BY <1>4
  <2> QED
    BY <1>1, <1>4, <2>1, <2>2
<1> QED
  BY <1>2, <1>3, <1>4

\* A type's number and a byte after it tell the type.
LEMMA TypeShows ==
  ASSUME NEW m \in 1 .. 10, NEW n \in 1 .. 10, NEW p \in 0 .. 255, NEW q \in 0 .. 255,
         Decimal(m) \o Decimal(p) = Decimal(n) \o Decimal(q)
  PROVE  m = n
<1> DEFINE c == Decimal(m) \o Decimal(p)
<1>1. /\ Decimal(p) \in Seq(Nat) /\ Len(Decimal(p)) > 0 /\ Decimal(q) \in Seq(Nat) /\ Len(Decimal(q)) > 0
      /\ Decimal(p)[1] = 0 => Len(Decimal(p)) = 1
      /\ Decimal(q)[1] = 0 => Len(Decimal(q)) = 1
  BY ByteDigits
<1>2. ASSUME NEW k \in 1 .. 10, NEW r \in Seq(Nat), Len(r) > 0
      PROVE  /\ k = 10 => /\ Len(Decimal(k) \o r) = 2 + Len(r)
                           /\ (Decimal(k) \o r)[1] = 1 /\ (Decimal(k) \o r)[2] = 0
             /\ k # 10 => /\ Len(Decimal(k) \o r) = 1 + Len(r)
                           /\ (Decimal(k) \o r)[1] = k /\ (Decimal(k) \o r)[2] = r[1]
  <2>1. /\ k \in 0 .. 255
        /\ k # 10 => k \in 1 .. 9
    OBVIOUS
  <2>2. /\ Decimal(k) \in Seq(Nat)
        /\ k \in 1 .. 9 => Decimal(k) = <<k>>
        /\ k = 10 => Decimal(k) = <<1, 0>>
    BY <2>1, ByteDigits
  <2> DEFINE s == Decimal(k)
  <2>3. k = 10 => Len(s) = 2 /\ s[1] = 1 /\ s[2] = 0
    <3>1. Len(<<1, 0>>) = 2 /\ <<1, 0>>[1] = 1 /\ <<1, 0>>[2] = 0
      OBVIOUS
    <3> QED
      BY <2>2, <3>1
  <2>4. k # 10 => Len(s) = 1 /\ s[1] = k
    <3>1. Len(<<k>>) = 1 /\ <<k>>[1] = k
      OBVIOUS
    <3> QED
      BY <2>1, <2>2, <3>1
  <2>5. s \in Seq(Nat)
    BY <2>2
  <2> HIDE DEF s
  <2>6. /\ Len(s) = 1 => Len(s \o r) = 1 + Len(r) /\ (s \o r)[1] = s[1] /\ (s \o r)[2] = r[1]
        /\ Len(s) = 2 => Len(s \o r) = 2 + Len(r) /\ (s \o r)[1] = s[1] /\ (s \o r)[2] = s[2]
    BY <1>2, <2>5, ConcatFirst
  <2>7. CASE k = 10
    BY <2>3, <2>6, <2>7 DEF s
  <2>8. CASE k # 10
    BY <2>4, <2>6, <2>8 DEF s
  <2> QED
    BY <2>7, <2>8
<1>3. Len(Decimal(p)) \in Nat /\ Len(Decimal(q)) \in Nat
  BY <1>1
<1>4. /\ m = 10 => Len(c) = 2 + Len(Decimal(p)) /\ c[1] = 1 /\ c[2] = 0
      /\ m # 10 => Len(c) = 1 + Len(Decimal(p)) /\ c[1] = m /\ c[2] = Decimal(p)[1]
  BY <1>1, <1>2
<1>5. c = Decimal(n) \o Decimal(q)
  OBVIOUS
<1> HIDE DEF c
<1>6. /\ n = 10 => Len(c) = 2 + Len(Decimal(q)) /\ c[1] = 1 /\ c[2] = 0
      /\ n # 10 => Len(c) = 1 + Len(Decimal(q)) /\ c[1] = n /\ c[2] = Decimal(q)[1]
  BY <1>1, <1>2, <1>5
<1> DEFINE u == Decimal(p)
           v == Decimal(q)
<1>7. Len(u) \in Nat \ {0} /\ Len(v) \in Nat \ {0} /\ (u[1] = 0 => Len(u) = 1) /\ (v[1] = 0 => Len(v) = 1)
  BY <1>1, <1>3
<1> HIDE DEF u, v
<1>8. CASE m = 10 /\ n # 10
  <2>1. Len(c) = 2 + Len(u) /\ c[2] = 0 /\ Len(c) = 1 + Len(v) /\ c[2] = v[1]
    BY <1>4, <1>6, <1>8 DEF u, v
  <2>2. Len(v) = 1
    BY <1>7, <2>1
  <2>3. 2 + Len(u) = 1 + Len(v)
    BY <2>1, Zenon
  <2> QED
    BY <1>7, <2>2, <2>3
<1>9. CASE m # 10 /\ n = 10
  <2>1. Len(c) = 1 + Len(u) /\ c[2] = u[1] /\ Len(c) = 2 + Len(v) /\ c[2] = 0
    BY <1>4, <1>6, <1>9 DEF u, v
  <2>2. Len(u) = 1
    BY <1>7, <2>1
  <2>3. 2 + Len(v) = 1 + Len(u)
    BY <2>1, Zenon
  <2> QED
    BY <1>7, <2>2, <2>3
<1>10. CASE m # 10 /\ n # 10
  <2>1. c[1] = m /\ c[1] = n
    BY <1>4, <1>6, <1>10
  <2> QED
    BY <2>1
<1> QED
  BY <1>8, <1>9, <1>10

LEMMA DigitsConcat ==
  ASSUME NEW s \in Seq(Nat), NEW t \in Seq(Nat),
         \A i \in 1 .. Len(s) : s[i] <= 9, \A i \in 1 .. Len(t) : t[i] <= 9
  PROVE  s \o t \in Seq(Nat) /\ \A i \in 1 .. Len(s \o t) : (s \o t)[i] <= 9
<1>1. /\ Len(s) \in Nat /\ Len(t) \in Nat
      /\ s \o t \in Seq(Nat) /\ Len(s \o t) = Len(s) + Len(t)
      /\ \A i \in 1 .. Len(s) : (s \o t)[i] = s[i]
      /\ \A i \in 1 .. Len(t) : (s \o t)[Len(s) + i] = t[i]
  BY ConcatAt
<1> SUFFICES ASSUME NEW i \in 1 .. Len(s \o t) PROVE (s \o t)[i] <= 9
  BY <1>1
<1>2. CASE i \in 1 .. Len(s)
  BY <1>1, <1>2
<1>3. CASE i \notin 1 .. Len(s)
  <2>1. i - Len(s) \in 1 .. Len(t) /\ Len(s) + (i - Len(s)) = i
    BY <1>1, <1>3
  <2>2. (s \o t)[i] = t[i - Len(s)]
    BY <1>1, <2>1
  <2> QED
    BY <2>1, <2>2
<1> QED
  BY <1>2, <1>3

LEMMA ConcatAgain ==
  ASSUME NEW s \in Seq(Nat), NEW t \in Seq(Nat), NEW r \in Seq(Nat)
  PROVE  (s \o t) \o r = s \o (t \o r)
OBVIOUS

LEMMA TypeNumbers ==
  /\ \A t \in DeviceTypes : TypeNumber[t] \in 1 .. 10
  /\ \A t, u \in DeviceTypes : TypeNumber[t] = TypeNumber[u] => t = u
BY DEF TypeNumber, DeviceTypes

\* No name ends in a digit, and no two devices have both the same type and name.
NamesTell ==
  /\ \A d \in Devices : EndsOpen(DeviceList[d].name)
  /\ \A d, e \in Devices : DeviceList[d] = DeviceList[e] => d = e

LEMMA IdTells ==
  ASSUME TypeOK, NamesTell, NEW d \in Devices, NEW e \in Devices, UniqueId(d) = UniqueId(e)
  PROVE  d = e
<1> DEFINE Name(x) == DeviceList[x].name
           Type(x) == Decimal(TypeNumber[TypeOf(x)])
           Rest(x) == Decimal(number[x])
<1>1. ASSUME NEW x \in Devices
      PROVE  /\ Name(x) \in Seq(Nat) /\ EndsOpen(Name(x)) /\ TypeNumber[TypeOf(x)] \in 1 .. 10
             /\ number[x] \in 0 .. 255 /\ Type(x) \in Seq(Nat) /\ Rest(x) \in Seq(Nat)
             /\ Type(x) \o Rest(x) \in Seq(Nat)
             /\ \A i \in 1 .. Len(Type(x) \o Rest(x)) : (Type(x) \o Rest(x))[i] <= 9
             /\ UniqueId(x) = Name(x) \o (Type(x) \o Rest(x))
  <2>1. Name(x) \in Seq(Nat) /\ EndsOpen(Name(x))
    BY Entries, EntryFields DEF Names, NamesTell
  <2>2. TypeNumber[TypeOf(x)] \in 1 .. 10 /\ TypeNumber[TypeOf(x)] \in 0 .. 255
    BY DevicesAre, TypeNumbers
  <2>3. number[x] \in 0 .. 255
    BY BytesAssumption DEF TypeOK
  <2>4. /\ Type(x) \in Seq(Nat) /\ \A i \in 1 .. Len(Type(x)) : Type(x)[i] <= 9
        /\ Rest(x) \in Seq(Nat) /\ \A i \in 1 .. Len(Rest(x)) : Rest(x)[i] <= 9
    BY <2>2, <2>3, ByteDigits
  <2>5. UniqueId(x) = Name(x) \o Type(x) \o Rest(x)
    BY DEF UniqueId
  <2> HIDE DEF Name, Type, Rest
  <2>6. /\ Type(x) \o Rest(x) \in Seq(Nat)
        /\ \A i \in 1 .. Len(Type(x) \o Rest(x)) : (Type(x) \o Rest(x))[i] <= 9
    BY <2>4, DigitsConcat
  <2>7. UniqueId(x) = Name(x) \o (Type(x) \o Rest(x))
    BY <2>1, <2>4, <2>5, ConcatAgain
  <2> QED
    BY <2>1, <2>2, <2>3, <2>4, <2>6, <2>7
<1>2. Name(d) = Name(e) /\ Type(d) \o Rest(d) = Type(e) \o Rest(e)
  <2> HIDE DEF Name, Type, Rest
  <2> QED
    BY <1>1, SplitAgain
<1>3. TypeNumber[TypeOf(d)] = TypeNumber[TypeOf(e)]
  <2> DEFINE m == TypeNumber[TypeOf(d)]
             n == TypeNumber[TypeOf(e)]
             p == number[d]
             q == number[e]
  <2>1. m \in 1 .. 10 /\ n \in 1 .. 10 /\ p \in 0 .. 255 /\ q \in 0 .. 255
    BY <1>1
  <2>2. Decimal(m) \o Decimal(p) = Decimal(n) \o Decimal(q)
    BY <1>2
  <2> HIDE DEF m, n, p, q
  <2>3. m = n
    BY <2>1, <2>2, TypeShows
  <2> QED
    BY <2>3 DEF m, n
<1>4. TypeOf(d) = TypeOf(e)
  BY <1>3, DevicesAre, TypeNumbers
<1>5. DeviceList[d] = DeviceList[e]
  <2>1. DeviceList[d].name = DeviceList[e].name /\ DeviceList[d].type = DeviceList[e].type
    BY <1>2, <1>4 DEF TypeOf
  <2>2. \A x, y \in Entry : x.name = y.name /\ x.type = y.type => x = y
    BY DEF Entry
  <2> QED
    BY <2>1, <2>2, Entries
<1> QED
  BY <1>5 DEF NamesTell

\* A device's _unique_id is unwritten, half written or its own.
OwnIds == \A d \in Devices : ids[d] \in {None, Cleared, UniqueId(d)}

LEMMA OwnIdsStep == TypeOK /\ OwnIds /\ [Next]_vars => OwnIds'
<1> SUFFICES ASSUME TypeOK, OwnIds, [Next]_vars PROVE OwnIds'
  OBVIOUS
<1>1. ASSUME NEW type \in DeviceTypes, ClearId(type) \/ WriteId(type) PROVE OwnIds'
  <2> DEFINE device == CursorDevice(type)
  <2>1. device \in Devices
    BY <1>1, AtCursorType DEF ClearId, WriteId
  <2>2. UNCHANGED number /\ \E id \in {Cleared, UniqueId(device)} : ids' = [ids EXCEPT ![device] = id]
    BY <1>1 DEF ClearId, WriteId
  <2> HIDE DEF device
  <2>3. \A d \in Devices : UniqueId(d)' = UniqueId(d)
    BY <2>2 DEF UniqueId
  <2>4. \A d \in Devices : ids'[d] \in {ids[d], Cleared, UniqueId(d)}
    <3>1. PICK id \in {Cleared, UniqueId(device)} : ids' = [ids EXCEPT ![device] = id]
      BY <2>2
    <3>2. ids'[device] = id /\ \A d \in Devices : d # device => ids'[d] = ids[d]
      BY <2>1, <3>1 DEF TypeOK
    <3> QED
      BY <3>2
  <2> QED
    BY <2>3, <2>4 DEF OwnIds
<1>2. CASE Restart
  BY <1>2 DEF Restart, OwnIds
<1>3. ASSUME UNCHANGED <<ids, number>> PROVE OwnIds'
  <2>1. \A d \in Devices : UniqueId(d)' = UniqueId(d)
    BY <1>3 DEF UniqueId
  <2> QED
    BY <1>3, <2>1 DEF OwnIds
<1>4. CASE Construct \/ EndIds \/ RegisterManagement \/ Abort \/ End \/ Serve
  BY <1>3, <1>4 DEF Construct, EndIds, RegisterManagement, Abort, End, Serve
<1>5. ASSUME \/ \E s \in Servers : Begin(s) \/ List(s)
             \/ \E type \in DeviceTypes : RegisterDevice(type)
      PROVE  OwnIds'
  BY <1>3, <1>5 DEF Begin, List, RegisterDevice
<1>6. CASE UNCHANGED vars
  BY <1>3, <1>6 DEF vars
<1> QED
  BY <1>1, <1>2, <1>4, <1>5, <1>6 DEF Next, Startup

\* The unique ids are unique, whatever is left over in _number, in an application
\* that gives no two devices of a type the same name and ends no name in a digit.
THEOREM DifferentNamesSuffice == NamesTell => (Spec => []IdsAreUnique)
<1> SUFFICES ASSUME NamesTell PROVE Spec => []IdsAreUnique
  OBVIOUS
<1>1. Init => OwnIds
  BY DEF Init, OwnIds
<1>2. TypeOK /\ OwnIds => IdsAreUnique
  <2> SUFFICES ASSUME TypeOK, OwnIds, NEW d \in Devices, NEW e \in Devices,
                      ids[d] \notin {None, Cleared}, ids[d] = ids[e]
               PROVE  d = e
    BY DEF IdsAreUnique
  <2>1. UniqueId(d) = UniqueId(e)
    BY DEF OwnIds
  <2> QED
    BY <2>1, IdTells
<1> QED
  BY <1>1, <1>2, OwnIdsStep, TypeCorrect, PTL DEF Spec
=============================================================================
