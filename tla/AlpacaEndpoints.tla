-------------------------- MODULE AlpacaEndpoints --------------------------
(***************************************************************************)
(* The device endpoints of the HTTP API: one record per handler of api.cpp *)
(* that a route reaches.  The handlers share their prologue and their      *)
(* epilogue (AlpacaApi); what distinguishes them is the device type they   *)
(* cast to, the parameters they look up and how they convert them, and the *)
(* kind of value they reply with.                                          *)
(***************************************************************************)
EXTENDS Naturals, Sequences

(***************************************************************************)
(* A parameter: its key, the conversion that must succeed before the       *)
(* driver is called, and whether cJSON_GetObjectItem (any case) or         *)
(* cJSON_GetObjectItemCaseSensitive looks it up.                           *)
(***************************************************************************)
Param(key, kind) == [key |-> key, kind |-> kind, anyCase |-> FALSE]
AnyCase(key, kind) == [key |-> key, kind |-> kind, anyCase |-> TRUE]

\* hidesErrors: when the driver returns an error, the client gets 400 and nothing
\* else instead of 200 with the error in the JSON.
Endpoint(type, verb, name, params, value) ==
  [type |-> type, verb |-> verb, name |-> name, params |-> params, value |-> value,
   hidesErrors |-> FALSE]

\* Getters without parameters, commands without parameters, and setters of one.
Gets(type, names, value) == {Endpoint(type, "GET", n, <<>>, value) : n \in names}
Commands(type, names) == {Endpoint(type, "PUT", n, <<>>, "none") : n \in names}
Put(type, name, params) == {Endpoint(type, "PUT", name, params, "none")}

\* register_camera_routes and register_telescope_routes are empty: these two
\* types have the common endpoints only.
DeviceTypes == {"camera", "covercalibrator", "dome", "filterwheel", "focuser",
                "observingconditions", "rotator", "safetymonitor", "switch", "telescope"}

-----------------------------------------------------------------------------
(* Parameters as the strings a request carries, up to what the conversions *)
(* tell apart.  "true" stands for every casing of it; strtol and strtod    *)
(* take the empty string for 0 and reject what leaves a rest; the itoa     *)
(* round trip of calibratoron also rejects the empty string.               *)

Values == {"true", "false", "1", "12", "1.5", "", "junk"}

Accepted ==
  [text |-> Values,
   bool |-> {"true", "false"},
   atoi |-> {"1", "12"},
   long |-> {"1", "12", ""},
   real |-> {"1", "12", "1.5", ""}]

\* The number a value starts with, as atoi, strtol, atof and strtod find it.
Atoi(v) == CASE v = "12" -> 12 [] v \in {"1", "1.5"} -> 1 [] OTHER -> 0
LeadingInteger(v) == CASE v = "12" -> "12" [] v \in {"1", "1.5"} -> "1" [] OTHER -> "0"
LeadingReal(v) == IF v \in {"1", "12", "1.5"} THEN v ELSE "0"

\* Proper prefixes of a value ("1." is left out: strtod takes it for "1",
\* strtol rejects it like "1.5").
Shortened ==
  [v \in Values |->
     CASE v = "12" -> {"1", ""}
       [] v = "1.5" -> {"1", ""}
       [] v = "1" -> {""}
       [] v = "" -> {}
       [] OTHER -> {"junk", ""}]

-----------------------------------------------------------------------------
(* What every device answers.                                              *)

CommonCommands(type) ==
  {Endpoint(type, "PUT", "action", <<Param("Action", "text"), Param("Parameters", "text")>>,
            "longText"),
   Endpoint(type, "PUT", "commandblind", <<Param("Command", "text"), Param("Raw", "bool")>>,
            "none"),
   Endpoint(type, "PUT", "commandbool", <<Param("Command", "text"), Param("Raw", "bool")>>,
            "bool"),
   Endpoint(type, "PUT", "commandstring", <<Param("Command", "text"), Param("Raw", "bool")>>,
            "longText")}
CommonConnected(type) ==
  Gets(type, {"connected"}, "bool") \cup Put(type, "connected", <<Param("Connected", "bool")>>)
CommonInfo(type) ==
  Gets(type, {"description", "driverinfo", "driverversion", "name"}, "text")
    \cup Gets(type, {"interfaceversion"}, "number")
    \cup Gets(type, {"supportedactions"}, "list")

Common(type) == CommonCommands(type) \cup CommonConnected(type) \cup CommonInfo(type)

-----------------------------------------------------------------------------
CoverCalibratorState ==
  Gets("covercalibrator", {"brightness", "calibratorstate", "coverstate", "maxbrightness"},
       "number")
CoverCalibratorCommands ==
  Commands("covercalibrator", {"calibratoroff", "closecover", "haltcover", "opencover"})
    \cup Put("covercalibrator", "calibratoron", <<Param("Brightness", "atoi")>>)

DomePosition == Gets("dome", {"altitude", "azimuth"}, "number")
                  \cup Gets("dome", {"athome", "atpark"}, "bool")
DomeAbilities ==
  Gets("dome", {"canfindhome", "canpark", "cansetaltitude", "cansetazimuth"}, "bool")
DomeMoreAbilities ==
  Gets("dome", {"cansetpark", "cansetshutter", "canslave", "cansyncazimuth"}, "bool")
DomeStatus ==
  Gets("dome", {"shutterstatus"}, "number") \cup Gets("dome", {"slaved", "slewing"}, "bool")
    \cup Put("dome", "slaved", <<Param("Slaved", "bool")>>)
DomeCommands == Commands("dome", {"abortslew", "closeshutter", "findhome", "openshutter", "park"})
DomeMotion ==
  Commands("dome", {"setpark"})
    \cup Put("dome", "slewtoaltitude", <<Param("Altitude", "real")>>)
    \cup UNION {Put("dome", n, <<Param("Azimuth", "real")>>) :
                  n \in {"slewtoazimuth", "synctoazimuth"}}

FilterWheel ==
  Gets("filterwheel", {"focusoffsets", "names"}, "list")
    \cup Gets("filterwheel", {"position"}, "number")
    \cup Put("filterwheel", "position", <<Param("Position", "long")>>)

FocuserLimits == Gets("focuser", {"absolute", "ismoving"}, "bool")
                   \cup Gets("focuser", {"maxincrement", "maxstep"}, "number")
FocuserState ==
  Gets("focuser", {"position", "stepsize"}, "number") \cup Gets("focuser", {"tempcomp"}, "bool")
    \cup Put("focuser", "tempcomp", <<Param("TempComp", "bool")>>)
FocuserMotion ==
  Gets("focuser", {"tempcompavailable"}, "bool") \cup Gets("focuser", {"temperature"}, "number")
    \cup Commands("focuser", {"halt"}) \cup Put("focuser", "move", <<Param("Position", "long")>>)

ObservingAverages ==
  Gets("observingconditions", {"averageperiod", "cloudcover", "dewpoint"}, "number")
    \cup Put("observingconditions", "averageperiod", <<Param("AveragePeriod", "real")>>)
ObservingAir ==
  Gets("observingconditions", {"humidity", "pressure", "rainrate", "skybrightness"}, "number")
ObservingSky ==
  Gets("observingconditions", {"skyquality", "skytemperature", "starfwhm", "temperature"},
       "number")
ObservingWind ==
  Gets("observingconditions", {"winddirection", "windgust", "windspeed"}, "number")
    \cup Commands("observingconditions", {"refresh"})
ObservingSensors ==
  {Endpoint("observingconditions", "GET", "sensordescription", <<Param("SensorName", "text")>>,
            "longText")}
    \cup Gets("observingconditions", {"timesincelastupdate"}, "number")

RotatorPosition == Gets("rotator", {"canreverse", "ismoving"}, "bool")
                     \cup Gets("rotator", {"mechanicalposition", "position"}, "number")
RotatorState ==
  Gets("rotator", {"reverse"}, "bool") \cup Gets("rotator", {"stepsize", "targetposition"}, "number")
    \cup Put("rotator", "reverse", <<Param("Reverse", "bool")>>)
RotatorMotion ==
  Commands("rotator", {"halt"})
    \cup UNION {Put("rotator", n, <<Param("Position", "real")>>) : n \in {"move", "moveabsolute"}}
RotatorCalibration ==
  UNION {Put("rotator", n, <<Param("Position", "real")>>) : n \in {"movemechanical", "sync"}}

SafetyMonitor == Gets("safetymonitor", {"issafe"}, "bool")

SwitchGet(name, value) == {Endpoint("switch", "GET", name, <<AnyCase("Id", "long")>>, value)}
SwitchState == Gets("switch", {"maxswitch"}, "number")
                 \cup SwitchGet("canwrite", "bool") \cup SwitchGet("getswitch", "bool")
SwitchTexts == SwitchGet("getswitchdescription", "longText") \cup SwitchGet("getswitchname", "longText")
SwitchRange == UNION {SwitchGet(n, "number") :
                        n \in {"getswitchvalue", "minswitchvalue", "maxswitchvalue"}}
SwitchSetters ==
  Put("switch", "setswitch", <<Param("Id", "long"), Param("State", "bool")>>)
    \cup Put("switch", "setswitchname", <<Param("Id", "long"), Param("Name", "text")>>)
    \cup Put("switch", "setswitchvalue", <<Param("Id", "long"), Param("Value", "real")>>)
SwitchStep == SwitchGet("switchstep", "number")

EndpointsOf ==
  [type \in DeviceTypes |->
     Common(type) \cup
     CASE type = "covercalibrator" -> CoverCalibratorState \cup CoverCalibratorCommands
       [] type = "dome" -> DomePosition \cup DomeAbilities \cup DomeMoreAbilities
                             \cup DomeStatus \cup DomeCommands \cup DomeMotion
       [] type = "filterwheel" -> FilterWheel
       [] type = "focuser" -> FocuserLimits \cup FocuserState \cup FocuserMotion
       [] type = "observingconditions" -> ObservingAverages \cup ObservingAir \cup ObservingSky
                                            \cup ObservingWind \cup ObservingSensors
       [] type = "rotator" -> RotatorPosition \cup RotatorState \cup RotatorMotion
                                \cup RotatorCalibration
       [] type = "safetymonitor" -> SafetyMonitor
       [] type = "switch" -> SwitchState \cup SwitchTexts \cup SwitchRange \cup SwitchSetters
                               \cup SwitchStep
       [] OTHER -> {}]

DeviceEndpoints == UNION {EndpointsOf[type] : type \in DeviceTypes}

-----------------------------------------------------------------------------
(* The management endpoints: no device, no parameters.                     *)

ApiVersions == Endpoint("management", "GET", "apiversions", <<>>, "number")
Description == Endpoint("management", "GET", "description", <<>>, "object")
ConfiguredDevices == Endpoint("management", "GET", "configureddevices", <<>>, "object")

ManagementEndpoints == {ApiVersions, Description, ConfiguredDevices}

(***************************************************************************)
(* send_json_response prints into 512 bytes.  Booleans, numbers and the    *)
(* texts of at most 127 bytes always fit; the others need not.             *)
(***************************************************************************)
MayOverflow(e) == e.value \in {"longText", "list", "object"}
=============================================================================
