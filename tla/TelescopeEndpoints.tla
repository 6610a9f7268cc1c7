------------------------- MODULE TelescopeEndpoints -------------------------
(***************************************************************************)
(* The telescope handlers of api.cpp.  register_telescope_routes registers *)
(* none of them, so no request of a client reaches one: they are modelled  *)
(* as what a caller of the handler functions gets, in the same form as the *)
(* endpoints that have a route.                                            *)
(*                                                                         *)
(* They differ in two ways.  Most of their setters read numbers and        *)
(* Booleans with cJSON_GetNumberValue and cJSON_IsBool, while parse_string *)
(* puts only strings into the body; and the handlers without parameters    *)
(* answer 400 when the driver fails.                                       *)
(***************************************************************************)
EXTENDS AlpacaEndpoints

HidingErrors(endpoints) == {[e EXCEPT !.hidesErrors = TRUE] : e \in endpoints}

Reads(names, value) == HidingErrors(Gets("telescope", names, value))
Moves(names) == HidingErrors(Commands("telescope", names))
Sets(name, key, kind) == Put("telescope", name, <<AnyCase(key, kind)>>)
SetsTwo(name, key1, key2, kind1, kind2) ==
  Put("telescope", name, <<AnyCase(key1, kind1), AnyCase(key2, kind2)>>)
Asks(name, params, value) == {Endpoint("telescope", "GET", name, params, value)}

-----------------------------------------------------------------------------
TelescopeOptics == Reads({"alignmentmode", "altitude", "aperturearea", "aperturediameter"}, "number")
TelescopePosition == Reads({"athome", "atpark"}, "bool") \cup Reads({"azimuth"}, "number")
                       \cup Reads({"canfindhome"}, "bool")
TelescopeAbilities1 ==
  Reads({"canpark", "canpulseguide", "cansetdeclinationrate", "cansetguiderates"}, "bool")
TelescopeAbilities2 ==
  Reads({"cansetpark", "cansetpierside", "cansetrightascensionrate", "cansettracking"}, "bool")
TelescopeAbilities3 == Reads({"canslew", "canslewaltaz", "canslewaltazasync", "canslewasync"}, "bool")
TelescopeAbilities4 == Reads({"cansync", "cansyncaltaz", "canunpark"}, "bool")
                         \cup Reads({"declination"}, "number")
TelescopeDeclination ==
  Reads({"declinationrate"}, "number") \cup Sets("declinationrate", "DeclinationRate", "number")
    \cup Reads({"doesrefraction"}, "bool") \cup Sets("doesrefraction", "DoesRefraction", "jsonBool")
TelescopeGuiding1 ==
  Reads({"equatorialsystem", "focallength", "guideratedeclination"}, "number")
    \cup Sets("guideratedeclination", "GuideRateDeclination", "number")
TelescopeGuiding2 ==
  Reads({"guideraterightascension"}, "number")
    \cup Sets("guideraterightascension", "GuideRateRightAscension", "number")
    \cup Reads({"ispulseguiding"}, "bool") \cup Reads({"rightascension"}, "number")
TelescopePier ==
  Reads({"rightascensionrate", "sideofpier"}, "number")
    \cup Sets("rightascensionrate", "RightAscensionRate", "number")
    \cup Sets("sideofpier", "SideOfPier", "pier")
TelescopeSite1 == Reads({"siderealtime", "siteelevation", "sitelatitude"}, "number")
                    \cup Sets("siteelevation", "SiteElevation", "number")
TelescopeSite2 == Sets("sitelatitude", "SiteLatitude", "number")
                    \cup Reads({"sitelongitude"}, "number")
                    \cup Sets("sitelongitude", "SiteLongitude", "number")
                    \cup Reads({"slewing"}, "bool")
TelescopeTarget1 == Reads({"slewsettletime", "targetdeclination"}, "number")
                      \cup Sets("slewsettletime", "SlewSettleTime", "integer")
                      \cup Sets("targetdeclination", "TargetDeclination", "number")
TelescopeTarget2 == Reads({"targetrightascension"}, "number")
                      \cup Sets("targetrightascension", "TargetRightAscension", "number")
                      \cup Reads({"tracking"}, "bool") \cup Sets("tracking", "Tracking", "jsonBool")
TelescopeRates == Reads({"trackingrate"}, "number") \cup Reads({"trackingrates"}, "list")
                    \cup Sets("trackingrate", "TrackingRate", "rate")
                    \cup Reads({"utcdate"}, "longText")
TelescopeAxes ==
  Sets("utcdate", "UTCDate", "date") \cup Moves({"abortslew"})
    \cup Asks("axisrates", <<AnyCase("Axis", "axis")>>, "list")
TelescopeQuestions ==
  Asks("canmoveaxis", <<AnyCase("Axis", "axis")>>, "bool")
    \cup Asks("destinationsideofpier",
              <<AnyCase("RightAscension", "angle"), AnyCase("Declination", "angle")>>, "number")
    \cup Moves({"findhome"})
TelescopeMotion ==
  SetsTwo("moveaxis", "Axis", "Rate", "integer", "number") \cup Moves({"park", "setpark"})
    \cup SetsTwo("pulseguide", "Direction", "Duration", "integer", "integer")
TelescopeSlews ==
  SetsTwo("slewtoaltazasync", "Azimuth", "Altitude", "number", "number")
    \cup SetsTwo("slewtocoordinatesasync", "RightAscension", "Declination", "number", "number")
    \cup Moves({"slewtotargetasync"})
TelescopeSyncs ==
  SetsTwo("synctoaltaz", "Azimuth", "Altitude", "number", "number")
    \cup SetsTwo("synctocoordinates", "RightAscension", "Declination", "number", "number")
    \cup Moves({"synctotarget", "unpark"})

TelescopeHandlers ==
  TelescopeOptics \cup TelescopePosition \cup TelescopeAbilities1 \cup TelescopeAbilities2
    \cup TelescopeAbilities3 \cup TelescopeAbilities4 \cup TelescopeDeclination
    \cup TelescopeGuiding1 \cup TelescopeGuiding2 \cup TelescopePier \cup TelescopeSite1
    \cup TelescopeSite2 \cup TelescopeTarget1 \cup TelescopeTarget2 \cup TelescopeRates
    \cup TelescopeAxes \cup TelescopeQuestions \cup TelescopeMotion \cup TelescopeSlews
    \cup TelescopeSyncs

-----------------------------------------------------------------------------
(* What a handler makes of a parameter, given its value or Missing: the    *)
(* arguments it may call the driver with, Refused when it answers 400      *)
(* without a call, Crash when it aborts the program.                       *)

Missing == "missing"
Refused == "refused"
Crash == "crash"

\* The kinds that convert the text of a value, and what they make of it.
Accepts(kind) ==
  CASE kind \in {"axis", "angle"} -> Values
    [] kind = "date" -> Values \ {""}
    [] OTHER -> Accepted[kind]

Converted(kind, v) ==
  CASE kind \in {"atoi", "long", "axis"} -> LeadingInteger(v)
    [] kind \in {"real", "angle"} -> LeadingReal(v)
    [] OTHER -> v

\* The kinds that expect a number or a Boolean in the body, which holds strings:
\* cJSON_GetNumberValue returns NaN, which no comparison with NAN refuses, whose
\* conversion to an integer may give any, and which fails every range check;
\* cJSON_IsBool is false.
LostKinds == {"number", "integer", "pier", "rate", "jsonBool"}
AnyInteger == {"0", "1", "12"}
Lost(kind) ==
  CASE kind = "number" -> {"NaN"}
    [] kind = "integer" -> AnyInteger
    [] kind = "pier" -> AnyInteger \cup {Refused}
    [] OTHER -> {Refused}

\* Wrong on purpose: what is left after the conversion of a value is not looked at.
MeaningsUnchecked(kind, v) ==
  IF kind \in LostKinds THEN Lost(kind)
  ELSE {IF v = Missing THEN Refused ELSE Converted(kind, v)}

\* std::string(NULL) aborts when there is no UTCDate.
Meanings(kind, v) ==
  IF kind \in LostKinds THEN Lost(kind)
  ELSE {CASE v = Missing -> IF kind = "date" THEN Crash ELSE Refused
          [] v # Missing /\ v \in Accepts(kind) -> Converted(kind, v)
          [] OTHER -> Refused}
=============================================================================
