------------------------------ MODULE MCSettings ------------------------------
(***************************************************************************)
(* Two settings, a boolean and a number, with values in range, between two *)
(* steps, out of range and of another type, and one foreign key; five      *)
(* stores to start from.                                                   *)
(***************************************************************************)
EXTENDS SettingsModal, TLC

MCKeys == {"enabled", "limit"}
MCValues == {"on", "off", "low", "high", "half", "over", "text", "junk", "unset"}

MCTyped == "enabled" :> {"on", "off"} @@ "limit" :> {"low", "high", "half", "over"}
MCFits == "enabled" :> {"on", "off"} @@ "limit" :> {"low", "high"}
MCBound == [v \in MCValues |-> IF v = "over" THEN "high" ELSE v]
MCDefault == "enabled" :> "on" @@ "limit" :> "low"
MCWidth == [v \in MCValues |-> IF v \in {"low", "high"} THEN 1 ELSE 2]

\* A step past a limit goes to the other limit; a step from a value of another
\* type makes another such value.
MCArrows == [v \in MCValues |->
  CASE v = "on" -> {"off"} [] v = "off" -> {"on"}
    [] v = "low" -> {"high"} [] v = "high" -> {"low"} [] v = "half" -> {"low", "high"}
    [] v = "over" -> {"low", "high", "half", "over"} [] OTHER -> {"junk"}]
MCFlip == [v \in MCValues |-> IF v = "off" THEN "on" ELSE "off"]
MCTyping == "enabled" :> {} @@ "limit" :> {"low", "high", "half"}

Object(data) == [state |-> "object", data |-> data, mtime |-> 0]
Broken == [NoFile EXCEPT !.state = "broken"]
NoEnv == [k \in MCKeys |-> "unset"]

Fine == Object("limit" :> "high" @@ "extra" :> "text")
Wild == Object("enabled" :> "on" @@ "limit" :> "over" @@ "extra" :> "text")
Store(g, p, e, f) == [files |-> [global |-> g, project |-> p], env |-> e, frozen |-> f]

MCStores ==
  {Store(NoFile, NoFile, NoEnv, {}),
   Store(Fine, Object("enabled" :> "off"), NoEnv, {}),
   Store(Wild, Broken, [NoEnv EXCEPT !["limit"] = "over"], {}),
   Store(Fine, Wild, NoEnv, {"global"}),
   Store(Object("limit" :> "text"), Fine, [NoEnv EXCEPT !["enabled"] = "off"], {"project"})}

MCForeignFiles == {Object("limit" :> "low" @@ "extra" :> "text"), Broken}
===============================================================================
