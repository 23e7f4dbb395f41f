------------------------------ MODULE MCBridge ------------------------------
(***************************************************************************)
(* Four parts of the bridge with small bounds: the Telnet server with the  *)
(* STATE pin, the LED, the WiFi manager and the configuration.  They share *)
(* no variable once the bridge runs (the first and the third read the      *)
(* configuration at boot; the LED is given any clients), so each behaviour *)
(* moves one of them and the others stay where they start.                 *)
(***************************************************************************)
EXTENDS StatePin, StatusLed, WifiManager, ConfigStore

CONSTANTS s1, w1

VARIABLE part   \* the part that moves

bridgeVars == <<part, vars, ledVars, wifiVars, configVars>>

SetupOf(pinMode, clientMode, reset) ==
  [state_pin_mode |-> pinMode, client_mode |-> clientMode, reset_on_disconnect |-> reset]

\* Each client mode, both levels.
MCSetups == {SetupOf(0, 0, TRUE), SetupOf(1, 1, FALSE), SetupOf(1, 2, TRUE)}

Blob(layout, statePin, out1, out2, sensor, value) ==
  [layout |-> layout,
   config |-> [networks |-> {w1}, other |-> value, state_pin |-> statePin,
               outputs |-> <<out1, out2>>,
               bindings |-> <<sensor, NoSensor>>]]

\* Blobs of every layout, with pins used twice where the layout has them.
MCOlder ==
  {Blob("none", NoPin, NoPin, NoPin, NoSensor, Invalid),
   Blob("v1", OddGpio, NoPin, NoPin, NoSensor, Invalid),
   Blob("v2", 4, 4, 5, NoSensor, Default),
   Blob("v3", 5, 4, 4, s1, Default),
   Blob("v3", 5, 5, 4, s1, Invalid),
   Blob("unknown", 5, 4, 4, s1, Default)}

Still(p) == part # p

MCInit ==
  /\ part \in {"telnet", "led", "wifi", "config"}
  /\ Init /\ LedInit /\ WifiInit /\ ConfigInit
  /\ Still("telnet") => paired = FALSE /\ setup = CHOOSE s \in Setups : TRUE
  /\ Still("wifi") => sta_config = NoNet /\ InRange = {}
  /\ Still("config") => flash = CHOOSE b \in Older : TRUE

Telnet(A) == part = "telnet" /\ A /\ UNCHANGED <<part, ledVars, wifiVars, configVars>>
Led(A) == part = "led" /\ A /\ UNCHANGED <<part, vars, wifiVars, configVars>>
Wifi(A) == part = "wifi" /\ A /\ UNCHANGED <<part, vars, ledVars, configVars>>
Store(A) == part = "config" /\ A /\ UNCHANGED <<part, vars, ledVars, wifiVars>>

MCNext == Telnet(Next) \/ Led(LedNext) \/ Wifi(WifiNext) \/ Store(ConfigNext)

\* The tasks run; the driver answers every request to connect, and accepts one now
\* and then while the network is in range.
MCFairness ==
  /\ WF_bridgeVars(Telnet(ServerStep)) /\ WF_bridgeVars(Telnet(Monitor))
  /\ WF_bridgeVars(Wifi(Main)) /\ \A t \in Task : WF_bridgeVars(Wifi(Reconnect(t)))
  /\ WF_bridgeVars(Wifi(Answer)) /\ SF_bridgeVars(Wifi(GotIp))

MCSpec == MCInit /\ [][MCNext]_bridgeVars /\ MCFairness

\* The server comes back to select, if every send ends; see ServerComesBack.
TelnetComesBack == part = "telnet" => ServerComesBack
\* The STATE pin follows the clients; see PinFollows.
TelnetPinFollows == part = "telnet" => PinFollows
=============================================================================
