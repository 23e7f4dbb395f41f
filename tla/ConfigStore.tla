---------------------------- MODULE ConfigStore ----------------------------
(***************************************************************************)
(* The configuration: g_config in RAM, its copy in flash                   *)
(* (src/src/nvs_storage.c), the web requests that change it                *)
(* (src/src/web_server.c) and the sensor bindings kept in it               *)
(* (src/src/espnow_handler.c).                                             *)
(*                                                                         *)
(* The HTTP server has one task, so requests come one after another; but   *)
(* each changes RAM first and flash later, in one save or in several, any  *)
(* of which may fail, and the power may go at any moment.  ESP-NOW reads   *)
(* the RAM copy at any time.                                               *)
(*                                                                         *)
(* GPIOs and sensors are abstract values; the settings nothing here        *)
(* depends on (addresses, names, modes, polarity) are one field, other,    *)
(* whose value Invalid stands for what start-up repairs.                   *)
(***************************************************************************)
EXTENDS Naturals, FiniteSets

CONSTANTS
  Function,     \* the logical outputs PROBE, XLIMIT, ... a set of numbers
  Gpio,         \* the GPIOs the page offers for outputs and the STATE pin: 4, 5, 6, 7, 10
  OddGpio,      \* a GPIO start-up lets pass as STATE pin and the page does not
  NoPin,        \* -1, disabled
  ZeroPin,      \* 0, in a configuration that was never set
  Sensor,       \* sensors
  NoSensor,     \* no binding
  Ssid,         \* WiFi networks
  MaxNetworks,  \* MAX_KNOWN_NETWORKS
  Good,         \* the other settings, where they are valid; Default is one of them
  Default,
  Invalid,
  Older,        \* what an older firmware may have left in flash: any pins, as far as is known
  MaxFailures   \* bound on failing saves since one succeeded, or since start-up

ASSUME ConfigAssumption ==
  /\ Function \subseteq Nat /\ MaxNetworks \in Nat /\ MaxFailures \in Nat
  /\ OddGpio \notin Gpio /\ NoPin \notin Gpio \cup {OddGpio}
  /\ ZeroPin \notin Gpio \cup {OddGpio, NoPin}
  /\ NoSensor \notin Sensor /\ Default \in Good /\ Invalid \notin Good

VARIABLES
  ram,        \* g_config
  flash,      \* the stored blob: its layout and its contents
  opened,     \* nvs_handle_storage is not 0
  http,       \* what the HTTP task does next: a request, or the rest of one
  candidate,  \* the configuration posted to /settings, while it is being applied
  unassign,   \* the functions whose binding that is about to remove
  reply,      \* the answer to the last request
  failures    \* failing writes, see MaxFailures

configVars == <<ram, flash, opened, http, candidate, unassign, reply, failures>>

Pins == Gpio \cup {OddGpio, NoPin, ZeroPin}

Config == [networks : SUBSET Ssid, other : Good \cup {Invalid}, state_pin : Pins,
           outputs : [Function -> Pins], bindings : [Function -> Sensor \cup {NoSensor}]]

NoOutputs == [f \in Function |-> NoPin]
NoBindings == [f \in Function |-> NoSensor]

\* init_default_config; the networks of MyWiFiData.h are none.
DefaultConfig ==
  [networks |-> {}, other |-> Default, state_pin |-> NoPin, outputs |-> NoOutputs,
   bindings |-> NoBindings]

\* g_config as the C start-up leaves it.
Zeroed ==
  [networks |-> {}, other |-> Invalid, state_pin |-> ZeroPin,
   outputs |-> [f \in Function |-> ZeroPin], bindings |-> NoBindings]

\* The blob's layout is told by its size.  Older ones lack the polarity mask ("v3"),
\* also the bindings ("v2"), also the outputs ("v1").
Layout == {"none", "v1", "v2", "v3", "current", "unknown"}

ASSUME OlderAssumption == Older \subseteq [layout : Layout, config : Config]

-----------------------------------------------------------------------------
(* Start-up                                                                *)

\* nvs_storage_load_config; without a blob of a known size, the defaults.
Load(blob) ==
  CASE blob.layout \in {"current", "v3"} -> blob.config
    [] blob.layout = "v2" -> [blob.config EXCEPT !.bindings = NoBindings]
    [] blob.layout = "v1" -> [blob.config EXCEPT !.outputs = NoOutputs, !.bindings = NoBindings]
    [] OTHER -> DefaultConfig

\* Mutant of Sane: an output is not compared with the STATE pin.
SaneIgnoresStatePin(f, c) ==
  /\ c.outputs[f] \in Gpio
  /\ ~\E g \in Function : g < f /\ c.outputs[g] = c.outputs[f]

\* Is output f one the GPIO validation lets stand?  An earlier output with the same
\* GPIO wins, and the STATE pin wins over both.
Sane(f, c) ==
  /\ c.outputs[f] \in Gpio /\ c.outputs[f] # c.state_pin
  /\ ~\E g \in Function : g < f /\ c.outputs[g] = c.outputs[f]

\* The corrections of nvs_storage_init.
Sanitised(c) ==
  [c EXCEPT !.other = IF @ = Invalid THEN Default ELSE @,
            !.outputs = [f \in Function |-> IF Sane(f, c) THEN c.outputs[f] ELSE NoPin]]

\* What the bridge comes up with.
Booted(blob) == Sanitised(Load(blob))

Stored(c) == [layout |-> "current", config |-> c]

\* nvs_storage_init saves what it corrected of the other settings, before or after it
\* corrects the outputs, and the defaults where there was nothing to load.  Whether
\* that write succeeds is not asked.
RepairedBlob ==
  IF flash.layout \in {"none", "unknown"} THEN {Stored(DefaultConfig)}
  ELSE IF Load(flash).other = Invalid
    THEN {Stored([Load(flash) EXCEPT !.other = Default]), Stored(Booted(flash))}
  ELSE {}

Boot ==
  /\ http = "off"
  /\ opened' = TRUE
  /\ ram' = Booted(flash)
  /\ flash' \in RepairedBlob \cup {flash}
  /\ http' = "idle" /\ reply' = "none"
  /\ UNCHANGED <<candidate, unassign, failures>>

\* nvs_open fails: nothing is loaded, not even the defaults.
BootWithoutFlash ==
  /\ http = "off"
  /\ opened' = FALSE
  /\ ram' = Zeroed
  /\ http' = "idle" /\ reply' = "none"
  /\ failures' = 0
  /\ UNCHANGED <<flash, candidate, unassign>>

\* Power loss, a crash or esp_restart, at any time.
Off ==
  /\ http' = "off" /\ reply' = "none" /\ opened' = FALSE
  /\ ram' = Zeroed
  /\ candidate' = Zeroed /\ unassign' = {}

Restart == http # "off" /\ Off /\ UNCHANGED <<flash, failures>>

-----------------------------------------------------------------------------
(* nvs_storage_save_config                                                 *)

\* done and failed: what the HTTP task does next, and its reply.
WriteSucceeds(done) ==
  /\ opened
  /\ flash' = Stored(ram)
  /\ failures' = 0
  /\ http' = done[1] /\ reply' = done[2]

\* Mutant of WriteFails: the result of nvs_commit is not looked at.
WriteFailsUnseen(done, failed) ==
  /\ failures < MaxFailures
  /\ failures' = failures + 1
  /\ UNCHANGED flash
  /\ http' = done[1] /\ reply' = done[2]

\* nvs_set_blob or nvs_commit fails; after the latter the blob may be there or not.
\* Without an open flash every save fails.
WriteFails(done, failed) ==
  /\ failures < MaxFailures
  /\ failures' = failures + 1
  /\ flash' \in IF opened THEN {flash, Stored(ram)} ELSE {flash}
  /\ http' = failed[1] /\ reply' = failed[2]

Save(done, failed) == WriteSucceeds(done) \/ WriteFails(done, failed)

-----------------------------------------------------------------------------
(* api_post_handler, /settings                                             *)

PinError(c) ==
  \/ c.state_pin \notin Gpio \cup {NoPin}
  \/ \E f, g \in Function : f # g /\ c.outputs[f] # NoPin /\ c.outputs[f] = c.outputs[g]
  \/ \E f \in Function : c.outputs[f] # NoPin /\ c.outputs[f] = c.state_pin

\* What may be posted: any of the fields, the rest as it is.  An output field with a
\* GPIO that is not offered is refused like the errors above.
Posted ==
  [networks : {ram.networks}, other : Good \cup {Invalid},
   state_pin : Gpio \cup {NoPin, ram.state_pin}, outputs : [Function -> Gpio \cup {NoPin}],
   bindings : {ram.bindings}]

\* Without an open flash, requests stop when MaxFailures saves have failed.
Request == http = "idle" /\ reply' = "none" /\ (opened \/ failures < MaxFailures)

SettingsRejected ==
  /\ http = "idle"
  /\ \E c \in Posted : PinError(c)
  /\ reply' = "rejected"
  /\ UNCHANGED <<ram, flash, opened, http, candidate, unassign, failures>>

Disabled(c) == {f \in Function : c.outputs[f] = NoPin /\ ram.bindings[f] # NoSensor}

\* Mutant of WithoutDisabled: the candidate keeps the bindings it was copied with.
WithoutDisabledNot(c) == c

WithoutDisabled(c) ==
  [c EXCEPT !.bindings = [f \in Function |-> IF f \in Disabled(c) THEN NoSensor ELSE @[f]]]

\* Without bindings to remove, *cfg = candidate follows at once.
Settings ==
  /\ Request
  /\ \E c \in Posted :
       /\ ~PinError(c)
       /\ unassign' = Disabled(c)
       /\ IF Disabled(c) = {}
            THEN ram' = c /\ http' = "save_settings" /\ UNCHANGED candidate
            ELSE candidate' = WithoutDisabled(c) /\ http' = "settings" /\ UNCHANGED ram
  /\ UNCHANGED <<flash, opened, failures>>

First(S) == CHOOSE f \in S : \A g \in S : f <= g

\* espnow_unassign_sensor for the next function whose output is disabled, up to its save.
SettingsUnassign ==
  /\ http = "settings" /\ unassign # {}
  /\ ram' = [ram EXCEPT !.bindings[First(unassign)] = NoSensor]
  /\ unassign' = unassign \ {First(unassign)}
  /\ http' = "save_unassign"
  /\ UNCHANGED <<flash, opened, candidate, reply, failures>>

SettingsUnassignSave ==
  /\ http = "save_unassign"
  /\ \/ WriteSucceeds(<<"settings", "none">>) /\ UNCHANGED <<candidate, unassign>>
     \/ /\ WriteFails(<<"settings", "none">>, <<"idle", "error">>)
        /\ candidate' = Zeroed /\ unassign' = {}
  /\ UNCHANGED <<ram, opened>>

\* All are removed: *cfg = candidate.
SettingsCommit ==
  /\ http = "settings" /\ unassign = {}
  /\ ram' = candidate
  /\ candidate' = Zeroed
  /\ http' = "save_settings"
  /\ UNCHANGED <<flash, opened, unassign, reply, failures>>

SettingsSave ==
  /\ http = "save_settings"
  /\ Save(<<"idle", "saved">>, <<"idle", "error">>)
  /\ UNCHANGED <<ram, opened, candidate, unassign>>

-----------------------------------------------------------------------------
(* Bindings: espnow_assign_sensor and espnow_unassign_sensor               *)

\* Mutant of Elsewhere: another function may have the sensor already.
ElsewhereIgnored(f, s) == FALSE

Elsewhere(f, s) == \E g \in Function : g # f /\ ram.bindings[g] = s

\* The sensor is no peer of the new protocol at the moment, or has another function.
AssignRejected(f, s) ==
  /\ http = "idle"
  /\ reply' = "rejected"
  /\ UNCHANGED <<ram, flash, opened, http, candidate, unassign, failures>>

\* It replaces the sensor the function had, which is not told.  Whether the output
\* is enabled is left to the page.
Assign(f, s) ==
  /\ Request
  /\ ~Elsewhere(f, s)
  /\ ram' = [ram EXCEPT !.bindings[f] = s]
  /\ http' = "save_binding"
  /\ UNCHANGED <<flash, opened, candidate, unassign, failures>>

\* Mutant of Unassign: the address is cleared, its bit in the mask is not.
UnassignKeepsBit(f) ==
  /\ Request
  /\ ram' = [ram EXCEPT !.bindings[f] = ZeroPin]
  /\ http' = "save_binding"
  /\ UNCHANGED <<flash, opened, candidate, unassign, failures>>

Unassign(f) ==
  /\ Request
  /\ ram' = [ram EXCEPT !.bindings[f] = NoSensor]
  /\ http' = "save_binding"
  /\ UNCHANGED <<flash, opened, candidate, unassign, failures>>

BindingSave ==
  /\ http = "save_binding"
  /\ Save(<<"idle", "ok">>, <<"idle", "error">>)
  /\ UNCHANGED <<ram, opened, candidate, unassign>>

-----------------------------------------------------------------------------
(* Requests that do not look at the result of their save                   *)

TableFull == Cardinality(ram.networks) >= MaxNetworks

\* A new network, or a new password for a known one; the limit is looked at first.
AddNetwork(n) ==
  /\ Request
  /\ ~TableFull
  /\ ram' = [ram EXCEPT !.networks = @ \cup {n}]
  /\ http' = "save_unseen"
  /\ UNCHANGED <<flash, opened, candidate, unassign, failures>>

\* The table is full, a known network to add included, or the network to remove is
\* not in it: OK all the same.
NetworkIgnored(n) ==
  /\ http = "idle"
  /\ TableFull \/ n \notin ram.networks
  /\ reply' = "unseen"
  /\ UNCHANGED <<ram, flash, opened, http, candidate, unassign, failures>>

RemoveNetwork(n) ==
  /\ Request
  /\ n \in ram.networks
  /\ ram' = [ram EXCEPT !.networks = @ \ {n}]
  /\ http' = "save_unseen"
  /\ UNCHANGED <<flash, opened, candidate, unassign, failures>>

\* debug_post_handler.
SetDebug(v) ==
  /\ Request
  /\ ram' = [ram EXCEPT !.other = v]
  /\ http' = "save_unseen"
  /\ UNCHANGED <<flash, opened, candidate, unassign, failures>>

UnseenSave ==
  /\ http = "save_unseen"
  /\ Save(<<"idle", "unseen">>, <<"idle", "unseen">>)
  /\ UNCHANGED <<ram, opened, candidate, unassign>>

\* reset_post_handler: defaults, a save nobody checks, and a restart.
Reset ==
  /\ Request
  /\ ram' = DefaultConfig
  /\ http' = "save_reset"
  /\ UNCHANGED <<flash, opened, candidate, unassign, failures>>

ResetSave ==
  /\ http = "save_reset"
  /\ Save(<<"restarting", "unseen">>, <<"restarting", "unseen">>)
  /\ UNCHANGED <<ram, opened, candidate, unassign>>

-----------------------------------------------------------------------------
\* An older firmware, or none, has left its blob.
ConfigInit ==
  /\ flash \in Older
  /\ http = "off" /\ reply = "none" /\ opened = FALSE
  /\ ram = Zeroed /\ candidate = Zeroed
  /\ unassign = {} /\ failures = 0

ConfigNext ==
  \/ Boot \/ BootWithoutFlash \/ Restart
  \/ SettingsRejected \/ Settings \/ SettingsUnassign \/ SettingsUnassignSave
  \/ SettingsCommit \/ SettingsSave
  \/ \E f \in Function :
       Unassign(f) \/ \E s \in Sensor : Assign(f, s) \/ AssignRejected(f, s)
  \/ BindingSave
  \/ \E n \in Ssid : AddNetwork(n) \/ NetworkIgnored(n) \/ RemoveNetwork(n)
  \/ \E v \in Good : SetDebug(v)
  \/ UnseenSave \/ Reset \/ ResetSave

-----------------------------------------------------------------------------
ConfigTypeOK ==
  /\ ram \in Config /\ candidate \in Config
  /\ flash \in [layout : Layout, config : Config]
  /\ opened \in BOOLEAN
  /\ http \in {"off", "idle", "settings", "save_unassign", "save_settings", "save_binding",
               "save_unseen", "save_reset", "restarting"}
  /\ unassign \subseteq Function
  /\ reply \in {"none", "saved", "ok", "error", "rejected", "unseen"}
  /\ failures \in 0..MaxFailures

\* No GPIO has two uses in the configuration the bridge works with, whatever blob it
\* started from, whichever writes failed and while settings are being applied.
PinsApart ==
  \A f \in Function :
    ram.outputs[f] \in Gpio =>
      /\ ram.outputs[f] # ram.state_pin
      /\ \A g \in Function \ {f} : ram.outputs[g] # ram.outputs[f]

\* A sensor has at most one function, in RAM and in what a restart would load.
OneFunctionPerSensor ==
  \A f, g \in Function : \A c \in {ram, Load(flash)} :
    f # g /\ c.bindings[f] # NoSensor => c.bindings[f] # c.bindings[g]

\* Settings answered with "saved" leave no sensor bound to an output they disabled.
SavedUnbinds ==
  reply = "saved" =>
    \A f \in Function : ram.outputs[f] = NoPin => ram.bindings[f] = NoSensor

\* What was answered with "saved" or "ok" is what the bridge has after a restart: it
\* is in flash, and start-up finds nothing to correct in it but the other settings.
RestartKeeps ==
  reply \in {"saved", "ok"} =>
    [Booted(flash) EXCEPT !.other = Default] = [ram EXCEPT !.other = Default]

=============================================================================
