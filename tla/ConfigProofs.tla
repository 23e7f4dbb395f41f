---------------------------- MODULE ConfigProofs ----------------------------
(***************************************************************************)
(* The configuration through requests, failing writes and restarts: proofs *)
(* that no GPIO has two uses, that no sensor has two functions, and that   *)
(* what was answered with "saved" or "ok" is what a restart finds, for any *)
(* outputs, GPIOs, sensors and networks and whatever blob was in flash.    *)
(*                                                                         *)
(* There are three configurations in play, the one in RAM, the one posted  *)
(* and not yet in force, and the one a restart would load, so each promise *)
(* is a predicate of a configuration that the operations hand on from one  *)
(* to another.  What start-up corrects is then the same predicate seen     *)
(* from the other side: a configuration that has it is left alone.         *)
(***************************************************************************)
EXTENDS ConfigStore, TLAPS

-----------------------------------------------------------------------------
(* Configurations                                                          *)

LEMMA ConfigFields ==
  ASSUME NEW c \in Config
  PROVE  /\ c.networks \subseteq Ssid /\ c.other \in Good \cup {Invalid} /\ c.state_pin \in Pins
         /\ c.outputs \in [Function -> Pins]
         /\ c.bindings \in [Function -> Sensor \cup {NoSensor}]
BY DEF Config

LEMMA InitialConfigs == DefaultConfig \in Config /\ Zeroed \in Config
BY ConfigAssumption
   DEF DefaultConfig, Zeroed, Config, NoOutputs, NoBindings, Pins

LEMMA LoadTyped ==
  ASSUME NEW blob \in [layout : Layout, config : Config]
  PROVE  Load(blob) \in Config
<1>1. blob.config \in Config /\ NoBindings \in [Function -> Sensor \cup {NoSensor}]
      /\ NoOutputs \in [Function -> Pins]
  BY DEF NoBindings, NoOutputs, Pins
<1>2. [blob.config EXCEPT !.bindings = NoBindings] \in Config
  BY <1>1 DEF Config
<1>3. [blob.config EXCEPT !.outputs = NoOutputs, !.bindings = NoBindings] \in Config
  BY <1>1 DEF Config
<1> QED
  BY <1>1, <1>2, <1>3, InitialConfigs DEF Load

LEMMA SanitisedTyped ==
  ASSUME NEW c \in Config
  PROVE  Sanitised(c) \in Config
<1>1. [f \in Function |-> IF Sane(f, c) THEN c.outputs[f] ELSE NoPin] \in [Function -> Pins]
  BY DEF Config, Pins
<1>2. (IF c.other = Invalid THEN Default ELSE c.other) \in Good \cup {Invalid}
  BY ConfigAssumption DEF Config
<1> QED
  BY <1>1, <1>2 DEF Sanitised, Config

LEMMA StoredTyped ==
  ASSUME NEW c \in Config
  PROVE  Stored(c) \in [layout : Layout, config : Config] /\ Load(Stored(c)) = c
BY DEF Stored, Load, Layout

LEMMA PostedTyped ==
  ASSUME ram \in Config, NEW c \in Posted
  PROVE  c \in Config /\ c.bindings = ram.bindings /\ c.networks = ram.networks
         /\ c.outputs \in [Function -> Gpio \cup {NoPin}]
<1>1. ram.state_pin \in Pins
  BY DEF Config
<1> QED
  BY <1>1 DEF Posted, Config, Pins

-----------------------------------------------------------------------------
(* Types                                                                   *)

Blob == [layout : Layout, config : Config]

LEMMA WriteTyped ==
  ASSUME ConfigTypeOK, NEW done, NEW failed,
         WriteSucceeds(done) \/ WriteFails(done, failed)
  PROVE  flash' \in Blob /\ failures' \in 0..MaxFailures
<1>1. flash' \in {flash, Stored(ram)}
  BY DEF WriteSucceeds, WriteFails
<1>2. failures' \in 0..MaxFailures
  BY ConfigAssumption DEF WriteSucceeds, WriteFails, ConfigTypeOK
<1> QED
  BY <1>1, <1>2, StoredTyped DEF ConfigTypeOK, Blob

LEMMA TypedSteps ==
  ASSUME ConfigTypeOK, ConfigNext
  PROVE  ConfigTypeOK'
<1> USE DEF ConfigTypeOK
<1>1. CASE Boot
  <2>1. Load(flash) \in Config /\ Booted(flash) \in Config
    BY LoadTyped, SanitisedTyped DEF Booted
  <2>2. [Load(flash) EXCEPT !.other = Default] \in Config
    BY <2>1, ConfigAssumption DEF Config
  <2>3. RepairedBlob \subseteq Blob
    BY <2>1, <2>2, InitialConfigs, StoredTyped DEF RepairedBlob, Blob
  <2> QED
    BY <1>1, <2>1, <2>3 DEF Boot, Blob
<1>2. CASE BootWithoutFlash
  <2>1. opened' \in BOOLEAN
    BY <1>2 DEF BootWithoutFlash
  <2> QED
    BY <1>2, <2>1, InitialConfigs, ConfigAssumption DEF BootWithoutFlash
<1>3. CASE Restart
  BY <1>3, InitialConfigs DEF Restart, Off
<1>4. CASE SettingsRejected
  BY <1>4 DEF SettingsRejected
<1>5. CASE Settings
  <2>1. PICK c \in Posted :
          /\ unassign' = Disabled(c)
          /\ IF Disabled(c) = {}
               THEN ram' = c /\ http' = "save_settings" /\ UNCHANGED candidate
               ELSE candidate' = WithoutDisabled(c) /\ http' = "settings" /\ UNCHANGED ram
    BY <1>5 DEF Settings
  <2>2. c \in Config
    BY PostedTyped
  <2>3. WithoutDisabled(c) \in Config
    BY <2>2 DEF WithoutDisabled, Config
  <2>4. Disabled(c) \subseteq Function
    BY DEF Disabled
  <2> QED
    BY <1>5, <2>1, <2>2, <2>3, <2>4 DEF Settings, Request
<1>6. CASE SettingsUnassign
  <2>1. ram' \in Config
    BY <1>6 DEF SettingsUnassign, Config
  <2> QED
    BY <1>6, <2>1 DEF SettingsUnassign
<1>7. CASE SettingsUnassignSave
  BY <1>7, WriteTyped, InitialConfigs
     DEF SettingsUnassignSave, WriteSucceeds, WriteFails, Blob
<1>8. CASE SettingsCommit
  BY <1>8, InitialConfigs DEF SettingsCommit
<1>9. CASE SettingsSave \/ BindingSave \/ UnseenSave \/ ResetSave
  <2>1. flash' \in Blob /\ failures' \in 0..MaxFailures
    BY <1>9, WriteTyped DEF SettingsSave, BindingSave, UnseenSave, ResetSave, Save
  <2>2. UNCHANGED <<ram, opened, candidate, unassign>>
    BY <1>9 DEF SettingsSave, BindingSave, UnseenSave, ResetSave
  <2>3. http' \in {"idle", "restarting"} /\ reply' \in {"saved", "ok", "error", "unseen"}
    BY <1>9 DEF SettingsSave, BindingSave, UnseenSave, ResetSave, Save, WriteSucceeds, WriteFails
  <2> QED
    BY <2>1, <2>2, <2>3 DEF Blob
<1>10. ASSUME NEW f \in Function, NEW s \in Sensor \cup {NoSensor},
              Request, ram' = [ram EXCEPT !.bindings[f] = s], http' = "save_binding",
              UNCHANGED <<flash, opened, candidate, unassign, failures>>
       PROVE  ConfigTypeOK'
  <2>1. ram' \in Config
    BY <1>10 DEF Config
  <2> QED
    BY <1>10, <2>1 DEF Request
<1>11. ASSUME NEW f \in Function, NEW s \in Sensor, AssignRejected(f, s) PROVE ConfigTypeOK'
  BY <1>11 DEF AssignRejected
<1>12. ASSUME NEW n \in Ssid, AddNetwork(n) \/ RemoveNetwork(n) PROVE ConfigTypeOK'
  <2>1. ram' \in Config
    BY <1>12 DEF AddNetwork, RemoveNetwork, Config
  <2> QED
    BY <1>12, <2>1 DEF AddNetwork, RemoveNetwork, Request
<1>13. ASSUME NEW n \in Ssid, NetworkIgnored(n) PROVE ConfigTypeOK'
  BY <1>13 DEF NetworkIgnored
<1>14. ASSUME NEW v \in Good, SetDebug(v) PROVE ConfigTypeOK'
  <2>1. ram' \in Config
    BY <1>14 DEF SetDebug, Config
  <2> QED
    BY <1>14, <2>1 DEF SetDebug, Request
<1>15. CASE Reset
  BY <1>15, InitialConfigs DEF Reset, Request
<1> QED
  BY <1>1, <1>2, <1>3, <1>4, <1>5, <1>6, <1>7, <1>8, <1>9, <1>10, <1>11, <1>12, <1>13, <1>14,
     <1>15
     DEF ConfigNext, Assign, Unassign

LEMMA TypedInductive ==
  /\ ConfigInit => ConfigTypeOK
  /\ ConfigTypeOK /\ [ConfigNext]_configVars => ConfigTypeOK'
<1>1. ConfigInit => ConfigTypeOK
  <2> SUFFICES ASSUME ConfigInit PROVE ConfigTypeOK
    OBVIOUS
  <2>1. opened \in BOOLEAN
    BY DEF ConfigInit
  <2> QED
    BY <2>1, InitialConfigs, ConfigAssumption, OlderAssumption DEF ConfigInit, ConfigTypeOK
<1>2. ConfigTypeOK /\ UNCHANGED configVars => ConfigTypeOK'
  BY DEF ConfigTypeOK, configVars
<1> QED
  BY <1>1, <1>2, TypedSteps

\* RAM, flash and the posted configuration are configurations whatever happens, those
\* an older layout lacks parts of included.
THEOREM TypeCorrect == ConfigInit /\ [][ConfigNext]_configVars => []ConfigTypeOK
BY TypedInductive, PTL

-----------------------------------------------------------------------------
(* Predicates of a configuration                                           *)

\* No GPIO has two uses.
ApartIn(c) ==
  \A f \in Function :
    c.outputs[f] \in Gpio =>
      /\ c.outputs[f] # c.state_pin
      /\ \A g \in Function \ {f} : c.outputs[g] # c.outputs[f]

\* Every output has a GPIO the page offers, or none.
Clean(c) == c.outputs \in [Function -> Gpio \cup {NoPin}]

BoundOnce(c) ==
  \A f, g \in Function : f # g /\ c.bindings[f] # NoSensor => c.bindings[f] # c.bindings[g]

\* No sensor is bound to an output that is disabled.
Unbinds(c) == \A f \in Function : c.outputs[f] = NoPin => c.bindings[f] = NoSensor

\* Start-up makes a configuration so, whatever it was ...
LEMMA SanitisedIsClean ==
  ASSUME NEW c \in Config
  PROVE  /\ ApartIn(Sanitised(c)) /\ Clean(Sanitised(c))
         /\ Sanitised(c).bindings = c.bindings
<1> DEFINE s == Sanitised(c)
<1>1. \A f \in Function : s.outputs[f] = IF Sane(f, c) THEN c.outputs[f] ELSE NoPin
  BY DEF Sanitised, Config
<1>2. s.state_pin = c.state_pin /\ s.bindings = c.bindings
      /\ s.outputs \in [Function -> Gpio \cup {NoPin}]
  BY DEF Sanitised, Config, Sane
<1> HIDE DEF s
<1>3. ASSUME NEW f \in Function, s.outputs[f] \in Gpio
      PROVE  s.outputs[f] # s.state_pin /\ \A g \in Function \ {f} : s.outputs[g] # s.outputs[f]
  <2>1. Sane(f, c) /\ s.outputs[f] = c.outputs[f]
    BY <1>1, <1>3, ConfigAssumption
  <2>2. ASSUME NEW g \in Function \ {f}, s.outputs[g] = s.outputs[f] PROVE FALSE
    <3>1. Sane(g, c) /\ s.outputs[g] = c.outputs[g]
      BY <1>1, <1>3, <2>2, ConfigAssumption
    <3>2. f < g \/ g < f
      BY ConfigAssumption
    <3> QED
      BY <2>1, <2>2, <3>1, <3>2 DEF Sane
  <2> QED
    BY <1>2, <2>1, <2>2 DEF Sane
<1> QED
  BY <1>2, <1>3 DEF s, ApartIn, Clean

\* ... and changes nothing but the other settings in one that is so already.
LEMMA CleanIsKept ==
  ASSUME NEW c \in Config, ApartIn(c), Clean(c)
  PROVE  [Sanitised(c) EXCEPT !.other = Default] = [c EXCEPT !.other = Default]
<1>1. \A f \in Function : (IF Sane(f, c) THEN c.outputs[f] ELSE NoPin) = c.outputs[f]
  BY ConfigAssumption DEF Sane, ApartIn, Clean
<1>2. [f \in Function |-> IF Sane(f, c) THEN c.outputs[f] ELSE NoPin] = c.outputs
  BY <1>1 DEF Config
<1> QED
  BY <1>2 DEF Sanitised, Config

LEMMA InitialConfigsClean ==
  /\ ApartIn(Zeroed) /\ BoundOnce(Zeroed) /\ Unbinds(Zeroed)
  /\ ApartIn(DefaultConfig) /\ Clean(DefaultConfig) /\ BoundOnce(DefaultConfig)
BY ConfigAssumption
   DEF ApartIn, Clean, BoundOnce, Unbinds, Zeroed, DefaultConfig, NoOutputs, NoBindings

\* What /settings accepts is so, too.
LEMMA AcceptedIsClean ==
  ASSUME ram \in Config, NEW c \in Posted, ~PinError(c)
  PROVE  ApartIn(c) /\ Clean(c)
BY PostedTyped, ConfigAssumption DEF PinError, ApartIn, Clean

LEMMA WithoutDisabledUnbinds ==
  ASSUME ram \in Config, NEW c \in Posted
  PROVE  /\ Unbinds(WithoutDisabled(c))
         /\ Disabled(c) = {} => Unbinds(c)
         /\ BoundOnce(ram) => BoundOnce(c) /\ BoundOnce(WithoutDisabled(c))
         /\ ApartIn(c) => ApartIn(WithoutDisabled(c))
         /\ Clean(c) => Clean(WithoutDisabled(c))
<1>1. c \in Config /\ c.bindings = ram.bindings
  BY PostedTyped
<1> DEFINE w == WithoutDisabled(c)
<1>2. w.outputs = c.outputs /\ w.state_pin = c.state_pin
  BY <1>1 DEF WithoutDisabled, Config
<1>3. \A f \in Function : w.bindings[f] = IF f \in Disabled(c) THEN NoSensor ELSE c.bindings[f]
  BY <1>1 DEF WithoutDisabled, Config
<1> HIDE DEF w
<1>4. Unbinds(w) /\ (Disabled(c) = {} => Unbinds(c))
  BY <1>1, <1>2, <1>3 DEF Unbinds, Disabled
<1>5. BoundOnce(ram) => BoundOnce(c) /\ BoundOnce(w)
  BY <1>1, <1>3 DEF BoundOnce
<1> QED
  BY <1>2, <1>4, <1>5 DEF w, ApartIn, Clean

-----------------------------------------------------------------------------
(* What a step does to RAM and to the posted configuration                 *)

\* Requests that touch neither pins nor bindings.
OtherFields == ram'.outputs = ram.outputs /\ ram'.state_pin = ram.state_pin
               /\ ram'.bindings = ram.bindings

\* A binding made or removed: no other function has the sensor.
OneBinding ==
  \E f \in Function, s \in Sensor \cup {NoSensor} :
    /\ s # NoSensor => ~Elsewhere(f, s)
    /\ ram' = [ram EXCEPT !.bindings[f] = s]

LEMMA RamSteps ==
  ASSUME ConfigTypeOK, ConfigNext
  PROVE  \/ Boot \/ BootWithoutFlash \/ Restart \/ Settings \/ SettingsUnassign \/ SettingsCommit
         \/ Reset
         \/ OneBinding /\ UNCHANGED <<candidate, opened>>
         \/ OtherFields /\ UNCHANGED opened /\ candidate' \in {candidate, Zeroed}
<1>1. ASSUME NEW f \in Function, NEW s \in Sensor, Assign(f, s)
      PROVE  OneBinding /\ UNCHANGED <<candidate, opened>>
  BY <1>1 DEF Assign, OneBinding
<1>2. ASSUME NEW f \in Function, Unassign(f)
      PROVE  OneBinding /\ UNCHANGED <<candidate, opened>>
  BY <1>2 DEF Unassign, OneBinding
<1>3. ASSUME NEW n \in Ssid, AddNetwork(n) \/ RemoveNetwork(n)
      PROVE  OtherFields /\ UNCHANGED <<candidate, opened>>
  BY <1>3 DEF AddNetwork, RemoveNetwork, OtherFields, ConfigTypeOK, Config
<1>4. ASSUME NEW v \in Good, SetDebug(v)
      PROVE  OtherFields /\ UNCHANGED <<candidate, opened>>
  BY <1>4 DEF SetDebug, OtherFields, ConfigTypeOK, Config
<1>5. ram' = ram => OtherFields
  BY DEF OtherFields
<1>6. CASE SettingsUnassignSave
  BY <1>5, <1>6 DEF SettingsUnassignSave
<1> QED
  BY <1>1, <1>2, <1>3, <1>4, <1>5, <1>6
     DEF ConfigNext, SettingsRejected, SettingsSave, AssignRejected, BindingSave,
         NetworkIgnored, UnseenSave, ResetSave

\* A step that leaves pins and bindings alone leaves the predicates alone.
LEMMA OtherFieldsKeep ==
  ASSUME OtherFields
  PROVE  /\ ApartIn(ram) => ApartIn(ram') /\ (Clean(ram) => Clean(ram'))
         /\ BoundOnce(ram) => BoundOnce(ram') /\ (Unbinds(ram) => Unbinds(ram'))
BY DEF OtherFields, ApartIn, Clean, BoundOnce, Unbinds

-----------------------------------------------------------------------------
(* GPIOs                                                                   *)

Applying == http \in {"settings", "save_unassign"}

PinInv ==
  /\ ConfigTypeOK
  /\ ApartIn(ram) /\ ApartIn(candidate)
  /\ opened => Clean(ram)
  /\ Applying => Clean(candidate)

LEMMA PinSteps ==
  ASSUME PinInv, ConfigNext
  PROVE  PinInv'
<1>1. ConfigTypeOK /\ ConfigTypeOK' /\ ram \in Config
  BY TypedSteps DEF PinInv, ConfigTypeOK
<1>2. (ApartIn(ram) /\ (opened => Clean(ram)))'
  <2>1. CASE Boot
    BY <1>1, <2>1, LoadTyped, SanitisedIsClean DEF Boot, Booted, ConfigTypeOK
  <2>2. CASE BootWithoutFlash \/ Restart
    BY <2>2, InitialConfigsClean DEF BootWithoutFlash, Restart, Off
  <2>3. CASE Settings
    BY <1>1, <2>3, AcceptedIsClean DEF Settings, PinInv
  <2>4. CASE SettingsUnassign \/ (OneBinding /\ UNCHANGED <<candidate, opened>>)
    <3>1. /\ ram'.outputs = ram.outputs /\ ram'.state_pin = ram.state_pin
          /\ opened' = opened
      BY <1>1, <2>4 DEF SettingsUnassign, OneBinding, Config
    <3> QED
      BY <3>1 DEF PinInv, ApartIn, Clean
  <2>5. CASE SettingsCommit
    BY <2>5 DEF SettingsCommit, PinInv, Applying
  <2>6. CASE Reset
    BY <2>6, InitialConfigsClean DEF Reset
  <2>7. CASE OtherFields /\ UNCHANGED opened /\ candidate' \in {candidate, Zeroed}
    BY <2>7, OtherFieldsKeep DEF PinInv
  <2> QED
    BY <1>1, <2>1, <2>2, <2>3, <2>4, <2>5, <2>6, <2>7, RamSteps
<1>3. (ApartIn(candidate) /\ (Applying => Clean(candidate)))'
  <2>1. CASE Settings
    <3>1. PICK c \in Posted :
            /\ ~PinError(c)
            /\ IF Disabled(c) = {}
                 THEN http' = "save_settings" /\ UNCHANGED candidate
                 ELSE candidate' = WithoutDisabled(c)
      BY <2>1 DEF Settings
    <3>2. ApartIn(WithoutDisabled(c)) /\ Clean(WithoutDisabled(c))
      BY <1>1, <3>1, AcceptedIsClean, WithoutDisabledUnbinds
    <3> QED
      BY <3>1, <3>2 DEF PinInv, Applying
  <2>2. CASE candidate' = candidate /\ (Applying' => Applying)
    BY <2>2 DEF PinInv
  <2>3. CASE candidate' = Zeroed /\ ~Applying'
    BY <2>3, InitialConfigsClean
  <2>4. CASE SettingsUnassignSave
    BY <2>4, <2>2, <2>3 DEF SettingsUnassignSave, WriteSucceeds, WriteFails, Applying
  <2> QED
    BY <2>1, <2>2, <2>3, <2>4
       DEF Applying, ConfigNext, Boot, BootWithoutFlash, Restart, Off, SettingsRejected,
           SettingsUnassign, SettingsCommit, SettingsSave, AssignRejected, Assign, Unassign,
           BindingSave, AddNetwork, RemoveNetwork, NetworkIgnored, SetDebug, UnseenSave, Reset,
           ResetSave, Save, WriteSucceeds, WriteFails
<1> QED
  BY <1>1, <1>2, <1>3 DEF PinInv

LEMMA PinInductive ==
  /\ ConfigInit => PinInv
  /\ PinInv /\ [ConfigNext]_configVars => PinInv'
<1>1. ConfigInit => PinInv
  BY TypedInductive, InitialConfigsClean DEF ConfigInit, PinInv, Applying
<1>2. PinInv /\ UNCHANGED configVars => PinInv'
  BY TypedInductive DEF PinInv, Applying, configVars
<1> QED
  BY <1>1, <1>2, PinSteps

\* No GPIO has two uses in the configuration the bridge works with, whatever older
\* firmware left in flash, whichever writes failed and while settings are applied.
THEOREM PinsStayApart == ConfigInit /\ [][ConfigNext]_configVars => []PinsApart
<1>1. PinInv => PinsApart
  BY DEF PinInv, ApartIn, PinsApart
<1> QED
  BY <1>1, PinInductive, PTL

-----------------------------------------------------------------------------
(* Bindings                                                                *)

\* What older firmware left in flash binds no sensor twice, in the layouts that have
\* bindings: it refused a second function as this one does.
OlderBoundOnce == \A blob \in Older : BoundOnce(Load(blob))

BindInv ==
  ConfigTypeOK /\ BoundOnce(ram) /\ BoundOnce(candidate) /\ BoundOnce(Load(flash))

\* What a step does to flash: nothing, a save, or the repairs of start-up.
LEMMA FlashSteps ==
  ASSUME ConfigTypeOK, ConfigNext
  PROVE  \/ flash' \in {flash, Stored(ram)}
         \/ Boot /\ flash' \in RepairedBlob
BY DEF ConfigNext, Boot, BootWithoutFlash, Restart, SettingsRejected, Settings, SettingsUnassign,
       SettingsUnassignSave, SettingsCommit, SettingsSave, AssignRejected, Assign, Unassign,
       BindingSave, AddNetwork, RemoveNetwork, NetworkIgnored, SetDebug, UnseenSave, Reset,
       ResetSave, Save, WriteSucceeds, WriteFails

LEMMA RepairsKeepBindings ==
  ASSUME ConfigTypeOK, NEW blob \in RepairedBlob, BoundOnce(Load(flash))
  PROVE  BoundOnce(Load(blob))
<1>1. Load(flash) \in Config /\ Booted(flash) \in Config
      /\ [Load(flash) EXCEPT !.other = Default] \in Config
  <2>1. Load(flash) \in Config
    BY LoadTyped DEF ConfigTypeOK
  <2> QED
    BY <2>1, SanitisedTyped, ConfigAssumption DEF Booted, Config
<1>2. blob \in {Stored(DefaultConfig), Stored(Booted(flash)),
                Stored([Load(flash) EXCEPT !.other = Default])}
  BY DEF RepairedBlob
<1>3. Load(blob) \in {DefaultConfig, Booted(flash), [Load(flash) EXCEPT !.other = Default]}
  BY <1>1, <1>2, StoredTyped, InitialConfigs
<1>4. /\ Booted(flash).bindings = Load(flash).bindings
      /\ [Load(flash) EXCEPT !.other = Default].bindings = Load(flash).bindings
  BY <1>1, SanitisedIsClean DEF Booted, Config
<1> QED
  BY <1>3, <1>4, InitialConfigsClean DEF BoundOnce

LEMMA BindSteps ==
  ASSUME BindInv, ConfigNext
  PROVE  BindInv'
<1>1. ConfigTypeOK /\ ConfigTypeOK' /\ ram \in Config
  BY TypedSteps DEF BindInv, ConfigTypeOK
<1>2. BoundOnce(ram')
  <2>1. CASE Boot
    <3>1. Load(flash) \in Config
      BY <1>1, LoadTyped DEF ConfigTypeOK
    <3>2. ram'.bindings = Load(flash).bindings
      BY <2>1, <3>1, SanitisedIsClean DEF Boot, Booted
    <3> QED
      BY <3>2 DEF BindInv, BoundOnce
  <2>2. CASE BootWithoutFlash \/ Restart
    BY <2>2, InitialConfigsClean DEF BootWithoutFlash, Restart, Off
  <2>3. CASE Settings
    BY <1>1, <2>3, WithoutDisabledUnbinds DEF Settings, BindInv
  <2>4. CASE SettingsUnassign
    <3>1. \A f \in Function : ram'.bindings[f] \in {ram.bindings[f], NoSensor}
      BY <1>1, <2>4 DEF SettingsUnassign, Config
    <3> QED
      BY <3>1 DEF BindInv, BoundOnce
  <2>5. CASE OneBinding
    <3>1. PICK f \in Function, s \in Sensor \cup {NoSensor} :
            /\ s # NoSensor => ~Elsewhere(f, s)
            /\ ram' = [ram EXCEPT !.bindings[f] = s]
      BY <2>5 DEF OneBinding
    <3>2. \A g \in Function : ram'.bindings[g] = IF g = f THEN s ELSE ram.bindings[g]
      BY <1>1, <3>1 DEF Config
    <3> QED
      BY <3>1, <3>2 DEF BindInv, BoundOnce, Elsewhere
  <2>6. CASE SettingsCommit
    BY <2>6 DEF SettingsCommit, BindInv
  <2>7. CASE Reset
    BY <2>7, InitialConfigsClean DEF Reset
  <2>8. CASE OtherFields
    BY <2>8, OtherFieldsKeep DEF BindInv
  <2> QED
    BY <1>1, <2>1, <2>2, <2>3, <2>4, <2>5, <2>6, <2>7, <2>8, RamSteps
<1>3. BoundOnce(candidate')
  <2>1. CASE Settings
    BY <1>1, <2>1, WithoutDisabledUnbinds DEF Settings, BindInv
  <2>2. CASE candidate' \in {candidate, Zeroed}
    BY <2>2, InitialConfigsClean DEF BindInv
  <2> QED
    BY <1>1, <2>1, <2>2, RamSteps
       DEF Boot, BootWithoutFlash, Restart, Off, SettingsUnassign, SettingsCommit, Reset
<1>4. BoundOnce(Load(flash'))
  <2>1. CASE flash' \in {flash, Stored(ram)}
    BY <1>1, <2>1, StoredTyped DEF BindInv
  <2>2. CASE flash' \in RepairedBlob
    BY <1>1, <2>2, RepairsKeepBindings DEF BindInv
  <2> QED
    BY <1>1, <2>1, <2>2, FlashSteps
<1> QED
  BY <1>1, <1>2, <1>3, <1>4 DEF BindInv

\* A sensor has at most one function, in RAM and in what a restart would load, provided
\* it had in what older firmware left: neither a save that fails half-way nor settings
\* applied while others are in force give it a second.
THEOREM SensorsStaySingle ==
  ASSUME OlderBoundOnce
  PROVE  ConfigInit /\ [][ConfigNext]_configVars => []OneFunctionPerSensor
<1>1. ConfigInit => BindInv
  BY TypedInductive, InitialConfigsClean DEF ConfigInit, BindInv, OlderBoundOnce
<1>2. BindInv /\ [ConfigNext]_configVars => BindInv'
  <2>1. BindInv /\ UNCHANGED configVars => BindInv'
    BY TypedInductive DEF BindInv, configVars
  <2> QED
    BY <2>1, BindSteps
<1>3. BindInv => OneFunctionPerSensor
  BY DEF BindInv, BoundOnce, OneFunctionPerSensor
<1> QED
  BY <1>1, <1>2, <1>3, PTL

-----------------------------------------------------------------------------
(* Replies                                                                 *)

\* A request is being carried out: it has no reply yet.
Busy == http \in {"settings", "save_unassign", "save_settings", "save_binding", "save_unseen",
                  "save_reset"}

ReplyInv ==
  /\ PinInv
  /\ Busy => reply = "none"
  /\ Unbinds(candidate)
  /\ http = "save_settings" => Unbinds(ram)
  /\ SavedUnbinds
  /\ RestartKeeps

\* Only a save that succeeded is answered with "saved" or "ok".
LEMMA RepliesAreEarned ==
  ASSUME ConfigNext, Busy => reply = "none", reply' \in {"saved", "ok"}
  PROVE  /\ opened /\ flash' = Stored(ram) /\ ram' = ram
         /\ reply' = "saved" => http = "save_settings"
<1>1. CASE SettingsSave \/ BindingSave
  BY <1>1 DEF SettingsSave, BindingSave, Save, WriteSucceeds, WriteFails
<1>2. CASE SettingsUnassign \/ SettingsCommit
  BY <1>2 DEF SettingsUnassign, SettingsCommit, Busy
<1>3. CASE SettingsUnassignSave \/ UnseenSave \/ ResetSave
  BY <1>3 DEF SettingsUnassignSave, UnseenSave, ResetSave, Save, WriteSucceeds, WriteFails
<1> QED
  BY <1>1, <1>2, <1>3
     DEF ConfigNext, Boot, BootWithoutFlash, Restart, Off, SettingsRejected, Settings,
         AssignRejected, Assign, Unassign, AddNetwork, RemoveNetwork, NetworkIgnored, SetDebug,
         Reset, Request

LEMMA ReplySteps ==
  ASSUME ReplyInv, ConfigNext
  PROVE  ReplyInv'
<1>1. /\ PinInv /\ PinInv' /\ ConfigTypeOK /\ ram \in Config
      /\ (Busy => reply = "none") /\ Unbinds(candidate)
  BY PinSteps DEF ReplyInv, PinInv, ConfigTypeOK
<1>2. (Busy => reply = "none")'
  <2>1. CASE SettingsUnassignSave
    BY <2>1 DEF SettingsUnassignSave, WriteSucceeds, WriteFails, Busy
  <2>2. CASE SettingsUnassign \/ SettingsCommit
    BY <1>1, <2>2 DEF SettingsUnassign, SettingsCommit, Busy
  <2> QED
    BY <1>1, <2>1, <2>2
       DEF Busy, ConfigNext, Boot, BootWithoutFlash, Restart, Off, SettingsRejected, Settings,
           SettingsSave, AssignRejected, Assign, Unassign, BindingSave, AddNetwork,
           RemoveNetwork, NetworkIgnored, SetDebug, UnseenSave, Reset, ResetSave, Save,
           WriteSucceeds, WriteFails, Request
<1>3. Unbinds(candidate')
  <2>1. CASE Settings
    BY <1>1, <2>1, WithoutDisabledUnbinds DEF Settings
  <2>2. CASE candidate' \in {candidate, Zeroed}
    BY <1>1, <2>2, InitialConfigsClean
  <2> QED
    BY <1>1, <2>1, <2>2, RamSteps
       DEF Boot, BootWithoutFlash, Restart, Off, SettingsUnassign, SettingsCommit, Reset
<1>4. (http = "save_settings" => Unbinds(ram))'
  <2> SUFFICES ASSUME http' = "save_settings" PROVE Unbinds(ram')
    OBVIOUS
  <2>1. CASE Settings
    BY <1>1, <2>1, WithoutDisabledUnbinds DEF Settings
  <2>2. CASE SettingsCommit
    BY <1>1, <2>2 DEF SettingsCommit
  <2>3. CASE SettingsRejected
    BY <2>3 DEF SettingsRejected
  <2> QED
    BY <2>1, <2>2, <2>3
       DEF ConfigNext, Boot, BootWithoutFlash, Restart, Off, SettingsUnassign,
           SettingsUnassignSave, SettingsSave, AssignRejected, Assign, Unassign, BindingSave,
           AddNetwork, RemoveNetwork, NetworkIgnored, SetDebug, UnseenSave, Reset, ResetSave,
           Save, WriteSucceeds, WriteFails
<1>5. ASSUME reply' \in {"saved", "ok"}
      PROVE  /\ [Booted(flash') EXCEPT !.other = Default] = [ram' EXCEPT !.other = Default]
             /\ reply' = "saved" => Unbinds(ram')
  <2>1. /\ opened /\ flash' = Stored(ram) /\ ram' = ram
        /\ reply' = "saved" => http = "save_settings"
    BY <1>1, <1>5, RepliesAreEarned
  <2>2. Booted(flash') = Sanitised(ram)
    BY <1>1, <2>1, StoredTyped DEF Booted
  <2>3. [Sanitised(ram) EXCEPT !.other = Default] = [ram EXCEPT !.other = Default]
    BY <1>1, <2>1, CleanIsKept DEF PinInv
  <2> QED
    BY <2>1, <2>2, <2>3 DEF ReplyInv
<1>6. SavedUnbinds' /\ RestartKeeps'
  <2>1. Booted(flash)' = Booted(flash')
    BY DEF Booted
  <2> QED
    BY <1>5, <2>1 DEF SavedUnbinds, RestartKeeps, Unbinds
<1> QED
  BY <1>1, <1>2, <1>3, <1>4, <1>6 DEF ReplyInv

LEMMA ReplyInductive ==
  /\ ConfigInit => ReplyInv
  /\ ReplyInv /\ [ConfigNext]_configVars => ReplyInv'
<1>1. ConfigInit => ReplyInv
  BY PinInductive, InitialConfigsClean
     DEF ConfigInit, ReplyInv, Busy, SavedUnbinds, RestartKeeps
<1>2. ReplyInv /\ UNCHANGED configVars => ReplyInv'
  <2> SUFFICES ASSUME ReplyInv, UNCHANGED configVars PROVE ReplyInv'
    OBVIOUS
  <2>1. PinInv'
    BY PinInductive DEF ReplyInv
  <2> QED
    BY <2>1 DEF ReplyInv, Busy, SavedUnbinds, RestartKeeps, configVars
<1> QED
  BY <1>1, <1>2, ReplySteps

\* Settings answered with "saved" leave no sensor bound to an output they disabled,
\* whatever was bound when they were posted.
THEOREM SavedSettingsUnbind == ConfigInit /\ [][ConfigNext]_configVars => []SavedUnbinds
<1>1. ReplyInv => SavedUnbinds
  BY DEF ReplyInv
<1> QED
  BY <1>1, ReplyInductive, PTL

\* What was answered with "saved" or "ok" is in flash, and start-up finds nothing to
\* correct in it but the other settings: a restart keeps it.
THEOREM RestartsKeep == ConfigInit /\ [][ConfigNext]_configVars => []RestartKeeps
<1>1. ReplyInv => RestartKeeps
  BY DEF ReplyInv
<1> QED
  BY <1>1, ReplyInductive, PTL
=============================================================================
