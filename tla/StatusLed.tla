----------------------------- MODULE StatusLed -----------------------------
(***************************************************************************)
(* The LED of the bridge: led_blink_task of src/src/main.c, which looks    *)
(* every 100 ms at who is connected and blinks accordingly: lit without a  *)
(* client, 1 tick in 10 for ESP-NOW, 5 in 10 for Telnet, and the two in    *)
(* turn for both.                                                          *)
(*                                                                         *)
(* Clients come and go between any two ticks, and a count that finds the   *)
(* mutex taken reads as none (StatePin), so what a tick sees is any pair.  *)
(***************************************************************************)
EXTENDS Naturals

CONSTANTS
  ShortOn, ShortOff, LongOn, LongOff   \* ticks: 1, 9, 5, 5

ASSUME LedAssumption == {ShortOn, ShortOff, LongOn, LongOff} \subseteq Nat \ {0}

VARIABLES
  led_state,      \* state of the machine
  tick_counter,
  last,           \* last_espnow and last_telnet
  lit,            \* GPIO8 is low
  spell,          \* ticks since the light last changed (history)
  settled         \* it has changed since the clients last did (history)

ledVars == <<led_state, tick_counter, last, lit, spell, settled>>

Longest == ShortOn + ShortOff + LongOn + LongOff

LedInit ==
  /\ led_state = "ON_SOLID" /\ tick_counter = 0
  /\ last = [espnow |-> FALSE, telnet |-> FALSE]
  /\ lit = TRUE
  /\ spell = 0 /\ settled = FALSE

\* What the history records of a tick that leaves the light on or off.
Record(light, changed) ==
  /\ lit' = light
  /\ spell' = IF light # lit THEN 1 ELSE IF spell < Longest THEN spell + 1 ELSE spell
  /\ settled' = (~changed /\ (settled \/ light # lit))

Nobody(seen) == ~seen.espnow /\ ~seen.telnet
Both(seen) == seen.espnow /\ seen.telnet

\* Mutant of LedRestart: the light is left as it was.
LedRestartDark(seen) ==
  /\ tick_counter' = 0
  /\ led_state' = IF Nobody(seen) THEN "ON_SOLID"
                  ELSE IF seen.espnow THEN "ON_SHORT" ELSE "ON_LONG"
  /\ Record(lit, TRUE)

\* The clients are others than at the last tick: the machine starts over.  The light
\* follows at the next tick; only without clients it is lit at once.
LedRestart(seen) ==
  /\ tick_counter' = 0
  /\ led_state' = IF Nobody(seen) THEN "ON_SOLID"
                  ELSE IF seen.espnow THEN "ON_SHORT" ELSE "ON_LONG"
  /\ Record(lit \/ Nobody(seen), TRUE)

\* A phase of the machine: light on or off for a number of ticks, and what follows.
Phase ==
  [ON_SHORT  |-> [light |-> TRUE,  ticks |-> ShortOn],
   OFF_SHORT |-> [light |-> FALSE, ticks |-> ShortOff],
   ON_LONG   |-> [light |-> TRUE,  ticks |-> LongOn],
   OFF_LONG  |-> [light |-> FALSE, ticks |-> LongOff]]

After(state) ==
  CASE state = "ON_SHORT" -> "OFF_SHORT"
    [] state = "ON_LONG" -> "OFF_LONG"
    [] state = "OFF_SHORT" -> IF Both(last) THEN "ON_LONG" ELSE "ON_SHORT"
    [] state = "OFF_LONG" -> IF Both(last) THEN "ON_SHORT" ELSE "ON_LONG"

\* Mutant of Over: the phase ends a tick early.
OverEarly(state) == tick_counter + 2 >= Phase[state].ticks

Over(state) == tick_counter + 1 >= Phase[state].ticks

LedPhase ==
  /\ IF Over(led_state) THEN led_state' = After(led_state) /\ tick_counter' = 0
     ELSE tick_counter' = tick_counter + 1 /\ UNCHANGED led_state
  /\ Record(Phase[led_state].light, FALSE)

\* A tick that sees these clients.
Tick(seen) ==
  /\ last' = seen
  /\ \/ seen # last /\ LedRestart(seen)
     \/ seen = last /\ Nobody(seen) /\ UNCHANGED <<led_state, tick_counter>> /\ Record(lit, FALSE)
     \/ seen = last /\ ~Nobody(seen) /\ LedPhase

LedNext == \E seen \in [espnow : BOOLEAN, telnet : BOOLEAN] : Tick(seen)

-----------------------------------------------------------------------------
\* What a spell of light or dark may last while the same clients stay.
Spells(light) ==
  {t \in {<<"espnow", TRUE, ShortOn>>, <<"espnow", FALSE, ShortOff>>,
          <<"telnet", TRUE, LongOn>>, <<"telnet", FALSE, LongOff>>} :
     t[2] = light /\ last[t[1]]}

\* The LED tells who is connected: lit while nobody is, and otherwise, once it has
\* settled after a change, every spell of light and dark has the length of one of the
\* blinks meant for these clients, whatever phase the change found the machine in.
LedShows ==
  /\ Nobody(last) => lit
  /\ settled => \E t \in Spells(lit) : spell <= t[3]

\* The blinks end in time, none early.
LedSpells ==
  [][settled /\ last' = last /\ lit' # lit => \E t \in Spells(lit) : spell = t[3]]_ledVars
=============================================================================
