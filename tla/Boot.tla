-------------------------------- MODULE Boot --------------------------------
(***************************************************************************)
(* main.c: from power-up to emul_start or to the Booster application.      *)
(* Two settings tables, each in a sector of its own: the global one, which *)
(* the Booster writes and this application only reads (the variables of    *)
(* Settings), and the application's, which main saves the first time.      *)
(*                                                                         *)
(* The Booster is a program of its own in the same flash, not in this      *)
(* repository: it is modelled as a user of the same library, with its own  *)
(* table of defaults, that may change, save or erase the global settings,  *)
(* register the application and restart the board at any time.             *)
(***************************************************************************)
EXTENDS Settings, StaConnect

CONSTANTS
  Defaults,          (* gconfig.c: the memory at defaultEntries             *)
  AppDefaults,       (* aconfig.c: defaultEntries                           *)
  BoosterDefaults,   (* the Booster's table                                 *)
  BoosterCount,      (* and its length                                      *)
  Settable           (* entries the Booster lets the user change            *)

(* gconfig.c passes the capacity of a sector for an array that is shorter: *)
(* Defaults is the array and whatever the linker put after it.             *)
NumDefault   == MaxEntries
DefaultTable == TableOf(Defaults, NumDefault)
AppTable     == TableOf(AppDefaults, Len(AppDefaults))
BoosterTable == TableOf(BoosterDefaults, BoosterCount)

IsDefaults(defs, n) ==
  /\ n \in 0 .. MaxEntries /\ n <= Len(defs) /\ defs \in Seq(Range(defs))
  /\ \A e \in Range(defs) :
       e = Entry(e.key, e.value) /\ e.key \in Keys \cup {End, Bad} /\ e.value # NoType
ASSUME DefaultsAssumption ==
  /\ IsDefaults(Defaults, NumDefault) /\ IsDefaults(AppDefaults, Len(AppDefaults))
  /\ IsDefaults(BoosterDefaults, BoosterCount)

(* The Booster changes no key that its table holds twice.                  *)
ASSUME BoosterAssumption ==
  /\ \A e \in Settable : e.key # Magic.key /\ e.value # NoType
  /\ \A i, j \in DOMAIN BoosterTable :
       i # j /\ BoosterTable[i].key = BoosterTable[j].key =>
         /\ BoosterTable[i].value = BoosterTable[j].value
         /\ \A e \in Settable : e.key # BoosterTable[i].key

VARIABLES
  phase,             (* where main is, or which program runs                *)
  registered,        (* the application is in the lookup table              *)
  atable, aflash, asaving, aret, acomplete

aVars     == <<atable, aflash, asaving, aret, acomplete>>
boardVars == <<phase, registered>>
bootVars  == <<boardVars, settingsVars, aVars, staVars>>

App == INSTANCE Settings WITH
  table <- atable, flash <- aflash, saving <- asaving, ret <- aret, complete <- acomplete

ThisApp == Entry("BOOT_FEATURE", "this")

BootInit ==
  /\ SettingsInit /\ App!SettingsInit
  /\ StaOff /\ config = [dhcp |-> FALSE, ssid |-> FALSE, auth |-> FALSE]
  /\ phase = "off" /\ registered = FALSE

PowerOn ==
  /\ phase = "off" /\ phase' = "select"
  /\ UNCHANGED <<registered, settingsVars, aVars, staVars>>

(* select_detectPush: one look at the button.                              *)
Select(held) ==
  /\ phase = "select" /\ phase' = IF held THEN "to_booster" ELSE "gconfig"
  /\ UNCHANGED <<registered, settingsVars, aVars, staVars>>

(* gconfig_init.                                                           *)
BootsThis(t) == ValueOf(t, ThisApp.key) = ThisApp.value

GconfigInit ==
  /\ phase = "gconfig" /\ Load(DefaultTable, NumDefault)
  /\ phase' = IF ret' >= 0 /\ BootsThis(table') THEN "aconfig" ELSE "to_booster"
  /\ UNCHANGED <<registered, aVars, staVars>>

(* aconfig_init; the error codes of main's switch.                         *)
(* Mutant: the settings are saved at every boot.                           *)
Always    == TRUE
FirstTime == aret' < 0

AconfigInit ==
  /\ phase = "aconfig"
  /\ IF registered
     THEN App!Load(AppTable, Len(AppDefaults)) /\ phase' = IF FirstTime THEN "save" ELSE "emul"
     ELSE phase' = "to_booster" /\ UNCHANGED aVars
  /\ UNCHANGED <<registered, settingsVars, staVars>>

BeginFirstSave ==
  /\ phase = "save" /\ App!BeginSave
  /\ phase' = IF aret' < 0 THEN "to_booster" ELSE "saving"
  /\ UNCHANGED <<registered, settingsVars, staVars>>

SaveApp ==
  /\ phase = "saving" /\ asaving # "no" /\ App!SaveStep
  /\ phase' = IF asaving' = "no" THEN "emul" ELSE phase
  /\ UNCHANGED <<registered, settingsVars, staVars>>

(* emul_start, with the configuration the connection reads.                *)
IsSet(k, v) == ValueOf(table, k) = v

StartEmul ==
  /\ phase = "emul"
  /\ StaStart([dhcp |-> IsSet("WIFI_DHCP", "true"),
               ssid |-> ~IsSet("WIFI_SSID", ""), auth |-> ~IsSet("WIFI_AUTH", "")])
  /\ UNCHANGED <<boardVars, settingsVars, aVars>>

Emul ==
  /\ phase = "emul" /\ StaStep
  /\ UNCHANGED <<boardVars, settingsVars, aVars>>

EmulTurn ==
  /\ phase = "emul" /\ \E r \in Unlinked \cup {"linked"}, a \in BOOLEAN : MainTurn(r, a)
  /\ UNCHANGED <<boardVars, settingsVars, aVars>>

(* reset_jump_to_booster: another program starts in the same RAM.          *)
JumpToBooster ==
  /\ phase = "to_booster" /\ phase' = "booster"
  /\ table' = NoTable /\ atable' = NoTable
  /\ UNCHANGED <<registered, flash, saving, ret, complete, aflash, asaving, aret, acomplete, staVars>>

BoosterStep ==
  /\ phase = "booster"
  /\ \/ Load(BoosterTable, BoosterCount) \/ BeginSave \/ SaveStep \/ Erase
     \/ \E e \in Settable : Put(e.key, e.value)
  /\ UNCHANGED <<boardVars, aVars, staVars>>

Register ==
  /\ phase = "booster" /\ ~registered /\ registered' = TRUE
  /\ UNCHANGED <<phase, settingsVars, aVars, staVars>>

(* Power fails, or the board is reset: RAM is gone.                        *)
Off ==
  /\ phase # "off" /\ phase' = "off"
  /\ PowerLoss /\ App!PowerLoss
  /\ pc' = "off" /\ flag' = FALSE /\ driver' = "none" /\ radio' = "down" /\ ip' = FALSE
  /\ conn' = "down" /\ status' = "down" /\ now' = 0 /\ checkAt' = 0
  /\ callback' = FALSE /\ staRet' = "none"
  /\ served' = 0 /\ upAt' = -1 /\ seenAt' = -1 /\ joined' = FALSE
  /\ config' = [dhcp |-> FALSE, ssid |-> FALSE, auth |-> FALSE]
  /\ UNCHANGED registered

MainStep ==
  \/ \E held \in BOOLEAN : Select(held)
  \/ GconfigInit \/ AconfigInit \/ BeginFirstSave \/ SaveApp
  \/ StartEmul \/ Emul \/ JumpToBooster

BootNext == PowerOn \/ MainStep \/ EmulTurn \/ BoosterStep \/ Register \/ Off

(* main runs; nobody has to press a button, use the Booster or have power. *)
BootSpec == BootInit /\ [][BootNext]_bootVars /\ WF_bootVars(MainStep)

(***************************************************************************)
(* What the boot is worth                                                  *)
(***************************************************************************)
BootTypeOK ==
  /\ TableFits /\ App!TableFits /\ StaTypeOK
  /\ phase \in {"off", "select", "gconfig", "aconfig", "save", "saving", "emul",
                "to_booster", "booster"}
  /\ registered \in BOOLEAN
  /\ phase # "booster" => saving = "no"

(* A table loaded after any history holds, for each key, the value of the  *)
(* image that was written last or the default, never a torn one, and it    *)
(* says so: the keys that have the image's value are the first ones of it, *)
(* all of them when that save came to its end.                             *)
LoadRecovers ==
  [][GconfigInit => \E n \in 0 .. Len(flash.image) :
       /\ complete => n = Len(flash.image)
       /\ \A j \in DOMAIN table' :
            LET k == table'[j].key
                kept == Find(SubSeq(flash.image, 1, n), k)
            IN  First(Find(table', k)) = j =>
                  table'[j].value = IF kept = {} THEN ValueOf(DefaultTable, k)
                                    ELSE flash.image[First(kept)].value]_bootVars

(* Once the application's sector holds its settings it is never written    *)
(* again, so that no later power loss can take them away (settings.c:342). *)
AppSettingsStay ==
  [][App!HasMagic(aflash) /\ aflash' # aflash =>
       aflash'.image = aflash.image /\ aflash'.pages > aflash.pages]_bootVars

(* Main reaches the main loop or the Booster unless power goes away.       *)
BootEnds == phase = "select" ~> pc = "loop" \/ phase \in {"booster", "off"}
=============================================================================
