------------------------------ MODULE Settings ------------------------------
(***************************************************************************)
(* settings.c: a table of entries in RAM and its image in one flash        *)
(* sector.  settings_init overlays what it can read of the sector on the   *)
(* caller's defaults; settings_save erases the sector and programs it      *)
(* again.  Power may fail between any two pages, and an entry that lies    *)
(* across the last page programmed keeps its head and reads 0xFF behind.   *)
(*                                                                         *)
(* A program reads with defaults and a count of them of its own, which     *)
(* Load is given: a table of TableOf, and the count.                       *)
(*                                                                         *)
(* An entry is its key and its value, the type with it.  A page is erased  *)
(* or programmed whole or not at all.                                      *)
(***************************************************************************)
EXTENDS Integers, Sequences, SequencesExt

CONSTANTS
  EntrySize,   (* sizeof(SettingsConfigEntry): 30 + 1 + 96                 *)
  KeySize,     (* SETTINGS_MAX_KEY_LENGTH                                  *)
  PageSize,    (* the unit flash_range_program writes                      *)
  SectorSize,  (* flashSettingsSize                                        *)
  Keys,        (* valid keys                                               *)
  End, Bad,    (* an empty key, a key of the wrong format                  *)
  NoType, Torn, (* the value of an entry without a type, and half a value  *)
  Magic        (* the MAGICVERSION entry of this magic and version         *)

NoTable     == <<>>    (* settings_init has not run since power came up    *)
Entry(k, v) == [key |-> k, value |-> v]
MaxEntries  == SectorSize \div EntrySize
Pages       == SectorSize \div PageSize

ASSUME SizesAssumption ==
  /\ EntrySize \in Nat \ {0} /\ PageSize \in Nat \ {0} /\ SectorSize \in Nat
  /\ EntrySize <= PageSize /\ PageSize <= SectorSize
  /\ KeySize \in 1 .. EntrySize - 2 /\ SectorSize % PageSize = 0
(* An entry that lies across two pages has at most its key in the first.   *)
ASSUME GeometryAssumption ==
  \A j \in 1 .. MaxEntries :
    LET start == EntrySize * (j - 1)
    IN  (start + KeySize) \div PageSize = (start + EntrySize - 1) \div PageSize
ASSUME KeysAssumption ==
  /\ Magic = Entry(Magic.key, Magic.value) /\ Magic.key \in Keys
  /\ End \notin Keys /\ Bad \notin Keys /\ NoType \notin {Torn, Magic.value}

VARIABLES
  table,      (* configData.entries                                        *)
  flash,      (* [image, pages]: how many pages of image are programmed    *)
  saving,     (* where settings_save is                                    *)
  ret,        (* what the last call of the library returned                *)
  complete    (* the last save or erase came to its end                    *)

settingsVars == <<table, flash, saving, ret, complete>>

IsTable(t) == \A j \in DOMAIN t : t[j].key \in Keys

(***************************************************************************)
(* settings_init                                                           *)
(***************************************************************************)
(* Of n defaults and the magic, as many as the sector holds.               *)
(* Mutant: the loader does not cap the count of the caller.                *)
UncappedNumber(n) == n + 1
NumEntries(n)     == IF n + 1 > MaxEntries THEN MaxEntries ELSE n + 1

Find(t, k)    == {j \in DOMAIN t : t[j].key = k}
First(s)      == CHOOSE j \in s : \A i \in s : j <= i
ValueOf(t, k) == t[First(Find(t, k))].value

(* What is read of s when the reading stops at the first of stops.         *)
Before(s, stops) == IF stops = {} THEN s ELSE SubSeq(s, 1, First(stops) - 1)

(* The defaults up to an empty key, those of the wrong format left out.    *)
TableOf(defs, n) ==
  LET given == SubSeq(<<Magic>> \o defs, 1, NumEntries(n))
      src   == Before(given, {j \in DOMAIN given : given[j].key = End})
      copied[j \in 0 .. Len(src)] ==
        IF j = 0 THEN <<>>
        ELSE IF src[j].key = Bad THEN copied[j - 1] ELSE Append(copied[j - 1], src[j])
  IN copied[Len(src)]

(* The first n bytes of the sector are programmed.                         *)
Programmed(f, n) == (n - 1) \div PageSize < f.pages

(* Entry j as it reads: all of it, or what comes before an erased page.    *)
Raw(f, j) ==
  LET start == EntrySize * (j - 1)
  IN  IF Programmed(f, start + EntrySize) THEN f.image[j]
      ELSE Entry(IF Programmed(f, start + KeySize) THEN f.image[j].key ELSE Bad,
                 IF Programmed(f, start + KeySize + 1) THEN Torn ELSE NoType)

(* Mutant: the loader does not look at the type.                           *)
HasBadKey(e) == e.key = Bad
IsInvalid(e) == e.key = Bad \/ e.value = NoType

Stored(f) ==
  LET raw == [j \in 1 .. Len(f.image) |-> Raw(f, j)]
  IN  Before(raw, {j \in DOMAIN raw : IsInvalid(raw[j])})

HasMagic(f) == f.image # <<>> /\ Raw(f, 1) = Magic

(* Entries of the sector overwrite the first default with their key; the   *)
(* last of them counts.                                                    *)
Limit(s, n) == IF Len(s) > NumEntries(n) THEN SubSeq(s, 1, NumEntries(n)) ELSE s

Overlaid(t, j, s) ==
  LET same == Find(s, t[j].key)
  IN  IF same = {} \/ First(Find(t, t[j].key)) # j THEN t[j]
      ELSE s[CHOOSE i \in same : \A h \in same : h <= i]

Overlay(t, s) == [j \in 1 .. Len(t) |-> Overlaid(t, j, s)]

Loaded(f, t, n) == IF HasMagic(f) THEN Overlay(t, Limit(Stored(f), n)) ELSE t

SettingsInit ==
  /\ table = NoTable /\ flash = [image |-> <<>>, pages |-> 0]
  /\ saving = "no" /\ ret = 0 /\ complete = TRUE

(* It returns the number of entries, for which 0 stands, or an error.      *)
Load(t, n) ==
  /\ table = NoTable
  /\ table' = Loaded(flash, t, n)
  /\ ret' = IF HasMagic(flash) THEN 0 ELSE -1
  /\ UNCHANGED <<flash, saving, complete>>

(***************************************************************************)
(* settings_put_*, settings_save, settings_erase                           *)
(***************************************************************************)
Put(k, v) ==
  /\ table # NoTable /\ saving = "no"
  /\ LET found == Find(table, k)
     IN  IF found = {} THEN ret' = -1 /\ UNCHANGED table
                       ELSE ret' = 0 /\ table' = [table EXCEPT ![First(found)].value = v]
  /\ UNCHANGED <<flash, saving, complete>>

BeginSave ==
  /\ table # NoTable /\ saving = "no"
  /\ IF Len(table) * EntrySize > SectorSize
     THEN ret' = -1 /\ UNCHANGED saving
     ELSE ret' = 0 /\ saving' = "erase"
  /\ UNCHANGED <<table, flash, complete>>

EraseSector ==
  /\ saving = "erase"
  /\ saving' = "program" /\ complete' = FALSE
  /\ flash' = [image |-> table, pages |-> 0]
  /\ UNCHANGED <<table, ret>>

(* The entries, padded to whole pages.                                     *)
PagesOf(t) == (Len(t) * EntrySize + PageSize - 1) \div PageSize

ProgramPage ==
  /\ saving = "program" /\ flash.pages < PagesOf(table)
  /\ flash' = [flash EXCEPT !.pages = @ + 1]
  /\ UNCHANGED <<table, saving, ret, complete>>

EndSave ==
  /\ saving = "program" /\ flash.pages = PagesOf(table)
  /\ saving' = "no" /\ complete' = TRUE
  /\ UNCHANGED <<table, flash, ret>>

Erase ==
  /\ table # NoTable /\ saving = "no"
  /\ flash' = [image |-> <<>>, pages |-> 0] /\ table' = NoTable
  /\ ret' = 0 /\ complete' = TRUE
  /\ UNCHANGED saving

(* Power fails: RAM is gone, the sector is as it was left.                 *)
PowerLoss ==
  /\ table' = NoTable /\ saving' = "no"
  /\ UNCHANGED <<flash, ret, complete>>

SaveStep == EraseSector \/ ProgramPage \/ EndSave

(***************************************************************************)
(* What the table is worth                                                 *)
(***************************************************************************)
(* Types, and the table fits its sector and the RAM malloc'ed for it,      *)
(* whatever lies behind the array of defaults (settings.c:108, 237).       *)
TableFits ==
  /\ IsTable(table) /\ Len(table) * EntrySize <= SectorSize
  /\ saving \in {"no", "erase", "program"} /\ complete \in BOOLEAN
  /\ IsTable(flash.image) /\ flash.pages \in 0 .. Pages
  /\ ret \in Int
=============================================================================
