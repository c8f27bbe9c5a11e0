---------------------------- MODULE UserSetting ----------------------------
(***************************************************************************)
(* The settings of the command interface in flash: apps/common/src/        *)
(* user_setting.c and the commands of utils/ci/src/ci_cmd.c that save,     *)
(* load and clear them.                                                    *)
(*                                                                         *)
(* A table of named items is kept in RAM (load) and copied to one sector   *)
(* of flash, which is erased first.  Item 1 is save_flag; the others are   *)
(* the settings.  A value is the set of its bits that are 1: programming   *)
(* flash can only clear bits, so what is programmed is intersected with    *)
(* what is there.  The system may be reset at every step, and the SYS task *)
(* serves commands while the APP task still loads the settings.            *)
(***************************************************************************)
EXTENDS Integers, FiniteSets

CONSTANTS
  ItemCount,     \* USER_SETTING_ITEM_COUNT
  Restored,      \* the settings ci_setting_load hands to their modules
  NonZero, One,  \* those of them that it takes for One when they are 0: lot_s
  Bits,          \* the bits of a value; all of them are 1 in erased flash
  Magic, Value,  \* CI_SETTING_FLAG_MAGIC; what a host may set each setting to
  Default,       \* m_setting_cfg as it is initialised
  Mistyped,      \* a stored name that was cut short
  None,
  EraseMayFail   \* whether spi_flash_erase may fail

Items == 1..ItemCount
Setting == 2..ItemCount

ASSUME UserSettingAssumption ==
  /\ ItemCount \in Nat /\ ItemCount > 1
  /\ Restored \subseteq Setting /\ NonZero \subseteq Setting
  /\ Value \in [Setting -> SUBSET SUBSET Bits]
  /\ Magic \in (SUBSET Bits) \ {{}, Bits} /\ One \in SUBSET Bits
  /\ Default \in [Items -> SUBSET Bits] /\ Default[1] = {}
  /\ Mistyped \notin Items
  /\ \A v \in SUBSET Bits : v # None
  /\ \A c \in [Items -> SUBSET Bits] : c # None
  /\ EraseMayFail \in BOOLEAN

VARIABLES
  cfg,      \* m_setting_cfg
  applied,  \* what the modules the settings belong to work with
  load,     \* m_user_ctx.load_buf
  inited,   \* m_user_ctx.is_inited
  flash,    \* the sector of the settings
  boot,     \* where the APP task is in ci_setting_load
  cmd,      \* where the SYS task is in a command
  stored,   \* history: the settings of the last save, if it was completed
  image,    \* history: the settings of the last save that erased flash
  quiet     \* history: no command since the last reset

userVars == <<cfg, applied, load, inited, flash, boot, cmd, stored, image, quiet>>
ramVars == <<cfg, applied, load, inited>>
history == <<stored, image>>

Free == [valid |-> FALSE, name |-> Mistyped, val |-> Bits]
Erased == [s \in Items |-> Free]
Idle == [at |-> "idle"]
Up == [at |-> "up"]

UserInit ==
  /\ cfg = Default /\ applied = Default
  /\ load = Erased /\ inited = FALSE
  /\ flash = Erased
  /\ boot = [at |-> "init"] /\ cmd = Idle
  /\ stored = None /\ image = Default /\ quiet = TRUE

-----------------------------------------------------------------------------
(* user_setting.c: items in RAM.                                           *)

Slots(table, i) == {s \in Items : table[s].valid /\ table[s].name = i}
FreeSlots(table) == {s \in Items : ~table[s].valid}
First(S) == CHOOSE s \in S : \A t \in S : s <= t

\* the value of the first item of that name, or None
user_setting_get(table, i) ==
  IF Slots(table, i) = {} THEN None ELSE table[First(Slots(table, i))].val

\* Mutant: no look for an item of that name.
user_setting_set_Appends(table, i, v) ==
  IF FreeSlots(table) # {}
  THEN [table EXCEPT ![First(FreeSlots(table))] = [valid |-> TRUE, name |-> i, val |-> v]]
  ELSE table

\* Mutant: an item that exists keeps its value.
user_setting_set_Keeps(table, i, v) ==
  IF Slots(table, i) = {} THEN user_setting_set_Appends(table, i, v) ELSE table

user_setting_set(table, i, v) ==
  IF Slots(table, i) # {} THEN [table EXCEPT ![First(Slots(table, i))].val = v]
  ELSE IF FreeSlots(table) # {}
       THEN [table EXCEPT ![First(FreeSlots(table))] = [valid |-> TRUE, name |-> i, val |-> v]]
       ELSE table

\* The items of a configuration are set in order, up to the first that finds no room.
ci_setting_set(table, c) ==
  LET After[i \in 0..ItemCount] ==
        IF i = 0 THEN table ELSE user_setting_set(After[i - 1], i, c[i])
  IN  After[ItemCount]

AllThere(table) == \A i \in Items : Slots(table, i) # {}
Content(table) == [i \in Items |-> user_setting_get(table, i)]

-----------------------------------------------------------------------------
(* The flash.                                                              *)

\* Mutant: the sector is programmed without an erase.
Erase_Not == flash' = flash

Erase == flash' \in {Erased} \cup (IF EraseMayFail THEN {flash} ELSE {})

\* Programming the n-th piece of the table: of each slot the header with the
\* valid flag, the name, and the value.
Program(n) ==
  LET s == (n + 2) \div 3
      old == flash[s]
      new == load[s] IN
  flash' = [flash EXCEPT ![s] =
    CASE n % 3 = 1 -> [old EXCEPT !.valid = @ \/ new.valid]
      [] n % 3 = 2 -> [old EXCEPT !.name = IF @ \in {Mistyped, new.name} THEN new.name ELSE None]
      [] n % 3 = 0 -> [old EXCEPT !.val = @ \cap new.val]]

-----------------------------------------------------------------------------
(* The APP task: ci_setting_load.                                          *)

user_setting_init ==
  /\ boot.at = "init"
  /\ load' = flash /\ inited' = TRUE
  /\ boot' = [at |-> "check"]
  /\ UNCHANGED <<cfg, applied, flash, cmd, history, quiet>>

\* Mutant: settings are loaded whatever save_flag says.
LoadCheck_Always ==
  /\ boot.at = "check"
  /\ boot' = [at |-> "get", item |-> 1]
  /\ UNCHANGED <<ramVars, flash, cmd, history, quiet>>

LoadCheck ==
  /\ boot.at = "check"
  /\ boot' = IF user_setting_get(load, 1) = Magic THEN [at |-> "get", item |-> 1] ELSE Up
  /\ UNCHANGED <<ramVars, flash, cmd, history, quiet>>

Next_(where, i) == IF i < ItemCount THEN [at |-> where, item |-> i + 1]
                   ELSE IF where = "get" THEN [at |-> "apply", item |-> 2] ELSE Up

\* Mutant: settings that are missing are passed over.
ci_setting_get_Skips ==
  /\ boot.at = "get"
  /\ cfg' = IF user_setting_get(load, boot.item) = None THEN cfg
            ELSE [cfg EXCEPT ![boot.item] = user_setting_get(load, boot.item)]
  /\ boot' = Next_("get", boot.item)
  /\ UNCHANGED <<applied, load, inited, flash, cmd, history, quiet>>

\* ci_setting_get(&m_setting_cfg): straight into the configuration, up to the
\* first item that is missing.
ci_setting_get ==
  /\ boot.at = "get"
  /\ LET v == user_setting_get(load, boot.item) IN
     IF v = None THEN cfg' = cfg /\ boot' = Up
     ELSE cfg' = [cfg EXCEPT ![boot.item] = v] /\ boot' = Next_("get", boot.item)
  /\ UNCHANGED <<applied, load, inited, flash, cmd, history, quiet>>

AsLoaded(i, v) == IF i \in NonZero /\ v = {} THEN One ELSE v

Apply ==
  /\ boot.at = "apply"
  /\ cfg' = [cfg EXCEPT ![boot.item] = AsLoaded(boot.item, @)]
  /\ applied' = IF boot.item \in Restored THEN [applied EXCEPT ![boot.item] = cfg'[boot.item]]
                ELSE applied
  /\ boot' = Next_("apply", boot.item)
  /\ UNCHANGED <<load, inited, flash, cmd, history, quiet>>

-----------------------------------------------------------------------------
(* The SYS task: commands of the host.                                     *)

Begin == cmd = Idle /\ quiet' = FALSE

\* ci_dist_set and the other settings: first the module, then m_setting_cfg.
SetApply ==
  \E i \in Setting : \E v \in Value[i] :
    /\ Begin
    /\ applied' = [applied EXCEPT ![i] = v]
    /\ cmd' = [at |-> "set", item |-> i, val |-> v]
    /\ UNCHANGED <<cfg, load, inited, flash, boot, history>>

SetConfig ==
  /\ cmd.at = "set"
  /\ cfg' = [cfg EXCEPT ![cmd.item] = cmd.val]
  /\ cmd' = Idle
  /\ UNCHANGED <<applied, load, inited, flash, boot, history, quiet>>

ci_cfg_save_set ==
  \E flag \in {Magic, {}} :
    /\ Begin
    /\ cfg' = [cfg EXCEPT ![1] = flag]
    /\ IF ~inited \/ (AllThere(load) /\ Content(load) = cfg')
       THEN UNCHANGED <<load, cmd>>       \* an error, or not changed
       ELSE /\ load' = ci_setting_set(load, cfg')
            /\ cmd' = IF AllThere(load') THEN [at |-> "store", saves |-> cfg'] ELSE Idle
    /\ UNCHANGED <<applied, inited, flash, boot, history>>

\* user_setting_store
StoreErase ==
  /\ cmd.at = "store"
  /\ Erase
  /\ cmd' = [at |-> "write", piece |-> 1, saves |-> cmd.saves]
  /\ stored' = None /\ image' = cmd.saves
  /\ UNCHANGED <<ramVars, boot, quiet>>

StoreWrite ==
  /\ cmd.at = "write"
  /\ Program(cmd.piece)
  /\ IF cmd.piece < 3 * ItemCount
     THEN cmd' = [cmd EXCEPT !.piece = @ + 1] /\ stored' = stored
     ELSE cmd' = Idle /\ stored' = cmd.saves
  /\ UNCHANGED <<ramVars, boot, image, quiet>>

\* spi_flash_write gives up; the command is answered with an error.
StoreFails ==
  /\ cmd.at = "write"
  /\ cmd' = Idle
  /\ UNCHANGED <<ramVars, flash, boot, history, quiet>>

ClearRam ==
  /\ Begin
  /\ load' = Erased
  /\ \E alone \in BOOLEAN : cmd' = IF alone THEN Idle ELSE [at |-> "erase"]
  /\ UNCHANGED <<cfg, applied, inited, flash, boot, history>>

ClearFlash ==
  /\ Begin
  /\ cmd' = [at |-> "erase"]
  /\ UNCHANGED <<ramVars, flash, boot, history>>

user_setting_erase ==
  /\ cmd.at = "erase"
  /\ Erase
  /\ stored' = None
  /\ cmd' = Idle
  /\ UNCHANGED <<ramVars, boot, image, quiet>>

-----------------------------------------------------------------------------

\* Power fails or the watchdog bites.
Reset ==
  /\ cfg' = Default /\ applied' = Default
  /\ load' = Erased /\ inited' = FALSE
  /\ boot' = [at |-> "init"] /\ cmd' = Idle /\ quiet' = TRUE
  /\ UNCHANGED <<flash, history>>

UserNext ==
  \/ user_setting_init \/ LoadCheck \/ ci_setting_get \/ Apply
  \/ SetApply \/ SetConfig \/ ci_cfg_save_set
  \/ StoreErase \/ StoreWrite \/ StoreFails
  \/ ClearRam \/ ClearFlash \/ user_setting_erase
  \/ Reset

UserSpec == UserInit /\ [][UserNext]_userVars

-----------------------------------------------------------------------------
(* Correctness.                                                            *)

Booted == boot = Up /\ quiet

\* A save that was completed is what the system works with after a reset, as
\* long as nothing was erased since; with save_flag 0 it is the defaults
\* (ci_setting_save, ci_setting_load).
Recovered ==
  Booted /\ stored # None =>
    \A i \in Restored :
      applied[i] = IF stored[1] = Magic THEN AsLoaded(i, stored[i]) ELSE Default[i]

\* Wherever a save was cut off by a reset or an error: what the system works
\* with after the next reset is the defaults or one save, never parts of two;
\* only the last value may be missing and read as erased flash, since the
\* valid flag and the name are programmed before it (user_setting_store).
NeverMixed ==
  Booted =>
    \/ \A i \in Restored : applied[i] = Default[i]
    \/ \A i \in Restored :
         applied[i] \in {AsLoaded(i, image[i])} \cup (IF i = ItemCount THEN {Bits} ELSE {})

\* A save finds room for every item, however items were set, cleared and lost
\* before, unless a reset cut off a name: that slot stays taken by a name
\* nobody asks for (user_setting_set, user_setting_get).
RoomForAll ==
  \/ \E s \in Items : load[s].valid /\ load[s].name \notin Items
  \/ \A s, t \in Items : load[s].valid /\ load[t].valid /\ s # t => load[s].name # load[t].name

ci_cfg_save_get == IF cfg[1] = Magic THEN 1 ELSE 0

\* "Check if settings have been saved to flash. CI result: 1 -- saved to flash"
\* (ci_cmd.c:1241-1242).
SavedIsInFlash ==
  boot = Up /\ cmd = Idle /\ ci_cfg_save_get = 1 => user_setting_get(flash, 1) = Magic
=============================================================================
