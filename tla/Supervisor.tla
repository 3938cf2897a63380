----------------------------- MODULE Supervisor -----------------------------
(***************************************************************************)
(* The on-screen menu (supervisor.cpp and the sv_*.cpp screens) as the way  *)
(* the board is configured: screens and popups, the settings in NVS, and    *)
(* the restart that applies them.  Keys come from the keyboard and from the *)
(* debug API, both in loop(), one at a time.  A handler that saves several  *)
(* keys commits them to NVS one after the other, and power may be lost      *)
(* between any two commits.                                                 *)
(*                                                                          *)
(* What the debug API changes in the settings by itself is left out.        *)
(*                                                                          *)
(* Where a list's cursor stands is left out: ENTER picks any row.  A text   *)
(* is typed in one step.  `sub` is what the screen in front has open; each  *)
(* screen's open function sets its own, so what the others left behind is   *)
(* never read.  s_hd_open is the exception, and is kept apart.              *)
(***************************************************************************)
EXTENDS Naturals

CONSTANTS
  HDB_ROMS,     \* <<machine, timeout variant>> of the HDB-DOS ROMs on the card
  CARTS,        \* the cartridge files Load Cart lists
  RGBDOS_CARTS, \* those of them named rgbdos.rom
  BIG_CARTS,    \* over one bank: for the CoCo 3 only
  BAD_CARTS,    \* empty, or too large for either machine
  FLOPPY_IMAGES, VHD_IMAGES,
  FLOPPY_SLOTS, HD_SLOTS,
  RAM_VALUES,   \* CoCo 3 memory sizes
  NO_PATH,         \* an empty string: no cartridge, no image, no host
  MaxChanges    \* bound: changes of the settings that no other depends on, of the bus and of the drives

ASSUME SupervisorAssumption ==
  /\ RGBDOS_CARTS \cup BIG_CARTS \cup BAD_CARTS \subseteq CARTS
  /\ FLOPPY_IMAGES \cap VHD_IMAGES = {} /\ FLOPPY_SLOTS \cap HD_SLOTS = {}
  /\ NO_PATH \notin CARTS \cup FLOPPY_IMAGES \cup VHD_IMAGES \cup {"orch90.rom", "rgbdos.rom"}
  /\ "orch90.rom" \notin RGBDOS_CARTS
  /\ FLOPPY_SLOTS \cup HD_SLOTS \subseteq Nat /\ \A f \in FLOPPY_SLOTS, h \in HD_SLOTS : f < h
  /\ MaxChanges \in Nat

VARIABLES
  screen,     \* sv.state
  sub,        \* the popup or view open on it, with what it is about
  s_hd_open,  \* SV_CART_POPUP is the Hard Disk picker
  boot,       \* the settings this boot was started with
  live,       \* the settings that take effect at once, as they are now
  prefs,      \* NVS, namespace "sv"
  saving,     \* the save a handler is in the middle of
  slots,      \* the image mounted in each drive
  changes,    \* changes made, of those that MaxChanges bounds
  failed,     \* history: a mount has failed since the drives were last saved
  asked,      \* history: until the menu opens, what the question answered with the restart was about
  torn        \* history: the parts of the settings that a power loss left half saved

ui == <<screen, sub, s_hd_open>>
cfg == <<boot, live, prefs, saving, slots, changes, failed, asked, torn>>
svvars == <<ui, cfg>>

DriveSlot == FLOPPY_SLOTS \cup HD_SLOTS
Empty == [s \in DriveSlot |-> NO_PATH]
AtBoot == {"machine", "cpu", "ram", "orch90", "ssc", "vhd_en", "cart_rom", "bus"}
Plain == [kind |-> "none"]
Pending(m, h, t) == [mode |-> m, host |-> h, rom_to |-> t]

NoSave == [why |-> [what |-> "nothing"]]
Idle == saving = NoSave

FirstPrefs ==
  [machine |-> 4, cpu |-> "6809", ram |-> CHOOSE r \in RAM_VALUES : TRUE,
   orch90 |-> FALSE, ssc |-> FALSE, vhd_en |-> FALSE, cart_rom |-> NO_PATH,
   bus |-> Pending("off", NO_PATH, FALSE), paths |-> Empty,
   live |-> [joy_kbd |-> 0, kbd_layout |-> 0, artifacts |-> 0, monitor |-> 0, snd_mixer |-> 0,
             serial_mode |-> "off", keymap |-> "default", joy |-> 1]]

SupervisorInit ==
  /\ screen = "inactive" /\ sub = Plain /\ s_hd_open = FALSE
  /\ prefs = FirstPrefs
  /\ boot = [k \in AtBoot |-> FirstPrefs[k]] /\ live = FirstPrefs.live
  /\ slots = Empty /\ changes = 0 /\ failed = FALSE /\ asked = [what |-> "nothing"]
  /\ saving = NoSave /\ torn = {}

-----------------------------------------------------------------------------
(* Saving and restarting.                                                   *)

\* supervisor_save_state(): the drives' images; those of the hard disk are forgotten once it is off,
\* and left alone when this boot has none.
save_state(p, t) ==
  [p EXCEPT !.paths =
     [s \in DriveSlot |-> IF s \in FLOPPY_SLOTS THEN t[s]
                     ELSE IF ~p.vhd_en THEN NO_PATH
                     ELSE IF boot.vhd_en THEN t[s] ELSE p.paths[s]]]

\* supervisor_load_state(): a mount may fail, and the path stays in NVS.
Wanted(p) == [s \in DriveSlot |-> IF s \in HD_SLOTS /\ ~p.vhd_en THEN NO_PATH ELSE p.paths[s]]

\* dw_bus_load_config(): External without a host is off.
LoadedBus(b) == IF b.mode = "external" /\ b.host = NO_PATH THEN Pending("off", b.host, b.rom_to) ELSE b

\* Speech/Sound is off for this boot when its ROMs cannot be read.
Boots(p, why) ==
  /\ \E read \in BOOLEAN :
       boot' = [k \in AtBoot |-> CASE k = "ssc" -> p.ssc /\ read
                                   [] k = "bus" -> LoadedBus(p.bus)
                                   [] OTHER -> p[k]]
  /\ live' = p.live
  /\ \E bad \in SUBSET {s \in DriveSlot : Wanted(p)[s] # NO_PATH} :
       /\ slots' = [s \in DriveSlot |-> IF s \in bad THEN NO_PATH ELSE Wanted(p)[s]]
       /\ failed' = (bad # {})
  /\ screen' = "inactive" /\ sub' = Plain /\ s_hd_open' = FALSE
  /\ asked' = why /\ saving' = NoSave

\* A handler begins to save: what NVS will hold, and whether it restarts then.
BeginSave(p, why, restart) ==
  saving' = [from |-> prefs, to |-> p, why |-> why, restart |-> restart]

\* supervisor_save_and_restart(), after the settings `p` were saved.
SaveAndRestart(p, why) ==
  /\ BeginSave(save_state(p, slots), why, TRUE)
  /\ UNCHANGED <<ui, boot, live, prefs, slots, failed, asked, torn>>

-----------------------------------------------------------------------------
(* The commits of a save, in the order of the code: each put is one.  A put *)
(* of what NVS holds already changes nothing.                               *)

IsSaved(k) == prefs[k] = saving.to[k]

\* orch90_save(), hd_mode_save(), apply_target(); the other menus save one setting.
Puts ==
  CASE saving.why.what = "orch90" -> <<"orch90", "cart_rom", "vhd_en">>
    [] saving.why.what = "hd" -> <<"vhd_en", "orch90", "cart_rom">>
    [] saving.why.what = "cart_rom" -> <<"cart_rom", "orch90">>
    [] saving.why.what \in {"machine", "cpu", "ram", "ssc"} -> <<saving.why.what>>
    [] OTHER -> <<>>

Others == <<ui, boot, live, saving, slots, changes, failed, asked, torn>>

SaveSetting ==
  /\ \E i \in DOMAIN Puts :
       /\ ~IsSaved(Puts[i]) /\ \A j \in 1 .. i - 1 : IsSaved(Puts[j])
       /\ prefs' = [prefs EXCEPT ![Puts[i]] = saving.to[Puts[i]]]
  /\ UNCHANGED Others

\* dw_bus_save_config().
BusPuts == <<"mode", "host", "rom_to">>

SaveBus ==
  /\ ~Idle
  /\ \E i \in DOMAIN BusPuts :
       LET differs(j) == prefs.bus[BusPuts[j]] # saving.to.bus[BusPuts[j]]
       IN /\ differs(i) /\ \A j \in 1 .. i - 1 : ~differs(j)
          /\ prefs' = [prefs EXCEPT !.bus[BusPuts[i]] = saving.to.bus[BusPuts[i]]]
  /\ UNCHANGED Others

\* supervisor_save_state(), which follows all of these.
SaveDisk ==
  /\ ~Idle /\ \A k \in AtBoot : IsSaved(k)
  /\ \E s \in DriveSlot :
       /\ prefs.paths[s] # saving.to.paths[s]
       /\ \A t \in DriveSlot : t < s => prefs.paths[t] = saving.to.paths[t]
       /\ prefs' = [prefs EXCEPT !.paths[s] = saving.to.paths[s]]
  /\ UNCHANGED Others

\* The parts of the settings that depend on each other, and what NVS holds of them.
Parts == {"slot", "bus", "images"}
Part(g, p) ==
  CASE g = "slot" -> <<p.vhd_en, p.orch90, p.cart_rom>>
    [] g = "bus" -> p.bus
    [] g = "images" -> <<p.vhd_en, [s \in HD_SLOTS |-> p.paths[s]]>>

\* The answers that leave nothing of an earlier torn save behind.
SettlesSlot(why) == why.what \in {"orch90", "cart_rom"} \/ (why.what = "hd" /\ why.value # "off")
Settled ==
  {g \in Parts :
     CASE g = "slot" -> saving.restart /\ SettlesSlot(saving.why)
       [] g = "bus" -> saving.why.what = "bus"
       [] g = "images" -> /\ saving.restart \/ saving.why.what = "disks"
                          /\ ~saving.to.vhd_en \/ boot.vhd_en}

\* All is committed, and the board restarts.
Restarted ==
  /\ ~Idle /\ prefs = saving.to /\ saving.restart
  /\ Boots(prefs, saving.why) /\ torn' = torn \ Settled
  /\ UNCHANGED <<prefs, changes>>

\* All is committed, and the handler returns.
Returned ==
  /\ ~Idle /\ prefs = saving.to /\ ~saving.restart
  /\ saving' = NoSave /\ torn' = torn \ Settled
  /\ UNCHANGED <<ui, boot, live, prefs, slots, changes, failed, asked>>

\* External: power is lost and comes back.  What was waiting for a restart takes effect, and a part
\* of the settings may be neither what it was nor what was being saved.
PowerLost ==
  /\ changes < MaxChanges /\ changes' = changes + 1
  /\ Boots(prefs, [what |-> "nothing"]) /\ UNCHANGED prefs
  /\ torn' = IF Idle THEN torn
             ELSE torn \cup {g \in Parts : Part(g, prefs) \notin {Part(g, saving.from), Part(g, saving.to)}}

Bounded == changes < MaxChanges /\ changes' = changes + 1

-----------------------------------------------------------------------------
(* The screens.                                                             *)

Shown(s, x) == screen' = s /\ sub' = x /\ UNCHANGED s_hd_open
Open(s, x) == Shown(s, x) /\ UNCHANGED cfg
At(s, k) == screen = s /\ sub.kind = k

\* F3, and F1 where keys are not taken raw: neither reaches the screen's own F1 case.  Also ESC and
\* Resume in the main menu.
supervisor_toggle ==
  /\ Shown(IF screen = "inactive" THEN "main" ELSE "inactive", Plain)
  /\ asked' = [what |-> "nothing"] /\ UNCHANGED <<boot, live, prefs, saving, slots, changes, failed, torn>>

\* The DriveWire screen: the settings as edited, and those that cancelling its form goes back to.
Fuji(k, p, b) == [kind |-> k, p |-> p, back |-> b]
WifiView(from_main) == [kind |-> "main", from_main |-> from_main]

\* The tiles of the main menu.
execute_action ==
  /\ screen = "main"
  /\ \/ \E s \in {"cart", "files", "settings", "debug_menu", "about"} : Open(s, Plain)
     \/ Open("wifi", WifiView(TRUE))
     \/ Open("confirm", [kind |-> "reset", prev |-> screen])

\* "Reset machine?": either answer closes the menu, ESC goes back.
confirm_on_key ==
  /\ screen = "confirm"
  /\ supervisor_toggle \/ Open(sub.prev, Plain)

\* ESC where nothing is open, and the key that leaves a page.
Parent ==
  [settings |-> "main", cart |-> "main", files |-> "main", about |-> "main", debug_menu |-> "main",
   machine_menu |-> "settings", keyboard_menu |-> "settings", sound_menu |-> "settings",
   fujinet |-> "settings", machine_select |-> "machine_menu", cpu_popup |-> "machine_menu",
   ram_select |-> "machine_menu", keymap_list |-> "keyboard_menu", keymap_capture |-> "keymap_list",
   keymap_test |-> "keymap_list", debug_dump |-> "debug_menu", dump_name |-> "debug_menu"]
Back == screen \in DOMAIN Parent /\ sub.kind = "none" /\ Open(Parent[screen], Plain)

-----------------------------------------------------------------------------
(* Settings that take effect at once and are saved with it.                 *)

Applied(key, v) ==
  /\ Bounded
  /\ live' = [live EXCEPT ![key] = v] /\ prefs' = [prefs EXCEPT !.live[key] = v]
  /\ UNCHANGED <<screen, sub, s_hd_open, boot, slots, failed, asked, saving, torn>>

Cycle(key, n) == Applied(key, (live[key] + 1) % n)
SerialRow(mode) == Applied("serial_mode", IF live.serial_mode = mode THEN "off" ELSE mode)

settings_activate ==
  /\ screen = "settings"
  /\ \/ \E s \in {"machine_menu", "keyboard_menu", "sound_menu"} : Open(s, Plain)
     \/ Open("joy_sense", Plain)
     \/ Cycle("joy_kbd", 3)
     \/ Open("wifi", WifiView(FALSE))
     \/ Open("fujinet", Fuji("none", boot.bus, boot.bus))

keyboard_activate ==
  /\ screen = "keyboard_menu"
  /\ Cycle("kbd_layout", 2) \/ Open("keymap_list", Plain)

\* Mouse Sensitivity: the level is applied with each key, and saved by ESC only.
sv_joystick_on_key ==
  /\ screen = "joy_sense"
  /\ \/ /\ Bounded
        /\ \E n \in {1, 2} : live' = [live EXCEPT !.joy = n]
        /\ UNCHANGED <<ui, boot, prefs, slots, failed, asked, saving, torn>>
     \/ /\ prefs' = [prefs EXCEPT !.live.joy = live.joy]
        /\ Shown("settings", Plain)
        /\ UNCHANGED <<boot, live, slots, changes, failed, asked, saving, torn>>

\* The Key Mapper: capture asks for the key, then whether to map it.
sv_keymap_on_key ==
  /\ At("keymap_list", "none")
  /\ \/ \E s \in {"keymap_capture", "keymap_test"} : Open(s, Plain)
     \/ \E k \in {"choose", "clear"} : Open(screen, [kind |-> k])

Mapped(v) ==
  /\ Bounded
  /\ live' = [live EXCEPT !.keymap = v] /\ prefs' = [prefs EXCEPT !.live.keymap = v]
  /\ Shown("keymap_list", Plain)
  /\ UNCHANGED <<boot, slots, failed, asked, saving, torn>>

km_popup_on_key ==
  /\ screen = "keymap_list"
  /\ \/ sub.kind # "none" /\ Open(screen, Plain)
     \/ sub.kind = "choose" /\ Open("keymap_capture", Plain)
     \/ sub.kind = "map" /\ Mapped("custom")
     \/ sub.kind = "clear" /\ Mapped("default")

sv_keymap_on_raw_vk ==
  /\ screen = "keymap_capture"
  /\ \/ \E v \in {"default", live.keymap} : Mapped(v)      \* DEL clears one binding of several
     \/ Open("keymap_list", [kind |-> "map"])

-----------------------------------------------------------------------------
(* Settings that are fixed at boot: each asks, saves and restarts.          *)

\* Machine, CPU and memory; the last two need no more than the choice of another value.
machine_menu_activate ==
  /\ screen = "machine_menu"
  /\ \/ \E s \in {"machine_select", "cpu_popup"} : Open(s, Plain)
     \/ boot.machine = 4 /\ Open("ram_select", Plain)
     \/ boot.machine = 4 /\ (Cycle("artifacts", 3) \/ Cycle("monitor", 2))
     \/ Cycle("snd_mixer", 2)

\* ENTER on the value in use goes back; another one is confirmed first.
Choose(s, key, values) ==
  /\ screen = s
  /\ \/ At(s, "none") /\ \E v \in values \ {boot[key]} : Open(s, [kind |-> "restart", pick |-> v])
     \/ At(s, "restart") /\ Open(s, Plain)
     \/ At(s, "restart") /\ Open("machine_menu", Plain)
     \/ /\ At(s, "restart") /\ Bounded
        /\ SaveAndRestart([prefs EXCEPT ![key] = sub.pick], [what |-> key, value |-> sub.pick])

sv_machine_select_on_key == Choose("machine_select", "machine", {3, 4})
sv_ram_select_on_key == Choose("ram_select", "ram", RAM_VALUES)

sv_cpu_popup_on_key ==
  /\ screen = "cpu_popup" /\ Bounded
  /\ \E v \in {"6809", "6309"} \ {boot.cpu} :
       SaveAndRestart([prefs EXCEPT !.cpu = v], [what |-> "cpu", value |-> v])

-----------------------------------------------------------------------------
(* Multi-Pak: Orchestra-90, Speech/Sound, and the hard disk.  Orchestra-90  *)
(* and the hard disk share the cartridge slot, with each other and with     *)
(* Load Cart.                                                               *)

ORCH == "orch90.rom"
RGBDOS == "rgbdos.rom"
is_rgbdos_name(c) == c \in RGBDOS_CARTS \cup {RGBDOS}

orch90_save(p, on) ==
  [p EXCEPT !.orch90 = on, !.cart_rom = IF on THEN ORCH ELSE NO_PATH, !.vhd_en = IF on THEN FALSE ELSE @]
ToggleSave(p, key, on) == IF key = "orch90" THEN orch90_save(p, on) ELSE [p EXCEPT !.ssc = on]

HdMode == {"off", "rsdos", "rgbdos"}
hd_mode(p) == IF ~p.vhd_en THEN "off" ELSE IF is_rgbdos_name(p.cart_rom) THEN "rgbdos" ELSE "rsdos"
hd_mode_now == hd_mode(boot)

\* Mutant: turning the hard disk on leaves Orchestra-90 as it is.
HdKeepsOrch(p, mode) ==
  [p EXCEPT !.vhd_en = mode # "off",
            !.cart_rom = IF mode = "rgbdos" THEN (IF is_rgbdos_name(@) THEN @ ELSE RGBDOS)
                         ELSE IF mode = "rsdos" \/ is_rgbdos_name(@) THEN NO_PATH ELSE @]

\* Mutant: RS-DOS keeps the cartridge that is saved.
HdKeepsCart(p, mode) ==
  [p EXCEPT !.vhd_en = mode # "off", !.orch90 = IF mode # "off" THEN FALSE ELSE @,
            !.cart_rom = IF mode = "rgbdos" /\ ~is_rgbdos_name(@) THEN RGBDOS ELSE @]

hd_mode_save(p, mode) ==
  [p EXCEPT !.vhd_en = mode # "off", !.orch90 = IF mode # "off" THEN FALSE ELSE @,
            !.cart_rom = IF mode = "rgbdos" THEN (IF is_rgbdos_name(@) THEN @ ELSE RGBDOS)
                         ELSE IF mode = "rsdos" \/ is_rgbdos_name(@) THEN NO_PATH ELSE @]

\* A row of Multi-Pak opens its popup, which names a ROM that is missing from the card.
cart_toggle_open(key) ==
  \E k \in {"toggle"} \cup (IF boot[key] THEN {} ELSE {"no_rom"}) :
    Open("cart_popup", [kind |-> k, row |-> key, prev |-> screen])

hd_popup_open ==
  /\ screen' = "cart_popup" /\ sub' = [kind |-> "picker", row |-> "hd", prev |-> screen]
  /\ s_hd_open' = TRUE /\ UNCHANGED cfg

sv_sound_menu_on_key ==
  /\ screen = "sound_menu"
  /\ \/ \E key \in {"orch90", "ssc"} : cart_toggle_open(key)
     \/ hd_popup_open
     \/ SerialRow("rs232")

\* s_hd_open decides which of the two the popup is.
CartPopup == screen = "cart_popup" /\ ~s_hd_open
HdPopup == screen = "cart_popup" /\ s_hd_open

sv_cart_popup_on_key ==
  /\ CartPopup
  /\ \/ Open(sub.prev, Plain)
     \/ /\ sub.kind = "toggle" /\ UNCHANGED changes
        /\ LET on == ~boot[sub.row]
           IN  SaveAndRestart(ToggleSave(prefs, sub.row, on), [what |-> sub.row, value |-> on])

hd_popup_on_key ==
  /\ HdPopup
  /\ \/ screen' = sub.prev /\ sub' = Plain /\ s_hd_open' = FALSE /\ UNCHANGED cfg
     \/ \E mode \in HdMode \ {hd_mode_now} :              \* a note when RGB-DOS has no ROM
          /\ UNCHANGED changes
          /\ SaveAndRestart(hd_mode_save(prefs, mode), [what |-> "hd", value |-> mode, was |-> hd_mode_now])

-----------------------------------------------------------------------------
(* Load Cart: the one change that may wait for a later restart.             *)

\* Going back to what this boot loaded keeps its Orchestra-90, any other cartridge takes its slot.
CartSaved(p, target) ==
  [p EXCEPT !.cart_rom = target, !.orch90 = target = boot.cart_rom /\ boot.orch90]

CartRefused(c) == c \in BAD_CARTS \/ (c \in BIG_CARTS /\ boot.machine # 4)

CartWaits(target) ==
  /\ BeginSave(CartSaved(prefs, target), [what |-> "cart_rom", value |-> target], FALSE)
  /\ Shown(screen, Plain) /\ UNCHANGED <<boot, live, prefs, slots, changes, failed, asked, torn>>

choose_target(target) ==
  IF target = boot.cart_rom THEN CartWaits(target) ELSE Open(screen, [kind |-> "restart", pick |-> target])

select_row ==
  /\ At("cart", "none")
  /\ \/ (prefs.cart_rom # NO_PATH \/ boot.cart_rom # NO_PATH) /\ choose_target(NO_PATH)
     \/ \E c \in CARTS : IF CartRefused(c) THEN Open(screen, [kind |-> "message"]) ELSE choose_target(c)

sv_cart_on_key ==
  /\ screen = "cart"
  /\ \/ sub.kind # "none" /\ Open(screen, Plain)
     \/ sub.kind = "restart" /\ CartWaits(sub.pick)
     \/ /\ sub.kind = "restart" /\ UNCHANGED changes
        /\ SaveAndRestart(CartSaved(prefs, sub.pick), [what |-> "cart_rom", value |-> sub.pick])

-----------------------------------------------------------------------------
(* DriveWire: edited in `p`, saved as a whole.                              *)

validate_external(p) == p.host # NO_PATH /\ <<boot.machine, p.rom_to>> \in HDB_ROMS

\* What was valid when the server was switched on is looked at again.
MaySave(p) == p.mode = "external" => validate_external(p)

Hosts == {NO_PATH, "host"}
Edited(p) == {[p EXCEPT !.host = h] : h \in Hosts} \cup {[p EXCEPT !.rom_to = ~@]}

\* The rows of the server are there while it is on.  Switching it on opens a form, which may be
\* cancelled; a message goes back to what it interrupted.
fujinet_execute ==
  /\ At("fujinet", "none")
  /\ \/ /\ sub.p.mode = "external"
        /\ \E p \in Edited(sub.p) \cup {[sub.p EXCEPT !.mode = "off"]} : Open(screen, Fuji("none", p, p))
     \/ sub.p.mode = "off" /\ Open(screen, Fuji("enable", sub.p, sub.p))
     \/ Open(screen, Fuji(IF MaySave(sub.p) THEN "save" ELSE "refused", sub.p, sub.p))

enable_form ==
  /\ At("fujinet", "enable")
  /\ \/ \E p \in Edited(sub.p) : Open(screen, Fuji("enable", p, sub.back))
     \/ Open(screen, Fuji("none", sub.back, sub.back))
     \/ IF validate_external(sub.p)
        THEN \E p \in {[sub.p EXCEPT !.mode = "external"]} : Open(screen, Fuji("none", p, p))
        ELSE Open(screen, Fuji("message", sub.p, sub.back))

fujinet_popup ==
  /\ screen = "fujinet"
  /\ \/ sub.kind = "message" /\ Open(screen, Fuji("enable", sub.p, sub.back))
     \/ sub.kind \in {"refused", "save"} /\ Open(screen, Fuji("none", sub.p, sub.p))
     \/ /\ sub.kind = "save" /\ Bounded
        /\ SaveAndRestart([prefs EXCEPT !.bus = sub.p], [what |-> "bus", value |-> sub.p])

-----------------------------------------------------------------------------
(* The Disk Manager.  An image that is not wanted twice, and a disk that    *)
(* would be replaced, are asked about.                                      *)

SlotsFor(i) == IF i \in VHD_IMAGES THEN HD_SLOTS ELSE FLOPPY_SLOTS
Images == FLOPPY_IMAGES \cup (IF boot.vhd_en THEN VHD_IMAGES ELSE {})

\* What is in the drives now is saved.
SaveDrives(new) ==
  /\ slots' = new /\ failed' = FALSE
  /\ BeginSave(save_state(prefs, new), [what |-> "disks"], FALSE)
  /\ Shown("files", Plain)

\* The old image is ejected first.  When the new one cannot be loaded, the drive stays empty and
\* nothing is saved.
do_mount(slot, i) ==
  /\ Bounded
  /\ \/ SaveDrives([slots EXCEPT ![slot] = i])
     \/ /\ slots' = [slots EXCEPT ![slot] = NO_PATH] /\ failed' = TRUE
        /\ Shown("files", [kind |-> "failed"]) /\ UNCHANGED saving
  /\ UNCHANGED <<boot, live, prefs, asked, torn>>

Twice(i) == \E s \in SlotsFor(i) : slots[s] = i

sv_filebrowser_on_key ==
  /\ At("files", "none")
  /\ \/ \E i \in Images : Open(screen, [kind |-> "mount", image |-> i])
     \/ \E s \in DriveSlot : slots[s] # NO_PATH /\ Open(screen, [kind |-> "unmount", slot |-> s])

fb_popup_accept ==
  /\ screen = "files"
  /\ \/ sub.kind # "none" /\ Open(screen, Plain)         \* No, Cancel, OK, ESC
     \/ /\ sub.kind = "mount"
        /\ \E s \in SlotsFor(sub.image) :
             CASE slots[s] = sub.image -> Open(screen, Plain)
               [] slots[s] # NO_PATH /\ slots[s] # sub.image ->
                    Open(screen, [kind |-> "replace", image |-> sub.image, slot |-> s])
               [] slots[s] = NO_PATH /\ Twice(sub.image) ->
                    Open(screen, [kind |-> "again", image |-> sub.image, slot |-> s])
               [] OTHER -> do_mount(s, sub.image)
     \/ sub.kind \in {"replace", "again"} /\ do_mount(sub.slot, sub.image)
     \/ /\ sub.kind = "unmount" /\ Bounded
        /\ SaveDrives([slots EXCEPT ![sub.slot] = NO_PATH])
        /\ UNCHANGED <<boot, live, prefs, asked, torn>>

\* F6: the disk that was last in drive 0, with the menu closed; nothing is saved.
supervisor_quick_mount_last_disk ==
  /\ screen = "inactive"
  /\ \E s \in FLOPPY_SLOTS :
       /\ s = 0 /\ prefs.paths[s] # NO_PATH
       /\ \/ slots' = [slots EXCEPT ![s] = prefs.paths[s]] /\ UNCHANGED failed
          \/ slots' = [slots EXCEPT ![s] = NO_PATH] /\ failed' = TRUE
  /\ UNCHANGED <<ui, boot, live, prefs, changes, asked, saving, torn>>

-----------------------------------------------------------------------------
(* WiFi and Debug: what their keys do to the radio, the serial port and the *)
(* card is not of interest here.                                            *)

View(k) == Open(screen, [sub EXCEPT !.kind = k])

sv_wifi_on_key ==
  /\ screen = "wifi"
  /\ \/ At("wifi", "main") /\ \E k \in {"scanning", "message", "forget"} : View(k)
     \/ At("wifi", "main") /\ Open(IF sub.from_main THEN "main" ELSE "settings", Plain)
     \/ sub.kind \in {"message", "forget", "nets"} /\ View("main")
     \/ At("wifi", "scanning") /\ View("nets")            \* drawn, then the blocking scan
     \/ At("wifi", "nets") /\ \E k \in {"scanning", "ssid", "password"} : View(k)

\* Raw keys: the name of the network, then its password; ESC goes back one step.
sv_wifi_on_text_key ==
  /\ screen = "wifi" /\ sub.kind \in {"ssid", "password"}
  /\ \/ View("nets")
     \/ At("wifi", "ssid") /\ View("password")
     \/ At("wifi", "password") /\ \E k \in {"ssid", "main"} : View(k)

sv_debug_menu_on_key ==
  /\ screen = "debug_menu"
  /\ (\E s \in {"debug_dump", "dump_name"} : Open(s, Plain)) \/ SerialRow("debug")

\* The name is taken, the banner drawn, the files written; keys are ignored meanwhile.
sv_debug_dump_on_key ==
  /\ screen = "dump_name"
  /\ \/ At("dump_name", "none") /\ Open(screen, [kind |-> "saving"])
     \/ At("dump_name", "saving") /\ Open(screen, [kind |-> "result"])
     \/ At("dump_name", "result") /\ Open("debug_menu", Plain)

Pressed ==
  \/ supervisor_toggle \/ execute_action \/ confirm_on_key \/ Back
  \/ settings_activate \/ keyboard_activate \/ sv_joystick_on_key \/ sv_keymap_on_key \/ km_popup_on_key
  \/ sv_keymap_on_raw_vk \/ machine_menu_activate \/ sv_machine_select_on_key \/ sv_ram_select_on_key
  \/ sv_cpu_popup_on_key \/ sv_sound_menu_on_key \/ sv_cart_popup_on_key \/ hd_popup_on_key
  \/ select_row \/ sv_cart_on_key \/ fujinet_execute \/ enable_form \/ fujinet_popup
  \/ sv_filebrowser_on_key \/ fb_popup_accept \/ supervisor_quick_mount_last_disk
  \/ sv_wifi_on_key \/ sv_wifi_on_text_key \/ sv_debug_menu_on_key \/ sv_debug_dump_on_key

\* A handler that saves runs to its end before the next key.
SupervisorNext ==
  \/ Idle /\ Pressed
  \/ SaveSetting \/ SaveBus \/ SaveDisk \/ Restarted \/ Returned \/ PowerLost

SupervisorSpec == SupervisorInit /\ [][SupervisorNext]_svvars

-----------------------------------------------------------------------------
\* Orchestra-90 needs the cartridge slot for its own ROM and for itself alone.
SlotOk(p) == p.orch90 => p.cart_rom = ORCH /\ ~p.vhd_en

\* An External bus has its host, and an HDB-DOS ROM it was saved with.
BusFits(b) ==
  b.mode = "external" => b.host # NO_PATH /\ \E m \in {3, 4} : <<m, b.rom_to>> \in HDB_ROMS

\* A hard disk that is off has no images to come back with.
Forgotten(p) == ~p.vhd_en => \A s \in HD_SLOTS : p.paths[s] = NO_PATH

\* What the settings `p` owe each other, but for the parts t that a power loss tore.
Good(p, t) ==
  /\ "slot" \in t \/ SlotOk(p)
  /\ "bus" \in t \/ BusFits(p.bus)
  /\ "images" \in t \/ Forgotten(p)

\* What this boot was started with, of the settings that no menu saves without a restart.
RunsWith(p) ==
  /\ \A k \in {"machine", "cpu", "ram", "vhd_en"} : boot[k] = p[k]
  /\ boot.bus = LoadedBus(p.bus)

\* Whatever order the menus, Load Cart with and without a restart and power losses between and in the
\* middle of saves come in: the slot has one owner, in this boot and in the next, an External bus its
\* host and its ROM, and a hard disk that is off no images, unless power was lost in the middle of
\* saving that very part and it was not saved again since; only a cartridge waits for a restart; no
\* bus comes up without a host; what takes effect at once is what is saved.
SettingsSafe ==
  /\ "slot" \in torn \/ SlotOk(boot)
  /\ Idle => Good(prefs, torn) /\ RunsWith(prefs)
  /\ boot.bus.mode = "external" => boot.bus.host # NO_PATH
  /\ \A k \in DOMAIN live \ {"joy"} : live[k] = prefs.live[k]

\* What the question `why` named is so in the settings p.
Obeys(p, why) ==
  /\ why.what = "hd" =>
       hd_mode(p) = why.value /\ (why.value = "off" => ~is_rgbdos_name(p.cart_rom))
  /\ why.what = "orch90" =>
       p.orch90 = why.value /\ p.cart_rom = (IF why.value THEN ORCH ELSE NO_PATH)
  /\ why.what \in {"machine", "cpu", "ram", "cart_rom", "bus"} => p[why.what] = why.value
  /\ SettlesSlot(why) => SlotOk(p)

\* What a restart was answered for is what came up, with the slot settled, whatever a power loss did
\* before; a hard disk turned on starts empty unless power was lost while its images were forgotten.
Obeyed ==
  /\ Obeys(boot, asked)
  /\ asked.what = "ssc" => prefs.ssc = asked.value
  /\ asked.what = "hd" /\ asked.was = "off" /\ "images" \notin torn
       => \A s \in HD_SLOTS : slots[s] = NO_PATH

\* The slots whose paths are to be those of the drives.
Follows(p, s) == s \in FLOPPY_SLOTS \/ (boot.vhd_en /\ p.vhd_en)
InDrives(p) == \A s \in DriveSlot : Follows(p, s) => p.paths[s] = slots[s]

\* The drives of the next boot are those of this one, also when power is lost in the middle of a
\* save, unless a mount failed or the drives are just being saved; this boot has images in the hard
\* disk's drives only with the hard disk on.
Remembered ==
  /\ failed \/ saving.why.what = "disks" \/ InDrives(prefs)
  /\ ~boot.vhd_en => \A s \in HD_SLOTS : slots[s] = NO_PATH

\* A restart brings up what its question named, with the disks that were in the drives
\* (hd_mode_save(), orch90_save(), apply_target(), supervisor_save_state()).
RestartObeys == Obeyed /\ Remembered

\* The settings have their fields.
LiveKeys == {"joy_kbd", "kbd_layout", "artifacts", "monitor", "snd_mixer", "serial_mode", "keymap", "joy"}
Whole(p) ==
  /\ DOMAIN p = AtBoot \cup {"paths", "live"}
  /\ DOMAIN p.live = LiveKeys /\ DOMAIN p.paths = DriveSlot /\ p.machine \in {3, 4}
SettingsShape ==
  /\ Whole(prefs) /\ DOMAIN boot = AtBoot /\ DOMAIN live = LiveKeys /\ DOMAIN slots = DriveSlot
  /\ boot.machine \in {3, 4}

\* What a popup holds while it waits for an answer is still right when the answer comes.
SlotFits(s) == s \in FLOPPY_SLOTS \/ (s \in HD_SLOTS /\ boot.vhd_en)
AnswersFit ==
  /\ screen # "inactive" => asked = [what |-> "nothing"]
  /\ At("fujinet", "save") => MaySave(sub.p)
  /\ At("cart_popup", "toggle") => sub.row \in {"orch90", "ssc"}
  /\ At("cart", "restart") => sub.pick # boot.cart_rom
  /\ At("machine_select", "restart") => sub.pick \in {3, 4}
  /\ At("files", "mount") => \A s \in SlotsFor(sub.image) : SlotFits(s)
  /\ At("files", "replace") \/ At("files", "again") => SlotFits(sub.slot)

\* A save in progress goes from settings that are right to settings that are, and these are what its
\* question named, with what is in the drives.
SaveFits ==
  /\ screen # "inactive" /\ Whole(saving.to) /\ saving.to.live = prefs.live
  /\ Good(saving.from, torn) /\ Good(saving.to, torn \ Settled)
  /\ prefs.vhd_en \in {boot.vhd_en, saving.to.vhd_en}
  /\ failed \/ InDrives(saving.to)
  /\ saving.restart =>
       /\ Obeys(saving.to, saving.why)
       /\ saving.why.what = "ssc" => saving.to.ssc = saving.why.value
       /\ saving.why.what = "hd" =>
            /\ saving.why.was = hd_mode_now
            /\ saving.why.was = "off" /\ "images" \notin torn =>
                 \A s \in HD_SLOTS : saving.to.paths[s] = NO_PATH
  /\ ~saving.restart => RunsWith(saving.to)

\* The inductive invariant behind SettingsSafe and RestartObeys.
SupervisorIInv == SettingsShape /\ SettingsSafe /\ RestartObeys /\ AnswersFit /\ (~Idle => SaveFits)

-----------------------------------------------------------------------------
\* "The Hard Disk row has its own picker (hd_popup_*)" (sv_menu.cpp): the popup over Multi-Pak is the
\* picker when, and only when, that row was chosen.
PickerIsTheHardDisks == screen = "cart_popup" => (s_hd_open <=> sub.row = "hd")
=============================================================================
