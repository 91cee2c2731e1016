----------------------------- MODULE AppLaunch -----------------------------
(***************************************************************************)
(* What surrounds a session: main.c's start of the application, its        *)
(* configuration file (app/config.c), loading the kernel module and        *)
(* starting again with it (app/kernel.c), the shell and power locks of a   *)
(* backup (app/lock.c); the application closed by the user and launched    *)
(* again while the kernel module stays; the console rebooted.              *)
(*                                                                         *)
(* Its steps are those of GcSession while the application is up, with what *)
(* they do to the locks and the configuration added.                       *)
(***************************************************************************)
EXTENDS GcSession

CONSTANT MaxLaunches   \* bound: launches by the user

ASSUME LaunchAssumption == MaxLaunches \in Nat

VARIABLES
    life,       \* where main() is before its menu loop; "up" in it
    restarted,  \* argv[1] is "-restarted"
    kmod,       \* GcKernKit is loaded
    CONFIG,     \* what the settings in memory are
    conf,       \* what config.bin holds
    locked,     \* the shell is locked: no PS button, no power menu
    ticking,    \* lock_power has made this operation a thread
    power,      \* disable_power
    fresh,      \* tick threads created that have not run yet
    loops,      \* tick threads in their loop
    late,       \* history: a tick thread set the flag after unlock_power
    wiped,      \* vita_state was cleared under the running authentication
    launches

lifeVars == <<life, restarted, kmod, launches>>
confVars == <<CONFIG, conf>>
lockVars == <<locked, ticking, power, fresh, loops, late>>
allVars == <<vars, lifeVars, confVars, lockVars, wiped>>

-----------------------------------------------------------------------------
(* Configuration: app/config.c *)

(* What write_file may leave in config.bin, opened without O_TRUNC: all of it,
   nothing new, or the head of it, over a full-sized file a mixture. *)
save_config(old, new) ==
    {new, old, IF old \in {"none", "short"} THEN "short"
               ELSE IF old = new THEN new ELSE "torn"}

(* Mutant of ReadOk: a read that came back short is taken. *)
ReadAnything(c) == c \notin {"none", "old"}

(* read_file returns the size asked for, and the version is not an older one. *)
ReadOk(c) == c \notin {"none", "short", "old"}

(* init_config: reset_config fills in the defaults and saves them. *)
init_config ==
    /\ life = "config" /\ life' = "load"
    /\ \E made \in IF conf = "none" THEN save_config(conf, "default") ELSE {conf} :
         \/ /\ ReadOk(made) /\ CONFIG' = (IF made = "short" THEN "partial" ELSE made)
            /\ conf' = made
         \/ CONFIG' = "default" /\ conf' \in save_config(made, "default")
    /\ UNCHANGED <<vars, restarted, kmod, launches, lockVars, wiped>>

-----------------------------------------------------------------------------
(* Launching: main() and app/kernel.c *)

Launch ==
    /\ life = "closed" /\ launches < MaxLaunches
    /\ life' = "config" /\ restarted' = FALSE /\ launches' = launches + 1
    /\ UNCHANGED <<vars, kmod, confVars, lockVars, wiped>>

(* Mutant of load_kernel_modules: main() calls it whatever its arguments. *)
LoadEveryTime ==
    /\ life = "load"
    /\ IF kmod
       THEN life' = "check" /\ UNCHANGED <<kmod, restarted, CONFIG>>
       ELSE /\ kmod' \in BOOLEAN
            /\ life' = "config" /\ restarted' = TRUE /\ CONFIG' = "zero"
    /\ UNCHANGED <<vars, launches, conf, lockVars, wiped>>

(* load_kernel_modules, skipped after a restart: one of the locations has a
   module that starts, or none; whichever, sceAppMgrLoadExec replaces the
   application, unless that fails. *)
load_kernel_modules ==
    /\ life = "load"
    /\ IF restarted \/ kmod
       THEN life' = "check" /\ UNCHANGED <<kmod, restarted, CONFIG>>
       ELSE /\ kmod' \in BOOLEAN
            /\ \/ life' = "config" /\ restarted' = TRUE /\ CONFIG' = "zero"
               \/ life' = "check" /\ UNCHANGED <<restarted, CONFIG>>
    /\ UNCHANGED <<vars, launches, conf, lockVars, wiped>>

(* main() goes on to the prompt only with the module. *)
is_module_started ==
    /\ life = "check"
    /\ life' = IF kmod THEN "up" ELSE "failed"
    /\ UNCHANGED <<vars, restarted, kmod, launches, confVars, lockVars, wiped>>

(* The application's memory and threads are gone; the kernel's state stays. *)
ProcessEnds ==
    /\ life' = "closed" /\ restarted' = FALSE /\ CONFIG' = "zero"
    /\ locked' = FALSE /\ ticking' = FALSE /\ power' = FALSE
    /\ fresh' = 0 /\ loops' = 0 /\ late' = FALSE
    /\ app' = "prompt" /\ what' = "GET_GC_INFO" /\ fmt' = "VCI" /\ dest' = "ux0"
    /\ picked' = "none"
    /\ path' = [dev |-> "ux0", title |-> UNKNOWN, num |-> 0, ext |-> "VCI"]
    /\ dkeys' = NoCart /\ dcard' = NoCart /\ res' = "none" /\ failed' = {}

(* Closed by the user, or after the message that the module did not load. *)
CloseApp ==
    /\ life # "closed" /\ ~locked
    /\ ProcessEnds
    /\ UNCHANGED <<slot, kernVars, uma, files, loyal, userVars, kmod, launches,
                   conf, wiped>>

(* The console restarts, by its user or by the kernel's panic. *)
Reboot ==
    /\ ProcessEnds
    /\ kmod' = FALSE /\ wiped' = FALSE
    /\ ev' = FALSE /\ sd' = "idle" /\ seen' = {} /\ hook' = FALSE
    /\ auth' = FALSE /\ keys' = NoCart /\ undone' = FALSE /\ uma' = FALSE
    /\ loyal' = FALSE
    /\ UNCHANGED <<slot, files, userVars, launches, conf>>

-----------------------------------------------------------------------------
(* Locks: app/lock.c *)

(* lock_shell and lock_power, whose failure nobody looks at. *)
Lock ==
    /\ locked' = TRUE
    /\ ticking' \in BOOLEAN
    /\ fresh' = IF ticking' THEN fresh + 1 ELSE fresh
    /\ UNCHANGED <<power, loops, late>>

(* Mutant of unlock_power: the flag is left alone. *)
PowerLeftOn == UNCHANGED power
unlock_power == power' = FALSE

(* unlock_shell and unlock_power. *)
Unlock ==
    /\ locked' = FALSE /\ ticking' = FALSE
    /\ unlock_power /\ late' = FALSE
    /\ UNCHANGED <<fresh, loops>>

(* Both, around a restore or a wipe, which is one step here: the thread was not
   made, has not run yet when the lock is released, or is in its loop. *)
LockAndUnlock ==
    /\ \/ UNCHANGED <<fresh, loops>>
       \/ fresh' = fresh + 1 /\ UNCHANGED loops
       \/ loops' = loops + 1 /\ UNCHANGED fresh
    /\ unlock_power /\ late' = FALSE
    /\ UNCHANGED <<locked, ticking>>

(* Mutant of power_tick_thread: it does not set the flag it loops on. *)
TickWithoutFlag ==
    /\ fresh > 0 /\ fresh' = fresh - 1
    /\ loops' = loops + 1 /\ late' = (late \/ ~locked)
    /\ UNCHANGED <<power, vars, lifeVars, confVars, locked, ticking, wiped>>

(* power_tick_thread sets the flag when it first runs, and loops on it. *)
power_tick_thread ==
    /\ fresh > 0 /\ fresh' = fresh - 1
    /\ loops' = loops + 1 /\ late' = (late \/ ~locked)
    /\ power' = TRUE
    /\ UNCHANGED <<vars, lifeVars, confVars, locked, ticking, wiped>>
tick_thread_ends ==
    /\ loops > 0 /\ ~power /\ loops' = loops - 1
    /\ UNCHANGED <<vars, lifeVars, confVars, locked, ticking, power, fresh, late, wiped>>

-----------------------------------------------------------------------------
(* The session's steps *)

Elsewhere == UNCHANGED <<lifeVars, confVars>>

(* kEnableGcEmuMgr is called while a hook of the launch before is still there,
   and perhaps an authentication with it. *)
Enable == kEnableGcEmuMgr /\ wiped' = (sd = "auth") /\ Elsewhere /\ UNCHANGED lockVars

(* An authentication whose state was cleared under it fails, panics (Reboot), or,
   when only its return was left, succeeds without keys. *)
WipedAuthOk ==
    /\ wiped /\ sd = "auth" /\ sd' = "authed"
    /\ auth' = TRUE /\ keys' = NoCart /\ loyal' = FALSE
    /\ UNCHANGED <<slot, ev, seen, hook, undone, app, menuVars, workVars, userVars, wiped>>
AuthThreadStep ==
    /\ \/ k_run_authentication /\ wiped' = (wiped /\ sd' # "auth")
       \/ AuthOk /\ ~wiped /\ UNCHANGED wiped
       \/ WipedAuthOk
       \/ (AuthUnhook \/ AuthFail) /\ UNCHANGED wiped
    /\ Elsewhere /\ UNCHANGED lockVars

(* The network menu: the address and port are changed in memory, an invalid
   address to the default one, and saved when the transfer is started. *)
NetworkStep ==
    /\ handle_menu_set_network_options
    /\ IF app' = "netopts"
       THEN CONFIG' \in {CONFIG, "user", "default"} /\ UNCHANGED conf
       ELSE conf' \in save_config(conf, CONFIG) /\ UNCHANGED CONFIG
    /\ UNCHANGED <<lifeVars, lockVars, wiped>>

LockedStep ==
    /\ \/ do_device_dump /\ Lock
       \/ dump_device /\ Unlock
       \/ (do_device_restore \/ do_device_wipe_and_format) /\ LockAndUnlock
    /\ Elsewhere /\ UNCHANGED wiped

PlainStep ==
    /\ \/ wait_for_sd \/ kResetGc \/ reset_handled \/ kIsAuthenticated \/ kDisableGcEmuMgr
       \/ rename_file \/ key_dump
       \/ handle_menu_select_option \/ handle_menu_select_backup_format
       \/ handle_menu_set_output \/ handle_select_input_device \/ handle_select_file
       \/ handle_format_confirm_and_format \/ open_ime
       \/ CancelStep
    /\ Elsewhere /\ UNCHANGED <<lockVars, wiped>>

SlotStep == (RemoveCard \/ InsertCard) /\ Elsewhere /\ UNCHANGED <<lockVars, wiped>>
SessionStep == life = "up" /\ (Enable \/ NetworkStep \/ LockedStep \/ PlainStep)

LaunchInit ==
    /\ Init /\ ~auth /\ ~undone
    /\ life = "closed" /\ restarted = FALSE /\ kmod = FALSE
    /\ CONFIG = "zero" /\ conf \in {"none", "old", "user"}
    /\ locked = FALSE /\ ticking = FALSE /\ power = FALSE /\ fresh = 0 /\ loops = 0
    /\ late = FALSE /\ wiped = FALSE /\ launches = 0

StartStep == init_config \/ load_kernel_modules \/ is_module_started
TickStep == power_tick_thread \/ tick_thread_ends
LaunchNext ==
    \/ Launch \/ StartStep \/ CloseApp \/ Reboot
    \/ TickStep \/ AuthThreadStep \/ SlotStep \/ SessionStep

LaunchSpec == LaunchInit /\ [][LaunchNext]_allVars

(* main() and the tick threads are run by the scheduler. *)
FairLaunchSpec == LaunchSpec /\ WF_allVars(StartStep) /\ WF_allVars(TickStep)

-----------------------------------------------------------------------------
(* Properties *)

(* The settings in use are complete once init_config (config.c) is over. *)
ConfigInv ==
    /\ life \in {"closed", "config", "load", "check", "failed", "up"}
    /\ conf \in {"none", "short", "old", "default", "user", "torn"}
    /\ life \in {"load", "check", "failed", "up"} => CONFIG \in {"default", "user", "torn"}
(* What is left of the session's HookInv when a hook, or an authentication under
   way, may be the launch before's. *)
RelaunchInv ==
    /\ hook /\ auth => sd = "authed"
    /\ sd = "auth" => ~auth
    /\ auth => wiped \/ keys \in Carts
    /\ app \in {"disable"} \cup Menus \cup Work => auth
(* The shell is locked for the length of a dump and no longer. *)
LockInv ==
    /\ fresh \in Nat /\ loops \in Nat
    /\ locked = (app = "dumping")
    /\ locked /\ ticking => fresh > 0 \/ (power /\ loops > 0)
(* Whatever a save left behind, the application never goes on with the zeros the
   process starts with, nor with part of a file (config.c); and across launches
   the session's types, what its menus know of the hook (auth_emu.c) and the
   shell's lock (lock.c) stay right. *)
LaunchInv == TypeOK /\ ConfigInv /\ RelaunchInv /\ LockInv

(* The session's KeysReady, with the application closed and launched again at any
   point: past the prompt the card is authenticated, nobody is authenticating
   and the keys are some card's, unless kEnableGcEmuMgr (auth_emu.c) cleared
   them under an authentication that a hook of the launch before let start. *)
KeysReadyAgain ==
    life = "up" /\ app \notin Prompt => auth /\ sd # "auth" /\ (wiped \/ keys \in Carts)

(* "constantly tick power so that console doesn't fall asleep" (lock.c): from when
   lock_power's thread has run until the backup is over the flag it loops on is
   set and a thread is looping, whatever threads earlier backups left. *)
AwakeWhileDumping == locked /\ ticking /\ fresh = 0 => power /\ loops > 0

(* main() restarts itself at most once: it gets to the prompt, to the message that
   the module did not load, or is closed. *)
LaunchSettles == life = "config" ~> life \in {"up", "failed", "closed"}

(* After a backup the tick threads end, so that the console may sleep, provided
   that none of them first ran after unlock_power. *)
SleepsAgain ==
    (~locked /\ ~late /\ fresh = 0) ~> (loops = 0 \/ locked \/ late \/ fresh > 0)
=============================================================================
