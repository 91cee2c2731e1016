-------------------------- MODULE AppLaunchProofs --------------------------
(***************************************************************************)
(* Proofs about AppLaunch: for any number of launches, cards, swaps and    *)
(* menu choices, with the application closed, or the console rebooted, at  *)
(* any point.                                                              *)
(***************************************************************************)
EXTENDS AppLaunch, GcSessionProofs

USE DEF kernVars, menuVars, workVars, userVars, lifeVars, confVars, lockVars, Elsewhere

(* Closing the application or rebooting puts its variables back to where
   a session starts. *)
LEMMA EndType == TypeOK /\ (CloseApp \/ Reboot) => TypeOK'
<1> SUFFICES ASSUME TypeOK, CloseApp \/ Reboot PROVE TypeOK'
    OBVIOUS
<1>1. ProcessEnds
    BY DEF CloseApp, Reboot
<1>2. UNCHANGED <<slot, files, acts, swaps>>
    BY DEF CloseApp, Reboot
<1>3. \/ UNCHANGED <<ev, sd, seen, hook, auth, keys, undone, uma, loyal>>
      \/ /\ ev' = FALSE /\ sd' = "idle" /\ seen' = {} /\ hook' = FALSE
         /\ auth' = FALSE /\ keys' = NoCart /\ undone' = FALSE /\ uma' = FALSE
         /\ loyal' = FALSE
    BY DEF CloseApp, Reboot
<1>4. FlagsOK'
    BY <1>3, Zenon DEF TypeOK, FlagsOK
<1>5. /\ sd' \in {"idle", "auth", "authed"} /\ seen' \subseteq Carts
      /\ keys' \in Carts \cup {NoCart}
    BY <1>3 DEF TypeOK
<1>6. path' \in Path
    BY <1>1 DEF ProcessEnds, Path, Formats
<1> QED BY <1>1, <1>2, <1>4, <1>5, <1>6 DEF ProcessEnds, TypeOK, Prompt, Options, Formats

(* Every other step is a step of the session, one that leaves its variables
   alone, or an authentication that lost its state. *)
LEMMA LaunchStep ==
    LaunchNext => CloseApp \/ Reboot \/ [Next]_vars \/ WipedAuthOk
<1> SUFFICES ASSUME LaunchNext PROVE CloseApp \/ Reboot \/ [Next]_vars \/ WipedAuthOk
    OBVIOUS
<1>1. CASE Launch \/ StartStep \/ TickStep
    BY <1>1 DEF Launch, StartStep, init_config, load_kernel_modules, is_module_started,
                TickStep, power_tick_thread, tick_thread_ends
<1>2. CASE AuthThreadStep
    BY <1>2 DEF AuthThreadStep, Next, AuthThread
<1>3. CASE SlotStep
    BY <1>3 DEF SlotStep, Next
<1>4. CASE SessionStep
  <2>1. CASE Enable \/ NetworkStep
    BY <2>1 DEF Enable, NetworkStep, Next, PromptStep, UserStep
  <2>2. CASE LockedStep
    BY <2>2 DEF LockedStep, Next, WorkStep
  <2>3. CASE PlainStep
    BY <2>3 DEF PlainStep, Next, PromptStep, WorkStep, UserStep
  <2> QED BY <1>4, <2>1, <2>2, <2>3 DEF SessionStep
<1> QED BY <1>1, <1>2, <1>3, <1>4 DEF LaunchNext

(* The session's variables stay within their types. *)
LEMMA LaunchType == TypeOK /\ [LaunchNext]_allVars => TypeOK'
<1> SUFFICES ASSUME TypeOK, [LaunchNext]_allVars PROVE TypeOK'
    OBVIOUS
<1>1. CASE CloseApp \/ Reboot
    BY <1>1, EndType
<1>2. CASE [Next]_vars
    BY <1>2, SessionType
<1>3. CASE WipedAuthOk
  <2>1. FlagsOK'
    BY <1>3, Zenon DEF WipedAuthOk, TypeOK, FlagsOK
  <2> QED BY <1>3, <2>1 DEF WipedAuthOk, TypeOK
<1>4. CASE UNCHANGED allVars
    BY <1>4, SessionType DEF allVars
<1> QED BY <1>1, <1>2, <1>3, <1>4, LaunchStep

(* What write_file may leave is one of the contents config.bin can have. *)
LEMMA SavedConfig ==
    ASSUME NEW old \in {"none", "short", "old", "default", "user", "torn"},
           NEW new \in {"default", "user", "torn"},
           NEW left \in save_config(old, new)
    PROVE  left \in {"none", "short", "old", "default", "user", "torn"}
    BY DEF save_config

(* No step leaves the settings incomplete past init_config. *)
LEMMA ConfigStep == ConfigInv /\ [LaunchNext]_allVars => ConfigInv'
<1> SUFFICES ASSUME ConfigInv, [LaunchNext]_allVars PROVE ConfigInv'
    OBVIOUS
<1>1. CASE init_config
  <2>1. PICK made \in IF conf = "none" THEN save_config(conf, "default") ELSE {conf} :
            \/ /\ ReadOk(made) /\ CONFIG' = (IF made = "short" THEN "partial" ELSE made)
               /\ conf' = made
            \/ CONFIG' = "default" /\ conf' \in save_config(made, "default")
    BY <1>1 DEF init_config
  <2>2. made \in {"none", "short", "old", "default", "user", "torn"}
    BY SavedConfig DEF ConfigInv
  <2>3. conf' \in {"none", "short", "old", "default", "user", "torn"}
    BY <2>1, <2>2, SavedConfig
  <2>4. CONFIG' \in {"default", "user", "torn"}
    BY <2>1, <2>2 DEF ReadOk
  <2> QED BY <1>1, <2>3, <2>4 DEF init_config, ConfigInv
<1>2. CASE Launch \/ load_kernel_modules \/ is_module_started
    BY <1>2 DEF Launch, load_kernel_modules, is_module_started, ConfigInv
<1>3. CASE CloseApp \/ Reboot
    BY <1>3 DEF CloseApp, Reboot, ProcessEnds, ConfigInv
<1>4. CASE SessionStep /\ NetworkStep
  <2>1. CONFIG \in {"default", "user", "torn"} /\ life = "up"
    BY <1>4 DEF SessionStep, ConfigInv
  <2>2. conf' \in {"none", "short", "old", "default", "user", "torn"}
    BY <1>4, <2>1, SavedConfig DEF NetworkStep, ConfigInv
  <2> QED BY <1>4, <2>1, <2>2 DEF NetworkStep, ConfigInv
<1>5. CASE UNCHANGED <<life, conf, CONFIG>>
    BY <1>5 DEF ConfigInv
<1>6. TickStep \/ AuthThreadStep \/ SlotStep => UNCHANGED <<life, conf, CONFIG>>
    BY DEF TickStep, power_tick_thread, tick_thread_ends, AuthThreadStep, SlotStep
<1>7. Enable \/ LockedStep \/ PlainStep => UNCHANGED <<life, conf, CONFIG>>
    BY DEF Enable, LockedStep, PlainStep
<1>8. UNCHANGED allVars => UNCHANGED <<life, conf, CONFIG>>
    BY DEF allVars
<1> QED BY <1>1, <1>2, <1>3, <1>4, <1>5, <1>6, <1>7, <1>8
        DEF LaunchNext, StartStep, SessionStep

(* Nobody but the authentication, the prompt and a reboot touch what RelaunchInv
   is about. *)
LEMMA RelaunchKept ==
    ASSUME RelaunchInv, UNCHANGED <<sd, hook, auth, keys, wiped>>,
           \/ app' = app
           \/ app \in Menus \cup Work
           \/ app' \notin {"disable"} \cup Menus \cup Work
    PROVE  RelaunchInv'
    BY DEF RelaunchInv

(* A hook or an authentication of an earlier launch never reaches the menus. *)
LEMMA RelaunchStep ==
    TypeOK /\ RelaunchInv /\ [LaunchNext]_allVars => RelaunchInv'
<1> SUFFICES ASSUME TypeOK, RelaunchInv, [LaunchNext]_allVars PROVE RelaunchInv'
    OBVIOUS
<1>1. CASE UNCHANGED allVars \/ Launch \/ StartStep \/ TickStep
    BY <1>1, RelaunchKept DEF allVars, vars, Launch, StartStep, init_config,
          load_kernel_modules, is_module_started, TickStep, power_tick_thread,
          tick_thread_ends
<1>2. CASE CloseApp
    BY <1>2, RelaunchKept DEF CloseApp, ProcessEnds, Menus, Work
<1>3. CASE Reboot
    BY <1>3 DEF Reboot, ProcessEnds, RelaunchInv, Menus, Work
<1>4. CASE AuthThreadStep
  <2>1. CASE k_run_authentication /\ wiped' = (wiped /\ sd' # "auth")
    <3>1. CASE slot \in Carts /\ hook
      <4>1. app \notin {"disable"} \cup Menus \cup Work
        BY <2>1, <3>1 DEF k_run_authentication, RelaunchInv
      <4> QED BY <2>1, <3>1, <4>1 DEF k_run_authentication, RelaunchInv
    <3>2. CASE ~(slot \in Carts /\ hook)
      BY <2>1, <3>2 DEF k_run_authentication, RelaunchInv
    <3> QED BY <3>1, <3>2
  <2>2. CASE AuthOk /\ ~wiped /\ UNCHANGED wiped
    BY <2>2 DEF AuthOk, RelaunchInv, TypeOK
  <2>3. CASE WipedAuthOk
    BY <2>3 DEF WipedAuthOk, RelaunchInv
  <2>4. CASE (AuthUnhook \/ AuthFail) /\ UNCHANGED wiped
    BY <2>4 DEF AuthUnhook, AuthFail, RelaunchInv
  <2> QED BY <1>4, <2>1, <2>2, <2>3, <2>4 DEF AuthThreadStep
<1>5. CASE SlotStep
    BY <1>5, RelaunchKept DEF SlotStep, RemoveCard, InsertCard
<1>6. CASE Enable
    BY <1>6 DEF Enable, kEnableGcEmuMgr, RelaunchInv, Menus, Work
<1>7. CASE NetworkStep \/ LockedStep
    BY <1>7, RelaunchKept DEF NetworkStep, handle_menu_set_network_options, LockedStep,
          do_device_dump, dump_device, do_device_restore, do_device_wipe_and_format,
          MenuStep, Menus, Work
<1>8. CASE PlainStep
  <2>1. CASE wait_for_sd \/ kResetGc \/ reset_handled
    BY <1>8, <2>1, RelaunchKept DEF PlainStep, wait_for_sd, kResetGc, reset_handled,
          Menus, Work
  <2>2. CASE kIsAuthenticated
    BY <1>8, <2>2 DEF PlainStep, kIsAuthenticated, RelaunchInv
  <2>3. CASE kDisableGcEmuMgr
    BY <1>8, <2>3 DEF PlainStep, kDisableGcEmuMgr, RelaunchInv, Menus, Work
  <2>4. CASE rename_file \/ key_dump \/ open_ime
    BY <1>8, <2>4, RelaunchKept DEF PlainStep, rename_file, key_dump, open_ime, MenuStep,
          Menus, Work
  <2>5. CASE handle_menu_select_option
    BY <1>8, <2>5, RelaunchKept DEF PlainStep, handle_menu_select_option, select_option,
          MenuStep, Menus
  <2>6. CASE \/ handle_menu_select_backup_format \/ handle_menu_set_output
             \/ handle_select_input_device \/ handle_select_file
             \/ handle_format_confirm_and_format
    BY <1>8, <2>6, RelaunchKept DEF PlainStep, handle_menu_select_backup_format,
          handle_menu_set_output, handle_select_input_device, handle_select_file,
          handle_format_confirm_and_format, MenuStep, Menus
  <2>7. CASE CancelStep
    BY <1>8, <2>7, RelaunchKept DEF PlainStep, CancelStep, OP_CANCELED, WAIT_FOR_CONFIRM,
          MenuStep, Menus
  <2> QED BY <1>8, <2>1, <2>2, <2>3, <2>4, <2>5, <2>6, <2>7 DEF PlainStep
<1> QED BY <1>1, <1>2, <1>3, <1>4, <1>5, <1>6, <1>7, <1>8 DEF LaunchNext, SessionStep

(* The locks stay right in a step that leaves them and the dump alone. *)
LEMMA LockKept ==
    ASSUME LockInv, UNCHANGED lockVars,
           app' = app \/ (app # "dumping" /\ app' # "dumping")
    PROVE  LockInv'
    BY DEF LockInv

(* Whichever threads earlier backups left, a dump that made a thread is kept
   awake by a thread to come or by one that is looping. *)
LEMMA LockStep == LockInv /\ [LaunchNext]_allVars => LockInv'
<1> SUFFICES ASSUME LockInv, [LaunchNext]_allVars PROVE LockInv'
    OBVIOUS
<1>1. CASE UNCHANGED allVars \/ Launch \/ StartStep
    BY <1>1, LockKept DEF allVars, vars, Launch, StartStep, init_config,
          load_kernel_modules, is_module_started
<1>2. CASE CloseApp \/ Reboot
  <2>1. fresh' \in Nat /\ loops' \in Nat /\ app' # "dumping"
    BY <1>2 DEF CloseApp, Reboot, ProcessEnds
  <2>2. locked' = FALSE
    BY <1>2 DEF CloseApp, Reboot, ProcessEnds
  <2> QED BY <2>1, <2>2, Zenon DEF LockInv
<1>3. CASE TickStep
    BY <1>3 DEF TickStep, power_tick_thread, tick_thread_ends, vars, LockInv
<1>4. CASE AuthThreadStep \/ SlotStep
    BY <1>4, LockKept DEF AuthThreadStep, k_run_authentication, AuthOk, WipedAuthOk,
          AuthUnhook, AuthFail, SlotStep, RemoveCard, InsertCard
<1>5. CASE Enable \/ NetworkStep
    BY <1>5, LockKept DEF Enable, kEnableGcEmuMgr, NetworkStep,
          handle_menu_set_network_options, MenuStep, AfterNaming
<1>6. CASE LockedStep
  <2>1. CASE do_device_dump /\ Lock
    <3>1. locked' = TRUE /\ app' = "dumping" /\ loops' \in Nat
      BY <2>1 DEF do_device_dump, Lock, MenuStep, LockInv
    <3>2. fresh' \in Nat /\ (ticking' => fresh' > 0)
      BY <2>1 DEF Lock, LockInv
    <3> QED BY <3>1, <3>2, Zenon DEF LockInv
  <2>2. CASE dump_device /\ Unlock
    BY <2>2 DEF dump_device, Unlock, unlock_power, MenuStep, LockInv
  <2>3. CASE (do_device_restore \/ do_device_wipe_and_format) /\ LockAndUnlock
    <3>1. app # "dumping" /\ app' # "dumping"
      BY <2>3 DEF do_device_restore, do_device_wipe_and_format, MenuStep
    <3>2. fresh' \in Nat /\ loops' \in Nat /\ locked' = locked
      BY <2>3 DEF LockAndUnlock, LockInv
    <3> QED BY <3>1, <3>2, Zenon DEF LockInv
  <2> QED BY <1>6, <2>1, <2>2, <2>3 DEF LockedStep
<1>7. CASE PlainStep
  <2>1. CASE \/ wait_for_sd \/ kResetGc \/ reset_handled \/ kIsAuthenticated
             \/ kDisableGcEmuMgr
    BY <1>7, <2>1, LockKept DEF PlainStep, wait_for_sd, kResetGc, reset_handled,
          kIsAuthenticated, kDisableGcEmuMgr
  <2>2. CASE rename_file \/ key_dump \/ open_ime
    BY <1>7, <2>2, LockKept DEF PlainStep, rename_file, AfterNaming, key_dump, open_ime,
          MenuStep
  <2>3. CASE handle_menu_select_option
    BY <1>7, <2>3, LockKept DEF PlainStep, handle_menu_select_option, select_option, MenuStep
  <2>4. CASE \/ handle_menu_select_backup_format \/ handle_menu_set_output
             \/ handle_select_input_device \/ handle_select_file
             \/ handle_format_confirm_and_format
    BY <1>7, <2>4, LockKept DEF PlainStep, handle_menu_select_backup_format,
          handle_menu_set_output, handle_select_input_device, handle_select_file,
          handle_format_confirm_and_format, MenuStep
  <2>5. CASE CancelStep
    BY <1>7, <2>5, LockKept DEF PlainStep, CancelStep, OP_CANCELED, WAIT_FOR_CONFIRM,
          MenuStep, Back
  <2> QED BY <1>7, <2>1, <2>2, <2>3, <2>4, <2>5 DEF PlainStep
<1> QED BY <1>1, <1>2, <1>3, <1>4, <1>5, <1>6, <1>7 DEF LaunchNext, SessionStep

(* Across launches and reboots the session's types, the settings, the hook and
   the locks are as LaunchInv says (config.c, auth_emu.c, lock.c). *)
THEOREM LaunchInvariant == LaunchSpec => []LaunchInv
<1>1. LaunchInit => LaunchInv
  <2> SUFFICES ASSUME LaunchInit PROVE LaunchInv
    OBVIOUS
  <2>1. TypeOK
    BY SessionInit DEF LaunchInit, SessionInv
  <2>2. ConfigInv /\ RelaunchInv /\ LockInv
    BY DEF LaunchInit, Init, ConfigInv, RelaunchInv, LockInv, Menus, Work
  <2> QED BY <2>1, <2>2 DEF LaunchInv
<1>2. LaunchInv /\ [LaunchNext]_allVars => LaunchInv'
    BY LaunchType, ConfigStep, RelaunchStep, LockStep DEF LaunchInv
<1> QED BY <1>1, <1>2, PTL DEF LaunchSpec

(* Past the prompt of any launch the card is authenticated, no authentication is
   under way, and the keys are some card's unless they were cleared under the
   authentication that a hook of the launch before let start (auth_emu.c). *)
THEOREM KeysReadyAcrossLaunches == LaunchSpec => []KeysReadyAgain
<1>1. LaunchInv => KeysReadyAgain
    BY DEF LaunchInv, TypeOK, RelaunchInv, KeysReadyAgain, Prompt, Menus, Work
<1> QED BY <1>1, LaunchInvariant, PTL

(* Once lock_power's thread has run, and until the backup is over, a thread is
   looping and the flag it loops on is set (lock.c). *)
THEOREM DumpKeepsAwake == LaunchSpec => []AwakeWhileDumping
<1>1. LaunchInv => AwakeWhileDumping
    BY DEF LaunchInv, LockInv, AwakeWhileDumping
<1> QED BY <1>1, LaunchInvariant, PTL
=============================================================================
