-------------------------- MODULE GcSessionProofs --------------------------
(***************************************************************************)
(* Proofs about GcSession: for any number of cards, any titles and any     *)
(* number of swaps and menu choices.                                       *)
(***************************************************************************)
EXTENDS GcSession, TLAPS

USE SlotAssumption, TitleAssumption, DeviceAssumption, BoundAssumption
USE DEF kernVars, menuVars, workVars, userVars, MenuStep, Confirm

(* A file name made from the title on the card is a file name. *)
LEMMA NewName ==
    ASSUME path \in Path, NEW n \in Nat, NEW e \in Formats \cup {"keys"},
           get_output_filename(read_gameinfo, n, e)
    PROVE  path' \in Path /\ path'.ext = e
<1>1. read_gameinfo \in Titles \cup {UNKNOWN, "typed"}
    BY DEF read_gameinfo
<1> QED BY <1>1 DEF get_output_filename, Path

(* A file written in full or in part is a backup like the others. *)
LEMMA ReplaceType ==
    ASSUME files \subseteq Name, NEW p \in Path, NEW c \in Carts \cup {NoCart},
           NEW k \in Carts \cup {NoCart}, NEW l \in BOOLEAN, NEW t \in BOOLEAN,
           Replace(p, c, k, l, t)
    PROVE  files' \subseteq Name
<1>1. [path |-> p, card |-> c, keys |-> k, loyal |-> l, torn |-> t] \in Name
    BY DEF Name
<1> QED BY <1>1 DEF Replace

(* Choosing an entry of the option menu keeps the types. *)
LEMMA OptionType ==
    ASSUME TypeOK, NEW w \in draw_gc_options, select_option(w)
    PROVE  TypeOK'
<1>a. w \in Options
    BY DEF Options, draw_gc_options
<1>b. /\ UNCHANGED <<slot, kernVars, loyal, dest, picked, swaps, dkeys, dcard, files>>
      /\ acts' = acts + 1 /\ acts < MaxActs /\ app = "options" /\ what' = w
    BY DEF select_option
<1>c. path' \in Path
  <2>1. CASE w \in {"DUMP_KEYS_ONLY", "DUMP_SECTION"}
    <3>1. get_output_filename(read_gameinfo, 0, IF w = "DUMP_KEYS_ONLY" THEN "keys" ELSE "RAW")
      BY <2>1 DEF select_option
    <3> QED BY <3>1, NewName DEF TypeOK, Formats
  <2>2. CASE w \notin {"DUMP_KEYS_ONLY", "DUMP_SECTION"}
    BY <2>2 DEF select_option, TypeOK
  <2> QED BY <2>1, <2>2
<1>e. app' \in {"format", "output", "input", "wipe", "confirm_format", "message"}
    BY DEF select_option
<1>0. FlagsOK'
  <2>1. uma' \in BOOLEAN
    BY Zenon DEF select_option, TypeOK, FlagsOK
  <2> QED BY <2>1, <1>b, Zenon DEF TypeOK, FlagsOK
<1>g. /\ fmt' \in Formats /\ res' \in {"none", "ok", "fail"}
      /\ failed' \subseteq {"image", "keys", "restore", "wipe", "format"}
  <2>1. fmt' = "RAW" \/ fmt' = fmt
    BY DEF select_option
  <2>2. (res' = "ok" /\ failed' = {}) \/ (res' = res /\ failed' = failed)
    BY DEF select_option
  <2> QED BY <2>1, <2>2 DEF TypeOK, Formats
<1> QED BY <1>0, <1>a, <1>b, <1>c, <1>e, <1>g DEF TypeOK, Menus, Work

(* Every step keeps the state of the session within its types, wherever the
   hook and the authentication are. *)
LEMMA SessionType == TypeOK /\ [Next]_vars => TypeOK'
<1> SUFFICES ASSUME TypeOK, [Next]_vars PROVE TypeOK'
    OBVIOUS
<1>1. CASE k_run_authentication
  <2> USE <1>1 DEF k_run_authentication
  <2>f. FlagsOK'
    BY <1>1, Zenon DEF TypeOK, FlagsOK
  <2> QED BY <2>f DEF TypeOK, Prompt, Menus, Work, Options, Formats, Path, UNKNOWN
<1>2. CASE AuthOk
  <2> USE <1>2 DEF AuthOk
  <2>f. FlagsOK'
    BY <1>2, Zenon DEF TypeOK, FlagsOK
  <2> QED BY <2>f DEF TypeOK, Prompt, Menus, Work, Options, Formats, Path, UNKNOWN
<1>3. CASE AuthUnhook
  <2> USE <1>3 DEF AuthUnhook
  <2>f. FlagsOK'
    BY <1>3, Zenon DEF TypeOK, FlagsOK
  <2> QED BY <2>f DEF TypeOK, Prompt, Menus, Work, Options, Formats, Path, UNKNOWN
<1>4. CASE AuthFail
  <2> USE <1>4 DEF AuthFail
  <2>f. FlagsOK'
    BY <1>4, Zenon DEF TypeOK, FlagsOK
  <2> QED BY <2>f DEF TypeOK, Prompt, Menus, Work, Options, Formats, Path, UNKNOWN
<1>5. CASE wait_for_sd
  <2> USE <1>5 DEF wait_for_sd
  <2>f. FlagsOK'
    BY <1>5, Zenon DEF TypeOK, FlagsOK
  <2> QED BY <2>f DEF TypeOK, Prompt, Menus, Work, Options, Formats, Path, UNKNOWN
<1>6. CASE kEnableGcEmuMgr
  <2> USE <1>6 DEF kEnableGcEmuMgr
  <2>f. FlagsOK'
    BY <1>6, Zenon DEF TypeOK, FlagsOK
  <2> QED BY <2>f DEF TypeOK, Prompt, Menus, Work, Options, Formats, Path, UNKNOWN
<1>7. CASE kResetGc
  <2> USE <1>7 DEF kResetGc
  <2>f. FlagsOK'
    BY <1>7, Zenon DEF TypeOK, FlagsOK
  <2> QED BY <2>f DEF TypeOK, Prompt, Menus, Work, Options, Formats, Path, UNKNOWN
<1>8. CASE reset_handled
  <2> USE <1>8 DEF reset_handled
  <2>f. FlagsOK'
    BY <1>8, Zenon DEF TypeOK, FlagsOK
  <2> QED BY <2>f DEF TypeOK, Prompt, Menus, Work, Options, Formats, Path, UNKNOWN
<1>9. CASE kIsAuthenticated
  <2> USE <1>9 DEF kIsAuthenticated
  <2>f. FlagsOK'
    BY <1>9, Zenon DEF TypeOK, FlagsOK
  <2> QED BY <2>f DEF TypeOK, Prompt, Menus, Work, Options, Formats, Path, UNKNOWN
<1>10. CASE kDisableGcEmuMgr
  <2> USE <1>10 DEF kDisableGcEmuMgr
  <2>f. FlagsOK'
    BY <1>10, Zenon DEF TypeOK, FlagsOK
  <2> QED BY <2>f DEF TypeOK, Prompt, Menus, Work, Options, Formats, Path, UNKNOWN
<1>11. CASE rename_file
  <2> USE <1>11 DEF rename_file, AfterNaming
  <2>f. FlagsOK'
    BY <1>11, Zenon DEF TypeOK, FlagsOK
  <2>1. CASE Exists(path)
    <3>1. path \in Path /\ path.num + 1 \in Nat /\ path.ext \in Formats \cup {"keys"}
      BY DEF TypeOK, Path
    <3>2. get_output_filename(read_gameinfo, path.num + 1, path.ext)
      BY <2>1
    <3>3. path' \in Path
      BY <3>1, <3>2, NewName
    <3> QED BY <2>f, <2>1, <3>3 DEF TypeOK, Prompt, Menus, Work, Options, Formats
  <2>2. CASE ~Exists(path)
    BY <2>f, <2>2 DEF TypeOK, Prompt, Menus, Work, Options, Formats
  <2> QED BY <2>1, <2>2
<1>12. CASE do_device_dump
  <2> USE <1>12 DEF do_device_dump
  <2>f. FlagsOK'
    BY <1>12, Zenon DEF TypeOK, FlagsOK
  <2> QED BY <2>f DEF TypeOK, Prompt, Menus, Work, Options, Formats, Path, UNKNOWN
<1>13. CASE dump_device
  <2> USE <1>13 DEF dump_device
  <2>f. FlagsOK'
    BY <1>13, Zenon DEF TypeOK, FlagsOK
  <2>1. files' \subseteq Name
    <3>t. files \subseteq Name /\ path \in Path /\ loyal \in BOOLEAN /\ dkeys \in Carts \cup {NoCart}
      BY DEF TypeOK, FlagsOK
    <3>1. CASE dcard \in Carts /\ write_file(path, dcard, IF fmt = "RAW" THEN NoCart ELSE dkeys)
      <4> DEFINE k == IF fmt = "RAW" THEN NoCart ELSE dkeys
      <4>1. k \in Carts \cup {NoCart} /\ dcard \in Carts \cup {NoCart} /\ FALSE \in BOOLEAN
        BY <3>t, <3>1
      <4>2. [path |-> path, card |-> dcard, keys |-> k, loyal |-> loyal, torn |-> FALSE] \in Name
        BY <3>t, <4>1 DEF Name
      <4>3. files' = {f \in files : f.path # path} \cup
                {[path |-> path, card |-> dcard, keys |-> k, loyal |-> loyal, torn |-> FALSE]}
        BY <3>1 DEF write_file, Replace
      <4> HIDE DEF k, dump_device
      <4> QED BY <3>t, <4>2, <4>3
    <3>2. CASE write_torn(path)
      BY <3>t, <3>2, ReplaceType DEF write_torn
    <3>3. UNCHANGED files \/ write_torn(path)
            \/ (dcard \in Carts /\ write_file(path, dcard, IF fmt = "RAW" THEN NoCart ELSE dkeys))
      BY Zenon
    <3>4. CASE UNCHANGED files
      BY <3>t, <3>4
    <3> HIDE DEF dump_device
    <3> QED BY <3>1, <3>2, <3>3, <3>4
  <2>2. app' \in Menus \cup Work /\ res' \in {"ok", "fail"}
    BY DEF Menus, Work
  <2>3. failed' \subseteq {"image", "keys", "restore", "wipe", "format"}
    BY DEF TypeOK
  <2>4. UNCHANGED <<slot, sd, seen, keys, what, fmt, dest, path, picked, dkeys, acts, swaps>>
    OBVIOUS
  <2>5. dcard' = NoCart
    OBVIOUS
  <2> HIDE DEF dump_device
  <2> QED BY <2>f, <2>1, <2>2, <2>3, <2>4, <2>5 DEF TypeOK
<1>14. CASE key_dump
  <2> USE <1>14 DEF key_dump, change_extension
  <2>f. FlagsOK'
    BY <1>14, Zenon DEF TypeOK, FlagsOK
  <2>1. change_extension(path) \in Path
    BY DEF TypeOK, Path
  <2>2. path' \in Path
    BY <2>1 DEF TypeOK
  <2>3. files' \subseteq Name
    <3>t. files \subseteq Name /\ loyal \in BOOLEAN /\ keys \in Carts \cup {NoCart}
      BY DEF TypeOK, FlagsOK
    <3>1. CASE write_file(path', NoCart, keys)
      <4>1. NoCart \in Carts \cup {NoCart} /\ FALSE \in BOOLEAN
        OBVIOUS
      <4>2. [path |-> path', card |-> NoCart, keys |-> keys, loyal |-> loyal, torn |-> FALSE] \in Name
        BY <2>2, <3>t, <4>1 DEF Name
      <4> HIDE DEF key_dump
      <4> QED BY <3>1, <3>t, <4>2 DEF write_file, Replace
    <3>2. CASE write_torn(path')
      BY <2>2, <3>t, <3>2, ReplaceType DEF write_torn
    <3>3. UNCHANGED files \/ write_torn(path') \/ write_file(path', NoCart, keys)
      BY Zenon
    <3>4. CASE UNCHANGED files
      BY <3>t, <3>4
    <3> HIDE DEF key_dump
    <3> QED BY <3>1, <3>2, <3>3, <3>4
  <2>4. app' \in Menus /\ res' \in {"ok", "fail"}
    BY DEF Menus
  <2>5. failed' \subseteq {"image", "keys", "restore", "wipe", "format"}
    BY DEF TypeOK
  <2>6. UNCHANGED <<slot, sd, seen, keys, what, fmt, dest, picked, dkeys, dcard, acts, swaps>>
    OBVIOUS
  <2> HIDE DEF key_dump
  <2> QED BY <2>f, <2>2, <2>3, <2>4, <2>5, <2>6 DEF TypeOK
<1>15. CASE do_device_restore
  <2> USE <1>15 DEF do_device_restore
  <2>f. FlagsOK'
    BY <1>15, Zenon DEF TypeOK, FlagsOK
  <2> QED BY <2>f DEF TypeOK, Prompt, Menus, Work, Options, Formats, Path, UNKNOWN
<1>16. CASE do_device_wipe_and_format
  <2> USE <1>16 DEF do_device_wipe_and_format
  <2>f. FlagsOK'
    BY <1>16, Zenon DEF TypeOK, FlagsOK
  <2> QED BY <2>f DEF TypeOK, Prompt, Menus, Work, Options, Formats, Path, UNKNOWN
<1>17. CASE handle_menu_select_option
    BY <1>17, OptionType DEF handle_menu_select_option
<1>18. CASE handle_menu_select_backup_format
  <2> USE <1>18 DEF handle_menu_select_backup_format
  <2>f. FlagsOK'
    BY <1>18, Zenon DEF TypeOK, FlagsOK
  <2>1. path' \in Path
    BY NewName DEF TypeOK, Path, Formats
  <2> QED BY <2>f, <2>1 DEF TypeOK, Prompt, Menus, Work, Options, Formats
<1>19. CASE handle_menu_set_output
  <2> USE <1>19 DEF handle_menu_set_output
  <2>f. FlagsOK'
    BY <1>19, Zenon DEF TypeOK, FlagsOK
  <2> QED BY <2>f DEF TypeOK, Prompt, Menus, Work, Options, Formats, Path, UNKNOWN
<1>20. CASE handle_menu_set_network_options
  <2> USE <1>20 DEF handle_menu_set_network_options, AfterNaming
  <2>f. FlagsOK'
    BY <1>20, Zenon DEF TypeOK, FlagsOK
  <2> QED BY <2>f DEF TypeOK, Prompt, Menus, Work, Options, Formats, Path, UNKNOWN
<1>21. CASE handle_select_input_device
  <2> USE <1>21 DEF handle_select_input_device
  <2>f. FlagsOK'
    BY <1>21, Zenon DEF TypeOK, FlagsOK
  <2> QED BY <2>f DEF TypeOK, Prompt, Menus, Work, Options, Formats, Path, UNKNOWN
<1>22. CASE handle_select_file
  <2> USE <1>22 DEF handle_select_file
  <2>f. FlagsOK'
    BY <1>22, Zenon DEF TypeOK, FlagsOK
  <2> QED BY <2>f DEF TypeOK, Prompt, Menus, Work, Options, Formats, Path, UNKNOWN
<1>23. CASE handle_format_confirm_and_format
  <2> USE <1>23 DEF handle_format_confirm_and_format
  <2>f. FlagsOK'
    BY <1>23, Zenon DEF TypeOK, FlagsOK
  <2> QED BY <2>f DEF TypeOK, Prompt, Menus, Work, Options, Formats, Path, UNKNOWN
<1>24. CASE open_ime
  <2> USE <1>24 DEF open_ime
  <2>f. FlagsOK'
    BY <1>24, Zenon DEF TypeOK, FlagsOK
  <2> QED BY <2>f DEF TypeOK, Prompt, Menus, Work, Options, Formats, Path, UNKNOWN
<1>25. CASE OP_CANCELED
  <2> USE <1>25 DEF OP_CANCELED, Back
  <2>f. FlagsOK'
    BY <1>25, Zenon DEF TypeOK, FlagsOK
  <2> QED BY <2>f DEF TypeOK, Prompt, Menus, Work, Options, Formats, Path, UNKNOWN
<1>26. CASE WAIT_FOR_CONFIRM
  <2> USE <1>26 DEF WAIT_FOR_CONFIRM, Back
  <2>f. FlagsOK'
    BY <1>26, Zenon DEF TypeOK, FlagsOK
  <2> QED BY <2>f DEF TypeOK, Prompt, Menus, Work, Options, Formats, Path, UNKNOWN
<1>27. CASE RemoveCard
  <2> USE <1>27 DEF RemoveCard
  <2>f. FlagsOK'
    BY <1>27, Zenon DEF TypeOK, FlagsOK
  <2> QED BY <2>f DEF TypeOK, Prompt, Menus, Work, Options, Formats, Path, UNKNOWN
<1>28. CASE InsertCard
  <2> USE <1>28 DEF InsertCard
  <2>f. FlagsOK'
    BY <1>28, Zenon DEF TypeOK, FlagsOK
  <2> QED BY <2>f DEF TypeOK, Prompt, Menus, Work, Options, Formats, Path, UNKNOWN
<1>29. CASE UNCHANGED vars
  <2>f. FlagsOK'
    BY <1>29, Zenon DEF vars, TypeOK, FlagsOK
  <2> QED BY <2>f, <1>29 DEF vars, TypeOK
<1> QED BY <1>1, <1>2, <1>3, <1>4, <1>5, <1>6, <1>7, <1>8, <1>9, <1>10, <1>11, <1>12, <1>13, <1>14, <1>15, <1>16, <1>17, <1>18, <1>19, <1>20, <1>21, <1>22, <1>23, <1>24, <1>25, <1>26, <1>27, <1>28, <1>29
       DEF Next, AuthThread, PromptStep, WorkStep, UserStep, CancelStep

(* k_run_authentication preserves the invariant. *)
LEMMA k_run_authentication_inv == SessionInv /\ k_run_authentication => SessionInv'
<1> SUFFICES ASSUME SessionInv, k_run_authentication PROVE SessionInv'
    OBVIOUS
<1>1. TypeOK'
    BY SessionType DEF Next, AuthThread, SessionInv
<1> USE DEF SessionInv, k_run_authentication
<1>2. HookInv'
    BY DEF TypeOK, HookInv, Prompt, Menus, Work
<1>3. DumpInv'
    BY DEF TypeOK, HookInv, DumpInv, Prompt, Menus, Work, Path
<1>4. FilesHoldKeys' /\ MixNeedsSwap'
    BY DEF FilesHoldKeys, MixNeedsSwap, TypeOK, HookInv, DumpInv, Menus, Work, Path
<1> QED BY <1>1, <1>2, <1>3, <1>4

(* AuthOk preserves the invariant. *)
LEMMA AuthOk_inv == SessionInv /\ AuthOk => SessionInv'
<1> SUFFICES ASSUME SessionInv, AuthOk PROVE SessionInv'
    OBVIOUS
<1>1. TypeOK'
    BY SessionType DEF Next, AuthThread, SessionInv
<1> USE DEF SessionInv, AuthOk
<1>2. HookInv'
    BY DEF TypeOK, HookInv, Prompt, Menus, Work
<1>3. DumpInv'
    BY DEF TypeOK, HookInv, DumpInv, Prompt, Menus, Work, Path
<1>4. FilesHoldKeys' /\ MixNeedsSwap'
    BY DEF FilesHoldKeys, MixNeedsSwap, TypeOK, HookInv, DumpInv, Menus, Work, Path
<1> QED BY <1>1, <1>2, <1>3, <1>4

(* AuthUnhook preserves the invariant. *)
LEMMA AuthUnhook_inv == SessionInv /\ AuthUnhook => SessionInv'
<1> SUFFICES ASSUME SessionInv, AuthUnhook PROVE SessionInv'
    OBVIOUS
<1>1. TypeOK'
    BY SessionType DEF Next, AuthThread, SessionInv
<1> USE DEF SessionInv, AuthUnhook
<1>2. HookInv'
    BY DEF TypeOK, HookInv, Prompt, Menus, Work
<1>3. DumpInv'
    BY DEF TypeOK, HookInv, DumpInv, Prompt, Menus, Work, Path
<1>4. FilesHoldKeys' /\ MixNeedsSwap'
    BY DEF FilesHoldKeys, MixNeedsSwap, TypeOK, HookInv, DumpInv, Menus, Work, Path
<1> QED BY <1>1, <1>2, <1>3, <1>4

(* AuthFail preserves the invariant. *)
LEMMA AuthFail_inv == SessionInv /\ AuthFail => SessionInv'
<1> SUFFICES ASSUME SessionInv, AuthFail PROVE SessionInv'
    OBVIOUS
<1>1. TypeOK'
    BY SessionType DEF Next, AuthThread, SessionInv
<1> USE DEF SessionInv, AuthFail
<1>2. HookInv'
    BY DEF TypeOK, HookInv, Prompt, Menus, Work
<1>3. DumpInv'
    BY DEF TypeOK, HookInv, DumpInv, Prompt, Menus, Work, Path
<1>4. FilesHoldKeys' /\ MixNeedsSwap'
    BY DEF FilesHoldKeys, MixNeedsSwap, TypeOK, HookInv, DumpInv, Menus, Work, Path
<1> QED BY <1>1, <1>2, <1>3, <1>4

(* wait_for_sd preserves the invariant. *)
LEMMA wait_for_sd_inv == SessionInv /\ wait_for_sd => SessionInv'
<1> SUFFICES ASSUME SessionInv, wait_for_sd PROVE SessionInv'
    OBVIOUS
<1>1. TypeOK'
    BY SessionType DEF Next, PromptStep, SessionInv
<1> USE DEF SessionInv, wait_for_sd
<1>2. HookInv'
    BY DEF TypeOK, HookInv, Prompt, Menus, Work
<1>3. DumpInv'
    BY DEF TypeOK, HookInv, DumpInv, Prompt, Menus, Work, Path
<1>4. FilesHoldKeys' /\ MixNeedsSwap'
    BY DEF FilesHoldKeys, MixNeedsSwap, TypeOK, HookInv, DumpInv, Menus, Work, Path
<1> QED BY <1>1, <1>2, <1>3, <1>4

(* kEnableGcEmuMgr preserves the invariant. *)
LEMMA kEnableGcEmuMgr_inv == SessionInv /\ kEnableGcEmuMgr => SessionInv'
<1> SUFFICES ASSUME SessionInv, kEnableGcEmuMgr PROVE SessionInv'
    OBVIOUS
<1>1. TypeOK'
    BY SessionType DEF Next, PromptStep, SessionInv
<1> USE DEF SessionInv, kEnableGcEmuMgr
<1>2. HookInv'
    BY DEF TypeOK, HookInv, Prompt, Menus, Work
<1>3. DumpInv'
    BY DEF TypeOK, HookInv, DumpInv, Prompt, Menus, Work, Path
<1>4. FilesHoldKeys' /\ MixNeedsSwap'
    BY DEF FilesHoldKeys, MixNeedsSwap, TypeOK, HookInv, DumpInv, Menus, Work, Path
<1> QED BY <1>1, <1>2, <1>3, <1>4

(* kResetGc preserves the invariant. *)
LEMMA kResetGc_inv == SessionInv /\ kResetGc => SessionInv'
<1> SUFFICES ASSUME SessionInv, kResetGc PROVE SessionInv'
    OBVIOUS
<1>1. TypeOK'
    BY SessionType DEF Next, PromptStep, SessionInv
<1> USE DEF SessionInv, kResetGc
<1>2. HookInv'
    BY DEF TypeOK, HookInv, Prompt, Menus, Work
<1>3. DumpInv'
    BY DEF TypeOK, HookInv, DumpInv, Prompt, Menus, Work, Path
<1>4. FilesHoldKeys' /\ MixNeedsSwap'
    BY DEF FilesHoldKeys, MixNeedsSwap, TypeOK, HookInv, DumpInv, Menus, Work, Path
<1> QED BY <1>1, <1>2, <1>3, <1>4

(* reset_handled preserves the invariant. *)
LEMMA reset_handled_inv == SessionInv /\ reset_handled => SessionInv'
<1> SUFFICES ASSUME SessionInv, reset_handled PROVE SessionInv'
    OBVIOUS
<1>1. TypeOK'
    BY SessionType DEF Next, PromptStep, SessionInv
<1> USE DEF SessionInv, reset_handled
<1>2. HookInv'
    BY DEF TypeOK, HookInv, Prompt, Menus, Work
<1>3. DumpInv'
    BY DEF TypeOK, HookInv, DumpInv, Prompt, Menus, Work, Path
<1>4. FilesHoldKeys' /\ MixNeedsSwap'
    BY DEF FilesHoldKeys, MixNeedsSwap, TypeOK, HookInv, DumpInv, Menus, Work, Path
<1> QED BY <1>1, <1>2, <1>3, <1>4

(* kIsAuthenticated preserves the invariant. *)
LEMMA kIsAuthenticated_inv == SessionInv /\ kIsAuthenticated => SessionInv'
<1> SUFFICES ASSUME SessionInv, kIsAuthenticated PROVE SessionInv'
    OBVIOUS
<1>1. TypeOK'
    BY SessionType DEF Next, PromptStep, SessionInv
<1> USE DEF SessionInv, kIsAuthenticated
<1>2. HookInv'
    BY DEF TypeOK, HookInv, Prompt, Menus, Work
<1>3. DumpInv'
    BY DEF TypeOK, HookInv, DumpInv, Prompt, Menus, Work, Path
<1>4. FilesHoldKeys' /\ MixNeedsSwap'
    BY DEF FilesHoldKeys, MixNeedsSwap, TypeOK, HookInv, DumpInv, Menus, Work, Path
<1> QED BY <1>1, <1>2, <1>3, <1>4

(* kDisableGcEmuMgr preserves the invariant. *)
LEMMA kDisableGcEmuMgr_inv == SessionInv /\ kDisableGcEmuMgr => SessionInv'
<1> SUFFICES ASSUME SessionInv, kDisableGcEmuMgr PROVE SessionInv'
    OBVIOUS
<1>1. TypeOK'
    BY SessionType DEF Next, PromptStep, SessionInv
<1> USE DEF SessionInv, kDisableGcEmuMgr
<1>2. HookInv'
    BY DEF TypeOK, HookInv, Prompt, Menus, Work
<1>3. DumpInv'
    BY DEF TypeOK, HookInv, DumpInv, Prompt, Menus, Work, Path
<1>4. FilesHoldKeys' /\ MixNeedsSwap'
    BY DEF FilesHoldKeys, MixNeedsSwap, TypeOK, HookInv, DumpInv, Menus, Work, Path
<1> QED BY <1>1, <1>2, <1>3, <1>4

(* rename_file preserves the invariant. *)
LEMMA rename_file_inv == SessionInv /\ rename_file => SessionInv'
<1> SUFFICES ASSUME SessionInv, rename_file PROVE SessionInv'
    OBVIOUS
<1>1. TypeOK'
    BY SessionType DEF Next, WorkStep, SessionInv
<1> USE DEF SessionInv, rename_file, AfterNaming
<1>2. HookInv'
    BY DEF TypeOK, HookInv, Prompt, Menus, Work
<1>3. DumpInv'
  <2>1. path'.ext = path.ext
    BY DEF get_output_filename, TypeOK, Path
  <2> QED BY <2>1 DEF HookInv, DumpInv
<1>4. FilesHoldKeys' /\ MixNeedsSwap'
    BY DEF FilesHoldKeys, MixNeedsSwap, TypeOK, HookInv, DumpInv, Menus, Work, Path
<1> QED BY <1>1, <1>2, <1>3, <1>4

(* do_device_dump preserves the invariant. *)
LEMMA do_device_dump_inv == SessionInv /\ do_device_dump => SessionInv'
<1> SUFFICES ASSUME SessionInv, do_device_dump PROVE SessionInv'
    OBVIOUS
<1>1. TypeOK'
    BY SessionType DEF Next, WorkStep, SessionInv
<1> USE DEF SessionInv, do_device_dump
<1>2. HookInv'
    BY DEF TypeOK, HookInv, Prompt, Menus, Work
<1>3. DumpInv'
    BY DEF TypeOK, HookInv, DumpInv, Prompt, Menus, Work, Path
<1>4. FilesHoldKeys' /\ MixNeedsSwap'
    BY DEF FilesHoldKeys, MixNeedsSwap, TypeOK, HookInv, DumpInv, Menus, Work, Path
<1> QED BY <1>1, <1>2, <1>3, <1>4

(* do_device_restore preserves the invariant. *)
LEMMA do_device_restore_inv == SessionInv /\ do_device_restore => SessionInv'
<1> SUFFICES ASSUME SessionInv, do_device_restore PROVE SessionInv'
    OBVIOUS
<1>1. TypeOK'
    BY SessionType DEF Next, WorkStep, SessionInv
<1> USE DEF SessionInv, do_device_restore
<1>2. HookInv'
    BY DEF TypeOK, HookInv, Prompt, Menus, Work
<1>3. DumpInv'
    BY DEF TypeOK, HookInv, DumpInv, Prompt, Menus, Work, Path
<1>4. FilesHoldKeys' /\ MixNeedsSwap'
    BY DEF FilesHoldKeys, MixNeedsSwap, TypeOK, HookInv, DumpInv, Menus, Work, Path
<1> QED BY <1>1, <1>2, <1>3, <1>4

(* do_device_wipe_and_format preserves the invariant. *)
LEMMA do_device_wipe_and_format_inv == SessionInv /\ do_device_wipe_and_format => SessionInv'
<1> SUFFICES ASSUME SessionInv, do_device_wipe_and_format PROVE SessionInv'
    OBVIOUS
<1>1. TypeOK'
    BY SessionType DEF Next, WorkStep, SessionInv
<1> USE DEF SessionInv, do_device_wipe_and_format
<1>2. HookInv'
    BY DEF TypeOK, HookInv, Prompt, Menus, Work
<1>3. DumpInv'
    BY DEF TypeOK, HookInv, DumpInv, Prompt, Menus, Work, Path
<1>4. FilesHoldKeys' /\ MixNeedsSwap'
    BY DEF FilesHoldKeys, MixNeedsSwap, TypeOK, HookInv, DumpInv, Menus, Work, Path
<1> QED BY <1>1, <1>2, <1>3, <1>4

(* handle_menu_select_option preserves the invariant. *)
LEMMA handle_menu_select_option_inv == SessionInv /\ handle_menu_select_option => SessionInv'
<1> SUFFICES ASSUME SessionInv, handle_menu_select_option PROVE SessionInv'
    OBVIOUS
<1>1. TypeOK'
    BY SessionType DEF Next, UserStep, SessionInv
<1> USE DEF SessionInv
<1>w. PICK w \in draw_gc_options : select_option(w)
    BY DEF handle_menu_select_option
<1>b. /\ UNCHANGED <<slot, kernVars, loyal, dest, picked, swaps, dkeys, dcard, files>>
      /\ acts' = acts + 1 /\ acts < MaxActs /\ app = "options" /\ what' = w
    BY <1>w DEF select_option
<1>d. /\ w = "DUMP_KEYS_ONLY" => path'.ext = "keys" /\ fmt' = "RAW"
      /\ w = "DUMP_SECTION" => path'.ext = "RAW" /\ fmt' = "RAW"
  <2> SUFFICES ASSUME w \in {"DUMP_KEYS_ONLY", "DUMP_SECTION"}
               PROVE  /\ path'.ext = (IF w = "DUMP_KEYS_ONLY" THEN "keys" ELSE "RAW")
                      /\ fmt' = "RAW"
    OBVIOUS
  <2>1. get_output_filename(read_gameinfo, 0, IF w = "DUMP_KEYS_ONLY" THEN "keys" ELSE "RAW")
    BY <1>w DEF select_option
  <2>2. fmt' = "RAW"
    BY <1>w DEF select_option
  <2> QED BY <2>1, <2>2, NewName DEF TypeOK, Formats
<1>e. app' \in {"format", "output", "input", "wipe", "confirm_format", "message"}
    BY <1>w DEF select_option
<1>f. /\ app' = "format" => w = "DUMP_WHOLE_GC"
      /\ app' = "output" => w \in {"DUMP_KEYS_ONLY", "DUMP_SECTION"}
    BY <1>w DEF select_option
<1>2. HookInv'
    BY <1>b, <1>e DEF HookInv, Menus, Work
<1>3. DumpInv'
    BY <1>b, <1>d, <1>e, <1>f DEF DumpInv
<1>4. FilesHoldKeys' /\ MixNeedsSwap'
    BY <1>b DEF FilesHoldKeys, MixNeedsSwap
<1> QED BY <1>1, <1>2, <1>3, <1>4

(* handle_menu_select_backup_format preserves the invariant. *)
LEMMA handle_menu_select_backup_format_inv == SessionInv /\ handle_menu_select_backup_format => SessionInv'
<1> SUFFICES ASSUME SessionInv, handle_menu_select_backup_format PROVE SessionInv'
    OBVIOUS
<1>1. TypeOK'
    BY SessionType DEF Next, UserStep, SessionInv
<1> USE DEF SessionInv, handle_menu_select_backup_format
<1>2. HookInv'
    BY DEF TypeOK, HookInv, Prompt, Menus, Work
<1>3. DumpInv'
  <2>1. path'.ext = fmt'
    BY NewName DEF TypeOK, Formats
  <2> QED BY <2>1 DEF HookInv, DumpInv
<1>4. FilesHoldKeys' /\ MixNeedsSwap'
    BY DEF FilesHoldKeys, MixNeedsSwap, TypeOK, HookInv, DumpInv, Menus, Work, Path
<1> QED BY <1>1, <1>2, <1>3, <1>4

(* handle_menu_set_output preserves the invariant. *)
LEMMA handle_menu_set_output_inv == SessionInv /\ handle_menu_set_output => SessionInv'
<1> SUFFICES ASSUME SessionInv, handle_menu_set_output PROVE SessionInv'
    OBVIOUS
<1>1. TypeOK'
    BY SessionType DEF Next, UserStep, SessionInv
<1> USE DEF SessionInv, handle_menu_set_output
<1>2. HookInv'
    BY DEF TypeOK, HookInv, Prompt, Menus, Work
<1>3. DumpInv'
    BY DEF TypeOK, HookInv, DumpInv, Prompt, Menus, Work, Path
<1>4. FilesHoldKeys' /\ MixNeedsSwap'
    BY DEF FilesHoldKeys, MixNeedsSwap, TypeOK, HookInv, DumpInv, Menus, Work, Path
<1> QED BY <1>1, <1>2, <1>3, <1>4

(* handle_menu_set_network_options preserves the invariant. *)
LEMMA handle_menu_set_network_options_inv == SessionInv /\ handle_menu_set_network_options => SessionInv'
<1> SUFFICES ASSUME SessionInv, handle_menu_set_network_options PROVE SessionInv'
    OBVIOUS
<1>1. TypeOK'
    BY SessionType DEF Next, UserStep, SessionInv
<1> USE DEF SessionInv, handle_menu_set_network_options, AfterNaming
<1>2. HookInv'
    BY DEF TypeOK, HookInv, Prompt, Menus, Work
<1>3. DumpInv'
    BY DEF TypeOK, HookInv, DumpInv, Prompt, Menus, Work, Path
<1>4. FilesHoldKeys' /\ MixNeedsSwap'
    BY DEF FilesHoldKeys, MixNeedsSwap, TypeOK, HookInv, DumpInv, Menus, Work, Path
<1> QED BY <1>1, <1>2, <1>3, <1>4

(* handle_select_input_device preserves the invariant. *)
LEMMA handle_select_input_device_inv == SessionInv /\ handle_select_input_device => SessionInv'
<1> SUFFICES ASSUME SessionInv, handle_select_input_device PROVE SessionInv'
    OBVIOUS
<1>1. TypeOK'
    BY SessionType DEF Next, UserStep, SessionInv
<1> USE DEF SessionInv, handle_select_input_device
<1>2. HookInv'
    BY DEF TypeOK, HookInv, Prompt, Menus, Work
<1>3. DumpInv'
    BY DEF TypeOK, HookInv, DumpInv, Prompt, Menus, Work, Path
<1>4. FilesHoldKeys' /\ MixNeedsSwap'
    BY DEF FilesHoldKeys, MixNeedsSwap, TypeOK, HookInv, DumpInv, Menus, Work, Path
<1> QED BY <1>1, <1>2, <1>3, <1>4

(* handle_select_file preserves the invariant. *)
LEMMA handle_select_file_inv == SessionInv /\ handle_select_file => SessionInv'
<1> SUFFICES ASSUME SessionInv, handle_select_file PROVE SessionInv'
    OBVIOUS
<1>1. TypeOK'
    BY SessionType DEF Next, UserStep, SessionInv
<1> USE DEF SessionInv, handle_select_file
<1>2. HookInv'
    BY DEF TypeOK, HookInv, Prompt, Menus, Work
<1>3. DumpInv'
    BY DEF TypeOK, HookInv, DumpInv, Prompt, Menus, Work, Path
<1>4. FilesHoldKeys' /\ MixNeedsSwap'
    BY DEF FilesHoldKeys, MixNeedsSwap, TypeOK, HookInv, DumpInv, Menus, Work, Path
<1> QED BY <1>1, <1>2, <1>3, <1>4

(* handle_format_confirm_and_format preserves the invariant. *)
LEMMA handle_format_confirm_and_format_inv == SessionInv /\ handle_format_confirm_and_format => SessionInv'
<1> SUFFICES ASSUME SessionInv, handle_format_confirm_and_format PROVE SessionInv'
    OBVIOUS
<1>1. TypeOK'
    BY SessionType DEF Next, UserStep, SessionInv
<1> USE DEF SessionInv, handle_format_confirm_and_format
<1>2. HookInv'
    BY DEF TypeOK, HookInv, Prompt, Menus, Work
<1>3. DumpInv'
    BY DEF TypeOK, HookInv, DumpInv, Prompt, Menus, Work, Path
<1>4. FilesHoldKeys' /\ MixNeedsSwap'
    BY DEF FilesHoldKeys, MixNeedsSwap, TypeOK, HookInv, DumpInv, Menus, Work, Path
<1> QED BY <1>1, <1>2, <1>3, <1>4

(* open_ime preserves the invariant. *)
LEMMA open_ime_inv == SessionInv /\ open_ime => SessionInv'
<1> SUFFICES ASSUME SessionInv, open_ime PROVE SessionInv'
    OBVIOUS
<1>1. TypeOK'
    BY SessionType DEF Next, UserStep, SessionInv
<1> USE DEF SessionInv, open_ime
<1>2. HookInv'
    BY DEF TypeOK, HookInv, Prompt, Menus, Work
<1>3. DumpInv'
    BY DEF TypeOK, HookInv, DumpInv, Prompt, Menus, Work, Path
<1>4. FilesHoldKeys' /\ MixNeedsSwap'
    BY DEF FilesHoldKeys, MixNeedsSwap, TypeOK, HookInv, DumpInv, Menus, Work, Path
<1> QED BY <1>1, <1>2, <1>3, <1>4

(* OP_CANCELED preserves the invariant. *)
LEMMA OP_CANCELED_inv == SessionInv /\ OP_CANCELED => SessionInv'
<1> SUFFICES ASSUME SessionInv, OP_CANCELED PROVE SessionInv'
    OBVIOUS
<1>1. TypeOK'
    BY SessionType DEF Next, CancelStep, SessionInv
<1> USE DEF SessionInv, OP_CANCELED, Back
<1>2. HookInv'
    BY DEF TypeOK, HookInv, Prompt, Menus, Work
<1>3. DumpInv'
    BY DEF TypeOK, HookInv, DumpInv, Prompt, Menus, Work, Path
<1>4. FilesHoldKeys' /\ MixNeedsSwap'
    BY DEF FilesHoldKeys, MixNeedsSwap, TypeOK, HookInv, DumpInv, Menus, Work, Path
<1> QED BY <1>1, <1>2, <1>3, <1>4

(* WAIT_FOR_CONFIRM preserves the invariant. *)
LEMMA WAIT_FOR_CONFIRM_inv == SessionInv /\ WAIT_FOR_CONFIRM => SessionInv'
<1> SUFFICES ASSUME SessionInv, WAIT_FOR_CONFIRM PROVE SessionInv'
    OBVIOUS
<1>1. TypeOK'
    BY SessionType DEF Next, CancelStep, SessionInv
<1> USE DEF SessionInv, WAIT_FOR_CONFIRM, Back
<1>2. HookInv'
    BY DEF TypeOK, HookInv, Prompt, Menus, Work
<1>3. DumpInv'
    BY DEF TypeOK, HookInv, DumpInv, Prompt, Menus, Work, Path
<1>4. FilesHoldKeys' /\ MixNeedsSwap'
    BY DEF FilesHoldKeys, MixNeedsSwap, TypeOK, HookInv, DumpInv, Menus, Work, Path
<1> QED BY <1>1, <1>2, <1>3, <1>4

(* RemoveCard preserves the invariant. *)
LEMMA RemoveCard_inv == SessionInv /\ RemoveCard => SessionInv'
<1> SUFFICES ASSUME SessionInv, RemoveCard PROVE SessionInv'
    OBVIOUS
<1>1. TypeOK'
    BY SessionType DEF Next, SessionInv
<1> USE DEF SessionInv, RemoveCard
<1>2. HookInv'
    BY DEF TypeOK, HookInv, Prompt, Menus, Work
<1>3. DumpInv'
    BY DEF TypeOK, HookInv, DumpInv, Prompt, Menus, Work, Path
<1>4. FilesHoldKeys' /\ MixNeedsSwap'
    BY DEF FilesHoldKeys, MixNeedsSwap, TypeOK, HookInv, DumpInv, Menus, Work, Path
<1> QED BY <1>1, <1>2, <1>3, <1>4

(* InsertCard preserves the invariant. *)
LEMMA InsertCard_inv == SessionInv /\ InsertCard => SessionInv'
<1> SUFFICES ASSUME SessionInv, InsertCard PROVE SessionInv'
    OBVIOUS
<1>1. TypeOK'
    BY SessionType DEF Next, SessionInv
<1> USE DEF SessionInv, InsertCard
<1>2. HookInv'
    BY DEF TypeOK, HookInv, Prompt, Menus, Work
<1>3. DumpInv'
    BY DEF TypeOK, HookInv, DumpInv, Prompt, Menus, Work, Path
<1>4. FilesHoldKeys' /\ MixNeedsSwap'
    BY DEF FilesHoldKeys, MixNeedsSwap, TypeOK, HookInv, DumpInv, Menus, Work, Path
<1> QED BY <1>1, <1>2, <1>3, <1>4

(* dump_device preserves the invariant. *)
LEMMA dump_device_inv == SessionInv /\ dump_device => SessionInv'
<1> SUFFICES ASSUME SessionInv, dump_device PROVE SessionInv'
    OBVIOUS
<1>1. TypeOK'
    BY SessionType DEF Next, WorkStep, SessionInv
<1> USE DEF SessionInv, dump_device, write_file, write_torn, Replace
<1>2. HookInv'
    BY DEF TypeOK, HookInv, Prompt, Menus, Work
<1>3. DumpInv'
    BY DEF TypeOK, HookInv, DumpInv, Prompt, Menus, Work, Path
<1>4. FilesHoldKeys' /\ MixNeedsSwap'
    BY DEF FilesHoldKeys, MixNeedsSwap, TypeOK, HookInv, DumpInv, Menus, Work, Path
<1> QED BY <1>1, <1>2, <1>3, <1>4

(* key_dump preserves the invariant. *)
LEMMA key_dump_inv == SessionInv /\ key_dump => SessionInv'
<1> SUFFICES ASSUME SessionInv, key_dump PROVE SessionInv'
    OBVIOUS
<1>1. TypeOK'
    BY SessionType DEF Next, WorkStep, SessionInv
<1> USE DEF SessionInv, key_dump, change_extension, write_file, write_torn, Replace
<1>2. HookInv'
    BY DEF TypeOK, HookInv, Prompt, Menus, Work
<1>3. DumpInv'
    BY DEF TypeOK, HookInv, DumpInv, Prompt, Menus, Work, Path
<1>4. FilesHoldKeys' /\ MixNeedsSwap'
    BY DEF FilesHoldKeys, MixNeedsSwap, TypeOK, HookInv, DumpInv, Menus, Work, Path
<1> QED BY <1>1, <1>2, <1>3, <1>4

(* A session that starts satisfies the invariant. *)
LEMMA SessionInit == Init => SessionInv
<1> SUFFICES ASSUME Init PROVE SessionInv
    OBVIOUS
<1>0. FlagsOK
  BY Zenon DEF Init, FlagsOK
<1>1. TypeOK
  BY <1>0 DEF Init, TypeOK, Prompt, Options, Formats, Path
<1>2. HookInv /\ DumpInv /\ FilesHoldKeys /\ MixNeedsSwap
  BY DEF Init, HookInv, DumpInv, FilesHoldKeys, MixNeedsSwap, Menus, Work
<1> QED BY <1>1, <1>2 DEF SessionInv

(* The invariant of the session holds in every reachable state. *)
THEOREM SessionInvariant == Spec => []SessionInv
<1>1. Init => SessionInv
    BY SessionInit
<1>2. SessionInv /\ [Next]_vars => SessionInv'
  <2> SUFFICES ASSUME SessionInv, [Next]_vars PROVE SessionInv'
    OBVIOUS
  <2>1. CASE UNCHANGED vars
    BY <2>1, SessionType DEF vars, SessionInv, HookInv, DumpInv, FilesHoldKeys, MixNeedsSwap
  <2>2. CASE AuthThread
    BY <2>2, k_run_authentication_inv, AuthOk_inv, AuthUnhook_inv, AuthFail_inv DEF AuthThread
  <2>3. CASE PromptStep
    BY <2>3, wait_for_sd_inv, kEnableGcEmuMgr_inv, kResetGc_inv, reset_handled_inv,
       kIsAuthenticated_inv, kDisableGcEmuMgr_inv DEF PromptStep
  <2>4. CASE WorkStep
    BY <2>4, rename_file_inv, do_device_dump_inv, dump_device_inv, key_dump_inv,
       do_device_restore_inv, do_device_wipe_and_format_inv DEF WorkStep
  <2>5. CASE UserStep
    BY <2>5, handle_menu_select_option_inv, handle_menu_select_backup_format_inv,
       handle_menu_set_output_inv, handle_menu_set_network_options_inv,
       handle_select_input_device_inv, handle_select_file_inv,
       handle_format_confirm_and_format_inv, open_ime_inv DEF UserStep
  <2>6. CASE CancelStep
    BY <2>6, OP_CANCELED_inv, WAIT_FOR_CONFIRM_inv DEF CancelStep
  <2> QED BY <2>1, <2>2, <2>3, <2>4, <2>5, <2>6, RemoveCard_inv, InsertCard_inv DEF Next
<1> QED BY <1>1, <1>2, PTL DEF Spec

(* Past the prompt the kernel holds a complete key pair and no authentication
   can disturb it: for every interleaving of the two threads and every order in
   which cards come and go. *)
THEOREM KeysAreReady == Spec => []KeysReady
<1>1. SessionInv => KeysReady
    BY DEF SessionInv, TypeOK, HookInv, KeysReady, Prompt, Menus, Work
<1> QED BY <1>1, SessionInvariant, PTL

(* Every backup that should carry keys, unless a failed write tore it, carries a
   complete pair of one card: a failed key dump is never left looking whole. *)
THEOREM BackupsHoldKeys == Spec => []FilesHoldKeys
<1>1. SessionInv => FilesHoldKeys
    BY DEF SessionInv
<1> QED BY <1>1, SessionInvariant, PTL

(* Without a swap, image and keys are of one card. *)
THEOREM OneCardWithoutSwap == Spec => []MixNeedsSwap
<1>1. SessionInv => MixNeedsSwap
    BY DEF SessionInv
<1> QED BY <1>1, SessionInvariant, PTL
(* A step that leaves a success message alone, or shows none, keeps what it
   promises. *)
LEMMA MessageKept ==
    ASSUME SuccessMeansKeys,
           app' # "message" \/ UNCHANGED <<app, what, res, path, files>>
    PROVE  SuccessMeansKeys'
BY DEF SuccessMeansKeys

(* A file just written is there. *)
LEMMA Written ==
    ASSUME NEW p, NEW c, NEW k, write_file(p, c, k)
    PROVE  \E f \in files' : f.path = p /\ ~f.torn /\ f.keys = k
<1> DEFINE new == [path |-> p, card |-> c, keys |-> k, loyal |-> loyal, torn |-> FALSE]
<1>1. new \in files' /\ new.path = p /\ ~new.torn /\ new.keys = k
    BY DEF write_file, Replace
<1> QED BY <1>1

(* The message that a backup succeeded comes with the keys in a file that is
   whole, although earlier failures may have left torn ones of any name. *)
THEOREM SuccessHasKeys == Spec => []SuccessMeansKeys
<1> DEFINE SavedInv == SuccessMeansKeys /\ ChoiceInv
<1>1. Init => SavedInv
    BY DEF Init, SuccessMeansKeys, ChoiceInv
<1>2. SessionInv /\ SavedInv /\ [Next]_vars => SavedInv'
  <2> SUFFICES ASSUME SessionInv, SavedInv, [Next]_vars PROVE SavedInv'
    OBVIOUS
  <2>1. CASE UNCHANGED vars
    BY <2>1 DEF vars, SuccessMeansKeys, ChoiceInv
  <2>2. CASE AuthThread
    BY <2>2, MessageKept DEF AuthThread, k_run_authentication, AuthOk, AuthUnhook, AuthFail,
                ChoiceInv
  <2>3. CASE PromptStep
    BY <2>3, MessageKept DEF PromptStep, wait_for_sd, kEnableGcEmuMgr, kResetGc,
                reset_handled, kIsAuthenticated, kDisableGcEmuMgr, ChoiceInv
  <2>4. CASE WorkStep
    <3>1. CASE rename_file \/ do_device_dump
      BY <3>1, MessageKept DEF rename_file, do_device_dump, AfterNaming, ChoiceInv
    <3>2. CASE dump_device
      <4>1. ChoiceInv'
        BY <3>2 DEF dump_device, ChoiceInv
      <4>2. app' = "message" /\ res' = "ok" /\ what' = "DUMP_WHOLE_GC"
              => dkeys \in Carts /\ write_file(path, dcard, dkeys)
        BY <3>2 DEF dump_device, SessionInv, DumpInv
      <4>3. what' # "DUMP_KEYS_ONLY" /\ path' = path
        BY <3>2 DEF dump_device, SessionInv, DumpInv
      <4> QED BY <4>1, <4>2, <4>3, Written DEF SuccessMeansKeys
    <3>3. CASE key_dump
      <4>1. ChoiceInv'
        BY <3>3 DEF key_dump, ChoiceInv
      <4>2. keys \in Carts
        BY <3>3 DEF key_dump, SessionInv, HookInv, Work
      <4>3. res' = "ok" => write_file(path', NoCart, keys)
        BY <3>3 DEF key_dump
      <4> QED BY <4>1, <4>2, <4>3, Written DEF SuccessMeansKeys
    <3>4. CASE do_device_restore \/ do_device_wipe_and_format
      BY <3>4 DEF do_device_restore, do_device_wipe_and_format, ChoiceInv, SuccessMeansKeys
    <3> QED BY <2>4, <3>1, <3>2, <3>3, <3>4 DEF WorkStep
  <2>5. CASE UserStep
    <3>1. CASE handle_menu_select_option
      BY <3>1 DEF handle_menu_select_option, select_option, ChoiceInv, SuccessMeansKeys
    <3>2. CASE handle_menu_select_backup_format \/ handle_menu_set_output
      BY <3>2, MessageKept DEF handle_menu_select_backup_format, handle_menu_set_output,
                ChoiceInv
    <3>3. CASE handle_menu_set_network_options \/ open_ime
      BY <3>3, MessageKept DEF handle_menu_set_network_options, open_ime, AfterNaming,
                ChoiceInv
    <3>4. CASE handle_select_input_device \/ handle_select_file
      BY <3>4, MessageKept DEF handle_select_input_device, handle_select_file, ChoiceInv
    <3>5. CASE handle_format_confirm_and_format
      BY <3>5, MessageKept DEF handle_format_confirm_and_format, ChoiceInv
    <3> QED BY <2>5, <3>1, <3>2, <3>3, <3>4, <3>5 DEF UserStep
  <2>6. CASE CancelStep
    BY <2>6, MessageKept DEF CancelStep, OP_CANCELED, WAIT_FOR_CONFIRM, Back, ChoiceInv
  <2>7. CASE RemoveCard \/ InsertCard
    BY <2>7, MessageKept DEF RemoveCard, InsertCard, ChoiceInv
  <2> QED BY <2>1, <2>2, <2>3, <2>4, <2>5, <2>6, <2>7 DEF Next
<1> QED BY <1>1, <1>2, SessionInvariant, PTL DEF Spec
=============================================================================
