----------------------------- MODULE GcSession -----------------------------
(***************************************************************************)
(* A session with the application: app/main.c and the dialogs of           *)
(* app/menu.c, the wait for an authenticated card (app/auth.c), and in the *)
(* kernel the hook that swaps the console's own card authentication for    *)
(* k_run_authentication (kern/auth_emu.c), which SceSdstor's thread runs   *)
(* when a card is inserted or kResetGc (kern/gc.c) power-cycles it.  Cards *)
(* come and go at any time.                                                *)
(*                                                                         *)
(* An authentication is the Start, Succeed and Fail of CardAuth, which     *)
(* Cmd56 implements; a dump, restore or wipe is the result BackupDevice    *)
(* gives it.  A key pair, an image and a title stand for their card.       *)
(***************************************************************************)
EXTENDS Naturals, FiniteSets

CONSTANTS
    Carts, NoCart,
    SdCard,        \* an SD2Vita adapter in the slot
    Titles, Title, \* the title in each card's param.sfo
    Stem,          \* what is left of a title up to its first dot
    Sections,      \* the writable sections the cards have: grw0, mediaid
    Dests,         \* where backups can go: ux0, uma0, net
    Blacklisted,   \* check_loaded_blacklisted_module() != NULL
    MaxActs,       \* bound: menu entries the user confirms
    MaxSwaps       \* bound: cards pulled out

ASSUME SlotAssumption == NoCart \notin Carts /\ SdCard \notin Carts /\ SdCard # NoCart
ASSUME TitleAssumption == Title \in [Carts -> Titles] /\ Stem \in [Titles -> Titles]
ASSUME DeviceAssumption ==
    Sections \subseteq {"grw0", "mediaid"} /\ Dests \subseteq {"ux0", "uma0", "net"}
ASSUME BoundAssumption == MaxActs \in Nat /\ MaxSwaps \in Nat /\ Blacklisted \in BOOLEAN

VARIABLES
    slot,    \* what sits in the game card slot
    ev,      \* an insert event waits for SceSdstor's thread
    sd,      \* that thread: idle, in vita_cmd56_run, or done but not unhooked
    seen,    \* the cards in the slot since that run began
    hook,    \* authHook >= 0
    auth,    \* is_authenticated
    keys,    \* per_cart_keys
    undone,  \* undone_sd2vita_patch
    app,     \* where the application's thread is
    what, fmt, dest,  \* the entries chosen: option, BackupFormat, device
    path,    \* output_folder: title, number and extension
    picked,  \* the file name buffer of handle_select_file
    dkeys,   \* do_device_dump's copy of the keys
    dcard,   \* the card behind the open block device
    uma,     \* uma0: is mounted
    res,     \* the res that handle_* tests at its end
    failed,  \* history: the parts of the operation that did not happen
    loyal,   \* history: the authenticated card has not left the slot
    files,   \* the backups made, torn where a write failed halfway
    acts, swaps

kernVars == <<ev, sd, seen, hook, auth, keys, undone>>
menuVars == <<what, fmt, dest, path, picked>>
workVars == <<dkeys, dcard, uma, res, failed, files>>
userVars == <<acts, swaps>>
vars == <<slot, kernVars, app, menuVars, workVars, loyal, userVars>>

Options == {"DUMP_WHOLE_GC", "DUMP_KEYS_ONLY", "DUMP_SECTION", "WRITE_SECTION",
            "RESET_MEDIAID", "RESET_GRW0", "GET_GC_INFO"}
Formats == {"VCI", "PSV", "RAW"}
UNKNOWN == "UNKNOWN"
Path == [dev : Dests \cup {"ux0"}, title : Titles \cup {UNKNOWN, "typed"}, num : Nat, ext : Formats \cup {"keys"}]
Prompt == {"prompt", "undo", "enable", "check", "reset", "wait", "disable"}
Menus == {"options", "format", "output", "netopts", "confirm_format", "input",
          "file", "message"}
Work == {"ime", "rename", "dump", "dumping", "keydump", "restore", "wipe", "quick"}

-----------------------------------------------------------------------------
(* SceSdstor's thread and the hook: kern/auth_emu.c *)

(* kEnableGcEmuMgr: the secrets go, and the hook is installed, or not. *)
kEnableGcEmuMgr ==
    /\ app = "enable" /\ app' = "check"
    /\ auth' = FALSE /\ keys' = NoCart /\ loyal' = FALSE
    /\ hook' = TRUE \/ UNCHANGED hook
    /\ UNCHANGED <<slot, ev, sd, seen, undone, menuVars, workVars, userVars>>

(* The insert event is handled: with the hook in place by k_run_authentication,
   which starts by clearing the secrets, otherwise by the console's own. *)
k_run_authentication ==
    /\ ev /\ sd = "idle" /\ ev' = FALSE
    /\ IF slot \in Carts /\ hook
       THEN /\ sd' = "auth" /\ seen' = {slot}
            /\ auth' = FALSE /\ keys' = NoCart /\ loyal' = FALSE
       ELSE UNCHANGED <<sd, seen, auth, keys, loyal>>
    /\ UNCHANGED <<slot, hook, undone, app, menuVars, workVars, userVars>>

(* Mutant of AuthOk: a run that does not tell one card from another. *)
AuthOkAnyKeys ==
    /\ sd = "auth" /\ sd' = "authed"
    /\ auth' = TRUE /\ keys' \in Carts /\ loyal' = (seen = {slot})
    /\ UNCHANGED <<slot, ev, seen, hook, undone, app, menuVars, workVars, userVars>>

(* vita_cmd56_run returns GC_AUTH_OK and is_authenticated is set ... *)
AuthOk ==
    /\ sd = "auth" /\ sd' = "authed"
    /\ auth' = TRUE
    /\ keys' \in seen
    /\ loyal' = (seen = {slot})
    /\ UNCHANGED <<slot, ev, seen, hook, undone, app, menuVars, workVars, userVars>>

(* ... and only then does the thread call kDisableGcEmuMgr. *)
AuthUnhook ==
    /\ sd = "authed" /\ sd' = "idle"
    /\ hook' = FALSE
    /\ UNCHANGED <<slot, ev, seen, auth, keys, undone, app, menuVars, workVars, loyal,
                   userVars>>

AuthFail ==
    /\ sd = "auth" /\ sd' = "idle"
    /\ auth' = FALSE /\ keys' = NoCart
    /\ UNCHANGED <<slot, ev, seen, hook, undone, app, menuVars, workVars, loyal, userVars>>

kDisableGcEmuMgr ==
    /\ app = "disable" /\ app' = "options"
    /\ hook' = FALSE
    /\ UNCHANGED <<slot, ev, sd, seen, auth, keys, undone, menuVars, workVars, loyal,
                   userVars>>

-----------------------------------------------------------------------------
(* wait_for_gc_auth: app/auth.c *)

(* Wait for an SD2Vita to go; then its patches are undone, once, and the slot
   is reset.  A reset that fails is ignored. *)
wait_for_sd ==
    /\ app = "prompt" /\ slot # SdCard
    /\ IF ~undone /\ Blacklisted
       THEN app' = "undo" /\ undone' = TRUE /\ (ev' = TRUE \/ UNCHANGED ev)
       ELSE app' = "enable" /\ UNCHANGED <<undone, ev>>
    /\ UNCHANGED <<slot, sd, seen, hook, auth, keys, menuVars, workVars, loyal, userVars>>

(* kResetGc, when a card is in the slot already: the thread gets an insert
   event and the application waits until it has been handled. *)
kResetGc ==
    /\ app = "check"
    /\ IF ~auth /\ slot \in Carts
       THEN app' = "reset" /\ (ev' = TRUE \/ UNCHANGED ev)
       ELSE app' = "wait" /\ UNCHANGED ev
    /\ UNCHANGED <<slot, sd, seen, hook, auth, keys, undone, menuVars, workVars, loyal,
                   userVars>>
reset_handled ==
    /\ ~ev /\ sd = "idle"
    /\ \/ app = "undo" /\ app' = "enable"
       \/ app = "reset" /\ app' = "wait"
    /\ UNCHANGED <<slot, kernVars, menuVars, workVars, loyal, userVars>>

(* Mutant of kIsAuthenticated: a card in the slot is enough. *)
IsInserted ==
    /\ app = "wait" /\ slot \in Carts /\ app' = "disable"
    /\ UNCHANGED <<slot, kernVars, menuVars, workVars, loyal, userVars>>
kIsAuthenticated ==
    /\ app = "wait" /\ auth /\ app' = "disable"
    /\ UNCHANGED <<slot, kernVars, menuVars, workVars, loyal, userVars>>

-----------------------------------------------------------------------------
(* The menus: app/main.c.  get_key answers with the key the user released, or
   with cancel when there is no card: any entry may be confirmed before the
   next look at the slot. *)

Confirm == acts < MaxActs /\ acts' = acts + 1 /\ UNCHANGED swaps
MenuStep(from, to) ==
    /\ app = from /\ app' = to
    /\ UNCHANGED <<slot, kernVars, loyal>>

(* read_gameinfo: the title of the card in the slot now. *)
read_gameinfo == IF slot \in Carts THEN Title[slot] ELSE UNKNOWN
get_output_filename(t, n, e) ==
    path' = [path EXCEPT !.title = t, !.num = n, !.ext = e]

(* draw_gc_options: what is offered depends on device_exist of the sections. *)
draw_gc_options ==
    {"DUMP_WHOLE_GC", "DUMP_KEYS_ONLY", "GET_GC_INFO"}
        \cup (IF Sections = {} THEN {} ELSE {"DUMP_SECTION", "WRITE_SECTION"})
        \cup (IF "grw0" \in Sections THEN {"RESET_GRW0"} ELSE {})
        \cup (IF "mediaid" \in Sections THEN {"RESET_MEDIAID"} ELSE {})

select_option(w) ==
    /\ Confirm
    /\ what' = w
    /\ \/ /\ w = "DUMP_WHOLE_GC" /\ MenuStep("options", "format")
          /\ UNCHANGED <<fmt, path, workVars>>
       \/ /\ w \in {"DUMP_KEYS_ONLY", "DUMP_SECTION"} /\ MenuStep("options", "output")
          /\ fmt' = "RAW"
          /\ get_output_filename(read_gameinfo, 0,
                                 IF w = "DUMP_KEYS_ONLY" THEN "keys" ELSE "RAW")
          /\ uma' = TRUE /\ UNCHANGED <<dkeys, dcard, res, failed, files>>
       \/ /\ w = "WRITE_SECTION" /\ MenuStep("options", "input")
          /\ uma' = TRUE /\ UNCHANGED <<fmt, path, dkeys, dcard, res, failed, files>>
       \/ /\ w = "RESET_MEDIAID" /\ MenuStep("options", "wipe")
          /\ UNCHANGED <<fmt, path, workVars>>
       \/ /\ w = "RESET_GRW0" /\ MenuStep("options", "confirm_format")
          /\ UNCHANGED <<fmt, path, workVars>>
       \/ /\ w = "GET_GC_INFO" /\ MenuStep("options", "message")
          /\ res' = "ok" /\ failed' = {}
          /\ UNCHANGED <<fmt, path, dkeys, dcard, uma, files>>
    /\ UNCHANGED <<dest, picked>>

handle_menu_select_option == \E w \in draw_gc_options : select_option(w)

handle_menu_select_backup_format ==
    \E f \in Formats :
        /\ Confirm /\ MenuStep("format", "output")
        /\ fmt' = f
        /\ get_output_filename(read_gameinfo, 0, f)
        /\ uma' = TRUE
        /\ UNCHANGED <<what, dest, picked, dkeys, dcard, res, failed, files>>

(* handle_menu_set_output: a device, the network, another name or a reload. *)
handle_menu_set_output ==
    /\ Confirm
    /\ \/ \E d \in Dests :
            /\ MenuStep("output", IF d = "net" THEN "netopts" ELSE "rename")
            /\ dest' = d /\ path' = [path EXCEPT !.dev = d]
            /\ UNCHANGED <<what, fmt, picked, workVars>>
       \/ MenuStep("output", "ime") /\ UNCHANGED <<menuVars, workVars>>
       \/ MenuStep("output", "output") /\ uma' = TRUE
          /\ UNCHANGED <<menuVars, dkeys, dcard, res, failed, files>>

(* open_ime: the slot is not looked at while the keyboard is open. *)
open_ime ==
    /\ MenuStep("ime", "output")
    /\ \/ path' = [path EXCEPT !.title = "typed"]
       \/ UNCHANGED path
    /\ uma' = TRUE
    /\ UNCHANGED <<what, fmt, dest, picked, dkeys, dcard, res, failed, files, userVars>>

Exists(p) == \E f \in files : f.path = p
AfterNaming == IF what = "DUMP_KEYS_ONLY" THEN "keydump" ELSE "dump"

(* The loop that numbers the file: the title is read again for each number. *)
rename_file ==
    /\ app = "rename"
    /\ IF Exists(path)
       THEN /\ UNCHANGED app
            /\ get_output_filename(read_gameinfo, path.num + 1, path.ext)
       ELSE app' = AfterNaming /\ UNCHANGED path
    /\ UNCHANGED <<slot, kernVars, what, fmt, dest, picked, workVars, loyal, userVars>>

(* handle_menu_set_network_options: change the address, or start. *)
handle_menu_set_network_options ==
    /\ Confirm
    /\ MenuStep("netopts", "netopts") \/ MenuStep("netopts", AfterNaming)
    /\ UNCHANGED <<menuVars, workVars>>

(* Where a handler returns to: the loop of handle_menu_select_backup_format, or
   main's. *)
Back == IF what = "DUMP_WHOLE_GC" THEN "format" ELSE "options"

(* Mutant of OP_CANCELED: the network options do not return. *)
CanceledNotInNetopts ==
    /\ \/ MenuStep("options", "prompt")
       \/ MenuStep("format", "options")
       \/ MenuStep("output", Back)
       \/ MenuStep("confirm_format", "options")
       \/ MenuStep("input", "options")
       \/ MenuStep("file", "options")
    /\ UNCHANGED <<menuVars, workVars, userVars>>

(* Cancel, pressed or made up by get_key: in the option menu it goes back to
   the prompt, in the network options to the output menu. *)
OP_CANCELED ==
    /\ \/ MenuStep("options", "prompt")
       \/ MenuStep("format", "options")
       \/ MenuStep("output", Back)
       \/ MenuStep("netopts", "output")
       \/ MenuStep("confirm_format", "options")
       \/ MenuStep("input", "options")
       \/ MenuStep("file", "options")
    /\ uma' = IF app = "netopts" THEN TRUE ELSE uma
    /\ UNCHANGED <<menuVars, dkeys, dcard, res, failed, files, userVars>>

(* do_error and do_confirm_message wait for confirm or cancel. *)
WAIT_FOR_CONFIRM ==
    /\ MenuStep("message", Back)
    /\ UNCHANGED <<menuVars, workVars, userVars>>

-----------------------------------------------------------------------------
(* The operations *)

(* do_device_dump up to dump_device: the keys are copied, then the device is
   opened, if there is a card. *)
do_device_dump ==
    /\ MenuStep("dump", "dumping")
    /\ dkeys' = keys /\ dcard' = slot /\ uma' = TRUE /\ failed' = {}
    /\ UNCHANGED <<menuVars, res, files, userVars>>

Replace(p, c, k, l, t) ==
    files' = {f \in files : f.path # p}
                 \cup {[path |-> p, card |-> c, keys |-> k, loyal |-> l, torn |-> t]}

write_file(p, c, k) == Replace(p, c, k, loyal, FALSE)

(* A write that fails once the file is open leaves it empty, in part, or over the
   network cut short; write_file does not open with O_TRUNC, so an older file of
   that name becomes a mixture.  Nobody removes it. *)
write_torn(p) == Replace(p, NoCart, NoCart, FALSE, TRUE)

(* dump_device succeeds or fails; either way uma0: and xmc0: are unmounted at
   the end of do_device_dump.  A dump that fails removes its own file, but not
   what the receiver already has of it. *)
dump_device ==
    /\ MenuStep("dumping", IF what = "DUMP_WHOLE_GC" /\ fmt # "VCI" THEN "keydump" ELSE "message")
    /\ \/ /\ dcard \in Carts
          /\ write_file(path, dcard, IF fmt = "RAW" THEN NoCart ELSE dkeys)
          /\ res' = "ok" /\ UNCHANGED failed
       \/ /\ res' = "fail" /\ failed' = {"image"}
          /\ UNCHANGED files \/ (dest = "net" /\ write_torn(path))
    /\ uma' = FALSE /\ dcard' = NoCart
    /\ UNCHANGED <<menuVars, dkeys, userVars>>

(* change_extension cuts the path at its first dot. *)
change_extension(p) ==
    IF p.title \in Titles /\ Stem[p.title] # p.title
    THEN [p EXCEPT !.title = Stem[p.title], !.num = 0, !.ext = "keys"]
    ELSE [p EXCEPT !.ext = "keys"]

(* A file on a device that is not mounted cannot be opened. *)
Opened == dest # "uma0" \/ uma

(* Mutant of key_dump: the result of write_file is not looked at. *)
KeyDumpUnchecked ==
    /\ MenuStep("keydump", "message")
    /\ LET out == IF what = "DUMP_WHOLE_GC" THEN change_extension(path) ELSE path
       IN  /\ path' = out /\ res' = "ok"
           /\ \/ Opened /\ (write_file(out, NoCart, keys) \/ write_torn(out))
              \/ UNCHANGED files
    /\ UNCHANGED <<what, fmt, dest, picked, dkeys, dcard, uma, failed, userVars>>

(* key_dump and key_dump_network: all of the keys are written, or the failure is
   returned, whatever is then left of the file. *)
key_dump ==
    /\ MenuStep("keydump", "message")
    /\ LET out == IF what = "DUMP_WHOLE_GC" THEN change_extension(path) ELSE path
           bad == IF what = "DUMP_WHOLE_GC" THEN failed ELSE {}
       IN  /\ path' = out
           /\ \/ /\ Opened /\ write_file(out, NoCart, keys)
                 /\ res' = "ok" /\ failed' = bad
              \/ /\ UNCHANGED files \/ (Opened /\ write_torn(out))
                 /\ res' = "fail" /\ failed' = bad \cup {"keys"}
    /\ UNCHANGED <<what, fmt, dest, picked, dkeys, dcard, uma, userVars>>

handle_select_input_device ==
    /\ Confirm
    /\ MenuStep("input", "file") \/ MenuStep("input", "input")
    /\ UNCHANGED <<menuVars, workVars>>

(* handle_select_file: a file is chosen; or do_select_file fails, which is not
   OP_CANCELED, and the restore goes on with whatever the buffer holds: the
   name chosen last time, or no file's name. *)
handle_select_file ==
    /\ \/ Confirm /\ picked' = "chosen"
       \/ /\ picked' \in (IF picked = "none" THEN {"none"} ELSE {"none", "stale"})
          /\ UNCHANGED userVars
    /\ MenuStep("file", "restore")
    /\ UNCHANGED <<what, fmt, dest, path, workVars>>

(* restore_device reports a device it could not open with a descriptor that is
   not negative. *)
do_device_restore ==
    /\ MenuStep("restore", "message")
    /\ \/ /\ slot \in Carts /\ picked # "none"
          /\ res' = "ok" /\ failed' \in {{}, {"restore"}}
       \/ res' = "fail" /\ failed' = {"restore"}
    /\ uma' = FALSE
    /\ UNCHANGED <<menuVars, dkeys, dcard, files, userVars>>

handle_format_confirm_and_format ==
    /\ Confirm
    /\ \/ MenuStep("confirm_format", "wipe")
       \/ MenuStep("confirm_format", "quick")
       \/ MenuStep("confirm_format", "options")
    /\ UNCHANGED <<menuVars, workVars>>

(* do_device_wipe_and_format: the result of the wipe is overwritten by that of
   kFormatDevice. *)
do_device_wipe_and_format ==
    /\ \/ MenuStep("wipe", "message")
       \/ MenuStep("quick", "message")
    /\ \E wiped, formatted \in BOOLEAN :
          /\ (wiped \/ formatted) => slot \in Carts
          /\ failed' = (IF app = "wipe" /\ ~wiped THEN {"wipe"} ELSE {})
                         \cup (IF what = "RESET_GRW0" /\ ~formatted THEN {"format"} ELSE {})
          /\ res' = IF (IF what = "RESET_GRW0" THEN formatted ELSE wiped)
                    THEN "ok" ELSE "fail"
    /\ uma' = FALSE
    /\ UNCHANGED <<menuVars, dkeys, dcard, files, userVars>>

-----------------------------------------------------------------------------
(* The slot *)

RemoveCard ==
    /\ slot # NoCart /\ swaps < MaxSwaps
    /\ slot' = NoCart /\ swaps' = swaps + 1
    /\ loyal' = FALSE /\ dcard' = NoCart
    /\ UNCHANGED <<kernVars, app, menuVars, dkeys, uma, res, failed, files, acts>>

InsertCard ==
    /\ slot = NoCart
    /\ slot' \in Carts \cup {SdCard}
    /\ IF slot' \in Carts
       THEN ev' = TRUE /\ seen' = IF sd = "auth" THEN seen \cup {slot'} ELSE seen
       ELSE UNCHANGED <<ev, seen>>
    /\ UNCHANGED <<sd, hook, auth, keys, undone, app, menuVars, workVars, loyal, userVars>>

(* The kernel module outlives the application: a session may start with the
   keys of the one before. *)
Init ==
    /\ slot \in Carts \cup {NoCart, SdCard}
    /\ ev = FALSE /\ sd = "idle" /\ seen = {} /\ hook = FALSE
    /\ \/ auth = FALSE /\ keys = NoCart
       \/ auth = TRUE /\ keys \in Carts
    /\ undone \in BOOLEAN
    /\ app = "prompt"
    /\ what = "GET_GC_INFO" /\ fmt = "VCI" /\ dest = "ux0" /\ picked = "none"
    /\ path = [dev |-> "ux0", title |-> UNKNOWN, num |-> 0, ext |-> "VCI"]
    /\ dkeys = NoCart /\ dcard = NoCart /\ uma = FALSE /\ res = "none"
    /\ failed = {} /\ loyal = FALSE /\ files = {}
    /\ acts = 0 /\ swaps = 0

AuthThread == k_run_authentication \/ AuthOk \/ AuthUnhook \/ AuthFail
PromptStep == wait_for_sd \/ kEnableGcEmuMgr \/ kResetGc \/ reset_handled
                  \/ kIsAuthenticated \/ kDisableGcEmuMgr
WorkStep == rename_file \/ do_device_dump \/ dump_device \/ key_dump
                \/ do_device_restore \/ do_device_wipe_and_format
UserStep == handle_menu_select_option \/ handle_menu_select_backup_format
                \/ handle_menu_set_output \/ handle_menu_set_network_options
                \/ handle_select_input_device \/ handle_select_file
                \/ handle_format_confirm_and_format \/ open_ime
CancelStep == OP_CANCELED \/ WAIT_FOR_CONFIRM

Next == AuthThread \/ PromptStep \/ WorkStep \/ UserStep \/ CancelStep
            \/ RemoveCard \/ InsertCard

Spec == Init /\ [][Next]_vars

(* Both threads run; get_key makes up the cancel that nobody presses when the
   slot is empty. *)
FairSpec ==
    /\ Spec
    /\ WF_vars(AuthThread) /\ WF_vars(PromptStep) /\ WF_vars(WorkStep)
    /\ WF_vars(slot \notin Carts /\ CancelStep)

-----------------------------------------------------------------------------
(* Properties *)

Name == [path : Path, card : Carts \cup {NoCart}, keys : Carts \cup {NoCart},
         loyal : BOOLEAN, torn : BOOLEAN]
FlagsOK ==
    /\ ev \in BOOLEAN /\ hook \in BOOLEAN /\ auth \in BOOLEAN
    /\ undone \in BOOLEAN /\ uma \in BOOLEAN /\ loyal \in BOOLEAN
(* The kernel's and the application's state stay within their types: keys are
   those of a card or none. *)
TypeOK ==
    /\ FlagsOK
    /\ slot \in Carts \cup {NoCart, SdCard}
    /\ sd \in {"idle", "auth", "authed"} /\ seen \subseteq Carts
    /\ keys \in Carts \cup {NoCart}
    /\ app \in Prompt \cup Menus \cup Work
    /\ what \in Options /\ fmt \in Formats /\ dest \in Dests \cup {"ux0"} /\ path \in Path
    /\ picked \in {"none", "chosen", "stale"}
    /\ dkeys \in Carts \cup {NoCart} /\ dcard \in Carts \cup {NoCart, SdCard}
    /\ res \in {"none", "ok", "fail"}
    /\ failed \subseteq {"image", "keys", "restore", "wipe", "format"}
    /\ files \subseteq Name
    /\ acts \in 0..MaxActs /\ swaps \in 0..MaxSwaps

(* Who may hold the hook and run an authentication where in the application. *)
HookInv ==
    /\ app \in {"prompt", "undo", "enable"} \cup Menus \cup Work => ~hook
    /\ hook /\ auth => sd = "authed"
    /\ sd = "auth" => ~auth /\ app \in {"check", "reset", "wait"}
    /\ sd = "auth" => seen # {}
    /\ auth => keys \in Carts
    /\ app \in {"disable"} \cup Menus \cup Work => auth
(* The two threads meet only in is_authenticated and authHook.  Still, once the
   application has left wait_for_gc_auth no authentication is under way or can
   start, so the keys it reads there are a complete pair that stays put. *)
KeysReady == app \notin Prompt => auth /\ keys \in Carts /\ sd # "auth"

(* No backup is ever written out with zeroed or half-read keys: a VCI or PSV
   header and a keys file hold some card's pair, except where the write itself
   failed and left the file torn. *)
FilesHoldKeys ==
    \A f \in files : f.path.ext # "RAW" /\ ~f.torn => f.keys \in Carts

(* "Backup Success!" (main.c) is never shown without the keys: whatever became
   of the image, and of the device under it once do_device_dump has unmounted
   it, and whatever an earlier write that failed has left behind, the file the
   message names, or the image itself, is whole and holds some card's. *)
SuccessMeansKeys ==
    (app = "message" /\ res = "ok" /\ what \in {"DUMP_WHOLE_GC", "DUMP_KEYS_ONLY"})
        => \E f \in files : f.path = path /\ ~f.torn /\ f.keys \in Carts

(* What it is made inductive with: the option that leads to each dialog. *)
ChoiceInv ==
    /\ app \in {"input", "file", "restore"} => what = "WRITE_SECTION"
    /\ app \in {"confirm_format", "wipe", "quick"} => what \in {"RESET_MEDIAID", "RESET_GRW0"}

(* As long as the card stays where it was authenticated, image and keys are
   that card's. *)
MixNeedsSwap ==
    \A f \in files : f.loyal /\ f.card \in Carts /\ f.keys \in Carts => f.keys = f.card
(* What a dump under way and the names chosen for it have in common. *)
DumpInv ==
    /\ app = "dumping" => dkeys \in Carts /\ dcard \in {slot, NoCart}
    /\ app = "dumping" /\ loyal => dkeys = keys
    /\ loyal => auth /\ keys = slot
    /\ (app \in {"output", "ime", "rename", "netopts", "dump", "dumping", "keydump"})
          => /\ path.ext = (IF what = "DUMP_KEYS_ONLY" THEN "keys" ELSE fmt)
    /\ app \in {"dump", "dumping"} => what # "DUMP_KEYS_ONLY"
    /\ what = "DUMP_KEYS_ONLY" => fmt = "RAW"
    /\ app = "format" => what = "DUMP_WHOLE_GC"
(* The three properties above made inductive. *)
SessionInv == TypeOK /\ HookInv /\ DumpInv /\ FilesHoldKeys /\ MixNeedsSwap

(* "if theres no gamecart inserted, just press cancel everywhere" (ctrl.c): when
   the card is gone for good, every menu unwinds to the prompt, unless the user
   leaves the keyboard open. *)
CardGoneEndsInPrompt ==
    (<>[](slot = NoCart) /\ []<>(app # "ime")) => <>[](app \in Prompt)

(* "enable emulated gamecart authentication" (auth.c): it stays enabled while
   the application waits for a card to be authenticated. *)
EmulationWhileWaiting ==
    [][(app \in {"check", "reset", "wait"} /\ hook /\ ~auth) => hook']_vars

(* "Backup Success!", "Restore Success!" and "Format Success!" (main.c) are only
   shown when every part of the operation happened: image and keys both saved,
   wiped and formatted, restored from a file the user chose for it. *)
SuccessIsTrue ==
    app = "message" /\ res = "ok"
        => failed = {} /\ (what = "WRITE_SECTION" => picked = "chosen")

(* README: "1:1 backups of PSV Game Cartridges as well as the per-cartridge
   keys": the keys in an image, and in the keys file beside it if that was written
   in full, are those of the card it was read from. *)
BackupHoldsOneCard ==
    \A f, g \in files :
        f.card \in Carts =>
            /\ f.keys \in Carts => f.keys = f.card
            /\ g.path = change_extension(f.path) /\ ~g.torn => g.keys = f.card
=============================================================================
