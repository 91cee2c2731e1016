------------------------------- MODULE Menus -------------------------------
(***************************************************************************)
(* app/menu.c: the menus of the application, their cursor and scroll       *)
(* window, and what main.c does with the number a menu returns; the game's *)
(* title in the main menu and the file name in the output menu.            *)
(*                                                                         *)
(* A row is 0, 1, 2, ... as in the code.  One step of PROCESS_MENU's loop  *)
(* is a key and the redraw that follows it, so a state is one in which the *)
(* user looks at the screen.                                               *)
(***************************************************************************)
EXTENDS Integers, Sequences, FiniteSets, FiniteSetsExt, Sfo, Ime, GcIdent

CONSTANTS
    Size,         \* sizeof(options)
    WINDOW_SIZE,
    Cards,        \* the cards whose title is read
    Folders,      \* the folders a file is chosen from: sequences of entries
    Typed,        \* what is typed on the keyboard: sequences of UTF-16 units
    Numbers,      \* what atoi reads of the digits typed
    Registers,    \* bytes read of the card's CID and extended CSD
    MaxScroll     \* how far a window is followed above the first file

ASSUME SizeAssumption ==
    Size \in Nat /\ WINDOW_SIZE \in Nat /\ 9 < WINDOW_SIZE /\ WINDOW_SIZE < Size
ASSUME MaxScrollAssumption == MaxScroll \in Nat
ASSUME InputAssumption ==
    /\ Numbers \subseteq Nat /\ Registers \subseteq Byte
    /\ Typed \subseteq Seq(CodeUnit) /\ Cards \subseteq Card
    /\ Folders \subseteq Seq({"match", "other", "big", "dir", "blank", "error"})
(* The text entries of a param.sfo are UTF-8, which is what open_ime takes them
   for. *)
ASSUME TitlesAssumption ==
    \A c \in Cards : \A i \in DOMAIN c.sfo.ents :
        LET e == c.sfo.ents[i]
        IN  e.type = "STR" => /\ e.value \in Seq(Byte)
                              /\ IsUtf8(e.value) \/ \E k \in DOMAIN e.value : e.value[k] >= 240

VARIABLES
    menu,      \* the menu on the screen, "none" between two menus
    shown,     \* what its rows are: a sequence of [on, what]
    files,     \* the number of files listed, 0 in the other menus
    window,
    selected,
    past,      \* the byte after options[], which CALC_LAST_OPTION reads
    card,      \* the card whose title is in title, or NoCard
    title,     \* do_gc_options' title
    name,      \* handle_menu_set_output's output_filename
    meant,     \* history: the units the user meant the file name to have
    port,      \* CONFIG.port
    last       \* the last thing returned: a choice, or the card's information

vars == <<menu, shown, files, window, selected, past, card, title, name, meant,
          port, last>>

NoCard == [app |-> "none"]
NoFile == -1
Port == 0..65535   \* uint16_t
NoResult == [kind |-> "none"]

-----------------------------------------------------------------------------
(* The rows of each menu, in the order of its ADDOPTs, and the enumerations of
   menu.h by which main.c reads the number returned. *)

Row(on, what) == [on |-> on, what |-> what]
All(names) == [i \in DOMAIN names |-> Row(TRUE, names[i])]

Enum == [
    gc |-> <<"DUMP_WHOLE_GC", "DUMP_KEYS_ONLY", "DUMP_MEDIAID", "WRITE_MEDIAID",
             "RESET_MEDIAID", "DUMP_GRW0", "WRITE_GRW0", "RESET_GRW0", "GET_GC_INFO">>,
    net |-> <<"CHANGE_IP", "CHANGE_PORT", "START_DUMP">>,
    erase |-> <<"FULL_FORMAT", "QUICK_FORMAT", "CANCEL_FORMAT">>,
    input |-> <<"RESTORE_LOCATION_UX0", "RESTORE_LOCATION_XMC", "RESTORE_LOCATION_UMA",
                "RESTORE_LOCATION_HOST", "I_RELOAD_DEVICES">>,
    output |-> <<"DUMP_LOCATION_UX0", "DUMP_LOCATION_XMC", "DUMP_LOCATION_UMA",
                 "DUMP_LOCATION_HOST", "DUMP_LOCATION_NET", "CHANGE_FILENAME",
                 "O_RELOAD_DEVICES">>,
    format |-> <<"SELECT_FMT_VCI", "SELECT_FMT_VCI_TRIM", "SELECT_FMT_PSV",
                 "SELECT_FMT_PSV_TRIM", "SELECT_FMT_RAW">>]

draw_select_backup_format ==
    All(<<"SELECT_FMT_VCI", "SELECT_FMT_VCI_TRIM", "SELECT_FMT_PSV",
          "SELECT_FMT_PSV_TRIM", "SELECT_FMT_RAW">>)

draw_network_settings == All(<<"CHANGE_IP", "CHANGE_PORT", "START_DUMP">>)

draw_format_confirm_menu == All(<<"FULL_FORMAT", "QUICK_FORMAT", "CANCEL_FORMAT">>)

(* Mutant of draw_gc_options: a hidden row takes no number. *)
HiddenTakesNone(has_grw0, has_mediaid) ==
    SelectSeq(<<Row(TRUE, "DUMP_WHOLE_GC"), Row(TRUE, "DUMP_KEYS_ONLY"),
                Row(has_mediaid, "DUMP_MEDIAID"), Row(has_mediaid, "WRITE_MEDIAID"),
                Row(has_mediaid, "RESET_MEDIAID"), Row(has_grw0, "DUMP_GRW0"),
                Row(has_grw0, "WRITE_GRW0"), Row(has_grw0, "RESET_GRW0"),
                Row(TRUE, "GET_GC_INFO")>>, LAMBDA r : r.on)

draw_gc_options(has_grw0, has_mediaid) ==
    <<Row(TRUE, "DUMP_WHOLE_GC"), Row(TRUE, "DUMP_KEYS_ONLY"),
      Row(has_mediaid, "DUMP_MEDIAID"), Row(has_mediaid, "WRITE_MEDIAID"),
      Row(has_mediaid, "RESET_MEDIAID"), Row(has_grw0, "DUMP_GRW0"),
      Row(has_grw0, "WRITE_GRW0"), Row(has_grw0, "RESET_GRW0"),
      Row(TRUE, "GET_GC_INFO")>>

draw_select_input_location(have) ==
    <<Row(have.ux, "RESTORE_LOCATION_UX0"), Row(have.xmc, "RESTORE_LOCATION_XMC"),
      Row(have.uma, "RESTORE_LOCATION_UMA"), Row(have.host, "RESTORE_LOCATION_HOST"),
      Row(TRUE, "I_RELOAD_DEVICES")>>

(* room: the devices with at least the backup's size of free space. *)
draw_select_output_location(have, room, save_network) ==
    <<Row(have.ux /\ "ux" \in room, "DUMP_LOCATION_UX0"),
      Row(have.xmc /\ "xmc" \in room, "DUMP_LOCATION_XMC"),
      Row(have.uma /\ "uma" \in room, "DUMP_LOCATION_UMA"),
      Row(have.host, "DUMP_LOCATION_HOST"), Row(save_network, "DUMP_LOCATION_NET"),
      Row(TRUE, "CHANGE_FILENAME"), Row(TRUE, "O_RELOAD_DEVICES")>>

(* draw_select_file's window after the test at its top ... *)
ClampWindow(w, total) ==
    LET limit == (total % WINDOW_SIZE) - 1 IN IF w > limit THEN limit ELSE w

(* ... and the rows it draws, each the number of a file; a window above the
   first file reads names that are no file's. *)
draw_select_file(w, total) ==
    [j \in 1..(Min({w + WINDOW_SIZE, total - 1}) - w + 1) |->
        Row(TRUE, IF w + j - 1 < 0 THEN NoFile ELSE w + j - 1)]

-----------------------------------------------------------------------------
(* PROCESS_MENU *)

(* options[i] after a draw, the byte after the array included. *)
options(rows, i) ==
    IF i = Size THEN past
    ELSE IF i + 1 \in DOMAIN rows /\ rows[i + 1].on THEN 1 ELSE 0

CALC_FIRST_OPTION(rows) ==
    Min({i \in 0..Size : i = Size \/ options(rows, i) = 1})
CALC_LAST_OPTION(rows) ==
    Max({i \in 0..Size : i = 0 \/ options(rows, i) = 1})

(* The do-while loops of UP and DOWN. *)
Above(rows, s) ==
    IF s <= 0 THEN s - 1
    ELSE Max({i \in 0..(s - 1) : i = 0 \/ options(rows, i) # 0})
Below(rows, s) ==
    IF s >= Size THEN s + 1
    ELSE Min({i \in (s + 1)..Size : i = Size \/ options(rows, i) # 0})

(* RETURNOPT: hidden rows are counted too. *)
TotalOptions(rows) == Len(rows)

(* Mutant of Clamp: the cursor stays past the last row. *)
ClampTopOnly(rows, s, w) ==
    LET first == CALC_FIRST_OPTION(rows)
    IN  IF s < first THEN [sel |-> first, win |-> IF w # first THEN w - 1 ELSE w]
        ELSE [sel |-> s, win |-> w]

(* The tests after the key: a cursor driven past an end comes back to it and
   moves the window instead. *)
Clamp(rows, s, w) ==
    LET first == CALC_FIRST_OPTION(rows)
        last_option == CALC_LAST_OPTION(rows)
    IN  IF s > last_option
        THEN [sel |-> last_option,
              win |-> IF TotalOptions(rows) > WINDOW_SIZE THEN w + 1 ELSE w]
        ELSE IF s < first
        THEN [sel |-> first, win |-> IF w # first THEN w - 1 ELSE w]
        ELSE [sel |-> s, win |-> w]

(* Drawing again: only the file menu has rows that depend on the window. *)
Redraw(w) ==
    IF menu = "file"
    THEN /\ window' = ClampWindow(w, files)
         /\ shown' = draw_select_file(window', files)
    ELSE window' = w /\ UNCHANGED shown

(* A pass of the loop whose key is UP or DOWN; the other buttons only redraw. *)
Key(s) ==
    LET to == Clamp(shown, s, window)
    IN  /\ menu # "none"
        /\ to.win >= -MaxScroll
        /\ selected' = to.sel
        /\ Redraw(to.win)
        /\ UNCHANGED <<menu, files, past, card, title, name, meant, port, last>>
PressUp == Key(Above(shown, selected))
PressDown == Key(Below(shown, selected))

(* What the cursor is on, and what main.c takes the number for: an enumerator or
   its switch's default, or the name at that place of files[]. *)
Highlighted ==
    IF options(shown, selected) = 1 /\ selected < Size THEN shown[selected + 1].what
    ELSE IF menu = "file" THEN NoFile ELSE "nothing"
Returned ==
    IF menu = "file" THEN IF selected < files THEN selected ELSE NoFile
    ELSE IF selected + 1 \in DOMAIN Enum[menu] THEN Enum[menu][selected + 1]
    ELSE "default"

Leave(result) ==
    /\ menu # "none"
    /\ last' = result
    /\ menu' = "none" /\ shown' = <<>> /\ files' = 0 /\ window' = 0 /\ selected' = 0
    /\ card' = NoCard /\ title' = <<>>
    /\ UNCHANGED <<past, name, meant, port>>
PressConfirm ==
    Leave([kind |-> "choice", menu |-> menu, files |-> files,
           seen |-> Highlighted, got |-> Returned])

(* CANCEL, which get_key also returns when the card is gone. *)
PressCancel == Leave([kind |-> "cancel", menu |-> menu])

-----------------------------------------------------------------------------
(* Opening the menus.  Their order is main.c's and belongs to GcSession: here
   each may follow any other, except that the network menu follows the output
   menu and the output menu keeps its file name while its loop goes on. *)

Open(m, rows, total, w) ==
    /\ menu = "none"
    /\ menu' = m /\ shown' = rows /\ files' = total /\ window' = w
    /\ selected' = CALC_FIRST_OPTION(rows)
    /\ last' = NoResult
    /\ UNCHANGED <<past, port>>
NoText == name' = <<>> /\ meant' = <<>>
NoTitle == card' = NoCard /\ title' = <<>>

do_gc_options ==
    /\ \E has_grw0, has_mediaid \in BOOLEAN :
         Open("gc", draw_gc_options(has_grw0, has_mediaid), 0, 0)
    /\ card' \in Cards
    /\ title' = remove_illegal_chars(read_gameinfo(card'))
    /\ NoText
(* handle_menu_set_network_options asks until it is cancelled or starts. *)
NetChosen ==
    \/ last.kind = "choice" /\ last.menu = "output" /\ last.got = "DUMP_LOCATION_NET"
    \/ last.kind = "choice" /\ last.menu = "net" /\ last.got = "CHANGE_IP"
    \/ last.kind = "port"
do_network_options ==
    /\ NetChosen
    /\ Open("net", draw_network_settings, 0, 0)
    /\ NoTitle /\ UNCHANGED <<name, meant>>
do_format_confirm == Open("erase", draw_format_confirm_menu, 0, 0) /\ NoTitle /\ NoText
do_select_backup_format ==
    Open("format", draw_select_backup_format, 0, 0) /\ NoTitle /\ NoText
do_select_input_location ==
    /\ \E have \in [ux : BOOLEAN, xmc : BOOLEAN, uma : BOOLEAN, host : BOOLEAN] :
         Open("input", draw_select_input_location(have), 0, 0)
    /\ NoTitle /\ NoText

(* get_files_in_folder: at most Size entries are read; the folder ends where
   an entry has no name.  -1 when reading fails, the count otherwise. *)
get_files_in_folder(folder) ==
    LET stop == SelectInSeq(folder, LAMBDA e : e \in {"blank", "error"})
        end  == IF stop = 0 THEN Len(folder) ELSE stop - 1
    IN  IF stop # 0 /\ stop <= Size /\ folder[stop] = "error" THEN -1
        ELSE Cardinality({i \in 1..Min({end, Size}) : folder[i] = "match"})

(* do_select_file: a folder without a file that fits opens no menu. *)
do_select_file ==
    /\ \E folder \in Folders :
         LET total == get_files_in_folder(folder)
             w     == ClampWindow(0, total)
         IN  IF total > 0
             THEN Open("file", draw_select_file(w, total), total, w)
             ELSE /\ menu = "none"
                  /\ last' = [kind |-> "nofile"]
                  /\ UNCHANGED <<menu, shown, files, window, selected, past, port>>
    /\ NoTitle /\ NoText

(* handle_menu_set_output names the file after the game and asks for the device
   until one is chosen or the menu is left; cancelled network options come back
   to it. *)
OpenOutput ==
    LET locations == {draw_select_output_location(have, room, save_network) :
          have \in [ux : BOOLEAN, xmc : BOOLEAN, uma : BOOLEAN, host : BOOLEAN],
          room \in SUBSET {"ux", "xmc", "uma"}, save_network \in BOOLEAN}
    IN  \E rows \in locations : Open("output", rows, 0, 0)
Again ==
    \/ last.kind = "renamed"
    \/ last.kind = "choice" /\ last.menu = "output" /\ last.got = "O_RELOAD_DEVICES"
    \/ last.kind = "cancel" /\ last.menu = "net"
handle_menu_set_output ==
    /\ OpenOutput
    /\ name' \in {remove_illegal_chars(read_gameinfo(c)) : c \in Cards}
    /\ meant' = utf8_to_utf16(name')
    /\ NoTitle
do_select_output_location == Again /\ OpenOutput /\ NoTitle /\ UNCHANGED <<name, meant>>

-----------------------------------------------------------------------------
(* What the choices do here *)

Chosen(what) ==
    /\ menu = "none" /\ last.kind = "choice" /\ last.menu # "file" /\ last.got = what
    /\ UNCHANGED <<menu, shown, files, window, selected, past, card, title>>

(* CHANGE_FILENAME: the keyboard opens with the name and is closed, confirmed as
   it is or with another text. *)
change_filename ==
    /\ Chosen("CHANGE_FILENAME")
    /\ \E button \in {"CLOSE", "ENTER"}, input \in Typed \cup {utf8_to_utf16(name)} :
         /\ name' = remove_illegal_chars(open_ime(name, button, input))
         /\ meant' = IF button = "CLOSE" THEN meant ELSE input
    /\ last' = [kind |-> "renamed"]
    /\ UNCHANGED port

change_port ==
    /\ Chosen("CHANGE_PORT")
    /\ \E button \in {"CLOSE", "ENTER"}, num \in Numbers :
         port' = open_ime_short(port, button, num)
    /\ last' = [kind |-> "port"]
    /\ UNCHANGED <<name, meant>>

do_device_info ==
    /\ Chosen("GET_GC_INFO")
    /\ \E cid, ext \in Registers, auth \in BOOLEAN, key_id \in {1, 32769} :
         last' = [kind |-> "info", info |-> get_gc_info(cid, ext, auth, key_id)]
    /\ UNCHANGED <<name, meant, port>>

-----------------------------------------------------------------------------

Init ==
    /\ menu = "none" /\ shown = <<>> /\ files = 0 /\ window = 0 /\ selected = 0
    /\ past \in {0, 1}
    /\ card = NoCard /\ title = <<>> /\ name = <<>> /\ meant = <<>>
    /\ port \in Numbers \cap Port
    /\ last = NoResult

Next ==
    \/ PressUp
    \/ PressDown
    \/ PressConfirm
    \/ PressCancel
    \/ do_gc_options
    \/ do_network_options
    \/ do_format_confirm
    \/ do_select_backup_format
    \/ do_select_input_location
    \/ do_select_file
    \/ handle_menu_set_output
    \/ do_select_output_location
    \/ change_filename
    \/ change_port
    \/ do_device_info

Spec == Init /\ [][Next]_vars

-----------------------------------------------------------------------------
(* Properties *)

(* The rows on the screen: of the file menu those of its window, which shows
   WINDOW_SIZE + 1 files or all there are and moves only where the number of files
   lets it; of another the enumeration's, hidden ones included. *)
RowsInv ==
    /\ menu \in {"none", "file"} \cup DOMAIN Enum
    /\ menu = "none" => shown = <<>>
    /\ menu = "file" =>
         /\ files \in Nat \ {0} /\ window \in Int /\ window < files % WINDOW_SIZE
         /\ files < WINDOW_SIZE \/ files % WINDOW_SIZE = 1 => window = 0
         /\ shown = draw_select_file(window, files)
         /\ Len(shown) = (IF files < WINDOW_SIZE THEN files ELSE WINDOW_SIZE + 1)
    /\ menu \in DOMAIN Enum =>
         /\ DOMAIN shown = DOMAIN Enum[menu]
         /\ \A i \in DOMAIN shown : shown[i].what = Enum[menu][i]
         /\ \E i \in DOMAIN shown : shown[i].on
(* The cursor: on a row that is drawn. *)
CursorInv ==
    /\ selected \in 0..Size
    /\ menu # "none" =>
         /\ CALC_FIRST_OPTION(shown) <= selected
         /\ selected <= CALC_LAST_OPTION(shown)
         /\ options(shown, selected) = 1
(* PROCESS_MENU's cursor is on a row that is drawn while a menu is open, the window
   leaves at most one row more than WINDOW_SIZE and each row is the one main.c's
   enumeration has there, and a port fits its unsigned short.  past = 1 excepted:
   CALC_LAST_OPTION then takes the byte after the array for a row. *)
NavInv == RowsInv /\ CursorInv /\ past \in {0, 1} /\ port \in Port

(* The number a menu returns is taken by main.c for what the cursor was on,
   whichever rows are hidden.  In the file menu this holds while the window
   cannot move. *)
ConfirmedIsHighlighted ==
    last.kind = "choice" /\ past = 0 =>
        \/ last.seen = last.got
        \/ /\ last.menu = "file"
           /\ last.files >= WINDOW_SIZE /\ last.files % WINDOW_SIZE # 1

(* do_select_file: the file restored is the one the cursor was on. *)
FileConfirmedIsHighlighted ==
    last.kind = "choice" /\ last.menu = "file" /\ past = 0 => last.seen = last.got

(* read_gameinfo: of a param.sfo that is there and whose values fit, the main menu
   shows the short title, the long one if there is none, or UNKNOWN; and UNKNOWN
   only of a file that is damaged or has neither. *)
TitleIsGames ==
    card # NoCard /\ card.app = "there" /\ card.sfo.size > 0 /\ Fits(card.sfo) =>
        LET ref == remove_illegal_chars(RefTitle(card.sfo))
        IN  /\ title \in {ref, remove_illegal_chars(DEFAULT_TITLE)}
            /\ WellFormed(card.sfo) => title = ref

(* A file name typed on the keyboard, confirmed and opened again is the one that
   was typed, with blanks for what a file name may not hold: the two conversions
   are each other's inverse and the bytewise replacement never falls into the
   middle of a character.  Excepted are characters outside the basic plane, which
   utf8_to_utf16 does not know, and a title that was never set. *)
NameSurvivesKeyboard ==
    LET again == utf8_to_utf16(name)
        wide  == (\E i \in DOMAIN name : name[i] >= 240)
                 \/ (\E i \in DOMAIN meant : Lead(meant[i]))
    IN  wide \/ (/\ again = remove_illegal_chars(meant)
                 /\ utf16_to_utf8(again) = name)

(* The sixteen years a card of a revision can write. *)
Epoch(rev) == IF rev > 4 THEN 2010..2025 ELSE 1997..2012
(* get_gc_info: the year shown lies in the sixteen years the card's revision can
   write, and no two date bytes of one revision read the same. *)
DateInEpoch ==
    last.kind = "info" =>
        LET i == last.info
        IN  /\ i.date.year \in Epoch(i.rev)
            /\ \A mdt \in Byte :
                 mmc_datetime_from_byte(i.rev, mdt) = i.date => mdt = i.mdt
=============================================================================
