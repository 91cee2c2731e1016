# A verification of GcToolKit

GcToolKit backs up PlayStation Vita game cards: it authenticates the card with
its own implementation of the CMD56 handshake, keeps the two per-card keys that
come out of it, and copies the card's block device to a file or to a computer.
This directory holds TLA+ specifications of its core, TLC configurations for
small instances, and TLAPS proofs of the main results for all instances.

## The system

| Part | State it keeps | Operations | Talks to |
|---|---|---|---|
| `kern/cmd56/vita.c`, `kern/auth_emu.c`: console side of the handshake | `vita_state`, `is_authenticated`, one response buffer per run | ten exchanges, then keys or nothing | the card, over an SDIF link whose errors are dropped |
| `kern/cmd56/gc.c`: card side | `gc_cmd56_state`: lock, session, shared random, secondary key, keys | one handler per command | the console |
| `kern/auth_emu.c`, `kern/gc.c`, `app/auth.c`: hook and reset | `authHook`, `is_authenticated`, SceSdstor's event flags | enable, disable, reset the slot, wait | SceSdstor's thread and the application's thread |
| `app/main.c`, `app/menu.c`, `app/ctrl.c`: dialogs and operations | what was chosen, the output path, the result to show | dialogs, then dump, key dump, restore, format | all of the above |
| `app/menu.c` (`PROCESS_MENU`): navigation | `options[]`, `selected`, `window` | up, down, confirm, cancel, redraw | the enumerations of `menu.h`, by which main.c reads the number returned |
| `app/sfo.c`, `app/gameinfo.c`, `app/gc_ident.c`, `app/ime.c`: what is shown and typed | the title, the file name, the port | parse param.sfo, read registers, convert to and from the keyboard | the card's file system, the system keyboard |
| `app/main.c`, `app/kernel.c`, `app/config.c`: launch | `CONFIG`, config.bin, the arguments | read or reset the settings, load the kernel module, restart | GcKernKit, which outlives the application |
| `app/lock.c`: locks of a backup | `disable_power`, one thread per backup | lock and unlock shell and power | the scheduler |
| `app/device.c`: dump, restore, wipe | `BackupState` | setup, open, header, loop, hash, close | kernel device I/O, files, `app/net.c` |
| `app/net.c`, `app/auth.c`: sender | one socket per file | connect, packet, data, close | `pc/main.c` |
| `pc/main.c`: receiver | one thread per connection, one `work_buffer` for all | accept, receive a file, patch a file | the file system |

Hard to test in it: the card can be pulled or swapped between any two steps;
lost CMD56 transfers leave an old answer in the buffer; two threads share the
authentication flag and the hook; reads and writes may be short; results of
several steps are folded into one; the receiver's threads write to one file
with nothing to order them; the kernel's hook, keys and threads outlive the
application that set them up; rows of a menu are hidden while their numbers are
kept. `PROJECT.json` lists each of these at its line.

What makes each part correct:

* handshake: keys are released only as a pair of one card that was there; a card
  opens only for the console that shares its session; no fault, no failure;
* session: whenever a menu reads the keys they are complete; the keys saved with
  an image are its card's; every dialog unwinds when the card is gone; a success
  message is true;
* device: a successful dump, restore or wipe is exact; a failed dump to a file leaves
  none; every operation returns;
* menus: what is confirmed is what was highlighted; the title and the file name
  are the game's and the user's; a date is one the card can have;
* launch: the settings in use are complete, the application settles, keys are
  ready in every launch, the console stays awake for a backup and only for it;
* network: the hash patch ends up in the file; files are not mixed; everything
  arrives.

## Modules

* `CardAuth` is the abstract authentication: a run yields both keys of one card
  that was in the slot while it ran, or nothing.
* `Cmd56` is the handshake. `vita`, `card`, `response` are the two ends' state
  and `vita_cmd56_run`'s buffer. Each command of `vita.c` is two actions, before
  and after the transfer, since the card may change in between; the card's
  handlers are functions on its state, run by `k_gc_cmd56_write`. A transfer may
  fail at any time: a failed write never reaches the card, a failed read leaves
  the buffer as it was. Cryptography is symbolic: a random value is a fresh
  number, a ciphertext or a CMAC names its key. `or_w_80` is kept as one bit
  because the comparisons depend on it. An answer to another command is parsed
  the way the code casts it (`StatusViews`, `KeyIdViews`): where the bytes are
  ciphertext or random the reading is any value. `Cmd56` implements `CardAuth`
  (`ImplementsCardAuth`).
* `GcSession` composes the application's thread (`app` is its place in main.c
  and menu.c), SceSdstor's thread (`sd`) and the slot. It uses an authentication
  as `CardAuth` promises it and a dump, restore or wipe as an operation with the
  results `BackupDevice` gives it. Entries of one kind are one option
  (`DUMP_SECTION` is `DUMP_MEDIAID` and `DUMP_GRW0`); the trimmed formats share
  their whole format's name. `kResetGc` is an event the thread handles plus the
  wait for it (`reset_handled`). `change_extension` is modelled by what it does
  (it cuts at the first dot) through `Stem`; the instances use a title
  without one. A write that fails once its file is open may leave it `torn`
  (`write_torn`): `write_file` neither truncates nor removes, so a keys file is
  then empty, partial or a mixture with an older one, and the receiver keeps its
  part of a network dump that was cut. The two keyboards of the network options are one entry.
* `BackupDevice` is device.c: one operation at a time, in blocks; block i of the
  device is the number i, of an image -i, zeros 0, so `out` shows where each
  block written came from. A read of the image may stop anywhere, and
  `read_data_from_image` fills up the buffer with zeros all the same: `ipos` is the
  file's position, which then lags behind what was returned, and `gap` records
  that a read stopped before the image's end. Descriptors keep the 0 of `setup_state` apart from an
  error, since the error paths test signs.
* `NetBackup` is a PSV backup over the network: connection 1 the image, 2 the
  hash patch, 3 the keys; each system call of `receive_packets` is an action.
  `Stdio` is what the receiver's `FILE` may keep back, `Window` what the sockets
  hold. Connections are made in the order of their numbers, so taking the least
  of `backlog` is taking the oldest.
* `Sfo`, `Ime`, `GcIdent` are the pure parts: `read_sfo_key` and `read_gameinfo`
  on a param.sfo given by its size, header and entries, next to a reference
  definition (`RefTitle`); the two conversions between UTF-16 and UTF-8, and
  `remove_illegal_chars`; the date and key group of a card. Both conversions are
  one loop (`Walk`) over what a character becomes (`Bytes`, `Unit`, with shifts
  and masks written as divisions and remainders) and how far it reaches. An array that was never set, or was left without its
  terminator, reads as `Unset`.
* `Menus` is `PROCESS_MENU`: `shown` are the rows drawn, `selected` and `window`
  the code's variables, `past` the byte behind `options[]` that
  `CALC_LAST_OPTION` reads. A step is one pass of the loop (a key, the tests
  after it and the redraw), or a menu being opened or left. `Enum` is what
  `menu.h` makes of the number returned. It uses `Sfo`, `Ime` and `GcIdent` for
  the title, the name, the port and the information screen. Which menu follows
  which is `GcSession`'s, except where the name is kept from one to the next: the
  network menu follows the output menu and goes back to it when cancelled
  (`NetChosen`, `Again`).
* `AppLaunch` extends `GcSession`: its session steps are that module's actions
  with what they do to the locks and the settings added. `life` is main()'s
  place before its menu loop; the application can be closed whenever the shell
  is not locked, launched again while the kernel module stays, and the console
  can be rebooted. `save_config` says what a save may leave in config.bin.
  `fresh` and `loops` count `lock_power`'s threads before and after they set the
  flag. An authentication that survives into the next launch has its secrets
  cleared by `kEnableGcEmuMgr` (`wiped`).
* `MC*` give the constants their values, `*Proofs` hold the theorems.

Operators whose comment begins with "Mutant" are not part of the specification.
Each is a plausible mistake in one definition; putting it in that definition's
place makes TLC report the property `PROJECT.json` pairs it with, which shows
that the property depends on what the code does.

### Abstractions and assumptions

* Releasing a hook succeeds. `GcSession` starts with the hook released and
  perhaps the keys and the flag of an earlier session; a hook that an earlier
  launch left in place is `AppLaunch`'s.
* A restore or a wipe is one step of `AppLaunch`, so its lock and unlock are too;
  the tick thread may have run by then or not.
* The list of locations a kernel module is looked for in is one choice: some
  module starts, or none.
* `Menus` takes a file's name to be its place in the folder, and the keyboard's
  texts from a small set; drawing is left out except for which rows it adds.
* The text entries of a param.sfo are UTF-8 (`TitlesAssumption`), which is what
  the code takes them for when it hands the title to the keyboard. Of other bytes
  `utf8_to_utf16` makes something that does not come back.
* All cards of an instance have the same writable sections.
* In `k_run_authentication` a slot without a context is a link on which every
  transfer fails.
* A `READ_SOCKET` that fails inside the receiver's loop returns -1, which
  pc/main.c:73-75 passes to `fwrite` as a size and adds to the total. What follows
  is undefined, and `NetBackup` has no such step.
* `accept` waits until the last thread has read `connection_fd`: the code's
  `sleep(1)` is taken to be long enough.
* Restoring reads an image whose size is known to `stat`; a failed `stat` reads
  as size 0.

## Runs

Passing; `menus` checks safety only, the others use the fair specification:

| Run | Instance | Shows |
|---|---|---|
| `cmd56` | 2 cards (key ids 1 and 0x8001), 2 runs, 4 faults | `KeysFromOneCard`, `SuccessMeansUnlocked`, `NoFaultNoFailure`, `UnlockNeedsSession`, `ImplementsCardAuth`, `RunsEnd`, and the inductive `HandshakeInv` |
| `backup_device` | devices of 0, 1, 4 and 5 blocks, buffer of 2 | `DumpIsExact`, `TrimCoversPartitions`, `PsvHashMatchesFile`, `FailedDumpLeavesNothing`, `RestoreIsExact`, `WipeIsComplete`, `OperationEnds`, and the inductive `DeviceInv` |
| `session` | 2 copies of one game, 4 confirmed menu entries, 1 swap, a blacklisted module loaded | `KeysReady`, `FilesHoldKeys`, `SuccessMeansKeys`, `MixNeedsSwap`, `CardGoneEndsInPrompt`, and the inductive `SessionInv` |
| `net_backup` | 6 blocks, sockets 2, work buffer 2, stdio 1, 2 faults, a name of 79 bytes | `PatchSurvives`, `BackupArrives`, and the inductive `NetInv` |
| `menus` | all seven menus with every combination of hidden rows; 0 to 27 files, a window of 10; param.sfo of up to 2 entries and damaged ones; texts at the borders of the encodings | `NavInv`, `ConfirmedIsHighlighted`, `TitleIsGames`, `NameSurvivesKeyboard`, `DateInEpoch` |
| `launch` | 1 card, 3 confirmed menu entries, 2 launches by the user, any number of reboots | `LaunchInv`, `KeysReadyAgain`, `AwakeWhileDumping`, `LaunchSettles`, `SleepsAgain` |

Two cards are enough for a swap, two runs for a stale answer of the run before,
and four faults for a swap (one) with three lost transfers around it. Devices
of 0, 1, 4 and 5 blocks with a buffer of 2 are empty, smaller than the buffer,
a multiple of it and not. The network instance is the smallest for which
`LargeAssumption` (the image is larger than all buffers on its way) holds with
every buffer in use. `WINDOW_SIZE` is 10 instead of 19 and `Size` (of `options[]`)
25 instead of its `BUFFER_SIZE` of 0x1028: the largest other menu has nine rows and must not scroll
(`SizeAssumption`), and file counts around one and two windows, and beyond the
array, all occur. `MaxScroll` stops following a window three rows above the
first file, which the code lets grow for ever when the number of files is a
multiple of the window's rows. `TitleSize` 6 has room for a
value of three bytes and not of four. In `launch` two launches are
enough for what one leaves to the next, one card because the
property does not compare cards (removing and inserting it is `session`'s), and
`Blacklisted` is FALSE to keep the instance small. Deadlock is switched off where the bounded system may stop:
no more runs, acts or swaps left, or a backup done.

Violated, each a disagreement between the code and what the repository says:

| Run | What TLC shows |
|---|---|
| `cmd56_proto` | `allow_prototype_keys = 1` refuses the key ids it is documented to allow (vita.c:64) |
| `session_hook` | the thread's late `kDisableGcEmuMgr` removes the hook just enabled again (auth_emu.c:92-95) |
| `session_success` | the wipe fails, the format succeeds: "Format Success!" (menu.c:615); device.c:373 is another way, a restore that could not open the device |
| `session_mix` | a card swapped after the last dialog is dumped with the keys of the card before (menu.c:659) |
| `net_mixed` | the shared `work_buffer` mixes two files (pc/main.c:29) |
| `menu_file` | with as many files as a window has rows (19 in the code) the window starts at -1 and the file returned is the one after the highlighted one (menu.c:312) |

### Also met while modelling

These follow from the models as well. They are other ways to break a property
above, or have no run of their own:

* the image fails and the keys succeed: `handle_dump_device` keeps the second
  result only and says "Backup Success!" (main.c:59; breaks `SuccessIsTrue`);
* a failed file selection other than a cancel goes on to restore from an unset
  name (main.c:287; breaks `SuccessIsTrue`);
* the keyboard's loop does not look at the slot, so a card can be swapped there
  too (ime.c:151), and the backup of a second copy of a game overwrites the key
  file of the first, whose name alone is not tested (main.c:57); both break
  `BackupHoldsOneCard`;
* `uma0:` is unmounted by `do_device_dump` before the key file of an image on it
  is opened (menu.c:676);
* a read of the image that stops before its end is filled up with zeros and
  counted as full (device.c:237): what follows is restored behind them, shifted,
  the image's tail not at all, and the restore succeeds. A short write to the
  device is not noticed either (device.c:219). `RestoreIsExact` excepts both
  (`gap`, `short`); without the first exception TLC shows a one-block image
  restored as a block of zeros;
* a keys file whose write failed stays, empty, partial or over an older one's
  bytes, and looks like any other (io.c:256; `torn`). The failure is reported,
  the file is not removed. The receiver's part of a network dump that failed
  stays too;
* `get_trimmed_size` uses the end of the last partition only when it is 0
  (device.c:479), so a trimmed dump copies the whole device; README.md:24-25
  of the repository says otherwise. `TrimCoversPartitions` is what a user relies
  on and holds with the code as it is;
* when the number of files is one more than a multiple of the window's rows the
  window never moves, and the files below it cannot be reached; when it is a
  multiple of them the window can be driven above the first file without end
  (menu.c:312; `MaxScroll`);
* `CALC_LAST_OPTION` starts one past `options[]`; if that byte is 1 the cursor
  can leave the rows (`past`; `NavInv` and `ConfirmedIsHighlighted` except it);
* `read_sfo_key` answers 0 for an empty or missing file without setting its
  output (sfo.c:20), and copies a value that just fits without its terminator
  (sfo.c:82); `TitleIsGames` excepts both;
* `utf8_to_utf16` does not know four-byte characters and `utf16_to_utf8` builds
  some of them wrongly, so a name with one changes when it is edited; the
  keyboard's limit is in UTF-16 units where the buffers are in bytes;
* an authentication can outlive the application that enabled it; the next launch
  clears `vita_state` under it and it may then succeed with cleared keys
  (auth_emu.c:170; the `wiped` exception of `KeysReadyAgain`, without which
  TLC shows a 20-state behaviour);
* a tick thread that first runs after `unlock_power` sets the flag again and the
  console is kept awake until the next backup ends (lock.c:14; the `late`
  exception of `SleepsAgain`); its loop calls `sceKernelDeleteThread` where a
  delay was meant and so does not wait (lock.c:18);
* two locations of the kernel module are joined by a missing comma (kernel.c:25);
* a file name of more than 79 bytes is cut in the patch packet and not in the
  file packet (net.c:39, Packet.h:31), so the hash is not added; `BackupArrives`
  is stated for names that fit.

### Fairness

* `Cmd56`: the kernel thread that runs the handshake is scheduled and SDIF
  transfers return (with an error at worst).
* `BackupDevice`: the operation runs in the application's only thread and the
  calls it makes return.
* `GcSession`: both threads run; the cancel of `get_key` is fair only while no
  card is in the slot, since only then is it produced without the user. Nothing
  is assumed of the user, who may leave the keyboard open.
* `AppLaunch`: main()'s steps before its menu loop and the tick threads are run
  by the scheduler; nothing is assumed of the user, who launches and closes.
  `LaunchSettles` needs no more, since main() asks nobody anything before the
  prompt, and restarts itself at most once.
* `NetBackup`: the console, the receiver's main loop and each of its threads are
  scheduled.

## Proofs

* `Cmd56Proofs`: `TypeCorrect`, `KeyInvariant`, `OneCardPerKeyPair`,
  `UnlockOnlyBySession`, `AuthRefinement`, for any set of cards and any bounds.
  `KeysFromOneCard` is not inductive: nothing in it rules out a second card that
  can answer under the same secondary key. `KeyInv` adds that sealed answers
  carry their own card's key (`CardInv`), which fields of `vita` are set by which
  exchange (`RunInv`), and that the console's secondary key, new in every run and
  sent once under one card's session key, is known to at most one card
  (`HolderInv`). The refinement maps every step to a step of `CardAuth` or a
  stutter. Assumptions: `CartsAssumption`, `KeyIdAssumption` (cards announce one
  of the ids `derive_session_key` knows), `BoundsAssumption`.
* `Cmd56SuccessProofs`: `HandshakeInvariant`, `SuccessUnlocks`,
  `ReliableRunsSucceed`. `HandshakeInv` is `KeyInv` with two more arguments.
  `UnlockInv`: a card out of the slot has lost its session (`AbsentInv`); an
  answer with the shared random carries the halves the card stored (`SharedInv`)
  and is told from a stale one by a number never drawn before (`BufferInv`); so a
  card that can decrypt the fifth request has the console's halves (`HalvesInv`),
  and one that takes the secondary key unlocks (`LockInv`). `ReliableInv`: as
  long as nothing was lost or swapped, both ends agree (`Agree`) and the answer
  waiting is one the console accepts (`Accepted`).
* `BackupDeviceProofs`: `DeviceInvariant` and from it `DumpExact`,
  `TrimExact`, `PsvHashExact`, `RestoreExact`, `WipeExact`, `FailsClean`, for all sizes.
  `RestoreExact` is about restores without a short write and without a read of the
  image that stopped before its end, since the code notices neither. The point of `DeviceInv` is that a dump loses nothing while it has written as much
  as it has read, and that once it has lost something it can no longer reach
  its size, because the device ends first.
* `GcSessionProofs`: `SessionInvariant` and from it `KeysAreReady`,
  `BackupsHoldKeys`, `OneCardWithoutSwap`, `SuccessHasKeys`. `HookInv` says where in the
  application the hook may be in place and an authentication under way;
  `DumpInv` ties the copy of the keys in a dump to the authenticated card;
  `ChoiceInv` which entry the menus further in were reached from, so that a
  success message for a dump has a whole key file behind it. What the theorems
  say of files excepts those that a failed write left torn.
* `NetBackupProofs`: `NetInvariant` and `PatchIsKept`. The patch is sent after
  the last block, at most `Window + WorkBuf + Stdio` blocks are then not on disk,
  and the image is larger than that (`LargeAssumption`; cards have two or four
  gigabytes), so the header is.
* `AppLaunchProofs`: `LaunchInvariant`, `KeysReadyAcrossLaunches`,
  `DumpKeepsAwake`, for any number of launches, closes and reboots. The session's
  `HookInv` does not survive the application being closed at the prompt, so
  `RelaunchInv` keeps the part that does: a hook in place, and an authentication
  under way, may be the launch before's, but past the prompt the flag is set.
  `LockInv` counts the tick threads: of a dump that made one, one has yet to set
  the flag, or has set it and still loops. The type part is `GcSessionProofs`'
  lemmas, one for each session action `AppLaunch` takes over.
* `ImeProofs`: `ThereAndBack` and `CleanCommutes`, for texts of any length. They
  are inductions on the place in the text. The library's induction theorems take
  a predicate, which the provers cannot instantiate; `BackwardInduction` takes a
  set instead and rests on the least element of a set of numbers. `WalkUnfold`
  shows that the recursive function `WalkFrom` satisfies its own equation.
* `MenusProofs`: `CursorOnARow`, `ChoiceIsTheRow`, `TitlesAreTheCards`,
  `NamesSurvive`, `DatesAreTheCards`, for any array, window, folders, cards and
  texts. `ConfirmedIsHighlighted` needs `NavInv`: that the rows are the
  enumeration's or the window's (`RowsInv`) and the cursor is on one that is drawn
  (`CursorInv`). `NameSurvivesKeyboard` is not inductive, because closing the
  keyboard cleans the name again and confirming it unread encodes what the other
  conversion made of it: the invariant adds that the name is clean and that it is
  made of bytes. Assumptions: `SizeAssumption` (the window is larger than any
  other menu and smaller than the array, 19 and 0x1028 in the code),
  `InputAssumption` (the types of what is read and typed), `TitlesAssumption`.

Every safety property a passing run checks is proved. Only model-checked is
liveness (`RunsEnd`, `OperationEnds`, `CardGoneEndsInPrompt`, `BackupArrives`,
`LaunchSettles`, `SleepsAgain`): fairness is out of the prover's reach.

## Not modelled

* `kern/io.c`: wrappers of `ksceIo*` without state but the process permission
  they switch around a call; the card they read and write is `BackupDevice`'s.
  Seen there: the write check's mask is constant by operator precedence (line
  11), a failed open leaves the permission raised (line 52), `kFormatDevice`
  returns early in the same way, and `kGetDeviceSize` lacks a return.
* The format call, USB and SD2Vita patches of the running kernel, and mounting
  beyond its effect on the session (`uma`, `undone`).
* Drawing, wording and music, the tables of vendor and device names.
* `init_network`, `copy_file`, `make_directories`, the register reads of
  `kern/gc.c`, which only copy.
* The vendored AES, CMAC and SHA-256.

## Plan

Done, in this order: `Cmd56` with `CardAuth`, `BackupDevice`, `GcSession`,
`NetBackup`, their invariants, refinement and proofs; then `Sfo`, `Ime`,
`GcIdent`, `Menus` and `AppLaunch`; then the proofs of all their safety
properties. Next:

1. `GcSession` as an implementation of `CardAuth` too: the keys the kernel holds
   at any time are those of a card in the slot during the last authentication.
   `CardAuth` then needs a step for `k_clear_secret`, and its `seen` to be empty
   between runs.
2. The receiver's accept loop without the assumption on `sleep(1)`, and a run for
   the unmounted `uma0:`.
