# A verification of NeoDCT OS

NeoDCT OS is a feature-phone operating system: one Python process draws on the
framebuffer, reads the keypad and runs the apps, under a minimal Linux that
buildroot makes from a configuration. This directory holds TLA+ models of the
two parts whose logic is hard to test by hand, the phone's user interface and
the configuration system of the build, the TLC runs that check them on small
instances, and TLAPS proofs for every value of their constants. Paths of the
phone are relative to `src/neodct/overlay/NeoDCT/`, those of the build to
`src/buildroot/support/kconfig/`; the manifest `PROJECT.json` maps each
definition to the lines it models.

Every run is `tlc -workers 2 -config X.cfg M` and every proof `tlapm M.tla`, in
this directory.

## The system

### The phone

One thread runs everything the user sees. A screen is a *blocking loop*: a
`show()` method, or a function of an app, that reads keys until it returns.
Screens call each other, and the call stack says where the user is. Beside that
thread there are only the user (whose presses the kernel of Linux queues for
the open keypad device), the power switch, children the apps start (mpv, a
shell, a browser), and programs a developer runs from a shell on the same
databases.

| Component | State | Operations | Hard about it | Modelled in |
|---|---|---|---|---|
| Keypad (`read_keypress`, `wait_for_key`) | events the process has not read | press, read, drain | presses outlive the screen they were meant for | `Keypad` |
| Kernel (`System/core/main.py`) | `state`, `dial_buffer`, apps, layout | main loop, `handle_input`, menu, app launch | which key reaches which screen; what is shown against what is acted on; nothing catches exceptions | `PhoneUI` |
| App menu (`AppSelector`) | `selected_index` | drain, move, select, back | empty menu | `PhoneUI` |
| Call screen, modem stub | the call placed | dial, drain, draw, hang up | dial and hang-up are in different functions | `PhoneUI` |
| Alpha notice (`ErrorScreen`, `MessageDialog`) | acknowledgement file | show once, write | best-effort write, restarts | `PhoneUI` |
| List widget (`VerticalList`) | highlight, window | move, shortcut, select, back, show again | boundaries of the window; reuse of the object | `VerticalList`, `ListChoice` |
| Contacts (`init_databases`, PhoneBook app, `show_contact_selector`) | SQLite table, rows fetched, row picked | create, seed, search, add, edit, erase | rows acted on long after they were read; failing statements; power cuts; the tool | `PhoneBook`, `ContactStore` |
| Contact seeding tool | names it has read | truncate, read, download, insert | runs beside the phone, reads and writes in separate transactions | `PhoneBook` |
| Games (Snake) | snake, directions, food, score | steer, move, eat, die, restart | turns between two moves; full board | `Snake` |
| MusicPlayer | child process, paused flag | play, pause, stop, poll | a child that ends when it likes; signals; pids | `MusicPlayer` |
| Messages | inbox and outbox tables, text being written | list, read, erase, write, save | rows held over screens; two tables behind one screen; failing statements | `Messages`, `Mailbox` |
| SMS seeding tool | | insert | runs beside the phone | `Messages` |
| Long text editor (`TextInputLong`) | text, cursor, clear timers | type, erase, clear, leave | a counter against two times | `LongText`, `Draft` |
| TextInput, PagedList | text; page | type, erase; page, select | | left out: one step that returns a text, or an item |
| LinuxShell, WebBrowser launchers | visible console, child | switch, run, switch back | keys seen by both sides; failed switches | left out |
| Launcher, crash handler, inittab | exit code, console | start, crash to a shell | no respawn | `PhoneUI` (its effect) |
| Browser prototype (`../tests/neodct-browser`) | page, popup, menu, history | keys, asynchronous answers, timers | events out of order | left out |
| Mouse shim, spam filter prototype | | | | left out |
| Drawing, fonts, wallpaper, layout | pixels | | | left out |
| Placeholder apps (Clock, Calculator ...) | | dialog until a key | | left out: the kernel sees them as an app that reads keys and returns |

Interactions: the kernel opens the notice, the menu, the contact list and the
call screen by function call; the menu leads to an app's `run(ui)`, which gets
the kernel object and reads the same keypad through it; PhoneBook, the kernel's
contact list and the tool meet in the table `contacts`; Messages, its tool and
`init_databases` meet in the two SMS tables; MusicPlayer, LinuxShell and
WebBrowser own a child process each.

### The build's configuration

What is in the image, which C library and which packages with which options, is
a *configuration*: a value for each of some thousand symbols that `Config.in`
files declare, with types, prompts, defaults, conditions, choices, ranges and
symbols that select others. The programs of `support/kconfig` read those files
into a tree of menu entries, read `.config`, calculate the values that follow
from it, let the user change them, and write `.config` again and the files the
build reads.

| Component | State | Operations | Hard about it | Modelled in |
|---|---|---|---|---|
| Expressions (`expr.c`) | | evaluate, simplify, compare, print | three values, rules that hold for two; trees rewritten in place | `KOperand`, `KExpr`, `Conditions` |
| Menu tree (`menu.c`, actions of `zconf.y`) | entries, properties | add, finalize, visible? | conditions spread and entries move; both by comparing expressions | `KMenu` |
| Symbols (`symbol.c`) | values, flags, cache | calculate, set, clear | a cache over a graph; choices; cycles | `KSymbol` |
| Files (`confdata.c`) | change count, WRITE flags | read, write, minimal file, auto.conf, set all | reader and writers have to agree; replacement of files under crashes | `KConfData`, `ConfFiles` |
| conf (`conf.c`) | the recursion, `conf_cnt` | its modes | questions that appear while others are asked | `KFront`, `KSession` |
| menuconfig, nconfig (`mconf.c`, `nconf.c`) | open menus, file name | show, keys, load, save, exit | what is listed, where; what is asked before leaving | `KFront`, `KMenuconf` |
| gconfig (`gconf.c`) | rows of two trees | click, edit, switch views | rows patched to follow values | `KGconf` |
| lxdialog (`lxdialog/*.c`) | scroll, cursor, lines on the terminal | keys, resize | each key repaints only what it thinks has changed | `Menubox`, `Checklist`, `Inputbox`, `Textbox`, `Dialogs` |
| The build (`Makefile`, external) | objects | build | decides by times of files | `ConfFiles` |
| qconfig, lexer, helper programs | | | | left out |

Interactions: all front ends call the same setters of `symbol.c` and the same
`conf_read()`/`conf_write()`; everything they show is calculated on demand, so
looking changes the cache. The front ends meet each other, `make` and the build
only through files.

## The modules

### The phone

**`Keypad`** is the queue of presses with Press (the user) and TakeKey (a read).
Each pending press carries a history bit: *fresh* if it was pressed after the
`show()` of the open screen was entered. No code reads the bit; it lets a
property say "a key meant for this screen".

**`PhoneUI`** extends it. `at` is the loop the thread is in: `update` and `read`
are the two halves of the main loop, `menu_flush`/`menu` the menu before and
after its drain loop, and so on. Each branch of `handle_input`, and of each
screen's key loop, is an action. `shown` is the number on the framebuffer,
`requested` what the modem was told to dial and not yet told to hang up. An
uncaught exception is `Crash`: the process is gone (the crash handler leaves a
developer shell, and `inittab` starts the launcher once), until `Restart`.
`Restart` may happen in any state. Only the acknowledgement file outlives it.
App code is three actions (it reads, returns or raises): what apps do is in
modules of their own. Damage the code handles is an input: a missing home
layout, an empty app directory, a database that cannot be read, an
acknowledgement that cannot be written.

**`VerticalList`** is one widget with its window; **`ListChoice`** says what its
callers rely on (a cursor that moves by one, a result that is an existing item
or Back), and the window is not part of it. `PhoneUI` uses the widget's
behaviour as `ListMove`, `ListShortcut` and so on.

**`PhoneBook`** has one action per SQL statement, so the tool, a power cut or a
failing statement can come between any two. `at` is the screen; `listed` holds
the rows as fetched, `target` the id picked from them, `typed` the text of the
form's first field; a form that is left forgets them. `seq` is SQLite's
AUTOINCREMENT counter. Text entry is one step that returns a text, possibly
empty, or nothing. **`ContactStore`** is what the table means to its user:
identities are never reused, and the only contact the phone changes or erases is
the one the user chose, as it was shown.

**`LongText`** is the editor `TextInputLong`. The code compares the wall clock with
the times of the last C and of the first C of a series; the model keeps the two
differences and lets them grow as far as the comparisons can tell. `streak` and
`span` are history: the user's own series of presses. It implements **`Draft`**:
characters come and go at the end, or the whole text goes.

**`Messages`** follows the shape of `PhoneBook`: one action per SQL statement and
per screen, `inbox` and `outbox` from id to text, `listed` the rows fetched,
`target` the one open. Its write screen edits `draft` with the operations of
`Draft`. It implements **`Mailbox`**: a save files the text on the screen, Erase
takes the open message from its own folder and nothing else, and a text is lost
only when the phone goes down (a failing Save takes the process down, and that
counts).

**`Snake`**: one action per key read and one per outcome of a move (die, eat,
crawl). Time is abstract: any number of keys may be read between two moves,
which includes every real timing.

**`MusicPlayer`**: `process` says what each pid is; a child that ended keeps its
pid until it is waited for, and then the pid may be given to somebody else.
`stop()` is Terminate, then Waited or WaitTimeout. SIGTERM has no effect on a
stopped child. Popen reaps what earlier Popen objects left (CPython does so).

### The build's configuration

**`KOperand`** has the operands of `expr.c`, symbols and comparisons: their values, and
the rules that replace two of them, or a negation, by one. **`KExpr`** translates the
rest of `expr.c` as pure operators over trees, one per function.
Symbols are names, values 0, 1, 2, strings model strings with the order and the
numbers the C library gives them. A recursive procedure of `expr.c` is a recursive
function over `Expr`, the trees that nest up to `MaxOperands` + 1 deep, so that it can
be reasoned about. `expr_eq`, `expr_eliminate_eq` and `__expr_eliminate_eq` call each
other and are one function, `Result`, of their calls. `expr_eliminate_dups1` rewrites two
places of one tree while it walks through it with two pointers: it is a function of
the tree and of the numbers of the two operands (`Pass`), and the operands of a level
are counted from left to right, as the C code meets them (`Level`, `WithOperand`).
A tristate is not compared with a number for equality in `Expr` (see below).

**`Conditions`** takes a condition on its way through `menu_finalize()`, one
assignment of the loop a step. `Meaning` says what a condition as written is worth:
m counts only with modules.

**`KMenu`** has what the statements of a `Config.in` file add to the tree and
what `menu_finalize()` makes of it; **`KSymbol`** the calculation of values and
the setters. `S` is the memory of the program, a record of functions of the
symbols; an operator that changes it returns the new one. In the C code to look
at a value calculates and caches it; here each operator that looks returns the
memory it leaves, in the order in which the code looks. **`KConfData`** adds files
(sequences of lines `[sym, val]`), **`KFront`** what the front ends make of the
tree.

**`KSession`** is the disk and conf: a program starts, reads, asks question after
question, writes and ends; `todo` is what its recursion has left to do.
**`KGconf`** adds the window and its rows, **`KMenuconf`** the menus of mconf and
nconf; its `Next` lets any of them run after any other on the files that were
left.

**`Menubox`**, **`Checklist`**, **`Inputbox`** and **`Textbox`** are the boxes of lxdialog:
one action per key, and what is printed on the terminal is a variable of its own
that keys change only where the code repaints. **`MenuCursor`** is what a caller of
`dialog_menu()` relies on: a cursor on one of its items, and an answer about that
item. **`Dialogs`** composes the boxes with the loops of `mconf.c` that open them
from one another, over the variables that are static in C.

**`ConfFiles`** is the same `conf_write()` and `conf_write_autoconf()` seen from the
disk: one action per system call, `End` may kill the process between any two, and
`make` and the build read what is left. Values are model values there.

The `MC*` modules give the constants the values a cfg cannot write. Operators named
`Action_Fault` are variants of an action with a plausible bug; no specification
uses them. They show that each checked property would notice such a bug.

## The runs

| Run | Question | Bounds |
|---|---|---|
| `phone_ui` | does the kernel stay consistent under any keys, restarts and crashes, and does C always leave a screen? | 7 keys: each role (Enter, C, Up, Down), two digits and an unknown key; 2 pending presses (one stale, one fresh); up to 2 apps and contacts (0, 1 and several); 2 digits on a line (erasing to empty and to non-empty) |
| `contact_list_calls` | is a contact chosen from home called? (no: a finding) | as above |
| `vertical_list` | highlight, window and results | 7 items, 3 lines as in the code; all keys of `show()` and digits that name no item |
| `phone_book_tool` | currency of the picked row, seeding, contacts that vanish, refinement | 2 names, 1 number, the empty text, 3 ids, a tool that adds 1; enough for an id to be deleted and others issued while it is held |
| `snake` | reversal, path, score, food | a 3 x 4 board: the smallest with room to turn around and to fill up completely |
| `long_text` | where are texts edited, and when is one cleared? | 2 letters, 6 characters, 4 repeats, a gap of 2 and a duration of 4: the two conditions for a clear are independent, as with the code's 8, 0.18 s and 0.8 s |
| `messages` | is what is open stored? refinement of `Mailbox` | 2 characters, texts up to 2, 3 ids per folder, a tool that adds 1; enough to erase from the middle and to have equal ids in both folders |
| `music_player` | child, pause flag, signals, end of song | 3 pids: a song, the zombie before it, a foreign process |
| `kconfig_expr` | does rewriting keep what a condition means? | all conditions of up to three operands over a tristate, a bool, a number and MODULES, with and without modules, under 5 parents: 104,400 states; two operands are what each rule of `expr.c` looks at, the third gives it a neighbour; `MaxOperands` is 8, more than the six that such a condition has with its parent when each m has become two |
| `kconfig_session` | are values, files, questions, lists and rows right over any two programs in a row? | six Kconfig files, one per part of the language: modules with select, imply and nesting; a choice whose values depend on a later symbol; a tristate choice; numbers, ranges and texts; an optional choice; a cycle. Two programs (one writes, another reads), two keys in menus, two or three clicks; 107,870 states. One `.config` has a number out of its range, with a symbol without prompt that is computed from it, and a remark comes into sight where a menu goes, so that the exceptions of `CachedValueIsFresh` and `RowsAreTrue` (below) occur: without them TLC refutes both |
| `dialogs` | does the terminal show what the keys act on? | lists of up to 4 items on terminals of 14, 16 and 17 lines (too small, 2 items, 3 items), a radio list of 2 lines for two options and a comment, a field of 3 cells for 4 characters, texts of 10 and 11 lines, one menu over another; 2.6 million states |
| `conf_files` | what is on the disk when a process is killed? | 2 symbols of 3 values (n, y, not written); any number of saves, builds and kills |

`kconfig_session` gives each Kconfig file the programs that say something about it
(`MCModes`): without modules allmodconfig sets what allyesconfig sets, the window
needs no more than a choice, a menu and texts, and in the largest files
oldaskconfig and randconfig, or nconf, whose keys are those of mconf, are left out.
`kconfig_expr`, `dialogs` and the processes they model end, so a last state is no
deadlock there (`CHECK_DEADLOCK FALSE`).

The bounds live in constants (`MaxQueue`, `MaxDial`, `MaxApps`, `MaxContacts`,
`MaxId`, `MaxText`, `MaxOperands`, `MaxPrograms`, `MaxKeys`, `MaxClicks`, `MaxDepth`, `MaxLen`, `MaxScroll`) and in the guards that use them (`Press`, `PressKey`, `OpenContacts`,
`Load`, `Insert`, `Save`, `ToolSeeds`, `TypeLetter`, `Edit`, `Start`, `Counted`, `Click`, `ConfSubmenu`). `MaxId` and `MaxText`
stop insertions and typing, never another action; `MaxLen` is the code's own limit.
The proofs hold for every value of these.

### Properties

`PhoneUI`: `CallBelongsToScreen`, `OnlyFreshKeys`, `NoticeComesFirst` (invariants),
`DialsWhatIsShown` (action property), `BackLeavesScreen` (liveness).
`VerticalList`: `SelectionVisible`, `ImplementsChoice` (refinement). `PhoneBook`:
`PickedIsCurrent`, `BookHasAContact`, `NobodyVanishes` (action property),
`ImplementsStore` (refinement). `Snake`: `NeckIsSafe`, `BodyIsPath`,
`FoodInTheOpen`. `LongText`: `ClearsOnlyWhenHeld` (action property),
`ImplementsDraft` (refinement). `Messages`: `OpenIsStored`, `ImplementsMailbox`
(refinement). `MusicPlayer`: `SilentOutsideNowPlaying`, `SignalsOwnChild`,
`PauseIsTrue` and `EndLeavesScreen` (liveness). Type invariants and a few smaller
invariants (`LineMatchesState`, `CursorOnItem`, `NoBlankLines`, `CapitalStartsText`)
are proved and not run.

`Conditions`: `MeaningIsKept` (after each rewriting the condition has the value it had,
or, where the code only asks for n or not n, is n as before), `CoveredNeedsIt` (an
entry goes under another only if it cannot be visible without it), `PrintedReadsBack`.
`CoveredNeedsIt` holds where the comparisons the test is made with *tell* (`IsTold`): what
is negated is not m. Without that TLC refutes it, see *What the checks met*.

`KMenuconf`: `CachedValueIsFresh` (a value marked valid is what a calculation from
nothing gives, unless it depends on a number that `conf_read` has dropped), `ReloadIsQuiet` and `MinimalIsEnough` (the two written files bring
back what was saved), `OneChosen`, `NothingLeftToAsk`, `EveryQuestionIsShown`,
`RowsAreTrue`, `TouchedIsChanged` (action property: what is rebuilt is what changed)
and `Ends` (liveness: no conf goes round for ever).

`Dialogs`: `ScreenShowsTheItems`, `FieldShowsTheText`, `EdgesAreKnown` (the text box
knows when it shows the first or the last line) and `ImplementsCursor` (refinement
of `MenuCursor`). `ConfFiles`: `AConfigIsKept`, `UpToDateIsTrue`.

`NobodyVanishes` speaks of the phone's own steps: with the tool beside the phone a
truncation removes the row under an open form, and the phone then says "Updated!";
the sources promise nothing for that case. `CallBelongsToScreen` speaks of a live
process: when the home layout is missing the call screen raises after the call was
placed. `CachedValueIsFresh`, `ReloadIsQuiet` and `MinimalIsEnough` are stated for
choices that are bool and not optional, all that this build system has; what happens
with the others is among the points below. `ScreenShowsTheItems` holds for a menu
until its terminal is resized.

Three properties have exceptions because the code has them; each is as narrow as it
could be made, and is kept in a history variable that no action reads.
`conf_read` drops a number that is out of its range and clears only that symbol
(`confdata.c:461`). `CachedValueIsFresh` therefore allows old values to the symbols
that depend on it, directly or not (`Outdated`, from the history `dropped`), until
values are next cleared, and to no other. A `.config` written in between, from a
changed configuration, is not one `ReloadIsQuiet` and `MinimalIsEnough` speak of
(`Writer`). `RowsAreTrue` says of gconf's first view that every visible entry has a row
in its place that shows its value, except: in a menu whose last row the last update
removed (`cut`), entries behind the remaining rows may be missing (`gconf.c:1290`,
`gconf.c:1316`); after a save of an unchanged configuration that calculated outdated values anew
(`behind`) the rows are those of before, until the next update; and after a file was
loaded on top of the rows (`loaded`) nothing is said.

### Fairness

`PhoneUI` assumes weak fairness of the kernel's own steps together: the thread
polls the keypad with a timeout everywhere, waits for no other thread, and so
always takes a next step. Nothing is assumed of the user, the power switch or an
app (which may loop for ever: no property says an app returns).
`BackLeavesScreen` asks that a press of C is *pending*, and a pending press is
what the loop must consume. `MusicPlayer` assumes the same of the steps of the
Now Playing screen that wait for no key: its read times out after a second and
its wait after 0.2. Keys, children and the system get no fairness. `KMenuconf`
assumes that a conf which is not waiting for its user goes on: the program is
sequential and never waits for anything else; of the user it is assumed that a
question is answered in the end. Nothing is assumed of who starts programs or
presses keys in menus and windows. The other modules state no liveness and no
fairness.

### Finding

*The contact list of the home screen ends the process* (`System/core/main.py:388`):
`show_contact_selector` returns the pair (contact, index) and `handle_input` takes
element 2 of the pair. Its other callers unpack it. (`contact_list_calls`)

### What the checks met

Behaviour that writing and checking the models brought up. No run stands for these:
they are outside the properties' conditions, or no source promises otherwise.

The phone:

- The seeding tool can add a name that is in the table: it reads the names, then
  downloads for up to 15 seconds, then inserts
  (`System/tools/debug_phonebook_createrandomcontacts.py:166`, docstring line 7);
  with `--truncate` and no network it leaves an empty phone book, and a contact
  named by a blank makes it raise.
- "5" does not restart Snake: code 5 is the 4 key (`System/apps/Games/main.py:179`
  against the comment above it), and a turn to the left read after the snake died
  restarts at once.
- `VerticalList.show` does not drain the keypad; an exception on Now Playing leaves the
  song playing; no message is ever marked read; messages of one second have no order.

Symbols and files:

- A value out of its range makes only its own symbol invalid (`confdata.c:461`):
  dependents keep values calculated before, which olddefconfig writes. conf_write clears
  them only if nothing has changed (`confdata.c:789`), so that in gconf two saves in a row
  write different files, the second one right, and the window shows what the first wrote.
  Hence `Outdated` and `Writer`.
- `sym_calc_choice` (`symbol.c:304`) forgets that the user has set an optional choice
  when one of its values has no value of the user; a bool value of a tristate choice
  keeps its WRITE flag when it is no longer visible. Hence `PlainChoices`.
- `conf_read` resets the change count before it finds the file missing
  (`confdata.c:413`): after a Load that failed, Exit does not ask and edits are lost.
- When the last rename of `conf_write` fails the WRITE flags are gone already: a second
  try writes a file without a symbol (`Hollow` in `ConfFiles`). `fprintf` and `fclose`
  are not checked, so with a full disk a file that was cut off replaces `.config`.
- Save and Load under another name change the name that Exit saves to.
- A tristate is compared with a number by value, so `T = 2` is true for y; the rule for
  `a = b && a != c` goes by the names of the constants (`expr.c:533`), and takes
  `T = 2 && T != y` for `T = 2`. Hence `Comparings`.
- The test for submenus takes conditions for supersets that are none (`menu.c:475`): both
  conditions are first rewritten into comparisons with n, and `!A` becomes `A=n`
  (`expr.c:907`), although `!A` is m when A is. So an entry that depends on `!(T || B)` is
  put under B, which depends on `T=n`, although with T=m it is visible and B's condition
  is n; the comment promises 'a "superset" of sym's dependencies' (`menu.c:464`). Hence `IsTold`.
- Setting a hidden item with show_all marks it as the user's; cycles of `imply` are not
  looked for; the comment at `expr.c:561` gives another result than the code.

Front ends:

- `conf_string` of conf asks for ever when the default is out of its range and Enter is
  pressed, or at the end of its input. nconf ends even if its file could not be written;
  its search writes before its buffer when an empty pattern is erased. mconf's
  `child_count` is never reset, so a menu whose entries have gone is still listed.
- A radio list needs 21 lines of terminal, mconf starts with 19: between the two a choice
  cannot be opened, and nothing says so. With 8 lines or fewer `conf_string` calls its box
  again and again; below 10 the question whether to save cannot be shown and edits are
  dropped.
- `dialog_menu` after a resize: when the scroll position saved by its caller no longer
  fits, `first_item` keeps an old value (`menubox.c:251`), so that lines may show other
  items than keys act on; the highlighted button and the one that is active may differ.
- The text box goes back by the height of the dialog, not of the page, on a resize; in a
  text without a final newline Up does nothing at the end.
- gconf: when the last row of a level goes, `update_tree` returns before rows that appeared
  are added, until the next update (`gconf.c:1290`); a file that is loaded adds its rows to
  those there; a change made by loading is not asked about at the end; a click on a text
  toggles it first; an edit in a view of one menu inserts the rows of the whole tree.

## The proofs

| Module | Proves | Inductive invariant |
|---|---|---|
| `PhoneUIProofs` | its invariants and `DialsWhatIsShown`, over lemmas on the queue of `Keypad` | the invariants together, plus `BootIsIdle` (during boot the line is empty and no call is up), `ScreenState` (which call states each screen runs in), `LineIsShown` (while a key is read the framebuffer shows the line), `MenuStartsAtTop`, and `NoticeIsBehind` (a notice has been dismissed before the next screen loads) |
| `FrameworkProofs`, of `VerticalList` | `ListTypeOK`, `SelectionVisible`, `NoBlankLines`, refinement of `ListChoice` | the three together: `NoBlankLines` after Down needs that the window moves only when the highlight passes its last line |
| `FrameworkProofs`, of `LongText` | `TypeOK`, `CapitalStartsText`, `ClearsOnlyWhenHeld`, refinement of `Draft` | plus `SeriesIsCounted`: while a series of C is not broken, the code's counter and start time are the user's; a letter drops the start time, which is what makes a later tap harmless |
| `PhoneBookProofs` | `TypeOK`, `PickedIsCurrent`, `BookHasAContact`, `NobodyVanishes`, refinement of `ContactStore` | `PickedIsCurrent` is not inductive: the row is *chosen* from `listed`, so `ListedIsCurrent` extends it to every listed row while the list, or a screen of the picked row, is open; that needs that ids are never reissued (`IsRows`). `BookHasAContact` is inductive as it stands |
| `SnakeProofs` | `TypeOK`, `NeckIsSafe`, `BodyIsPath`, `FoodInTheOpen` | plus `HeadFollows`: in play the head is one step of `direction` from the second piece, which is why comparing a turn with `direction`, and not with `next_direction`, is right |
| `MessagesProofs` | `TypeOK`, `OpenIsStored`, refinement of `Mailbox` | `OpenIsStored` is about the chosen row, so `ListedIsStored` says it of all listed rows, and `NothingListed` that no rows survive outside the loop that fetched them |
| `MusicPlayerProofs` | `TypeOK`, `SilentOutsideNowPlaying`, `SignalsOwnChild`, `PauseIsTrue` | plus `OneChild` (only the child held is playing or stopped) and `StartsPlaying` |
| `KconfigProofs`, of `ConfFiles` | `ConfTypeOK`, `AConfigIsKept`, `UpToDateIsTrue` | neither property is inductive. `ConfigIsWhole` says that `.config` itself is never cut off, and missing only while `.config.old` is whole; it needs `MarksInTime` (the symbols have their WRITE marks when a file is written, so that what is renamed is a configuration). `UpToDateIsTrue` needs `SyncInOrder` (which of its files conf has finished at each place of its program), `BuiltIsAuto` (an object that is not touched was made from the `auto.conf` that stands, whatever has been killed since) and `InPlaceIsNewer` (a `.config` that is being written in place is newer than `auto.conf`) |
| `KconfigProofs`, of `KOperand` | the rules keep the value: joining two operands about one symbol, negating a comparison or a constant, replacing a comparison of a bool, absorbing y and n | no state: each rule is taken apart into its cases, over `ComparedByName` (a tristate symbol equals a constant when its value has that name, whatever `strcmp()` and `strtoll()` make of the two). A constant that is a number is excluded: see above |
| of `KExpr` | each procedure computes what it should, for all normal forms: `expr_transform` and `expr_eliminate_dups` keep the value, `expr_eq` is sound, `expr_eliminate_eq` tells how two expressions compare, `expr_trans_bool` keeps which are n, `rewrite_m` the meaning | no state: see *Recursion* below |
| of `Conditions` | `MeaningIsKept`, `CoveredNeedsIt` | `CondInv`: what `dep` is at each step. `MeaningIsKept` speaks of the values in `Assignments` and only of the value; the steps also need that `dep` is a normal form within the bound (`expr_eliminate_dups` does nothing good to others), that its value is right for *all* values symbols may have (two operands are joined because they agree on all), and after `rewrite_m` that it is that very expression |
| `DialogsProofs`, of `Menubox` | `HighlightInside`, `LinesShowTheItems`, refinement of `MenuCursor` | both together (`MenuInv`): a key that repaints two lines is right only because all the others were, and because the line it leaves is on the window; the window is a function of the items, `scroll` and `choice`, and scrolling shifts it by one |
| of `Checklist` | `OptionsShown` | plus that the window is inside the options and the highlight in the window, which is what a line scrolled off loses (`ListInv`) |
| of `Inputbox` | `FieldShowsTheText` | plus that the text fits the buffer; the argument is in the cells: a key prints from `show_x` to the end of the text and one blank, so the other cells have to be blank already (`FieldInv`) |
| of `Textbox` | `EdgesAreKnown` | `TextInv`: what is shown is a page, printed from `top` with the pointer behind it, whose flags are true. A flag alone is not inductive, since the keys compute the next page from the pointer and from `page_length`, not from `top` |
| of `Dialogs` | `ScreenShowsTheItems`, `FieldShowsTheText`, `EdgesAreKnown`, refinement of `MenuCursor`, for menuconfig as a whole | `DialogsInv`: a box has its initial values unless its screen is open, and what `conf()` has suspended names menus and entries of the tree. With it every behaviour of menuconfig is one of each box (`EveryBox`): a box is only called when it has returned, with a list of entries (`ListedTyped`), a text that fits, or a height that leaves it lines |

Each box of lxdialog has a specification of its own (`MenuSpec`, `ListSpec`, `FieldSpec`,
`TextSpec`: any caller, any arguments), which is what its own theorem is about;
`Dialogs` restricts the arguments to those `mconf.c` passes. No run checks these
specifications, since their inputs are unbounded; `dialogs` runs the same actions.

*Recursion.* A recursive definition `f[x \in S] == ...` says CHOOSE, so nothing follows from
it until it is known that there is such a function. `Recursion` (a lemma of
`KconfigProofs`) gives one: with a measure of the arguments, and a set of right answers
for each, a body that answers rightly, and in one way only, wherever the calls of
smaller measure are answered rightly, has a fixed point with right answers. It is proved from the library's theorem
that Nat is well-founded, with sets in place of predicates. The measures are the height of a tree
(`expr_calc_value`, `expr_transform`: the tree that De Morgan's rule makes is called on
again, so a negation weighs less than a level), the number of operands (`expr_eliminate_dups`: a
pass that changed something left fewer), a weight of the two expressions
(`CallMeasure`, for the three procedures that call each other), and for a pass over a level
the pair of its size and of what is left to do (`PassMeasure`). The right answer contains more
than the value: of `__expr_eliminate_eq`, that what is left of both together with what
was taken out of both gives them back (`Shared`); of a pass, that the tree has the same value
*and* that it absorbs to fewer operands if it was changed (`Simplifies`).
`CoveredNeedsIt` then follows in three steps: the comparisons ask what they should
(`AsksMeans`), their simplification keeps the value, and if `expr_eliminate_eq` leaves
y of one, it is covered (`Follows`).

Assumptions are the modules' named ASSUMEs only: key codes are numbers, bounds
are naturals, a list has an item (a menu may be empty), a Snake board has a column and three rows,
the empty text is no name; different strings have different places in the order of
`strcmp()`, and y, m and n are constants and no numbers; MODULES is a symbol, a parent's condition is a normal form
(it has been through the same loop), conditions have no more operands than `MaxOperands`,
which may be any number, and symbols have the values a calculation gives them (`IsCalculation`: a bool is not m, y is y); a configuration is not one of the marks for a file that is
missing or cut off; a radio list has a line, a field two cells (the code's are 6 and
`width - 6`), typed characters are characters; the frame of a text takes 4 lines
or more; the tree's menus consist of entries, submenus and jump targets are menus of
the tree, and the terminal has 10 lines or more, enough for the field, the question and a line
of text (below that the loops of `mconf.c` behave as said above). TLC
evaluates them on every run. Each proof has a step per
action. Refinement proofs show that the initial state maps to an initial state
and every step to a step or a stutter of the abstract module.

Model-checked only: the three liveness properties, which are out of the prover's
reach; `PrintedReadsBack`, which relates a tree to the sequence of its tokens through a
grammar: `Reading` is a recursion over all sequences of strings, and its answer depends on the
tokens that come after those it reads; that it is defined at all on what is printed needs a
measure and an invariant of its own for each of the five rules of the grammar; and the whole of `KMenu`, `KSymbol`,
`KConfData` and what extends them, with the properties of `KMenuconf`.
These are recursive over graphs, not trees (a calculation asks for the values of other
symbols and changes the memory while it goes round), and most of them are written
with RECURSIVE operators, with which the prover has no arithmetic.

## Not modelled

Drawing, fonts and layout (except the number shown); text wrapping; contents of
names and numbers; which of two equal names is listed first; releases and
auto-repeats of keys; the three menu entries of PhoneBook that do nothing;
sender, time stamp, order and `is_read` of a message; a wall clock that is set
back while C is held; elapsed time in MusicPlayer; retired code
(`Development/Icebox`, `main.py.old`).

LinuxShell and WebBrowser start a program and wait for it, and the placeholder apps
show a dialog: `PhoneUI` has what the kernel sees of them. The browser prototype
lies under `tests` and is not in the image; its engine is a library.

Of kconfig: the lexer and the macros of strings and environment variables; help texts
and searches; warnings; the layout of files (headings, comments, quoting); qconf, whose
rows the toolkit's classes keep; `nconf.gui.c` and the colours of lxdialog;
`single_menu_mode`; KCONFIG_NOSILENTUPDATE; two programs at once on the same files
(their temporary names are fixed, so they do disturb each other); a full disk; renames
across file systems. Of buildroot, which is third-party code, no more than this: the
packages are data, and the rest is make rules.

## Plan

Done: `Keypad`, `PhoneUI`, `VerticalList` over `ListChoice`, `PhoneBook` over
`ContactStore`, `Snake`, `MusicPlayer`, `LongText` over `Draft`, `Messages` over
`Mailbox`, `Menubox` over `MenuCursor`, `Checklist`, `Inputbox`, `Textbox`, `Dialogs` and
`ConfFiles`, `KOperand`, `KExpr` and `Conditions`, with proofs; `KMenu`,
`KSymbol`, `KConfData`, `KFront`, `KSession`, `KGconf` and `KMenuconf`, model-checked.

Next, in this order:

1. `Console`: launcher, crash handler, LinuxShell and WebBrowser: who owns the
   visible console and the keypad, and how it comes back.
2. A composition of `PhoneUI` with `VerticalList`, and of `Messages` with `LongText`
   in place of `Draft`.
3. The boxes of nconfig, and two programs at once on the files of `ConfFiles`.
