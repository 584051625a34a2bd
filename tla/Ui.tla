---------------------------------- MODULE Ui ----------------------------------
(***************************************************************************)
(* The recovery user interface of ui.c and the threads that share it.      *)
(*                                                                         *)
(* Three threads run:                                                      *)
(*  - the main thread, which runs menus (navigate_menu and the file       *)
(*    browser navigate_menu_browse) and commands that drive the progress  *)
(*    bar (ui_show_progress, ui_set_progress from the codec callbacks,    *)
(*    ui_show_indeterminate_progress, ui_reset_progress);                 *)
(*  - progress_thread, which moves a timed progress scope forward;         *)
(*  - input_thread, which appends key presses to key_queue and signals    *)
(*    key_queue_cond.                                                      *)
(* Every ui.c function that touches shared state does so under one mutex  *)
(* (gUpdateMutex for the progress bar and menu, key_queue_mutex for the   *)
(* key queue), so each such critical section is one atomic action.  The   *)
(* pthread_cond_wait of ui_wait_key is the main thread's "asleep" state:  *)
(* a signal wakes it, and a spurious wakeup is an action of its own.      *)
(*                                                                         *)
(* Progress fractions are integers in units of 1/Den; the SD card is a    *)
(* tree of paths (sequences of names) to "dir" or "file".                 *)
(***************************************************************************)
EXTENDS Integers, Sequences, SequencesExt, FiniteSets

CONSTANTS
  KeyCodes,      \* the key codes input_thread may report (I500KEY_...)
  QueueMax,      \* sizeof(key_queue)/sizeof(key_queue[0]): 256, scaled down
  MaxPresses,    \* bound on the key presses of a behaviour
  TextRows,      \* text_rows: the rows of the text screen
  NHeaders,      \* lines of the menu headers (alloc_standard_header)
  Tree,          \* the SDCARD tree: [paths -> {"dir", "file"}]
  Matching,      \* the names the browse filter matches (fnmatch)
  Den,           \* progress fractions are multiples of 1/Den
  Width,         \* gr_get_width of the progress bar image, in pixels
  Dur,           \* seconds of the timed scope ui_show_progress(1.0, 100)
  MaxTime,       \* bound on the clock time(NULL)
  Commands,      \* the progress-driving commands the main thread may run
  MaxRounds      \* bound on the menus and commands the main thread runs

ASSUME Den % Dur = 0   \* 1.0 * elapsed / duration is a multiple of 1/Den

VARIABLES
  \* progress bar state of ui.c, guarded by gUpdateMutex
  ptype,         \* gProgressBarType: "none", "indeterminate" or "normal"
  pstart,        \* gProgressScopeStart
  psize,         \* gProgressScopeSize
  prog,          \* gProgress
  ptime,         \* gProgressScopeTime
  pdur,          \* gProgressScopeDuration
  now,           \* time(NULL)
  \* key queue of ui.c, guarded by key_queue_mutex
  queue,         \* key_queue[0 .. key_queue_len - 1]
  pressed,       \* history: every key-down input_thread has read
  taken,         \* history: every key ui_wait_key has returned
  \* the main thread
  mpc,           \* "top", "menu", "asleep", "navigated", "cmd", "codec", "crashed"
  frames,        \* the roots of the active navigate_menu_browse calls
  sel,           \* navigate_menu's selected
  menuItems,     \* menu_items of ui_start_menu
  nav,           \* navigate_menu's nav
  filename,      \* the browse output buffer (<<>> after its memset)
  result,        \* what the last navigate_menu_browse returned
  script,        \* the progress calls of the running command
  step,          \* index of the next call of script
  clast,         \* the last fraction the running codec reported
  rounds         \* menus and commands run so far

progressVars == <<ptype, pstart, psize, prog, ptime, pdur>>
keyVars == <<queue, pressed, taken>>
mainVars == <<mpc, frames, sel, menuItems, nav, filename, result, script,
              step, clast, rounds>>
vars == <<progressVars, now, keyVars, mainVars>>

-----------------------------------------------------------------------------
(* The progress bar.                                                       *)

\* The pixel column draw_progress_locked fills up to:
\* (int)((gProgressScopeStart + gProgress * gProgressScopeSize) * width).
Pos == IF ptype = "normal"
         THEN ((pstart * Den + prog * psize) * Width) \div (Den * Den)
         ELSE 0

\* (int)(fraction * scale) with scale = width * gProgressScopeSize.
Visible(f) == (f * Width * psize) \div (Den * Den)

\* ui_show_progress(portion, seconds).
ui_show_progress(portion, seconds) ==
  /\ ptype' = "normal"
  /\ pstart' = pstart + psize
  /\ psize' = portion
  /\ ptime' = now
  /\ pdur' = seconds
  /\ prog' = 0

\* Mutant: the forward check fraction > gProgress left out.
ui_set_progress_any(f) ==
  LET fr == IF f < 0 THEN 0 ELSE IF f > Den THEN Den ELSE f
  IN  /\ IF ptype = "normal" /\ Visible(prog) # Visible(fr)
           THEN prog' = fr
           ELSE UNCHANGED prog
      /\ UNCHANGED <<ptype, pstart, psize, ptime, pdur>>

\* ui_set_progress(fraction): clamp, then move forward only if the bar
\* shows the difference.
ui_set_progress(f) ==
  LET fr == IF f < 0 THEN 0 ELSE IF f > Den THEN Den ELSE f
  IN  /\ IF ptype = "normal" /\ fr > prog /\ Visible(prog) # Visible(fr)
           THEN prog' = fr
           ELSE UNCHANGED prog
      /\ UNCHANGED <<ptype, pstart, psize, ptime, pdur>>

\* ui_show_indeterminate_progress.
ui_show_indeterminate_progress ==
  /\ ptype' = "indeterminate"
  /\ UNCHANGED <<pstart, psize, prog, ptime, pdur>>

\* Mutant: the scope size is not reset.
ui_reset_progress_keep_size ==
  /\ ptype' = "none"
  /\ pstart' = 0 /\ psize' = psize
  /\ ptime' = 0 /\ pdur' = 0
  /\ prog' = 0

\* ui_reset_progress.
ui_reset_progress ==
  /\ ptype' = "none"
  /\ pstart' = 0 /\ psize' = 0
  /\ ptime' = 0 /\ pdur' = 0
  /\ prog' = 0

\* One pass of progress_thread's loop that moves a timed scope forward:
\* progress = min(1.0 * elapsed / duration, 1.0), kept if above gProgress.
\* (The indeterminate redraw only draws.)
ProgressThread ==
  LET elapsed == now - ptime
      p == (elapsed * Den) \div pdur
      timed == IF p > Den THEN Den ELSE p
  IN  /\ ptype = "normal" /\ pdur > 0
      /\ timed > prog
      /\ prog' = timed
      /\ UNCHANGED <<ptype, pstart, psize, ptime, pdur, now, keyVars, mainVars>>

\* A second of time(NULL) passes.
Tick ==
  /\ now < MaxTime
  /\ now' = now + 1
  /\ UNCHANGED <<progressVars, keyVars, mainVars>>

-----------------------------------------------------------------------------
(* The key queue.                                                          *)

\* Mutant: the key is queued without pthread_cond_signal.
InputKeyNoSignal(k) ==
  /\ Len(pressed) < MaxPresses
  /\ pressed' = Append(pressed, k)
  /\ IF Len(queue) < QueueMax
       THEN queue' = Append(queue, k)
       ELSE UNCHANGED queue
  /\ UNCHANGED <<progressVars, now, taken, mpc, frames, sel, menuItems, nav,
                 filename, result, script, step, clast, rounds>>

\* input_thread: a key-down of code k is read; under key_queue_mutex it is
\* appended if the queue has room, and key_queue_cond is signalled.
InputKey(k) ==
  /\ Len(pressed) < MaxPresses
  /\ pressed' = Append(pressed, k)
  /\ IF Len(queue) < QueueMax
       THEN /\ queue' = Append(queue, k)
            /\ mpc' = IF mpc = "asleep" THEN "menu" ELSE mpc
       ELSE UNCHANGED <<queue, mpc>>
  /\ UNCHANGED <<progressVars, now, taken, frames, sel, menuItems, nav,
                 filename, result, script, step, clast, rounds>>

\* Mutant: key_queue_len is decremented but the entries are not shifted.
PopFrontNoShift(q) == [i \in 1 .. Len(q) - 1 |-> q[i]]

\* ui_wait_key's memcpy(&key_queue[0], &key_queue[1], ...): the copy runs
\* from the front, so each entry is read before it is overwritten.
PopFront(q) == [i \in 1 .. Len(q) - 1 |-> q[i + 1]]

\* pthread_cond_wait returns without a signal.
SpuriousWake ==
  /\ mpc = "asleep"
  /\ mpc' = "menu"
  /\ UNCHANGED <<progressVars, now, keyVars, frames, sel, menuItems, nav,
                 filename, result, script, step, clast, rounds>>

\* ui_clear_key_queue.
ui_clear_key_queue == queue' = <<>>

-----------------------------------------------------------------------------
(* Menus.                                                                  *)

\* device_handle_key(key_code, visible) of default_recovery_ui.c; the text
\* is always visible (main calls ui_show_text(1), and the display toggle
\* device_toggle_display never fires).
device_handle_key(k) ==
  CASE k = "VOLUMEDOWN" -> "HIGHLIGHT_DOWN"
    [] k = "VOLUMEUP"   -> "HIGHLIGHT_UP"
    [] k = "BACK"       -> "SELECT_ITEM"
    [] k = "HOME"       -> "SELECT_HOME"
    [] k = "MENU"       -> "SELECT_BACK"
    [] OTHER            -> "NO_ACTION"

\* The navigation codes navigate_menu returns for the selecting actions.
NavOf == [SELECT_ITEM |-> "SELECT", SELECT_BACK |-> "BACK",
          SELECT_HOME |-> "HOME"]

\* ui_start_menu: the headers take the first rows (at most text_rows),
\* the items the rows left; menu_items counts the items shown.
MenuRows(items) ==
  LET top == IF NHeaders < TextRows THEN NHeaders ELSE TextRows
  IN  IF Len(items) < TextRows - top THEN Len(items) ELSE TextRows - top

\* ui_menu_select(sel): clamp below at 0, then above at menu_items - 1.
ui_menu_select(s) ==
  LET low == IF s < 0 THEN 0 ELSE s
  IN  IF low >= menuItems THEN menuItems - 1 ELSE low

\* navigate_menu entry: ui_clear_key_queue, ui_start_menu(headers, items, 0).
navigate_menu(items) ==
  /\ ui_clear_key_queue
  /\ menuItems' = MenuRows(items)
  /\ sel' = 0
  /\ nav' = "none"
  /\ mpc' = "menu"

\* ui_wait_key finds key_queue empty and waits on key_queue_cond.
WaitKeySleep ==
  /\ mpc = "menu" /\ queue = <<>>
  /\ mpc' = "asleep"
  /\ UNCHANGED <<progressVars, now, keyVars, frames, sel, menuItems, nav,
                 filename, result, script, step, clast, rounds>>

\* navigate_menu's switch on the action of one key.
HandleAction(a) ==
  \/ /\ a = "HIGHLIGHT_UP"
     /\ sel' = ui_menu_select(sel - 1)
     /\ UNCHANGED <<nav, mpc>>
  \/ /\ a = "HIGHLIGHT_DOWN"
     /\ sel' = ui_menu_select(sel + 1)
     /\ UNCHANGED <<nav, mpc>>
  \/ /\ a = "NO_ACTION"
     /\ UNCHANGED <<sel, nav, mpc>>
  \/ /\ a \in DOMAIN NavOf
     /\ nav' = NavOf[a]
     /\ mpc' = "navigated"
     /\ UNCHANGED sel

\* One pass of navigate_menu's loop: ui_wait_key takes the head of the
\* queue, which device_handle_key translates and the switch handles.
TakeKey ==
  /\ mpc = "menu" /\ queue # <<>>
  /\ queue' = PopFront(queue)
  /\ taken' = Append(taken, Head(queue))
  /\ HandleAction(device_handle_key(Head(queue)))
  /\ UNCHANGED <<progressVars, now, pressed, frames, menuItems, filename,
                 result, script, step, clast, rounds>>

-----------------------------------------------------------------------------
(* The file browser navigate_menu_browse.                                  *)

Children(p) == {q \in DOMAIN Tree : Len(q) = Len(p) + 1
                                    /\ SubSeq(q, 1, Len(p)) = p}
Name(q) == q[Len(q)]
IsDir(q) == Tree[q] = "dir"
ByName(a, b) == Name(a) < Name(b)

\* browse_include_subdirectory: the directory holds a subdirectory or a
\* regular file the filter matches.
browse_include_subdirectory(p) ==
  \E c \in Children(p) : IsDir(c) \/ Name(c) \in Matching

\* The directories and the matching regular files readdir lists.
BrowseDirs(p) == {c \in Children(p) : IsDir(c) /\ browse_include_subdirectory(c)}
\* Mutant: every regular file listed, the fnmatch filter left out.
BrowseFilesAll(p) == {c \in Children(p) : ~IsDir(c)}
BrowseFiles(p) == {c \in Children(p) : ~IsDir(c) /\ Name(c) \in Matching}

\* dirs after qsort, with the sorted files appended.
Listing(p) == SetToSortSeq(BrowseDirs(p), ByName)
                \o SetToSortSeq(BrowseFiles(p), ByName)

\* A navigate_menu_browse call returns to the caller of the outermost one.
BrowseReturn(r) ==
  /\ result' = r
  /\ frames' = <<>>
  /\ mpc' = "top"

\* The main thread opens the browser on the SDCARD root: memset of
\* filename, the listing, then navigate_menu.
BrowseStart ==
  /\ mpc = "top" /\ rounds < MaxRounds
  /\ rounds' = rounds + 1
  /\ frames' = << <<>> >>
  /\ filename' = <<>>
  /\ result' = "none"
  /\ navigate_menu(Listing(<<>>))
  /\ UNCHANGED <<progressVars, now, pressed, taken, script, step, clast>>

\* SELECT: selected = dirs[selection] and strlen(selected).  An index
\* outside the listing reads NULL (dirs[len]) or before the array
\* (dirs[-1]), and the process dies.
BrowseSelect ==
  /\ mpc = "navigated" /\ nav = "SELECT"
  /\ LET L == Listing(Last(frames))
     IN  IF sel < 0 \/ sel >= Len(L)
           THEN /\ mpc' = "crashed"
                /\ UNCHANGED <<keyVars, frames, sel, menuItems, nav, filename, result>>
           ELSE LET e == L[sel + 1]
                IN  IF IsDir(e)
                      THEN /\ frames' = Append(frames, e)
                           /\ filename' = <<>>
                           /\ navigate_menu(Listing(e))
                           /\ UNCHANGED <<pressed, taken, result>>
                      ELSE /\ filename' = e
                           /\ BrowseReturn("SELECT")
                           /\ UNCHANGED <<keyVars, sel, menuItems, nav>>
  /\ UNCHANGED <<progressVars, now, script, step, clast, rounds>>

\* BACK breaks the loop of the current call; the caller, seeing BACK,
\* runs its own menu again, and the outermost call returns BACK.
BrowseBack ==
  /\ mpc = "navigated" /\ nav = "BACK"
  /\ IF Len(frames) > 1
       THEN /\ frames' = Front(frames)
            /\ navigate_menu(Listing(Last(Front(frames))))
            /\ UNCHANGED <<pressed, taken, filename, result>>
       ELSE /\ BrowseReturn("BACK")
            /\ UNCHANGED <<keyVars, sel, menuItems, nav, filename>>
  /\ UNCHANGED <<progressVars, now, script, step, clast, rounds>>

\* HOME (and NAVIGATE_ERROR, which has the same value) ends every call.
BrowseHome ==
  /\ mpc = "navigated" /\ nav = "HOME"
  /\ BrowseReturn("HOME")
  /\ UNCHANGED <<progressVars, now, keyVars, sel, menuItems, nav, filename,
                 script, step, clast, rounds>>

-----------------------------------------------------------------------------
(* Commands that drive the progress bar, as the sequences of ui.c calls   *)
(* commands.c and menu-mainmenu.c make.  A codec call (backup/restore of  *)
(* an image) reports increasing fractions through UI_SETPROGRESS, then    *)
(* succeeds or fails; a failure jumps to the call at index onfail.        *)

ShowCall(p, secs) == [op |-> "show", p |-> p, secs |-> secs, onfail |-> 0]
CodecCall(onfail) == [op |-> "codec", p |-> 0, secs |-> 0, onfail |-> onfail]
IndetCall == [op |-> "indet", p |-> 0, secs |-> 0, onfail |-> 0]
ResetCall == [op |-> "reset", p |-> 0, secs |-> 0, onfail |-> 0]

Scripts ==
  [volume         |-> <<ShowCall(Den, 0), CodecCall(3), ResetCall>>,
   restore_device |-> <<ShowCall(Den, Dur), CodecCall(3), ResetCall>>,
   convert        |-> <<ShowCall(Den \div 2, 0), CodecCall(5),
                        ShowCall(Den \div 2, 0), CodecCall(5), ResetCall>>,
   format         |-> <<IndetCall, ResetCall>>]

Call == script[step]

\* The main thread starts a command from its menu.
CommandStart(c) ==
  /\ mpc = "top" /\ rounds < MaxRounds
  /\ rounds' = rounds + 1
  /\ script' = Scripts[c]
  /\ step' = 1
  /\ mpc' = "cmd"
  /\ UNCHANGED <<progressVars, now, keyVars, frames, sel, menuItems, nav,
                 filename, result, clast>>

CallShow ==
  /\ mpc = "cmd" /\ Call.op = "show"
  /\ ui_show_progress(Call.p, Call.secs)
  /\ step' = step + 1
  /\ UNCHANGED <<now, keyVars, mpc, frames, sel, menuItems, nav, filename,
                 result, script, clast, rounds>>

CallIndet ==
  /\ mpc = "cmd" /\ Call.op = "indet"
  /\ ui_show_indeterminate_progress
  /\ step' = step + 1
  /\ UNCHANGED <<now, keyVars, mpc, frames, sel, menuItems, nav, filename,
                 result, script, clast, rounds>>

CallCodec ==
  /\ mpc = "cmd" /\ Call.op = "codec"
  /\ mpc' = "codec"
  /\ clast' = 0
  /\ UNCHANGED <<progressVars, now, keyVars, frames, sel, menuItems, nav,
                 filename, result, script, step, rounds>>

\* UI_SETPROGRESS(percent): ui_set_progress(percent / 100).
CodecProgress ==
  /\ mpc = "codec"
  /\ \E f \in clast + 1 .. Den :
        /\ ui_set_progress(f)
        /\ clast' = f
  /\ UNCHANGED <<now, keyVars, mpc, frames, sel, menuItems, nav, filename,
                 result, script, step, rounds>>

CodecEnd ==
  /\ mpc = "codec"
  /\ \E ok \in BOOLEAN : step' = IF ok THEN step + 1 ELSE Call.onfail
  /\ mpc' = "cmd"
  /\ UNCHANGED <<progressVars, now, keyVars, frames, sel, menuItems, nav,
                 filename, result, script, clast, rounds>>

CallReset ==
  /\ mpc = "cmd" /\ Call.op = "reset"
  /\ ui_reset_progress
  /\ mpc' = "top"
  /\ script' = <<>>
  /\ step' = 0
  /\ UNCHANGED <<now, keyVars, frames, sel, menuItems, nav, filename,
                 result, clast, rounds>>

-----------------------------------------------------------------------------
(* The specification.                                                      *)

Init ==
  /\ ptype = "none" /\ pstart = 0 /\ psize = 0 /\ prog = 0
  /\ ptime = 0 /\ pdur = 0 /\ now = 0
  /\ queue = <<>> /\ pressed = <<>> /\ taken = <<>>
  /\ mpc = "top" /\ frames = <<>> /\ sel = 0 /\ menuItems = 0
  /\ nav = "none" /\ filename = <<>> /\ result = "none"
  /\ script = <<>> /\ step = 0 /\ clast = 0 /\ rounds = 0

\* The steps of the main thread.
MainStep ==
  \/ WaitKeySleep \/ TakeKey
  \/ BrowseStart \/ BrowseSelect \/ BrowseBack \/ BrowseHome
  \/ \E c \in Commands : CommandStart(c)
  \/ CallShow \/ CallIndet \/ CallCodec \/ CodecProgress \/ CodecEnd
  \/ CallReset

Next ==
  \/ MainStep
  \/ ProgressThread
  \/ \E k \in KeyCodes : InputKey(k)
  \/ SpuriousWake
  \/ Tick

\* The scheduler runs every runnable thread: the main thread and
\* progress_thread (which wakes every 1/PROGRESSBAR_INDETERMINATE_FPS s).
\* Neither the user's key presses nor spurious wakeups are assumed.
Spec == Init /\ [][Next]_vars /\ WF_vars(MainStep) /\ WF_vars(ProgressThread)

-----------------------------------------------------------------------------
(* Properties.                                                             *)

Paths == DOMAIN Tree \cup {<<>>}

\* s is t with some of its entries left out.
IsSubsequence(s, t) ==
  \E idx \in [1 .. Len(s) -> 1 .. Len(t)] :
    /\ \A i \in 1 .. Len(s) - 1 : idx[i] < idx[i + 1]
    /\ \A i \in 1 .. Len(s) : s[i] = t[idx[i]]

TypeOK ==
  /\ ptype \in {"none", "indeterminate", "normal"}
  /\ pstart \in 0 .. Den /\ psize \in 0 .. Den /\ prog \in 0 .. Den
  /\ ptime \in 0 .. MaxTime /\ pdur \in 0 .. Dur /\ now \in 0 .. MaxTime
  /\ queue \in Seq(KeyCodes) /\ Len(queue) <= QueueMax
  /\ pressed \in Seq(KeyCodes) /\ taken \in Seq(KeyCodes)
  /\ mpc \in {"top", "menu", "asleep", "navigated", "cmd", "codec", "crashed"}
  /\ frames \in Seq(Paths)
  /\ sel \in -1 .. TextRows /\ menuItems \in 0 .. TextRows
  /\ nav \in {"none", "SELECT", "BACK", "HOME"}
  /\ filename \in Paths
  /\ result \in {"none", "SELECT", "BACK", "HOME"}
  /\ step \in 0 .. 5 /\ clast \in 0 .. Den /\ rounds \in 0 .. MaxRounds

\* The progress bar never moves back while it stays a normal bar: neither
\* progress_thread's timed updates racing the codec's ui_set_progress
\* calls, nor ui_show_progress opening the next scope, shrink the filled
\* part that draw_progress_locked draws.
ProgressNeverBacksUp ==
  [][ptype = "normal" /\ ptype' = "normal" => Pos' >= Pos]_vars

\* The keys navigate_menu receives, followed by those still queued, are
\* the keys input_thread read, in the order it read them: ui_wait_key's
\* in-place shift, key drops at a full queue and ui_clear_key_queue may
\* lose keys but never reorder or repeat one.
KeysInOrder == IsSubsequence(taken \o queue, pressed)

\* A key queued while navigate_menu waits in ui_wait_key is eventually
\* taken: input_thread's pthread_cond_signal wakes the waiting main thread.
KeyPressReachesMenu ==
  \A n \in 0 .. MaxPresses :
    (mpc \in {"menu", "asleep"} /\ queue # <<>> /\ Len(taken) = n)
      ~> Len(taken) > n

\* When navigate_menu_browse returns NAVIGATE_SELECT, filename names a
\* regular file the filter matches.
BrowseSelectsMatchingFile ==
  result = "SELECT" =>
    /\ filename \in DOMAIN Tree
    /\ ~IsDir(filename)
    /\ Name(filename) \in Matching

\* navigate_menu_browse never indexes its listing outside the entries:
\* SELECT on an empty listing reads dirs[0] = NULL, and a move on it
\* leaves selected at -1.
BrowseNeverCrashes == mpc # "crashed"
=============================================================================
