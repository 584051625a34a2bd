---------------------------------- MODULE MCUi ----------------------------------
(* SDCARD trees for the file browser.  Names are numbers, sorted as        *)
(* compare_string_insensitive sorts them.                                  *)
EXTENDS Ui

\* /1/ holds 3 (matching) and 4 (not); the root holds 2 (matching) and 5
\* (not): every directory the browser enters lists an entry.
BrowseTree ==
  (<<1>> :> "dir") @@ (<<1, 3>> :> "file") @@ (<<1, 4>> :> "file")
    @@ (<<2>> :> "file") @@ (<<5>> :> "file")
BrowseMatching == {2, 3}

\* /1/2/ holds only a file the filter rejects: /1/ is listed because it has
\* a subdirectory, but /1/2/ is not, so /1/ lists nothing.
EmptyTree ==
  (<<1>> :> "dir") @@ (<<1, 2>> :> "dir") @@ (<<1, 2, 3>> :> "file")
EmptyMatching == {}

Keys == {"VOLUMEUP", "VOLUMEDOWN", "BACK", "HOME", "MENU", "POWER"}
AllCommands == {"restore_device", "convert", "format"}
=============================================================================
