------------------------------ MODULE Settings ------------------------------
(***************************************************************************)
(* The theme in settings.json: the picker of the top bar (app.rs), the     *)
(* SetTheme command, a task of its own that loads, changes and saves the   *)
(* file (worker.rs), and the load before the window opens (theme.rs).      *)
(*                                                                         *)
(* A save replaces the file as a whole (AtomicFile).  Tasks have no await: *)
(* once it has begun a task runs to its end, but two run beside each other *)
(* on the two threads of the runtime.                                      *)
(***************************************************************************)
EXTENDS Naturals

CONSTANTS
    Themes, DefaultTheme,
    Unset,        \* no file, an empty one, or one without a theme
    Garbage,      \* a file that does not parse, or cannot be read
    Found,        \* bound: what the first start may find in the file
    MaxPicks      \* bound: themes picked altogether

ASSUME ThemesAssumption ==
    /\ DefaultTheme \in Themes /\ Unset \notin Themes /\ Garbage \notin Themes
    /\ Found \subseteq Themes \cup {Unset, Garbage}
    /\ MaxPicks \in Nat

Picks == 1..MaxPicks

VARIABLES
    shown,     \* the active theme
    file,      \* what settings.json says of the theme
    save,      \* the SetTheme tasks: [at, id]
    picks,
    unsaved    \* history: the file may lack the theme shown, and why is known

settings == <<shown, file, save, picks, unsaved>>

NoSave == [at |-> "none", id |-> DefaultTheme]

SettingsTypeOK ==
    /\ shown \in Themes /\ file \in Themes \cup {Unset, Garbage}
    /\ save \in [Picks -> [at : {"none", "load", "save", "done"}, id : Themes]]
    /\ picks \in 0..MaxPicks /\ unsaved \in BOOLEAN

\* theme_from_settings of load_settings.
ThemeOf(content) == IF content \in Themes THEN content ELSE DefaultTheme

SettingsInit ==
    /\ file \in Found /\ shown = ThemeOf(file)
    /\ save = [k \in Picks |-> NoSave] /\ picks = 0 /\ unsaved = FALSE

\* The command bus may be full: then nothing will save the theme.
PickTheme(id) ==
    /\ picks < MaxPicks /\ id # shown
    /\ shown' = id /\ picks' = picks + 1
    /\ \/ save' = [save EXCEPT ![picks'] = [at |-> "load", id |-> id]] /\ UNCHANGED unsaved
       \/ save' = save /\ unsaved' = TRUE
    /\ UNCHANGED file

\* A file that does not load is left as it is, and the user is told.
LoadSettings(k) ==
    /\ save[k].at = "load"
    /\ IF file = Garbage
         THEN save' = [save EXCEPT ![k].at = "done"] /\ unsaved' = TRUE
         ELSE save' = [save EXCEPT ![k].at = "save"] /\ UNCHANGED unsaved
    /\ UNCHANGED <<shown, file, picks>>

\* What was the matter before is over once the last choice is saved; a save
\* that comes after that of a later choice puts an old theme back.
Overtaken(k) == \E j \in Picks : j > k /\ save[j].at = "done"
Excuse(k) == (unsaved /\ k # picks) \/ Overtaken(k)

\* Slip: what is saved is what was loaded.
SaveLoaded(k) ==
    /\ save[k].at = "save"
    /\ save' = [save EXCEPT ![k].at = "done"]
    /\ unsaved' = Excuse(k)
    /\ UNCHANGED <<shown, file, picks>>

SaveSettings(k) ==
    /\ save[k].at = "save"
    /\ file' = save[k].id
    /\ save' = [save EXCEPT ![k].at = "done"]
    /\ unsaved' = Excuse(k)
    /\ UNCHANGED <<shown, picks>>

SaveFails(k) ==
    /\ save[k].at = "save"
    /\ save' = [save EXCEPT ![k].at = "done"] /\ unsaved' = TRUE
    /\ UNCHANGED <<shown, file, picks>>

SettingsNext ==
    \/ \E id \in Themes : PickTheme(id)
    \/ \E k \in Picks : LoadSettings(k) \/ SaveSettings(k) \/ SaveFails(k)

\* What a shutdown leaves: a task that had not begun never does.
CanAbortSaves == \A k \in Picks : save[k].at # "save"
AbortSaves ==
    /\ CanAbortSaves
    /\ save' = [k \in Picks |-> [save[k] EXCEPT !.at = IF @ = "load" THEN "done" ELSE @]]
    /\ unsaved' = (unsaved \/ \E k \in Picks : save[k].at = "load")
    /\ UNCHANGED <<shown, file, picks>>

LoadTheme ==
    /\ shown' = ThemeOf(file) /\ unsaved' = FALSE
    /\ UNCHANGED <<file, save, picks>>

-----------------------------------------------------------------------------
(* Properties.                                                             *)

\* The theme on the screen is the one that the next start will load, once
\* every choice has been saved: also if several tasks saved at once, unless
\* a later choice was saved before an earlier one, or the last one was lost
\* on a full bus, at the end of the program, or to a file that does not load
\* or save.
ThemeIsKept ==
    (\A k \in Picks : save[k].at \in {"none", "done"}) => shown = ThemeOf(file) \/ unsaved
=============================================================================
