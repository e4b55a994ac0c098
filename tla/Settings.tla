------------------------------ MODULE Settings ------------------------------
(***************************************************************************)
(* The settings of the web application: one record in localStorage         *)
(* (apps/web/src/lib/storage.ts) with two writers that do not know of each *)
(* other.  App.svelte keeps its own copy, loaded when the page is, and     *)
(* stores all of it whenever a part of it changes; the settings dialog and *)
(* setTheme() change the stored record in place.                           *)
(*                                                                         *)
(* Of the fields that belong to App.svelte only `active` is told apart;    *)
(* baudRate and protocol are handled alike.  One log category.             *)
(***************************************************************************)
EXTENDS Naturals

CONSTANTS Nothing      \* `undefined`: no record, or no level of a category

Themes  == {"light", "dark", "system"}
Levels  == {"info", "debug"}
Logging == [level : Levels, category : Levels \cup {Nothing}]
Configs == [active : BOOLEAN, theme : Themes, logging : Logging]

ASSUME NothingAssumption == Nothing \notin Configs \cup Levels

DefaultConfig == [active  |-> FALSE, theme |-> "system",
                  logging |-> [level |-> "info", category |-> Nothing]]

VARIABLES
  works,      \* the browser stores what it is given
  stored,     \* the record in localStorage
  config,     \* the `config` of App.svelte
  dialog,     \* the theme and logging the dialog shows, and is it open
  html,       \* the theme of the page: "light" or "dark"
  os,         \* what the operating system prefers
  logger,     \* the configuration of the logger
  picked,     \* history: what the user last chose, or found after a reload
  behind      \* history: App.svelte stored its copy after a choice

settings == <<works, stored, config, dialog, html, os, logger, picked, behind>>

SettingsTypeOK ==
  /\ works \in BOOLEAN
  /\ stored \in Configs \cup {Nothing}
  /\ config \in Configs
  /\ dialog \in [open : BOOLEAN, theme : Themes, logging : Logging]
  /\ html \in {"light", "dark"} /\ os \in {"light", "dark"}
  /\ logger \in Logging
  /\ picked \in [theme : Themes, logging : Logging]
  /\ behind \in BOOLEAN
  /\ works <=> stored # Nothing

-----------------------------------------------------------------------------
Loaded == IF stored = Nothing THEN DefaultConfig ELSE stored

Save(record) == stored' = IF works THEN record ELSE stored

Painted(theme, preference) == IF theme = "system" THEN preference ELSE theme

\* The page is loaded: the theme and the logger are applied (main.ts), then
\* App.svelte loads its copy, and its effect stores it.
SettingsInit ==
  /\ works \in BOOLEAN
  /\ config = DefaultConfig
  /\ stored = IF works THEN DefaultConfig ELSE Nothing
  /\ dialog = [open |-> FALSE, theme |-> "system", logging |-> config.logging]
  /\ os \in {"light", "dark"}
  /\ html = os
  /\ logger = config.logging
  /\ picked = [theme |-> config.theme, logging |-> config.logging]
  /\ behind = FALSE

ReloadPage ==
  /\ config' = Loaded
  /\ Save(Loaded)
  /\ dialog' = [open |-> FALSE, theme |-> "system", logging |-> DefaultConfig.logging]
  /\ html' = Painted(Loaded.theme, os)
  /\ logger' = Loaded.logging
  /\ picked' = [theme |-> Loaded.theme, logging |-> Loaded.logging]
  /\ behind' = FALSE
  /\ UNCHANGED <<works, os>>

\* The effect stores the whole copy.
ChangeConfig ==
  /\ config' = [config EXCEPT !.active = ~@]
  /\ Save(config')
  /\ behind' = (behind \/ picked # [theme |-> config.theme, logging |-> config.logging])
  /\ UNCHANGED <<works, dialog, html, os, logger, picked>>

\* Each opening reads the store anew.
OpenDialog ==
  /\ ~dialog.open
  /\ dialog' = [open |-> TRUE, theme |-> Loaded.theme, logging |-> Loaded.logging]
  /\ UNCHANGED <<works, stored, config, html, os, logger, picked, behind>>

CloseDialog ==
  /\ dialog.open
  /\ dialog' = [dialog EXCEPT !.open = FALSE]
  /\ UNCHANGED <<works, stored, config, html, os, logger, picked, behind>>

WithTheme(theme) == [Loaded EXCEPT !.theme = theme]

PickTheme(theme) ==
  /\ dialog.open
  /\ dialog' = [dialog EXCEPT !.theme = theme]
  /\ Save(WithTheme(theme))
  /\ html' = Painted(theme, os)
  /\ picked' = [picked EXCEPT !.theme = theme]
  /\ UNCHANGED <<works, config, os, logger, behind>>

WithLogging(next) == [Loaded EXCEPT !.logging = next]

\* setLevel() and setCategory(): a change of what the dialog shows.
PickLogging(next) ==
  /\ dialog.open
  /\ \/ next.category = dialog.logging.category
     \/ next.level = dialog.logging.level
  /\ dialog' = [dialog EXCEPT !.logging = next]
  /\ Save(WithLogging(next))
  /\ logger' = next
  /\ picked' = [picked EXCEPT !.logging = next]
  /\ UNCHANGED <<works, config, html, os, behind>>

\* A bug: the page follows the system whatever was chosen.
Always(theme) == "system"

Followed(theme) == theme

\* The watcher repaints only if "system" is stored.
PreferenceChanges(preference) ==
  /\ os' = preference
  /\ html' = IF Followed(Loaded.theme) = "system" THEN preference ELSE html
  /\ UNCHANGED <<works, stored, config, dialog, logger, picked, behind>>

SettingsNext ==
  \/ ReloadPage
  \/ ChangeConfig
  \/ OpenDialog \/ CloseDialog
  \/ \E theme \in Themes : PickTheme(theme)
  \/ \E next \in Logging : PickLogging(next)
  \/ \E preference \in {"light", "dark"} : PreferenceChanges(preference)

SettingsSpec == SettingsInit /\ [][SettingsNext]_settings

-----------------------------------------------------------------------------
(***************************************************************************)
(* Properties.                                                             *)
(***************************************************************************)

\* The dialog does not undo the switch: what it writes agrees with App.svelte
\* on the fields it does not show (SettingsDialog.svelte:67-75,
\* settings-theme.ts:77-88).
DialogKeepsTheRest == works => stored.active = config.active

\* What was chosen in the dialog is stored, shown by the dialog and on the
\* screen, also after the system's preference has changed, as long as
\* App.svelte has not stored its older copy over it.
ChoicesHold ==
  /\ DialogKeepsTheRest
  /\ (works /\ ~behind) =>
       /\ stored.theme = picked.theme /\ stored.logging = picked.logging
       /\ html = Painted(picked.theme, os)
       /\ logger = picked.logging
       /\ dialog.open => dialog.theme = picked.theme /\ dialog.logging = picked.logging

\* "so the change paints + persists immediately" (SettingsDialog.svelte:5-6): a
\* theme that was chosen is the one that is stored.
ChosenThemeIsStored == works => stored.theme = picked.theme

=============================================================================
