------------------------------- MODULE MCPages -------------------------------
(***************************************************************************)
(* Instances of the pages for migration images, settings, aliases and      *)
(* tokens, and of the modal dialogs, for TLC.  A tab shows one page at a   *)
(* time: mounted says which one a behaviour is about, so that the pages    *)
(* are explored side by side and their states add up rather than multiply. *)
(* Two of the modules are explored in two parts, each of which leaves      *)
(* something out that the other one has.                                   *)
(***************************************************************************)
EXTENDS MigrationLibrary, SettingsPage, RecordPage, ModalStack

CONSTANTS a, b

VARIABLE mounted

\* Every filter lets every file through.
MCMatches == [f \in Filters |-> Paths]

\* Numbers of the texts of the number field; the last one is out of range.
MCNumber == [r \in Raws |-> CASE r = "1" -> 1 [] r = "2" -> 2 [] OTHER -> 0]

ASSUME InstancesAreLegal ==
    SettingsAssumption /\ RecordAssumption /\ ModalAssumption

tabVars == <<mounted, libraryVars, settingsVars, recordVars, modalVars>>

\* Two files under one filter, a refresh only while there is at most one of
\* them; or one file under two filters, without requests the page has lost.
FolderInit == LibraryInit /\ filter = "all"
FolderNext == UNCHANGED filter /\ LibraryNext /\ (refresh' = NoRefresh \/ disk' \subseteq {a})
FiltersInit == LibraryInit /\ disk \subseteq {a}
FiltersNext ==
    /\ UNCHANGED abandoned /\ LibraryNext
    /\ disk' \subseteq {a} /\ (scanFor' = "nobody" => scan' = NoData)

\* The forms for the settings, or those for the account.
SettingsOnlyInit == SettingsInit /\ session = "admin"
SettingsOnlyNext == UNCHANGED <<profile, passwords>> /\ SettingsNext
AccountInit == SettingsInit /\ stored = [visibility |-> "public", level |-> 0]
AccountNext == UNCHANGED <<stored, settings, draft>> /\ SettingsNext

\* What is not mounted has one state and keeps it.
TabInit ==
    /\ mounted \in {"folder", "filters", "settings", "account", "records", "modals"}
    /\ IF mounted = "filters" THEN FiltersInit ELSE FolderInit
    /\ IF mounted = "account" THEN AccountInit ELSE SettingsOnlyInit
    /\ RecordInit
    /\ ModalInit
    /\ mounted \in {"folder", "filters"} \/ disk = {}
    /\ mounted \in {"settings", "account"} \/ stored = [visibility |-> "public", level |-> 0]
    /\ mounted = "records" \/ kind = "alias"

TabNext ==
    \/ /\ mounted = "folder" /\ FolderNext
       /\ UNCHANGED <<mounted, settingsVars, recordVars, modalVars>>
    \/ /\ mounted = "filters" /\ FiltersNext
       /\ UNCHANGED <<mounted, settingsVars, recordVars, modalVars>>
    \/ /\ mounted = "settings" /\ SettingsOnlyNext
       /\ UNCHANGED <<mounted, libraryVars, recordVars, modalVars>>
    \/ /\ mounted = "account" /\ AccountNext
       /\ UNCHANGED <<mounted, libraryVars, recordVars, modalVars>>
    \/ /\ mounted = "records" /\ RecordNext
       /\ UNCHANGED <<mounted, libraryVars, settingsVars, modalVars>>
    \/ /\ mounted = "modals" /\ ModalNext
       /\ UNCHANGED <<mounted, libraryVars, settingsVars, recordVars>>

TabSpec == TabInit /\ [][TabNext]_tabVars
=============================================================================
