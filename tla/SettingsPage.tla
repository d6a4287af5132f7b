---------------------------- MODULE SettingsPage ----------------------------
(***************************************************************************)
(* The settings page of the web interface (web/src/features/settings/      *)
(* settings-page.tsx) with the two requests of the server that change the  *)
(* settings (internal/httpapi/settings_handlers.go), each an update and a  *)
(* read of all settings for the answer.                                    *)
(*                                                                         *)
(* The default visibility and the processing settings are saved            *)
(* independently, so their answers may cross.  One number, the PNG         *)
(* compression level, stands for the fields of the processing form; a      *)
(* profile is a value of its own.                                          *)
(***************************************************************************)
EXTENDS Integers, QueryCache

CONSTANTS
    Kinds,            \* the parts of the page used in an instance
    Visibilities, Profiles,
    Raws,             \* texts of the number field; "" is blank
    Number,           \* what JavaScript's Number makes of each of them
    MinLevel, MaxLevel

\* What an instance must satisfy.
SettingsAssumption ==
    /\ Kinds \subseteq {"visibility", "processing", "profile", "password"}
    /\ Number \in [Raws -> Int] /\ "" \in Raws
    /\ MinLevel \in Int /\ MaxLevel \in Int
    /\ \A n \in MinLevel..MaxLevel : \E r \in Raws \ {""} : Number[r] = n
    /\ NoData \notin Profiles

VARIABLES
    stored,     \* [visibility, level] in the database
    settings,   \* the query ['settings']
    draft,      \* processingDraft: the text of the number field, or NoData
    session,    \* the profile in the session the page was given
    account,    \* the profile on the server
    profile,    \* what the user typed into the profile form, or NoData
    passwords,  \* how much of the password form is filled in
    saving,     \* kind of request -> its state
    crossed     \* ghost: requests about the settings have overlapped, or an
                \* answer was lost, since the last fetch that started alone

settingsVars == <<stored, settings, draft, session, account, profile, passwords, saving, crossed>>
formVars == <<draft, session, profile, passwords>>

Levels == MinLevel..MaxLevel
Settings == [visibility : Visibilities, level : Levels]
Nothing == [state |-> "idle", value |-> NoData, answer |-> NoData]
Pending(k) == k \in Kinds /\ saving[k].state # "idle"
Quiet == ~Pending("visibility") /\ ~Pending("processing") /\ ~Fetching(settings)

\* numberValue: the number in range that was typed, if any; Number("") is 0.
numberValue(raw) == IF raw # "" /\ Number[raw] \in Levels THEN Number[raw] ELSE NoData

\* toProcessingDraft: the text of a saved number.
toProcessingDraft(value) == CHOOSE r \in Raws \ {""} : Number[r] = value.level

SettingsTypeOK ==
    /\ stored \in Settings
    /\ settings \in Queries(Settings)
    /\ draft = NoData \/ draft \in Raws
    /\ {session, account} \subseteq Profiles
    /\ profile \in Profiles \cup {NoData}
    /\ passwords \in {"empty", "invalid", "valid"}
    /\ \A k \in Kinds : saving[k].state \in {"idle", "sent", "updated", "answered", "failed", "refreshing"}
    /\ crossed \in BOOLEAN

SettingsInit ==
    /\ stored \in Settings
    /\ settings = Request(EmptyQuery)
    /\ draft = NoData
    /\ session \in Profiles /\ account = session
    /\ profile = NoData /\ passwords = "empty"
    /\ saving = [k \in Kinds |-> Nothing]
    /\ crossed = FALSE

-----------------------------------------------------------------------------
(* Loading and the forms.                                                  *)

\* BROKEN, for mutation: the draft follows the cached settings.
DraftAfterFollows(data) ==
    draft' = IF data = NoData THEN draft ELSE toProcessingDraft(data)

\* The effect on the cached settings: they fill the draft once.
DraftAfter(data) ==
    draft' = IF data # NoData /\ draft = NoData THEN toProcessingDraft(data) ELSE draft

ServeSettings ==
    /\ settings.fetch.state = "sent"
    /\ settings' = Answered(settings, stored)
    /\ UNCHANGED <<stored, account, formVars, saving, crossed>>

SettingsArrive ==
    /\ settings.fetch.state = "answered"
    /\ settings' = Applied(settings)
    /\ DraftAfter(settings'.data)
    /\ UNCHANGED <<stored, account, session, profile, passwords, saving, crossed>>

\* The fetch fails: what is shown may be older than the last fetch.
SettingsFail ==
    /\ Fetching(settings)
    /\ settings' = Failed(settings)
    /\ crossed' = TRUE
    /\ UNCHANGED <<stored, account, formVars, saving>>

\* The stale time is over and the window gets the focus.
Refocus ==
    /\ ~Fetching(settings)
    /\ settings' = Request(settings)
    /\ crossed' = ~Quiet
    /\ UNCHANGED <<stored, account, formVars, saving>>

EditDraft(raw) ==
    /\ "processing" \in Kinds /\ draft # NoData /\ raw # draft
    /\ draft' = raw
    /\ UNCHANGED <<stored, settings, account, session, profile, passwords, saving, crossed>>

EditProfile(p) ==
    /\ "profile" \in Kinds
    /\ profile' = p
    /\ UNCHANGED <<stored, settings, account, draft, session, passwords, saving, crossed>>

EditPasswords(fill) ==
    /\ "password" \in Kinds
    /\ passwords' = fill
    /\ UNCHANGED <<stored, settings, account, draft, session, profile, saving, crossed>>

-----------------------------------------------------------------------------
(* Saving.                                                                 *)

Submit(k, value) ==
    /\ k \in Kinds /\ ~Pending(k)
    /\ saving' = [saving EXCEPT ![k] = [Nothing EXCEPT !.state = "sent", !.value = value]]
    /\ UNCHANGED <<stored, settings, account, formVars>>

ChangeVisibility(v) ==
    /\ HasData(settings) /\ v # settings.data.visibility
    /\ Submit("visibility", v)
    /\ crossed' = (crossed \/ ~Quiet)

\* updateProcessing: nothing is sent while a field is not valid.
updateProcessing ==
    /\ draft # NoData /\ numberValue(draft) # NoData
    /\ Submit("processing", numberValue(draft))
    /\ crossed' = (crossed \/ ~Quiet)

\* updateProfile of a filled in form.
updateProfile ==
    /\ profile # NoData
    /\ Submit("profile", profile)
    /\ UNCHANGED crossed

changePassword ==
    /\ passwords = "valid"
    /\ Submit("password", passwords)
    /\ UNCHANGED crossed

\* The server updates what the request is about; the answer is read later.
ServeUpdate(k) ==
    /\ saving[k].state = "sent"
    /\ saving' = [saving EXCEPT ![k].state = IF k \in {"visibility", "processing"}
                                             THEN "updated" ELSE "answered"]
    /\ stored' = IF k = "visibility" THEN [stored EXCEPT !.visibility = saving[k].value]
                 ELSE IF k = "processing" THEN [stored EXCEPT !.level = saving[k].value]
                 ELSE stored
    /\ account' = IF k = "profile" THEN saving[k].value ELSE account
    /\ UNCHANGED <<settings, formVars, crossed>>

ServeRead(k) ==
    /\ saving[k].state = "updated"
    /\ saving' = [saving EXCEPT ![k].state = "answered", ![k].answer = stored]
    /\ UNCHANGED <<stored, settings, account, formVars, crossed>>

\* The request is refused before it changed anything.
ServeRefuse(k) ==
    /\ saving[k].state = "sent"
    /\ saving' = [saving EXCEPT ![k].state = "failed"]
    /\ UNCHANGED <<stored, settings, account, formVars, crossed>>

\* The change is made, but its answer cannot be read or gets lost.
AnswerLost(k) ==
    /\ saving[k].state \in {"updated", "answered"}
    /\ saving' = [saving EXCEPT ![k].state = "failed"]
    /\ crossed' = TRUE
    /\ UNCHANGED <<stored, settings, account, formVars>>

Settles(k) == saving' = [saving EXCEPT ![k] = Nothing]

SaveFails(k) ==
    /\ saving[k].state = "failed"
    /\ Settles(k)
    /\ UNCHANGED <<stored, settings, account, formVars, crossed>>

\* BROKEN, for mutation: the answer is not written to the cache.
VisibilitySavedForgotten ==
    /\ Pending("visibility") /\ saving["visibility"].state = "answered"
    /\ Settles("visibility")
    /\ UNCHANGED <<stored, settings, account, formVars, crossed>>

\* The answer is written to the cache; a fetch under way goes on.
VisibilitySaved ==
    /\ Pending("visibility") /\ saving["visibility"].state = "answered"
    /\ Settles("visibility")
    /\ settings' = WithData(settings, saving["visibility"].answer)
    /\ DraftAfter(settings'.data)
    /\ UNCHANGED <<stored, account, session, profile, passwords, crossed>>

\* The answer also replaces the draft.
ProcessingSaved ==
    /\ Pending("processing") /\ saving["processing"].state = "answered"
    /\ Settles("processing")
    /\ settings' = WithData(settings, saving["processing"].answer)
    /\ draft' = toProcessingDraft(saving["processing"].answer)
    /\ UNCHANGED <<stored, account, session, profile, passwords, crossed>>

PasswordChanged ==
    /\ Pending("password") /\ saving["password"].state = "answered"
    /\ Settles("password")
    /\ passwords' = "empty"
    /\ UNCHANGED <<stored, settings, account, draft, session, profile, crossed>>

\* The session is fetched again before the profile counts as saved.
ProfileSaved ==
    /\ Pending("profile") /\ saving["profile"].state = "answered"
    /\ saving' = [saving EXCEPT !["profile"].state = "refreshing"]
    /\ UNCHANGED <<stored, settings, account, formVars, crossed>>

\* The form's key is the profile of the session: another one makes a new form.
ProfileForm(p) == profile' = IF p # session THEN NoData ELSE profile

\* The session arrives, after a save or at any other time.
SessionArrives ==
    /\ session' = account
    /\ ProfileForm(account)
    /\ IF Pending("profile") /\ saving["profile"].state = "refreshing"
       THEN Settles("profile") ELSE UNCHANGED saving
    /\ UNCHANGED <<stored, settings, account, draft, passwords, crossed>>

-----------------------------------------------------------------------------
SettingsNext ==
    \/ ServeSettings
    \/ SettingsArrive
    \/ SettingsFail
    \/ Refocus
    \/ \E raw \in Raws : EditDraft(raw)
    \/ \E p \in Profiles : EditProfile(p)
    \/ \E fill \in {"empty", "invalid", "valid"} : EditPasswords(fill)
    \/ \E v \in Visibilities : ChangeVisibility(v)
    \/ updateProcessing
    \/ updateProfile
    \/ changePassword
    \/ \E k \in Kinds : ServeUpdate(k) \/ ServeRead(k) \/ ServeRefuse(k) \/ AnswerLost(k) \/ SaveFails(k)
    \/ VisibilitySaved
    \/ ProcessingSaved
    \/ PasswordChanged
    \/ ProfileSaved
    \/ SessionArrives

SettingsSpec == SettingsInit /\ [][SettingsNext]_settingsVars

-----------------------------------------------------------------------------
(* Properties.                                                             *)

\* An unsaved processing draft survives whatever happens to the cached
\* settings: only the user and the answer to a save of it change it.
DraftSurvives ==
    [][draft # NoData /\ draft' # draft =>
        EditDraft(draft') \/ (Pending("processing") /\ saving["processing"].state = "answered")]_settingsVars

\* What was typed into the profile form stays until the session has another
\* profile.
ProfileEditsSurvive ==
    [][profile # NoData /\ profile' = NoData => session' # session]_settingsVars

\* With nothing under way the page shows the server's settings, unless two
\* requests about them overlapped (then the answer applied last, which may
\* be the older one, stays) or the answer to a change was lost.
SettingsAreCurrent ==
    Quiet /\ ~crossed /\ HasData(settings) => settings.data = stored

\* What was typed into the settings and profile forms survives every refetch
\* of what they show.
EditsSurvive == DraftSurvives /\ ProfileEditsSurvive

=============================================================================
