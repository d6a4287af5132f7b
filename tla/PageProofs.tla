----------------------------- MODULE PageProofs -----------------------------
(***************************************************************************)
(* Pages of the web interface for any values of their constants: the       *)
(* settings page, the pages for aliases and for tokens, and the library of *)
(* migration images with its service.  Each part has its own inductive     *)
(* invariant: SettingsInv, RecordInv, LibraryInv.                          *)
(***************************************************************************)
EXTENDS MigrationLibrary, SettingsPage, RecordPage, FiniteSetTheorems, TLAPS

-----------------------------------------------------------------------------
(* The settings page.                                                      *)

SavingStates == {"idle", "sent", "updated", "answered", "failed", "refreshing"}
Values == Visibilities \cup Profiles \cup Levels \cup {"valid", NoData}
Savings == [state : SavingStates, value : Values,
            answer : Settings \cup {NoData}]

SettingsTypes == SettingsTypeOK /\ saving \in [Kinds -> Savings]

\* The request m of kind k has what it needs.
Meant(k, m) ==
    m.state # "idle" =>
        /\ k = "visibility" => m.value \in Visibilities
        /\ k = "processing" => m.value \in Levels
        /\ k = "profile" => m.value \in Profiles
        /\ k \in {"visibility", "processing"} /\ m.state = "answered" => m.answer \in Settings

SavingIsMeant == \A k \in Kinds : Meant(k, saving[k])

\* The requests about the settings.
Saves == Kinds \cap {"visibility", "processing"}
Resting(k) == saving[k].state = "idle"

\* Requests that overlap are marked.
OneAtATime ==
    ~crossed => /\ Fetching(settings) => \A k \in Saves : Resting(k)
                /\ \A j, k \in Saves : Resting(j) \/ Resting(k) \/ j = k

\* What the page has, or is about to get, is what the server has, unless
\* requests have overlapped.
CacheIsCurrent ==
    ~crossed =>
        /\ settings.fetch.state = "answered" => settings.fetch.value = stored
        /\ \A k \in Saves : saving[k].state = "answered" => saving[k].answer = stored
        /\ HasData(settings) /\ ~Fetching(settings)
           /\ (\A k \in Saves : saving[k].state \in {"idle", "sent", "failed"})
              => settings.data = stored

SettingsInv == SettingsTypes /\ SavingIsMeant /\ OneAtATime /\ CacheIsCurrent

\* The forms change, and nothing else.
LEMMA FormStep ==
    ASSUME SettingsInv, UNCHANGED <<stored, settings, account, saving, crossed>>,
           draft' = NoData \/ draft' \in Raws, session' \in Profiles,
           profile' \in Profiles \cup {NoData}, passwords' \in {"empty", "invalid", "valid"}
    PROVE  SettingsInv'
<1>1. SettingsTypes'
  BY DEF SettingsInv, SettingsTypes, SettingsTypeOK
<1>2. SavingIsMeant'
  BY DEF SettingsInv, SavingIsMeant
<1>3. OneAtATime' /\ CacheIsCurrent'
  BY DEF SettingsInv, OneAtATime, CacheIsCurrent, Resting, Fetching, HasData
<1> QED
  BY <1>1, <1>2, <1>3 DEF SettingsInv

\* What a query of the settings becomes.
LEMMA SettingsQueries ==
    ASSUME NEW q \in Queries(Settings), NEW v \in Settings
    PROVE  /\ Request(q) \in Queries(Settings)
           /\ Answered(q, v) \in Queries(Settings)
           /\ Applied(q) \in Queries(Settings)
           /\ Failed(q) \in Queries(Settings)
           /\ WithData(q, v) \in Queries(Settings)
BY DEF Queries, Idle, FetchStates, Request, Answered, Applied,
       Failed, WithData

\* The text of a level is one of the texts.
LEMMA DraftTypes ==
    ASSUME SettingsAssumption, NEW v \in Settings
    PROVE  toProcessingDraft(v) \in Raws
<1>1. v.level \in MinLevel..MaxLevel
  BY DEF Settings, Levels
<1>2. \E r \in Raws \ {""} : Number[r] = v.level
  BY <1>1 DEF SettingsAssumption
<1> QED
  BY <1>2 DEF toProcessingDraft

\* One request becomes m.
LEMMA RequestStep ==
    ASSUME SettingsInv, NEW k \in Kinds, NEW m \in Savings, saving' = [saving EXCEPT ![k] = m],
           Meant(k, m)
    PROVE  /\ saving' \in [Kinds -> Savings] /\ SavingIsMeant'
           /\ saving'[k] = m /\ \A j \in Kinds \ {k} : saving'[j] = saving[j]
BY DEF SettingsInv, SettingsTypes, SavingIsMeant, Meant

\* One request that is not about the settings becomes m.
LEMMA AccountStep ==
    ASSUME SettingsInv, NEW k \in Kinds \ Saves, NEW m \in Savings, Meant(k, m),
           saving' = [saving EXCEPT ![k] = m],
           UNCHANGED <<stored, settings, draft, crossed>>,
           account' \in Profiles, session' \in Profiles,
           profile' \in Profiles \cup {NoData}, passwords' \in {"empty", "invalid", "valid"}
    PROVE  SettingsInv'
<1>1. /\ saving' \in [Kinds -> Savings] /\ SavingIsMeant'
      /\ saving'[k] = m /\ \A j \in Kinds \ {k} : saving'[j] = saving[j]
  BY RequestStep
<1>2. SettingsTypes'
  BY <1>1 DEF SettingsInv, SettingsTypes, SettingsTypeOK, Savings, SavingStates
<1>3. OneAtATime' /\ CacheIsCurrent'
  BY <1>1 DEF SettingsInv, OneAtATime, CacheIsCurrent, Resting, Saves, Fetching, HasData
<1> QED
  BY <1>1, <1>2, <1>3 DEF SettingsInv

\* One request about the settings becomes m, the server keeps its settings.
LEMMA SettingsStep ==
    ASSUME SettingsInv, NEW k \in Saves, NEW m \in Savings, Meant(k, m),
           saving' = [saving EXCEPT ![k] = m],
           UNCHANGED <<stored, settings, account, draft, session, profile, passwords>>,
           crossed' \in BOOLEAN, crossed => crossed',
           ~crossed' /\ m.state # "idle" =>
               ~Fetching(settings) /\ \A j \in Saves \ {k} : Resting(j),
           ~crossed' /\ m.state = "answered" => m.answer = stored,
           ~crossed' /\ m.state \in {"idle", "sent", "failed"} =>
               saving[k].state \in {"idle", "sent", "failed"}
    PROVE  SettingsInv'
<1>0. k \in Kinds
  BY DEF Saves
<1>1. /\ saving' \in [Kinds -> Savings] /\ SavingIsMeant'
      /\ saving'[k] = m /\ \A j \in Kinds \ {k} : saving'[j] = saving[j]
  BY <1>0, RequestStep
<1>2. SettingsTypes'
  BY <1>1 DEF SettingsInv, SettingsTypes, SettingsTypeOK, Savings, SavingStates
<1>3. OneAtATime'
  BY <1>0, <1>1 DEF SettingsInv, OneAtATime, Resting, Saves, Fetching
<1>4. CacheIsCurrent'
  BY <1>0, <1>1 DEF SettingsInv, CacheIsCurrent, Saves, Fetching, HasData
<1> QED
  BY <1>1, <1>2, <1>3, <1>4 DEF SettingsInv

\* The query of the settings becomes q.
LEMMA SettingsQueryStep ==
    ASSUME SettingsInv, NEW q \in Queries(Settings), settings' = q,
           UNCHANGED <<stored, account, session, profile, passwords, saving>>,
           draft' \in Raws \cup {NoData}, crossed' \in BOOLEAN,
           ~crossed' => /\ Fetching(q) => \A k \in Saves : Resting(k)
                        /\ \A k \in Saves : Resting(k) \/ ~crossed
                        /\ q.fetch.state = "answered" => q.fetch.value = stored
                        /\ HasData(q) /\ ~Fetching(q)
                           /\ (\A k \in Saves : saving[k].state \in {"idle", "sent", "failed"})
                              => q.data = stored
    PROVE  SettingsInv'
<1>1. SettingsTypes'
  BY DEF SettingsInv, SettingsTypes, SettingsTypeOK
<1>2. SavingIsMeant'
  BY DEF SettingsInv, SavingIsMeant
<1>3. OneAtATime'
  BY DEF SettingsInv, OneAtATime, Resting, Fetching
<1>4. CacheIsCurrent'
  BY DEF SettingsInv, CacheIsCurrent, Resting, Fetching, HasData
<1> QED
  BY <1>1, <1>2, <1>3, <1>4 DEF SettingsInv

\* Quiet says that nothing about the settings is under way.
LEMMA QuietIsIdle ==
    Quiet <=> ~Fetching(settings) /\ \A k \in Saves : Resting(k)
BY DEF Quiet, Pending, Saves, Resting

\* A query answers, arrives, fails or is sent.
LEMMA QueryKeeps ==
    ASSUME SettingsAssumption, SettingsInv,
           ServeSettings \/ SettingsArrive \/ SettingsFail \/ Refocus
    PROVE  SettingsInv'
<1>0. /\ settings \in Queries(Settings) /\ stored \in Settings
      /\ draft \in Raws \cup {NoData} /\ crossed \in BOOLEAN
  BY DEF SettingsInv, SettingsTypes, SettingsTypeOK
<1>1. CASE ServeSettings
  <2>1. settings' = Answered(settings, stored) /\ settings.fetch.state = "sent"
    BY <1>1 DEF ServeSettings
  <2>2. settings' \in Queries(Settings)
    BY <1>0, <2>1, SettingsQueries
  <2>3. Fetching(settings) /\ settings'.fetch.value = stored /\ Fetching(settings')
    BY <1>0, <2>1 DEF Fetching, Answered, Queries
  <2>. QED
    BY <1>0, <1>1, <2>2, <2>3, SettingsQueryStep
       DEF ServeSettings, formVars, SettingsInv, OneAtATime
<1>2. CASE SettingsArrive
  <2>1. /\ settings' = Applied(settings) /\ settings.fetch.state = "answered"
        /\ UNCHANGED <<stored, account, session, profile, passwords, saving, crossed>>
    BY <1>2 DEF SettingsArrive
  <2>2. settings' \in Queries(Settings)
    BY <1>0, <2>1, SettingsQueries
  <2>3. /\ Fetching(settings) /\ settings'.data = settings.fetch.value
        /\ ~Fetching(settings') /\ settings'.fetch.state # "answered"
    BY <1>0, <2>1 DEF Fetching, Applied, Queries, Idle
  <2>4. settings'.data # NoData => settings'.data \in Settings
    BY <2>2 DEF Queries
  <2>5. draft' \in Raws \cup {NoData}
    BY <1>0, <1>2, <2>4, DraftTypes DEF SettingsArrive, DraftAfter
  <2>6. ~crossed => settings'.data = stored /\ \A k \in Saves : Resting(k)
    BY <2>1, <2>3 DEF SettingsInv, OneAtATime, CacheIsCurrent
  <2>. QED
    BY <1>0, <2>1, <2>2, <2>3, <2>5, <2>6, SettingsQueryStep
<1>3. CASE SettingsFail
  <2>1. settings' \in Queries(Settings)
    BY <1>0, <1>3, SettingsQueries DEF SettingsFail
  <2>. QED
    BY <1>0, <1>3, <2>1, SettingsQueryStep DEF SettingsFail, formVars
<1>4. CASE Refocus
  <2>1. settings' \in Queries(Settings)
    BY <1>0, <1>4, SettingsQueries DEF Refocus
  <2>2. Fetching(settings') /\ settings'.fetch.state = "sent"
    BY <1>0, <1>4 DEF Refocus, Request, Fetching, Queries
  <2>3. crossed' \in BOOLEAN /\ (~crossed' => \A k \in Saves : Resting(k))
    BY <1>4, QuietIsIdle DEF Refocus, Quiet
  <2>. QED
    BY <1>0, <1>4, <2>1, <2>2, <2>3, SettingsQueryStep DEF Refocus, formVars
<1> QED
  BY <1>1, <1>2, <1>3, <1>4

\* The user sends a request.
LEMMA SubmitKeeps ==
    ASSUME SettingsAssumption, SettingsInv,
           \/ \E v \in Visibilities : ChangeVisibility(v)
           \/ updateProcessing \/ updateProfile \/ changePassword
    PROVE  SettingsInv'
<1>0. /\ draft \in Raws \cup {NoData} /\ crossed \in BOOLEAN
      /\ account \in Profiles /\ session \in Profiles /\ profile \in Profiles \cup {NoData}
      /\ passwords \in {"empty", "invalid", "valid"}
  BY DEF SettingsInv, SettingsTypes, SettingsTypeOK
<1>. DEFINE New(v) == [Nothing EXCEPT !.state = "sent", !.value = v]
<1>1. ASSUME NEW v \in Values
      PROVE  New(v) \in Savings /\ New(v).state = "sent" /\ New(v).value = v
  BY DEF Nothing, Savings, SavingStates, Values
<1>2. ASSUME NEW k \in Saves, NEW v \in Values,
             Submit(k, v), Meant(k, New(v)), crossed' = (crossed \/ ~Quiet)
      PROVE  SettingsInv'
  <2>1. /\ saving' = [saving EXCEPT ![k] = New(v)] /\ Resting(k)
        /\ UNCHANGED <<stored, settings, account, draft, session, profile, passwords>>
    BY <1>2 DEF Submit, formVars, Pending, Resting, Saves
  <2>2. ~crossed' => ~Fetching(settings) /\ \A j \in Saves : Resting(j)
    BY <1>2, QuietIsIdle
  <2>3. New(v) \in Savings /\ New(v).state = "sent"
    BY <1>1
  <2>4. crossed' \in BOOLEAN /\ (crossed => crossed') /\ saving[k].state = "idle"
    BY <1>0, <1>2, <2>1 DEF Quiet, Resting
  <2>. QED
    BY <1>2, <2>1, <2>2, <2>3, <2>4, SettingsStep
<1>3. ASSUME NEW v \in Visibilities, ChangeVisibility(v) PROVE SettingsInv'
  <2>1. Submit("visibility", v) /\ crossed' = (crossed \/ ~Quiet)
    BY <1>3 DEF ChangeVisibility
  <2>2. "visibility" \in Saves /\ v \in Values
    BY <2>1 DEF Submit, Saves, Values
  <2>3. Meant("visibility", New(v))
    BY <1>1, <2>2 DEF Meant
  <2>. QED
    BY <1>2, <2>1, <2>2, <2>3
<1>4. CASE updateProcessing
  <2>1. /\ draft # NoData /\ numberValue(draft) # NoData
        /\ Submit("processing", numberValue(draft))
        /\ crossed' = (crossed \/ ~Quiet)
    BY <1>4 DEF updateProcessing
  <2>2. /\ draft # "" /\ Number[draft] \in Levels /\ numberValue(draft) = Number[draft]
    BY <2>1 DEF numberValue
  <2>3. "processing" \in Saves /\ numberValue(draft) \in Values
    BY <2>1, <2>2 DEF Submit, Saves, Values
  <2>4. Meant("processing", New(numberValue(draft)))
    <3>. HIDE DEF New
    <3>1. /\ New(numberValue(draft)).value = numberValue(draft)
          /\ New(numberValue(draft)).state = "sent"
      BY <1>0, <1>1, <2>3
    <3>. QED
      BY <2>2, <3>1 DEF Meant
  <2>. QED
    BY <1>0, <1>2, <2>1, <2>3, <2>4
<1>5. CASE updateProfile
  <2>1. /\ profile \in Profiles /\ saving' = [saving EXCEPT !["profile"] = New(profile)]
        /\ "profile" \in Kinds \ Saves
    BY <1>0, <1>5 DEF updateProfile, Submit, Saves
  <2>2. New(profile) \in Savings /\ Meant("profile", New(profile))
    <3>. HIDE DEF New
    <3>1. profile \in Values
      BY <2>1 DEF Values
    <3>2. /\ New(profile) \in Savings /\ New(profile).state = "sent"
          /\ New(profile).value = profile
      BY <1>1, <3>1
    <3>. QED
      BY <2>1, <3>2 DEF Meant
  <2>. QED
    BY <1>0, <1>5, <2>1, <2>2, AccountStep DEF updateProfile, Submit, formVars
<1>6. CASE changePassword
  <2>1. /\ saving' = [saving EXCEPT !["password"] = New("valid")]
        /\ "password" \in Kinds \ Saves
    BY <1>6 DEF changePassword, Submit, Saves
  <2>2. New("valid") \in Savings /\ Meant("password", New("valid"))
    BY <1>1 DEF Meant, Values
  <2>. QED
    BY <1>0, <1>6, <2>1, <2>2, AccountStep DEF changePassword, Submit, formVars
<1> QED
  BY <1>3, <1>4, <1>5, <1>6

\* The server executes request k, or its answer is read, refused or lost.
LEMMA ServeKeeps ==
    ASSUME SettingsInv, NEW k \in Kinds,
           ServeUpdate(k) \/ ServeRead(k) \/ ServeRefuse(k) \/ AnswerLost(k)
               \/ SaveFails(k)
    PROVE  SettingsInv'
<1>0. /\ stored \in Settings /\ crossed \in BOOLEAN
      /\ account \in Profiles /\ session \in Profiles /\ profile \in Profiles \cup {NoData}
      /\ passwords \in {"empty", "invalid", "valid"}
      /\ saving \in [Kinds -> Savings] /\ saving[k] \in Savings /\ Meant(k, saving[k])
  BY DEF SettingsInv, SettingsTypes, SavingIsMeant, SettingsTypeOK
<1>. DEFINE In(s) == [saving[k] EXCEPT !.state = s]
<1>1. \A s \in SavingStates : In(s) \in Savings /\ In(s).state = s
  BY <1>0 DEF Savings
<1>2. \A s \in SavingStates \ {"idle", "answered"} : saving[k].state # "idle" => Meant(k, In(s))
  BY <1>0 DEF Meant, Savings
<1>3. ~crossed /\ k \in Saves /\ ~Resting(k) =>
          ~Fetching(settings) /\ \A j \in Saves \ {k} : Resting(j)
  BY DEF SettingsInv, OneAtATime
<1>4. CASE ServeUpdate(k) /\ k \in Saves
  <2>1. /\ saving[k].state = "sent" /\ saving' = [saving EXCEPT ![k] = In("updated")]
        /\ UNCHANGED <<settings, account, draft, session, profile, passwords, crossed>>
    BY <1>0, <1>4 DEF ServeUpdate, formVars, Saves, Savings
  <2>2. stored' \in Settings
    BY <1>0, <1>4, <2>1 DEF ServeUpdate, Settings, Saves, Meant
  <2>3. In("updated") \in Savings /\ Meant(k, In("updated")) /\ In("updated").state = "updated"
    BY <1>1, <1>2, <2>1 DEF SavingStates
  <2>4. /\ saving' \in [Kinds -> Savings] /\ SavingIsMeant'
        /\ saving'[k] = In("updated") /\ \A j \in Kinds \ {k} : saving'[j] = saving[j]
    BY <2>1, <2>3, RequestStep
  <2>5. SettingsTypes'
    BY <2>1, <2>2, <2>4 DEF SettingsInv, SettingsTypes, SettingsTypeOK, Savings, SavingStates
  <2>6. OneAtATime'
    BY <2>1, <2>3, <2>4 DEF SettingsInv, OneAtATime, Resting, Saves, Fetching
  <2>7. ~crossed => ~Fetching(settings) /\ \A j \in Saves \ {k} : Resting(j)
    BY <1>3, <1>4, <2>1 DEF Resting
  <2>8. CacheIsCurrent'
    BY <1>4, <2>1, <2>3, <2>4, <2>7 DEF CacheIsCurrent, Resting, Saves, Fetching
  <2>. QED
    BY <2>4, <2>5, <2>6, <2>8 DEF SettingsInv
<1>5. CASE ServeUpdate(k) /\ k \notin Saves
  <2>1. /\ saving[k].state = "sent" /\ saving' = [saving EXCEPT ![k] = In("answered")]
        /\ UNCHANGED <<stored, settings, draft, session, profile, passwords, crossed>>
    BY <1>0, <1>5 DEF ServeUpdate, formVars, Saves, Savings
  <2>2. account' \in Profiles
    BY <1>0, <1>5, <2>1 DEF ServeUpdate, Meant
  <2>3. In("answered") \in Savings /\ Meant(k, In("answered"))
    BY <1>0, <1>1, <1>5, <2>1 DEF SavingStates, Meant, Saves, Savings
  <2>. QED
    BY <1>0, <1>5, <2>1, <2>2, <2>3, AccountStep
<1>6. CASE ServeRead(k)
  <2>. DEFINE m == [saving[k] EXCEPT !.state = "answered", !.answer = stored]
  <2>1. /\ saving[k].state = "updated" /\ saving' = [saving EXCEPT ![k] = m]
        /\ UNCHANGED <<stored, settings, account, draft, session, profile, passwords, crossed>>
    BY <1>0, <1>6 DEF ServeRead, formVars, Savings
  <2>2. m \in Savings /\ Meant(k, m) /\ m.state = "answered" /\ m.answer = stored
    BY <1>0, <2>1 DEF Meant, Savings, SavingStates
  <2>3. CASE k \in Saves
    BY <1>0, <1>3, <2>1, <2>2, <2>3, SettingsStep DEF Resting
  <2>4. CASE k \notin Saves
    BY <1>0, <2>1, <2>2, <2>4, AccountStep
  <2>. QED
    BY <2>3, <2>4
<1>7. CASE ServeRefuse(k) \/ AnswerLost(k)
  <2>1. /\ saving[k].state \in {"sent", "updated", "answered"}
        /\ saving' = [saving EXCEPT ![k] = In("failed")]
        /\ UNCHANGED <<stored, settings, account, draft, session, profile, passwords>>
        /\ crossed' \in BOOLEAN /\ (crossed => crossed')
        /\ ~crossed' => saving[k].state = "sent" /\ crossed' = crossed
    BY <1>0, <1>7 DEF ServeRefuse, AnswerLost, formVars, Savings
  <2>2. In("failed") \in Savings /\ Meant(k, In("failed")) /\ In("failed").state = "failed"
    BY <1>1, <1>2, <2>1 DEF SavingStates
  <2>3. CASE k \in Saves
    BY <1>0, <1>3, <2>1, <2>2, <2>3, SettingsStep DEF Resting
  <2>4. CASE k \notin Saves
    <3>1. SettingsTypes' /\ SavingIsMeant' /\ saving' \in [Kinds -> Savings]
      BY <1>0, <2>1, <2>2, RequestStep DEF SettingsInv, SettingsTypes, SettingsTypeOK, Savings,
         SavingStates
    <3>2. \A j \in Saves : saving'[j] = saving[j]
      BY <2>1, <2>4 DEF Saves, SettingsInv, SettingsTypes
    <3>3. OneAtATime' /\ CacheIsCurrent'
      BY <2>1, <3>2 DEF SettingsInv, OneAtATime, CacheIsCurrent, Resting, Fetching, HasData
    <3>. QED
      BY <3>1, <3>3 DEF SettingsInv
  <2>. QED
    BY <2>3, <2>4
<1>8. CASE SaveFails(k)
  <2>1. /\ saving[k].state = "failed" /\ saving' = [saving EXCEPT ![k] = Nothing]
        /\ UNCHANGED <<stored, settings, account, draft, session, profile, passwords, crossed>>
    BY <1>8 DEF SaveFails, Settles, formVars
  <2>2. Nothing \in Savings /\ Meant(k, Nothing) /\ Nothing.state = "idle"
    BY DEF Nothing, Savings, SavingStates, Values, Meant
  <2>3. CASE k \in Saves
    BY <1>0, <2>1, <2>2, <2>3, SettingsStep
  <2>4. CASE k \notin Saves
    BY <1>0, <2>1, <2>2, <2>4, AccountStep
  <2>. QED
    BY <2>3, <2>4
<1> QED
  BY <1>4, <1>5, <1>6, <1>7, <1>8

\* The answer to a change of the settings becomes the cached settings.
LEMMA SavedKeeps ==
    ASSUME SettingsAssumption, SettingsInv, VisibilitySaved \/ ProcessingSaved
    PROVE  SettingsInv'
<1>0. /\ settings \in Queries(Settings) /\ draft \in Raws \cup {NoData}
      /\ saving \in [Kinds -> Savings]
  BY DEF SettingsInv, SettingsTypes, SettingsTypeOK
<1>1. PICK k \in Saves :
          /\ saving[k].state = "answered" /\ saving' = [saving EXCEPT ![k] = Nothing]
          /\ settings' = WithData(settings, saving[k].answer)
          /\ UNCHANGED <<stored, account, session, profile, passwords, crossed>>
  BY DEF VisibilitySaved, ProcessingSaved, Pending, Settles, Saves
<1>2. saving[k].answer \in Settings /\ k \in Kinds
  BY <1>1 DEF SettingsInv, SavingIsMeant, Meant, Saves
<1>3. settings' \in Queries(Settings)
  BY <1>0, <1>1, <1>2, SettingsQueries
<1>4. settings'.data = saving[k].answer /\ settings'.fetch = settings.fetch
  BY <1>0, <1>1 DEF WithData, Queries
<1>5. /\ saving' \in [Kinds -> Savings] /\ SavingIsMeant'
      /\ saving'[k] = Nothing /\ \A j \in Kinds \ {k} : saving'[j] = saving[j]
  <2>1. Nothing \in Savings /\ Meant(k, Nothing)
    BY DEF Nothing, Savings, SavingStates, Values, Meant
  <2>. QED
    BY <1>1, <1>2, <2>1, RequestStep
<1>6. draft' \in Raws \cup {NoData}
  <2>1. CASE VisibilitySaved
    BY <1>0, <1>1, <1>2, <1>4, <2>1, DraftTypes DEF VisibilitySaved, DraftAfter
  <2>2. CASE ProcessingSaved
    <3>1. saving["processing"].answer \in Settings
      BY <2>2 DEF ProcessingSaved, Pending, SettingsInv, SavingIsMeant, Meant
    <3>. QED
      BY <2>2, <3>1, DraftTypes DEF ProcessingSaved
  <2>. QED
    BY <2>1, <2>2
<1>7. SettingsTypes'
  BY <1>1, <1>3, <1>5, <1>6 DEF SettingsInv, SettingsTypes, SettingsTypeOK, Savings, SavingStates
<1>8. OneAtATime'
  BY <1>1, <1>4, <1>5 DEF SettingsInv, OneAtATime, Resting, Saves, Fetching, Nothing
<1>9. CacheIsCurrent'
  <2> SUFFICES ASSUME ~crossed PROVE CacheIsCurrent'
    BY <1>1 DEF CacheIsCurrent
  <2>1. saving[k].answer = stored /\ ~Fetching(settings)
    BY <1>1 DEF SettingsInv, OneAtATime, CacheIsCurrent, Resting
  <2>2. \A j \in Saves : saving'[j].state # "answered"
    BY <1>1, <1>5 DEF SettingsInv, OneAtATime, Resting, Saves, Nothing
  <2>. QED
    BY <1>1, <1>4, <2>1, <2>2 DEF CacheIsCurrent, Fetching
<1> QED
  BY <1>5, <1>7, <1>8, <1>9 DEF SettingsInv

\* The account forms and the session; edits.
LEMMA AccountKeeps ==
    ASSUME SettingsInv,
           \/ PasswordChanged \/ ProfileSaved \/ SessionArrives
           \/ \E raw \in Raws : EditDraft(raw)
           \/ \E p \in Profiles : EditProfile(p)
           \/ \E fill \in {"empty", "invalid", "valid"} : EditPasswords(fill)
    PROVE  SettingsInv'
<1>0. /\ draft \in Raws \cup {NoData}
      /\ account \in Profiles /\ session \in Profiles /\ profile \in Profiles \cup {NoData}
      /\ passwords \in {"empty", "invalid", "valid"} /\ saving \in [Kinds -> Savings]
  BY DEF SettingsInv, SettingsTypes, SettingsTypeOK
<1>1. \A k : Nothing \in Savings /\ Meant(k, Nothing)
  BY DEF Nothing, Savings, SavingStates, Values, Meant
<1>2. CASE PasswordChanged
  <2>1. "password" \in Kinds \ Saves /\ saving' = [saving EXCEPT !["password"] = Nothing]
    BY <1>2 DEF PasswordChanged, Pending, Settles, Saves
  <2>. QED
    BY <1>0, <1>1, <1>2, <2>1, AccountStep DEF PasswordChanged
<1>3. CASE ProfileSaved
  <2>. DEFINE m == [saving["profile"] EXCEPT !.state = "refreshing"]
  <2>1. /\ "profile" \in Kinds \ Saves /\ saving["profile"].state = "answered"
        /\ saving' = [saving EXCEPT !["profile"] = m]
    BY <1>0, <1>3 DEF ProfileSaved, Pending, Saves, Savings
  <2>2. m \in Savings /\ Meant("profile", m)
    BY <1>0, <2>1 DEF Savings, SavingStates, Meant, SettingsInv, SavingIsMeant
  <2>. QED
    BY <1>0, <1>3, <2>1, <2>2, AccountStep DEF ProfileSaved, formVars
<1>4. CASE SessionArrives
  <2>1. profile' \in Profiles \cup {NoData}
    BY <1>0, <1>4 DEF SessionArrives, ProfileForm
  <2>2. CASE UNCHANGED saving
    BY <1>0, <1>4, <2>1, <2>2, FormStep DEF SessionArrives
  <2>3. CASE ~UNCHANGED saving
    <3>1. "profile" \in Kinds \ Saves /\ saving' = [saving EXCEPT !["profile"] = Nothing]
      BY <1>4, <2>3 DEF SessionArrives, Pending, Settles, Saves
    <3>. QED
      BY <1>0, <1>1, <1>4, <2>1, <3>1, AccountStep DEF SessionArrives
  <2>. QED
    BY <2>2, <2>3
<1>5. CASE \/ \E raw \in Raws : EditDraft(raw)
           \/ \E p \in Profiles : EditProfile(p)
           \/ \E fill \in {"empty", "invalid", "valid"} : EditPasswords(fill)
  BY <1>0, <1>5, FormStep DEF EditDraft, EditProfile, EditPasswords
<1> QED
  BY <1>2, <1>3, <1>4, <1>5

LEMMA SettingsInvHolds ==
    ASSUME SettingsAssumption
    PROVE  SettingsSpec => []SettingsInv
<1>1. SettingsInit => SettingsInv
  <2> SUFFICES ASSUME SettingsInit PROVE SettingsInv
    OBVIOUS
  <2>1. settings \in Queries(Settings)
    BY DEF SettingsInit, Request, EmptyQuery, Idle, Queries, FetchStates
  <2>2. Nothing \in Savings /\ Nothing.state = "idle"
    BY DEF Nothing, Savings, SavingStates, Values
  <2>3. SettingsTypes
    BY <2>1, <2>2 DEF SettingsInit, SettingsTypes, SettingsTypeOK
  <2>4. SavingIsMeant /\ OneAtATime
    BY <2>2 DEF SettingsInit, SavingIsMeant, Meant, OneAtATime, Resting, Saves
  <2>5. CacheIsCurrent
    BY <2>2 DEF SettingsInit, CacheIsCurrent, Request, EmptyQuery, HasData, Saves
  <2>. QED
    BY <2>3, <2>4, <2>5 DEF SettingsInv
<1>2. SettingsInv /\ [SettingsNext]_settingsVars => SettingsInv'
  <2> SUFFICES ASSUME SettingsInv, [SettingsNext]_settingsVars PROVE SettingsInv'
    OBVIOUS
  <2>1. CASE UNCHANGED settingsVars
    BY <2>1, FormStep DEF settingsVars, SettingsInv, SettingsTypes, SettingsTypeOK
  <2>2. CASE SettingsNext
    BY <2>2, QueryKeeps, SubmitKeeps, ServeKeeps, SavedKeeps, AccountKeeps DEF SettingsNext
  <2>. QED
    BY <2>1, <2>2
<1>. QED
  BY <1>1, <1>2, PTL DEF SettingsSpec

(***************************************************************************)
(* The settings page keeps its types; no level out of range reaches the    *)
(* server, since updateProcessing sends nothing that is not valid.         *)
(***************************************************************************)
THEOREM SettingsTypesHold ==
    ASSUME SettingsAssumption
    PROVE  SettingsSpec => []SettingsTypeOK
<1>1. SettingsInv => SettingsTypeOK
  BY DEF SettingsInv, SettingsTypes
<1>. QED
  BY <1>1, SettingsInvHolds, PTL

(***************************************************************************)
(* With nothing under way the page shows the settings of the server,       *)
(* unless two requests about them have overlapped or an answer was lost    *)
(* since the last fetch of its own (settings-page.tsx and its handlers).   *)
(***************************************************************************)
THEOREM SettingsPageIsCurrent ==
    ASSUME SettingsAssumption
    PROVE  SettingsSpec => []SettingsAreCurrent
<1>1. SettingsInv => SettingsAreCurrent
  BY QuietIsIdle DEF SettingsInv, CacheIsCurrent, SettingsAreCurrent, Resting
<1>. QED
  BY <1>1, SettingsInvHolds, PTL

(***************************************************************************)
(* An unsaved draft changes by the user's hand or the answer to its save,  *)
(* never by a fetch of the settings or the save of another part of them.   *)
(***************************************************************************)
THEOREM SettingsDraftSurvives == SettingsSpec => DraftSurvives
<1>1. ASSUME [SettingsNext]_settingsVars, draft # NoData, draft' # draft
      PROVE  EditDraft(draft')
             \/ (Pending("processing") /\ saving["processing"].state = "answered")
  <2>1. CASE \E raw \in Raws : EditDraft(raw)
    BY <2>1 DEF EditDraft
  <2>2. CASE ProcessingSaved
    BY <2>2 DEF ProcessingSaved
  <2>3. CASE SettingsArrive \/ VisibilitySaved
    BY <1>1, <2>3 DEF SettingsArrive, VisibilitySaved, DraftAfter
  <2>. QED
    BY <1>1, <2>1, <2>2, <2>3 DEF SettingsNext, settingsVars, formVars, ServeSettings,
       SettingsFail, Refocus, EditProfile, EditPasswords,
       ChangeVisibility, updateProcessing, updateProfile, changePassword,
       Submit, ServeUpdate, ServeRead, ServeRefuse, AnswerLost,
       SaveFails, PasswordChanged, ProfileSaved, SessionArrives
<1>. QED
  BY <1>1, PTL DEF SettingsSpec, DraftSurvives

(***************************************************************************)
(* What was typed into the profile form stays until the session shows      *)
(* another profile (the key of the form in SettingsPage).                  *)
(***************************************************************************)
THEOREM SettingsProfileEditsSurvive ==
    ASSUME SettingsAssumption
    PROVE  SettingsSpec => ProfileEditsSurvive
<1>1. ASSUME [SettingsNext]_settingsVars, profile # NoData, profile' = NoData
      PROVE  session' # session
  <2>1. NoData \notin Profiles
    BY DEF SettingsAssumption
  <2>2. CASE SessionArrives
    BY <1>1, <2>2 DEF SessionArrives, ProfileForm
  <2>3. CASE \E p \in Profiles : EditProfile(p)
    BY <1>1, <2>1, <2>3 DEF EditProfile
  <2>. QED
    BY <1>1, <2>2, <2>3 DEF SettingsNext, settingsVars, formVars, ServeSettings,
       SettingsArrive, SettingsFail, Refocus, EditDraft, EditPasswords,
       ChangeVisibility, updateProcessing, updateProfile, changePassword,
       Submit, ServeUpdate, ServeRead, ServeRefuse, AnswerLost,
       SaveFails, VisibilitySaved, ProcessingSaved, PasswordChanged,
       ProfileSaved
<1>. QED
  BY <1>1, PTL DEF SettingsSpec, ProfileEditsSurvive

(***************************************************************************)
(* Together: no refetch takes from the user what was typed into a form of  *)
(* the settings page.                                                      *)
(***************************************************************************)
THEOREM SettingsEditsSurvive ==
    ASSUME SettingsAssumption
    PROVE  SettingsSpec => EditsSurvive
  BY SettingsDraftSurvives, SettingsProfileEditsSurvive DEF EditsSurvive

-----------------------------------------------------------------------------
(* The pages for aliases and for API tokens.                               *)

Requests == [state : {"idle", "sent", "answered", "refetching"}, label : Labels \cup {NoData},
             record : Records \cup {NoRecord}]

RecordTypes ==
    /\ RecordTypeOK
    /\ {creating, removing, resolving} \subseteq Requests
    /\ creating.state = "sent" => creating.label \in Labels

\* Records whose identifier was given.
Used == {r \in Records : r.id <= used}

\* A record that was removed, or is known to be, is none the server has or will
\* have again.
IdsAreUsed ==
    /\ server \subseteq Used /\ madeKnown \subseteq Used
    /\ goneKnown \subseteq Used \ server
    /\ creating.state = "answered" => creating.record \in Used
    /\ removing.state = "answered" => removing.record \in Used \ server

\* P has what was confirmed as created and is still there, and nothing that was
\* confirmed as removed.
Confirmed(P) == madeKnown \cap server \subseteq P /\ P \cap goneKnown = {}

\* A list at rest and an answer on its way show what was confirmed, unless an
\* older fetch was joined.
ListIsConfirmed ==
    ~overtaken =>
        /\ HasData(list) /\ ~list.stale /\ ~Fetching(list) => Confirmed(list.data)
        /\ list.fetch.state = "answered" => Confirmed(list.fetch.value)

RecordInv == RecordTypes /\ IdsAreUsed /\ ListIsConfirmed

\* What a query of the list becomes.
LEMMA ListQueries ==
    ASSUME NEW q \in Queries(SUBSET Records), NEW P \in SUBSET Records
    PROVE  /\ Request(q) \in Queries(SUBSET Records)
           /\ Answered(q, P) \in Queries(SUBSET Records)
           /\ Applied(q) \in Queries(SUBSET Records)
           /\ Failed(q) \in Queries(SUBSET Records)
           /\ Invalidated(q, TRUE) \in Queries(SUBSET Records)
BY DEF Queries, Idle, FetchStates, Request, Answered, Applied,
       Failed, Invalidated, Refetched

\* The query is answered, applied, fails or is sent.
LEMMA ListKeeps ==
    ASSUME RecordInv, ServeList \/ RecordsArrive \/ RecordsFail \/ RefocusList
    PROVE  RecordInv'
<1>0. /\ list \in Queries(SUBSET Records) /\ server \in SUBSET Records
      /\ overtaken \in BOOLEAN
  BY DEF RecordInv, RecordTypes, RecordTypeOK
<1>1. UNCHANGED <<kind, server, used, form, created, creating, target, removing, resolving, resolved,
                   madeKnown, goneKnown>>
  BY DEF ServeList, RecordsArrive, RecordsFail, RefocusList, createVars,
     removeVars, resolveVars, knownVars
<1>2. list' \in Queries(SUBSET Records) /\ overtaken' \in BOOLEAN
  BY <1>0, ListQueries DEF ServeList, RecordsArrive, RecordsFail, RefocusList
<1>3. RecordTypes'
  BY <1>1, <1>2 DEF RecordInv, RecordTypes, RecordTypeOK
<1>4. IdsAreUsed'
  BY <1>1 DEF RecordInv, IdsAreUsed, Used
<1>5. ListIsConfirmed'
  <2>1. CASE ServeList
    <3>1. Confirmed(server)
      BY DEF RecordInv, IdsAreUsed, Confirmed
    <3>2. /\ list'.fetch.state = "answered" /\ list'.fetch.value = server
          /\ Fetching(list')
      BY <1>0, <2>1 DEF ServeList, Answered, Queries, Fetching
    <3>. QED
      BY <1>1, <3>1, <3>2 DEF ListIsConfirmed, Confirmed
  <2>2. CASE RecordsArrive
    <3>1. /\ list.fetch.state = "answered" /\ list'.fetch.state = "idle"
          /\ list'.data = list.fetch.value /\ overtaken' = overtaken
      BY <1>0, <2>2 DEF RecordsArrive, Applied, Queries, Idle
    <3>. QED
      BY <1>1, <3>1 DEF RecordInv, ListIsConfirmed, Confirmed
  <2>3. CASE RecordsFail
    <3>1. list'.stale /\ list'.fetch.state = "idle"
      BY <1>0, <2>3 DEF RecordsFail, Failed, Queries, Idle
    <3>. QED
      BY <3>1 DEF ListIsConfirmed
  <2>4. CASE RefocusList
    <3>1. list'.fetch.state = "sent"
      BY <1>0, <2>4 DEF RefocusList, Request, Queries
    <3>. QED
      BY <3>1 DEF ListIsConfirmed, Fetching
  <2>. QED
    BY <2>1, <2>2, <2>3, <2>4
<1>. QED
  BY <1>3, <1>4, <1>5 DEF RecordInv

\* An invalidation leaves no fresh list, and marks the one fetch it joins.
LEMMA InvalidateListStep ==
    ASSUME RecordInv, InvalidateList
    PROVE  /\ list' \in Queries(SUBSET Records) /\ overtaken' \in BOOLEAN
           /\ ListIsConfirmed'
<1>0. list \in Queries(SUBSET Records)
  BY DEF RecordInv, RecordTypes, RecordTypeOK
<1>1. list' = Invalidated(list, TRUE) /\ overtaken' = Joins(list)
  BY DEF InvalidateList
<1>2. list' \in Queries(SUBSET Records)
  BY <1>0, <1>1, ListQueries, {} \in SUBSET Records
<1>3. list'.stale /\ (~overtaken' => list'.fetch.state # "answered")
  BY <1>0, <1>1 DEF Invalidated, Refetched, Request, Joins, HasData,
     Fetching, Queries
<1>. QED
  BY <1>1, <1>2, <1>3 DEF ListIsConfirmed, Joins

\* What is left alone by a step about one of the three forms.
LEMMA ListRests ==
    ASSUME RecordInv, UNCHANGED <<kind, listVars, server, madeKnown, goneKnown>>
    PROVE  ListIsConfirmed' /\ list' = list /\ overtaken' = overtaken
<1>1. list' = list /\ overtaken' = overtaken
  BY DEF listVars
<1>. QED
  BY <1>1 DEF RecordInv, ListIsConfirmed, Confirmed

\* The form is filled in and submitted, or what was submitted fails.
LEMMA FormKeeps ==
    ASSUME RecordAssumption, RecordInv,
           (\E l \in Labels \cup {NoData} : Edit(l)) \/ SubmitForm \/ CreateFails
    PROVE  RecordInv'
<1>0. /\ form \in Labels \cup {NoData} /\ creating \in Requests
      /\ NoRequest \in Requests /\ NoRequest.state = "idle"
  BY DEF RecordInv, RecordTypes, RecordTypeOK, Requests, NoRequest
<1>1. UNCHANGED <<kind, listVars, server, used, target, removing, resolving, resolved,
                  madeKnown, goneKnown>>
  BY DEF Edit, SubmitForm, CreateFails, removeVars, resolveVars, knownVars
<1>2. form' \in Labels \cup {NoData} /\ created' \in {created, NoRecord}
  BY <1>0 DEF Edit, SubmitForm, CreateFails
<1>3. /\ creating' \in Requests
      /\ creating'.state = "answered" => creating' = creating
      /\ creating'.state = "sent" => creating'.label \in Labels \/ creating' = creating
  <2>1. CASE \E l \in Labels \cup {NoData} : Edit(l)
    BY <1>0, <2>1 DEF Edit
  <2>2. CASE SubmitForm
    <3>1. creating' = [NoRequest EXCEPT !.state = "sent", !.label = form]
      BY <2>2 DEF SubmitForm
    <3>. QED
      BY <1>0, <2>2 DEF SubmitForm, Requests
  <2>3. CASE CreateFails
    BY <1>0, <2>3 DEF CreateFails
  <2>. QED
    BY <2>1, <2>2, <2>3
<1>4. RecordTypes'
  BY <1>1, <1>2, <1>3, ListRests DEF RecordInv, RecordTypes, RecordTypeOK, Requests
<1>5. IdsAreUsed'
  BY <1>1, <1>3 DEF RecordInv, IdsAreUsed, Used
<1>. QED
  BY <1>1, <1>4, <1>5, ListRests DEF RecordInv

\* The server creates the record, under a number of its own.
LEMMA ServeCreateKeeps ==
    ASSUME RecordAssumption, RecordInv, ServeCreate
    PROVE  RecordInv'
<1> DEFINE r == [id |-> used + 1, label |-> creating.label]
<1>0. /\ creating \in Requests /\ creating.state = "sent"
      /\ used \in Nat /\ used < MaxRecords /\ MaxRecords \in Nat
      /\ server \subseteq Records
  BY DEF RecordInv, RecordTypes, RecordTypeOK, ServeCreate, RecordAssumption
<1>1. UNCHANGED <<kind, listVars, form, created, target, removing, resolving, resolved,
                  madeKnown, goneKnown>>
  BY DEF ServeCreate, removeVars, resolveVars, knownVars
<1>2. /\ used' = used + 1 /\ server' = server \cup {r}
      /\ creating' = [creating EXCEPT !.state = "answered", !.record = r]
  BY DEF ServeCreate
<1>3. /\ r \in Records /\ r \notin Used /\ r.id = used + 1
      /\ used' \in 0..MaxRecords
  BY <1>0, <1>2 DEF Records, Used, RecordInv, RecordTypes
<1>4. /\ creating' \in Requests /\ creating'.state = "answered"
      /\ creating'.record = r
  BY <1>0, <1>2, <1>3 DEF Requests
<1> HIDE DEF r
<1>5. \A q, s \in server' : q.id = s.id \/ (kind = "alias" /\ q.label = s.label) => q = s
  <2>1. \A s \in server : s.id # r.id
    BY <1>0, <1>3 DEF RecordInv, IdsAreUsed, Used, Records
  <2>2. kind = "alias" => \A s \in server : s.label # r.label
    BY DEF ServeCreate, r
  <2>3. \A q, s \in server : q.id = s.id \/ (kind = "alias" /\ q.label = s.label) => q = s
    BY DEF RecordInv, RecordTypes, RecordTypeOK
  <2>. QED
    BY <1>2, <2>1, <2>2, <2>3
<1>6. RecordTypes'
  <2>1. server' \subseteq Records
    BY <1>0, <1>2, <1>3
  <2>. QED
    BY <1>1, <1>3, <1>4, <1>5, <2>1 DEF RecordInv, RecordTypes, RecordTypeOK, Requests,
       listVars
<1>7. IdsAreUsed'
  <2>1. Used \subseteq Used' /\ r \in Used'
    BY <1>0, <1>2, <1>3 DEF Used, Records
  <2>. QED
    BY <1>1, <1>2, <1>3, <1>4, <2>1 DEF RecordInv, IdsAreUsed
<1>8. ListIsConfirmed'
  <2>1. r \notin madeKnown
    BY <1>3 DEF RecordInv, IdsAreUsed
  <2>. QED
    BY <1>1, <1>2, <2>1 DEF RecordInv, ListIsConfirmed, Confirmed, listVars
<1>. QED
  BY <1>6, <1>7, <1>8 DEF RecordInv

\* The page has the answer to the creation.
LEMMA CreatedKeeps ==
    ASSUME RecordInv, Created
    PROVE  RecordInv'
<1>0. /\ creating \in Requests /\ creating.state = "answered" /\ creating.record \in Used
      /\ NoRequest \in Requests /\ NoRequest.state = "idle"
  BY DEF RecordInv, RecordTypes, IdsAreUsed, Created, Requests, NoRequest
<1>1. /\ UNCHANGED <<kind, server, used, target, removing, resolving, resolved, goneKnown>>
      /\ created' = creating.record /\ form' = NoData
      /\ madeKnown' = madeKnown \cup {creating.record}
      /\ InvalidateList
  BY DEF Created, removeVars, resolveVars
<1>2. creating' \in Requests /\ creating'.state \in {"idle", "refetching"}
  BY <1>0 DEF Created, Requests
<1>3. /\ list' \in Queries(SUBSET Records) /\ overtaken' \in BOOLEAN
      /\ ListIsConfirmed'
  BY <1>1, InvalidateListStep
<1>4. RecordTypes'
  BY <1>0, <1>1, <1>2, <1>3 DEF RecordInv, RecordTypes, RecordTypeOK, Requests, Used
<1>5. IdsAreUsed'
  BY <1>0, <1>1, <1>2 DEF RecordInv, IdsAreUsed, Used
<1>. QED
  BY <1>3, <1>4, <1>5 DEF RecordInv

\* The list a mutation waits for has arrived.
LEMMA ListRefetchedKeeps ==
    ASSUME RecordInv, ListRefetched
    PROVE  RecordInv'
<1>0. /\ creating \in Requests /\ removing \in Requests
      /\ NoRequest \in Requests /\ NoRequest.state = "idle"
  BY DEF RecordInv, RecordTypes, Requests, NoRequest
<1>1. UNCHANGED <<kind, listVars, server, used, form, created, target, resolving, resolved,
                  madeKnown, goneKnown>>
  BY DEF ListRefetched, resolveVars, knownVars
<1>2. /\ creating' \in Requests /\ (creating' = creating \/ creating'.state = "idle")
      /\ removing' \in Requests /\ (removing' = removing \/ removing'.state = "idle")
  BY <1>0 DEF ListRefetched
<1>3. RecordTypes'
  BY <1>1, <1>2, ListRests DEF RecordInv, RecordTypes, RecordTypeOK, Requests
<1>4. IdsAreUsed'
  BY <1>1, <1>2 DEF RecordInv, IdsAreUsed, Used
<1>. QED
  BY <1>1, <1>3, <1>4, ListRests DEF RecordInv

\* The dialog opens, closes, is confirmed, or what it asked for fails.
LEMMA DialogKeeps ==
    ASSUME RecordInv,
           (\E r \in Records : ChooseTarget(r)) \/ DropTarget \/ ConfirmRemoval
              \/ RemoveFails
    PROVE  RecordInv'
<1>0. /\ removing \in Requests /\ target \in Records \cup {NoRecord}
      /\ NoRequest \in Requests /\ NoRequest.state = "idle"
  BY DEF RecordInv, RecordTypes, RecordTypeOK, Requests, NoRequest
<1>1. UNCHANGED <<kind, listVars, server, used, form, created, creating, resolving, resolved,
                  madeKnown, goneKnown>>
  BY DEF ChooseTarget, DropTarget, ConfirmRemoval, RemoveFails, createVars,
     resolveVars, knownVars
<1>2. /\ removing' \in Requests /\ target' \in Records \cup {NoRecord}
      /\ removing'.state # "answered"
  <2>1. CASE (\E r \in Records : ChooseTarget(r)) \/ DropTarget
    BY <1>0, <2>1 DEF ChooseTarget, DropTarget
  <2>2. CASE ConfirmRemoval
    <3>1. /\ removing' = [NoRequest EXCEPT !.state = "sent", !.record = target]
          /\ target' = target
      BY <2>2 DEF ConfirmRemoval
    <3>. QED
      BY <1>0, <3>1 DEF Requests
  <2>3. CASE RemoveFails
    BY <1>0, <2>3 DEF RemoveFails
  <2>. QED
    BY <2>1, <2>2, <2>3
<1>3. RecordTypes'
  BY <1>1, <1>2, ListRests DEF RecordInv, RecordTypes, RecordTypeOK, Requests
<1>4. IdsAreUsed'
  BY <1>1, <1>2 DEF RecordInv, IdsAreUsed, Used
<1>. QED
  BY <1>1, <1>3, <1>4, ListRests DEF RecordInv

\* The server removes the record: its number is never given again.
LEMMA ServeRemoveKeeps ==
    ASSUME RecordInv, ServeRemove
    PROVE  RecordInv'
<1>0. /\ removing \in Requests /\ removing.state = "sent" /\ removing.record \in server
      /\ server \subseteq Used
  BY DEF RecordInv, RecordTypes, IdsAreUsed, ServeRemove
<1>1. /\ UNCHANGED <<kind, used, listVars, form, created, creating, target, resolving, resolved,
                     madeKnown, goneKnown>>
      /\ server' = server \ {removing.record}
      /\ removing' = [removing EXCEPT !.state = "answered"]
  BY DEF ServeRemove, createVars, resolveVars, knownVars
<1>2. /\ removing' \in Requests /\ removing'.state = "answered"
      /\ removing'.record = removing.record
  BY <1>0, <1>1 DEF Requests
<1>3. RecordTypes'
  BY <1>0, <1>1, <1>2 DEF RecordInv, RecordTypes, RecordTypeOK, Requests, listVars
<1>4. IdsAreUsed'
  BY <1>0, <1>1, <1>2 DEF RecordInv, IdsAreUsed, Used
<1>5. ListIsConfirmed'
  BY <1>1 DEF RecordInv, ListIsConfirmed, Confirmed, listVars
<1>. QED
  BY <1>3, <1>4, <1>5 DEF RecordInv

\* The page has the answer to the removal.
LEMMA RemovedKeeps ==
    ASSUME RecordInv, Removed
    PROVE  RecordInv'
<1>0. /\ removing \in Requests /\ removing.state = "answered"
      /\ removing.record \in Used \ server
      /\ NoRequest \in Requests /\ NoRequest.state = "idle"
  BY DEF RecordInv, RecordTypes, IdsAreUsed, Removed, Requests, NoRequest
<1>1. /\ UNCHANGED <<kind, server, used, form, created, creating, resolving, resolved, madeKnown>>
      /\ target' = NoRecord
      /\ goneKnown' = goneKnown \cup {removing.record}
      /\ InvalidateList
  BY DEF Removed, createVars, resolveVars
<1>2. removing' \in Requests /\ removing'.state \in {"idle", "refetching"}
  BY <1>0 DEF Removed, Requests
<1>3. /\ list' \in Queries(SUBSET Records) /\ overtaken' \in BOOLEAN
      /\ ListIsConfirmed'
  BY <1>1, InvalidateListStep
<1>4. RecordTypes'
  BY <1>0, <1>1, <1>2, <1>3 DEF RecordInv, RecordTypes, RecordTypeOK, Requests, Used
<1>5. IdsAreUsed'
  BY <1>0, <1>1, <1>2 DEF RecordInv, IdsAreUsed, Used
<1>. QED
  BY <1>3, <1>4, <1>5 DEF RecordInv

\* A path is resolved.
LEMMA ResolveKeeps ==
    ASSUME RecordInv,
           \/ \E l \in Labels : resolveAlias(l)
           \/ \E r \in Records : ServeResolve(r)
           \/ Resolved \/ ResolveFails
    PROVE  RecordInv'
<1>0. /\ resolving \in Requests /\ NoRequest \in Requests
      /\ resolved \in Records \cup {NoRecord}
  BY DEF RecordInv, RecordTypes, RecordTypeOK, Requests, NoRequest
<1>1. UNCHANGED <<kind, listVars, server, used, form, created, creating, target, removing,
                  madeKnown, goneKnown>>
  BY DEF resolveAlias, ServeResolve, Resolved, ResolveFails,
     createVars, removeVars, knownVars
<1>2. resolving' \in Requests /\ resolved' \in Records \cup {NoRecord}
  <2>1. CASE \E l \in Labels : resolveAlias(l)
    <3>1. PICK l \in Labels : resolveAlias(l)
      BY <2>1
    <3>. QED
      BY <1>0, <3>1 DEF resolveAlias, Requests
  <2>2. CASE \E r \in Records : ServeResolve(r)
    <3>1. PICK r \in Records : ServeResolve(r)
      BY <2>2
    <3>. QED
      BY <1>0, <3>1 DEF ServeResolve, Requests
  <2>3. CASE Resolved \/ ResolveFails
    BY <1>0, <2>3 DEF Resolved, ResolveFails, Requests
  <2>. QED
    BY <2>1, <2>2, <2>3
<1>3. RecordTypes'
  BY <1>1, <1>2, ListRests DEF RecordInv, RecordTypes, RecordTypeOK, Requests
<1>4. IdsAreUsed'
  BY <1>1 DEF RecordInv, IdsAreUsed, Used
<1>. QED
  BY <1>1, <1>3, <1>4, ListRests DEF RecordInv

LEMMA RecordInvHolds ==
    ASSUME RecordAssumption
    PROVE  RecordSpec => []RecordInv
<1>1. RecordInit => RecordInv
  <2> SUFFICES ASSUME RecordInit PROVE RecordInv
    OBVIOUS
  <2>1. list \in Queries(SUBSET Records) /\ ~HasData(list)
        /\ list.fetch.state = "sent"
    BY DEF RecordInit, Request, EmptyQuery, Idle, Queries, FetchStates,
       HasData
  <2>2. NoRequest \in Requests /\ NoRequest.state = "idle"
    BY DEF NoRequest, Requests
  <2>3. RecordTypes
    <3>1. used \in 0..MaxRecords
      BY DEF RecordInit, RecordAssumption
    <3>2. \A m \in {creating, removing, resolving} : m = NoRequest
      BY DEF RecordInit
    <3>. QED
      BY <2>1, <2>2, <3>1, <3>2 DEF RecordInit, RecordTypes, RecordTypeOK, Requests
  <2>. QED
    BY <2>1, <2>2, <2>3 DEF RecordInit, RecordInv, IdsAreUsed, ListIsConfirmed
<1>2. RecordInv /\ [RecordNext]_recordVars => RecordInv'
  <2> SUFFICES ASSUME RecordInv, [RecordNext]_recordVars PROVE RecordInv'
    OBVIOUS
  <2>1. CASE UNCHANGED recordVars
    BY <2>1 DEF recordVars, RecordInv, RecordTypes, RecordTypeOK, IdsAreUsed, Used,
       ListIsConfirmed, Confirmed
  <2>2. CASE RecordNext
    BY <2>2, ListKeeps, FormKeeps, ServeCreateKeeps, CreatedKeeps, ListRefetchedKeeps,
       DialogKeeps, ServeRemoveKeeps, RemovedKeeps, ResolveKeeps DEF RecordNext
  <2>. QED
    BY <2>1, <2>2
<1>. QED
  BY <1>1, <1>2, PTL DEF RecordSpec

(***************************************************************************)
(* The pages keep their types: no two records with one number, no two      *)
(* aliases with one path.                                                  *)
(***************************************************************************)
THEOREM RecordTypesHold ==
    ASSUME RecordAssumption
    PROVE  RecordSpec => []RecordTypeOK
<1>1. RecordInv => RecordTypeOK
  BY DEF RecordInv, RecordTypes
<1>. QED
  BY <1>1, RecordInvHolds, PTL

(***************************************************************************)
(* Once the list has settled it has every record confirmed as created and  *)
(* none confirmed as removed, unless invalidateQueries has joined the      *)
(* first fetch of the page, which may be older.                            *)
(***************************************************************************)
THEOREM RecordListIsConfirmed ==
    ASSUME RecordAssumption
    PROVE  RecordSpec => []ListShowsWhatIsConfirmed
<1>1. RecordInv => ListShowsWhatIsConfirmed
  BY DEF RecordInv, ListIsConfirmed, Confirmed, ListShowsWhatIsConfirmed
<1>. QED
  BY <1>1, RecordInvHolds, PTL

-----------------------------------------------------------------------------
(***************************************************************************)
(* The library of migration images, for any files, filters and limit.  The *)
(* inductive invariant has two halves.  ServerInv is about the directory,  *)
(* the scan and the snapshot: what is known to be gone is in none of them, *)
(* what is due is in all of them.  ListInv carries both facts to the       *)
(* answers on their way and to the lists of the page.                      *)
(***************************************************************************)

\* TypeOK, and a selection that can be counted.
Types == LibraryTypeOK /\ IsFiniteSet(selected)

\* A deletion that is under way is the one the dialog shows, and so is the path
\* that is just being deleted for it.
DeletionIsShown ==
    /\ DialogShowsWhatIsDeleted
    /\ deletion.todo \subseteq deletion.paths
    /\ leavingFor = "page" =>
          leaving # NoData /\ deletion.state = "sent" /\ leaving \in deletion.todo

\* A scan and a deletion exclude each other; nothing leaves the directory
\* during a scan.
ScanIsOnDisk == scan # NoData => leaving = NoData /\ scan \subseteq disk

\* What the service has deleted for the page: confirmed, or in the answer to come.
Gone == gone \cup deletion.done

\* It is neither on the disk nor in the snapshot.
GoneIsGone == Gone \cap disk = {} /\ Gone \cap snapshot = {}

\* What the service has found for a refresh, now or before.
Found == due \cup refresh.found

\* It is on the disk, in the snapshot and in every scan, and is not leaving.
FoundIsThere ==
    /\ Found \subseteq disk /\ Found \subseteq snapshot
    /\ scan # NoData => Found \subseteq scan
    /\ leaving \notin Found

ServerInv == DeletionIsShown /\ ScanIsOnDisk /\ SnapshotIsOnDisk /\ GoneIsGone /\ FoundIsThere

\* The paths P are right for a list under the filter f.
Right(P, f) == P \cap gone = {} /\ due \cap Matches[f] \subseteq P

\* A list that counts as fresh is right, and so is an answer on its way, unless
\* an older fetch outlived an invalidation.
ListInv ==
    \A f \in Filters \ outdated :
        /\ HasData(lists[f]) /\ ~lists[f].stale => Right(lists[f].data, f)
        /\ lists[f].fetch.state = "answered" => Right(lists[f].fetch.value, f)

LibraryInv == Types /\ ServerInv /\ ListInv

-----------------------------------------------------------------------------
(* Queries.                                                                *)

\* Every operation on a query yields a query.
LEMMA QueryOperations ==
    ASSUME NEW D, NEW q \in Queries(D), NEW v \in D, NEW active \in BOOLEAN
    PROVE  /\ EmptyQuery \in Queries(D)
           /\ Request(q) \in Queries(D) /\ Mounted(q) \in Queries(D)
           /\ Invalidated(q, active) \in Queries(D) /\ Answered(q, v) \in Queries(D)
           /\ Applied(q) \in Queries(D) /\ Failed(q) \in Queries(D)
BY DEF Queries, EmptyQuery, Idle, FetchStates, Request, Mounted, Invalidated, Refetched,
       Answered, Applied, Failed

-----------------------------------------------------------------------------
(* Types.                                                                  *)

\* Another query for one filter.
LEMMA OneList ==
    ASSUME Types, NEW f \in Filters, NEW q \in Queries(SUBSET Paths),
           lists' = [lists EXCEPT ![f] = q]
    PROVE  lists' \in [Filters -> Queries(SUBSET Paths)]
BY DEF Types, LibraryTypeOK

\* What an invalidation leaves are lists.
LEMMA InvalidateListsTypes ==
    ASSUME Types, InvalidateLists
    PROVE  lists' \in [Filters -> Queries(SUBSET Paths)] /\ outdated' \subseteq Filters
<1>1. \A f \in Filters : lists[f] \in Queries(SUBSET Paths)
  BY DEF Types, LibraryTypeOK
<1>2. \A f \in Filters : Invalidated(lists[f], f = filter) \in Queries(SUBSET Paths)
  BY <1>1, QueryOperations, {} \in SUBSET Paths
<1> QED
  BY <1>2 DEF InvalidateLists, Types, LibraryTypeOK

\* A selection stays finite and within its limit.
LEMMA SelectionTypes ==
    ASSUME Types, NEW p \in Paths, toggleSelected(p)
    PROVE  /\ selected' \in SUBSET Paths /\ IsFiniteSet(selected')
           /\ Cardinality(selected') <= SelectionLimit
<1>0. selected \in SUBSET Paths /\ IsFiniteSet(selected) /\ Cardinality(selected) <= SelectionLimit
  BY DEF Types, LibraryTypeOK
<1>1. Cardinality(selected) \in Nat /\ SelectionLimit \in Nat
  BY <1>0, FS_CardinalityType, LibraryAssumption
<1>2. CASE p \in selected
  <2>1. /\ IsFiniteSet(selected \ {p})
        /\ Cardinality(selected \ {p}) = Cardinality(selected) - 1
    BY <1>0, <1>2, FS_RemoveElement
  <2> QED
    BY <1>0, <1>1, <1>2, <2>1 DEF toggleSelected
<1>3. CASE p \notin selected
  <2>1. /\ IsFiniteSet(selected \cup {p})
        /\ Cardinality(selected \cup {p}) = Cardinality(selected) + 1
    BY <1>0, <1>3, FS_AddElement
  <2> QED
    BY <1>0, <1>1, <1>3, <2>1 DEF toggleSelected
<1> QED
  BY <1>2, <1>3

\* The two mutations of the page and their steps.
LEMMA MutationTypes ==
    ASSUME Types, NEW P \in SUBSET Paths
    PROVE  /\ NoRefresh \in Refreshes /\ NoDeletion \in Deletions
           /\ [NoRefresh EXCEPT !.state = "sent"] \in Refreshes
           /\ [NoRefresh EXCEPT !.state = "refetching", !.filter = filter] \in Refreshes
           /\ [state |-> "sent", paths |-> P, todo |-> P, done |-> {}] \in Deletions
           /\ [deletion EXCEPT !.state = "answered"] \in Deletions
           /\ [deletion EXCEPT !.todo = @ \ P, !.done = @ \cup P] \in Deletions
           /\ [deletion EXCEPT !.done = @ \ P] \in Deletions
           /\ [deletion EXCEPT !.todo = @ \ P] \in Deletions
           /\ [refresh EXCEPT !.found = @ \ P] \in Refreshes
           /\ [refresh EXCEPT !.state = "answered", !.found = P] \in Refreshes
           /\ [deletion EXCEPT !.todo = @ \ {leaving}, !.done = @ \cup P] \in Deletions
BY DEF Types, LibraryTypeOK, NoRefresh, NoDeletion, Refreshes, Deletions

\* An empty selection is within the limit.
LEMMA NoSelection == IsFiniteSet({}) /\ Cardinality({}) <= SelectionLimit
<1>1. SelectionLimit \in Nat
  BY LibraryAssumption
<1> QED
  BY <1>1, FS_EmptySet

LEMMA InitTypes == LibraryInit => Types
<1> SUFFICES ASSUME LibraryInit PROVE Types
  OBVIOUS
<1>1. lists \in [Filters -> Queries(SUBSET Paths)]
  <2>1. EmptyQuery \in Queries(SUBSET Paths)
    BY DEF EmptyQuery, Queries, Idle, FetchStates
  <2>2. Request(EmptyQuery) \in Queries(SUBSET Paths)
    BY <2>1, QueryOperations, {} \in SUBSET Paths
  <2> QED
    BY <2>1, <2>2 DEF LibraryInit
<1>2. NoRefresh \in Refreshes /\ NoDeletion \in Deletions
  BY DEF NoRefresh, NoDeletion, Refreshes, Deletions
<1>3. abandoned \in [Paths -> 0..MaxAbandoned]
  BY LibraryAssumption DEF LibraryInit
<1> QED
  BY <1>1, <1>2, <1>3, NoSelection DEF LibraryInit, Types, LibraryTypeOK

LEMMA NextTypes == Types /\ [LibraryNext]_libraryVars => Types'
<1> SUFFICES ASSUME Types, [LibraryNext]_libraryVars PROVE Types'
  OBVIOUS
<1>0. /\ \A f \in Filters : lists[f] \in Queries(SUBSET Paths)
      /\ snapshot \in SUBSET Paths /\ deleteSnapshot \in SUBSET Paths
  BY DEF Types, LibraryTypeOK
<1>1. ASSUME NEW p \in Paths, CopyFile(p) PROVE Types'
  <2>1. [deletion EXCEPT !.done = @ \ {p}] \in Deletions
    BY MutationTypes, {p} \in SUBSET Paths
  <2> QED
    BY <1>1, <2>1 DEF CopyFile, pageVars, dialogVars, scanVars, leavingVars, Types, LibraryTypeOK
<1>2. CASE Expire
  BY <1>2 DEF Expire, pageVars, dialogVars, scanVars, leavingVars, ghosts, Types, LibraryTypeOK
<1>3. CASE \E who \in {"nobody", "list", "refresh"} : ScanBegins(who)
  BY <1>3 DEF ScanBegins, pageVars, dialogVars, leavingVars, ghosts, Types, LibraryTypeOK
<1>4. CASE ScanEnds \/ ScanFails
  <2>1. refresh' \in Refreshes
    <3>1. scan \in SUBSET Paths /\ refresh \in Refreshes
      BY <1>4 DEF ScanEnds, ScanFails, Types, LibraryTypeOK
    <3> QED
      BY <1>4, <3>1, MutationTypes DEF ScanEnds, ScanFails
  <2> QED
    BY <1>4, <2>1 DEF ScanEnds, ScanFails, pageVars, dialogVars, leavingVars, ghosts, Types,
       LibraryTypeOK
<1>5. ASSUME NEW f \in Filters, Search(f) \/ ListArrives(f) \/ ListFails(f) \/ ChangeFilter(f)
      PROVE  Types'
  <2>1. snapshot \cap Matches[f] \in SUBSET Paths
    BY <1>0
  <2>2. lists' \in [Filters -> Queries(SUBSET Paths)]
    <3>1. \E q \in Queries(SUBSET Paths) : lists' = [lists EXCEPT ![f] = q]
      BY <1>0, <1>5, <2>1, QueryOperations DEF Search, ListArrives, ListFails, ChangeFilter
    <3> QED
      BY <3>1, OneList
  <2>3. selected' = selected \/ selected' = {}
    BY <1>5 DEF Search, ListArrives, ListFails, ChangeFilter
  <2>4. IsFiniteSet(selected') /\ Cardinality(selected') <= SelectionLimit
    BY <2>3, NoSelection DEF Types, LibraryTypeOK
  <2>5. UNCHANGED <<serverVars, dialogVars, refresh, deletion, gone, due>>
    BY <1>5 DEF Search, ListArrives, ListFails, ChangeFilter, ghosts
  <2>6. filter' \in Filters /\ outdated' \subseteq Filters
    <3>1. filter \in Filters /\ outdated \subseteq Filters
      BY DEF Types, LibraryTypeOK
    <3>2. CASE ChangeFilter(f)
      BY <3>1, <3>2 DEF ChangeFilter
    <3>3. CASE Search(f) \/ ListArrives(f) \/ ListFails(f)
      BY <3>1, <3>3 DEF Search, ListArrives, ListFails, ghosts
    <3> QED
      BY <1>5, <3>2, <3>3
  <2>7. selected' \in SUBSET Paths
    BY <2>3 DEF Types, LibraryTypeOK
  <2> QED
    BY <2>2, <2>4, <2>5, <2>6, <2>7 DEF serverVars, scanVars, leavingVars, dialogVars,
       Types, LibraryTypeOK
<1>6. ASSUME NEW p \in Paths,
             Delete(p) \/ DeleteRefused(p) \/ DeleteAbandoned(p) \/ AbandonedStops(p)
      PROVE  Types'
  <2>1. abandoned' \in [Paths -> 0..MaxAbandoned]
    BY <1>6, LibraryAssumption DEF Delete, DeleteRefused, DeleteAbandoned, AbandonedStops,
       serverVars, leavingVars, Types, LibraryTypeOK
  <2>2. CASE Delete(p) \/ DeleteAbandoned(p)
    <3>1. refresh' \in Refreshes
      BY <2>2, MutationTypes, {p} \in SUBSET Paths DEF Delete, DeleteAbandoned, RemoveFile
    <3> QED
      BY <2>1, <2>2, <3>1 DEF Delete, DeleteAbandoned, RemoveFile, pageVars, dialogVars,
         scanVars, Types, LibraryTypeOK
  <2>3. CASE DeleteRefused(p)
    <3>1. deletion' \in Deletions
      BY <2>3, MutationTypes, {p} \in SUBSET Paths DEF DeleteRefused
    <3> QED
      BY <2>1, <2>3, <3>1 DEF DeleteRefused, serverVars, scanVars, leavingVars, pageVars,
         dialogVars, ghosts, Types, LibraryTypeOK
  <2>4. CASE AbandonedStops(p)
    BY <2>1, <2>4 DEF AbandonedStops, scanVars, pageVars, dialogVars, ghosts, Types, LibraryTypeOK
  <2> QED
    BY <1>6, <2>2, <2>3, <2>4
<1>7. ASSUME NEW p \in Paths, toggleSelected(p) PROVE Types'
  BY <1>7, SelectionTypes DEF toggleSelected, serverVars, scanVars, leavingVars, dialogVars, ghosts,
       Types, LibraryTypeOK
<1>8. CASE DeleteEnds \/ BatchEnds
  <2>1. CASE DeleteEnds
    <3>1. leaving \in Paths /\ {leaving} \ disk \in SUBSET Paths
      BY <2>1 DEF DeleteEnds, Types, LibraryTypeOK
    <3>2. /\ deletion \in Deletions
          /\ [deletion EXCEPT !.todo = @ \ {leaving}, !.done = @ \cup ({leaving} \ disk)] \in Deletions
      BY <3>1, MutationTypes DEF Types, LibraryTypeOK
    <3>3. deletion' \in Deletions
      BY <2>1, <3>2 DEF DeleteEnds
    <3> QED
      BY <2>1, <3>1, <3>3 DEF DeleteEnds, removeCachedPath, scanVars, pageVars, dialogVars, ghosts,
         Types, LibraryTypeOK
  <2>2. CASE BatchEnds
    <3>1. deletion' \in Deletions
      BY <2>2, MutationTypes, {} \in SUBSET Paths DEF BatchEnds
    <3> QED
      BY <2>2, <3>1 DEF BatchEnds, serverVars, scanVars, leavingVars, pageVars, dialogVars, ghosts,
         Types, LibraryTypeOK
  <2> QED
    BY <1>8, <2>1, <2>2
<1>9. CASE ClearSelection
  BY <1>9, NoSelection DEF ClearSelection, serverVars, scanVars, leavingVars, dialogVars, ghosts,
       Types, LibraryTypeOK
<1>10. CASE \E ps \in SUBSET Paths : confirmDelete(ps)
  BY <1>10 DEF confirmDelete, serverVars, scanVars, leavingVars, ghosts,
       Types, LibraryTypeOK
<1>11. CASE CloseDialog
  BY <1>11 DEF CloseDialog, serverVars, scanVars, leavingVars, ghosts,
       Types, LibraryTypeOK
<1>12. CASE Confirm \/ DeletionFails
  <2>1. deletion' \in Deletions
    BY <1>0, <1>12, MutationTypes DEF Confirm, DeletionFails
  <2>2. abandoned' \in [Paths -> 0..MaxAbandoned]
    BY <1>12, LibraryAssumption DEF Confirm, DeletionFails, serverVars, leavingVars, Types,
       LibraryTypeOK
  <2> QED
    BY <1>12, <2>1, <2>2 DEF Confirm, DeletionFails, serverVars, scanVars, leavingVars, pageVars,
       dialogVars, ghosts, Types, LibraryTypeOK
<1>13. CASE Refresh \/ RefreshSettles \/ RefreshFails
  <2>1. refresh' \in Refreshes
    BY <1>0, <1>13, MutationTypes DEF Refresh, RefreshSettles, RefreshFails
  <2> QED
    BY <1>13, <2>1 DEF Refresh, RefreshSettles, RefreshFails, serverVars, scanVars, leavingVars,
       pageVars, dialogVars, ghosts, Types, LibraryTypeOK
<1>14. CASE RefreshSucceeds
  <2>1. refresh' \in Refreshes /\ refresh.found \in SUBSET Paths
    BY <1>0, <1>14, MutationTypes DEF RefreshSucceeds, Types, LibraryTypeOK, Refreshes
  <2>2. lists' \in [Filters -> Queries(SUBSET Paths)] /\ outdated' \subseteq Filters
    BY <1>14, InvalidateListsTypes DEF RefreshSucceeds
  <2> QED
    BY <1>14, <2>1, <2>2, NoSelection DEF RefreshSucceeds, serverVars, scanVars, leavingVars, dialogVars,
       Types, LibraryTypeOK
<1>15. CASE DeletionSucceeds
  <2>1. refresh' \in Refreshes /\ deletion' \in Deletions /\ deletion.done \in SUBSET Paths
    BY <1>0, <1>15, MutationTypes DEF DeletionSucceeds, Types, LibraryTypeOK, Deletions
  <2>2. lists' \in [Filters -> Queries(SUBSET Paths)] /\ outdated' \subseteq Filters
    BY <1>15, InvalidateListsTypes DEF DeletionSucceeds
  <2> QED
    BY <1>15, <2>1, <2>2, NoSelection DEF DeletionSucceeds, serverVars, scanVars, leavingVars,
       Types, LibraryTypeOK
<1>16. CASE UNCHANGED libraryVars
  BY <1>16 DEF libraryVars, Types, LibraryTypeOK
<1> QED
  BY <1>1, <1>2, <1>3, <1>4, <1>5, <1>6, <1>7, <1>8, <1>9, <1>10, <1>11, <1>12, <1>13,
     <1>14, <1>15, <1>16 DEF LibraryNext

-----------------------------------------------------------------------------
(* The service.                                                            *)

\* A step of the page, or one that asks for less.
LEMMA ServerFrame ==
    ASSUME ServerInv, UNCHANGED <<disk, snapshot, scan, leaving>>, Gone' \subseteq Gone,
           Found' \subseteq Found, DeletionIsShown'
    PROVE  ServerInv'
BY DEF ServerInv, ScanIsOnDisk, SnapshotIsOnDisk, GoneIsGone, FoundIsThere

\* A step that leaves the deletion alone.
LEMMA DeletionFrame ==
    ASSUME ServerInv, UNCHANGED <<leaving, leavingFor, deletion, dialogVars>>
    PROVE  DeletionIsShown'
BY DEF ServerInv, DeletionIsShown, DialogShowsWhatIsDeleted, Deleting, dialogVars

\* A file is removed from the directory; no scan is under way.
LEMMA DeleteServer ==
    ASSUME Types, ServerInv, NEW p \in Paths, Delete(p) \/ DeleteAbandoned(p)
    PROVE  ServerInv'
<1>1. /\ leaving = NoData /\ scan = NoData /\ leaving' = p /\ disk' = disk \ {p}
      /\ UNCHANGED <<snapshot, scan, deletion, confirmOpen, deleteSnapshot, gone>>
      /\ leavingFor' = "page" => deletion.state = "sent" /\ p \in deletion.todo
  BY DEF Delete, DeleteAbandoned, RemoveFile, Unanswered, MutationMuFree, scanVars, pageVars,
     dialogVars
<1>2. Found' \subseteq Found \ {p} /\ Gone' = Gone
  BY <1>1 DEF Delete, DeleteAbandoned, RemoveFile, Found, Gone, Types, LibraryTypeOK, Refreshes
<1>3. NoData \notin snapshot /\ p # NoData
  BY LibraryAssumption DEF Types, LibraryTypeOK
<1>4. DeletionIsShown'
  BY <1>1, <1>3 DEF ServerInv, DeletionIsShown, DialogShowsWhatIsDeleted, Deleting
<1> QED
  BY <1>1, <1>2, <1>3, <1>4 DEF ServerInv, ScanIsOnDisk, SnapshotIsOnDisk, GoneIsGone, FoundIsThere

\* The snapshot is published: nothing has left the directory since.
LEMMA ScanEndsServer ==
    ASSUME Types, ServerInv, ScanEnds
    PROVE  ServerInv'
<1>1. /\ scan # NoData /\ leaving = NoData /\ scan' = NoData /\ snapshot' = scan
      /\ UNCHANGED <<disk, leaving, leavingFor, deletion, dialogVars, gone, due>>
  BY DEF ScanEnds, leavingVars, pageVars, dialogVars, ghosts, ServerInv, ScanIsOnDisk
<1>2. scan \in SUBSET Paths
  BY <1>1 DEF Types, LibraryTypeOK
<1>3. Found' \subseteq Found \cup scan
  BY <1>1 DEF ScanEnds, Found, Types, LibraryTypeOK, Refreshes
<1>6. Gone' = Gone
  BY <1>1 DEF Gone
<1>4. leaving \notin scan
  BY <1>1, <1>2, LibraryAssumption
<1>5. DeletionIsShown'
  BY <1>1, DeletionFrame
<1> QED
  BY <1>1, <1>2, <1>3, <1>4, <1>5, <1>6 DEF ServerInv, ScanIsOnDisk, SnapshotIsOnDisk, GoneIsGone, FoundIsThere

\* A path is dropped from the snapshot: unless it was copied in again, it is
\* gone.
LEMMA DeleteEndsServer ==
    ASSUME Types, ServerInv, DeleteEnds
    PROVE  ServerInv'
<1>1. /\ UNCHANGED <<disk, scan, confirmOpen, deleteSnapshot, gone, due, refresh>>
      /\ leaving # NoData /\ leaving' = NoData /\ leavingFor' = "nobody"
      /\ snapshot' = snapshot \ {leaving}
  BY DEF DeleteEnds, removeCachedPath, scanVars, pageVars, dialogVars, ghosts
<1>2. deletion \in Deletions
  BY DEF Types, LibraryTypeOK
<1>3. /\ deletion'.state = deletion.state /\ deletion'.paths = deletion.paths
      /\ deletion'.todo \subseteq deletion.todo
      /\ deletion'.done \subseteq deletion.done \cup ({leaving} \ disk)
  BY <1>2 DEF DeleteEnds, Deletions
<1>4. DeletionIsShown'
  BY <1>1, <1>3 DEF ServerInv, DeletionIsShown, DialogShowsWhatIsDeleted, Deleting
<1>5. Found' = Found /\ NoData \notin Found
  BY <1>1, LibraryAssumption DEF Found, Types, LibraryTypeOK, Refreshes
<1>6. Gone' \subseteq Gone \cup ({leaving} \ disk)
  BY <1>1, <1>3 DEF Gone
<1> QED
  BY <1>1, <1>4, <1>5, <1>6 DEF ServerInv, ScanIsOnDisk, SnapshotIsOnDisk, GoneIsGone, FoundIsThere

\* What the answer to the batch says is gone was so before.
LEMMA DeletionSucceedsServer ==
    ASSUME Types, ServerInv, DeletionSucceeds
    PROVE  ServerInv'
<1>1. /\ UNCHANGED <<disk, snapshot, scan, leaving, leavingFor, due>>
      /\ gone' = gone \cup deletion.done
      /\ deletion.state = "answered" /\ deletion' = NoDeletion
  BY DEF DeletionSucceeds, serverVars, scanVars, leavingVars
<1>2. leavingFor # "page"
  BY <1>1 DEF ServerInv, DeletionIsShown
<1>3. Gone' = Gone
  BY <1>1 DEF Gone, NoDeletion
<1>4. Found' \subseteq Found
  BY <1>1 DEF DeletionSucceeds, Found, NoRefresh
<1>5. DeletionIsShown'
  BY <1>1, <1>2 DEF DeletionIsShown, DialogShowsWhatIsDeleted, Deleting, NoDeletion
<1> QED
  BY <1>1, <1>3, <1>4, <1>5, ServerFrame

LEMMA NextServer == Types /\ ServerInv /\ [LibraryNext]_libraryVars => ServerInv'
<1> SUFFICES ASSUME Types, ServerInv, [LibraryNext]_libraryVars PROVE ServerInv'
  OBVIOUS
<1> USE DEF serverVars, scanVars, leavingVars, pageVars, dialogVars, ghosts
<1>1. ASSUME NEW p \in Paths, CopyFile(p) PROVE ServerInv'
  <2>1. /\ UNCHANGED <<snapshot, scan, leaving, leavingFor, confirmOpen, deleteSnapshot, refresh, due>>
        /\ disk' = disk \cup {p} /\ gone' = gone \ {p}
        /\ deletion' = [deletion EXCEPT !.done = @ \ {p}]
    BY <1>1 DEF CopyFile
  <2>2. /\ deletion'.state = deletion.state /\ deletion'.paths = deletion.paths
        /\ deletion'.todo = deletion.todo /\ deletion'.done = deletion.done \ {p}
    BY <2>1 DEF Types, LibraryTypeOK, Deletions
  <2>3. DeletionIsShown'
    BY <2>1, <2>2 DEF ServerInv, DeletionIsShown, DialogShowsWhatIsDeleted, Deleting
  <2>4. Gone' = Gone \ {p} /\ Found' = Found
    BY <2>1, <2>2 DEF Gone, Found
  <2> QED
    BY <2>1, <2>3, <2>4 DEF ServerInv, ScanIsOnDisk, SnapshotIsOnDisk, GoneIsGone, FoundIsThere
<1>2. CASE Expire
  BY <1>2, ServerFrame, DeletionFrame DEF Expire, Found, Gone
<1>3. ASSUME NEW who \in {"nobody", "list", "refresh"}, ScanBegins(who) PROVE ServerInv'
  BY <1>3, DeletionFrame DEF ScanBegins, MutationMuFree, Found, Gone, ServerInv,
     ScanIsOnDisk, SnapshotIsOnDisk, GoneIsGone, FoundIsThere
<1>4. CASE ScanEnds
  BY <1>4, ScanEndsServer
<1>5. ASSUME NEW f \in Filters, Search(f) \/ ListArrives(f) \/ ListFails(f) \/ ChangeFilter(f)
      PROVE  ServerInv'
  BY <1>5, ServerFrame, DeletionFrame DEF Search, ListArrives, ListFails, ChangeFilter, Found, Gone
<1>6. ASSUME NEW p \in Paths, Delete(p) \/ DeleteAbandoned(p) PROVE ServerInv'
  BY <1>6, DeleteServer
<1>7. ASSUME NEW p \in Paths, DeleteRefused(p) PROVE ServerInv'
  <2>1. /\ deletion' = [deletion EXCEPT !.todo = @ \ {p}] /\ leaving = NoData
        /\ UNCHANGED <<disk, snapshot, scan, leaving, leavingFor, confirmOpen, deleteSnapshot,
                       refresh, gone, due>>
    BY <1>7 DEF DeleteRefused, MutationMuFree
  <2>2. /\ deletion'.state = deletion.state /\ deletion'.paths = deletion.paths
        /\ deletion'.todo = deletion.todo \ {p} /\ deletion'.done = deletion.done
    BY <2>1 DEF Types, LibraryTypeOK, Deletions
  <2>3. DeletionIsShown'
    BY <2>1, <2>2 DEF ServerInv, DeletionIsShown, DialogShowsWhatIsDeleted, Deleting
  <2> QED
    BY <2>1, <2>2, <2>3, ServerFrame DEF Found, Gone
<1>8. ASSUME NEW p \in Paths, toggleSelected(p) \/ AbandonedStops(p) PROVE ServerInv'
  BY <1>8, ServerFrame, DeletionFrame DEF toggleSelected, AbandonedStops, Found, Gone
<1>9. CASE DeleteEnds
  BY <1>9, DeleteEndsServer
<1>10. CASE BatchEnds
  <2>1. /\ UNCHANGED <<disk, snapshot, scan, leaving, leavingFor, confirmOpen, deleteSnapshot,
                       gone, due, refresh>>
        /\ deletion.state = "sent" /\ deletion.todo = {}
        /\ deletion' = [deletion EXCEPT !.state = "answered"]
    BY <1>10 DEF BatchEnds
  <2>2. deletion'.paths = deletion.paths /\ deletion'.todo = {} /\ deletion'.done = deletion.done
    BY <2>1 DEF Types, LibraryTypeOK, Deletions
  <2>3. DeletionIsShown'
    BY <2>1, <2>2 DEF ServerInv, DeletionIsShown, DialogShowsWhatIsDeleted, Deleting
  <2> QED
    BY <2>1, <2>2, <2>3, ServerFrame DEF Found, Gone
<1>11. CASE ClearSelection \/ Refresh \/ RefreshSettles \/ RefreshFails
  BY <1>11, ServerFrame, DeletionFrame DEF ClearSelection, Refresh, RefreshSettles,
     RefreshFails, NoRefresh, Found, Gone
<1>12. CASE (\E ps \in SUBSET Paths : confirmDelete(ps)) \/ CloseDialog \/ Confirm \/ DeletionFails
  <2>1. DeletionIsShown'
    BY <1>12 DEF confirmDelete, CloseDialog, Confirm, DeletionFails, NoDeletion,
       ServerInv, DeletionIsShown, DialogShowsWhatIsDeleted, Deleting
  <2>2. Gone' \subseteq Gone
    BY <1>12 DEF confirmDelete, CloseDialog, Confirm, DeletionFails, NoDeletion, Gone
  <2> QED
    BY <1>12, <2>1, <2>2, ServerFrame DEF confirmDelete, CloseDialog, Confirm, DeletionFails, Found
<1>13. CASE RefreshSucceeds
  <2>1. /\ UNCHANGED <<disk, snapshot, scan, leaving, leavingFor, gone, deletion, dialogVars>>
        /\ due' = refresh.found /\ refresh'.found = {}
    BY <1>13 DEF RefreshSucceeds, NoRefresh
  <2> QED
    BY <2>1, ServerFrame, DeletionFrame DEF Found, Gone
<1>14. CASE DeletionSucceeds
  BY <1>14, DeletionSucceedsServer
<1>15. CASE UNCHANGED libraryVars
  BY <1>15, ServerFrame, DeletionFrame DEF libraryVars, Found, Gone
<1>16. CASE ScanFails
  <2>1. /\ UNCHANGED <<disk, snapshot, leaving, leavingFor, gone, due, deletion, dialogVars>>
        /\ scan' = NoData /\ refresh' \in {refresh, NoRefresh}
    BY <1>16 DEF ScanFails
  <2>2. Found' \subseteq Found /\ Gone' = Gone
    BY <2>1 DEF Found, Gone, NoRefresh
  <2> QED
    BY <2>1, <2>2, DeletionFrame DEF ServerInv, ScanIsOnDisk, SnapshotIsOnDisk, GoneIsGone,
       FoundIsThere
<1> QED
  BY <1>1, <1>2, <1>3, <1>4, <1>5, <1>6, <1>7, <1>8, <1>9, <1>10, <1>11, <1>12, <1>13,
     <1>14, <1>15, <1>16 DEF LibraryNext

-----------------------------------------------------------------------------
(* The lists of the page.                                                  *)

\* What ListInv says of the query q for the filter f.
Sound(q, f) ==
    /\ HasData(q) /\ ~q.stale => Right(q.data, f)
    /\ q.fetch.state = "answered" => Right(q.fetch.value, f)

\* Less is known to be gone or due: a right list stays right.
LEMMA ListFrame ==
    ASSUME ListInv, UNCHANGED <<lists, outdated>>, gone' \subseteq gone, due' \subseteq due
    PROVE  ListInv'
BY DEF ListInv, Right, HasData

\* One query changes and is sound.
LEMMA OneListStep ==
    ASSUME Types, ListInv, NEW f \in Filters, NEW q, lists' = [lists EXCEPT ![f] = q],
           f \notin outdated' => Sound(q, f),
           outdated \ {f} \subseteq outdated', UNCHANGED <<gone, due>>
    PROVE  ListInv'
BY DEF ListInv, Sound, Right, HasData, Types, LibraryTypeOK

\* An invalidation leaves nothing that counts as fresh, and every answer from
\* before it is marked.
LEMMA InvalidateListsStep ==
    ASSUME Types, InvalidateLists
    PROVE  ListInv'
<1> SUFFICES ASSUME NEW f \in Filters, f \notin outdated'
             PROVE  lists'[f].stale /\ lists'[f].fetch.state # "answered"
  BY DEF ListInv
<1>1. lists'[f] = Invalidated(lists[f], f = filter)
  BY DEF InvalidateLists
<1>2. ~(Fetching(lists[f]) /\ (f # filter \/ Joins(lists[f])))
  BY DEF InvalidateLists
<1>3. lists[f] \in Queries(SUBSET Paths)
  BY DEF Types, LibraryTypeOK
<1>4. CASE f # filter
  BY <1>1, <1>2, <1>3, <1>4 DEF Invalidated, Fetching, Queries
<1>5. CASE f = filter
  <2>1. Joins([lists[f] EXCEPT !.stale = TRUE]) = Joins(lists[f])
    BY <1>3 DEF Joins, HasData, Fetching, Queries
  <2> QED
    BY <1>1, <1>2, <1>3, <1>5, <2>1 DEF Invalidated, Refetched, Request, Joins, Fetching, Queries
<1> QED
  BY <1>4, <1>5

\* The operations on one query keep it sound.
LEMMA QuerySteps ==
    ASSUME NEW q \in Queries(SUBSET Paths), NEW f \in Filters, Sound(q, f), NEW P \in SUBSET Paths
    PROVE  /\ Sound(Request(q), f) /\ Sound(Mounted(q), f) /\ Sound(Failed(q), f)
           /\ Right(P, f) => Sound(Answered(q, P), f)
           /\ q.fetch.state = "answered" => Sound(Applied(q), f)
BY DEF Sound, Queries, Request, Mounted, Failed, Answered, Applied, HasData, Idle

\* Search answers from the snapshot, which is right.
LEMMA SnapshotIsRight ==
    ASSUME Types, ServerInv, NEW f \in Filters
    PROVE  Right(snapshot \cap Matches[f], f)
BY DEF ServerInv, GoneIsGone, Gone, FoundIsThere, Found, Right

LEMMA NextLists == Types /\ ServerInv /\ ListInv /\ [LibraryNext]_libraryVars => ListInv'
<1> SUFFICES ASSUME Types, ServerInv, ListInv, [LibraryNext]_libraryVars PROVE ListInv'
  OBVIOUS
<1>0. \A f \in Filters :
          lists[f] \in Queries(SUBSET Paths) /\ (f \notin outdated => Sound(lists[f], f))
  BY DEF Types, LibraryTypeOK, ListInv, Sound
<1>1. ASSUME NEW p \in Paths, CopyFile(p) \/ Delete(p) \/ DeleteAbandoned(p) PROVE ListInv'
  BY <1>1, ListFrame DEF CopyFile, Delete, DeleteAbandoned, RemoveFile, pageVars
<1>2. ASSUME NEW f \in Filters, Search(f) PROVE ListInv'
  <2>1. Right(snapshot \cap Matches[f], f) /\ snapshot \cap Matches[f] \in SUBSET Paths
    BY SnapshotIsRight DEF Types, LibraryTypeOK
  <2>2. f \notin outdated => Sound(Answered(lists[f], snapshot \cap Matches[f]), f)
    BY <1>0, <2>1, QuerySteps
  <2> QED
    BY <1>2, <2>2, OneListStep DEF Search, ghosts
<1>3. ASSUME NEW f \in Filters, ListArrives(f) \/ ListFails(f) PROVE ListInv'
  <2>1. PICK q : lists' = [lists EXCEPT ![f] = q] /\ (f \notin outdated => Sound(q, f))
    BY <1>0, <1>3, QuerySteps, {} \in SUBSET Paths DEF ListArrives, ListFails
  <2> QED
    BY <1>3, <2>1, OneListStep DEF ListArrives, ListFails, ghosts
<1>4. ASSUME NEW f \in Filters, ChangeFilter(f) PROVE ListInv'
  <2>1. CASE lists' = lists
    BY <1>4, <2>1, ListFrame DEF ChangeFilter
  <2>2. CASE lists' # lists
    <3>1. lists' = [lists EXCEPT ![f] = Mounted(lists[f])] /\ outdated' = outdated \ {f}
      BY <1>4, <2>2 DEF ChangeFilter
    <3>2. Mounted(lists[f]) = Request(lists[f]) /\ lists[f].stale
      BY <2>2, <3>1 DEF Mounted, Types, LibraryTypeOK
    <3>3. Sound(Mounted(lists[f]), f)
      BY <1>0, <3>2 DEF Request, Sound, Queries
    <3> QED
      BY <1>4, <3>1, <3>3, OneListStep DEF ChangeFilter
  <2> QED
    BY <2>1, <2>2
<1>5. CASE RefreshSucceeds \/ DeletionSucceeds
  BY <1>5, InvalidateListsStep DEF RefreshSucceeds, DeletionSucceeds
<1>6. CASE UNCHANGED <<lists, outdated, gone, due>>
  BY <1>6, ListFrame
<1>7. \/ \E who \in {"nobody", "list", "refresh"} : ScanBegins(who)
      \/ \E p \in Paths : DeleteRefused(p) \/ toggleSelected(p) \/ AbandonedStops(p)
      \/ \E ps \in SUBSET Paths : confirmDelete(ps)
      \/ Expire \/ ScanEnds \/ ScanFails \/ DeleteEnds \/ BatchEnds \/ ClearSelection \/ CloseDialog \/ Confirm
      \/ Refresh \/ RefreshSettles \/ RefreshFails \/ DeletionFails \/ UNCHANGED libraryVars
      => UNCHANGED <<lists, outdated, gone, due>>
  BY DEF ScanBegins, DeleteRefused, toggleSelected, AbandonedStops, confirmDelete, Expire,
     ScanEnds, ScanFails, DeleteEnds, BatchEnds, ClearSelection, CloseDialog, Confirm, Refresh,
     RefreshSettles, RefreshFails, DeletionFails, libraryVars, pageVars, ghosts
<1> QED
  BY <1>1, <1>2, <1>3, <1>4, <1>5, <1>6, <1>7 DEF LibraryNext

-----------------------------------------------------------------------------
(* The theorems.                                                           *)

LEMMA LibraryInvHolds == LibrarySpec => []LibraryInv
<1>1. LibraryInit => LibraryInv
  <2> SUFFICES ASSUME LibraryInit PROVE LibraryInv
    OBVIOUS
  <2>1. Types
    BY InitTypes
  <2>2. ServerInv
    BY DEF LibraryInit, ServerInv, DeletionIsShown, DialogShowsWhatIsDeleted, Deleting, NoDeletion,
       ScanIsOnDisk, SnapshotIsOnDisk, GoneIsGone, Gone, FoundIsThere, Found, NoRefresh
  <2>3. ListInv
    BY DEF LibraryInit, ListInv, EmptyQuery, Idle, Request, HasData
  <2> QED
    BY <2>1, <2>2, <2>3 DEF LibraryInv
<1>2. LibraryInv /\ [LibraryNext]_libraryVars => LibraryInv'
  BY NextTypes, NextServer, NextLists DEF LibraryInv
<1> QED
  BY <1>1, <1>2, PTL DEF LibrarySpec

(***************************************************************************)
(* Service and page keep their types; no more files are selected than the  *)
(* batch request takes (SELECTION_LIMIT in migration-image-page.tsx).      *)
(***************************************************************************)
THEOREM LibraryTypes == LibrarySpec => []LibraryTypeOK
<1>1. LibraryInv => LibraryTypeOK
  BY DEF LibraryInv, Types
<1> QED
  BY <1>1, LibraryInvHolds, PTL

(***************************************************************************)
(* The cached list names no file that the service has deleted: mutationMu  *)
(* keeps a scan and a deletion apart, and removeCachedPath comes last      *)
(* (internal/migrationimage/service.go).                                   *)
(***************************************************************************)
THEOREM LibrarySnapshotIsOnDisk == LibrarySpec => []SnapshotIsOnDisk
<1>1. LibraryInv => SnapshotIsOnDisk
  BY DEF LibraryInv, ServerInv
<1> QED
  BY <1>1, LibraryInvHolds, PTL

(***************************************************************************)
(* A file leaves the directory by a request whose open dialog names it, or *)
(* by one that the page has lost, which was sent for it and removes it at  *)
(* most once (confirmDelete and batchDelete of the page, Delete of the     *)
(* service, which looks for a lost connection only before it waits).       *)
(***************************************************************************)
THEOREM LibraryDeletesWhatIsConfirmed == LibrarySpec => OnlyConfirmedAreDeleted
<1>1. ASSUME LibraryInv, NEW p \in Unanswered
      PROVE  DialogNames(p)
  BY <1>1 DEF DialogNames, Unanswered, LibraryInv, ServerInv, DeletionIsShown, DialogShowsWhatIsDeleted, Deleting
<1>2. ASSUME LibraryInv, [LibraryNext]_libraryVars, NEW p \in disk \ disk'
      PROVE  DialogNames(p) \/ abandoned'[p] = abandoned[p] - 1
  <2>1. CASE \E q \in Paths : Delete(q)
    BY <1>1, <1>2, <2>1 DEF Delete, RemoveFile
  <2>2. CASE \E q \in Paths : DeleteAbandoned(q)
    BY <1>2, <2>2 DEF DeleteAbandoned, RemoveFile, LibraryInv, Types, LibraryTypeOK
  <2>3. disk \subseteq disk' \/ \E q \in Paths : Delete(q) \/ DeleteAbandoned(q)
    BY <1>2 DEF LibraryNext, CopyFile, Expire, ScanBegins, ScanEnds, ScanFails, Search, ListArrives,
       ListFails, ChangeFilter, DeleteRefused, AbandonedStops, toggleSelected, DeleteEnds,
       BatchEnds, ClearSelection, confirmDelete, CloseDialog, Confirm, Refresh, RefreshSucceeds,
       RefreshSettles, RefreshFails, DeletionSucceeds, DeletionFails, serverVars, libraryVars
  <2> QED
    BY <1>2, <2>1, <2>2, <2>3
<1>3. ASSUME LibraryInv, [LibraryNext]_libraryVars, NEW p \in Paths, abandoned'[p] > abandoned[p]
      PROVE  DialogNames(p)
  <2>1. abandoned \in [Paths -> Nat]
    BY <1>3, LibraryAssumption DEF LibraryInv, Types, LibraryTypeOK
  <2>2. CASE DeletionFails
    BY <1>1, <1>3, <2>1, <2>2 DEF DeletionFails, Remaining
  <2>3. CASE \E q \in Paths : DeleteAbandoned(q) \/ AbandonedStops(q)
    BY <1>3, <2>1, <2>3 DEF DeleteAbandoned, AbandonedStops
  <2>4. \/ UNCHANGED abandoned \/ DeletionFails
        \/ \E q \in Paths : DeleteAbandoned(q) \/ AbandonedStops(q)
    BY <1>3 DEF LibraryNext, CopyFile, Expire, ScanBegins, ScanEnds, ScanFails, Search, ListArrives,
       ListFails, ChangeFilter, Delete, DeleteRefused, toggleSelected, DeleteEnds,
       BatchEnds, ClearSelection, confirmDelete, CloseDialog, Confirm, Refresh, RefreshSucceeds,
       RefreshSettles, RefreshFails, DeletionSucceeds, serverVars, leavingVars, libraryVars
  <2> QED
    BY <1>3, <2>1, <2>2, <2>3, <2>4
<1>4. LibraryInv /\ [LibraryNext]_libraryVars =>
        /\ \A p \in disk \ disk' : DialogNames(p) \/ abandoned'[p] = abandoned[p] - 1
        /\ \A p \in Paths : abandoned'[p] > abandoned[p] => DialogNames(p)
  BY <1>2, <1>3
<1> QED
  BY <1>4, LibraryInvHolds, PTL DEF LibrarySpec, OnlyConfirmedAreDeleted

(***************************************************************************)
(* A path whose deletion was confirmed to the page is not on the page once *)
(* its list has settled, whatever scan, fetch or refresh was under way.    *)
(***************************************************************************)
THEOREM LibraryDeletedAreGone == LibrarySpec => []DeletedAreGone
<1>1. LibraryInv => DeletedAreGone
  BY DEF LibraryInv, ListInv, Right, DeletedAreGone, Settled, Shown, Types, LibraryTypeOK
<1> QED
  BY <1>1, LibraryInvHolds, PTL

(***************************************************************************)
(* A file that a refresh of the page has found is on the page once its     *)
(* list has settled, as long as nobody deletes it.                         *)
(***************************************************************************)
THEOREM LibraryShowsWhatIsFound == LibrarySpec => []RefreshShowsItsFiles
<1>1. LibraryInv => RefreshShowsItsFiles
  BY DEF LibraryInv, ListInv, Right, RefreshShowsItsFiles, Settled, Shown, Types, LibraryTypeOK
<1> QED
  BY <1>1, LibraryInvHolds, PTL

(***************************************************************************)
(* Together: the page, once settled, is true to the directory, in what it  *)
(* lacks and in what it shows, and so is the list the service keeps.       *)
(***************************************************************************)
THEOREM LibraryListIsTrue == LibrarySpec => []MigrationListIsTrue
  BY LibrarySnapshotIsOnDisk, LibraryDeletedAreGone, LibraryShowsWhatIsFound, PTL
  DEF MigrationListIsTrue
=============================================================================
