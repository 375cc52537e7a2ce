------------------------------ MODULE Settings ------------------------------
(***************************************************************************)
(* The settings of one store: src/settings.js over the raw object of the     *)
(* store file, the routes of src/server.js that change it, and the pages     *)
(* (src/public/app.html) merchants have open.  A route reads, merges and     *)
(* writes without an await; a page works on what it loaded.                  *)
(* An object of JavaScript is a function from its keys.                      *)
(***************************************************************************)
EXTENDS Integers

CONSTANTS
  Automation,   \* the keys of AUTOMATIONS
  DefaultDelay, \* their defaultDelayMinutes
  ApiKey,       \* keys of Telenow
  Agent, Window, Filters,                \* what a merchant may choose, and
  NoAgent, DefaultWindow, NoFilters,     \* the defaults among them
  Delay,        \* what may be typed into the field for the delay
  Days,         \* ... and into the one for winBackDays
  DefaultDays,
  OldSettings,  \* what earlier versions of the app may have stored
  Tab,          \* pages
  MaxEdits, MaxRequests  \* bounds

NoKey == "none"

\* maskKey's hint: not a key, and the page knows it by its ellipsis.
Mask == "vai_live_...wxyz"

FormField == {"enabled", "agentId", "delayMinutes", "quietHours"}

Field == FormField \cup {"filters"}

Quiet == [enabled : BOOLEAN, window : Window]

DefaultQuiet == [enabled |-> FALSE, window |-> DefaultWindow]

\* What may be typed into a field, and what may be stored.
Input(f) == CASE f = "enabled"      -> BOOLEAN
              [] f = "agentId"      -> Agent
              [] f = "delayMinutes" -> Delay
              [] f = "quietHours"   -> Quiet
              [] f = "filters"      -> Filters

Value(f) == IF f = "delayMinutes" THEN {d \in Delay : d >= 0} ELSE Input(f)

DefaultAutomation(a) ==
  [enabled |-> FALSE, agentId |-> NoAgent, delayMinutes |-> DefaultDelay[a],
   quietHours |-> DefaultQuiet, filters |-> NoFilters]

DefaultSettings ==
  [key |-> NoKey, winBackDays |-> DefaultDays,
   automations |-> [a \in Automation |-> DefaultAutomation(a)]]

\* What of an object is known to the app has the values the app stores.
Stored(r) ==
  /\ "key" \in DOMAIN r => r.key \in ApiKey \cup {NoKey}
  /\ "winBackDays" \in DOMAIN r => r.winBackDays \in Days \ {0}
  /\ "automations" \in DOMAIN r =>
       \A a \in Automation \cap DOMAIN r.automations :
         \A f \in Field \cap DOMAIN r.automations[a] :
           r.automations[a][f] \in Value(f)

ASSUME SettingsAssumption ==
  /\ DefaultDelay \in [Automation -> Value("delayMinutes")]
  /\ NoAgent \in Agent /\ DefaultWindow \in Window /\ NoFilters \in Filters
  /\ Delay \subseteq Int /\ 0 \in Delay /\ DefaultDays \in Days \ {0}
  /\ \A r \in OldSettings : Stored(r)
  /\ ApiKey \cap {NoKey, Mask} = {}
  /\ MaxEdits \in Nat /\ MaxRequests \in Nat

VARIABLES
  raw,      \* what the store file holds
  tab,      \* the pages
  edits, requests

vars == <<raw, tab, edits, requests>>
-----------------------------------------------------------------------------
\* {...x, ...y}
Spread(x, y) == [f \in DOMAIN x \cup DOMAIN y |-> IF f \in DOMAIN y THEN y[f] ELSE x[f]]

Has(x, f) == f \in DOMAIN x

Only(x, F) == [f \in F \cap DOMAIN x |-> x[f]]

Get(x, f, default) == IF Has(x, f) THEN x[f] ELSE default

\* getSettings: stored wins, what it lacks is filled in with defaults.
GetSettings(r) ==
  [Spread(DefaultSettings, r) EXCEPT !.automations =
     [a \in Automation |-> Spread(DefaultAutomation(a), Get(@, a, <<>>))]]

\* A slip: an automation that is patched is replaced.
UpdateSettings_Shallow(r, patch) ==
  LET current == GetSettings(r) IN
  Spread(Spread(current, patch),
         [automations |-> Spread(current.automations,
                                 Get(patch, "automations", <<>>))])

\* updateSettings: the patch wins, automations are merged one by one.
UpdateSettings(r, patch) ==
  LET current == GetSettings(r)
      patched == Get(patch, "automations", <<>>)
  IN Spread(Spread(current, patch),
            [automations |-> [a \in Automation |->
               Spread(current.automations[a], Get(patched, a, <<>>))]])

\* getRedactedSettings
GetRedacted(r) ==
  [GetSettings(r) EXCEPT !.key = IF @ = NoKey THEN NoKey ELSE Mask]

AtLeastZero(n) == IF n < 0 THEN 0 ELSE n

\* A slip: filters that were not sent are set to nothing.
SanitizeAutomation_AllFields(b) ==
  Spread(Only(b, {"quietHours"}),
         [enabled      |-> Get(b, "enabled", FALSE),
          agentId      |-> Get(b, "agentId", NoAgent),
          delayMinutes |-> AtLeastZero(Get(b, "delayMinutes", 0)),
          filters      |-> Get(b, "filters", NoFilters)])

SanitizeAutomation(b) ==
  Spread(Only(b, {"filters", "quietHours"}),
         [enabled      |-> Get(b, "enabled", FALSE),
          agentId      |-> Get(b, "agentId", NoAgent),
          delayMinutes |-> AtLeastZero(Get(b, "delayMinutes", 0))])

SanitizeDays(d) == IF d = 0 THEN DefaultDays ELSE d

\* sanitizeSettingsPatch: only what is known is kept, and coerced.
Sanitize(body) ==
  [f \in {"key", "winBackDays", "automations"} \cap DOMAIN body |->
     CASE f = "key"         -> body.key
       [] f = "winBackDays" -> SanitizeDays(body.winBackDays)
       [] f = "automations" -> [a \in Automation \cap DOMAIN body.automations |->
                                  SanitizeAutomation(body.automations[a])]]

\* A slip: whatever is in the field is sent as the key.
KeyPatch_AsTyped(typed) == IF typed = NoKey THEN <<>> ELSE [key |-> typed]

\* The page sends a key only if one was typed that is not the hint.
KeyPatch(typed) == IF typed \in {NoKey, Mask} THEN <<>> ELSE [key |-> typed]

\* A slip: the fields of quiet hours that are off are hidden, and read as empty.
CollectQuiet_IfShown(q) == IF q.enabled THEN q ELSE DefaultQuiet

\* The fields of quiet hours are read also while they are hidden.
CollectQuiet(q) == q

\* collect() of the page: there are no fields for filters.
Collect(w) ==
  Spread(KeyPatch(w.typed),
         [winBackDays |-> SanitizeDays(w.days),
          automations |-> [a \in Automation |->
            [w.form[a] EXCEPT !.quietHours = CollectQuiet(@)]]])
-----------------------------------------------------------------------------
\* A page: shown is what it loaded or saved last, form, days and typed are in
\* its fields, touched are the fields the merchant changed since it was drawn
\* and sent is what its save carries.
Closed == [stage |-> "closed", touched |-> {}]

Init == /\ raw \in OldSettings
        /\ tab = [t \in Tab |-> Closed]
        /\ edits = 0 /\ requests = 0

Request == requests < MaxRequests /\ requests' = requests + 1

\* load() and render().
Load(t) ==
  /\ Request
  /\ tab[t].stage = "closed" \/ (tab[t].stage = "open" /\ tab[t].touched # {})
  /\ LET got == GetRedacted(raw) IN
     tab' = [tab EXCEPT ![t] =
       [stage |-> "open", shown |-> GetSettings(raw), days |-> got.winBackDays,
        form |-> [a \in Automation |-> Only(got.automations[a], FormField)],
        typed |-> NoKey, touched |-> {}, sent |-> <<>>]]
  /\ UNCHANGED <<raw, edits>>

\* The merchant changes a field, also while a save is on its way.
Edit(t) ==
  /\ tab[t].stage # "closed"
  /\ edits < MaxEdits
  /\ edits' = edits + 1
  /\ \/ \E a \in Automation, f \in FormField : \E v \in Input(f) :
          tab' = [tab EXCEPT ![t].form[a][f] = v,
                             ![t].touched = @ \cup {<<a, f>>}]
     \/ \E d \in Days :
          tab' = [tab EXCEPT ![t].days = d, ![t].touched = @ \cup {<<"winBackDays">>}]
     \/ \E k \in ApiKey \cup {Mask} :
          tab' = [tab EXCEPT ![t].typed = k, ![t].touched = @ \cup {<<"key">>}]
  /\ UNCHANGED <<raw, requests>>

\* A click on save: the button is disabled until the answer.
Send(t) ==
  /\ Request
  /\ tab[t].stage = "open"
  /\ tab' = [tab EXCEPT ![t].stage = "sent", ![t].sent = Collect(tab[t])]
  /\ UNCHANGED <<raw, edits>>

\* POST /api/settings, up to its answer or to the requests it makes to Telenow.
Handle(t) ==
  /\ tab[t].stage = "sent"
  /\ raw' = UpdateSettings(raw, Sanitize(tab[t].sent))
  /\ tab' = [tab EXCEPT ![t].stage = "handled", ![t].shown = GetSettings(raw')]
  /\ UNCHANGED <<edits, requests>>

\* The answer clears the field for the key; the form is not drawn again.  An
\* answer that is lost or an error only enables the button.
Answer(t) ==
  /\ tab[t].stage = "handled"
  /\ \E cleared \in BOOLEAN :
       tab' = [tab EXCEPT ![t].stage = "open", ![t].sent = <<>>,
                          ![t].typed = IF cleared THEN NoKey ELSE @]
  /\ UNCHANGED <<raw, edits, requests>>

\* POST /api/validate-key stores a key before it asks Telenow.
ValidateKey(t) ==
  /\ Request
  /\ tab[t].stage # "closed"
  /\ tab[t].typed \notin {NoKey, Mask}
  /\ raw' = UpdateSettings(raw, KeyPatch(tab[t].typed))
  /\ UNCHANGED <<tab, edits>>

\* POST /api/settings without the page: filters for one automation, the rest of
\* it as it is.
PostFilters(a, fs) ==
  /\ Request
  /\ raw' = UpdateSettings(raw, Sanitize(
       [automations |-> [b \in {a} |->
          Spread(GetSettings(raw).automations[a], [filters |-> fs])]]))
  /\ UNCHANGED <<tab, edits>>

Next == \/ \E t \in Tab : Load(t) \/ Edit(t) \/ Send(t) \/ Handle(t) \/ Answer(t)
                          \/ ValidateKey(t)
        \/ \E a \in Automation, fs \in Filters : PostFilters(a, fs)

Spec == Init /\ [][Next]_vars
-----------------------------------------------------------------------------
Now(a, f) == GetSettings(raw).automations[a][f]

\* A key is a key, never the hint the page got for it, and a delay is not negative.
TypeOK ==
  /\ GetSettings(raw).key \in ApiKey \cup {NoKey}
  /\ GetSettings(raw).winBackDays \in Days \ {0}
  /\ \A a \in Automation, f \in Field : Now(a, f) \in Value(f)
  /\ \A t \in Tab : tab[t].stage \in {"closed", "open", "sent", "handled"}
  /\ edits \in Nat /\ requests \in Nat

Handled(t) == tab[t].stage = "sent" /\ tab'[t].stage = "handled"

\* What a merchant left alone on a page nobody else saved under stays as it was,
\* through redaction, form, coercion and merge, also in settings that an earlier
\* version of the app stored and with the fields of quiet hours hidden.
SaveChangesOnlyEdits ==
  [][\A t \in Tab : Handled(t) /\ tab[t].shown = GetSettings(raw) =>
       /\ \A a \in Automation, f \in FormField :
            <<a, f>> \notin tab[t].touched => Now(a, f)' = Now(a, f)
       /\ <<"winBackDays">> \notin tab[t].touched =>
            raw'.winBackDays = GetSettings(raw).winBackDays
       /\ <<"key">> \notin tab[t].touched => raw'.key = GetSettings(raw).key]_vars

\* No page takes away filters, however old what it shows and whatever else is
\* saved meanwhile.
PagesKeepFilters ==
  [][\A t \in Tab : Handled(t) =>
       \A a \in Automation : Now(a, "filters")' = Now(a, "filters")]_vars

-----------------------------------------------------------------------------
(* What makes these inductive. *)

\* Settings with everything the app knows of.
Complete(s) ==
  /\ s.key \in ApiKey \cup {NoKey}
  /\ s.winBackDays \in Days \ {0}
  /\ \A a \in Automation, f \in Field : s.automations[a][f] \in Value(f)

PageField == {"stage", "shown", "days", "form", "typed", "touched", "sent"}

\* The fields of a page, or what a save carries of them.
IsForm(form) ==
  /\ DOMAIN form = Automation
  /\ \A a \in Automation : /\ DOMAIN form[a] = FormField
                            /\ \A f \in FormField : form[a][f] \in Input(f)

PageOK(w) ==
  /\ DOMAIN w = PageField
  /\ w.stage \in {"open", "sent", "handled"}
  /\ Complete(w.shown)
  /\ w.days \in Days
  /\ w.typed \in ApiKey \cup {NoKey, Mask}
  /\ IsForm(w.form)
  /\ w.stage = "sent" =>
       /\ {"winBackDays", "automations"} \subseteq DOMAIN w.sent
       /\ "key" \in DOMAIN w.sent => w.sent.key \in ApiKey
       /\ w.sent.winBackDays \in Days
       /\ IsForm(w.sent.automations)

\* What was not touched is what was shown, and so is what is sent of it.
Untouched(w) ==
  /\ \A a \in Automation, f \in FormField : <<a, f>> \notin w.touched =>
       /\ w.form[a][f] = w.shown.automations[a][f]
       /\ w.stage = "sent" => w.sent.automations[a][f] = w.form[a][f]
  /\ <<"winBackDays">> \notin w.touched =>
       /\ w.days = w.shown.winBackDays
       /\ w.stage = "sent" => w.sent.winBackDays = w.days
  /\ <<"key">> \notin w.touched =>
       /\ w.typed = NoKey
       /\ w.stage = "sent" => "key" \notin DOMAIN w.sent

SettingsIInv ==
  /\ Stored(raw)
  /\ DOMAIN tab = Tab
  /\ \A t \in Tab : tab[t] = Closed \/ (PageOK(tab[t]) /\ Untouched(tab[t]))
  /\ edits \in Nat /\ requests \in Nat
-----------------------------------------------------------------------------
(* What one might expect beyond this, and the code does not give. *)

\* A save leaves alone what its page did not edit, also when another page has
\* saved in between.
StalePagesOverwriteNothing ==
  [][\A t \in Tab, a \in Automation, f \in FormField :
       Handled(t) /\ <<a, f>> \notin tab[t].touched => Now(a, f)' = Now(a, f)]_vars

\* A key that was typed while a save was on its way is not cleared with it.
TypedKeyIsKept ==
  [][\A t \in Tab :
       tab[t].stage = "handled" /\ tab'[t].stage = "open" /\ tab'[t].typed = NoKey =>
         KeyPatch(tab[t].typed) = Only(tab[t].sent, {"key"})]_vars
=============================================================================
