--------------------------- MODULE SettingsProofs ---------------------------
(***************************************************************************)
(* Proofs about Settings, for any automations, old settings, pages, edits    *)
(* and requests: what is saved is typed, and what a page changes is what its *)
(* merchant changed.                                                         *)
(***************************************************************************)
EXTENDS Settings, TLAPS

(* Objects. *)

LEMMA SpreadIs ==
  ASSUME NEW x, NEW y, NEW f, f \in DOMAIN x
  PROVE  f \in DOMAIN Spread(x, y) /\ Spread(x, y)[f] = Get(y, f, x[f])
BY DEF Spread, Get, Has

LEMMA SpreadHas ==
  ASSUME NEW x, NEW y, NEW f, f \in DOMAIN y
  PROVE  f \in DOMAIN Spread(x, y) /\ Spread(x, y)[f] = y[f]
BY DEF Spread

LEMMA NothingHas == DOMAIN <<>> = {}
OBVIOUS

\* What an object says of one automation.
Patch(p, a) == Get(Get(p, "automations", <<>>), a, <<>>)

LEMMA DefaultIs ==
  ASSUME NEW a \in Automation
  PROVE  /\ DOMAIN DefaultAutomation(a) = Field
         /\ \A f \in Field : DefaultAutomation(a)[f] \in Value(f)
<1>1. DOMAIN DefaultAutomation(a) = Field
  BY DEF DefaultAutomation, Field, FormField
<1>2. DefaultDelay[a] \in Value("delayMinutes")
  BY SettingsAssumption
<1>3. DefaultQuiet \in Quiet
  BY SettingsAssumption DEF DefaultQuiet, Quiet
<1>4. \A f \in Field : DefaultAutomation(a)[f] \in Value(f)
  <2> DEFINE d == DefaultAutomation(a)
  <2>1. /\ d["enabled"] = FALSE /\ d["agentId"] = NoAgent
        /\ d["delayMinutes"] = DefaultDelay[a]
        /\ d["quietHours"] = DefaultQuiet /\ d["filters"] = NoFilters
    BY DEF DefaultAutomation
  <2> HIDE DEF d
  <2>2. /\ d["enabled"] \in Value("enabled") /\ d["agentId"] \in Value("agentId")
        /\ d["quietHours"] \in Value("quietHours")
        /\ d["filters"] \in Value("filters")
    BY <1>3, <2>1, SettingsAssumption DEF Value, Input
  <2> QED BY <1>2, <2>1, <2>2 DEF Field, FormField, d
<1> QED BY <1>1, <1>4

\* What getSettings returns.
LEMMA GetSettingsIs ==
  ASSUME NEW r
  PROVE  /\ {"key", "winBackDays", "automations"} \subseteq DOMAIN GetSettings(r)
         /\ GetSettings(r).key = Get(r, "key", NoKey)
         /\ GetSettings(r).winBackDays = Get(r, "winBackDays", DefaultDays)
         /\ DOMAIN GetSettings(r).automations = Automation
         /\ \A a \in Automation :
              /\ Field \subseteq DOMAIN GetSettings(r).automations[a]
              /\ \A f \in Field : GetSettings(r).automations[a][f] =
                   Get(Patch(r, a), f, DefaultAutomation(a)[f])
<1> DEFINE d == DefaultSettings
           m == Spread(d, r)
           old == m.automations
           new == [a \in Automation |->
                     Spread(DefaultAutomation(a), Get(old, a, <<>>))]
<1>1. /\ DOMAIN d = {"key", "winBackDays", "automations"}
      /\ d.key = NoKey /\ d.winBackDays = DefaultDays
      /\ d.automations = [a \in Automation |-> DefaultAutomation(a)]
  BY DEF DefaultSettings
<1> HIDE DEF d
<1>2. /\ {"key", "winBackDays", "automations"} \subseteq DOMAIN m
      /\ m.key = Get(r, "key", NoKey)
      /\ m.winBackDays = Get(r, "winBackDays", DefaultDays)
      /\ old = Get(r, "automations", d.automations)
  <2>1. \A f \in DOMAIN d :
          f \in DOMAIN Spread(d, r) /\ Spread(d, r)[f] = Get(r, f, d[f])
    BY SpreadIs
  <2> QED BY <1>1, <2>1
<1>3. GetSettings(r) = [m EXCEPT !.automations = new]
  BY DEF GetSettings, d
<1> HIDE DEF m
<1>4. /\ DOMAIN GetSettings(r) = DOMAIN m
      /\ GetSettings(r).key = m.key
      /\ GetSettings(r).winBackDays = m.winBackDays
      /\ GetSettings(r).automations = new
  <2> HIDE DEF new
  <2> QED BY <1>2, <1>3
<1>5. ASSUME NEW a \in Automation
      PROVE  /\ Field \subseteq DOMAIN new[a]
             /\ \A f \in Field : new[a][f] =
                  Get(Patch(r, a), f, DefaultAutomation(a)[f])
  <2>1. new[a] = Spread(DefaultAutomation(a), Get(old, a, <<>>))
    OBVIOUS
  <2>2. DOMAIN DefaultAutomation(a) = Field
    BY DefaultIs
  <2>3. CASE Has(r, "automations")
    <3>1. Get(old, a, <<>>) = Patch(r, a)
      BY <1>2, <2>3 DEF Get, Patch
    <3> QED BY <2>1, <2>2, <3>1, SpreadIs
  <2>4. CASE ~Has(r, "automations")
    <3>1. Get(old, a, <<>>) = DefaultAutomation(a)
      BY <1>1, <1>2, <2>4 DEF Get, Has
    <3>2. Patch(r, a) = <<>>
      BY <2>4, NothingHas DEF Get, Patch, Has
    <3>3. \A f : Get(<<>>, f, DefaultAutomation(a)[f]) = DefaultAutomation(a)[f]
      BY NothingHas DEF Get, Has
    <3>4. \A f \in Field :
            Get(DefaultAutomation(a), f, DefaultAutomation(a)[f])
              = DefaultAutomation(a)[f]
      BY DEF Get
    <3> QED BY <2>1, <2>2, <3>1, <3>2, <3>3, <3>4, SpreadIs
  <2> QED BY <2>3, <2>4
<1> QED BY <1>2, <1>4, <1>5

\* ... is complete.
LEMMA StoredIsComplete ==
  ASSUME NEW r, Stored(r)
  PROVE  Complete(GetSettings(r))
<1>1. GetSettings(r).key \in ApiKey \cup {NoKey}
  BY GetSettingsIs DEF Stored, Get, Has
<1>2. GetSettings(r).winBackDays \in Days \ {0}
  BY GetSettingsIs, SettingsAssumption DEF Stored, Get, Has
<1>3. ASSUME NEW a \in Automation, NEW f \in Field
      PROVE  GetSettings(r).automations[a][f] \in Value(f)
  <2>1. GetSettings(r).automations[a][f] =
          Get(Patch(r, a), f, DefaultAutomation(a)[f])
    BY GetSettingsIs
  <2>2. CASE Has(Patch(r, a), f)
    <3>1. Has(r, "automations") /\ Has(r.automations, a)
      BY <2>2, NothingHas DEF Patch, Get, Has
    <3>2. Patch(r, a) = r.automations[a]
      BY <3>1 DEF Patch, Get
    <3> QED BY <2>1, <2>2, <3>1, <3>2 DEF Stored, Get, Has
  <2>3. CASE ~Has(Patch(r, a), f)
    BY <2>1, <2>3, DefaultIs DEF Get
  <2> QED BY <2>2, <2>3
<1> QED BY <1>1, <1>2, <1>3 DEF Complete

\* What updateSettings leaves in the store.
LEMMA UpdateIs ==
  ASSUME NEW r, NEW p
  PROVE  LET n == UpdateSettings(r, p)
             g == GetSettings(r)
         IN /\ {"key", "winBackDays", "automations"} \subseteq DOMAIN n
            /\ n.key = Get(p, "key", g.key)
            /\ n.winBackDays = Get(p, "winBackDays", g.winBackDays)
            /\ DOMAIN n.automations = Automation
            /\ \A a \in Automation :
                 /\ Field \subseteq DOMAIN n.automations[a]
                 /\ \A f \in Field : n.automations[a][f] =
                      Get(Patch(p, a), f, g.automations[a][f])
<1> DEFINE n == UpdateSettings(r, p)
           g == GetSettings(r)
           m == Spread(g, p)
           new == [a \in Automation |->
                     Spread(g.automations[a],
                            Get(Get(p, "automations", <<>>), a, <<>>))]
           last == [automations |-> new]
<1>1. n = Spread(m, last)
  BY DEF UpdateSettings
<1>2. {"key", "winBackDays", "automations"} \subseteq DOMAIN g
  BY GetSettingsIs
<1> HIDE DEF g
<1>3. /\ {"key", "winBackDays", "automations"} \subseteq DOMAIN m
      /\ m.key = Get(p, "key", g.key)
      /\ m.winBackDays = Get(p, "winBackDays", g.winBackDays)
  <2>1. \A f \in DOMAIN g :
          f \in DOMAIN Spread(g, p) /\ Spread(g, p)[f] = Get(p, f, g[f])
    BY SpreadIs
  <2> QED BY <1>2, <2>1
<1>4. DOMAIN last = {"automations"} /\ last.automations = new
  OBVIOUS
<1> HIDE DEF m, n, last
<1>5. /\ {"key", "winBackDays", "automations"} \subseteq DOMAIN n
      /\ n.key = m.key /\ n.winBackDays = m.winBackDays /\ n.automations = new
  <2> HIDE DEF new
  <2>1. \A f \in DOMAIN m :
          f \in DOMAIN n /\ n[f] = IF f = "automations" THEN new ELSE m[f]
    BY <1>1, <1>4, SpreadIs DEF Get, Has
  <2> QED BY <1>3, <2>1
<1>6. ASSUME NEW a \in Automation
      PROVE  /\ Field \subseteq DOMAIN new[a]
             /\ \A f \in Field : new[a][f] =
                  Get(Patch(p, a), f, g.automations[a][f])
  <2>1. new[a] = Spread(g.automations[a], Patch(p, a))
    BY DEF Patch
  <2>2. Field \subseteq DOMAIN g.automations[a]
    BY GetSettingsIs DEF g
  <2> HIDE DEF new
  <2> QED BY <2>1, <2>2, SpreadIs
<1> QED BY <1>3, <1>5, <1>6 DEF n, g

\* The store then holds the whole of it, so that getSettings returns the same.
LEMMA UpdatedIs ==
  ASSUME NEW r, NEW p
  PROVE  LET n == UpdateSettings(r, p)
         IN /\ GetSettings(n).key = n.key
            /\ GetSettings(n).winBackDays = n.winBackDays
            /\ \A a \in Automation, f \in Field :
                 GetSettings(n).automations[a][f] = n.automations[a][f]
<1> DEFINE n == UpdateSettings(r, p)
<1>1. /\ {"key", "winBackDays", "automations"} \subseteq DOMAIN n
      /\ DOMAIN n.automations = Automation
      /\ \A a \in Automation : Field \subseteq DOMAIN n.automations[a]
  BY UpdateIs
<1> HIDE DEF n
<1>2. GetSettings(n).key = n.key /\ GetSettings(n).winBackDays = n.winBackDays
  BY <1>1, GetSettingsIs DEF Get, Has
<1>3. ASSUME NEW a \in Automation, NEW f \in Field
      PROVE  GetSettings(n).automations[a][f] = n.automations[a][f]
  <2>1. Patch(n, a) = n.automations[a]
    BY <1>1 DEF Patch, Get, Has
  <2> QED BY <1>1, <2>1, GetSettingsIs DEF Get, Has
<1> QED BY <1>2, <1>3 DEF n

LEMMA UpdatedIsStored ==
  ASSUME NEW r, NEW p, Complete(UpdateSettings(r, p))
  PROVE  Stored(UpdateSettings(r, p))
<1> DEFINE n == UpdateSettings(r, p)
<1>1. DOMAIN n.automations = Automation
  BY UpdateIs
<1> HIDE DEF n
<1> QED BY <1>1 DEF Complete, Stored, n

-----------------------------------------------------------------------------
(* Coercion.                                                                  *)

\* What sanitizeSettingsPatch makes of the value of a field.
Coerced(f, v) == IF f = "delayMinutes" THEN AtLeastZero(v) ELSE v

LEMMA CoercedIsValue ==
  ASSUME NEW f \in FormField, NEW v \in Input(f)
  PROVE  /\ Coerced(f, v) \in Value(f)
         /\ v \in Value(f) => Coerced(f, v) = v
<1>1. CASE f = "delayMinutes"
  <2>1. v \in Delay /\ Value(f) = {d \in Delay : d >= 0}
    BY <1>1 DEF Input, Value
  <2>2. v \in Int /\ 0 \in Delay
    BY <2>1, SettingsAssumption
  <2> QED BY <1>1, <2>1, <2>2 DEF Coerced, AtLeastZero
<1>2. CASE f # "delayMinutes"
  BY <1>2 DEF Coerced, Value
<1> QED BY <1>1, <1>2

LEMMA ValueIsInput ==
  \A f \in FormField : \A v \in Value(f) : v \in Input(f)
BY DEF FormField, Value, Input

LEMMA DaysStay ==
  \A d \in Days : /\ SanitizeDays(d) \in Days \ {0}
                  /\ d # 0 => SanitizeDays(d) = d
BY SettingsAssumption DEF SanitizeDays

LEMMA SanitizedAutomation ==
  ASSUME NEW b, FormField \subseteq DOMAIN b
  PROVE  LET s == SanitizeAutomation(b)
         IN /\ \A f \in FormField : f \in DOMAIN s /\ s[f] = Coerced(f, b[f])
            /\ "filters" \in DOMAIN s <=> "filters" \in DOMAIN b
            /\ "filters" \in DOMAIN b => s["filters"] = b["filters"]
<1> DEFINE o == Only(b, {"filters", "quietHours"})
           e == [enabled      |-> Get(b, "enabled", FALSE),
                 agentId      |-> Get(b, "agentId", NoAgent),
                 delayMinutes |-> AtLeastZero(Get(b, "delayMinutes", 0))]
           s == SanitizeAutomation(b)
<1>1. s = Spread(o, e)
  BY DEF SanitizeAutomation
<1>2. /\ DOMAIN o = {"filters", "quietHours"} \cap DOMAIN b
      /\ \A f \in DOMAIN o : o[f] = b[f]
  BY DEF Only
<1>3. /\ DOMAIN e = {"enabled", "agentId", "delayMinutes"}
      /\ e["enabled"] = b["enabled"] /\ e["agentId"] = b["agentId"]
      /\ e["delayMinutes"] = AtLeastZero(b["delayMinutes"])
  BY DEF FormField, Get, Has
<1> HIDE DEF o, e, s
<1>4. /\ DOMAIN s = DOMAIN o \cup DOMAIN e
      /\ \A f \in DOMAIN s : s[f] = IF f \in DOMAIN e THEN e[f] ELSE o[f]
  BY <1>1 DEF Spread
<1>5. \A f \in FormField : f \in DOMAIN s /\ s[f] = Coerced(f, b[f])
  BY <1>2, <1>3, <1>4 DEF FormField, Coerced
<1>6. /\ "filters" \in DOMAIN s <=> "filters" \in DOMAIN b
      /\ "filters" \in DOMAIN b => s["filters"] = b["filters"]
  BY <1>2, <1>3, <1>4
<1> QED BY <1>5, <1>6 DEF s

LEMMA SanitizedIs ==
  ASSUME NEW body
  PROVE  LET p == Sanitize(body)
         IN /\ \A default : Get(p, "key", default) = Get(body, "key", default)
            /\ \A default : Get(p, "winBackDays", default) =
                 IF Has(body, "winBackDays") THEN SanitizeDays(body.winBackDays)
                                             ELSE default
            /\ \A a \in Automation :
                 Has(body, "automations") /\ a \in DOMAIN body.automations =>
                   Patch(p, a) = SanitizeAutomation(body.automations[a])
            /\ \A a \in Automation :
                 ~(Has(body, "automations") /\ a \in DOMAIN body.automations) =>
                   Patch(p, a) = <<>>
<1> DEFINE p == Sanitize(body)
           autos == [a \in Automation \cap DOMAIN body.automations |->
                       SanitizeAutomation(body.automations[a])]
<1>1. /\ DOMAIN p = {"key", "winBackDays", "automations"} \cap DOMAIN body
      /\ "key" \in DOMAIN p => p["key"] = body.key
      /\ "winBackDays" \in DOMAIN p =>
           p["winBackDays"] = SanitizeDays(body.winBackDays)
      /\ "automations" \in DOMAIN p => p["automations"] = autos
  BY DEF Sanitize
<1> HIDE DEF p
<1>2. \A default : Get(p, "key", default) = Get(body, "key", default)
  BY <1>1 DEF Get, Has
<1>3. \A default : Get(p, "winBackDays", default) =
        IF Has(body, "winBackDays") THEN SanitizeDays(body.winBackDays) ELSE default
  BY <1>1 DEF Get, Has
<1>4. ASSUME NEW a \in Automation
      PROVE  Patch(p, a) =
               IF Has(body, "automations") /\ a \in DOMAIN body.automations
                 THEN SanitizeAutomation(body.automations[a]) ELSE <<>>
  <2>1. CASE Has(body, "automations")
    <3>1. Get(p, "automations", <<>>) = autos
      BY <1>1, <2>1 DEF Get, Has
    <3> QED BY <2>1, <3>1 DEF Patch, Get, Has
  <2>2. CASE ~Has(body, "automations")
    <3>1. Get(p, "automations", <<>>) = <<>>
      BY <1>1, <2>2 DEF Get, Has
    <3> QED BY <2>2, <3>1, NothingHas DEF Patch, Get, Has
  <2> QED BY <2>1, <2>2
<1> QED BY <1>2, <1>3, <1>4 DEF p

\* What a page sends.
SentOK(body) == /\ {"winBackDays", "automations"} \subseteq DOMAIN body
                /\ "key" \in DOMAIN body => body.key \in ApiKey
                /\ body.winBackDays \in Days
                /\ IsForm(body.automations)

\* A save writes what the page sent of its fields, and no filters.
LEMMA SaveIs ==
  ASSUME NEW r, NEW body, SentOK(body)
  PROVE  LET n == UpdateSettings(r, Sanitize(body))
             g == GetSettings(r)
         IN /\ n.key = Get(body, "key", g.key)
            /\ n.winBackDays = SanitizeDays(body.winBackDays)
            /\ \A a \in Automation, f \in FormField :
                 n.automations[a][f] = Coerced(f, body.automations[a][f])
            /\ \A a \in Automation :
                 n.automations[a]["filters"] = g.automations[a]["filters"]
<1> DEFINE p == Sanitize(body)
           n == UpdateSettings(r, p)
           g == GetSettings(r)
<1>1. /\ n.key = Get(p, "key", g.key)
      /\ n.winBackDays = Get(p, "winBackDays", g.winBackDays)
      /\ \A a \in Automation, f \in Field :
           n.automations[a][f] = Get(Patch(p, a), f, g.automations[a][f])
  BY UpdateIs
<1>2. /\ Get(p, "key", g.key) = Get(body, "key", g.key)
      /\ Get(p, "winBackDays", g.winBackDays) = SanitizeDays(body.winBackDays)
      /\ \A a \in Automation :
           Patch(p, a) = SanitizeAutomation(body.automations[a])
  BY SanitizedIs DEF SentOK, IsForm, Has
<1> HIDE DEF p, n, g
<1>3. ASSUME NEW a \in Automation
      PROVE  /\ \A f \in FormField :
                  n.automations[a][f] = Coerced(f, body.automations[a][f])
             /\ n.automations[a]["filters"] = g.automations[a]["filters"]
  <2>1. DOMAIN body.automations[a] = FormField /\ "filters" \notin FormField
    BY DEF SentOK, IsForm, FormField
  <2>2. /\ \A f \in FormField :
             f \in DOMAIN Patch(p, a)
             /\ Patch(p, a)[f] = Coerced(f, body.automations[a][f])
        /\ "filters" \notin DOMAIN Patch(p, a)
    BY <1>2, <2>1, SanitizedAutomation
  <2> QED BY <1>1, <2>2 DEF Get, Has, Field
<1> QED BY <1>1, <1>2, <1>3 DEF p, n, g

LEMMA SavedIsComplete ==
  ASSUME NEW r, Stored(r), NEW body, SentOK(body)
  PROVE  Complete(UpdateSettings(r, Sanitize(body)))
<1> DEFINE n == UpdateSettings(r, Sanitize(body))
           g == GetSettings(r)
<1>1. Complete(g)
  BY StoredIsComplete
<1>2. /\ n.key = Get(body, "key", g.key)
      /\ n.winBackDays = SanitizeDays(body.winBackDays)
      /\ \A a \in Automation, f \in FormField :
           n.automations[a][f] = Coerced(f, body.automations[a][f])
      /\ \A a \in Automation :
           n.automations[a]["filters"] = g.automations[a]["filters"]
  BY SaveIs
<1> HIDE DEF n, g
<1>3. n.key \in ApiKey \cup {NoKey} /\ n.winBackDays \in Days \ {0}
  BY <1>1, <1>2, DaysStay DEF Complete, SentOK, Get, Has
<1>4. \A a \in Automation, f \in FormField : n.automations[a][f] \in Value(f)
  BY <1>2, CoercedIsValue DEF SentOK, IsForm
<1>5. \A a \in Automation : n.automations[a]["filters"] \in Value("filters")
  BY <1>1, <1>2 DEF Complete, Field
<1> QED BY <1>3, <1>4, <1>5 DEF Complete, Field, n

-----------------------------------------------------------------------------
(* Pages.                                                                     *)

LEMMA LoadedPage ==
  ASSUME NEW r, Stored(r)
  PROVE  LET got == GetRedacted(r)
             w == [stage |-> "open", shown |-> GetSettings(r),
                   days |-> got.winBackDays,
                   form |-> [a \in Automation |->
                               Only(got.automations[a], FormField)],
                   typed |-> NoKey, touched |-> {}, sent |-> <<>>]
         IN PageOK(w) /\ Untouched(w)
<1> DEFINE g == GetSettings(r)
           got == GetRedacted(r)
           form == [a \in Automation |-> Only(got.automations[a], FormField)]
           w == [stage |-> "open", shown |-> g, days |-> got.winBackDays,
                 form |-> form, typed |-> NoKey, touched |-> {}, sent |-> <<>>]
<1>1. Complete(g) /\ {"key", "winBackDays", "automations"} \subseteq DOMAIN g
      /\ \A a \in Automation : Field \subseteq DOMAIN g.automations[a]
  BY StoredIsComplete, GetSettingsIs
<1>2. got.winBackDays = g.winBackDays /\ got.automations = g.automations
  BY <1>1 DEF GetRedacted
<1> HIDE DEF g, got
<1>3. ASSUME NEW a \in Automation
      PROVE  /\ DOMAIN form[a] = FormField
             /\ \A f \in FormField : form[a][f] = g.automations[a][f]
  BY <1>1, <1>2 DEF Only, Field
<1>4. DOMAIN form = Automation
  OBVIOUS
<1> HIDE DEF form
<1>5. /\ DOMAIN w = PageField /\ w.stage = "open" /\ w.shown = g
      /\ w.days = g.winBackDays /\ w.form = form /\ w.typed = NoKey
  BY <1>2 DEF PageField
<1> HIDE DEF w
<1>6. IsForm(form)
  BY <1>1, <1>3, <1>4, ValueIsInput DEF IsForm, Complete, Field
<1>7. PageOK(w)
  BY <1>1, <1>5, <1>6 DEF PageOK, Complete
<1>8. Untouched(w)
  BY <1>3, <1>5 DEF Untouched
<1> QED BY <1>7, <1>8 DEF w, g, got, form

LEMMA EditedForm ==
  ASSUME NEW w, PageOK(w), Untouched(w), NEW a \in Automation,
         NEW f \in FormField, NEW v \in Input(f)
  PROVE  LET x == [w EXCEPT !.form[a][f] = v, !.touched = @ \cup {<<a, f>>}]
         IN PageOK(x) /\ Untouched(x)
<1> DEFINE form == [w.form EXCEPT ![a][f] = v]
           x == [w EXCEPT !.form[a][f] = v, !.touched = @ \cup {<<a, f>>}]
<1>1. /\ DOMAIN form = Automation
      /\ \A b \in Automation : DOMAIN form[b] = FormField
      /\ \A b \in Automation, h \in FormField :
           form[b][h] = IF <<b, h>> = <<a, f>> THEN v ELSE w.form[b][h]
  BY DEF PageOK, IsForm
<1>2. x = [w EXCEPT !.form = form, !.touched = w.touched \cup {<<a, f>>}]
  BY DEF PageOK, PageField
<1> HIDE DEF x, form
<1>3. /\ DOMAIN x = PageField /\ x.stage = w.stage /\ x.shown = w.shown
      /\ x.days = w.days /\ x.typed = w.typed /\ x.sent = w.sent
      /\ x.form = form /\ x.touched = w.touched \cup {<<a, f>>}
  BY <1>2 DEF PageOK, PageField
<1>4. IsForm(form)
  BY <1>1 DEF PageOK, IsForm
<1>5. PageOK(x)
  BY <1>3, <1>4 DEF PageOK
<1>6. \A b \in Automation, h \in FormField :
        <<b, h>> \notin x.touched =>
          <<b, h>> \notin w.touched /\ form[b][h] = w.form[b][h]
  BY <1>1, <1>3
<1>7. Untouched(x)
  BY <1>3, <1>6 DEF Untouched
<1> QED BY <1>5, <1>7 DEF x

LEMMA EditedField ==
  ASSUME NEW w, PageOK(w), Untouched(w)
  PROVE  /\ \A d \in Days :
              LET x == [w EXCEPT !.days = d, !.touched = @ \cup {<<"winBackDays">>}]
              IN PageOK(x) /\ Untouched(x)
         /\ \A k \in ApiKey \cup {Mask} :
              LET x == [w EXCEPT !.typed = k, !.touched = @ \cup {<<"key">>}]
              IN PageOK(x) /\ Untouched(x)
<1>1. ASSUME NEW d \in Days
      PROVE  LET x == [w EXCEPT !.days = d,
                                !.touched = @ \cup {<<"winBackDays">>}]
             IN PageOK(x) /\ Untouched(x)
  <2> DEFINE x == [w EXCEPT !.days = d, !.touched = @ \cup {<<"winBackDays">>}]
  <2>1. /\ DOMAIN x = PageField /\ x.stage = w.stage /\ x.shown = w.shown
        /\ x.days = d /\ x.typed = w.typed /\ x.sent = w.sent
        /\ x.form = w.form /\ x.touched = w.touched \cup {<<"winBackDays">>}
    BY DEF PageOK, PageField
  <2> HIDE DEF x
  <2>2. PageOK(x)
    BY <2>1 DEF PageOK
  <2>3. Untouched(x)
    BY <2>1 DEF Untouched
  <2> QED BY <2>2, <2>3 DEF x
<1>2. ASSUME NEW k \in ApiKey \cup {Mask}
      PROVE  LET x == [w EXCEPT !.typed = k, !.touched = @ \cup {<<"key">>}]
             IN PageOK(x) /\ Untouched(x)
  <2> DEFINE x == [w EXCEPT !.typed = k, !.touched = @ \cup {<<"key">>}]
  <2>1. /\ DOMAIN x = PageField /\ x.stage = w.stage /\ x.shown = w.shown
        /\ x.days = w.days /\ x.typed = k /\ x.sent = w.sent
        /\ x.form = w.form /\ x.touched = w.touched \cup {<<"key">>}
    BY DEF PageOK, PageField
  <2> HIDE DEF x
  <2>2. PageOK(x)
    BY <2>1 DEF PageOK
  <2>3. Untouched(x)
    BY <2>1 DEF Untouched
  <2> QED BY <2>2, <2>3 DEF x
<1> QED BY <1>1, <1>2

\* collect() sends the fields as they are.
LEMMA CollectIs ==
  ASSUME NEW w, PageOK(w)
  PROVE  LET c == Collect(w)
         IN /\ SentOK(c)
            /\ c.winBackDays = SanitizeDays(w.days)
            /\ w.typed = NoKey => "key" \notin DOMAIN c
            /\ \A a \in Automation, f \in FormField :
                 c.automations[a][f] = w.form[a][f]
<1> DEFINE autos == [a \in Automation |->
                       [w.form[a] EXCEPT !.quietHours = CollectQuiet(@)]]
           k == KeyPatch(w.typed)
           b == [winBackDays |-> SanitizeDays(w.days), automations |-> autos]
           c == Collect(w)
<1>1. c = Spread(k, b)
  BY DEF Collect
<1>2. DOMAIN autos = Automation
  OBVIOUS
<1>3. ASSUME NEW a \in Automation
      PROVE  /\ DOMAIN autos[a] = FormField
             /\ \A f \in FormField : autos[a][f] = w.form[a][f]
  BY DEF PageOK, IsForm, CollectQuiet
<1>4. /\ DOMAIN k = IF w.typed \in {NoKey, Mask} THEN {} ELSE {"key"}
      /\ w.typed \notin {NoKey, Mask} => k["key"] = w.typed
  BY NothingHas DEF KeyPatch
<1> HIDE DEF autos, k
<1>5. /\ DOMAIN b = {"winBackDays", "automations"}
      /\ b["winBackDays"] = SanitizeDays(w.days) /\ b["automations"] = autos
  OBVIOUS
<1> HIDE DEF b, c
<1>6. /\ DOMAIN c = DOMAIN k \cup DOMAIN b
      /\ \A f \in DOMAIN c : c[f] = IF f \in DOMAIN b THEN b[f] ELSE k[f]
  BY <1>1 DEF Spread
<1>7. /\ {"winBackDays", "automations"} \subseteq DOMAIN c
      /\ c.winBackDays = SanitizeDays(w.days) /\ c.automations = autos
      /\ "key" \in DOMAIN c => c.key = w.typed /\ w.typed \notin {NoKey, Mask}
  BY <1>4, <1>5, <1>6
<1>8. SentOK(c)
  <2>1. IsForm(autos)
    BY <1>2, <1>3 DEF IsForm, PageOK
  <2>2. SanitizeDays(w.days) \in Days
    BY DaysStay DEF PageOK
  <2> QED BY <1>7, <2>1, <2>2 DEF SentOK, PageOK
<1> QED BY <1>3, <1>7, <1>8 DEF c

LEMMA SentPage ==
  ASSUME NEW w, PageOK(w), Untouched(w), w.stage = "open"
  PROVE  LET x == [w EXCEPT !.stage = "sent", !.sent = Collect(w)]
         IN PageOK(x) /\ Untouched(x)
<1> DEFINE c == Collect(w)
           x == [w EXCEPT !.stage = "sent", !.sent = c]
<1>1. /\ SentOK(c)
      /\ c.winBackDays = SanitizeDays(w.days)
      /\ w.typed = NoKey => "key" \notin DOMAIN c
      /\ \A a \in Automation, f \in FormField :
           c.automations[a][f] = w.form[a][f]
  BY CollectIs
<1> HIDE DEF c
<1>2. /\ DOMAIN x = PageField /\ x.stage = "sent" /\ x.shown = w.shown
      /\ x.days = w.days /\ x.typed = w.typed /\ x.sent = c
      /\ x.form = w.form /\ x.touched = w.touched
  BY DEF PageOK, PageField
<1> HIDE DEF x
<1>3. PageOK(x)
  BY <1>1, <1>2 DEF PageOK, SentOK
<1>4. <<"winBackDays">> \notin w.touched => c.winBackDays = w.days
  BY <1>1, DaysStay DEF PageOK, Untouched, Complete
<1>5. Untouched(x)
  BY <1>1, <1>2, <1>4 DEF Untouched
<1> QED BY <1>3, <1>5 DEF x, c

\* What a save leaves of what its page did not touch.
LEMMA SavedUntouched ==
  ASSUME NEW r, NEW w, PageOK(w), Untouched(w), w.stage = "sent"
  PROVE  LET n == UpdateSettings(r, Sanitize(w.sent))
         IN /\ \A a \in Automation, f \in FormField : <<a, f>> \notin w.touched =>
                 n.automations[a][f] = w.shown.automations[a][f]
            /\ <<"winBackDays">> \notin w.touched =>
                 n.winBackDays = w.shown.winBackDays
            /\ <<"key">> \notin w.touched => n.key = GetSettings(r).key
<1> DEFINE n == UpdateSettings(r, Sanitize(w.sent))
<1>0. SentOK(w.sent)
  BY DEF PageOK, SentOK
<1>1. /\ n.key = Get(w.sent, "key", GetSettings(r).key)
      /\ n.winBackDays = SanitizeDays(w.sent.winBackDays)
      /\ \A a \in Automation, f \in FormField :
           n.automations[a][f] = Coerced(f, w.sent.automations[a][f])
  BY <1>0, SaveIs
<1> HIDE DEF n
<1>2. ASSUME NEW a \in Automation, NEW f \in FormField, <<a, f>> \notin w.touched
      PROVE  n.automations[a][f] = w.shown.automations[a][f]
  <2>1. w.sent.automations[a][f] = w.shown.automations[a][f]
    BY <1>2 DEF Untouched
  <2>2. w.shown.automations[a][f] \in Value(f)
    BY DEF PageOK, Complete, Field
  <2> QED BY <1>1, <2>1, <2>2, CoercedIsValue, ValueIsInput
<1>3. <<"winBackDays">> \notin w.touched => n.winBackDays = w.shown.winBackDays
  BY <1>1, DaysStay DEF PageOK, Untouched, Complete
<1>4. <<"key">> \notin w.touched => n.key = GetSettings(r).key
  BY <1>1 DEF Untouched, Get, Has
<1> QED BY <1>2, <1>3, <1>4 DEF n

LEMMA HandledPage ==
  ASSUME NEW r, Stored(r), NEW w, PageOK(w), Untouched(w), w.stage = "sent"
  PROVE  LET n == UpdateSettings(r, Sanitize(w.sent))
             x == [w EXCEPT !.stage = "handled", !.shown = GetSettings(n)]
         IN Stored(n) /\ PageOK(x) /\ Untouched(x)
<1> DEFINE n == UpdateSettings(r, Sanitize(w.sent))
           g == GetSettings(n)
           x == [w EXCEPT !.stage = "handled", !.shown = g]
<1>1. Stored(n)
  BY SavedIsComplete, UpdatedIsStored DEF PageOK, SentOK
<1>2. Complete(g)
  BY <1>1, StoredIsComplete
<1>3. /\ g.winBackDays = n.winBackDays
      /\ \A a \in Automation, f \in Field :
           g.automations[a][f] = n.automations[a][f]
  BY UpdatedIs
<1>4. /\ \A a \in Automation, f \in FormField : <<a, f>> \notin w.touched =>
           n.automations[a][f] = w.shown.automations[a][f]
      /\ <<"winBackDays">> \notin w.touched => n.winBackDays = w.shown.winBackDays
  BY SavedUntouched
<1> HIDE DEF n, g
<1>5. /\ DOMAIN x = PageField /\ x.stage = "handled" /\ x.shown = g
      /\ x.days = w.days /\ x.typed = w.typed
      /\ x.form = w.form /\ x.touched = w.touched
  BY DEF PageOK, PageField
<1> HIDE DEF x
<1>6. PageOK(x)
  BY <1>2, <1>5 DEF PageOK
<1>7. Untouched(x)
  BY <1>3, <1>4, <1>5 DEF Untouched, Field
<1> QED BY <1>1, <1>6, <1>7 DEF x, n, g

LEMMA AnsweredPage ==
  ASSUME NEW w, PageOK(w), Untouched(w), NEW cleared \in BOOLEAN
  PROVE  LET x == [w EXCEPT !.stage = "open", !.sent = <<>>,
                            !.typed = IF cleared THEN NoKey ELSE @]
         IN PageOK(x) /\ Untouched(x)
<1> DEFINE typed == IF cleared THEN NoKey ELSE w.typed
           x == [w EXCEPT !.stage = "open", !.sent = <<>>, !.typed = typed]
<1>1. typed \in {NoKey, w.typed}
  OBVIOUS
<1> HIDE DEF typed
<1>2. /\ DOMAIN x = PageField /\ x.stage = "open" /\ x.shown = w.shown
      /\ x.days = w.days /\ x.typed = typed
      /\ x.form = w.form /\ x.touched = w.touched
  BY DEF PageOK, PageField
<1> HIDE DEF x
<1>3. PageOK(x)
  BY <1>1, <1>2 DEF PageOK
<1>4. Untouched(x)
  BY <1>1, <1>2 DEF Untouched
<1> QED BY <1>3, <1>4 DEF x, typed

-----------------------------------------------------------------------------
(* The specification.                                                         *)

LEMMA InitSettings == Init => SettingsIInv
BY SettingsAssumption DEF Init, SettingsIInv

\* A page changes, or opens, and the others do not.
LEMMA PageStep ==
  ASSUME SettingsIInv, NEW t \in Tab, NEW w, PageOK(w), Untouched(w),
         tab' = [tab EXCEPT ![t] = w], Stored(raw'),
         edits' \in Nat, requests' \in Nat
  PROVE  SettingsIInv'
<1>1. DOMAIN tab' = Tab
  BY DEF SettingsIInv
<1>2. \A u \in Tab : tab'[u] = IF u = t THEN w ELSE tab[u]
  BY DEF SettingsIInv
<1> QED BY <1>1, <1>2 DEF SettingsIInv

LEMMA OpenPage ==
  ASSUME SettingsIInv, NEW t \in Tab, tab[t].stage # "closed"
  PROVE  PageOK(tab[t]) /\ Untouched(tab[t])
BY DEF SettingsIInv, Closed

LEMMA LoadStep ==
  ASSUME SettingsIInv, NEW t \in Tab, Load(t)
  PROVE  SettingsIInv'
<1> DEFINE got == GetRedacted(raw)
           w == [stage |-> "open", shown |-> GetSettings(raw),
                 days |-> got.winBackDays,
                 form |-> [a \in Automation |->
                             Only(got.automations[a], FormField)],
                 typed |-> NoKey, touched |-> {}, sent |-> <<>>]
<1>1. PageOK(w) /\ Untouched(w)
  BY LoadedPage DEF SettingsIInv
<1>2. tab' = [tab EXCEPT ![t] = w]
  BY DEF Load
<1> HIDE DEF w
<1>3. Stored(raw') /\ edits' \in Nat /\ requests' \in Nat
  BY DEF Load, Request, SettingsIInv
<1> QED BY <1>1, <1>2, <1>3, PageStep

LEMMA EditStep ==
  ASSUME SettingsIInv, NEW t \in Tab, Edit(t)
  PROVE  SettingsIInv'
<1>1. PageOK(tab[t]) /\ Untouched(tab[t])
  BY OpenPage DEF Edit
<1>2. Stored(raw') /\ edits' \in Nat /\ requests' \in Nat
  BY DEF Edit, SettingsIInv
<1>3. ASSUME NEW a \in Automation, NEW f \in FormField, NEW v \in Input(f),
             tab' = [tab EXCEPT ![t].form[a][f] = v,
                                ![t].touched = @ \cup {<<a, f>>}]
      PROVE  SettingsIInv'
  <2> DEFINE w == [tab[t] EXCEPT !.form[a][f] = v, !.touched = @ \cup {<<a, f>>}]
  <2>1. PageOK(w) /\ Untouched(w)
    BY <1>1, EditedForm
  <2>2. tab' = [tab EXCEPT ![t] = w]
    BY <1>3 DEF SettingsIInv
  <2> HIDE DEF w
  <2> QED BY <1>2, <2>1, <2>2, PageStep
<1>4. ASSUME NEW d \in Days,
             tab' = [tab EXCEPT ![t].days = d,
                                ![t].touched = @ \cup {<<"winBackDays">>}]
      PROVE  SettingsIInv'
  <2> DEFINE w == [tab[t] EXCEPT !.days = d, !.touched = @ \cup {<<"winBackDays">>}]
  <2>1. PageOK(w) /\ Untouched(w)
    BY <1>1, EditedField
  <2>2. tab' = [tab EXCEPT ![t] = w]
    BY <1>4 DEF SettingsIInv
  <2> HIDE DEF w
  <2> QED BY <1>2, <2>1, <2>2, PageStep
<1>5. ASSUME NEW k \in ApiKey \cup {Mask},
             tab' = [tab EXCEPT ![t].typed = k,
                                ![t].touched = @ \cup {<<"key">>}]
      PROVE  SettingsIInv'
  <2> DEFINE w == [tab[t] EXCEPT !.typed = k, !.touched = @ \cup {<<"key">>}]
  <2>1. PageOK(w) /\ Untouched(w)
    BY <1>1, EditedField
  <2>2. tab' = [tab EXCEPT ![t] = w]
    BY <1>5 DEF SettingsIInv
  <2> HIDE DEF w
  <2> QED BY <1>2, <2>1, <2>2, PageStep
<1> QED BY <1>3, <1>4, <1>5 DEF Edit

LEMMA SendStep ==
  ASSUME SettingsIInv, NEW t \in Tab, Send(t)
  PROVE  SettingsIInv'
<1> DEFINE w == [tab[t] EXCEPT !.stage = "sent", !.sent = Collect(tab[t])]
<1>1. PageOK(tab[t]) /\ Untouched(tab[t])
  BY OpenPage DEF Send
<1>2. PageOK(w) /\ Untouched(w)
  BY <1>1, SentPage DEF Send
<1>3. tab' = [tab EXCEPT ![t] = w]
  BY DEF Send, SettingsIInv
<1> HIDE DEF w
<1>4. Stored(raw') /\ edits' \in Nat /\ requests' \in Nat
  BY DEF Send, Request, SettingsIInv
<1> QED BY <1>2, <1>3, <1>4, PageStep

LEMMA HandleStep ==
  ASSUME SettingsIInv, NEW t \in Tab, Handle(t)
  PROVE  SettingsIInv'
<1> DEFINE w == [tab[t] EXCEPT !.stage = "handled", !.shown = GetSettings(raw')]
<1>1. PageOK(tab[t]) /\ Untouched(tab[t])
  BY OpenPage DEF Handle
<1>2. PageOK(w) /\ Untouched(w) /\ Stored(raw')
  BY <1>1, HandledPage DEF Handle, SettingsIInv
<1>3. tab' = [tab EXCEPT ![t] = w]
  BY DEF Handle, SettingsIInv
<1> HIDE DEF w
<1>4. edits' \in Nat /\ requests' \in Nat
  BY DEF Handle, SettingsIInv
<1> QED BY <1>2, <1>3, <1>4, PageStep

LEMMA AnswerStep ==
  ASSUME SettingsIInv, NEW t \in Tab, Answer(t)
  PROVE  SettingsIInv'
<1>1. PageOK(tab[t]) /\ Untouched(tab[t])
  BY OpenPage DEF Answer
<1>2. PICK cleared \in BOOLEAN :
        tab' = [tab EXCEPT ![t].stage = "open", ![t].sent = <<>>,
                           ![t].typed = IF cleared THEN NoKey ELSE @]
  BY DEF Answer
<1> DEFINE w == [tab[t] EXCEPT !.stage = "open", !.sent = <<>>,
                               !.typed = IF cleared THEN NoKey ELSE @]
<1>3. PageOK(w) /\ Untouched(w)
  BY <1>1, AnsweredPage
<1>4. tab' = [tab EXCEPT ![t] = w]
  BY <1>2 DEF SettingsIInv
<1> HIDE DEF w
<1>5. Stored(raw') /\ edits' \in Nat /\ requests' \in Nat
  BY DEF Answer, SettingsIInv
<1> QED BY <1>3, <1>4, <1>5, PageStep

\* A key, and nothing else, is patched.
LEMMA KeyIsStored ==
  ASSUME NEW r, Stored(r), NEW k \in ApiKey
  PROVE  Stored(UpdateSettings(r, KeyPatch(k)))
<1> DEFINE p == KeyPatch(k)
           n == UpdateSettings(r, p)
           g == GetSettings(r)
<1>1. p = [key |-> k]
  BY SettingsAssumption DEF KeyPatch
<1>2. /\ Get(p, "key", g.key) = k
      /\ Get(p, "winBackDays", g.winBackDays) = g.winBackDays
      /\ Get(p, "automations", <<>>) = <<>>
  BY <1>1 DEF Get, Has
<1>3. \A a \in Automation : \A f \in Field :
        Get(Patch(p, a), f, g.automations[a][f]) = g.automations[a][f]
  BY <1>2, NothingHas DEF Patch, Get, Has
<1>4. Complete(g)
  BY StoredIsComplete
<1> HIDE DEF p, g
<1>5. Complete(n)
  BY <1>2, <1>3, <1>4, UpdateIs DEF Complete, g
<1> QED BY <1>5, UpdatedIsStored DEF p

LEMMA FiltersAreStored ==
  ASSUME NEW r, Stored(r), NEW a \in Automation, NEW fs \in Filters
  PROVE  Stored(UpdateSettings(r, Sanitize(
           [automations |-> [b \in {a} |->
              Spread(GetSettings(r).automations[a], [filters |-> fs])]])))
<1> DEFINE g == GetSettings(r)
           x == Spread(g.automations[a], [filters |-> fs])
           body == [automations |-> [b \in {a} |-> x]]
           p == Sanitize(body)
           n == UpdateSettings(r, p)
<1>1. Complete(g) /\ Field \subseteq DOMAIN g.automations[a]
  BY StoredIsComplete, GetSettingsIs
<1> HIDE DEF g
<1>2. /\ Field \subseteq DOMAIN x /\ x["filters"] = fs
      /\ \A f \in FormField : x[f] = g.automations[a][f]
  BY <1>1 DEF Spread, Field, FormField
<1> HIDE DEF x
<1>3. /\ DOMAIN body = {"automations"} /\ DOMAIN body.automations = {a}
      /\ body.automations[a] = x
  OBVIOUS
<1> HIDE DEF body
<1>4. /\ Get(p, "key", g.key) = g.key
      /\ Get(p, "winBackDays", g.winBackDays) = g.winBackDays
      /\ Patch(p, a) = SanitizeAutomation(x)
      /\ \A b \in Automation \ {a} : Patch(p, b) = <<>>
  BY <1>3, SanitizedIs DEF Get, Has
<1>5. \A f \in Field : Get(Patch(p, a), f, g.automations[a][f]) \in Value(f)
  <2>1. \A f \in FormField :
          f \in DOMAIN Patch(p, a) /\ Patch(p, a)[f] = Coerced(f, g.automations[a][f])
    BY <1>2, <1>4, SanitizedAutomation DEF Field
  <2>2. "filters" \in DOMAIN Patch(p, a) /\ Patch(p, a)["filters"] = fs
    BY <1>2, <1>4, SanitizedAutomation DEF Field
  <2>3. fs \in Value("filters")
    BY DEF Value, Input
  <2>4. \A f \in FormField : Coerced(f, g.automations[a][f]) \in Value(f)
    BY <1>1, CoercedIsValue, ValueIsInput DEF Complete, Field
  <2> QED BY <2>1, <2>2, <2>3, <2>4 DEF Get, Has, Field
<1>6. \A b \in Automation \ {a}, f \in Field :
        Get(Patch(p, b), f, g.automations[b][f]) \in Value(f)
  BY <1>1, <1>4, NothingHas DEF Complete, Get, Has
<1> HIDE DEF p
<1>7. Complete(n)
  BY <1>1, <1>4, <1>5, <1>6, UpdateIs DEF Complete, g
<1> QED BY <1>7, UpdatedIsStored DEF p, body, x, g

LEMMA StoreStep ==
  ASSUME SettingsIInv, UNCHANGED <<tab, edits>>, requests' \in Nat, Stored(raw')
  PROVE  SettingsIInv'
BY DEF SettingsIInv

LEMMA NextSettings == SettingsIInv /\ [Next]_vars => SettingsIInv'
<1> SUFFICES ASSUME SettingsIInv, [Next]_vars PROVE SettingsIInv'
  OBVIOUS
<1>1. ASSUME NEW t \in Tab, ValidateKey(t) PROVE SettingsIInv'
  <2>1. tab[t].typed \in ApiKey
    BY <1>1, OpenPage DEF ValidateKey, PageOK
  <2>2. Stored(raw')
    BY <1>1, <2>1, KeyIsStored DEF ValidateKey, SettingsIInv
  <2> QED BY <1>1, <2>2, StoreStep DEF ValidateKey, Request, SettingsIInv
<1>2. ASSUME NEW a \in Automation, NEW fs \in Filters, PostFilters(a, fs)
      PROVE  SettingsIInv'
  <2>1. Stored(raw')
    BY <1>2, FiltersAreStored DEF PostFilters, SettingsIInv
  <2> QED BY <1>2, <2>1, StoreStep DEF PostFilters, Request, SettingsIInv
<1>3. CASE UNCHANGED vars
  BY <1>3 DEF vars, SettingsIInv
<1> QED BY <1>1, <1>2, <1>3, LoadStep, EditStep, SendStep, HandleStep, AnswerStep
        DEF Next

\* What the store holds, and every open page, is as SettingsIInv says: fields the
\* merchant did not touch are what getSettings returned, up to the save's request.
THEOREM SettingsInductive == Spec => []SettingsIInv
BY InitSettings, NextSettings, PTL DEF Spec

\* settings.js and sanitizeSettingsPatch: whatever an earlier version left in the
\* store and whatever pages send, what getSettings returns has every automation
\* with every field, a delay that is not negative and a key that is not the hint.
THEOREM SettingsAreTyped == Spec => []TypeOK
<1>1. ASSUME SettingsIInv PROVE TypeOK
  <2>1. Complete(GetSettings(raw))
    BY <1>1, StoredIsComplete DEF SettingsIInv
  <2>2. \A t \in Tab : tab[t].stage \in {"closed", "open", "sent", "handled"}
    BY <1>1 DEF SettingsIInv, Closed, PageOK
  <2> QED BY <1>1, <2>1, <2>2 DEF TypeOK, Complete, Now, SettingsIInv
<1> QED BY <1>1, SettingsInductive, PTL

\* A page's save is handled only by Handle.
LEMMA HandledBy ==
  ASSUME SettingsIInv, [Next]_vars, NEW t \in Tab, Handled(t)
  PROVE  /\ PageOK(tab[t]) /\ Untouched(tab[t]) /\ tab[t].stage = "sent"
         /\ raw' = UpdateSettings(raw, Sanitize(tab[t].sent))
<1>1. PageOK(tab[t]) /\ Untouched(tab[t]) /\ tab[t].stage = "sent"
  BY OpenPage DEF Handled
<1>2. DOMAIN tab = Tab
  BY DEF SettingsIInv
<1>3. \A u \in Tab \ {t} :
        Load(u) \/ Edit(u) \/ Send(u) \/ Handle(u) \/ Answer(u) => tab'[t] = tab[t]
  <2> SUFFICES ASSUME NEW u \in Tab \ {t} PROVE
        Load(u) \/ Edit(u) \/ Send(u) \/ Handle(u) \/ Answer(u) => tab'[t] = tab[t]
    OBVIOUS
  <2>1. Load(u) => tab'[t] = tab[t]
    BY <1>2 DEF Load
  <2>2. Edit(u) => tab'[t] = tab[t]
    BY <1>2 DEF Edit
  <2>3. Send(u) => tab'[t] = tab[t]
    BY <1>2 DEF Send
  <2>4. Handle(u) => tab'[t] = tab[t]
    BY <1>2 DEF Handle
  <2>5. Answer(u) => tab'[t] = tab[t]
    BY <1>2 DEF Answer
  <2> QED BY <2>1, <2>2, <2>3, <2>4, <2>5
<1>4. \A u \in Tab : ValidateKey(u) => tab' = tab
  BY DEF ValidateKey
<1>5. \A a \in Automation, fs \in Filters : PostFilters(a, fs) => tab' = tab
  BY DEF PostFilters
<1>6. ~Load(t) /\ ~Send(t) /\ ~Answer(t)
  BY <1>1 DEF Load, Send, Answer
<1>7. Edit(t) => tab'[t].stage = tab[t].stage
  BY <1>1, <1>2 DEF Edit, PageOK, PageField
<1>8. Handle(t)
  BY <1>3, <1>4, <1>5, <1>6, <1>7 DEF Handled, Next, vars
<1> QED BY <1>1, <1>8 DEF Handle

\* POST /api/settings of a page nobody saved under changes what its merchant
\* changed and nothing else, through redaction, form, coercion and merge.
THEOREM SavesChangeOnlyEdits == Spec => SaveChangesOnlyEdits
<1>1. ASSUME SettingsIInv, [Next]_vars, NEW t \in Tab, Handled(t),
             tab[t].shown = GetSettings(raw)
      PROVE  /\ \A a \in Automation, f \in FormField :
                  <<a, f>> \notin tab[t].touched => Now(a, f)' = Now(a, f)
             /\ <<"winBackDays">> \notin tab[t].touched =>
                  raw'.winBackDays = GetSettings(raw).winBackDays
             /\ <<"key">> \notin tab[t].touched => raw'.key = GetSettings(raw).key
  <2>1. /\ PageOK(tab[t]) /\ Untouched(tab[t]) /\ tab[t].stage = "sent"
        /\ raw' = UpdateSettings(raw, Sanitize(tab[t].sent))
    BY <1>1, HandledBy
  <2>2. /\ \A a \in Automation, f \in FormField : <<a, f>> \notin tab[t].touched =>
             raw'.automations[a][f] = tab[t].shown.automations[a][f]
        /\ <<"winBackDays">> \notin tab[t].touched =>
             raw'.winBackDays = tab[t].shown.winBackDays
        /\ <<"key">> \notin tab[t].touched => raw'.key = GetSettings(raw).key
    BY <2>1, SavedUntouched
  <2>3. \A a \in Automation, f \in FormField :
          GetSettings(raw').automations[a][f] = raw'.automations[a][f]
    BY <2>1, UpdatedIs DEF Field
  <2> QED BY <1>1, <2>2, <2>3 DEF Now
<1>2. SettingsIInv /\ [Next]_vars =>
        [\A t \in Tab : Handled(t) /\ tab[t].shown = GetSettings(raw) =>
           /\ \A a \in Automation, f \in FormField :
                <<a, f>> \notin tab[t].touched => Now(a, f)' = Now(a, f)
           /\ <<"winBackDays">> \notin tab[t].touched =>
                raw'.winBackDays = GetSettings(raw).winBackDays
           /\ <<"key">> \notin tab[t].touched =>
                raw'.key = GetSettings(raw).key]_vars
  BY <1>1
<1> QED BY <1>2, SettingsInductive, PTL DEF Spec, SaveChangesOnlyEdits

\* The page has no fields for filters and sends none, so that the merge of
\* updateSettings leaves them, however many pages save.
THEOREM FiltersAreKept == Spec => PagesKeepFilters
<1>1. ASSUME SettingsIInv, [Next]_vars, NEW t \in Tab, Handled(t),
             NEW a \in Automation
      PROVE  Now(a, "filters")' = Now(a, "filters")
  <2>1. /\ PageOK(tab[t]) /\ tab[t].stage = "sent"
        /\ raw' = UpdateSettings(raw, Sanitize(tab[t].sent))
    BY <1>1, HandledBy
  <2>2. SentOK(tab[t].sent)
    BY <2>1 DEF PageOK, SentOK
  <2>3. raw'.automations[a]["filters"] = GetSettings(raw).automations[a]["filters"]
    BY <2>1, <2>2, SaveIs
  <2>4. GetSettings(raw').automations[a]["filters"] = raw'.automations[a]["filters"]
    BY <2>1, UpdatedIs DEF Field
  <2> QED BY <2>3, <2>4 DEF Now
<1>2. SettingsIInv /\ [Next]_vars =>
        [\A t \in Tab : Handled(t) =>
           \A a \in Automation : Now(a, "filters")' = Now(a, "filters")]_vars
  BY <1>1
<1> QED BY <1>2, SettingsInductive, PTL DEF Spec, PagesKeepFilters
=============================================================================
