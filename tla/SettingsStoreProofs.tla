------------------------- MODULE SettingsStoreProofs -------------------------
(***************************************************************************)
(* Theorems about SettingsStore, for any clients, requests, flags and      *)
(* edits, any sequence of failed saves, kills and power losses.            *)
(*                                                                         *)
(* What the daemon serves and what is being saved is a whole, valid and    *)
(* completed configuration (Good); so is every file nobody wrote by hand.  *)
(* A good configuration comes back from its file as it was (ReadBack), and *)
(* a request makes another good one of it, or is refused.                  *)
(***************************************************************************)
EXTENDS SettingsStore, TLAPS

Good(c) == IsConfig(c) /\ Valid(c) /\ Tidy(c) = c

KnownHash(h) == \E t \in printed \cup {cli.token, NoToken} : h = Hash(t)

-----------------------------------------------------------------------------
(* Configurations as values. *)

Sections == {"options", "notifications", "shutdown", "docker", "safety", "auto_drain", "auth", "actions"}

\* What a configuration is made of.
LEMMA DomainsOfDefaults ==
  /\ DOMAIN Defaults = Sections
  /\ DOMAIN Defaults["options"] =
       {"listen", "provider", "sysfs_root", "battery", "web_dir", "log_json", "threshold_method", "events_db"}
  /\ DOMAIN Defaults["notifications"] = {"provider", "enabled", "dry_run", "webhook_url", "chat_id"}
  /\ DOMAIN Defaults["auto_drain"] =
       {"enabled", "battery_threshold_percent", "pre_notification_minutes",
        "response_timeout_minutes", "notification_services", "on_user_no"}
  /\ DOMAIN Defaults["auth"] = {"enabled", "allow_loopback_no_token", "token_hash"}
  /\ DOMAIN Defaults["actions"] =
       {"real_enabled", "require_confirmation", "cooldown_seconds", "poweroff_timeout_seconds",
        "poweroff_path", "docker_path", "sync_path"}
<1>1. DOMAIN Defaults = Sections
  BY DEF Defaults, Sections
<1>2. /\ Defaults["options"] = DefaultOptions /\ Defaults["notifications"] = DefaultNotifications
      /\ Defaults["auto_drain"] = DefaultAutoDrain /\ Defaults["auth"] = DefaultAuth
      /\ Defaults["actions"] = DefaultActions
  BY DEF Defaults
<1> QED
  BY <1>1, <1>2 DEF DefaultOptions, DefaultNotifications, DefaultAutoDrain, DefaultAuth, DefaultActions

\* A section with its fields.
IsSection(section, s) == section = [f \in DOMAIN Defaults[s] |-> section[f]]

LEMMA Whole ==
  ASSUME NEW c
  PROVE  IsConfig(c) <=> /\ c = [s \in Sections |-> c[s]]
                         /\ \A s \in Sections : IsSection(c[s], s)
<1>1. ASSUME IsConfig(c)
      PROVE  c = [s \in Sections |-> c[s]] /\ \A s \in Sections : IsSection(c[s], s)
  BY <1>1, DomainsOfDefaults DEF IsConfig, IsSection
<1>2. ASSUME c = [s \in Sections |-> c[s]], \A s \in Sections : IsSection(c[s], s)
      PROVE  IsConfig(c)
  <2>1. [s \in Sections |-> c[s]] = [s \in Sections |-> [f \in DOMAIN Defaults[s] |-> c[s][f]]]
    BY <1>2 DEF IsSection
  <2> QED
    BY <1>2, <2>1, DomainsOfDefaults DEF IsConfig
<1> QED
  BY <1>1, <1>2

\* The values that stand for something else are no configurations.
LEMMA NotConfigs ==
  ~IsConfig(None) /\ ~IsConfig(Torn)
<1>1. DOMAIN None = {"nothing"} /\ DOMAIN Torn = {"torn"}
  BY DEF None, Torn
<1>2. \A c : IsConfig(c) => "options" \in DOMAIN c
  BY Whole DEF Sections
<1> QED
  BY <1>1, <1>2

\* The file lists every section.
LEMMA NothingIsLeftOut ==
  ASSUME NEW c, IsConfig(c)
  PROVE  Persisted(c) = c
<1>1. c = [s \in Sections |-> c[s]]
  BY Whole
<1>2. Persisted(c) = [s \in Sections |-> c[s]]
  BY DEF Persisted, Sections
<1> QED
  BY <1>1, <1>2

LEMMA MergeIsWhole ==
  ASSUME NEW c, IsConfig(c), NEW patches
  PROVE  IsConfig(Merge(c, patches))
<1> DEFINE m == Merge(c, patches)
<1>1. m = [s \in Sections |-> IF s \in DOMAIN patches THEN Override(c[s], patches[s]) ELSE c[s]]
  BY Whole DEF Merge
<1>2. m = [s \in Sections |-> m[s]]
  BY <1>1
<1>3. ASSUME NEW s \in Sections PROVE IsSection(m[s], s)
  <2>1. DOMAIN c[s] = DOMAIN Defaults[s] /\ IsSection(c[s], s)
    BY Whole DEF IsSection
  <2>2. Override(c[s], patches[s]) =
          [f \in DOMAIN Defaults[s] |-> Override(c[s], patches[s])[f]]
    BY <2>1 DEF Override
  <2> QED
    BY <1>1, <2>1, <2>2 DEF IsSection
<1> QED
  BY <1>2, <1>3, Whole

LEMMA DefaultsAreWhole == IsConfig(Defaults)
<1>1. Defaults = [s \in Sections |-> Defaults[s]]
  BY DEF Defaults, Sections
<1>2. ASSUME NEW s \in Sections PROVE IsSection(Defaults[s], s)
  <2>1. DefaultOptions = [f \in DOMAIN DefaultOptions |-> DefaultOptions[f]]
    BY DEF DefaultOptions
  <2>2. DefaultNotifications = [f \in DOMAIN DefaultNotifications |-> DefaultNotifications[f]]
    BY DEF DefaultNotifications
  <2>3. DefaultShutdown = [f \in DOMAIN DefaultShutdown |-> DefaultShutdown[f]]
    BY DEF DefaultShutdown
  <2>4. DefaultDocker = [f \in DOMAIN DefaultDocker |-> DefaultDocker[f]]
    BY DEF DefaultDocker
  <2>5. DefaultSafety = [f \in DOMAIN DefaultSafety |-> DefaultSafety[f]]
    BY DEF DefaultSafety
  <2>6. DefaultAutoDrain = [f \in DOMAIN DefaultAutoDrain |-> DefaultAutoDrain[f]]
    BY DEF DefaultAutoDrain
  <2>7. DefaultAuth = [f \in DOMAIN DefaultAuth |-> DefaultAuth[f]]
    BY DEF DefaultAuth
  <2>8. DefaultActions = [f \in DOMAIN DefaultActions |-> DefaultActions[f]]
    BY DEF DefaultActions
  <2>9. /\ Defaults["options"] = DefaultOptions
        /\ Defaults["notifications"] = DefaultNotifications
        /\ Defaults["shutdown"] = DefaultShutdown
        /\ Defaults["docker"] = DefaultDocker
        /\ Defaults["safety"] = DefaultSafety
        /\ Defaults["auto_drain"] = DefaultAutoDrain
        /\ Defaults["auth"] = DefaultAuth
        /\ Defaults["actions"] = DefaultActions
    BY DEF Defaults
  <2> QED
    BY <2>1, <2>2, <2>3, <2>4, <2>5, <2>6, <2>7, <2>8, <2>9 DEF IsSection, Sections
<1> QED
  BY <1>1, <1>2, Whole

\* A whole configuration over the defaults is itself: the file loses nothing.
LEMMA MergeBack ==
  ASSUME NEW c, IsConfig(c)
  PROVE  Merge(Defaults, c) = c
<1>1. c = [s \in Sections |-> c[s]] /\ DOMAIN c = Sections
  BY Whole
<1>2. ASSUME NEW s \in Sections PROVE Override(Defaults[s], c[s]) = c[s]
  <2>1. c[s] = [f \in DOMAIN Defaults[s] |-> c[s][f]] /\ DOMAIN c[s] = DOMAIN Defaults[s]
    BY Whole DEF IsSection
  <2>2. Override(Defaults[s], c[s]) = [f \in DOMAIN Defaults[s] |-> c[s][f]]
    BY <2>1 DEF Override
  <2> QED
    BY <2>1, <2>2
<1>3. Merge(Defaults, c) = [s \in Sections |-> c[s]]
  BY <1>1, <1>2, DomainsOfDefaults DEF Merge
<1> QED
  BY <1>1, <1>3

\* Completing a configuration, field by field.
LEMMA TidyFields ==
  ASSUME NEW c, IsConfig(c)
  PROVE  /\ DOMAIN Tidy(c) = Sections /\ Tidy(c) = [s \in Sections |-> Tidy(c)[s]]
         /\ Tidy(c).options = TidyOptions(c.options)
         /\ Tidy(c).notifications = TidyNotifications(c.notifications)
         /\ Tidy(c).auto_drain = TidyAutoDrain(c.auto_drain)
         /\ Tidy(c).actions = TidyActions(c.actions)
         /\ \A s \in {"shutdown", "docker", "safety", "auth"} : Tidy(c)[s] = c[s]
<1>1. c = [s \in Sections |-> c[s]] /\ DOMAIN c = Sections
  BY Whole
<1> QED
  BY <1>1 DEF Tidy, Sections

LEMMA TidyOptionsFields ==
  ASSUME NEW o, IsSection(o, "options")
  PROVE  /\ IsSection(TidyOptions(o), "options")
         /\ \A f \in DOMAIN o :
              TidyOptions(o)[f] = IF f = "provider" THEN OrDefault(o[f], DefaultOptions.provider)
                                  ELSE IF f = "threshold_method" THEN OrDefault(o[f], DefaultOptions.threshold_method)
                                  ELSE o[f]
<1>1. o = [f \in DOMAIN o |-> o[f]] /\ DOMAIN o = DOMAIN Defaults["options"]
  BY DEF IsSection
<1>2. "provider" \in DOMAIN o /\ "threshold_method" \in DOMAIN o
  BY <1>1, DomainsOfDefaults
<1> QED
  BY <1>1, <1>2 DEF TidyOptions, IsSection

LEMMA TidyNotificationsFields ==
  ASSUME NEW n, IsSection(n, "notifications")
  PROVE  /\ IsSection(TidyNotifications(n), "notifications")
         /\ \A f \in DOMAIN n :
              TidyNotifications(n)[f] = IF f = "provider" THEN OrDefault(n[f], "none") ELSE n[f]
<1>1. n = [f \in DOMAIN n |-> n[f]] /\ DOMAIN n = DOMAIN Defaults["notifications"]
  BY DEF IsSection
<1> QED
  BY <1>1 DEF TidyNotifications, IsSection

LEMMA TidyAutoDrainFields ==
  ASSUME NEW a, IsSection(a, "auto_drain")
  PROVE  /\ IsSection(TidyAutoDrain(a), "auto_drain")
         /\ TidyAutoDrain(a).enabled = a.enabled
         /\ TidyAutoDrain(a).battery_threshold_percent =
              IfZero(a.battery_threshold_percent, DefaultAutoDrain.battery_threshold_percent)
         /\ TidyAutoDrain(a).pre_notification_minutes =
              IfZero(a.pre_notification_minutes, DefaultAutoDrain.pre_notification_minutes)
         /\ TidyAutoDrain(a).response_timeout_minutes =
              IfZero(a.response_timeout_minutes, DefaultAutoDrain.response_timeout_minutes)
         /\ TidyAutoDrain(a).on_user_no = OrDefault(a.on_user_no, DefaultAutoDrain.on_user_no)
         /\ TidyAutoDrain(a).notification_services = Allowed(a.notification_services)
<1>1. a = [f \in DOMAIN a |-> a[f]] /\ DOMAIN a = DOMAIN Defaults["auto_drain"]
  BY DEF IsSection
<1>2. IsSection(TidyAutoDrain(a), "auto_drain")
  BY <1>1 DEF TidyAutoDrain, IsSection
<1> QED
  BY <1>1, <1>2, DomainsOfDefaults DEF TidyAutoDrain

LEMMA TidyActionsFields ==
  ASSUME NEW a, IsSection(a, "actions")
  PROVE  /\ IsSection(TidyActions(a), "actions")
         /\ TidyActions(a).cooldown_seconds = IfNotPositive(a.cooldown_seconds, DefaultActions.cooldown_seconds)
         /\ TidyActions(a).poweroff_timeout_seconds =
              IfNotPositive(a.poweroff_timeout_seconds, DefaultActions.poweroff_timeout_seconds)
         /\ TidyActions(a).require_confirmation = TRUE
         /\ \A f \in {"real_enabled"} \cup PathFields : TidyActions(a)[f] = a[f]
<1>1. a = [f \in DOMAIN a |-> a[f]] /\ DOMAIN a = DOMAIN Defaults["actions"]
  BY DEF IsSection
<1>2. IsSection(TidyActions(a), "actions")
  BY <1>1 DEF TidyActions, IsSection
<1> QED
  BY <1>1, <1>2, DomainsOfDefaults DEF TidyActions, PathFields

LEMMA ActionFields ==
  DOMAIN Defaults["actions"] =
    {"real_enabled"} \cup PathFields
      \cup {"cooldown_seconds", "poweroff_timeout_seconds", "require_confirmation"}
BY DomainsOfDefaults DEF PathFields

LEMMA TidyIsWhole ==
  ASSUME NEW c, IsConfig(c)
  PROVE  IsConfig(Tidy(c))
<1>1. \A s \in Sections : IsSection(c[s], s)
  BY Whole
<1>2. \A s \in Sections : IsSection(Tidy(c)[s], s)
  <2>1. \A s \in {"shutdown", "docker", "safety", "auth"} : IsSection(Tidy(c)[s], s)
    BY <1>1, TidyFields DEF Sections
  <2>2. IsSection(Tidy(c).options, "options") /\ IsSection(Tidy(c).notifications, "notifications")
    BY <1>1, TidyFields, TidyOptionsFields, TidyNotificationsFields DEF Sections
  <2>3. IsSection(Tidy(c).auto_drain, "auto_drain") /\ IsSection(Tidy(c).actions, "actions")
    BY <1>1, TidyFields, TidyAutoDrainFields, TidyActionsFields DEF Sections
  <2> QED
    BY <2>1, <2>2, <2>3 DEF Sections
<1> QED
  BY <1>2, TidyFields, Whole

\* Two sections with the same fields are the same.
LEMMA SameSection ==
  ASSUME NEW s, NEW x, NEW y, IsSection(x, s), IsSection(y, s),
         \A f \in DOMAIN Defaults[s] : x[f] = y[f]
  PROVE  x = y
BY DEF IsSection

LEMMA SameConfig ==
  ASSUME NEW c, NEW d, IsConfig(c), IsConfig(d), \A s \in Sections : c[s] = d[s]
  PROVE  c = d
<1>1. c = [s \in Sections |-> c[s]] /\ d = [s \in Sections |-> d[s]]
  BY Whole
<1> QED
  BY <1>1

\* What has been completed is complete.
LEMMA TidyTwice ==
  ASSUME NEW c, IsConfig(c)
  PROVE  Tidy(Tidy(c)) = Tidy(c)
<1> DEFINE t == Tidy(c)
<1>1. IsConfig(t) /\ IsConfig(Tidy(t))
  BY TidyIsWhole
<1>2. \A s \in Sections : IsSection(c[s], s) /\ IsSection(t[s], s) /\ IsSection(Tidy(t)[s], s)
  BY <1>1, Whole
<1> HIDE DEF t
<1>3. Tidy(t).options = t.options
  <2>1. t.options = TidyOptions(c.options) /\ Tidy(t).options = TidyOptions(t.options)
    BY <1>1, TidyFields DEF t
  <2>2. \A f \in DOMAIN Defaults["options"] : Tidy(t).options[f] = t.options[f]
    <3>1. IsSection(c.options, "options") /\ IsSection(t.options, "options")
      BY <1>2 DEF Sections
    <3>2. /\ DOMAIN c.options = DOMAIN Defaults["options"]
          /\ DOMAIN t.options = DOMAIN Defaults["options"]
      BY <3>1 DEF IsSection
    <3> TAKE f \in DOMAIN Defaults["options"]
    <3>3. CASE f \notin {"provider", "threshold_method"}
      BY <2>1, <3>1, <3>2, <3>3, TidyOptionsFields
    <3>4. CASE f = "provider"
      BY <2>1, <3>1, <3>2, <3>4, TidyOptionsFields DEF OrDefault
    <3>5. CASE f = "threshold_method"
      BY <2>1, <3>1, <3>2, <3>5, TidyOptionsFields DEF OrDefault
    <3> QED
      BY <3>3, <3>4, <3>5
  <2> QED
    BY <1>2, <2>2, SameSection DEF Sections
<1>4. Tidy(t).notifications = t.notifications
  <2>1. t.notifications = TidyNotifications(c.notifications)
        /\ Tidy(t).notifications = TidyNotifications(t.notifications)
    BY <1>1, TidyFields DEF t
  <2>2. \A f \in DOMAIN Defaults["notifications"] : Tidy(t).notifications[f] = t.notifications[f]
    <3>1. IsSection(c.notifications, "notifications") /\ IsSection(t.notifications, "notifications")
      BY <1>2 DEF Sections
    <3>2. /\ DOMAIN c.notifications = DOMAIN Defaults["notifications"]
          /\ DOMAIN t.notifications = DOMAIN Defaults["notifications"]
      BY <3>1 DEF IsSection
    <3> TAKE f \in DOMAIN Defaults["notifications"]
    <3>3. t.notifications[f] =
            IF f = "provider" THEN OrDefault(c.notifications[f], "none") ELSE c.notifications[f]
      BY <2>1, <3>1, <3>2, TidyNotificationsFields
    <3>4. Tidy(t).notifications[f] =
            IF f = "provider" THEN OrDefault(t.notifications[f], "none") ELSE t.notifications[f]
      BY <2>1, <3>1, <3>2, TidyNotificationsFields
    <3> QED
      BY <3>3, <3>4 DEF OrDefault
  <2> QED
    BY <1>2, <2>2, SameSection DEF Sections
<1>5. Tidy(t).auto_drain = t.auto_drain
  <2>1. t.auto_drain = TidyAutoDrain(c.auto_drain) /\ Tidy(t).auto_drain = TidyAutoDrain(t.auto_drain)
    BY <1>1, TidyFields DEF t
  <2>2. Allowed(Allowed(c.auto_drain.notification_services)) = Allowed(c.auto_drain.notification_services)
    BY DEF Allowed, Services, Providers
  <2>3. \A f \in DOMAIN Defaults["auto_drain"] : Tidy(t).auto_drain[f] = t.auto_drain[f]
    BY <1>2, <2>1, <2>2, TidyAutoDrainFields, DomainsOfDefaults DEF OrDefault, IfZero, Sections
  <2> QED
    BY <1>2, <2>3, SameSection DEF Sections
<1>6. Tidy(t).actions = t.actions
  <2>1. t.actions = TidyActions(c.actions) /\ Tidy(t).actions = TidyActions(t.actions)
    BY <1>1, TidyFields DEF t
  <2>2. \A f \in DOMAIN Defaults["actions"] : Tidy(t).actions[f] = t.actions[f]
    <3>0. IsSection(c.actions, "actions") /\ IsSection(t.actions, "actions")
      BY <1>2 DEF Sections
    <3>1. \A f \in {"real_enabled"} \cup PathFields : Tidy(t).actions[f] = t.actions[f]
      BY <2>1, <3>0, TidyActionsFields
    <3>2. \A n, default : IfNotPositive(IfNotPositive(n, default), default) = IfNotPositive(n, default)
      BY DEF IfNotPositive
    <3>3. Tidy(t).actions.cooldown_seconds = t.actions.cooldown_seconds
      <4>1. t.actions.cooldown_seconds =
              IfNotPositive(c.actions.cooldown_seconds, DefaultActions.cooldown_seconds)
        BY <2>1, <3>0, TidyActionsFields
      <4>2. Tidy(t).actions.cooldown_seconds =
              IfNotPositive(t.actions.cooldown_seconds, DefaultActions.cooldown_seconds)
        BY <2>1, <3>0, TidyActionsFields
      <4> QED
        BY <3>2, <4>1, <4>2, Zenon
    <3>4. Tidy(t).actions.poweroff_timeout_seconds = t.actions.poweroff_timeout_seconds
      <4>1. t.actions.poweroff_timeout_seconds =
              IfNotPositive(c.actions.poweroff_timeout_seconds, DefaultActions.poweroff_timeout_seconds)
        BY <2>1, <3>0, TidyActionsFields
      <4>2. Tidy(t).actions.poweroff_timeout_seconds =
              IfNotPositive(t.actions.poweroff_timeout_seconds, DefaultActions.poweroff_timeout_seconds)
        BY <2>1, <3>0, TidyActionsFields
      <4> QED
        BY <3>2, <4>1, <4>2, Zenon
    <3>5. Tidy(t).actions.require_confirmation = t.actions.require_confirmation
      BY <2>1, <3>0, TidyActionsFields
    <3> QED
      BY <3>1, <3>3, <3>4, <3>5, ActionFields
  <2> QED
    BY <1>2, <2>2, SameSection DEF Sections
<1>7. \A s \in Sections : Tidy(t)[s] = t[s]
  BY <1>1, <1>3, <1>4, <1>5, <1>6, TidyFields DEF Sections
<1> QED
  BY <1>1, <1>7, SameConfig DEF t

\* A field is completed for what it is, whatever the others are.
LEMMA TidyByField ==
  ASSUME NEW c, NEW d, IsConfig(c), IsConfig(d),
         NEW s \in Sections, NEW f \in DOMAIN Defaults[s], c[s][f] = d[s][f]
  PROVE  Tidy(c)[s][f] = Tidy(d)[s][f]
<1>1. IsSection(c[s], s) /\ IsSection(d[s], s)
  BY Whole
<1>2. CASE s = "options"
  BY <1>1, <1>2, TidyFields, TidyOptionsFields DEF IsSection
<1>3. CASE s = "notifications"
  BY <1>1, <1>3, TidyFields, TidyNotificationsFields DEF IsSection
<1>4. CASE s = "auto_drain"
  BY <1>1, <1>4, TidyFields, TidyAutoDrainFields, DomainsOfDefaults
<1>5. CASE s = "actions"
  <2>1. Tidy(c)[s] = TidyActions(c[s]) /\ Tidy(d)[s] = TidyActions(d[s])
    BY <1>5, TidyFields
  <2>2. PICK x, y : x = c[s] /\ y = d[s] /\ IsSection(x, "actions") /\ IsSection(y, "actions") /\ x[f] = y[f]
    BY <1>1, <1>5
  <2>3. TidyActions(x)[f] = TidyActions(y)[f]
    <3>1. CASE f \in {"real_enabled"} \cup PathFields
      BY <2>2, <3>1, TidyActionsFields
    <3>2. CASE f = "cooldown_seconds"
      BY <2>2, <3>2, TidyActionsFields
    <3>3. CASE f = "poweroff_timeout_seconds"
      BY <2>2, <3>3, TidyActionsFields
    <3>4. CASE f = "require_confirmation"
      BY <2>2, <3>4, TidyActionsFields
    <3> QED
      BY <1>5, <3>1, <3>2, <3>3, <3>4, ActionFields
  <2> QED
    BY <2>1, <2>2, <2>3
<1>6. CASE s \in {"shutdown", "docker", "safety", "auth"}
  BY <1>6, TidyFields
<1> QED
  BY <1>2, <1>3, <1>4, <1>5, <1>6 DEF Sections

-----------------------------------------------------------------------------
(* Good configurations. *)

LEMMA LoadedIsGood ==
  ASSUME NEW file, Loadable(file)
  PROVE  Good(Loaded(file))
BY DefaultsAreWhole, MergeIsWhole, TidyIsWhole, TidyTwice DEF Loadable, Loaded, Good

\* A good configuration that was saved is loaded as it was.
LEMMA ReadBack ==
  ASSUME NEW c, Good(c)
  PROVE  Persisted(c) = c /\ Readable(c) /\ ReadFrom(c) = c /\ c # None
<1>1. c # None /\ c # Torn
  BY NotConfigs DEF Good
<1> QED
  BY <1>1, NothingIsLeftOut, MergeBack DEF Good, Readable, ReadFrom, Loadable, Loaded

LEMMA AppliedIsGood ==
  ASSUME NEW c, Good(c), NEW b, Accepts(c, b)
  PROVE  Good(Applied(c, b))
BY MergeIsWhole, TidyIsWhole, TidyTwice DEF Good, Applied, Accepts

\* Validity and completion look at every section on its own, and not at auth.
LEMMA GoodBySection ==
  ASSUME NEW c, NEW d, Good(c), IsConfig(d),
         \A s \in Sections \ {"options", "auth"} : d[s] = c[s],
         ValidOptions(d.options), d.options = TidyOptions(d.options)
  PROVE  Good(d)
<1>1. IsConfig(c) /\ Valid(c) /\ Tidy(c) = c
  BY DEF Good
<1>2. /\ d.notifications = c.notifications /\ d.shutdown = c.shutdown /\ d.docker = c.docker
      /\ d.safety = c.safety /\ d.auto_drain = c.auto_drain /\ d.actions = c.actions
  BY DEF Sections
<1>3. Valid(d)
  <2>1. Valid(c)
    BY <1>1
  <2>2. /\ ValidNotifications(c.notifications) /\ ValidShutdown(c.shutdown)
        /\ ValidDocker(c.docker) /\ ValidSafety(c.safety)
        /\ ValidAutoDrain(c.auto_drain) /\ ValidActions(c.actions)
    BY <2>1 DEF Valid
  <2> QED
    BY <1>2, <2>2 DEF Valid
<1>4. /\ TidyNotifications(c.notifications) = c.notifications
      /\ TidyAutoDrain(c.auto_drain) = c.auto_drain
      /\ TidyActions(c.actions) = c.actions
  BY <1>1, TidyFields
<1>5. \A s \in Sections : Tidy(d)[s] = d[s]
  BY <1>2, <1>4, TidyFields DEF Sections
<1>6. Tidy(d) = d
  BY <1>5, TidyIsWhole, SameConfig
<1> QED
  BY <1>3, <1>6 DEF Good

LEMMA GoodOptions ==
  ASSUME NEW c, Good(c)
  PROVE  /\ ValidOptions(c.options) /\ c.options = TidyOptions(c.options)
         /\ IsSection(c.options, "options") /\ IsSection(c.auth, "auth")
<1>1. IsConfig(c) /\ Valid(c) /\ Tidy(c) = c
  BY DEF Good
<1>2. Tidy(c).options = TidyOptions(c.options)
  BY <1>1, TidyFields
<1>3. ValidOptions(c.options)
  <2>1. Valid(c)
    BY <1>1
  <2> QED
    BY <2>1 DEF Valid
<1>4. IsSection(c.options, "options") /\ IsSection(c.auth, "auth")
  BY <1>1, Whole DEF Sections
<1> QED
  BY <1>1, <1>2, <1>3, <1>4

\* Other values of the fields of auth leave a configuration good.
LEMMA GoodAuth ==
  ASSUME NEW c, Good(c), NEW auth, IsSection(auth, "auth")
  PROVE  LET d == [c EXCEPT !.auth = auth]
         IN  Good(d) /\ d.auth = auth /\ \A s \in Sections \ {"auth"} : d[s] = c[s]
<1> DEFINE d == [c EXCEPT !.auth = auth]
<1>1. IsConfig(d) /\ d.auth = auth /\ \A s \in Sections \ {"auth"} : d[s] = c[s]
  <2>1. c = [s \in Sections |-> c[s]] /\ DOMAIN c = Sections
    BY Whole DEF Good
  <2>2. d = [s \in Sections |-> d[s]] /\ d.auth = auth /\ \A s \in Sections \ {"auth"} : d[s] = c[s]
    BY <2>1 DEF Sections
  <2>3. \A s \in Sections : IsSection(c[s], s)
    BY Whole DEF Good
  <2>4. \A s \in Sections : IsSection(d[s], s)
    BY <2>2, <2>3
  <2> QED
    BY <2>2, <2>4, Whole
<1>2. d.options = c.options
  BY <1>1 DEF Sections
<1>3. Good(d)
  BY <1>1, <1>2, GoodBySection, GoodOptions
<1> QED
  BY <1>1, <1>3

LEMMA AuthDisabled ==
  ASSUME NEW c, Good(c)
  PROVE  /\ Good(DisableAuth(c))
         /\ DisableAuth(c).auth.enabled = FALSE
         /\ DisableAuth(c).auth.token_hash = c.auth.token_hash
         /\ \A s \in Sections : \A f \in DOMAIN Defaults[s] :
              DisableAuth(c)[s][f] # c[s][f] => s = "auth" /\ f = "enabled"
<1> DEFINE auth == [c.auth EXCEPT !.enabled = FALSE]
<1>1. c.auth = [f \in {"enabled", "allow_loopback_no_token", "token_hash"} |-> c.auth[f]]
  BY GoodOptions, DomainsOfDefaults DEF IsSection
<1>2. /\ IsSection(auth, "auth") /\ auth.enabled = FALSE /\ auth.token_hash = c.auth.token_hash
      /\ \A f \in DOMAIN Defaults["auth"] : auth[f] # c.auth[f] => f = "enabled"
  BY <1>1, DomainsOfDefaults DEF IsSection
<1> HIDE DEF auth
<1>3. "auth" \in DOMAIN c
  BY Whole DEF Good, Sections
<1>4. DisableAuth(c) = [c EXCEPT !.auth = auth]
  BY <1>3 DEF DisableAuth, auth
<1>5. /\ Good(DisableAuth(c)) /\ DisableAuth(c).auth = auth
      /\ \A s \in Sections \ {"auth"} : DisableAuth(c)[s] = c[s]
  BY <1>2, <1>4, GoodAuth
<1> QED
  BY <1>2, <1>5

LEMMA TokenMinted ==
  ASSUME NEW c, Good(c), NEW token
  PROVE  Good(WithToken(c, token)) /\ WithToken(c, token).auth.token_hash = Hash(token)
<1> DEFINE auth == [c.auth EXCEPT !.token_hash = Hash(token), !.enabled = TRUE]
<1>1. c.auth = [f \in {"enabled", "allow_loopback_no_token", "token_hash"} |-> c.auth[f]]
  BY GoodOptions, DomainsOfDefaults DEF IsSection
<1>2. IsSection(auth, "auth") /\ auth.token_hash = Hash(token)
  BY <1>1, DomainsOfDefaults DEF IsSection
<1> HIDE DEF auth
<1>3. "auth" \in DOMAIN c
  BY Whole DEF Good, Sections
<1>4. WithToken(c, token) = [c EXCEPT !.auth = auth]
  BY <1>3 DEF WithToken, auth
<1> QED
  BY <1>2, <1>4, GoodAuth

LEMMA DefaultsAreGood == Good(Defaults)
<1>1. Tidy(Defaults) = Defaults
  <2>1. \A s \in Sections : IsSection(Defaults[s], s)
    BY DefaultsAreWhole, Whole
  <2>2. TidyOptions(DefaultOptions) = DefaultOptions
    BY DEF TidyOptions, DefaultOptions, OrDefault
  <2>3. TidyNotifications(DefaultNotifications) = DefaultNotifications
    BY DEF TidyNotifications, DefaultNotifications, OrDefault
  <2>4. TidyAutoDrain(DefaultAutoDrain) = DefaultAutoDrain
    <3>1. Allowed({"ntfy"}) = {"ntfy"}
      BY DEF Allowed, Services, Providers
    <3>2. /\ DefaultAutoDrain.notification_services = {"ntfy"}
          /\ DefaultAutoDrain.battery_threshold_percent = 10
          /\ DefaultAutoDrain.pre_notification_minutes = 30
          /\ DefaultAutoDrain.response_timeout_minutes = 10
      BY DEF DefaultAutoDrain
    <3>3. /\ IfZero(10, 10) = 10 /\ IfZero(30, 30) = 30
          /\ OrDefault(DefaultAutoDrain.on_user_no, DefaultAutoDrain.on_user_no) = DefaultAutoDrain.on_user_no
      BY DEF IfZero, OrDefault
    <3>4. DefaultAutoDrain = [f \in DOMAIN DefaultAutoDrain |-> DefaultAutoDrain[f]]
      BY DEF DefaultAutoDrain
    <3> QED
      BY <3>1, <3>2, <3>3, <3>4 DEF TidyAutoDrain
  <2>5. TidyActions(DefaultActions) = DefaultActions
    <3>1. \A default : IfNotPositive(default, default) = default
      BY DEF IfNotPositive
    <3>2. IsSection(DefaultActions, "actions")
      BY <2>1 DEF Sections, Defaults
    <3>3. \A f \in {"real_enabled"} \cup PathFields : TidyActions(DefaultActions)[f] = DefaultActions[f]
      BY <3>2, TidyActionsFields
    <3>4. TidyActions(DefaultActions).cooldown_seconds = DefaultActions.cooldown_seconds
      BY <3>1, <3>2, TidyActionsFields
    <3>5. TidyActions(DefaultActions).poweroff_timeout_seconds = DefaultActions.poweroff_timeout_seconds
      BY <3>1, <3>2, TidyActionsFields
    <3>6. TidyActions(DefaultActions).require_confirmation = DefaultActions.require_confirmation
      <4>1. DefaultActions.require_confirmation = TRUE
        BY DEF DefaultActions
      <4> QED
        BY <3>2, <4>1, TidyActionsFields
    <3>7. \A f \in DOMAIN Defaults["actions"] : TidyActions(DefaultActions)[f] = DefaultActions[f]
      BY <3>3, <3>4, <3>5, <3>6, ActionFields
    <3> QED
      BY <3>2, <3>7, TidyActionsFields, SameSection
  <2>6. /\ Defaults["options"] = DefaultOptions /\ Defaults["notifications"] = DefaultNotifications
        /\ Defaults["auto_drain"] = DefaultAutoDrain /\ Defaults["actions"] = DefaultActions
    BY DEF Defaults
  <2>7. \A s \in Sections : Tidy(Defaults)[s] = Defaults[s]
    BY <2>2, <2>3, <2>4, <2>5, <2>6, DefaultsAreWhole, TidyFields DEF Sections
  <2> QED
    BY <2>7, DefaultsAreWhole, TidyIsWhole, SameConfig
<1>2. Valid(Defaults)
  <2>1. ValidOptions(DefaultOptions)
    BY DEF ValidOptions, DefaultOptions
  <2>2. ValidNotifications(DefaultNotifications)
    BY DEF ValidNotifications, DefaultNotifications, Providers
  <2>3. ValidShutdown(DefaultShutdown)
    BY DEF ValidShutdown, DefaultShutdown, Percent
  <2>4. ValidDocker(DefaultDocker)
    BY DEF ValidDocker, DefaultDocker
  <2>5. ValidSafety(DefaultSafety)
    BY DEF ValidSafety, DefaultSafety, Percent
  <2>6. ValidAutoDrain(DefaultAutoDrain)
    BY DEF ValidAutoDrain, DefaultAutoDrain, Percent
  <2>7. ValidActions(DefaultActions)
    BY DEF ValidActions, DefaultActions, PathFields
  <2>8. /\ Defaults.options = DefaultOptions /\ Defaults.notifications = DefaultNotifications
        /\ Defaults.shutdown = DefaultShutdown /\ Defaults.docker = DefaultDocker
        /\ Defaults.safety = DefaultSafety /\ Defaults.auto_drain = DefaultAutoDrain
        /\ Defaults.actions = DefaultActions
    BY DEF Defaults
  <2> QED
    BY <2>1, <2>2, <2>3, <2>4, <2>5, <2>6, <2>7, <2>8 DEF Valid
<1> QED
  BY <1>1, <1>2, DefaultsAreWhole DEF Good

\* Flags that were parsed leave a configuration good, and its token alone.
LEMMA OverlayIsGood ==
  ASSUME NEW c, Good(c), NEW flags, Parsed(flags)
  PROVE  Good(OverlayFlags(c, flags)) /\ OverlayFlags(c, flags).auth = c.auth
<1> DEFINE full == [f \in DOMAIN c.options |->
                     IF f \in Completed THEN OrDefault(c.options[f], DefaultOptions[f]) ELSE c.options[f]]
           o == Override(full, flags)
           p == Override(DefaultOptions, flags)
<1>1. IsConfig(c) /\ ValidOptions(c.options) /\ c.options = TidyOptions(c.options)
      /\ DOMAIN c.options = DOMAIN Defaults["options"]
  BY GoodOptions DEF Good, IsSection
<1>2. ValidOptions(p) /\ p = TidyOptions(p)
  BY DEF Parsed
<1>3. IsSection(o, "options")
  BY <1>1 DEF Override, IsSection
<1>4. DOMAIN DefaultOptions = DOMAIN Defaults["options"] /\ IsSection(p, "options")
  BY DEF Defaults, Override, IsSection
<1>5. \A f \in {"provider", "threshold_method"} :
        IF f \in DOMAIN flags THEN o[f] = p[f] ELSE o[f] = OrDefault(c.options[f], DefaultOptions[f])
  BY <1>1, <1>4, DomainsOfDefaults DEF Override, Completed
<1>6. \A f \in {"provider", "threshold_method"} :
        /\ p[f] = OrDefault(p[f], DefaultOptions[f])
        /\ c.options[f] = OrDefault(c.options[f], DefaultOptions[f])
  <2>1. IsSection(c.options, "options") /\ IsSection(p, "options")
    BY <1>4, GoodOptions
  <2>2. DOMAIN p = DOMAIN Defaults["options"]
    BY <2>1 DEF IsSection
  <2> QED
    BY <1>1, <1>2, <2>1, <2>2, TidyOptionsFields, DomainsOfDefaults
<1> HIDE DEF o, p
<1>7. \A f \in {"provider", "threshold_method"} : o[f] = p[f] \/ o[f] = c.options[f]
  BY <1>5, <1>6
<1>8. ValidOptions(o)
  BY <1>1, <1>2, <1>7 DEF ValidOptions
<1>9. o = TidyOptions(o)
  <2>1. DOMAIN o = DOMAIN Defaults["options"]
    BY <1>3 DEF IsSection
  <2>2. \A f \in DOMAIN Defaults["options"] : TidyOptions(o)[f] = o[f]
    <3> TAKE f \in DOMAIN Defaults["options"]
    <3>1. CASE f \notin {"provider", "threshold_method"}
      BY <1>3, <2>1, <3>1, TidyOptionsFields
    <3>2. CASE f \in {"provider", "threshold_method"}
      <4>1. TidyOptions(o)[f] = OrDefault(o[f], DefaultOptions[f])
        BY <1>3, <2>1, <3>2, TidyOptionsFields
      <4>2. o[f] = OrDefault(o[f], DefaultOptions[f])
        BY <1>6, <1>7, <3>2
      <4> QED
        BY <4>1, <4>2
    <3> QED
      BY <3>1, <3>2
  <2> QED
    BY <1>3, <2>2, TidyOptionsFields, SameSection
<1>10. OverlayFlags(c, flags) = [c EXCEPT !.options = o]
  BY DEF OverlayFlags, o
<1>11. c = [s \in Sections |-> c[s]] /\ DOMAIN c = Sections /\ \A s \in Sections : IsSection(c[s], s)
  BY <1>1, Whole
<1> DEFINE d == [c EXCEPT !.options = o]
<1>12. d = [s \in Sections |-> d[s]] /\ d.options = o /\ \A s \in Sections \ {"options"} : d[s] = c[s]
  BY <1>11 DEF Sections
<1>13. IsConfig(d)
  BY <1>3, <1>11, <1>12, Whole
<1> HIDE DEF d
<1>14. Good(d) /\ d.auth = c.auth
  BY <1>8, <1>9, <1>12, <1>13, GoodBySection DEF Sections
<1> QED
  BY <1>10, <1>14 DEF d

LEMMA NoFlags == Parsed([o \in {} |-> None])
<1>1. Override(DefaultOptions, [o \in {} |-> None]) = DefaultOptions
  <2>1. DefaultOptions = [f \in DOMAIN DefaultOptions |-> DefaultOptions[f]]
    BY DEF DefaultOptions
  <2> QED
    BY <2>1 DEF Override
<1>2. Defaults.options = DefaultOptions
  BY DEF Defaults
<1> QED
  BY <1>1, <1>2, DefaultsAreGood, GoodOptions DEF Parsed

-----------------------------------------------------------------------------
(* What a request makes of the settings that are served. *)

LEMMA WantedIsGood ==
  ASSUME Good(cfg), NEW b, Acceptable(b)
  PROVE  Good(Wanted(b))
BY AuthDisabled, AppliedIsGood DEF Wanted, Acceptable

\* A patch without its echoes names nothing the patch does not.
LEMMA MeantNames ==
  ASSUME NEW b
  PROVE  /\ DOMAIN Meant(b) = DOMAIN b
         /\ \A s \in DOMAIN b : s # "notifications" => Meant(b)[s] = b[s]
         /\ \A s \in DOMAIN b : \A f \in DOMAIN Meant(b)[s] :
              s = "notifications" => f \in DOMAIN b[s] /\ (f \in Secrets => Meant(b)[s][f] # Empty)
BY DEF Meant, WithoutEchoes

LEMMA MergedField ==
  ASSUME NEW c, IsConfig(c), NEW p, NEW s \in Sections, NEW f \in DOMAIN Defaults[s]
  PROVE  Merge(c, p)[s][f] = IF s \in DOMAIN p /\ f \in DOMAIN p[s] THEN p[s][f] ELSE c[s][f]
<1>1. DOMAIN c = Sections /\ DOMAIN c[s] = DOMAIN Defaults[s]
  BY Whole DEF IsSection
<1> QED
  BY <1>1 DEF Merge, Override

LEMMA WantedNames ==
  ASSUME Good(cfg), NEW b, NEW s \in Sections, NEW f \in DOMAIN Defaults[s], ~Names(b, s, f)
  PROVE  Wanted(b)[s][f] = cfg[s][f]
<1>1. CASE b = Disable
  BY <1>1, AuthDisabled DEF Wanted, Names
<1>2. CASE b # Disable
  <2> DEFINE m == Merge(cfg, Meant(b))
  <2>1. Wanted(b) = Tidy(m) /\ IsConfig(m)
    BY <1>2, MergeIsWhole DEF Wanted, Applied, Good
  <2>2. ~(s \in DOMAIN Meant(b) /\ f \in DOMAIN Meant(b)[s])
    BY <1>2, MeantNames DEF Names
  <2>3. m[s][f] = cfg[s][f]
    BY <2>2, MergedField DEF Good
  <2> HIDE DEF m
  <2>4. Tidy(m)[s][f] = Tidy(cfg)[s][f]
    BY <2>1, <2>3, TidyByField DEF Good
  <2> QED
    BY <2>1, <2>4 DEF Good
<1> QED
  BY <1>1, <1>2

\* A request keeps the token, and can only switch authentication off.
LEMMA WantedAuth ==
  ASSUME Good(cfg), NEW c \in Clients, NEW b \in Bodies[c] \cup {Disable}
  PROVE  /\ Wanted(b).auth.token_hash = cfg.auth.token_hash
         /\ Wanted(b).auth.enabled => cfg.auth.enabled
<1>1. CASE b = Disable
  BY <1>1, AuthDisabled DEF Wanted
<1>2. CASE b # Disable
  <2>1. "auth" \notin DOMAIN b
    BY <1>2, BodiesAssumption
  <2>2. \A f \in DOMAIN Defaults["auth"] : Wanted(b).auth[f] = cfg.auth[f]
    BY <1>2, <2>1, WantedNames DEF Names, Sections
  <2> QED
    BY <2>2, DomainsOfDefaults
<1> QED
  BY <1>1, <1>2

\* A request leaves every secret that is stored, or replaces it.
LEMMA WantedSecrets ==
  ASSUME Good(cfg), NEW b, Good(Wanted(b)), NEW f \in Secrets, cfg.notifications[f] # Empty
  PROVE  Wanted(b).notifications[f] \in IF f = "webhook_url" THEN Urls ELSE Chats
<1>1. Wanted(b).notifications[f] # Empty
  <2>1. CASE b = Disable
    <3>1. f \in DOMAIN Defaults["notifications"] /\ ~Names(b, "notifications", f)
      BY <2>1, DomainsOfDefaults DEF Secrets, Names
    <3> QED
      BY <3>1, WantedNames DEF Sections
  <2>2. CASE b # Disable
    <3> DEFINE m == Merge(cfg, Meant(b))
    <3>1. Wanted(b) = Tidy(m) /\ IsConfig(m)
      BY <2>2, MergeIsWhole DEF Wanted, Applied, Good
    <3>2. f \in DOMAIN Defaults["notifications"] /\ f # "provider"
      BY DomainsOfDefaults DEF Secrets
    <3>3. m.notifications[f] # Empty
      BY <3>2, MergedField, MeantNames DEF Good, Sections
    <3> HIDE DEF m
    <3>4. IsSection(m.notifications, "notifications") /\ DOMAIN m.notifications = DOMAIN Defaults["notifications"]
      BY <3>1, Whole DEF Sections, IsSection
    <3>5. Tidy(m).notifications[f] = m.notifications[f]
      BY <3>1, <3>2, <3>4, TidyFields, TidyNotificationsFields
    <3> QED
      BY <3>1, <3>3, <3>5
  <2> QED
    BY <2>1, <2>2
<1>2. ValidNotifications(Wanted(b).notifications)
  BY DEF Good, Valid
<1> QED
  BY <1>1, <1>2 DEF ValidNotifications, Secrets

-----------------------------------------------------------------------------
(* The inductive invariant. *)

Shapes ==
  /\ DOMAIN past = {"acked", "unread", "retired", "alone"}
  /\ life \in {"down", "loaded", "minting", "ready", "writing", "up"}
  /\ stage \in [Writers -> Stages]
  /\ pc \in [Clients -> {"idle", "checked", "admitted", "saving"}]

\* The variables that are functions have their domain.
Domains ==
  /\ DOMAIN saving = Writers
  /\ DOMAIN bearer = Clients
  /\ DOMAIN body = Clients

\* No file is ever torn, and a file is good unless it was written by hand.
FilesAreGood ==
  /\ disk.synced
  /\ \A file \in {disk.now, disk.before} : file = None \/ file \in Edits \/ Good(file)

\* What is served and what is saved is good.
CopiesAreGood ==
  /\ life = "down" <=> cfg = None
  /\ life # "down" => Good(cfg)
  /\ \A w \in Writers : /\ stage[w] = "none" <=> saving[w] = None
                        /\ stage[w] # "none" => Good(saving[w])

\* Every copy has a token someone knows of.
TokensKnown ==
  ~past.unread =>
    /\ life # "down" => KnownHash(cfg.auth.token_hash)
    /\ \A w \in Writers : stage[w] # "none" => KnownHash(saving[w].auth.token_hash)
    /\ \A file \in {disk.now, disk.before} :
         file = None \/ file \in Edits \/ KnownHash(file.auth.token_hash)

CommandIsSaving ==
  cli.command = "none" => cli.token = NoToken /\ stage["cli"] = "none"

\* What was acknowledged is in the file.
AckedOnDisk == past.acked # None => Good(past.acked) /\ disk.now = past.acked

\* What the daemon has put in place is there unless somebody else writes.
SavedOnDisk == past.alone /\ stage["daemon"] = "renamed" => disk.now = saving["daemon"]

\* The request that holds the lock is having its settings saved.
LockIsSaving ==
  /\ \A c \in Clients : pc[c] = "saving" <=> lock = c
  /\ lock = None \/ lock \in Clients
  /\ lock # None => Up /\ stage["daemon"] # "none" /\ saving["daemon"] = Wanted(body[lock])

\* A request past the first check is in the daemon, and was let through.
RequestsAreAdmitted ==
  \A c \in Clients :
    /\ pc[c] = "idle" <=> body[c] = None
    /\ pc[c] # "idle" => Up /\ body[c] \in Bodies[c] \cup {Disable}
    /\ c \in Remote /\ pc[c] \in {"admitted", "saving"} /\ cfg.auth.enabled =>
         Hash(bearer[c]) = cfg.auth.token_hash

Inv ==
  /\ Shapes /\ Domains /\ FilesAreGood /\ CopiesAreGood /\ TokensKnown /\ CommandIsSaving
  /\ AckedOnDisk /\ SavedOnDisk /\ LockIsSaving /\ RequestsAreAdmitted

LEMMA InvInit == Init => Inv
<1> SUFFICES ASSUME Init PROVE Inv
  OBVIOUS
<1>1. Shapes /\ Domains
  BY DEF Init, Shapes, Domains, Stages
<1>2. FilesAreGood /\ CopiesAreGood /\ AckedOnDisk /\ SavedOnDisk
  BY DEF Init, FilesAreGood, CopiesAreGood, AckedOnDisk, SavedOnDisk, Writers
<1>3. TokensKnown /\ CommandIsSaving
  BY DEF Init, TokensKnown, CommandIsSaving, Writers
<1>4. LockIsSaving /\ RequestsAreAdmitted
  BY StoreAssumption DEF Init, LockIsSaving, RequestsAreAdmitted
<1> QED
  BY <1>1, <1>2, <1>3, <1>4 DEF Inv

\* A token that is known stays known unless `lapguard auth` forgets it.
LEMMA StillKnown ==
  ASSUME printed \subseteq printed', cli.token \in printed' \cup {cli'.token, NoToken}
  PROVE  \A h : KnownHash(h) => KnownHash(h)'
BY DEF KnownHash

\* What is read from a file is good, and has a token someone knows of.
LEMMA ReadIsGood ==
  ASSUME Inv, Readable(disk.now)
  PROVE  /\ Good(ReadFrom(disk.now))
         /\ ~past.unread => KnownHash(ReadFrom(disk.now).auth.token_hash)
<1>1. CASE disk.now = None
  <2>1. ReadFrom(disk.now) = Defaults /\ Defaults.auth.token_hash = Hash(NoToken)
    BY <1>1 DEF ReadFrom, Defaults, DefaultAuth, NoHash, Hash, NoToken
  <2> QED
    BY <2>1, DefaultsAreGood DEF KnownHash
<1>2. CASE disk.now # None /\ disk.now \in Edits
  <2> DEFINE file == disk.now
             m == Merge(Defaults, file)
  <2>1. ReadFrom(file) = Loaded(file) /\ Loadable(file)
    BY <1>2 DEF ReadFrom, Readable
  <2>2. IsConfig(m) /\ Loaded(file) = Tidy(m)
    BY DefaultsAreWhole, MergeIsWhole DEF Loaded
  <2>3. m.auth.token_hash = Defaults.auth.token_hash
    BY <1>2, EditsAssumption, DefaultsAreWhole, MergedField, DomainsOfDefaults DEF Sections
  <2>4. Defaults.auth.token_hash = Hash(NoToken)
    BY DEF Defaults, DefaultAuth, NoHash, Hash, NoToken
  <2> HIDE DEF m
  <2>5. Tidy(m).auth = m.auth
    BY <2>2, TidyFields
  <2> QED
    BY <2>1, <2>2, <2>3, <2>4, <2>5, LoadedIsGood DEF KnownHash
<1>3. CASE disk.now # None /\ disk.now \notin Edits
  <2>1. Good(disk.now) /\ (~past.unread => KnownHash(disk.now.auth.token_hash))
    BY <1>3 DEF Inv, FilesAreGood, TokensKnown
  <2> QED
    BY <2>1, ReadBack
<1> QED
  BY <1>1, <1>2, <1>3

\* A step of a save.
LEMMA SaveStepKeeps ==
  ASSUME Inv, NEW w \in Writers, SaveStep(w)
  PROVE  Inv'
<1> USE DEF Inv
<1>1. UNCHANGED <<life, cfg, lock, pc, bearer, body, cli, printed, saving>>
  BY DEF SaveStep, ReplaceFile, SaveFails, daemonVars, clientVars, tokenVars
<1>2. /\ stage[w] # "none" /\ stage' \in [Writers -> Stages] /\ stage'[w] # "none"
      /\ \A v \in Writers \ {w} : stage'[v] = stage[v]
  BY DEF SaveStep, ReplaceFile, SaveFails, Shapes, Stages
<1>3. Shapes' /\ Domains' /\ CommandIsSaving'
  BY <1>1, <1>2 DEF SaveStep, ReplaceFile, SaveFails, Shapes, Domains, CommandIsSaving, Writers
<1>4. CopiesAreGood' /\ LockIsSaving'
  BY <1>1, <1>2 DEF CopiesAreGood, LockIsSaving, Writers, Up, Wanted
<1>5. RequestsAreAdmitted'
  BY <1>1 DEF RequestsAreAdmitted, Up
<1>6. CASE ReplaceFile(w)
  <2>1. Good(saving[w]) /\ Persisted(saving[w]) = saving[w]
    BY <1>2, ReadBack DEF CopiesAreGood
  <2>2. disk' = [now |-> saving[w], before |-> disk.now, synced |-> TRUE] /\ stage'[w] = "renamed"
    BY <1>6, <2>1 DEF ReplaceFile, Shapes
  <2>3. past'.acked = None /\ past'.alone = (past.alone /\ w = "daemon") /\ past'.unread = past.unread
    BY <1>6 DEF ReplaceFile, Shapes
  <2>4. FilesAreGood' /\ AckedOnDisk' /\ SavedOnDisk'
    BY <1>1, <2>1, <2>2, <2>3 DEF FilesAreGood, AckedOnDisk, SavedOnDisk
  <2>5. TokensKnown'
    BY <1>1, <1>2, <2>2, <2>3 DEF TokensKnown, KnownHash
  <2> QED
    BY <1>3, <1>4, <1>5, <2>4, <2>5
<1>7. CASE SaveFails(w)
  <2>1. UNCHANGED <<disk, past>> /\ stage'[w] = "failed"
    BY <1>7 DEF SaveFails, Shapes
  <2>2. FilesAreGood' /\ AckedOnDisk' /\ SavedOnDisk'
    BY <1>1, <1>2, <2>1 DEF FilesAreGood, AckedOnDisk, SavedOnDisk, Writers
  <2>3. TokensKnown'
    BY <1>1, <1>2, <2>1 DEF TokensKnown, KnownHash
  <2> QED
    BY <1>3, <1>4, <1>5, <2>2, <2>3
<1> QED
  BY <1>6, <1>7 DEF SaveStep

\* The daemon starts to save what it has, while nothing is in its handlers.
LEMMA BeginKeeps ==
  ASSUME Inv, ~Up, NEW c, Good(c), life' \in {"minting", "writing"}, cfg' = c, life # "down",
         BeginSave("daemon", c), UNCHANGED <<disk, lock, pc, bearer, body, cli, past>>,
         printed \subseteq printed',
         ~past.unread => KnownHash(c.auth.token_hash)'
  PROVE  Inv'
<1> USE DEF Inv
<1>1. /\ saving'["daemon"] = c /\ saving'["cli"] = saving["cli"] /\ DOMAIN saving' = Writers
      /\ stage' \in [Writers -> Stages] /\ stage'["daemon"] = "begun" /\ stage'["cli"] = stage["cli"]
  BY DEF BeginSave, Shapes, Domains, Writers, Stages
<1>2. c # None
  BY ReadBack
<1>3. Shapes' /\ Domains' /\ CommandIsSaving' /\ FilesAreGood' /\ AckedOnDisk' /\ SavedOnDisk'
  BY <1>1 DEF Shapes, Domains, CommandIsSaving, FilesAreGood, AckedOnDisk, SavedOnDisk
<1>4. CopiesAreGood'
  BY <1>1, <1>2 DEF CopiesAreGood, Writers
<1>5. TokensKnown'
  <2>1. \A h : KnownHash(h) => KnownHash(h)'
    BY StillKnown
  <2> QED
    BY <1>1, <2>1 DEF TokensKnown, Writers
<1>6. LockIsSaving' /\ RequestsAreAdmitted'
  BY DEF LockIsSaving, RequestsAreAdmitted, Up
<1> QED
  BY <1>3, <1>4, <1>5, <1>6

\* The daemon goes on to its next step, with nothing in its handlers.
LEMMA StartStepKeeps ==
  ASSUME Inv, Daemon
  PROVE  Inv'
<1> USE DEF Inv
<1>1. ASSUME NEW flags \in FlagSets, Load(flags) PROVE Inv'
  <2> DEFINE c == OverlayFlags(ReadFrom(disk.now), flags)
  <2>1. Good(ReadFrom(disk.now)) /\ (~past.unread => KnownHash(ReadFrom(disk.now).auth.token_hash))
    BY <1>1, ReadIsGood DEF Load
  <2>2. Good(c) /\ c.auth = ReadFrom(disk.now).auth /\ c # None
    BY <2>1, FlagsAssumption, OverlayIsGood, ReadBack
  <2>3. life = "down" /\ life' = "loaded" /\ cfg' = c
    BY <1>1 DEF Load
  <2> HIDE DEF c
  <2>4. UNCHANGED <<disk, stage, saving, lock, pc, bearer, body, cli, printed, past>>
    BY <1>1 DEF Load, diskVars, clientVars, tokenVars
  <2>5. Shapes' /\ Domains' /\ CommandIsSaving' /\ FilesAreGood' /\ AckedOnDisk' /\ SavedOnDisk'
    BY <2>3, <2>4 DEF Shapes, Domains, CommandIsSaving, FilesAreGood, AckedOnDisk, SavedOnDisk
  <2>6. CopiesAreGood' /\ TokensKnown'
    BY <2>1, <2>2, <2>3, <2>4 DEF CopiesAreGood, TokensKnown, KnownHash
  <2>7. LockIsSaving' /\ RequestsAreAdmitted'
    BY <2>3, <2>4 DEF LockIsSaving, RequestsAreAdmitted, Up
  <2> QED
    BY <2>5, <2>6, <2>7
<1>2. CASE MintToken
  <2>1. PICK c, token : c = WithToken(cfg, token) /\ token = minted + 1
    OBVIOUS
  <2>2. Good(c) /\ c.auth.token_hash = Hash(token)
    BY <1>2, <2>1, TokenMinted DEF MintToken, CopiesAreGood
  <2>3. printed' = printed \cup {token} /\ cfg' = c /\ BeginSave("daemon", c)
    BY <1>2, <2>1 DEF MintToken
  <2>4. KnownHash(c.auth.token_hash)'
    BY <2>2, <2>3 DEF KnownHash
  <2> QED
    BY <1>2, <2>2, <2>3, <2>4, BeginKeeps DEF MintToken, clientVars, Up
<1>3. CASE FirstRun
  <2>1. Good(cfg) /\ (~past.unread => KnownHash(cfg.auth.token_hash))
    BY <1>3 DEF FirstRun, CopiesAreGood, TokensKnown
  <2>2. UNCHANGED <<cfg, printed, cli>>
    BY <1>3 DEF FirstRun, tokenVars
  <2>3. ~past.unread => KnownHash(cfg.auth.token_hash)'
    BY <2>1, <2>2 DEF KnownHash
  <2> QED
    BY <1>3, <2>1, <2>2, <2>3, BeginKeeps DEF FirstRun, clientVars, Up
<1>4. CASE HasToken \/ Listen
  <2>1. UNCHANGED <<disk, stage, saving, cfg, lock, pc, bearer, body, cli, printed, past>>
        /\ life # "down" /\ ~Up /\ life' \in {"ready", "up"}
    BY <1>4 DEF HasToken, Listen, diskVars, clientVars, tokenVars, Up
  <2>2. Shapes' /\ Domains' /\ CommandIsSaving' /\ FilesAreGood' /\ AckedOnDisk' /\ SavedOnDisk'
    BY <2>1 DEF Shapes, Domains, CommandIsSaving, FilesAreGood, AckedOnDisk, SavedOnDisk
  <2>3. CopiesAreGood' /\ TokensKnown'
    BY <2>1 DEF CopiesAreGood, TokensKnown, KnownHash
  <2>4. LockIsSaving' /\ RequestsAreAdmitted'
    BY <2>1 DEF LockIsSaving, RequestsAreAdmitted, Up
  <2> QED
    BY <2>2, <2>3, <2>4
<1>5. CASE MintingDone \/ FirstRunDone
  <2>1. UNCHANGED <<disk, cfg, lock, pc, bearer, body, cli, printed, past>>
        /\ life # "down" /\ ~Up /\ life' \in {"ready", "up"} /\ EndSave("daemon")
    BY <1>5 DEF MintingDone, FirstRunDone, clientVars, tokenVars, Up
  <2>2. /\ saving'["daemon"] = None /\ saving'["cli"] = saving["cli"] /\ DOMAIN saving' = Writers
        /\ stage' \in [Writers -> Stages] /\ stage'["daemon"] = "none" /\ stage'["cli"] = stage["cli"]
    BY <2>1 DEF EndSave, Shapes, Domains, Writers, Stages
  <2>3. Shapes' /\ Domains' /\ CommandIsSaving' /\ FilesAreGood' /\ AckedOnDisk' /\ SavedOnDisk'
    BY <2>1, <2>2 DEF Shapes, Domains, CommandIsSaving, FilesAreGood, AckedOnDisk, SavedOnDisk
  <2>4. CopiesAreGood' /\ TokensKnown'
    BY <2>1, <2>2 DEF CopiesAreGood, TokensKnown, KnownHash, Writers
  <2>5. LockIsSaving' /\ RequestsAreAdmitted'
    BY <2>1 DEF LockIsSaving, RequestsAreAdmitted, Up
  <2> QED
    BY <2>3, <2>4, <2>5
<1> QED
  BY <1>1, <1>2, <1>3, <1>4, <1>5 DEF Daemon

\* A request moves in its handlers before it is saved.
LEMMA HandlerKeeps ==
  ASSUME Inv, Readers, NEW c \in Clients,
         UNCHANGED <<disk, stage, saving, life, cfg, lock, cli, printed, past>>,
         pc' = [pc EXCEPT ![c] = pc'[c]],
         pc'[c] \in {"idle", "checked", "admitted"},
         DOMAIN bearer' = Clients, DOMAIN body' = Clients, DOMAIN pc' = Clients,
         \A q \in Clients \ {c} : pc'[q] = pc[q] /\ bearer'[q] = bearer[q] /\ body'[q] = body[q],
         pc'[c] = "idle" <=> body'[c] = None,
         pc'[c] # "idle" => body'[c] \in Bodies[c] \cup {Disable},
         c \in Remote /\ pc'[c] = "admitted" /\ cfg.auth.enabled => Hash(bearer'[c]) = cfg.auth.token_hash
  PROVE  Inv'
<1> USE DEF Inv
<1>1. pc' \in [Clients -> {"idle", "checked", "admitted", "saving"}]
  BY DEF Shapes
<1>2. Shapes' /\ Domains' /\ CommandIsSaving' /\ FilesAreGood' /\ AckedOnDisk' /\ SavedOnDisk'
  BY <1>1 DEF Shapes, Domains, CommandIsSaving, FilesAreGood, AckedOnDisk, SavedOnDisk
<1>3. CopiesAreGood' /\ TokensKnown'
  BY DEF CopiesAreGood, TokensKnown, KnownHash
<1>4. LockIsSaving'
  BY StoreAssumption DEF LockIsSaving, Readers
<1>5. RequestsAreAdmitted'
  BY DEF RequestsAreAdmitted, Readers, Up
<1> QED
  BY <1>2, <1>3, <1>4, <1>5

\* What is no request of a client.
LEMMA Answers ==
  ASSUME NEW c \in Clients, NEW b \in Bodies[c]
  PROVE  b # None /\ Disable # None
<1>1. DOMAIN None = {"nothing"} /\ DOMAIN Disable = {"disable"}
  BY DEF None, Disable
<1> QED
  BY <1>1, BodiesAssumption

LEMMA RequestStepKeeps ==
  ASSUME Inv, NEW c \in Clients,
         \/ \E token \in Tokens(c), b \in Bodies[c] : Request(c, token, b)
         \/ \E token \in Tokens(c) : RequestDisable(c, token)
         \/ RequireAuth(c) \/ Refuse(c)
  PROVE  Inv'
<1> USE DEF Inv
<1>0. /\ pc \in [Clients -> {"idle", "checked", "admitted", "saving"}]
      /\ DOMAIN bearer = Clients /\ DOMAIN body = Clients
  BY DEF Shapes, Domains
<1>1. ASSUME NEW token \in Tokens(c), NEW b \in Bodies[c], Request(c, token, b) PROVE Inv'
  <2>1. Readers /\ Admits(cfg.auth, c, token) /\ Arrive(c, token, b, "admitted")
    BY <1>1 DEF Request
  <2>2. UNCHANGED <<disk, stage, saving, life, cfg, lock, cli, printed, past>>
    BY <2>1 DEF Arrive, diskVars, daemonVars, tokenVars
  <2>3. pc'[c] = "admitted" /\ bearer'[c] = token /\ body'[c] = b /\ b # None
    BY <1>0, <2>1, Answers DEF Arrive
  <2>4. \A q \in Clients \ {c} : pc'[q] = pc[q] /\ bearer'[q] = bearer[q] /\ body'[q] = body[q]
    BY <1>0, <2>1 DEF Arrive
  <2>5. DOMAIN bearer' = Clients /\ DOMAIN body' = Clients /\ DOMAIN pc' = Clients
        /\ pc' = [pc EXCEPT ![c] = pc'[c]]
    BY <1>0, <2>1 DEF Arrive
  <2>6. c \in Remote /\ cfg.auth.enabled => Hash(token) = cfg.auth.token_hash
    BY <2>1 DEF Admits, VerifyToken, Loopback
  <2> QED
    BY <2>1, <2>2, <2>3, <2>4, <2>5, <2>6, HandlerKeeps
<1>2. ASSUME NEW token \in Tokens(c), RequestDisable(c, token) PROVE Inv'
  <2>1. PICK where \in {"checked", "admitted"} :
          /\ Readers /\ Arrive(c, token, Disable, where)
          /\ where = "admitted" => ~cfg.auth.enabled
    BY <1>2 DEF RequestDisable
  <2>2. UNCHANGED <<disk, stage, saving, life, cfg, lock, cli, printed, past>>
    BY <2>1 DEF Arrive, diskVars, daemonVars, tokenVars
  <2>3. pc'[c] = where /\ bearer'[c] = token /\ body'[c] = Disable
    BY <1>0, <2>1 DEF Arrive
  <2>4. \A q \in Clients \ {c} : pc'[q] = pc[q] /\ bearer'[q] = bearer[q] /\ body'[q] = body[q]
    BY <1>0, <2>1 DEF Arrive
  <2>5. DOMAIN bearer' = Clients /\ DOMAIN body' = Clients /\ DOMAIN pc' = Clients
        /\ pc' = [pc EXCEPT ![c] = pc'[c]]
    BY <1>0, <2>1 DEF Arrive
  <2>6. Disable # None
    <3>1. DOMAIN None = {"nothing"} /\ DOMAIN Disable = {"disable"}
      BY DEF None, Disable
    <3> QED
      BY <3>1
  <2> QED
    BY <2>1, <2>2, <2>3, <2>4, <2>5, <2>6, HandlerKeeps
<1>3. CASE RequireAuth(c) /\ ~Answer(c)
  <2>1. /\ Readers /\ pc[c] = "checked" /\ Admits(cfg.auth, c, bearer[c])
        /\ pc' = [pc EXCEPT ![c] = "admitted"] /\ UNCHANGED <<bearer, body>>
    BY <1>3 DEF RequireAuth
  <2>2. UNCHANGED <<disk, stage, saving, life, cfg, lock, cli, printed, past>>
    BY <1>3 DEF RequireAuth, diskVars, daemonVars, tokenVars
  <2>3. body[c] # None /\ body[c] \in Bodies[c] \cup {Disable}
    BY <2>1 DEF RequestsAreAdmitted
  <2>4. c \in Remote /\ cfg.auth.enabled => Hash(bearer[c]) = cfg.auth.token_hash
    BY <2>1 DEF Admits, VerifyToken, Loopback
  <2> QED
    BY <1>0, <2>1, <2>2, <2>3, <2>4, HandlerKeeps
<1>4. CASE (RequireAuth(c) \/ Refuse(c)) /\ Answer(c)
  <2>1. Readers /\ UNCHANGED <<disk, stage, saving, life, cfg, lock, cli, printed, past>>
    BY <1>4 DEF RequireAuth, Refuse, diskVars, daemonVars, tokenVars
  <2>2. /\ pc'[c] = "idle" /\ body'[c] = None
        /\ DOMAIN bearer' = Clients /\ DOMAIN body' = Clients /\ DOMAIN pc' = Clients
        /\ pc' = [pc EXCEPT ![c] = pc'[c]]
    BY <1>0, <1>4 DEF Answer
  <2>3. \A q \in Clients \ {c} : pc'[q] = pc[q] /\ bearer'[q] = bearer[q] /\ body'[q] = body[q]
    BY <1>0, <1>4 DEF Answer
  <2> QED
    BY <2>1, <2>2, <2>3, HandlerKeeps
<1> QED
  BY <1>1, <1>2, <1>3, <1>4 DEF Refuse

LEMMA UpdateKeeps ==
  ASSUME Inv, NEW c \in Clients, Update(c)
  PROVE  Inv'
<1> USE DEF Inv
<1>1. PICK want : want = Wanted(body[c])
  OBVIOUS
<1>2. /\ Up /\ lock = None /\ pc[c] = "admitted" /\ lock' = c /\ pc' = [pc EXCEPT ![c] = "saving"]
      /\ BeginSave("daemon", want)
      /\ UNCHANGED <<disk, life, cfg, bearer, body, cli, printed, past>>
  BY <1>1 DEF Update, Readers, daemonVars, tokenVars
<1>3. Good(cfg) /\ Good(want) /\ want # None
  <2>1. Good(cfg)
    BY <1>2 DEF CopiesAreGood, Up
  <2>2. Good(want)
    BY <1>1, <2>1, WantedIsGood DEF Update
  <2> QED
    BY <2>1, <2>2, ReadBack
<1>4. want.auth.token_hash = cfg.auth.token_hash
  BY <1>1, <1>2, <1>3, WantedAuth DEF RequestsAreAdmitted
<1>5. /\ saving'["daemon"] = want /\ saving'["cli"] = saving["cli"] /\ DOMAIN saving' = Writers
      /\ stage' \in [Writers -> Stages] /\ stage'["daemon"] = "begun" /\ stage'["cli"] = stage["cli"]
  BY <1>2 DEF BeginSave, Shapes, Domains, Writers, Stages
<1>6. /\ pc' \in [Clients -> {"idle", "checked", "admitted", "saving"}]
      /\ \A q \in Clients : pc'[q] = IF q = c THEN "saving" ELSE pc[q]
  BY <1>2 DEF Shapes
<1>7. Shapes' /\ Domains' /\ CommandIsSaving' /\ FilesAreGood' /\ AckedOnDisk' /\ SavedOnDisk'
  BY <1>2, <1>5, <1>6 DEF Shapes, Domains, CommandIsSaving, FilesAreGood, AckedOnDisk, SavedOnDisk
<1>8. CopiesAreGood' /\ TokensKnown'
  BY <1>2, <1>3, <1>4, <1>5 DEF CopiesAreGood, TokensKnown, KnownHash, Writers, Up
<1>9. LockIsSaving'
  <2>1. Wanted(body[c])' = want
    BY <1>1, <1>2 DEF Wanted
  <2> QED
    BY <1>2, <1>5, <1>6, <2>1, StoreAssumption DEF LockIsSaving, Up
<1>10. RequestsAreAdmitted'
  BY <1>2, <1>6 DEF RequestsAreAdmitted, Up
<1> QED
  BY <1>7, <1>8, <1>9, <1>10

\* The daemon answers the request it was saving for.
LEMMA AnswerKeeps ==
  ASSUME Inv, NEW c \in Clients, lock = c, lock' = None, Answer(c), EndSave("daemon"),
         UNCHANGED <<disk, life, cli, printed>>,
         Good(cfg'), cfg'.auth.token_hash = cfg.auth.token_hash,
         cfg'.auth.enabled => cfg.auth.enabled,
         DOMAIN past' = DOMAIN past, past'.unread = past.unread, past'.alone = past.alone,
         past'.acked # None => Good(past'.acked) /\ disk.now = past'.acked
  PROVE  Inv'
<1> USE DEF Inv
<1>1. Up /\ stage["daemon"] # "none" /\ cfg' # None
  BY StoreAssumption, ReadBack DEF LockIsSaving
<1>2. /\ saving'["daemon"] = None /\ saving'["cli"] = saving["cli"] /\ DOMAIN saving' = Writers
      /\ stage' \in [Writers -> Stages] /\ stage'["daemon"] = "none" /\ stage'["cli"] = stage["cli"]
  BY DEF EndSave, Shapes, Domains, Writers, Stages
<1>3. /\ pc' \in [Clients -> {"idle", "checked", "admitted", "saving"}]
      /\ DOMAIN bearer' = Clients /\ DOMAIN body' = Clients
      /\ pc'[c] = "idle" /\ body'[c] = None
      /\ \A q \in Clients \ {c} : pc'[q] = pc[q] /\ bearer'[q] = bearer[q] /\ body'[q] = body[q]
  BY DEF Answer, Shapes, Domains
<1>4. Shapes' /\ Domains' /\ CommandIsSaving' /\ FilesAreGood' /\ AckedOnDisk' /\ SavedOnDisk'
  BY <1>2, <1>3 DEF Shapes, Domains, CommandIsSaving, FilesAreGood, AckedOnDisk, SavedOnDisk
<1>5. CopiesAreGood' /\ TokensKnown'
  BY <1>1, <1>2 DEF CopiesAreGood, TokensKnown, KnownHash, Writers, Up
<1>6. LockIsSaving'
  BY <1>3, StoreAssumption DEF LockIsSaving
<1>7. RequestsAreAdmitted'
  BY <1>1, <1>3 DEF RequestsAreAdmitted, Up
<1> QED
  BY <1>4, <1>5, <1>6, <1>7

LEMMA SavedStepKeeps ==
  ASSUME Inv, NEW c \in Clients, Publish(c) \/ PersistFails(c)
  PROVE  Inv'
<1> USE DEF Inv
<1>1. Up /\ lock = c /\ saving["daemon"] = Wanted(body[c]) /\ Good(cfg) /\ Good(saving["daemon"])
      /\ body[c] \in Bodies[c] \cup {Disable}
  <2>1. Up /\ lock = c /\ pc[c] = "saving"
    BY DEF Publish, PersistFails, LockIsSaving
  <2>2. stage["daemon"] # "none" /\ saving["daemon"] = Wanted(body[c])
    BY <2>1, StoreAssumption DEF LockIsSaving
  <2> QED
    BY <2>1, <2>2 DEF CopiesAreGood, RequestsAreAdmitted, Up, Writers
<1>2. /\ lock' = None /\ Answer(c) /\ EndSave("daemon")
      /\ UNCHANGED <<disk, life, cli, printed>>
  BY DEF Publish, PersistFails, daemonVars, tokenVars
<1>3. CASE Publish(c)
  <2>1. cfg' = saving["daemon"]
    BY <1>3 DEF Publish
  <2>2. cfg'.auth.token_hash = cfg.auth.token_hash /\ (cfg'.auth.enabled => cfg.auth.enabled)
    BY <1>1, <2>1, WantedAuth
  <2>3. /\ DOMAIN past' = DOMAIN past /\ past'.unread = past.unread /\ past'.alone = past.alone
        /\ past'.acked # None => Good(past'.acked) /\ disk.now = past'.acked
    <3>1. Persisted(saving["daemon"]) = saving["daemon"]
      BY <1>1, ReadBack
    <3>2. past' = [past EXCEPT !.acked = IF disk.now = saving["daemon"] THEN saving["daemon"] ELSE None]
      BY <1>3, <3>1 DEF Publish
    <3> QED
      BY <1>1, <3>2 DEF Shapes
  <2> QED
    BY <1>1, <1>2, <2>1, <2>2, <2>3, AnswerKeeps
<1>4. CASE PersistFails(c)
  <2>1. UNCHANGED <<cfg, past>>
    BY <1>4 DEF PersistFails, daemonVars
  <2> QED
    BY <1>1, <1>2, <2>1, AnswerKeeps DEF AckedOnDisk
<1> QED
  BY <1>3, <1>4

-----------------------------------------------------------------------------
(* The command line, and the world. *)

LEMMA CommandKeeps ==
  ASSUME Inv, NEW command \in {"generate", "rotate", "disable"}, Command(command)
  PROVE  Inv'
<1> USE DEF Inv
<1>1. PICK copy, token :
        /\ copy = OverlayFlags(ReadFrom(disk.now), [o \in {} |-> None])
        /\ cli' = [command |-> command, token |-> token, replaced |-> copy.auth.token_hash]
        /\ BeginSave("cli", IF command = "disable" THEN DisableAuth(copy) ELSE WithToken(copy, token))
  BY DEF Command
<1>2. CommandIdle /\ Readable(disk.now) /\ UNCHANGED <<disk, life, cfg, lock, pc, bearer, body, printed, past>>
  BY DEF Command, daemonVars, clientVars
<1>3. PICK c : c = IF command = "disable" THEN DisableAuth(copy) ELSE WithToken(copy, token)
  OBVIOUS
<1>4. Good(copy) /\ (~past.unread => KnownHash(copy.auth.token_hash))
  BY <1>1, <1>2, ReadIsGood, NoFlags, OverlayIsGood
<1>5. Good(c) /\ c # None /\ (c.auth.token_hash = copy.auth.token_hash \/ c.auth.token_hash = Hash(token))
  <2>1. Good(c) /\ (c.auth.token_hash = copy.auth.token_hash \/ c.auth.token_hash = Hash(token))
    BY <1>3, <1>4, AuthDisabled, TokenMinted
  <2> QED
    BY <2>1, ReadBack
<1>6. /\ saving'["cli"] = c /\ saving'["daemon"] = saving["daemon"] /\ DOMAIN saving' = Writers
      /\ stage' \in [Writers -> Stages] /\ stage'["cli"] = "begun" /\ stage'["daemon"] = stage["daemon"]
  BY <1>1, <1>3 DEF BeginSave, Shapes, Domains, Writers, Stages
<1>7. cli.token = NoToken /\ cli'.command # "none" /\ cli'.token = token
  BY <1>1, <1>2 DEF CommandIsSaving, CommandIdle
<1>8. Shapes' /\ Domains' /\ CommandIsSaving' /\ FilesAreGood' /\ AckedOnDisk' /\ SavedOnDisk'
  BY <1>2, <1>6, <1>7 DEF Shapes, Domains, CommandIsSaving, FilesAreGood, AckedOnDisk, SavedOnDisk
<1>9. CopiesAreGood'
  BY <1>2, <1>5, <1>6 DEF CopiesAreGood, Writers
<1>10. TokensKnown'
  <2>1. \A h : KnownHash(h) => KnownHash(h)'
    BY <1>2, <1>7, StillKnown
  <2>2. KnownHash(Hash(token))'
    BY <1>7 DEF KnownHash
  <2> QED
    BY <1>2, <1>4, <1>5, <1>6, <2>1, <2>2 DEF TokensKnown, Writers
<1>11. LockIsSaving' /\ RequestsAreAdmitted'
  BY <1>2, <1>6 DEF LockIsSaving, RequestsAreAdmitted, Up, Wanted
<1> QED
  BY <1>8, <1>9, <1>10, <1>11

\* The command ends: its token is printed, or it may be lost.
LEMMA EndCommandKeeps ==
  ASSUME Inv, EndCommand, UNCHANGED <<disk, life, cfg, lock, pc, bearer, body>>,
         printed \subseteq printed', past'.unread \/ cli.token \in printed' \cup {NoToken},
         DOMAIN past' = DOMAIN past, past'.unread \/ ~past.unread,
         past'.acked = past.acked, past'.alone = past.alone
  PROVE  Inv'
<1> USE DEF Inv
<1>1. cli'.command = "none" /\ cli'.token = NoToken
  BY DEF EndCommand
<1>2. /\ saving'["cli"] = None /\ saving'["daemon"] = saving["daemon"] /\ DOMAIN saving' = Writers
      /\ stage' \in [Writers -> Stages] /\ stage'["cli"] = "none" /\ stage'["daemon"] = stage["daemon"]
  BY DEF EndCommand, EndSave, Shapes, Domains, Writers, Stages
<1>3. Shapes' /\ Domains' /\ CommandIsSaving' /\ FilesAreGood' /\ AckedOnDisk' /\ SavedOnDisk'
  BY <1>1, <1>2 DEF Shapes, Domains, CommandIsSaving, FilesAreGood, AckedOnDisk, SavedOnDisk
<1>4. CopiesAreGood'
  BY <1>2 DEF CopiesAreGood, Writers
<1>5. TokensKnown'
  <2> SUFFICES ASSUME ~past'.unread PROVE TokensKnown'
    BY DEF TokensKnown
  <2>1. \A h : KnownHash(h) => KnownHash(h)'
    BY <1>1, StillKnown
  <2> QED
    BY <1>2, <2>1 DEF TokensKnown, Writers
<1>6. LockIsSaving' /\ RequestsAreAdmitted'
  BY <1>2 DEF LockIsSaving, RequestsAreAdmitted, Up, Wanted
<1> QED
  BY <1>3, <1>4, <1>5, <1>6

\* What a kill, or a step of the command line, does to the command.
LEMMA CommandEnds ==
  ASSUME Inv, CommandDone \/ CommandFails \/ KillCommand
  PROVE  Inv'
<1>0. DOMAIN past = {"acked", "unread", "retired", "alone"}
  BY DEF Inv, Shapes
<1>1. EndCommand /\ UNCHANGED <<disk, life, cfg, lock, pc, bearer, body>>
  BY DEF CommandDone, CommandFails, KillCommand, daemonVars, clientVars
<1>2. CASE CommandDone
  <2>1. printed' = printed \cup ({cli.token} \ {NoToken})
    BY <1>2 DEF CommandDone
  <2>2. /\ DOMAIN past' = DOMAIN past /\ past'.unread = past.unread
        /\ past'.acked = past.acked /\ past'.alone = past.alone
    BY <1>0, <1>2 DEF CommandDone
  <2> QED
    BY <1>1, <2>1, <2>2, EndCommandKeeps
<1>3. CASE CommandFails \/ KillCommand
  <2>1. printed' = printed
    BY <1>3 DEF CommandFails, KillCommand, tokenVars
  <2>2. /\ DOMAIN past' = DOMAIN past /\ past'.unread
        /\ past'.acked = past.acked /\ past'.alone = past.alone
    BY <1>0, <1>3 DEF CommandFails, KillCommand
  <2> QED
    BY <1>1, <2>1, <2>2, EndCommandKeeps
<1> QED
  BY <1>2, <1>3

\* The daemon is gone, with all that was in its memory.
LEMMA GoneKeeps ==
  ASSUME Inv, DaemonGone
  PROVE  /\ LockIsSaving' /\ RequestsAreAdmitted'
         /\ life' = "down" /\ cfg' = None
         /\ pc' \in [Clients -> {"idle", "checked", "admitted", "saving"}]
         /\ DOMAIN bearer' = Clients /\ DOMAIN body' = Clients
<1>1. /\ life' = "down" /\ cfg' = None /\ lock' = None
      /\ pc' = [c \in Clients |-> "idle"]
      /\ bearer' = [c \in Clients |-> NoToken]
      /\ body' = [c \in Clients |-> None]
  BY DEF DaemonGone
<1>2. LockIsSaving'
  BY <1>1, StoreAssumption DEF LockIsSaving
<1>3. RequestsAreAdmitted'
  BY <1>1 DEF RequestsAreAdmitted
<1> QED
  BY <1>1, <1>2, <1>3

LEMMA KillKeeps ==
  ASSUME Inv, KillDaemon
  PROVE  Inv'
<1> USE DEF Inv
<1>1. UNCHANGED <<disk, cli, printed, past>> /\ DaemonGone
  BY DEF KillDaemon, tokenVars
<1>2. /\ saving'["daemon"] = None /\ saving'["cli"] = saving["cli"] /\ DOMAIN saving' = Writers
      /\ stage' \in [Writers -> Stages] /\ stage'["daemon"] = "none" /\ stage'["cli"] = stage["cli"]
  BY DEF KillDaemon, EndSave, Shapes, Domains, Writers, Stages
<1>3. Shapes' /\ Domains'
  BY <1>1, <1>2, GoneKeeps DEF Shapes, Domains
<1>4. CommandIsSaving' /\ FilesAreGood' /\ AckedOnDisk' /\ SavedOnDisk'
  BY <1>1, <1>2 DEF CommandIsSaving, FilesAreGood, AckedOnDisk, SavedOnDisk
<1>5. CopiesAreGood' /\ TokensKnown'
  BY <1>1, <1>2, GoneKeeps DEF CopiesAreGood, TokensKnown, KnownHash, Writers
<1> QED
  BY <1>1, <1>3, <1>4, <1>5, GoneKeeps

LEMMA PowerLossKeeps ==
  ASSUME Inv, PowerLoss
  PROVE  Inv'
<1> USE DEF Inv
<1>1. PICK left \in {disk.before, IF disk.synced THEN disk.now ELSE Torn} :
        /\ disk' = [now |-> left, before |-> left, synced |-> TRUE]
        /\ past' = [past EXCEPT !.acked = IF left = disk.now THEN @ ELSE None,
                                !.unread = @ \/ ~CommandIdle]
  BY DEF PowerLoss
<1>2. left \in {disk.now, disk.before}
  BY <1>1 DEF FilesAreGood
<1>3. /\ cli' = [command |-> "none", token |-> NoToken, replaced |-> NoHash]
      /\ stage' = [w \in Writers |-> "none"] /\ saving' = [w \in Writers |-> None]
      /\ printed' = printed /\ DaemonGone
  BY DEF PowerLoss, tokenVars
<1>4. /\ DOMAIN past' = DOMAIN past /\ past'.unread = (past.unread \/ ~CommandIdle)
      /\ past'.acked = IF left = disk.now THEN past.acked ELSE None
  BY <1>1 DEF Shapes
<1>5. Shapes' /\ Domains' /\ CommandIsSaving' /\ SavedOnDisk'
  BY <1>3, <1>4, GoneKeeps DEF Shapes, Domains, CommandIsSaving, SavedOnDisk, Stages, Writers
<1>6. FilesAreGood' /\ AckedOnDisk'
  BY <1>1, <1>2, <1>4 DEF FilesAreGood, AckedOnDisk
<1>7. CopiesAreGood'
  BY <1>3, GoneKeeps DEF CopiesAreGood
<1>8. TokensKnown'
  <2> SUFFICES ASSUME ~past'.unread PROVE TokensKnown'
    BY DEF TokensKnown
  <2>1. ~past.unread /\ cli.token = NoToken /\ cli'.token = NoToken
    BY <1>3, <1>4 DEF CommandIdle, CommandIsSaving
  <2>2. \A h : KnownHash(h) => KnownHash(h)'
    BY <1>3, <2>1, StillKnown
  <2> QED
    BY <1>1, <1>2, <1>3, <2>1, <2>2, GoneKeeps DEF TokensKnown
<1> QED
  BY <1>3, <1>5, <1>6, <1>7, <1>8, GoneKeeps

LEMMA EditKeeps ==
  ASSUME Inv, NEW file \in Edits, EditFile(file)
  PROVE  Inv'
<1> USE DEF Inv
<1>1. UNCHANGED <<stage, saving, life, cfg, lock, pc, bearer, body, cli, printed>>
  BY DEF EditFile, daemonVars, clientVars, tokenVars
<1>2. disk' = [now |-> file, before |-> file, synced |-> TRUE]
  BY DEF EditFile
<1>3. DOMAIN past' = DOMAIN past /\ past'.acked = None /\ ~past'.alone /\ past'.unread = past.unread
  BY DEF EditFile, Shapes
<1>4. Shapes' /\ Domains' /\ CommandIsSaving' /\ FilesAreGood' /\ AckedOnDisk' /\ SavedOnDisk'
  BY <1>1, <1>2, <1>3 DEF Shapes, Domains, CommandIsSaving, FilesAreGood, AckedOnDisk, SavedOnDisk
<1>5. CopiesAreGood' /\ TokensKnown'
  BY <1>1, <1>2, <1>3 DEF CopiesAreGood, TokensKnown, KnownHash
<1>6. LockIsSaving' /\ RequestsAreAdmitted'
  BY <1>1 DEF LockIsSaving, RequestsAreAdmitted, Up, Wanted
<1> QED
  BY <1>4, <1>5, <1>6

LEMMA InvStep == Inv /\ [Next]_vars => Inv'
<1> SUFFICES ASSUME Inv, [Next]_vars PROVE Inv'
  OBVIOUS
<1>1. ASSUME NEW w \in Writers, SaveStep(w) PROVE Inv'
  BY <1>1, SaveStepKeeps
<1>2. CASE Daemon
  BY <1>2, StartStepKeeps
<1>3. ASSUME NEW c \in Clients, Client(c) PROVE Inv'
  BY <1>3, RequestStepKeeps, UpdateKeeps, SavedStepKeeps DEF Client
<1>4. CASE Auth
  BY <1>4, CommandKeeps, CommandEnds DEF Auth
<1>5. CASE Environment
  BY <1>5, KillKeeps, CommandEnds, PowerLossKeeps, EditKeeps DEF Environment
<1>6. CASE UNCHANGED vars
  <2>1. UNCHANGED <<disk, stage, saving, life, cfg, lock, pc, bearer, body, cli, printed, past>>
    BY <1>6 DEF vars, diskVars, daemonVars, clientVars, tokenVars
  <2>2. Shapes' /\ Domains' /\ CommandIsSaving' /\ FilesAreGood' /\ AckedOnDisk' /\ SavedOnDisk'
    BY <2>1 DEF Inv, Shapes, Domains, CommandIsSaving, FilesAreGood, AckedOnDisk, SavedOnDisk
  <2>3. CopiesAreGood' /\ TokensKnown'
    BY <2>1 DEF Inv, CopiesAreGood, TokensKnown, KnownHash
  <2>4. LockIsSaving' /\ RequestsAreAdmitted'
    BY <2>1 DEF Inv, LockIsSaving, RequestsAreAdmitted, Up, Wanted
  <2> QED
    BY <2>2, <2>3, <2>4 DEF Inv
<1> QED
  BY <1>1, <1>2, <1>3, <1>4, <1>5, <1>6 DEF Next

LEMMA InvAlways == Spec => []Inv
BY InvInit, InvStep, PTL DEF Spec

-----------------------------------------------------------------------------
(* What the store promises. *)

\* AlwaysStartable of SettingsStore: whatever fails at whatever step of a save,
\* the file that is left, before and after a loss of power, is one the daemon
\* starts from, unless it was written by hand.
THEOREM FileIsStartable == Spec => []AlwaysStartable
<1>1. Inv => AlwaysStartable
  BY ReadBack DEF Inv, FilesAreGood, AlwaysStartable, Readable
<1> QED
  BY <1>1, InvAlways, PTL

\* ServedIsCoherent of SettingsStore: what is served is valid and complete after
\* any sequence of requests, and notifications that are enabled are configured.
THEOREM ServedCoherently == Spec => []ServedIsCoherent
<1>1. Inv => ServedIsCoherent
  <2> SUFFICES ASSUME Inv, life # "down" PROVE ServedIsCoherent
    BY DEF ServedIsCoherent
  <2>1. Good(cfg)
    BY DEF Inv, CopiesAreGood
  <2>2. Valid(cfg) /\ cfg = Tidy(cfg) /\ ValidNotifications(cfg.notifications)
    BY <2>1 DEF Good, Valid
  <2>3. cfg.notifications.enabled => ProviderConfigured(cfg.notifications)
    BY <2>2 DEF ValidNotifications, ProviderConfigured, Providers
  <2>4. cfg.notifications.enabled => ExecutionState(cfg.notifications) \in {"dry_run", "ready"}
    BY <2>3 DEF ExecutionState
  <2> QED
    BY <2>2, <2>4 DEF ServedIsCoherent
<1> QED
  BY <1>1, InvAlways, PTL

\* TokenWasPrinted of SettingsStore: a token in force is one somebody has read,
\* or is about to, unless a command was cut off before it could print it.
THEOREM TokensAreRead == Spec => []TokenWasPrinted
<1>1. Inv => TokenWasPrinted
  <2> SUFFICES ASSUME Inv, ~past.unread
               PROVE  /\ cfg = None \/ KnownHash(cfg.auth.token_hash)
                      /\ disk.now # None /\ disk.now \notin Edits => KnownHash(disk.now.auth.token_hash)
    BY DEF TokenWasPrinted, KnownHash
  <2> QED
    BY DEF Inv, CopiesAreGood, TokensKnown
<1> QED
  BY <1>1, InvAlways, PTL

\* A daemon that has just read its settings has read them from the file.
LEMMA LoadsOnly ==
  ASSUME [Next]_vars, life = "down", life' = "loaded"
  PROVE  \E flags \in FlagSets : Load(flags)
<1>1. ASSUME UNCHANGED life PROVE FALSE
  BY <1>1
<1>2. ~\E w \in Writers : SaveStep(w)
  BY <1>1 DEF SaveStep, daemonVars
<1>3. ~\E c \in Clients : Client(c)
  <2> SUFFICES ASSUME NEW c \in Clients, Client(c) PROVE FALSE
    OBVIOUS
  <2>1. CASE \E token \in Tokens(c) : RequestDisable(c, token) \/ \E b \in Bodies[c] : Request(c, token, b)
    BY <2>1 DEF Request, RequestDisable, Readers, Up
  <2>2. CASE RequireAuth(c) \/ Refuse(c) \/ Update(c) \/ Publish(c) \/ PersistFails(c)
    BY <2>2 DEF RequireAuth, Refuse, Update, Publish, PersistFails, Readers, Up
  <2> QED
    BY <2>1, <2>2 DEF Client
<1>4. ~Auth
  BY <1>1 DEF Auth, Command, CommandDone, CommandFails, daemonVars
<1>5. ~Environment
  BY <1>1 DEF Environment, KillDaemon, KillCommand, PowerLoss, DaemonGone, EditFile, daemonVars
<1>6. ~UNCHANGED vars
  BY <1>1 DEF vars, daemonVars
<1>7. Daemon
  BY <1>2, <1>3, <1>4, <1>5, <1>6 DEF Next
<1> QED
  BY <1>7 DEF Daemon, MintToken, HasToken, MintingDone, FirstRun, FirstRunDone, Listen

\* A daemon that is up changes its settings when it publishes, and then only.
LEMMA PublishesOnly ==
  ASSUME [Next]_vars, Up, Up', cfg' # cfg
  PROVE  \E c \in Clients : Publish(c)
<1>1. ~\E w \in Writers : SaveStep(w)
  BY DEF SaveStep, daemonVars
<1>2. ~Daemon
  BY DEF Daemon, Load, MintToken, HasToken, MintingDone, FirstRun, FirstRunDone, Listen, Up
<1>3. ~Auth
  BY DEF Auth, Command, CommandDone, CommandFails, daemonVars
<1>4. ~Environment
  BY DEF Environment, KillDaemon, KillCommand, PowerLoss, DaemonGone, EditFile, daemonVars, Up
<1>5. ~UNCHANGED vars
  BY DEF vars, daemonVars
<1>6. PICK c \in Clients : Client(c)
  BY <1>1, <1>2, <1>3, <1>4, <1>5 DEF Next
<1>7. ~\E token \in Tokens(c) : RequestDisable(c, token) \/ \E b \in Bodies[c] : Request(c, token, b)
  BY DEF Request, RequestDisable, Arrive, daemonVars
<1>8. ~(RequireAuth(c) \/ Refuse(c) \/ Update(c) \/ PersistFails(c))
  BY DEF RequireAuth, Refuse, Update, PersistFails, daemonVars
<1> QED
  BY <1>6, <1>7, <1>8 DEF Client

\* What is published is what the request that holds the lock asked for.
LEMMA PublishesWanted ==
  ASSUME Inv, NEW c \in Clients, Publish(c)
  PROVE  /\ lock = c /\ cfg' = Wanted(body[lock]) /\ Good(cfg) /\ Good(cfg')
         /\ stage["daemon"] = "renamed" /\ cfg' = saving["daemon"]
<1>1. Up /\ lock = c /\ lock # None /\ stage["daemon"] = "renamed" /\ cfg' = saving["daemon"]
  BY StoreAssumption DEF Publish, Saved
<1>2. saving["daemon"] = Wanted(body[lock])
  BY <1>1 DEF Inv, LockIsSaving
<1> QED
  BY <1>1, <1>2 DEF Inv, CopiesAreGood, Up, Writers

\* RestartKeepsAcknowledged of SettingsStore: a restart serves what a client was
\* last told is saved, if nothing has replaced the file since.
THEOREM AcknowledgedSurvive == Spec => RestartKeepsAcknowledged
<1> DEFINE Kept == life = "down" /\ life' = "loaded" /\ past.acked # None =>
                     \E flags \in FlagSets : cfg' = OverlayFlags(past.acked, flags)
<1>1. Inv /\ [Next]_vars => Kept
  <2> SUFFICES ASSUME Inv, [Next]_vars, life = "down", life' = "loaded", past.acked # None
               PROVE  \E flags \in FlagSets : cfg' = OverlayFlags(past.acked, flags)
    OBVIOUS
  <2>1. PICK flags \in FlagSets : Load(flags)
    BY LoadsOnly
  <2>2. Good(past.acked) /\ disk.now = past.acked
    BY DEF Inv, AckedOnDisk
  <2>3. cfg' = OverlayFlags(ReadFrom(disk.now), flags)
    BY <2>1 DEF Load
  <2> QED
    BY <2>2, <2>3, ReadBack
<1>2. Inv /\ [Next]_vars => [Kept]_vars
  BY <1>1
<1> QED
  BY <1>2, InvAlways, PTL DEF Spec, RestartKeepsAcknowledged

\* SavedBeforeServed of SettingsStore: what the daemon starts to serve is in the
\* file, unless somebody else writes the file too.
THEOREM SavedFirst == Spec => SavedBeforeServed
<1> DEFINE Kept == Up /\ Up' /\ cfg' # cfg /\ past.alone => disk.now = Persisted(cfg')
<1>1. Inv /\ [Next]_vars => Kept
  <2> SUFFICES ASSUME Inv, [Next]_vars, Up, Up', cfg' # cfg, past.alone
               PROVE  disk.now = Persisted(cfg')
    OBVIOUS
  <2>1. Good(cfg') /\ stage["daemon"] = "renamed" /\ cfg' = saving["daemon"]
    BY PublishesOnly, PublishesWanted
  <2> QED
    BY <2>1, ReadBack DEF Inv, SavedOnDisk
<1>2. Inv /\ [Next]_vars => [Kept]_vars
  BY <1>1
<1> QED
  BY <1>2, InvAlways, PTL DEF Spec, SavedBeforeServed

\* OnlyNamedFieldsChange of SettingsStore: the request that changes what is
\* served changes no field it does not name.
THEOREM UnnamedAreKept == Spec => OnlyNamedFieldsChange
<1> DEFINE Kept == Up /\ Up' /\ cfg' # cfg =>
                     \A s \in DOMAIN cfg : \A f \in DOMAIN cfg[s] :
                       cfg'[s][f] # cfg[s][f] => Names(body[lock], s, f)
<1>1. Inv /\ [Next]_vars => Kept
  <2> SUFFICES ASSUME Inv, [Next]_vars, Up, Up', cfg' # cfg,
                      NEW s \in DOMAIN cfg, NEW f \in DOMAIN cfg[s],
                      ~Names(body[lock], s, f)
               PROVE  cfg'[s][f] = cfg[s][f]
    OBVIOUS
  <2>1. Good(cfg) /\ cfg' = Wanted(body[lock])
    BY PublishesOnly, PublishesWanted
  <2>2. s \in Sections /\ f \in DOMAIN Defaults[s]
    BY <2>1, Whole DEF Good, IsSection
  <2> QED
    BY <2>1, <2>2, WantedNames
<1>2. Inv /\ [Next]_vars => [Kept]_vars
  BY <1>1
<1> QED
  BY <1>2, InvAlways, PTL DEF Spec, OnlyNamedFieldsChange

\* SecretsSurvive of SettingsStore: no request takes a stored secret away.
THEOREM SecretsAreKept == Spec => SecretsSurvive
<1> DEFINE Kept == Up /\ Up' =>
                     /\ cfg.notifications.webhook_url # Empty => cfg'.notifications.webhook_url \in Urls
                     /\ cfg.notifications.chat_id # Empty => cfg'.notifications.chat_id \in Chats
<1>1. Inv /\ [Next]_vars => Kept
  <2> SUFFICES ASSUME Inv, [Next]_vars, Up, Up' PROVE Kept
    OBVIOUS
  <2>1. CASE cfg' = cfg
    <3>1. ValidNotifications(cfg.notifications)
      BY DEF Inv, CopiesAreGood, Up, Good, Valid
    <3> QED
      BY <2>1, <3>1 DEF ValidNotifications
  <2>2. CASE cfg' # cfg
    <3>1. Good(cfg) /\ Good(cfg') /\ cfg' = Wanted(body[lock])
      BY <2>2, PublishesOnly, PublishesWanted
    <3>2. \A f \in Secrets : cfg.notifications[f] # Empty =>
            cfg'.notifications[f] \in IF f = "webhook_url" THEN Urls ELSE Chats
      BY <3>1, WantedSecrets
    <3> QED
      BY <3>2 DEF Secrets
  <2> QED
    BY <2>1, <2>2
<1>2. Inv /\ [Next]_vars => [Kept]_vars
  BY <1>1
<1> QED
  BY <1>2, InvAlways, PTL DEF Spec, SecretsSurvive

\* ChangesAreAuthorised of SettingsStore: a remote client that does not hold the
\* token in force changes nothing, unless authentication is off at its change.
THEOREM RemoteChangesAreAuthorised == Spec => ChangesAreAuthorised
<1> DEFINE Kept == Up /\ Up' /\ cfg' # cfg /\ lock \in Remote /\ cfg.auth.enabled =>
                     Hash(bearer[lock]) = cfg.auth.token_hash
<1>1. Inv /\ [Next]_vars => Kept
  <2> SUFFICES ASSUME Inv, [Next]_vars, lock \in Remote, cfg.auth.enabled
               PROVE  Hash(bearer[lock]) = cfg.auth.token_hash
    OBVIOUS
  <2>1. lock \in Clients /\ pc[lock] = "saving"
    BY StoreAssumption DEF Inv, LockIsSaving
  <2> QED
    BY <2>1 DEF Inv, RequestsAreAdmitted
<1>2. Inv /\ [Next]_vars => [Kept]_vars
  BY <1>1
<1> QED
  BY <1>2, InvAlways, PTL DEF Spec, ChangesAreAuthorised

-----------------------------------------------------------------------------
(* Types. *)

\* Tokens are numbers that were minted, and a request carries one that was read.
Counts ==
  /\ shouldWrite \in BOOLEAN
  /\ minted \in Nat /\ minted <= MaxTokens
  /\ cli.token \in Nat /\ cli.token <= minted
  /\ \A t \in printed : t \in Nat /\ t > 0 /\ t <= minted
  /\ \A c \in Clients : bearer[c] \in {NoToken} \cup printed

LEMMA CountsInit == Init => Counts
<1> SUFFICES ASSUME Init PROVE Counts
  OBVIOUS
<1>1. shouldWrite = FALSE /\ minted = 0 /\ printed = {} /\ cli.token = 0
      /\ \A c \in Clients : bearer[c] = NoToken
  BY DEF Init, NoToken
<1>2. shouldWrite \in BOOLEAN
  BY <1>1
<1>3. \A c \in Clients : bearer[c] \in {NoToken} \cup printed
  BY <1>1
<1>4. /\ minted \in Nat /\ minted <= MaxTokens
      /\ cli.token \in Nat /\ cli.token <= minted
      /\ \A t \in printed : t \in Nat /\ t > 0 /\ t <= minted
  BY <1>1, StoreAssumption
<1> QED
  BY <1>2, <1>3, <1>4 DEF Counts

LEMMA CountsStep == Inv /\ Counts /\ [Next]_vars => Counts'
<1> SUFFICES ASSUME Inv, Counts, [Next]_vars PROVE Counts'
  OBVIOUS
<1>0. DOMAIN bearer = Clients
  BY DEF Inv, Domains
<1>1. CASE shouldWrite' \in BOOLEAN /\ UNCHANGED <<minted, printed, cli, bearer>>
  BY <1>1 DEF Counts
<1>2. ASSUME shouldWrite' \in BOOLEAN, UNCHANGED <<minted, printed, cli>>,
             NEW c \in Clients, NEW token \in {NoToken} \cup printed,
             bearer' = [bearer EXCEPT ![c] = token]
      PROVE  Counts'
  <2>1. \A q \in Clients : bearer'[q] = IF q = c THEN token ELSE bearer[q]
    BY <1>0, <1>2
  <2> QED
    BY <1>2, <2>1 DEF Counts
<1>3. ASSUME shouldWrite' \in BOOLEAN, UNCHANGED <<minted, printed>>,
             cli' = cli \/ cli'.token = NoToken,
             bearer' = bearer \/ bearer' = [c \in Clients |-> NoToken]
      PROVE  Counts'
  <2>1. \A q \in Clients : bearer'[q] \in {NoToken} \cup printed'
    BY <1>3 DEF Counts
  <2>2. cli'.token \in Nat /\ cli'.token <= minted'
    BY <1>3 DEF Counts, NoToken
  <2> QED
    BY <1>3, <2>1, <2>2 DEF Counts
<1>4. ASSUME NEW w \in Writers, SaveStep(w) PROVE Counts'
  BY <1>1, <1>4 DEF SaveStep, daemonVars, clientVars, tokenVars, Counts
<1>5. CASE Daemon
  <2>1. CASE MintToken
    <3>1. /\ minted' = minted + 1 /\ minted < MaxTokens /\ printed' = printed \cup {minted + 1}
          /\ UNCHANGED <<shouldWrite, bearer, cli>>
      BY <2>1 DEF MintToken, clientVars
    <3> QED
      BY <3>1, StoreAssumption DEF Counts
  <2>2. CASE HasToken \/ MintingDone \/ FirstRun \/ FirstRunDone \/ Listen
    BY <1>1, <2>2 DEF HasToken, MintingDone, FirstRun, FirstRunDone, Listen, clientVars, tokenVars, Counts
  <2>3. ASSUME NEW flags \in FlagSets, Load(flags) PROVE Counts'
    BY <1>1, <2>3 DEF Load, clientVars, tokenVars
  <2> QED
    BY <1>5, <2>1, <2>2, <2>3 DEF Daemon
<1>6. ASSUME NEW c \in Clients, Client(c) PROVE Counts'
  <2>1. ASSUME NEW token \in Tokens(c), NEW b, NEW where, Arrive(c, token, b, where) PROVE Counts'
    BY <1>2, <2>1 DEF Arrive, Tokens, daemonVars, tokenVars, Counts
  <2>2. ASSUME NEW token \in Tokens(c), NEW b \in Bodies[c], Request(c, token, b) PROVE Counts'
    BY <2>1, <2>2 DEF Request
  <2>3. ASSUME NEW token \in Tokens(c), RequestDisable(c, token) PROVE Counts'
    BY <2>1, <2>3 DEF RequestDisable
  <2>4. CASE Answer(c) /\ UNCHANGED <<shouldWrite, minted, printed, cli>>
    BY <1>2, <2>4 DEF Answer, Counts
  <2>5. CASE RequireAuth(c)
    BY <1>1, <2>4, <2>5 DEF RequireAuth, daemonVars, tokenVars, Counts
  <2>6. CASE Update(c)
    BY <1>1, <2>6 DEF Update, daemonVars, tokenVars, Counts
  <2>7. CASE Refuse(c) \/ Publish(c) \/ PersistFails(c)
    BY <2>4, <2>7 DEF Refuse, Publish, PersistFails, daemonVars, tokenVars
  <2> QED
    BY <1>6, <2>2, <2>3, <2>5, <2>6, <2>7 DEF Client
<1>7. CASE Auth
  <2>1. ASSUME NEW command \in {"generate", "rotate", "disable"}, Command(command) PROVE Counts'
    <3>1. PICK token :
            /\ token = (IF command = "disable" THEN NoToken ELSE minted + 1) /\ token <= MaxTokens
            /\ minted' = (IF token = NoToken THEN minted ELSE token)
            /\ cli'.token = token
      BY <2>1 DEF Command
    <3>2. UNCHANGED <<shouldWrite, bearer, printed>>
      BY <2>1 DEF Command, daemonVars, clientVars
    <3> QED
      BY <3>1, <3>2, StoreAssumption DEF Counts, NoToken
  <2>2. CASE CommandDone
    <3>1. /\ UNCHANGED <<shouldWrite, bearer, minted>> /\ cli'.token = NoToken
          /\ printed' = printed \cup ({cli.token} \ {NoToken})
      BY <2>2 DEF CommandDone, EndCommand, daemonVars, clientVars
    <3> QED
      BY <3>1 DEF Counts, NoToken
  <2>3. CASE CommandFails
    BY <1>3, <2>3 DEF CommandFails, EndCommand, daemonVars, clientVars, tokenVars, Counts
  <2> QED
    BY <1>7, <2>1, <2>2, <2>3 DEF Auth
<1>8. CASE Environment
  <2>1. CASE KillDaemon \/ PowerLoss
    <3>1. /\ UNCHANGED <<minted, printed>> /\ shouldWrite' = FALSE
          /\ bearer' = [c \in Clients |-> NoToken]
      BY <2>1 DEF KillDaemon, PowerLoss, DaemonGone, tokenVars
    <3>2. cli' = cli \/ cli'.token = NoToken
      BY <2>1 DEF KillDaemon, PowerLoss
    <3> QED
      BY <1>3, <3>1, <3>2
  <2>2. CASE KillCommand
    BY <1>3, <2>2 DEF KillCommand, EndCommand, daemonVars, clientVars, tokenVars, Counts
  <2>3. ASSUME NEW file \in Edits, EditFile(file) PROVE Counts'
    BY <1>1, <2>3 DEF EditFile, daemonVars, clientVars, tokenVars, Counts
  <2> QED
    BY <1>8, <2>1, <2>2, <2>3 DEF Environment
<1>9. CASE UNCHANGED vars
  BY <1>1, <1>9 DEF vars, daemonVars, clientVars, tokenVars, Counts
<1> QED
  BY <1>4, <1>5, <1>6, <1>7, <1>8, <1>9 DEF Next

\* TypeOK of SettingsStore: a configuration always has all its fields, whatever
\* file it came from, and the tokens in use are among those minted.
THEOREM TypeCorrect == Spec => []TypeOK
<1>1. Inv /\ Counts => TypeOK
  <2> SUFFICES ASSUME Inv, Counts PROVE TypeOK
    OBVIOUS
  <2>1. /\ life \in {"down", "loaded", "minting", "ready", "writing", "up"}
        /\ life = "down" <=> cfg = None
        /\ cfg # None => IsConfig(cfg)
        /\ shouldWrite \in BOOLEAN
        /\ stage \in [Writers -> Stages]
    BY DEF Inv, Shapes, CopiesAreGood, Good, Counts
  <2>2. \A w \in Writers : /\ stage[w] = "none" <=> saving[w] = None
                           /\ saving[w] # None => IsConfig(saving[w])
    BY DEF Inv, CopiesAreGood, Good
  <2>3. lock \in Clients \cup {None} /\ disk.synced \in BOOLEAN
    BY DEF Inv, LockIsSaving, FilesAreGood
  <2>4. ASSUME NEW c \in Clients
        PROVE  /\ pc[c] \in {"idle", "checked", "admitted", "saving"}
               /\ pc[c] = "saving" <=> lock = c
               /\ body[c] \in Bodies[c] \cup {None, Disable}
               /\ pc[c] = "idle" <=> body[c] = None
    BY DEF Inv, Shapes, LockIsSaving, RequestsAreAdmitted
  <2>5. ASSUME NEW c \in Clients PROVE bearer[c] \in 0 .. MaxTokens
    <3>1. bearer[c] \in Nat /\ bearer[c] <= minted /\ minted \in Nat /\ minted <= MaxTokens
      BY DEF Counts, NoToken
    <3> QED
      BY <3>1, StoreAssumption
  <2>6. minted \in 0 .. MaxTokens
    BY StoreAssumption DEF Counts
  <2>7. printed \subseteq 1 .. minted
    BY DEF Counts
  <2> QED
    BY <2>1, <2>2, <2>3, <2>4, <2>5, <2>6, <2>7 DEF TypeOK
<1>2. Spec => []Counts
  BY InvAlways, CountsInit, CountsStep, PTL DEF Spec
<1> QED
  BY <1>1, <1>2, InvAlways, PTL
=============================================================================
