------------------------------- MODULE Settings -------------------------------
(***************************************************************************)
(* The settings of the daemon as values: their sections, what makes each   *)
(* section valid, the defaults it is completed with, what a request        *)
(* changes, what flags override, and what a reader of the API sees.        *)
(* (internal/config/settings.go, config.go, actions.go, auth.go)           *)
(*                                                                         *)
(* A configuration is a record of sections, a section a record of fields,  *)
(* with the JSON names.  A patch or a set of flags names some fields: it   *)
(* is a function on them.  Spelling (case, blanks) is left out, and the    *)
(* timestamps of a token, which are only shown.                            *)
(***************************************************************************)
EXTENDS Integers

CONSTANTS
  Empty,         \* the empty string
  Redacted,      \* "[redacted]", what a client may send back for a secret
  Urls,          \* well-formed webhook addresses; any other text is refused
  Chats,         \* chat identifiers of an acceptable length
  Programs       \* field of a path |-> the paths that name its program

ASSUME EmptyAssumption ==
  /\ Empty \notin Urls \cup Chats
  /\ Redacted \notin Urls \cup Chats
  /\ Empty # Redacted

-----------------------------------------------------------------------------
(* Names and defaults. *)

Providers == {"none", "ntfy", "telegram", "discord", "webhook"}
Services == Providers \ {"none"}

PathFields == {"poweroff_path", "docker_path", "sync_path"}

\* The options a flag may set and the file keeps.
DefaultOptions ==
  [listen |-> "127.0.0.1:8585", provider |-> "auto", sysfs_root |-> "/sys/class/power_supply",
   battery |-> Empty, web_dir |-> "web/dist", log_json |-> FALSE,
   threshold_method |-> "auto", events_db |-> Empty]

\* The options completed with their default when the file leaves them empty.
Completed == {"listen", "provider", "sysfs_root", "web_dir", "threshold_method"}

DefaultNotifications ==
  [provider |-> "none", enabled |-> FALSE, dry_run |-> FALSE,
   webhook_url |-> Empty, chat_id |-> Empty]

DefaultShutdown == [enabled |-> FALSE, warning_threshold |-> 20, critical_threshold |-> 10]

DefaultDocker == [stop_enabled |-> FALSE, timeout_seconds |-> 30]

DefaultSafety ==
  [dry_run |-> TRUE, require_ac_loss |-> TRUE,
   minimum_battery_percent |-> 0, cooldown_seconds |-> 60]

DefaultAutoDrain ==
  [enabled |-> FALSE, battery_threshold_percent |-> 10, pre_notification_minutes |-> 30,
   response_timeout_minutes |-> 10, notification_services |-> {"ntfy"},
   on_user_no |-> "continue_on_battery"]

DefaultActions ==
  [real_enabled |-> FALSE, require_confirmation |-> TRUE, cooldown_seconds |-> 60,
   poweroff_timeout_seconds |-> 30, poweroff_path |-> Empty, docker_path |-> Empty,
   sync_path |-> Empty]

\* A token is a number, the nth that was minted; hashes of two tokens differ.
NoHash == [sha256 |-> 0]
Hash(token) == [sha256 |-> token]
NoToken == 0

DefaultAuth == [enabled |-> TRUE, allow_loopback_no_token |-> TRUE, token_hash |-> NoHash]

Defaults ==
  [options |-> DefaultOptions, notifications |-> DefaultNotifications,
   shutdown |-> DefaultShutdown, docker |-> DefaultDocker, safety |-> DefaultSafety,
   auto_drain |-> DefaultAutoDrain, auth |-> DefaultAuth, actions |-> DefaultActions]

-----------------------------------------------------------------------------
(* normalize completes a section, then refuses it or not. *)

OrDefault(x, default) == IF x = Empty THEN default ELSE x
IfZero(n, default) == IF n = 0 THEN default ELSE n
IfNotPositive(n, default) == IF n <= 0 THEN default ELSE n

TidyOptions(o) ==
  [o EXCEPT !.provider = OrDefault(@, DefaultOptions.provider),
            !.threshold_method = OrDefault(@, DefaultOptions.threshold_method)]

TidyNotifications(n) == [n EXCEPT !.provider = OrDefault(@, "none")]

Allowed(services) == IF services \cap Services = {} THEN {"ntfy"} ELSE services \cap Services

TidyAutoDrain(a) ==
  [a EXCEPT !.battery_threshold_percent = IfZero(@, DefaultAutoDrain.battery_threshold_percent),
            !.pre_notification_minutes = IfZero(@, DefaultAutoDrain.pre_notification_minutes),
            !.response_timeout_minutes = IfZero(@, DefaultAutoDrain.response_timeout_minutes),
            !.on_user_no = OrDefault(@, DefaultAutoDrain.on_user_no),
            !.notification_services = Allowed(@)]

TidyActions(a) ==
  [a EXCEPT !.cooldown_seconds = IfNotPositive(@, DefaultActions.cooldown_seconds),
            !.poweroff_timeout_seconds = IfNotPositive(@, DefaultActions.poweroff_timeout_seconds),
            !.require_confirmation = TRUE]

Tidy(c) ==
  [c EXCEPT !.options = TidyOptions(@),
            !.notifications = TidyNotifications(@),
            !.auto_drain = TidyAutoDrain(@),
            !.actions = TidyActions(@)]

Percent == 0 .. 100

ValidOptions(o) ==
  /\ o.provider \in {"auto", "sysfs", "mock"}
  /\ o.threshold_method \in {"auto", "sysfs", "tlp", "none"}

\* Mutant: telegram does without its chat.
ValidWithoutChat(n) ==
  /\ n.provider \in Providers
  /\ n.webhook_url \in Urls \cup {Empty}
  /\ n.chat_id \in Chats \cup {Empty}
  /\ n.enabled => n.provider # "none" /\ n.webhook_url # Empty

ValidNotifications(n) ==
  /\ n.provider \in Providers
  /\ n.webhook_url \in Urls \cup {Empty}
  /\ n.chat_id \in Chats \cup {Empty}
  /\ n.enabled =>
       /\ n.provider # "none"
       /\ n.webhook_url # Empty
       /\ n.provider = "telegram" => n.chat_id # Empty

ValidShutdown(s) ==
  /\ s.warning_threshold \in Percent
  /\ s.critical_threshold \in Percent
  /\ s.critical_threshold < s.warning_threshold

ValidDocker(d) == d.timeout_seconds \in 0 .. 3600

ValidAutoDrain(a) ==
  /\ a.battery_threshold_percent \in Percent
  /\ a.pre_notification_minutes \in 0 .. 1440
  /\ a.response_timeout_minutes \in 0 .. 1440
  /\ a.on_user_no = "continue_on_battery"

ValidSafety(s) ==
  /\ s.minimum_battery_percent \in Percent
  /\ s.cooldown_seconds \in 0 .. 86400

ValidActions(a) ==
  /\ a.cooldown_seconds <= 86400
  /\ a.poweroff_timeout_seconds <= 600
  /\ \A f \in PathFields : a[f] \in Programs[f] \cup {Empty}

Valid(c) ==
  /\ ValidOptions(c.options)
  /\ ValidNotifications(c.notifications)
  /\ ValidShutdown(c.shutdown)
  /\ ValidDocker(c.docker)
  /\ ValidSafety(c.safety)
  /\ ValidAutoDrain(c.auto_drain)
  /\ ValidActions(c.actions)

-----------------------------------------------------------------------------
(* Patches: a field that is not named keeps its value. *)

Override(section, patch) ==
  [f \in DOMAIN section |-> IF f \in DOMAIN patch THEN patch[f] ELSE section[f]]

Merge(c, patches) ==
  [s \in DOMAIN c |-> IF s \in DOMAIN patches THEN Override(c[s], patches[s]) ELSE c[s]]

\* An empty or redacted secret means "the one you have".
Secrets == {"webhook_url", "chat_id"}

\* Mutant: an empty secret is a secret.
AsSent(patch) == patch

WithoutEchoes(patch) ==
  [f \in {g \in DOMAIN patch : g \in Secrets => patch[g] \notin {Empty, Redacted}}
     |-> patch[f]]

Meant(request) ==
  [s \in DOMAIN request |->
     IF s = "notifications" THEN WithoutEchoes(request[s]) ELSE request[s]]

\* Mutant: the fields that are not named take their defaults.
AppliedToDefaults(c, request) ==
  [s \in DOMAIN c |-> IF s \in DOMAIN request
                      THEN Tidy(Merge(Defaults, Meant(request)))[s] ELSE c[s]]

\* What every Apply of a request makes of a configuration, and whether all do.
Applied(c, request) == Tidy(Merge(c, Meant(request)))

NamesPaths(request) ==
  "actions" \in DOMAIN request /\ DOMAIN request.actions \cap PathFields # {}

Accepts(c, request) == Valid(Applied(c, request)) /\ ~NamesPaths(request)

DisableAuth(c) == [c EXCEPT !.auth = [@ EXCEPT !.enabled = FALSE]]

\* What a token minted over the old one leaves in the settings.
WithToken(c, token) ==
  [c EXCEPT !.auth = [@ EXCEPT !.token_hash = Hash(token), !.enabled = TRUE]]

VerifyToken(auth, token) ==
  /\ auth.enabled
  /\ token # NoToken
  /\ auth.token_hash # NoHash
  /\ Hash(token) = auth.token_hash

-----------------------------------------------------------------------------
(* The file and the flags. *)

\* Mutant: a section persistDTO does not list.
PersistedWithoutActions(c) ==
  [options |-> c.options, notifications |-> c.notifications, shutdown |-> c.shutdown,
   docker |-> c.docker, safety |-> c.safety, auto_drain |-> c.auto_drain, auth |-> c.auth]

\* The sections persistDTO lists; the two intervals of the watcher are not kept.
Persisted(c) ==
  [options |-> c.options, notifications |-> c.notifications, shutdown |-> c.shutdown,
   docker |-> c.docker, safety |-> c.safety, auto_drain |-> c.auto_drain,
   auth |-> c.auth, actions |-> c.actions]

\* A file may lack sections and fields: the defaults stand for them.
Loadable(file) == Valid(Tidy(Merge(Defaults, file)))
Loaded(file) == Tidy(Merge(Defaults, file))

\* What parseFlags lets through: the defaults with these flags are normalized.
Parsed(flags) ==
  LET o == Override(DefaultOptions, flags)
  IN  ValidOptions(o) /\ o = TidyOptions(o)

OverlayFlags(c, flags) ==
  LET full == [o \in DOMAIN c.options |->
                 IF o \in Completed THEN OrDefault(c.options[o], DefaultOptions[o])
                                    ELSE c.options[o]]
  IN  [c EXCEPT !.options = Override(full, flags)]

-----------------------------------------------------------------------------
(* What readers see. *)

ProviderConfigured(n) ==
  /\ n.webhook_url \in Urls
  /\ \/ n.provider \in {"ntfy", "discord", "webhook"}
     \/ n.provider = "telegram" /\ n.chat_id # Empty

ExecutionState(n) ==
  IF ~ProviderConfigured(n) THEN "unconfigured"
  ELSE IF ~n.enabled THEN "disabled"
  ELSE IF n.dry_run THEN "dry_run" ELSE "ready"

\* The view a dashboard fills its form from, and the request it sends back:
\* secrets come out empty.
Public(n) == [n EXCEPT !.webhook_url = Empty, !.chat_id = Empty]

Form(c) ==
  [notifications |-> Public(c.notifications), shutdown |-> c.shutdown, docker |-> c.docker]
===============================================================================
