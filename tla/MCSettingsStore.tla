--------------------------- MODULE MCSettingsStore ---------------------------
(* The instances of SettingsStore that TLC checks. *)
EXTENDS SettingsStore, TLC

CONSTANTS console, phone, url, chat, path

MCClients == {console, phone}
MCRemote == {phone}
MCUrls == {url}
MCChats == {chat}
MCPrograms == [f \in PathFields |-> {path}]

\* The form of a dashboard that was loaded before all of this; a complete
\* channel with thresholds that conflict with those of the phone; a channel
\* that lacks its chat.  Both gates of the host commands, with values to
\* complete; a path, which is refused.
MCBodies ==
  (console :>
     {Form(Defaults),
      [notifications |-> [provider |-> "ntfy", webhook_url |-> url, enabled |-> TRUE],
       shutdown |-> [critical_threshold |-> 15]],
      [notifications |-> [provider |-> "telegram", webhook_url |-> Redacted]]})
  @@ (phone :>
     {[shutdown |-> [warning_threshold |-> 12], safety |-> [dry_run |-> FALSE],
       actions |-> [real_enabled |-> TRUE, cooldown_seconds |-> 0],
       auto_drain |-> [battery_threshold_percent |-> 0, notification_services |-> {"fax"}]],
      [actions |-> [docker_path |-> path]]})

MCFlagSets == {[provider |-> "mock"]}

\* A file nobody can start from, and one that says little.
MCEdits ==
  {[shutdown |-> [warning_threshold |-> 5]],
   [auth |-> [enabled |-> FALSE]]}
===============================================================================
