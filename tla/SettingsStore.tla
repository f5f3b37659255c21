---------------------------- MODULE SettingsStore ----------------------------
(***************************************************************************)
(* Where the settings live: the file, the copy the daemon serves from, and *)
(* the copies other processes make.  The daemon reads the file when it     *)
(* starts, mints a token if there is none, and from then on only writes    *)
(* it: every accepted request saves the whole configuration, then serves   *)
(* it.  `lapguard auth` reads and writes the same file on its own.         *)
(* (cmd/lapguard/main.go, cmd/lapguard/auth.go, internal/api/config.go,    *)
(* protect.go, auth.go, internal/config/config.go, persist.go)             *)
(***************************************************************************)
EXTENDS Settings

CONSTANTS
  Clients,      \* the clients of the HTTP API
  Remote,       \* those that do not come from loopback
  Bodies,       \* client |-> the requests it sends
  FlagSets,     \* the command lines the daemon may be started with
  Edits,        \* what an operator may write into the file by hand
  Faults,       \* what may go wrong: "write", "chmod", "kill", "power"
  MaxEvents,    \* bound on starts, saved requests, commands and edits together
  MaxTokens     \* bound on the tokens minted

\* What is no configuration and no patch.
None == [nothing |-> TRUE]        \* no file, no configuration, no request
Torn == [torn |-> TRUE]           \* a file cut short
Disable == [disable |-> TRUE]     \* POST /api/v1/auth/disable

ASSUME StoreAssumption ==
  /\ None \notin Clients
  /\ Remote \subseteq Clients
  /\ MaxEvents \in Nat /\ MaxTokens \in Nat

\* settingsRequest lists the sections a request may name.
ASSUME BodiesAssumption ==
  \A c \in Clients : \A b \in Bodies[c] :
    DOMAIN b \subseteq {"notifications", "shutdown", "docker", "safety", "actions", "auto_drain"}

ASSUME FlagsAssumption == \A flags \in FlagSets : Parsed(flags)

\* Nobody writes the hash of a token by hand.
ASSUME EditsAssumption ==
  \A file \in Edits : "auth" \in DOMAIN file => "token_hash" \notin DOMAIN file.auth

Writers == {"daemon", "cli"}

VARIABLES
  disk,       \* the file: as readers see it, as it was before the last rename,
              \* and whether the data of the former has reached the disk
  stage,      \* how far the save of each writer is
  saving,     \* the configuration each writer is saving
  life,       \* what the daemon is doing
  cfg,        \* its configuration: Server.cfg once it is up
  shouldWrite,  \* it found no file
  lock,       \* the request that holds Server.mu
  pc,         \* where each request is in its handlers
  bearer,     \* the token each request carries
  body,       \* and what it asks for
  cli,        \* `lapguard auth`: its command, and the token it minted
  events,     \* starts, saved requests, commands and edits so far, for the bound
  minted,     \* the number of tokens minted
  printed,    \* the tokens someone has read
  past        \* history, for the properties:
              \*   acked        the last configuration a client was told is saved
              \*                and nothing has replaced since, if any
              \*   unread       a token may be in the file that was never printed
              \*   retired      tokens a rotation has replaced
              \*   alone        only the daemon has written the file

diskVars == <<disk, stage, saving>>
daemonVars == <<life, cfg, shouldWrite>>
clientVars == <<lock, pc, bearer, body>>
tokenVars == <<minted, printed>>
vars == <<diskVars, daemonVars, clientVars, cli, events, tokenVars, past>>

Init ==
  /\ disk = [now |-> None, before |-> None, synced |-> TRUE]
  /\ stage = [w \in Writers |-> "none"]
  /\ saving = [w \in Writers |-> None]
  /\ life = "down" /\ cfg = None /\ shouldWrite = FALSE
  /\ lock = None
  /\ pc = [c \in Clients |-> "idle"]
  /\ bearer = [c \in Clients |-> NoToken]
  /\ body = [c \in Clients |-> None]
  /\ cli = [command |-> "none", token |-> NoToken, replaced |-> NoHash]
  /\ events = 0
  /\ minted = 0 /\ printed = {}
  /\ past = [acked |-> None, unread |-> FALSE, retired |-> {}, alone |-> TRUE]

Up == life = "up"

Readable(file) == file # None => file # Torn /\ Loadable(file)
ReadFrom(file) == IF file = None THEN Defaults ELSE Loaded(file)

-----------------------------------------------------------------------------
(* atomicWriteFile.  All that comes before the rename touches a temporary   *)
(* file nobody else opens, removed when a step fails: it is one step with   *)
(* the rename.                                                              *)

BeginSave(w, c) ==
  /\ saving' = [saving EXCEPT ![w] = c]
  /\ stage' = [stage EXCEPT ![w] = "begun"]

EndSave(w) ==
  /\ saving' = [saving EXCEPT ![w] = None]
  /\ stage' = [stage EXCEPT ![w] = "none"]

\* Mutant: the data is not synced before the rename.
ReplaceUnsynced(w) ==
  /\ stage[w] = "begun"
  /\ disk' = [now |-> Persisted(saving[w]), before |-> disk.now, synced |-> FALSE]
  /\ stage' = [stage EXCEPT ![w] = "renamed"]
  /\ past' = [past EXCEPT !.acked = None, !.alone = @ /\ w = "daemon"]
  /\ UNCHANGED saving

\* The data is synced before it takes the name of the file.
ReplaceFile(w) ==
  /\ stage[w] = "begun"
  /\ disk' = [now |-> Persisted(saving[w]), before |-> disk.now, synced |-> TRUE]
  /\ stage' = [stage EXCEPT ![w] = "renamed"]
  /\ past' = [past EXCEPT !.acked = None, !.alone = @ /\ w = "daemon"]
  /\ UNCHANGED saving

\* What comes after the rename either succeeds, and the caller goes on (Saved),
\* or is an error that comes too late: the file is replaced all the same.
Saved(w) == stage[w] = "renamed"
Failed(w) == stage[w] = "failed"

SaveFails(w) ==
  /\ \/ stage[w] = "begun" /\ "write" \in Faults
     \/ stage[w] = "renamed" /\ "chmod" \in Faults
  /\ stage' = [stage EXCEPT ![w] = "failed"]
  /\ UNCHANGED <<disk, saving, past>>

SaveStep(w) ==
  /\ ReplaceFile(w) \/ SaveFails(w)
  /\ UNCHANGED <<daemonVars, clientVars, cli, events, tokenVars>>

-----------------------------------------------------------------------------
(* The start of the daemon. *)

\* config.Load.  A file that does not parse or is not valid ends the program.
Load(flags) ==
  /\ life = "down" /\ events < MaxEvents
  /\ Readable(disk.now)
  /\ life' = "loaded"
  /\ cfg' = OverlayFlags(ReadFrom(disk.now), flags)
  /\ shouldWrite' = (disk.now = None)
  /\ events' = events + 1
  /\ UNCHANGED <<diskVars, clientVars, cli, tokenVars, past>>

NeedsToken == cfg.auth.enabled /\ cfg.auth.token_hash = NoHash

\* Mutant: the token is not shown before it is saved.
MintSilently ==
  /\ life = "loaded" /\ NeedsToken /\ minted < MaxTokens
  /\ minted' = minted + 1
  /\ cfg' = WithToken(cfg, minted + 1)
  /\ life' = "minting"
  /\ BeginSave("daemon", WithToken(cfg, minted + 1))
  /\ UNCHANGED <<disk, shouldWrite, clientVars, cli, events, printed, past>>

\* EnsureAuthToken: the token is printed, then the configuration is saved.
MintToken ==
  /\ life = "loaded" /\ NeedsToken /\ minted < MaxTokens
  /\ minted' = minted + 1
  /\ printed' = printed \cup {minted + 1}
  /\ cfg' = WithToken(cfg, minted + 1)
  /\ life' = "minting"
  /\ BeginSave("daemon", WithToken(cfg, minted + 1))
  /\ UNCHANGED <<disk, shouldWrite, clientVars, cli, events, past>>

HasToken ==
  /\ life = "loaded" /\ ~NeedsToken
  /\ life' = "ready"
  /\ UNCHANGED <<diskVars, cfg, shouldWrite, clientVars, cli, events, tokenVars, past>>

\* A save that failed is a warning in the log: the daemon goes on.
MintingDone ==
  /\ life = "minting" /\ (Saved("daemon") \/ Failed("daemon"))
  /\ life' = "ready"
  /\ EndSave("daemon")
  /\ UNCHANGED <<disk, cfg, shouldWrite, clientVars, cli, events, tokenVars, past>>

\* The first run writes its configuration, even where the token just was.
FirstRun ==
  /\ life = "ready" /\ shouldWrite
  /\ life' = "writing"
  /\ BeginSave("daemon", cfg)
  /\ UNCHANGED <<disk, cfg, shouldWrite, clientVars, cli, events, tokenVars, past>>

FirstRunDone ==
  /\ life = "writing" /\ (Saved("daemon") \/ Failed("daemon"))
  /\ life' = "up"
  /\ shouldWrite' = FALSE        \* not read again
  /\ EndSave("daemon")
  /\ UNCHANGED <<disk, cfg, clientVars, cli, events, tokenVars, past>>

Listen ==
  /\ life = "ready" /\ ~shouldWrite
  /\ life' = "up"
  /\ UNCHANGED <<diskVars, cfg, shouldWrite, clientVars, cli, events, tokenVars, past>>

-----------------------------------------------------------------------------
(* The HTTP handlers.  Server.mu is held for the whole of updateSettings,  *)
(* so that nothing reads the configuration while it is saved.              *)

Readers == Up /\ lock = None

Loopback(c) == c \notin Remote

\* Mutant: anyone may omit the token.
AdmitsWithoutToken(auth, c, token) ==
  \/ ~auth.enabled
  \/ token # NoToken /\ VerifyToken(auth, token)
  \/ token = NoToken /\ auth.allow_loopback_no_token

\* requireAuth, with the settings it reads.
Admits(auth, c, token) ==
  \/ ~auth.enabled
  \/ token # NoToken /\ VerifyToken(auth, token)
  \/ token = NoToken /\ auth.allow_loopback_no_token /\ Loopback(c)

Arrive(c, token, b, where) ==
  /\ pc[c] = "idle" /\ events < MaxEvents
  /\ bearer' = [bearer EXCEPT ![c] = token]
  /\ body' = [body EXCEPT ![c] = b]
  /\ pc' = [pc EXCEPT ![c] = where]
  /\ UNCHANGED <<diskVars, daemonVars, lock, cli, events, tokenVars, past>>

Answer(c) ==
  /\ pc' = [pc EXCEPT ![c] = "idle"]
  /\ bearer' = [bearer EXCEPT ![c] = NoToken]
  /\ body' = [body EXCEPT ![c] = None]

\* secureWrite in front of the handlers that save settings.
Request(c, token, b) ==
  /\ Readers
  /\ Admits(cfg.auth, c, token)
  /\ Arrive(c, token, b, "admitted")

\* secureAuthAdmin: the settings are read once here and, if authentication
\* was on, once more by requireAuth.
RequestDisable(c, token) ==
  /\ Readers
  /\ \/ cfg.auth.enabled /\ Arrive(c, token, Disable, "checked")
     \/ ~cfg.auth.enabled /\ Loopback(c) /\ Arrive(c, token, Disable, "admitted")

RequireAuth(c) ==
  /\ Readers /\ pc[c] = "checked"
  /\ \/ /\ Admits(cfg.auth, c, bearer[c])
        /\ pc' = [pc EXCEPT ![c] = "admitted"]
        /\ UNCHANGED <<bearer, body>>
     \/ ~Admits(cfg.auth, c, bearer[c]) /\ Answer(c)
  /\ UNCHANGED <<diskVars, daemonVars, lock, cli, events, tokenVars, past>>

Wanted(b) == IF b = Disable THEN DisableAuth(cfg) ELSE Applied(cfg, b)
Acceptable(b) == IF b = Disable THEN TRUE ELSE Accepts(cfg, b)

\* updateSettings: refused with nothing changed, or saved first and served then.
Refuse(c) ==
  /\ Readers /\ pc[c] = "admitted" /\ ~Acceptable(body[c])
  /\ Answer(c)
  /\ UNCHANGED <<diskVars, daemonVars, lock, cli, events, tokenVars, past>>

Update(c) ==
  /\ Readers /\ pc[c] = "admitted" /\ Acceptable(body[c])
  /\ events < MaxEvents
  /\ lock' = c
  /\ pc' = [pc EXCEPT ![c] = "saving"]
  /\ events' = events + 1
  /\ BeginSave("daemon", Wanted(body[c]))
  /\ UNCHANGED <<disk, daemonVars, bearer, body, cli, tokenVars, past>>

Publish(c) ==
  /\ Up /\ lock = c /\ Saved("daemon")
  /\ cfg' = saving["daemon"]
  /\ past' = [past EXCEPT !.acked = IF disk.now = Persisted(saving["daemon"])
                                   THEN saving["daemon"] ELSE None]
  /\ lock' = None
  /\ Answer(c)
  /\ EndSave("daemon")
  /\ UNCHANGED <<disk, life, shouldWrite, cli, events, tokenVars>>

\* Mutant: settings that could not be saved are served all the same.
ServesUnsaved(c) ==
  /\ Up /\ lock = c /\ Failed("daemon")
  /\ cfg' = saving["daemon"]
  /\ lock' = None
  /\ Answer(c)
  /\ EndSave("daemon")
  /\ UNCHANGED <<disk, life, shouldWrite, cli, events, tokenVars, past>>

PersistFails(c) ==
  /\ Up /\ lock = c /\ Failed("daemon")
  /\ lock' = None
  /\ Answer(c)
  /\ EndSave("daemon")
  /\ UNCHANGED <<disk, daemonVars, cli, events, tokenVars, past>>

-----------------------------------------------------------------------------
(* lapguard auth: a process of its own, with its own copy of the file. *)

CommandIdle == cli.command = "none"

\* Load, change, and start to save.
Command(command) ==
  /\ CommandIdle /\ events < MaxEvents
  /\ Readable(disk.now)
  /\ LET copy == OverlayFlags(ReadFrom(disk.now), [o \in {} |-> None])
         token == IF command = "disable" THEN NoToken ELSE minted + 1
     IN  /\ command = "generate" => ~(copy.auth.enabled /\ copy.auth.token_hash # NoHash)
         /\ token <= MaxTokens
         /\ minted' = IF token = NoToken THEN minted ELSE token
         /\ cli' = [command |-> command, token |-> token, replaced |-> copy.auth.token_hash]
         /\ BeginSave("cli", IF command = "disable" THEN DisableAuth(copy)
                                                    ELSE WithToken(copy, token))
  /\ events' = events + 1
  /\ UNCHANGED <<disk, daemonVars, clientVars, printed, past>>

EndCommand ==
  /\ cli' = [command |-> "none", token |-> NoToken, replaced |-> NoHash]
  /\ EndSave("cli")

\* The token is printed once the file is saved.
CommandDone ==
  /\ Saved("cli")
  /\ printed' = printed \cup ({cli.token} \ {NoToken})
  /\ past' = IF cli.command = "rotate"
              THEN [past EXCEPT !.retired = @ \cup {t \in printed : Hash(t) = cli.replaced}]
              ELSE past
  /\ EndCommand
  /\ UNCHANGED <<disk, daemonVars, clientVars, events, minted>>

\* A token whose save failed is not printed, not even when the rename was done.
CommandFails ==
  /\ Failed("cli")
  /\ past' = [past EXCEPT !.unread = TRUE]
  /\ EndCommand
  /\ UNCHANGED <<disk, daemonVars, clientVars, events, tokenVars>>

-----------------------------------------------------------------------------
(* Processes that are killed, power that goes away, files edited by hand. *)

DaemonGone ==
  /\ life' = "down" /\ cfg' = None /\ shouldWrite' = FALSE
  /\ lock' = None
  /\ pc' = [c \in Clients |-> "idle"]
  /\ bearer' = [c \in Clients |-> NoToken]
  /\ body' = [c \in Clients |-> None]

KillDaemon ==
  /\ "kill" \in Faults /\ life # "down"
  /\ DaemonGone
  /\ EndSave("daemon")
  /\ UNCHANGED <<disk, cli, events, tokenVars, past>>

KillCommand ==
  /\ "kill" \in Faults /\ ~CommandIdle
  /\ EndCommand
  /\ past' = [past EXCEPT !.unread = TRUE]
  /\ UNCHANGED <<disk, daemonVars, clientVars, events, tokenVars>>

\* The directory is not synced: the file may come back as it was before the
\* last rename, and without its data had that not been synced.
PowerLoss ==
  /\ "power" \in Faults
  /\ life # "down" \/ ~CommandIdle
  /\ DaemonGone
  /\ cli' = [command |-> "none", token |-> NoToken, replaced |-> NoHash]
  /\ stage' = [w \in Writers |-> "none"]
  /\ saving' = [w \in Writers |-> None]
  /\ \E left \in {disk.before, IF disk.synced THEN disk.now ELSE Torn} :
       /\ disk' = [now |-> left, before |-> left, synced |-> TRUE]
       /\ past' = [past EXCEPT !.acked = IF left = disk.now THEN @ ELSE None,
                               !.unread = @ \/ ~CommandIdle]
  /\ UNCHANGED <<events, tokenVars>>

EditFile(file) ==
  /\ events < MaxEvents
  /\ disk' = [now |-> file, before |-> file, synced |-> TRUE]
  /\ past' = [past EXCEPT !.acked = None, !.alone = FALSE]
  /\ events' = events + 1
  /\ UNCHANGED <<stage, saving, daemonVars, clientVars, cli, tokenVars>>

-----------------------------------------------------------------------------

Daemon ==
  \/ \E flags \in FlagSets : Load(flags)
  \/ MintToken \/ HasToken \/ MintingDone \/ FirstRun \/ FirstRunDone \/ Listen

Tokens(c) == IF Loopback(c) THEN {NoToken} ELSE {NoToken} \cup printed

Client(c) ==
  \/ \E token \in Tokens(c), b \in Bodies[c] : Request(c, token, b)
  \/ \E token \in Tokens(c) : RequestDisable(c, token)
  \/ RequireAuth(c) \/ Refuse(c) \/ Update(c) \/ Publish(c) \/ PersistFails(c)

Auth ==
  \/ \E command \in {"generate", "rotate", "disable"} : Command(command)
  \/ CommandDone \/ CommandFails

Environment ==
  \/ KillDaemon \/ KillCommand \/ PowerLoss
  \/ \E file \in Edits : EditFile(file)

Next ==
  \/ \E w \in Writers : SaveStep(w)
  \/ Daemon
  \/ \E c \in Clients : Client(c)
  \/ Auth
  \/ Environment

Spec == Init /\ [][Next]_vars

-----------------------------------------------------------------------------
(* Types. *)

IsConfig(c) == c = [s \in DOMAIN Defaults |-> [f \in DOMAIN Defaults[s] |-> c[s][f]]]

Stages == {"none", "begun", "renamed", "failed"}

\* Every variable has its type: a configuration always has all its fields,
\* whatever file it came from and whatever requests changed it.
TypeOK ==
  /\ life \in {"down", "loaded", "minting", "ready", "writing", "up"}
  /\ life = "down" <=> cfg = None
  /\ cfg # None => IsConfig(cfg)
  /\ shouldWrite \in BOOLEAN
  /\ stage \in [Writers -> Stages]
  /\ \A w \in Writers :
       /\ stage[w] = "none" <=> saving[w] = None
       /\ saving[w] # None => IsConfig(saving[w])
  /\ lock \in Clients \cup {None}
  /\ \A c \in Clients :
       /\ pc[c] \in {"idle", "checked", "admitted", "saving"}
       /\ pc[c] = "saving" <=> lock = c
       /\ bearer[c] \in 0 .. MaxTokens
       /\ body[c] \in Bodies[c] \cup {None, Disable}
       /\ pc[c] = "idle" <=> body[c] = None
  /\ disk.synced \in BOOLEAN
  /\ minted \in 0 .. MaxTokens /\ printed \subseteq 1 .. minted

-----------------------------------------------------------------------------
(* Safety. *)

\* Whatever is killed, fails or loses its power at whatever step of a save,
\* the file is one the daemon can start from, unless someone wrote a bad one
\* by hand: it is replaced as a whole, by data that is already on the disk.
\* (persist.go:8-45; what normalize lets through, LoadFile lets through)
AlwaysStartable ==
  \A file \in {disk.now, disk.before} : Readable(file) \/ file \in Edits

\* The settings that are served are valid and complete after any sequence of
\* patches, and notifications that are enabled can be delivered: what
\* ProviderConfigured asks is what normalize demands.
\* (settings.go:212-263, 308-356 of config.go)
ServedIsCoherent ==
  life # "down" =>
    /\ Valid(cfg) /\ cfg = Tidy(cfg)
    /\ cfg.notifications.enabled => ExecutionState(cfg.notifications) \in {"dry_run", "ready"}

\* Every token in force, in the file or in the daemon, is one that somebody has
\* read or is about to read, unless `lapguard auth` was cut off before it could
\* print it: the daemon prints first and saves then. (main.go:70-81)
TokenWasPrinted ==
  LET Known(c) == c = None \/ \E t \in printed \cup {cli.token, NoToken} :
                                c.auth.token_hash = Hash(t)
  IN  ~past.unread => Known(cfg) /\ (disk.now # None /\ disk.now \notin Edits => Known(disk.now))

\* A restart serves what a client was last told is saved, but for the flags,
\* when nothing else has replaced the file: nothing is lost or altered on the
\* way out and back in. (config.go:241-302, api/config.go:164-189)
RestartKeepsAcknowledged ==
  [][life = "down" /\ life' = "loaded" /\ past.acked # None =>
       \E flags \in FlagSets : cfg' = OverlayFlags(past.acked, flags)]_vars

\* What the running daemon starts to serve, it has saved: not before, and not
\* when the save failed. (api/config.go:183-187)
SavedBeforeServed ==
  [][Up /\ Up' /\ cfg' # cfg /\ past.alone => disk.now = Persisted(cfg')]_vars

Names(b, s, f) ==
  IF b = Disable THEN s = "auth" /\ f = "enabled"
  ELSE s \in DOMAIN b /\ f \in DOMAIN b[s]

\* A request changes no field it does not name, so that a dashboard with an old
\* form can neither lift the dry run nor enable the host commands, and
\* switching authentication off changes nothing else.
\* (settings.go:412-514, api/config.go:33-101)
OnlyNamedFieldsChange ==
  [][Up /\ Up' /\ cfg' # cfg =>
       \A s \in DOMAIN cfg : \A f \in DOMAIN cfg[s] :
         cfg'[s][f] # cfg[s][f] => Names(body[lock], s, f)]_vars

\* No request takes a stored secret away: the form of a dashboard, which never
\* received it, sends it back empty or redacted. (settings.go:412-437)
SecretsSurvive ==
  [][Up /\ Up' =>
       /\ cfg.notifications.webhook_url # Empty => cfg'.notifications.webhook_url \in Urls
       /\ cfg.notifications.chat_id # Empty => cfg'.notifications.chat_id \in Chats]_vars

\* A remote client that does not hold the token in force changes nothing,
\* unless authentication is already off when its change is made: being
\* admitted earlier, or between two reads, makes no difference.
\* (protect.go:38-58, 104-129)
ChangesAreAuthorised ==
  [][Up /\ Up' /\ cfg' # cfg /\ lock \in Remote /\ cfg.auth.enabled =>
       Hash(bearer[lock]) = cfg.auth.token_hash]_vars

-----------------------------------------------------------------------------
(* What the documents say and the code does not do. *)

\* docs/security.md:48: `lapguard auth rotate` "prints a new token once;
\* invalidates the previous hash": a daemon started after a rotation does not
\* accept the token it replaced.
RotationStands ==
  [][life = "down" /\ life' = "loaded" =>
       \A t \in past.retired : ~VerifyToken(cfg'.auth, t)]_vars
===============================================================================
