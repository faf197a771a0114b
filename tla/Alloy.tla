--------------------------------- MODULE Alloy ---------------------------------
(***************************************************************************)
(* roles/alloy on a Debian host: a play deploys or removes Grafana Alloy,  *)
(* one task after the other, again and again.  A task that fails ends the  *)
(* play, and the restart it had queued is forgotten.  systemd respawns a   *)
(* service that crashes; the host reboots; the user's own configuration    *)
(* file and the variables of the play change.                              *)
(*                                                                         *)
(* An environment file names the configuration Alloy loads: the role's own *)
(* (env = "role") or the one CONFIG_FILE points to (env = "custom").       *)
(***************************************************************************)
EXTENDS Naturals

CONSTANTS
    Versions, Configs, Overrides,
    None,
    Mentions,           \* <<v, w>>: w is somewhere in what version v prints for --version
    FirstValidating,    \* the first version with `alloy validate`
    Accepts,            \* <<v, c>>: version v accepts configuration c
    Survives,           \* <<v, c>>: version v stays up with it
    Wishes,             \* the variables a play may be run with
    MaxMoves,           \* bound on new wishes, reboots and changes to the user's file
    MaxFaults           \* bound on tasks that fail

Wish == [uninstall : BOOLEAN, version : Versions, config : Configs \union {None},
         custom : BOOLEAN, override : Overrides \union {None},
         validate : BOOLEAN, settle : BOOLEAN]

\* What a service may have been started with.
Services == [version : Versions, env : {"role", "custom", None},
             config : Configs \union {None}, override : Overrides \union {None}]

ASSUME HostAssumption ==
    /\ Versions \subseteq Nat \ {0} /\ FirstValidating \in Nat
    /\ None \notin Configs \union Overrides \union Services
    /\ Mentions \subseteq Versions \X Versions /\ \A v \in Versions : <<v, v>> \in Mentions
    /\ Survives \subseteq Accepts /\ Accepts \subseteq Versions \X Configs
ASSUME WishesAssumption == Wishes \subseteq Wish /\ Wishes # {}
ASSUME BoundsAssumption == MaxMoves \in Nat /\ MaxFaults \in Nat

VARIABLES
    (* The host.                                                           *)
    pkg,        \* the version installed, 0 for none
    env,        \* the environment file
    config,     \* /etc/alloy/config.alloy
    override,   \* the drop-in of the systemd unit
    file,       \* what CONFIG_FILE points to, which the user writes
    unit,       \* the drop-in as systemd last read it
    enabled,    \* the unit starts at boot
    service,    \* what the service was started with, or None
    (* The play.                                                           *)
    want, pc,
    notified,   \* the handler `restart alloy` is queued
    changed,    \* a registered task changed something
    moves, faults,
    (* What the properties observe.                                        *)
    wrote,      \* this play wrote config
    restarted,  \* its handler ran
    lost,       \* a queued restart was forgotten, and nothing made up for it
    converged   \* the play before ended well, with the same wish, and nothing
                \* happened since

disk == <<pkg, env, config, override>>
systemd == <<unit, enabled, service>>
host == <<disk, file, systemd>>
record == <<wrote, restarted, converged>>
vars == <<host, want, pc, notified, changed, moves, faults, record, lost>>

Deploying == {"setup", "override", "env", "config", "custom", "absent", "flush",
              "started", "ready", "settle"}
Removing == {"stop", "purge", "remove"}
Over == {"ok", "failed"}

Pointed(e) == IF e = "custom" THEN file ELSE config

\* What a service started from version p and drop-in u would run.
Started(p, u) == [version |-> p, env |-> env, config |-> Pointed(env), override |-> u]

StaysUp == service # None /\ <<service.version, service.config>> \in Survives

-----------------------------------------------------------------------------
(* Tasks *)

\* The play goes on.
Goto(step) == pc' = step /\ UNCHANGED <<want, moves, faults, lost>>

\* It does so without a change.
Skips(step) ==
    Goto(step) /\ UNCHANGED <<host, notified, changed, record>>

\* A task fails the play: handlers that were notified do not run any more.
Fails ==
    /\ pc' = "failed"
    /\ notified' = FALSE
    /\ lost' = (lost \/ notified)
    /\ converged' = FALSE
    /\ UNCHANGED <<host, want, changed, moves, faults, wrote, restarted>>

\* Broken: the setup is never included
PreflightOnly ==
    /\ pc = "preflight"
    /\ IF want.config = None /\ ~want.custom /\ ~want.uninstall
       THEN Fails
       ELSE Skips(IF want.uninstall THEN "stop" ELSE "override")

Preflight ==
    /\ pc = "preflight"
    /\ IF want.config = None /\ ~want.custom /\ ~want.uninstall
       THEN Fails
       ELSE Skips(IF want.uninstall THEN "stop" ELSE "setup")

\* The version asked for is searched in all that the binary prints, where it may
\* be a part of another: of a longer version, or of that of the compiler.
Deployed == pkg # 0 /\ <<pkg, want.version>> \in Mentions

\* Broken: an upgrade notifies nobody
SetupSilently ==
    /\ pc = "setup"
    /\ \/ Deployed /\ Skips("override")
       \/ ~Deployed /\ pkg > want.version /\ Fails
       \/ /\ ~Deployed /\ pkg <= want.version
          /\ pkg' = want.version
          /\ Goto("override")
          /\ UNCHANGED <<env, config, override, file, systemd, notified, changed, record>>

\* apt installs no version older than the one that is there.  The package's
\* own scripts may restart a service that runs.
Setup ==
    /\ pc = "setup"
    /\ \/ Deployed /\ Skips("override")
       \/ ~Deployed /\ pkg > want.version /\ Fails
       \/ /\ ~Deployed /\ pkg <= want.version
          /\ pkg' = want.version
          /\ notified' = TRUE
          /\ service' \in {service} \union
                          (IF service = None THEN {} ELSE {Started(want.version, unit)})
          /\ Goto("override")
          /\ UNCHANGED <<env, config, override, file, unit, enabled, changed, record>>

\* A template task that turns old into new: registered, and notifying the handler.
Templates(old, new) ==
    /\ notified' = (notified \/ old # new)
    /\ changed' = (changed \/ old # new)

TemplateOverride ==
    /\ pc = "override"
    /\ override' = IF want.override = None THEN override ELSE want.override
    /\ Templates(override, override')
    /\ Goto("env")
    /\ UNCHANGED <<pkg, env, config, file, systemd, record>>

TemplateEnv ==
    /\ pc = "env"
    /\ env' = IF want.custom THEN "custom" ELSE "role"
    /\ Templates(env, env')
    /\ Goto("config")
    /\ UNCHANGED <<pkg, config, override, file, systemd, record>>

\* Looks at the version asked for, where the one that is there validates.
Validates == want.validate /\ pkg # 0 /\ want.version >= FirstValidating

\* A version without `alloy validate` fails at the command.
Rejects(c) == pkg < FirstValidating \/ <<pkg, c>> \notin Accepts

WritesConfig ==
    /\ config' = want.config
    /\ Templates(config, config') /\ wrote' = TRUE
    /\ Goto("custom")
    /\ UNCHANGED <<pkg, env, override, file, systemd, restarted, converged>>

\* Broken: validates nothing
TemplateConfigUnchecked ==
    /\ pc = "config"
    /\ IF want.config \in {None, config} \/ want.custom
       THEN Skips("custom")
       ELSE WritesConfig

\* Broken: written even if CONFIG_FILE is set, to be removed again later
TemplateConfigAlways ==
    /\ pc = "config"
    /\ IF want.config \in {None, config}
       THEN Skips("custom")
       ELSE IF Validates /\ Rejects(want.config) THEN Fails
       ELSE WritesConfig

\* The new content is validated before it replaces the old.  Content that is
\* there already is neither written nor validated.
TemplateConfig ==
    /\ pc = "config"
    /\ IF want.config \in {None, config} \/ want.custom
       THEN Skips("custom")
       ELSE IF Validates /\ Rejects(want.config) THEN Fails
       ELSE WritesConfig

ValidateCustom ==
    /\ pc = "custom"
    /\ IF want.custom /\ Validates /\ file # None /\ Rejects(file)
       THEN Fails
       ELSE Skips("absent")

RemoveConfig ==
    /\ pc = "absent"
    /\ config' = IF want.config = None \/ want.custom THEN None ELSE config
    /\ Goto("flush")
    /\ UNCHANGED <<pkg, env, override, file, systemd, notified, changed, record>>

\* The handler: systemd reads its units again and restarts the service.
Restart ==
    /\ unit' = override /\ enabled' = TRUE
    /\ service' = Started(pkg, override)

FlushHandlers ==
    /\ pc = "flush"
    /\ pc' = "started"
    /\ IF notified
       THEN Restart /\ restarted' = TRUE /\ lost' = FALSE
       ELSE UNCHANGED <<systemd, restarted, lost>>
    /\ notified' = FALSE
    /\ UNCHANGED <<disk, file, want, changed, moves, faults, wrote, converged>>

\* Broken: trusts the handler to start it
TrustStarted ==
    /\ pc = "started"
    /\ Skips("ready")

EnsureStarted ==
    /\ pc = "started"
    /\ service' = IF service = None THEN Started(pkg, unit) ELSE service
    /\ Goto("ready")
    /\ UNCHANGED <<disk, file, unit, enabled, notified, changed, record>>

\* A service that crashes and is respawned may answer between two crashes.
VerifyReady ==
    /\ pc = "ready"
    /\ \/ service # None /\ Skips("settle")
       \/ ~StaysUp /\ Fails

\* Broken: takes an answer for a service that stays up
ConfirmNothing ==
    /\ pc = "settle"
    /\ Goto("ok")
    /\ converged' = TRUE
    /\ UNCHANGED <<host, notified, changed, wrote, restarted>>

\* Compares the unit's restarts over a while, if a registered task changed something.
ConfirmRunning ==
    /\ pc = "settle"
    /\ IF changed /\ want.settle /\ ~StaysUp
       THEN Fails
       ELSE /\ Goto("ok")
            /\ converged' = TRUE
            /\ UNCHANGED <<host, notified, changed, wrote, restarted>>

-----------------------------------------------------------------------------
(* uninstall.yml, whose first task may fail *)

StopService ==
    /\ pc = "stop"
    /\ service' \in {None, service}
    /\ Goto("purge")
    /\ UNCHANGED <<disk, file, unit, enabled, notified, changed, record>>

\* The package's scripts stop the service too.
Purge ==
    /\ pc = "purge"
    /\ pkg' = 0 /\ enabled' = FALSE /\ service' = None
    /\ Goto("remove")
    /\ UNCHANGED <<env, config, override, file, unit, notified, changed, record>>

RemoveDirectories ==
    /\ pc = "remove"
    /\ env' = None /\ config' = None /\ override' = None
    /\ Goto("ok")
    /\ converged' = TRUE
    /\ UNCHANGED <<pkg, file, systemd, notified, changed, wrote, restarted>>

-----------------------------------------------------------------------------
(* Tasks that fail, and what happens on the host meanwhile *)

Fault ==
    /\ faults < MaxFaults /\ faults' = faults + 1
    /\ pc' = "failed" /\ notified' = FALSE /\ converged' = FALSE
    /\ UNCHANGED <<want, moves, env, config, override, file, changed, wrote, restarted>>

\* Any task may fail.  One that does after it has done its work, or a part of
\* it, notifies nobody.
TaskFails ==
    /\ pc \in (Deploying \ {"flush"}) \union Removing
    /\ Fault
    /\ pkg' \in IF pc = "setup" /\ ~Deployed /\ pkg < want.version
                THEN {pkg, want.version} ELSE {pkg}
    /\ lost' = (lost \/ notified \/ pkg' # pkg)
    /\ UNCHANGED systemd

\* So may the handler, or one of another role before it, or a firewall task.
HandlerFails ==
    /\ pc = "flush" /\ notified
    /\ Fault
    /\ \/ lost' = TRUE /\ UNCHANGED systemd
       \/ /\ unit' = override /\ enabled' = TRUE
          /\ service' = None /\ lost' = FALSE
    /\ UNCHANGED pkg

Begin ==
    /\ pc \in Over \union {"idle"}
    /\ \E w \in Wishes :
          /\ want' = w
          /\ moves' = IF w = want THEN moves ELSE moves + 1
          /\ converged' = (converged /\ w = want)
    /\ moves' <= MaxMoves
    /\ pc' = "preflight"
    /\ changed' = FALSE /\ wrote' = FALSE /\ restarted' = FALSE
    /\ UNCHANGED <<host, notified, faults, lost>>

\* Restart=always
Respawn ==
    /\ service # None /\ ~StaysUp /\ pkg # 0
    /\ service' = Started(pkg, unit)
    /\ service' # service
    /\ lost' = (lost /\ (unit # override \/ ~enabled))
    /\ UNCHANGED <<disk, file, unit, enabled, want, pc, notified, changed, moves, faults, record>>

Move == moves < MaxMoves /\ moves' = moves + 1 /\ converged' = FALSE

Reboot ==
    /\ pc \in Over \union {"idle"}
    /\ Move
    /\ unit' = override
    /\ service' = IF enabled THEN Started(pkg, override) ELSE None
    /\ lost' = (lost /\ ~enabled)
    /\ UNCHANGED <<disk, file, enabled, want, pc, notified, changed, faults, wrote, restarted>>

\* The user writes the file CONFIG_FILE points to.
WriteFile ==
    /\ Move
    /\ file' \in Configs
    /\ UNCHANGED <<disk, systemd, want, pc, notified, changed, faults, wrote, restarted, lost>>

Init ==
    /\ pkg = 0 /\ env = None /\ config = None /\ override = None
    /\ file \in Configs \union {None}
    /\ unit = None /\ enabled = FALSE /\ service = None
    /\ want \in Wishes /\ pc = "idle"
    /\ notified = FALSE /\ changed = FALSE
    /\ moves = 0 /\ faults = 0
    /\ wrote = FALSE /\ restarted = FALSE /\ lost = FALSE /\ converged = FALSE

PlayStep ==
    \/ Preflight \/ Setup \/ TemplateOverride \/ TemplateEnv \/ TemplateConfig
    \/ ValidateCustom \/ RemoveConfig \/ FlushHandlers \/ EnsureStarted
    \/ VerifyReady \/ ConfirmRunning
    \/ StopService \/ Purge \/ RemoveDirectories

Next ==
    \/ PlayStep \/ TaskFails \/ HandlerFails \/ Begin
    \/ Respawn \/ Reboot \/ WriteFile

Spec == Init /\ [][Next]_vars

\* Ansible carries on with a play, plays are run again, and systemd respawns.
FairSpec == Spec /\ WF_vars(PlayStep) /\ WF_vars(Begin) /\ WF_vars(Respawn)

-----------------------------------------------------------------------------
(* Properties *)

TypeOK ==
    /\ pkg \in Versions \union {0}
    /\ env \in {"role", "custom", None}
    /\ {config, file} \subseteq Configs \union {None}
    /\ {override, unit} \subseteq Overrides \union {None}
    /\ service \in Services \union {None}
    /\ want \in Wishes
    /\ pc \in {"idle", "preflight"} \union Deploying \union Removing \union Over
    /\ {enabled, notified, changed, wrote, restarted, lost, converged} \subseteq BOOLEAN
    /\ moves \in 0..MaxMoves /\ faults \in 0..MaxFaults

EndsWell == pc # "ok" /\ pc' = "ok"

\* A play that ends well leaves Alloy running, at boot too, with the
\* environment, the configuration and the drop-in that were asked for, and in
\* the version asked for or one that mentions it, whatever failed before, unless
\* a restart was forgotten for good.
ServesWhatWasAsked ==
    [][EndsWell /\ ~want.uninstall /\ ~lost =>
          /\ enabled /\ service # None
          /\ <<service.version, want.version>> \in Mentions
          /\ service.env = IF want.custom THEN "custom" ELSE "role"
          /\ service.config = want.config \/ want.custom
          /\ service.override = want.override \/ want.override = None]_vars

\* A play that validates starts no version on a configuration it wrote and
\* that this very version rejects: neither its handler does, nor systemd.
NothingRejectedRuns ==
    wrote /\ Validates /\ pc \in {"started", "ready", "settle", "ok"} =>
        service = None \/ <<service.version, service.config>> \in Accepts

\* Where a play changed a file and ends well, the service stays up with it.
ChangesAreConfirmed ==
    [][EndsWell /\ changed /\ want.settle => StaysUp]_vars

\* "A converged host restarts nothing": no play touches what the one before
\* left, with the same wish.
ConvergedRestartsNothing ==
    [][converged /\ PlayStep => UNCHANGED <<disk, systemd, notified>>]_vars

\* The version a play runs in the end.
Coming == IF Deployed THEN pkg ELSE want.version

\* What the play asks for is a configuration that this version stays up with,
\* and can validate if it will be asked to; and not an older version.
Fine ==
    \/ want.uninstall
    \/ /\ pkg <= Coming
       /\ want.validate /\ want.version >= FirstValidating => Coming >= FirstValidating
       /\ <<Coming, IF want.custom THEN file ELSE want.config>> \in Survives

\* No interrupted play, bad configuration or reboot leaves a host on which a
\* fine play fails forever.
RerunsSucceed == <>[](Fine => pc # "failed")

(* What the role's comments say and the role does not keep. *)

\* "Whether this run restarts Alloy, taken from the tasks that notify the
\* handler".  The task that installs the package notifies it too and is not
\* looked at, so that nobody looks whether a new version stays up.
RestartsAreConfirmed ==
    [][EndsWell /\ restarted /\ want.settle => StaysUp]_vars
=============================================================================
