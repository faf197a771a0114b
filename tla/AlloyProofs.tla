----------------------------- MODULE AlloyProofs -----------------------------
(***************************************************************************)
(* Theorems about Alloy, for any versions, configurations and plays, and   *)
(* any number of failures and reboots.                                     *)
(***************************************************************************)
EXTENDS Alloy, TLAPS

-----------------------------------------------------------------------------
(* The inductive invariant *)

(* The tasks of a deployment that follow one that sets something.          *)
AfterFlush    == {"started", "ready", "settle"}
AfterAbsent   == {"flush"} \union AfterFlush
AfterConfig   == {"custom", "absent"} \union AfterAbsent
AfterEnv      == {"config"} \union AfterConfig
AfterOverride == {"env"} \union AfterEnv
AfterSetup    == {"override"} \union AfterOverride

\* What the play is at agrees with what it was asked; nothing is notified
\* before the first task that may and after the handlers; a removed Alloy
\* neither runs nor starts at boot.
WayOK ==
    /\ pc \in Deploying => ~want.uninstall /\ (want.config # None \/ want.custom)
    /\ pc \in Removing => want.uninstall
    /\ pc = "remove" => pkg = 0 /\ ~enabled /\ service = None
    /\ enabled => pkg # 0
    /\ pc \notin AfterSetup \ AfterFlush => ~notified
    /\ pc = "settle" => service # None

\* Each task leaves what it was asked for, and the later ones leave that alone.
DoneOK ==
    /\ pc \in AfterSetup => pkg # 0 /\ <<pkg, want.version>> \in Mentions
    /\ pc \in AfterOverride => override = want.override \/ want.override = None
    /\ pc \in AfterEnv => env = IF want.custom THEN "custom" ELSE "role"
    /\ pc \in AfterConfig => config = want.config \/ want.custom
    /\ pc \in AfterAbsent => config = None \/ ~want.custom

\* A service started from what is on disk, unless it reads the user's file.
Current(s) ==
    /\ s.version = pkg /\ s.env = env /\ s.override = override
    /\ env = "role" => s.config = config

\* Where no restart is queued or was forgotten, what runs is what is on disk,
\* and so is what systemd would start.
FreshOK ==
    pkg # 0 /\ ~lost /\ ~notified =>
        /\ enabled /\ unit = override
        /\ service = None \/ Current(service)

\* What this play wrote was accepted, and its restart is queued until it ran.
WroteOK ==
    wrote =>
        /\ pc \in AfterConfig \union Over
        /\ ~want.custom /\ ~want.uninstall
        /\ pc \in AfterConfig \ AfterFlush => notified
        /\ pc \in AfterConfig \union {"ok"} =>
              /\ env = "role" /\ config = want.config
              /\ Validates => <<pkg, config>> \in Accepts
        /\ pc \in AfterFlush \union {"ok"} =>
              service = None \/ (service.version = pkg /\ service.config = config)

\* The play before left what this one is asked for, and nothing is queued.
ConvergedOK ==
    converged =>
        /\ ~notified
        /\ want.uninstall =>
              /\ pkg = 0 /\ env = None /\ config = None /\ override = None
              /\ ~enabled /\ service = None
        /\ ~want.uninstall =>
              /\ pkg # 0 /\ <<pkg, want.version>> \in Mentions
              /\ override = want.override \/ want.override = None
              /\ env = IF want.custom THEN "custom" ELSE "role"
              /\ config = IF want.custom THEN None ELSE want.config
              /\ service # None
              /\ want.config # None \/ want.custom

\* No task that is registered has run before the first of them.
ChangedOK == pc \in {"preflight", "setup", "override"} \union Removing => ~changed

Inv == TypeOK /\ WayOK /\ DoneOK /\ FreshOK /\ WroteOK /\ ConvergedOK /\ ChangedOK

-----------------------------------------------------------------------------
(* Every step preserves the invariant: one lemma per action, one step per *)
(* conjunct.                                                             *)

LEMMA PreflightInv == Inv /\ Preflight => Inv'
  <1> SUFFICES ASSUME Inv, Preflight PROVE Inv'
    OBVIOUS
  <1>1. TypeOK'
    <2>1. /\ pkg' \in Versions \union {0} /\ env' \in {"role", "custom", None}
          /\ {config, file}' \subseteq Configs \union {None}
          /\ {override, unit}' \subseteq Overrides \union {None}
          /\ service' \in Services \union {None} /\ want' \in Wishes
          /\ moves' \in 0..MaxMoves /\ faults' \in 0..MaxFaults
      BY DEF Inv, TypeOK, Preflight, Skips, Fails, Goto, host, disk, systemd, record
    <2>2. pc' \in {"idle", "preflight"} \union Deploying \union Removing \union Over
      BY DEF Inv, TypeOK, Preflight, Skips, Fails, Goto, Deploying, Removing, Over
    <2>3. {enabled, notified, changed, wrote, restarted, lost, converged}' \subseteq BOOLEAN
      BY DEF Inv, TypeOK, Preflight, Skips, Fails, Goto, host, disk, systemd, record
    <2> QED
      BY <2>1, <2>2, <2>3 DEF TypeOK
  <1>2. WayOK'
    BY DEF Inv, WayOK, Preflight, Skips, Fails, Goto, host, disk, systemd, Deploying, Removing,
       AfterSetup, AfterOverride, AfterEnv, AfterConfig, AfterAbsent
  <1>3. DoneOK'
    BY DEF Inv, DoneOK, Preflight, Skips, Fails, Goto, AfterSetup, AfterOverride, AfterEnv,
       AfterConfig, AfterAbsent, AfterFlush
  <1>4. FreshOK'
    BY DEF Inv, FreshOK, Current, Preflight, Skips, Fails, Goto, host, disk, systemd
  <1>5. WroteOK'
    BY DEF Inv, WroteOK, Preflight, Skips, Fails, record, Over, AfterConfig, AfterAbsent,
       AfterFlush
  <1>6. ConvergedOK'
    BY DEF Inv, ConvergedOK, Preflight, Skips, Fails, Goto, host, disk, systemd, record
  <1>7. ChangedOK'
    BY DEF Inv, ChangedOK, Preflight, Skips, Fails
  <1> QED
    BY <1>1, <1>2, <1>3, <1>4, <1>5, <1>6, <1>7 DEF Inv

LEMMA SetupInv == Inv /\ Setup => Inv'
  <1> SUFFICES ASSUME Inv, Setup PROVE Inv'
    OBVIOUS
  <1>1. TypeOK'
    <2>1. pkg' \in Versions \union {0} /\ env' \in {"role", "custom", None}
      BY WishesAssumption DEF Inv, TypeOK, Wish, Setup, Skips, Fails, host, disk
    <2>2. /\ {config, file}' \subseteq Configs \union {None}
          /\ {override, unit}' \subseteq Overrides \union {None}
      BY DEF Inv, TypeOK, Setup, Skips, Fails, host, disk, systemd
    <2>3. service' \in Services \union {None}
      <3>1. service' \in {service, Started(want.version, unit)}
        BY DEF Setup, Skips, Fails, host, systemd
      <3>2. want.version \in Versions
        BY WishesAssumption DEF Inv, TypeOK, Wish
      <3> QED
        BY <3>1, <3>2 DEF Inv, TypeOK, Services, Started, Pointed
    <2>4. /\ want' \in Wishes
          /\ pc' \in {"idle", "preflight"} \union Deploying \union Removing \union Over
      BY DEF Inv, TypeOK, Setup, Skips, Fails, Goto, Deploying, Over
    <2>5. {enabled, notified, changed, wrote, restarted, lost, converged}' \subseteq BOOLEAN
      BY DEF Inv, TypeOK, Setup, Skips, Fails, Goto, host, systemd, record
    <2>6. moves' \in 0..MaxMoves /\ faults' \in 0..MaxFaults
      BY DEF Inv, TypeOK, Setup, Skips, Fails, Goto
    <2> QED
      BY <2>1, <2>2, <2>3, <2>4, <2>5, <2>6 DEF TypeOK
  <1>2. WayOK'
    BY HostAssumption DEF Inv, TypeOK, WayOK, Setup, Deployed, Skips, Fails, Goto, host, disk,
       systemd, Removing, Over, AfterSetup, AfterFlush
  <1>3. DoneOK'
    <2>1. want.version \in Versions /\ want.version # 0
      BY WishesAssumption, HostAssumption DEF Inv, TypeOK, Wish
    <2>2. <<want.version, want.version>> \in Mentions
      BY <2>1, HostAssumption
    <2> QED
      BY <2>1, <2>2 DEF Inv, DoneOK, Setup, Deployed, Skips, Fails, Goto, host, disk, AfterSetup,
         AfterOverride, AfterEnv, AfterConfig, AfterAbsent, AfterFlush
  <1>4. FreshOK'
    BY DEF Inv, FreshOK, Current, Setup, Skips, Fails, Goto, host, disk, systemd
  <1>5. WroteOK'
    BY DEF Inv, WroteOK, Setup, Skips, Fails, record, Over, AfterConfig, AfterAbsent,
       AfterFlush
  <1>6. ConvergedOK'
    <2>1. CASE ~converged
      <3>1. ~converged'
        BY <2>1 DEF Setup, Skips, Fails, record
      <3> QED
        BY <3>1 DEF ConvergedOK
    <2>2. CASE converged
      <3>1. Deployed
        BY <2>2 DEF Inv, ConvergedOK, WayOK, Setup, Deployed, Deploying
      <3>2. Skips("override")
        BY <3>1, Zenon DEF Setup
      <3> QED
        BY <3>2 DEF Inv, ConvergedOK, Skips, Goto, host, disk, systemd, record
    <2> QED
      BY <2>1, <2>2 DEF Inv, TypeOK
  <1>7. ChangedOK'
    BY DEF Inv, ChangedOK, Setup, Skips, Fails
  <1> QED
    BY <1>1, <1>2, <1>3, <1>4, <1>5, <1>6, <1>7 DEF Inv

LEMMA TemplateOverrideInv == Inv /\ TemplateOverride => Inv'
  <1> SUFFICES ASSUME Inv, TemplateOverride PROVE Inv'
    OBVIOUS
  <1>1. TypeOK'
    BY WishesAssumption DEF Inv, TypeOK, Wish, TemplateOverride, Templates, Goto, systemd,
       record, Deploying
  <1>2. WayOK'
    BY DEF Inv, WayOK, TemplateOverride, Goto, systemd, Deploying, Removing, AfterSetup,
       AfterOverride, AfterFlush
  <1>3. DoneOK'
    BY DEF Inv, DoneOK, TemplateOverride, Goto, AfterSetup, AfterEnv, AfterConfig, AfterAbsent,
       AfterFlush
  <1>4. FreshOK'
    BY DEF Inv, FreshOK, Current, TemplateOverride, Templates, Goto, systemd
  <1>5. WroteOK'
    BY DEF Inv, WroteOK, TemplateOverride, record, Over, AfterConfig, AfterAbsent, AfterFlush
  <1>6. ConvergedOK'
    BY DEF Inv, WayOK, ConvergedOK, TemplateOverride, Templates, Goto, systemd, record,
       Deploying
  <1>7. ChangedOK'
    BY DEF Inv, ChangedOK, TemplateOverride, Goto, Removing
  <1> QED
    BY <1>1, <1>2, <1>3, <1>4, <1>5, <1>6, <1>7 DEF Inv

LEMMA TemplateEnvInv == Inv /\ TemplateEnv => Inv'
  <1> SUFFICES ASSUME Inv, TemplateEnv PROVE Inv'
    OBVIOUS
  <1>1. TypeOK'
    BY DEF Inv, TypeOK, TemplateEnv, Templates, Goto, systemd, record, Deploying
  <1>2. WayOK'
    BY DEF Inv, WayOK, TemplateEnv, Goto, systemd, Deploying, Removing, AfterSetup,
       AfterOverride, AfterEnv, AfterFlush
  <1>3. DoneOK'
    BY DEF Inv, DoneOK, TemplateEnv, Goto, AfterSetup, AfterOverride, AfterConfig, AfterAbsent,
       AfterFlush
  <1>4. FreshOK'
    BY DEF Inv, FreshOK, Current, TemplateEnv, Templates, Goto, systemd
  <1>5. WroteOK'
    BY DEF Inv, WroteOK, TemplateEnv, record, Over, AfterConfig, AfterAbsent, AfterFlush
  <1>6. ConvergedOK'
    BY DEF Inv, WayOK, ConvergedOK, TemplateEnv, Templates, Goto, systemd, record, Deploying
  <1>7. ChangedOK'
    BY DEF Inv, ChangedOK, TemplateEnv, Goto, Removing
  <1> QED
    BY <1>1, <1>2, <1>3, <1>4, <1>5, <1>6, <1>7 DEF Inv

LEMMA TemplateConfigInv == Inv /\ TemplateConfig => Inv'
  <1> SUFFICES ASSUME Inv, TemplateConfig PROVE Inv'
    OBVIOUS
  <1>1. TypeOK'
    <2>1. pkg' \in Versions \union {0} /\ env' \in {"role", "custom", None}
      BY DEF Inv, TypeOK, TemplateConfig, WritesConfig, Skips, Fails, host, disk
    <2>2. /\ {config, file}' \subseteq Configs \union {None}
          /\ {override, unit}' \subseteq Overrides \union {None}
      BY WishesAssumption DEF Inv, TypeOK, Wish, TemplateConfig, WritesConfig, Skips, Fails,
         host, disk, systemd
    <2>3. service' \in Services \union {None}
      BY DEF Inv, TypeOK, TemplateConfig, WritesConfig, Skips, Fails, host, systemd
    <2>4. /\ want' \in Wishes
          /\ pc' \in {"idle", "preflight"} \union Deploying \union Removing \union Over
      BY DEF Inv, TypeOK, TemplateConfig, WritesConfig, Skips, Fails, Goto, Deploying, Over
    <2>5. {enabled, notified, changed, wrote, restarted, lost, converged}' \subseteq BOOLEAN
      BY DEF Inv, TypeOK, TemplateConfig, WritesConfig, Templates, Skips, Fails, Goto, host,
         systemd, record
    <2>6. moves' \in 0..MaxMoves /\ faults' \in 0..MaxFaults
      BY DEF Inv, TypeOK, TemplateConfig, WritesConfig, Skips, Fails, Goto
    <2> QED
      BY <2>1, <2>2, <2>3, <2>4, <2>5, <2>6 DEF TypeOK
  <1>2. WayOK'
    BY DEF Inv, WayOK, TemplateConfig, WritesConfig, Skips, Fails, Goto, host, disk, systemd,
       Deploying, Removing, AfterSetup, AfterOverride, AfterEnv, AfterConfig, AfterFlush
  <1>3. DoneOK'
    BY DEF Inv, WayOK, DoneOK, TemplateConfig, WritesConfig, Skips, Fails, Goto, host, disk,
       Deploying, AfterSetup, AfterOverride, AfterEnv, AfterConfig, AfterAbsent, AfterFlush
  <1>4. FreshOK'
    BY DEF Inv, FreshOK, Current, TemplateConfig, WritesConfig, Templates, Skips, Fails, Goto,
       host, disk, systemd
  <1>5. WroteOK'
    BY DEF Inv, WayOK, DoneOK, WroteOK, TemplateConfig, WritesConfig, Validates, Rejects,
       Templates, Skips, Fails, Goto, host, disk, record, Deploying, Over, AfterSetup,
       AfterOverride, AfterEnv, AfterConfig, AfterFlush
  <1>6. ConvergedOK'
    BY DEF Inv, WayOK, ConvergedOK, TemplateConfig, WritesConfig, Skips, Fails, Goto, host,
       disk, systemd, record, Deploying
  <1>7. ChangedOK'
    BY DEF Inv, ChangedOK, TemplateConfig, WritesConfig, Skips, Fails, Goto, Removing
  <1> QED
    BY <1>1, <1>2, <1>3, <1>4, <1>5, <1>6, <1>7 DEF Inv

LEMMA ValidateCustomInv == Inv /\ ValidateCustom => Inv'
  <1> SUFFICES ASSUME Inv, ValidateCustom PROVE Inv'
    OBVIOUS
  <1>1. TypeOK'
    BY DEF Inv, TypeOK, ValidateCustom, Skips, Fails, Goto, host, disk, systemd, record,
       Deploying, Over
  <1>2. WayOK'
    BY DEF Inv, WayOK, ValidateCustom, Skips, Fails, Goto, host, disk, systemd, Deploying,
       Removing, AfterSetup, AfterOverride, AfterEnv, AfterConfig, AfterFlush
  <1>3. DoneOK'
    BY DEF Inv, DoneOK, ValidateCustom, Skips, Fails, Goto, host, disk, AfterSetup,
       AfterOverride, AfterEnv, AfterConfig, AfterAbsent, AfterFlush
  <1>4. FreshOK'
    BY DEF Inv, FreshOK, Current, ValidateCustom, Skips, Fails, Goto, host, disk, systemd
  <1>5. WroteOK'
    BY DEF Inv, WroteOK, Validates, ValidateCustom, Skips, Fails, Goto, host, disk, record,
       AfterConfig, AfterFlush
  <1>6. ConvergedOK'
    BY DEF Inv, ConvergedOK, ValidateCustom, Skips, Fails, Goto, host, disk, systemd, record
  <1>7. ChangedOK'
    BY DEF Inv, ChangedOK, ValidateCustom, Skips, Fails, Goto, Removing
  <1> QED
    BY <1>1, <1>2, <1>3, <1>4, <1>5, <1>6, <1>7 DEF Inv

LEMMA RemoveConfigInv == Inv /\ RemoveConfig => Inv'
  <1> SUFFICES ASSUME Inv, RemoveConfig PROVE Inv'
    OBVIOUS
  <1>1. TypeOK'
    BY DEF Inv, TypeOK, RemoveConfig, Goto, systemd, record, Deploying
  <1>2. WayOK'
    BY DEF Inv, WayOK, RemoveConfig, Goto, systemd, Deploying, Removing, AfterSetup,
       AfterOverride, AfterEnv, AfterConfig, AfterAbsent, AfterFlush
  <1>3. DoneOK'
    BY DEF Inv, DoneOK, RemoveConfig, Goto, AfterSetup, AfterOverride, AfterEnv, AfterConfig
  <1>4. FreshOK'
    BY DEF Inv, DoneOK, FreshOK, Current, RemoveConfig, Goto, systemd, AfterEnv, AfterConfig
  <1>5. WroteOK'
    BY DEF Inv, WroteOK, Validates, RemoveConfig, Goto, record, AfterConfig, AfterAbsent,
       AfterFlush
  <1>6. ConvergedOK'
    BY DEF Inv, ConvergedOK, RemoveConfig, Goto, systemd, record
  <1>7. ChangedOK'
    BY DEF Inv, ChangedOK, RemoveConfig, Goto, Removing
  <1> QED
    BY <1>1, <1>2, <1>3, <1>4, <1>5, <1>6, <1>7 DEF Inv

LEMMA FlushHandlersInv == Inv /\ FlushHandlers => Inv'
  <1> SUFFICES ASSUME Inv, FlushHandlers PROVE Inv'
    OBVIOUS
  <1>1. TypeOK'
    <2>1. pkg' \in Versions \union {0} /\ env' \in {"role", "custom", None}
      BY DEF Inv, TypeOK, FlushHandlers, disk
    <2>2. /\ {config, file}' \subseteq Configs \union {None}
          /\ {override, unit}' \subseteq Overrides \union {None}
      BY DEF Inv, TypeOK, FlushHandlers, Restart, disk, systemd
    <2>3. service' \in Services \union {None}
      BY WishesAssumption DEF Inv, TypeOK, WayOK, DoneOK, Wish, FlushHandlers, Restart,
         Started, Pointed, Services, systemd
    <2>4. /\ want' \in Wishes
          /\ pc' \in {"idle", "preflight"} \union Deploying \union Removing \union Over
      BY DEF Inv, TypeOK, FlushHandlers, Deploying
    <2>5. {enabled, notified, changed, wrote, restarted, lost, converged}' \subseteq BOOLEAN
      BY DEF Inv, TypeOK, FlushHandlers, Restart, systemd
    <2>6. moves' \in 0..MaxMoves /\ faults' \in 0..MaxFaults
      BY DEF Inv, TypeOK, FlushHandlers
    <2> QED
      BY <2>1, <2>2, <2>3, <2>4, <2>5, <2>6 DEF TypeOK
  <1>2. WayOK'
    BY HostAssumption, WishesAssumption DEF Inv, TypeOK, WayOK, DoneOK, Wish, FlushHandlers,
       disk, systemd, Removing, Over
  <1>3. DoneOK'
    BY DEF Inv, DoneOK, FlushHandlers, disk, AfterSetup, AfterOverride, AfterEnv, AfterConfig,
       AfterAbsent
  <1>4. FreshOK'
    BY DEF Inv, FreshOK, Current, FlushHandlers, Restart, Started, Pointed, disk, systemd
  <1>5. WroteOK'
    BY DEF Inv, WroteOK, Validates, FlushHandlers, Restart, Started, Pointed, disk,
       AfterConfig, AfterAbsent, AfterFlush
  <1>6. ConvergedOK'
    BY DEF Inv, ConvergedOK, FlushHandlers, disk, systemd
  <1>7. ChangedOK'
    BY DEF Inv, ChangedOK, FlushHandlers, Removing
  <1> QED
    BY <1>1, <1>2, <1>3, <1>4, <1>5, <1>6, <1>7 DEF Inv

LEMMA EnsureStartedInv == Inv /\ EnsureStarted => Inv'
  <1> SUFFICES ASSUME Inv, EnsureStarted PROVE Inv'
    OBVIOUS
  <1>1. TypeOK'
    BY WishesAssumption DEF Inv, TypeOK, DoneOK, Wish, EnsureStarted, Started, Pointed,
       Services, Goto, disk, record, Deploying, AfterSetup, AfterOverride, AfterEnv,
       AfterConfig, AfterAbsent, AfterFlush
  <1>2. WayOK'
    BY DEF Inv, WayOK, EnsureStarted, Goto, disk, Deploying, Removing, AfterFlush
  <1>3. DoneOK'
    BY DEF Inv, DoneOK, EnsureStarted, Goto, disk, AfterSetup, AfterOverride, AfterEnv,
       AfterConfig, AfterAbsent, AfterFlush
  <1>4. FreshOK'
    BY DEF Inv, FreshOK, Current, EnsureStarted, Started, Pointed, Goto, disk
  <1>5. WroteOK'
    BY DEF Inv, WroteOK, Validates, EnsureStarted, Started, Pointed, Goto, disk, record,
       AfterConfig, AfterAbsent, AfterFlush
  <1>6. ConvergedOK'
    BY DEF Inv, WayOK, ConvergedOK, EnsureStarted, Goto, disk, record, Deploying
  <1>7. ChangedOK'
    BY DEF Inv, ChangedOK, EnsureStarted, Goto, Removing
  <1> QED
    BY <1>1, <1>2, <1>3, <1>4, <1>5, <1>6, <1>7 DEF Inv

LEMMA VerifyReadyInv == Inv /\ VerifyReady => Inv'
  <1> SUFFICES ASSUME Inv, VerifyReady PROVE Inv'
    OBVIOUS
  <1>1. TypeOK'
    <2>1. /\ pkg' \in Versions \union {0} /\ env' \in {"role", "custom", None}
          /\ {config, file}' \subseteq Configs \union {None}
          /\ {override, unit}' \subseteq Overrides \union {None}
          /\ service' \in Services \union {None} /\ want' \in Wishes
          /\ moves' \in 0..MaxMoves /\ faults' \in 0..MaxFaults
      BY DEF Inv, TypeOK, VerifyReady, Skips, Fails, Goto, host, disk, systemd, record
    <2>2. pc' \in {"idle", "preflight"} \union Deploying \union Removing \union Over
      BY DEF Inv, TypeOK, VerifyReady, Skips, Fails, Goto, Deploying, Removing, Over
    <2>3. {enabled, notified, changed, wrote, restarted, lost, converged}' \subseteq BOOLEAN
      BY DEF Inv, TypeOK, VerifyReady, Skips, Fails, Goto, host, disk, systemd, record
    <2> QED
      BY <2>1, <2>2, <2>3 DEF TypeOK
  <1>2. WayOK'
    BY DEF Inv, WayOK, VerifyReady, Skips, Fails, Goto, host, disk, systemd, Deploying,
       Removing, AfterFlush
  <1>3. DoneOK'
    BY DEF Inv, DoneOK, VerifyReady, Skips, Fails, Goto, host, disk, AfterSetup, AfterOverride,
       AfterEnv, AfterConfig, AfterAbsent, AfterFlush
  <1>4. FreshOK'
    BY DEF Inv, FreshOK, Current, VerifyReady, Skips, Fails, Goto, host, disk, systemd
  <1>5. WroteOK'
    BY DEF Inv, WroteOK, Validates, VerifyReady, Skips, Fails, Goto, host, disk, systemd,
       record, Over, AfterConfig, AfterAbsent, AfterFlush
  <1>6. ConvergedOK'
    BY DEF Inv, ConvergedOK, VerifyReady, Skips, Fails, Goto, host, disk, systemd, record
  <1>7. ChangedOK'
    BY DEF Inv, ChangedOK, VerifyReady, Skips, Fails, Goto, Removing
  <1> QED
    BY <1>1, <1>2, <1>3, <1>4, <1>5, <1>6, <1>7 DEF Inv

LEMMA ConfirmRunningInv == Inv /\ ConfirmRunning => Inv'
  <1> SUFFICES ASSUME Inv, ConfirmRunning PROVE Inv'
    OBVIOUS
  <1>1. TypeOK'
    <2>1. /\ pkg' \in Versions \union {0} /\ env' \in {"role", "custom", None}
          /\ {config, file}' \subseteq Configs \union {None}
          /\ {override, unit}' \subseteq Overrides \union {None}
          /\ service' \in Services \union {None} /\ want' \in Wishes
          /\ moves' \in 0..MaxMoves /\ faults' \in 0..MaxFaults
      BY DEF Inv, TypeOK, ConfirmRunning, Fails, Goto, host, disk, systemd, record
    <2>2. pc' \in {"idle", "preflight"} \union Deploying \union Removing \union Over
      BY DEF Inv, TypeOK, ConfirmRunning, Fails, Goto, Deploying, Removing, Over
    <2>3. {enabled, notified, changed, wrote, restarted, lost, converged}' \subseteq BOOLEAN
      BY DEF Inv, TypeOK, ConfirmRunning, Fails, Goto, host, disk, systemd, record
    <2> QED
      BY <2>1, <2>2, <2>3 DEF TypeOK
  <1>2. WayOK'
    BY DEF Inv, WayOK, ConfirmRunning, Fails, Goto, host, disk, systemd, Deploying, Removing,
       AfterFlush
  <1>3. DoneOK'
    BY DEF Inv, DoneOK, ConfirmRunning, Fails, Goto, AfterSetup, AfterOverride, AfterEnv,
       AfterConfig, AfterAbsent, AfterFlush
  <1>4. FreshOK'
    BY DEF Inv, FreshOK, Current, ConfirmRunning, Fails, Goto, host, disk, systemd
  <1>5. WroteOK'
    BY DEF Inv, WroteOK, Validates, ConfirmRunning, Fails, Goto, host, disk, systemd, Over,
       AfterConfig, AfterAbsent
  <1>6. ConvergedOK'
    BY DEF Inv, WayOK, DoneOK, ConvergedOK, ConfirmRunning, Fails, Goto, host, disk, systemd,
       Deploying, AfterSetup, AfterOverride, AfterEnv, AfterConfig, AfterAbsent, AfterFlush
  <1>7. ChangedOK'
    BY DEF Inv, ChangedOK, ConfirmRunning, Fails, Goto, Removing
  <1> QED
    BY <1>1, <1>2, <1>3, <1>4, <1>5, <1>6, <1>7 DEF Inv

LEMMA StopServiceInv == Inv /\ StopService => Inv'
  <1> SUFFICES ASSUME Inv, StopService PROVE Inv'
    OBVIOUS
  <1>1. TypeOK'
    BY DEF Inv, TypeOK, StopService, Goto, disk, record, Removing
  <1>2. WayOK'
    BY DEF Inv, WayOK, StopService, Goto, disk, Deploying, Removing, AfterSetup, AfterOverride,
       AfterEnv, AfterConfig, AfterAbsent
  <1>3. DoneOK'
    BY DEF Inv, DoneOK, StopService, Goto, AfterSetup, AfterOverride, AfterEnv, AfterConfig,
       AfterAbsent, AfterFlush
  <1>4. FreshOK'
    BY DEF Inv, FreshOK, Current, StopService, Goto, disk
  <1>5. WroteOK'
    BY DEF Inv, WayOK, WroteOK, StopService, record, Removing
  <1>6. ConvergedOK'
    BY DEF Inv, WayOK, ConvergedOK, StopService, Goto, disk, record, Removing
  <1>7. ChangedOK'
    BY DEF Inv, ChangedOK, StopService, Removing
  <1> QED
    BY <1>1, <1>2, <1>3, <1>4, <1>5, <1>6, <1>7 DEF Inv

LEMMA PurgeInv == Inv /\ Purge => Inv'
  <1> SUFFICES ASSUME Inv, Purge PROVE Inv'
    OBVIOUS
  <1>1. TypeOK'
    BY DEF Inv, TypeOK, Purge, Goto, record, Removing
  <1>2. WayOK'
    BY DEF Inv, WayOK, Purge, Goto, Deploying, Removing, AfterSetup, AfterOverride, AfterEnv,
       AfterConfig, AfterAbsent
  <1>3. DoneOK'
    BY DEF Inv, DoneOK, Purge, Goto, AfterSetup, AfterOverride, AfterEnv, AfterConfig,
       AfterAbsent, AfterFlush
  <1>4. FreshOK'
    BY DEF Inv, FreshOK, Purge
  <1>5. WroteOK'
    BY DEF Inv, WayOK, WroteOK, Purge, record, Removing
  <1>6. ConvergedOK'
    BY DEF Inv, WayOK, ConvergedOK, Purge, Goto, record, Removing
  <1>7. ChangedOK'
    BY DEF Inv, ChangedOK, Purge, Removing
  <1> QED
    BY <1>1, <1>2, <1>3, <1>4, <1>5, <1>6, <1>7 DEF Inv

LEMMA RemoveDirectoriesInv == Inv /\ RemoveDirectories => Inv'
  <1> SUFFICES ASSUME Inv, RemoveDirectories PROVE Inv'
    OBVIOUS
  <1>1. TypeOK'
    BY DEF Inv, TypeOK, RemoveDirectories, Goto, systemd, Over
  <1>2. WayOK'
    BY DEF Inv, WayOK, RemoveDirectories, Goto, systemd, Deploying, Removing, AfterSetup,
       AfterOverride, AfterEnv, AfterConfig, AfterAbsent
  <1>3. DoneOK'
    BY DEF Inv, DoneOK, RemoveDirectories, Goto, AfterSetup, AfterOverride, AfterEnv,
       AfterConfig, AfterAbsent, AfterFlush
  <1>4. FreshOK'
    BY DEF Inv, WayOK, FreshOK, RemoveDirectories
  <1>5. WroteOK'
    BY DEF Inv, WayOK, WroteOK, RemoveDirectories, Removing
  <1>6. ConvergedOK'
    BY DEF Inv, WayOK, ConvergedOK, RemoveDirectories, Goto, systemd, Removing, AfterSetup,
       AfterOverride, AfterEnv, AfterConfig, AfterAbsent
  <1>7. ChangedOK'
    BY DEF Inv, ChangedOK, RemoveDirectories, Removing
  <1> QED
    BY <1>1, <1>2, <1>3, <1>4, <1>5, <1>6, <1>7 DEF Inv

LEMMA TaskFailsInv == Inv /\ TaskFails => Inv'
  <1> SUFFICES ASSUME Inv, TaskFails PROVE Inv'
    OBVIOUS
  <1>1. TypeOK'
    <2>1. pkg' \in Versions \union {0} /\ env' \in {"role", "custom", None}
      BY WishesAssumption DEF Inv, TypeOK, Wish, TaskFails, Fault
    <2>2. /\ {config, file}' \subseteq Configs \union {None}
          /\ {override, unit}' \subseteq Overrides \union {None}
      BY DEF Inv, TypeOK, TaskFails, Fault, systemd
    <2>3. service' \in Services \union {None}
      BY DEF Inv, TypeOK, TaskFails, systemd
    <2>4. /\ want' \in Wishes
          /\ pc' \in {"idle", "preflight"} \union Deploying \union Removing \union Over
      BY DEF Inv, TypeOK, TaskFails, Fault, Over
    <2>5. {enabled, notified, changed, wrote, restarted, lost, converged}' \subseteq BOOLEAN
      BY DEF Inv, TypeOK, TaskFails, Fault, systemd
    <2>6. moves' \in 0..MaxMoves /\ faults' \in 0..MaxFaults
      BY BoundsAssumption DEF Inv, TypeOK, TaskFails, Fault
    <2> QED
      BY <2>1, <2>2, <2>3, <2>4, <2>5, <2>6 DEF TypeOK
  <1>2. WayOK'
    BY HostAssumption DEF Inv, TypeOK, WayOK, TaskFails, Fault, systemd, Deploying, Removing
  <1>3. DoneOK'
    BY DEF Inv, DoneOK, TaskFails, Fault, AfterSetup, AfterOverride, AfterEnv, AfterConfig,
       AfterAbsent, AfterFlush
  <1>4. FreshOK'
    BY DEF Inv, FreshOK, Current, TaskFails, Fault, systemd
  <1>5. WroteOK'
    BY DEF Inv, WroteOK, TaskFails, Fault, Over, AfterConfig, AfterAbsent, AfterFlush
  <1>6. ConvergedOK'
    BY DEF Inv, ConvergedOK, TaskFails, Fault
  <1>7. ChangedOK'
    BY DEF Inv, ChangedOK, TaskFails, Fault, Removing
  <1> QED
    BY <1>1, <1>2, <1>3, <1>4, <1>5, <1>6, <1>7 DEF Inv

LEMMA HandlerFailsInv == Inv /\ HandlerFails => Inv'
  <1> SUFFICES ASSUME Inv, HandlerFails PROVE Inv'
    OBVIOUS
  <1>1. TypeOK'
    <2>1. pkg' \in Versions \union {0} /\ env' \in {"role", "custom", None}
      BY DEF Inv, TypeOK, HandlerFails, Fault
    <2>2. /\ {config, file}' \subseteq Configs \union {None}
          /\ {override, unit}' \subseteq Overrides \union {None}
      BY DEF Inv, TypeOK, HandlerFails, Fault, systemd
    <2>3. service' \in Services \union {None}
      BY DEF Inv, TypeOK, HandlerFails, systemd
    <2>4. /\ want' \in Wishes
          /\ pc' \in {"idle", "preflight"} \union Deploying \union Removing \union Over
      BY DEF Inv, TypeOK, HandlerFails, Fault, Over
    <2>5. {enabled, notified, changed, wrote, restarted, lost, converged}' \subseteq BOOLEAN
      BY DEF Inv, TypeOK, HandlerFails, Fault, systemd
    <2>6. moves' \in 0..MaxMoves /\ faults' \in 0..MaxFaults
      BY BoundsAssumption DEF Inv, TypeOK, HandlerFails, Fault
    <2> QED
      BY <2>1, <2>2, <2>3, <2>4, <2>5, <2>6 DEF TypeOK
  <1>2. WayOK'
    BY HostAssumption, WishesAssumption DEF Inv, TypeOK, WayOK, DoneOK, Wish, HandlerFails,
       Fault, Removing, Over
  <1>3. DoneOK'
    BY DEF Inv, DoneOK, HandlerFails, Fault, AfterSetup, AfterOverride, AfterEnv, AfterConfig,
       AfterAbsent
  <1>4. FreshOK'
    BY DEF Inv, FreshOK, HandlerFails, Fault
  <1>5. WroteOK'
    BY DEF Inv, WroteOK, HandlerFails, Fault, Over, AfterConfig, AfterAbsent, AfterFlush
  <1>6. ConvergedOK'
    BY DEF Inv, ConvergedOK, HandlerFails, Fault
  <1>7. ChangedOK'
    BY DEF Inv, ChangedOK, HandlerFails, Fault, Removing
  <1> QED
    BY <1>1, <1>2, <1>3, <1>4, <1>5, <1>6, <1>7 DEF Inv

LEMMA BeginInv == Inv /\ Begin => Inv'
  <1> SUFFICES ASSUME Inv, Begin PROVE Inv'
    OBVIOUS
  <1>1. TypeOK'
    <2>1. pkg' \in Versions \union {0} /\ env' \in {"role", "custom", None}
      BY DEF Inv, TypeOK, Begin, host, disk
    <2>2. /\ {config, file}' \subseteq Configs \union {None}
          /\ {override, unit}' \subseteq Overrides \union {None}
      BY DEF Inv, TypeOK, Begin, host, disk, systemd
    <2>3. service' \in Services \union {None}
      BY DEF Inv, TypeOK, Begin, host, systemd
    <2>4. /\ want' \in Wishes
          /\ pc' \in {"idle", "preflight"} \union Deploying \union Removing \union Over
      BY DEF Inv, Begin
    <2>5. {enabled, notified, changed, wrote, restarted, lost, converged}' \subseteq BOOLEAN
      BY DEF Inv, TypeOK, Begin, host, systemd
    <2>6. moves' \in 0..MaxMoves /\ faults' \in 0..MaxFaults
      BY DEF Inv, TypeOK, Begin
    <2> QED
      BY <2>1, <2>2, <2>3, <2>4, <2>5, <2>6 DEF TypeOK
  <1>2. WayOK'
    BY DEF Inv, WayOK, Begin, host, disk, systemd, Deploying, Removing, Over, AfterSetup,
       AfterOverride, AfterEnv, AfterConfig, AfterAbsent
  <1>3. DoneOK'
    BY DEF Inv, DoneOK, Begin, AfterSetup, AfterOverride, AfterEnv, AfterConfig, AfterAbsent,
       AfterFlush
  <1>4. FreshOK'
    BY DEF Inv, FreshOK, Current, Begin, host, disk, systemd
  <1>5. WroteOK'
    BY DEF Inv, WroteOK, Begin
  <1>6. ConvergedOK'
    BY DEF Inv, ConvergedOK, Begin, host, disk, systemd
  <1>7. ChangedOK'
    BY DEF Inv, ChangedOK, Begin
  <1> QED
    BY <1>1, <1>2, <1>3, <1>4, <1>5, <1>6, <1>7 DEF Inv

LEMMA RespawnInv == Inv /\ Respawn => Inv'
  <1> SUFFICES ASSUME Inv, Respawn PROVE Inv'
    OBVIOUS
  <1>1. TypeOK'
    BY DEF Inv, TypeOK, Respawn, Started, Pointed, Services, disk, record
  <1>2. WayOK'
    BY HostAssumption DEF Inv, TypeOK, WayOK, Respawn, Started, Pointed, Services, disk
  <1>3. DoneOK'
    BY DEF Inv, DoneOK, Respawn, disk
  <1>4. FreshOK'
    BY DEF Inv, FreshOK, Current, Respawn, Started, Pointed, disk
  <1>5. WroteOK'
    BY DEF Inv, WroteOK, Validates, Respawn, Started, Pointed, disk, record, AfterConfig,
       AfterAbsent
  <1>6. ConvergedOK'
    BY HostAssumption DEF Inv, TypeOK, ConvergedOK, Respawn, Started, Pointed, Services, disk,
       record
  <1>7. ChangedOK'
    BY DEF Inv, ChangedOK, Respawn
  <1> QED
    BY <1>1, <1>2, <1>3, <1>4, <1>5, <1>6, <1>7 DEF Inv

LEMMA RebootInv == Inv /\ Reboot => Inv'
  <1> SUFFICES ASSUME Inv, Reboot PROVE Inv'
    OBVIOUS
  <1>1. TypeOK'
    <2>1. pkg' \in Versions \union {0} /\ env' \in {"role", "custom", None}
      BY DEF Inv, TypeOK, Reboot, disk
    <2>2. /\ {config, file}' \subseteq Configs \union {None}
          /\ {override, unit}' \subseteq Overrides \union {None}
      BY DEF Inv, TypeOK, Reboot, disk
    <2>3. service' \in Services \union {None}
      BY DEF Inv, TypeOK, WayOK, Reboot, Started, Pointed, Services
    <2>4. /\ want' \in Wishes
          /\ pc' \in {"idle", "preflight"} \union Deploying \union Removing \union Over
      BY DEF Inv, TypeOK, Reboot
    <2>5. {enabled, notified, changed, wrote, restarted, lost, converged}' \subseteq BOOLEAN
      BY DEF Inv, TypeOK, Reboot, Move
    <2>6. moves' \in 0..MaxMoves /\ faults' \in 0..MaxFaults
      BY BoundsAssumption DEF Inv, TypeOK, Reboot, Move
    <2> QED
      BY <2>1, <2>2, <2>3, <2>4, <2>5, <2>6 DEF TypeOK
  <1>2. WayOK'
    BY DEF Inv, WayOK, Reboot, disk, Over
  <1>3. DoneOK'
    BY DEF Inv, DoneOK, Reboot, disk
  <1>4. FreshOK'
    BY DEF Inv, FreshOK, Current, Reboot, Started, Pointed, disk
  <1>5. WroteOK'
    BY DEF Inv, WroteOK, Validates, Reboot, Started, Pointed, disk, AfterConfig, AfterAbsent
  <1>6. ConvergedOK'
    BY DEF Inv, ConvergedOK, Reboot, Move
  <1>7. ChangedOK'
    BY DEF Inv, ChangedOK, Reboot
  <1> QED
    BY <1>1, <1>2, <1>3, <1>4, <1>5, <1>6, <1>7 DEF Inv

LEMMA WriteFileInv == Inv /\ WriteFile => Inv'
  <1> SUFFICES ASSUME Inv, WriteFile PROVE Inv'
    OBVIOUS
  <1>1. TypeOK'
    <2>1. pkg' \in Versions \union {0} /\ env' \in {"role", "custom", None}
      BY DEF Inv, TypeOK, WriteFile, disk
    <2>2. /\ {config, file}' \subseteq Configs \union {None}
          /\ {override, unit}' \subseteq Overrides \union {None}
      BY DEF Inv, TypeOK, WriteFile, disk, systemd
    <2>3. service' \in Services \union {None}
      BY DEF Inv, TypeOK, WriteFile, systemd
    <2>4. /\ want' \in Wishes
          /\ pc' \in {"idle", "preflight"} \union Deploying \union Removing \union Over
      BY DEF Inv, TypeOK, WriteFile
    <2>5. {enabled, notified, changed, wrote, restarted, lost, converged}' \subseteq BOOLEAN
      BY DEF Inv, TypeOK, WriteFile, Move, systemd
    <2>6. moves' \in 0..MaxMoves /\ faults' \in 0..MaxFaults
      BY BoundsAssumption DEF Inv, TypeOK, WriteFile, Move
    <2> QED
      BY <2>1, <2>2, <2>3, <2>4, <2>5, <2>6 DEF TypeOK
  <1>2. WayOK'
    BY DEF Inv, WayOK, WriteFile, disk, systemd
  <1>3. DoneOK'
    BY DEF Inv, DoneOK, WriteFile, disk
  <1>4. FreshOK'
    BY DEF Inv, FreshOK, Current, WriteFile, disk, systemd
  <1>5. WroteOK'
    BY DEF Inv, WroteOK, Validates, WriteFile, disk, systemd
  <1>6. ConvergedOK'
    BY DEF Inv, ConvergedOK, WriteFile, Move
  <1>7. ChangedOK'
    BY DEF Inv, ChangedOK, WriteFile
  <1> QED
    BY <1>1, <1>2, <1>3, <1>4, <1>5, <1>6, <1>7 DEF Inv

LEMMA InitInv == Init => Inv
  <1> SUFFICES ASSUME Init PROVE Inv
    OBVIOUS
  <1>1. TypeOK
    <2>1. /\ pkg \in Versions \union {0}
          /\ moves \in 0..MaxMoves /\ faults \in 0..MaxFaults
      BY BoundsAssumption DEF Init
    <2>2. /\ env \in {"role", "custom", None}
          /\ {config, file} \subseteq Configs \union {None}
          /\ {override, unit} \subseteq Overrides \union {None}
          /\ service \in Services \union {None}
          /\ want \in Wishes
          /\ pc \in {"idle", "preflight"} \union Deploying \union Removing \union Over
      BY DEF Init
    <2>3. {enabled, notified, changed, wrote, restarted, lost, converged} \subseteq BOOLEAN
      BY DEF Init
    <2> QED
      BY <2>1, <2>2, <2>3 DEF TypeOK
  <1>2. WayOK /\ DoneOK /\ FreshOK
    BY DEF Init, WayOK, DoneOK, FreshOK, Deploying, Removing, AfterSetup, AfterOverride,
       AfterEnv, AfterConfig, AfterAbsent, AfterFlush
  <1>3. WroteOK /\ ConvergedOK /\ ChangedOK
    BY DEF Init, WroteOK, ConvergedOK, ChangedOK
  <1> QED
    BY <1>1, <1>2, <1>3 DEF Inv

LEMMA StutterInv == Inv /\ UNCHANGED vars => Inv'
  <1> SUFFICES ASSUME Inv, UNCHANGED vars PROVE Inv'
    OBVIOUS
  <1> USE DEF vars, host, disk, systemd, record
  <1>1. TypeOK' /\ WayOK' /\ DoneOK'
    BY DEF Inv, TypeOK, WayOK, DoneOK
  <1>2. FreshOK' /\ WroteOK' /\ ConvergedOK' /\ ChangedOK'
    BY DEF Inv, FreshOK, Current, WroteOK, Validates, ConvergedOK, ChangedOK
  <1> QED
    BY <1>1, <1>2 DEF Inv

LEMMA NextInv == Inv /\ [Next]_vars => Inv'
  <1> SUFFICES ASSUME Inv, [Next]_vars PROVE Inv'
    OBVIOUS
  <1>1. CASE PlayStep
    BY <1>1, PreflightInv, SetupInv, TemplateOverrideInv, TemplateEnvInv, TemplateConfigInv,
       ValidateCustomInv, RemoveConfigInv, FlushHandlersInv, EnsureStartedInv, VerifyReadyInv,
       ConfirmRunningInv, StopServiceInv, PurgeInv, RemoveDirectoriesInv DEF PlayStep
  <1>2. CASE TaskFails \/ HandlerFails \/ Begin
    BY <1>2, TaskFailsInv, HandlerFailsInv, BeginInv
  <1>3. CASE Respawn \/ Reboot \/ WriteFile
    BY <1>3, RespawnInv, RebootInv, WriteFileInv
  <1>4. CASE UNCHANGED vars
    BY <1>4, StutterInv
  <1> QED
    BY <1>1, <1>2, <1>3, <1>4 DEF Next

LEMMA Invariant == Spec => []Inv
  BY InitInv, NextInv, PTL DEF Spec

-----------------------------------------------------------------------------
(* Theorems *)

\* Every variable keeps its type: in particular a service only ever runs an
\* installed version (roles/alloy/tasks/deploy.yml).
THEOREM TypeCorrect == Spec => []TypeOK
  <1>1. Inv => TypeOK
    BY DEF Inv
  <1> QED
    BY <1>1, Invariant, PTL

\* No play that validates starts a version on a configuration it wrote and
\* that this version rejects (the validate of the template task).
THEOREM NothingRejectedIsRun == Spec => []NothingRejectedRuns
  <1>1. Inv => NothingRejectedRuns
    BY DEF Inv, WroteOK, NothingRejectedRuns, AfterConfig, AfterAbsent, AfterFlush
  <1> QED
    BY <1>1, Invariant, PTL

\* Only the last task of a deployment and of a removal ends a play well.
LEMMA EndsAtTheLastTask ==
    Inv /\ [Next]_vars /\ EndsWell => ConfirmRunning \/ (RemoveDirectories /\ want.uninstall)
  <1> SUFFICES ASSUME Inv, [Next]_vars, EndsWell
               PROVE  ConfirmRunning \/ (RemoveDirectories /\ want.uninstall)
    OBVIOUS
  <1>1. CASE PlayStep
    BY <1>1 DEF PlayStep, EndsWell, Inv, WayOK, Removing, Goto, Skips, Fails, Preflight, Setup,
       TemplateOverride, TemplateEnv, TemplateConfig, WritesConfig, ValidateCustom,
       RemoveConfig, FlushHandlers, EnsureStarted, VerifyReady, StopService, Purge,
       RemoveDirectories
  <1>2. ~(TaskFails \/ HandlerFails \/ Begin)
    BY DEF EndsWell, TaskFails, HandlerFails, Fault, Begin
  <1>3. ~(Respawn \/ Reboot \/ WriteFile \/ UNCHANGED vars)
    BY DEF EndsWell, Respawn, Reboot, WriteFile, vars
  <1> QED
    BY <1>1, <1>2, <1>3 DEF Next

\* A play that ends well leaves Alloy running as it was asked for, in the version
\* asked for or one whose own output mentions it, whatever failed before, unless
\* a restart was forgotten for good (the handler, and every task that notifies it).
THEOREM AsAskedIsServed == Spec => ServesWhatWasAsked
  <1>1. ASSUME Inv, [Next]_vars, EndsWell, ~want.uninstall, ~lost
        PROVE  /\ enabled /\ service # None
               /\ <<service.version, want.version>> \in Mentions
               /\ service.env = IF want.custom THEN "custom" ELSE "role"
               /\ service.config = want.config \/ want.custom
               /\ service.override = want.override \/ want.override = None
    <2>1. pc = "settle"
      BY <1>1, EndsAtTheLastTask DEF ConfirmRunning
    <2>2. service # None /\ ~notified /\ pkg # 0 /\ <<pkg, want.version>> \in Mentions
      BY <1>1, <2>1 DEF Inv, WayOK, DoneOK, AfterSetup, AfterOverride, AfterEnv, AfterConfig,
         AfterAbsent, AfterFlush
    <2>3. enabled /\ Current(service)
      BY <1>1, <2>2 DEF Inv, FreshOK
    <2> QED
      BY <1>1, <2>1, <2>2, <2>3 DEF Inv, DoneOK, Current, AfterOverride, AfterEnv, AfterConfig,
         AfterAbsent, AfterFlush
  <1>2. Inv /\ [Next]_vars =>
          [EndsWell /\ ~want.uninstall /\ ~lost =>
             /\ enabled /\ service # None
             /\ <<service.version, want.version>> \in Mentions
             /\ service.env = IF want.custom THEN "custom" ELSE "role"
             /\ service.config = want.config \/ want.custom
             /\ service.override = want.override \/ want.override = None]_vars
    BY <1>1
  <1> QED
    BY <1>2, Invariant, PTL DEF Spec, ServesWhatWasAsked

\* Where a play changed a registered file and ends well, the service stays up
\* with it (the settle check).
THEOREM ChangesGetConfirmed == Spec => ChangesAreConfirmed
  <1>1. ASSUME Inv, [Next]_vars, EndsWell, changed, want.settle PROVE StaysUp
    <2>1. ConfirmRunning
      BY <1>1, EndsAtTheLastTask DEF RemoveDirectories, Inv, ChangedOK, Removing
    <2> QED
      BY <1>1, <2>1 DEF ConfirmRunning, EndsWell, Fails
  <1>2. Inv /\ [Next]_vars => [EndsWell /\ changed /\ want.settle => StaysUp]_vars
    BY <1>1
  <1> QED
    BY <1>2, Invariant, PTL DEF Spec, ChangesAreConfirmed

\* No task touches what the play before left, with the same wish (the
\* comment of deploy.yml: "A converged host restarts nothing").
THEOREM ConvergedIsQuiet == Spec => ConvergedRestartsNothing
  <1>1. ASSUME Inv, converged, PlayStep PROVE UNCHANGED <<disk, systemd, notified>>
    <2> USE <1>1 DEF Goto, Skips, Fails, host, disk, systemd, record
    <2>1. ~notified /\ notified \in BOOLEAN
      BY Zenon DEF Inv, ConvergedOK, TypeOK
    <2>2. CASE Preflight
      BY <2>1, <2>2 DEF Inv, ConvergedOK, Preflight
    <2>3. CASE Setup
      <3>1. Deployed
        BY <2>3 DEF Inv, ConvergedOK, WayOK, Setup, Deployed, Deploying
      <3>2. Skips("override")
        BY <2>3, <3>1, Zenon DEF Setup
      <3> QED
        BY <3>2
    <2>4. CASE TemplateOverride
      <3>1. override = want.override \/ want.override = None
        BY <2>4 DEF Inv, ConvergedOK, WayOK, TemplateOverride, Deploying
      <3> QED
        BY <2>1, <2>4, <3>1 DEF TemplateOverride, Templates
    <2>5. CASE TemplateEnv
      <3>1. env = IF want.custom THEN "custom" ELSE "role"
        BY <2>5 DEF Inv, ConvergedOK, WayOK, TemplateEnv, Deploying
      <3> QED
        BY <2>1, <2>5, <3>1 DEF TemplateEnv, Templates
    <2>6. CASE TemplateConfig \/ ValidateCustom \/ RemoveConfig
      <3>1. config = IF want.custom THEN None ELSE want.config
        BY <2>6 DEF Inv, ConvergedOK, WayOK, TemplateConfig, ValidateCustom, RemoveConfig,
           Deploying
      <3> QED
        BY <2>1, <2>6, <3>1 DEF TemplateConfig, ValidateCustom, RemoveConfig
    <2>7. CASE FlushHandlers
      BY <2>1, <2>7 DEF FlushHandlers
    <2>8. CASE EnsureStarted
      <3>1. service # None
        BY <2>8 DEF Inv, ConvergedOK, WayOK, EnsureStarted, Deploying
      <3> QED
        BY <2>1, <2>8, <3>1 DEF EnsureStarted
    <2>9. CASE VerifyReady \/ ConfirmRunning
      BY <2>1, <2>9 DEF VerifyReady, ConfirmRunning
    <2>10. CASE StopService \/ Purge \/ RemoveDirectories
      <3>1. /\ pkg = 0 /\ env = None /\ config = None /\ override = None
            /\ enabled = FALSE /\ service = None
        BY <2>10 DEF Inv, ConvergedOK, WayOK, TypeOK, StopService, Purge, RemoveDirectories,
           Removing
      <3> QED
        BY <2>1, <2>10, <3>1 DEF StopService, Purge, RemoveDirectories
    <2> QED
      BY <2>2, <2>3, <2>4, <2>5, <2>6, <2>7, <2>8, <2>9, <2>10 DEF PlayStep
  <1>2. Inv /\ [Next]_vars =>
          [converged /\ PlayStep => UNCHANGED <<disk, systemd, notified>>]_vars
    BY <1>1
  <1> QED
    BY <1>2, Invariant, PTL DEF Spec, ConvergedRestartsNothing
=============================================================================
