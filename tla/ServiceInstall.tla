--------------------------- MODULE ServiceInstall ---------------------------
(***************************************************************************)
(* penguind service install, uninstall, start, stop and status, on each of *)
(* the three service managers (bins/penguind/src/service).  An install is  *)
(* several commands, of which any may fail: what was done stays.           *)
(***************************************************************************)
EXTENDS Integers

VARIABLES
    svOs,       \* which service manager
    svFile,     \* the definition is at its path (systemd, launchd)
    svKnown,    \* the service manager has read the definition, or was given it (SCM)
    svEnabled,  \* it starts with the host
    svRunning,
    svDoomed,   \* SCM: marked for deletion, gone when it stops
    svAt,       \* the command under way and its step
    svSaid      \* what the last command printed
serviceVars == <<svOs, svFile, svKnown, svEnabled, svRunning, svDoomed, svAt, svSaid>>

ServiceInit ==
    /\ svOs \in {"linux", "macos", "windows"}
    /\ svFile = FALSE /\ svKnown = FALSE /\ svEnabled = FALSE /\ svRunning = FALSE /\ svDoomed = FALSE
    /\ svAt = "none" /\ svSaid = "nothing"

\* install, then enable, of each host.
Steps(os) == CASE os = "linux" -> <<"write", "reload", "enable", "end">>
               [] os = "macos" -> <<"write", "load", "end">> [] OTHER -> <<"create", "describe", "end">>
StepAfter(step) == LET s == Steps(svOs) IN s[1 + CHOOSE k \in DOMAIN s : s[k] = step]

InstallAt(step) == svAt = step
Advances(step) == svAt' = (IF StepAfter(step) = "end" THEN "none" ELSE StepAfter(step))
                  /\ svSaid' = IF StepAfter(step) = "end" THEN "installed" ELSE svSaid

InstallBegins ==
    /\ svAt = "none" /\ svAt' = Steps(svOs)[1] /\ svSaid' = "nothing"
    /\ UNCHANGED <<svOs, svFile, svKnown, svEnabled, svRunning, svDoomed>>

WriteDefinition ==
    /\ InstallAt("write") /\ svFile' = TRUE /\ Advances("write")
    /\ UNCHANGED <<svOs, svKnown, svEnabled, svRunning, svDoomed>>

DaemonReload ==
    /\ InstallAt("reload") /\ svKnown' = svFile /\ Advances("reload")
    /\ UNCHANGED <<svOs, svFile, svEnabled, svRunning, svDoomed>>

Enable ==
    /\ InstallAt("enable") /\ svFile /\ svEnabled' = TRUE /\ Advances("enable")
    /\ UNCHANGED <<svOs, svFile, svKnown, svRunning, svDoomed>>

\* launchctl load -w reads the definition, enables it and runs what it says.
LoadEnabled ==
    /\ InstallAt("load") /\ svFile /\ Advances("load")
    /\ svKnown' = TRUE /\ svEnabled' = TRUE /\ svRunning' = TRUE
    /\ UNCHANGED <<svOs, svFile, svDoomed>>

\* create_service registers it to start with the host, and refuses a name there is.
CreateService ==
    /\ InstallAt("create") /\ ~svKnown
    /\ svKnown' = TRUE /\ svEnabled' = TRUE /\ Advances("create")
    /\ UNCHANGED <<svOs, svFile, svRunning, svDoomed>>

SetDescription ==
    /\ InstallAt("describe") /\ Advances("describe")
    /\ UNCHANGED <<svOs, svFile, svKnown, svEnabled, svRunning, svDoomed>>

\* A step fails: the command says so, and undoes nothing.
InstallStepFails ==
    /\ svAt # "none" /\ svAt' = "none" /\ svSaid' = "install failed"
    /\ UNCHANGED <<svOs, svFile, svKnown, svEnabled, svRunning, svDoomed>>

----------------------------------------------------------------------------
Single == svAt = "none" /\ UNCHANGED <<svOs, svAt>>

StartService ==
    /\ Single /\ svKnown /\ ~svDoomed /\ svRunning' = TRUE /\ svSaid' = "started"
    /\ UNCHANGED <<svFile, svKnown, svEnabled, svDoomed>>

\* A service that is marked for deletion goes as it stops.
StopService ==
    /\ Single /\ svRunning /\ svRunning' = FALSE /\ svSaid' = "stopped"
    /\ svKnown' = (svKnown /\ ~svDoomed) /\ svEnabled' = (svEnabled /\ ~svDoomed) /\ svDoomed' = FALSE
    /\ UNCHANGED svFile

Uninstalled == FALSE

\* systemd and launchd: disabled or unloaded, and the definition removed; systemd
\* goes on knowing the unit that runs.
UninstallFile ==
    /\ Single /\ svOs # "windows" /\ svFile
    /\ svFile' = FALSE /\ svEnabled' = Uninstalled /\ svSaid' = "uninstalled"
    /\ IF svOs = "macos" THEN svKnown' = FALSE /\ svRunning' = FALSE ELSE UNCHANGED <<svKnown, svRunning>>
    /\ UNCHANGED svDoomed

UninstallService ==
    /\ Single /\ svOs = "windows" /\ svKnown /\ ~svDoomed
    /\ svKnown' = svRunning /\ svDoomed' = svRunning /\ svEnabled' = (svRunning /\ svEnabled)
    /\ svSaid' = "uninstalled" /\ UNCHANGED <<svFile, svRunning>>

ServiceNext ==
    \/ InstallBegins \/ WriteDefinition \/ DaemonReload \/ Enable \/ LoadEnabled \/ CreateService
    \/ SetDescription \/ InstallStepFails \/ StartService \/ StopService \/ UninstallFile \/ UninstallService

ServiceSpec == ServiceInit /\ [][ServiceNext]_serviceVars

----------------------------------------------------------------------------
\* Types; and what starts with the host is defined, on disk or with the SCM,
\* whichever command failed half way.
ServiceTypeOK ==
    /\ svEnabled => svFile \/ (svOs = "windows" /\ svKnown)
    /\ svAt \in {"none", "write", "reload", "enable", "load", "create", "describe"}
    /\ svDoomed => svOs = "windows" /\ svRunning

\* "installed successfully" is true: the service manager knows the definition and
\* starts it with the host.
InstalledMeansEnabled == svSaid = "installed" => svKnown /\ svEnabled
=============================================================================
