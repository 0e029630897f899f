----------------------------- MODULE Installer -----------------------------
(***************************************************************************)
(* Installing, reinstalling and uninstalling the modules, and changing the *)
(* service settings, on each platform: AppInstaller, ServiceInstaller,     *)
(* PAMHelper, EnvHelper and AppSettings, started from the desktop          *)
(* application or from the command line.                                   *)
(*                                                                         *)
(* An operation is a list of steps, computed from the platform and the     *)
(* state, and carried out one by one.  A step that goes through Shell may  *)
(* fail (nothing, a part or all of it having been done), the elevator may  *)
(* die, and so may the process, between any two steps.                     *)
(***************************************************************************)
EXTENDS PamLogin, FiniteSets

CONSTANTS Platforms,   \* subset of {"linux", "mac", "windows"}
          Programs,    \* linux: the programs IsProgramInstalled finds
          Managers,    \* the sequence of the login managers, or a part of it
          Edits,       \* bound: the sets of settings that the settings page may have on
          MaxOps,      \* bound: operations
          MaxFaults,   \* bound: failing commands and deaths
          NoConf

ManagerNames == {"gdm", "sddm", "kde", "lightdm", "cinnamon", "hyprlock"}

\* The second fact on Managers follows from the first by an induction.
ASSUME InstallerAssumption ==
    /\ Platforms \subseteq {"linux", "mac", "windows"}
    /\ Managers \in Seq(ManagerNames)
    /\ SelectSeq(Managers, LAMBDA m : m \in Programs) \in Seq(ManagerNames)
    /\ MaxOps \in Nat /\ MaxFaults \in Nat

VARIABLES
    platform,
    art,      \* per artefact: "none", "old", "torn", "copied" (not setuid), "good"
    pam,      \* per PAM file, its content
    lost,     \* the PAM files that a failing write has torn
    ssh,      \* the environment file of the user names the askpass helper
    polkit,   \* the restrictions of polkit-agent-helper: "on", "off", "torn"
    conf,     \* app_settings.json: [version, stored], or NoConf: unreadable
    dir,      \* the data directory in use: "old", "new"
    cache,    \* per process kind, AppSettings::g_Cache or NoConf
    via,      \* who runs the operation: "app", "cli"
    alive,    \* the commands of the application still reach the elevator
    op,       \* the last operation
    result,   \* "none", "running", "ok", "failed", "died",
              \* "unsure": success, but the elevator was lost on the way
    todo,     \* the steps left
    pending,  \* PAMHelper::m_PendingChanges
    before,   \* the features that were on when the operation began
    faulted,  \* something failed in this operation
    streak,   \* operations in a row that failed although nothing had
    ops, faults

sysVars  == <<art, pam, lost, ssh, polkit>>
confVars == <<conf, dir, cache>>
opVars   == <<via, op, before, ops>>
vars == <<platform, sysVars, confVars, opVars, alive, result, todo, pending, faulted, streak, faults>>

---------------------------------------------------------------------------
(* The system the program changes. *)

Artefacts ==
    CASE platform = "linux"   -> {"exe", "pam", "pamOld", "askpass", "cli", "firewall", "policy"}
      [] platform = "mac"     -> {"exe", "pam", "pamOld", "askpass", "bthelper", "agent", "plist", "cli"}
      [] platform = "windows" -> {"lib", "libOld", "regProvider", "regClsid", "firewall"}

ArtStates == {"none", "old", "torn", "copied", "good"}

\* Steps on these only log a failure.
Optional == {"cli", "firewall", "bthelper"}

\* The login managers and their PAM files.
ManagerFile == [gdm |-> "gdm-password", sddm |-> "sddm", kde |-> "kde", lightdm |-> "lightdm",
                cinnamon |-> "cinnamon-screensaver", hyprlock |-> "hyprlock"]

Each(seq, F(_)) == [i \in DOMAIN seq |-> F(seq[i])]
FilesOfManagers(ms) == Each(ms, LAMBDA m : ManagerFile[m])
LoginFiles == ToSet(FilesOfManagers(Managers))
Login == FilesOfManagers(SelectSeq(Managers, LAMBDA m : m \in Programs))

FileList == CASE platform = "linux" -> <<"sudo", "polkit-1">> \o FilesOfManagers(Managers)
              [] platform = "mac"   -> <<"sudo_local", "authorization">>
              [] OTHER              -> <<>>
Files == ToSet(FileList)

Exists(a) == art[a] # "none"

\* ServiceInstaller::IsInstalled: the files exist, whatever is in them.
IsInstalled ==
    IF platform = "windows" THEN Exists("lib") \/ Exists("libOld")
    ELSE Exists("exe") /\ (Exists("pam") \/ Exists("pamOld"))

---------------------------------------------------------------------------
(* AppSettings. *)

Defaults == [version |-> "none", stored |-> FALSE]

\* An unreadable file counts as the defaults.
Load == IF conf = NoConf THEN Defaults ELSE conf
Get == IF cache[via] = NoConf THEN Load ELSE cache[via]

---------------------------------------------------------------------------
(* The service settings.  "stored" stands for those kept in AppSettings.   *)

Settings == {"sudo", "polkit", "login", "dialog", "ssh", "stored"}

HasConfigEntry(f, e) == f \in Files /\ pam[f] # Missing /\ HasEntry(pam[f], e)

\* Files of a setting.
FilesOf(s) == CASE s = "sudo"   -> {"sudo", "sudo_local"} \cap Files
                [] s = "polkit" -> {"polkit-1"} \cap Files
                [] s = "dialog" -> {"authorization"} \cap Files
                [] s = "login"  -> LoginFiles \cap Files
                [] OTHER        -> {}

\* GetSettings: what is on now (every read through the elevator fails once
\* that is lost).
GetSettings(ready, stored) ==
    [s \in Settings |->
        CASE s = "ssh" -> ssh
          [] s = "stored" -> stored
          [] OTHER -> ready /\ \E f \in FilesOf(s) : HasConfigEntry(f, Entry(f))]

\* ... and the defaults.
DefaultSettings ==
    [s \in Settings |->
        CASE s = "sudo" -> platform = "mac" \/ (platform = "linux" /\ "sudo" \in Programs)
          [] s = "polkit" -> platform = "linux" /\ "pkexec" \in Programs
          [] s = "login" -> platform = "linux" /\ Login # <<>>
          [] OTHER -> FALSE]

\* What is on, a legacy entry included.
Features ==
    {s \in {"sudo", "polkit", "login", "dialog"} :
        \E f \in FilesOf(s) : HasConfigEntry(f, Entry(f)) \/ HasConfigEntry(f, OldEntry(f))}
    \cup (IF ssh THEN {"ssh"} ELSE {})

---------------------------------------------------------------------------
(* Steps.  A step that is not strict only logs its failure. *)

S(do, a) == [do |-> do, on |-> a, strict |-> a \notin Optional]
SetEntry(f, e, on) == [do |-> "set", on |-> f, entry |-> e, enabled |-> on]
Migrate(f, old, new) == [do |-> "migrate", on |-> f, old |-> old, new |-> new]
Step(do) == [do |-> do]
Save(field, value) == [do |-> "save", field |-> field, value |-> value]
When(b, steps) == IF b THEN steps ELSE <<>>

\* ServiceInstaller::ApplySettings
ApplyLinux(s) ==
    <<SetEntry("sudo", Entry("sudo"), s["sudo"]),
      SetEntry("polkit-1", Entry("polkit-1"), s["polkit"])>>
    \o Each(Login, LAMBDA f : SetEntry(f, Entry(f), s["login"]))
    \o <<Save("stored", s["stored"]), [do |-> "ssh", enabled |-> s["ssh"]], Step("commit")>>

ApplyMac(s) ==
    <<Save("stored", s["stored"]),
      SetEntry("sudo_local", Entry("sudo_local"), s["sudo"]),
      SetEntry("authorization", Entry("authorization"), s["dialog"]),
      [do |-> "ssh", enabled |-> s["ssh"]], Step("commit")>>

ApplyWin(s) == <<Save("stored", s["stored"])>>

ApplySettings(s) ==
    CASE platform = "linux" -> ApplyLinux(s)
      [] platform = "mac" -> ApplyMac(s)
      [] platform = "windows" -> ApplyWin(s)

InstallLinux ==
    <<S("write", "exe"), S("setuid", "exe"), S("write", "pam"), S("drop", "pamOld"),
      S("write", "askpass"), S("setuid", "askpass"), S("copy", "cli")>>
    \o Each(FileList, LAMBDA f : Migrate(f, OldEntry(f), Entry(f)))
    \o <<Migrate("sddm", <<"EO">>, <<"E">>), Step("commit")>>
    \o When("ufw" \in Programs, <<S("copy", "firewall")>>)
    \o When("semodule" \in Programs, <<S("copy", "policy")>>)

\* SSH_MODULE_FILE_OLD is SSH_MODULE_FILE: the helper just copied is dropped.
InstallMac ==
    <<S("write", "exe"), S("setuid", "exe"), S("write", "pam"),
      S("write", "askpass"), S("setuid", "askpass"), S("drop", "askpass"),
      Step("register"), S("drop", "agent"), S("write", "agent"), S("write", "plist"),
      S("copy", "cli"), Migrate("authorization", <<"EO">>, <<"E">>), Step("commit"),
      S("drop", "pamOld")>>

InstallWin ==
    <<S("write", "lib"), S("drop", "libOld"), S("write", "regProvider"), S("write", "regClsid"),
      Step("purge"), S("copy", "firewall")>>

Install ==
    CASE platform = "linux" -> InstallLinux
      [] platform = "mac" -> InstallMac
      [] platform = "windows" -> InstallWin

RemoveEach(l) == Each(FileList, LAMBDA f : SetEntry(f, <<l>>, FALSE))

\* Mutant: the plain entries go before the ones of SDDM.
RemoveEntriesPlainFirst ==
    RemoveEach("E") \o RemoveEach("EO")
    \o When(platform = "linux",
            <<SetEntry("sddm", <<"S", "E">>, FALSE), SetEntry("sddm", <<"S", "EO">>, FALSE)>>)

\* The two-line entries of SDDM first.
RemoveEntries ==
    When(platform = "linux",
         <<SetEntry("sddm", <<"S", "E">>, FALSE), SetEntry("sddm", <<"S", "EO">>, FALSE)>>)
    \o RemoveEach("E") \o RemoveEach("EO")

UninstallLinux(full) ==
    <<S("drop", "exe"), S("drop", "pam"), S("drop", "pamOld"), S("drop", "askpass")>>
    \o When(full, RemoveEntries \o <<Step("commit"), [do |-> "ssh", enabled |-> FALSE]>>)
    \o When("ufw" \in Programs, <<S("drop", "firewall")>>)
    \o When("semodule" \in Programs, <<S("unset", "policy")>>)
    \o When(full, <<S("drop", "cli")>>)

\* Mutant: the module of the old name is forgotten.
UninstallMacKeepsOld(full) ==
    When(full, RemoveEntries \o <<Step("commit")>>)
    \o <<S("drop", "exe"), S("drop", "pam"), S("drop", "askpass")>>
    \o When(full, <<[do |-> "ssh", enabled |-> FALSE]>>)
    \o <<Step("unregister"), S("drop", "plist"), S("drop", "agent")>>
    \o When(full, <<S("drop", "cli")>>)

UninstallMac(full) ==
    When(full, RemoveEntries \o <<Step("commit")>>)
    \o <<S("drop", "exe"), S("drop", "pam"), S("drop", "pamOld"), S("drop", "askpass")>>
    \o When(full, <<[do |-> "ssh", enabled |-> FALSE]>>)
    \o <<Step("unregister"), S("drop", "plist"), S("drop", "agent")>>
    \o When(full, <<S("drop", "cli")>>)

\* Mutant: the registry goes before the library.
UninstallWinRegistryFirst ==
    <<S("unset", "regProvider"), S("unset", "regClsid"), S("drop", "lib"), S("drop", "libOld"),
      S("drop", "firewall")>>

UninstallWin ==
    <<S("drop", "lib"), S("drop", "libOld"), S("unset", "regProvider"), S("unset", "regClsid"),
      S("drop", "firewall")>>

Uninstall(full) ==
    CASE platform = "linux" -> UninstallLinux(full)
      [] platform = "mac" -> UninstallMac(full)
      [] platform = "windows" -> UninstallWin

\* AppInstaller
AppInstall   == <<Step("movedir")>> \o Install
                \o <<[do |-> "apply", default |-> TRUE], Save("version", "check")>>
AppUninstall == <<Step("movedir")>> \o Uninstall(TRUE) \o <<Save("version", "check")>>
AppReinstall == When(IsInstalled, Uninstall(FALSE)) \o Install
                \o <<[do |-> "apply", default |-> FALSE], Step("movedir"), Save("version", "current")>>

---------------------------------------------------------------------------
(* Starting an operation. *)

Fresh(f) == IF f \in {"gdm-password"} THEN <<"U">>
            ELSE IF f \in {"sudo", "sddm", "authorization"} THEN <<"hdr", "U">> ELSE Missing

Legacy(f) == CASE f \in {"sudo", "authorization"} -> <<"hdr", "EO", "U">>
               [] f = "sddm"     -> <<"hdr", "S", "EO", "U">>
               [] f = "polkit-1" -> <<"hdr", "EO", "genOld", "inc">>
               [] OTHER          -> Fresh(f)

\* A system without the program, or with the version of the old name.
Init ==
    /\ platform \in Platforms
    /\ \E legacy \in BOOLEAN :
          /\ art = [a \in Artefacts |->
                       IF legacy /\ a \in {"exe", "pamOld", "libOld", "regProvider", "regClsid"}
                       THEN "old" ELSE "none"]
          /\ pam = [f \in Files |-> IF legacy THEN Legacy(f) ELSE Fresh(f)]
          /\ polkit = IF legacy THEN "off" ELSE "on"
          /\ conf = IF legacy THEN [Defaults EXCEPT !.version = "old"] ELSE Defaults
          /\ dir = IF legacy THEN "old" ELSE "new"
          /\ ssh \in {FALSE, legacy /\ platform # "windows"}
    /\ lost = {} /\ cache = [p \in {"app", "cli"} |-> NoConf]
    /\ via = "app" /\ alive = TRUE /\ op = "none" /\ result = "none" /\ todo = <<>>
    /\ pending = <<>> /\ before = {} /\ faulted = FALSE /\ streak = 0 /\ ops = 0 /\ faults = 0

Running == result = "running"

\* Every operation has a ServiceInstaller and a PAMHelper of its own; it runs
\* in a new process or in that of the application.
Begin(v, new, o, steps) ==
    /\ ~Running /\ ops < MaxOps
    /\ new \/ alive
    /\ via' = v /\ op' = o /\ result' = "running" /\ todo' = steps
    /\ pending' = <<>> /\ before' = Features /\ faulted' = FALSE /\ ops' = ops + 1
    /\ cache' = IF new THEN [cache EXCEPT ![v] = NoConf] ELSE cache
    /\ alive' = (alive \/ (new /\ v = "app"))
    /\ UNCHANGED <<platform, sysVars, conf, dir, streak, faults>>

\* The application's one button installs or uninstalls.
OnInstallClicked ==
    IF IsInstalled THEN Begin("app", FALSE, "uninstall", AppUninstall)
                   ELSE Begin("app", FALSE, "install", AppInstall)

\* The other is enabled when the program is installed.
OnReinstallClicked == IsInstalled /\ Begin("app", FALSE, "reinstall", AppReinstall)

\* The page's settings were read when it was opened and edited since.
OnSaveSettingsClicked ==
    /\ IsInstalled
    /\ \E on \in Edits : Begin("app", FALSE, "settings", ApplySettings([s \in Settings |-> s \in on]))

\* The command line; on mac it cannot install.
InstallCommand   == platform # "mac" /\ ~IsInstalled /\ Begin("cli", TRUE, "install", AppInstall)
ReinstallCommand == platform # "mac" /\ IsInstalled /\ Begin("cli", TRUE, "reinstall", AppReinstall)
UninstallCommand == IsInstalled /\ Begin("cli", TRUE, "uninstall", AppUninstall)

\* One setting is changed, the others are applied as they were read.
ServiceSetCommand ==
    LET now == GetSettings(TRUE, Load.stored)
    IN  \E x \in Settings :
            /\ x = "stored" \/ (x = "ssh" /\ platform # "windows") \/ FilesOf(x) # {}
            /\ Begin("cli", TRUE, "settings", ApplySettings([now EXCEPT ![x] = ~@]))

\* StartupChecks: what another version has installed, or a failure left
\* without a version, is reinstalled at once.
NeedsReinstall == IsInstalled /\ Load.version # "current"

Restart ==
    IF NeedsReinstall THEN Begin("app", TRUE, "reinstall", AppReinstall)
    ELSE /\ ~Running
         /\ alive' = TRUE /\ cache' = [cache EXCEPT !["app"] = NoConf]
         /\ UNCHANGED <<platform, sysVars, conf, dir, opVars, result, todo, pending, faulted, streak, faults>>

---------------------------------------------------------------------------
(* How a step ends. *)

Next1 == Head(todo)
Does(do) == Running /\ todo # <<>> /\ Next1.do = do

Proceed(next) == todo' = next /\ UNCHANGED <<result, streak>>

\* An exception ends the operation; the settings it has made stay.
Throw(afterFault) ==
    /\ result' = "failed" /\ todo' = <<>>
    /\ streak' = IF afterFault THEN 0 ELSE streak + 1

\* A command with effect eff: it succeeds, fails with any effect, or, when
\* the elevator is gone, fails without one.
Command(ready, strict, eff, next) ==
    \/ ready /\ eff = "done" /\ Proceed(next) /\ UNCHANGED <<faulted, faults>>
    \/ /\ ready /\ faults < MaxFaults
       /\ faults' = faults + 1 /\ faulted' = TRUE
       /\ IF strict THEN Throw(TRUE) ELSE Proceed(next)
    \/ /\ ~ready /\ eff = "none" /\ UNCHANGED <<faulted, faults>>
       /\ IF strict THEN Throw(faulted) ELSE Proceed(next)

\* Through Shell: the application needs the elevator, a command line does not.
Ready == via = "cli" \/ alive

After(eff, new, old) == IF eff = "done" THEN new ELSE IF eff = "none" THEN old ELSE "torn"

NeedsSetuid == {"exe", "askpass"}

\* Shell::WriteBytes truncates and writes.
WriteFile ==
    /\ Does("write")
    /\ \E eff \in {"done", "none", "torn"} :
          /\ Command(Ready, Next1.strict, eff, Tail(todo))
          /\ art' = [art EXCEPT ![Next1.on] =
                        After(eff, IF Next1.on \in NeedsSetuid THEN "copied" ELSE "good", @)]
    /\ UNCHANGED <<platform, pam, lost, ssh, polkit, confVars, opVars, alive, pending>>

\* chmod; a staged copy that is moved into place; a command that installs.
SetInPlace ==
    /\ Does("setuid") \/ Does("copy")
    /\ \E eff \in {"done", "none"} :
          /\ Command(Ready, Next1.strict, eff, Tail(todo))
          /\ art' = [art EXCEPT ![Next1.on] = After(eff, "good", @)]
    /\ UNCHANGED <<platform, pam, lost, ssh, polkit, confVars, opVars, alive, pending>>

\* Shell::Remove of what exists; a directory may be left in part.
DropFile ==
    /\ Does("drop")
    /\ IF ~Exists(Next1.on)
       THEN Proceed(Tail(todo)) /\ UNCHANGED <<art, faulted, faults>>
       ELSE \E eff \in {"done", "none"} \cup (IF Next1.on = "agent" THEN {"torn"} ELSE {}) :
               /\ Command(Ready, Next1.strict, eff, Tail(todo))
               /\ art' = [art EXCEPT ![Next1.on] = After(eff, "none", @)]
    /\ UNCHANGED <<platform, pam, lost, ssh, polkit, confVars, opVars, alive, pending>>

\* semodule -r and reg delete fail when there is nothing to remove.
Unset ==
    /\ Does("unset")
    /\ IF Ready /\ ~Exists(Next1.on)
       THEN Throw(faulted) /\ UNCHANGED <<art, faulted, faults>>
       ELSE \E eff \in {"done", "none"} :
               /\ Command(Ready, TRUE, eff, Tail(todo))
               /\ art' = [art EXCEPT ![Next1.on] = After(eff, "none", @)]
    /\ UNCHANGED <<platform, pam, lost, ssh, polkit, confVars, opVars, alive, pending>>

\* BTHelperService: the system may refuse, which is logged.
RegisterHelper ==
    /\ Does("register") \/ Does("unregister")
    /\ art' \in {art, [art EXCEPT !["bthelper"] = IF Next1.do = "register" THEN "good" ELSE "none"]}
    /\ Proceed(Tail(todo))
    /\ UNCHANGED <<platform, pam, lost, ssh, polkit, confVars, opVars, alive, pending, faulted, faults>>

\* WinFirewallHelper: the rules of the program go before the new one is
\* added; any of its calls may fail, which nobody looks at.
RemoveAllRulesForProgram ==
    /\ Does("purge")
    /\ art' \in {art, [art EXCEPT !["firewall"] = "none"]}
    /\ Proceed(Tail(todo))
    /\ UNCHANGED <<platform, pam, lost, ssh, polkit, confVars, opVars, alive, pending, faulted, faults>>

---------------------------------------------------------------------------
(* PAMHelper: edits are gathered, then committed. *)

ConfigExists(f) == IF f \in DOMAIN pending THEN pending[f] # Missing ELSE pam[f] # Missing

\* A read that fails gives an empty text.
ReadFile(f) == IF Ready THEN pam[f] ELSE <<>>

ReadConfig(f) ==
    IF f \in DOMAIN pending THEN IF pending[f] = Missing THEN <<>> ELSE pending[f] ELSE ReadFile(f)

Pend(f, c) == pending' = [x \in DOMAIN pending \cup {f} |-> IF x = f THEN c ELSE pending[x]]

\* SetPolkitRestrictions: at once; a failure is only logged.
SetPolkitRestrictions(on) ==
    \E eff \in {"done", "none", "torn"} :
        /\ Command(Ready, FALSE, eff, Tail(todo))
        /\ polkit' = After(eff, on, polkit)

SetConfigEntry ==
    /\ Does("set")
    /\ LET f == Next1.on
           has == ConfigExists(f) /\ HasEntry(ReadConfig(f), Next1.entry)
       IN  IF Next1.enabled = has
           THEN Proceed(Tail(todo)) /\ UNCHANGED <<pending, polkit, faulted, faults>>
           ELSE /\ Pend(f, IF ~Next1.enabled THEN RemoveFrom(platform, ReadConfig(f), Next1.entry)
                           ELSE IF ConfigExists(f) THEN AddEntry(ReadConfig(f), Next1.entry)
                           ELSE Generated(platform, Next1.entry))
                /\ IF f = "polkit-1"
                   THEN SetPolkitRestrictions(IF Next1.enabled THEN "off" ELSE "on")
                   ELSE Proceed(Tail(todo)) /\ UNCHANGED <<polkit, faulted, faults>>
    /\ UNCHANGED <<platform, art, pam, lost, ssh, confVars, opVars, alive>>

\* Mutant: the legacy entry is left.
MigrateConfigEntryNever ==
    /\ Does("migrate")
    /\ Proceed(Tail(todo))
    /\ UNCHANGED <<platform, sysVars, confVars, opVars, alive, pending, faulted, faults>>

MigrateConfigEntry ==
    /\ Does("migrate")
    /\ LET f == Next1.on
           c == Migrated(ReadConfig(f), Next1.old, Next1.new)
       IN  IF ConfigExists(f) /\ c # ReadConfig(f) THEN Pend(f, c) ELSE UNCHANGED pending
    /\ Proceed(Tail(todo))
    /\ UNCHANGED <<platform, sysVars, confVars, opVars, alive, faulted, faults>>

\* Commit: only what differs from the files is written.
Commit ==
    /\ Does("commit")
    /\ LET changed == {f \in DOMAIN pending :
                          IF pending[f] = Missing \/ pam[f] = Missing
                          THEN pending[f] # pam[f] ELSE pending[f] # ReadFile(f)}
       IN  Proceed(<<[do |-> "update", to |-> [f \in changed |-> pending[f]]]>> \o Tail(todo))
    /\ pending' = <<>>
    /\ UNCHANGED <<platform, sysVars, confVars, opVars, alive, faulted, faults>>

WithTerminal == platform = "mac" /\ via = "app"

\* File by file; the first that fails ends it.
CommitFile ==
    /\ Does("update") /\ ~WithTerminal
    /\ IF DOMAIN Next1.to = {}
       THEN Proceed(Tail(todo)) /\ UNCHANGED <<pam, lost, faulted, faults>>
       ELSE \E f \in DOMAIN Next1.to, eff \in {"done", "none", "torn"} :
               /\ Command(Ready, TRUE, eff,
                          <<[do |-> "update", to |-> Restrict(Next1.to, DOMAIN Next1.to \ {f})]>> \o Tail(todo))
               /\ eff = "torn" => Next1.to[f] # Missing
               /\ pam' = [pam EXCEPT ![f] = IF eff = "torn" THEN <<>> ELSE After(eff, Next1.to[f], @)]
               /\ lost' = IF eff = "torn" THEN lost \cup {f} ELSE lost
    /\ UNCHANGED <<platform, art, ssh, polkit, confVars, opVars, alive, pending>>

\* The files are staged and a script in the Terminal moves them into place
\* one by one.  The user may refuse, a step may fail, or no answer comes in
\* time; what was done is verified.
CommitWithTerminal ==
    /\ Does("update") /\ WithTerminal
    /\ \/ /\ DOMAIN Next1.to = {} /\ Proceed(Tail(todo)) /\ UNCHANGED <<pam, faulted, faults>>
       \/ /\ DOMAIN Next1.to # {}
          /\ \E fs \in SUBSET DOMAIN Next1.to :
                /\ Command(Ready, TRUE, IF fs = DOMAIN Next1.to THEN "done"
                                        ELSE IF fs = {} THEN "none" ELSE "torn", Tail(todo))
                /\ pam' = [f \in Files |-> IF f \in fs THEN Next1.to[f] ELSE pam[f]]
    /\ UNCHANGED <<platform, art, lost, ssh, polkit, confVars, opVars, alive, pending>>

---------------------------------------------------------------------------
(* EnvHelper, AppSettings and the rest of an operation. *)

\* SetSshEnabled works on the user's own file, without the elevator; it
\* refuses a home it cannot find or a link below it, even with nothing to do.
SetSshEnabled ==
    /\ Does("ssh")
    /\ \E eff \in {"done", "none", "torn"} :
          /\ ssh = Next1.enabled => eff = "done"
          /\ Command(TRUE, TRUE, eff, Tail(todo))
          /\ ssh' = IF eff = "none" THEN ssh ELSE Next1.enabled /\ eff = "done"
    /\ UNCHANGED <<platform, art, pam, lost, polkit, confVars, opVars, alive, pending>>

\* AppSettings::Save: the cache changes even when the file does not.
SaveSettings ==
    /\ Does("save")
    /\ LET value == IF Next1.field = "stored" \/ Next1.value # "check" THEN Next1.value
                    ELSE IF IsInstalled THEN "current" ELSE "none"
           new == [Get EXCEPT ![Next1.field] = value]
       IN  \E eff \in {"done", "none", "torn"} :
               /\ Command(Ready, FALSE, eff, Tail(todo))
               /\ conf' = IF eff = "torn" THEN NoConf ELSE After(eff, new, conf)
               /\ cache' = [cache EXCEPT ![via] = new]
    /\ UNCHANGED <<platform, sysVars, dir, opVars, alive, pending>>

\* AppInstaller::Migrate: a failure clears the version and is swallowed.
MigrateBaseDir ==
    /\ Does("movedir")
    /\ IF dir = "new"
       THEN Proceed(Tail(todo)) /\ UNCHANGED <<dir, faulted, faults>>
       ELSE \E eff \in {"done", "none"} :
               /\ dir' = IF eff = "done" THEN "new" ELSE dir
               /\ Command(Ready, FALSE, eff, When(eff = "none", <<Save("version", "none")>>) \o Tail(todo))
    /\ UNCHANGED <<platform, sysVars, conf, cache, opVars, alive, pending>>

\* ApplySettings with what GetSettings has just returned.
ApplyCurrent ==
    /\ Does("apply")
    /\ Proceed(ApplySettings(IF Next1.default THEN DefaultSettings
                              ELSE GetSettings(Ready, Get.stored)) \o Tail(todo))
    /\ UNCHANGED <<platform, sysVars, confVars, opVars, alive, pending, faulted, faults>>

\* Success is shown; a lost elevator is shown as well.
Finish ==
    /\ Running /\ todo = <<>>
    /\ result' = (IF via = "app" /\ ~alive THEN "unsure" ELSE "ok") /\ streak' = 0
    /\ UNCHANGED <<platform, sysVars, confVars, opVars, alive, todo, pending, faulted, faults>>

\* The elevator dies: nothing the application asks for is done any more.
ElevatorDies ==
    /\ Running /\ via = "app" /\ alive /\ faults < MaxFaults
    /\ alive' = FALSE /\ faults' = faults + 1 /\ faulted' = TRUE
    /\ UNCHANGED <<platform, sysVars, confVars, opVars, result, todo, pending, streak>>

\* The process dies; one that dies inside a command leaves what a failure of
\* the command leaves.
ProcessDies ==
    /\ Running /\ faults < MaxFaults
    /\ result' = "died" /\ todo' = <<>> /\ faults' = faults + 1 /\ faulted' = TRUE /\ streak' = 0
    /\ cache' = [cache EXCEPT ![via] = NoConf]
    /\ alive' = (via = "app" \/ alive)
    /\ UNCHANGED <<platform, sysVars, conf, dir, opVars, pending>>

Next ==
    \/ OnInstallClicked \/ OnReinstallClicked \/ OnSaveSettingsClicked
    \/ InstallCommand \/ ReinstallCommand \/ UninstallCommand \/ ServiceSetCommand \/ Restart
    \/ WriteFile \/ SetInPlace \/ DropFile \/ Unset \/ RegisterHelper \/ RemoveAllRulesForProgram
    \/ SetConfigEntry \/ MigrateConfigEntry \/ Commit \/ CommitFile \/ CommitWithTerminal
    \/ SetSshEnabled \/ SaveSettings \/ MigrateBaseDir \/ ApplyCurrent \/ Finish
    \/ ElevatorDies \/ ProcessDies

Spec == Init /\ [][Next]_vars

---------------------------------------------------------------------------
(* Properties. *)

TypeOK ==
    /\ platform \in Platforms
    /\ art \in [Artefacts -> ArtStates]
    /\ \A f \in Files : pam[f] = Missing \/ pam[f] \in Seq(Lines)
    /\ lost \subseteq Files /\ ssh \in BOOLEAN /\ polkit \in {"on", "off", "torn"}
    /\ result \in {"none", "running", "ok", "unsure", "failed", "died"}
    /\ streak \in Nat /\ ops \in 0..MaxOps /\ faults \in 0..MaxFaults

ModulesGone == (\A a \in Artefacts \ Optional : art[a] = "none") /\ ~ssh

\* "Remove the modules, their configuration": after an uninstall that reports
\* success no module is left and ssh no longer asks the helper, whatever
\* version was installed and whatever earlier operations left behind
\* (ServiceInstaller.Linux.cpp, .Mac.cpp, .Win.cpp Uninstall).
UninstallRemovesModules == op = "uninstall" /\ result = "ok" => ModulesGone

\* What an operation reports as done is done to the settings.  "Remove the
\* modules, their configuration": after an uninstall, with the elevator still
\* there, no PAM file names a module, of whatever version its entry was
\* (PAMHelper::SetConfigEntry, RemoveFromConfig).  "Reinstall the modules,
\* keeping the settings": after a reinstall each feature works that was on
\* before, from a legacy installation too, and no other (AppInstaller::Reinstall,
\* the migrations of ServiceInstaller::Install and PAMHelper::MigrateConfigEntry).
ReportedSettingsHold ==
    result = "ok" =>
        /\ op = "uninstall" =>
             \A f \in Files : pam[f] # Missing => ToSet(pam[f]) \cap OwnLines = {}
        /\ op = "reinstall" =>
             {s \in Settings \ {"stored"} : GetSettings(TRUE, FALSE)[s]} = before

\* Whatever state failures and deaths have left, of two operations in a row
\* that meet no failure themselves one succeeds: a half-done installation can
\* be repaired (the strict `semodule -r` and `reg delete` fail when there is
\* nothing to remove, but only after the files IsInstalled looks at are gone).
TwoTriesRecover == streak < 2

\* The inductive form of TwoTriesRecover.  The steps that may fail without a
\* fault are the "unset" ones; in front of such a step nothing is installed
\* and every file that IsInstalled looks at and that is still there is
\* dropped first, so that the next operation finds nothing to uninstall.
Core == IF platform = "windows" THEN {"lib", "libOld"} ELSE {"exe", "pam", "pamOld"}
Standing == {a \in Core : Exists(a)}

IsSeq(p) == p \in Seq(ToSet(p))
Puts == {"write", "setuid", "copy"}
NoUnset(p) == \A i \in DOMAIN p : p[i].do # "unset"
Guarded(p, standing) ==
    \A i \in DOMAIN p : p[i].do = "unset" =>
        /\ \A j \in 1..(i - 1) : p[j].do \notin Puts
        /\ \A a \in standing : \E j \in 1..(i - 1) : p[j] = S("drop", a)

RecoverInv ==
    /\ platform \in Platforms
    /\ art \in [Artefacts -> ArtStates]
    /\ streak \in {0, 1}
    /\ Running => /\ IsSeq(todo) /\ Guarded(todo, Standing)
                  /\ ~Ready => faulted
                  /\ streak = 1 => NoUnset(todo)
    /\ ~Running /\ streak = 1 => ~IsInstalled

\* The inductive form of UninstallRemovesModules: what is left of an uninstall
\* removes every module that is still there and puts nothing back; without
\* semodule no policy is ever installed, and windows has no helper of ssh.
Allowed(s) ==
    /\ s.do \in Puts /\ "semodule" \notin Programs => s.on # "policy"
    /\ platform = "windows" => s.do # "ssh"

Undoing(s) == s.do \notin Puts \cup {"apply"} /\ (s.do = "ssh" => s.enabled = FALSE)

Undoes(steps) ==
    /\ \A s \in steps : Undoing(s)
    /\ \A a \in Artefacts \ Optional : Exists(a) => {S("drop", a), S("unset", a)} \cap steps # {}
    /\ ssh => \E s \in steps : s.do = "ssh"

RemoveInv ==
    /\ platform \in Platforms
    /\ art \in [Artefacts -> ArtStates]
    /\ platform = "linux" /\ "semodule" \notin Programs => ~Exists("policy")
    /\ platform = "windows" => ~ssh
    /\ Running => IsSeq(todo) /\ \A s \in ToSet(todo) : Allowed(s)
    /\ op = "uninstall" /\ Running => Undoes(ToSet(todo))
    /\ op = "uninstall" /\ result = "ok" => ModulesGone

\* The lines of a login through f: on mac sudo_local comes before sudo's own.
Stack(f) == IF pam[f] = Missing THEN <<"U">>
            ELSE IF f = "sudo_local" THEN pam[f] \o <<"U">> ELSE pam[f]

LoginReads == IF Files = {} THEN <<>> ELSE <<pam, art["pam"], art["pamOld"], art["exe"]>>

\* Today's module and the legacy one run the same helper.
LoginSafe ==
    LET new == pam_sm_authenticate(platform, art["pam"], art["exe"])
        old == pam_sm_authenticate(platform, art["pamOld"], art["exe"])
    IN  \A e \in new, o \in old : e.verified = o.verified =>
            \A f \in Files \ lost, typed \in Typed :
                LET in == Authenticates(Stack(f), typed, [E |-> e.answer, EO |-> o.answer])
                IN  /\ typed = "right" => in
                    /\ in => typed = "right" \/ e.verified

\* Half-installed, half-removed or whole, through every file whose own write
\* did not fail: the right password logs in whatever the module, its helper
\* and the phone do, and nothing else does but an answer of the phone with
\* the right password of that user (the PAM entries of
\* ServiceInstaller.Linux.cpp:17-23 between the lines of the administrator,
\* pam_sm_authenticate, pcbu_auth's runMain).  Only a change of what a
\* login reads can break it.
LoginStaysSafe == [][LoginReads' # LoginReads => LoginSafe']_vars
=============================================================================
