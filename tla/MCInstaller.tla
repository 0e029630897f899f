---------------------------- MODULE MCInstaller ----------------------------
EXTENDS Installer

MCManagers == <<"gdm", "sddm">>
MCPrograms == {"sudo", "pkexec", "gdm", "sddm", "ufw", "semodule"}
MCEdits == {{}, {"sudo", "polkit", "login", "dialog", "ssh", "stored"}}
=============================================================================
