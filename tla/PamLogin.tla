------------------------------ MODULE PamLogin ------------------------------
(***************************************************************************)
(* One login through a file of /etc/pam.d: the PAM module                  *)
(* (pam_sm_authenticate), the helper pcbu_auth it runs, and the stack of   *)
(* the file around them.  Everything here is a function of the content of  *)
(* the file, of the state of the two installed files ("none", "old",       *)
(* "torn", "copied": not setuid, "good"), of what UnlockHandler returns    *)
(* and of what the user types.                                             *)
(***************************************************************************)
EXTENDS PamConfig

\* What UnlockHandler::GetResult returns, as far as runMain looks at it: a
\* success with the right password of the user, with another user or with a
\* password CheckLogin refuses, or no success.
UnlockResults == {"SUCCESS", "otherUser", "wrongPassword", "CANCELED", "failed"}

\* Mutant: the password of the answer is not tried.
runMainTrusting(r, setPassword) ==
    CASE r \in {"SUCCESS", "wrongPassword"} -> [exit |-> "0", password |-> setPassword]
      [] r \in {"otherUser", "CANCELED"}    -> [exit |-> "1", password |-> FALSE]
      [] OTHER                              -> [exit |-> "-1", password |-> FALSE]

\* pcbu_auth: its exit code, and whether it writes the password to the pipe.
runMain(r, setPassword) ==
    CASE r = "SUCCESS" -> [exit |-> "0", password |-> setPassword]
      [] r \in {"otherUser", "wrongPassword", "CANCELED"} -> [exit |-> "1", password |-> FALSE]
      [] OTHER -> [exit |-> "-1", password |-> FALSE]

\* What becomes of the helper: it may not start (an exception in the
\* module), die of a signal (whose number is the exit code), fail at
\* setuid(0) when it is not setuid and the caller is not root, or run.
main(exe, r, setPassword) ==
    IF exe \in {"none", "torn"} THEN {[exit |-> "throws", password |-> FALSE]}
    ELSE {[exit |-> x, password |-> FALSE] : x \in {"1", "signal"}}
         \cup (IF exe = "copied" THEN {[exit |-> "-1", password |-> FALSE]} ELSE {})
         \cup {runMain(r, setPassword)}

\* pam_sm_authenticate, once it has asked the helper: what it returns, and
\* whether it sets PAM_AUTHTOK.  With a password it leaves the login to the
\* module that checks it, except on macOS.
Returns(platform, h, hasPipe) ==
    LET password == h.password /\ hasPipe
    IN  [ret |-> CASE h.exit = "0" -> IF password /\ platform # "mac" THEN "IGNORE" ELSE "SUCCESS"
                   [] h.exit = "1" -> "AUTH_ERR"
                   [] OTHER -> "IGNORE",
         authtok |-> password]

\* PAM's answer for a module that cannot be loaded, and the module's own when
\* a password has been typed already or it cannot read the user.
Declines == [ret |-> "IGNORE", authtok |-> FALSE]

\* Every answer of the module in these states of its library and its helper,
\* when the phone verified the user and when it did not.
pam_sm_authenticate(platform, lib, exe) ==
    {[answer |-> Declines, verified |-> v] : v \in BOOLEAN}
    \cup IF lib \in {"none", "torn"} THEN {}
         ELSE UNION {{[answer |-> Returns(platform, h, hasPipe), verified |-> r = "SUCCESS"] :
                         h \in main(exe, r, TRUE) \cup main(exe, r, FALSE), hasPipe \in BOOLEAN} :
                     r \in UnlockResults}

---------------------------------------------------------------------------
(* The stack (Linux-PAM, OpenPAM): "sufficient" ends it on success and is  *)
(* ignored otherwise; "S" checks the typed password and skips one line if  *)
(* it is right; every other line requires a right password, typed or set   *)
(* by the module.                                                          *)

Typed == {"right", "wrong", "empty"}

IsModule(l) == l \in {"E", "EO"}
Asks(l) == l \in {"U", "inc"}

Skipped(c, i, typed) == i > 1 /\ c[i - 1] = "S" /\ typed = "right"

\* A password typed before, at "S", makes the module decline.
Consulted(c, i, typed) ==
    /\ IsModule(c[i]) /\ ~Skipped(c, i, typed)
    /\ ~\E j \in 1..(i - 1) : c[j] = "S" /\ typed # "empty"

\* answer[l] is the module's answer where line l names it.
Authenticates(c, typed, answer) ==
    LET ends(i) == Consulted(c, i, typed) /\ answer[c[i]].ret = "SUCCESS"
        tok(i)  == \E j \in 1..(i - 1) : Consulted(c, j, typed) /\ answer[c[j]].authtok
        asked   == {i \in DOMAIN c : Asks(c[i]) /\ ~Skipped(c, i, typed)}
        passes(i) == typed = "right" \/ tok(i)
    IN  \/ \E i \in DOMAIN c : ends(i) /\ \A j \in asked : j < i => passes(j)
        \/ asked # {} /\ \A i \in asked : passes(i)
=============================================================================
