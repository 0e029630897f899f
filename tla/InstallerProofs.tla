--------------------------- MODULE InstallerProofs ---------------------------
(***************************************************************************)
(* Installer, for any settings, display managers and number of failures.   *)
(*                                                                         *)
(* TwoTriesRecover: an operation that failed can be undone by an uninstall *)
(* or repeated, because a step that fails on what is already gone comes    *)
(* only after everything IsInstalled looks at (RecoverInv).                *)
(*                                                                         *)
(* UninstallRemovesModules: what is left of an uninstall removes each      *)
(* module that still stands (RemoveInv).                                   *)
(*                                                                         *)
(* An operation is a list of steps that is computed when it starts.  The   *)
(* first part says how such lists are put together, the second what each   *)
(* platform's lists hold, the third follows them step by step.             *)
(***************************************************************************)
EXTENDS Installer, SequenceTheorems, TLAPS

(* Lists of steps: what IsSeq says of indices, and how lists are put together. *)
LEMMA AnySeq ==
    ASSUME NEW T, NEW p \in Seq(T)
    PROVE  IsSeq(p)
<1>1. \A i \in 1..Len(p) : p[i] \in ToSet(p)
  BY DEF ToSet
<1> QED BY <1>1 DEF IsSeq

LEMMA SeqIndices ==
    ASSUME NEW p, IsSeq(p)
    PROVE  Len(p) \in Nat /\ DOMAIN p = 1..Len(p)
BY DEF IsSeq

LEMMA Joined ==
    ASSUME NEW p, NEW q, IsSeq(p), IsSeq(q)
    PROVE  /\ IsSeq(p \o q)
           /\ Len(p \o q) = Len(p) + Len(q)
           /\ \A i \in 1..Len(p) : (p \o q)[i] = p[i]
           /\ \A i \in DOMAIN (p \o q) : i > Len(p) => (i - Len(p)) \in DOMAIN q /\ (p \o q)[i] = q[i - Len(p)]
           /\ \A i \in DOMAIN q : i + Len(p) \in DOMAIN (p \o q) /\ (p \o q)[i + Len(p)] = q[i]
<1> DEFINE T == ToSet(p) \cup ToSet(q)
<1>1. p \in Seq(T) /\ q \in Seq(T)
  BY DEF IsSeq
<1> HIDE DEF T
<1>2. p \o q \in Seq(T)
  BY <1>1
<1>3. IsSeq(p \o q)
  BY <1>2, AnySeq
<1> QED BY <1>1, <1>2, <1>3

LEMMA Rest ==
    ASSUME NEW p, IsSeq(p), p # <<>>
    PROVE  /\ IsSeq(Tail(p)) /\ 1 \in DOMAIN p /\ Head(p) = p[1]
           /\ \A i \in DOMAIN Tail(p) : i + 1 \in DOMAIN p /\ Tail(p)[i] = p[i + 1]
<1>1. Tail(p) \in Seq(ToSet(p)) /\ Len(p) \in Nat /\ Len(p) > 0
  BY DEF IsSeq
<1>2. IsSeq(Tail(p))
  BY <1>1, AnySeq
<1> QED BY <1>1, <1>2 DEF IsSeq

LEMMA EmptySteps == IsSeq(<<>>) /\ NoUnset(<<>>) /\ \A A : Guarded(<<>>, A)
<1>1. IsSeq(<<>>)
  BY DEF IsSeq
<1> QED BY <1>1 DEF NoUnset, Guarded

LEMMA OneStep ==
    ASSUME NEW s
    PROVE  IsSeq(<<s>>) /\ DOMAIN <<s>> = {1} /\ <<s>>[1] = s /\ Len(<<s>>) = 1
<1>1. <<s>> \in Seq({s})
  OBVIOUS
<1>2. IsSeq(<<s>>)
  BY <1>1, AnySeq
<1>3. DOMAIN <<s>> = {1} /\ <<s>>[1] = s /\ Len(<<s>>) = 1
  OBVIOUS
<1> QED BY <1>2, <1>3

(* A list of steps none of which is "unset", or installs anything. *)
NoPut(p) == \A i \in DOMAIN p : p[i].do \notin Puts
Harmless(p) == IsSeq(p) /\ NoUnset(p)
Passive(p) == IsSeq(p) /\ NoUnset(p) /\ NoPut(p)

LEMMA HarmlessJoined ==
    ASSUME NEW p, NEW q, Harmless(p), Harmless(q)
    PROVE  Harmless(p \o q)
<1>1. IsSeq(p) /\ IsSeq(q)
  BY DEF Harmless
<1>2. \A i \in DOMAIN (p \o q) : (p \o q)[i].do # "unset"
  <2> TAKE i \in DOMAIN (p \o q)
  <2>1. CASE i > Len(p)
    BY <1>1, <2>1, Joined DEF Harmless, NoUnset
  <2>2. CASE ~(i > Len(p))
    BY <1>1, <2>2, Joined, SeqIndices DEF Harmless, NoUnset
  <2> QED BY <2>1, <2>2
<1> QED BY <1>1, <1>2, Joined DEF Harmless, NoUnset

LEMMA PassiveJoined ==
    ASSUME NEW p, NEW q, Passive(p), Passive(q)
    PROVE  Passive(p \o q)
<1>1. IsSeq(p) /\ IsSeq(q) /\ Harmless(p) /\ Harmless(q)
  BY DEF Passive, Harmless
<1>2. \A i \in DOMAIN (p \o q) : (p \o q)[i].do \notin Puts
  <2> TAKE i \in DOMAIN (p \o q)
  <2>1. CASE i > Len(p)
    BY <1>1, <2>1, Joined DEF Passive, NoPut
  <2>2. CASE ~(i > Len(p))
    BY <1>1, <2>2, Joined, SeqIndices DEF Passive, NoPut
  <2> QED BY <2>1, <2>2
<1> QED BY <1>1, <1>2, HarmlessJoined DEF Passive, NoPut, Harmless

LEMMA PassiveOne ==
    ASSUME NEW s, s.do \notin Puts, s.do # "unset"
    PROVE  Passive(<<s>>) /\ Harmless(<<s>>)
BY OneStep DEF Passive, Harmless, NoUnset, NoPut

(* Steps without "unset" after a guarded list, and steps that install nothing *)
(* before one, keep it guarded; dropping what stands guards a list.           *)
LEMMA GuardedThen ==
    ASSUME NEW p, NEW q, NEW A, IsSeq(p), Guarded(p, A), Harmless(q)
    PROVE  IsSeq(p \o q) /\ Guarded(p \o q, A)
<1>0. IsSeq(q) /\ IsSeq(p \o q)
  BY Joined DEF Harmless
<1>1. SUFFICES ASSUME NEW i \in DOMAIN (p \o q), (p \o q)[i].do = "unset"
               PROVE  /\ \A j \in 1..(i - 1) : (p \o q)[j].do \notin Puts
                      /\ \A a \in A : \E j \in 1..(i - 1) : (p \o q)[j] = S("drop", a)
  BY <1>0 DEF Guarded
<1>2. i \in DOMAIN p /\ (p \o q)[i] = p[i]
  BY <1>0, <1>1, Joined, SeqIndices DEF Harmless, NoUnset
<1>3. \A j \in 1..(i - 1) : (p \o q)[j] = p[j]
  BY <1>0, <1>2, Joined, SeqIndices
<1>4. /\ \A j \in 1..(i - 1) : p[j].do \notin Puts
      /\ \A a \in A : \E j \in 1..(i - 1) : p[j] = S("drop", a)
  BY <1>1, <1>2 DEF Guarded
<1> QED BY <1>3, <1>4

LEMMA GuardedAfter ==
    ASSUME NEW p, NEW q, NEW A, Passive(p), IsSeq(q), Guarded(q, A)
    PROVE  IsSeq(p \o q) /\ Guarded(p \o q, A)
<1>0. IsSeq(p) /\ IsSeq(p \o q)
  BY Joined DEF Passive
<1>1. SUFFICES ASSUME NEW i \in DOMAIN (p \o q), (p \o q)[i].do = "unset"
               PROVE  /\ \A j \in 1..(i - 1) : (p \o q)[j].do \notin Puts
                      /\ \A a \in A : \E j \in 1..(i - 1) : (p \o q)[j] = S("drop", a)
  BY <1>0 DEF Guarded
<1>2. i > Len(p) /\ (i - Len(p)) \in DOMAIN q /\ (p \o q)[i] = q[i - Len(p)]
  BY <1>0, <1>1, Joined, SeqIndices DEF Passive, NoUnset
<1>3. /\ \A j \in 1..(i - Len(p) - 1) : q[j].do \notin Puts
      /\ \A a \in A : \E j \in 1..(i - Len(p) - 1) : q[j] = S("drop", a)
  BY <1>1, <1>2 DEF Guarded
<1>4. Len(p) \in Nat /\ Len(q) \in Nat /\ i \in Nat /\ DOMAIN q = 1..Len(q) /\ DOMAIN p = 1..Len(p)
  BY <1>0, SeqIndices
<1>5. \A j \in 1..(i - 1) : (p \o q)[j].do \notin Puts
  <2> TAKE j \in 1..(i - 1)
  <2>1. CASE j > Len(p)
    <3>1. j - Len(p) \in 1..(i - Len(p) - 1) /\ j - Len(p) \in DOMAIN q
      BY <1>2, <1>4, <2>1
    <3>2. (p \o q)[(j - Len(p)) + Len(p)] = q[j - Len(p)]
      BY <3>1, <1>0, Joined
    <3>3. (j - Len(p)) + Len(p) = j
      BY <1>4
    <3> QED BY <3>1, <3>2, <3>3, <1>3
  <2>2. CASE ~(j > Len(p))
    BY <1>0, <1>4, <2>2, Joined DEF Passive, NoPut
  <2> QED BY <2>1, <2>2
<1>6. \A a \in A : \E j \in 1..(i - 1) : (p \o q)[j] = S("drop", a)
  <2> TAKE a \in A
  <2>1. PICK j \in 1..(i - Len(p) - 1) : q[j] = S("drop", a)
    BY <1>3
  <2>2. j \in DOMAIN q /\ j + Len(p) \in 1..(i - 1)
    BY <1>2, <1>4
  <2>3. (p \o q)[j + Len(p)] = q[j]
    BY <2>2, <1>0, Joined
  <2> QED BY <2>1, <2>2, <2>3
<1> QED BY <1>5, <1>6

LEMMA GuardedByDrops ==
    ASSUME NEW p, NEW q, NEW A, Passive(p), IsSeq(q), NoPut(q),
           \A a \in A : \E j \in DOMAIN p : p[j] = S("drop", a)
    PROVE  IsSeq(p \o q) /\ Guarded(p \o q, A)
<1>0. IsSeq(p) /\ IsSeq(p \o q)
  BY Joined DEF Passive
<1>1. SUFFICES ASSUME NEW i \in DOMAIN (p \o q), (p \o q)[i].do = "unset"
               PROVE  /\ \A j \in 1..(i - 1) : (p \o q)[j].do \notin Puts
                      /\ \A a \in A : \E j \in 1..(i - 1) : (p \o q)[j] = S("drop", a)
  BY <1>0 DEF Guarded
<1>2. Len(p) \in Nat /\ Len(q) \in Nat /\ i \in Nat /\ DOMAIN q = 1..Len(q) /\ DOMAIN p = 1..Len(p)
      /\ DOMAIN (p \o q) = 1..(Len(p) + Len(q))
  BY <1>0, SeqIndices, Joined
<1>3. i > Len(p)
  BY <1>0, <1>1, <1>2, Joined DEF Passive, NoUnset
<1>4. \A j \in 1..(i - 1) : (p \o q)[j].do \notin Puts
  <2> TAKE j \in 1..(i - 1)
  <2>0. j \in DOMAIN (p \o q)
    BY <1>2
  <2>1. CASE j > Len(p)
    BY <1>0, <2>0, <2>1, Joined DEF NoPut
  <2>2. CASE ~(j > Len(p))
    BY <1>0, <1>2, <2>2, Joined DEF Passive, NoPut
  <2> QED BY <2>1, <2>2
<1>5. \A a \in A : \E j \in 1..(i - 1) : (p \o q)[j] = S("drop", a)
  <2> TAKE a \in A
  <2>1. PICK j \in DOMAIN p : p[j] = S("drop", a)
    OBVIOUS
  <2>2. j \in 1..(i - 1) /\ j \in 1..Len(p)
    BY <1>2, <1>3
  <2>3. (p \o q)[j] = p[j]
    BY <2>2, <1>0, Joined
  <2> QED BY <2>1, <2>2, <2>3
<1> QED BY <1>4, <1>5

(* Carrying out the first step. *)
LEMMA GuardedRest ==
    ASSUME NEW p, NEW A, NEW B, IsSeq(p), p # <<>>, Guarded(p, A),
           B \subseteq A \/ p[1].do \in Puts,
           \A b \in B : p[1] # S("drop", b)
    PROVE  IsSeq(Tail(p)) /\ Guarded(Tail(p), B)
<1>0. IsSeq(Tail(p)) /\ 1 \in DOMAIN p
  BY Rest
<1>1. SUFFICES ASSUME NEW i \in DOMAIN Tail(p), Tail(p)[i].do = "unset"
               PROVE  /\ \A j \in 1..(i - 1) : Tail(p)[j].do \notin Puts
                      /\ \A b \in B : \E j \in 1..(i - 1) : Tail(p)[j] = S("drop", b)
  BY <1>0 DEF Guarded
<1>2. i + 1 \in DOMAIN p /\ p[i + 1].do = "unset" /\ i \in Nat /\ i >= 1
  BY <1>0, <1>1, Rest, SeqIndices
<1>3. /\ \A j \in 1..i : p[j].do \notin Puts
      /\ \A a \in A : \E j \in 1..i : p[j] = S("drop", a)
  <2>1. (i + 1) - 1 = i
    BY <1>2
  <2> QED BY <1>2, <2>1 DEF Guarded
<1>4. \A j \in 1..(i - 1) : j \in DOMAIN Tail(p) /\ Tail(p)[j] = p[j + 1] /\ j + 1 \in 1..i
  BY <1>0, <1>1, <1>2, Rest, SeqIndices
<1>5. B \subseteq A
  BY <1>2, <1>3
<1>6. \A b \in B : \E j \in 1..(i - 1) : Tail(p)[j] = S("drop", b)
  <2> TAKE b \in B
  <2>1. PICK j \in 1..i : p[j] = S("drop", b)
    BY <1>3, <1>5
  <2>2. j # 1
    BY <2>1
  <2>3. j - 1 \in 1..(i - 1) /\ (j - 1) + 1 = j
    BY <2>2, <1>2
  <2> QED BY <2>1, <2>3, <1>4
<1> QED BY <1>3, <1>4, <1>6

(* A list made from another element by element. *)
LEMMA EachSeq ==
    ASSUME NEW q, IsSeq(q), NEW g, g = [i \in DOMAIN q |-> g[i]]
    PROVE  IsSeq(g)
<1>1. Len(q) \in Nat /\ DOMAIN q = 1..Len(q)
  BY SeqIndices
<1>2. g \in [1..Len(q) -> ToSet(g)]
  BY <1>1 DEF ToSet
<1>3. g \in Seq(ToSet(g))
  BY <1>1, <1>2
<1> QED BY <1>3 DEF IsSeq

LEMMA FileLists ==
    /\ IsSeq(Login) /\ IsSeq(FilesOfManagers(Managers)) /\ IsSeq(FileList)
<1>1. IsSeq(Managers) /\ IsSeq(SelectSeq(Managers, LAMBDA m : m \in Programs))
  BY InstallerAssumption, AnySeq
<1>2. IsSeq(FilesOfManagers(Managers))
  BY <1>1, EachSeq DEF FilesOfManagers, Each
<1>3. IsSeq(Login)
  BY <1>1, EachSeq DEF Login, FilesOfManagers, Each
<1>4. IsSeq(<<"sudo", "polkit-1">>) /\ IsSeq(<<"sudo_local", "authorization">>) /\ IsSeq(<<>>)
  <2>1. /\ <<"sudo", "polkit-1">> \in Seq({"sudo", "polkit-1"})
        /\ <<"sudo_local", "authorization">> \in Seq({"sudo_local", "authorization"})
    OBVIOUS
  <2> QED BY <2>1, AnySeq, EmptySteps
<1>5. IsSeq(<<"sudo", "polkit-1">> \o FilesOfManagers(Managers))
  BY <1>2, <1>4, Joined
<1> QED BY <1>2, <1>3, <1>4, <1>5 DEF FileList

(* The lists of steps of ServiceInstaller. *)
LEMMA HarmlessSteps ==
    ASSUME NEW T, NEW p \in Seq(T), \A s \in T : s.do # "unset"
    PROVE  Harmless(p)
<1>1. \A i \in DOMAIN p : p[i] \in T
  OBVIOUS
<1> QED BY <1>1, AnySeq DEF Harmless, NoUnset

LEMMA PassiveSteps ==
    ASSUME NEW T, NEW p \in Seq(T), \A s \in T : s.do # "unset" /\ s.do \notin Puts
    PROVE  Passive(p)
<1>1. \A i \in DOMAIN p : p[i] \in T
  OBVIOUS
<1> QED BY <1>1, AnySeq DEF Passive, NoUnset, NoPut

LEMMA ApplyPassive ==
    ASSUME NEW s, platform \in Platforms
    PROVE  Passive(ApplySettings(s))
<1> DEFINE store == Save("stored", s["stored"])
           env == [do |-> "ssh", enabled |-> s["ssh"]]
           a1 == SetEntry("sudo", Entry("sudo"), s["sudo"])
           a2 == SetEntry("polkit-1", Entry("polkit-1"), s["polkit"])
           b1 == SetEntry("sudo_local", Entry("sudo_local"), s["sudo"])
           b2 == SetEntry("authorization", Entry("authorization"), s["dialog"])
           logins == Each(Login, LAMBDA f : SetEntry(f, Entry(f), s["login"]))
           end == Step("commit")
           T == {store, env, a1, a2, b1, b2, end}
           own == <<a1, a2>>
           rest == <<store, env, end>>
           mac == <<store, b1, b2, env, end>>
           win == <<store>>
<1>1. \A x \in T : x.do # "unset" /\ x.do \notin Puts
  BY DEF Save, SetEntry, Step, Puts
<1> HIDE DEF store, env, a1, a2, b1, b2, end
<1>2. win \in Seq(T) /\ own \in Seq(T) /\ rest \in Seq(T) /\ mac \in Seq(T)
  OBVIOUS
<1> HIDE DEF own, rest, mac, win
<1>3. Passive(win) /\ Passive(own) /\ Passive(rest) /\ Passive(mac)
  BY <1>1, <1>2, PassiveSteps
<1>4. Passive(logins)
  <2>1. IsSeq(logins)
    BY FileLists, EachSeq DEF Each
  <2>2. \A i \in DOMAIN logins : logins[i].do = "set"
    BY DEF Each, SetEntry
  <2> QED BY <2>1, <2>2 DEF Passive, NoUnset, NoPut, Puts
<1>5. Passive(own \o logins \o rest)
  BY <1>3, <1>4, PassiveJoined
<1> QED BY <1>3, <1>5, InstallerAssumption
        DEF ApplySettings, ApplyLinux, ApplyMac, ApplyWin, own, rest, mac, win,
            store, env, a1, a2, b1, b2, end

LEMMA RemovePassive == Passive(RemoveEntries)
<1> DEFINE s1 == SetEntry("sddm", <<"S", "E">>, FALSE)
           s2 == SetEntry("sddm", <<"S", "EO">>, FALSE)
           sddm == <<s1, s2>>
<1>1. \A l : Passive(RemoveEach(l))
  <2> TAKE l
  <2>1. IsSeq(RemoveEach(l))
    BY FileLists, EachSeq DEF RemoveEach, Each
  <2>2. \A i \in DOMAIN RemoveEach(l) : RemoveEach(l)[i].do = "set"
    BY DEF RemoveEach, Each, SetEntry
  <2> QED BY <2>1, <2>2 DEF Passive, NoUnset, NoPut, Puts
<1>2. s1.do = "set" /\ s2.do = "set"
  BY DEF SetEntry
<1> HIDE DEF s1, s2
<1>3. sddm \in Seq({s1, s2})
  OBVIOUS
<1> HIDE DEF sddm
<1>4. Passive(sddm)
  BY <1>2, <1>3, PassiveSteps DEF Puts
<1>5. Passive(When(platform = "linux", sddm))
  BY <1>4, EmptySteps DEF When, Passive, NoPut
<1>6. Passive(When(platform = "linux", sddm) \o RemoveEach("E") \o RemoveEach("EO"))
  BY <1>1, <1>5, PassiveJoined
<1> QED BY <1>6 DEF RemoveEntries, sddm, s1, s2

LEMMA InstallHarmless ==
    ASSUME platform \in Platforms
    PROVE  Harmless(Install)
<1>1. \A do, a : S(do, a).do = do
  BY DEF S
<1>2. \A f, o, n : Migrate(f, o, n).do = "migrate"
  BY DEF Migrate
<1>3. \A do : Step(do).do = do
  BY DEF Step
<1>4. Harmless(<<>>)
  BY EmptySteps DEF Harmless
<1>5. Harmless(InstallWin)
  <2> DEFINE T == {S("write", "lib"), S("drop", "libOld"), S("write", "regProvider"),
                   S("write", "regClsid"), Step("purge"), S("copy", "firewall")}
  <2>1. InstallWin \in Seq(T)
    BY DEF InstallWin
  <2>2. \A s \in T : s.do # "unset"
    BY <1>1, <1>3
  <2> QED BY <2>1, <2>2, HarmlessSteps
<1>6. Harmless(InstallMac)
  <2> DEFINE T == {S("write", "exe"), S("setuid", "exe"), S("write", "pam"),
                   S("write", "askpass"), S("setuid", "askpass"), S("drop", "askpass"),
                   Step("register"), S("drop", "agent"), S("write", "agent"), S("write", "plist"),
                   S("copy", "cli"), Migrate("authorization", <<"EO">>, <<"E">>), Step("commit"),
                   S("drop", "pamOld")}
  <2>1. InstallMac \in Seq(T)
    BY DEF InstallMac
  <2>2. \A s \in T : s.do # "unset"
    BY <1>1, <1>2, <1>3
  <2> QED BY <2>1, <2>2, HarmlessSteps
<1>7. Harmless(InstallLinux)
  <2> DEFINE files == <<S("write", "exe"), S("setuid", "exe"), S("write", "pam"), S("drop", "pamOld"),
                        S("write", "askpass"), S("setuid", "askpass"), S("copy", "cli")>>
             T == {S("write", "exe"), S("setuid", "exe"), S("write", "pam"), S("drop", "pamOld"),
                   S("write", "askpass"), S("setuid", "askpass"), S("copy", "cli")}
             migrate == Each(FileList, LAMBDA f : Migrate(f, OldEntry(f), Entry(f)))
             sddm == <<Migrate("sddm", <<"EO">>, <<"E">>), Step("commit")>>
             ufw == When("ufw" \in Programs, <<S("copy", "firewall")>>)
             selinux == When("semodule" \in Programs, <<S("copy", "policy")>>)
  <2>1. Harmless(files)
    <3>1. files \in Seq(T)
      OBVIOUS
    <3>2. \A s \in T : s.do # "unset"
      BY <1>1
    <3> HIDE DEF files
    <3> QED BY <3>1, <3>2, HarmlessSteps
  <2>2. Harmless(migrate)
    <3>1. IsSeq(migrate)
      BY FileLists, EachSeq DEF Each
    <3>2. \A i \in DOMAIN migrate : migrate[i].do = "migrate"
      BY <1>2 DEF Each
    <3> QED BY <3>1, <3>2 DEF Harmless, NoUnset
  <2>3. Harmless(sddm)
    <3> DEFINE U == {Migrate("sddm", <<"EO">>, <<"E">>), Step("commit")}
    <3>1. sddm \in Seq(U)
      OBVIOUS
    <3>2. \A s \in U : s.do # "unset"
      BY <1>2, <1>3
    <3> HIDE DEF sddm
    <3> QED BY <3>1, <3>2, HarmlessSteps
  <2>4. Harmless(ufw) /\ Harmless(selinux)
    <3>1. Harmless(<<S("copy", "firewall")>>) /\ Harmless(<<S("copy", "policy")>>)
      BY <1>1, OneStep DEF Harmless, NoUnset
    <3> QED BY <1>4, <3>1 DEF When
  <2> HIDE DEF files, migrate, sddm, ufw, selinux, T
  <2>5. Harmless(files \o migrate \o sddm \o ufw \o selinux)
    BY <2>1, <2>2, <2>3, <2>4, HarmlessJoined
  <2> QED BY <2>5 DEF InstallLinux, files, migrate, sddm, ufw, selinux
<1> QED BY <1>5, <1>6, <1>7, InstallerAssumption DEF Install

LEMMA HarmlessGuarded ==
    ASSUME NEW p, Harmless(p), NEW A
    PROVE  IsSeq(p) /\ Guarded(p, A)
BY DEF Harmless, NoUnset, Guarded

LEMMA PassiveHarmless ==
    ASSUME NEW p, Passive(p)
    PROVE  Harmless(p)
BY DEF Passive, Harmless

LEMMA PassiveWhen ==
    ASSUME NEW b, NEW p, Passive(p)
    PROVE  Passive(When(b, p))
BY EmptySteps DEF When, Passive, NoPut

(* Uninstalling drops the files of the program before it takes anything back. *)
LEMMA UninstallGuarded ==
    ASSUME NEW full, platform \in Platforms, NEW A, A \subseteq Core
    PROVE  IsSeq(Uninstall(full)) /\ Guarded(Uninstall(full), A)
<1>1. \A do, a : S(do, a).do = do
  BY DEF S
<1> DEFINE drops == <<S("drop", "exe"), S("drop", "pam"), S("drop", "pamOld"), S("drop", "askpass")>>
           T == {S("drop", "exe"), S("drop", "pam"), S("drop", "pamOld"), S("drop", "askpass")}
           env == [do |-> "ssh", enabled |-> FALSE]
<1>2. /\ drops \in Seq(T) /\ Len(drops) = 4
      /\ drops[1] = S("drop", "exe") /\ drops[2] = S("drop", "pam") /\ drops[3] = S("drop", "pamOld")
  OBVIOUS
<1> HIDE DEF drops
<1>3. Passive(drops)
  <2>1. \A s \in T : s.do # "unset" /\ s.do \notin Puts
    BY <1>1 DEF Puts
  <2> QED BY <1>2, <2>1, PassiveSteps
<1>4. /\ Passive(<<env>>) /\ Passive(<<Step("commit")>>)
      /\ \A a : Passive(<<S("drop", a)>>)
  BY <1>1, PassiveOne DEF Step, Puts
<1>5. CASE platform = "linux"
  <2> DEFINE edits == When(full, RemoveEntries \o <<Step("commit"), env>>)
             ufw == When("ufw" \in Programs, <<S("drop", "firewall")>>)
             policy == When("semodule" \in Programs, <<S("unset", "policy")>>)
             tool == When(full, <<S("drop", "cli")>>)
  <2>1. Passive(edits)
    <3> DEFINE two == <<Step("commit"), env>>
    <3>1. two \in Seq({Step("commit"), env})
      OBVIOUS
    <3>2. \A s \in {Step("commit"), env} : s.do # "unset" /\ s.do \notin Puts
      BY DEF Step, Puts
    <3> HIDE DEF two
    <3>3. Passive(two)
      BY <3>1, <3>2, PassiveSteps
    <3>4. Passive(RemoveEntries \o two)
      BY <3>3, RemovePassive, PassiveJoined
    <3>5. Passive(When(full, RemoveEntries \o two))
      BY <3>4, PassiveWhen
    <3> QED BY <3>5 DEF two
  <2>2. Passive(ufw) /\ Passive(tool)
    BY <1>4, PassiveWhen
  <2>3. IsSeq(policy) /\ NoPut(policy)
    <3>1. IsSeq(<<S("unset", "policy")>>) /\ NoPut(<<S("unset", "policy")>>)
      BY <1>1, OneStep DEF NoPut, Puts
    <3> QED BY <3>1, EmptySteps DEF When, NoPut
  <2> HIDE DEF edits, ufw, policy, tool
  <2>4. Passive(drops \o edits) /\ Passive(drops \o edits \o ufw)
    BY <1>3, <2>1, <2>2, PassiveJoined
  <2>5. \A a \in A : \E j \in DOMAIN (drops \o edits \o ufw) : (drops \o edits \o ufw)[j] = S("drop", a)
    <3> TAKE a \in A
    <3>1. PICK j \in 1..3 : drops[j] = S("drop", a)
      BY <1>2, <1>5 DEF Core
    <3>2. IsSeq(drops) /\ IsSeq(edits) /\ IsSeq(ufw) /\ IsSeq(drops \o edits) /\ j \in 1..Len(drops)
      BY <1>2, <1>3, <2>1, <2>2, <2>4, SeqIndices DEF Passive
    <3>3. j \in 1..Len(drops \o edits) /\ (drops \o edits)[j] = drops[j]
      BY <3>2, Joined, SeqIndices
    <3>4. j \in 1..Len(drops \o edits \o ufw) /\ (drops \o edits \o ufw)[j] = drops[j]
      BY <3>2, <3>3, Joined, SeqIndices
    <3>5. j \in DOMAIN (drops \o edits \o ufw)
      BY <3>2, <3>4, Joined, SeqIndices
    <3> QED BY <3>1, <3>4, <3>5
  <2>6. IsSeq(drops \o edits \o ufw \o policy) /\ Guarded(drops \o edits \o ufw \o policy, A)
    BY <2>3, <2>4, <2>5, GuardedByDrops
  <2>7. IsSeq(drops \o edits \o ufw \o policy \o tool) /\ Guarded(drops \o edits \o ufw \o policy \o tool, A)
    BY <2>2, <2>6, GuardedThen, PassiveHarmless
  <2> QED BY <1>5, <2>7 DEF Uninstall, UninstallLinux, drops, edits, ufw, policy, tool
<1>6. CASE platform = "mac"
  <2> DEFINE edits == When(full, RemoveEntries \o <<Step("commit")>>)
             ssh1 == When(full, <<env>>)
             helper == <<Step("unregister"), S("drop", "plist"), S("drop", "agent")>>
             tool == When(full, <<S("drop", "cli")>>)
  <2>1. Passive(edits)
    BY <1>4, RemovePassive, PassiveJoined, PassiveWhen
  <2>2. Passive(ssh1) /\ Passive(tool)
    BY <1>4, PassiveWhen
  <2>3. Passive(helper)
    <3> DEFINE U == {Step("unregister"), S("drop", "plist"), S("drop", "agent")}
    <3>1. helper \in Seq(U)
      OBVIOUS
    <3>2. \A s \in U : s.do # "unset" /\ s.do \notin Puts
      BY <1>1 DEF Step, Puts
    <3> HIDE DEF helper
    <3> QED BY <3>1, <3>2, PassiveSteps
  <2> HIDE DEF edits, ssh1, helper, tool
  <2>4. Passive(edits \o drops \o ssh1 \o helper \o tool)
    BY <1>3, <2>1, <2>2, <2>3, PassiveJoined
  <2>5. Harmless(Uninstall(full))
    BY <1>6, <2>4, PassiveHarmless DEF Uninstall, UninstallMac, drops, edits, ssh1, helper, tool
  <2> QED BY <2>5, HarmlessGuarded
<1>7. CASE platform = "windows"
  <2> DEFINE U == {S("drop", "lib"), S("drop", "libOld"), S("unset", "regProvider"),
                   S("unset", "regClsid"), S("drop", "firewall")}
  <2>1. /\ UninstallWin \in Seq(U) /\ DOMAIN UninstallWin = 1..5
        /\ UninstallWin[1] = S("drop", "lib") /\ UninstallWin[2] = S("drop", "libOld")
    BY DEF UninstallWin
  <2>2. IsSeq(UninstallWin)
    BY <2>1, AnySeq
  <2>3. \A i \in 1..5 : UninstallWin[i].do \notin Puts
    <3>1. \A s \in U : s.do \notin Puts
      BY <1>1 DEF Puts
    <3>2. \A i \in 1..5 : UninstallWin[i] \in U
      BY <2>1
    <3> HIDE DEF U
    <3> QED BY <3>1, <3>2
  <2>4. \A i \in 1..5 : UninstallWin[i].do = "unset" => i > 2
    BY <1>1, <2>1
  <2>5. \A a \in A : UninstallWin[1] = S("drop", a) \/ UninstallWin[2] = S("drop", a)
    BY <2>1, <1>7 DEF Core
  <2>6. ASSUME NEW i \in 1..5, i > 2
        PROVE  1 \in 1..(i - 1) /\ 2 \in 1..(i - 1) /\ \A j \in 1..(i - 1) : j \in 1..5
    BY <2>6
  <2>7. Guarded(UninstallWin, A)
    BY <2>1, <2>3, <2>4, <2>5, <2>6 DEF Guarded
  <2> QED BY <1>7, <2>2, <2>7 DEF Uninstall
<1> QED BY <1>5, <1>6, <1>7, InstallerAssumption

(* The operations of AppInstaller. *)
LEMMA Operations ==
    ASSUME platform \in Platforms, NEW A, A \subseteq Core
    PROVE  /\ Harmless(AppInstall)
           /\ IsSeq(AppUninstall) /\ Guarded(AppUninstall, A)
           /\ IsSeq(AppReinstall) /\ Guarded(AppReinstall, A)
<1> DEFINE move == <<Step("movedir")>>
           check == <<Save("version", "check")>>
           fresh == <<[do |-> "apply", default |-> TRUE], Save("version", "check")>>
           again == <<[do |-> "apply", default |-> FALSE], Step("movedir"), Save("version", "current")>>
           T == {[do |-> "apply", default |-> TRUE], [do |-> "apply", default |-> FALSE],
                 Step("movedir"), Save("version", "check"), Save("version", "current")}
<1>1. \A s \in T : s.do # "unset" /\ s.do \notin Puts
  BY DEF Step, Save, Puts
<1>2. move \in Seq(T) /\ check \in Seq(T) /\ fresh \in Seq(T) /\ again \in Seq(T)
  OBVIOUS
<1> HIDE DEF move, check, fresh, again, T
<1>3. Passive(move) /\ Passive(check) /\ Passive(fresh) /\ Passive(again)
  BY <1>1, <1>2, PassiveSteps
<1>4. Harmless(move) /\ Harmless(check) /\ Harmless(fresh) /\ Harmless(again)
  BY <1>3, PassiveHarmless
<1>5. Harmless(Install)
  BY InstallHarmless
<1>6. Harmless(move \o Install \o fresh)
  BY <1>4, <1>5, HarmlessJoined
<1>7. IsSeq(move \o Uninstall(TRUE)) /\ Guarded(move \o Uninstall(TRUE), A)
  BY <1>3, UninstallGuarded, GuardedAfter
<1>8. IsSeq(move \o Uninstall(TRUE) \o check) /\ Guarded(move \o Uninstall(TRUE) \o check, A)
  BY <1>4, <1>7, GuardedThen
<1> DEFINE remove == When(IsInstalled, Uninstall(FALSE))
<1>9. IsSeq(remove) /\ Guarded(remove, A)
  BY UninstallGuarded, EmptySteps DEF When
<1> HIDE DEF remove
<1>10. IsSeq(remove \o Install) /\ Guarded(remove \o Install, A)
  BY <1>5, <1>9, GuardedThen
<1>11. IsSeq(remove \o Install \o again) /\ Guarded(remove \o Install \o again, A)
  BY <1>4, <1>10, GuardedThen
<1> QED BY <1>6, <1>8, <1>11
        DEF AppInstall, AppUninstall, AppReinstall, move, check, fresh, again, remove

(* The ways a step may end: the operation is over because of a fault, or it *)
(* goes on, perhaps with steps that neither install nor take back anything. *)
Ended == result' = "failed" /\ streak' = 0
Leads(next) == \E pre : Passive(pre) /\ next = pre \o Tail(todo)
GoesOn ==
    /\ result' = result /\ streak' = streak /\ (faulted => faulted')
    /\ Leads(todo')

LEMMA InstalledStands ==
    ASSUME RecoverInv
    PROVE  /\ IsInstalled => Standing # {}
           /\ Core \subseteq Artefacts
<1>1. platform \in {"linux", "mac", "windows"}
  BY InstallerAssumption DEF RecoverInv
<1> QED BY <1>1 DEF IsInstalled, Standing, Core, Artefacts

(* A fault ends the operation. *)
LEMMA EndedKeeps ==
    ASSUME RecoverInv, Ended, UNCHANGED platform, art' \in [Artefacts -> ArtStates]
    PROVE  RecoverInv'
<1>1. Artefacts' = Artefacts
  BY DEF Artefacts
<1> QED BY <1>1 DEF RecoverInv, Ended, Running

(* A step that is done, or that fails without consequences. *)
LEMMA GoesOnKeeps ==
    ASSUME RecoverInv, Running, todo # <<>>, GoesOn, UNCHANGED <<platform, via, alive>>,
           art' \in [Artefacts -> ArtStates],
           \/ Next1.do \in Puts
           \/ \A a \in Core : art'[a] # "none" => art[a] # "none",
           \A a \in Core : Next1 = S("drop", a) => art'[a] = "none"
    PROVE  RecoverInv'
<1>1. Artefacts' = Artefacts /\ Core' = Core /\ Ready' = Ready /\ Running'
  BY DEF Artefacts, Core, Ready, Running, GoesOn
<1>2. IsSeq(todo) /\ Guarded(todo, Standing) /\ (~Ready => faulted) /\ (streak = 1 => NoUnset(todo))
  BY DEF RecoverInv
<1>3. IsSeq(Tail(todo)) /\ Next1 = todo[1]
      /\ \A i \in DOMAIN Tail(todo) : i + 1 \in DOMAIN todo /\ Tail(todo)[i] = todo[i + 1]
  BY <1>2, Rest DEF Next1
<1>4. Standing' = {a \in Core : art'[a] # "none"} /\ Standing = {a \in Core : art[a] # "none"}
  BY <1>1 DEF Standing, Exists
<1>5. Guarded(Tail(todo), Standing')
  <2>1. Standing' \subseteq Standing \/ todo[1].do \in Puts
    BY <1>3, <1>4
  <2>2. \A b \in Standing' : todo[1] # S("drop", b)
    BY <1>3, <1>4
  <2> QED BY <1>2, <2>1, <2>2, GuardedRest
<1>6. PICK pre : Passive(pre) /\ todo' = pre \o Tail(todo)
  BY DEF GoesOn, Leads
<1>7. IsSeq(todo') /\ Guarded(todo', Standing')
  BY <1>3, <1>5, <1>6, GuardedAfter
<1>8. streak = 1 => NoUnset(todo')
  <2> SUFFICES ASSUME streak = 1 PROVE NoUnset(todo')
    OBVIOUS
  <2>1. Harmless(Tail(todo))
    BY <1>2, <1>3 DEF Harmless, NoUnset
  <2> QED BY <2>1, <1>6, HarmlessJoined, PassiveHarmless DEF Harmless
<1>9. /\ platform' \in Platforms /\ art' \in [Artefacts' -> ArtStates] /\ streak' \in {0, 1}
      /\ ~Ready' => faulted'
      /\ streak' = 1 => streak = 1
  BY <1>1, <1>2 DEF RecoverInv, GoesOn
<1>10. (IsSeq(todo) /\ Guarded(todo, Standing) /\ (streak = 1 => NoUnset(todo)))'
  BY <1>7, <1>8, <1>9 DEF IsSeq, Guarded, NoUnset, Puts
<1> QED BY <1>1, <1>9, <1>10 DEF RecoverInv

LEMMA NoMore ==
    ASSUME NEW p, IsSeq(p)
    PROVE  Passive(<<>>) /\ <<>> \o p = p
BY EmptySteps DEF Passive, NoPut, IsSeq

(* A command: it ends the operation only after a fault, and a strict one *)
(* that does not has been done.                                          *)
LEMMA CommandEnds ==
    ASSUME RecoverInv, Running, NEW ready, ready \/ ~Ready, NEW strict, NEW eff, NEW next, Leads(next),
           Command(ready, strict, eff, next)
    PROVE  Ended \/ (GoesOn /\ (strict => eff = "done"))
<1>1. ~ready => faulted
  BY DEF RecoverInv
<1>2. ASSUME Proceed(next), faulted => faulted' PROVE GoesOn
  BY <1>2 DEF GoesOn, Proceed, Leads
<1>3. Throw(TRUE) \/ (faulted /\ Throw(faulted)) => Ended
  BY DEF Ended, Throw
<1>4. CASE ready /\ eff = "done" /\ Proceed(next) /\ UNCHANGED <<faulted, faults>>
  BY <1>2, <1>4
<1>5. CASE faulted' = TRUE /\ IF strict THEN Throw(TRUE) ELSE Proceed(next)
  BY <1>2, <1>3, <1>5
<1>6. CASE /\ ~ready /\ UNCHANGED <<faulted, faults>>
           /\ IF strict THEN Throw(faulted) ELSE Proceed(next)
  BY <1>1, <1>2, <1>3, <1>6
<1> QED BY <1>4, <1>5, <1>6 DEF Command

LEMMA ProceedGoesOn ==
    ASSUME NEW next, Leads(next), Proceed(next), UNCHANGED faulted
    PROVE  GoesOn
BY DEF GoesOn, Proceed, Leads

LEMMA LeadsRest ==
    ASSUME RecoverInv, Running, todo # <<>>
    PROVE  Leads(Tail(todo))
<1>1. IsSeq(Tail(todo))
  BY Rest DEF RecoverInv
<1> QED BY <1>1, NoMore DEF Leads

(* The steps on the files of the program. *)
LEMMA InstallStepKeeps ==
    ASSUME RecoverInv, WriteFile \/ SetInPlace
    PROVE  RecoverInv'
<1>1. /\ Running /\ todo # <<>> /\ Next1.do \in Puts /\ UNCHANGED <<platform, via, alive>>
      /\ \E eff : Command(Ready, Next1.strict, eff, Tail(todo))
  BY DEF WriteFile, SetInPlace, Does, Puts, opVars
<1>2. art' \in [Artefacts -> ArtStates]
  BY DEF WriteFile, SetInPlace, After, RecoverInv, ArtStates
<1>3. Ended \/ GoesOn
  BY <1>1, LeadsRest, CommandEnds
<1>4. \A a : Next1 # S("drop", a)
  BY <1>1 DEF S, Puts
<1> QED BY <1>1, <1>2, <1>3, <1>4, EndedKeeps, GoesOnKeeps

LEMMA DropKeeps ==
    ASSUME RecoverInv, DropFile
    PROVE  RecoverInv'
<1>1. Running /\ todo # <<>> /\ Next1.do = "drop" /\ UNCHANGED <<platform, via, alive>>
  BY DEF DropFile, Does, opVars
<1>2. art \in [Artefacts -> ArtStates] /\ Core \subseteq Artefacts /\ "agent" \notin Core
  BY InstalledStands DEF RecoverInv, Core
<1>3. Next1.do \notin Puts
  BY <1>1 DEF Puts
<1>4. \A a \in Core : Next1 = S("drop", a) => Next1.on = a /\ Next1.strict
  <2>1. \A a : S("drop", a).on = a /\ S("drop", a).strict = (a \notin Optional)
    BY DEF S
  <2>2. \A a \in Core : a \notin Optional
    BY DEF Core, Optional
  <2> QED BY <2>1, <2>2
<1>5. CASE ~Exists(Next1.on)
  <2>1. GoesOn /\ art' = art
    BY <1>1, <1>5, LeadsRest, ProceedGoesOn DEF DropFile
  <2>2. \A a \in Core : Next1 = S("drop", a) => art'[a] = "none"
    BY <1>4, <1>5, <2>1 DEF Exists
  <2> QED BY <1>1, <1>2, <2>1, <2>2, GoesOnKeeps
<1>6. CASE Exists(Next1.on)
  <2>1. PICK eff \in {"done", "none"} \cup (IF Next1.on = "agent" THEN {"torn"} ELSE {}) :
               /\ Command(Ready, Next1.strict, eff, Tail(todo))
               /\ art' = [art EXCEPT ![Next1.on] = After(eff, "none", @)]
    BY <1>6 DEF DropFile
  <2>2. art' \in [Artefacts -> ArtStates]
    BY <1>2, <2>1 DEF After, ArtStates
  <2>3. \A a \in Core : art'[a] # "none" => art[a] # "none"
    BY <1>2, <2>1 DEF After
  <2>4. Ended \/ (GoesOn /\ (Next1.strict => eff = "done"))
    BY <1>1, <2>1, LeadsRest, CommandEnds
  <2>5. GoesOn /\ (Next1.strict => eff = "done") => \A a \in Core : Next1 = S("drop", a) => art'[a] = "none"
    BY <1>2, <1>4, <2>1 DEF After
  <2> QED BY <1>1, <2>2, <2>3, <2>4, <2>5, EndedKeeps, GoesOnKeeps
<1> QED BY <1>5, <1>6

(* The step that fails without a fault finds nothing standing. *)
LEMMA UnsetKeeps ==
    ASSUME RecoverInv, Unset
    PROVE  RecoverInv'
<1>1. Running /\ todo # <<>> /\ Next1.do = "unset" /\ UNCHANGED <<platform, via, alive>>
  BY DEF Unset, Does, opVars
<1>2. /\ art \in [Artefacts -> ArtStates] /\ Core \subseteq Artefacts
      /\ IsSeq(todo) /\ Guarded(todo, Standing) /\ (streak = 1 => NoUnset(todo)) /\ streak \in {0, 1}
  BY <1>1, InstalledStands DEF RecoverInv
<1>3. Standing = {} /\ streak = 0 /\ ~IsInstalled
  <2>1. 1 \in DOMAIN todo /\ todo[1].do = "unset"
    BY <1>1, <1>2, Rest DEF Next1
  <2>2. Standing = {}
    BY <1>2, <2>1 DEF Guarded
  <2> QED BY <1>2, <2>1, <2>2, InstalledStands DEF NoUnset
<1>4. CASE Ready /\ ~Exists(Next1.on)
  <2>1. result' = "failed" /\ streak' \in {0, 1} /\ art' = art
    BY <1>3, <1>4 DEF Unset, Throw
  <2>2. IsInstalled' = IsInstalled /\ Artefacts' = Artefacts
    BY <1>1, <2>1 DEF IsInstalled, Exists, Artefacts
  <2> QED BY <1>1, <1>2, <1>3, <2>1, <2>2 DEF RecoverInv, Running
<1>5. CASE ~(Ready /\ ~Exists(Next1.on))
  <2>1. PICK eff \in {"done", "none"} :
               /\ Command(Ready, TRUE, eff, Tail(todo))
               /\ art' = [art EXCEPT ![Next1.on] = After(eff, "none", @)]
    BY <1>5 DEF Unset
  <2>2. art' \in [Artefacts -> ArtStates]
    BY <1>2, <2>1 DEF After, ArtStates
  <2>3. \A a \in Core : art'[a] # "none" => art[a] # "none"
    BY <1>2, <2>1 DEF After
  <2>4. Ended \/ GoesOn
    BY <1>1, <2>1, LeadsRest, CommandEnds
  <2>5. \A a : Next1 # S("drop", a)
    BY <1>1 DEF S
  <2> QED BY <1>1, <2>2, <2>3, <2>4, <2>5, EndedKeeps, GoesOnKeeps
<1> QED BY <1>4, <1>5

(* The Bluetooth helper and the firewall are not looked at by IsInstalled. *)
LEMMA HelperStepKeeps ==
    ASSUME RecoverInv, RegisterHelper \/ RemoveAllRulesForProgram
    PROVE  RecoverInv'
<1>1. /\ Running /\ todo # <<>> /\ Next1.do \in {"register", "unregister", "purge"}
      /\ UNCHANGED <<platform, via, alive>> /\ GoesOn
  BY LeadsRest, ProceedGoesOn DEF RegisterHelper, RemoveAllRulesForProgram, Does, opVars
<1>2. /\ art \in [Artefacts -> ArtStates] /\ Core \subseteq Artefacts
      /\ "bthelper" \notin Core /\ "firewall" \notin Core
  BY InstalledStands DEF RecoverInv, Core
<1>3. art' \in [Artefacts -> ArtStates] /\ \A a \in Core : art'[a] = art[a]
  BY <1>2 DEF RegisterHelper, RemoveAllRulesForProgram, ArtStates
<1>4. \A a : Next1 # S("drop", a)
  BY <1>1 DEF S
<1> QED BY <1>1, <1>3, <1>4, GoesOnKeeps

(* The steps on the settings. *)
LEMMA SettingsStepKeeps ==
    ASSUME RecoverInv, Running, todo # <<>>, Next1.do # "drop",
           UNCHANGED <<platform, art, via, alive>>, Ended \/ GoesOn
    PROVE  RecoverInv'
<1>1. art' \in [Artefacts -> ArtStates]
  BY DEF RecoverInv
<1>2. \A a : Next1 # S("drop", a)
  BY DEF S
<1> QED BY <1>1, <1>2, EndedKeeps, GoesOnKeeps

LEMMA LeadsStep ==
    ASSUME NEW s, s.do # "unset", s.do \notin Puts
    PROVE  Leads(<<s>> \o Tail(todo))
BY PassiveOne DEF Leads

LEMMA PamStepKeeps ==
    ASSUME RecoverInv, SetConfigEntry \/ MigrateConfigEntry \/ Commit
    PROVE  RecoverInv'
<1>1. /\ Running /\ todo # <<>> /\ Next1.do # "drop" /\ UNCHANGED <<platform, art, via, alive>>
  BY DEF SetConfigEntry, MigrateConfigEntry, Commit, Does, opVars, sysVars
<1>2. Leads(Tail(todo))
  BY <1>1, LeadsRest
<1>3. ASSUME SetConfigEntry PROVE Ended \/ GoesOn
  <2>1. \/ Proceed(Tail(todo)) /\ UNCHANGED faulted
        \/ \E eff : Command(Ready, FALSE, eff, Tail(todo))
    BY <1>3 DEF SetConfigEntry, SetPolkitRestrictions
  <2> QED BY <1>1, <1>2, <2>1, CommandEnds, ProceedGoesOn
<1>4. ASSUME MigrateConfigEntry PROVE GoesOn
  BY <1>2, <1>4, ProceedGoesOn DEF MigrateConfigEntry
<1>5. ASSUME Commit PROVE GoesOn
  <2>1. PICK changes : Proceed(<<[do |-> "update", to |-> changes]>> \o Tail(todo)) /\ UNCHANGED faulted
    BY <1>5 DEF Commit
  <2>2. Leads(<<[do |-> "update", to |-> changes]>> \o Tail(todo))
    BY LeadsStep DEF Puts
  <2> QED BY <2>1, <2>2, ProceedGoesOn
<1> QED BY <1>1, <1>3, <1>4, <1>5, SettingsStepKeeps

LEMMA UpdateStepKeeps ==
    ASSUME RecoverInv, CommitFile \/ CommitWithTerminal
    PROVE  RecoverInv'
<1>1. /\ Running /\ todo # <<>> /\ Next1.do # "drop" /\ UNCHANGED <<platform, art, via, alive>>
  BY DEF CommitFile, CommitWithTerminal, Does, opVars
<1>2. Leads(Tail(todo))
  BY <1>1, LeadsRest
<1>3. ASSUME CommitFile PROVE Ended \/ GoesOn
  <2>1. CASE Proceed(Tail(todo)) /\ UNCHANGED faulted
    BY <1>2, <2>1, ProceedGoesOn
  <2>2. CASE \E eff, left : Command(Ready, TRUE, eff, <<[do |-> "update", to |-> left]>> \o Tail(todo))
    <3>1. PICK eff, left : Command(Ready, TRUE, eff, <<[do |-> "update", to |-> left]>> \o Tail(todo))
      BY <2>2
    <3>2. Leads(<<[do |-> "update", to |-> left]>> \o Tail(todo))
      BY LeadsStep DEF Puts
    <3> QED BY <1>1, <3>1, <3>2, CommandEnds
  <2> QED BY <1>3, <2>1, <2>2 DEF CommitFile
<1>4. ASSUME CommitWithTerminal PROVE Ended \/ GoesOn
  <2>1. \/ Proceed(Tail(todo)) /\ UNCHANGED faulted
        \/ \E eff : Command(Ready, TRUE, eff, Tail(todo))
    BY <1>4 DEF CommitWithTerminal
  <2> QED BY <1>1, <1>2, <2>1, CommandEnds, ProceedGoesOn
<1> QED BY <1>1, <1>3, <1>4, SettingsStepKeeps

LEMMA OtherStepKeeps ==
    ASSUME RecoverInv, SetSshEnabled \/ SaveSettings \/ MigrateBaseDir \/ ApplyCurrent
    PROVE  RecoverInv'
<1>1. /\ Running /\ todo # <<>> /\ Next1.do # "drop" /\ UNCHANGED <<platform, art, via, alive>>
  BY DEF SetSshEnabled, SaveSettings, MigrateBaseDir, ApplyCurrent, Does, opVars, sysVars
<1>2. Leads(Tail(todo))
  BY <1>1, LeadsRest
<1>3. ASSUME SetSshEnabled PROVE Ended \/ GoesOn
  <2>1. PICK eff : Command(TRUE, TRUE, eff, Tail(todo))
    BY <1>3 DEF SetSshEnabled
  <2> QED BY <1>1, <1>2, <2>1, CommandEnds
<1>4. ASSUME SaveSettings PROVE Ended \/ GoesOn
  <2>1. PICK eff : Command(Ready, FALSE, eff, Tail(todo))
    BY <1>4 DEF SaveSettings
  <2> QED BY <1>1, <1>2, <2>1, CommandEnds
<1>5. ASSUME MigrateBaseDir PROVE Ended \/ GoesOn
  <2>1. CASE dir = "new"
    BY <1>2, <1>5, <2>1, ProceedGoesOn DEF MigrateBaseDir
  <2>2. CASE dir # "new"
    <3>1. PICK eff : Command(Ready, FALSE, eff, When(eff = "none", <<Save("version", "none")>>) \o Tail(todo))
      BY <1>5, <2>2 DEF MigrateBaseDir
    <3>2. Passive(When(eff = "none", <<Save("version", "none")>>))
      BY PassiveOne, PassiveWhen DEF Save, Puts
    <3>3. Leads(When(eff = "none", <<Save("version", "none")>>) \o Tail(todo))
      BY <3>2 DEF Leads
    <3> QED BY <1>1, <3>1, <3>3, CommandEnds
  <2> QED BY <2>1, <2>2
<1>6. ASSUME ApplyCurrent PROVE GoesOn
  <2>1. PICK s : Proceed(ApplySettings(s) \o Tail(todo)) /\ UNCHANGED faulted
    BY <1>6 DEF ApplyCurrent
  <2>2. Leads(ApplySettings(s) \o Tail(todo))
    BY ApplyPassive DEF Leads, RecoverInv
  <2> QED BY <2>1, <2>2, ProceedGoesOn
<1> QED BY <1>1, <1>3, <1>4, <1>5, <1>6, SettingsStepKeeps

(* An operation begins: after one that failed without a fault nothing is *)
(* installed, and only installing and changing the settings are left.    *)
LEMMA BeginKeeps ==
    ASSUME RecoverInv, NEW v \in {"app", "cli"}, NEW new, v = "cli" => new, NEW o, NEW steps,
           Begin(v, new, o, steps),
           \/ Harmless(steps)
           \/ IsInstalled /\ IsSeq(steps) /\ Guarded(steps, Standing)
    PROVE  RecoverInv'
<1>1. /\ ~Running /\ (new \/ alive) /\ via' = v /\ result' = "running" /\ todo' = steps
      /\ alive' = (alive \/ (new /\ v = "app"))
      /\ UNCHANGED <<platform, art, streak>>
  BY DEF Begin, sysVars
<1>2. Artefacts' = Artefacts /\ Standing' = Standing /\ Ready' /\ Running'
  BY <1>1 DEF Artefacts, Standing, Core, Exists, Ready, Running
<1>3. IsSeq(steps) /\ Guarded(steps, Standing) /\ (streak = 1 => NoUnset(steps))
  BY <1>1, HarmlessGuarded DEF RecoverInv, Harmless
<1>4. (IsSeq(todo) /\ Guarded(todo, Standing) /\ (streak = 1 => NoUnset(todo)))'
  BY <1>1, <1>2, <1>3 DEF IsSeq, Guarded, NoUnset, Puts
<1> QED BY <1>1, <1>2, <1>4 DEF RecoverInv

LEMMA OperationKeeps ==
    ASSUME RecoverInv,
           \/ OnInstallClicked \/ OnReinstallClicked \/ OnSaveSettingsClicked
           \/ InstallCommand \/ ReinstallCommand \/ UninstallCommand \/ ServiceSetCommand \/ Restart
    PROVE  RecoverInv'
<1>1. /\ Harmless(AppInstall)
      /\ IsSeq(AppUninstall) /\ Guarded(AppUninstall, Standing)
      /\ IsSeq(AppReinstall) /\ Guarded(AppReinstall, Standing)
      /\ \A s : Harmless(ApplySettings(s))
  BY Operations, ApplyPassive, PassiveHarmless DEF RecoverInv, Standing
<1>2. ASSUME Restart, ~NeedsReinstall PROVE RecoverInv'
  <2>1. ~Running /\ UNCHANGED <<platform, art, result, streak>>
    BY <1>2 DEF Restart, sysVars
  <2> QED BY <2>1 DEF RecoverInv, Running, IsInstalled, Exists, Artefacts
<1>3. ASSUME OnInstallClicked PROVE RecoverInv'
  BY <1>1, <1>3, BeginKeeps DEF OnInstallClicked
<1>4. ASSUME OnReinstallClicked PROVE RecoverInv'
  BY <1>1, <1>4, BeginKeeps DEF OnReinstallClicked
<1>5. ASSUME OnSaveSettingsClicked PROVE RecoverInv'
  <2>1. PICK on \in Edits : Begin("app", FALSE, "settings", ApplySettings([s \in Settings |-> s \in on]))
    BY <1>5 DEF OnSaveSettingsClicked
  <2> QED BY <1>1, <2>1, BeginKeeps
<1>6. ASSUME InstallCommand PROVE RecoverInv'
  BY <1>1, <1>6, BeginKeeps DEF InstallCommand
<1>7. ASSUME ReinstallCommand PROVE RecoverInv'
  BY <1>1, <1>7, BeginKeeps DEF ReinstallCommand
<1>8. ASSUME UninstallCommand PROVE RecoverInv'
  BY <1>1, <1>8, BeginKeeps DEF UninstallCommand
<1>9. ASSUME ServiceSetCommand PROVE RecoverInv'
  <2>1. PICK s : Begin("cli", TRUE, "settings", ApplySettings(s))
    BY <1>9 DEF ServiceSetCommand
  <2> QED BY <1>1, <2>1, BeginKeeps
<1>10. ASSUME Restart, NeedsReinstall PROVE RecoverInv'
  BY <1>1, <1>10, BeginKeeps DEF Restart, NeedsReinstall
<1> QED BY <1>2, <1>3, <1>4, <1>5, <1>6, <1>7, <1>8, <1>9, <1>10

(* It ends, or something dies. *)
LEMMA EndKeeps ==
    ASSUME RecoverInv, Finish \/ ElevatorDies \/ ProcessDies
    PROVE  RecoverInv'
<1>1. UNCHANGED <<platform, art>>
  BY DEF Finish, ElevatorDies, ProcessDies, sysVars
<1>2. Artefacts' = Artefacts /\ Standing' = Standing
  BY <1>1 DEF Artefacts, Standing, Core, Exists
<1>3. ASSUME Finish \/ ProcessDies PROVE RecoverInv'
  BY <1>1, <1>2, <1>3 DEF Finish, ProcessDies, RecoverInv, Running
<1>4. ASSUME ElevatorDies PROVE RecoverInv'
  <2>1. Running /\ UNCHANGED <<todo, result, streak>> /\ faulted'
    BY <1>4 DEF ElevatorDies
  <2>2. (IsSeq(todo) /\ Guarded(todo, Standing) /\ (streak = 1 => NoUnset(todo)))'
    BY <1>2, <2>1 DEF RecoverInv, IsSeq, Guarded, NoUnset, Puts
  <2> QED BY <1>1, <1>2, <2>1, <2>2 DEF RecoverInv, Running
<1> QED BY <1>3, <1>4

(* RecoverInv holds initially and in every step. *)
LEMMA RecoverInit == Init => RecoverInv
<1> SUFFICES ASSUME Init PROVE RecoverInv
  OBVIOUS
<1>1. art \in [Artefacts -> ArtStates]
  BY DEF Init, ArtStates
<1> QED BY <1>1 DEF Init, RecoverInv, Running

LEMMA RecoverStep == RecoverInv /\ [Next]_vars => RecoverInv'
<1> SUFFICES ASSUME RecoverInv, [Next]_vars PROVE RecoverInv'
  OBVIOUS
<1>1. CASE UNCHANGED vars
  <2>1. UNCHANGED <<platform, art, streak, result, todo, via, alive, faulted>>
    BY <1>1 DEF vars, sysVars, opVars
  <2>2. Artefacts' = Artefacts /\ Standing' = Standing /\ Ready' = Ready /\ IsInstalled' = IsInstalled
    BY <2>1 DEF Artefacts, Standing, Core, Exists, Ready, IsInstalled
  <2>3. Running => (IsSeq(todo) /\ Guarded(todo, Standing) /\ (streak = 1 => NoUnset(todo)))'
    BY <2>1, <2>2 DEF RecoverInv, IsSeq, Guarded, NoUnset, Puts
  <2> QED BY <2>1, <2>2, <2>3 DEF RecoverInv, Running
<1>2. CASE Next
  BY <1>2, InstallStepKeeps, DropKeeps, UnsetKeeps, HelperStepKeeps, PamStepKeeps, UpdateStepKeeps,
     OtherStepKeeps, OperationKeeps, EndKeeps
     DEF Next
<1> QED BY <1>1, <1>2

(* RecoverInv is an invariant of the installer. *)
THEOREM RecoverInvariant == Spec => []RecoverInv
BY RecoverInit, RecoverStep, PTL DEF Spec

(* Of two operations in a row that meet no failure themselves one succeeds. *)
THEOREM TwoTriesRecoverAlways == Spec => []TwoTriesRecover
<1>1. RecoverInv => TwoTriesRecover
  BY DEF RecoverInv, TwoTriesRecover
<1> QED BY <1>1, RecoverInvariant, PTL

---------------------------------------------------------------------------
(* What an uninstall removes.  The steps of a list as a set. *)

LEMMA JoinedSet ==
    ASSUME NEW p, NEW q, IsSeq(p), IsSeq(q)
    PROVE  ToSet(p \o q) = ToSet(p) \cup ToSet(q)
<1>1. Len(p) \in Nat /\ Len(q) \in Nat /\ DOMAIN p = 1..Len(p) /\ DOMAIN q = 1..Len(q)
      /\ DOMAIN (p \o q) = 1..(Len(p) + Len(q))
  BY SeqIndices, Joined
<1>2. ASSUME NEW s \in ToSet(p \o q) PROVE s \in ToSet(p) \cup ToSet(q)
  <2>1. PICK i \in DOMAIN (p \o q) : s = (p \o q)[i]
    BY DEF ToSet
  <2>2. CASE i > Len(p)
    <3>1. i - Len(p) \in DOMAIN q /\ s = q[i - Len(p)]
      BY <2>1, <2>2, Joined
    <3> QED BY <3>1 DEF ToSet
  <2>3. CASE ~(i > Len(p))
    <3>1. i \in DOMAIN p /\ s = p[i]
      BY <1>1, <2>1, <2>3, Joined
    <3> QED BY <3>1 DEF ToSet
  <2> QED BY <2>2, <2>3
<1>3. ASSUME NEW s \in ToSet(p) PROVE s \in ToSet(p \o q)
  <2>1. PICK i \in DOMAIN p : s = p[i]
    BY DEF ToSet
  <2>2. i \in DOMAIN (p \o q) /\ (p \o q)[i] = s
    BY <1>1, <2>1, Joined
  <2> QED BY <2>2 DEF ToSet
<1>4. ASSUME NEW s \in ToSet(q) PROVE s \in ToSet(p \o q)
  <2>1. PICK i \in DOMAIN q : s = q[i]
    BY DEF ToSet
  <2>2. i + Len(p) \in DOMAIN (p \o q) /\ (p \o q)[i + Len(p)] = s
    BY <2>1, Joined
  <2> QED BY <2>2 DEF ToSet
<1> QED BY <1>2, <1>3, <1>4

LEMMA RestSet ==
    ASSUME NEW p, IsSeq(p), p # <<>>
    PROVE  IsSeq(Tail(p)) /\ ToSet(p) = {Head(p)} \cup ToSet(Tail(p))
<1>1. /\ IsSeq(Tail(p)) /\ 1 \in DOMAIN p /\ Head(p) = p[1]
      /\ \A i \in DOMAIN Tail(p) : i + 1 \in DOMAIN p /\ Tail(p)[i] = p[i + 1]
  BY Rest
<1>2. \A i \in DOMAIN p : i = 1 \/ (i - 1 \in DOMAIN Tail(p) /\ Tail(p)[i - 1] = p[i])
  BY DEF IsSeq
<1> QED BY <1>1, <1>2 DEF ToSet

LEMMA SetOfSteps ==
    ASSUME NEW T, NEW p \in Seq(T)
    PROVE  IsSeq(p) /\ ToSet(p) \subseteq T
BY AnySeq DEF ToSet

(* Lists whose steps are all allowed, or undo, or both. *)
Fits(p) == IsSeq(p) /\ \A s \in ToSet(p) : Allowed(s)
FitsUndo(p) == IsSeq(p) /\ \A s \in ToSet(p) : Allowed(s) /\ Undoing(s)

LEMMA FitsJoined ==
    ASSUME NEW p, NEW q
    PROVE  /\ Fits(p) /\ Fits(q) => Fits(p \o q)
           /\ FitsUndo(p) /\ FitsUndo(q) => FitsUndo(p \o q)
           /\ FitsUndo(p) => Fits(p)
BY JoinedSet, Joined DEF Fits, FitsUndo

LEMMA FitsOf ==
    ASSUME NEW T, NEW p \in Seq(T)
    PROVE  /\ (\A s \in T : Allowed(s)) => Fits(p)
           /\ (\A s \in T : Allowed(s) /\ Undoing(s)) => FitsUndo(p)
BY SetOfSteps DEF Fits, FitsUndo

LEMMA FitsWhen ==
    ASSUME NEW b, NEW p
    PROVE  /\ Fits(p) => Fits(When(b, p))
           /\ FitsUndo(p) => FitsUndo(When(b, p))
<1>1. Fits(<<>>) /\ FitsUndo(<<>>)
  BY EmptySteps DEF Fits, FitsUndo, ToSet
<1> QED BY <1>1 DEF When

(* The edits of PAM files, and every other step that installs nothing. *)
LEMMA FitsSet ==
    ASSUME NEW p, IsSeq(p), \A i \in DOMAIN p : p[i].do \in {"set", "migrate", "save", "commit", "movedir"}
    PROVE  Fits(p) /\ FitsUndo(p)
BY DEF Fits, FitsUndo, Allowed, Undoing, Puts, ToSet

LEMMA FitsRemove == FitsUndo(RemoveEntries)
<1> DEFINE s1 == SetEntry("sddm", <<"S", "E">>, FALSE)
           s2 == SetEntry("sddm", <<"S", "EO">>, FALSE)
           sddm == <<s1, s2>>
<1>1. \A l : FitsUndo(RemoveEach(l))
  <2> TAKE l
  <2>1. IsSeq(RemoveEach(l))
    BY FileLists, EachSeq DEF RemoveEach, Each
  <2>2. \A i \in DOMAIN RemoveEach(l) : RemoveEach(l)[i].do = "set"
    BY DEF RemoveEach, Each, SetEntry
  <2> QED BY <2>1, <2>2, FitsSet
<1>2. s1.do = "set" /\ s2.do = "set"
  BY DEF SetEntry
<1> HIDE DEF s1, s2
<1>3. sddm \in Seq({s1, s2})
  OBVIOUS
<1> HIDE DEF sddm
<1>4. FitsUndo(sddm)
  <2>1. \A s \in {s1, s2} : Allowed(s) /\ Undoing(s)
    BY <1>2 DEF Allowed, Undoing, Puts
  <2> QED BY <1>3, <2>1, FitsOf
<1>5. FitsUndo(When(platform = "linux", sddm))
  BY <1>4, FitsWhen
<1>6. FitsUndo(When(platform = "linux", sddm) \o RemoveEach("E") \o RemoveEach("EO"))
  BY <1>1, <1>5, FitsJoined
<1> QED BY <1>6 DEF RemoveEntries, sddm, s1, s2

LEMMA FitsApply ==
    ASSUME NEW s, platform \in Platforms
    PROVE  Fits(ApplySettings(s))
<1> DEFINE store == Save("stored", s["stored"])
           env == [do |-> "ssh", enabled |-> s["ssh"]]
           a1 == SetEntry("sudo", Entry("sudo"), s["sudo"])
           a2 == SetEntry("polkit-1", Entry("polkit-1"), s["polkit"])
           b1 == SetEntry("sudo_local", Entry("sudo_local"), s["sudo"])
           b2 == SetEntry("authorization", Entry("authorization"), s["dialog"])
           logins == Each(Login, LAMBDA f : SetEntry(f, Entry(f), s["login"]))
           end == Step("commit")
           T == {store, env, a1, a2, b1, b2, end}
           own == <<a1, a2>>
           rest == <<store, env, end>>
           mac == <<store, b1, b2, env, end>>
           win == <<store>>
<1>1. (platform # "windows" => \A x \in T : Allowed(x)) /\ Allowed(store)
  BY DEF Save, SetEntry, Step, Puts, Allowed
<1> HIDE DEF store, env, a1, a2, b1, b2, end
<1>2. win \in Seq({store}) /\ own \in Seq(T) /\ rest \in Seq(T) /\ mac \in Seq(T)
  OBVIOUS
<1> HIDE DEF own, rest, mac, win
<1>3. Fits(win) /\ (platform # "windows" => Fits(own) /\ Fits(rest) /\ Fits(mac))
  BY <1>1, <1>2, FitsOf
<1>4. Fits(logins)
  <2>1. IsSeq(logins)
    BY FileLists, EachSeq DEF Each
  <2>2. \A i \in DOMAIN logins : logins[i].do = "set"
    BY DEF Each, SetEntry
  <2> QED BY <2>1, <2>2, FitsSet
<1>5. platform # "windows" => Fits(own \o logins \o rest)
  BY <1>3, <1>4, FitsJoined
<1> QED BY <1>3, <1>5, InstallerAssumption
        DEF ApplySettings, ApplyLinux, ApplyMac, ApplyWin, own, rest, mac, win,
            store, env, a1, a2, b1, b2, end

LEMMA FitsInstall ==
    ASSUME platform \in Platforms
    PROVE  Fits(Install)
<1>1. \A do, a : /\ S(do, a).do = do /\ S(do, a).on = a
                 /\ do # "ssh" /\ a # "policy" => Allowed(S(do, a))
  BY DEF S, Allowed
<1>2. \A f, o, n : Allowed(Migrate(f, o, n))
  BY DEF Migrate, Allowed, Puts
<1>3. Allowed(Step("purge")) /\ Allowed(Step("register")) /\ Allowed(Step("commit"))
  BY DEF Step, Allowed, Puts
<1>5. Fits(InstallWin)
  <2> DEFINE T == {S("write", "lib"), S("drop", "libOld"), S("write", "regProvider"),
                   S("write", "regClsid"), Step("purge"), S("copy", "firewall")}
  <2>1. InstallWin \in Seq(T)
    BY DEF InstallWin
  <2>2. \A s \in T : Allowed(s)
    BY <1>1, <1>3
  <2> QED BY <2>1, <2>2, FitsOf
<1>6. Fits(InstallMac)
  <2> DEFINE T == {S("write", "exe"), S("setuid", "exe"), S("write", "pam"),
                   S("write", "askpass"), S("setuid", "askpass"), S("drop", "askpass"),
                   Step("register"), S("drop", "agent"), S("write", "agent"), S("write", "plist"),
                   S("copy", "cli"), Migrate("authorization", <<"EO">>, <<"E">>), Step("commit"),
                   S("drop", "pamOld")}
  <2>1. InstallMac \in Seq(T)
    BY DEF InstallMac
  <2>2. \A s \in T : Allowed(s)
    BY <1>1, <1>2, <1>3
  <2> QED BY <2>1, <2>2, FitsOf
<1>7. Fits(InstallLinux)
  <2> DEFINE files == <<S("write", "exe"), S("setuid", "exe"), S("write", "pam"), S("drop", "pamOld"),
                        S("write", "askpass"), S("setuid", "askpass"), S("copy", "cli")>>
             T == {S("write", "exe"), S("setuid", "exe"), S("write", "pam"), S("drop", "pamOld"),
                   S("write", "askpass"), S("setuid", "askpass"), S("copy", "cli")}
             migrate == Each(FileList, LAMBDA f : Migrate(f, OldEntry(f), Entry(f)))
             sddm == <<Migrate("sddm", <<"EO">>, <<"E">>), Step("commit")>>
             firewall == <<S("copy", "firewall")>>
             policy == <<S("copy", "policy")>>
             ufw == When("ufw" \in Programs, firewall)
             selinux == When("semodule" \in Programs, policy)
  <2>1. Fits(files)
    <3>1. files \in Seq(T)
      OBVIOUS
    <3>2. \A s \in T : Allowed(s)
      BY <1>1
    <3> HIDE DEF files
    <3> QED BY <3>1, <3>2, FitsOf
  <2>2. Fits(migrate)
    <3>1. IsSeq(migrate)
      BY FileLists, EachSeq DEF Each
    <3>2. \A i \in DOMAIN migrate : migrate[i].do = "migrate"
      BY DEF Each, Migrate
    <3> QED BY <3>1, <3>2, FitsSet
  <2>3. Fits(sddm)
    <3> DEFINE U == {Migrate("sddm", <<"EO">>, <<"E">>), Step("commit")}
    <3>1. sddm \in Seq(U)
      OBVIOUS
    <3>2. \A s \in U : Allowed(s)
      BY <1>2, <1>3
    <3> HIDE DEF sddm
    <3> QED BY <3>1, <3>2, FitsOf
  <2>4. Fits(ufw) /\ Fits(selinux)
    <3>1. firewall \in Seq({S("copy", "firewall")}) /\ policy \in Seq({S("copy", "policy")})
      OBVIOUS
    <3>2. Allowed(S("copy", "firewall")) /\ ("semodule" \in Programs => Allowed(S("copy", "policy")))
      BY <1>1 DEF Allowed
    <3> HIDE DEF firewall, policy
    <3>3. Fits(firewall) /\ ("semodule" \in Programs => Fits(policy))
      BY <3>1, <3>2, FitsOf
    <3>4. Fits(<<>>)
      BY EmptySteps DEF Fits, ToSet
    <3> QED BY <3>3, <3>4 DEF When
  <2> HIDE DEF files, migrate, sddm, ufw, selinux, T
  <2>5. Fits(files \o migrate \o sddm \o ufw \o selinux)
    BY <2>1, <2>2, <2>3, <2>4, FitsJoined
  <2> QED BY <2>5 DEF InstallLinux, files, migrate, sddm, ufw, selinux, firewall, policy
<1> QED BY <1>5, <1>6, <1>7, InstallerAssumption DEF Install

(* Uninstalling removes every module and, when full, the helper of ssh. *)
LEMMA FitsUninstall ==
    ASSUME NEW full, platform \in Platforms
    PROVE  /\ FitsUndo(Uninstall(full))
           /\ \A a \in Artefacts \ Optional :
                 a # "policy" \/ "semodule" \in Programs =>
                     {S("drop", a), S("unset", a)} \cap ToSet(Uninstall(full)) # {}
           /\ full /\ platform # "windows" => \E s \in ToSet(Uninstall(full)) : s.do = "ssh"
<1>1. \A do, a : do \notin Puts \cup {"ssh", "apply"} => Allowed(S(do, a)) /\ Undoing(S(do, a))
  BY DEF S, Allowed, Undoing
<1> DEFINE drops == <<S("drop", "exe"), S("drop", "pam"), S("drop", "pamOld"), S("drop", "askpass")>>
           T == {S("drop", "exe"), S("drop", "pam"), S("drop", "pamOld"), S("drop", "askpass")}
           env == [do |-> "ssh", enabled |-> FALSE]
           end == Step("commit")
           cli == <<S("drop", "cli")>>
           tool == When(full, cli)
<1>2. drops \in Seq(T) /\ ToSet(drops) = T
  <2>1. DOMAIN drops = 1..4 /\ \A i \in 1..4 : drops[i] \in T
    OBVIOUS
  <2>2. /\ drops[1] = S("drop", "exe") /\ drops[2] = S("drop", "pam") /\ drops[3] = S("drop", "pamOld")
        /\ drops[4] = S("drop", "askpass") /\ drops \in Seq(T)
    OBVIOUS
  <2> HIDE DEF drops
  <2> QED BY <2>1, <2>2 DEF ToSet
<1>3. FitsUndo(drops)
  <2>1. \A s \in T : Allowed(s) /\ Undoing(s)
    BY <1>1 DEF Puts
  <2> HIDE DEF drops, T
  <2> QED BY <1>2, <2>1, FitsOf
<1>4. FitsUndo(tool)
  <2>1. cli \in Seq({S("drop", "cli")})
    OBVIOUS
  <2>2. Allowed(S("drop", "cli")) /\ Undoing(S("drop", "cli"))
    BY <1>1 DEF Puts
  <2> HIDE DEF cli
  <2> QED BY <2>1, <2>2, FitsOf, FitsWhen
<1>5. /\ env.do = "ssh" /\ Undoing(env) /\ (platform # "windows" => Allowed(env))
      /\ Undoing(end) /\ Allowed(end)
  BY DEF Undoing, Allowed, Puts, Step
<1> HIDE DEF drops, env, end, cli, tool
<1>6. CASE platform = "linux"
  <2> DEFINE two == <<end, env>>
             edits == When(full, RemoveEntries \o two)
             one == <<S("drop", "firewall")>>
             ufw == When("ufw" \in Programs, one)
             module == <<S("unset", "policy")>>
             policy == When("semodule" \in Programs, module)
  <2>1. /\ two \in Seq({end, env}) /\ DOMAIN two = 1..2 /\ two[2] = env
        /\ one \in Seq({S("drop", "firewall")})
        /\ module \in Seq({S("unset", "policy")}) /\ DOMAIN module = 1..1 /\ module[1] = S("unset", "policy")
    OBVIOUS
  <2> HIDE DEF two, one, module
  <2>2. FitsUndo(two) /\ env \in ToSet(two)
    <3>1. \A s \in {end, env} : Allowed(s) /\ Undoing(s)
      BY <1>5, <1>6
    <3> QED BY <2>1, <3>1, FitsOf DEF ToSet
  <2>3. FitsUndo(one) /\ FitsUndo(module) /\ S("unset", "policy") \in ToSet(module)
    <3>1. \A s \in {S("drop", "firewall")} : Allowed(s) /\ Undoing(s)
      BY <1>1 DEF Puts
    <3>2. \A s \in {S("unset", "policy")} : Allowed(s) /\ Undoing(s)
      BY <1>1 DEF Puts
    <3> QED BY <2>1, <3>1, <3>2, FitsOf DEF ToSet
  <2>4. FitsUndo(RemoveEntries \o two) /\ ToSet(RemoveEntries \o two) = ToSet(RemoveEntries) \cup ToSet(two)
    BY <2>2, FitsRemove, FitsJoined, JoinedSet DEF FitsUndo
  <2>5. FitsUndo(edits) /\ (full => env \in ToSet(edits))
    BY <2>2, <2>4, FitsWhen DEF When
  <2>6. FitsUndo(ufw) /\ FitsUndo(policy) /\ ("semodule" \in Programs => S("unset", "policy") \in ToSet(policy))
    BY <2>3, FitsWhen DEF When
  <2> HIDE DEF edits, ufw, policy
  <2>7. /\ FitsUndo(drops \o edits) /\ FitsUndo(drops \o edits \o ufw)
        /\ FitsUndo(drops \o edits \o ufw \o policy) /\ FitsUndo(drops \o edits \o ufw \o policy \o tool)
    BY <1>3, <1>4, <2>5, <2>6, FitsJoined
  <2>8. ToSet(drops \o edits \o ufw \o policy \o tool) =
            ToSet(drops) \cup ToSet(edits) \cup ToSet(ufw) \cup ToSet(policy) \cup ToSet(tool)
    BY <1>3, <1>4, <2>5, <2>6, <2>7, JoinedSet DEF FitsUndo
  <2>9. Uninstall(full) = drops \o edits \o ufw \o policy \o tool
    BY <1>6 DEF Uninstall, UninstallLinux, drops, edits, ufw, policy, tool, two, one, module, env, end, cli
  <2>10. \A a \in Artefacts \ Optional : a \in {"exe", "pam", "pamOld", "askpass", "policy"}
    BY <1>6 DEF Artefacts, Optional
  <2> HIDE DEF T
  <2>11. \A a \in {"exe", "pam", "pamOld", "askpass"} : S("drop", a) \in ToSet(Uninstall(full))
    BY <1>2, <2>8, <2>9 DEF T
  <2>12. "semodule" \in Programs => S("unset", "policy") \in ToSet(Uninstall(full))
    BY <2>6, <2>8, <2>9
  <2>13. full => env \in ToSet(Uninstall(full))
    BY <2>5, <2>8, <2>9
  <2> QED BY <1>5, <2>7, <2>9, <2>10, <2>11, <2>12, <2>13
<1>7. CASE platform = "mac"
  <2> DEFINE one == <<end>>
             edits == When(full, RemoveEntries \o one)
             var == <<env>>
             ssh1 == When(full, var)
             helper == <<Step("unregister"), S("drop", "plist"), S("drop", "agent")>>
             U == {Step("unregister"), S("drop", "plist"), S("drop", "agent")}
  <2>1. /\ one \in Seq({end}) /\ var \in Seq({env}) /\ DOMAIN var = 1..1 /\ var[1] = env
        /\ helper \in Seq(U) /\ DOMAIN helper = 1..3
        /\ helper[2] = S("drop", "plist") /\ helper[3] = S("drop", "agent")
    OBVIOUS
  <2> HIDE DEF one, var, helper
  <2>2. FitsUndo(one) /\ FitsUndo(var) /\ env \in ToSet(var)
    BY <1>5, <1>7, <2>1, FitsOf DEF ToSet
  <2>3. FitsUndo(helper) /\ {S("drop", "plist"), S("drop", "agent")} \subseteq ToSet(helper)
    <3>1. \A s \in U : Allowed(s) /\ Undoing(s)
      <4>1. Allowed(Step("unregister")) /\ Undoing(Step("unregister"))
        BY DEF Step, Allowed, Undoing, Puts
      <4> QED BY <1>1, <4>1 DEF Puts
    <3> HIDE DEF U
    <3>2. FitsUndo(helper)
      BY <2>1, <3>1, FitsOf
    <3> QED BY <2>1, <3>2 DEF ToSet
  <2>4. FitsUndo(edits)
    BY <2>2, FitsRemove, FitsJoined, FitsWhen
  <2>5. FitsUndo(ssh1) /\ (full => env \in ToSet(ssh1))
    BY <2>2, FitsWhen DEF When
  <2> HIDE DEF edits, ssh1
  <2>7. /\ FitsUndo(edits \o drops) /\ FitsUndo(edits \o drops \o ssh1)
        /\ FitsUndo(edits \o drops \o ssh1 \o helper) /\ FitsUndo(edits \o drops \o ssh1 \o helper \o tool)
    BY <1>3, <1>4, <2>3, <2>4, <2>5, FitsJoined
  <2>8. ToSet(edits \o drops \o ssh1 \o helper \o tool) =
            ToSet(edits) \cup ToSet(drops) \cup ToSet(ssh1) \cup ToSet(helper) \cup ToSet(tool)
    BY <1>3, <1>4, <2>3, <2>4, <2>5, <2>7, JoinedSet DEF FitsUndo
  <2>9. Uninstall(full) = edits \o drops \o ssh1 \o helper \o tool
    BY <1>7 DEF Uninstall, UninstallMac, drops, edits, ssh1, helper, tool, one, var, env, end, cli
  <2>10. \A a \in Artefacts \ Optional : a \in {"exe", "pam", "pamOld", "askpass", "plist", "agent"}
    BY <1>7 DEF Artefacts, Optional
  <2> HIDE DEF T
  <2>11. \A a \in {"exe", "pam", "pamOld", "askpass"} : S("drop", a) \in ToSet(Uninstall(full))
    BY <1>2, <2>8, <2>9 DEF T
  <2>12. \A a \in {"plist", "agent"} : S("drop", a) \in ToSet(Uninstall(full))
    BY <2>3, <2>8, <2>9
  <2>13. full => env \in ToSet(Uninstall(full))
    BY <2>5, <2>8, <2>9
  <2> QED BY <1>5, <2>7, <2>9, <2>10, <2>11, <2>12, <2>13
<1>8. CASE platform = "windows"
  <2> DEFINE U == {S("drop", "lib"), S("drop", "libOld"), S("unset", "regProvider"),
                   S("unset", "regClsid"), S("drop", "firewall")}
  <2>1. /\ UninstallWin \in Seq(U) /\ DOMAIN UninstallWin = 1..5
        /\ UninstallWin[1] = S("drop", "lib") /\ UninstallWin[2] = S("drop", "libOld")
        /\ UninstallWin[3] = S("unset", "regProvider") /\ UninstallWin[4] = S("unset", "regClsid")
    BY DEF UninstallWin
  <2>2. \A s \in U : Allowed(s) /\ Undoing(s)
    BY <1>1 DEF Puts
  <2> HIDE DEF U
  <2>3. FitsUndo(UninstallWin)
    BY <2>1, <2>2, FitsOf
  <2>4. {S("drop", "lib"), S("drop", "libOld"), S("unset", "regProvider"), S("unset", "regClsid")}
            \subseteq ToSet(UninstallWin)
    BY <2>1 DEF ToSet
  <2>5. \A a \in Artefacts \ Optional : a \in {"lib", "libOld", "regProvider", "regClsid"}
    BY <1>8 DEF Artefacts, Optional
  <2>6. Uninstall(full) = UninstallWin
    BY <1>8 DEF Uninstall
  <2> QED BY <1>8, <2>3, <2>4, <2>5, <2>6
<1> QED BY <1>6, <1>7, <1>8, InstallerAssumption

(* The operations. *)
LEMMA FitsOperations ==
    ASSUME RemoveInv
    PROVE  /\ Fits(AppInstall) /\ Fits(AppUninstall) /\ Fits(AppReinstall)
           /\ \A s : Fits(ApplySettings(s))
           /\ Undoes(ToSet(AppUninstall))
<1>0. platform \in Platforms
  BY DEF RemoveInv
<1> DEFINE move == <<Step("movedir")>>
           check == <<Save("version", "check")>>
           fresh == <<[do |-> "apply", default |-> TRUE], Save("version", "check")>>
           again == <<[do |-> "apply", default |-> FALSE], Step("movedir"), Save("version", "current")>>
           T == {[do |-> "apply", default |-> TRUE], [do |-> "apply", default |-> FALSE],
                 Step("movedir"), Save("version", "check"), Save("version", "current")}
           U == {Step("movedir"), Save("version", "check")}
<1>1. (\A s \in T : Allowed(s)) /\ (\A s \in U : Allowed(s) /\ Undoing(s))
  BY DEF Step, Save, Puts, Allowed, Undoing
<1>2. move \in Seq(U) /\ check \in Seq(U) /\ fresh \in Seq(T) /\ again \in Seq(T)
  OBVIOUS
<1> HIDE DEF move, check, fresh, again, T, U
<1>3. FitsUndo(move) /\ FitsUndo(check) /\ Fits(move) /\ Fits(check) /\ Fits(fresh) /\ Fits(again)
  BY <1>1, <1>2, FitsOf, FitsJoined
<1>4. Fits(Install) /\ FitsUndo(Uninstall(TRUE)) /\ FitsUndo(Uninstall(FALSE)) /\ Fits(Uninstall(FALSE))
  BY <1>0, FitsInstall, FitsUninstall, FitsJoined
<1>5. Fits(move \o Install \o fresh)
  BY <1>3, <1>4, FitsJoined
<1>6. FitsUndo(move \o Uninstall(TRUE)) /\ FitsUndo(move \o Uninstall(TRUE) \o check)
  BY <1>3, <1>4, FitsJoined
<1>7. Fits(When(IsInstalled, Uninstall(FALSE)) \o Install \o again)
  BY <1>3, <1>4, FitsJoined, FitsWhen
<1>8. AppUninstall = move \o Uninstall(TRUE) \o check
  BY DEF AppUninstall, move, check
<1>9. ToSet(Uninstall(TRUE)) \subseteq ToSet(AppUninstall)
  <2>1. IsSeq(move) /\ IsSeq(check) /\ IsSeq(Uninstall(TRUE)) /\ IsSeq(move \o Uninstall(TRUE))
    BY <1>3, <1>4, <1>6 DEF FitsUndo
  <2>2. ToSet(Uninstall(TRUE)) \subseteq ToSet(move \o Uninstall(TRUE))
    BY <2>1, JoinedSet
  <2>3. ToSet(move \o Uninstall(TRUE)) \subseteq ToSet((move \o Uninstall(TRUE)) \o check)
    BY <2>1, JoinedSet
  <2> QED BY <1>8, <2>2, <2>3
<1>10. Undoes(ToSet(AppUninstall))
  <2>1. \A s \in ToSet(AppUninstall) : Undoing(s)
    BY <1>6, <1>8 DEF FitsUndo
  <2>2. ssh => \E s \in ToSet(AppUninstall) : s.do = "ssh"
    BY <1>0, <1>9, FitsUninstall DEF RemoveInv
  <2>3. ASSUME NEW a \in Artefacts \ Optional, Exists(a)
        PROVE  {S("drop", a), S("unset", a)} \cap ToSet(AppUninstall) # {}
    <3>1. a # "policy" \/ "semodule" \in Programs
      BY <2>3, InstallerAssumption DEF RemoveInv, Artefacts
    <3> QED BY <1>0, <1>9, <3>1, FitsUninstall
  <2> QED BY <2>1, <2>2, <2>3 DEF Undoes
<1> QED BY <1>0, <1>5, <1>6, <1>7, <1>8, <1>10, FitsApply, FitsJoined
        DEF AppInstall, AppReinstall, move, fresh, again

(* A step goes on with the rest, or with allowed steps before it. *)
Follows(next) ==
    \E pre : /\ Fits(pre) /\ next = pre \o Tail(todo)
             /\ op = "uninstall" => FitsUndo(pre)
Continues == result' = result /\ Follows(todo')

LEMMA FollowsRest ==
    ASSUME RemoveInv, Running, todo # <<>>
    PROVE  Follows(Tail(todo))
<1>1. IsSeq(Tail(todo))
  BY Rest DEF RemoveInv
<1>2. <<>> \o Tail(todo) = Tail(todo)
  BY <1>1, NoMore
<1>3. Fits(<<>>) /\ FitsUndo(<<>>)
  BY EmptySteps DEF Fits, FitsUndo, ToSet
<1> QED BY <1>2, <1>3 DEF Follows

LEMMA FollowsStep ==
    ASSUME NEW s, s.do \in {"save", "update"}
    PROVE  Follows(<<s>> \o Tail(todo))
<1>1. Allowed(s) /\ Undoing(s)
  BY DEF Allowed, Undoing, Puts
<1>2. IsSeq(<<s>>) /\ ToSet(<<s>>) = {s}
  BY OneStep DEF ToSet
<1>3. FitsUndo(<<s>>) /\ Fits(<<s>>)
  BY <1>1, <1>2 DEF FitsUndo, Fits
<1> QED BY <1>3 DEF Follows

LEMMA CommandFollows ==
    ASSUME NEW ready, NEW strict, NEW eff, NEW next, Follows(next), Command(ready, strict, eff, next)
    PROVE  result' = "failed" \/ (Continues /\ (strict => eff = "done"))
BY DEF Command, Proceed, Throw, Continues

LEMMA ProceedFollows ==
    ASSUME NEW next, Follows(next), Proceed(next)
    PROVE  Continues
BY DEF Proceed, Continues

(* A step keeps RemoveInv if it puts in place only what it is for, and goes *)
(* on only when what it is to remove is gone.                               *)
LEMMA RemoveStepKeeps ==
    ASSUME RemoveInv, Running, todo # <<>>, UNCHANGED <<platform, op>>,
           result' = "failed" \/ Continues,
           art' \in [Artefacts -> ArtStates],
           \A a \in Artefacts \ Optional :
               art'[a] # "none" => art[a] # "none" \/ (Next1.do \in Puts /\ Next1.on = a),
           Continues => \A a \in Artefacts \ Optional :
                            Next1 \in {S("drop", a), S("unset", a)} => art'[a] = "none",
           ssh' => ssh \/ (Next1.do = "ssh" /\ Next1.enabled # FALSE),
           Continues /\ Next1.do = "ssh" /\ Next1.enabled = FALSE => ~ssh'
    PROVE  RemoveInv'
<1>1. Artefacts' = Artefacts
  BY DEF Artefacts
<1>2. IsSeq(todo) /\ (\A s \in ToSet(todo) : Allowed(s)) /\ (op = "uninstall" => Undoes(ToSet(todo)))
  BY DEF RemoveInv
<1>3. IsSeq(Tail(todo)) /\ ToSet(todo) = {Next1} \cup ToSet(Tail(todo))
  BY <1>2, RestSet DEF Next1
<1>4. Allowed(Next1)
  BY <1>2, <1>3
<1>5. platform' = "linux" /\ "semodule" \notin Programs => art'["policy"] = "none"
  <2> SUFFICES ASSUME platform = "linux", "semodule" \notin Programs PROVE art'["policy"] = "none"
    OBVIOUS
  <2>1. "policy" \in Artefacts \ Optional
    BY DEF Artefacts, Optional
  <2>2. art["policy"] = "none"
    BY DEF RemoveInv, Exists
  <2> QED BY <1>4, <2>1, <2>2 DEF Allowed
<1>6. platform' = "windows" => ~ssh'
  BY <1>4 DEF Allowed, RemoveInv
<1>7. CASE result' = "failed"
  BY <1>1, <1>5, <1>6, <1>7 DEF RemoveInv, Running, Exists
<1>8. CASE Continues
  <2>1. PICK pre : Fits(pre) /\ todo' = pre \o Tail(todo) /\ (op = "uninstall" => FitsUndo(pre))
    BY <1>8 DEF Continues, Follows
  <2>2. IsSeq(todo') /\ ToSet(todo') = ToSet(pre) \cup ToSet(Tail(todo))
    BY <1>3, <2>1, Joined, JoinedSet DEF Fits
  <2>3. \A s \in ToSet(todo') : Allowed(s)
    BY <1>2, <1>3, <2>1, <2>2 DEF Fits
  <2>4. (\A s \in ToSet(todo) : Allowed(s))'
    BY <2>3 DEF Allowed, ToSet, Puts
  <2>5. ASSUME op = "uninstall" PROVE Undoes(ToSet(todo))'
    <3>0. Undoes(ToSet(todo))
      BY <1>2, <2>5
    <3>1. \A s \in ToSet(todo') : Undoing(s)
      BY <1>3, <2>1, <2>2, <2>5, <3>0 DEF FitsUndo, Undoes
    <3>2. ASSUME NEW a \in Artefacts \ Optional, art'[a] # "none"
          PROVE  {S("drop", a), S("unset", a)} \cap ToSet(todo') # {}
      <4>1. Undoing(Next1)
        BY <1>3, <3>0 DEF Undoes
      <4>2. art[a] # "none"
        BY <3>2, <4>1 DEF Undoing
      <4>3. {S("drop", a), S("unset", a)} \cap ToSet(todo) # {}
        BY <3>0, <4>2 DEF Undoes, Exists
      <4>4. Next1 \notin {S("drop", a), S("unset", a)}
        BY <1>8, <3>2
      <4> QED BY <1>3, <2>2, <4>3, <4>4
    <3>3. ASSUME ssh' PROVE \E s \in ToSet(todo') : s.do = "ssh"
      <4>1. Undoing(Next1)
        BY <1>3, <3>0 DEF Undoes
      <4>2. ssh /\ Next1.do # "ssh"
        BY <1>8, <3>3, <4>1 DEF Undoing
      <4>3. \E s \in ToSet(todo) : s.do = "ssh"
        BY <3>0, <4>2 DEF Undoes
      <4> QED BY <1>3, <2>2, <4>2, <4>3
    <3>4. (\A s \in ToSet(todo) : Undoing(s))'
      BY <3>1 DEF Undoing, ToSet, Puts
    <3>5. (\A a \in Artefacts \ Optional : Exists(a) => {S("drop", a), S("unset", a)} \cap ToSet(todo) # {})'
      BY <1>1, <3>2 DEF Exists, S, Optional, ToSet
    <3>6. (ssh => \E s \in ToSet(todo) : s.do = "ssh")'
      BY <3>3 DEF ToSet
    <3> QED BY <3>4, <3>5, <3>6 DEF Undoes
  <2>6. result' = "running"
    BY <1>8 DEF Continues, Running
  <2>7. IsSeq(todo)'
    BY <2>2 DEF IsSeq, ToSet
  <2> QED BY <1>1, <1>5, <1>6, <2>4, <2>5, <2>6, <2>7 DEF RemoveInv, Running, Exists
<1> QED BY <1>7, <1>8

LEMMA StepNames ==
    \A do, a : S(do, a).do = do /\ S(do, a).on = a /\ S(do, a).strict = (a \notin Optional)
BY DEF S

LEMMA FileStepRemoves ==
    ASSUME RemoveInv, WriteFile \/ SetInPlace \/ DropFile \/ Unset
    PROVE  RemoveInv'
<1>1. Running /\ todo # <<>> /\ UNCHANGED <<platform, op, ssh>>
  BY DEF WriteFile, SetInPlace, DropFile, Unset, Does, opVars
<1>2. Follows(Tail(todo)) /\ art \in [Artefacts -> ArtStates]
  BY <1>1, FollowsRest DEF RemoveInv
<1>3. ASSUME WriteFile \/ SetInPlace PROVE RemoveInv'
  <2>1. Next1.do \in Puts
    BY <1>3 DEF WriteFile, SetInPlace, Does, Puts
  <2>2. PICK eff : Command(Ready, Next1.strict, eff, Tail(todo))
    BY <1>3 DEF WriteFile, SetInPlace
  <2>3. result' = "failed" \/ Continues
    BY <1>2, <2>2, CommandFollows
  <2>4. art' \in [Artefacts -> ArtStates] /\ \A a \in Artefacts : Next1.on # a => art'[a] = art[a]
    BY <1>2, <1>3 DEF WriteFile, SetInPlace, After, ArtStates
  <2>5. \A a : Next1 \notin {S("drop", a), S("unset", a)}
    BY <2>1, StepNames DEF Puts
  <2>6. Next1.do # "ssh"
    BY <2>1 DEF Puts
  <2> QED BY <1>1, <2>1, <2>3, <2>4, <2>5, <2>6, RemoveStepKeeps
<1>4. ASSUME DropFile, ~Exists(Next1.on) PROVE RemoveInv'
  <2>1. Next1.do = "drop" /\ Proceed(Tail(todo)) /\ art' = art
    BY <1>4 DEF DropFile, Does
  <2>2. Continues
    BY <1>2, <2>1, ProceedFollows
  <2>3. \A a \in Artefacts \ Optional : Next1 \in {S("drop", a), S("unset", a)} => art'[a] = "none"
    BY <1>4, <2>1, StepNames DEF Exists
  <2> QED BY <1>1, <1>2, <2>1, <2>2, <2>3, RemoveStepKeeps
<1>5. ASSUME DropFile, Exists(Next1.on) PROVE RemoveInv'
  <2>1. PICK eff \in {"done", "none", "torn"} :
               /\ Command(Ready, Next1.strict, eff, Tail(todo))
               /\ art' = [art EXCEPT ![Next1.on] = After(eff, "none", @)]
    BY <1>5 DEF DropFile
  <2>2. Next1.do = "drop"
    BY <1>5 DEF DropFile, Does
  <2>3. art' \in [Artefacts -> ArtStates] /\ \A a \in Artefacts : art'[a] # "none" => art[a] # "none"
    BY <1>2, <1>5, <2>1 DEF After, ArtStates, Exists
  <2>4. result' = "failed" \/ (Continues /\ (Next1.strict => eff = "done"))
    BY <1>2, <2>1, CommandFollows
  <2>5. (Next1.strict => eff = "done") => \A a \in Artefacts \ Optional :
            Next1 \in {S("drop", a), S("unset", a)} => art'[a] = "none"
    <3>1. \A a \in Artefacts \ Optional :
              Next1 \in {S("drop", a), S("unset", a)} => Next1.on = a /\ Next1.strict
      <4> TAKE a \in Artefacts \ Optional
      <4>1. S("drop", a).strict /\ S("unset", a).strict
        BY StepNames
      <4>2. S("drop", a).on = a /\ S("unset", a).on = a
        BY StepNames
      <4> QED BY <4>1, <4>2
    <3>2. eff = "done" => \A a \in Artefacts : Next1.on = a => art'[a] = "none"
      BY <1>2, <2>1 DEF After
    <3> QED BY <3>1, <3>2
  <2>6. result' = "failed" => ~Continues
    BY <1>1 DEF Continues, Running
  <2> QED BY <1>1, <2>2, <2>3, <2>4, <2>5, <2>6, RemoveStepKeeps
<1>6. ASSUME Unset, Ready, ~Exists(Next1.on) PROVE RemoveInv'
  <2>1. Next1.do = "unset" /\ result' = "failed" /\ art' = art
    BY <1>6 DEF Unset, Does, Throw
  <2>2. ~Continues
    BY <1>1, <2>1 DEF Continues, Running
  <2> QED BY <1>1, <1>2, <2>1, <2>2, RemoveStepKeeps
<1>7. ASSUME Unset, ~(Ready /\ ~Exists(Next1.on)) PROVE RemoveInv'
  <2>1. PICK eff \in {"done", "none"} :
               /\ Command(Ready, TRUE, eff, Tail(todo))
               /\ art' = [art EXCEPT ![Next1.on] = After(eff, "none", @)]
    BY <1>7 DEF Unset
  <2>2. Next1.do = "unset"
    BY <1>7 DEF Unset, Does
  <2>3. art' \in [Artefacts -> ArtStates] /\ \A a \in Artefacts : art'[a] # "none" => art[a] # "none"
    BY <1>2, <2>1 DEF After, ArtStates
  <2>4. result' = "failed" \/ (Continues /\ eff = "done")
    BY <1>2, <2>1, CommandFollows
  <2>5. eff = "done" => \A a \in Artefacts \ Optional :
            Next1 \in {S("drop", a), S("unset", a)} => art'[a] = "none"
    BY <1>2, <2>1, StepNames DEF After
  <2>6. result' = "failed" => ~Continues
    BY <1>1 DEF Continues, Running
  <2> QED BY <1>1, <2>2, <2>3, <2>4, <2>5, <2>6, RemoveStepKeeps
<1> QED BY <1>3, <1>4, <1>5, <1>6, <1>7

LEMMA HelperStepRemoves ==
    ASSUME RemoveInv, RegisterHelper \/ RemoveAllRulesForProgram
    PROVE  RemoveInv'
<1>1. /\ Running /\ todo # <<>> /\ UNCHANGED <<platform, op, ssh>>
      /\ Next1.do \in {"register", "unregister", "purge"} /\ Proceed(Tail(todo))
  BY DEF RegisterHelper, RemoveAllRulesForProgram, Does, opVars
<1>2. Follows(Tail(todo)) /\ art \in [Artefacts -> ArtStates]
  BY <1>1, FollowsRest DEF RemoveInv
<1>3. Continues
  BY <1>1, <1>2, ProceedFollows
<1>4. art' \in [Artefacts -> ArtStates] /\ \A a \in Artefacts \ Optional : art'[a] = art[a]
  BY <1>2 DEF RegisterHelper, RemoveAllRulesForProgram, ArtStates, Optional
<1>5. \A a : Next1 \notin {S("drop", a), S("unset", a)}
  BY <1>1, StepNames
<1> QED BY <1>1, <1>3, <1>4, <1>5, RemoveStepKeeps

(* The steps that leave the modules and the environment file alone. *)
LEMMA QuietStepRemoves ==
    ASSUME RemoveInv, Running, todo # <<>>, Next1.do \notin {"drop", "unset", "ssh"},
           UNCHANGED <<platform, op, art, ssh>>, result' = "failed" \/ Continues
    PROVE  RemoveInv'
<1>1. \A a : Next1 \notin {S("drop", a), S("unset", a)}
  BY StepNames
<1>2. art' \in [Artefacts -> ArtStates]
  BY DEF RemoveInv
<1> QED BY <1>1, <1>2, RemoveStepKeeps

LEMMA PamStepRemoves ==
    ASSUME RemoveInv, SetConfigEntry \/ MigrateConfigEntry \/ Commit \/ CommitFile \/ CommitWithTerminal
    PROVE  RemoveInv'
<1>1. /\ Running /\ todo # <<>> /\ Next1.do \notin {"drop", "unset", "ssh"}
      /\ UNCHANGED <<platform, op, art, ssh>>
  BY DEF SetConfigEntry, MigrateConfigEntry, Commit, CommitFile, CommitWithTerminal, Does, opVars, sysVars
<1>2. Follows(Tail(todo))
  BY <1>1, FollowsRest
<1>3. ASSUME SetConfigEntry PROVE result' = "failed" \/ Continues
  <2>1. \/ Proceed(Tail(todo))
        \/ \E eff : Command(Ready, FALSE, eff, Tail(todo))
    BY <1>3 DEF SetConfigEntry, SetPolkitRestrictions
  <2> QED BY <1>2, <2>1, CommandFollows, ProceedFollows
<1>4. ASSUME MigrateConfigEntry PROVE Continues
  BY <1>2, <1>4, ProceedFollows DEF MigrateConfigEntry
<1>5. ASSUME Commit PROVE Continues
  <2>1. PICK changes : Proceed(<<[do |-> "update", to |-> changes]>> \o Tail(todo))
    BY <1>5 DEF Commit
  <2>2. Follows(<<[do |-> "update", to |-> changes]>> \o Tail(todo))
    BY FollowsStep
  <2> QED BY <2>1, <2>2, ProceedFollows
<1>6. ASSUME CommitFile PROVE result' = "failed" \/ Continues
  <2>1. CASE Proceed(Tail(todo))
    BY <1>2, <2>1, ProceedFollows
  <2>2. CASE \E eff, left : Command(Ready, TRUE, eff, <<[do |-> "update", to |-> left]>> \o Tail(todo))
    <3>1. PICK eff, left : Command(Ready, TRUE, eff, <<[do |-> "update", to |-> left]>> \o Tail(todo))
      BY <2>2
    <3>2. Follows(<<[do |-> "update", to |-> left]>> \o Tail(todo))
      BY FollowsStep
    <3> QED BY <3>1, <3>2, CommandFollows
  <2> QED BY <1>6, <2>1, <2>2 DEF CommitFile
<1>7. ASSUME CommitWithTerminal PROVE result' = "failed" \/ Continues
  <2>1. \/ Proceed(Tail(todo))
        \/ \E eff : Command(Ready, TRUE, eff, Tail(todo))
    BY <1>7 DEF CommitWithTerminal
  <2> QED BY <1>2, <2>1, CommandFollows, ProceedFollows
<1> QED BY <1>1, <1>3, <1>4, <1>5, <1>6, <1>7, QuietStepRemoves

LEMMA SshStepRemoves ==
    ASSUME RemoveInv, SetSshEnabled
    PROVE  RemoveInv'
<1>1. Running /\ todo # <<>> /\ Next1.do = "ssh" /\ UNCHANGED <<platform, op, art>>
  BY DEF SetSshEnabled, Does, opVars
<1>2. Follows(Tail(todo)) /\ art' \in [Artefacts -> ArtStates]
  BY <1>1, FollowsRest DEF RemoveInv
<1>3. PICK eff : /\ Command(TRUE, TRUE, eff, Tail(todo))
                 /\ ssh' = IF eff = "none" THEN ssh ELSE Next1.enabled /\ eff = "done"
  BY DEF SetSshEnabled
<1>4. result' = "failed" \/ (Continues /\ eff = "done")
  BY <1>2, <1>3, CommandFollows
<1>5. result' = "failed" => ~Continues
  BY <1>1 DEF Continues, Running
<1>6. ssh' => ssh \/ Next1.enabled # FALSE
  BY <1>3
<1>7. eff = "done" /\ Next1.enabled = FALSE => ~ssh'
  BY <1>3
<1>8. \A a : Next1 \notin {S("drop", a), S("unset", a)}
  BY <1>1, StepNames
<1> QED BY <1>1, <1>2, <1>4, <1>5, <1>6, <1>7, <1>8, RemoveStepKeeps

LEMMA OtherStepRemoves ==
    ASSUME RemoveInv, SaveSettings \/ MigrateBaseDir \/ ApplyCurrent
    PROVE  RemoveInv'
<1>1. /\ Running /\ todo # <<>> /\ Next1.do \notin {"drop", "unset", "ssh"}
      /\ UNCHANGED <<platform, op, art, ssh>>
  BY DEF SaveSettings, MigrateBaseDir, ApplyCurrent, Does, opVars, sysVars
<1>2. Follows(Tail(todo))
  BY <1>1, FollowsRest
<1>3. ASSUME SaveSettings PROVE result' = "failed" \/ Continues
  <2>1. PICK eff : Command(Ready, FALSE, eff, Tail(todo))
    BY <1>3 DEF SaveSettings
  <2> QED BY <1>2, <2>1, CommandFollows
<1>4. ASSUME MigrateBaseDir PROVE result' = "failed" \/ Continues
  <2>1. CASE dir = "new"
    BY <1>2, <1>4, <2>1, ProceedFollows DEF MigrateBaseDir
  <2>2. CASE dir # "new"
    <3> DEFINE clear == <<Save("version", "none")>>
    <3>1. PICK eff : Command(Ready, FALSE, eff, When(eff = "none", clear) \o Tail(todo))
      BY <1>4, <2>2 DEF MigrateBaseDir
    <3>2. Follows(When(eff = "none", clear) \o Tail(todo))
      <4>1. Follows(clear \o Tail(todo))
        BY FollowsStep DEF Save
      <4>2. <<>> \o Tail(todo) = Tail(todo)
        BY <1>1, Rest, NoMore DEF RemoveInv
      <4> HIDE DEF clear
      <4> QED BY <1>2, <4>1, <4>2 DEF When
    <3> HIDE DEF clear
    <3> QED BY <3>1, <3>2, CommandFollows
  <2> QED BY <2>1, <2>2
<1>5. ASSUME ApplyCurrent PROVE Continues
  <2>1. PICK s : Proceed(ApplySettings(s) \o Tail(todo))
    BY <1>5 DEF ApplyCurrent
  <2>2. op # "uninstall"
    <3>1. Next1.do = "apply" /\ Next1 \in ToSet(todo)
      BY <1>1, <1>5, RestSet DEF ApplyCurrent, Does, Next1, RemoveInv
    <3> QED BY <1>1, <3>1 DEF RemoveInv, Undoes, Undoing
  <2>3. Follows(ApplySettings(s) \o Tail(todo))
    BY <2>2, FitsApply DEF Follows, RemoveInv
  <2> QED BY <2>1, <2>3, ProceedFollows
<1> QED BY <1>1, <1>3, <1>4, <1>5, QuietStepRemoves

(* An operation begins. *)
LEMMA BeginRemoves ==
    ASSUME RemoveInv, NEW v, NEW new, NEW o, NEW steps, Begin(v, new, o, steps), Fits(steps),
           o = "uninstall" => Undoes(ToSet(steps))
    PROVE  RemoveInv'
<1>1. /\ op' = o /\ result' = "running" /\ todo' = steps /\ UNCHANGED <<platform, art, ssh>>
  BY DEF Begin, sysVars
<1>2. Artefacts' = Artefacts
  BY <1>1 DEF Artefacts
<1>3. (IsSeq(todo) /\ \A s \in ToSet(todo) : Allowed(s))'
  BY <1>1 DEF Fits, IsSeq, ToSet, Allowed, Puts
<1>4. (op = "uninstall" => Undoes(ToSet(todo)))'
  BY <1>1, <1>2 DEF Undoes, Undoing, Exists, Puts, S, Optional, ToSet
<1> QED BY <1>1, <1>2, <1>3, <1>4 DEF RemoveInv, Running, Exists

LEMMA OperationRemoves ==
    ASSUME RemoveInv,
           \/ OnInstallClicked \/ OnReinstallClicked \/ OnSaveSettingsClicked
           \/ InstallCommand \/ ReinstallCommand \/ UninstallCommand \/ ServiceSetCommand \/ Restart
    PROVE  RemoveInv'
<1>1. /\ Fits(AppInstall) /\ Fits(AppUninstall) /\ Fits(AppReinstall)
      /\ \A s : Fits(ApplySettings(s))
      /\ Undoes(ToSet(AppUninstall))
  BY FitsOperations
<1>2. ASSUME Restart, ~NeedsReinstall PROVE RemoveInv'
  <2>1. ~Running /\ UNCHANGED <<platform, art, ssh, op, result>>
    BY <1>2 DEF Restart, sysVars, opVars
  <2> QED BY <2>1 DEF RemoveInv, Running, Exists, Artefacts, ModulesGone, Optional
<1>3. ASSUME OnInstallClicked PROVE RemoveInv'
  BY <1>1, <1>3, BeginRemoves DEF OnInstallClicked
<1>4. ASSUME OnReinstallClicked PROVE RemoveInv'
  BY <1>1, <1>4, BeginRemoves DEF OnReinstallClicked
<1>5. ASSUME OnSaveSettingsClicked PROVE RemoveInv'
  <2>1. PICK s : Begin("app", FALSE, "settings", ApplySettings(s))
    BY <1>5 DEF OnSaveSettingsClicked
  <2> QED BY <1>1, <2>1, BeginRemoves
<1>6. ASSUME InstallCommand PROVE RemoveInv'
  BY <1>1, <1>6, BeginRemoves DEF InstallCommand
<1>7. ASSUME ReinstallCommand PROVE RemoveInv'
  BY <1>1, <1>7, BeginRemoves DEF ReinstallCommand
<1>8. ASSUME UninstallCommand PROVE RemoveInv'
  BY <1>1, <1>8, BeginRemoves DEF UninstallCommand
<1>9. ASSUME ServiceSetCommand PROVE RemoveInv'
  <2>1. PICK s : Begin("cli", TRUE, "settings", ApplySettings(s))
    BY <1>9 DEF ServiceSetCommand
  <2> QED BY <1>1, <2>1, BeginRemoves
<1>10. ASSUME Restart, NeedsReinstall PROVE RemoveInv'
  BY <1>1, <1>10, BeginRemoves DEF Restart
<1> QED BY <1>2, <1>3, <1>4, <1>5, <1>6, <1>7, <1>8, <1>9, <1>10

LEMMA EndRemoves ==
    ASSUME RemoveInv, Finish \/ ElevatorDies \/ ProcessDies \/ UNCHANGED vars
    PROVE  RemoveInv'
<1>1. UNCHANGED <<platform, art, ssh, op>>
  BY DEF Finish, ElevatorDies, ProcessDies, sysVars, opVars, vars
<1>2. Artefacts' = Artefacts /\ ModulesGone' = ModulesGone
  BY <1>1 DEF Artefacts, ModulesGone
<1>3. ASSUME Finish PROVE RemoveInv'
  <2>1. op = "uninstall" => ModulesGone
    <3>1. todo = <<>> /\ Running /\ ToSet(todo) = {}
      BY <1>3 DEF Finish, ToSet
    <3> QED BY <3>1 DEF RemoveInv, Undoes, ModulesGone, Exists
  <2>2. result' \in {"unsure", "ok"}
    BY <1>3 DEF Finish
  <2> QED BY <1>1, <1>2, <2>1, <2>2 DEF RemoveInv, Running, Exists
<1>4. ASSUME ProcessDies PROVE RemoveInv'
  BY <1>1, <1>2, <1>4 DEF ProcessDies, RemoveInv, Running, Exists
<1>5. ASSUME ElevatorDies \/ UNCHANGED vars PROVE RemoveInv'
  <2>1. UNCHANGED <<todo, result>>
    BY <1>5 DEF ElevatorDies, vars
  <2>2. Running => (IsSeq(todo) /\ \A s \in ToSet(todo) : Allowed(s))'
    BY <1>1, <2>1 DEF RemoveInv, IsSeq, ToSet, Allowed, Puts
  <2>3. op = "uninstall" /\ Running => Undoes(ToSet(todo))'
    BY <1>1, <1>2, <2>1 DEF RemoveInv, Undoes, Undoing, Exists, Puts, S, Optional, ToSet
  <2> QED BY <1>1, <1>2, <2>1, <2>2, <2>3 DEF RemoveInv, Running, Exists
<1> QED BY <1>3, <1>4, <1>5

(* RemoveInv is an invariant of the installer. *)
THEOREM RemoveInvariant == Spec => []RemoveInv
<1>1. Init => RemoveInv
  <2> SUFFICES ASSUME Init PROVE RemoveInv
    OBVIOUS
  <2>1. art \in [Artefacts -> ArtStates]
    BY DEF Init, ArtStates
  <2>2. platform = "linux" => ~Exists("policy")
    BY DEF Init, Exists, Artefacts
  <2>3. platform = "windows" => ~ssh
    BY DEF Init
  <2> QED BY <2>1, <2>2, <2>3 DEF Init, RemoveInv, Running
<1>2. RemoveInv /\ [Next]_vars => RemoveInv'
  BY FileStepRemoves, HelperStepRemoves, PamStepRemoves, SshStepRemoves, OtherStepRemoves,
     OperationRemoves, EndRemoves
     DEF Next
<1> QED BY <1>1, <1>2, PTL DEF Spec

(* An uninstall that reports success has removed every module. *)
THEOREM UninstallRemovesAlways == Spec => []UninstallRemovesModules
<1>1. RemoveInv => UninstallRemovesModules
  BY DEF RemoveInv, UninstallRemovesModules
<1> QED BY <1>1, RemoveInvariant, PTL
=============================================================================
