----------------------------- MODULE PamConfig -----------------------------
(***************************************************************************)
(* PAMHelper's edits of the files under /etc/pam.d.  A file is a sequence  *)
(* of lines or Missing; a line is one of                                   *)
(*   "hdr"            the first line #%PAM-1.0                             *)
(*   "E", "EO"        the entry of the PAM module, today's and the legacy  *)
(*   "S"              the first line of the SDDM entry: on success it      *)
(*                    skips the line after it                              *)
(*   "gen", "genOld"  the mark of a generated file, today's and the legacy *)
(*   "inc"            the includes of a generated file                     *)
(*   "U"              a line of the administrator                          *)
(* An entry is the sequence of its lines.  Pending changes are kept in a   *)
(* function from some files to their new contents.                         *)
(***************************************************************************)
EXTENDS Naturals, Sequences, SequencesExt

CONSTANT Missing

Lines == {"hdr", "E", "EO", "S", "gen", "genOld", "inc", "U"}
OwnLines == {"E", "EO", "S"}

Entry(f)    == IF f = "sddm" THEN <<"S", "E">> ELSE <<"E">>
OldEntry(f) == IF f = "sddm" THEN <<"S", "EO">> ELSE <<"EO">>

\* Does an occurrence of e in c put its k-th line at i?
Covers(c, e, i, k) ==
    i >= k /\ i - k + Len(e) <= Len(c) /\ \A j \in DOMAIN e : c[i - k + j] = e[j]

\* std::string::contains, for an entry of whole lines.
HasEntry(c, e) == \E i \in DOMAIN c : Covers(c, e, i, 1)

\* StringUtils::Replace of an entry by one with as many lines.
ReplaceEntry(c, old, new) ==
    [i \in DOMAIN c |->
        IF \E k \in DOMAIN old : Covers(c, old, i, k)
        THEN new[CHOOSE k \in DOMAIN old : Covers(c, old, i, k)]
        ELSE c[i]]

\* The entry comes right after the first line, which is added if need be.
AddEntry(c, e) ==
    IF "hdr" \in ToSet(c)
    THEN FlattenSeq([i \in DOMAIN c |-> IF c[i] = "hdr" THEN <<"hdr">> \o e ELSE <<c[i]>>])
    ELSE <<"hdr">> \o e \o c

\* Each line of the entry goes, wherever it stands.
RemoveEntry(c, e) == SelectSeq(c, LAMBDA l : l \notin ToSet(e))

IsConfigGenerated(c) == {"gen", "genOld"} \cap ToSet(c) # {}

Generated(platform, e) ==
    IF platform = "mac" THEN <<"gen">> \o e ELSE <<"hdr">> \o e \o <<"gen", "inc">>

\* RemoveFromConfig: linux removes a generated file whole, mac when only the
\* mark is left.
RemoveFrom(platform, c, e) ==
    LET rest == RemoveEntry(c, e)
    IN  IF platform = "linux"
        THEN IF IsConfigGenerated(c) THEN Missing ELSE rest
        ELSE IF rest = <<"gen">> THEN Missing ELSE rest

\* MigrateConfigEntry: the legacy mark, then the legacy entry.
Migrated(c, old, new) == ReplaceEntry(ReplaceAll(c, "genOld", "gen"), old, new)
=============================================================================
