------------------------------- MODULE FsNames -------------------------------
(***************************************************************************)
(* fs: what is accepted as a path inside a folder -- an archive entry's    *)
(* name, a link's target, a place in the user's folders -- and what a name *)
(* says of the file.  A path is a prefix and a sequence of components, each*)
(* empty, ".", "..", a device name or a name; case and spelling are left   *)
(* out, but for a dotless extension's.                                     *)
(***************************************************************************)
EXTENDS Naturals, Integers, Sequences, FiniteSets
NameSeqs == INSTANCE SequencesExt

CONSTANTS
    MaxComponents,   \* bound on the components of a path
    Rejected         \* refused

ASSUME NamesAssumption == MaxComponents \in Nat

VARIABLES asked, answer      \* what was asked of this module, and its answer

namesVars == <<asked, answer>>

Components == {"", ".", "..", "NUL", "name"}
PathTexts == [prefix : {"", "/", "C:", "nul byte"},
              parts : UNION {[1 .. n -> Components] : n \in 0 .. MaxComponents}]

-----------------------------------------------------------------------------
(* Absolute, with a drive letter, or with an embedded NUL. *)
unsafe_prefix(path) == path.prefix # ""

is_reserved_device_name(c) == c = "NUL"

(* The components pushed, one after the other: neither an empty one nor a  *)
(* dot is.                                                                 *)
Plain(parts) ==
    LET pushed[n \in 0 .. Len(parts)] ==
            IF n = 0 THEN <<>>
            ELSE IF parts[n] \in {"", "."} THEN pushed[n - 1] ELSE Append(pushed[n - 1], parts[n])
    IN  pushed[Len(parts)]

(* The components of a name, <<>> for the root itself, or Rejected. *)
validate_entry_name(path) ==
    IF \/ unsafe_prefix(path)
       \/ \E i \in DOMAIN path.parts :
             path.parts[i] = ".." \/ is_reserved_device_name(path.parts[i])
    THEN Rejected
    ELSE Plain(path.parts)

(* Mutant: a ".." is counted wherever it is. *)
validate_target_by_depth(depth, path) ==
    LET parts == Plain(path.parts)
        climbed(n) == Cardinality({i \in 1 .. n : parts[i] = ".."})
    IN  /\ path.parts # <<>> /\ ~unsafe_prefix(path)
        /\ \A n \in DOMAIN parts : 2 * climbed(n) - n <= depth

(* A link at this depth may have this target: it is not empty, climbs no   *)
(* further than the root, and never after it has descended.                *)
validate_symlink_target(depth, path) ==
    LET parts == Plain(path.parts)
        ups   == {i \in DOMAIN parts : parts[i] = ".."}
    IN  /\ path.parts # <<>> /\ ~unsafe_prefix(path)
        /\ ups = 1 .. Cardinality(ups)
        /\ Cardinality(ups) <= depth

(* user_path: a name, which must say something, and a path under it. *)
user_path(name, sub) ==
    LET n == validate_entry_name(name)
        s == validate_entry_name(sub)
    IN  IF n = Rejected \/ n = <<>> \/ s = Rejected THEN Rejected ELSE n \o s

(* mk_config_file_at: the file must not land on the application's folder,  *)
(* which a path of nothing under a name of one component would.            *)
mk_config_file_at(name, sub) ==
    LET path == user_path(name, sub)
    IN  IF path = Rejected \/ Len(path) = 1 THEN Rejected ELSE path

-----------------------------------------------------------------------------
(* Extensions, as sequences of dotted parts in lower case. *)

Extensions == {<<>>, <<"zip">>, <<"xz">>, <<"tar", "xz">>, <<"txz">>, <<"7z">>, <<"tar">>}

(* ArchiveFormat::from_path, on the whole name. *)
from_path(ext) ==
    CASE NameSeqs!IsSuffix(<<"tar", "xz">>, ext) \/ NameSeqs!IsSuffix(<<"txz">>, ext) -> "TarXz"
      [] ext = <<"zip">> -> "Zip"
      [] ext = <<"7z">>  -> "SevenZ"
      [] OTHER -> Rejected

(* ExtFilter: the extensions added, less the empty ones; none is all. *)
filter_matches(added, ext) ==
    LET kept == added \ {""}
    IN  kept = {} \/ (ext # <<>> /\ NameSeqs!Last(ext) \in kept)

(* What an entry is, from what its format says of it: only a ZIP's mode or *)
(* a TAR's type can make it something that is never extracted.             *)
Entries == [format : {"Zip", "SevenZ", "TarXz"}, directory : BOOLEAN, link : BOOLEAN,
            unix_mode : BOOLEAN, type : {"none", "regular", "link", "device"}]

classify(e) ==
    CASE e.format = "Zip" ->
            IF e.link THEN "Symlink" ELSE IF e.directory THEN "Dir"
            ELSE IF e.unix_mode /\ e.type \notin {"none", "regular"} THEN "Other" ELSE "File"
      [] e.format = "SevenZ" ->
            IF e.directory THEN "Dir"
            ELSE IF e.unix_mode /\ e.type = "link" THEN "Symlink" ELSE "File"
      [] e.format = "TarXz" ->
            IF e.directory THEN "Dir" ELSE IF e.link THEN "Symlink"
            ELSE IF e.type \in {"none", "regular"} THEN "File" ELSE "Other"

-----------------------------------------------------------------------------
Ask ==
    \/ \E path \in PathTexts, depth \in 0 .. 2 :
          \/ asked' = [what |-> "name", path |-> path] /\ answer' = validate_entry_name(path)
          \/ /\ asked' = [what |-> "target", path |-> path, depth |-> depth]
             /\ answer' = validate_symlink_target(depth, path)
    \/ \E name, sub \in {p \in PathTexts : Len(p.parts) <= 2 /\ p.prefix \in {"", "/"}} :
          /\ asked' = [what |-> "file", name |-> name, sub |-> sub]
          /\ answer' = mk_config_file_at(name, sub)
    \/ \E ext \in Extensions, added \in SUBSET {"", "zip", "xz"} :
          /\ asked' = [what |-> "extension", ext |-> ext, added |-> added]
          /\ answer' = <<from_path(ext), filter_matches(added, ext)>>
    \/ \E e \in Entries : asked' = [what |-> "entry", entry |-> e] /\ answer' = classify(e)

NamesInit == asked = [what |-> "nothing"] /\ answer = Rejected
NamesNext == asked.what = "nothing" /\ Ask

NamesSpec == NamesInit /\ [][NamesNext]_namesVars

-----------------------------------------------------------------------------
(* Property. *)

(* Where a target may lead, by the depths it passes: a ".." goes one up, a *)
(* name goes wherever what is there by then leads, which is inside.        *)
Passes(depth, parts) ==
    LET at[n \in 0 .. Len(parts)] ==
            IF n = 0 THEN {depth}
            ELSE IF parts[n] = ".." THEN {d - 1 : d \in at[n - 1]}
            ELSE 0 .. MaxComponents
    IN  UNION {at[n] : n \in DOMAIN at}

(* What is accepted stays inside, whatever the entries that come later put *)
(* in a target's way; a configuration file is never the application's      *)
(* folder; and what an archive's name says is what its last parts say.     *)
StaysInside ==
    /\ asked.what = "name" /\ answer # Rejected =>
          \A i \in DOMAIN answer : answer[i] = "name"
    /\ asked.what = "target" /\ answer =>
          \A d \in Passes(asked.depth, Plain(asked.path.parts)) : d >= 0
    /\ asked.what = "file" /\ answer # Rejected =>
          /\ Plain(asked.sub.parts) # <<>> \/ Len(answer) > 1
          /\ NameSeqs!IsPrefix(Plain(asked.name.parts), answer)
    /\ asked.what = "entry" /\ answer = "Symlink" => ~asked.entry.directory \/ asked.entry.format = "Zip"
=============================================================================
