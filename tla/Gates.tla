------------------------------- MODULE Gates -------------------------------
(***************************************************************************)
(* The ordered checks of the CLI: a check is a condition under which the   *)
(* operation is refused and the error code of the refusal, and a gate is a *)
(* sequence of them, of which the first that holds decides.  This is how   *)
(* `validate`, `ensure_*` and `validate_*` of phenocompose-cli are written *)
(* (an `if ... { return Err(code) }` after the other).                     *)
(***************************************************************************)
EXTENDS Naturals, Sequences, FiniteSetsExt

Refuse(condition, code) == <<condition, code>>

Verdict(gate) ==
    LET failing == {i \in DOMAIN gate : gate[i][1]}
    IN  IF failing = {} THEN "ok" ELSE gate[Min(failing)][2]

-----------------------------------------------------------------------------
(* Slugs and run ids (lib.rs:249-255, :878-893, :1202-1212).  A name is a  *)
(* sequence of the classes of its characters; a sanitized one is as long   *)
(* as the name it comes from, counted in characters.                       *)

CharClasses == {"lower", "upper", "digit", "dash", "underscore", "space", "other"}

IsAlnum(c) == c \in {"lower", "upper", "digit"}

ValidSlug(value, maxLen) ==
    /\ value # <<>> /\ Len(value) <= maxLen
    /\ IsAlnum(value[1])
    /\ \A i \in DOMAIN value : IsAlnum(value[i]) \/ value[i] \in {"dash", "underscore"}

SanitizeName(name) ==
    [i \in DOMAIN name |->
        CASE name[i] = "upper" -> "lower"
          [] name[i] \in {"lower", "digit", "dash"} -> name[i]
          [] OTHER -> "dash"]

RunId(name, hashLen) ==
    SanitizeName(name) \o <<"dash">> \o [i \in 1..hashLen |-> "digit"]

IsBlank(name) == \A i \in DOMAIN name : name[i] = "space"

-----------------------------------------------------------------------------
(* Paths (lib.rs:895-961).  A path has a prefix (a drive, on Windows only),*)
(* a root, and components that are normal, "." or "..".                    *)

IsAbsolute(path, windows) == path.rooted /\ (windows => path.prefix)

\* PathBuf::join: an absolute path, or one with a prefix, replaces the base; one
\* with only a root keeps the prefix of the base.
Join(base, path, windows) ==
    IF IsAbsolute(path, windows) \/ path.prefix THEN path
    ELSE IF path.rooted THEN [path EXCEPT !.prefix = base.prefix]
    ELSE [base EXCEPT !.parts = @ \o path.parts]

\* The components are pushed one after the other, but those that are ".".
Normalize(path) ==
    LET pushed[n \in 0..Len(path.parts)] ==
            IF n = 0 THEN <<>>
            ELSE IF path.parts[n] = "cur" THEN pushed[n - 1]
            ELSE Append(pushed[n - 1], path.parts[n])
    IN  [path EXCEPT !.parts = pushed[Len(path.parts)]]

ResolveOutputRoot(base, root, windows) == Normalize(Join(base, root, windows))

\* A string of blanks alone, here a path without anything.
IsEmptyRoot(root) == root.parts = <<>> /\ ~root.rooted /\ ~root.prefix

\* Mutant: a path with a root and no drive is taken for a relative one.
Rootless(root, windows) == root.prefix /\ ~IsAbsolute(root, windows)

Ambiguous(root, windows) == (root.rooted \/ root.prefix) /\ ~IsAbsolute(root, windows)

OutputRootGate(base, root, windows) ==
    LET resolved == ResolveOutputRoot(base, root, windows)
    IN  << Refuse(IsEmptyRoot(root), "action_output_root_empty"),
           Refuse(Ambiguous(root, windows), "action_output_root_ambiguous"),
           Refuse(\E i \in DOMAIN resolved.parts : resolved.parts[i] = "parent",
                  "action_output_root_traversal"),
           Refuse(~IsAbsolute(resolved, windows), "action_output_root_ambiguous") >>
=============================================================================
