---------------------------- MODULE OciReference ----------------------------
(***************************************************************************)
(* Parsing and printing of image references (port-types/src/oci.rs), over  *)
(* the characters the parser tells apart: a letter, and . : / @ and blank. *)
(* A component that is absent is None, which is not the empty one.         *)
(***************************************************************************)
EXTENDS Naturals, Sequences, FiniteSetsExt, SequencesExt

CONSTANTS
    References, \* the strings to parse
    None

\* A component that is there is a string, also the empty one.
ASSUME OciAssumption == References \subseteq Seq(STRING) /\ None \notin Seq(STRING)

VARIABLES reference, parsed
ociVars == <<reference, parsed>>

Has(s, c) == \E i \in DOMAIN s : s[i] = c
Positions(s, c) == {i \in DOMAIN s : s[i] = c}
Before(s, i) == SubSeq(s, 1, i - 1)
After(s, i) == SubSeq(s, i + 1, Len(s))

Trim(s) ==
    LET solid == {i \in DOMAIN s : s[i] # " "}
    IN  IF solid = {} THEN <<>> ELSE SubSeq(s, Min(solid), Max(solid))

\* Mutant: the last colon of the whole string, unless nothing follows it.
AnyColon(s) == {i \in Positions(s, ":") : i < Len(s) /\ ~Has(After(s, i), ":")}

\* split_tag: the last colon after the last slash, when something follows it.
TagColon(s) ==
    {i \in Positions(s, ":") : i < Len(s) /\ ~Has(After(s, i), ":") /\ ~Has(After(s, i), "/")}

SplitTag(s) ==
    IF TagColon(s) = {} THEN [rest |-> s, tag |-> None]
    ELSE LET i == Max(TagColon(s)) IN [rest |-> Before(s, i), tag |-> After(s, i)]

\* split_registry: what is before the first slash, when it looks like a host.
LooksLikeHost(s) == Has(s, ".") \/ Has(s, ":")
SplitRegistry(s) ==
    LET slash == Min(Positions(s, "/"))
    IN  IF Has(s, "/") /\ LooksLikeHost(Before(s, slash))
        THEN [registry |-> Before(s, slash), repository |-> After(s, slash)]
        ELSE [registry |-> None, repository |-> s]

\* The digest is what follows the first @; it has an algorithm, which is not empty.
Refused(s) ==
    \/ s = <<>>
    \/ Has(s, "@") /\
          LET at == Min(Positions(s, "@"))
              digest == After(s, at)
          IN  \/ at = 1 \/ ~Has(digest, ":") \/ Head(digest) = ":"

ParseReference(input) ==
    LET s == Trim(input)
        at == Min(Positions(s, "@"))
        body == SplitTag(IF Has(s, "@") THEN Before(s, at) ELSE s)
        path == SplitRegistry(body.rest)
    IN  IF Refused(s) THEN None
        ELSE [registry |-> path.registry, repository |-> path.repository,
              tag |-> body.tag, digest |-> IF Has(s, "@") THEN After(s, at) ELSE None]

Prefixed(c, s) == IF s = None THEN <<>> ELSE <<c>> \o s
WithTag(registry, repository, tag) ==
    (IF registry = None THEN <<>> ELSE Append(registry, "/")) \o repository \o Prefixed(":", tag)
Printed(r) == WithTag(r.registry, r.repository, r.tag) \o Prefixed("@", r.digest)
IsValid(r) == r # None /\ (r.tag # None \/ r.digest # None)

OciInit == reference \in References /\ parsed = None
ParseStep ==
    /\ parsed = None /\ ParseReference(reference) # None
    /\ parsed' = ParseReference(reference)
    /\ UNCHANGED reference

OciSpec == OciInit /\ [][ParseStep]_ociVars

\* A reference is what it was parsed from: printing it gives the input without the
\* blanks around it, and parsing that gives the same components again, whatever its
\* colons and slashes are (oci.rs:93-115, :140-213).  A port is no tag, and no slash
\* is left in a registry.  A repository may be missing, against the words of parse
\* (oci.rs:135-139), only before a tag or after a host: parse looks whether anything
\* stands before the digest, and not at what the tag and the host leave.
ReferenceIsFaithful ==
    parsed # None =>
        /\ Printed(parsed) = Trim(reference)
        /\ ParseReference(Printed(parsed)) = parsed
        /\ parsed.tag # None => ~Has(parsed.tag, "/") /\ ~Has(parsed.tag, ":")
        /\ parsed.registry # None => ~Has(parsed.registry, "/")
        /\ parsed.repository = <<>> => parsed.registry # None \/ parsed.tag # None
=============================================================================
