------------------------------ MODULE LockFiles ------------------------------
(***************************************************************************)
(* What the dependency scanner (src/src/scanner.rs) makes of a lock file:  *)
(* for each of the ten formats, how a package manager writes it (Written)  *)
(* and how the scanner reads it (Parsed).                                  *)
(*                                                                         *)
(* A file is a sequence of lines or, for JSON, a record of sections.  A    *)
(* name is a model value; a version is a number and whether it is written  *)
(* as three numbers, which the semver crate wants.  Letter case, quotes    *)
(* and the other lines of the formats are left out, and so are             *)
(* requirements.txt files written by hand and local checkouts.             *)
(***************************************************************************)
EXTENDS Integers, Sequences, FiniteSets, SequencesExt

CONSTANTS
    Names,
    Scoped,   \* names of npm that begin with @, which separates versions too
    None

ASSUME LockFilesAssumption == Scoped \subseteq Names /\ None \notin Names

\* What is installed.  A nested package is another version than the one at the top
\* and has its place below the package that wants it.  A package may come from a URL
\* in place of the registry, and be resolved together with peers: none, one or more.
Packages(versions) ==
    [name : Names, version : versions, dev : BOOLEAN, nested : BOOLEAN, url : BOOLEAN,
     peers : 0..2]

\* DetectedDependency: the name is the path npm gives, without the first node_modules.
Dep(ecosystem, name, version, dev) ==
    [ecosystem |-> ecosystem, name |-> name, version |-> version, dev |-> dev]

\* A constraint where the scanner expects a version, such as (>= 1.0).
Constraint == [n |-> 0, semver |-> FALSE]

\* Text that is not the version of the package: a URL, or the end of a key with peers.
OtherText == [n |-> -1, semver |-> FALSE]
VersionOrUrl(p) == IF p.url THEN OtherText ELSE p.version

Formats == {"package-lock.json v1", "package-lock.json v3", "requirements.txt",
            "Pipfile.lock", "composer.lock", "poetry.lock", "yarn.lock", "Cargo.lock",
            "go.sum", "Gemfile.lock", "pnpm-lock.yaml v5", "pnpm-lock.yaml v6"}

\* The formats that say which packages are for development, and whose readers look.
TellsDev == {"package-lock.json v1", "package-lock.json v3", "Pipfile.lock",
             "composer.lock", "poetry.lock"}

-----------------------------------------------------------------------------
(* JSON: a record of sections, each a set of entries. *)

Section(json, name) == IF name \in DOMAIN json THEN json[name] ELSE {}

Entry(path, version, dev) == [path |-> path, version |-> version, dev |-> dev]

WithVersion(entries) == {e \in entries : e.version # None}

Root == Entry(<< >>, None, FALSE)

\* v1 lists nested packages below their parent; v2 and v3 give a path for each.
WritePackageLock1(s) ==
    [dependencies |->
        {Entry(<<p.name>>, VersionOrUrl(p), p.dev) : p \in {q \in s : ~q.nested}}]
WritePackageLock3(s) ==
    [packages |-> {Root} \cup {Entry(IF p.nested THEN <<"parent", p.name>> ELSE <<p.name>>,
                                     p.version, p.dev) : p \in s}]

ParsePackageLock(json) ==
    {Dep("npm", e.path, e.version, e.dev) :
        e \in WithVersion(Section(json, "dependencies"))
              \cup {e \in WithVersion(Section(json, "packages")) : e.path # << >>}}

WriteDivided(s, main, dev) ==
    [section \in {main, dev} |->
        {Entry(<<p.name>>, p.version, FALSE) : p \in {q \in s : q.dev = (section = dev)}}]

\* pipenv gives a URL's package no version.
WritePipfileLock(s) ==
    WriteDivided({IF p.url THEN [p EXCEPT !.version = None] ELSE p : p \in s},
                 "default", "develop")

\* (Variant: the second section is not told apart.)
ParseDivided_Alike(ecosystem, json, main, dev) ==
    {Dep(ecosystem, e.path, e.version, FALSE) :
        e \in WithVersion(Section(json, main) \cup Section(json, dev))}

ParseDivided(ecosystem, json, main, dev) ==
    {Dep(ecosystem, e.path, e.version, FALSE) : e \in WithVersion(Section(json, main))}
    \cup {Dep(ecosystem, e.path, e.version, TRUE) : e \in WithVersion(Section(json, dev))}

ParsePipfileLock(json)  == ParseDivided("pip", json, "default", "develop")
ParseComposerLock(json) == ParseDivided("composer", json, "packages", "packages-dev")

-----------------------------------------------------------------------------
(* requirements.txt, as pip freeze writes it: one requirement on a line, read without
   a state. *)

WriteRequirements(ps) ==
    << [kind |-> "comment"], [kind |-> "option"] >>
    \o [k \in 1..Len(ps) |-> [kind |-> "requirement", name |-> ps[k].name,
                              operator |-> IF ps[k].url THEN "@" ELSE "==",
                              version |-> VersionOrUrl(ps[k])]]
    \o << [kind |-> "requirement", name |-> ps[1].name, operator |-> ";", version |-> None] >>

\* Whatever operator comes first: the version it speaks of is taken for the installed one.
ParseRequirements(lines) ==
    {Dep("pip", <<l.name>>, l.version, FALSE) :
        l \in {x \in ToSet(lines) : /\ x.kind = "requirement"
                                    /\ x.operator \notin {"", ";"} /\ x.version # None}}

-----------------------------------------------------------------------------
(* Formats read line after line, with the name of the package in between. *)

Line(key, value) == [key |-> key, value |-> value]

\* What a reader remembers from line to line.
Reader == [deps |-> {}, name |-> None, version |-> None, dev |-> FALSE, in_specs |-> FALSE]

\* The lines of the packages, n for each.
Flattened(n, lines) ==
    [i \in 1..(n * Len(lines)) |-> lines[(i - 1) \div n + 1][((i - 1) % n) + 1]]

WritePoetryLock(ps) ==
    Flattened(4, [k \in 1..Len(ps) |->
        << Line("[[package]]", None), Line("name", ps[k].name),
           Line("version", ps[k].version),
           Line("groups", IF ps[k].dev THEN {"dev"} ELSE {"main", "dev"}) >>])

\* A package is complete when the next one begins, or the file ends.
PoetryPackage(r) ==
    IF None \in {r.name, r.version} THEN r.deps
    ELSE r.deps \cup {Dep("pip", <<r.name>>, r.version, r.dev)}

PoetryLine(r, l) ==
    CASE l.key = "[[package]]" -> [Reader EXCEPT !.deps = PoetryPackage(r)]
      [] l.key = "name"        -> [r EXCEPT !.name = l.value]
      [] l.key = "version"     -> [r EXCEPT !.version = l.value]
      [] l.key = "category"    -> [r EXCEPT !.dev = @ \/ l.value = "dev"]
      [] l.key = "groups"      -> [r EXCEPT !.dev = @ \/ ("dev" \in l.value /\ "main" \notin l.value)]

\* An entry begins at the margin with the names that ask for it; what it depends on
\* stands below its version, and may have a name like version-range.
WriteYarnLock(ps) ==
    Flattened(3, [k \in 1..Len(ps) |->
        << Line("margin", <<ps[k].name>>), Line("version", ps[k].version),
           Line("version", Constraint) >>])

\* (Variant: the name is kept after the version.)
YarnLine_Kept(r, l) ==
    CASE l.key = "margin" -> [r EXCEPT !.name = l.value[1]]
      [] l.key = "version" /\ r.name # None ->
            [r EXCEPT !.deps = @ \cup {Dep("npm", <<r.name>>, l.value, FALSE)}]
      [] OTHER -> r

YarnLine(r, l) ==
    CASE l.key = "margin" -> [r EXCEPT !.name = l.value[1]]
      [] l.key = "version" /\ r.name # None ->
            [r EXCEPT !.name = None,
                      !.deps = @ \cup {Dep("npm", <<r.name>>, l.value, FALSE)}]
      [] OTHER -> r

\* The version of the format comes before the first package.
WriteCargoLock(ps) ==
    << Line("version", Constraint) >>
    \o Flattened(2, [k \in 1..Len(ps) |->
           << Line("name", ps[k].name), Line("version", ps[k].version) >>])

CargoLine(r, l) ==
    CASE l.key = "name" -> [r EXCEPT !.name = l.value]
      [] l.key = "version" /\ r.name # None ->
            [r EXCEPT !.name = None,
                      !.deps = @ \cup {Dep("cargo", <<r.name>>, l.value, FALSE)}]
      [] OTHER -> r

\* A line for the module and one for its go.mod; added keeps each version once.
WriteGoSum(ps) ==
    Flattened(2, [k \in 1..Len(ps) |->
        [j \in 1..2 |-> [name |-> ps[k].name, version |-> ps[k].version, gomod |-> j = 2]]])

ParseGoSum(lines) ==
    {Dep("go", <<l.name>>, l.version, FALSE) : l \in {x \in ToSet(lines) : ~x.gomod}}

\* Packages are indented by four spaces below specs, what they depend on by six; the
\* sections that follow begin at the margin, with entries indented by two.
Indented(spaces, name, version) == [indent |-> spaces, name |-> name, version |-> version]
WriteGemfileLock(ps) ==
    << Indented(0, "GEM", None), Indented(2, "remote:", None), Indented(2, "specs:", None) >>
    \o Flattened(3, [k \in 1..Len(ps) |->
           << Indented(4, ps[k].name, ps[k].version), Indented(6, ps[1].name, Constraint),
              Indented(6, "parent", None) >>])
    \o << Indented(0, "DEPENDENCIES", None), Indented(2, ps[1].name, Constraint) >>

\* (Variant: a line is read whether it has a version or not.)
GemLine_NoVersion(r, l) ==
    CASE l.indent = 2 /\ l.name = "specs:" -> [r EXCEPT !.in_specs = TRUE]
      [] l.indent < 4 /\ l.name # "specs:" -> [r EXCEPT !.in_specs = FALSE]
      [] l.indent >= 4 /\ r.in_specs ->
            [r EXCEPT !.deps = @ \cup {Dep("gem", <<l.name>>, l.version, FALSE)}]
      [] OTHER -> r

GemLine(r, l) ==
    CASE l.indent = 2 /\ l.name = "specs:" -> [r EXCEPT !.in_specs = TRUE]
      [] l.indent < 4 /\ l.name # "specs:" -> [r EXCEPT !.in_specs = FALSE]
      [] l.indent >= 4 /\ r.in_specs /\ l.version # None ->
            [r EXCEPT !.deps = @ \cup {Dep("gem", <<l.name>>, l.version, FALSE)}]
      [] OTHER -> r

\* The loop over the lines, and what has been read at its end.
ReadLine(format, r, l) ==
    CASE format = "poetry.lock"  -> PoetryLine(r, l)
      [] format = "yarn.lock"    -> YarnLine(r, l)
      [] format = "Cargo.lock"   -> CargoLine(r, l)
      [] format = "Gemfile.lock" -> GemLine(r, l)

Read(format, lines) ==
    LET after[n \in 0..Len(lines)] ==
            IF n = 0 THEN Reader ELSE ReadLine(format, after[n - 1], lines[n])
    IN  after[Len(lines)]

ParsePoetryLock(lines)  == PoetryPackage(Read("poetry.lock", lines))
ParseYarnLock(lines)    == Read("yarn.lock", lines).deps
ParseCargoLock(lines)   == Read("Cargo.lock", lines).deps
ParseGemfileLock(lines) == Read("Gemfile.lock", lines).deps

-----------------------------------------------------------------------------
(* pnpm: the parts of a key, /name/version: or /name@version:, around @ if there is
   one and around / if not.  A scoped name begins with an @ of its own.  Peers follow:
   /name/version_peer@version:, a hash if there are more, or
   /name@version(peer@version): with one pair for each.  The key of a URL's package does
   not begin with /. *)

PnpmKey(p, v6) ==
    LET last == IF p.peers = 0 THEN p.version ELSE OtherText
    IN  IF p.url THEN << >>
        ELSE IF ~v6 /\ (p.name \in Scoped \/ p.peers = 1) THEN << None, OtherText >>
        ELSE IF p.name \in Scoped THEN << None, p.name, last >>
        ELSE << p.name, last >>

WritePnpmLock(ps, v6) == [k \in 1..Len(ps) |-> PnpmKey(ps[k], v6)]

\* None is no package's name: the empty one, or one with more text.
ParsePnpmLock(lines) ==
    {Dep("npm", <<parts[1]>>, Last(parts), FALSE) :
        parts \in {x \in ToSet(lines) : Len(x) >= 2}}

-----------------------------------------------------------------------------

\* The package manager writes the lock file of the packages in ps.
Written(format, ps) ==
    CASE format = "package-lock.json v1" -> WritePackageLock1(ToSet(ps))
      [] format = "package-lock.json v3" -> WritePackageLock3(ToSet(ps))
      [] format = "requirements.txt"     -> WriteRequirements(ps)
      [] format = "Pipfile.lock"         -> WritePipfileLock(ToSet(ps))
      [] format = "composer.lock"        -> WriteDivided(ToSet(ps), "packages", "packages-dev")
      [] format = "poetry.lock"          -> WritePoetryLock(ps)
      [] format = "yarn.lock"            -> WriteYarnLock(ps)
      [] format = "Cargo.lock"           -> WriteCargoLock(ps)
      [] format = "go.sum"               -> WriteGoSum(ps)
      [] format = "Gemfile.lock"         -> WriteGemfileLock(ps)
      [] format = "pnpm-lock.yaml v5"    -> WritePnpmLock(ps, FALSE)
      [] format = "pnpm-lock.yaml v6"    -> WritePnpmLock(ps, TRUE)

\* The scanner chooses the parser by the name of the file.
Parsed(format, file) ==
    CASE format \in {"package-lock.json v1", "package-lock.json v3"} -> ParsePackageLock(file)
      [] format = "requirements.txt" -> ParseRequirements(file)
      [] format = "Pipfile.lock"     -> ParsePipfileLock(file)
      [] format = "composer.lock"    -> ParseComposerLock(file)
      [] format = "poetry.lock"      -> ParsePoetryLock(file)
      [] format = "yarn.lock"        -> ParseYarnLock(file)
      [] format = "Cargo.lock"       -> ParseCargoLock(file)
      [] format = "go.sum"           -> ParseGoSum(file)
      [] format = "Gemfile.lock"     -> ParseGemfileLock(file)
      [] format \in {"pnpm-lock.yaml v5", "pnpm-lock.yaml v6"} -> ParsePnpmLock(file)

=============================================================================
