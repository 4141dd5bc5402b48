------------------------------- MODULE Scanner -------------------------------
(***************************************************************************)
(* The dependency scans of src/src/scanner.rs over one web root with one   *)
(* lock file.  run_scan never waits for anything, so that a scan is one    *)
(* step; what it finds depends on what the package manager has written and *)
(* on the advisory database that is there by then.                         *)
(***************************************************************************)
EXTENDS LockFiles

CONSTANTS
    Versions,        \* [n: its rank, semver: whether semver can parse it]
    Advisories,      \* the OSV database: [package, ecosystem, range]
    Upgrades         \* what the package manager may install later

\* A constraint or a URL is not a version, and no advisory speaks of one.
ASSUME VersionsAssumption ==
    /\ Versions \cap {None, Constraint, OtherText} = {} /\ None \notin {Constraint, OtherText}
    /\ \A a \in Advisories : /\ a.package \in Names
                             /\ ~a.range.semver => a.range.version \in Versions
    /\ Upgrades \subseteq Seq(Packages(Versions))

VARIABLES
    lock,            \* [format, dir: the directories down to it, packages], or None
    osv,             \* the database file: "unreadable" (missing or broken) or "ready"
    alerts,          \* what dispatch_alert got
    ever,            \* ghost: everything that was ever installed
    scanned          \* ghost: a scan has had a database since the last installation

scannerVars == << lock, osv, alerts, ever, scanned >>

-----------------------------------------------------------------------------
(* Finding and matching *)

\* find_lock_files: neither deep in the tree nor in what is not the project's own.
Skipped == {"node_modules", ".git", "vendor", "target", "quarantine"}
Found(file) == Len(file.dir) <= 5 /\ ToSet(file.dir) \cap Skipped = {}

\* get_installed_packages, and what run_scan collects.
Installed(file) ==
    IF file = None \/ ~Found(file) THEN {}
    ELSE Parsed(file.format, Written(file.format, file.packages))

\* (Variant: the names of the ecosystems are compared as they are.)
SameEcosystem_Exact(dep, advisory) == dep = advisory

\* The ecosystem of a lock file, under the names that advisories give it.
SameEcosystem(dep, advisory) ==
    \/ dep = advisory
    \/ << dep, advisory >> \in {<< "pip", "pypi" >>, << "composer", "packagist" >>,
                               << "cargo", "crates.io" >>, << "go", "golang" >>,
                               << "gem", "rubygems" >>}

\* is_version_affected: a range if semver parses both, and equality if not.
Affected(version, range) ==
    IF version.semver /\ range.semver THEN version.n \in range.versions
    ELSE ~range.semver /\ version = range.version

\* (Variant: whatever the ecosystem.)
Matches_AnyEcosystem(dep, advisory) ==
    dep.name = << advisory.package >> /\ Affected(dep.version, advisory.range)

Matches(dep, advisory) ==
    /\ SameEcosystem(dep.ecosystem, advisory.ecosystem)
    /\ dep.name = << advisory.package >>
    /\ Affected(dep.version, advisory.range)

\* Packages for production keep the severity of the advisory.
AlertOn(dep, advisory) ==
    [package |-> advisory.package, version |-> dep.version,
     severity |-> IF dep.dev THEN "WARNING" ELSE "CRITICAL"]

AlertsFor(deps) ==
    {AlertOn(m[1], m[2]) : m \in {x \in deps \X Advisories : Matches(x[1], x[2])}}

-----------------------------------------------------------------------------
(* run_scan in a task of start_scanner, of the API or of the console. *)

\* The database first: without one, or with a broken one, there is no more than a
\* message.  Then every lock file is read and every dependency matched.
RunScan ==
    /\ alerts' = IF osv = "ready" THEN alerts \cup AlertsFor(Installed(lock)) ELSE alerts
    /\ scanned' = (scanned \/ osv = "ready")
    /\ UNCHANGED << lock, osv, ever >>

\* The package manager installs other packages and writes the lock file.
Install(packages) ==
    /\ lock # None /\ lock.packages # packages
    /\ lock' = [lock EXCEPT !.packages = packages]
    /\ ever' = ever \cup ToSet(packages) /\ scanned' = FALSE
    /\ UNCHANGED << osv, alerts >>

\* The operator puts a database there, good or bad.
ReplaceDatabase(file) ==
    /\ osv # file
    /\ osv' = file
    /\ UNCHANGED << lock, alerts, ever, scanned >>

ScannerInit(file) ==
    /\ lock = file
    /\ osv \in {"unreadable", "ready"}
    /\ alerts = {} /\ scanned = FALSE
    /\ ever = IF file = None THEN {} ELSE ToSet(file.packages)

HostChanges ==
    \/ \E packages \in Upgrades : Install(packages)
    \/ \E file \in {"unreadable", "ready"} : ReplaceDatabase(file)

-----------------------------------------------------------------------------
(* Properties *)

Deps == [ecosystem : {"npm", "pip", "composer", "cargo", "go", "gem"},
         name : Seq(Names \cup {None, "parent"}),
         version : Versions \cup {Constraint, OtherText}, dev : BOOLEAN]

\* Every variable keeps its shape.
ScannerTypeOK ==
    /\ lock # None => lock.format \in Formats /\ lock.packages \in Seq(Packages(Versions))
    /\ osv \in {"unreadable", "ready"}
    /\ alerts \subseteq [package : Names, version : Versions, severity : {"WARNING", "CRITICAL"}]
    /\ ever \subseteq Packages(Versions) /\ scanned \in BOOLEAN

\* The names under which advisories speak of a format's packages.
NamesOf(format) ==
    CASE format \in {"requirements.txt", "Pipfile.lock", "poetry.lock"} -> {"pip", "pypi"}
      [] format = "composer.lock" -> {"composer", "packagist"}
      [] format = "Cargo.lock"    -> {"cargo", "crates.io"}
      [] format = "go.sum"        -> {"go", "golang"}
      [] format = "Gemfile.lock"  -> {"gem", "rubygems"}
      [] OTHER                    -> {"npm"}

Vulnerable(p, format) ==
    \E a \in Advisories : /\ a.ecosystem \in NamesOf(format) /\ a.package = p.name
                          /\ Affected(p.version, a.range)

IsProduction(p, format) == ~p.dev \/ format \notin TellsDev

\* What the readers are known to miss: npm's nested packages, scoped names and peers in
\* pnpm, and packages from a URL where it stands in place of the version.
Legible(p, format) ==
    /\ format \in {"package-lock.json v1", "package-lock.json v3"} => ~p.nested
    /\ format \in {"pnpm-lock.yaml v5", "pnpm-lock.yaml v6"} =>
          p.name \notin Scoped /\ p.peers = 0
    /\ format \in {"package-lock.json v1", "requirements.txt", "Pipfile.lock",
                   "pnpm-lock.yaml v5", "pnpm-lock.yaml v6"} => ~p.url

\* The vulnerable packages of the lock file on which there is no alert yet.
Unreported ==
    {p \in IF lock = None THEN {} ELSE ToSet(lock.packages) :
        /\ Found(lock) /\ Vulnerable(p, lock.format) /\ Legible(p, lock.format)
        /\ [package |-> p.name, version |-> p.version,
            severity |-> IF IsProduction(p, lock.format) THEN "CRITICAL" ELSE "WARNING"]
           \notin alerts}

\* "Match detected dependencies against OSV vulnerabilities" (run_scan): once a scan has
\* had a readable database, and until something else is installed, every vulnerable
\* package of the lock file that its reader is able to read has its alert, with the
\* severity that its use deserves, under either name of the ecosystem.
VulnerableIsReported == scanned => Unreported = {}

\* No phantoms: an alert is about a package that was installed in that version, and
\* was vulnerable in it.
NoPhantoms ==
    \A a \in alerts : \E p \in ever :
        a.package = p.name /\ a.version = p.version /\ Vulnerable(p, lock.format)

\* "production deps -> vuln.severity, devDeps -> WARNING" (run_scan): only a package
\* that was installed for production raises an alert with the advisory's severity.
DevOnlyWarns ==
    \A a \in alerts : a.severity = "CRITICAL" =>
        \E p \in ever : /\ a.package = p.name /\ a.version = p.version
                        /\ IsProduction(p, lock.format)
=============================================================================
