--------------------------- MODULE MCCloudServices ---------------------------
(* An instance of CloudServices for TLC: hosts that differ in the lock file of the
   web root, without a cloud, three with one, and two with a license. *)
EXTENDS CloudServices

CONSTANTS left, scope, a1, a2

Old   == [n |-> 1, semver |-> TRUE]
New   == [n |-> 2, semver |-> TRUE]
Short == [n |-> 1, semver |-> FALSE]    \* such as 1.0

MCVersions == {Old, New, Short}

Package(name, version, dev, nested) ==
    [name |-> name, version |-> version, dev |-> dev, nested |-> nested, url |-> FALSE,
     peers |-> 0]
FromUrl(p) == [p EXCEPT !.url = TRUE]
WithPeers(p, n) == [p EXCEPT !.peers = n]

\* The first may be installed with any of the others, in either order.
Lefts == {Package(left, Old, FALSE, FALSE), Package(left, Old, TRUE, FALSE),
          Package(left, New, FALSE, FALSE), Package(left, Short, FALSE, FALSE)}
Others == {Package(scope, Old, TRUE, FALSE), Package(scope, Old, FALSE, FALSE),
           Package(left, Old, FALSE, TRUE), FromUrl(Package(left, Old, FALSE, FALSE)),
          WithPeers(Package(left, Old, FALSE, FALSE), 1),
          WithPeers(Package(left, Old, FALSE, FALSE), 2),
          WithPeers(Package(scope, Old, FALSE, FALSE), 1)}

Upgrade == << Package(left, New, FALSE, FALSE), Package(scope, New, FALSE, FALSE) >>
MCUpgrades == {Upgrade}

PackageLists ==
    {<< p >> : p \in Lefts \cup Others}
    \cup UNION {{<< p, q >>, << q, p >>} : p \in Lefts, q \in Others}

MCAdvisories ==
    [package : {left}, ecosystem : {"npm", "pypi", "packagist", "cargo", "golang",
                                    "rubygems"},
     range : {[semver |-> TRUE, versions |-> {1}]}]
    \cup [package : {scope}, ecosystem : {"npm", "pypi"},
          range : {[semver |-> TRUE, versions |-> {1}]}]
    \cup [package : {left}, ecosystem : {"npm", "pip"},
          range : {[semver |-> FALSE, version |-> Short]}]

LockFile(format, dir, packages) == [format |-> format, dir |-> dir, packages |-> packages]

Synced == {LockFile(format, << "app" >>, << Package(left, Old, FALSE, FALSE) >>) :
              format \in {"Gemfile.lock", "yarn.lock", "pnpm-lock.yaml v6"}}

Hidden == {LockFile("composer.lock", dir, << Package(left, Old, FALSE, FALSE) >>) :
              dir \in {<< "vendor" >>, << "app", "node_modules" >>,
                       << "a", "b", "c", "d", "e", "f" >>}}

Host(file, endpoint, licensed) ==
    [lock |-> file, endpoint |-> endpoint, licensed |-> licensed]

MCHosts ==
    {Host(LockFile(format, << >>, packages), FALSE, FALSE) :
        format \in Formats, packages \in PackageLists}
    \cup {Host(file, FALSE, FALSE) : file \in Hidden}
    \cup {Host(file, TRUE, FALSE) : file \in Synced}
    \cup {Host(None, TRUE, TRUE), Host(None, FALSE, TRUE)}
=============================================================================
