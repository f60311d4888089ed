-------------------------------- MODULE Release --------------------------------
(***************************************************************************)
(* Releases of the module and the gate before them.  main moves by pull     *)
(* requests that change the public API and the spec pin, release-please     *)
(* keeps a release PR that proposes a version, the pre-publish verdict      *)
(* (scripts/release_gate/release_verdict.py) runs on it, and a person       *)
(* merges it when the checks are green, which tags the merge commit.        *)
(*                                                                          *)
(* Lines and Usable are the listing of a module version and what a consumer *)
(* can use of it; Surface computes both.  Promises is the contract a spec   *)
(* pin stands for, by which the classifier grades a change of pins.         *)
(***************************************************************************)
EXTENDS Naturals, Sequences

CONSTANTS
    Modules,        \* the states of the module's public API
    Lines,          \* public-api.txt of each: how often each line occurs
    Usable,         \* what a consumer can use of each
    Pins, Promises, \* the spec tags, and what each promises
    Versions,       \* the versions a release PR may propose
    UpToDate,       \* whether a PR merges only on checks of what main holds
    MaxReleases     \* bounds the releases

\* A listing holds at least what the other does.
Within(a, b) == \A l \in DOMAIN a : l \in DOMAIN b /\ a[l] <= b[l]

ASSUME ModulesAssumption ==
    /\ \A m \in Modules : \A l \in DOMAIN Lines[m] : Lines[m][l] \in Nat
    /\ \A m, n \in Modules : Within(Lines[m], Lines[n]) => Usable[m] \subseteq Usable[n]
ASSUME VersionsAssumption ==
    /\ Versions \subseteq [major : Nat, minor : Nat, patch : Nat, pre : BOOLEAN]
    /\ UpToDate \in BOOLEAN /\ MaxReleases \in Nat

VARIABLES
    main,       \* the content of main: [mod, snap, pin], snap whether public-api.txt is committed
    releases,   \* the tags, which are the GitHub releases, in order: [version, mod, snap, pin]
    pr,         \* the version the release PR proposes, or None
    verdict     \* the verdict on the release PR, or None: [exit, on]

vars == <<main, releases, pr, verdict>>
None == [none |-> TRUE]
Contents == [mod : Modules, snap : BOOLEAN, pin : Pins]

-----------------------------------------------------------------------------
(* release_verdict.py *)

less(v, w) ==
    \/ v.major < w.major
    \/ v.major = w.major /\ v.minor < w.minor
    \/ v.major = w.major /\ v.minor = w.minor /\ v.patch < w.patch

\* Below 1.0 the minor is the breaking digit.
is_breaking_bumpByEither(old, new) == less(old, new) /\ (new.major > old.major \/ new.minor > old.minor)
is_breaking_bump(old, new) ==
    /\ less(old, new)
    /\ IF old.major = 0 THEN new.major > 0 \/ new.minor > old.minor ELSE new.major > old.major
Version(major, minor, patch) == [major |-> major, minor |-> minor, patch |-> patch, pre |-> FALSE]
smallest_breaking_bumpMinor(old) == Version(old.major, old.minor + 1, 0)
smallest_breaking_bump(old) == IF old.major = 0 THEN Version(0, old.minor + 1, 0) ELSE Version(old.major + 1, 0, 0)

\* Three attempts. A rate limit, a server error or a broken answer is retried; any other refusal is not.
Answers == {"found", "404", "refused", "transient"}
http_json(a) ==
    IF \E i \in 1..3 : a[i] # "transient" /\ \A j \in 1..(i - 1) : a[j] = "transient"
    THEN a[CHOOSE i \in 1..3 : a[i] # "transient" /\ \A j \in 1..(i - 1) : a[j] = "transient"]
    ELSE "refused"
\* fetch_spec retries every refusal but a 404.
fetch_spec(a) ==
    \E i \in 1..3 : a[i] = "found" /\ \A j \in 1..(i - 1) : a[j] \in {"transient", "refused"}

\* Whether every line of the one listing is in the other, a line printed twice twice.
Kept == {p \in Modules \X Modules : Within(Lines[p[1]], Lines[p[2]])}
grade_surface(published, branch) ==
    IF ~published.snap THEN "no-baseline"
    ELSE IF <<published.mod, branch.mod>> \notin Kept THEN "breaking"
    ELSE IF <<branch.mod, published.mod>> \in Kept THEN "unchanged" ELSE "additive"

\* The published tag in git: pin_at_tag needs the commit, the file and a vX.Y.Z in it, surface_at_tag
\* the commit and its tree, and the file when the tree has it.
GitAnswers == [commit : BOOLEAN, pinFile : BOOLEAN, pinTag : BOOLEAN, tree : BOOLEAN, snapshot : BOOLEAN]
tag_commit(g) == g.commit
pin_at_tag(g) == tag_commit(g) /\ g.pinFile /\ g.pinTag
surface_at_tag(g, snap) == tag_commit(g) /\ g.tree /\ (snap => g.snapshot)

\* The classifier: the vendored bytes, the pinned oasdiff, two OpenAPI documents, and both its runs
\* ending as they should.
Runs == [vendored : BOOLEAN, version : BOOLEAN, documents : BOOLEAN, breaking : {0, 1, 2}, changelog : {0, 1}, lists : BOOLEAN]
load_classifier(r) == r.vendored
graded(r) == r.version /\ r.documents /\ r.breaking \in {0, 1} /\ r.changelog = 0 /\ r.lists
classify(old, new) == IF Promises[old] \subseteq Promises[new] THEN "non-breaking" ELSE "breaking"

decide(published, proposed, spec, surface) ==
    IF /\ less(published, proposed)
       /\ "breaking" \in {spec, surface} => is_breaking_bump(published, proposed)
    THEN "pass" ELSE "fail"

\* What the gate meets when it reads, as far as it matters: the registry's answer, the version in the
\* manifest, the pins and the snapshot, the specs fetched, and the classifier.
Readings == [registry : {http_json(a) : a \in [1..3 -> Answers]},
             pin : {pin_at_tag(g) : g \in GitAnswers},
             surface : {[snap \in BOOLEAN |-> surface_at_tag(g, snap)] : g \in GitAnswers},
             manifest : BOOLEAN,
             grading : {fetch_spec(a) /\ load_classifier(r) /\ graded(r) : a \in [1..3 -> Answers], r \in Runs}]
AllRead == [registry |-> "found", pin |-> TRUE, surface |-> [snap \in BOOLEAN |-> TRUE], manifest |-> TRUE, grading |-> TRUE]

Published == releases[Len(releases)]
Cannot == "could-not-classify"

SpecVerdict == IF Published.pin = main.pin THEN "unchanged" ELSE classify(Published.pin, main.pin)
SurfaceVerdict == grade_surface(Published, main)
\* Whether the evidence is there: both pins, both listings, and the specs and their classifier when the
\* pins differ.
Evidence(read) ==
    /\ read.pin /\ read.surface[Published.snap] /\ main.snap
    /\ Published.pin # main.pin => read.grading

\* The outcome for a proposed version and what main holds.
run(proposed, read) ==
    IF read.registry = "refused" \/ ~read.manifest \/ proposed.pre THEN Cannot
    ELSE IF read.registry = "404" THEN IF releases = <<>> THEN "pass" ELSE Cannot
    ELSE IF ~Evidence(read) THEN Cannot
    ELSE decide(Published.version, proposed, SpecVerdict, SurfaceVerdict)
\* The least version the gate says it takes; None when any increase does.
need == IF "breaking" \in {SpecVerdict, SurfaceVerdict} THEN smallest_breaking_bump(Published.version) ELSE None

\* The exit code on a release PR.
exit(outcome) == IF outcome = "pass" THEN 0 ELSE IF outcome = "fail" THEN 1 ELSE 2

-----------------------------------------------------------------------------
(* The workflows *)

Init ==
    /\ main \in Contents
    /\ releases \in {<<>>} \cup {<<[version |-> v, mod |-> main.mod, snap |-> main.snap, pin |-> main.pin]>> :
                                    v \in {v \in Versions : ~v.pre}}
    /\ pr = None /\ verdict = None

\* A pull request on main: prepublish-surface holds it to commit the listing of its own API, and the
\* verdict only reports there (--report exits 0).
MergePR ==
    /\ \E c \in Contents : c.snap /\ c # main /\ main' = c
    /\ UNCHANGED <<releases, pr, verdict>>

\* release-please opens the release PR, or pushes to it, which cancels the run in progress.
Propose ==
    /\ Len(releases) < MaxReleases
    /\ pr' \in Versions \ {pr}
    /\ verdict' = None
    /\ UNCHANGED <<main, releases>>

\* The pre-publish verdict on the release PR.  The registry answers 404 exactly when nothing has been
\* released, or wrongly.
Gate ==
    /\ pr # None
    /\ \E e \in {exit(run(pr, read)) :
                   read \in {r \in Readings : releases = <<>> => r.registry # "found"}} :
        verdict' = [exit |-> e, on |-> main]
    /\ UNCHANGED <<main, releases, pr>>

\* A person merges the release PR on green checks; release-please tags the merge commit.
MergeRelease ==
    /\ pr # None /\ verdict # None
    /\ verdict.exit = 0
    /\ UpToDate => verdict.on = main
    /\ releases' = Append(releases, [version |-> pr, mod |-> main.mod, snap |-> main.snap, pin |-> main.pin])
    /\ pr' = None /\ verdict' = None
    /\ UNCHANGED main

Next == MergePR \/ Propose \/ Gate \/ MergeRelease
Spec == Init /\ [][Next]_vars

-----------------------------------------------------------------------------
(* Properties *)

\* Whether a caret range that takes v takes w too.
SameCaret(v, w) == v.major = w.major /\ (v.major = 0 => v.minor = w.minor)

\* A consumer that depends on ^v is broken by no later release its range takes: whatever it could use
\* of the API is still there, and the contract keeps every promise, also over several releases
\* (release_verdict.py:12-30).  The API of a release without public-api.txt is not compared.
CaretSafe == \A i, j \in 1..Len(releases) :
    i < j /\ SameCaret(releases[i].version, releases[j].version) =>
        /\ Promises[releases[i].pin] \subseteq Promises[releases[j].pin]
        /\ releases[i].snap => Usable[releases[i].mod] \subseteq Usable[releases[j].mod]

\* The version the gate names as needed (decide's "it needs at least", run's "the next release needs")
\* is right: proposed on the same content it passes, and nothing between it and the published one does;
\* where any increase is said to do, every one passes.
AdviceFits == releases # <<>> /\ main.snap =>
    LET Fits(v) == run(v, AllRead) = "pass"
        Increases == {v \in Versions : ~v.pre /\ less(Published.version, v)}
    IN  IF need = None THEN \A v \in Increases : Fits(v)
        ELSE /\ Fits(need)
             /\ \A v \in Increases : Fits(v) => ~less(v, need)
================================================================================
