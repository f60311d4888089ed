------------------------------- MODULE GateProofs -------------------------------
(***************************************************************************)
(* What stands between a change and its users: the release gate and the     *)
(* conformance lane.                                                        *)
(*                                                                          *)
(* A caret range never breaks a consumer, for any modules, specs, versions  *)
(* and number of releases, where PRs merge on checks of what main holds.    *)
(* The gate compares with the release before only.  That is enough because  *)
(* versions increase, so a caret range that holds two releases holds all    *)
(* between them, and because every release after the first carries its      *)
(* listing, so the comparisons chain.                                       *)
(*                                                                          *)
(* The lane's report is true of every row, for any rows of the SDK, any     *)
(* spec and any answers the checker is right about.  The recorder holds the *)
(* last exchange of the row in progress and nothing between two rows, and   *)
(* of all a call may send only its own request routes to the row.           *)
(***************************************************************************)
EXTENDS Release, Conformance, SequenceTheorems, TLAPS

-----------------------------------------------------------------------------
(* The release gate *)

Released == [version : Versions, mod : Modules, snap : BOOLEAN, pin : Pins]
TypeOK ==
    /\ main \in Contents
    /\ releases \in Seq(Released)
    /\ pr \in Versions \cup {None}
    /\ verdict \in [exit : {0, 1, 2}, on : Contents] \cup {None}

\* What c keeps of the release p.
Keeps(p, c) ==
    /\ Promises[p.pin] \subseteq Promises[c.pin]
    /\ p.snap => Usable[p.mod] \subseteq Usable[c.mod]

\* Versions increase, and every release after the first has its listing.
Increasing == \A i, j \in 1..Len(releases) : i < j => less(releases[i].version, releases[j].version)
Listed == \A j \in 2..Len(releases) : releases[j].snap

\* What the verdict on the release PR says of the content it was given.
VerdictSound == verdict # None /\ verdict.exit = 0 =>
    /\ pr # None /\ ~pr.pre
    /\ releases # <<>> =>
          /\ verdict.on.snap
          /\ less(Published.version, pr)
          /\ is_breaking_bump(Published.version, pr) \/ Keeps(Published, verdict.on)

IInv == TypeOK /\ Increasing /\ Listed /\ VerdictSound /\ CaretSafe

-----------------------------------------------------------------------------

LEMMA VersionFields ==
    \A v \in Versions : v.major \in Nat /\ v.minor \in Nat /\ v.patch \in Nat /\ v.pre \in BOOLEAN
BY VersionsAssumption

\* less is transitive, and what lies between two versions of a caret range is in it.
LEMMA LessTransitive ==
    ASSUME NEW u \in Versions, NEW v \in Versions, NEW w \in Versions, less(u, v), less(v, w)
    PROVE  less(u, w)
BY VersionFields DEF less

LEMMA CaretConvex ==
    ASSUME NEW u \in Versions, NEW v \in Versions, NEW w \in Versions,
           less(u, v), less(v, w), SameCaret(u, w)
    PROVE  SameCaret(u, v) /\ SameCaret(v, w)
BY VersionFields DEF less, SameCaret

\* A breaking bump leaves the caret range.
LEMMA BreakingLeavesCaret ==
    ASSUME NEW v \in Versions, NEW w \in Versions, is_breaking_bump(v, w)
    PROVE  ~SameCaret(v, w)
BY VersionFields DEF is_breaking_bump, less, SameCaret

\* A listing that keeps every line keeps every use.
LEMMA KeptUse ==
    ASSUME NEW m \in Modules, NEW n \in Modules, <<m, n>> \in Kept
    PROVE  Usable[m] \subseteq Usable[n]
BY ModulesAssumption DEF Kept

LEMMA PublishedType ==
    ASSUME TypeOK, releases # <<>>
    PROVE  Published \in Released /\ Len(releases) \in Nat \ {0}
BY DEF TypeOK, Published

\* A verdict that passes says what VerdictSound records.
LEMMA PassSound ==
    ASSUME TypeOK, NEW read, run(pr, read) = "pass"
    PROVE  /\ ~pr.pre
           /\ releases # <<>> =>
                 /\ main.snap
                 /\ less(Published.version, pr)
                 /\ is_breaking_bump(Published.version, pr) \/ Keeps(Published, main)
<1>1. ~pr.pre
  BY DEF run, Cannot
<1>. SUFFICES ASSUME releases # <<>>
              PROVE  /\ main.snap
                     /\ less(Published.version, pr)
                     /\ is_breaking_bump(Published.version, pr) \/ Keeps(Published, main)
  BY <1>1
<1>2. Evidence(read) /\ decide(Published.version, pr, SpecVerdict, SurfaceVerdict) = "pass"
  BY DEF run, Cannot
<1>3. main.snap
  BY <1>2 DEF Evidence
<1>4. /\ less(Published.version, pr)
      /\ "breaking" \in {SpecVerdict, SurfaceVerdict} => is_breaking_bump(Published.version, pr)
  BY <1>2 DEF decide
<1>5. SpecVerdict # "breaking" => Promises[Published.pin] \subseteq Promises[main.pin]
  BY DEF SpecVerdict, classify
<1>6. SurfaceVerdict # "breaking" /\ Published.snap => Usable[Published.mod] \subseteq Usable[main.mod]
  <2>1. SurfaceVerdict # "breaking" /\ Published.snap => <<Published.mod, main.mod>> \in Kept
    BY DEF SurfaceVerdict, grade_surface
  <2>2. Published.mod \in Modules /\ main.mod \in Modules
    BY PublishedType DEF TypeOK, Released, Contents
  <2>. QED BY <2>1, <2>2, KeptUse
<1>. QED BY <1>3, <1>4, <1>5, <1>6 DEF Keeps

-----------------------------------------------------------------------------

LEMMA InitInv == Init => IInv
<1>. SUFFICES ASSUME Init PROVE IInv
  OBVIOUS
<1>1. releases \in Seq(Released) /\ Len(releases) <= 1
  <2>1. \A v \in Versions : main \in Contents =>
          [version |-> v, mod |-> main.mod, snap |-> main.snap, pin |-> main.pin] \in Released
    BY DEF Contents, Released
  <2>2. CASE releases = <<>>
    BY <2>2
  <2>3. CASE releases # <<>>
    <3>1. \E v \in Versions : releases = <<[version |-> v, mod |-> main.mod, snap |-> main.snap, pin |-> main.pin]>>
      BY <2>3 DEF Init
    <3>2. \E r \in Released : releases = <<r>>
      BY <2>1, <3>1 DEF Init
    <3>. QED BY <3>2
  <2>. QED BY <2>2, <2>3
<1>. QED BY <1>1 DEF Init, IInv, TypeOK, Increasing, Listed, VerdictSound, CaretSafe

\* The invariant survives what leaves the releases alone and keeps the verdict sound.
LEMMA MergePRInv == IInv /\ MergePR => IInv'
BY DEF IInv, MergePR, TypeOK, Increasing, Listed, VerdictSound, CaretSafe, Keeps, Published, Contents

LEMMA ProposeInv == IInv /\ Propose => IInv'
BY DEF IInv, Propose, TypeOK, Increasing, Listed, VerdictSound, CaretSafe, None

LEMMA GateInv == IInv /\ Gate => IInv'
<1>. SUFFICES ASSUME IInv, Gate PROVE IInv'
  OBVIOUS
<1>1. PICK read : verdict' = [exit |-> exit(run(pr, read)), on |-> main]
  BY DEF Gate
<1>2. main \in Contents /\ verdict' \in [exit : {0, 1, 2}, on : Contents]
  BY <1>1 DEF IInv, TypeOK, exit
<1>3. verdict'.exit = 0 => run(pr, read) = "pass"
  BY <1>1 DEF exit
<1>4. UNCHANGED <<main, releases, pr>> /\ pr # None
  BY DEF Gate
<1>5. VerdictSound'
  BY <1>1, <1>3, <1>4, PassSound DEF IInv, VerdictSound, Keeps, Published
<1>. QED BY <1>2, <1>4, <1>5 DEF IInv, TypeOK, Increasing, Listed, CaretSafe

\* The release that is tagged: it chains on to the one before.
LEMMA MergeReleaseInv == UpToDate /\ IInv /\ MergeRelease => IInv'
<1>. SUFFICES ASSUME UpToDate, IInv, MergeRelease PROVE IInv'
  OBVIOUS
<1>. DEFINE new == [version |-> pr, mod |-> main.mod, snap |-> main.snap, pin |-> main.pin]
            n == Len(releases)
<1>1. /\ TypeOK /\ Increasing /\ Listed /\ VerdictSound /\ CaretSafe
      /\ n \in Nat /\ \A i \in 1..n : releases[i] \in Released
  BY DEF IInv, TypeOK
<1>2. /\ pr \in Versions
      /\ n # 0 => /\ main.snap
                  /\ less(releases[n].version, pr)
                  /\ is_breaking_bump(releases[n].version, pr) \/ Keeps(releases[n], main)
  BY <1>1 DEF MergeRelease, TypeOK, VerdictSound, Published
<1>3. new \in Released
  BY <1>1, <1>2 DEF TypeOK, Contents, Released
<1>4. /\ releases' = Append(releases, new) /\ Len(releases') = n + 1
      /\ releases'[n + 1] = new /\ \A i \in 1..n : releases'[i] = releases[i]
  BY <1>1 DEF MergeRelease, TypeOK
<1>5. TypeOK'
  BY <1>1, <1>3, <1>4 DEF TypeOK, MergeRelease
<1>6. \A i \in 1..n : less(releases[i].version, pr)
  <2>. SUFFICES ASSUME NEW i \in 1..n, i # n PROVE less(releases[i].version, pr)
    BY <1>1, <1>2
  <2>1. less(releases[i].version, releases[n].version) /\ less(releases[n].version, pr)
    BY <1>1, <1>2 DEF Increasing
  <2>2. releases[i].version \in Versions /\ releases[n].version \in Versions
    BY <1>1 DEF Released
  <2>. QED BY <1>2, <2>1, <2>2, LessTransitive
<1>7. Increasing'
  <2>. SUFFICES ASSUME NEW i \in 1..n + 1, NEW j \in 1..n + 1, i < j
                PROVE  less(releases'[i].version, releases'[j].version)
    BY <1>1, <1>4 DEF Increasing
  <2>1. CASE j = n + 1
    BY <1>1, <1>4, <1>6, <2>1
  <2>2. CASE j # n + 1
    BY <1>1, <1>4, <2>2 DEF Increasing
  <2>. QED BY <2>1, <2>2
<1>8. Listed'
  BY <1>1, <1>2, <1>4 DEF Listed
<1>9. VerdictSound'
  BY DEF MergeRelease, VerdictSound
<1>10. \A i \in 1..n : SameCaret(releases[i].version, pr) => Keeps(releases[i], main)
  <2>. SUFFICES ASSUME NEW i \in 1..n, SameCaret(releases[i].version, pr) PROVE Keeps(releases[i], main)
    OBVIOUS
  <2>1. releases[i].version \in Versions /\ releases[n].version \in Versions
    BY <1>1 DEF Released
  <2>2. SameCaret(releases[n].version, pr) => Keeps(releases[n], main)
    BY <1>1, <1>2, <2>1, BreakingLeavesCaret
  <2>3. CASE i = n
    BY <2>2, <2>3
  <2>4. CASE i # n
    <3>1. i < n /\ less(releases[i].version, releases[n].version) /\ less(releases[n].version, pr)
      BY <1>1, <1>2, <2>4 DEF Increasing
    <3>2. SameCaret(releases[i].version, releases[n].version) /\ SameCaret(releases[n].version, pr)
      BY <1>2, <2>1, <3>1, CaretConvex
    <3>3. Keeps(releases[i], releases[n]) /\ releases[n].snap
      BY <1>1, <3>1, <3>2 DEF CaretSafe, Listed, Keeps
    <3>. QED BY <2>2, <3>2, <3>3 DEF Keeps
  <2>. QED BY <2>3, <2>4
<1>11. CaretSafe'
  <2>. SUFFICES ASSUME NEW i \in 1..n + 1, NEW j \in 1..n + 1, i < j,
                       SameCaret(releases'[i].version, releases'[j].version)
                PROVE  /\ Promises[releases'[i].pin] \subseteq Promises[releases'[j].pin]
                       /\ releases'[i].snap => Usable[releases'[i].mod] \subseteq Usable[releases'[j].mod]
    BY <1>1, <1>4 DEF CaretSafe
  <2>1. CASE j = n + 1
    BY <1>1, <1>4, <1>10, <2>1 DEF Keeps
  <2>2. CASE j # n + 1
    <3>1. i \in 1..n /\ j \in 1..n /\ releases'[i] = releases[i] /\ releases'[j] = releases[j]
      BY <1>1, <1>4, <2>2, SMTT(30)
    <3>. QED BY <1>1, <3>1 DEF CaretSafe
  <2>. QED BY <2>1, <2>2
<1>. QED BY <1>5, <1>7, <1>8, <1>9, <1>11 DEF IInv

LEMMA StepInv == UpToDate /\ IInv /\ [Next]_vars => IInv'
<1>. SUFFICES ASSUME UpToDate, IInv, [Next]_vars PROVE IInv'
  OBVIOUS
<1>1. CASE MergePR BY <1>1, MergePRInv
<1>2. CASE Propose BY <1>2, ProposeInv
<1>3. CASE Gate BY <1>3, GateInv
<1>4. CASE MergeRelease BY <1>4, MergeReleaseInv
<1>5. CASE UNCHANGED vars
  BY <1>5 DEF IInv, TypeOK, Increasing, Listed, VerdictSound, CaretSafe, Keeps, Published, vars
<1>. QED BY <1>1, <1>2, <1>3, <1>4, <1>5 DEF Next

\* Where a PR merges only on checks of what main holds, no release breaks what a caret range takes from
\* an earlier one (release_verdict.py: decide, grade_surface; pre-publish.yml).
THEOREM ReleasesKeepTheirCaret == ASSUME UpToDate PROVE Spec => []CaretSafe
<1>1. IInv => CaretSafe
  BY DEF IInv
<1>. QED BY <1>1, InitInv, StepInv, PTL DEF Spec

\* main, the tags, the release PR and its verdict keep their shape whatever merges.
THEOREM ReleaseTypeCorrect == Spec => []TypeOK
<1>1. Init => TypeOK
  BY InitInv DEF IInv
<1>2. ASSUME TypeOK, [Next]_vars PROVE TypeOK'
  <2>1. CASE MergePR
    BY <1>2, <2>1 DEF TypeOK, MergePR
  <2>2. CASE Propose
    BY <1>2, <2>2 DEF TypeOK, Propose
  <2>3. CASE Gate
    BY <1>2, <2>3 DEF TypeOK, Gate, exit
  <2>4. CASE MergeRelease
    <3>1. [version |-> pr, mod |-> main.mod, snap |-> main.snap, pin |-> main.pin] \in Released
      BY <1>2, <2>4 DEF TypeOK, MergeRelease, Released, Contents
    <3>. QED BY <1>2, <2>4, <3>1 DEF TypeOK, MergeRelease
  <2>5. CASE UNCHANGED vars
    BY <1>2, <2>5 DEF TypeOK, vars
  <2>. QED BY <1>2, <2>1, <2>2, <2>3, <2>4, <2>5 DEF Next
<1>. QED BY <1>1, <1>2, PTL DEF Spec
-----------------------------------------------------------------------------

\* With every reading there, the gate passes exactly what is no prerelease, increases the version, and
\* breaks only where it may.
LEMMA PassIff ==
    ASSUME TypeOK, releases # <<>>, main.snap, NEW v
    PROVE  run(v, AllRead) = "pass" <=>
               /\ v.pre # TRUE
               /\ less(Published.version, v)
               /\ "breaking" \in {SpecVerdict, SurfaceVerdict} => is_breaking_bump(Published.version, v)
<1>1. /\ AllRead.registry = "found" /\ AllRead.manifest = TRUE /\ AllRead.pin = TRUE
      /\ AllRead.grading = TRUE /\ AllRead.surface = [snap \in BOOLEAN |-> TRUE]
  BY DEF AllRead
<1>2. Published.snap \in BOOLEAN
  BY PublishedType DEF Released
<1>3. AllRead.surface[Published.snap] = TRUE
  BY <1>1, <1>2
<1>4. Evidence(AllRead)
  BY <1>1, <1>3 DEF Evidence
<1>. QED BY <1>1, <1>4 DEF run, Cannot, decide

\* The bump the gate names is one, and no version below it is.
LEMMA SmallestBump ==
    ASSUME NEW v \in Versions
    PROVE  LET b == smallest_breaking_bump(v)
           IN  /\ b.pre = FALSE
               /\ is_breaking_bump(v, b)
               /\ \A w \in Versions : is_breaking_bump(v, w) => ~less(w, b)
BY VersionFields DEF smallest_breaking_bump, Version, is_breaking_bump, less

LEMMA BumpIsVersion == ASSUME NEW v PROVE smallest_breaking_bump(v) # None
<1>1. DOMAIN None = {"none"}
  BY DEF None
<1>2. "major" \in DOMAIN smallest_breaking_bump(v)
  BY DEF smallest_breaking_bump, Version
<1>. QED BY <1>1, <1>2

\* What the gate names as needed fits wherever it is asked.
LEMMA TypeFits == TypeOK => AdviceFits
<1>. SUFFICES ASSUME TypeOK, releases # <<>>, main.snap
              PROVE  LET Passes(v) == run(v, AllRead) = "pass"
                         Increases == {v \in Versions : ~v.pre /\ less(Published.version, v)}
                     IN  IF need = None THEN \A v \in Increases : Passes(v)
                         ELSE /\ Passes(need)
                              /\ \A v \in Increases : Passes(v) => ~less(v, need)
  BY DEF AdviceFits
<1>1. Published.version \in Versions
  BY PublishedType DEF Released
<1>2. CASE "breaking" \in {SpecVerdict, SurfaceVerdict}
  <2>. DEFINE b == smallest_breaking_bump(Published.version)
  <2>1. need = b /\ need # None
    BY <1>2, BumpIsVersion DEF need
  <2>2. b.pre = FALSE /\ is_breaking_bump(Published.version, b) /\ less(Published.version, b)
    BY <1>1, SmallestBump DEF is_breaking_bump
  <2>3. run(b, AllRead) = "pass"
    BY <2>2, PassIff
  <2>4. ASSUME NEW v \in Versions, run(v, AllRead) = "pass" PROVE ~less(v, b)
    BY <1>1, <1>2, <2>4, PassIff, SmallestBump
  <2>. QED BY <2>1, <2>3, <2>4
<1>3. CASE "breaking" \notin {SpecVerdict, SurfaceVerdict}
  <2>1. need = None
    BY <1>3 DEF need
  <2>2. ASSUME NEW v \in Versions, ~v.pre, less(Published.version, v) PROVE run(v, AllRead) = "pass"
    BY <1>3, <2>2, PassIff
  <2>. QED BY <2>1, <2>2
<1>. QED BY <1>2, <1>3

\* The version the gate names is the least it takes on the same content, and where it says that any
\* increase does, any does: for every published version and every verdict of the two classifiers
\* (release_verdict.py: smallest_breaking_bump, decide, run).
THEOREM GateAdviceFits == Spec => []AdviceFits
BY ReleaseTypeCorrect, TypeFits, PTL

-----------------------------------------------------------------------------
(* The paths of the lane: of all a call may send, only its own request is one for its operation *)

\* A path without a set of segments to be a sequence over, and an operation whose path is one; a POST
\* has no parameter in its path.
Sequence(p) == /\ Len(p) \in Nat
               /\ p = [i \in 1..Len(p) |-> p[i]]
Good(op) == /\ Sequence(op.path)
            /\ op.verb = "POST" => \A i \in 1..Len(op.path) : op.path[i] # "{}"
\* The table of Operations, one constructor and one length of path at a time.
LEMMA Made ==
    ASSUME NEW p, Sequence(p)
    PROVE  /\ Good(Read(p)) /\ Good(PageOf(p))
           /\ \A v \in {"PUT", "PATCH", "DELETE"} : Good(Write(v, p)) /\ Good(Unsigned(v, p))
           /\ (\A i \in 1..Len(p) : p[i] # "{}") => Good(Write("POST", p)) /\ Good(Unsigned("POST", p))
BY DEF Good, Read, PageOf, Write, Unsigned
LEMMA Tuples ==
    /\ \A a : Sequence(<<a>>)
    /\ \A a, b : Sequence(<<a, b>>)
    /\ \A a, b, c : Sequence(<<a, b, c>>)
<1>1. ASSUME NEW a PROVE Sequence(<<a>>)
  <2>1. Len(<<a>>) = 1 OBVIOUS
  <2>2. <<a>> = [i \in 1..1 |-> <<a>>[i]] OBVIOUS
  <2> QED BY <2>1, <2>2, Zenon DEF Sequence
<1>2. ASSUME NEW a, NEW b PROVE Sequence(<<a, b>>)
  <2>1. Len(<<a, b>>) = 2 OBVIOUS
  <2>2. <<a, b>> = [i \in 1..2 |-> <<a, b>>[i]] OBVIOUS
  <2> QED BY <2>1, <2>2 DEF Sequence
<1>3. ASSUME NEW a, NEW b, NEW c PROVE Sequence(<<a, b, c>>)
  <2>1. Len(<<a, b, c>>) = 3 OBVIOUS
  <2>2. <<a, b, c>> = [i \in 1..3 |-> <<a, b, c>>[i]] OBVIOUS
  <2> QED BY <2>1, <2>2 DEF Sequence
<1> QED BY <1>1, <1>2, <1>3
LEMMA Named ==
    /\ \A a : a # "{}" => \A i \in 1..Len(<<a>>) : <<a>>[i] # "{}"
    /\ \A a, b : a # "{}" /\ b # "{}" => \A i \in 1..Len(<<a, b>>) : <<a, b>>[i] # "{}"
<1>1. ASSUME NEW a, a # "{}", NEW i \in 1..Len(<<a>>) PROVE <<a>>[i] # "{}"
  <2>1. i = 1 OBVIOUS
  <2> QED BY <1>1, <2>1
<1>2. ASSUME NEW a, NEW b, a # "{}" /\ b # "{}", NEW i \in 1..Len(<<a, b>>) PROVE <<a, b>>[i] # "{}"
  <2>1. i = 1 \/ i = 2 OBVIOUS
  <2>2. CASE i = 1 BY <1>2, <2>2
  <2>3. CASE i = 2 BY <1>2, <2>3
  <2> QED BY <2>1, <2>2, <2>3
<1> QED BY <1>1, <1>2
LEMMA TradingGood == \A op \in Trading : Good(op)
  BY Made, Tuples, Named DEF Trading, CreateOrder, PreviewOrder, CreateOrders, EditOrder, CancelOrder, CancelAllOrders,
    FetchOrder, FetchOpenOrders, FetchOrders, FetchMyTrades, FetchPositions, FetchPositionsHistory
LEMMA CredentialsGood == \A op \in OfCredentials : Good(op)
  BY Made, Tuples, Named DEF OfCredentials, Login, CreateAPIKey, FetchAPIKeys, DeleteAPIKey, RegisterAgent, FetchAgents,
    RevokeAgent, DepositTarget, FetchTiers, SetTier, DeleteTier
LEMMA MarketsGood == \A op \in OfMarkets : Good(op)
  BY Made, Tuples, Named DEF OfMarkets, FetchMarkets, FetchMarketsSummary, FetchMarkPrice, FetchMarketRiskParams,
    FetchMarketStatus, FetchAdlEvents, FetchStatus, FetchStats, FetchStatsHistory,
    FetchFundingHistory, FetchFundingRateHistory, FetchFundingSamples, FetchTickers, FetchTicker,
    FetchOrderBook, FetchTrades, FetchOHLCV, InMarket
LEMMA AccountGood == \A op \in OfAccount : Good(op)
  BY Made, Tuples, Named DEF OfAccount, FetchBalance, FetchCancelOnDisconnect, SetCancelOnDisconnect, ClaimCredit, Deposit,
    AddMargin, FetchEquityHistory, FetchTradingFees, FetchPortfolioHistory, FetchRateLimitStatus,
    FetchAccountState, FetchAccountSummary, FetchAdlHistory, FetchDeposits, CreateDeposit,
    FetchWithdrawals, ClaimFaucet, FetchBridgeAssets, FetchBridgeDeposits, FetchBridgeDeposit

LEMMA Table == \A op \in AllOps : Good(op)
BY TradingGood, CredentialsGood, MarketsGood, AccountGood DEF AllOps

\* Segments keeps the length and fills in the parameters.
LEMMA SegmentsOf ==
    ASSUME NEW p, Sequence(p), NEW id
    PROVE  /\ DOMAIN p = 1..Len(p) /\ Len(p) \in Nat
           /\ Len(Segments(p, id)) = Len(p)
           /\ \A i \in 1..Len(p) : Segments(p, id)[i] = IF p[i] = "{}" THEN id ELSE p[i]
<1>1. DOMAIN p = 1..Len(p) /\ Len(p) \in Nat BY Zenon DEF Sequence
<1> QED BY <1>1 DEF Segments

\* An empty id leaves an empty segment where the parameter was.
LEMMA Blanked ==
    ASSUME NEW p, Sequence(p), NEW path, path = Segments(p, ""), NEW i \in 1..Len(p), p[i] = "{}"
    PROVE  path[i] = ""
<1>1. Segments(p, "")[i] = IF p[i] = "{}" THEN "" ELSE p[i] BY SegmentsOf, Zenon
<1> QED BY <1>1, Zenon

\* With any other id a template matches what it stands for.
LEMMA Matches ==
    ASSUME NEW p, Sequence(p), NEW id, id # ""
    PROVE  matchTemplate(p, Segments(p, id))
<1> DEFINE path == Segments(p, id)
<1>1. Len(path) = Len(p) /\ \A i \in 1..Len(p) : path[i] = IF p[i] = "{}" THEN id ELSE p[i]
  BY SegmentsOf, Zenon
<1> HIDE DEF path
<1>2. \A i \in 1..Len(p) : p[i] = path[i] \/ (p[i] = "{}" /\ path[i] # "") BY <1>1, Zenon
<1> QED BY <1>1, <1>2 DEF matchTemplate, path

\* A template without a parameter stands for one path.
LEMMA Literal ==
    ASSUME NEW p, Sequence(p), NEW id, \A i \in 1..Len(p) : p[i] # "{}"
    PROVE  Segments(p, id) = p
<1>1. DOMAIN p = 1..Len(p) BY SegmentsOf
<1>2. Segments(p, id) = [i \in 1..Len(p) |-> p[i]] BY <1>1 DEF Segments
<1> QED BY <1>2, Zenon DEF Sequence

\* A request of the operation is one for it.
LEMMA OwnRoutes ==
    ASSUME NEW op \in AllOps
    PROVE  routes(op, op.verb, Segments(op.path, "x"))
<1>1. Sequence(op.path) BY Table DEF Good
<1>2. matchTemplate(op.path, Segments(op.path, "x")) BY <1>1, Matches
<1> QED BY <1>2, Zenon DEF routes

\* Of what a call may send only that is: a request with an empty id is for no template with a parameter,
\* and a sign-in is for no other operation, since no POST has a parameter it could stand for.
LEMMA OnlyOwnRoutes ==
    ASSUME NEW op \in AllOps, NEW r \in Sendable(op), routes(op, r.verb, r.path)
    PROVE  r.verb = op.verb /\ r.path = Segments(op.path, "x")
<1> DEFINE p == op.path
<1>1. Sequence(p) BY Table DEF Good
<1>2. r.verb = op.verb /\ matchTemplate(p, r.path) BY DEF routes
<1>3. CASE r.path = Segments(p, "")
  <2>1. SUFFICES ASSUME NEW i \in 1..Len(p), p[i] = "{}" PROVE FALSE
    BY <1>1, <1>2, <1>3, Literal
  <2>2. r.path[i] = "" BY <1>1, <1>3, <2>1, Blanked, Zenon
  <2>3. p[i] = r.path[i] \/ r.path[i] # "" BY <1>2 DEF matchTemplate
  <2> QED BY <2>1, <2>2, <2>3
<1>4. CASE r = [verb |-> Login.verb, path |-> Login.path]
  <2>1. op.verb = "POST" /\ r.path = <<"auth", "login">>
    BY <1>2, <1>4 DEF Login, Unsigned, Write
  <2>2. \A i \in 1..Len(p) : p[i] # "{}" BY <2>1, Table DEF Good
  <2>3. /\ Len(p) = Len(r.path)
        /\ \A i \in 1..Len(p) : p[i] = r.path[i]
    BY <2>2, <1>2 DEF matchTemplate
  <2>4. Sequence(r.path) BY <2>1, Tuples
  <2>5. p = r.path BY <1>1, <2>3, <2>4, Zenon DEF Sequence
  <2> QED BY <1>1, <1>2, <2>2, <2>5, Literal
<1>5. r.path \in {Segments(p, "x"), Segments(p, "")} \/ r = [verb |-> Login.verb, path |-> Login.path]
  <2>1. CASE r \in {[verb |-> op.verb, path |-> Segments(op.path, id)] : id \in {"x", ""}}
    <3>1. PICK id \in {"x", ""} : r = [verb |-> op.verb, path |-> Segments(p, id)] BY <2>1
    <3> QED BY <3>1
  <2> QED BY <2>1 DEF Sendable
<1> QED BY <1>2, <1>3, <1>4, <1>5

-----------------------------------------------------------------------------
(* The inductive invariant of the lane *)

Requests == UNION {Sendable(op) : op \in AllOps}
Exchanges == [verb : {r.verb : r \in Requests}, path : {r.path : r \in Requests}, status : {0, 200, 429},
              body : {Nothing} \cup {c[2] : c \in Cases}]
Statuses == {"pass", "unmeasured", "fail", "skipped", "blocked"}
Categories == {"", "drift", "credential", "writes", "local", "route", "decode", "transport", "http", "schema"}
Found == {<<>>} \cup {Checked[c].findings : c \in Cases}
Errors == {"", "nil", "skip", "error"}
Results == [status : Statuses, category : Categories, findings : Found, err : Errors]

LaneTypeOK ==
    /\ calling \in BOOLEAN
    /\ wire \in Seq(Exchanges)
    /\ report \in Seq(Results)

\* The answer x was given to a request of the row's operation, and one with a body is a case of the schema.
AnswerTo(x, op, schema) ==
    /\ \E r \in Sendable(op) : x.verb = r.verb /\ x.path = r.path
    /\ x.status = 200 => <<schema, x.body>> \in Cases

\* What the recorder holds is the last exchange of the row, and nothing between the rows; a row in
\* progress was allowed to be called.
Recorded ==
    /\ ~calling => last = NoExchange
    /\ calling => last = IF wire = <<>> THEN NoExchange ELSE Last(wire)
Allowed == calling =>
    /\ Len(report) < Len(Rows)
    /\ Callable(entry)
    /\ wire # <<>> => AnswerTo(Last(wire), Current.op, entry.schema)

LaneInv == LaneTypeOK /\ Recorded /\ Allowed /\ Honest /\ NoFalseAlarm

-----------------------------------------------------------------------------
\* What Append adds is the last element.
LEMMA Appended ==
    ASSUME NEW S, NEW q \in Seq(S), NEW x \in S
    PROVE  LET r == Append(q, x)
           IN  /\ r \in Seq(S) /\ r # <<>>
               /\ Len(q) \in Nat /\ Len(r) = Len(q) + 1
               /\ Len(r) \in DOMAIN r
               /\ r[Len(r)] = x
<1> DEFINE r == Append(q, x)
<1>1. Len(q) \in Nat BY LenProperties
<1>2. r \in Seq(S) /\ r # <<>> /\ Len(r) = Len(q) + 1 /\ r[Len(q) + 1] = x BY AppendProperties
<1>3. DOMAIN r = 1..Len(r) BY <1>2, LenProperties
<1> HIDE DEF r
<1>4. Len(r) \in DOMAIN r BY <1>1, <1>2, <1>3
<1>5. r[Len(r)] = x BY <1>2
<1> QED BY <1>1, <1>2, <1>4, <1>5 DEF r

\* The row in progress is one of the rows.
LEMMA CurrentIs ==
    ASSUME LaneTypeOK, Len(report) < Len(Rows)
    PROVE  Current.op \in AllOps /\ Current.write \in BOOLEAN
<1>1. Len(report) \in Nat BY DEF LaneTypeOK
<1>2. \A i \in 1..Len(Rows) : Rows[i] \in [op : AllOps, write : BOOLEAN]
  BY ConformanceAssumption, ElementOfSeq
<1>3. Len(report) + 1 \in 1..Len(Rows) BY <1>1, ConformanceAssumption
<1>4. Current \in [op : AllOps, write : BOOLEAN] BY <1>2, <1>3 DEF Current
<1> QED BY <1>4

\* What a judgement adds to the report, and where the properties see it.
LEMMA Adds ==
    ASSUME LaneTypeOK, Len(report) < Len(Rows), ~calling',
           NEW s \in Statuses, NEW c \in Categories, NEW f \in Found, NEW e \in Errors,
           Judged(s, c, f, e)
    PROVE  /\ report' \in Seq(Results)
           /\ Judgement'.status = s /\ Judgement'.category = c
           /\ Judgement'.findings = f /\ Judgement'.err = e
           /\ Subject' = Current
           /\ s \in {"fail", "blocked"} => Failed'
<1> DEFINE j == [status |-> s, category |-> c, findings |-> f, err |-> e]
<1>1. j \in Results BY DEF Results
<1>2. report' = Append(report, j) BY DEF Judged
<1>3. j.status = s /\ j.category = c /\ j.findings = f /\ j.err = e OBVIOUS
<1> HIDE DEF j
<1>4. /\ Len(report) \in Nat
      /\ report' \in Seq(Results)
      /\ Len(report') = Len(report) + 1
      /\ Len(report') \in DOMAIN report'
      /\ report'[Len(report')] = j
  <2>1. report \in Seq(Results) BY DEF LaneTypeOK
  <2> HIDE DEF Results
  <2> QED BY <1>1, <1>2, <2>1, Appended
<1>5. Judgement' = j /\ Subject' = Current BY <1>4 DEF Judgement, Subject, Current
<1>6. s \in {"fail", "blocked"} => Failed' BY <1>3, <1>4 DEF Failed
<1> QED BY <1>3, <1>4, <1>5, <1>6

\* Before the first row there is nothing recorded and nothing judged.
LEMMA LaneInitial == LaneInit => LaneInv
<1> SUFFICES ASSUME LaneInit PROVE LaneInv OBVIOUS
<1>1. calling = FALSE /\ last = NoExchange /\ wire = <<>> /\ report = <<>> BY DEF LaneInit
<1>2. ~Measured BY <1>1, Len(<<>>) = 0 DEF Measured
<1>3. LaneTypeOK BY <1>1, EmptySeq DEF LaneTypeOK
<1> QED BY <1>1, <1>2, <1>3 DEF LaneInv, Recorded, Allowed, Honest, NoFalseAlarm

LEMMA LaneStutter == LaneInv /\ UNCHANGED laneVars => LaneInv'
<1> SUFFICES ASSUME LaneInv, UNCHANGED laneVars PROVE LaneInv' OBVIOUS
<1>1. UNCHANGED <<cfg, entry, calling, last, wire, report>> BY Zenon DEF laneVars
<1>2. Measured' = Measured /\ Judgement' = Judgement /\ Subject' = Subject /\ Current' = Current
  BY <1>1, Zenon DEF Measured, Judgement, Subject, Current
<1>3. Answered' = Answered /\ Failed' = Failed BY <1>1, <1>2, Zenon DEF Answered, Failed
<1>4. LaneTypeOK' BY <1>1, Zenon DEF LaneInv, LaneTypeOK
<1>5. Recorded' BY <1>1, Zenon DEF LaneInv, Recorded
<1>6. Allowed' BY <1>1, <1>2, Zenon DEF LaneInv, Allowed, Callable, AnswerTo
<1>7. Honest' BY <1>1, <1>2, <1>3, Zenon DEF LaneInv, Honest
<1>8. NoFalseAlarm' BY <1>1, <1>2, <1>3, Zenon DEF LaneInv, NoFalseAlarm
<1> QED BY <1>4, <1>5, <1>6, <1>7, <1>8 DEF LaneInv

\* A row that may not be called.
LEMMA SettleStep ==
    ASSUME LaneInv, ~calling, Len(report) < Len(Rows), NEW e, entry' = e, wire' = <<>>, cfg' = cfg, Settle(e)
    PROVE  LaneInv'
<1>1. LaneTypeOK /\ ~calling' /\ calling' \in BOOLEAN /\ last' = NoExchange
  BY DEF LaneInv, LaneTypeOK, Recorded, Settle
<1>2. PICK s \in {"fail", "blocked", "skipped"}, c \in {"drift", "credential", "writes"} : Judged(s, c, <<>>, "")
  BY DEF Settle
<1>3. /\ report' \in Seq(Results)
      /\ Judgement'.status = s /\ Judgement'.category = c
      /\ s \in {"fail", "blocked"} => Failed'
  <2>1. s \in Statuses /\ c \in Categories /\ <<>> \in Found /\ "" \in Errors
    BY DEF Statuses, Categories, Found, Errors
  <2> QED BY <1>1, <1>2, <2>1, Adds
<1>4. LaneTypeOK' BY <1>1, <1>3 DEF LaneTypeOK
<1>5. Recorded' /\ Allowed' BY <1>1 DEF Recorded, Allowed
<1>6. Honest' BY <1>3 DEF Honest
<1>7. NoFalseAlarm' BY DEF NoFalseAlarm, Answered
<1> QED BY <1>4, <1>5, <1>6, <1>7 DEF LaneInv

\* A row that may be called starts with an empty recorder.
LEMMA CallStep ==
    ASSUME LaneInv, ~calling, Len(report) < Len(Rows), NEW e, entry' = e, wire' = <<>>, cfg' = cfg, Call(e)
    PROVE  LaneInv'
<1>1. LaneTypeOK /\ calling' = TRUE /\ last' = NoExchange /\ report' = report BY DEF LaneInv, Call, Take
<1>2. LaneTypeOK' /\ Recorded' BY <1>1 DEF LaneTypeOK, Recorded
<1>3. Callable(entry)' BY <1>1 DEF Call, Callable, Current
<1>4. Allowed' BY <1>1, <1>3 DEF Allowed
<1>5. ~Measured' BY <1>1 DEF Measured
<1> QED BY <1>2, <1>4, <1>5 DEF LaneInv, Honest, NoFalseAlarm

\* The exchange the recorder keeps is one of the row.
LEMMA RoundTripStep == LaneInv /\ RoundTrip => LaneInv'
<1> SUFFICES ASSUME LaneInv, RoundTrip PROVE LaneInv' OBVIOUS
<1>1. LaneTypeOK /\ calling = TRUE /\ calling' = TRUE /\ report' = report /\ cfg' = cfg /\ entry' = entry
  BY DEF LaneInv, RoundTrip
<1>2. Len(report) < Len(Rows) /\ Callable(entry) /\ Current.op \in AllOps
  BY <1>1, CurrentIs DEF LaneInv, Allowed
<1>3. PICK r \in Sendable(Current.op),
           a \in {[status |-> n, body |-> Nothing] : n \in {0, 429}}
                 \cup {[status |-> 200, body |-> c[2]] : c \in {c \in Cases : c[1] = entry.schema}} :
        last' = [verb |-> r.verb, path |-> r.path, status |-> a.status, body |-> a.body]
  BY DEF RoundTrip
<1>4. /\ a.status \in {0, 200, 429}
      /\ a.body \in {Nothing} \cup {c[2] : c \in Cases}
      /\ a.status = 200 => <<entry.schema, a.body>> \in Cases
  <2>1. CASE \E n \in {0, 429} : a = [status |-> n, body |-> Nothing] BY <2>1
  <2>2. CASE \E c \in Cases : c[1] = entry.schema /\ a = [status |-> 200, body |-> c[2]]
    <3>1. PICK c \in Cases : c[1] = entry.schema /\ a = [status |-> 200, body |-> c[2]] BY <2>2
    <3>2. <<entry.schema, c[2]>> = c BY <3>1, ConformanceAssumption
    <3> QED BY <3>1, <3>2
  <2> QED BY <2>1, <2>2
<1>5. last' \in Exchanges
  <2>1. r \in Requests BY <1>2 DEF Requests
  <2> QED BY <1>3, <1>4, <2>1 DEF Exchanges
<1>6. AnswerTo(last', Current.op, entry.schema) BY <1>3, <1>4 DEF AnswerTo
<1>7. wire' = Append(wire, last') BY DEF RoundTrip
<1>8. wire' \in Seq(Exchanges) /\ wire' # <<>> /\ Last(wire') = last'
  <2> HIDE DEF Exchanges
  <2> QED BY <1>1, <1>5, <1>7, Appended DEF LaneTypeOK, Last
<1>9. LaneTypeOK' /\ Recorded' BY <1>1, <1>8 DEF LaneTypeOK, Recorded
<1>10. Current' = Current /\ Callable(entry)' BY <1>1, <1>2 DEF Current, Callable
<1>11. Allowed' BY <1>1, <1>2, <1>6, <1>8, <1>10 DEF Allowed
<1>12. ~Measured' BY <1>1 DEF Measured
<1> QED BY <1>9, <1>11, <1>12 DEF LaneInv, Honest, NoFalseAlarm

\* The judgement: nothing was sent, what was sent was another request, the call failed, or the answer to
\* its own request is measured.
LEMMA ReturnStep == LaneInv /\ Return => LaneInv'
<1> SUFFICES ASSUME LaneInv, Return PROVE LaneInv' OBVIOUS
<1>1. /\ LaneTypeOK /\ calling = TRUE /\ calling' = FALSE /\ last' = NoExchange
      /\ cfg' = cfg /\ entry' = entry /\ wire' = wire
  BY DEF LaneInv, Return, Take
<1>2. Len(report) < Len(Rows) /\ Callable(entry) /\ Current.op \in AllOps
  BY <1>1, CurrentIs DEF LaneInv, Allowed
<1>3. PICK returned \in Returns : Judge(last, returned) BY DEF Return, Take
<1>4. returned \in {"nil", "skip", "error"} BY DEF Returns
<1>5. last = IF wire = <<>> THEN NoExchange ELSE Last(wire) BY <1>1 DEF LaneInv, Recorded
<1> DEFINE x == Last(wire)
<1>6. wire # <<>> =>
        /\ x \in Exchanges /\ x # NoExchange
        /\ AnswerTo(x, Current.op, entry.schema)
        /\ returned = "nil" => x.status = 200
  <2> SUFFICES ASSUME wire # <<>>
               PROVE  /\ x \in Exchanges /\ x # NoExchange
                      /\ AnswerTo(x, Current.op, entry.schema)
                      /\ returned = "nil" => x.status = 200
    OBVIOUS
  <2>1. x \in Exchanges
    <3> HIDE DEF Exchanges
    <3>1. Len(wire) \in 1..Len(wire) BY <1>1, EmptySeq DEF LaneTypeOK
    <3> QED BY <1>1, <3>1, ElementOfSeq DEF LaneTypeOK, Last
  <2>2. x # NoExchange BY <2>1 DEF Exchanges, NoExchange
  <2>3. returned = "nil" => x.status = 200 BY DEF Returns
  <2> QED BY <1>1, <2>1, <2>2, <2>3 DEF LaneInv, Allowed
<1> HIDE DEF x
\* Whatever is judged, the rest of the invariant follows from what was added.
<1>7. ASSUME NEW s \in {"pass", "unmeasured", "fail", "skipped"},
             NEW c \in {"", "local", "route", "decode", "transport", "http", "schema"},
             NEW f \in Found,
             Judged(s, c, f, returned)
      PROVE  /\ LaneTypeOK' /\ Recorded' /\ Allowed'
             /\ Judgement'.status = s /\ Judgement'.category = c
             /\ Judgement'.findings = f /\ Judgement'.err = returned
             /\ Subject' = Current
             /\ s = "fail" => Failed'
  <2>1. /\ report' \in Seq(Results)
        /\ Judgement'.status = s /\ Judgement'.category = c
        /\ Judgement'.findings = f /\ Judgement'.err = returned
        /\ Subject' = Current
        /\ s = "fail" => Failed'
    <3>1. s \in Statuses /\ c \in Categories /\ returned \in Errors
      BY <1>4 DEF Statuses, Categories, Errors
    <3> QED BY <1>1, <1>2, <1>7, <3>1, Adds
  <2>2. LaneTypeOK' BY <1>1, <2>1 DEF LaneTypeOK
  <2>3. Recorded' /\ Allowed' BY <1>1 DEF Recorded, Allowed
  <2> QED BY <2>1, <2>2, <2>3
<1>8. <<>> \in Found /\ \A c \in Cases : Checked[c].findings \in Found BY DEF Found
<1>9. entry'.public \/ cfg'.credential BY <1>1, <1>2 DEF Callable
<1>10. Current.write => cfg'.writes BY <1>1, <1>2 DEF Callable
<1>11. CASE wire = <<>>
  <2>1. PICK s \in {"fail", "skipped"} : Judged(s, "local", <<>>, returned)
    BY <1>3, <1>5, <1>11 DEF Judge
  <2>2. LaneTypeOK' /\ Recorded' /\ Allowed' /\ Judgement'.status = s /\ Judgement'.category = "local"
        /\ (s = "fail" => Failed')
    BY <1>7, <1>8, <2>1
  <2>3. Honest' BY <1>1, <1>11, <2>2 DEF Honest
  <2>4. NoFalseAlarm' BY <1>1, <1>11 DEF NoFalseAlarm, Answered
  <2> QED BY <2>2, <2>3, <2>4 DEF LaneInv
<1>12. CASE wire # <<>> /\ ~routes(Current.op, x.verb, x.path)
  <2>1. Judged("fail", "route", <<>>, returned) BY <1>3, <1>5, <1>6, <1>12 DEF Judge, x
  <2>2. LaneTypeOK' /\ Recorded' /\ Allowed' /\ Judgement'.status = "fail" /\ Judgement'.category = "route"
        /\ Subject' = Current /\ Failed'
    BY <1>7, <1>8, <2>1
  <2>3. Honest' BY <1>1, <1>9, <1>10, <1>12, <2>2 DEF Honest
  <2>4. ~Answered' BY <1>1, <1>2, <1>12, <2>2, OwnRoutes DEF Answered, x
  <2> QED BY <2>2, <2>3, <2>4 DEF LaneInv, NoFalseAlarm
<1>13. CASE wire # <<>> /\ routes(Current.op, x.verb, x.path) /\ returned # "nil"
  <2>1. PICK c \in {"decode", "transport", "http"} : Judged("fail", c, <<>>, returned)
    BY <1>3, <1>5, <1>6, <1>13 DEF Judge, Reason, x
  <2>2. LaneTypeOK' /\ Recorded' /\ Allowed' /\ Judgement'.status = "fail" /\ Judgement'.category = c
        /\ Judgement'.err = returned /\ Subject' = Current /\ Failed'
    BY <1>7, <1>8, <2>1
  <2>3. Honest' BY <1>1, <1>9, <1>10, <1>13, <2>2 DEF Honest
  <2>4. NoFalseAlarm' BY <1>13, <2>2 DEF NoFalseAlarm
  <2> QED BY <2>2, <2>3, <2>4 DEF LaneInv
<1>14. CASE wire # <<>> /\ routes(Current.op, x.verb, x.path) /\ returned = "nil"
  <2>1. /\ x.status = 200 /\ x.verb = Current.op.verb
        /\ x.path = Segments(Current.op.path, "x")
    BY <1>2, <1>6, <1>14, OnlyOwnRoutes DEF AnswerTo
  <2>2. <<entry.schema, x.body>> \in Cases BY <1>6, <1>14, <2>1 DEF AnswerTo
  <2>3. CASE entry.schema = Nothing
    <3>1. Judged("unmeasured", "", <<>>, returned) BY <1>3, <1>5, <1>6, <1>14, <2>3 DEF Judge, x
    <3>2. LaneTypeOK' /\ Recorded' /\ Allowed' /\ Judgement'.status = "unmeasured" /\ Judgement'.category = ""
          /\ Subject' = Current
      BY <1>7, <1>8, <3>1
    <3>3. Honest' BY <1>1, <1>9, <1>10, <1>14, <3>2 DEF Honest
    <3>4. NoFalseAlarm' BY <1>1, <2>3, <3>2 DEF NoFalseAlarm
    <3> QED BY <3>2, <3>3, <3>4 DEF LaneInv
  <2>4. CASE entry.schema # Nothing
    <3> DEFINE k == <<entry.schema, x.body>>
    <3>1. Measure(Checked[k], returned) BY <1>3, <1>5, <1>6, <1>14, <2>4 DEF Judge, x
    <3>2. k \in Cases /\ k[1] = entry.schema /\ k[2] = x.body BY <2>2
    <3> HIDE DEF k
    <3>3. LET found == Checked[k].findings
          IN  /\ Contains(found, Error) => k \notin Fitting
              /\ Contains(found, Error) \/ Contains(found, Warn) \/ k \in Fitting
              /\ Checked[k].items = 0 <=> x.body \in Blank
      BY <2>4, <3>2, CheckerAssumption
    <3>4. CASE Blamed(Checked[k].findings)
      <4>1. Judged("fail", "schema", Checked[k].findings, returned) BY <3>1, <3>4 DEF Measure
      <4>2. LaneTypeOK' /\ Recorded' /\ Allowed' /\ Judgement'.status = "fail" /\ Judgement'.category = "schema"
            /\ Subject' = Current /\ Failed'
        BY <1>7, <1>8, <3>2, <4>1
      <4>3. Honest' BY <1>1, <1>9, <1>10, <1>14, <4>2 DEF Honest
      <4>4. NoFalseAlarm' BY <1>1, <3>3, <3>4 DEF NoFalseAlarm, Blamed, k, x
      <4> QED BY <4>2, <4>3, <4>4 DEF LaneInv
    <3>5. CASE ~Blamed(Checked[k].findings)
      <4> DEFINE s == IF Checked[k].items = 0 THEN "unmeasured" ELSE "pass"
      <4>1. Judged(s, "", Checked[k].findings, returned) BY <3>1, <3>5 DEF Measure
      <4>2. s \in {"pass", "unmeasured"} OBVIOUS
      <4>3. s = "unmeasured" <=> x.body \in Blank BY <3>3
      <4> HIDE DEF s
      <4>4. LaneTypeOK' /\ Recorded' /\ Allowed' /\ Judgement'.status = s /\ Judgement'.category = ""
            /\ Judgement'.findings = Checked[k].findings /\ Judgement'.err = returned /\ Subject' = Current
        BY <1>7, <1>8, <3>2, <4>1, <4>2
      <4>5. Answered' BY <1>1, <1>14, <2>1, <4>4 DEF Answered, x
      <4>6. k \in Fitting \/ Contains(Checked[k].findings, Warn) BY <3>3, <3>5 DEF Blamed
      <4>7. Honest' BY <1>1, <1>9, <1>10, <1>14, <2>4, <4>2, <4>3, <4>4, <4>5, <4>6 DEF Honest, k, x
      <4>8. NoFalseAlarm' BY <1>1, <2>4, <4>2, <4>3, <4>4 DEF NoFalseAlarm, x
      <4> QED BY <4>4, <4>7, <4>8 DEF LaneInv
    <3> QED BY <3>4, <3>5
  <2> QED BY <2>3, <2>4
<1> QED BY <1>11, <1>12, <1>13, <1>14

LEMMA LaneStep == LaneInv /\ [LaneNext]_laneVars => LaneInv'
<1> SUFFICES ASSUME LaneInv, [LaneNext]_laneVars PROVE LaneInv' OBVIOUS
<1>1. CASE TakeUp BY <1>1, SettleStep, CallStep DEF TakeUp
<1>2. CASE RoundTrip BY <1>2, RoundTripStep
<1>3. CASE Return BY <1>3, ReturnStep
<1>4. CASE UNCHANGED laneVars BY <1>4, LaneStutter
<1> QED BY <1>1, <1>2, <1>3, <1>4 DEF LaneNext

\* Whatever a call sends and in whatever order, a row passes only on the answer to its own request, with
\* something in it that the contract declares; what it is blamed for it did, and what it was not allowed to
\* send it did not (run.go: run, Recorder.take).
THEOREM LaneIsHonest == LaneSpec => []Honest
<1>1. LaneInv => Honest BY DEF LaneInv
<1> QED BY <1>1, LaneInitial, LaneStep, PTL DEF LaneSpec

\* A call that was answered with what the contract declares is passed, or unmeasured where there was
\* nothing in the answer (run.go: run).
THEOREM LaneRaisesNoFalseAlarm == LaneSpec => []NoFalseAlarm
<1>1. LaneInv => NoFalseAlarm BY DEF LaneInv
<1> QED BY <1>1, LaneInitial, LaneStep, PTL DEF LaneSpec
================================================================================
