------------------------------ MODULE Conformance ------------------------------
(***************************************************************************)
(* The conformance lane, internal/conformance: Run calls the SDK method of  *)
(* each row, reads the exchange the Recorder saw, and judges the answer by  *)
(* the schema the pinned spec declares (ParseSpec).                         *)
(*                                                                          *)
(* Checked, Fitting and Blank are what the checker finds in each answer,    *)
(* which answers are what their schema declares, and which values hold      *)
(* nothing; Checker defines all three.  A finding is its severity.          *)
(***************************************************************************)
EXTENDS Operations, SequencesExt

CONSTANTS
    Rows,           \* the rows of the lane, in order: [op, write]
    Cases,          \* the bodies an answer may have, by schema: <<schema, value>>
    Entries,        \* what the spec may say of an operation: [security, responses]
    Checked,        \* Spec.Check of each of them: [items, findings]
    Fitting,        \* those whose value is what the schema declares
    Blank,          \* the values that hold nothing
    MaxWire         \* bounds the requests of one call

Error == "error"
Warn == "warn"
Nothing == <<>>     \* no schema, nothing promised; and no body

ASSUME ConformanceAssumption ==
    /\ Rows \in Seq([op : AllOps, write : BOOLEAN])
    /\ \A c \in Cases : c = <<c[1], c[2]>>
\* The checker on the bodies that occur: an error is a breach of the schema, without one the value is
\* what was declared or a warning says what was not looked at, and only what is empty has no items.
ASSUME CheckerAssumption == \A c \in Cases :
    LET found == Checked[c].findings
    IN  /\ Contains(found, Error) => c \notin Fitting
        /\ Contains(found, Error) \/ Contains(found, Warn) \/ c \in Fitting
        /\ c[1] # Nothing => (Checked[c].items = 0 <=> c[2] \in Blank)

-----------------------------------------------------------------------------
(* spec.go *)

Absent == [absent |-> TRUE]

\* The entry of an operation; a security is the set of its alternatives, each a set of schemes, and
\* doc the document's own, which holds where the operation has none.
ParseSpec(doc, raw) ==
    LET security == IF "security" \in DOMAIN raw THEN raw.security ELSE doc
        declared == {200, 201} \cap DOMAIN raw.responses
    IN  [public |-> security = {} \/ {} \in security,
         schema |-> IF declared = {} THEN Nothing ELSE raw.responses[Min(declared)]]

routes(op, verb, path) == verb = op.verb /\ matchTemplate(op.path, path)

-----------------------------------------------------------------------------
(* run.go *)

VARIABLES
    cfg,        \* Config, and the security of the document
    entry,      \* the operation, in the spec, of the row in progress or judged last
    calling,    \* whether the row's Call is running
    last,       \* Recorder.last
    wire,       \* ghost: the exchanges of the row
    report      \* Report.Results
laneVars == <<cfg, entry, calling, last, wire, report>>

NoExchange == [none |-> TRUE]
Current == Rows[Len(report) + 1]

\* take forgets the exchange it returns.
TakePeek(l) == [got |-> l, left |-> l]
Take(l) == [got |-> l, left |-> NoExchange]

LaneInit ==
    /\ cfg \in [credential : BOOLEAN, require : BOOLEAN, writes : BOOLEAN, security : {{}, {{"hmac"}}}]
    /\ entry = Absent /\ calling = FALSE
    /\ last = NoExchange /\ wire = <<>> /\ report = <<>>

Judged(status, category, findings, returned) ==
    report' = Append(report, [status |-> status, category |-> category, findings |-> findings, err |-> returned])

Callable(e) == e # Absent /\ (e.public \/ cfg.credential) /\ (Current.write => cfg.writes)

\* A row that may not be called is settled before anything is sent.
Settle(e) ==
    /\ \/ e = Absent /\ Judged("fail", "drift", <<>>, "")
       \/ /\ e # Absent /\ ~e.public /\ ~cfg.credential
          /\ Judged(IF cfg.require THEN "blocked" ELSE "skipped", "credential", <<>>, "")
       \/ /\ e # Absent /\ (e.public \/ cfg.credential) /\ Current.write /\ ~cfg.writes
          /\ Judged("skipped", "writes", <<>>, "")
    /\ UNCHANGED <<calling, last>>

Call(e) ==
    /\ Callable(e)
    /\ calling' = TRUE
    /\ last' = Take(last).left
    /\ UNCHANGED report

TakeUp ==
    /\ ~calling /\ Len(report) < Len(Rows)
    /\ \E e \in {Absent} \cup {ParseSpec(cfg.security, d) : d \in Entries} :
        /\ entry' = e
        /\ wire' = <<>>
        /\ Settle(e) \/ Call(e)
    /\ UNCHANGED cfg

\* What a call may send: its own request, the sign-in of its session, its own with an empty id.
Segments(path, id) == [i \in DOMAIN path |-> IF path[i] = "{}" THEN id ELSE path[i]]
Sendable(op) ==
    {[verb |-> op.verb, path |-> Segments(op.path, id)] : id \in {"x", ""}} \cup {[verb |-> Login.verb, path |-> Login.path]}

\* The recorder keeps each exchange, answered or not.
RoundTrip ==
    /\ calling /\ Len(wire) < MaxWire
    /\ \E r \in Sendable(Current.op), a \in {[status |-> n, body |-> Nothing] : n \in {0, 429}}
                                 \cup {[status |-> 200, body |-> c[2]] : c \in {c \in Cases : c[1] = entry.schema}} :
        /\ last' = [verb |-> r.verb, path |-> r.path, status |-> a.status, body |-> a.body]
        /\ wire' = Append(wire, last')
    /\ UNCHANGED <<cfg, entry, calling, report>>

\* What a call returns is "nil" only when its last answer was one, or it sent nothing.
Returns == IF wire = <<>> THEN {"nil", "skip", "error"}
           ELSE IF Last(wire).status = 200 THEN {"nil", "error"} ELSE {"error"}

\* The findings come with the errors first.
BlamedForAny(findings) == findings # <<>>
Blamed(findings) == Contains(findings, Error)
Reason(status) == IF status = 200 THEN "decode" ELSE IF status = 0 THEN "transport" ELSE "http"

Measure(check, returned) ==
    \/ Blamed(check.findings) /\ Judged("fail", "schema", check.findings, returned)
    \/ /\ ~Blamed(check.findings)
       /\ Judged(IF check.items = 0 THEN "unmeasured" ELSE "pass", "", check.findings, returned)

Judge(ex, returned) ==
    \/ /\ ex = NoExchange
       /\ Judged(IF returned = "skip" THEN "skipped" ELSE "fail", "local", <<>>, returned)
    \/ /\ ex # NoExchange /\ ~routes(Current.op, ex.verb, ex.path)
       /\ Judged("fail", "route", <<>>, returned)
    \/ /\ ex # NoExchange /\ routes(Current.op, ex.verb, ex.path)
       /\ \/ returned # "nil" /\ Judged("fail", Reason(ex.status), <<>>, returned)
          \/ returned = "nil" /\ entry.schema = Nothing /\ Judged("unmeasured", "", <<>>, returned)
          \/ returned = "nil" /\ entry.schema # Nothing /\ Measure(Checked[entry.schema, ex.body], returned)

Return ==
    /\ calling
    /\ \E returned \in Returns : Judge(Take(last).got, returned)
    /\ calling' = FALSE
    /\ last' = Take(last).left
    /\ UNCHANGED <<cfg, entry, wire>>

LaneNext == TakeUp \/ RoundTrip \/ Return
LaneSpec == LaneInit /\ [][LaneNext]_laneVars

\* Report.Failed, of the rows: the method sets of the SDK (Drift) are compared elsewhere.
Failed == \E i \in DOMAIN report : report[i].status \in {"fail", "blocked"}

-----------------------------------------------------------------------------
(* Properties *)

Measured == Len(report) > 0 /\ ~calling
Judgement == report[Len(report)]
Subject == Rows[Len(report)]
\* The row's last request was its own and was answered with a body.
Answered ==
    /\ wire # <<>>
    /\ Last(wire).status = 200 /\ Last(wire).verb = Subject.op.verb
    /\ Last(wire).path = Segments(Subject.op.path, "x")

\* A row passes only on the answer to its own request, made in this row, which holds something and is
\* what the contract declares, down to what a finding names as unchecked (spec.go:5-10,
\* check.go:95-97); what a request is blamed for was sent in this row (Recorder.take); a row reported
\* as skipped or blocked sent nothing, nor did a private one without credential or a write that was
\* not allowed; and a run with a failed row is a failed run (Report.Failed).
Honest == Measured =>
    /\ Judgement.status = "pass" =>
          /\ Answered /\ Judgement.err = "nil"
          /\ entry.schema # Nothing /\ Last(wire).body \notin Blank
          /\ <<entry.schema, Last(wire).body>> \in Fitting \/ Contains(Judgement.findings, Warn)
    /\ Judgement.category \in {"route", "decode", "transport", "http", "schema"} => wire # <<>>
    /\ Judgement.status \in {"skipped", "blocked"} => wire = <<>>
    /\ wire # <<>> => /\ entry.public \/ cfg.credential
                      /\ Subject.write => cfg.writes
    /\ Judgement.status \notin {"pass", "unmeasured", "skipped"} => Failed

\* The lane blames no call that did its job: an own request answered with what the contract declares
\* is never a failure, and an empty answer of that kind is unmeasured, not failed and not passed.
NoFalseAlarm == Measured /\ Answered /\ Judgement.err = "nil" /\ <<entry.schema, Last(wire).body>> \in Fitting =>
    IF entry.schema = Nothing \/ Last(wire).body \in Blank
    THEN Judgement.status = "unmeasured" ELSE Judgement.status = "pass"
===============================================================================
