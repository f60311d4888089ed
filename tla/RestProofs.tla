------------------------------ MODULE RestProofs ------------------------------
(***************************************************************************)
(* Theorems about Rest, for any calls, operations, clocks and bounds: the   *)
(* types, the locks, the lookup and the nonces; then one call and the       *)
(* requests and answers it has under way, how often it is sent and carried  *)
(* out, and what its caller may conclude from how it ended; then what the   *)
(* server thinks of its credential: the session it presents has not lapsed, *)
(* and its nonce is not stale.                                              *)
(***************************************************************************)
EXTENDS Rest, FiniteSetTheorems, TLAPS

-----------------------------------------------------------------------------
(* The operations, and how a call ends. *)

\* Whatever changes state goes through Send, and an operation has a credential or has none.
LEMMA OperationFacts ==
    /\ \A op \in AllOps : (Mutates(op) => op.by = "Send") /\ op.on \in {"t", "pub"}
    /\ FetchStatus \in AllOps /\ DepositTarget \in AllOps /\ ~Mutates(DepositTarget)
<1> DEFINE Shape(op) == (Mutates(op) => op.by = "Send") /\ op.on \in {"t", "pub"}
<1>1. \A v, p : Shape(Read(p)) /\ Shape(PageOf(p)) /\ Shape(Write(v, p)) /\ Shape(Unsigned(v, p))
  BY DEF Mutates, Read, PageOf, Write, Unsigned
<1> HIDE DEF Shape
<1>2. \A op \in Trading : Shape(op)
  BY <1>1 DEF Trading, CreateOrder, PreviewOrder, CreateOrders, EditOrder, CancelOrder, CancelAllOrders, FetchOrder,
         FetchOpenOrders, FetchOrders, FetchMyTrades, FetchPositions, FetchPositionsHistory
<1>3. \A op \in OfAccount : Shape(op)
  BY <1>1 DEF OfAccount, FetchBalance, FetchCancelOnDisconnect, SetCancelOnDisconnect, ClaimCredit, Deposit, AddMargin,
         FetchEquityHistory, FetchTradingFees, FetchPortfolioHistory, FetchRateLimitStatus, FetchAccountState,
         FetchAccountSummary, FetchAdlHistory, FetchDeposits, CreateDeposit, FetchWithdrawals, ClaimFaucet,
         FetchBridgeAssets, FetchBridgeDeposits, FetchBridgeDeposit
<1>4. \A op \in OfMarkets : Shape(op)
  BY <1>1 DEF OfMarkets, FetchMarkets, FetchMarketsSummary, FetchMarkPrice, FetchMarketRiskParams, FetchMarketStatus,
         FetchAdlEvents, FetchStatus, FetchStats, FetchStatsHistory, FetchFundingHistory, FetchFundingRateHistory,
         FetchFundingSamples, FetchTickers, FetchTicker, FetchOrderBook, FetchTrades, FetchOHLCV
<1>5. \A op \in OfCredentials : Shape(op)
  BY <1>1 DEF OfCredentials, Login, CreateAPIKey, FetchAPIKeys, DeleteAPIKey, RegisterAgent, FetchAgents, RevokeAgent,
         DepositTarget, FetchTiers, SetTier, DeleteTier
<1>6. FetchStatus \in AllOps /\ DepositTarget \in AllOps
  BY DEF AllOps, OfMarkets, OfCredentials
<1>7. ~Mutates(DepositTarget)
  BY DEF Mutates, DepositTarget, Read
<1>8. \A op \in AllOps : Shape(op)
  BY <1>2, <1>3, <1>4, <1>5 DEF AllOps
<1> QED
  BY <1>6, <1>7, <1>8 DEF Shape

\* How an answer ends a call.
Verdicts == {"none", Transient, "final"}
Ends == Verdicts \cup {Local, "refused"}
Told == {"final", "stale"}

CallType == [pc : Pcs, op : AllOps, ctx : BOOLEAN, attempt : Nat, sent : Nat, logins : Nat, at : Nat, ts : Nat,
             nonce : Nat, lapses : Nat, end : Ends, rival : BOOLEAN, outrun : BOOLEAN, heard : SUBSET Told]
RequestType == [c : Calls, n : Nat, what : {"op", "login"}, lapses : Nat, nonce : Nat]
ReplyType == [c : Calls, end : Verdicts, tells : SUBSET Told, lapses : Nat]

RestType ==
    /\ cred \in DOMAIN Ops /\ refuse \in BOOLEAN /\ now \in Nat /\ now <= MaxNow
    /\ last \in Nat /\ issued \in Nat /\ past \in Nat /\ accepted \in Nat /\ restarts \in Nat
    /\ call \in [Calls -> CallType]
    /\ mu \in Calls \cup {None} /\ ownerMu \in Calls \cup {None} /\ owner \in BOOLEAN
    /\ session = None \/ session \in [here : Nat, there : Nat]
    /\ wire \subseteq RequestType /\ replies \subseteq ReplyType
    /\ applied \in [Calls -> Nat]

\* Where do sends a request first.
LEMMA DoPlaces ==
    ASSUME NEW op \in AllOps, cred \in DOMAIN Ops
    PROVE  /\ Signing(op) \in {"wire", "agent", "lock"} /\ Do(op) \in {"pace", "wire", "agent", "lock"}
           /\ "agent" \in {Signing(op), Do(op)} => cred = "agent"
           /\ "lock" \in {Signing(op), Do(op)} => cred \in {"session", "wallet"} /\ op.on = "t"
           /\ "wire" \in {Signing(op), Do(op)} => op.on # "t" \/ cred \in {"none", "hmac"}
<1>1. op.on \in {"t", "pub"} /\ cred \in {"none", "hmac", "session", "wallet", "agent"}
  BY OperationFacts, RestAssumption
<1> QED
  BY <1>1 DEF Signing, Do

\* What is left of a call that has returned.
LEMMA EndedIs ==
    ASSUME NEW rec \in CallType, NEW end \in Ends
    PROVE  /\ Ended(rec, end) \in CallType
           /\ Ended(rec, end).pc = "done" /\ Ended(rec, end).end = end /\ Ended(rec, end).attempt = 0
           /\ Ended(rec, end).nonce = 0
           /\ Ended(rec, end).op = rec.op /\ Ended(rec, end).rival = rec.rival
           /\ Ended(rec, end).outrun = rec.outrun /\ Ended(rec, end).heard = rec.heard
           /\ Ended(rec, end).sent = (IF Mutates(rec.op) THEN rec.sent ELSE 0)
<1>1. /\ Ended(rec, end).pc = "done" /\ Ended(rec, end).end = end /\ Ended(rec, end).attempt = 0
      /\ Ended(rec, end).nonce = 0
      /\ Ended(rec, end).op = rec.op /\ Ended(rec, end).rival = rec.rival
  BY Zenon DEF Ended, Fresh
<1>2. /\ Ended(rec, end).outrun = rec.outrun /\ Ended(rec, end).heard = rec.heard
      /\ Ended(rec, end).sent = (IF Mutates(rec.op) THEN rec.sent ELSE 0)
  BY Zenon DEF Ended, Fresh
<1>3. Ended(rec, end) \in CallType
  BY ZenonT(120) DEF CallType, Pcs, Ended, Fresh
<1> QED
  BY <1>1, <1>2, <1>3

\* Heard: the call waits to be made again, or it has returned.
HeardAs(c, end, what) ==
    /\ call' \in [Calls -> CallType]
    /\ \A d \in Calls \ {c} : call'[d] = call[d]
    /\ call'[c].op = call[c].op /\ call'[c].rival = call[c].rival /\ call'[c].heard = call[c].heard \cup what
    /\ call'[c].nonce = 0 /\ call'[c].outrun = call[c].outrun
    /\ \/ /\ Retries(c, end) /\ call'[c].pc = "backoff" /\ UNCHANGED <<ownerMu, owner>>
          /\ call'[c].attempt = call[c].attempt /\ call'[c].sent = call[c].sent /\ call'[c].logins = call[c].logins
          /\ call'[c].end = call[c].end
       \/ /\ ~Retries(c, end) /\ call'[c].pc = "done" /\ call'[c].end = end
          /\ call'[c].sent = (IF Mutates(call[c].op) THEN call[c].sent ELSE 0) /\ call'[c].attempt = 0
          /\ ownerMu' = (IF ownerMu = c THEN None ELSE ownerMu)
          /\ owner' = (owner \/ (ownerMu = c /\ end = "none"))
LEMMA HeardIsHeardAs ==
    ASSUME RestType, NEW c \in Calls, NEW end \in Ends, NEW what \in SUBSET Told, Heard(c, end, what)
    PROVE  HeardAs(c, end, what)
<1> DEFINE rec == [call[c] EXCEPT !.heard = @ \cup what]
<1>1. call[c] \in CallType /\ rec \in CallType
  BY DEF RestType, CallType
<1>2. CASE Retries(c, end)
  <2>1. call' = [call EXCEPT ![c] = [rec EXCEPT !.pc = "backoff", !.at = 0, !.nonce = 0, !.lapses = 0]]
    BY <1>2 DEF Heard
  <2>2. [rec EXCEPT !.pc = "backoff", !.at = 0, !.nonce = 0, !.lapses = 0] \in CallType
    BY <1>1 DEF CallType, Pcs
  <2> QED
    BY <1>1, <1>2, <2>1, <2>2 DEF HeardAs, Heard, RestType, CallType
<1>3. CASE ~Retries(c, end)
  <2>1. call' = [call EXCEPT ![c] = Ended(rec, end)]
    BY <1>3 DEF Heard
  <2>2. /\ Ended(rec, end) \in CallType
        /\ Ended(rec, end).pc = "done" /\ Ended(rec, end).end = end /\ Ended(rec, end).attempt = 0
        /\ Ended(rec, end).nonce = 0 /\ Ended(rec, end).outrun = call[c].outrun
        /\ Ended(rec, end).op = call[c].op /\ Ended(rec, end).rival = call[c].rival
        /\ Ended(rec, end).heard = call[c].heard \cup what
        /\ Ended(rec, end).sent = (IF Mutates(call[c].op) THEN call[c].sent ELSE 0)
    BY <1>1, EndedIs DEF CallType
  <2> QED
    BY <1>1, <1>3, <2>1, <2>2 DEF HeardAs, Heard, RestType
<1> QED
  BY <1>2, <1>3

-----------------------------------------------------------------------------
(* Types, and who holds the locks. *)

\* What holds of a call at each of its places.
CallInv(c) ==
    /\ call[c].attempt <= MaxRetries
    /\ call[c].pc = "backoff" => call[c].attempt < MaxRetries /\ call[c].op.by # "Send"
    /\ call[c].pc = "owner" => call[c].op = DepositTarget
    /\ call[c].pc \in {"lock", "signIn", "login"} => cred \in {"session", "wallet"} /\ call[c].op.on = "t"
    /\ call[c].pc \in {"agent", "nonce"} => cred = "agent"

LockInv ==
    /\ \A c \in Calls : mu = c <=> call[c].pc \in {"signIn", "login"}
    /\ \A c \in Calls : ownerMu = c <=> (call[c].op = DepositTarget /\ Active(c) /\ call[c].pc # "owner")
    /\ owner => ownerMu = None

BaseInv == RestType /\ (\A c \in Calls : CallInv(c)) /\ LockInv

\* At first every call is idle.
LEMMA InitBase == Init => BaseInv
<1> SUFFICES ASSUME Init PROVE BaseInv
    OBVIOUS
<1>1. Fresh \in CallType
  BY OperationFacts DEF Fresh, CallType, Pcs, Ends, Verdicts
<1>2. RestType
  <2>1. /\ now \in Nat /\ now <= MaxNow
        /\ last \in Nat /\ issued \in Nat /\ past \in Nat /\ accepted \in Nat /\ restarts \in Nat
    BY RestAssumption DEF Init, Given
  <2>2. session = None \/ session \in [here : Nat, there : Nat]
    BY RestAssumption DEF Init, Given
  <2>3. call \in [Calls -> CallType] /\ applied \in [Calls -> Nat]
    BY <1>1 DEF Init, Given
  <2> QED
    BY <2>1, <2>2, <2>3 DEF Init, Given, RestType
<1> QED
  BY <1>2, RestAssumption DEF Init, BaseInv, CallInv, LockInv, Fresh, Active

\* Heard keeps the invariant, whoever holds the mutex of bearer, if nothing else of it changes.
LEMMA HeardKeepsBase ==
    ASSUME BaseInv, NEW c \in Calls, NEW end \in Ends, NEW what \in SUBSET Told, Heard(c, end, what),
           call[c].pc \notin {"idle", "owner", "done"},
           mu' = (IF mu = c THEN None ELSE mu), UNCHANGED <<cred, refuse, now, last, issued, past, accepted, restarts, applied>>,
           session' = session, wire' \subseteq RequestType, replies' \subseteq ReplyType
    PROVE  BaseInv'
<1>1. HeardAs(c, end, what)
  BY HeardIsHeardAs DEF BaseInv
<1>2. RestType'
  BY <1>1 DEF BaseInv, RestType, HeardAs
<1>3. \A d \in Calls : CallInv(d)'
  <2> TAKE d \in Calls
  <2> QED
    BY <1>1, RestAssumption DEF BaseInv, CallInv, HeardAs, RestType, CallType, Retries
<1>4. LockInv'
  BY <1>1, RestAssumption DEF BaseInv, LockInv, HeardAs, Active, RestType
<1> QED
  BY <1>2, <1>3, <1>4 DEF BaseInv

\* A step of call c that only moves it on keeps the invariant, if its new place fits.
MovesTo(c, rec) ==
    /\ rec \in CallType /\ call' = [call EXCEPT ![c] = rec]
    /\ rec.op = call[c].op /\ rec.attempt = call[c].attempt /\ rec.heard = call[c].heard /\ rec.end = call[c].end
LEMMA MoveKeepsBase ==
    ASSUME BaseInv, NEW c \in Calls, NEW rec, MovesTo(c, rec), Active(c),
           rec.pc \notin {"idle", "owner", "backoff", "done"}, call[c].pc # "owner",
           rec.pc \in {"lock", "signIn", "login"} => cred \in {"session", "wallet"} /\ rec.op.on = "t",
           rec.pc \in {"agent", "nonce"} => cred = "agent",
           rec.pc \in {"signIn", "login"} <=> mu' = c, \A d \in Calls \ {c} : mu' = d <=> mu = d,
           RestType', UNCHANGED <<cred, ownerMu, owner>>
    PROVE  BaseInv'
<1>1. call'[c] = rec /\ \A d \in Calls \ {c} : call'[d] = call[d]
  BY DEF MovesTo, BaseInv, RestType
<1>2. \A d \in Calls : CallInv(d)'
  BY <1>1 DEF BaseInv, CallInv, MovesTo
<1>3. LockInv'
  BY <1>1 DEF BaseInv, LockInv, MovesTo, Active
<1> QED
  BY <1>2, <1>3 DEF BaseInv

\* What the server answers has a verdict.
LEMMA AnswerTypes ==
    /\ \A reply : Verdict(reply) \in Verdicts /\ Tells(reply) \in SUBSET Told
    /\ \A c \in Calls, what \in {"op", "login"} : RestType => Request(c, what) \in RequestType
    /\ \A r, reply, lapses : RestType /\ r \in RequestType /\ lapses \in Nat /\ Deliver(r, reply, lapses)
                                 => replies' \subseteq ReplyType
<1>1. \A reply : Verdict(reply) \in Verdicts /\ Tells(reply) \in SUBSET Told
  BY DEF Verdict, Verdicts, Tells, Told
<1>2. ASSUME NEW c \in Calls, NEW what \in {"op", "login"}, RestType PROVE Request(c, what) \in RequestType
  <2>1. call[c] \in CallType
    BY <1>2 DEF RestType
  <2> QED
    BY <1>2, <2>1 DEF CallType, Request, RequestType
<1>3. ASSUME NEW r, NEW reply, NEW lapses, RestType, r \in RequestType, lapses \in Nat, Deliver(r, reply, lapses)
      PROVE replies' \subseteq ReplyType
  BY <1>1, <1>3 DEF Deliver, RestType, ReplyType, RequestType
<1> QED
  BY <1>1, <1>2, <1>3

\* A call starts, and marks the writes it overlaps.
LEMMA StartKeepsBase == ASSUME BaseInv, NEW c \in Calls, NEW op \in Ops[cred], Start(c, op) PROVE BaseInv'
<1> DEFINE rec == [Fresh EXCEPT !.op = op,
                       !.pc = IF op = DepositTarget THEN "owner" ELSE IF refuse THEN "done" ELSE Do(op),
                       !.end = IF refuse /\ op # DepositTarget THEN "refused" ELSE "none",
                       !.rival = \E e \in Calls : Writing(e)]
           other(d) == [call[d] EXCEPT !.rival = @ \/ (Writing(d) /\ Mutates(op))]
<1>1. op \in AllOps /\ RestType
  BY RestAssumption DEF BaseInv, RestType
<1>2. call' = [d \in Calls |-> IF d = c THEN rec ELSE other(d)] /\ call[c].pc = "idle"
  BY DEF Start
<1>3. /\ Do(op) \in {"pace", "wire", "agent", "lock"}
      /\ Do(op) = "agent" => cred = "agent"
      /\ Do(op) = "lock" => cred \in {"session", "wallet"} /\ op.on = "t"
  BY <1>1, DoPlaces DEF RestType
<1>4. rec \in CallType /\ rec.op = op /\ rec.attempt = 0 /\ rec.pc \in {"owner", "done", Do(op)}
      /\ (rec.pc = "owner" <=> op = DepositTarget)
  BY <1>1, <1>3 DEF CallType, Fresh, Pcs, Ends, Verdicts
<1>5. \A d \in Calls \ {c} : /\ other(d) \in CallType /\ other(d).pc = call[d].pc /\ other(d).op = call[d].op
                             /\ other(d).attempt = call[d].attempt
  <2> TAKE d \in Calls \ {c}
  <2>1. call[d] \in CallType
    BY <1>1 DEF RestType
  <2> QED
    BY <2>1 DEF CallType
<1> HIDE DEF rec, other
<1>6. call'[c] = rec /\ \A d \in Calls \ {c} : call'[d] = other(d)
  BY <1>2
<1>7. RestType'
  <2>1. call' \in [Calls -> CallType]
    BY <1>2, <1>4, <1>5
  <2> QED
    BY <1>1, <2>1 DEF Start, process, server, RestType
<1>8. \A d \in Calls : CallInv(d)'
  <2>0. UNCHANGED <<cred, mu, ownerMu, owner>>
    BY DEF Start, process
  <2>1. CallInv(c)'
    BY <1>3, <1>4, <1>6, <2>0, RestAssumption DEF CallInv
  <2>2. ASSUME NEW d \in Calls \ {c} PROVE CallInv(d)'
    BY <1>5, <1>6, <2>0 DEF BaseInv, CallInv
  <2> QED
    BY <2>1, <2>2
<1>9. LockInv'
  <2>0. UNCHANGED <<cred, mu, ownerMu, owner>>
    BY DEF Start, process
  <2>1. mu # c /\ ownerMu # c
    BY <1>2 DEF BaseInv, LockInv, Active
  <2>2. rec.pc \notin {"signIn", "login"} /\ (rec.op = DepositTarget => rec.pc = "owner")
    BY <1>3, <1>4
  <2>3. \A d \in Calls : mu' = d <=> call'[d].pc \in {"signIn", "login"}
    BY <1>5, <1>6, <2>0, <2>1, <2>2 DEF BaseInv, LockInv
  <2>4. \A d \in Calls : ownerMu' = d <=> (call'[d].op = DepositTarget /\ Active(d)' /\ call'[d].pc # "owner")
    BY <1>5, <1>6, <2>0, <2>1, <2>2 DEF BaseInv, LockInv, Active
  <2> QED
    BY <2>0, <2>3, <2>4 DEF BaseInv, LockInv
<1> QED
  BY <1>7, <1>8, <1>9 DEF BaseInv

\* Every step of a call keeps the types, the bounds and the locks.
LEMMA CallStepKeepsBase == ASSUME BaseInv, NEW c \in Calls, CallStep(c) PROVE BaseInv'
<1>0. RestType /\ call[c] \in CallType /\ LockInv /\ CallInv(c)
  BY DEF BaseInv, RestType
<1>1. CASE \E op \in Ops[cred] : Start(c, op)
  BY <1>1, StartKeepsBase
<1>2. CASE OwnerLocked(c)
  <2>1. call[c].op = DepositTarget /\ mu # c /\ Do(DepositTarget) \in {"pace", "wire", "agent", "lock"}
    BY <1>0, <1>2, DoPlaces, OperationFacts DEF OwnerLocked, CallInv, LockInv, RestType
  <2>2. RestType'
    <3>1. CASE owner \/ refuse
      <4> DEFINE rec == [call[c] EXCEPT !.pc = "done", !.end = IF owner THEN "none" ELSE "refused"]
      <4>1. rec \in CallType
        BY <1>0 DEF CallType, Pcs, Ends, Verdicts
      <4>2. call' = [call EXCEPT ![c] = rec]
        BY <1>0, <1>2, <3>1 DEF OwnerLocked, RestType, CallType
      <4> QED
        BY <1>0, <1>2, <3>1, <4>1, <4>2 DEF OwnerLocked, RestType, server
    <3>2. CASE ~(owner \/ refuse)
      <4>1. [call[c] EXCEPT !.pc = Do(DepositTarget)] \in CallType
        BY <1>0, <2>1 DEF CallType, Pcs
      <4> QED
        BY <1>0, <1>2, <3>2, <4>1 DEF OwnerLocked, RestType, CallType, server
    <3> QED
      BY <3>1, <3>2
  <2>3. \A d \in Calls : CallInv(d)'
    BY <1>0, <1>2, <2>1, DoPlaces, OperationFacts, SMTT(30) DEF OwnerLocked, BaseInv, RestType, CallType, CallInv
  <2>4. LockInv'
    BY <1>0, <1>2, <2>1, RestAssumption DEF OwnerLocked, RestType, CallType, LockInv, Active
  <2> QED
    BY <2>2, <2>3, <2>4 DEF BaseInv
<1>3. CASE Paced(c)
  <2> DEFINE rec == [call[c] EXCEPT !.pc = Signing(call[c].op)]
  <2>1. rec \in CallType /\ Signing(call[c].op) \in {"wire", "agent", "lock"}
    BY <1>0, DoPlaces DEF CallType, Pcs, RestType
  <2>2. MovesTo(c, rec)
    BY <1>0, <1>3, <2>1 DEF Paced, MovesTo, RestType, CallType
  <2>3. RestType'
    BY <1>0, <1>3, <2>1, <2>2 DEF Paced, MovesTo, RestType, process, server
  <2> QED
    BY <1>0, <1>3, <2>1, <2>2, <2>3, MoveKeepsBase, DoPlaces DEF Paced, process, Active, LockInv, CallType, RestType
<1>4. CASE PaceAborted(c)
  BY <1>0, <1>4, HeardKeepsBase DEF PaceAborted, Attempted, Ends, LockInv, RestType, server
<1>5. CASE AgentSigns(c)
  <2>1. CASE MovesFunds(call[c].op.verb, call[c].op.path)
    BY <1>0, <1>5, <2>1, HeardKeepsBase DEF AgentSigns, Attempted, Ends, LockInv, RestType, server
  <2>2. CASE ~MovesFunds(call[c].op.verb, call[c].op.path)
    <3> DEFINE rec == [call[c] EXCEPT !.pc = "nonce", !.ts = now]
    <3>1. rec \in CallType
      BY <1>0 DEF CallType, Pcs, RestType
    <3>2. MovesTo(c, rec)
      BY <1>0, <1>5, <2>2, <3>1 DEF AgentSigns, MovesTo, RestType, CallType
    <3>3. RestType'
      BY <1>0, <1>5, <2>2, <3>1, <3>2 DEF AgentSigns, MovesTo, RestType, process, server
    <3> QED
      BY <1>0, <1>5, <2>2, <3>1, <3>2, <3>3, MoveKeepsBase DEF AgentSigns, CallInv, Active, LockInv, CallType
  <2> QED
    BY <2>1, <2>2
<1>6. CASE AgentIssues(c)
  <2> DEFINE rec == [call[c] EXCEPT !.pc = "wire", !.nonce = last', !.ts = 0, !.outrun = @ \/ Outrun(call[c].ts)]
  <2>0. last' \in Nat /\ past' = past /\ issued' \in Nat
    BY <1>0, <1>6 DEF AgentIssues, NextNonce, CallType, RestType
  <2>1. rec \in CallType
    <3>1. (call[c].outrun \/ Outrun(call[c].ts)) \in BOOLEAN
      OBVIOUS
    <3> QED
      BY <1>0, <2>0, <3>1 DEF CallType, Pcs
  <2>2. MovesTo(c, rec)
    BY <1>0, <1>6, <2>1 DEF AgentIssues, MovesTo, RestType, CallType
  <2>3. RestType'
    BY <1>0, <1>6, <2>0, <2>1, <2>2 DEF AgentIssues, MovesTo, RestType, server
  <2> QED
    BY <1>0, <1>6, <2>1, <2>2, <2>3, MoveKeepsBase DEF AgentIssues, Active, LockInv, CallType
<1>7. CASE Locked(c)
  <2>1. CASE Usable
    <3> DEFINE rec == [call[c] EXCEPT !.pc = "wire", !.lapses = session.there]
    <3>1. rec \in CallType
      BY <1>0, <2>1 DEF CallType, Pcs, RestType, Usable
    <3>2. MovesTo(c, rec)
      BY <1>0, <1>7, <2>1, <3>1 DEF Locked, MovesTo, RestType, CallType
    <3>3. RestType'
      BY <1>0, <1>7, <2>1, <3>1, <3>2 DEF Locked, MovesTo, RestType, server
    <3> QED
      BY <1>0, <1>7, <2>1, <3>1, <3>2, <3>3, MoveKeepsBase DEF Locked, CallInv, Active, LockInv, CallType
  <2>2. CASE ~Usable /\ cred = "session"
    BY <1>0, <1>7, <2>2, HeardKeepsBase DEF Locked, Attempted, Ends, LockInv, RestType, server
  <2>3. CASE ~Usable /\ cred # "session"
    <3> DEFINE rec == [call[c] EXCEPT !.pc = "signIn", !.ts = now]
    <3>1. rec \in CallType
      BY <1>0 DEF CallType, Pcs, RestType
    <3>2. MovesTo(c, rec)
      BY <1>0, <1>7, <2>3, <3>1 DEF Locked, MovesTo, RestType, CallType
    <3>3. RestType'
      BY <1>0, <1>7, <2>3, <3>1, <3>2 DEF Locked, MovesTo, RestType, server
    <3>4. /\ mu' = c /\ rec.pc = "signIn" /\ rec.op = call[c].op /\ call[c].pc = "lock"
          /\ \A d \in Calls \ {c} : mu' = d <=> mu = d
      BY <1>0, <1>7, <2>3, RestAssumption DEF Locked, CallType
    <3>5. UNCHANGED <<cred, ownerMu, owner>>
      BY <1>7, <2>3 DEF Locked
    <3> HIDE DEF rec
    <3> QED
      BY <1>0, <3>2, <3>3, <3>4, <3>5, MoveKeepsBase DEF CallInv, Active
  <2> QED
    BY <2>1, <2>2, <2>3
<1>8. CASE LoginSent(c)
  <2> DEFINE rec == [call[c] EXCEPT !.pc = "login", !.logins = @ + 1, !.at = now]
  <2>0. call[c].logins + 1 \in Nat /\ now \in Nat
    BY <1>0 DEF CallType, RestType
  <2>1. rec \in CallType
    BY <1>0, <2>0 DEF CallType, Pcs
  <2>2. MovesTo(c, rec)
    BY <1>0, <1>8, <2>1 DEF LoginSent, MovesTo, RestType, CallType
  <2>3. wire' \subseteq RequestType
    BY <1>0, <1>8, AnswerTypes DEF LoginSent, RestType
  <2>4. RestType'
    BY <1>0, <1>8, <2>1, <2>2, <2>3 DEF LoginSent, MovesTo, RestType, process, server
  <2> QED
    BY <1>0, <1>8, <2>1, <2>2, <2>4, MoveKeepsBase DEF LoginSent, CallInv, Active, LockInv, CallType, process
<1>9. CASE LoginLost(c)
  <2>1. mu = c /\ wire' \subseteq RequestType /\ replies' \subseteq ReplyType
    BY <1>0, <1>9 DEF LoginLost, LockInv, RestType, Abandoned
  <2> QED
    BY <1>9, <2>1, HeardKeepsBase DEF LoginLost, Attempted, Ends, server
<1>10. ASSUME NEW r \in replies, LoginAnswered(c, r) PROVE BaseInv'
  <2>1. mu = c /\ replies' \subseteq ReplyType /\ r \in ReplyType
    BY <1>0, <1>10 DEF LoginAnswered, LockInv, RestType
  <2>2. CASE r.end = "none"
    <3> DEFINE rec == [call[c] EXCEPT !.pc = "wire", !.lapses = r.lapses, !.ts = 0]
    <3>1. rec \in CallType
      BY <1>0, <2>1 DEF CallType, Pcs, ReplyType
    <3>2. MovesTo(c, rec)
      BY <1>0, <1>10, <2>2, <3>1 DEF LoginAnswered, MovesTo, RestType, CallType
    <3>3. Expiry(c) \in Nat /\ r.lapses \in Nat
      BY <1>0, <2>1, RestAssumption DEF Expiry, CallType, ReplyType
    <3>4. RestType'
      BY <1>0, <1>10, <2>1, <2>2, <3>1, <3>2, <3>3 DEF LoginAnswered, MovesTo, RestType, server
    <3>5. /\ mu' = None /\ rec.pc = "wire" /\ call[c].pc = "login" /\ mu' # c
          /\ \A d \in Calls \ {c} : mu' = d <=> mu = d
      BY <1>0, <1>10, <2>1, <2>2, RestAssumption DEF LoginAnswered, CallType
    <3>6. UNCHANGED <<cred, ownerMu, owner>>
      BY <1>10, <2>2 DEF LoginAnswered
    <3> HIDE DEF rec
    <3> QED
      BY <1>0, <3>2, <3>4, <3>5, <3>6, MoveKeepsBase DEF Active
  <2>3. CASE r.end # "none"
    BY <1>0, <1>10, <2>1, <2>3, HeardKeepsBase DEF LoginAnswered, Attempted, Ends, server, RestType
  <2> QED
    BY <2>2, <2>3
<1>11. CASE Sent(c)
  <2>1. CASE call[c].ctx
    BY <1>0, <1>11, <2>1, HeardKeepsBase DEF Sent, Attempted, Ends, Verdicts, LockInv, RestType, server
  <2>2. CASE ~call[c].ctx
    <3> DEFINE rec == [call[c] EXCEPT !.pc = "wait", !.sent = @ + 1, !.at = now]
    <3>0. call[c].sent + 1 \in Nat /\ now \in Nat
      BY <1>0 DEF CallType, RestType
    <3>1. rec \in CallType
      BY <1>0, <3>0 DEF CallType, Pcs
    <3>2. MovesTo(c, rec)
      BY <1>0, <1>11, <2>2, <3>1 DEF Sent, MovesTo, RestType, CallType
    <3>3. wire' \subseteq RequestType
      BY <1>0, <1>11, <2>2, AnswerTypes DEF Sent, RestType
    <3>4. RestType'
      BY <1>0, <1>11, <2>2, <3>1, <3>2, <3>3 DEF Sent, MovesTo, RestType, server
    <3> QED
      BY <1>0, <1>11, <2>2, <3>1, <3>2, <3>4, MoveKeepsBase DEF Sent, CallInv, Active, LockInv, CallType
  <2> QED
    BY <2>1, <2>2
<1>12. CASE Lost(c)
  BY <1>0, <1>12, HeardKeepsBase DEF Lost, Attempted, Ends, Verdicts, LockInv, RestType, Abandoned, server
<1>13. ASSUME NEW r \in replies, Answered(c, r) PROVE BaseInv'
  <2>1. r \in ReplyType /\ r.end \in Ends /\ r.tells \in SUBSET Told
    BY <1>0 DEF RestType, ReplyType, Ends
  <2> QED
    BY <1>0, <1>13, <2>1, HeardKeepsBase DEF Answered, LockInv, RestType, server
<1>14. CASE BackedOff(c)
  <2>1. CASE call[c].ctx
    BY <1>0, <1>14, <2>1, HeardKeepsBase DEF BackedOff, Attempted, Ends, LockInv, RestType, server
  <2>2. CASE ~call[c].ctx
    <3> DEFINE rec == [call[c] EXCEPT !.pc = Do(call[c].op), !.attempt = @ + 1]
    <3>1. /\ Do(call[c].op) \in {"pace", "wire", "agent", "lock"}
          /\ Do(call[c].op) = "agent" => cred = "agent"
          /\ Do(call[c].op) = "lock" => cred \in {"session", "wallet"} /\ call[c].op.on = "t"
      BY <1>0, DoPlaces DEF RestType, CallType
    <3>2. rec \in CallType /\ rec.attempt = call[c].attempt + 1 /\ rec.pc = Do(call[c].op) /\ rec.op = call[c].op
      <4>1. call[c].attempt + 1 \in Nat
        BY <1>0 DEF CallType
      <4> QED
        BY <1>0, <3>1, <4>1 DEF CallType, Pcs
    <3>3. call' = [call EXCEPT ![c] = rec] /\ call[c].pc = "backoff"
      BY <1>0, <1>14, <2>2 DEF BackedOff, RestType, CallType
    <3>4. RestType'
      BY <1>0, <1>14, <2>2, <3>2, <3>3 DEF BackedOff, RestType, server
    <3> HIDE DEF rec
    <3>5. call'[c] = rec /\ \A d \in Calls \ {c} : call'[d] = call[d]
      BY <1>0, <3>3 DEF RestType
    <3>6. UNCHANGED <<cred, mu, ownerMu, owner>>
      BY <1>14, <2>2 DEF BackedOff
    <3>7. \A d \in Calls : CallInv(d)'
      BY <1>0, <3>1, <3>2, <3>3, <3>5, <3>6, RestAssumption DEF BaseInv, CallInv, CallType
    <3>8. LockInv'
      BY <1>0, <3>1, <3>2, <3>3, <3>5, <3>6 DEF LockInv, Active
    <3> QED
      BY <3>4, <3>7, <3>8 DEF BaseInv
  <2> QED
    BY <2>1, <2>2
<1>15. CASE CtxEnds(c)
  <2> DEFINE rec == [call[c] EXCEPT !.ctx = TRUE]
  <2>1. rec \in CallType /\ rec.pc = call[c].pc /\ rec.op = call[c].op /\ rec.attempt = call[c].attempt
    BY <1>0 DEF CallType
  <2>2. call' = [call EXCEPT ![c] = rec] /\ UNCHANGED <<cred, mu, ownerMu, owner>>
    BY <1>0, <1>15 DEF CtxEnds, process, RestType
  <2>3. RestType'
    BY <1>0, <1>15, <2>1, <2>2 DEF CtxEnds, RestType, process, server
  <2> HIDE DEF rec
  <2>4. \A d \in Calls : call'[d].pc = call[d].pc /\ call'[d].op = call[d].op /\ call'[d].attempt = call[d].attempt
    BY <1>0, <2>1, <2>2 DEF RestType
  <2>5. \A d \in Calls : CallInv(d)'
    BY <2>2, <2>4 DEF BaseInv, CallInv
  <2>6. LockInv'
    BY <1>0, <2>2, <2>4 DEF LockInv, Active
  <2> QED
    BY <2>3, <2>5, <2>6 DEF BaseInv
<1> QED
  BY <1>1, <1>2, <1>3, <1>4, <1>5, <1>6, <1>7, <1>8, <1>9, <1>10, <1>11, <1>12, <1>13, <1>14, <1>15 DEF CallStep

\* What an answer tells for good is the end of the call, and only a 2xx is no error.
Answers == {Served, Blank} \cup Undecodable \cup Outages \cup Budgets \cup Caps \cup Refusals
               \cup {Unauthorized(why) : why \in {"refused", "lapsed", "stale"}}
LEMMA AnswersMean ==
    /\ \A reply \in Answers : "final" \in Tells(reply) => Verdict(reply) = "final"
    /\ \A reply : Verdict(reply) = "none" => reply.status = 200
<1>1. \A reply : Verdict(reply) = "none" => reply.status = 200
  BY DEF Verdict, Outcome, NoError, Transient
<1>2. \A reply \in {Served, Blank} \cup Outages \cup Budgets : "final" \notin Tells(reply)
  BY DEF Served, Blank, Outages, Budgets, Tells, Reply
<1>3. \A err : err.kind \in {"api", "version"} /\ err.status \in {401, 426, 501} => ~retryable(err)
  <2> TAKE err
  <2> HAVE err.kind \in {"api", "version"} /\ err.status \in {401, 426, 501}
  <2>1. err.status # 429 /\ ~(err.status >= 500 /\ err.status \notin {501, 505})
    OBVIOUS
  <2> QED
    BY <2>1, ZenonT(60) DEF retryable
<1>4. \A err : err.kind = "api" /\ err.code = Cap /\ err.status = 429 => ~retryable(err)
  <2> TAKE err
  <2> HAVE err.kind = "api" /\ err.code = Cap /\ err.status = 429
  <2>1. Cap \notin {"", RateLimited}
    BY DEF Cap, RateLimited
  <2> QED
    BY <2>1, Zenon DEF retryable
<1> DEFINE ErrOf(s, body) == [kind |-> IF s = 426 THEN "version" ELSE "api", status |-> s, code |-> decodeError(body)]
<1>5. \A s, body, m : s # 200 /\ ~retryable(ErrOf(s, body)) => Verdict(Reply(s, body, m)) = "final"
  <2> TAKE s, body, m
  <2> HAVE s # 200 /\ ~retryable(ErrOf(s, body))
  <2>1. Outcome(Reply(s, body, m)) = ErrOf(s, body)
    BY DEF Outcome, Reply
  <2>2. ErrOf(s, body) # NoError
    <3>1. ErrOf(s, body).kind # "none" /\ NoError.kind = "none"
      BY DEF NoError
    <3> QED
      BY <3>1
  <2> HIDE DEF ErrOf
  <2> QED
    BY <2>1, <2>2 DEF Verdict
<1>6. \A s \in {401, 426, 501} : \A body, m : Verdict(Reply(s, body, m)) = "final"
  <2> TAKE s \in {401, 426, 501}
  <2> TAKE body, m
  <2>1. ErrOf(s, body).kind \in {"api", "version"} /\ ErrOf(s, body).status \in {401, 426, 501}
    OBVIOUS
  <2>2. s # 200
    OBVIOUS
  <2> HIDE DEF ErrOf
  <2>3. ~retryable(ErrOf(s, body))
    BY <2>1, <1>3
  <2> QED
    BY <1>5, <2>2, <2>3
<1>7. \A reply \in Refusals \cup {Unauthorized(why) : why \in {"refused", "lapsed", "stale"}} : Verdict(reply) = "final"
  <2>1. \A reply \in Refusals : Verdict(reply) = "final"
    BY <1>6 DEF Refusals
  <2>2. \A why : Verdict(Unauthorized(why)) = "final"
    BY <1>6 DEF Unauthorized
  <2> QED
    BY <2>1, <2>2
<1>8. ASSUME NEW body, decodeError(body) = Cap PROVE Verdict(Reply(429, body, "cap")) = "final"
  <2>1. ErrOf(429, body).kind = "api" /\ ErrOf(429, body).code = Cap /\ ErrOf(429, body).status = 429
    BY <1>8
  <2>2. 429 # 200
    OBVIOUS
  <2> HIDE DEF ErrOf
  <2>3. ~retryable(ErrOf(429, body))
    BY <2>1, <1>4
  <2> QED
    BY <1>5, <2>2, <2>3
<1>9. \A reply \in Caps : Verdict(reply) = "final"
  <2>1. decodeError(Standard(Cap)) = Cap /\ decodeError(Both(Cap)) = Cap
    BY DEF Standard, Both, Envelope, decodeError, Cap
  <2>2. decodeError(Legacy(Cap)) = Cap /\ decodeError(Bridge(Cap)) = Cap
    BY DEF Legacy, Bridge, Envelope, decodeError, Cap
  <2> QED
    BY <1>8, <2>1, <2>2 DEF Caps
<1>10. Verdict(Reply(200, Text, "malformed")) = "final" /\ Tells(Reply(200, Text, "cut")) = {}
  <2>1. Outcome(Reply(200, Text, "malformed")) = ErrorOf("decode")
    BY DEF Outcome, Reply
  <2>2. ErrorOf("decode").kind = "decode" /\ NoError.kind = "none"
    BY DEF ErrorOf, NoError
  <2>3. ~retryable(ErrorOf("decode"))
    BY <2>2 DEF retryable
  <2>4. Verdict(Reply(200, Text, "malformed")) = "final"
    BY <2>1, <2>2, <2>3 DEF Verdict
  <2> QED
    BY <2>4 DEF Tells, Reply
<1>11. \A reply \in Undecodable : "final" \in Tells(reply) => Verdict(reply) = "final"
  BY <1>10 DEF Undecodable
<1> QED
  BY <1>1, <1>2, <1>7, <1>9, <1>11 DEF Answers

\* The server serves an operation: it refuses it, or carries it out and counts the change, or not.
LEMMA ServeCases ==
    ASSUME RestType, NEW r \in wire, Serve(r)
    PROVE  /\ r \in RequestType /\ r.what = "op" /\ wire' = wire \ {r} /\ UNCHANGED call
           /\ \/ /\ Rejects(r) # "no" /\ Deliver(r, Unauthorized(Rejects(r)), 0) /\ UNCHANGED <<accepted, applied>>
              \/ /\ Rejects(r) = "no"
                 /\ accepted' = IF NonceChecked(call[r.c].op) THEN r.nonce ELSE accepted
                 /\ \E reply \in Answers : /\ Deliver(r, reply, 0) /\ reply.means # "stale"
                               /\ \/ applied' = [applied EXCEPT ![r.c] = @ + 1] /\ Mutates(call[r.c].op)
                                  \/ applied' = applied /\ (reply.status = 200 => ~Mutates(call[r.c].op))
<1>1. r \in RequestType /\ r.what = "op" /\ wire' = wire \ {r} /\ UNCHANGED call
  BY DEF RestType, Serve
<1>2. CASE Rejects(r) # "no"
  BY <1>1, <1>2 DEF Serve, server
<1>3. CASE Rejects(r) = "no"
  <2>1. PICK reply \in {Served} \cup Undecodable \cup Outages \cup Budgets \cup Caps \cup Refusals
                          \cup (IF call[r.c].op = DepositTarget THEN {Blank} ELSE {}) :
           /\ Deliver(r, reply, 0)
           /\ \E acts \in IF reply.status = 200 THEN {TRUE} ELSE IF reply.status = 503 THEN BOOLEAN ELSE {FALSE} :
                 applied' = IF acts /\ Mutates(call[r.c].op) THEN [applied EXCEPT ![r.c] = @ + 1] ELSE applied
    BY <1>3 DEF Serve
  <2>3. \/ applied' = [applied EXCEPT ![r.c] = @ + 1] /\ Mutates(call[r.c].op)
        \/ applied' = applied /\ (reply.status = 200 => ~Mutates(call[r.c].op))
    BY <2>1
  <2>2. reply.means # "stale"
    BY DEF Served, Undecodable, Outages, Budgets, Caps, Refusals, Blank, Reply
  <2>4. reply \in Answers
    BY DEF Answers
  <2> QED
    BY <1>1, <1>3, <2>1, <2>2, <2>3, <2>4 DEF Serve
<1> QED
  BY <1>1, <1>2, <1>3

\* The server, the network and the clock change no call; a restart ends those under way.
LEMMA WorldStepKeepsBase ==
    ASSUME BaseInv, (\E r \in wire : ServeLogin(r) \/ Serve(r)) \/ Restart \/ Tick
    PROVE  BaseInv'
<1>0. RestType
  BY DEF BaseInv
<1>1. ASSUME NEW r \in wire, ServeLogin(r) PROVE BaseInv'
  <2>1. replies' \subseteq ReplyType /\ wire' \subseteq wire
    BY <1>0, <1>1, AnswerTypes, RestAssumption DEF ServeLogin, RestType
  <2>2. RestType' /\ UNCHANGED <<cred, call, mu, ownerMu, owner>>
    BY <1>0, <1>1, <2>1 DEF ServeLogin, RestType, process, server
  <2> QED
    BY <2>2 DEF BaseInv, CallInv, LockInv, Active
<1>2. ASSUME NEW r \in wire, Serve(r) PROVE BaseInv'
  <2>1. replies' \subseteq ReplyType /\ wire' \subseteq wire /\ accepted' \in Nat
    BY <1>0, <1>2, ServeCases, AnswerTypes DEF RestType, RequestType
  <2>2. applied' \in [Calls -> Nat]
    BY <1>0, <1>2, ServeCases DEF RestType, RequestType
  <2>3. RestType' /\ UNCHANGED <<cred, call, mu, ownerMu, owner>>
    BY <1>0, <1>2, <2>1, <2>2 DEF Serve, RestType, process
  <2> QED
    BY <2>3 DEF BaseInv, CallInv, LockInv, Active
<1>3. CASE Restart
  <2>1. \A c \in Calls : Ended(call[c], Transient) \in CallType /\ Ended(call[c], Transient).pc = "done"
                         /\ Ended(call[c], Transient).attempt = 0
    <3> TAKE c \in Calls
    <3>1. call[c] \in CallType
      BY <1>0 DEF RestType
    <3> QED
      BY <3>1, EndedIs DEF Ends, Verdicts
  <2>2. call' = [c \in Calls |-> IF Active(c) THEN Ended(call[c], Transient) ELSE call[c]]
    BY <1>3 DEF Restart
  <2> HIDE DEF Ended
  <2>3. now' \in Nat /\ now' <= MaxNow
    BY <1>0, <1>3, RestAssumption DEF Restart, RestType
  <2>4. RestType'
    <3>1. call' \in [Calls -> CallType]
      BY <1>0, <2>1, <2>2 DEF RestType
    <3>2. /\ restarts' = restarts + 1 /\ mu' = None /\ ownerMu' = None /\ owner' = FALSE /\ session' = None
          /\ last' = 0 /\ past' = issued /\ replies' = {} /\ UNCHANGED <<cred, refuse, issued, wire, accepted, applied>>
      BY <1>3 DEF Restart, server
    <3>3. restarts' \in Nat /\ last' \in Nat /\ issued' \in Nat /\ past' \in Nat /\ accepted' \in Nat
      BY <1>0, <3>2 DEF RestType
    <3>4. owner' \in BOOLEAN /\ refuse' \in BOOLEAN /\ cred' \in DOMAIN Ops
      BY <1>0, <3>2 DEF RestType
    <3>5. wire' \subseteq RequestType /\ replies' \subseteq ReplyType /\ applied' \in [Calls -> Nat]
      BY <1>0, <3>2 DEF RestType
    <3> QED
      BY <2>3, <3>1, <3>2, <3>3, <3>4, <3>5 DEF RestType
  <2>5. \A c \in Calls : CallInv(c)' /\ call'[c].pc \in {"idle", "done"}
    BY <1>3, <2>1, <2>2, RestAssumption DEF BaseInv, CallInv, Restart, Active
  <2>6. LockInv'
    BY <1>3, <2>5, RestAssumption DEF Restart, LockInv, Active
  <2> QED
    BY <2>4, <2>5, <2>6 DEF BaseInv
<1>4. CASE Tick
  <2>1. RestType' /\ UNCHANGED <<cred, call, mu, ownerMu, owner>>
    BY <1>0, <1>4, RestAssumption DEF Tick, RestType, process, server
  <2> QED
    BY <2>1 DEF BaseInv, CallInv, LockInv, Active
<1> QED
  BY <1>1, <1>2, <1>3, <1>4

LEMMA StepBase == BaseInv /\ [Next]_vars => BaseInv'
<1> SUFFICES ASSUME BaseInv, [Next]_vars PROVE BaseInv'
    OBVIOUS
<1>1. CASE Next
  BY <1>1, CallStepKeepsBase, WorldStepKeepsBase DEF Next
<1>2. CASE UNCHANGED vars
  BY <1>2 DEF vars, process, server, BaseInv, RestType, CallInv, LockInv, Active
<1> QED
  BY <1>1, <1>2

LEMMA BaseAlways == Spec => []BaseInv
BY InitBase, StepBase, PTL DEF Spec

\* The clock, the counters and the places of the calls stay in range, and each of the two locks is
\* held exactly by the call that is inside it, however a sign-in or a lookup ends.
THEOREM RestTypeCorrect == Spec => []TypeOK
<1>1. BaseInv => TypeOK
  BY RestAssumption DEF BaseInv, RestType, CallInv, LockInv, TypeOK, CallType
<1> QED
  BY <1>1, BaseAlways, PTL

-----------------------------------------------------------------------------
(* The steps in two groups: those that end an attempt, and those that take  *)
(* the call on.                                                             *)

Clears(c) == replies' = {r \in replies : r.c # c} /\ wire' = Abandoned(c)

\* An attempt ends before anything was sent, or while nothing is awaited; without an answer; or with one.
Fails(c) == \E end \in {Local, Transient} : HeardAs(c, end, {}) /\ (end = Transient => call[c].pc = "wire")
EndsEarly(c) == /\ call[c].pc \notin {"idle", "owner", "done", "wait"}
                /\ Fails(c)
                /\ \/ call[c].pc # "login" /\ UNCHANGED <<wire, replies>>
                   \/ call[c].pc \in {"signIn", "login"} /\ Clears(c)
                   \/ \E r \in replies : call[c].pc = "login" /\ r.c = c /\ replies' = replies \ {r} /\ wire' = wire
EndsUnheard(c) == call[c].pc = "wait" /\ HeardAs(c, Transient, {}) /\ Clears(c)
EndsHeard(c) == \E r \in replies :
    call[c].pc = "wait" /\ r.c = c /\ replies' = replies \ {r} /\ HeardAs(c, r.end, r.tells) /\ wire' = wire
EndsAttempt(c) ==
    /\ EndsEarly(c) \/ EndsUnheard(c) \/ EndsHeard(c)
    /\ UNCHANGED <<cred, refuse, now, session, last, issued, past, accepted, applied, restarts>>

\* The others, with the conditions under which they do not end the attempt.
LoginAccepted(c) == \E r \in replies : LoginAnswered(c, r) /\ r.end = "none"
GoesOn(c) ==
    \/ OwnerLocked(c) \/ Paced(c) \/ AgentIssues(c) \/ LoginSent(c) \/ CtxEnds(c) \/ LoginAccepted(c)
    \/ AgentSigns(c) /\ call' = [call EXCEPT ![c].pc = "nonce", ![c].ts = now]
    \/ Locked(c) /\ Usable /\ call' = [call EXCEPT ![c].pc = "wire", ![c].lapses = session.there]
    \/ Locked(c) /\ ~Usable /\ call' = [call EXCEPT ![c].pc = "signIn", ![c].ts = now]
    \/ Sent(c) /\ ~call[c].ctx
    \/ BackedOff(c) /\ ~call[c].ctx

LEMMA StepForms ==
    ASSUME BaseInv, NEW c \in Calls, CallStep(c)
    PROVE  (\E op \in Ops[cred] : Start(c, op)) \/ EndsAttempt(c) \/ GoesOn(c)
<1>0. RestType /\ Local \in Ends /\ Transient \in Ends /\ {} \in SUBSET Told
  BY DEF BaseInv, Ends, Verdicts
<1>1. ASSUME Attempted(c, Local) PROVE Fails(c)
  BY <1>0, <1>1, HeardIsHeardAs DEF Attempted, Fails, Local, Transient
<1>2. ASSUME Attempted(c, Transient) PROVE HeardAs(c, Transient, {})
  BY <1>0, <1>2, HeardIsHeardAs DEF Attempted
<1>3. CASE PaceAborted(c)
  BY <1>1, <1>3 DEF PaceAborted, EndsAttempt, EndsEarly, server
<1>4. CASE AgentSigns(c)
  BY <1>1, <1>4 DEF AgentSigns, EndsAttempt, EndsEarly, GoesOn, server
<1>5. CASE Locked(c)
  BY <1>1, <1>5 DEF Locked, EndsAttempt, EndsEarly, GoesOn, server
<1>6. CASE LoginLost(c)
  BY <1>1, <1>6 DEF LoginLost, EndsAttempt, EndsEarly, Clears, server
<1>7. ASSUME NEW r \in replies, LoginAnswered(c, r) PROVE EndsAttempt(c) \/ GoesOn(c)
  <2>1. CASE r.end = "none"
    BY <1>7, <2>1 DEF GoesOn, LoginAccepted
  <2>2. CASE r.end # "none"
    BY <1>1, <1>7, <2>2 DEF LoginAnswered, EndsAttempt, EndsEarly, server
  <2> QED
    BY <2>1, <2>2
<1>8. CASE Sent(c)
  BY <1>2, <1>8 DEF Sent, EndsAttempt, EndsEarly, Fails, GoesOn, server
<1>9. CASE Lost(c)
  BY <1>2, <1>9 DEF Lost, EndsAttempt, EndsUnheard, Clears, server
<1>10. ASSUME NEW r \in replies, Answered(c, r) PROVE EndsAttempt(c)
  <2>1. r.end \in Ends /\ r.tells \in SUBSET Told
    BY <1>0 DEF RestType, ReplyType, Ends
  <2>2. HeardAs(c, r.end, r.tells)
    BY <1>0, <1>10, <2>1, HeardIsHeardAs DEF Answered
  <2> QED
    BY <1>10, <2>2 DEF Answered, EndsAttempt, EndsHeard, server
<1>11. CASE BackedOff(c)
  BY <1>1, <1>11 DEF BackedOff, EndsAttempt, EndsEarly, GoesOn, server
<1> QED
  BY <1>3, <1>4, <1>5, <1>6, <1>7, <1>8, <1>9, <1>10, <1>11 DEF CallStep, GoesOn

-----------------------------------------------------------------------------
(* One owner lookup at a time. *)

\* Whoever is inside the lookup holds its mutex, and the memo is never set while one is.
THEOREM LookupsAreShared == Spec => []OneLookup
<1>1. ASSUME BaseInv PROVE OneLookup
  <2> DEFINE S == {c \in Calls : call[c].op = DepositTarget /\ call[c].pc \in {"pace", "wire", "wait", "backoff"}}
  <2>1. \A c \in S : ownerMu = c
    BY <1>1 DEF BaseInv, LockInv, Active
  <2>2. S \subseteq {ownerMu} /\ (owner => S = {})
    BY <1>1, <2>1, RestAssumption DEF BaseInv, LockInv
  <2>3. IsFiniteSet({ownerMu}) /\ Cardinality({ownerMu}) = 1 /\ Cardinality({}) = 0
    BY FS_Singleton, FS_EmptySet
  <2>4. Cardinality(S) \in Nat /\ Cardinality(S) <= 1
    BY <2>2, <2>3, FS_Subset, FS_CardinalityType
  <2>5. owner => Cardinality(S) = 0
    BY <2>2, <2>3
  <2> QED
    BY <2>4, <2>5 DEF OneLookup
<1> QED
  BY <1>1, BaseAlways, PTL

-----------------------------------------------------------------------------
(* Nonces.  The highest nonce ever issued is the one the counter is at, or  *)
(* one of a process that is gone, and then the counter has yet to reach it. *)

NonceInv ==
    /\ issued >= last /\ issued >= past
    /\ issued \in {last, past}

NonceGrows(c) == call[c].pc = "nonce" /\ call'[c].pc = "wire" => call'[c].nonce > issued \/ Outrun(call[c].ts)

\* No step but AgentIssues and a restart touches the counter.
NonceQuiet ==
    /\ UNCHANGED <<last, issued, past>>
    /\ \A c \in Calls : ~(call[c].pc = "nonce" /\ call'[c].pc = "wire")
LEMMA QuietKeepsNonces == ASSUME BaseInv, NonceInv, NonceQuiet PROVE NonceInv' /\ \A c \in Calls : NonceGrows(c)
BY DEF BaseInv, RestType, NonceInv, NonceQuiet, NonceGrows

LEMMA AgentIssuesMore ==
    ASSUME BaseInv, NonceInv, NEW c \in Calls, AgentIssues(c)
    PROVE  NonceInv' /\ \A d \in Calls : NonceGrows(d)
<1>1. RestType /\ call[c] \in CallType
  BY DEF BaseInv, RestType
<1>2. last' \in Nat /\ last' > last /\ last' >= call[c].ts /\ call[c].pc = "nonce"
  BY <1>1 DEF AgentIssues, NextNonce, RestType, CallType
<1>3. last' > issued \/ Outrun(call[c].ts)
  BY <1>1, <1>2 DEF NonceInv, Outrun, RestType, CallType
<1>4. past' = past /\ issued' = IF last' > issued THEN last' ELSE issued
  BY DEF AgentIssues
<1>5. NonceInv'
  BY <1>1, <1>2, <1>4 DEF NonceInv, RestType
<1>6. call'[c].nonce = last' /\ \A d \in Calls \ {c} : call'[d] = call[d]
  BY <1>1 DEF AgentIssues, RestType, CallType
<1> QED
  BY <1>3, <1>5, <1>6 DEF NonceGrows

LEMMA CallStepKeepsNonces ==
    ASSUME BaseInv, NonceInv, NEW c \in Calls, CallStep(c)
    PROVE  NonceInv' /\ \A d \in Calls : NonceGrows(d)
<1>0. RestType /\ call[c] \in CallType
  BY DEF BaseInv, RestType
<1>1. ASSUME NEW op \in Ops[cred], Start(c, op) PROVE NonceQuiet
  <2>1. op \in AllOps
    BY <1>0, RestAssumption DEF RestType
  <2>2. \A d \in Calls \ {c} : call'[d].pc = call[d].pc /\ call'[d].ts = call[d].ts
    <3> TAKE d \in Calls \ {c}
    <3>1. call[d] \in CallType
      BY <1>0 DEF RestType
    <3> QED
      BY <1>1, <3>1 DEF Start, CallType
  <2>3. call'[c].pc # "nonce" /\ call[c].pc = "idle"
    <3>1. Do(op) # "nonce"
      BY <1>0, <2>1, DoPlaces DEF RestType
    <3> QED
      BY <1>0, <1>1, <3>1 DEF Start, Fresh
  <2>4. UNCHANGED <<last, issued, past>>
    BY <1>1 DEF Start, process
  <2> QED
    BY <1>0, <2>2, <2>3, <2>4 DEF NonceQuiet, RestType
<1>2. ASSUME EndsAttempt(c) PROVE NonceQuiet
  BY <1>0, <1>2 DEF EndsAttempt, EndsEarly, Fails, EndsUnheard, EndsHeard, HeardAs, NonceQuiet, RestType
<1>3. CASE OwnerLocked(c) \/ Paced(c) \/ (BackedOff(c) /\ ~call[c].ctx)
  <2>1. Do(DepositTarget) # "nonce" /\ Signing(call[c].op) # "nonce" /\ Do(call[c].op) # "nonce"
    BY <1>0, DoPlaces, OperationFacts DEF RestType, CallType
  <2>2. NonceQuiet
    BY <1>0, <1>3, <2>1 DEF OwnerLocked, Paced, BackedOff, NonceQuiet, RestType, CallType, process
  <2> QED
    BY <2>2, QuietKeepsNonces
<1>4. CASE LoginSent(c) \/ CtxEnds(c) \/ LoginAccepted(c) \/ (Sent(c) /\ ~call[c].ctx)
  <2>1. LoginSent(c) => NonceQuiet
    BY <1>0 DEF LoginSent, NonceQuiet, RestType, CallType, process
  <2>2. CtxEnds(c) => NonceQuiet
    BY <1>0 DEF CtxEnds, NonceQuiet, RestType, CallType, process
  <2>3. LoginAccepted(c) => NonceQuiet
    BY <1>0 DEF LoginAccepted, LoginAnswered, NonceQuiet, RestType, CallType
  <2>4. Sent(c) /\ ~call[c].ctx => NonceQuiet
    BY <1>0 DEF Sent, NonceQuiet, RestType, CallType
  <2> QED
    BY <1>4, <2>1, <2>2, <2>3, <2>4, QuietKeepsNonces
<1>5. CASE \/ AgentSigns(c) /\ call' = [call EXCEPT ![c].pc = "nonce", ![c].ts = now]
           \/ Locked(c) /\ Usable /\ call' = [call EXCEPT ![c].pc = "wire", ![c].lapses = session.there]
           \/ Locked(c) /\ ~Usable /\ call' = [call EXCEPT ![c].pc = "signIn", ![c].ts = now]
  <2>1. NonceQuiet
    BY <1>0, <1>5, SMTT(30) DEF AgentSigns, Locked, NonceQuiet, RestType, CallType
  <2> QED
    BY <2>1, QuietKeepsNonces
<1> QED
  BY <1>1, <1>2, <1>3, <1>4, <1>5, StepForms, AgentIssuesMore, QuietKeepsNonces DEF GoesOn

LEMMA StepNonces ==
    ASSUME BaseInv, NonceInv, [Next]_vars
    PROVE  NonceInv' /\ \A c \in Calls : NonceGrows(c)
<1>1. CASE Restart
  <2>1. \A c \in Calls : call'[c].pc \notin {"nonce", "wire"}
    BY <1>1, EndedIs DEF Restart, BaseInv, RestType, Active, Ends, Verdicts
  <2>2. last' = 0 /\ issued' = issued /\ past' = issued
    BY <1>1 DEF Restart
  <2> QED
    BY <2>1, <2>2 DEF BaseInv, RestType, NonceInv, NonceGrows
<1>2. CASE (\E r \in wire : ServeLogin(r) \/ Serve(r)) \/ Tick \/ UNCHANGED vars
  <2>1. (\E r \in wire : ServeLogin(r) \/ Serve(r)) => UNCHANGED <<last, issued, past, call>>
    BY DEF ServeLogin, Serve, process
  <2>2. Tick => UNCHANGED <<last, issued, past, call>>
    BY DEF Tick, process
  <2>3. UNCHANGED vars => UNCHANGED <<last, issued, past, call>>
    BY DEF vars, process
  <2>4. NonceQuiet
    BY <1>2, <2>1, <2>2, <2>3 DEF NonceQuiet
  <2> QED
    BY <2>4, QuietKeepsNonces
<1> QED
  BY <1>1, <1>2, CallStepKeepsNonces DEF Next

\* Every nonce an agent issues is above every nonce issued before, by any goroutine and by any process
\* before this one, unless the process has neither read the clock past what an earlier one issued nor
\* issued past it; whenever processes end, and over clocks set back.
THEOREM NoncesOnlyGrow == Spec => NonceIncreases
<1>1. Init => NonceInv
  BY DEF Init, NonceInv
<1>2. BaseInv /\ NonceInv /\ [Next]_vars => NonceInv'
  BY StepNonces
<1>3. BaseInv /\ NonceInv /\ [Next]_vars
          => [\A c \in Calls : call[c].pc = "nonce" /\ call'[c].pc = "wire" =>
                 call'[c].nonce > issued \/ Outrun(call[c].ts)]_vars
  BY StepNonces DEF NonceGrows
<1> QED
  BY <1>1, <1>2, <1>3, BaseAlways, PTL DEF Spec, NonceIncreases

-----------------------------------------------------------------------------
(* A call has at most one request or answer under way, and which one says   *)
(* where it is.  What is left of a call that has returned is a write        *)
(* nobody waits for.                                                        *)

Awaits == {"wait", "login"}
Under(c, r) == /\ call[c].pc \in Awaits \cup {"done"}
               /\ call[c].pc \in Awaits => Waits(r) /\ \A p \in replies : p.c # c
               /\ call[c].pc = "done" => r.what = "op"
WayInv(c) ==
    /\ call[c].pc \notin Awaits => \A p \in replies : p.c # c
    /\ \A p, q \in replies : p.c = c /\ q.c = c => p = q
    /\ \A r, q \in wire : r.c = c /\ q.c = c => r = q
    /\ \A r \in wire : r.c = c => Under(c, r)

\* The budget of a call: a write goes out once and is then over, a read once per attempt.
CountInv(c) ==
    /\ call[c].pc = "idle" => call[c].sent = 0 /\ applied[c] = 0
    /\ IF Mutates(call[c].op)
       THEN /\ call[c].sent = 0 \/ (call[c].sent = 1 /\ call[c].pc \in {"wait", "done"})
            /\ call[c].sent = 0 => applied[c] = 0 /\ \A r \in wire : r.c = c => r.what = "login"
            /\ applied[c] = 0 \/ (applied[c] = 1 /\ \A r \in wire : r.c = c => r.what = "login")
       ELSE /\ applied[c] = 0
            /\ call[c].sent <= call[c].attempt + (IF call[c].pc \in {"wait", "backoff"} THEN 1 ELSE 0)

SentInv == \A c \in Calls : WayInv(c) /\ CountInv(c)

LEMMA InitSent == Init => SentInv
<1>1. ~Mutates(FetchStatus)
  BY DEF Mutates, FetchStatus, Read
<1> QED
  BY <1>1 DEF Init, SentInv, WayInv, CountInv, Fresh, Awaits

\* What a step leaves alone of a call that does not take it.
Aside(d) ==
    /\ call'[d].pc = call[d].pc /\ call'[d].op = call[d].op /\ call'[d].sent = call[d].sent
    /\ call'[d].logins = call[d].logins /\ call'[d].attempt = call[d].attempt /\ applied'[d] = applied[d]
    /\ \A r : r.c = d => (r \in wire' <=> r \in wire)
    /\ \A p : p.c = d => (p \in replies' <=> p \in replies)
LEMMA AsideKeepsSent == ASSUME NEW d \in Calls, WayInv(d), CountInv(d), Aside(d) PROVE WayInv(d)' /\ CountInv(d)'
<1>1. WayInv(d)'
  BY DEF WayInv, Under, Waits, Aside, Awaits
<1>2. CountInv(d)'
  BY DEF CountInv, Aside
<1> QED
  BY <1>1, <1>2

\* The end of an attempt: nothing of the call stays under way but a write nobody waits for.
LEMMA EndKeepsSent ==
    ASSUME BaseInv, SentInv, NEW c \in Calls, EndsAttempt(c)
    PROVE  SentInv'
<1>0. RestType /\ call[c] \in CallType /\ WayInv(c) /\ CountInv(c) /\ CallInv(c) /\ (Mutates(call[c].op) => call[c].op.by = "Send")
  BY OperationFacts DEF BaseInv, RestType, SentInv, CallType
<1>1. PICK end \in Ends, what \in SUBSET Told : HeardAs(c, end, what)
  BY <1>0 DEF EndsAttempt, EndsEarly, Fails, EndsUnheard, EndsHeard, Ends, Verdicts, RestType, ReplyType
<1>2. \A d \in Calls \ {c} : Aside(d)
  <2> TAKE d \in Calls \ {c}
  <2>1. /\ \A r : r.c = d => (r \in wire' <=> r \in wire)
        /\ \A p : p.c = d => (p \in replies' <=> p \in replies)
    BY DEF EndsAttempt, EndsEarly, EndsUnheard, EndsHeard, Clears, Abandoned
  <2> QED
    BY <1>1, <2>1 DEF HeardAs, Aside, EndsAttempt
<1>3. \A p \in replies' : p.c # c
  <2>1. CASE EndsEarly(c) /\ UNCHANGED <<wire, replies>> /\ call[c].pc # "login"
    BY <1>0, <2>1 DEF EndsEarly, WayInv, Awaits
  <2>2. CASE Clears(c)
    BY <2>2 DEF Clears
  <2>3. CASE \E r \in replies : r.c = c /\ replies' = replies \ {r}
    BY <1>0, <2>3 DEF WayInv
  <2> QED
    BY <2>1, <2>2, <2>3 DEF EndsAttempt, EndsEarly, EndsUnheard, EndsHeard
<1>4. \A r \in wire' : r \in wire /\ (r.c = c => r.what = "op" /\ Mutates(call[c].op) /\ call[c].pc = "wait")
  <2>1. CASE EndsEarly(c) /\ UNCHANGED <<wire, replies>> /\ call[c].pc # "login"
    BY <1>0, <2>1 DEF EndsEarly, WayInv, Under, Awaits
  <2>2. CASE Clears(c) /\ call[c].pc \in {"signIn", "login", "wait"}
    BY <1>0, <2>2 DEF Clears, Abandoned, WayInv, Under, Waits, Awaits
  <2>3. CASE \E r \in replies : r.c = c /\ wire' = wire /\ call[c].pc \in Awaits
    BY <1>0, <2>3 DEF WayInv, Under
  <2> QED
    BY <2>1, <2>2, <2>3 DEF EndsAttempt, EndsEarly, EndsUnheard, EndsHeard, Awaits
<1>5. /\ call'[c].op = call[c].op /\ call'[c].pc \in {"backoff", "done"}
      /\ call'[c].pc = "backoff" => call[c].op.by # "Send" /\ call'[c].sent = call[c].sent
                                    /\ call'[c].attempt = call[c].attempt
      /\ call'[c].pc = "done" => call'[c].attempt = 0
                                 /\ call'[c].sent = (IF Mutates(call[c].op) THEN call[c].sent ELSE 0)
  BY <1>0, <1>1 DEF HeardAs, Retries
<1>6. call[c].pc # "idle" /\ call[c].pc # "done" /\ applied' = applied
  BY DEF EndsAttempt, EndsEarly, EndsUnheard, EndsHeard
<1>7. WayInv(c)'
  BY <1>0, <1>3, <1>4, <1>5 DEF WayInv, Under, Awaits
<1>8. CountInv(c)'
  BY <1>0, <1>4, <1>5, <1>6 DEF CountInv, CallType
<1> QED
  BY <1>2, <1>7, <1>8, AsideKeepsSent DEF SentInv

\* A call starts with nothing under way.
LEMMA StartKeepsSent ==
    ASSUME BaseInv, SentInv, NEW c \in Calls, NEW op \in Ops[cred], Start(c, op)
    PROVE  SentInv'
<1>0. RestType /\ WayInv(c) /\ CountInv(c) /\ call[c].pc = "idle" /\ op \in AllOps
  BY RestAssumption DEF BaseInv, RestType, SentInv, Start
<1>1. UNCHANGED <<wire, replies, applied>>
  BY DEF Start, server
<1>2. \A d \in Calls \ {c} : Aside(d)
  <2> TAKE d \in Calls \ {c}
  <2>1. call[d] \in CallType /\ call'[d] = [call[d] EXCEPT !.rival = @ \/ (Writing(d) /\ Mutates(op))]
    BY <1>0 DEF RestType, Start
  <2>2. /\ call'[d].pc = call[d].pc /\ call'[d].op = call[d].op /\ call'[d].sent = call[d].sent
        /\ call'[d].logins = call[d].logins /\ call'[d].attempt = call[d].attempt
    BY <2>1 DEF CallType
  <2> QED
    BY <1>1, <2>2 DEF Aside
<1>3. (\A r \in wire : r.c # c) /\ (\A p \in replies : p.c # c) /\ applied[c] = 0
  BY <1>0 DEF WayInv, Under, Awaits, CountInv
<1>4. /\ call'[c].pc \in {"owner", "done", "pace", "wire", "agent", "lock"}
      /\ call'[c].sent = 0 /\ call'[c].op = op /\ call'[c].attempt = 0
  <2>1. Do(op) \in {"pace", "wire", "agent", "lock"}
    BY <1>0, DoPlaces DEF RestType
  <2> QED
    BY <1>0, <2>1 DEF Start, Fresh
<1>5. WayInv(c)' /\ CountInv(c)'
  BY <1>1, <1>3, <1>4 DEF WayInv, CountInv, Under, Awaits
<1> QED
  BY <1>2, <1>5, AsideKeepsSent DEF SentInv

\* A step within an attempt that sends nothing and consumes no answer but that of a sign-in.
LEMMA WithinKeepsSent ==
    ASSUME BaseInv, SentInv, NEW c \in Calls,
           call[c].pc \notin {"idle", "wait"}, call'[c].pc \notin {"idle", "wait", "login", "backoff"},
           \A d \in Calls \ {c} : call'[d] = call[d],
           call'[c].op = call[c].op, call'[c].sent = call[c].sent, call'[c].attempt >= call[c].attempt, call'[c].attempt \in Nat,
           call[c].pc = "backoff" => call'[c].attempt = call[c].attempt + 1,
           applied' = applied, wire' = wire, \A p \in replies' : p \in replies /\ p.c # c,
           \A p \in replies : p.c # c => p \in replies', call[c].pc # "done", \A r \in wire : r.c # c
    PROVE  SentInv'
<1>0. RestType /\ call[c] \in CallType /\ WayInv(c) /\ CountInv(c)
  BY DEF BaseInv, RestType, SentInv
<1>1. \A d \in Calls \ {c} : Aside(d)
  BY DEF Aside
<1>2. WayInv(c)'
  BY DEF WayInv
<1>3. CountInv(c)'
  BY <1>0 DEF CountInv, CallType
<1> QED
  BY <1>1, <1>2, <1>3, AsideKeepsSent DEF SentInv

\* A request goes out: it is the only one of its call under way.
LEMMA SendKeepsSent ==
    ASSUME BaseInv, SentInv, NEW c \in Calls, NEW what \in {"op", "login"}, NEW pc \in Awaits,
           (what = "login") <=> (pc = "login"), call[c].pc \notin Awaits \cup {"idle", "done", "backoff"},
           \A d \in Calls \ {c} : call'[d] = call[d], call'[c].pc = pc, call'[c].op = call[c].op,
           call'[c].sent = call[c].sent + (IF what = "op" THEN 1 ELSE 0),
           call'[c].logins = call[c].logins + (IF what = "login" THEN 1 ELSE 0),
           call'[c].attempt = call[c].attempt, wire' = wire \cup {Request(c, what)}, UNCHANGED <<replies, applied>>
    PROVE  SentInv'
<1>0. RestType /\ call[c] \in CallType /\ WayInv(c) /\ CountInv(c)
  BY DEF BaseInv, RestType, SentInv
<1> DEFINE q == Request(c, what)
<1>1. q.c = c /\ q.what = what /\ q.n = call'[c].sent + call'[c].logins
  BY <1>0 DEF Request, CallType
<1> HIDE DEF q
<1>2. wire' = wire \cup {q}
  BY DEF q
<1>3. \A d \in Calls \ {c} : Aside(d)
  BY <1>1, <1>2 DEF Aside
<1>4. (\A r \in wire : r.c # c) /\ (\A p \in replies : p.c # c)
  BY <1>0 DEF WayInv, Under, Awaits
<1>5. WayInv(c)'
  BY <1>1, <1>2, <1>4 DEF WayInv, Under, Waits, Awaits
<1>6. CountInv(c)'
  BY <1>0, <1>1, <1>2, <1>4 DEF CountInv, CallType, Awaits
<1> QED
  BY <1>3, <1>5, <1>6, AsideKeepsSent DEF SentInv

LEMMA GoesOnKeepsSent == ASSUME BaseInv, BaseInv', SentInv, NEW c \in Calls, GoesOn(c) PROVE SentInv'
<1>0. /\ RestType /\ call[c] \in CallType /\ WayInv(c) /\ call'[c].attempt \in Nat
      /\ call[c].pc \notin Awaits \cup {"done"} => (\A r \in wire : r.c # c) /\ (\A p \in replies : p.c # c)
  BY DEF BaseInv, RestType, SentInv, WayInv, Under, Awaits, CallType
<1>1. CASE OwnerLocked(c) \/ Paced(c) \/ (BackedOff(c) /\ ~call[c].ctx)
  <2>1. /\ Do(DepositTarget) \in {"pace", "wire", "agent", "lock"} /\ Do(call[c].op) \in {"pace", "wire", "agent", "lock"}
        /\ Signing(call[c].op) \in {"wire", "agent", "lock"}
    BY <1>0, DoPlaces, OperationFacts DEF RestType, CallType
  <2>2. UNCHANGED <<wire, replies, applied>> /\ call[c].pc \in {"owner", "pace", "backoff"}
    BY <1>1 DEF OwnerLocked, Paced, BackedOff, process, server
  <2>3. /\ \A d \in Calls \ {c} : call'[d] = call[d]
        /\ call'[c].pc \in {"done", "pace", "wire", "agent", "lock"} /\ call'[c].op = call[c].op
        /\ call'[c].sent = call[c].sent /\ call'[c].attempt >= call[c].attempt
        /\ call[c].pc = "backoff" => call'[c].attempt = call[c].attempt + 1
    BY <1>0, <1>1, <2>1 DEF OwnerLocked, Paced, BackedOff, RestType, CallType
  <2> QED
    BY <1>0, <2>2, <2>3, WithinKeepsSent DEF Awaits
<1>2. CASE \/ AgentIssues(c)
           \/ AgentSigns(c) /\ call' = [call EXCEPT ![c].pc = "nonce", ![c].ts = now]
           \/ Locked(c) /\ Usable /\ call' = [call EXCEPT ![c].pc = "wire", ![c].lapses = session.there]
           \/ Locked(c) /\ ~Usable /\ call' = [call EXCEPT ![c].pc = "signIn", ![c].ts = now]
  <2>2. UNCHANGED <<wire, replies, applied>> /\ call[c].pc \in {"nonce", "agent", "lock"}
    BY <1>2 DEF AgentIssues, AgentSigns, Locked, server
  <2>3. /\ \A d \in Calls \ {c} : call'[d] = call[d]
        /\ call'[c].pc \in {"wire", "nonce", "signIn"} /\ call'[c].op = call[c].op
        /\ call'[c].sent = call[c].sent /\ call'[c].attempt >= call[c].attempt
    BY <1>0, <1>2 DEF AgentIssues, RestType, CallType
  <2> QED
    BY <1>0, <2>2, <2>3, WithinKeepsSent DEF Awaits
<1>3. CASE CtxEnds(c)
  <2>1. \A d \in Calls : Aside(d)
    <3>1. UNCHANGED <<wire, replies, applied>>
      BY <1>3 DEF CtxEnds, server
    <3>2. \A d \in Calls : /\ call'[d].pc = call[d].pc /\ call'[d].op = call[d].op /\ call'[d].sent = call[d].sent
                           /\ call'[d].logins = call[d].logins /\ call'[d].attempt = call[d].attempt
      BY <1>0, <1>3 DEF CtxEnds, RestType, CallType
    <3> QED
      BY <3>1, <3>2 DEF Aside
  <2> QED
    BY <2>1, AsideKeepsSent DEF SentInv
<1>4. CASE LoginSent(c)
  <2>1. /\ \A d \in Calls \ {c} : call'[d] = call[d]
        /\ call'[c].pc = "login" /\ call'[c].op = call[c].op /\ call'[c].sent = call[c].sent
        /\ call'[c].logins = call[c].logins + 1 /\ call'[c].attempt = call[c].attempt
    BY <1>0, <1>4 DEF LoginSent, RestType, CallType
  <2>2. call[c].pc = "signIn" /\ wire' = wire \cup {Request(c, "login")} /\ UNCHANGED <<replies, applied>>
    BY <1>4 DEF LoginSent, server
  <2>3. call[c].sent + 0 = call[c].sent
    BY <1>0 DEF CallType
  <2> QED
    BY <2>1, <2>2, <2>3, SendKeepsSent DEF Awaits
<1>5. CASE Sent(c) /\ ~call[c].ctx
  <2>1. /\ \A d \in Calls \ {c} : call'[d] = call[d]
        /\ call'[c].pc = "wait" /\ call'[c].op = call[c].op /\ call'[c].sent = call[c].sent + 1
        /\ call'[c].logins = call[c].logins /\ call'[c].attempt = call[c].attempt
    BY <1>0, <1>5 DEF Sent, RestType, CallType
  <2>2. call[c].pc = "wire" /\ wire' = wire \cup {Request(c, "op")} /\ UNCHANGED <<replies, applied>>
    BY <1>5 DEF Sent, server
  <2>3. call[c].logins + 0 = call[c].logins
    BY <1>0 DEF CallType
  <2> QED
    BY <2>1, <2>2, <2>3, SendKeepsSent DEF Awaits
<1>6. CASE LoginAccepted(c)
  <2>1. PICK r \in replies : LoginAnswered(c, r) /\ r.end = "none"
    BY <1>6 DEF LoginAccepted
  <2>2. /\ call[c].pc = "login" /\ r.c = c /\ replies' = replies \ {r} /\ UNCHANGED <<wire, applied>>
        /\ call' = [call EXCEPT ![c].pc = "wire", ![c].lapses = r.lapses, ![c].ts = 0]
    BY <2>1 DEF LoginAnswered, server
  <2>3. /\ \A d \in Calls \ {c} : call'[d] = call[d]
        /\ call'[c].pc = "wire" /\ call'[c].op = call[c].op
        /\ call'[c].sent = call[c].sent /\ call'[c].attempt >= call[c].attempt
    BY <1>0, <2>2 DEF RestType, CallType
  <2>4. (\A q \in wire : q.c # c) /\ (\A p \in replies' : p \in replies /\ p.c # c)
        /\ (\A p \in replies : p.c # c => p \in replies')
    BY <1>0, <2>2 DEF WayInv, Under, Awaits
  <2> QED
    BY <1>0, <2>2, <2>3, <2>4, WithinKeepsSent
<1> QED
  BY <1>1, <1>2, <1>3, <1>4, <1>5, <1>6 DEF GoesOn

\* A request is served: its answer is the only one of its call, and the change is made once.
LEMMA ServedKeepsSent ==
    ASSUME BaseInv, SentInv, NEW r \in wire, NEW reply, NEW lapses, Deliver(r, reply, lapses), wire' = wire \ {r},
           UNCHANGED call,
           \/ applied' = applied
           \/ r.what = "op" /\ Mutates(call[r.c].op) /\ applied' = [applied EXCEPT ![r.c] = @ + 1]
    PROVE  SentInv'
<1>0. r.c \in Calls /\ RestType /\ WayInv(r.c) /\ CountInv(r.c) /\ Under(r.c, r)
  BY DEF BaseInv, RestType, SentInv, RequestType, WayInv
<1> DEFINE a == [c |-> r.c, end |-> Verdict(reply), tells |-> Tells(reply), lapses |-> lapses]
<1>1. a.c = r.c /\ replies' = IF Waits(r) THEN replies \cup {a} ELSE replies
  BY DEF Deliver
<1> HIDE DEF a
<1>2. \A d \in Calls \ {r.c} : Aside(d)
  BY <1>0, <1>1 DEF Aside, RestType
<1>3. (\A q \in wire' : q.c # r.c) /\ (Waits(r) => \A p \in replies : p.c # r.c)
      /\ (~Waits(r) => call[r.c].pc = "done")
  BY <1>0 DEF WayInv, Under
<1>4. Waits(r) => call[r.c].pc \in Awaits
  BY DEF Waits, Awaits
<1>5. WayInv(r.c)'
  BY <1>0, <1>1, <1>3, <1>4 DEF WayInv
<1>6. CountInv(r.c)'
  BY <1>0, <1>3 DEF CountInv, RestType
<1> QED
  BY <1>2, <1>5, <1>6, AsideKeepsSent DEF SentInv

LEMMA WorldStepKeepsSent ==
    ASSUME BaseInv, SentInv, (\E r \in wire : ServeLogin(r) \/ Serve(r)) \/ Restart \/ Tick
    PROVE  SentInv'
<1>1. ASSUME NEW r \in wire, ServeLogin(r) PROVE SentInv'
  BY <1>1, ServedKeepsSent DEF ServeLogin, server
<1>2. ASSUME NEW r \in wire, Serve(r) PROVE SentInv'
  <2>1. RestType
    BY DEF BaseInv
  <2> QED
    BY <1>2, <2>1, ServeCases, ServedKeepsSent
<1>3. CASE Restart
  <2>1. cred = "agent" /\ replies' = {} /\ UNCHANGED <<wire, applied>>
    BY <1>3 DEF Restart, server
  <2>2. ASSUME NEW c \in Calls PROVE WayInv(c)' /\ CountInv(c)'
    <3>0. call[c] \in CallType /\ WayInv(c) /\ CountInv(c) /\ call[c].pc \notin {"lock", "signIn", "login"}
      BY <2>1 DEF BaseInv, RestType, SentInv, CallInv
    <3>1. CASE Active(c)
      <4>1. /\ call'[c].pc = "done" /\ call'[c].op = call[c].op /\ call'[c].attempt = 0
            /\ call'[c].sent = (IF Mutates(call[c].op) THEN call[c].sent ELSE 0)
        BY <1>3, <3>0, <3>1, EndedIs DEF Restart, Ends, Verdicts
      <4>2. \A r \in wire : r.c = c => r.what = "op"
        BY <3>0, <3>1 DEF BaseInv, RestType, RequestType, WayInv, Under, Waits, Active, Awaits
      <4>3. WayInv(c)'
        BY <2>1, <3>0, <4>1, <4>2 DEF WayInv, Under, Awaits
      <4> QED
        BY <2>1, <3>0, <3>1, <4>1, <4>3 DEF CountInv, Active
    <3>2. CASE ~Active(c)
      <4>1. call'[c] = call[c]
        BY <1>3, <3>2 DEF Restart
      <4> QED
        BY <2>1, <3>0, <4>1 DEF WayInv, CountInv, Under, Waits
    <3> QED
      BY <3>1, <3>2
  <2> QED
    BY <2>2 DEF SentInv
<1>4. CASE Tick
  BY <1>4 DEF Tick, process, server, SentInv, WayInv, CountInv, Under, Waits
<1> QED
  BY <1>1, <1>2, <1>3, <1>4

LEMMA StepSent == ASSUME BaseInv, BaseInv', SentInv, [Next]_vars PROVE SentInv'
<1>1. ASSUME NEW c \in Calls, CallStep(c) PROVE SentInv'
  BY <1>1, StepForms, StartKeepsSent, EndKeepsSent, GoesOnKeepsSent
<1>2. CASE UNCHANGED vars
  BY <1>2 DEF vars, process, server, SentInv, WayInv, CountInv, Under, Waits
<1> QED
  BY <1>1, <1>2, WorldStepKeepsSent DEF Next

LEMMA SentAlways == Spec => [](BaseInv /\ SentInv)
<1>1. BaseInv /\ SentInv /\ [Next]_vars => (BaseInv /\ SentInv)'
  BY StepBase, StepSent
<1> QED
  BY <1>1, InitBase, InitSent, PTL DEF Spec

\* However answers are lost, refused, late or undecodable, and whatever is retried around it: a call that
\* changes state puts one request on the wire and is carried out at most once, a read is sent at most once
\* per attempt.
THEOREM WritesAreSentOnce == Spec => []OnceAtMost
<1>1. BaseInv /\ SentInv => OnceAtMost
  <2> SUFFICES ASSUME BaseInv, SentInv, NEW c \in Calls
               PROVE  call[c].sent <= (IF Mutates(call[c].op) THEN 1 ELSE MaxRetries + 1) /\ applied[c] <= 1
      BY DEF OnceAtMost
  <2>1. call[c] \in CallType /\ CountInv(c) /\ CallInv(c)
    BY DEF BaseInv, RestType, SentInv
  <2> QED
    BY <2>1, RestAssumption DEF CountInv, CallInv, CallType
<1> QED
  BY <1>1, SentAlways, PTL

-----------------------------------------------------------------------------
(* How a call ends says what became of it.                                  *)

EndInv(c) ==
    /\ "final" \in call[c].heard => call[c].pc = "done"
    /\ call[c].pc = "done" /\ Mutates(call[c].op) =>
           /\ call[c].end = "none" => applied[c] = 1
           /\ call[c].end \in {Local, "refused"} => call[c].sent = 0
AnswerInv(p) ==
    /\ "final" \in p.tells => p.end = "final"
    /\ call[p.c].pc = "wait" /\ Mutates(call[p.c].op) /\ p.end = "none" => applied[p.c] = 1
OutcomeInv == (\A c \in Calls : EndInv(c)) /\ (\A p \in replies : AnswerInv(p))

\* The fields that EndInv and AnswerInv look at.
SameOutcome(d) ==
    /\ call'[d].pc = call[d].pc /\ call'[d].op = call[d].op /\ call'[d].sent = call[d].sent
    /\ call'[d].end = call[d].end /\ call'[d].heard = call[d].heard /\ applied'[d] = applied[d]

\* A step of one call that consumes answers and leaves the others alone.
LEMMA OthersKeepOutcome ==
    ASSUME RestType, OutcomeInv, NEW c \in Calls, \A d \in Calls \ {c} : SameOutcome(d), replies' \subseteq replies,
           EndInv(c)', \A p \in replies' : p.c = c => AnswerInv(p)'
    PROVE  OutcomeInv'
<1>1. \A d \in Calls \ {c} : EndInv(d)'
  BY DEF OutcomeInv, EndInv, SameOutcome
<1>2. \A p \in replies' : p.c # c => AnswerInv(p)'
  BY DEF OutcomeInv, AnswerInv, SameOutcome, RestType, ReplyType
<1> QED
  BY <1>1, <1>2 DEF OutcomeInv

LEMMA StartKeepsOutcome ==
    ASSUME BaseInv, SentInv, OutcomeInv, NEW c \in Calls, NEW op \in Ops[cred], Start(c, op)
    PROVE  OutcomeInv'
<1>0. RestType /\ WayInv(c) /\ call[c].pc = "idle" /\ op \in AllOps
  BY RestAssumption DEF BaseInv, RestType, SentInv, Start
<1>1. UNCHANGED <<wire, replies, applied>>
  BY DEF Start, server
<1>2. \A d \in Calls \ {c} : SameOutcome(d)
  <2> TAKE d \in Calls \ {c}
  <2>1. call[d] \in CallType /\ call'[d] = [call[d] EXCEPT !.rival = @ \/ (Writing(d) /\ Mutates(op))]
    BY <1>0 DEF RestType, Start
  <2>2. /\ call'[d].pc = call[d].pc /\ call'[d].op = call[d].op /\ call'[d].sent = call[d].sent
        /\ call'[d].end = call[d].end /\ call'[d].heard = call[d].heard
    BY <2>1 DEF CallType
  <2> QED
    BY <1>1, <2>2 DEF SameOutcome
<1>3. call'[c].sent = 0 /\ call'[c].heard = {} /\ (call'[c].pc = "done" => call'[c].end = "refused")
  <2>1. Do(op) # "done"
    BY <1>0, DoPlaces DEF RestType
  <2> QED
    BY <1>0, <2>1 DEF Start, Fresh
<1>4. EndInv(c)'
  BY <1>3 DEF EndInv
<1>5. \A p \in replies' : p.c # c
  BY <1>0, <1>1 DEF WayInv, Awaits
<1> QED
  BY <1>0, <1>1, <1>2, <1>4, <1>5, OthersKeepOutcome

LEMMA EndKeepsOutcome ==
    ASSUME BaseInv, SentInv, SentInv', OutcomeInv, NEW c \in Calls, EndsAttempt(c)
    PROVE  OutcomeInv'
<1>0. /\ RestType /\ call[c] \in CallType /\ WayInv(c)' /\ CountInv(c) /\ EndInv(c)
      /\ (Mutates(call[c].op) => call[c].op.by = "Send")
  BY OperationFacts DEF BaseInv, RestType, SentInv, CallType, OutcomeInv
<1>1. call[c].pc # "idle" /\ call[c].pc # "done" /\ applied' = applied /\ replies' \subseteq replies
  BY DEF EndsAttempt, EndsEarly, EndsUnheard, EndsHeard, Clears
<1>2. PICK end \in Ends, what \in SUBSET Told :
          /\ HeardAs(c, end, what)
          /\ "final" \in what => end = "final"
          /\ Mutates(call[c].op) /\ end = "none" => applied[c] = 1
          /\ end \in {Local, "refused"} => call[c].pc # "wait"
  <2>1. Local \in Ends /\ Transient \in Ends /\ {} \in SUBSET Told /\ Transient \notin {Local, "refused", "none"} /\ Local # "none"
    BY DEF Ends, Verdicts, Local, Transient
  <2>2. CASE EndsEarly(c)
    BY <2>1, <2>2 DEF EndsEarly, Fails
  <2>3. CASE EndsUnheard(c)
    BY <2>1, <2>3 DEF EndsUnheard
  <2>4. CASE EndsHeard(c)
    <3>1. PICK r \in replies : call[c].pc = "wait" /\ r.c = c /\ HeardAs(c, r.end, r.tells)
      BY <2>4 DEF EndsHeard
    <3>2. r.end \in Verdicts /\ r.tells \in SUBSET Told /\ AnswerInv(r)
      BY DEF RestType, BaseInv, ReplyType, OutcomeInv
    <3>3. r.end \in Ends /\ r.end \notin {Local, "refused"}
      BY <3>2 DEF Ends, Verdicts, Local, Transient
    <3> QED
      BY <3>1, <3>2, <3>3 DEF AnswerInv
  <2> QED
    BY <2>2, <2>3, <2>4 DEF EndsAttempt
<1>3. \A d \in Calls \ {c} : SameOutcome(d)
  BY <1>1, <1>2 DEF HeardAs, SameOutcome
<1>4. call'[c].pc # "wait" /\ call'[c].pc \in {"backoff", "done"}
  BY <1>2 DEF HeardAs
<1>5. \A p \in replies' : p.c # c
  BY <1>0, <1>4 DEF WayInv, Awaits
<1>6. EndInv(c)'
  <2>1. "final" \notin call[c].heard
    BY <1>0, <1>1 DEF EndInv
  <2>2. end = "final" => ~Retries(c, end)
    BY DEF Retries, Transient
  <2>3. "final" \in call'[c].heard => call'[c].pc = "done"
    BY <1>2, <2>1, <2>2 DEF HeardAs
  <2>4. Mutates(call[c].op) /\ end \in {Local, "refused"} => call[c].sent = 0
    BY <1>0, <1>1, <1>2 DEF CountInv
  <2> QED
    BY <1>1, <1>2, <2>3, <2>4 DEF HeardAs, EndInv
<1> QED
  BY <1>0, <1>1, <1>3, <1>5, <1>6, OthersKeepOutcome

LEMMA GoesOnKeepsOutcome ==
    ASSUME BaseInv, SentInv, OutcomeInv, NEW c \in Calls, GoesOn(c)
    PROVE  OutcomeInv'
<1>0. RestType /\ call[c] \in CallType /\ WayInv(c) /\ EndInv(c) /\ CallInv(c)
  BY DEF BaseInv, RestType, SentInv, OutcomeInv
<1>1. replies' \subseteq replies /\ UNCHANGED applied
  BY DEF GoesOn, OwnerLocked, Paced, AgentIssues, LoginSent, CtxEnds, LoginAccepted, LoginAnswered, AgentSigns, Locked,
         Sent, BackedOff, process, server
<1>2. CASE CtxEnds(c)
  <2>1. \A d \in Calls : SameOutcome(d)
    BY <1>0, <1>1, <1>2 DEF CtxEnds, RestType, CallType, SameOutcome
  <2>2. EndInv(c)' /\ \A p \in replies' : AnswerInv(p)'
    BY <1>0, <1>1, <2>1 DEF OutcomeInv, EndInv, AnswerInv, SameOutcome, RestType, ReplyType
  <2> QED
    BY <1>0, <1>1, <2>1, <2>2, OthersKeepOutcome
<1>3. ASSUME call[c].pc \notin {"wait", "done"}, \A d \in Calls \ {c} : call'[d] = call[d], call'[c].heard = call[c].heard,
             call'[c].pc # "done" \/ ~Mutates(call'[c].op), call[c].pc = "login" => call'[c].pc # "wait"
      PROVE  OutcomeInv'
  <2>1. \A d \in Calls \ {c} : SameOutcome(d)
    BY <1>1, <1>3 DEF SameOutcome
  <2>2. EndInv(c)'
    BY <1>0, <1>3 DEF EndInv
  <2>3. ASSUME NEW p \in replies', p.c = c PROVE AnswerInv(p)'
    <3>1. p \in replies /\ call[c].pc = "login" /\ AnswerInv(p)
      BY <1>0, <1>1, <1>3, <2>3 DEF WayInv, Awaits, OutcomeInv
    <3> QED
      BY <1>3, <2>3, <3>1 DEF AnswerInv
  <2> QED
    BY <1>0, <1>1, <2>1, <2>2, <2>3, OthersKeepOutcome
<1>4. CASE OwnerLocked(c)
  <2>1. ~Mutates(call[c].op) /\ call[c].pc = "owner"
    BY <1>0, <1>4, OperationFacts DEF OwnerLocked, CallInv
  <2>2. /\ \A d \in Calls \ {c} : call'[d] = call[d]
        /\ call'[c].heard = call[c].heard /\ call'[c].op = call[c].op
    BY <1>0, <1>4 DEF OwnerLocked, RestType, CallType
  <2> QED
    BY <1>3, <2>1, <2>2
<1>5. CASE Paced(c) \/ (BackedOff(c) /\ ~call[c].ctx)
  <2>1. Signing(call[c].op) # "done" /\ Do(call[c].op) # "done"
    BY <1>0, DoPlaces DEF RestType, CallType
  <2>2. /\ \A d \in Calls \ {c} : call'[d] = call[d]
        /\ call'[c].heard = call[c].heard /\ call'[c].pc # "done" /\ call[c].pc \in {"pace", "backoff"}
    BY <1>0, <1>5, <2>1 DEF Paced, BackedOff, RestType, CallType
  <2> QED
    BY <1>3, <2>2
<1>6. CASE \/ AgentIssues(c)
           \/ AgentSigns(c) /\ call' = [call EXCEPT ![c].pc = "nonce", ![c].ts = now]
           \/ Locked(c) /\ Usable /\ call' = [call EXCEPT ![c].pc = "wire", ![c].lapses = session.there]
           \/ Locked(c) /\ ~Usable /\ call' = [call EXCEPT ![c].pc = "signIn", ![c].ts = now]
  <2>1. /\ \A d \in Calls \ {c} : call'[d] = call[d]
        /\ call'[c].heard = call[c].heard /\ call'[c].pc # "done" /\ call[c].pc \in {"nonce", "agent", "lock"}
    BY <1>0, <1>6 DEF AgentIssues, AgentSigns, Locked, RestType, CallType
  <2> QED
    BY <1>3, <2>1
<1>7. CASE LoginSent(c) \/ LoginAccepted(c) \/ (Sent(c) /\ ~call[c].ctx)
  <2>1. /\ call[c].pc \in {"signIn", "login", "wire"}
        /\ \/ call' = [call EXCEPT ![c].pc = "login", ![c].logins = @ + 1, ![c].at = now]
           \/ \E x : call' = [call EXCEPT ![c].pc = "wire", ![c].lapses = x, ![c].ts = 0]
           \/ call[c].pc = "wire" /\ call' = [call EXCEPT ![c].pc = "wait", ![c].sent = @ + 1, ![c].at = now]
    BY <1>7 DEF LoginSent, LoginAccepted, LoginAnswered, Sent
  <2>2. /\ \A d \in Calls \ {c} : call'[d] = call[d]
        /\ call'[c].heard = call[c].heard /\ call'[c].pc # "done"
        /\ call[c].pc = "login" => call'[c].pc # "wait"
    <3>1. CASE call' = [call EXCEPT ![c].pc = "login", ![c].logins = @ + 1, ![c].at = now]
      BY <1>0, <3>1 DEF RestType, CallType
    <3>2. ASSUME NEW x, call' = [call EXCEPT ![c].pc = "wire", ![c].lapses = x, ![c].ts = 0]
          PROVE  call'[c].heard = call[c].heard /\ call'[c].pc = "wire" /\ \A d \in Calls \ {c} : call'[d] = call[d]
      BY <1>0, <3>2 DEF RestType, CallType
    <3>3. CASE call[c].pc = "wire" /\ call' = [call EXCEPT ![c].pc = "wait", ![c].sent = @ + 1, ![c].at = now]
      BY <1>0, <3>3 DEF RestType, CallType
    <3> QED
      BY <2>1, <3>1, <3>2, <3>3
  <2> QED
    BY <1>3, <2>1, <2>2
<1> QED
  BY <1>2, <1>4, <1>5, <1>6, <1>7 DEF GoesOn

\* An answer says final only when the call will make that of it, and no error only when the change was made.
LEMMA ServedKeepsOutcome ==
    ASSUME BaseInv, SentInv', OutcomeInv, NEW r \in wire, NEW reply \in Answers, NEW lapses,
           Deliver(r, reply, lapses), UNCHANGED call,
           \/ applied' = [applied EXCEPT ![r.c] = @ + 1]
           \/ applied' = applied /\ (reply.status = 200 /\ Waits(r) => ~Mutates(call[r.c].op) \/ call[r.c].pc # "wait")
    PROVE  OutcomeInv'
<1>0. RestType /\ r.c \in Calls
  BY DEF BaseInv, RestType, RequestType
<1>1. \A c \in Calls : applied'[c] \in 0..1 /\ applied[c] \in Nat /\ applied'[c] >= applied[c]
  BY <1>0 DEF RestType, SentInv, CountInv
<1>2. \A c \in Calls : EndInv(c)'
  BY <1>1 DEF OutcomeInv, EndInv
<1> DEFINE a == [c |-> r.c, end |-> Verdict(reply), tells |-> Tells(reply), lapses |-> lapses]
<1>3. a.c = r.c /\ a.end = Verdict(reply) /\ a.tells = Tells(reply)
      /\ replies' = IF Waits(r) THEN replies \cup {a} ELSE replies
  BY DEF Deliver
<1> HIDE DEF a
<1>4. \A p \in replies : AnswerInv(p)'
  BY <1>0, <1>1 DEF OutcomeInv, AnswerInv, RestType, ReplyType
<1>5. ASSUME Waits(r) PROVE AnswerInv(a)'
  <2>1. "final" \in a.tells => a.end = "final"
    BY <1>3, AnswersMean
  <2>2. a.end = "none" => reply.status = 200
    BY <1>3, AnswersMean, ZenonT(60)
  <2>3. call[a.c].pc = "wait" /\ Mutates(call[a.c].op) /\ a.end = "none" => applied'[a.c] = 1
    BY <1>0, <1>1, <1>3, <1>5, <2>2 DEF RestType
  <2> QED
    BY <1>3, <2>1, <2>3 DEF AnswerInv
<1> QED
  BY <1>2, <1>3, <1>4, <1>5 DEF OutcomeInv

LEMMA WorldStepKeepsOutcome ==
    ASSUME BaseInv, SentInv, SentInv', OutcomeInv, (\E r \in wire : ServeLogin(r) \/ Serve(r)) \/ Restart \/ Tick
    PROVE  OutcomeInv'
<1>1. ASSUME NEW r \in wire, ServeLogin(r) PROVE OutcomeInv'
  <2>1. PICK reply \in {Served, Unauthorized("refused")} \cup Outages : Deliver(r, reply, now + TTL)
    BY <1>1 DEF ServeLogin
  <2>2. reply \in Answers
    BY DEF Answers
  <2>3. UNCHANGED <<call, applied>> /\ (Waits(r) => call[r.c].pc # "wait")
    BY <1>1 DEF ServeLogin, server, Waits
  <2> HIDE DEF Deliver, Answers
  <2> QED
    BY <2>1, <2>2, <2>3, ServedKeepsOutcome
<1>2. ASSUME NEW r \in wire, Serve(r) PROVE OutcomeInv'
  <2>1. CASE Rejects(r) # "no" /\ Deliver(r, Unauthorized(Rejects(r)), 0) /\ UNCHANGED <<call, applied>>
    <3>1. Unauthorized(Rejects(r)) \in Answers /\ Unauthorized(Rejects(r)).status # 200
      BY <2>1 DEF Answers, Rejects, Unauthorized, Reply
    <3> QED
      BY <2>1, <3>1, ServedKeepsOutcome
  <2>2. CASE UNCHANGED call /\ \E reply \in Answers :
                 /\ Deliver(r, reply, 0)
                 /\ \/ applied' = [applied EXCEPT ![r.c] = @ + 1]
                    \/ applied' = applied /\ (reply.status = 200 => ~Mutates(call[r.c].op))
    BY <2>2, ServedKeepsOutcome
  <2>3. RestType
    BY DEF BaseInv
  <2> QED
    BY <1>2, <2>1, <2>2, <2>3, ServeCases
<1>3. CASE Restart
  <2>1. replies' = {} /\ UNCHANGED applied
    BY <1>3 DEF Restart, server
  <2>2. ASSUME NEW c \in Calls PROVE EndInv(c)'
    <3>0. call[c] \in CallType /\ EndInv(c) /\ Transient \in Ends /\ Transient \notin {"none", Local, "refused"}
      BY DEF BaseInv, RestType, OutcomeInv, Ends, Verdicts, Transient, Local
    <3>1. CASE Active(c)
      <4>1. call'[c].pc = "done" /\ call'[c].end = Transient
        BY <1>3, <3>0, <3>1, EndedIs DEF Restart
      <4> QED
        BY <3>0, <4>1 DEF EndInv
    <3>2. CASE ~Active(c)
      BY <1>3, <2>1, <3>0, <3>2 DEF Restart, EndInv
    <3> QED
      BY <3>1, <3>2
  <2> QED
    BY <2>1, <2>2 DEF OutcomeInv
<1>4. CASE Tick
  BY <1>4 DEF Tick, server, OutcomeInv, EndInv, AnswerInv
<1> QED
  BY <1>1, <1>2, <1>3, <1>4

LEMMA StepOutcome == ASSUME BaseInv, SentInv, SentInv', OutcomeInv, [Next]_vars PROVE OutcomeInv'
<1>1. ASSUME NEW c \in Calls, CallStep(c) PROVE OutcomeInv'
  BY <1>1, StepForms, StartKeepsOutcome, EndKeepsOutcome, GoesOnKeepsOutcome
<1>2. CASE UNCHANGED vars
  BY <1>2 DEF vars, server, OutcomeInv, EndInv, AnswerInv
<1> QED
  BY <1>1, <1>2, WorldStepKeepsOutcome DEF Next

LEMMA OutcomeAlways == Spec => [](BaseInv /\ SentInv /\ OutcomeInv)
<1>1. Init => OutcomeInv
  BY DEF Init, OutcomeInv, EndInv, Fresh
<1>2. BaseInv /\ SentInv /\ OutcomeInv /\ [Next]_vars => (BaseInv /\ SentInv /\ OutcomeInv)'
  BY StepBase, StepSent, StepOutcome
<1> QED
  BY <1>1, <1>2, InitBase, InitSent, PTL DEF Spec

\* A call told that it met a cap, was refused, or got a malformed answer, is over: no attempt follows.
THEOREM DecisionsAreFinal == Spec => []FinalIsFinal
<1>1. OutcomeInv => FinalIsFinal
  BY DEF OutcomeInv, EndInv, FinalIsFinal
<1> QED
  BY <1>1, OutcomeAlways, PTL

\* A write that returned no error was carried out, exactly once; one that failed inside the client never
\* left it, so it was not.
THEOREM CallersMayConclude == Spec => []CallerKnows
<1>1. BaseInv /\ SentInv /\ OutcomeInv => CallerKnows
  BY DEF OutcomeInv, EndInv, SentInv, CountInv, CallerKnows
<1> QED
  BY <1>1, OutcomeAlways, PTL


-----------------------------------------------------------------------------
(* Sessions.  From the lock's test or the sign-in's answer to the wire is   *)
(* no time, so what is left of the session then covers the client's         *)
(* timeout: by the margin in the first case, by TTL > 2 * Timeout in the    *)
(* second, whose sign-in may itself have taken a timeout.                   *)

Presents(c) == call[c].op.on = "t" /\ cred \in {"session", "wallet"}
TimesInv(c) ==
    /\ call[c].pc = "signIn" => call[c].ts <= now
    /\ call[c].pc \in Awaits => call[c].at <= now /\ now <= call[c].at + Timeout
    /\ call[c].pc = "login" => call[c].ts <= call[c].at
    /\ call[c].pc = "wire" /\ Presents(c) => call[c].lapses > now + Timeout
    /\ call[c].pc = "wait" /\ Presents(c) => call[c].lapses > call[c].at + Timeout
GrantInv(p) == call[p.c].pc = "login" /\ p.end = "none" => p.lapses >= call[p.c].at + TTL
ShownInv(r) == r.what = "op" /\ Waits(r) => r.lapses = call[r.c].lapses
SessionInv == session # None => session.here <= session.there
LapseInv == /\ SessionInv /\ \A c \in Calls : TimesInv(c)
            /\ \A p \in replies : GrantInv(p)
            /\ \A r \in wire : ShownInv(r)

\* The fields that LapseInv looks at.
SameTimes(d) ==
    /\ call'[d].pc = call[d].pc /\ call'[d].op = call[d].op /\ call'[d].sent = call[d].sent
    /\ call'[d].logins = call[d].logins /\ call'[d].at = call[d].at /\ call'[d].ts = call[d].ts
    /\ call'[d].lapses = call[d].lapses

\* A step of one call at one instant: the others keep their times, and so do their requests and answers.
LEMMA OthersKeepLapses ==
    ASSUME RestType, LapseInv, NEW c \in Calls, UNCHANGED <<now, cred>>, \A d \in Calls \ {c} : SameTimes(d),
           TimesInv(c)', SessionInv',
           \A p \in replies' : IF p.c = c THEN GrantInv(p)' ELSE p \in replies,
           \A r \in wire' : IF r.c = c THEN ShownInv(r)' ELSE r \in wire
    PROVE  LapseInv'
<1>1. \A d \in Calls \ {c} : TimesInv(d)'
  BY DEF LapseInv, TimesInv, SameTimes, Presents
<1>2. \A p \in replies' : GrantInv(p)'
  BY DEF LapseInv, GrantInv, SameTimes, RestType, ReplyType
<1>3. \A r \in wire' : ShownInv(r)'
  BY DEF LapseInv, ShownInv, SameTimes, RestType, RequestType, Waits
<1> QED
  BY <1>1, <1>2, <1>3 DEF LapseInv

\* Where nothing is presented or awaited, nothing can lapse.
LEMMA QuietKeepsLapses ==
    ASSUME BaseInv, SentInv, SentInv', LapseInv, NEW c \in Calls, UNCHANGED <<now, cred, session>>,
           \A d \in Calls \ {c} : SameTimes(d),
           call'[c].pc \notin Awaits \cup {"signIn"}, call'[c].pc = "wire" => ~Presents(c)',
           \A p \in replies' : p.c # c => p \in replies, \A r \in wire' : r.c # c => r \in wire
    PROVE  LapseInv'
<1>0. RestType /\ SessionInv' /\ WayInv(c)'
  BY DEF BaseInv, LapseInv, SessionInv, SentInv
<1>1. TimesInv(c)'
  BY DEF TimesInv, Awaits
<1>2. \A p \in replies' : p.c # c
  BY <1>0 DEF WayInv
<1>3. \A r \in wire' : r.c = c => ShownInv(r)'
  BY DEF ShownInv, Waits, Awaits
<1> QED
  BY <1>0, <1>1, <1>2, <1>3, OthersKeepLapses

LEMMA CallStepKeepsLapses ==
    ASSUME BaseInv, SentInv, SentInv', LapseInv, NEW c \in Calls, CallStep(c)
    PROVE  LapseInv'
<1>0. RestType /\ call[c] \in CallType /\ WayInv(c) /\ WayInv(c)' /\ TimesInv(c) /\ CallInv(c) /\ SessionInv
  BY DEF BaseInv, RestType, SentInv, LapseInv
<1>1. ASSUME NEW op \in Ops[cred], Start(c, op) PROVE LapseInv'
  <2>1. op \in AllOps
    BY <1>0, RestAssumption DEF RestType
  <2>2. \A d \in Calls \ {c} : SameTimes(d)
    <3> TAKE d \in Calls \ {c}
    <3>1. call[d] \in CallType /\ call'[d] = [call[d] EXCEPT !.rival = @ \/ (Writing(d) /\ Mutates(op))]
      BY <1>0, <1>1 DEF RestType, Start
    <3> QED
      BY <3>1 DEF CallType, SameTimes
  <2>3. UNCHANGED <<now, cred, session, wire, replies>>
    BY <1>1 DEF Start, process
  <2>4. /\ call'[c].pc \in {"owner", "done", "pace", "wire", "agent", "lock"} /\ call'[c].op = op
        /\ call'[c].pc = "wire" => Do(op) = "wire"
    <3>1. Do(op) \in {"pace", "wire", "agent", "lock"}
      BY <1>0, <2>1, DoPlaces DEF RestType
    <3> QED
      BY <1>0, <1>1, <3>1 DEF Start, Fresh
  <2>5. call'[c].pc = "wire" => ~Presents(c)'
    BY <1>0, <2>1, <2>3, <2>4, DoPlaces DEF RestType, Presents
  <2> QED
    BY <2>2, <2>3, <2>4, <2>5, QuietKeepsLapses DEF Awaits
<1>2. CASE EndsAttempt(c)
  <2>1. \A d \in Calls \ {c} : SameTimes(d)
    BY <1>2 DEF EndsAttempt, EndsEarly, Fails, EndsUnheard, EndsHeard, HeardAs, SameTimes
  <2>2. call'[c].pc \in {"backoff", "done"}
    BY <1>2 DEF EndsAttempt, EndsEarly, Fails, EndsUnheard, EndsHeard, HeardAs
  <2>3. wire' \subseteq wire /\ replies' \subseteq replies /\ UNCHANGED <<now, cred, session>>
    BY <1>2 DEF EndsAttempt, EndsEarly, EndsUnheard, EndsHeard, Clears, Abandoned
  <2> QED
    BY <2>1, <2>2, <2>3, QuietKeepsLapses DEF Awaits
<1>3. CASE OwnerLocked(c) \/ Paced(c) \/ (BackedOff(c) /\ ~call[c].ctx)
  <2>1. UNCHANGED <<now, cred, session, wire, replies>>
    BY <1>3 DEF OwnerLocked, Paced, BackedOff, process
  <2>2. DepositTarget \in AllOps /\ call[c].op \in AllOps
    BY <1>0, OperationFacts DEF CallType
  <2>3. /\ Do(DepositTarget) \in {"pace", "wire", "agent", "lock"} /\ Do(call[c].op) \in {"pace", "wire", "agent", "lock"}
        /\ Signing(call[c].op) \in {"wire", "agent", "lock"}
        /\ "wire" \in {Signing(call[c].op), Do(call[c].op)} => ~Presents(c)
        /\ Do(DepositTarget) = "wire" /\ call[c].op = DepositTarget => ~Presents(c)
    BY <1>0, <2>2, DoPlaces DEF RestType, Presents
  <2>4. /\ \A d \in Calls \ {c} : call'[d] = call[d]
        /\ call'[c].pc \in {"done", "pace", "wire", "agent", "lock"} /\ call'[c].op = call[c].op
        /\ call'[c].pc = "wire" => ~Presents(c)
    BY <1>0, <1>3, <2>3 DEF OwnerLocked, Paced, BackedOff, RestType, CallType, CallInv
  <2>5. call'[c].pc = "wire" => ~Presents(c)'
    BY <2>1, <2>4 DEF Presents
  <2> QED
    BY <2>1, <2>4, <2>5, QuietKeepsLapses DEF SameTimes, Awaits
<1>4. CASE AgentIssues(c) \/ (AgentSigns(c) /\ call' = [call EXCEPT ![c].pc = "nonce", ![c].ts = now])
  <2>1. UNCHANGED <<now, cred, session, wire, replies>> /\ cred = "agent"
    BY <1>0, <1>4 DEF AgentIssues, AgentSigns, CallInv
  <2>2. /\ \A d \in Calls \ {c} : call'[d] = call[d]
        /\ call'[c].pc \in {"wire", "nonce"}
    BY <1>0, <1>4 DEF AgentIssues, AgentSigns, RestType, CallType
  <2>3. ~Presents(c)'
    BY <2>1 DEF Presents
  <2> QED
    BY <2>1, <2>2, <2>3, QuietKeepsLapses DEF SameTimes, Awaits
<1>5. CASE Locked(c) /\ Usable /\ call' = [call EXCEPT ![c].pc = "wire", ![c].lapses = session.there]
  <2>1. UNCHANGED <<now, cred, session, wire, replies>> /\ SessionInv' /\ call[c].pc = "lock"
    BY <1>0, <1>5 DEF Locked, SessionInv
  <2>2. /\ \A d \in Calls \ {c} : call'[d] = call[d]
        /\ call'[c].pc = "wire" /\ call'[c].lapses = session.there
    BY <1>0, <1>5 DEF RestType, CallType
  <2>3. session.there > now + Timeout
    BY <1>0, <1>5, RestAssumption DEF Usable, SessionInv, RestType
  <2>4. TimesInv(c)'
    BY <2>1, <2>2, <2>3 DEF TimesInv, Awaits
  <2>5. (\A p \in replies' : p.c # c) /\ (\A r \in wire' : r.c # c)
    BY <1>0, <2>1 DEF WayInv, Under, Awaits
  <2> QED
    BY <1>0, <2>1, <2>2, <2>4, <2>5, OthersKeepLapses DEF SameTimes
<1>6. CASE Locked(c) /\ ~Usable /\ call' = [call EXCEPT ![c].pc = "signIn", ![c].ts = now]
  <2>1. UNCHANGED <<now, cred, session, wire, replies>> /\ SessionInv' /\ call[c].pc = "lock"
    BY <1>0, <1>6 DEF Locked, SessionInv
  <2>2. /\ \A d \in Calls \ {c} : call'[d] = call[d]
        /\ call'[c].pc = "signIn" /\ call'[c].ts = now
    BY <1>0, <1>6 DEF RestType, CallType
  <2>3. TimesInv(c)'
    BY <1>0, <2>1, <2>2 DEF TimesInv, Awaits, RestType
  <2>4. (\A p \in replies' : p.c # c) /\ (\A r \in wire' : r.c # c)
    BY <1>0, <2>1 DEF WayInv, Under, Awaits
  <2> QED
    BY <1>0, <2>1, <2>2, <2>3, <2>4, OthersKeepLapses DEF SameTimes
<1>7. CASE LoginSent(c)
  <2>1. /\ UNCHANGED <<now, cred, session, replies>> /\ SessionInv' /\ call[c].pc = "signIn"
        /\ wire' = wire \cup {Request(c, "login")}
    BY <1>0, <1>7 DEF LoginSent, SessionInv, process
  <2>2. /\ \A d \in Calls \ {c} : call'[d] = call[d]
        /\ call'[c].pc = "login" /\ call'[c].ts = call[c].ts /\ call'[c].at = now
    BY <1>0, <1>7 DEF LoginSent, RestType, CallType
  <2>3. TimesInv(c)'
    BY <1>0, <2>1, <2>2, RestAssumption DEF TimesInv, Awaits, RestType
  <2>4. Request(c, "login").c = c /\ Request(c, "login").what = "login"
    BY DEF Request
  <2>5. (\A p \in replies' : p.c # c) /\ (\A r \in wire' : r.c = c => ShownInv(r)') /\ \A r \in wire' : r.c # c => r \in wire
    BY <1>0, <2>1, <2>4 DEF WayInv, Under, Awaits, ShownInv
  <2> QED
    BY <1>0, <2>1, <2>2, <2>3, <2>5, OthersKeepLapses DEF SameTimes
<1>8. CASE Sent(c) /\ ~call[c].ctx
  <2>1. /\ UNCHANGED <<now, cred, session, replies>> /\ SessionInv' /\ call[c].pc = "wire"
        /\ wire' = wire \cup {Request(c, "op")}
    BY <1>0, <1>8 DEF Sent, SessionInv
  <2>2. /\ \A d \in Calls \ {c} : call'[d] = call[d]
        /\ call'[c].pc = "wait" /\ call'[c].op = call[c].op /\ call'[c].at = now /\ call'[c].lapses = call[c].lapses
    BY <1>0, <1>8 DEF Sent, RestType, CallType
  <2>3. TimesInv(c)'
    BY <1>0, <2>1, <2>2, RestAssumption DEF TimesInv, Awaits, RestType, Presents
  <2>4. Request(c, "op").c = c /\ Request(c, "op").lapses = call[c].lapses
    BY DEF Request
  <2>5. (\A p \in replies' : p.c # c) /\ (\A r \in wire' : r.c = c => ShownInv(r)') /\ \A r \in wire' : r.c # c => r \in wire
    BY <1>0, <2>1, <2>2, <2>4 DEF WayInv, Under, Awaits, ShownInv
  <2> QED
    BY <1>0, <2>1, <2>2, <2>3, <2>5, OthersKeepLapses DEF SameTimes
<1>9. CASE LoginAccepted(c)
  <2>1. PICK r \in replies : LoginAnswered(c, r) /\ r.end = "none"
    BY <1>9 DEF LoginAccepted
  <2>2. /\ call[c].pc = "login" /\ r.c = c /\ replies' = replies \ {r} /\ UNCHANGED <<now, cred, wire>>
        /\ call' = [call EXCEPT ![c].pc = "wire", ![c].lapses = r.lapses, ![c].ts = 0]
        /\ session' = [here |-> Expiry(c), there |-> r.lapses]
    BY <2>1 DEF LoginAnswered
  <2>3. /\ \A d \in Calls \ {c} : call'[d] = call[d]
        /\ call'[c].pc = "wire" /\ call'[c].lapses = r.lapses
    BY <1>0, <2>2 DEF RestType, CallType
  <2>4. r.lapses \in Nat /\ r.lapses >= call[c].at + TTL
    BY <2>1, <2>2 DEF LapseInv, GrantInv, BaseInv, RestType, ReplyType
  <2>5. SessionInv'
    BY <1>0, <2>2, <2>4, RestAssumption DEF TimesInv, SessionInv, Expiry, CallType
  <2>6. TimesInv(c)'
    <3>1. r.lapses > now + Timeout
      BY <1>0, <2>2, <2>4, RestAssumption DEF TimesInv, CallType, RestType, Awaits
    <3> QED
      BY <2>2, <2>3, <3>1 DEF TimesInv, Awaits
  <2>7. (\A p \in replies' : p.c # c) /\ (\A q \in wire' : q.c # c)
    BY <1>0, <2>2, <2>3 DEF WayInv, Under, Awaits
  <2> QED
    BY <1>0, <2>2, <2>3, <2>5, <2>6, <2>7, OthersKeepLapses DEF SameTimes
<1>10. CASE CtxEnds(c)
  <2>1. UNCHANGED <<now, cred, session, wire, replies>>
    BY <1>10 DEF CtxEnds, process
  <2>2. \A d \in Calls : SameTimes(d)
    BY <1>0, <1>10 DEF CtxEnds, RestType, CallType, SameTimes
  <2> QED
    BY <1>0, <2>1, <2>2 DEF LapseInv, SessionInv, TimesInv, GrantInv, ShownInv, SameTimes, Presents, Waits, RestType,
       RequestType, ReplyType
<1> QED
  BY <1>1, <1>2, <1>3, <1>4, <1>5, <1>6, <1>7, <1>8, <1>9, <1>10, StepForms DEF GoesOn

LEMMA WorldStepKeepsLapses ==
    ASSUME BaseInv, SentInv, LapseInv, (\E r \in wire : ServeLogin(r) \/ Serve(r)) \/ Restart \/ Tick
    PROVE  LapseInv'
<1>0. RestType
  BY DEF BaseInv
<1>1. ASSUME NEW r \in wire, NEW reply, NEW lapses, Deliver(r, reply, lapses), wire' = wire \ {r},
             UNCHANGED <<now, cred, session, call>>, r.what = "login" => lapses = now + TTL
      PROVE  LapseInv'
  <2> DEFINE a == [c |-> r.c, end |-> Verdict(reply), tells |-> Tells(reply), lapses |-> lapses]
  <2>1. a.c = r.c /\ a.lapses = lapses /\ replies' = IF Waits(r) THEN replies \cup {a} ELSE replies
    BY <1>1 DEF Deliver
  <2> HIDE DEF a
  <2>2. /\ SessionInv' /\ \A c \in Calls : TimesInv(c)'
        /\ \A q \in wire' : ShownInv(q)'
        /\ \A p \in replies : GrantInv(p)'
    BY <1>1 DEF LapseInv, SessionInv, TimesInv, Presents, ShownInv, Waits, GrantInv
  <2>3. ASSUME Waits(r) PROVE GrantInv(a)'
    <3>1. r.c \in Calls /\ r.what \in {"op", "login"} /\ call[r.c] \in CallType
      BY <1>0 DEF RestType, RequestType
    <3>2. call[r.c].pc = "login" => call[r.c].at <= now /\ r.what = "login"
      BY <2>3, <3>1 DEF LapseInv, TimesInv, Awaits, Waits
    <3> QED
      BY <1>0, <1>1, <2>1, <3>1, <3>2, RestAssumption DEF GrantInv, RestType, CallType
  <2> QED
    BY <2>1, <2>2, <2>3 DEF LapseInv
<1>2. ASSUME NEW r \in wire, ServeLogin(r) PROVE LapseInv'
  BY <1>1, <1>2 DEF ServeLogin, process
<1>3. ASSUME NEW r \in wire, Serve(r) PROVE LapseInv'
  <2>1. UNCHANGED <<now, cred, session>>
    BY <1>3 DEF Serve, process
  <2> QED
    BY <1>0, <1>1, <1>3, <2>1, ServeCases
<1>4. CASE Restart
  <2>1. cred' = "agent" /\ session' = None /\ replies' = {} /\ wire' = wire
    BY <1>4 DEF Restart
  <2>2. \A c \in Calls : call'[c].pc \in {"idle", "done"}
    BY <1>0, <1>4, EndedIs DEF Restart, RestType, Active, Ends, Verdicts
  <2> QED
    BY <1>0, <2>1, <2>2 DEF LapseInv, SessionInv, TimesInv, ShownInv, Waits, Awaits, RestType, RequestType
<1>5. CASE Tick
  <2>1. /\ now' = now + 1 /\ UNCHANGED <<cred, session, call, wire, replies>>
        /\ \A c \in Calls : call[c].pc # "wire" /\ (call[c].pc \in Awaits => now < call[c].at + Timeout)
    BY <1>5 DEF Tick, process, Awaits
  <2>2. ASSUME NEW c \in Calls PROVE TimesInv(c)'
    <3>1. call[c] \in CallType /\ TimesInv(c) /\ now \in Nat
      BY <1>0 DEF RestType, LapseInv
    <3> QED
      BY <2>1, <3>1, RestAssumption DEF TimesInv, Presents, CallType, Awaits
  <2> QED
    BY <2>1, <2>2 DEF LapseInv, SessionInv, GrantInv, ShownInv, Waits
<1> QED
  BY <1>2, <1>3, <1>4, <1>5

LEMMA StepLapses == ASSUME BaseInv, SentInv, SentInv', LapseInv, [Next]_vars PROVE LapseInv'
<1>1. CASE UNCHANGED vars
  BY <1>1 DEF vars, process, LapseInv, SessionInv, TimesInv, GrantInv, ShownInv, Waits, Presents
<1> QED
  BY <1>1, CallStepKeepsLapses, WorldStepKeepsLapses DEF Next

\* A session on its way to the server, with a call that still waits for the answer, has not lapsed there:
\* not after the test of a session found in the lock, nor after a sign-in as slow as the timeout allows.
THEOREM SessionsArriveAlive == Spec => []NeverLapsed
<1>1. Init => LapseInv
  BY RestAssumption DEF Init, Given, Fresh, LapseInv, SessionInv, TimesInv, Awaits
<1>2. BaseInv /\ SentInv /\ LapseInv /\ [Next]_vars => (BaseInv /\ SentInv /\ LapseInv)'
  BY StepBase, StepSent, StepLapses
<1>3. ASSUME BaseInv, LapseInv PROVE NeverLapsed
  <2> SUFFICES ASSUME NEW r \in wire, r.what = "op", Waits(r), call[r.c].op.on = "t", cred \in {"session", "wallet"}
               PROVE  now < r.lapses
      BY DEF NeverLapsed
  <2>1. r.c \in Calls /\ call[r.c].pc = "wait" /\ call[r.c] \in CallType /\ now \in Nat
    BY <1>3 DEF BaseInv, RestType, RequestType, Waits
  <2>2. call[r.c].lapses > call[r.c].at + Timeout /\ now <= call[r.c].at + Timeout /\ r.lapses = call[r.c].lapses
    BY <1>3, <2>1 DEF LapseInv, TimesInv, ShownInv, Presents, Awaits
  <2> QED
    BY <2>1, <2>2, RestAssumption DEF CallType
<1> QED
  BY <1>1, <1>2, <1>3, InitBase, InitSent, PTL DEF Spec

-----------------------------------------------------------------------------
(* The order of nonces at the server.  A write that overlaps no other is    *)
(* the only one that can put a checked nonce on the wire while it lives,    *)
(* and its own, unless it was outrun, was above everything issued before    *)
(* it: what is left of earlier writes may still arrive, and cannot overtake *)
(* it.                                                                      *)

NumberInv == /\ accepted <= issued
             /\ \A c \in Calls : call[c].nonce <= issued
             /\ \A r \in wire : r.nonce <= issued
Alone(c) == Writing(c) /\ ~call[c].rival
AloneInv(c) == Alone(c) => \A d \in Calls \ {c} : ~Writing(d)
Ahead(c) == /\ accepted < call[c].nonce
            /\ \A q \in wire : IF q.c = c THEN q.nonce = call[c].nonce
                               ELSE NonceChecked(call[q.c].op) => q.nonce < call[c].nonce
Unserved(c) == call[c].pc = "wire" \/ (call[c].pc = "wait" /\ \E r \in wire : r.c = c)
AheadInv(c) == Alone(c) /\ ~call[c].outrun /\ NonceChecked(call[c].op) /\ Unserved(c) => Ahead(c)
Excused(c) == call[c].rival \/ call[c].outrun
StaleInv == /\ \A c \in Calls : "stale" \in call[c].heard => Excused(c)
            /\ \A p \in replies : "stale" \in p.tells => Excused(p.c)
OrderInv == NumberInv /\ (\A c \in Calls : AloneInv(c) /\ AheadInv(c)) /\ StaleInv

\* A step of one call under way: it may send its request, and issue a nonce.
LEMMA OthersKeepOrder ==
    ASSUME BaseInv, BaseInv', OrderInv, NEW c \in Calls, UNCHANGED <<cred, accepted>>, issued' >= issued, Active(c),
           \A d \in Calls \ {c} : call'[d] = call[d],
           call'[c].op = call[c].op, call'[c].rival = call[c].rival, call'[c].nonce <= issued',
           Excused(c) => Excused(c)', "stale" \in call'[c].heard => Excused(c)',
           \A r \in wire' : r \in wire \/ (r.c = c /\ r.nonce = call'[c].nonce),
           replies' \subseteq replies, AheadInv(c)'
    PROVE  OrderInv'
<1>0. RestType /\ RestType'
  BY DEF BaseInv
<1>1. NumberInv'
  <2>1. \A d \in Calls : call[d] \in CallType /\ call'[d] \in CallType
    BY <1>0 DEF RestType
  <2>2. issued \in Nat /\ issued' \in Nat /\ accepted \in Nat
    BY <1>0 DEF RestType
  <2>3. \A r \in wire : r.nonce \in Nat
    BY <1>0 DEF RestType, RequestType
  <2> QED
    BY <2>1, <2>2, <2>3 DEF OrderInv, NumberInv, CallType
<1>2. \A d \in Calls : AloneInv(d)'
  BY DEF OrderInv, AloneInv, Alone, Writing, Active
<1>3. ASSUME NEW d \in Calls \ {c} PROVE AheadInv(d)'
  <2> SUFFICES ASSUME Alone(d)', ~call'[d].outrun, NonceChecked(call[d].op)', Unserved(d)' PROVE Ahead(d)'
      BY DEF AheadInv
  <2>1. Alone(d) /\ ~call[d].outrun /\ NonceChecked(call[d].op) /\ Unserved(d)
    BY DEF Alone, Writing, Active, NonceChecked, Unserved
  <2>2. Ahead(d) /\ ~Writing(c)
    BY <2>1 DEF OrderInv, AheadInv, AloneInv
  <2>3. ~NonceChecked(call[c].op)
    BY <2>2 DEF NonceChecked, Writing
  <2>4. \A q \in wire' : q.c \in Calls
    BY <1>0 DEF RestType, RequestType
  <2> QED
    BY <2>2, <2>3, <2>4 DEF Ahead, NonceChecked
<1>4. StaleInv'
  <2>1. \A p \in replies : p.c \in Calls
    BY <1>0 DEF RestType, ReplyType
  <2>2. \A d \in Calls : Excused(d) => Excused(d)'
    BY DEF Excused
  <2>3. ASSUME NEW d \in Calls, "stale" \in call'[d].heard PROVE Excused(d)'
    BY <2>2, <2>3 DEF OrderInv, StaleInv
  <2> QED
    BY <2>1, <2>2, <2>3 DEF OrderInv, StaleInv
<1> QED
  BY <1>1, <1>2, <1>3, <1>4 DEF OrderInv

LEMMA StartKeepsOrder ==
    ASSUME BaseInv, BaseInv', SentInv, OrderInv, NEW c \in Calls, NEW op \in Ops[cred], Start(c, op)
    PROVE  OrderInv'
<1>0. RestType /\ WayInv(c) /\ WayInv(c) /\ call[c].pc = "idle" /\ op \in AllOps
  BY RestAssumption DEF BaseInv, RestType, SentInv, Start
<1>1. UNCHANGED <<wire, replies, accepted, issued, cred>>
  BY DEF Start, server
<1>2. ASSUME NEW d \in Calls \ {c}
      PROVE  /\ call'[d].pc = call[d].pc /\ call'[d].op = call[d].op /\ call'[d].nonce = call[d].nonce
             /\ call'[d].heard = call[d].heard /\ call'[d].outrun = call[d].outrun /\ call'[d].rival = (call[d].rival \/ (Writing(d) /\ Mutates(op)))
  <2>1. call[d] \in CallType /\ call'[d] = [call[d] EXCEPT !.rival = @ \/ (Writing(d) /\ Mutates(op))]
    BY <1>0 DEF RestType, Start
  <2> QED
    BY <2>1 DEF CallType
<1>3. /\ call'[c].op = op /\ call'[c].rival = (\E e \in Calls : Writing(e)) /\ call'[c].heard = {} /\ call'[c].nonce = 0
      /\ call'[c].pc = "wire" => Do(op) = "wire"
      /\ call'[c].pc # "wait"
  <2>1. Do(op) \in {"pace", "wire", "agent", "lock"}
    BY <1>0, DoPlaces DEF RestType
  <2> QED
    BY <1>0, <2>1 DEF Start, Fresh
<1>4. (\A p \in replies : p.c # c) /\ (\A r \in wire : r.c # c)
  BY <1>0 DEF WayInv, Under, Awaits
<1>5. NumberInv'
  <2>1. issued \in Nat
    BY <1>0 DEF RestType
  <2> QED
    BY <1>1, <1>2, <1>3, <2>1 DEF OrderInv, NumberInv
<1>6. \A d \in Calls : AloneInv(d)'
  <2>1. ~Writing(c)
    BY <1>0 DEF Writing, Active
  <2>2. \A d \in Calls \ {c} : Writing(d)' <=> Writing(d)
    BY <1>2 DEF Writing, Active
  <2>3. Writing(c)' => Mutates(op)
    BY <1>3 DEF Writing
  <2> QED
    BY <1>2, <1>3, <2>1, <2>2, <2>3 DEF OrderInv, AloneInv, Alone
<1>7. AheadInv(c)'
  <2>1. call'[c].pc = "wire" => ~NonceChecked(call[c].op)'
    BY <1>0, <1>1, <1>3, DoPlaces DEF RestType, NonceChecked
  <2> QED
    BY <1>3, <2>1 DEF AheadInv, Unserved
<1>8. ASSUME NEW d \in Calls \ {c} PROVE AheadInv(d)'
  <2>1. \A q \in wire : q.c \in Calls \ {c}
    BY <1>0, <1>4 DEF RestType, RequestType
  <2> QED
    BY <1>1, <1>2, <2>1 DEF OrderInv, AheadInv, Ahead, Alone, Writing, Active, NonceChecked, Unserved
<1>9. StaleInv'
  <2>1. \A p \in replies : p.c \in Calls \ {c}
    BY <1>0, <1>4 DEF RestType, ReplyType
  <2>2. \A d \in Calls \ {c} : Excused(d) => Excused(d)'
    BY <1>2 DEF Excused
  <2> QED
    BY <1>1, <1>2, <1>3, <2>1, <2>2 DEF OrderInv, StaleInv
<1> QED
  BY <1>5, <1>6, <1>7, <1>8, <1>9 DEF OrderInv

LEMMA EndKeepsOrder ==
    ASSUME BaseInv, BaseInv', OrderInv, NEW c \in Calls, EndsAttempt(c)
    PROVE  OrderInv'
<1>0. RestType /\ issued \in Nat
  BY DEF BaseInv, RestType
<1>1. PICK end, what : HeardAs(c, end, what) /\ ("stale" \in what => Excused(c))
  <2>1. CASE EndsEarly(c) \/ EndsUnheard(c)
    BY <2>1 DEF EndsEarly, Fails, EndsUnheard
  <2>2. CASE EndsHeard(c)
    BY <2>2 DEF EndsHeard, OrderInv, StaleInv
  <2> QED
    BY <2>1, <2>2 DEF EndsAttempt
<1>2. call'[c].pc \in {"backoff", "done"}
  BY <1>1 DEF HeardAs
<1>3. AheadInv(c)'
  BY <1>2 DEF AheadInv, Unserved
<1>4. Active(c) /\ replies' \subseteq replies /\ wire' \subseteq wire /\ UNCHANGED <<cred, accepted, issued>>
  BY DEF EndsAttempt, EndsEarly, EndsUnheard, EndsHeard, Active, Clears, Abandoned
<1>5. Excused(c) => Excused(c)'
  BY <1>1 DEF HeardAs, Excused
<1>6. call'[c].nonce <= issued' /\ ("stale" \in call'[c].heard => Excused(c)') /\ issued' >= issued
  BY <1>0, <1>1, <1>4, <1>5 DEF HeardAs, OrderInv, StaleInv
<1> QED
  BY <1>1, <1>3, <1>4, <1>5, <1>6, OthersKeepOrder DEF HeardAs

LEMMA GoesOnKeepsOrder ==
    ASSUME BaseInv, BaseInv', SentInv, NonceInv, OrderInv, NEW c \in Calls, GoesOn(c)
    PROVE  OrderInv'
<1>0. /\ RestType /\ call[c] \in CallType /\ WayInv(c) /\ CallInv(c) /\ issued \in Nat /\ call[c].nonce <= issued
      /\ ("stale" \in call[c].heard => Excused(c)) /\ AheadInv(c)
  BY DEF BaseInv, RestType, SentInv, OrderInv, NumberInv, StaleInv
<1>1. ASSUME UNCHANGED <<cred, accepted, issued, wire>>, Active(c), replies' \subseteq replies,
             \A d \in Calls \ {c} : call'[d] = call[d], call'[c].op = call[c].op, call'[c].rival = call[c].rival,
             call'[c].outrun = call[c].outrun, call'[c].heard = call[c].heard, call'[c].nonce = call[c].nonce, AheadInv(c)'
      PROVE  OrderInv'
  <2>1. Excused(c)' <=> Excused(c)
    BY <1>1 DEF Excused
  <2> QED
    BY <1>0, <1>1, <2>1, OthersKeepOrder
<1>2. CASE OwnerLocked(c) \/ Paced(c) \/ (BackedOff(c) /\ ~call[c].ctx)
  <2>1. UNCHANGED <<cred, accepted, issued, wire, replies>> /\ Active(c)
    BY <1>2 DEF OwnerLocked, Paced, BackedOff, process, server, Active
  <2>2. DepositTarget \in AllOps /\ call[c].op \in AllOps
    BY <1>0, OperationFacts DEF CallType
  <2>3. /\ Do(DepositTarget) \in {"pace", "wire", "agent", "lock"} /\ Do(call[c].op) \in {"pace", "wire", "agent", "lock"}
        /\ Signing(call[c].op) \in {"wire", "agent", "lock"}
        /\ "wire" \in {Signing(call[c].op), Do(call[c].op)} => ~NonceChecked(call[c].op)
        /\ Do(DepositTarget) = "wire" /\ call[c].op = DepositTarget => ~NonceChecked(call[c].op)
    BY <1>0, <2>2, DoPlaces DEF RestType, NonceChecked
  <2>4. /\ \A d \in Calls \ {c} : call'[d] = call[d]
        /\ call'[c].pc \in {"done", "pace", "wire", "agent", "lock"} /\ call'[c].op = call[c].op
        /\ call'[c].rival = call[c].rival /\ call'[c].outrun = call[c].outrun /\ call'[c].heard = call[c].heard /\ call'[c].nonce = call[c].nonce
        /\ call'[c].pc = "wire" => ~NonceChecked(call[c].op)
    BY <1>0, <1>2, <2>3 DEF OwnerLocked, Paced, BackedOff, RestType, CallType, CallInv
  <2>5. AheadInv(c)'
    BY <2>1, <2>4 DEF AheadInv, Unserved, NonceChecked
  <2> QED
    BY <1>1, <2>1, <2>4, <2>5
<1>3. CASE \/ AgentSigns(c) /\ call' = [call EXCEPT ![c].pc = "nonce", ![c].ts = now]
           \/ Locked(c) /\ Usable /\ call' = [call EXCEPT ![c].pc = "wire", ![c].lapses = session.there]
           \/ Locked(c) /\ ~Usable /\ call' = [call EXCEPT ![c].pc = "signIn", ![c].ts = now]
  <2>1. UNCHANGED <<cred, accepted, issued, wire, replies>> /\ Active(c) /\ (call[c].pc = "lock" => ~NonceChecked(call[c].op))
    BY <1>0, <1>3 DEF AgentSigns, Locked, server, Active, CallInv, NonceChecked
  <2>2. /\ \A d \in Calls \ {c} : call'[d] = call[d]
        /\ call'[c].pc \in {"nonce", "wire", "signIn"} /\ call'[c].op = call[c].op /\ call'[c].nonce = call[c].nonce
        /\ call'[c].rival = call[c].rival /\ call'[c].outrun = call[c].outrun /\ call'[c].heard = call[c].heard
    BY <1>0, <1>3 DEF RestType, CallType
  <2>3. call'[c].pc = "wire" => call[c].pc = "lock"
    BY <1>0, <1>3 DEF AgentSigns, Locked, RestType, CallType
  <2>4. AheadInv(c)'
    BY <2>1, <2>2, <2>3 DEF AheadInv, Unserved, NonceChecked
  <2> QED
    BY <1>1, <2>1, <2>2, <2>4
<1>4. CASE LoginAccepted(c)
  <2>1. PICK r \in replies : LoginAnswered(c, r) /\ r.end = "none"
    BY <1>4 DEF LoginAccepted
  <2>2. /\ UNCHANGED <<cred, accepted, issued, wire>> /\ replies' \subseteq replies /\ call[c].pc = "login"
        /\ call' = [call EXCEPT ![c].pc = "wire", ![c].lapses = r.lapses, ![c].ts = 0]
    BY <2>1 DEF LoginAnswered, server
  <2>3. /\ \A d \in Calls \ {c} : call'[d] = call[d]
        /\ call'[c].op = call[c].op /\ call'[c].nonce = call[c].nonce
        /\ call'[c].rival = call[c].rival /\ call'[c].outrun = call[c].outrun /\ call'[c].heard = call[c].heard
    BY <1>0, <2>2 DEF RestType, CallType
  <2>4. Active(c) /\ AheadInv(c)'
    BY <1>0, <2>2, <2>3 DEF Active, AheadInv, CallInv, NonceChecked
  <2> QED
    BY <1>1, <2>2, <2>3, <2>4
<1>5. CASE LoginSent(c)
  <2>1. /\ UNCHANGED <<cred, accepted, issued, replies>> /\ call[c].pc = "signIn" /\ wire' = wire \cup {Request(c, "login")}
        /\ call' = [call EXCEPT ![c].pc = "login", ![c].logins = @ + 1, ![c].at = now]
    BY <1>5 DEF LoginSent, server
  <2>2. /\ \A d \in Calls \ {c} : call'[d] = call[d]
        /\ call'[c].op = call[c].op /\ call'[c].nonce = call[c].nonce
        /\ call'[c].rival = call[c].rival /\ call'[c].outrun = call[c].outrun /\ call'[c].heard = call[c].heard
    BY <1>0, <2>1 DEF RestType, CallType
  <2>3. Active(c) /\ AheadInv(c)' /\ Request(c, "login").c = c /\ Request(c, "login").nonce = call[c].nonce
    BY <1>0, <2>1, <2>2 DEF Active, AheadInv, CallInv, NonceChecked, Request
  <2>4. /\ \A r \in wire' : r \in wire \/ (r.c = c /\ r.nonce = call'[c].nonce)
        /\ issued' >= issued /\ call'[c].nonce <= issued' /\ replies' \subseteq replies
    BY <1>0, <2>1, <2>2, <2>3
  <2>5. Excused(c)' <=> Excused(c)
    BY <2>2 DEF Excused
  <2> QED
    BY <1>0, <2>1, <2>2, <2>3, <2>4, <2>5, OthersKeepOrder
<1>6. CASE Sent(c) /\ ~call[c].ctx
  <2>1. /\ UNCHANGED <<cred, accepted, issued, replies>> /\ call[c].pc = "wire" /\ wire' = wire \cup {Request(c, "op")}
        /\ call' = [call EXCEPT ![c].pc = "wait", ![c].sent = @ + 1, ![c].at = now]
    BY <1>6 DEF Sent, server
  <2>2. /\ \A d \in Calls \ {c} : call'[d] = call[d]
        /\ call'[c].op = call[c].op /\ call'[c].nonce = call[c].nonce /\ call'[c].pc = "wait"
        /\ call'[c].rival = call[c].rival /\ call'[c].outrun = call[c].outrun /\ call'[c].heard = call[c].heard
    BY <1>0, <2>1 DEF RestType, CallType
  <2>3. Active(c) /\ Request(c, "op").c = c /\ Request(c, "op").nonce = call[c].nonce
    BY <2>1 DEF Active, Request
  <2>4. AheadInv(c)'
    <3>1. SUFFICES ASSUME Alone(c)', ~call'[c].outrun, NonceChecked(call[c].op)' PROVE Ahead(c)'
      BY DEF AheadInv
    <3>2. Alone(c) /\ ~call[c].outrun /\ NonceChecked(call[c].op) /\ Unserved(c)
      BY <2>1, <2>2, <2>3, <3>1 DEF Alone, Writing, NonceChecked, Unserved
    <3>3. Ahead(c)
      BY <1>0, <3>2 DEF AheadInv
    <3>4. \A q \in wire : q.c \in Calls /\ (q.c # c => (NonceChecked(call[q.c].op)' <=> NonceChecked(call[q.c].op)))
      BY <1>0, <2>1, <2>2 DEF RestType, RequestType, NonceChecked
    <3> HIDE DEF NonceChecked
    <3> QED
      BY <2>1, <2>2, <2>3, <3>3, <3>4 DEF Ahead
  <2>5. /\ \A r \in wire' : r \in wire \/ (r.c = c /\ r.nonce = call'[c].nonce)
        /\ issued' >= issued /\ call'[c].nonce <= issued' /\ replies' \subseteq replies
    BY <1>0, <2>1, <2>2, <2>3
  <2>6. Excused(c)' <=> Excused(c)
    BY <2>2 DEF Excused
  <2> QED
    BY <1>0, <2>1, <2>2, <2>3, <2>4, <2>5, <2>6, OthersKeepOrder
<1>7. CASE AgentIssues(c)
  <2>1. /\ UNCHANGED <<cred, accepted, wire, replies>> /\ call[c].pc = "nonce" /\ Active(c)
        /\ issued' = (IF last' > issued THEN last' ELSE issued)
        /\ call' = [call EXCEPT ![c].pc = "wire", ![c].nonce = last', ![c].ts = 0, ![c].outrun = @ \/ Outrun(call[c].ts)]
    BY <1>7 DEF AgentIssues, server, Active
  <2>2. /\ \A d \in Calls \ {c} : call'[d] = call[d]
        /\ call'[c].op = call[c].op /\ call'[c].nonce = last' /\ call'[c].pc = "wire"
        /\ call'[c].rival = call[c].rival /\ call'[c].heard = call[c].heard
        /\ call'[c].outrun <=> call[c].outrun \/ Outrun(call[c].ts)
    BY <1>0, <2>1 DEF RestType, CallType
  <2>3. last' \in Nat /\ issued' >= issued /\ last' <= issued'
    <3>1. last' \in Nat
      BY DEF BaseInv, RestType
    <3> QED
      BY <1>0, <2>1, <3>1
  <2>4. ~call'[c].outrun => last' > issued
    <3>1. NonceGrows(c)
      BY <1>7, AgentIssuesMore
    <3> QED
      BY <2>1, <2>2, <3>1 DEF NonceGrows
  <2>5. ASSUME last' > issued PROVE Ahead(c)'
    <3>1. accepted < last'
      BY <1>0, <2>3, <2>5 DEF OrderInv, NumberInv, RestType
    <3>2. \A q \in wire : q.c # c /\ q.nonce < last'
      BY <1>0, <2>1, <2>3, <2>5 DEF OrderInv, NumberInv, RestType, RequestType, WayInv, Under, Awaits
    <3> QED
      BY <2>1, <2>2, <3>1, <3>2 DEF Ahead
  <2>6. AheadInv(c)' /\ call'[c].nonce <= issued'
    BY <2>2, <2>3, <2>4, <2>5 DEF AheadInv
  <2>7. (Excused(c) => Excused(c)') /\ ("stale" \in call'[c].heard => Excused(c)')
    BY <1>0, <2>2 DEF Excused
  <2> QED
    BY <1>0, <2>1, <2>2, <2>3, <2>6, <2>7, OthersKeepOrder
<1>8. CASE CtxEnds(c)
  <2>1. UNCHANGED <<cred, accepted, issued, wire, replies>> /\ Active(c) /\ call' = [call EXCEPT ![c].ctx = TRUE]
    BY <1>8 DEF CtxEnds, process, server
  <2>2. /\ \A d \in Calls \ {c} : call'[d] = call[d]
        /\ call'[c].op = call[c].op /\ call'[c].nonce = call[c].nonce /\ call'[c].pc = call[c].pc
        /\ call'[c].rival = call[c].rival /\ call'[c].outrun = call[c].outrun /\ call'[c].heard = call[c].heard
    BY <1>0, <2>1 DEF RestType, CallType
  <2>3. \A q \in wire : q.c \in Calls
    BY <1>0 DEF RestType, RequestType
  <2>4. AheadInv(c)'
    BY <1>0, <2>1, <2>2, <2>3 DEF AheadInv, Ahead, Alone, Writing, Active, NonceChecked, Unserved
  <2> QED
    BY <1>1, <2>1, <2>2, <2>4
<1> QED
  BY <1>2, <1>3, <1>4, <1>5, <1>6, <1>7, <1>8 DEF GoesOn

\* The server answers a request: it calls a nonce stale only if another write overlapped the call.
LEMMA ServedKeepsOrder ==
    ASSUME BaseInv, SentInv, OrderInv, NEW r \in wire, NEW reply, NEW lapses, Deliver(r, reply, lapses),
           wire' = wire \ {r}, UNCHANGED <<call, cred, issued>>,
           accepted' = accepted \/ (NonceChecked(call[r.c].op) /\ accepted' = r.nonce),
           "stale" \in Tells(reply) /\ Waits(r) => Excused(r.c)
    PROVE  OrderInv'
<1>0. RestType /\ r.c \in Calls /\ \A q \in wire : q.c \in Calls
  BY DEF BaseInv, RestType, RequestType
<1> DEFINE a == [c |-> r.c, end |-> Verdict(reply), tells |-> Tells(reply), lapses |-> lapses]
<1>1. a.c = r.c /\ a.tells = Tells(reply) /\ replies' = IF Waits(r) THEN replies \cup {a} ELSE replies
  BY DEF Deliver
<1> HIDE DEF a
<1>2. StaleInv'
  BY <1>1 DEF OrderInv, StaleInv, Excused
<1>3. NumberInv'
  BY DEF OrderInv, NumberInv
<1>4. \A c \in Calls : AloneInv(c)'
  BY DEF OrderInv, AloneInv, Alone, Writing, Active
<1>5. ASSUME NEW c \in Calls PROVE AheadInv(c)'
  <2> SUFFICES ASSUME Alone(c)', ~call'[c].outrun, NonceChecked(call[c].op)', Unserved(c)' PROVE Ahead(c)'
      BY DEF AheadInv
  <2>1. Alone(c) /\ ~call[c].outrun /\ NonceChecked(call[c].op) /\ Unserved(c)
    BY DEF Alone, Writing, Active, NonceChecked, Unserved
  <2>2. Ahead(c)
    BY <2>1 DEF OrderInv, AheadInv
  <2>3. r.c # c
    <3>1. WayInv(c)
      BY DEF SentInv
    <3> QED
      BY <3>1 DEF WayInv, Under, Unserved, Awaits
  <2>4. \A q : NonceChecked(call[q.c].op)' <=> NonceChecked(call[q.c].op)
    BY DEF NonceChecked
  <2> HIDE DEF NonceChecked
  <2> QED
    BY <2>2, <2>3, <2>4 DEF Ahead
<1> QED
  BY <1>2, <1>3, <1>4, <1>5 DEF OrderInv

LEMMA WorldStepKeepsOrder ==
    ASSUME BaseInv, SentInv, OrderInv, (\E r \in wire : ServeLogin(r) \/ Serve(r)) \/ Restart \/ Tick
    PROVE  OrderInv'
<1>0. RestType
  BY DEF BaseInv
<1>1. ASSUME NEW r \in wire, ServeLogin(r) PROVE OrderInv'
  <2>1. PICK reply \in {Served, Unauthorized("refused")} \cup Outages : Deliver(r, reply, now + TTL)
    BY <1>1 DEF ServeLogin
  <2>2. "stale" \notin Tells(reply)
    BY DEF Served, Unauthorized, Outages, Tells, Reply
  <2> QED
    BY <1>1, <2>1, <2>2, ServedKeepsOrder DEF ServeLogin, server
<1>2. ASSUME NEW r \in wire, Serve(r) PROVE OrderInv'
  <2>1. UNCHANGED <<call, cred, issued>> /\ wire' = wire \ {r} /\ r.what = "op" /\ r.c \in Calls /\ r.nonce \in Nat
    BY <1>0, <1>2, ServeCases, ZenonT(60) DEF Serve, RequestType
  <2>2. CASE Rejects(r) # "no" /\ Deliver(r, Unauthorized(Rejects(r)), 0) /\ accepted' = accepted
    <3>1. Tells(Unauthorized(Rejects(r))) = {Rejects(r)} \cap {"stale"}
      BY <2>2 DEF Tells, Unauthorized, Reply, Rejects
    <3>2. ASSUME Rejects(r) = "stale", Waits(r) PROVE Excused(r.c)
      <4>1. NonceChecked(call[r.c].op) /\ r.nonce <= accepted /\ call[r.c].pc = "wait"
        BY <2>1, <3>2 DEF Rejects, Waits
      <4>2. Writing(r.c) /\ Unserved(r.c)
        BY <4>1 DEF NonceChecked, Writing, Active, Unserved
      <4>3. Alone(r.c) /\ ~call[r.c].outrun => accepted < r.nonce
        BY <2>1, <4>1, <4>2 DEF OrderInv, AheadInv, Ahead
      <4>4. accepted \in Nat
        BY <1>0 DEF RestType
      <4> QED
        BY <2>1, <4>1, <4>2, <4>3, <4>4 DEF Alone, Excused
    <3> QED
      BY <2>1, <2>2, <3>1, <3>2, ServedKeepsOrder
  <2>3. CASE /\ accepted' = IF NonceChecked(call[r.c].op) THEN r.nonce ELSE accepted
             /\ \E reply : Deliver(r, reply, 0) /\ reply.means # "stale"
    <3>1. PICK reply : Deliver(r, reply, 0) /\ reply.means # "stale"
      BY <2>3
    <3>2. "stale" \notin Tells(reply)
      BY <3>1 DEF Tells
    <3> QED
      BY <2>1, <2>3, <3>1, <3>2, ServedKeepsOrder
  <2> QED
    BY <1>0, <1>2, <2>2, <2>3, ServeCases
<1>3. CASE Restart
  <2>1. replies' = {} /\ UNCHANGED <<wire, accepted, issued>>
    BY <1>3 DEF Restart, server
  <2>2. \A c \in Calls : /\ call'[c].pc \in {"idle", "done"} /\ call'[c].rival = call[c].rival /\ call'[c].heard = call[c].heard
                         /\ call'[c].outrun = call[c].outrun /\ call'[c].nonce \in {0, call[c].nonce}
    BY <1>0, <1>3, EndedIs DEF Restart, RestType, Active, Ends, Verdicts
  <2>3. issued \in Nat
    BY <1>0 DEF RestType
  <2> QED
    BY <2>1, <2>2, <2>3 DEF OrderInv, NumberInv, AloneInv, AheadInv, Alone, Writing, Active, StaleInv, Excused
<1>4. CASE Tick
  BY <1>4 DEF Tick, process, server, OrderInv, NumberInv, AloneInv, AheadInv, Ahead, Alone, Writing, Active, StaleInv, Excused,
     NonceChecked, Unserved
<1> QED
  BY <1>1, <1>2, <1>3, <1>4

LEMMA StepOrder ==
    ASSUME BaseInv, BaseInv', SentInv, NonceInv, OrderInv, [Next]_vars
    PROVE  OrderInv'
<1>1. ASSUME NEW c \in Calls, CallStep(c) PROVE OrderInv'
  BY <1>1, StepForms, StartKeepsOrder, EndKeepsOrder, GoesOnKeepsOrder
<1>2. CASE UNCHANGED vars
  BY <1>2 DEF vars, process, server, OrderInv, NumberInv, AloneInv, AheadInv, Ahead, Alone, Writing, Active, StaleInv, Excused,
     NonceChecked, Unserved
<1> QED
  BY <1>1, <1>2, WorldStepKeepsOrder DEF Next

\* A write that no other write overlapped is never refused for its nonce, whatever earlier writes and
\* earlier processes left on the wire and whatever reads ran beside it, except where it was outrun: an
\* earlier process had issued nonces up to where neither its clock reading nor the new counter had come.
THEOREM LoneWritesAreInOrder == Spec => []RefusedOnlyOverlapped
<1>1. Init => NonceInv /\ OrderInv
  BY DEF Init, Fresh, NonceInv, OrderInv, NumberInv, AloneInv, AheadInv, Alone, Writing, Active, StaleInv
<1>2. BaseInv /\ SentInv /\ NonceInv /\ OrderInv /\ [Next]_vars => (BaseInv /\ SentInv /\ NonceInv /\ OrderInv)'
  BY StepBase, StepSent, StepNonces, StepOrder
<1>3. OrderInv => RefusedOnlyOverlapped
  BY DEF OrderInv, StaleInv, Excused, RefusedOnlyOverlapped
<1> QED
  BY <1>1, <1>2, <1>3, InitBase, InitSent, PTL DEF Spec
==============================================================================
