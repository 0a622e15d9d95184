------------------------- MODULE UpstreamCallProofs -------------------------
(***************************************************************************)
(* Proofs about UpstreamCall, for any hosts, allowlist, statuses, limits   *)
(* and times.                                                              *)
(***************************************************************************)
EXTENDS UpstreamCall, TLAPS

(* What holds of the call in flight: it is the latest, its URL has been    *)
(* validated, its entry is up to date, and its deadline is what Budget     *)
(* gave it.                                                                *)
FlightInv ==
  call # NoCall =>
    /\ Len(log) > 0 /\ call.index = Len(log) /\ pipe # call.index
    /\ call.host \in AllowHosts
    /\ seen.given.scheme = "http" /\ seen.given.host = call.host
    /\ seen.told = Unanswered
    /\ Latest.api = call.api /\ Latest.host = call.host
    /\ Latest.redirects = call.redirects

DeadlineInv ==
  call # NoCall =>
    /\ call.until = call.deadline
    /\ now <= call.deadline
    /\ call.deadline <= seen.begin + seen.asked
    /\ seen.begin + MarginShare <= ScriptTime => call.deadline < ScriptTime

HopsInv ==
  /\ call.phase = "sending" => Len(seen.hops) = call.redirects
  /\ call.phase \in {"awaiting", "reading"} =>
       Len(seen.hops) = call.redirects + 1 /\ Last(seen.hops) = call.host

AnswerInv ==
  /\ seen.told # Unanswered => Len(log) > 0
  /\ Failed => pipe # Len(log)

Inv ==
  /\ TypeOK /\ FlightInv /\ DeadlineInv /\ HopsInv /\ AnswerInv
  /\ OnlyAllowedHosts /\ CallsKeepTheirTime /\ EntriesAreTruthful /\ CodesAreTruthful

----------------------------------------------------------------------------
(* A call in flight is a record of Calls with all its fields.              *)
FlightType ==
  [phase : {"sending", "awaiting", "reading"}, api : Apis, index : 1..MaxCalls,
   host : Hosts, deadline : 0..ScriptTime, until : 0..ScriptTime,
   redirects : 0..MaxRedirects, status : Statuses \cup {0}]

LEMMA Phases ==
  ASSUME call \in Calls
  PROVE  /\ call # NoCall <=> call \in FlightType
         /\ call = NoCall <=> call.phase = "none"
         /\ call # NoCall <=> call.phase \in {"sending", "awaiting", "reading"}
BY DEF Calls, NoCall, FlightType

LEMMA Limits ==
  /\ MaxRedirects \in Nat /\ ScriptTime \in Nat /\ MaxCalls \in Nat
  /\ MarginShare \in Nat \ {0} /\ MarginCap \in Nat \ {0} /\ DefaultTimeout \in Nat \ {0}
  /\ \A t \in Timeouts \cup {DefaultTimeout} : t \in Nat \ {0}
  /\ AllowHosts \subseteq Hosts
  /\ \A status \in Statuses : status \in Nat
BY LimitsAssumption DEF LimitsAssumption

(* The outcomes are different from each other.                             *)
LEMMA OutcomeFacts ==
  /\ Unanswered \notin Failures /\ Response \notin Failures /\ Stream \notin Failures
  /\ Unanswered # Response /\ Unanswered # Stream /\ Response # Stream
  /\ \A f \in Failures : f.kind \in {"none", "dns", "timeout", "transport"}
  /\ {Policy, InvalidUrl, Redirect, Status, TimeoutError, Transport("dns"), Transport("transport")}
       \subseteq Failures
  /\ Policy.code = "script_error" /\ TimeoutError.code = "upstream_unreachable"
  /\ \A kind \in {"dns", "timeout", "transport"} : Transport(kind).code = "upstream_unreachable"
  /\ Status \notin {Policy, InvalidUrl, Redirect, TimeoutError, Transport("dns"), Transport("transport")}
  /\ TimeoutError \notin {Policy, InvalidUrl, Redirect, Status}
BY DEF Failures, Unanswered, Response, Stream, Policy, InvalidUrl, Redirect, Status,
       TimeoutError, Transport, Outcome

(* The budget of a call is a time: at most what was asked and what is      *)
(* left, and less than what is left unless the margin rounds to nothing.   *)
LEMMA BudgetFacts ==
  ASSUME now \in 0..ScriptTime, NEW requested \in Nat \ {0}
  PROVE  /\ Budget(requested) \in Nat
         /\ Budget(requested) <= requested
         /\ now + Budget(requested) <= ScriptTime
         /\ now + MarginShare <= ScriptTime => now + Budget(requested) < ScriptTime
<1> DEFINE remaining == ScriptTime - now
           share == remaining \div MarginShare
<1>1. remaining \in Nat /\ MarginShare \in Nat \ {0} /\ MarginCap \in Nat \ {0}
  BY Limits
<1>2. share \in Nat /\ share <= remaining /\ (MarginShare <= remaining => share >= 1)
  <2>1. share \in Int /\ MarginShare * share <= remaining /\ remaining < MarginShare * (share + 1)
    BY <1>1, Z3
  <2>2. share >= 0
    BY <1>1, <2>1, Z3
  <2>3. share <= remaining
    BY <1>1, <2>1, <2>2, Z3
  <2>4. MarginShare <= remaining => share >= 1
    BY <1>1, <2>1, <2>2, Z3
  <2> QED
    BY <2>1, <2>2, <2>3, <2>4
<1>3. ReplyMargin(remaining) \in Nat /\ ReplyMargin(remaining) <= remaining
  BY <1>1, <1>2 DEF ReplyMargin
<1>4. MarginShare <= remaining => ReplyMargin(remaining) >= 1
  BY <1>1, <1>2 DEF ReplyMargin
<1> QED
  BY <1>1, <1>3, <1>4, Limits DEF Budget, Remaining

LEMMA InitInv == Init => Inv
<1> SUFFICES ASSUME Init PROVE Inv
  OBVIOUS
<1>1. TypeOK
  <2>1. now \in 0..ScriptTime /\ over \in BOOLEAN /\ call \in Calls /\ pipe \in 0..Len(log)
        /\ log \in Seq(CallRecord) /\ Len(log) <= MaxCalls
    <3>1. log = <<>> /\ <<>> \in Seq(CallRecord) /\ Len(<<>>) = 0
      BY DEF Init
    <3>2. Len(log) = 0
      BY <3>1
    <3>3. call \in Calls
      BY DEF Init, Calls
    <3>4. log \in Seq(CallRecord)
      BY <3>1
    <3>5. now = 0 /\ pipe = 0
      BY DEF Init
    <3>6. over \in BOOLEAN
      BY DEF Init
    <3>7. now \in 0..ScriptTime /\ pipe \in 0..Len(log) /\ Len(log) <= MaxCalls
      BY <3>2, <3>5, Limits
    <3> QED
      BY <3>3, <3>4, <3>6, <3>7
  <2>2. 0 \in 0..ScriptTime /\ <<>> \in Seq(Hosts) /\ Unanswered \in Outcomes
    BY Limits DEF Outcomes
  <2> QED
    BY <2>1, <2>2 DEF Init, TypeOK
<1>2. call.phase = "none" /\ call = NoCall /\ seen.told = Unanswered /\ seen.hops = <<>> /\ log = <<>>
      /\ pipe = 0 /\ seen.end = 0 /\ seen.begin = 0 /\ seen.asked = DefaultTimeout
  BY DEF Init, NoCall
<1>3. CallsKeepTheirTime
  BY <1>2, Limits DEF CallsKeepTheirTime
<1>a. OnlyAllowedHosts
  BY <1>2, Limits DEF OnlyAllowedHosts, Range
<1>4. FlightInv /\ DeadlineInv /\ HopsInv /\ AnswerInv
  BY <1>2, OutcomeFacts DEF FlightInv, DeadlineInv, HopsInv, AnswerInv, Failed
<1>5. EntriesAreTruthful /\ CodesAreTruthful
  BY <1>2, OutcomeFacts
  DEF EntriesAreTruthful, ChainIsTold, CodesAreTruthful, Failed, Failures, Status, Stream, Outcome,
      Unanswered
<1> QED
  BY <1>1, <1>3, <1>a, <1>4, <1>5 DEF Inv

----------------------------------------------------------------------------
LEMMA FinishedFacts ==
  ASSUME NEW record \in CallRecord, NEW outcome \in Outcomes
  PROVE  /\ Finished(record, outcome) \in CallRecord
         /\ Finished(record, outcome).ended
         /\ Finished(record, outcome).api = record.api
         /\ Finished(record, outcome).host = record.host
         /\ Finished(record, outcome).status = record.status
         /\ Finished(record, outcome).redirects = record.redirects
         /\ outcome \in Failures =>
              /\ Finished(record, outcome).error = outcome.code
              /\ Finished(record, outcome).kind = outcome.kind
BY OutcomeFacts DEF Finished, CallRecord

(* The end of a call keeps the invariant, whatever it is, if the script is *)
(* told the truth.  The call may have been given a last location.          *)
LEMMA EndStep ==
  ASSUME Inv, call # NoCall,
         NEW record \in CallRecord, NEW outcome \in Failures \cup {Response},
         NEW given \in Urls \cup {NotUrl},
         log' = [log EXCEPT ![call.index] = Finished(record, outcome)],
         seen' = [seen EXCEPT !.given = given, !.told = outcome, !.end = now],
         call' = NoCall, UNCHANGED <<now, over, pipe>>,
         record.api = Entry.api, record.host = Entry.host, record.redirects = Entry.redirects,
         given = seen.given \/ call.phase # "sending",
         call.phase = "sending" => outcome = TimeoutError,
         call.api = "http.get" /\ outcome \in Failures =>
           outcome.code \in {"script_error", "upstream_unreachable"},
         outcome \in Failures /\ given.scheme = "http" /\ given.host \notin AllowHosts =>
           \/ outcome = Policy
           \/ outcome = Redirect /\ Len(seen.hops) = MaxRedirects + 1,
         outcome = Status => ~IsRedirect(record.status) /\ ~IsSuccess(record.status)
  PROVE  Inv'
<1> DEFINE i == call.index
<1>1. call \in FlightType /\ call.phase \in {"sending", "awaiting", "reading"} /\ now \in 0..ScriptTime
  BY Phases DEF Inv, TypeOK
<1>2. /\ log \in Seq(CallRecord) /\ i = Len(log) /\ i \in DOMAIN log /\ Len(log) \in Nat
      /\ Entry = Latest /\ Latest \in CallRecord
  BY DEF Inv, TypeOK, FlightInv, Entry, Latest
<1>3. /\ Len(log') = Len(log) /\ log' \in Seq(CallRecord)
      /\ Latest' = Finished(record, outcome)
      /\ \A j \in DOMAIN log : j # i => log'[j] = log[j]
      /\ DOMAIN log' = DOMAIN log
  BY <1>2, FinishedFacts DEF Outcomes, Latest
<1>4. call'.phase = "none" /\ call' = NoCall
  BY DEF NoCall
<1>5. /\ seen'.told = outcome /\ seen'.given = given /\ seen'.end = now
      /\ seen'.hops = seen.hops /\ seen'.begin = seen.begin /\ seen'.asked = seen.asked
  BY DEF Inv, TypeOK
<1>6. TypeOK'
  BY <1>1, <1>3, <1>4 DEF Inv, TypeOK, Calls, Outcomes
<1>7. FlightInv' /\ DeadlineInv' /\ HopsInv' /\ AnswerInv'
  BY <1>2, <1>3, <1>4 DEF Inv, FlightInv, DeadlineInv, HopsInv, AnswerInv, Failed
<1>8. OnlyAllowedHosts'
  BY <1>5 DEF Inv, OnlyAllowedHosts
<1>9. CallsKeepTheirTime'
  <2>1. seen.begin \in Nat /\ seen.asked \in Nat /\ call.deadline \in Nat /\ now \in Nat
    BY <1>1, Limits DEF Inv, TypeOK, FlightType
  <2>2. /\ now <= call.deadline /\ call.deadline <= seen.begin + seen.asked
        /\ seen.begin + MarginShare <= ScriptTime => call.deadline < ScriptTime
    BY DEF Inv, DeadlineInv
  <2> QED
    BY <1>5, <2>1, <2>2, Limits DEF CallsKeepTheirTime
<1>10. EntriesAreTruthful'
  <2>1. ChainIsTold'
    <3>1. Latest'.redirects = call.redirects /\ Latest'.host = call.host
      BY <1>2, <1>3, FinishedFacts DEF Inv, FlightInv, Outcomes
    <3>2. CASE call.phase = "sending"
      BY <3>1, <3>2, <1>5 DEF Inv, HopsInv, FlightInv, ChainIsTold
    <3>3. CASE call.phase # "sending"
      BY <3>1, <3>3, <1>1, <1>5 DEF Inv, HopsInv, ChainIsTold, FlightType
    <3> QED
      BY <3>2, <3>3
  <2>2. Failed' => Latest'.error = seen'.told.code /\ Latest'.kind = seen'.told.kind
    BY <1>3, <1>5, FinishedFacts DEF Outcomes, Failed
  <2>3. ASSUME NEW j \in DOMAIN log' PROVE log'[j].ended <=> ~InFlight(j)' /\ pipe' # j
    <3>1. ~InFlight(j)'
      BY <1>4 DEF InFlight
    <3>2. CASE j = i
      <4>1. pipe # i
        BY <1>2 DEF Inv, EntriesAreTruthful, InFlight, FlightInv
      <4> QED
        BY <3>1, <3>2, <4>1, <1>2, <1>3, FinishedFacts DEF Outcomes
    <3>3. CASE j # i
      BY <3>1, <3>3, <1>3 DEF Inv, EntriesAreTruthful, InFlight
    <3> QED
      BY <3>2, <3>3
  <2> QED
    BY <2>1, <2>2, <2>3 DEF EntriesAreTruthful
<1>11. CodesAreTruthful'
  <2>1. Latest'.api = call.api /\ Latest'.status = record.status
    BY <1>2, <1>3, FinishedFacts DEF Inv, FlightInv, Outcomes
  <2>2. Failed' => outcome \in Failures
    BY <1>5 DEF Failed
  <2>3. call.phase # "sending" => seen.hops # <<>>
    BY <1>1 DEF Inv, HopsInv, FlightType
  <2>4. Failed' /\ seen'.hops = <<>> => seen'.told \in {Policy, InvalidUrl, TimeoutError}
    BY <1>5, <2>3
  <2>5. Failed' /\ Latest'.api = "http.get" =>
          seen'.told.code \in {"script_error", "upstream_unreachable"}
    BY <1>5, <2>1, <2>2
  <2>6. Failed' /\ seen'.given.scheme = "http" /\ seen'.given.host \notin AllowHosts =>
          \/ seen'.told = Policy
          \/ seen'.told = Redirect /\ Len(seen'.hops) = MaxRedirects + 1
    BY <1>5, <2>2
  <2>7. /\ seen'.told = Status => ~IsRedirect(Latest'.status) /\ ~IsSuccess(Latest'.status)
        /\ seen'.told # Stream
    BY <1>5, <2>1, OutcomeFacts
  <2> QED
    BY <2>4, <2>5, <2>6, <2>7 DEF CodesAreTruthful
<1> QED
  BY <1>6, <1>7, <1>8, <1>9, <1>10, <1>11 DEF Inv

----------------------------------------------------------------------------
LEMMA EntryFacts ==
  ASSUME Inv, call # NoCall
  PROVE  /\ call \in FlightType /\ Entry \in CallRecord /\ Entry = Latest
         /\ call.index \in DOMAIN log /\ call.index = Len(log)
         /\ seen.given \in Urls \cup {NotUrl}
         /\ \A outcome, end : [seen EXCEPT !.told = outcome, !.end = end]
              = [seen EXCEPT !.given = seen.given, !.told = outcome, !.end = end]
         /\ seen.given.scheme = "http" /\ seen.given.host \in AllowHosts
<1>1. call \in FlightType /\ log \in Seq(CallRecord) /\ Len(log) > 0 /\ call.index = Len(log)
  BY Phases DEF Inv, TypeOK, FlightInv
<1>2. call.index \in DOMAIN log /\ Entry = Latest /\ Entry \in CallRecord
  BY <1>1 DEF Entry, Latest
<1>3. seen.given.scheme = "http" /\ seen.given.host \in AllowHosts
  BY DEF Inv, FlightInv
<1>4. seen.given \in Urls \cup {NotUrl}
  BY <1>3 DEF Inv, TypeOK, Malformed
<1>5. \A outcome, end : [seen EXCEPT !.told = outcome, !.end = end]
        = [seen EXCEPT !.given = seen.given, !.told = outcome, !.end = end]
  BY DEF Inv, TypeOK
<1> QED
  BY <1>1, <1>2, <1>3, <1>4, <1>5

(* Every step that fails the call, or reads the response of a get, is an   *)
(* instance of EndStep.                                                    *)
LEMMA FailStep ==
  ASSUME Inv,
         \/ SendTooLate \/ TimedOut \/ GetRead
         \/ \E outcome \in Failures : NetworkFails(outcome)
         \/ \E status \in Statuses : RedirectedNowhere(status) \/ PipeRefused(status)
  PROVE  Inv'
<1>1. call.phase \in {"sending", "awaiting", "reading"} /\ call # NoCall
  BY Phases DEF Inv, TypeOK, SendTooLate, TimedOut, GetRead, NetworkFails, RedirectedNowhere,
                PipeRefused
<1>2. /\ call \in FlightType /\ Entry \in CallRecord
      /\ seen.given \in Urls \cup {NotUrl} /\ seen.given.host \in AllowHosts
  BY <1>1, EntryFacts
<1> DEFINE Told(record, outcome) ==
      /\ log' = [log EXCEPT ![call.index] = Finished(record, outcome)]
      /\ seen' = [seen EXCEPT !.given = seen.given, !.told = outcome, !.end = now]
      /\ call' = NoCall /\ UNCHANGED <<now, over, pipe>>
<1>3. ASSUME NEW record, NEW outcome, End(record, outcome) PROVE Told(record, outcome)
  BY <1>1, <1>3, EntryFacts DEF End
<1>4. ASSUME NEW outcome \in Failures, Told(Entry, outcome),
             outcome \in {TimeoutError, Policy, Transport("dns"), Transport("transport")},
             call.phase = "sending" => outcome = TimeoutError
      PROVE  Inv'
  <2>1. outcome.code \in {"script_error", "upstream_unreachable"} /\ outcome # Status
    BY <1>4, OutcomeFacts DEF TimeoutError
  <2> QED
    BY <1>1, <1>2, <1>4, <2>1, EndStep
<1>5. CASE SendTooLate
  <2>1. Told(Entry, TimeoutError)
    BY <1>3, <1>5 DEF SendTooLate
  <2> QED
    BY <1>4, <2>1, OutcomeFacts
<1>6. CASE TimedOut
  <2>1. Told(Entry, TimeoutError)
    BY <1>3, <1>6 DEF TimedOut
  <2> QED
    BY <1>4, <2>1, OutcomeFacts
<1>7. ASSUME NEW outcome \in Failures, NetworkFails(outcome) PROVE Inv'
  <2>1. /\ Told(Entry, outcome) /\ outcome \in {Policy, Transport("dns"), Transport("transport")}
        /\ call.phase # "sending"
    BY <1>3, <1>7 DEF NetworkFails
  <2> QED
    BY <1>4, <2>1
<1>8. CASE GetRead
  <2> DEFINE record == [Entry EXCEPT !.status = call.status]
  <2>1. record \in CallRecord /\ record.api = Entry.api /\ record.host = Entry.host
        /\ record.redirects = Entry.redirects
    BY <1>2 DEF CallRecord, FlightType
  <2>2. Told(record, Response) /\ call.phase = "reading"
    BY <1>3, <1>8 DEF GetRead
  <2> HIDE DEF record
  <2> QED
    BY <1>1, <1>2, <2>1, <2>2, EndStep, OutcomeFacts
<1>9. ASSUME NEW status \in Statuses, RedirectedNowhere(status) PROVE Inv'
  <2>1. Told(Entry, Redirect) /\ call.phase = "awaiting" /\ call.api = "http.pipe"
    BY <1>3, <1>9 DEF RedirectedNowhere
  <2> QED
    BY <1>1, <1>2, <2>1, EndStep, OutcomeFacts
<1>10. ASSUME NEW status \in Statuses, PipeRefused(status) PROVE Inv'
  <2> DEFINE record == [Entry EXCEPT !.status = status]
  <2>1. record \in CallRecord /\ record.api = Entry.api /\ record.host = Entry.host
        /\ record.redirects = Entry.redirects /\ record.status = status
    BY <1>2 DEF CallRecord
  <2>2. /\ Told(record, Status) /\ call.phase = "awaiting" /\ call.api = "http.pipe"
        /\ ~IsRedirect(status) /\ ~IsSuccess(status)
    BY <1>3, <1>10 DEF PipeRefused
  <2> HIDE DEF record
  <2> QED
    BY <1>1, <1>2, <2>1, <2>2, EndStep, OutcomeFacts
<1> QED
  BY <1>5, <1>6, <1>7, <1>8, <1>9, <1>10

----------------------------------------------------------------------------
(* A URL that Validate lets pass is http and its host is listed; whatever  *)
(* it refuses is an error.                                                 *)
LEMMA ValidateFacts ==
  ASSUME NEW url, NEW badScheme \in Failures
  PROVE  /\ Validate(url, badScheme) \in Failures \cup {Unanswered}
         /\ Validate(url, badScheme) \in {badScheme, Policy, Unanswered}
         /\ Validate(url, badScheme) = Unanswered => url.scheme = "http" /\ url.host \in AllowHosts
         /\ url.scheme = "http" /\ url.host \notin AllowHosts => Validate(url, badScheme) = Policy
BY OutcomeFacts DEF Validate

(* A refused call is refused for a reason; an accepted one has a budget.   *)
LEMMA ObjectionFacts ==
  ASSUME Inv, NEW api \in Apis, NEW p \in Payloads(api)
  PROVE  /\ Objection(api, p) \in Failures \cup {Unanswered}
         /\ Objection(api, p) \in {Policy, InvalidUrl, TimeoutError, Unanswered}
         /\ api = "http.get" => Objection(api, p) \in {Policy, TimeoutError, Unanswered}
         /\ p.url.scheme = "http" /\ p.url.host \notin AllowHosts => Objection(api, p) = Policy
         /\ Objection(api, p) = Unanswered =>
              p.url \in Urls /\ p.url.scheme = "http" /\ p.url.host \in AllowHosts
<1>1. /\ BadUrl(api) \in {Policy, InvalidUrl} /\ BadUrl(api) \in Failures
      /\ api = "http.get" => BadUrl(api) = Policy
  BY OutcomeFacts DEF BadUrl
<1>2. p.url \in Urls \cup {NotUrl, Malformed}
  BY DEF Payloads
<1>3. Malformed.scheme = "malformed" /\ NotUrl.scheme = "unparsable"
  BY DEF Malformed, NotUrl
<1>4. CASE p.url \in {Malformed, NotUrl}
  BY <1>1, <1>3, <1>4, OutcomeFacts DEF Objection
<1>5. CASE p.url \in Urls \ {Malformed, NotUrl}
  <2> DEFINE refusal == Validate(p.url, BadUrl(api))
  <2>1. /\ refusal \in Failures \cup {Unanswered}
        /\ refusal \in {BadUrl(api), Policy, Unanswered}
        /\ refusal = Unanswered => p.url.scheme = "http" /\ p.url.host \in AllowHosts
        /\ p.url.scheme = "http" /\ p.url.host \notin AllowHosts => refusal = Policy
    BY <1>1, ValidateFacts
  <2>2. Objection(api, p) \in {refusal, TimeoutError, Unanswered}
        /\ (refusal # Unanswered => Objection(api, p) = refusal)
    BY <1>5 DEF Objection
  <2> HIDE DEF refusal
  <2> QED
    BY <1>1, <1>5, <2>1, <2>2, OutcomeFacts
<1> QED
  BY <1>2, <1>4, <1>5

LEMMA BeginStep ==
  ASSUME Inv, NEW api \in Apis, NEW p \in Payloads(api), Begin(api, p)
  PROVE  Inv'
<1> DEFINE objection == Objection(api, p)
           record == [api |-> api, host |-> p.url.host,
                      status |-> 0, redirects |-> 0, ended |-> FALSE,
                      error |-> NoError, kind |-> "none"]
           entry == IF objection \in Failures THEN Finished(record, objection) ELSE record
           deadline == now + Budget(Asked(p))
           flight == [phase |-> "sending", api |-> api, index |-> Len(log) + 1,
                      host |-> p.url.host, deadline |-> deadline, until |-> deadline,
                      redirects |-> 0, status |-> 0]
<1>1. /\ call = NoCall /\ Len(log) < MaxCalls
      /\ log' = Append(log, entry)
      /\ seen' = [begin |-> now, asked |-> Asked(p), given |-> p.url, hops |-> <<>>,
                  told |-> objection, end |-> now]
      /\ call' = (IF objection \in Failures THEN NoCall ELSE flight)
      /\ UNCHANGED <<now, over, pipe>>
  BY DEF Begin
<1>2. /\ now \in 0..ScriptTime /\ pipe \in 0..Len(log) /\ log \in Seq(CallRecord)
      /\ Len(log) \in Nat /\ pipe \in Nat
  BY DEF Inv, TypeOK
<1>3. Asked(p) \in Timeouts \cup {DefaultTimeout} /\ Asked(p) \in Nat \ {0}
  BY Limits DEF Asked, Payloads, Default
<1>4. /\ deadline \in 0..ScriptTime /\ now <= deadline /\ deadline <= now + Asked(p)
      /\ now + MarginShare <= ScriptTime => deadline < ScriptTime
  <2>1. /\ Budget(Asked(p)) \in Nat /\ Budget(Asked(p)) <= Asked(p)
        /\ now + Budget(Asked(p)) <= ScriptTime
        /\ now + MarginShare <= ScriptTime => now + Budget(Asked(p)) < ScriptTime
    BY <1>2, <1>3, BudgetFacts
  <2> QED
    BY <1>2, <1>3, <2>1, Limits
<1>5. /\ p.url \in Urls \cup {NotUrl, Malformed}
      /\ p.url.host \in Hosts \cup {NoHost}
  BY DEF Payloads, Urls, NotUrl, Malformed
<1>6. /\ objection \in Failures \cup {Unanswered}
      /\ objection \in {Policy, InvalidUrl, TimeoutError, Unanswered}
      /\ api = "http.get" => objection \in {Policy, TimeoutError, Unanswered}
      /\ p.url.scheme = "http" /\ p.url.host \notin AllowHosts => objection = Policy
      /\ objection = Unanswered =>
           p.url \in Urls /\ p.url.scheme = "http" /\ p.url.host \in AllowHosts
  BY ObjectionFacts
<1>7. record \in CallRecord /\ record.redirects = 0 /\ record.host = p.url.host /\ record.api = api
      /\ ~record.ended
  BY <1>5, Limits DEF CallRecord, StreamErrors, NoError
<1>8. /\ entry \in CallRecord /\ entry.redirects = 0 /\ entry.host = p.url.host /\ entry.api = api
      /\ entry.ended <=> objection \in Failures
      /\ objection \in Failures => entry.error = objection.code /\ entry.kind = objection.kind
  BY <1>6, <1>7, FinishedFacts DEF Outcomes
<1>9. /\ log' \in Seq(CallRecord) /\ Len(log') = Len(log) + 1
      /\ Latest' = entry
      /\ DOMAIN log' = 1..Len(log) + 1 /\ DOMAIN log = 1..Len(log)
      /\ \A i \in DOMAIN log : log'[i] = log[i]
  BY <1>1, <1>2, <1>8 DEF Latest
<1>10. call' \in Calls
  <2>1. objection \notin Failures => flight \in FlightType
    BY <1>1, <1>2, <1>4, <1>6, Limits DEF FlightType
  <2> QED
    BY <1>1, <2>1 DEF Calls, FlightType
<1>11. call'.phase \in {"none", "sending"} /\ (call' = NoCall <=> objection \in Failures)
  BY <1>1 DEF NoCall
<1> HIDE DEF record, entry
<1>12. TypeOK'
  <2>1. <<>> \in Seq(Hosts) /\ objection \in Outcomes
    BY <1>6 DEF Outcomes
  <2>2. seen' \in [begin : 0..ScriptTime, asked : Timeouts \cup {DefaultTimeout},
               given : Urls \cup {NotUrl, Malformed}, hops : Seq(Hosts),
               told : Outcomes, end : 0..ScriptTime]
    BY <1>1, <1>2, <1>3, <1>5, <2>1
  <2> QED
    BY <1>1, <1>2, <1>9, <1>10, <2>2, Limits DEF Inv, TypeOK
<1>13. FlightInv' /\ DeadlineInv' /\ HopsInv'
  <2>1. CASE objection \in Failures
    <3>1. call' = NoCall /\ call'.phase = "none"
      BY <1>1, <2>1 DEF NoCall
    <3> QED
      BY <3>1 DEF FlightInv, DeadlineInv, HopsInv
  <2>2. CASE objection = Unanswered
    <3>1. objection \notin Failures
      BY <2>2, OutcomeFacts
    <3>2. call' = flight
      BY <1>1, <3>1
    <3>3. FlightInv'
      BY <1>1, <1>2, <1>6, <1>8, <1>9, <2>2, <3>2 DEF FlightInv
    <3>4. DeadlineInv'
      BY <1>1, <1>4, <3>2 DEF DeadlineInv
    <3>5. HopsInv'
      BY <1>1, <3>2 DEF HopsInv
    <3> QED
      BY <3>3, <3>4, <3>5
  <2> QED
    BY <1>6, <2>1, <2>2
<1>14. AnswerInv'
  BY <1>1, <1>2, <1>9 DEF AnswerInv, Failed
<1>15. OnlyAllowedHosts' /\ CallsKeepTheirTime'
  BY <1>1, <1>2, <1>3, Limits DEF OnlyAllowedHosts, CallsKeepTheirTime, Range
<1>16. EntriesAreTruthful'
  <2>1. ChainIsTold' /\ (Failed' => Latest'.error = seen'.told.code /\ Latest'.kind = seen'.told.kind)
    BY <1>1, <1>8, <1>9 DEF ChainIsTold, Failed
  <2>2. ASSUME NEW i \in DOMAIN log' PROVE log'[i].ended <=> ~InFlight(i)' /\ pipe' # i
    <3>1. CASE i \in DOMAIN log
      <4>1. log[i].ended <=> pipe # i
        BY <1>1, <3>1 DEF Inv, EntriesAreTruthful, InFlight
      <4>2. ~InFlight(i)'
        BY <1>1, <1>2, <1>9, <3>1 DEF InFlight
      <4> QED
        BY <1>1, <1>9, <3>1, <4>1, <4>2
    <3>2. CASE i = Len(log) + 1
      <4>1. log'[i] = entry /\ pipe' # i
        BY <1>1, <1>2, <1>9, <3>2 DEF Latest
      <4>2. InFlight(i)' <=> objection \notin Failures
        BY <1>1, <1>11, <3>2 DEF InFlight
      <4> QED
        BY <1>8, <4>1, <4>2
    <3> QED
      BY <1>2, <1>9, <3>1, <3>2
  <2> QED
    BY <2>1, <2>2 DEF EntriesAreTruthful
<1>17. CodesAreTruthful'
  BY <1>1, <1>6, <1>8, <1>9, OutcomeFacts DEF CodesAreTruthful, Failed
<1> QED
  BY <1>12, <1>13, <1>14, <1>15, <1>16, <1>17 DEF Inv

----------------------------------------------------------------------------
LEMMA SendStep == Inv /\ Send => Inv'
<1> SUFFICES ASSUME Inv, Send PROVE Inv'
  OBVIOUS
<1>1. call \in FlightType /\ call.phase = "sending" /\ call # NoCall
  BY Phases DEF Send, Inv, TypeOK
<1>2. /\ call' \in FlightType /\ call' # NoCall /\ call'.phase = "awaiting"
      /\ call'.until = call.deadline /\ call'.deadline = call.deadline
      /\ call'.api = call.api /\ call'.index = call.index /\ call'.host = call.host
      /\ call'.redirects = call.redirects
      /\ UNCHANGED <<now, over, pipe, log>>
  BY <1>1 DEF Send, FlightType, NoCall
<1>3. /\ seen'.hops = Append(seen.hops, call.host) /\ seen.hops \in Seq(Hosts)
      /\ seen'.told = seen.told /\ seen'.given = seen.given /\ seen'.begin = seen.begin
      /\ seen'.asked = seen.asked /\ seen'.end = seen.end
  BY DEF Send, Inv, TypeOK
<1>4. seen.told = Unanswered /\ call.host \in AllowHosts /\ Len(seen.hops) = call.redirects
  BY <1>1 DEF Inv, FlightInv, HopsInv
<1>5. /\ Len(seen'.hops) = call.redirects + 1 /\ Last(seen'.hops) = call.host
      /\ \A k \in DOMAIN seen'.hops : k \in DOMAIN seen.hops \/ seen'.hops[k] = call.host
      /\ \A k \in DOMAIN seen.hops : seen'.hops[k] = seen.hops[k]
  BY <1>1, <1>3, <1>4 DEF Last, FlightType
<1>6. TypeOK'
  <2>1. seen'.hops \in Seq(Hosts)
    BY <1>1, <1>3 DEF FlightType
  <2> QED
    BY <1>1, <1>2, <2>1 DEF Send, Inv, TypeOK, Calls, FlightType
<1>7. FlightInv' /\ DeadlineInv' /\ HopsInv' /\ AnswerInv'
  BY <1>1, <1>2, <1>3, <1>5
  DEF Inv, FlightInv, DeadlineInv, HopsInv, AnswerInv, Latest, Failed
<1>8. OnlyAllowedHosts'
  BY <1>1, <1>2, <1>3, <1>4, <1>5, Limits DEF Inv, OnlyAllowedHosts, Range, FlightType
<1>9. CallsKeepTheirTime'
  BY <1>2 DEF CallsKeepTheirTime
<1>10. EntriesAreTruthful'
  <2>1. ChainIsTold'
    BY <1>1, <1>2, <1>5 DEF Inv, FlightInv, ChainIsTold, Latest, FlightType
  <2>2. \A i : InFlight(i)' <=> InFlight(i)
    BY <1>1, <1>2 DEF InFlight
  <2> QED
    BY <1>2, <1>3, <1>4, <2>1, <2>2, OutcomeFacts DEF Inv, EntriesAreTruthful, Failed, Latest
<1>11. CodesAreTruthful'
  BY <1>2, <1>3, <1>4, OutcomeFacts DEF CodesAreTruthful, Failed
<1> QED
  BY <1>6, <1>7, <1>8, <1>9, <1>10, <1>11 DEF Inv

LEMMA GetAnsweredStep ==
  ASSUME Inv, NEW status \in Statuses, GetAnswered(status)
  PROVE  Inv'
<1>1. call \in FlightType /\ call.phase = "awaiting" /\ call # NoCall
  BY Phases DEF GetAnswered, Inv, TypeOK
<1>2. /\ call' \in FlightType /\ call' # NoCall /\ call'.phase = "reading"
      /\ call'.until = call.until /\ call'.deadline = call.deadline
      /\ call'.api = call.api /\ call'.index = call.index /\ call'.host = call.host
      /\ call'.redirects = call.redirects
      /\ UNCHANGED <<now, over, pipe, log, seen>>
  BY <1>1 DEF GetAnswered, FlightType, NoCall
<1>3. TypeOK'
  BY <1>2 DEF Inv, TypeOK, Calls, FlightType
<1>4. FlightInv' /\ DeadlineInv' /\ HopsInv' /\ AnswerInv'
  BY <1>1, <1>2 DEF Inv, FlightInv, DeadlineInv, HopsInv, AnswerInv, Latest, Failed
<1>5. OnlyAllowedHosts' /\ CallsKeepTheirTime' /\ CodesAreTruthful'
  BY <1>1, <1>2 DEF Inv, OnlyAllowedHosts, CallsKeepTheirTime, CodesAreTruthful, Failed, Latest
<1>6. EntriesAreTruthful'
  BY <1>1, <1>2 DEF Inv, EntriesAreTruthful, ChainIsTold, InFlight, Failed, Latest
<1> QED
  BY <1>3, <1>4, <1>5, <1>6 DEF Inv

(* A redirect is refused, an instance of EndStep, or followed.             *)
LEMMA RedirectedStep ==
  ASSUME Inv, NEW status \in Statuses, NEW location \in Urls \cup {NotUrl},
         Redirected(status, location)
  PROVE  Inv'
<1> DEFINE refusal == IF call.redirects >= MaxRedirects \/ location = NotUrl
                      THEN BadRedirect(call.api)
                      ELSE Validate(location, BadRedirect(call.api))
<1>1. call \in FlightType /\ call.phase = "awaiting" /\ call # NoCall
  BY Phases DEF Redirected, Inv, TypeOK
<1>2. /\ BadRedirect(call.api) \in {Policy, Redirect} /\ BadRedirect(call.api) \in Failures
      /\ call.api = "http.get" => BadRedirect(call.api) = Policy
  BY OutcomeFacts DEF BadRedirect
<1>3. /\ refusal \in Failures \cup {Unanswered} /\ refusal \in {Policy, Redirect, Unanswered}
      /\ call.api = "http.get" => refusal \in {Policy, Unanswered}
      /\ location.scheme = "http" /\ location.host \notin AllowHosts =>
           refusal = Policy \/ (refusal = Redirect /\ call.redirects >= MaxRedirects)
      /\ refusal = Unanswered =>
           /\ call.redirects < MaxRedirects /\ location \in Urls
           /\ location.scheme = "http" /\ location.host \in AllowHosts
  <2>1. CASE call.redirects >= MaxRedirects \/ location = NotUrl
    <3>1. refusal = BadRedirect(call.api)
      BY <2>1
    <3>2. location = NotUrl => location.scheme # "http"
      BY DEF NotUrl
    <3> QED
      BY <1>2, <2>1, <3>1, <3>2, OutcomeFacts
  <2>2. CASE ~(call.redirects >= MaxRedirects) /\ location # NotUrl
    <3>1. refusal = Validate(location, BadRedirect(call.api))
      BY <2>2
    <3>2. call.redirects < MaxRedirects /\ location \in Urls
      BY <1>1, <2>2, Limits DEF FlightType
    <3> QED
      BY <1>2, <3>1, <3>2, ValidateFacts, OutcomeFacts
  <2> QED
    BY <2>1, <2>2
<1>4. Redirected(status, location) =>
        /\ UNCHANGED <<now, over, pipe>>
        /\ IF refusal \in Failures
           THEN /\ log' = [log EXCEPT ![call.index] = Finished(Entry, refusal)]
                /\ seen' = [[seen EXCEPT !.given = location] EXCEPT !.told = refusal, !.end = now]
                /\ call' = NoCall
           ELSE /\ log' = [log EXCEPT ![call.index].redirects = call.redirects + 1,
                                      ![call.index].host = location.host]
                /\ seen' = [seen EXCEPT !.given = location]
                /\ call' = [call EXCEPT !.phase = "sending", !.host = location.host,
                                        !.redirects = @ + 1]
  BY <1>1, EntryFacts DEF Redirected, Entry
<1> HIDE DEF refusal
<1>5. CASE refusal \in Failures
  <2>1. seen' = [seen EXCEPT !.given = location, !.told = refusal, !.end = now]
    BY <1>4, <1>5
  <2>2. refusal = Redirect /\ call.redirects >= MaxRedirects => Len(seen.hops) = MaxRedirects + 1
    BY <1>1, Limits DEF Inv, HopsInv, FlightType
  <2>3. /\ log' = [log EXCEPT ![call.index] = Finished(Entry, refusal)]
        /\ call' = NoCall /\ UNCHANGED <<now, over, pipe>>
    BY <1>4, <1>5
  <2>4. /\ Entry \in CallRecord /\ call.phase # "sending" /\ refusal # Status
        /\ refusal \in Failures \cup {Response}
    BY <1>1, <1>3, <1>5, EntryFacts, OutcomeFacts
  <2>5. call.api = "http.get" => refusal.code \in {"script_error", "upstream_unreachable"}
    BY <1>3, <1>5, OutcomeFacts
  <2>6. location.scheme = "http" /\ location.host \notin AllowHosts =>
          refusal = Policy \/ (refusal = Redirect /\ Len(seen.hops) = MaxRedirects + 1)
    BY <1>3, <2>2
  <2> QED
    BY <1>1, <2>1, <2>3, <2>4, <2>5, <2>6, EndStep
<1>6. CASE refusal = Unanswered
  <2>1. /\ UNCHANGED <<now, over, pipe>>
        /\ log' = [log EXCEPT ![call.index].redirects = call.redirects + 1,
                              ![call.index].host = location.host]
        /\ seen' = [seen EXCEPT !.given = location]
        /\ call' = [call EXCEPT !.phase = "sending", !.host = location.host, !.redirects = @ + 1]
    BY <1>4, <1>6, OutcomeFacts
  <2>2. /\ call.redirects < MaxRedirects /\ location \in Urls
        /\ location.scheme = "http" /\ location.host \in AllowHosts
    BY <1>3, <1>6
  <2>3. /\ call' \in FlightType /\ call' # NoCall /\ call'.phase = "sending"
        /\ call'.until = call.until /\ call'.deadline = call.deadline
        /\ call'.api = call.api /\ call'.index = call.index /\ call'.host = location.host
        /\ call'.redirects = call.redirects + 1
    <3>1. location.host \in Hosts /\ call.redirects + 1 \in 0..MaxRedirects
      BY <1>1, <2>2, Limits DEF FlightType, Urls
    <3>2. call' \in FlightType
      BY <1>1, <2>1, <3>1 DEF FlightType
    <3> QED
      BY <1>1, <2>1, <3>2 DEF FlightType, NoCall
  <2>4. /\ seen'.hops = seen.hops /\ seen'.given = location /\ seen'.told = seen.told
        /\ seen'.begin = seen.begin /\ seen'.asked = seen.asked /\ seen'.end = seen.end
        /\ seen.told = Unanswered
    BY <1>1, <2>1 DEF Inv, TypeOK, FlightInv
  <2>5. /\ log' \in Seq(CallRecord) /\ Len(log') = Len(log) /\ DOMAIN log' = DOMAIN log
        /\ \A i \in DOMAIN log : i # call.index => log'[i] = log[i]
        /\ Latest' = [Entry EXCEPT !.redirects = call.redirects + 1, !.host = location.host]
        /\ call.index \in DOMAIN log /\ call.index = Len(log)
    <3>1. [Entry EXCEPT !.redirects = call.redirects + 1, !.host = location.host] \in CallRecord
      <4>1. location.host \in Hosts /\ call.redirects + 1 \in 0..MaxRedirects
        BY <1>1, <2>2, Limits DEF FlightType, Urls
      <4>2. Entry \in CallRecord
        BY <1>1, EntryFacts
      <4> QED
        BY <4>1, <4>2 DEF CallRecord
    <3>2. log' = [log EXCEPT ![call.index] =
                    [Entry EXCEPT !.redirects = call.redirects + 1, !.host = location.host]]
      BY <1>1, <2>1, EntryFacts DEF Entry
    <3>3. log \in Seq(CallRecord) /\ call.index \in DOMAIN log /\ call.index = Len(log)
      BY <1>1, EntryFacts DEF Inv, TypeOK
    <3> QED
      BY <3>1, <3>2, <3>3 DEF Latest
  <2>6. /\ Latest'.redirects = call.redirects + 1 /\ Latest'.host = location.host
        /\ Latest'.api = Latest.api /\ Latest'.status = Latest.status /\ Latest'.ended = Latest.ended
    BY <1>1, <2>5, EntryFacts DEF CallRecord
  <2>7. TypeOK'
    BY <2>1, <2>2, <2>3, <2>5 DEF Inv, TypeOK, Calls, FlightType
  <2>8. FlightInv' /\ DeadlineInv' /\ HopsInv' /\ AnswerInv'
    BY <1>1, <2>1, <2>2, <2>3, <2>4, <2>5, <2>6, OutcomeFacts
    DEF Inv, FlightInv, DeadlineInv, HopsInv, AnswerInv, Failed
  <2>9. OnlyAllowedHosts' /\ CallsKeepTheirTime'
    BY <2>3, <2>4 DEF Inv, OnlyAllowedHosts, CallsKeepTheirTime
  <2>10. EntriesAreTruthful'
    <3>1. ChainIsTold'
      BY <1>1, <2>3, <2>4, <2>6 DEF Inv, HopsInv, ChainIsTold
    <3>2. ASSUME NEW i \in DOMAIN log' PROVE log'[i].ended <=> ~InFlight(i)' /\ pipe' # i
      <4>1. log'[i].ended = log[i].ended
        BY <1>1, <2>5, <2>6 DEF Latest
      <4>2. InFlight(i)' <=> InFlight(i)
        BY <1>1, <2>3 DEF InFlight
      <4> QED
        BY <2>1, <2>5, <4>1, <4>2 DEF Inv, EntriesAreTruthful
    <3> QED
      BY <2>4, <3>1, <3>2, OutcomeFacts DEF EntriesAreTruthful, Failed
  <2>11. CodesAreTruthful'
    BY <2>4, OutcomeFacts DEF CodesAreTruthful, Failed
  <2> QED
    BY <2>7, <2>8, <2>9, <2>10, <2>11 DEF Inv
<1> QED
  BY <1>3, <1>5, <1>6

----------------------------------------------------------------------------
LEMMA PipeOpenedStep ==
  ASSUME Inv, NEW status \in Statuses, PipeOpened(status)
  PROVE  Inv'
<1> DEFINE new(i) == IF i = call.index THEN [log[i] EXCEPT !.status = status]
                     ELSE IF i = pipe THEN [log[i] EXCEPT !.ended = TRUE]
                     ELSE log[i]
<1>1. call \in FlightType /\ call.phase = "awaiting" /\ call # NoCall
  BY Phases DEF PipeOpened, Inv, TypeOK
<1>2. /\ log' = [i \in DOMAIN log |-> new(i)]
      /\ pipe' = call.index /\ call' = NoCall /\ call'.phase = "none"
      /\ seen' = [seen EXCEPT !.told = Stream, !.end = now]
      /\ UNCHANGED <<now, over>> /\ IsSuccess(status)
  BY DEF PipeOpened, NoCall
<1>3. /\ log \in Seq(CallRecord) /\ Len(log) \in Nat /\ DOMAIN log = 1..Len(log)
      /\ call.index = Len(log) /\ call.index \in DOMAIN log /\ pipe # call.index
      /\ Entry = Latest /\ now \in 0..ScriptTime
  <2>1. log \in Seq(CallRecord) /\ now \in 0..ScriptTime
    BY DEF Inv, TypeOK
  <2>2. pipe # call.index /\ call.index = Len(log)
    BY <1>1 DEF Inv, FlightInv
  <2>3. call.index \in DOMAIN log /\ Entry = Latest
    BY <1>1, EntryFacts
  <2> QED
    BY <2>1, <2>2, <2>3
<1>4. \A i \in DOMAIN log : new(i) \in CallRecord
  <2> SUFFICES ASSUME NEW i \in DOMAIN log PROVE new(i) \in CallRecord
    OBVIOUS
  <2>1. log[i] \in CallRecord
    BY <1>3
  <2>2. [log[i] EXCEPT !.status = status] \in CallRecord
    BY <2>1 DEF CallRecord
  <2>3. [log[i] EXCEPT !.ended = TRUE] \in CallRecord
    BY <2>1 DEF CallRecord
  <2> QED
    BY <2>1, <2>2, <2>3
<1>5. /\ log' \in Seq(CallRecord) /\ Len(log') = Len(log) /\ DOMAIN log' = DOMAIN log
      /\ \A i \in DOMAIN log : log'[i] = new(i)
  BY <1>2, <1>3, <1>4
<1>6. /\ Latest' = [Latest EXCEPT !.status = status] /\ Latest \in CallRecord
      /\ Latest'.status = status /\ Latest'.redirects = Latest.redirects
      /\ Latest'.host = Latest.host /\ Latest'.api = Latest.api
  <2>1. Latest' = log'[call.index] /\ Latest = log[call.index] /\ Latest \in CallRecord
    BY <1>3, <1>5 DEF Latest
  <2>2. Latest' = [Latest EXCEPT !.status = status]
    BY <1>3, <1>5, <2>1
  <2> QED
    BY <2>1, <2>2 DEF CallRecord
<1>7. /\ seen'.told = Stream /\ seen'.given = seen.given /\ seen'.end = now
      /\ seen'.hops = seen.hops /\ seen'.begin = seen.begin /\ seen'.asked = seen.asked
      /\ Stream \notin Failures /\ Stream # Status /\ Stream \in Outcomes
  BY <1>2, OutcomeFacts DEF Inv, TypeOK, Outcomes
<1>8. TypeOK'
  <2>1. seen' \in [begin : 0..ScriptTime, asked : Timeouts \cup {DefaultTimeout},
               given : Urls \cup {NotUrl, Malformed}, hops : Seq(Hosts),
               told : Outcomes, end : 0..ScriptTime]
    BY <1>2, <1>3, <1>7 DEF Inv, TypeOK
  <2>2. call' \in Calls /\ pipe' \in 0..Len(log') /\ Len(log') <= MaxCalls
    BY <1>2, <1>3, <1>5 DEF Inv, TypeOK, Calls
  <2> QED
    BY <1>2, <1>3, <1>5, <2>1, <2>2 DEF Inv, TypeOK
<1>9. FlightInv' /\ DeadlineInv' /\ HopsInv' /\ AnswerInv'
  BY <1>2, <1>3, <1>5, <1>7 DEF FlightInv, DeadlineInv, HopsInv, AnswerInv, Failed
<1>10. OnlyAllowedHosts'
  BY <1>7 DEF Inv, OnlyAllowedHosts
<1>11. CallsKeepTheirTime'
  <2>1. seen.begin \in Nat /\ seen.asked \in Nat /\ call.deadline \in Nat /\ now \in Nat
    BY <1>1, Limits DEF Inv, TypeOK, FlightType
  <2>2. /\ now <= call.deadline /\ call.deadline <= seen.begin + seen.asked
        /\ seen.begin + MarginShare <= ScriptTime => call.deadline < ScriptTime
    BY <1>1 DEF Inv, DeadlineInv
  <2> QED
    BY <1>7, <2>1, <2>2, Limits DEF CallsKeepTheirTime
<1>12. EntriesAreTruthful'
  <2>1. ChainIsTold'
    BY <1>1, <1>6, <1>7 DEF Inv, FlightInv, HopsInv, ChainIsTold, FlightType
  <2>2. ASSUME NEW i \in DOMAIN log' PROVE log'[i].ended <=> ~InFlight(i)' /\ pipe' # i
    <3>1. ~InFlight(i)'
      BY <1>2 DEF InFlight
    <3>2. log[i].ended <=> i # call.index /\ pipe # i
      BY <1>1, <1>5 DEF Inv, EntriesAreTruthful, InFlight
    <3>3. CASE i = call.index
      <4>1. log'[i] = [log[i] EXCEPT !.status = status] /\ log[i] \in CallRecord
        BY <1>3, <1>5, <3>3
      <4>2. log'[i].ended = log[i].ended
        BY <4>1 DEF CallRecord
      <4> QED
        BY <1>2, <3>2, <3>3, <4>2
    <3>4. CASE i # call.index /\ i = pipe
      <4>1. log'[i] = [log[i] EXCEPT !.ended = TRUE] /\ log[i] \in CallRecord
        BY <1>3, <1>5, <3>4
      <4> QED
        BY <1>2, <3>1, <3>4, <4>1 DEF CallRecord
    <3>5. CASE i # call.index /\ i # pipe
      BY <1>2, <1>5, <3>1, <3>2, <3>5
    <3> QED
      BY <3>3, <3>4, <3>5
  <2> QED
    BY <1>7, <2>1, <2>2 DEF EntriesAreTruthful, Failed
<1>13. CodesAreTruthful'
  BY <1>2, <1>6, <1>7 DEF CodesAreTruthful, Failed
<1> QED
  BY <1>8, <1>9, <1>10, <1>11, <1>12, <1>13 DEF Inv

LEMMA StreamEndsStep ==
  ASSUME Inv, NEW error \in StreamErrors, StreamEnds(error)
  PROVE  Inv'
<1>1. /\ call = NoCall /\ pipe # 0 /\ pipe' = 0
      /\ log' = [log EXCEPT ![pipe] = StreamFinished(log[pipe], error)]
      /\ UNCHANGED <<now, over, call, seen>>
  BY DEF StreamEnds, Inv, TypeOK
<1>2. /\ log \in Seq(CallRecord) /\ pipe \in DOMAIN log /\ call.phase = "none"
      /\ log[pipe] \in CallRecord
  BY <1>1 DEF Inv, TypeOK, NoCall
<1> DEFINE ended == StreamFinished(log[pipe], error)
<1>3. ended \in CallRecord
  BY <1>2 DEF CallRecord, StreamFinished
<1>4. log' = [log EXCEPT ![pipe] = ended]
  BY <1>1, <1>2
<1>5. /\ log' \in Seq(CallRecord) /\ Len(log') = Len(log) /\ DOMAIN log' = DOMAIN log
      /\ log'[pipe] = ended /\ \A i \in DOMAIN log : i # pipe => log'[i] = log[i]
  BY <1>2, <1>3, <1>4
<1>6. /\ ended.ended /\ ended.status = log[pipe].status /\ ended.api = log[pipe].api
      /\ ended.host = log[pipe].host /\ ended.redirects = log[pipe].redirects
  BY <1>2 DEF CallRecord, StreamFinished
<1> HIDE DEF ended
<1>7. Len(log) > 0 => /\ Latest'.status = Latest.status /\ Latest'.api = Latest.api
                      /\ Latest'.host = Latest.host /\ Latest'.redirects = Latest.redirects
                      /\ pipe # Len(log) => Latest' = Latest
  BY <1>2, <1>5, <1>6 DEF Latest
<1>8. Len(log) > 0
  BY <1>2
<1>9. TypeOK'
  BY <1>1, <1>5 DEF Inv, TypeOK
<1>10. FlightInv' /\ DeadlineInv' /\ HopsInv' /\ AnswerInv'
  BY <1>1, <1>2, <1>5, <1>8 DEF FlightInv, DeadlineInv, HopsInv, AnswerInv, Failed
<1>11. OnlyAllowedHosts' /\ CallsKeepTheirTime' /\ CodesAreTruthful'
  BY <1>1, <1>7, <1>8 DEF Inv, OnlyAllowedHosts, CallsKeepTheirTime, CodesAreTruthful, Failed
<1>12. EntriesAreTruthful'
  <2>1. ChainIsTold'
    BY <1>1, <1>7, <1>8 DEF Inv, EntriesAreTruthful, ChainIsTold
  <2>2. Failed' => Latest'.error = seen'.told.code /\ Latest'.kind = seen'.told.kind
    BY <1>1, <1>7, <1>8 DEF Inv, EntriesAreTruthful, AnswerInv, Failed
  <2>3. ASSUME NEW i \in DOMAIN log' PROVE log'[i].ended <=> ~InFlight(i)' /\ pipe' # i
    BY <1>1, <1>2, <1>5, <1>6 DEF Inv, EntriesAreTruthful, InFlight
  <2> QED
    BY <2>1, <2>2, <2>3 DEF EntriesAreTruthful
<1> QED
  BY <1>9, <1>10, <1>11, <1>12 DEF Inv

(* The end of the run, the clock and stuttering.                           *)
LEMMA QuietStep == Inv /\ (RunEnds \/ Tick \/ UNCHANGED vars) => Inv'
<1> SUFFICES ASSUME Inv, RunEnds \/ Tick \/ UNCHANGED vars PROVE Inv'
  OBVIOUS
<1>1. /\ UNCHANGED <<call, pipe, log, seen>>
      /\ now' \in 0..ScriptTime /\ over' \in BOOLEAN
      /\ call # NoCall => now' <= call.deadline
  <2>1. now \in 0..ScriptTime /\ (call # NoCall => call \in FlightType)
    BY Phases DEF Inv, TypeOK
  <2>2. call # NoCall => now <= call.deadline /\ call.until = call.deadline
    BY DEF Inv, DeadlineInv
  <2>3. CASE Tick
    BY <2>1, <2>2, <2>3, Limits DEF Tick, Inv, TypeOK, FlightType
  <2>4. CASE RunEnds
    BY <2>1, <2>2, <2>4 DEF RunEnds
  <2>5. CASE UNCHANGED vars
    BY <2>1, <2>2, <2>5 DEF vars, Inv, TypeOK
  <2> QED
    BY <2>3, <2>4, <2>5
<1>2. TypeOK' /\ FlightInv' /\ DeadlineInv' /\ HopsInv' /\ AnswerInv'
  BY <1>1 DEF Inv, TypeOK, FlightInv, DeadlineInv, HopsInv, AnswerInv, Latest, Failed
<1>3. OnlyAllowedHosts' /\ CallsKeepTheirTime'
  BY <1>1 DEF Inv, OnlyAllowedHosts, CallsKeepTheirTime
<1>4. EntriesAreTruthful' /\ CodesAreTruthful'
  BY <1>1 DEF Inv, EntriesAreTruthful, ChainIsTold, InFlight, CodesAreTruthful, Latest, Failed
<1> QED
  BY <1>2, <1>3, <1>4 DEF Inv

LEMMA NextInv == Inv /\ [Next]_vars => Inv'
<1> SUFFICES ASSUME Inv, [Next]_vars PROVE Inv'
  OBVIOUS
<1>1. ASSUME NEW api \in Apis, NEW p \in Payloads(api), Begin(api, p) PROVE Inv'
  BY <1>1, BeginStep
<1>2. CASE Send
  BY <1>2, SendStep
<1>3. CASE SendTooLate \/ TimedOut \/ GetRead \/ \E outcome \in Failures : NetworkFails(outcome)
  BY <1>3, FailStep
<1>4. ASSUME NEW status \in Statuses, Answered(status) PROVE Inv'
  BY <1>4, FailStep, RedirectedStep, GetAnsweredStep, PipeOpenedStep DEF Answered
<1>5. ASSUME NEW error \in StreamErrors, StreamEnds(error) PROVE Inv'
  BY <1>5, StreamEndsStep
<1>6. CASE RunEnds \/ Tick \/ UNCHANGED vars
  BY <1>6, QuietStep
<1> QED
  BY <1>1, <1>2, <1>3, <1>4, <1>5, <1>6 DEF Next

----------------------------------------------------------------------------
(* Only the entries of the call in flight and of the held body change, and *)
(* both are open.                                                          *)
LEMMA FinalStep ==
  Inv /\ [Next]_vars => \A i \in DOMAIN log : log[i].ended => log'[i] = log[i]
<1> SUFFICES ASSUME Inv, Next, NEW i \in DOMAIN log, log[i].ended PROVE log'[i] = log[i]
  BY DEF vars
<1>1. ~InFlight(i) /\ pipe # i /\ log \in Seq(CallRecord)
  BY DEF Inv, EntriesAreTruthful, TypeOK
<1>2. call # NoCall => i # call.index
  BY <1>1 DEF InFlight
<1>3. call.phase \in {"sending", "awaiting", "reading"} => call # NoCall
  BY DEF NoCall
<1>4. ASSUME NEW record, NEW outcome, call # NoCall, End(record, outcome) PROVE log'[i] = log[i]
  BY <1>1, <1>2, <1>4 DEF End
<1>5. ASSUME NEW api \in Apis, NEW p \in Payloads(api), Begin(api, p) PROVE log'[i] = log[i]
  <2>1. PICK entry : log' = Append(log, entry)
    BY <1>5 DEF Begin
  <2> QED
    BY <1>1, <2>1
<1>6. CASE Send \/ RunEnds \/ Tick \/ \E status \in Statuses : GetAnswered(status)
  BY <1>6 DEF Send, RunEnds, Tick, GetAnswered
<1>7. CASE \/ SendTooLate \/ TimedOut \/ GetRead
           \/ \E outcome \in Failures : NetworkFails(outcome)
           \/ \E status \in Statuses : RedirectedNowhere(status) \/ PipeRefused(status)
  BY <1>3, <1>4, <1>7
  DEF SendTooLate, TimedOut, GetRead, NetworkFails, RedirectedNowhere, PipeRefused
<1>8. ASSUME NEW status \in Statuses, NEW location \in Urls \cup {NotUrl},
             Redirected(status, location)
      PROVE  log'[i] = log[i]
  <2>1. PICK entry : log' = [log EXCEPT ![call.index] = entry]
    BY <1>8 DEF Redirected
  <2> QED
    BY <1>1, <1>2, <1>3, <1>8, <2>1 DEF Redirected
<1>9. ASSUME NEW status \in Statuses, PipeOpened(status) PROVE log'[i] = log[i]
  BY <1>1, <1>2, <1>3, <1>9 DEF PipeOpened
<1>10. ASSUME NEW error \in StreamErrors, StreamEnds(error) PROVE log'[i] = log[i]
  BY <1>1, <1>10 DEF StreamEnds
<1> QED
  BY <1>5, <1>6, <1>7, <1>8, <1>9, <1>10 DEF Next, Answered

LEMMA Invariance == Spec => []Inv
BY InitInv, NextInv, PTL DEF Spec

(* Types: calls, entries and outcomes have the shapes the module gives     *)
(* them, for any configuration.                                            *)
THEOREM UpstreamTyped == Spec => []TypeOK
<1>1. Inv => TypeOK
  BY DEF Inv
<1> QED
  BY <1>1, Invariance, PTL

(* Wherever redirects lead, only listed hosts are contacted, and only      *)
(* MaxRedirects + 1 of them in one call.                                   *)
THEOREM OnlyListedHostsAreAsked == Spec => []OnlyAllowedHosts
<1>1. Inv => OnlyAllowedHosts
  BY DEF Inv
<1> QED
  BY <1>1, Invariance, PTL

(* A call ends before its script does and within its own timeout.          *)
THEOREM CallsAreInTime == Spec => []CallsKeepTheirTime
<1>1. Inv => CallsKeepTheirTime
  BY DEF Inv
<1> QED
  BY <1>1, Invariance, PTL

(* The call chain tells which hosts were asked and how each call ended,    *)
(* and no entry stays open without a call or a body.                       *)
THEOREM ChainIsTruthful == Spec => []EntriesAreTruthful
<1>1. Inv => EntriesAreTruthful
  BY DEF Inv
<1> QED
  BY <1>1, Invariance, PTL

(* The codes a script gets mean what the contract says.                    *)
THEOREM CodesMeanWhatTheySay == Spec => []CodesAreTruthful
<1>1. Inv => CodesAreTruthful
  BY DEF Inv
<1> QED
  BY <1>1, Invariance, PTL

(* No step changes a closed entry.                                         *)
THEOREM ClosedEntriesStay == Spec => EntriesAreFinal
<1>1. Inv /\ [Next]_vars => [\A i \in DOMAIN log : log[i].ended => log'[i] = log[i]]_vars
  BY FinalStep
<1> QED
  BY <1>1, Invariance, PTL DEF Spec, EntriesAreFinal
=============================================================================
