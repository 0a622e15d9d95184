---------------------------- MODULE UpstreamCall ----------------------------
(***************************************************************************)
(* The upstream calls one script run makes, seen from the host that makes  *)
(* them for it: UpstreamAccess in src/src/upstream.rs.  A worker has one   *)
(* call in flight at a time.  A call is refused, or it is given a deadline *)
(* and sent; it follows redirects, checking every hop, and it ends with a  *)
(* response (get), a stream (pipe) or an error, and with a finished entry  *)
(* in the call chain.                                                      *)
(*                                                                         *)
(* The clock moves while the script computes and while the network is      *)
(* waited for; ureq fires its timeouts before it moves on, and the host's  *)
(* own steps, which do not block, take no time.  Paths, ports, header      *)
(* contents and bytes are left out; so is the Range header, which goes     *)
(* with every hop of a pipe.                                               *)
(***************************************************************************)
EXTENDS Integers, SequencesExt

CONSTANTS
  Hosts,
  AllowHosts,     \* upstream.allow_hosts
  Statuses,       \* what upstreams answer
  MaxRedirects,   \* MAX_REDIRECTS, 3 in the code
  ScriptTime,     \* sandbox.script_timeout_ms: the run ends then at the latest
  DefaultTimeout, \* upstream.timeout_ms
  Timeouts,       \* values of opts.timeout_ms
  MarginShare,    \* the reply margin is this fraction of the time that is left,
  MarginCap,      \* and at most this: a tenth and 100 ms in the code
  MaxCalls        \* bound: calls of one run

ASSUME LimitsAssumption ==
  /\ AllowHosts \subseteq Hosts
  /\ Statuses \subseteq 100..999
  /\ {MaxRedirects, ScriptTime, MaxCalls} \subseteq Nat
  /\ Timeouts \cup {DefaultTimeout, MarginShare, MarginCap} \subseteq Nat \ {0}

VARIABLES
  now,
  over,   \* the run has ended
  call,   \* the call in flight
  pipe,   \* the call whose body the host holds (HostState.pipe), 0 if none
  log,    \* the call chain
  seen    \* history of the latest call: when it began, what it asked and was
          \* given, whom it contacted, what the script was told and when

vars == <<now, over, call, pipe, log, seen>>

----------------------------------------------------------------------------
(* Outcomes: a response, a stream, or an error with its code and kind.     *)
Outcome(code, kind) == [code |-> code, kind |-> kind]

Unanswered == Outcome("unanswered", "none")
Response == Outcome("response", "none")
Stream == Outcome("stream", "none")
Policy == Outcome("script_error", "none")
InvalidUrl == Outcome("upstream_url_invalid", "none")
Redirect == Outcome("upstream_redirect_error", "none")
Status == Outcome("upstream_http_error", "none")
Transport(kind) == Outcome("upstream_unreachable", kind)
TimeoutError == Transport("timeout")

Failures == {Policy, InvalidUrl, Redirect, Status}
              \cup {Transport(kind) : kind \in {"dns", "timeout", "transport"}}
Outcomes == {Unanswered, Response, Stream} \cup Failures

NoError == "none"
StreamErrors == {NoError, "upstream_stream_error"}

(* What a script may pass: a payload of the wrong shape, text that is not  *)
(* a URL, or a URL.  Opts may name a timeout for a get; a pipe has none.   *)
NoHost == "no host"
Malformed == [scheme |-> "malformed", host |-> NoHost]
NotUrl == [scheme |-> "unparsable", host |-> NoHost]
Urls == [scheme : {"http", "other"}, host : Hosts]
Default == 0
Apis == {"http.get", "http.pipe"}

Payloads(api) ==
  [url : Urls \cup {NotUrl, Malformed},
   timeout : {Default} \cup (IF api = "http.get" THEN Timeouts ELSE {})]

NoCall == [phase |-> "none"]
Calls == {NoCall} \cup
  [phase : {"sending", "awaiting", "reading"}, api : Apis, index : 1..MaxCalls,
   host : Hosts, deadline : 0..ScriptTime, until : 0..ScriptTime,
   redirects : 0..MaxRedirects, status : Statuses \cup {0}]

CallRecord ==
  [api : Apis, host : Hosts \cup {NoHost}, status : Statuses \cup {0},
   redirects : 0..MaxRedirects, ended : BOOLEAN,
   error : {f.code : f \in Failures} \cup StreamErrors,
   kind : {"none", "dns", "timeout", "transport"}]

IsRedirect(status) == status \in {301, 302, 303, 307, 308}
IsSuccess(status) == status \in 200..299

----------------------------------------------------------------------------
Remaining == ScriptTime - now

ReplyMargin(remaining) ==
  LET share == remaining \div MarginShare IN IF share < MarginCap THEN share ELSE MarginCap

(* A request that would take all that is left is cut by the reply margin.  *)
Budget(requested) ==
  IF requested >= Remaining THEN Remaining - ReplyMargin(Remaining) ELSE requested

Asked(p) == IF p.timeout = Default THEN DefaultTimeout ELSE p.timeout

SchemeOnly(url, badScheme) ==               \* slip: any host will do
  IF url.scheme # "http" THEN badScheme ELSE Unanswered

BadUrlEither(url, badScheme) ==             \* slip: one error for both refusals
  IF url.scheme = "http" /\ url.host \in AllowHosts THEN Unanswered ELSE badScheme

(* The error that forbids contacting url, Unanswered if there is none.     *)
Validate(url, badScheme) ==
  IF url.scheme # "http" THEN badScheme
  ELSE IF url.host \in AllowHosts THEN Unanswered ELSE Policy

BadUrl(api) == IF api = "http.get" THEN Policy ELSE InvalidUrl
BadRedirect(api) == IF api = "http.get" THEN Policy ELSE Redirect

(* The first objection of get_inner or pipe_inner, in their order.         *)
Objection(api, p) ==
  IF p.url = Malformed THEN Policy
  ELSE IF p.url = NotUrl THEN BadUrl(api)
  ELSE IF Validate(p.url, BadUrl(api)) # Unanswered THEN Validate(p.url, BadUrl(api))
  ELSE IF Budget(Asked(p)) = 0 THEN TimeoutError
  ELSE Unanswered

----------------------------------------------------------------------------
(* finish_call: the duration, and the error if there was one.              *)
Finished(record, outcome) ==
  IF outcome \in Failures
  THEN [record EXCEPT !.ended = TRUE, !.error = outcome.code, !.kind = outcome.kind]
  ELSE [record EXCEPT !.ended = TRUE]

(* The call in flight ends: its entry becomes record, and the script is    *)
(* told.                                                                   *)
End(record, outcome) ==
  /\ log' = [log EXCEPT ![call.index] = Finished(record, outcome)]
  /\ seen' = [seen EXCEPT !.told = outcome, !.end = now]
  /\ call' = NoCall
  /\ UNCHANGED <<now, over, pipe>>

Entry == log[call.index]

(* begin_call, and the checks before the network.  The URL is recorded     *)
(* before it is validated.                                                 *)
Begin(api, p) ==
  LET index == Len(log) + 1
      objection == Objection(api, p)
      record == [api |-> api, host |-> p.url.host,
                 status |-> 0, redirects |-> 0, ended |-> FALSE,
                 error |-> NoError, kind |-> "none"]
      deadline == now + Budget(Asked(p))
  IN  /\ ~over /\ call = NoCall /\ Len(log) < MaxCalls
      /\ log' = Append(log, IF objection \in Failures THEN Finished(record, objection) ELSE record)
      /\ seen' = [begin |-> now, asked |-> Asked(p), given |-> p.url, hops |-> <<>>,
                  told |-> objection, end |-> now]
      /\ call' = IF objection \in Failures THEN NoCall
                 ELSE [phase |-> "sending", api |-> api, index |-> index,
                       host |-> p.url.host, deadline |-> deadline, until |-> deadline,
                       redirects |-> 0, status |-> 0]
      /\ UNCHANGED <<now, over, pipe>>

SendAfresh ==                               \* slip: every hop gets all of it
  /\ call.phase = "sending" /\ now < call.deadline
  /\ call' = [call EXCEPT !.phase = "awaiting",
                 !.until = Min({ScriptTime, now + seen.asked})]
  /\ seen' = [seen EXCEPT !.hops = Append(@, call.host)]
  /\ UNCHANGED <<now, over, pipe, log>>

(* The top of the loop: the time that is left bounds the whole exchange.   *)
Send ==
  /\ call.phase = "sending" /\ now < call.deadline
  /\ call' = [call EXCEPT !.phase = "awaiting", !.until = call.deadline]
  /\ seen' = [seen EXCEPT !.hops = Append(@, call.host)]
  /\ UNCHANGED <<now, over, pipe, log>>

SendTooLate ==
  /\ call.phase = "sending" /\ now >= call.deadline
  /\ End(Entry, TimeoutError)

TimedOut ==
  /\ call.phase \in {"awaiting", "reading"} /\ now >= call.until
  /\ End(Entry, TimeoutError)

(* DNS, connection and TLS failures, and what ureq refuses to send or,     *)
(* when reading, a body over the limit.                                    *)
NetworkFails(outcome) ==
  /\ call.phase \in {"awaiting", "reading"}
  /\ outcome \in {Policy, Transport("dns"), Transport("transport")}
  /\ outcome = Transport("dns") => call.phase = "awaiting"
  /\ End(Entry, outcome)

----------------------------------------------------------------------------
(* A redirect that has a Location.  The limit comes before its validation, *)
(* the validation before the record.                                       *)
Redirected(status, location) ==
  LET refusal == IF call.redirects >= MaxRedirects \/ location = NotUrl
                 THEN BadRedirect(call.api)
                 ELSE Validate(location, BadRedirect(call.api))
      told == [seen EXCEPT !.given = location]
  IN  /\ call.phase = "awaiting" /\ IsRedirect(status)
      /\ IF refusal \in Failures
         THEN /\ log' = [log EXCEPT ![call.index] = Finished(@, refusal)]
              /\ seen' = [told EXCEPT !.told = refusal, !.end = now]
              /\ call' = NoCall
         ELSE /\ log' = [log EXCEPT ![call.index].redirects = call.redirects + 1,
                                    ![call.index].host = location.host]
              /\ seen' = told
              /\ call' = [call EXCEPT !.phase = "sending", !.host = location.host,
                                      !.redirects = @ + 1]
      /\ UNCHANGED <<now, over, pipe>>

RedirectedNowhere(status) ==
  /\ call.phase = "awaiting" /\ IsRedirect(status) /\ call.api = "http.pipe"
  /\ End(Entry, Redirect)

(* Any other answer, and for get a redirect without Location, is data.     *)
GetAnswered(status) ==
  /\ call.phase = "awaiting" /\ call.api = "http.get"
  /\ call' = [call EXCEPT !.phase = "reading", !.status = status]
  /\ UNCHANGED <<now, over, pipe, log, seen>>

GetRead ==
  /\ call.phase = "reading"
  /\ End([Entry EXCEPT !.status = call.status], Response)

PipeRefused(status) ==
  /\ call.phase = "awaiting" /\ call.api = "http.pipe"
  /\ ~IsRedirect(status) /\ ~IsSuccess(status)
  /\ End([Entry EXCEPT !.status = status], Status)

PipeReplaced(status) ==                     \* slip: nobody drops the old body
  /\ call.phase = "awaiting" /\ call.api = "http.pipe" /\ IsSuccess(status)
  /\ log' = [log EXCEPT ![call.index].status = status]
  /\ pipe' = call.index
  /\ seen' = [seen EXCEPT !.told = Stream, !.end = now]
  /\ call' = NoCall
  /\ UNCHANGED <<now, over>>

(* The body is handed to the host; one it held before is dropped, and its  *)
(* entry finished by the drop.                                             *)
PipeOpened(status) ==
  /\ call.phase = "awaiting" /\ call.api = "http.pipe" /\ IsSuccess(status)
  /\ log' = [i \in DOMAIN log |->
               IF i = call.index THEN [log[i] EXCEPT !.status = status]
               ELSE IF i = pipe THEN [log[i] EXCEPT !.ended = TRUE]
               ELSE log[i]]
  /\ pipe' = call.index
  /\ seen' = [seen EXCEPT !.told = Stream, !.end = now]
  /\ call' = NoCall
  /\ UNCHANGED <<now, over>>

----------------------------------------------------------------------------
(* The worker is done, or killed: then a call in flight goes on without it.*)
RunEnds ==
  /\ ~over
  /\ over' = TRUE
  /\ UNCHANGED <<now, call, pipe, log, seen>>

StreamFinished(record, error) ==
  [record EXCEPT !.ended = TRUE, !.error = error,
                 !.kind = IF error = NoError THEN "none" ELSE "transport"]

EveryStreamEnds(error) ==                   \* slip: finished ones too
  /\ over /\ call = NoCall /\ pipe # 0
  /\ log' = [i \in DOMAIN log |->
               IF IsSuccess(log[i].status) THEN StreamFinished(log[i], error) ELSE log[i]]
  /\ pipe' = 0
  /\ UNCHANGED <<now, over, call, seen>>

(* The held body is dropped with the run, or relayed until it ends, fails  *)
(* or its client leaves; only a failure is an error of the call.           *)
StreamEnds(error) ==
  /\ over /\ call = NoCall /\ pipe # 0
  /\ log' = [log EXCEPT ![pipe] = StreamFinished(@, error)]
  /\ pipe' = 0
  /\ UNCHANGED <<now, over, call, seen>>

Tick ==
  /\ now < ScriptTime
  /\ \/ call = NoCall /\ ~over
     \/ call.phase \in {"awaiting", "reading"} /\ now < call.until
  /\ now' = now + 1
  /\ UNCHANGED <<over, call, pipe, log, seen>>

Answered(status) ==
  \/ \E location \in Urls \cup {NotUrl} : Redirected(status, location)
  \/ RedirectedNowhere(status)
  \/ GetAnswered(status)
  \/ PipeRefused(status)
  \/ PipeOpened(status)

Init ==
  /\ now = 0 /\ over = FALSE /\ call = NoCall /\ pipe = 0
  /\ log = <<>>
  /\ seen = [begin |-> 0, asked |-> DefaultTimeout, given |-> NotUrl, hops |-> <<>>,
             told |-> Unanswered, end |-> 0]

Next ==
  \/ \E api \in Apis : \E p \in Payloads(api) : Begin(api, p)
  \/ Send \/ SendTooLate \/ TimedOut
  \/ \E outcome \in Failures : NetworkFails(outcome)
  \/ \E status \in Statuses : Answered(status)
  \/ GetRead
  \/ RunEnds
  \/ \E error \in StreamErrors : StreamEnds(error)
  \/ Tick

Spec == Init /\ [][Next]_vars

----------------------------------------------------------------------------
TypeOK ==
  /\ now \in 0..ScriptTime
  /\ over \in BOOLEAN
  /\ call \in Calls
  /\ pipe \in 0..Len(log)
  /\ log \in Seq(CallRecord) /\ Len(log) <= MaxCalls
  /\ seen \in [begin : 0..ScriptTime, asked : Timeouts \cup {DefaultTimeout},
               given : Urls \cup {NotUrl, Malformed}, hops : Seq(Hosts),
               told : Outcomes, end : 0..ScriptTime]

InFlight(i) == call # NoCall /\ call.index = i
Failed == seen.told \in Failures
Latest == log[Len(log)]

(* However upstreams redirect, no host outside upstream.allow_hosts is     *)
(* contacted, and no call asks more than MaxRedirects hosts after the      *)
(* first.                                                                  *)
OnlyAllowedHosts ==
  /\ Range(seen.hops) \subseteq AllowHosts
  /\ Len(seen.hops) <= MaxRedirects + 1

(* A call ends while the script it serves can still react, and within the  *)
(* timeout it asked for, however many hops it took.  Excepted are calls    *)
(* begun when the tenth of what is left rounds to nothing: in the code,    *)
(* within the last ten nanoseconds of the run.                             *)
CallsKeepTheirTime ==
  call = NoCall /\ seen.begin + MarginShare <= ScriptTime =>
    /\ seen.end < ScriptTime
    /\ seen.end <= seen.begin + seen.asked

(* The entry of the call names the host that was asked last and counts    *)
(* the redirects that led there; only between two hops, or when the time   *)
(* ran out there, does it name the one that would have been next.          *)
ChainIsTold ==
  seen.hops # <<>> =>
    \/ Latest.redirects = Len(seen.hops) - 1 /\ Latest.host = Last(seen.hops)
    \/ /\ Latest.redirects = Len(seen.hops) /\ Latest.host = seen.given.host
       /\ call.phase = "sending" \/ seen.told = TimeoutError

(* The call chain is truthful: the latest entry tells the way the call     *)
(* took, and carries the error the script is told; and every entry is open *)
(* exactly as long as its call, or the body it handed over, is alive.      *)
EntriesAreTruthful ==
  /\ ChainIsTold
  /\ Failed => Latest.error = seen.told.code /\ Latest.kind = seen.told.kind
  /\ \A i \in DOMAIN log : log[i].ended <=> ~InFlight(i) /\ pipe # i

(* What a closed entry says is final.                                      *)
EntriesAreFinal ==
  [][\A i \in DOMAIN log : log[i].ended => log'[i] = log[i]]_vars

(* A script can tell from the code of an error what happened: as long as   *)
(* nothing was sent, only a timeout is blamed on an upstream; get knows    *)
(* two codes only; a host that is not allowed is a script error wherever   *)
(* it turned up, unless the limit was exceeded first; and a stream or an   *)
(* upstream_http_error has a status of its own.                            *)
CodesAreTruthful ==
  /\ Failed /\ seen.hops = <<>> => seen.told \in {Policy, InvalidUrl, TimeoutError}
  /\ Failed /\ Latest.api = "http.get" =>
       seen.told.code \in {"script_error", "upstream_unreachable"}
  /\ Failed /\ seen.given.scheme = "http" /\ seen.given.host \notin AllowHosts =>
       \/ seen.told = Policy
       \/ seen.told = Redirect /\ Len(seen.hops) = MaxRedirects + 1
  /\ seen.told = Status => ~IsRedirect(Latest.status) /\ ~IsSuccess(Latest.status)
  /\ seen.told = Stream => IsSuccess(Latest.status)
=============================================================================
