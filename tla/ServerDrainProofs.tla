------------------------- MODULE ServerDrainProofs -------------------------
(***************************************************************************)
(* Proofs about ServerDrain, for any number of connections, requests and   *)
(* signals.                                                                *)
(***************************************************************************)
EXTENDS ServerDrain, TLAPS

(* Nobody can be cut off by a clean exit. *)
LoopInv ==
  /\ server \in {"draining", "returned"} => first # "none"
  /\ server = "returned" => \A c \in Connections : conn[c] \notin Open
  /\ exit = 0 => server = "returned"

(* Every signal that was received or waits was sent; two of a kind count   *)
(* once while they wait.                                                   *)
SignalInv ==
  /\ first # "none" \/ pending # {} => sent >= 1
  /\ first # "none" /\ pending # {} => sent >= 2
  /\ pending = Signals => sent >= 2
  /\ exit \in {130, 143} => first # "none" /\ sent >= 2

(* The log and the relays know the requests that came so far, the one that *)
(* is being handled excepted, and each of them once.                       *)
LogInv ==
  /\ lines \cap relays = {}
  /\ answered \subseteq lines \cup relays
  /\ \A q \in lines \cup relays :
       /\ q[2] <= serial[q[1]]
       /\ conn[q[1]] = "handling" => q[2] < serial[q[1]]
  /\ \A c \in Connections :
       /\ conn[c] \in InFlight => serial[c] >= 1
       /\ conn[c] = "writing" => Request(c) \in lines \cup relays

(* A relay that waits is that of the request its connection is writing. *)
FullInv == \A q \in full : q \in relays /\ conn[q[1]] = "writing" /\ Request(q[1]) = q

NoticedInv == \A c \in noticed : conn[c] \notin {"new", "idle"}

Inv == TypeOK /\ LoopInv /\ SignalInv /\ LogInv /\ FullInv /\ NoticedInv

LEMMA InitInv == Init => Inv
BY BoundsAssumption
DEF Init, Inv, TypeOK, LoopInv, SignalInv, LogInv, FullInv, NoticedInv, BoundsAssumption, Running,
    Open, Waiting, InFlight, Signals, Bodies

(* What the loop and the signals do leaves requests alone. *)
LEMMA LoopStep == Inv /\ (Loop \/ \E s \in Signals : Signal(s) \/ SecondSignal(s)) => Inv'
<1> SUFFICES ASSUME Inv, Loop \/ \E s \in Signals : Signal(s) \/ SecondSignal(s) PROVE Inv'
  OBVIOUS
<1> USE DEF signalVars, requestVars, Signals, Running
<1>1. CASE AcceptFails
  BY <1>1 DEF AcceptFails, Up, Inv, TypeOK, LoopInv, SignalInv, LogInv, FullInv, NoticedInv, Request
<1>2. CASE Returns
  BY <1>2 DEF Returns, Up, Inv, TypeOK, LoopInv, SignalInv, LogInv, FullInv, NoticedInv, Request
<1>3. CASE Exits
  BY <1>3 DEF Exits, Up, Inv, TypeOK, LoopInv, SignalInv, LogInv, FullInv, NoticedInv, Request
<1>4. ASSUME NEW s \in Signals, StartsDrain(s) PROVE Inv'
  <2>1. TypeOK' /\ LoopInv' /\ LogInv' /\ FullInv' /\ NoticedInv'
    BY <1>4 DEF StartsDrain, Up, Inv, TypeOK, LoopInv, LogInv, FullInv, NoticedInv, Request
  <2>2. sent >= 1 /\ (pending' # {} => pending = Signals)
    <3>1. s \in pending /\ pending \subseteq Signals /\ pending' = pending \ {s}
      BY <1>4 DEF StartsDrain, Inv, TypeOK
    <3>2. ASSUME NEW t \in pending' PROVE Signals \subseteq pending
      <4>1. t \in pending /\ t # s /\ t \in Signals
        BY <3>1, <3>2
      <4> QED
        BY <3>1, <4>1
    <3> QED
      BY <3>1, <3>2 DEF Inv, SignalInv
  <2>3. SignalInv'
    BY <1>4, <2>2 DEF StartsDrain, Up, Inv, TypeOK, SignalInv
  <2> QED
    BY <2>1, <2>3 DEF Inv
<1>5. ASSUME NEW s \in Signals, Signal(s) PROVE Inv'
  <2>1. TypeOK' /\ LoopInv' /\ LogInv' /\ FullInv' /\ NoticedInv'
    BY <1>5, BoundsAssumption
    DEF Signal, Up, Inv, TypeOK, LoopInv, LogInv, FullInv, NoticedInv, Request, BoundsAssumption
  <2>2. pending' = Signals => pending # {}
    <3>1. SUFFICES ASSUME pending' = Signals, pending = {} PROVE FALSE
      OBVIOUS
    <3>2. "SIGINT" \in pending' /\ "SIGTERM" \in pending'
      BY <3>1
    <3>3. "SIGINT" = s /\ "SIGTERM" = s
      BY <1>5, <3>1, <3>2 DEF Signal
    <3> QED
      BY <3>3
  <2>3. SignalInv'
    BY <1>5, <2>2 DEF Signal, Up, Inv, TypeOK, SignalInv
  <2> QED
    BY <2>1, <2>3 DEF Inv
<1>6. ASSUME NEW s \in Signals, SecondSignal(s) PROVE Inv'
  BY <1>6
  DEF SecondSignal, ForcedExitCode, Up, Inv, TypeOK, LoopInv, SignalInv, LogInv, FullInv, NoticedInv, Request
<1> QED
  BY <1>1, <1>2, <1>3, <1>4, <1>5, <1>6 DEF Loop

(* What connections and relays do leaves the loop and the signals alone. *)
LEMMA RequestStep ==
  ASSUME Inv,
         UNCHANGED <<exit, sent, pending, first, server>>,
         TypeOK', LogInv', FullInv', NoticedInv',
         \A c \in Connections : conn'[c] \in Open /\ conn[c] \notin Open => server = "accepting"
  PROVE  Inv'
BY DEF Inv, TypeOK, LoopInv, SignalInv

LEMMA ConnectionStep ==
  ASSUME Inv, NEW c \in Connections,
         \/ Accept(c) \/ Aborted(c) \/ Notices(c)
         \/ HeadArrives(c) \/ HeadTimesOut(c)
         \/ Handled(c) \/ TakesIn(c) \/ Written(c) \/ Dropped(c)
  PROVE  Inv'
<1> USE DEF signalVars, requestVars
<1>0. /\ conn \in [Connections -> Open \cup {"new", "closed"}]
      /\ serial \in [Connections -> Nat]
      /\ body \in [Connections -> Bodies \cup {"none"}]
      /\ noticed \subseteq Connections
      /\ lines \subseteq Requests /\ relays \subseteq Requests /\ answered \subseteq Requests
      /\ full \subseteq Requests
  BY DEF Inv, TypeOK
<1>1. CASE Accept(c) \/ Aborted(c) \/ Notices(c) \/ HeadTimesOut(c) \/ Dropped(c)
  <2>1. /\ UNCHANGED <<exit, sent, pending, first, server, serial, body, relays, lines, answered>>
        /\ full' = full \/ full' = full \ {Request(c)}
        /\ conn[c] = "writing" => full' = full \ {Request(c)} \/ conn' = conn
        /\ conn' = conn \/ \E where \in {"idle", "closed"} : conn' = [conn EXCEPT ![c] = where]
        /\ conn'[c] = "idle" /\ conn' # conn => conn[c] = "new" /\ noticed' = noticed /\ server = "accepting"
        /\ noticed' = noticed \/ (noticed' = noticed \cup {c} /\ conn[c] \in Open /\ (conn'[c] # "idle"))
    BY <1>0, <1>1
    DEF Accept, Aborted, Notices, HeadTimesOut, Dropped, Move, Release, Open, Waiting, InFlight
  <2>2. TypeOK'
    BY <1>0, <2>1 DEF Inv, TypeOK, Open, Waiting, InFlight, Requests
  <2>3. LogInv'
    BY <1>0, <2>1 DEF Inv, LogInv, InFlight, Request, Requests
  <2>4. NoticedInv'
    BY <1>0, <2>1 DEF Inv, NoticedInv, Open, Waiting, InFlight
  <2>5. \A d \in Connections : conn'[d] \in Open /\ conn[d] \notin Open => server = "accepting"
    BY <1>0, <2>1 DEF Open, Waiting, InFlight
  <2>6. FullInv'
    BY <1>0, <2>1 DEF Inv, FullInv, Request, Requests
  <2> QED
    BY <2>1, <2>2, <2>3, <2>4, <2>5, <2>6, RequestStep
<1>2. CASE HeadArrives(c)
  <2>1. /\ UNCHANGED <<exit, sent, pending, first, server, noticed, relays, full, lines, answered>>
        /\ conn[c] \in Waiting
        /\ \/ conn[c] = "idle" /\ conn' = [conn EXCEPT ![c] = "reading"] /\ UNCHANGED <<serial, body>>
           \/ /\ conn' = [conn EXCEPT ![c] = "handling"]
              /\ serial' = [serial EXCEPT ![c] = @ + 1]
              /\ body' = [body EXCEPT ![c] = "none"]
    BY <1>2 DEF HeadArrives, Move, Waiting
  <2>2. TypeOK'
    BY <1>0, <2>1 DEF Inv, TypeOK, Open, Waiting, InFlight
  <2>3. LogInv'
    BY <1>0, <2>1 DEF Inv, LogInv, Waiting, InFlight, Request, Requests
  <2>4. NoticedInv'
    BY <1>0, <2>1 DEF Inv, NoticedInv, Waiting
  <2>5. \A d \in Connections : conn'[d] \in Open /\ conn[d] \notin Open => server = "accepting"
    BY <1>0, <2>1 DEF Open
  <2>6. FullInv'
    BY <1>0, <2>1 DEF Inv, FullInv, Waiting, Request, Requests
  <2> QED
    BY <2>1, <2>2, <2>3, <2>4, <2>5, <2>6, RequestStep
<1>3. CASE Handled(c)
  <2> PICK b \in Bodies, fits \in BOOLEAN :
        /\ body' = [body EXCEPT ![c] = b]
        /\ lines' = IF b = "buffered" THEN lines \cup {Request(c)} ELSE lines
        /\ relays' = IF b = "buffered" THEN relays ELSE relays \cup {Request(c)}
        /\ full' = IF b = "buffered" \/ fits THEN full ELSE full \cup {Request(c)}
    BY <1>3 DEF Handled
  <2>1. /\ UNCHANGED <<exit, sent, pending, first, server, noticed, serial, answered>>
        /\ conn[c] = "handling" /\ conn' = [conn EXCEPT ![c] = "writing"]
    BY <1>3 DEF Handled, Move
  <2>2. Request(c) \in Requests /\ Request(c) = <<c, serial[c]>>
    BY <1>0, <2>1 DEF Inv, LogInv, InFlight, Request, Requests
  <2>3. Request(c) \notin lines \cup relays
    BY <1>0, <2>1, <2>2 DEF Inv, LogInv
  <2>4. lines' \cup relays' = (lines \cup relays) \cup {Request(c)} /\ lines' \cap relays' = {}
    BY <2>3 DEF Inv, LogInv
  <2>5. TypeOK'
    BY <1>0, <2>1, <2>2 DEF Inv, TypeOK, Open, Waiting, InFlight
  <2>6. LogInv'
    <3>1. answered' \subseteq lines' \cup relays'
      BY <2>1, <2>4 DEF Inv, LogInv
    <3>2. ASSUME NEW q \in lines' \cup relays'
          PROVE  /\ q[2] <= serial'[q[1]]
                 /\ conn'[q[1]] = "handling" => q[2] < serial'[q[1]]
      BY <1>0, <2>1, <2>2, <2>4, <3>2 DEF Inv, LogInv, Requests
    <3>3. ASSUME NEW d \in Connections
          PROVE  /\ conn'[d] \in InFlight => serial'[d] >= 1
                 /\ conn'[d] = "writing" => Request(d)' \in lines' \cup relays'
      BY <1>0, <2>1, <2>4 DEF Inv, LogInv, InFlight, Request
    <3> QED
      BY <2>4, <3>1, <3>2, <3>3 DEF LogInv
  <2>7. NoticedInv'
    BY <1>0, <2>1 DEF Inv, NoticedInv
  <2>8. \A d \in Connections : conn'[d] \in Open /\ conn[d] \notin Open => server = "accepting"
    BY <1>0, <2>1 DEF Open, InFlight
  <2>9. FullInv'
    <3>1. ASSUME NEW q \in full
          PROVE  q \in relays' /\ conn'[q[1]] = "writing" /\ Request(q[1])' = q
      <4>1. q \in relays /\ conn[q[1]] = "writing" /\ q[1] \in Connections /\ q[1] # c
        BY <1>0, <2>1, <3>1 DEF Inv, FullInv, Requests
      <4>2. Request(q[1]) = q
        BY <3>1 DEF Inv, FullInv
      <4> QED
        BY <1>0, <2>1, <4>1, <4>2 DEF Request
    <3>2. full' = full \/ (full' = full \cup {Request(c)} /\ Request(c) \in relays')
      OBVIOUS
    <3>3. conn'[c] = "writing" /\ Request(c)[1] = c /\ Request(c)' = Request(c)
      BY <1>0, <2>1, <2>2 DEF Request
    <3> QED
      BY <3>1, <3>2, <3>3 DEF FullInv
  <2> QED
    BY <2>1, <2>5, <2>6, <2>7, <2>8, <2>9, RequestStep
<1>4. CASE Written(c)
  <2>1. /\ UNCHANGED <<exit, sent, pending, first, server, noticed, serial, body, relays, lines>>
        /\ conn[c] = "writing" /\ answered' = answered \cup {Request(c)}
        /\ full' = full \ {Request(c)}
        /\ \E where \in {"idle", "closed"} :
             conn' = [conn EXCEPT ![c] = where] /\ (where = "idle" => c \notin noticed)
    BY <1>4 DEF Written, Move, Release
  <2>2. Request(c) \in lines \cup relays
    BY <2>1 DEF Inv, LogInv
  <2>3. TypeOK'
    BY <1>0, <2>1, <2>2 DEF Inv, TypeOK, Open, Waiting, InFlight
  <2>4. LogInv'
    BY <1>0, <2>1, <2>2 DEF Inv, LogInv, InFlight, Request, Requests
  <2>5. NoticedInv'
    BY <1>0, <2>1 DEF Inv, NoticedInv
  <2>6. \A d \in Connections : conn'[d] \in Open /\ conn[d] \notin Open => server = "accepting"
    BY <1>0, <2>1 DEF Open, InFlight
  <2>7. FullInv'
    BY <1>0, <2>1 DEF Inv, FullInv, Request, Requests
  <2> QED
    BY <2>1, <2>3, <2>4, <2>5, <2>6, <2>7, RequestStep
<1>5. CASE TakesIn(c)
  <2>1. /\ UNCHANGED <<exit, sent, pending, first, server, conn, noticed, serial, body, relays>>
        /\ UNCHANGED <<lines, answered>> /\ full' \subseteq full
    BY <1>5 DEF TakesIn, Release
  <2>2. TypeOK'
    BY <1>0, <2>1 DEF Inv, TypeOK
  <2>3. LogInv' /\ FullInv' /\ NoticedInv'
    BY <2>1 DEF Inv, LogInv, FullInv, NoticedInv, Request
  <2> QED
    BY <2>1, <2>2, <2>3, RequestStep
<1> QED
  BY <1>1, <1>2, <1>3, <1>4, <1>5

LEMMA RelayStep == ASSUME Inv, NEW q \in relays, RelayLogs(q) PROVE Inv'
<1>1. /\ UNCHANGED <<exit, sent, pending, first, server, conn, noticed, serial, body, answered>>
      /\ relays' = relays \ {q} /\ lines' = lines \cup {q}
      /\ full' = full /\ q \notin full
  BY DEF RelayLogs, signalVars
<1>2. lines' \cup relays' = lines \cup relays /\ lines' \cap relays' = {}
  BY <1>1 DEF Inv, LogInv
<1>3. TypeOK'
  BY <1>1 DEF Inv, TypeOK
<1>4. LogInv'
  BY <1>1, <1>2 DEF Inv, LogInv, Request
<1>5. NoticedInv'
  BY <1>1 DEF Inv, NoticedInv
<1>6. FullInv'
  BY <1>1 DEF Inv, FullInv, Request
<1> QED
  BY <1>1, <1>3, <1>4, <1>5, <1>6, RequestStep

THEOREM DrainInvariant == Spec => []Inv
<1>1. Inv /\ [Next]_vars => Inv'
  <2> SUFFICES ASSUME Inv, [Next]_vars PROVE Inv'
    OBVIOUS
  <2>1. CASE UNCHANGED vars
    BY <2>1
    DEF vars, signalVars, requestVars, Inv, TypeOK, LoopInv, SignalInv, LogInv, FullInv, NoticedInv, Request
  <2>2. CASE Next
    BY <2>1, <2>2, LoopStep, ConnectionStep, RelayStep DEF Next, Ended
  <2> QED
    BY <2>1, <2>2
<1> QED
  BY InitInv, <1>1, PTL DEF Spec

----------------------------------------------------------------------------
(* Types, for every number of connections and every bound. *)
THEOREM DrainTyped == Spec => []TypeOK
BY DrainInvariant, PTL DEF Inv

(* Exit code 0 follows a signal, and cuts no connection off. *)
THEOREM ExitZeroIsClean == Spec => []CleanExitIsDrained
<1>1. Inv => CleanExitIsDrained
  BY DEF Inv, TypeOK, LoopInv, CleanExitIsDrained
<1> QED
  BY DrainInvariant, <1>1, PTL

(* Giving up the drain takes two signals. *)
THEOREM DrainSurvivesOneSignal == Spec => []OneSignalDrains
<1>1. Inv => OneSignalDrains
  BY DEF Inv, SignalInv, OneSignalDrains
<1> QED
  BY DrainInvariant, <1>1, PTL

(* A response is never complete without its line or a relay to write it.   *)
THEOREM AnswersHaveLines == Spec => []AnswersAreAccountedFor
<1>1. Inv => AnswersAreAccountedFor
  BY DEF Inv, LogInv, AnswersAreAccountedFor
<1> QED
  BY DrainInvariant, <1>1, PTL

(***************************************************************************)
(* What a relay waits for in sender.send is a client that is connected and *)
(* whose response it is: a connection that ends takes the receiver with    *)
(* it.  A drain that is over therefore leaves no relay behind that waits.  *)
(***************************************************************************)
THEOREM RelaysWait == Spec => []RelaysWaitForTheirClient
<1>1. Inv => RelaysWaitForTheirClient
  <2> SUFFICES ASSUME Inv PROVE RelaysWaitForTheirClient
    OBVIOUS
  <2>1. ASSUME NEW q \in full
        PROVE  q \in relays /\ q[1] \in Connections /\ conn[q[1]] = "writing" /\ Request(q[1]) = q
    BY DEF Inv, TypeOK, FullInv, Requests
  <2>2. ASSUME server = "returned" PROVE full = {}
    BY <2>1, <2>2 DEF Inv, LoopInv, Open, InFlight
  <2> QED
    BY <2>1, <2>2 DEF RelaysWaitForTheirClient
<1> QED
  BY DrainInvariant, <1>1, PTL

(* A connection that was told of the shutdown takes no new request.        *)
THEOREM DrainIsFinal == Spec => DrainTakesNoNewRequest
<1> DEFINE Step == \A c \in noticed : serial'[c] # serial[c] \/ conn'[c] \in Waiting => conn[c] = "reading"
<1>1. Inv /\ [Next]_vars => [Step]_vars
  <2> SUFFICES ASSUME Inv, Next, NEW c \in noticed,
                      serial'[c] # serial[c] \/ conn'[c] \in Waiting
               PROVE  conn[c] = "reading"
    BY DEF vars
  <2>0. /\ c \in Connections /\ conn[c] \notin {"new", "idle"}
        /\ conn \in [Connections -> Open \cup {"new", "closed"}] /\ serial \in [Connections -> Nat]
    BY DEF Inv, TypeOK, NoticedInv
  <2>1. ASSUME UNCHANGED <<conn, serial>> PROVE conn[c] = "reading"
    BY <2>0, <2>1 DEF Waiting
  <2>2. ASSUME NEW d \in Connections,
               \/ Accept(d) \/ Aborted(d) \/ Notices(d) \/ HeadTimesOut(d)
               \/ Dropped(d) \/ Handled(d) \/ Written(d)
        PROVE  conn[c] = "reading"
    <3>1. UNCHANGED serial /\ (conn' = conn \/ \E where : conn' = [conn EXCEPT ![d] = where]
                                 /\ (where \in Waiting => d \notin noticed \/ conn[d] = "new"))
      BY <2>2
      DEF Accept, Aborted, Notices, HeadTimesOut, Dropped, Handled, Written, Move, requestVars,
          Waiting
    <3> QED
      BY <2>0, <3>1 DEF Waiting
  <2>3. ASSUME NEW d \in Connections, HeadArrives(d) PROVE conn[c] = "reading"
    <3>1. conn[d] \in Waiting /\ (\E where : conn' = [conn EXCEPT ![d] = where])
          /\ (serial' = serial \/ serial' = [serial EXCEPT ![d] = @ + 1])
      BY <2>3 DEF HeadArrives, Move, Waiting
    <3> QED
      BY <2>0, <3>1 DEF Waiting
  <2> QED
    BY <2>1, <2>2, <2>3
    DEF Next, Loop, AcceptFails, Returns, Exits, StartsDrain, Signal, SecondSignal, RelayLogs,
        TakesIn, Ended, vars, requestVars
<1> QED
  BY DrainInvariant, <1>1, PTL DEF Spec, DrainTakesNoNewRequest

----------------------------------------------------------------------------
(* What is left of a connection that was told of the shutdown. *)
Left(where) ==
  CASE where = "reading"  -> 3
    [] where = "handling" -> 2
    [] where = "writing"  -> 1
    [] where = "closed"   -> 0

(* Each step of a connection that was told of the shutdown takes something *)
(* off what is left of it.                                                 *)
DrainGoesForward ==
  [][\A c \in noticed :
       /\ c \in noticed'
       /\ conn'[c] = conn[c] \/ (conn[c] # "closed" /\ Left(conn'[c]) < Left(conn[c]))]_vars

(***************************************************************************)
(* A connection that was told of the shutdown only goes forward, by three  *)
(* steps at most: the head it reads, its handler, its response.            *)
(***************************************************************************)
THEOREM DrainAdvances == Spec => DrainGoesForward
<1> DEFINE Step == \A c \in noticed :
                     /\ c \in noticed'
                     /\ conn'[c] = conn[c] \/ (conn[c] # "closed" /\ Left(conn'[c]) < Left(conn[c]))
<1>1. Inv /\ [Next]_vars => [Step]_vars
  <2> SUFFICES ASSUME Inv, Next, NEW c \in noticed
               PROVE  /\ c \in noticed'
                      /\ conn'[c] = conn[c] \/ (conn[c] # "closed" /\ Left(conn'[c]) < Left(conn[c]))
    BY DEF vars
  <2>0. /\ c \in Connections /\ conn[c] \in {"reading", "handling", "writing", "closed"}
        /\ conn \in [Connections -> Open \cup {"new", "closed"}]
    BY DEF Inv, TypeOK, NoticedInv, Open, Waiting, InFlight
  <2>1. CASE UNCHANGED <<conn, noticed>>
    BY <2>1
  <2>2. ASSUME NEW d \in Connections,
               \/ Accept(d) \/ Aborted(d) \/ HeadArrives(d) \/ HeadTimesOut(d)
               \/ Handled(d) \/ Written(d) \/ Dropped(d)
        PROVE  /\ c \in noticed'
               /\ conn'[c] = conn[c] \/ (conn[c] # "closed" /\ Left(conn'[c]) < Left(conn[c]))
    <3>1. noticed' = noticed
      BY <2>2 DEF Accept, Aborted, HeadArrives, HeadTimesOut, Handled, Written, Dropped
    <3>2. CASE c # d
      BY <2>0, <2>2, <3>1, <3>2
      DEF Accept, Aborted, HeadArrives, HeadTimesOut, Handled, Written, Dropped, Move
    <3>3. CASE c = d
      <4>1. \/ conn[c] \in Open /\ conn'[c] = "closed"
            \/ conn[c] = "reading" /\ conn'[c] = "handling"
            \/ conn[c] = "handling" /\ conn'[c] = "writing"
        BY <2>0, <2>2, <3>3
        DEF Accept, Aborted, HeadArrives, HeadTimesOut, Handled, Written, Dropped, Move,
            Open, Waiting, InFlight
      <4> QED
        BY <2>0, <3>1, <4>1 DEF Left, Open, Waiting, InFlight
    <3> QED
      BY <3>2, <3>3
  <2>3. ASSUME NEW d \in Connections, Notices(d)
        PROVE  /\ c \in noticed'
               /\ conn'[c] = conn[c] \/ (conn[c] # "closed" /\ Left(conn'[c]) < Left(conn[c]))
    <3>1. c # d /\ c \in noticed' /\ conn'[c] = conn[c]
      BY <2>0, <2>3 DEF Notices, Move
    <3> QED
      BY <3>1
  <2> QED
    BY <2>1, <2>2, <2>3
    DEF Next, Loop, AcceptFails, Returns, Exits, StartsDrain, Signal, SecondSignal, RelayLogs,
        TakesIn, Ended, vars, requestVars
<1> QED
  BY DrainInvariant, <1>1, PTL DEF Spec, DrainGoesForward
=============================================================================
