-------------------------------- MODULE Login --------------------------------
(***************************************************************************)
(* How `mortis-agent auth login --provider openai' gets its credential     *)
(* (pkg/auth/oauth.go): LoginBrowser, which serves a callback for the      *)
(* browser and takes the first result its handlers put into a channel, and *)
(* LoginDeviceCode, which polls until the user has entered a code.         *)
(***************************************************************************)
EXTENDS Naturals, Sequences

CONSTANT Handlers   \* requests to the callback

VARIABLES
    way,       \* "browser" or "device"
    login,     \* where the login is
    resultCh,  \* results of the handlers
    handler,   \* where each request is, and what it brings
    granted,   \* the user has entered the code
    outcome    \* what the login returns

loginVars == <<way, login, resultCh, handler, granted, outcome>>

\* A request brings the state of this login or another one, and a code or none
Request == [ours : BOOLEAN, code : BOOLEAN]
Consent == [ours |-> TRUE, code |-> TRUE]

Init ==
    /\ way \in {"browser", "device"}
    /\ login = "start"
    /\ resultCh = <<>>
    /\ handler = [h \in Handlers |-> [pc |-> "none", request |-> [ours |-> FALSE, code |-> FALSE]]]
    /\ granted = FALSE
    /\ outcome = ""

Goes(pc, result) == login' = pc /\ outcome' = result

-----------------------------------------------------------------------------
\* LoginBrowser

\* The port of the callback is free or it is not
Listen ==
    /\ way = "browser" /\ login = "start"
    /\ Goes("wait", "") \/ Goes("ended", "failed")
    /\ UNCHANGED <<way, resultCh, handler, granted>>

\* Mutant of Result: the state is not compared.
ResultOfAny(request) == IF request.code THEN "code" ELSE "error"

\* What the handler of the callback makes of a request
Result(request) ==
    IF ~request.ours THEN "error"
    ELSE IF ~request.code THEN "error" ELSE "code"

Callback(h, request) ==
    /\ way = "browser" /\ login \in {"wait", "exchange"}
    /\ handler[h].pc = "none"
    /\ handler' = [handler EXCEPT ![h] = [pc |-> "send", request |-> request]]
    /\ UNCHANGED <<way, login, resultCh, granted, outcome>>

\* resultCh holds one result; a handler that finds one there waits
SendResult(h) ==
    /\ handler[h].pc = "send" /\ resultCh = <<>>
    /\ resultCh' = <<Result(handler[h].request)>>
    /\ handler' = [handler EXCEPT ![h].pc = "served"]
    /\ UNCHANGED <<way, login, granted, outcome>>

TakeResult ==
    /\ login = "wait" /\ resultCh # <<>>
    /\ resultCh' = <<>>
    /\ \/ Head(resultCh) = "code" /\ Goes("exchange", "")
       \/ Head(resultCh) # "code" /\ Goes("shutdown", "failed")
    /\ UNCHANGED <<way, handler, granted>>

\* Five minutes have passed
BrowserTimeout ==
    /\ login = "wait"
    /\ Goes("shutdown", "failed")
    /\ UNCHANGED <<way, resultCh, handler, granted>>

Exchange ==
    /\ way = "browser" /\ login = "exchange"
    /\ Goes("shutdown", "credential") \/ Goes("shutdown", "failed")
    /\ UNCHANGED <<way, resultCh, handler, granted>>

\* Mutant of Shutdown: it waits for the handlers.
ShutdownWaiting ==
    /\ login = "shutdown"
    /\ \A h \in Handlers : handler[h].pc # "send"
    /\ Goes("ended", outcome)
    /\ UNCHANGED <<way, resultCh, handler, granted>>

\* server.Shutdown waits for the handlers, but two seconds at most
Shutdown ==
    /\ login = "shutdown"
    /\ Goes("ended", outcome)
    /\ UNCHANGED <<way, resultCh, handler, granted>>

-----------------------------------------------------------------------------
\* LoginDeviceCode

RequestCode ==
    /\ way = "device" /\ login = "start"
    /\ Goes("poll", "") \/ Goes("ended", "failed")
    /\ UNCHANGED <<way, resultCh, handler, granted>>

EnterCode ==
    /\ login \in {"poll", "polling"} /\ ~granted
    /\ granted' = TRUE
    /\ UNCHANGED <<way, login, resultCh, handler, outcome>>

\* The ticker
Poll ==
    /\ login = "poll"
    /\ Goes("polling", "")
    /\ UNCHANGED <<way, resultCh, handler, granted>>

\* A poll that fails, in the request or in the exchange that follows, is as good as pending
PollEnds ==
    /\ login = "polling"
    /\ Goes("poll", "") \/ (granted /\ Goes("ended", "credential"))
    /\ UNCHANGED <<way, resultCh, handler, granted>>

\* Fifteen minutes have passed
DeviceTimeout ==
    /\ login = "poll"
    /\ Goes("ended", "failed")
    /\ UNCHANGED <<way, resultCh, handler, granted>>

LoginStep ==
    \/ Listen \/ TakeResult \/ BrowserTimeout \/ Exchange \/ Shutdown
    \/ RequestCode \/ Poll \/ PollEnds

Next ==
    \/ LoginStep \/ DeviceTimeout \/ EnterCode
    \/ \E h \in Handlers : SendResult(h) \/ \E request \in Request : Callback(h, request)

Spec == Init /\ [][Next]_loginVars

\* Requests to the server return, and select takes a timer that has fired sooner or later,
\* however often it finds the ticker ready too.
FairSpec == Spec /\ WF_loginVars(LoginStep) /\ SF_loginVars(DeviceTimeout)

-----------------------------------------------------------------------------
TypeOK ==
    /\ way \in {"browser", "device"}
    /\ login \in {"start", "wait", "exchange", "shutdown", "poll", "polling", "ended"}
    /\ Len(resultCh) <= 1
    /\ \A h \in Handlers :
         handler[h].pc \in {"none", "send", "served"} /\ handler[h].request \in Request
    /\ granted \in BOOLEAN
    /\ outcome \in {"", "failed", "credential"}

\* A login that succeeds had the user's consent: the browser came back with the state of this
\* login and a code, whatever other requests reached the callback before or after it, or the
\* user had entered the code of this device (oauth.go:66, oauth.go:242).
SuccessNeedsConsent ==
    outcome = "credential" =>
      IF way = "browser" THEN \E h \in Handlers : handler[h] = [pc |-> "served", request |-> Consent]
      ELSE granted

\* Every login ends, also when more requests reach the callback than its channel holds.
LoginEnds == <>(login = "ended")
=============================================================================
