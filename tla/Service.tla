------------------------------- MODULE Service -------------------------------
(***************************************************************************)
(* A call of a service: the clients (service_client.tpp), each with a      *)
(* mutex, a condition variable and one place for a response, the server    *)
(* (service_server.tpp) and the parameter server's store behind it         *)
(* (parameter_server.cpp).  Requests of all clients arrive on one topic    *)
(* and the answer to each is published to all of them: neither the         *)
(* messages nor the topics say whose call an answer belongs to.  The       *)
(* numbers of the calls are kept here only to state properties.            *)
(***************************************************************************)
EXTENDS Naturals, Sequences

CONSTANTS
  Client,       \* the objects of class ServiceClient, one thread calling each
  Timed,        \* those that call with a duration
  Key, Value,   \* the parameters' names and values
  NoValue,      \* the empty value of a default message
  Nothing,      \* a null remote_response
  MaxCalls,     \* bound: MaxCalls[c] calls of c
  MaxCommands,  \* bound: setParam commands
  MaxFaults     \* bound: messages the middleware drops and spurious wake-ups

ASSUME ServiceAssumption ==
  /\ Timed \subseteq Client
  /\ NoValue \notin Value
  /\ MaxCalls \in [Client -> Nat]
  /\ MaxCommands \in Nat /\ MaxFaults \in Nat

VARIABLES
  store,       \* param_store
  server,      \* the request being handled and what find returned, or Nothing
  requests,    \* requests[c]: requests of c that have not reached the server
  responses,   \* responses[c]: answers that have not reached c's subscriber
  answers,     \* every answer the server gave
  place,       \* place[c]: where c's call is
  remote,      \* remote[c]: remote_response
  returned,    \* returned[c]: what the last call that returned brought
  empty,       \* empty[c]: a call of c has returned without a response
  calls,       \* calls[c]: calls made
  commands,    \* setParam commands run
  faults       \* messages dropped and spurious wake-ups

storeVars == <<store, server, answers, commands>>
clientVars == <<place, remote, returned, empty, calls>>
vars == <<store, server, requests, responses, answers, place, remote,
          returned, empty, calls, commands, faults>>

MaybeValue == Value \cup {NoValue}
Request == [client : Client, number : Nat \ {0}, key : Key, value : MaybeValue, rw : BOOLEAN]
Response == Request

ASSUME NothingAssumption == /\ Nothing \notin Response
                            /\ Nothing \notin [request : Request, found : BOOLEAN]

Place == {"idle", "sent", "waiting", "woken"}

TypeOK ==
  /\ store \in [Key -> MaybeValue]
  /\ server \in [request : Request, found : BOOLEAN] \cup {Nothing}
  /\ requests \in [Client -> Seq(Request)]
  /\ responses \in [Client -> Seq(Response)]
  /\ answers \subseteq [key : Key, value : MaybeValue, rw : BOOLEAN]
  /\ place \in [Client -> Place]
  /\ remote \in [Client -> Response \cup {Nothing}]
  /\ returned \in [Client -> Response \cup {Nothing}]
  /\ empty \in [Client -> BOOLEAN]
  /\ calls \in [Client -> Nat]
  /\ commands \in 0 .. MaxCommands
  /\ faults \in 0 .. MaxFaults

Init ==
  /\ store = [k \in Key |-> NoValue]
  /\ server = Nothing
  /\ requests = [c \in Client |-> << >>]
  /\ responses = [c \in Client |-> << >>]
  /\ answers = {}
  /\ place = [c \in Client |-> "idle"]
  /\ remote = [c \in Client |-> Nothing]
  /\ returned = [c \in Client |-> Nothing]
  /\ empty = [c \in Client |-> FALSE]
  /\ calls = [c \in Client |-> 0]
  /\ commands = 0 /\ faults = 0

-----------------------------------------------------------------------------
(* The client.                                                             *)

Moves(c, from, to) == place[c] = from /\ place' = [place EXCEPT ![c] = to]

\* ParameterClient::set and get fill a request, and call sends it.
Sends(c, key, value, rw) ==
  LET request == [client |-> c, number |-> calls[c] + 1, key |-> key, value |-> value, rw |-> rw] IN
  /\ calls[c] < MaxCalls[c]
  /\ Moves(c, "idle", "sent")
  /\ calls' = [calls EXCEPT ![c] = @ + 1]
  /\ requests' = [requests EXCEPT ![c] = Append(@, request)]
  /\ UNCHANGED <<storeVars, responses, remote, returned, empty, faults>>

Sets(c) == \E k \in Key, v \in Value : Sends(c, k, v, TRUE)
Gets(c) == \E k \in Key : Sends(c, k, NoValue, FALSE)

\* call takes response_mutex and gives it up in wait, in one step for the others.
Waits(c) ==
  /\ Moves(c, "sent", "waiting")
  /\ UNCHANGED <<storeVars, requests, responses, remote, returned, empty, calls, faults>>

\* The subscriber's callback: one response is kept, and notify_all reaches
\* only a thread that is already waiting.
Receives(c) ==
  /\ responses[c] # << >>
  /\ remote' = [remote EXCEPT ![c] = Head(responses[c])]
  /\ responses' = [responses EXCEPT ![c] = Tail(@)]
  /\ place' = [place EXCEPT ![c] = IF @ = "waiting" THEN "woken" ELSE @]
  /\ UNCHANGED <<storeVars, requests, returned, empty, calls, faults>>

\* Fault: the duration bounds each sleep and not the call.
SleepsAgain(c) ==
  /\ c \in Timed
  /\ remote[c] # Nothing
  /\ Moves(c, "waiting", "woken")
  /\ UNCHANGED <<storeVars, requests, responses, remote, returned, empty, calls, faults>>

TimesOut(c) ==
  /\ c \in Timed
  /\ Moves(c, "waiting", "woken")
  /\ UNCHANGED <<storeVars, requests, responses, remote, returned, empty, calls, faults>>

WakesSpuriously(c) ==
  /\ faults < MaxFaults
  /\ Moves(c, "waiting", "woken")
  /\ faults' = faults + 1
  /\ UNCHANGED <<storeVars, requests, responses, remote, returned, empty, calls>>

\* Fault: the response that was read is left in its place.
ReturnsKeeping(c) ==
  /\ Moves(c, "woken", "idle")
  /\ returned' = [returned EXCEPT ![c] = remote[c]]
  /\ empty' = [empty EXCEPT ![c] = @ \/ remote[c] = Nothing]
  /\ UNCHANGED <<storeVars, requests, responses, remote, calls, faults>>

\* wait tests no condition: the call returns with whatever is there.
Returns(c) ==
  /\ Moves(c, "woken", "idle")
  /\ returned' = [returned EXCEPT ![c] = remote[c]]
  /\ empty' = [empty EXCEPT ![c] = @ \/ remote[c] = Nothing]
  /\ remote' = [remote EXCEPT ![c] = Nothing]
  /\ UNCHANGED <<storeVars, requests, responses, calls, faults>>

ClientSteps(c) ==
  Sets(c) \/ Gets(c) \/ Waits(c) \/ Receives(c) \/ TimesOut(c) \/ WakesSpuriously(c) \/ Returns(c)

-----------------------------------------------------------------------------
(* The server.                                                             *)

\* param_store.emplace keeps the value that is already there.
Emplaced(k, v) == [store EXCEPT ![k] = IF @ = NoValue THEN v ELSE @]

\* The request's subscriber calls back, and the callback looks the key up.
Finds(c) ==
  /\ server = Nothing
  /\ requests[c] # << >>
  /\ LET request == Head(requests[c]) IN
       server' = [request |-> request, found |-> store[request.key] # NoValue]
  /\ requests' = [requests EXCEPT ![c] = Tail(@)]
  /\ UNCHANGED <<store, answers, commands, responses, clientVars, faults>>

StoreAfter(request) ==
  IF request.rw THEN Emplaced(request.key, request.value) ELSE store

\* Fault: the answer to a write is the value of the request.
EchoOf(request, found) ==
  IF ~request.rw /\ ~found THEN [request EXCEPT !.value = NoValue, !.rw = FALSE]
  ELSE IF request.rw THEN request ELSE [request EXCEPT !.value = store[request.key], !.rw = TRUE]

\* Fault: a write whose key was not found answers with its own value.
ResponseAsLookedUp(request, found) ==
  IF found THEN [request EXCEPT !.value = store[request.key], !.rw = TRUE]
  ELSE IF request.rw THEN request ELSE [request EXCEPT !.value = NoValue, !.rw = FALSE]

\* What the callback puts in the response.
ResponseTo(request, found) ==
  IF ~request.rw /\ ~found
  THEN [request EXCEPT !.value = NoValue, !.rw = FALSE]
  ELSE [request EXCEPT !.value = StoreAfter(request)[request.key], !.rw = TRUE]

\* The callback ends and the response is published to every client.
Answers ==
  /\ server # Nothing
  /\ LET response == ResponseTo(server.request, server.found) IN
       /\ store' = StoreAfter(server.request)
       /\ responses' = [c \in Client |-> Append(responses[c], response)]
       /\ answers' = answers \cup {[key |-> response.key, value |-> response.value, rw |-> response.rw]}
  /\ server' = Nothing
  /\ UNCHANGED <<commands, requests, clientVars, faults>>

\* The command setParam runs in the command manager's thread, between any two
\* steps of the callback: the lock of the store is commented out.
setParam(k, v) ==
  /\ commands < MaxCommands
  /\ store' = Emplaced(k, v)
  /\ commands' = commands + 1
  /\ UNCHANGED <<server, answers, requests, responses, clientVars, faults>>

ServerSteps == (\E c \in Client : Finds(c)) \/ Answers \/ (\E k \in Key, v \in Value : setParam(k, v))

-----------------------------------------------------------------------------
(* The middleware drops a request or an answer.                            *)

LosesRequest(c) ==
  /\ faults < MaxFaults /\ requests[c] # << >>
  /\ requests' = [requests EXCEPT ![c] = Tail(@)]
  /\ faults' = faults + 1
  /\ UNCHANGED <<storeVars, responses, clientVars>>

LosesResponse(c) ==
  /\ faults < MaxFaults /\ responses[c] # << >>
  /\ responses' = [responses EXCEPT ![c] = Tail(@)]
  /\ faults' = faults + 1
  /\ UNCHANGED <<storeVars, requests, clientVars>>

Next ==
  \/ \E c \in Client : ClientSteps(c) \/ LosesRequest(c) \/ LosesResponse(c)
  \/ ServerSteps

Spec == Init /\ [][Next]_vars

\* The scheduler runs every thread, a duration ends, and the middleware
\* delivers what it does not drop; nobody has to call and no wake-up has to be
\* spurious.
Fairness ==
  /\ \A c \in Client : WF_vars(Waits(c)) /\ WF_vars(Receives(c)) /\ WF_vars(TimesOut(c))
                       /\ WF_vars(Returns(c)) /\ WF_vars(Finds(c))
  /\ WF_vars(Answers)

FairSpec == Spec /\ Fairness

-----------------------------------------------------------------------------
(* Properties.                                                             *)

\* The read that found nothing is answered from what it saw: it counts as
\* answered from then on, though a command may write the key before the
\* callback ends.
Answered ==
  answers \cup IF server = Nothing THEN {}
               ELSE IF server.request.rw \/ server.found THEN {}
               ELSE {[key |-> server.request.key, value |-> NoValue, rw |-> FALSE]}

\* The store behind the service, with its handler in two steps, its commands in
\* another thread and its lock commented out, still behaves as one whose writes
\* and reads are atomic and whose answers tell what is stored, whether a write
\* updates a parameter (as parameter_server.cpp:30 says) or leaves it (as the
\* emplace does) (parameter_server.cpp, the callback and setParam).
Abstract == INSTANCE AtomicStore WITH answers <- Answered
StoreIsAtomic == Abstract!Spec

\* Whatever answer a call brings back, its own or a stale one, names a value
\* that is still the parameter's: this is what emplace buys the callers of a
\* client that cannot tell answers apart (parameter_server.cpp:33).
Brought(r) == r # Nothing => (r.rw => r.value # NoValue /\ r.value = store[r.key])
StaleAnswersStayTrue == \A c \in Client : Brought(remote[c]) /\ Brought(returned[c])

\* A client that shares its topics with nobody and never came back without a
\* response always brings the answer to its own request: remote_response is
\* emptied at every return (service_client.tpp:48-53).
Alone(c) == \A d \in Client \ {c} : calls[d] = 0
OwnAnswer ==
  \A c \in Client : (Alone(c) /\ ~empty[c] /\ place[c] = "idle" /\ returned[c] # Nothing) =>
    returned[c].client = c /\ returned[c].number = calls[c]

\* A call with a duration ends, whatever is lost and however the answer races
\* with the wait (service_client.tpp:37-56).
TimedCallReturns == \A c \in Timed : place[c] # "idle" ~> place[c] = "idle"
=============================================================================
