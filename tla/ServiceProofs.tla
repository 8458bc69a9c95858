---------------------------- MODULE ServiceProofs ----------------------------
(***************************************************************************)
(* Proofs about Service for any clients, keys, values and bounds: type     *)
(* correctness, that a stale answer stays true, that a client by itself    *)
(* gets its own answers, why a call sleeps, and that the store behind the  *)
(* service is the write-once store.                                        *)
(***************************************************************************)
EXTENDS Service, SequenceTheorems, TLAPS

\* An answer is true of a store.
Says(s, r) == r.rw => r.value # NoValue /\ r.value = s[r.key]

\* A request to write carries a value.
Filled(r) == r.rw => r.value \in Value

\* The requests on their way and the one being handled.
Asked ==
  /\ \A c \in Client : \A i \in 1..Len(requests[c]) : Filled(requests[c][i])
  /\ server # Nothing => Filled(server.request)

\* What find saw is still so: nothing is ever erased.
Seen == server # Nothing => (server.found => store[server.request.key] # NoValue)

\* The answers on their way.
Told == \A c \in Client : \A i \in 1..Len(responses[c]) : Says(store, responses[c][i])

Kept == \A c \in Client :
  /\ remote[c] # Nothing => Says(store, remote[c])
  /\ returned[c] # Nothing => Says(store, returned[c])

Inv == TypeOK /\ Asked /\ Seen /\ Told /\ Kept

\* The store only gains keys, and an answer about it stays true.
Grows == \A k \in Key : store[k] # NoValue => store'[k] = store[k]

-----------------------------------------------------------------------------

LEMMA EmplacedGrows ==
  ASSUME NEW k \in Key, NEW v \in Value, TypeOK
  PROVE  /\ Emplaced(k, v) \in [Key -> MaybeValue]
         /\ \A j \in Key : store[j] # NoValue => Emplaced(k, v)[j] = store[j]
         /\ Emplaced(k, v)[k] # NoValue
PROOF
  BY ServiceAssumption DEF Emplaced, TypeOK, MaybeValue

LEMMA Initially == Init => Inv
PROOF
  <1> SUFFICES ASSUME Init PROVE Inv
    OBVIOUS
  <1>1. TypeOK
    BY ServiceAssumption DEF Init, TypeOK, MaybeValue, Place
  <1>2. Asked /\ Seen /\ Told /\ Kept
    BY DEF Init, Asked, Seen, Told, Kept
  <1> QED
    BY <1>1, <1>2 DEF Inv

\* An answer to a request the server handles is an answer about the store.
LEMMA ResponseIsTrue ==
  ASSUME Inv, server # Nothing,
         NEW request, request = server.request,
         NEW found, found = server.found
  PROVE  /\ ResponseTo(request, found) \in Response
         /\ StoreAfter(request) \in [Key -> MaybeValue]
         /\ \A j \in Key : store[j] # NoValue => StoreAfter(request)[j] = store[j]
         /\ ResponseTo(request, found).rw =>
              /\ ResponseTo(request, found).value # NoValue
              /\ ResponseTo(request, found).value = StoreAfter(request)[ResponseTo(request, found).key]
         /\ ResponseTo(request, found).key = request.key
PROOF
  <1>1. request \in Request /\ found \in BOOLEAN /\ Filled(request)
        /\ (found => store[request.key] # NoValue)
    BY DEF Inv, TypeOK, Asked, Seen
  <1>2. request.key \in Key /\ request.value \in MaybeValue /\ request.rw \in BOOLEAN
    BY <1>1 DEF Request
  <1>3. store \in [Key -> MaybeValue]
    BY DEF Inv, TypeOK
  <1>4. request.rw => request.value \in Value
    BY <1>1 DEF Filled
  <1>5. /\ StoreAfter(request) \in [Key -> MaybeValue]
        /\ \A j \in Key : store[j] # NoValue => StoreAfter(request)[j] = store[j]
        /\ request.rw => StoreAfter(request)[request.key] # NoValue
    BY <1>2, <1>3, <1>4, EmplacedGrows DEF StoreAfter, Inv
  <1>6. CASE ~request.rw /\ ~found
    <2>1. ResponseTo(request, found) = [request EXCEPT !.value = NoValue, !.rw = FALSE]
      BY <1>6 DEF ResponseTo
    <2> QED
      BY <2>1, <1>1, <1>2, <1>5 DEF Request, Response, MaybeValue
  <1>7. CASE request.rw \/ found
    <2>1. ResponseTo(request, found)
            = [request EXCEPT !.value = StoreAfter(request)[request.key], !.rw = TRUE]
      BY <1>7, <1>2, <1>1 DEF ResponseTo
    <2>2. StoreAfter(request)[request.key] # NoValue
      BY <1>7, <1>1, <1>5 DEF StoreAfter
    <2>3. StoreAfter(request)[request.key] \in MaybeValue
      BY <1>5, <1>2
    <2> QED
      BY <2>1, <2>2, <2>3, <1>1, <1>2, <1>5 DEF Request, Response
  <1> QED
    BY <1>6, <1>7, <1>1

-----------------------------------------------------------------------------
\* One lemma per group of steps.

LEMMA ClientKeeps ==
  ASSUME Inv, NEW c \in Client, ClientSteps(c)
  PROVE  Inv' /\ UNCHANGED <<store, server, answers>>
PROOF
  <1> USE DEF storeVars, clientVars
  <1>0. TypeOK
    BY DEF Inv
  <1>1. ASSUME NEW k \in Key, NEW v \in MaybeValue, NEW rw \in BOOLEAN,
               rw => v \in Value, Sends(c, k, v, rw)
        PROVE  Inv' /\ UNCHANGED <<store, server, answers>>
    <2> DEFINE request == [client |-> c, number |-> calls[c] + 1, key |-> k, value |-> v, rw |-> rw]
    <2>1. request \in Request /\ Filled(request)
      BY <1>0, <1>1 DEF TypeOK, Request, Filled
    <2> HIDE DEF request
    <2>2. /\ calls' = [calls EXCEPT ![c] = @ + 1]
          /\ requests' = [requests EXCEPT ![c] = Append(@, request)]
          /\ place' = [place EXCEPT ![c] = "sent"]
          /\ UNCHANGED <<store, server, answers, commands, responses, remote, returned, empty, faults>>
      BY <1>1 DEF Sends, Moves, request
    <2>3. TypeOK'
      <3>1. requests' \in [Client -> Seq(Request)]
        BY <1>0, <2>1, <2>2 DEF TypeOK
      <3>2. calls' \in [Client -> Nat] /\ place' \in [Client -> Place]
        BY <1>0, <2>2 DEF TypeOK, Place
      <3> QED
        BY <3>1, <3>2, <1>0, <2>2 DEF TypeOK
    <2>4. Asked'
      <3>1. ASSUME NEW d \in Client, NEW i \in 1..Len(requests'[d])
            PROVE  Filled(requests'[d][i])
        <4>1. CASE d = c
          <5>1. requests'[d] = Append(requests[c], request) /\ requests[c] \in Seq(Request)
            BY <4>1, <2>2, <1>0 DEF TypeOK
          <5>2. i \in 1..Len(requests[c]) \/ requests'[d][i] = request
            BY <5>1, <3>1, <2>1
          <5>3. i \in 1..Len(requests[c]) => requests'[d][i] = requests[c][i]
            BY <5>1, <2>1
          <5> QED
            BY <5>2, <5>3, <2>1 DEF Inv, Asked
        <4>2. CASE d # c
          BY <4>2, <2>2, <1>0, <3>1 DEF TypeOK, Inv, Asked
        <4> QED
          BY <4>1, <4>2
      <3> QED
        BY <3>1, <2>2 DEF Inv, Asked, Filled
    <2>5. Seen' /\ Told' /\ Kept'
      BY <2>2 DEF Inv, Seen, Told, Kept, Says
    <2> QED
      BY <2>2, <2>3, <2>4, <2>5 DEF Inv
  <1>2. CASE Sets(c)
    BY <1>1, <1>2 DEF Sets, MaybeValue
  <1>3. CASE Gets(c)
    BY <1>1, <1>3 DEF Gets, MaybeValue
  <1>4. CASE Waits(c) \/ TimesOut(c) \/ WakesSpuriously(c)
    <2>a. \E p \in Place : place' = [place EXCEPT ![c] = p]
      BY <1>4 DEF Waits, TimesOut, WakesSpuriously, Moves, Place
    <2>b. faults' = faults \/ (faults < MaxFaults /\ faults' = faults + 1)
      BY <1>4 DEF Waits, TimesOut, WakesSpuriously
    <2>1. /\ place' \in [Client -> Place]
          /\ faults' \in 0 .. MaxFaults
      BY <2>a, <2>b, <1>0, ServiceAssumption DEF TypeOK
    <2>2. UNCHANGED <<store, server, answers, commands, requests, responses, remote, returned, empty, calls>>
      BY <1>4 DEF Waits, TimesOut, WakesSpuriously
    <2>3. TypeOK'
      BY <2>1, <2>2, <1>0 DEF TypeOK
    <2> QED
      BY <2>2, <2>3 DEF Inv, Asked, Filled, Seen, Told, Kept, Says
  <1>5. CASE Receives(c)
    <2>1. /\ responses[c] # << >>
          /\ remote' = [remote EXCEPT ![c] = Head(responses[c])]
          /\ responses' = [responses EXCEPT ![c] = Tail(@)]
          /\ UNCHANGED <<store, server, answers, commands, requests, returned, empty, calls, faults>>
      BY <1>5 DEF Receives
    <2>2. /\ responses[c] \in Seq(Response) /\ Len(responses[c]) \in Nat \ {0}
          /\ Head(responses[c]) \in Response /\ Tail(responses[c]) \in Seq(Response)
          /\ Head(responses[c]) = responses[c][1]
          /\ Len(Tail(responses[c])) = Len(responses[c]) - 1
          /\ \A i \in 1..Len(Tail(responses[c])) : Tail(responses[c])[i] = responses[c][i+1]
      BY <2>1, <1>0 DEF TypeOK
    <2>3. place' \in [Client -> Place]
      BY <1>5, <1>0 DEF Receives, TypeOK, Place
    <2>4. remote' \in [Client -> Response \cup {Nothing}] /\ responses' \in [Client -> Seq(Response)]
      BY <2>1, <2>2, <1>0 DEF TypeOK
    <2>5. TypeOK'
      BY <2>1, <2>3, <2>4, <1>0 DEF TypeOK
    <2>6. Says(store, Head(responses[c]))
      BY <2>2 DEF Inv, Told
    <2>7. Told'
      <3>1. ASSUME NEW d \in Client, NEW i \in 1..Len(responses'[d])
            PROVE  Says(store, responses'[d][i])
        <4>1. CASE d = c
          <5>1. responses'[d] = Tail(responses[c])
            BY <4>1, <2>1, <1>0 DEF TypeOK
          <5>2. i + 1 \in 1..Len(responses[c]) /\ responses'[d][i] = responses[c][i+1]
            BY <5>1, <2>2, <3>1
          <5> QED
            BY <5>2 DEF Inv, Told
        <4>2. CASE d # c
          BY <4>2, <2>1, <1>0, <3>1 DEF TypeOK, Inv, Told
        <4> QED
          BY <4>1, <4>2
      <3> QED
        BY <3>1, <2>1 DEF Told
    <2>8. Kept'
      BY <2>1, <2>6, <1>0 DEF Inv, Kept, Says, TypeOK
    <2> QED
      BY <2>1, <2>5, <2>7, <2>8 DEF Inv, Asked, Filled, Seen
  <1>6. CASE Returns(c)
    <2>1. /\ place' \in [Client -> Place]
          /\ returned' = [returned EXCEPT ![c] = remote[c]]
          /\ remote' = [remote EXCEPT ![c] = Nothing]
          /\ empty' \in [Client -> BOOLEAN]
          /\ UNCHANGED <<store, server, answers, commands, requests, responses, calls, faults>>
      BY <1>6, <1>0 DEF Returns, Moves, TypeOK, Place
    <2>2. TypeOK'
      BY <2>1, <1>0 DEF TypeOK
    <2>3. Kept'
      BY <2>1, <1>0 DEF Inv, Kept, Says, TypeOK
    <2> QED
      BY <2>1, <2>2, <2>3 DEF Inv, Asked, Filled, Seen, Told, Says
  <1> QED
    BY <1>2, <1>3, <1>4, <1>5, <1>6 DEF ClientSteps

LEMMA LossKeeps ==
  ASSUME Inv, NEW c \in Client, LosesRequest(c) \/ LosesResponse(c)
  PROVE  Inv' /\ UNCHANGED <<store, server, answers>>
PROOF
  <1> USE DEF storeVars, clientVars
  <1>0. TypeOK
    BY DEF Inv
  <1>1. faults' \in 0 .. MaxFaults
    <2>1. faults < MaxFaults /\ faults' = faults + 1
      BY DEF LosesRequest, LosesResponse
    <2> QED
      BY <2>1, <1>0, ServiceAssumption DEF TypeOK
  <1>2. CASE LosesRequest(c)
    <2>1. /\ requests[c] # << >> /\ requests' = [requests EXCEPT ![c] = Tail(@)]
          /\ UNCHANGED <<store, server, answers, commands, responses, place, remote, returned, empty, calls>>
      BY <1>2 DEF LosesRequest
    <2>2. TypeOK'
      BY <2>1, <1>0, <1>1 DEF TypeOK
    <2>3. \A d \in Client : \A i \in 1..Len(requests'[d]) : Filled(requests'[d][i])
      <3>1. ASSUME NEW d \in Client, NEW i \in 1..Len(requests'[d])
            PROVE  Filled(requests'[d][i])
        <4>1. CASE d = c
          <5>1. i + 1 \in 1..Len(requests[c]) /\ requests'[d][i] = requests[c][i+1]
            BY <4>1, <2>1, <1>0, <3>1 DEF TypeOK
          <5> QED
            BY <5>1 DEF Inv, Asked
        <4>2. CASE d # c
          BY <4>2, <2>1, <1>0, <3>1 DEF TypeOK, Inv, Asked
        <4> QED
          BY <4>1, <4>2
      <3> QED
        BY <3>1
    <2> QED
      BY <2>1, <2>2, <2>3 DEF Inv, Asked, Filled, Seen, Told, Kept, Says
  <1>3. CASE LosesResponse(c)
    <2>1. /\ responses[c] # << >> /\ responses' = [responses EXCEPT ![c] = Tail(@)]
          /\ UNCHANGED <<store, server, answers, commands, requests, place, remote, returned, empty, calls>>
      BY <1>3 DEF LosesResponse
    <2>2. TypeOK'
      BY <2>1, <1>0, <1>1 DEF TypeOK
    <2>3. \A d \in Client : \A i \in 1..Len(responses'[d]) : Says(store, responses'[d][i])
      <3>1. ASSUME NEW d \in Client, NEW i \in 1..Len(responses'[d])
            PROVE  Says(store, responses'[d][i])
        <4>1. CASE d = c
          <5>1. i + 1 \in 1..Len(responses[c]) /\ responses'[d][i] = responses[c][i+1]
            BY <4>1, <2>1, <1>0, <3>1 DEF TypeOK
          <5> QED
            BY <5>1 DEF Inv, Told
        <4>2. CASE d # c
          BY <4>2, <2>1, <1>0, <3>1 DEF TypeOK, Inv, Told
        <4> QED
          BY <4>1, <4>2
      <3> QED
        BY <3>1
    <2> QED
      BY <2>1, <2>2, <2>3 DEF Inv, Asked, Filled, Seen, Told, Kept, Says
  <1> QED
    BY <1>2, <1>3

LEMMA FindKeeps ==
  ASSUME Inv, NEW c \in Client, Finds(c)
  PROVE  Inv' /\ UNCHANGED <<store, answers>>
PROOF
  <1> USE DEF storeVars, clientVars
  <1>0. TypeOK
    BY DEF Inv
  <1> DEFINE request == Head(requests[c])
  <1>1. /\ requests[c] # << >> /\ requests' = [requests EXCEPT ![c] = Tail(@)]
        /\ server' = [request |-> request, found |-> store[request.key] # NoValue]
        /\ UNCHANGED <<store, answers, commands, responses, place, remote, returned, empty, calls, faults>>
    BY DEF Finds
  <1>2. /\ requests[c] \in Seq(Request) /\ request \in Request
        /\ request = requests[c][1] /\ 1 \in 1..Len(requests[c])
    BY <1>1, <1>0 DEF TypeOK
  <1>3. Filled(request)
    BY <1>2 DEF Inv, Asked
  <1> HIDE DEF request
  <1>4. server' \in [request : Request, found : BOOLEAN]
    BY <1>1, <1>2
  <1>5. TypeOK'
    BY <1>1, <1>4, <1>0 DEF TypeOK
  <1>6. \A d \in Client : \A i \in 1..Len(requests'[d]) : Filled(requests'[d][i])
    <2>1. ASSUME NEW d \in Client, NEW i \in 1..Len(requests'[d])
          PROVE  Filled(requests'[d][i])
      <3>1. CASE d = c
        <4>1. i + 1 \in 1..Len(requests[c]) /\ requests'[d][i] = requests[c][i+1]
          BY <3>1, <1>1, <1>0, <2>1 DEF TypeOK
        <4> QED
          BY <4>1 DEF Inv, Asked
      <3>2. CASE d # c
        BY <3>2, <1>1, <1>0, <2>1 DEF TypeOK, Inv, Asked
      <3> QED
        BY <3>1, <3>2
    <2> QED
      BY <2>1
  <1>7. Filled(server.request)' /\ (server.found => store[server.request.key] # NoValue)'
    BY <1>1, <1>3 DEF Filled
  <1> QED
    BY <1>1, <1>5, <1>6, <1>7 DEF Inv, Asked, Filled, Seen, Told, Kept, Says

\* When the store only grows, what was said of it stays so.
LEMMA SaidStays ==
  ASSUME Inv, Grows, NEW r \in Response, Says(store, r)
  PROVE  Says(store', r)
PROOF
  BY DEF Grows, Says, Response, Request

LEMMA AnswerKeeps ==
  ASSUME Inv, Answers
  PROVE  Inv' /\ Grows
PROOF
  <1> USE DEF storeVars, clientVars
  <1>0. TypeOK
    BY DEF Inv
  <1> DEFINE response == ResponseTo(server.request, server.found)
  <1>1. /\ server # Nothing /\ server' = Nothing
        /\ store' = StoreAfter(server.request)
        /\ responses' = [c \in Client |-> Append(responses[c], response)]
        /\ answers' = answers \cup {[key |-> response.key, value |-> response.value, rw |-> response.rw]}
        /\ UNCHANGED <<commands, requests, place, remote, returned, empty, calls, faults>>
    BY DEF Answers
  <1>2. /\ response \in Response
        /\ store' \in [Key -> MaybeValue]
        /\ Grows
        /\ Says(store', response)
    BY <1>1, ResponseIsTrue, SMTT(30) DEF Grows, Says
  <1> HIDE DEF response
  <1>3. TypeOK'
    <2>1. responses' \in [Client -> Seq(Response)]
      BY <1>1, <1>2, <1>0 DEF TypeOK
    <2>2. answers' \subseteq [key : Key, value : MaybeValue, rw : BOOLEAN]
      BY <1>1, <1>2, <1>0 DEF TypeOK, Response, Request
    <2> QED
      BY <2>1, <2>2, <1>1, <1>2, <1>0 DEF TypeOK
  <1>4. Told'
    <2>1. ASSUME NEW d \in Client, NEW i \in 1..Len(responses'[d])
          PROVE  Says(store', responses'[d][i])
      <3>1. responses[d] \in Seq(Response) /\ responses'[d] = Append(responses[d], response)
        BY <1>1, <1>0 DEF TypeOK
      <3>2. CASE i \in 1..Len(responses[d])
        <4>1. responses'[d][i] = responses[d][i] /\ responses[d][i] \in Response
          BY <3>1, <3>2, <1>2
        <4>2. Says(store, responses[d][i])
          BY <3>2 DEF Inv, Told
        <4> DEFINE r == responses[d][i]
        <4> HIDE DEF r
        <4>3. r \in Response /\ Says(store, r)
          BY <4>1, <4>2 DEF r
        <4>4. \A j \in Key : store[j] # NoValue => store'[j] = store[j]
          BY <1>2 DEF Grows
        <4>5. r.rw => r.value # NoValue /\ r.value = store'[r.key]
          BY <4>3, <4>4 DEF Says, Response, Request
        <4> QED
          BY <4>1, <4>5 DEF Says, r
      <3>3. CASE i \notin 1..Len(responses[d])
        <4>1. responses'[d][i] = response
          BY <3>1, <3>3, <1>2, <2>1
        <4> QED
          BY <4>1, <1>2 DEF Says
      <3> QED
        BY <3>2, <3>3
    <2> QED
      BY <2>1 DEF Told, Says
  <1>5. Kept'
    BY <1>0, <1>1, <1>2 DEF Inv, Kept, Says, Grows, TypeOK, Response, Request
  <1> QED
    BY <1>1, <1>2, <1>3, <1>4, <1>5 DEF Inv, Asked, Filled, Seen

LEMMA CommandKeeps ==
  ASSUME Inv, NEW k \in Key, NEW v \in Value, setParam(k, v)
  PROVE  Inv' /\ Grows /\ UNCHANGED <<server, answers>>
PROOF
  <1> USE DEF storeVars, clientVars
  <1>0. TypeOK
    BY DEF Inv
  <1>1. /\ commands < MaxCommands /\ commands' = commands + 1
        /\ store' = Emplaced(k, v)
        /\ UNCHANGED <<server, answers, requests, responses, place, remote, returned, empty, calls, faults>>
    BY DEF setParam
  <1>2. store' \in [Key -> MaybeValue] /\ Grows
    BY <1>0, <1>1, EmplacedGrows DEF Grows
  <1>3. commands' \in 0 .. MaxCommands
    BY <1>0, <1>1, ServiceAssumption DEF TypeOK
  <1>4. TypeOK'
    BY <1>0, <1>1, <1>2, <1>3 DEF TypeOK
  <1>5. Seen'
    BY <1>0, <1>1, <1>2 DEF Inv, Seen, Grows, TypeOK, Request
  <1>6. Told'
    <2>1. ASSUME NEW d \in Client, NEW i \in 1..Len(responses[d])
          PROVE  Says(store', responses[d][i])
      <3>1. responses[d][i] \in Response /\ Says(store, responses[d][i])
        BY <1>0, <2>1 DEF TypeOK, Inv, Told
      <3> QED
        BY <3>1, <1>1, <1>2 DEF Says, Grows, Response, Request
    <2> QED
      BY <2>1, <1>1 DEF Told, Says
  <1>7. Kept'
    BY <1>0, <1>1, <1>2 DEF Inv, Kept, Says, Grows, TypeOK, Response, Request
  <1> QED
    BY <1>1, <1>2, <1>4, <1>5, <1>6, <1>7 DEF Inv, Asked, Filled

-----------------------------------------------------------------------------
(* The invariant.                                                          *)

LEMMA Step == Inv /\ [Next]_vars => Inv'
PROOF
  <1> SUFFICES ASSUME Inv, [Next]_vars PROVE Inv'
    OBVIOUS
  <1>1. ASSUME NEW c \in Client, ClientSteps(c) \/ LosesRequest(c) \/ LosesResponse(c) PROVE Inv'
    BY <1>1, ClientKeeps, LossKeeps
  <1>2. CASE ServerSteps
    BY <1>2, FindKeeps, AnswerKeeps, CommandKeeps DEF ServerSteps
  <1>3. CASE UNCHANGED vars
    BY <1>3 DEF vars, Inv, TypeOK, Asked, Filled, Seen, Told, Kept, Says
  <1> QED
    BY <1>1, <1>2, <1>3 DEF Next

\* Inv always holds.
THEOREM Invariance == Spec => []Inv
PROOF
  <1>1. Init => Inv
    BY Initially
  <1>2. Inv /\ [Next]_vars => Inv'
    BY Step
  <1> QED
    BY <1>1, <1>2, PTL DEF Spec

\* The variables of the client, the server and the store have their types, for
\* any clients, keys, values and bounds (service_client.tpp, parameter_server.cpp).
THEOREM TypeCorrect == Spec => []TypeOK
PROOF
  <1>1. Inv => TypeOK
    BY DEF Inv
  <1> QED
    BY <1>1, Invariance, PTL

\* However late it is read, and whoever asked for it, an answer that names a
\* value names the parameter's value (parameter_server.cpp:33,
\* service_client.tpp:48-53).
THEOREM StaleAnswersAreTrue == Spec => []StaleAnswersStayTrue
PROOF
  <1>1. Inv => StaleAnswersStayTrue
    BY DEF Inv, Kept, Says, StaleAnswersStayTrue, Brought
  <1> QED
    BY <1>1, Invariance, PTL

-----------------------------------------------------------------------------
(* A client by itself: nobody else's request is on its way, and as long as *)
(* no call came back empty at most one message is, about the latest call.  *)

Own(r, c) == r.client = c /\ r.number = calls[c]

Quiet(c) == \A d \in Client \ {c} : requests[d] = << >>

OneMessage(c) ==
  /\ requests[c] # << >> =>
       /\ Len(requests[c]) = 1 /\ Own(requests[c][1], c)
       /\ server = Nothing /\ responses[c] = << >> /\ remote[c] = Nothing
  /\ server # Nothing =>
       /\ Own(server.request, c)
       /\ responses[c] = << >> /\ remote[c] = Nothing
  /\ responses[c] # << >> =>
       /\ Len(responses[c]) = 1 /\ Own(responses[c][1], c)
       /\ remote[c] = Nothing
  /\ remote[c] # Nothing => Own(remote[c], c)
  /\ place[c] = "idle" =>
       /\ requests[c] = << >> /\ server = Nothing /\ responses[c] = << >> /\ remote[c] = Nothing
       /\ returned[c] # Nothing => Own(returned[c], c)

ByItself(c) == Alone(c) => Quiet(c) /\ (~empty[c] => OneMessage(c))

\* What others do does not matter.
LEMMA OthersStand ==
  ASSUME NEW c \in Client, ByItself(c), UNCHANGED <<requests, server, calls>>,
         responses'[c] = responses[c], remote'[c] = remote[c], place'[c] = place[c],
         returned'[c] = returned[c], empty'[c] = empty[c]
  PROVE  ByItself(c)'
PROOF
  BY DEF ByItself, Alone, Quiet, OneMessage, Own

LEMMA AppendToNone ==
  ASSUME NEW S, NEW s \in Seq(S), s = << >>, NEW r \in S
  PROVE  Append(s, r) # << >> /\ Len(Append(s, r)) = 1 /\ Append(s, r)[1] = r
PROOF
  <1>1. Append(s, r) = <<r>>
    BY AppendProperties, EmptySeq
  <1> QED
    BY <1>1

LEMMA TailOfOne ==
  ASSUME NEW S, NEW s \in Seq(S), Len(s) = 1
  PROVE  Tail(s) = << >> /\ Head(s) = s[1]
PROOF
  <1>1. s # << >>
    BY EmptySeq
  <1>2. Tail(s) \in Seq(S) /\ Len(Tail(s)) = 0 /\ Head(s) = s[1]
    BY <1>1, HeadTailProperties
  <1>3. Tail(s) = << >>
    BY <1>2, EmptySeq
  <1> QED
    BY <1>2, <1>3

LEMMA SendsByItself ==
  ASSUME Inv, NEW c \in Client, ByItself(c), NEW e \in Client,
         NEW k \in Key, NEW v \in MaybeValue, NEW rw \in BOOLEAN, Sends(e, k, v, rw)
  PROVE  ByItself(c)'
PROOF
  <1> DEFINE r == [client |-> e, number |-> calls[e] + 1, key |-> k, value |-> v, rw |-> rw]
  <1>1. /\ place[e] = "idle" /\ place' = [place EXCEPT ![e] = "sent"]
        /\ calls' = [calls EXCEPT ![e] = calls[e] + 1]
        /\ requests' = [requests EXCEPT ![e] = Append(requests[e], r)]
        /\ UNCHANGED <<server, responses, remote, empty>>
    BY DEF Sends, Moves, storeVars
  <1>2. /\ calls[e] \in Nat /\ requests[e] \in Seq(Request) /\ r \in Request
        /\ calls'[e] = calls[e] + 1 /\ place'[e] = "sent"
        /\ requests'[e] = Append(requests[e], r)
        /\ \A d \in Client \ {e} : requests'[d] = requests[d] /\ calls'[d] = calls[d]
    <2>1. /\ calls[e] \in Nat /\ calls[e] + 1 \in Nat \ {0} /\ requests[e] \in Seq(Request)
      BY DEF Inv, TypeOK
    <2>2. r \in Request
      BY <2>1 DEF Request
    <2> HIDE DEF r
    <2>3. /\ calls'[e] = calls[e] + 1 /\ place'[e] = "sent"
          /\ requests'[e] = Append(requests[e], r)
          /\ \A d \in Client \ {e} : requests'[d] = requests[d] /\ calls'[d] = calls[d]
      BY <1>1 DEF Inv, TypeOK
    <2> QED
      BY <2>1, <2>2, <2>3
  <1>3. r.client = e /\ r.number = calls[e] + 1
    OBVIOUS
  <1> HIDE DEF r
  <1>4. CASE e # c
    <2>1. ~ Alone(c)'
      BY <1>2, <1>4 DEF Alone
    <2> QED
      BY <2>1 DEF ByItself
  <1>5. CASE e = c
    <2> SUFFICES ASSUME Alone(c)' PROVE (Quiet(c) /\ (~empty[c] => OneMessage(c)))'
      BY DEF ByItself
    <2>1. Alone(c)
      BY <1>2, <1>5 DEF Alone
    <2>2. Quiet(c)'
      BY <1>2, <1>5, <2>1 DEF ByItself, Quiet
    <2>3. ASSUME ~empty[c] PROVE OneMessage(c)'
      <3>1. requests[c] = << >> /\ server = Nothing /\ responses[c] = << >> /\ remote[c] = Nothing
        BY <1>1, <1>5, <2>1, <2>3 DEF ByItself, OneMessage
      <3>2. requests'[c] # << >> /\ Len(requests'[c]) = 1 /\ requests'[c][1] = r
        <4>1. /\ requests[c] \in Seq(Request) /\ r \in Request
              /\ requests'[c] = Append(requests[c], r)
          BY <1>2, <1>5
        <4>2. /\ Append(requests[c], r) # << >> /\ Len(Append(requests[c], r)) = 1
              /\ Append(requests[c], r)[1] = r
          BY <3>1, <4>1, AppendToNone
        <4> QED
          BY <4>1, <4>2
      <3>3. Own(requests[c][1], c)'
        BY <1>2, <1>3, <1>5, <3>2 DEF Own
      <3>4. /\ server' = Nothing /\ responses'[c] = << >> /\ remote'[c] = Nothing
            /\ place'[c] # "idle"
        BY <1>1, <1>2, <1>5, <3>1
      <3> QED
        BY <3>2, <3>3, <3>4 DEF OneMessage
    <2> QED
      BY <1>1, <2>2, <2>3
  <1> QED
    BY <1>4, <1>5

LEMMA ClientByItself ==
  ASSUME Inv, NEW c \in Client, ByItself(c), NEW e \in Client, ClientSteps(e)
  PROVE  ByItself(c)'
PROOF
  <1> USE DEF storeVars
  <1>1. CASE Sets(e) \/ Gets(e)
    BY <1>1, SendsByItself DEF Sets, Gets, MaybeValue
  <1>2. CASE Waits(e) \/ TimesOut(e) \/ WakesSpuriously(e)
    <2>1. /\ UNCHANGED <<requests, server, calls, responses, remote, returned, empty>>
          /\ place[e] # "idle" /\ place' = [place EXCEPT ![e] = place'[e]] /\ place'[e] # "idle"
      BY <1>2 DEF Waits, TimesOut, WakesSpuriously, Moves, Inv, TypeOK
    <2>2. place'[c] = place[c] \/ (place[c] # "idle" /\ place'[c] # "idle")
      BY <2>1 DEF Inv, TypeOK
    <2> QED
      BY <2>1, <2>2 DEF ByItself, Alone, Quiet, OneMessage, Own
  <1>3. CASE Receives(e)
    <2>1. /\ UNCHANGED <<requests, server, calls, returned, empty>>
          /\ responses[e] # << >>
          /\ remote' = [remote EXCEPT ![e] = Head(responses[e])]
          /\ responses' = [responses EXCEPT ![e] = Tail(responses[e])]
          /\ place' = [place EXCEPT ![e] = IF place[e] = "waiting" THEN "woken" ELSE place[e]]
      BY <1>3 DEF Receives
    <2>2. CASE e # c
      <3>1. responses'[c] = responses[c] /\ remote'[c] = remote[c] /\ place'[c] = place[c]
        BY <2>1, <2>2 DEF Inv, TypeOK
      <3> QED
        BY <2>1, <3>1, OthersStand
    <2>3. CASE e = c
      <3> SUFFICES ASSUME Alone(c)' PROVE (Quiet(c) /\ (~empty[c] => OneMessage(c)))'
        BY DEF ByItself
      <3>1. Alone(c) /\ Quiet(c)'
        BY <2>1 DEF Alone, ByItself, Quiet
      <3>2. ASSUME ~empty[c] PROVE OneMessage(c)'
        <4>1. /\ Len(responses[c]) = 1 /\ Own(responses[c][1], c)
              /\ requests[c] = << >> /\ server = Nothing /\ place[c] # "idle"
          BY <2>1, <2>3, <3>1, <3>2 DEF ByItself, OneMessage
        <4>2. remote'[c] = responses[c][1] /\ responses'[c] = << >>
          <5>0. responses[c] \in Seq(Response)
            BY DEF Inv, TypeOK
          <5>1. Tail(responses[c]) = << >> /\ Head(responses[c]) = responses[c][1]
            BY <4>1, <5>0, TailOfOne
          <5> QED
            BY <2>1, <2>3, <5>1 DEF Inv, TypeOK
        <4>3. place'[c] # "idle" /\ requests'[c] = << >> /\ server' = Nothing
          BY <2>1, <2>3, <4>1 DEF Inv, TypeOK
        <4>4. Own(remote[c], c)'
          BY <2>1, <4>1, <4>2 DEF Own
        <4> QED
          BY <4>2, <4>3, <4>4 DEF OneMessage
      <3> QED
        BY <2>1, <3>1, <3>2
    <2> QED
      BY <2>2, <2>3
  <1>4. CASE Returns(e)
    <2>1. /\ UNCHANGED <<requests, server, calls, responses>>
          /\ returned' = [returned EXCEPT ![e] = remote[e]]
          /\ empty' = [empty EXCEPT ![e] = empty[e] \/ remote[e] = Nothing]
          /\ remote' = [remote EXCEPT ![e] = Nothing]
          /\ place' = [place EXCEPT ![e] = "idle"]
      BY <1>4 DEF Returns, Moves
    <2>2. CASE e # c
      <3>1. /\ remote'[c] = remote[c] /\ place'[c] = place[c]
            /\ returned'[c] = returned[c] /\ empty'[c] = empty[c]
        BY <2>1, <2>2 DEF Inv, TypeOK
      <3> QED
        BY <2>1, <3>1, OthersStand
    <2>3. CASE e = c
      <3> SUFFICES ASSUME Alone(c)' PROVE (Quiet(c) /\ (~empty[c] => OneMessage(c)))'
        BY DEF ByItself
      <3>1. Alone(c) /\ Quiet(c)'
        BY <2>1 DEF Alone, ByItself, Quiet
      <3>2. ASSUME ~empty'[c] PROVE OneMessage(c)'
        <4>1. ~empty[c] /\ remote[c] # Nothing
          BY <2>1, <2>3, <3>2 DEF Inv, TypeOK
        <4>2. /\ Own(remote[c], c)
              /\ requests[c] = << >> /\ server = Nothing /\ responses[c] = << >>
          BY <3>1, <4>1 DEF ByItself, OneMessage
        <4>3. /\ remote'[c] = Nothing /\ returned'[c] = remote[c]
              /\ requests'[c] = << >> /\ server' = Nothing /\ responses'[c] = << >>
          BY <2>1, <2>3, <4>2 DEF Inv, TypeOK
        <4>4. Own(returned[c], c)'
          BY <2>1, <4>2, <4>3 DEF Own
        <4> QED
          BY <4>3, <4>4 DEF OneMessage
      <3> QED
        BY <3>1, <3>2
    <2> QED
      BY <2>2, <2>3
  <1> QED
    BY <1>1, <1>2, <1>3, <1>4 DEF ClientSteps

LEMMA LossByItself ==
  ASSUME Inv, NEW c \in Client, ByItself(c), NEW e \in Client,
         LosesRequest(e) \/ LosesResponse(e)
  PROVE  ByItself(c)'
PROOF
  <1> USE DEF storeVars, clientVars
  <1> SUFFICES ASSUME Alone(c)' PROVE (Quiet(c) /\ (~empty[c] => OneMessage(c)))'
    BY DEF ByItself
  <1>1. UNCHANGED <<server, calls, remote, place, returned, empty>>
    BY DEF LosesRequest, LosesResponse
  <1>2. Alone(c) /\ Quiet(c)
    BY <1>1 DEF Alone, ByItself
  <1>3. CASE LosesRequest(e)
    <2>1. requests[e] # << >> /\ requests' = [requests EXCEPT ![e] = Tail(requests[e])]
          /\ UNCHANGED responses
      BY <1>3 DEF LosesRequest
    <2>2. e = c
      BY <1>2, <2>1 DEF Quiet
    <2>3. Quiet(c)'
      BY <1>2, <2>1, <2>2 DEF Quiet, Inv, TypeOK
    <2>4. ASSUME ~empty[c] PROVE OneMessage(c)'
      <3>1. OneMessage(c) /\ Len(requests[c]) = 1
        BY <1>2, <2>1, <2>2, <2>4 DEF ByItself, OneMessage
      <3>2. Tail(requests[c]) = << >>
        <4>1. requests[c] \in Seq(Request)
          BY DEF Inv, TypeOK
        <4> QED
          BY <3>1, <4>1, TailOfOne
      <3>3. requests'[c] = << >>
        BY <2>1, <2>2, <3>2 DEF Inv, TypeOK
      <3> QED
        BY <1>1, <2>1, <3>1, <3>3 DEF OneMessage, Own
    <2> QED
      BY <1>1, <2>3, <2>4
  <1>4. CASE LosesResponse(e)
    <2>1. responses[e] # << >> /\ responses' = [responses EXCEPT ![e] = Tail(responses[e])]
          /\ UNCHANGED requests
      BY <1>4 DEF LosesResponse
    <2>2. CASE e # c
      <3>1. responses'[c] = responses[c]
        BY <2>1, <2>2 DEF Inv, TypeOK
      <3>2. ByItself(c)'
        BY <1>1, <2>1, <3>1, OthersStand
      <3> QED
        BY <3>2 DEF ByItself
    <2>3. CASE e = c
      <3>1. Quiet(c)'
        BY <1>2, <2>1 DEF Quiet
      <3>2. ASSUME ~empty[c] PROVE OneMessage(c)'
        <4>1. OneMessage(c) /\ Len(responses[c]) = 1
          BY <1>2, <2>1, <2>3, <3>2 DEF ByItself, OneMessage
        <4>2. Tail(responses[c]) = << >>
          <5>1. responses[c] \in Seq(Response)
            BY DEF Inv, TypeOK
          <5> QED
            BY <4>1, <5>1, TailOfOne
        <4>3. responses'[c] = << >>
          BY <2>1, <2>3, <4>2 DEF Inv, TypeOK
        <4> QED
          BY <1>1, <2>1, <4>1, <4>3 DEF OneMessage, Own
      <3> QED
        BY <1>1, <3>1, <3>2
    <2> QED
      BY <2>2, <2>3
  <1> QED
    BY <1>3, <1>4

LEMMA ServerByItself ==
  ASSUME Inv, NEW c \in Client, ByItself(c), ServerSteps
  PROVE  ByItself(c)'
PROOF
  <1> USE DEF clientVars
  <1> SUFFICES ASSUME Alone(c)' PROVE (Quiet(c) /\ (~empty[c] => OneMessage(c)))'
    BY DEF ByItself
  <1>1. UNCHANGED <<calls, remote, place, returned, empty>>
    BY DEF ServerSteps, Finds, Answers, setParam
  <1>2. Alone(c) /\ Quiet(c)
    BY <1>1 DEF Alone, ByItself
  <1>3. CASE \E e \in Client : Finds(e)
    <2>1. PICK e \in Client : Finds(e)
      BY <1>3
    <2>2. /\ requests[e] # << >> /\ requests' = [requests EXCEPT ![e] = Tail(requests[e])]
          /\ server' = [request |-> Head(requests[e]),
                        found |-> store[Head(requests[e]).key] # NoValue]
          /\ UNCHANGED responses
      BY <2>1 DEF Finds
    <2>3. e = c
      BY <1>2, <2>2 DEF Quiet
    <2>4. Quiet(c)'
      BY <1>2, <2>2, <2>3 DEF Quiet, Inv, TypeOK
    <2>5. ASSUME ~empty[c] PROVE OneMessage(c)'
      <3>1. /\ OneMessage(c) /\ Len(requests[c]) = 1 /\ Own(requests[c][1], c)
            /\ responses[c] = << >> /\ remote[c] = Nothing /\ place[c] # "idle"
        BY <1>2, <2>2, <2>3, <2>5 DEF ByItself, OneMessage
      <3>2. Tail(requests[c]) = << >> /\ Head(requests[c]) = requests[c][1]
        <4>1. requests[c] \in Seq(Request)
          BY DEF Inv, TypeOK
        <4> QED
          BY <3>1, <4>1, TailOfOne
      <3>3. requests'[c] = << >> /\ server'.request = requests[c][1]
        BY <2>2, <2>3, <3>2 DEF Inv, TypeOK
      <3>4. Own(server.request, c)'
        BY <1>1, <3>1, <3>3 DEF Own
      <3> QED
        BY <1>1, <2>2, <3>1, <3>3, <3>4 DEF OneMessage
    <2> QED
      BY <1>1, <2>4, <2>5
  <1>4. CASE Answers
    <2> DEFINE response == ResponseTo(server.request, server.found)
    <2>1. /\ server # Nothing /\ server' = Nothing /\ UNCHANGED requests
          /\ responses' = [d \in Client |-> Append(responses[d], response)]
      BY <1>4 DEF Answers
    <2>2. server.request \in Request
      BY <2>1 DEF Inv, TypeOK
    <2>3. response \in Response /\ response.client = server.request.client
          /\ response.number = server.request.number
      <3>1. response \in Response
        BY <2>1, ResponseIsTrue
      <3> QED
        BY <2>2, <3>1 DEF ResponseTo, Request
    <2> HIDE DEF response
    <2>4. Quiet(c)'
      BY <1>2, <2>1 DEF Quiet
    <2>5. ASSUME ~empty[c] PROVE OneMessage(c)'
      <3>1. /\ OneMessage(c) /\ Own(server.request, c) /\ responses[c] = << >>
            /\ requests[c] = << >> /\ remote[c] = Nothing /\ place[c] # "idle"
        BY <1>2, <2>1, <2>5 DEF ByItself, OneMessage
      <3>2. responses'[c] # << >> /\ Len(responses'[c]) = 1 /\ responses'[c][1] = response
        <4>1. responses[c] \in Seq(Response) /\ responses'[c] = Append(responses[c], response)
          BY <2>1 DEF Inv, TypeOK
        <4> QED
          BY <2>3, <3>1, <4>1, AppendToNone
      <3>3. Own(responses[c][1], c)'
        BY <1>1, <2>3, <3>1, <3>2 DEF Own
      <3> QED
        BY <1>1, <2>1, <3>1, <3>2, <3>3 DEF OneMessage
    <2> QED
      BY <1>1, <2>4, <2>5
  <1>5. CASE \E k \in Key, v \in Value : setParam(k, v)
    <2>1. UNCHANGED <<requests, server, responses>>
      BY <1>5 DEF setParam
    <2>2. ByItself(c)'
      BY <1>1, <2>1, OthersStand
    <2> QED
      BY <2>2 DEF ByItself
  <1> QED
    BY <1>3, <1>4, <1>5 DEF ServerSteps

\* A client that shares its topics with nobody and whose calls all brought a
\* response was answered about its own latest call, whatever was lost and
\* however often it was woken (service_client.tpp:48-53).
THEOREM AnswersAreOwn == Spec => []OwnAnswer
PROOF
  <1> DEFINE Single == \A c \in Client : ByItself(c)
  <1>1. Init => Single
    BY DEF Init, ByItself, Quiet, OneMessage
  <1>2. ASSUME Inv, Single, [Next]_vars PROVE Single'
    <2>1. ASSUME NEW c \in Client PROVE ByItself(c)'
      <3>1. ByItself(c)
        BY <1>2
      <3>2. CASE UNCHANGED vars
        BY <3>1, <3>2, OthersStand DEF vars
      <3>3. CASE Next
        BY <1>2, <3>1, <3>3, ClientByItself, LossByItself, ServerByItself DEF Next
      <3> QED
        BY <1>2, <3>2, <3>3
    <2> QED
      BY <2>1
  <1>3. Single => OwnAnswer
    BY DEF ByItself, OneMessage, Own, OwnAnswer
  <1> QED
    BY <1>1, <1>2, <1>3, Invariance, PTL DEF Spec

-----------------------------------------------------------------------------
(* Why a call sleeps.                                                      *)

Holds(c, s) == \E i \in 1..Len(s) : Own(s[i], c)

\* A message of the latest call of c is between c and the server.
OnItsWay(c) ==
  \/ Holds(c, requests[c])
  \/ server # Nothing /\ Own(server.request, c)
  \/ Holds(c, responses[c])

\* The safety part of TimedCallReturns, for calls with no duration as well: if
\* nothing was lost, a call that waits has its request or its answer still on
\* its way, or slept through an answer that came before wait, which lies in
\* remote_response (service_client.tpp:37-56: wait tests no condition).
SleepIsExplained ==
  \A c \in Client : place[c] \in {"sent", "waiting"} /\ faults = 0 =>
    OnItsWay(c) \/ remote[c] # Nothing

LEMMA HoldsAppended ==
  ASSUME NEW c \in Client, NEW S, NEW s \in Seq(S), NEW r \in S, Holds(c, s) \/ Own(r, c)
  PROVE  Holds(c, Append(s, r))
PROOF
  <1>1. /\ Len(Append(s, r)) = Len(s) + 1 /\ Len(s) \in Nat
        /\ Append(s, r)[Len(s) + 1] = r
        /\ \A i \in 1..Len(s) : Append(s, r)[i] = s[i]
    BY AppendProperties
  <1>2. CASE Own(r, c)
    <2>1. Len(s) + 1 \in 1..Len(Append(s, r)) /\ Own(Append(s, r)[Len(s) + 1], c)
      BY <1>1, <1>2
    <2>. QED
      BY <2>1 DEF Holds
  <1>3. CASE Holds(c, s)
    <2>1. PICK i \in 1..Len(s) : Own(s[i], c)
      BY <1>3 DEF Holds
    <2>2. i \in 1..Len(Append(s, r)) /\ Own(Append(s, r)[i], c)
      BY <1>1, <2>1
    <2>. QED
      BY <2>2 DEF Holds
  <1>. QED
    BY <1>2, <1>3

LEMMA HoldsRest ==
  ASSUME NEW c \in Client, NEW S, NEW s \in Seq(S), s # << >>, Holds(c, s)
  PROVE  Own(Head(s), c) \/ Holds(c, Tail(s))
PROOF
  <1>1. /\ Len(Tail(s)) = Len(s) - 1 /\ Len(s) \in Nat /\ Head(s) = s[1]
        /\ \A i \in 1..Len(Tail(s)) : Tail(s)[i] = s[i + 1]
    BY HeadTailProperties, LenProperties
  <1>2. PICK i \in 1..Len(s) : Own(s[i], c)
    BY DEF Holds
  <1>3. CASE i = 1
    BY <1>1, <1>2, <1>3
  <1>4. CASE i # 1
    <2>1. i - 1 \in 1..Len(Tail(s)) /\ (i - 1) + 1 = i
      BY <1>1, <1>2, <1>4
    <2>2. Tail(s)[i - 1] = s[i]
      BY <1>1, <2>1
    <2>. QED
      BY <1>2, <2>1, <2>2 DEF Holds
  <1>. QED
    BY <1>3, <1>4

\* The answer is about the same call as its request.
LEMMA AnswersSameCall ==
  ASSUME NEW c \in Client, NEW r \in Request, NEW found \in BOOLEAN, Own(r, c)
  PROVE  Own(ResponseTo(r, found), c)
PROOF
  BY DEF ResponseTo, Own, Request

LEMMA SleepStep ==
  ASSUME Inv, SleepIsExplained, Next
  PROVE  SleepIsExplained'
PROOF
  <1>. USE DEF storeVars, clientVars
  <1>0. TypeOK
    BY DEF Inv
  <1>. SUFFICES ASSUME NEW c \in Client, place'[c] \in {"sent", "waiting"}, faults' = 0
                PROVE  OnItsWay(c)' \/ remote'[c] # Nothing
    BY DEF SleepIsExplained
  <1>1. ASSUME NEW e \in Client, LosesRequest(e) \/ LosesResponse(e) \/ WakesSpuriously(e)
        PROVE  FALSE
    BY <1>0, <1>1 DEF LosesRequest, LosesResponse, WakesSpuriously, TypeOK
  <1>2. ASSUME place[c] \in {"sent", "waiting"}, faults' = faults
        PROVE  OnItsWay(c) \/ remote[c] # Nothing
    BY <1>2 DEF SleepIsExplained
  <1>3. ASSUME NEW e \in Client, NEW k \in Key, NEW v \in MaybeValue, NEW rw \in BOOLEAN,
               Sends(e, k, v, rw)
        PROVE  OnItsWay(c)' \/ remote'[c] # Nothing
    <2>. DEFINE r == [client |-> e, number |-> calls[e] + 1, key |-> k, value |-> v, rw |-> rw]
    <2>1. /\ calls' = [calls EXCEPT ![e] = calls[e] + 1]
          /\ requests' = [requests EXCEPT ![e] = Append(requests[e], r)]
          /\ place' = [place EXCEPT ![e] = "sent"]
          /\ UNCHANGED <<server, responses, remote, faults>>
      BY <1>3 DEF Sends, Moves
    <2>2. calls[e] \in Nat /\ calls[e] + 1 \in Nat \ {0} /\ requests[e] \in Seq(Request)
      BY <1>0 DEF TypeOK
    <2>3. r \in Request /\ r.client = e /\ r.number = calls[e] + 1
      BY <2>2 DEF Request
    <2>. HIDE DEF r
    <2>4. CASE e = c
      <3>1. requests'[c] = Append(requests[c], r) /\ calls'[c] = calls[c] + 1
        BY <1>0, <2>1, <2>4 DEF TypeOK
      <3>2. r.client = c /\ r.number = calls'[c]
        BY <2>3, <2>4, <3>1
      <3>3. Len(requests[c]) + 1 \in 1..Len(requests'[c])
            /\ requests'[c][Len(requests[c]) + 1] = r
        BY <2>2, <2>3, <2>4, <3>1, AppendProperties, LenProperties
      <3>4. Holds(c, requests[c])'
        BY <3>2, <3>3 DEF Holds, Own
      <3>. QED
        BY <3>4 DEF OnItsWay
    <2>5. CASE e # c
      <3>1. /\ requests'[c] = requests[c] /\ calls'[c] = calls[c] /\ place'[c] = place[c]
            /\ responses'[c] = responses[c]
        BY <1>0, <2>1, <2>5 DEF TypeOK
      <3>. QED
        BY <1>2, <2>1, <3>1 DEF OnItsWay, Holds, Own
    <2>. QED
      BY <2>4, <2>5
  <1>4. ASSUME NEW e \in Client, Waits(e)
        PROVE  OnItsWay(c)' \/ remote'[c] # Nothing
    <2>1. place[c] \in {"sent", "waiting"} /\ faults' = faults
      BY <1>0, <1>4 DEF Waits, Moves, TypeOK
    <2>. QED
      BY <1>2, <1>4, <2>1 DEF Waits, OnItsWay, Holds, Own
  <1>5. ASSUME NEW e \in Client, Receives(e)
        PROVE  OnItsWay(c)' \/ remote'[c] # Nothing
    <2>1. CASE e = c
      <3>1. responses[c] \in Seq(Response) /\ responses[c] # << >>
            /\ remote'[c] = Head(responses[c])
        BY <1>0, <1>5, <2>1 DEF Receives, TypeOK
      <3>2. Head(responses[c]) \in Response
        BY <3>1
      <3>. QED
        BY <3>1, <3>2, NothingAssumption
    <2>2. CASE e # c
      <3>1. /\ responses'[c] = responses[c] /\ remote'[c] = remote[c] /\ place'[c] = place[c]
            /\ UNCHANGED <<requests, server, calls, faults>>
        BY <1>0, <1>5, <2>2 DEF Receives, TypeOK
      <3>. QED
        BY <1>2, <3>1 DEF OnItsWay, Holds, Own
    <2>. QED
      BY <2>1, <2>2
  <1>6. ASSUME NEW e \in Client, TimesOut(e) \/ Returns(e)
        PROVE  OnItsWay(c)' \/ remote'[c] # Nothing
    <2>1. e # c
      BY <1>0, <1>6 DEF TimesOut, Returns, Moves, TypeOK
    <2>2. /\ remote'[c] = remote[c] /\ place'[c] = place[c]
          /\ UNCHANGED <<requests, responses, server, calls, faults>>
      BY <1>0, <1>6, <2>1 DEF TimesOut, Returns, Moves, TypeOK
    <2>. QED
      BY <1>2, <2>2 DEF OnItsWay, Holds, Own
  <1>7. ASSUME NEW e \in Client, Finds(e)
        PROVE  OnItsWay(c)' \/ remote'[c] # Nothing
    <2>1. /\ server = Nothing /\ requests[e] # << >>
          /\ requests' = [requests EXCEPT ![e] = Tail(requests[e])]
          /\ server' = [request |-> Head(requests[e]),
                        found |-> store[Head(requests[e]).key] # NoValue]
          /\ UNCHANGED <<responses, place, remote, calls, faults>>
      BY <1>7 DEF Finds
    <2>2. OnItsWay(c) \/ remote[c] # Nothing
      BY <1>2, <2>1
    <2>3. CASE Holds(c, requests[c])
      <3>1. CASE e = c
        <4>1. requests[c] \in Seq(Request) /\ requests'[c] = Tail(requests[c])
          BY <1>0, <2>1, <3>1 DEF TypeOK
        <4>2. Own(Head(requests[c]), c) \/ Holds(c, Tail(requests[c]))
          BY <2>1, <2>3, <3>1, <4>1, HoldsRest
        <4>3. server'.request = Head(requests[c])
          BY <2>1, <3>1
        <4>4. server' \in [request : Request, found : BOOLEAN]
          <5>1. Head(requests[c]) \in Request
            BY <2>1, <3>1, <4>1
          <5>. QED
            BY <2>1, <3>1, <5>1
        <4>5. server' # Nothing
          BY <4>4, NothingAssumption
        <4>. QED
          BY <2>1, <4>1, <4>2, <4>3, <4>5 DEF OnItsWay, Holds, Own
      <3>2. CASE e # c
        <4>1. requests'[c] = requests[c]
          BY <1>0, <2>1, <3>2 DEF TypeOK
        <4>. QED
          BY <2>1, <2>3, <4>1 DEF OnItsWay, Holds, Own
      <3>. QED
        BY <3>1, <3>2
    <2>4. CASE Holds(c, responses[c]) \/ remote[c] # Nothing
      BY <2>1, <2>4 DEF OnItsWay, Holds, Own
    <2>. QED
      BY <2>1, <2>2, <2>3, <2>4 DEF OnItsWay
  <1>8. CASE Answers
    <2>. DEFINE response == ResponseTo(server.request, server.found)
    <2>1. /\ server # Nothing /\ server' = Nothing
          /\ responses' = [d \in Client |-> Append(responses[d], response)]
          /\ UNCHANGED <<requests, place, remote, calls, faults>>
      BY <1>8 DEF Answers
    <2>2. /\ server.request \in Request /\ server.found \in BOOLEAN
          /\ responses[c] \in Seq(Response)
      BY <1>0, <2>1 DEF TypeOK
    <2>3. response \in Response
      BY <2>1, ResponseIsTrue
    <2>4. Own(server.request, c) => Own(response, c)
      BY <2>2, AnswersSameCall
    <2>. HIDE DEF response
    <2>5. responses'[c] = Append(responses[c], response)
      BY <2>1
    <2>6. OnItsWay(c) \/ remote[c] # Nothing
      BY <1>2, <2>1
    <2>7. Holds(c, responses[c]) \/ Own(server.request, c) => Holds(c, responses'[c])
      BY <2>2, <2>3, <2>4, <2>5, HoldsAppended
    <2>. QED
      BY <2>1, <2>6, <2>7 DEF OnItsWay, Holds, Own
  <1>9. ASSUME NEW k \in Key, NEW v \in Value, setParam(k, v)
        PROVE  OnItsWay(c)' \/ remote'[c] # Nothing
    BY <1>2, <1>9 DEF setParam, OnItsWay, Holds, Own
  <1>10. \A e \in Client : Sets(e) \/ Gets(e) => OnItsWay(c)' \/ remote'[c] # Nothing
    BY <1>3 DEF Sets, Gets, MaybeValue
  <1>. QED
    BY <1>1, <1>4, <1>5, <1>6, <1>7, <1>8, <1>9, <1>10 DEF Next, ClientSteps, ServerSteps

THEOREM SleepExplained == Spec => []SleepIsExplained
PROOF
  <1>1. Init => SleepIsExplained
    BY DEF Init, SleepIsExplained
  <1>2. Inv /\ SleepIsExplained /\ [Next]_vars => SleepIsExplained'
    <2>1. ASSUME SleepIsExplained, UNCHANGED vars
          PROVE  SleepIsExplained'
      BY <2>1 DEF vars, SleepIsExplained, OnItsWay, Holds, Own
    <2>. QED
      BY <2>1, SleepStep
  <1>. QED
    BY <1>1, <1>2, Invariance, PTL DEF Spec

-----------------------------------------------------------------------------
(* The refinement: find is where a read that finds nothing takes effect,   *)
(* the end of the callback where everything else does.                     *)

LEMMA AbstractInitially == Init => Abstract!Init
PROOF
  BY DEF Init, Abstract!Init, Answered

LEMMA FindRefines ==
  ASSUME Inv, NEW c \in Client, Finds(c)
  PROVE  Abstract!Next \/ UNCHANGED <<store, Answered>>
PROOF
  <1> DEFINE request == Head(requests[c])
  <1>1. /\ server = Nothing /\ UNCHANGED <<store, answers>>
        /\ server' = [request |-> request, found |-> store[request.key] # NoValue]
    BY DEF Finds
  <1>2. request \in Request
    BY DEF Finds, Inv, TypeOK
  <1>3. request.key \in Key /\ request.rw \in BOOLEAN
    BY <1>2 DEF Request
  <1> HIDE DEF request
  <1>4. Answered = answers
    BY <1>1 DEF Answered
  <1>6. CASE request.rw \/ store[request.key] # NoValue \/ server' = Nothing
    <2>1. Answered' = answers
      BY <1>1, <1>3, <1>6 DEF Answered
    <2> QED
      BY <2>1, <1>1, <1>4
  <1>7. CASE ~request.rw /\ store[request.key] = NoValue /\ server' # Nothing
    <2>1. Answered' = answers \cup {Abstract!NotFound(request.key)}
      BY <1>1, <1>3, <1>7 DEF Answered, Abstract!NotFound
    <2>2. Abstract!Read(request.key)
      BY <2>1, <1>1, <1>4, <1>7 DEF Abstract!Read
    <2> QED
      BY <2>2, <1>3 DEF Abstract!Next
  <1> QED
    BY <1>6, <1>7, <1>3

\* An emplace is one of the writes the abstract store allows.
LEMMA EmplacedWritten ==
  ASSUME TypeOK, NEW k \in Key, NEW v \in MaybeValue, store' = Emplaced(k, v)
  PROVE  /\ store'[k] \in Abstract!Written(k, v)
         /\ store' = [store EXCEPT ![k] = store'[k]]
  BY DEF TypeOK, Emplaced, Abstract!Written

LEMMA AnswerRefines ==
  ASSUME Inv, Answers
  PROVE  Abstract!Next \/ UNCHANGED <<store, Answered>>
PROOF
  <1> DEFINE request == server.request
             response == ResponseTo(request, server.found)
  <1>1. /\ server # Nothing /\ server' = Nothing
        /\ store' = StoreAfter(request)
        /\ answers' = answers \cup {[key |-> response.key, value |-> response.value, rw |-> response.rw]}
    BY DEF Answers
  <1>2. request \in Request /\ server.found \in BOOLEAN
    BY <1>1 DEF Inv, TypeOK
  <1>3. request.key \in Key /\ request.value \in MaybeValue /\ request.rw \in BOOLEAN
    BY <1>2 DEF Request
  <1>4. (request.rw => request.value \in Value) /\ (server.found => store[request.key] # NoValue)
    BY <1>1 DEF Inv, Asked, Filled, Seen
  <1>5. Answered' = answers'
    BY <1>1 DEF Answered
  <1>6. CASE request.rw
    <2>1. response = [request EXCEPT !.value = StoreAfter(request)[request.key], !.rw = TRUE]
      BY <1>6 DEF ResponseTo
    <2>2. /\ response.key = request.key /\ response.rw = TRUE
          /\ response.value = StoreAfter(request)[request.key]
      BY <2>1, <1>2 DEF Request
    <2> HIDE DEF request, response
    <2>3. Answered = answers
      BY <1>6 DEF Answered, request
    <2>4. /\ store'[request.key] \in Abstract!Written(request.key, request.value)
          /\ store' = [store EXCEPT ![request.key] = store'[request.key]]
      BY <1>1, <1>3, <1>6, EmplacedWritten DEF StoreAfter, Inv
    <2>5. Answered' = Answered \cup {Abstract!Found(request.key, store'[request.key])}
      BY <1>1, <1>5, <2>2, <2>3 DEF Abstract!Found
    <2>6. Abstract!Write(request.key, request.value)
      BY <2>4, <2>5 DEF Abstract!Write
    <2> QED
      BY <2>6, <1>3, <1>4, <1>6 DEF Abstract!Next
  <1>7. CASE ~request.rw /\ ~server.found
    <2>1. response = [request EXCEPT !.value = NoValue, !.rw = FALSE]
      BY <1>7 DEF ResponseTo
    <2>2. response.key = request.key /\ response.rw = FALSE /\ response.value = NoValue
      BY <2>1, <1>2 DEF Request
    <2>3. Answered = answers \cup {[key |-> request.key, value |-> NoValue, rw |-> FALSE]}
      BY <1>1, <1>7 DEF Answered
    <2>4. store' = store
      BY <1>1, <1>7 DEF StoreAfter
    <2> HIDE DEF request, response
    <2> QED
      BY <2>2, <2>3, <2>4, <1>1, <1>5
  <1>8. CASE ~request.rw /\ server.found
    <2>1. response = [request EXCEPT !.value = StoreAfter(request)[request.key], !.rw = TRUE]
      BY <1>8 DEF ResponseTo
    <2>2. store' = store
      BY <1>1, <1>8 DEF StoreAfter
    <2>3. response.key = request.key /\ response.rw = TRUE /\ response.value = store[request.key]
      BY <2>1, <2>2, <1>1, <1>2 DEF Request
    <2>4. Answered = answers
      BY <1>8 DEF Answered
    <2> HIDE DEF request, response
    <2>5. Answered' = Answered \cup {Abstract!Found(request.key, store[request.key])}
      BY <1>1, <1>5, <2>3, <2>4 DEF Abstract!Found
    <2>6. store[request.key] # NoValue
      BY <1>4, <1>8 DEF request
    <2>7. Abstract!Read(request.key)
      BY <2>2, <2>5, <2>6 DEF Abstract!Read
    <2> QED
      BY <2>7, <1>3 DEF Abstract!Next
  <1> QED
    BY <1>6, <1>7, <1>8, <1>2, <1>3

LEMMA CommandRefines ==
  ASSUME Inv, NEW k \in Key, NEW v \in Value, setParam(k, v)
  PROVE  Abstract!Next
PROOF
  <1>1. /\ store'[k] \in Abstract!Written(k, v)
        /\ store' = [store EXCEPT ![k] = store'[k]]
    BY EmplacedWritten DEF setParam, Inv, MaybeValue
  <1>2. Abstract!Put(k, v)
    BY <1>1 DEF setParam, Abstract!Put, Answered
  <1> QED
    BY <1>2 DEF Abstract!Next

\* The parameter server's store behaves as one whose reads and writes are atomic
\* and whose answers tell what is stored, whatever runs between the two steps of
\* the callback (parameter_server.cpp, the callback and setParam).
THEOREM StoreRefines == Spec => StoreIsAtomic
PROOF
  <1>1. Init => Abstract!Init
    BY AbstractInitially
  <1>2. ASSUME Inv, [Next]_vars
        PROVE  [Abstract!Next]_<<store, Answered>>
    <2>1. ASSUME NEW c \in Client, ClientSteps(c) \/ LosesRequest(c) \/ LosesResponse(c)
          PROVE  UNCHANGED <<store, Answered>>
      BY <1>2, <2>1, ClientKeeps, LossKeeps DEF Answered, LosesRequest, LosesResponse, storeVars
    <2>2. CASE ServerSteps
      BY <1>2, <2>2, FindRefines, AnswerRefines, CommandRefines DEF ServerSteps
    <2>3. CASE UNCHANGED vars
      BY <2>3 DEF vars, Answered
    <2> QED
      BY <1>2, <2>1, <2>2, <2>3 DEF Next
  <1> QED
    BY <1>1, <1>2, Invariance, PTL DEF Spec, StoreIsAtomic, Abstract!Spec
=============================================================================
