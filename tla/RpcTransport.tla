---------------------------- MODULE RpcTransport ----------------------------
(***************************************************************************)
(* One CSIL-RPC connection of the Rust reference transport: an RpcClient   *)
(* and an RpcServer joined by two frame carriers, one frame queue in each  *)
(* direction (transports/rust/src/rpc.rs and carrier.rs).                  *)
(*                                                                         *)
(* RpcClient::call is synchronous: it sends one request frame and takes    *)
(* the next frame that arrives as its response.  The host of the server    *)
(* runs the loop of docs/serving-csil-rpc-http-and-tcp.md, which calls     *)
(* serve_one until it returns an error or the end of the stream.           *)
(*                                                                         *)
(* Calls are numbered in the order the program makes them.  The number     *)
(* stands for the payload: a reply names the call whose request the        *)
(* handler saw, so a reply that reaches the wrong call is visible.         *)
(***************************************************************************)
EXTENDS Naturals, Sequences

CONSTANTS
  Ops,            \* the operations a request may name
  LargeRequests,  \* those whose request is over the max-frame guard
  LargeReplies,   \* those whose typed reply is over it
  Statuses,       \* the non-zero statuses a handler may return
  Multiplexed,    \* TRUE: the client puts a correlation id in every request
  ClientVersion,  \* the VERSION constant of the client's build
  ServerVersion,  \* the VERSION constant of the server's build
  MaxCalls,       \* bound: calls the client makes
  MaxPushes,      \* bound: unsolicited push frames the server's host emits
  MaxTimeouts     \* bound: receives the client's carrier gives up on

ASSUME RpcAssumption ==
  /\ LargeRequests \subseteq Ops /\ LargeReplies \subseteq Ops
  /\ "ok" \notin Statuses
  /\ Multiplexed \in BOOLEAN
  /\ ClientVersion \in Nat /\ ServerVersion \in Nat
  /\ MaxCalls \in Nat /\ MaxPushes \in Nat /\ MaxTimeouts \in Nat

VARIABLES
  client,     \* "idle", "waiting" inside call, or "closed"
  nextId,     \* RpcClient.next_id
  results,    \* results[n]: what call n returned
  c2s,        \* frames on their way to the server
  s2c,        \* frames on their way to the client
  server,     \* "reading", "dispatching", "replying" or "closed"
  request,    \* the request serve_one decoded
  response,   \* the response serve_one is about to send
  executed,   \* the calls the handler ran for, in order
  pushes,     \* push frames emitted so far
  timeouts    \* receives given up on so far

clientVars == <<client, nextId, results, timeouts>>
serverVars == <<server, request, response, executed, pushes>>
vars == <<clientVars, serverVars, c2s, s2c>>

NoId == 0

Request == [type : {"request"}, v : Nat, id : Nat, op : Ops, call : Nat \ {0}]

\* What a response may say: the statuses of serve_one itself and the handler.
ResponseStatuses == Statuses \union {"ok", "malformed-envelope"}

Response ==
  [type : {"response"}, v : Nat, id : Nat, status : ResponseStatuses,
   large : BOOLEAN, call : Nat]
Push == [type : {"push"}, v : Nat, call : {0}]

(***************************************************************************)
(* RpcRequest::decode, RpcResponse::decode.  Both check the version before *)
(* anything else; a push has no status, so the client cannot read it as a  *)
(* response.                                                               *)
(***************************************************************************)
RequestDecodes(frame)  == frame.v = ServerVersion
ResponseDecodes(frame) == frame.v = ClientVersion /\ frame.type = "response"

\* Mutant: the reply is built without with_id.
OkResponseWithoutId(req) ==
  [type |-> "response", v |-> ServerVersion, id |-> NoId, status |-> "ok",
   large |-> req.op \in LargeReplies, call |-> req.call]

\* RpcResponse::ok and RpcResponse::transport_error, with_id applied.  A
\* transport error carries no payload, so it always fits the frame guard.
OkResponse(req) ==
  [type |-> "response", v |-> ServerVersion, id |-> req.id, status |-> "ok",
   large |-> req.op \in LargeReplies, call |-> req.call]
ErrorResponse(status, id, call) ==
  [type |-> "response", v |-> ServerVersion, id |-> id, status |-> status,
   large |-> FALSE, call |-> call]

\* Every decode failure, an unsupported version included, takes the same arm of
\* serve_one: status malformed-envelope, and no correlation id.
RefuseFrame(frame) == ErrorResponse("malformed-envelope", NoId, frame.call)

\* RpcResponse::decode and into_transport_error on the frame that arrived: what
\* the call returns.  The id of the response is not looked at.
ResultOf(frame) ==
  IF ~ResponseDecodes(frame) THEN [kind |-> "error", answers |-> 0]
  ELSE IF frame.status = "ok" THEN [kind |-> "reply", answers |-> frame.call]
  ELSE [kind |-> "status", answers |-> frame.call]

LocalError == [kind |-> "error", answers |-> 0]

-----------------------------------------------------------------------------
Init ==
  /\ client = "idle" /\ nextId = 1 /\ results = <<>> /\ timeouts = 0
  /\ server = "reading" /\ request = <<>> /\ response = <<>>
  /\ executed = <<>> /\ pushes = 0
  /\ c2s = <<>> /\ s2c = <<>>

\* The id of a request, and the id counter after it: spent before the send, so
\* a send that fails has used its id up.
RequestId == IF Multiplexed THEN nextId ELSE NoId
SpendId   == nextId' = IF Multiplexed THEN nextId + 1 ELSE nextId

CurrentCall == Len(results) + 1

\* RpcClient::call up to a successful send_frame.
CallSend(op) ==
  /\ client = "idle" /\ CurrentCall <= MaxCalls
  /\ op \notin LargeRequests
  /\ c2s' = Append(c2s, [type |-> "request", v |-> ClientVersion,
                         id |-> RequestId, op |-> op, call |-> CurrentCall])
  /\ SpendId
  /\ client' = "waiting"
  /\ UNCHANGED <<results, timeouts, serverVars, s2c>>

\* send_frame fails: the request is over the guard, or the peer is gone.
CallSendFails(op) ==
  /\ client = "idle" /\ CurrentCall <= MaxCalls
  /\ op \in LargeRequests \/ server = "closed"
  /\ SpendId
  /\ results' = Append(results, LocalError)
  /\ UNCHANGED <<client, timeouts, serverVars, c2s, s2c>>

CallReturns(result) ==
  /\ results' = Append(results, result)
  /\ client' = "idle"
  /\ UNCHANGED <<nextId, serverVars, c2s>>

\* Mutant: the frame that was read stays in the queue.
CallReceivePeeks ==
  /\ client = "waiting" /\ s2c # <<>>
  /\ CallReturns(ResultOf(Head(s2c)))
  /\ UNCHANGED <<timeouts, s2c>>

\* recv_frame returns a frame: whatever it is, the call is over.
CallReceive ==
  /\ client = "waiting" /\ s2c # <<>>
  /\ CallReturns(ResultOf(Head(s2c)))
  /\ s2c' = Tail(s2c)
  /\ UNCHANGED timeouts

\* recv_frame returns None: "connection closed before response".
CallEof ==
  /\ client = "waiting" /\ s2c = <<>> /\ server = "closed"
  /\ CallReturns(LocalError)
  /\ UNCHANGED <<timeouts, s2c>>

\* Mutant: a call that gave up waiting sends its request again.
CallTimeoutResends ==
  /\ client = "waiting" /\ s2c = <<>> /\ server # "closed"
  /\ timeouts < MaxTimeouts
  /\ timeouts' = timeouts + 1
  /\ \E op \in Ops :
       c2s' = Append(c2s, [type |-> "request", v |-> ClientVersion,
                           id |-> nextId - 1, op |-> op, call |-> CurrentCall])
  /\ UNCHANGED <<client, nextId, results, serverVars, s2c>>

\* recv_frame returns an error: the host's carrier gave up waiting, between two
\* frames.  The client stays usable.
CallTimeout ==
  /\ client = "waiting" /\ s2c = <<>> /\ server # "closed"
  /\ timeouts < MaxTimeouts
  /\ timeouts' = timeouts + 1
  /\ CallReturns(LocalError)
  /\ UNCHANGED s2c

\* The host drops the client between two calls.
ClientClose ==
  /\ client = "idle"
  /\ client' = "closed"
  /\ UNCHANGED <<nextId, results, timeouts, serverVars, c2s, s2c>>

-----------------------------------------------------------------------------
\* Mutant: the handler is called before the decoded request is stored.
ServeReceiveKeepsRequest ==
  /\ server = "reading" /\ c2s # <<>>
  /\ c2s' = Tail(c2s)
  /\ server' = "dispatching"
  /\ UNCHANGED <<clientVars, request, response, executed, pushes, s2c>>

\* serve_one: recv_frame and RpcRequest::decode.
ServeReceive ==
  /\ server = "reading" /\ c2s # <<>>
  /\ c2s' = Tail(c2s)
  /\ \/ /\ RequestDecodes(Head(c2s))
        /\ server' = "dispatching" /\ request' = Head(c2s)
        /\ UNCHANGED response
     \/ /\ ~RequestDecodes(Head(c2s))
        /\ server' = "replying" /\ response' = RefuseFrame(Head(c2s))
        /\ UNCHANGED request
  /\ UNCHANGED <<clientVars, executed, pushes, s2c>>

\* The handler runs and returns HandlerOutcome::Reply or ::Transport.
Dispatch ==
  /\ server = "dispatching"
  /\ \/ response' = OkResponse(request)
     \/ \E status \in Statuses :
          response' = ErrorResponse(status, request.id, request.call)
  /\ executed' = Append(executed, request.call)
  /\ server' = "replying"
  /\ UNCHANGED <<clientVars, request, pushes, c2s, s2c>>

\* send_frame of the response; serve_one returns Ok(true) and is called again.
ServeSend ==
  /\ server = "replying" /\ ~response.large
  /\ s2c' = Append(s2c, response)
  /\ server' = "reading"
  /\ UNCHANGED <<clientVars, request, response, executed, pushes, c2s>>

\* Mutant: a failed send is swallowed and the loop goes on reading.
ServeStopsSwallowed ==
  /\ server = "replying" /\ (response.large \/ client = "closed")
  /\ server' = "reading"
  /\ UNCHANGED <<clientVars, request, response, executed, pushes, c2s, s2c>>

\* The server's end goes away: serve_one saw the end of the stream or failed to
\* send (an oversized reply, a peer that is gone), which ends the host's loop and
\* drops the connection.
ServeStops ==
  /\ \/ server = "reading" /\ c2s = <<>> /\ client = "closed"
     \/ server = "replying" /\ (response.large \/ client = "closed")
  /\ server' = "closed"
  /\ UNCHANGED <<clientVars, request, response, executed, pushes, c2s, s2c>>

\* The server process dies, whatever serve_one was doing; a reset connection may
\* take the frames the client has not read with it.
ServerCrash ==
  /\ server # "closed"
  /\ server' = "closed"
  /\ s2c' \in {s2c, <<>>}
  /\ UNCHANGED <<clientVars, request, response, executed, pushes, c2s>>

\* The host emits an RpcPush on the same connection, between two responses.
ServerPush ==
  /\ server = "reading" /\ pushes < MaxPushes
  /\ pushes' = pushes + 1
  /\ s2c' = Append(s2c, [type |-> "push", v |-> ServerVersion, call |-> 0])
  /\ UNCHANGED <<clientVars, server, request, response, executed, c2s>>

-----------------------------------------------------------------------------
ClientStep ==
  \/ \E op \in Ops : CallSend(op) \/ CallSendFails(op)
  \/ CallReceive \/ CallEof \/ CallTimeout
  \/ ClientClose

ServerStep ==
  \/ ServeReceive \/ Dispatch \/ ServeSend \/ ServeStops
  \/ ServerCrash \/ ServerPush

Next == ClientStep \/ ServerStep

\* The host's serve loop keeps running and its handler returns; a blocked
\* receive returns once there is a frame or an end of stream.  The program need
\* not make calls, nothing need crash, push or time out.
Fairness ==
  /\ WF_vars(ServeReceive) /\ WF_vars(Dispatch)
  /\ WF_vars(ServeSend) /\ WF_vars(ServeStops)
  /\ WF_vars(CallReceive) /\ WF_vars(CallEof)

Spec     == Init /\ [][Next]_vars
FairSpec == Spec /\ Fairness

-----------------------------------------------------------------------------
(***************************************************************************)
(* Properties.                                                             *)
(***************************************************************************)
Result == [kind : {"reply", "status", "error"}, answers : Nat]

\* The variables keep their types, and a decoded request or a built response is
\* there whenever serve_one is at the step that uses it.
TypeOK ==
  /\ client \in {"idle", "waiting", "closed"}
  /\ server \in {"reading", "dispatching", "replying", "closed"}
  /\ nextId \in Nat \ {0} /\ pushes \in Nat /\ timeouts \in Nat
  /\ results \in Seq(Result)
  /\ executed \in Seq(Nat)
  /\ c2s \in Seq(Request)
  /\ s2c \in Seq(Response \union Push)
  /\ server = "dispatching" => request \in Request
  /\ server = "replying" => response \in Response

\* The handler runs at most once for a call and in call order, whatever the
\* client gave up on and whatever was pushed meanwhile (serve_one takes each
\* frame once and call never resends).
ExecutedInOrder ==
  \A i, j \in 1 .. Len(executed) : i < j => executed[i] < executed[j]

\* The handler has run for call n.
Ran(n) == \E i \in 1 .. Len(executed) : executed[i] = n

\* However far the client has fallen out of step with the server, a reply it
\* returns was produced by the handler for this call or an earlier one, and no
\* two calls return the same reply.
RepliesInOrder ==
  \A n \in 1 .. Len(results) : results[n].kind = "reply" =>
    /\ results[n].answers <= n
    /\ Ran(results[n].answers)
    /\ \A m \in 1 .. n - 1 :
         results[m].kind = "reply" => results[m].answers < results[n].answers

(***************************************************************************)
(* The inductive invariant behind the two orders: call numbers grow along  *)
(* the pipeline, from the replies returned, over the responses in flight   *)
(* and the frame serve_one holds, to the requests still queued.  Issued is *)
(* the last call a request was made for.                                   *)
(***************************************************************************)
Issued == IF client = "waiting" THEN CurrentCall ELSE Len(results)

BeforeQueue(n)  == \A k \in 1 .. Len(c2s) : n < c2s[k].call
BeforeServer(n) ==
  /\ BeforeQueue(n)
  /\ server = "dispatching" => n < request.call
  /\ server = "replying" => n < response.call
BeforeReturn(n) ==
  /\ BeforeServer(n)
  /\ \A j \in 1 .. Len(s2c) : s2c[j].type = "response" => n < s2c[j].call

QueueInv ==
  \A k \in 1 .. Len(c2s) :
    /\ c2s[k].call <= Issued
    /\ \A l \in 1 .. k - 1 : c2s[l].call < c2s[k].call

ServeInv ==
  /\ server = "dispatching" =>
       request.call <= Issued /\ BeforeQueue(request.call)
  /\ server = "replying" =>
       /\ response.call <= Issued /\ BeforeQueue(response.call)
       /\ response.type = "response"
       /\ response.status = "ok" => Ran(response.call)

ExecuteInv ==
  /\ ExecutedInOrder
  /\ \A i \in 1 .. Len(executed) :
       /\ executed[i] <= Issued /\ BeforeQueue(executed[i])
       /\ server = "dispatching" => executed[i] < request.call

ReturnInv ==
  \A j \in 1 .. Len(s2c) : s2c[j].type = "response" =>
    /\ s2c[j].call <= Issued /\ BeforeServer(s2c[j].call)
    /\ s2c[j].status = "ok" => Ran(s2c[j].call)
    /\ \A l \in 1 .. j - 1 :
         s2c[l].type = "response" => s2c[l].call < s2c[j].call

ReplyInv ==
  /\ RepliesInOrder
  /\ \A n \in 1 .. Len(results) :
       results[n].kind = "reply" => BeforeReturn(results[n].answers)

OrderInv == QueueInv /\ ServeInv /\ ExecuteInv /\ ReturnInv /\ ReplyInv

(***************************************************************************)
(* Without pushes and without abandoned receives client and server move in *)
(* lockstep: between calls nothing is in flight, and during a call exactly *)
(* one frame is, somewhere on its way to the server and back.              *)
(***************************************************************************)
Asks(frame) ==
  /\ frame.v = ClientVersion /\ frame.call = CurrentCall
  /\ Multiplexed => frame.id = nextId - 1

Answers(frame) ==
  /\ frame.type = "response" /\ frame.v = ServerVersion
  /\ frame.call = CurrentCall
  /\ frame.status = "ok" => Ran(CurrentCall)
  /\ Multiplexed /\ ClientVersion = ServerVersion => frame.id = nextId - 1

Lockstep ==
  \/ server = "closed" /\ s2c = <<>>
  \/ server = "reading" /\ c2s = <<>> /\ s2c = <<>> /\ client # "waiting"
  \/ /\ client = "waiting"
     /\ \/ server = "reading" /\ s2c = <<>> /\ Len(c2s) = 1 /\ Asks(c2s[1])
        \/ server = "dispatching" /\ s2c = <<>> /\ c2s = <<>> /\ Asks(request)
        \/ server = "replying" /\ s2c = <<>> /\ c2s = <<>> /\ Answers(response)
        \/ server = "reading" /\ c2s = <<>> /\ Len(s2c) = 1 /\ Answers(s2c[1])
        \/ server = "closed" /\ Len(s2c) = 1 /\ Answers(s2c[1])

\* The response that call is about to take is that to the outstanding request,
\* and carries its id, on a connection without pushes and without abandoned
\* receives: call takes the next frame, whatever it is.
ResponseForOutstandingCall ==
  client = "waiting" /\ s2c # <<>> /\ ResponseDecodes(Head(s2c)) =>
    /\ Head(s2c).call = CurrentCall
    /\ Multiplexed => Head(s2c).id = nextId - 1

\* call returns, whatever the server does: the reply, a failure of the
\* connection or the end of the stream reaches it.
CallEventuallyReturns == client = "waiting" ~> client # "waiting"

\* The connection as a whole behaves as RpcCall says: the handler runs only
\* between the start and the return of its call, and a typed reply is the one
\* produced for that call.
Calls == INSTANCE RpcCall WITH
           current <- IF client = "waiting" THEN CurrentCall ELSE 0

ImplementsRpcCall == Calls!Spec
=============================================================================
