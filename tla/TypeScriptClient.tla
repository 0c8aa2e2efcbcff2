--------------------------- MODULE TypeScriptClient ---------------------------
(***************************************************************************)
(* RpcClient and RpcServer of the TypeScript port                          *)
(* (transports/typescript/src/rpc.ts) on the WebSocket carrier that        *)
(* carrier.ts prints for hosts (:21-37).                                   *)
(*                                                                         *)
(* Unlike the Rust client, `call` is asynchronous: it gives up control     *)
(* while it awaits sendFrame and again while it awaits recvFrame, and any  *)
(* number of calls may be between the two.  Frames carry a correlation id  *)
(* and nothing looks at it: a response belongs to the call whose recvFrame *)
(* came first.  One step of the model is what runs between two awaits.     *)
(*                                                                         *)
(* Calls are numbered in the order they are made; a frame is the number of *)
(* the call it was made for.  Whether a response is a reply, a transport   *)
(* status or the answer to a handler that threw makes no difference here.  *)
(***************************************************************************)
EXTENDS Naturals, Sequences, FiniteSets, SequencesExt

CONSTANTS
  MaxCalls,  \* bound: calls the program makes
  Closed     \* what a call returns when recvFrame resolves to null

ASSUME CallsAssumption == MaxCalls \in Nat /\ Closed \notin 1 .. MaxCalls

Calls == 1 .. MaxCalls

VARIABLES
  inOrder,   \* sends resolve in the order of the calls, and the host serves one request at a time
  nextId,    \* RpcClient.nextId: the number of the next call
  sending,   \* calls that await sendFrame, in the order they were made
  waiters,   \* calls that await recvFrame, in the order they asked
  inbox,     \* frames that arrived while no call was waiting
  results,   \* the calls that have returned, with the frame they took
  upstream,  \* requests on their way to the server
  downstream,\* responses on their way to the client
  handling,  \* requests whose handler is running
  connection \* "open", "closing" (the client has not seen it yet) or "closed"

callVars == <<inOrder, nextId, sending, waiters, inbox, results, upstream,
              downstream, handling, connection>>

CallsInit ==
  /\ inOrder \in BOOLEAN
  /\ nextId = 1
  /\ sending = <<>> /\ waiters = <<>> /\ inbox = <<>>
  /\ results = [c \in {} |-> Closed]
  /\ upstream = <<>> /\ downstream = <<>> /\ handling = {}
  /\ connection = "open"

Returned == DOMAIN results
Return(c, outcome) == results' = [d \in Returned \union {c} |-> IF d = c THEN outcome ELSE results[d]]

-----------------------------------------------------------------------------
(* RpcClient.call *)

(* Up to the first await.  A socket that is closed swallows the frame. *)
CallAwaitsSend ==
  /\ nextId <= MaxCalls
  /\ nextId' = nextId + 1
  /\ sending' = Append(sending, nextId)
  /\ upstream' = IF connection = "open" THEN Append(upstream, nextId) ELSE upstream
  /\ UNCHANGED <<inOrder, waiters, inbox, results, downstream, handling, connection>>

\* Mutant: the frame stays in the inbox.
CallTakesACopy ==
  /\ \E i \in DOMAIN sending :
       /\ inOrder => i = 1
       /\ sending' = RemoveAt(sending, i)
       /\ IF inbox # <<>>
          THEN Return(sending[i], Head(inbox)) /\ UNCHANGED <<waiters, inbox>>
          ELSE waiters' = Append(waiters, sending[i]) /\ UNCHANGED <<results, inbox>>
  /\ UNCHANGED <<inOrder, nextId, upstream, downstream, handling, connection>>

\* Mutant: the inbox is not looked at before waiting.
CallAlwaysWaits ==
  /\ \E i \in DOMAIN sending :
       /\ inOrder => i = 1
       /\ sending' = RemoveAt(sending, i)
       /\ waiters' = Append(waiters, sending[i])
  /\ UNCHANGED <<inOrder, nextId, inbox, results, upstream, downstream, handling, connection>>

(* The send resolves and the call asks for a frame: it takes the first one  *)
(* that waits in the inbox, or waits itself.                                *)
CallAwaitsReceive ==
  /\ \E i \in DOMAIN sending :
       /\ inOrder => i = 1
       /\ sending' = RemoveAt(sending, i)
       /\ IF inbox # <<>>
          THEN Return(sending[i], Head(inbox)) /\ inbox' = Tail(inbox) /\ UNCHANGED waiters
          ELSE waiters' = Append(waiters, sending[i]) /\ UNCHANGED <<results, inbox>>
  /\ UNCHANGED <<inOrder, nextId, upstream, downstream, handling, connection>>

\* Mutant: the frame goes to the last waiter.
DeliverToLast ==
  /\ connection # "closed" /\ downstream # <<>>
  /\ downstream' = Tail(downstream)
  /\ IF waiters # <<>>
     THEN Return(Last(waiters), Head(downstream)) /\ waiters' = Front(waiters) /\ UNCHANGED inbox
     ELSE inbox' = Append(inbox, Head(downstream)) /\ UNCHANGED <<results, waiters>>
  /\ UNCHANGED <<inOrder, nextId, sending, upstream, handling, connection>>

(* onmessage: the frame goes to the first waiter. *)
DeliverFrame ==
  /\ connection # "closed" /\ downstream # <<>>
  /\ downstream' = Tail(downstream)
  /\ IF waiters # <<>>
     THEN Return(Head(waiters), Head(downstream)) /\ waiters' = Tail(waiters) /\ UNCHANGED inbox
     ELSE inbox' = Append(inbox, Head(downstream)) /\ UNCHANGED <<results, waiters>>
  /\ UNCHANGED <<inOrder, nextId, sending, upstream, handling, connection>>

(* onclose: one null, for the first waiter.  Without one it is dropped. *)
DeliverClose ==
  /\ connection = "closing" /\ downstream = <<>>
  /\ connection' = "closed"
  /\ IF waiters # <<>>
     THEN Return(Head(waiters), Closed) /\ waiters' = Tail(waiters)
     ELSE UNCHANGED <<results, waiters>>
  /\ UNCHANGED <<inOrder, nextId, sending, inbox, upstream, downstream, handling>>

-----------------------------------------------------------------------------
(* RpcServer.serveOne, up to the await of the handler and after it.  A host *)
(* that awaits each serveOne handles one request at a time; one that starts *)
(* the next before is not prevented from it.                                *)

ServeOneReceives ==
  /\ connection = "open" /\ upstream # <<>>
  /\ inOrder => handling = {}
  /\ handling' = handling \union {Head(upstream)}
  /\ upstream' = Tail(upstream)
  /\ UNCHANGED <<inOrder, nextId, sending, waiters, inbox, results, downstream, connection>>

ServeOneReplies ==
  /\ connection = "open"
  /\ \E c \in handling :
       /\ handling' = handling \ {c}
       /\ downstream' = Append(downstream, c)
  /\ UNCHANGED <<inOrder, nextId, sending, waiters, inbox, results, upstream, connection>>

(* The connection ends; responses already on the way still arrive. *)
ConnectionEnds ==
  /\ connection = "open"
  /\ connection' = "closing"
  /\ upstream' = <<>> /\ handling' = {}
  /\ UNCHANGED <<inOrder, nextId, sending, waiters, inbox, results, downstream>>

-----------------------------------------------------------------------------
CallsNext ==
  \/ CallAwaitsSend \/ CallAwaitsReceive \/ DeliverFrame \/ DeliverClose
  \/ ServeOneReceives \/ ServeOneReplies \/ ConnectionEnds

(* The event loop runs what is ready, and the server serves. *)
CallsFairness ==
  /\ WF_callVars(CallAwaitsReceive) /\ WF_callVars(DeliverFrame) /\ WF_callVars(DeliverClose)
  /\ WF_callVars(ServeOneReceives) /\ WF_callVars(ServeOneReplies)

-----------------------------------------------------------------------------
CallsTypeOK ==
  /\ nextId \in 1 .. MaxCalls + 1
  /\ connection \in {"open", "closing", "closed"}
  /\ \A queue \in {sending, waiters, inbox, upstream, downstream} :
       queue \in Seq(1 .. nextId - 1) /\ IsInjective(queue)
  /\ handling \subseteq 1 .. nextId - 1
  /\ results \in [Returned -> Calls \union {Closed}] /\ Returned \subseteq 1 .. nextId - 1

(* However many calls overlap at the awaits of rpc.ts:221-222, a call gets  *)
(* its own response as long as sends resolve in order and the host serves   *)
(* one request at a time: the order of the receives is that of the calls.   *)
OverlappingCallsKeepStep ==
  inOrder => \A c \in Returned : results[c] \in {c, Closed}

(* Also where they get out of step, frames are neither lost nor handed out  *)
(* twice: no two calls return one response, no call waits while a frame is  *)
(* in the inbox, and responses that are not on the way have been taken.     *)
EachResponseOnce ==
  /\ \A c, d \in Returned : (c # d /\ results[c] # Closed) => results[c] # results[d]
  /\ waiters = <<>> \/ inbox = <<>>
  /\ connection = "open" =>
       Cardinality(Returned) + Len(inbox) + Len(downstream) + Len(upstream) + Cardinality(handling)
         = nextId - 1

(* Every call returns as long as the connection stays open.  When it ends,  *)
(* the carrier resolves one waiting receive with null; a second call that   *)
(* waits, and a call made later, are never told (carrier.ts:31-32).         *)
CallsReturnWhileOpen == []<>(Returned = 1 .. nextId - 1 \/ connection # "open")
=============================================================================
