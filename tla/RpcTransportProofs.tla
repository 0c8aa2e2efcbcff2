------------------------- MODULE RpcTransportProofs -------------------------
(***************************************************************************)
(* Proofs about RpcTransport, for every set of operations, every pair of   *)
(* versions and every bound on calls, pushes and timeouts; and, for a      *)
(* connection without pushes and abandoned receives, that it implements    *)
(* RpcCall.                                                                *)
(***************************************************************************)
EXTENDS RpcTransport, SequenceTheorems, TLAPS

\* What a sequence looks like after Append and after Tail: the only facts about
\* queues the proofs below use.
LEMMA AppendFacts ==
  ASSUME NEW S, NEW s \in Seq(S), NEW e \in S
  PROVE  /\ Append(s, e) \in Seq(S)
         /\ Len(Append(s, e)) = Len(s) + 1
         /\ Len(s) \in Nat
         /\ \A i \in 1 .. Len(s) : Append(s, e)[i] = s[i]
         /\ Append(s, e)[Len(s) + 1] = e
OBVIOUS

LEMMA TailFacts ==
  ASSUME NEW S, NEW s \in Seq(S), s # <<>>
  PROVE  /\ Tail(s) \in Seq(S)
         /\ Len(s) \in Nat \ {0}
         /\ Len(Tail(s)) = Len(s) - 1
         /\ Head(s) = s[1]
         /\ Head(s) \in S
         /\ \A i \in 1 .. Len(s) - 1 : Tail(s)[i] = s[i + 1]
OBVIOUS

-----------------------------------------------------------------------------
(***************************************************************************)
(* Type correctness.                                                       *)
(***************************************************************************)
LEMMA TypeInit == Init => TypeOK
BY RpcAssumption DEF Init, TypeOK

\* What a call may return is a Result.
LEMMA ResultType ==
  ASSUME NEW frame \in Response \union Push
  PROVE  ResultOf(frame) \in Result
<1>1. CASE ~ResponseDecodes(frame)
  BY <1>1 DEF ResultOf, Result
<1>2. CASE ResponseDecodes(frame)
  <2>1. frame.call \in Nat
    BY DEF Response, Push
  <2>2. QED
    BY <1>2, <2>1 DEF ResultOf, Result
<1>3. QED
  BY <1>1, <1>2

LEMMA TypeStep == TypeOK /\ [Next]_vars => TypeOK'
<1> SUFFICES ASSUME TypeOK, [Next]_vars
             PROVE  TypeOK'
  OBVIOUS
<1> USE RpcAssumption
<1>1. ASSUME NEW op \in Ops, CallSend(op)
      PROVE  TypeOK'
  <2>1. [type |-> "request", v |-> ClientVersion, id |-> RequestId,
         op |-> op, call |-> CurrentCall] \in Request
    BY DEF TypeOK, Request, RequestId, CurrentCall, NoId
  <2>2. c2s' \in Seq(Request)
    BY <1>1, <2>1, AppendFacts DEF CallSend, TypeOK
  <2>3. QED
    BY <1>1, <2>2 DEF CallSend, TypeOK, SpendId, serverVars
<1>2. ASSUME NEW op \in Ops, CallSendFails(op)
      PROVE  TypeOK'
  <2>1. results' \in Seq(Result)
    BY <1>2, AppendFacts DEF CallSendFails, TypeOK, LocalError, Result
  <2>2. QED
    BY <1>2, <2>1 DEF CallSendFails, TypeOK, SpendId, serverVars
<1>3. CASE CallReceive
  <2>1. s2c' \in Seq(Response \union Push)
        /\ ResultOf(Head(s2c)) \in Result
    BY <1>3, TailFacts, ResultType DEF CallReceive, TypeOK
  <2>2. results' \in Seq(Result)
    BY <1>3, <2>1, AppendFacts DEF CallReceive, CallReturns, TypeOK
  <2>3. QED
    BY <1>3, <2>1, <2>2 DEF CallReceive, CallReturns, TypeOK, serverVars
<1>4. CASE CallEof
  <2>1. results' \in Seq(Result)
    BY <1>4, AppendFacts DEF CallEof, CallReturns, TypeOK, LocalError, Result
  <2>2. QED
    BY <1>4, <2>1 DEF CallEof, CallReturns, TypeOK, serverVars
<1>5. CASE CallTimeout
  <2>1. results' \in Seq(Result)
    BY <1>5, AppendFacts DEF CallTimeout, CallReturns, TypeOK, LocalError, Result
  <2>2. QED
    BY <1>5, <2>1 DEF CallTimeout, CallReturns, TypeOK, serverVars
<1>6. CASE ClientClose
  BY <1>6 DEF ClientClose, TypeOK, serverVars
<1>7. CASE ServeReceive
  <2>1. c2s' \in Seq(Request) /\ Head(c2s) \in Request
    BY <1>7, TailFacts DEF ServeReceive, TypeOK
  <2>2. RefuseFrame(Head(c2s)) \in Response
    BY <2>1 DEF RefuseFrame, ErrorResponse, Request, Response, ResponseStatuses, NoId
  <2>3. QED
    BY <1>7, <2>1, <2>2 DEF ServeReceive, TypeOK, clientVars
<1>8. CASE Dispatch
  <2>1. request \in Request /\ request.call \in Nat /\ request.id \in Nat
    BY <1>8 DEF Dispatch, TypeOK, Request
  <2>2. response' \in Response
    <3>1. (request.op \in LargeReplies) \in BOOLEAN
      OBVIOUS
    <3>2. OkResponse(request) \in Response
      BY <2>1, <3>1 DEF OkResponse, Response, ResponseStatuses
    <3>3. ASSUME NEW status \in Statuses
          PROVE  ErrorResponse(status, request.id, request.call) \in Response
      BY <2>1 DEF ErrorResponse, Response, ResponseStatuses
    <3>4. QED
      BY <1>8, <3>2, <3>3 DEF Dispatch
  <2>3. executed' \in Seq(Nat)
    BY <1>8, <2>1, AppendFacts DEF Dispatch, TypeOK
  <2>4. QED
    BY <1>8, <2>2, <2>3 DEF Dispatch, TypeOK, clientVars
<1>9. CASE ServeSend
  <2>1. s2c' \in Seq(Response \union Push)
    BY <1>9, AppendFacts DEF ServeSend, TypeOK
  <2>2. QED
    BY <1>9, <2>1 DEF ServeSend, TypeOK, clientVars
<1>10. CASE ServeStops
  BY <1>10 DEF ServeStops, TypeOK, clientVars
<1>11. CASE ServerCrash
  <2>1. s2c' \in Seq(Response \union Push)
    <3>1. s2c \in Seq(Response \union Push) /\ <<>> \in Seq(Response \union Push)
      BY DEF TypeOK
    <3>2. s2c' = s2c \/ s2c' = <<>>
      BY <1>11 DEF ServerCrash
    <3>3. QED
      BY <3>1, <3>2
  <2>2. QED
    BY <1>11, <2>1 DEF ServerCrash, TypeOK, clientVars
<1>12. CASE ServerPush
  <2>1. s2c' \in Seq(Response \union Push)
    BY <1>12, AppendFacts DEF ServerPush, TypeOK, Push
  <2>2. QED
    BY <1>12, <2>1 DEF ServerPush, TypeOK, clientVars
<1>13. CASE UNCHANGED vars
  BY <1>13 DEF vars, clientVars, serverVars, TypeOK
<1>14. QED
  BY <1>1, <1>2, <1>3, <1>4, <1>5, <1>6, <1>7, <1>8, <1>9, <1>10, <1>11,
     <1>12, <1>13 DEF Next, ClientStep, ServerStep

\* The variables keep their types in every behaviour.
THEOREM TypeCorrect == Spec => []TypeOK
BY TypeInit, TypeStep, PTL DEF Spec

-----------------------------------------------------------------------------
(***************************************************************************)
(* The order of executions and replies, with any number of pushes and of   *)
(* abandoned receives.                                                     *)
(***************************************************************************)
LEMMA OrderInit == Init => OrderInv
BY DEF Init, OrderInv, QueueInv, ServeInv, ExecuteInv, ExecutedInOrder,
       ReturnInv, ReplyInv, RepliesInOrder

LEMMA IssuedType == TypeOK => /\ Issued \in Nat /\ CurrentCall \in Nat \ {0}
                              /\ Len(results) \in Nat /\ Len(executed) \in Nat
                              /\ Len(c2s) \in Nat /\ Len(s2c) \in Nat
BY DEF TypeOK, Issued, CurrentCall

LEMMA SeqElement ==
  ASSUME NEW S, NEW s \in Seq(S), NEW i \in 1 .. Len(s)
  PROVE  s[i] \in S
OBVIOUS

\* The fields the invariant compares are numbers.
LEMMA ElementTypes ==
  ASSUME TypeOK
  PROVE  /\ \A k \in 1 .. Len(c2s) : c2s[k].call \in Nat \ {0}
         /\ \A j \in 1 .. Len(s2c) : s2c[j].call \in Nat
         /\ \A n \in 1 .. Len(results) : results[n].answers \in Nat
         /\ \A i \in 1 .. Len(executed) : executed[i] \in Nat
<1>1. ASSUME NEW k \in 1 .. Len(c2s)
      PROVE  c2s[k].call \in Nat \ {0}
  <2>1. c2s[k] \in Request
    BY SeqElement DEF TypeOK
  <2>2. QED
    BY <2>1 DEF Request
<1>2. ASSUME NEW j \in 1 .. Len(s2c)
      PROVE  s2c[j].call \in Nat
  <2>1. s2c[j] \in Response \union Push
    BY SeqElement DEF TypeOK
  <2>2. QED
    BY <2>1 DEF Response, Push
<1>3. ASSUME NEW n \in 1 .. Len(results)
      PROVE  results[n].answers \in Nat
  <2>1. results[n] \in Result
    BY SeqElement DEF TypeOK
  <2>2. QED
    BY <2>1 DEF Result
<1>4. \A i \in 1 .. Len(executed) : executed[i] \in Nat
  BY SeqElement DEF TypeOK
<1>5. QED
  BY <1>1, <1>2, <1>3, <1>4

\* A new request is the youngest frame of the whole pipeline.
LEMMA OrderCallSend ==
  ASSUME TypeOK, OrderInv, NEW op \in Ops, CallSend(op)
  PROVE  OrderInv'
<1> DEFINE frame == [type |-> "request", v |-> ClientVersion,
                     id |-> RequestId, op |-> op, call |-> CurrentCall]
<1>1. frame \in Request
  BY RpcAssumption DEF TypeOK, Request, RequestId, CurrentCall, NoId, CallSend
<1>2. /\ Len(c2s') = Len(c2s) + 1
      /\ \A k \in 1 .. Len(c2s) : c2s'[k] = c2s[k]
      /\ c2s'[Len(c2s) + 1].call = CurrentCall
  BY <1>1, AppendFacts DEF CallSend, TypeOK
<1>3. Issued = Len(results) /\ Issued' = CurrentCall /\ CurrentCall = Issued + 1
  BY DEF CallSend, Issued, CurrentCall
<1>4. \A n \in Nat : n <= Issued /\ BeforeQueue(n) => BeforeQueue(n)'
  BY <1>2, <1>3, IssuedType, SMTT(60) DEF BeforeQueue
<1> USE IssuedType
<1>5. QueueInv'
  <2>1. \A k \in 1 .. Len(c2s) : c2s[k].call \in Nat /\ c2s[k].call <= Issued
    BY ElementTypes DEF OrderInv, QueueInv
  <2>2. \A k \in 1 .. Len(c2s) + 1 : c2s'[k].call <= CurrentCall
    BY <1>2, <1>3, <2>1
  <2>3. ASSUME NEW k \in 1 .. Len(c2s) + 1, NEW l \in 1 .. k - 1
        PROVE  c2s'[l].call < c2s'[k].call
    <3>1. CASE k = Len(c2s) + 1
      <4>1. l \in 1 .. Len(c2s) /\ c2s'[l] = c2s[l] /\ c2s[l].call \in Nat
        BY <1>2, <2>1, <3>1
      <4>2. QED
        BY <1>2, <1>3, <2>1, <3>1, <4>1
    <3>2. CASE k \in 1 .. Len(c2s)
      <4>1. l \in 1 .. Len(c2s) /\ c2s'[l] = c2s[l] /\ c2s'[k] = c2s[k]
        BY <1>2, <3>2
      <4>2. QED
        BY <3>2, <4>1 DEF OrderInv, QueueInv
    <3>3. QED
      BY <3>1, <3>2
  <2>4. QED
    BY <1>2, <1>3, <2>2, <2>3 DEF QueueInv
<1>6. UNCHANGED <<results, timeouts, server, request, response, executed, s2c>>
  BY DEF CallSend, serverVars
<1>7. ServeInv'
  BY <1>3, <1>4, <1>6 DEF OrderInv, ServeInv, TypeOK, Request, Response, Ran
<1>8. ExecuteInv'
  BY <1>3, <1>4, <1>6 DEF OrderInv, ExecuteInv, ExecutedInOrder, TypeOK
<1>9. ReturnInv'
  BY <1>3, <1>4, <1>6, SMTT(60) DEF OrderInv, ReturnInv, BeforeServer, Ran, TypeOK,
                          Response, Push
<1>10. ReplyInv'
  <2>1. RepliesInOrder'
    BY <1>6 DEF OrderInv, ReplyInv, RepliesInOrder, Ran
  <2>2. ASSUME NEW n \in 1 .. Len(results), results[n].kind = "reply"
        PROVE  BeforeReturn(results[n].answers)'
    <3>1. /\ results[n].answers \in Nat /\ results[n].answers <= Issued
          /\ BeforeReturn(results[n].answers)
      BY <1>3, <2>2, ElementTypes DEF OrderInv, ReplyInv, RepliesInOrder
    <3>2. QED
      BY <1>4, <1>6, <3>1 DEF BeforeReturn, BeforeServer
  <2>3. QED
    BY <1>6, <2>1, <2>2 DEF ReplyInv
<1>11. QED
  BY <1>5, <1>7, <1>8, <1>9, <1>10 DEF OrderInv

\* A call that fails locally adds an error to the results and moves no frame.
LEMMA OrderLocalError ==
  ASSUME TypeOK, OrderInv,
         results' = Append(results, LocalError),
         client \in {"idle", "waiting"}, client' = "idle",
         UNCHANGED <<server, request, response, executed, c2s, s2c>>
  PROVE  OrderInv'
<1>1. LocalError \in Result /\ LocalError.kind = "error"
  BY DEF LocalError, Result
<1>2. /\ Len(results') = Len(results) + 1
      /\ \A n \in 1 .. Len(results) : results'[n] = results[n]
      /\ results'[Len(results) + 1].kind = "error"
  BY <1>1, AppendFacts DEF TypeOK
<1>3. Issued' = Len(results) + 1 /\ Issued <= Issued' /\ Issued' \in Nat
  BY <1>2, IssuedType DEF Issued, CurrentCall
<1> USE IssuedType
<1>4. \A n : /\ BeforeQueue(n)' <=> BeforeQueue(n)
             /\ BeforeServer(n)' <=> BeforeServer(n)
             /\ BeforeReturn(n)' <=> BeforeReturn(n)
             /\ Ran(n)' <=> Ran(n)
  BY DEF BeforeQueue, BeforeServer, BeforeReturn, Ran
<1>5. QueueInv'
  <2>1. \A k \in 1 .. Len(c2s) : c2s[k].call \in Nat
    BY ElementTypes
  <2>2. QED
    BY <1>3, <2>1 DEF OrderInv, QueueInv
<1>6. ServeInv'
  BY <1>3, <1>4 DEF OrderInv, ServeInv, TypeOK, Request, Response
<1>7. ExecuteInv'
  BY <1>3, <1>4 DEF OrderInv, ExecuteInv, ExecutedInOrder, TypeOK
<1>8. ReturnInv'
  BY <1>3, <1>4, SMTT(60) DEF OrderInv, ReturnInv, TypeOK, Response, Push
<1>9. ReplyInv'
  <2>1. \A n \in 1 .. Len(results') : results'[n].kind = "reply" =>
          n \in 1 .. Len(results) /\ results'[n] = results[n]
    BY <1>2
  <2>2. RepliesInOrder'
    BY <1>2, <1>4, <2>1 DEF OrderInv, ReplyInv, RepliesInOrder
  <2>3. QED
    BY <1>4, <2>1, <2>2 DEF OrderInv, ReplyInv
<1>10. QED
  BY <1>5, <1>6, <1>7, <1>8, <1>9 DEF OrderInv

\* The oldest frame on its way back becomes the result of the current call.
LEMMA OrderCallReceive ==
  ASSUME TypeOK, OrderInv, CallReceive
  PROVE  OrderInv'
<1> DEFINE frame == Head(s2c)
<1>1. /\ frame \in Response \union Push /\ frame = s2c[1]
      /\ Len(s2c) \in Nat \ {0}
      /\ Len(s2c') = Len(s2c) - 1
      /\ \A j \in 1 .. Len(s2c) - 1 : s2c'[j] = s2c[j + 1]
  BY TailFacts DEF CallReceive, TypeOK
<1>2. ResultOf(frame) \in Result
  BY <1>1, ResultType
<1>3. /\ Len(results') = Len(results) + 1
      /\ \A n \in 1 .. Len(results) : results'[n] = results[n]
      /\ results'[Len(results) + 1] = ResultOf(frame)
  BY <1>2, AppendFacts DEF CallReceive, CallReturns, TypeOK
<1>4. UNCHANGED <<server, request, response, executed, c2s>>
  BY DEF CallReceive, CallReturns, serverVars
<1>5. Issued' = Issued /\ Issued = Len(results) + 1
  BY <1>3 DEF CallReceive, CallReturns, Issued, CurrentCall
<1>6. \A n : /\ BeforeQueue(n)' <=> BeforeQueue(n)
             /\ BeforeServer(n)' <=> BeforeServer(n)
             /\ Ran(n)' <=> Ran(n)
  BY <1>4 DEF BeforeQueue, BeforeServer, Ran
<1>7. \A n : BeforeReturn(n) => BeforeReturn(n)'
  BY <1>1, <1>6 DEF BeforeReturn
<1> USE IssuedType
<1>8. QueueInv'
  BY <1>4, <1>5 DEF OrderInv, QueueInv
<1>9. ServeInv'
  BY <1>4, <1>5, <1>6 DEF OrderInv, ServeInv
<1>10. ExecuteInv'
  BY <1>4, <1>5, <1>6 DEF OrderInv, ExecuteInv, ExecutedInOrder
<1>11. ReturnInv'
  <2>1. ASSUME NEW j \in 1 .. Len(s2c'), s2c'[j].type = "response"
        PROVE  /\ j + 1 \in 1 .. Len(s2c) /\ s2c'[j] = s2c[j + 1]
               /\ \A l \in 1 .. j - 1 :
                    l + 1 \in 1 .. j /\ s2c'[l] = s2c[l + 1]
    BY <1>1
  <2>2. ASSUME NEW j \in 1 .. Len(s2c'), s2c'[j].type = "response"
        PROVE  /\ s2c'[j].call <= Issued /\ BeforeServer(s2c'[j].call)
               /\ s2c'[j].status = "ok" => Ran(s2c'[j].call)
               /\ \A l \in 1 .. j - 1 :
                    s2c'[l].type = "response" => s2c'[l].call < s2c'[j].call
    <3> DEFINE i == j + 1
    <3>1. i \in 1 .. Len(s2c) /\ s2c'[j] = s2c[i] /\ s2c[i].type = "response"
      BY <2>1, <2>2
    <3>2. /\ s2c[i].call <= Issued /\ BeforeServer(s2c[i].call)
          /\ s2c[i].status = "ok" => Ran(s2c[i].call)
          /\ \A l \in 1 .. i - 1 :
               s2c[l].type = "response" => s2c[l].call < s2c[i].call
      BY <3>1 DEF OrderInv, ReturnInv
    <3>3. ASSUME NEW l \in 1 .. j - 1, s2c'[l].type = "response"
          PROVE  s2c'[l].call < s2c'[j].call
      <4>1. l + 1 \in 1 .. i - 1 /\ s2c'[l] = s2c[l + 1]
        BY <1>1, <2>1, <2>2, SMTT(60)
      <4>2. QED
        BY <3>1, <3>2, <3>3, <4>1
    <3>4. QED
      BY <3>1, <3>2, <3>3
  <2>3. QED
    BY <1>5, <1>6, <2>2 DEF ReturnInv
<1>12. ASSUME ResultOf(frame).kind = "reply"
       PROVE  /\ frame.type = "response" /\ frame.status = "ok"
              /\ ResultOf(frame).answers = frame.call
              /\ frame.call \in Nat
  BY <1>1, <1>12 DEF ResultOf, ResponseDecodes, Response, Push
<1>13. ASSUME NEW n \in Nat, n = frame.call,
              ResultOf(frame).kind = "reply"
       PROVE  /\ n <= Len(results) + 1 /\ Ran(n) /\ BeforeReturn(n)'
              /\ \A m \in 1 .. Len(results) : results[m].kind = "reply"
                    => results[m].answers < n
  <2>1. s2c[1].type = "response" /\ s2c[1].status = "ok" /\ n = s2c[1].call
    BY <1>1, <1>12, <1>13
  <2>2. n <= Issued /\ Ran(n) /\ BeforeServer(n)
    BY <1>1, <2>1 DEF OrderInv, ReturnInv
  <2>3. ASSUME NEW j \in 1 .. Len(s2c'), s2c'[j].type = "response"
        PROVE  n < s2c'[j].call
    <3> DEFINE i == j + 1
    <3>1. i \in 1 .. Len(s2c) /\ 1 \in 1 .. i - 1 /\ s2c'[j] = s2c[i]
      BY <1>1
    <3>2. s2c[1].call < s2c[i].call
      BY <2>1, <2>3, <3>1 DEF OrderInv, ReturnInv
    <3>3. QED
      BY <2>1, <3>1, <3>2
  <2>4. BeforeReturn(n)'
    BY <1>6, <2>2, <2>3 DEF BeforeReturn
  <2>5. \A m \in 1 .. Len(results) : results[m].kind = "reply"
          => results[m].answers < n
    BY <1>1, <2>1 DEF OrderInv, ReplyInv, BeforeReturn
  <2>6. QED
    BY <1>5, <2>2, <2>4, <2>5
<1>14. \A n \in 1 .. Len(results') :
         \/ n = Len(results) + 1 /\ results'[n] = ResultOf(frame)
         \/ n \in 1 .. Len(results) /\ results'[n] = results[n]
  BY <1>3
<1>15. ASSUME NEW n \in 1 .. Len(results'), results'[n].kind = "reply",
              NEW a \in Nat, a = results'[n].answers
       PROVE  /\ BeforeReturn(a)' /\ a <= n /\ Ran(a)'
              /\ \A m \in 1 .. n - 1 :
                   results'[m].kind = "reply" => results'[m].answers < a
  <2>1. CASE n = Len(results) + 1 /\ results'[n] = ResultOf(frame)
    <3>1. /\ a <= Len(results) + 1 /\ Ran(a) /\ BeforeReturn(a)'
          /\ \A m \in 1 .. Len(results) : results[m].kind = "reply"
                => results[m].answers < a
      BY <1>12, <1>13, <1>15, <2>1
    <3>2. QED
      BY <1>3, <1>6, <2>1, <3>1
  <2>2. CASE n \in 1 .. Len(results) /\ results'[n] = results[n]
    <3>1. \A m \in 1 .. n - 1 : m \in 1 .. Len(results) /\ results'[m] = results[m]
      BY <1>3, <2>2
    <3>2. /\ BeforeReturn(a) /\ a <= n /\ Ran(a)
          /\ \A m \in 1 .. n - 1 :
               results[m].kind = "reply" => results[m].answers < a
      BY <1>15, <2>2 DEF OrderInv, ReplyInv, RepliesInOrder
    <3>3. QED
      BY <1>6, <1>7, <3>1, <3>2
  <2>3. QED
    BY <1>14, <2>1, <2>2
<1>16. \A n \in 1 .. Len(results') :
         results'[n].kind = "reply" => results'[n].answers \in Nat
  BY <1>1, <1>12, <1>14, ElementTypes
<1>17. RepliesInOrder'
  BY <1>15, <1>16 DEF RepliesInOrder, Ran
<1>18. ReplyInv'
  BY <1>15, <1>16, <1>17 DEF ReplyInv, BeforeReturn, BeforeServer, BeforeQueue
<1>19. QED
  BY <1>8, <1>9, <1>10, <1>11, <1>18 DEF OrderInv

\* The oldest queued request moves into the hands of serve_one.
LEMMA OrderServeReceive ==
  ASSUME TypeOK, OrderInv, ServeReceive
  PROVE  OrderInv'
<1> DEFINE frame == Head(c2s)
<1>1. /\ frame = c2s[1] /\ Len(c2s) \in Nat \ {0}
      /\ Len(c2s') = Len(c2s) - 1
      /\ \A k \in 1 .. Len(c2s) - 1 : c2s'[k] = c2s[k + 1]
  BY TailFacts DEF ServeReceive, TypeOK
<1>2. /\ UNCHANGED <<client, results, executed, s2c>>
      /\ server = "reading"
      /\ \/ server' = "dispatching" /\ request' = frame
         \/ server' = "replying" /\ response' = RefuseFrame(frame)
  BY DEF ServeReceive, clientVars
<1>3. /\ RefuseFrame(frame).call = frame.call
      /\ RefuseFrame(frame).type = "response"
      /\ RefuseFrame(frame).status # "ok"
  BY DEF RefuseFrame, ErrorResponse
<1>4. Issued' = Issued
  BY <1>2 DEF Issued, CurrentCall
<1>5. ASSUME NEW k \in 1 .. Len(c2s')
      PROVE  /\ k + 1 \in 1 .. Len(c2s) /\ c2s'[k] = c2s[k + 1]
             /\ frame.call < c2s'[k].call
  <2>1. k + 1 \in 1 .. Len(c2s) /\ 1 \in 1 .. (k + 1) - 1 /\ c2s'[k] = c2s[k + 1]
    BY <1>1
  <2>2. c2s[1].call < c2s[k + 1].call
    BY <2>1 DEF OrderInv, QueueInv
  <2>3. QED
    BY <1>1, <2>1, <2>2
<1>6. frame.call <= Issued /\ frame.call \in Nat
  BY <1>1, ElementTypes DEF OrderInv, QueueInv
\* Whatever was ahead of the queue is ahead of the frame just taken.
<1>7. ASSUME NEW n \in Nat, BeforeQueue(n)
      PROVE  BeforeServer(n)'
  <2>1. n < frame.call
    BY <1>1, <1>7 DEF BeforeQueue
  <2>2. BeforeQueue(n)'
    BY <1>1, <1>5, <1>7 DEF BeforeQueue
  <2>3. QED
    BY <1>2, <1>3, <2>1, <2>2 DEF BeforeServer
<1>8. \A n : Ran(n)' <=> Ran(n)
  BY <1>2 DEF Ran
<1>9. QueueInv'
  <2>1. ASSUME NEW k \in 1 .. Len(c2s')
        PROVE  c2s'[k].call <= Issued
    BY <1>5 DEF OrderInv, QueueInv
  <2>2. ASSUME NEW k \in 1 .. Len(c2s'), NEW l \in 1 .. k - 1
        PROVE  c2s'[l].call < c2s'[k].call
    <3> DEFINE i == k + 1
    <3>1. /\ i \in 1 .. Len(c2s) /\ c2s'[k] = c2s[i]
          /\ l + 1 \in 1 .. i - 1 /\ c2s'[l] = c2s[l + 1]
      BY <1>1
    <3>2. QED
      BY <3>1 DEF OrderInv, QueueInv
  <2>3. QED
    BY <1>4, <2>1, <2>2 DEF QueueInv
<1>10. ServeInv'
  BY <1>2, <1>3, <1>4, <1>5, <1>6 DEF ServeInv, BeforeQueue
<1>11. ASSUME NEW i \in 1 .. Len(executed)
       PROVE  /\ executed[i] \in Nat /\ executed[i] <= Issued
              /\ BeforeQueue(executed[i])
  BY <1>11, ElementTypes DEF OrderInv, ExecuteInv
<1>12. ExecuteInv'
  <2>1. ExecutedInOrder'
    BY <1>2 DEF OrderInv, ExecuteInv, ExecutedInOrder
  <2>2. ASSUME NEW i \in 1 .. Len(executed), NEW n \in Nat, n = executed[i]
        PROVE  n <= Issued' /\ BeforeServer(n)'
    BY <1>4, <1>7, <1>11, <2>2
  <2>3. QED
    BY <1>2, <1>11, <2>1, <2>2 DEF ExecuteInv, BeforeServer, BeforeQueue
<1>13. ReturnInv'
  <2>1. ASSUME NEW j \in 1 .. Len(s2c), s2c[j].type = "response",
               NEW n \in Nat, n = s2c[j].call
        PROVE  BeforeServer(n)'
    BY <1>7, <2>1 DEF OrderInv, ReturnInv, BeforeServer
  <2>2. QED
    BY <1>2, <1>4, <1>8, <2>1, ElementTypes
       DEF OrderInv, ReturnInv, BeforeServer, BeforeQueue
<1>14. ReplyInv'
  <2>1. RepliesInOrder'
    BY <1>2, <1>8 DEF OrderInv, ReplyInv, RepliesInOrder
  <2>2. ASSUME NEW m \in 1 .. Len(results), results[m].kind = "reply",
               NEW n \in Nat, n = results[m].answers
        PROVE  BeforeReturn(n)'
    <3>1. BeforeReturn(n)
      BY <2>2 DEF OrderInv, ReplyInv
    <3>2. QED
      BY <1>2, <1>7, <3>1 DEF BeforeReturn, BeforeServer
  <2>3. QED
    BY <1>2, <2>1, <2>2, ElementTypes
       DEF ReplyInv, BeforeReturn, BeforeServer, BeforeQueue
<1>15. QED
  BY <1>9, <1>10, <1>12, <1>13, <1>14 DEF OrderInv

\* The handler runs for the youngest call it ever ran for.
LEMMA OrderDispatch ==
  ASSUME TypeOK, OrderInv, Dispatch
  PROVE  OrderInv'
<1>1. /\ UNCHANGED <<client, results, c2s, s2c>>
      /\ server = "dispatching" /\ server' = "replying"
      /\ response'.call = request.call /\ response'.type = "response"
      /\ request \in Request
  BY DEF Dispatch, clientVars, TypeOK, OkResponse, ErrorResponse
<1>2. request.call \in Nat /\ request.call <= Issued /\ BeforeQueue(request.call)
  BY <1>1 DEF OrderInv, ServeInv, Request
<1>3. /\ Len(executed') = Len(executed) + 1
      /\ \A i \in 1 .. Len(executed) : executed'[i] = executed[i]
      /\ executed'[Len(executed) + 1] = request.call
  BY <1>2, AppendFacts DEF Dispatch, TypeOK
<1>4. Issued' = Issued
  BY <1>1 DEF Issued, CurrentCall
<1> USE IssuedType
<1>5. \A n : /\ BeforeQueue(n)' <=> BeforeQueue(n)
             /\ BeforeServer(n) => BeforeServer(n)'
             /\ BeforeReturn(n) => BeforeReturn(n)'
  BY <1>1 DEF BeforeQueue, BeforeServer, BeforeReturn
<1>6. (\A n : Ran(n) => Ran(n)') /\ (\E i \in 1 .. Len(executed') : executed'[i] = request.call)
  BY <1>3 DEF Ran
<1>7. QueueInv'
  BY <1>1, <1>4 DEF OrderInv, QueueInv
<1>8. ServeInv'
  BY <1>1, <1>2, <1>4, <1>6 DEF ServeInv, Ran, BeforeQueue
<1>9. \A i \in 1 .. Len(executed) : executed[i] < request.call
  BY <1>1 DEF OrderInv, ExecuteInv
<1>10. ExecuteInv'
  <2>1. ExecutedInOrder'
    <3>1. ASSUME NEW i \in 1 .. Len(executed'), NEW j \in 1 .. Len(executed'), i < j
          PROVE  executed'[i] < executed'[j]
      <4>1. CASE j = Len(executed) + 1
        BY <1>3, <1>9, <3>1, <4>1
      <4>2. CASE j \in 1 .. Len(executed)
        BY <1>3, <3>1, <4>2 DEF OrderInv, ExecuteInv, ExecutedInOrder
      <4>3. QED
        BY <1>3, <4>1, <4>2
    <3>2. QED
      BY <3>1 DEF ExecutedInOrder
  <2>2. ASSUME NEW i \in 1 .. Len(executed')
        PROVE  executed'[i] <= Issued /\ BeforeQueue(executed'[i])
    <3>1. CASE i = Len(executed) + 1
      BY <1>2, <1>3, <3>1
    <3>2. CASE i \in 1 .. Len(executed)
      BY <1>3, <3>2 DEF OrderInv, ExecuteInv
    <3>3. QED
      BY <1>3, <3>1, <3>2
  <2>3. QED
    BY <1>1, <1>4, <2>1, <2>2 DEF ExecuteInv, BeforeQueue
<1>11. ReturnInv'
  BY <1>1, <1>4, <1>5, <1>6 DEF OrderInv, ReturnInv
<1>12. ReplyInv'
  BY <1>1, <1>5, <1>6 DEF OrderInv, ReplyInv, RepliesInOrder
<1>13. QED
  BY <1>7, <1>8, <1>10, <1>11, <1>12 DEF OrderInv

\* The response in hand becomes the youngest response in flight.
LEMMA OrderServeSend ==
  ASSUME TypeOK, OrderInv, ServeSend
  PROVE  OrderInv'
<1>1. /\ UNCHANGED <<client, results, executed, c2s>>
      /\ server = "replying" /\ server' = "reading"
      /\ response \in Response /\ response.call \in Nat
  BY DEF ServeSend, clientVars, TypeOK, Response
<1>2. /\ Len(s2c') = Len(s2c) + 1
      /\ \A j \in 1 .. Len(s2c) : s2c'[j] = s2c[j]
      /\ s2c'[Len(s2c) + 1] = response
  BY <1>1, AppendFacts DEF ServeSend, TypeOK
<1>3. Issued' = Issued
  BY <1>1 DEF Issued, CurrentCall
<1> USE IssuedType
<1>4. /\ response.call <= Issued /\ BeforeQueue(response.call)
      /\ response.status = "ok" => Ran(response.call)
  BY <1>1 DEF OrderInv, ServeInv
<1>5. \A n : /\ BeforeQueue(n)' <=> BeforeQueue(n)
             /\ BeforeServer(n)' <=> BeforeQueue(n)
             /\ BeforeServer(n) => BeforeQueue(n) /\ n < response.call
             /\ Ran(n)' <=> Ran(n)
  BY <1>1 DEF BeforeQueue, BeforeServer, Ran
<1>6. QueueInv'
  BY <1>1, <1>3 DEF OrderInv, QueueInv
<1>7. ServeInv'
  BY <1>1 DEF ServeInv
<1>8. ExecuteInv'
  BY <1>1, <1>3, <1>5 DEF OrderInv, ExecuteInv, ExecutedInOrder
<1>9. ReturnInv'
  <2>1. ASSUME NEW j \in 1 .. Len(s2c'), s2c'[j].type = "response"
        PROVE  /\ s2c'[j].call <= Issued /\ BeforeQueue(s2c'[j].call)
               /\ s2c'[j].status = "ok" => Ran(s2c'[j].call)
               /\ \A l \in 1 .. j - 1 :
                    s2c'[l].type = "response" => s2c'[l].call < s2c'[j].call
    <3>1. CASE j = Len(s2c) + 1
      <4>1. \A l \in 1 .. Len(s2c) : s2c[l].type = "response"
              => s2c[l].call < response.call
        BY <1>5 DEF OrderInv, ReturnInv
      <4>2. QED
        BY <1>2, <1>4, <3>1, <4>1
    <3>2. CASE j \in 1 .. Len(s2c)
      <4>1. s2c'[j] = s2c[j] /\ \A l \in 1 .. j - 1 : s2c'[l] = s2c[l]
        BY <1>2, <3>2
      <4>2. QED
        BY <1>5, <2>1, <3>2, <4>1 DEF OrderInv, ReturnInv
    <3>3. QED
      BY <1>2, <3>1, <3>2
  <2>2. QED
    BY <1>1, <1>3, <2>1 DEF ReturnInv, BeforeServer, BeforeQueue, Ran
<1>10. ReplyInv'
  <2>1. RepliesInOrder'
    BY <1>1, <1>5 DEF OrderInv, ReplyInv, RepliesInOrder
  <2>2. ASSUME NEW m \in 1 .. Len(results), results[m].kind = "reply",
               NEW n \in Nat, n = results[m].answers
        PROVE  BeforeReturn(n)'
    <3>1. /\ BeforeServer(n)
          /\ \A j \in 1 .. Len(s2c) : s2c[j].type = "response" => n < s2c[j].call
      BY <2>2 DEF OrderInv, ReplyInv, BeforeReturn
    <3>2. \A j \in 1 .. Len(s2c') :
            s2c'[j].type = "response" => n < s2c'[j].call
      BY <1>2, <1>5, <3>1
    <3>3. QED
      BY <1>5, <3>1, <3>2 DEF BeforeReturn
  <2>3. QED
    BY <1>1, <2>1, <2>2, ElementTypes
       DEF ReplyInv, BeforeReturn, BeforeServer, BeforeQueue
<1>11. QED
  BY <1>6, <1>7, <1>8, <1>9, <1>10 DEF OrderInv

\* The server's end closes: what it held is gone, and so may the frames on
\* their way back be.
LEMMA OrderServerGone ==
  ASSUME TypeOK, OrderInv, server' = "closed", s2c' \in {s2c, <<>>},
         UNCHANGED <<client, results, executed, c2s>>
  PROVE  OrderInv'
<1>1. s2c' = s2c \/ (s2c' = <<>> /\ Len(s2c') = 0)
  OBVIOUS
<1>2. Issued' = Issued
  BY DEF Issued, CurrentCall
<1>3. \A n : /\ BeforeQueue(n)' <=> BeforeQueue(n)
             /\ BeforeServer(n) => BeforeServer(n)'
             /\ Ran(n)' <=> Ran(n)
  BY DEF BeforeQueue, BeforeServer, Ran
<1>4. \A n : BeforeReturn(n) => BeforeReturn(n)'
  BY <1>1, <1>3 DEF BeforeReturn
<1>5. QueueInv' /\ ServeInv'
  BY <1>2 DEF OrderInv, QueueInv, ServeInv
<1>6. ExecuteInv'
  BY <1>2, <1>3 DEF OrderInv, ExecuteInv, ExecutedInOrder
<1>7. ReturnInv'
  BY <1>1, <1>2, <1>3 DEF OrderInv, ReturnInv
<1>8. ReplyInv'
  BY <1>3, <1>4 DEF OrderInv, ReplyInv, RepliesInOrder
<1>9. QED
  BY <1>5, <1>6, <1>7, <1>8 DEF OrderInv

\* A push is not a response: the order of responses does not see it.
LEMMA OrderServerPush ==
  ASSUME TypeOK, OrderInv, ServerPush
  PROVE  OrderInv'
<1> DEFINE push == [type |-> "push", v |-> ServerVersion, call |-> 0]
<1>1. push \in Response \union Push
  BY RpcAssumption DEF Push
<1>2. /\ Len(s2c') = Len(s2c) + 1
      /\ \A j \in 1 .. Len(s2c) : s2c'[j] = s2c[j]
      /\ s2c'[Len(s2c) + 1].type = "push"
  BY <1>1, AppendFacts DEF ServerPush, TypeOK
<1>3. UNCHANGED <<client, results, server, request, response, executed, c2s>>
  BY DEF ServerPush, clientVars
<1> USE IssuedType
<1>4. \A j \in 1 .. Len(s2c') : s2c'[j].type = "response" =>
        /\ j \in 1 .. Len(s2c) /\ s2c'[j] = s2c[j]
        /\ \A l \in 1 .. j - 1 : l \in 1 .. Len(s2c) /\ s2c'[l] = s2c[l]
  BY <1>2
<1>5. Issued' = Issued
  BY <1>3 DEF Issued, CurrentCall
<1>6. \A n : /\ BeforeQueue(n)' <=> BeforeQueue(n)
             /\ BeforeServer(n)' <=> BeforeServer(n)
             /\ Ran(n)' <=> Ran(n)
  BY <1>3 DEF BeforeQueue, BeforeServer, Ran
<1>7. \A n : BeforeReturn(n) => BeforeReturn(n)'
  BY <1>4, <1>6 DEF BeforeReturn
<1>8. QueueInv' /\ ServeInv'
  BY <1>3, <1>5, <1>6 DEF OrderInv, QueueInv, ServeInv
<1>9. ExecuteInv'
  BY <1>3, <1>5, <1>6 DEF OrderInv, ExecuteInv, ExecutedInOrder
<1>10. ReturnInv'
  BY <1>4, <1>5, <1>6 DEF OrderInv, ReturnInv
<1>11. ReplyInv'
  BY <1>3, <1>6, <1>7 DEF OrderInv, ReplyInv, RepliesInOrder
<1>12. QED
  BY <1>8, <1>9, <1>10, <1>11 DEF OrderInv

\* Between two calls, the client's end may close; Issued does not move.
LEMMA OrderUnchanged ==
  ASSUME OrderInv, client' = client \/ (client = "idle" /\ client' = "closed"),
         UNCHANGED <<results, server, request, response, executed, c2s, s2c>>
  PROVE  OrderInv'
<1>1. Issued' = Issued
  BY DEF Issued, CurrentCall
<1>2. \A n : /\ BeforeQueue(n)' <=> BeforeQueue(n)
             /\ BeforeServer(n)' <=> BeforeServer(n)
             /\ BeforeReturn(n)' <=> BeforeReturn(n)
             /\ Ran(n)' <=> Ran(n)
  BY DEF BeforeQueue, BeforeServer, BeforeReturn, Ran
<1>3. QueueInv' /\ ServeInv'
  BY <1>1, <1>2 DEF OrderInv, QueueInv, ServeInv
<1>4. ExecuteInv' /\ ReturnInv'
  BY <1>1, <1>2 DEF OrderInv, ExecuteInv, ExecutedInOrder, ReturnInv
<1>5. ReplyInv'
  BY <1>2 DEF OrderInv, ReplyInv, RepliesInOrder
<1>6. QED
  BY <1>3, <1>4, <1>5 DEF OrderInv

LEMMA OrderStep == TypeOK /\ OrderInv /\ [Next]_vars => OrderInv'
<1> SUFFICES ASSUME TypeOK, OrderInv, [Next]_vars
             PROVE  OrderInv'
  OBVIOUS
<1>1. ASSUME NEW op \in Ops, CallSend(op)
      PROVE  OrderInv'
  BY <1>1, OrderCallSend
<1>2. ASSUME NEW op \in Ops, CallSendFails(op)
      PROVE  OrderInv'
  BY <1>2, OrderLocalError DEF CallSendFails, serverVars
<1>3. CASE CallReceive
  BY <1>3, OrderCallReceive
<1>4. CASE CallEof
  BY <1>4, OrderLocalError DEF CallEof, CallReturns, serverVars
<1>5. CASE CallTimeout
  BY <1>5, OrderLocalError DEF CallTimeout, CallReturns, serverVars
<1>6. CASE ClientClose
  <2>1. /\ client = "idle" /\ client' = "closed"
        /\ UNCHANGED <<results, server, request, response, executed, c2s, s2c>>
    BY <1>6 DEF ClientClose, serverVars
  <2>2. QED
    BY <2>1, OrderUnchanged
<1>7. CASE ServeReceive
  BY <1>7, OrderServeReceive
<1>8. CASE Dispatch
  BY <1>8, OrderDispatch
<1>9. CASE ServeSend
  BY <1>9, OrderServeSend
<1>10. CASE ServeStops
  BY <1>10, OrderServerGone DEF ServeStops, clientVars
<1>11. CASE ServerCrash
  BY <1>11, OrderServerGone DEF ServerCrash, clientVars
<1>12. CASE ServerPush
  BY <1>12, OrderServerPush
<1>13. CASE UNCHANGED vars
  <2>1. /\ client' = client \/ (client = "idle" /\ client' = "closed")
        /\ UNCHANGED <<results, server, request, response, executed, c2s, s2c>>
    BY <1>13 DEF vars, clientVars, serverVars
  <2>2. QED
    BY <2>1, OrderUnchanged
<1>14. QED
  BY <1>1, <1>2, <1>3, <1>4, <1>5, <1>6, <1>7, <1>8, <1>9, <1>10, <1>11,
     <1>12, <1>13 DEF Next, ClientStep, ServerStep

THEOREM OrderInvariant == Spec => []OrderInv
<1>1. Spec => []TypeOK
  BY TypeCorrect
<1>2. QED
  BY <1>1, OrderInit, OrderStep, PTL DEF Spec

\* The handler runs at most once for a call, in call order, whatever is pushed,
\* abandoned or lost with the connection.
THEOREM HandlerRunsInOrder == Spec => []ExecutedInOrder
<1>1. OrderInv => ExecutedInOrder
  BY DEF OrderInv, ExecuteInv
<1>2. QED
  BY <1>1, OrderInvariant, PTL

\* A reply a call returns was produced for that call or an earlier one, and no
\* two calls return the same reply.
THEOREM RepliesComeInOrder == Spec => []RepliesInOrder
<1>1. OrderInv => RepliesInOrder
  BY DEF OrderInv, ReplyInv
<1>2. QED
  BY <1>1, OrderInvariant, PTL

-----------------------------------------------------------------------------
(***************************************************************************)
(* A connection that carries no pushes and whose client never abandons a   *)
(* receive implements RpcCall.                                             *)
(***************************************************************************)
Quiet == MaxPushes = 0 /\ MaxTimeouts = 0

LEMMA LockstepInit == Init => Lockstep
BY DEF Init, Lockstep

LEMMA Emptied ==
  ASSUME NEW S, NEW s \in Seq(S), Len(s) = 1
  PROVE  /\ s # <<>> /\ Head(s) = s[1] /\ s[1] \in S
         /\ Tail(s) = <<>>
<1>1. s # <<>>
  BY EmptySeq
<1>2. Tail(s) \in Seq(S) /\ Len(Tail(s)) = 0 /\ Head(s) = s[1] /\ s[1] \in S
  BY <1>1, TailFacts
<1>3. Tail(s) = <<>>
  BY <1>2, EmptySeq
<1>4. QED
  BY <1>1, <1>2, <1>3

LEMMA Filled ==
  ASSUME NEW S, NEW e \in S
  PROVE  Len(Append(<<>>, e)) = 1 /\ Append(<<>>, e)[1] = e
OBVIOUS

LEMMA LockstepStep ==
  ASSUME Quiet, TypeOK, Lockstep, [Next]_vars
  PROVE  Lockstep'
<1> USE RpcAssumption, IssuedType
<1>1. ASSUME NEW op \in Ops, CallSend(op)
      PROVE  Lockstep'
  <2> DEFINE frame == [type |-> "request", v |-> ClientVersion,
                       id |-> RequestId, op |-> op, call |-> CurrentCall]
  <2>1. /\ client = "idle" /\ client' = "waiting"
        /\ UNCHANGED <<results, server, s2c>>
        /\ c2s' = Append(c2s, frame)
    BY <1>1 DEF CallSend, serverVars
  <2>5. Multiplexed => frame.id = nextId' - 1
    BY <1>1 DEF CallSend, SpendId, RequestId, TypeOK
  <2>2. CASE server = "closed" /\ s2c = <<>>
    BY <2>1, <2>2 DEF Lockstep
  <2>3. CASE server = "reading" /\ c2s = <<>> /\ s2c = <<>>
    <3>1. Len(c2s') = 1 /\ c2s'[1] = frame
      BY <2>1, <2>3, Filled
    <3>2. CurrentCall' = CurrentCall
      BY <2>1 DEF CurrentCall
    <3>3. Asks(c2s[1])'
      BY <2>1, <2>5, <3>1, <3>2 DEF Asks
    <3>4. QED
      BY <2>1, <2>3, <3>1, <3>3 DEF Lockstep
  <2>4. QED
    BY <2>1, <2>2, <2>3 DEF Lockstep
<1>2. ASSUME NEW op \in Ops, CallSendFails(op)
      PROVE  Lockstep'
  BY <1>2 DEF CallSendFails, Lockstep, serverVars
<1>3. CASE CallReceive
  <2>1. /\ Len(s2c) = 1 /\ client' = "idle" /\ UNCHANGED <<server, c2s>>
        /\ s2c' = Tail(s2c) /\ server \in {"reading", "closed"}
        /\ server = "reading" => c2s = <<>>
    BY <1>3 DEF CallReceive, CallReturns, Lockstep, serverVars
  <2>2. s2c' = <<>>
    BY <2>1, Emptied DEF TypeOK
  <2>3. QED
    BY <2>1, <2>2 DEF Lockstep
<1>4. CASE CallEof
  BY <1>4 DEF CallEof, CallReturns, Lockstep, serverVars
<1>5. CASE CallTimeout
  BY <1>5 DEF CallTimeout, Quiet, TypeOK
<1>6. CASE ClientClose
  BY <1>6 DEF ClientClose, Lockstep, serverVars
<1>7. CASE ServeReceive
  <2> DEFINE frame == Head(c2s)
  <2>1. /\ server = "reading" /\ c2s # <<>> /\ c2s' = Tail(c2s)
        /\ UNCHANGED <<client, nextId, results, executed, s2c>>
        /\ \/ frame.v = ServerVersion /\ server' = "dispatching" /\ request' = frame
           \/ /\ frame.v # ServerVersion /\ server' = "replying"
              /\ response' = RefuseFrame(frame)
    BY <1>7 DEF ServeReceive, RequestDecodes, clientVars
  <2>2. client = "waiting" /\ s2c = <<>> /\ Len(c2s) = 1 /\ Asks(c2s[1])
    BY <2>1 DEF Lockstep
  <2>3. frame = c2s[1] /\ c2s' = <<>>
    BY <2>1, <2>2, Emptied DEF TypeOK
  <2>4. CurrentCall' = CurrentCall
    BY <2>1 DEF CurrentCall
  <2>5. CASE server' = "dispatching" /\ request' = frame
    BY <2>1, <2>2, <2>3, <2>4, <2>5 DEF Lockstep, Asks
  <2>6. CASE frame.v # ServerVersion /\ server' = "replying"
             /\ response' = RefuseFrame(frame)
    <3>1. Answers(response)'
      BY <2>2, <2>3, <2>4, <2>6
         DEF Asks, Answers, RefuseFrame, ErrorResponse
    <3>2. QED
      BY <2>1, <2>2, <2>3, <2>6, <3>1 DEF Lockstep
  <2>7. QED
    BY <2>1, <2>5, <2>6
<1>8. CASE Dispatch
  <2>1. /\ server = "dispatching" /\ server' = "replying"
        /\ UNCHANGED <<client, nextId, results, c2s, s2c>>
        /\ executed' = Append(executed, request.call)
        /\ request \in Request
        /\ \/ response' = OkResponse(request)
           \/ \E status \in Statuses :
                response' = ErrorResponse(status, request.id, request.call)
    BY <1>8 DEF Dispatch, clientVars, TypeOK
  <2>2. client = "waiting" /\ s2c = <<>> /\ c2s = <<>> /\ Asks(request)
    BY <2>1 DEF Lockstep
  <2>3. CurrentCall' = CurrentCall
    BY <2>1 DEF CurrentCall
  <2>4. Ran(CurrentCall)'
    <3>1. request.call \in Nat /\ request.call = CurrentCall
      BY <2>1, <2>2 DEF Request, Asks
    <3>2. /\ Len(executed') = Len(executed) + 1
          /\ executed'[Len(executed) + 1] = request.call
      BY <2>1, <3>1, AppendFacts DEF TypeOK
    <3>3. QED
      BY <2>3, <3>1, <3>2 DEF Ran
  <2>5. Answers(response)'
    BY <2>1, <2>2, <2>3, <2>4
       DEF Asks, Answers, OkResponse, ErrorResponse
  <2>6. QED
    BY <2>1, <2>2, <2>5 DEF Lockstep
<1>9. CASE ServeSend
  <2>1. /\ server = "replying" /\ server' = "reading"
        /\ s2c' = Append(s2c, response)
        /\ response \in Response
        /\ UNCHANGED <<client, nextId, results, executed, c2s>>
    BY <1>9 DEF ServeSend, clientVars, TypeOK
  <2>2. client = "waiting" /\ s2c = <<>> /\ c2s = <<>> /\ Answers(response)
    BY <2>1 DEF Lockstep
  <2>3. Len(s2c') = 1 /\ s2c'[1] = response
    BY <2>1, <2>2, Filled
  <2>4. Answers(s2c[1])'
    BY <2>1, <2>2, <2>3 DEF Answers, CurrentCall, Ran
  <2>5. QED
    BY <2>1, <2>2, <2>3, <2>4 DEF Lockstep
<1>10. CASE ServeStops
  BY <1>10 DEF ServeStops, Lockstep, clientVars
<1>11. CASE ServerCrash
  <2>1. CASE s2c' = <<>>
    BY <1>11, <2>1 DEF ServerCrash, Lockstep
  <2>2. CASE s2c' = s2c
    <3>1. UNCHANGED <<client, nextId, results, executed, c2s, s2c>> /\ server' = "closed"
      BY <1>11, <2>2 DEF ServerCrash, clientVars
    <3>2. Answers(s2c[1])' <=> Answers(s2c[1])
      BY <3>1 DEF Answers, CurrentCall, Ran
    <3>3. QED
      BY <1>11, <3>1, <3>2 DEF Lockstep, ServerCrash
  <2>3. QED
    BY <1>11, <2>1, <2>2 DEF ServerCrash
<1>12. CASE ServerPush
  BY <1>12 DEF ServerPush, Quiet, TypeOK
<1>13. CASE UNCHANGED vars
  <2>1. /\ CurrentCall' = CurrentCall
        /\ UNCHANGED <<client, nextId, server, request, response, executed, c2s, s2c>>
    BY <1>13 DEF vars, clientVars, serverVars, CurrentCall
  <2>2. QED
    BY <2>1 DEF Lockstep, Asks, Answers, Ran
<1>14. QED
  BY <1>1, <1>2, <1>3, <1>4, <1>5, <1>6, <1>7, <1>8, <1>9, <1>10, <1>11,
     <1>12, <1>13 DEF Next, ClientStep, ServerStep

\* Nothing is in flight between two calls, and exactly one frame during a call.
THEOREM LockstepInvariant == ASSUME Quiet PROVE Spec => []Lockstep
<1>1. TypeOK /\ Lockstep /\ [Next]_vars => Lockstep'
  BY LockstepStep
<1>2. QED
  BY <1>1, LockstepInit, TypeCorrect, PTL DEF Spec

\* The frame a call is about to take is the response to its own request, and
\* carries the id of that request.
THEOREM ResponseIsForOutstandingCall ==
  ASSUME Quiet
  PROVE  Spec => []ResponseForOutstandingCall
<1>1. TypeOK /\ Lockstep => ResponseForOutstandingCall
  <2> SUFFICES ASSUME TypeOK, Lockstep, client = "waiting", s2c # <<>>,
                      ResponseDecodes(Head(s2c))
               PROVE  /\ Head(s2c).call = CurrentCall
                      /\ Multiplexed => Head(s2c).id = nextId - 1
    BY DEF ResponseForOutstandingCall
  <2>1. Len(s2c) = 1 /\ Answers(s2c[1])
    BY DEF Lockstep
  <2>2. Head(s2c) = s2c[1]
    BY <2>1, Emptied DEF TypeOK
  <2>3. QED
    BY <2>1, <2>2 DEF Answers, ResponseDecodes
<1>2. QED
  BY <1>1, LockstepInvariant, TypeCorrect, PTL

-----------------------------------------------------------------------------
LEMMA RefinesInit == Init => Calls!Init
BY DEF Init, Calls!Init

\* Sends are Begin, the handler is Execute, every way out of call is Return, a
\* send that fails is FailUnsent; everything else is invisible to the caller.
LEMMA RefinesStep ==
  ASSUME Quiet, TypeOK, OrderInv, Lockstep, [Next]_vars
  PROVE  [Calls!Next]_(Calls!vars)
<1> USE RpcAssumption, IssuedType
<1>1. ASSUME NEW op \in Ops, CallSend(op)
      PROVE  Calls!Next
  <2>1. /\ client = "idle" /\ client' = "waiting"
        /\ UNCHANGED <<results, executed>>
    BY <1>1 DEF CallSend, serverVars
  <2>2. CurrentCall' = Len(results) + 1
    BY <2>1 DEF CurrentCall
  <2>3. Calls!Begin
    BY <2>1, <2>2 DEF Calls!Begin
  <2>4. QED
    BY <2>3 DEF Calls!Next
<1>2. ASSUME NEW op \in Ops, CallSendFails(op)
      PROVE  Calls!Next
  BY <1>2 DEF CallSendFails, serverVars, LocalError, Calls!Next,
              Calls!FailUnsent, Calls!Failure
<1>3. CASE CallReceive
  <2>1. /\ client = "waiting" /\ client' = "idle" /\ s2c # <<>>
        /\ results' = Append(results, ResultOf(Head(s2c)))
        /\ executed' = executed
    BY <1>3 DEF CallReceive, CallReturns, serverVars
  <2>2. Len(s2c) = 1 /\ Answers(s2c[1])
    BY <2>1 DEF Lockstep
  <2>3. Head(s2c) = s2c[1]
    BY <2>2, Emptied DEF TypeOK
  <2>4. CurrentCall # 0 /\ (Calls!Ran(CurrentCall) <=> Ran(CurrentCall))
    BY DEF Calls!Ran, Ran
  <2>5. \/ Ran(CurrentCall) /\ ResultOf(Head(s2c)) = Calls!Reply(CurrentCall)
        \/ ResultOf(Head(s2c)) = Calls!Status(CurrentCall)
        \/ ResultOf(Head(s2c)) = Calls!Failure
    BY <2>2, <2>3 DEF ResultOf, Answers, Calls!Reply, Calls!Status, Calls!Failure
  <2>6. Calls!Return
    BY <2>1, <2>4, <2>5 DEF Calls!Return
  <2>7. QED
    BY <2>6 DEF Calls!Next
<1>4. CASE CallEof
  BY <1>4 DEF CallEof, CallReturns, serverVars, LocalError, Calls!Next,
              Calls!Return, Calls!Failure
<1>5. CASE CallTimeout
  BY <1>5 DEF CallTimeout, Quiet, TypeOK
<1>6. CASE ClientClose
  BY <1>6 DEF ClientClose, serverVars, Calls!vars
<1>7. CASE ServeReceive
  BY <1>7 DEF ServeReceive, clientVars, CurrentCall, Calls!vars
<1>8. CASE Dispatch
  <2>1. /\ server = "dispatching" /\ request \in Request
        /\ UNCHANGED <<client, results>>
        /\ executed' = Append(executed, request.call)
    BY <1>8 DEF Dispatch, clientVars, TypeOK
  <2>2. client = "waiting" /\ request.call = CurrentCall
    BY <2>1 DEF Lockstep, Asks
  <2>3. \A i \in 1 .. Len(executed) : executed[i] < request.call
    BY <2>1 DEF OrderInv, ExecuteInv
  <2>4. ~Calls!Ran(CurrentCall)
    BY <2>2, <2>3, ElementTypes DEF Calls!Ran
  <2>5. CurrentCall' = CurrentCall
    BY <2>1 DEF CurrentCall
  <2>6. Calls!Execute
    BY <2>1, <2>2, <2>4, <2>5 DEF Calls!Execute
  <2>7. QED
    BY <2>6 DEF Calls!Next
<1>9. CASE ServeSend
  BY <1>9 DEF ServeSend, clientVars, CurrentCall, Calls!vars
<1>10. CASE ServeStops
  BY <1>10 DEF ServeStops, clientVars, CurrentCall, Calls!vars
<1>11. CASE ServerCrash
  BY <1>11 DEF ServerCrash, clientVars, CurrentCall, Calls!vars
<1>12. CASE ServerPush
  BY <1>12 DEF ServerPush, clientVars, CurrentCall, Calls!vars
<1>13. CASE UNCHANGED vars
  BY <1>13 DEF vars, clientVars, serverVars, CurrentCall, Calls!vars
<1>14. QED
  BY <1>1, <1>2, <1>3, <1>4, <1>5, <1>6, <1>7, <1>8, <1>9, <1>10, <1>11,
     <1>12, <1>13 DEF Next, ClientStep, ServerStep

\* A connection without pushes and abandoned receives implements RpcCall: the
\* handler runs at most once for a call and only while it is outstanding, and a
\* typed reply is the one produced for the call that returns it.
THEOREM RefinesRpcCall ==
  ASSUME Quiet
  PROVE  Spec => ImplementsRpcCall
<1>1. TypeOK /\ OrderInv /\ Lockstep /\ [Next]_vars => [Calls!Next]_(Calls!vars)
  BY RefinesStep
<1>2. QED
  BY <1>1, RefinesInit, TypeCorrect, OrderInvariant, LockstepInvariant, PTL
     DEF Spec, ImplementsRpcCall, Calls!Spec
=============================================================================
