----------------------------- MODULE HbaseRpc -----------------------------
(***************************************************************************)
(* One HbaseClient and the HbaseProcessor at the other end of its          *)
(* connection (public/hbase_storage/gen-cpp/Hbase.cpp).  A method call     *)
(* writes a message and reads one back; the two streams hold message       *)
(* headers and structures, so a reader that leaves a structure behind, or  *)
(* takes one too many, is out of step with the next message.               *)
(*                                                                         *)
(* The peer may be of another version of the interface: an older server    *)
(* does not have every method, a newer one adds a field to each structure  *)
(* it writes and has an exception the client does not know.  The           *)
(* connection may be lost at any time; DbHbaseImpl never opens it again.   *)
(***************************************************************************)
EXTENDS HbaseMethods, ThriftStruct, TLC

CONSTANT Versions     \* the peers: records of methods served, and newer or not

VARIABLES
    call,      \* the client: its pc, method, arguments, what it has yet to read, its outcome
    out, back, \* the streams to the server and to the client
    server,    \* the processor: its pc, the method, the arguments it has read
    answer,    \* what the handler of the current call did
    up,        \* the connection is open
    peer       \* the version of the server

vars == <<call, out, back, server, answer, up, peer>>

\* Every message is a header and a structure; HbaseClient's seqid is always 0.
Begin(n, t) == [item |-> "begin", fname |-> n, mtype |-> t, seqid |-> 0]
Body(w) == [item |-> "struct", fields |-> w]

Idle == [pc |-> "idle", m |-> "", args |-> <<>>, todo |-> <<>>, kind |-> "", val |-> <<>>]
Nothing == [kind |-> "none", val |-> <<>>]

Init ==
    /\ call = Idle /\ out = <<>> /\ back = <<>>
    /\ server = [pc |-> "idle", m |-> "", args |-> <<>>]
    /\ answer = Nothing
    /\ up = TRUE
    /\ peer \in Versions

\* send_X: the header, then the arguments.  On a lost connection the write may
\* still succeed (the error comes with the read) or throw.
Call(m, k) ==
    /\ call.pc = "idle"
    /\ answer' = Nothing
    /\ LET args == Sample(Struct(client[m].args), m, k)
       IN \/ /\ call' = [Idle EXCEPT !.pc = "recv", !.m = m, !.args = args]
             /\ out' = IF up
                       THEN out \o <<Begin(client[m].fname, "call"),
                                     Body(WriteStruct(client[m].args, args))>>
                       ELSE out
          \/ /\ ~up
             /\ call' = [Idle EXCEPT !.pc = "done", !.m = m, !.args = args, !.kind = "transport"]
             /\ UNCHANGED out
    /\ UNCHANGED <<back, server, up, peer>>

Finish(kind, val) == [call EXCEPT !.pc = "done", !.todo = <<>>, !.kind = kind, !.val = val]

\* mutant of RecvBegin: an exception is skipped like any other message
RecvBeginSkips ==
    /\ call.pc = "recv" /\ call.todo = <<>>
    /\ back # <<>> /\ Head(back).item = "begin"
    /\ back' = Tail(back)
    /\ call' = [call EXCEPT !.todo = IF Head(back).mtype # "reply" THEN <<"skip", "result">>
                                     ELSE <<"result">>]
    /\ UNCHANGED <<out, server, answer, up, peer>>

\* recv_X reads the header.  An exception is read and thrown; a message of
\* another type or name is skipped, and the result is read all the same.
RecvBegin ==
    /\ call.pc = "recv" /\ call.todo = <<>>
    /\ back # <<>> /\ Head(back).item = "begin"
    /\ back' = Tail(back)
    /\ LET h == Head(back)
           skipped == (IF h.mtype # "reply" THEN <<"skip">> ELSE <<>>)
                      \o (IF h.fname # client[call.m].fname THEN <<"skip">> ELSE <<>>)
       IN call' = [call EXCEPT !.todo = IF h.mtype = "exception" THEN <<"x">>
                                        ELSE skipped \o <<"result">>]
    /\ UNCHANGED <<out, server, answer, up, peer>>

\* mutant of Outcome: a missing value is not noticed
OutcomeAny(c, o) ==
    LET set == SelectSeq(c.throws, LAMBDA e : e \in DOMAIN o)
    IN IF set # <<>> THEN Finish(Head(set), o[Head(set)])
       ELSE Finish("return", IF "success" \in DOMAIN o THEN o["success"] ELSE <<>>)

\* What recv_X does with the result it has read: success is returned, the
\* exceptions are tested in order, and a missing value is an exception.
Outcome(c, o) ==
    LET set == SelectSeq(c.throws, LAMBDA e : e \in DOMAIN o)
    IN CASE c.returns /\ "success" \in DOMAIN o -> Finish("return", o["success"])
         [] ~(c.returns /\ "success" \in DOMAIN o) /\ set # <<>> ->
              Finish(Head(set), o[Head(set)])
         [] OTHER -> IF c.returns THEN Finish("missing", <<>>) ELSE Finish("return", <<>>)

RecvStruct ==
    /\ call.pc = "recv" /\ call.todo # <<>>
    /\ back # <<>> /\ Head(back).item = "struct"
    /\ back' = Tail(back)
    /\ call' = CASE Head(call.todo) = "skip" -> [call EXCEPT !.todo = Tail(@)]
                 [] Head(call.todo) = "x" -> Finish("application", <<>>)
                 [] Head(call.todo) = "result" ->
                      Outcome(client[call.m], ReadStruct(client[call.m].result, Head(back).fields))
    /\ UNCHANGED <<out, server, answer, up, peer>>

\* A read on a connection that is lost and has nothing left throws.
RecvLost ==
    /\ call.pc = "recv" /\ ~up /\ back = <<>>
    /\ call' = Finish("transport", <<>>)
    /\ UNCHANGED <<out, back, server, answer, up, peer>>

\* The caller takes the value or catches the exception, and keeps the client.
Return ==
    /\ call.pc = "done"
    /\ call' = Idle
    /\ UNCHANGED <<out, back, server, answer, up, peer>>

\* A newer server writes a field of its own in every structure.
Extra(d) == d :> [tag |-> "i64", val |-> <<"extra", 1>>]
Version(w) == IF peer.newer THEN w @@ Extra(99) ELSE w

Reply(t, w) == back \o <<Begin(server.m, t), Body(w)>>

\* dispatchCall: a method that is not in the map is skipped and answered with
\* an exception; process_X reads the arguments.
dispatchCall ==
    /\ up /\ server.pc = "idle"
    /\ Len(out) >= 2
    /\ out' = SubSeq(out, 3, Len(out))
    /\ LET n == out[1].fname
       IN IF n \in peer.served
          THEN /\ server' = [pc |-> "handler", m |-> n,
                             args |-> ReadStruct(processMap[n].args, out[2].fields)]
               /\ UNCHANGED <<back, answer>>
          ELSE /\ back' = back \o <<Begin(n, "exception"), Body(<<>>)>>
               /\ answer' = [kind |-> "unknown", val |-> <<>>]
               /\ UNCHANGED server
    /\ UNCHANGED <<call, up, peer>>

\* The rest of process_X: the handler returns, throws, or throws something the
\* method does not declare, which goes back as an exception message.
process(kind, k) ==
    /\ up /\ server.pc = "handler"
    /\ LET p == processMap[server.m]
           field == IF kind = "return" THEN "success" ELSE kind
           i == CHOOSE i \in DOMAIN p.result : p.result[i].name = field
           val == IF field \in Names(p.result) THEN Sample(p.result[i].type, server.m, k) ELSE <<>>
           declared == kind \in Range(p.throws) \/ (kind = "return" /\ p.returns)
       IN /\ answer' = [kind |-> kind, val |-> val]
          /\ back' = CASE declared ->
                            Reply("reply", Version(WriteResult(p.result, [n \in {field} |-> val])))
                       [] kind = "return" /\ ~p.returns -> Reply("reply", Version(<<>>))
                       [] kind = "future" -> Reply("reply", Version(Extra(9)))
                       [] OTHER -> Reply("exception", <<>>)
    /\ kind = "future" => peer.newer
    /\ server' = [pc |-> "idle", m |-> "", args |-> <<>>]
    /\ UNCHANGED <<call, out, up, peer>>

\* The connection is lost: what was on its way to the server is gone, and any
\* end of what was on its way to the client.
Lose ==
    /\ up
    /\ up' = FALSE
    /\ out' = <<>>
    /\ \E n \in 0..Len(back) : back' = SubSeq(back, 1, n)
    /\ server' = [pc |-> "idle", m |-> "", args |-> <<>>]
    /\ UNCHANGED <<call, answer, peer>>

Kinds == {"return", "io", "ia", "exist", "other", "future"}

Client == RecvBegin \/ RecvStruct \/ RecvLost
Server == dispatchCall \/ \E kind \in Kinds, k \in 1..2 : process(kind, k)

Next ==
    \/ \E m \in Methods, k \in 1..2 : Call(m, k)
    \/ RecvBegin
    \/ RecvStruct
    \/ RecvLost
    \/ Return
    \/ dispatchCall
    \/ \E kind \in Kinds, k \in 1..2 : process(kind, k)
    \/ Lose

\* The client's thread runs, and the server reads its requests and answers them.
Spec == Init /\ [][Next]_vars /\ WF_vars(Client) /\ WF_vars(Server)
-----------------------------------------------------------------------------
\* The handler is given the method and exactly the arguments of the call, every
\* optional field as it was set or left (send_X and X_args::read).
HandlerGetsArgs == server.pc = "handler" => server.m = call.m /\ server.args = call.args

\* The caller's outcome is the handler's, decoded as it was encoded: its value,
\* the exception the method declares, or a TApplicationException for a method the
\* server lacks and for every exception the method does not declare.  A result
\* with nothing the client knows is MISSING_RESULT for a method with a value; a
\* void method takes it for success (recv_X).
OutcomeIsHandlers ==
    call.pc = "done" /\ call.kind # "transport" =>
       LET declared == Range(client[call.m].throws) \cup {"return"}
       IN IF answer.kind \in declared
          THEN call.kind = answer.kind /\ call.val = answer.val
          ELSE call.kind = CASE answer.kind = "future" ->
                                  IF client[call.m].returns THEN "missing" ELSE "return"
                             [] answer.kind # "future" -> "application"

\* Every call returns or throws, also when the connection is lost at any point
\* of it: the reader never waits for a message that is not to come.
CallReturns == call.pc = "recv" ~> call.pc = "done"
=============================================================================
