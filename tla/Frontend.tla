------------------------------ MODULE Frontend ------------------------------
(***************************************************************************)
(* The API server's tasks, the tokenizer workers and the detokenizer, with *)
(* the sockets between them and the scheduler process, which is taken by   *)
(* what it promises (RequestService).                                      *)
(*                                                                         *)
(* The API server is one event loop: what a coroutine does between two     *)
(* awaits is one action.  The sockets are PUSH/PULL pairs: in order for    *)
(* each sender and receiver, and none is lost.                             *)
(***************************************************************************)
EXTENDS RequestService, SequencesExt

CONSTANTS
  Workers,      \* the tokenizer workers
  LocalBatch    \* local_bs of the tokenizer workers

ASSUME UidsAssumption == IsFiniteSet(Uids) /\ Uids = 0 .. Cardinality(Uids) - 1
ASSUME FrontendAssumption ==
  /\ LocalBatch \in Nat \ {0} /\ MaxTokens \in Nat \ {0}
  /\ Workers # {}

VARIABLES
  uid_counter,
  ack_map,        \* uid -> the replies nobody has taken yet
  event_map,      \* uid -> whether its event is set
  pc,             \* uid -> where the task of the request stands
  acks,           \* uid -> the replies wait_for_ack has still to yield
  streaming,      \* the requests whose response is streamed; the others get it whole
  got,            \* uid -> the chunks the client received
  gone,           \* the clients that disconnected
  aborter,        \* uid -> where abort_user stands
  to_tokenizer,   \* worker -> messages from the API server
  to_backend,     \* worker -> messages for the scheduler
  to_detokenizer, \* reply batches of the scheduler
  to_frontend,    \* reply batches of the detokenizer
  decode_map      \* uid -> the tokens decoded so far

service == <<status, sent>>
maps == <<ack_map, event_map>>
task == <<pc, streaming, acks, got>>
inbound == <<to_tokenizer, to_backend>>
outbound == <<to_detokenizer, to_frontend, decode_map>>
vars == <<service, uid_counter, maps, task, gone, aborter, inbound, outbound>>

Init ==
  /\ ServiceInit
  /\ uid_counter = 0
  /\ ack_map = <<>> /\ event_map = <<>>
  /\ pc = [u \in Uids |-> "new"]
  /\ streaming = {}
  /\ acks = [u \in Uids |-> <<>>]
  /\ got = [u \in Uids |-> <<>>]
  /\ gone = {}
  /\ aborter = [u \in Uids |-> "none"]
  /\ to_tokenizer = [w \in Workers |-> <<>>]
  /\ to_backend = [w \in Workers |-> <<>>]
  /\ to_detokenizer = <<>> /\ to_frontend = <<>>
  /\ decode_map = <<>>

\* The positions of S in ascending order, and what a sequence has there.
Ascending(S) ==
  CHOOSE f \in [1 .. Cardinality(S) -> S] : \A i, j \in DOMAIN f : i < j => f[i] < f[j]
At(seq, S) == [i \in 1 .. Cardinality(S) |-> seq[Ascending(S)[i]]]

Request(u) == [uid |-> u, type |-> "request"]
Abort(u) == [uid |-> u, type |-> "abort"]

-----------------------------------------------------------------------------
(* The task of a request. *)

\* An endpoint is called; new_user: a fresh uid, with an empty list and an event that
\* is not set.
NewUser ==
  /\ uid_counter \in Uids
  /\ uid_counter' = uid_counter + 1
  /\ ack_map' = [u \in DOMAIN ack_map \cup {uid_counter} |->
                   IF u = uid_counter THEN <<>> ELSE ack_map[u]]
  /\ event_map' = [u \in DOMAIN event_map \cup {uid_counter} |->
                     u # uid_counter /\ event_map[u]]
  /\ pc' = [pc EXCEPT ![uid_counter] = "sending"]
  /\ streaming' \in {streaming, streaming \cup {uid_counter}}
  /\ UNCHANGED <<service, acks, got, gone, aborter, inbound, outbound>>

\* send_one: whichever worker's socket takes it.  A streamed response starts with
\* its header, the other endpoint goes on to wait.
SendRequest(u) ==
  /\ pc[u] = "sending"
  /\ \E w \in Workers : to_tokenizer' = [to_tokenizer EXCEPT ![w] = Append(@, Request(u))]
  /\ pc' = [pc EXCEPT ![u] = IF u \in streaming THEN "writing" ELSE "waiting"]
  /\ UNCHANGED <<service, uid_counter, maps, streaming, acks, got, gone, aborter, to_backend, outbound>>

\* wait_for_ack from event.wait() on: the event is cleared and the list taken at once.
WakeUp(u) ==
  /\ pc[u] = "waiting" /\ event_map[u]
  /\ event_map' = [event_map EXCEPT ![u] = FALSE]
  /\ ack_map' = [ack_map EXCEPT ![u] = <<>>]
  /\ UNCHANGED <<service, uid_counter, streaming, gone, aborter, inbound, outbound>>

TakeAcks(u) ==
  /\ u \in streaming
  /\ WakeUp(u)
  /\ acks' = [acks EXCEPT ![u] = ack_map[u]]
  /\ pc' = [pc EXCEPT ![u] = "checking"]
  /\ UNCHANGED got

\* Variant: the finished reply is not looked for.
FirstFinished_Never(s) == 0

\* A client that does not stream: the replies are joined without an await, up to
\* the finished one.
FirstFinished(s) == SelectInSeq(s, LAMBDA r : r.finished)

Collect(u) ==
  /\ u \notin streaming
  /\ WakeUp(u)
  /\ LET n == FirstFinished(ack_map[u])
         taken == IF n = 0 THEN ack_map[u] ELSE SubSeq(ack_map[u], 1, n)
     IN  /\ got' = [got EXCEPT ![u] = @ \o taken]
         /\ pc' = [pc EXCEPT ![u] = IF n = 0 THEN "waiting" ELSE "ended"]
  /\ UNCHANGED acks

\* Variant: the event is cleared behind the loop over the replies.
Check_ClearsEvent(u) ==
  /\ pc[u] = "checking" /\ u \notin gone
  /\ pc' = [pc EXCEPT ![u] = "writing"]
  /\ event_map' = [event_map EXCEPT ![u] = FALSE]
  /\ UNCHANGED <<service, uid_counter, ack_map, streaming, acks, got, gone, aborter, inbound, outbound>>

\* stream_with_cancellation: the chunk in hand is written if the client is there.
Check(u) ==
  /\ pc[u] = "checking" /\ u \notin gone
  /\ pc' = [pc EXCEPT ![u] = "writing"]
  /\ UNCHANGED <<service, uid_counter, maps, streaming, acks, got, gone, aborter, inbound, outbound>>

\* The chunk behind the finished one.  The consumer leaves the loop over
\* wait_for_ack there, so that the deletions behind its loop are not reached.
DoneChunk == [text |-> <<>>, finished |-> TRUE]

\* Variant: the end of the list is taken for the end of the response.
AfterChunk_EndsWithList(chunk, rest) ==
  IF chunk = DoneChunk THEN <<>> ELSE IF rest = <<>> THEN <<DoneChunk>> ELSE rest

\* What is left to write after a chunk: the end behind the finished reply, or the rest.
AfterChunk(chunk, rest) ==
  IF chunk = DoneChunk THEN <<>> ELSE IF chunk.finished THEN <<DoneChunk>> ELSE rest

\* The header or the chunk in hand is sent, and the generator resumed.
Write(u) ==
  /\ pc[u] = "writing"
  /\ \/ /\ acks[u] = <<>>
        /\ pc' = [pc EXCEPT ![u] = "waiting"]
        /\ UNCHANGED <<acks, got>>
     \/ /\ acks[u] # <<>>
        /\ got' = [got EXCEPT ![u] = Append(@, Head(acks[u]))]
        /\ acks' = [acks EXCEPT ![u] = AfterChunk(Head(@), Tail(@))]
        /\ pc' = [pc EXCEPT ![u] = IF Head(acks[u]) = DoneChunk THEN "ended"
                                   ELSE IF acks'[u] = <<>> THEN "waiting" ELSE "checking"]
  /\ UNCHANGED <<service, uid_counter, maps, streaming, gone, aborter, inbound, outbound>>

-----------------------------------------------------------------------------
(* Clients that leave. *)

\* Nothing looks at the connection of a client that does not stream.
Disconnect(u) ==
  /\ u \in streaming \ gone
  /\ pc[u] \in {"sending", "waiting", "checking", "writing"}
  /\ gone' = gone \cup {u}
  /\ UNCHANGED <<service, uid_counter, maps, task, aborter, inbound, outbound>>

\* The task is cancelled inside the generator, or the check finds the client gone.
Cancel(u) ==
  /\ u \in gone
  /\ pc[u] \in {"waiting", "checking"}
  /\ pc' = [pc EXCEPT ![u] = "cancelled"]
  /\ acks' = [acks EXCEPT ![u] = <<>>]
  /\ aborter' = [aborter EXCEPT ![u] = "sleeping"]
  /\ UNCHANGED <<service, uid_counter, maps, streaming, got, gone, inbound, outbound>>

\* The task is cancelled while it sends: the generator is not running then, is
\* closed later with GeneratorExit, and nobody aborts the request.
Abandon(u) ==
  /\ u \in gone
  /\ pc[u] = "writing"
  /\ pc' = [pc EXCEPT ![u] = "abandoned"]
  /\ acks' = [acks EXCEPT ![u] = <<>>]
  /\ UNCHANGED <<service, uid_counter, maps, streaming, got, gone, aborter, inbound, outbound>>

\* abort_user: after its sleep both entries go, ...
Forget(u) ==
  /\ aborter[u] = "sleeping"
  /\ ack_map' = Restrict(ack_map, DOMAIN ack_map \ {u})
  /\ event_map' = Restrict(event_map, DOMAIN event_map \ {u})
  /\ aborter' = [aborter EXCEPT ![u] = "sending"]
  /\ UNCHANGED <<service, uid_counter, task, gone, inbound, outbound>>

\* Variant: an abort is sent for the uids of the map only.
SendAbort_Known(u) ==
  /\ aborter[u] = "sending" /\ u \in DOMAIN ack_map
  /\ \E w \in Workers : to_tokenizer' = [to_tokenizer EXCEPT ![w] = Append(@, Abort(u))]
  /\ aborter' = [aborter EXCEPT ![u] = "sent"]
  /\ UNCHANGED <<service, uid_counter, maps, task, gone, to_backend, outbound>>

\* ... then the abort is sent.
SendAbort(u) ==
  /\ aborter[u] = "sending"
  /\ \E w \in Workers : to_tokenizer' = [to_tokenizer EXCEPT ![w] = Append(@, Abort(u))]
  /\ aborter' = [aborter EXCEPT ![u] = "sent"]
  /\ UNCHANGED <<service, uid_counter, maps, task, gone, to_backend, outbound>>

-----------------------------------------------------------------------------
(* Workers and scheduler. *)

OfType(batch, type) == At(batch, {i \in DOMAIN batch : batch[i].type = type})

\* Variant: aborts first, as the more urgent.
Sorted_AbortsFirst(batch) == OfType(batch, "abort") \o OfType(batch, "request")

\* A worker takes up to local_bs messages and forwards the requests, then the aborts.
Sorted(batch) == OfType(batch, "request") \o OfType(batch, "abort")

Tokenize(w) ==
  /\ \E n \in 1 .. Min({LocalBatch, Len(to_tokenizer[w])}) :
       /\ to_backend' = [to_backend EXCEPT ![w] = @ \o Sorted(SubSeq(to_tokenizer[w], 1, n))]
       /\ to_tokenizer' = [to_tokenizer EXCEPT ![w] = SubSeq(@, n + 1, Len(@))]
  /\ UNCHANGED <<service, uid_counter, maps, task, gone, aborter, outbound>>

\* The scheduler takes the next message of a worker.
Receive(w) ==
  /\ to_backend[w] # <<>>
  /\ to_backend' = [to_backend EXCEPT ![w] = Tail(@)]
  /\ LET msg == Head(to_backend[w])
     IN  IF msg.type = "request" THEN Admit(msg.uid) ELSE Withdraw(msg.uid)
  /\ UNCHANGED <<uid_counter, maps, task, gone, aborter, to_tokenizer, outbound>>

\* The replies of one iteration of the scheduler go out as one message.
Serve ==
  \E chosen \in (SUBSET Uids) \ {{}}, finished \in SUBSET Uids :
    /\ Emit(chosen, finished)
    /\ LET order == SetToSeq(chosen)
           msg(u) == [uid |-> u, token |-> Len(sent[u]) + 1, finished |-> u \in finished]
       IN  to_detokenizer' = Append(to_detokenizer, [i \in DOMAIN order |-> msg(order[i])])
    /\ UNCHANGED <<uid_counter, maps, task, gone, aborter, inbound, to_frontend, decode_map>>

\* The uids whose state goes with the batch.
EndedBy(batch) == {m.uid : m \in {b \in Range(batch) : b.finished}}

\* DetokenizeManager.detokenize: the text of a reply is the increment that its token
\* makes behind the tokens decoded before.
Decoded(msg) ==
  Append(IF msg.uid \in DOMAIN decode_map THEN decode_map[msg.uid] ELSE <<>>, msg.token)

Detokenize ==
  /\ to_detokenizer # <<>>
  /\ LET batch == Head(to_detokenizer)
         of(u) == CHOOSE m \in Range(batch) : m.uid = u
         known == DOMAIN decode_map \cup {m.uid : m \in Range(batch)}
     IN  /\ to_frontend' = Append(to_frontend,
              [i \in DOMAIN batch |-> [uid |-> batch[i].uid, text |-> Decoded(batch[i]),
                                       finished |-> batch[i].finished]])
         /\ decode_map' = [u \in known \ EndedBy(batch) |->
              IF u \in {m.uid : m \in Range(batch)} THEN Decoded(of(u)) ELSE decode_map[u]]
  /\ to_detokenizer' = Tail(to_detokenizer)
  /\ UNCHANGED <<service, uid_counter, maps, task, gone, aborter, inbound>>

\* The replies of a message for one uid, as the API server keeps them.
RepliesFor(batch, u) ==
  LET mine == At(batch, {i \in DOMAIN batch : batch[i].uid = u})
  IN  [i \in DOMAIN mine |-> [text |-> mine[i].text, finished |-> mine[i].finished]]

\* Variant: the listener keeps the last reply.
Listen_KeepsLast ==
  /\ to_frontend # <<>>
  /\ LET replies(u) == RepliesFor(Head(to_frontend), u)
     IN  /\ ack_map' = [u \in DOMAIN ack_map |-> IF replies(u) = <<>> THEN ack_map[u] ELSE replies(u)]
         /\ event_map' = [u \in DOMAIN event_map |-> event_map[u] \/ replies(u) # <<>>]
  /\ to_frontend' = Tail(to_frontend)
  /\ UNCHANGED <<service, uid_counter, task, gone, aborter, inbound, to_detokenizer, decode_map>>

\* listen: a reply is kept for a uid that is in the map and wakes its task.
Listen ==
  /\ to_frontend # <<>>
  /\ LET replies(u) == RepliesFor(Head(to_frontend), u)
     IN  /\ ack_map' = [u \in DOMAIN ack_map |-> ack_map[u] \o replies(u)]
         /\ event_map' = [u \in DOMAIN event_map |-> event_map[u] \/ replies(u) # <<>>]
  /\ to_frontend' = Tail(to_frontend)
  /\ UNCHANGED <<service, uid_counter, task, gone, aborter, inbound, to_detokenizer, decode_map>>

-----------------------------------------------------------------------------
TaskStep(u) == SendRequest(u) \/ TakeAcks(u) \/ Collect(u) \/ Check(u) \/ Write(u)
AbortStep(u) == Forget(u) \/ SendAbort(u)

Next ==
  \/ NewUser \/ Serve \/ Detokenize \/ Listen
  \/ \E u \in Uids :
       \/ SendRequest(u) \/ TakeAcks(u) \/ Collect(u) \/ Check(u) \/ Write(u)
       \/ Disconnect(u) \/ Cancel(u) \/ Abandon(u) \/ Forget(u) \/ SendAbort(u)
  \/ \E w \in Workers : Tokenize(w) \/ Receive(w)

Spec == Init /\ [][Next]_vars

\* Each process and each task runs as long as it can; clients read what is written
\* or leave, and may leave without a task's noticing until its next chunk.
FairSpec ==
  /\ Spec
  /\ WF_vars(Detokenize) /\ WF_vars(Listen)
  /\ \A u \in Uids : WF_vars(TaskStep(u) \/ (pc[u] = "checking" /\ Cancel(u))) /\ WF_vars(AbortStep(u))
  /\ \A w \in Workers : WF_vars(Tokenize(w)) /\ WF_vars(Receive(w))

\* The scheduler goes on with what it accepted as well.
ServedSpec == FairSpec /\ WF_vars(Serve)

-----------------------------------------------------------------------------
Running(u) == pc[u] \in {"waiting", "checking", "writing"}

\* The chunks that carry text: all, or all but the last.
Texted(chunks) ==
  IF chunks # <<>> /\ Last(chunks) = DoneChunk THEN Front(chunks) ELSE chunks

\* What has reached the API server for u and is not written to a client that left.
Kept(u) == Texted(got[u] \o acks[u]) \o ack_map[u]

\* The tokens that a message of the scheduler, or of the detokenizer, has for u.
TokensFor(batch, u) == {m.token : m \in {r \in Range(batch) : r.uid = u}}
TextsFor(batch, u) == {Last(m.text) : m \in {r \in Range(batch) : r.uid = u}}
Replied(u) == [b \in DOMAIN to_detokenizer |-> TokensFor(to_detokenizer[b], u)]
Decoding(u) == [b \in DOMAIN to_frontend |-> TextsFor(to_frontend[b], u)]

\* Together the messages bring the tokens from first to last, one each and in this order.
Bring(tokens, first, last) ==
  /\ UNION Range(tokens) = first .. last
  /\ \A b, c \in DOMAIN tokens : \A t \in tokens[b], v \in tokens[c] : b < c <=> t < v

OncePerMessage(batches) ==
  \A b \in DOMAIN batches : \A i, j \in DOMAIN batches[b] :
    batches[b][i].uid = batches[b][j].uid => i = j

\* From the scheduler to the client every token of a request is in exactly one place,
\* in the order it was made: a reply taken by a task that is woken, or arriving while
\* the task writes, is neither lost nor kept twice.
EveryTokenOnItsWay ==
  /\ OncePerMessage(to_detokenizer) /\ OncePerMessage(to_frontend)
  /\ \A u \in Uids :
       Running(u) =>
         /\ \A i \in DOMAIN Kept(u) : Last(Kept(u)[i].text) = i
         /\ \E k \in Len(Kept(u)) .. Len(sent[u]) :
              Bring(Decoding(u), Len(Kept(u)) + 1, k) /\ Bring(Replied(u), k + 1, Len(sent[u]))

\* What a client has is a prefix of the text, each piece decoded behind all before it;
\* a response that came to its end has everything, up to the finished reply and no
\* further, also when others of the batch were aborted.
StreamIsPrefix ==
  \A u \in Uids :
    LET chunks == Texted(got[u])
    IN  /\ \A i \in DOMAIN chunks :
             chunks[i] = [text |-> [j \in 1 .. i |-> j], finished |-> sent[u][i]]
        /\ pc[u] = "ended" => Len(chunks) = Len(sent[u]) /\ status[u] = "done"

\* No lost wake-up: a task does not wait beside a reply, and is not woken for nothing.
WakesForReplies ==
  \A u \in Uids : pc[u] = "waiting" => event_map[u] = (ack_map[u] # <<>>)

\* The scheduler meets the abort of a request behind the request, although it is sent
\* by another task and workers put aborts behind the requests they take with them.
AbortBehindRequest ==
  [][\A u \in Uids, w \in Workers :
       Receive(w) /\ Head(to_backend[w]) = Abort(u) => status[u] # "new"]_vars

\* A response whose request the scheduler finished comes to an end.
FinishedResponseEnds ==
  \A u \in Uids : status[u] = "done" ~> pc[u] \in {"ended", "cancelled", "abandoned"}

\* When a task is cancelled, the scheduler does not keep its request.
CancelledRequestEnds ==
  \A u \in Uids : pc[u] = "cancelled" ~> status[u] \in {"done", "aborted", "dropped"}

\* structures.md, steps 1 to 8 of the request lifecycle: a request comes back as a
\* response.  It does not when the scheduler drops it.
EveryRequestAnswered ==
  \A u \in Uids : pc[u] = "sending" ~> got[u] # <<>> \/ u \in gone

=============================================================================
