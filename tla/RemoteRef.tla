----------------------------- MODULE RemoteRef -----------------------------
(***************************************************************************)
(* RemoteActorRef: tell and ask over a transport.  Each call that passes   *)
(* the interceptors and the serializer is carried on by a task of its own. *)
(***************************************************************************)
EXTENDS Transport

\* The interceptors, in order, may let the message go, delay it (the task sleeps),
\* reject or drop it; then its type must be registered and be serialized.  A dropped
\* tell returns Ok, a dropped ask is refused.
RunOutboundPipeline(mode) == {"spawned", "refused"} \cup (IF mode = "tell" THEN {"dropped"} ELSE {})

RemoteCall(e, mode, reply) ==
    /\ mode \in Modes[e] /\ env[e].stage = "new"
    /\ \E result \in RunOutboundPipeline(mode) :
          env' = [env EXCEPT ![e].mode = mode, ![e].stage = result,
                             ![e].reply = IF result = "spawned" THEN reply ELSE @]
    /\ UNCHANGED <<route, channel, lock, pending, buffers, batches, flush, registered>>

RemoteTell(e) == RemoteCall(e, "tell", "none")
RemoteAsk(e)  == RemoteCall(e, "ask", "waiting")

\* expand, reduce and transform are refused.
RemoteStream(e) ==
    /\ "stream" \in Modes[e] /\ env[e].stage = "new"
    /\ env' = [env EXCEPT ![e].mode = "stream", ![e].stage = "refused"]
    /\ UNCHANGED <<route, channel, lock, pending, buffers, batches, flush, registered>>

\* The task, or the caller of a registry send, comes to the transport, after the
\* delay if there is one.
TaskSends(e) ==
    /\ env[e].stage = "spawned" /\ env[e].mode \in {"tell", "registry"}
    /\ env' = Moved({e}, "sending")
    /\ lock' = Append(lock, Parcel(<<e>>, e))
    /\ UNCHANGED <<route, channel, pending, buffers, batches, flush, registered>>

\* Mutant: the reply is registered only when the request is on its way.
SendRequest_RegistersLate(e) ==
    /\ env[e].stage = "spawned" /\ env[e].mode = "ask"
    /\ env' = Moved({e}, "sending")
    /\ lock' = Append(lock, Parcel(<<e>>, e))
    /\ UNCHANGED <<route, channel, pending, buffers, batches, flush, registered>>

\* send_request: the entry in the table comes first.
SendRequest(e) ==
    /\ env[e].stage = "spawned" /\ env[e].mode = "ask" /\ env[e].reply = "waiting"
    /\ pending' = pending \cup {e}
    /\ env' = Moved({e}, "sending")
    /\ lock' = Append(lock, Parcel(<<e>>, e))
    /\ UNCHANGED <<route, channel, buffers, batches, flush, registered>>

CancelRemoteAsk(e) ==
    /\ env[e].reply = "waiting" /\ ~env[e].token
    /\ env' = [env EXCEPT ![e].token = TRUE]
    /\ UNCHANGED <<route, channel, lock, pending, buffers, batches, flush, registered>>

\* The select of the task takes the cancelled token, wherever send_request is: its
\* future is dropped, out of the queue of the lock too, and with it the receiver of
\* the reply; the entry in the table stays.
AskCancelled(e) ==
    /\ env[e].reply = "waiting" /\ env[e].token
    /\ env' = [env EXCEPT ![e].reply = "cancelled",
                          ![e].stage = IF @ \in {"spawned", "sending"} THEN "withdrawn" ELSE @]
    /\ IF \E i \in DOMAIN lock : e \in ToSet(lock[i].items)
       THEN \E i \in DOMAIN lock : e \in ToSet(lock[i].items) /\ lock' = RemoveAt(lock, i)
       ELSE lock' = lock
    /\ UNCHANGED <<route, channel, pending, buffers, batches, flush, registered>>

\* The reply has come: it may be of the wrong type or not be read back.
AskReplies(e) ==
    /\ env[e].reply = "waiting" /\ env[e].stage = "replied"
    /\ \E r \in {"ok", "error"} : env' = [env EXCEPT ![e].reply = r]
    /\ UNCHANGED <<route, channel, lock, pending, buffers, batches, flush, registered>>

TransportStep ==
    \/ RouteInserted \/ TransportSend \/ SendBatch \/ FlushSends
    \/ \E x \in Links : Receive(x)
    \/ \E e \in Envelopes : TaskSends(e) \/ SendRequest(e) \/ AskReplies(e) \/ AskCancelled(e)

RemoteNext ==
    \/ TransportStep
    \/ FlushAll
    \/ \E x \in Links : ReceiverGone(x)
    \/ \E n \in Nodes : RegisterNode(n) \/ FlushNode(n) \/ RegistryUnregister(n)
    \/ \E e \in Envelopes :
          \/ RemoteTell(e) \/ RemoteAsk(e) \/ RemoteStream(e) \/ RegistrySend(e) \/ SendBatched(e)
          \/ CancelRemoteAsk(e) \/ CompleteRequest(e)

-----------------------------------------------------------------------------
\* While the caller of a remote ask waits, its request is before the table, in the
\* table or answered, so that a reply of its node can reach it; an ask that failed
\* in the transport, or was answered, left nothing in the table: only cancelled asks
\* leave an entry behind.
RemoteAskIsSound ==
    \A e \in Envelopes :
        /\ env[e].reply = "waiting" => e \in pending \/ env[e].stage \in {"spawned", "replied"}
        /\ e \in pending => env[e].mode = "ask" /\ env[e].reply \in {"waiting", "cancelled"}
=============================================================================
