------------------------ MODULE Http2TransportProofs ------------------------
(***************************************************************************)
(* Proofs about Http2Transport for any number of requests and connections: *)
(* reference counts agree with the streams in flight, no request is handed *)
(* to a transport twice, and a usable connection is the one in the cache.  *)
(***************************************************************************)
EXTENDS Http2Transport, FiniteSetTheorems, TLAPS

LEMMA ConnsAreNumbers == Conns \subseteq Nat \ {0} /\ 0 \notin Conns /\ Unknown \notin Conns /\ Http1 \notin Conns
  BY MaxConnsAssumption DEF Conns, Unknown, Http1

(* The requests with a stream on c are finitely many, at most all.         *)
LEMMA OnStreamFinite ==
    ASSUME NEW c \in Conns
    PROVE  /\ IsFiniteSet(OnStream(c))
           /\ Cardinality(OnStream(c)) \in 0..Cardinality(Requests)
<1>1. OnStream(c) \subseteq Requests
  BY DEF OnStream
<1>. QED
  BY <1>1, RequestsAssumption, FS_Subset, FS_CardinalityType

(* So are those of the next state.                                         *)
LEMMA OnStreamFiniteNext ==
    ASSUME NEW c \in Conns
    PROVE  Cardinality(OnStream(c)') \in 0..Cardinality(Requests)
<1>1. OnStream(c)' \subseteq Requests
  BY DEF OnStream
<1>. QED
  BY <1>1, RequestsAssumption, FS_Subset, FS_CardinalityType

(* A request that gets a stream is one more, one that loses it one less.   *)
LEMMA StreamGained ==
    ASSUME NEW c \in Conns, NEW r \in Requests, r \notin OnStream(c),
           OnStream(c)' = OnStream(c) \cup {r}
    PROVE  Cardinality(OnStream(c)') = Cardinality(OnStream(c)) + 1
  BY OnStreamFinite, FS_AddElement

LEMMA StreamLost ==
    ASSUME NEW c \in Conns, NEW r \in OnStream(c),
           OnStream(c)' = OnStream(c) \ {r}
    PROVE  Cardinality(OnStream(c)') = Cardinality(OnStream(c)) - 1
  BY OnStreamFinite, FS_RemoveElement

LEMMA InitInv == Init => TypeOK /\ TransportInv
<1>. SUFFICES ASSUME Init PROVE TypeOK /\ TransportInv
  OBVIOUS
<1>1. \A c \in Conns : OnStream(c) = {}
  BY DEF Init, OnStream
<1>2. \A c \in Conns : Cardinality(OnStream(c)) = 0
  BY <1>1, FS_EmptySet
<1>3. Cardinality(Requests) \in Nat
  BY RequestsAssumption, FS_CardinalityType
<1>4. TypeOK
  BY <1>3 DEF Init, TypeOK
<1>5. IdleLetsTheProcessExit
  BY <1>2 DEF Init, IdleLetsTheProcessExit
<1>. QED
  BY <1>4, <1>5, ConnsAreNumbers DEF Init, TransportInv, RequestInv, ConnectionInv, SentOnce,
                    LiveConnectionIsCurrent, ArrivedStatusIsReported

-----------------------------------------------------------------------------
(* Steps that leave every stream and every reference alone.                *)

LEMMA SendHttp1Step ==
    ASSUME TypeOK, TransportInv, NEW r \in Requests, SendHttp1(r)
    PROVE  TypeOK' /\ TransportInv'
<1>. USE DEF SendHttp1, Fetch, connections
<1>1. \A c \in Conns : OnStream(c)' = OnStream(c)
  BY DEF OnStream, TypeOK
<1>2. TypeOK'
  BY DEF TypeOK
<1>3. RequestInv' /\ ConnectionInv' /\ SentOnce'
  BY DEF TypeOK, TransportInv, RequestInv, ConnectionInv, SentOnce
<1>4. IdleLetsTheProcessExit'
  BY <1>1 DEF TransportInv, IdleLetsTheProcessExit
<1>5. LiveConnectionIsCurrent' /\ ArrivedStatusIsReported'
  BY DEF TypeOK, TransportInv, LiveConnectionIsCurrent, ArrivedStatusIsReported
<1>. QED
  BY <1>2, <1>3, <1>4, <1>5 DEF TransportInv

LEMMA SendSharedStep ==
    ASSUME TypeOK, TransportInv, NEW r \in Requests, SendShared(r)
    PROVE  TypeOK' /\ TransportInv'
<1>. USE DEF SendShared, Join, connections
<1>1. \A c \in Conns : OnStream(c)' = OnStream(c)
  BY DEF OnStream, TypeOK
<1>2. TypeOK'
  BY DEF TypeOK
<1>3. phase[origin] # "unused"
  BY DEF TransportInv, ConnectionInv
<1>4. RequestInv' /\ ConnectionInv' /\ SentOnce'
  BY <1>3, ConnsAreNumbers DEF TypeOK, TransportInv, RequestInv, ConnectionInv, SentOnce
<1>5. IdleLetsTheProcessExit'
  BY <1>1 DEF TransportInv, IdleLetsTheProcessExit
<1>6. LiveConnectionIsCurrent' /\ ArrivedStatusIsReported'
  BY DEF TypeOK, TransportInv, LiveConnectionIsCurrent, ArrivedStatusIsReported
<1>. QED
  BY <1>2, <1>4, <1>5, <1>6 DEF TransportInv

LEMMA StreamRespondsStep ==
    ASSUME TypeOK, TransportInv, NEW r \in Requests, StreamResponds(r)
    PROVE  TypeOK' /\ TransportInv'
<1>. USE DEF StreamResponds, connections
<1>1. \A c \in Conns : OnStream(c)' = OnStream(c)
  BY DEF OnStream
<1>2. TypeOK'
  BY DEF TypeOK
<1>3. RequestInv' /\ ConnectionInv' /\ SentOnce'
  BY DEF TypeOK, TransportInv, RequestInv, ConnectionInv, SentOnce
<1>4. IdleLetsTheProcessExit'
  BY <1>1 DEF TransportInv, IdleLetsTheProcessExit
<1>5. LiveConnectionIsCurrent' /\ ArrivedStatusIsReported'
  BY DEF TypeOK, TransportInv, LiveConnectionIsCurrent, ArrivedStatusIsReported
<1>. QED
  BY <1>2, <1>3, <1>4, <1>5 DEF TransportInv

(* The answer over HTTP/1: the connection whose negotiation failed is not  *)
(* live, so that forgetting it forgets nothing.                            *)
LEMMA FetchRespondsStep ==
    ASSUME TypeOK, TransportInv, NEW r \in Requests, FetchResponds(r)
    PROVE  TypeOK' /\ TransportInv'
<1>. USE DEF FetchResponds
<1>1. \A c \in Conns : OnStream(c)' = OnStream(c)
  BY DEF OnStream, TypeOK
<1>2. TypeOK'
  BY DEF TypeOK, Downgraded
<1>3. RequestInv' /\ SentOnce'
  BY DEF TypeOK, TransportInv, RequestInv, SentOnce
<1>4. ConnectionInv'
  BY ConnsAreNumbers DEF TypeOK, TransportInv, ConnectionInv, Downgraded
<1>5. IdleLetsTheProcessExit'
  BY <1>1 DEF TransportInv, IdleLetsTheProcessExit
<1>6. LiveConnectionIsCurrent'
  BY DEF TransportInv, ConnectionInv, LiveConnectionIsCurrent, Downgraded
<1>7. ArrivedStatusIsReported'
  BY DEF TypeOK, TransportInv, ArrivedStatusIsReported
<1>. QED
  BY <1>2, <1>3, <1>4, <1>5, <1>6, <1>7 DEF TransportInv

LEMMA FetchEndsStep ==
    ASSUME TypeOK, TransportInv, NEW r \in Requests, FetchFails(r) \/ FetchBody(r)
    PROVE  TypeOK' /\ TransportInv'
<1>. USE DEF FetchFails, FetchBody, Settle, connections
<1>1. \A c \in Conns : OnStream(c)' = OnStream(c)
  BY DEF OnStream, TypeOK
<1>2. TypeOK'
  BY DEF TypeOK, BrokenAnswer
<1>3. RequestInv' /\ ConnectionInv' /\ SentOnce'
  BY DEF TypeOK, TransportInv, RequestInv, ConnectionInv, SentOnce
<1>4. IdleLetsTheProcessExit'
  BY <1>1 DEF TransportInv, IdleLetsTheProcessExit
<1>5. LiveConnectionIsCurrent'
  BY DEF TransportInv, LiveConnectionIsCurrent
<1>6. ArrivedStatusIsReported'
  BY DEF TypeOK, TransportInv, RequestInv, ArrivedStatusIsReported, BrokenAnswer
<1>. QED
  BY <1>2, <1>3, <1>4, <1>5, <1>6 DEF TransportInv

-----------------------------------------------------------------------------
(* Steps of a connection.                                                  *)

(* Nothing was live: what the cache names is closed, or it names nothing.  *)
LEMMA ConnectStep ==
    ASSUME TypeOK, TransportInv, NEW r \in Requests, Connect(r)
    PROVE  TypeOK' /\ TransportInv'
<1>1. PICK c \in Conns :
        /\ phase[c] = "unused"
        /\ phase' = [phase EXCEPT ![c] = "negotiating"]
        /\ refd' = [refd EXCEPT ![c] = TRUE]
        /\ origin' = c
        /\ Join(r, c)
  BY DEF Connect
<1>2. streams' = streams /\ pc[r] = "idle"
  BY DEF Connect
<1>. USE DEF Join
<1>3. \A d \in Conns : OnStream(d)' = OnStream(d)
  BY <1>1, <1>2 DEF OnStream, TypeOK
<1>4. OnStream(c) = {}
  BY <1>1 DEF OnStream, TransportInv, ConnectionInv
<1>5. streams[c] = 0
  BY <1>4, FS_EmptySet DEF TransportInv, IdleLetsTheProcessExit
<1>6. TypeOK'
  BY <1>1, <1>2 DEF TypeOK
<1>7. RequestInv' /\ SentOnce'
  BY <1>1, <1>2 DEF TypeOK, TransportInv, RequestInv, SentOnce
<1>8. ConnectionInv'
  BY <1>1, <1>2, ConnsAreNumbers DEF TypeOK, TransportInv, ConnectionInv
<1>9. IdleLetsTheProcessExit'
  BY <1>1, <1>2, <1>3, <1>5 DEF TypeOK, TransportInv, IdleLetsTheProcessExit
<1>10. \A d \in Conns : phase[d] \notin {"negotiating", "open"}
  <2>1. origin = Unknown \/ (origin \in Conns /\ IsClosed(origin))
    BY DEF Connect
  <2>. QED
    BY <2>1, ConnsAreNumbers DEF IsClosed, TransportInv, LiveConnectionIsCurrent
<1>11. LiveConnectionIsCurrent'
  BY <1>1, <1>10 DEF TypeOK, LiveConnectionIsCurrent
<1>12. ArrivedStatusIsReported'
  BY <1>1, <1>2 DEF TypeOK, TransportInv, ArrivedStatusIsReported
<1>. QED
  BY <1>6, <1>7, <1>8, <1>9, <1>11, <1>12 DEF TransportInv

LEMMA ReadyStep ==
    ASSUME TypeOK, TransportInv, NEW c \in Conns, NEW to \in {"open", "failed"}, Ready(c, to)
    PROVE  TypeOK' /\ TransportInv'
<1>. USE DEF Ready
<1>1. \A d \in Conns : OnStream(d)' = OnStream(d)
  BY DEF OnStream
<1>2. OnStream(c) = {}
  BY DEF OnStream, TransportInv, ConnectionInv
<1>3. streams[c] = 0
  BY <1>2, FS_EmptySet DEF TransportInv, IdleLetsTheProcessExit
<1>4. TypeOK'
  BY DEF TypeOK
<1>5. RequestInv' /\ SentOnce' /\ ArrivedStatusIsReported'
  BY DEF TransportInv, RequestInv, SentOnce, ArrivedStatusIsReported
<1>6. ConnectionInv'
  BY DEF TypeOK, TransportInv, ConnectionInv
<1>7. IdleLetsTheProcessExit'
  BY <1>1, <1>3 DEF TypeOK, TransportInv, IdleLetsTheProcessExit
<1>8. LiveConnectionIsCurrent'
  BY DEF TypeOK, TransportInv, LiveConnectionIsCurrent
<1>. QED
  BY <1>4, <1>5, <1>6, <1>7, <1>8 DEF TransportInv

LEMMA GoAwayStep ==
    ASSUME TypeOK, TransportInv, NEW c \in Conns, GoAway(c)
    PROVE  TypeOK' /\ TransportInv'
<1>. USE DEF GoAway
<1>1. \A d \in Conns : OnStream(d)' = OnStream(d)
  BY DEF OnStream
<1>2. TypeOK'
  BY DEF TypeOK
<1>3. RequestInv' /\ SentOnce' /\ ArrivedStatusIsReported'
  BY DEF TransportInv, RequestInv, SentOnce, ArrivedStatusIsReported
<1>4. ConnectionInv'
  BY DEF TypeOK, TransportInv, ConnectionInv
<1>5. IdleLetsTheProcessExit'
  BY <1>1 DEF TypeOK, TransportInv, IdleLetsTheProcessExit
<1>6. LiveConnectionIsCurrent'
  BY DEF TypeOK, TransportInv, LiveConnectionIsCurrent
<1>. QED
  BY <1>2, <1>3, <1>4, <1>5, <1>6 DEF TransportInv

-----------------------------------------------------------------------------
(* Steps that begin or end a stream.                                       *)

(* The connection opened: one stream more, and the process stays.          *)
LEMMA OpenedStep ==
    ASSUME TypeOK, TransportInv, NEW r \in Requests,
           pc[r] = "waiting", phase[conn[r]] = "open",
           streams' = [streams EXCEPT ![conn[r]] = @ + 1],
           refd' = [refd EXCEPT ![conn[r]] = TRUE],
           pc' = [pc EXCEPT ![r] = "stream"],
           sent' = [sent EXCEPT ![r] = @ + 1],
           UNCHANGED <<result, phase, origin, conn, status>>
    PROVE  TypeOK' /\ TransportInv'
<1>1. conn[r] \in Conns
  BY DEF TypeOK, TransportInv, ConnectionInv
<1>2. OnStream(conn[r])' = OnStream(conn[r]) \cup {r} /\ r \notin OnStream(conn[r])
  BY DEF OnStream, TypeOK
<1>3. \A d \in Conns \ {conn[r]} : OnStream(d)' = OnStream(d)
  BY DEF OnStream, TypeOK
<1>4. Cardinality(OnStream(conn[r])') = Cardinality(OnStream(conn[r])) + 1
  BY <1>1, <1>2, StreamGained
<1>5. streams[conn[r]] + 1 = Cardinality(OnStream(conn[r])')
  BY <1>1, <1>4 DEF TransportInv, IdleLetsTheProcessExit
<1>6. TypeOK'
  <2>1. Cardinality(OnStream(conn[r])') \in 0..Cardinality(Requests)
    BY <1>1, OnStreamFiniteNext
  <2>2. streams' \in [Conns -> 0..Cardinality(Requests)]
    BY <1>1, <1>5, <2>1 DEF TypeOK
  <2>. QED
    BY <2>2 DEF TypeOK
<1>7. RequestInv' /\ SentOnce' /\ ArrivedStatusIsReported'
  BY DEF TypeOK, TransportInv, RequestInv, SentOnce, ArrivedStatusIsReported
<1>8. ConnectionInv'
  BY DEF TypeOK, TransportInv, ConnectionInv
<1>9. IdleLetsTheProcessExit'
  <2>1. streams[conn[r]] \in Nat
    BY <1>1, OnStreamFinite DEF TransportInv, IdleLetsTheProcessExit
  <2>2. ASSUME NEW d \in Conns
        PROVE  streams'[d] = Cardinality(OnStream(d)')
    BY <1>1, <1>3, <1>5 DEF TypeOK, TransportInv, IdleLetsTheProcessExit
  <2>3. ASSUME NEW d \in Conns
        PROVE  refd'[d] <=> phase'[d] = "negotiating" \/ streams'[d] > 0
    BY <1>1, <2>1 DEF TypeOK, TransportInv, IdleLetsTheProcessExit
  <2>. QED
    BY <2>2, <2>3 DEF IdleLetsTheProcessExit, OnStream
<1>10. LiveConnectionIsCurrent'
  BY DEF TransportInv, LiveConnectionIsCurrent
<1>. QED
  BY <1>6, <1>7, <1>8, <1>9, <1>10 DEF TransportInv

(* The session closed meanwhile: the reference is taken and given back.    *)
LEMMA RefusedStep ==
    ASSUME TypeOK, TransportInv, NEW r \in Requests,
           pc[r] = "waiting", phase[conn[r]] = "closed",
           Settle(r, "error"),
           refd' = [refd EXCEPT ![conn[r]] = streams[conn[r]] # 0],
           UNCHANGED <<streams, sent, phase, origin, conn, status>>
    PROVE  TypeOK' /\ TransportInv'
<1>. USE DEF Settle
<1>1. conn[r] \in Conns
  BY DEF TypeOK, TransportInv, ConnectionInv
<1>2. \A d \in Conns : OnStream(d)' = OnStream(d)
  BY DEF OnStream, TypeOK
<1>3. TypeOK'
  BY DEF TypeOK
<1>4. RequestInv' /\ SentOnce' /\ ArrivedStatusIsReported'
  BY DEF TypeOK, TransportInv, RequestInv, SentOnce, ArrivedStatusIsReported
<1>5. ConnectionInv'
  BY DEF TypeOK, TransportInv, ConnectionInv
<1>6. IdleLetsTheProcessExit'
  <2>1. streams[conn[r]] \in Nat
    BY <1>1, OnStreamFinite DEF TransportInv, IdleLetsTheProcessExit
  <2>. QED
    BY <1>1, <1>2, <2>1 DEF TypeOK, TransportInv, IdleLetsTheProcessExit
<1>7. LiveConnectionIsCurrent'
  BY DEF TransportInv, LiveConnectionIsCurrent
<1>. QED
  BY <1>3, <1>4, <1>5, <1>6, <1>7 DEF TransportInv

(* The negotiation failed: the request goes to HTTP/1, for the first time. *)
LEMMA FallBackStep ==
    ASSUME TypeOK, TransportInv, NEW r \in Requests,
           pc[r] = "waiting", phase[conn[r]] = "failed", Fetch(r),
           UNCHANGED <<refd, streams, result, phase, origin, conn, status>>
    PROVE  TypeOK' /\ TransportInv'
<1>. USE DEF Fetch
<1>1. \A d \in Conns : OnStream(d)' = OnStream(d)
  BY DEF OnStream, TypeOK
<1>2. TypeOK'
  BY DEF TypeOK
<1>3. RequestInv' /\ ConnectionInv' /\ SentOnce'
  BY DEF TypeOK, TransportInv, RequestInv, ConnectionInv, SentOnce
<1>4. IdleLetsTheProcessExit'
  BY <1>1 DEF TransportInv, IdleLetsTheProcessExit
<1>5. LiveConnectionIsCurrent' /\ ArrivedStatusIsReported'
  BY DEF TypeOK, TransportInv, LiveConnectionIsCurrent, ArrivedStatusIsReported
<1>. QED
  BY <1>2, <1>3, <1>4, <1>5 DEF TransportInv

(* A stream ends, in an answer or in an error: one stream less, and the    *)
(* last one lets the process exit.                                         *)
LEMMA ReleaseStep ==
    ASSUME TypeOK, TransportInv, NEW r \in Requests, StreamEnds(r) \/ StreamFails(r)
    PROVE  TypeOK' /\ TransportInv'
<1>. USE DEF StreamEnds, StreamFails, Settle, Release
<1>1. conn[r] \in Conns /\ phase[conn[r]] \in {"open", "closed"}
  BY DEF TypeOK, TransportInv, ConnectionInv
<1>2. OnStream(conn[r])' = OnStream(conn[r]) \ {r} /\ r \in OnStream(conn[r])
  BY DEF OnStream, TypeOK
<1>3. \A d \in Conns \ {conn[r]} : OnStream(d)' = OnStream(d)
  BY DEF OnStream, TypeOK
<1>4. Cardinality(OnStream(conn[r])') = Cardinality(OnStream(conn[r])) - 1
  BY <1>1, <1>2, StreamLost
<1>5. streams[conn[r]] - 1 = Cardinality(OnStream(conn[r])')
  BY <1>1, <1>4 DEF TransportInv, IdleLetsTheProcessExit
<1>6. Cardinality(OnStream(conn[r])') \in 0..Cardinality(Requests)
  BY <1>1, OnStreamFiniteNext
<1>7. TypeOK'
  <2>1. streams' \in [Conns -> 0..Cardinality(Requests)]
    BY <1>1, <1>5, <1>6 DEF TypeOK
  <2>. QED
    BY <2>1 DEF TypeOK, BrokenAnswer
<1>8. RequestInv' /\ SentOnce' /\ ArrivedStatusIsReported'
  BY DEF TypeOK, TransportInv, RequestInv, SentOnce, ArrivedStatusIsReported, BrokenAnswer
<1>9. ConnectionInv'
  BY DEF TypeOK, TransportInv, ConnectionInv
<1>10. IdleLetsTheProcessExit'
  <2>1. streams[conn[r]] \in Nat /\ streams[conn[r]] >= 1 /\ refd[conn[r]]
    BY <1>1, <1>5, <1>6, OnStreamFinite DEF TransportInv, IdleLetsTheProcessExit
  <2>2. ASSUME NEW d \in Conns
        PROVE  streams'[d] = Cardinality(OnStream(d)')
    BY <1>1, <1>3, <1>5 DEF TypeOK, TransportInv, IdleLetsTheProcessExit
  <2>3. ASSUME NEW d \in Conns
        PROVE  refd'[d] <=> phase'[d] = "negotiating" \/ streams'[d] > 0
    <3>1. CASE d = conn[r]
      <4>1. refd'[d] <=> streams[d] # 1
        BY <1>1, <2>1, <3>1 DEF TypeOK
      <4>2. streams'[d] = streams[d] - 1 /\ phase'[d] # "negotiating"
        BY <1>1, <3>1 DEF TypeOK
      <4>. QED
        BY <2>1, <3>1, <4>1, <4>2
    <3>2. CASE d # conn[r]
      <4>1. refd'[d] = refd[d] /\ streams'[d] = streams[d] /\ phase'[d] = phase[d]
        BY <3>2 DEF TypeOK
      <4>. QED
        BY <4>1 DEF TransportInv, IdleLetsTheProcessExit
    <3>. QED
      BY <3>1, <3>2
  <2>. QED
    BY <2>2, <2>3 DEF IdleLetsTheProcessExit, OnStream
<1>11. LiveConnectionIsCurrent'
  BY DEF TransportInv, LiveConnectionIsCurrent
<1>. QED
  BY <1>7, <1>8, <1>9, <1>10, <1>11 DEF TransportInv

-----------------------------------------------------------------------------
LEMMA NextInv == TypeOK /\ TransportInv /\ [Next]_vars => TypeOK' /\ TransportInv'
<1>. SUFFICES ASSUME TypeOK, TransportInv, [Next]_vars
              PROVE  TypeOK' /\ TransportInv'
  OBVIOUS
<1>1. ASSUME NEW r \in Requests, Resume(r)
      PROVE  TypeOK' /\ TransportInv'
  BY <1>1, OpenedStep, RefusedStep, FallBackStep DEF Resume
<1>2. ASSUME NEW r \in Requests, Proceed(r)
      PROVE  TypeOK' /\ TransportInv'
  BY <1>1, <1>2, StreamRespondsStep, ReleaseStep, FetchRespondsStep, FetchEndsStep DEF Proceed
<1>3. ASSUME NEW c \in Conns, Negotiated(c) \/ NegotiationFails(c)
      PROVE  TypeOK' /\ TransportInv'
  BY <1>3, ReadyStep DEF Negotiated, NegotiationFails
<1>4. CASE UNCHANGED vars
  BY <1>4 DEF vars, TypeOK, TransportInv, RequestInv, ConnectionInv, SentOnce, OnStream,
              IdleLetsTheProcessExit, LiveConnectionIsCurrent, ArrivedStatusIsReported
<1>. QED
  BY <1>2, <1>3, <1>4, SendHttp1Step, SendSharedStep, ConnectStep, GoAwayStep DEF Next

(* The types, and the invariant from which the properties follow.          *)
THEOREM Inductive == Spec => [](TypeOK /\ TransportInv)
  BY InitInv, NextInv, PTL DEF Spec

(* Every variable keeps its type; the count of streams never leaves        *)
(* 0..Cardinality(Requests), in particular it is never negative.           *)
THEOREM TypeCorrect == Spec => []TypeOK
  BY Inductive, PTL

(* No request is handed to a transport twice, however negotiations race,   *)
(* fail and fall back (index.ts:2657).                                     *)
THEOREM NeverSentTwice == Spec => []SentOnce
<1>1. TransportInv => SentOnce
  BY DEF TransportInv
<1>. QED
  BY <1>1, Inductive, PTL

(* The count of streams is the number of requests in flight on the         *)
(* connection, which keeps the process alive exactly while it negotiates   *)
(* or carries one (index.ts:2577, 2627).                                   *)
THEOREM ReferencesAreCounted == Spec => []IdleLetsTheProcessExit
<1>1. TransportInv => IdleLetsTheProcessExit
  BY DEF TransportInv
<1>. QED
  BY <1>1, Inductive, PTL

(* At most one connection is usable at a time, and it is the one the cache *)
(* names: a late answer over HTTP/1 forgets no other (index.ts:2669).      *)
THEOREM LiveIsCurrent == Spec => []LiveConnectionIsCurrent
<1>1. TransportInv => LiveConnectionIsCurrent
  BY DEF TransportInv
<1>. QED
  BY <1>1, Inductive, PTL

(* A result tells what arrived: no response without a status, and no       *)
(* retryable status lost to what broke after it (index.ts:2617, 2674).     *)
THEOREM StatusReported == Spec => []ArrivedStatusIsReported
<1>1. TransportInv => ArrivedStatusIsReported
  BY DEF TransportInv
<1>. QED
  BY <1>1, Inductive, PTL
=============================================================================
