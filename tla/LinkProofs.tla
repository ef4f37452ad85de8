---------------------------- MODULE LinkProofs ------------------------------
(***************************************************************************)
(* Proofs about the remote agent over a stream transport, the registry and *)
(* the WebSocket transport, each for every value of its constants.  A name *)
(* that they have in common is declared once: each theorem is about one.   *)
(***************************************************************************)
EXTENDS RemoteAgent, TLAPS

-----------------------------------------------------------------------------
(* The remote agent over a stream transport. *)

Kinds == {"response", "error", "stream_chunk", "stream_end"}
Arriving == [type : Kinds, to : Callers, n : Nat]

\* The calls that have r.mu, and those of them whose request is sent.
Holding == {"send", "receive", "reading", "offer"}
Awaiting == {"receive", "reading", "offer"}

\* The first n chunks of the answer to c.
Answer(c, n) == [i \in 1 .. n |-> <<c, i>>]

\* The messages of its answer that c has read from the connection.
taken(c) == Len(got[c]) + IF pc[c] = "offer" THEN 1 ELSE 0

\* The frames fs are a part of the answer to c, a call of method m that has read g
\* messages of it: chunks from the one that follows, with at most one frame after
\* them, the last one, which tells the end of the chunks or an error.
Incoming(c, m, g, fs) ==
    \A i \in 1 .. Len(fs) :
        /\ fs[i].to = c
        /\ m = "process" => fs[i].type \in {"response", "error"} /\ fs[i].n = 0
        /\ m = "stream" => fs[i].type \in {"stream_chunk", "stream_end", "error"}
        /\ fs[i].type = "stream_chunk" => fs[i].n = g + i
        /\ fs[i].type # "stream_chunk" => i = Len(fs)
        /\ fs[i].type = "stream_end" => g + i = Chunks + 1

\* How far the handler is with the request of c, with the frames fs under way, the
\* requests rs unread and s in its hands: it has not read the request, or answers
\* it and the next chunk is the one after those under way, or has sent the last frame.
Stage(c, m, g, fs, rs, s) ==
    \/ rs = <<c>> /\ s = idle /\ fs = <<>> /\ g = 0
    \/ /\ rs = <<>> /\ s # idle /\ s[1] = c
       /\ \A i \in 1 .. Len(fs) : fs[i].type = "stream_chunk"
       /\ m = "stream" => s[2] = g + Len(fs) + 1 /\ s[2] <= Chunks + 1
    \/ rs = <<>> /\ s = idle /\ fs # <<>> /\ fs[Len(fs)].type # "stream_chunk"

Flow(c, k) ==
    /\ Incoming(c, method[c], taken(c), toClient[k])
    /\ k \in open => Stage(c, method[c], taken(c), toClient[k], toServer[k], serving[k])

\* Nothing of an earlier exchange is under way, or can be.
Quiet(k) == toClient[k] = <<>> /\ (k \in open => toServer[k] = <<>> /\ serving[k] = idle)

\* What c was given so far.
Given(c) ==
    /\ method[c] = "process" =>
         got[c] = <<>> \/ (pc[c] = "answered" /\ got[c] = << <<c, 0>> >>)
    /\ method[c] = "stream" => got[c] = Answer(c, Len(got[c]))
    /\ pc[c] \in {"new", "dial", "lock", "send"} => got[c] = <<>>
    /\ pc[c] = "answered" /\ method[c] = "stream" => Len(got[c]) = Chunks
    /\ pc[c] = "offer" => method[c] = "stream" /\ inHand[c] = <<c, Len(got[c]) + 1>>

\* Who has r.mu, and which connections there are.
Holders ==
    /\ conns \in 0 .. MaxConns /\ conn \in 0 .. conns /\ open \subseteq Conns
    /\ mu \in {{}} \cup {{c} : c \in Callers}
    /\ pc \in [Callers -> {"new", "dial", "lock"} \cup Holding \cup Ended]
    /\ using \in [Callers -> 0 .. conns]
    /\ \A c \in Callers : pc[c] \in Holding <=> mu = {c}
    /\ \A c \in Callers : pc[c] = "reading" => using[c] # None

CallTypes ==
    /\ method \in [Callers -> {"process", "stream"}]
    /\ got \in [Callers -> Seq(Callers \X Nat)]
    /\ inHand \in [Callers -> {<<>>} \cup (Callers \X Nat)]
    /\ \A c \in Callers : pc[c] = "offer" => inHand[c] \in Callers \X Nat

\* What is under way; nothing yet on a connection that is not made.
Wires ==
    /\ toServer \in [Conns -> Seq(Callers)] /\ toClient \in [Conns -> Seq(Arriving)]
    /\ serving \in [Conns -> {idle} \cup (Callers \X Nat)]
    /\ \A k \in Conns : k > conns => toServer[k] = <<>> /\ toClient[k] = <<>> /\ serving[k] = idle

RemoteTypes == Holders /\ CallTypes /\ Wires

InOrder ==
    /\ \A c \in Callers : Given(c)
    /\ conn # None /\ (mu = {} \/ \E c \in Callers : pc[c] = "send") => Quiet(conn)
    /\ \A c \in Callers : pc[c] \in Awaiting /\ conn # None => Flow(c, conn)
    /\ \A c \in Callers : pc[c] = "reading" => Flow(c, using[c]) /\ conn \in {None, using[c]}

RemoteInv == RemoteTypes /\ (~abandoned /\ ~replaced => InOrder)

\* A sequence without elements is the empty one.
LEMMA EmptySequence ==
    ASSUME NEW S, NEW s \in Seq(S), Len(s) = 0 PROVE s = <<>>
  OBVIOUS

\* Reading a chunk leaves the rest of the answer, from the next message on
\* (handleStreamResponse).
LEMMA TakeChunk ==
    ASSUME NEW c \in Callers, NEW m \in {"process", "stream"}, NEW g \in Nat,
           NEW fs \in Seq(Arriving), NEW rs, NEW s, NEW h \in Nat, h = g + 1,
           Incoming(c, m, g, fs), fs # <<>>, Head(fs).type = "stream_chunk"
    PROVE  /\ m = "stream" /\ Head(fs).to = c /\ Head(fs).n = h
           /\ Incoming(c, m, h, Tail(fs))
           /\ Stage(c, m, g, fs, rs, s) => Stage(c, m, h, Tail(fs), rs, s)
<1>1. /\ Len(fs) \in Nat /\ Len(fs) > 0 /\ Head(fs) = fs[1] /\ Tail(fs) \in Seq(Arriving)
      /\ Len(Tail(fs)) = Len(fs) - 1 /\ \A i \in 1 .. Len(fs) - 1 : Tail(fs)[i] = fs[i + 1]
  OBVIOUS
<1>2. m = "stream" /\ Head(fs).to = c /\ Head(fs).n = g + 1
  <2>1. 1 \in 1 .. Len(fs)
    BY <1>1
  <2>2. /\ fs[1].to = c
        /\ m = "process" => fs[1].type \in {"response", "error"}
        /\ fs[1].type = "stream_chunk" => fs[1].n = g + 1
    BY <2>1 DEF Incoming
  <2>3. QED
    BY <1>1, <2>2
<1>3. Incoming(c, m, g + 1, Tail(fs))
  <2> SUFFICES ASSUME NEW i \in 1 .. Len(Tail(fs))
               PROVE  /\ Tail(fs)[i].to = c
                      /\ m = "process" => Tail(fs)[i].type \in {"response", "error"} /\ Tail(fs)[i].n = 0
                      /\ m = "stream" => Tail(fs)[i].type \in {"stream_chunk", "stream_end", "error"}
                      /\ Tail(fs)[i].type = "stream_chunk" => Tail(fs)[i].n = g + 1 + i
                      /\ Tail(fs)[i].type # "stream_chunk" => i = Len(Tail(fs))
                      /\ Tail(fs)[i].type = "stream_end" => g + 1 + i = Chunks + 1
    BY DEF Incoming
  <2>1. i + 1 \in 1 .. Len(fs) /\ Tail(fs)[i] = fs[i + 1] /\ i \in Nat
    BY <1>1
  <2>2. /\ fs[i + 1].to = c
        /\ m = "process" => fs[i + 1].type \in {"response", "error"} /\ fs[i + 1].n = 0
        /\ m = "stream" => fs[i + 1].type \in {"stream_chunk", "stream_end", "error"}
        /\ fs[i + 1].type = "stream_chunk" => fs[i + 1].n = g + (i + 1)
        /\ fs[i + 1].type # "stream_chunk" => i + 1 = Len(fs)
        /\ fs[i + 1].type = "stream_end" => g + (i + 1) = Chunks + 1
    BY <2>1 DEF Incoming
  <2>3. Len(Tail(fs)) = Len(fs) - 1 /\ Len(fs) \in Nat
    BY <1>1
  <2> DEFINE e == fs[i + 1]
  <2>4. Tail(fs)[i] = e
    BY <2>1
  <2> HIDE DEF e
  <2>5. /\ e.to = c
        /\ m = "process" => e.type \in {"response", "error"} /\ e.n = 0
        /\ m = "stream" => e.type \in {"stream_chunk", "stream_end", "error"}
    BY <2>2 DEF e
  <2>6. e.type = "stream_chunk" => e.n = g + 1 + i
    BY <2>1, <2>2 DEF e
  <2>7. e.type # "stream_chunk" => i = Len(Tail(fs))
    <3>1. e.type # "stream_chunk" => i + 1 = Len(fs)
      BY <2>2 DEF e
    <3>2. i + 1 = Len(fs) => i = Len(fs) - 1
      BY <2>1
    <3>3. QED
      BY Zenon, <2>3, <3>1, <3>2
  <2>8. e.type = "stream_end" => g + 1 + i = Chunks + 1
    BY <2>1, <2>2 DEF e
  <2>9. QED
    BY <2>4, <2>5, <2>6, <2>7, <2>8
<1>4. ASSUME Stage(c, m, g, fs, rs, s) PROVE Stage(c, m, g + 1, Tail(fs), rs, s)
  <2>1. CASE /\ rs = <<>> /\ s # idle /\ s[1] = c
             /\ \A i \in 1 .. Len(fs) : fs[i].type = "stream_chunk"
             /\ m = "stream" => s[2] = g + Len(fs) + 1 /\ s[2] <= Chunks + 1
    <3>1. \A i \in 1 .. Len(Tail(fs)) : Tail(fs)[i].type = "stream_chunk"
      BY <2>1, <1>1
    <3>2. g + Len(fs) + 1 = g + 1 + Len(Tail(fs)) + 1
      BY <1>1
    <3>3. QED
      BY <2>1, <3>1, <3>2 DEF Stage
  <2>2. CASE rs = <<>> /\ s = idle /\ fs # <<>> /\ fs[Len(fs)].type # "stream_chunk"
    <3>1. Len(fs) # 1
      BY <2>2, <1>1
    <3>2. Len(Tail(fs)) # 0 /\ Len(fs) - 1 \in 1 .. Len(fs) - 1 /\ Len(fs) - 1 + 1 = Len(fs)
      BY <3>1, <1>1
    <3>3. Tail(fs) # <<>>
      BY Zenon, <3>2, Len(<<>>) = 0
    <3>4. Tail(fs)[Len(Tail(fs))] = fs[Len(fs)]
      BY <3>2, <1>1
    <3>5. QED
      BY <2>2, <3>3, <3>4 DEF Stage
  <2>3. QED
    BY <1>4, <2>1, <2>2 DEF Stage
<1>5. QED
  BY <1>2, <1>3, <1>4, h = g + 1

\* Reading any other frame leaves nothing of the answer under way (Process and
\* handleStreamResponse, which return with it).
LEMMA TakeLast ==
    ASSUME NEW c \in Callers, NEW m \in {"process", "stream"}, NEW g \in Nat,
           NEW fs \in Seq(Arriving), NEW rs, NEW s,
           Incoming(c, m, g, fs), fs # <<>>, Head(fs).type # "stream_chunk"
    PROVE  /\ Tail(fs) = <<>> /\ Head(fs).to = c
           /\ m = "process" => Head(fs).n = 0
           /\ Head(fs).type = "stream_end" => g + 1 = Chunks + 1
           /\ Stage(c, m, g, fs, rs, s) => rs = <<>> /\ s = idle
<1>1. Len(fs) \in Nat /\ Len(fs) > 0 /\ Head(fs) = fs[1]
  OBVIOUS
<1>2. 1 \in 1 .. Len(fs)
  BY <1>1
<1>3. /\ fs[1].to = c
      /\ m = "process" => fs[1].n = 0
      /\ fs[1].type # "stream_chunk" => 1 = Len(fs)
      /\ fs[1].type = "stream_end" => g + 1 = Chunks + 1
  BY Zenon, <1>2 DEF Incoming
<1>4. Tail(fs) = <<>>
  <2>1. Tail(fs) \in Seq(Arriving) /\ Len(Tail(fs)) = 0
    BY <1>1, <1>3
  <2>2. QED
    BY Zenon, <2>1, EmptySequence
<1>5. Stage(c, m, g, fs, rs, s) => rs = <<>> /\ s = idle
  BY <1>1, <1>3 DEF Stage
<1>6. QED
  BY <1>1, <1>3, <1>4, <1>5

\* A frame sent after chunks only keeps the answer in order (handleStreamRequest).
LEMMA SendOne ==
    ASSUME NEW c \in Callers, NEW m \in {"process", "stream"}, NEW g \in Nat,
           NEW fs \in Seq(Arriving), NEW f \in Arriving,
           Incoming(c, m, g, fs), \A i \in 1 .. Len(fs) : fs[i].type = "stream_chunk",
           f.to = c, m = "process" => f.type \in {"response", "error"} /\ f.n = 0,
           m = "stream" => f.type \in {"stream_chunk", "stream_end", "error"},
           f.type = "stream_chunk" => f.n = g + Len(fs) + 1,
           f.type = "stream_end" => g + Len(fs) = Chunks, Chunks \in Nat
    PROVE  /\ Append(fs, f) \in Seq(Arriving) /\ Append(fs, f) # <<>>
           /\ Len(Append(fs, f)) = Len(fs) + 1 /\ Append(fs, f)[Len(fs) + 1] = f
           /\ Incoming(c, m, g, Append(fs, f))
           /\ f.type = "stream_chunk" =>
                \A i \in 1 .. Len(Append(fs, f)) : Append(fs, f)[i].type = "stream_chunk"
<1> DEFINE gs == Append(fs, f)
<1>1. /\ gs \in Seq(Arriving) /\ Len(gs) = Len(fs) + 1 /\ gs[Len(fs) + 1] = f /\ Len(fs) \in Nat
      /\ \A i \in 1 .. Len(fs) : gs[i] = fs[i]
  OBVIOUS
<1>2. gs # <<>>
  OBVIOUS
<1> HIDE DEF gs
<1>3. Incoming(c, m, g, gs)
  <2> SUFFICES ASSUME NEW i \in 1 .. Len(gs)
               PROVE  /\ gs[i].to = c
                      /\ m = "process" => gs[i].type \in {"response", "error"} /\ gs[i].n = 0
                      /\ m = "stream" => gs[i].type \in {"stream_chunk", "stream_end", "error"}
                      /\ gs[i].type = "stream_chunk" => gs[i].n = g + i
                      /\ gs[i].type # "stream_chunk" => i = Len(gs)
                      /\ gs[i].type = "stream_end" => g + i = Chunks + 1
    BY DEF Incoming
  <2>1. CASE i = Len(fs) + 1
    <3>1. gs[i] = f /\ i = Len(gs)
      BY <1>1, <2>1
    <3>2. f.type = "stream_chunk" => f.n = g + i
      BY <1>1, <2>1
    <3>3. f.type = "stream_end" => g + i = Chunks + 1
      BY <1>1, <2>1
    <3>4. QED
      BY <3>1, <3>2, <3>3
  <2>2. CASE i \in 1 .. Len(fs)
    <3>1. gs[i] = fs[i]
      BY <1>1, <2>2
    <3>2. /\ fs[i].to = c
          /\ m = "process" => fs[i].type \in {"response", "error"} /\ fs[i].n = 0
          /\ fs[i].type = "stream_chunk" /\ fs[i].n = g + i
      BY <2>2 DEF Incoming
    <3>3. QED
      BY <3>1, <3>2
  <2>3. QED
    BY <1>1, <2>1, <2>2
<1>4. ASSUME f.type = "stream_chunk", NEW i \in 1 .. Len(gs) PROVE gs[i].type = "stream_chunk"
  BY <1>1, <1>4
<1>5. QED
  BY <1>1, <1>2, <1>3, <1>4 DEF gs

\* The next chunk extends the answer given so far.
LEMMA AnswerGrows ==
    ASSUME NEW c \in Callers, NEW s \in Seq(Callers \X Nat), s = Answer(c, Len(s))
    PROVE  Append(s, <<c, Len(s) + 1>>) = Answer(c, Len(Append(s, <<c, Len(s) + 1>>)))
  BY DEF Answer


\* Who has r.mu after each step, and which connections there are then.
LEMMA HoldersStep ==
    ASSUME RemoteAssumption, RemoteTypes, [Next]_vars PROVE Holders'
<1> USE DEF RemoteAssumption, RemoteTypes, Holders, Holding, Ended, Conns, None, at
<1>1. ASSUME NEW c \in Callers, Call(c) \/ ConnectFails(c) \/ Cancel(c) PROVE Holders'
  BY <1>1 DEF Call, ConnectFails, Cancel, clientVars, netVars, history
<1>2. ASSUME NEW c \in Callers, Connect(c) PROVE Holders'
  <2>1. /\ conns' \in 0 .. MaxConns /\ conn' \in 0 .. conns' /\ open' \subseteq Conns
        /\ \A n \in 0 .. conns : n \in 0 .. conns'
    BY <1>2 DEF Connect
  <2>2. /\ pc' = [pc EXCEPT ![c] = "lock"] /\ pc[c] = "dial" /\ UNCHANGED <<mu, using>>
    BY <1>2 DEF Connect
  <2>3. using' \in [Callers -> 0 .. conns']
    BY <2>1, <2>2
  <2>4. QED
    BY <2>1, <2>2, <2>3
<1>3. ASSUME NEW c \in Callers, Lock(c) PROVE Holders'
  BY <1>3 DEF Lock, netVars, history
<1>4. ASSUME NEW c \in Callers, NEW r \in Ended, pc[c] \in Holding, return(c, r),
             UNCHANGED <<conn, conns, open>>
      PROVE Holders'
  <2>1. mu = {c} /\ mu' = {}
    BY <1>4 DEF return
  <2>2. \A d \in Callers : d # c => pc[d] \notin Holding
    BY <2>1
  <2>3. /\ pc' = [pc EXCEPT ![c] = r] /\ using' = [using EXCEPT ![c] = 0]
        /\ \A d \in Callers : pc'[d] \notin Holding
    BY <1>4, <2>2 DEF return
  <2>4. \A d \in Callers : {d} # {}
    OBVIOUS
  <2>5. QED
    BY <1>4, <2>1, <2>3, <2>4
<1>5. ASSUME NEW c \in Callers, SendFramed(c) PROVE Holders'
  <2>1. CASE conn \in open
    BY <1>5, <2>1 DEF SendFramed, history
  <2>2. CASE conn \notin open
    BY <1>4, <1>5, <2>2 DEF SendFramed, history
  <2>3. QED
    BY <2>1, <2>2
<1>6. ASSUME NEW c \in Callers, BeginReceive(c) PROVE Holders'
  <2>1. CASE conn = None
    BY <1>4, <1>6, <2>1 DEF BeginReceive, netVars
  <2>2. CASE conn # None
    BY <1>6, <2>2 DEF BeginReceive, netVars
  <2>3. QED
    BY <2>1, <2>2
<1>7. ASSUME NEW c \in Callers, Receive(c) PROVE Holders'
  <2>1. CASE return(c, "answered") \/ return(c, "error")
    BY Zenon, <1>4, <1>7, <2>1 DEF Receive
  <2>2. CASE at(c, "offer") /\ UNCHANGED <<mu, using>>
    BY <1>7, <2>2 DEF Receive
  <2>3. QED
    BY <1>7, <2>1, <2>2 DEF Receive
<1>8. ASSUME NEW c \in Callers, ReceiveFails(c) \/ Abandon(c) PROVE Holders'
  BY Zenon, <1>4, <1>8 DEF ReceiveFails, Abandon, netVars
<1>9. ASSUME NEW c \in Callers, Deliver(c) PROVE Holders'
  BY <1>9 DEF Deliver, clientVars, netVars
<1>10. CASE Close
  BY <1>10 DEF Close, callVars
<1>11. ASSUME NEW k \in Conns, Serve(k) \/ ServerCloses(k) PROVE Holders'
  BY <1>11 DEF Serve, ServerReads, ServerResponds, ServerStreams, ServerCloses, clientVars, callVars
<1>12. CASE UNCHANGED vars
  BY <1>12 DEF vars, clientVars, callVars, netVars
<1>13. QED
  BY <1>1, <1>2, <1>3, <1>5, <1>6, <1>7, <1>8, <1>9, <1>10, <1>11, <1>12 DEF Next, Exchange

\* Every step keeps the types of what calls hold.
LEMMA CallTypesStep ==
    ASSUME RemoteAssumption, RemoteTypes, [Next]_vars PROVE CallTypes'
<1> USE DEF RemoteAssumption, RemoteTypes, CallTypes, Holders, at
<1>1. ASSUME NEW c \in Callers, NEW r \in Ended, return(c, r), UNCHANGED <<method, got>>
      PROVE CallTypes'
  BY <1>1 DEF return, Ended
<1>2. ASSUME NEW c \in Callers, Call(c) \/ Connect(c) \/ ConnectFails(c) \/ Lock(c) \/ Cancel(c)
      PROVE CallTypes'
  BY <1>2 DEF Call, Connect, ConnectFails, Lock, Cancel
<1>3. ASSUME NEW c \in Callers, SendFramed(c) \/ BeginReceive(c) PROVE CallTypes'
  BY <1>1, <1>3 DEF SendFramed, BeginReceive, Ended
<1>4. ASSUME NEW c \in Callers, Receive(c) PROVE CallTypes'
  <2> DEFINE frame == Head(toClient[using[c]])
  <2>1. frame \in Arriving
    BY <1>4 DEF Receive, Wires, Conns, None
  <2>2. <<frame.to, frame.n>> \in Callers \X Nat
    BY <2>1 DEF Arriving
  <2>3. CASE got' = [got EXCEPT ![c] = Append(@, <<frame.to, frame.n>>)] /\ return(c, "answered")
    BY SMTT(30), <1>4, <2>2, <2>3 DEF Receive, return
  <2>4. CASE /\ inHand' = [inHand EXCEPT ![c] = <<frame.to, frame.n>>] /\ at(c, "offer")
             /\ UNCHANGED got
    BY Zenon, <1>4, <2>2, <2>4 DEF Receive
  <2>5. CASE (return(c, "answered") \/ return(c, "error")) /\ UNCHANGED got
    BY <1>1, <1>4, <2>5 DEF Receive, Ended
  <2>6. QED
    BY Zenon, <1>4, <2>3, <2>4, <2>5 DEF Receive
<1>5. ASSUME NEW c \in Callers, ReceiveFails(c) \/ Abandon(c) PROVE CallTypes'
  BY <1>1, <1>5 DEF ReceiveFails, Abandon, Ended
<1>6. ASSUME NEW c \in Callers, Deliver(c) PROVE CallTypes'
  BY <1>6 DEF Deliver
<1>7. CASE Close
  BY <1>7 DEF Close, callVars
<1>8. ASSUME NEW k \in Conns, Serve(k) \/ ServerCloses(k) PROVE CallTypes'
  BY <1>8 DEF Serve, ServerReads, ServerResponds, ServerStreams, ServerCloses, callVars
<1>9. CASE UNCHANGED vars
  BY <1>9 DEF vars, callVars
<1>10. QED
  BY Zenon, <1>2, <1>3, <1>4, <1>5, <1>6, <1>7, <1>8, <1>9 DEF Next, Exchange

\* A frame that a handler sends is one, and reaches the connection if it is open.
LEMMA SendsFrame ==
    ASSUME RemoteTypes, NEW k \in Conns, serving[k] # idle, NEW type \in Kinds, NEW n \in Nat,
           sends(k, type, serving[k][1], n)
    PROVE  /\ toClient' \in [Conns -> Seq(Arriving)]
           /\ \A j \in Conns : j # k \/ j \notin open => toClient'[j] = toClient[j]
           /\ k \in open =>
                toClient'[k] = Append(toClient[k], [type |-> type, to |-> serving[k][1], n |-> n])
<1>1. serving[k][1] \in Callers
  BY DEF RemoteTypes, Wires, idle
<1>2. [type |-> type, to |-> serving[k][1], n |-> n] \in Arriving
  BY <1>1 DEF Arriving
<1>3. QED
  BY <1>2 DEF sends, RemoteTypes, Wires

\* Every step keeps the types of what is under way, and leaves the connections that
\* are not made yet untouched.
LEMMA WiresStep ==
    ASSUME RemoteAssumption, RemoteTypes, [Next]_vars PROVE Wires'
<1> USE DEF RemoteAssumption, RemoteTypes, Wires
<1>1. CASE UNCHANGED <<toServer, toClient, serving>> /\ (conns' = conns \/ conns' = conns + 1)
  BY <1>1 DEF Holders, Conns
<1>2. ASSUME NEW c \in Callers, SendFramed(c) PROVE Wires'
  <2>1. CASE conn \in open
    <3>1. /\ conn \in Conns /\ ~(conn > conns) /\ Append(toServer[conn], c) \in Seq(Callers)
          /\ toServer' = [toServer EXCEPT ![conn] = Append(toServer[conn], c)]
          /\ UNCHANGED <<toClient, serving, conns>>
      BY <1>2, <2>1 DEF SendFramed, Holders, Conns
    <3>2. QED
      BY <3>1
  <2>2. CASE conn \notin open
    BY <1>1, <1>2, <2>2 DEF SendFramed
  <2>3. QED
    BY <2>1, <2>2
<1>3. ASSUME NEW c \in Callers, Receive(c) PROVE Wires'
  <2>1. using[c] \in Conns /\ toClient[using[c]] \in Seq(Arriving) /\ toClient[using[c]] # <<>>
    BY <1>3 DEF Receive, Holders, Conns, None
  <2>2. Tail(toClient[using[c]]) \in Seq(Arriving)
    BY <2>1
  <2>3. /\ toClient' = [toClient EXCEPT ![using[c]] = Tail(toClient[using[c]])]
        /\ UNCHANGED <<toServer, serving, conns>>
    BY <1>3 DEF Receive
  <2>4. QED
    BY <2>1, <2>2, <2>3
<1>4. ASSUME NEW k \in Conns, ServerReads(k) PROVE Wires'
  <2>1. Head(toServer[k]) \in Callers /\ Tail(toServer[k]) \in Seq(Callers)
    BY <1>4 DEF ServerReads
  <2>2. <<Head(toServer[k]), 1>> \in Callers \X Nat
    BY <2>1
  <2>3. QED
    BY <1>4, <2>1, <2>2 DEF ServerReads, clientVars
<1>5. ASSUME NEW k \in Conns, serving[k] # idle, NEW type \in Kinds, NEW n \in Nat,
             sends(k, type, serving[k][1], n), NEW s \in {idle} \cup (Callers \X Nat),
             serving' = [serving EXCEPT ![k] = s], UNCHANGED <<toServer, conns>>
      PROVE  Wires'
  BY Zenon, <1>5, SendsFrame
<1>6. ASSUME NEW k \in Conns, ServerResponds(k) PROVE Wires'
  BY Zenon, <1>5, <1>6 DEF ServerResponds, Kinds, clientVars
<1>7. ASSUME NEW k \in Conns, ServerStreams(k) PROVE Wires'
  <2>1. serving[k] \in Callers \X Nat
    BY <1>7 DEF ServerStreams
  <2>2. CASE serving' = [serving EXCEPT ![k] = idle]
    BY Zenon, <1>5, <1>7, <2>2 DEF ServerStreams, Kinds, clientVars
  <2>3. CASE /\ sends(k, "stream_chunk", serving[k][1], serving[k][2])
             /\ serving' = [serving EXCEPT ![k] = <<@[1], @[2] + 1>>]
    <3>1. /\ <<serving[k][1], serving[k][2] + 1>> \in Callers \X Nat
          /\ serving[k][2] \in Nat /\ "stream_chunk" \in Kinds
      BY <2>1 DEF Kinds
    <3>2. serving[k] # idle /\ UNCHANGED <<toServer, conns>>
      BY <1>7 DEF ServerStreams, clientVars
    <3>3. QED
      BY Zenon, <1>5, <2>3, <3>1, <3>2
  <2>4. QED
    BY <1>7, <2>2, <2>3 DEF ServerStreams
<1>8. QED
  BY Zenon, <1>1, <1>2, <1>3, <1>4, <1>6, <1>7
     DEF Next, Exchange, Serve, Call, Connect, ConnectFails, Lock, BeginReceive, ReceiveFails,
         Deliver, Abandon, Cancel, Close, ServerCloses, vars, clientVars, netVars

\* What the steps of others leave alone.
LEMMA GivenKept ==
    ASSUME NEW c \in Callers, Given(c), method'[c] = method[c], got'[c] = got[c],
           pc'[c] = pc[c], inHand'[c] = inHand[c]
    PROVE  Given(c)'
  BY DEF Given

\* What a caller is owed stays where it is while nobody touches its connection.
LEMMA FlowKept ==
    ASSUME NEW c \in Callers, NEW k \in Conns, Flow(c, k), method'[c] = method[c],
           taken(c)' = taken(c), toClient'[k] = toClient[k], toServer'[k] = toServer[k],
           serving'[k] = serving[k], k \in open' => k \in open
    PROVE  Flow(c, k)'
  BY DEF Flow

\* A connection at rest stays so while nobody touches it.
LEMMA QuietKept ==
    ASSUME NEW k \in Conns, Quiet(k), toClient'[k] = toClient[k], toServer'[k] = toServer[k],
           serving'[k] = serving[k], k \in open' => k \in open
    PROVE  Quiet(k)'
  BY DEF Quiet

\* One call at a time has r.mu.
LEMMA OneHolder ==
    ASSUME Holders, NEW c \in Callers, pc[c] \in Holding
    PROVE  mu = {c} /\ \A d \in Callers : d # c => pc[d] \notin Holding
  BY DEF Holders

\* The number of messages read is a number.
LEMMA TakenType == ASSUME RemoteTypes, NEW c \in Callers PROVE taken(c) \in Nat
  BY DEF RemoteTypes, CallTypes, taken

\* A call that returns leaves the exchange in order when it leaves the connection quiet.
LEMMA Returned ==
    ASSUME RemoteTypes, InOrder, NEW c \in Callers, NEW r \in Ended, pc[c] \in Holding, return(c, r),
           UNCHANGED <<conn, method>>, \A d \in Callers : d # c => got'[d] = got[d],
           Given(c)', conn # None => Quiet(conn)'
    PROVE  InOrder'
<1>1. \A d \in Callers : d # c => pc[d] \notin Holding
  BY OneHolder DEF RemoteTypes
<1>2. /\ \A d \in Callers : d # c => pc'[d] = pc[d] /\ inHand'[d] = inHand[d]
      /\ pc'[c] = r
  BY DEF return, at, RemoteTypes, Holders, CallTypes
<1>3. \A d \in Callers : pc'[d] \notin Holding
  BY <1>1, <1>2 DEF Holding, Ended
<1>4. ASSUME NEW d \in Callers PROVE Given(d)'
  <2>1. CASE d = c
    BY <2>1
  <2>2. CASE d # c
    <3>1. Given(d)
      BY DEF InOrder
    <3>2. method'[d] = method[d] /\ got'[d] = got[d] /\ pc'[d] = pc[d] /\ inHand'[d] = inHand[d]
      BY <1>2, <2>2
    <3>3. QED
      BY <3>1, <3>2, GivenKept
  <2>3. QED
    BY <2>1, <2>2
<1>5. (conn # None => Quiet(conn))'
  BY DEF None
<1>6. QED
  BY <1>3, <1>4, <1>5 DEF InOrder, Holding, Awaiting

\* The handler of a connection keeps the answer in order (handleClient and
\* handleStreamRequest).
LEMMA ServeFlow ==
    ASSUME RemoteAssumption, RemoteTypes, NEW c \in Callers, NEW j \in Conns, NEW k \in Conns,
           Flow(c, j), Serve(k)
    PROVE  Flow(c, j)'
<1> DEFINE m == method[c]
           g == taken(c)
           fs == toClient[j]
<1>1. /\ m \in {"process", "stream"} /\ fs \in Seq(Arriving) /\ toServer[j] \in Seq(Callers)
      /\ serving[j] = idle \/ serving[j] \in Callers \X Nat
  BY DEF RemoteTypes, CallTypes, Wires
<1>2. g \in Nat
  BY TakenType
<1>3. UNCHANGED <<clientVars, callVars, open>>
  BY DEF Serve, ServerReads, ServerResponds, ServerStreams
<1>4. taken(c)' = g /\ method'[c] = m
  BY <1>3 DEF taken, callVars
<1>5. CASE j # k
  <2>1. toClient'[j] = toClient[j] /\ toServer'[j] = toServer[j] /\ serving'[j] = serving[j]
    BY <1>5 DEF Serve, ServerReads, ServerResponds, ServerStreams, sends, RemoteTypes, Wires
  <2>2. QED
    BY <1>3, <1>4, <2>1, FlowKept
<1>6. CASE j = k /\ k \notin open
  <2>1. toClient'[j] = toClient[j]
    BY <1>6 DEF Serve, ServerReads, ServerResponds, ServerStreams, sends
  <2>2. QED
    BY <1>3, <1>4, <1>6, <2>1 DEF Flow
<1>7. CASE j = k /\ k \in open
  <2>1. Incoming(c, m, g, fs) /\ Stage(c, m, g, fs, toServer[k], serving[k])
    BY <1>7 DEF Flow
  <2>2. SUFFICES /\ Incoming(c, m, g, toClient'[k])
                 /\ Stage(c, m, g, toClient'[k], toServer'[k], serving'[k])
    BY <1>4, <1>7 DEF Flow
  <2>3. CASE ServerReads(k)
    <3>1. toServer[k] = <<c>> /\ fs = <<>> /\ g = 0
      BY <2>1, <2>3 DEF ServerReads, Stage
    <3>2. /\ serving'[k] = <<c, 1>> /\ toServer'[k] = <<>> /\ toClient' = toClient
      BY <2>3, <3>1 DEF ServerReads, RemoteTypes, Wires
    <3>3. <<c, 1>> # idle /\ <<c, 1>>[1] = c /\ <<c, 1>>[2] = 1
      BY DEF idle
    <3>4. toClient'[k] = <<>> /\ Len(<<>>) = 0
      BY <3>1, <3>2, <1>7
    <3>5. Incoming(c, m, g, <<>>)
      BY DEF Incoming
    <3>6. Stage(c, m, g, <<>>, <<>>, <<c, 1>>)
      BY <3>1, <3>3, <3>4 DEF Stage, RemoteAssumption
    <3>7. QED
      BY <3>2, <3>4, <3>5, <3>6
  <2>4. ASSUME serving[k] # idle
        PROVE  /\ toServer[k] = <<>> /\ serving[k][1] = c
               /\ \A i \in 1 .. Len(fs) : fs[i].type = "stream_chunk"
               /\ m = "stream" => serving[k][2] = g + Len(fs) + 1 /\ serving[k][2] <= Chunks + 1
    BY <2>1, <2>4 DEF Stage
  <2>5. ASSUME serving[k] # idle, NEW type \in Kinds, NEW n \in Nat,
               sends(k, type, serving[k][1], n),
               m = "process" => type \in {"response", "error"} /\ n = 0,
               m = "stream" => type \in {"stream_chunk", "stream_end", "error"},
               type = "stream_chunk" => n = g + Len(fs) + 1,
               type = "stream_end" => g + Len(fs) = Chunks
        PROVE  /\ toClient'[k] # <<>> /\ Len(toClient'[k]) = Len(fs) + 1
               /\ toClient'[k][Len(fs) + 1].type = type
               /\ Incoming(c, m, g, toClient'[k])
               /\ type = "stream_chunk" =>
                    \A i \in 1 .. Len(toClient'[k]) : toClient'[k][i].type = "stream_chunk"
    <3> DEFINE f == [type |-> type, to |-> serving[k][1], n |-> n]
    <3>1. serving[k][1] = c
      BY <2>4, <2>5
    <3>2. f \in Arriving /\ f.to = c /\ f.type = type /\ f.n = n
      BY <2>5, <3>1 DEF Arriving
    <3>3. toClient'[k] = Append(fs, f)
      BY <1>7, <2>5, SendsFrame
    <3>4. \A i \in 1 .. Len(fs) : fs[i].type = "stream_chunk"
      BY <2>4, <2>5
    <3> HIDE DEF f, fs, m, g
    <3>5. /\ m = "process" => f.type \in {"response", "error"} /\ f.n = 0
          /\ m = "stream" => f.type \in {"stream_chunk", "stream_end", "error"}
          /\ f.type = "stream_chunk" => f.n = g + Len(fs) + 1
          /\ f.type = "stream_end" => g + Len(fs) = Chunks
      BY <2>5, <3>2
    <3>6. /\ Append(fs, f) # <<>> /\ Len(Append(fs, f)) = Len(fs) + 1
          /\ Append(fs, f)[Len(fs) + 1] = f /\ Incoming(c, m, g, Append(fs, f))
          /\ f.type = "stream_chunk" =>
               \A i \in 1 .. Len(Append(fs, f)) : Append(fs, f)[i].type = "stream_chunk"
      BY SMTT(20), <1>1, <1>2, <2>1, <3>2, <3>4, <3>5, SendOne DEF RemoteAssumption
    <3>7. QED
      BY <3>2, <3>3, <3>6
  <2>6. CASE ServerResponds(k)
    <3>1. /\ serving[k] # idle /\ serving'[k] = idle /\ toServer' = toServer
      BY <2>6 DEF ServerResponds, RemoteTypes, Wires
    <3>2. m = "process"
      BY <2>4, <2>6, <3>1 DEF ServerResponds
    <3>3. PICK type \in {"response", "error"} : sends(k, type, serving[k][1], 0)
      BY <2>6 DEF ServerResponds
    <3>4. /\ Incoming(c, m, g, toClient'[k]) /\ toClient'[k] # <<>>
          /\ toClient'[k][Len(toClient'[k])].type = type
      BY Zenon, <2>5, <3>1, <3>2, <3>3 DEF Kinds
    <3>5. QED
      BY Zenon, <2>4, <3>1, <3>3, <3>4 DEF Stage
  <2>7. CASE ServerStreams(k)
    <3>1. /\ serving[k] # idle /\ toServer' = toServer
      BY <2>7 DEF ServerStreams
    <3>2. m = "stream" /\ toServer'[k] = <<>>
      BY <2>4, <2>7, <3>1 DEF ServerStreams
    <3>3. serving[k][1] \in Callers /\ serving[k][2] \in Nat /\ serving[k][2] = g + Len(fs) + 1
      BY <1>1, <1>7, <2>4, <3>1, <3>2
    <3>4. CASE /\ chunksLeft(k) /\ sends(k, "stream_chunk", serving[k][1], serving[k][2])
               /\ serving' = [serving EXCEPT ![k] = <<@[1], @[2] + 1>>]
      <4>1. /\ Incoming(c, m, g, toClient'[k]) /\ Len(toClient'[k]) = Len(fs) + 1
            /\ \A i \in 1 .. Len(toClient'[k]) : toClient'[k][i].type = "stream_chunk"
        BY <2>5, <3>1, <3>2, <3>3, <3>4 DEF Kinds
      <4>2. serving'[k] = <<c, serving[k][2] + 1>>
        BY <2>4, <3>1, <3>4 DEF RemoteTypes, Wires
      <4>3. serving'[k] # idle /\ serving'[k][1] = c /\ serving'[k][2] = serving[k][2] + 1
        BY <4>2 DEF idle
      <4>4. serving[k][2] <= Chunks
        BY <3>4 DEF chunksLeft
      <4>5. serving[k][2] + 1 <= Chunks + 1
        BY <3>3, <4>4 DEF RemoteAssumption
      <4>6. serving[k][2] + 1 = g + (Len(fs) + 1) + 1
        BY <1>1, <1>2, <3>3
      <4>7. QED
        BY <3>2, <4>1, <4>3, <4>5, <4>6 DEF Stage
    <3>5. ASSUME NEW type \in {"stream_end", "error"}, sends(k, type, serving[k][1], 0),
                 serving' = [serving EXCEPT ![k] = idle], type = "stream_end" => g + Len(fs) = Chunks
          PROVE  /\ Incoming(c, m, g, toClient'[k])
                 /\ Stage(c, m, g, toClient'[k], toServer'[k], serving'[k])
      <4>1. /\ Incoming(c, m, g, toClient'[k]) /\ toClient'[k] # <<>>
            /\ toClient'[k][Len(toClient'[k])].type = type
        BY <2>5, <3>1, <3>2, <3>5 DEF Kinds
      <4>2. serving'[k] = idle
        BY <3>5 DEF RemoteTypes, Wires
      <4>3. QED
        BY <3>2, <3>5, <4>1, <4>2 DEF Stage
    <3>6. ~chunksLeft(k) => g + Len(fs) = Chunks
      <4>1. serving[k][2] <= Chunks + 1
        BY <2>4, <3>1, <3>2
      <4>2. ~chunksLeft(k) => serving[k][2] = Chunks + 1
        BY <3>3, <4>1 DEF chunksLeft, RemoteAssumption
      <4>3. Len(fs) \in Nat
        BY <1>1
      <4> HIDE DEF fs, g
      <4>4. QED
        BY <1>2, <3>3, <4>2, <4>3 DEF RemoteAssumption
    <3>7. QED
      BY <2>7, <3>4, <3>5, <3>6 DEF ServerStreams
  <2>8. QED
    BY <2>3, <2>6, <2>7 DEF Serve
<1>8. QED
  BY <1>5, <1>6, <1>7

\* The handler of a quiet connection has nothing to do.
LEMMA ServeQuiet ==
    ASSUME RemoteTypes, NEW j \in Conns, NEW k \in Conns, Quiet(j), Serve(k)
    PROVE  Quiet(j)'
<1>1. CASE j # k
  BY <1>1 DEF Quiet, Serve, ServerReads, ServerResponds, ServerStreams, sends, RemoteTypes, Wires
<1>2. CASE j = k
  BY <1>2 DEF Quiet, Serve, ServerReads, ServerResponds, ServerStreams, sends, RemoteTypes, Wires
<1>3. QED
  BY <1>1, <1>2

\* Every step keeps the exchange in order, until a stream is abandoned or the
\* connection in use is replaced.
LEMMA InOrderStep ==
    ASSUME RemoteAssumption, RemoteTypes, InOrder, ~abandoned', ~replaced', [Next]_vars
    PROVE  InOrder'
<1>1. Holders /\ conn \in 0 .. conns /\ conns <= MaxConns /\ None = 0
  BY DEF RemoteTypes, Holders, RemoteAssumption, None
<1>2. conn # None => conn \in Conns
  BY <1>1 DEF RemoteTypes, Holders, Conns, RemoteAssumption
<1>3. \A c \in Callers : pc[c] = "reading" => using[c] \in Conns
  BY <1>1 DEF Holders, Conns, RemoteAssumption
<1>4. ASSUME NEW c \in Callers, Call(c) \/ ConnectFails(c) \/ Cancel(c) PROVE InOrder'
  <2>1. /\ UNCHANGED <<conn, mu, method, got, using, inHand, toServer, toClient, open, serving>>
        /\ \A d \in Callers : d # c => pc'[d] = pc[d]
    BY <1>4, <1>1 DEF Call, ConnectFails, Cancel, clientVars, netVars, Holders, at
  <2>2. \/ pc'[c] = pc[c]
        \/ pc[c] \in {"new", "dial"} /\ pc'[c] \in {"lock", "dial", "error"}
    BY <1>4, <1>1 DEF Call, ConnectFails, Cancel, Holders, at
  <2>3. ASSUME NEW d \in Callers PROVE Given(d)'
    <3>1. Given(d)
      BY DEF InOrder
    <3>2. CASE pc'[d] = pc[d]
      BY <2>1, <3>1, <3>2, GivenKept
    <3>3. CASE d = c /\ pc[c] \in {"new", "dial"} /\ pc'[c] \in {"lock", "dial", "error"}
      BY <2>1, <3>1, <3>3 DEF Given
    <3>4. QED
      BY <2>1, <2>2, <3>2, <3>3
  <2>4. \A d \in Callers : pc'[d] \in Holding => pc'[d] = pc[d]
    BY <2>1, <2>2 DEF Holding
  <2>5. \A d \in Callers : pc'[d] \in Holding => taken(d)' = taken(d)
    BY Zenon, <2>1, <2>4 DEF taken
  <2>6. ASSUME NEW d \in Callers, pc'[d] \in Holding, NEW k \in Conns, Flow(d, k) PROVE Flow(d, k)'
    BY <2>1, <2>5, <2>6, FlowKept
  <2>7. ASSUME NEW k \in Conns, Quiet(k) PROVE Quiet(k)'
    BY <2>1, <2>7, QuietKept
  <2>8. QED
    BY SMTT(30), <1>2, <1>3, <2>1, <2>3, <2>4, <2>6, <2>7 DEF InOrder, Awaiting, Holding
<1>5. ASSUME NEW c \in Callers, Connect(c) PROVE InOrder'
  <2>0. replaced' = (replaced \/ mu # {})
    BY <1>5 DEF Connect
  <2>1. mu = {}
    BY Zenon, <2>0
  <2>7. PICK k \in Conns : k > conns /\ conn' = k
    <3>1. conns + 1 \in Conns /\ conns + 1 > conns /\ conn' = conns + 1
      BY <1>5, <1>1 DEF Connect, Holders, Conns, RemoteAssumption
    <3>2. QED
      BY <3>1
  <2>2. \A d \in Callers : pc[d] \notin Holding
    BY <1>1, <2>1 DEF Holders
  <2>3. \A d \in Callers : pc'[d] \notin Holding
    BY <1>5, <1>1, <2>2 DEF Connect, Holders, Holding, at
  <2>4. Quiet(k)'
    BY <1>5, <2>7 DEF Connect, RemoteTypes, Wires, Quiet
  <2>5. ASSUME NEW d \in Callers PROVE Given(d)'
    BY <1>5, <1>1 DEF InOrder, Connect, Given, Holders, at
  <2>6. QED
    BY Zenon, <2>3, <2>4, <2>5, <2>7 DEF InOrder, Holding, Awaiting, Quiet
<1>6. ASSUME NEW c \in Callers, Lock(c) PROVE InOrder'
  <2>1. \A d \in Callers : pc[d] \notin Holding
    BY <1>1, <1>6 DEF Holders, Lock
  <2>2. /\ UNCHANGED <<conn, method, got, using, inHand, toServer, toClient, open, serving>>
        /\ mu = {} /\ pc[c] = "lock" /\ pc'[c] = "send" /\ \A d \in Callers : d # c => pc'[d] = pc[d]
    BY <1>6, <1>1 DEF Lock, netVars, Holders, at
  <2>3. \A d \in Callers : pc'[d] \notin Awaiting
    BY <2>1, <2>2 DEF Awaiting, Holding
  <2>4. conn # None => Quiet(conn)'
    BY <1>2, <2>2, QuietKept DEF InOrder
  <2>5. ASSUME NEW d \in Callers PROVE Given(d)'
    BY <2>2 DEF InOrder, Given
  <2>6. QED
    BY <2>2, <2>3, <2>4, <2>5 DEF InOrder, Awaiting
<1>7. ASSUME NEW c \in Callers, SendFramed(c) PROVE InOrder'
  <2>1. /\ pc[c] = "send" /\ got[c] = <<>> /\ (conn # None => Quiet(conn))
        /\ UNCHANGED <<conn, method, got, toClient, open, serving>>
    BY Zenon, <1>7 DEF SendFramed, InOrder, Given
  <2>2. CASE conn \notin open
    <3>1. return(c, "error") /\ UNCHANGED toServer
      BY <1>7, <2>2 DEF SendFramed
    <3>2. conn # None => Quiet(conn)'
      BY <1>2, <2>1, <3>1, QuietKept
    <3>3. pc'[c] = "error" /\ inHand'[c] = <<>>
      BY <3>1, <1>1 DEF return, at, Holders, RemoteTypes, CallTypes
    <3>4. Given(c)'
      BY <2>1, <3>3 DEF InOrder, Given
    <3>5. QED
      BY <2>1, <3>1, <3>2, <3>4, Returned DEF Ended, Holding
  <2>3. CASE conn \in open
    <3>1. conn \in Conns /\ conn # None
      BY <1>1, <2>3 DEF Holders, Conns
    <3>2. /\ toServer' = [toServer EXCEPT ![conn] = Append(@, c)]
          /\ pc'[c] = "receive" /\ UNCHANGED <<mu, using, inHand>>
          /\ \A d \in Callers : d # c => pc'[d] = pc[d]
      BY <1>7, <1>1, <2>3 DEF SendFramed, at, Holders
    <3>3. mu = {c} /\ \A d \in Callers : d # c => pc[d] \notin Holding
      BY <1>1, <2>1, OneHolder DEF Holding
    <3>4. toServer[conn] = <<>> /\ toClient[conn] = <<>> /\ serving[conn] = idle
      BY <2>1, <2>3, <3>1 DEF Quiet
    <3>5. toServer'[conn] = <<c>>
      BY <3>1, <3>2, <3>4 DEF RemoteTypes, Wires
    <3>6. taken(c)' = 0
      BY <2>1, <3>2 DEF taken
    <3>7. Flow(c, conn)'
      BY <2>1, <3>4, <3>5, <3>6 DEF Flow, Incoming, Stage
    <3>8. ASSUME NEW d \in Callers PROVE Given(d)'
      BY <2>1, <3>2 DEF InOrder, Given
    <3>9. QED
      BY Zenon, <2>1, <3>2, <3>3, <3>7, <3>8 DEF InOrder, Holding, Awaiting
  <2>4. QED
    BY <2>2, <2>3
<1>8. ASSUME NEW c \in Callers, BeginReceive(c) PROVE InOrder'
  <2>1. pc[c] = "receive" /\ UNCHANGED <<conn, method, got, toServer, toClient, open, serving>>
    BY <1>8 DEF BeginReceive, netVars
  <2>2. CASE conn = None
    <3>1. return(c, "error")
      BY <1>8, <2>2 DEF BeginReceive
    <3>2. pc'[c] = "error"
      BY <3>1, <1>1 DEF return, at, Holders
    <3>3. Given(c)'
      BY <2>1, <3>2 DEF InOrder, Given
    <3>4. QED
      BY <2>1, <2>2, <3>1, <3>3, Returned DEF Ended, Holding
  <2>3. CASE conn # None
    <3>1. /\ pc'[c] = "reading" /\ using'[c] = conn /\ UNCHANGED <<mu, inHand>>
          /\ \A d \in Callers : d # c => pc'[d] = pc[d] /\ using'[d] = using[d]
      BY <1>8, <1>1, <2>3 DEF BeginReceive, at, Holders
    <3>2. mu = {c} /\ \A d \in Callers : d # c => pc[d] \notin Holding
      BY <1>1, <2>1, OneHolder DEF Holding
    <3>3. Flow(c, conn)
      BY <2>1, <2>3 DEF InOrder, Awaiting
    <3>4. taken(c)' = taken(c)
      BY <2>1, <3>1 DEF taken
    <3>5. Flow(c, conn)'
      BY <1>2, <2>1, <2>3, <3>3, <3>4, FlowKept
    <3>6. ASSUME NEW d \in Callers PROVE Given(d)'
      BY <2>1, <3>1 DEF InOrder, Given
    <3>7. QED
      BY Zenon, <2>1, <3>1, <3>2, <3>5, <3>6 DEF InOrder, Holding, Awaiting
  <2>4. QED
    BY <2>2, <2>3
<1>9. ASSUME NEW c \in Callers, Receive(c) PROVE InOrder'
  <2>0. PICK k \in Conns : k = using[c]
    BY <1>3, <1>9 DEF Receive
  <2> DEFINE m == method[c]
             g == taken(c)
             fs == toClient[k]
             frame == Head(fs)
  <2>1. /\ pc[c] = "reading" /\ fs # <<>> /\ k \in Conns /\ fs \in Seq(Arriving)
        /\ m \in {"process", "stream"} /\ g \in Nat /\ g = Len(got[c])
        /\ got[c] \in Seq(Callers \X Nat)
    BY <1>9, <2>0, TakenType DEF Receive, RemoteTypes, CallTypes, Wires, taken
  <2>2. /\ UNCHANGED <<conn, method, toServer, open, serving>>
        /\ toClient' = [toClient EXCEPT ![k] = Tail(fs)]
    BY <1>9, <2>0 DEF Receive
  <2>3. /\ Flow(c, k) /\ conn \in {None, k} /\ Given(c)
        /\ \A d \in Callers : d # c => pc[d] \notin Holding
    BY <1>1, <2>0, <2>1, OneHolder DEF InOrder, Holding
  <2>4. Incoming(c, m, g, fs) /\ (k \in open => Stage(c, m, g, fs, toServer[k], serving[k]))
    BY <2>3 DEF Flow
  <2>5. toClient'[k] = Tail(fs)
    BY <2>1, <2>2 DEF RemoteTypes, Wires
  <2>6. CASE frame.type = "stream_chunk"
    <3>1. /\ m = "stream" /\ frame.to = c /\ frame.n = g + 1
          /\ Incoming(c, m, g + 1, Tail(fs))
          /\ k \in open => Stage(c, m, g + 1, Tail(fs), toServer[k], serving[k])
      <4> HIDE DEF m, g, fs
      <4>1. PICK h \in Nat : h = g + 1
        BY <2>1
      <4>2. /\ m = "stream" /\ Head(fs).to = c /\ Head(fs).n = h
            /\ Incoming(c, m, h, Tail(fs))
            /\ Stage(c, m, g, fs, toServer[k], serving[k])
                 => Stage(c, m, h, Tail(fs), toServer[k], serving[k])
        BY <2>1, <2>4, <2>6, <4>1, TakeChunk
      <4>3. QED
        BY <2>4, <4>1, <4>2
    <3>2. /\ inHand' = [inHand EXCEPT ![c] = <<frame.to, frame.n>>] /\ at(c, "offer")
          /\ UNCHANGED <<mu, got, using>>
      BY <1>9, <2>0, <2>6, <3>1 DEF Receive
    <3>3. /\ inHand'[c] = <<c, Len(got[c]) + 1>> /\ pc'[c] = "offer"
          /\ \A d \in Callers : d # c => pc'[d] = pc[d] /\ inHand'[d] = inHand[d]
      BY Zenon, <1>1, <2>1, <3>1, <3>2 DEF at, Holders, RemoteTypes, CallTypes
    <3>4. taken(c)' = g + 1
      BY Zenon, <2>1, <3>2, <3>3 DEF taken
    <3>5. Flow(c, k)'
      BY Zenon, <2>2, <2>5, <3>1, <3>2, <3>4 DEF Flow
    <3>6. conn # None => Flow(c, conn)'
      BY <2>2, <2>3, <3>2, <3>5
    <3>7. ASSUME NEW d \in Callers PROVE Given(d)'
      <4>1. CASE d = c
        BY Zenon, <2>2, <2>1, <2>3, <3>1, <3>2, <3>3, <4>1 DEF Given
      <4>2. CASE d # c
        BY Zenon, <2>2, <3>2, <3>3, <4>2, GivenKept DEF InOrder
      <4>3. QED
        BY <4>1, <4>2
    <3>8. mu' # {} /\ \A d \in Callers : d # c => pc'[d] \notin Holding
      BY Zenon, <1>1, <2>1, <2>3, <3>2, <3>3, OneHolder DEF Holding
    <3>9. QED
      BY Zenon, <2>2, <3>3, <3>6, <3>7, <3>8 DEF InOrder, Holding, Awaiting
  <2>7. CASE frame.type # "stream_chunk"
    <3>1. /\ Tail(fs) = <<>> /\ frame.to = c
          /\ m = "process" => frame.n = 0
          /\ frame.type = "stream_end" => g + 1 = Chunks + 1
          /\ k \in open => toServer[k] = <<>> /\ serving[k] = idle
      <4> HIDE DEF m, g, fs
      <4>1. /\ Tail(fs) = <<>> /\ Head(fs).to = c
            /\ m = "process" => Head(fs).n = 0
            /\ Head(fs).type = "stream_end" => g + 1 = Chunks + 1
            /\ Stage(c, m, g, fs, toServer[k], serving[k]) => toServer[k] = <<>> /\ serving[k] = idle
        BY <2>1, <2>4, <2>7, TakeLast
      <4>2. QED
        BY Zenon, <2>4, <4>1
    <3>2. Quiet(k)'
      BY Zenon, <2>2, <2>5, <3>1 DEF Quiet
    <3>3. conn # None => Quiet(conn)'
      BY SMTT(30), <2>2, <2>3, <3>2 DEF Quiet
    <3>4. ASSUME NEW r \in Ended, return(c, r), Given(c)',
                 \A d \in Callers : d # c => got'[d] = got[d]
          PROVE  InOrder'
      BY Zenon, <2>1, <2>2, <3>3, <3>4, Returned DEF Holding
    <3>5. CASE m = "process" /\ frame.type = "response"
      <4>1. got' = [got EXCEPT ![c] = Append(@, <<frame.to, frame.n>>)] /\ return(c, "answered")
        BY <1>9, <2>0, <3>5 DEF Receive
      <4>2. /\ pc'[c] = "answered" /\ got'[c] = Append(got[c], <<c, 0>>)
            /\ \A d \in Callers : d # c => got'[d] = got[d]
        BY <1>1, <3>1, <3>5, <4>1 DEF return, at, Holders, RemoteTypes, CallTypes
      <4>3. got[c] = <<>>
        BY Zenon, <2>1, <2>3, <3>5 DEF Given
      <4>4. got'[c] = << <<c, 0>> >>
        BY <4>2, <4>3
      <4>5. Given(c)'
        BY Zenon, <2>2, <3>5, <4>2, <4>4 DEF Given
      <4>6. QED
        BY <3>4, <4>1, <4>2, <4>5 DEF Ended
    <3>6. CASE m = "stream" /\ frame.type = "stream_end"
      <4>1. return(c, "answered") /\ UNCHANGED got
        BY <1>9, <2>0, <3>6 DEF Receive
      <4>2. pc'[c] = "answered" /\ Len(got[c]) = Chunks
        BY <1>1, <2>1, <3>1, <3>6, <4>1 DEF return, at, Holders, RemoteAssumption
      <4>3. Given(c)'
        BY <2>2, <2>3, <3>6, <4>1, <4>2 DEF Given
      <4>4. QED
        BY <3>4, <4>1, <4>3 DEF Ended
    <3>7. CASE /\ ~(m = "process" /\ frame.type = "response")
               /\ ~(m = "stream" /\ frame.type = "stream_end")
      <4>1. return(c, "error") /\ UNCHANGED got
        BY <1>9, <2>0, <2>7, <3>7 DEF Receive
      <4>2. pc'[c] = "error"
        BY <1>1, <4>1 DEF return, at, Holders
      <4>3. Given(c)'
        BY <2>1, <2>2, <2>3, <4>1, <4>2 DEF Given
      <4>4. QED
        BY <3>4, <4>1, <4>3 DEF Ended
    <3>8. QED
      BY <3>5, <3>6, <3>7
  <2>8. QED
    BY <2>6, <2>7
<1>10. ASSUME NEW c \in Callers, ReceiveFails(c) PROVE InOrder'
  <2>1. /\ pc[c] = "reading" /\ using[c] \notin open /\ toClient[using[c]] = <<>> /\ return(c, "error")
        /\ UNCHANGED <<conn, method, got, toServer, toClient, open, serving>>
    BY <1>10 DEF ReceiveFails, netVars
  <2>2. conn # None => Quiet(conn)'
    BY <2>1 DEF InOrder, Quiet
  <2>3. pc'[c] = "error"
    BY SMTT(30), <2>1, <1>1 DEF return, at, Holders
  <2>4. Given(c)'
    BY Zenon, <2>1, <2>3 DEF InOrder, Given
  <2>5. QED
    BY <2>1, <2>2, <2>4, Returned DEF Ended, Holding
<1>11. ASSUME NEW c \in Callers, Deliver(c) PROVE InOrder'
  <2>1. /\ pc[c] = "offer" /\ UNCHANGED <<conn, mu, method, using, toServer, toClient, open, serving>>
        /\ got'[c] = Append(got[c], inHand[c]) /\ pc'[c] = "receive"
        /\ \A d \in Callers : d # c => pc'[d] = pc[d] /\ got'[d] = got[d] /\ inHand'[d] = inHand[d]
    BY <1>11 DEF Deliver, clientVars, netVars, at, RemoteTypes, CallTypes, Holders
  <2>2. mu = {c} /\ \A d \in Callers : d # c => pc[d] \notin Holding
    BY <1>1, <2>1, OneHolder DEF Holding
  <2>3. /\ method[c] = "stream" /\ inHand[c] = <<c, Len(got[c]) + 1>>
        /\ got[c] = Answer(c, Len(got[c])) /\ got[c] \in Seq(Callers \X Nat)
    BY SMTT(30), <2>1 DEF InOrder, Given, RemoteTypes, CallTypes
  <2>4. got'[c] = Answer(c, Len(got'[c]))
    BY SMTT(30), <2>1, <2>3, AnswerGrows
  <2>5. Len(got'[c]) = Len(got[c]) + 1
    BY <2>1, <2>3
  <2>6. taken(c)' = taken(c)
    BY <2>1, <2>3, <2>5 DEF taken
  <2>7. ASSUME NEW d \in Callers PROVE Given(d)'
    <3>1. CASE d = c
      BY Zenon, <2>1, <2>3, <2>4, <3>1 DEF Given
    <3>2. CASE d # c
      BY <2>1, <3>2, GivenKept DEF InOrder
    <3>3. QED
      BY <3>1, <3>2
  <2>8. conn # None => Flow(c, conn)'
    BY Zenon, <1>2, <2>1, <2>6, FlowKept DEF InOrder, Awaiting
  <2>9. QED
    BY Zenon, <2>1, <2>2, <2>7, <2>8 DEF InOrder, Holding, Awaiting
<1>12. CASE Close
  <2>1. /\ conn' = None /\ open' \subseteq open
        /\ UNCHANGED <<mu, pc, method, got, using, inHand, toServer, toClient, serving>>
    BY <1>12 DEF Close, callVars
  <2>2. \A d \in Callers : taken(d)' = taken(d)
    BY <2>1 DEF taken
  <2>3. ASSUME NEW d \in Callers, NEW k \in Conns, Flow(d, k) PROVE Flow(d, k)'
    BY <2>1, <2>2, <2>3, FlowKept
  <2>4. ASSUME NEW d \in Callers PROVE Given(d)'
    BY <2>1, GivenKept DEF InOrder
  <2>5. QED
    BY Zenon, <1>3, <2>1, <2>3, <2>4 DEF InOrder
<1>13. ASSUME NEW k \in Conns, Serve(k) PROVE InOrder'
  <2>1. UNCHANGED <<conn, mu, pc, method, got, using, inHand>>
    BY <1>13 DEF Serve, ServerReads, ServerResponds, ServerStreams, clientVars, callVars
  <2>2. ASSUME NEW d \in Callers PROVE Given(d)'
    BY Zenon, <2>1, GivenKept DEF InOrder
  <2>3. ASSUME NEW d \in Callers, NEW j \in Conns, Flow(d, j) PROVE Flow(d, j)'
    BY <1>13, <2>3, ServeFlow
  <2>4. ASSUME NEW j \in Conns, Quiet(j) PROVE Quiet(j)'
    BY <1>13, <2>4, ServeQuiet
  <2>5. QED
    BY Zenon, <1>2, <1>3, <2>1, <2>2, <2>3, <2>4 DEF InOrder
<1>14. ASSUME UNCHANGED <<conn, mu, pc, method, got, using, inHand, toServer, toClient, serving>>,
              open' \subseteq open
       PROVE  InOrder'
  <2>1. \A d \in Callers : taken(d)' = taken(d)
    BY <1>14 DEF taken
  <2>2. ASSUME NEW d \in Callers, NEW k \in Conns, Flow(d, k) PROVE Flow(d, k)'
    BY Zenon, <1>14, <2>1, <2>2, FlowKept
  <2>3. ASSUME NEW k \in Conns, Quiet(k) PROVE Quiet(k)'
    BY <1>14, <2>3, QuietKept
  <2>4. ASSUME NEW d \in Callers PROVE Given(d)'
    BY Zenon, <1>14, GivenKept DEF InOrder
  <2>5. QED
    BY Zenon, <1>2, <1>3, <1>14, <2>2, <2>3, <2>4 DEF InOrder
<1>15. ASSUME NEW k \in Conns, ServerCloses(k) PROVE InOrder'
  BY <1>14, <1>15 DEF ServerCloses, clientVars, callVars
<1>16. CASE UNCHANGED vars
  BY <1>14, <1>16 DEF vars, clientVars, callVars, netVars
<1>17. ASSUME NEW c \in Callers, Abandon(c) PROVE FALSE
  BY <1>17 DEF Abandon
<1>18. QED
  BY <1>4, <1>5, <1>6, <1>7, <1>8, <1>9, <1>10, <1>11, <1>12, <1>13, <1>15, <1>16, <1>17
     DEF Next, Exchange

\* The history flags stay set.
LEMMA HistoryKept ==
    ASSUME [Next]_vars, ~abandoned', ~replaced' PROVE ~abandoned /\ ~replaced
<1>1. ASSUME NEW c \in Callers, Connect(c) PROVE ~abandoned /\ ~replaced
  <2>1. replaced' = (replaced \/ mu # {}) /\ abandoned' = abandoned
    BY <1>1 DEF Connect
  <2>2. QED
    BY Zenon, <2>1
<1>2. ASSUME NEW c \in Callers, Abandon(c) PROVE FALSE
  BY <1>2 DEF Abandon
<1>3. CASE UNCHANGED history
  BY <1>3 DEF history
<1>4. QED
  BY Zenon, <1>1, <1>2, <1>3
     DEF Next, Exchange, Serve, Call, ConnectFails, Lock, SendFramed, BeginReceive, Receive,
         ReceiveFails, Deliver, Cancel, Close, ServerReads, ServerResponds, ServerStreams,
         ServerCloses, vars

\* However many callers share a RemoteAgent, however long the streams and however
\* often the connection is made again, a call is given messages of its own answer
\* only, in order and, once answered, all of them, until a stream is abandoned or
\* the connection is replaced while in use (Process and Stream under r.mu).
THEOREM AnswersOwn == ASSUME RemoteAssumption PROVE Spec => []OwnAnswer
<1>1. Init => RemoteInv
  <2> SUFFICES ASSUME Init PROVE RemoteInv
    OBVIOUS
  <2>1. RemoteTypes
    BY DEF Init, RemoteTypes, Holders, CallTypes, Wires, Holding, Ended, None, Conns, RemoteAssumption
  <2>2. ASSUME NEW c \in Callers PROVE Given(c)
    BY DEF Init, Given, Answer
  <2>3. QED
    BY <2>1, <2>2 DEF Init, RemoteInv, InOrder, Awaiting
<1>2. RemoteInv /\ [Next]_vars => RemoteInv'
  <2> SUFFICES ASSUME RemoteInv, [Next]_vars PROVE RemoteInv'
    OBVIOUS
  <2>1. RemoteTypes
    BY DEF RemoteInv
  <2>2. RemoteTypes'
    BY <2>1, HoldersStep, CallTypesStep, WiresStep DEF RemoteTypes
  <2>3. ASSUME ~abandoned', ~replaced' PROVE InOrder'
    <3>1. InOrder
      BY <2>3, HistoryKept DEF RemoteInv
    <3>2. QED
      BY <2>1, <2>3, <3>1, InOrderStep
  <2>4. QED
    BY <2>2, <2>3 DEF RemoteInv
<1>3. RemoteInv => OwnAnswer
  <2> SUFFICES ASSUME RemoteInv, ~abandoned, ~replaced, NEW c \in Callers
               PROVE  /\ method[c] = "process" => got[c] \in {<<>>, << <<c, 0>> >>}
                      /\ method[c] = "stream" => got[c] = [i \in 1 .. Len(got[c]) |-> <<c, i>>]
                      /\ pc[c] = "answered" /\ method[c] = "stream" => Len(got[c]) = Chunks
    BY Zenon DEF OwnAnswer
  <2>1. Given(c)
    BY DEF RemoteInv, InOrder
  <2>2. QED
    BY Zenon, <2>1 DEF Given, Answer
<1>4. QED
  BY <1>1, <1>2, <1>3, PTL DEF Spec

-----------------------------------------------------------------------------
(* The registry. *)

CONSTANTS Agents, heartbeatTimeout, MaxWait
VARIABLES agents, age, heartbeats, waiting, waited, pruneTask, pruneDone, stop
R == INSTANCE Registry

\* The readings of the clock are as old as they say.
Readings == age \in [Agents -> Nat] /\ waited \in [R!Pruners -> Nat] /\ agents \subseteq Agents

\* Whatever the timeout, and however long a pruner waits for r.mu after it read the
\* clock, an agent is pruned only when its last heartbeat is older than the timeout
\* at that moment (PruneStaleAgents).
THEOREM PrunedOnlyWhenStale == ASSUME R!RegistryAssumption PROVE R!Spec => [][R!PruneStep]_(R!vars)
<1>1. R!Init => Readings
  BY DEF R!Init, Readings
<1>2. Readings /\ [R!Next]_(R!vars) => Readings'
  <2> SUFFICES ASSUME Readings, [R!Next]_(R!vars) PROVE Readings'
    OBVIOUS
  <2> USE DEF Readings
  <2>1. ASSUME NEW a \in Agents, NEW new \in BOOLEAN, R!Register(a, new) PROVE Readings'
    BY <2>1 DEF R!Register
  <2>2. ASSUME NEW a \in Agents, R!Unregister(a) \/ R!Heartbeat(a) PROVE Readings'
    BY <2>2 DEF R!Unregister, R!Heartbeat
  <2>3. ASSUME NEW p \in R!Pruners, R!ReadClock(p) PROVE Readings'
    BY <2>3 DEF R!ReadClock
  <2>4. ASSUME NEW p \in R!Pruners, R!PruneStaleAgents(p) PROVE Readings'
    BY <2>4 DEF R!PruneStaleAgents
  <2>5. CASE R!Tick
    BY <2>5 DEF R!Tick
  <2>6. CASE UNCHANGED <<agents, age, waited>>
    BY <2>6
  <2>7. QED
    BY <2>1, <2>2, <2>3, <2>4, <2>5, <2>6
       DEF R!Next, R!pruneLoop, R!Stop, R!Pruners, R!StartHeartbeats, R!HeartbeatsEnd, R!LoopEnds,
           R!Start, R!ParentCancelled, R!StopCalled, R!StopCancels, R!StopReturns, R!vars
<1>3. Readings /\ [R!Next]_(R!vars) => [R!PruneStep]_(R!vars)
  <2> SUFFICES ASSUME Readings, NEW a \in agents \ agents', NEW p \in R!Pruners, R!PruneStaleAgents(p)
               PROVE  age[a] > heartbeatTimeout
    BY DEF R!PruneStep
  <2>1. R!stale(a, p)
    BY DEF R!PruneStaleAgents
  <2>2. age[a] \in Nat /\ waited[p] \in Nat /\ age[a] - waited[p] > heartbeatTimeout
    BY <2>1 DEF R!stale, Readings
  <2>3. QED
    BY <2>2 DEF R!RegistryAssumption
<1>4. QED
  BY <1>1, <1>2, <1>3, PTL DEF R!Spec

-----------------------------------------------------------------------------
(* The WebSocket transport. *)

CONSTANTS MaxCalls, MaxChunks, QueueCap

VARIABLES reconnectMu, made, started, stopped, loop, selecting, op, closer, awaited, direct,
          kind, framed, calls, done, served, answer, queue, pending, reader, closed, clean

WS == INSTANCE Transports

\* A caller that reconnects has reconnectMu, and the connection it found lost is
\* still lost unless Connect has put one in its place.
Reconnecting ==
    /\ pc \in [Callers -> {"idle", "ensure", "reconnect", "dial", "start", "lock", "reading"}]
    /\ op \in [Callers -> {"none", "connect", "send", "receive"}]
    /\ \A c \in Callers : pc[c] \in {"dial", "start"} /\ op[c] # "connect" => reconnectMu = c
    /\ \A c \in Callers : pc[c] = "dial" /\ op[c] # "connect" /\ WS!IsConnected => direct

\* However many callers share the transport and find the connection lost at once, one
\* that works is replaced only by Connect, or by a reconnection that Connect overtook
\* (ensureConnected and connectWithRetry).
THEOREM ReplacedOnlyWhenLost ==
    ASSUME WS!SocketAssumption PROVE WS!SocketSpec => [][WS!ReplaceStep]_(WS!socketVars)
<1> USE DEF WS!SocketAssumption
<1>1. WS!SocketInit => Reconnecting
  BY DEF WS!SocketInit, Reconnecting, WS!IsConnected
<1>2. Reconnecting /\ [WS!SocketNext]_(WS!socketVars) => Reconnecting'
  <2> SUFFICES ASSUME Reconnecting, [WS!SocketNext]_(WS!socketVars) PROVE Reconnecting'
    OBVIOUS
  <2> USE DEF Reconnecting, WS!IsConnected, WS!connection, WS!goto, WS!return
  <2>1. ASSUME NEW c \in Callers, NEW o \in {"connect", "send", "receive"}, WS!Call(c, o)
        PROVE  Reconnecting'
    BY <2>1 DEF WS!Call
  <2>2. ASSUME NEW c \in Callers, WS!EnsureConnected(c) PROVE Reconnecting'
    BY <2>2 DEF WS!EnsureConnected
  <2>3. ASSUME NEW c \in Callers, WS!Reconnect(c) PROVE Reconnecting'
    <3>1. \A d \in Callers : pc[d] \in {"dial", "start"} => op[d] = "connect"
      BY <2>3 DEF WS!Reconnect
    <3>2. CASE conn # 0 /\ connected
      BY <2>3, <3>2 DEF WS!Reconnect
    <3>3. CASE ~(conn # 0 /\ connected)
      BY <2>3, <3>1, <3>3 DEF WS!Reconnect
    <3>4. QED
      BY <3>2, <3>3
  <2>4. ASSUME NEW c \in Callers, WS!Dial(c) PROVE Reconnecting'
    <3>1. direct' = (direct \/ (op[c] = "connect" /\ reconnectMu # "free"))
      BY <2>4 DEF WS!Dial
    <3>2. (op[c] = "connect" /\ reconnectMu # "free" => direct')
      BY Zenon, <3>1
    <3>3. /\ UNCHANGED <<reconnectMu, op>> /\ pc' = [pc EXCEPT ![c] = "start"] /\ pc[c] = "dial"
      BY <2>4 DEF WS!Dial
    <3>4. ASSUME NEW d \in Callers, pc'[d] \in {"dial", "start"}, op'[d] # "connect"
          PROVE  reconnectMu' = d
      BY <3>3, <3>4
    <3>5. ASSUME NEW d \in Callers, pc'[d] = "dial", op'[d] # "connect" PROVE direct'
      <4>1. d # c /\ pc[d] = "dial" /\ op[d] # "connect" /\ reconnectMu = d
        BY <3>3, <3>5
      <4>2. op[c] = "connect"
        BY <3>3, <4>1
      <4>3. QED
        BY <3>2, <4>1, <4>2
    <3>6. QED
      BY <3>2, <3>3, <3>4, <3>5
  <2>5. ASSUME NEW c \in Callers, WS!DialFails(c) PROVE Reconnecting'
    BY <2>5 DEF WS!DialFails, WS!unlocked
  <2>6. ASSUME NEW c \in Callers, WS!StartPingLoop(c) PROVE Reconnecting'
    BY SMTT(30), <2>6 DEF WS!StartPingLoop, WS!unlocked
  <2>7. ASSUME NEW c \in Callers, WS!Send(c) \/ WS!SendFails(c) \/ WS!Receive(c) \/ WS!ReceiveFails(c)
        PROVE  Reconnecting'
    BY <2>7 DEF WS!Send, WS!SendFails, WS!Receive, WS!ReceiveFails
  <2>8. ASSUME NEW c \in Callers, WS!BeginReceive(c) PROVE Reconnecting'
    BY SMTT(30), <2>8 DEF WS!BeginReceive
  <2>9. ASSUME NEW i \in WS!Loops, WS!LoopSteps(i) PROVE Reconnecting'
    BY <2>9 DEF WS!LoopSteps, WS!Tick, WS!LoopStopped, WS!LoadConn, WS!Ping, WS!PingFails, WS!Disconnected
  <2>10. CASE WS!CloseCalled \/ WS!CloseBegins \/ WS!CloseEnds
    BY <2>10 DEF WS!CloseCalled, WS!CloseBegins, WS!CloseEnds
  <2>11. CASE UNCHANGED WS!socketVars
    BY <2>11 DEF WS!socketVars
  <2>12. QED
    BY Zenon, <2>1, <2>2, <2>3, <2>4, <2>5, <2>6, <2>7, <2>8, <2>9, <2>10, <2>11
       DEF WS!SocketNext, WS!CallerSteps
<1>3. Reconnecting /\ [WS!SocketNext]_(WS!socketVars) => [WS!ReplaceStep]_(WS!socketVars)
  <2> SUFFICES ASSUME Reconnecting, [WS!SocketNext]_(WS!socketVars), conn # 0, conn' \notin {0, conn},
                      connected, ~direct
               PROVE  \E c \in Callers : op[c] = "connect" /\ pc[c] # pc'[c]
    BY DEF WS!ReplaceStep
  <2>1. PICK c \in Callers : WS!Dial(c)
    BY Zenon DEF WS!SocketNext, WS!CallerSteps, WS!LoopSteps, WS!Call, WS!EnsureConnected, WS!Reconnect,
           WS!DialFails, WS!StartPingLoop, WS!Send, WS!SendFails, WS!BeginReceive, WS!Receive,
           WS!ReceiveFails, WS!Tick, WS!LoopStopped, WS!LoadConn, WS!Ping, WS!PingFails,
           WS!Disconnected, WS!CloseCalled, WS!CloseBegins, WS!CloseEnds, WS!socketVars, WS!connection
  <2>2. op[c] = "connect" /\ pc[c] = "dial" /\ pc'[c] = "start"
    BY <2>1 DEF WS!Dial, WS!goto, Reconnecting, WS!IsConnected
  <2>3. QED
    BY <2>2
<1>4. QED
  BY <1>1, <1>2, <1>3, PTL DEF WS!SocketSpec

=============================================================================
