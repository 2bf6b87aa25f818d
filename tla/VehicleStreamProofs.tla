------------------------ MODULE VehicleStreamProofs -------------------------
(***************************************************************************)
(* Proofs about VehicleStream, for every number of browsers, channel size, *)
(* feed and night: the types, with which no closed channel is sent to; that*)
(* no browser goes back; and that one is behind only if it was passed by.  *)
(*                                                                         *)
(* The payloads of a browser, the one shown and those in its channel, are  *)
(* in the order of their publications (Ordered); one that is registered has*)
(* seen what was read before that (Greeted).                               *)
(***************************************************************************)
EXTENDS VehicleStream, SequenceTheorems, TLAPS

QueueOK == queue \in [Clients -> Seq(Payloads)]

\* Nobody is connected before the server listens, and the channel of who is
\* not yet registered is empty.
Quiescent ==
  /\ pc = "start" => ~serving
  /\ ~serving => \A c \in Clients : at[c] = "away"
  /\ pc = "broadcast" => current # Nil
  /\ pc = "compare" => fetched > 0
  /\ \A c \in Clients :
       /\ at[c] \in {"away", "greet"} => shown[c] = Nil
       /\ at[c] \in {"away", "greet", "subscribe"} => queue[c] = <<>>

\* Publications are numbered: the last number is that of current.
Numbered(p, n, last) == p.n <= n /\ (p.n = n => p = last)

Ordered ==
  /\ current # Nil => current.n = count
  /\ \A c \in Clients :
       /\ shown[c] # Nil => Numbered(shown[c], count, current)
       /\ \A i \in DOMAIN queue[c] :
            /\ Numbered(queue[c][i], count, current)
            /\ shown[c] # Nil => shown[c].n <= queue[c][i].n
            /\ \A j \in DOMAIN queue[c] : i <= j => queue[c][i].n <= queue[c][j].n

Greeted ==
  \A c \in Clients :
    at[c] = "subscribe" => shown[c] = current \/ pc = "broadcast" \/ c \in missed

IInv == TypeOK /\ QueueOK /\ Quiescent /\ Ordered /\ Greeted /\ BehindOnlyIfMissed

-----------------------------------------------------------------------------
(* Channels.                                                               *)

\* The channel after a payload is sent, and after one is received.
LEMMA Sent ==
  ASSUME NEW q \in Seq(Payloads), NEW p \in Payloads
  PROVE  /\ Append(q, p) \in Seq(Payloads)
         /\ Len(Append(q, p)) = Len(q) + 1
         /\ DOMAIN Append(q, p) = 1..(Len(q) + 1)
         /\ \A i \in 1..Len(q) : Append(q, p)[i] = q[i]
         /\ Append(q, p)[Len(q) + 1] = p
         /\ Append(q, p) # <<>>
  <1>1. Append(q, p) \in Seq(Payloads) /\ Len(Append(q, p)) = Len(q) + 1
    OBVIOUS
  <1>2. Len(q) \in Nat /\ Len(<<>>) = 0
    OBVIOUS
  <1>3. Append(q, p) # <<>>
    BY <1>1, <1>2
  <1> QED
    BY <1>1, <1>3

LEMMA Received ==
  ASSUME NEW q \in Seq(Payloads), q # <<>>
  PROVE  /\ Len(q) \in Nat \ {0}
         /\ Head(q) = q[1]
         /\ Head(q) \in Payloads
         /\ Tail(q) \in Seq(Payloads)
         /\ Len(Tail(q)) = Len(q) - 1
         /\ \A i \in 1..(Len(q) - 1) : Tail(q)[i] = q[i + 1]
         /\ Tail(q) = <<>> <=> Len(q) = 1
  <1>1. Len(q) \in Nat \ {0} /\ Head(q) = q[1] /\ Head(q) \in Payloads
    OBVIOUS
  <1>2. Tail(q) \in Seq(Payloads) /\ Len(Tail(q)) = Len(q) - 1
    OBVIOUS
  <1>3. \A i \in 1..(Len(q) - 1) : Tail(q)[i] = q[i + 1]
    OBVIOUS
  <1>4. Tail(q) = <<>> <=> Len(q) = 1
    BY <1>1, <1>2
  <1> QED
    BY <1>1, <1>2, <1>3, <1>4

LEMMA NilNoPayload == \A p \in Payloads : p # Nil
  BY StreamAssumption

\* The payloads of a sequence are a set of payloads.
LEMMA QueueRange ==
  ASSUME NEW q \in Seq(Payloads)
  PROVE  Range(q) \subseteq Payloads
  <1>1. \A i \in DOMAIN q : q[i] \in Payloads
    OBVIOUS
  <1> QED
    BY <1>1 DEF Range

-----------------------------------------------------------------------------
(* Types.                                                                  *)

LEMMA InitTypes == Init => TypeOK /\ QueueOK
  <1> SUFFICES ASSUME Init PROVE TypeOK /\ QueueOK
    OBVIOUS
  <1>1. QueueOK
    BY DEF Init, QueueOK
  <1>2. \A c \in Clients : queue[c] = <<>> /\ queue[c] \in Seq(Payloads)
    BY DEF Init
  <1>3. \A c \in Clients : Len(queue[c]) = 0 /\ Range(queue[c]) \subseteq Payloads
    BY <1>2, QueueRange
  <1>4. subs = {c \in Clients : at[c] = "loop"}
    BY DEF Init
  <1>5. Buffer \in Nat /\ MaxTime \in Nat /\ MaxNights \in Nat
    BY StreamAssumption
  <1>6. /\ feed \in 0..MaxTime /\ quiet \in BOOLEAN /\ nights \in 0..MaxNights
        /\ fetched \in 0..MaxTime /\ ts \in 0..MaxTime /\ count \in Nat
    BY <1>5 DEF Init
  <1>7. /\ at \in [Clients -> {"away", "greet", "subscribe", "loop", "close"}]
        /\ shown \in [Clients -> Payloads \cup {Nil}]
    BY DEF Init
  <1>8. \A c \in Clients : Len(queue[c]) <= Buffer
    BY <1>3, <1>5
  <1> QED
    BY <1>1, <1>3, <1>4, <1>6, <1>7, <1>8 DEF Init, TypeOK

\* What a publication leaves in current.
LEMMA PublishTypes ==
  ASSUME TypeOK, NEW what \in 1..MaxTime \cup {Sleep}, Publish(what)
  PROVE  current' \in Payloads /\ count' = count + 1 /\ current'.n = count' /\ count' \in Nat
  BY DEF TypeOK, Publish, Payloads

LEMMA NextTypes == TypeOK /\ QueueOK /\ Quiescent /\ [Next]_vars => TypeOK' /\ QueueOK'
  <1> SUFFICES ASSUME TypeOK, QueueOK, Quiescent, [Next]_vars PROVE TypeOK' /\ QueueOK'
    OBVIOUS
  <1> USE StreamAssumption
  <1>ch. queue' \in [Clients -> Seq(Payloads)] /\ (\A c \in Clients : Len(queue'[c]) <= Buffer)
         => QueueOK' /\ \A c \in Clients : Len(queue'[c]) <= Buffer /\ Range(queue'[c]) \subseteq Payloads
    BY QueueRange DEF QueueOK
  <1>same. UNCHANGED queue => QueueOK' /\ \A c \in Clients : Len(queue'[c]) <= Buffer /\ Range(queue'[c]) \subseteq Payloads
    BY <1>ch DEF QueueOK, TypeOK
  <1>1. CASE StartAsleep \/ FallAsleep
    <2>1. Publish(Sleep)
      BY <1>1 DEF StartAsleep, FallAsleep
    <2>2. current' \in Payloads /\ count' \in Nat
      BY <2>1, PublishTypes
    <2> QED
      BY <1>1, <2>2, <1>same DEF StartAsleep, FallAsleep, TypeOK, world, clients
  <1>2. CASE Store
    <2>1. fetched \in 1..MaxTime
      BY <1>2 DEF Store, TypeOK, Quiescent
    <2>2. current' \in Payloads /\ count' \in Nat
      BY <1>2, <2>1, PublishTypes DEF Store
    <2> QED
      BY <1>2, <2>1, <2>2, <1>same DEF Store, TypeOK, world, clients
  <1>3. CASE Fetch \/ FetchFails \/ NothingNew \/ Listen
    BY <1>3, <1>same DEF Fetch, FetchFails, NothingNew, Listen, TypeOK, world, clients
  <1>4. CASE Broadcast
    <2>1. current \in Payloads
      BY <1>4 DEF Broadcast, Quiescent, TypeOK
    <2>2. \A c \in Clients : queue'[c] \in Seq(Payloads) /\ Len(queue'[c]) <= Buffer
      <3> SUFFICES ASSUME NEW c \in Clients
                   PROVE  queue'[c] \in Seq(Payloads) /\ Len(queue'[c]) <= Buffer
        OBVIOUS
      <3>1. queue[c] \in Seq(Payloads) /\ Len(queue[c]) <= Buffer
        BY DEF QueueOK, TypeOK
      <3>2. CASE c \in subs /\ ~Full(c)
        BY <1>4, <3>1, <3>2, <2>1, Sent DEF Broadcast, Full
      <3>3. CASE ~(c \in subs /\ ~Full(c))
        BY <1>4, <3>1, <3>3 DEF Broadcast
      <3> QED
        BY <3>2, <3>3
    <2>3. queue' \in [Clients -> Seq(Payloads)]
      BY <1>4, <2>2 DEF Broadcast
    <2> QED
      BY <1>4, <2>2, <2>3, <1>ch DEF Broadcast, TypeOK, world, clients
  <1>5. ASSUME NEW c \in Clients, Connect(c) \/ Greet(c) \/ Subscribe(c) \/ Leave(c)
        PROVE  TypeOK' /\ QueueOK'
    BY <1>5, <1>same DEF Connect, Greet, Subscribe, Leave, TypeOK, world, stream
  <1>6. ASSUME NEW c \in Clients, Receive(c)
        PROVE  TypeOK' /\ QueueOK'
    <2>1. queue[c] \in Seq(Payloads) /\ queue[c] # <<>>
      BY <1>6 DEF QueueOK, Receive
    <2>2. queue' \in [Clients -> Seq(Payloads)] /\ \A d \in Clients : Len(queue'[d]) <= Buffer
      BY <1>6, <2>1, Received DEF Receive, QueueOK, TypeOK
    <2>3. shown' \in [Clients -> Payloads \cup {Nil}]
      BY <1>6, <2>1, Received DEF Receive, TypeOK
    <2> QED
      BY <1>6, <2>2, <2>3, <1>ch DEF Receive, TypeOK, world, stream
  <1>7. ASSUME NEW c \in Clients, Close(c)
        PROVE  TypeOK' /\ QueueOK'
    <2>1. queue' \in [Clients -> Seq(Payloads)] /\ \A d \in Clients : Len(queue'[d]) <= Buffer
      BY <1>7 DEF Close, QueueOK, TypeOK
    <2> QED
      BY <1>7, <2>1, <1>ch DEF Close, TypeOK, world, stream
  <1>8. CASE Upstream \/ Night \/ Morning
    <2>1. feed' \in 0..MaxTime /\ quiet' \in BOOLEAN /\ nights' \in 0..MaxNights
      <3>1. /\ MaxTime \in Nat /\ MaxNights \in Nat /\ quiet \in BOOLEAN
            /\ feed \in 0..MaxTime /\ nights \in 0..MaxNights
        BY DEF TypeOK
      <3>2. CASE Upstream
        BY <3>1, <3>2 DEF Upstream
      <3>3. CASE Night
        BY <3>1, <3>3 DEF Night
      <3>4. CASE Morning
        BY <3>1, <3>4 DEF Morning
      <3> QED
        BY <1>8, <3>2, <3>3, <3>4
    <2>2. UNCHANGED <<stream, subs, clients, queue, missed>>
      BY <1>8 DEF Upstream, Night, Morning
    <2> QED
      BY <2>1, <2>2, <1>same DEF TypeOK, stream, clients
  <1>9. CASE UNCHANGED vars
    BY <1>9, <1>same DEF vars, world, stream, clients, TypeOK
  <1> QED
    BY <1>1, <1>2, <1>3, <1>4, <1>5, <1>6, <1>7, <1>8, <1>9 DEF Next, Poller, Handler

-----------------------------------------------------------------------------
(* Who is connected, and what a payload's number tells.                    *)

LEMMA NextQuiescent == TypeOK /\ QueueOK /\ Quiescent /\ [Next]_vars => Quiescent'
  <1> SUFFICES ASSUME TypeOK, QueueOK, Quiescent, [Next]_vars PROVE Quiescent'
    OBVIOUS
  <1>1. CASE StartAsleep \/ FallAsleep \/ Store
    <2>1. current' # Nil
      <3>1. Store => fetched \in 1..MaxTime
        BY DEF Store, TypeOK, Quiescent
      <3>2. PICK what \in 1..MaxTime \cup {Sleep} : Publish(what)
        BY <1>1, <3>1 DEF StartAsleep, FallAsleep, Store
      <3> QED
        BY <3>2, NilNoPayload, PublishTypes
    <2> QED
      BY <1>1, <2>1 DEF StartAsleep, FallAsleep, Store, Quiescent, world, clients
  <1>2. CASE Fetch \/ FetchFails \/ NothingNew \/ Listen
    BY <1>2 DEF Fetch, FetchFails, NothingNew, Listen, Quiescent, TypeOK, world, clients
  <1>3. CASE Broadcast
    <2>1. \A c \in Clients : at[c] \in {"away", "greet", "subscribe"} => queue'[c] = <<>>
      BY <1>3 DEF Broadcast, Quiescent, TypeOK
    <2> QED
      BY <1>3, <2>1 DEF Broadcast, Quiescent, world, clients
  <1>4. ASSUME NEW c \in Clients, Connect(c) \/ Greet(c) \/ Subscribe(c) \/ Leave(c)
        PROVE  Quiescent'
    BY <1>4 DEF Connect, Greet, Subscribe, Leave, Quiescent, TypeOK, world, stream
  <1>5. ASSUME NEW c \in Clients, Receive(c) \/ Close(c)
        PROVE  Quiescent'
    BY <1>5 DEF Receive, Close, Quiescent, TypeOK, QueueOK, world, stream
  <1>6. CASE Upstream \/ Night \/ Morning \/ UNCHANGED vars
    BY <1>6 DEF Upstream, Night, Morning, Quiescent, vars, world, stream, clients
  <1> QED
    BY <1>1, <1>2, <1>3, <1>4, <1>5, <1>6 DEF Next, Poller, Handler

\* Steps that publish, send and show nothing keep the order.
LEMMA SameOrder ==
  ASSUME Ordered, UNCHANGED <<current, count, shown, queue>>
  PROVE  Ordered'
  BY DEF Ordered, Numbered

\* A publication: every payload that there is has a smaller number.
LEMMA PublishOrdered ==
  ASSUME TypeOK, QueueOK, Ordered, NEW what \in 1..MaxTime \cup {Sleep}, Publish(what),
         UNCHANGED <<shown, queue>>
  PROVE  Ordered'
  <1>1. count \in Nat /\ count' = count + 1 /\ current'.n = count'
    BY PublishTypes DEF TypeOK
  <1>2. \A p \in Payloads : Numbered(p, count, current) => Numbered(p, count', current')
    BY <1>1 DEF Numbered, Payloads
  <1>3. ASSUME NEW c \in Clients, shown[c] # Nil PROVE Numbered(shown[c], count', current')
    BY <1>2, <1>3 DEF Ordered, TypeOK, Numbered
  <1>4. ASSUME NEW c \in Clients, NEW i \in DOMAIN queue[c] PROVE Numbered(queue[c][i], count', current')
    <2>1. queue[c][i] \in Payloads
      BY DEF QueueOK
    <2> QED
      BY <1>2, <2>1 DEF Ordered, Numbered
  <1> QED
    BY <1>1, <1>3, <1>4 DEF Ordered, Numbered

LEMMA BroadcastOrdered ==
  ASSUME TypeOK, QueueOK, Quiescent, Ordered, Broadcast
  PROVE  Ordered'
  <1>1. current \in Payloads /\ current # Nil /\ current.n = count /\ count \in Nat
    BY DEF Broadcast, Quiescent, TypeOK, Ordered
  <1>2. UNCHANGED <<current, count, shown>>
    BY DEF Broadcast, clients
  <1> SUFFICES ASSUME NEW c \in Clients
               PROVE  \A i \in DOMAIN queue'[c] :
                        /\ Numbered(queue'[c][i], count', current')
                        /\ shown[c] # Nil => shown[c].n <= queue'[c][i].n
                        /\ \A j \in DOMAIN queue'[c] : i <= j => queue'[c][i].n <= queue'[c][j].n
    BY <1>1, <1>2 DEF Ordered, Numbered
  <1>3. CASE c \in subs /\ ~Full(c)
    <2> DEFINE q == queue[c]
    <2>1. q \in Seq(Payloads) /\ queue'[c] = Append(q, current) /\ Len(q) \in Nat
      BY <1>3 DEF QueueOK, Broadcast
    <2>2. \A i \in 1..Len(q) :
            /\ q[i] \in Payloads
            /\ Numbered(q[i], count, current)
            /\ shown[c] # Nil => shown[c].n <= q[i].n
            /\ \A j \in 1..Len(q) : i <= j => q[i].n <= q[j].n
      BY <2>1 DEF Ordered
    <2>3. shown[c] # Nil => Numbered(shown[c], count, current)
      BY DEF Ordered
    <2> HIDE DEF q
    <2>4. /\ DOMAIN queue'[c] = 1..(Len(q) + 1)
          /\ \A i \in 1..Len(q) : queue'[c][i] = q[i]
          /\ queue'[c][Len(q) + 1] = current
      BY <1>1, <2>1, Sent
    <2>5. \A i \in DOMAIN queue'[c] : i \in 1..Len(q) \/ i = Len(q) + 1
      BY <2>1, <2>4
    <2>6. \A i \in 1..Len(q) : q[i].n <= current.n
      BY <1>1, <2>2 DEF Numbered
    <2>7. \A i \in DOMAIN queue'[c] : Numbered(queue'[c][i], count', current')
      BY <1>1, <1>2, <2>2, <2>4, <2>5 DEF Numbered
    <2>8. \A i \in DOMAIN queue'[c] : shown[c] # Nil => shown[c].n <= queue'[c][i].n
      BY <1>1, <2>2, <2>3, <2>4, <2>5 DEF Numbered
    <2>9. ASSUME NEW i \in DOMAIN queue'[c], NEW j \in DOMAIN queue'[c], i <= j
          PROVE  queue'[c][i].n <= queue'[c][j].n
      <3>1. CASE j \in 1..Len(q)
        <4>1. i \in 1..Len(q)
          BY <2>1, <2>4, <2>9, <3>1
        <4> QED
          BY <2>2, <2>4, <2>9, <3>1, <4>1
      <3>2. CASE j = Len(q) + 1 /\ i \in 1..Len(q)
        BY <2>4, <2>6, <3>2
      <3>3. CASE j = Len(q) + 1 /\ i = Len(q) + 1
        BY <1>1, <2>4, <3>3
      <3> QED
        BY <2>5, <3>1, <3>2, <3>3
    <2> QED
      BY <2>7, <2>8, <2>9
  <1>4. CASE ~(c \in subs /\ ~Full(c))
    <2>1. queue'[c] = queue[c]
      BY <1>4 DEF Broadcast
    <2> QED
      BY <1>2, <2>1 DEF Ordered, Numbered
  <1> QED
    BY <1>3, <1>4

LEMMA ReceiveOrdered ==
  ASSUME TypeOK, QueueOK, Ordered, NEW c \in Clients, Receive(c)
  PROVE  /\ Ordered'
         /\ shown[c] # Nil => shown[c].n <= shown'[c].n
  <1> DEFINE q == queue[c]
  <1>1. q \in Seq(Payloads) /\ q # <<>>
    BY DEF QueueOK, Receive
  <1>2. /\ shown'[c] = Head(q) /\ queue'[c] = Tail(q)
        /\ \A d \in Clients \ {c} : shown'[d] = shown[d] /\ queue'[d] = queue[d]
        /\ UNCHANGED <<current, count>>
    BY DEF Receive, TypeOK, QueueOK, stream
  <1>3. \A i \in 1..Len(q) :
          /\ Numbered(q[i], count, current)
          /\ shown[c] # Nil => shown[c].n <= q[i].n
          /\ \A j \in 1..Len(q) : i <= j => q[i].n <= q[j].n
    BY <1>1 DEF Ordered
  <1>4. ASSUME NEW d \in Clients \ {c}
        PROVE  /\ shown'[d] # Nil => Numbered(shown'[d], count', current')
               /\ \A i \in DOMAIN queue'[d] :
                    /\ Numbered(queue'[d][i], count', current')
                    /\ shown'[d] # Nil => shown'[d].n <= queue'[d][i].n
                    /\ \A j \in DOMAIN queue'[d] : i <= j => queue'[d][i].n <= queue'[d][j].n
    BY <1>2 DEF Ordered, Numbered
  <1> HIDE DEF q
  <1>5. /\ Len(q) \in Nat \ {0} /\ Head(q) = q[1] /\ Tail(q) \in Seq(Payloads)
        /\ Len(Tail(q)) = Len(q) - 1
        /\ \A i \in 1..(Len(q) - 1) : Tail(q)[i] = q[i + 1]
    BY <1>1, Received
  <1>6. DOMAIN Tail(q) = 1..(Len(q) - 1)
    BY <1>5
  <1>7. Numbered(Head(q), count', current') /\ (shown[c] # Nil => shown[c].n <= Head(q).n)
    BY <1>2, <1>3, <1>5 DEF Numbered
  <1>8. ASSUME NEW i \in DOMAIN Tail(q)
        PROVE  /\ Numbered(Tail(q)[i], count', current')
               /\ Head(q).n <= Tail(q)[i].n
               /\ \A j \in DOMAIN Tail(q) : i <= j => Tail(q)[i].n <= Tail(q)[j].n
    <2>1. i \in 1..(Len(q) - 1) /\ i + 1 \in 1..Len(q) /\ 1 \in 1..Len(q) /\ 1 <= i + 1
      BY <1>5, <1>6
    <2>2. Numbered(q[i + 1], count', current') /\ q[1].n <= q[i + 1].n
      BY <1>2, <1>3, <2>1 DEF Numbered
    <2>3. ASSUME NEW j \in DOMAIN Tail(q), i <= j PROVE Tail(q)[i].n <= Tail(q)[j].n
      <3>1. j \in 1..(Len(q) - 1) /\ j + 1 \in 1..Len(q) /\ i + 1 <= j + 1
        BY <1>5, <1>6, <2>3, <2>1
      <3> QED
        BY <1>3, <1>5, <2>1, <3>1
    <2> QED
      BY <1>5, <2>1, <2>2, <2>3
  <1>9. current' # Nil => current'.n = count'
    BY <1>2 DEF Ordered
  <1>10. ASSUME NEW d \in Clients
         PROVE  /\ shown'[d] # Nil => Numbered(shown'[d], count', current')
                /\ \A i \in DOMAIN queue'[d] :
                     /\ Numbered(queue'[d][i], count', current')
                     /\ shown'[d] # Nil => shown'[d].n <= queue'[d][i].n
                     /\ \A j \in DOMAIN queue'[d] : i <= j => queue'[d][i].n <= queue'[d][j].n
    <2>1. CASE d = c
      BY <1>2, <1>7, <1>8, <2>1
    <2> QED
      BY <1>4, <2>1
  <1> QED
    BY <1>2, <1>7, <1>9, <1>10 DEF Ordered, Numbered

LEMMA NextOrdered ==
  TypeOK /\ QueueOK /\ Quiescent /\ Ordered /\ [Next]_vars => Ordered'
  <1> SUFFICES ASSUME TypeOK, QueueOK, Quiescent, Ordered, [Next]_vars PROVE Ordered'
    OBVIOUS
  <1>1. CASE StartAsleep \/ FallAsleep
    BY <1>1, PublishOrdered DEF StartAsleep, FallAsleep, clients
  <1>2. CASE Store
    <2>1. fetched \in 1..MaxTime
      BY <1>2 DEF Store, TypeOK, Quiescent
    <2> QED
      BY <1>2, <2>1, PublishOrdered DEF Store, clients
  <1>3. CASE Broadcast
    BY <1>3, BroadcastOrdered
  <1>4. CASE Fetch \/ FetchFails \/ NothingNew \/ Listen
    BY <1>4, SameOrder DEF Fetch, FetchFails, NothingNew, Listen, clients
  <1>5. ASSUME NEW c \in Clients, Connect(c) \/ Subscribe(c) \/ Leave(c)
        PROVE  Ordered'
    BY <1>5, SameOrder DEF Connect, Subscribe, Leave, stream
  <1>6. ASSUME NEW c \in Clients, Greet(c)
        PROVE  Ordered'
    <2>1. queue[c] = <<>> /\ UNCHANGED <<current, count, queue>>
      BY <1>6 DEF Greet, Quiescent, stream
    <2>2. \A d \in Clients : shown'[d] = IF d = c THEN current ELSE shown[d]
      BY <1>6 DEF Greet, TypeOK
    <2>3. current # Nil => Numbered(current, count, current)
      <3>1. current # Nil => current.n = count /\ count \in Nat
        BY DEF Ordered, TypeOK
      <3> QED
        BY <3>1 DEF Numbered
    <2> QED
      BY <2>1, <2>2, <2>3 DEF Ordered
  <1>7. ASSUME NEW c \in Clients, Receive(c)
        PROVE  Ordered'
    BY <1>7, ReceiveOrdered
  <1>8. ASSUME NEW c \in Clients, Close(c)
        PROVE  Ordered'
    <2>1. /\ UNCHANGED <<current, count>>
          /\ \A d \in Clients : /\ shown'[d] = IF d = c THEN Nil ELSE shown[d]
                                /\ queue'[d] = IF d = c THEN <<>> ELSE queue[d]
      BY <1>8 DEF Close, TypeOK, QueueOK, stream
    <2> QED
      BY <2>1 DEF Ordered
  <1>9. CASE Upstream \/ Night \/ Morning \/ UNCHANGED vars
    BY <1>9, SameOrder DEF Upstream, Night, Morning, vars, stream, clients
  <1> QED
    BY <1>1, <1>2, <1>3, <1>4, <1>5, <1>6, <1>7, <1>8, <1>9 DEF Next, Poller, Handler

-----------------------------------------------------------------------------
(* Who was greeted, and who is behind.                                     *)

\* What a browser has or will get is not older than what it shows, and when
\* that is current, so is all that follows.
LEMMA CurrentIsLast ==
  ASSUME TypeOK, QueueOK, Ordered, NEW c \in Clients, queue[c] # <<>>,
         Head(queue[c]) = current
  PROVE  Latest(c) = current
  <1> DEFINE q == queue[c]
  <1>1. q \in Seq(Payloads) /\ Len(q) \in Nat \ {0} /\ Head(q) = q[1] /\ q[1] \in Payloads
    BY Received DEF QueueOK
  <1>2. \A i \in 1..Len(q) : /\ Numbered(q[i], count, current)
                             /\ \A j \in 1..Len(q) : i <= j => q[i].n <= q[j].n
    BY <1>1 DEF Ordered
  <1>3. current.n = count /\ count \in Nat
    BY <1>1, NilNoPayload DEF Ordered, TypeOK
  <1>4. q[Len(q)] \in Payloads /\ 1 \in 1..Len(q) /\ Len(q) \in 1..Len(q) /\ 1 <= Len(q)
    BY <1>1
  <1>5. count <= q[Len(q)].n /\ q[Len(q)].n <= count /\ q[Len(q)].n \in Nat
    BY <1>1, <1>2, <1>3, <1>4 DEF Numbered, Payloads
  <1>6. q[Len(q)] = current
    BY <1>2, <1>3, <1>4, <1>5 DEF Numbered
  <1> QED
    BY <1>6 DEF Latest

LEMMA NextGreeted ==
  TypeOK /\ Quiescent /\ Greeted /\ [Next]_vars => Greeted'
  <1> SUFFICES ASSUME TypeOK, Quiescent, Greeted, [Next]_vars PROVE Greeted'
    OBVIOUS
  <1>1. CASE StartAsleep
    BY <1>1 DEF StartAsleep, Quiescent, Greeted, clients
  <1>2. CASE FallAsleep \/ Store
    BY <1>2 DEF FallAsleep, Store, Greeted, clients
  <1>3. CASE Fetch \/ FetchFails \/ NothingNew \/ Listen
    BY <1>3 DEF Fetch, FetchFails, NothingNew, Listen, Greeted, clients
  <1>4. CASE Broadcast
    BY <1>4 DEF Broadcast, Greeted, clients
  <1>5. ASSUME NEW c \in Clients, Connect(c) \/ Greet(c) \/ Subscribe(c) \/ Leave(c)
        PROVE  Greeted'
    BY <1>5 DEF Connect, Greet, Subscribe, Leave, Greeted, TypeOK, stream
  <1>6. ASSUME NEW c \in Clients, Receive(c) \/ Close(c)
        PROVE  Greeted'
    BY <1>6 DEF Receive, Close, Greeted, TypeOK, stream
  <1>7. CASE Upstream \/ Night \/ Morning \/ UNCHANGED vars
    BY <1>7 DEF Upstream, Night, Morning, Greeted, vars, stream, clients
  <1> QED
    BY <1>1, <1>2, <1>3, <1>4, <1>5, <1>6, <1>7 DEF Next, Poller, Handler

LEMMA NextBehind ==
  IInv /\ [Next]_vars => BehindOnlyIfMissed'
  <1> SUFFICES ASSUME TypeOK, QueueOK, Quiescent, Ordered, Greeted, BehindOnlyIfMissed,
                      [Next]_vars
               PROVE  BehindOnlyIfMissed'
    BY DEF IInv
  <1>in. \A c \in Clients : c \in subs <=> at[c] = "loop"
    BY DEF TypeOK
  <1>sub. subs \subseteq Clients
    BY DEF TypeOK
  <1>1. CASE StartAsleep
    <2>1. subs' = {}
      BY <1>1, <1>in, <1>sub DEF StartAsleep, Quiescent
    <2> QED
      BY <2>1 DEF BehindOnlyIfMissed
  <1>2. CASE FallAsleep \/ Store
    BY <1>2 DEF FallAsleep, Store, BehindOnlyIfMissed
  <1>3. CASE Fetch \/ FetchFails \/ NothingNew \/ Listen
    BY <1>3 DEF Fetch, FetchFails, NothingNew, Listen, BehindOnlyIfMissed, Latest, clients
  <1>4. CASE Broadcast
    <2> SUFFICES ASSUME NEW c \in subs, c \notin missed' PROVE Latest(c)' = current'
      BY <1>4 DEF BehindOnlyIfMissed, Broadcast
    <2>1. ~Full(c) /\ c \in Clients /\ current \in Payloads
      BY <1>4, <1>sub DEF Broadcast, Quiescent, TypeOK
    <2>2. queue[c] \in Seq(Payloads) /\ queue'[c] = Append(queue[c], current)
      BY <1>4, <2>1 DEF Broadcast, QueueOK
    <2> QED
      BY <1>4, <2>1, <2>2, Sent DEF Latest, Broadcast
  <1>5. ASSUME NEW c \in Clients, Connect(c) \/ Greet(c) \/ Leave(c)
        PROVE  BehindOnlyIfMissed'
    <2>1. /\ UNCHANGED <<pc, current, queue, missed>> /\ subs' \subseteq subs
          /\ \A d \in subs' : shown'[d] = shown[d]
      BY <1>5, <1>in, <1>sub DEF Connect, Greet, Leave, TypeOK, stream
    <2> QED
      BY <2>1 DEF BehindOnlyIfMissed, Latest
  <1>6. ASSUME NEW c \in Clients, Subscribe(c)
        PROVE  BehindOnlyIfMissed'
    <2>1. UNCHANGED <<pc, current, queue, shown, missed>> /\ subs' = subs \cup {c}
      BY <1>6 DEF Subscribe, stream
    <2>2. Latest(c) = shown[c]
      BY <1>6 DEF Subscribe, Quiescent, Latest
    <2>3. shown[c] = current \/ pc = "broadcast" \/ c \in missed
      BY <1>6 DEF Subscribe, Greeted
    <2> QED
      BY <2>1, <2>2, <2>3 DEF BehindOnlyIfMissed, Latest
  <1>7. ASSUME NEW c \in Clients, Receive(c)
        PROVE  BehindOnlyIfMissed'
    <2>1. queue[c] \in Seq(Payloads) /\ queue[c] # <<>>
      BY <1>7 DEF QueueOK, Receive
    <2>2. /\ shown'[c] = Head(queue[c]) /\ queue'[c] = Tail(queue[c])
          /\ \A d \in Clients \ {c} : shown'[d] = shown[d] /\ queue'[d] = queue[d]
          /\ UNCHANGED <<pc, current, subs>>
          /\ \A d \in Clients \ {c} : d \in missed => d \in missed'
          /\ Head(queue[c]) # current => missed' = missed
      BY <1>7 DEF Receive, TypeOK, QueueOK, stream
    <2>3. Latest(c)' = Latest(c)
      <3> DEFINE q == queue[c]
      <3>1. /\ Len(q) \in Nat \ {0} /\ Head(q) = q[1] /\ Len(Tail(q)) = Len(q) - 1
            /\ \A i \in 1..(Len(q) - 1) : Tail(q)[i] = q[i + 1]
            /\ Tail(q) = <<>> <=> Len(q) = 1
        BY <2>1, Received
      <3>2. Latest(c) = q[Len(q)]
        BY <2>1 DEF Latest
      <3>3. Latest(c)' = IF Tail(q) = <<>> THEN Head(q) ELSE Tail(q)[Len(q) - 1]
        BY <2>2, <3>1 DEF Latest
      <3>4. CASE Len(q) = 1
        BY <3>1, <3>2, <3>3, <3>4
      <3>5. CASE Len(q) # 1
        <4>1. Len(q) - 1 \in 1..(Len(q) - 1) /\ (Len(q) - 1) + 1 = Len(q)
          BY <3>1, <3>5
        <4> QED
          BY <3>1, <3>2, <3>3, <3>5, <4>1
      <3> QED
        BY <3>4, <3>5
    <2>4. ASSUME NEW d \in subs
          PROVE  Latest(d)' = current \/ pc = "broadcast" \/ d \in missed'
      <3>1. CASE d = c
        BY <2>1, <2>2, <2>3, <2>4, <3>1, CurrentIsLast DEF BehindOnlyIfMissed
      <3>2. CASE d # c
        BY <1>sub, <2>2, <2>4, <3>2 DEF BehindOnlyIfMissed, Latest
      <3> QED
        BY <3>1, <3>2
    <2> QED
      BY <2>2, <2>4 DEF BehindOnlyIfMissed
  <1>8. ASSUME NEW c \in Clients, Close(c)
        PROVE  BehindOnlyIfMissed'
    <2>1. /\ c \notin subs /\ UNCHANGED <<pc, current, subs>>
          /\ \A d \in Clients \ {c} : shown'[d] = shown[d] /\ queue'[d] = queue[d]
          /\ \A d \in Clients \ {c} : d \in missed => d \in missed'
      BY <1>8, <1>in DEF Close, TypeOK, QueueOK, stream
    <2> QED
      BY <1>sub, <2>1 DEF BehindOnlyIfMissed, Latest
  <1>9. CASE Upstream \/ Night \/ Morning \/ UNCHANGED vars
    BY <1>9 DEF Upstream, Night, Morning, BehindOnlyIfMissed, Latest, vars, stream, clients
  <1> QED
    BY <1>1, <1>2, <1>3, <1>4, <1>5, <1>6, <1>7, <1>8, <1>9 DEF Next, Poller, Handler

-----------------------------------------------------------------------------
(* The theorems.                                                           *)

LEMMA InitInv == Init => IInv
  <1> SUFFICES ASSUME Init PROVE IInv
    OBVIOUS
  <1>1. \A c \in Clients : at[c] = "away" /\ shown[c] = Nil /\ queue[c] = <<>>
    BY DEF Init
  <1>2. DOMAIN <<>> = {}
    OBVIOUS
  <1>3. Quiescent /\ Greeted /\ BehindOnlyIfMissed
    BY <1>1 DEF Init, Quiescent, Greeted, BehindOnlyIfMissed
  <1>4. Ordered
    BY <1>1, <1>2 DEF Init, Ordered
  <1> QED
    BY <1>3, <1>4, InitTypes DEF IInv

LEMMA NextInv == IInv /\ [Next]_vars => IInv'
  BY NextTypes, NextQuiescent, NextOrdered, NextGreeted, NextBehind DEF IInv

\* In every reachable state the channels are those of the browsers that are
\* connected, their payloads are in the order of their publications, and who
\* is behind was passed by: VehicleStream and vehiclesSSE together.
THEOREM Invariance == Spec => []IInv
  <1> QED
    BY InitInv, NextInv, PTL DEF Spec

\* The stream's memory is well typed, and a registered channel is never one
\* that Unsubscribe has closed (vehicle_stream.go:290).
THEOREM TypeCorrect == Spec => []TypeOK
  <1>1. IInv => TypeOK
    BY DEF IInv
  <1> QED
    BY <1>1, Invariance, PTL

\* A browser that is subscribed has or will get the current payload unless a
\* broadcast passed it by (vehicle_stream.go:263, handler.go:457).
THEOREM BehindIfMissed == Spec => []BehindOnlyIfMissed
  <1>1. IInv => BehindOnlyIfMissed
    BY DEF IInv
  <1> QED
    BY <1>1, Invariance, PTL

\* No browser is sent an older payload after a newer one while it is connected
\* (vehicle_stream.go:270, handler.go:469).
THEOREM NeverBack == Spec => NeverGoesBack
  <1> DEFINE Forward(c) == shown[c] # Nil /\ shown'[c] # Nil => shown[c].n <= shown'[c].n
  <1>1. ASSUME IInv, [Next]_vars, NEW c \in Clients
        PROVE  Forward(c)
    <2>1. TypeOK /\ QueueOK /\ Quiescent /\ Ordered
      BY <1>1 DEF IInv
    <2>2. \A p \in Payloads : p.n <= p.n
      BY DEF Payloads
    <2>3. shown'[c] = shown[c] => Forward(c)
      BY <2>1, <2>2 DEF TypeOK
    <2>4. ASSUME NEW d \in Clients, Handler(d) PROVE Forward(c)
      <3>1. CASE Greet(d)
        BY <2>1, <2>3, <3>1 DEF Greet, Quiescent, TypeOK
      <3>2. CASE Receive(d)
        <4>1. CASE c = d
          BY <2>1, <3>2, <4>1, ReceiveOrdered
        <4>2. CASE c # d
          BY <2>1, <2>3, <3>2, <4>2 DEF Receive, TypeOK
        <4> QED
          BY <4>1, <4>2
      <3>3. CASE Close(d)
        BY <2>1, <2>3, <3>3 DEF Close, TypeOK
      <3>4. CASE Subscribe(d)
        BY <2>3, <3>4 DEF Subscribe
      <3> QED
        BY <2>4, <3>1, <3>2, <3>3, <3>4 DEF Handler
    <2>5. (Poller \/ Upstream \/ Night \/ Morning \/ UNCHANGED vars) => UNCHANGED shown
      BY DEF Poller, StartAsleep, FallAsleep, Fetch, FetchFails, NothingNew, Store, Broadcast,
             Listen, Upstream, Night, Morning, vars, clients
    <2>6. \A d \in Clients : Connect(d) \/ Leave(d) => UNCHANGED shown
      BY DEF Connect, Leave
    <2> QED
      BY <1>1, <2>3, <2>4, <2>5, <2>6 DEF Next
  <1>2. IInv /\ [Next]_vars =>
          [\A c \in Clients :
             shown[c] # Nil /\ shown'[c] # Nil => shown[c].n <= shown'[c].n]_vars
    BY <1>1
  <1> QED
    BY <1>2, Invariance, PTL DEF Spec, NeverGoesBack
=============================================================================
