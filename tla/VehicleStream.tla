--------------------------- MODULE VehicleStream ---------------------------
(***************************************************************************)
(* The live map: VehicleStream in internal/transit/vehicle_stream.go and   *)
(* its readers, the SSE handlers in handler.go.                            *)
(*                                                                         *)
(* One goroutine polls the feed, keeps the newest payload in current and   *)
(* broadcasts it; between one and six in the morning it sleeps instead     *)
(* and says so once.  A client's handler writes current, then subscribes,  *)
(* then forwards what its channel brings; a full channel drops.  What is   *)
(* stored under mu and what is sent under subMu are separate steps.        *)
(*                                                                         *)
(* A payload is the feed's timestamp or Sleep, with the number of its      *)
(* publication; vehicles, near stops and served stops are left out.        *)
(***************************************************************************)
EXTENDS Naturals, Sequences, Functions

CONSTANTS
  Clients,   \* browsers
  Buffer,    \* places in a client's channel; 3 in the code
  MaxTime,   \* bound: timestamps of the feed
  MaxNights, \* bound: nights
  Faults,    \* bound: the kinds of fault that may happen
  Sleep,     \* the payload of the quiet hours
  Nil        \* no payload

Payloads == [what : 1..MaxTime \cup {Sleep}, n : Nat]

ASSUME StreamAssumption ==
  /\ Buffer \in Nat \ {0}
  /\ MaxTime \in Nat
  /\ MaxNights \in Nat
  /\ Sleep # Nil
  /\ {Sleep, Nil} \cap Nat = {}
  /\ Nil \notin Payloads

VARIABLES
  \* the world
  feed,     \* the timestamp of the upstream feed; 0 before the first
  quiet,    \* is it between one and six?
  nights,   \* nights so far
  \* the stream
  pc,       \* where its goroutine is
  sleeping, \* has the sleep been announced?
  fetched,  \* the timestamp just fetched
  ts,       \* the timestamp of the last payload
  current,  \* the newest payload, or Nil
  count,    \* history: payloads published
  serving,  \* has Start returned, so that the server listens?
  subs,     \* the clients whose channels are registered
  \* the clients
  at,       \* at[c]: where c's handler is
  queue,    \* queue[c]: its channel
  shown,    \* shown[c]: what its browser got last, or Nil
  missed    \* history: clients that a broadcast passed by

world   == <<feed, quiet, nights>>
stream  == <<pc, sleeping, fetched, ts, current, count, serving>>
clients == <<at, shown>>
vars    == <<world, stream, subs, clients, queue, missed>>

Init ==
  /\ feed = 0
  /\ quiet \in BOOLEAN
  /\ nights = 0
  /\ pc = "start"
  /\ sleeping = FALSE
  /\ fetched = 0
  /\ ts = 0
  /\ current = Nil
  /\ count = 0
  /\ serving = FALSE
  /\ subs = {}
  /\ at = [c \in Clients |-> "away"]
  /\ queue = [c \in Clients |-> <<>>]
  /\ shown = [c \in Clients |-> Nil]
  /\ missed = {}

-----------------------------------------------------------------------------
(* The polling goroutine.                                                  *)

Publish(what) ==
  /\ current' = [what |-> what, n |-> count + 1]
  /\ count' = count + 1

\* A server started at night shows the sleep at once, to whoever comes; its
\* loop announces it again.
StartAsleep ==
  /\ pc = "start"
  /\ quiet
  /\ Publish(Sleep)
  /\ pc' = "wait"
  /\ UNCHANGED <<world, sleeping, fetched, ts, serving, subs, clients, queue,
                 missed>>

\* Mutant: the sleep is stored but not broadcast.
FallAsleepSilently ==
  /\ pc = "wait"
  /\ quiet
  /\ ~sleeping
  /\ sleeping' = TRUE
  /\ Publish(Sleep)
  /\ pc' = "wait"
  /\ UNCHANGED <<world, fetched, ts, serving, subs, clients, queue, missed>>

FallAsleep ==
  /\ pc = "wait"
  /\ quiet
  /\ ~sleeping
  /\ sleeping' = TRUE
  /\ Publish(Sleep)
  /\ pc' = "broadcast"
  /\ UNCHANGED <<world, fetched, ts, serving, subs, clients, queue, missed>>

\* The clock was read before the fetch; the night may begin meanwhile.
Fetch ==
  /\ pc \in {"start", "wait"}
  /\ ~quiet
  /\ feed > 0
  /\ sleeping' = FALSE
  /\ fetched' = feed
  /\ pc' = "compare"
  /\ UNCHANGED <<world, ts, current, count, serving, subs, clients, queue,
                 missed>>

FetchFails ==
  /\ pc \in {"start", "wait"}
  /\ ~quiet
  /\ feed = 0 \/ "fetch" \in Faults
  /\ sleeping' = FALSE
  /\ pc' = "wait"
  /\ UNCHANGED <<world, fetched, ts, current, count, serving, subs, clients,
                 queue, missed>>

NothingNew ==
  /\ pc = "compare"
  /\ fetched = ts
  /\ pc' = "wait"
  /\ UNCHANGED <<world, sleeping, fetched, ts, current, count, serving, subs,
                 clients, queue, missed>>

Store ==
  /\ pc = "compare"
  /\ fetched # ts
  /\ Publish(fetched)
  /\ ts' = fetched
  /\ pc' = "broadcast"
  /\ UNCHANGED <<world, sleeping, fetched, serving, subs, clients, queue, missed>>

Full(c) == Len(queue[c]) = Buffer

\* A slow client loses this update; a client that has read current but not
\* yet subscribed does not get it either.
Broadcast ==
  /\ pc = "broadcast"
  /\ queue' = [c \in Clients |-> IF c \in subs /\ ~Full(c)
                                 THEN Append(queue[c], current) ELSE queue[c]]
  /\ missed' = missed \cup {c \in Clients :
                              \/ c \in subs /\ Full(c)
                              \/ at[c] = "subscribe" /\ shown[c] # current}
  /\ pc' = "wait"
  /\ UNCHANGED <<world, sleeping, fetched, ts, current, count, serving, subs,
                 clients>>

\* Start polls once before it returns; the server listens after that.
Listen ==
  /\ ~serving
  /\ pc = "wait"
  /\ serving' = TRUE
  /\ UNCHANGED <<world, pc, sleeping, fetched, ts, current, count, subs, clients,
                 queue, missed>>

-----------------------------------------------------------------------------
(* A client's handler.                                                     *)

\* Mutant: the handler subscribes before it reads current.
ConnectSubscribed(c) ==
  /\ serving
  /\ at[c] = "away"
  /\ at' = [at EXCEPT ![c] = "greet"]
  /\ subs' = subs \cup {c}
  /\ UNCHANGED <<world, stream, shown, queue, missed>>

Connect(c) ==
  /\ serving
  /\ at[c] = "away"
  /\ at' = [at EXCEPT ![c] = "greet"]
  /\ UNCHANGED <<world, stream, subs, shown, queue, missed>>

\* The latest payload first, if there is one.
Greet(c) ==
  /\ at[c] = "greet"
  /\ at' = [at EXCEPT ![c] = "subscribe"]
  /\ shown' = [shown EXCEPT ![c] = current]
  /\ UNCHANGED <<world, stream, subs, queue, missed>>

\* The channel is registered under the lock.
Subscribe(c) ==
  /\ at[c] = "subscribe"
  /\ at' = [at EXCEPT ![c] = "loop"]
  /\ subs' = subs \cup {c}
  /\ UNCHANGED <<world, stream, shown, queue, missed>>

Receive(c) ==
  /\ at[c] = "loop"
  /\ queue[c] # <<>>
  /\ shown' = [shown EXCEPT ![c] = Head(queue[c])]
  /\ queue' = [queue EXCEPT ![c] = Tail(@)]
  /\ missed' = IF Head(queue[c]) = current THEN missed \ {c} ELSE missed
  /\ UNCHANGED <<world, stream, subs, at>>

\* Unregistered under the lock, then closed.
Leave(c) ==
  /\ at[c] = "loop"
  /\ at' = [at EXCEPT ![c] = "close"]
  /\ subs' = subs \ {c}
  /\ UNCHANGED <<world, stream, shown, queue, missed>>

Close(c) ==
  /\ at[c] = "close"
  /\ at' = [at EXCEPT ![c] = "away"]
  /\ queue' = [queue EXCEPT ![c] = <<>>]
  /\ shown' = [shown EXCEPT ![c] = Nil]
  /\ missed' = missed \ {c}
  /\ UNCHANGED <<world, stream, subs>>

-----------------------------------------------------------------------------
(* The world.                                                              *)

Upstream ==
  /\ feed < MaxTime
  /\ feed' = feed + 1
  /\ UNCHANGED <<quiet, nights, stream, subs, clients, queue, missed>>

Night ==
  /\ ~quiet
  /\ nights < MaxNights
  /\ quiet' = TRUE
  /\ nights' = nights + 1
  /\ UNCHANGED <<feed, stream, subs, clients, queue, missed>>

Morning ==
  /\ quiet
  /\ quiet' = FALSE
  /\ UNCHANGED <<feed, nights, stream, subs, clients, queue, missed>>

Poller ==
  \/ StartAsleep
  \/ FallAsleep
  \/ Fetch
  \/ FetchFails
  \/ NothingNew
  \/ Store
  \/ Broadcast
  \/ Listen

Handler(c) == Greet(c) \/ Subscribe(c) \/ Receive(c) \/ Close(c)

Next ==
  \/ Poller
  \/ \E c \in Clients : Connect(c) \/ Handler(c) \/ Leave(c)
  \/ Upstream
  \/ Night
  \/ Morning

Spec == Init /\ [][Next]_vars

-----------------------------------------------------------------------------
(* Properties.                                                             *)

\* A registered channel is never one that is closed: sending would panic.
TypeOK ==
  /\ feed \in 0..MaxTime
  /\ quiet \in BOOLEAN
  /\ nights \in 0..MaxNights
  /\ pc \in {"start", "wait", "compare", "broadcast"}
  /\ sleeping \in BOOLEAN
  /\ fetched \in 0..MaxTime
  /\ ts \in 0..MaxTime
  /\ count \in Nat
  /\ current \in Payloads \cup {Nil}
  /\ serving \in BOOLEAN
  /\ subs = {c \in Clients : at[c] = "loop"}
  /\ at \in [Clients -> {"away", "greet", "subscribe", "loop", "close"}]
  /\ \A c \in Clients : Len(queue[c]) <= Buffer /\ Range(queue[c]) \subseteq Payloads
  /\ shown \in [Clients -> Payloads \cup {Nil}]
  /\ missed \subseteq Clients

\* A browser never goes back to an older payload while it is connected,
\* though current reaches it by two ways and full channels drop.
NeverGoesBack ==
  [][\A c \in Clients :
       shown[c] # Nil /\ shown'[c] # Nil => shown[c].n <= shown'[c].n]_vars

Latest(c) == IF queue[c] = <<>> THEN shown[c] ELSE queue[c][Len(queue[c])]

\* What a subscribed browser has or will get is the current payload, unless
\* a broadcast passed it by: it was slow, or it came between two steps.
BehindOnlyIfMissed ==
  \A c \in subs : Latest(c) = current \/ pc = "broadcast" \/ c \in missed

-----------------------------------------------------------------------------
(* Liveness: the ticker and every handler go on.                           *)

FairSpec ==
  /\ Spec
  /\ WF_vars(Poller)
  /\ \A c \in Clients : WF_vars(Handler(c))

Asleep(p) == p # Nil /\ p.what = Sleep

\* In a night that does not end, every browser that stays and was not passed
\* by shows the sleep in the end.
NightIsShown ==
  \A c \in Clients :
    <>[](quiet /\ at[c] = "loop" /\ c \notin missed) => <>[]Asleep(shown[c])
=============================================================================
