------------------------ MODULE MqttRefinementProofs -------------------------
(***************************************************************************)
(* The MQTT tool moves its connections as ConnStatus allows.               *)
(*                                                                         *)
(* Almost every step is local to one connection, or to none: it leaves the *)
(* clients of the others alone and brings none up.  This is shown of each  *)
(* operator that the steps are made of, and that steps which are local     *)
(* compose.  What a local step does to the statuses is then a case split   *)
(* of its own.  Left are the connect of a client, the end of connections   *)
(* and a reload.                                                           *)
(***************************************************************************)
EXTENDS MqttConsoleProofs

\* The status in world w of a connection that is listed.
Phase(w, c) ==
  LET k == w.delegates[c].client IN
  IF Online(w, k) THEN "up"
  ELSE IF k # NoClient /\ w.clients[k].st \in {"connecting", "offline"} /\ ~w.clients[k].ending
  THEN "trying" ELSE "idle"

\* The change from w to v touches the clients of the connections in C only,
\* none gets connected, and a client that is new to its delegate is not.
Local(w, v, C) ==
  /\ \A d \in Conns \ C : v.delegates[d].client = w.delegates[d].client
  /\ \A k \in ClientIds : w.clients[k].st # "unused" =>
       /\ v.clients[k].conn = w.clients[k].conn /\ v.clients[k].st # "unused"
       /\ w.clients[k].conn \notin C =>
            v.clients[k].st = w.clients[k].st /\ v.clients[k].ending = w.clients[k].ending
  /\ \A k \in ClientIds : v.clients[k].st = "connected" => w.clients[k].st = "connected"
  /\ \A d \in Conns : v.delegates[d].client # w.delegates[d].client => ~IsConnected(v, d)

-----------------------------------------------------------------------------
(* Local changes.                                                          *)

\* A change of the mirror in the store only.
LEMMA QuietLocal ==
  ASSUME NEW w \in Worlds, NEW v \in Worlds, v.clients = w.clients, v.delegates = w.delegates
  PROVE  \A C : Local(w, v, C)
  BY DEF Local

\* One after the other,
LEMMA LocalTwice ==
  ASSUME NEW w \in Worlds, NEW v \in Worlds, NEW u \in Worlds, NEW C,
         Local(w, v, C), Local(v, u, C)
  PROVE  Local(w, u, C)
<1>1. \A d \in Conns \ C : u.delegates[d].client = w.delegates[d].client
  BY DEF Local
<1>2. ASSUME NEW k \in ClientIds, w.clients[k].st # "unused"
      PROVE  /\ u.clients[k].conn = w.clients[k].conn /\ u.clients[k].st # "unused"
             /\ w.clients[k].conn \notin C =>
                  u.clients[k].st = w.clients[k].st /\ u.clients[k].ending = w.clients[k].ending
  BY <1>2 DEF Local
<1>3. \A k \in ClientIds : u.clients[k].st = "connected" => w.clients[k].st = "connected"
  BY DEF Local
<1>4. ASSUME NEW d \in Conns, u.delegates[d].client # w.delegates[d].client
      PROVE  ~IsConnected(u, d)
  <2>1. CASE u.delegates[d].client # v.delegates[d].client
    BY <2>1 DEF Local
  <2>2. CASE u.delegates[d].client = v.delegates[d].client
    <3>1. ~IsConnected(v, d)
      BY <1>4, <2>2 DEF Local
    <3>2. v.delegates[d].client \in {NoClient} \cup ClientIds
      BY DEF Worlds, Delegates
    <3> QED  BY <2>2, <3>1, <3>2 DEF Local, IsConnected, Online
  <2> QED  BY <2>1, <2>2
<1> QED  BY <1>1, <1>2, <1>3, <1>4 DEF Local

\* ... and for more connections.
LEMMA LocalMore ==
  ASSUME NEW w, NEW v, NEW C, NEW D, Local(w, v, C), C \subseteq D
  PROVE  Local(w, v, D)
  BY DEF Local

\* The others keep their phase,
LEMMA OthersKeepPhase ==
  ASSUME NEW w, NEW O, NEW M, Good(w, O, M), NEW v \in Worlds, NEW C,
         Local(w, v, C), NEW d \in Conns \ C
  PROVE  Phase(v, d) = Phase(w, d)
<1> DEFINE k == w.delegates[d].client
<1>1. v.delegates[d].client = k
  BY DEF Local
<1>2. CASE k = NoClient
  BY <1>1, <1>2 DEF Phase, Online
<1>3. CASE k # NoClient
  <2>1. k \in ClientIds
    BY <1>3 DEF Good, Worlds, Delegates
  <2>2. w.clients[k].conn = d /\ w.clients[k].st # "unused"
    BY <1>3 DEF Good, Owned
  <2>3. v.clients[k].st = w.clients[k].st /\ v.clients[k].ending = w.clients[k].ending
    BY <2>1, <2>2 DEF Local
  <2> HIDE DEF k
  <2>4. w.delegates[d].client = k
    BY DEF k
  <2> QED  BY <1>1, <2>3, <2>4 DEF Phase, Online
<1> QED  BY <1>2, <1>3

\* ... and none comes up.
LEMMA NoneComesUp ==
  ASSUME NEW w \in Worlds, NEW v \in Worlds, NEW C, Local(w, v, C), NEW d \in Conns,
         Phase(v, d) = "up"
  PROVE  Phase(w, d) = "up"
<1>1. IsConnected(v, d)
  BY DEF Phase, IsConnected
<1>2. v.delegates[d].client = w.delegates[d].client
  BY <1>1 DEF Local
<1>3. v.delegates[d].client \in ClientIds
  BY <1>1 DEF IsConnected, Online, Worlds, Delegates
<1> QED  BY <1>1, <1>2, <1>3 DEF Local, Phase, IsConnected, Online

\* updateDelegateStates and its counterpart touch no connection.
LEMMA UpdateStoreLocal ==
  ASSUME NEW w \in Worlds, NEW c \in Conns
  PROVE  /\ UpdateStore(w, c) \in Worlds /\ \A C : Local(w, UpdateStore(w, c), C)
         /\ ForgetStore(w, c) \in Worlds /\ \A C : Local(w, ForgetStore(w, c), C)
  BY UpdateStoreIs, ForgetStoreIs, QuietLocal

\* A delegate that is made has no client.
LEMMA GetDelegateLocal ==
  ASSUME NEW w \in Worlds, NEW c \in Conns
  PROVE  Local(w, GetDelegate(w, c), {c})
<1> DEFINE v == GetDelegate(w, c)
<1>1. /\ v \in Worlds /\ v.clients = w.clients
      /\ v.delegates = IF w.delegates[c].made THEN w.delegates
                       ELSE [w.delegates EXCEPT ![c] = NewDelegate]
  BY GetDelegateIs
<1> HIDE DEF v
<1>2. NewDelegate.client = NoClient /\ w.delegates \in [Conns -> Delegates]
  BY DEF NewDelegate, Worlds
<1>3. \A d \in Conns : \/ v.delegates[d].client = w.delegates[d].client
                       \/ d = c /\ v.delegates[d].client = NoClient
  BY <1>1, <1>2
<1>4. Local(w, v, {c})
  BY <1>1, <1>3 DEF Local, IsConnected, Online
<1> QED  BY <1>4 DEF v

\* selectConnection.
LEMMA SelectConnectionLocal ==
  ASSUME NEW w \in Worlds, NEW c \in Conns
  PROVE  Local(w, SelectConnection(w, c), {c})
<1>1. GetDelegate(w, c) \in Worlds
  BY GetDelegateIs
<1>2. /\ UpdateStore(GetDelegate(w, c), c) \in Worlds
      /\ Local(GetDelegate(w, c), UpdateStore(GetDelegate(w, c), c), {c})
  BY <1>1, UpdateStoreLocal
<1> QED  BY <1>1, <1>2, GetDelegateLocal, LocalTwice DEF SelectConnection

-----------------------------------------------------------------------------
(* connect, disconnect, destroy and the events of a client.                *)

\* What a client in use becomes is a matter of its connection.
LEMMA SetClientLocal ==
  ASSUME NEW w \in Worlds, NEW k \in ClientIds, NEW x \in Clients(Tokens),
         x.conn = w.clients[k].conn, x.st # "unused",
         x.st = "connected" => w.clients[k].st = "connected"
  PROVE  Local(w, SetClient(w, k, x), {x.conn})
<1> DEFINE v == SetClient(w, k, x)
<1>1. /\ v \in Worlds /\ v.delegates = w.delegates
      /\ \A j \in ClientIds : v.clients[j] = IF j = k THEN x ELSE w.clients[j]
  BY SetClientIs
<1> HIDE DEF v
<1>2. Local(w, v, {x.conn})
  BY <1>1 DEF Local
<1> QED  BY <1>2 DEF v

\* The counter and the topics of a delegate are reset.
LEMMA ClearedLocal ==
  ASSUME NEW w \in Worlds, NEW c \in Conns
  PROVE  \A C : Local(w, Cleared(w, c), C)
<1> DEFINE v == Cleared(w, c)
           d == [[w.delegates[c] EXCEPT !.retryTimes = 0] EXCEPT !.subs = {}]
<1>1. w.delegates \in [Conns -> Delegates]
  BY DEF Worlds
<1>2. v.clients = w.clients /\ v.delegates = [w.delegates EXCEPT ![c] = d]
  <2>1. /\ v.clients = w.clients
        /\ v.delegates = [[w.delegates EXCEPT ![c].retryTimes = 0] EXCEPT ![c].subs = {}]
    BY <1>1 DEF Worlds, Cleared
  <2> QED  BY <1>1, <2>1
<1>3. d.client = w.delegates[c].client
  BY <1>1 DEF Delegates
<1> HIDE DEF v, d
<1>4. \A e \in Conns : v.delegates[e].client = w.delegates[e].client
  BY <1>1, <1>2, <1>3
<1>5. \A C : Local(w, v, C)
  BY <1>2, <1>4 DEF Local
<1> QED  BY <1>5 DEF v

\* The client that connect makes attempts to connect.
LEMMA CreateClientLocal ==
  ASSUME NEW w \in Worlds, NEW c \in Conns, NEW token, Free(w) # {}
  PROVE  Local(w, CreateClient(w, c, token), {c})
<1> DEFINE k == CHOOSE i \in Free(w) : \A j \in Free(w) : i <= j
           v == CreateClient(w, c, token)
<1>1. k \in ClientIds /\ w.clients[k].st = "unused"
  BY LeastFree DEF Free
<1>2. v = [w EXCEPT !.clients[k] = [@ EXCEPT !.st = "connecting", !.conn = c, !.token = token],
                    !.delegates[c].client = k,
                    !.delegates[c].retryTimes = 0,
                    !.connecting = TRUE]
  BY DEF CreateClient
<1> HIDE DEF k, v
<1>3. w.clients \in [ClientIds -> Clients(Tokens)] /\ w.delegates \in [Conns -> Delegates]
  BY DEF Worlds
<1>4. v.clients = [w.clients EXCEPT ![k] =
         [w.clients[k] EXCEPT !.st = "connecting", !.conn = c, !.token = token]]
  BY <1>1, <1>2, <1>3 DEF Worlds
<1>5. v.delegates = [[w.delegates EXCEPT ![c].client = k] EXCEPT ![c].retryTimes = 0]
  BY <1>2, <1>3 DEF Worlds
<1>6. v.delegates = [w.delegates EXCEPT ![c] =
         [[w.delegates[c] EXCEPT !.client = k] EXCEPT !.retryTimes = 0]]
  BY <1>3, <1>5
<1>7. v.delegates[c].client = k /\ \A d \in Conns \ {c} : v.delegates[d] = w.delegates[d]
  <2>1. [[w.delegates[c] EXCEPT !.client = k] EXCEPT !.retryTimes = 0].client = k
    BY <1>3 DEF Delegates
  <2> QED  BY <1>3, <1>6, <2>1
<1>8. v.clients[k].st = "connecting" /\ \A j \in ClientIds \ {k} : v.clients[j] = w.clients[j]
  <2>1. [w.clients[k] EXCEPT !.st = "connecting", !.conn = c, !.token = token].st = "connecting"
    BY <1>1, <1>3 DEF Clients
  <2> QED  BY <1>1, <1>3, <1>4, <2>1
<1>9. Local(w, v, {c})
  <2>1. \A j \in ClientIds : w.clients[j].st # "unused" => v.clients[j] = w.clients[j]
    BY <1>1, <1>8
  <2>2. \A j \in ClientIds : v.clients[j].st = "connected" => w.clients[j].st = "connected"
    BY <1>8
  <2>3. \A d \in Conns : v.delegates[d].client # w.delegates[d].client => ~IsConnected(v, d)
    BY <1>7, <1>8 DEF IsConnected, Online
  <2> QED  BY <1>7, <2>1, <2>2, <2>3 DEF Local
<1> QED  BY <1>9 DEF v

\* What waits for the end of a client,
LEMMA CallbackLocal ==
  ASSUME NEW w \in Worlds, NEW c \in Conns, NEW token,
         NEW then \in {"update", "connect", "destroy"}, then = "connect" => Free(w) # {}
  PROVE  Local(w, Callback(w, c, then, token), {c})
<1>1. CASE then = "connect"
  <2>1. Callback(w, c, then, token) = CreateClient(w, c, token)
    BY <1>1 DEF Callback
  <2> QED  BY <1>1, <2>1, CreateClientLocal
<1>2. CASE then = "destroy"
  <2> DEFINE v == [w EXCEPT !.delegates[c].made = FALSE]
  <2>1. Callback(w, c, then, token) = v
    BY <1>2 DEF Callback
  <2>2. /\ v.clients = w.clients /\ v.delegates = [w.delegates EXCEPT ![c].made = FALSE]
        /\ w.delegates \in [Conns -> Delegates]
    BY DEF Worlds
  <2>3. \A d \in Conns : v.delegates[d].client = w.delegates[d].client
    BY <2>2 DEF Delegates
  <2> HIDE DEF v
  <2> QED  BY <2>1, <2>2, <2>3 DEF Local
<1>3. CASE then = "update"
  <2>1. Callback(w, c, then, token) = UpdateStore(w, c)
    BY <1>3 DEF Callback
  <2> QED  BY <2>1, UpdateStoreLocal
<1> QED  BY <1>1, <1>2, <1>3

\* ... and what is done before it.
LEMMA AfterEndLocal ==
  ASSUME NEW w, NEW O, NEW M, Good(w, O, M), NEW c \in Conns, NEW token \in Tokens,
         NEW then \in {"update", "connect", "destroy"}, c \in M,
         then = "connect" => Free(w) # {}, then = "destroy" => c \notin O
  PROVE  Local(w, AfterEnd(w, c, then, token), {c})
<1> DEFINE v == Cleared(w, c)
           u == Callback(v, c, then, token)
<1>1. w \in Worlds /\ v \in Worlds /\ Free(v) = Free(w)
  BY ClearedGood DEF Good, SameRoom
<1>2. AfterEnd(w, c, then, token) = u
  BY DEF AfterEnd, Cleared
<1>3. u \in Worlds
  BY <1>2, AfterEndGood DEF Good
<1>4. Local(w, v, {c})
  BY <1>1, ClearedLocal
<1>5. Local(v, u, {c})
  <2> HIDE DEF v
  <2> QED  BY <1>1, CallbackLocal
<1> HIDE DEF v, u
<1> QED  BY <1>1, <1>2, <1>3, <1>4, <1>5, LocalTwice

\* end() is called.
LEMMA EndingLocal ==
  ASSUME NEW w, NEW O, NEW M, Good(w, O, M), NEW c \in Conns, NEW token, NEW then,
         NEW k \in ClientIds, k = w.delegates[c].client
  PROVE  Local(w, Ending(w, k, then, token), {c})
<1> DEFINE v == Ending(w, k, then, token)
           x == [[[w.clients[k] EXCEPT !.ending = TRUE] EXCEPT !.then = then] EXCEPT !.next = token]
<1>1. w \in Worlds /\ w.clients \in [ClientIds -> Clients(Tokens)]
  BY DEF Good, Worlds
<1>2. /\ v.delegates = w.delegates
      /\ v.clients = [[[w.clients EXCEPT ![k].ending = TRUE] EXCEPT ![k].then = then]
                          EXCEPT ![k].next = token]
  BY <1>1 DEF Worlds, Ending
<1>3. v.clients = [w.clients EXCEPT ![k] = x]
  BY <1>1, <1>2
<1>4. x.st = w.clients[k].st /\ x.conn = w.clients[k].conn
  BY <1>1 DEF Clients
<1>5. w.clients[k].conn = c
  BY DelegateBoundsAssumption DEF Good, Owned, ClientIds, NoClient
<1> HIDE DEF v, x
<1>6. \A j \in ClientIds : v.clients[j] = IF j = k THEN x ELSE w.clients[j]
  BY <1>1, <1>3
<1>7. Local(w, v, {c})
  BY <1>2, <1>4, <1>5, <1>6 DEF Local
<1> QED  BY <1>7 DEF v

\* disconnect, whatever waits for it: connect and destroy.
LEMMA DisconnectLocal ==
  ASSUME NEW w, NEW O, NEW M, Good(w, O, M), NEW c \in Conns, NEW token \in Tokens,
         NEW then \in {"update", "connect", "destroy"}, c \in M,
         then = "connect" => RoomForClient(w), then = "destroy" => c \notin O
  PROVE  Local(w, Disconnect(w, c, then, token), {c})
<1> DEFINE k == w.delegates[c].client
           v == Disconnect(w, c, then, token)
<1>1. w \in Worlds /\ (k = NoClient \/ k \in ClientIds)
  BY DEF Good, Worlds, Delegates
<1>2. then = "connect" => Free(w) # {}
  BY RoomNotEmpty
<1>3. CASE k = NoClient /\ then = "update"
  <2>1. v = w
    BY <1>3 DEF Disconnect
  <2> QED  BY <1>1, <2>1, QuietLocal
<1>4. CASE k = NoClient /\ then # "update"
  <2>1. v = Callback(w, c, then, token)
    BY <1>4 DEF Disconnect
  <2> QED  BY <1>1, <1>2, <2>1, CallbackLocal
<1>5. CASE k \in ClientIds /\ w.clients[k].ending
  <2>1. v = AfterEnd(w, c, then, token)
    BY <1>5, DelegateBoundsAssumption DEF Disconnect, ClientIds, NoClient
  <2> QED  BY <1>2, <2>1, AfterEndLocal
<1>6. CASE k \in ClientIds /\ ~w.clients[k].ending
  <2>1. v = Ending(w, k, then, token)
    BY <1>6, DelegateBoundsAssumption DEF Disconnect, ClientIds, NoClient, Ending
  <2> QED  BY <1>6, <2>1, EndingLocal
<1> QED  BY <1>1, <1>3, <1>4, <1>5, <1>6

\* A client that closes, at once or late, or ends;
LEMMA CloseLocal ==
  ASSUME NEW O, NEW M, Good(World, O, M), NEW k \in ClientIds,
         clients[k].st = "connected" \/ Trying(k)
  PROVE  Local(World, OnClose(k), {clients[k].conn})
<1> DEFINE x == [clients[k] EXCEPT !.st = "offline"]
           v == SetClient(World, k, x)
<1>1. /\ World \in Worlds /\ clients \in [ClientIds -> Clients(Tokens)]
      /\ clients[k] \in Clients(Tokens) /\ clients[k].conn \in Conns
  BY ClientIs
<1>2. x \in Clients(Tokens) /\ x.conn = clients[k].conn /\ x.st = "offline"
  BY <1>1 DEF Clients, ClientState
<1>3. OnClose(k) = UpdateStore(v, clients[k].conn)
  BY <1>1 DEF OnClose, SetClient, World
<1> HIDE DEF x
<1>4. Local(World, v, {clients[k].conn}) /\ v \in Worlds
  <2>1. x.st # "unused" /\ x.st # "connected" /\ x.conn = World.clients[k].conn
    BY <1>2, WorldIs
  <2>2. Local(World, SetClient(World, k, x), {x.conn}) /\ SetClient(World, k, x) \in Worlds
    BY <1>1, <1>2, <2>1, SetClientLocal, SetClientIs
  <2> QED  BY <1>2, <2>2
<1> HIDE DEF v
<1> QED  BY <1>1, <1>3, <1>4, UpdateStoreLocal, LocalTwice

LEMMA LateCloseLocal ==
  ASSUME NEW O, NEW M, Good(World, O, M), NEW k \in ClientIds, clients[k].st = "closing"
  PROVE  Local(World, OnLateClose(k), {clients[k].conn})
<1> DEFINE x == [clients[k] EXCEPT !.st = "ended"]
           v == SetClient(World, k, x)
<1>1. /\ World \in Worlds /\ clients \in [ClientIds -> Clients(Tokens)]
      /\ clients[k] \in Clients(Tokens) /\ clients[k].conn \in Conns
  BY ClientIs
<1>2. x \in Clients(Tokens) /\ x.conn = clients[k].conn /\ x.st = "ended"
  BY <1>1 DEF Clients, ClientState
<1>3. OnLateClose(k) = UpdateStore(v, clients[k].conn)
  BY <1>1 DEF OnLateClose, SetClient, World
<1> HIDE DEF x
<1>4. Local(World, v, {clients[k].conn}) /\ v \in Worlds
  <2>1. x.st # "unused" /\ x.st # "connected" /\ x.conn = World.clients[k].conn
    BY <1>2, WorldIs
  <2>2. Local(World, SetClient(World, k, x), {x.conn}) /\ SetClient(World, k, x) \in Worlds
    BY <1>1, <1>2, <2>1, SetClientLocal, SetClientIs
  <2> QED  BY <1>2, <2>2
<1> HIDE DEF v
<1> QED  BY <1>1, <1>3, <1>4, UpdateStoreLocal, LocalTwice

LEMMA EndLocal ==
  ASSUME NEW O, NEW M, Good(World, O, M), Room(World), NEW k \in ClientIds,
         clients[k].ending, clients[k].st \in {"connecting", "offline"}
  PROVE  Local(World, OnEnd(k), {clients[k].conn})
<1> DEFINE c == clients[k].conn
           x == Over(k)
           v == SetClient(World, k, x)
           w1 == UpdateStore(v, c)
           then == clients[k].then
           w2 == AfterEnd(w1, c, then, clients[k].next)
<1>1. /\ World \in Worlds /\ clients[k] \in Clients(Tokens) /\ c \in Conns /\ c \in M
      /\ then = "destroy" => c \notin O
  BY ClientIs
<1>2. then \in {"update", "connect", "destroy"} /\ clients[k].next \in Tokens
  BY <1>1, WorldIs DEF Good, CallbackKnown, Clients, Continuations
<1>3. /\ x \in Clients(Tokens) /\ x.then = "" /\ x.conn = c /\ x.st \in {"closing", "ended"}
  BY <1>1, OverIs
<1>4. Goes(clients[k], x)
  BY <1>3 DEF Goes
<1>5. OnEnd(k) = w2
  BY DEF OnEnd, SetClient
<1> HIDE DEF x
<1>6. Local(World, v, {c}) /\ v \in Worlds
  <2> HIDE DEF w1, w2, then
  <2>1. World.clients[k].conn = x.conn /\ World.clients[k].conn = c
    BY <1>3, WorldIs
  <2>2. Local(World, SetClient(World, k, x), {x.conn}) /\ SetClient(World, k, x) \in Worlds
    BY <1>1, <1>3, <2>1, SetClientLocal, SetClientIs
  <2> QED  BY <1>3, <2>2
<1>7. /\ Good(w1, O, M) /\ SameRoom(World, w1)
      /\ \A j \in ClientIds : w1.clients[j] = IF j = k THEN x ELSE clients[j]
  <2> HIDE DEF w1, w2, v, then, c
  <2>1. x \in Clients(Tokens) /\ Goes(clients[k], x)
    BY <1>3, <1>4
  <2>2. \A u : u = UpdateStore(SetClient(World, k, x), clients[k].conn) =>
          /\ Good(u, O, M) /\ SameRoom(World, u)
          /\ \A j \in ClientIds : u.clients[j] = IF j = k THEN x ELSE clients[j]
    BY <2>1, ToldOfClient
  <2>3. w1 = UpdateStore(SetClient(World, k, x), clients[k].conn)
    BY DEF w1, v, c
  <2> QED  BY <2>2, <2>3
<1> HIDE DEF v
<1>8. w1 \in Worlds /\ Local(World, w1, {c})
  BY <1>1, <1>6, UpdateStoreLocal, LocalTwice
<1> HIDE DEF w1
<1>9. then = "connect" => Free(w1) # {}
  <2>1. HAVE then = "connect"
  <2>2. k \in Waiting(World) /\ Free(w1) = Free(World)
    BY <1>7, <2>1, WorldIs DEF Waiting, SameRoom
  <2> QED  BY <2>2, RoomNotEmpty
<1>10. Local(w1, w2, {c}) /\ w2 \in Worlds
  <2>1. Local(w1, w2, {c})
    BY <1>1, <1>2, <1>7, <1>9, AfterEndLocal
  <2>2. Good(w2, O, M)
    BY <1>1, <1>2, <1>7, <1>9, AfterEndGood
  <2> QED  BY <2>1, <2>2 DEF Good
<1> HIDE DEF w2
<1> QED  BY <1>1, <1>5, <1>8, <1>10, LocalTwice

\* ... and the timer of a client, which may end another one.
LEMMA ReconnectLocal ==
  ASSUME NEW O, NEW M, Good(World, O, M), NEW k \in ClientIds,
         clients[k].st = "offline", ~clients[k].ending
  PROVE  Local(World, OnReconnect(k), {clients[k].conn})
<1> DEFINE c == clients[k].conn
           x == [clients[k] EXCEPT !.st = IF delegates[c].client = k
                                          THEN clients[k].st ELSE "connecting"]
           y == [clients[k] EXCEPT !.st = "connecting"]
<1>1. /\ World \in Worlds /\ clients \in [ClientIds -> Clients(Tokens)]
      /\ clients[k] \in Clients(Tokens) /\ c \in Conns /\ c \in M
      /\ delegates \in [Conns -> Delegates]
  BY ClientIs, WorldIs DEF Worlds
<1>2. /\ x \in Clients(Tokens) /\ x.conn = c /\ x.st \in {"offline", "connecting"}
      /\ x.then = clients[k].then /\ x.ending = clients[k].ending
  BY <1>1 DEF Clients, ClientState
<1>3. y \in Clients(Tokens) /\ y.conn = c /\ y.st = "connecting"
  BY <1>1 DEF Clients, ClientState
<1>4. CASE delegates[c].retryTimes < RetryLimit
  <2> DEFINE v == SetClient(World, k, y)
             u == [[v EXCEPT !.delegates[c].retryTimes = @ + 1] EXCEPT !.connecting = TRUE]
  <2>1. OnReconnect(k) = u
    BY <1>1, <1>4 DEF OnReconnect, SetClient, World
  <2>2. Local(World, v, {c}) /\ v \in Worlds
    <3> HIDE DEF y, c
    <3>1. y.st # "unused" /\ y.st # "connected" /\ y.conn = World.clients[k].conn
      BY <1>3, WorldIs DEF c
    <3>2. Local(World, SetClient(World, k, y), {y.conn}) /\ SetClient(World, k, y) \in Worlds
      BY <1>1, <1>3, <3>1, SetClientLocal, SetClientIs
    <3> QED  BY <1>3, <3>2
  <2> HIDE DEF v
  <2>3. v.delegates \in [Conns -> Delegates]
    BY <2>2 DEF Worlds
  <2>4. u.clients = v.clients
        /\ u.delegates = [v.delegates EXCEPT ![c].retryTimes = @ + 1]
    BY <2>2 DEF Worlds
  <2>5. \A d \in Conns : u.delegates[d].client = v.delegates[d].client
    BY <2>3, <2>4 DEF Delegates
  <2> HIDE DEF u
  <2>6. Local(World, u, {c})
    <3> HIDE DEF c
    <3> QED  BY <1>1, <2>2, <2>4, <2>5 DEF Local, IsConnected, Online
  <2> QED  BY <2>1, <2>6
<1>5. CASE ~(delegates[c].retryTimes < RetryLimit)
  <2> DEFINE v == SetClient(World, k, x)
  <2>1. OnReconnect(k) = Cancel(v, c)
    BY <1>1, <1>5 DEF OnReconnect, SetClient, World
  <2>2. Local(World, v, {c}) /\ v \in Worlds
    <3> HIDE DEF x
    <3>1. x.st # "unused" /\ x.st # "connected" /\ x.conn = World.clients[k].conn
      BY <1>2, WorldIs
    <3> QED  BY <1>1, <1>2, <3>1, SetClientLocal, SetClientIs
  <2>3. Goes(clients[k], x)
    BY <1>2, WorldIs DEF Goes
  <2>4. Good(v, O, M)
    <3> HIDE DEF x, c
    <3>1. Sound(v, O, M)
      BY <1>2, <2>3, SetClientSound, WorldIs
    <3>2. /\ v.connecting = connecting
          /\ \A j \in ClientIds : v.clients[j] = IF j = k THEN x ELSE clients[j]
      <4>1. /\ v.connecting = World.connecting
            /\ \A j \in ClientIds : v.clients[j] = IF j = k THEN x ELSE World.clients[j]
        BY <1>1, <1>2, SetClientIs
      <4> QED  BY <4>1, WorldIs
    <3> HIDE DEF v
    <3>3. connecting => \E j \in ClientIds : j # k /\ clients[j].st = "connecting"
      BY WorldIs DEF Good, HasCause
    <3>4. HasCause(v)
      BY <3>2, <3>3 DEF HasCause
    <3> QED  BY <3>1, <3>4 DEF Sound, Good
  <2> HIDE DEF v
  <2>5. 0 \in Tokens
    BY ZeroToken
  <2>6. Local(v, Cancel(v, c), {c}) /\ Good(Cancel(v, c), O, M)
    BY <1>1, <2>4, <2>5, DisconnectLocal, DisconnectGood DEF Cancel
  <2> QED  BY <1>1, <2>1, <2>2, <2>6, LocalTwice DEF Good
<1> QED  BY <1>4, <1>5

\* Topics and what the broker has answered are no matter of a connection's.
LEMMA SameLinksLocal ==
  ASSUME NEW w, NEW v,
         \A d \in Conns : v.delegates[d].client = w.delegates[d].client,
         \A k \in ClientIds : /\ v.clients[k].st = w.clients[k].st
                              /\ v.clients[k].conn = w.clients[k].conn
                              /\ v.clients[k].ending = w.clients[k].ending
  PROVE  \A C : Local(w, v, C)
BY DEF Local

-----------------------------------------------------------------------------
(* Removals.                                                               *)

\* A delegate that is there is not made.
LEMMA SelectMadeLocal ==
  ASSUME NEW w \in Worlds, NEW c \in Conns, w.delegates[c].made
  PROVE  SelectConnection(w, c) \in Worlds /\ \A C : Local(w, SelectConnection(w, c), C)
<1>1. GetDelegate(w, c) = w
  BY DEF GetDelegate
<1> QED  BY <1>1, UpdateStoreLocal DEF SelectConnection

\* A removal is local to what is not listed after it.
LEMMA RemoveConnectionLocal ==
  ASSUME NEW M \in SUBSET Conns, NEW s, Removing(s, M), Range(s.order) \subseteq M, NEW c \in M
  PROVE  LET t == RemoveConnection(s, c)
         IN  Local(s.world, t.world, Conns \ Range(t.order))
<1> DEFINE rest == Without(s.order, c)
           w1 == IF rest = <<>> THEN s.world ELSE SelectConnection(s.world, Head(rest))
           w2 == ForgetStore(w1, c)
           w3 == IF w2.delegates[c].made THEN Destroy(w2, c) ELSE w2
           O == Range(rest)
           C == Conns \ O
<1>1. /\ rest \in Seq(Conns) /\ IsInjective(rest) /\ O \subseteq Range(s.order) /\ c \notin O
  BY WithoutIs DEF Removing
<1>2. RemoveConnection(s, c) = [world |-> w3, order |-> rest, current |-> FirstOf(rest)]
  BY DEF RemoveConnection
<1>3. rest # <<>> => Head(rest) \in O /\ Head(rest) \in Conns
  <2>1. HAVE rest # <<>>
  <2>2. Len(rest) >= 1 /\ 1 \in DOMAIN rest /\ Head(rest) = rest[1]
    BY <1>1, <2>1, EmptySeq, LenProperties, HeadTailProperties
  <2> QED  BY <1>1, <2>2 DEF Range
<1> HIDE DEF rest
<1>4. Good(s.world, O, M) /\ s.world \in Worlds
  BY <1>1, FewerListed DEF Removing, Good
<1>5. Good(w1, O, M) /\ w1 \in Worlds /\ Local(s.world, w1, C)
  <2>1. CASE rest = <<>>
    BY <1>4, <2>1, QuietLocal
  <2>2. CASE rest # <<>>
    <3>1. s.world.delegates[Head(rest)].made
      BY <1>3, <1>4, <2>2 DEF Good, FreshStart
    <3>2. Local(s.world, w1, C) /\ w1 \in Worlds
      BY <1>3, <1>4, <2>2, <3>1, SelectMadeLocal
    <3> QED  BY <1>3, <1>4, <2>2, <3>2, SelectConnectionGood
  <2> QED  BY <2>1, <2>2
<1> HIDE DEF w1
<1>6. c \in Conns /\ {c} \subseteq C
  BY <1>1
<1> HIDE DEF C
<1>7. Good(w2, O, M) /\ w2 \in Worlds /\ Local(s.world, w2, C)
  <2>1. Good(w2, O, M)
    BY <1>5, <1>6, ForgetStoreGood
  <2>2. w2 \in Worlds /\ Local(w1, w2, C)
    BY <1>5, <1>6, UpdateStoreLocal
  <2> HIDE DEF w2
  <2> QED  BY <1>4, <1>5, <2>1, <2>2, LocalTwice
<1> HIDE DEF w2
<1>8. Local(s.world, w3, C)
  <2>1. CASE w2.delegates[c].made
    <3>1. w3 = Destroy(w2, c)
      BY <2>1
    <3>2. Good(w3, O, M) /\ Local(w2, w3, {c})
      BY <1>1, <1>6, <1>7, <3>1, ZeroToken, DisconnectGood, DisconnectLocal DEF Destroy
    <3> HIDE DEF w3
    <3>3. w3 \in Worlds /\ Local(w2, w3, C)
      BY <1>6, <3>2, LocalMore DEF Good
    <3> QED  BY <1>4, <1>7, <3>3, LocalTwice
  <2>2. CASE ~w2.delegates[c].made
    BY <1>7, <2>2
  <2> QED  BY <2>1, <2>2
<1> HIDE DEF w3
<1> QED  BY <1>2, <1>8 DEF C

\* So are the removals of the connections of a thing.
LEMMA RemovalsLocal ==
  ASSUME made \in SUBSET Conns, Removing(Present, made), Range(order) \subseteq made,
         order \in Seq(Conns)
  PROVE  LET t == Removals[Len(order)]
         IN  Local(World, t.world, Conns \ Range(t.order))
<1> DEFINE Fine(s) == /\ Removing(s, made) /\ Further(Present, s)
                      /\ Local(World, s.world, Conns \ Range(s.order))
           S == {n \in Nat : n <= Len(order) => Fine(Removals[n])}
<1>1. Len(order) \in Nat /\ DOMAIN order = 1 .. Len(order)
  BY LenProperties
<1>2. Present.order = order /\ Present.world = World
  BY DEF Present
<1>3. Fine(Present)
  <2>1. Further(Present, Present)
    BY DEF Further, Calm, SameRoom
  <2>2. World \in Worlds
    BY <1>2 DEF Removing, Good
  <2> QED  BY <1>2, <2>1, <2>2, QuietLocal
<1>4. ASSUME NEW s, Fine(s), NEW c \in made  PROVE Fine(RemoveConnection(s, c))
  <2> DEFINE t == RemoveConnection(s, c)
  <2>1. Range(s.order) \subseteq made
    BY <1>2, <1>4 DEF Further
  <2>2. Removing(t, made) /\ Further(s, t)
    BY <1>4, <2>1, RemoveConnectionGood
  <2>3. Local(s.world, t.world, Conns \ Range(t.order))
    BY <1>4, <2>1, RemoveConnectionLocal
  <2> HIDE DEF t
  <2>4. Further(Present, t)
    BY <1>4, <2>2, FurtherTwice
  <2>5. Local(World, s.world, Conns \ Range(t.order))
    <3>1. Conns \ Range(s.order) \subseteq Conns \ Range(t.order)
      BY <2>2 DEF Further
    <3> QED  BY <1>4, <3>1, LocalMore
  <2>6. World \in Worlds /\ s.world \in Worlds /\ t.world \in Worlds
    BY <1>2, <1>4, <2>2 DEF Removing, Good
  <2>7. Local(World, t.world, Conns \ Range(t.order))
    BY <2>3, <2>5, <2>6, LocalTwice
  <2> QED  BY <2>2, <2>4, <2>7 DEF t
<1> HIDE DEF Fine
<1>5. 0 \in S
  <2>1. Removals[0] = Present
    BY <1>1, RemovalsIs
  <2> QED  BY <1>3, <2>1
<1>6. ASSUME NEW n \in Nat, n \in S PROVE n + 1 \in S
  <2>1. SUFFICES ASSUME n + 1 <= Len(order) PROVE Fine(Removals[n + 1])
    BY <1>6
  <2>2. Fine(Removals[n])
    BY <1>1, <1>6, <2>1
  <2>3. Removals[n + 1] = RemovalsStep(n + 1, Removals[n])
    <3>1. n + 1 \in 0 .. Len(order) /\ n + 1 # 0 /\ (n + 1) - 1 = n
      BY <1>1, <2>1
    <3> QED  BY <1>1, <3>1, RemovalsIs
  <2>4. order[n + 1] \in made
    BY <1>1, <2>1 DEF Range
  <2> DEFINE s == Removals[n]
  <2> HIDE DEF s
  <2>5. Fine(s) /\ Fine(RemoveConnection(s, order[n + 1]))
    BY <1>4, <2>2, <2>4 DEF s
  <2>6. Fine(RemovalsStep(n + 1, s))
    BY <2>5 DEF RemovalsStep
  <2> QED  BY <2>3, <2>6 DEF s
<1> HIDE DEF S
<1>7. Nat \subseteq S
  BY <1>5, <1>6, NatSetInduction
<1>8. Fine(Removals[Len(order)])
  BY <1>1, <1>7 DEF S
<1> QED  BY <1>8 DEF Fine

-----------------------------------------------------------------------------
(* The statuses.                                                           *)

\* The status of a connection, now
LEMMA StatusIs ==
  ASSUME Range(order) \subseteq made, NEW c
  PROVE  Status(c) = IF c \notin made THEN "fresh"
                     ELSE IF c \notin Range(order) THEN "gone" ELSE Phase(World, c)
<1>1. CASE c \notin made
  BY <1>1 DEF Status, Listed
<1>2. CASE c \in made /\ c \notin Range(order)
  BY <1>2 DEF Status, Listed
<1>3. CASE c \in Range(order)
  BY <1>3, WorldIs DEF Status, Listed, Phase, IsConnected, Online
<1> QED  BY <1>1, <1>2, <1>3

\* ... and after a step.
LEMMA StatusNextIs ==
  ASSUME Range(order') \subseteq made', NEW c, NEW v, v = World'
  PROVE  Status(c)' = IF c \notin made' THEN "fresh"
                      ELSE IF c \notin Range(order') THEN "gone" ELSE Phase(v, c)
<1>1. /\ v.clients = clients' /\ v.delegates = delegates'
      /\ World'.clients = clients' /\ World'.delegates = delegates'
  BY DEF World
<1>2. CASE c \notin made'
  BY <1>2 DEF Status, Listed
<1>3. CASE c \in made' /\ c \notin Range(order')
  BY <1>3 DEF Status, Listed
<1>4. CASE c \in Range(order')
  BY <1>1, <1>4 DEF Status, Listed, Phase, IsConnected, Online
<1> QED  BY <1>2, <1>3, <1>4

Held == [c \in Conns |-> Status(c)]
Moves == Abstract!Next \/ Held' = Held

\* One status changes, as ConnStatus allows.
LEMMA OneMoves ==
  ASSUME NEW c \in Conns, NEW s, Status(c)' = s,
         \A d \in Conns \ {c} : Status(d)' = Status(d),
         \/ s = Status(c)
         \/ Status(c) = "fresh" /\ s \in {"idle", "trying"}
         \/ Status(c) \in {"idle", "up"} /\ s = "trying"
         \/ Status(c) = "trying" /\ s = "up"
         \/ Status(c) \in {"trying", "up"} /\ s = "idle"
  PROVE  Moves
<1>1. Held' = [Held EXCEPT ![c] = s] /\ Held[c] = Status(c)
  BY DEF Held
<1>2. ASSUME NEW from, NEW to, Status(c) \in from, s \in to
      PROVE  Abstract!Move(c, from, to)
  BY <1>1, <1>2 DEF Abstract!Move, Held
<1>3. CASE s = Status(c)
  BY <1>1, <1>3 DEF Moves, Held
<1>4. CASE Status(c) = "fresh" /\ s \in {"idle", "trying"}
  <2>1. Abstract!Create(c)
    BY <1>2, <1>4 DEF Abstract!Create
  <2> QED  BY <2>1 DEF Moves, Abstract!Next
<1>5. CASE Status(c) \in {"idle", "up"} /\ s = "trying"
  <2>1. Abstract!Start(c)
    BY <1>2, <1>5 DEF Abstract!Start
  <2> QED  BY <2>1 DEF Moves, Abstract!Next
<1>6. CASE Status(c) = "trying" /\ s = "up"
  <2>1. Abstract!Succeed(c)
    BY <1>2, <1>6 DEF Abstract!Succeed
  <2> QED  BY <2>1 DEF Moves, Abstract!Next
<1>7. CASE Status(c) \in {"trying", "up"} /\ s = "idle"
  <2>1. Abstract!Stop(c)
    BY <1>2, <1>7 DEF Abstract!Stop
  <2> QED  BY <2>1 DEF Moves, Abstract!Next
<1> QED  BY <1>3, <1>4, <1>5, <1>6, <1>7

LEMMA PhaseType == \A w, c : Phase(w, c) \in {"idle", "trying", "up"}
BY DEF Phase

\* What the steps below have in common.
Now(v) == ConsoleInv /\ ConsoleInv' /\ v = World'

LEMMA NowIs ==
  ASSUME NEW v, Now(v)
  PROVE  /\ Good(World, Range(order), made) /\ World \in Worlds /\ v \in Worlds
         /\ Range(order) \subseteq made /\ Range(order') \subseteq made'
         /\ made \subseteq Conns
<1>1. World \in Worlds /\ v \in Worlds
  BY DEF Now, ConsoleInv, WorldInv, Good
<1> QED  BY <1>1 DEF Now, ConsoleInv, WorldInv, ListInv

\* A step that is local to one connection of an unchanged list.
LEMMA LocalMoves ==
  ASSUME NEW v, Now(v), made' = made, Range(order') = Range(order),
         NEW c \in Conns, Local(World, v, {c})
  PROVE  Moves
<1>1. /\ \A d : Status(d) = IF d \notin made THEN "fresh"
                            ELSE IF d \notin Range(order) THEN "gone" ELSE Phase(World, d)
      /\ \A d : Status(d)' = IF d \notin made THEN "fresh"
                             ELSE IF d \notin Range(order) THEN "gone" ELSE Phase(v, d)
  BY NowIs, StatusIs, StatusNextIs DEF Now
<1>2. \A d \in Conns \ {c} : Phase(v, d) = Phase(World, d)
  BY NowIs, OthersKeepPhase
<1>3. Phase(v, c) = "up" => Phase(World, c) = "up"
  BY NowIs, NoneComesUp
<1>4. Phase(World, c) \in {"idle", "trying", "up"} /\ Phase(v, c) \in {"idle", "trying", "up"}
  BY PhaseType
<1>5. \A d \in Conns \ {c} : Status(d)' = Status(d)
  BY <1>1, <1>2
<1>6. CASE c \in made /\ c \in Range(order)
  <2>1. Status(c) = Phase(World, c) /\ Status(c)' = Phase(v, c)
    BY <1>1, <1>6
  <2> QED  BY <1>3, <1>4, <1>5, <2>1, OneMoves
<1>7. CASE ~(c \in made /\ c \in Range(order))
  <2>1. Status(c)' = Status(c)
    BY <1>1, <1>7
  <2> QED  BY <1>5, <2>1, OneMoves
<1> QED  BY <1>6, <1>7

\* A step that is local to no connection: the statuses stay.
LEMMA QuietMoves ==
  ASSUME NEW v, Now(v), made' = made, Range(order') = Range(order),
         \A C : Local(World, v, C)
  PROVE  Moves
<1>1. PICK c \in Conns : TRUE
  BY ConnsAssumption
<1> QED  BY LocalMoves

\* Connections are removed.
LEMMA RemovalMoves ==
  ASSUME NEW v, Now(v), made' = made, Range(order') \subseteq Range(order),
         Local(World, v, Conns \ Range(order'))
  PROVE  Moves
<1> DEFINE C == Range(order) \ Range(order')
<1>1. /\ \A d : Status(d) = IF d \notin made THEN "fresh"
                            ELSE IF d \notin Range(order) THEN "gone" ELSE Phase(World, d)
      /\ \A d : Status(d)' = IF d \notin made THEN "fresh"
                             ELSE IF d \notin Range(order') THEN "gone" ELSE Phase(v, d)
  BY NowIs, StatusIs, StatusNextIs DEF Now
<1>2. /\ C \subseteq Conns /\ Range(order) \subseteq made
      /\ \A d \in Range(order') : Phase(v, d) = Phase(World, d)
  <2>1. C \subseteq Conns /\ Range(order') \subseteq Conns /\ Range(order) \subseteq made
    BY NowIs
  <2>2. \A d \in Conns \ (Conns \ Range(order')) : Phase(v, d) = Phase(World, d)
    BY NowIs, OthersKeepPhase
  <2> QED  BY <2>1, <2>2
<1>3. \A c \in C : Status(c) \in {"idle", "trying", "up"}
  BY <1>1, <1>2, PhaseType
<1>4. \A d \in Conns : Status(d)' = IF d \in C THEN "gone" ELSE Status(d)
  BY <1>1, <1>2
<1>5. Abstract!Remove(C)
  <2>1. \A c \in C : [d \in Conns |-> Status(d)][c] \in {"idle", "trying", "up"}
    BY <1>2, <1>3
  <2>2. [d \in Conns |-> Status(d)]' =
          [d \in Conns |-> IF d \in C THEN "gone" ELSE [e \in Conns |-> Status(e)][d]]
    BY <1>4
  <2> HIDE DEF C
  <2> QED  BY <2>1, <2>2 DEF Abstract!Remove
<1>6. C \in SUBSET Conns
  BY <1>2
<1> HIDE DEF C
<1> QED  BY <1>5, <1>6 DEF Moves, Abstract!Next

-----------------------------------------------------------------------------
(* The steps.                                                              *)

\* A step that becomes w leads to a world with the parts of w.
LEMMA NowBecomes ==
  ASSUME NEW v, Now(v), NEW w, Become(w)
  PROVE  /\ v.clients = w.clients /\ v.delegates = w.delegates
         /\ \A C : Local(World, w, C) => Local(World, v, C)
<1>1. v.clients = w.clients /\ v.delegates = w.delegates
  BY DEF Now, Become, World
<1> QED  BY <1>1 DEF Local, IsConnected, Online

\* A step that leaves the delegates alone.
LEMMA StillMoves ==
  ASSUME NEW v, Now(v), UNCHANGED <<delegateVars, made>>, Range(order') = Range(order)
  PROVE  Moves
<1>1. v.clients = World.clients /\ v.delegates = World.delegates
  BY WorldIs DEF Now, World, delegateVars
<1> QED  BY <1>1, NowIs, QuietLocal, QuietMoves

\* Forms, and requests that are sent.
LEMMA FormMoves ==
  ASSUME NEW v, Now(v),
         \/ ShowCreateForm \/ ShowCreateFormOfThing \/ ShowEditForm \/ HideForm \/ SwitchView
         \/ ShowSubsForm
         \/ \E c \in Conns : SubscribeAll(c) \/ UnsubscribeAll(c) \/ Publish(c)
         \/ \E t \in Topics : Subscribe(t) \/ Unsubscribe(t) \/ AddSubscription(t)
  PROVE  Moves
<1>1. UNCHANGED <<delegateVars, made, order>>
  BY DEF ShowCreateForm, ShowCreateFormOfThing, ShowEditForm, HideForm, SwitchView,
         ShowSubsForm, SubscribeAll, UnsubscribeAll, Publish, Subscribe, Unsubscribe,
         AddSubscription
<1> QED  BY <1>1, StillMoves

\* setConnConfig adds none to the list.
LEMMA SetConnConfigIs ==
  ASSUME NEW c, NEW conf, SetConnConfig(c, conf)  PROVE order' = order
BY DEF SetConnConfig, SetConfigs

\* A subscription is deleted, or its topic changed.
LEMMA SubscriptionMoves ==
  ASSUME NEW v, Now(v), NEW t \in Topics, DeleteSubscription(t) \/ EditSubscription(t)
  PROVE  Moves
<1>1. CASE DeleteSubscription(t)
  <2>1. UNCHANGED <<delegateVars, made>> /\ order' = order
    BY <1>1, SetConnConfigIs DEF DeleteSubscription
  <2> QED  BY <2>1, StillMoves
<1>2. CASE EditSubscription(t)
  <2> DEFINE w == RemoveTopic(World, current, dialog.topic)
  <2>1. UNCHANGED <<order, made>> /\ current \in Conns /\ (Become(World) \/ Become(w))
    BY <1>2, NowIs, BecomeWorld DEF EditSubscription, Listed
  <2>2. CASE Become(World)
    <3>1. \A C : Local(World, v, C)
      BY <2>2, NowBecomes, NowIs, QuietLocal
    <3> QED  BY <2>1, <3>1, QuietMoves
  <2>3. CASE Become(w)
    <3>1. World.delegates \in [Conns -> Delegates]
      BY NowIs DEF Worlds
    <3> DEFINE u == [World EXCEPT !.delegates[current].subs = @ \ {dialog.topic}]
    <3>2. /\ w.clients = World.clients
          /\ \A d \in Conns : w.delegates[d].client = World.delegates[d].client
      <4>1. CASE World.delegates[current].made
        <5>1. w = UpdateStore(u, current)
          BY <4>1 DEF RemoveTopic
        <5>2. w.clients = u.clients /\ w.delegates = u.delegates
          BY <5>1 DEF UpdateStore, World
        <5>3. /\ u.clients = World.clients
              /\ u.delegates = [World.delegates EXCEPT ![current].subs = @ \ {dialog.topic}]
          BY DEF World
        <5> HIDE DEF u, w
        <5> QED  BY <3>1, <5>2, <5>3 DEF Delegates
      <4>2. CASE ~World.delegates[current].made
        BY <4>2 DEF RemoveTopic
      <4> QED  BY <4>1, <4>2
    <3> HIDE DEF w
    <3>3. \A C : Local(World, v, C)
      BY <2>3, <3>2, NowBecomes, SameLinksLocal
    <3> QED  BY <2>1, <3>3, QuietMoves
  <2> QED  BY <2>1, <2>2, <2>3
<1> QED  BY <1>1, <1>2

\* A connection is selected, also one that is gone, or its messages cleared.
LEMMA SelectMoves ==
  ASSUME NEW v, Now(v), EditDoneRemoved \/ ClearMessages \/ \E c \in Conns : Select(c)
  PROVE  Moves
<1>1. PICK c \in Conns : Become(SelectConnection(World, c)) /\ UNCHANGED <<order, made>>
  <2>1. CASE EditDoneRemoved
    <3>1. dialog.conn \in Conns
      BY <2>1, NowIs DEF EditDoneRemoved, Now, ConsoleInv, FormInv
    <3> QED  BY <2>1, <3>1, SetConnConfigIs DEF EditDoneRemoved
  <2>2. CASE ClearMessages
    <3>1. current \in Conns
      BY <2>2, NowIs DEF ClearMessages, Listed
    <3> QED  BY <2>2, <3>1 DEF ClearMessages, SelectConnection, consoleVars
  <2>3. CASE \E c \in Conns : Select(c)
    BY <2>3 DEF Select
  <2> QED  BY <2>1, <2>2, <2>3
<1>2. Local(World, v, {c})
  BY <1>1, NowBecomes, NowIs, SelectConnectionLocal
<1> QED  BY <1>1, <1>2, LocalMoves

\* connect of a connection in the list.
LEMMA DelegateConnectsLocal ==
  ASSUME ConsoleInv, RoomForClient(World), NEW c \in Range(order), NEW token \in Tokens
  PROVE  /\ Local(World, Connect(GetDelegate(World, c), c, token), {c})
         /\ Local(World, Connect(SelectConnection(World, c), c, token), {c})
<1>1. /\ c \in made /\ c \in Conns /\ Good(World, Range(order), made) /\ World \in Worlds
  BY DEF ConsoleInv, ListInv, WorldInv, Good
<1>2. ASSUME NEW w, Good(w, Range(order), made), SameRoom(World, w), Local(World, w, {c})
      PROVE  Local(World, Connect(w, c, token), {c})
  <2>1. RoomForClient(w)
    BY <1>2, SameRoomKeeps
  <2>2. /\ Local(w, Connect(w, c, token), {c})
        /\ Good(Connect(w, c, token), Range(order), made)
    BY <1>1, <1>2, <2>1, DisconnectLocal, DisconnectGood DEF Connect
  <2>3. w \in Worlds /\ Connect(w, c, token) \in Worlds
    BY <1>2, <2>2 DEF Good
  <2> QED  BY <1>1, <1>2, <2>2, <2>3, LocalTwice
<1>3. /\ Good(GetDelegate(World, c), Range(order), made)
      /\ SameRoom(World, GetDelegate(World, c))
      /\ Local(World, GetDelegate(World, c), {c})
  BY <1>1, GetDelegateGood, GetDelegateLocal
<1>4. /\ Good(SelectConnection(World, c), Range(order), made)
      /\ SameRoom(World, SelectConnection(World, c))
      /\ Local(World, SelectConnection(World, c), {c})
  BY <1>1, SelectConnectionGood, SelectConnectionLocal
<1> QED  BY <1>2, <1>3, <1>4

\* connect, and disconnect.
LEMMA ConnectMoves ==
  ASSUME NEW v, Now(v),
         PanelConnect \/ EditDone \/ \E c \in Conns : ThingConnect(c) \/ Disconn(c)
  PROVE  Moves
<1>1. ConsoleInv /\ World \in Worlds
  BY NowIs DEF Now
<1>2. ASSUME NEW c \in Range(order), NEW w, Become(w), Local(World, w, {c}),
             made' = made, Range(order') = Range(order)
      PROVE  Moves
  <2>1. c \in Conns
    BY NowIs
  <2>2. Local(World, v, {c})
    BY <1>2, NowBecomes
  <2> QED  BY <1>2, <2>1, <2>2, LocalMoves
<1>3. CASE PanelConnect
  <2> DEFINE w == Connect(GetDelegate(World, current), current, 0)
  <2>1. current \in Range(order) /\ RoomForClient(World) /\ Become(w) /\ UNCHANGED <<order, made>>
    BY <1>3 DEF PanelConnect, Listed, consoleVars
  <2>2. Local(World, w, {current})
    BY <1>1, <2>1, ZeroToken, DelegateConnectsLocal
  <2> HIDE DEF w
  <2> QED  BY <1>2, <2>1, <2>2
<1>4. CASE EditDone
  <2> DEFINE c == dialog.conn
             w == Connect(SelectConnection(World, c), c, dialog.token)
  <2>1. /\ c \in Range(order) /\ RoomForClient(World) /\ Become(w) /\ UNCHANGED <<order, made>>
    BY <1>4 DEF EditDone, Done, SetConfigs, Listed
  <2>2. dialog.token \in Tokens
    BY <1>1 DEF ConsoleInv, FormInv, Dialogs
  <2>3. Local(World, w, {c})
    BY <1>1, <2>1, <2>2, DelegateConnectsLocal
  <2> HIDE DEF w, c
  <2> QED  BY <1>2, <2>1, <2>3
<1>5. ASSUME NEW c \in Conns, ThingConnect(c)  PROVE Moves
  <2> DEFINE w == Connect(GetDelegate(World, c), c, tokens')
  <2>1. /\ c \in Range(order) /\ RoomForClient(World) /\ UNCHANGED <<order, made>>
        /\ (connecting /\ UNCHANGED delegateVars) \/ Become(w)
    BY <1>5 DEF ThingConnect, Listed
  <2>2. tokens' \in Tokens
    BY <1>5, BoundsAssumption DEF ThingConnect, Now, ConsoleInv, FormInv, Tokens
  <2>3. Local(World, w, {c})
    BY <1>1, <2>1, <2>2, DelegateConnectsLocal
  <2> HIDE DEF w
  <2>4. CASE UNCHANGED delegateVars
    BY <2>1, <2>4, StillMoves
  <2>5. CASE Become(w)
    BY <1>2, <2>1, <2>3, <2>5
  <2> QED  BY <2>1, <2>4, <2>5
<1>6. ASSUME NEW c \in Conns, Disconn(c)  PROVE Moves
  <2> DEFINE w0 == GetDelegate(World, c)
             w == Cancel(w0, c)
  <2>1. c \in Range(order) /\ Become(w) /\ UNCHANGED <<order, made>>
    BY <1>6 DEF Disconn, Listed, consoleVars
  <2>2. c \in made /\ Good(World, Range(order), made)
    BY <2>1, NowIs
  <2>3. Good(w0, Range(order), made) /\ Local(World, w0, {c})
    BY <1>1, <2>2, GetDelegateGood, GetDelegateLocal
  <2> HIDE DEF w0
  <2>4. Local(w0, w, {c}) /\ Good(w, Range(order), made)
    BY <2>2, <2>3, ZeroToken, DisconnectLocal, DisconnectGood DEF Cancel
  <2> HIDE DEF w
  <2>5. Local(World, w, {c})
    BY <1>1, <2>3, <2>4, LocalTwice DEF Good
  <2> QED  BY <1>2, <2>1, <2>5
<1> QED  BY <1>3, <1>4, <1>5, <1>6

\* A connection is made: it has no client, or one that makes attempts.
LEMMA CreateMoves ==
  ASSUME NEW v, Now(v), CreateDone  PROVE Moves
<1>1. PICK c \in Conns \ made, th \in {dialog.thing, TRUE} :
        /\ made' = made \cup {c}
        /\ Done(c, [NoConfig EXCEPT !.thing = th], dialog.token)
  BY DEF CreateDone
<1> DEFINE w0 == SelectConnection(World, c)
           w == Connect(w0, c, dialog.token)
           O == Range(order) \cup {c}
<1>2. /\ order \in Seq(Conns) /\ IsInjective(order) /\ Range(order) \subseteq made
      /\ c \notin Range(order) /\ dialog.token \in Tokens
      /\ Good(World, Range(order), made) /\ World \in Worlds /\ made \subseteq Conns
  BY NowIs DEF Now, ConsoleInv, ListInv, FormInv, Dialogs
<1>3. order' = Append(order, c) /\ RoomForClient(World) /\ Become(w)
  BY <1>1, <1>2 DEF Done, SetConfigs, Listed
<1>4. Range(order') = O
  BY <1>2, <1>3, AppendIs
<1>5. Good(w0, O, made') /\ SameRoom(World, w0) /\ Local(World, w0, {c})
  BY <1>1, <1>2, NewListed, SelectConnectionLocal
<1>6. RoomForClient(w0)
  BY <1>3, <1>5, SameRoomKeeps
<1> HIDE DEF w0
<1>7. Local(w0, w, {c}) /\ Good(w, O, made')
  BY <1>1, <1>2, <1>5, <1>6, DisconnectLocal, DisconnectGood DEF Connect
<1> HIDE DEF w
<1>8. Local(World, v, {c})
  BY <1>2, <1>3, <1>5, <1>7, LocalTwice, NowBecomes DEF Good
<1>9. \A d \in Conns \ {c} : Phase(v, d) = Phase(World, d)
  BY <1>2, <1>8, NowIs, OthersKeepPhase
<1>10. Phase(v, c) \in {"idle", "trying"}
  <2>1. World.delegates[c].client = NoClient
    BY <1>1, <1>2 DEF Good, FreshStart
  <2>2. Phase(World, c) = "idle"
    BY <2>1 DEF Phase, Online
  <2>3. Phase(v, c) # "up"
    BY <1>2, <1>8, <2>2, NowIs, NoneComesUp
  <2> QED  BY <2>3, PhaseType
<1>11. /\ \A d : Status(d) = IF d \notin made THEN "fresh"
                            ELSE IF d \notin Range(order) THEN "gone" ELSE Phase(World, d)
       /\ \A d : Status(d)' = IF d \notin made \cup {c} THEN "fresh"
                              ELSE IF d \notin O THEN "gone" ELSE Phase(v, d)
  BY <1>1, <1>4, NowIs, StatusIs, StatusNextIs DEF Now
<1>12. Status(c) = "fresh" /\ Status(c)' = Phase(v, c)
  BY <1>1, <1>11
<1>13. \A d \in Conns \ {c} : Status(d)' = Status(d)
  BY <1>9, <1>11
<1> QED  BY <1>10, <1>12, <1>13, OneMoves

\* Connections are removed.
LEMMA RemovedMoves ==
  ASSUME NEW v, Now(v), RemoveCurrent \/ ThingDeleted  PROVE Moves
<1>1. /\ ConsoleInv /\ Present.order = order /\ Present.world = World
  BY DEF Now, Present
<1>2. ASSUME NEW s, Further(Present, s), Removed(s), made' = made,
             Local(World, s.world, Conns \ Range(s.order))
      PROVE  Moves
  <2>1. Become(s.world) /\ order' = s.order
    BY <1>2 DEF Removed, SetConfigs
  <2>2. Range(order') \subseteq Range(order)
    BY <1>1, <1>2, <2>1 DEF Further
  <2>3. Local(World, v, Conns \ Range(order'))
    BY <1>2, <2>1, NowBecomes
  <2> QED  BY <1>2, <2>2, <2>3, RemovalMoves
<1>3. CASE RemoveCurrent
  <2> DEFINE s == RemoveConnection(Present, current)
  <2>1. current \in made
    BY <1>1, <1>3 DEF RemoveCurrent, ConsoleInv, ListInv
  <2>2. Further(Present, s) /\ Local(World, s.world, Conns \ Range(s.order))
    BY <1>1, <2>1, PresentRemoving, RemoveConnectionGood, RemoveConnectionLocal
  <2>3. Removed(s) /\ made' = made
    BY <1>3 DEF RemoveCurrent
  <2> HIDE DEF s
  <2> QED  BY <1>2, <2>2, <2>3
<1>4. CASE ThingDeleted
  <2> DEFINE s == Removals[Len(order)]
  <2>1. Further(Present, s) /\ Local(World, s.world, Conns \ Range(s.order))
    BY <1>1, PresentRemoving, RemovalsGood, RemovalsLocal
  <2>2. Removed(s) /\ made' = made
    BY <1>4 DEF ThingDeleted
  <2> HIDE DEF s
  <2> QED  BY <1>2, <2>1, <2>2
<1> QED  BY <1>3, <1>4

\* The page is loaded again: no client is left.
LEMMA ReloadMoves ==
  ASSUME NEW v, Now(v), Reload  PROVE Moves
<1>1. order' = order /\ made' = made
  BY DEF Reload, Now, ConsoleInv, ListInv, StorageFollows
<1>2. \A c \in Conns : delegates'[c].client = NoClient
  BY LoadedDelegates DEF Reload
<1>3. \A c \in Conns : Phase(v, c) = "idle"
  <2>1. v.delegates = delegates'
    BY DEF Now, World
  <2> QED  BY <1>2, <2>1 DEF Phase, Online
<1>4. /\ \A d : Status(d) = IF d \notin made THEN "fresh"
                            ELSE IF d \notin Range(order) THEN "gone" ELSE Phase(World, d)
      /\ \A d : Status(d)' = IF d \notin made THEN "fresh"
                             ELSE IF d \notin Range(order) THEN "gone" ELSE Phase(v, d)
  BY <1>1, NowIs, StatusIs, StatusNextIs DEF Now
<1>5. \A d \in Conns : Status(d)' = IF Status(d) \in {"trying", "up"} THEN "idle" ELSE Status(d)
  BY <1>3, <1>4, PhaseType
<1>6. Abstract!Restart
  <2>1. [d \in Conns |-> Status(d)]' =
          [d \in Conns |-> IF [e \in Conns |-> Status(e)][d] \in {"trying", "up"}
                           THEN "idle" ELSE [e \in Conns |-> Status(e)][d]]
    BY <1>5
  <2> QED  BY <2>1 DEF Abstract!Restart
<1> QED  BY <1>6 DEF Moves, Abstract!Next

\* A client gets connected: an attempt of its connection succeeds, unless
\* another client has taken its place.
LEMMA SucceedMoves ==
  ASSUME NEW v, Now(v), NEW k \in ClientIds, ClientConnects(k)  PROVE Moves
<1>1. PICK c \in Conns : c = clients[k].conn
  BY NowIs, ClientIs
<1> DEFINE x == [[clients[k] EXCEPT !.st = "connected"] EXCEPT !.token = 0]
           w == OnConnect(k)
<1>2. /\ Good(World, Range(order), made) /\ World \in Worlds
      /\ clients \in [ClientIds -> Clients(Tokens)]
      /\ clients[k] \in Clients(Tokens)
  BY NowIs, ClientIs
<1>3. Trying(k) /\ Become(w) /\ UNCHANGED <<order, made>>
  BY DEF ClientConnects
<1>4. [clients[k] EXCEPT !.st = "connected"] \in Clients(Tokens)
  BY <1>2 DEF Clients, ClientState
<1>5. /\ x \in Clients(Tokens) /\ x.conn = c /\ x.st = "connected"
      /\ x.then = clients[k].then /\ x.ending = clients[k].ending
  BY <1>1, <1>2, <1>4, ZeroToken DEF Clients
<1>6. Goes(clients[k], x)
  BY <1>1, <1>3, <1>5 DEF Goes, Trying
<1>7. [World EXCEPT !.clients[k].st = "connected", !.clients[k].token = 0]
        = SetClient(World, k, x)
  BY <1>2 DEF SetClient, World
<1>8. w = UpdateStore(SetClient(World, k, x), clients[k].conn)
  BY <1>7 DEF OnConnect
<1> HIDE DEF x, w
<1>9. /\ w.delegates = delegates
      /\ \A j \in ClientIds : w.clients[j] = IF j = k THEN x ELSE clients[j]
  BY <1>2, <1>5, <1>6, <1>8, ToldOfClient
<1>10. /\ v.delegates = delegates
      /\ \A j \in ClientIds : v.clients[j] = IF j = k THEN x ELSE clients[j]
  BY <1>3, <1>9, NowBecomes
<1>11. \A d \in Conns : delegates[d].client = NoClient \/ delegates[d].client \in ClientIds
  BY <1>2, WorldIs DEF Worlds, Delegates
<1>12. \A d \in Conns : delegates[d].client # k => Phase(v, d) = Phase(World, d)
  BY <1>10, <1>11, WorldIs DEF Phase, Online
<1>13. \A d \in Conns \ {c} : delegates[d].client # k
  BY <1>1, <1>2, WorldIs, DelegateBoundsAssumption DEF Good, Owned, ClientIds, NoClient
<1>14. /\ \A d : Status(d) = IF d \notin made THEN "fresh"
                             ELSE IF d \notin Range(order) THEN "gone" ELSE Phase(World, d)
       /\ \A d : Status(d)' = IF d \notin made THEN "fresh"
                              ELSE IF d \notin Range(order) THEN "gone" ELSE Phase(v, d)
  BY <1>3, NowIs, StatusIs, StatusNextIs DEF Now
<1>15. \A d \in Conns \ {c} : Status(d)' = Status(d)
  BY <1>12, <1>13, <1>14
<1>16. CASE delegates[c].client = k /\ c \in Range(order) /\ c \in made
  <2>1. k # NoClient
    BY DelegateBoundsAssumption DEF ClientIds, NoClient
  <2>2. Phase(World, c) = "trying"
    BY <1>3, <1>16, <2>1, WorldIs DEF Phase, Online, Trying
  <2>3. Phase(v, c) = "up"
    BY <1>5, <1>10, <1>16, <2>1 DEF Phase, Online
  <2>4. Status(c) = "trying" /\ Status(c)' = "up"
    BY <1>14, <1>16, <2>2, <2>3
  <2> QED  BY <1>2, <1>15, <2>4, OneMoves
<1>17. CASE ~(delegates[c].client = k /\ c \in Range(order) /\ c \in made)
  <2>1. Status(c)' = Status(c)
    BY <1>2, <1>12, <1>14, <1>17
  <2> QED  BY <1>2, <1>15, <2>1, OneMoves
<1> QED  BY <1>16, <1>17

\* Every other event of a client.
LEMMA EventMoves ==
  ASSUME NEW v, Now(v), NEW k \in ClientIds,
         \/ ClientReceives(k) \/ ClientFails(k) \/ ClientCloses(k)
         \/ ClientReconnects(k) \/ ClientEnds(k) \/ ClientClosesLate(k)
  PROVE  Moves
<1> DEFINE c == clients[k].conn
<1>1. ConsoleInv /\ Good(World, Range(order), made) /\ Room(World) /\ c \in Conns
  <2>1. ConsoleInv /\ Good(World, Range(order), made) /\ Room(World)
    BY NowIs DEF Now, ConsoleInv, WorldInv
  <2>2. clients[k].conn \in Conns
    BY <2>1, ClientIs
  <2> QED  BY <2>1, <2>2
<1>2. UNCHANGED <<order, made>>
  BY DEF ClientReceives, ClientFails, ClientCloses, ClientReconnects, ClientEnds,
         ClientClosesLate, consoleVars, Failed
<1>3. ASSUME NEW w, Become(w), Local(World, w, {c})  PROVE Moves
  <2> HIDE DEF c
  <2> QED  BY <1>1, <1>2, <1>3, NowBecomes, LocalMoves
<1>4. CASE ClientReceives(k)
  <2>1. PICK w : Become(w) /\ w.clients = clients /\ w.delegates = delegates
    BY <1>1, <1>4, ToldIs DEF ClientReceives
  <2>2. v.clients = World.clients /\ v.delegates = World.delegates
    BY <2>1, NowBecomes, WorldIs
  <2> QED  BY <1>2, <2>2, NowIs, QuietLocal, QuietMoves
<1>5. CASE ClientFails(k)
  BY <1>1, <1>3, <1>5, CloseLocal DEF ClientFails
<1>6. CASE ClientCloses(k)
  BY <1>1, <1>3, <1>6, CloseLocal DEF ClientCloses
<1>7. CASE ClientReconnects(k)
  BY <1>1, <1>3, <1>7, ReconnectLocal DEF ClientReconnects
<1>8. CASE ClientEnds(k)
  BY <1>1, <1>3, <1>8, EndLocal DEF ClientEnds
<1>9. CASE ClientClosesLate(k)
  BY <1>1, <1>3, <1>9, LateCloseLocal DEF ClientClosesLate
<1> QED  BY <1>4, <1>5, <1>6, <1>7, <1>8, <1>9

\* What the broker has answered, and the topics of a delegate.
LEMMA AnsweringLinks ==
  ASSUME NEW v, Now(v), NEW k \in ClientIds, NEW T \in SUBSET Topics, NEW w, NEW c \in Conns,
         NEW S \in SUBSET Topics, clients[k].st = "connected",
         w \in {Answering(k, T), UpdateStore(SetSubs(Answering(k, T), c, S), c)}
  PROVE  \A C : Local(World, w, C)
<1> DEFINE x == [clients[k] EXCEPT !.answered = T]
           w0 == Answering(k, T)
           w1 == SetSubs(w0, c, S)
<1>1. World \in Worlds /\ clients \in [ClientIds -> Clients(Tokens)]
      /\ clients[k] \in Clients(Tokens)
  BY NowIs, ClientIs
<1>2. /\ x \in Clients(Tokens) /\ x.conn = clients[k].conn /\ x.st = clients[k].st
      /\ x.ending = clients[k].ending
  BY <1>1 DEF Clients
<1>3. w0 = SetClient(World, k, x)
  BY <1>1 DEF SetClient, World, Answering
<1> HIDE DEF x, w0
<1>4. /\ w0 \in Worlds /\ w0.delegates = World.delegates
      /\ \A j \in ClientIds : w0.clients[j] = IF j = k THEN x ELSE World.clients[j]
  <2>1. World \in Worlds /\ x \in Clients(Tokens)
    BY <1>1, <1>2
  <2> QED  BY <1>3, <2>1, SetClientIs
<1>5. \A j \in ClientIds : /\ w0.clients[j].st = World.clients[j].st
                           /\ w0.clients[j].conn = World.clients[j].conn
                           /\ w0.clients[j].ending = World.clients[j].ending
  BY <1>2, <1>4, WorldIs
<1>6. /\ w1.clients = w0.clients
      /\ \A d \in Conns : w1.delegates[d].client = w0.delegates[d].client
  <2>1. w0.delegates \in [Conns -> Delegates]
    BY <1>4 DEF Worlds
  <2>2. w1.clients = w0.clients /\ w1.delegates = [w0.delegates EXCEPT ![c].subs = S]
    BY <1>4 DEF SetSubs, Worlds
  <2> HIDE DEF w1
  <2> QED  BY <2>1, <2>2 DEF Delegates
<1>7. w1 \in Worlds
  <2>1. w0.delegates \in [Conns -> Delegates]
    BY <1>4 DEF Worlds
  <2>2. [w0.delegates EXCEPT ![c].subs = S] \in [Conns -> Delegates]
    BY <2>1 DEF Delegates
  <2> QED  BY <1>4, <2>2 DEF SetSubs, Worlds
<1> HIDE DEF w1
<1>8. /\ UpdateStore(w1, c).clients = w1.clients /\ UpdateStore(w1, c).delegates = w1.delegates
  BY <1>7, UpdateStoreIs
<1>9. /\ \A d \in Conns : w.delegates[d].client = World.delegates[d].client
      /\ \A j \in ClientIds : /\ w.clients[j].st = World.clients[j].st
                              /\ w.clients[j].conn = World.clients[j].conn
                              /\ w.clients[j].ending = World.clients[j].ending
  <2>1. w = w0 \/ w = UpdateStore(w1, c)
    BY DEF w0, w1
  <2> QED  BY <1>4, <1>5, <1>6, <1>8, <2>1
<1> QED  BY <1>9, SameLinksLocal

\* The answers of the broker.
LEMMA AnswerMoves ==
  ASSUME NEW v, Now(v), NEW r \in pending, Answer(r)  PROVE Moves
<1> DEFINE k == r.client
           c == r.conn
<1>1. /\ ConsoleInv /\ k \in ClientIds /\ c \in Conns /\ r.topics \in SUBSET Topics
      /\ World \in Worlds
  BY RequestIs, NowIs DEF Now
<1>2. clients[k] \in Clients(Tokens) /\ delegates \in [Conns -> Delegates]
  <2> HIDE DEF k
  <2>1. clients[k] \in Clients(Tokens)
    BY <1>1, ClientIs, NowIs
  <2>2. delegates \in [Conns -> Delegates]
    BY <1>1, DelegatesType DEF ConsoleInv
  <2> QED  BY <2>1, <2>2
<1>3. ASSUME NEW w, Become(w), \A C : Local(World, w, C), made' = made, order' = order
      PROVE  Moves
  BY <1>3, NowBecomes, QuietMoves
<1>4. ASSUME NEW T \in SUBSET Topics, Answering(k, T) \in Worlds,
             NEW S \in SUBSET Topics, NEW w, clients[k].st = "connected",
             w = [Answering(k, T) EXCEPT !.delegates[c].subs = S],
             Become(UpdateStore(w, c)), made' = made, order' = order
      PROVE  Moves
  <2>1. w = SetSubs(Answering(k, T), c, S)
    BY <1>4 DEF SetSubs
  <2>2. \A C : Local(World, UpdateStore(w, c), C)
    BY <1>1, <1>4, <2>1, AnsweringLinks
  <2> QED  BY <1>3, <1>4, <2>2
<1>5. ASSUME NEW T \in SUBSET Topics, clients[k].st = "connected"
      PROVE  /\ Answering(k, T) \in Worlds /\ Answering(k, T).delegates = delegates
  BY <1>1, <1>5, NowIs, AnsweringGood DEF Good
<1>6. ASSUME NEW granted \in BOOLEAN, SubAnswer(r, granted)  PROVE Moves
  <2> DEFINE T == clients[k].answered \cup r.topics
             S == delegates[c].subs \cup r.topics
             w0 == Answering(k, T)
             w == [w0 EXCEPT !.delegates[c].subs = S]
  <2>1. /\ T \in SUBSET Topics /\ S \in SUBSET Topics
    BY <1>1, <1>2 DEF Clients, Delegates
  <2>2. /\ clients[k].st = "connected" /\ made' = made
        /\ [World EXCEPT !.clients[r.client].answered = @ \cup r.topics] = w0
    BY <1>6, WorldIs DEF SubAnswer, Answered, Answering
  <2>3. order' = order
    BY <1>6, SetConnConfigIs DEF SubAnswer
  <2>4. Become(w0) \/ Become(Subscribed(w0, c, r.topics))
    BY <1>6, <2>2 DEF SubAnswer
  <2>5. w0 \in Worlds /\ w0.delegates = delegates
    <3> HIDE DEF T
    <3> QED  BY <1>5, <2>1, <2>2
  <2>6. CASE Become(w0)
    <3> HIDE DEF T, S
    <3>1. \A C : Local(World, w0, C)
      BY <1>1, <2>1, <2>2, AnsweringLinks
    <3> QED  BY <1>3, <2>2, <2>3, <2>6, <3>1
  <2>7. CASE Become(Subscribed(w0, c, r.topics))
    <3>1. Subscribed(w0, c, r.topics) = UpdateStore(w, c)
      <4> HIDE DEF w0
      <4> QED  BY <1>1, <2>5 DEF Subscribed, Worlds
    <3>2. Become(UpdateStore(w, c)) /\ w = [w0 EXCEPT !.delegates[c].subs = S]
      BY <2>7, <3>1
    <3>3. Answering(k, T) \in Worlds /\ w0 = Answering(k, T)
      BY <2>5
    <3> HIDE DEF T, S, w, w0
    <3> QED  BY <1>4, <2>1, <2>2, <2>3, <3>2, <3>3
  <2> QED  BY <2>4, <2>6, <2>7
<1>7. CASE UnsubAnswer(r)
  <2> DEFINE T == clients[k].answered \ r.topics
             S == delegates[c].subs \ r.topics
             w0 == Answering(k, T)
             w == [w0 EXCEPT !.delegates[c].subs = S]
  <2>1. /\ T \in SUBSET Topics /\ S \in SUBSET Topics
    BY <1>1, <1>2 DEF Clients, Delegates
  <2>2. /\ clients[k].st = "connected" /\ made' = made /\ order' = order
        /\ [World EXCEPT !.clients[r.client].answered = @ \ r.topics] = w0
    BY <1>7, WorldIs DEF UnsubAnswer, Answered, Answering
  <2>3. Become(Unsubscribed(w0, c, r.topics))
    BY <1>7, <2>2 DEF UnsubAnswer
  <2>4. w0 \in Worlds /\ w0.delegates = delegates
    <3> HIDE DEF T
    <3> QED  BY <1>5, <2>1, <2>2
  <2>5. Unsubscribed(w0, c, r.topics) = UpdateStore(w, c)
    <3> HIDE DEF w0
    <3> QED  BY <1>1, <2>4 DEF Unsubscribed, Worlds
  <2> HIDE DEF T, S
  <2> QED  BY <1>4, <2>1, <2>2, <2>3, <2>4, <2>5
<1>8. CASE PubAnswer(r)
  <2>1. Told(c) /\ made' = made /\ order' = order
    BY <1>8, SetConnConfigIs DEF PubAnswer, Answered
  <2>2. PICK w : Become(w) /\ w.clients = clients /\ w.delegates = delegates
    BY <1>1, <2>1, ToldIs
  <2>3. v.clients = World.clients /\ v.delegates = World.delegates
    BY <2>2, NowBecomes, WorldIs
  <2> QED  BY <2>1, <2>3, NowIs, QuietLocal, QuietMoves
<1> QED  BY <1>6, <1>7, <1>8 DEF Answer

-----------------------------------------------------------------------------
(* The theorem.                                                            *)

\* Every step moves the statuses as ConnStatus allows.
LEMMA StepMoves ==
  ASSUME ConsoleInv, ConsoleInv', [Next]_vars  PROVE Moves
<1>1. PICK v : v = World'
  OBVIOUS
<1>2. Now(v)
  BY <1>1 DEF Now
<1>3. CASE UserStep
  <2>1. CASE \/ ShowCreateForm \/ ShowCreateFormOfThing \/ ShowEditForm \/ HideForm
             \/ SwitchView \/ ShowSubsForm
    BY <1>2, <2>1, FormMoves
  <2>2. CASE CreateDone
    BY <1>2, <2>2, CreateMoves
  <2>3. CASE PanelConnect \/ EditDone \/ \E c \in Conns : ThingConnect(c) \/ Disconn(c)
    BY <1>2, <2>3, ConnectMoves
  <2>4. CASE EditDoneRemoved \/ ClearMessages \/ \E c \in Conns : Select(c)
    BY <1>2, <2>4, SelectMoves
  <2>5. CASE RemoveCurrent \/ ThingDeleted
    BY <1>2, <2>5, RemovedMoves
  <2>6. CASE Reload
    BY <1>2, <2>6, ReloadMoves
  <2>7. CASE \/ \E c \in Conns : SubscribeAll(c) \/ UnsubscribeAll(c) \/ Publish(c)
             \/ \E t \in Topics : Subscribe(t) \/ Unsubscribe(t) \/ AddSubscription(t)
    BY <1>2, <2>7, FormMoves
  <2>8. CASE \E t \in Topics : DeleteSubscription(t) \/ EditSubscription(t)
    BY <1>2, <2>8, SubscriptionMoves
  <2> QED  BY <1>3, <2>1, <2>2, <2>3, <2>4, <2>5, <2>6, <2>7, <2>8 DEF UserStep
<1>4. CASE NetStep
  <2>1. ASSUME NEW k \in ClientIds, ClientStep(k)  PROVE Moves
    BY <1>2, <2>1, SucceedMoves, EventMoves DEF ClientStep
  <2>2. ASSUME NEW r \in pending, Answer(r)  PROVE Moves
    BY <1>2, <2>2, AnswerMoves
  <2> QED  BY <1>4, <2>1, <2>2 DEF NetStep
<1>5. CASE UNCHANGED vars
  <2>1. UNCHANGED <<delegateVars, made, order>>
    BY <1>5 DEF vars, consoleVars
  <2> QED  BY <1>2, <2>1, StillMoves
<1> QED  BY <1>3, <1>4, <1>5 DEF Next

\* The page is loaded: every connection is fresh, or listed and without client.
LEMMA InitStatus == Init => Abstract!Init
<1> SUFFICES ASSUME Init PROVE Abstract!Init
  OBVIOUS
<1>1. /\ order = Stored /\ made = Range(Stored)
      /\ delegates = [c \in Conns |-> IF c \in Range(Stored) THEN NewDelegate ELSE NoDelegate]
  BY DEF Init, DelegateInit
<1>2. \A c \in Conns : Phase(World, c) = "idle"
  BY <1>1, LoadedDelegates, WorldIs DEF Phase, Online
<1>3. \A c \in Conns : Status(c) \in {"fresh", "idle"}
  BY <1>1, <1>2, StatusIs
<1> QED  BY <1>3 DEF Abstract!Init

\* Whatever the order of clicks, answers and events of clients, late ones
\* included: a connection comes up only by an attempt of its own, one that was
\* removed never returns, and no step of one connection changes another
\* (MqttDelegate.js, useMqtt.js).
THEOREM StatusesAreKept == Spec => KeepsPromises
<1>1. ConsoleInv /\ ConsoleInv' /\ [Next]_vars => [Abstract!Next]_([c \in Conns |-> Status(c)])
  BY StepMoves DEF Moves, Held
<1> QED  BY <1>1, InitStatus, ConsoleInvariant, PTL DEF Spec, KeepsPromises, Abstract!Safe
=============================================================================
