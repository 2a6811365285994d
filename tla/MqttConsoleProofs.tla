------------------------- MODULE MqttConsoleProofs --------------------------
(***************************************************************************)
(* Safety of the MQTT tool for every set of connections and topics and for *)
(* every bound: types, the action properties RemovedStaysRemoved and       *)
(* NoInheritedSubs, and what is said of storage, suggested topics and the  *)
(* overlay.                                                                *)
(*                                                                         *)
(* A step is a chain of operators on worlds.  For each of them a lemma says *)
(* that it keeps a world good (Good), that it is calm (Calm: a replaced    *)
(* client leaves no topics, a connected one stays connected), and that it  *)
(* needs no client object that is not there (Room).  O is the set of the   *)
(* listed connections, M that of those ever made.                          *)
(***************************************************************************)
EXTENDS MqttConsole, TLAPS, WellFoundedInduction, FiniteSetTheorems, SequenceTheorems

\* All worlds; the type of World.
Worlds ==
  [clients: [ClientIds -> Clients(Tokens)], delegates: [Conns -> Delegates],
   shown: [Conns -> Shown], connecting: BOOLEAN]

\* The clients whose end a connect waits for: each will take a client object.
Waiting(w) == {k \in ClientIds : w.clients[k].then = "connect" /\ w.clients[k].st # "ended"}

\* A client that is ending, and has not ended, has somebody who waits for its
\* end; one that was never used has nobody.
CallbackKnown(w) ==
  \A k \in ClientIds :
    /\ w.clients[k].ending /\ w.clients[k].st \notin {"closing", "ended"}
         => w.clients[k].then # ""
    /\ w.clients[k].st = "unused" => ~w.clients[k].ending /\ w.clients[k].then = ""

\* A client is of a connection that was made; the client of a delegate is of
\* its connection; what is to be destroyed is no longer listed.
Owned(w, O, M) ==
  /\ \A k \in ClientIds :
       /\ w.clients[k].then = "destroy" => w.clients[k].conn \notin O
       /\ w.clients[k].st # "unused" => w.clients[k].conn \in M
  /\ \A c \in Conns : w.delegates[c].client # NoClient =>
       /\ w.clients[w.delegates[c].client].conn = c
       /\ w.clients[w.delegates[c].client].st # "unused"

\* A connection without client has no topics: no client inherits any.
FreshStart(w, O, M) ==
  \A c \in Conns :
    /\ c \notin M => w.delegates[c].client = NoClient /\ w.delegates[c].subs = {}
    /\ c \in O => /\ w.delegates[c].made
                  /\ w.delegates[c].client = NoClient => w.delegates[c].subs = {}

\* ConnectingHasCause, of a world.
HasCause(w) == w.connecting => \E k \in ClientIds : w.clients[k].st = "connecting"

\* What holds between two steps, and between two operators of a step.
Good(w, O, M) ==
  /\ w \in Worlds
  /\ CallbackKnown(w)
  /\ Owned(w, O, M)
  /\ FreshStart(w, O, M)
  /\ HasCause(w)

\* There is a client object for each connect that waits.
Room(w) == Cardinality(Waiting(w)) <= Cardinality(Free(w))

\* What an operator that leads from w to w1 does to delegates and clients.
Calm(w, w1, O) ==
  /\ \A c \in Conns :
       /\ w1.delegates[c].subs \subseteq w.delegates[c].subs
       /\ w1.delegates[c].client # w.delegates[c].client => w1.delegates[c].subs = {}
       /\ c \in O /\ w.delegates[c].client # NoClient => w1.delegates[c].client # NoClient
  /\ \A k \in ClientIds : w.clients[k].st = "connected" => w1.clients[k].st = "connected"

\* w1 has as many client objects as w, and no more connects that wait.
SameRoom(w, w1) == Waiting(w1) \subseteq Waiting(w) /\ Free(w1) = Free(w)

\* What the operators on the store and the getter change.
LEMMA UpdateStoreIs ==
  ASSUME NEW w \in Worlds, NEW c \in Conns
  PROVE  /\ UpdateStore(w, c) \in Worlds
         /\ UpdateStore(w, c).clients = w.clients
         /\ UpdateStore(w, c).delegates = w.delegates
         /\ UpdateStore(w, c).connecting = FALSE
  BY DEF UpdateStore, Worlds, Shown, Delegates

\* ... when a connection is removed,
LEMMA ForgetStoreIs ==
  ASSUME NEW w \in Worlds, NEW c \in Conns
  PROVE  /\ ForgetStore(w, c) \in Worlds
         /\ ForgetStore(w, c).clients = w.clients
         /\ ForgetStore(w, c).delegates = w.delegates
         /\ ForgetStore(w, c).connecting = FALSE
  BY DEF ForgetStore, Worlds, Shown, NothingShown, Delegates

\* ... and when a delegate is asked for.
LEMMA GetDelegateIs ==
  ASSUME NEW w \in Worlds, NEW c \in Conns
  PROVE  /\ GetDelegate(w, c) \in Worlds
         /\ GetDelegate(w, c).clients = w.clients
         /\ GetDelegate(w, c).connecting = w.connecting
         /\ GetDelegate(w, c).delegates =
              IF w.delegates[c].made THEN w.delegates
              ELSE [w.delegates EXCEPT ![c] = NewDelegate]
<1>1. NewDelegate \in Delegates
  BY DelegateBoundsAssumption DEF NewDelegate, Delegates
<1>2. w.delegates \in [Conns -> Delegates]
  BY DEF Worlds
<1>3. [w EXCEPT !.delegates[c] = NewDelegate] \in Worlds
  BY <1>1, <1>2 DEF Worlds
<1> QED  BY <1>2, <1>3 DEF GetDelegate, Worlds

\* A world in which only the store has changed.
LEMMA QuietIsGood ==
  ASSUME NEW w, NEW w1, NEW O, NEW M, Good(w, O, M), w1 \in Worlds,
         w1.clients = w.clients, w1.delegates = w.delegates, w1.connecting \in {w.connecting, FALSE}
  PROVE  Good(w1, O, M) /\ Calm(w, w1, O) /\ SameRoom(w, w1)
  BY DEF Good, CallbackKnown, Owned, FreshStart, HasCause, Calm, SameRoom, Waiting, Free

\* updateDelegateStates keeps what is good.
LEMMA UpdateStoreGood ==
  ASSUME NEW w, NEW O, NEW M, Good(w, O, M), NEW c \in Conns
  PROVE  /\ Good(UpdateStore(w, c), O, M)
         /\ Calm(w, UpdateStore(w, c), O)
         /\ SameRoom(w, UpdateStore(w, c))
  BY UpdateStoreIs, QuietIsGood DEF Good

\* So does getDelegateById, which may make a delegate.
LEMMA GetDelegateGood ==
  ASSUME NEW w, NEW O, NEW M, Good(w, O, M), NEW c \in Conns
  PROVE  /\ Good(GetDelegate(w, c), O, M)
         /\ Calm(w, GetDelegate(w, c), O)
         /\ SameRoom(w, GetDelegate(w, c))
         /\ GetDelegate(w, c).delegates[c].made
<1> DEFINE w1 == GetDelegate(w, c)
<1>1. w \in Worlds /\ w.delegates \in [Conns -> Delegates]
  BY DEF Good, Worlds
<1>2. w1 \in Worlds /\ w1.clients = w.clients /\ w1.connecting = w.connecting
  BY <1>1, GetDelegateIs
<1>3. w1.delegates = IF w.delegates[c].made THEN w.delegates
                     ELSE [w.delegates EXCEPT ![c] = NewDelegate]
  BY <1>1, GetDelegateIs
<1>4. CASE w.delegates[c].made
  <2>1. w1.delegates = w.delegates /\ w1.connecting \in {w.connecting, FALSE}
    BY <1>2, <1>3, <1>4
  <2>2. Good(w1, O, M) /\ Calm(w, w1, O) /\ SameRoom(w, w1)
    BY <1>2, <2>1, QuietIsGood
  <2> QED  BY <1>4, <2>1, <2>2
<1>5. CASE ~w.delegates[c].made
  <2>1. \A d \in Conns : w1.delegates[d] = IF d = c THEN NewDelegate ELSE w.delegates[d]
    BY <1>1, <1>3, <1>5
  <2>2. c \notin O
    BY <1>5 DEF Good, FreshStart
  <2>3. Owned(w1, O, M)
    BY <1>2, <2>1 DEF Good, Owned, NewDelegate
  <2>4. FreshStart(w1, O, M)
    BY <2>1, <2>2 DEF Good, FreshStart, NewDelegate
  <2>5. CallbackKnown(w1) /\ HasCause(w1)
    BY <1>2 DEF Good, CallbackKnown, HasCause
  <2>6. Calm(w, w1, O)
    BY <1>2, <2>1, <2>2 DEF Calm, NewDelegate
  <2>7. SameRoom(w, w1)
    BY <1>2 DEF SameRoom, Waiting, Free
  <2>8. w1.delegates[c].made
    BY <2>1 DEF NewDelegate
  <2> QED  BY <1>2, <2>3, <2>4, <2>5, <2>6, <2>7, <2>8 DEF Good
<1> QED  BY <1>4, <1>5

\* The least free id: there is one when some id is free.
LEMMA LeastFree ==
  ASSUME NEW w, Free(w) # {}
  PROVE  (CHOOSE i \in Free(w) : \A j \in Free(w) : i <= j) \in Free(w)
<1>1. Free(w) \subseteq Nat
  BY DelegateBoundsAssumption DEF Free, ClientIds
<1>2. \E i \in Free(w) : \A j \in Free(w) : ~(<<j, i>> \in OpToRel(<, Nat))
  BY <1>1, WFMin, NatLessThanWellFounded
<1>3. \E i \in Free(w) : \A j \in Free(w) : i <= j
  <2>1. PICK i \in Free(w) : \A j \in Free(w) : ~(<<j, i>> \in OpToRel(<, Nat))
    BY <1>2
  <2>2. ASSUME NEW j \in Free(w) PROVE ~(j < i)
    <3>1. i \in Nat /\ j \in Nat
      BY <1>1
    <3>2. j < i => <<j, i>> \in {ss \in Nat \X Nat : ss[1] < ss[2]}
      BY <3>1
    <3> QED  BY <2>1, <3>2 DEF OpToRel
  <2>3. \A j \in Free(w) : i <= j
    BY <1>1, <2>2
  <2> QED  BY <2>3
<1> QED  BY <1>3

\* connect's callback takes a free client object for a delegate without topics.
LEMMA CreateClientGood ==
  ASSUME NEW w, NEW O, NEW M, Good(w, O, M), NEW c \in Conns, NEW token \in Tokens,
         Free(w) # {}, c \in M, w.delegates[c].subs = {}
  PROVE  /\ Good(CreateClient(w, c, token), O, M)
         /\ Calm(w, CreateClient(w, c, token), O)
         /\ \E k \in Free(w) : Free(CreateClient(w, c, token)) = Free(w) \ {k}
         /\ Waiting(CreateClient(w, c, token)) = Waiting(w)
<1> DEFINE k == CHOOSE i \in Free(w) : \A j \in Free(w) : i <= j
           w1 == CreateClient(w, c, token)
<1>1. k \in Free(w)
  BY LeastFree
<1>2. k \in ClientIds /\ k # NoClient /\ w.clients[k].st = "unused"
  <2>1. k \in ClientIds /\ w.clients[k].st = "unused"
    BY <1>1 DEF Free
  <2> HIDE DEF k
  <2> QED  BY <2>1, DelegateBoundsAssumption DEF ClientIds, NoClient
<1>3. w1 = [w EXCEPT !.clients[k] = [@ EXCEPT !.st = "connecting", !.conn = c, !.token = token],
                     !.delegates[c].client = k,
                     !.delegates[c].retryTimes = 0,
                     !.connecting = TRUE]
  BY DEF CreateClient
<1> HIDE DEF k
<1>4. w \in Worlds /\ w.clients \in [ClientIds -> Clients(Tokens)] /\ w.delegates \in [Conns -> Delegates]
  BY DEF Good, Worlds
<1>5. w1.clients = [w.clients EXCEPT ![k] =
         [w.clients[k] EXCEPT !.st = "connecting", !.conn = c, !.token = token]]
  BY <1>2, <1>3, <1>4 DEF Worlds
<1>6. w1.delegates = [w.delegates EXCEPT ![c] =
         [w.delegates[c] EXCEPT !.client = k, !.retryTimes = 0]]
  <2>1. w1.delegates = [[w.delegates EXCEPT ![c].client = k] EXCEPT ![c].retryTimes = 0]
    BY <1>3, <1>4 DEF Worlds
  <2>2. [[w.delegates EXCEPT ![c].client = k] EXCEPT ![c].retryTimes = 0] =
          [w.delegates EXCEPT ![c] = [[w.delegates[c] EXCEPT !.client = k] EXCEPT !.retryTimes = 0]]
    BY <1>4
  <2>3. [[w.delegates[c] EXCEPT !.client = k] EXCEPT !.retryTimes = 0] =
          [w.delegates[c] EXCEPT !.client = k, !.retryTimes = 0]
    OBVIOUS
  <2> QED  BY <2>1, <2>2, <2>3
<1>7. w1.connecting = TRUE /\ w1.shown = w.shown
  BY <1>3, <1>4 DEF Worlds
<1>8. [w.clients[k] EXCEPT !.st = "connecting", !.conn = c, !.token = token] \in Clients(Tokens)
  <2>1. w.clients[k] \in Clients(Tokens)
    BY <1>2, <1>4
  <2> QED  BY <2>1 DEF Clients, ClientState
<1>9. [w.delegates[c] EXCEPT !.client = k, !.retryTimes = 0] \in Delegates
  <2>1. w.delegates[c] \in Delegates /\ 0 \in 0 .. RetryLimit
    BY <1>4, DelegateBoundsAssumption
  <2>2. [w.delegates[c] EXCEPT !.client = k] \in Delegates
    BY <1>2, <2>1 DEF Delegates
  <2> QED  BY <2>1, <2>2 DEF Delegates
<1>10. w1 \in Worlds
  <2>1. w1 = [clients |-> w1.clients, delegates |-> w1.delegates,
              shown |-> w1.shown, connecting |-> w1.connecting]
    BY <1>3, <1>4 DEF Worlds
  <2>2. /\ w1.clients \in [ClientIds -> Clients(Tokens)]
        /\ w1.delegates \in [Conns -> Delegates]
        /\ w1.shown \in [Conns -> Shown] /\ w1.connecting \in BOOLEAN
    BY <1>4, <1>5, <1>6, <1>7, <1>8, <1>9, ZenonT(40) DEF Worlds
  <2> QED  BY <2>1, <2>2 DEF Worlds
<1>11. \A j \in ClientIds : j # k => w1.clients[j] = w.clients[j]
  BY <1>4, <1>5
<1>12. /\ w1.clients[k].st = "connecting" /\ w1.clients[k].conn = c
       /\ w1.clients[k].then = "" /\ ~w1.clients[k].ending
  <2>1. w.clients[k].then = "" /\ ~w.clients[k].ending /\ w.clients[k] \in Clients(Tokens)
    BY <1>2, <1>4 DEF Good, CallbackKnown
  <2> QED  BY <1>2, <1>4, <1>5, <2>1, ZenonT(40) DEF Clients
<1>13. \A d \in Conns : d # c => w1.delegates[d] = w.delegates[d]
  BY <1>4, <1>6
<1>14. /\ w1.delegates[c].client = k /\ w1.delegates[c].subs = {}
       /\ w1.delegates[c].made = w.delegates[c].made
  BY <1>4, <1>6 DEF Delegates
<1>15. w.clients[k].then = "" /\ \A d \in Conns : w.delegates[d].client # k
  BY <1>2 DEF Good, CallbackKnown, Owned
<1>16. CallbackKnown(w1)
  BY <1>11, <1>12 DEF Good, CallbackKnown
<1>17. Owned(w1, O, M)
  <2>1. ASSUME NEW j \in ClientIds
        PROVE  /\ w1.clients[j].then = "destroy" => w1.clients[j].conn \notin O
               /\ w1.clients[j].st # "unused" => w1.clients[j].conn \in M
    BY <1>11, <1>12, <2>1 DEF Good, Owned
  <2>2. ASSUME NEW d \in Conns, w1.delegates[d].client # NoClient
        PROVE  /\ w1.clients[w1.delegates[d].client].conn = d
               /\ w1.clients[w1.delegates[d].client].st # "unused"
    <3>1. CASE d = c
      BY <1>12, <1>14, <3>1
    <3>2. CASE d # c
      <4>1. w1.delegates[d] = w.delegates[d] /\ w.delegates[d].client # k
        BY <1>13, <1>15, <3>2
      <4>2. w.delegates[d].client \in ClientIds
        BY <1>4, <2>2, <4>1 DEF Delegates
      <4> QED  BY <1>11, <2>2, <4>1, <4>2 DEF Good, Owned
    <3> QED  BY <3>1, <3>2
  <2> QED  BY <2>1, <2>2 DEF Owned
<1>18. FreshStart(w1, O, M)
  BY <1>2, <1>13, <1>14 DEF Good, FreshStart
<1>19. HasCause(w1)
  BY <1>2, <1>12 DEF HasCause
<1>20. Calm(w, w1, O)
  <2>1. \A j \in ClientIds : w.clients[j].st = "connected" => w1.clients[j].st = "connected"
    BY <1>2, <1>11
  <2> QED  BY <1>2, <1>13, <1>14, <2>1 DEF Calm
<1>21. Free(w1) = Free(w) \ {k}
  BY <1>2, <1>11, <1>12 DEF Free
<1>22. Waiting(w1) = Waiting(w)
  BY <1>2, <1>11, <1>12, <1>15 DEF Waiting
<1> QED  BY <1>1, <1>10, <1>16, <1>17, <1>18, <1>19, <1>20, <1>21, <1>22 DEF Good

\* The callback of an end().
LEMMA CallbackGood ==
  ASSUME NEW w, NEW O, NEW M, Good(w, O, M), NEW c \in Conns, NEW token \in Tokens,
         NEW then \in {"update", "connect", "destroy"}, c \in M,
         then = "connect" => Free(w) # {} /\ w.delegates[c].subs = {},
         then = "destroy" => c \notin O
  PROVE  /\ Good(Callback(w, c, then, token), O, M)
         /\ Calm(w, Callback(w, c, then, token), O)
         /\ then # "connect" => SameRoom(w, Callback(w, c, then, token))
         /\ then = "connect" =>
              /\ \E k \in Free(w) : Free(Callback(w, c, then, token)) = Free(w) \ {k}
              /\ Waiting(Callback(w, c, then, token)) = Waiting(w)
<1>1. CASE then = "connect"
  <2>1. Callback(w, c, then, token) = CreateClient(w, c, token)
    BY <1>1 DEF Callback
  <2> QED  BY <1>1, <2>1, CreateClientGood
<1>2. CASE then = "update"
  <2>1. Callback(w, c, then, token) = UpdateStore(w, c)
    BY <1>2 DEF Callback
  <2> QED  BY <1>2, <2>1, UpdateStoreGood
<1>3. CASE then = "destroy"
  <2> DEFINE w1 == [w EXCEPT !.delegates[c].made = FALSE]
  <2>1. Callback(w, c, then, token) = w1
    BY <1>3 DEF Callback
  <2>2. w \in Worlds /\ w.delegates \in [Conns -> Delegates]
    BY DEF Good, Worlds
  <2>3. [w.delegates[c] EXCEPT !.made = FALSE] \in Delegates
    BY <2>2 DEF Delegates
  <2>4. /\ w1 \in Worlds /\ w1.clients = w.clients /\ w1.connecting = w.connecting
        /\ w1.delegates = [w.delegates EXCEPT ![c] = [w.delegates[c] EXCEPT !.made = FALSE]]
    BY <2>2, <2>3 DEF Worlds
  <2> HIDE DEF w1
  <2>5. \A d \in Conns : /\ d # c => w1.delegates[d] = w.delegates[d]
                         /\ w1.delegates[d].client = w.delegates[d].client
                         /\ w1.delegates[d].subs = w.delegates[d].subs
    BY <2>2, <2>4 DEF Delegates
  <2>6. Owned(w1, O, M)
    BY <2>4, <2>5 DEF Good, Owned
  <2>7. FreshStart(w1, O, M)
    BY <1>3, <2>5 DEF Good, FreshStart
  <2>8. CallbackKnown(w1) /\ HasCause(w1)
    BY <2>4 DEF Good, CallbackKnown, HasCause
  <2>9. Calm(w, w1, O)
    BY <2>4, <2>5 DEF Calm
  <2>10. SameRoom(w, w1)
    BY <2>4 DEF SameRoom, Waiting, Free
  <2> QED  BY <1>3, <2>1, <2>4, <2>6, <2>7, <2>8, <2>9, <2>10 DEF Good
<1> QED  BY <1>1, <1>2, <1>3

\* Two operators after one another.
LEMMA CalmTwice ==
  ASSUME NEW w, NEW w1, NEW w2, NEW O, Calm(w, w1, O), Calm(w1, w2, O)
  PROVE  Calm(w, w2, O)
<1>1. ASSUME NEW c \in Conns
      PROVE  /\ w2.delegates[c].subs \subseteq w.delegates[c].subs
             /\ w2.delegates[c].client # w.delegates[c].client => w2.delegates[c].subs = {}
             /\ c \in O /\ w.delegates[c].client # NoClient => w2.delegates[c].client # NoClient
  BY DEF Calm
<1>2. \A k \in ClientIds : w.clients[k].st = "connected" => w2.clients[k].st = "connected"
  BY DEF Calm
<1> QED  BY <1>1, <1>2 DEF Calm

\* ... that both keep the room.
LEMMA SameRoomTwice ==
  ASSUME NEW w, NEW w1, NEW w2, SameRoom(w, w1), SameRoom(w1, w2)
  PROVE  SameRoom(w, w2)
  BY DEF SameRoom

\* The room is counted in natural numbers.
LEMMA RoomsFinite ==
  ASSUME NEW w
  PROVE  /\ IsFiniteSet(Waiting(w)) /\ Cardinality(Waiting(w)) \in Nat
         /\ IsFiniteSet(Free(w)) /\ Cardinality(Free(w)) \in Nat
<1>1. IsFiniteSet(ClientIds)
  BY DelegateBoundsAssumption, FS_Interval DEF ClientIds
<1>2. Waiting(w) \subseteq ClientIds /\ Free(w) \subseteq ClientIds
  BY DEF Waiting, Free
<1> QED  BY <1>1, <1>2, FS_Subset, FS_CardinalityType

\* The bound on connects, in the words of Waiting.
LEMMA RoomForClientIs ==
  ASSUME NEW w
  PROVE  RoomForClient(w) <=> Cardinality(Free(w)) > Cardinality(Waiting(w))
  BY DEF RoomForClient, Waiting

\* What keeps the rooms keeps what is said of them.
LEMMA SameRoomKeeps ==
  ASSUME NEW w, NEW w1, SameRoom(w, w1)
  PROVE  /\ Room(w) => Room(w1)
         /\ RoomForClient(w) => RoomForClient(w1)
<1>1. Cardinality(Waiting(w1)) <= Cardinality(Waiting(w))
  BY RoomsFinite, FS_Subset DEF SameRoom
<1>2. Free(w1) = Free(w)
  BY DEF SameRoom
<1>3. /\ Cardinality(Waiting(w)) \in Nat /\ Cardinality(Waiting(w1)) \in Nat
      /\ Cardinality(Free(w)) \in Nat
  BY RoomsFinite
<1>4. Room(w) => Room(w1)
  BY <1>1, <1>2, <1>3 DEF Room
<1>5. RoomForClient(w) => RoomForClient(w1)
  BY <1>1, <1>2, <1>3, RoomForClientIs
<1> QED  BY <1>4, <1>5

\* Where there is room for a client, some id is free.
LEMMA RoomNotEmpty ==
  ASSUME NEW w, RoomForClient(w) \/ (Room(w) /\ Waiting(w) # {})
  PROVE  Free(w) # {}
<1>1. Cardinality(Waiting(w)) \in Nat /\ (Waiting(w) # {} => Cardinality(Waiting(w)) > 0)
  BY RoomsFinite, FS_EmptySet
<1>2. Cardinality(Free(w)) > 0
  BY <1>1, RoomsFinite, RoomForClientIs DEF Room
<1> QED  BY <1>2, FS_EmptySet

\* One free id is used while there is room for one.
LEMMA RoomAfterOne ==
  ASSUME NEW w, NEW w1, RoomForClient(w), Waiting(w1) = Waiting(w),
         NEW k \in Free(w), Free(w1) = Free(w) \ {k}
  PROVE  Room(w1)
<1>1. Cardinality(Free(w1)) = Cardinality(Free(w)) - 1
  BY RoomsFinite, FS_RemoveElement
<1> QED  BY <1>1, RoomsFinite, RoomForClientIs DEF Room

\* One more client waits while there is room for one.
LEMMA RoomAfterWait ==
  ASSUME NEW w, NEW w1, RoomForClient(w), Free(w1) = Free(w),
         NEW k, Waiting(w1) \subseteq Waiting(w) \cup {k}
  PROVE  Room(w1)
<1>1. /\ IsFiniteSet(Waiting(w) \cup {k})
      /\ Cardinality(Waiting(w) \cup {k}) <= Cardinality(Waiting(w)) + 1
      /\ Cardinality(Waiting(w) \cup {k}) \in Nat
  <2>1. /\ IsFiniteSet(Waiting(w)) /\ Cardinality(Waiting(w)) \in Nat
    BY RoomsFinite
  <2>2. /\ IsFiniteSet(Waiting(w) \cup {k})
        /\ Cardinality(Waiting(w) \cup {k}) =
             IF k \in Waiting(w) THEN Cardinality(Waiting(w)) ELSE Cardinality(Waiting(w)) + 1
    BY <2>1, FS_AddElement
  <2> QED  BY <2>1, <2>2
<1>2. Cardinality(Waiting(w1)) <= Cardinality(Waiting(w) \cup {k})
  BY <1>1, FS_Subset
<1> QED  BY <1>1, <1>2, RoomsFinite, RoomForClientIs DEF Room

\* The delegate when its client has ended, before the callback.
Cleared(w, c) == [w EXCEPT !.delegates[c].retryTimes = 0, !.delegates[c].subs = {}]

\* What onend leaves behind has no topics.
LEMMA ClearedGood ==
  ASSUME NEW w, NEW O, NEW M, Good(w, O, M), NEW c \in Conns
  PROVE  /\ Good(Cleared(w, c), O, M) /\ Calm(w, Cleared(w, c), O)
         /\ SameRoom(w, Cleared(w, c))
         /\ Cleared(w, c).delegates[c].subs = {} /\ Cleared(w, c).clients = w.clients
<1> DEFINE w1 == Cleared(w, c)
<1>1. w \in Worlds /\ w.delegates \in [Conns -> Delegates]
  BY DEF Good, Worlds
<1>2. [w.delegates[c] EXCEPT !.retryTimes = 0] \in Delegates
  BY <1>1, DelegateBoundsAssumption DEF Delegates
<1>3. [[w.delegates[c] EXCEPT !.retryTimes = 0] EXCEPT !.subs = {}] \in Delegates
  BY <1>2 DEF Delegates
<1>4. /\ w1.clients = w.clients /\ w1.connecting = w.connecting /\ w1.shown = w.shown
      /\ w1 = [clients |-> w1.clients, delegates |-> w1.delegates,
               shown |-> w1.shown, connecting |-> w1.connecting]
      /\ w1.delegates = [[w.delegates EXCEPT ![c].retryTimes = 0] EXCEPT ![c].subs = {}]
  <2>1. /\ w1.clients = w.clients /\ w1.connecting = w.connecting /\ w1.shown = w.shown
        /\ w1.delegates = [[w.delegates EXCEPT ![c].retryTimes = 0] EXCEPT ![c].subs = {}]
    BY <1>1 DEF Worlds, Cleared
  <2>2. w1 = [clients |-> w1.clients, delegates |-> w1.delegates,
              shown |-> w1.shown, connecting |-> w1.connecting]
    <3>1. w = [clients |-> w.clients, delegates |-> w.delegates,
               shown |-> w.shown, connecting |-> w.connecting]
      BY <1>1 DEF Worlds
    <3>2. w1 = [w EXCEPT !.delegates = w1.delegates]
      BY <1>1, <3>1 DEF Cleared
    <3> QED  BY <2>1, <3>1, <3>2
  <2> QED  BY <2>1, <2>2
<1>5. w1.delegates = [w.delegates EXCEPT ![c] =
                        [[w.delegates[c] EXCEPT !.retryTimes = 0] EXCEPT !.subs = {}]]
  BY <1>1, <1>4
<1>6. w1 \in Worlds
  BY <1>1, <1>3, <1>4, <1>5 DEF Worlds
<1>7. \A d \in Conns : /\ d # c => w1.delegates[d] = w.delegates[d]
                       /\ w1.delegates[d].client = w.delegates[d].client
                       /\ w1.delegates[d].made = w.delegates[d].made
                       /\ w1.delegates[d].subs = IF d = c THEN {} ELSE w.delegates[d].subs
  BY <1>1, <1>5 DEF Delegates
<1>8. Owned(w1, O, M)
  <2>1. \A j \in ClientIds :
          /\ w1.clients[j].then = "destroy" => w1.clients[j].conn \notin O
          /\ w1.clients[j].st # "unused" => w1.clients[j].conn \in M
    BY <1>4 DEF Good, Owned
  <2>2. \A d \in Conns : w1.delegates[d].client # NoClient =>
          /\ w1.clients[w1.delegates[d].client].conn = d
          /\ w1.clients[w1.delegates[d].client].st # "unused"
    BY <1>4, <1>7 DEF Good, Owned
  <2> QED  BY <2>1, <2>2 DEF Owned
<1>9. FreshStart(w1, O, M)
  BY <1>7 DEF Good, FreshStart
<1>10. CallbackKnown(w1) /\ HasCause(w1)
  BY <1>4 DEF Good, CallbackKnown, HasCause
<1>11. Calm(w, w1, O)
  BY <1>4, <1>7 DEF Calm
<1>12. SameRoom(w, w1)
  BY <1>4 DEF SameRoom, Waiting, Free
<1> QED  BY <1>4, <1>6, <1>7, <1>8, <1>9, <1>10, <1>11, <1>12 DEF Good

\* What disconnect runs once the client has ended.
LEMMA AfterEndGood ==
  ASSUME NEW w, NEW O, NEW M, Good(w, O, M), NEW c \in Conns, NEW token \in Tokens,
         NEW then \in {"update", "connect", "destroy"}, c \in M,
         then = "connect" => Free(w) # {}, then = "destroy" => c \notin O
  PROVE  /\ Good(AfterEnd(w, c, then, token), O, M)
         /\ Calm(w, AfterEnd(w, c, then, token), O)
         /\ then # "connect" => SameRoom(w, AfterEnd(w, c, then, token))
         /\ then = "connect" =>
              /\ \E k \in Free(w) : Free(AfterEnd(w, c, then, token)) = Free(w) \ {k}
              /\ Waiting(AfterEnd(w, c, then, token)) = Waiting(w)
<1> DEFINE w0 == Cleared(w, c)
           w1 == AfterEnd(w, c, then, token)
<1>1. w1 = Callback(w0, c, then, token)
  BY DEF AfterEnd, Cleared
<1>2. /\ Good(w0, O, M) /\ Calm(w, w0, O) /\ SameRoom(w, w0)
      /\ w0.delegates[c].subs = {} /\ w0.clients = w.clients
  BY ClearedGood
<1>3. Free(w0) = Free(w) /\ Waiting(w0) = Waiting(w)
  BY <1>2 DEF Free, Waiting
<1>4. /\ Good(w1, O, M) /\ Calm(w0, w1, O) /\ (then # "connect" => SameRoom(w0, w1))
      /\ then = "connect" => /\ \E k \in Free(w0) : Free(w1) = Free(w0) \ {k}
                             /\ Waiting(w1) = Waiting(w0)
  BY <1>1, <1>2, <1>3, CallbackGood
<1>5. Calm(w, w1, O)
  BY <1>2, <1>4, CalmTwice
<1>6. then # "connect" => SameRoom(w, w1)
  BY <1>2, <1>4, SameRoomTwice
<1> QED  BY <1>3, <1>4, <1>5, <1>6

\* end() is called, and its callback waits.
Ending(w, k, then, token) ==
  [w EXCEPT !.clients[k].ending = TRUE, !.clients[k].then = then, !.clients[k].next = token]

\* The end() of a client begins: at most this one waits in addition.
LEMMA EndingGood ==
  ASSUME NEW w, NEW O, NEW M, Good(w, O, M), NEW c \in Conns, NEW token \in Tokens,
         NEW then \in {"update", "connect", "destroy"}, then = "destroy" => c \notin O,
         NEW k \in ClientIds, k = w.delegates[c].client
  PROVE  /\ Good(Ending(w, k, then, token), O, M) /\ Calm(w, Ending(w, k, then, token), O)
         /\ Free(Ending(w, k, then, token)) = Free(w)
         /\ Waiting(Ending(w, k, then, token)) \subseteq Waiting(w) \cup {k}
         /\ then # "connect" => Waiting(Ending(w, k, then, token)) \subseteq Waiting(w)
<1> DEFINE w1 == Ending(w, k, then, token)
<1>1. w \in Worlds /\ w.clients \in [ClientIds -> Clients(Tokens)]
  BY DEF Good, Worlds
<1>2. /\ w1.delegates = w.delegates /\ w1.connecting = w.connecting /\ w1.shown = w.shown
      /\ w1 = [clients |-> w1.clients, delegates |-> w1.delegates,
               shown |-> w1.shown, connecting |-> w1.connecting]
      /\ w1.clients = [[[w.clients EXCEPT ![k].ending = TRUE] EXCEPT ![k].then = then]
                          EXCEPT ![k].next = token]
  <2>1. /\ w1.delegates = w.delegates /\ w1.connecting = w.connecting /\ w1.shown = w.shown
        /\ w1.clients = [[[w.clients EXCEPT ![k].ending = TRUE] EXCEPT ![k].then = then]
                            EXCEPT ![k].next = token]
    BY <1>1 DEF Worlds, Ending
  <2>2. w1 = [clients |-> w1.clients, delegates |-> w1.delegates,
              shown |-> w1.shown, connecting |-> w1.connecting]
    <3>1. w = [clients |-> w.clients, delegates |-> w.delegates,
               shown |-> w.shown, connecting |-> w.connecting]
      BY <1>1 DEF Worlds
    <3>2. w1 = [w EXCEPT !.clients = w1.clients]
      BY <1>1, <3>1 DEF Ending
    <3> QED  BY <2>1, <3>1, <3>2
  <2> QED  BY <2>1, <2>2
<1> DEFINE x == [[[w.clients[k] EXCEPT !.ending = TRUE] EXCEPT !.then = then] EXCEPT !.next = token]
<1>3. w1.clients = [w.clients EXCEPT ![k] = x]
  BY <1>1, <1>2
<1>4. x \in Clients(Tokens)
  <2>1. [w.clients[k] EXCEPT !.ending = TRUE] \in Clients(Tokens)
    BY <1>1 DEF Clients
  <2>2. [[w.clients[k] EXCEPT !.ending = TRUE] EXCEPT !.then = then] \in Clients(Tokens)
    BY <2>1 DEF Clients, Continuations
  <2> QED  BY <2>2 DEF Clients
<1>5. /\ x.st = w.clients[k].st /\ x.conn = w.clients[k].conn
      /\ x.ending = TRUE /\ x.then = then
  BY <1>1 DEF Clients
<1> HIDE DEF x
<1>6. w1 \in Worlds
  <2>1. w1.clients \in [ClientIds -> Clients(Tokens)]
    BY <1>1, <1>3, <1>4
  <2>2. /\ w.delegates \in [Conns -> Delegates]
        /\ w.shown \in [Conns -> Shown] /\ w.connecting \in BOOLEAN
    BY <1>1 DEF Worlds
  <2> QED  BY <1>2, <2>1, <2>2 DEF Worlds
<1> DEFINE Holds(j) == w1.clients[j] = IF j = k THEN x ELSE w.clients[j]
<1>0. \A j \in ClientIds : Holds(j)
  BY <1>1, <1>3
<1>7. \A j \in ClientIds : /\ j # k => w1.clients[j] = w.clients[j]
                           /\ w1.clients[j].st = w.clients[j].st
                           /\ w1.clients[j].conn = w.clients[j].conn
  BY <1>0, <1>5
<1>8. w1.clients[k].ending /\ w1.clients[k].then = then
  BY <1>0, <1>5
<1>9. w.clients[k].conn = c /\ w.clients[k].st # "unused"
  BY DelegateBoundsAssumption DEF Good, Owned, ClientIds, NoClient
<1>10. CallbackKnown(w1)
  <2>1. ASSUME NEW j \in ClientIds
        PROVE  /\ w1.clients[j].ending /\ w1.clients[j].st \notin {"closing", "ended"}
                    => w1.clients[j].then # ""
               /\ w1.clients[j].st = "unused" => ~w1.clients[j].ending /\ w1.clients[j].then = ""
    <3>1. CASE j = k
      BY <1>7, <1>8, <1>9, <3>1
    <3>2. CASE j # k
      BY <1>7, <3>2 DEF Good, CallbackKnown
    <3> QED  BY <3>1, <3>2
  <2> QED  BY <2>1 DEF CallbackKnown
<1>11. Owned(w1, O, M)
  <2>1. ASSUME NEW j \in ClientIds
        PROVE  /\ w1.clients[j].then = "destroy" => w1.clients[j].conn \notin O
               /\ w1.clients[j].st # "unused" => w1.clients[j].conn \in M
    <3>1. CASE j = k
      BY <1>7, <1>8, <1>9, <3>1, SMTT(30) DEF Good, Owned
    <3>2. CASE j # k
      BY <1>7, <3>2 DEF Good, Owned
    <3> QED  BY <3>1, <3>2
  <2>2. ASSUME NEW d \in Conns, w1.delegates[d].client # NoClient
        PROVE  /\ w1.clients[w1.delegates[d].client].conn = d
               /\ w1.clients[w1.delegates[d].client].st # "unused"
    <3>1. w.delegates[d].client \in ClientIds
      BY <1>1, <1>2, <2>2 DEF Worlds, Delegates
    <3>2. /\ w.clients[w.delegates[d].client].conn = d
          /\ w.clients[w.delegates[d].client].st # "unused"
      BY <1>2, <2>2 DEF Good, Owned
    <3> QED  BY <1>2, <1>7, <3>1, <3>2
  <2> QED  BY <2>1, <2>2 DEF Owned
<1>12. FreshStart(w1, O, M)
  BY <1>2, ZenonT(40) DEF Good, FreshStart
<1>13. HasCause(w1)
  <2>1. w.connecting => \E j \in ClientIds : w.clients[j].st = "connecting"
    BY DEF Good, HasCause
  <2>2. (\E j \in ClientIds : w.clients[j].st = "connecting")
          => \E j \in ClientIds : w1.clients[j].st = "connecting"
    BY <1>7
  <2> QED  BY <1>2, <2>1, <2>2 DEF HasCause
<1>14. Calm(w, w1, O)
  BY <1>2, <1>7 DEF Calm
<1>15. Free(w1) = Free(w)
  BY <1>7 DEF Free
<1>16. /\ Waiting(w1) \subseteq Waiting(w) \cup {k}
       /\ then # "connect" => Waiting(w1) \subseteq Waiting(w)
  BY <1>7, <1>8 DEF Waiting
<1> QED  BY <1>6, <1>10, <1>11, <1>12, <1>13, <1>14, <1>15, <1>16 DEF Good

\* disconnect: at once, or when the client has ended.
LEMMA DisconnectGood ==
  ASSUME NEW w, NEW O, NEW M, Good(w, O, M), NEW c \in Conns, NEW token \in Tokens,
         NEW then \in {"update", "connect", "destroy"}, c \in M,
         then = "connect" => RoomForClient(w) /\ c \in O, then = "destroy" => c \notin O
  PROVE  /\ Good(Disconnect(w, c, then, token), O, M)
         /\ Calm(w, Disconnect(w, c, then, token), O)
         /\ then # "connect" => SameRoom(w, Disconnect(w, c, then, token))
         /\ then = "connect" => Room(Disconnect(w, c, then, token))
<1> DEFINE k == w.delegates[c].client
           w1 == Disconnect(w, c, then, token)
<1>1. k = NoClient \/ k \in ClientIds
  BY DEF Good, Worlds, Delegates
<1>2. then = "connect" => Free(w) # {}
  BY RoomNotEmpty
<1>3. CASE k = NoClient /\ then = "update"
  <2>1. w1 = w
    BY <1>3 DEF Disconnect
  <2> QED  BY <1>3, <2>1 DEF Calm, SameRoom
<1>4. CASE k = NoClient /\ then # "update"
  <2>1. w1 = Callback(w, c, then, token)
    BY <1>4 DEF Disconnect
  <2>2. then = "connect" => w.delegates[c].subs = {}
    BY <1>4 DEF Good, FreshStart
  <2>3. /\ Good(w1, O, M) /\ Calm(w, w1, O) /\ (then # "connect" => SameRoom(w, w1))
        /\ then = "connect" => /\ \E j \in Free(w) : Free(w1) = Free(w) \ {j}
                               /\ Waiting(w1) = Waiting(w)
    BY <1>2, <2>1, <2>2, CallbackGood
  <2>4. then = "connect" => Room(w1)
    BY <2>3, RoomAfterOne
  <2> QED  BY <2>3, <2>4
<1>5. CASE k \in ClientIds /\ w.clients[k].ending
  <2>1. w1 = AfterEnd(w, c, then, token)
    BY <1>5, DelegateBoundsAssumption DEF Disconnect, ClientIds, NoClient
  <2>2. /\ Good(w1, O, M) /\ Calm(w, w1, O) /\ (then # "connect" => SameRoom(w, w1))
        /\ then = "connect" => /\ \E j \in Free(w) : Free(w1) = Free(w) \ {j}
                               /\ Waiting(w1) = Waiting(w)
    BY <1>2, <2>1, AfterEndGood
  <2>3. then = "connect" => Room(w1)
    BY <2>2, RoomAfterOne
  <2> QED  BY <2>2, <2>3
<1>6. CASE k \in ClientIds /\ ~w.clients[k].ending
  <2>1. w1 = Ending(w, k, then, token)
    BY <1>6, DelegateBoundsAssumption DEF Disconnect, ClientIds, NoClient, Ending
  <2>2. /\ Good(w1, O, M) /\ Calm(w, w1, O)
        /\ Free(w1) = Free(w) /\ Waiting(w1) \subseteq Waiting(w) \cup {k}
        /\ then # "connect" => Waiting(w1) \subseteq Waiting(w)
    BY <1>6, <2>1, EndingGood
  <2>3. then = "connect" => Room(w1)
    BY <2>2, RoomAfterWait
  <2> QED  BY <2>2, <2>3 DEF SameRoom
<1> QED  BY <1>1, <1>3, <1>4, <1>5, <1>6

(***************************************************************************)
(* The events of a client: the client changes, then the store is told.     *)
(***************************************************************************)
\* Good but for the flag, which UpdateStore clears.
Sound(w, O, M) == w \in Worlds /\ CallbackKnown(w) /\ Owned(w, O, M) /\ FreshStart(w, O, M)

\* Client k becomes x.
SetClient(w, k, x) == [w EXCEPT !.clients[k] = x]

\* The other clients stay.
LEMMA SetClientIs ==
  ASSUME NEW w \in Worlds, NEW k \in ClientIds, NEW x \in Clients(Tokens)
  PROVE  /\ SetClient(w, k, x) \in Worlds
         /\ SetClient(w, k, x).delegates = w.delegates
         /\ SetClient(w, k, x).connecting = w.connecting
         /\ \A j \in ClientIds :
              SetClient(w, k, x).clients[j] = IF j = k THEN x ELSE w.clients[j]
  BY DEF SetClient, Worlds

\* A client in use goes on, or has its callback run.
Goes(y, x) ==
  /\ x.conn = y.conn /\ y.st # "unused" /\ x.st # "unused"
  /\ x.ending /\ x.st \notin {"closing", "ended"} => x.then # ""
  /\ x.then \in {y.then, ""}
  /\ y.st = "ended" => x.st = "ended"

\* A client may go on, or its callback be taken; then the store is told.
LEMMA SetClientSound ==
  ASSUME NEW w, NEW O, NEW M, Good(w, O, M), NEW k \in ClientIds,
         NEW x \in Clients(Tokens), Goes(w.clients[k], x)
  PROVE  /\ Sound(SetClient(w, k, x), O, M)
         /\ SameRoom(w, SetClient(w, k, x))
         /\ x.then # "connect" => k \notin Waiting(SetClient(w, k, x))
         /\ (x.st = "connected" \/ w.clients[k].st # "connected")
              => Calm(w, SetClient(w, k, x), O)
<1> DEFINE w1 == SetClient(w, k, x)
<1>1. w \in Worlds
  BY DEF Good
<1>2. /\ w1 \in Worlds /\ w1.delegates = w.delegates
      /\ \A j \in ClientIds : w1.clients[j] = IF j = k THEN x ELSE w.clients[j]
  BY <1>1, SetClientIs
<1>3. CallbackKnown(w1)
  <2>1. ASSUME NEW j \in ClientIds
        PROVE  /\ w1.clients[j].ending /\ w1.clients[j].st \notin {"closing", "ended"}
                    => w1.clients[j].then # ""
               /\ w1.clients[j].st = "unused" => ~w1.clients[j].ending /\ w1.clients[j].then = ""
    <3>1. CASE j = k
      BY <1>2, <3>1 DEF Goes
    <3>2. CASE j # k
      BY <1>2, <3>2 DEF Good, CallbackKnown
    <3> QED  BY <3>1, <3>2
  <2> QED  BY <2>1 DEF CallbackKnown
<1>4. Owned(w1, O, M)
  <2>1. ASSUME NEW j \in ClientIds
        PROVE  /\ w1.clients[j].then = "destroy" => w1.clients[j].conn \notin O
               /\ w1.clients[j].st # "unused" => w1.clients[j].conn \in M
    <3>1. CASE j = k
      BY <1>2, <3>1 DEF Goes, Good, Owned
    <3>2. CASE j # k
      BY <1>2, <3>2 DEF Good, Owned
    <3> QED  BY <3>1, <3>2
  <2>2. ASSUME NEW d \in Conns, w1.delegates[d].client # NoClient
        PROVE  /\ w1.clients[w1.delegates[d].client].conn = d
               /\ w1.clients[w1.delegates[d].client].st # "unused"
    <3>1. w.delegates[d].client \in ClientIds
      BY <1>1, <1>2, <2>2 DEF Worlds, Delegates
    <3>2. /\ w.clients[w.delegates[d].client].conn = d
          /\ w.clients[w.delegates[d].client].st # "unused"
      BY <1>2, <2>2 DEF Good, Owned
    <3> QED  BY <1>2, <3>1, <3>2 DEF Goes
  <2> QED  BY <2>1, <2>2 DEF Owned
<1>5. FreshStart(w1, O, M)
  BY <1>2 DEF Good, FreshStart
<1>6. Free(w1) = Free(w)
  BY <1>2 DEF Free, Goes
<1>7. Waiting(w1) \subseteq Waiting(w) /\ (x.then # "connect" => k \notin Waiting(w1))
  BY <1>2 DEF Waiting, Goes
<1>8. (x.st = "connected" \/ w.clients[k].st # "connected") => Calm(w, w1, O)
  BY <1>2 DEF Calm
<1> QED  BY <1>2, <1>3, <1>4, <1>5, <1>6, <1>7, <1>8 DEF Sound, SameRoom

\* Telling the store clears the flag, so a sound world becomes good.
LEMMA UpdateStoreSound ==
  ASSUME NEW w, NEW O, NEW M, Sound(w, O, M), NEW c \in Conns
  PROVE  /\ Good(UpdateStore(w, c), O, M)
         /\ Calm(w, UpdateStore(w, c), O)
         /\ SameRoom(w, UpdateStore(w, c))
<1> DEFINE w1 == UpdateStore(w, c)
<1>1. /\ w1 \in Worlds /\ w1.clients = w.clients /\ w1.delegates = w.delegates
      /\ w1.connecting = FALSE
  BY UpdateStoreIs DEF Sound
<1>2. CallbackKnown(w1) /\ Owned(w1, O, M) /\ FreshStart(w1, O, M)
  BY <1>1, ZenonT(40) DEF Sound, CallbackKnown, Owned, FreshStart
<1>3. HasCause(w1)
  BY <1>1 DEF HasCause
<1>4. Calm(w, w1, O) /\ SameRoom(w, w1)
  BY <1>1 DEF Calm, SameRoom, Waiting, Free
<1> QED  BY <1>1, <1>2, <1>3, <1>4 DEF Good

\* The variables and the world they make.
LEMMA WorldIs ==
  /\ World.clients = clients /\ World.delegates = delegates
  /\ World.shown = shown /\ World.connecting = connecting
  BY DEF World

\* A step that becomes w leads to w.
LEMMA BecomeIs ==
  ASSUME NEW w \in Worlds, Become(w)
  PROVE  World' = w
<1>1. w = [clients |-> w.clients, delegates |-> w.delegates,
           shown |-> w.shown, connecting |-> w.connecting]
  BY DEF Worlds
<1> QED  BY <1>1 DEF Become, World

\* The client of a step: its type, and the connection it is of.
LEMMA ClientIs ==
  ASSUME NEW O, NEW M, Good(World, O, M), NEW k \in ClientIds
  PROVE  /\ World \in Worlds /\ clients \in [ClientIds -> Clients(Tokens)]
         /\ clients[k] \in Clients(Tokens) /\ clients[k].conn \in Conns
         /\ clients[k].st # "unused" => clients[k].conn \in M
         /\ clients[k].then = "destroy" => clients[k].conn \notin O
<1>1. World \in Worlds /\ clients \in [ClientIds -> Clients(Tokens)]
  BY WorldIs DEF Good, Worlds
<1>2. clients[k] \in Clients(Tokens) /\ clients[k].conn \in Conns
  BY <1>1 DEF Clients
<1> QED  BY <1>1, <1>2, WorldIs DEF Good, Owned

\* An event of client k: it becomes x, and the store is told.
LEMMA ToldOfClient ==
  ASSUME NEW O, NEW M, Good(World, O, M), NEW k \in ClientIds,
         NEW x \in Clients(Tokens), Goes(clients[k], x), NEW w,
         w = UpdateStore(SetClient(World, k, x), clients[k].conn)
  PROVE  /\ Good(w, O, M) /\ SameRoom(World, w) /\ w.delegates = delegates
         /\ \A j \in ClientIds : w.clients[j] = IF j = k THEN x ELSE clients[j]
         /\ (x.st = "connected" \/ clients[k].st # "connected") => Calm(World, w, O)
<1> DEFINE w0 == SetClient(World, k, x)
<1>1. World \in Worlds /\ clients[k].conn \in Conns
  BY ClientIs
<1>2. /\ Sound(w0, O, M) /\ SameRoom(World, w0)
      /\ (x.st = "connected" \/ clients[k].st # "connected") => Calm(World, w0, O)
  BY SetClientSound, WorldIs
<1>3. /\ w0 \in Worlds /\ w0.delegates = delegates
      /\ \A j \in ClientIds : w0.clients[j] = IF j = k THEN x ELSE clients[j]
  BY <1>1, SetClientIs, WorldIs
<1>4. Good(w, O, M) /\ Calm(w0, w, O) /\ SameRoom(w0, w)
  BY <1>1, <1>2, UpdateStoreSound
<1>5. w.clients = w0.clients /\ w.delegates = w0.delegates
  BY <1>1, <1>3, UpdateStoreIs
<1>6. SameRoom(World, w)
  BY <1>2, <1>4, SameRoomTwice
<1>7. (x.st = "connected" \/ clients[k].st # "connected") => Calm(World, w, O)
  BY <1>2, <1>4, CalmTwice
<1> QED  BY <1>3, <1>4, <1>5, <1>6, <1>7

\* onconnect, onclose, a late close, onend and onreconnect.
LEMMA ConnectGood ==
  ASSUME NEW O, NEW M, Good(World, O, M), NEW k \in ClientIds, Trying(k)
  PROVE  /\ Good(OnConnect(k), O, M) /\ SameRoom(World, OnConnect(k))
         /\ Calm(World, OnConnect(k), O) /\ OnConnect(k).delegates = delegates
         /\ OnConnect(k).clients[k].st = "connected"
<1> DEFINE x == [[clients[k] EXCEPT !.st = "connected"] EXCEPT !.token = 0]
<1>1. World \in Worlds /\ clients \in [ClientIds -> Clients(Tokens)]
      /\ clients[k] \in Clients(Tokens)
  BY ClientIs
<1>2. 0 \in Tokens
  BY BoundsAssumption DEF Tokens
<1>3. [clients[k] EXCEPT !.st = "connected"] \in Clients(Tokens)
  BY <1>1 DEF Clients, ClientState
<1>4. x \in Clients(Tokens)
  BY <1>2, <1>3 DEF Clients
<1>5. x.conn = clients[k].conn /\ x.st = "connected" /\ x.then = clients[k].then
      /\ x.ending = clients[k].ending
  BY <1>1 DEF Clients
<1>6. Goes(clients[k], x)
  BY <1>5 DEF Goes, Trying
<1>7. [World EXCEPT !.clients[k].st = "connected", !.clients[k].token = 0]
        = SetClient(World, k, x)
  BY <1>1 DEF SetClient, World
<1>8. OnConnect(k) = UpdateStore(SetClient(World, k, x), clients[k].conn)
  BY <1>7 DEF OnConnect
<1> HIDE DEF x
<1> QED  BY <1>4, <1>5, <1>6, <1>8, ToldOfClient

\* ... a stream that is lost, or an attempt that failed;
LEMMA CloseGood ==
  ASSUME NEW O, NEW M, Good(World, O, M), NEW k \in ClientIds,
         clients[k].st = "connected" \/ Trying(k)
  PROVE  /\ Good(OnClose(k), O, M) /\ SameRoom(World, OnClose(k))
         /\ OnClose(k).delegates = delegates
         /\ \A j \in ClientIds : j # k => OnClose(k).clients[j] = clients[j]
         /\ clients[k].st # "connected" => Calm(World, OnClose(k), O)
<1> DEFINE x == [clients[k] EXCEPT !.st = "offline"]
<1>1. World \in Worlds /\ clients \in [ClientIds -> Clients(Tokens)]
      /\ clients[k] \in Clients(Tokens)
  BY ClientIs
<1>2. x \in Clients(Tokens)
  BY <1>1 DEF Clients, ClientState
<1>3. x.conn = clients[k].conn /\ x.st = "offline" /\ x.then = clients[k].then
      /\ x.ending = clients[k].ending
  BY <1>1 DEF Clients
<1>4. x.ending => x.then # ""
  BY <1>3, WorldIs DEF Good, CallbackKnown, Trying
<1>5. Goes(clients[k], x)
  BY <1>3, <1>4 DEF Goes, Trying
<1>6. [World EXCEPT !.clients[k].st = "offline"] = SetClient(World, k, x)
  BY <1>1 DEF SetClient, World
<1>7. OnClose(k) = UpdateStore(SetClient(World, k, x), clients[k].conn)
  BY <1>6 DEF OnClose
<1> HIDE DEF x
<1> QED  BY <1>2, <1>5, <1>7, ToldOfClient

\* ... the stream of an attempt that was cut short;
LEMMA LateCloseGood ==
  ASSUME NEW O, NEW M, Good(World, O, M), NEW k \in ClientIds, clients[k].st = "closing"
  PROVE  /\ Good(OnLateClose(k), O, M) /\ SameRoom(World, OnLateClose(k))
         /\ Calm(World, OnLateClose(k), O)
<1> DEFINE x == [clients[k] EXCEPT !.st = "ended"]
<1>1. World \in Worlds /\ clients \in [ClientIds -> Clients(Tokens)]
      /\ clients[k] \in Clients(Tokens)
  BY ClientIs
<1>2. x \in Clients(Tokens)
  BY <1>1 DEF Clients, ClientState
<1>3. x.conn = clients[k].conn /\ x.st = "ended" /\ x.then = clients[k].then
  BY <1>1 DEF Clients
<1>4. Goes(clients[k], x)
  BY <1>3 DEF Goes
<1>5. [World EXCEPT !.clients[k].st = "ended"] = SetClient(World, k, x)
  BY <1>1 DEF SetClient, World
<1>6. OnLateClose(k) = UpdateStore(SetClient(World, k, x), clients[k].conn)
  BY <1>5 DEF OnLateClose
<1> HIDE DEF x
<1> QED  BY <1>2, <1>4, <1>6, ToldOfClient

\* A client that has ended.
LEMMA OverIs ==
  ASSUME NEW k \in ClientIds, clients[k] \in Clients(Tokens)
  PROVE  /\ Over(k) \in Clients(Tokens)
         /\ Over(k).conn = clients[k].conn /\ Over(k).then = ""
         /\ Over(k).st = IF clients[k].st = "connecting" THEN "closing" ELSE "ended"
<1> DEFINE s == IF clients[k].st = "connecting" THEN "closing" ELSE "ended"
           x1 == [clients[k] EXCEPT !.st = s]
           x2 == [x1 EXCEPT !.then = ""]
           x3 == [x2 EXCEPT !.next = 0]
           x4 == [x3 EXCEPT !.token = 0]
           x5 == [x4 EXCEPT !.answered = {}]
<1>1. 0 \in Tokens
  BY BoundsAssumption DEF Tokens
<1>2. x1 \in Clients(Tokens) /\ x1.st = s /\ x1.conn = clients[k].conn
  BY DEF Clients, ClientState
<1>3. x2 \in Clients(Tokens) /\ x2.st = s /\ x2.conn = clients[k].conn /\ x2.then = ""
  <2> HIDE DEF x1, s
  <2> QED  BY <1>2 DEF Clients, Continuations
<1>4. x3 \in Clients(Tokens) /\ x3.st = s /\ x3.conn = clients[k].conn /\ x3.then = ""
  <2> HIDE DEF x2, s
  <2> QED  BY <1>1, <1>3 DEF Clients
<1>5. x4 \in Clients(Tokens) /\ x4.st = s /\ x4.conn = clients[k].conn /\ x4.then = ""
  <2> HIDE DEF x3, s
  <2> QED  BY <1>1, <1>4 DEF Clients
<1>6. x5 \in Clients(Tokens) /\ x5.st = s /\ x5.conn = clients[k].conn /\ x5.then = ""
  <2> HIDE DEF x4, s
  <2> QED  BY <1>5 DEF Clients
<1>7. Over(k) = x5
  BY DEF Over
<1> QED  BY <1>6, <1>7

\* ... the end, with the callback that waited for it;
LEMMA EndGood ==
  ASSUME NEW O, NEW M, Good(World, O, M), Room(World), NEW k \in ClientIds,
         clients[k].ending, clients[k].st \in {"connecting", "offline"}
  PROVE  /\ Good(OnEnd(k), O, M) /\ Room(OnEnd(k)) /\ Calm(World, OnEnd(k), O)
<1> DEFINE c == clients[k].conn
           w1 == UpdateStore(SetClient(World, k, Over(k)), c)
           then == clients[k].then
           w2 == AfterEnd(w1, c, then, clients[k].next)
<1>1. /\ World \in Worlds /\ clients[k] \in Clients(Tokens) /\ c \in Conns /\ c \in M
      /\ then = "destroy" => c \notin O
  BY ClientIs
<1>2. then \in {"update", "connect", "destroy"} /\ clients[k].next \in Tokens
  BY <1>1, WorldIs DEF Good, CallbackKnown, Clients, Continuations
<1>3. /\ Over(k) \in Clients(Tokens) /\ Over(k).then = "" /\ Over(k).conn = c
      /\ Over(k).st \in {"closing", "ended"}
  BY <1>1, OverIs
<1>4. Goes(clients[k], Over(k))
  BY <1>3 DEF Goes
<1>5. /\ Good(w1, O, M) /\ SameRoom(World, w1) /\ Calm(World, w1, O)
      /\ \A j \in ClientIds : w1.clients[j] = IF j = k THEN Over(k) ELSE clients[j]
  <2> DEFINE x == Over(k)
  <2>1. w1 = UpdateStore(SetClient(World, k, x), clients[k].conn)
    OBVIOUS
  <2>2. x \in Clients(Tokens) /\ Goes(clients[k], x) /\ clients[k].st # "connected"
    BY <1>3, <1>4
  <2> HIDE DEF w1, x
  <2>3. /\ Good(w1, O, M) /\ SameRoom(World, w1)
        /\ \A j \in ClientIds : w1.clients[j] = IF j = k THEN x ELSE clients[j]
        /\ (x.st = "connected" \/ clients[k].st # "connected") => Calm(World, w1, O)
    BY <2>1, <2>2, ToldOfClient
  <2> QED  BY <2>2, <2>3 DEF x
<1>6. OnEnd(k) = w2
  BY DEF OnEnd, SetClient
<1> HIDE DEF w1
<1>7. then = "connect" => RoomForClient(w1)
  <2>1. HAVE then = "connect"
  <2>2. k \in Waiting(World) /\ k \notin Waiting(w1)
    BY <1>3, <1>5, <2>1, WorldIs DEF Waiting
  <2>3. Waiting(w1) \subseteq Waiting(World) \ {k} /\ Free(w1) = Free(World)
    BY <1>5, <2>2 DEF SameRoom
  <2>4. /\ Cardinality(Waiting(World) \ {k}) = Cardinality(Waiting(World)) - 1
        /\ IsFiniteSet(Waiting(World) \ {k})
    BY <2>2, RoomsFinite, FS_RemoveElement
  <2>5. Cardinality(Waiting(w1)) <= Cardinality(Waiting(World)) - 1
    BY <2>3, <2>4, FS_Subset
  <2> QED  BY <2>3, <2>5, RoomsFinite, RoomForClientIs DEF Room
<1>8. then = "connect" => Free(w1) # {}
  BY <1>7, RoomNotEmpty
<1>9. /\ Good(w2, O, M) /\ Calm(w1, w2, O) /\ (then # "connect" => SameRoom(w1, w2))
      /\ then = "connect" => /\ \E j \in Free(w1) : Free(w2) = Free(w1) \ {j}
                             /\ Waiting(w2) = Waiting(w1)
  BY <1>1, <1>2, <1>5, <1>8, AfterEndGood
<1>10. Calm(World, w2, O)
  BY <1>5, <1>9, CalmTwice
<1>11. Room(w2)
  <2>1. CASE then = "connect"
    BY <1>7, <1>9, <2>1, RoomAfterOne
  <2>2. CASE then # "connect"
    BY <1>5, <1>9, <2>2, SameRoomKeeps
  <2> QED  BY <2>1, <2>2
<1> QED  BY <1>6, <1>9, <1>10, <1>11

\* ... and the timer, which may end the present client instead.
LEMMA ReconnectGood ==
  ASSUME NEW O, NEW M, Good(World, O, M), Room(World), NEW k \in ClientIds,
         clients[k].st = "offline", ~clients[k].ending
  PROVE  /\ Good(OnReconnect(k), O, M) /\ Room(OnReconnect(k))
         /\ Calm(World, OnReconnect(k), O)
<1> DEFINE c == clients[k].conn
           x == [clients[k] EXCEPT !.st = IF delegates[c].client = k
                                          THEN clients[k].st ELSE "connecting"]
           y == [clients[k] EXCEPT !.st = "connecting"]
<1>1. /\ World \in Worlds /\ clients \in [ClientIds -> Clients(Tokens)]
      /\ clients[k] \in Clients(Tokens) /\ c \in Conns /\ c \in M
      /\ delegates \in [Conns -> Delegates]
  BY ClientIs, WorldIs DEF Worlds
<1>2. x \in Clients(Tokens) /\ y \in Clients(Tokens)
  BY <1>1 DEF Clients, ClientState
<1>3. /\ x.conn = c /\ x.st \in {"offline", "connecting"} /\ x.then = clients[k].then
      /\ x.ending = clients[k].ending
  BY <1>1 DEF Clients
<1>4. /\ y.conn = c /\ y.st = "connecting" /\ y.then = clients[k].then
      /\ y.ending = clients[k].ending
  BY <1>1 DEF Clients
<1>5. Goes(clients[k], x) /\ Goes(clients[k], y)
  BY <1>3, <1>4 DEF Goes
<1>6. CASE delegates[c].retryTimes < RetryLimit
  <2> DEFINE w0 == SetClient(World, k, y)
             d == [delegates[c] EXCEPT !.retryTimes = @ + 1]
             w1 == [[w0 EXCEPT !.delegates[c].retryTimes = @ + 1] EXCEPT !.connecting = TRUE]
  <2>1. OnReconnect(k) = w1
    BY <1>1, <1>6 DEF OnReconnect, SetClient, World
  <2>2. /\ Sound(w0, O, M) /\ SameRoom(World, w0) /\ Calm(World, w0, O)
    <3> HIDE DEF y
    <3> QED  BY <1>2, <1>4, <1>5, SetClientSound, WorldIs
  <2>3. /\ w0 \in Worlds /\ w0.delegates = delegates
        /\ \A j \in ClientIds : w0.clients[j] = IF j = k THEN y ELSE clients[j]
    <3> HIDE DEF y, c
    <3>1. /\ w0 \in Worlds /\ w0.delegates = World.delegates
          /\ w0.connecting = World.connecting
          /\ \A j \in ClientIds : w0.clients[j] = IF j = k THEN y ELSE World.clients[j]
      BY <1>1, <1>2, SetClientIs
    <3> QED  BY <3>1, WorldIs
  <2>4. d \in Delegates
    BY <1>1, <1>6, DelegateBoundsAssumption DEF Delegates
  <2> HIDE DEF w0
  <2>5. /\ w1.clients = w0.clients /\ w1.connecting = TRUE
        /\ w1.delegates = [delegates EXCEPT ![c] = d]
    BY <1>1, <2>3 DEF Worlds
  <2>6. w1 \in Worlds
    <3>1. [w0 EXCEPT !.delegates[c].retryTimes = @ + 1] = [w0 EXCEPT !.delegates = [delegates EXCEPT ![c] = d]]
      BY <1>1, <2>3 DEF Worlds
    <3>2. [w0 EXCEPT !.delegates = [delegates EXCEPT ![c] = d]] \in Worlds
      BY <1>1, <2>3, <2>4 DEF Worlds
    <3> QED  BY <3>1, <3>2 DEF Worlds
  <2>7. \A e \in Conns : /\ w1.delegates[e].client = w0.delegates[e].client
                         /\ w1.delegates[e].subs = w0.delegates[e].subs
                         /\ w1.delegates[e].made = w0.delegates[e].made
    BY <1>1, <2>3, <2>5 DEF Delegates
  <2> HIDE DEF w1
  <2>8. CallbackKnown(w1) /\ Owned(w1, O, M) /\ FreshStart(w1, O, M)
    <3>1. CallbackKnown(w1)
      BY <2>2, <2>5 DEF Sound, CallbackKnown
    <3>2. Owned(w1, O, M)
      <4>1. \A j \in ClientIds :
              /\ w1.clients[j].then = "destroy" => w1.clients[j].conn \notin O
              /\ w1.clients[j].st # "unused" => w1.clients[j].conn \in M
        BY <2>2, <2>5 DEF Sound, Owned
      <4>2. \A e \in Conns : w1.delegates[e].client # NoClient =>
              /\ w1.clients[w1.delegates[e].client].conn = e
              /\ w1.clients[w1.delegates[e].client].st # "unused"
        BY <2>2, <2>5, <2>7 DEF Sound, Owned
      <4> QED  BY <4>1, <4>2 DEF Owned
    <3>3. FreshStart(w1, O, M)
      BY <2>2, <2>7 DEF Sound, FreshStart
    <3> QED  BY <3>1, <3>2, <3>3
  <2>9. HasCause(w1)
    <3>1. w1.clients[k].st = "connecting"
      BY <1>4, <2>3, <2>5
    <3> QED  BY <3>1 DEF HasCause
  <2>10. Calm(w0, w1, O) /\ SameRoom(w0, w1)
    BY <2>5, <2>7 DEF Calm, SameRoom, Waiting, Free
  <2>11. Calm(World, w1, O) /\ SameRoom(World, w1)
    BY <2>2, <2>10, CalmTwice, SameRoomTwice
  <2>12. Good(w1, O, M)
    BY <2>6, <2>8, <2>9 DEF Good
  <2> QED  BY <2>1, <2>11, <2>12, SameRoomKeeps
<1>7. CASE ~(delegates[c].retryTimes < RetryLimit)
  <2> DEFINE w0 == SetClient(World, k, x)
  <2>1. OnReconnect(k) = Cancel(w0, c)
    BY <1>1, <1>7 DEF OnReconnect, SetClient, World
  <2>2. /\ Sound(w0, O, M) /\ SameRoom(World, w0) /\ Calm(World, w0, O)
    <3> HIDE DEF x
    <3> QED  BY <1>2, <1>3, <1>5, SetClientSound, WorldIs
  <2>3. /\ w0 \in Worlds /\ w0.connecting = connecting
        /\ \A j \in ClientIds : w0.clients[j] = IF j = k THEN x ELSE clients[j]
    <3> HIDE DEF x, c
    <3>1. /\ w0 \in Worlds /\ w0.delegates = World.delegates
          /\ w0.connecting = World.connecting
          /\ \A j \in ClientIds : w0.clients[j] = IF j = k THEN x ELSE World.clients[j]
      BY <1>1, <1>2, SetClientIs
    <3> QED  BY <3>1, WorldIs
  <2> HIDE DEF w0
  <2>4. HasCause(w0)
    <3>1. connecting => \E j \in ClientIds : j # k /\ clients[j].st = "connecting"
      BY WorldIs DEF Good, HasCause
    <3> QED  BY <2>3, <3>1 DEF HasCause
  <2>5. Good(w0, O, M)
    BY <2>2, <2>4 DEF Sound, Good
  <2>6. 0 \in Tokens
    BY BoundsAssumption DEF Tokens
  <2>7. Good(Cancel(w0, c), O, M) /\ Calm(w0, Cancel(w0, c), O) /\ SameRoom(w0, Cancel(w0, c))
    BY <1>1, <2>5, <2>6, DisconnectGood DEF Cancel
  <2>8. Calm(World, Cancel(w0, c), O) /\ SameRoom(World, Cancel(w0, c))
    BY <2>2, <2>7, CalmTwice, SameRoomTwice
  <2> QED  BY <2>1, <2>7, <2>8, SameRoomKeeps
<1> QED  BY <1>6, <1>7

(***************************************************************************)
(* Removing connections.                                                   *)
(***************************************************************************)
\* splice: one entry less, those behind it move up.
LEMMA RemoveAtIs ==
  ASSUME NEW q \in Seq(Conns), NEW i \in 1 .. Len(q)
  PROVE  /\ RemoveAt(q, i) \in Seq(Conns)
         /\ Len(RemoveAt(q, i)) = Len(q) - 1
         /\ \A j \in 1 .. Len(q) - 1 : RemoveAt(q, i)[j] = IF j < i THEN q[j] ELSE q[j + 1]
<1> DEFINE a == SubSeq(q, 1, i - 1)
           b == SubSeq(q, i + 1, Len(q))
<1>1. Len(q) \in Nat /\ i \in Nat /\ i >= 1 /\ i <= Len(q)
  BY LenProperties
<1>2. /\ a \in Seq(Conns) /\ Len(a) = i - 1
      /\ \A j \in 1 .. i - 1 : a[j] = q[j]
  <2>1. \A j \in 1 .. i - 1 : j \in 1 .. Len(q)
    BY <1>1
  <2> QED  BY <1>1, <2>1, SubSeqProperties
<1>3. /\ b \in Seq(Conns) /\ Len(b) = Len(q) - i
      /\ \A j \in 1 .. Len(q) - i : b[j] = q[j + i]
  <2>1. CASE i = Len(q)
    <3>1. b = <<>>
      BY <1>1, <2>1, SubSeqEmpty
    <3> QED  BY <1>1, <2>1, <3>1, EmptySeq
  <2>2. CASE i < Len(q)
    <3>1. \A j \in i + 1 .. Len(q) : j \in 1 .. Len(q)
      BY <1>1
    <3> QED  BY <1>1, <2>2, <3>1, SubSeqProperties
  <2> QED  BY <1>1, <2>1, <2>2
<1>4. RemoveAt(q, i) = a \o b
  BY DEF RemoveAt
<1> HIDE DEF a, b
<1>5. /\ a \o b \in Seq(Conns) /\ Len(a \o b) = Len(q) - 1
      /\ \A j \in 1 .. Len(q) - 1 : (a \o b)[j] = IF j <= i - 1 THEN a[j] ELSE b[j - (i - 1)]
  <2>1. /\ a \o b \in Seq(Conns) /\ Len(a \o b) = Len(a) + Len(b)
        /\ \A j \in 1 .. Len(a) + Len(b) :
             (a \o b)[j] = IF j <= Len(a) THEN a[j] ELSE b[j - Len(a)]
    BY <1>2, <1>3, ConcatProperties
  <2>2. Len(a) = i - 1 /\ Len(a) + Len(b) = Len(q) - 1
    BY <1>1, <1>2, <1>3
  <2> QED  BY <2>1, <2>2
<1>6. ASSUME NEW j \in 1 .. Len(q) - 1
      PROVE  (a \o b)[j] = IF j < i THEN q[j] ELSE q[j + 1]
  <2>1. CASE j < i
    BY <1>1, <1>2, <1>5, <2>1
  <2>2. CASE j >= i
    <3>1. j - (i - 1) \in 1 .. Len(q) - i /\ (j - (i - 1)) + i = j + 1
      BY <1>1, <2>2
    <3> QED  BY <1>1, <1>3, <1>5, <2>2, <3>1
  <2>3. j < i \/ j >= i
    BY <1>1
  <2> QED  BY <2>1, <2>2, <2>3
<1> QED  BY <1>4, <1>5, <1>6

\* The list without a connection: nothing returns, and the connection is gone.
LEMMA WithoutIs ==
  ASSUME NEW q \in Seq(Conns), IsInjective(q), NEW c
  PROVE  /\ Without(q, c) \in Seq(Conns) /\ IsInjective(Without(q, c))
         /\ Range(Without(q, c)) \subseteq Range(q) /\ c \notin Range(Without(q, c))
<1>1. Len(q) \in Nat /\ DOMAIN q = 1 .. Len(q)
  BY LenProperties
<1>2. CASE q = <<>>
  BY <1>2, EmptySeq DEF Without, Range
<1>3. CASE q # <<>>
  <2> DEFINE i == IndexOf(q, c)
             r == RemoveAt(q, i)
  <2>1. Without(q, c) = r
    BY <1>3 DEF Without
  <2>2. Len(q) >= 1
    BY <1>1, <1>3, EmptySeq
  <2>3. i \in 1 .. Len(q) /\ (c \in Range(q) => q[i] = c)
    <3>1. CASE c \in Range(q)
      <4>1. \E j \in DOMAIN q : q[j] = c
        BY <3>1 DEF Range
      <4> QED  BY <1>1, <3>1, <4>1 DEF IndexOf
    <3>2. CASE c \notin Range(q)
      BY <1>1, <2>2, <3>2 DEF IndexOf
    <3> QED  BY <3>1, <3>2
  <2> HIDE DEF i
  <2>4. /\ r \in Seq(Conns) /\ Len(r) = Len(q) - 1
        /\ \A j \in 1 .. Len(q) - 1 : r[j] = IF j < i THEN q[j] ELSE q[j + 1]
    BY <2>3, RemoveAtIs
  <2> HIDE DEF r
  <2>5. DOMAIN r = 1 .. Len(q) - 1
    BY <2>4, LenProperties
  <2>6. ASSUME NEW j \in DOMAIN r
        PROVE  \E m \in DOMAIN q : r[j] = q[m] /\ m # i
    BY <1>1, <2>3, <2>4, <2>5
  <2>7. IsInjective(r)
    <3>1. ASSUME NEW j \in DOMAIN r, NEW m \in DOMAIN r, r[j] = r[m] PROVE j = m
      <4>1. /\ j \in 1 .. Len(q) - 1 /\ m \in 1 .. Len(q) - 1
            /\ r[j] = q[IF j < i THEN j ELSE j + 1]
            /\ r[m] = q[IF m < i THEN m ELSE m + 1]
        BY <2>4, <2>5
      <4>2. (IF j < i THEN j ELSE j + 1) \in DOMAIN q /\ (IF m < i THEN m ELSE m + 1) \in DOMAIN q
        BY <1>1, <4>1
      <4>3. (IF j < i THEN j ELSE j + 1) = (IF m < i THEN m ELSE m + 1)
        BY <3>1, <4>1, <4>2 DEF IsInjective
      <4> QED  BY <1>1, <2>3, <4>1, <4>3
    <3> QED  BY <3>1 DEF IsInjective
  <2>8. Range(r) \subseteq Range(q)
    BY <2>6 DEF Range
  <2>9. c \notin Range(r)
    <3>1. ASSUME NEW j \in DOMAIN r, r[j] = c PROVE FALSE
      <4>1. PICK m \in DOMAIN q : r[j] = q[m] /\ m # i
        BY <2>6
      <4>2. c \in Range(q)
        BY <3>1, <4>1 DEF Range
      <4> QED  BY <1>1, <2>3, <3>1, <4>1, <4>2 DEF IsInjective
    <3> QED  BY <3>1 DEF Range
  <2> QED  BY <2>1, <2>4, <2>7, <2>8, <2>9
<1> QED  BY <1>2, <1>3

\* The world, the list and the selection while connections are removed.
Removing(s, M) ==
  /\ s.order \in Seq(Conns) /\ IsInjective(s.order)
  /\ s.current \in M \cup {NoConn}
  /\ Good(s.world, Range(s.order), M)

Further(s, t) ==
  /\ Range(t.order) \subseteq Range(s.order)
  /\ Calm(s.world, t.world, Range(t.order))
  /\ SameRoom(s.world, t.world)

\* What is good for a list is good for a part of it.
LEMMA FewerListed ==
  ASSUME NEW w, NEW O, NEW P, NEW M, Good(w, O, M), P \subseteq O
  PROVE  Good(w, P, M)
  BY DEF Good, Owned, FreshStart

\* So is what is calm.
LEMMA CalmFewer ==
  ASSUME NEW w, NEW w1, NEW O, NEW P, Calm(w, w1, O), P \subseteq O
  PROVE  Calm(w, w1, P)
  BY DEF Calm

\* The store forgets a connection.
LEMMA ForgetStoreGood ==
  ASSUME NEW w, NEW O, NEW M, Good(w, O, M), NEW c \in Conns
  PROVE  /\ Good(ForgetStore(w, c), O, M)
         /\ Calm(w, ForgetStore(w, c), O)
         /\ SameRoom(w, ForgetStore(w, c))
  BY ForgetStoreIs, QuietIsGood DEF Good

\* selectConnection.
LEMMA SelectConnectionGood ==
  ASSUME NEW w, NEW O, NEW M, Good(w, O, M), NEW c \in Conns
  PROVE  /\ Good(SelectConnection(w, c), O, M)
         /\ Calm(w, SelectConnection(w, c), O)
         /\ SameRoom(w, SelectConnection(w, c))
         /\ SelectConnection(w, c).delegates[c].made
         /\ SelectConnection(w, c).clients = w.clients
<1> DEFINE w0 == GetDelegate(w, c)
           w1 == UpdateStore(w0, c)
<1>1. /\ Good(w0, O, M) /\ Calm(w, w0, O) /\ SameRoom(w, w0) /\ w0.delegates[c].made
  BY GetDelegateGood
<1>2. w \in Worlds /\ w0 \in Worlds
  BY <1>1 DEF Good
<1>3. w0.clients = w.clients
  BY <1>2, GetDelegateIs
<1> HIDE DEF w0
<1>4. Good(w1, O, M) /\ Calm(w0, w1, O) /\ SameRoom(w0, w1)
  BY <1>1, UpdateStoreGood
<1>5. w1.clients = w0.clients /\ w1.delegates = w0.delegates
  BY <1>2, UpdateStoreIs
<1>6. Calm(w, w1, O) /\ SameRoom(w, w1)
  BY <1>1, <1>4, CalmTwice, SameRoomTwice
<1>7. SelectConnection(w, c) = w1
  BY DEF SelectConnection, w0
<1> QED  BY <1>1, <1>3, <1>4, <1>5, <1>6, <1>7

\* removeConnection, of one connection.
LEMMA RemoveConnectionGood ==
  ASSUME NEW M \in SUBSET Conns, NEW s, Removing(s, M), Range(s.order) \subseteq M, NEW c \in M
  PROVE  Removing(RemoveConnection(s, c), M) /\ Further(s, RemoveConnection(s, c))
<1> DEFINE rest == Without(s.order, c)
           w1 == IF rest = <<>> THEN s.world ELSE SelectConnection(s.world, Head(rest))
           w2 == ForgetStore(w1, c)
           w3 == IF w2.delegates[c].made THEN Destroy(w2, c) ELSE w2
           O == Range(rest)
<1>1. /\ rest \in Seq(Conns) /\ IsInjective(rest) /\ O \subseteq Range(s.order) /\ c \notin O
  BY WithoutIs DEF Removing
<1>2. RemoveConnection(s, c) = [world |-> w3, order |-> rest, current |-> FirstOf(rest)]
  BY DEF RemoveConnection
<1>3. rest # <<>> => Head(rest) \in O /\ Head(rest) \in Conns
  <2>1. HAVE rest # <<>>
  <2>2. Len(rest) >= 1 /\ 1 \in DOMAIN rest /\ Head(rest) = rest[1]
    BY <1>1, <2>1, EmptySeq, LenProperties, HeadTailProperties
  <2> QED  BY <1>1, <2>2 DEF Range
<1> HIDE DEF rest
<1>4. Good(s.world, O, M)
  BY <1>1, FewerListed DEF Removing
<1>5. Good(w1, O, M) /\ Calm(s.world, w1, O) /\ SameRoom(s.world, w1)
  <2>1. CASE rest = <<>>
    BY <1>4, <2>1 DEF Calm, SameRoom
  <2>2. CASE rest # <<>>
    BY <1>3, <1>4, <2>2, SelectConnectionGood
  <2> QED  BY <2>1, <2>2
<1> HIDE DEF w1
<1>6. Good(w2, O, M) /\ Calm(w1, w2, O) /\ SameRoom(w1, w2)
  BY <1>5, ForgetStoreGood
<1> HIDE DEF w2
<1>7. Good(w3, O, M) /\ Calm(w2, w3, O) /\ SameRoom(w2, w3)
  <2>1. CASE w2.delegates[c].made
    <3>1. 0 \in Tokens
      BY BoundsAssumption DEF Tokens
    <3>2. /\ Good(Destroy(w2, c), O, M) /\ Calm(w2, Destroy(w2, c), O)
          /\ SameRoom(w2, Destroy(w2, c))
      BY <1>1, <1>6, <3>1, DisconnectGood DEF Destroy
    <3> QED  BY <2>1, <3>2
  <2>2. CASE ~w2.delegates[c].made
    BY <1>6, <2>2 DEF Calm, SameRoom
  <2> QED  BY <2>1, <2>2
<1> HIDE DEF w3
<1>8. Calm(s.world, w3, O) /\ SameRoom(s.world, w3)
  BY <1>5, <1>6, <1>7, CalmTwice, SameRoomTwice
<1>9. FirstOf(rest) \in M \cup {NoConn}
  BY <1>1, <1>3 DEF FirstOf
<1> QED  BY <1>1, <1>2, <1>7, <1>8, <1>9 DEF Removing, Further

\* Two removals after one another.
LEMMA FurtherTwice ==
  ASSUME NEW s, NEW t, NEW u, Further(s, t), Further(t, u)
  PROVE  Further(s, u)
<1>1. Calm(s.world, t.world, Range(u.order))
  BY CalmFewer DEF Further
<1>2. Calm(s.world, u.world, Range(u.order))
  BY <1>1, CalmTwice DEF Further
<1>3. SameRoom(s.world, u.world)
  BY SameRoomTwice DEF Further
<1> QED  BY <1>2, <1>3 DEF Further

\* Induction, for a set.
LEMMA NatSetInduction ==
  ASSUME NEW S, 0 \in S, \A n \in Nat : n \in S => n + 1 \in S
  PROVE  Nat \subseteq S
<1> DEFINE T == Nat \ S
<1>1. SUFFICES ASSUME T # {} PROVE FALSE
  OBVIOUS
<1>2. PICK m \in T : \A j \in T : ~(<<j, m>> \in OpToRel(<, Nat))
  BY <1>1, WFMin, NatLessThanWellFounded
<1>3. m \in Nat /\ m # 0 /\ m - 1 \in Nat
  <2>1. m \in Nat /\ m \notin S
    OBVIOUS
  <2>2. m # 0
    BY <2>1
  <2> QED  BY <2>1, <2>2
<1>4. <<m - 1, m>> \in OpToRel(<, Nat)
  <2>1. <<m - 1, m>> \in Nat \X Nat /\ m - 1 < m
    BY <1>3
  <2>2. <<m - 1, m>> \in {ss \in Nat \X Nat : ss[1] < ss[2]}
    BY <2>1
  <2> QED  BY <2>2 DEF OpToRel
<1>5. m - 1 \in S
  BY <1>2, <1>3, <1>4
<1>6. (m - 1) + 1 = m
  BY <1>3
<1> QED  BY <1>2, <1>3, <1>5, <1>6

\* The recursive function that removes the connections of a thing exists.
RemovalsStep(n, s) ==
  IF config[order[n]].thing THEN RemoveConnection(s, order[n]) ELSE s

RemovalsTo(m, f) ==
  f = [n \in 0 .. m |-> IF n = 0 THEN Present
                        ELSE IF config[order[n]].thing THEN RemoveConnection(f[n - 1], order[n])
                        ELSE f[n - 1]]

\* By induction: there is such a function of every length.
LEMMA RemovalsExist == \A m \in Nat : \E f : RemovalsTo(m, f)
<1> DEFINE S == {m \in Nat : \E f : RemovalsTo(m, f)}
<1>1. 0 \in S
  <2> DEFINE g == [n \in 0 .. 0 |-> Present]
  <2>1. RemovalsTo(0, g)
    BY DEF RemovalsTo
  <2> HIDE DEF g
  <2> QED  BY <2>1
<1>2. ASSUME NEW m \in Nat, m \in S PROVE m + 1 \in S
  <2>1. PICK f : RemovalsTo(m, f)
    BY <1>2
  <2> DEFINE g == [n \in 0 .. m + 1 |-> IF n <= m THEN f[n] ELSE RemovalsStep(m + 1, f[m])]
  <2>2. ASSUME NEW n \in 0 .. m + 1
        PROVE  g[n] = IF n = 0 THEN Present
                      ELSE IF config[order[n]].thing THEN RemoveConnection(g[n - 1], order[n])
                      ELSE g[n - 1]
    <3>1. CASE n = 0
      <4>1. g[0] = f[0] /\ f[0] = Present
        BY <2>1 DEF RemovalsTo
      <4> QED  BY <3>1, <4>1
    <3>2. CASE n # 0 /\ n <= m
      <4>1. g[n] = f[n] /\ g[n - 1] = f[n - 1] /\ n \in 0 .. m
        BY <3>2
      <4>2. f[n] = IF n = 0 THEN Present
                   ELSE IF config[order[n]].thing THEN RemoveConnection(f[n - 1], order[n])
                   ELSE f[n - 1]
        BY <2>1, <4>1 DEF RemovalsTo
      <4> QED  BY <4>1, <4>2
    <3>3. CASE n = m + 1
      <4>1. g[n] = RemovalsStep(n, f[m]) /\ g[n - 1] = f[m] /\ n # 0
        BY <3>3
      <4> HIDE DEF g
      <4> QED  BY <3>3, <4>1 DEF RemovalsStep
    <3> QED  BY <3>1, <3>2, <3>3
  <2>3. g = [n \in 0 .. m + 1 |-> IF n = 0 THEN Present
                ELSE IF config[order[n]].thing THEN RemoveConnection(g[n - 1], order[n])
                ELSE g[n - 1]]
    <3>1. g = [n \in 0 .. m + 1 |-> g[n]]
      OBVIOUS
    <3> HIDE DEF g
    <3> QED  BY <2>2, <3>1
  <2> HIDE DEF g
  <2>4. RemovalsTo(m + 1, g)
    BY <2>3 DEF RemovalsTo
  <2> QED  BY <2>4
<1> HIDE DEF S
<1>3. Nat \subseteq S
  BY <1>1, <1>2, NatSetInduction
<1> QED  BY <1>3 DEF S

\* Removals is it.
LEMMA RemovalsIs ==
  ASSUME NEW n \in 0 .. Len(order), Len(order) \in Nat
  PROVE  Removals[n] = IF n = 0 THEN Present ELSE RemovalsStep(n, Removals[n - 1])
<1>1. \E f : RemovalsTo(Len(order), f)
  BY RemovalsExist
<1>2. Removals = CHOOSE f : RemovalsTo(Len(order), f)
  BY DEF Removals, RemovalsTo
<1>3. RemovalsTo(Len(order), Removals)
  BY <1>1, <1>2
<1>4. Removals[n] = IF n = 0 THEN Present
                    ELSE IF config[order[n]].thing THEN RemoveConnection(Removals[n - 1], order[n])
                    ELSE Removals[n - 1]
  BY <1>3 DEF RemovalsTo
<1> QED  BY <1>4 DEF RemovalsStep

\* removeConnectionsByClientId, of all connections of the thing.
LEMMA RemovalsGood ==
  ASSUME made \in SUBSET Conns, Removing(Present, made), Range(order) \subseteq made,
         order \in Seq(Conns)
  PROVE  /\ Removing(Removals[Len(order)], made)
         /\ Further(Present, Removals[Len(order)])
<1> DEFINE Fine(n) == Removing(Removals[n], made) /\ Further(Present, Removals[n])
           S == {n \in Nat : n <= Len(order) => Fine(n)}
<1>1. Len(order) \in Nat /\ DOMAIN order = 1 .. Len(order)
  BY LenProperties
<1>2. Present.order = order
  BY DEF Present
<1>3. 0 \in S
  <2>1. Removals[0] = Present
    BY <1>1, RemovalsIs
  <2>2. Further(Present, Present)
    BY DEF Further, Calm, SameRoom
  <2> QED  BY <2>1, <2>2
<1>4. ASSUME NEW n \in Nat, n \in S PROVE n + 1 \in S
  <2>1. SUFFICES ASSUME n + 1 <= Len(order) PROVE Fine(n + 1)
    BY <1>4
  <2>2. Fine(n)
    BY <1>1, <1>4, <2>1
  <2>3. Removals[n + 1] = RemovalsStep(n + 1, Removals[n])
    <3>1. n + 1 \in 0 .. Len(order) /\ n + 1 # 0 /\ (n + 1) - 1 = n
      BY <1>1, <2>1
    <3> QED  BY <1>1, <3>1, RemovalsIs
  <2>4. order[n + 1] \in made
    BY <1>1, <2>1 DEF Range
  <2> DEFINE s == Removals[n]
  <2>5. Removing(s, made) /\ Further(Present, s)
    BY <2>2
  <2> HIDE DEF s
  <2>6. Range(s.order) \subseteq made
    BY <1>2, <2>5 DEF Further
  <2>7. /\ Removing(RemoveConnection(s, order[n + 1]), made)
        /\ Further(s, RemoveConnection(s, order[n + 1]))
    BY <2>4, <2>5, <2>6, RemoveConnectionGood
  <2>8. Further(Present, RemoveConnection(s, order[n + 1]))
    BY <2>5, <2>7, FurtherTwice
  <2>9. Removing(RemovalsStep(n + 1, s), made) /\ Further(Present, RemovalsStep(n + 1, s))
    BY <2>5, <2>7, <2>8 DEF RemovalsStep
  <2> QED  BY <2>3, <2>9 DEF s
<1> HIDE DEF S
<1>5. Nat \subseteq S
  BY <1>3, <1>4, NatSetInduction
<1> QED  BY <1>1, <1>5 DEF S

(***************************************************************************)
(* The inductive invariant.                                                *)
(***************************************************************************)
\* Clients, delegates and store.
WorldInv == Good(World, Range(order), made) /\ Room(World)

\* The suggested topics of a connection of the thing are listed and marked.
ThingsKept(f) ==
  \A c \in Conns : f[c].thing => Suggested \subseteq f[c].list \cap f[c].keep

\* The list of connections on the screen and in local storage.
ListInv ==
  /\ order \in Seq(Conns) /\ IsInjective(order)
  /\ made \in SUBSET Conns /\ Range(order) \subseteq made
  /\ config \in [Conns -> Configs]
  /\ saved.order \in Seq(Conns) /\ saved.config \in [Conns -> Configs]
  /\ current \in made \cup {NoConn}
  /\ StorageFollows
  /\ ThingsKept(config)
  /\ ThingsKept(saved.config)
  /\ \A c \in Range(order) : saved.config[c].thing = config[c].thing

\* The forms; an edited connection was made, but may be gone.
FormInv ==
  /\ dialog \in Dialogs
  /\ dialog.kind = "edit" => dialog.conn \in made
  /\ loading \in BOOLEAN /\ thingView \in BOOLEAN
  /\ ccbt \in Tokens /\ tokens \in Tokens

\* A request that waits for the broker: the client it went to is connected (a
\* publish waits for it), a listed connection still has a client, and the
\* config it will write back has the suggested topics.
RequestFits(r) ==
  /\ r.conn \in made
  /\ r.kind # "pub" => /\ clients[r.client].st = "connected"
                       /\ Listed(r.conn) => delegates[r.conn].client # NoClient
  /\ Listed(r.conn) => r.config.thing = config[r.conn].thing
  /\ r.config.thing => Suggested \subseteq r.config.list \cap r.config.keep

\* All requests in flight.
PendingInv == pending \in SUBSET Requests /\ \A r \in pending : RequestFits(r)

\* The inductive invariant.
ConsoleInv == WorldInv /\ ListInv /\ FormInv /\ PendingInv

\* What every step promises.
Promised ==
  /\ \A c \in made : ~Listed(c) => ~Listed(c)'
  /\ \A c \in Conns : delegates'[c].client # delegates[c].client => delegates'[c].subs = {}

\* The requests and connections of before are still what they were.
Follows ==
  /\ made \subseteq made'
  /\ \A c \in made : Listed(c)' => Listed(c) /\ config'[c].thing = config[c].thing

\* updateConnConfigs writes the list and local storage together.
LEMMA SetConfigsKeeps ==
  ASSUME NEW o \in Seq(Conns), NEW f \in [Conns -> Configs], SetConfigs(o, f),
         IsInjective(o), made' \in SUBSET Conns, Range(o) \subseteq made',
         current' \in made' \cup {NoConn}, ThingsKept(f)
  PROVE  ListInv'
<1>1. order' = o /\ config' = f /\ saved' = [order |-> o, config |-> f]
  BY DEF SetConfigs
<1>2. StorageFollows'
  BY <1>1 DEF StorageFollows
<1> QED  BY <1>1, <1>2 DEF ListInv, ThingsKept

\* What stays the same.
LEMMA ListSame ==
  ASSUME ListInv, UNCHANGED <<order, made, config, saved, current>>
  PROVE  ListInv' /\ Follows /\ Range(order') = Range(order)
  BY DEF ListInv, StorageFollows, ThingsKept, Follows, Listed

\* The same of the forms.
LEMMA FormSame ==
  ASSUME FormInv, made \subseteq made', UNCHANGED <<dialog, loading, thingView, ccbt, tokens>>
  PROVE  FormInv'
  BY DEF FormInv

\* The types of the four variables of a world.
LEMMA DelegatesType ==
  ASSUME WorldInv
  PROVE  /\ World \in Worlds /\ clients \in [ClientIds -> Clients(Tokens)]
         /\ delegates \in [Conns -> Delegates] /\ shown \in [Conns -> Shown]
         /\ connecting \in BOOLEAN
  BY WorldIs DEF WorldInv, Good, Worlds

\* What a step may do to the client of a delegate.
Changes(w, w1, O) ==
  \A c \in Conns :
    /\ w1.delegates[c].client # w.delegates[c].client => w1.delegates[c].subs = {}
    /\ c \in O /\ w.delegates[c].client # NoClient => w1.delegates[c].client # NoClient

\* A request that fits the state fits it after the step.
LEMMA RequestStays ==
  ASSUME NEW w \in Worlds, Become(w), Changes(World, w, Range(order')), Follows,
         NEW r \in Requests, RequestFits(r),
         r.kind # "pub" => w.clients[r.client].st = "connected"
  PROVE  RequestFits(r)'
<1>1. World' = w /\ clients' = w.clients /\ delegates' = w.delegates
  BY BecomeIs DEF Become
<1>2. /\ r.client \in ClientIds /\ r.conn \in Conns
      /\ r.conn \in made' /\ r.conn \in made
  BY DEF Requests, RequestFits, Follows
<1>3. Listed(r.conn)' => Listed(r.conn) /\ config'[r.conn].thing = config[r.conn].thing
  BY <1>2 DEF Follows
<1>4. r.conn \in Range(order') /\ delegates[r.conn].client # NoClient
        => delegates'[r.conn].client # NoClient
  BY <1>1, <1>2, WorldIs DEF Changes
<1>5. r.kind # "pub" => /\ clients'[r.client].st = "connected"
                        /\ Listed(r.conn)' => delegates'[r.conn].client # NoClient
  BY <1>1, <1>3, <1>4 DEF RequestFits, Listed
<1> QED  BY <1>2, <1>3, <1>5 DEF RequestFits

\* A step that leads to the world w.
LEMMA StepIs ==
  ASSUME ConsoleInv, NEW w, Become(w), Good(w, Range(order'), made'), Room(w),
         Changes(World, w, Range(order')), ListInv', FormInv', Follows, PendingInv'
  PROVE  ConsoleInv' /\ Promised
<1>1. World' = w /\ delegates' = w.delegates
  BY BecomeIs DEF Become, Good
<1>2. WorldInv'
  BY <1>1 DEF WorldInv
<1>3. Promised
  BY <1>1, WorldIs DEF Promised, Follows, Changes
<1> QED  BY <1>2, <1>3 DEF ConsoleInv

\* A step leads to the world w and the requests pending'.
LEMMA WorldStep ==
  ASSUME ConsoleInv, NEW w, Become(w), Good(w, Range(order'), made'), Room(w),
         Changes(World, w, Range(order')), ListInv', FormInv', Follows,
         pending' \in SUBSET Requests, \A r \in pending' : RequestFits(r),
         \A r \in pending' : r.kind # "pub" => w.clients[r.client].st = "connected"
  PROVE  ConsoleInv' /\ Promised
<1>1. w \in Worlds
  BY DEF Good
<1>2. ASSUME NEW r \in pending' PROVE RequestFits(r)'
  BY <1>1, <1>2, RequestStays
<1>3. PendingInv'
  BY <1>2 DEF PendingInv
<1> QED  BY <1>3, StepIs

\* A step of the delegates in which what is connected stays so.
LEMMA AskingStep ==
  ASSUME ConsoleInv, NEW w, Become(w), Good(w, Range(order'), made'), Room(w),
         Calm(World, w, Range(order')), ListInv', FormInv', Follows,
         pending' \in SUBSET Requests, \A r \in pending' : RequestFits(r)
  PROVE  ConsoleInv' /\ Promised
<1>1. Changes(World, w, Range(order'))
  BY DEF Calm, Changes
<1>2. ASSUME NEW r \in pending', r.kind # "pub" PROVE w.clients[r.client].st = "connected"
  <2>1. clients[r.client].st = "connected" /\ r.client \in ClientIds
    BY <1>2 DEF RequestFits, Requests
  <2> QED  BY <2>1, WorldIs DEF Calm
<1> QED  BY <1>1, <1>2, WorldStep

\* A calm step without new requests.
LEMMA CalmStep ==
  ASSUME ConsoleInv, NEW w, Become(w), Good(w, Range(order'), made'), Room(w),
         Calm(World, w, Range(order')), ListInv', FormInv', pending' \subseteq pending, Follows
  PROVE  ConsoleInv' /\ Promised
<1>1. pending' \in SUBSET Requests /\ \A r \in pending' : RequestFits(r)
  BY DEF ConsoleInv, PendingInv
<1> QED  BY <1>1, AskingStep

\* The same, when the list and what is around it stay.
LEMMA CalmEvent ==
  ASSUME ConsoleInv, NEW w, Become(w), Good(w, Range(order), made), Room(w),
         Calm(World, w, Range(order)), UNCHANGED <<order, made, config, saved, current>>,
         FormInv', pending' \subseteq pending
  PROVE  ConsoleInv' /\ Promised
<1>1. ListInv' /\ Follows /\ order' = order /\ made' = made
  BY ListSame DEF ConsoleInv
<1> QED  BY <1>1, CalmStep

\* A step may leave the delegates as they are.
LEMMA BecomeWorld == UNCHANGED delegateVars => Become(World)
  BY DEF delegateVars, Become, World

\* The present world is good.
LEMMA WorldCalm ==
  ASSUME WorldInv
  PROVE  /\ Good(World, Range(order), made) /\ Room(World)
         /\ \A O : Calm(World, World, O)
  BY DEF WorldInv, Calm

\* A step that leaves the delegates alone.
LEMMA QuietStep ==
  ASSUME ConsoleInv, UNCHANGED delegateVars, ListInv', FormInv',
         Follows, made' = made, Range(order') = Range(order), pending' \subseteq pending
  PROVE  ConsoleInv' /\ Promised
<1>1. Become(World)
  BY BecomeWorld
<1>2. Good(World, Range(order'), made') /\ Room(World) /\ Calm(World, World, Range(order'))
  BY WorldCalm DEF ConsoleInv
<1> QED  BY <1>1, <1>2, CalmStep

\* ... and the list, too.
LEMMA FormStep ==
  ASSUME ConsoleInv, UNCHANGED <<delegateVars, order, made, config, saved, current>>,
         FormInv', pending' \subseteq pending
  PROVE  ConsoleInv' /\ Promised
<1>1. ListInv' /\ Follows /\ Range(order') = Range(order)
  BY ListSame DEF ConsoleInv
<1>2. UNCHANGED delegateVars /\ made' = made
  OBVIOUS
<1> QED  BY <1>1, <1>2, QuietStep

(***************************************************************************)
(* The forms.                                                              *)
(***************************************************************************)
LEMMA NoDialogType == NoDialog \in Dialogs
  BY BoundsAssumption DEF NoDialog, Dialogs, Tokens

\* What is selected was made.
LEMMA MadeAreConns == ListInv => made \subseteq Conns /\ (current # NoConn => current \in made)
  BY DEF ListInv

\* A form is opened or closed; the view is switched.
LEMMA FormsKeep ==
  ASSUME ConsoleInv,
         \/ ShowCreateForm \/ ShowCreateFormOfThing \/ ShowEditForm \/ HideForm
         \/ SwitchView
  PROVE  ConsoleInv' /\ Promised
<1>1. FormInv /\ ListInv
  BY DEF ConsoleInv
<1>2. CASE ShowCreateForm
  <2>1. dialog' \in Dialogs /\ dialog'.kind = "create"
    BY <1>2, NoDialogType DEF ShowCreateForm, Dialogs
  <2>2. FormInv'
    BY <1>1, <1>2, <2>1 DEF ShowCreateForm, FormInv
  <2> QED  BY <1>2, <2>2, FormStep DEF ShowCreateForm
<1>3. CASE ShowCreateFormOfThing
  <2>1. tokens' \in Tokens /\ ccbt' \in Tokens
    BY <1>1, <1>3, BoundsAssumption DEF ShowCreateFormOfThing, FormInv, Tokens
  <2>2. [NoDialog EXCEPT !.kind = "create"] \in Dialogs
    BY NoDialogType DEF Dialogs
  <2>3. [[NoDialog EXCEPT !.kind = "create"] EXCEPT !.thing = TRUE] \in Dialogs
    BY <2>2 DEF Dialogs
  <2>4. dialog' \in Dialogs /\ dialog'.kind = "create"
    BY <1>3, <2>1, <2>3, NoDialogType DEF ShowCreateFormOfThing, Dialogs
  <2>5. FormInv'
    BY <1>1, <1>3, <2>1, <2>4 DEF ShowCreateFormOfThing, FormInv
  <2> QED  BY <1>3, <2>5, FormStep DEF ShowCreateFormOfThing
<1>4. CASE ShowEditForm
  <2>1. current \in made /\ current \in Conns
    BY <1>1, <1>4, MadeAreConns DEF ShowEditForm
  <2>2. [NoDialog EXCEPT !.kind = "edit"] \in Dialogs
    BY NoDialogType DEF Dialogs
  <2>3. dialog' \in Dialogs /\ dialog'.conn = current
    BY <1>4, <2>1, <2>2, NoDialogType DEF ShowEditForm, Dialogs
  <2>4. FormInv'
    BY <1>1, <1>4, <2>1, <2>3 DEF ShowEditForm, FormInv
  <2> QED  BY <1>4, <2>4, FormStep DEF ShowEditForm
<1>5. CASE HideForm
  <2>1. FormInv'
    BY <1>1, <1>5, NoDialogType DEF HideForm, FormInv, NoDialog
  <2> QED  BY <1>5, <2>1, FormStep DEF HideForm
<1>6. CASE SwitchView
  <2>1. FormInv'
    BY <1>1, <1>6, BoundsAssumption DEF SwitchView, FormInv, Tokens
  <2> QED  BY <1>6, <2>1, FormStep DEF SwitchView
<1> QED  BY <1>2, <1>3, <1>4, <1>5, <1>6

(***************************************************************************)
(* Connections.                                                            *)
(***************************************************************************)
\* The buttons and forms of the tool panel and of the page of the thing.
LEMMA SelectKeeps ==
  ASSUME ConsoleInv, NEW c \in Conns, Select(c) PROVE ConsoleInv' /\ Promised
<1> DEFINE w == SelectConnection(World, c)
<1>1. /\ Good(w, Range(order), made) /\ Calm(World, w, Range(order)) /\ SameRoom(World, w)
  BY WorldCalm, SelectConnectionGood DEF ConsoleInv
<1>2. Room(w)
  BY <1>1, WorldCalm, SameRoomKeeps DEF ConsoleInv
<1>3. c \in made
  BY DEF Select, Listed, ConsoleInv, ListInv
<1>4. ListInv' /\ Follows /\ order' = order /\ made' = made
  BY <1>3 DEF Select, ConsoleInv, ListInv, StorageFollows, ThingsKept, Follows, Listed
<1>5. FormInv' /\ pending' \subseteq pending /\ Become(w)
  BY FormSame DEF Select, ConsoleInv
<1> QED  BY <1>1, <1>2, <1>4, <1>5, CalmStep

\* connect of a connection in the list.
LEMMA ConnectsGood ==
  ASSUME NEW w, NEW O, NEW M, Good(w, O, M), RoomForClient(w),
         NEW c \in Conns, c \in O, c \in M, NEW token \in Tokens
  PROVE  /\ Good(Connect(w, c, token), O, M) /\ Calm(w, Connect(w, c, token), O)
         /\ Room(Connect(w, c, token))
  BY DisconnectGood DEF Connect

\* connect of the delegate that is made when there is none.
LEMMA DelegateConnects ==
  ASSUME ConsoleInv, RoomForClient(World), NEW c \in Range(order), NEW token \in Tokens
  PROVE  /\ Good(Connect(GetDelegate(World, c), c, token), Range(order), made)
         /\ Calm(World, Connect(GetDelegate(World, c), c, token), Range(order))
         /\ Room(Connect(GetDelegate(World, c), c, token))
<1> DEFINE w == GetDelegate(World, c)
<1>1. c \in made /\ c \in Conns
  BY DEF ConsoleInv, ListInv
<1>2. /\ Good(w, Range(order), made) /\ Calm(World, w, Range(order)) /\ SameRoom(World, w)
  BY <1>1, WorldCalm, GetDelegateGood DEF ConsoleInv
<1>3. RoomForClient(w)
  BY <1>2, SameRoomKeeps
<1> HIDE DEF w
<1>4. /\ Good(Connect(w, c, token), Range(order), made)
      /\ Calm(w, Connect(w, c, token), Range(order)) /\ Room(Connect(w, c, token))
  BY <1>1, <1>2, <1>3, ConnectsGood
<1>5. Calm(World, Connect(w, c, token), Range(order))
  BY <1>2, <1>4, CalmTwice
<1> QED  BY <1>4, <1>5 DEF w

\* No token is one of the tokens.
LEMMA ZeroToken == 0 \in Tokens
  BY BoundsAssumption DEF Tokens

\* Connect, in the panel,
LEMMA PanelConnectKeeps ==
  ASSUME ConsoleInv, PanelConnect PROVE ConsoleInv' /\ Promised
<1> DEFINE w == Connect(GetDelegate(World, current), current, 0)
<1>1. /\ current \in Range(order) /\ RoomForClient(World) /\ Become(w)
      /\ UNCHANGED <<order, made, config, saved, current>>
      /\ UNCHANGED <<dialog, loading, thingView, ccbt, tokens>> /\ pending' = pending
  BY DEF PanelConnect, Listed, consoleVars
<1>2. /\ Good(w, Range(order), made) /\ Calm(World, w, Range(order)) /\ Room(w)
  BY <1>1, ZeroToken, DelegateConnects
<1>3. FormInv'
  BY <1>1, FormSame DEF ConsoleInv
<1> HIDE DEF w
<1> QED  BY <1>1, <1>2, <1>3, CalmEvent

\* ... or on the page of the thing.
LEMMA ThingConnectKeeps ==
  ASSUME ConsoleInv, NEW c \in Conns, ThingConnect(c) PROVE ConsoleInv' /\ Promised
<1> DEFINE w == Connect(GetDelegate(World, c), c, tokens')
<1>1. /\ c \in Range(order) /\ RoomForClient(World)
      /\ UNCHANGED <<order, made, config, saved, current>>
      /\ UNCHANGED <<dialog, loading, thingView>> /\ pending' = pending
  BY DEF ThingConnect, Listed
<1>2. tokens' \in Tokens /\ ccbt' \in Tokens
  BY BoundsAssumption DEF ThingConnect, ConsoleInv, FormInv, Tokens
<1>3. FormInv'
  BY <1>1, <1>2 DEF ConsoleInv, ListInv, FormInv
<1>4. CASE connecting
  <2>1. UNCHANGED delegateVars
    BY <1>4 DEF ThingConnect
  <2> QED  BY <1>1, <1>3, <2>1, FormStep
<1>5. CASE ~connecting
  <2>1. Become(w)
    BY <1>5 DEF ThingConnect
  <2>2. /\ Good(w, Range(order), made) /\ Calm(World, w, Range(order)) /\ Room(w)
    BY <1>1, <1>2, DelegateConnects
  <2> HIDE DEF w
  <2> QED  BY <1>1, <1>3, <2>1, <2>2, CalmEvent
<1> QED  BY <1>4, <1>5

\* Disconnect.
LEMMA DisconnKeeps ==
  ASSUME ConsoleInv, NEW c \in Conns, Disconn(c) PROVE ConsoleInv' /\ Promised
<1> DEFINE w0 == GetDelegate(World, c)
           w == Cancel(w0, c)
<1>1. /\ c \in Range(order) /\ Become(w)
      /\ UNCHANGED <<order, made, config, saved, current>>
      /\ UNCHANGED <<dialog, loading, thingView, ccbt, tokens>> /\ pending' = pending
  BY DEF Disconn, Listed, consoleVars
<1>2. c \in made
  BY <1>1 DEF ConsoleInv, ListInv
<1>3. /\ Good(w0, Range(order), made) /\ Calm(World, w0, Range(order)) /\ SameRoom(World, w0)
  BY WorldCalm, GetDelegateGood DEF ConsoleInv
<1> HIDE DEF w0
<1>4. /\ Good(w, Range(order), made) /\ Calm(w0, w, Range(order)) /\ SameRoom(w0, w)
  BY <1>2, <1>3, ZeroToken, DisconnectGood DEF Cancel
<1>5. Calm(World, w, Range(order)) /\ Room(w)
  BY <1>3, <1>4, CalmTwice, SameRoomTwice, SameRoomKeeps, WorldCalm DEF ConsoleInv
<1>6. FormInv'
  BY <1>1, FormSame DEF ConsoleInv
<1> HIDE DEF w
<1> QED  BY <1>1, <1>4, <1>5, <1>6, CalmEvent

\* A connection that is made now: nothing is left of an earlier one.
LEMMA NewListed ==
  ASSUME NEW O, NEW M, Good(World, O, M), NEW c \in Conns, c \notin M, O \subseteq M
  PROVE  /\ Good(SelectConnection(World, c), O \cup {c}, M \cup {c})
         /\ Calm(World, SelectConnection(World, c), O \cup {c})
         /\ SameRoom(World, SelectConnection(World, c))
<1> DEFINE w == SelectConnection(World, c)
<1>1. /\ Good(w, O, M) /\ Calm(World, w, O) /\ SameRoom(World, w)
      /\ w.delegates[c].made /\ w.clients = World.clients
  BY SelectConnectionGood
<1> HIDE DEF w
<1>2. World.delegates[c].client = NoClient /\ World.delegates[c].subs = {}
  BY DEF Good, FreshStart
<1>3. w.delegates[c].subs = {}
  BY <1>1, <1>2 DEF Calm
<1>4. Owned(w, O \cup {c}, M \cup {c})
  <2>1. \A k \in ClientIds :
          /\ w.clients[k].then = "destroy" => w.clients[k].conn \notin O \cup {c}
          /\ w.clients[k].st # "unused" => w.clients[k].conn \in M \cup {c}
    BY <1>1 DEF Good, Owned, CallbackKnown
  <2>2. \A d \in Conns : w.delegates[d].client # NoClient =>
          /\ w.clients[w.delegates[d].client].conn = d
          /\ w.clients[w.delegates[d].client].st # "unused"
    BY <1>1 DEF Good, Owned
  <2> QED  BY <2>1, <2>2 DEF Owned
<1>5. FreshStart(w, O \cup {c}, M \cup {c})
  BY <1>1, <1>3 DEF Good, FreshStart
<1>6. Calm(World, w, O \cup {c})
  BY <1>1, <1>2 DEF Calm
<1> QED  BY <1>1, <1>4, <1>5, <1>6 DEF Good, w

\* A new connection is the last of the list.
LEMMA AppendIs ==
  ASSUME NEW q \in Seq(Conns), IsInjective(q), NEW c \in Conns, c \notin Range(q)
  PROVE  /\ Append(q, c) \in Seq(Conns) /\ IsInjective(Append(q, c))
         /\ Range(Append(q, c)) = Range(q) \cup {c}
<1> DEFINE r == Append(q, c)
<1>1. /\ r \in Seq(Conns) /\ DOMAIN r = 1 .. Len(q) + 1
      /\ \A i \in 1 .. Len(q) : r[i] = q[i]
      /\ r[Len(q) + 1] = c
      /\ DOMAIN q = 1 .. Len(q) /\ Len(q) \in Nat
  BY AppendProperties, LenProperties
<1> HIDE DEF r
<1>2. Range(r) = Range(q) \cup {c}
  <2>1. ASSUME NEW i \in DOMAIN r PROVE r[i] \in Range(q) \cup {c}
    BY <1>1 DEF Range
  <2>2. ASSUME NEW i \in DOMAIN q PROVE q[i] \in Range(r)
    <3>1. i \in DOMAIN r /\ r[i] = q[i]
      BY <1>1
    <3> QED  BY <3>1 DEF Range
  <2>3. c \in Range(r)
    <3>1. Len(q) + 1 \in DOMAIN r
      BY <1>1
    <3> QED  BY <1>1, <3>1 DEF Range
  <2> QED  BY <2>1, <2>2, <2>3 DEF Range
<1>3. IsInjective(r)
  <2>1. \A i \in 1 .. Len(q) : q[i] # c
    BY <1>1 DEF Range
  <2> QED  BY <1>1, <2>1 DEF IsInjective
<1> QED  BY <1>1, <1>2, <1>3 DEF r

\* What CreateDone and EditDone have in common.
Settings(conf) ==
  IF conf.thing THEN [conf EXCEPT !.list = Suggested, !.keep = Suggested] ELSE conf

\* The suggested topics are set by the form.
LEMMA SettingsType ==
  ASSUME NEW conf \in Configs
  PROVE  /\ Settings(conf) \in Configs /\ Settings(conf).thing = conf.thing
         /\ conf.thing => Suggested \subseteq Settings(conf).list \cap Settings(conf).keep
<1>1. [conf EXCEPT !.list = Suggested] \in Configs
  BY SetsAssumption DEF Configs
<1>2. [[conf EXCEPT !.list = Suggested] EXCEPT !.keep = Suggested] \in Configs
  BY <1>1, SetsAssumption DEF Configs
<1>3. [conf EXCEPT !.list = Suggested, !.keep = Suggested]
        = [[conf EXCEPT !.list = Suggested] EXCEPT !.keep = Suggested]
  OBVIOUS
<1> QED  BY <1>2, <1>3 DEF Settings, Configs

\* The form makes a connection.
LEMMA CreateDoneKeeps ==
  ASSUME ConsoleInv, CreateDone PROVE ConsoleInv' /\ Promised
<1>1. PICK c \in Conns \ made, th \in {dialog.thing, TRUE} :
        /\ made' = made \cup {c}
        /\ Done(c, [NoConfig EXCEPT !.thing = th], dialog.token)
  BY DEF CreateDone
<1> DEFINE conf == [NoConfig EXCEPT !.thing = th]
           f == [config EXCEPT ![c] = Settings(conf)]
           w0 == SelectConnection(World, c)
           w == Connect(w0, c, dialog.token)
           O == Range(order) \cup {c}
<1>2. /\ order \in Seq(Conns) /\ IsInjective(order) /\ Range(order) \subseteq made
      /\ made \in SUBSET Conns /\ config \in [Conns -> Configs] /\ c \notin Range(order)
      /\ dialog.token \in Tokens /\ dialog.thing \in BOOLEAN
  BY DEF ConsoleInv, ListInv, FormInv, Dialogs
<1>3. conf \in Configs
  <2>1. NoConfig \in Configs
    BY BoundsAssumption DEF NoConfig, Configs
  <2> QED  BY <1>2, <2>1 DEF Configs
<1> HIDE DEF conf
<1>4. /\ Append(order, c) \in Seq(Conns) /\ IsInjective(Append(order, c))
      /\ Range(Append(order, c)) = O
  BY <1>2, AppendIs
<1>5. /\ SetConfigs(Append(order, c), f) /\ current' = c /\ dialog' = NoDialog
      /\ RoomForClient(World) /\ Become(w)
      /\ UNCHANGED <<loading, thingView, ccbt, tokens, pending>>
  BY <1>1, <1>2 DEF Done, Settings, Listed, CreateDone, conf
<1>6. f \in [Conns -> Configs] /\ ThingsKept(f)
  <2>1. \A d \in Conns : f[d] = IF d = c THEN Settings(conf) ELSE config[d]
    BY <1>2
  <2>2. ThingsKept(config)
    BY DEF ConsoleInv, ListInv
  <2> HIDE DEF f
  <2>3. ThingsKept(f)
    BY <1>2, <1>3, <2>1, <2>2, SettingsType DEF ThingsKept
  <2> QED  BY <1>2, <1>3, <2>3, SettingsType DEF f
<1>7. ListInv'
  BY <1>1, <1>2, <1>4, <1>5, <1>6, SetConfigsKeeps
<1>8. order' = Append(order, c) /\ config' = f
  BY <1>5 DEF SetConfigs
<1>9. Follows
  BY <1>1, <1>2, <1>4, <1>8 DEF Follows, Listed
<1>10. FormInv'
  BY <1>5, NoDialogType DEF ConsoleInv, FormInv, NoDialog
<1>11. Good(w0, O, made') /\ Calm(World, w0, O) /\ SameRoom(World, w0)
  BY <1>1, <1>2, NewListed DEF ConsoleInv, WorldInv
<1>12. RoomForClient(w0)
  BY <1>5, <1>11, SameRoomKeeps
<1> HIDE DEF w0
<1>13. Good(w, O, made') /\ Calm(w0, w, O) /\ Room(w)
  BY <1>1, <1>2, <1>11, <1>12, ConnectsGood
<1>14. Calm(World, w, O)
  BY <1>11, <1>13, CalmTwice
<1> HIDE DEF w
<1>15. Good(w, Range(order'), made') /\ Calm(World, w, Range(order'))
  BY <1>4, <1>8, <1>13, <1>14
<1> QED  BY <1>5, <1>7, <1>9, <1>10, <1>13, <1>15, CalmStep

\* The form changes one that is listed.
LEMMA EditDoneKeeps ==
  ASSUME ConsoleInv, EditDone PROVE ConsoleInv' /\ Promised
<1> DEFINE c == dialog.conn
           conf == [config[c] EXCEPT !.edit = @ + 1]
           f == [config EXCEPT ![c] = Settings(conf)]
           w0 == SelectConnection(World, c)
           w == Connect(w0, c, dialog.token)
           O == Range(order)
<1>1. /\ order \in Seq(Conns) /\ IsInjective(order) /\ Range(order) \subseteq made
      /\ made \in SUBSET Conns /\ config \in [Conns -> Configs]
      /\ c \in Range(order) /\ c \in made /\ c \in Conns /\ dialog.token \in Tokens
      /\ config[c].edit < MaxEdits
  BY DEF EditDone, Listed, ConsoleInv, ListInv, FormInv, Dialogs
<1>2. conf \in Configs /\ conf.thing = config[c].thing
  <2> DEFINE conf0 == config[c]
  <2>1. conf0 \in Configs /\ conf0.edit < MaxEdits
    BY <1>1
  <2> HIDE DEF conf0
  <2>2. conf0.edit + 1 \in 0 .. MaxEdits
    BY <2>1, BoundsAssumption DEF Configs
  <2>3. [conf0 EXCEPT !.edit = conf0.edit + 1] \in Configs
    BY <2>1, <2>2 DEF Configs
  <2>4. [conf0 EXCEPT !.edit = conf0.edit + 1].thing = conf0.thing
    BY <2>1 DEF Configs
  <2> QED  BY <2>3, <2>4 DEF conf0
<1>3. /\ SetConfigs(order, f) /\ current' = c /\ dialog' = NoDialog
      /\ RoomForClient(World) /\ Become(w)
      /\ UNCHANGED <<made, loading, thingView, ccbt, tokens, pending>>
  BY <1>1 DEF EditDone, Done, Settings, Listed
<1> HIDE DEF conf, c
<1>4. f \in [Conns -> Configs] /\ ThingsKept(f)
  <2>1. \A d \in Conns : f[d] = IF d = c THEN Settings(conf) ELSE config[d]
    BY <1>1
  <2>2. ThingsKept(config)
    BY DEF ConsoleInv, ListInv
  <2> HIDE DEF f
  <2>3. ThingsKept(f)
    BY <1>1, <1>2, <2>1, <2>2, SettingsType DEF ThingsKept
  <2> QED  BY <1>1, <1>2, <2>3, SettingsType DEF f
<1>5. ListInv'
  BY <1>1, <1>3, <1>4, SetConfigsKeeps
<1>6. order' = order /\ config' = f
  BY <1>3 DEF SetConfigs
<1>7. \A d \in Conns : config'[d].thing = config[d].thing
  BY <1>1, <1>2, <1>6, SettingsType
<1>8. Follows
  BY <1>1, <1>3, <1>6, <1>7 DEF Follows, Listed
<1>9. FormInv'
  BY <1>3, NoDialogType DEF ConsoleInv, FormInv, NoDialog
<1>10. Good(w0, O, made) /\ Calm(World, w0, O) /\ SameRoom(World, w0)
  BY <1>1, WorldCalm, SelectConnectionGood DEF ConsoleInv
<1>11. RoomForClient(w0)
  BY <1>3, <1>10, SameRoomKeeps
<1> HIDE DEF w0
<1>12. Good(w, O, made) /\ Calm(w0, w, O) /\ Room(w)
  BY <1>1, <1>10, <1>11, ConnectsGood
<1>13. Calm(World, w, O)
  BY <1>10, <1>12, CalmTwice
<1> HIDE DEF w
<1>14. Good(w, Range(order'), made') /\ Calm(World, w, Range(order'))
  BY <1>3, <1>6, <1>12, <1>13
<1> QED  BY <1>3, <1>5, <1>8, <1>9, <1>12, <1>14, CalmStep

\* What is stored when connections have been removed.
LEMMA RemovedKeeps ==
  ASSUME ConsoleInv, NEW s, Removing(s, made), Further(Present, s), Removed(s),
         UNCHANGED <<made, dialog, loading, thingView, ccbt, tokens, pending>>
  PROVE  ConsoleInv' /\ Promised
<1> DEFINE f == [c \in Conns |-> IF c \in Range(s.order) THEN config[c] ELSE NoConfig]
           w == s.world
<1>1. Present.order = order /\ Present.world = World
  BY DEF Present
<1>2. /\ s.order \in Seq(Conns) /\ IsInjective(s.order) /\ s.current \in made \cup {NoConn}
      /\ Range(s.order) \subseteq Range(order) /\ Range(order) \subseteq made
      /\ made \in SUBSET Conns /\ config \in [Conns -> Configs]
  BY <1>1 DEF Removing, Further, ConsoleInv, ListInv
<1>3. Become(w) /\ SetConfigs(s.order, f) /\ current' = s.current
  BY DEF Removed
<1>4. NoConfig \in Configs /\ ~NoConfig.thing
  BY BoundsAssumption DEF NoConfig, Configs
<1>5. f \in [Conns -> Configs] /\ ThingsKept(f)
  BY <1>2, <1>4 DEF ThingsKept, ConsoleInv, ListInv
<1>6. ListInv'
  BY <1>2, <1>3, <1>5, SetConfigsKeeps
<1>7. order' = s.order /\ config' = f
  BY <1>3 DEF SetConfigs
<1>8. Follows
  BY <1>2, <1>7 DEF Follows, Listed
<1>9. FormInv'
  BY FormSame DEF ConsoleInv
<1>10. Good(w, Range(order'), made') /\ Calm(World, w, Range(order'))
  BY <1>1, <1>7 DEF Removing, Further
<1>11. Room(w)
  BY <1>1, WorldCalm, SameRoomKeeps DEF Further, ConsoleInv
<1> QED  BY <1>3, <1>6, <1>8, <1>9, <1>10, <1>11, CalmStep

\* Where the removals start.
LEMMA PresentRemoving ==
  ASSUME ConsoleInv
  PROVE  /\ Removing(Present, made) /\ Range(Present.order) \subseteq made
         /\ made \in SUBSET Conns /\ order \in Seq(Conns) /\ Range(order) \subseteq made
  BY DEF Present, Removing, ConsoleInv, ListInv, WorldInv

\* The remove button, and the thing deleted in the list.
LEMMA RemovalsKeep ==
  ASSUME ConsoleInv, RemoveCurrent \/ ThingDeleted PROVE ConsoleInv' /\ Promised
<1>1. CASE RemoveCurrent
  <2>1. current \in made
    BY <1>1 DEF RemoveCurrent, ConsoleInv, ListInv
  <2>2. /\ Removing(RemoveConnection(Present, current), made)
        /\ Further(Present, RemoveConnection(Present, current))
    BY <2>1, PresentRemoving, RemoveConnectionGood
  <2> QED  BY <1>1, <2>2, RemovedKeeps DEF RemoveCurrent
<1>2. CASE ThingDeleted
  <2>1. Removing(Removals[Len(order)], made) /\ Further(Present, Removals[Len(order)])
    BY PresentRemoving, RemovalsGood
  <2> QED  BY <1>2, <2>1, RemovedKeeps DEF ThingDeleted
<1> QED  BY <1>1, <1>2

(***************************************************************************)
(* Requests.                                                               *)
(***************************************************************************)
\* A request fits the state it is made in.
LEMMA AskIs ==
  ASSUME ConsoleInv, NEW c \in Range(order), NEW kind \in {"sub", "submap", "unsub", "pub"},
         NEW topics \in SUBSET Topics, NEW confs \in SUBSET Topics, NEW spin \in BOOLEAN,
         Ask(c, kind, topics, confs, spin)
  PROVE  /\ loading' \in BOOLEAN
         /\ pending' \in SUBSET Requests /\ \A r \in pending' : RequestFits(r)
<1> DEFINE k == delegates[c].client
           new == [kind |-> kind, client |-> k, conn |-> c, topics |-> topics,
                   confs |-> confs, config |-> config[c], spin |-> spin]
<1>1. /\ c \in made /\ c \in Conns /\ config[c] \in Configs /\ loading \in BOOLEAN
      /\ pending \in SUBSET Requests /\ \A r \in pending : RequestFits(r)
      /\ delegates \in [Conns -> Delegates]
  BY DelegatesType DEF ConsoleInv, ListInv, FormInv, PendingInv
<1>2. loading' \in BOOLEAN
  BY <1>1 DEF Ask
<1>3. CASE IsConnected(World, c) /\ ~clients[k].ending
  <2>1. pending' = pending \cup {new}
    BY <1>3 DEF Ask
  <2>2. k # NoClient /\ clients[k].st = "connected"
    BY <1>3, WorldIs DEF IsConnected, Online
  <2>3. k \in ClientIds
    BY <1>1, <2>2 DEF Delegates
  <2>4. new \in Requests
    BY <1>1, <2>3 DEF Requests
  <2>5. config[c].thing => Suggested \subseteq config[c].list \cap config[c].keep
    BY DEF ConsoleInv, ListInv, ThingsKept
  <2>6. RequestFits(new)
    BY <1>1, <2>2, <2>5 DEF RequestFits
  <2> HIDE DEF new
  <2> QED  BY <1>1, <1>2, <2>1, <2>4, <2>6
<1>4. CASE ~(IsConnected(World, c) /\ ~clients[k].ending)
  <2>1. pending' = pending
    BY <1>4 DEF Ask
  <2> QED  BY <1>1, <1>2, <2>1
<1> QED  BY <1>3, <1>4

\* A click that only asks.
LEMMA AskKeeps ==
  ASSUME ConsoleInv, NEW c \in Range(order), NEW kind \in {"sub", "submap", "unsub", "pub"},
         NEW topics \in SUBSET Topics, NEW confs \in SUBSET Topics, NEW spin \in BOOLEAN,
         Ask(c, kind, topics, confs, spin), dialog' \in {dialog, NoDialog},
         UNCHANGED <<delegateVars, order, made, config, saved, current, thingView, ccbt, tokens>>
  PROVE  ConsoleInv' /\ Promised
<1>1. /\ loading' \in BOOLEAN
      /\ pending' \in SUBSET Requests /\ \A r \in pending' : RequestFits(r)
  BY AskIs
<1>2. FormInv'
  <2>1. dialog' \in Dialogs /\ (dialog'.kind = "edit" => dialog'.conn \in made)
    <3>1. CASE dialog' = dialog
      BY <3>1 DEF ConsoleInv, FormInv
    <3>2. CASE dialog' = NoDialog
      BY <3>2, NoDialogType DEF NoDialog
    <3> QED  BY <3>1, <3>2
  <2>2. FormInv /\ made' = made /\ UNCHANGED <<thingView, ccbt, tokens>>
    BY DEF ConsoleInv
  <2> QED  BY <1>1, <2>1, <2>2 DEF FormInv
<1>3. ListInv' /\ Follows /\ order' = order /\ made' = made
  BY ListSame DEF ConsoleInv
<1>4. Become(World)
  BY BecomeWorld
<1>5. Good(World, Range(order'), made') /\ Room(World) /\ Calm(World, World, Range(order'))
  BY <1>3, WorldCalm DEF ConsoleInv
<1> QED  BY <1>1, <1>2, <1>3, <1>4, <1>5, AskingStep

\* The config of a listed connection.
LEMMA ConfigType ==
  ASSUME ConsoleInv, NEW c \in Range(order)
  PROVE  /\ c \in Conns /\ c \in made /\ config[c] \in Configs
         /\ config[c].list \in SUBSET Topics /\ config[c].keep \in SUBSET Topics
         /\ shown[c].subs \in SUBSET Topics
  BY DelegatesType DEF ConsoleInv, ListInv, Configs, Shown

\* The rows and buttons that ask the broker.
LEMMA SubscribeKeeps ==
  ASSUME ConsoleInv, NEW t \in Topics, Subscribe(t) \/ Unsubscribe(t) \/ AddSubscription(t)
  PROVE  ConsoleInv' /\ Promised
<1>1. current \in Range(order) /\ {t} \in SUBSET Topics
  BY DEF Subscribe, Unsubscribe, AddSubscription, RowFree, Listed
<1>2. config[current].list \in SUBSET Topics
  BY <1>1, ConfigType
<1>3. CASE Subscribe(t)
  BY <1>1, <1>2, <1>3, AskKeeps DEF Subscribe
<1>4. CASE Unsubscribe(t)
  BY <1>1, <1>4, AskKeeps DEF Unsubscribe
<1>5. CASE AddSubscription(t)
  BY <1>1, <1>5, AskKeeps DEF AddSubscription
<1> QED  BY <1>3, <1>4, <1>5

\* The buttons below the rows, and publish.
LEMMA SubscribeAllKeeps ==
  ASSUME ConsoleInv, NEW c \in Conns, SubscribeAll(c) \/ UnsubscribeAll(c) \/ Publish(c)
  PROVE  ConsoleInv' /\ Promised
<1>1. c \in Range(order)
  BY DEF SubscribeAll, UnsubscribeAll, Publish, Listed
<1>2. /\ config[c].list \ shown[c].subs \in SUBSET Topics
      /\ shown[c].subs \in SUBSET Topics
  BY <1>1, ConfigType
<1>3. CASE SubscribeAll(c)
  BY <1>1, <1>2, <1>3, AskKeeps DEF SubscribeAll
<1>4. CASE UnsubscribeAll(c)
  BY <1>1, <1>2, <1>4, AskKeeps DEF UnsubscribeAll
<1>5. CASE Publish(c)
  BY <1>1, <1>5, AskKeeps DEF Publish
<1> QED  BY <1>3, <1>4, <1>5

\* The form of a subscription opens.
LEMMA ShowSubsFormKeeps ==
  ASSUME ConsoleInv, ShowSubsForm PROVE ConsoleInv' /\ Promised
<1>1. current \in Range(order)
  BY DEF ShowSubsForm, Listed
<1>2. config[current].list \in SUBSET Topics
  BY <1>1, ConfigType
<1>3. [NoDialog EXCEPT !.kind = "addSub"] \in Dialogs /\ [NoDialog EXCEPT !.kind = "editSub"] \in Dialogs
  BY NoDialogType DEF Dialogs
<1>4. dialog' \in Dialogs /\ dialog'.kind # "edit"
  <2>1. CASE dialog' = [NoDialog EXCEPT !.kind = "addSub"]
    BY <1>3, <2>1, NoDialogType DEF Dialogs
  <2>2. ASSUME NEW t \in config[current].list,
               dialog' = [NoDialog EXCEPT !.kind = "editSub", !.topic = t]
        PROVE  dialog' \in Dialogs /\ dialog'.kind # "edit"
    BY <1>2, <1>3, <2>2, NoDialogType DEF Dialogs
  <2> QED  BY <2>1, <2>2 DEF ShowSubsForm
<1>5. FormInv'
  BY <1>4 DEF ShowSubsForm, ConsoleInv, FormInv
<1> QED  BY <1>5, FormStep DEF ShowSubsForm

\* A config is written back to a connection that may have been removed.
LEMMA SetConnKeeps ==
  ASSUME ConsoleInv, NEW c \in made, NEW conf \in Configs, SetConnConfig(c, conf),
         Listed(c) => /\ conf.thing = config[c].thing
                      /\ conf.thing => Suggested \subseteq conf.list \cap conf.keep,
         made' = made, current' \in {current} \cup made
  PROVE  ListInv' /\ Follows /\ Range(order') = Range(order)
<1>1. /\ order \in Seq(Conns) /\ IsInjective(order) /\ Range(order) \subseteq made
      /\ made \in SUBSET Conns /\ config \in [Conns -> Configs] /\ c \in Conns
      /\ ThingsKept(config) /\ current \in made \cup {NoConn}
  BY DEF ConsoleInv, ListInv
<1>2. CASE Listed(c)
  <2> DEFINE f == [config EXCEPT ![c] = conf]
  <2>1. SetConfigs(order, f) /\ current' \in made' \cup {NoConn}
    BY <1>1, <1>2 DEF SetConnConfig
  <2>2. f \in [Conns -> Configs] /\ \A d \in Conns : f[d] = IF d = c THEN conf ELSE config[d]
    BY <1>1
  <2> HIDE DEF f
  <2>3. ThingsKept(f)
    BY <1>1, <1>2, <2>2 DEF ThingsKept
  <2>4. ListInv'
    BY <1>1, <2>1, <2>2, <2>3, SetConfigsKeeps
  <2>5. order' = order /\ config' = f
    BY <2>1 DEF SetConfigs
  <2>6. \A d \in made : config'[d].thing = config[d].thing
    BY <1>1, <1>2, <2>2, <2>5
  <2> QED  BY <2>4, <2>5, <2>6 DEF Follows, Listed
<1>3. CASE ~Listed(c)
  <2>1. SetConfigs(order, config) /\ current' \in made' \cup {NoConn}
    BY <1>1, <1>3 DEF SetConnConfig
  <2>2. ListInv'
    BY <1>1, <2>1, SetConfigsKeeps
  <2>3. order' = order /\ config' = config
    BY <2>1 DEF SetConfigs
  <2> QED  BY <2>2, <2>3 DEF Follows, Listed
<1> QED  BY <1>2, <1>3

\* The form of a connection that is gone is submitted: the list stays.
LEMMA EditDoneRemovedKeeps ==
  ASSUME ConsoleInv, EditDoneRemoved PROVE ConsoleInv' /\ Promised
<1> DEFINE c == dialog.conn
           w == SelectConnection(World, c)
<1>1. c \in made /\ c \in Conns
  BY DEF EditDoneRemoved, ConsoleInv, FormInv, ListInv
<1>2. /\ Good(w, Range(order), made) /\ Calm(World, w, Range(order)) /\ SameRoom(World, w)
  BY <1>1, WorldCalm, SelectConnectionGood DEF ConsoleInv
<1>3. Room(w)
  BY <1>2, WorldCalm, SameRoomKeeps DEF ConsoleInv
<1>4. ListInv' /\ Follows /\ order' = order /\ made' = made
  <2>1. /\ config[c] \in Configs /\ ~Listed(c) /\ SetConnConfig(c, config[c])
        /\ made' = made /\ current' \in {current} \cup made
    BY <1>1 DEF EditDoneRemoved, ConsoleInv, ListInv
  <2>2. ListInv' /\ Follows
    BY <1>1, <2>1, SetConnKeeps
  <2> QED  BY <2>1, <2>2 DEF SetConnConfig, SetConfigs
<1>5. FormInv' /\ pending' \subseteq pending /\ Become(w)
  BY NoDialogType DEF EditDoneRemoved, ConsoleInv, FormInv, NoDialog
<1> QED  BY <1>2, <1>3, <1>4, <1>5, CalmStep

\* A row is deleted: never a suggested one.
LEMMA DeleteSubscriptionKeeps ==
  ASSUME ConsoleInv, NEW t \in Topics, DeleteSubscription(t) PROVE ConsoleInv' /\ Promised
<1> DEFINE c == current
           conf == [config[c] EXCEPT !.list = @ \ {t}]
<1>1. /\ c \in Range(order) /\ t \notin config[c].keep /\ SetConnConfig(c, conf)
      /\ UNCHANGED <<delegateVars, made, current>>
      /\ UNCHANGED <<dialog, loading, thingView, ccbt, tokens>> /\ pending' = pending
  BY DEF DeleteSubscription, RowFree, Listed
<1>2. c \in made /\ config[c] \in Configs
  BY <1>1, ConfigType
<1>3. /\ conf \in Configs /\ conf.thing = config[c].thing /\ conf.keep = config[c].keep
      /\ conf.list = config[c].list \ {t}
  BY <1>2 DEF Configs
<1>4. config[c].thing => Suggested \subseteq config[c].list \cap config[c].keep
  BY <1>1 DEF ConsoleInv, ListInv, ThingsKept
<1> HIDE DEF conf
<1>5. conf.thing => Suggested \subseteq conf.list \cap conf.keep
  BY <1>1, <1>3, <1>4
<1>6. ListInv' /\ Follows /\ Range(order') = Range(order)
  BY <1>1, <1>2, <1>3, <1>5, SetConnKeeps
<1>7. FormInv'
  BY <1>1, FormSame DEF ConsoleInv
<1>8. UNCHANGED delegateVars /\ made' = made
  BY <1>1
<1> QED  BY <1>1, <1>6, <1>7, <1>8, QuietStep

\* The topics of a delegate change, and nothing else.
SetSubs(w, c, S) == [w EXCEPT !.delegates[c].subs = S]

\* A connection that was never made, or has no client, gets no topic.
LEMMA SetSubsGood ==
  ASSUME NEW w, NEW O, NEW M, Good(w, O, M), NEW c \in Conns, NEW S \in SUBSET Topics,
         c \notin M => S = {}, c \in O /\ w.delegates[c].client = NoClient => S = {}
  PROVE  /\ Good(SetSubs(w, c, S), O, M) /\ SameRoom(w, SetSubs(w, c, S))
         /\ SetSubs(w, c, S).clients = w.clients
         /\ \A d \in Conns : SetSubs(w, c, S).delegates[d].client = w.delegates[d].client
         /\ S \subseteq w.delegates[c].subs => Calm(w, SetSubs(w, c, S), O)
<1> DEFINE w1 == SetSubs(w, c, S)
           d1 == [w.delegates[c] EXCEPT !.subs = S]
<1>1. w \in Worlds /\ w.delegates \in [Conns -> Delegates] /\ w.delegates[c] \in Delegates
  BY DEF Good, Worlds
<1>2. /\ d1 \in Delegates /\ d1.subs = S /\ d1.client = w.delegates[c].client
      /\ d1.made = w.delegates[c].made
  BY <1>1 DEF Delegates
<1>3. /\ w1 \in Worlds /\ w1.clients = w.clients /\ w1.connecting = w.connecting
      /\ \A d \in Conns : w1.delegates[d] = IF d = c THEN d1 ELSE w.delegates[d]
  <2>1. w1 = [w EXCEPT !.delegates = [w.delegates EXCEPT ![c] = d1]]
    BY <1>1 DEF SetSubs, Worlds
  <2>2. [w.delegates EXCEPT ![c] = d1] \in [Conns -> Delegates]
    BY <1>1, <1>2
  <2> HIDE DEF d1, w1
  <2> QED  BY <1>1, <2>1, <2>2 DEF Worlds
<1> HIDE DEF w1, d1
<1>4. \A d \in Conns : w1.delegates[d].client = w.delegates[d].client
  BY <1>2, <1>3
<1>5. CallbackKnown(w1) /\ HasCause(w1)
  BY <1>3 DEF Good, CallbackKnown, HasCause
<1>6. Owned(w1, O, M)
  BY <1>3, <1>4 DEF Good, Owned
<1>7. FreshStart(w1, O, M)
  BY <1>2, <1>3, <1>4 DEF Good, FreshStart
<1>8. SameRoom(w, w1)
  BY <1>3 DEF SameRoom, Waiting, Free
<1>9. S \subseteq w.delegates[c].subs => Calm(w, w1, O)
  BY <1>2, <1>3, <1>4 DEF Calm
<1> QED  BY <1>3, <1>4, <1>5, <1>6, <1>7, <1>8, <1>9 DEF Good, w1

\* ... and are shown.
LEMMA TopicsGood ==
  ASSUME NEW w, NEW O, NEW M, Good(w, O, M), NEW c \in Conns, NEW S \in SUBSET Topics,
         c \notin M => S = {}, c \in O /\ w.delegates[c].client = NoClient => S = {}
  PROVE  /\ Good(UpdateStore(SetSubs(w, c, S), c), O, M)
         /\ SameRoom(w, UpdateStore(SetSubs(w, c, S), c))
         /\ UpdateStore(SetSubs(w, c, S), c).clients = w.clients
         /\ \A d \in Conns : UpdateStore(SetSubs(w, c, S), c).delegates[d].client
                               = w.delegates[d].client
         /\ S \subseteq w.delegates[c].subs => Calm(w, UpdateStore(SetSubs(w, c, S), c), O)
<1> DEFINE w0 == SetSubs(w, c, S)
           w1 == UpdateStore(w0, c)
<1>1. /\ Good(w0, O, M) /\ SameRoom(w, w0) /\ w0.clients = w.clients
      /\ \A d \in Conns : w0.delegates[d].client = w.delegates[d].client
      /\ S \subseteq w.delegates[c].subs => Calm(w, w0, O)
  BY SetSubsGood
<1> HIDE DEF w0
<1>2. Good(w1, O, M) /\ Calm(w0, w1, O) /\ SameRoom(w0, w1)
  BY <1>1, UpdateStoreGood
<1>3. w1.clients = w0.clients /\ w1.delegates = w0.delegates
  BY <1>1, UpdateStoreIs DEF Good
<1>4. SameRoom(w, w1)
  BY <1>1, <1>2, SameRoomTwice
<1>5. S \subseteq w.delegates[c].subs => Calm(w, w1, O)
  BY <1>1, <1>2, CalmTwice
<1> QED  BY <1>1, <1>2, <1>3, <1>4, <1>5 DEF w0

\* removeTopic.
LEMMA RemoveTopicGood ==
  ASSUME NEW w, NEW O, NEW M, Good(w, O, M), NEW c \in Conns, NEW t
  PROVE  /\ Good(RemoveTopic(w, c, t), O, M) /\ SameRoom(w, RemoveTopic(w, c, t))
         /\ Calm(w, RemoveTopic(w, c, t), O)
<1> DEFINE S == w.delegates[c].subs \ {t}
<1>1. w \in Worlds /\ w.delegates[c].subs \in SUBSET Topics
  BY DEF Good, Worlds, Delegates
<1>2. S \in SUBSET Topics /\ S \subseteq w.delegates[c].subs
  BY <1>1
<1>3. (c \notin M => S = {}) /\ (c \in O /\ w.delegates[c].client = NoClient => S = {})
  BY DEF Good, FreshStart
<1>4. [w EXCEPT !.delegates[c].subs = @ \ {t}] = SetSubs(w, c, S)
  BY <1>1 DEF SetSubs, Worlds
<1>5. CASE w.delegates[c].made
  <2>1. RemoveTopic(w, c, t) = UpdateStore(SetSubs(w, c, S), c)
    BY <1>4, <1>5 DEF RemoveTopic
  <2> HIDE DEF S
  <2> QED  BY <1>2, <1>3, <2>1, TopicsGood
<1>6. CASE ~w.delegates[c].made
  <2>1. RemoveTopic(w, c, t) = w
    BY <1>6 DEF RemoveTopic
  <2> QED  BY <2>1 DEF Calm, SameRoom
<1> QED  BY <1>5, <1>6

\* A row gets another topic: never a suggested one.
LEMMA EditSubscriptionKeeps ==
  ASSUME ConsoleInv, NEW u \in Topics, EditSubscription(u) PROVE ConsoleInv' /\ Promised
<1> DEFINE c == current
           t == dialog.topic
           L == Renamed(config[c].list, t, u)
           conf == [config[c] EXCEPT !.list = L]
           w == IF u = t THEN World ELSE RemoveTopic(World, c, t)
<1>1. /\ c \in Range(order) /\ dialog' = NoDialog
      /\ u = t \/ (u \notin config[c].list /\ t \notin config[c].keep)
      /\ UNCHANGED <<order, made, saved, current, thingView, ccbt, tokens>>
  BY DEF EditSubscription, Listed
<1>2. /\ c \in made /\ c \in Conns /\ config[c] \in Configs
      /\ config[c].list \in SUBSET Topics /\ config \in [Conns -> Configs]
  BY <1>1, ConfigType DEF ConsoleInv, ListInv
<1>3. CASE t \notin config[c].list
  <2>1. loading' = TRUE /\ UNCHANGED <<delegateVars, config, pending>>
    BY <1>3 DEF EditSubscription
  <2>2. FormInv'
    BY <1>1, <2>1, NoDialogType DEF ConsoleInv, FormInv, NoDialog
  <2> QED  BY <1>1, <2>1, <2>2, FormStep
<1>4. CASE t \in config[c].list
  <2>1. /\ Ask(c, "sub", {u}, {u}, TRUE) /\ Become(w)
        /\ config' = [config EXCEPT ![c].list = Renamed(@, t, u)]
    BY <1>4 DEF EditSubscription
  <2>2. /\ loading' \in BOOLEAN
        /\ pending' \in SUBSET Requests /\ \A r \in pending' : RequestFits(r)
    BY <1>1, <2>1, AskIs
  <2>3. L \in SUBSET Topics
    BY <1>2 DEF Renamed
  <2>4. config[c].thing => Suggested \subseteq L
    BY <1>1 DEF ConsoleInv, ListInv, ThingsKept, Renamed
  <2>5. config' = [config EXCEPT ![c] = conf]
    BY <1>2, <2>1
  <2> HIDE DEF L
  <2>6. /\ conf \in Configs /\ conf.thing = config[c].thing /\ conf.keep = config[c].keep
        /\ conf.list = L /\ conf.edit = config[c].edit
    BY <1>2, <2>3 DEF Configs
  <2> HIDE DEF conf
  <2>7. config' \in [Conns -> Configs] /\ \A d \in Conns : config'[d] = IF d = c THEN conf ELSE config[d]
    BY <1>2, <2>5, <2>6
  <2>8. \A d \in Conns : /\ config'[d].thing = config[d].thing
                         /\ config'[d].keep = config[d].keep
                         /\ config'[d].edit = config[d].edit
    BY <2>6, <2>7
  <2>9. /\ order \in Seq(Conns) /\ Range(order) \subseteq Conns /\ StorageFollows
         /\ ThingsKept(config) /\ ListInv
    BY DEF ConsoleInv, ListInv
  <2>10. order' = order /\ saved' = saved /\ made' = made /\ current' = current
    BY <1>1
  <2>11. StorageFollows'
    BY <2>8, <2>9, <2>10 DEF StorageFollows
  <2>12. ThingsKept(config')
    BY <2>4, <2>6, <2>7, <2>9 DEF ThingsKept
  <2>13. ListInv'
    BY <2>7, <2>8, <2>9, <2>10, <2>11, <2>12 DEF ListInv, ThingsKept
  <2>14. Follows
    BY <2>8, <2>9, <2>10 DEF Follows, Listed, ListInv
  <2>15. FormInv'
    <3>1. FormInv /\ UNCHANGED <<thingView, ccbt, tokens>> /\ dialog' = NoDialog
      BY <1>1 DEF ConsoleInv
    <3> QED  BY <2>2, <3>1, NoDialogType DEF FormInv, NoDialog
  <2>16. Good(World, Range(order), made) /\ Room(World) /\ Calm(World, World, Range(order))
    BY WorldCalm DEF ConsoleInv
  <2>17. Good(w, Range(order'), made') /\ Room(w) /\ Calm(World, w, Range(order'))
    <3>1. CASE u = t
      BY <2>10, <2>16, <3>1
    <3>2. CASE u # t
      BY <1>2, <2>10, <2>16, <3>2, RemoveTopicGood, SameRoomKeeps
    <3> QED  BY <3>1, <3>2
  <2> HIDE DEF w
  <2> QED  BY <1>1, <2>1, <2>2, <2>13, <2>14, <2>15, <2>17, AskingStep
<1> QED  BY <1>3, <1>4

(***************************************************************************)
(* Answers.                                                                *)
(***************************************************************************)
\* The broker keeps the topics T for client k.
Answering(k, T) == [World EXCEPT !.clients[k].answered = T]

\* The broker has taken note of a subscription.
LEMMA AnsweringGood ==
  ASSUME NEW O, NEW M, Good(World, O, M), NEW k \in ClientIds, clients[k].st = "connected",
         NEW T \in SUBSET Topics
  PROVE  /\ Good(Answering(k, T), O, M) /\ SameRoom(World, Answering(k, T))
         /\ Answering(k, T).delegates = delegates
         /\ \A j \in ClientIds : Answering(k, T).clients[j].st = clients[j].st
<1> DEFINE x == [clients[k] EXCEPT !.answered = T]
           w == Answering(k, T)
<1>1. World \in Worlds /\ clients \in [ClientIds -> Clients(Tokens)]
      /\ clients[k] \in Clients(Tokens)
  BY ClientIs
<1>2. /\ x \in Clients(Tokens) /\ x.conn = clients[k].conn /\ x.st = clients[k].st
      /\ x.then = clients[k].then /\ x.ending = clients[k].ending
  BY <1>1 DEF Clients
<1>3. Goes(clients[k], x)
  BY <1>2, WorldIs DEF Goes, Good, CallbackKnown
<1>4. w = SetClient(World, k, x)
  BY <1>1 DEF SetClient, World, Answering
<1> HIDE DEF x, w
<1>5. /\ w \in Worlds /\ w.delegates = delegates /\ w.connecting = connecting
      /\ \A j \in ClientIds : w.clients[j] = IF j = k THEN x ELSE clients[j]
  <2>1. World \in Worlds /\ x \in Clients(Tokens)
    BY <1>1, <1>2
  <2>2. /\ w \in Worlds /\ w.delegates = World.delegates /\ w.connecting = World.connecting
        /\ \A j \in ClientIds : w.clients[j] = IF j = k THEN x ELSE World.clients[j]
    BY <1>4, <2>1, SetClientIs
  <2> QED  BY <2>2, WorldIs
<1>6. Sound(w, O, M) /\ SameRoom(World, w)
  BY <1>2, <1>3, <1>4, SetClientSound, WorldIs
<1>7. \A j \in ClientIds : w.clients[j].st = clients[j].st
  BY <1>2, <1>5
<1>8. HasCause(w)
  BY <1>5, <1>7, WorldIs DEF Good, HasCause
<1> QED  BY <1>5, <1>6, <1>7, <1>8 DEF Good, Sound, w

\* The type of a request.
LEMMA RequestIs ==
  ASSUME ConsoleInv, NEW r \in pending
  PROVE  /\ RequestFits(r) /\ r \in Requests /\ r.client \in ClientIds
         /\ r.conn \in Conns /\ r.conn \in made /\ r.topics \in SUBSET Topics
         /\ r.confs \in SUBSET Topics /\ r.config \in Configs /\ r.spin \in BOOLEAN
  BY DEF ConsoleInv, PendingInv, RequestFits, Requests

\* A late answer writes back a config that still holds the suggested topics.
LEMMA CapturedIs ==
  ASSUME ConsoleInv, NEW r \in pending
  PROVE  /\ Captured(r) \in Configs
         /\ Listed(r.conn) =>
              /\ Captured(r).thing = config[r.conn].thing
              /\ Captured(r).thing =>
                   Suggested \subseteq Captured(r).list \cap Captured(r).keep
<1> DEFINE now == config[r.conn]
           conf == [[r.config EXCEPT !.list = now.list] EXCEPT !.keep = now.keep]
<1>1. /\ RequestFits(r) /\ r.config \in Configs /\ r.conn \in Conns
  BY RequestIs
<1>2. now \in Configs /\ (Listed(r.conn) /\ now.thing => Suggested \subseteq now.list \cap now.keep)
  BY <1>1 DEF ConsoleInv, ListInv, ThingsKept, Listed
<1>3. Listed(r.conn) => r.config.thing = now.thing
  BY <1>1 DEF RequestFits
<1>4. r.config.thing => Suggested \subseteq r.config.list \cap r.config.keep
  BY <1>1 DEF RequestFits
<1>5. Captured(r) \in {conf, r.config}
  BY DEF Captured
<1> HIDE DEF now
<1>6. /\ conf \in Configs /\ conf.thing = r.config.thing /\ conf.list = now.list
      /\ conf.keep = now.keep
  <2>1. /\ [r.config EXCEPT !.list = now.list] \in Configs
        /\ [r.config EXCEPT !.list = now.list].thing = r.config.thing
    BY <1>1, <1>2 DEF Configs
  <2> QED  BY <1>1, <1>2, <2>1 DEF Configs
<1> HIDE DEF conf
<1>7. CASE Captured(r) = conf
  BY <1>2, <1>3, <1>6, <1>7 DEF now
<1>8. CASE Captured(r) = r.config
  BY <1>1, <1>3, <1>4, <1>8 DEF now
<1> QED  BY <1>5, <1>7, <1>8

\* An answer that leads to the world w.
LEMMA AnswerStep ==
  ASSUME ConsoleInv, NEW r \in pending, Answered(r), NEW w, Become(w),
         Good(w, Range(order), made), SameRoom(World, w),
         \A c \in Conns : w.delegates[c].client = delegates[c].client,
         \A k \in ClientIds : clients[k].st = "connected" => w.clients[k].st = "connected",
         ListInv', Follows, Range(order') = Range(order)
  PROVE  ConsoleInv' /\ Promised
<1>1. /\ pending' = pending \ {r} /\ loading' = (loading /\ ~r.spin)
      /\ UNCHANGED <<made, dialog, thingView, ccbt, tokens>>
  BY DEF Answered
<1>2. FormInv'
  BY <1>1, RequestIs DEF ConsoleInv, FormInv
<1>3. Room(w)
  BY WorldCalm, SameRoomKeeps DEF ConsoleInv
<1>4. Changes(World, w, Range(order'))
  BY WorldIs DEF Changes
<1>5. /\ pending' \in SUBSET Requests /\ \A q \in pending' : RequestFits(q)
      /\ \A q \in pending' : q.kind # "pub" => w.clients[q.client].st = "connected"
  BY <1>1, RequestIs DEF RequestFits
<1>6. Good(w, Range(order'), made')
  BY <1>1
<1> QED  BY <1>2, <1>3, <1>4, <1>5, <1>6, WorldStep

\* onsub and onsubmap, and useMqtt's onSub: the connection may be gone, and its
\* config may have been edited since.
LEMMA SubAnswerKeeps ==
  ASSUME ConsoleInv, NEW r \in pending, NEW granted \in BOOLEAN, SubAnswer(r, granted)
  PROVE  ConsoleInv' /\ Promised
<1> DEFINE k == r.client
           c == r.conn
           T == clients[k].answered \cup r.topics
           w0 == Answering(k, T)
           S == delegates[c].subs \cup r.topics
           w1 == UpdateStore(SetSubs(w0, c, S), c)
           conf == [Captured(r) EXCEPT !.list = @ \cup (r.topics \cap r.confs)]
<1>1. /\ r.kind \in {"sub", "submap"} /\ clients[k].st = "connected" /\ Answered(r)
      /\ [World EXCEPT !.clients[r.client].answered = @ \cup r.topics] = w0
  BY WorldIs DEF SubAnswer, Answering
<1>2. /\ RequestFits(r) /\ k \in ClientIds /\ c \in Conns /\ c \in made
      /\ r.topics \in SUBSET Topics /\ r.confs \in SUBSET Topics
  BY RequestIs
<1>3. /\ Good(World, Range(order), made) /\ World \in Worlds
      /\ clients[k] \in Clients(Tokens) /\ delegates \in [Conns -> Delegates]
  BY <1>2, WorldCalm, ClientIs, DelegatesType DEF ConsoleInv
<1>4. T \in SUBSET Topics /\ S \in SUBSET Topics
  BY <1>2, <1>3 DEF Clients, Delegates
<1>5. /\ Good(w0, Range(order), made) /\ SameRoom(World, w0) /\ w0.delegates = delegates
      /\ \A j \in ClientIds : w0.clients[j].st = clients[j].st
  <2> HIDE DEF T
  <2> QED  BY <1>1, <1>2, <1>3, <1>4, AnsweringGood
<1>6. CASE r.kind = "sub" /\ ~granted
  <2>1. Become(w0) /\ UNCHANGED <<order, config, saved>>
    BY <1>1, <1>6 DEF SubAnswer
  <2>2. UNCHANGED <<order, made, config, saved, current>>
    BY <1>1, <2>1 DEF Answered
  <2>3. ListInv' /\ Follows /\ Range(order') = Range(order)
    BY <2>2, ListSame DEF ConsoleInv
  <2> HIDE DEF w0
  <2> QED  BY <1>1, <1>5, <2>1, <2>3, AnswerStep
<1>7. CASE ~(r.kind = "sub" /\ ~granted)
  <2>1. Become(Subscribed(w0, c, r.topics)) /\ SetConnConfig(c, conf)
    BY <1>1, <1>7 DEF SubAnswer
  <2>2. Subscribed(w0, c, r.topics) = w1
    <3>1. w0 \in Worlds
      BY <1>5 DEF Good
    <3> HIDE DEF w0
    <3> QED  BY <1>2, <1>5, <3>1 DEF Subscribed, SetSubs, Worlds
  <2>3. c \in Range(order) => w0.delegates[c].client # NoClient
    BY <1>1, <1>2, <1>5 DEF RequestFits, Listed
  <2> HIDE DEF w0, S
  <2>4. /\ Good(w1, Range(order), made) /\ SameRoom(w0, w1) /\ w1.clients = w0.clients
        /\ \A d \in Conns : w1.delegates[d].client = w0.delegates[d].client
    BY <1>2, <1>4, <1>5, <2>3, TopicsGood
  <2> HIDE DEF w1
  <2>5. SameRoom(World, w1)
    BY <1>5, <2>4, SameRoomTwice
  <2>6. /\ conf \in Configs
        /\ Listed(c) => /\ conf.thing = config[c].thing
                        /\ conf.thing => Suggested \subseteq conf.list \cap conf.keep
    <3> DEFINE cap == Captured(r)
    <3>1. /\ cap \in Configs
          /\ Listed(c) => /\ cap.thing = config[c].thing
                          /\ cap.thing => Suggested \subseteq cap.list \cap cap.keep
      BY CapturedIs
    <3> HIDE DEF cap
    <3>2. /\ [cap EXCEPT !.list = cap.list \cup (r.topics \cap r.confs)] \in Configs
          /\ [cap EXCEPT !.list = cap.list \cup (r.topics \cap r.confs)].thing = cap.thing
          /\ [cap EXCEPT !.list = cap.list \cup (r.topics \cap r.confs)].keep = cap.keep
          /\ [cap EXCEPT !.list = cap.list \cup (r.topics \cap r.confs)].list
               = cap.list \cup (r.topics \cap r.confs)
      BY <1>2, <3>1 DEF Configs
    <3>3. conf = [cap EXCEPT !.list = cap.list \cup (r.topics \cap r.confs)]
      BY DEF cap
    <3> HIDE DEF conf
    <3> QED  BY <3>1, <3>2, <3>3
  <2>7. UNCHANGED <<made, current>>
    BY <1>1 DEF Answered
  <2> HIDE DEF conf
  <2>8. ListInv' /\ Follows /\ Range(order') = Range(order)
    BY <1>2, <2>1, <2>6, <2>7, SetConnKeeps
  <2>9. Become(w1)
    BY <2>1, <2>2
  <2> QED  BY <1>1, <1>5, <2>4, <2>5, <2>8, <2>9, AnswerStep
<1> QED  BY <1>6, <1>7

\* onunsub.
LEMMA UnsubAnswerKeeps ==
  ASSUME ConsoleInv, NEW r \in pending, UnsubAnswer(r) PROVE ConsoleInv' /\ Promised
<1> DEFINE k == r.client
           c == r.conn
           T == clients[k].answered \ r.topics
           w0 == Answering(k, T)
           S == delegates[c].subs \ r.topics
           w1 == UpdateStore(SetSubs(w0, c, S), c)
<1>1. /\ clients[k].st = "connected" /\ Answered(r)
      /\ [World EXCEPT !.clients[r.client].answered = @ \ r.topics] = w0
      /\ UNCHANGED <<order, made, config, saved, current>>
  BY WorldIs DEF UnsubAnswer, Answering, Answered
<1>2. k \in ClientIds /\ c \in Conns /\ r.topics \in SUBSET Topics
  BY RequestIs
<1>3. /\ Good(World, Range(order), made) /\ clients[k] \in Clients(Tokens)
      /\ delegates \in [Conns -> Delegates]
  BY <1>2, WorldCalm, ClientIs, DelegatesType DEF ConsoleInv
<1>4. T \in SUBSET Topics /\ S \in SUBSET Topics
  BY <1>2, <1>3 DEF Clients, Delegates
<1>5. /\ Good(w0, Range(order), made) /\ SameRoom(World, w0) /\ w0.delegates = delegates
      /\ \A j \in ClientIds : w0.clients[j].st = clients[j].st
  <2> HIDE DEF T
  <2> QED  BY <1>1, <1>2, <1>3, <1>4, AnsweringGood
<1>6. Become(w1)
  <2>1. Become(Unsubscribed(w0, c, r.topics))
    BY <1>1 DEF UnsubAnswer
  <2>2. w0 \in Worlds
    BY <1>5 DEF Good
  <2> HIDE DEF w0
  <2>3. Unsubscribed(w0, c, r.topics) = w1
    BY <1>2, <1>5, <2>2 DEF Unsubscribed, SetSubs, Worlds
  <2> QED  BY <2>1, <2>3
<1>7. /\ c \notin made => S = {}
      /\ c \in Range(order) /\ delegates[c].client = NoClient => S = {}
  BY <1>2, <1>3, WorldIs DEF Good, FreshStart
<1> HIDE DEF w0, S
<1>8. /\ Good(w1, Range(order), made) /\ SameRoom(w0, w1) /\ w1.clients = w0.clients
      /\ \A d \in Conns : w1.delegates[d].client = w0.delegates[d].client
  BY <1>2, <1>4, <1>5, <1>7, TopicsGood
<1> HIDE DEF w1
<1>9. SameRoom(World, w1)
  BY <1>5, <1>8, SameRoomTwice
<1>10. ListInv' /\ Follows /\ Range(order') = Range(order)
  BY <1>1, ListSame DEF ConsoleInv
<1> QED  BY <1>1, <1>5, <1>6, <1>8, <1>9, <1>10, AnswerStep

\* The store may be told or not.
LEMMA ToldIs ==
  ASSUME ConsoleInv, NEW c \in Conns, Told(c)
  PROVE  \E w : /\ Become(w) /\ Good(w, Range(order), made) /\ SameRoom(World, w)
                /\ Calm(World, w, Range(order))
                /\ w.clients = clients /\ w.delegates = delegates
<1>1. /\ Good(World, Range(order), made) /\ World \in Worlds /\ SameRoom(World, World)
      /\ Calm(World, World, Range(order))
  BY WorldCalm DEF ConsoleInv, SameRoom, Good
<1>2. CASE UNCHANGED delegateVars
  <2>1. Become(World)
    BY <1>2, BecomeWorld
  <2> QED  BY <1>1, <2>1, WorldIs
<1>3. CASE Become(UpdateStore(World, c))
  <2>1. /\ Good(UpdateStore(World, c), Range(order), made)
        /\ SameRoom(World, UpdateStore(World, c))
        /\ Calm(World, UpdateStore(World, c), Range(order))
    BY <1>1, UpdateStoreGood
  <2>2. UpdateStore(World, c).clients = clients /\ UpdateStore(World, c).delegates = delegates
    BY <1>1, UpdateStoreIs, WorldIs
  <2> QED  BY <1>3, <2>1, <2>2
<1> QED  BY <1>2, <1>3 DEF Told

\* onpub: the config of the call is stored.
LEMMA PubAnswerKeeps ==
  ASSUME ConsoleInv, NEW r \in pending, PubAnswer(r) PROVE ConsoleInv' /\ Promised
<1>1. r.conn \in Conns /\ r.conn \in made
  BY RequestIs
<1>2. /\ SetConnConfig(r.conn, Captured(r)) /\ Told(r.conn) /\ Answered(r)
      /\ UNCHANGED <<made, current>>
  BY DEF PubAnswer, Answered
<1>3. PICK w : /\ Become(w) /\ Good(w, Range(order), made) /\ SameRoom(World, w)
               /\ w.clients = clients /\ w.delegates = delegates
  BY <1>1, <1>2, ToldIs
<1>4. ListInv' /\ Follows /\ Range(order') = Range(order)
  BY <1>1, <1>2, CapturedIs, SetConnKeeps
<1> QED  BY <1>2, <1>3, <1>4, AnswerStep

(***************************************************************************)
(* The events of the clients.                                              *)
(***************************************************************************)
\* A message comes in, or the messages are cleared.
LEMMA ReceivesKeeps ==
  ASSUME ConsoleInv, NEW k \in ClientIds, ClientReceives(k) PROVE ConsoleInv' /\ Promised
<1>1. clients[k].conn \in Conns
  BY ClientIs, WorldCalm DEF ConsoleInv
<1>2. PICK w : /\ Become(w) /\ Good(w, Range(order), made) /\ SameRoom(World, w)
               /\ Calm(World, w, Range(order))
  BY <1>1, ToldIs DEF ClientReceives
<1>3. Room(w)
  BY <1>2, WorldCalm, SameRoomKeeps DEF ConsoleInv
<1>4. /\ UNCHANGED <<order, made, config, saved, current>>
      /\ UNCHANGED <<dialog, loading, thingView, ccbt, tokens>> /\ pending' = pending
  BY DEF ClientReceives, consoleVars
<1>5. FormInv'
  BY <1>4, FormSame DEF ConsoleInv
<1> QED  BY <1>2, <1>3, <1>4, <1>5, CalmEvent

\* clearMessages tells the store like a selection.
LEMMA ClearMessagesKeeps ==
  ASSUME ConsoleInv, ClearMessages PROVE ConsoleInv' /\ Promised
<1>1. current \in Conns
  BY DEF ClearMessages, Listed, ConsoleInv, ListInv
<1>2. /\ Good(SelectConnection(World, current), Range(order), made)
      /\ Calm(World, SelectConnection(World, current), Range(order))
      /\ SameRoom(World, SelectConnection(World, current))
  BY <1>1, WorldCalm, SelectConnectionGood DEF ConsoleInv
<1>3. Room(SelectConnection(World, current))
  BY <1>2, WorldCalm, SameRoomKeeps DEF ConsoleInv
<1>4. /\ Become(SelectConnection(World, current))
      /\ UNCHANGED <<order, made, config, saved, current>>
      /\ UNCHANGED <<dialog, loading, thingView, ccbt, tokens>> /\ pending' = pending
  BY DEF ClearMessages, consoleVars, SelectConnection
<1>5. FormInv'
  BY <1>4, FormSame DEF ConsoleInv
<1> QED  BY <1>2, <1>3, <1>4, <1>5, CalmEvent

\* An attempt fails, the timer fires, a stream closes late.
LEMMA ClientEventsKeep ==
  ASSUME ConsoleInv, NEW k \in ClientIds,
         ClientFails(k) \/ ClientReconnects(k) \/ ClientClosesLate(k)
  PROVE  ConsoleInv' /\ Promised
<1>1. Good(World, Range(order), made) /\ Room(World)
  BY WorldCalm DEF ConsoleInv
<1>2. /\ UNCHANGED <<order, made, config, saved, current>>
      /\ UNCHANGED <<dialog, loading, thingView, ccbt, tokens>> /\ pending' = pending
  BY DEF ClientFails, ClientReconnects, ClientClosesLate, consoleVars
<1>3. FormInv'
  BY <1>2, FormSame DEF ConsoleInv
<1>4. CASE ClientFails(k)
  <2>1. Trying(k) /\ Become(OnClose(k)) /\ clients[k].st # "connected"
    BY <1>4 DEF ClientFails, Trying
  <2>2. /\ Good(OnClose(k), Range(order), made) /\ SameRoom(World, OnClose(k))
        /\ Calm(World, OnClose(k), Range(order))
    BY <1>1, <2>1, CloseGood
  <2>3. Room(OnClose(k))
    BY <1>1, <2>2, SameRoomKeeps
  <2> QED  BY <1>2, <1>3, <2>1, <2>2, <2>3, CalmEvent
<1>5. CASE ClientReconnects(k)
  <2>1. clients[k].st = "offline" /\ ~clients[k].ending /\ Become(OnReconnect(k))
    BY <1>5 DEF ClientReconnects
  <2>2. /\ Good(OnReconnect(k), Range(order), made) /\ Room(OnReconnect(k))
        /\ Calm(World, OnReconnect(k), Range(order))
    BY <1>1, <2>1, ReconnectGood
  <2> QED  BY <1>2, <1>3, <2>1, <2>2, CalmEvent
<1>6. CASE ClientClosesLate(k)
  <2>1. clients[k].st = "closing" /\ Become(OnLateClose(k))
    BY <1>6 DEF ClientClosesLate
  <2>2. /\ Good(OnLateClose(k), Range(order), made) /\ SameRoom(World, OnLateClose(k))
        /\ Calm(World, OnLateClose(k), Range(order))
    BY <1>1, <2>1, LateCloseGood
  <2>3. Room(OnLateClose(k))
    BY <1>1, <2>2, SameRoomKeeps
  <2> QED  BY <1>2, <1>3, <2>1, <2>2, <2>3, CalmEvent
<1> QED  BY <1>4, <1>5, <1>6

\* Requests that end with a stream or a client.
LEMMA FailedIs ==
  ASSUME ConsoleInv, NEW k, NEW kinds, Failed(k, kinds)
  PROVE  /\ FormInv' /\ pending' \subseteq pending
         /\ UNCHANGED <<order, made, config, saved, current>>
         /\ \A r \in pending' : ~(r.client = k /\ r.kind \in kinds)
<1>1. /\ loading' \in BOOLEAN
      /\ UNCHANGED <<order, made, config, saved, current, dialog, thingView, ccbt, tokens>>
      /\ pending' = pending \ {r \in pending : r.client = k /\ r.kind \in kinds}
  BY DEF Failed, ConsoleInv, FormInv
<1>2. FormInv'
  BY <1>1 DEF ConsoleInv, FormInv
<1> QED  BY <1>1, <1>2

\* A client has ended; its callback may connect again.
LEMMA EndsKeeps ==
  ASSUME ConsoleInv, NEW k \in ClientIds, ClientEnds(k) PROVE ConsoleInv' /\ Promised
<1>1. /\ clients[k].ending /\ clients[k].st \in {"connecting", "offline"}
      /\ Become(OnEnd(k)) /\ Failed(k, {"pub"})
  BY DEF ClientEnds
<1>2. /\ Good(OnEnd(k), Range(order), made) /\ Room(OnEnd(k))
      /\ Calm(World, OnEnd(k), Range(order))
  BY <1>1, EndGood, WorldCalm DEF ConsoleInv
<1>3. /\ FormInv' /\ pending' \subseteq pending
      /\ UNCHANGED <<order, made, config, saved, current>>
  BY <1>1, FailedIs
<1> QED  BY <1>1, <1>2, <1>3, CalmEvent

\* The stream of a client is lost: what it had asked the broker fails.
LEMMA ClosesKeeps ==
  ASSUME ConsoleInv, NEW k \in ClientIds, ClientCloses(k) PROVE ConsoleInv' /\ Promised
<1>1. /\ clients[k].st = "connected" /\ Become(OnClose(k))
      /\ Failed(k, {"sub", "submap", "unsub"})
  BY DEF ClientCloses
<1>2. /\ Good(OnClose(k), Range(order), made) /\ SameRoom(World, OnClose(k))
      /\ OnClose(k).delegates = delegates
      /\ \A j \in ClientIds : j # k => OnClose(k).clients[j] = clients[j]
  BY <1>1, CloseGood, WorldCalm DEF ConsoleInv
<1>3. Room(OnClose(k))
  BY <1>2, WorldCalm, SameRoomKeeps DEF ConsoleInv
<1>4. /\ FormInv' /\ pending' \subseteq pending
      /\ UNCHANGED <<order, made, config, saved, current>>
      /\ \A r \in pending' : ~(r.client = k /\ r.kind \in {"sub", "submap", "unsub"})
  BY <1>1, FailedIs
<1>5. ListInv' /\ Follows /\ order' = order /\ made' = made
  BY <1>4, ListSame DEF ConsoleInv
<1>6. Changes(World, OnClose(k), Range(order'))
  BY <1>2, WorldIs DEF Changes
<1>7. /\ pending' \in SUBSET Requests /\ \A r \in pending' : RequestFits(r)
  BY <1>4 DEF ConsoleInv, PendingInv
<1>8. ASSUME NEW r \in pending', r.kind # "pub"
      PROVE  OnClose(k).clients[r.client].st = "connected"
  <2>1. r \in Requests /\ RequestFits(r) /\ r.client \in ClientIds
    BY <1>7 DEF Requests
  <2>2. r.client # k
    BY <1>4, <1>8, <2>1 DEF Requests
  <2> QED  BY <1>2, <1>8, <2>1, <2>2 DEF RequestFits
<1>9. Good(OnClose(k), Range(order'), made')
  BY <1>2, <1>5
<1> QED  BY <1>1, <1>3, <1>4, <1>5, <1>6, <1>7, <1>8, <1>9, WorldStep

\* A client gets connected; the page of the thing may ask for the suggested
\* topics in the same step.
LEMMA ConnectsKeeps ==
  ASSUME ConsoleInv, NEW k \in ClientIds, ClientConnects(k) PROVE ConsoleInv' /\ Promised
<1> DEFINE c == clients[k].conn
           d == delegates[c].client
           w == OnConnect(k)
           new == [kind |-> "submap", client |-> d, conn |-> c, topics |-> config[c].keep,
                   confs |-> config[c].keep, config |-> config[c], spin |-> FALSE]
<1>1. /\ Trying(k) /\ Become(w) /\ ccbt' \in {0, ccbt}
      /\ pending' = pending \/ (Online(w, d) /\ pending' = pending \cup {new})
      /\ UNCHANGED <<order, made, config, saved, current>>
      /\ UNCHANGED <<dialog, loading, thingView, tokens>>
  BY DEF ClientConnects
<1>2. /\ Good(World, Range(order), made) /\ c \in Conns /\ c \in made
      /\ config[c] \in Configs /\ delegates[c] \in Delegates
  <2>1. Good(World, Range(order), made) /\ config \in [Conns -> Configs]
    BY WorldCalm DEF ConsoleInv, ListInv
  <2>2. c \in Conns /\ c \in made
    BY <1>1, <2>1, ClientIs DEF Trying
  <2> QED  BY <2>1, <2>2, DelegatesType DEF ConsoleInv
<1>3. /\ Good(w, Range(order), made) /\ SameRoom(World, w) /\ Calm(World, w, Range(order))
      /\ w.delegates = delegates
  BY <1>1, <1>2, ConnectGood
<1>4. Room(w)
  BY <1>3, WorldCalm, SameRoomKeeps DEF ConsoleInv
<1>5. FormInv'
  BY <1>1, ZeroToken DEF ConsoleInv, FormInv
<1>6. ListInv' /\ Follows /\ order' = order /\ made' = made
  BY <1>1, ListSame DEF ConsoleInv
<1>7. Changes(World, w, Range(order'))
  BY <1>3, WorldIs DEF Changes
<1>8. w \in Worlds /\ clients' = w.clients /\ delegates' = delegates
  BY <1>1, <1>3 DEF Good, Become
<1>9. ASSUME NEW r \in pending PROVE r \in Requests /\ RequestFits(r)'
  <2>1. r \in Requests /\ RequestFits(r) /\ r.client \in ClientIds
    BY RequestIs
  <2>2. r.kind # "pub" => w.clients[r.client].st = "connected"
    BY <1>3, <2>1, WorldIs DEF RequestFits, Calm
  <2> HIDE DEF w
  <2> QED  BY <1>1, <1>6, <1>7, <1>8, <2>1, <2>2, RequestStays
<1>10. ASSUME Online(w, d), NEW q, q = new PROVE q \in Requests /\ RequestFits(q)'
  <2>1. d # NoClient /\ d \in ClientIds /\ w.clients[d].st = "connected"
    BY <1>2, <1>10 DEF Online, Delegates
  <2>2. new \in Requests
    BY <1>2, <2>1 DEF Requests, Configs
  <2>3. config[c].thing => Suggested \subseteq config[c].list \cap config[c].keep
    BY <1>2 DEF ConsoleInv, ListInv, ThingsKept
  <2>4. q \in Requests /\ q.conn = c /\ q.client = d /\ q.config = config[c]
    BY <1>10, <2>2
  <2>5. clients'[d].st = "connected" /\ delegates'[c].client # NoClient
    BY <1>8, <2>1
  <2>6. config'[c] = config[c] /\ c \in made'
    BY <1>1, <1>2, <1>6
  <2>7. clients'[q.client].st = "connected" /\ delegates'[q.conn].client # NoClient
    BY <2>4, <2>5
  <2>8. q.conn \in made' /\ q.config = config'[q.conn]
    BY <2>4, <2>6
  <2>9. q.config.thing => Suggested \subseteq q.config.list \cap q.config.keep
    BY <2>3, <2>4
  <2> HIDE DEF new, c, d, w
  <2> QED  BY <2>4, <2>7, <2>8, <2>9 DEF RequestFits
<1>11. PendingInv'
  <2>1. ASSUME NEW r \in pending' PROVE r \in Requests /\ RequestFits(r)'
    <3>1. CASE r \in pending
      BY <1>9, <3>1
    <3>2. CASE r \notin pending
      <4>1. Online(w, d) /\ r = new
        BY <1>1, <3>2
      <4> HIDE DEF new, w, d
      <4> QED  BY <1>10, <4>1
    <3> QED  BY <3>1, <3>2
  <2> QED  BY <2>1 DEF PendingInv
<1> HIDE DEF w
<1> QED  BY <1>1, <1>3, <1>4, <1>5, <1>6, <1>7, <1>11, StepIs

(***************************************************************************)
(* The page is loaded: again, or for the first time.                       *)
(***************************************************************************)
\* The first connection is selected, if there is one.
LEMMA FirstOfIs ==
  ASSUME NEW q \in Seq(Conns)
  PROVE  FirstOf(q) \in Range(q) \cup {NoConn}
<1>1. CASE q = <<>>
  BY <1>1 DEF FirstOf
<1>2. CASE q # <<>>
  <2>1. 1 \in DOMAIN q /\ Head(q) = q[1]
    BY <1>2, EmptySeq, LenProperties, HeadTailProperties
  <2> QED  BY <1>2, <2>1 DEF FirstOf, Range
<1> QED  BY <1>1, <1>2

\* Without clients and requests, the world is in order.
LEMMA LoadedGood ==
  ASSUME NEW w \in Worlds, NEW O \in SUBSET Conns, NEW M,
         ~w.connecting,
         \A k \in ClientIds :
           /\ w.clients[k].then = ""
           /\ w.clients[k].st = "unused" \/ (w.clients[k].st = "ended" /\ w.clients[k].conn \in M)
           /\ w.clients[k].st = "unused" => ~w.clients[k].ending,
         \A c \in Conns : /\ w.delegates[c].client = NoClient /\ w.delegates[c].subs = {}
                          /\ c \in O => w.delegates[c].made
  PROVE  Good(w, O, M) /\ Room(w)
<1>1. CallbackKnown(w)
  BY DEF CallbackKnown
<1>2. Owned(w, O, M)
  BY DEF Owned
<1>3. FreshStart(w, O, M) /\ HasCause(w)
  BY DEF FreshStart, HasCause
<1>4. Waiting(w) = {}
  BY DEF Waiting
<1>5. Room(w)
  <2>1. Cardinality(Free(w)) \in Nat
    BY RoomsFinite
  <2>2. Cardinality(Waiting(w)) = 0
    BY <1>4, FS_EmptySet
  <2>3. Cardinality(Waiting(w)) <= Cardinality(Free(w))
    BY ONLY <2>1, <2>2
  <2> QED  BY <2>3 DEF Room
<1> QED  BY <1>1, <1>2, <1>3, <1>5 DEF Good

\* The delegates that are made when the page is loaded.
LEMMA LoadedDelegates ==
  /\ NewDelegate \in Delegates /\ NoDelegate \in Delegates
  /\ NewDelegate.client = NoClient /\ NewDelegate.subs = {} /\ NewDelegate.made
  /\ NoDelegate.client = NoClient /\ NoDelegate.subs = {}
  /\ NothingShown \in Shown
  /\ \A b \in BOOLEAN : [NothingShown EXCEPT !.there = b] \in Shown
<1>1. /\ NewDelegate \in Delegates /\ NewDelegate.client = NoClient
      /\ NewDelegate.subs = {} /\ NewDelegate.made
  BY DelegateBoundsAssumption DEF NewDelegate, Delegates
<1>2. /\ NoDelegate \in Delegates /\ NoDelegate.client = NoClient /\ NoDelegate.subs = {}
  BY <1>1 DEF NoDelegate, Delegates
<1>3. NothingShown \in Shown
  BY DEF NothingShown, Shown
<1>4. \A b \in BOOLEAN : [NothingShown EXCEPT !.there = b] \in Shown
  BY <1>3 DEF Shown
<1> QED  BY <1>1, <1>2, <1>3, <1>4

\* The page is loaded again from local storage.
LEMMA ReloadKeeps ==
  ASSUME ConsoleInv, Reload PROVE ConsoleInv' /\ Promised
<1>1. /\ order \in Seq(Conns) /\ IsInjective(order) /\ Range(order) \subseteq made
      /\ made \in SUBSET Conns /\ saved.order = order /\ saved.config \in [Conns -> Configs]
      /\ ThingsKept(saved.config)
      /\ \A c \in Range(order) : saved.config[c].thing = config[c].thing
  BY DEF ConsoleInv, ListInv, StorageFollows
<1>2. /\ order' = order /\ config' = saved.config /\ made' = made /\ saved' = saved
      /\ current' = FirstOf(order)
      /\ dialog' = NoDialog /\ loading' = FALSE /\ ccbt' = 0 /\ pending' = {}
      /\ thingView' = thingView /\ tokens' = tokens /\ connecting' = FALSE
  BY <1>1 DEF Reload
<1>3. /\ clients' = [k \in ClientIds |-> IF clients[k].st = "unused" THEN clients[k]
                      ELSE [clients[k] EXCEPT !.st = "ended", !.ending = TRUE, !.then = ""]]
      /\ delegates' = [c \in Conns |-> IF c \in Range(order) THEN NewDelegate ELSE NoDelegate]
      /\ shown' = [c \in Conns |-> [NothingShown EXCEPT !.there = c \in Range(order)]]
  BY <1>1 DEF Reload
<1>4. ListInv'
  <2>1. current' \in made' \cup {NoConn}
    BY <1>1, <1>2, FirstOfIs
  <2>2. StorageFollows'
    BY <1>1, <1>2 DEF StorageFollows
  <2>3. ThingsKept(config') /\ ThingsKept(saved'.config)
    BY <1>1, <1>2
  <2>4. \A c \in Range(order') : saved'.config[c].thing = config'[c].thing
    BY <1>2
  <2>5. /\ order' \in Seq(Conns) /\ IsInjective(order') /\ made' \in SUBSET Conns
        /\ Range(order') \subseteq made' /\ config' \in [Conns -> Configs]
        /\ saved'.order \in Seq(Conns) /\ saved'.config \in [Conns -> Configs]
    BY <1>1, <1>2
  <2> QED  BY <2>1, <2>2, <2>3, <2>4, <2>5 DEF ListInv, ThingsKept
<1>5. FormInv'
  BY <1>2, NoDialogType, ZeroToken DEF ConsoleInv, FormInv, NoDialog
<1>6. PendingInv'
  BY <1>2 DEF PendingInv
<1>7. \A k \in ClientIds :
        /\ clients'[k] \in Clients(Tokens) /\ clients'[k].then = ""
        /\ clients'[k].st = "unused" \/ (clients'[k].st = "ended" /\ clients'[k].conn \in made)
        /\ clients'[k].st = "unused" => ~clients'[k].ending
  <2>1. SUFFICES ASSUME NEW k \in ClientIds
                 PROVE /\ clients'[k] \in Clients(Tokens) /\ clients'[k].then = ""
                       /\ \/ clients'[k].st = "unused"
                          \/ clients'[k].st = "ended" /\ clients'[k].conn \in made
                       /\ clients'[k].st = "unused" => ~clients'[k].ending
    OBVIOUS
  <2> DEFINE y == clients[k]
             x1 == [y EXCEPT !.st = "ended"]
             x2 == [x1 EXCEPT !.ending = TRUE]
             x3 == [x2 EXCEPT !.then = ""]
  <2>2. /\ y \in Clients(Tokens) /\ (y.st # "unused" => y.conn \in made)
        /\ y.st = "unused" => ~y.ending /\ y.then = ""
    BY ClientIs, WorldCalm, WorldIs DEF ConsoleInv, Good, CallbackKnown
  <2>3. clients'[k] = IF y.st = "unused" THEN y ELSE x3
    BY <1>3
  <2> HIDE DEF y
  <2>4. x1 \in Clients(Tokens) /\ x1.st = "ended" /\ x1.conn = y.conn
    BY <2>2 DEF Clients, ClientState
  <2> HIDE DEF x1
  <2>5. x2 \in Clients(Tokens) /\ x2.st = "ended" /\ x2.conn = y.conn
    BY <2>4 DEF Clients
  <2> HIDE DEF x2
  <2>6. x3 \in Clients(Tokens) /\ x3.st = "ended" /\ x3.conn = y.conn /\ x3.then = ""
    BY <2>5 DEF Clients, Continuations
  <2> HIDE DEF x3
  <2> QED  BY <2>2, <2>3, <2>6
<1>8. /\ delegates' \in [Conns -> Delegates] /\ shown' \in [Conns -> Shown]
      /\ \A c \in Conns : /\ delegates'[c].client = NoClient /\ delegates'[c].subs = {}
                          /\ c \in Range(order) => delegates'[c].made
  <2>1. /\ delegates' \in [Conns -> Delegates]
        /\ \A c \in Conns : delegates'[c] = IF c \in Range(order) THEN NewDelegate
                                            ELSE NoDelegate
    BY <1>3, LoadedDelegates
  <2>2. \A c \in Conns : /\ delegates'[c].client = NoClient /\ delegates'[c].subs = {}
                         /\ c \in Range(order) => delegates'[c].made
    BY <2>1, LoadedDelegates
  <2>3. shown' \in [Conns -> Shown]
    <3>1. ASSUME NEW c \in Conns
          PROVE  [NothingShown EXCEPT !.there = c \in Range(order)] \in Shown
      <4>1. [NothingShown EXCEPT !.there = TRUE] \in Shown
        BY LoadedDelegates
      <4>2. [NothingShown EXCEPT !.there = FALSE] \in Shown
        BY LoadedDelegates
      <4>3. CASE c \in Range(order)
        <5>1. (c \in Range(order)) = TRUE
          BY <4>3
        <5> QED  BY <4>1, <5>1
      <4>4. CASE c \notin Range(order)
        <5>1. (c \in Range(order)) = FALSE
          BY <4>4
        <5> QED  BY <4>2, <5>1
      <4> QED  BY <4>3, <4>4
    <3> QED  BY <1>3, <3>1
  <2> QED  BY <2>1, <2>2, <2>3
<1>9. clients' \in [ClientIds -> Clients(Tokens)]
  <2>1. clients' = [k \in ClientIds |-> clients'[k]]
    BY <1>3
  <2> QED  BY <1>7, <2>1
<1>10. PICK w : w = World'
  OBVIOUS
<1>11. /\ w \in Worlds /\ w.clients = clients' /\ w.delegates = delegates'
       /\ w.connecting = connecting'
  BY <1>2, <1>8, <1>9, <1>10 DEF World, Worlds
<1>12. Good(w, Range(order), made) /\ Room(w)
  <2>1. /\ ~w.connecting /\ Range(order) \in SUBSET Conns
    BY <1>1, <1>2, <1>11
  <2>2. \A k \in ClientIds :
           /\ w.clients[k].then = ""
           /\ w.clients[k].st = "unused" \/ (w.clients[k].st = "ended" /\ w.clients[k].conn \in made)
           /\ w.clients[k].st = "unused" => ~w.clients[k].ending
    BY <1>7, <1>11
  <2>3. \A c \in Conns : /\ w.delegates[c].client = NoClient /\ w.delegates[c].subs = {}
                         /\ c \in Range(order) => w.delegates[c].made
    BY <1>8, <1>11
  <2> QED  BY <1>11, <2>1, <2>2, <2>3, LoadedGood
<1>13. WorldInv'
  BY <1>2, <1>10, <1>12 DEF WorldInv
<1>14. Promised
  BY <1>2, <1>8 DEF Promised, Listed
<1> QED  BY <1>4, <1>5, <1>6, <1>13, <1>14 DEF ConsoleInv

\* The page is loaded for the first time.
LEMMA InitFine == Init => ConsoleInv
<1> SUFFICES ASSUME Init PROVE ConsoleInv
  OBVIOUS
<1>1. /\ clients = [k \in ClientIds |->
           [st |-> "unused", conn |-> CHOOSE c \in Conns : TRUE, ending |-> FALSE,
            then |-> "", token |-> 0, next |-> 0, answered |-> {}]]
      /\ delegates = [c \in Conns |-> IF c \in Range(Stored) THEN NewDelegate ELSE NoDelegate]
      /\ shown = [c \in Conns |-> IF c \in Range(Stored)
                                  THEN [NothingShown EXCEPT !.there = TRUE] ELSE NothingShown]
      /\ connecting = FALSE
  BY DEF Init, DelegateInit
<1>2. /\ order = Stored /\ made = Range(Stored)
      /\ config = [c \in Conns |-> IF c \in OfThing
                 THEN [NoConfig EXCEPT !.thing = TRUE, !.list = Suggested, !.keep = Suggested]
                 ELSE NoConfig]
      /\ saved = [order |-> order, config |-> config]
      /\ current = FirstOf(Stored)
      /\ dialog = NoDialog /\ loading = FALSE /\ thingView = FALSE
      /\ ccbt = 0 /\ tokens = 0 /\ pending = {}
  BY DEF Init
<1>3. Stored \in Seq(Conns) /\ IsInjective(Stored) /\ Range(Stored) \subseteq Conns
  BY StoredAssumption DEF Range
<1>4. config \in [Conns -> Configs] /\ ThingsKept(config)
  <2> DEFINE a1 == [NoConfig EXCEPT !.thing = TRUE]
             a2 == [a1 EXCEPT !.list = Suggested]
             a3 == [a2 EXCEPT !.keep = Suggested]
  <2>1. NoConfig \in Configs /\ ~NoConfig.thing
    BY BoundsAssumption DEF NoConfig, Configs
  <2>2. a1 \in Configs
    BY <2>1 DEF Configs
  <2> HIDE DEF a1
  <2>3. a2 \in Configs /\ a2.list = Suggested
    BY <2>2, SetsAssumption DEF Configs
  <2> HIDE DEF a2
  <2>4. a3 \in Configs /\ a3.list = Suggested /\ a3.keep = Suggested
    BY <2>3, SetsAssumption DEF Configs
  <2>5. config = [c \in Conns |-> IF c \in OfThing THEN a3 ELSE NoConfig]
    BY <1>2 DEF a1, a2
  <2> HIDE DEF a3
  <2> QED  BY <2>1, <2>4, <2>5 DEF ThingsKept
<1>5. ListInv
  <2>1. current \in made \cup {NoConn}
    BY <1>2, <1>3, FirstOfIs
  <2>2. saved.order = order /\ saved.config = config
    BY <1>2
  <2>3. StorageFollows
    BY <2>2 DEF StorageFollows
  <2> QED  BY <1>2, <1>3, <1>4, <2>1, <2>2, <2>3 DEF ListInv
<1>6. FormInv
  BY <1>2, NoDialogType, ZeroToken DEF FormInv, NoDialog
<1>7. PendingInv
  BY <1>2 DEF PendingInv
<1>8. clients \in [ClientIds -> Clients(Tokens)]
  <2>1. (CHOOSE c \in Conns : TRUE) \in Conns
    BY ConnsAssumption
  <2>2. [st |-> "unused", conn |-> CHOOSE c \in Conns : TRUE, ending |-> FALSE,
         then |-> "", token |-> 0, next |-> 0, answered |-> {}] \in Clients(Tokens)
    <3> DEFINE a == CHOOSE c \in Conns : TRUE
    <3>1. a \in Conns
      BY <2>1
    <3> HIDE DEF a
    <3>2. [st |-> "unused", conn |-> a, ending |-> FALSE,
           then |-> "", token |-> 0, next |-> 0, answered |-> {}] \in Clients(Tokens)
      BY <3>1, ZeroToken DEF Clients, ClientState, Continuations
    <3> QED  BY <3>2 DEF a
  <2> QED  BY <1>1, <2>2
<1>9. World \in Worlds
  <2>1. delegates \in [Conns -> Delegates] /\ shown \in [Conns -> Shown]
    BY <1>1, LoadedDelegates
  <2> QED  BY <1>1, <1>8, <2>1 DEF World, Worlds
<1>10. Good(World, Range(Stored), made) /\ Room(World)
  <2>1. \A k \in ClientIds : World.clients[k].then = "" /\ World.clients[k].st = "unused"
                             /\ ~World.clients[k].ending
    <3> DEFINE a == CHOOSE c \in Conns : TRUE
    <3>1. clients = [k \in ClientIds |-> [st |-> "unused", conn |-> a, ending |-> FALSE,
                      then |-> "", token |-> 0, next |-> 0, answered |-> {}]]
      BY <1>1
    <3> HIDE DEF a
    <3>2. \A k \in ClientIds : clients[k].then = "" /\ clients[k].st = "unused" /\ ~clients[k].ending
      BY <3>1
    <3> QED  BY <3>2, WorldIs
  <2>2. \A c \in Conns : /\ World.delegates[c].client = NoClient /\ World.delegates[c].subs = {}
                         /\ c \in Range(Stored) => World.delegates[c].made
    <3>1. \A c \in Conns : delegates[c] = IF c \in Range(Stored) THEN NewDelegate ELSE NoDelegate
      BY <1>1
    <3> QED  BY <3>1, WorldIs, LoadedDelegates
  <2>3. ~World.connecting
    BY <1>1, WorldIs
  <2> QED  BY <1>3, <1>9, <2>1, <2>2, <2>3, LoadedGood
<1>11. WorldInv
  BY <1>2, <1>10 DEF WorldInv
<1> QED  BY <1>5, <1>6, <1>7, <1>11 DEF ConsoleInv

(***************************************************************************)
(* The steps together.                                                     *)
(***************************************************************************)
LEMMA StutterKeeps ==
  ASSUME ConsoleInv, UNCHANGED vars PROVE ConsoleInv' /\ Promised
<1>1. /\ UNCHANGED <<delegateVars, order, made, config, saved, current>>
      /\ UNCHANGED <<dialog, loading, thingView, ccbt, tokens>> /\ pending' = pending
  BY DEF vars, consoleVars
<1>2. FormInv'
  BY <1>1, FormSame DEF ConsoleInv
<1> QED  BY <1>1, <1>2, FormStep

\* Every step of a user, and every step of the network.
LEMMA UserStepKeeps ==
  ASSUME ConsoleInv, UserStep PROVE ConsoleInv' /\ Promised
<1>1. CASE \/ ShowCreateForm \/ ShowCreateFormOfThing \/ ShowEditForm \/ HideForm
           \/ SwitchView
  BY <1>1, FormsKeep
<1>2. CASE CreateDone
  BY <1>2, CreateDoneKeeps
<1>3. CASE EditDone
  BY <1>3, EditDoneKeeps
<1>4. CASE EditDoneRemoved
  BY <1>4, EditDoneRemovedKeeps
<1>5. CASE PanelConnect
  BY <1>5, PanelConnectKeeps
<1>6. CASE RemoveCurrent \/ ThingDeleted
  BY <1>6, RemovalsKeep
<1>7. CASE ShowSubsForm
  BY <1>7, ShowSubsFormKeeps
<1>8. CASE ClearMessages
  BY <1>8, ClearMessagesKeeps
<1>9. CASE Reload
  BY <1>9, ReloadKeeps
<1>10. ASSUME NEW c \in Conns, Select(c) PROVE ConsoleInv' /\ Promised
  BY <1>10, SelectKeeps
<1>11. ASSUME NEW c \in Conns, ThingConnect(c) PROVE ConsoleInv' /\ Promised
  BY <1>11, ThingConnectKeeps
<1>12. ASSUME NEW c \in Conns, Disconn(c) PROVE ConsoleInv' /\ Promised
  BY <1>12, DisconnKeeps
<1>13. ASSUME NEW c \in Conns, SubscribeAll(c) \/ UnsubscribeAll(c) \/ Publish(c)
       PROVE  ConsoleInv' /\ Promised
  BY <1>13, SubscribeAllKeeps
<1>14. ASSUME NEW t \in Topics, Subscribe(t) \/ Unsubscribe(t) \/ AddSubscription(t)
       PROVE  ConsoleInv' /\ Promised
  BY <1>14, SubscribeKeeps
<1>15. ASSUME NEW t \in Topics, DeleteSubscription(t) PROVE ConsoleInv' /\ Promised
  BY <1>15, DeleteSubscriptionKeeps
<1>16. ASSUME NEW t \in Topics, EditSubscription(t) PROVE ConsoleInv' /\ Promised
  BY <1>16, EditSubscriptionKeeps
<1> QED  BY <1>1, <1>2, <1>3, <1>4, <1>5, <1>6, <1>7, <1>8, <1>9, <1>10, <1>11, <1>12,
            <1>13, <1>14, <1>15, <1>16 DEF UserStep

\* ... and every event of a client or answer of the broker.
LEMMA NetStepKeeps ==
  ASSUME ConsoleInv, NetStep PROVE ConsoleInv' /\ Promised
<1>1. ASSUME NEW k \in ClientIds, ClientStep(k) PROVE ConsoleInv' /\ Promised
  <2>1. CASE ClientReceives(k)
    BY <2>1, ReceivesKeeps
  <2>2. CASE ClientConnects(k)
    BY <2>2, ConnectsKeeps
  <2>3. CASE ClientFails(k) \/ ClientReconnects(k) \/ ClientClosesLate(k)
    BY <2>3, ClientEventsKeep
  <2>4. CASE ClientCloses(k)
    BY <2>4, ClosesKeeps
  <2>5. CASE ClientEnds(k)
    BY <2>5, EndsKeeps
  <2> QED  BY <1>1, <2>1, <2>2, <2>3, <2>4, <2>5 DEF ClientStep
<1>2. ASSUME NEW r \in pending, Answer(r) PROVE ConsoleInv' /\ Promised
  <2>1. ASSUME NEW granted \in BOOLEAN, SubAnswer(r, granted) PROVE ConsoleInv' /\ Promised
    BY <2>1, SubAnswerKeeps
  <2>2. CASE UnsubAnswer(r)
    BY <2>2, UnsubAnswerKeeps
  <2>3. CASE PubAnswer(r)
    BY <2>3, PubAnswerKeeps
  <2> QED  BY <1>2, <2>1, <2>2, <2>3 DEF Answer
<1> QED  BY <1>1, <1>2 DEF NetStep

\* Every step keeps the invariant and what is promised of it.
LEMMA StepKeeps ==
  ASSUME ConsoleInv, [Next]_vars PROVE ConsoleInv' /\ Promised
<1>1. CASE UserStep
  BY <1>1, UserStepKeeps
<1>2. CASE NetStep
  BY <1>2, NetStepKeeps
<1>3. CASE UNCHANGED vars
  BY <1>3, StutterKeeps
<1> QED  BY <1>1, <1>2, <1>3 DEF Next

(***************************************************************************)
(* The theorems.                                                           *)
(***************************************************************************)
\* The inductive invariant holds in every reachable state.
LEMMA ConsoleInvariant == Spec => []ConsoleInv
<1>1. Init => ConsoleInv
  BY InitFine
<1>2. ConsoleInv /\ [Next]_vars => ConsoleInv'
  BY StepKeeps
<1> QED  BY <1>1, <1>2, PTL DEF Spec

\* The variables keep their types; among others, the list names a connection
\* at most once, although late answers and the forms write to it (useMqtt.js).
THEOREM ConsoleTypes == Spec => []TypeOK
<1>1. ConsoleInv => TypeOK
  BY DelegatesType DEF ConsoleInv, ListInv, FormInv, PendingInv, TypeOK
<1> QED  BY <1>1, ConsoleInvariant, PTL

\* Local storage holds the list that is shown: a reload loses no connection
\* and brings none back (store/mqtt.ts updateConnConfigs).
THEOREM StorageIsCurrent == Spec => []StorageFollows
<1>1. ConsoleInv => StorageFollows
  BY DEF ConsoleInv, ListInv
<1> QED  BY <1>1, ConsoleInvariant, PTL

\* No edit, delete or late answer takes a suggested topic from a connection of
\* the thing, on the screen or in storage (useMqtt.js subscribe, publish).
THEOREM SuggestedAreKept == Spec => []KeepListed
<1>1. ConsoleInv => KeepListed
  BY DEF ConsoleInv, ListInv, ThingsKept, KeepListed
<1> QED  BY <1>1, ConsoleInvariant, PTL

\* Whenever the overlay is up some client attempts to connect, although one
\* flag serves all delegates (store/mqtt.ts, MqttDelegate.js onreconnect).
THEOREM OverlayHasCause == Spec => []ConnectingHasCause
<1>1. ConsoleInv => ConnectingHasCause
  BY WorldIs DEF ConsoleInv, WorldInv, Good, HasCause, ConnectingHasCause
<1> QED  BY <1>1, ConsoleInvariant, PTL

\* No step lists a connection again that was removed, a late answer or the
\* form that was still open on it included (useMqtt.js setConnConfig).
THEOREM RemovedNeverReturns == Spec => RemovedStaysRemoved
<1>1. ConsoleInv /\ [Next]_vars => [\A c \in made : ~Listed(c) => ~Listed(c)']_vars
  BY StepKeeps DEF Promised
<1> QED  BY <1>1, ConsoleInvariant, PTL DEF Spec, RemovedStaysRemoved

\* A step that replaces the client of a connection leaves it without
\* subscribed topics (MqttDelegate.js disconnect, connect).
THEOREM NewClientsStartEmpty == Spec => NoInheritedSubs
<1>1. ConsoleInv /\ [Next]_vars =>
        [\A c \in Conns : delegates'[c].client # delegates[c].client =>
                            delegates'[c].subs = {}]_vars
  BY StepKeeps DEF Promised
<1> QED  BY <1>1, ConsoleInvariant, PTL DEF Spec, NoInheritedSubs
=============================================================================
