---------------------------- MODULE MqttDelegate ----------------------------
(***************************************************************************)
(* The MQTT side of the web console: one delegate per configured           *)
(* connection (web/src/utils/MqttDelegate.js), the mqtt.js client objects  *)
(* it makes (external), and the part of the vuex store that mirrors the    *)
(* delegates (web/src/store/mqtt.ts).                                      *)
(*                                                                         *)
(* JavaScript runs one callback at a time, so a step is one callback or    *)
(* one click with everything it calls.  A callback is often a chain of     *)
(* calls that each change the state; the chain is written as operators     *)
(* that map a "world" (the record of the four variables below) to the next *)
(* one, and a step ends in Become(w).                                      *)
(***************************************************************************)
EXTENDS Naturals, FiniteSets

CONSTANTS
  Conns,       \* connection ids that may ever be generated
  Topics,      \* topics that can be subscribed
  MaxClients,  \* bound: mqtt.js clients made in a behaviour
  RetryLimit   \* onreconnect's limit of retries, 3 in the code

ASSUME DelegateBoundsAssumption == MaxClients \in Nat /\ RetryLimit \in Nat

ClientIds == 1 .. MaxClients
NoClient == 0

VARIABLES
  clients,     \* mqtt.js client objects
  delegates,   \* delegateSharedStates of MqttDelegate.js
  shown,       \* store.state.mqtt.delegateSharedStates: what the views see
  connecting   \* store.state.mqtt.connecting: the overlay, and a guard

delegateVars == <<clients, delegates, shown, connecting>>

\* What disconnect's caller passed as callback; "" where there is none.
Continuations == {"", "update", "connect", "destroy"}

\* A client object.  ending: end() was called; then: what its callback does;
\* token: the connectedToken of the connect handler; next: the token of the
\* connect that waits in the callback; answered: the topics the broker has
\* answered a subscription of this client for; the client renews them after
\* a reconnect (resubscribe is on).
ClientState == {"unused", "connecting", "connected", "offline", "closing", "ended"}
Clients(Tokens) ==
  [st: ClientState, conn: Conns, ending: BOOLEAN, then: Continuations,
   token: Tokens, next: Tokens, answered: SUBSET Topics]

Delegates ==
  [made: BOOLEAN, client: {NoClient} \cup ClientIds,
   retryTimes: 0 .. RetryLimit, subs: SUBSET Topics]

Shown == [there: BOOLEAN, client: {NoClient} \cup ClientIds, subs: SUBSET Topics]

NewDelegate == [made |-> TRUE, client |-> NoClient, retryTimes |-> 0, subs |-> {}]
NoDelegate == [NewDelegate EXCEPT !.made = FALSE]
NothingShown == [there |-> FALSE, client |-> NoClient, subs |-> {}]

World == [clients |-> clients, delegates |-> delegates,
          shown |-> shown, connecting |-> connecting]
Become(w) == /\ clients' = w.clients
             /\ delegates' = w.delegates
             /\ shown' = w.shown
             /\ connecting' = w.connecting

(***************************************************************************)
(* The getters.                                                            *)
(***************************************************************************)

\* client.connected of mqtt.js stays true until the stream is closed, so it
\* is still true while an end() is under way.
Online(w, k) == k # NoClient /\ w.clients[k].st = "connected"

IsConnected(w, c) == Online(w, w.delegates[c].client)

\* What the buttons test: the client object the store last got.
ShownConnected(w, c) == Online(w, w.shown[c].client)

Free(w) == {k \in ClientIds : w.clients[k].st = "unused"}

(***************************************************************************)
(* store/mqtt.ts, updateDelegateStates: whichever delegate reports, the    *)
(* global connecting flag is cleared.                                      *)
(***************************************************************************)
\* Mutant: the flag stays.
UpdateStoreKeepsFlag(w, c) ==
  LET k == w.delegates[c].client IN
  [w EXCEPT !.shown[c] = [there |-> TRUE, client |-> k,
                          subs |-> IF k = NoClient THEN {} ELSE w.delegates[c].subs]]

UpdateStore(w, c) ==
  LET k == w.delegates[c].client IN
  [w EXCEPT !.shown[c] = [there |-> TRUE, client |-> k,
                          subs |-> IF k = NoClient THEN {} ELSE w.delegates[c].subs],
            !.connecting = FALSE]

ForgetStore(w, c) == [w EXCEPT !.shown[c] = NothingShown, !.connecting = FALSE]

\* getDelegateById with a config: the delegate, made when there is none.
GetDelegate(w, c) ==
  IF w.delegates[c].made THEN w ELSE [w EXCEPT !.delegates[c] = NewDelegate]

(***************************************************************************)
(* connect, disconnect, destroy                                            *)
(***************************************************************************)

\* The body of connect's callback: the new client replaces the old one.
CreateClient(w, c, token) ==
  LET k == CHOOSE i \in Free(w) : \A j \in Free(w) : i <= j IN
  [w EXCEPT !.clients[k] = [@ EXCEPT !.st = "connecting", !.conn = c, !.token = token],
            !.delegates[c].client = k,
            !.delegates[c].retryTimes = 0,
            !.connecting = TRUE]

Callback(w, c, then, token) ==
  CASE then = "connect" -> CreateClient(w, c, token)
    [] then = "destroy" -> [w EXCEPT !.delegates[c].made = FALSE]
    [] then = "update"  -> UpdateStore(w, c)

\* Mutant: the subscriptions stay.
AfterEndKeepsSubs(w, c, then, token) ==
  Callback([w EXCEPT !.delegates[c].retryTimes = 0], c, then, token)

\* What disconnect runs once the client has ended.
AfterEnd(w, c, then, token) ==
  Callback([w EXCEPT !.delegates[c].retryTimes = 0, !.delegates[c].subs = {}],
           c, then, token)

\* disconnect(cb).  end() of a client that is already ending calls back at
\* once; otherwise the callback waits for the client to end.
Disconnect(w, c, then, token) ==
  LET k == w.delegates[c].client IN
  IF k = NoClient
  THEN IF then = "update" THEN w ELSE Callback(w, c, then, token)
  ELSE IF w.clients[k].ending
  THEN AfterEnd(w, c, then, token)
  ELSE [w EXCEPT !.clients[k].ending = TRUE, !.clients[k].then = then,
                 !.clients[k].next = token]

Connect(w, c, token) == Disconnect(w, c, "connect", token)
Cancel(w, c) == Disconnect(w, c, "update", 0)
Destroy(w, c) == Disconnect(w, c, "destroy", 0)

\* Bound: a connect starts only if a client object is left for it and for
\* those that wait for an end.
RoomForClient(w) ==
  Cardinality(Free(w)) > Cardinality({k \in ClientIds : w.clients[k].then = "connect"
                                                     /\ w.clients[k].st # "ended"})

(***************************************************************************)
(* The events of a client.  Each is one callback of mqtt.js.               *)
(***************************************************************************)
Trying(k) == clients[k].st = "connecting" /\ ~clients[k].ending

\* onconnect; the caller adds the event TSCE_MQTT, which carries the token.
\* The token is dropped after the first connect.
OnConnect(k) ==
  UpdateStore([World EXCEPT !.clients[k].st = "connected", !.clients[k].token = 0],
              clients[k].conn)

\* An attempt fails, or the stream is lost: onerror and onclose.
OnClose(k) == UpdateStore([World EXCEPT !.clients[k].st = "offline"], clients[k].conn)

\* Mutant: no limit.
OnReconnectUnbounded(k) ==
  [World EXCEPT !.clients[k].st = "connecting",
                !.delegates[clients[k].conn].retryTimes = @ + 1,
                !.connecting = TRUE]

\* Mutant: a retry is not counted.
OnReconnectUncounted(k) ==
  LET c == clients[k].conn IN
  IF delegates[c].retryTimes < RetryLimit
  THEN [World EXCEPT !.clients[k].st = "connecting", !.connecting = TRUE]
  ELSE Cancel(World, c)

\* The timer of mqtt.js fires: reconnect is emitted before the attempt.  When
\* the retries are used up the delegate ends its present client, which is not
\* the one that fires if another connect has replaced it.
OnReconnect(k) ==
  LET c == clients[k].conn IN
  IF delegates[c].retryTimes < RetryLimit
  THEN [World EXCEPT !.clients[k].st = "connecting",
                     !.delegates[c].retryTimes = @ + 1,
                     !.connecting = TRUE]
  ELSE Cancel([World EXCEPT !.clients[k].st =
                 IF delegates[c].client = k THEN @ ELSE "connecting"], c)

\* The stream of an attempt that was cut short closes later.
Over(k) ==
  [clients[k] EXCEPT !.st = IF clients[k].st = "connecting" THEN "closing" ELSE "ended",
                     !.then = "", !.next = 0, !.token = 0, !.answered = {}]

\* The client has ended: onend, then the callback of the end().
OnEnd(k) ==
  LET c == clients[k].conn
  IN  AfterEnd(UpdateStore([World EXCEPT !.clients[k] = Over(k)], c), c,
               clients[k].then, clients[k].next)

OnLateClose(k) == UpdateStore([World EXCEPT !.clients[k].st = "ended"], clients[k].conn)

(***************************************************************************)
(* The answers to subscribe and unsubscribe.                               *)
(***************************************************************************)

\* onsub and onsubmap: the topics become subscribed and are shown so.
Subscribed(w, c, topics) ==
  UpdateStore([w EXCEPT !.delegates[c].subs = @ \cup topics], c)

Unsubscribed(w, c, topics) ==
  UpdateStore([w EXCEPT !.delegates[c].subs = @ \ topics], c)

\* removeTopic, of the connection the panel shows.
RemoveTopic(w, c, t) ==
  IF w.delegates[c].made THEN UpdateStore([w EXCEPT !.delegates[c].subs = @ \ {t}], c)
  ELSE w

DelegateInit(C) ==
  /\ clients = [k \in ClientIds |->
       [st |-> "unused", conn |-> CHOOSE c \in Conns : TRUE, ending |-> FALSE,
        then |-> "", token |-> 0, next |-> 0, answered |-> {}]]
  /\ delegates = [c \in Conns |-> IF c \in C THEN NewDelegate ELSE NoDelegate]
  /\ shown = [c \in Conns |-> IF c \in C THEN [NothingShown EXCEPT !.there = TRUE]
                              ELSE NothingShown]
  /\ connecting = FALSE
=============================================================================
