---------------------------- MODULE MqttConsole -----------------------------
(***************************************************************************)
(* The multiple-client MQTT tool of the web console: the list of           *)
(* connections kept in local storage, the forms and buttons that work on   *)
(* it (useMqtt.js, useLayout.js, MqttClients.vue, MqttClientsOfThing.vue,  *)
(* MqttConnForm.vue, Subcriptions.vue, SubscriptionForm.vue, ...), and the *)
(* requests in flight.  It drives the delegates of MqttDelegate.           *)
(*                                                                         *)
(* One thing is looked at; a connection belongs to it or to a server.  A   *)
(* dialog is modal, so while it is open only its own buttons and the       *)
(* network act; the overlay of the tool panel blocks the panel, and only   *)
(* the panel, while `connecting` is set.                                   *)
(***************************************************************************)
EXTENDS MqttDelegate, SequencesExt

CONSTANTS
  NoConn,      \* no connection
  Stored,      \* connections restored from local storage, a sequence
  OfThing,     \* those that belong to the thing
  Suggested,   \* the suggested topics of the thing
  MaxTokens,   \* bound: tokens generated
  MaxEdits,    \* bound: edits of connections
  MaxPending   \* bound: requests in flight

ASSUME ConnsAssumption == Conns # {} /\ NoConn \notin Conns
ASSUME StoredAssumption == Stored \in Seq(Conns) /\ IsInjective(Stored)
ASSUME SetsAssumption == OfThing \subseteq Conns /\ Suggested \subseteq Topics
ASSUME BoundsAssumption == {MaxTokens, MaxEdits, MaxPending} \subseteq Nat

VARIABLES
  order,       \* store.state.mqtt.connectionConfigs, the ids in their order
  made,        \* connection ids generated so far
  config,      \* what the config objects hold
  saved,       \* local storage
  current,     \* store.state.mqtt.currentConnId
  dialog,      \* the open form
  loading,     \* Subcriptions.vue: the overlay of the list
  thingView,   \* the page of the thing is shown
  ccbt,        \* MqttClientsOfThing.vue: the token its listener waits for
  tokens,      \* tokens generated so far
  pending      \* requests a client has sent and the broker has not answered

consoleVars == <<order, made, config, saved, current, dialog, loading,
                 thingView, ccbt, tokens, pending>>
vars == <<delegateVars, consoleVars>>

Tokens == 0 .. MaxTokens
Listed(c) == c \in Range(order)

\* A config object: the role, the subscriptions it lists (keep: the suggested
\* ones) and which edit made it.
Configs == [thing: BOOLEAN, list: SUBSET Topics, keep: SUBSET Topics, edit: 0 .. MaxEdits]

NoConfig == [thing |-> FALSE, list |-> {}, keep |-> {}, edit |-> 0]

Requests ==
  [kind: {"sub", "submap", "unsub", "pub"}, client: ClientIds, conn: Conns,
   topics: SUBSET Topics, confs: SUBSET Topics, config: Configs, spin: BOOLEAN]

Dialogs ==
  [kind: {"none", "create", "edit", "addSub", "editSub"}, conn: Conns \cup {NoConn},
   thing: BOOLEAN, token: Tokens, topic: Topics \cup {NoConn}]
NoDialog == [kind |-> "none", conn |-> NoConn, thing |-> FALSE, token |-> 0, topic |-> NoConn]

TypeOK ==
  /\ clients \in [ClientIds -> Clients(Tokens)]
  /\ delegates \in [Conns -> Delegates]
  /\ shown \in [Conns -> Shown]
  /\ connecting \in BOOLEAN
  /\ order \in Seq(Conns) /\ IsInjective(order)
  /\ made \in SUBSET Conns
  /\ config \in [Conns -> Configs]
  /\ saved.order \in Seq(Conns) /\ saved.config \in [Conns -> Configs]
  /\ current \in Conns \cup {NoConn}
  /\ dialog \in Dialogs
  /\ loading \in BOOLEAN /\ thingView \in BOOLEAN
  /\ ccbt \in Tokens /\ tokens \in Tokens
  /\ pending \in SUBSET Requests

Idle == dialog.kind = "none"
PanelFree == Idle /\ ~connecting

\* Mutant: local storage is not written.
SetConfigsUnsaved(o, f) == order' = o /\ config' = f /\ UNCHANGED saved

\* updateConnConfigs: the list in the store and in local storage.
SetConfigs(o, f) == /\ order' = o
                    /\ config' = f
                    /\ saved' = [order |-> o, config |-> f]

(***************************************************************************)
(* useMqtt.js                                                              *)
(***************************************************************************)

\* Mutant: a config that is not found is added again.
SetConnConfigAppends(c, conf) ==
  SetConfigs(IF Listed(c) THEN order ELSE Append(order, c), [config EXCEPT ![c] = conf])

\* setConnConfig(id, config) for an id that was generated.  An id that is no
\* longer in the list has index -1, which the list does not keep: what it holds
\* is stored all the same.
SetConnConfig(c, conf) ==
  SetConfigs(order, IF Listed(c) THEN [config EXCEPT ![c] = conf] ELSE config)

SelectConnection(w, c) == UpdateStore(GetDelegate(w, c), c)

\* removeConnection(id) in a state s of the world, the list and the selection:
\* the first of the others is selected, and the store forgets the connection
\* before its client has ended.  An id that is not in the list has index -1,
\* and splice(-1, 1) takes out the last one instead.
FirstOf(q) == IF q = <<>> THEN NoConn ELSE Head(q)

IndexOf(q, c) == IF c \in Range(q) THEN CHOOSE i \in DOMAIN q : q[i] = c ELSE Len(q)

Without(q, c) == IF q = <<>> THEN q ELSE RemoveAt(q, IndexOf(q, c))

RemoveConnection(s, c) ==
  LET rest == Without(s.order, c)
      w1 == IF rest = <<>> THEN s.world ELSE SelectConnection(s.world, Head(rest))
      w2 == ForgetStore(w1, c)
  IN  [world |-> IF w2.delegates[c].made THEN Destroy(w2, c) ELSE w2,
       order |-> rest, current |-> FirstOf(rest)]

\* The object a late answer writes back is the one its request was made with:
\* the subscriptions of a server's connection are one array over all edits,
\* those of a thing's connection are replaced by an edit.
Captured(r) ==
  IF r.config.edit = config[r.conn].edit \/ ~r.config.thing
  THEN [r.config EXCEPT !.list = config[r.conn].list, !.keep = config[r.conn].keep]
  ELSE r.config

(***************************************************************************)
(* Connections: the tool panel and the page of the thing.                  *)
(***************************************************************************)
ShowCreateForm ==
  /\ PanelFree
  /\ dialog' = [NoDialog EXCEPT !.kind = "create"]
  /\ UNCHANGED <<delegateVars, order, made, config, saved, current, loading,
                 thingView, ccbt, tokens, pending>>

\* Only a thing without connection offers the button.
ShowCreateFormOfThing ==
  /\ Idle /\ thingView /\ tokens < MaxTokens
  /\ \A c \in Range(order) : ~config[c].thing
  /\ tokens' = tokens + 1
  /\ ccbt' = tokens'
  /\ dialog' = [NoDialog EXCEPT !.kind = "create", !.thing = TRUE, !.token = tokens']
  /\ UNCHANGED <<delegateVars, order, made, config, saved, current, loading,
                 thingView, pending>>

ShowEditForm ==
  /\ PanelFree /\ current # NoConn
  /\ ~ShownConnected(World, current)
  /\ dialog' = [NoDialog EXCEPT !.kind = "edit", !.conn = current]
  /\ UNCHANGED <<delegateVars, order, made, config, saved, current, loading,
                 thingView, ccbt, tokens, pending>>

HideForm ==
  /\ ~Idle
  /\ dialog' = NoDialog
  /\ UNCHANGED <<delegateVars, order, made, config, saved, current, loading,
                 thingView, ccbt, tokens, pending>>

\* handleCreateOrEditDone tests the ref isForCreate and not its value, so an
\* edit takes the branch of a create: a thing's connection gets the suggested
\* subscriptions.  Selecting clears the connecting flag, so the connect that
\* follows is never turned away.
Done(c, conf, token) ==
  LET conf1 == IF conf.thing
               THEN [conf EXCEPT !.list = Suggested, !.keep = Suggested]
               ELSE conf
  IN  /\ SetConfigs(IF Listed(c) THEN order ELSE Append(order, c),
                    [config EXCEPT ![c] = conf1])
      /\ current' = c
      /\ dialog' = NoDialog
      /\ RoomForClient(World)
      /\ Become(Connect(SelectConnection(World, c), c, token))

\* handleConnect of MqttConnForm.vue for a new connection.
CreateDone ==
  /\ dialog.kind = "create"
  /\ \E c \in Conns \ made, th \in {dialog.thing, TRUE} :
       /\ made' = made \cup {c}
       /\ Done(c, [NoConfig EXCEPT !.thing = th], dialog.token)
  /\ UNCHANGED <<loading, thingView, ccbt, tokens, pending>>

\* ... and for an existing one.
EditDone ==
  /\ dialog.kind = "edit" /\ Listed(dialog.conn)
  /\ config[dialog.conn].edit < MaxEdits
  /\ Done(dialog.conn, [config[dialog.conn] EXCEPT !.edit = @ + 1], dialog.token)
  /\ UNCHANGED <<made, loading, thingView, ccbt, tokens, pending>>

\* Mutant: the removed connection is stored again.
EditDoneRemovedStores ==
  /\ dialog.kind = "edit" /\ ~Listed(dialog.conn)
  /\ Become(SelectConnection(World, dialog.conn))
  /\ SetConfigs(Append(order, dialog.conn), config)
  /\ current' = dialog.conn
  /\ dialog' = NoDialog
  /\ UNCHANGED <<made, loading, thingView, ccbt, tokens, pending>>

\* The connection was removed while its form was open: it is selected, the list
\* is stored without it, and connect fails on the config that is not found.
EditDoneRemoved ==
  /\ dialog.kind = "edit" /\ ~Listed(dialog.conn)
  /\ Become(SelectConnection(World, dialog.conn))
  /\ SetConnConfig(dialog.conn, config[dialog.conn])
  /\ current' = dialog.conn
  /\ dialog' = NoDialog
  /\ UNCHANGED <<made, loading, thingView, ccbt, tokens, pending>>

Select(c) ==
  /\ Listed(c)
  /\ PanelFree \/ (Idle /\ thingView /\ config[c].thing)
  /\ Become(SelectConnection(World, c))
  /\ current' = c
  /\ UNCHANGED <<order, made, config, saved, dialog, loading, thingView, ccbt,
                 tokens, pending>>

PanelConnect ==
  /\ PanelFree /\ current # NoConn /\ Listed(current)
  /\ ~ShownConnected(World, current)
  /\ RoomForClient(World)
  /\ Become(Connect(GetDelegate(World, current), current, 0))
  /\ UNCHANGED consoleVars

\* "Connect and Subscribe".  The token is set even if connect is turned away.
ThingConnect(c) ==
  /\ Idle /\ thingView /\ Listed(c) /\ config[c].thing
  /\ ~ShownConnected(World, c)
  /\ tokens < MaxTokens /\ RoomForClient(World)
  /\ tokens' = tokens + 1
  /\ ccbt' = tokens'
  /\ IF connecting THEN UNCHANGED delegateVars
     ELSE Become(Connect(GetDelegate(World, c), c, tokens'))
  /\ UNCHANGED <<order, made, config, saved, current, dialog, loading, thingView, pending>>

\* Disconnect, in the panel or on the page of the thing.
Disconn(c) ==
  /\ Listed(c) /\ ~connecting /\ Idle
  /\ c = current \/ (thingView /\ config[c].thing)
  /\ ShownConnected(World, c)
  /\ Become(Cancel(GetDelegate(World, c), c))
  /\ UNCHANGED consoleVars

Present == [world |-> World, order |-> order, current |-> current]

Removed(s) ==
  /\ Become(s.world)
  /\ SetConfigs(s.order, [c \in Conns |-> IF c \in Range(s.order) THEN config[c]
                                         ELSE NoConfig])
  /\ current' = s.current

RemoveCurrent ==
  /\ PanelFree /\ current # NoConn
  /\ ~ShownConnected(World, current)
  /\ Removed(RemoveConnection(Present, current))
  /\ UNCHANGED <<made, dialog, loading, thingView, ccbt, tokens, pending>>

\* removeConnectionsByClientId: what is left when the first n connections of
\* the list have been looked at, and removed if they are the thing's.
Removals[n \in 0 .. Len(order)] ==
  IF n = 0 THEN Present
  ELSE IF config[order[n]].thing THEN RemoveConnection(Removals[n - 1], order[n])
  ELSE Removals[n - 1]

\* The thing was deleted in the list; this happens when the answer of the
\* server comes, whatever is shown by then.
ThingDeleted ==
  /\ \E c \in Range(order) : config[c].thing
  /\ Removed(Removals[Len(order)])
  /\ UNCHANGED <<made, dialog, loading, thingView, ccbt, tokens, pending>>

\* The page of the thing is mounted anew: its token is gone.
SwitchView ==
  /\ Idle
  /\ thingView' = ~thingView
  /\ ccbt' = 0
  /\ UNCHANGED <<delegateVars, order, made, config, saved, current, dialog, loading,
                 tokens, pending>>
(***************************************************************************)
(* Subscriptions and publishing.                                           *)
(***************************************************************************)

\* delegate.sub, unsub and pub.  A client that is not connected gets nothing
\* and the caller's callback is never called; a client that is ending answers
\* with an error at once.
Ask(c, kind, topics, confs, spin) ==
  LET k == delegates[c].client IN
  IF IsConnected(World, c) /\ ~clients[k].ending
  THEN /\ Cardinality(pending) < MaxPending
       /\ pending' = pending \cup {[kind |-> kind, client |-> k, conn |-> c,
            topics |-> topics, confs |-> confs, config |-> config[c], spin |-> spin]}
       /\ loading' = (loading \/ spin)
  ELSE /\ UNCHANGED pending
       /\ loading' = (loading \/ (spin /\ ~IsConnected(World, c)))

\* The rows of the list: neither overlay is shown.
RowFree == PanelFree /\ ~loading /\ current # NoConn /\ Listed(current)

Subscribe(t) ==
  /\ RowFree /\ ShownConnected(World, current)
  /\ t \in config[current].list \ shown[current].subs
  /\ Ask(current, "sub", {t}, config[current].list, TRUE)
  /\ UNCHANGED <<delegateVars, order, made, config, saved, current, dialog,
                 thingView, ccbt, tokens>>

Unsubscribe(t) ==
  /\ RowFree /\ ShownConnected(World, current)
  /\ t \in config[current].list \cap shown[current].subs
  /\ Ask(current, "unsub", {t}, {}, TRUE)
  /\ UNCHANGED <<delegateVars, order, made, config, saved, current, dialog,
                 thingView, ccbt, tokens>>

\* Mutant: a suggested one, too.
DeleteSubscriptionAny(t) ==
  /\ RowFree
  /\ t \in config[current].list \ shown[current].subs
  /\ SetConnConfig(current, [config[current] EXCEPT !.list = @ \ {t}])
  /\ UNCHANGED <<delegateVars, made, current, dialog, loading, thingView, ccbt,
                 tokens, pending>>

\* handleDelete: only a row that is neither suggested nor subscribed.
DeleteSubscription(t) ==
  /\ RowFree
  /\ t \in config[current].list \ (config[current].keep \cup shown[current].subs)
  /\ SetConnConfig(current, [config[current] EXCEPT !.list = @ \ {t}])
  /\ UNCHANGED <<delegateVars, made, current, dialog, loading, thingView, ccbt,
                 tokens, pending>>

\* The buttons below the list and on the page of the thing.
Reachable(c) == \/ PanelFree /\ c = current
                \/ Idle /\ thingView /\ config[c].thing

SubscribeAll(c) ==
  /\ Listed(c) /\ Reachable(c) /\ ShownConnected(World, c)
  /\ LET todo == config[c].list \ shown[c].subs IN
       /\ todo # {}
       /\ Ask(c, "submap", todo, todo, FALSE)
  /\ UNCHANGED <<delegateVars, order, made, config, saved, current, dialog,
                 thingView, ccbt, tokens>>

UnsubscribeAll(c) ==
  /\ Listed(c) /\ Reachable(c) /\ ShownConnected(World, c)
  /\ shown[c].subs # {}
  /\ Ask(c, "unsub", shown[c].subs, {}, FALSE)
  /\ UNCHANGED <<delegateVars, order, made, config, saved, current, dialog,
                 thingView, ccbt, tokens>>

ShowSubsForm ==
  /\ PanelFree /\ current # NoConn /\ Listed(current) /\ ShownConnected(World, current)
  /\ \/ dialog' = [NoDialog EXCEPT !.kind = "addSub"]
     \/ /\ ~loading
        /\ \E t \in config[current].list \ shown[current].subs :
             dialog' = [NoDialog EXCEPT !.kind = "editSub", !.topic = t]
  /\ UNCHANGED <<delegateVars, order, made, config, saved, current, loading,
                 thingView, ccbt, tokens, pending>>

\* submitForm for a new subscription.  A topic that is listed is a conflict.
AddSubscription(t) ==
  /\ dialog.kind = "addSub" /\ current # NoConn /\ Listed(current)
  /\ t \notin config[current].list
  /\ dialog' = NoDialog
  /\ Ask(current, "sub", {t}, {t}, TRUE)
  /\ UNCHANGED <<delegateVars, order, made, config, saved, current, thingView, ccbt, tokens>>

\* ... and for an edited one: its entry gets the new topic before the broker
\* is asked, and the change is stored only with the answer.  Requests in
\* flight refer to the same entry.  The topic of a suggested one is fixed.  If
\* a late answer has taken the entry away meanwhile, the overlay stays.
Renamed(S, t, u) == IF t \in S THEN (S \ {t}) \cup {u} ELSE S

EditSubscription(u) ==
  /\ dialog.kind = "editSub" /\ current # NoConn /\ Listed(current)
  /\ LET t == dialog.topic
         conf == config[current]
     IN  /\ u = t \/ (u \notin conf.list /\ t \notin conf.keep)
         /\ \/ /\ t \in conf.list
               /\ Ask(current, "sub", {u}, {u}, TRUE)
               /\ config' = [config EXCEPT ![current].list = Renamed(@, t, u)]
               /\ Become(IF u = t THEN World ELSE RemoveTopic(World, current, t))
            \/ /\ t \notin conf.list
               /\ loading' = TRUE
               /\ UNCHANGED <<delegateVars, config, pending>>
  /\ dialog' = NoDialog
  /\ UNCHANGED <<order, made, saved, current, thingView, ccbt, tokens>>

\* In the panel, or in the form that Set Reported opens for a thing.
Publish(c) ==
  /\ Listed(c) /\ Reachable(c) /\ IsConnected(World, c)
  /\ Ask(c, "pub", {}, {}, FALSE)
  /\ UNCHANGED <<delegateVars, order, made, config, saved, current, dialog,
                 thingView, ccbt, tokens>>

(***************************************************************************)
(* The answers of the broker.                                              *)
(***************************************************************************)
Answered(r) == /\ pending' = pending \ {r}
               /\ loading' = (loading /\ ~r.spin)
               /\ UNCHANGED <<made, current, dialog, thingView, ccbt, tokens>>

\* The broker answers with a grant or a refusal per topic.  onsub looks at
\* them, onsubmap does not; then useMqtt's onSub lists what is not listed.
SubAnswer(r, granted) ==
  /\ r.kind \in {"sub", "submap"} /\ clients[r.client].st = "connected"
  /\ LET w == [World EXCEPT !.clients[r.client].answered = @ \cup r.topics]
         conf == Captured(r)
     IN  IF r.kind = "sub" /\ ~granted
         THEN Become(w) /\ UNCHANGED <<order, config, saved>>
         ELSE /\ Become(Subscribed(w, r.conn, r.topics))
              /\ SetConnConfig(r.conn,
                   [conf EXCEPT !.list = @ \cup (r.topics \cap r.confs)])
  /\ Answered(r)

UnsubAnswer(r) ==
  /\ r.kind = "unsub" /\ clients[r.client].st = "connected"
  /\ Become(Unsubscribed([World EXCEPT !.clients[r.client].answered = @ \ r.topics],
                         r.conn, r.topics))
  /\ UNCHANGED <<order, config, saved>>
  /\ Answered(r)

\* push and clear tell the store only if the panel shows the connection or
\* the page its thing.
Told(c) == \/ UNCHANGED delegateVars
           \/ (c = current \/ config[c].thing) /\ Become(UpdateStore(World, c))

\* The message is kept; publish stores the config it was called with, with
\* the new pushProps.
PubAnswer(r) ==
  /\ r.kind = "pub" /\ clients[r.client].st = "connected"
  /\ SetConnConfig(r.conn, Captured(r))
  /\ Told(r.conn)
  /\ Answered(r)

Answer(r) == \/ \E granted \in BOOLEAN : SubAnswer(r, granted)
             \/ UnsubAnswer(r)
             \/ PubAnswer(r)

(***************************************************************************)
(* The events of the clients.                                              *)
(***************************************************************************)

\* onmessage: messages are not modelled, what is told to the store is.
ClientReceives(k) == /\ clients[k].st = "connected"
                     /\ Told(clients[k].conn)
                     /\ UNCHANGED consoleVars

ClearMessages ==
  /\ PanelFree /\ current # NoConn /\ Listed(current)
  /\ Become(UpdateStore(GetDelegate(World, current), current))
  /\ UNCHANGED consoleVars

\* A client gets connected.  The page of the thing subscribes the suggested
\* topics if the event carries the token it waits for.
ClientConnects(k) ==
  /\ Trying(k)
  /\ LET c == clients[k].conn
         w == OnConnect(k)
         auto == /\ thingView /\ config[c].thing /\ clients[k].token # 0
                 /\ clients[k].token = ccbt
         d == delegates[c].client
     IN  /\ Become(w)
         /\ ccbt' = IF auto THEN 0 ELSE ccbt
         /\ IF auto /\ delegates[c].made /\ Online(w, d) /\ config[c].keep # {}
            THEN pending' = pending \cup {[kind |-> "submap", client |-> d, conn |-> c,
                   topics |-> config[c].keep, confs |-> config[c].keep,
                   config |-> config[c], spin |-> FALSE]}
            ELSE UNCHANGED pending
  /\ UNCHANGED <<order, made, config, saved, current, dialog, loading, thingView, tokens>>

\* Requests that end with the stream: what is subscribed or unsubscribed fails,
\* a publish is kept for the next connection and lost with the client.
Failed(k, kinds) ==
  LET gone == {r \in pending : r.client = k /\ r.kind \in kinds} IN
  /\ pending' = pending \ gone
  /\ loading' = (loading /\ \A r \in gone : ~r.spin)
  /\ UNCHANGED <<order, made, config, saved, current, dialog, thingView, ccbt, tokens>>

ClientFails(k) == Trying(k) /\ Become(OnClose(k)) /\ UNCHANGED consoleVars

\* The stream is lost, or closed because the client is ending.
ClientCloses(k) == /\ clients[k].st = "connected"
                   /\ Become(OnClose(k))
                   /\ Failed(k, {"sub", "submap", "unsub"})

ClientReconnects(k) == /\ clients[k].st = "offline" /\ ~clients[k].ending
                       /\ Become(OnReconnect(k))
                       /\ UNCHANGED consoleVars

ClientEnds(k) == /\ clients[k].ending /\ clients[k].st \in {"connecting", "offline"}
                 /\ Become(OnEnd(k))
                 /\ Failed(k, {"pub"})

ClientClosesLate(k) == /\ clients[k].st = "closing"
                       /\ Become(OnLateClose(k))
                       /\ UNCHANGED consoleVars

ClientStep(k) == \/ ClientReceives(k) \/ ClientConnects(k) \/ ClientFails(k) \/ ClientCloses(k)
                 \/ ClientReconnects(k) \/ ClientEnds(k) \/ ClientClosesLate(k)

\* The page is loaded again: only local storage survives.
Reload ==
  /\ clients' = [k \in ClientIds |-> IF clients[k].st = "unused" THEN clients[k]
                  ELSE [clients[k] EXCEPT !.st = "ended", !.ending = TRUE, !.then = ""]]
  /\ delegates' = [c \in Conns |-> IF c \in Range(saved.order) THEN NewDelegate ELSE NoDelegate]
  /\ shown' = [c \in Conns |-> [NothingShown EXCEPT !.there = c \in Range(saved.order)]]
  /\ connecting' = FALSE
  /\ order' = saved.order /\ config' = saved.config
  /\ current' = FirstOf(saved.order)
  /\ dialog' = NoDialog /\ loading' = FALSE /\ ccbt' = 0 /\ pending' = {}
  /\ UNCHANGED <<made, saved, thingView, tokens>>

Init ==
  /\ DelegateInit(Range(Stored))
  /\ order = Stored /\ made = Range(Stored)
  /\ config = [c \in Conns |-> IF c \in OfThing
                 THEN [NoConfig EXCEPT !.thing = TRUE, !.list = Suggested, !.keep = Suggested]
                 ELSE NoConfig]
  /\ saved = [order |-> order, config |-> config]
  /\ current = FirstOf(Stored)
  /\ dialog = NoDialog /\ loading = FALSE /\ thingView = FALSE
  /\ ccbt = 0 /\ tokens = 0 /\ pending = {}

UserStep ==
  \/ ShowCreateForm \/ ShowCreateFormOfThing \/ ShowEditForm \/ HideForm
  \/ CreateDone \/ EditDone \/ EditDoneRemoved
  \/ PanelConnect \/ RemoveCurrent \/ ThingDeleted \/ SwitchView
  \/ ShowSubsForm \/ ClearMessages \/ Reload
  \/ \E c \in Conns : Select(c) \/ ThingConnect(c) \/ Disconn(c)
                       \/ SubscribeAll(c) \/ UnsubscribeAll(c) \/ Publish(c)
  \/ \E t \in Topics : Subscribe(t) \/ Unsubscribe(t) \/ DeleteSubscription(t)
                        \/ AddSubscription(t) \/ EditSubscription(t)

NetStep == (\E k \in ClientIds : ClientStep(k)) \/ (\E r \in pending : Answer(r))

Next == UserStep \/ NetStep

Spec == Init /\ [][Next]_vars

\* A client that has something to do does it: an attempt ends (mqtt.js has a
\* connect timeout), its timer fires, an end() closes the stream and completes.
\* Nothing is assumed of the user, of losses or of a success.
ClientWork(k) == \/ ClientConnects(k) \/ ClientFails(k) \/ ClientReconnects(k)
                 \/ clients[k].ending /\ ClientCloses(k)
                 \/ ClientEnds(k) \/ ClientClosesLate(k)

Fairness == \A k \in ClientIds : WF_vars(ClientWork(k))

FairSpec == Spec /\ Fairness

(***************************************************************************)
(* Properties                                                              *)
(***************************************************************************)

\* The status of a connection, from the client its delegate holds.
Status(c) ==
  LET k == delegates[c].client IN
  CASE c \notin made -> "fresh"
    [] c \in made /\ ~Listed(c) -> "gone"
    [] Listed(c) /\ IsConnected(World, c) -> "up"
    [] Listed(c) /\ k # NoClient /\ clients[k].st \in {"connecting", "offline"}
       /\ ~clients[k].ending -> "trying"
    [] OTHER -> "idle"

Abstract == INSTANCE ConnStatus WITH status <- [c \in Conns |-> Status(c)]

\* The tool moves its connections as ConnStatus says: whatever the order of
\* clicks and events, a connection comes up only by an attempt of its own, a
\* removed connection never returns, and connections change one at a time,
\* except when a reload or the end of the thing ends several (MqttDelegate.js,
\* useMqtt.js).  Which one goes is not said: a removal of an id that is not in
\* the list takes out the last connection (useMqtt.js removeConnection).
KeepsPromises == Abstract!Safe

\* ... and an attempt succeeds or is given up (MqttDelegate.js onreconnect).
AttemptsEnd == Abstract!Resolved

\* The overlay that blocks the panel is there only while some client attempts
\* to connect, although one flag serves all delegates (store/mqtt.ts).
ConnectingHasCause == connecting => \E k \in ClientIds : clients[k].st = "connecting"

\* ... and it always lifts again.
OverlayLifts == connecting ~> ~connecting

\* Local storage always holds the list that is shown, with the same edits and
\* suggested topics: a reload at any moment, also before a late answer, loses
\* no connection and brings none back (store/mqtt.ts updateConnConfigs).
StorageFollows ==
  /\ saved.order = order
  /\ \A c \in Range(order) : /\ saved.config[c].edit = config[c].edit
                             /\ saved.config[c].keep = config[c].keep

\* The suggested subscriptions of a thing's connection are never lost from its
\* list, neither on the screen nor in storage: not by an edit, a delete, or a
\* late answer that writes an old config back (useMqtt.js subscribe, publish).
KeepListed ==
  \A c \in Range(order) :
    config[c].thing => Suggested \subseteq config[c].list \cap saved.config[c].list

\* A connection that was removed does not return, although answers of its
\* client may still come and write its config (useMqtt.js setConnConfig).
RemovedStaysRemoved == [][\A c \in made : ~Listed(c) => ~Listed(c)']_vars

\* A new client's delegate holds no topic as subscribed: what the client before
\* had subscribed is not taken over.  The page reads the store, which gets the
\* delegate's topics with the first event of the new client (MqttDelegate.js
\* disconnect, connect).
NoInheritedSubs ==
  [][\A c \in Conns : delegates'[c].client # delegates[c].client =>
                        delegates'[c].subs = {}]_vars

\* Topics that the broker has answered for a client of c that has not ended.
SubscribedBy(c) ==
  UNION {clients[k].answered : k \in {i \in ClientIds : clients[i].conn = c
                                                      /\ clients[i].st # "ended"}}

\* What the page shows as subscribed on a connected client has been answered
\* for a client of that connection that has not ended, whatever clients were
\* replaced and however late their answers and ends come: nothing is left over
\* from a client that is gone (MqttDelegate.js, store/mqtt.ts).
ShownAreHeld ==
  \A c \in Range(order) :
    shown[c].client = delegates[c].client /\ ShownConnected(World, c)
      => shown[c].subs \subseteq SubscribedBy(c)
=============================================================================
