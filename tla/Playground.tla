----------------------------- MODULE Playground -----------------------------
(***************************************************************************)
(* The pages of the web console at work: what the user clicks, what the    *)
(* server answers, and what the MQTT clients of the things report.         *)
(*                                                                         *)
(* A call ends with an answer or with an error (the timeout of axios is    *)
(* one).  The server acts on a call when the answer arrives, or the call   *)
(* fails and the server may have acted nevertheless.  Of the MQTT          *)
(* connections of things, modelled in MqttConsole, only the names, whether *)
(* they are listed, the state of the client and the token of its next      *)
(* connect event are kept, and the list has no order.                      *)
(***************************************************************************)
EXTENDS WebPages

VARIABLES
  conns,       \* the MQTT connections of things
  tokens       \* tokens generated so far

connVars == <<conns, tokens>>
vars == <<exists, webVars, connVars>>

\* want: the token that the next connect event carries, 0 for none.  A client
\* that is off may connect; one that is ending may not.
ConnStates ==
  [names: Names, listed: BOOLEAN, state: {"none", "off", "on", "ending"}, want: Tokens]
FreePlace == [names |-> NoNames, listed |-> FALSE, state |-> "none", want |-> 0]
Stored(n) == [names |-> n, listed |-> TRUE, state |-> "off", want |-> 0]
IsFree(c) == ~conns[c].listed /\ conns[c].state = "none"

TypeOK ==
  /\ WebTypeOK
  /\ conns \in [Conns -> ConnStates]
  /\ tokens \in Tokens

\* No modal dialog covers the page.
Free == ~adding /\ box.kind = "" /\ thing.form = NoForm
OnPage(p) == page = p /\ Free

(***************************************************************************)
(* The session                                                             *)
(***************************************************************************)

\* submitForm: the credentials are stored before they are tried.  The Enter
\* key works under the overlay too.
LoginSubmit(a) ==
  /\ OnPage("Login") /\ MayCall
  /\ Become(UpdateThings([World EXCEPT !.logging = TRUE, !.auth = a], TRUE))
  /\ UNCHANGED <<exists, connVars>>

\* The login page covers the bar with this button.
LogOut ==
  /\ page # "Login" /\ Free
  /\ Become(GoTo([World EXCEPT !.auth = ""], "Login", NoThing))
  /\ UNCHANGED <<exists, connVars>>

\* An address typed in, or the history of the browser.  A confirmation is
\* closed by the change of the hash, a form is not.
Navigate(p, t) ==
  /\ MayCall
  /\ <<p, t>> # <<page, viewed>>
  /\ LET w == GoTo(World, p, t)
     IN  Become(IF box.kind \in {"create", "connect"} THEN [w EXCEPT !.box = NoBox] ELSE w)
  /\ UNCHANGED <<exists, connVars>>

\* The page is loaded anew: only local storage and the address are kept.
Reload ==
  /\ LET w == [World EXCEPT !.page = "Login", !.viewed = NoThing, !.logging = FALSE,
                            !.things = {}, !.shadow = NoShadow, !.calls = EmptyBag,
                            !.list = NewList, !.adding = FALSE, !.thing = NewThing,
                            !.box = NoBox]
         w1 == GoTo(w, page, viewed)
     IN  Become(IF auth # "" THEN UpdateThings(w1, FALSE) ELSE w1)
  /\ conns' = [c \in Conns |-> IF conns[c].listed THEN Stored(conns[c].names) ELSE FreePlace]
  /\ UNCHANGED <<exists, tokens>>

(***************************************************************************)
(* The list                                                                *)
(***************************************************************************)

\* The overlay of a running query covers the list.
ListFree == OnPage("List") /\ ~list.querying

Search(q) ==
  /\ ListFree /\ MayCall
  /\ Become(FetchList([World EXCEPT !.list.params = [query |-> q, index |-> 1]]))
  /\ UNCHANGED <<exists, connVars>>

Clear ==
  /\ ListFree
  /\ Become([World EXCEPT !.list = ResetList(@)])
  /\ UNCHANGED <<exists, connVars>>

\* The pager offers the pages of the total that is shown.  The choice of the
\* page size, and the pager's own index when the total shrinks, are left out.
PageIndexChange(i) ==
  /\ ListFree /\ MayCall
  /\ i <= list.total /\ i # list.params.index
  /\ Become(FetchList([World EXCEPT !.list.params.index = i]))
  /\ UNCHANGED <<exists, connVars>>

\* requestUpdateShadowList, a button outside of the overlay.
RefreshList ==
  /\ OnPage("List") /\ MayCall
  /\ Become(Refresh(World))
  /\ UNCHANGED <<exists, connVars>>

\* viewThing: the standard table has the whole shadow, the custom one has not.
ViewThing(t) ==
  /\ ListFree /\ MayCall
  /\ t \in list.rows \cap Opened
  /\ LET s == [thing |-> IF list.isSelectAll THEN t ELSE NoThing, fromList |-> TRUE]
     IN  Become(GoTo([World EXCEPT !.shadow = s], "Thing", t))
  /\ UNCHANGED <<exists, connVars>>

DeleteThing(t) ==
  /\ ListFree /\ MayCall
  /\ t \in list.rows \cap Managed
  /\ Become(Send(World, [NewCall EXCEPT !.kind = "delete", !.thing = t]))
  /\ UNCHANGED <<exists, connVars>>

(***************************************************************************)
(* The form for a new thing                                                *)
(***************************************************************************)
ShowAddingForm ==
  /\ OnPage("List")
  /\ Become([World EXCEPT !.adding = TRUE])
  /\ UNCHANGED <<exists, connVars>>

CloseAddingForm(w) == [Disown(w, "adding") EXCEPT !.adding = FALSE]

CancelAdding ==
  /\ adding
  /\ Become(CloseAddingForm(World))
  /\ UNCHANGED <<exists, connVars>>

AddThing(t) ==
  /\ adding /\ MayCall /\ t \in Managed
  /\ Become(Send(World, [NewCall EXCEPT !.kind = "add", !.owner = "adding", !.thing = t]))
  /\ UNCHANGED <<exists, connVars>>

(***************************************************************************)
(* The page of a thing                                                     *)
(***************************************************************************)

\* handleBack2List: the history of the browser goes back later (Navigate), the
\* list replaces the page at once.
Back ==
  /\ OnPage("Thing")
  /\ LET w == [World EXCEPT !.shadow = NoShadow]
     IN  \/ thing.isFromList /\ Become(w)
         \/ ~thing.isFromList /\ Become(GoTo(w, "List", NoThing))
  /\ UNCHANGED <<exists, connVars>>

GetBasicInfo ==
  /\ OnPage("Thing") /\ MayCall
  /\ Become(Send(World, [NewCall EXCEPT !.kind = "getThing", !.owner = "thing", !.thing = viewed]))
  /\ UNCHANGED <<exists, connVars>>

\* Refresh Shadow, or a message of one of the thing's topics.
RefreshShadow ==
  /\ page = "Thing" /\ MayCall
  /\ Become(UpdateCurrentShadow(World))
  /\ UNCHANGED <<exists, connVars>>

\* Offered when the shadow says that the thing is connected.
KickOut ==
  /\ OnPage("Thing") /\ MayCall
  /\ CurrentShadow(World).thing # NoThing
  /\ Become(Send(World, [NewCall EXCEPT !.kind = "kick", !.thing = viewed]))
  /\ UNCHANGED <<exists, connVars>>

\* A change of the props of HttpPoster clears the response.
ShowPoster(api) ==
  /\ OnPage("Thing") /\ api # thing.code
  /\ Become([World EXCEPT !.thing.code = api, !.thing.result = ""])
  /\ UNCHANGED <<exists, connVars>>

ClosePoster ==
  /\ page = "Thing" /\ thing.code # ""
  /\ Become([World EXCEPT !.thing.code = "", !.thing.result = ""])
  /\ UNCHANGED <<exists, connVars>>

PosterSubmit ==
  /\ OnPage("Thing") /\ MayCall
  /\ thing.code # "" /\ ~thing.submitting
  /\ Become(Send([World EXCEPT !.thing.submitting = TRUE, !.thing.result = ""],
                 [NewCall EXCEPT !.kind = "post", !.owner = "thing", !.thing = viewed]))
  /\ UNCHANGED <<exists, connVars>>

(***************************************************************************)
(* Set Reported                                                            *)
(***************************************************************************)
ShowSetReportedForm(w, names) ==
  [w EXCEPT !.thing.ccbt = 0,
            !.thing.form = [conn |-> names, topic |-> CurrentShadow(w).thing]]

Ask(w, kind, c) == [w EXCEPT !.box = [NoBox EXCEPT !.kind = kind, !.conn = c, !.live = TRUE]]

\* getConnConfigsByClientId; no connection is found for no thing.
Matching(t) == {c \in Conns : /\ conns[c].listed /\ t # NoThing
                              /\ conns[c].names.clientId = t}

\* A matching connection that is up publishes; otherwise the user is asked.
SetReported ==
  /\ OnPage("Thing")
  /\ LET matching == Matching(CurrentShadow(World).thing)
         up == {c \in matching : conns[c].state = "on"}
     IN  \/ \E c \in up : Become(ShowSetReportedForm(World, conns[c].names))
         \/ up = {} /\ \E c \in matching : Become(Ask(World, "connect", c))
         \/ matching = {} /\ Become(Ask(World, "create", NoConn))
  /\ UNCHANGED <<exists, connVars>>

\* A page that has gone keeps its callback, not its state.
SetCcbt(w, token) == IF w.box.live THEN [w EXCEPT !.thing.ccbt = token] ELSE w

\* The connection form is opened for the shadow of this moment: with a token
\* if it is of a thing, and filled in for the thing if the store knows it.
ConfirmCreate ==
  /\ box.kind = "create"
  /\ LET t == CurrentShadow(World).thing
         token == IF t = NoThing THEN 0 ELSE tokens + 1
     IN  /\ token \in Tokens
         /\ tokens' = IF t = NoThing THEN tokens ELSE token
         /\ Become([SetCcbt(World, token) EXCEPT
                      !.box.kind = "connForm", !.box.token = token,
                      !.box.thing = IF t \in things THEN t ELSE NoThing])
  /\ UNCHANGED <<exists, conns>>

\* connect ends the client that is there before it starts another; it does
\* nothing while any connection is being made.
Connect(c, token) ==
  conns' \in {conns, [conns EXCEPT ![c].state = "off", ![c].want = token]}

\* A new connection is listed, and then connected unless connect refuses.
Create(names, token) ==
  \E c \in Conns, want \in {0, token} :
    IsFree(c) /\ conns' = [conns EXCEPT ![c] = [Stored(names) EXCEPT !.want = want]]

\* The connection is the one found when the question was asked, removed since
\* or not.
ConfirmConnect ==
  /\ box.kind = "connect" /\ tokens < MaxTokens
  /\ tokens' = tokens + 1
  /\ Become([SetCcbt(World, tokens') EXCEPT !.box = NoBox])
  /\ Connect(box.conn, tokens')
  /\ UNCHANGED exists

CreateConnection ==
  /\ box.kind = "connForm" /\ box.thing # NoThing
  /\ Become([World EXCEPT !.box = NoBox])
  /\ Create(NamesOf(box.thing), box.token)
  /\ UNCHANGED <<exists, tokens>>

\* The form of the tool panel, or the one of the thing's page for a thing that
\* the store does not know, makes a connection with no token.  What the panel
\* does to an existing one is in ConnUp and ConnEnds; it never renames one.
PanelCreates(names) ==
  /\ page # "Login" /\ Free
  /\ Create(names, 0)
  /\ UNCHANGED <<exists, webVars, tokens>>

\* The box is closed.  A form that names no thing goes on as the panel's.
CloseBox ==
  /\ box.kind # ""
  /\ Become([World EXCEPT !.box = NoBox])
  /\ UNCHANGED <<exists, connVars>>

\* The publish form is closed, by the user or because it has published.
CloseSetReportedForm ==
  /\ thing.form # NoForm
  /\ Become([World EXCEPT !.thing.form = NoForm])
  /\ UNCHANGED <<exists, connVars>>

(***************************************************************************)
(* Events of the things' MQTT clients: every mounted listener hears them.  *)
(***************************************************************************)

\* Mutant: whichever thing is looked at.
ShadowDataHearsAny(w, names, token) ==
  IF Mounted(w, "thing") /\ token # 0 /\ token = w.thing.ccbt
  THEN ShowSetReportedForm(w, names) ELSE w

\* ShadowData.vue waits for the connection it has asked for.
ShadowDataHears(w, names, token) ==
  IF /\ Mounted(w, "thing") /\ names.username = CurrentShadow(w).thing
     /\ token # 0 /\ token = w.thing.ccbt
  THEN ShowSetReportedForm(w, names) ELSE w

ThingHears(w, t) == IF w.viewed = t THEN UpdateCurrentShadow(w) ELSE w

ListHears(w, t) == IF t \in w.list.rows THEN Refresh(w) ELSE w

\* The thing that an event names is the username.
Heard(w, c) == LET t == conns[c].names.username IN ListHears(ThingHears(w, t), t)

ConnUp(c) ==
  /\ conns[c].state = "off" /\ MayCall
  /\ conns' = [conns EXCEPT ![c].state = "on", ![c].want = 0]
  /\ Become(Heard(ShadowDataHears(World, conns[c].names, conns[c].want), c))
  /\ UNCHANGED <<exists, tokens>>

\* The stream is lost: nobody is told.
ConnCloses(c) ==
  /\ conns[c].state = "on"
  /\ conns' = [conns EXCEPT ![c].state = "off"]
  /\ UNCHANGED <<exists, webVars, tokens>>

\* A client ends: it has given up or was disconnected, and its token is gone,
\* or another one with a token takes its place.  Of a removed connection only
\* a question that names it is left.  (A connection without a client has no
\* end to report: hearing one all the same only refreshes.)
ConnEnds(c) ==
  /\ conns[c].state # "none" /\ MayCall
  /\ \/ /\ conns[c].state # "ending"
        /\ \E want \in {0, conns[c].want} :
             conns' = [conns EXCEPT ![c].state = "off", ![c].want = want]
     \/ /\ ~conns[c].listed
        /\ conns' = [conns EXCEPT ![c] = IF box.conn = c
                                        THEN [@ EXCEPT !.state = "none", !.want = 0]
                                        ELSE FreePlace]
  /\ Become(Heard(World, c))
  /\ UNCHANGED <<exists, tokens>>

(***************************************************************************)
(* The answers                                                             *)
(***************************************************************************)
Answering(c) == [World EXCEPT !.calls = @ (-) SetToBag({c})]

\* The rows of a query: a page of one row.
Result(q) == IF q = "none" THEN <<>> ELSE Content

\* Mutant: the overlay stays after an error.
QueryFailedStillBusy(w, c) ==
  IF c.owner = "list" /\ Mounted(w, "list")
  THEN [w EXCEPT !.list = [ResetList(@) EXCEPT !.error = TRUE]] ELSE w

QueryFailed(w, c) ==
  IF c.owner = "list" /\ Mounted(w, "list")
  THEN [w EXCEPT !.list = [ResetList(@) EXCEPT !.error = TRUE, !.querying = FALSE]]
  ELSE w

\* Mutant: the total is one too many.
QueryAnsweredOneMore(w, c) ==
  IF c.owner # "list" THEN w
  ELSE [w EXCEPT !.list = [ResetList(@) EXCEPT !.total = Len(Content) + 1]]

QueryAnswered(w, c) ==
  LET rows == Result(c.params.query) IN
  IF c.owner # "list" THEN w
  ELSE [w EXCEPT !.list = [ResetList(@) EXCEPT
                             !.rows = Range(PageOf(rows, c.params.index)),
                             !.total = Len(rows), !.empty = (rows = <<>>),
                             !.querying = FALSE]]

PosterDone(w, result) ==
  [w EXCEPT !.thing = [@ EXCEPT !.submitting = FALSE, !.result = result]]

PostAnswered(w, c) ==
  IF c.owner # "thing" THEN w ELSE UpdateCurrentShadow(PosterDone(w, "ok"))

\* Mutant: the button keeps spinning after an error.
PostFailedStillBusy(w, c) ==
  IF c.owner = "thing" /\ Mounted(w, "thing")
  THEN [w EXCEPT !.thing.result = "error"] ELSE w

PostFailed(w, c) ==
  IF c.owner = "thing" /\ Mounted(w, "thing") THEN PosterDone(w, "error") ELSE w

\* addThing and delThing: the things and the list are fetched anew.
ThingsChanged(w) == Refresh(UpdateThings(w, FALSE))

AddAnswered(w, c) ==
  LET w1 == ThingsChanged(w)
  IN  IF c.owner = "adding" THEN CloseAddingForm(w1) ELSE w1

Answered(w, c) ==
  CASE c.kind = "things" -> ThingsAnswered(w, c)
    [] c.kind = "query" -> QueryAnswered(w, c)
    [] c.kind = "delete" -> ThingsChanged(w)
    [] c.kind = "add" -> AddAnswered(w, c)
    [] c.kind = "getThing" -> IF c.owner = "thing" THEN [w EXCEPT !.thing.meta = c.thing] ELSE w
    [] c.kind = "shadow" -> [w EXCEPT !.shadow = [thing |-> c.thing, fromList |-> FALSE]]
    [] c.kind = "post" -> PostAnswered(w, c)
    [] c.kind = "kick" -> UpdateCurrentShadow(w)

\* What the awaiting code does with an error; most of it is only logged.
Failed(w, c) ==
  CASE c.kind = "things" -> LoginReturns(w, c, FALSE)
    [] c.kind = "query" -> QueryFailed(w, c)
    [] c.kind = "post" -> PostFailed(w, c)
    [] OTHER -> w

\* External: what the server has after it has acted on a call.
After(c) == CASE c.kind = "delete" -> exists \ {c.thing}
              [] c.kind = "add" -> exists \cup {c.thing}
              [] OTHER -> exists

\* External: calls the server refuses.
Accepted(c) == CASE c.kind = "add" -> c.thing \notin exists
                 [] c.kind \in {"delete", "getThing", "shadow", "kick"} -> c.thing \in exists
                 [] OTHER -> TRUE

\* removeConnectionsByClientId: the connections with the deleted thing's id are
\* not listed any more, and their clients end.
ConnsAfter(c) ==
  IF c.kind = "delete"
  THEN conns' = [k \in Conns |->
         IF k \in Matching(c.thing)
         THEN [conns[k] EXCEPT !.listed = FALSE, !.state = "ending", !.want = 0]
         ELSE conns[k]]
  ELSE UNCHANGED conns

AnswerOk(c) ==
  /\ c.auth = "right" /\ Accepted(c)
  /\ exists' = After(c)
  /\ Become(Answered(Answering(c), c))
  /\ ConnsAfter(c)
  /\ UNCHANGED tokens

\* An error of the server or of the network.
AnswerError(c) ==
  /\ exists' \in {exists, IF c.auth = "right" /\ Accepted(c) THEN After(c) ELSE exists}
  /\ Become(Failed(Answering(c), c))
  /\ UNCHANGED connVars

Answer401(c) ==
  /\ c.auth # "right"
  /\ Become(Failed(Unauthorized(Answering(c)), c))
  /\ UNCHANGED <<exists, connVars>>

Answer(kind, owner) ==
  \E c \in BagToSet(calls) :
    /\ c.kind = kind /\ c.owner = owner
    /\ AnswerOk(c) \/ AnswerError(c) \/ Answer401(c)

-----------------------------------------------------------------------------
Init ==
  /\ exists \in {Ids \ gone : gone \in SUBSET Managed}
  /\ auth = "" /\ page = "Login" /\ viewed = NoThing
  /\ logging = FALSE /\ things = {} /\ shadow = NoShadow /\ calls = EmptyBag
  /\ list = NewList /\ adding = FALSE /\ thing = NewThing /\ box = NoBox
  /\ conns \in [Conns -> {FreePlace} \cup {Stored(n) : n \in Typed}] /\ tokens = 0

User ==
  \/ \E a \in Logins : LoginSubmit(a)
  \/ LogOut
  \/ Navigate("List", NoThing) \/ Navigate("Login", NoThing)
  \/ \E t \in Opened : Navigate("Thing", t)
  \/ Reload
  \/ \E q \in Queries : Search(q)
  \/ Clear \/ RefreshList
  \/ \E i \in DOMAIN Things : PageIndexChange(i)
  \/ \E t \in Ids : ViewThing(t) \/ DeleteThing(t) \/ AddThing(t)
  \/ ShowAddingForm \/ CancelAdding
  \/ Back \/ GetBasicInfo \/ RefreshShadow \/ KickOut
  \/ \E a \in Apis : ShowPoster(a)
  \/ ClosePoster \/ PosterSubmit
  \/ SetReported \/ ConfirmCreate \/ ConfirmConnect \/ CreateConnection
  \/ \E n \in Typed : PanelCreates(n)
  \/ CloseBox \/ CloseSetReportedForm

Net == \E c \in Conns : ConnUp(c) \/ ConnCloses(c) \/ ConnEnds(c)

Next == User \/ Net \/ \E k \in Kinds, o \in Owners : Answer(k, o)

Spec == Init /\ [][Next]_vars

\* axios ends every call, with an answer or with its timeout; said of the
\* calls that an overlay waits for.
Fairness == /\ WF_vars(Answer("things", "login"))
            /\ WF_vars(Answer("query", "list"))
FairSpec == Spec /\ Fairness

-----------------------------------------------------------------------------
(***************************************************************************)
(* Properties                                                              *)
(***************************************************************************)
InFlight(k, o) == \E c \in BagToSet(calls) : c.kind = k /\ c.owner = o

\* Without credentials only the login page is shown, whatever answers, clicks
\* and navigations came in which order (router.beforeEach, client.js on 401).
LoggedOutShowsLogin == auth = "" => page = "Login"

\* An overlay or a spinner has a call behind it that will take it away, and
\* HttpPoster never has two posts under way (Login.vue, List.vue,
\* HttpPoster.vue: set before the call, cleared in finally).
BusyHasCause ==
  /\ logging => InFlight("things", "login")
  /\ list.querying => InFlight("query", "list")
  /\ thing.submitting <=> InFlight("post", "thing")
  /\ \A c, d \in BagToSet(calls) :
       (\A e \in {c, d} : e.kind = "post" /\ e.owner = "thing")
         => c = d /\ calls[c] = 1

\* The publish form of Set Reported publishes as the thing that its topic
\* names, although the connection is found by another name and the form may
\* open long after the click, on the event of another client, with another
\* thing on the page (ShadowData.vue).  The code keeps to it as long as no
\* connection has the client id of one thing and the username of another.
ReportsToItsThing == thing.form.conn.username = thing.form.topic

\* No username is typed over a selected one.
NotRetyped == \A n \in Typed : n.clientId \in {NoThing, n.username}

\* Once every call in flight is of the session, the session and its calls
\* stay so until the user logs out or in: the interceptor adds the
\* credentials to each call, and only a 401 drops them (client.js).
Settled == auth = "right" /\ \A c \in BagToSet(calls) : c.auth = "right"
SessionLasts == [][Settled => Settled' \/ LogOut \/ \E a \in Logins : LoginSubmit(a)]_vars

\* The overlays of the login form and of the list go away, since axios ends
\* every call and updateThings stops at the last page.
OverlaysEnd == (logging ~> ~logging) /\ (list.querying ~> ~list.querying)
=============================================================================
