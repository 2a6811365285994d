------------------------------ MODULE WebPages ------------------------------
(***************************************************************************)
(* The state of the web console's pages and what all of them share: the    *)
(* session and the HTTP client (apis/client.js, store/user.ts, Login.vue), *)
(* the router, the mounting of pages, and the calls in flight.             *)
(*                                                                         *)
(* Like in MqttDelegate a step is one click or one answer with everything  *)
(* it calls; it is written as operators on the record of the variables.    *)
(* The answer of a call is worked out when it is delivered.                *)
(***************************************************************************)
EXTENDS Naturals, FiniteSets, SequencesExt, Bags

CONSTANTS
  Things,      \* thing ids, a sequence in the order of the server
  NoThing,     \* no thing
  Opened,      \* things whose page the user opens
  Managed,     \* things the user adds and deletes
  Conns,       \* places for MQTT connections of things
  NoConn,      \* no connection
  Typed,       \* names of the connections that the tool panel's form makes
  Logins,      \* credentials the user logs in with: "right", "wrong"
  Queries,     \* queries the user makes: all things, columns of the
               \* user's own, or no thing
  Apis,        \* APIs of HttpPoster
  MaxTokens,   \* bound: tokens generated
  MaxCalls     \* bound: calls in flight when the user makes another

Ids == Range(Things)
Auths == {""} \cup Logins
Tokens == 0 .. MaxTokens

\* A connection has two names.  Its thing is the username: the broker checks
\* it and the events carry it.  The client id is what the pages look for: a
\* username that is selected in the form sets it, one typed by hand leaves it
\* empty, and one typed over a selected one leaves the first thing's id.
Names == [clientId: Ids \cup {NoThing}, username: Ids \cup {NoThing}]
NoNames == [clientId |-> NoThing, username |-> NoThing]
NamesOf(t) == [clientId |-> t, username |-> t]

ASSUME ThingsAssumption ==
  Things \in Seq(Ids) \ {<<>>} /\ IsInjective(Things) /\ NoThing \notin Ids
ASSUME SetsAssumption == Opened \cup Managed \subseteq Ids
ASSUME LoginsAssumption == Logins \subseteq {"right", "wrong"}
ASSUME QueriesAssumption == Queries \subseteq {"all", "own", "none"}
ASSUME ConnsAssumption ==
  NoConn \notin Conns /\ Typed \subseteq Names /\ \A n \in Typed : n.username # NoThing
ASSUME BoundsAssumption == MaxTokens \in Nat /\ MaxCalls \in Nat

VARIABLES
  exists,      \* external: the things the server has
  auth,        \* store.state.user.auth, and its copy in local storage
  page,        \* the route: Login, List or Thing
  viewed,      \* route.params.thingId
  logging,     \* Login.vue: loading
  things,      \* store.state.app.things
  shadow,      \* store.state.app.currentShadow: whose it is, fromList
  calls,       \* HTTP calls in flight, a bag
  list,        \* List.vue
  adding,      \* TopNavBar.vue: the form for a new thing is open
  thing,       \* Thing.vue and its parts
  box          \* the question or form that Set Reported has opened

webVars == <<auth, page, viewed, logging, things, shadow, calls, list, adding, thing, box>>

Params == [query: Queries \cup {"all"}, index: 1 .. Len(Things)]
DefaultParams == [query |-> "all", index |-> 1]

Lists ==
  [params: Params, querying: BOOLEAN, isSelectAll: BOOLEAN, rows: SUBSET Ids,
   total: 0 .. Len(Things), empty: BOOLEAN, error: BOOLEAN]
NewList ==
  [params |-> DefaultParams, querying |-> FALSE, isSelectAll |-> TRUE, rows |-> {},
   total |-> 0, empty |-> FALSE, error |-> FALSE]

Shadows == [thing: Ids \cup {NoThing}, fromList: BOOLEAN]
NoShadow == [thing |-> NoThing, fromList |-> FALSE]

\* meta: the thing whose data is shown; code, submitting, result: HttpPoster;
\* ccbt, form: Set Reported, with the names of the publishing connection and
\* the thing of the topic.
Forms == [conn: Names, topic: Ids \cup {NoThing}]
NoForm == [conn |-> NoNames, topic |-> NoThing]
NewThing ==
  [meta |-> NoThing, isFromList |-> FALSE, code |-> "", submitting |-> FALSE,
   result |-> "", ccbt |-> 0, form |-> NoForm]
ThingStates ==
  [meta: Ids \cup {NoThing}, isFromList: BOOLEAN, code: Apis \cup {""},
   submitting: BOOLEAN, result: {"", "ok", "error"}, ccbt: Tokens, form: Forms]

\* The confirmations of ShadowData.vue and the connection form.  conn: the
\* connection to connect; thing: the one the form is filled in for; live: the
\* component that asked is still mounted.
Boxes == [kind: {"", "create", "connect", "connForm"}, conn: Conns \cup {NoConn},
          thing: Ids \cup {NoThing}, token: Tokens, live: BOOLEAN]
NoBox == [kind |-> "", conn |-> NoConn, thing |-> NoThing, token |-> 0, live |-> FALSE]

\* A call: auth is the header it was sent with; owner tells whether the code
\* that awaits the answer still belongs to what is mounted.
Kinds == {"things", "query", "delete", "add", "getThing", "shadow", "post", "kick"}
Owners == {"app", "login", "list", "adding", "thing", "gone"}
NewCall ==
  [kind |-> "things", auth |-> "", owner |-> "app", thing |-> NoThing,
   got |-> <<>>, params |-> DefaultParams, login |-> FALSE]
Calls ==
  [kind: Kinds, auth: Auths, owner: Owners, thing: Ids \cup {NoThing},
   got: Seq(Ids), params: Params, login: BOOLEAN]

WebTypeOK ==
  /\ exists \subseteq Ids /\ auth \in Auths
  /\ page \in {"Login", "List", "Thing"}
  /\ viewed \in Ids \cup {NoThing} /\ (page = "Thing" <=> viewed # NoThing)
  /\ logging \in BOOLEAN /\ things \subseteq Ids /\ shadow \in Shadows
  /\ IsABag(calls) /\ BagToSet(calls) \subseteq Calls
  /\ list \in Lists /\ adding \in BOOLEAN /\ thing \in ThingStates /\ box \in Boxes

World == [auth |-> auth, page |-> page, viewed |-> viewed, logging |-> logging,
          things |-> things, shadow |-> shadow, calls |-> calls, list |-> list,
          adding |-> adding, thing |-> thing, box |-> box]
Become(w) == /\ auth' = w.auth /\ page' = w.page /\ viewed' = w.viewed
             /\ logging' = w.logging /\ things' = w.things /\ shadow' = w.shadow
             /\ calls' = w.calls /\ list' = w.list /\ adding' = w.adding
             /\ thing' = w.thing /\ box' = w.box

(***************************************************************************)
(* Calls                                                                   *)
(***************************************************************************)

\* Mutant: without the request interceptor.
SendBare(w, c) == [w EXCEPT !.calls = @ (+) SetToBag({c})]

\* The request interceptor reads the credentials when the call is sent.
Send(w, c) == [w EXCEPT !.calls = @ (+) SetToBag({[c EXCEPT !.auth = w.auth]})]

MayCall == BagCardinality(calls) < MaxCalls

\* A part of the page is unmounted: the answers of its calls find nothing.
Gone(c) == [c EXCEPT !.owner = "gone"]
Disown(w, owner) ==
  LET Own  == {c \in BagToSet(w.calls) : c.owner = owner}
      Lost == [g \in {Gone(c) : c \in Own} |-> w.calls[[g EXCEPT !.owner = owner]]]
  IN  [w EXCEPT !.calls = Restrict(@, DOMAIN @ \ Own) (+) Lost]

\* updateThings: the first page; `login` if Login.vue awaits the result.
UpdateThings(w, login) ==
  Send(w, [NewCall EXCEPT !.owner = IF login THEN "login" ELSE "app", !.login = login])

(***************************************************************************)
(* List.vue                                                                *)
(***************************************************************************)
FetchList(w) ==
  Send([w EXCEPT !.list.querying = TRUE,
                 !.list.isSelectAll = (w.list.params.query # "own")],
       [NewCall EXCEPT !.kind = "query", !.owner = "list", !.params = w.list.params])

Mounted(w, part) == CASE part = "list" -> w.page \in {"List", "Thing"}
                      [] part = "thing" -> w.page = "Thing"

\* refresh, on shadowListUpdateTag or an event of a thing that is shown.
Refresh(w) ==
  IF Mounted(w, "list") /\ (w.list.total > 0 \/ w.list.empty) THEN FetchList(w) ELSE w

\* reset: the body of the list is emptied before it is filled anew.
ResetList(l) == [l EXCEPT !.rows = {}, !.total = 0, !.empty = FALSE, !.error = FALSE]

(***************************************************************************)
(* The shadow                                                              *)
(***************************************************************************)
UpdateCurrentShadow(w) ==
  IF w.viewed = NoThing THEN [w EXCEPT !.shadow = NoShadow]
  ELSE Send(w, [NewCall EXCEPT !.kind = "shadow", !.thing = w.viewed])

\* The computed currentShadow: nothing unless a thing is viewed.
CurrentShadow(w) == IF w.viewed = NoThing THEN NoShadow ELSE w.shadow

(***************************************************************************)
(* The router                                                              *)
(***************************************************************************)

\* beforeEach: without credentials there is only the login page, with them
\* there is none.
Route(a, p) == CASE a = "" -> "Login"
                 [] a # "" /\ p = "Login" -> "List"
                 [] OTHER -> p

MountThing(w) ==
  LET w1 == Send(w, [NewCall EXCEPT !.kind = "getThing", !.owner = "thing", !.thing = w.viewed])
  IN  UpdateCurrentShadow([w1 EXCEPT !.thing.isFromList = CurrentShadow(w).fromList])

\* A navigation to page p (of thing t): parts that leave the screen are
\* unmounted, a thing's page that appears is mounted.  The page of one thing
\* is kept for the next one: only the response HttpPoster shows is cleared.
GoTo(w, p, t) ==
  LET to == Route(w.auth, p)
      w1 == [w EXCEPT !.page = to, !.viewed = IF to = "Thing" THEN t ELSE NoThing]
      w2 == IF w.page = "Thing" /\ to # "Thing"
            THEN [Disown(w1, "thing") EXCEPT !.thing = NewThing, !.box.live = FALSE]
            ELSE w1
      w3 == IF w.page # "Login" /\ to = "Login"
            THEN [Disown(w2, "list") EXCEPT !.list = NewList] ELSE w2
      w4 == IF w.page = "Login" /\ to # "Login"
            THEN [Disown(w3, "login") EXCEPT !.logging = FALSE] ELSE w3
  IN  CASE to # "Thing" -> w4
        [] to = "Thing" /\ w.page # "Thing" -> MountThing(w4)
        [] to = "Thing" /\ w.page = "Thing" /\ t # w.viewed -> [w4 EXCEPT !.thing.result = ""]
        [] OTHER -> w4

\* Mutant: nobody asks for the login page.
UnauthorizedStays(w) == [w EXCEPT !.auth = ""]

\* The response interceptor on 401: the credentials are dropped and the
\* login page is requested, whichever session the call was of.
Unauthorized(w) == GoTo([w EXCEPT !.auth = ""], "Login", NoThing)

(***************************************************************************)
(* updateThings, page by page: the answer of a call c of it.               *)
(***************************************************************************)
PageOf(q, i) == IF i <= Len(q) THEN <<q[i]>> ELSE <<>>

\* What the server has, in its order.
InOrder[n \in 0 .. Len(Things)] ==
  [S \in SUBSET Ids |->
     IF n = 0 THEN <<>>
     ELSE InOrder[n - 1][S] \o (IF Things[n] \in S THEN <<Things[n]>> ELSE <<>>)]
Content == InOrder[Len(Things)][exists]

\* The page size is one here, so that there are several pages.
NextPage(c) == [c EXCEPT !.got = @ \o PageOf(Content, Len(c.got) + 1)]

\* Mutant: the overlay goes away only with the page.
LoginReturnsStillBusy(w, c, ok) == IF c.login /\ ok THEN GoTo(w, "List", NoThing) ELSE w

\* Login.vue awaits the result: the list is shown, or a notification.
LoginReturns(w, c, ok) ==
  LET w1 == IF c.owner = "login" THEN [w EXCEPT !.logging = FALSE] ELSE w
  IN  IF c.login /\ ok THEN GoTo(w1, "List", NoThing) ELSE w1

\* The next page is asked for until all of the total is there.
ThingsAnswered(w, c) ==
  LET next == NextPage(c) IN
  IF Len(next.got) < Len(Content) THEN Send(w, next)
  ELSE LoginReturns([w EXCEPT !.things = Range(next.got)], c, TRUE)
=============================================================================
