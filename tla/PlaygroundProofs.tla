--------------------------- MODULE PlaygroundProofs ---------------------------
(***************************************************************************)
(* Safety of the pages of the web console for any number of things, calls  *)
(* and tokens: types, LoggedOutShowsLogin, BusyHasCause, ReportsToItsThing *)
(* and SessionLasts.                                                       *)
(*                                                                         *)
(* A step is a chain of operators on worlds.  For each of them a lemma says *)
(* that it keeps a world sound (Sound) and what it keeps of the overlays,  *)
(* the spinner and the session (Keeps).                                    *)
(***************************************************************************)
EXTENDS Playground, TLAPS, WellFoundedInduction, SequenceTheorems

\* The bags of calls, and all worlds; the type of World.
CallBags == UNION {[S -> Nat \ {0}] : S \in SUBSET Calls}
Worlds ==
  [auth: Auths, page: {"Login", "List", "Thing"}, viewed: Ids \cup {NoThing},
   logging: BOOLEAN, things: SUBSET Ids, shadow: Shadows, calls: CallBags,
   list: Lists, adding: BOOLEAN, thing: ThingStates, box: Boxes]

\* A part of the page awaits an answer only while it is mounted, and only a
\* thing that could be one is added.
Awaited(w) ==
  \A c \in DOMAIN w.calls : /\ c.owner = "list" => w.page # "Login"
                            /\ c.owner = "thing" => w.page = "Thing"
                            /\ c.kind = "add" => c.thing \in Ids

\* A publish form that is open is of one thing.
FormOk(f) == NotRetyped => f.conn.username = f.topic

\* What every operator keeps.
Sound(w) == /\ w \in Worlds
            /\ w.page = "Thing" <=> w.viewed # NoThing
            /\ Awaited(w)
            /\ FormOk(w.thing.form)

\* LoggedOutShowsLogin, the parts of BusyHasCause and Settled, of a world.
LoggedOut(w) == w.auth = "" => w.page = "Login"
Flying(w, k, o) == \E c \in DOMAIN w.calls : c.kind = k /\ c.owner = o
LoginBusy(w) == w.logging => Flying(w, "things", "login")
ListBusy(w) == w.list.querying => Flying(w, "query", "list")
IsPost(c) == c.kind = "post" /\ c.owner = "thing"
PostBusy(w) ==
  /\ w.thing.submitting <=> Flying(w, "post", "thing")
  /\ \A c, d \in DOMAIN w.calls : IsPost(c) /\ IsPost(d) => c = d
  /\ \A c \in DOMAIN w.calls : IsPost(c) => w.calls[c] = 1
Signed(w) == w.auth = "right" /\ \A c \in DOMAIN w.calls : c.auth = "right"

\* An operator that makes v of w spoils none of them.
Keeps(w, v) == /\ LoggedOut(w) => LoggedOut(v)
               /\ LoginBusy(w) => LoginBusy(v)
               /\ ListBusy(w) => ListBusy(v)
               /\ PostBusy(w) => PostBusy(v)
               /\ Signed(w) => Signed(v)

\* All that is said of a world between two steps.
Fine(w) == Sound(w) /\ LoggedOut(w) /\ LoginBusy(w) /\ ListBusy(w) /\ PostBusy(w)

\* A client id that a username typed over another has not left behind.
NamesOk(n) == NotRetyped => n.clientId \in {NoThing, n.username}

\* What the server has and the connections of the things.
OthersInv == /\ exists \subseteq Ids /\ tokens \in Tokens
             /\ conns \in [Conns -> ConnStates]
             /\ \A c \in Conns : NamesOk(conns[c].names)

\* The inductive invariant.
PlaygroundInv == Fine(World) /\ OthersInv

-----------------------------------------------------------------------------
(* Bags of calls.                                                          *)

\* A bag of calls is a function, and a count is positive.
LEMMA BagOf ==
  ASSUME NEW b \in CallBags
  PROVE  /\ b = [c \in DOMAIN b |-> b[c]] /\ DOMAIN b \subseteq Calls
         /\ \A c \in DOMAIN b : b[c] \in Nat \ {0}
<1>1. PICK S \in SUBSET Calls : b \in [S -> Nat \ {0}]
  BY DEF CallBags
<1> QED BY <1>1

\* One more call.
LEMMA AddedCall ==
  ASSUME NEW b \in CallBags, NEW c \in Calls
  PROVE  LET a == b (+) SetToBag({c})
         IN  /\ a \in CallBags
             /\ DOMAIN a = DOMAIN b \cup {c}
             /\ \A d \in DOMAIN b \ {c} : a[d] = b[d]
             /\ c \notin DOMAIN b => a[c] = 1
<1> DEFINE s == SetToBag({c})
           a == b (+) s
<1>0. DOMAIN b \subseteq Calls /\ \A d \in DOMAIN b : b[d] \in Nat \ {0}
  BY BagOf
<1>1. DOMAIN s = {c} /\ s[c] = 1
  BY DEF SetToBag
<1> HIDE DEF s
<1>2. a = [e \in DOMAIN b \cup DOMAIN s |->
             (IF e \in DOMAIN b THEN b[e] ELSE 0) + (IF e \in DOMAIN s THEN s[e] ELSE 0)]
  BY DEF (+)
<1> HIDE DEF a
<1>3. DOMAIN a = DOMAIN b \cup {c}
  BY <1>1, <1>2
<1>4. \A d \in DOMAIN b \ {c} : a[d] = b[d]
  <2> TAKE d \in DOMAIN b \ {c}
  <2>1. a[d] = b[d] + 0
    BY <1>1, <1>2
  <2> QED BY <1>0, <2>1
<1>5. c \notin DOMAIN b => a[c] = 1
  BY <1>1, <1>2
<1>6. c \in DOMAIN b => a[c] = b[c] + 1
  BY <1>1, <1>2
<1>7. \A d \in DOMAIN a : a[d] \in Nat \ {0}
  BY <1>0, <1>3, <1>4, <1>5, <1>6
<1>8. a = [d \in DOMAIN a |-> a[d]]
  BY <1>2
<1>9. a \in [DOMAIN a -> Nat \ {0}]
  BY <1>7, <1>8
<1>10. DOMAIN a \in SUBSET Calls
  BY <1>0, <1>3
<1>11. a \in CallBags
  BY <1>9, <1>10 DEF CallBags
<1> QED BY <1>3, <1>4, <1>5, <1>11 DEF a, s

\* One less.
LEMMA RemovedCall ==
  ASSUME NEW b \in CallBags, NEW c \in DOMAIN b
  PROVE  LET a == b (-) SetToBag({c})
         IN  /\ a \in CallBags
             /\ DOMAIN a \subseteq DOMAIN b /\ DOMAIN b \ {c} \subseteq DOMAIN a
             /\ \A d \in DOMAIN b \ {c} : a[d] = b[d]
             /\ b[c] = 1 => c \notin DOMAIN a
<1> DEFINE s == SetToBag({c})
           a == b (-) s
           f == [e \in DOMAIN b |-> IF e \in DOMAIN s THEN b[e] - s[e] ELSE b[e]]
<1>0. DOMAIN b \subseteq Calls /\ \A d \in DOMAIN b : b[d] \in Nat \ {0}
  BY BagOf
<1>1. DOMAIN s = {c} /\ s[c] = 1
  BY DEF SetToBag
<1> HIDE DEF s
<1>2. a = [e \in {d \in DOMAIN f : f[d] > 0} |-> f[e]]
  BY DEF (-)
<1>3. /\ DOMAIN f = DOMAIN b
      /\ \A d \in DOMAIN b : f[d] = IF d = c THEN b[d] - 1 ELSE b[d]
  BY <1>1
<1> HIDE DEF a, f
<1>4. \A d \in DOMAIN b : f[d] \in Nat
  BY <1>0, <1>3
<1>5. a \in [{d \in DOMAIN b : f[d] > 0} -> Nat \ {0}]
  BY <1>2, <1>3, <1>4
<1>6. {d \in DOMAIN b : f[d] > 0} \in SUBSET Calls
  BY <1>0
<1>7. a \in CallBags
  BY <1>5, <1>6 DEF CallBags
<1>8. DOMAIN a = {d \in DOMAIN b : f[d] > 0}
  BY <1>2, <1>3
<1>9. \A d \in DOMAIN b \ {c} : f[d] > 0 /\ a[d] = b[d]
  <2> TAKE d \in DOMAIN b \ {c}
  <2>1. f[d] = b[d]
    BY <1>3
  <2>2. f[d] > 0
    BY <1>0, <2>1
  <2> QED BY <1>2, <1>3, <2>1, <2>2
<1>10. b[c] = 1 => f[c] = 0
  BY <1>3
<1>11. b[c] = 1 => c \notin DOMAIN a
  BY <1>8, <1>10
<1>12. DOMAIN b \ {c} \subseteq DOMAIN a
  BY <1>8, <1>9
<1> QED BY <1>7, <1>8, <1>9, <1>11, <1>12 DEF a, s

\* The calls of a part that is unmounted are those of nobody; others stay.
LEMMA DisownedCalls ==
  ASSUME NEW w \in Worlds, NEW o \in Owners \ {"gone"}
  PROVE  \E b \in CallBags :
           /\ Disown(w, o) = [w EXCEPT !.calls = b]
           /\ \A d \in DOMAIN b : d \in DOMAIN w.calls \/ \E c \in DOMAIN w.calls : d = Gone(c)
           /\ \A d \in DOMAIN b : d.owner # o
           /\ \A d \in DOMAIN w.calls : d.owner \notin {o, "gone"} =>
                d \in DOMAIN b /\ b[d] = w.calls[d]
<1> DEFINE b == w.calls
           Own == {c \in BagToSet(b) : c.owner = o}
           G == {Gone(c) : c \in Own}
           Lost == [g \in G |-> b[[g EXCEPT !.owner = o]]]
           Rest == Restrict(b, DOMAIN b \ Own)
           n == Rest (+) Lost
<1>0. b \in CallBags /\ DOMAIN b \subseteq Calls /\ \A d \in DOMAIN b : b[d] \in Nat \ {0}
  BY BagOf DEF Worlds
<1>1. \A c \in Calls : /\ Gone(c) \in Calls /\ Gone(c).owner = "gone"
                       /\ c.owner = o => [Gone(c) EXCEPT !.owner = o] = c
  BY DEF Calls, Gone, Owners
<1>2. DOMAIN Rest = DOMAIN b \ Own /\ \A d \in DOMAIN b \ Own : Rest[d] = b[d]
  BY DEF Restrict
<1>3. DOMAIN Lost = G /\ \A g \in G : Lost[g] \in Nat \ {0}
  <2> SUFFICES ASSUME NEW c \in Own PROVE b[[Gone(c) EXCEPT !.owner = o]] \in Nat \ {0}
    OBVIOUS
  <2>1. c \in DOMAIN b /\ c.owner = o
    BY DEF BagToSet
  <2> QED BY <1>0, <1>1, <2>1
<1>4. G \subseteq Calls /\ \A g \in G : g.owner = "gone"
  BY <1>0, <1>1 DEF BagToSet
<1>5. /\ DOMAIN n = (DOMAIN b \ Own) \cup G
      /\ \A d \in DOMAIN n : n[d] = (IF d \in DOMAIN b \ Own THEN b[d] ELSE 0)
                                    + (IF d \in G THEN Lost[d] ELSE 0)
  <2> HIDE DEF G, Lost, Own
  <2>1. n = [e \in DOMAIN Rest \cup DOMAIN Lost |->
               (IF e \in DOMAIN Rest THEN Rest[e] ELSE 0)
               + (IF e \in DOMAIN Lost THEN Lost[e] ELSE 0)]
    BY DEF (+)
  <2> HIDE DEF Rest, n
  <2> QED BY <1>2, <1>3, <2>1
<1> HIDE DEF Lost, Rest, n
<1>6. n \in CallBags
  <2>1. \A d \in DOMAIN n : n[d] \in Nat \ {0}
    <3> TAKE d \in DOMAIN n
    <3>1. CASE d \in DOMAIN b \ Own /\ d \in G
      <4>1. n[d] = b[d] + Lost[d]  BY <1>5, <3>1
      <4> QED BY <1>0, <1>3, <3>1, <4>1
    <3>2. CASE d \in DOMAIN b \ Own /\ d \notin G
      <4>1. n[d] = b[d] + 0  BY <1>5, <3>2
      <4> QED BY <1>0, <3>2, <4>1
    <3>3. CASE d \notin DOMAIN b \ Own /\ d \in G
      <4>1. n[d] = 0 + Lost[d]  BY <1>5, <3>3
      <4> QED BY <1>3, <3>3, <4>1
    <3> QED BY <1>5, <3>1, <3>2, <3>3
  <2>2. n = [d \in DOMAIN n |-> n[d]]
    BY DEF n, (+)
  <2>3. n \in [DOMAIN n -> Nat \ {0}]
    BY <2>1, <2>2
  <2>4. DOMAIN n \in SUBSET Calls
    BY <1>0, <1>4, <1>5
  <2> QED BY <2>3, <2>4 DEF CallBags
<1>7. Disown(w, o) = [w EXCEPT !.calls = n]
  BY DEF Disown, n, Rest, Lost, G, Own
<1>8. \A d \in DOMAIN n : d \in DOMAIN b \/ \E c \in DOMAIN b : d = Gone(c)
  BY <1>5 DEF BagToSet
<1>9. \A d \in DOMAIN n : d.owner # o
  BY <1>4, <1>5 DEF BagToSet
<1>10. ASSUME NEW d \in DOMAIN b, d.owner \notin {o, "gone"}
       PROVE  d \in DOMAIN n /\ n[d] = b[d]
  <2>1. d \in DOMAIN b \ Own /\ d \notin G
    BY <1>4, <1>10
  <2> QED BY <1>0, <1>5, <2>1
<1> QED BY <1>6, <1>7, <1>8, <1>9, <1>10

-----------------------------------------------------------------------------
(* Sending.                                                                *)

\* The call that leaves carries the credentials of this moment.
LEMMA SentCall ==
  ASSUME NEW w \in Worlds, NEW c \in Calls
  PROVE  \E b \in CallBags, e \in Calls :
           /\ Send(w, c) = [w EXCEPT !.calls = b]
           /\ e.auth = w.auth /\ e.kind = c.kind /\ e.owner = c.owner /\ e.thing = c.thing
           /\ DOMAIN b = DOMAIN w.calls \cup {e}
           /\ \A d \in DOMAIN w.calls \ {e} : b[d] = w.calls[d]
           /\ e \notin DOMAIN w.calls => b[e] = 1
<1> DEFINE e == [c EXCEPT !.auth = w.auth]
           b == w.calls (+) SetToBag({e})
<1>1. e \in Calls /\ e.auth = w.auth /\ e.kind = c.kind /\ e.owner = c.owner /\ e.thing = c.thing
  BY DEF Calls, Worlds
<1>2. w.calls \in CallBags
  BY DEF Worlds
<1>3. Send(w, c) = [w EXCEPT !.calls = b]
  BY DEF Send
<1> HIDE DEF e
<1>4. /\ b \in CallBags /\ DOMAIN b = DOMAIN w.calls \cup {e}
      /\ \A d \in DOMAIN w.calls \ {e} : b[d] = w.calls[d]
      /\ e \notin DOMAIN w.calls => b[e] = 1
  BY <1>1, <1>2, AddedCall
<1> HIDE DEF b
<1> QED BY <1>1, <1>3, <1>4

\* What may be sent at any time: a call that is not a post, for a part that
\* is mounted.
MaySend(w, c) == /\ c \in Calls /\ c.kind # "post"
                 /\ c.owner = "list" => w.page # "Login"
                 /\ c.owner = "thing" => w.page = "Thing"
                 /\ c.kind = "add" => c.thing \in Ids

\* Sending is sound.
LEMMA SendSound ==
  ASSUME NEW w, Sound(w), NEW c, MaySend(w, c)
  PROVE  /\ Sound(Send(w, c)) /\ Keeps(w, Send(w, c))
         /\ Flying(Send(w, c), c.kind, c.owner)
         /\ Send(w, c) = [w EXCEPT !.calls = Send(w, c).calls]
<1>0. w \in Worlds /\ c \in Calls
  BY DEF Sound, MaySend
<1>1. PICK b \in CallBags, e \in Calls :
        /\ Send(w, c) = [w EXCEPT !.calls = b]
        /\ e.auth = w.auth /\ e.kind = c.kind /\ e.owner = c.owner /\ e.thing = c.thing
        /\ DOMAIN b = DOMAIN w.calls \cup {e}
        /\ \A d \in DOMAIN w.calls \ {e} : b[d] = w.calls[d]
        /\ e \notin DOMAIN w.calls => b[e] = 1
  BY <1>0, SentCall
<1> DEFINE v == [w EXCEPT !.calls = b]
<1>2. /\ v \in Worlds /\ v.calls = b /\ v.auth = w.auth /\ v.page = w.page
      /\ v.viewed = w.viewed /\ v.thing = w.thing /\ v.logging = w.logging /\ v.list = w.list
  BY <1>0 DEF Worlds
<1>3. v = [w EXCEPT !.calls = v.calls]
  BY <1>2
<1> HIDE DEF v
<1>4. Sound(v)
  <2>1. Awaited(v)
    BY <1>1, <1>2 DEF Sound, Awaited, MaySend
  <2> QED BY <1>2, <2>1 DEF Sound
<1>5. /\ LoggedOut(w) => LoggedOut(v)
      /\ LoginBusy(w) => LoginBusy(v)
      /\ ListBusy(w) => ListBusy(v)
  BY <1>1, <1>2 DEF LoggedOut, LoginBusy, ListBusy, Flying
<1>6. PostBusy(w) => PostBusy(v)
  <2>1. ~IsPost(e)
    BY <1>1 DEF IsPost, MaySend
  <2>2. \A d : d \in DOMAIN b /\ IsPost(d) <=> d \in DOMAIN w.calls /\ IsPost(d)
    BY <1>1, <2>1
  <2>3. Flying(v, "post", "thing") <=> Flying(w, "post", "thing")
    BY <1>2, <2>2 DEF Flying, IsPost
  <2>4. \A d \in DOMAIN w.calls : IsPost(d) => b[d] = w.calls[d]
    BY <1>1, <2>1
  <2> QED BY <1>2, <2>2, <2>3, <2>4 DEF PostBusy
<1>7. Signed(w) => Signed(v)
  BY <1>1, <1>2 DEF Signed
<1>8. Flying(v, c.kind, c.owner)
  BY <1>1, <1>2 DEF Flying
<1>9. Send(w, c) = v
  BY <1>1 DEF v
<1>10. Keeps(w, v)
  BY <1>5, <1>6, <1>7 DEF Keeps
<1> QED BY <1>3, <1>4, <1>8, <1>9, <1>10

\* Keeping is transitive.
LEMMA KeepsOn ==
  ASSUME NEW u, NEW v, NEW w, Keeps(u, v), Keeps(v, w)
  PROVE  Keeps(u, w)
BY DEF Keeps

\* An operator that changes nothing keeps all.
LEMMA KeepsSelf == ASSUME NEW w PROVE Keeps(w, w)
BY DEF Keeps

\* A new call is one.
LEMMA NewCallIsCall == NewCall \in Calls /\ DefaultParams \in Params
<1>1. DefaultParams \in Params
  <2>1. Len(Things) \in Nat /\ Len(Things) >= 1
    BY ThingsAssumption, EmptySeq, LenProperties
  <2> QED BY <2>1 DEF DefaultParams, Params
<1> QED BY <1>1 DEF NewCall, Calls, Kinds, Owners, Auths

-----------------------------------------------------------------------------
(* Unmounting.                                                             *)

AddsThings(w) == \A c \in DOMAIN w.calls : c.kind = "add" => c.thing \in Ids

\* v is w with the calls of part o disowned.
Disowned(w, o, v) ==
  /\ v \in Worlds /\ v = [w EXCEPT !.calls = v.calls]
  /\ \A d \in DOMAIN v.calls : d.owner # o
  /\ \A d \in DOMAIN v.calls : d.owner # "gone" => d \in DOMAIN w.calls
  /\ \A d \in DOMAIN w.calls : d.owner \notin {o, "gone"} =>
       d \in DOMAIN v.calls /\ v.calls[d] = w.calls[d]
  /\ AddsThings(w) => AddsThings(v)
  /\ Signed(w) => Signed(v)

\* A part that is unmounted: no call is lost, none is the part's any more.
LEMMA DisownIs ==
  ASSUME NEW w \in Worlds, NEW o \in Owners \ {"gone"}
  PROVE  Disowned(w, o, Disown(w, o))
<1>1. PICK b \in CallBags :
        /\ Disown(w, o) = [w EXCEPT !.calls = b]
        /\ \A d \in DOMAIN b : d \in DOMAIN w.calls \/ \E c \in DOMAIN w.calls : d = Gone(c)
        /\ \A d \in DOMAIN b : d.owner # o
        /\ \A d \in DOMAIN w.calls : d.owner \notin {o, "gone"} =>
             d \in DOMAIN b /\ b[d] = w.calls[d]
  BY DisownedCalls
<1> DEFINE v == [w EXCEPT !.calls = b]
<1>2. v \in Worlds /\ v.calls = b /\ v.auth = w.auth
  BY DEF Worlds
<1>3. v = [w EXCEPT !.calls = v.calls]
  BY <1>2
<1> HIDE DEF v
<1>4. DOMAIN w.calls \subseteq Calls
  BY BagOf DEF Worlds
<1>5. ASSUME NEW c \in DOMAIN w.calls
      PROVE  /\ Gone(c).owner = "gone" /\ Gone(c).kind = c.kind
             /\ Gone(c).thing = c.thing /\ Gone(c).auth = c.auth
  BY <1>4 DEF Gone, Calls
<1>6. \A d \in DOMAIN b : d.owner # "gone" => d \in DOMAIN w.calls
  BY <1>1, <1>5
<1>7. AddsThings(w) => AddsThings(v)
  BY <1>1, <1>2, <1>5 DEF AddsThings
<1>8. Signed(w) => Signed(v)
  BY <1>1, <1>2, <1>5 DEF Signed
<1>9. Disown(w, o) = v
  BY <1>1 DEF v
<1> QED BY <1>1, <1>2, <1>3, <1>6, <1>7, <1>8, <1>9 DEF Disowned

\* Nothing of another part is lost.
LEMMA DisownedFlying ==
  ASSUME NEW w, NEW o, NEW v, Disowned(w, o, v), NEW k, NEW p, p \notin {o, "gone"}
  PROVE  Flying(v, k, p) <=> Flying(w, k, p)
BY DEF Disowned, Flying

\* The post of the page stays what it was when another part goes.
LEMMA DisownedPosts ==
  ASSUME NEW w \in Worlds, NEW o, NEW v, Disowned(w, o, v)
  PROVE  /\ o # "thing" /\ PostBusy(w) => PostBusy(v)
         /\ o = "thing" => \A c \in DOMAIN v.calls : ~IsPost(c)
<1>1. ASSUME o # "thing", PostBusy(w)  PROVE PostBusy(v)
  <2>1. \A d : d \in DOMAIN v.calls /\ IsPost(d) <=> d \in DOMAIN w.calls /\ IsPost(d)
    BY <1>1 DEF Disowned, IsPost
  <2>2. \A d \in DOMAIN w.calls : IsPost(d) => v.calls[d] = w.calls[d]
    BY <1>1 DEF Disowned, IsPost
  <2>3. v.thing = w.thing
    BY DEF Disowned, Worlds
  <2> QED BY <1>1, <2>1, <2>2, <2>3 DEF PostBusy, Flying, IsPost
<1>2. o = "thing" => \A c \in DOMAIN v.calls : ~IsPost(c)
  BY DEF Disowned, IsPost
<1> QED BY <1>1, <1>2

\* A part is unmounted: its calls are disowned and its state is new.
LEMMA Unmounting ==
  ASSUME NEW w \in Worlds, AddsThings(w), FormOk(w.thing.form),
         NEW u, Disowned(w, "thing", u)
  PROVE  LET v == [u EXCEPT !.thing = NewThing, !.box.live = FALSE]
         IN  /\ v \in Worlds /\ v.page = w.page /\ v.viewed = w.viewed /\ v.auth = w.auth
             /\ AddsThings(v) /\ v.thing = NewThing /\ v.logging = w.logging
             /\ v.list = w.list /\ v.calls = u.calls
<1> DEFINE v == [u EXCEPT !.thing = NewThing, !.box.live = FALSE]
<1>1. NewThing \in ThingStates
  BY BoundsAssumption DEF NewThing, ThingStates, NoForm, Forms, NoNames, Names, Tokens, FormOk
<1>2. u \in Worlds /\ AddsThings(u)
  BY DEF Disowned
<1>3. [u.box EXCEPT !.live = FALSE] \in Boxes
  BY <1>2 DEF Worlds, Boxes
<1> DEFINE x == [u EXCEPT !.thing = NewThing]
<1>4. x \in Worlds
  BY <1>1, <1>2 DEF Worlds
<1>5. v = [x EXCEPT !.box = [u.box EXCEPT !.live = FALSE]]
  BY <1>2 DEF Worlds
<1>6. v \in Worlds
  BY <1>3, <1>4, <1>5 DEF Worlds
<1>7. /\ v.page = u.page /\ v.viewed = u.viewed /\ v.auth = u.auth /\ v.thing = NewThing
      /\ v.logging = u.logging /\ v.list = u.list /\ v.calls = u.calls
  BY <1>2 DEF Worlds
<1>8. /\ u.page = w.page /\ u.viewed = w.viewed /\ u.auth = w.auth
      /\ u.logging = w.logging /\ u.list = w.list
  BY DEF Disowned, Worlds
<1>9. AddsThings(v)
  BY <1>2, <1>7 DEF AddsThings
<1> QED BY <1>6, <1>7, <1>8, <1>9

-----------------------------------------------------------------------------
(* Fetching.                                                               *)

\* What an operator leaves alone.
SamePlace(w, v) == v.page = w.page /\ v.viewed = w.viewed /\ v.auth = w.auth

\* The shadow of the thing on the page is asked for, or none is kept.
LEMMA UpdateCurrentShadowSound ==
  ASSUME NEW w, Sound(w)
  PROVE  /\ Sound(UpdateCurrentShadow(w)) /\ Keeps(w, UpdateCurrentShadow(w))
         /\ SamePlace(w, UpdateCurrentShadow(w))
<1>0. w \in Worlds
  BY DEF Sound
<1>1. CASE w.viewed = NoThing
  <2> DEFINE v == [w EXCEPT !.shadow = NoShadow]
  <2>1. NoShadow \in Shadows
    BY DEF NoShadow, Shadows
  <2>2. /\ v \in Worlds /\ SamePlace(w, v) /\ v.calls = w.calls /\ v.thing = w.thing
        /\ v.logging = w.logging /\ v.list = w.list
    BY <1>0, <2>1 DEF Worlds, SamePlace
  <2>3. UpdateCurrentShadow(w) = v
    BY <1>1 DEF UpdateCurrentShadow
  <2> HIDE DEF v
  <2>4. Sound(v)
    BY <2>2 DEF Sound, SamePlace, Awaited
  <2>5. Keeps(w, v)
    BY <2>2 DEF Keeps, SamePlace, LoggedOut, LoginBusy, ListBusy, PostBusy, Flying, Signed
  <2> QED BY <2>2, <2>3, <2>4, <2>5
<1>2. CASE w.viewed # NoThing
  <2> DEFINE c == [NewCall EXCEPT !.kind = "shadow", !.thing = w.viewed]
  <2>1. c \in Calls /\ c.kind = "shadow" /\ c.owner = "app"
    <3>1. "shadow" \in Kinds /\ "app" \in Owners /\ w.viewed \in Ids \cup {NoThing}
      BY <1>0 DEF Worlds, Kinds, Owners
    <3>2. NewCall \in Calls
      BY NewCallIsCall
    <3> QED BY <3>1, <3>2 DEF Calls, NewCall
  <2>2. UpdateCurrentShadow(w) = Send(w, c)
    BY <1>2 DEF UpdateCurrentShadow
  <2> HIDE DEF c
  <2>3. MaySend(w, c)
    BY <2>1 DEF MaySend
  <2>4. /\ Sound(Send(w, c)) /\ Keeps(w, Send(w, c))
        /\ Send(w, c) = [w EXCEPT !.calls = Send(w, c).calls]
    BY <2>3, SendSound
  <2>5. SamePlace(w, Send(w, c))
    BY <1>0, <2>4 DEF Worlds, SamePlace
  <2> QED BY <2>2, <2>4, <2>5
<1> QED BY <1>1, <1>2

\* The page of a thing asks for its data and its shadow.
LEMMA MountThingSound ==
  ASSUME NEW w, Sound(w), w.page = "Thing"
  PROVE  /\ Sound(MountThing(w)) /\ Keeps(w, MountThing(w))
         /\ SamePlace(w, MountThing(w))
<1> DEFINE c == [NewCall EXCEPT !.kind = "getThing", !.owner = "thing", !.thing = w.viewed]
           x == Send(w, c)
           y == [x EXCEPT !.thing.isFromList = CurrentShadow(w).fromList]
<1>0. w \in Worlds
  BY DEF Sound
<1>1. c \in Calls /\ c.kind = "getThing" /\ c.owner = "thing"
  <2>1. "getThing" \in Kinds /\ "thing" \in Owners /\ w.viewed \in Ids \cup {NoThing}
    BY <1>0 DEF Worlds, Kinds, Owners
  <2>2. NewCall \in Calls
    BY NewCallIsCall
  <2> QED BY <2>1, <2>2 DEF Calls, NewCall
<1>2. MountThing(w) = UpdateCurrentShadow(y)
  BY DEF MountThing
<1> HIDE DEF c
<1>3. MaySend(w, c)
  BY <1>1 DEF MaySend
<1>4. Sound(x) /\ Keeps(w, x) /\ x = [w EXCEPT !.calls = x.calls]
  BY <1>3, SendSound
<1>5. SamePlace(w, x)
  BY <1>0, <1>4 DEF Worlds, SamePlace
<1> HIDE DEF x
<1>6. x \in Worlds /\ x.thing \in ThingStates
  BY <1>4 DEF Sound, Worlds
<1>7. CurrentShadow(w).fromList \in BOOLEAN
  BY <1>0 DEF CurrentShadow, Worlds, Shadows, NoShadow
<1> DEFINE f == CurrentShadow(w).fromList
           s == [x.thing EXCEPT !.isFromList = f]
<1>8. y = [x EXCEPT !.thing = s]
  BY <1>6 DEF Worlds
<1>9. s \in ThingStates /\ s.form = x.thing.form /\ s.submitting = x.thing.submitting
  <2> HIDE DEF f
  <2>1. f \in BOOLEAN
    BY <1>7 DEF f
  <2>2. CASE f = TRUE
    BY <1>6, <2>2 DEF ThingStates
  <2>3. CASE f = FALSE
    BY <1>6, <2>3 DEF ThingStates
  <2> QED BY <2>1, <2>2, <2>3
<1> HIDE DEF s, y
<1>10. /\ y \in Worlds /\ SamePlace(x, y) /\ y.calls = x.calls /\ y.thing = s
       /\ y.logging = x.logging /\ y.list = x.list
  BY <1>6, <1>8, <1>9 DEF Worlds, SamePlace
<1>11. Sound(y)
  BY <1>4, <1>9, <1>10 DEF Sound, Awaited, SamePlace
<1>12. Keeps(x, y)
  BY <1>9, <1>10 DEF Keeps, SamePlace, LoggedOut, LoginBusy, ListBusy, PostBusy, Flying, Signed
<1>13. /\ Sound(UpdateCurrentShadow(y)) /\ Keeps(y, UpdateCurrentShadow(y))
       /\ SamePlace(y, UpdateCurrentShadow(y))
  BY <1>11, UpdateCurrentShadowSound
<1>14. Keeps(w, UpdateCurrentShadow(y))
  BY <1>4, <1>12, <1>13, KeepsOn
<1>15. SamePlace(w, UpdateCurrentShadow(y))
  BY <1>5, <1>10, <1>13 DEF SamePlace
<1> QED BY <1>2, <1>13, <1>14, <1>15

\* The overlay of the list goes up with a query.
LEMMA FetchListSound ==
  ASSUME NEW w, Sound(w), w.page # "Login"
  PROVE  /\ Sound(FetchList(w)) /\ Keeps(w, FetchList(w)) /\ ListBusy(FetchList(w))
         /\ SamePlace(w, FetchList(w))
<1> DEFINE q == w.list.params.query # "own"
           l == [w.list EXCEPT !.querying = TRUE, !.isSelectAll = q]
           x == [w EXCEPT !.list = l]
           c == [NewCall EXCEPT !.kind = "query", !.owner = "list", !.params = w.list.params]
<1>0. w \in Worlds /\ w.list \in Lists
  BY DEF Sound, Worlds
<1>1. c \in Calls /\ c.kind = "query" /\ c.owner = "list"
  <2>1. "query" \in Kinds /\ "list" \in Owners /\ w.list.params \in Params
    BY <1>0 DEF Kinds, Owners, Lists
  <2>2. NewCall \in Calls
    BY NewCallIsCall
  <2> QED BY <2>1, <2>2 DEF Calls, NewCall
<1>2. FetchList(w) = Send(x, c)
  BY <1>0 DEF FetchList, Worlds
<1> HIDE DEF c
<1>3. l \in Lists
  <2> HIDE DEF q
  <2>1. q \in BOOLEAN
    BY DEF q
  <2>2. CASE q = TRUE
    BY <1>0, <2>2 DEF Lists
  <2>3. CASE q = FALSE
    BY <1>0, <2>3 DEF Lists
  <2> QED BY <2>1, <2>2, <2>3
<1> HIDE DEF l
<1>4. /\ x \in Worlds /\ SamePlace(w, x) /\ x.calls = w.calls /\ x.thing = w.thing
      /\ x.logging = w.logging
  BY <1>0, <1>3 DEF Worlds, SamePlace
<1> HIDE DEF x
<1>5. Sound(x)
  BY <1>4 DEF Sound, Awaited, SamePlace
<1>6. /\ LoggedOut(w) => LoggedOut(x)
      /\ LoginBusy(w) => LoginBusy(x)
      /\ PostBusy(w) => PostBusy(x)
      /\ Signed(w) => Signed(x)
  BY <1>4 DEF SamePlace, LoggedOut, LoginBusy, PostBusy, Flying, Signed
<1>7. MaySend(x, c)
  BY <1>1, <1>4 DEF MaySend, SamePlace
<1>8. /\ Sound(Send(x, c)) /\ Keeps(x, Send(x, c)) /\ Flying(Send(x, c), "query", "list")
      /\ Send(x, c) = [x EXCEPT !.calls = Send(x, c).calls]
  BY <1>1, <1>5, <1>7, SendSound
<1>9. SamePlace(x, Send(x, c))
  BY <1>4, <1>8 DEF Worlds, SamePlace
<1>10. ListBusy(Send(x, c))
  BY <1>8 DEF ListBusy
<1>11. Keeps(w, Send(x, c))
  BY <1>6, <1>8, <1>10 DEF Keeps
<1>12. SamePlace(w, Send(x, c))
  BY <1>4, <1>9 DEF SamePlace
<1> QED BY <1>2, <1>8, <1>10, <1>11, <1>12

\* The list is asked for again, if it is there and shows something.
LEMMA RefreshSound ==
  ASSUME NEW w, Sound(w)
  PROVE  /\ Sound(Refresh(w)) /\ Keeps(w, Refresh(w)) /\ SamePlace(w, Refresh(w))
<1>1. CASE Mounted(w, "list") /\ (w.list.total > 0 \/ w.list.empty)
  <2>1. w.page # "Login"
    BY <1>1 DEF Mounted
  <2>2. Refresh(w) = FetchList(w)
    BY <1>1 DEF Refresh
  <2> QED BY <2>1, <2>2, FetchListSound
<1>2. CASE ~(Mounted(w, "list") /\ (w.list.total > 0 \/ w.list.empty))
  <2>1. Refresh(w) = w
    BY <1>2 DEF Refresh
  <2> QED BY <2>1, KeepsSelf DEF SamePlace
<1> QED BY <1>1, <1>2

-----------------------------------------------------------------------------
(* The router.                                                             *)

Pages == {"Login", "List", "Thing"}

\* What the steps of a navigation keep, whatever the page.
KeepsBusy(w, v) == /\ LoginBusy(w) => LoginBusy(v)
                   /\ ListBusy(w) => ListBusy(v)
                   /\ PostBusy(w) => PostBusy(v)
                   /\ Signed(w) => Signed(v)

\* A world on its way to another page: only the calls of the thing's page and
\* of the list may be of a part that is not mounted any more.
OnTheWay(w) == /\ w \in Worlds /\ AddsThings(w)
               /\ w.page = "Thing" <=> w.viewed # NoThing
               /\ FormOk(w.thing.form)
ThingAwaited(w) == \A c \in DOMAIN w.calls : c.owner = "thing" => w.page = "Thing"
ListAwaited(w) == \A c \in DOMAIN w.calls : c.owner = "list" => w.page # "Login"

\* A sound world, taken apart for the steps of a navigation.
LEMMA SoundIs ==
  ASSUME NEW w
  PROVE  Sound(w) <=> OnTheWay(w) /\ ThingAwaited(w) /\ ListAwaited(w)
BY DEF Sound, OnTheWay, ThingAwaited, ListAwaited, Awaited, AddsThings

\* The thing's page leaves the screen.
LEMMA ThingLeaves ==
  ASSUME NEW w, OnTheWay(w)
  PROVE  LET v == [Disown(w, "thing") EXCEPT !.thing = NewThing, !.box.live = FALSE]
         IN  /\ OnTheWay(v) /\ SamePlace(w, v) /\ KeepsBusy(w, v)
             /\ \A c \in DOMAIN v.calls : c.owner # "thing"
             /\ ListAwaited(w) => ListAwaited(v)
             /\ PostBusy(v) /\ v.list = w.list
             /\ \A k : Flying(v, k, "list") <=> Flying(w, k, "list")
<1> DEFINE u == Disown(w, "thing")
           v == [u EXCEPT !.thing = NewThing, !.box.live = FALSE]
<1>0. w \in Worlds /\ AddsThings(w) /\ FormOk(w.thing.form)
  BY DEF OnTheWay
<1>1. Disowned(w, "thing", u)
  BY <1>0, DisownIs DEF Owners
<1> HIDE DEF u
<1> HIDE DEF v
<1>2. /\ v \in Worlds /\ SamePlace(w, v)
      /\ AddsThings(v) /\ v.thing = NewThing /\ v.logging = w.logging /\ v.list = w.list
      /\ v.calls = u.calls
  <2>1. /\ v \in Worlds /\ v.page = w.page /\ v.viewed = w.viewed /\ v.auth = w.auth
        /\ AddsThings(v) /\ v.thing = NewThing /\ v.logging = w.logging /\ v.list = w.list
        /\ v.calls = u.calls
    BY <1>0, <1>1, Unmounting DEF v
  <2> QED BY <2>1 DEF SamePlace
<1>3. FormOk(NewThing.form) /\ NewThing.submitting = FALSE
  BY DEF NewThing, NoForm, NoNames, FormOk
<1>4. OnTheWay(v)
  BY <1>2, <1>3 DEF OnTheWay, SamePlace
<1>5. \A c \in DOMAIN v.calls : ~IsPost(c)
  BY <1>0, <1>1, <1>2, DisownedPosts
<1>6. PostBusy(v)
  BY <1>2, <1>3, <1>5 DEF PostBusy, Flying, IsPost
<1>7. \A k, p : p \notin {"thing", "gone"} => (Flying(v, k, p) <=> Flying(w, k, p))
  BY <1>1, <1>2, DisownedFlying DEF Flying
<1>8. Signed(w) => Signed(v)
  BY <1>1, <1>2 DEF Disowned, Signed, SamePlace, Worlds
<1>9. KeepsBusy(w, v)
  BY <1>2, <1>6, <1>7, <1>8 DEF KeepsBusy, LoginBusy, ListBusy
<1>10. \A c \in DOMAIN v.calls : c.owner # "thing"
  BY <1>1, <1>2 DEF Disowned
<1>11. ListAwaited(w) => ListAwaited(v)
  BY <1>1, <1>2 DEF Disowned, ListAwaited, SamePlace
<1> QED BY <1>2, <1>4, <1>6, <1>7, <1>9, <1>10, <1>11 DEF v, u

\* The list leaves the screen.
LEMMA ListLeaves ==
  ASSUME NEW w, OnTheWay(w)
  PROVE  LET v == [Disown(w, "list") EXCEPT !.list = NewList]
         IN  /\ OnTheWay(v) /\ SamePlace(w, v) /\ KeepsBusy(w, v)
             /\ \A c \in DOMAIN v.calls : c.owner # "list"
             /\ ThingAwaited(w) => ThingAwaited(v)
             /\ ListBusy(v)
<1> DEFINE u == Disown(w, "list")
           v == [u EXCEPT !.list = NewList]
<1>0. w \in Worlds /\ AddsThings(w)
  BY DEF OnTheWay
<1>1. Disowned(w, "list", u)
  BY <1>0, DisownIs DEF Owners
<1> HIDE DEF u
<1>2. NewList \in Lists /\ NewList.querying = FALSE
  BY NewCallIsCall, ThingsAssumption, LenProperties DEF NewList, Lists
<1>3. u \in Worlds
  BY <1>1 DEF Disowned
<1>4. /\ u.page = w.page /\ u.viewed = w.viewed /\ u.auth = w.auth /\ u.thing = w.thing
      /\ u.logging = w.logging
  BY <1>0, <1>1 DEF Disowned, Worlds
<1>5. /\ v \in Worlds /\ v.page = u.page /\ v.viewed = u.viewed /\ v.auth = u.auth
      /\ v.thing = u.thing /\ v.logging = u.logging /\ v.list = NewList /\ v.calls = u.calls
  BY <1>2, <1>3 DEF Worlds
<1> HIDE DEF v
<1>6. SamePlace(w, v)
  BY <1>4, <1>5 DEF SamePlace
<1>7. OnTheWay(v)
  BY <1>0, <1>1, <1>4, <1>5 DEF OnTheWay, Disowned, AddsThings
<1>8. \A k, p : p \notin {"list", "gone"} => (Flying(v, k, p) <=> Flying(w, k, p))
  BY <1>1, <1>5, DisownedFlying DEF Flying
<1>9. PostBusy(w) => PostBusy(v)
  <2>1. PostBusy(w) => PostBusy(u)
    BY <1>0, <1>1, DisownedPosts
  <2> QED BY <1>5, <2>1 DEF PostBusy, Flying
<1>10. Signed(w) => Signed(v)
  BY <1>1, <1>5 DEF Disowned, Signed
<1>11. ListBusy(v)
  BY <1>2, <1>5 DEF ListBusy
<1>12. KeepsBusy(w, v)
  BY <1>4, <1>5, <1>8, <1>9, <1>10, <1>11 DEF KeepsBusy, LoginBusy
<1>13. /\ \A c \in DOMAIN v.calls : c.owner # "list"
       /\ ThingAwaited(w) => ThingAwaited(v)
  BY <1>1, <1>4, <1>5 DEF Disowned, ThingAwaited
<1> QED BY <1>6, <1>7, <1>11, <1>12, <1>13 DEF v, u

\* The login form leaves the screen.
LEMMA LoginLeaves ==
  ASSUME NEW w, OnTheWay(w)
  PROVE  LET v == [Disown(w, "login") EXCEPT !.logging = FALSE]
         IN  /\ OnTheWay(v) /\ SamePlace(w, v) /\ KeepsBusy(w, v)
             /\ ThingAwaited(w) => ThingAwaited(v)
             /\ ListAwaited(w) => ListAwaited(v)
<1> DEFINE u == Disown(w, "login")
           v == [u EXCEPT !.logging = FALSE]
<1>0. w \in Worlds /\ AddsThings(w)
  BY DEF OnTheWay
<1>1. Disowned(w, "login", u)
  BY <1>0, DisownIs DEF Owners
<1> HIDE DEF u
<1>3. u \in Worlds
  BY <1>1 DEF Disowned
<1>4. /\ u.page = w.page /\ u.viewed = w.viewed /\ u.auth = w.auth /\ u.thing = w.thing
      /\ u.list = w.list
  BY <1>0, <1>1 DEF Disowned, Worlds
<1>5. /\ v \in Worlds /\ v.page = u.page /\ v.viewed = u.viewed /\ v.auth = u.auth
      /\ v.thing = u.thing /\ v.logging = FALSE /\ v.list = u.list /\ v.calls = u.calls
  BY <1>3 DEF Worlds
<1> HIDE DEF v
<1>6. SamePlace(w, v)
  BY <1>4, <1>5 DEF SamePlace
<1>7. OnTheWay(v)
  BY <1>0, <1>1, <1>4, <1>5 DEF OnTheWay, Disowned, AddsThings
<1>8. \A k, p : p \notin {"login", "gone"} => (Flying(v, k, p) <=> Flying(w, k, p))
  BY <1>1, <1>5, DisownedFlying DEF Flying
<1>9. PostBusy(w) => PostBusy(v)
  <2>1. PostBusy(w) => PostBusy(u)
    BY <1>0, <1>1, DisownedPosts
  <2> QED BY <1>5, <2>1 DEF PostBusy, Flying
<1>10. Signed(w) => Signed(v)
  BY <1>1, <1>5 DEF Disowned, Signed
<1>12. KeepsBusy(w, v)
  BY <1>4, <1>5, <1>8, <1>9, <1>10 DEF KeepsBusy, LoginBusy, ListBusy
<1>13. /\ ThingAwaited(w) => ThingAwaited(v)
       /\ ListAwaited(w) => ListAwaited(v)
  BY <1>1, <1>4, <1>5 DEF Disowned, ThingAwaited, ListAwaited
<1> QED BY <1>6, <1>7, <1>12, <1>13 DEF v, u

\* A navigation is sound from every page to every page, and ends on the login
\* page if there are no credentials.
LEMMA GoToSound ==
  ASSUME NEW w, Sound(w), NEW p \in Pages, NEW t \in Ids \cup {NoThing},
         p = "Thing" => t # NoThing
  PROVE  LET v == GoTo(w, p, t)
         IN  /\ Sound(v) /\ Keeps(w, v) /\ LoggedOut(v) /\ v.auth = w.auth
             /\ w.page = "Thing" /\ v.page # "Thing" => PostBusy(v)
             /\ w.page # "Login" /\ v.page = "Login" => ListBusy(v)
             /\ v.page = Route(w.auth, p)
<1> DEFINE to == Route(w.auth, p)
           w1 == [w EXCEPT !.page = to, !.viewed = IF to = "Thing" THEN t ELSE NoThing]
           w2 == IF w.page = "Thing" /\ to # "Thing"
                 THEN [Disown(w1, "thing") EXCEPT !.thing = NewThing, !.box.live = FALSE]
                 ELSE w1
           w3 == IF w.page # "Login" /\ to = "Login"
                 THEN [Disown(w2, "list") EXCEPT !.list = NewList] ELSE w2
           w4 == IF w.page = "Login" /\ to # "Login"
                 THEN [Disown(w3, "login") EXCEPT !.logging = FALSE] ELSE w3
           v == CASE to # "Thing" -> w4
                  [] to = "Thing" /\ w.page # "Thing" -> MountThing(w4)
                  [] to = "Thing" /\ w.page = "Thing" /\ t # w.viewed -> [w4 EXCEPT !.thing.result = ""]
                  [] OTHER -> w4
           At(x) == x.page = to /\ x.auth = w.auth
<1>0. w \in Worlds /\ OnTheWay(w) /\ ThingAwaited(w) /\ ListAwaited(w)
  BY SoundIs DEF Sound
<1>1. v = GoTo(w, p, t)
  BY DEF GoTo
<1>2. /\ to \in Pages /\ (to = "Thing" => p = "Thing")
      /\ (w.auth = "" => to = "Login")
  BY DEF Pages, Route
<1> HIDE DEF to
<1>3. /\ OnTheWay(w1) /\ At(w1) /\ w1.calls = w.calls /\ w1.list = w.list
      /\ w1.thing = w.thing /\ w1.logging = w.logging
  <2> DEFINE n == IF to = "Thing" THEN t ELSE NoThing
  <2>1. n \in Ids \cup {NoThing} /\ (to = "Thing" <=> n # NoThing)
    BY <1>2
  <2> HIDE DEF n
  <2>2. w1 = [w EXCEPT !.page = to, !.viewed = n]
    BY DEF n
  <2>3. w1 \in Worlds
    BY <1>0, <1>2, <2>1, <2>2 DEF Worlds, Pages
  <2>4. /\ w1.page = to /\ w1.viewed = n /\ w1.auth = w.auth /\ w1.calls = w.calls
        /\ w1.list = w.list /\ w1.thing = w.thing /\ w1.logging = w.logging
    BY <1>0, <2>2 DEF Worlds
  <2> HIDE DEF w1
  <2> QED BY <1>0, <2>1, <2>3, <2>4 DEF OnTheWay, AddsThings
<1> HIDE DEF w1
<1>4. KeepsBusy(w, w1)
  BY <1>3 DEF KeepsBusy, LoginBusy, ListBusy, PostBusy, Signed, Flying
<1>5. w.page = "Thing" => PostBusy(w2) \/ to = "Thing"
  <2>1. CASE w.page = "Thing" /\ to # "Thing"
    BY <1>3, <2>1, ThingLeaves
  <2> QED BY <2>1
<1>6. /\ OnTheWay(w2) /\ At(w2) /\ KeepsBusy(w, w2) /\ ThingAwaited(w2)
      /\ \A c \in DOMAIN w2.calls : c.owner = "list" => w.page # "Login"
  <2>1. CASE w.page = "Thing" /\ to # "Thing"
    <3>1. /\ OnTheWay(w2) /\ SamePlace(w1, w2) /\ KeepsBusy(w1, w2)
          /\ \A c \in DOMAIN w2.calls : c.owner # "thing"
      BY <1>3, <2>1, ThingLeaves
    <3> QED BY <1>3, <1>4, <2>1, <3>1 DEF SamePlace, KeepsBusy, ThingAwaited
  <2>2. CASE ~(w.page = "Thing" /\ to # "Thing")
    <3>1. w2 = w1
      BY <2>2
    <3>2. ThingAwaited(w1)
      BY <1>0, <1>3, <2>2 DEF ThingAwaited
    <3> QED BY <1>0, <1>3, <1>4, <3>1, <3>2 DEF ListAwaited
  <2> QED BY <2>1, <2>2
<1> HIDE DEF w2
<1>7. /\ OnTheWay(w3) /\ At(w3) /\ KeepsBusy(w2, w3) /\ ThingAwaited(w3) /\ ListAwaited(w3)
      /\ (w.page # "Login" /\ to = "Login" => ListBusy(w3))
  <2>1. CASE w.page # "Login" /\ to = "Login"
    <3>1. /\ OnTheWay(w3) /\ SamePlace(w2, w3) /\ KeepsBusy(w2, w3)
          /\ \A c \in DOMAIN w3.calls : c.owner # "list"
          /\ ThingAwaited(w2) => ThingAwaited(w3)
          /\ ListBusy(w3)
      BY <1>6, <2>1, ListLeaves
    <3> QED BY <1>6, <3>1 DEF SamePlace, ListAwaited
  <2>2. CASE ~(w.page # "Login" /\ to = "Login")
    <3>1. w3 = w2
      BY <2>2
    <3>2. ListAwaited(w2)
      BY <1>6, <2>2 DEF ListAwaited
    <3> QED BY <1>6, <2>2, <3>1, <3>2 DEF KeepsBusy
  <2> QED BY <2>1, <2>2
<1> HIDE DEF w3
<1>8. /\ OnTheWay(w4) /\ At(w4) /\ KeepsBusy(w3, w4) /\ ThingAwaited(w4) /\ ListAwaited(w4)
  <2>1. CASE w.page = "Login" /\ to # "Login"
    BY <1>7, <2>1, LoginLeaves DEF SamePlace
  <2>2. CASE ~(w.page = "Login" /\ to # "Login")
    <3>1. w4 = w3
      BY <2>2
    <3> QED BY <1>7, <3>1 DEF KeepsBusy
  <2> QED BY <2>1, <2>2
<1> HIDE DEF w4
<1>9. Sound(w4) /\ LoggedOut(w4)
  BY <1>2, <1>8, SoundIs DEF LoggedOut
<1>10. Sound(v) /\ Keeps(w4, v) /\ At(v)
  <2>1. CASE v = w4
    BY <1>8, <1>9, <2>1, KeepsSelf
  <2>2. CASE to = "Thing" /\ w.page # "Thing"
    <3>1. v = MountThing(w4)
      BY <2>2
    <3> QED BY <1>8, <1>9, <2>2, <3>1, MountThingSound DEF SamePlace
  <2>3. CASE v = [w4 EXCEPT !.thing.result = ""]
    <3> DEFINE s == [w4.thing EXCEPT !.result = ""]
    <3>1. w4 \in Worlds /\ w4.thing \in ThingStates
      BY <1>9 DEF Sound, Worlds
    <3>2. s \in ThingStates /\ s.form = w4.thing.form /\ s.submitting = w4.thing.submitting
      BY <3>1 DEF ThingStates
    <3>3. v = [w4 EXCEPT !.thing = s]
      BY <2>3, <3>1 DEF Worlds
    <3> HIDE DEF s, v
    <3>4. /\ v \in Worlds /\ SamePlace(w4, v) /\ v.calls = w4.calls /\ v.thing = s
          /\ v.logging = w4.logging /\ v.list = w4.list
      BY <3>1, <3>2, <3>3 DEF Worlds, SamePlace
    <3>5. Sound(v)
      BY <1>9, <3>2, <3>4 DEF Sound, Awaited, SamePlace
    <3>6. Keeps(w4, v)
      BY <3>2, <3>4 DEF Keeps, SamePlace, LoggedOut, LoginBusy, ListBusy, PostBusy, Flying, Signed
    <3> QED BY <1>8, <3>4, <3>5, <3>6 DEF SamePlace
  <2> QED BY <2>1, <2>2, <2>3
<1> HIDE DEF v
<1>11. KeepsBusy(w, v)
  BY <1>6, <1>7, <1>8, <1>10 DEF KeepsBusy, Keeps
<1>12. LoggedOut(v)
  BY <1>9, <1>10 DEF Keeps
<1>13. Keeps(w, v)
  BY <1>11, <1>12 DEF KeepsBusy, Keeps
<1>14. w.page = "Thing" /\ v.page # "Thing" => PostBusy(v)
  BY <1>5, <1>7, <1>8, <1>10 DEF KeepsBusy, Keeps
<1>15. w.page # "Login" /\ v.page = "Login" => ListBusy(v)
  BY <1>7, <1>8, <1>10 DEF KeepsBusy, Keeps
<1> QED BY <1>1, <1>10, <1>12, <1>13, <1>14, <1>15 DEF to

-----------------------------------------------------------------------------
(* The things of the server, in its order.                                 *)

\* Induction, for a set.
LEMMA NatSetInduction ==
  ASSUME NEW S, 0 \in S, \A n \in Nat : n \in S => n + 1 \in S
  PROVE  Nat \subseteq S
<1> DEFINE T == Nat \ S
<1>1. SUFFICES ASSUME T # {} PROVE FALSE
  OBVIOUS
<1>2. PICK m \in T : \A j \in T : ~(<<j, m>> \in OpToRel(<, Nat))
  <2>1. IsWellFoundedOn(OpToRel(<, Nat), Nat)
    BY NatLessThanWellFounded
  <2>2. T \subseteq Nat /\ T # {}
    BY <1>1
  <2> HIDE DEF T
  <2> QED  BY <2>1, <2>2, WFMin
<1>3. m \in Nat /\ m # 0 /\ m - 1 \in Nat
  <2>1. m \in Nat /\ m \notin S
    OBVIOUS
  <2>2. m # 0
    BY <2>1
  <2> QED  BY <2>1, <2>2
<1>4. <<m - 1, m>> \in OpToRel(<, Nat)
  <2>1. <<m - 1, m>> \in Nat \X Nat /\ m - 1 < m
    BY <1>3
  <2>2. <<m - 1, m>> \in {ss \in Nat \X Nat : ss[1] < ss[2]}
    BY <2>1
  <2> QED  BY <2>2 DEF OpToRel
<1>5. m - 1 \in S
  BY <1>2, <1>3, <1>4
<1>6. (m - 1) + 1 = m
  BY <1>3
<1> QED  BY <1>2, <1>3, <1>5, <1>6

OrderStep(n, prev) ==
  [S \in SUBSET Ids |->
     IF n = 0 THEN <<>>
     ELSE prev[S] \o (IF Things[n] \in S THEN <<Things[n]>> ELSE <<>>)]
OrderTo(m, f) == f = [n \in 0 .. m |-> OrderStep(n, f[n - 1])]

\* By induction: there is such a function of every length.
LEMMA OrderExists == \A m \in Nat : \E f : OrderTo(m, f)
<1> DEFINE S == {m \in Nat : \E f : OrderTo(m, f)}
<1>1. 0 \in S
  <2> DEFINE g == [n \in 0 .. 0 |-> [U \in SUBSET Ids |-> <<>>]]
  <2>1. ASSUME NEW n \in 0 .. 0
        PROVE  OrderStep(n, g[n - 1]) = [U \in SUBSET Ids |-> <<>>]
    BY n = 0 DEF OrderStep
  <2>2. OrderTo(0, g)
    <3>1. g = [n \in 0 .. 0 |-> OrderStep(n, g[n - 1])]
      BY <2>1
    <3> HIDE DEF g
    <3> QED  BY <3>1 DEF OrderTo
  <2> HIDE DEF g
  <2> QED  BY <2>2
<1>2. ASSUME NEW m \in Nat, m \in S PROVE m + 1 \in S
  <2>1. PICK f : OrderTo(m, f)
    BY <1>2
  <2> DEFINE g == [n \in 0 .. m + 1 |-> IF n <= m THEN f[n] ELSE OrderStep(m + 1, f[m])]
  <2>2. ASSUME NEW n \in 0 .. m + 1
        PROVE  g[n] = OrderStep(n, g[n - 1])
    <3>1. CASE n = 0
      <4>1. g[0] = f[0] /\ f[0] = OrderStep(0, f[0 - 1])
        BY <2>1 DEF OrderTo
      <4> QED  BY <3>1, <4>1 DEF OrderStep
    <3>2. CASE n # 0 /\ n <= m
      <4>1. g[n] = f[n] /\ g[n - 1] = f[n - 1] /\ n \in 0 .. m
        BY <3>2
      <4>2. f[n] = OrderStep(n, f[n - 1])
        BY <2>1, <4>1 DEF OrderTo
      <4> QED  BY <4>1, <4>2
    <3>3. CASE n = m + 1
      <4>1. g[n] = OrderStep(m + 1, f[m]) /\ g[n - 1] = f[m]
        BY <3>3
      <4> HIDE DEF g
      <4> QED  BY <3>3, <4>1
    <3> QED  BY <3>1, <3>2, <3>3
  <2>3. g = [n \in 0 .. m + 1 |-> OrderStep(n, g[n - 1])]
    <3>1. g = [n \in 0 .. m + 1 |-> g[n]]
      OBVIOUS
    <3> HIDE DEF g
    <3> QED  BY <2>2, <3>1
  <2> HIDE DEF g
  <2>4. OrderTo(m + 1, g)
    BY <2>3 DEF OrderTo
  <2> QED  BY <2>4
<1> HIDE DEF S
<1>3. Nat \subseteq S
  BY <1>1, <1>2, NatSetInduction
<1> QED  BY <1>3 DEF S

\* InOrder is it.
LEMMA InOrderIs ==
  ASSUME NEW n \in 0 .. Len(Things)
  PROVE  InOrder[n] = OrderStep(n, InOrder[n - 1])
<1>0. Len(Things) \in Nat
  BY ThingsAssumption, LenProperties
<1>1. \E f : OrderTo(Len(Things), f)
  BY <1>0, OrderExists
<1>2. InOrder = CHOOSE f : OrderTo(Len(Things), f)
  BY DEF InOrder, OrderTo, OrderStep
<1>3. OrderTo(Len(Things), InOrder)
  BY <1>1, <1>2
<1> QED  BY <1>3 DEF OrderTo

\* The server has no more than all things.
LEMMA ContentIs ==
  ASSUME exists \subseteq Ids
  PROVE  Content \in Seq(Ids) /\ Len(Content) <= Len(Things)
<1> DEFINE Good(n) == InOrder[n][exists] \in Seq(Ids) /\ Len(InOrder[n][exists]) <= n
           S == {n \in Nat : n <= Len(Things) => Good(n)}
<1>0. Len(Things) \in Nat /\ Things \in Seq(Ids)
  BY ThingsAssumption, LenProperties
<1>1. 0 \in S
  <2>1. InOrder[0] = OrderStep(0, InOrder[0 - 1])
    BY <1>0, InOrderIs
  <2>2. InOrder[0][exists] = <<>>
    BY <2>1 DEF OrderStep
  <2> DEFINE z == InOrder[0][exists]
  <2>3. z \in Seq(Ids) /\ Len(z) = 0
    BY <2>2, EmptySeq
  <2> HIDE DEF z
  <2>4. Len(z) <= 0
    BY <2>3
  <2> QED  BY <2>3, <2>4 DEF z
<1>2. ASSUME NEW n \in Nat, n \in S PROVE n + 1 \in S
  <2>1. SUFFICES ASSUME n + 1 <= Len(Things) PROVE Good(n + 1)
    BY <1>2
  <2>2. Good(n)
    BY <1>0, <1>2, <2>1
  <2> DEFINE q == InOrder[n][exists]
             r == IF Things[n + 1] \in exists THEN <<Things[n + 1]>> ELSE <<>>
  <2>3. InOrder[n + 1][exists] = q \o r
    <3>1. n + 1 \in 0 .. Len(Things) /\ n + 1 # 0 /\ (n + 1) - 1 = n
      BY <1>0, <2>1
    <3>2. InOrder[n + 1] = OrderStep(n + 1, InOrder[n])
      BY <3>1, InOrderIs
    <3> QED  BY <3>1, <3>2 DEF OrderStep
  <2>4. r \in Seq(Ids) /\ Len(r) \in {0, 1}
    <3>1. Things[n + 1] \in Ids
      BY <1>0, <2>1, ElementOfSeq
    <3> QED  BY <3>1
  <2>5. q \in Seq(Ids) /\ Len(q) <= n
    BY <2>2
  <2> HIDE DEF q, r
  <2>6. q \o r \in Seq(Ids) /\ Len(q \o r) = Len(q) + Len(r)
    BY <2>4, <2>5, ConcatProperties
  <2>7. Len(q) \in Nat
    BY <2>5, LenProperties
  <2> DEFINE k == Len(q)
             l == Len(r)
  <2>8. k + l <= n + 1
    <3>1. k \in Nat /\ k <= n /\ l \in {0, 1}
      BY <2>4, <2>5, <2>7
    <3> HIDE DEF k, l
    <3> QED  BY ONLY <3>1, n \in Nat
  <2>9. Len(q \o r) <= n + 1
    BY <2>6, <2>8
  <2> QED  BY <2>3, <2>6, <2>9
<1> HIDE DEF S
<1>3. Nat \subseteq S
  BY <1>1, <1>2, NatSetInduction
<1>4. Good(Len(Things))
  BY <1>0, <1>3 DEF S
<1> QED  BY <1>4 DEF Content

-----------------------------------------------------------------------------
(* The answers.                                                            *)

\* Call c was taken out of w: what it was the cause of has none now.
Open(w, c) ==
  /\ Sound(w) /\ LoggedOut(w) /\ c \in Calls
  /\ c.owner = "list" => w.page # "Login"
  /\ c.owner = "thing" => w.page = "Thing"
  /\ c.kind = "add" => c.thing \in Ids
  /\ ~(c.kind = "things" /\ c.owner = "login") => LoginBusy(w)
  /\ ~(c.kind = "query" /\ c.owner = "list") => ListBusy(w)
  /\ ~IsPost(c) => PostBusy(w)
  /\ \A d \in DOMAIN w.calls : IsPost(c) => ~IsPost(d)

Taken(w, c) == [w EXCEPT !.calls = @ (-) SetToBag({c})]

\* What keeps everything keeps a fine world fine.
LEMMA FineKept ==
  ASSUME NEW w, Fine(w), NEW v, Sound(v), Keeps(w, v)
  PROVE  Fine(v)
BY DEF Fine, Keeps

\* A call that is answered is taken out.
LEMMA TakenOpen ==
  ASSUME NEW w, Fine(w), NEW c \in DOMAIN w.calls
  PROVE  /\ Open(Taken(w, c), c) /\ SamePlace(w, Taken(w, c))
         /\ Signed(w) => Signed(Taken(w, c))
<1> DEFINE b == w.calls (-) SetToBag({c})
           u == [w EXCEPT !.calls = b]
<1>0. w \in Worlds /\ w.calls \in CallBags
  BY DEF Fine, Sound, Worlds
<1>1. /\ b \in CallBags
      /\ DOMAIN b \subseteq DOMAIN w.calls /\ DOMAIN w.calls \ {c} \subseteq DOMAIN b
      /\ \A d \in DOMAIN w.calls \ {c} : b[d] = w.calls[d]
      /\ w.calls[c] = 1 => c \notin DOMAIN b
  BY <1>0, RemovedCall
<1> HIDE DEF b
<1>2. /\ u \in Worlds /\ u.calls = b /\ SamePlace(w, u) /\ u.logging = w.logging
      /\ u.list = w.list /\ u.thing = w.thing
  BY <1>0, <1>1 DEF Worlds, SamePlace
<1>3. Taken(w, c) = u
  BY DEF Taken, b
<1> HIDE DEF u
<1>4. Sound(u)
  BY <1>1, <1>2 DEF Fine, Sound, Awaited, SamePlace
<1>5. LoggedOut(u)
  BY <1>2 DEF Fine, LoggedOut, SamePlace
<1>6. /\ c \in Calls
      /\ c.owner = "list" => u.page # "Login"
      /\ c.owner = "thing" => u.page = "Thing"
      /\ c.kind = "add" => c.thing \in Ids
  BY <1>0, <1>2, BagOf DEF Fine, Sound, Awaited, SamePlace
<1>7. \A k, o : ~(c.kind = k /\ c.owner = o) /\ Flying(w, k, o) => Flying(u, k, o)
  BY <1>1, <1>2 DEF Flying
<1>8. /\ ~(c.kind = "things" /\ c.owner = "login") => LoginBusy(u)
      /\ ~(c.kind = "query" /\ c.owner = "list") => ListBusy(u)
  BY <1>2, <1>7 DEF Fine, LoginBusy, ListBusy
<1>9. ~IsPost(c) => PostBusy(u)
  <2>1. SUFFICES ASSUME ~IsPost(c) PROVE PostBusy(u)
    OBVIOUS
  <2>2. \A d : d \in DOMAIN b /\ IsPost(d) <=> d \in DOMAIN w.calls /\ IsPost(d)
    BY <1>1, <2>1
  <2>3. \A d \in DOMAIN w.calls : IsPost(d) => b[d] = w.calls[d]
    BY <1>1, <2>1
  <2> QED BY <1>2, <2>2, <2>3 DEF Fine, PostBusy, Flying, IsPost
<1>10. \A d \in DOMAIN u.calls : IsPost(c) => ~IsPost(d)
  BY <1>1, <1>2 DEF Fine, PostBusy
<1>11. Signed(w) => Signed(u)
  BY <1>1, <1>2 DEF Signed, SamePlace
<1>12. Open(u, c)
  BY <1>4, <1>5, <1>6, <1>8, <1>9, <1>10 DEF Open
<1> QED BY <1>2, <1>3, <1>11, <1>12

\* The login form hears of the answer it waits for.
LEMMA LoginReturnsFine ==
  ASSUME NEW w, Sound(w), LoggedOut(w), ListBusy(w), PostBusy(w), NEW c,
         c.owner # "login" => LoginBusy(w), NEW ok \in BOOLEAN
  PROVE  /\ Fine(LoginReturns(w, c, ok))
         /\ Signed(w) => Signed(LoginReturns(w, c, ok))
<1> DEFINE x == [w EXCEPT !.logging = FALSE]
           u == IF c.owner = "login" THEN x ELSE w
<1>0. w \in Worlds
  BY DEF Sound
<1>1. /\ x \in Worlds /\ x.logging = FALSE /\ SamePlace(w, x) /\ x.calls = w.calls
      /\ x.list = w.list /\ x.thing = w.thing
  BY <1>0 DEF Worlds, SamePlace
<1> HIDE DEF x
<1>2. Fine(u) /\ (Signed(w) => Signed(u))
  <2>1. CASE c.owner = "login"
    <3>1. Sound(x)
      BY <1>1 DEF Sound, Awaited, SamePlace
    <3>2. LoggedOut(x) /\ LoginBusy(x) /\ ListBusy(x) /\ PostBusy(x)
      BY <1>1, ZenonT(40) DEF SamePlace, LoggedOut, LoginBusy, ListBusy, PostBusy, Flying
    <3>3. Signed(w) => Signed(x)
      BY <1>1 DEF Signed, SamePlace
    <3> QED BY <2>1, <3>1, <3>2, <3>3 DEF Fine
  <2>2. CASE c.owner # "login"
    BY <2>2 DEF Fine
  <2> QED BY <2>1, <2>2
<1>3. LoginReturns(w, c, ok) = IF c.login /\ ok THEN GoTo(u, "List", NoThing) ELSE u
  BY DEF LoginReturns, x
<1> HIDE DEF u
<1>4. Sound(GoTo(u, "List", NoThing)) /\ Keeps(u, GoTo(u, "List", NoThing))
  <2>1. Sound(u)
    BY <1>2 DEF Fine
  <2> QED BY <2>1, GoToSound DEF Pages
<1>5. Fine(GoTo(u, "List", NoThing))
  BY <1>2, <1>4, FineKept
<1> QED BY <1>2, <1>3, <1>4, <1>5 DEF Keeps

\* The next page is asked for, or the things are there.
LEMMA ThingsAnsweredFine ==
  ASSUME NEW w, NEW c, Open(w, c), c.kind = "things", Content \in Seq(Ids)
  PROVE  /\ Fine(ThingsAnswered(w, c))
         /\ Signed(w) => Signed(ThingsAnswered(w, c))
<1> DEFINE n == NextPage(c)
<1>0. w \in Worlds /\ c \in Calls
  BY DEF Open, Sound
<1>1. /\ n \in Calls /\ n.kind = c.kind /\ n.owner = c.owner
  <2> DEFINE r == PageOf(Content, Len(c.got) + 1)
             g == c.got \o r
  <2>1. c.got \in Seq(Ids)
    BY <1>0 DEF Calls
  <2>2. r \in Seq(Ids)
    <3>1. Len(c.got) \in Nat
      BY <2>1, LenProperties
    <3>2. CASE Len(c.got) + 1 <= Len(Content)
      <4>1. Content[Len(c.got) + 1] \in Ids
        BY <3>1, <3>2, ElementOfSeq, LenProperties
      <4> QED BY <3>2, <4>1 DEF PageOf
    <3>3. CASE ~(Len(c.got) + 1 <= Len(Content))
      BY <3>3 DEF PageOf
    <3> QED BY <3>2, <3>3
  <2> HIDE DEF r
  <2>3. g \in Seq(Ids)
    BY <2>1, <2>2, ConcatProperties
  <2>4. n = [c EXCEPT !.got = g]
    BY DEF NextPage, r
  <2> HIDE DEF g, n
  <2> QED BY <1>0, <2>3, <2>4 DEF Calls
<1> HIDE DEF n
<1>2. CASE Len(n.got) < Len(Content)
  <2>1. ThingsAnswered(w, c) = Send(w, n)
    BY <1>2 DEF ThingsAnswered, n
  <2>2. MaySend(w, n)
    BY <1>1 DEF MaySend, Open
  <2>3. /\ Sound(Send(w, n)) /\ Keeps(w, Send(w, n)) /\ Flying(Send(w, n), n.kind, n.owner)
    BY <2>2, SendSound DEF Open
  <2>4. LoginBusy(Send(w, n))
    <3>1. CASE c.owner = "login"
      BY <1>1, <2>3, <3>1 DEF LoginBusy
    <3>2. CASE c.owner # "login"
      BY <2>3, <3>2 DEF Keeps, Open
    <3> QED BY <3>1, <3>2
  <2>5. LoggedOut(w) /\ ListBusy(w) /\ PostBusy(w)
    BY DEF Open, IsPost
  <2> QED BY <2>1, <2>3, <2>4, <2>5 DEF Fine, Keeps
<1>3. CASE ~(Len(n.got) < Len(Content))
  <2> DEFINE T == Range(n.got)
             x == [w EXCEPT !.things = T]
  <2>1. T \subseteq Ids
    <3>1. n.got \in Seq(Ids)
      BY <1>1 DEF Calls
    <3> QED BY <3>1, RangeOfSeq
  <2> HIDE DEF T
  <2>2. /\ x \in Worlds /\ SamePlace(w, x) /\ x.calls = w.calls
        /\ x.list = w.list /\ x.thing = w.thing /\ x.logging = w.logging
    BY <1>0, <2>1 DEF Worlds, SamePlace
  <2> HIDE DEF x
  <2>3. ThingsAnswered(w, c) = LoginReturns(x, c, TRUE)
    BY <1>3 DEF ThingsAnswered, n, x, T
  <2>4. Sound(x)
    BY <2>2 DEF Open, Sound, Awaited, SamePlace
  <2>5. LoggedOut(w) /\ ListBusy(w) /\ PostBusy(w) /\ (c.owner # "login" => LoginBusy(w))
    BY DEF Open, IsPost
  <2>6. /\ LoggedOut(x) /\ ListBusy(x) /\ PostBusy(x) /\ (c.owner # "login" => LoginBusy(x))
    <3>1. LoggedOut(x) /\ ListBusy(x)
      BY <2>2, <2>5 DEF SamePlace, LoggedOut, ListBusy, Flying
    <3>2. PostBusy(x)
      BY <2>2, <2>5 DEF PostBusy, Flying
    <3>3. c.owner # "login" => LoginBusy(x)
      BY <2>2, <2>5 DEF LoginBusy, Flying
    <3> QED BY <3>1, <3>2, <3>3
  <2>7. Signed(w) => Signed(x)
    BY <2>2 DEF Signed, SamePlace
  <2> QED BY <2>3, <2>4, <2>6, <2>7, LoginReturnsFine
<1> QED BY <1>2, <1>3

\* An open world is fine if the call was nobody's.
LEMMA OpenFine ==
  ASSUME NEW w, NEW c, Open(w, c), ~(c.kind = "things" /\ c.owner = "login"),
         ~(c.kind = "query" /\ c.owner = "list"), ~IsPost(c)
  PROVE  Fine(w)
BY DEF Open, Fine

\* A change of the list that lowers the overlay.
LEMMA ListShown ==
  ASSUME NEW w, NEW c, Open(w, c), c.kind = "query", NEW l \in Lists, l.querying = FALSE,
         NEW v, v = [w EXCEPT !.list = l]
  PROVE  Fine(v) /\ (Signed(w) => Signed(v))
<1>0. w \in Worlds
  BY DEF Open, Sound
<1>1. /\ v \in Worlds /\ SamePlace(w, v) /\ v.calls = w.calls /\ v.list = l
      /\ v.thing = w.thing /\ v.logging = w.logging
  BY <1>0 DEF Worlds, SamePlace
<1>2. Sound(v)
  BY <1>1 DEF Open, Sound, Awaited, SamePlace
<1>3. LoggedOut(w) /\ LoginBusy(w) /\ PostBusy(w)
  BY DEF Open, IsPost
<1>4. LoggedOut(v) /\ LoginBusy(v) /\ ListBusy(v) /\ PostBusy(v)
  <2>1. LoggedOut(v) /\ ListBusy(v)
    BY <1>1, <1>3 DEF SamePlace, LoggedOut, ListBusy
  <2>2. PostBusy(v)
    BY <1>1, <1>3 DEF PostBusy, Flying
  <2>3. LoginBusy(v)
    BY <1>1, <1>3 DEF LoginBusy, Flying
  <2> QED BY <2>1, <2>2, <2>3
<1>5. Signed(w) => Signed(v)
  BY <1>1 DEF Signed, SamePlace
<1> QED BY <1>2, <1>4, <1>5 DEF Fine

\* An answer to a query is shown, if the list still waits for it.
LEMMA QueryAnsweredFine ==
  ASSUME NEW w, NEW c, Open(w, c), c.kind = "query",
         Content \in Seq(Ids), Len(Content) <= Len(Things)
  PROVE  /\ Fine(QueryAnswered(w, c))
         /\ Signed(w) => Signed(QueryAnswered(w, c))
<1>1. CASE c.owner # "list"
  <2>1. QueryAnswered(w, c) = w
    BY <1>1 DEF QueryAnswered
  <2>2. Fine(w)
    BY <1>1, OpenFine DEF IsPost
  <2> QED BY <2>1, <2>2
<1>2. CASE c.owner = "list"
  <2> DEFINE rows == Result(c.params.query)
             i == c.params.index
             R == Range(PageOf(rows, i))
             n == Len(rows)
             e == (rows = <<>>)
             r == ResetList(w.list)
             l == [r EXCEPT !.rows = R, !.total = n, !.empty = e, !.querying = FALSE]
  <2>0. w \in Worlds /\ c \in Calls /\ w.list \in Lists
    BY DEF Open, Sound, Worlds
  <2>1. rows \in Seq(Ids) /\ n \in 0 .. Len(Things)
    <3>1. rows = <<>> \/ rows = Content
      BY DEF Result
    <3>2. Len(Things) \in Nat
      BY ThingsAssumption, LenProperties
    <3>3. CASE rows = <<>>
      <4>1. rows \in Seq(Ids) /\ n = 0
        BY <3>3, EmptySeq
      <4> QED BY <3>2, <4>1
    <3>4. CASE rows = Content
      <4>1. n \in Nat /\ n <= Len(Things)
        BY <3>4, LenProperties
      <4> QED BY <3>2, <3>4, <4>1
    <3> QED BY <3>1, <3>3, <3>4
  <2>2. i \in Nat \ {0}
    <3>1. c.params \in Params
      BY <2>0 DEF Calls
    <3>2. i \in 1 .. Len(Things) /\ Len(Things) \in Nat
      BY <3>1, ThingsAssumption, LenProperties DEF Params
    <3> QED BY <3>2
  <2>3. R \subseteq Ids
    <3> HIDE DEF rows, i
    <3>1. CASE i <= Len(rows)
      <4>1. rows[i] \in Ids
        BY <2>1, <2>2, <3>1, ElementOfSeq, LenProperties
      <4>2. PageOf(rows, i) \in Seq(Ids)
        BY <3>1, <4>1 DEF PageOf
      <4> QED BY <4>2, RangeOfSeq
    <3>2. CASE ~(i <= Len(rows))
      <4>1. PageOf(rows, i) \in Seq(Ids)
        BY <3>2 DEF PageOf
      <4> QED BY <4>1, RangeOfSeq
    <3> QED BY <3>1, <3>2
  <2>4. QueryAnswered(w, c) = [w EXCEPT !.list = l]
    BY <1>2, <2>0 DEF QueryAnswered, Worlds
  <2>5. e \in BOOLEAN
    OBVIOUS
  <2> HIDE DEF R, n, e
  <2>6. r \in Lists
    <3>1. 0 \in 0 .. Len(Things)
      BY ThingsAssumption, LenProperties
    <3> QED BY <2>0, <3>1 DEF ResetList, Lists
  <2> HIDE DEF r
  <2>7. l \in Lists /\ l.querying = FALSE
    <3>1. CASE e = TRUE
      BY <2>1, <2>3, <2>6, <3>1 DEF Lists
    <3>2. CASE e = FALSE
      BY <2>1, <2>3, <2>6, <3>2 DEF Lists
    <3> QED BY <2>5, <3>1, <3>2
  <2> HIDE DEF l
  <2> QED BY <2>4, <2>7, ListShown
<1> QED BY <1>1, <1>2

\* A query has failed.
LEMMA QueryFailedFine ==
  ASSUME NEW w, NEW c, Open(w, c), c.kind = "query"
  PROVE  /\ Fine(QueryFailed(w, c))
         /\ Signed(w) => Signed(QueryFailed(w, c))
<1>1. CASE c.owner # "list"
  <2>1. QueryFailed(w, c) = w
    BY <1>1 DEF QueryFailed
  <2>2. Fine(w)
    BY <1>1, OpenFine DEF IsPost
  <2> QED BY <2>1, <2>2
<1>2. CASE c.owner = "list"
  <2> DEFINE r == ResetList(w.list)
             l == [r EXCEPT !.error = TRUE, !.querying = FALSE]
  <2>0. w \in Worlds /\ w.list \in Lists /\ w.page \in Pages
    BY DEF Open, Sound, Worlds, Pages
  <2>1. Mounted(w, "list")
    BY <1>2, <2>0 DEF Open, Mounted, Pages
  <2>2. QueryFailed(w, c) = [w EXCEPT !.list = l]
    BY <1>2, <2>0, <2>1 DEF QueryFailed, Worlds
  <2>3. r \in Lists
    <3>1. 0 \in 0 .. Len(Things)
      BY ThingsAssumption, LenProperties
    <3> QED BY <2>0, <3>1 DEF ResetList, Lists
  <2> HIDE DEF r
  <2>4. l \in Lists /\ l.querying = FALSE
    BY <2>3 DEF Lists
  <2> HIDE DEF l
  <2> QED BY <2>2, <2>4, ListShown
<1> QED BY <1>1, <1>2

\* A change of a thing's page that leaves the spinner alone.
LEMMA ThingShown ==
  ASSUME NEW w, Sound(w), NEW s \in ThingStates, s.submitting = w.thing.submitting,
         FormOk(s.form)
  PROVE  LET v == [w EXCEPT !.thing = s]
         IN  Sound(v) /\ Keeps(w, v) /\ SamePlace(w, v) /\ v.thing = s
<1> DEFINE v == [w EXCEPT !.thing = s]
<1>0. w \in Worlds
  BY DEF Sound
<1>1. /\ v \in Worlds /\ SamePlace(w, v) /\ v.calls = w.calls /\ v.thing = s
      /\ v.logging = w.logging /\ v.list = w.list
  BY <1>0 DEF Worlds, SamePlace
<1> HIDE DEF v
<1>2. Sound(v)
  BY <1>1 DEF Sound, Awaited, SamePlace
<1>3. Keeps(w, v)
  BY <1>1 DEF Keeps, SamePlace, LoggedOut, LoginBusy, ListBusy, PostBusy, Flying, Signed
<1> QED BY <1>1, <1>2, <1>3 DEF v

\* The spinner ends with the only post there was.
LEMMA PosterDoneFine ==
  ASSUME NEW w, NEW c, Open(w, c), IsPost(c), NEW result \in {"ok", "error"}
  PROVE  /\ Fine(PosterDone(w, result))
         /\ Signed(w) => Signed(PosterDone(w, result))
<1> DEFINE s == [w.thing EXCEPT !.submitting = FALSE, !.result = result]
           v == [w EXCEPT !.thing = s]
<1>0. w \in Worlds /\ w.thing \in ThingStates
  BY DEF Open, Sound, Worlds
<1>1. PosterDone(w, result) = v
  BY <1>0 DEF PosterDone, Worlds
<1>2. s \in ThingStates /\ s.submitting = FALSE /\ s.form = w.thing.form
  BY <1>0 DEF ThingStates
<1> HIDE DEF s
<1>3. /\ v \in Worlds /\ SamePlace(w, v) /\ v.calls = w.calls /\ v.thing = s
      /\ v.logging = w.logging /\ v.list = w.list
  BY <1>0, <1>2 DEF Worlds, SamePlace
<1> HIDE DEF v
<1>4. Sound(v)
  BY <1>2, <1>3 DEF Open, Sound, Awaited, SamePlace
<1>5. LoggedOut(w) /\ LoginBusy(w) /\ ListBusy(w) /\ \A d \in DOMAIN w.calls : ~IsPost(d)
  BY DEF Open, IsPost
<1>6. LoggedOut(v) /\ LoginBusy(v) /\ ListBusy(v)
  BY <1>3, <1>5 DEF SamePlace, LoggedOut, LoginBusy, ListBusy, Flying
<1>7. PostBusy(v)
  BY <1>2, <1>3, <1>5 DEF PostBusy, Flying, IsPost
<1>8. Signed(w) => Signed(v)
  BY <1>3 DEF Signed, SamePlace
<1> QED BY <1>1, <1>4, <1>6, <1>7, <1>8 DEF Fine

\* What follows a fine world by an operator that keeps.
LEMMA UpdateCurrentShadowFine ==
  ASSUME NEW w, Fine(w)
  PROVE  /\ Fine(UpdateCurrentShadow(w))
         /\ Signed(w) => Signed(UpdateCurrentShadow(w))
<1>1. Sound(UpdateCurrentShadow(w)) /\ Keeps(w, UpdateCurrentShadow(w))
  BY UpdateCurrentShadowSound DEF Fine
<1> QED BY <1>1, FineKept DEF Keeps

\* A post was answered.
LEMMA PostAnsweredFine ==
  ASSUME NEW w, NEW c, Open(w, c), c.kind = "post"
  PROVE  /\ Fine(PostAnswered(w, c))
         /\ Signed(w) => Signed(PostAnswered(w, c))
<1>1. CASE c.owner # "thing"
  <2>1. PostAnswered(w, c) = w
    BY <1>1 DEF PostAnswered
  <2>2. Fine(w)
    BY <1>1, OpenFine DEF IsPost
  <2> QED BY <2>1, <2>2
<1>2. CASE c.owner = "thing"
  <2>1. PostAnswered(w, c) = UpdateCurrentShadow(PosterDone(w, "ok"))
    BY <1>2 DEF PostAnswered
  <2>2. /\ Fine(PosterDone(w, "ok"))
        /\ Signed(w) => Signed(PosterDone(w, "ok"))
    BY <1>2, PosterDoneFine DEF IsPost
  <2> QED BY <2>1, <2>2, UpdateCurrentShadowFine
<1> QED BY <1>1, <1>2

\* A post has failed.
LEMMA PostFailedFine ==
  ASSUME NEW w, NEW c, Open(w, c), c.kind = "post"
  PROVE  /\ Fine(PostFailed(w, c))
         /\ Signed(w) => Signed(PostFailed(w, c))
<1>1. CASE c.owner # "thing"
  <2>1. PostFailed(w, c) = w
    BY <1>1 DEF PostFailed
  <2>2. Fine(w)
    BY <1>1, OpenFine DEF IsPost
  <2> QED BY <2>1, <2>2
<1>2. CASE c.owner = "thing"
  <2>1. Mounted(w, "thing")
    BY <1>2 DEF Open, Mounted
  <2>2. PostFailed(w, c) = PosterDone(w, "error")
    BY <1>2, <2>1 DEF PostFailed
  <2> QED BY <1>2, <2>2, PosterDoneFine DEF IsPost
<1> QED BY <1>1, <1>2

\* updateThings asks for the first page.
LEMMA UpdateThingsSound ==
  ASSUME NEW w, Sound(w), NEW login \in BOOLEAN
  PROVE  /\ Sound(UpdateThings(w, login)) /\ Keeps(w, UpdateThings(w, login))
         /\ SamePlace(w, UpdateThings(w, login))
         /\ login => LoginBusy(UpdateThings(w, login))
<1> DEFINE o == IF login THEN "login" ELSE "app"
           c == [NewCall EXCEPT !.owner = o, !.login = login]
<1>0. w \in Worlds
  BY DEF Sound
<1>1. c \in Calls /\ c.kind = "things" /\ c.owner = o
  <2>1. o \in Owners
    BY DEF Owners
  <2>2. NewCall \in Calls
    BY NewCallIsCall
  <2> HIDE DEF o
  <2>3. CASE login = TRUE
    BY <2>1, <2>2, <2>3 DEF Calls, NewCall
  <2>4. CASE login = FALSE
    BY <2>1, <2>2, <2>4 DEF Calls, NewCall
  <2> QED BY <2>3, <2>4
<1>2. UpdateThings(w, login) = Send(w, c)
  BY DEF UpdateThings
<1> HIDE DEF c
<1>3. MaySend(w, c)
  BY <1>1 DEF MaySend
<1>4. /\ Sound(Send(w, c)) /\ Keeps(w, Send(w, c)) /\ Flying(Send(w, c), "things", o)
      /\ Send(w, c) = [w EXCEPT !.calls = Send(w, c).calls]
  BY <1>1, <1>3, SendSound
<1>5. SamePlace(w, Send(w, c))
  BY <1>0, <1>4 DEF Worlds, SamePlace
<1>6. login => LoginBusy(Send(w, c))
  BY <1>4 DEF LoginBusy
<1> QED BY <1>2, <1>4, <1>5, <1>6

\* After a thing was added or deleted the list and the things are asked for.
LEMMA ThingsChangedFine ==
  ASSUME NEW w, Fine(w)
  PROVE  /\ Fine(ThingsChanged(w))
         /\ Signed(w) => Signed(ThingsChanged(w))
<1> DEFINE u == UpdateThings(w, FALSE)
<1>1. Sound(u) /\ Keeps(w, u)
  BY UpdateThingsSound DEF Fine
<1>2. Fine(u)
  BY <1>1, FineKept
<1>3. ThingsChanged(w) = Refresh(u)
  BY DEF ThingsChanged
<1> HIDE DEF u
<1>4. Sound(Refresh(u)) /\ Keeps(u, Refresh(u))
  BY <1>2, RefreshSound DEF Fine
<1>5. Fine(Refresh(u))
  BY <1>2, <1>4, FineKept
<1> QED BY <1>1, <1>3, <1>4, <1>5 DEF Keeps

\* The form for a new thing is closed.
LEMMA CloseAddingFormFine ==
  ASSUME NEW w, Fine(w)
  PROVE  /\ Fine(CloseAddingForm(w))
         /\ Signed(w) => Signed(CloseAddingForm(w))
<1> DEFINE u == Disown(w, "adding")
           v == [u EXCEPT !.adding = FALSE]
<1>0. w \in Worlds /\ OnTheWay(w) /\ ThingAwaited(w) /\ ListAwaited(w)
  BY SoundIs DEF Fine, Sound
<1>1. Disowned(w, "adding", u)
  BY <1>0, DisownIs DEF Owners
<1>2. CloseAddingForm(w) = v
  BY DEF CloseAddingForm
<1> HIDE DEF u
<1>3. u \in Worlds
  BY <1>1 DEF Disowned
<1>4. /\ u.page = w.page /\ u.viewed = w.viewed /\ u.auth = w.auth /\ u.thing = w.thing
      /\ u.logging = w.logging /\ u.list = w.list
  BY <1>0, <1>1 DEF Disowned, Worlds
<1>5. /\ v \in Worlds /\ v.page = u.page /\ v.viewed = u.viewed /\ v.auth = u.auth
      /\ v.thing = u.thing /\ v.logging = u.logging /\ v.list = u.list /\ v.calls = u.calls
  BY <1>3 DEF Worlds
<1> HIDE DEF v
<1>6. OnTheWay(v)
  BY <1>0, <1>1, <1>4, <1>5 DEF OnTheWay, Disowned, AddsThings
<1>7. ThingAwaited(v) /\ ListAwaited(v)
  BY <1>0, <1>1, <1>4, <1>5 DEF Disowned, ThingAwaited, ListAwaited
<1>8. \A k, p : p \notin {"adding", "gone"} => (Flying(v, k, p) <=> Flying(w, k, p))
  BY <1>1, <1>5, DisownedFlying DEF Flying
<1>9. PostBusy(v)
  <2>1. PostBusy(u)
    BY <1>0, <1>1, DisownedPosts DEF Fine
  <2> QED BY <1>5, <2>1 DEF PostBusy, Flying
<1>10. Signed(w) => Signed(v)
  BY <1>1, <1>5 DEF Disowned, Signed
<1>11. LoggedOut(v) /\ LoginBusy(v) /\ ListBusy(v)
  BY <1>4, <1>5, <1>8 DEF Fine, LoggedOut, LoginBusy, ListBusy
<1>12. Sound(v)
  BY <1>6, <1>7, SoundIs
<1> QED BY <1>2, <1>9, <1>10, <1>11, <1>12 DEF Fine

\* Every answer leaves all as it should be.
LEMMA AnsweredFine ==
  ASSUME NEW w, NEW c, Open(w, c), Content \in Seq(Ids), Len(Content) <= Len(Things)
  PROVE  /\ Fine(Answered(w, c))
         /\ Signed(w) => Signed(Answered(w, c))
<1> DEFINE Good(v) == Fine(v) /\ (Signed(w) => Signed(v))
<1>0. c \in Calls
  BY DEF Open
<1>1. c.kind \in Kinds
  BY <1>0 DEF Calls
<1>2. CASE c.kind = "things"
  BY <1>2, ThingsAnsweredFine DEF Answered
<1>3. CASE c.kind = "query"
  BY <1>3, QueryAnsweredFine DEF Answered
<1>4. CASE c.kind = "post"
  BY <1>4, PostAnsweredFine DEF Answered
<1>5. ASSUME c.kind \notin {"things", "query", "post"} PROVE Fine(w)
  BY <1>5, OpenFine DEF IsPost
<1>6. CASE c.kind = "delete"
  BY <1>5, <1>6, ThingsChangedFine DEF Answered
<1>7. CASE c.kind = "add"
  <2> DEFINE u == ThingsChanged(w)
  <2>1. Fine(u) /\ (Signed(w) => Signed(u))
    BY <1>5, <1>7, ThingsChangedFine
  <2>2. Answered(w, c) = IF c.owner = "adding" THEN CloseAddingForm(u) ELSE u
    BY <1>7 DEF Answered, AddAnswered
  <2> HIDE DEF u
  <2> QED BY <2>1, <2>2, CloseAddingFormFine
<1>8. CASE c.kind = "getThing"
  <2>0. Fine(w)
    BY <1>5, <1>8
  <2> DEFINE s == [w.thing EXCEPT !.meta = c.thing]
             v == [w EXCEPT !.thing = s]
  <2>1. w \in Worlds /\ w.thing \in ThingStates /\ FormOk(w.thing.form)
    BY <2>0 DEF Fine, Sound, Worlds
  <2>2. s \in ThingStates /\ s.submitting = w.thing.submitting /\ s.form = w.thing.form
    <3>1. c.thing \in Ids \cup {NoThing}
      BY <1>0 DEF Calls
    <3> QED BY <2>1, <3>1 DEF ThingStates
  <2>3. Answered(w, c) = IF c.owner = "thing" THEN v ELSE w
    BY <1>8, <2>1 DEF Answered, Worlds
  <2> HIDE DEF s
  <2>4. Sound(v) /\ Keeps(w, v)
    BY <2>0, <2>1, <2>2, ThingShown DEF Fine
  <2> HIDE DEF v
  <2>5. Fine(v)
    BY <2>0, <2>4, FineKept
  <2> QED BY <2>0, <2>3, <2>4, <2>5 DEF Keeps
<1>9. CASE c.kind = "shadow"
  <2>0. Fine(w)
    BY <1>5, <1>9
  <2> DEFINE s == [thing |-> c.thing, fromList |-> FALSE]
             v == [w EXCEPT !.shadow = s]
  <2>1. s \in Shadows /\ w \in Worlds
    BY <1>0, <2>0 DEF Fine, Sound, Calls, Shadows
  <2>2. Answered(w, c) = v
    BY <1>9 DEF Answered
  <2> HIDE DEF s
  <2>3. /\ v \in Worlds /\ SamePlace(w, v) /\ v.calls = w.calls /\ v.thing = w.thing
        /\ v.logging = w.logging /\ v.list = w.list
    BY <2>1 DEF Worlds, SamePlace
  <2> HIDE DEF v
  <2>4. Sound(v)
    BY <2>0, <2>3 DEF Fine, Sound, SamePlace, Awaited
  <2>5. Keeps(w, v)
    BY <2>3 DEF Keeps, SamePlace, LoggedOut, LoginBusy, ListBusy, PostBusy, Flying, Signed
  <2>6. Fine(v)
    BY <2>0, <2>4, <2>5, FineKept
  <2> QED BY <2>2, <2>5, <2>6 DEF Keeps
<1>10. CASE c.kind = "kick"
  BY <1>5, <1>10, UpdateCurrentShadowFine DEF Answered
<1> QED BY <1>1, <1>2, <1>3, <1>4, <1>6, <1>7, <1>8, <1>9, <1>10 DEF Kinds

\* So does every error.
LEMMA FailedFine ==
  ASSUME NEW w, NEW c, Open(w, c)
  PROVE  /\ Fine(Failed(w, c))
         /\ Signed(w) => Signed(Failed(w, c))
<1>1. c.kind \in Kinds
  BY DEF Open, Calls
<1>2. CASE c.kind = "things"
  <2>1. Failed(w, c) = LoginReturns(w, c, FALSE)
    BY <1>2 DEF Failed
  <2>2. /\ Sound(w) /\ LoggedOut(w) /\ ListBusy(w) /\ PostBusy(w)
        /\ c.owner # "login" => LoginBusy(w)
    BY <1>2 DEF Open, IsPost
  <2> QED BY <2>1, <2>2, LoginReturnsFine
<1>3. CASE c.kind = "query"
  BY <1>3, QueryFailedFine DEF Failed
<1>4. CASE c.kind = "post"
  BY <1>4, PostFailedFine DEF Failed
<1>5. CASE c.kind \notin {"things", "query", "post"}
  <2>1. Fine(w)
    BY <1>5, OpenFine DEF IsPost
  <2>2. Failed(w, c) = w
    BY <1>1, <1>5 DEF Failed, Kinds
  <2> QED BY <2>1, <2>2
<1> QED BY <1>2, <1>3, <1>4, <1>5

\* After a 401 the login page is there, and what awaited the call is not.
LEMMA UnauthorizedFine ==
  ASSUME NEW w, NEW c, Open(w, c)
  PROVE  Fine(Failed(Unauthorized(w), c))
<1> DEFINE x == [w EXCEPT !.auth = ""]
           g == GoTo(x, "Login", NoThing)
<1>0. w \in Worlds
  BY DEF Open, Sound
<1>1. /\ x \in Worlds /\ x.auth = "" /\ x.page = w.page /\ x.viewed = w.viewed
      /\ x.calls = w.calls /\ x.thing = w.thing /\ x.list = w.list /\ x.logging = w.logging
  BY <1>0 DEF Worlds, Auths
<1> HIDE DEF x
<1>2. Sound(x)
  BY <1>1 DEF Open, Sound, Awaited
<1>3. /\ Sound(g) /\ Keeps(x, g) /\ LoggedOut(g)
      /\ x.page = "Thing" /\ g.page # "Thing" => PostBusy(g)
      /\ x.page # "Login" /\ g.page = "Login" => ListBusy(g)
      /\ g.page = Route(x.auth, "Login")
  BY <1>2, GoToSound DEF Pages
<1>4. Unauthorized(w) = g
  BY DEF Unauthorized, x
<1> HIDE DEF g
<1>5. g.page = "Login"
  BY <1>1, <1>3 DEF Route
<1>6. c.kind \in Kinds
  BY DEF Open, Calls
<1>7. ~(c.kind = "things" /\ c.owner = "login") => LoginBusy(g)
  BY <1>1, <1>3 DEF Open, Keeps, LoginBusy, Flying
<1>8. ListBusy(g)
  <2>1. CASE x.page = "Login"
    <3>1. ListBusy(w)
      BY <1>1, <2>1 DEF Open
    <3>2. ListBusy(x)
      BY <1>1, <3>1 DEF ListBusy, Flying
    <3> QED BY <1>3, <3>2 DEF Keeps
  <2>2. CASE x.page # "Login"
    BY <1>3, <1>5, <2>2
  <2> QED BY <2>1, <2>2
<1>9. PostBusy(g)
  <2>1. CASE x.page # "Thing"
    <3>1. PostBusy(w)
      BY <1>1, <2>1 DEF Open, IsPost
    <3>2. PostBusy(x)
      BY <1>1, <3>1 DEF PostBusy, Flying
    <3> QED BY <1>3, <3>2 DEF Keeps
  <2>2. CASE x.page = "Thing"
    BY <1>3, <1>5, <2>2
  <2> QED BY <2>1, <2>2
<1>10. CASE c.kind = "things"
  <2>1. Failed(g, c) = LoginReturns(g, c, FALSE)
    BY <1>10 DEF Failed
  <2>2. c.owner # "login" => LoginBusy(g)
    BY <1>7
  <2> QED BY <1>3, <1>4, <1>8, <1>9, <2>1, <2>2, LoginReturnsFine
<1>11. CASE c.kind # "things"
  <2>1. ~Mounted(g, "list") /\ ~Mounted(g, "thing")
    BY <1>5 DEF Mounted
  <2>2. Failed(g, c) = g
    BY <1>6, <1>11, <2>1 DEF Failed, QueryFailed, PostFailed, Kinds
  <2> QED BY <1>3, <1>4, <1>7, <1>8, <1>9, <1>11, <2>2 DEF Fine
<1> QED BY <1>10, <1>11

-----------------------------------------------------------------------------
(* The steps.                                                              *)

\* Become makes a world the next one.
LEMMA BecomeIs ==
  ASSUME NEW w \in Worlds, Become(w)
  PROVE  World' = w
<1>1. w = [auth |-> w.auth, page |-> w.page, viewed |-> w.viewed, logging |-> w.logging,
           things |-> w.things, shadow |-> w.shadow, calls |-> w.calls, list |-> w.list,
           adding |-> w.adding, thing |-> w.thing, box |-> w.box]
  BY DEF Worlds
<1> QED BY <1>1 DEF Become, World

\* So a fine world is fine in the next state.
LEMMA BecomeFine ==
  ASSUME NEW w, Fine(w), Become(w)
  PROVE  Fine(World)' /\ (Signed(World) /\ Signed(w) => Signed(World)')
<1>1. World' = w
  BY BecomeIs DEF Fine, Sound
<1> QED BY <1>1

\* A step after which all is fine, and the session what it was.
PagesStep == Fine(World)' /\ (Signed(World) => Signed(World)')

\* A step to a world made by an operator that keeps everything.
LEMMA KeepsStep ==
  ASSUME Fine(World), NEW w, Sound(w), Keeps(World, w), Become(w)
  PROVE  PagesStep
<1>1. Fine(w)
  BY FineKept
<1>2. Signed(World) => Signed(w)
  BY DEF Keeps
<1> QED BY <1>1, <1>2, BecomeFine DEF PagesStep

\* The world of this moment.
LEMMA WorldFields ==
  /\ World.auth = auth /\ World.page = page /\ World.viewed = viewed
  /\ World.logging = logging /\ World.things = things /\ World.shadow = shadow
  /\ World.calls = calls /\ World.list = list /\ World.adding = adding
  /\ World.thing = thing /\ World.box = box
BY DEF World

\* The world of this moment has its type.
LEMMA WorldType == Fine(World) => World \in Worlds
BY DEF Fine, Sound

\* A change elsewhere.
LEMMA ElsewhereKeeps ==
  ASSUME NEW w, Sound(w), NEW v \in Worlds, SamePlace(w, v), v.calls = w.calls,
         v.thing = w.thing, v.logging = w.logging, v.list = w.list
  PROVE  Sound(v) /\ Keeps(w, v)
<1>1. Sound(v)
  BY DEF Sound, Awaited, SamePlace
<1>2. Keeps(w, v)
  BY DEF Keeps, SamePlace, LoggedOut, LoginBusy, ListBusy, PostBusy, Flying, Signed
<1> QED BY <1>1, <1>2

\* The session.
LEMMA LoginSubmitStep ==
  ASSUME Fine(World), NEW a \in Logins, LoginSubmit(a)
  PROVE  Fine(World)'
<1> DEFINE x == [World EXCEPT !.logging = TRUE, !.auth = a]
           v == UpdateThings(x, TRUE)
<1>1. page = "Login" /\ Become(v)
  BY DEF LoginSubmit, OnPage
<1>2. World \in Worlds /\ World.page = "Login"
  BY <1>1, WorldType, WorldFields
<1>3. /\ x \in Worlds /\ x.page = "Login" /\ x.viewed = World.viewed /\ x.calls = World.calls
      /\ x.thing = World.thing /\ x.list = World.list
  BY <1>2 DEF Worlds, Auths
<1> HIDE DEF x
<1>4. Sound(x)
  BY <1>2, <1>3 DEF Fine, Sound, Awaited
<1>5. LoggedOut(x) /\ ListBusy(x) /\ PostBusy(x)
  BY <1>3 DEF Fine, LoggedOut, ListBusy, PostBusy, Flying
<1>6. Sound(v) /\ Keeps(x, v) /\ LoginBusy(v)
  BY <1>4, UpdateThingsSound
<1>7. Fine(v)
  BY <1>5, <1>6 DEF Fine, Keeps
<1> HIDE DEF v
<1> QED BY <1>1, <1>7, BecomeFine

\* The session ends by the user's will.
LEMMA LogOutStep ==
  ASSUME Fine(World), LogOut
  PROVE  Fine(World)'
<1> DEFINE x == [World EXCEPT !.auth = ""]
           v == GoTo(x, "Login", NoThing)
<1>1. Become(v)
  BY DEF LogOut
<1>2. World \in Worlds
  BY WorldType
<1>3. /\ x \in Worlds /\ x.page = World.page /\ x.viewed = World.viewed /\ x.calls = World.calls
      /\ x.thing = World.thing /\ x.list = World.list /\ x.logging = World.logging
  BY <1>2 DEF Worlds, Auths
<1> HIDE DEF x
<1>4. Sound(x)
  BY <1>3 DEF Fine, Sound, Awaited
<1>5. LoginBusy(x) /\ ListBusy(x) /\ PostBusy(x)
  BY <1>3 DEF Fine, LoginBusy, ListBusy, PostBusy, Flying
<1>6. Sound(v) /\ Keeps(x, v) /\ LoggedOut(v)
  BY <1>4, GoToSound DEF Pages
<1>7. Fine(v)
  BY <1>5, <1>6 DEF Fine, Keeps
<1> HIDE DEF v
<1> QED BY <1>1, <1>7, BecomeFine

\* A navigation of the user.
LEMMA NavigateStep ==
  ASSUME Fine(World), NEW p \in Pages, NEW t \in Ids \cup {NoThing},
         p = "Thing" => t # NoThing, Navigate(p, t)
  PROVE  PagesStep
<1> DEFINE g == GoTo(World, p, t)
           x == [g EXCEPT !.box = NoBox]
           v == IF box.kind \in {"create", "connect"} THEN x ELSE g
<1>1. Become(v)
  BY DEF Navigate
<1>2. Sound(g) /\ Keeps(World, g)
  BY GoToSound DEF Fine
<1> HIDE DEF g
<1>3. NoBox \in Boxes
  BY BoundsAssumption DEF NoBox, Boxes, Tokens
<1>4. g \in Worlds
  BY <1>2 DEF Sound
<1>5. /\ x \in Worlds /\ SamePlace(g, x) /\ x.calls = g.calls /\ x.thing = g.thing
      /\ x.logging = g.logging /\ x.list = g.list
  BY <1>3, <1>4 DEF Worlds, SamePlace
<1> HIDE DEF x
<1>6. Sound(x) /\ Keeps(g, x)
  BY <1>2, <1>5, ElsewhereKeeps
<1>7. Sound(v) /\ Keeps(World, v)
  BY <1>2, <1>6, KeepsOn
<1> HIDE DEF v
<1> QED BY <1>1, <1>7, KeepsStep

\* handleBack2List.
LEMMA BackStep ==
  ASSUME Fine(World), Back
  PROVE  PagesStep
<1> DEFINE x == [World EXCEPT !.shadow = NoShadow]
<1>1. Become(x) \/ Become(GoTo(x, "List", NoThing))
  BY DEF Back
<1>2. NoShadow \in Shadows
  BY DEF NoShadow, Shadows
<1>3. World \in Worlds /\ Sound(World)
  BY DEF Fine, Sound
<1>4. /\ x \in Worlds /\ SamePlace(World, x) /\ x.calls = World.calls
      /\ x.thing = World.thing /\ x.logging = World.logging /\ x.list = World.list
  BY <1>2, <1>3 DEF Worlds, SamePlace
<1> HIDE DEF x
<1>5. Sound(x) /\ Keeps(World, x)
  BY <1>3, <1>4, ElsewhereKeeps
<1> DEFINE g == GoTo(x, "List", NoThing)
<1>6. Sound(g) /\ Keeps(x, g)
  BY <1>5, GoToSound DEF Pages
<1> HIDE DEF g
<1>7. Keeps(World, g)
  BY <1>5, <1>6, KeepsOn
<1> QED BY <1>1, <1>5, <1>6, <1>7, KeepsStep DEF g

\* The page is loaded anew.
LEMMA ReloadStep ==
  ASSUME Fine(World), Reload
  PROVE  PagesStep
<1> DEFINE x == [World EXCEPT !.page = "Login", !.viewed = NoThing, !.logging = FALSE,
                              !.things = {}, !.shadow = NoShadow, !.calls = EmptyBag,
                              !.list = NewList, !.adding = FALSE, !.thing = NewThing,
                              !.box = NoBox]
           g == GoTo(x, page, viewed)
           v == IF auth # "" THEN UpdateThings(g, FALSE) ELSE g
<1>1. Become(v)
  BY DEF Reload
<1>2. World \in Worlds /\ page \in Pages /\ viewed \in Ids \cup {NoThing}
      /\ (page = "Thing" => viewed # NoThing)
  BY WorldType, WorldFields DEF Fine, Sound, Worlds, Pages
<1>3. NoShadow \in Shadows /\ NoBox \in Boxes
  BY BoundsAssumption DEF NoShadow, Shadows, NoBox, Boxes, Tokens
<1>4. NewList \in Lists /\ NewList.querying = FALSE
  BY NewCallIsCall, ThingsAssumption, LenProperties DEF NewList, Lists
<1>5. NewThing \in ThingStates /\ NewThing.submitting = FALSE
      /\ FormOk(NewThing.form)
  BY BoundsAssumption DEF NewThing, ThingStates, NoForm, Forms, NoNames, Names, Tokens, FormOk
<1>6. EmptyBag \in CallBags /\ DOMAIN EmptyBag = {}
  <2>1. EmptyBag = [e \in {} |-> 1]
    BY DEF EmptyBag, SetToBag
  <2>2. EmptyBag \in [{} -> Nat \ {0}]
    BY <2>1
  <2> QED BY <2>1, <2>2 DEF CallBags
<1>7. /\ x \in Worlds /\ x.page = "Login" /\ x.viewed = NoThing /\ x.auth = World.auth
      /\ x.calls = EmptyBag /\ x.thing = NewThing /\ x.list = NewList /\ x.logging = FALSE
  <2> DEFINE y == [World EXCEPT !.page = "Login", !.viewed = NoThing, !.logging = FALSE,
                                !.things = {}, !.shadow = NoShadow]
             z == [y EXCEPT !.calls = EmptyBag, !.list = NewList, !.adding = FALSE]
  <2>1. y \in Worlds /\ y.page = "Login" /\ y.viewed = NoThing /\ y.auth = World.auth /\ y.logging = FALSE
    BY <1>2, <1>3 DEF Worlds
  <2>2. x = [z EXCEPT !.thing = NewThing, !.box = NoBox]
    OBVIOUS
  <2> HIDE DEF y, x
  <2>3. /\ z \in Worlds /\ z.page = "Login" /\ z.viewed = NoThing /\ z.auth = World.auth
        /\ z.logging = FALSE /\ z.calls = EmptyBag /\ z.list = NewList
    BY <1>4, <1>6, <2>1 DEF Worlds
  <2> HIDE DEF z
  <2> QED BY <1>3, <1>5, <2>2, <2>3 DEF Worlds
<1> HIDE DEF x
<1>8. Sound(x)
  BY <1>5, <1>6, <1>7 DEF Sound, Awaited
<1>9. LoginBusy(x) /\ ListBusy(x) /\ PostBusy(x)
  BY <1>4, <1>5, <1>6, <1>7 DEF LoginBusy, ListBusy, PostBusy, Flying
<1>10. Signed(World) => Signed(x)
  BY <1>6, <1>7 DEF Signed
<1>11. Sound(g) /\ Keeps(x, g) /\ LoggedOut(g)
  BY <1>2, <1>8, GoToSound
<1> HIDE DEF g
<1>12. Sound(UpdateThings(g, FALSE)) /\ Keeps(g, UpdateThings(g, FALSE))
  BY <1>11, UpdateThingsSound
<1>13. Fine(g) /\ (Signed(World) => Signed(g))
  BY <1>9, <1>10, <1>11 DEF Fine, Keeps
<1>14. Fine(v) /\ (Signed(World) => Signed(v))
  BY <1>12, <1>13, FineKept DEF Keeps
<1> HIDE DEF v
<1> QED BY <1>1, <1>14, BecomeFine DEF PagesStep

\* A call of the user, with the world as it is.
LEMMA SendStep ==
  ASSUME Fine(World), NEW c, MaySend(World, c), Become(Send(World, c))
  PROVE  PagesStep
<1>1. Sound(Send(World, c)) /\ Keeps(World, Send(World, c))
  BY SendSound DEF Fine
<1> QED BY <1>1, KeepsStep

\* A change of the user elsewhere.
LEMMA ElsewhereStep ==
  ASSUME Fine(World), NEW v \in Worlds, SamePlace(World, v), v.calls = World.calls,
         v.thing = World.thing, v.logging = World.logging, v.list = World.list, Become(v)
  PROVE  PagesStep
<1>1. Sound(v) /\ Keeps(World, v)
  BY ElsewhereKeeps DEF Fine
<1> QED BY <1>1, KeepsStep

\* The list.
LEMMA ListStep ==
  ASSUME Fine(World),
         \/ \E q \in Queries : Search(q)
         \/ Clear \/ RefreshList
         \/ \E i \in DOMAIN Things : PageIndexChange(i)
  PROVE  PagesStep
<1>0. World \in Worlds /\ World.list \in Lists /\ World.list = list /\ World.page = page
  BY WorldType, WorldFields DEF Worlds
<1>1. ASSUME NEW l \in Lists, l.querying = list.querying,
             NEW v, v = [World EXCEPT !.list = l]
      PROVE  Sound(v) /\ Keeps(World, v) /\ v.page = page
  <2>1. /\ v \in Worlds /\ SamePlace(World, v) /\ v.calls = World.calls /\ v.list = l
        /\ v.thing = World.thing /\ v.logging = World.logging
    BY <1>0, <1>1 DEF Worlds, SamePlace
  <2>2. Sound(v)
    BY <2>1 DEF Fine, Sound, Awaited, SamePlace
  <2>3. Keeps(World, v)
    BY <1>0, <1>1, <2>1
    DEF Keeps, SamePlace, LoggedOut, LoginBusy, ListBusy, PostBusy, Flying, Signed
  <2> QED BY <1>0, <2>1, <2>2, <2>3 DEF SamePlace
<1>2. ASSUME NEW l \in Lists, l.querying = list.querying, page = "List",
             Become(FetchList([World EXCEPT !.list = l]))
      PROVE  PagesStep
  <2> DEFINE v == [World EXCEPT !.list = l]
  <2>1. Sound(v) /\ Keeps(World, v) /\ v.page = page
    BY <1>1, <1>2
  <2> HIDE DEF v
  <2>2. Sound(FetchList(v)) /\ Keeps(v, FetchList(v))
    BY <1>2, <2>1, FetchListSound
  <2>3. Keeps(World, FetchList(v))
    BY <2>1, <2>2, KeepsOn
  <2> QED BY <1>2, <2>2, <2>3, KeepsStep DEF v
<1>3. ASSUME NEW q \in Queries, Search(q)  PROVE PagesStep
  <2> DEFINE n == [query |-> q, index |-> 1]
             l == [World.list EXCEPT !.params = n]
  <2>1. n \in Params
    BY NewCallIsCall DEF Params, DefaultParams
  <2>2. page = "List" /\ Become(FetchList([World EXCEPT !.list.params = n]))
    BY <1>3 DEF Search, ListFree, OnPage
  <2> HIDE DEF n
  <2>3. l \in Lists /\ l.querying = list.querying
    BY <1>0, <2>1 DEF Lists
  <2>4. [World EXCEPT !.list.params = n] = [World EXCEPT !.list = l]
    BY <1>0 DEF Worlds
  <2> HIDE DEF l
  <2> QED BY <1>2, <2>2, <2>3, <2>4
<1>4. ASSUME NEW i \in DOMAIN Things, PageIndexChange(i)  PROVE PagesStep
  <2> DEFINE n == [World.list.params EXCEPT !.index = i]
             l == [World.list EXCEPT !.params = n]
  <2>1. n \in Params
    <3>1. i \in 1 .. Len(Things)
      BY ThingsAssumption, LenProperties
    <3>2. World.list.params \in Params
      BY <1>0 DEF Lists
    <3> QED BY <3>1, <3>2 DEF Params
  <2>2. page = "List" /\ Become(FetchList([World EXCEPT !.list.params.index = i]))
    BY <1>4 DEF PageIndexChange, ListFree, OnPage
  <2>3. [World EXCEPT !.list.params.index = i] = [World EXCEPT !.list = l]
    BY <1>0 DEF Worlds, Lists
  <2> HIDE DEF n
  <2>4. l \in Lists /\ l.querying = list.querying
    BY <1>0, <2>1 DEF Lists
  <2> HIDE DEF l
  <2> QED BY <1>2, <2>2, <2>3, <2>4
<1>5. ASSUME Clear  PROVE PagesStep
  <2> DEFINE l == ResetList(World.list)
             v == [World EXCEPT !.list = l]
  <2>1. Become(v)
    BY <1>5 DEF Clear
  <2>2. l \in Lists /\ l.querying = list.querying
    <3>1. 0 \in 0 .. Len(Things)
      BY ThingsAssumption, LenProperties
    <3> QED BY <1>0, <3>1 DEF ResetList, Lists
  <2> HIDE DEF l
  <2>3. Sound(v) /\ Keeps(World, v)
    BY <1>1, <2>2
  <2> HIDE DEF v
  <2> QED BY <2>1, <2>3, KeepsStep
<1>6. ASSUME RefreshList  PROVE PagesStep
  <2>1. Become(Refresh(World))
    BY <1>6 DEF RefreshList
  <2>2. Sound(Refresh(World)) /\ Keeps(World, Refresh(World))
    BY RefreshSound DEF Fine
  <2> QED BY <2>1, <2>2, KeepsStep
<1> QED BY <1>3, <1>4, <1>5, <1>6

\* Things that are chosen from the list, and the form for a new one.
LEMMA ManageStep ==
  ASSUME Fine(World),
         \/ \E t \in Ids : ViewThing(t) \/ DeleteThing(t) \/ AddThing(t)
         \/ ShowAddingForm \/ CancelAdding
  PROVE  PagesStep
<1>0. World \in Worlds
  BY WorldType
<1>1. ASSUME NEW t \in Ids, ViewThing(t)  PROVE PagesStep
  <2> DEFINE s == [thing |-> IF list.isSelectAll THEN t ELSE NoThing, fromList |-> TRUE]
             x == [World EXCEPT !.shadow = s]
             g == GoTo(x, "Thing", t)
  <2>1. Become(g)
    BY <1>1 DEF ViewThing
  <2>2. s \in Shadows
    BY DEF Shadows
  <2> HIDE DEF s
  <2>3. /\ x \in Worlds /\ SamePlace(World, x) /\ x.calls = World.calls /\ x.thing = World.thing
        /\ x.logging = World.logging /\ x.list = World.list
    BY <1>0, <2>2 DEF Worlds, SamePlace
  <2> HIDE DEF x
  <2>4. Sound(x) /\ Keeps(World, x)
    BY <2>3, ElsewhereKeeps DEF Fine
  <2>5. t # NoThing
    BY <1>1, ThingsAssumption
  <2>6. Sound(g) /\ Keeps(x, g)
    BY <2>4, <2>5, GoToSound DEF Pages
  <2> HIDE DEF g
  <2>7. Keeps(World, g)
    BY <2>4, <2>6, KeepsOn
  <2> QED BY <2>1, <2>6, <2>7, KeepsStep
<1>2. ASSUME NEW t \in Ids, DeleteThing(t)  PROVE PagesStep
  <2> DEFINE c == [NewCall EXCEPT !.kind = "delete", !.thing = t]
  <2>1. Become(Send(World, c))
    BY <1>2 DEF DeleteThing
  <2>2. c \in Calls /\ c.kind = "delete" /\ c.owner = "app"
    BY NewCallIsCall DEF Calls, NewCall, Kinds
  <2> HIDE DEF c
  <2>3. MaySend(World, c)
    BY <2>2 DEF MaySend
  <2> QED BY <2>1, <2>3, SendStep
<1>3. ASSUME NEW t \in Ids, AddThing(t)  PROVE PagesStep
  <2> DEFINE c == [NewCall EXCEPT !.kind = "add", !.owner = "adding", !.thing = t]
  <2>1. Become(Send(World, c))
    BY <1>3 DEF AddThing
  <2>2. c \in Calls /\ c.kind = "add" /\ c.owner = "adding" /\ c.thing = t
    BY NewCallIsCall DEF Calls, NewCall, Kinds, Owners
  <2> HIDE DEF c
  <2>3. MaySend(World, c)
    BY <2>2 DEF MaySend
  <2> QED BY <2>1, <2>3, SendStep
<1>4. ASSUME ShowAddingForm  PROVE PagesStep
  <2> DEFINE v == [World EXCEPT !.adding = TRUE]
  <2>1. Become(v)
    BY <1>4 DEF ShowAddingForm
  <2>2. /\ v \in Worlds /\ SamePlace(World, v) /\ v.calls = World.calls /\ v.thing = World.thing
        /\ v.logging = World.logging /\ v.list = World.list
    BY <1>0 DEF Worlds, SamePlace
  <2> HIDE DEF v
  <2> QED BY <2>1, <2>2, ElsewhereStep
<1>5. ASSUME CancelAdding  PROVE PagesStep
  <2>1. Become(CloseAddingForm(World))
    BY <1>5 DEF CancelAdding
  <2> QED BY <2>1, CloseAddingFormFine, BecomeFine DEF PagesStep
<1> QED BY <1>1, <1>2, <1>3, <1>4, <1>5

\* The button of HttpPoster: its post is the only one.
LEMMA PosterSubmitStep ==
  ASSUME Fine(World), PosterSubmit
  PROVE  PagesStep
<1> DEFINE s == [World.thing EXCEPT !.submitting = TRUE, !.result = ""]
           x == [World EXCEPT !.thing = s]
           c == [NewCall EXCEPT !.kind = "post", !.owner = "thing", !.thing = viewed]
           v == Send(x, c)
<1>0. /\ World \in Worlds /\ World.thing \in ThingStates /\ viewed \in Ids \cup {NoThing}
      /\ FormOk(World.thing.form)
  BY WorldType, WorldFields DEF Fine, Sound, Worlds
<1>1. World.page = "Thing" /\ ~World.thing.submitting
  BY WorldFields DEF PosterSubmit, OnPage
<1>2. Become(v)
  <2>1. [World EXCEPT !.thing.submitting = TRUE, !.thing.result = ""] = x
    BY <1>0 DEF Worlds
  <2> HIDE DEF x, c
  <2>2. Become(Send([World EXCEPT !.thing.submitting = TRUE, !.thing.result = ""], c))
    BY DEF PosterSubmit, c
  <2> QED BY <2>1, <2>2
<1>3. s \in ThingStates /\ s.submitting = TRUE /\ s.form = World.thing.form
  BY <1>0 DEF ThingStates
<1> HIDE DEF s
<1>4. /\ x \in Worlds /\ SamePlace(World, x) /\ x.calls = World.calls /\ x.thing = s
      /\ x.logging = World.logging /\ x.list = World.list
  BY <1>0, <1>3 DEF Worlds, SamePlace
<1> HIDE DEF x
<1>5. c \in Calls /\ c.kind = "post" /\ c.owner = "thing"
  <2>1. "post" \in Kinds /\ "thing" \in Owners
    BY DEF Kinds, Owners
  <2> QED BY <1>0, <2>1, NewCallIsCall DEF Calls, NewCall
<1> HIDE DEF c
<1>6. PICK b \in CallBags, e \in Calls :
        /\ v = [x EXCEPT !.calls = b]
        /\ e.auth = x.auth /\ e.kind = c.kind /\ e.owner = c.owner /\ e.thing = c.thing
        /\ DOMAIN b = DOMAIN x.calls \cup {e}
        /\ \A d \in DOMAIN x.calls \ {e} : b[d] = x.calls[d]
        /\ e \notin DOMAIN x.calls => b[e] = 1
  BY <1>4, <1>5, SentCall
<1>7. /\ v \in Worlds /\ v.calls = b /\ SamePlace(World, v) /\ v.thing = s
      /\ v.logging = World.logging /\ v.list = World.list
  BY <1>4, <1>6 DEF Worlds, SamePlace
<1> HIDE DEF v
<1>8. \A d \in DOMAIN World.calls : ~IsPost(d)
  BY <1>1 DEF Fine, PostBusy, Flying, IsPost
<1>9. IsPost(e) /\ e \notin DOMAIN x.calls
  BY <1>4, <1>5, <1>6, <1>8 DEF IsPost
<1>10. \A d \in DOMAIN b : IsPost(d) => d = e
  BY <1>4, <1>6, <1>8
<1>11. PostBusy(v)
  BY <1>3, <1>6, <1>7, <1>9, <1>10 DEF PostBusy, Flying, IsPost
<1>12. Sound(v)
  <2>1. Awaited(v)
    BY <1>1, <1>4, <1>5, <1>6, <1>7 DEF Fine, Sound, Awaited, SamePlace
  <2> QED BY <1>0, <1>3, <1>7, <2>1 DEF Fine, Sound, SamePlace
<1>13. LoggedOut(v) /\ LoginBusy(v) /\ ListBusy(v)
  BY <1>4, <1>6, <1>7 DEF Fine, SamePlace, LoggedOut, LoginBusy, ListBusy, Flying
<1>14. Signed(World) => Signed(v)
  BY <1>4, <1>6, <1>7 DEF Signed, SamePlace
<1>15. Fine(v)
  BY <1>11, <1>12, <1>13 DEF Fine
<1> QED BY <1>2, <1>14, <1>15, BecomeFine DEF PagesStep

\* A step that changes the state of a thing's page.
LEMMA ThingStep ==
  ASSUME Fine(World), NEW s \in ThingStates, s.submitting = thing.submitting,
         FormOk(s.form), Become([World EXCEPT !.thing = s])
  PROVE  PagesStep
<1> DEFINE v == [World EXCEPT !.thing = s]
<1>1. World.thing = thing
  BY WorldFields
<1>2. Sound(v) /\ Keeps(World, v)
  BY <1>1, ThingShown DEF Fine
<1> HIDE DEF v
<1> QED BY <1>2, KeepsStep DEF v

\* The page of a thing.
LEMMA PageStep ==
  ASSUME Fine(World),
         \/ GetBasicInfo \/ RefreshShadow \/ KickOut
         \/ \E a \in Apis : ShowPoster(a)
         \/ ClosePoster
  PROVE  PagesStep
<1>0. /\ World \in Worlds /\ thing \in ThingStates /\ viewed \in Ids \cup {NoThing}
      /\ World.thing = thing /\ World.page = page /\ FormOk(thing.form)
  BY WorldType, WorldFields DEF Fine, Sound, Worlds
<1>1. ASSUME GetBasicInfo  PROVE PagesStep
  <2> DEFINE c == [NewCall EXCEPT !.kind = "getThing", !.owner = "thing", !.thing = viewed]
  <2>1. page = "Thing" /\ Become(Send(World, c))
    BY <1>1 DEF GetBasicInfo, OnPage
  <2>2. c \in Calls /\ c.kind = "getThing" /\ c.owner = "thing"
    <3>1. "getThing" \in Kinds /\ "thing" \in Owners
      BY DEF Kinds, Owners
    <3> QED BY <1>0, <3>1, NewCallIsCall DEF Calls, NewCall
  <2> HIDE DEF c
  <2>3. MaySend(World, c)
    BY <1>0, <2>1, <2>2 DEF MaySend
  <2> QED BY <2>1, <2>3, SendStep
<1>2. ASSUME RefreshShadow  PROVE PagesStep
  <2>1. Become(UpdateCurrentShadow(World))
    BY <1>2 DEF RefreshShadow
  <2>2. Sound(UpdateCurrentShadow(World)) /\ Keeps(World, UpdateCurrentShadow(World))
    BY UpdateCurrentShadowSound DEF Fine
  <2> QED BY <2>1, <2>2, KeepsStep
<1>3. ASSUME KickOut  PROVE PagesStep
  <2> DEFINE c == [NewCall EXCEPT !.kind = "kick", !.thing = viewed]
  <2>1. Become(Send(World, c))
    BY <1>3 DEF KickOut
  <2>2. c \in Calls /\ c.kind = "kick" /\ c.owner = "app"
    <3>1. "kick" \in Kinds
      BY DEF Kinds
    <3> QED BY <1>0, <3>1, NewCallIsCall DEF Calls, NewCall
  <2> HIDE DEF c
  <2>3. MaySend(World, c)
    BY <2>2 DEF MaySend
  <2> QED BY <2>1, <2>3, SendStep
<1>4. ASSUME NEW a \in Apis \cup {""}, Become([World EXCEPT !.thing.code = a, !.thing.result = ""])
      PROVE  PagesStep
  <2> DEFINE s == [thing EXCEPT !.code = a, !.result = ""]
  <2>1. [World EXCEPT !.thing.code = a, !.thing.result = ""] = [World EXCEPT !.thing = s]
    BY <1>0 DEF Worlds
  <2>2. s \in ThingStates /\ s.submitting = thing.submitting /\ s.form = thing.form
    BY <1>0, <1>4 DEF ThingStates
  <2> HIDE DEF s
  <2> QED BY <1>0, <1>4, <2>1, <2>2, ThingStep
<1>5. ASSUME NEW a \in Apis, ShowPoster(a)  PROVE PagesStep
  BY <1>4, <1>5 DEF ShowPoster
<1>6. ASSUME ClosePoster  PROVE PagesStep
  BY <1>4, <1>6 DEF ClosePoster
<1> QED BY <1>1, <1>2, <1>3, <1>5, <1>6

\* The thing of the current shadow is one, or none.
LEMMA CurrentThing ==
  ASSUME NEW w \in Worlds
  PROVE  CurrentShadow(w).thing \in Ids \cup {NoThing}
BY DEF CurrentShadow, Worlds, Shadows, NoShadow

\* The publish form opens with a connection for the thing of the shadow.
LEMMA ShowFormSound ==
  ASSUME NEW w, Sound(w), NEW n \in Names, NotRetyped => n.username = CurrentShadow(w).thing
  PROVE  /\ Sound(ShowSetReportedForm(w, n)) /\ Keeps(w, ShowSetReportedForm(w, n))
         /\ SamePlace(w, ShowSetReportedForm(w, n))
<1> DEFINE f == [conn |-> n, topic |-> CurrentShadow(w).thing]
           s == [w.thing EXCEPT !.ccbt = 0, !.form = f]
<1>1. w \in Worlds /\ w.thing \in ThingStates
  BY DEF Sound, Worlds
<1>2. f \in Forms /\ FormOk(f)
  BY <1>1, CurrentThing DEF Forms, FormOk
<1>3. ShowSetReportedForm(w, n) = [w EXCEPT !.thing = s]
  BY <1>1 DEF ShowSetReportedForm, Worlds
<1> HIDE DEF f
<1>4. 0 \in Tokens
  BY BoundsAssumption DEF Tokens
<1>5. s \in ThingStates /\ s.submitting = w.thing.submitting /\ s.form = f
  BY <1>1, <1>2, <1>4 DEF ThingStates
<1> HIDE DEF s
<1> QED BY <1>2, <1>3, <1>5, ThingShown

\* The token a thing's page waits for.
LEMMA SetCcbtSound ==
  ASSUME NEW w, Sound(w), NEW n \in Tokens
  PROVE  Sound(SetCcbt(w, n)) /\ Keeps(w, SetCcbt(w, n))
<1> DEFINE s == [w.thing EXCEPT !.ccbt = n]
           v == [w EXCEPT !.thing = s]
<1>1. w \in Worlds /\ w.thing \in ThingStates /\ FormOk(w.thing.form)
  BY DEF Sound, Worlds
<1>2. SetCcbt(w, n) = IF w.box.live THEN v ELSE w
  BY <1>1 DEF SetCcbt, Worlds
<1>3. s \in ThingStates /\ s.submitting = w.thing.submitting /\ s.form = w.thing.form
  BY <1>1 DEF ThingStates
<1> HIDE DEF s
<1>4. Sound(v) /\ Keeps(w, v)
  BY <1>1, <1>3, ThingShown
<1> HIDE DEF v
<1> QED BY <1>2, <1>4, KeepsSelf

\* A question or a form opens or closes.
LEMMA BoxShown ==
  ASSUME NEW w, Sound(w), NEW b \in Boxes
  PROVE  LET v == [w EXCEPT !.box = b] IN Sound(v) /\ Keeps(w, v)
<1> DEFINE v == [w EXCEPT !.box = b]
<1>1. w \in Worlds
  BY DEF Sound
<1>2. /\ v \in Worlds /\ SamePlace(w, v) /\ v.calls = w.calls /\ v.thing = w.thing
      /\ v.logging = w.logging /\ v.list = w.list
  BY <1>1 DEF Worlds, SamePlace
<1> HIDE DEF v
<1> QED BY <1>2, ElsewhereKeeps DEF v

\* Set Reported.
LEMMA SetReportedStep ==
  ASSUME Fine(World), OthersInv,
         \/ SetReported \/ ConfirmCreate \/ ConfirmConnect \/ CreateConnection
         \/ CloseBox \/ CloseSetReportedForm
  PROVE  PagesStep
<1>0. /\ World \in Worlds /\ Sound(World) /\ World.box = box /\ box \in Boxes
      /\ World.thing = thing /\ thing \in ThingStates
  BY WorldType, WorldFields DEF Fine, Worlds
<1>1. 0 \in Tokens /\ NoBox \in Boxes
  BY BoundsAssumption DEF Tokens, NoBox, Boxes
<1>2. ASSUME NEW b \in Boxes, Become([World EXCEPT !.box = b])  PROVE PagesStep
  <2> DEFINE v == [World EXCEPT !.box = b]
  <2>1. Sound(v) /\ Keeps(World, v)
    BY <1>0, BoxShown
  <2> HIDE DEF v
  <2> QED BY <1>2, <2>1, KeepsStep DEF v
<1>3. ASSUME NEW k \in {"create", "connect"}, NEW c \in Conns \cup {NoConn},
             Become(Ask(World, k, c))
      PROVE  PagesStep
  <2> DEFINE b == [NoBox EXCEPT !.kind = k, !.conn = c, !.live = TRUE]
  <2>1. b \in Boxes
    BY <1>1 DEF Boxes
  <2>2. Ask(World, k, c) = [World EXCEPT !.box = b]
    BY DEF Ask
  <2> HIDE DEF b
  <2> QED BY <1>2, <1>3, <2>1, <2>2
<1>4. ASSUME SetReported  PROVE PagesStep
  <2> DEFINE t == CurrentShadow(World).thing
  <2>1. \/ \E c \in Matching(t) : Become(ShowSetReportedForm(World, conns[c].names))
        \/ \E c \in Matching(t) : Become(Ask(World, "connect", c))
        \/ Become(Ask(World, "create", NoConn))
    BY <1>4 DEF SetReported
  <2>2. ASSUME NEW c \in Matching(t)
        PROVE  c \in Conns /\ conns[c].names \in Names /\ (NotRetyped => conns[c].names.username = t)
    BY DEF Matching, OthersInv, ConnStates, NamesOk
  <2> HIDE DEF t
  <2>3. ASSUME NEW c \in Matching(t), Become(ShowSetReportedForm(World, conns[c].names))
        PROVE  PagesStep
    <3> DEFINE v == ShowSetReportedForm(World, conns[c].names)
    <3>1. Sound(v) /\ Keeps(World, v)
      BY <1>0, <2>2, ShowFormSound DEF t
    <3> HIDE DEF v
    <3> QED BY <2>3, <3>1, KeepsStep DEF v
  <2> QED BY <1>3, <2>1, <2>2, <2>3
<1>5. ASSUME ConfirmCreate  PROVE PagesStep
  <2> DEFINE t == CurrentShadow(World).thing
             n == IF t = NoThing THEN 0 ELSE tokens + 1
             h == IF t \in things THEN t ELSE NoThing
             u == SetCcbt(World, n)
             b == [u.box EXCEPT !.kind = "connForm", !.token = n, !.thing = h]
  <2>1. h \in Ids \cup {NoThing}
    BY <1>0, CurrentThing
  <2>2. n \in Tokens /\ Become([u EXCEPT !.box.kind = "connForm", !.box.token = n, !.box.thing = h])
    BY <1>5 DEF ConfirmCreate
  <2> HIDE DEF t, n, h
  <2>3. Sound(u) /\ Keeps(World, u)
    BY <1>0, <2>2, SetCcbtSound
  <2> HIDE DEF u
  <2>4. u \in Worlds /\ u.box \in Boxes
    BY <2>3 DEF Sound, Worlds
  <2>5. b \in Boxes
    BY <2>1, <2>2, <2>4 DEF Boxes
  <2>6. [u EXCEPT !.box.kind = "connForm", !.box.token = n, !.box.thing = h] = [u EXCEPT !.box = b]
    BY <2>4 DEF Worlds
  <2> HIDE DEF b
  <2> DEFINE v == [u EXCEPT !.box = b]
  <2>7. Sound(v) /\ Keeps(u, v)
    BY <2>3, <2>5, BoxShown
  <2>8. Become(v)
    BY <2>2, <2>6
  <2> HIDE DEF v
  <2>9. Keeps(World, v)
    BY <2>3, <2>7, KeepsOn
  <2> QED BY <2>7, <2>8, <2>9, KeepsStep
<1>6. ASSUME ConfirmConnect  PROVE PagesStep
  <2>0. tokens < MaxTokens /\ tokens' = tokens + 1 /\ Become([SetCcbt(World, tokens') EXCEPT !.box = NoBox])
    BY <1>6 DEF ConfirmConnect
  <2>1. PICK n \in Tokens : n = tokens'
    BY <2>0, BoundsAssumption DEF Tokens, OthersInv
  <2> DEFINE u == SetCcbt(World, n)
             v == [u EXCEPT !.box = NoBox]
  <2>2. Become(v)
    BY <2>0, <2>1
  <2>3. Sound(u) /\ Keeps(World, u)
    BY <1>0, SetCcbtSound
  <2> HIDE DEF u
  <2>4. Sound(v) /\ Keeps(u, v)
    BY <1>1, <2>3, BoxShown
  <2> HIDE DEF v
  <2>5. Keeps(World, v)
    BY <2>3, <2>4, KeepsOn
  <2> QED BY <2>2, <2>4, <2>5, KeepsStep
<1>7. ASSUME CreateConnection \/ CloseBox  PROVE PagesStep
  BY <1>1, <1>2, <1>7 DEF CreateConnection, CloseBox
<1>8. ASSUME CloseSetReportedForm  PROVE PagesStep
  <2> DEFINE s == [thing EXCEPT !.form = NoForm]
  <2>1. NoForm \in Forms /\ FormOk(NoForm)
    BY DEF NoForm, Forms, NoNames, Names, FormOk
  <2>2. s \in ThingStates /\ s.submitting = thing.submitting /\ s.form = NoForm
    BY <1>0, <2>1 DEF ThingStates
  <2>3. Become([World EXCEPT !.thing = s])
    <3>1. [World EXCEPT !.thing.form = NoForm] = [World EXCEPT !.thing = s]
      BY <1>0 DEF Worlds
    <3> QED BY <1>8, <3>1 DEF CloseSetReportedForm
  <2> HIDE DEF s
  <2> QED BY <2>1, <2>2, <2>3, ThingStep
<1> QED BY <1>4, <1>5, <1>6, <1>7, <1>8

\* The events of the things' clients, which the list, the page of the thing
\* and its shadow hear in turn.
LEMMA HearsSound ==
  ASSUME NEW w, Sound(w), OthersInv, NEW c \in Conns
  PROVE  /\ \A n : LET v == ShadowDataHears(w, conns[c].names, n)
                   IN  Sound(v) /\ Keeps(w, v)
         /\ Sound(Heard(w, c)) /\ Keeps(w, Heard(w, c))
<1> DEFINE m == conns[c].names
           t == m.username
           v == ThingHears(w, t)
<1>0. m \in Names
  BY DEF OthersInv, ConnStates
<1> HIDE DEF m
<1>1. ASSUME NEW n
      PROVE  Sound(ShadowDataHears(w, m, n)) /\ Keeps(w, ShadowDataHears(w, m, n))
  <2>1. CASE ShadowDataHears(w, m, n) = w
    BY <2>1, KeepsSelf
  <2>2. CASE t = CurrentShadow(w).thing /\ ShadowDataHears(w, m, n) = ShowSetReportedForm(w, m)
    BY <1>0, <2>2, ShowFormSound
  <2> QED BY <2>1, <2>2 DEF ShadowDataHears
<1>2. Sound(v) /\ Keeps(w, v)
  BY UpdateCurrentShadowSound, KeepsSelf DEF ThingHears
<1> HIDE DEF v
<1>3. Sound(ListHears(v, t)) /\ Keeps(v, ListHears(v, t))
  BY <1>2, RefreshSound, KeepsSelf DEF ListHears
<1>4. Keeps(w, ListHears(v, t))
  BY <1>2, <1>3, KeepsOn
<1>5. Heard(w, c) = ListHears(v, t)
  BY DEF Heard, v, m
<1> QED BY <1>1, <1>3, <1>4, <1>5 DEF m

\* A step of the clients, of the tool panel, or none.
LEMMA NetStep ==
  ASSUME Fine(World), OthersInv,
         \/ Net
         \/ \E n \in Typed : PanelCreates(n)
         \/ UNCHANGED vars
  PROVE  PagesStep
<1>0. Sound(World)
  BY DEF Fine
<1>1. ASSUME NEW c \in Conns, ConnUp(c)  PROVE PagesStep
  <2> DEFINE u == ShadowDataHears(World, conns[c].names, conns[c].want)
             v == Heard(u, c)
  <2>1. Become(v)
    BY <1>1 DEF ConnUp
  <2>2. Sound(u) /\ Keeps(World, u)
    BY <1>0, HearsSound
  <2> HIDE DEF u
  <2>3. Sound(v) /\ Keeps(u, v)
    BY <2>2, HearsSound
  <2> HIDE DEF v
  <2>4. Keeps(World, v)
    BY <2>2, <2>3, KeepsOn
  <2> QED BY <2>1, <2>3, <2>4, KeepsStep
<1>2. ASSUME NEW c \in Conns, ConnEnds(c)  PROVE PagesStep
  <2> DEFINE v == Heard(World, c)
  <2>1. Become(v)
    BY <1>2 DEF ConnEnds
  <2>2. Sound(v) /\ Keeps(World, v)
    BY <1>0, HearsSound
  <2> HIDE DEF v
  <2> QED BY <2>1, <2>2, KeepsStep
<1>3. ASSUME UNCHANGED webVars  PROVE PagesStep
  <2>1. World' = World
    BY <1>3 DEF webVars, World
  <2> QED BY <2>1 DEF PagesStep
<1>4. UNCHANGED vars => UNCHANGED webVars
  BY DEF vars
<1> QED BY <1>1, <1>2, <1>3, <1>4 DEF Net, ConnCloses, PanelCreates

-----------------------------------------------------------------------------
(* The answers.                                                            *)

\* The answer of call c leaves the world as it should be, and does not touch
\* the session if the calls in flight are all of it.
LEMMA AnswerStep ==
  ASSUME Fine(World), exists \subseteq Ids, NEW c \in BagToSet(calls),
         AnswerOk(c) \/ AnswerError(c) \/ Answer401(c)
  PROVE  PagesStep
<1> DEFINE w == Taken(World, c)
<1>1. World.calls = calls /\ c \in DOMAIN World.calls /\ Answering(c) = w
  BY WorldFields DEF BagToSet, Answering, Taken
<1>2. Open(w, c) /\ (Signed(World) => Signed(w))
  BY <1>1, TakenOpen
<1> HIDE DEF w
<1>3. ASSUME AnswerOk(c)  PROVE PagesStep
  <2>1. Become(Answered(w, c))
    BY <1>1, <1>3 DEF AnswerOk
  <2>2. Fine(Answered(w, c)) /\ (Signed(w) => Signed(Answered(w, c)))
    BY <1>2, ContentIs, AnsweredFine
  <2> QED BY <1>2, <2>1, <2>2, BecomeFine DEF PagesStep
<1>4. ASSUME AnswerError(c)  PROVE PagesStep
  <2>1. Become(Failed(w, c))
    BY <1>1, <1>4 DEF AnswerError
  <2>2. Fine(Failed(w, c)) /\ (Signed(w) => Signed(Failed(w, c)))
    BY <1>2, FailedFine
  <2> QED BY <1>2, <2>1, <2>2, BecomeFine DEF PagesStep
<1>5. ASSUME Answer401(c)  PROVE PagesStep
  <2>1. c.auth # "right" /\ Become(Failed(Unauthorized(w), c))
    BY <1>1, <1>5 DEF Answer401
  <2>2. Fine(Failed(Unauthorized(w), c))
    BY <1>2, UnauthorizedFine
  <2>3. ~Signed(World)
    BY <1>1, <2>1 DEF Signed
  <2> QED BY <2>1, <2>2, <2>3, BecomeFine DEF PagesStep
<1> QED BY <1>3, <1>4, <1>5

-----------------------------------------------------------------------------
(* What the server has and the connections of the things.                  *)

\* A connection is changed, or a new one listed.
LEMMA ConnSet ==
  ASSUME conns \in [Conns -> ConnStates], \A c \in Conns : NamesOk(conns[c].names),
         NEW k, NEW v \in ConnStates, NamesOk(v.names)
  PROVE  LET f == [conns EXCEPT ![k] = v]
         IN  f \in [Conns -> ConnStates] /\ \A c \in Conns : NamesOk(f[c].names)
OBVIOUS

\* The client of a connection is in another state.
LEMMA StateSet ==
  ASSUME NEW r \in ConnStates, NEW s \in {"none", "off", "on", "ending"}, NEW x \in Tokens
  PROVE  LET v == [r EXCEPT !.state = s, !.want = x]
             u == [r EXCEPT !.listed = FALSE, !.state = s, !.want = x]
         IN  v \in ConnStates /\ v.names = r.names /\ u \in ConnStates /\ u.names = r.names
BY DEF ConnStates

\* The places and the names that connections have.
LEMMA ConnNames ==
  /\ 0 \in Tokens /\ FreePlace \in ConnStates /\ NamesOk(FreePlace.names)
  /\ \A n \in Names : Stored(n) \in ConnStates /\ Stored(n).names = n /\ Stored(n).want = 0
  /\ \A t \in Ids : NamesOf(t) \in Names /\ NamesOk(NamesOf(t))
  /\ \A n \in Typed : n \in Names /\ NamesOk(n)
<1>1. 0 \in Tokens
  BY BoundsAssumption DEF Tokens
<1>2. NoNames \in Names /\ NamesOk(NoNames)
  BY DEF NoNames, Names, NamesOk
<1>3. \A t \in Ids : NamesOf(t) \in Names /\ NamesOk(NamesOf(t))
  BY DEF NamesOf, Names, NamesOk
<1>4. \A n \in Typed : n \in Names /\ NamesOk(n)
  BY ConnsAssumption DEF NamesOk, NotRetyped
<1> QED BY <1>1, <1>2, <1>3, <1>4 DEF FreePlace, Stored, ConnStates

\* What a step of the user does to them.
LEMMA UserOthersStep ==
  ASSUME Fine(World), OthersInv, User
  PROVE  OthersInv'
<1>0. /\ exists \subseteq Ids /\ tokens \in Tokens /\ conns \in [Conns -> ConnStates]
      /\ \A c \in Conns : NamesOk(conns[c].names)
  BY DEF OthersInv
<1>1. box \in Boxes
  BY WorldType, WorldFields DEF Worlds
<1>2. ASSUME NEW n \in Names, NamesOk(n), NEW m \in Tokens, Create(n, m),
             exists' = exists, tokens' = tokens
      PROVE  OthersInv'
  <2>1. PICK c \in Conns, x \in {0, m} :
          conns' = [conns EXCEPT ![c] = [Stored(n) EXCEPT !.want = x]]
    BY <1>2 DEF Create
  <2> DEFINE v == [Stored(n) EXCEPT !.want = x]
  <2>2. v \in ConnStates /\ NamesOk(v.names)
    BY <1>2, ConnNames DEF Stored, ConnStates
  <2> HIDE DEF v
  <2>3. conns' = [conns EXCEPT ![c] = v]
    BY <2>1 DEF v
  <2> QED BY <1>0, <1>2, <2>2, <2>3, ConnSet DEF OthersInv
<1>3. CASE Reload
  <2>1. conns' = [c \in Conns |-> IF conns[c].listed THEN Stored(conns[c].names) ELSE FreePlace]
    BY <1>3 DEF Reload
  <2>2. \A c \in Conns : conns'[c] \in ConnStates /\ NamesOk(conns'[c].names)
    BY <1>0, <2>1, ConnNames DEF ConnStates
  <2>3. conns' \in [Conns -> ConnStates]
    BY <2>1, <2>2
  <2> QED BY <1>0, <1>3, <2>2, <2>3 DEF Reload, OthersInv
<1>4. CASE ConfirmCreate
  <2>1. tokens' \in Tokens /\ UNCHANGED <<exists, conns>>
    BY <1>0, <1>4 DEF ConfirmCreate
  <2> QED BY <1>0, <2>1 DEF OthersInv
<1>5. CASE ConfirmConnect
  <2>1. PICK n \in Tokens : n = tokens'
    BY <1>0, <1>5, BoundsAssumption DEF ConfirmConnect, Tokens
  <2>2. Connect(box.conn, n) /\ exists' = exists
    BY <1>5, <2>1 DEF ConfirmConnect
  <2>3. conns' \in [Conns -> ConnStates] /\ \A c \in Conns : NamesOk(conns'[c].names)
    BY <1>0, <2>2 DEF Connect, ConnStates
  <2> QED BY <1>0, <2>1, <2>2, <2>3 DEF OthersInv
<1>6. CASE CreateConnection
  <2>1. box.token \in Tokens /\ box.thing \in Ids
    BY <1>1, <1>6 DEF Boxes, CreateConnection
  <2> QED BY <1>2, <1>6, <2>1, ConnNames DEF CreateConnection
<1>7. CASE \E n \in Typed : PanelCreates(n)
  BY <1>2, <1>7, ConnNames DEF PanelCreates
<1>8. CASE UNCHANGED <<exists, connVars>>
  BY <1>0, <1>8 DEF connVars, OthersInv
<1> QED
  BY <1>3, <1>4, <1>5, <1>6, <1>7, <1>8
  DEF User, LoginSubmit, LogOut, Navigate, Search, Clear, RefreshList, PageIndexChange,
      ViewThing, DeleteThing, AddThing, ShowAddingForm, CancelAdding, Back, GetBasicInfo,
      RefreshShadow, KickOut, ShowPoster, ClosePoster, PosterSubmit, SetReported, CloseBox,
      CloseSetReportedForm

\* What an event of a client does to them.
LEMMA NetOthersStep ==
  ASSUME OthersInv, Net
  PROVE  OthersInv'
<1>0. /\ exists \subseteq Ids /\ tokens \in Tokens /\ conns \in [Conns -> ConnStates]
      /\ \A c \in Conns : NamesOk(conns[c].names)
  BY DEF OthersInv
<1>1. exists' = exists /\ tokens' = tokens
  BY DEF Net, ConnUp, ConnCloses, ConnEnds
<1>2. ASSUME NEW c \in Conns, NEW v \in ConnStates, v.names = conns[c].names \/ v = FreePlace,
             conns' = [conns EXCEPT ![c] = v]
      PROVE  OthersInv'
  BY <1>0, <1>1, <1>2, ConnSet, ConnNames DEF OthersInv
<1>3. ASSUME NEW c \in Conns, ConnUp(c)  PROVE OthersInv'
  <2> DEFINE v == [conns[c] EXCEPT !.state = "on", !.want = 0]
  <2>1. v \in ConnStates /\ v.names = conns[c].names
    BY <1>0, ConnNames, StateSet
  <2>2. conns' = [conns EXCEPT ![c] = v]
    BY <1>0, <1>3 DEF ConnUp
  <2> HIDE DEF v
  <2> QED BY <1>2, <2>1, <2>2
<1>4. ASSUME NEW c \in Conns, ConnCloses(c)  PROVE OthersInv'
  <2> DEFINE v == [conns[c] EXCEPT !.state = "off"]
  <2>1. v \in ConnStates /\ v.names = conns[c].names /\ conns' = [conns EXCEPT ![c] = v]
    BY <1>0, <1>4 DEF ConnCloses, ConnStates
  <2> HIDE DEF v
  <2> QED BY <1>2, <2>1
<1>5. ASSUME NEW c \in Conns, ConnEnds(c)  PROVE OthersInv'
  <2> DEFINE u(x) == [conns[c] EXCEPT !.state = "off", !.want = x]
             v == [conns[c] EXCEPT !.state = "none", !.want = 0]
  <2>1. /\ \A x \in Tokens : u(x) \in ConnStates /\ u(x).names = conns[c].names
        /\ v \in ConnStates /\ v.names = conns[c].names
    BY <1>0, ConnNames, StateSet
  <2>3. conns[c].want \in Tokens
    BY <1>0 DEF ConnStates
  <2>2. \/ \E x \in {0, conns[c].want} : conns' = [conns EXCEPT ![c] = u(x)]
        \/ conns' = [conns EXCEPT ![c] = v]
        \/ conns' = [conns EXCEPT ![c] = FreePlace]
    BY <1>0, <1>5 DEF ConnEnds
  <2> HIDE DEF u, v
  <2> QED BY <1>2, <2>1, <2>2, <2>3, ConnNames
<1> QED BY <1>3, <1>4, <1>5 DEF Net

\* What the answer of a call does to them.
LEMMA AnswerOthersStep ==
  ASSUME Fine(World), OthersInv, NEW c \in BagToSet(calls),
         AnswerOk(c) \/ AnswerError(c) \/ Answer401(c)
  PROVE  OthersInv'
<1>0. /\ exists \subseteq Ids /\ tokens \in Tokens /\ conns \in [Conns -> ConnStates]
      /\ \A k \in Conns : NamesOk(conns[k].names)
  BY DEF OthersInv
<1>1. c \in DOMAIN World.calls
  BY WorldFields DEF BagToSet
<1>2. c.kind = "add" => c.thing \in Ids
  BY <1>1 DEF Fine, Sound, Awaited
<1>3. After(c) \subseteq Ids
  BY <1>0, <1>2 DEF After
<1>4. exists' \subseteq Ids /\ tokens' = tokens
  BY <1>0, <1>3 DEF AnswerOk, AnswerError, Answer401, connVars
<1>5. ConnsAfter(c) \/ conns' = conns
  BY DEF AnswerOk, AnswerError, Answer401, connVars
<1> DEFINE e(k) == [conns[k] EXCEPT !.listed = FALSE, !.state = "ending", !.want = 0]
<1>6. ASSUME NEW k \in Conns  PROVE e(k) \in ConnStates /\ NamesOk(e(k).names)
  <2>1. conns[k] \in ConnStates /\ NamesOk(conns[k].names)
    BY <1>0
  <2>2. e(k) \in ConnStates /\ e(k).names = conns[k].names
    BY <2>1, ConnNames, StateSet
  <2> QED BY <2>1, <2>2
<1>7. \/ conns' = conns
      \/ conns' = [k \in Conns |-> IF k \in Matching(c.thing) THEN e(k) ELSE conns[k]]
  BY <1>5 DEF ConnsAfter
<1> HIDE DEF e
<1>8. \A k \in Conns : conns'[k] \in ConnStates /\ NamesOk(conns'[k].names)
  BY <1>0, <1>6, <1>7
<1>9. conns' \in [Conns -> ConnStates]
  BY <1>0, <1>7, <1>8
<1> QED BY <1>0, <1>4, <1>8, <1>9 DEF OthersInv

\* What a step does to them.
LEMMA OthersStep ==
  ASSUME Fine(World), OthersInv, [Next]_vars
  PROVE  OthersInv'
<1>1. UNCHANGED vars => OthersInv'
  BY DEF vars, connVars, OthersInv
<1> QED BY <1>1, UserOthersStep, NetOthersStep, AnswerOthersStep DEF Next, Answer

-----------------------------------------------------------------------------
(* The invariant.                                                          *)

\* Every step but a log out and a log in keeps the session.
LEMMA SessionStep ==
  ASSUME PlaygroundInv, [Next]_vars, ~LogOut, \A a \in Logins : ~LoginSubmit(a)
  PROVE  PagesStep
<1>0. Fine(World) /\ OthersInv /\ exists \subseteq Ids
  BY DEF PlaygroundInv, OthersInv
<1>1. CASE User
  <2>1. ASSUME \/ Navigate("List", NoThing) \/ Navigate("Login", NoThing)
               \/ \E t \in Opened : Navigate("Thing", t)
        PROVE  PagesStep
    <3>1. Opened \subseteq Ids /\ NoThing \notin Ids
      BY SetsAssumption, ThingsAssumption
    <3> QED BY <1>0, <2>1, <3>1, NavigateStep DEF Pages
  <2>2. Back => PagesStep
    BY <1>0, BackStep
  <2>3. Reload => PagesStep
    BY <1>0, ReloadStep
  <2>4. (\/ \E q \in Queries : Search(q)
         \/ Clear \/ RefreshList
         \/ \E i \in DOMAIN Things : PageIndexChange(i)) => PagesStep
    BY <1>0, ListStep
  <2>5. (\/ \E t \in Ids : ViewThing(t) \/ DeleteThing(t) \/ AddThing(t)
         \/ ShowAddingForm \/ CancelAdding) => PagesStep
    BY <1>0, ManageStep
  <2>6. (\/ GetBasicInfo \/ RefreshShadow \/ KickOut
         \/ \E a \in Apis : ShowPoster(a)
         \/ ClosePoster) => PagesStep
    BY <1>0, PageStep
  <2>7. PosterSubmit => PagesStep
    BY <1>0, PosterSubmitStep
  <2>8. (\/ SetReported \/ ConfirmCreate \/ ConfirmConnect \/ CreateConnection
         \/ CloseBox \/ CloseSetReportedForm) => PagesStep
    BY <1>0, SetReportedStep
  <2>9. (\E n \in Typed : PanelCreates(n)) => PagesStep
    BY <1>0, NetStep
  <2> QED BY <1>1, <2>1, <2>2, <2>3, <2>4, <2>5, <2>6, <2>7, <2>8, <2>9 DEF User
<1>2. CASE Net \/ UNCHANGED vars
  BY <1>0, <1>2, NetStep
<1>3. CASE \E k \in Kinds, o \in Owners : Answer(k, o)
  BY <1>0, <1>3, AnswerStep DEF Answer
<1> QED BY <1>1, <1>2, <1>3 DEF Next

\* The invariant is inductive.
LEMMA PlaygroundInit == Init => PlaygroundInv
<1> SUFFICES ASSUME Init  PROVE PlaygroundInv
  OBVIOUS
<1>1. NoShadow \in Shadows /\ NoBox \in Boxes /\ 0 \in Tokens
  BY BoundsAssumption DEF NoShadow, Shadows, NoBox, Boxes, Tokens
<1>2. NewList \in Lists /\ NewList.querying = FALSE
  BY NewCallIsCall, ThingsAssumption, LenProperties DEF NewList, Lists
<1>3. NewThing \in ThingStates /\ NewThing.submitting = FALSE
      /\ FormOk(NewThing.form)
  BY BoundsAssumption DEF NewThing, ThingStates, NoForm, Forms, NoNames, Names, Tokens, FormOk
<1>4. EmptyBag \in CallBags /\ DOMAIN EmptyBag = {}
  <2>1. EmptyBag = [e \in {} |-> 1]
    BY DEF EmptyBag, SetToBag
  <2>2. EmptyBag \in [{} -> Nat \ {0}]
    BY <2>1
  <2> QED BY <2>1, <2>2 DEF CallBags
<1>5. /\ auth = "" /\ page = "Login" /\ viewed = NoThing /\ logging = FALSE /\ things = {}
      /\ shadow = NoShadow /\ calls = EmptyBag /\ list = NewList /\ adding = FALSE
      /\ thing = NewThing /\ box = NoBox
  BY DEF Init
<1>6. World \in Worlds
  BY <1>1, <1>2, <1>3, <1>4, <1>5 DEF World, Worlds, Auths
<1>7. Sound(World)
  BY <1>3, <1>4, <1>5, <1>6, WorldFields DEF Sound, Awaited
<1>8. LoggedOut(World) /\ LoginBusy(World) /\ ListBusy(World) /\ PostBusy(World)
  BY <1>2, <1>3, <1>4, <1>5, WorldFields
  DEF LoggedOut, LoginBusy, ListBusy, PostBusy, Flying
<1>9. OthersInv
  <2>1. exists \subseteq Ids /\ tokens \in Tokens
    BY <1>1 DEF Init
  <2>2. conns \in [Conns -> {FreePlace} \cup {Stored(n) : n \in Typed}]
    BY DEF Init
  <2>3. ASSUME NEW c \in Conns
        PROVE  conns[c] \in ConnStates /\ NamesOk(conns[c].names)
    <3>1. conns[c] = FreePlace \/ \E n \in Typed : conns[c] = Stored(n)
      BY <2>2
    <3> QED BY <3>1, ConnNames
  <2> QED BY <2>1, <2>2, <2>3 DEF OthersInv
<1> QED BY <1>7, <1>8, <1>9 DEF PlaygroundInv, Fine

\* Every step keeps the invariant.
LEMMA PlaygroundStep == PlaygroundInv /\ [Next]_vars => PlaygroundInv'
<1> SUFFICES ASSUME PlaygroundInv, [Next]_vars  PROVE PlaygroundInv'
  OBVIOUS
<1>0. Fine(World) /\ OthersInv
  BY DEF PlaygroundInv
<1>1. OthersInv'
  BY <1>0, OthersStep
<1>2. Fine(World)'
  <2>1. CASE LogOut
    BY <1>0, <2>1, LogOutStep
  <2>2. CASE \E a \in Logins : LoginSubmit(a)
    BY <1>0, <2>2, LoginSubmitStep
  <2>3. CASE ~LogOut /\ \A a \in Logins : ~LoginSubmit(a)
    <3>1. PagesStep
      BY <2>3, SessionStep
    <3> QED BY <3>1 DEF PagesStep
  <2> QED BY <2>1, <2>2, <2>3
<1> QED BY <1>1, <1>2 DEF PlaygroundInv

\* So it holds in every reachable state.
LEMMA PlaygroundHolds == Spec => []PlaygroundInv
BY PlaygroundInit, PlaygroundStep, PTL DEF Spec

-----------------------------------------------------------------------------
(* The theorems.                                                           *)

\* All of the pages' state, the calls and the connections keep their types.
THEOREM PlaygroundTypes == Spec => []TypeOK
<1>1. PlaygroundInv => TypeOK
  <2> SUFFICES ASSUME PlaygroundInv  PROVE TypeOK
    OBVIOUS
  <2>1. World \in Worlds /\ (World.page = "Thing" <=> World.viewed # NoThing) /\ OthersInv
    BY DEF PlaygroundInv, Fine, Sound
  <2>2. calls \in CallBags
    BY <2>1, WorldFields DEF Worlds
  <2>3. DOMAIN calls \subseteq Calls /\ calls \in [DOMAIN calls -> Nat \ {0}]
    BY <2>2, BagOf
  <2>4. IsABag(calls) /\ BagToSet(calls) \subseteq Calls
    BY <2>3 DEF IsABag, BagToSet
  <2>5. WebTypeOK
    BY <2>1, <2>4, WorldFields DEF Worlds, WebTypeOK, OthersInv
  <2> QED BY <2>1, <2>5 DEF OthersInv, TypeOK
<1> QED BY <1>1, PlaygroundHolds, PTL

\* Whatever answers, clicks and navigations come in which order, who has no
\* credentials sees the login page (router.beforeEach, client.js on 401).
THEOREM LoggedOutSeesLogin == Spec => []LoggedOutShowsLogin
<1>1. PlaygroundInv => LoggedOutShowsLogin
  BY WorldFields DEF PlaygroundInv, Fine, LoggedOut, LoggedOutShowsLogin
<1> QED BY <1>1, PlaygroundHolds, PTL

\* The overlays of the login page and of the list and the spinner of
\* HttpPoster always have a call in flight that takes them away (Login.vue,
\* List.vue, HttpPoster.vue), and HttpPoster has one post at most.
THEOREM OverlaysHaveCause == Spec => []BusyHasCause
<1>1. PlaygroundInv => BusyHasCause
  <2> SUFFICES ASSUME PlaygroundInv  PROVE BusyHasCause
    OBVIOUS
  <2>1. \A k, o : InFlight(k, o) <=> Flying(World, k, o)
    BY WorldFields DEF InFlight, Flying, BagToSet
  <2>2. LoginBusy(World) /\ ListBusy(World) /\ PostBusy(World)
    BY DEF PlaygroundInv, Fine
  <2>3. /\ logging => InFlight("things", "login")
        /\ list.querying => InFlight("query", "list")
        /\ thing.submitting <=> InFlight("post", "thing")
    BY <2>1, <2>2, WorldFields DEF LoginBusy, ListBusy, PostBusy
  <2>4. ASSUME NEW c \in BagToSet(calls), NEW d \in BagToSet(calls),
               \A e \in {c, d} : e.kind = "post" /\ e.owner = "thing"
        PROVE  c = d /\ calls[c] = 1
    BY <2>2, <2>4, WorldFields DEF PostBusy, IsPost, BagToSet
  <2> QED BY <2>3, <2>4 DEF BusyHasCause
<1> QED BY <1>1, PlaygroundHolds, PTL

\* If nobody types a username over a selected one (MqttConnForm.vue), the
\* publish form of Set Reported uses a connection of the thing that its topic
\* names, on whichever event it opens (ShadowData.vue).
THEOREM ReportsReachTheirThing ==
  ASSUME NotRetyped
  PROVE  Spec => []ReportsToItsThing
<1>1. PlaygroundInv => ReportsToItsThing
  BY WorldFields DEF PlaygroundInv, Fine, Sound, FormOk, ReportsToItsThing
<1> QED BY <1>1, PlaygroundHolds, PTL

\* Once every call in flight is of the session, only the user ends it: the
\* interceptor signs each call, and only a 401 drops credentials (client.js).
THEOREM SessionIsKept == Spec => SessionLasts
<1>1. Settled <=> Signed(World)
  BY WorldFields DEF Settled, Signed, BagToSet
<1>2. Settled' <=> Signed(World)'
  BY DEF Settled, Signed, BagToSet, World
<1>3. PlaygroundInv /\ [Next]_vars
      => [Settled => Settled' \/ LogOut \/ \E a \in Logins : LoginSubmit(a)]_vars
  <2> SUFFICES ASSUME PlaygroundInv, [Next]_vars, Settled, ~LogOut,
                      \A a \in Logins : ~LoginSubmit(a)
               PROVE  Settled'
    OBVIOUS
  <2>1. PagesStep
    BY SessionStep
  <2> QED BY <1>1, <1>2, <2>1 DEF PagesStep
<1> QED BY <1>3, PlaygroundHolds, PTL DEF Spec, SessionLasts
=============================================================================
