---------------------------- MODULE MCPlayground ----------------------------
(* Instances of Playground for TLC. *)
EXTENDS Playground

CONSTANTS t1, t2, c1

TwoThings == <<t1, t2>>

\* A username selected in the form, and one typed by hand.
Selected == {NamesOf(t1)}
SelectedOrTyped == {NamesOf(t1), [clientId |-> NoThing, username |-> t2]}

\* Bound: either the list has been queried, or a connection or Set Reported
\* has been used on pages that were not opened from the list.  What the list
\* holds and what connections do to it meet in web_list.
NotQueried ==
  /\ list = NewList /\ ~InFlight("query", "gone")
  /\ ~shadow.fromList /\ ~thing.isFromList
NotConnected ==
  tokens = 0 /\ conns = [c \in Conns |-> FreePlace] /\ box = NoBox /\ thing.form = NoForm
QueryOrConnect == NotQueried \/ NotConnected
=============================================================================
