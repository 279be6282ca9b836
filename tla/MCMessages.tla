----------------------------- MODULE MCMessages -----------------------------
(***************************************************************************)
(* The messages of the small instances.  m1 and m2 are duplicates of one   *)
(* event of user u1; m3 is another event of u1; m4 is an event of u2       *)
(* without an id; m5 is one of u3; m6 is not an event.                     *)
(***************************************************************************)
EXTENDS ProcessEvent, TLC

CONSTANTS w1, w2, m1, m2, m3, m4, m5, m6, e1, e3, e5, u1, u2, u3, t1, t2, t3

\* The messages of a run are some of the six.
Of(f) == [m \in Messages |-> f[m]]

MCBody ==
  Of(m1 :> "event" @@ m2 :> "event" @@ m3 :> "event" @@ m4 :> "event"
     @@ m5 :> "event" @@ m6 :> "notEvent")

\* m6 with bytes that are not JSON at all.
BadBody == [MCBody EXCEPT ![m6] = "notJson"]

MCEventId ==
  Of(m1 :> e1 @@ m2 :> e1 @@ m3 :> e3 @@ m4 :> None @@ m5 :> e5 @@ m6 :> None)

MCUserId ==
  Of(m1 :> u1 @@ m2 :> u1 @@ m3 :> u1 @@ m4 :> u2 @@ m5 :> u3 @@ m6 :> None)

MCEventType ==
  Of(m1 :> t1 @@ m2 :> t1 @@ m3 :> t2 @@ m4 :> t1 @@ m5 :> t3 @@ m6 :> t1)

MCRules == t1 :> "ops" @@ t2 :> "noOps" @@ t3 :> "unmarshalable"

PoisonRules == t1 :> "ops" @@ t2 :> "ops" @@ t3 :> "unmarshalable"

AllOps == t1 :> "ops" @@ t2 :> "ops" @@ t3 :> "none"

StreamRules == t1 :> "ops" @@ t2 :> "ops" @@ t3 :> "noOps"
=============================================================================
