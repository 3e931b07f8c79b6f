--------------------------- MODULE MCFollowupQueue ---------------------------
(* Model values for FollowupQueue: routes, redelivered ids and settings.     *)
EXTENDS FollowupQueue, TLC

CONSTANTS m1, m2, m3, m4

At(place, thread) == [place |-> place, thread |-> thread]
With(mode, cap, dropPolicy) == [mode |-> mode, cap |-> cap, dropPolicy |-> dropPolicy]

\* m2 is m1 delivered again; m3 comes from another topic of the same chat and
\* happens to have the same id; m4 has neither id nor route (an internal message).
Ids == m1 :> "a" @@ m2 :> "a" @@ m3 :> "a" @@ m4 :> NoId
Routes == m1 :> At("chat", "topic7") @@ m2 :> At("chat", "topic7")
              @@ m3 :> At("chat", "topic8") @@ m4 :> At(NoPlace, "none")
MixedId == [m \in Messages |-> Ids[m]]
MixedRoute == [m \in Messages |-> Routes[m]]
Topics == {"topic7", "topic8"}

\* Two threads of one room whose ids are event ids, as on Matrix.
RoomRoute == m1 :> At("room", "$x") @@ m2 :> At("room", "$y")
RoomId == m1 :> "a" @@ m2 :> "b"

\* Modes, caps and policies change between messages (/queue).
MixedSettings == {With("collect", 2, "summarize"), With("collect", 1, "old"),
                  With("followup", 0, "summarize"), With("followup", 1, "new")}
==============================================================================
